# Verification of sotps

TLA+ models, model-checking configurations and machine-checked proofs about the
programs of `src/`: three operating-systems course projects in C, each a small
distributed system of processes that talk over TCP and share state between
threads.

| directory | system | processes |
|---|---|---|
| `src/kiss` | KISS (1C2022) | kernel, CPU, memory, consoles |
| `src/carpinchos` | CarpinchOS (2C2021) | kernel, memory, swamp (swap), carpinchos (client programs, with `matelib`) |
| `src/amongos` | AmongOS (1C2021) | Discordiador (scheduler), Mi-RAM-HQ (memory), i-Mongo-Store |

Names in the models are the source's names (Spanish, as there) wherever TLA+
allows it.

## 1. Inventory

### KISS kernel (`kiss/kernel/src`)

*State.* One list per process state (`colas[]`, each with its own mutex,
`colas.c`); six counting semaphores (`multiprogramacion`, `ready`, `blocked`,
`entrando_a_ready`, `ejecutando`, `planificacion`); the `t_proceso` records; three
sockets (memory, CPU dispatch, CPU interrupt).

*Operations.* Four threads that never end: long term (NEW or SUSPENDED_READY to
READY), short term (READY to EXEC), cpu (EXEC to READY, BLOCKED or EXIT) and
the I/O device (BLOCKED to READY or SUSPENDED_READY, and the suspension of those
blocked for too long). One handler thread per console puts a process in NEW. The
long-term thread, the cpu thread and the I/O thread each send requests to the memory
over *one* socket and wait there for the answer.

*Hard.* Everything is a hand-over between threads through a semaphore and a
queue that are not one critical section; BLOCKED is walked with no lock; the
memory socket is shared with no lock; unsigned countdowns; a preemption is
decided on a queue that changes before it takes effect.

*Correct when* no process is lost or in two places; no thread takes a process out
of an empty queue; one process runs; the degree of multiprogramming is respected through
suspension and return; a ready process has its tables; every process ends.

### KISS CPU (`kiss/cpu/src`)

*State.* The running PCB, the flag `desalojar` (set by the interrupt thread), the
TLB. *Operations.* Fetch, decode, fetch operands, execute, check interrupt; logical addresses go
through the TLB or, on a miss, through two requests to the memory.
*Hard.* A stale TLB entry; an interrupt that arrives for the process before.
*Correct when* every access reaches the frame that holds the page now.

### KISS memory (`kiss/memoria/src`)

*State.* First- and second-level tables, a bitmap of frames, the resident pages of
each process in clock order, the memory itself, one swap file per process;
three mutexes. *Operations.* One thread per connection (kernel, CPU) serves
INICIAR, SUSPENDER, FINALIZAR, PEDIR_TABLA, PEDIR_MARCO, LEER, ESCRIBIR;
replacement is CLOCK or CLOCK-M, local to a process. *Hard.* A write and the
mark that it happened are in two critical sections; a mark lost shows only when the page
comes back from swap; the victim's frame is reused at once; error returns leave a mutex
locked. *Correct when* a program reads what it last wrote; bitmap, residents and
tables agree; a frame is always found.

### KISS console and shared library (`kiss/consola`, `kiss/shared`)

The console sends a program and waits to be told of its end. The library has messages over
TCP, and the (de)serialization of PCBs and programs: formats, no state.

### AmongOS Discordiador (`amongos/Discordiador/src`)

*State.* Five queues, the semaphores `cpus_libres`, `contador_ready`,
`sem_planificacion`, `dispositivos_io`; per crew member a record with four
semaphores; the flags `pausa`, `planificando`, `emergencia`. *Operations.* A
planner thread, a thread per crew member that works through its tasks (CPU bursts, I/O,
movement), the console (start a crew, expel, pause, resume) and sabotage,
which empties READY and EXEC and then puts them back. *Hard.* Expulsion
against the planner, pause against new crew members, sabotage against everything.
*Correct when* CPUs and device are given back once and only once; what the planner waits for
is there; a pause stops the planner and ends; a member is in the queue of its state; every
member ends its tasks.

### AmongOS Mi-RAM-HQ (`amongos/Mi-RAM-HQ/src`)

*State.* The memory, one array of bytes, and one of two sets of tables. By segmentation: the
segments of each crew (its PCB, a TCB per member, its tasks) and the list of holes. By paging: the
pages of each crew, with frame, presence and use; the members not yet expelled; bitmaps of the frames
of the memory and of the swap file; the list of pages in memory and the hand of CLOCK. One mutex.
*Operations.* A thread per connection (the console's and one per member) serves
INICIAR_PATOTA, PROXIMA_TAREA, CAMBIAR_ESTADO, MOVER_TRIPULANTE and EXPULSAR_TRIPULANTE; a signal
compacts. *Hard.* A member's data move under it, by compaction or by replacement; a page
is shared by several members, the PCB and the tasks, and is freed when the last one leaves; the text of the
tasks is cut with `strtok` after the mutex is released. *Correct when* every cell of the memory is in one segment
or one hole, every frame in one page; what a member stored is what is read of it; it gets its crew's tasks
in order and once.

The map is compiled out (`MAPA_ACTIVADO` is 0), and i-Mongo-Store is a stub that sends a sabotage when it gets a signal.

### CarpinchOS swamp (`carpinchos/swamp/src`)

*State.* A few files of frames, a bitmap of each; per carpincho its file and its list of pages, each
with a frame and whether it is free. *Operations.* One memory at a time connects and says how frames are assigned:
HANDSHAKE_CARPINCHO, PAGE_READ, PAGE_WRITE, PAGE_REMOVE, CLOSE_CARPINCHO; when it goes
everything is cleared. *Hard.* Blocks of frames are taken without a look at all but the first; page numbers are places in
a list, so they change when one is removed; bitmaps are longer than the files; what one memory leaves
must not reach the next. *Correct when* a frame has one page, bitmaps and pages agree, free frames
are clean, and a request touches no other carpincho.

### CarpinchOS memory and kernel

The memory has a TLB and page replacement over swamp, unfinished in this version
(`paginacion.c` is commented out, nothing calls `pagina.c` and `tlb.c`, and `memoria.c`
calls functions that do not exist); the kernel only answers handshakes and forwards messages.

The hazards of all of them are listed, at their lines, in `PROJECT.json`.

## 2. Modules

| module | models |
|---|---|
| `Planificacion` | the KISS kernel: queues, semaphores, four threads, consoles, and the memory and the CPU as the kernel sees them |
| `CicloDeVida` | what the kernel promises: the seven-state life cycle, one process in the CPU, GRADO in memory |
| `PlanificacionCiclo` | the refinement mapping from `Planificacion` to `CicloDeVida` |
| `Paginacion` | the KISS memory process: tables, frames, CLOCK and CLOCK-M, swap, one operator per handler |
| `MemoriaVirtual` | `Paginacion` used from both connections at once: by the CPU (MMU, TLB, instructions) and by the kernel (through `CicloDeVida`) |
| `MemoriaAbstracta` | what a program is promised: a flat memory of its own, in which its instructions do what they ask |
| `Discordiador` | the scheduler of AmongOS: planner, crew members, console, sabotage |
| `EstructurasRAM` | what Mi-RAM-HQ keeps in its memory: PCBs, TCBs, tasks |
| `Segmentacion` | segmentation: holes, first and best fit, compaction, one operator per function |
| `PaginacionRAM` | paging: frames, LRU and CLOCK, the swap file, pages shared by members |
| `MiRAM` | the server Mi-RAM-HQ with either scheme, and the Discordiador as its client |
| `TripulacionAbstracta` | what each request to Mi-RAM-HQ does, whatever its scheme: to one member's data, and to its tasks in order |
| `Swamp` | the swap of CarpinchOS, fixed and global allocation |
| `SwapAbstracto` | what the memory of CarpinchOS expects of a swap |
| `MCPlanificacion`, `MCMemoriaVirtual`, `MCDiscordiador`, `MCMiRAM`, `MCSwamp` | instances for TLC |
| `Lemas` | lemmas on the sequence operators the models share, and on folds over sequences |
| `PlanificacionProofs` | proofs: types, semaphores, no empty queue, one process in the CPU; one place for each process; who is suspended or loaded, the degree of multiprogramming, the refinement of `CicloDeVida` |
| `CicloDeVidaProofs` | proofs about the abstract life cycle |
| `SwampProofs` | proofs: frames, contents and the refinement of `SwapAbstracto` |
| `MemoriaVirtualProofs` | proofs: tables, frames, replacement, TLB, swap and the refinement of `MemoriaAbstracta` |
| `SegmentacionProofs` | proofs: what each function of `Segmentacion` does to segments and holes |
| `MiRAMProofs` | proofs: what each function of `PaginacionRAM` does to pages and frames, and the invariants of the server with either scheme |
| `DiscordiadorProofs` | proofs: types, the pause, the mutexes, the queues and the turns of the crew, CPUs and device |

Operators whose comment starts with *Slip* are plausible mistakes in the definition that
follows them. No specification uses them; each is what breaks one property when it takes
that definition's place, and shows that the property depends on it.

### Planificacion

One action is one operation another thread can see: a `sem_wait` or a
`sem_post`, an operation on a queue (each is one critical section of that queue's mutex), a send or a
receive. `pc[h]` names the operation thread `h` is about to do and `mano[h]` the process in its local
variable `p`. `cola[e]` is `colas[e]`, `sem[s]` the value of a semaphore,
`pedidos` and `respuestas` the two directions of the memory socket.

* `suspender_procesos` runs with no mutex: each turn of its loop is an action
  (`IoContarBloqueo`), with the index in `cursor`, and the cpu thread may append to BLOCKED between turns.
* `recibir_numero` on the shared socket takes whatever answer is first:
  `LargoRecibirTabla`, `CpuRecibirFinalizar` and `IoRecibirSuspender` all take `Head(respuestas)`.
* `bloqueo_restante` is unsigned: `Restante` subtracts modulo `MODULO`.
* The memory answers in order. A table number is the process it was created for. A
  request with a number that is no table leaves `trabada` set, which stands for `mutex_tablas`
  left locked (`proceso.c:74-77`, `90-93`); a process in `Grandes` is answered -1 (`proceso.c:58-61`).
* The CPU is one action, `DevolverProceso`: EXIT when the program has no I/O left, BLOCKED
  at an I/O, and under SRT READY at any moment. The interrupt that causes
  the last is not tracked, so the model has more preemptions than the code, never fewer.
* The estimate of a burst depends on the clock: `CpuRecibirPcb` lets it become any member of `Estimaciones`.
* A process that was destroyed is in `finalizados`.

### Paginacion and MemoriaVirtual

An operator of `Paginacion` is what one handler does while it holds
`mutex_tablas`. Pages hold one word, since the offset takes no part in any
decision, and the two passes of each replacement algorithm are stated by what they choose:
`ReemplazarClock` and `ReemplazarClockModificado` give the place of the victim in the list of residents and the
places that lose their use bit; the list is rotated as `list_remove` and `list_add` leave it.

`MemoriaVirtual` runs the two connections of the memory against each other.
What is split in steps is what the code splits: `iniciar_proceso` (tables, then swap file),
`memoria_escribir` (write, then mark), an instruction (translation, then access; COPY is a
read and then a write). A TLB miss is one step: PEDIR_TABLA reads tables that never change
once their process has started, the TLB belongs to the CPU alone, and only PEDIR_MARCO
touches what another thread may see.

The environment is what the kernel does: `CicloDeVida` gives the order of
start, suspension and end, and `Planificacion` is checked to implement it.
Restrictions, each in a named assumption or a guard:

* programs address pages of their own, so the error returns of `memoria_pedir_tabla` and
  `memoria_pedir_marco` (which leave `mutex_tablas` locked) are never taken;
* `TablasEnteras`: a process has at most two tables, or full ones, because
  `entradas_tabla_intermedia` (`proceso.c:37-41`) gives middle tables the size of
  the last. The test programs have such sizes;
* `GRADO * MARCOS_POR_PROCESO <= CANTIDAD_MARCOS`, as in every configuration of
  `kiss/pruebas`;
* the kernel's answers are not crossed (the `planificacion_cruce` run is about that);
* swap files can be opened, mapped and removed.

### Discordiador

An action is one wait or post, or one critical section; `pc[h]` is where thread `h` is.
`cambiar_estado`, which every thread calls, is a small machine of its own in `cambio[h]`: take
the member's mutex (and give the CPU back), out of a queue, into another. While `cambio[h]` is
set the thread does nothing else, so a caller's next action waits for the call to return. `cambiar_estado_soft` is
the same without the mutex and without the state. `sem` has the global semaphores and
`trip[t]` the fields and semaphores of a member with the locals of its thread.

* `todos_los_semaforos` holds every queue's mutex while it waits for the members one by one:
  `colas_tomadas` is that, and every operation on a queue waits for it.
* The thread of a member starts before the member is in a queue (`IniciarTripulante`, then `IniciarEncolar`).
* A list read without its lock is read so: `IniciarNuevo` takes the head of NEW as it is
  then, and when it is empty the process falls (`IniciarCaida`), after which nothing moves.
* The console runs one command at a time and looks at `emergencia` only before it.
* One coordinate stands for two: the code moves along one axis, then along the other. Mi-RAM-HQ
  is left out except for what it answers, the next task of the crew's file (`TAREAS`); `MiRAM` has the other side.
* `EstanTodos` and `FaltaAlguno` read the members of a crew in one step; a member in EXIT stays there,
  so the answer "all are in EXIT" is the same one by one.

### Segmentacion, PaginacionRAM and MiRAM

The memory is an array of cells: a field of a PCB or a TCB, or a character of the tasks, is one
cell, tagged with what it is, so reading one thing for another shows. Addresses, sizes, offsets and
the pages a TCB touches are computed as in the code, from `TAM_PCB` and `TAM_TCB` (2 and 4 cells for
8 and 21 bytes); the two coordinates are one.

Everything a request does to the memory is between one `sem_wait(&mutex_memoria)` and its
`sem_post`, so a function is an operator on the record of the globals (`seg` or `pag`), and a request one action of
`MiRAM`. The exception is PROXIMA_TAREA with segmentation: `ProximaTareaSeg` is the part under the mutex,
then each call of `strtok` is an action (`Separar`), with its static position in `resto`.

* A bad address (a null pointer, a frame -1) ends the process: `caida`. After that nothing moves. This is where
  replacement ends in this version: `guardar_paginas` does not list the pages it saves
  in `paginas_memoria`, so LRU dies at the first use of a page, and CLOCK when no frame is free. A variant of the model that
  lists them, not kept here, satisfied `ImplementaTripulacion` with replacement too.
* `IniciarPatota` also cuts a text with `strtok`, the positions of the members (`segmentacion.c:183`), under the mutex.
  Its calls are one step, which leaves `strtok` with no text: a request that is cutting its tasks then loses what it had left, as in
  the code, but that the two take some of each other's words in between is not modelled. The run that has two texts cut at once, `ram_strtok`, shows the
  consequence between two requests for a task.
* A field never straddles two pages: it is one cell, so `Editar` writes in one page what the code may write in two
  (`paginacion.c:343-361`), and `Recorrer` reads the address of the tasks whole (`paginacion.c:468-475`).
* The console starts crews one at a time, and each member asks for its first task before the next is
  started (`iniciar_tripulante`); then each member speaks on its own connection, and waits for its answers.
* What a hole holds is not kept (`Basura`): a member whose data were read there would have -1 in `ImplementaTripulacion`.

`TripulacionAbstracta` says nothing of memory: it has one operation for each request. `ImplementaTripulacion` reads each member's state,
place and next task through the tables of the scheme, and says of each action of `MiRAM` which operation it is: a change of state is that state, of that member;
the answer to a request for a task is the next one of the crew, given to whom asked; and a compaction, or cutting a text, changes nothing. A change
applied to another member, or a field spoiled by what moves, is no operation. It is stated while one text at a time is cut (`MaxSeparando` = 1), since `TareasPropias` fails
with two, and of the steps that leave the process alive.

### Swamp

A request is one action: the process has one thread, and the client waits for each answer. The memory may ask for
anything `swap.c` can ask, of any carpincho and any page, known or not. Pages have one of two contents, or zeros. A
bitmap is the set of frames in use. `Sigue` is the loop that serves requests until the memory goes (`Desconectar`).

* `bitarray_create` is given as many bytes as it needs bits, so a search in a full file goes on in the heap
  after the bitmap: `EscribirDinamica` may find nothing there (-1), or a bit in 0, a frame out of the file (`caida`).
* Under FIJA `escribir_pagina` takes the first free page whatever page was asked for: `EscribirFija` does so. What it
  breaks is the promise of `SwapAbstracto`, so `ImplementaSwap` is about DINAMICA; `MarcosPropios`,
  `MarcosLimpios` and `OtrosQuietos` are about both.
* `Pedido(pid)` is any request for one carpincho. `OtrosQuietos` says of it that every other carpincho is open or closed as before, with the
  same pages, frames and contents: under FIJA, where nothing else is said of contents, a write may go to another page but not to another carpincho.

## 3. Runs

| run | question | bounds |
|---|---|---|
| `planificacion_fifo` | do queues, semaphores, hands and the degree of multiprogramming stay consistent, and do the threads implement the life cycle? | 3 processes, GRADO 2, one I/O each of one or two turns of the device, suspension at the second turn |
| `planificacion_srt` | the same with preemption and ordered insertion | 2 processes, GRADO 2, estimates 1 and 2, I/O of one or two turns, suspension at the second |
| `planificacion_termina` | does every process end, with no deadlock? | 3 processes, GRADO 1, FIFO, fair threads |
| `planificacion_cruce` | is the number a process gets as its table the one meant for it? (violated) | 2 processes, GRADO 2, no I/O |
| `planificacion_grande` | does the memory answer every INICIAR_PROCESO? (violated) | 2 processes, one too big |
| `memoria_relojes` | does a memory with replacement, write-back and suspension do what each instruction asks, as a flat one would, also when two processes share frames, bitmap and TLB? | one process with 3 pages in 2 tables, 2 frames, CLOCK-M, TLB of 1 (FIFO), 5 instructions; or two processes (2 pages and 1) with a frame each, CLOCK, TLB of 2 (LRU), 3 instructions |
| `discordiador_ordenes` | do CPUs, device, pause and queues stay consistent while the console pauses, resumes and expels, or a sabotage arrives at any moment, also while a crew is started or the planning resumed? | a crew of 2, one CPU, FIFO; an I/O task, one pause and one expulsion; or a CPU task a step away and one sabotage |
| `discordiador_termina` | does every member end its tasks, with no deadlock? | a crew of 2, an I/O task of two turns and a CPU task, two CPUs and one device, RR with quantum 1 |
| `discordiador_emergencia` | does a sabotage end? (violated) | one member, one pause, one sabotage |
| `ram_esquemas` | is memory never lost nor shared, does each request change the member it is for and no other, and does each get its tasks in order, whatever the scheme? | crews of 3 and of 1, one task and two; 21 cells by FF or BF, or 5 frames of 5 cells and one of swap by LRU or CLOCK; one change of state or place in all |
| `ram_strtok` | is a member only told tasks of its own crew? (violated) | the same crews, 27 cells, two texts cut at once |
| `swamp` | are frames never shared nor lost, and is it the swap the memory expects? | 3 carpinchos, 2 contents, pages 0 to 2, blocks of 2 frames; two files of 2 frames, or one of 4, or one of 3 |

*Why the bounds are enough.* Three processes and two places are the least for
which one process waits in NEW while one is suspended and another runs. I/O of one and of
two turns, with suspension at the second, covers waking before and after a suspension and
being suspended behind another. Two frames and three pages are the least for which the clock hand has a choice;
five instructions are enough to write a page, evict it, bring it back and read
it. With two processes a frame freed by one is taken by the other while its page
table still names it. For the Discordiador two members are the least that compete for the CPU or the device
and for which one is the nearest to a sabotage and the other is not; one pause with its
resume, one expulsion or one sabotage at any moment meets every other operation half way. With two expulsions, or all
three commands together, nothing new takes part, and the states are too many.

The `pausas`, `expulsiones` and `sabotajes` of a scenario bound the commands given to the Discordiador; `MaxCambios` and
`MaxSeparando` the changes and the texts being cut in Mi-RAM-HQ; `MaxPagina` the pages asked of swamp.
`MaxIO` bounds the I/O instructions of a program, `instrucciones` the memory
instructions executed; `MODULO` stands for 2^32; `tiempo_bloqueado` is capped at
`TIEMPO_MAXIMO`, the only value it is compared with. Processes are interchangeable, so the FIFO and SRT
runs use symmetry.

In `ram_esquemas` both crews do not fit in the 21 cells, so one must shrink before the other comes, between holes that only a compaction joins;
with pages of five cells the first crew's TCBs share pages with each other, with the PCB and with the tasks. In `swamp`
three carpinchos and two blocks make one wait for another's frames, a file of 3 frames has one that no block can use, and page 2
is one more than a block has.

A run with more than one configuration chooses it in `Init` (`config`, `usos.escenario`) and never changes it.

*Deadlock* is checked where the system must not stop (`planificacion_termina`, `discordiador_termina`; a
state where all ended is given a stuttering step, `Reposo`). The Discordiador does stop after an expulsion
or a sabotage, as the hazards say, so its other runs do not check it. In the other runs of
the scheduler a crossed answer may stop the memory, as the findings say, and in the
run of the memory the bound on instructions is an end; Mi-RAM-HQ and swamp may die of a bad address.

*Fairness.* `SpecJusta` has weak fairness for each thread, each console, the CPU
and the memory: they are loops of a thread or a process that the operating system runs.
Each semaphore is waited for by one thread, so no choice between waiters is made, and each thread has one
enabled action at most: weak fairness is all that liveness needs. Programs are finite.
In the Discordiador several threads do wait for one semaphore, and `sem_wait` does not promise an order; tasks are
finite too, so the others stop taking what one waits for, and weak fairness of
each thread is enough. The console is fair only in the commands it has begun: giving them is up to the user.

*Findings.* `planificacion_cruce`: one socket, three threads and no lock
(`kernel/src/memoria.c`), so an answer goes to whichever thread reads
first. `planificacion_grande`: a process too big for its tables is admitted with table -1,
and its end leaves the memory's mutex locked.
With GRADO 1 (`planificacion_termina`) no two threads wait for the memory at once, and
everything ends.
`ram_strtok`: the text of the tasks is cut with `strtok` outside the mutex (`segmentacion.c:370`), so two requests at once cut each
other's text. `discordiador_emergencia`: `todos_los_semaforos` pauses and resumes the members it finds in the queues, and one that is
between two of them is missed. Missed by a resume, it stays paused, and the pause of the
next sabotage waits for it for ever, with every queue and `mutex_pausa` taken and the console refusing commands.

What holds in the Discordiador holds with its conditions, which are part of the properties: `CpusConservadas` is an
equation without expulsions and sabotages and an inequality with them, because the planner that finds READY empty does not give its CPU back
(`planificacion.c:22-25`). That the member with the device is in BLOCKED excepts the expelled, who keep the device, and sabotages: an `iniciar`
the console began just before one resumes the planner in the middle of it, a member asks for an I/O while the sabotage has it
in another queue, and is later put in READY and passed to EXEC with the device. `EnSuCola` is stated
without sabotages, because a member that is still ending its turn while a sabotage moves it ends in two queues (the sabotage
reads the state of each member twice with no lock, in `SaboBloquear` and `SaboBloquearSuave`, and the member may change it in between). These are listed
as hazards, at their lines.

`EnSuCola` excepts a member at two moments only: while the console has created it and has yet to put it in its first queue, which the code does
one call later (`PorEncolar`), and while a thread has it between two queues (`Cambiando`). At any other it is once in the queue of its state
and in no other, EXIT too, until its crew is told to destroy itself (`sem_destruir`), and then in none. A member lost from every queue breaks it. When two members
of a crew both find that all are in EXIT, both destroy it: the second may use what the first freed (`tripulante.c:232-241`), which the model does not
follow, as members that are not in EXIT are just not found.

`TodosTerminan` holds for I/O times that are multiples of the device's period, the ones `planificacion_termina` has.
`bloqueo_restante` is unsigned and counts down to exactly 0 (`planificacion.c:133`): with `TiemposIO = {3}` the same property
is violated, as an odd time never ends.

*ImplementaMemoria* is the refinement of `MemoriaAbstracta`: the contents of a page is its
frame's if it is present and its swap file's if not. The abstract memory has who is in the CPU, the instruction it is
executing and the last word read, so it binds each operation to what was asked: `Leer` and `Escribir` are of the process in the CPU and of the page
and the word of its instruction, a COPY writes what it has just read, and `Terminar` is of a process that asked to end. Any other step changes no word of
anybody. An eviction or a suspension that loses a word, an access through a stale TLB entry to the page of another
process, a lost modified mark, a frame freed too early or a swap file not cleared all break it, some of them steps later.

## 4. Proofs

For every set of processes, every degree, both algorithms and every
constant that satisfies `ConstantesAssumption`, `PlanificacionProofs` proves that
`Planificacion` keeps

* `TypeOK` (theorem `TiposSiempre`),
* `SemaforosEnBalance` (`BalanceSiempre`): each semaphore agrees with the queue it counts,
* `SinNulos` (`NuncaNulos`): no thread takes a process out of an empty queue,
* `UnoEnEjecucion` (`UnoALaVez`).

The argument is the inductive invariant `Inductiva` (`InductivaSiempre`). None of the last two is
inductive: that READY is not empty when the short-term thread pops it follows from *how many* units
of `ready` are anywhere, in the semaphore or in a thread that took one or is about to post one, and that is `ReadyEnBalance`, an equation between
a counter, three program counters and a length. The equations in turn need to know
what each thread holds at each point (`ManosSegunPunto`) and that what a
thread saw in a queue is there when it comes back (`ColasSegunPunto`): the head of
BLOCKED while the device sleeps, the process in EXEC while the CPU runs it. One lemma
per part (`TipoPaso`, `ManosPaso`, `BalancePaso`, `ColasPaso`) has one step per action; the
small lemmas before them say what each queue operation does to types and lengths, with
`Lemas` for the sequence operators of the community modules.

Its second part proves `UnSoloLugar` (`UnSoloLugarSiempre`). The inductive invariant, `Lugares`, names the *sites* a
process may be in: a queue, the hands of a thread, or outside. A thread has a process in its hands only while no
queue has it: the local variable `p` of the CPU thread is set while the process is still in EXEC, and that of the I/O
thread while it is in BLOCKED, so `Agarra` says from which point on. `Lugares` adds to `Inductiva` that no queue repeats a process,
that each process is in one site exactly, and that who is being ended or suspended is still in EXIT or BLOCKED. One lemma for each
action that moves somebody says which (`Mudanza(p, x, y)`: p goes from x to y and all others stay), and `PasosQuietos` that
the rest move nobody; `Flechas` are the ways of each thread, so what one thread relies on is kept by the others if none
of their ways starts there. From the sites to `UnSoloLugar` there is a count: a list without repetitions is no longer than the set its elements come from.

The third part builds on the sites:

* `ListosCargados` (`ListosCargadosSiempre`), from the invariant `Cargados`: only a process in BLOCKED, SUSPENDED_READY or the hands of the threads
  between them is suspended, and only one that is outside, in NEW or in the hands of the long-term thread before the memory's answer lacks its table.
* `CuposConservados` (`CuposSiempre`), inductive together with `Cargados`: `OcupantesPaso` says that three actions change the set of
  processes that have a place, by one process each, and `ReservaPaso` that the same three, in the same direction, change the units nobody has.
* `ImplementaCiclo` (`PlanificacionImplementaCiclo`): the state of a process is a function of its site and of `suspendido`
  (`EstadoDeSitio`), so each `Mudanza` is one step of `CicloDeVida` or none. That a process is admitted with a place free is `CuposConservados`, and that
  one is dispatched with the CPU free is the balance of the turn. With it the kernel inherits what `CicloDeVidaProofs` proves of the abstract life
  cycle: one process in the CPU (`CicloUnoEnCpu`) and, for a finite set of processes, at most GRADO in memory (`CicloGrado`).

All this holds also with processes too big for the memory and with crossed answers: the number a process gets may be
wrong (`planificacion_cruce`), but it waits for one.

`SwampProofs` proves, for any files, blocks and carpinchos, `TypeOK`, `MarcosPropios`, `MarcosLimpios`, `OtrosQuietos` and `ImplementaSwap`. Under FIJA only the
first frame of a block is looked at (`swap.c`), so that the whole block is free is what must be inductive:
`Inductiva` says that each carpincho's frames begin at a multiple of the block and are all its own, and that the pages it has use the first of them. What
a request does to the tables is stated once (`Cambio`: the pages of one carpincho change, to frames that were its own or
nobody's), and each request is shown to be one. `OtrosQuietos` follows from it: the carpincho of the `Cambio` is the one of the request (`Pedido`), and
the frames of the others are neither those it had nor those it gets.

`DiscordiadorProofs` proves, for any crews, tasks, orders and sabotages, that the Discordiador keeps `TypeOK`, `PlanificacionPausada`, `EnSuCola`,
`NadieQuedaEnNew`, `CpusConservadas`, `DispositivoEnBlocked` and `ReadyContados`: all the invariants that its runs check.
The invariants come in layers, each using the ones before:

* `Tipos`, with `Puestos`, what a thread has at each point (a list that is not empty, a task still to do).
* `PausaBien`: who is between taking and leaving `mutex_pausa`, and where the unit of `sem_planificacion` is.
* `HuellaDelPaso` says, for the step of any thread, all it may do to the calls, the mutexes and the states of others, so the layers that follow have a case
  for each of the few kinds of step and not for each of the sixty actions.
* `LlamadasBien` and `MutexBien`: between `CambiarTomar` and `CambiarAgregar` the thread holds the mutex of the member it moves, so two threads
  never move the same one. From it, `CpusAcotadas`: a CPU given back is one that a member had, once.
* `VivosBien`: whoever is in a queue, in a list or in a call has been started, so a member is started once. From it, `UnSoloDispositivo`.
* `ColasBien`, one half of `EnSuCola`: no queue repeats a member, a member is in no queue but that of its state, and in none while its mover
  has it between two. With sabotages only NEW is so.
* `ColasLlenas`, the other half, without sabotages: nobody is lost. Who the console has yet to enqueue waits in no queue, with nothing to wake it (`SinEncolar`, `Quieto`), so
  it is not moved nor ends before; from then on it is in the queue of its state unless somebody has it between two (`Encolado`), and who is told to destroy itself
  has left EXIT and enters no queue again (`Salido`). That the queue it was in is the one it is taken out of, and that only the end of its crew takes it out of EXIT, is
  the work of each step.
* `NuevasBien`: an order that empties NEW has in its list at least as many turns left as there are members in it, and out of a pause with
  `mutex_pausa` free there is nobody.
* `Turnos`, while nobody is expelled and there is no sabotage: the state of a member tells where its thread is, what its
  semaphore holds, and which call it may be in (`TurnoBien`), and the planner calls only on members in READY and the console on members in NEW
  until they have them out of the queue (`Llama`). So of the threads that call on one member only one has yet to take it (`UnicaLlamada`): without it
  the planner could pass to EXEC a member that has just gone on to BLOCKED, and the counts would drift. An expulsion breaks it at once (it posts the
  semaphore of a member whatever its turn), which is why the properties that rest on it have that condition. From it, `DispositivoEnBlocked`.
* `CuentasBien`: the members in READY are those of `contador_ready` and of the planner's hand, and the CPUs are all somewhere. It is
  `ReadyContados` and `CpusConservadas` as one, for the first gives the planner somebody for each CPU.

`MemoriaVirtualProofs` proves, for any processes, tables, frames and TLB and for CLOCK and CLOCK-M, that `MemoriaVirtual` keeps `TypeOK`, `MarcosEnRegla`,
`HayMarco`, `TLBCoherente`, `LimpiasEnSwap`, `EscrituraEncuentra` and `VictimaMinima`, and that it implements `MemoriaAbstracta` (`MemoriaRefina`). Again in layers:

* `Dentro`, the life cycle of the processes, and the degree of multiprogramming, `GradoRespetado`.
* `Tablas`: the walk of the MMU through both levels, from the pcb of a process, ends in the entry of the page it is for. It is where
  `TablasEnteras` is needed: the proof fails, as the code does, for sizes that give a last table of another length (`proceso.c:38`).
* `Curso`: while an instruction is in course its process is in the CPU and the page is one of its own.
* `Coherente`, whose parts are inductive only together. `Memoria` says that lists, presence bits and frames agree; `Acceso`, that once translated an
  instruction has the frame of its page; `EnTLB`, that each entry is a page present in that frame, each page once; and `Limpias`, that swap has the
  pages that are not modified. The TLB is right because it forgets the frame that a fault takes over, and at each change of process; the frame of a write stays its page's
  because between its two halves only other processes, those that do not run, lose theirs.

Each action is first reduced to what it does to pages and frames: a fault is `Trae` (a page comes, into a free frame or that of one page
of the same process that leaves), suspending and ending are `Suelta` (a process gives back all its frames) and the rest `Mismas`; the preservation of each part is
proved from those summaries. `HayMarco` is a count: if no frame were free, the lists of the processes in memory would cover all
the frames; but they are GRADO lists at most, none longer than `MARCOS_POR_PROCESO` and one shorter. `TypeOK` includes the `pcb`s, both levels of tables,
the frame and the instruction in course. In the refinement an access maps to `Leer` or `Escribir` of the process in the CPU and of the page its instruction
names, since `Acceso` has the frame of that page; the second step of a write, the mark, maps to none. Dispatch and return map to `Entrar` and `Dejar`, the end
of a process to `Terminar`; a fault, an eviction and a suspension change no word of anybody, and that is `Limpias`.

`MiRAMProofs`, on `SegmentacionProofs`, proves for any crews, texts, sizes, criteria and replacement that `MiRAM` keeps `ParticionMemoria` (`MemoriaRepartida`),
`FramesPropios` (`FramesDeUnaPagina`), `PaginasVivas` (`PaginasDeQuienQueda`) and `TypeOK` (`MemoriaTipo`): all the invariants of `ram_esquemas`. The invariant is
`Invariante` (`RamInvariante`), with three parts:

* `FasesInv`: the crews are started in order, and who asks for a task is connected.
* `SegInv`, with segmentation. `Repartida`, the partition itself, is not inductive: an expulsion removes the segment that `buscar_tcb` finds, and the last one of the crew
  when it finds none (`segmentacion.c`), so it must be known that each member that is connected has its TCB (`Presente`), that a segment between the first and the last is of a TCB's size
  (`TCBs`), and that no two segments of all the crews are one (`Unico`).
* `PagInv`, with paging. `Cuadros` (a page for each frame in use) and `Lista` (the pages that the replacement may choose are in the memory, once) are kept
  by every operation on pages for any set of them that have a frame. An expulsion frees the pages that `direccion_tareas`, read from the PCB, leaves before the tasks, so
  what the *cells* hold is in the invariant too: `ProcesoBien` says that the cell of the PCB is where the tasks are, in whatever frame of the memory
  or of the swap file its page is now, and that the pages of the members that are left have a frame (`Vivas`).

Lists and tables are walked with folds (`SegGuardarPatota`, `PagGuardarPatota`, `Recorrer`, `SegEliminarPCB`, `Compactacion`). What a fold computes needs no induction over data when the
steps can be put in a row: `Lemas` shows that there is a function from 0..n with the first value, each turn after the one before, and the
fold at n (`Recurrencia`, `FilaRecorre`), and then an invariant of the turns is an induction over the set of the numbers of turns after which it holds (`Induccion`).
An operation that ends in a bad address (`caida`) leaves the tables as they were, so all this holds until the process dies, and nothing is said after.

The assumptions on constants are those the modules declare: `ConstantesAssumption` (`Planificacion`), `PaginacionAssumption` and `MemoriaVirtualAssumption`
(the KISS memory: the frames are enough for what the processes in memory may ask for, which `HayMarco` needs), `SwampAssumption`, `DiscordiadorAssumption` and
`NombresAssumption` (no crew member is called as another thread), `EstructurasAssumption` (tasks are not empty and have no commas; each crew has members) and `MiRAMAssumption`.

*Only model-checked:* the refinement `ImplementaTripulacion` of `MiRAM`, and liveness. The refinement is not out of the prover's
reach but is not proved: beyond `RamInvariante` it needs the *contents* of the memory (that every live byte of a member and of the
text of the crew survives each move, in both schemes) and, for the tasks, which one each token of the text is; and, as said, it needs
`MaxSeparando` = 1, since `strtok` keeps its place in a static.
Liveness under fairness and ENABLED are beyond the prover.

## 5. Not modelled

Serialization, parsing and configuration (no state); handshakes at start (sequential, before any thread);
the SIGINT handlers; interfaces (map, console text), listings and dumps; delays. The memory of CarpinchOS does not compile in
this version and its kernel keeps no state of its own; i-Mongo-Store is a stub. What Mi-RAM-HQ and swamp do after a bad address is
undefined, and ends the model. The reasons, component by component, are in `PROJECT.json`.

## 6. Plan

1. *Done:* the KISS kernel, its life cycle, the KISS memory and MMU, and the first proofs.
2. *Done:* the Discordiador; Mi-RAM-HQ with both schemes; swamp.
3. *Done:* the proofs about swamp, about where the processes of the KISS kernel are, its degree of multiprogramming and its refinement of `CicloDeVida`.
   Those about the Discordiador: every invariant of its runs. Those about the KISS memory: every invariant of its run and its refinement of `MemoriaAbstracta`.
4. *Done:* the proofs about Mi-RAM-HQ: every invariant of its run of both schemes.
