---------------------------- MODULE Planificacion ----------------------------
(***************************************************************************)
(* The process scheduler of the KISS kernel (src/kiss/kernel/src): the     *)
(* queues of colas.c, the counting semaphores of planificacion.c, its four *)
(* threads (long term, short term, CPU and I/O device), the handler thread *)
(* of each console, and the exchange with the memory module over the one   *)
(* socket that three of those threads share (memoria.c).                   *)
(*                                                                         *)
(* Every action is one operation another thread can see: a wait or a post  *)
(* on a semaphore, an operation on a queue (each runs under that queue's   *)
(* own mutex), a send or a receive.  The CPU process is the action         *)
(* DevolverProceso, which returns a process for any reason its program, or *)
(* an interrupt, may give.                                                 *)
(***************************************************************************)
EXTENDS Integers, SequencesExt

CONSTANTS
  Procesos,            \* one per console that sends its instructions
  GRADO,               \* kernel_config->grado_multiprogramacion
  ALGORITMO,           \* "FIFO" or "SRT"
  TIEMPO_MAXIMO,       \* kernel_config->tiempo_maximo_bloqueo, in ms
  MS_BETWEEN_IO_CHECK, \* the period of the I/O device, in ms
  MODULO,              \* 2^32 in the code: bloqueo_restante is a uint32_t
  TiemposIO,           \* the times an I/O instruction may ask for, in ms
  MaxIO,               \* bound: I/O instructions in a program
  Estimaciones,        \* the values estimacion_rafaga takes
  Grandes,             \* processes that do not fit the memory's page tables
  NULL

Estados == {"NEW", "READY", "EXEC", "BLOCKED", "EXIT", "SUSPENDED_READY"}
Semaforos == {"multiprogramacion", "ready", "blocked", "entrando_a_ready",
              "ejecutando", "planificacion"}
Hilos == {"largo", "corto", "cpu", "io"}

ASSUME ConstantesAssumption ==
  /\ IsFiniteSet(Procesos)
  /\ GRADO \in Nat \ {0}
  /\ ALGORITMO \in {"FIFO", "SRT"}
  /\ TIEMPO_MAXIMO \in Nat
  /\ MS_BETWEEN_IO_CHECK \in Nat \ {0}
  /\ MODULO \in Nat \ {0}
  /\ TiemposIO \subseteq 1..(MODULO - 1)
  /\ MaxIO \in Nat
  /\ Estimaciones \subseteq Nat /\ Estimaciones # {}
  /\ Grandes \subseteq Procesos
  /\ NULL \notin Procesos \cup {"-1", "FINALIZAR_PROCESO", "SUSPENDER_PROCESO"}
  /\ {"-1", "FINALIZAR_PROCESO", "SUSPENDER_PROCESO"} \cap Procesos = {}

VARIABLES
  cola,       \* colas[]: the queue of each state
  sem,        \* the value of each semaphore
  pc,         \* where each kernel thread is
  mano,       \* the process each thread has in its local variable
  consola,    \* the progress of each console's handler thread
  finalizados,\* the processes destroyed, whose consoles were told
  proc,       \* the fields of each t_proceso
  cursor,     \* the index of the loop of suspender_procesos
  destino,    \* nuevo_estado in ejecutar_proceso
  dispatch,   \* the PCB on its way to, or in, the CPU
  devolucion, \* the CPU's answer
  quedan,     \* I/O instructions each program has still to run
  pedidos,    \* requests in the memory socket, in order
  respuestas, \* answers in the memory socket, in order
  tablas,     \* the memory's first-level tables
  trabada     \* the memory's mutex_tablas was left locked

vars == <<cola, sem, pc, mano, consola, finalizados, proc, cursor, destino,
          dispatch, devolucion, quedan, pedidos, respuestas, tablas, trabada>>
cpuVars == <<dispatch, devolucion, quedan>>
memVars == <<tablas, trabada>>
redVars == <<pedidos, respuestas, memVars>>
usuarioVars == <<consola, finalizados>>

-----------------------------------------------------------------------------
\* Operations on the queues (colas.c) and on the semaphores.

Esperar(s) == sem[s] > 0 /\ sem' = [sem EXCEPT ![s] = @ - 1]
Postear(s) == sem' = [sem EXCEPT ![s] = @ + 1]
Ir(h, desde, hasta) == pc[h] = desde /\ pc' = [pc EXCEPT ![h] = hasta]

Push(e, p) == cola' = [cola EXCEPT ![e] = Append(@, p)]
Pop(e) == cola' = [cola EXCEPT ![e] = Tail(@)]
SacarProceso(e, p) == cola' = [cola EXCEPT ![e] = RemoveFirst(@, p)]

\* insert_sorted puts p before the first process whose estimate is greater
\* than its own, or at the end.
Mayores(s, p) ==
  {k \in 1..Len(s) : proc[s[k]].estimacion_rafaga > proc[p].estimacion_rafaga}
LugarOrdenado(s, p) ==
  IF Mayores(s, p) = {} THEN Len(s) + 1 ELSE Min(Mayores(s, p))

\* Slip: the loop of insert_sorted without the list_add after it.
InsertSortedSinFinal(e, p) ==
  cola' = [cola EXCEPT ![e] =
             IF Mayores(@, p) = {} THEN @ ELSE InsertAt(@, LugarOrdenado(@, p), p)]

InsertSorted(e, p) ==
  cola' = [cola EXCEPT ![e] = InsertAt(@, LugarOrdenado(@, p), p)]

-----------------------------------------------------------------------------
CrearProceso ==
  [bloqueo_restante |-> 0, tiempo_bloqueado |-> 0, suspendido |-> FALSE,
   estimacion_rafaga |-> CHOOSE e \in Estimaciones : TRUE,
   tabla_paginas |-> NULL]

Init ==
  /\ cola = [e \in Estados |-> <<>>]
  /\ sem = [s \in Semaforos |-> CASE s = "multiprogramacion" -> GRADO
                                  [] s = "planificacion" -> 1
                                  [] OTHER -> 0]
  /\ pc = [largo |-> "multiprogramacion", corto |-> "ready",
           cpu |-> "ejecutando", io |-> "blocked"]
  /\ mano = [h \in Hilos |-> NULL]
  /\ consola = [p \in Procesos |-> "conectada"]
  /\ finalizados = {}
  /\ proc = [p \in Procesos |-> CrearProceso]
  /\ cursor = 1
  /\ destino = NULL
  /\ dispatch = NULL
  /\ devolucion = NULL
  /\ quedan \in [Procesos -> 0..MaxIO]
  /\ pedidos = <<>>
  /\ respuestas = <<>>
  /\ tablas = {}
  /\ trabada = FALSE

-----------------------------------------------------------------------------
\* The handler thread of a console: iniciar_proceso.

IniciarProceso(p) ==
  /\ consola[p] = "conectada"
  /\ consola' = [consola EXCEPT ![p] = "en_new"]
  /\ Push("NEW", p)
  /\ UNCHANGED <<finalizados, sem, pc, mano, proc, cursor, destino, cpuVars, redVars>>

AvisarEntrada(p) ==
  /\ consola[p] = "en_new"
  /\ consola' = [consola EXCEPT ![p] = "lista"]
  /\ Postear("entrando_a_ready")
  /\ UNCHANGED <<finalizados, cola, pc, mano, proc, cursor, destino, cpuVars, redVars>>

-----------------------------------------------------------------------------
\* planificador_largo_plazo

\* Slip: the long-term thread does not wait for a place in memory.
LargoSinEsperarGrado ==
  /\ Ir("largo", "multiprogramacion", "entrando_a_ready")
  /\ UNCHANGED <<sem, cola, mano, usuarioVars, proc, cursor, destino, cpuVars, redVars>>

LargoEsperarGrado ==
  /\ Ir("largo", "multiprogramacion", "entrando_a_ready")
  /\ Esperar("multiprogramacion")
  /\ UNCHANGED <<cola, mano, usuarioVars, proc, cursor, destino, cpuVars, redVars>>

LargoEsperarEntrada ==
  /\ Ir("largo", "entrando_a_ready", "pop_suspendido")
  /\ Esperar("entrando_a_ready")
  /\ UNCHANGED <<cola, mano, usuarioVars, proc, cursor, destino, cpuVars, redVars>>

LargoSacarSuspendido ==
  /\ cola["SUSPENDED_READY"] # <<>>
  /\ Ir("largo", "pop_suspendido", "push_ready")
  /\ mano' = [mano EXCEPT !["largo"] = Head(cola["SUSPENDED_READY"])]
  /\ Pop("SUSPENDED_READY")
  /\ UNCHANGED <<sem, usuarioVars, proc, cursor, destino, cpuVars, redVars>>

LargoSinSuspendidos ==
  /\ cola["SUSPENDED_READY"] = <<>>
  /\ Ir("largo", "pop_suspendido", "pop_nuevo")
  /\ UNCHANGED <<cola, sem, mano, usuarioVars, proc, cursor, destino, cpuVars, redVars>>

LargoSacarNuevo ==
  /\ cola["NEW"] # <<>>
  /\ Ir("largo", "pop_nuevo", "enviar_iniciar")
  /\ mano' = [mano EXCEPT !["largo"] = Head(cola["NEW"])]
  /\ Pop("NEW")
  /\ UNCHANGED <<sem, usuarioVars, proc, cursor, destino, cpuVars, redVars>>

\* iniciar_en_memoria: the request, and whatever number comes next out of
\* the shared socket becomes the process's page table.
LargoEnviarIniciar ==
  /\ Ir("largo", "enviar_iniciar", "recibir_iniciar")
  /\ pedidos' = Append(pedidos, [op |-> "INICIAR_PROCESO", arg |-> mano["largo"]])
  /\ UNCHANGED <<cola, sem, mano, usuarioVars, proc, cursor, destino, cpuVars, respuestas, memVars>>

LargoRecibirTabla ==
  /\ respuestas # <<>>
  /\ Ir("largo", "recibir_iniciar", "push_ready")
  /\ proc' = [proc EXCEPT ![mano["largo"]].tabla_paginas = Head(respuestas)]
  /\ respuestas' = Tail(respuestas)
  /\ UNCHANGED <<cola, sem, mano, usuarioVars, cursor, destino, cpuVars, pedidos, memVars>>

\* Slip: suspendido is left as it was.
LargoPushSuspendido ==
  /\ Ir("largo", "push_ready", "post_ready")
  /\ Push("READY", mano["largo"])
  /\ mano' = [mano EXCEPT !["largo"] = NULL]
  /\ UNCHANGED <<proc, sem, usuarioVars, cursor, destino, cpuVars, redVars>>

LargoPushReady ==
  /\ Ir("largo", "push_ready", "post_ready")
  /\ proc' = [proc EXCEPT ![mano["largo"]].suspendido = FALSE]
  /\ Push("READY", mano["largo"])
  /\ mano' = [mano EXCEPT !["largo"] = NULL]
  /\ UNCHANGED <<sem, usuarioVars, cursor, destino, cpuVars, redVars>>

LargoPostReady ==
  /\ Ir("largo", "post_ready", "multiprogramacion")
  /\ Postear("ready")
  /\ UNCHANGED <<cola, mano, usuarioVars, proc, cursor, destino, cpuVars, redVars>>

-----------------------------------------------------------------------------
\* planificador_corto_plazo

\* Slip: the short-term thread does not wait for a ready process.
CortoSinEsperarReady ==
  /\ Ir("corto", "ready", "desalojar")
  /\ UNCHANGED <<sem, cola, mano, usuarioVars, proc, cursor, destino, cpuVars, redVars>>

CortoEsperarReady ==
  /\ Ir("corto", "ready", "desalojar")
  /\ Esperar("ready")
  /\ UNCHANGED <<cola, mano, usuarioVars, proc, cursor, destino, cpuVars, redVars>>

\* hay_desalojo() && peek(EXEC) != NULL decides whether an interrupt is sent;
\* the interrupt itself goes to the CPU and touches nothing here.
Interrumpe == ALGORITMO = "SRT" /\ cola["EXEC"] # <<>>

\* Slip: after an interrupt it does not wait for the turn.
CortoDesalojarSinTurno ==
  /\ Interrumpe
  /\ Ir("corto", "desalojar", "pop_ready")
  /\ UNCHANGED <<cola, sem, mano, usuarioVars, proc, cursor, destino, cpuVars, redVars>>

CortoDesalojar ==
  /\ Interrumpe
  /\ Ir("corto", "desalojar", "planificacion")
  /\ UNCHANGED <<cola, sem, mano, usuarioVars, proc, cursor, destino, cpuVars, redVars>>

CortoNoDesalojar ==
  /\ ~Interrumpe
  /\ Ir("corto", "desalojar", "planificacion")
  /\ UNCHANGED <<cola, sem, mano, usuarioVars, proc, cursor, destino, cpuVars, redVars>>

\* Slip: it never waits for the turn.
CortoSinEsperarTurno ==
  /\ Ir("corto", "planificacion", "pop_ready")
  /\ UNCHANGED <<sem, cola, mano, usuarioVars, proc, cursor, destino, cpuVars, redVars>>

CortoEsperarPlanificacion ==
  /\ Ir("corto", "planificacion", "pop_ready")
  /\ Esperar("planificacion")
  /\ UNCHANGED <<cola, mano, usuarioVars, proc, cursor, destino, cpuVars, redVars>>

CortoPopReady ==
  /\ cola["READY"] # <<>>
  /\ Ir("corto", "pop_ready", "push_exec")
  /\ mano' = [mano EXCEPT !["corto"] = Head(cola["READY"])]
  /\ Pop("READY")
  /\ UNCHANGED <<sem, usuarioVars, proc, cursor, destino, cpuVars, redVars>>

CortoPushExec ==
  /\ Ir("corto", "push_exec", "post_ejecutando")
  /\ Push("EXEC", mano["corto"])
  /\ mano' = [mano EXCEPT !["corto"] = NULL]
  /\ UNCHANGED <<sem, usuarioVars, proc, cursor, destino, cpuVars, redVars>>

CortoPostEjecutando ==
  /\ Ir("corto", "post_ejecutando", "ready")
  /\ Postear("ejecutando")
  /\ UNCHANGED <<cola, mano, usuarioVars, proc, cursor, destino, cpuVars, redVars>>

-----------------------------------------------------------------------------
\* The cpu thread: ejecutar_proceso, reubicar_proceso, finalizar_proceso.

CpuEsperarEjecutando ==
  /\ Ir("cpu", "ejecutando", "enviar_proceso")
  /\ Esperar("ejecutando")
  /\ UNCHANGED <<cola, mano, usuarioVars, proc, cursor, destino, cpuVars, redVars>>

CpuEnviarProceso ==
  /\ cola["EXEC"] # <<>>
  /\ Ir("cpu", "enviar_proceso", "recibir_pcb")
  /\ mano' = [mano EXCEPT !["cpu"] = Head(cola["EXEC"])]
  /\ dispatch' = Head(cola["EXEC"])
  /\ UNCHANGED <<cola, sem, usuarioVars, proc, cursor, destino, devolucion, quedan, redVars>>

\* recibir_pcb and actualizar_estimacion: the estimate depends on the clock,
\* so it becomes any of the values it can take.
CpuRecibirPcb ==
  /\ devolucion # NULL
  /\ Ir("cpu", "recibir_pcb", "sacar_exec")
  /\ destino' = devolucion.estado
  /\ devolucion' = NULL
  /\ \E e \in IF ALGORITMO = "SRT" /\ devolucion.estado # "EXIT" THEN Estimaciones
              ELSE {proc[mano["cpu"]].estimacion_rafaga} :
       proc' = [proc EXCEPT ![mano["cpu"]] =
                  IF devolucion.estado = "BLOCKED"
                  THEN [@ EXCEPT !.bloqueo_restante = devolucion.tiempo,
                                 !.tiempo_bloqueado = 0, !.estimacion_rafaga = e]
                  ELSE [@ EXCEPT !.estimacion_rafaga = e]]
  /\ UNCHANGED <<cola, sem, mano, usuarioVars, cursor, dispatch, quedan, redVars>>

\* Slip: the process is not taken out of EXEC.
CpuDejarEnExec ==
  /\ Ir("cpu", "sacar_exec", "reubicar")
  /\ UNCHANGED <<cola, sem, mano, usuarioVars, proc, cursor, destino, cpuVars, redVars>>

CpuSacarExec ==
  /\ Ir("cpu", "sacar_exec", "reubicar")
  /\ SacarProceso("EXEC", mano["cpu"])
  /\ UNCHANGED <<sem, mano, usuarioVars, proc, cursor, destino, cpuVars, redVars>>

CpuAReady ==
  /\ destino = "READY"
  /\ Ir("cpu", "reubicar", "post_ready")
  /\ InsertSorted("READY", mano["cpu"])
  /\ mano' = [mano EXCEPT !["cpu"] = NULL]
  /\ UNCHANGED <<sem, usuarioVars, proc, cursor, destino, cpuVars, redVars>>

\* Slips: the post of ready is missing, or the turn is passed on twice.
CpuSinPostReady ==
  /\ Ir("cpu", "post_ready", "post_planificacion")
  /\ UNCHANGED <<sem, cola, mano, usuarioVars, proc, cursor, destino, cpuVars, redVars>>
CpuPostReadyYTurno ==
  /\ Ir("cpu", "post_ready", "post_planificacion")
  /\ sem' = [sem EXCEPT !["ready"] = @ + 1, !["planificacion"] = @ + 1]
  /\ UNCHANGED <<cola, mano, usuarioVars, proc, cursor, destino, cpuVars, redVars>>

CpuPostReady ==
  /\ Ir("cpu", "post_ready", "post_planificacion")
  /\ Postear("ready")
  /\ UNCHANGED <<cola, mano, usuarioVars, proc, cursor, destino, cpuVars, redVars>>

CpuABlocked ==
  /\ destino = "BLOCKED"
  /\ Ir("cpu", "reubicar", "post_blocked")
  /\ Push("BLOCKED", mano["cpu"])
  /\ mano' = [mano EXCEPT !["cpu"] = NULL]
  /\ UNCHANGED <<sem, usuarioVars, proc, cursor, destino, cpuVars, redVars>>

CpuPostBlocked ==
  /\ Ir("cpu", "post_blocked", "post_planificacion")
  /\ Postear("blocked")
  /\ UNCHANGED <<cola, mano, usuarioVars, proc, cursor, destino, cpuVars, redVars>>

CpuAExit ==
  /\ destino = "EXIT"
  /\ Ir("cpu", "reubicar", "enviar_finalizar")
  /\ Push("EXIT", mano["cpu"])
  /\ UNCHANGED <<sem, mano, usuarioVars, proc, cursor, destino, cpuVars, redVars>>

CpuEnviarFinalizar ==
  /\ Ir("cpu", "enviar_finalizar", "recibir_finalizar")
  /\ pedidos' = Append(pedidos, [op |-> "FINALIZAR_PROCESO",
                                 arg |-> proc[mano["cpu"]].tabla_paginas])
  /\ UNCHANGED <<cola, sem, mano, usuarioVars, proc, cursor, destino, cpuVars,
                 respuestas, memVars>>

\* An answer other than FINALIZAR_PROCESO is only logged.
CpuRecibirFinalizar ==
  /\ respuestas # <<>>
  /\ Ir("cpu", "recibir_finalizar", "sacar_exit")
  /\ respuestas' = Tail(respuestas)
  /\ UNCHANGED <<cola, sem, mano, usuarioVars, proc, cursor, destino, cpuVars,
                 pedidos, memVars>>

\* sacar_proceso, the message to the console and destruir_proceso.
CpuSacarExit ==
  /\ Ir("cpu", "sacar_exit", "post_multiprogramacion")
  /\ SacarProceso("EXIT", mano["cpu"])
  /\ finalizados' = finalizados \cup {mano["cpu"]}
  /\ mano' = [mano EXCEPT !["cpu"] = NULL]
  /\ UNCHANGED <<consola, sem, proc, cursor, destino, cpuVars, redVars>>

\* Slip: the place in memory of a process that ends is not given back.
CpuSinPostMultiprogramacion ==
  /\ Ir("cpu", "post_multiprogramacion", "post_planificacion")
  /\ UNCHANGED <<sem, cola, mano, usuarioVars, proc, cursor, destino, cpuVars, redVars>>

CpuPostMultiprogramacion ==
  /\ Ir("cpu", "post_multiprogramacion", "post_planificacion")
  /\ Postear("multiprogramacion")
  /\ UNCHANGED <<cola, mano, usuarioVars, proc, cursor, destino, cpuVars, redVars>>

CpuPostPlanificacion ==
  /\ Ir("cpu", "post_planificacion", "ejecutando")
  /\ Postear("planificacion")
  /\ UNCHANGED <<cola, mano, usuarioVars, proc, cursor, destino, cpuVars, redVars>>

-----------------------------------------------------------------------------
\* dispositivo_io: suspender_procesos, then realizar_io.

IoEsperarBlocked ==
  /\ Ir("io", "blocked", "suspender")
  /\ Esperar("blocked")
  /\ cursor' = 1
  /\ UNCHANGED <<cola, mano, usuarioVars, proc, destino, cpuVars, redVars>>

\* One turn of the loop of suspender_procesos.  The loop holds no mutex, so
\* the cpu thread may lengthen the queue between two turns.  tiempo_bloqueado
\* is capped at TIEMPO_MAXIMO (the only value it is compared with).
Bloqueado(t) == IF t + MS_BETWEEN_IO_CHECK >= TIEMPO_MAXIMO THEN TIEMPO_MAXIMO
                ELSE t + MS_BETWEEN_IO_CHECK
Vencido(p) ==
  /\ proc[p].tiempo_bloqueado + MS_BETWEEN_IO_CHECK >= TIEMPO_MAXIMO
  /\ ~proc[p].suspendido

IoContarBloqueo ==
  /\ cursor <= Len(cola["BLOCKED"])
  /\ LET p == cola["BLOCKED"][cursor] IN
       /\ proc' = [proc EXCEPT ![p].tiempo_bloqueado = Bloqueado(@)]
       /\ \/ /\ Vencido(p)
             /\ Ir("io", "suspender", "recibir_suspender")
             /\ mano' = [mano EXCEPT !["io"] = p]
             /\ pedidos' = Append(pedidos, [op |-> "SUSPENDER_PROCESO",
                                            arg |-> proc[p].tabla_paginas])
             /\ UNCHANGED cursor
          \/ /\ ~Vencido(p)
             /\ Ir("io", "suspender", "suspender")
             /\ cursor' = cursor + 1
             /\ UNCHANGED <<mano, pedidos>>
  /\ UNCHANGED <<cola, sem, usuarioVars, destino, cpuVars, respuestas, memVars>>

IoRecibirSuspender ==
  /\ respuestas # <<>>
  /\ Ir("io", "recibir_suspender", "post_multiprogramacion")
  /\ respuestas' = Tail(respuestas)
  /\ proc' = [proc EXCEPT ![mano["io"]].suspendido = TRUE]
  /\ mano' = [mano EXCEPT !["io"] = NULL]
  /\ UNCHANGED <<cola, sem, usuarioVars, cursor, destino, cpuVars, pedidos, memVars>>

IoPostMultiprogramacion ==
  /\ Ir("io", "post_multiprogramacion", "suspender")
  /\ Postear("multiprogramacion")
  /\ cursor' = cursor + 1
  /\ UNCHANGED <<cola, mano, usuarioVars, proc, destino, cpuVars, redVars>>

IoPostBlocked ==
  /\ cursor > Len(cola["BLOCKED"])
  /\ Ir("io", "suspender", "realizar_io")
  /\ Postear("blocked")
  /\ cursor' = 1
  /\ UNCHANGED <<cola, mano, usuarioVars, proc, destino, cpuVars, redVars>>

\* peek(BLOCKED), the sleep and the decrement of an unsigned counter.
Restante(t) == (t - MS_BETWEEN_IO_CHECK) % MODULO

IoDormir ==
  /\ cola["BLOCKED"] # <<>>
  /\ LET p == Head(cola["BLOCKED"]) IN
       /\ proc' = [proc EXCEPT ![p].bloqueo_restante = Restante(@)]
       /\ Ir("io", "realizar_io",
             IF Restante(proc[p].bloqueo_restante) > 0 THEN "blocked" ELSE "pop_blocked")
  /\ UNCHANGED <<cola, sem, mano, usuarioVars, cursor, destino, cpuVars, redVars>>

IoPopBlocked ==
  /\ cola["BLOCKED"] # <<>>
  /\ Ir("io", "pop_blocked", "tomar_blocked")
  /\ mano' = [mano EXCEPT !["io"] = Head(cola["BLOCKED"])]
  /\ Pop("BLOCKED")
  /\ UNCHANGED <<sem, usuarioVars, proc, cursor, destino, cpuVars, redVars>>

\* Slip: the unit of the process that leaves BLOCKED is not taken.
IoSinTomarBlocked ==
  /\ Ir("io", "tomar_blocked", "desbloquear")
  /\ UNCHANGED <<sem, cola, mano, usuarioVars, proc, cursor, destino, cpuVars, redVars>>

IoTomarBlocked ==
  /\ Ir("io", "tomar_blocked", "desbloquear")
  /\ Esperar("blocked")
  /\ UNCHANGED <<cola, mano, usuarioVars, proc, cursor, destino, cpuVars, redVars>>

IoPushSuspendido ==
  /\ Ir("io", "desbloquear", "post_entrando")
  /\ proc[mano["io"]].suspendido
  /\ Push("SUSPENDED_READY", mano["io"])
  /\ mano' = [mano EXCEPT !["io"] = NULL]
  /\ UNCHANGED <<sem, usuarioVars, proc, cursor, destino, cpuVars, redVars>>

IoPostEntrando ==
  /\ Ir("io", "post_entrando", "blocked")
  /\ Postear("entrando_a_ready")
  /\ UNCHANGED <<cola, mano, usuarioVars, proc, cursor, destino, cpuVars, redVars>>

IoPushReady ==
  /\ Ir("io", "desbloquear", "post_ready")
  /\ ~proc[mano["io"]].suspendido
  /\ Push("READY", mano["io"])
  /\ mano' = [mano EXCEPT !["io"] = NULL]
  /\ UNCHANGED <<sem, usuarioVars, proc, cursor, destino, cpuVars, redVars>>

IoPostReady ==
  /\ Ir("io", "post_ready", "blocked")
  /\ Postear("ready")
  /\ UNCHANGED <<cola, mano, usuarioVars, proc, cursor, destino, cpuVars, redVars>>

-----------------------------------------------------------------------------
\* The other processes.

\* The CPU gives a process back: at its EXIT, at an I/O or, under SRT,
\* because it saw an interrupt.
DevolverProceso ==
  /\ dispatch # NULL
  /\ dispatch' = NULL
  /\ \/ /\ quedan[dispatch] = 0
        /\ devolucion' = [estado |-> "EXIT"]
        /\ UNCHANGED quedan
     \/ /\ quedan[dispatch] > 0
        /\ \E t \in TiemposIO : devolucion' = [estado |-> "BLOCKED", tiempo |-> t]
        /\ quedan' = [quedan EXCEPT ![dispatch] = @ - 1]
     \/ /\ ALGORITMO = "SRT"
        /\ devolucion' = [estado |-> "READY"]
        /\ UNCHANGED quedan
  /\ UNCHANGED <<cola, sem, pc, mano, usuarioVars, proc, cursor, destino, redVars>>

\* The memory serves the kernel's connection with one thread, in order.  A
\* table number is abstracted to the process it was created for; a number
\* that is no table makes suspender_proceso and finalizar_proceso return with
\* mutex_tablas locked, and the next request that locks it never ends.
Responder(r) ==
  /\ respuestas' = Append(respuestas, r)
  /\ pedidos' = Tail(pedidos)
  /\ UNCHANGED <<cola, sem, pc, mano, usuarioVars, proc, cursor, destino, cpuVars>>

\* Slip: the answer is the code of the request, as in the other handlers.
MemoriaIniciarCodigo ==
  /\ pedidos # <<>>
  /\ Head(pedidos).op = "INICIAR_PROCESO"
  /\ Head(pedidos).arg \notin Grandes
  /\ tablas' = tablas \cup {Head(pedidos).arg}
  /\ Responder("INICIAR_PROCESO")
  /\ UNCHANGED trabada

MemoriaIniciar ==
  /\ pedidos # <<>>
  /\ Head(pedidos).op = "INICIAR_PROCESO"
  /\ \/ /\ Head(pedidos).arg \in Grandes
        /\ Responder("-1")
        /\ UNCHANGED memVars
     \/ /\ Head(pedidos).arg \notin Grandes
        /\ ~trabada
        /\ tablas' = tablas \cup {Head(pedidos).arg}
        /\ Responder(Head(pedidos).arg)
        /\ UNCHANGED trabada

MemoriaCambiar ==
  /\ pedidos # <<>>
  /\ Head(pedidos).op # "INICIAR_PROCESO"
  /\ ~trabada
  /\ trabada' = (Head(pedidos).arg \notin tablas)
  /\ Responder(Head(pedidos).op)
  /\ UNCHANGED tablas

-----------------------------------------------------------------------------
Largo == \/ LargoEsperarGrado \/ LargoEsperarEntrada \/ LargoSacarSuspendido
         \/ LargoSinSuspendidos \/ LargoSacarNuevo \/ LargoEnviarIniciar
         \/ LargoRecibirTabla \/ LargoPushReady \/ LargoPostReady
Corto == \/ CortoEsperarReady \/ CortoDesalojar \/ CortoNoDesalojar
         \/ CortoEsperarPlanificacion \/ CortoPopReady \/ CortoPushExec
         \/ CortoPostEjecutando
Cpu == \/ CpuEsperarEjecutando \/ CpuEnviarProceso \/ CpuRecibirPcb \/ CpuSacarExec
       \/ CpuAReady \/ CpuPostReady \/ CpuABlocked \/ CpuPostBlocked \/ CpuAExit
       \/ CpuEnviarFinalizar \/ CpuRecibirFinalizar \/ CpuSacarExit
       \/ CpuPostMultiprogramacion \/ CpuPostPlanificacion
Io == \/ IoEsperarBlocked \/ IoContarBloqueo \/ IoRecibirSuspender
      \/ IoPostMultiprogramacion \/ IoPostBlocked \/ IoDormir \/ IoPopBlocked
      \/ IoTomarBlocked \/ IoPushSuspendido \/ IoPostEntrando \/ IoPushReady
      \/ IoPostReady
Consola(p) == IniciarProceso(p) \/ AvisarEntrada(p)
Memoria == MemoriaIniciar \/ MemoriaCambiar

\* Every console has its answer and the threads wait on their semaphores.
Reposo ==
  /\ finalizados = Procesos
  /\ UNCHANGED vars

Next == \/ \E p \in Procesos : Consola(p)
        \/ Largo \/ Corto \/ Cpu \/ Io
        \/ DevolverProceso \/ Memoria
        \/ Reposo

Spec == Init /\ [][Next]_vars

\* Each thread runs, the CPU executes finite programs and the memory answers.
\* Each semaphore has one waiting thread and each thread one enabled action
\* at a time, so weak fairness of the threads is enough.
Equidad ==
  /\ \A p \in Procesos : WF_vars(Consola(p))
  /\ WF_vars(Largo) /\ WF_vars(Corto) /\ WF_vars(Cpu) /\ WF_vars(Io)
  /\ WF_vars(DevolverProceso) /\ WF_vars(Memoria)
SpecJusta == Spec /\ Equidad

-----------------------------------------------------------------------------
\* Properties.

Codigos == {"-1", "FINALIZAR_PROCESO", "SUSPENDER_PROCESO"}
Numeros == Procesos \cup Codigos
Puntos == [
  largo |-> {"multiprogramacion", "entrando_a_ready", "pop_suspendido", "pop_nuevo",
             "enviar_iniciar", "recibir_iniciar", "push_ready", "post_ready"},
  corto |-> {"ready", "desalojar", "planificacion", "pop_ready", "push_exec",
             "post_ejecutando"},
  cpu   |-> {"ejecutando", "enviar_proceso", "recibir_pcb", "sacar_exec", "reubicar",
             "post_ready", "post_blocked", "enviar_finalizar", "recibir_finalizar",
             "sacar_exit", "post_multiprogramacion", "post_planificacion"},
  io    |-> {"blocked", "suspender", "recibir_suspender", "post_multiprogramacion",
             "realizar_io", "pop_blocked", "tomar_blocked", "desbloquear",
             "post_entrando", "post_ready"}]
TipoPc ==
  /\ pc \in [Hilos -> UNION {Puntos[h] : h \in Hilos}]
  /\ \A h \in Hilos : pc[h] \in Puntos[h]
Pedidos == [op : {"INICIAR_PROCESO"}, arg : Procesos]
           \cup [op : {"FINALIZAR_PROCESO", "SUSPENDER_PROCESO"},
                 arg : Numeros \cup {NULL}]
Devoluciones == [estado : {"EXIT", "READY"}]
                \cup [estado : {"BLOCKED"}, tiempo : TiemposIO]
TProceso == [bloqueo_restante : 0..(MODULO - 1), tiempo_bloqueado : 0..TIEMPO_MAXIMO,
             suspendido : BOOLEAN, estimacion_rafaga : Estimaciones,
             tabla_paginas : Numeros \cup {NULL}]

\* Every variable keeps its type.
TypeOK ==
  /\ cola \in [Estados -> Seq(Procesos)]
  /\ sem \in [Semaforos -> Nat]
  /\ TipoPc
  /\ mano \in [Hilos -> Procesos \cup {NULL}]
  /\ consola \in [Procesos -> {"conectada", "en_new", "lista"}]
  /\ finalizados \subseteq Procesos
  /\ proc \in [Procesos -> TProceso]
  /\ cursor \in Nat \ {0}
  /\ destino \in {NULL, "EXIT", "READY", "BLOCKED"}
  /\ dispatch \in Procesos \cup {NULL}
  /\ devolucion \in Devoluciones \cup {NULL}
  /\ quedan \in [Procesos -> 0..MaxIO]
  /\ pedidos \in Seq(Pedidos)
  /\ respuestas \in Seq(Numeros)
  /\ tablas \subseteq Procesos
  /\ trabada \in BOOLEAN

\* No thread takes a process out of an empty queue: pop and peek return NULL
\* there, and each of these callers uses the result without looking at it
\* (planificacion.c:131, 155, 171, 180).  The semaphores, posted by other
\* threads after they fill the queue, are all that prevents it.
SinNulos ==
  /\ pc["largo"] = "pop_nuevo" => cola["NEW"] # <<>>
  /\ pc["corto"] = "pop_ready" => cola["READY"] # <<>>
  /\ pc["cpu"] = "enviar_proceso" => cola["EXEC"] # <<>>
  /\ pc["io"] \in {"realizar_io", "pop_blocked"} => cola["BLOCKED"] # <<>>

\* The CPU has one process at a time: EXEC never holds two, it is the head of
\* EXEC that the cpu thread waits for, and nothing else is in the CPU.
UnoEnEjecucion ==
  /\ Len(cola["EXEC"]) <= 1
  /\ pc["cpu"] \in {"recibir_pcb", "sacar_exec"} => cola["EXEC"] = <<mano["cpu"]>>
  /\ dispatch # NULL => cola["EXEC"] = <<dispatch>>

\* No process is lost or duplicated as the queues and the threads hand it
\* over: between its arrival and its end it is in one position of one queue,
\* or in the hands of exactly one thread.
Posiciones(p) == {ek \in Estados \X (1..Cardinality(Procesos)) :
                    ek[2] <= Len(cola[ek[1]]) /\ cola[ek[1]][ek[2]] = p}
UnSoloLugar ==
  \A p \in Procesos :
    LET manos == {h \in Hilos : mano[h] = p} IN
      IF consola[p] = "conectada" \/ p \in finalizados
      THEN Posiciones(p) = {} /\ manos = {}
      ELSE \/ Cardinality(Posiciones(p)) = 1
           \/ Posiciones(p) = {} /\ Cardinality(manos) = 1

\* The degree of multiprogramming.  Ocupantes holds the processes that have
\* taken a unit of the semaphore; the units, those processes and the threads
\* about to hand a unit over always add up to GRADO: a suspension or an end
\* gives back one unit, once, and a return from suspension takes one again.
EnCola(p, e) == Contains(cola[e], p)
Ocupa(p) ==
  \/ EnCola(p, "READY") \/ EnCola(p, "EXEC") \/ EnCola(p, "EXIT")
  \/ mano["corto"] = p \/ (mano["cpu"] = p /\ pc["cpu"] = "reubicar")
  \/ EnCola(p, "BLOCKED") /\ ~proc[p].suspendido
  \/ mano["io"] = p /\ pc["io"] \in {"tomar_blocked", "desbloquear"} /\ ~proc[p].suspendido
Ocupantes == {p \in Procesos : Ocupa(p)}
Uno(b) == IF b THEN 1 ELSE 0
CuposConservados ==
  sem["multiprogramacion"] + Cardinality(Ocupantes)
    + Uno(pc["largo"] \notin {"multiprogramacion", "post_ready"})
    + Uno(pc["cpu"] = "post_multiprogramacion")
    + Uno(pc["io"] = "post_multiprogramacion") = GRADO

\* The counting semaphores agree with what they count.  Every unit of ready,
\* blocked and entrando_a_ready, in the semaphore or in a thread that has
\* taken it or is about to post it, stands for one process in the queues it
\* announces; planificacion and ejecutando pass one turn between two threads.
En(h, puntos) == Uno(pc[h] \in puntos)
EnNew == {p \in Procesos : consola[p] = "en_new"}
Cuantos(e) == Len(cola[e])
ReadyEnBalance ==
  sem["ready"] + En("corto", {"desalojar", "planificacion", "pop_ready"})
    + En("largo", {"post_ready"}) + En("cpu", {"post_ready"}) + En("io", {"post_ready"})
  = Cuantos("READY")
BlockedEnBalance ==
  sem["blocked"] + En("cpu", {"post_blocked"})
    + En("io", {"suspender", "recibir_suspender", "post_multiprogramacion"})
  = Cuantos("BLOCKED") + En("io", {"tomar_blocked"})
EntradaEnBalance ==
  sem["entrando_a_ready"] + En("largo", {"pop_suspendido", "pop_nuevo"})
    + En("io", {"post_entrando"}) + Cardinality(EnNew)
  = Cuantos("NEW") + Cuantos("SUSPENDED_READY")
TurnoEnBalance ==
  sem["planificacion"] + sem["ejecutando"]
    + En("corto", {"pop_ready", "push_exec", "post_ejecutando"})
    + Uno(pc["cpu"] # "ejecutando") = 1
EjecutandoEnBalance ==
  sem["ejecutando"] + En("corto", {"post_ejecutando"})
    + En("cpu", {"enviar_proceso", "recibir_pcb", "sacar_exec"}) = Cuantos("EXEC")
SemaforosEnBalance ==
  /\ ReadyEnBalance
  /\ BlockedEnBalance
  /\ EntradaEnBalance
  /\ TurnoEnBalance
  /\ EjecutandoEnBalance

\* A thread has a process in its hands exactly between the operation that
\* takes it out of a queue, or looks at it, and the one that lets it go.
ManosSegunPunto ==
  /\ mano["largo"] # NULL
       <=> pc["largo"] \in {"enviar_iniciar", "recibir_iniciar", "push_ready"}
  /\ mano["corto"] # NULL <=> pc["corto"] = "push_exec"
  /\ mano["cpu"] # NULL
       <=> pc["cpu"] \in {"recibir_pcb", "sacar_exec", "reubicar", "enviar_finalizar",
                         "recibir_finalizar", "sacar_exit"}
  /\ mano["io"] # NULL
       <=> pc["io"] \in {"recibir_suspender", "tomar_blocked", "desbloquear"}
  /\ dispatch # NULL => pc["cpu"] = "recibir_pcb" /\ dispatch = mano["cpu"]
  /\ devolucion # NULL => pc["cpu"] = "recibir_pcb" /\ dispatch = NULL

\* What a thread found in a queue is still there when it comes back to it.
ColasSegunPunto ==
  /\ pc["largo"] = "pop_nuevo" => cola["NEW"] # <<>>
  /\ pc["io"] \in {"realizar_io", "pop_blocked"} => cola["BLOCKED"] # <<>>
  /\ pc["cpu"] \in {"recibir_pcb", "sacar_exec"} => cola["EXEC"] = <<mano["cpu"]>>

\* The inductive invariant behind SinNulos and UnoEnEjecucion.
Inductiva == TypeOK /\ ManosSegunPunto /\ SemaforosEnBalance /\ ColasSegunPunto

\* A process that is ready or running is not suspended and has had its tables
\* asked for: suspendido is set by one thread while another starts the next
\* process, and cleared by a third.
ListosCargados ==
  \A p \in Procesos :
    EnCola(p, "READY") \/ EnCola(p, "EXEC")
      => ~proc[p].suspendido /\ proc[p].tabla_paginas # NULL

\* The number that becomes a process's page table is the one the memory
\* answered to that process's INICIAR_PROCESO (memoria.c:22).
TablaPropia ==
  \A p \in Procesos : proc[p].tabla_paginas \in {NULL, p}

\* Every process ends, through suspension and back, and its console is told.
TodosTerminan == \A p \in Procesos : <>(p \in finalizados)

\* The memory answers an INICIAR_PROCESO with a page table (memoria.c:22).
TablaRecibida == pc["largo"] = "recibir_iniciar" ~> pc["largo"] # "recibir_iniciar"

=============================================================================
