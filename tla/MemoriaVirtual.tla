---------------------------- MODULE MemoriaVirtual ----------------------------
(***************************************************************************)
(* The memory of KISS as a program sees it: the MMU and the TLB of the CPU *)
(* (kiss/cpu/src/mmu.c, tlb.c, execute.c) on one connection of the memory  *)
(* process of Paginacion, and the kernel on the other, which starts,       *)
(* suspends and ends processes as their life cycle (CicloDeVida) allows.   *)
(***************************************************************************)
EXTENDS Paginacion

CONSTANTS
  GRADO,            \* the kernel's grado_multiprogramacion
  Escritos          \* the words a WRITE may carry

\* Every admitted process can have all its frames at once.
ASSUME MemoriaVirtualAssumption ==
  /\ GRADO \in Nat \ {0}
  /\ Escritos \subseteq Valores
  /\ \A c \in Configuraciones :
       /\ c.llegan \subseteq Procesos
       /\ c.entradas_tlb \in Nat \ {0} /\ c.instrucciones \in Nat
       /\ c.reemplazo_tlb \in {"FIFO", "LRU"}
       /\ Min({GRADO, Cardinality(c.llegan)}) * c.marcos_por_proceso <= CANTIDAD_MARCOS

VARIABLES
  estado,     \* the kernel's state of each process
  pcb,        \* tabla_paginas of each process
  iniciando,  \* the process whose INICIAR_PROCESO is being served
  punto,      \* where the CPU is in an instruction
  instruccion,\* the memory instruction in course
  marco,      \* the frame traducir has found
  tlb,        \* the entries <<page, frame>>, the next to leave first
  leido,      \* the last word read
  ejecutadas  \* memory instructions executed so far

cpuVars == <<punto, instruccion, marco, tlb, leido, ejecutadas>>
kernelVars == <<estado, pcb, iniciando>>
vars == <<paginacionVars, kernelVars, cpuVars>>

Ciclo == INSTANCE CicloDeVida

Ejecutando == CHOOSE p \in Procesos : estado[p] = "EXEC"
SinInstruccion == [op |-> "NO_OP"]

Init ==
  /\ PaginacionInit
  /\ Ciclo!Init
  /\ pcb = [p \in Procesos |-> 0]
  /\ iniciando = NULL
  /\ punto = "fetch"
  /\ instruccion = SinInstruccion
  /\ marco = NULL
  /\ tlb = <<>>
  /\ leido = 0
  /\ ejecutadas = 0

-----------------------------------------------------------------------------
\* The kernel's connection: one handler at a time.

Llegar(p) ==
  /\ p \in config.llegan
  /\ Ciclo!Llegar(p)
  /\ UNCHANGED <<paginacionVars, pcb, iniciando, cpuVars>>

IniciarTablas(p) ==
  /\ iniciando = NULL
  /\ estado[p] = "NEW" /\ Cardinality(Ciclo!EnMemoria) < GRADO
  /\ CrearTablas(p)
  /\ pcb' = [pcb EXCEPT ![p] = Len(primer_nivel)]
  /\ iniciando' = p
  /\ UNCHANGED <<estado, cpuVars>>

IniciarSwap(p) ==
  /\ iniciando = p
  /\ SwapIniciarProceso(p)
  /\ Ciclo!Admitir(p)
  /\ iniciando' = NULL
  /\ UNCHANGED <<pcb, cpuVars>>

Suspender(p) ==
  /\ iniciando = NULL
  /\ Ciclo!Suspender(p)
  /\ SuspenderProceso(p)
  /\ UNCHANGED <<pcb, iniciando, cpuVars>>

Finalizar(p) ==
  /\ iniciando = NULL
  /\ estado[p] = "EXIT"
  /\ Ciclo!Terminar(p)
  /\ FinalizarProceso(p)
  /\ UNCHANGED <<pcb, iniciando, cpuVars>>

\* A process that was suspended comes back without a word to the memory: its
\* pages return one by one, as they are used.
Volver(p) ==
  /\ \/ iniciando = NULL /\ estado[p] = "SUSPENDED_READY" /\ Ciclo!Admitir(p)
     \/ Ciclo!Despertar(p)
  /\ UNCHANGED <<paginacionVars, pcb, iniciando, cpuVars>>

-----------------------------------------------------------------------------
\* The CPU: ejecutar_proceso empties the TLB; then one instruction after
\* another until the process is given back.

\* Slip: the TLB of the process before is kept.
EjecutarSinVaciar(p) ==
  /\ Ciclo!Despachar(p)
  /\ UNCHANGED <<paginacionVars, pcb, iniciando, cpuVars>>

EjecutarProceso(p) ==
  /\ Ciclo!Despachar(p)
  /\ tlb' = <<>>
  /\ UNCHANGED <<paginacionVars, pcb, iniciando, punto, instruccion, marco, leido, ejecutadas>>

DevolverProceso(p) ==
  /\ punto = "fetch"
  /\ estado[p] = "EXEC"
  /\ Ciclo!Desalojar(p) \/ Ciclo!Bloquear(p) \/ Ciclo!Terminar(p)
  /\ UNCHANGED <<paginacionVars, pcb, iniciando, cpuVars>>

\* READ, WRITE and COPY, of pages of the process.  COPY is fetch_operands,
\* which reads, and execute_copy, which writes what was read.
Instrucciones(p) ==
  [op : {"READ"}, pagina : Numeros(p)]
  \cup [op : {"WRITE"}, pagina : Numeros(p), valor : Escritos]
  \cup [op : {"COPY"}, pagina : Numeros(p), destino : Numeros(p)]

Fetch(p) ==
  /\ punto = "fetch"
  /\ estado[p] = "EXEC"
  /\ ejecutadas < config.instrucciones
  /\ ejecutadas' = ejecutadas + 1
  /\ \E i \in Instrucciones(p) : instruccion' = i
  /\ punto' = "traducir"
  /\ UNCHANGED <<paginacionVars, kernelVars, marco, tlb, leido>>

\* traducir.  buscar_en_tlb: a hit moves the entry to the end under LRU.
Entradas(n) == {k \in DOMAIN tlb : tlb[k][1] = n}

AciertoTLB ==
  /\ punto = "traducir"
  /\ Entradas(instruccion.pagina) # {}
  /\ LET k == Min(Entradas(instruccion.pagina)) IN
       /\ marco' = tlb[k][2]
       /\ tlb' = IF config.reemplazo_tlb = "LRU" THEN Append(RemoveAt(tlb, k), tlb[k]) ELSE tlb
  /\ punto' = "acceder"
  /\ UNCHANGED <<paginacionVars, kernelVars, instruccion, leido, ejecutadas>>

\* Slip: the page that left the frame keeps its entry.
DejarPaginasConMarco(m) == tlb

\* agregar_a_tlb: the first entry with the frame goes out and, if the TLB is
\* still full, the first entry of all.
SacarPaginasConMarco(m) ==
  LET ks == {k \in DOMAIN tlb : tlb[k][2] = m} IN IF ks = {} THEN tlb ELSE RemoveAt(tlb, Min(ks))
AgregarATLB(n, m) ==
  LET queda == SacarPaginasConMarco(m)
      resto == IF Len(queda) = config.entradas_tlb THEN Tail(queda) ELSE queda
  IN tlb' = Append(resto, <<n, m>>)

\* A miss: PEDIR_TABLA, PEDIR_MARCO and the new entry.  One step: tables never
\* change once their process is started and the TLB is the CPU's own, so only
\* memoria_pedir_marco touches anything another thread may see.
PaginaPedida ==
  PaginaDe(PedirTabla(pcb[Ejecutando], instruccion.pagina \div ENTRADAS_POR_TABLA),
           instruccion.pagina % ENTRADAS_POR_TABLA)

FalloTLB(p) ==
  /\ punto = "traducir"
  /\ Entradas(instruccion.pagina) = {}
  /\ primer_nivel[pcb[Ejecutando] + 1].proceso = p
  /\ TraerAMemoria(p, PaginaPedida)
  /\ marco' = pagina'[p][PaginaPedida].marco
  /\ AgregarATLB(instruccion.pagina, marco')
  /\ punto' = "acceder"
  /\ UNCHANGED <<kernelVars, instruccion, leido, ejecutadas>>

\* MEMORIA_LEER; a COPY goes on with the write of the word it read.
Leer ==
  /\ punto = "acceder"
  /\ instruccion.op \in {"READ", "COPY"}
  /\ leido' = MemoriaLeer(marco)
  /\ marco' = NULL
  /\ IF instruccion.op = "COPY"
     THEN /\ instruccion' = [op |-> "WRITE", pagina |-> instruccion.destino, valor |-> leido']
          /\ punto' = "traducir"
     ELSE instruccion' = SinInstruccion /\ punto' = "fetch"
  /\ UNCHANGED <<paginacionVars, kernelVars, tlb, ejecutadas>>

\* MEMORIA_ESCRIBIR, in the two steps of memoria_escribir.
Escribir ==
  /\ punto = "acceder"
  /\ instruccion.op = "WRITE"
  /\ MemoriaEscribir(marco, instruccion.valor)
  /\ punto' = "marcar"
  /\ UNCHANGED <<kernelVars, instruccion, marco, tlb, leido, ejecutadas>>

Marcar ==
  /\ punto = "marcar"
  /\ MarcarModificada(marco)
  /\ punto' = "fetch"
  /\ instruccion' = SinInstruccion
  /\ marco' = NULL
  /\ UNCHANGED <<kernelVars, tlb, leido, ejecutadas>>

-----------------------------------------------------------------------------
Kernel(p) == \/ Llegar(p) \/ IniciarTablas(p) \/ IniciarSwap(p) \/ Suspender(p)
             \/ Finalizar(p) \/ Volver(p)
CPU(p) == EjecutarProceso(p) \/ DevolverProceso(p) \/ Fetch(p) \/ FalloTLB(p)
MMU == AciertoTLB \/ Leer \/ Escribir \/ Marcar

Next == (\E p \in Procesos : Kernel(p) \/ CPU(p)) \/ MMU
Spec == Init /\ [][Next]_vars

-----------------------------------------------------------------------------
\* Properties.

Vivos == {p \in Procesos : estado[p] \notin {"FUERA", "NEW", "FIN"}}

\* Every variable keeps its type; of the TLB, TLBCoherente says more.
TypeOK ==
  /\ Ciclo!TypeOK
  /\ \A p \in Procesos : pagina[p] \in [Numeros(p) ->
        [marco : Marcos, presencia : BOOLEAN, uso : {0, 1}, modificado : {0, 1}]]
  /\ libres \subseteq Marcos
  /\ principal \in [Marcos -> Valores]
  /\ \A p \in Procesos : swap[p] \in [Numeros(p) -> Valores]
  /\ \A p \in Procesos : residentes[p] \in Seq(Numeros(p))
  /\ pcb \in [Procesos -> Nat]
  /\ primer_nivel \in Seq([proceso : Procesos, tablas : Seq(Nat)])
  /\ segundo_nivel \in Seq(Seq(Nat))
  /\ iniciando \in Procesos \cup {NULL}
  /\ punto \in {"fetch", "traducir", "acceder", "marcar"}
  /\ punto # "fetch" => \A p \in Ciclo!Los("EXEC") :
        instruccion.op \in {"READ", "WRITE", "COPY"} /\ instruccion.pagina \in Numeros(p)
  /\ punto \in {"acceder", "marcar"} => marco \in Marcos
  /\ leido \in Valores

\* The bitmap, the lists of residents and the page tables agree: a page is
\* present exactly when its process lists it, once; no two present pages
\* share a frame; and the frames with their bit clear are the others.
MarcosEnRegla ==
  /\ \A p \in Vivos : /\ IsInjective(residentes[p])
                      /\ ToSet(residentes[p]) = {n \in Numeros(p) : pagina[p][n].presencia}
                      /\ Len(residentes[p]) <= MARCOS_POR_PROCESO
  /\ \A p \in Procesos : Cardinality(MarcosDe(p)) = Len(residentes[p])
  /\ \A p, q \in Procesos : p # q => MarcosDe(p) \cap MarcosDe(q) = {}
  /\ libres = Marcos \ UNION {MarcosDe(p) : p \in Procesos}

\* proximo_marco_libre never returns -1: whoever may still take a frame finds
\* one, because those that are not in memory have given theirs back.
HayMarco ==
  \A p \in Vivos : estado[p] \notin {"SUSPENDED_BLOCKED", "SUSPENDED_READY"}
                     /\ Len(residentes[p]) < MARCOS_POR_PROCESO => libres # {}

\* The TLB never lies: while a process runs each entry is the frame its page
\* is in, no page and no frame has two entries, and it has entradas_tlb at
\* most.
TLBCoherente ==
  \A p \in Ciclo!Los("EXEC") :
    /\ Len(tlb) <= config.entradas_tlb
    /\ IsInjective([k \in DOMAIN tlb |-> tlb[k][1]])
    /\ \A k \in DOMAIN tlb :
         pagina[p][tlb[k][1]].presencia /\ pagina[p][tlb[k][1]].marco = tlb[k][2]

\* A resident page that is not marked as modified can be dropped: its word is
\* the one in swap, except between the two steps of memoria_escribir.
LimpiasEnSwap ==
  \A p \in Vivos : \A n \in ToSet(residentes[p]) :
    LET m == pagina[p][n].marco IN
      \/ pagina[p][n].modificado = 1
      \/ punto = "marcar" /\ marco = m
      \/ principal[m] = swap[p][n]

\* The page memoria_escribir looks for after its write is still there, and it
\* is the one that was written (buscar_pagina returns NULL otherwise).
EscrituraEncuentra ==
  punto = "marcar" => BuscarPagina(marco) = {<<Ejecutando, instruccion.pagina>>}

\* The victim is the page of the lowest class, the first in clock order: by
\* its use bit under CLOCK, by (use, modified) under CLOCK-M.
Clase(g) == IF config.reemplazo = "CLOCK" THEN g.uso ELSE 2 * g.uso + g.modificado
VictimaMinima ==
  \A p \in Vivos : residentes[p] # <<>> =>
    LET v == Reemplazo(p).victima
        clase(k) == Clase(pagina[p][residentes[p][k]])
    IN \A k \in DOMAIN residentes[p] :
         clase(v) < clase(k) \/ (clase(v) = clase(k) /\ v <= k)

\* What a process has in each of its pages, wherever they are.
Contenido(p) ==
  [n \in Numeros(p) |->
     IF p \notin Vivos THEN 0
     ELSE IF pagina[p][n].presencia THEN principal[pagina[p][n].marco]
     ELSE swap[p][n]]

Vida(p) == IF estado[p] = "EXIT" THEN "salio" ELSE IF estado[p] = "FIN" THEN "fin" ELSE "vive"

\* A write is done with its first step: the mark that follows is not part of
\* what a program sees.
Abstracta == INSTANCE MemoriaAbstracta WITH
  contenido <- [p \in Procesos |-> Contenido(p)],
  corre <- Ciclo!Los("EXEC"),
  vida <- [p \in Procesos |-> Vida(p)],
  instruccion <- IF punto = "marcar" THEN SinInstruccion ELSE instruccion

\* Frames, swap, TLB, replacement and suspension implement a memory for each
\* process: each READ, WRITE or COPY of the process in the CPU does what it asked
\* to the word of the page it asked for, a read gives the last word that process
\* wrote there, and no other step changes a word of any process
\* (mmu.c, tlb.c, execute.c; paginas.c, proceso.c, swap.c of the memory).
ImplementaMemoria == Abstracta!Spec

=============================================================================
