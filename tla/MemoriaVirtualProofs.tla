------------------------- MODULE MemoriaVirtualProofs -------------------------
(***************************************************************************)
(* Proofs about the virtual memory of KISS, for any number of processes,   *)
(* pages, tables and frames, both replacement algorithms and any TLB.      *)
(*                                                                         *)
(* The invariant is built in layers: the states of the processes (Dentro), *)
(* the degree of multiprogramming, the tables, the instruction in course   *)
(* (Curso) and, on top of them, Coherente, whose parts are inductive only  *)
(* together: lists, bits and frames agree (Memoria), the CPU holds the     *)
(* frame of its page (Acceso), the TLB says no lie (EnTLB) and swap has    *)
(* the clean pages (Limpias).  Each action is first reduced to what it     *)
(* does to pages and frames (Trae, Suelta, Mismas).                        *)
(***************************************************************************)
EXTENDS MemoriaVirtual, Lemas

-----------------------------------------------------------------------------
\* The kernel's states of the processes follow the life cycle.

\* Where the processes are, and which one is being started.
Dentro ==
  /\ Ciclo!TypeOK
  /\ Ciclo!UnoEnCpu
  /\ config \in Configuraciones
  /\ \A p \in Procesos : estado[p] # "FUERA" => p \in config.llegan
  /\ iniciando \in Procesos \cup {NULL}
  /\ \A p \in Procesos : iniciando = p => estado[p] = "NEW"

\* Who moves which process, and which steps move none.
LEMMA QuienMueve ==
  ASSUME [Next]_vars
  PROVE  \/ UNCHANGED estado
         \/ \E p \in Procesos :
              \/ Llegar(p) \/ IniciarSwap(p) \/ Suspender(p) \/ Finalizar(p)
              \/ Volver(p) \/ EjecutarProceso(p) \/ DevolverProceso(p)
<1>1. CASE UNCHANGED vars
  BY <1>1 DEF vars, kernelVars
<1>2. ASSUME NEW p \in Procesos, IniciarTablas(p) \/ Fetch(p) \/ FalloTLB(p)
      PROVE  UNCHANGED estado
  BY <1>2 DEF IniciarTablas, Fetch, FalloTLB, kernelVars
<1>3. CASE MMU
  BY <1>3 DEF MMU, AciertoTLB, Leer, Escribir, Marcar, kernelVars
<1>. QED
  BY <1>1, <1>2, <1>3 DEF Next, Kernel, CPU

\* No step changes what the configuration says.
LEMMA ConfigFija ==
  ASSUME [Next]_vars
  PROVE  config' = config
<1>1. CASE UNCHANGED vars
  BY <1>1 DEF vars, paginacionVars, tablasVars
<1>2. ASSUME NEW p \in Procesos, Kernel(p) PROVE config' = config
  BY <1>2 DEF Kernel, Llegar, IniciarTablas, IniciarSwap, Suspender, Finalizar, Volver,
     CrearTablas, SwapIniciarProceso, SuspenderProceso, FinalizarProceso, paginacionVars, tablasVars
<1>3. ASSUME NEW p \in Procesos, CPU(p) PROVE config' = config
  BY <1>3 DEF CPU, EjecutarProceso, DevolverProceso, Fetch, FalloTLB, TraerAMemoria,
     YaPresente, EnMarcoLibre, EnLugarDeOtra, paginacionVars, tablasVars
<1>4. CASE MMU
  BY <1>4 DEF MMU, AciertoTLB, Leer, Escribir, Marcar, MemoriaEscribir, MarcarModificada,
     paginacionVars, tablasVars
<1>. QED
  BY <1>1, <1>2, <1>3, <1>4 DEF Next

\* A step moves one process along one arrow of the diagram.
LEMMA Flecha ==
  ASSUME Ciclo!TypeOK, NEW p \in Procesos, NEW a, NEW b \in Ciclo!EstadosDelCiclo,
         Ciclo!Pasar(p, a, b)
  PROVE  /\ Ciclo!TypeOK'
         /\ estado[p] = a /\ estado'[p] = b
         /\ \A q \in Procesos \ {p} : estado'[q] = estado[q]
BY DEF Ciclo!TypeOK, Ciclo!Pasar

\* The arrows that each step may take.
Flechas(p) ==
  \/ Llegar(p) /\ Ciclo!Pasar(p, "FUERA", "NEW")
  \/ IniciarSwap(p) /\ Ciclo!Pasar(p, "NEW", "READY")
  \/ Suspender(p) /\ Ciclo!Pasar(p, "BLOCKED", "SUSPENDED_BLOCKED")
  \/ Finalizar(p) /\ Ciclo!Pasar(p, "EXIT", "FIN")
  \/ Volver(p) /\ Ciclo!Pasar(p, "SUSPENDED_READY", "READY")
  \/ Volver(p) /\ Ciclo!Pasar(p, "BLOCKED", "READY")
  \/ Volver(p) /\ Ciclo!Pasar(p, "SUSPENDED_BLOCKED", "SUSPENDED_READY")
  \/ EjecutarProceso(p) /\ Ciclo!Pasar(p, "READY", "EXEC")
  \/ DevolverProceso(p) /\ Ciclo!Pasar(p, "EXEC", "READY")
  \/ DevolverProceso(p) /\ Ciclo!Pasar(p, "EXEC", "BLOCKED")
  \/ DevolverProceso(p) /\ Ciclo!Pasar(p, "EXEC", "EXIT")

\* Every step that moves a process takes one of those arrows.
LEMMA PasosYFlechas ==
  ASSUME Dentro, [Next]_vars, ~UNCHANGED estado
  PROVE  \E p \in Procesos : Flechas(p)
<1>1. PICK p \in Procesos :
        \/ Llegar(p) \/ IniciarSwap(p) \/ Suspender(p) \/ Finalizar(p)
        \/ Volver(p) \/ EjecutarProceso(p) \/ DevolverProceso(p)
  BY QuienMueve
<1>2. CASE Llegar(p)
  BY <1>2 DEF Llegar, Ciclo!Llegar, Flechas
<1>3. CASE IniciarSwap(p)
  <2>1. estado[p] = "NEW"
    BY <1>3 DEF IniciarSwap, Dentro
  <2>. QED
    BY <1>3, <2>1 DEF IniciarSwap, Ciclo!Admitir, Ciclo!Pasar, Flechas
<1>4. CASE Suspender(p)
  BY <1>4 DEF Suspender, Ciclo!Suspender, Flechas
<1>5. CASE Finalizar(p)
  BY <1>5 DEF Finalizar, Ciclo!Terminar, Ciclo!Pasar, Flechas
<1>6. CASE Volver(p)
  BY <1>6 DEF Volver, Ciclo!Admitir, Ciclo!Despertar, Ciclo!Pasar, Flechas
<1>7. CASE EjecutarProceso(p)
  BY <1>7 DEF EjecutarProceso, Ciclo!Despachar, Flechas
<1>8. CASE DevolverProceso(p)
  BY <1>8 DEF DevolverProceso, Ciclo!Desalojar, Ciclo!Bloquear, Ciclo!Terminar, Ciclo!Pasar, Flechas
<1>. QED
  BY <1>1, <1>2, <1>3, <1>4, <1>5, <1>6, <1>7, <1>8

\* Nobody has arrived yet.
LEMMA DentroInicio ==
  ASSUME Init
  PROVE  Dentro
<1>1. NULL \notin Procesos
  BY PaginacionAssumption
<1>. QED
  BY <1>1 DEF Init, PaginacionInit, Ciclo!Init, Dentro, Ciclo!TypeOK, Ciclo!UnoEnCpu, Ciclo!Los,
     Ciclo!EstadosDelCiclo

\* INICIAR_PROCESO is served to a process that is still in NEW.
LEMMA IniciandoPaso ==
  ASSUME Dentro, [Next]_vars
  PROVE  /\ iniciando' \in Procesos \cup {NULL}
         /\ \A p \in Procesos : iniciando' = p => estado'[p] = "NEW"
<1>1. ASSUME NEW p \in Procesos, IniciarTablas(p)
      PROVE  iniciando' = p /\ estado'[p] = "NEW"
  BY <1>1 DEF IniciarTablas
<1>2. ASSUME NEW p \in Procesos, IniciarSwap(p) PROVE iniciando' = NULL
  BY <1>2 DEF IniciarSwap
<1>3. ASSUME \A p \in Procesos : ~IniciarTablas(p) /\ ~IniciarSwap(p) PROVE iniciando' = iniciando
  <2>1. CASE UNCHANGED vars
    BY <2>1 DEF vars, kernelVars
  <2>2. ASSUME NEW p \in Procesos, Kernel(p) PROVE iniciando' = iniciando
    BY <1>3, <2>2 DEF Kernel, Llegar, Suspender, Finalizar, Volver
  <2>3. ASSUME NEW p \in Procesos, CPU(p) PROVE iniciando' = iniciando
    BY <2>3 DEF CPU, EjecutarProceso, DevolverProceso, Fetch, FalloTLB, kernelVars
  <2>4. CASE MMU
    BY <2>4 DEF MMU, AciertoTLB, Leer, Escribir, Marcar, kernelVars
  <2>. QED
    BY <2>1, <2>2, <2>3, <2>4 DEF Next
<1>4. NULL \notin Procesos
  BY PaginacionAssumption
<1>5. ASSUME \A p \in Procesos : ~IniciarTablas(p) /\ ~IniciarSwap(p), NEW p \in Procesos,
             iniciando = p
      PROVE  estado'[p] = "NEW"
  <2>1. estado[p] = "NEW"
    BY <1>5 DEF Dentro
  <2>2. ASSUME NEW q \in Procesos, Flechas(q) PROVE estado'[p] = "NEW"
    <3>1. PICK a \in Ciclo!EstadosDelCiclo \ {"NEW"}, b \in Ciclo!EstadosDelCiclo : Ciclo!Pasar(q, a, b)
      BY <1>5, <2>2 DEF Flechas, Ciclo!EstadosDelCiclo
    <3>2. /\ estado[q] = a
          /\ \A r \in Procesos \ {q} : estado'[r] = estado[r]
      BY <3>1, Flecha DEF Dentro
    <3>. QED
      BY <2>1, <3>1, <3>2
  <2>. QED
    BY <2>1, <2>2, PasosYFlechas
<1>. QED
  BY <1>1, <1>2, <1>3, <1>4, <1>5 DEF Dentro

\* One process moves, along one arrow; only a dispatch puts one in the CPU.
LEMMA DentroPaso ==
  ASSUME Dentro, [Next]_vars
  PROVE  Dentro'
<1>1. /\ config' = config
      /\ iniciando' \in Procesos \cup {NULL}
      /\ \A p \in Procesos : iniciando' = p => estado'[p] = "NEW"
  BY ConfigFija, IniciandoPaso
<1>2. ASSUME UNCHANGED estado
      PROVE  Dentro'
  BY <1>1, <1>2 DEF Dentro, Ciclo!TypeOK, Ciclo!UnoEnCpu, Ciclo!Los
<1>3. ASSUME NEW p \in Procesos, Flechas(p)
      PROVE  Dentro'
  <2>1. CASE EjecutarProceso(p) /\ Ciclo!Pasar(p, "READY", "EXEC")
    <3>1. /\ Ciclo!TypeOK' /\ estado[p] = "READY" /\ estado'[p] = "EXEC"
          /\ \A q \in Procesos \ {p} : estado'[q] = estado[q]
      BY <2>1, Flecha DEF Dentro, Ciclo!EstadosDelCiclo
    <3>2. \A q \in Procesos : estado[q] # "EXEC"
      BY <2>1 DEF EjecutarProceso, Ciclo!Despachar, Ciclo!Los
    <3>3. Ciclo!UnoEnCpu'
      BY <3>1, <3>2 DEF Ciclo!UnoEnCpu, Ciclo!Los
    <3>. QED
      BY <1>1, <3>1, <3>3 DEF Dentro
  <2>2. ASSUME NEW a \in Ciclo!EstadosDelCiclo, NEW b \in Ciclo!EstadosDelCiclo \ {"EXEC"},
               Ciclo!Pasar(p, a, b), a = "FUERA" => p \in config.llegan
        PROVE  Dentro'
    <3>1. /\ Ciclo!TypeOK' /\ estado[p] = a /\ estado'[p] = b
          /\ \A q \in Procesos \ {p} : estado'[q] = estado[q]
      BY <2>2, Flecha DEF Dentro
    <3>2. Ciclo!UnoEnCpu'
      BY <2>2, <3>1 DEF Dentro, Ciclo!UnoEnCpu, Ciclo!Los
    <3>. QED
      BY <1>1, <2>2, <3>1, <3>2 DEF Dentro
  <2>3. CASE Llegar(p) /\ Ciclo!Pasar(p, "FUERA", "NEW")
    BY <2>2, <2>3 DEF Llegar, Ciclo!EstadosDelCiclo
  <2>. QED
    BY <1>3, <2>1, <2>2, <2>3 DEF Flechas, Ciclo!EstadosDelCiclo
<1>. QED
  BY <1>2, <1>3, PasosYFlechas

\* The states are those of the diagram, one process is in the CPU at most, and
\* the process being started stays in NEW until its swap file is clear.
THEOREM DentroSiempre == Spec => []Dentro
<1>1. Init => Dentro
  BY DentroInicio
<1>2. Dentro /\ [Next]_vars => Dentro'
  BY DentroPaso
<1>. QED
  BY <1>1, <1>2, PTL DEF Spec

\* Only an admission adds to the processes in memory, and it asks for a place.
LEMMA MismoCardinal == \A S : Ciclo!Cardinality(S) = Cardinality(S)
BY DEF Cardinality, Ciclo!Cardinality, IsFiniteSet, Ciclo!IsFiniteSet

GradoRespetado == Cardinality(Ciclo!EnMemoria) <= GRADO

\* Only Admitir adds a process to those in memory, with fewer than GRADO there.
LEMMA GradoPaso ==
  ASSUME Dentro, GradoRespetado, [Next]_vars
  PROVE  GradoRespetado'
<1>. DEFINE M == Ciclo!EnMemoria
            N == {p \in Procesos : estado'[p] \in {"READY", "EXEC", "BLOCKED", "EXIT"}}
<1>0. IsFiniteSet(Procesos) /\ GRADO \in Nat /\ Ciclo!EnMemoria' = N
  BY PaginacionAssumption, MemoriaVirtualAssumption DEF Ciclo!EnMemoria
<1>1. M \subseteq Procesos /\ N \subseteq Procesos
  BY DEF Ciclo!EnMemoria
<1>2. IsFiniteSet(M) /\ IsFiniteSet(N) /\ Cardinality(M) \in Nat /\ Cardinality(N) \in Nat
  BY <1>0, <1>1, FS_Subset, FS_CardinalityType
<1>3. ASSUME N \subseteq M PROVE Cardinality(N) <= GRADO
  <2>1. Cardinality(N) <= Cardinality(M)
    BY <1>2, <1>3, FS_Subset
  <2>. QED
    BY <1>0, <1>2, <2>1 DEF GradoRespetado
<1>4. ASSUME NEW p \in Procesos, N \subseteq M \cup {p}, Cardinality(M) < GRADO
      PROVE  Cardinality(N) <= GRADO
  <2>. HIDE DEF M, N
  <2>1. /\ IsFiniteSet(M \cup {p})
        /\ Cardinality(M \cup {p}) = IF p \in M THEN Cardinality(M) ELSE Cardinality(M) + 1
    BY <1>2, FS_AddElement
  <2>2. Cardinality(N) <= Cardinality(M \cup {p})
    BY <1>4, <2>1, FS_Subset
  <2>. QED
    BY <1>0, <1>2, <1>4, <2>1, <2>2
<1>5. ASSUME UNCHANGED estado PROVE Cardinality(N) <= GRADO
  <2>1. N \subseteq M
    BY <1>5 DEF Ciclo!EnMemoria
  <2>. QED
    BY <1>3, <2>1
<1>6. ASSUME NEW p \in Procesos, Flechas(p) PROVE Cardinality(N) <= GRADO
  <2>1. ASSUME NEW a \in Ciclo!EstadosDelCiclo, NEW b \in Ciclo!EstadosDelCiclo,
               Ciclo!Pasar(p, a, b),
               b \in {"READY", "EXEC", "BLOCKED", "EXIT"}
                 => a \in {"READY", "EXEC", "BLOCKED", "EXIT"}
        PROVE  Cardinality(N) <= GRADO
    <3>1. N \subseteq M
      BY <2>1, Flecha DEF Dentro, Ciclo!EnMemoria
    <3>. QED
      BY <1>3, <3>1
  <2>2. ASSUME NEW a \in Ciclo!EstadosDelCiclo, Ciclo!Pasar(p, a, "READY"), Ciclo!Admitir(p)
        PROVE  Cardinality(N) <= GRADO
    <3>1. N \subseteq M \cup {p}
      BY <2>2, Flecha DEF Dentro, Ciclo!EnMemoria, Ciclo!EstadosDelCiclo
    <3>2. Cardinality(M) < GRADO
      BY <2>2, MismoCardinal DEF Ciclo!Admitir
    <3>. QED
      BY <1>4, <3>1, <3>2
  <2>3. CASE IniciarSwap(p) /\ Ciclo!Pasar(p, "NEW", "READY")
    BY <2>2, <2>3 DEF IniciarSwap, Ciclo!EstadosDelCiclo
  <2>4. CASE Volver(p) /\ Ciclo!Pasar(p, "SUSPENDED_READY", "READY")
    <3>1. Ciclo!Admitir(p)
      BY <2>4 DEF Volver, Ciclo!Despertar, Ciclo!Pasar
    <3>. QED
      BY <2>2, <2>4, <3>1 DEF Ciclo!EstadosDelCiclo
  <2>. QED
    BY <1>6, <2>1, <2>3, <2>4 DEF Flechas, Ciclo!EstadosDelCiclo
<1>. QED
  BY <1>0, <1>5, <1>6, PasosYFlechas DEF GradoRespetado

\* No more than GRADO processes are in memory, which is what bounds the frames
\* that can be taken.
THEOREM GradoSiempre == Spec => []GradoRespetado
<1>1. Init => GradoRespetado
  <2>1. Init => Ciclo!EnMemoria = {}
    BY DEF Init, Ciclo!Init, Ciclo!EnMemoria
  <2>2. Cardinality({}) = 0 /\ GRADO \in Nat
    BY FS_EmptySet, MemoriaVirtualAssumption
  <2>. QED
    BY <2>1, <2>2 DEF GradoRespetado
<1>2. Dentro /\ GradoRespetado /\ [Next]_vars => GradoRespetado'
  BY GradoPaso
<1>. QED
  BY <1>1, <1>2, DentroSiempre, PTL DEF Spec

-----------------------------------------------------------------------------
\* The tables: what PEDIR_TABLA and PEDIR_MARCO find is the page asked for.

\* The table and the entry of a page exist, for the sizes entradas_tabla_
\* intermedia gives to the tables.
LEMMA EntradasAlcanzan ==
  ASSUME NEW e \in Nat \ {0}, NEW c \in Nat \ {0}, NEW n \in 0..(c - 1),
         c <= 2 * e \/ c % e = 0
  PROVE  /\ n \div e \in Nat /\ n \div e < (c + e - 1) \div e
         /\ n % e \in Nat
         /\ n % e < IF n \div e = 0 THEN Min({e, c}) ELSE IF c % e = 0 THEN e ELSE c % e
<1>. DEFINE i == n \div e
            j == n % e
            a == (c - 1) \div e
            b == (c - 1) % e
<1>1. /\ i \in Nat /\ j \in 0..(e - 1) /\ n = i * e + j
      /\ a \in Nat /\ b \in 0..(e - 1) /\ c - 1 = a * e + b
  <2>. DEFINE d == c - 1
  <2>1. n \in Nat /\ d \in Nat
    OBVIOUS
  <2>. HIDE DEF d
  <2>2. /\ n \div e \in Nat /\ n % e \in 0..(e - 1) /\ n = (n \div e) * e + (n % e)
        /\ d \div e \in Nat /\ d % e \in 0..(e - 1) /\ d = (d \div e) * e + (d % e)
    BY <2>1, DivisionDe
  <2>. QED
    BY <2>2 DEF d
<1>. HIDE DEF i, j, a, b
<1>2. (c + e - 1) \div e = a + 1
  <2>1. (a + 1) * e = a * e + e
    BY <1>1, Multiplos
  <2>2. c + e - 1 = (a + 1) * e + b
    BY <1>1, <2>1
  <2>. QED
    BY <1>1, <2>2, DivisionUnica
<1>3. i <= a
  <2>1. ASSUME a < i PROVE FALSE
    <3>1. a * e \in Nat /\ i * e \in Nat /\ (a + 1) * e = a * e + e
      BY <1>1, Multiplos
    <3>2. a * e < i * e => a * e + e <= i * e
      BY <1>1, Multiplos
    <3>3. (a + 1) * e <= i * e
      <4>. PICK d \in Nat : i = (a + 1) + d
        BY <1>1, <2>1
      <4>1. i * e = (a + 1) * e + d * e /\ d * e \in Nat
        BY <1>1
      <4>. QED
        BY <1>1, <3>1, <4>1
    <3>. QED
      BY <1>1, <3>1, <3>3
  <2>. QED
    BY <1>1, <2>1
<1>4. CASE i = 0
  BY <1>1, <1>4, MinimoDeDos
<1>5. CASE c % e = 0
  BY <1>1, <1>4, <1>5
<1>6. CASE i # 0 /\ c % e # 0
  <2>1. c <= 2 * e /\ i \in Nat \ {0}
    BY <1>1, <1>6
  <2>2. i * e >= e
    <3>. PICK d \in Nat : i = d + 1
      BY <2>1
    <3>1. i * e = d * e + e /\ d * e \in Nat
      OBVIOUS
    <3>. QED
      BY <3>1
  <2>3. c = 1 * e + (c - e) /\ c - e \in 1..e
    BY <1>1, <2>1, <2>2
  <2>4. c - e # e
    <3>1. (2 * e + 0) % e = 0
      BY DivisionUnica
    <3>. QED
      BY <1>6, <3>1
  <2>5. c % e = c - e
    <3>. DEFINE r == c - e
    <3>1. r \in 0..(e - 1) /\ c = 1 * e + r
      BY <2>3, <2>4
    <3>. HIDE DEF r
    <3>2. c % e = r
      BY <3>1, DivisionUnica
    <3>. QED
      BY <3>2 DEF r
  <2>. QED
    BY <1>1, <1>6, <2>2, <2>5
<1>7. /\ i < (c + e - 1) \div e
      /\ j < IF i = 0 THEN Min({e, c}) ELSE IF c % e = 0 THEN e ELSE c % e
  BY <1>1, <1>2, <1>3, <1>4, <1>5, <1>6
<1>. QED
  BY <1>1, <1>7 DEF i, j

\* The processes whose tables have been made, and where a page is in them.
ConTablas(p) == estado[p] \notin {"FUERA", "NEW"} \/ iniciando = p
Lleva(t, n) ==
  LET tablas == primer_nivel[t + 1].tablas
      i == n \div ENTRADAS_POR_TABLA
  IN /\ i < Len(tablas) /\ tablas[i + 1] < Len(segundo_nivel)
     /\ segundo_nivel[tablas[i + 1] + 1][(n % ENTRADAS_POR_TABLA) + 1] = n

Filas == [proceso : Procesos, tablas : Seq(Nat)]

Tablas ==
  /\ primer_nivel \in Seq(Filas)
  /\ segundo_nivel \in Seq(Seq(Nat))
  /\ pcb \in [Procesos -> Nat]
  /\ \A p \in Procesos : ConTablas(p) =>
       /\ pcb[p] < Len(primer_nivel)
       /\ primer_nivel[pcb[p] + 1].proceso = p
       /\ \A n \in Numeros(p) : Lleva(pcb[p], n)

\* The sizes that entradas_tabla_intermedia works with are numbers.
LEMMA TamaniosDe ==
  ASSUME Dentro, NEW p \in Procesos
  PROVE  /\ ENTRADAS_POR_TABLA \in Nat \ {0} /\ PAGINAS[p] \in Nat \ {0}
         /\ PAGINAS[p] <= 2 * ENTRADAS_POR_TABLA \/ PAGINAS[p] % ENTRADAS_POR_TABLA = 0
         /\ CantidadTablas(p) \in Nat
         /\ \A i \in Nat : EntradasTablaIntermedia(i, PAGINAS[p]) \in Nat
<1>. DEFINE c == PAGINAS[p]
            e == ENTRADAS_POR_TABLA
<1>1. /\ e \in Nat \ {0} /\ c \in Nat \ {0}
      /\ c <= 2 * e \/ c % e = 0
  BY PaginacionAssumption DEF Dentro, PAGINAS, TablasEnteras
<1>2. CantidadTablas(p) = (c + e - 1) \div e
  BY DEF CantidadTablas
<1>3. \A i \in Nat : EntradasTablaIntermedia(i, c)
         = IF i = 0 THEN Min({e, c}) ELSE IF c % e = 0 THEN e ELSE c % e
  BY DEF EntradasTablaIntermedia
<1>. HIDE DEF c, e
<1>4. (c + e - 1) \div e \in Nat
  <2>. DEFINE d == c + e - 1
  <2>1. d \in Nat
    BY <1>1
  <2>. HIDE DEF d
  <2>2. d \div e \in Nat
    BY <1>1, <2>1, DivisionDe
  <2>. QED
    BY <2>2 DEF d
<1>5. Min({e, c}) \in Nat /\ c % e \in Nat
  <2>1. c % e \in 0..(e - 1)
    BY <1>1, DivisionDe
  <2>. QED
    BY <1>1, <2>1, MinimoDeDos
<1>6. CantidadTablas(p) \in Nat /\ \A i \in Nat : EntradasTablaIntermedia(i, c) \in Nat
  BY <1>1, <1>2, <1>3, <1>4, <1>5
<1>. QED
  BY <1>1, <1>6 DEF c, e

\* The pages of the i-th table, in order.
LEMMA CrearPaginasDe ==
  ASSUME Dentro, NEW p \in Procesos, NEW i \in Nat
  PROVE  /\ CrearPaginas(p, i) \in Seq(Nat)
         /\ Len(CrearPaginas(p, i)) = EntradasTablaIntermedia(i, PAGINAS[p])
         /\ \A j \in 1..EntradasTablaIntermedia(i, PAGINAS[p]) :
              CrearPaginas(p, i)[j] = i * ENTRADAS_POR_TABLA + j - 1
<1>. DEFINE k == EntradasTablaIntermedia(i, PAGINAS[p])
            s == [j \in 1..k |-> i * ENTRADAS_POR_TABLA + j - 1]
<1>1. k \in Nat /\ ENTRADAS_POR_TABLA \in Nat
  BY TamaniosDe
<1>2. i * ENTRADAS_POR_TABLA \in Nat
  BY <1>1
<1>. HIDE DEF k
<1>3. \A j \in 1..k : i * ENTRADAS_POR_TABLA + j - 1 \in Nat
  BY <1>1, <1>2
<1>4. s \in Seq(Nat) /\ Len(s) = k
  BY <1>1, <1>3, IsASeq, LenProperties
<1>5. s = CrearPaginas(p, i)
  BY DEF CrearPaginas, k
<1>. QED
  BY <1>4, <1>5 DEF k

\* The tables of the process that starts lead to each of its pages.
LEMMA CrearTablasDe ==
  ASSUME Dentro, Tablas, NEW p \in Procesos, CrearTablas(p),
         NEW m \in Nat, m = Len(primer_nivel)
  PROVE  /\ primer_nivel' \in Seq(Filas) /\ segundo_nivel' \in Seq(Seq(Nat))
         /\ Len(primer_nivel') = m + 1
         /\ primer_nivel'[m + 1].proceso = p
         /\ \A k \in 1..m : primer_nivel'[k] = primer_nivel[k]
         /\ Len(segundo_nivel) \in Nat /\ Len(segundo_nivel) <= Len(segundo_nivel')
         /\ \A k \in 1..Len(segundo_nivel) : segundo_nivel'[k] = segundo_nivel[k]
         /\ \A n \in Numeros(p) : Lleva(m, n)'
<1>. DEFINE l == Len(segundo_nivel)
            c == CantidadTablas(p)
            ts == [i \in 1..c |-> l + i - 1]
            ps == [i \in 1..c |-> CrearPaginas(p, i - 1)]
            fila == [proceso |-> p, tablas |-> ts]
<1>1. /\ primer_nivel' = Append(primer_nivel, fila)
      /\ segundo_nivel' = segundo_nivel \o ps
      /\ config' = config
  BY DEF CrearTablas
<1>2. /\ primer_nivel \in Seq(Filas) /\ segundo_nivel \in Seq(Seq(Nat))
      /\ l \in Nat /\ c \in Nat
  BY TamaniosDe, LenProperties DEF Tablas
<1>. HIDE DEF l, c
<1>3. ts \in Seq(Nat) /\ Len(ts) = c
  <2>1. \A i \in 1..c : l + i - 1 \in Nat
    BY <1>2
  <2>. QED
    BY <1>2, <2>1, IsASeq, LenProperties
<1>4. ps \in Seq(Seq(Nat)) /\ Len(ps) = c
  <2>1. \A i \in 1..c : CrearPaginas(p, i - 1) \in Seq(Nat)
    BY <1>2, CrearPaginasDe
  <2>. QED
    BY <1>2, <2>1, IsASeq, LenProperties
<1>5. fila \in Filas
  BY <1>3 DEF Filas
<1>6. \A i \in 1..c : ts[i] = l + i - 1 /\ ps[i] = CrearPaginas(p, i - 1)
  OBVIOUS
<1>7. fila.proceso = p /\ fila.tablas = ts
  OBVIOUS
<1>. HIDE DEF ts, ps, fila
<1>8. /\ primer_nivel' \in Seq(Filas) /\ Len(primer_nivel') = m + 1
      /\ primer_nivel'[m + 1] = fila
      /\ \A k \in 1..m : primer_nivel'[k] = primer_nivel[k]
  BY <1>1, <1>2, <1>5, AppendProperties
<1>9. /\ segundo_nivel' \in Seq(Seq(Nat)) /\ Len(segundo_nivel') = l + c
      /\ \A k \in 1..(l + c) : segundo_nivel'[k] = IF k <= l THEN segundo_nivel[k] ELSE ps[k - l]
  BY <1>1, <1>2, <1>4, ConcatProperties DEF l
<1>10. ASSUME NEW n \in Numeros(p)
       PROVE  Lleva(m, n)'
  <2>. DEFINE e == ENTRADAS_POR_TABLA
              i == n \div e
              j == n % e
              x == EntradasTablaIntermedia(i, PAGINAS[p])
  <2>1. /\ i \in Nat /\ i < c /\ j \in Nat /\ j < x /\ x \in Nat
    <3>1. /\ n \in 0..(PAGINAS[p] - 1) /\ e \in Nat \ {0} /\ PAGINAS[p] \in Nat \ {0}
          /\ PAGINAS[p] <= 2 * e \/ PAGINAS[p] % e = 0
      BY <1>10, TamaniosDe DEF Numeros
    <3>2. /\ i \in Nat /\ i < (PAGINAS[p] + e - 1) \div e /\ j \in Nat
          /\ j < IF i = 0 THEN Min({e, PAGINAS[p]})
                 ELSE IF PAGINAS[p] % e = 0 THEN e ELSE PAGINAS[p] % e
      BY <3>1, EntradasAlcanzan
    <3>3. i < c /\ j < x
      BY <3>2 DEF c, CantidadTablas, EntradasTablaIntermedia
    <3>. QED
      BY <3>2, <3>3, TamaniosDe
  <2>2. i * e + (j + 1) - 1 = n
    <3>1. n \in Nat /\ e \in Nat \ {0}
      BY <1>10, TamaniosDe DEF Numeros
    <3>2. n = i * e + j /\ i \in Nat
      BY <3>1, DivisionDe
    <3>4. e \in Nat
      BY <3>1
    <3>. HIDE DEF i, j, e
    <3>3. j \in Nat /\ i * e \in Nat
      BY <2>1, <3>2, <3>4
    <3>. QED
      BY <3>2, <3>3
  <2>3. CrearPaginas(p, i)[j + 1] = n
    <3>1. j + 1 \in 1..x
      BY <2>1
    <3>2. CrearPaginas(p, i)[j + 1] = i * e + (j + 1) - 1
      BY <2>1, <3>1, CrearPaginasDe
    <3>. QED
      BY <2>2, <3>2
  <2>4. Lleva(m, n)' <=> LET tablas == primer_nivel'[m + 1].tablas
                         IN /\ i < Len(tablas) /\ tablas[i + 1] < Len(segundo_nivel')
                            /\ segundo_nivel'[tablas[i + 1] + 1][j + 1] = n
    BY DEF Lleva
  <2>. HIDE DEF e, i, j, x
  <2>5. i + 1 \in 1..c
    BY <1>2, <2>1
  <2>6. ts[i + 1] = l + (i + 1) - 1 /\ ps[i + 1] = CrearPaginas(p, (i + 1) - 1)
    BY <1>6, <2>5
  <2>7. ts[i + 1] = l + i /\ ps[i + 1] = CrearPaginas(p, i)
    BY <1>2, <2>1, <2>6
  <2>8. segundo_nivel'[l + i + 1] = ps[i + 1]
    <3>1. l + i + 1 \in 1..(l + c) /\ ~(l + i + 1 <= l) /\ (l + i + 1) - l = i + 1
      BY <1>2, <2>1
    <3>. QED
      BY <1>9, <3>1
  <2>9. l + i < l + c
    BY <1>2, <2>1
  <2>. QED
    BY <1>3, <1>7, <1>8, <1>9, <2>1, <2>3, <2>4, <2>7, <2>8, <2>9
<1>11. l <= l + c /\ \A k \in 1..l : k \in 1..(l + c) /\ k <= l
  BY <1>2
<1>. QED
  BY <1>2, <1>7, <1>8, <1>9, <1>10, <1>11 DEF l

\* Only IniciarTablas touches the tables and the pcb.
LEMMA TablasQuietas ==
  ASSUME [Next]_vars, \A p \in Procesos : ~IniciarTablas(p)
  PROVE  UNCHANGED <<primer_nivel, segundo_nivel, pcb>>
<1>1. CASE UNCHANGED vars
  BY <1>1 DEF vars, paginacionVars, tablasVars, kernelVars
<1>2. ASSUME NEW p \in Procesos, Kernel(p) PROVE UNCHANGED <<primer_nivel, segundo_nivel, pcb>>
  BY <1>2 DEF Kernel, Llegar, IniciarSwap, Suspender, Finalizar, Volver,
     SwapIniciarProceso, SuspenderProceso, FinalizarProceso, paginacionVars, tablasVars
<1>3. ASSUME NEW p \in Procesos, CPU(p) PROVE UNCHANGED <<primer_nivel, segundo_nivel, pcb>>
  BY <1>3 DEF CPU, EjecutarProceso, DevolverProceso, Fetch, FalloTLB, TraerAMemoria,
     YaPresente, EnMarcoLibre, EnLugarDeOtra, paginacionVars, tablasVars, kernelVars
<1>4. CASE MMU
  BY <1>4 DEF MMU, AciertoTLB, Leer, Escribir, Marcar, MemoriaEscribir, MarcarModificada,
     paginacionVars, tablasVars, kernelVars
<1>. QED
  BY <1>1, <1>2, <1>3, <1>4 DEF Next

\* Only IniciarTablas gives tables to a process.
LEMMA ConTablasPaso ==
  ASSUME Dentro, Dentro', [Next]_vars, NEW p \in Procesos, ConTablas(p)', ~IniciarTablas(p)
  PROVE  ConTablas(p)
<1>1. CASE iniciando' = p
  <2>1. ASSUME NEW q \in Procesos, IniciarTablas(q) PROVE q = p
    BY <1>1, <2>1 DEF IniciarTablas
  <2>2. ASSUME NEW q \in Procesos, IniciarSwap(q) PROVE FALSE
    BY <1>1, <2>2, PaginacionAssumption DEF IniciarSwap
  <2>3. CASE UNCHANGED iniciando
    BY <1>1, <2>3 DEF ConTablas
  <2>4. CASE UNCHANGED vars
    BY <2>3, <2>4 DEF vars, kernelVars
  <2>5. ASSUME NEW q \in Procesos, Kernel(q) PROVE ConTablas(p)
    BY <2>1, <2>2, <2>3, <2>5 DEF Kernel, Llegar, Suspender, Finalizar, Volver
  <2>6. ASSUME NEW q \in Procesos, CPU(q) PROVE ConTablas(p)
    BY <2>3, <2>6 DEF CPU, EjecutarProceso, DevolverProceso, Fetch, FalloTLB, kernelVars
  <2>7. CASE MMU
    BY <2>3, <2>7 DEF MMU, AciertoTLB, Leer, Escribir, Marcar, kernelVars
  <2>. QED
    BY <2>1, <2>4, <2>5, <2>6, <2>7 DEF Next
<1>2. CASE estado'[p] \notin {"FUERA", "NEW"}
  <2>1. CASE UNCHANGED estado
    BY <1>2, <2>1 DEF ConTablas
  <2>2. ASSUME NEW q \in Procesos, Flechas(q) PROVE ConTablas(p)
    <3>1. CASE IniciarSwap(q) /\ Ciclo!Pasar(q, "NEW", "READY")
      <4>1. q = p \/ estado'[p] = estado[p]
        BY <3>1, Flecha DEF Dentro, Ciclo!EstadosDelCiclo
      <4>2. iniciando = q
        BY <3>1 DEF IniciarSwap
      <4>. QED
        BY <1>2, <4>1, <4>2 DEF ConTablas
    <3>2. ASSUME NEW a \in Ciclo!EstadosDelCiclo \ {"NEW"}, NEW b \in Ciclo!EstadosDelCiclo,
                 Ciclo!Pasar(q, a, b), a = "FUERA" => b = "NEW"
          PROVE  ConTablas(p)
      <4>1. /\ estado[q] = a /\ estado'[q] = b
            /\ \A r \in Procesos \ {q} : estado'[r] = estado[r]
        BY <3>2, Flecha DEF Dentro
      <4>. QED
        BY <1>2, <3>2, <4>1 DEF ConTablas
    <3>. QED
      BY <2>2, <3>1, <3>2 DEF Flechas, Ciclo!EstadosDelCiclo
  <2>. QED
    BY <2>1, <2>2, PasosYFlechas
<1>. QED
  BY <1>1, <1>2 DEF ConTablas

\* Tables are added at the end, so those that were there stay where they are.
LEMMA TablasPaso ==
  ASSUME Dentro, Dentro', Tablas, [Next]_vars
  PROVE  Tablas'
<1>0. config' = config /\ \A p \in Procesos : Numeros(p)' = Numeros(p)
  BY ConfigFija DEF Numeros, PAGINAS
<1>1. ASSUME \A p \in Procesos : ~IniciarTablas(p)
      PROVE  Tablas'
  <2>1. UNCHANGED <<primer_nivel, segundo_nivel, pcb>>
    BY <1>1, TablasQuietas
  <2>2. \A p \in Procesos : ConTablas(p)' => ConTablas(p)
    BY <1>1, ConTablasPaso
  <2>3. \A t, n : Lleva(t, n)' <=> Lleva(t, n)
    BY <2>1 DEF Lleva
  <2>4. ASSUME NEW p \in Procesos, ConTablas(p)'
        PROVE  /\ pcb'[p] < Len(primer_nivel')
               /\ primer_nivel'[pcb'[p] + 1].proceso = p
               /\ \A n \in Numeros(p)' : Lleva(pcb[p], n)'
    <3>. PICK t : t = pcb[p]
      OBVIOUS
    <3>1. /\ t < Len(primer_nivel)
          /\ primer_nivel[t + 1].proceso = p
          /\ \A n \in Numeros(p) : Lleva(t, n)
      BY <2>2, <2>4 DEF Tablas
    <3>2. \A n \in Numeros(p)' : Lleva(t, n)'
      BY <1>0, <2>3, <3>1
    <3>3. t = pcb'[p]
      BY <2>1
    <3>. QED
      BY <2>1, <3>1, <3>2, <3>3
  <2>. QED
    BY <2>1, <2>4 DEF Tablas
<1>2. ASSUME NEW p \in Procesos, IniciarTablas(p)
      PROVE  Tablas'
  <2>1. PICK m \in Nat : m = Len(primer_nivel)
    BY LenProperties DEF Tablas
  <2>2. CrearTablas(p) /\ pcb' = [pcb EXCEPT ![p] = m] /\ iniciando = NULL /\ iniciando' = p /\ estado' = estado
    BY <1>2, <2>1 DEF IniciarTablas
  <2>3. /\ primer_nivel' \in Seq(Filas) /\ segundo_nivel' \in Seq(Seq(Nat))
        /\ Len(primer_nivel') = m + 1
        /\ primer_nivel'[m + 1].proceso = p
        /\ \A k \in 1..m : primer_nivel'[k] = primer_nivel[k]
        /\ Len(segundo_nivel) \in Nat /\ Len(segundo_nivel) <= Len(segundo_nivel')
        /\ \A k \in 1..Len(segundo_nivel) : segundo_nivel'[k] = segundo_nivel[k]
        /\ \A n \in Numeros(p) : Lleva(m, n)'
    BY <2>1, <2>2, CrearTablasDe
  <2>4. pcb' \in [Procesos -> Nat] /\ pcb'[p] = m /\ \A q \in Procesos \ {p} : pcb'[q] = pcb[q]
    BY <2>2 DEF Tablas
  <2>5. ASSUME NEW q \in Procesos, ConTablas(q)'
        PROVE  /\ pcb'[q] < Len(primer_nivel')
               /\ primer_nivel'[pcb'[q] + 1].proceso = q
               /\ \A n \in Numeros(q)' : Lleva(pcb[q], n)'
    <3>1. CASE q = p
      <4>1. \A n \in Numeros(q)' : Lleva(m, n)'
        BY <1>0, <2>3, <3>1
      <4>. QED
        BY <2>3, <2>4, <3>1, <4>1
    <3>2. CASE q # p
      <4>1. ConTablas(q)
        BY <2>2, <2>5, <3>2 DEF ConTablas
      <4>2. PICK t \in Nat : t = pcb[q]
        BY DEF Tablas
      <4>3. /\ t < m
            /\ primer_nivel[t + 1].proceso = q
            /\ \A n \in Numeros(q) : Lleva(t, n)
        BY <2>1, <4>1, <4>2 DEF Tablas
      <4>4. t + 1 \in 1..m /\ t < m + 1
        BY <4>3
      <4>5. primer_nivel'[t + 1] = primer_nivel[t + 1]
        BY <2>3, <4>4
      <4>6. ASSUME NEW n \in Numeros(q) PROVE Lleva(t, n)'
        <5>. DEFINE i == n \div ENTRADAS_POR_TABLA
                    tablas == primer_nivel[t + 1].tablas
                    d == tablas[i + 1]
        <5>1. i < Len(tablas) /\ d < Len(segundo_nivel)
              /\ segundo_nivel[d + 1][(n % ENTRADAS_POR_TABLA) + 1] = n
          BY <4>3 DEF Lleva
        <5>2. d \in Nat
          <6>1. tablas \in Seq(Nat)
            <7>1. primer_nivel \in Seq(Filas) /\ t + 1 \in 1..Len(primer_nivel)
              BY <2>1, <4>4 DEF Tablas
            <7>2. primer_nivel[t + 1] \in Filas
              BY <7>1, ElementOfSeq
            <7>. QED
              BY <7>2 DEF Filas
          <6>2. i \in Nat
            <7>1. ENTRADAS_POR_TABLA \in Nat \ {0} /\ PAGINAS[q] \in Nat
              BY TamaniosDe
            <7>2. n \in Nat
              BY <7>1 DEF Numeros
            <7>. QED
              BY <7>1, <7>2, DivisionDe
          <6>3. i + 1 \in 1..Len(tablas)
            BY <5>1, <6>1, <6>2, LenProperties
          <6>. QED
            BY <6>1, <6>3, ElementOfSeq
        <5>3. Lleva(t, n)' <=>
                /\ i < Len(primer_nivel'[t + 1].tablas)
                /\ primer_nivel'[t + 1].tablas[i + 1] < Len(segundo_nivel')
                /\ segundo_nivel'[primer_nivel'[t + 1].tablas[i + 1] + 1][(n % ENTRADAS_POR_TABLA) + 1] = n
          BY DEF Lleva
        <5>4. primer_nivel'[t + 1].tablas = tablas
          BY <4>5
        <5>. HIDE DEF tablas, d, i
        <5>5. d + 1 \in 1..Len(segundo_nivel)
          BY <2>3, <5>1, <5>2
        <5>6. Lleva(t, n)' <=>
                /\ i < Len(tablas)
                /\ d < Len(segundo_nivel')
                /\ segundo_nivel'[d + 1][(n % ENTRADAS_POR_TABLA) + 1] = n
          BY <5>3, <5>4 DEF d
        <5>7. segundo_nivel'[d + 1] = segundo_nivel[d + 1]
          BY <2>3, <5>5
        <5>8. d < Len(segundo_nivel')
          <6>1. Len(segundo_nivel') \in Nat
            BY <2>3, LenProperties
          <6>. QED
            BY <2>3, <5>1, <5>2, <6>1
        <5>. QED
          BY <5>1, <5>6, <5>7, <5>8
      <4>7. pcb'[q] = t
        BY <2>4, <3>2, <4>2
      <4>. QED
        BY <1>0, <2>3, <4>3, <4>4, <4>5, <4>6, <4>7
    <3>. QED
      BY <3>1, <3>2
  <2>. QED
    BY <2>3, <2>4, <2>5 DEF Tablas
<1>. QED
  BY <1>1, <1>2

\* No process has tables.
LEMMA TablasInicio ==
  ASSUME Init
  PROVE  Tablas
<1>1. /\ primer_nivel = <<>> /\ segundo_nivel = <<>> /\ pcb = [p \in Procesos |-> 0]
      /\ \A p \in Procesos : ~ConTablas(p)
  BY PaginacionAssumption DEF Init, PaginacionInit, Ciclo!Init, ConTablas
<1>. QED
  BY <1>1, EmptySeq DEF Tablas

\* The tables a process is given lead to each of its pages, whatever other
\* processes start, and are never those of another.
THEOREM TablasSiempre == Spec => []Tablas
<1>1. Init => Tablas
  BY TablasInicio
<1>2. Dentro /\ Dentro' /\ Tablas /\ [Next]_vars => Tablas'
  BY TablasPaso
<1>. QED
  BY <1>1, <1>2, DentroSiempre, PTL DEF Spec

\* Ejecutando names the process in the CPU.
LEMMA EjecutandoEs ==
  ASSUME Dentro, NEW p \in Procesos, estado[p] = "EXEC"
  PROVE  Ejecutando = p
BY DEF Dentro, Ciclo!UnoEnCpu, Ciclo!Los, Ejecutando

\* The page the two levels of tables lead to is the one of the instruction.
LEMMA PaginaPedidaEs ==
  ASSUME Dentro, Tablas, NEW p \in Procesos, estado[p] = "EXEC",
         instruccion.pagina \in Numeros(p)
  PROVE  PaginaPedida = instruccion.pagina
<1>1. Ejecutando = p /\ ConTablas(p)
  BY EjecutandoEs DEF ConTablas
<1>2. Lleva(pcb[p], instruccion.pagina)
  BY <1>1 DEF Tablas
<1>. QED
  BY <1>1, <1>2 DEF Lleva, PaginaPedida, PaginaDe, PedirTabla

-----------------------------------------------------------------------------
\* Page replacement.

TPagina == [marco : Marcos, presencia : BOOLEAN, uso : {0, 1}, modificado : {0, 1}]

\* The victim is one of the residents, of the lowest class, the first in clock
\* order.
LEMMA ReemplazoDe ==
  ASSUME Dentro, NEW p \in Procesos, residentes[p] \in Seq(Numeros(p)), residentes[p] # <<>>,
         pagina[p] \in [Numeros(p) -> TPagina]
  PROVE  LET v == Reemplazo(p).victima
             clase(k) == Clase(pagina[p][residentes[p][k]])
         IN /\ v \in 1..Len(residentes[p])
            /\ \A k \in DOMAIN residentes[p] :
                 clase(v) < clase(k) \/ (clase(v) = clase(k) /\ v <= k)
            /\ Reemplazo(p).apagadas \subseteq 1..Len(residentes[p])
<1>. DEFINE l == Len(residentes[p])
            v == Reemplazo(p).victima
            u(k) == pagina[p][residentes[p][k]].uso
            m(k) == pagina[p][residentes[p][k]].modificado
            clase(k) == Clase(pagina[p][residentes[p][k]])
<1>1. l \in Nat /\ l # 0 /\ DOMAIN residentes[p] = 1..l
  BY LenProperties, EmptySeq
<1>2. \A k \in 1..l : u(k) \in {0, 1} /\ m(k) \in {0, 1}
  <2>1. ASSUME NEW k \in 1..l PROVE u(k) \in {0, 1} /\ m(k) \in {0, 1}
    <3>1. residentes[p][k] \in Numeros(p)
      BY ElementOfSeq
    <3>. QED
      BY <3>1 DEF TPagina
  <2>. QED
    BY <2>1
<1>3. \A U, M : Con(p, U, M) = {k \in 1..l : u(k) \in U /\ m(k) \in M}
  BY <1>1 DEF Con
<1>4. \A k : clase(k) = IF config.reemplazo = "CLOCK" THEN u(k) ELSE 2 * u(k) + m(k)
  BY DEF Clase
<1>5. config.reemplazo \in {"CLOCK", "CLOCK-M"}
  BY PaginacionAssumption DEF Dentro
<1>. HIDE DEF l, u, m, clase
<1>6. ASSUME NEW I \in SUBSET 1..l, I # {}
      PROVE  Min(I) \in I /\ Min(I) \in 1..l /\ \A j \in I : Min(I) <= j
  <2>1. I \in SUBSET Nat
    BY <1>1
  <2>. QED
    BY <1>6, <2>1, MinimoDe
<1>7. 1 \in 1..l /\ \A k \in 1..l : 1 <= k
  BY <1>1
<1>. DEFINE Bien(w) == /\ w \in 1..l
                       /\ \A k \in 1..l : clase(w) < clase(k) \/ (clase(w) = clase(k) /\ w <= k)
<1>8. ASSUME NEW I \in SUBSET 1..l, I # {}
      PROVE  1..(Min(I) - 1) \subseteq 1..l
  BY <1>1, <1>6, <1>8
<1>. HIDE DEF v
<1>9. ASSUME config.reemplazo = "CLOCK"
      PROVE  Bien(v) /\ Reemplazo(p).apagadas \subseteq 1..l
  <2>. DEFINE I == Con(p, {0}, {0, 1})
  <2>1. I \in SUBSET 1..l /\ \A k \in 1..l : k \in I <=> u(k) = 0
    BY <1>2, <1>3
  <2>2. Reemplazo(p) = IF I # {} THEN Hasta(I) ELSE [victima |-> 1, apagadas |-> 1..l]
    BY <1>1, <1>9 DEF Reemplazo, ReemplazarClock
  <2>. HIDE DEF I
  <2>3. \A k \in 1..l : clase(k) = u(k)
    BY <1>4, <1>9
  <2>4. CASE I # {}
    <3>1. Min(I) \in I /\ Min(I) \in 1..l /\ \A j \in I : Min(I) <= j
      BY <1>6, <2>1, <2>4
    <3>2. v = Min(I) /\ Reemplazo(p).apagadas = 1..(Min(I) - 1)
      BY <2>2, <2>4 DEF Hasta, v
    <3>3. Bien(Min(I))
      BY <1>2, <2>1, <2>3, <3>1
    <3>. QED
      BY <1>8, <2>1, <2>4, <3>2, <3>3
  <2>5. CASE I = {}
    <3>1. v = 1 /\ Reemplazo(p).apagadas = 1..l
      BY <2>2, <2>5 DEF v
    <3>2. Bien(1)
      BY <1>2, <1>7, <2>1, <2>3, <2>5
    <3>. QED
      BY <3>1, <3>2
  <2>. QED
    BY <2>4, <2>5
<1>10. ASSUME config.reemplazo # "CLOCK"
       PROVE  Bien(v) /\ Reemplazo(p).apagadas \subseteq 1..l
  <2>. DEFINE A == Con(p, {0}, {0})
              B == Con(p, {0}, {1})
              C == Con(p, {1}, {0})
  <2>1. /\ A \in SUBSET 1..l /\ B \in SUBSET 1..l /\ C \in SUBSET 1..l
        /\ \A k \in 1..l : /\ k \in A <=> u(k) = 0 /\ m(k) = 0
                           /\ k \in B <=> u(k) = 0 /\ m(k) = 1
                           /\ k \in C <=> u(k) = 1 /\ m(k) = 0
    BY <1>3
  <2>2. Reemplazo(p) = IF A # {} THEN [victima |-> Min(A), apagadas |-> {}]
                       ELSE IF B # {} THEN Hasta(B)
                       ELSE [victima |-> IF C # {} THEN Min(C) ELSE 1, apagadas |-> 1..l]
    BY <1>1, <1>10 DEF Reemplazo, ReemplazarClockModificado
  <2>. HIDE DEF A, B, C
  <2>3. \A k \in 1..l : clase(k) = 2 * u(k) + m(k)
    BY <1>4, <1>10
  <2>4. CASE A # {}
    <3>1. Min(A) \in A /\ Min(A) \in 1..l /\ \A j \in A : Min(A) <= j
      BY <1>6, <2>1, <2>4
    <3>2. v = Min(A) /\ Reemplazo(p).apagadas = {}
      BY <2>2, <2>4 DEF v
    <3>3. Bien(Min(A))
      BY <1>2, <2>1, <2>3, <3>1
    <3>. QED
      BY <3>2, <3>3
  <2>5. CASE A = {} /\ B # {}
    <3>1. Min(B) \in B /\ Min(B) \in 1..l /\ \A j \in B : Min(B) <= j
      BY <1>6, <2>1, <2>5
    <3>2. v = Min(B) /\ Reemplazo(p).apagadas = 1..(Min(B) - 1)
      BY <2>2, <2>5 DEF Hasta, v
    <3>3. Bien(Min(B))
      BY <1>2, <2>1, <2>3, <2>5, <3>1
    <3>. QED
      BY <1>8, <2>1, <2>5, <3>2, <3>3
  <2>6. CASE A = {} /\ B = {} /\ C # {}
    <3>1. Min(C) \in C /\ Min(C) \in 1..l /\ \A j \in C : Min(C) <= j
      BY <1>6, <2>1, <2>6
    <3>2. v = Min(C) /\ Reemplazo(p).apagadas = 1..l
      BY <2>2, <2>6 DEF v
    <3>3. Bien(Min(C))
      BY <1>2, <2>1, <2>3, <2>6, <3>1
    <3>. QED
      BY <3>2, <3>3
  <2>7. CASE A = {} /\ B = {} /\ C = {}
    <3>1. v = 1 /\ Reemplazo(p).apagadas = 1..l
      BY <2>2, <2>7 DEF v
    <3>2. Bien(1)
      BY <1>2, <1>7, <2>1, <2>3, <2>7
    <3>. QED
      BY <3>1, <3>2
  <2>. QED
    BY <2>4, <2>5, <2>6, <2>7
<1>11. Bien(v) /\ Reemplazo(p).apagadas \subseteq 1..l
  BY <1>9, <1>10
<1>. QED
  BY <1>1, <1>11 DEF v, l, clase

\* Taking out the k-th page and starting after it takes out that page only.
LEMMA GirarDe ==
  ASSUME NEW S, NEW s \in Seq(S), NEW k \in 1..Len(s), IsInjective(s)
  PROVE  /\ Girar(s, k) \in Seq(S) /\ Len(Girar(s, k)) = Len(s) - 1
         /\ \A x : Contains(Girar(s, k), x) <=> Contains(s, x) /\ x # s[k]
         /\ IsInjective(Girar(s, k))
<1>. DEFINE n == Len(s)
            a == SubSeq(s, k + 1, n)
            b == SubSeq(s, 1, k - 1)
            g == Girar(s, k)
            pos(i) == IF i <= n - k THEN i + k ELSE i - (n - k)
            inv(j) == IF j > k THEN j - k ELSE j + (n - k)
<1>0. n \in Nat /\ k \in 1..n /\ DOMAIN s = 1..n /\ g = a \o b
  BY LenProperties DEF Girar
<1>1. /\ a \in Seq(S) /\ Len(a) = n - k /\ \A i \in 1..(n - k) : a[i] = s[i + k]
      /\ b \in Seq(S) /\ Len(b) = k - 1 /\ \A i \in 1..(k - 1) : b[i] = s[i]
  <2>1. \A i \in 1..n : s[i] \in S
    BY ElementOfSeq
  <2>2. a \in Seq(S) /\ Len(a) = n - k /\ \A i \in 1..(n - k) : a[i] = s[(k + 1) + i - 1]
    <3>1. k + 1 \in Int /\ n \in Int /\ \A i \in (k + 1)..n : s[i] \in S
      BY <1>0, <2>1
    <3>2. /\ a \in Seq(S) /\ Len(a) = IF k + 1 <= n THEN n - (k + 1) + 1 ELSE 0
          /\ \A i \in 1..(n - (k + 1) + 1) : a[i] = s[(k + 1) + i - 1]
      BY <3>1, SubSeqProperties
    <3>3. n \in Int /\ k \in Int /\ k <= n
      BY <1>0
    <3>4. n - (k + 1) + 1 = n - k
      BY <3>3
    <3>5. ~(k + 1 <= n) => n - k = 0
      BY <3>3
    <3>. QED
      BY <3>2, <3>4, <3>5
  <2>3. b \in Seq(S) /\ Len(b) = k - 1 /\ \A i \in 1..(k - 1) : b[i] = s[1 + i - 1]
    BY <1>0, <2>1, SubSeqProperties
  <2>4. \A i \in 1..(n - k) : (k + 1) + i - 1 = i + k
    BY <1>0
  <2>5. \A i \in 1..(k - 1) : 1 + i - 1 = i
    BY <1>0
  <2>. QED
    BY <2>2, <2>3, <2>4, <2>5
<1>. HIDE DEF n, a, b, g
<1>2. /\ g \in Seq(S) /\ Len(g) = n - 1 /\ DOMAIN g = 1..(n - 1)
      /\ \A i \in 1..(n - 1) : g[i] = IF i <= n - k THEN a[i] ELSE b[i - (n - k)]
  <2>1. /\ a \o b \in Seq(S) /\ Len(a \o b) = Len(a) + Len(b)
        /\ \A i \in 1..(Len(a) + Len(b)) : (a \o b)[i] = IF i <= Len(a) THEN a[i] ELSE b[i - Len(a)]
    BY <1>1, ConcatProperties
  <2>2. Len(a) + Len(b) = n - 1
    BY <1>0, <1>1
  <2>3. g \in Seq(S) /\ Len(g) = n - 1
    BY <1>0, <2>1, <2>2
  <2>4. DOMAIN g = 1..(n - 1)
    BY <2>3, LenProperties
  <2>. QED
    BY <1>0, <1>1, <2>1, <2>2, <2>3, <2>4
<1>3. \A i \in 1..(n - 1) : pos(i) \in 1..n /\ pos(i) # k /\ g[i] = s[pos(i)]
  <2>1. ASSUME NEW i \in 1..(n - 1), i <= n - k
        PROVE  pos(i) \in 1..n /\ pos(i) # k /\ g[i] = s[pos(i)]
    <3>1. i \in 1..(n - k) /\ pos(i) = i + k
      BY <1>0, <2>1
    <3>2. g[i] = s[i + k]
      BY <1>1, <1>2, <2>1, <3>1
    <3>. QED
      BY <1>0, <3>1, <3>2
  <2>2. ASSUME NEW i \in 1..(n - 1), ~(i <= n - k)
        PROVE  pos(i) \in 1..n /\ pos(i) # k /\ g[i] = s[pos(i)]
    <3>1. i - (n - k) \in 1..(k - 1) /\ pos(i) = i - (n - k)
      BY <1>0, <2>2
    <3>2. g[i] = s[i - (n - k)]
      BY <1>1, <1>2, <2>2, <3>1
    <3>. QED
      BY <1>0, <3>1, <3>2
  <2>. QED
    BY <2>1, <2>2
<1>4. \A j \in 1..n : j # k => inv(j) \in 1..(n - 1) /\ pos(inv(j)) = j
  BY <1>0
<1>5. \A i, j \in 1..(n - 1) : pos(i) = pos(j) => i = j
  BY <1>0
<1>. HIDE DEF pos, inv
<1>6. ASSUME NEW x PROVE Contains(g, x) <=> Contains(s, x) /\ x # s[k]
  <2>1. Contains(g, x) <=> \E i \in 1..(n - 1) : g[i] = x
    BY <1>2 DEF Contains
  <2>2. Contains(s, x) <=> \E i \in 1..n : s[i] = x
    BY DEF Contains, n
  <2>3. ASSUME NEW i \in 1..(n - 1), g[i] = x PROVE Contains(s, x) /\ x # s[k]
    BY <1>0, <1>3, <2>2, <2>3 DEF IsInjective
  <2>4. ASSUME NEW j \in 1..n, s[j] = x, x # s[k] PROVE Contains(g, x)
    BY <1>3, <1>4, <2>1, <2>4
  <2>. QED
    BY <2>1, <2>2, <2>3, <2>4
<1>7. IsInjective(g)
  <2>1. ASSUME NEW i \in 1..(n - 1), NEW j \in 1..(n - 1), g[i] = g[j] PROVE i = j
    <3>1. pos(i) \in 1..n /\ pos(j) \in 1..n /\ s[pos(i)] = s[pos(j)]
      BY <1>3, <2>1
    <3>2. pos(i) = pos(j)
      BY <1>0, <3>1 DEF IsInjective
    <3>. QED
      BY <1>5, <3>2
  <2>. QED
    BY <1>2, <2>1 DEF IsInjective
<1>. QED
  BY <1>2, <1>6, <1>7 DEF g, n

\* The list of residents when a page takes the place of the k-th.
LEMMA RotarDe ==
  ASSUME NEW S, NEW s \in Seq(S), NEW k \in 1..Len(s), IsInjective(s), NEW e \in S,
         ~Contains(s, e)
  PROVE  LET t == Append(Girar(s, k), e)
         IN /\ t \in Seq(S) /\ Len(t) = Len(s) /\ IsInjective(t)
            /\ \A x : Contains(t, x) <=> (Contains(s, x) /\ x # s[k]) \/ x = e
<1>. DEFINE g == Girar(s, k)
            t == Append(g, e)
<1>1. /\ g \in Seq(S) /\ Len(g) = Len(s) - 1 /\ Len(s) \in Nat
      /\ \A x : Contains(g, x) <=> Contains(s, x) /\ x # s[k]
      /\ IsInjective(g)
  BY GirarDe, LenProperties
<1>. HIDE DEF g
<1>2. t \in Seq(S) /\ Len(t) = Len(g) + 1
  BY <1>1, AppendProperties
<1>3. /\ \A x : Contains(t, x) <=> Contains(g, x) \/ x = e
      /\ IsInjective(g) /\ ~Contains(g, e) => IsInjective(t)
  BY <1>1, AgregarDe
<1>4. Len(t) = Len(s)
  BY <1>1, <1>2
<1>. QED
  BY <1>1, <1>2, <1>3, <1>4 DEF g

-----------------------------------------------------------------------------
\* The pages, the lists of residents and the frames.

Reside(p, n) == Contains(residentes[p], n)
Puesta(p, n) == pagina[p][n].presencia
MarcoDe(p, n) == pagina[p][n].marco
Adentro == {"READY", "EXEC", "BLOCKED", "EXIT"}

Tipos ==
  /\ DOMAIN pagina = Procesos /\ DOMAIN swap = Procesos /\ DOMAIN residentes = Procesos
  /\ \A p \in Procesos : /\ pagina[p] \in [Numeros(p) -> TPagina]
                         /\ swap[p] \in [Numeros(p) -> Valores]
                         /\ residentes[p] \in Seq(Numeros(p))
  /\ libres \subseteq Marcos
  /\ principal \in [Marcos -> Valores]

\* A page is listed once, and exactly when its bit of presence is set; only
\* the processes in memory have pages there.
Listas ==
  \A p \in Procesos :
    /\ IsInjective(residentes[p]) /\ Len(residentes[p]) <= MARCOS_POR_PROCESO
    /\ \A n \in Numeros(p) : Reside(p, n) => Puesta(p, n)
    /\ estado[p] # "FIN" => \A n \in Numeros(p) : Puesta(p, n) => Reside(p, n)
    /\ estado[p] \notin Adentro => residentes[p] = <<>>

\* A frame is of one resident page or of none, and of none when its bit is
\* clear.
Repartidos ==
  /\ \A p, q \in Procesos : \A n \in Numeros(p), k \in Numeros(q) :
       Reside(p, n) /\ Reside(q, k) /\ MarcoDe(p, n) = MarcoDe(q, k) => p = q /\ n = k
  /\ \A m \in Marcos : m \in libres <=>
       \A p \in Procesos : \A n \in Numeros(p) : Reside(p, n) => MarcoDe(p, n) # m

Memoria == Tipos /\ Listas /\ Repartidos

\* The sizes of the processes come from their files.
LEMMA NumerosFijos ==
  ASSUME config' = config
  PROVE  MARCOS_POR_PROCESO' = MARCOS_POR_PROCESO /\ \A p : Numeros(p)' = Numeros(p)
BY DEF Numeros, PAGINAS, MARCOS_POR_PROCESO

\* Nothing is in an empty list.
LEMMA VacioDe == \A x : ~Contains(<<>>, x)
BY DEF Contains

\* What traer_a_memoria does to the process and to the frame m it uses: at
\* most one other page leaves, the one that was in m.
Trae(p, n, m) ==
  /\ Tipos'
  /\ m \in Marcos /\ libres' = libres \ {m}
  /\ \A q \in Procesos \ {p} : /\ pagina'[q] = pagina[q]
                               /\ residentes'[q] = residentes[q]
                               /\ swap'[q] = swap[q]
  /\ IsInjective(residentes'[p]) /\ Len(residentes'[p]) <= MARCOS_POR_PROCESO
  /\ \A k \in Numeros(p) : Reside(p, k)' <=> Puesta(p, k)'
  /\ Puesta(p, n)' /\ MarcoDe(p, n)' = m
  /\ \A k \in Numeros(p) \ {n} : Puesta(p, k)' =>
       /\ Puesta(p, k)
       /\ MarcoDe(p, k)' = MarcoDe(p, k)
       /\ pagina'[p][k].modificado = pagina[p][k].modificado
  /\ \A q \in Procesos : \A k \in Numeros(q) :
       Reside(q, k) /\ MarcoDe(q, k) = m => q = p /\ (k = n \/ ~Puesta(p, k)')
  /\ \A k \in Numeros(p) : Puesta(p, k) /\ ~Puesta(p, k)' => MarcoDe(p, k) = m
  /\ \A x \in Marcos \ {m} : principal'[x] = principal[x]
  /\ \A k \in Numeros(p) : swap'[p][k] =
       IF Puesta(p, k) /\ ~Puesta(p, k)' /\ pagina[p][k].modificado = 1
       THEN principal[m] ELSE swap[p][k]
  /\ IF Puesta(p, n)
     THEN MarcoDe(p, n) = m /\ principal'[m] = principal[m]
          /\ pagina'[p][n].modificado = pagina[p][n].modificado
     ELSE principal'[m] = swap[p][n]

\* A page that is there stays in its frame.
LEMMA YaPresenteDe ==
  ASSUME Dentro, Memoria, NEW p \in Procesos, estado[p] = "EXEC", NEW n \in Numeros(p),
         YaPresente(p, n), NEW m, m = MarcoDe(p, n)'
  PROVE  Trae(p, n, m)
<1>0. /\ Tipos /\ Listas /\ Repartidos /\ config' = config /\ Puesta(p, n)
      /\ pagina' = [pagina EXCEPT ![p][n].uso = 1]
      /\ residentes' = residentes /\ libres' = libres /\ principal' = principal /\ swap' = swap
  BY DEF Memoria, YaPresente, Puesta, tablasVars, marcosVars
<1>1. /\ MARCOS_POR_PROCESO' = MARCOS_POR_PROCESO /\ Marcos' = Marcos
      /\ \A q : Numeros(q)' = Numeros(q)
  BY <1>0, NumerosFijos DEF Marcos
<1>2. /\ DOMAIN pagina = Procesos
      /\ pagina[p] \in [Numeros(p) -> TPagina] /\ TPagina' = TPagina
  BY <1>0 DEF Tipos, TPagina, Marcos
<1>3. /\ DOMAIN pagina' = Procesos
      /\ \A q \in Procesos \ {p} : pagina'[q] = pagina[q]
      /\ pagina'[p] = [pagina[p] EXCEPT ![n].uso = 1]
  BY <1>0, <1>2
<1>4. /\ pagina'[p] \in [Numeros(p) -> TPagina]
      /\ \A k \in Numeros(p) : /\ pagina'[p][k].presencia = pagina[p][k].presencia
                               /\ pagina'[p][k].marco = pagina[p][k].marco
                               /\ pagina'[p][k].modificado = pagina[p][k].modificado
  BY <1>2, <1>3 DEF TPagina
<1>5. \A k \in Numeros(p) : /\ Puesta(p, k)' <=> Puesta(p, k)
                            /\ MarcoDe(p, k)' = MarcoDe(p, k)
                            /\ Reside(p, k)' <=> Reside(p, k)
  BY <1>0, <1>4 DEF Puesta, MarcoDe, Reside
<1>6. Tipos'
  BY <1>0, <1>1, <1>2, <1>3, <1>4 DEF Tipos
<1>7. \A k \in Numeros(p) : Reside(p, k) <=> Puesta(p, k)
  BY <1>0 DEF Listas
<1>8. m = MarcoDe(p, n) /\ m \in Marcos /\ m \notin libres
  <2>1. m = MarcoDe(p, n)
    BY <1>5
  <2>2. m \in Marcos
    BY <1>2, <2>1 DEF MarcoDe, TPagina
  <2>3. m \notin libres
    BY <1>0, <1>7, <2>1, <2>2 DEF Repartidos
  <2>. QED
    BY <2>1, <2>2, <2>3
<1>9. \A q \in Procesos : \A k \in Numeros(q) :
        Reside(q, k) /\ MarcoDe(q, k) = m => q = p /\ k = n
  BY <1>0, <1>7, <1>8 DEF Repartidos
<1>10. IsInjective(residentes'[p]) /\ Len(residentes'[p]) <= MARCOS_POR_PROCESO
  BY <1>0 DEF Listas
<1>. QED
  BY <1>0, <1>3, <1>4, <1>5, <1>6, <1>7, <1>8, <1>9, <1>10 DEF Trae

\* A free frame takes the page and its word from swap.
LEMMA EnMarcoLibreDe ==
  ASSUME Dentro, Memoria, NEW p \in Procesos, estado[p] = "EXEC", NEW n \in Numeros(p),
         EnMarcoLibre(p, n), NEW m, m = MarcoDe(p, n)'
  PROVE  Trae(p, n, m)
<1>. DEFINE f == Min(libres)
<1>0. /\ Tipos /\ Listas /\ Repartidos /\ config' = config
      /\ ~Puesta(p, n) /\ Len(residentes[p]) < MARCOS_POR_PROCESO /\ libres # {}
      /\ pagina' = [pagina EXCEPT ![p][n] = Presente(f)]
      /\ libres' = libres \ {f}
      /\ principal' = [principal EXCEPT ![f] = swap[p][n]]
      /\ residentes' = [residentes EXCEPT ![p] = Append(residentes[p], n)]
      /\ swap' = swap
  BY DEF Memoria, EnMarcoLibre, Puesta, tablasVars
<1>1. /\ MARCOS_POR_PROCESO' = MARCOS_POR_PROCESO /\ Marcos' = Marcos
      /\ \A q : Numeros(q)' = Numeros(q)
      /\ CANTIDAD_MARCOS \in Nat /\ MARCOS_POR_PROCESO \in Nat
  BY <1>0, NumerosFijos, PaginacionAssumption DEF Marcos, Dentro, MARCOS_POR_PROCESO
<1>2. f \in libres /\ f \in Marcos
  <2>1. libres \in SUBSET Nat /\ libres # {} /\ libres \subseteq Marcos
    BY <1>0 DEF Tipos, Marcos
  <2>. QED
    BY <2>1, MinimoDe
<1>. HIDE DEF f
<1>3. /\ DOMAIN pagina = Procesos /\ DOMAIN residentes = Procesos
      /\ pagina[p] \in [Numeros(p) -> TPagina] /\ TPagina' = TPagina
      /\ residentes[p] \in Seq(Numeros(p)) /\ principal \in [Marcos -> Valores]
      /\ swap[p] \in [Numeros(p) -> Valores]
  BY <1>0 DEF Tipos, TPagina, Marcos
<1>4. Presente(f) \in TPagina
  BY <1>2 DEF Presente, TPagina
<1>5. /\ DOMAIN pagina' = Procesos
      /\ \A q \in Procesos \ {p} : pagina'[q] = pagina[q]
      /\ pagina'[p] = [pagina[p] EXCEPT ![n] = Presente(f)]
  BY <1>0, <1>3
<1>6. /\ DOMAIN residentes' = Procesos
      /\ \A q \in Procesos \ {p} : residentes'[q] = residentes[q]
      /\ residentes'[p] = Append(residentes[p], n)
  BY <1>0, <1>3
<1>7. /\ pagina'[p] \in [Numeros(p) -> TPagina]
      /\ \A k \in Numeros(p) \ {n} : pagina'[p][k] = pagina[p][k]
      /\ pagina'[p][n] = Presente(f)
  BY <1>3, <1>4, <1>5
<1>8. m = f
  BY <1>7 DEF MarcoDe, Presente
<1>9. \A k \in Numeros(p) : Reside(p, k) <=> Puesta(p, k)
  BY <1>0 DEF Listas
<1>10. /\ residentes'[p] \in Seq(Numeros(p)) /\ Len(residentes'[p]) = Len(residentes[p]) + 1
       /\ Len(residentes[p]) \in Nat
  BY <1>3, <1>6, AppendProperties, LenProperties
<1>11. /\ \A x : Contains(residentes'[p], x) <=> Contains(residentes[p], x) \/ x = n
       /\ IsInjective(residentes'[p])
  <2>1. IsInjective(residentes[p]) /\ ~Contains(residentes[p], n)
    BY <1>0, <1>9 DEF Listas, Reside
  <2>. QED
    BY <1>3, <1>6, <2>1, AgregarDe
<1>12. \A k \in Numeros(p) : Reside(p, k)' <=> Reside(p, k) \/ k = n
  BY <1>11 DEF Reside
<1>13. /\ \A k \in Numeros(p) \ {n} : /\ Puesta(p, k)' <=> Puesta(p, k)
                                      /\ MarcoDe(p, k)' = MarcoDe(p, k)
       /\ Puesta(p, n)'
  BY <1>7 DEF Puesta, MarcoDe, Presente
<1>14. /\ principal' \in [Marcos -> Valores] /\ principal'[f] = swap[p][n]
       /\ \A x \in Marcos \ {f} : principal'[x] = principal[x]
  BY <1>0, <1>2, <1>3
<1>15. Tipos'
  BY <1>0, <1>1, <1>3, <1>5, <1>6, <1>7, <1>10, <1>14 DEF Tipos
<1>16. Len(residentes'[p]) <= MARCOS_POR_PROCESO
  BY <1>0, <1>1, <1>10
<1>17. \A q \in Procesos : \A k \in Numeros(q) : ~(Reside(q, k) /\ MarcoDe(q, k) = m)
  BY <1>0, <1>2, <1>8 DEF Repartidos
<1>. QED
  BY <1>0, <1>2, <1>5, <1>6, <1>7, <1>8, <1>9, <1>11, <1>12, <1>13, <1>14, <1>15, <1>16, <1>17
     DEF Trae

\* The victim leaves its frame to the page, and its word to swap if it is modified.
LEMMA EnLugarDeOtraDe ==
  ASSUME Dentro, Memoria, NEW p \in Procesos, estado[p] = "EXEC", NEW n \in Numeros(p),
         EnLugarDeOtra(p, n), NEW m, m = MarcoDe(p, n)'
  PROVE  Trae(p, n, m)
<1>. DEFINE r == Reemplazo(p)
            v == r.victima
            sale == residentes[p][v]
            f == pagina[p][sale].marco
            apagadas == {residentes[p][k] : k \in r.apagadas}
            girada(q) == IF q \in apagadas THEN [pagina[p][q] EXCEPT !.uso = 0] ELSE pagina[p][q]
            nueva(q) == CASE q = n -> Presente(f)
                          [] q = sale -> [girada(q) EXCEPT !.presencia = FALSE, !.modificado = 0]
                          [] OTHER -> girada(q)
<1>0. /\ Tipos /\ Listas /\ Repartidos /\ config' = config
      /\ ~Puesta(p, n) /\ Len(residentes[p]) >= MARCOS_POR_PROCESO
      /\ pagina' = [pagina EXCEPT ![p] = [q \in Numeros(p) |-> nueva(q)]]
      /\ swap' = IF pagina[p][sale].modificado = 1
                 THEN [swap EXCEPT ![p][sale] = principal[f]] ELSE swap
      /\ principal' = [principal EXCEPT ![f] = swap[p][n]]
      /\ residentes' = [residentes EXCEPT ![p] = Append(Girar(residentes[p], v), n)]
      /\ libres' = libres
  <2>1. pagina' = [pagina EXCEPT ![p] = [q \in Numeros(p) |-> nueva(q)]]
    BY DEF EnLugarDeOtra
  <2>. HIDE DEF nueva
  <2>. QED
    BY <2>1 DEF Memoria, EnLugarDeOtra, Puesta, tablasVars
<1>1. /\ MARCOS_POR_PROCESO' = MARCOS_POR_PROCESO /\ Marcos' = Marcos
      /\ \A q : Numeros(q)' = Numeros(q)
      /\ CANTIDAD_MARCOS \in Nat /\ MARCOS_POR_PROCESO \in Nat \ {0}
  BY <1>0, NumerosFijos, PaginacionAssumption DEF Marcos, Dentro, MARCOS_POR_PROCESO
<1>2. /\ DOMAIN pagina = Procesos /\ DOMAIN residentes = Procesos /\ DOMAIN swap = Procesos
      /\ pagina[p] \in [Numeros(p) -> TPagina] /\ TPagina' = TPagina
      /\ residentes[p] \in Seq(Numeros(p)) /\ principal \in [Marcos -> Valores]
      /\ swap[p] \in [Numeros(p) -> Valores]
  BY <1>0 DEF Tipos, TPagina, Marcos
<1>3. v \in 1..Len(residentes[p])
  <2>1. residentes[p] # <<>>
    <3>1. Len(residentes[p]) # 0
      <4>1. Len(residentes[p]) >= MARCOS_POR_PROCESO
        BY <1>0
      <4>2. Len(residentes[p]) \in Nat
        BY <1>2, LenProperties
      <4>. QED
        BY <1>1, <4>1, <4>2
    <3>. QED
      BY <1>2, <3>1, EmptySeq
  <2>. QED
    BY <1>2, <2>1, ReemplazoDe
<1>. HIDE DEF v
<1>4. PICK s \in Numeros(p) : s = sale /\ Reside(p, s)
  BY <1>2, <1>3, ElementOfSeq DEF Reside, Contains
<1>5. \A k \in Numeros(p) : Reside(p, k) <=> Puesta(p, k)
  BY <1>0 DEF Listas
<1>6. s # n /\ f \in Marcos /\ f = MarcoDe(p, s) /\ f \notin libres
  <2>1. f \in Marcos /\ f = MarcoDe(p, s)
    BY <1>2, <1>4 DEF TPagina, MarcoDe
  <2>2. f \notin libres
    BY <1>0, <1>4, <2>1 DEF Repartidos
  <2>3. s # n
    BY <1>0, <1>4, <1>5
  <2>. QED
    BY <2>1, <2>2, <2>3
<1>7. /\ DOMAIN residentes' = Procesos
      /\ \A q \in Procesos \ {p} : residentes'[q] = residentes[q]
      /\ residentes'[p] = Append(Girar(residentes[p], v), n)
  BY <1>0, <1>2
<1>8. /\ residentes'[p] \in Seq(Numeros(p)) /\ Len(residentes'[p]) = Len(residentes[p])
      /\ IsInjective(residentes'[p])
      /\ \A k \in Numeros(p) : Reside(p, k)' <=> (Reside(p, k) /\ k # s) \/ k = n
  <2>1. IsInjective(residentes[p]) /\ ~Contains(residentes[p], n)
    BY <1>0, <1>5 DEF Listas, Reside
  <2>2. LET t == Append(Girar(residentes[p], v), n)
        IN /\ t \in Seq(Numeros(p)) /\ Len(t) = Len(residentes[p]) /\ IsInjective(t)
           /\ \A x : Contains(t, x) <=> (Contains(residentes[p], x) /\ x # s) \/ x = n
    BY <1>2, <1>3, <1>4, <2>1, RotarDe
  <2>. QED
    BY <1>7, <2>2 DEF Reside
<1>. HIDE DEF sale, f, apagadas
<1>9. ASSUME NEW k \in Numeros(p)
      PROVE  /\ nueva(k) \in TPagina
             /\ k = n => nueva(k) = Presente(f)
             /\ k = s => ~nueva(k).presencia
             /\ k \notin {n, s} => /\ nueva(k).presencia = pagina[p][k].presencia
                                   /\ nueva(k).marco = pagina[p][k].marco
                                   /\ nueva(k).modificado = pagina[p][k].modificado
  <2>. DEFINE g == girada(k)
  <2>0. /\ g \in TPagina /\ g.presencia = pagina[p][k].presencia
        /\ g.marco = pagina[p][k].marco /\ g.modificado = pagina[p][k].modificado
    <3>1. pagina[p][k] \in TPagina
      BY <1>2
    <3>. QED
      BY <3>1 DEF TPagina
  <2>. HIDE DEF g
  <2>1. CASE k = n
    BY <1>4, <1>6, <2>1 DEF Presente, TPagina
  <2>2. CASE k = s
    <3>1. nueva(k) = [g EXCEPT !.presencia = FALSE, !.modificado = 0]
      BY <1>4, <1>6, <2>2 DEF g
    <3>. HIDE DEF nueva
    <3>2. nueva(k) \in TPagina /\ nueva(k).presencia = FALSE
      BY <2>0, <3>1 DEF TPagina
    <3>. QED
      BY <1>6, <2>2, <3>2
  <2>3. CASE k \notin {n, s}
    <3>1. nueva(k) = g
      BY <1>4, <2>3 DEF g
    <3>. QED
      BY <2>0, <2>3, <3>1
  <2>. QED
    BY <2>1, <2>2, <2>3
<1>. HIDE DEF nueva
<1>10. /\ DOMAIN pagina' = Procesos
       /\ \A q \in Procesos \ {p} : pagina'[q] = pagina[q]
       /\ pagina'[p] = [q \in Numeros(p) |-> nueva(q)]
  BY <1>0, <1>2
<1>11. /\ pagina'[p] \in [Numeros(p) -> TPagina]
       /\ \A k \in Numeros(p) : pagina'[p][k] = nueva(k)
  BY <1>9, <1>10
<1>12. /\ Puesta(p, n)' /\ MarcoDe(p, n)' = f /\ ~Puesta(p, s)'
       /\ \A k \in Numeros(p) \ {n, s} :
            /\ Puesta(p, k)' <=> Puesta(p, k)
            /\ MarcoDe(p, k)' = MarcoDe(p, k)
            /\ pagina'[p][k].modificado = pagina[p][k].modificado
  <2>1. /\ pagina'[p][n] = Presente(f) /\ ~pagina'[p][s].presencia
        /\ \A k \in Numeros(p) \ {n, s} :
             /\ pagina'[p][k].presencia = pagina[p][k].presencia
             /\ pagina'[p][k].marco = pagina[p][k].marco
             /\ pagina'[p][k].modificado = pagina[p][k].modificado
    BY <1>4, <1>9, <1>11
  <2>. QED
    BY <2>1 DEF Puesta, MarcoDe, Presente
<1>13. m = f
  BY <1>12
<1>14. /\ principal' \in [Marcos -> Valores] /\ principal'[f] = swap[p][n]
       /\ \A x \in Marcos \ {f} : principal'[x] = principal[x]
  BY <1>0, <1>2, <1>6
<1>15. /\ DOMAIN swap' = Procesos /\ swap'[p] \in [Numeros(p) -> Valores]
       /\ \A q \in Procesos \ {p} : swap'[q] = swap[q]
       /\ \A k \in Numeros(p) : swap'[p][k] =
            IF k = s /\ pagina[p][k].modificado = 1 THEN principal[f] ELSE swap[p][k]
  <2>1. CASE pagina[p][s].modificado = 1
    <3>1. swap' = [swap EXCEPT ![p] = [swap[p] EXCEPT ![s] = principal[f]]]
      BY <1>0, <1>4, <2>1
    <3>2. /\ DOMAIN swap' = Procesos /\ \A q \in Procesos \ {p} : swap'[q] = swap[q]
          /\ swap'[p] = [swap[p] EXCEPT ![s] = principal[f]]
      BY <1>2, <3>1
    <3>3. principal[f] \in Valores
      BY <1>2, <1>6
    <3>. QED
      BY <1>2, <1>4, <2>1, <3>2, <3>3
  <2>2. CASE pagina[p][s].modificado # 1
    <3>1. swap' = swap
      BY <1>0, <1>4, <2>2
    <3>. QED
      BY <1>2, <2>2, <3>1
  <2>. QED
    BY <2>1, <2>2
<1>16. Tipos'
  BY <1>0, <1>1, <1>2, <1>7, <1>8, <1>10, <1>11, <1>14, <1>15 DEF Tipos
<1>17. Len(residentes'[p]) <= MARCOS_POR_PROCESO
  BY <1>0, <1>8 DEF Listas
<1>18. \A q \in Procesos : \A k \in Numeros(q) :
         Reside(q, k) /\ MarcoDe(q, k) = m => q = p /\ k = s
  BY <1>0, <1>4, <1>6, <1>13 DEF Repartidos
<1>19. \A k \in Numeros(p) : Puesta(p, k) /\ ~Puesta(p, k)' => k = s
  BY <1>0, <1>12
<1>. QED
  BY <1>0, <1>4, <1>5, <1>6, <1>7, <1>8, <1>10, <1>12, <1>13, <1>14, <1>15, <1>16, <1>17, <1>18, <1>19
     DEF Trae

\* So do the three together.
LEMMA TraerDe ==
  ASSUME Dentro, Memoria, NEW p \in Procesos, estado[p] = "EXEC", NEW n \in Numeros(p),
         TraerAMemoria(p, n), NEW m, m = MarcoDe(p, n)'
  PROVE  Trae(p, n, m)
BY YaPresenteDe, EnMarcoLibreDe, EnLugarDeOtraDe DEF TraerAMemoria

-----------------------------------------------------------------------------
\* The instruction in course is of the process that runs, and of its pages.

EnCurso(p) ==
  /\ instruccion.op \in {"READ", "WRITE", "COPY"}
  /\ instruccion.pagina \in Numeros(p)
  /\ instruccion.op = "COPY" => instruccion.destino \in Numeros(p)
  /\ punto = "marcar" => instruccion.op = "WRITE"

Curso ==
  /\ punto \in {"fetch", "traducir", "acceder", "marcar"}
  /\ punto # "fetch" => \E p \in Procesos : estado[p] = "EXEC"
  /\ \A p \in Procesos : estado[p] = "EXEC" /\ punto # "fetch" => EnCurso(p)

\* The kernel does not touch the CPU, and the CPU gives a process back between
\* two instructions only.
LEMMA KernelNoTocaCPU ==
  ASSUME NEW p \in Procesos, Kernel(p)
  PROVE  UNCHANGED cpuVars
BY DEF Kernel, Llegar, IniciarTablas, IniciarSwap, Suspender, Finalizar, Volver, cpuVars

\* While an instruction is in course the process in the CPU stays there.
LEMMA QuienEjecuta ==
  ASSUME Dentro, [Next]_vars, punto # "fetch"
  PROVE  \A p \in Procesos : estado'[p] = "EXEC" <=> estado[p] = "EXEC" \/ EjecutarProceso(p)
<1>1. CASE UNCHANGED estado
  <2>1. ASSUME NEW p \in Procesos, EjecutarProceso(p) PROVE FALSE
    BY <1>1, <2>1 DEF EjecutarProceso, Ciclo!Despachar, Ciclo!Pasar, Dentro, Ciclo!TypeOK
  <2>. QED
    BY <1>1, <2>1
<1>2. ASSUME NEW q \in Procesos, Flechas(q)
      PROVE  \A p \in Procesos : estado'[p] = "EXEC" <=> estado[p] = "EXEC" \/ EjecutarProceso(p)
  <2>1. CASE EjecutarProceso(q) /\ Ciclo!Pasar(q, "READY", "EXEC")
    <3>1. /\ estado[q] = "READY" /\ estado'[q] = "EXEC"
          /\ \A r \in Procesos \ {q} : estado'[r] = estado[r]
      BY <2>1, Flecha DEF Dentro, Ciclo!EstadosDelCiclo
    <3>2. \A r \in Procesos : EjecutarProceso(r) => r = q
      BY <3>1, <2>1 DEF EjecutarProceso, Ciclo!Despachar, Ciclo!Pasar, Dentro, Ciclo!TypeOK
    <3>. QED
      BY <2>1, <3>1, <3>2
  <2>2. ASSUME NEW a \in Ciclo!EstadosDelCiclo \ {"EXEC"}, NEW b \in Ciclo!EstadosDelCiclo \ {"EXEC"},
               Ciclo!Pasar(q, a, b)
        PROVE  \A p \in Procesos : estado'[p] = "EXEC" <=> estado[p] = "EXEC" \/ EjecutarProceso(p)
    <3>1. /\ estado[q] = a /\ estado'[q] = b
          /\ \A r \in Procesos \ {q} : estado'[r] = estado[r]
      BY <2>2, Flecha DEF Dentro
    <3>2. \A r \in Procesos : ~EjecutarProceso(r)
      BY <2>2, <3>1 DEF EjecutarProceso, Ciclo!Despachar, Ciclo!Pasar, Dentro, Ciclo!TypeOK
    <3>. QED
      BY <2>2, <3>1, <3>2
  <2>3. ~DevolverProceso(q)
    BY DEF DevolverProceso
  <2>. QED
    BY <1>2, <2>1, <2>2, <2>3 DEF Flechas, Ciclo!EstadosDelCiclo
<1>. QED
  BY <1>1, <1>2, PasosYFlechas

\* An instruction goes on with the pages of the process it was fetched for.
LEMMA CursoPaso ==
  ASSUME Dentro, Curso, [Next]_vars
  PROVE  Curso'
<1>0. config' = config /\ \A p : Numeros(p)' = Numeros(p)
  BY ConfigFija, NumerosFijos
<1>1. ASSUME UNCHANGED <<punto, instruccion>>
      PROVE  Curso'
  <2>1. CASE punto = "fetch"
    BY <1>1, <2>1 DEF Curso
  <2>2. CASE punto # "fetch"
    <3>1. \A p \in Procesos : ~EjecutarProceso(p)
      BY <2>2 DEF Curso, EjecutarProceso, Ciclo!Despachar, Ciclo!Los
    <3>2. \A p \in Procesos : estado'[p] = "EXEC" <=> estado[p] = "EXEC"
      BY <2>2, <3>1, QuienEjecuta
    <3>3. \A p \in Procesos : EnCurso(p)' <=> EnCurso(p)
      BY <1>0, <1>1 DEF EnCurso
    <3>. QED
      BY <1>1, <2>2, <3>2, <3>3 DEF Curso
  <2>. QED
    BY <2>1, <2>2
<1>2. ASSUME NEW p \in Procesos, Kernel(p) \/ EjecutarProceso(p) \/ DevolverProceso(p)
      PROVE  Curso'
  BY <1>1, <1>2, KernelNoTocaCPU DEF cpuVars, EjecutarProceso, DevolverProceso
<1>3. ASSUME NEW p \in Procesos, Fetch(p)
      PROVE  Curso'
  <2>1. estado[p] = "EXEC" /\ estado' = estado /\ punto' = "traducir"
    BY <1>3 DEF Fetch, kernelVars
  <2>2. PICK i \in Instrucciones(p) : instruccion' = i
    BY <1>3 DEF Fetch
  <2>3. EnCurso(p)'
    BY <1>0, <2>1, <2>2 DEF EnCurso, Instrucciones
  <2>4. \A q \in Procesos : estado[q] = "EXEC" => q = p
    BY <2>1 DEF Dentro, Ciclo!UnoEnCpu, Ciclo!Los
  <2>. QED
    BY <2>1, <2>3, <2>4 DEF Curso
<1>4. ASSUME punto # "fetch", estado' = estado, punto' \in {"acceder", "marcar"},
             instruccion' = instruccion, punto' = "marcar" => instruccion.op = "WRITE"
      PROVE  Curso'
  <2>1. \A q \in Procesos : EnCurso(q) => EnCurso(q)'
    BY <1>0, <1>4 DEF EnCurso
  <2>. QED
    BY <1>4, <2>1 DEF Curso
<1>5. CASE AciertoTLB
  <2>1. /\ punto # "fetch" /\ estado' = estado /\ punto' \in {"acceder", "marcar"}
        /\ instruccion' = instruccion /\ (punto' = "marcar" => instruccion.op = "WRITE")
    BY <1>5 DEF AciertoTLB, kernelVars
  <2>. QED
    BY <1>4, <2>1
<1>6. ASSUME NEW p \in Procesos, FalloTLB(p)
      PROVE  Curso'
  <2>1. /\ punto # "fetch" /\ estado' = estado /\ punto' \in {"acceder", "marcar"}
        /\ instruccion' = instruccion /\ (punto' = "marcar" => instruccion.op = "WRITE")
    BY <1>6 DEF FalloTLB, kernelVars
  <2>. QED
    BY <1>4, <2>1
<1>7. CASE Escribir
  <2>1. /\ punto # "fetch" /\ estado' = estado /\ punto' \in {"acceder", "marcar"}
        /\ instruccion' = instruccion /\ (punto' = "marcar" => instruccion.op = "WRITE")
    BY <1>7 DEF Escribir, kernelVars
  <2>. QED
    BY <1>4, <2>1
<1>8. CASE Leer
  <2>1. punto = "acceder" /\ estado' = estado
    BY <1>8 DEF Leer, kernelVars
  <2>2. CASE instruccion.op = "COPY"
    <3>1. /\ instruccion' = [op |-> "WRITE", pagina |-> instruccion.destino, valor |-> leido']
          /\ punto' = "traducir"
      BY <1>8, <2>2 DEF Leer
    <3>2. /\ instruccion'.op = "WRITE" /\ instruccion'.pagina = instruccion.destino
      BY <3>1
    <3>3. \A q \in Procesos : EnCurso(q) => EnCurso(q)'
      BY <1>0, <2>2, <3>1, <3>2 DEF EnCurso
    <3>. QED
      BY <2>1, <3>1, <3>3 DEF Curso
  <2>3. CASE instruccion.op # "COPY"
    <3>1. punto' = "fetch"
      BY <1>8, <2>3 DEF Leer
    <3>. QED
      BY <3>1 DEF Curso
  <2>. QED
    BY <2>2, <2>3
<1>9. CASE Marcar
  BY <1>9 DEF Marcar, Curso
<1>10. CASE UNCHANGED vars
  BY <1>1, <1>10 DEF vars, cpuVars
<1>. QED
  BY <1>2, <1>3, <1>5, <1>6, <1>7, <1>8, <1>9, <1>10 DEF Next, CPU, MMU

\* While an instruction is in course its process is in the CPU, whatever the
\* kernel does on its connection.
THEOREM CursoSiempre == Spec => []Curso
<1>1. Init => Curso
  BY DEF Init, Ciclo!Init, Curso
<1>2. Dentro /\ Curso /\ [Next]_vars => Curso'
  BY CursoPaso
<1>. QED
  BY <1>1, <1>2, DentroSiempre, PTL DEF Spec

-----------------------------------------------------------------------------
\* What suspending and ending a process do: it gives back its frames.

\* The elements of a list are those it contains.
LEMMA ConjuntoDe ==
  ASSUME NEW S, NEW s \in Seq(S)
  PROVE  /\ \A x : x \in ToSet(s) <=> Contains(s, x)
         /\ \A x : Contains(s, x) => x \in S
<1>1. DOMAIN s = 1..Len(s) /\ \A i \in 1..Len(s) : s[i] \in S
  BY LenProperties, ElementOfSeq
<1>. QED
  BY <1>1 DEF ToSet, Contains

\* The frames of a process, by its pages.
LEMMA MarcosDeEs ==
  ASSUME Tipos, NEW p \in Procesos
  PROVE  \A x : x \in MarcosDe(p) <=> \E k \in Numeros(p) : Reside(p, k) /\ MarcoDe(p, k) = x
<1>1. residentes[p] \in Seq(Numeros(p))
  BY DEF Tipos
<1>2. /\ \A x : x \in ToSet(residentes[p]) <=> Contains(residentes[p], x)
      /\ \A x : Contains(residentes[p], x) => x \in Numeros(p)
  BY <1>1, ConjuntoDe
<1>. QED
  BY <1>2 DEF MarcosDe, Reside, MarcoDe

Suelta(p) ==
  /\ Tipos'
  /\ \A q \in Procesos \ {p} : /\ pagina'[q] = pagina[q]
                               /\ residentes'[q] = residentes[q]
                               /\ swap'[q] = swap[q]
  /\ residentes'[p] = <<>>
  /\ \A x \in Marcos : x \in libres' <=>
       x \in libres \/ \E k \in Numeros(p) : Reside(p, k) /\ MarcoDe(p, k) = x
  /\ principal' = principal

\* Suspending writes the modified pages to swap and frees the frames.
LEMMA SuspenderDe ==
  ASSUME Dentro, Memoria, NEW p \in Procesos, estado[p] = "BLOCKED", SuspenderProceso(p)
  PROVE  /\ Suelta(p)
         /\ \A k \in Numeros(p) : ~Puesta(p, k)'
         /\ \A k \in Numeros(p) : swap'[p][k] =
              IF Puesta(p, k) /\ pagina[p][k].modificado = 1
              THEN principal[MarcoDe(p, k)] ELSE swap[p][k]
<1>. DEFINE pags == [n \in Numeros(p) |-> IF Contains(residentes[p], n)
                        THEN [pagina[p][n] EXCEPT !.presencia = FALSE] ELSE pagina[p][n]]
            pals == [n \in Numeros(p) |->
                        IF Contains(residentes[p], n) /\ pagina[p][n].modificado = 1
                        THEN principal[pagina[p][n].marco] ELSE swap[p][n]]
<1>0. /\ Tipos /\ Listas /\ Repartidos /\ config' = config
      /\ swap' = [swap EXCEPT ![p] = pals]
      /\ pagina' = [pagina EXCEPT ![p] = pags]
      /\ libres' = libres \cup MarcosDe(p)
      /\ residentes' = [residentes EXCEPT ![p] = <<>>]
      /\ principal' = principal
  BY DEF Memoria, SuspenderProceso, tablasVars
<1>1. /\ Marcos' = Marcos /\ \A q : Numeros(q)' = Numeros(q)
      /\ TPagina' = TPagina
  BY <1>0, NumerosFijos DEF Marcos, TPagina
<1>2. /\ DOMAIN pagina = Procesos /\ DOMAIN swap = Procesos /\ DOMAIN residentes = Procesos
      /\ pagina[p] \in [Numeros(p) -> TPagina] /\ swap[p] \in [Numeros(p) -> Valores]
      /\ principal \in [Marcos -> Valores]
  BY <1>0 DEF Tipos
<1>3. \A k \in Numeros(p) : Reside(p, k) <=> Puesta(p, k)
  BY <1>0 DEF Listas
<1>4. ASSUME NEW k \in Numeros(p)
      PROVE  /\ pags[k] \in TPagina /\ pags[k].presencia = FALSE
             /\ pals[k] = IF Puesta(p, k) /\ pagina[p][k].modificado = 1
                          THEN principal[MarcoDe(p, k)] ELSE swap[p][k]
             /\ pals[k] \in Valores
  <2>. DEFINE g == pagina[p][k]
  <2>1. g \in TPagina
    BY <1>2
  <2>2. pags[k] = IF Reside(p, k) THEN [g EXCEPT !.presencia = FALSE] ELSE g
    BY DEF Reside
  <2>3. Reside(p, k) <=> g.presencia
    BY <1>3 DEF Puesta
  <2>4. pals[k] = IF Reside(p, k) /\ g.modificado = 1 THEN principal[g.marco] ELSE swap[p][k]
    BY DEF Reside
  <2>. HIDE DEF g, pags, pals
  <2>5. pags[k] \in TPagina /\ pags[k].presencia = FALSE /\ g.marco \in Marcos
    BY <2>1, <2>2, <2>3 DEF TPagina
  <2>6. pals[k] \in Valores
    BY <1>2, <2>4, <2>5
  <2>. QED
    BY <2>3, <2>4, <2>5, <2>6 DEF g, Puesta, MarcoDe
<1>5. pags \in [Numeros(p) -> TPagina] /\ pals \in [Numeros(p) -> Valores]
  BY <1>4
<1>. HIDE DEF pags, pals
<1>6. /\ DOMAIN pagina' = Procesos /\ DOMAIN swap' = Procesos /\ DOMAIN residentes' = Procesos
      /\ \A q \in Procesos \ {p} : /\ pagina'[q] = pagina[q]
                                   /\ residentes'[q] = residentes[q]
                                   /\ swap'[q] = swap[q]
      /\ pagina'[p] = pags /\ swap'[p] = pals /\ residentes'[p] = <<>>
  BY <1>0, <1>2
<1>7. /\ MarcosDe(p) \subseteq Marcos
      /\ \A x : x \in MarcosDe(p) <=> \E k \in Numeros(p) : Reside(p, k) /\ MarcoDe(p, k) = x
  <2>1. \A x : x \in MarcosDe(p) <=> \E k \in Numeros(p) : Reside(p, k) /\ MarcoDe(p, k) = x
    BY <1>0, MarcosDeEs
  <2>2. \A k \in Numeros(p) : MarcoDe(p, k) \in Marcos
    BY <1>2 DEF MarcoDe, TPagina
  <2>. QED
    BY <2>1, <2>2
<1>8. <<>> \in Seq(Numeros(p))
  BY EmptySeq
<1>9. Tipos'
  BY <1>0, <1>1, <1>5, <1>6, <1>7, <1>8 DEF Tipos
<1>10. \A k \in Numeros(p) : ~Puesta(p, k)'
  BY <1>4, <1>6 DEF Puesta
<1>. QED
  BY <1>0, <1>4, <1>6, <1>7, <1>9, <1>10 DEF Suelta

\* Ending frees the frames and leaves the pages as they are.
LEMMA FinalizarDe ==
  ASSUME Dentro, Memoria, NEW p \in Procesos, FinalizarProceso(p)
  PROVE  Suelta(p) /\ pagina' = pagina /\ swap' = swap
<1>0. /\ Tipos /\ config' = config /\ swap' = swap /\ pagina' = pagina /\ principal' = principal
      /\ libres' = libres \cup MarcosDe(p)
      /\ residentes' = [residentes EXCEPT ![p] = <<>>]
  BY DEF Memoria, FinalizarProceso, tablasVars
<1>1. /\ Marcos' = Marcos /\ \A q : Numeros(q)' = Numeros(q)
      /\ TPagina' = TPagina
  BY <1>0, NumerosFijos DEF Marcos, TPagina
<1>2. DOMAIN residentes = Procesos /\ pagina[p] \in [Numeros(p) -> TPagina]
  BY <1>0 DEF Tipos
<1>3. /\ DOMAIN residentes' = Procesos /\ residentes'[p] = <<>>
      /\ \A q \in Procesos \ {p} : residentes'[q] = residentes[q]
  BY <1>0, <1>2
<1>4. /\ MarcosDe(p) \subseteq Marcos
      /\ \A x : x \in MarcosDe(p) <=> \E k \in Numeros(p) : Reside(p, k) /\ MarcoDe(p, k) = x
  <2>1. \A x : x \in MarcosDe(p) <=> \E k \in Numeros(p) : Reside(p, k) /\ MarcoDe(p, k) = x
    BY <1>0, MarcosDeEs
  <2>2. \A k \in Numeros(p) : MarcoDe(p, k) \in Marcos
    BY <1>2 DEF MarcoDe, TPagina
  <2>. QED
    BY <2>1, <2>2
<1>5. <<>> \in Seq(Numeros(p))
  BY EmptySeq
<1>6. Tipos'
  BY <1>0, <1>1, <1>3, <1>4, <1>5 DEF Tipos
<1>. QED
  BY <1>0, <1>3, <1>4, <1>6 DEF Suelta

-----------------------------------------------------------------------------
\* The lists and the frames, step by step.

\* Only Suspender and Finalizar take a process out of memory.
LEMMA EstadoSuave ==
  ASSUME Dentro, [Next]_vars, NEW p \in Procesos, ~Suspender(p), ~Finalizar(p)
  PROVE  /\ estado'[p] \notin Adentro => estado[p] \notin Adentro
         /\ estado'[p] = "FIN" <=> estado[p] = "FIN"
<1>1. ASSUME NEW q \in Procesos, NEW a \in Ciclo!EstadosDelCiclo, NEW b \in Ciclo!EstadosDelCiclo,
             Ciclo!Pasar(q, a, b), a # "FIN", b # "FIN", b \notin Adentro => a \notin Adentro
      PROVE  /\ estado'[p] \notin Adentro => estado[p] \notin Adentro
             /\ estado'[p] = "FIN" <=> estado[p] = "FIN"
  <2>1. /\ estado[q] = a /\ estado'[q] = b
        /\ \A r \in Procesos \ {q} : estado'[r] = estado[r]
    BY <1>1, Flecha DEF Dentro
  <2>. QED
    BY <1>1, <2>1
<1>2. ASSUME NEW q \in Procesos, Flechas(q), q # p
      PROVE  estado'[p] = estado[p]
  <2>1. PICK a \in Ciclo!EstadosDelCiclo, b \in Ciclo!EstadosDelCiclo : Ciclo!Pasar(q, a, b)
    BY <1>2 DEF Flechas, Ciclo!EstadosDelCiclo
  <2>. QED
    BY <1>2, <2>1, Flecha DEF Dentro
<1>3. CASE Flechas(p)
  BY <1>1, <1>3 DEF Flechas, Ciclo!EstadosDelCiclo, Adentro
<1>4. CASE UNCHANGED estado
  BY <1>4
<1>. QED
  BY <1>2, <1>3, <1>4, PasosYFlechas

\* The steps that move no page.
Mismas ==
  /\ residentes' = residentes /\ libres' = libres
  /\ \A q \in Procesos : \A k \in Numeros(q) :
       (Puesta(q, k)' <=> Puesta(q, k)) /\ MarcoDe(q, k)' = MarcoDe(q, k)

\* The second half of memoria_escribir sets one bit, of a page in that frame.
LEMMA MarcarModificadaDe ==
  ASSUME Memoria, NEW m, MarcarModificada(m)
  PROVE  /\ Mismas /\ Tipos'
         /\ principal' = principal /\ swap' = swap
         /\ \E q \in Procesos : \E k \in Numeros(q) :
              /\ Reside(q, k) /\ Puesta(q, k) /\ MarcoDe(q, k) = m
              /\ pagina'[q][k].modificado = 1
              /\ \A r \in Procesos : \A j \in Numeros(r) :
                   ~(r = q /\ j = k) => pagina'[r][j].modificado = pagina[r][j].modificado
<1>0. /\ Tipos /\ config' = config /\ residentes' = residentes /\ libres' = libres
      /\ principal' = principal /\ swap' = swap
  BY DEF Memoria, MarcarModificada, tablasVars, marcosVars
<1>1. /\ Marcos' = Marcos /\ TPagina' = TPagina
      /\ \A q : Numeros(q)' = Numeros(q)
  BY <1>0, NumerosFijos DEF Marcos, TPagina
<1>. PICK pn \in BuscarPagina(m) : pagina' = [pagina EXCEPT ![pn[1]][pn[2]].modificado = 1]
  BY DEF MarcarModificada
<1>. PICK q \in Procesos : pn \in {q} \X ToSet(residentes[q])
  BY DEF BuscarPagina
<1>. PICK k \in ToSet(residentes[q]) : pn = <<q, k>>
  OBVIOUS
<1>2. /\ pagina[q][k].marco = m /\ pagina[q][k].presencia
      /\ pagina' = [pagina EXCEPT ![q][k].modificado = 1]
  BY DEF BuscarPagina
<1>3. k \in Numeros(q) /\ Reside(q, k)
  <2>1. residentes[q] \in Seq(Numeros(q))
    BY <1>0 DEF Tipos
  <2>. QED
    BY <2>1, ConjuntoDe DEF Reside
<1>4. DOMAIN pagina = Procesos /\ pagina[q] \in [Numeros(q) -> TPagina]
  BY <1>0 DEF Tipos
<1>5. /\ DOMAIN pagina' = Procesos
      /\ \A r \in Procesos \ {q} : pagina'[r] = pagina[r]
      /\ pagina'[q] = [pagina[q] EXCEPT ![k].modificado = 1]
  BY <1>2, <1>4
<1>6. /\ pagina'[q] \in [Numeros(q) -> TPagina]
      /\ \A j \in Numeros(q) \ {k} : pagina'[q][j] = pagina[q][j]
      /\ pagina'[q][k].marco = pagina[q][k].marco
      /\ pagina'[q][k].presencia = pagina[q][k].presencia
      /\ pagina'[q][k].modificado = 1
  BY <1>3, <1>4, <1>5 DEF TPagina
<1>7. Tipos'
  BY <1>0, <1>1, <1>5, <1>6 DEF Tipos
<1>8. Mismas
  <2>1. ASSUME NEW r \in Procesos, NEW j \in Numeros(r)
        PROVE  /\ pagina'[r][j].presencia = pagina[r][j].presencia
               /\ pagina'[r][j].marco = pagina[r][j].marco
    BY <1>5, <1>6
  <2>. QED
    BY <1>0, <2>1 DEF Mismas, Puesta, MarcoDe
<1>9. \A r \in Procesos : \A j \in Numeros(r) :
        ~(r = q /\ j = k) => pagina'[r][j].modificado = pagina[r][j].modificado
  BY <1>5, <1>6
<1>. QED
  BY <1>0, <1>2, <1>3, <1>6, <1>7, <1>8, <1>9 DEF Puesta, MarcoDe

\* The steps that touch pages, frames, words or swap files.
LEMMA EnMarcha ==
  ASSUME [Next]_vars
  PROVE  \/ UNCHANGED <<pagina, residentes, libres, principal, swap>>
         \/ \E p \in Procesos : IniciarSwap(p) \/ Suspender(p) \/ Finalizar(p) \/ FalloTLB(p)
         \/ Escribir \/ Marcar
<1>1. CASE UNCHANGED vars
  BY <1>1 DEF vars, paginacionVars, marcosVars
<1>2. ASSUME NEW p \in Procesos, Llegar(p) \/ IniciarTablas(p) \/ Volver(p) \/ EjecutarProceso(p)
                                 \/ DevolverProceso(p) \/ Fetch(p)
      PROVE  UNCHANGED <<pagina, residentes, libres, principal, swap>>
  BY <1>2 DEF Llegar, IniciarTablas, Volver, EjecutarProceso, DevolverProceso, Fetch, CrearTablas,
     paginacionVars, marcosVars
<1>3. CASE AciertoTLB \/ Leer
  BY <1>3 DEF AciertoTLB, Leer, paginacionVars, marcosVars
<1>. QED
  BY <1>1, <1>2, <1>3 DEF Next, Kernel, CPU, MMU

\* Lists and frames agree after the steps that move no page...
LEMMA MemoriaMismas ==
  ASSUME Dentro, Memoria, [Next]_vars, Mismas, Tipos',
         \A p \in Procesos : ~Suspender(p) /\ ~Finalizar(p)
  PROVE  Memoria'
<1>0. /\ Tipos /\ Listas /\ Repartidos /\ config' = config
      /\ residentes' = residentes /\ libres' = libres
  BY ConfigFija DEF Memoria, Mismas
<1>1. /\ MARCOS_POR_PROCESO' = MARCOS_POR_PROCESO /\ Marcos' = Marcos
      /\ \A q : Numeros(q)' = Numeros(q)
  BY <1>0, NumerosFijos DEF Marcos
<1>2. \A q, k : Reside(q, k)' <=> Reside(q, k)
  BY <1>0 DEF Reside
<1>3. Listas'
  <2>1. ASSUME NEW p \in Procesos
        PROVE  /\ estado'[p] \notin Adentro => estado[p] \notin Adentro
               /\ estado'[p] = "FIN" <=> estado[p] = "FIN"
    BY EstadoSuave
  <2>. QED
    BY <1>0, <1>1, <1>2, <2>1 DEF Mismas, Listas
<1>4. Repartidos'
  BY <1>0, <1>1, <1>2 DEF Mismas, Repartidos
<1>. QED
  BY <1>3, <1>4 DEF Memoria

\* ... after those that bring one...
LEMMA MemoriaTrae ==
  ASSUME Dentro, Memoria, NEW p \in Procesos, NEW n \in Numeros(p), NEW m, Trae(p, n, m),
         estado[p] = "EXEC", estado' = estado, config' = config
  PROVE  Memoria'
<1>0. Tipos /\ Listas /\ Repartidos /\ Tipos'
  BY DEF Memoria, Trae
<1>1. /\ MARCOS_POR_PROCESO' = MARCOS_POR_PROCESO /\ Marcos' = Marcos
      /\ \A q : Numeros(q)' = Numeros(q)
  BY NumerosFijos DEF Marcos
<1>2. \A q \in Procesos \ {p} : \A k :
        /\ Reside(q, k)' <=> Reside(q, k)
        /\ Puesta(q, k)' <=> Puesta(q, k)
        /\ MarcoDe(q, k)' = MarcoDe(q, k)
  BY DEF Trae, Reside, Puesta, MarcoDe
<1>3. /\ \A k \in Numeros(p) : Reside(p, k)' <=> Puesta(p, k)'
      /\ \A k \in Numeros(p) : Reside(p, k) <=> Puesta(p, k)
      /\ MarcoDe(p, n)' = m /\ Reside(p, n)'
      /\ \A k \in Numeros(p) \ {n} : Reside(p, k)' =>
           Reside(p, k) /\ MarcoDe(p, k)' = MarcoDe(p, k)
      /\ \A q \in Procesos : \A k \in Numeros(q) :
           Reside(q, k) /\ MarcoDe(q, k) = m => q = p /\ (k = n \/ ~Reside(p, k)')
      /\ \A k \in Numeros(p) : Reside(p, k) /\ ~Reside(p, k)' => MarcoDe(p, k) = m
      /\ Reside(p, n) => MarcoDe(p, n) = m
  BY <1>0 DEF Trae, Listas
<1>4. Listas'
  <2>1. ASSUME NEW q \in Procesos \ {p}
        PROVE  /\ IsInjective(residentes'[q]) /\ Len(residentes'[q]) <= MARCOS_POR_PROCESO
               /\ \A k \in Numeros(q) : Reside(q, k)' => Puesta(q, k)'
               /\ estado'[q] # "FIN" => \A k \in Numeros(q) : Puesta(q, k)' => Reside(q, k)'
               /\ estado'[q] \notin Adentro => residentes'[q] = <<>>
    <3>1. residentes'[q] = residentes[q]
      BY DEF Trae
    <3>. QED
      BY <1>0, <1>2, <3>1 DEF Listas
  <2>2. /\ IsInjective(residentes'[p]) /\ Len(residentes'[p]) <= MARCOS_POR_PROCESO
        /\ estado'[p] \in Adentro
    BY DEF Trae, Adentro
  <2>. QED
    BY <1>1, <1>3, <2>1, <2>2 DEF Listas
<1>5. ASSUME NEW q \in Procesos, NEW r \in Procesos, NEW k \in Numeros(q), NEW j \in Numeros(r),
             Reside(q, k)', Reside(r, j)', MarcoDe(q, k)' = MarcoDe(r, j)'
      PROVE  q = r /\ k = j
  <2>1. ASSUME ~(q = p /\ k = n), ~(r = p /\ j = n) PROVE q = r /\ k = j
    <3>1. Reside(q, k) /\ MarcoDe(q, k)' = MarcoDe(q, k)
      BY <1>2, <1>3, <1>5, <2>1
    <3>2. Reside(r, j) /\ MarcoDe(r, j)' = MarcoDe(r, j)
      BY <1>2, <1>3, <1>5, <2>1
    <3>. QED
      BY ZenonT(60), <1>0, <1>5, <3>1, <3>2 DEF Repartidos
  <2>2. CASE q = p /\ k = n
    BY <1>2, <1>3, <1>5, <2>2
  <2>3. CASE r = p /\ j = n
    BY <1>2, <1>3, <1>5, <2>3
  <2>. QED
    BY <2>1, <2>2, <2>3
<1>6. ASSUME NEW x \in Marcos
      PROVE  x \in libres' <=>
               \A q \in Procesos : \A k \in Numeros(q) : Reside(q, k)' => MarcoDe(q, k)' # x
  <2>0. x \in libres' <=> x \in libres /\ x # m
    BY DEF Trae
  <2>1. ASSUME x \in libres, x # m, NEW q \in Procesos, NEW k \in Numeros(q), Reside(q, k)'
        PROVE  MarcoDe(q, k)' # x
    BY <1>0, <1>2, <1>3, <2>1 DEF Repartidos
  <2>2. ASSUME \A q \in Procesos : \A k \in Numeros(q) : Reside(q, k)' => MarcoDe(q, k)' # x
        PROVE  x \in libres /\ x # m
    <3>1. x # m
      BY <1>3, <2>2
    <3>2. ASSUME NEW q \in Procesos, NEW k \in Numeros(q), Reside(q, k) PROVE MarcoDe(q, k) # x
      <4>1. CASE q = p /\ k = n
        BY <1>3, <3>1, <3>2, <4>1
      <4>2. CASE ~(q = p /\ k = n) /\ Reside(q, k)'
        BY <1>2, <1>3, <2>2, <4>2
      <4>3. CASE ~(q = p /\ k = n) /\ ~Reside(q, k)'
        BY <1>2, <1>3, <3>1, <3>2, <4>3
      <4>. QED
        BY <4>1, <4>2, <4>3
    <3>. QED
      BY <1>0, <3>1, <3>2 DEF Repartidos
  <2>. QED
    BY <2>0, <2>1, <2>2
<1>7. Repartidos'
  BY <1>1, <1>5, <1>6 DEF Repartidos
<1>. QED
  BY <1>0, <1>4, <1>7 DEF Memoria

\* ... and after those that give back all of a process.
LEMMA MemoriaSuelta ==
  ASSUME Dentro, Memoria, NEW p \in Procesos, Suelta(p), config' = config,
         \A q \in Procesos \ {p} : estado'[q] = estado[q],
         estado'[p] = "FIN" \/ \A k \in Numeros(p) : ~Puesta(p, k)'
  PROVE  Memoria'
<1>0. Tipos /\ Listas /\ Repartidos /\ Tipos'
  BY DEF Memoria, Suelta
<1>1. /\ MARCOS_POR_PROCESO' = MARCOS_POR_PROCESO /\ Marcos' = Marcos
      /\ \A q : Numeros(q)' = Numeros(q)
      /\ MARCOS_POR_PROCESO \in Nat
  BY NumerosFijos, PaginacionAssumption DEF Marcos, Dentro, MARCOS_POR_PROCESO
<1>2. \A q \in Procesos \ {p} : \A k :
        /\ Reside(q, k)' <=> Reside(q, k)
        /\ Puesta(q, k)' <=> Puesta(q, k)
        /\ MarcoDe(q, k)' = MarcoDe(q, k)
  BY DEF Suelta, Reside, Puesta, MarcoDe
<1>3. residentes'[p] = <<>> /\ \A k : ~Reside(p, k)'
  BY VacioDe DEF Suelta, Reside
<1>4. Listas'
  <2>1. ASSUME NEW q \in Procesos \ {p}
        PROVE  /\ IsInjective(residentes'[q]) /\ Len(residentes'[q]) <= MARCOS_POR_PROCESO
               /\ \A k \in Numeros(q) : Reside(q, k)' => Puesta(q, k)'
               /\ estado'[q] # "FIN" => \A k \in Numeros(q) : Puesta(q, k)' => Reside(q, k)'
               /\ estado'[q] \notin Adentro => residentes'[q] = <<>>
    <3>1. residentes'[q] = residentes[q]
      BY DEF Suelta
    <3>. QED
      BY <1>0, <1>2, <3>1 DEF Listas
  <2>2. IsInjective(<<>>) /\ Len(<<>>) = 0
    BY DEF IsInjective
  <2>3. /\ IsInjective(residentes'[p]) /\ Len(residentes'[p]) <= MARCOS_POR_PROCESO
        /\ estado'[p] # "FIN" => \A k \in Numeros(p) : ~Puesta(p, k)'
    BY <1>1, <1>3, <2>2
  <2>. QED
    BY <1>1, <1>3, <2>1, <2>3 DEF Listas
<1>5. \A q, r \in Procesos : \A k \in Numeros(q), j \in Numeros(r) :
        Reside(q, k)' /\ Reside(r, j)' /\ MarcoDe(q, k)' = MarcoDe(r, j)' => q = r /\ k = j
  BY <1>0, <1>2, <1>3 DEF Repartidos
<1>6. ASSUME NEW x \in Marcos
      PROVE  x \in libres' <=>
               \A q \in Procesos : \A k \in Numeros(q) : Reside(q, k)' => MarcoDe(q, k)' # x
  <2>0. x \in libres' <=>
          x \in libres \/ \E k \in Numeros(p) : Reside(p, k) /\ MarcoDe(p, k) = x
    BY DEF Suelta
  <2>1. ASSUME x \in libres', NEW q \in Procesos, NEW k \in Numeros(q), Reside(q, k)'
        PROVE  MarcoDe(q, k)' # x
    <3>1. q # p /\ Reside(q, k) /\ MarcoDe(q, k)' = MarcoDe(q, k)
      BY <1>2, <1>3, <2>1
    <3>. QED
      BY <1>0, <2>0, <2>1, <3>1 DEF Repartidos
  <2>2. ASSUME \A q \in Procesos : \A k \in Numeros(q) : Reside(q, k)' => MarcoDe(q, k)' # x,
               x \notin libres'
        PROVE  FALSE
    <3>1. PICK q \in Procesos : \E k \in Numeros(q) : Reside(q, k) /\ MarcoDe(q, k) = x
      BY <1>0, <2>0, <2>2 DEF Repartidos
    <3>. QED
      BY <1>2, <2>0, <2>2, <3>1
  <2>. QED
    BY <2>1, <2>2
<1>7. Repartidos'
  BY <1>1, <1>5, <1>6 DEF Repartidos
<1>. QED
  BY <1>0, <1>4, <1>7 DEF Memoria

-----------------------------------------------------------------------------
\* The CPU and the memory: what the words are, where the frame found by
\* traducir is, what the TLB says, and which pages swap has as they are.

Palabras ==
  /\ leido \in Valores
  /\ punto # "fetch" /\ instruccion.op = "WRITE" => instruccion.valor \in Valores

Acceso ==
  \A p \in Procesos : estado[p] = "EXEC" /\ punto \in {"acceder", "marcar"} =>
    Puesta(p, instruccion.pagina) /\ MarcoDe(p, instruccion.pagina) = marco

Entrada == Nat \X Marcos
Claves(t) == \A i, j \in 1..Len(t) : t[i][1] = t[j][1] => i = j
EntradaBuena(p, e) == e[1] \in Numeros(p) /\ Puesta(p, e[1]) /\ MarcoDe(p, e[1]) = e[2]

EnTLB ==
  /\ tlb \in Seq(Entrada)
  /\ \A p \in Procesos : estado[p] = "EXEC" =>
       /\ Len(tlb) <= config.entradas_tlb
       /\ Claves(tlb)
       /\ \A e : Contains(tlb, e) => EntradaBuena(p, e)

Limpia(p, n) ==
  \/ pagina[p][n].modificado = 1
  \/ punto = "marcar" /\ marco = MarcoDe(p, n)
  \/ principal[MarcoDe(p, n)] = swap[p][n]

Limpias == \A p \in Procesos : \A n \in Numeros(p) : Reside(p, n) => Limpia(p, n)

Marcha == Dentro /\ Tablas /\ Curso

\* The process in the CPU, while an instruction is in course.
LEMMA QuienEnCurso ==
  ASSUME Dentro, Curso, punto # "fetch"
  PROVE  \E p \in Procesos :
           /\ estado[p] = "EXEC" /\ EnCurso(p) /\ Ejecutando = p
           /\ \A q \in Procesos : estado[q] = "EXEC" => q = p
<1>. PICK p \in Procesos : estado[p] = "EXEC"
  BY DEF Curso
<1>1. Ejecutando = p
  BY EjecutandoEs
<1>2. \A q \in Procesos : estado[q] = "EXEC" => q = p
  BY DEF Dentro, Ciclo!UnoEnCpu, Ciclo!Los
<1>. QED
  BY <1>1, <1>2 DEF Curso

\* A miss brings the page of the instruction, of the process that runs.
LEMMA FalloDe ==
  ASSUME Marcha, Memoria, NEW q \in Procesos, FalloTLB(q)
  PROVE  /\ estado[q] = "EXEC" /\ EnCurso(q) /\ UNCHANGED <<kernelVars, instruccion, leido>>
         /\ punto = "traducir" /\ punto' = "acceder" /\ config' = config
         /\ Entradas(instruccion.pagina) = {}
         /\ \E m \in Marcos : /\ marco' = m /\ Trae(q, instruccion.pagina, m)
                              /\ AgregarATLB(instruccion.pagina, m)
<1>1. Dentro /\ Tablas /\ Curso /\ punto = "traducir"
  BY DEF Marcha, FalloTLB
<1>2. PICK p \in Procesos : /\ estado[p] = "EXEC" /\ EnCurso(p) /\ Ejecutando = p
  BY <1>1, QuienEnCurso
<1>3. instruccion.pagina \in Numeros(p)
  BY <1>2 DEF EnCurso
<1>4. p = q
  BY <1>1, <1>2 DEF FalloTLB, Tablas, ConTablas
<1>5. PaginaPedida = instruccion.pagina
  BY <1>1, <1>2, <1>3, PaginaPedidaEs
<1>. PICK n \in Numeros(p) : n = instruccion.pagina
  BY <1>3
<1>. PICK m : m = pagina'[p][n].marco
  OBVIOUS
<1>6. m = MarcoDe(p, n)' /\ TraerAMemoria(p, n) /\ marco' = m /\ AgregarATLB(n, m)
  <2>1. marco' = pagina'[p][n].marco /\ TraerAMemoria(p, n) /\ AgregarATLB(n, marco')
    BY <1>4, <1>5 DEF FalloTLB
  <2>2. AgregarATLB(n, m)
    BY <2>1 DEF AgregarATLB
  <2>. QED
    BY <2>1, <2>2 DEF MarcoDe
<1>7. Trae(p, n, m)
  BY <1>1, <1>2, <1>6, TraerDe
<1>8. m \in Marcos /\ config' = config
  BY <1>6, <1>7 DEF Trae, TraerAMemoria, YaPresente, EnMarcoLibre, EnLugarDeOtra, tablasVars
<1>. QED
  BY <1>1, <1>2, <1>4, <1>6, <1>7, <1>8 DEF FalloTLB

\* SWAP_INICIAR_PROCESO clears one swap file and moves no page.
LEMMA IniciarSwapDe ==
  ASSUME Dentro, Memoria, NEW p \in Procesos, IniciarSwap(p)
  PROVE  /\ Mismas /\ Tipos' /\ UNCHANGED <<pagina, principal, punto, marco, instruccion, leido, tlb>>
         /\ estado[p] = "NEW" /\ residentes[p] = <<>> /\ config' = config
         /\ \A q \in Procesos \ {p} : swap'[q] = swap[q]
         /\ \A k \in Numeros(p) : swap'[p][k] = 0
<1>0. /\ Tipos /\ Listas /\ config' = config /\ pagina' = pagina /\ residentes' = residentes
      /\ libres' = libres /\ principal' = principal
      /\ swap' = [swap EXCEPT ![p] = [n \in Numeros(p) |-> 0]]
      /\ UNCHANGED <<punto, marco, instruccion, leido, tlb>>
  BY DEF Memoria, IniciarSwap, SwapIniciarProceso, tablasVars, marcosVars, cpuVars
<1>1. /\ Marcos' = Marcos /\ TPagina' = TPagina
      /\ \A q : Numeros(q)' = Numeros(q)
  BY <1>0, NumerosFijos DEF Marcos, TPagina
<1>2. /\ DOMAIN swap' = Procesos
      /\ \A q \in Procesos \ {p} : swap'[q] = swap[q]
      /\ swap'[p] = [n \in Numeros(p) |-> 0]
  BY <1>0 DEF Tipos
<1>3. swap'[p] \in [Numeros(p) -> Valores] /\ \A k \in Numeros(p) : swap'[p][k] = 0
  BY <1>2, PaginacionAssumption
<1>4. Tipos'
  BY <1>0, <1>1, <1>2, <1>3 DEF Tipos
<1>5. Mismas
  BY <1>0 DEF Mismas, Puesta, MarcoDe
<1>6. estado[p] = "NEW"
  BY DEF IniciarSwap, Dentro
<1>7. residentes[p] = <<>>
  BY <1>0, <1>6 DEF Listas, Adentro
<1>. QED
  BY <1>0, <1>2, <1>3, <1>4, <1>5, <1>6, <1>7

\* The write copies one word, of the frame traducir has found.
LEMMA EscribirDe ==
  ASSUME Marcha, Memoria, Palabras, Acceso, Escribir
  PROVE  /\ Mismas /\ Tipos'
         /\ UNCHANGED <<pagina, swap, marco, instruccion, leido, tlb, estado, config>>
         /\ punto = "acceder" /\ punto' = "marcar"
         /\ marco \in Marcos /\ principal'[marco] = instruccion.valor
         /\ \A x \in Marcos \ {marco} : principal'[x] = principal[x]
         /\ \E p \in Procesos : /\ estado[p] = "EXEC" /\ EnCurso(p)
                                /\ Puesta(p, instruccion.pagina)
                                /\ MarcoDe(p, instruccion.pagina) = marco
<1>0. /\ Tipos /\ config' = config /\ pagina' = pagina /\ residentes' = residentes
      /\ libres' = libres /\ swap' = swap
      /\ principal' = [principal EXCEPT ![marco] = instruccion.valor]
      /\ UNCHANGED <<marco, instruccion, leido, tlb, estado>>
      /\ punto = "acceder" /\ punto' = "marcar" /\ instruccion.op = "WRITE"
  BY DEF Memoria, Escribir, MemoriaEscribir, tablasVars, marcosVars, kernelVars
<1>1. /\ Marcos' = Marcos /\ TPagina' = TPagina
      /\ \A q : Numeros(q)' = Numeros(q)
  BY <1>0, NumerosFijos DEF Marcos, TPagina
<1>2. instruccion.valor \in Valores
  BY <1>0 DEF Palabras
<1>3. PICK p \in Procesos : estado[p] = "EXEC" /\ EnCurso(p)
  BY <1>0, QuienEnCurso DEF Marcha
<1>4. Puesta(p, instruccion.pagina) /\ MarcoDe(p, instruccion.pagina) = marco
  BY <1>0, <1>3 DEF Acceso
<1>5. marco \in Marcos
  BY <1>0, <1>3, <1>4 DEF Tipos, MarcoDe, TPagina, EnCurso
<1>6. /\ principal' \in [Marcos -> Valores] /\ principal'[marco] = instruccion.valor
      /\ \A x \in Marcos \ {marco} : principal'[x] = principal[x]
  BY <1>0, <1>2, <1>5 DEF Tipos
<1>7. Tipos'
  BY <1>0, <1>1, <1>6 DEF Tipos
<1>8. Mismas
  BY <1>0 DEF Mismas, Puesta, MarcoDe
<1>. QED
  BY <1>0, <1>3, <1>4, <1>5, <1>6, <1>7, <1>8

\* What Suspender and Finalizar leave.
LEMMA SuspenderPaso ==
  ASSUME Dentro, Memoria, NEW p \in Procesos, Suspender(p)
  PROVE  /\ estado[p] = "BLOCKED" /\ estado'[p] = "SUSPENDED_BLOCKED"
         /\ \A q \in Procesos \ {p} : estado'[q] = estado[q]
         /\ config' = config /\ UNCHANGED cpuVars
         /\ Suelta(p)
         /\ \A k \in Numeros(p) : ~Puesta(p, k)'
         /\ \A k \in Numeros(p) : swap'[p][k] =
              IF Puesta(p, k) /\ pagina[p][k].modificado = 1
              THEN principal[MarcoDe(p, k)] ELSE swap[p][k]
<1>1. /\ estado[p] = "BLOCKED" /\ estado'[p] = "SUSPENDED_BLOCKED"
      /\ \A q \in Procesos \ {p} : estado'[q] = estado[q]
  BY Flecha DEF Suspender, Ciclo!Suspender, Dentro, Ciclo!EstadosDelCiclo
<1>2. SuspenderProceso(p) /\ config' = config /\ UNCHANGED cpuVars
  BY DEF Suspender, SuspenderProceso, tablasVars
<1>. QED
  BY <1>1, <1>2, SuspenderDe

\* FINALIZAR_PROCESO ends the process and gives back its frames.
LEMMA FinalizarPaso ==
  ASSUME Dentro, Memoria, NEW p \in Procesos, Finalizar(p)
  PROVE  /\ estado[p] = "EXIT" /\ estado'[p] = "FIN"
         /\ \A q \in Procesos \ {p} : estado'[q] = estado[q]
         /\ config' = config /\ UNCHANGED cpuVars
         /\ Suelta(p) /\ pagina' = pagina /\ swap' = swap
<1>1. Ciclo!Pasar(p, "EXIT", "FIN")
  BY DEF Finalizar, Ciclo!Terminar, Ciclo!Pasar
<1>2. /\ estado[p] = "EXIT" /\ estado'[p] = "FIN"
      /\ \A q \in Procesos \ {p} : estado'[q] = estado[q]
  BY <1>1, Flecha DEF Dentro, Ciclo!EstadosDelCiclo
<1>3. FinalizarProceso(p) /\ config' = config /\ UNCHANGED cpuVars
  BY DEF Finalizar, FinalizarProceso, tablasVars
<1>. QED
  BY <1>2, <1>3, FinalizarDe

\* What is not touched keeps its type.
LEMMA TiposQuietos ==
  ASSUME Tipos, config' = config, UNCHANGED <<pagina, residentes, libres, principal, swap>>
  PROVE  Tipos' /\ Mismas
<1>1. /\ Marcos' = Marcos /\ TPagina' = TPagina
      /\ \A q : Numeros(q)' = Numeros(q)
  BY NumerosFijos DEF Marcos, TPagina
<1>. QED
  BY <1>1 DEF Tipos, Mismas, Puesta, MarcoDe

\* No step breaks the agreement of lists, bits and frames.
LEMMA MemoriaPaso ==
  ASSUME Marcha, Memoria, Palabras, Acceso, [Next]_vars
  PROVE  Memoria'
<1>0. Dentro /\ config' = config
  BY ConfigFija DEF Marcha
<1>1. ASSUME NEW p \in Procesos, Suspender(p) PROVE Memoria'
  BY <1>0, <1>1, SuspenderPaso, MemoriaSuelta
<1>2. ASSUME NEW p \in Procesos, Finalizar(p) PROVE Memoria'
  BY <1>0, <1>2, FinalizarPaso, MemoriaSuelta
<1>3. ASSUME \A p \in Procesos : ~Suspender(p) /\ ~Finalizar(p), Mismas, Tipos' PROVE Memoria'
  BY <1>0, <1>3, MemoriaMismas
<1>4. ASSUME NEW p \in Procesos, IniciarSwap(p) PROVE Mismas /\ Tipos'
  BY <1>0, <1>4, IniciarSwapDe
<1>5. ASSUME NEW p \in Procesos, FalloTLB(p) PROVE Memoria'
  <2>1. /\ estado[p] = "EXEC" /\ estado' = estado /\ instruccion.pagina \in Numeros(p)
        /\ \E m \in Marcos : Trae(p, instruccion.pagina, m)
    BY <1>5, FalloDe DEF EnCurso, kernelVars
  <2>. QED
    BY <1>0, <2>1, MemoriaTrae
<1>6. ASSUME Escribir PROVE Mismas /\ Tipos'
  BY <1>6, EscribirDe
<1>7. ASSUME Marcar PROVE Mismas /\ Tipos'
  BY <1>7, MarcarModificadaDe DEF Marcar
<1>8. ASSUME UNCHANGED <<pagina, residentes, libres, principal, swap>> PROVE Mismas /\ Tipos'
  BY <1>0, <1>8, TiposQuietos DEF Memoria
<1>. QED
  BY <1>1, <1>2, <1>3, <1>4, <1>5, <1>6, <1>7, <1>8, EnMarcha

-----------------------------------------------------------------------------
\* The TLB: lists of entries with one entry for each page.

\* Without its k-th entry a list has the other pages, once each.
LEMMA QuitarClave ==
  ASSUME NEW S, NEW s \in Seq(S), Claves(s), NEW k \in 1..Len(s)
  PROVE  LET t == RemoveAt(s, k)
         IN /\ t \in Seq(S) /\ Len(t) = Len(s) - 1 /\ Claves(t)
            /\ \A x : Contains(t, x) => Contains(s, x) /\ x[1] # s[k][1]
<1>. DEFINE n == Len(s)
            t == RemoveAt(s, k)
            pos(i) == IF i < k THEN i ELSE i + 1
<1>0. n \in Nat /\ k \in 1..n /\ DOMAIN s = 1..n
  BY LenProperties
<1>1. /\ t \in Seq(S) /\ Len(t) = n - 1
      /\ \A i \in 1..(n - 1) : t[i] = IF i < k THEN s[i] ELSE s[i + 1]
  BY QuitarDe
<1>2. DOMAIN t = 1..(n - 1)
  BY <1>1, LenProperties
<1>. HIDE DEF n, t
<1>3. \A i \in 1..(n - 1) : pos(i) \in 1..n /\ pos(i) # k /\ t[i] = s[pos(i)]
  BY <1>0, <1>1
<1>4. \A i, j \in 1..(n - 1) : pos(i) = pos(j) => i = j
  BY <1>0
<1>. HIDE DEF pos
<1>5. \A i, j \in 1..n : s[i][1] = s[j][1] => i = j
  BY DEF Claves, n
<1>6. Claves(t)
  BY SMTT(40), <1>1, <1>3, <1>4, <1>5 DEF Claves
<1>7. ASSUME NEW x, Contains(t, x) PROVE Contains(s, x) /\ x[1] # s[k][1]
  <2>1. PICK i \in 1..(n - 1) : t[i] = x
    BY <1>1, <1>7 DEF Contains
  <2>2. pos(i) \in 1..n /\ pos(i) # k /\ s[pos(i)] = x
    BY <1>3, <2>1
  <2>3. Contains(s, x)
    BY <2>2 DEF Contains, n
  <2>4. x[1] # s[k][1]
    BY <1>0, <1>5, <2>2
  <2>. QED
    BY <2>3, <2>4
<1>. QED
  BY <1>1, <1>6, <1>7 DEF n, t

\* An entry of a new page may be added.
LEMMA AgregarClave ==
  ASSUME NEW S, NEW s \in Seq(S), Claves(s), NEW e \in S,
         \A x : Contains(s, x) => x[1] # e[1]
  PROVE  LET t == Append(s, e)
         IN /\ t \in Seq(S) /\ Len(t) = Len(s) + 1 /\ Claves(t)
            /\ \A x : Contains(t, x) <=> Contains(s, x) \/ x = e
<1>. DEFINE n == Len(s)
            t == Append(s, e)
<1>1. /\ n \in Nat /\ t \in Seq(S) /\ Len(t) = n + 1
      /\ \A i \in 1..n : t[i] = s[i]
      /\ t[n + 1] = e
  BY LenProperties, AppendProperties
<1>2. \A x : Contains(t, x) <=> Contains(s, x) \/ x = e
  BY AgregarDe
<1>. HIDE DEF t, n
<1>3. \A i \in 1..n : s[i][1] # e[1]
  BY DEF Contains, n
<1>4. \A i, j \in 1..n : s[i][1] = s[j][1] => i = j
  BY DEF Claves, n
<1>5. ASSUME NEW i \in 1..(n + 1), NEW j \in 1..(n + 1), t[i][1] = t[j][1] PROVE i = j
  <2>1. i \in 1..n \/ i = n + 1
    BY <1>1
  <2>2. j \in 1..n \/ j = n + 1
    BY <1>1
  <2>. QED
    BY <1>1, <1>3, <1>4, <1>5, <2>1, <2>2
<1>6. Claves(t)
  BY <1>1, <1>5 DEF Claves
<1>. QED
  BY <1>1, <1>2, <1>6 DEF t, n

\* The first entry may go.
LEMMA ColaClave ==
  ASSUME NEW S, NEW s \in Seq(S), Claves(s), s # <<>>
  PROVE  /\ Tail(s) \in Seq(S) /\ Len(Tail(s)) = Len(s) - 1 /\ Claves(Tail(s))
         /\ \A x : Contains(Tail(s), x) => Contains(s, x)
<1>1. /\ Tail(s) \in Seq(S) /\ Len(Tail(s)) = Len(s) - 1 /\ Len(s) \in Nat
      /\ \A x : Contains(Tail(s), x) => Contains(s, x)
  BY CabezaDe
<1>2. \A i \in 1..(Len(s) - 1) : Tail(s)[i] = s[i + 1]
  BY HeadTailProperties
<1>3. Claves(Tail(s))
  BY <1>1, <1>2 DEF Claves
<1>. QED
  BY <1>1, <1>3

\* The new entry goes in for the one that had its frame, and the TLB never
\* passes its size.
LEMMA AgregarATLBDe ==
  ASSUME NEW n \in Nat, NEW m \in Marcos, AgregarATLB(n, m),
         tlb \in Seq(Entrada), Claves(tlb), \A e : Contains(tlb, e) => e[1] # n,
         \A d, e : Contains(tlb, d) /\ Contains(tlb, e) /\ d[2] = e[2] => d[1] = e[1],
         config.entradas_tlb \in Nat \ {0}, Len(tlb) <= config.entradas_tlb
  PROVE  /\ tlb' \in Seq(Entrada) /\ Len(tlb') <= config.entradas_tlb /\ Claves(tlb')
         /\ \A e : Contains(tlb', e) => e = <<n, m>> \/ (Contains(tlb, e) /\ e[2] # m)
<1>. DEFINE ks == {k \in DOMAIN tlb : tlb[k][2] = m}
            queda == SacarPaginasConMarco(m)
            resto == IF Len(queda) = config.entradas_tlb THEN Tail(queda) ELSE queda
<1>0. /\ tlb' = Append(resto, <<n, m>>)
      /\ Len(tlb) \in Nat /\ DOMAIN tlb = 1..Len(tlb)
      /\ queda = IF ks = {} THEN tlb ELSE RemoveAt(tlb, Min(ks))
  BY LenProperties DEF AgregarATLB, SacarPaginasConMarco
<1>9. Len(tlb) \in Nat /\ DOMAIN tlb = 1..Len(tlb) /\ Len(tlb) <= Len(tlb)
  BY LenProperties
<1>. HIDE DEF queda
<1>1. /\ queda \in Seq(Entrada) /\ Len(queda) <= Len(tlb) /\ Claves(queda)
      /\ \A e : Contains(queda, e) => Contains(tlb, e) /\ e[2] # m
  <2>1. CASE ks = {}
    <3>1. queda = tlb
      BY <1>0, <2>1
    <3>2. ASSUME NEW e, Contains(tlb, e) PROVE e[2] # m
      <4>1. PICK k \in 1..Len(tlb) : tlb[k] = e
        BY <3>2 DEF Contains
      <4>. QED
        BY <1>0, <2>1, <4>1
    <3>3. Len(queda) <= Len(tlb)
      BY <1>9, <3>1
    <3>4. \A e : Contains(queda, e) => Contains(tlb, e) /\ e[2] # m
      BY <3>1, <3>2
    <3>. QED
      BY <3>1, <3>3, <3>4
  <2>2. CASE ks # {}
    <3>. DEFINE k == Min(ks)
    <3>1. k \in ks
      <4>1. ks \in SUBSET Nat
        BY <1>9
      <4>. QED
        BY <2>2, <4>1, MinimoDe
    <3>. HIDE DEF k
    <3>2. k \in 1..Len(tlb) /\ tlb[k][2] = m
      BY <1>0, <3>1
    <3>3. queda = RemoveAt(tlb, k)
      BY <1>0, <2>2 DEF k
    <3>4. /\ queda \in Seq(Entrada) /\ Len(queda) = Len(tlb) - 1 /\ Claves(queda)
          /\ \A e : Contains(queda, e) => Contains(tlb, e) /\ e[1] # tlb[k][1]
      BY <3>2, <3>3, QuitarClave
    <3>5. Contains(tlb, tlb[k])
      BY <3>2 DEF Contains
    <3>6. ASSUME NEW e, Contains(queda, e) PROVE e[2] # m
      BY <3>2, <3>4, <3>5, <3>6
    <3>7. Len(queda) <= Len(tlb)
      <4>1. Len(tlb) \in Nat
        BY <1>0
      <4>. QED
        BY <3>4, <4>1
    <3>. QED
      BY <3>4, <3>6, <3>7
  <2>. QED
    BY <2>1, <2>2
<1>2. /\ resto \in Seq(Entrada) /\ Len(resto) < config.entradas_tlb /\ Claves(resto)
      /\ \A e : Contains(resto, e) => Contains(tlb, e) /\ e[2] # m
      /\ Len(resto) \in Nat
  <2>1. Len(queda) \in Nat
    BY <1>1, LenProperties
  <2>2. CASE Len(queda) = config.entradas_tlb
    <3>1. queda # <<>>
      BY <2>2
    <3>2. /\ Tail(queda) \in Seq(Entrada) /\ Len(Tail(queda)) = Len(queda) - 1
          /\ Claves(Tail(queda))
          /\ \A x : Contains(Tail(queda), x) => Contains(queda, x)
      BY <1>1, <3>1, ColaClave
    <3>3. resto = Tail(queda)
      BY <2>2
    <3>. HIDE DEF resto
    <3>. QED
      BY <1>1, <2>1, <2>2, <3>2, <3>3
  <2>3. CASE Len(queda) # config.entradas_tlb
    <3>1. resto = queda
      BY <2>3
    <3>. HIDE DEF resto
    <3>2. Len(queda) < config.entradas_tlb
      BY <1>0, <1>1, <2>1, <2>3
    <3>. QED
      BY <1>1, <2>1, <3>1, <3>2
  <2>. QED
    BY <2>2, <2>3
<1>. HIDE DEF resto
<1>3. <<n, m>> \in Entrada
  BY DEF Entrada
<1>4. \A x : Contains(resto, x) => x[1] # <<n, m>>[1]
  BY <1>2
<1>5. ASSUME NEW e \in Entrada, \A x : Contains(resto, x) => x[1] # e[1]
      PROVE  LET t == Append(resto, e)
             IN /\ t \in Seq(Entrada) /\ Len(t) = Len(resto) + 1 /\ Claves(t)
                /\ \A x : Contains(t, x) <=> Contains(resto, x) \/ x = e
  <2>1. resto \in Seq(Entrada) /\ Claves(resto)
    BY <1>2
  <2>. QED
    BY <1>5, <2>1, AgregarClave
<1>6. /\ tlb' \in Seq(Entrada) /\ Len(tlb') = Len(resto) + 1 /\ Claves(tlb')
      /\ \A x : Contains(tlb', x) <=> Contains(resto, x) \/ x = <<n, m>>
  BY <1>0, <1>3, <1>4, <1>5
<1>. QED
  BY <1>2, <1>6

-----------------------------------------------------------------------------
\* Steps other than a miss leave the pages of the process that runs as they
\* are, and only EjecutarProceso puts a process in the CPU.

\* The pages of the process that runs move only in its own misses.
LEMMA PaginasQuietas ==
  ASSUME Marcha, Memoria, Palabras, Acceso, [Next]_vars, NEW p \in Procesos,
         estado[p] = "EXEC", ~FalloTLB(p)
  PROVE  \A k \in Numeros(p) : (Puesta(p, k)' <=> Puesta(p, k)) /\ MarcoDe(p, k)' = MarcoDe(p, k)
<1>0. Dentro
  BY DEF Marcha
<1>1. CASE Mismas
  BY <1>1 DEF Mismas
<1>2. CASE pagina'[p] = pagina[p]
  BY <1>2 DEF Puesta, MarcoDe
<1>3. ASSUME NEW q \in Procesos, Suspender(q) PROVE pagina'[p] = pagina[p]
  <2>1. estado[q] = "BLOCKED" /\ Suelta(q)
    BY <1>0, <1>3, SuspenderPaso
  <2>. QED
    BY <2>1 DEF Suelta
<1>4. ASSUME NEW q \in Procesos, Finalizar(q) PROVE pagina'[p] = pagina[p]
  BY <1>0, <1>4, FinalizarPaso
<1>5. ASSUME NEW q \in Procesos, IniciarSwap(q) PROVE Mismas
  BY <1>0, <1>5, IniciarSwapDe
<1>6. ASSUME NEW q \in Procesos, FalloTLB(q) PROVE FALSE
  <2>1. estado[q] = "EXEC"
    BY <1>6, FalloDe
  <2>. QED
    BY <1>0, <1>6, <2>1 DEF Dentro, Ciclo!UnoEnCpu, Ciclo!Los
<1>7. ASSUME Escribir PROVE Mismas
  BY <1>7, EscribirDe
<1>8. ASSUME Marcar PROVE Mismas
  BY <1>8, MarcarModificadaDe DEF Marcar
<1>. QED
  BY <1>1, <1>2, <1>3, <1>4, <1>5, <1>6, <1>7, <1>8, EnMarcha

\* A process in the CPU was there, or has just been dispatched.
LEMMA SigueEnExec ==
  ASSUME Dentro, [Next]_vars, NEW p \in Procesos, estado'[p] = "EXEC", ~EjecutarProceso(p)
  PROVE  estado[p] = "EXEC"
<1>1. CASE UNCHANGED estado
  BY <1>1
<1>2. ASSUME NEW q \in Procesos, Flechas(q) PROVE estado[p] = "EXEC"
  <2>1. CASE EjecutarProceso(q) /\ Ciclo!Pasar(q, "READY", "EXEC")
    BY <2>1, Flecha DEF Dentro, Ciclo!EstadosDelCiclo
  <2>2. ASSUME NEW a \in Ciclo!EstadosDelCiclo, NEW b \in Ciclo!EstadosDelCiclo \ {"EXEC"},
               Ciclo!Pasar(q, a, b)
        PROVE  estado[p] = "EXEC"
    BY <2>2, Flecha DEF Dentro
  <2>. QED
    BY <1>2, <2>1, <2>2 DEF Flechas, Ciclo!EstadosDelCiclo
<1>. QED
  BY <1>1, <1>2, PasosYFlechas

\* Dispatching is between two instructions.
LEMMA DespachoEntreInstrucciones ==
  ASSUME Curso, NEW p \in Procesos, EjecutarProceso(p)
  PROVE  punto = "fetch" /\ punto' = "fetch" /\ tlb' = <<>> /\ UNCHANGED <<pagina, instruccion>>
BY DEF Curso, EjecutarProceso, Ciclo!Despachar, Ciclo!Los, paginacionVars

\* What the other steps do to the CPU.
LEMMA PasosDeCPU ==
  ASSUME [Next]_vars
  PROVE  \/ UNCHANGED cpuVars
         \/ \E p \in Procesos : EjecutarProceso(p) \/ Fetch(p) \/ FalloTLB(p)
         \/ AciertoTLB \/ Leer \/ Escribir \/ Marcar
<1>1. CASE UNCHANGED vars
  BY <1>1 DEF vars
<1>2. ASSUME NEW p \in Procesos, Kernel(p) PROVE UNCHANGED cpuVars
  BY <1>2, KernelNoTocaCPU
<1>3. ASSUME NEW p \in Procesos, DevolverProceso(p) PROVE UNCHANGED cpuVars
  BY <1>3 DEF DevolverProceso
<1>. QED
  BY <1>1, <1>2, <1>3 DEF Next, CPU, MMU

\* A hit finds the frame of the page.
LEMMA AciertoDe ==
  ASSUME Marcha, EnTLB, AciertoTLB, NEW p \in Procesos, estado[p] = "EXEC"
  PROVE  /\ marco' = MarcoDe(p, instruccion.pagina) /\ Puesta(p, instruccion.pagina)
         /\ tlb' \in Seq(Entrada) /\ Len(tlb') = Len(tlb) /\ Claves(tlb')
         /\ \A e : Contains(tlb', e) => Contains(tlb, e)
         /\ punto = "traducir" /\ punto' = "acceder"
         /\ UNCHANGED <<paginacionVars, kernelVars, instruccion, leido>>
<1>. DEFINE ks == Entradas(instruccion.pagina)
            k == Min(ks)
<1>0. /\ ks # {} /\ marco' = tlb[k][2]
      /\ tlb' = IF config.reemplazo_tlb = "LRU" THEN Append(RemoveAt(tlb, k), tlb[k]) ELSE tlb
      /\ punto = "traducir" /\ punto' = "acceder"
      /\ UNCHANGED <<paginacionVars, kernelVars, instruccion, leido>>
  BY DEF AciertoTLB
<1>1. /\ tlb \in Seq(Entrada) /\ Claves(tlb)
      /\ \A e : Contains(tlb, e) => EntradaBuena(p, e)
  BY DEF EnTLB
<1>2. DOMAIN tlb = 1..Len(tlb) /\ Len(tlb) \in Nat
  BY <1>1, LenProperties
<1>3. k \in ks
  <2>1. ks \in SUBSET Nat
    BY <1>2 DEF Entradas
  <2>. QED
    BY <1>0, <2>1, MinimoDe
<1>. HIDE DEF k
<1>4. k \in 1..Len(tlb) /\ tlb[k][1] = instruccion.pagina
  BY <1>2, <1>3 DEF Entradas
<1>5. Contains(tlb, tlb[k]) /\ tlb[k] \in Entrada
  BY <1>1, <1>4, ElementOfSeq DEF Contains
<1>6. marco' = MarcoDe(p, instruccion.pagina) /\ Puesta(p, instruccion.pagina)
  BY <1>0, <1>1, <1>4, <1>5 DEF EntradaBuena
<1>7. /\ tlb' \in Seq(Entrada) /\ Len(tlb') = Len(tlb) /\ Claves(tlb')
      /\ \A e : Contains(tlb', e) => Contains(tlb, e)
  <2>1. CASE config.reemplazo_tlb # "LRU"
    BY <1>0, <1>1, <2>1
  <2>2. CASE config.reemplazo_tlb = "LRU"
    <3>. DEFINE r == RemoveAt(tlb, k)
                t == Append(r, tlb[k])
    <3>1. /\ r \in Seq(Entrada) /\ Len(r) = Len(tlb) - 1 /\ Claves(r)
          /\ \A x : Contains(r, x) => Contains(tlb, x) /\ x[1] # tlb[k][1]
      BY <1>1, <1>4, QuitarClave
    <3>. HIDE DEF r
    <3>2. /\ t \in Seq(Entrada) /\ Len(t) = Len(r) + 1 /\ Claves(t)
          /\ \A x : Contains(t, x) <=> Contains(r, x) \/ x = tlb[k]
      <4>1. r \in Seq(Entrada) /\ Claves(r) /\ \A x : Contains(r, x) => x[1] # tlb[k][1]
        BY <3>1
      <4>. QED
        BY <1>5, <4>1, AgregarClave
    <3>3. tlb' = t
      BY <1>0, <2>2 DEF r
    <3>. HIDE DEF t
    <3>4. Len(t) = Len(tlb)
      BY <1>2, <3>1, <3>2
    <3>. QED
      BY <1>5, <3>1, <3>2, <3>3, <3>4
  <2>. QED
    BY <2>1, <2>2
<1>. QED
  BY <1>0, <1>6, <1>7

\* From traducir to the end of the instruction its page stays in the frame found.
LEMMA AccesoPaso ==
  ASSUME Marcha, Memoria, Palabras, Acceso, EnTLB, [Next]_vars
  PROVE  Acceso'
<1>0. Dentro /\ Curso
  BY DEF Marcha
<1>1. SUFFICES ASSUME NEW p \in Procesos, estado'[p] = "EXEC", punto' \in {"acceder", "marcar"}
               PROVE  Puesta(p, instruccion.pagina)' /\ MarcoDe(p, instruccion.pagina)' = marco'
  BY DEF Acceso
<1>2. estado[p] = "EXEC"
  <2>1. ~EjecutarProceso(p)
    BY <1>0, <1>1, DespachoEntreInstrucciones
  <2>. QED
    BY <1>0, <1>1, <2>1, SigueEnExec
<1>3. ASSUME NEW q \in Procesos, FalloTLB(q)
      PROVE  Puesta(p, instruccion.pagina)' /\ MarcoDe(p, instruccion.pagina)' = marco'
  <2>1. /\ estado[q] = "EXEC" /\ instruccion' = instruccion
        /\ \E m \in Marcos : marco' = m /\ Trae(q, instruccion.pagina, m)
    BY <1>3, FalloDe
  <2>2. q = p
    BY <1>0, <1>2, <2>1 DEF Dentro, Ciclo!UnoEnCpu, Ciclo!Los
  <2>. QED
    BY <2>1, <2>2 DEF Trae, Puesta, MarcoDe
<1>4. CASE AciertoTLB
  <2>1. /\ marco' = MarcoDe(p, instruccion.pagina) /\ Puesta(p, instruccion.pagina)
        /\ pagina' = pagina /\ instruccion' = instruccion
    BY <1>2, <1>4, AciertoDe DEF paginacionVars
  <2>. QED
    BY <2>1 DEF Puesta, MarcoDe
<1>5. ASSUME UNCHANGED <<instruccion, marco>>, punto \in {"acceder", "marcar"},
             \A q \in Procesos : ~FalloTLB(q)
      PROVE  Puesta(p, instruccion.pagina)' /\ MarcoDe(p, instruccion.pagina)' = marco'
  <2>1. /\ Puesta(p, instruccion.pagina) /\ MarcoDe(p, instruccion.pagina) = marco
        /\ instruccion.pagina \in Numeros(p)
    BY <1>0, <1>2, <1>5 DEF Acceso, Curso, EnCurso
  <2>. PICK n \in Numeros(p) : n = instruccion.pagina
    BY <2>1
  <2>2. (Puesta(p, n)' <=> Puesta(p, n)) /\ MarcoDe(p, n)' = MarcoDe(p, n)
    BY <1>2, <1>5, PaginasQuietas
  <2>3. n = instruccion'.pagina
    BY <1>5
  <2>. QED
    BY <1>5, <2>1, <2>2, <2>3 DEF Puesta, MarcoDe
<1>6. CASE Escribir
  <2>1. UNCHANGED <<instruccion, marco>> /\ punto \in {"acceder", "marcar"}
    BY <1>6 DEF Escribir
  <2>. QED
    BY <1>3, <1>5, <2>1
<1>7. CASE UNCHANGED cpuVars
  BY <1>1, <1>3, <1>5, <1>7 DEF cpuVars
<1>8. ASSUME NEW q \in Procesos, EjecutarProceso(q) \/ Fetch(q) PROVE FALSE
  BY <1>0, <1>1, <1>8, DespachoEntreInstrucciones DEF Fetch
<1>9. ASSUME Leer \/ Marcar PROVE FALSE
  BY <1>1, <1>9 DEF Leer, Marcar
<1>. QED
  BY <1>3, <1>4, <1>6, <1>7, <1>8, <1>9, PasosDeCPU

\* Each entry of the TLB stays true: when a page leaves a frame its entry goes.
LEMMA EnTLBPaso ==
  ASSUME Marcha, Memoria, Palabras, Acceso, EnTLB, [Next]_vars
  PROVE  EnTLB'
<1>0. /\ Dentro /\ Curso /\ config' = config /\ Entrada' = Entrada
      /\ \A q : Numeros(q)' = Numeros(q)
  BY ConfigFija, NumerosFijos DEF Marcha, Entrada, Marcos
<1>1. tlb \in Seq(Entrada)
  BY DEF EnTLB
<1>2. ASSUME NEW p \in Procesos, estado[p] = "EXEC", NEW e, EntradaBuena(p, e), ~FalloTLB(p)
      PROVE  EntradaBuena(p, e)'
  <2>1. e[1] \in Numeros(p)
    BY <1>2 DEF EntradaBuena
  <2>2. (Puesta(p, e[1])' <=> Puesta(p, e[1])) /\ MarcoDe(p, e[1])' = MarcoDe(p, e[1])
    BY <1>2, <2>1, PaginasQuietas
  <2>. QED
    BY <1>0, <1>2, <2>2 DEF EntradaBuena
<1>3. ASSUME NEW q \in Procesos, EjecutarProceso(q) PROVE EnTLB'
  <2>1. tlb' = <<>>
    BY <1>0, <1>3, DespachoEntreInstrucciones
  <2>2. config.entradas_tlb \in Nat /\ <<>> \in Seq(Entrada) /\ Len(<<>>) = 0
    BY <1>0, MemoriaVirtualAssumption, EmptySeq DEF Dentro
  <2>3. Claves(<<>>) /\ Len(<<>>) <= config.entradas_tlb
    BY <2>2 DEF Claves
  <2>. QED
    BY <1>0, <2>1, <2>2, <2>3, VacioDe DEF EnTLB
<1>4. ASSUME \A q \in Procesos : ~EjecutarProceso(q) /\ ~FalloTLB(q), tlb' = tlb PROVE EnTLB'
  <2>1. ASSUME NEW p \in Procesos, estado'[p] = "EXEC"
        PROVE  /\ Len(tlb') <= config'.entradas_tlb
               /\ Claves(tlb')
               /\ \A e : Contains(tlb', e) => EntradaBuena(p, e)'
    <3>1. estado[p] = "EXEC"
      BY <1>0, <1>4, <2>1, SigueEnExec
    <3>2. /\ Len(tlb) <= config.entradas_tlb /\ Claves(tlb)
          /\ \A e : Contains(tlb, e) => EntradaBuena(p, e)
      BY <3>1 DEF EnTLB
    <3>3. \A e : EntradaBuena(p, e) => EntradaBuena(p, e)'
      BY <1>2, <1>4, <3>1
    <3>. QED
      BY <1>0, <1>4, <3>2, <3>3
  <2>2. Claves(tlb') <=> Claves(tlb)'
    BY DEF Claves
  <2>3. tlb' \in Seq(Entrada)'
    BY <1>0, <1>1, <1>4
  <2>. QED
    BY <2>1, <2>2, <2>3 DEF EnTLB
<1>5. ASSUME AciertoTLB PROVE EnTLB'
  <2>1. /\ estado' = estado
        /\ \A q \in Procesos : ~FalloTLB(q)
    BY <1>5 DEF AciertoTLB, FalloTLB, kernelVars
  <2>2. ASSUME NEW p \in Procesos, estado[p] = "EXEC"
        PROVE  /\ tlb' \in Seq(Entrada)
               /\ Len(tlb') <= config.entradas_tlb
               /\ Claves(tlb')
               /\ \A e : Contains(tlb', e) => EntradaBuena(p, e)'
    <3>1. /\ Len(tlb) <= config.entradas_tlb
          /\ \A e : Contains(tlb, e) => EntradaBuena(p, e)
      BY <2>2 DEF EnTLB
    <3>2. \A e : EntradaBuena(p, e) => EntradaBuena(p, e)'
      BY <1>2, <2>1, <2>2
    <3>3. /\ tlb' \in Seq(Entrada) /\ Len(tlb') = Len(tlb) /\ Claves(tlb')
          /\ \A e : Contains(tlb', e) => Contains(tlb, e)
      BY <1>5, <2>2, AciertoDe
    <3>. QED
      BY <3>1, <3>2, <3>3
  <2>3. \E p \in Procesos : estado[p] = "EXEC"
    BY <1>0, <1>5 DEF Curso, AciertoTLB
  <2>4. Claves(tlb') <=> Claves(tlb)'
    BY DEF Claves
  <2>. QED
    BY <1>0, <2>1, <2>2, <2>3, <2>4 DEF EnTLB
<1>6. ASSUME NEW q \in Procesos, FalloTLB(q) PROVE EnTLB'
  <2>1. /\ estado[q] = "EXEC" /\ estado' = estado /\ EnCurso(q)
        /\ Entradas(instruccion.pagina) = {}
    BY <1>6, FalloDe DEF kernelVars
  <2>. PICK m \in Marcos : Trae(q, instruccion.pagina, m) /\ AgregarATLB(instruccion.pagina, m)
    BY <1>6, FalloDe
  <2>. PICK n \in Numeros(q) : n = instruccion.pagina
    BY <2>1 DEF EnCurso
  <2>2. Trae(q, n, m) /\ AgregarATLB(n, m)
    OBVIOUS
  <2>3. n \in Nat
    BY TamaniosDe, <1>0 DEF Numeros
  <2>4. /\ Len(tlb) <= config.entradas_tlb /\ Claves(tlb)
        /\ \A e : Contains(tlb, e) => EntradaBuena(q, e)
    BY <2>1 DEF EnTLB
  <2>5. \A e : Contains(tlb, e) => e[1] # n
    BY <1>1, <2>1, LenProperties DEF Entradas, Contains
  <2>6. \A k \in Numeros(q) : Reside(q, k) <=> Puesta(q, k)
    BY <2>1 DEF Memoria, Listas
  <2>7. \A d, e : Contains(tlb, d) /\ Contains(tlb, e) /\ d[2] = e[2] => d[1] = e[1]
    BY <2>4, <2>6 DEF EntradaBuena, Memoria, Repartidos
  <2>8. config.entradas_tlb \in Nat \ {0}
    BY <1>0, MemoriaVirtualAssumption DEF Dentro
  <2>9. /\ tlb' \in Seq(Entrada) /\ Len(tlb') <= config.entradas_tlb /\ Claves(tlb')
        /\ \A e : Contains(tlb', e) => e = <<n, m>> \/ (Contains(tlb, e) /\ e[2] # m)
    BY <1>1, <2>2, <2>3, <2>4, <2>5, <2>7, <2>8, AgregarATLBDe
  <2>10. ASSUME NEW e, Contains(tlb', e) PROVE EntradaBuena(q, e)'
    <3>1. CASE e = <<n, m>>
      <4>1. Puesta(q, n)' /\ MarcoDe(q, n)' = m
        BY <2>2 DEF Trae
      <4>. QED
        BY <1>0, <3>1, <4>1 DEF EntradaBuena
    <3>2. CASE Contains(tlb, e) /\ e[2] # m
      <4>1. e[1] \in Numeros(q) \ {n} /\ Puesta(q, e[1]) /\ MarcoDe(q, e[1]) = e[2]
        BY <2>4, <2>5, <3>2 DEF EntradaBuena
      <4>. PICK k \in Numeros(q) \ {n} : k = e[1]
        BY <4>1
      <4>2. Puesta(q, k)'
        BY <2>2, <3>2, <4>1 DEF Trae
      <4>3. MarcoDe(q, k)' = MarcoDe(q, k)
        BY <2>2, <4>2 DEF Trae
      <4>4. Puesta(q, e[1])' /\ MarcoDe(q, e[1])' = e[2]
        BY <4>1, <4>2, <4>3
      <4>. QED
        BY <1>0, <4>1, <4>4 DEF EntradaBuena
    <3>. QED
      BY <2>9, <2>10, <3>1, <3>2
  <2>11. \A p \in Procesos : estado'[p] = "EXEC" => p = q
    BY <1>0, <2>1 DEF Dentro, Ciclo!UnoEnCpu, Ciclo!Los
  <2>12. Claves(tlb') <=> Claves(tlb)'
    BY DEF Claves
  <2>. QED
    BY <1>0, <2>9, <2>10, <2>11, <2>12 DEF EnTLB
<1>7. ASSUME NEW q \in Procesos, Fetch(q) PROVE tlb' = tlb
  BY <1>7 DEF Fetch
<1>8. ASSUME Leer \/ Escribir \/ Marcar \/ UNCHANGED cpuVars PROVE tlb' = tlb
  BY <1>8 DEF Leer, Escribir, Marcar, cpuVars
<1>. QED
  BY <1>3, <1>4, <1>5, <1>6, <1>7, <1>8, PasosDeCPU

\* The words read and written are words of the memory.
LEMMA PalabrasPaso ==
  ASSUME Marcha, Memoria, Palabras, Acceso, [Next]_vars
  PROVE  Palabras'
<1>1. CASE UNCHANGED cpuVars
  BY <1>1 DEF cpuVars, Palabras
<1>2. ASSUME NEW p \in Procesos, EjecutarProceso(p) PROVE Palabras'
  BY <1>2 DEF EjecutarProceso, Palabras
<1>3. ASSUME NEW p \in Procesos, Fetch(p) PROVE Palabras'
  <2>1. leido' = leido /\ instruccion' \in Instrucciones(p)
    BY <1>3 DEF Fetch
  <2>2. instruccion'.op = "WRITE" => instruccion'.valor \in Valores
    BY <2>1, MemoriaVirtualAssumption DEF Instrucciones
  <2>. QED
    BY <2>1, <2>2 DEF Palabras
<1>4. ASSUME NEW p \in Procesos, FalloTLB(p) PROVE Palabras'
  BY <1>4, FalloDe DEF Palabras
<1>5. CASE AciertoTLB
  BY <1>5 DEF AciertoTLB, Palabras
<1>6. CASE Leer
  <2>1. PICK p \in Procesos : estado[p] = "EXEC" /\ EnCurso(p)
    BY <1>6, QuienEnCurso DEF Marcha, Leer
  <2>2. MarcoDe(p, instruccion.pagina) = marco
    BY <1>6, <2>1 DEF Acceso, Leer
  <2>3. principal[marco] \in Valores
    BY <2>1, <2>2 DEF Memoria, Tipos, MarcoDe, TPagina, EnCurso
  <2>4. leido' \in Valores
    BY <1>6, <2>3 DEF Leer, MemoriaLeer
  <2>5. CASE instruccion.op = "COPY"
    <3>1. instruccion' = [op |-> "WRITE", pagina |-> instruccion.destino, valor |-> leido']
      BY <1>6, <2>5 DEF Leer
    <3>. QED
      BY <2>4, <3>1 DEF Palabras
  <2>6. CASE instruccion.op # "COPY"
    <3>1. punto' = "fetch"
      BY <1>6, <2>6 DEF Leer
    <3>. QED
      BY <2>4, <3>1 DEF Palabras
  <2>. QED
    BY <2>5, <2>6
<1>7. CASE Escribir
  BY <1>7 DEF Escribir, Palabras
<1>8. CASE Marcar
  BY <1>8 DEF Marcar, Palabras
<1>. QED
  BY <1>1, <1>2, <1>3, <1>4, <1>5, <1>6, <1>7, <1>8, PasosDeCPU

\* The steps that touch neither a page nor a word of a process leave its pages
\* as clean as they were.
LEMMA LimpiaIgual ==
  ASSUME NEW p, NEW n, Limpia(p, n),
         pagina'[p][n].modificado = pagina[p][n].modificado,
         MarcoDe(p, n)' = MarcoDe(p, n),
         principal'[MarcoDe(p, n)] = principal[MarcoDe(p, n)],
         swap'[p][n] = swap[p][n],
         punto = "marcar" /\ marco = MarcoDe(p, n) => punto' = "marcar" /\ marco' = marco
  PROVE  Limpia(p, n)'
BY DEF Limpia

\* A page comes with the word it had in swap, and the others keep theirs.
LEMMA LimpiasTrae ==
  ASSUME Memoria, Limpias, NEW p \in Procesos, NEW n \in Numeros(p), NEW m \in Marcos, Trae(p, n, m),
         estado[p] = "EXEC", punto # "marcar", config' = config
  PROVE  Limpias'
<1>0. \A q : Numeros(q)' = Numeros(q)
  BY NumerosFijos
<1>1. SUFFICES ASSUME NEW q \in Procesos, NEW k \in Numeros(q), Reside(q, k)'
               PROVE  Limpia(q, k)'
  BY <1>0 DEF Limpias
<1>2. \A j \in Numeros(p) : Reside(p, j) <=> Puesta(p, j)
  BY DEF Memoria, Listas
<1>3. CASE q # p
  <2>1. pagina'[q] = pagina[q] /\ residentes'[q] = residentes[q] /\ swap'[q] = swap[q]
    BY <1>3 DEF Trae
  <2>2. Reside(q, k) /\ MarcoDe(q, k)' = MarcoDe(q, k)
    BY <1>1, <2>1 DEF Reside, MarcoDe
  <2>3. MarcoDe(q, k) # m /\ MarcoDe(q, k) \in Marcos
    BY <1>3, <2>2 DEF Trae, Memoria, Tipos, MarcoDe, TPagina
  <2>4. principal'[MarcoDe(q, k)] = principal[MarcoDe(q, k)]
    BY <2>3 DEF Trae
  <2>5. Limpia(q, k)
    BY <2>2 DEF Limpias
  <2>. QED
    BY <2>1, <2>2, <2>4, <2>5, LimpiaIgual
<1>4. CASE q = p /\ k # n
  <2>0. k \in Numeros(p) \ {n} /\ Puesta(p, k)'
    BY <1>1, <1>4 DEF Trae
  <2>1. /\ Puesta(p, k) /\ MarcoDe(p, k)' = MarcoDe(p, k)
        /\ pagina'[p][k].modificado = pagina[p][k].modificado
    BY <2>0 DEF Trae
  <2>2. Reside(p, k) /\ Limpia(p, k)
    BY <1>2, <2>0, <2>1 DEF Limpias
  <2>3. MarcoDe(p, k) # m /\ MarcoDe(p, k) \in Marcos
    BY <2>0, <2>2 DEF Trae, Memoria, Tipos, MarcoDe, TPagina
  <2>4. principal'[MarcoDe(p, k)] = principal[MarcoDe(p, k)]
    BY <2>3 DEF Trae
  <2>5. swap'[p][k] = swap[p][k]
    BY <2>0 DEF Trae
  <2>. QED
    BY <1>4, <2>1, <2>2, <2>4, <2>5, LimpiaIgual
<1>5. CASE q = p /\ k = n /\ Puesta(p, n)
  <2>1. /\ MarcoDe(p, n) = m /\ MarcoDe(p, n)' = m /\ principal'[m] = principal[m]
        /\ pagina'[p][n].modificado = pagina[p][n].modificado
        /\ swap'[p][n] = swap[p][n]
    BY <1>5 DEF Trae
  <2>2. Limpia(p, n)
    BY <1>2, <1>5 DEF Limpias
  <2>. QED
    BY <1>5, <2>1, <2>2, LimpiaIgual
<1>6. CASE q = p /\ k = n /\ ~Puesta(p, n)
  <2>1. MarcoDe(p, n)' = m /\ principal'[m] = swap[p][n] /\ swap'[p][n] = swap[p][n]
    BY <1>6 DEF Trae
  <2>2. principal'[MarcoDe(p, n)'] = swap'[p][n]
    BY <2>1
  <2>. QED
    BY <1>6, <2>2 DEF Limpia
<1>. QED
  BY <1>3, <1>4, <1>5, <1>6

\* A process that leaves takes no word of another.
LEMMA LimpiasSuelta ==
  ASSUME Memoria, Limpias, NEW p \in Procesos, Suelta(p), UNCHANGED cpuVars, config' = config
  PROVE  Limpias'
<1>0. \A q : Numeros(q)' = Numeros(q)
  BY NumerosFijos
<1>1. SUFFICES ASSUME NEW q \in Procesos, NEW k \in Numeros(q), Reside(q, k)'
               PROVE  Limpia(q, k)'
  BY <1>0 DEF Limpias
<1>2. q # p
  BY <1>1, VacioDe DEF Suelta, Reside
<1>3. /\ pagina'[q] = pagina[q] /\ residentes'[q] = residentes[q] /\ swap'[q] = swap[q]
      /\ principal' = principal
  BY <1>2 DEF Suelta
<1>4. Reside(q, k) /\ MarcoDe(q, k)' = MarcoDe(q, k)
  BY <1>1, <1>3 DEF Reside, MarcoDe
<1>5. Limpia(q, k)
  BY <1>4 DEF Limpias
<1>. QED
  BY <1>3, <1>4, <1>5, LimpiaIgual DEF cpuVars

\* A page without its modified bit has its word in swap, but for the one whose
\* write waits for its second half.
LEMMA LimpiasPaso ==
  ASSUME Marcha, Memoria, Palabras, Acceso, Limpias, [Next]_vars
  PROVE  Limpias'
<1>0. Dentro /\ Curso /\ config' = config /\ \A q : Numeros(q)' = Numeros(q)
  BY ConfigFija, NumerosFijos DEF Marcha
<1>1. ASSUME NEW p \in Procesos, Suspender(p) PROVE Limpias'
  BY <1>0, <1>1, SuspenderPaso, LimpiasSuelta
<1>2. ASSUME NEW p \in Procesos, Finalizar(p) PROVE Limpias'
  BY <1>0, <1>2, FinalizarPaso, LimpiasSuelta
<1>3. ASSUME NEW p \in Procesos, IniciarSwap(p) PROVE Limpias'
  <2>1. SUFFICES ASSUME NEW q \in Procesos, NEW k \in Numeros(q), Reside(q, k)'
                 PROVE  Limpia(q, k)'
    BY <1>0 DEF Limpias
  <2>2. /\ Mismas /\ UNCHANGED <<pagina, principal, punto, marco>>
        /\ residentes[p] = <<>> /\ \A r \in Procesos \ {p} : swap'[r] = swap[r]
    BY <1>0, <1>3, IniciarSwapDe
  <2>3. Reside(q, k)
    BY <2>1, <2>2 DEF Mismas, Reside
  <2>4. q # p
    BY <2>2, <2>3, VacioDe DEF Reside
  <2>5. Limpia(q, k) /\ MarcoDe(q, k)' = MarcoDe(q, k)
    BY <2>2, <2>3 DEF Limpias, MarcoDe
  <2>. QED
    BY <2>2, <2>4, <2>5, LimpiaIgual
<1>4. ASSUME NEW p \in Procesos, FalloTLB(p) PROVE Limpias'
  <2>1. /\ estado[p] = "EXEC" /\ punto = "traducir" /\ instruccion.pagina \in Numeros(p)
        /\ \E m \in Marcos : Trae(p, instruccion.pagina, m)
    BY <1>4, FalloDe DEF EnCurso
  <2>. QED
    BY <1>0, <2>1, LimpiasTrae
<1>5. CASE Escribir
  <2>1. SUFFICES ASSUME NEW q \in Procesos, NEW k \in Numeros(q), Reside(q, k)'
                 PROVE  Limpia(q, k)'
    BY <1>0 DEF Limpias
  <2>2. /\ Mismas /\ UNCHANGED <<pagina, swap, marco>> /\ punto = "acceder" /\ punto' = "marcar"
        /\ \A x \in Marcos \ {marco} : principal'[x] = principal[x]
    BY <1>5, EscribirDe
  <2>3. /\ Reside(q, k) /\ Limpia(q, k) /\ MarcoDe(q, k)' = MarcoDe(q, k)
        /\ MarcoDe(q, k) \in Marcos
    BY <2>1, <2>2 DEF Mismas, Reside, Limpias, MarcoDe, Memoria, Tipos, TPagina
  <2>4. CASE MarcoDe(q, k) = marco
    BY <2>2, <2>3, <2>4 DEF Limpia
  <2>5. CASE MarcoDe(q, k) # marco
    BY <2>2, <2>3, <2>5, LimpiaIgual
  <2>. QED
    BY <2>4, <2>5
<1>6. CASE Marcar
  <2>1. SUFFICES ASSUME NEW q \in Procesos, NEW k \in Numeros(q), Reside(q, k)'
                 PROVE  Limpia(q, k)'
    BY <1>0 DEF Limpias
  <2>2. MarcarModificada(marco)
    BY <1>6 DEF Marcar
  <2>3. Mismas /\ principal' = principal /\ swap' = swap
    BY <2>2, MarcarModificadaDe
  <2>. PICK r \in Procesos, j \in Nat :
         /\ j \in Numeros(r) /\ Reside(r, j) /\ MarcoDe(r, j) = marco
         /\ pagina'[r][j].modificado = 1
         /\ \A s \in Procesos : \A i \in Numeros(s) :
              ~(s = r /\ i = j) => pagina'[s][i].modificado = pagina[s][i].modificado
    <3>1. \A s \in Procesos : Numeros(s) \subseteq Nat
      BY <1>0, TamaniosDe DEF Numeros
    <3>. QED
      BY <2>2, <3>1, MarcarModificadaDe
  <2>4. Reside(q, k) /\ Limpia(q, k) /\ MarcoDe(q, k)' = MarcoDe(q, k)
    BY <2>1, <2>3 DEF Mismas, Reside, Limpias
  <2>5. CASE q = r /\ k = j
    BY <2>5 DEF Limpia
  <2>6. CASE ~(q = r /\ k = j)
    <3>1. MarcoDe(q, k) # marco
      BY <2>4, <2>6 DEF Memoria, Repartidos
    <3>. QED
      BY <2>3, <2>4, <2>6, <3>1, LimpiaIgual
  <2>. QED
    BY <2>5, <2>6
<1>7. ASSUME UNCHANGED <<pagina, residentes, libres, principal, swap>>,
             punto # "marcar" \/ UNCHANGED <<punto, marco>>
      PROVE  Limpias'
  BY <1>0, <1>7 DEF Limpias, Limpia, Reside, MarcoDe
<1>8. \/ punto # "marcar" \/ UNCHANGED <<punto, marco>> \/ Marcar
  BY <1>0, PasosDeCPU, DespachoEntreInstrucciones
     DEF cpuVars, EjecutarProceso, Fetch, FalloTLB, AciertoTLB, Leer, Escribir
<1>. QED
  BY <1>1, <1>2, <1>3, <1>4, <1>5, <1>6, <1>7, <1>8, EnMarcha

\* The whole of it holds at once.
Coherente == Memoria /\ Palabras /\ Acceso /\ EnTLB /\ Limpias

\* The parts hold each other up from step to step.
LEMMA CoherentePaso ==
  ASSUME Marcha, Coherente, [Next]_vars
  PROVE  Coherente'
<1>1. Memoria /\ Palabras /\ Acceso /\ EnTLB /\ Limpias
  BY DEF Coherente
<1>2. Memoria' /\ Palabras' /\ Acceso' /\ EnTLB' /\ Limpias'
  BY <1>1, MemoriaPaso, PalabrasPaso, AccesoPaso, EnTLBPaso, LimpiasPaso
<1>. QED
  BY <1>2 DEF Coherente

\* No page is anywhere yet.
LEMMA CoherenteInicio ==
  ASSUME Init
  PROVE  Coherente
<1>0. /\ Dentro /\ PaginacionInit
      /\ estado = [p \in Procesos |-> "FUERA"]
      /\ punto = "fetch" /\ tlb = <<>> /\ leido = 0
  BY DentroInicio DEF Init, Ciclo!Init
<1>1. /\ DOMAIN pagina = Procesos /\ DOMAIN swap = Procesos /\ DOMAIN residentes = Procesos
      /\ \A p \in Procesos : /\ pagina[p] = [n \in Numeros(p) |-> PaginaNueva]
                             /\ swap[p] = [n \in Numeros(p) |-> BASURA]
                             /\ residentes[p] = <<>>
      /\ libres = Marcos /\ principal = [m \in Marcos |-> 0]
  BY <1>0 DEF PaginacionInit
<1>2. {0, BASURA} \subseteq Valores /\ CANTIDAD_MARCOS \in Nat \ {0}
  BY PaginacionAssumption
<1>3. PaginaNueva \in TPagina /\ PaginaNueva.presencia = FALSE
  BY <1>2 DEF PaginaNueva, TPagina, Marcos
<1>4. Tipos
  <2>1. ASSUME NEW p \in Procesos
        PROVE  /\ pagina[p] \in [Numeros(p) -> TPagina]
               /\ swap[p] \in [Numeros(p) -> Valores]
               /\ residentes[p] \in Seq(Numeros(p))
    <3>1. <<>> \in Seq(Numeros(p))
      BY EmptySeq
    <3>2. pagina[p] \in [Numeros(p) -> TPagina] /\ swap[p] \in [Numeros(p) -> Valores]
      BY <1>1, <1>2, <1>3
    <3>. QED
      BY <1>1, <3>1, <3>2
  <2>2. principal \in [Marcos -> Valores]
    BY <1>1, <1>2
  <2>. QED
    BY <1>1, <2>1, <2>2 DEF Tipos
<1>5. \A p \in Procesos : \A n : ~Reside(p, n)
  BY <1>1, VacioDe DEF Reside
<1>6. \A p \in Procesos : \A n \in Numeros(p) : ~Puesta(p, n)
  BY <1>1, <1>3 DEF Puesta
<1>7. Listas
  <2>1. IsInjective(<<>>) /\ Len(<<>>) = 0
    BY DEF IsInjective
  <2>2. MARCOS_POR_PROCESO \in Nat
    BY <1>0, PaginacionAssumption DEF Dentro, MARCOS_POR_PROCESO
  <2>. QED
    BY <1>1, <1>5, <1>6, <2>1, <2>2 DEF Listas
<1>8. Repartidos
  BY <1>1, <1>5 DEF Repartidos
<1>9. Palabras /\ Acceso
  BY <1>0, <1>2 DEF Palabras, Acceso
<1>10. EnTLB
  BY <1>0, EmptySeq DEF EnTLB
<1>11. Limpias
  BY <1>5 DEF Limpias
<1>. QED
  BY <1>4, <1>7, <1>8, <1>9, <1>10, <1>11 DEF Coherente, Memoria

\* The inductive invariant: lists, bits and frames agree, the instruction in
\* course and the TLB know the right frames, and clean pages are in swap.
THEOREM CoherenteSiempre == Spec => []Coherente
<1>1. Init => Coherente
  BY CoherenteInicio
<1>2. Dentro /\ Tablas /\ Curso /\ Coherente /\ [Next]_vars => Coherente'
  BY CoherentePaso DEF Marcha
<1>. QED
  BY <1>1, <1>2, DentroSiempre, TablasSiempre, CursoSiempre, PTL DEF Spec

-----------------------------------------------------------------------------
\* What the runs check, from the invariant.

\* Every variable keeps its type.
THEOREM MemoriaTipos == Spec => []TypeOK
<1>1. ASSUME Dentro, Curso, Tablas, Coherente
      PROVE  TypeOK
  <2>1. /\ Tipos /\ punto \in {"fetch", "traducir", "acceder", "marcar"}
        /\ leido \in Valores /\ Ciclo!TypeOK /\ iniciando \in Procesos \cup {NULL}
    BY <1>1 DEF Coherente, Memoria, Curso, Palabras, Dentro
  <2>2. /\ pcb \in [Procesos -> Nat] /\ segundo_nivel \in Seq(Seq(Nat))
        /\ primer_nivel \in Seq([proceso : Procesos, tablas : Seq(Nat)])
    BY <1>1 DEF Tablas, Filas
  <2>3. ASSUME NEW p \in Ciclo!Los("EXEC"), punto # "fetch"
        PROVE  instruccion.op \in {"READ", "WRITE", "COPY"} /\ instruccion.pagina \in Numeros(p)
    BY <1>1, <2>3 DEF Curso, EnCurso, Ciclo!Los
  <2>4. ASSUME punto \in {"acceder", "marcar"} PROVE marco \in Marcos
    <3>1. PICK p \in Procesos : estado[p] = "EXEC"
      BY <1>1, <2>4 DEF Curso
    <3>2. instruccion.pagina \in Numeros(p) /\ MarcoDe(p, instruccion.pagina) = marco
      BY <1>1, <2>4, <3>1 DEF Curso, EnCurso, Coherente, Acceso
    <3>. QED
      BY <2>1, <3>2 DEF Tipos, TPagina, MarcoDe
  <2>. QED
    BY <2>1, <2>2, <2>3, <2>4 DEF TypeOK, Tipos, TPagina
<1>. QED
  BY <1>1, DentroSiempre, CursoSiempre, TablasSiempre, CoherenteSiempre, PTL

\* As many frames as resident pages.
LEMMA MarcosContados ==
  ASSUME Tipos, Listas, Repartidos, NEW p \in Procesos
  PROVE  /\ IsFiniteSet(MarcosDe(p)) /\ Cardinality(MarcosDe(p)) = Len(residentes[p])
         /\ ToSet(residentes[p]) \subseteq Numeros(p)
<1>. DEFINE l == Len(residentes[p])
            f == [i \in 1..l |-> MarcoDe(p, residentes[p][i])]
<1>1. /\ residentes[p] \in Seq(Numeros(p)) /\ IsInjective(residentes[p])
      /\ l \in Nat /\ DOMAIN residentes[p] = 1..l
      /\ \A i \in 1..l : residentes[p][i] \in Numeros(p) /\ Reside(p, residentes[p][i])
  <2>1. residentes[p] \in Seq(Numeros(p)) /\ IsInjective(residentes[p])
    BY DEF Tipos, Listas
  <2>2. l \in Nat /\ DOMAIN residentes[p] = 1..l /\ \A i \in 1..l : residentes[p][i] \in Numeros(p)
    BY <2>1, LenProperties, ElementOfSeq
  <2>3. \A i \in 1..l : Reside(p, residentes[p][i])
    BY DEF Reside, Contains
  <2>. QED
    BY <2>1, <2>2, <2>3
<1>2. MarcosDe(p) = {MarcoDe(p, residentes[p][i]) : i \in 1..l}
  BY <1>1 DEF MarcosDe, ToSet, MarcoDe
<1>. HIDE DEF l
<1>3. \A i, j \in 1..l : f[i] = f[j] => i = j
  <2>1. ASSUME NEW i \in 1..l, NEW j \in 1..l, f[i] = f[j]
        PROVE  i = j
    <3>1. residentes[p][i] = residentes[p][j]
      BY <1>1, <2>1 DEF Repartidos
    <3>. QED
      BY <1>1, <3>1 DEF IsInjective
  <2>. QED
    BY <2>1
<1>4. f \in Bijection(1..l, MarcosDe(p))
  <2>1. f \in [1..l -> MarcosDe(p)]
    BY <1>2
  <2>2. f \in Surjection(1..l, MarcosDe(p))
    BY <1>2, <2>1 DEF Surjection
  <2>3. f \in Injection(1..l, MarcosDe(p))
    BY <1>3, <2>1 DEF Injection, IsInjective
  <2>. QED
    BY <2>2, <2>3 DEF Bijection
<1>5. IsFiniteSet(1..l) /\ Cardinality(1..l) = l
  BY <1>1, FS_Interval
<1>6. ToSet(residentes[p]) \subseteq Numeros(p)
  BY <1>1 DEF ToSet
<1>. QED
  BY <1>4, <1>5, <1>6, FS_Bijection DEF ExistsBijection, l

\* The bitmap, the lists of residents and the page tables agree, whatever is
\* brought, replaced, suspended or ended.
THEOREM MarcosEnReglaSiempre == Spec => []MarcosEnRegla
<1>1. ASSUME Coherente
      PROVE  MarcosEnRegla
  <2>0. Tipos /\ Listas /\ Repartidos
    BY <1>1 DEF Coherente, Memoria
  <2>1. \A p \in Procesos : /\ Cardinality(MarcosDe(p)) = Len(residentes[p])
                            /\ ToSet(residentes[p]) \subseteq Numeros(p)
    BY <2>0, MarcosContados
  <2>2. \A p \in Procesos : \A x :
          /\ x \in MarcosDe(p) <=> \E k \in Numeros(p) : Reside(p, k) /\ MarcoDe(p, k) = x
          /\ x \in ToSet(residentes[p]) <=> Reside(p, x)
    BY <2>0, MarcosDeEs, ConjuntoDe DEF Tipos, Reside
  <2>3. ASSUME NEW p \in Vivos
        PROVE  /\ IsInjective(residentes[p])
               /\ ToSet(residentes[p]) = {n \in Numeros(p) : pagina[p][n].presencia}
               /\ Len(residentes[p]) <= MARCOS_POR_PROCESO
    <3>1. p \in Procesos /\ estado[p] # "FIN"
      BY DEF Vivos
    <3>2. \A n \in Numeros(p) : Reside(p, n) <=> Puesta(p, n)
      BY <2>0, <3>1 DEF Listas
    <3>3. ToSet(residentes[p]) = {n \in Numeros(p) : Puesta(p, n)}
      BY <2>1, <2>2, <3>1, <3>2
    <3>. QED
      BY <2>0, <3>1, <3>3 DEF Listas, Puesta
  <2>4. ASSUME NEW p \in Procesos, NEW q \in Procesos, p # q
        PROVE  MarcosDe(p) \cap MarcosDe(q) = {}
    BY <2>0, <2>2, <2>4 DEF Repartidos
  <2>5. libres = Marcos \ UNION {MarcosDe(p) : p \in Procesos}
    <3>1. \A x \in Marcos : x \in libres <=> \A p \in Procesos : x \notin MarcosDe(p)
      BY <2>0, <2>2 DEF Repartidos
    <3>2. libres \subseteq Marcos
      BY <2>0 DEF Tipos
    <3>. QED
      BY <3>1, <3>2
  <2>. QED
    BY <2>1, <2>3, <2>4, <2>5 DEF MarcosEnRegla
<1>. QED
  BY <1>1, CoherenteSiempre, PTL

\* A resident page without its modified bit can be dropped: swap has its word.
THEOREM LimpiasSiempre == Spec => []LimpiasEnSwap
<1>1. ASSUME Coherente
      PROVE  LimpiasEnSwap
  <2>1. ASSUME NEW p \in Procesos, NEW n \in ToSet(residentes[p])
        PROVE  Limpia(p, n)
    <3>1. residentes[p] \in Seq(Numeros(p))
      BY <1>1 DEF Coherente, Memoria, Tipos
    <3>2. n \in Numeros(p) /\ Reside(p, n)
      BY <3>1, ConjuntoDe DEF Reside
    <3>. QED
      BY <1>1, <3>2 DEF Coherente, Limpias
  <2>. QED
    BY <2>1 DEF LimpiasEnSwap, Limpia, MarcoDe, Vivos
<1>. QED
  BY <1>1, CoherenteSiempre, PTL

\* The TLB never lies about the process that runs, under FIFO or LRU.
THEOREM TLBSiempre == Spec => []TLBCoherente
<1>1. ASSUME Coherente
      PROVE  TLBCoherente
  <2>1. ASSUME NEW p \in Ciclo!Los("EXEC")
        PROVE  /\ Len(tlb) <= config.entradas_tlb
               /\ IsInjective([k \in DOMAIN tlb |-> tlb[k][1]])
               /\ \A k \in DOMAIN tlb :
                    pagina[p][tlb[k][1]].presencia /\ pagina[p][tlb[k][1]].marco = tlb[k][2]
    <3>1. p \in Procesos /\ estado[p] = "EXEC"
      BY DEF Ciclo!Los
    <3>2. /\ tlb \in Seq(Entrada) /\ Len(tlb) <= config.entradas_tlb /\ Claves(tlb)
          /\ \A e : Contains(tlb, e) => EntradaBuena(p, e)
      BY <1>1, <3>1 DEF Coherente, EnTLB
    <3>3. DOMAIN tlb = 1..Len(tlb)
      BY <3>2, LenProperties
    <3>4. IsInjective([k \in DOMAIN tlb |-> tlb[k][1]])
      BY <3>2, <3>3 DEF IsInjective, Claves
    <3>5. \A k \in DOMAIN tlb : EntradaBuena(p, tlb[k])
      BY <3>2, <3>3 DEF Contains
    <3>. QED
      BY <3>2, <3>4, <3>5 DEF EntradaBuena, Puesta, MarcoDe
  <2>. QED
    BY <2>1 DEF TLBCoherente
<1>. QED
  BY <1>1, CoherenteSiempre, PTL

\* Whatever the kernel does between the two halves of memoria_escribir, the
\* page it wrote is still where it was.
THEOREM EscrituraSiempre == Spec => []EscrituraEncuentra
<1>1. ASSUME Dentro, Curso, Coherente, punto = "marcar"
      PROVE  BuscarPagina(marco) = {<<Ejecutando, instruccion.pagina>>}
  <2>0. Tipos /\ Listas /\ Repartidos /\ Acceso
    BY <1>1 DEF Coherente, Memoria
  <2>1. PICK p \in Procesos : estado[p] = "EXEC" /\ EnCurso(p) /\ Ejecutando = p
    BY <1>1, QuienEnCurso
  <2>. PICK n \in Numeros(p) : n = instruccion.pagina
    BY <2>1 DEF EnCurso
  <2>2. Puesta(p, n) /\ MarcoDe(p, n) = marco /\ Reside(p, n)
    BY <1>1, <2>0, <2>1 DEF Acceso, Listas
  <2>3. \A q \in Procesos : \A x :
          (x \in ToSet(residentes[q]) <=> Reside(q, x)) /\ (Reside(q, x) => x \in Numeros(q))
    BY <2>0, ConjuntoDe DEF Tipos, Reside
  <2>4. <<p, n>> \in BuscarPagina(marco)
    BY <2>2, <2>3 DEF BuscarPagina, Puesta, MarcoDe
  <2>5. ASSUME NEW pn \in BuscarPagina(marco) PROVE pn = <<p, n>>
    <3>1. PICK q \in Procesos : pn \in {q} \X ToSet(residentes[q])
      BY DEF BuscarPagina
    <3>2. PICK k \in ToSet(residentes[q]) : pn = <<q, k>>
      BY <3>1
    <3>3. k \in Numeros(q) /\ Reside(q, k)
      BY <2>3
    <3>4. MarcoDe(q, k) = marco
      BY <3>2 DEF BuscarPagina, MarcoDe
    <3>5. q = p /\ k = n
      BY <2>0, <2>2, <3>3, <3>4 DEF Repartidos
    <3>. QED
      BY <3>2, <3>5
  <2>. QED
    BY <2>1, <2>4, <2>5
<1>2. Dentro /\ Curso /\ Coherente => EscrituraEncuentra
  BY <1>1 DEF EscrituraEncuentra
<1>. QED
  BY <1>2, DentroSiempre, CursoSiempre, CoherenteSiempre, PTL

\* Both algorithms choose the page of the lowest class, the first in clock
\* order.
THEOREM VictimaSiempre == Spec => []VictimaMinima
<1>1. ASSUME Dentro, Coherente
      PROVE  VictimaMinima
  <2>1. \A p \in Procesos : residentes[p] \in Seq(Numeros(p)) /\ pagina[p] \in [Numeros(p) -> TPagina]
    BY <1>1 DEF Coherente, Memoria, Tipos
  <2>. QED
    BY <1>1, <2>1, ReemplazoDe DEF VictimaMinima, Vivos
<1>. QED
  BY <1>1, DentroSiempre, CoherenteSiempre, PTL

\* If no bit of the bitmap is clear, every process in memory has all its
\* frames: the places of their lists are as many as the frames.
LEMMA TodosLlenos ==
  ASSUME Dentro, GradoRespetado, Memoria, libres = {}, NEW p \in Ciclo!EnMemoria
  PROVE  Len(residentes[p]) >= MARCOS_POR_PROCESO
<1>. DEFINE M == MARCOS_POR_PROCESO
            E == Ciclo!EnMemoria
            T == E \X (1..M)
            D == T \ {<<p, M>>}
            F == [t \in D |-> IF t[2] <= Len(residentes[t[1]])
                              THEN MarcoDe(t[1], residentes[t[1]][t[2]]) ELSE 0]
<1>0. Tipos /\ Listas /\ Repartidos /\ p \in Procesos
  BY DEF Memoria, Ciclo!EnMemoria
<1>1. /\ M \in Nat \ {0} /\ CANTIDAD_MARCOS \in Nat \ {0} /\ GRADO \in Nat \ {0}
      /\ IsFiniteSet(Procesos) /\ config.llegan \subseteq Procesos
      /\ Min({GRADO, Cardinality(config.llegan)}) * M <= CANTIDAD_MARCOS
  BY PaginacionAssumption, MemoriaVirtualAssumption DEF Dentro, MARCOS_POR_PROCESO
<1>2. E \subseteq config.llegan
  BY DEF Dentro, Ciclo!EnMemoria
<1>3. /\ IsFiniteSet(E) /\ Cardinality(E) \in Nat
      /\ IsFiniteSet(config.llegan) /\ Cardinality(config.llegan) \in Nat
      /\ Cardinality(E) <= Cardinality(config.llegan) /\ Cardinality(E) <= GRADO
  <2>1. IsFiniteSet(config.llegan)
    BY <1>1, FS_Subset
  <2>2. IsFiniteSet(E) /\ Cardinality(E) <= Cardinality(config.llegan)
    BY <1>2, <2>1, FS_Subset
  <2>. QED
    BY <2>1, <2>2, FS_CardinalityType DEF GradoRespetado
<1>4. \A q \in Procesos : /\ Len(residentes[q]) \in Nat
                          /\ residentes[q] \in Seq(Numeros(q))
                          /\ Len(residentes[q]) <= M
  BY <1>0, LenProperties DEF Tipos, Listas
<1>. HIDE DEF M, E
<1>5. IsFiniteSet(T) /\ Cardinality(T) = Cardinality(E) * M
  <2>1. IsFiniteSet(1..M) /\ Cardinality(1..M) = M
    BY <1>1, FS_Interval
  <2>. QED
    BY <1>3, <2>1, FS_Product
<1>6. Cardinality(E) * M <= CANTIDAD_MARCOS
  <2>. DEFINE c == Cardinality(E)
              d == Min({GRADO, Cardinality(config.llegan)})
  <2>1. c \in Nat /\ d \in Nat /\ c <= d
    BY <1>1, <1>3, MinimoDeDos
  <2>2. d * M <= CANTIDAD_MARCOS
    BY <1>1
  <2>. HIDE DEF c, d
  <2>3. c * M <= d * M
    <3>. PICK k \in Nat : d = c + k
      BY <2>1
    <3>1. d * M = c * M + k * M /\ c * M \in Nat /\ k * M \in Nat
      BY <1>1, <2>1
    <3>. QED
      BY <3>1
  <2>4. c * M \in Nat /\ d * M \in Nat
    BY <1>1, <2>1
  <2>. QED
    BY <1>1, <2>2, <2>3, <2>4 DEF c
<1>7. ASSUME Len(residentes[p]) < M PROVE FALSE
  <2>1. <<p, M>> \in T
    BY <1>1 DEF E
  <2>2. IsFiniteSet(D) /\ Cardinality(D) = Cardinality(T) - 1
    BY <1>5, <2>1, FS_RemoveElement
  <2>3. ASSUME NEW m \in Marcos PROVE \E t \in D : F[t] = m
    <3>1. PICK q \in Procesos : \E k \in Numeros(q) : Reside(q, k) /\ MarcoDe(q, k) = m
      BY <1>0 DEF Repartidos
    <3>2. PICK i \in 1..Len(residentes[q]) : MarcoDe(q, residentes[q][i]) = m
      BY <3>1 DEF Reside, Contains
    <3>3. q \in E
      <4>1. residentes[q] # <<>>
        BY <3>1, VacioDe DEF Reside
      <4>. QED
        BY <1>0, <4>1 DEF Listas, Adentro, E, Ciclo!EnMemoria
    <3>4. i \in 1..M /\ Len(residentes[q]) \in Nat /\ i <= Len(residentes[q])
      BY <1>1, <1>4
    <3>5. <<q, i>> # <<p, M>>
      BY <1>1, <1>7, <3>4
    <3>6. <<q, i>> \in D
      BY <3>3, <3>4, <3>5
    <3>7. F[<<q, i>>] = m
      BY <3>2, <3>4, <3>6
    <3>. QED
      BY <3>6, <3>7
  <2>4. ASSUME NEW t \in D PROVE F[t] \in Marcos
    <3>1. t[1] \in Procesos /\ t[2] \in 1..M
      BY DEF E, Ciclo!EnMemoria
    <3>2. CASE t[2] <= Len(residentes[t[1]])
      <4>1. residentes[t[1]][t[2]] \in Numeros(t[1])
        BY <1>1, <1>4, <3>1, <3>2, ElementOfSeq
      <4>2. MarcoDe(t[1], residentes[t[1]][t[2]]) \in Marcos
        BY <1>0, <3>1, <4>1 DEF Tipos, TPagina, MarcoDe
      <4>. QED
        BY <3>2, <4>2
    <3>3. CASE ~(t[2] <= Len(residentes[t[1]]))
      BY <1>1, <3>3 DEF Marcos
    <3>. QED
      BY <3>2, <3>3
  <2>5. F \in Surjection(D, Marcos)
    <3>1. F \in [D -> Marcos]
      BY <2>4
    <3>. HIDE DEF F, D
    <3>. QED
      BY <2>3, <3>1 DEF Surjection
  <2>6. Cardinality(Marcos) <= Cardinality(D)
    <3>. HIDE DEF F, D
    <3>. QED
      BY <2>2, <2>5, FS_Surjection
  <2>7. Cardinality(Marcos) = CANTIDAD_MARCOS
    <3>1. 0 \in Int /\ CANTIDAD_MARCOS - 1 \in Int /\ ~(0 > CANTIDAD_MARCOS - 1)
          /\ (CANTIDAD_MARCOS - 1) - 0 + 1 = CANTIDAD_MARCOS
      BY <1>1
    <3>. QED
      BY <3>1, FS_Interval DEF Marcos
  <2>8. Cardinality(T) \in Nat
    BY <1>5, FS_CardinalityType
  <2>. QED
    BY <1>1, <1>5, <1>6, <2>2, <2>6, <2>7, <2>8
<1>. QED
  BY <1>0, <1>1, <1>4, <1>7 DEF M

\* proximo_marco_libre finds a frame for whoever may still take one: the
\* degree of multiprogramming bounds the processes that have some.
THEOREM HayMarcoSiempre == Spec => []HayMarco
<1>1. ASSUME Dentro, GradoRespetado, Coherente
      PROVE  HayMarco
  <2>1. ASSUME NEW p \in Vivos, estado[p] \notin {"SUSPENDED_BLOCKED", "SUSPENDED_READY"},
               Len(residentes[p]) < MARCOS_POR_PROCESO, libres = {}
        PROVE  FALSE
    <3>1. p \in Procesos /\ p \in Ciclo!EnMemoria
      BY <1>1, <2>1 DEF Vivos, Ciclo!EnMemoria, Dentro, Ciclo!TypeOK, Ciclo!EstadosDelCiclo
    <3>2. Memoria /\ residentes[p] \in Seq(Numeros(p)) /\ Len(residentes[p]) \in Nat
      BY <1>1, <3>1, LenProperties DEF Coherente, Memoria, Tipos
    <3>3. MARCOS_POR_PROCESO \in Nat
      BY <1>1, PaginacionAssumption DEF Dentro, MARCOS_POR_PROCESO
    <3>4. Len(residentes[p]) >= MARCOS_POR_PROCESO
      BY <1>1, <2>1, <3>1, <3>2, TodosLlenos
    <3>. QED
      BY <2>1, <3>2, <3>3, <3>4
  <2>. QED
    BY <2>1 DEF HayMarco
<1>. QED
  BY <1>1, DentroSiempre, GradoSiempre, CoherenteSiempre, PTL

-----------------------------------------------------------------------------
\* A memory for each process: what is in a page does not depend on where the
\* page is.

Contenidos == [p \in Procesos |-> Contenido(p)]
Palabra(p, n) ==
  IF p \notin Vivos THEN 0
  ELSE IF Puesta(p, n) THEN principal[MarcoDe(p, n)] ELSE swap[p][n]

\* The contents, word by word.
LEMMA ContenidosDe ==
  /\ DOMAIN Contenidos = Procesos
  /\ \A p \in Procesos : Contenidos[p] = [n \in Numeros(p) |-> Palabra(p, n)]
BY DEF Contenidos, Contenido, Palabra, Puesta, MarcoDe

\* No word changes, no contents change.
LEMMA ContenidosIguales ==
  ASSUME config' = config,
         \A p \in Procesos : \A n \in Numeros(p) : Palabra(p, n)' = Palabra(p, n)
  PROVE  Contenidos' = Contenidos
<1>1. \A p : Numeros(p)' = Numeros(p)
  BY NumerosFijos
<1>2. Contenidos = [p \in Procesos |-> [n \in Numeros(p) |-> Palabra(p, n)]]
  BY DEF Contenidos, Contenido, Palabra, Puesta, MarcoDe
<1>3. Contenidos' = [p \in Procesos |-> [n \in Numeros(p) |-> Palabra(p, n)']]
  <2>1. Contenidos' = [p \in Procesos |-> [n \in Numeros(p)' |-> Palabra(p, n)']]
    BY DEF Contenidos, Contenido, Palabra, Puesta, MarcoDe
  <2>. QED
    BY <1>1, <2>1
<1>. QED
  BY <1>2, <1>3

\* Only starting and ending a process say whether it has a memory.
LEMMA VivosFijos ==
  ASSUME Dentro, [Next]_vars, NEW p \in Procesos, ~IniciarSwap(p), ~Finalizar(p)
  PROVE  p \in Vivos' <=> p \in Vivos
<1>0. p \in Vivos <=> estado[p] \notin {"FUERA", "NEW", "FIN"}
  BY DEF Vivos
<1>1. p \in Vivos' <=> estado'[p] \notin {"FUERA", "NEW", "FIN"}
  BY DEF Vivos
<1>2. ASSUME NEW q \in Procesos, NEW a \in Ciclo!EstadosDelCiclo, NEW b \in Ciclo!EstadosDelCiclo,
             Ciclo!Pasar(q, a, b), a \in {"FUERA", "NEW", "FIN"} <=> b \in {"FUERA", "NEW", "FIN"}
      PROVE  p \in Vivos' <=> p \in Vivos
  <2>1. /\ estado[q] = a /\ estado'[q] = b
        /\ \A r \in Procesos \ {q} : estado'[r] = estado[r]
    BY <1>2, Flecha DEF Dentro
  <2>. QED
    BY <1>0, <1>1, <1>2, <2>1
<1>3. ASSUME NEW q \in Procesos, Flechas(q), q # p
      PROVE  estado'[p] = estado[p]
  <2>1. PICK a \in Ciclo!EstadosDelCiclo, b \in Ciclo!EstadosDelCiclo : Ciclo!Pasar(q, a, b)
    BY <1>3 DEF Flechas, Ciclo!EstadosDelCiclo
  <2>. QED
    BY <1>3, <2>1, Flecha DEF Dentro
<1>4. CASE Flechas(p)
  BY <1>2, <1>4 DEF Flechas, Ciclo!EstadosDelCiclo
<1>. QED
  BY <1>0, <1>1, <1>3, <1>4, PasosYFlechas

\* Only Leer reads.
LEMMA LeidoFijo ==
  ASSUME [Next]_vars
  PROVE  leido' = leido \/ Leer
BY PasosDeCPU DEF cpuVars, EjecutarProceso, Fetch, FalloTLB, AciertoTLB, Escribir, Marcar

\* A page brought, or one that leaves its frame, keeps its word.
LEMMA TraeIgual ==
  ASSUME Memoria, Limpias, NEW p \in Procesos, NEW n \in Numeros(p), NEW m \in Marcos, Trae(p, n, m),
         estado[p] = "EXEC", estado' = estado, punto # "marcar", config' = config
  PROVE  Contenidos' = Contenidos
<1>0. \A q \in Procesos : q \in Vivos' <=> q \in Vivos
  BY DEF Vivos
<1>1. \A j \in Numeros(p) : Reside(p, j) <=> Puesta(p, j)
  BY DEF Memoria, Listas
<1>2. ASSUME NEW q \in Procesos, NEW k \in Numeros(q), q # p, q \in Vivos
      PROVE  Palabra(q, k)' = Palabra(q, k)
  <2>1. pagina'[q] = pagina[q] /\ swap'[q] = swap[q]
    BY <1>2 DEF Trae
  <2>2. (Puesta(q, k)' <=> Puesta(q, k)) /\ MarcoDe(q, k)' = MarcoDe(q, k)
    BY <2>1 DEF Puesta, MarcoDe
  <2>3. ASSUME Puesta(q, k) PROVE principal'[MarcoDe(q, k)] = principal[MarcoDe(q, k)]
    <3>1. Reside(q, k)
      BY <1>2, <2>3 DEF Memoria, Listas, Vivos
    <3>2. MarcoDe(q, k) # m
      BY <1>2, <3>1 DEF Trae
    <3>3. MarcoDe(q, k) \in Marcos
      BY DEF Memoria, Tipos, MarcoDe, TPagina
    <3>. QED
      BY <3>2, <3>3 DEF Trae
  <2>. QED
    BY <1>0, <2>1, <2>2, <2>3 DEF Palabra
<1>3. ASSUME NEW k \in Numeros(p)
      PROVE  Palabra(p, k)' = Palabra(p, k)
  <2>0. p \in Vivos /\ p \in Vivos'
    BY <1>0 DEF Vivos
  <2>1. CASE k = n /\ Puesta(p, n)
    <3>1. Puesta(p, n)' /\ MarcoDe(p, n)' = MarcoDe(p, n) /\ principal'[m] = principal[m]
          /\ MarcoDe(p, n) = m
      BY <2>1 DEF Trae
    <3>. QED
      BY <2>0, <2>1, <3>1 DEF Palabra
  <2>2. CASE k = n /\ ~Puesta(p, n)
    <3>1. Puesta(p, n)' /\ MarcoDe(p, n)' = m /\ principal'[m] = swap[p][n]
      BY <2>2 DEF Trae
    <3>. QED
      BY <2>0, <2>2, <3>1 DEF Palabra
  <2>3. CASE k # n /\ Puesta(p, k)'
    <3>1. k \in Numeros(p) \ {n}
      BY <2>3
    <3>2. Puesta(p, k) /\ MarcoDe(p, k)' = MarcoDe(p, k)
      BY <2>3, <3>1 DEF Trae
    <3>3. MarcoDe(p, k) # m
      BY <1>1, <2>3, <3>2 DEF Trae
    <3>4. MarcoDe(p, k) \in Marcos
      BY DEF Memoria, Tipos, MarcoDe, TPagina
    <3>5. principal'[MarcoDe(p, k)] = principal[MarcoDe(p, k)]
      BY <3>3, <3>4 DEF Trae
    <3>. QED
      BY <2>0, <2>3, <3>2, <3>5 DEF Palabra
  <2>4. CASE ~Puesta(p, k)' /\ Puesta(p, k)
    <3>1. /\ MarcoDe(p, k) = m
          /\ swap'[p][k] = IF pagina[p][k].modificado = 1 THEN principal[m] ELSE swap[p][k]
      BY <2>4 DEF Trae
    <3>2. Limpia(p, k)
      BY <1>1, <2>4 DEF Limpias
    <3>3. swap'[p][k] = principal[m]
      BY <3>1, <3>2 DEF Limpia
    <3>. QED
      BY <2>0, <2>4, <3>1, <3>3 DEF Palabra
  <2>5. CASE ~Puesta(p, k)' /\ ~Puesta(p, k)
    <3>1. swap'[p][k] = swap[p][k]
      BY <2>5 DEF Trae
    <3>. QED
      BY <2>0, <2>5, <3>1 DEF Palabra
  <2>. QED
    BY <2>1, <2>2, <2>3, <2>4, <2>5
<1>4. ASSUME NEW q \in Procesos, NEW k \in Numeros(q), q \notin Vivos
      PROVE  Palabra(q, k)' = Palabra(q, k)
  BY <1>0, <1>4 DEF Palabra
<1>5. \A q \in Procesos : \A k \in Numeros(q) : Palabra(q, k)' = Palabra(q, k)
  BY <1>2, <1>3, <1>4
<1>. QED
  BY <1>5, ContenidosIguales

\* The steps that move no page and no word.
LEMMA MismasIgual ==
  ASSUME Mismas, principal' = principal, swap' = swap, config' = config,
         \A p \in Procesos : p \in Vivos' <=> p \in Vivos
  PROVE  Contenidos' = Contenidos
<1>1. ASSUME NEW p \in Procesos, NEW n \in Numeros(p) PROVE Palabra(p, n)' = Palabra(p, n)
  BY DEF Mismas, Palabra
<1>. QED
  BY <1>1, ContenidosIguales

\* The swap file is cleared before the process has a memory, and is all of it.
LEMMA IniciarSwapIgual ==
  ASSUME Dentro, Memoria, [Next]_vars, NEW p \in Procesos, IniciarSwap(p)
  PROVE  Contenidos' = Contenidos
<1>1. /\ Mismas /\ principal' = principal /\ residentes[p] = <<>> /\ config' = config
      /\ estado[p] = "NEW"
      /\ \A q \in Procesos \ {p} : swap'[q] = swap[q]
      /\ \A k \in Numeros(p) : swap'[p][k] = 0
  BY IniciarSwapDe
<1>2. \A k \in Numeros(p) : ~Puesta(p, k)
  BY <1>1, VacioDe DEF Memoria, Listas, Reside
<1>3. p \notin Vivos
  BY <1>1 DEF Vivos
<1>4. ASSUME NEW k \in Numeros(p) PROVE Palabra(p, k)' = Palabra(p, k)
  <2>1. ~Puesta(p, k)'
    BY <1>1, <1>2 DEF Mismas
  <2>. QED
    BY <1>1, <1>3, <2>1 DEF Palabra
<1>5. ASSUME NEW q \in Procesos \ {p}, NEW k \in Numeros(q) PROVE Palabra(q, k)' = Palabra(q, k)
  <2>1. estado'[q] = estado[q]
    <3>1. Ciclo!Pasar(p, "NEW", "READY")
      BY <1>1 DEF IniciarSwap, Ciclo!Admitir, Ciclo!Pasar
    <3>. QED
      BY <3>1, Flecha DEF Dentro, Ciclo!EstadosDelCiclo
  <2>2. q \in Vivos' <=> q \in Vivos
    BY <2>1 DEF Vivos
  <2>. QED
    BY <1>1, <2>2 DEF Mismas, Palabra
<1>. QED
  BY <1>1, <1>4, <1>5, ContenidosIguales

\* A suspended process finds in swap what it had in its frames.
LEMMA SuspenderIgual ==
  ASSUME Marcha, Coherente, NEW p \in Procesos, Suspender(p)
  PROVE  Contenidos' = Contenidos
<1>0. Dentro /\ Curso /\ Tipos /\ Listas /\ Repartidos /\ Memoria /\ Limpias /\ Acceso
  BY DEF Marcha, Coherente, Memoria
<1>1. /\ estado[p] = "BLOCKED" /\ estado'[p] = "SUSPENDED_BLOCKED"
      /\ \A q \in Procesos \ {p} : estado'[q] = estado[q]
      /\ config' = config /\ Suelta(p)
      /\ \A k \in Numeros(p) : ~Puesta(p, k)'
      /\ \A k \in Numeros(p) : swap'[p][k] =
           IF Puesta(p, k) /\ pagina[p][k].modificado = 1
           THEN principal[MarcoDe(p, k)] ELSE swap[p][k]
  BY <1>0, SuspenderPaso
<1>2. \A q \in Procesos : q \in Vivos' <=> q \in Vivos
  BY <1>1 DEF Vivos
<1>3. ASSUME NEW k \in Numeros(p), Puesta(p, k), pagina[p][k].modificado # 1
      PROVE  principal[MarcoDe(p, k)] = swap[p][k]
  <2>1. Reside(p, k) /\ Limpia(p, k)
    BY <1>0, <1>1, <1>3 DEF Listas, Limpias
  <2>2. ASSUME punto = "marcar", marco = MarcoDe(p, k) PROVE FALSE
    <3>1. PICK q \in Procesos : estado[q] = "EXEC" /\ EnCurso(q)
      BY <1>0, <2>2, QuienEnCurso
    <3>. PICK j \in Numeros(q) : j = instruccion.pagina
      BY <3>1 DEF EnCurso
    <3>2. Puesta(q, j) /\ MarcoDe(q, j) = marco
      BY <1>0, <2>2, <3>1 DEF Acceso
    <3>3. Reside(q, j)
      BY <1>0, <3>1, <3>2 DEF Listas
    <3>. QED
      BY <1>0, <1>1, <2>1, <2>2, <3>1, <3>2, <3>3 DEF Repartidos
  <2>. QED
    BY <1>3, <2>1, <2>2 DEF Limpia
<1>4. ASSUME NEW k \in Numeros(p) PROVE Palabra(p, k)' = Palabra(p, k)
  <2>1. p \in Vivos /\ p \in Vivos'
    BY <1>1 DEF Vivos
  <2>2. swap'[p][k] = IF Puesta(p, k) THEN principal[MarcoDe(p, k)] ELSE swap[p][k]
    BY <1>1, <1>3
  <2>. QED
    BY <1>1, <2>1, <2>2 DEF Palabra
<1>5. ASSUME NEW q \in Procesos \ {p}, NEW k \in Numeros(q) PROVE Palabra(q, k)' = Palabra(q, k)
  <2>1. pagina'[q] = pagina[q] /\ swap'[q] = swap[q] /\ principal' = principal
    BY <1>1 DEF Suelta
  <2>2. (Puesta(q, k)' <=> Puesta(q, k)) /\ MarcoDe(q, k)' = MarcoDe(q, k)
    BY <2>1 DEF Puesta, MarcoDe
  <2>. QED
    BY <1>2, <2>1, <2>2 DEF Palabra
<1>. QED
  BY <1>1, <1>4, <1>5, ContenidosIguales

\* The process that ends is left with nothing, and no other loses a word.
LEMMA FinalizarAbstracto ==
  ASSUME Dentro, Memoria, NEW p \in Procesos, Finalizar(p)
  PROVE  Contenidos' = [Contenidos EXCEPT ![p] = [n \in DOMAIN Contenidos[p] |-> 0]]
<1>1. /\ estado'[p] = "FIN" /\ \A q \in Procesos \ {p} : estado'[q] = estado[q]
      /\ config' = config /\ pagina' = pagina /\ swap' = swap /\ principal' = principal
  BY FinalizarPaso DEF Suelta
<1>2. \A q : Numeros(q)' = Numeros(q)
  BY <1>1, NumerosFijos
<1>3. Contenidos' = [q \in Procesos |-> [k \in Numeros(q) |-> Palabra(q, k)']]
  <2>1. Contenidos' = [q \in Procesos |-> [k \in Numeros(q)' |-> Palabra(q, k)']]
    BY DEF Contenidos, Contenido, Palabra, Puesta, MarcoDe
  <2>. QED
    BY <1>2, <2>1
<1>4. \A k : Palabra(p, k)' = 0
  BY <1>1 DEF Palabra, Vivos
<1>5. ASSUME NEW q \in Procesos \ {p}, NEW k \in Numeros(q) PROVE Palabra(q, k)' = Palabra(q, k)
  BY <1>1 DEF Palabra, Vivos, Puesta, MarcoDe
<1>6. Contenidos = [q \in Procesos |-> [k \in Numeros(q) |-> Palabra(q, k)]]
  BY DEF Contenidos, Contenido, Palabra, Puesta, MarcoDe
<1>. QED
  BY <1>3, <1>4, <1>5, <1>6

\* The steps that are not of a program change nothing it can see.
LEMMA OtrosIguales ==
  ASSUME Marcha, Coherente, [Next]_vars, ~Leer, ~Escribir, \A p \in Procesos : ~Finalizar(p)
  PROVE  Contenidos' = Contenidos
<1>0. Dentro /\ Memoria /\ Limpias /\ config' = config
  BY ConfigFija DEF Marcha, Coherente
<1>1. ASSUME NEW p \in Procesos, IniciarSwap(p) PROVE Contenidos' = Contenidos
  BY <1>0, <1>1, IniciarSwapIgual
<1>2. ASSUME NEW p \in Procesos, Suspender(p) PROVE Contenidos' = Contenidos
  BY <1>0, <1>2, SuspenderIgual
<1>3. ASSUME NEW p \in Procesos, FalloTLB(p) PROVE Contenidos' = Contenidos
  <2>1. /\ estado[p] = "EXEC" /\ punto = "traducir" /\ instruccion.pagina \in Numeros(p)
        /\ estado' = estado /\ \E m \in Marcos : Trae(p, instruccion.pagina, m)
    BY <1>0, <1>3, FalloDe DEF EnCurso, kernelVars
  <2>. QED
    BY <1>0, <2>1, TraeIgual
<1>4. ASSUME \A p \in Procesos : ~IniciarSwap(p), Mismas, principal' = principal, swap' = swap
      PROVE  Contenidos' = Contenidos
  BY <1>0, <1>4, VivosFijos, MismasIgual
<1>5. ASSUME Marcar PROVE Mismas /\ principal' = principal /\ swap' = swap
  BY <1>0, <1>5, MarcarModificadaDe DEF Marcar
<1>6. ASSUME UNCHANGED <<pagina, residentes, libres, principal, swap>>
      PROVE  Mismas /\ principal' = principal /\ swap' = swap
  BY <1>6 DEF Mismas, Puesta, MarcoDe
<1>. QED
  BY <1>1, <1>2, <1>3, <1>4, <1>5, <1>6, EnMarcha

\* The write changes the word of the page the instruction names, of the process
\* in the CPU, to the word it carries.
LEMMA EscribirAbstracto ==
  ASSUME Marcha, Coherente, Escribir, NEW p \in Procesos, estado[p] = "EXEC"
  PROVE  /\ instruccion.op = "WRITE" /\ punto = "acceder" /\ punto' = "marcar"
         /\ UNCHANGED <<estado, leido>>
         /\ Contenidos' = [Contenidos EXCEPT ![p][instruccion.pagina] = instruccion.valor]
<1>0. Dentro /\ Curso /\ Tipos /\ Listas /\ Repartidos /\ Memoria /\ Palabras /\ Acceso
  BY DEF Marcha, Coherente, Memoria
<1>1. /\ Mismas /\ UNCHANGED <<swap, estado, config>> /\ punto = "acceder"
      /\ marco \in Marcos /\ principal'[marco] = instruccion.valor
      /\ \A x \in Marcos \ {marco} : principal'[x] = principal[x]
  BY <1>0, EscribirDe
<1>9. EnCurso(p) /\ Puesta(p, instruccion.pagina) /\ MarcoDe(p, instruccion.pagina) = marco
  BY <1>0, <1>1 DEF Curso, Acceso
<1>. PICK n \in Numeros(p) : n = instruccion.pagina
  BY <1>9 DEF EnCurso
<1>. PICK v : v = instruccion.valor
  OBVIOUS
<1>2. Reside(p, n) /\ p \in Vivos
  BY <1>0, <1>9 DEF Listas, Vivos
<1>3. \A q : Numeros(q)' = Numeros(q)
  BY <1>1, NumerosFijos
<1>4. Contenidos' = [q \in Procesos |-> [k \in Numeros(q) |-> Palabra(q, k)']]
  <2>1. Contenidos' = [q \in Procesos |-> [k \in Numeros(q)' |-> Palabra(q, k)']]
    BY DEF Contenidos, Contenido, Palabra, Puesta, MarcoDe
  <2>. QED
    BY <1>3, <2>1
<1>5. Palabra(p, n)' = v
  BY <1>1, <1>2, <1>9 DEF Palabra, Mismas, Vivos
<1>6. ASSUME NEW q \in Procesos, NEW k \in Numeros(q), ~(q = p /\ k = n)
      PROVE  Palabra(q, k)' = Palabra(q, k)
  <2>1. /\ q \in Vivos' <=> q \in Vivos
        /\ (Puesta(q, k)' <=> Puesta(q, k)) /\ MarcoDe(q, k)' = MarcoDe(q, k)
    BY <1>1 DEF Vivos, Mismas
  <2>2. ASSUME q \in Vivos, Puesta(q, k) PROVE principal'[MarcoDe(q, k)] = principal[MarcoDe(q, k)]
    <3>1. Reside(q, k)
      BY <1>0, <2>2 DEF Listas, Vivos
    <3>2. MarcoDe(q, k) # marco
      BY <1>0, <1>2, <1>6, <1>9, <3>1 DEF Repartidos
    <3>3. MarcoDe(q, k) \in Marcos
      BY <1>0 DEF Tipos, MarcoDe, TPagina
    <3>. QED
      BY <1>1, <3>2, <3>3
  <2>. QED
    BY <1>1, <2>1, <2>2 DEF Palabra
<1>7. Contenidos = [q \in Procesos |-> [k \in Numeros(q) |-> Palabra(q, k)]]
  BY DEF Contenidos, Contenido, Palabra, Puesta, MarcoDe
<1>8. Contenidos' = [Contenidos EXCEPT ![p] = [Contenidos[p] EXCEPT ![n] = v]]
  BY <1>4, <1>5, <1>6, <1>7
<1>10. /\ instruccion.op = "WRITE" /\ punto = "acceder" /\ punto' = "marcar" /\ leido' = leido
  BY DEF Escribir
<1>. QED
  BY <1>1, <1>8, <1>10

\* A read gives the word of the page the instruction names, of the process in
\* the CPU.
LEMMA LeerAbstracto ==
  ASSUME Marcha, Coherente, Leer, NEW p \in Procesos, estado[p] = "EXEC"
  PROVE  /\ Contenidos' = Contenidos /\ estado' = estado
         /\ punto = "acceder" /\ punto' \in {"traducir", "fetch"}
         /\ instruccion.op \in {"READ", "COPY"}
         /\ leido' = Contenidos[p][instruccion.pagina]
         /\ instruccion' = IF instruccion.op = "COPY"
                           THEN [op |-> "WRITE", pagina |-> instruccion.destino, valor |-> leido']
                           ELSE SinInstruccion
<1>0. Dentro /\ Curso /\ Acceso
  BY DEF Marcha, Coherente
<1>1. /\ punto = "acceder" /\ leido' = principal[marco] /\ UNCHANGED <<paginacionVars, kernelVars>>
  BY DEF Leer, MemoriaLeer
<1>2. EnCurso(p)
  BY <1>0, <1>1 DEF Curso
<1>. PICK n \in Numeros(p) : n = instruccion.pagina
  BY <1>2 DEF EnCurso
<1>3. Puesta(p, n) /\ MarcoDe(p, n) = marco /\ p \in Vivos
  BY <1>0, <1>1, <1>2 DEF Acceso, Vivos
<1>4. Contenidos[p][n] = principal[marco]
  BY <1>3, ContenidosDe DEF Palabra
<1>5. Contenidos' = Contenidos
  <2>1. \A q \in Procesos : q \in Vivos' <=> q \in Vivos
    BY <1>1 DEF kernelVars, Vivos
  <2>2. Mismas /\ principal' = principal /\ swap' = swap /\ config' = config
    BY <1>1 DEF paginacionVars, tablasVars, marcosVars, Mismas, Puesta, MarcoDe
  <2>. QED
    BY <2>1, <2>2, MismasIgual
<1>6. /\ instruccion.op \in {"READ", "COPY"} /\ punto' \in {"traducir", "fetch"}
      /\ instruccion' = IF instruccion.op = "COPY"
                        THEN [op |-> "WRITE", pagina |-> instruccion.destino, valor |-> leido']
                        ELSE SinInstruccion
  BY DEF Leer
<1>. QED
  BY <1>1, <1>4, <1>5, <1>6 DEF kernelVars

\* Between two instructions there is none in course.
Ocioso == punto = "fetch" => instruccion = SinInstruccion

\* The last step of each instruction leaves none, and none is begun out of turn.
LEMMA OciosoSiempre == Spec => []Ocioso
<1>1. Init => Ocioso
  BY DEF Init, Ocioso
<1>2. ASSUME Ocioso, [Next]_vars PROVE Ocioso'
  <2>1. CASE UNCHANGED cpuVars
    BY <1>2, <2>1 DEF cpuVars, Ocioso
  <2>2. ASSUME NEW p \in Procesos, EjecutarProceso(p) PROVE Ocioso'
    BY <1>2, <2>2 DEF EjecutarProceso, Ocioso
  <2>3. ASSUME NEW p \in Procesos, Fetch(p) \/ FalloTLB(p) PROVE Ocioso'
    BY <2>3 DEF Fetch, FalloTLB, Ocioso
  <2>4. CASE AciertoTLB \/ Escribir \/ Marcar
    BY <2>4 DEF AciertoTLB, Escribir, Marcar, Ocioso
  <2>5. CASE Leer
    BY <2>5 DEF Leer, Ocioso
  <2>. QED
    BY <1>2, <2>1, <2>2, <2>3, <2>4, <2>5, PasosDeCPU
<1>. QED
  BY <1>1, <1>2, PTL DEF Spec

\* What the abstract memory sees of the processes and of the CPU.
Corren == Ciclo!Los("EXEC")
Vidas == [p \in Procesos |-> Vida(p)]
Orden == IF punto = "marcar" THEN SinInstruccion ELSE instruccion

\* The arrows of the life cycle that it sees: those that enter or leave the CPU,
\* and those of the end.
LEMMA FlechaAbstracta ==
  ASSUME Dentro, NEW p \in Procesos, NEW a \in Ciclo!EstadosDelCiclo, NEW b \in Ciclo!EstadosDelCiclo,
         Ciclo!Pasar(p, a, b)
  PROVE  /\ a # "EXEC" /\ b # "EXEC" => Corren' = Corren
         /\ a # "EXEC" /\ b = "EXEC" /\ Corren = {} => Corren' = {p}
         /\ a = "EXEC" => Corren = {p} /\ (b # "EXEC" => Corren' = {})
         /\ a \notin {"EXIT", "FIN"} => Vidas[p] = "vive"
         /\ a \notin {"EXIT", "FIN"} /\ b \notin {"EXIT", "FIN"} => Vidas' = Vidas
         /\ b = "EXIT" => Vidas' = [Vidas EXCEPT ![p] = "salio"]
         /\ a = "EXIT" /\ b = "FIN" => Vidas[p] = "salio" /\ Vidas' = [Vidas EXCEPT ![p] = "fin"]
<1>1. /\ estado[p] = a /\ estado'[p] = b
      /\ \A q \in Procesos \ {p} : estado'[q] = estado[q]
  BY Flecha DEF Dentro
<1>2. Corren = {q \in Procesos : estado[q] = "EXEC"} /\ Corren' = {q \in Procesos : estado'[q] = "EXEC"}
  BY DEF Corren, Ciclo!Los
<1>3. \A q, r \in Corren : q = r
  BY DEF Dentro, Ciclo!UnoEnCpu, Corren
<1>4. a # "EXEC" /\ b # "EXEC" => Corren' = Corren
  BY <1>1, <1>2
<1>5. a # "EXEC" /\ b = "EXEC" /\ Corren = {} => Corren' = {p}
  BY <1>1, <1>2
<1>6. a = "EXEC" => Corren = {p} /\ (b # "EXEC" => Corren' = {})
  BY <1>1, <1>2, <1>3
<1>7. /\ Vidas = [q \in Procesos |-> Vida(q)] /\ Vidas' = [q \in Procesos |-> Vida(q)']
      /\ \A q \in Procesos \ {p} : Vida(q)' = Vida(q)
  BY <1>1 DEF Vidas, Vida
<1>8. /\ a \notin {"EXIT", "FIN"} => Vida(p) = "vive"
      /\ b \notin {"EXIT", "FIN"} => Vida(p)' = "vive"
      /\ a = "EXIT" => Vida(p) = "salio"
      /\ b = "EXIT" => Vida(p)' = "salio"
      /\ b = "FIN" => Vida(p)' = "fin"
  BY <1>1 DEF Vida
<1>9. ASSUME NEW x, Vida(p)' = x PROVE Vidas' = [Vidas EXCEPT ![p] = x]
  BY <1>7, <1>9
<1>10. ASSUME Vida(p)' = Vida(p) PROVE Vidas' = Vidas
  BY <1>7, <1>10
<1>. QED
  BY <1>4, <1>5, <1>6, <1>7, <1>8, <1>9, <1>10

\* Who runs and who lives depends on the states only.
LEMMA VidasFijas ==
  ASSUME estado' = estado
  PROVE  Corren' = Corren /\ Vidas' = Vidas
BY DEF Corren, Ciclo!Los, Vidas, Vida

\* What the kernel does of the life of a process, but for its end, the abstract
\* memory does not see.
LEMMA KernelAbstracto ==
  ASSUME Dentro, NEW p \in Procesos, Kernel(p), ~Finalizar(p)
  PROVE  Corren' = Corren /\ Vidas' = Vidas /\ Orden' = Orden /\ leido' = leido
<1>1. Orden' = Orden /\ leido' = leido
  BY KernelNoTocaCPU DEF cpuVars, Orden
<1>2. ASSUME NEW a \in Ciclo!EstadosDelCiclo \ {"EXEC", "EXIT", "FIN"},
             NEW b \in Ciclo!EstadosDelCiclo \ {"EXEC", "EXIT", "FIN"}, Ciclo!Pasar(p, a, b)
      PROVE  Corren' = Corren /\ Vidas' = Vidas
  BY <1>2, FlechaAbstracta
<1>3. ASSUME NEW a \in {"FUERA", "NEW", "BLOCKED", "SUSPENDED_READY", "SUSPENDED_BLOCKED"},
             NEW b \in {"NEW", "READY", "SUSPENDED_BLOCKED", "SUSPENDED_READY"}, Ciclo!Pasar(p, a, b)
      PROVE  Corren' = Corren /\ Vidas' = Vidas
  BY <1>2, <1>3 DEF Ciclo!EstadosDelCiclo
<1>4. CASE IniciarTablas(p)
  BY <1>1, <1>4, VidasFijas DEF IniciarTablas
<1>5. CASE Llegar(p)
  BY <1>1, <1>3, <1>5 DEF Llegar, Ciclo!Llegar
<1>6. CASE IniciarSwap(p)
  BY <1>1, <1>3, <1>6 DEF IniciarSwap, Ciclo!Admitir
<1>7. CASE Suspender(p)
  BY <1>1, <1>3, <1>7 DEF Suspender, Ciclo!Suspender
<1>8. CASE Volver(p)
  BY <1>1, <1>3, <1>8 DEF Volver, Ciclo!Admitir, Ciclo!Despertar
<1>. QED
  BY <1>1, <1>4, <1>5, <1>6, <1>7, <1>8 DEF Kernel

\* An instruction is fetched of the pages that the process in the CPU has.
LEMMA PedirAbstracto ==
  ASSUME Marcha, Ocioso, NEW p \in Procesos, Fetch(p), Contenidos' = Contenidos
  PROVE  Abstracta!Pedir(p)
<1>1. /\ estado[p] = "EXEC" /\ punto = "fetch" /\ punto' = "traducir" /\ estado' = estado /\ leido' = leido
      /\ instruccion' \in Instrucciones(p)
  BY DEF Fetch, kernelVars
<1>2. Corren = {p}
  BY <1>1 DEF Marcha, Dentro, Ciclo!UnoEnCpu, Ciclo!Los, Corren
<1>3. Orden = SinInstruccion /\ Orden' = instruccion' /\ Corren' = Corren /\ Vidas' = Vidas
  BY <1>1, VidasFijas DEF Orden, Ocioso
<1>4. DOMAIN Contenidos[p] = Numeros(p)
  BY ContenidosDe
<1>. QED
  BY <1>1, <1>2, <1>3, <1>4
     DEF Abstracta!Pedir, Abstracta!Paginas, Abstracta!SinInstruccion, SinInstruccion, Instrucciones,
         Contenidos, Corren, Vidas, Orden

\* Each step of a program is the one of the abstract memory, of the process in
\* the CPU and the instruction it has; the end of a process is its end, and no
\* other step is seen.
LEMMA PasoAbstracto ==
  ASSUME Marcha, Coherente, Ocioso, [Next]_vars
  PROVE  [Abstracta!Next]_(Abstracta!vars)
<1>0. Dentro /\ Curso
  BY DEF Marcha
<1>1. ASSUME NEW p \in Procesos, estado[p] = "EXEC" PROVE Corren = {p}
  BY <1>0, <1>1 DEF Dentro, Ciclo!UnoEnCpu, Ciclo!Los, Corren
<1>2. CASE Leer
  <2>1. PICK p \in Procesos : estado[p] = "EXEC"
    BY <1>0, <1>2 DEF Leer, Curso
  <2>2. /\ Contenidos' = Contenidos /\ estado' = estado
        /\ punto = "acceder" /\ punto' \in {"traducir", "fetch"}
        /\ instruccion.op \in {"READ", "COPY"}
        /\ leido' = Contenidos[p][instruccion.pagina]
        /\ instruccion' = IF instruccion.op = "COPY"
                          THEN [op |-> "WRITE", pagina |-> instruccion.destino, valor |-> leido']
                          ELSE SinInstruccion
    BY <1>2, <2>1, LeerAbstracto
  <2>3. Orden = instruccion /\ Orden' = instruccion' /\ Corren = {p} /\ Corren' = Corren /\ Vidas' = Vidas
    BY <1>1, <2>1, <2>2, VidasFijas DEF Orden
  <2>4. Abstracta!Leer(p)
    BY <2>2, <2>3 DEF Abstracta!Leer, Abstracta!SinInstruccion, SinInstruccion, Contenidos, Corren, Vidas, Orden
  <2>. QED
    BY <2>4 DEF Abstracta!Next
<1>3. CASE Escribir
  <2>1. PICK p \in Procesos : estado[p] = "EXEC"
    BY <1>0, <1>3 DEF Escribir, Curso
  <2>2. /\ instruccion.op = "WRITE" /\ punto = "acceder" /\ punto' = "marcar"
        /\ UNCHANGED <<estado, leido>>
        /\ Contenidos' = [Contenidos EXCEPT ![p][instruccion.pagina] = instruccion.valor]
    BY <1>3, <2>1, EscribirAbstracto
  <2>3. Orden = instruccion /\ Orden' = SinInstruccion /\ Corren = {p} /\ Corren' = Corren /\ Vidas' = Vidas
    BY <1>1, <2>1, <2>2, VidasFijas DEF Orden, SinInstruccion
  <2>4. Abstracta!Escribir(p)
    BY <2>2, <2>3 DEF Abstracta!Escribir, Abstracta!SinInstruccion, SinInstruccion, Contenidos, Corren, Vidas, Orden
  <2>. QED
    BY <2>4 DEF Abstracta!Next
<1>4. ASSUME NEW p \in Procesos, Finalizar(p) PROVE Abstracta!Next
  <2>1. Contenidos' = [Contenidos EXCEPT ![p] = [n \in DOMAIN Contenidos[p] |-> 0]]
    BY <1>4, FinalizarAbstracto DEF Marcha, Coherente
  <2>2. leido' = leido /\ Orden' = Orden
    BY <1>4 DEF Finalizar, cpuVars, Orden
  <2>3. Ciclo!Pasar(p, "EXIT", "FIN")
    BY <1>4 DEF Finalizar, Ciclo!Terminar, Ciclo!Pasar
  <2>4. Corren' = Corren /\ Vidas[p] = "salio" /\ Vidas' = [Vidas EXCEPT ![p] = "fin"]
    BY <1>0, <2>3, FlechaAbstracta DEF Ciclo!EstadosDelCiclo
  <2>5. Abstracta!Terminar(p)
    BY <2>1, <2>2, <2>4
       DEF Abstracta!Terminar, Abstracta!Vacia, Abstracta!Paginas, Contenidos, Corren, Vidas, Orden
  <2>. QED
    BY <2>5 DEF Abstracta!Next
<1>5. CASE ~Leer /\ ~Escribir /\ \A p \in Procesos : ~Finalizar(p)
  <2>0. Contenidos' = Contenidos
    BY <1>5, OtrosIguales
  <2>1. ASSUME NEW p \in Procesos, EjecutarProceso(p) PROVE Abstracta!Next
    <3>1. Ciclo!Pasar(p, "READY", "EXEC") /\ Corren = {} /\ leido' = leido /\ Orden' = Orden
      BY <2>1 DEF EjecutarProceso, Ciclo!Despachar, Corren, Orden
    <3>2. Corren' = {p} /\ Vidas[p] = "vive" /\ Vidas' = Vidas
      BY <1>0, <3>1, FlechaAbstracta DEF Ciclo!EstadosDelCiclo
    <3>3. Abstracta!Entrar(p)
      BY <2>0, <3>1, <3>2 DEF Abstracta!Entrar, Contenidos, Corren, Vidas, Orden
    <3>. QED
      BY <3>3 DEF Abstracta!Next
  <2>2. ASSUME NEW p \in Procesos, DevolverProceso(p) PROVE Abstracta!Next
    <3>1. Orden = SinInstruccion /\ Orden' = Orden /\ leido' = leido
      BY <2>2 DEF DevolverProceso, cpuVars, Ocioso, Orden
    <3>2. \E b \in {"READY", "BLOCKED", "EXIT"} : Ciclo!Pasar(p, "EXEC", b)
      BY <2>2 DEF DevolverProceso, Ciclo!Desalojar, Ciclo!Bloquear, Ciclo!Terminar, Ciclo!Pasar
    <3>3. /\ Corren = {p} /\ Corren' = {}
          /\ Vidas' = Vidas \/ Vidas' = [Vidas EXCEPT ![p] = "salio"]
      BY <1>0, <3>2, FlechaAbstracta DEF Ciclo!EstadosDelCiclo
    <3>4. Abstracta!Dejar(p)
      BY <2>0, <3>1, <3>3
         DEF Abstracta!Dejar, Abstracta!SinInstruccion, SinInstruccion, Contenidos, Corren, Vidas, Orden
    <3>. QED
      BY <3>4 DEF Abstracta!Next
  <2>3. ASSUME NEW p \in Procesos, Fetch(p) PROVE Abstracta!Next
    <3>1. Abstracta!Pedir(p)
      BY <2>0, <2>3, PedirAbstracto
    <3>. QED
      BY <3>1 DEF Abstracta!Next
  <2>4. ASSUME Corren' = Corren, Vidas' = Vidas, Orden' = Orden, leido' = leido
        PROVE  UNCHANGED Abstracta!vars
    BY <2>0, <2>4 DEF Abstracta!vars, Contenidos, Corren, Vidas, Orden
  <2>5. ASSUME NEW p \in Procesos, Kernel(p) PROVE UNCHANGED Abstracta!vars
    BY <1>0, <1>5, <2>4, <2>5, KernelAbstracto
  <2>6. ASSUME NEW p \in Procesos, FalloTLB(p) PROVE UNCHANGED Abstracta!vars
    <3>1. UNCHANGED <<estado, instruccion, leido>> /\ punto = "traducir" /\ punto' = "acceder"
      BY <2>6 DEF FalloTLB, kernelVars
    <3>. QED
      BY <2>4, <3>1, VidasFijas DEF Orden
  <2>7. CASE AciertoTLB
    <3>1. UNCHANGED <<estado, instruccion, leido>> /\ punto = "traducir" /\ punto' = "acceder"
      BY <2>7 DEF AciertoTLB, kernelVars
    <3>. QED
      BY <2>4, <3>1, VidasFijas DEF Orden
  <2>8. CASE Marcar
    <3>1. UNCHANGED <<estado, leido>> /\ punto = "marcar" /\ punto' = "fetch" /\ instruccion' = SinInstruccion
      BY <2>8 DEF Marcar, kernelVars
    <3>. QED
      BY <2>4, <3>1, VidasFijas DEF Orden, SinInstruccion
  <2>9. CASE UNCHANGED vars
    <3>1. UNCHANGED <<estado, instruccion, leido, punto>>
      BY <2>9 DEF vars, kernelVars, cpuVars
    <3>. QED
      BY <2>4, <3>1, VidasFijas DEF Orden
  <2>. QED
    BY <1>5, <2>1, <2>2, <2>3, <2>5, <2>6, <2>7, <2>8, <2>9 DEF Next, CPU, MMU
<1>. QED
  BY <1>2, <1>3, <1>4, <1>5

\* Frames, swap, TLB, replacement and suspension implement a memory of its
\* own for each process: whoever runs and whatever is suspended, replaced or
\* ended meanwhile, an instruction of a process reads the word that process last
\* wrote to the page it names, writes that word and no other, and nothing else
\* changes a word.
THEOREM MemoriaRefina == Spec => ImplementaMemoria
<1>1. Init => Abstracta!Init
  <2>1. ASSUME Init
        PROVE  /\ \A p \in Procesos : Contenido(p) = [n \in Numeros(p) |-> 0] /\ Vida(p) = "vive"
               /\ Ciclo!Los("EXEC") = {}
               /\ (IF punto = "marcar" THEN SinInstruccion ELSE instruccion) = SinInstruccion /\ leido = 0
    <3>1. \A p \in Procesos : estado[p] = "FUERA"
      BY <2>1 DEF Init, Ciclo!Init
    <3>2. \A p \in Procesos : p \notin Vivos
      BY <3>1 DEF Vivos
    <3>3. \A p \in Procesos : Contenido(p) = [n \in Numeros(p) |-> 0]
      BY <3>2 DEF Contenido
    <3>4. Ciclo!Los("EXEC") = {} /\ \A p \in Procesos : Vida(p) = "vive"
      BY <3>1 DEF Ciclo!Los, Vida
    <3>. QED
      BY <2>1, <3>3, <3>4 DEF Init
  <2>2. ASSUME NEW p \in Procesos, Contenido(p) = [n \in Numeros(p) |-> 0]
        PROVE  [q \in Procesos |-> Contenido(q)][p] = Abstracta!Vacia(p)
    BY <2>2 DEF Abstracta!Vacia, Abstracta!Paginas
  <2>. QED
    BY <2>1, <2>2 DEF Abstracta!Init, Abstracta!SinInstruccion, SinInstruccion
<1>2. Dentro /\ Tablas /\ Curso /\ Coherente /\ Ocioso /\ [Next]_vars => [Abstracta!Next]_(Abstracta!vars)
  BY PasoAbstracto DEF Marcha
<1>. QED
  BY <1>1, <1>2, DentroSiempre, TablasSiempre, CursoSiempre, CoherenteSiempre, OciosoSiempre, PTL
     DEF Spec, ImplementaMemoria, Abstracta!Spec

=============================================================================
