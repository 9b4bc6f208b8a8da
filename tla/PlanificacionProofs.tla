------------------------- MODULE PlanificacionProofs --------------------------
(*****************************************************************************)
(* Proofs about Planificacion for any number of processes, any degree of     *)
(* multiprogramming and either algorithm. First the types, the balance of    *)
(* the semaphores, that no thread meets an empty queue, and that one process *)
(* runs at a time; then where the processes are: each is in one place, a     *)
(* queue or the hands of a thread, and a step carries at most one of them to *)
(* another; then what it promises of the memory and of the life cycle: a     *)
(* process is not run suspended nor without tables, the places in memory are *)
(* neither lost nor given twice, and every step is one of CicloDeVida.       *)
(*****************************************************************************)
EXTENDS PlanificacionCiclo, Lemas

\* What the operations on the program counters, the semaphores and the queues
\* do, and that they keep the types.
LEMMA AlIr ==
  ASSUME TypeOK, NEW h \in Hilos, NEW a, NEW b \in Puntos[h], Ir(h, a, b)
  PROVE  /\ TipoPc'
         /\ pc[h] = a /\ pc'[h] = b
         /\ \A g \in Hilos \ {h} : pc'[g] = pc[g]
BY DEF TypeOK, TipoPc, Ir

LEMMA AlEsperar ==
  ASSUME TypeOK, NEW s \in Semaforos, Esperar(s)
  PROVE  /\ sem' \in [Semaforos -> Nat]
         /\ sem[s] > 0 /\ sem'[s] = sem[s] - 1
         /\ \A t \in Semaforos \ {s} : sem'[t] = sem[t]
BY DEF TypeOK, Esperar

LEMMA AlPostear ==
  ASSUME TypeOK, NEW s \in Semaforos, Postear(s)
  PROVE  /\ sem' \in [Semaforos -> Nat]
         /\ sem'[s] = sem[s] + 1
         /\ \A t \in Semaforos \ {s} : sem'[t] = sem[t]
BY DEF TypeOK, Postear

LEMMA AlPush ==
  ASSUME TypeOK, NEW e \in Estados, NEW p \in Procesos, Push(e, p)
  PROVE  /\ cola' \in [Estados -> Seq(Procesos)]
         /\ Cuantos(e)' = Cuantos(e) + 1
         /\ \A f \in Estados \ {e} : cola'[f] = cola[f] /\ Cuantos(f)' = Cuantos(f)
<1>1. Append(cola[e], p) \in Seq(Procesos) /\ Len(Append(cola[e], p)) = Len(cola[e]) + 1
  BY AppendProperties DEF TypeOK
<1>. QED
  BY <1>1 DEF TypeOK, Push, Cuantos

LEMMA AlPop ==
  ASSUME TypeOK, NEW e \in Estados, cola[e] # <<>>, Pop(e)
  PROVE  /\ Head(cola[e]) \in Procesos
         /\ cola' \in [Estados -> Seq(Procesos)]
         /\ Cuantos(e)' = Cuantos(e) - 1
         /\ \A f \in Estados \ {e} : cola'[f] = cola[f] /\ Cuantos(f)' = Cuantos(f)
<1>1. /\ Head(cola[e]) \in Procesos
      /\ Tail(cola[e]) \in Seq(Procesos) /\ Len(Tail(cola[e])) = Len(cola[e]) - 1
  BY HeadTailProperties DEF TypeOK
<1>. QED
  BY <1>1 DEF TypeOK, Pop, Cuantos

LEMMA AlSacar ==
  ASSUME TypeOK, NEW e \in Estados, NEW p, SacarProceso(e, p)
  PROVE  /\ cola' \in [Estados -> Seq(Procesos)]
         /\ cola[e] = <<p>> => Cuantos(e) = 1 /\ Cuantos(e)' = 0
         /\ \A f \in Estados \ {e} : cola'[f] = cola[f] /\ Cuantos(f)' = Cuantos(f)
<1>1. RemoveFirst(cola[e], p) \in Seq(Procesos)
  BY SacarTipo DEF TypeOK
<1>2. /\ cola' \in [Estados -> Seq(Procesos)]
      /\ cola'[e] = RemoveFirst(cola[e], p)
      /\ \A f \in Estados \ {e} : cola'[f] = cola[f]
  BY <1>1 DEF TypeOK, SacarProceso
<1>3. ASSUME cola[e] = <<p>> PROVE Cuantos(e) = 1 /\ Cuantos(e)' = 0
  BY <1>2, <1>3, SacarUnico DEF Cuantos
<1>. QED
  BY <1>2, <1>3 DEF Cuantos

\* The place insert_sorted chooses is one of the list, or the one after it.
LEMMA LugarOrdenadoTipo ==
  ASSUME NEW s \in Seq(Procesos), NEW p
  PROVE  LugarOrdenado(s, p) \in 1..(Len(s) + 1)
<1>1. Len(s) \in Nat
  BY LenProperties
<1>2. CASE Mayores(s, p) = {}
  BY <1>1, <1>2 DEF LugarOrdenado
<1>3. CASE Mayores(s, p) # {}
  <2>1. Mayores(s, p) \in SUBSET Nat /\ Mayores(s, p) \subseteq 1..Len(s)
    BY DEF Mayores
  <2>2. Min(Mayores(s, p)) \in Mayores(s, p)
    BY <1>3, <2>1, MinimoDe
  <2>. QED
    BY <1>1, <1>3, <2>1, <2>2 DEF LugarOrdenado
<1>. QED
  BY <1>2, <1>3

LEMMA AlInsertar ==
  ASSUME TypeOK, NEW e \in Estados, NEW p \in Procesos, InsertSorted(e, p)
  PROVE  /\ cola' \in [Estados -> Seq(Procesos)]
         /\ Cuantos(e)' = Cuantos(e) + 1
         /\ \A f \in Estados \ {e} : cola'[f] = cola[f] /\ Cuantos(f)' = Cuantos(f)
<1>. DEFINE k == LugarOrdenado(cola[e], p)
            s == cola[e]
<1>1. s \in Seq(Procesos) /\ Len(s) \in Nat
  BY LenProperties DEF TypeOK
<1>2. k \in 1..(Len(s) + 1)
  BY <1>1, LugarOrdenadoTipo
<1>3. cola' = [cola EXCEPT ![e] = InsertAt(s, k, p)]
  BY DEF InsertSorted
<1>. HIDE DEF k
<1>4. InsertAt(s, k, p) \in Seq(Procesos) /\ Len(InsertAt(s, k, p)) = Len(s) + 1
  BY <1>1, <1>2, InsertarLargo
<1>. QED
  BY <1>3, <1>4 DEF TypeOK, Cuantos

\* The time blocked and the time that is left stay within their widths.
LEMMA TiemposTipo ==
  ASSUME NEW t \in Nat
  PROVE  Bloqueado(t) \in 0..TIEMPO_MAXIMO /\ Restante(t) \in 0..(MODULO - 1)
<1>1. /\ TIEMPO_MAXIMO \in Nat /\ MS_BETWEEN_IO_CHECK \in Nat
      /\ MODULO \in Nat /\ MODULO > 0
  BY ConstantesAssumption
<1>2. Bloqueado(t) \in 0..TIEMPO_MAXIMO
  BY <1>1 DEF Bloqueado
<1>3. Restante(t) \in 0..(MODULO - 1)
  BY <1>1 DEF Restante
<1>. QED
  BY <1>2, <1>3

\* Writing the page table or the suspension of a process keeps its type.
LEMMA ProcesoTipo ==
  ASSUME NEW r \in TProceso
  PROVE  /\ \A t \in Numeros \cup {NULL} : [r EXCEPT !.tabla_paginas = t] \in TProceso
         /\ \A b \in BOOLEAN : [r EXCEPT !.suspendido = b] \in TProceso
BY DEF TProceso

\* The head of a queue, and every element of it, is a process.
LEMMA CabezaTipo ==
  ASSUME TypeOK, NEW e \in Estados
  PROVE  /\ cola[e] # <<>> => Head(cola[e]) \in Procesos
         /\ \A k \in 1..Len(cola[e]) : cola[e][k] \in Procesos
<1>1. cola[e] \in Seq(Procesos)
  BY DEF TypeOK
<1>. QED
  BY <1>1, HeadTailProperties, ElementOfSeq

\* The quantities the balances add up are naturals, and a queue or a console
\* nobody touches keeps its own.
LEMMA NaturalesDe ==
  ASSUME TypeOK
  PROVE  /\ \A s \in Semaforos : sem[s] \in Nat
         /\ \A e \in Estados : Cuantos(e) \in Nat
         /\ Cardinality(EnNew) \in Nat
<1>1. \A e \in Estados : Cuantos(e) \in Nat
  BY LenProperties DEF TypeOK, Cuantos
<1>2. IsFiniteSet(EnNew)
  BY ConstantesAssumption, FS_Subset DEF EnNew
<1>. QED
  BY <1>1, <1>2, FS_CardinalityType DEF TypeOK

LEMMA VaciaDe ==
  ASSUME cola \in [Estados -> Seq(Procesos)], NEW e \in Estados
  PROVE  cola[e] = <<>> <=> Cuantos(e) = 0
BY EmptySeq, LenProperties DEF Cuantos

LEMMA QuietasDe ==
  /\ cola' = cola => \A e \in Estados : Cuantos(e)' = Cuantos(e)
  /\ consola' = consola => Cardinality(EnNew)' = Cardinality(EnNew)
BY DEF Cuantos, EnNew

\* A list of one element holds its head.
LEMMA UnicoDe ==
  ASSUME NEW s \in Seq(Procesos), Len(s) = 1
  PROVE  s = <<Head(s)>>
BY HeadTailProperties, EmptySeq, LenProperties

-----------------------------------------------------------------------------
\* A step keeps the types.
LEMMA TipoPaso ==
  ASSUME TypeOK, ManosSegunPunto, SinNulos, [Next]_vars
  PROVE  TypeOK'
<1>. USE DEF TypeOK, ManosSegunPunto, SinNulos, usuarioVars, cpuVars, redVars, memVars
<1>1. ASSUME NEW p \in Procesos, IniciarProceso(p) PROVE TypeOK'
  BY <1>1, AlPush DEF IniciarProceso, Estados, TipoPc
<1>2. ASSUME NEW p \in Procesos, AvisarEntrada(p) PROVE TypeOK'
  BY <1>2, AlPostear DEF AvisarEntrada, Semaforos, TipoPc
<1>3. CASE LargoEsperarGrado
  BY <1>3, AlIr, AlEsperar DEF LargoEsperarGrado, Hilos, Puntos, Semaforos, Estados
<1>4. CASE LargoEsperarEntrada
  BY <1>4, AlIr, AlEsperar DEF LargoEsperarEntrada, Hilos, Puntos, Semaforos, Estados
<1>5. CASE LargoSacarSuspendido
  BY <1>5, AlIr, AlPop DEF LargoSacarSuspendido, Hilos, Puntos, Estados
<1>6. CASE LargoSinSuspendidos
  BY <1>6, AlIr DEF LargoSinSuspendidos, Hilos, Puntos, Estados
<1>7. CASE LargoSacarNuevo
  BY <1>7, AlIr, AlPop DEF LargoSacarNuevo, Hilos, Puntos, Estados
<1>8. CASE LargoEnviarIniciar
  <2>1. mano["largo"] \in Procesos
    BY <1>8 DEF LargoEnviarIniciar, Ir, Hilos
  <2>2. pedidos' \in Seq(Pedidos)
    <3>1. [op |-> "INICIAR_PROCESO", arg |-> mano["largo"]] \in Pedidos
      BY <2>1 DEF Pedidos
    <3>. QED
      BY <1>8, <3>1, AppendProperties DEF LargoEnviarIniciar
  <2>. QED
    BY <1>8, <2>2, AlIr DEF LargoEnviarIniciar, Hilos, Puntos
<1>9. CASE LargoRecibirTabla
  <2>1. mano["largo"] \in Procesos
    BY <1>9 DEF LargoRecibirTabla, Ir, Hilos
  <2>2. Head(respuestas) \in Numeros /\ respuestas' \in Seq(Numeros)
    BY <1>9, HeadTailProperties DEF LargoRecibirTabla
  <2>3. [proc[mano["largo"]] EXCEPT !.tabla_paginas = Head(respuestas)] \in TProceso
    BY <2>1, <2>2, ProcesoTipo
  <2>4. proc' \in [Procesos -> TProceso]
    BY <1>9, <2>1, <2>3 DEF LargoRecibirTabla
  <2>. QED
    BY <1>9, <2>2, <2>4, AlIr DEF LargoRecibirTabla, Hilos, Puntos
<1>10. CASE LargoPushReady
  <2>1. mano["largo"] \in Procesos
    BY <1>10 DEF LargoPushReady, Ir, Hilos
  <2>2. [proc[mano["largo"]] EXCEPT !.suspendido = FALSE] \in TProceso
    BY <2>1, ProcesoTipo
  <2>3. proc' \in [Procesos -> TProceso]
    BY <1>10, <2>1, <2>2 DEF LargoPushReady
  <2>. QED
    BY <1>10, <2>1, <2>3, AlIr, AlPush DEF LargoPushReady, Hilos, Puntos, Estados
<1>11. CASE LargoPostReady
  BY <1>11, AlIr, AlPostear DEF LargoPostReady, Hilos, Puntos, Semaforos, Estados
<1>12. CASE CortoEsperarReady
  BY <1>12, AlIr, AlEsperar DEF CortoEsperarReady, Hilos, Puntos, Semaforos, Estados
<1>13. CASE CortoDesalojar
  BY <1>13, AlIr DEF CortoDesalojar, Hilos, Puntos, Estados
<1>14. CASE CortoNoDesalojar
  BY <1>14, AlIr DEF CortoNoDesalojar, Hilos, Puntos, Estados
<1>15. CASE CortoEsperarPlanificacion
  BY <1>15, AlIr, AlEsperar DEF CortoEsperarPlanificacion, Hilos, Puntos, Semaforos, Estados
<1>16. CASE CortoPopReady
  BY <1>16, AlIr, AlPop DEF CortoPopReady, Hilos, Puntos, Estados
<1>17. CASE CortoPushExec
  BY <1>17, AlIr, AlPush DEF CortoPushExec, Hilos, Puntos, Estados
<1>18. CASE CortoPostEjecutando
  BY <1>18, AlIr, AlPostear DEF CortoPostEjecutando, Hilos, Puntos, Semaforos, Estados
<1>19. CASE CpuEsperarEjecutando
  BY <1>19, AlIr, AlEsperar DEF CpuEsperarEjecutando, Hilos, Puntos, Semaforos, Estados
<1>20. CASE CpuEnviarProceso
  <2>1. Head(cola["EXEC"]) \in Procesos
    BY <1>20, HeadTailProperties DEF CpuEnviarProceso, Estados
  <2>. QED
    BY <1>20, <2>1, AlIr DEF CpuEnviarProceso, Hilos, Puntos
<1>21. CASE CpuRecibirPcb
  <2>1. mano["cpu"] \in Procesos
    BY <1>21 DEF CpuRecibirPcb, Ir, Hilos
  <2>2. devolucion \in Devoluciones
    BY <1>21 DEF CpuRecibirPcb
  <2>3. destino' \in {NULL, "EXIT", "READY", "BLOCKED"}
    BY <1>21, <2>2 DEF CpuRecibirPcb, Devoluciones
  <2>4. devolucion.estado = "BLOCKED" => devolucion.tiempo \in 0..(MODULO - 1)
    <3>1. TiemposIO \subseteq 0..(MODULO - 1)
      BY ConstantesAssumption
    <3>2. devolucion.estado = "BLOCKED" => devolucion.tiempo \in TiemposIO
      BY <2>2 DEF Devoluciones
    <3>. QED
      BY <3>1, <3>2
  <2>5. proc[mano["cpu"]] \in TProceso
    BY <2>1
  <2>6. proc[mano["cpu"]].estimacion_rafaga \in Estimaciones
    BY <2>5 DEF TProceso
  <2>7. PICK e \in Estimaciones :
          proc' = [proc EXCEPT ![mano["cpu"]] =
                     IF devolucion.estado = "BLOCKED"
                     THEN [@ EXCEPT !.bloqueo_restante = devolucion.tiempo,
                                    !.tiempo_bloqueado = 0, !.estimacion_rafaga = e]
                     ELSE [@ EXCEPT !.estimacion_rafaga = e]]
    BY <1>21, <2>6, Zenon DEF CpuRecibirPcb
  <2>8. [proc[mano["cpu"]] EXCEPT !.estimacion_rafaga = e] \in TProceso
    BY <2>5 DEF TProceso
  <2>9. devolucion.estado = "BLOCKED" =>
          [proc[mano["cpu"]] EXCEPT !.bloqueo_restante = devolucion.tiempo,
              !.tiempo_bloqueado = 0, !.estimacion_rafaga = e] \in TProceso
    <3>1. 0 \in 0..TIEMPO_MAXIMO
      BY ConstantesAssumption
    <3>. QED
      BY <2>4, <2>5, <3>1 DEF TProceso
  <2>10. proc' \in [Procesos -> TProceso]
    BY <2>1, <2>7, <2>8, <2>9
  <2>. QED
    BY <1>21, <2>3, <2>10, AlIr DEF CpuRecibirPcb, Hilos, Puntos
<1>22. CASE CpuSacarExec
  BY <1>22, AlIr, AlSacar DEF CpuSacarExec, Hilos, Puntos, Estados
<1>23. CASE CpuAReady
  BY <1>23, AlIr, AlInsertar DEF CpuAReady, Hilos, Puntos, Estados
<1>24. CASE CpuPostReady
  BY <1>24, AlIr, AlPostear DEF CpuPostReady, Hilos, Puntos, Semaforos, Estados
<1>25. CASE CpuABlocked
  BY <1>25, AlIr, AlPush DEF CpuABlocked, Hilos, Puntos, Estados
<1>26. CASE CpuPostBlocked
  BY <1>26, AlIr, AlPostear DEF CpuPostBlocked, Hilos, Puntos, Semaforos, Estados
<1>27. CASE CpuAExit
  BY <1>27, AlIr, AlPush DEF CpuAExit, Hilos, Puntos, Estados
<1>28. CASE CpuEnviarFinalizar
  <2>1. mano["cpu"] \in Procesos
    BY <1>28 DEF CpuEnviarFinalizar, Ir, Hilos
  <2>2. proc[mano["cpu"]].tabla_paginas \in Numeros \cup {NULL}
    BY <2>1 DEF TProceso
  <2>3. pedidos' \in Seq(Pedidos)
    <3>1. [op |-> "FINALIZAR_PROCESO", arg |-> proc[mano["cpu"]].tabla_paginas] \in Pedidos
      BY <2>2 DEF Pedidos
    <3>. QED
      BY <1>28, <3>1, AppendProperties DEF CpuEnviarFinalizar
  <2>. QED
    BY <1>28, <2>3, AlIr DEF CpuEnviarFinalizar, Hilos, Puntos
<1>29. CASE CpuRecibirFinalizar
  <2>1. respuestas' \in Seq(Numeros)
    BY <1>29, HeadTailProperties DEF CpuRecibirFinalizar
  <2>. QED
    BY <1>29, <2>1, AlIr DEF CpuRecibirFinalizar, Hilos, Puntos
<1>30. CASE CpuSacarExit
  <2>1. mano["cpu"] \in Procesos
    BY <1>30 DEF CpuSacarExit, Ir, Hilos
  <2>2. cola' \in [Estados -> Seq(Procesos)]
    BY <1>30, <2>1, AlSacar DEF CpuSacarExit, Estados
  <2>. QED
    BY <1>30, <2>1, <2>2, AlIr DEF CpuSacarExit, Hilos, Puntos
<1>31. CASE CpuPostMultiprogramacion
  BY <1>31, AlIr, AlPostear DEF CpuPostMultiprogramacion, Hilos, Puntos, Semaforos, Estados
<1>32. CASE CpuPostPlanificacion
  BY <1>32, AlIr, AlPostear DEF CpuPostPlanificacion, Hilos, Puntos, Semaforos, Estados
<1>33. CASE IoEsperarBlocked
  <2>1. cursor' \in Nat \ {0}
    BY <1>33 DEF IoEsperarBlocked
  <2>. QED
    BY <1>33, <2>1, AlIr, AlEsperar DEF IoEsperarBlocked, Hilos, Puntos, Semaforos
<1>34. CASE IoContarBloqueo
  <2>. DEFINE p == cola["BLOCKED"][cursor]
  <2>1. p \in Procesos
    <3>1. cola["BLOCKED"] \in Seq(Procesos) /\ cursor \in 1..Len(cola["BLOCKED"])
      BY <1>34, LenProperties DEF IoContarBloqueo, Estados
    <3>. QED
      BY <3>1, ElementOfSeq
  <2>2. cursor + 1 \in Nat \ {0}
    OBVIOUS
  <2>3. proc[p] \in TProceso
    BY <2>1
  <2>4. /\ Bloqueado(proc[p].tiempo_bloqueado) \in 0..TIEMPO_MAXIMO
        /\ proc[p].tabla_paginas \in Numeros \cup {NULL}
    <3>1. /\ proc[p].tiempo_bloqueado \in Nat
          /\ proc[p].tabla_paginas \in Numeros \cup {NULL}
      BY <2>3 DEF TProceso
    <3>. QED
      BY <3>1, TiemposTipo
  <2>5. [proc[p] EXCEPT !.tiempo_bloqueado = Bloqueado(@)] \in TProceso
    BY <2>3, <2>4 DEF TProceso
  <2>6. proc' \in [Procesos -> TProceso]
    BY <1>34, <2>1, <2>5 DEF IoContarBloqueo
  <2>7. [op |-> "SUSPENDER_PROCESO", arg |-> proc[p].tabla_paginas] \in Pedidos
    BY <2>4 DEF Pedidos
  <2>8. Append(pedidos, [op |-> "SUSPENDER_PROCESO", arg |-> proc[p].tabla_paginas])
          \in Seq(Pedidos)
    BY <2>7, AppendProperties
  <2>9. /\ TipoPc'
        /\ mano' \in [Hilos -> Procesos \cup {NULL}]
        /\ pedidos' \in Seq(Pedidos)
        /\ cursor' \in Nat \ {0}
    <3>1. CASE Vencido(p)
      <4>1. /\ Ir("io", "suspender", "recibir_suspender")
            /\ mano' = [mano EXCEPT !["io"] = p]
            /\ pedidos' = Append(pedidos, [op |-> "SUSPENDER_PROCESO",
                                           arg |-> proc[p].tabla_paginas])
            /\ cursor' = cursor
        BY <1>34, <3>1 DEF IoContarBloqueo
      <4>. QED
        BY <2>1, <2>8, <4>1, AlIr DEF Hilos, Puntos
    <3>2. CASE ~Vencido(p)
      BY <1>34, <2>2, <3>2, AlIr DEF IoContarBloqueo, Hilos, Puntos
    <3>. QED
      BY <3>1, <3>2
  <2>. QED
    BY <1>34, <2>6, <2>9 DEF IoContarBloqueo
<1>35. CASE IoRecibirSuspender
  <2>1. mano["io"] \in Procesos
    BY <1>35 DEF IoRecibirSuspender, Ir, Hilos
  <2>2. respuestas' \in Seq(Numeros)
    BY <1>35, HeadTailProperties DEF IoRecibirSuspender
  <2>3. [proc[mano["io"]] EXCEPT !.suspendido = TRUE] \in TProceso
    BY <2>1, ProcesoTipo
  <2>4. proc' \in [Procesos -> TProceso]
    BY <1>35, <2>1, <2>3 DEF IoRecibirSuspender
  <2>. QED
    BY <1>35, <2>2, <2>4, AlIr DEF IoRecibirSuspender, Hilos, Puntos
<1>36. CASE IoPostMultiprogramacion
  <2>1. cursor' \in Nat \ {0}
    BY <1>36 DEF IoPostMultiprogramacion
  <2>. QED
    BY <1>36, <2>1, AlIr, AlPostear DEF IoPostMultiprogramacion, Hilos, Puntos, Semaforos
<1>37. CASE IoPostBlocked
  <2>1. cursor' \in Nat \ {0}
    BY <1>37 DEF IoPostBlocked
  <2>. QED
    BY <1>37, <2>1, AlIr, AlPostear DEF IoPostBlocked, Hilos, Puntos, Semaforos
<1>38. CASE IoDormir
  <2>. DEFINE p == Head(cola["BLOCKED"])
  <2>1. p \in Procesos
    BY <1>38, HeadTailProperties DEF IoDormir, Estados
  <2>2. proc[p] \in TProceso
    BY <2>1
  <2>3. Restante(proc[p].bloqueo_restante) \in 0..(MODULO - 1)
    <3>1. proc[p].bloqueo_restante \in Nat
      BY <2>2 DEF TProceso
    <3>. QED
      BY <3>1, TiemposTipo
  <2>4. [proc[p] EXCEPT !.bloqueo_restante = Restante(@)] \in TProceso
    BY <2>2, <2>3 DEF TProceso
  <2>5. proc' \in [Procesos -> TProceso]
    BY <1>38, <2>1, <2>4 DEF IoDormir
  <2>6. TipoPc'
    <3>1. CASE Restante(proc[p].bloqueo_restante) > 0
      BY <1>38, <3>1, AlIr DEF IoDormir, Hilos, Puntos
    <3>2. CASE ~(Restante(proc[p].bloqueo_restante) > 0)
      BY <1>38, <3>2, AlIr DEF IoDormir, Hilos, Puntos
    <3>. QED
      BY <3>1, <3>2
  <2>. QED
    BY <1>38, <2>5, <2>6 DEF IoDormir
<1>39. CASE IoPopBlocked
  BY <1>39, AlIr, AlPop DEF IoPopBlocked, Hilos, Puntos, Estados
<1>40. CASE IoTomarBlocked
  BY <1>40, AlIr, AlEsperar DEF IoTomarBlocked, Hilos, Puntos, Semaforos, Estados
<1>41. CASE IoPushSuspendido
  BY <1>41, AlIr, AlPush DEF IoPushSuspendido, Hilos, Puntos, Estados
<1>42. CASE IoPostEntrando
  BY <1>42, AlIr, AlPostear DEF IoPostEntrando, Hilos, Puntos, Semaforos, Estados
<1>43. CASE IoPushReady
  BY <1>43, AlIr, AlPush DEF IoPushReady, Hilos, Puntos, Estados
<1>44. CASE IoPostReady
  BY <1>44, AlIr, AlPostear DEF IoPostReady, Hilos, Puntos, Semaforos, Estados
<1>45. CASE DevolverProceso
  <2>1. dispatch \in Procesos
    BY <1>45 DEF DevolverProceso
  <2>2. devolucion' \in Devoluciones
    BY <1>45 DEF DevolverProceso, Devoluciones
  <2>3. quedan' \in [Procesos -> 0..MaxIO]
    <3>1. quedan[dispatch] \in 0..MaxIO /\ MaxIO \in Nat
      BY <2>1, ConstantesAssumption
    <3>2. quedan[dispatch] > 0 => quedan[dispatch] - 1 \in 0..MaxIO
      BY <3>1
    <3>. QED
      BY <1>45, <2>1, <3>2 DEF DevolverProceso
  <2>. QED
    BY <1>45, <2>2, <2>3 DEF DevolverProceso, TipoPc
<1>46. CASE MemoriaIniciar
  <2>1. Head(pedidos) \in Pedidos /\ Tail(pedidos) \in Seq(Pedidos)
    BY <1>46, HeadTailProperties DEF MemoriaIniciar
  <2>2. Head(pedidos).arg \in Procesos
    BY <1>46, <2>1 DEF MemoriaIniciar, Pedidos
  <2>3. \A r \in Numeros : Append(respuestas, r) \in Seq(Numeros)
    BY AppendProperties
  <2>4. "-1" \in Numeros /\ Procesos \subseteq Numeros
    BY DEF Numeros, Codigos
  <2>5. respuestas' \in Seq(Numeros) /\ tablas' \subseteq Procesos /\ trabada' \in BOOLEAN
    BY <1>46, <2>2, <2>3, <2>4 DEF MemoriaIniciar, Responder
  <2>. QED
    BY <1>46, <2>1, <2>5 DEF MemoriaIniciar, TipoPc, Responder
<1>47. CASE MemoriaCambiar
  <2>1. Head(pedidos) \in Pedidos /\ Tail(pedidos) \in Seq(Pedidos)
    BY <1>47, HeadTailProperties DEF MemoriaCambiar
  <2>2. Head(pedidos).op \in Numeros
    BY <1>47, <2>1 DEF MemoriaCambiar, Pedidos, Numeros, Codigos
  <2>3. Append(respuestas, Head(pedidos).op) \in Seq(Numeros)
    BY <2>2, AppendProperties
  <2>. QED
    BY <1>47, <2>1, <2>3 DEF MemoriaCambiar, TipoPc, Responder
<1>48. CASE UNCHANGED vars
  BY <1>48 DEF vars, TipoPc
<1>. QED
  BY <1>1, <1>2, <1>3, <1>4, <1>5, <1>6, <1>7, <1>8, <1>9, <1>10, <1>11, <1>12, <1>13,
     <1>14, <1>15, <1>16, <1>17, <1>18, <1>19, <1>20, <1>21, <1>22, <1>23, <1>24, <1>25,
     <1>26, <1>27, <1>28, <1>29, <1>30, <1>31, <1>32, <1>33, <1>34, <1>35, <1>36, <1>37,
     <1>38, <1>39, <1>40, <1>41, <1>42, <1>43, <1>44, <1>45, <1>46, <1>47, <1>48
     DEF Next, Consola, Largo, Corto, Cpu, Io, Memoria, Reposo

\* A step keeps the hands in agreement with the program counters.
LEMMA ManosPaso ==
  ASSUME TypeOK, ManosSegunPunto, SinNulos, [Next]_vars
  PROVE  ManosSegunPunto'
<1>. USE DEF ManosSegunPunto, cpuVars
<1>0. mano \in [Hilos -> Procesos \cup {NULL}] /\ NULL \notin Procesos
  BY ConstantesAssumption DEF TypeOK
<1>1. ASSUME NEW p \in Procesos, IniciarProceso(p) PROVE ManosSegunPunto'
  BY <1>1, AlPush DEF IniciarProceso, Estados
<1>2. ASSUME NEW p \in Procesos, AvisarEntrada(p) PROVE ManosSegunPunto'
  BY <1>2, AlPostear DEF AvisarEntrada, Semaforos
<1>3. CASE LargoEsperarGrado
  BY <1>3, AlIr DEF LargoEsperarGrado, Hilos, Puntos
<1>4. CASE LargoEsperarEntrada
  BY <1>4, AlIr DEF LargoEsperarEntrada, Hilos, Puntos
<1>5. CASE LargoSacarSuspendido
  BY <1>5, AlIr, CabezaTipo, <1>0 DEF LargoSacarSuspendido, Hilos, Puntos, Estados
<1>6. CASE LargoSinSuspendidos
  BY <1>6, AlIr DEF LargoSinSuspendidos, Hilos, Puntos
<1>7. CASE LargoSacarNuevo
  BY <1>7, AlIr, CabezaTipo, <1>0 DEF LargoSacarNuevo, Hilos, Puntos, Estados
<1>8. CASE LargoEnviarIniciar
  BY <1>8, AlIr DEF LargoEnviarIniciar, Hilos, Puntos
<1>9. CASE LargoRecibirTabla
  BY <1>9, AlIr DEF LargoRecibirTabla, Hilos, Puntos
<1>10. CASE LargoPushReady
  BY <1>10, AlIr, <1>0 DEF LargoPushReady, Hilos, Puntos
<1>11. CASE LargoPostReady
  BY <1>11, AlIr DEF LargoPostReady, Hilos, Puntos
<1>12. CASE CortoEsperarReady
  BY <1>12, AlIr DEF CortoEsperarReady, Hilos, Puntos
<1>13. CASE CortoDesalojar
  BY <1>13, AlIr DEF CortoDesalojar, Hilos, Puntos
<1>14. CASE CortoNoDesalojar
  BY <1>14, AlIr DEF CortoNoDesalojar, Hilos, Puntos
<1>15. CASE CortoEsperarPlanificacion
  BY <1>15, AlIr DEF CortoEsperarPlanificacion, Hilos, Puntos
<1>16. CASE CortoPopReady
  BY <1>16, AlIr, CabezaTipo, <1>0 DEF CortoPopReady, Hilos, Puntos, Estados
<1>17. CASE CortoPushExec
  BY <1>17, AlIr, <1>0 DEF CortoPushExec, Hilos, Puntos
<1>18. CASE CortoPostEjecutando
  BY <1>18, AlIr DEF CortoPostEjecutando, Hilos, Puntos
<1>19. CASE CpuEsperarEjecutando
  BY <1>19, AlIr DEF CpuEsperarEjecutando, Hilos, Puntos
<1>20. CASE CpuEnviarProceso
  BY <1>20, AlIr, CabezaTipo, <1>0 DEF CpuEnviarProceso, Hilos, Puntos, Estados
<1>21. CASE CpuRecibirPcb
  <2>1. /\ pc["cpu"] = "recibir_pcb" /\ pc'["cpu"] = "sacar_exec"
        /\ \A g \in Hilos \ {"cpu"} : pc'[g] = pc[g]
    BY <1>21, AlIr DEF CpuRecibirPcb, Hilos, Puntos
  <2>2. UNCHANGED <<mano, dispatch>> /\ devolucion # NULL /\ devolucion' = NULL
    BY <1>21 DEF CpuRecibirPcb
  <2>. QED
    BY <2>1, <2>2 DEF Hilos
<1>22. CASE CpuSacarExec
  BY <1>22, AlIr DEF CpuSacarExec, Hilos, Puntos
<1>23. CASE CpuAReady
  BY <1>23, AlIr, <1>0 DEF CpuAReady, Hilos, Puntos
<1>24. CASE CpuPostReady
  BY <1>24, AlIr DEF CpuPostReady, Hilos, Puntos
<1>25. CASE CpuABlocked
  BY <1>25, AlIr, <1>0 DEF CpuABlocked, Hilos, Puntos
<1>26. CASE CpuPostBlocked
  BY <1>26, AlIr DEF CpuPostBlocked, Hilos, Puntos
<1>27. CASE CpuAExit
  BY <1>27, AlIr DEF CpuAExit, Hilos, Puntos
<1>28. CASE CpuEnviarFinalizar
  BY <1>28, AlIr DEF CpuEnviarFinalizar, Hilos, Puntos
<1>29. CASE CpuRecibirFinalizar
  BY <1>29, AlIr DEF CpuRecibirFinalizar, Hilos, Puntos
<1>30. CASE CpuSacarExit
  BY <1>30, AlIr, <1>0 DEF CpuSacarExit, Hilos, Puntos
<1>31. CASE CpuPostMultiprogramacion
  BY <1>31, AlIr DEF CpuPostMultiprogramacion, Hilos, Puntos
<1>32. CASE CpuPostPlanificacion
  BY <1>32, AlIr DEF CpuPostPlanificacion, Hilos, Puntos
<1>33. CASE IoEsperarBlocked
  BY <1>33, AlIr DEF IoEsperarBlocked, Hilos, Puntos
<1>34. CASE IoContarBloqueo
  <2>. DEFINE p == cola["BLOCKED"][cursor]
  <2>1. p # NULL
    <3>1. cola["BLOCKED"] \in Seq(Procesos) /\ cursor \in 1..Len(cola["BLOCKED"])
      BY <1>34, LenProperties DEF IoContarBloqueo, Estados, TypeOK
    <3>. QED
      BY <3>1, <1>0, ElementOfSeq
  <2>2. CASE Vencido(p)
    BY <1>34, <2>1, <2>2, AlIr, <1>0 DEF IoContarBloqueo, Hilos, Puntos
  <2>3. CASE ~Vencido(p)
    BY <1>34, <2>3, AlIr DEF IoContarBloqueo, Hilos, Puntos
  <2>. QED
    BY <2>2, <2>3
<1>35. CASE IoRecibirSuspender
  BY <1>35, AlIr, <1>0 DEF IoRecibirSuspender, Hilos, Puntos
<1>36. CASE IoPostMultiprogramacion
  BY <1>36, AlIr DEF IoPostMultiprogramacion, Hilos, Puntos
<1>37. CASE IoPostBlocked
  BY <1>37, AlIr DEF IoPostBlocked, Hilos, Puntos
<1>38. CASE IoDormir
  BY <1>38, AlIr, CabezaTipo DEF IoDormir, Hilos, Puntos, Estados
<1>39. CASE IoPopBlocked
  BY <1>39, AlIr, CabezaTipo, <1>0 DEF IoPopBlocked, Hilos, Puntos, Estados
<1>40. CASE IoTomarBlocked
  BY <1>40, AlIr DEF IoTomarBlocked, Hilos, Puntos
<1>41. CASE IoPushSuspendido
  BY <1>41, AlIr, <1>0 DEF IoPushSuspendido, Hilos, Puntos
<1>42. CASE IoPostEntrando
  BY <1>42, AlIr DEF IoPostEntrando, Hilos, Puntos
<1>43. CASE IoPushReady
  BY <1>43, AlIr, <1>0 DEF IoPushReady, Hilos, Puntos
<1>44. CASE IoPostReady
  BY <1>44, AlIr DEF IoPostReady, Hilos, Puntos
<1>45. CASE DevolverProceso
  BY <1>45 DEF DevolverProceso
<1>46. CASE MemoriaIniciar
  BY <1>46 DEF MemoriaIniciar, Responder
<1>47. CASE MemoriaCambiar
  BY <1>47 DEF MemoriaCambiar, Responder
<1>48. CASE UNCHANGED vars
  BY <1>48 DEF vars
<1>. QED
  BY <1>1, <1>2, <1>3, <1>4, <1>5, <1>6, <1>7, <1>8, <1>9, <1>10, <1>11, <1>12, <1>13,
     <1>14, <1>15, <1>16, <1>17, <1>18, <1>19, <1>20, <1>21, <1>22, <1>23, <1>24, <1>25,
     <1>26, <1>27, <1>28, <1>29, <1>30, <1>31, <1>32, <1>33, <1>34, <1>35, <1>36, <1>37,
     <1>38, <1>39, <1>40, <1>41, <1>42, <1>43, <1>44, <1>45, <1>46, <1>47, <1>48
     DEF Next, Consola, Largo, Corto, Cpu, Io, Memoria, Reposo


\* A step keeps the semaphores in balance.
LEMMA BalancePaso ==
  ASSUME Inductiva, SinNulos, [Next]_vars
  PROVE  SemaforosEnBalance'
<1>. USE DEF SemaforosEnBalance, ReadyEnBalance, BlockedEnBalance, EntradaEnBalance,
             TurnoEnBalance, EjecutandoEnBalance, En, Uno, usuarioVars,
             Hilos, Puntos, Semaforos, Estados
<1>0. TypeOK /\ SemaforosEnBalance
  BY DEF Inductiva
<1>n. /\ sem["ready"] \in Nat /\ sem["blocked"] \in Nat /\ sem["entrando_a_ready"] \in Nat
      /\ sem["planificacion"] \in Nat /\ sem["ejecutando"] \in Nat
      /\ \A e \in Estados : Cuantos(e) \in Nat
      /\ Cardinality(EnNew) \in Nat
  BY <1>0, NaturalesDe
<1>m. /\ ManosSegunPunto /\ ColasSegunPunto
      /\ mano \in [Hilos -> Procesos \cup {NULL}]
      /\ consola \in [Procesos -> {"conectada", "en_new", "lista"}]
  BY DEF Inductiva, TypeOK
<1>1. ASSUME NEW p \in Procesos, IniciarProceso(p) PROVE SemaforosEnBalance'
  <2>1. p \notin EnNew /\ EnNew' = EnNew \cup {p}
    BY <1>m, <1>1 DEF IniciarProceso, EnNew
  <2>2. IsFiniteSet(EnNew)
    BY ConstantesAssumption, FS_Subset DEF EnNew
  <2>3. Cardinality(EnNew)' = Cardinality(EnNew) + 1
    BY <2>1, <2>2, FS_AddElement
  <2>4. pc' = pc /\ sem' = sem /\ Push("NEW", p)
    BY <1>1 DEF IniciarProceso
  <2>5. /\ Cuantos("NEW")' = Cuantos("NEW") + 1
        /\ \A f \in Estados \ {"NEW"} : Cuantos(f)' = Cuantos(f)
    BY <1>0, <2>4, AlPush
  <2>. QED
    BY <1>0, <1>n, <2>3, <2>4, <2>5
<1>2. ASSUME NEW p \in Procesos, AvisarEntrada(p) PROVE SemaforosEnBalance'
  <2>1. p \in EnNew /\ EnNew' = EnNew \ {p}
    BY <1>m, <1>2 DEF AvisarEntrada, EnNew
  <2>2. IsFiniteSet(EnNew)
    BY ConstantesAssumption, FS_Subset DEF EnNew
  <2>3. Cardinality(EnNew)' = Cardinality(EnNew) - 1
    BY <2>1, <2>2, FS_RemoveElement
  <2>4. pc' = pc /\ cola' = cola /\ Postear("entrando_a_ready")
    BY <1>2 DEF AvisarEntrada
  <2>5. /\ sem'["entrando_a_ready"] = sem["entrando_a_ready"] + 1
        /\ \A s \in Semaforos \ {"entrando_a_ready"} : sem'[s] = sem[s]
        /\ \A f \in Estados : Cuantos(f)' = Cuantos(f)
    BY <1>0, <2>4, QuietasDe, AlPostear
  <2>. QED
    BY <1>0, <1>n, <2>3, <2>4, <2>5
<1>3. CASE LargoEsperarGrado
  BY <1>3, <1>0, AlIr, AlEsperar, QuietasDe, NaturalesDe DEF LargoEsperarGrado
<1>4. CASE LargoEsperarEntrada
  BY <1>4, <1>0, AlIr, AlEsperar, QuietasDe, NaturalesDe DEF LargoEsperarEntrada
<1>5. CASE LargoSacarSuspendido
  <2>1. /\ pc["largo"] = "pop_suspendido" /\ pc'["largo"] = "push_ready"
        /\ pc'["corto"] = pc["corto"] /\ pc'["cpu"] = pc["cpu"] /\ pc'["io"] = pc["io"]
        /\ sem' = sem
        /\ Cardinality(EnNew)' = Cardinality(EnNew)
        /\ Cuantos("SUSPENDED_READY")' = Cuantos("SUSPENDED_READY") - 1
        /\ \A f \in Estados \ {"SUSPENDED_READY"} : Cuantos(f)' = Cuantos(f)
    BY <1>5, <1>0, AlPop, AlIr, QuietasDe DEF LargoSacarSuspendido
  <2>. QED
    BY <1>0, <1>n, <2>1
<1>6. CASE LargoSinSuspendidos
  <2>1. /\ pc["largo"] = "pop_suspendido" /\ pc'["largo"] = "pop_nuevo"
        /\ pc'["corto"] = pc["corto"] /\ pc'["cpu"] = pc["cpu"] /\ pc'["io"] = pc["io"]
        /\ sem' = sem
        /\ Cardinality(EnNew)' = Cardinality(EnNew)
        /\ \A f \in Estados : Cuantos(f)' = Cuantos(f)
    BY <1>6, <1>0, AlIr, QuietasDe DEF LargoSinSuspendidos
  <2>. QED
    BY <1>0, <1>n, <2>1
<1>7. CASE LargoSacarNuevo
  <2>1. /\ pc["largo"] = "pop_nuevo" /\ pc'["largo"] = "enviar_iniciar"
        /\ pc'["corto"] = pc["corto"] /\ pc'["cpu"] = pc["cpu"] /\ pc'["io"] = pc["io"]
        /\ sem' = sem
        /\ Cardinality(EnNew)' = Cardinality(EnNew)
        /\ Cuantos("NEW")' = Cuantos("NEW") - 1
        /\ \A f \in Estados \ {"NEW"} : Cuantos(f)' = Cuantos(f)
    BY <1>7, <1>0, AlPop, AlIr, QuietasDe DEF LargoSacarNuevo
  <2>. QED
    BY <1>0, <1>n, <2>1
<1>8. CASE LargoEnviarIniciar
  <2>1. /\ pc["largo"] = "enviar_iniciar" /\ pc'["largo"] = "recibir_iniciar"
        /\ pc'["corto"] = pc["corto"] /\ pc'["cpu"] = pc["cpu"] /\ pc'["io"] = pc["io"]
        /\ sem' = sem
        /\ Cardinality(EnNew)' = Cardinality(EnNew)
        /\ \A f \in Estados : Cuantos(f)' = Cuantos(f)
    BY <1>8, <1>0, AlIr, QuietasDe DEF LargoEnviarIniciar
  <2>. QED
    BY <1>0, <1>n, <2>1
<1>9. CASE LargoRecibirTabla
  <2>1. /\ pc["largo"] = "recibir_iniciar" /\ pc'["largo"] = "push_ready"
        /\ pc'["corto"] = pc["corto"] /\ pc'["cpu"] = pc["cpu"] /\ pc'["io"] = pc["io"]
        /\ sem' = sem
        /\ Cardinality(EnNew)' = Cardinality(EnNew)
        /\ \A f \in Estados : Cuantos(f)' = Cuantos(f)
    BY <1>9, <1>0, AlIr, QuietasDe DEF LargoRecibirTabla
  <2>. QED
    BY <1>0, <1>n, <2>1
<1>10. CASE LargoPushReady
  <2>1. mano["largo"] \in Procesos
    BY <1>m, <1>10 DEF LargoPushReady, ManosSegunPunto, Ir
  <2>2. /\ pc["largo"] = "push_ready" /\ pc'["largo"] = "post_ready"
        /\ pc'["corto"] = pc["corto"] /\ pc'["cpu"] = pc["cpu"] /\ pc'["io"] = pc["io"]
        /\ sem' = sem
        /\ Cardinality(EnNew)' = Cardinality(EnNew)
        /\ Cuantos("READY")' = Cuantos("READY") + 1
        /\ \A f \in Estados \ {"READY"} : Cuantos(f)' = Cuantos(f)
    BY <1>10, <1>0, AlPush, <2>1, AlIr, QuietasDe DEF LargoPushReady
  <2>. QED
    BY <1>0, <1>n, <2>2
<1>11. CASE LargoPostReady
  BY <1>11, <1>0, AlIr, AlPostear, QuietasDe, NaturalesDe DEF LargoPostReady
<1>12. CASE CortoEsperarReady
  BY <1>12, <1>0, AlIr, AlEsperar, QuietasDe, NaturalesDe DEF CortoEsperarReady
<1>13. CASE CortoDesalojar
  <2>1. /\ pc["corto"] = "desalojar" /\ pc'["corto"] = "planificacion"
        /\ pc'["largo"] = pc["largo"] /\ pc'["cpu"] = pc["cpu"] /\ pc'["io"] = pc["io"]
        /\ sem' = sem
        /\ Cardinality(EnNew)' = Cardinality(EnNew)
        /\ \A f \in Estados : Cuantos(f)' = Cuantos(f)
    BY <1>13, <1>0, AlIr, QuietasDe DEF CortoDesalojar
  <2>. QED
    BY <1>0, <1>n, <2>1
<1>14. CASE CortoNoDesalojar
  <2>1. /\ pc["corto"] = "desalojar" /\ pc'["corto"] = "planificacion"
        /\ pc'["largo"] = pc["largo"] /\ pc'["cpu"] = pc["cpu"] /\ pc'["io"] = pc["io"]
        /\ sem' = sem
        /\ Cardinality(EnNew)' = Cardinality(EnNew)
        /\ \A f \in Estados : Cuantos(f)' = Cuantos(f)
    BY <1>14, <1>0, AlIr, QuietasDe DEF CortoNoDesalojar
  <2>. QED
    BY <1>0, <1>n, <2>1
<1>15. CASE CortoEsperarPlanificacion
  <2>1. /\ pc["corto"] = "planificacion" /\ pc'["corto"] = "pop_ready"
        /\ pc'["largo"] = pc["largo"] /\ pc'["cpu"] = pc["cpu"] /\ pc'["io"] = pc["io"]
        /\ sem'["planificacion"] = sem["planificacion"] - 1
        /\ \A s \in Semaforos \ {"planificacion"} : sem'[s] = sem[s]
        /\ Cardinality(EnNew)' = Cardinality(EnNew)
        /\ \A f \in Estados : Cuantos(f)' = Cuantos(f)
    BY <1>15, <1>0, AlEsperar, AlIr, QuietasDe DEF CortoEsperarPlanificacion
  <2>2. ReadyEnBalance'
    BY <1>0, <1>n, <2>1
  <2>3. BlockedEnBalance' /\ EntradaEnBalance'
    BY <1>0, <1>n, <2>1
  <2>4. TurnoEnBalance' /\ EjecutandoEnBalance'
    BY <1>0, <1>n, <2>1
  <2>. QED
    BY <2>2, <2>3, <2>4
<1>16. CASE CortoPopReady
  <2>1. /\ pc["corto"] = "pop_ready" /\ pc'["corto"] = "push_exec"
        /\ pc'["largo"] = pc["largo"] /\ pc'["cpu"] = pc["cpu"] /\ pc'["io"] = pc["io"]
        /\ sem' = sem
        /\ Cardinality(EnNew)' = Cardinality(EnNew)
        /\ Cuantos("READY")' = Cuantos("READY") - 1
        /\ \A f \in Estados \ {"READY"} : Cuantos(f)' = Cuantos(f)
    BY <1>16, <1>0, AlPop, AlIr, QuietasDe DEF CortoPopReady
  <2>. QED
    BY <1>0, <1>n, <2>1
<1>17. CASE CortoPushExec
  <2>1. mano["corto"] \in Procesos
    BY <1>m, <1>17 DEF CortoPushExec, ManosSegunPunto, Ir
  <2>2. /\ pc["corto"] = "push_exec" /\ pc'["corto"] = "post_ejecutando"
        /\ pc'["largo"] = pc["largo"] /\ pc'["cpu"] = pc["cpu"] /\ pc'["io"] = pc["io"]
        /\ sem' = sem
        /\ Cardinality(EnNew)' = Cardinality(EnNew)
        /\ Cuantos("EXEC")' = Cuantos("EXEC") + 1
        /\ \A f \in Estados \ {"EXEC"} : Cuantos(f)' = Cuantos(f)
    BY <1>17, <1>0, AlPush, <2>1, AlIr, QuietasDe DEF CortoPushExec
  <2>. QED
    BY <1>0, <1>n, <2>2
<1>18. CASE CortoPostEjecutando
  BY <1>18, <1>0, AlIr, AlPostear, QuietasDe, NaturalesDe DEF CortoPostEjecutando
<1>19. CASE CpuEsperarEjecutando
  <2>1. /\ pc["cpu"] = "ejecutando" /\ pc'["cpu"] = "enviar_proceso"
        /\ pc'["largo"] = pc["largo"] /\ pc'["corto"] = pc["corto"] /\ pc'["io"] = pc["io"]
        /\ sem'["ejecutando"] = sem["ejecutando"] - 1
        /\ \A s \in Semaforos \ {"ejecutando"} : sem'[s] = sem[s]
        /\ Cardinality(EnNew)' = Cardinality(EnNew)
        /\ \A f \in Estados : Cuantos(f)' = Cuantos(f)
    BY <1>19, <1>0, AlEsperar, AlIr, QuietasDe DEF CpuEsperarEjecutando
  <2>. QED
    BY <1>0, <1>n, <2>1
<1>20. CASE CpuEnviarProceso
  <2>1. /\ pc["cpu"] = "enviar_proceso" /\ pc'["cpu"] = "recibir_pcb"
        /\ pc'["largo"] = pc["largo"] /\ pc'["corto"] = pc["corto"] /\ pc'["io"] = pc["io"]
        /\ sem' = sem
        /\ Cardinality(EnNew)' = Cardinality(EnNew)
        /\ \A f \in Estados : Cuantos(f)' = Cuantos(f)
    BY <1>20, <1>0, AlIr, QuietasDe DEF CpuEnviarProceso
  <2>. QED
    BY <1>0, <1>n, <2>1
<1>21. CASE CpuRecibirPcb
  <2>1. /\ pc["cpu"] = "recibir_pcb" /\ pc'["cpu"] = "sacar_exec"
        /\ pc'["largo"] = pc["largo"] /\ pc'["corto"] = pc["corto"] /\ pc'["io"] = pc["io"]
        /\ sem' = sem
        /\ Cardinality(EnNew)' = Cardinality(EnNew)
        /\ \A f \in Estados : Cuantos(f)' = Cuantos(f)
    BY <1>21, <1>0, AlIr, QuietasDe DEF CpuRecibirPcb
  <2>. QED
    BY <1>0, <1>n, <2>1
<1>22. CASE CpuSacarExec
  <2>1. cola["EXEC"] = <<mano["cpu"]>>
    BY <1>m, <1>22 DEF CpuSacarExec, ColasSegunPunto, Ir
  <2>2. /\ pc["cpu"] = "sacar_exec" /\ pc'["cpu"] = "reubicar"
        /\ pc'["largo"] = pc["largo"] /\ pc'["corto"] = pc["corto"] /\ pc'["io"] = pc["io"]
        /\ sem' = sem
        /\ Cardinality(EnNew)' = Cardinality(EnNew)
        /\ Cuantos("EXEC") = 1 /\ Cuantos("EXEC")' = 0
        /\ \A f \in Estados \ {"EXEC"} : Cuantos(f)' = Cuantos(f)
    BY <1>22, <1>0, AlSacar, <2>1, AlIr, QuietasDe DEF CpuSacarExec
  <2>. QED
    BY <1>0, <1>n, <2>2
<1>23. CASE CpuAReady
  <2>1. mano["cpu"] \in Procesos
    BY <1>m, <1>23 DEF CpuAReady, ManosSegunPunto, Ir
  <2>2. /\ pc["cpu"] = "reubicar" /\ pc'["cpu"] = "post_ready"
        /\ pc'["largo"] = pc["largo"] /\ pc'["corto"] = pc["corto"] /\ pc'["io"] = pc["io"]
        /\ sem' = sem
        /\ Cardinality(EnNew)' = Cardinality(EnNew)
        /\ Cuantos("READY")' = Cuantos("READY") + 1
        /\ \A f \in Estados \ {"READY"} : Cuantos(f)' = Cuantos(f)
    BY <1>23, <1>0, AlInsertar, <2>1, AlIr, QuietasDe DEF CpuAReady
  <2>. QED
    BY <1>0, <1>n, <2>2
<1>24. CASE CpuPostReady
  BY <1>24, <1>0, AlIr, AlPostear, QuietasDe, NaturalesDe DEF CpuPostReady
<1>25. CASE CpuABlocked
  <2>1. mano["cpu"] \in Procesos
    BY <1>m, <1>25 DEF CpuABlocked, ManosSegunPunto, Ir
  <2>2. /\ pc["cpu"] = "reubicar" /\ pc'["cpu"] = "post_blocked"
        /\ pc'["largo"] = pc["largo"] /\ pc'["corto"] = pc["corto"] /\ pc'["io"] = pc["io"]
        /\ sem' = sem
        /\ Cardinality(EnNew)' = Cardinality(EnNew)
        /\ Cuantos("BLOCKED")' = Cuantos("BLOCKED") + 1
        /\ \A f \in Estados \ {"BLOCKED"} : Cuantos(f)' = Cuantos(f)
    BY <1>25, <1>0, AlPush, <2>1, AlIr, QuietasDe DEF CpuABlocked
  <2>. QED
    BY <1>0, <1>n, <2>2
<1>26. CASE CpuPostBlocked
  BY <1>26, <1>0, AlIr, AlPostear, QuietasDe, NaturalesDe DEF CpuPostBlocked
<1>27. CASE CpuAExit
  <2>1. mano["cpu"] \in Procesos
    BY <1>m, <1>27 DEF CpuAExit, ManosSegunPunto, Ir
  <2>2. /\ pc["cpu"] = "reubicar" /\ pc'["cpu"] = "enviar_finalizar"
        /\ pc'["largo"] = pc["largo"] /\ pc'["corto"] = pc["corto"] /\ pc'["io"] = pc["io"]
        /\ sem' = sem
        /\ Cardinality(EnNew)' = Cardinality(EnNew)
        /\ Cuantos("EXIT")' = Cuantos("EXIT") + 1
        /\ \A f \in Estados \ {"EXIT"} : Cuantos(f)' = Cuantos(f)
    BY <1>27, <1>0, AlPush, <2>1, AlIr, QuietasDe DEF CpuAExit
  <2>. QED
    BY <1>0, <1>n, <2>2
<1>28. CASE CpuEnviarFinalizar
  <2>1. /\ pc["cpu"] = "enviar_finalizar" /\ pc'["cpu"] = "recibir_finalizar"
        /\ pc'["largo"] = pc["largo"] /\ pc'["corto"] = pc["corto"] /\ pc'["io"] = pc["io"]
        /\ sem' = sem
        /\ Cardinality(EnNew)' = Cardinality(EnNew)
        /\ \A f \in Estados : Cuantos(f)' = Cuantos(f)
    BY <1>28, <1>0, AlIr, QuietasDe DEF CpuEnviarFinalizar
  <2>. QED
    BY <1>0, <1>n, <2>1
<1>29. CASE CpuRecibirFinalizar
  <2>1. /\ pc["cpu"] = "recibir_finalizar" /\ pc'["cpu"] = "sacar_exit"
        /\ pc'["largo"] = pc["largo"] /\ pc'["corto"] = pc["corto"] /\ pc'["io"] = pc["io"]
        /\ sem' = sem
        /\ Cardinality(EnNew)' = Cardinality(EnNew)
        /\ \A f \in Estados : Cuantos(f)' = Cuantos(f)
    BY <1>29, <1>0, AlIr, QuietasDe DEF CpuRecibirFinalizar
  <2>. QED
    BY <1>0, <1>n, <2>1
<1>30. CASE CpuSacarExit
  <2>1. /\ pc["cpu"] = "sacar_exit" /\ pc'["cpu"] = "post_multiprogramacion"
        /\ pc'["largo"] = pc["largo"] /\ pc'["corto"] = pc["corto"] /\ pc'["io"] = pc["io"]
        /\ sem' = sem
        /\ Cardinality(EnNew)' = Cardinality(EnNew)
        /\ \A f \in Estados \ {"EXIT"} : Cuantos(f)' = Cuantos(f)
    BY <1>30, <1>0, AlSacar, AlIr, QuietasDe DEF CpuSacarExit
  <2>. QED
    BY <1>0, <1>n, <2>1
<1>31. CASE CpuPostMultiprogramacion
  BY <1>31, <1>0, AlIr, AlPostear, QuietasDe, NaturalesDe DEF CpuPostMultiprogramacion
<1>32. CASE CpuPostPlanificacion
  BY <1>32, <1>0, AlIr, AlPostear, QuietasDe, NaturalesDe DEF CpuPostPlanificacion
<1>33. CASE IoEsperarBlocked
  BY <1>33, <1>0, AlIr, AlEsperar, QuietasDe, NaturalesDe DEF IoEsperarBlocked
<1>34. CASE IoContarBloqueo
  <2>1. /\ \E d \in {"recibir_suspender", "suspender"} : Ir("io", "suspender", d)
        /\ sem' = sem
        /\ Cardinality(EnNew)' = Cardinality(EnNew)
        /\ \A f \in Estados : Cuantos(f)' = Cuantos(f)
    BY <1>34, QuietasDe DEF IoContarBloqueo
  <2>. QED
    BY <1>0, <1>n, <2>1, AlIr
<1>35. CASE IoRecibirSuspender
  <2>1. /\ pc["io"] = "recibir_suspender" /\ pc'["io"] = "post_multiprogramacion"
        /\ pc'["largo"] = pc["largo"] /\ pc'["corto"] = pc["corto"] /\ pc'["cpu"] = pc["cpu"]
        /\ sem' = sem
        /\ Cardinality(EnNew)' = Cardinality(EnNew)
        /\ \A f \in Estados : Cuantos(f)' = Cuantos(f)
    BY <1>35, <1>0, AlIr, QuietasDe DEF IoRecibirSuspender
  <2>. QED
    BY <1>0, <1>n, <2>1
<1>36. CASE IoPostMultiprogramacion
  BY <1>36, <1>0, AlIr, AlPostear, QuietasDe, NaturalesDe DEF IoPostMultiprogramacion
<1>37. CASE IoPostBlocked
  <2>1. /\ pc["io"] = "suspender" /\ pc'["io"] = "realizar_io"
        /\ pc'["largo"] = pc["largo"] /\ pc'["corto"] = pc["corto"] /\ pc'["cpu"] = pc["cpu"]
        /\ sem'["blocked"] = sem["blocked"] + 1
        /\ \A s \in Semaforos \ {"blocked"} : sem'[s] = sem[s]
        /\ Cardinality(EnNew)' = Cardinality(EnNew)
        /\ \A f \in Estados : Cuantos(f)' = Cuantos(f)
    BY <1>37, <1>0, AlPostear, AlIr, QuietasDe DEF IoPostBlocked
  <2>. QED
    BY <1>0, <1>n, <2>1
<1>38. CASE IoDormir
  <2>1. /\ \E d \in {"blocked", "pop_blocked"} : Ir("io", "realizar_io", d)
        /\ sem' = sem
        /\ Cardinality(EnNew)' = Cardinality(EnNew)
        /\ \A f \in Estados : Cuantos(f)' = Cuantos(f)
    BY <1>38, QuietasDe DEF IoDormir
  <2>. QED
    BY <1>0, <1>n, <2>1, AlIr
<1>39. CASE IoPopBlocked
  <2>1. /\ pc["io"] = "pop_blocked" /\ pc'["io"] = "tomar_blocked"
        /\ pc'["largo"] = pc["largo"] /\ pc'["corto"] = pc["corto"] /\ pc'["cpu"] = pc["cpu"]
        /\ sem' = sem
        /\ Cardinality(EnNew)' = Cardinality(EnNew)
        /\ Cuantos("BLOCKED")' = Cuantos("BLOCKED") - 1
        /\ \A f \in Estados \ {"BLOCKED"} : Cuantos(f)' = Cuantos(f)
    BY <1>39, <1>0, AlPop, AlIr, QuietasDe DEF IoPopBlocked
  <2>. QED
    BY <1>0, <1>n, <2>1
<1>40. CASE IoTomarBlocked
  BY <1>40, <1>0, AlIr, AlEsperar, QuietasDe, NaturalesDe DEF IoTomarBlocked
<1>41. CASE IoPushSuspendido
  <2>1. mano["io"] \in Procesos
    BY <1>m, <1>41 DEF IoPushSuspendido, ManosSegunPunto, Ir
  <2>2. /\ pc["io"] = "desbloquear" /\ pc'["io"] = "post_entrando"
        /\ pc'["largo"] = pc["largo"] /\ pc'["corto"] = pc["corto"] /\ pc'["cpu"] = pc["cpu"]
        /\ sem' = sem
        /\ Cardinality(EnNew)' = Cardinality(EnNew)
        /\ Cuantos("SUSPENDED_READY")' = Cuantos("SUSPENDED_READY") + 1
        /\ \A f \in Estados \ {"SUSPENDED_READY"} : Cuantos(f)' = Cuantos(f)
    BY <1>41, <1>0, AlPush, <2>1, AlIr, QuietasDe DEF IoPushSuspendido
  <2>. QED
    BY <1>0, <1>n, <2>2
<1>42. CASE IoPostEntrando
  BY <1>42, <1>0, AlIr, AlPostear, QuietasDe, NaturalesDe DEF IoPostEntrando
<1>43. CASE IoPushReady
  <2>1. mano["io"] \in Procesos
    BY <1>m, <1>43 DEF IoPushReady, ManosSegunPunto, Ir
  <2>2. /\ pc["io"] = "desbloquear" /\ pc'["io"] = "post_ready"
        /\ pc'["largo"] = pc["largo"] /\ pc'["corto"] = pc["corto"] /\ pc'["cpu"] = pc["cpu"]
        /\ sem' = sem
        /\ Cardinality(EnNew)' = Cardinality(EnNew)
        /\ Cuantos("READY")' = Cuantos("READY") + 1
        /\ \A f \in Estados \ {"READY"} : Cuantos(f)' = Cuantos(f)
    BY <1>43, <1>0, AlPush, <2>1, AlIr, QuietasDe DEF IoPushReady
  <2>. QED
    BY <1>0, <1>n, <2>2
<1>44. CASE IoPostReady
  BY <1>44, <1>0, AlIr, AlPostear, QuietasDe, NaturalesDe DEF IoPostReady
<1>45. CASE DevolverProceso
  <2>1. /\ pc' = pc
        /\ sem' = sem
        /\ Cardinality(EnNew)' = Cardinality(EnNew)
        /\ \A f \in Estados : Cuantos(f)' = Cuantos(f)
    BY <1>45, QuietasDe DEF DevolverProceso
  <2>. QED
    BY <1>0, <1>n, <2>1
<1>46. CASE MemoriaIniciar
  <2>1. /\ pc' = pc
        /\ sem' = sem
        /\ Cardinality(EnNew)' = Cardinality(EnNew)
        /\ \A f \in Estados : Cuantos(f)' = Cuantos(f)
    BY <1>46, QuietasDe DEF MemoriaIniciar, Responder
  <2>. QED
    BY <1>0, <1>n, <2>1
<1>47. CASE MemoriaCambiar
  <2>1. /\ pc' = pc
        /\ sem' = sem
        /\ Cardinality(EnNew)' = Cardinality(EnNew)
        /\ \A f \in Estados : Cuantos(f)' = Cuantos(f)
    BY <1>47, QuietasDe DEF MemoriaCambiar, Responder
  <2>. QED
    BY <1>0, <1>n, <2>1
<1>48. CASE UNCHANGED vars
  BY <1>0, <1>48, QuietasDe DEF vars
<1>. QED
  BY <1>1, <1>2, <1>3, <1>4, <1>5, <1>6, <1>7, <1>8, <1>9, <1>10, <1>11, <1>12, <1>13,
     <1>14, <1>15, <1>16, <1>17, <1>18, <1>19, <1>20, <1>21, <1>22, <1>23, <1>24, <1>25,
     <1>26, <1>27, <1>28, <1>29, <1>30, <1>31, <1>32, <1>33, <1>34, <1>35, <1>36, <1>37,
     <1>38, <1>39, <1>40, <1>41, <1>42, <1>43, <1>44, <1>45, <1>46, <1>47, <1>48
     DEF Next, Consola, Largo, Corto, Cpu, Io, Memoria, Reposo


\* A step keeps what a thread found in a queue.
LEMMA ColasPaso ==
  ASSUME Inductiva, SinNulos, [Next]_vars
  PROVE  ColasSegunPunto'
<1>. USE DEF ColasSegunPunto, Hilos, Puntos, Estados
<1>a. TypeOK /\ ColasSegunPunto
  BY DEF Inductiva
<1>b. cola \in [Estados -> Seq(Procesos)]
  BY DEF Inductiva, TypeOK
<1>c. mano \in [Hilos -> Procesos \cup {NULL}] /\ ManosSegunPunto
  BY DEF Inductiva, TypeOK
<1>d. /\ TypeOK /\ EntradaEnBalance /\ BlockedEnBalance /\ TurnoEnBalance /\ EjecutandoEnBalance
  BY DEF Inductiva, SemaforosEnBalance
<1>1. ASSUME NEW p \in Procesos, IniciarProceso(p) PROVE ColasSegunPunto'
  <2>1. Append(cola["NEW"], p) # <<>>
    BY <1>b, AppendProperties
  <2>. QED
    BY <1>a, <1>b, <1>1, <2>1 DEF IniciarProceso, Push
<1>2. ASSUME NEW p \in Procesos, AvisarEntrada(p) PROVE ColasSegunPunto'
  BY <1>a, <1>2 DEF AvisarEntrada
<1>3. CASE LargoEsperarGrado
  BY <1>3, <1>a, AlIr, <1>c DEF LargoEsperarGrado
<1>4. CASE LargoEsperarEntrada
  BY <1>4, <1>a, AlIr, <1>c DEF LargoEsperarEntrada
<1>5. CASE LargoSacarSuspendido
  BY <1>5, <1>a, AlIr, <1>b, <1>c DEF LargoSacarSuspendido, Pop
<1>6. CASE LargoSinSuspendidos
  <2>1. Cuantos("NEW") > 0
    <3>1. pc["largo"] = "pop_suspendido" /\ Cuantos("SUSPENDED_READY") = 0
      BY <1>b, <1>6, VaciaDe DEF LargoSinSuspendidos, Ir
    <3>. QED
      BY <1>d, <3>1, NaturalesDe DEF EntradaEnBalance, En, Uno, Semaforos
  <2>2. cola["NEW"] # <<>>
    BY <1>b, <2>1, VaciaDe
  <2>. QED
    BY <1>a, <1>6, <2>2, AlIr DEF LargoSinSuspendidos
<1>7. CASE LargoSacarNuevo
  BY <1>7, <1>a, AlIr, <1>b, <1>c DEF LargoSacarNuevo, Pop
<1>8. CASE LargoEnviarIniciar
  BY <1>8, <1>a, AlIr, <1>c DEF LargoEnviarIniciar
<1>9. CASE LargoRecibirTabla
  BY <1>9, <1>a, AlIr, <1>c DEF LargoRecibirTabla
<1>10. CASE LargoPushReady
  BY <1>10, <1>a, AlIr, <1>b, <1>c DEF LargoPushReady, Push
<1>11. CASE LargoPostReady
  BY <1>11, <1>a, AlIr, <1>c DEF LargoPostReady
<1>12. CASE CortoEsperarReady
  BY <1>12, <1>a, AlIr, <1>c DEF CortoEsperarReady
<1>13. CASE CortoDesalojar
  BY <1>13, <1>a, AlIr, <1>c DEF CortoDesalojar
<1>14. CASE CortoNoDesalojar
  BY <1>14, <1>a, AlIr, <1>c DEF CortoNoDesalojar
<1>15. CASE CortoEsperarPlanificacion
  BY <1>15, <1>a, AlIr, <1>c DEF CortoEsperarPlanificacion
<1>16. CASE CortoPopReady
  BY <1>16, <1>a, AlIr, <1>b, <1>c DEF CortoPopReady, Pop
<1>17. CASE CortoPushExec
  <2>1. pc["corto"] = "push_exec"
    BY <1>17 DEF CortoPushExec, Ir
  <2>2. pc["cpu"] = "ejecutando"
    BY <1>d, <2>1, NaturalesDe DEF TurnoEnBalance, En, Uno, Semaforos
  <2>. QED
    BY <1>a, <1>b, <1>17, <2>2, AlIr DEF CortoPushExec, Push
<1>18. CASE CortoPostEjecutando
  BY <1>18, <1>a, AlIr, <1>c DEF CortoPostEjecutando
<1>19. CASE CpuEsperarEjecutando
  BY <1>19, <1>a, AlIr, <1>c DEF CpuEsperarEjecutando
<1>20. CASE CpuEnviarProceso
  <2>1. pc["cpu"] = "enviar_proceso"
    BY <1>20 DEF CpuEnviarProceso, Ir
  <2>2. Cuantos("EXEC") = 1
    BY <1>d, <2>1, NaturalesDe DEF TurnoEnBalance, EjecutandoEnBalance, En, Uno, Semaforos
  <2>3. cola["EXEC"] = <<Head(cola["EXEC"])>>
    BY <1>b, <2>2, UnicoDe DEF Cuantos
  <2>4. mano'["cpu"] = Head(cola["EXEC"])
    BY <1>c, <1>20 DEF CpuEnviarProceso
  <2>. QED
    BY <1>a, <1>20, <2>3, <2>4, AlIr DEF CpuEnviarProceso
<1>21. CASE CpuRecibirPcb
  BY <1>21, <1>a, AlIr, <1>c DEF CpuRecibirPcb
<1>22. CASE CpuSacarExec
  BY <1>22, <1>a, AlIr, <1>b, <1>c DEF CpuSacarExec, SacarProceso
<1>23. CASE CpuAReady
  BY <1>23, <1>a, AlIr, <1>b, <1>c DEF CpuAReady, InsertSorted
<1>24. CASE CpuPostReady
  BY <1>24, <1>a, AlIr, <1>c DEF CpuPostReady
<1>25. CASE CpuABlocked
  <2>0. mano["cpu"] \in Procesos
    BY <1>c, <1>25 DEF CpuABlocked, ManosSegunPunto, Ir
  <2>1. Append(cola["BLOCKED"], mano["cpu"]) # <<>>
    BY <1>b, <2>0, AppendProperties
  <2>. QED
    BY <1>a, <1>b, <1>25, <2>1, AlIr DEF CpuABlocked, Push
<1>26. CASE CpuPostBlocked
  BY <1>26, <1>a, AlIr, <1>c DEF CpuPostBlocked
<1>27. CASE CpuAExit
  BY <1>27, <1>a, AlIr, <1>b, <1>c DEF CpuAExit, Push
<1>28. CASE CpuEnviarFinalizar
  BY <1>28, <1>a, AlIr, <1>c DEF CpuEnviarFinalizar
<1>29. CASE CpuRecibirFinalizar
  BY <1>29, <1>a, AlIr, <1>c DEF CpuRecibirFinalizar
<1>30. CASE CpuSacarExit
  BY <1>30, <1>a, AlIr, <1>b, <1>c DEF CpuSacarExit, SacarProceso
<1>31. CASE CpuPostMultiprogramacion
  BY <1>31, <1>a, AlIr, <1>c DEF CpuPostMultiprogramacion
<1>32. CASE CpuPostPlanificacion
  BY <1>32, <1>a, AlIr, <1>c DEF CpuPostPlanificacion
<1>33. CASE IoEsperarBlocked
  BY <1>33, <1>a, AlIr, <1>c DEF IoEsperarBlocked
<1>34. CASE IoContarBloqueo
  BY <1>34, <1>a, AlIr, <1>c DEF IoContarBloqueo
<1>35. CASE IoRecibirSuspender
  BY <1>35, <1>a, AlIr, <1>c DEF IoRecibirSuspender
<1>36. CASE IoPostMultiprogramacion
  BY <1>36, <1>a, AlIr, <1>c DEF IoPostMultiprogramacion
<1>37. CASE IoPostBlocked
  <2>1. pc["io"] = "suspender"
    BY <1>37 DEF IoPostBlocked, Ir
  <2>2. Cuantos("BLOCKED") > 0
    BY <1>d, <2>1, NaturalesDe DEF BlockedEnBalance, En, Uno, Semaforos
  <2>3. cola["BLOCKED"] # <<>>
    BY <1>b, <2>2, VaciaDe
  <2>. QED
    BY <1>a, <1>37, <2>3, AlIr DEF IoPostBlocked
<1>38. CASE IoDormir
  BY <1>38, <1>a, <1>b, AlIr DEF IoDormir
<1>39. CASE IoPopBlocked
  BY <1>39, <1>a, AlIr, <1>b, <1>c DEF IoPopBlocked, Pop
<1>40. CASE IoTomarBlocked
  BY <1>40, <1>a, AlIr, <1>c DEF IoTomarBlocked
<1>41. CASE IoPushSuspendido
  BY <1>41, <1>a, AlIr, <1>b, <1>c DEF IoPushSuspendido, Push
<1>42. CASE IoPostEntrando
  BY <1>42, <1>a, AlIr, <1>c DEF IoPostEntrando
<1>43. CASE IoPushReady
  BY <1>43, <1>a, AlIr, <1>b, <1>c DEF IoPushReady, Push
<1>44. CASE IoPostReady
  BY <1>44, <1>a, AlIr, <1>c DEF IoPostReady
<1>45. CASE DevolverProceso
  BY <1>45, <1>a, <1>c DEF DevolverProceso
<1>46. CASE MemoriaIniciar
  BY <1>46, <1>a DEF MemoriaIniciar, Responder
<1>47. CASE MemoriaCambiar
  BY <1>47, <1>a DEF MemoriaCambiar, Responder
<1>48. CASE UNCHANGED vars
  BY <1>a, <1>48 DEF vars
<1>. QED
  BY <1>1, <1>2, <1>3, <1>4, <1>5, <1>6, <1>7, <1>8, <1>9, <1>10, <1>11, <1>12, <1>13,
     <1>14, <1>15, <1>16, <1>17, <1>18, <1>19, <1>20, <1>21, <1>22, <1>23, <1>24, <1>25,
     <1>26, <1>27, <1>28, <1>29, <1>30, <1>31, <1>32, <1>33, <1>34, <1>35, <1>36, <1>37,
     <1>38, <1>39, <1>40, <1>41, <1>42, <1>43, <1>44, <1>45, <1>46, <1>47, <1>48
     DEF Next, Consola, Largo, Corto, Cpu, Io, Memoria, Reposo

-----------------------------------------------------------------------------
\* The balances are what keeps a thread from an empty queue.
LEMMA InductivaSinNulos ==
  ASSUME Inductiva
  PROVE  SinNulos
<1>1. /\ TypeOK /\ ColasSegunPunto /\ ReadyEnBalance /\ EjecutandoEnBalance
      /\ cola \in [Estados -> Seq(Procesos)]
  BY DEF Inductiva, SemaforosEnBalance, TypeOK
<1>2. pc["corto"] = "pop_ready" => cola["READY"] # <<>>
  <2>1. pc["corto"] = "pop_ready" => Cuantos("READY") > 0
    BY <1>1, NaturalesDe DEF ReadyEnBalance, En, Uno, Semaforos
  <2>. QED
    BY <1>1, <2>1, VaciaDe DEF Estados
<1>3. pc["cpu"] = "enviar_proceso" => cola["EXEC"] # <<>>
  <2>1. pc["cpu"] = "enviar_proceso" => Cuantos("EXEC") > 0
    BY <1>1, NaturalesDe DEF EjecutandoEnBalance, En, Uno, Semaforos
  <2>. QED
    BY <1>1, <2>1, VaciaDe DEF Estados
<1>. QED
  BY <1>1, <1>2, <1>3 DEF SinNulos, ColasSegunPunto

\* The turn that planificacion and ejecutando pass leaves room for one.
LEMMA InductivaUno ==
  ASSUME Inductiva
  PROVE  UnoEnEjecucion
<1>1. /\ TypeOK /\ ManosSegunPunto /\ ColasSegunPunto
      /\ TurnoEnBalance /\ EjecutandoEnBalance
  BY DEF Inductiva, SemaforosEnBalance
<1>2. Cuantos("EXEC") <= 1
  BY <1>1, NaturalesDe DEF TurnoEnBalance, EjecutandoEnBalance, En, Uno, Semaforos, Estados
<1>. QED
  BY <1>1, <1>2 DEF UnoEnEjecucion, ColasSegunPunto, ManosSegunPunto, Cuantos

LEMMA InductivaInicio ==
  ASSUME Init
  PROVE  Inductiva
<1>1. CrearProceso \in TProceso
  <2>1. (CHOOSE e \in Estimaciones : TRUE) \in Estimaciones
    BY ConstantesAssumption
  <2>2. 0 \in 0..(MODULO - 1) /\ 0 \in 0..TIEMPO_MAXIMO
    BY ConstantesAssumption
  <2>. QED
    BY <2>1, <2>2 DEF CrearProceso, TProceso
<1>2. TypeOK
  <2>1. GRADO \in Nat
    BY ConstantesAssumption
  <2>2. sem \in [Semaforos -> Nat]
    BY <2>1 DEF Init, Semaforos
  <2>3. TipoPc
    BY DEF Init, TipoPc, Hilos, Puntos
  <2>4. cola \in [Estados -> Seq(Procesos)]
    BY DEF Init
  <2>5. proc \in [Procesos -> TProceso] /\ quedan \in [Procesos -> 0..MaxIO]
    BY <1>1 DEF Init
  <2>6. pedidos \in Seq(Pedidos) /\ respuestas \in Seq(Numeros)
    BY DEF Init
  <2>7. /\ mano \in [Hilos -> Procesos \cup {NULL}]
        /\ consola \in [Procesos -> {"conectada", "en_new", "lista"}]
    BY DEF Init
  <2>8. finalizados \subseteq Procesos /\ tablas \subseteq Procesos
    BY DEF Init
  <2>9. cursor \in Nat \ {0}
    BY DEF Init
  <2>11. trabada \in BOOLEAN
    BY Zenon DEF Init
  <2>10. /\ destino \in {NULL, "EXIT", "READY", "BLOCKED"}
         /\ dispatch \in Procesos \cup {NULL}
         /\ devolucion \in Devoluciones \cup {NULL}
    BY DEF Init
  <2>. QED
    BY <2>2, <2>3, <2>4, <2>5, <2>6, <2>7, <2>8, <2>9, <2>10, <2>11 DEF TypeOK
<1>3. ManosSegunPunto
  BY DEF Init, ManosSegunPunto, Hilos
<1>4. SemaforosEnBalance
  <2>1. Cardinality(EnNew) = 0
    <3>1. EnNew = {}
      BY DEF Init, EnNew
    <3>. QED
      BY <3>1, FS_EmptySet
  <2>2. \A e \in Estados : Cuantos(e) = 0
    BY DEF Init, Cuantos
  <2>3. /\ pc["largo"] = "multiprogramacion" /\ pc["corto"] = "ready"
        /\ pc["cpu"] = "ejecutando" /\ pc["io"] = "blocked"
    BY DEF Init
  <2>4. /\ sem["ready"] = 0 /\ sem["blocked"] = 0 /\ sem["entrando_a_ready"] = 0
        /\ sem["planificacion"] = 1 /\ sem["ejecutando"] = 0
    BY DEF Init, Semaforos
  <2>. QED
    BY <2>1, <2>2, <2>3, <2>4
       DEF SemaforosEnBalance, ReadyEnBalance, BlockedEnBalance, EntradaEnBalance,
           TurnoEnBalance, EjecutandoEnBalance, En, Uno, Estados
<1>5. ColasSegunPunto
  BY DEF Init, ColasSegunPunto
<1>. QED
  BY <1>2, <1>3, <1>4, <1>5 DEF Inductiva

\* The invariant is inductive.
THEOREM InductivaSiempre == Spec => []Inductiva
<1>1. Init => Inductiva
  BY InductivaInicio
<1>2. Inductiva /\ [Next]_vars => Inductiva'
  <2>. SUFFICES ASSUME Inductiva, [Next]_vars
                PROVE  Inductiva'
    OBVIOUS
  <2>1. SinNulos
    BY InductivaSinNulos
  <2>2. TypeOK' /\ ManosSegunPunto'
    BY <2>1, TipoPaso, ManosPaso DEF Inductiva
  <2>3. SemaforosEnBalance' /\ ColasSegunPunto'
    BY <2>1, BalancePaso, ColasPaso
  <2>. QED
    BY <2>2, <2>3 DEF Inductiva
<1>. QED
  BY <1>1, <1>2, PTL DEF Spec

\* Every variable keeps its type, the page table of a process and the wrapped
\* counter of its I/O included.
THEOREM TiposSiempre == Spec => []TypeOK
<1>1. Inductiva => TypeOK
  BY DEF Inductiva
<1>. QED
  BY <1>1, InductivaSiempre, PTL

\* The counting semaphores always agree with the queues they announce.
THEOREM BalanceSiempre == Spec => []SemaforosEnBalance
<1>1. Inductiva => SemaforosEnBalance
  BY DEF Inductiva
<1>. QED
  BY <1>1, InductivaSiempre, PTL

\* No thread ever pops or peeks an empty queue (planificacion.c:131, 155, 171
\* and 180 use the result without a test).
THEOREM NuncaNulos == Spec => []SinNulos
<1>1. Inductiva => SinNulos
  BY InductivaSinNulos
<1>. QED
  BY <1>1, InductivaSiempre, PTL

\* The CPU never has two processes, and EXEC always holds the one it has.
THEOREM UnoALaVez == Spec => []UnoEnEjecucion
<1>1. Inductiva => UnoEnEjecucion
  BY InductivaUno
<1>. QED
  BY <1>1, InductivaSiempre, PTL

-------------------------------------------------------------------------------
\* Where a process may be.  A thread has it in its hands, and not only in a
\* local variable, once it took it out of a queue: the CPU thread from EXEC
\* to the next queue, and the I/O thread from BLOCKED to the next one.
Sitios == Estados \cup Hilos \cup {"afuera"}
Agarra(h, p) ==
  /\ mano[h] = p
  /\ h = "cpu" => pc["cpu"] = "reubicar"
  /\ h = "io" => pc["io"] \in {"tomar_blocked", "desbloquear"}
Activo(p) == consola[p] # "conectada" /\ p \notin finalizados
EnSitio(p, x) ==
  \/ x \in Estados /\ EnCola(p, x)
  \/ x \in Hilos /\ Agarra(x, p)
  \/ x = "afuera" /\ ~Activo(p)

\* A step leaves all where they are, or carries p from x to y.
Quieto == \A q \in Procesos, z \in Sitios : EnSitio(q, z)' <=> EnSitio(q, z)
Mudanza(p, x, y) ==
  /\ EnSitio(p, x)
  /\ \A q \in Procesos, z \in Sitios :
       EnSitio(q, z)' <=> IF q = p THEN z = y ELSE EnSitio(q, z)

\* What a step does to the hands of h, and to the queue e.
Toma(h, p) ==
  \A q \in Procesos, g \in Hilos : Agarra(g, q)' <=> IF g = h THEN q = p ELSE Agarra(g, q)
Suelta(h) ==
  \A q \in Procesos, g \in Hilos : Agarra(g, q)' <=> g # h /\ Agarra(g, q)
Sale(e, p) ==
  \A q \in Procesos, f \in Estados : EnCola(q, f)' <=> EnCola(q, f) /\ ~(f = e /\ q = p)
Entra(e, p) ==
  \A q \in Procesos, f \in Estados : EnCola(q, f)' <=> EnCola(q, f) \/ (f = e /\ q = p)

SinRepetidos == \A e \in Estados : IsInjective(cola[e])
UnLugar == \A p \in Procesos : \E x \in Sitios : \A y \in Sitios : EnSitio(p, y) <=> y = x
\* A local variable that outlives the process's stay in the thread's hands, or
\* that comes before it, names one that is in the queue it is read from.
ManosEnColas ==
  /\ pc["cpu"] \in {"enviar_finalizar", "recibir_finalizar", "sacar_exit"}
       => EnCola(mano["cpu"], "EXIT")
  /\ pc["io"] = "recibir_suspender"
       => EnCola(mano["io"], "BLOCKED") /\ ~proc[mano["io"]].suspendido

\* Who ended had come.
Terminados == \A p \in finalizados : consola[p] # "conectada"

Lugares == Inductiva /\ SinRepetidos /\ UnLugar /\ ManosEnColas /\ Terminados

-----------------------------------------------------------------------------
\* What the operations on the queues do to who is in them.
LEMMA EnPush ==
  ASSUME TypeOK, SinRepetidos, NEW e \in Estados, NEW p \in Procesos, Push(e, p)
  PROVE  /\ Entra(e, p)
         /\ ~EnCola(p, e) => SinRepetidos'
<1>1. /\ cola[e] \in Seq(Procesos)
      /\ cola'[e] = Append(cola[e], p) /\ \A f \in Estados \ {e} : cola'[f] = cola[f]
  BY DEF TypeOK, Push
<1>2. /\ \A x : Contains(cola'[e], x) <=> Contains(cola[e], x) \/ x = p
      /\ IsInjective(cola[e]) /\ ~Contains(cola[e], p) => IsInjective(cola'[e])
  BY <1>1, AgregarDe
<1>. QED
  BY <1>1, <1>2 DEF EnCola, SinRepetidos, Sale, Entra

LEMMA EnInsertar ==
  ASSUME TypeOK, SinRepetidos, NEW e \in Estados, NEW p \in Procesos, InsertSorted(e, p)
  PROVE  /\ Entra(e, p)
         /\ ~EnCola(p, e) => SinRepetidos'
<1>. DEFINE k == LugarOrdenado(cola[e], p)
<1>1. /\ cola[e] \in Seq(Procesos)
      /\ cola'[e] = InsertAt(cola[e], k, p) /\ \A f \in Estados \ {e} : cola'[f] = cola[f]
  BY DEF TypeOK, InsertSorted
<1>2. k \in 1..(Len(cola[e]) + 1)
  BY <1>1, LugarOrdenadoTipo
<1>. HIDE DEF k
<1>3. /\ \A x : Contains(cola'[e], x) <=> Contains(cola[e], x) \/ x = p
      /\ IsInjective(cola[e]) /\ ~Contains(cola[e], p) => IsInjective(cola'[e])
  BY <1>1, <1>2, InsertarDe
<1>. QED
  BY <1>1, <1>3 DEF EnCola, SinRepetidos, Sale, Entra

LEMMA EnPop ==
  ASSUME TypeOK, SinRepetidos, NEW e \in Estados, cola[e] # <<>>, Pop(e)
  PROVE  /\ Head(cola[e]) \in Procesos /\ EnCola(Head(cola[e]), e)
         /\ Sale(e, Head(cola[e]))
         /\ SinRepetidos'
<1>1. /\ cola[e] \in Seq(Procesos)
      /\ cola'[e] = Tail(cola[e]) /\ \A f \in Estados \ {e} : cola'[f] = cola[f]
  BY DEF TypeOK, Pop
<1>2. IsInjective(cola[e])
  BY DEF SinRepetidos
<1>3. /\ Contains(cola[e], Head(cola[e]))
      /\ \A x : Contains(cola'[e], x) <=> Contains(cola[e], x) /\ x # Head(cola[e])
      /\ IsInjective(cola'[e])
  BY <1>1, <1>2, ColaDe
<1>4. Head(cola[e]) \in Procesos
  BY CabezaTipo
<1>. QED
  BY <1>1, <1>3, <1>4 DEF EnCola, SinRepetidos, Sale, Entra

LEMMA EnSacar ==
  ASSUME TypeOK, SinRepetidos, NEW e \in Estados, NEW p, SacarProceso(e, p)
  PROVE  /\ Sale(e, p)
         /\ SinRepetidos'
<1>1. /\ cola[e] \in Seq(Procesos)
      /\ cola'[e] = RemoveFirst(cola[e], p) /\ \A f \in Estados \ {e} : cola'[f] = cola[f]
  BY DEF TypeOK, SacarProceso
<1>2. IsInjective(cola[e])
  BY DEF SinRepetidos
<1>3. /\ \A x : Contains(cola'[e], x) <=> Contains(cola[e], x) /\ x # p
      /\ IsInjective(cola'[e])
  BY <1>1, <1>2, SacarDe
<1>. QED
  BY <1>1, <1>3 DEF EnCola, SinRepetidos, Sale, Entra

LEMMA SitiosDistintos == Estados \cap Hilos = {} /\ "afuera" \notin Estados \cup Hilos
BY DEF Estados, Hilos

LEMMA UnicoSitio ==
  ASSUME UnLugar, NEW p \in Procesos, NEW x \in Sitios, EnSitio(p, x)
  PROVE  \A y \in Sitios : EnSitio(p, y) <=> y = x
BY DEF UnLugar

LEMMA ActivosQuietos ==
  ASSUME UNCHANGED usuarioVars
  PROVE  \A q \in Procesos : Activo(q)' <=> Activo(q)
BY DEF usuarioVars, Activo

\* What a process that is in a site says of the others.
LEMMA SitioDe ==
  ASSUME NEW p
  PROVE  /\ \A e \in Estados : e \in Sitios /\ (EnSitio(p, e) <=> EnCola(p, e))
         /\ \A h \in Hilos : h \in Sitios /\ (EnSitio(p, h) <=> Agarra(h, p))
         /\ "afuera" \in Sitios /\ (EnSitio(p, "afuera") <=> ~Activo(p))
BY SitiosDistintos DEF Sitios, EnSitio

LEMMA DeColaAMano ==
  ASSUME UnLugar, NEW p \in Procesos, NEW e \in Estados, NEW h \in Hilos,
         EnCola(p, e), \A q \in Procesos : ~Agarra(h, q),
         Sale(e, p), Toma(h, p), UNCHANGED usuarioVars
  PROVE  Mudanza(p, e, h)
<1>1. e \in Sitios /\ EnSitio(p, e) /\ e # h
  BY SitioDe, SitiosDistintos
<1>2. \A y \in Sitios : EnSitio(p, y) <=> y = e
  BY <1>1, UnicoSitio
<1>3. ASSUME NEW q \in Procesos, NEW z \in Sitios
      PROVE  EnSitio(q, z)' <=> IF q = p THEN z = h ELSE EnSitio(q, z)
  <2>1. CASE z \in Estados
    <3>1. (EnSitio(q, z) <=> EnCola(q, z)) /\ (EnSitio(q, z)' <=> EnCola(q, z)')
      BY <2>1, SitiosDistintos DEF EnSitio
    <3>2. z # h
      BY <2>1, SitiosDistintos
    <3>. QED
      BY <1>2, <2>1, <3>1, <3>2 DEF Sale
  <2>2. CASE z \in Hilos
    <3>1. (EnSitio(q, z) <=> Agarra(z, q)) /\ (EnSitio(q, z)' <=> Agarra(z, q)')
      BY <2>2, SitiosDistintos DEF EnSitio
    <3>2. z # e
      BY <2>2, SitiosDistintos
    <3>. QED
      BY <1>2, <2>2, <3>1, <3>2 DEF Toma
  <2>3. CASE z = "afuera"
    <3>1. (EnSitio(q, z) <=> ~Activo(q)) /\ (EnSitio(q, z)' <=> ~Activo(q)')
      BY <2>3, SitiosDistintos DEF EnSitio
    <3>2. z # e /\ z # h
      BY <2>3, SitiosDistintos
    <3>. QED
      BY <1>2, <3>1, <3>2, ActivosQuietos
  <2>. QED
    BY <2>1, <2>2, <2>3 DEF Sitios
<1>. QED
  BY <1>1, <1>3 DEF Mudanza

LEMMA DeManoACola ==
  ASSUME UnLugar, NEW p \in Procesos, NEW e \in Estados, NEW h \in Hilos,
         Agarra(h, p), Entra(e, p), Suelta(h), UNCHANGED usuarioVars,
         \A q \in Procesos : Agarra(h, q) => q = p
  PROVE  Mudanza(p, h, e) /\ ~EnCola(p, e)
<1>1. h \in Sitios /\ EnSitio(p, h) /\ e # h
  BY SitioDe, SitiosDistintos
<1>2. \A y \in Sitios : EnSitio(p, y) <=> y = h
  BY <1>1, UnicoSitio
<1>3. ASSUME NEW q \in Procesos, NEW z \in Sitios
      PROVE  EnSitio(q, z)' <=> IF q = p THEN z = e ELSE EnSitio(q, z)
  <2>1. CASE z \in Estados
    <3>1. (EnSitio(q, z) <=> EnCola(q, z)) /\ (EnSitio(q, z)' <=> EnCola(q, z)')
      BY <2>1, SitiosDistintos DEF EnSitio
    <3>2. z # h
      BY <2>1, SitiosDistintos
    <3>. QED
      BY <1>2, <2>1, <3>1, <3>2 DEF Entra
  <2>2. CASE z \in Hilos
    <3>1. (EnSitio(q, z) <=> Agarra(z, q)) /\ (EnSitio(q, z)' <=> Agarra(z, q)')
      BY <2>2, SitiosDistintos DEF EnSitio
    <3>2. z # e
      BY <2>2, SitiosDistintos
    <3>. QED
      BY <1>2, <2>2, <3>1, <3>2 DEF Suelta
  <2>3. CASE z = "afuera"
    <3>1. (EnSitio(q, z) <=> ~Activo(q)) /\ (EnSitio(q, z)' <=> ~Activo(q)')
      BY <2>3, SitiosDistintos DEF EnSitio
    <3>2. z # e /\ z # h
      BY <2>3, SitiosDistintos
    <3>. QED
      BY <1>2, <3>1, <3>2, ActivosQuietos
  <2>. QED
    BY <2>1, <2>2, <2>3 DEF Sitios
<1>4. ~EnCola(p, e)
  BY <1>1, <1>2, SitioDe
<1>. QED
  BY <1>1, <1>3, <1>4 DEF Mudanza

\* A step that moves neither queues, nor hands, nor consoles moves nobody.
LEMMA SinMudanza ==
  ASSUME cola' = cola,
         \A q \in Procesos, g \in Hilos : Agarra(g, q)' <=> Agarra(g, q),
         \A q \in Procesos : Activo(q)' <=> Activo(q)
  PROVE  Quieto /\ (SinRepetidos => SinRepetidos')
<1>1. ASSUME NEW q \in Procesos, NEW z \in Sitios
      PROVE  EnSitio(q, z)' <=> EnSitio(q, z)
  <2>1. CASE z \in Estados
    <3>1. (EnSitio(q, z) <=> EnCola(q, z)) /\ (EnSitio(q, z)' <=> EnCola(q, z)')
      BY <2>1, SitiosDistintos DEF EnSitio
    <3>. QED
      BY <3>1 DEF EnCola
  <2>2. CASE z \in Hilos
    <3>1. (EnSitio(q, z) <=> Agarra(z, q)) /\ (EnSitio(q, z)' <=> Agarra(z, q)')
      BY <2>2, SitiosDistintos DEF EnSitio
    <3>. QED
      BY <2>2, <3>1
  <2>3. CASE z = "afuera"
    <3>1. (EnSitio(q, z) <=> ~Activo(q)) /\ (EnSitio(q, z)' <=> ~Activo(q)')
      BY <2>3, SitiosDistintos DEF EnSitio
    <3>. QED
      BY <3>1
  <2>. QED
    BY <2>1, <2>2, <2>3 DEF Sitios
<1>2. SinRepetidos => SinRepetidos'
  BY DEF SinRepetidos
<1>. QED
  BY <1>1, <1>2 DEF Quieto

\* One place for each process is kept.
LEMMA UnLugarQuieto ==
  ASSUME UnLugar, Quieto
  PROVE  UnLugar'
BY DEF UnLugar, Quieto, Sitios

LEMMA UnLugarMudanza ==
  ASSUME UnLugar, NEW p \in Procesos, NEW x \in Sitios, NEW y \in Sitios, Mudanza(p, x, y)
  PROVE  UnLugar'
BY DEF UnLugar, Mudanza, Sitios

-----------------------------------------------------------------------------
\* What a thread that goes from one point to another has in its hands.
Cuelga(h, punto) ==
  /\ h = "cpu" => punto = "reubicar"
  /\ h = "io" => punto \in {"tomar_blocked", "desbloquear"}

LEMMA ManoToma ==
  ASSUME TypeOK, NEW h \in Hilos, NEW p \in Procesos, NEW a, NEW b \in Puntos[h],
         Ir(h, a, b), Cuelga(h, b), mano' = [mano EXCEPT ![h] = p]
  PROVE  Toma(h, p)
<1>1. pc'[h] = b /\ \A g \in Hilos \ {h} : pc'[g] = pc[g]
  BY AlIr
<1>2. mano'[h] = p /\ \A g \in Hilos \ {h} : mano'[g] = mano[g]
  BY DEF TypeOK
<1>. QED
  BY <1>1, <1>2 DEF Toma, Agarra, Cuelga, Hilos

LEMMA ManoSuelta ==
  ASSUME TypeOK, NEW h \in Hilos, NEW a, NEW b \in Puntos[h],
         Ir(h, a, b), mano' = [mano EXCEPT ![h] = NULL]
  PROVE  Suelta(h)
<1>1. pc'[h] = b /\ \A g \in Hilos \ {h} : pc'[g] = pc[g]
  BY AlIr
<1>2. mano'[h] = NULL /\ \A g \in Hilos \ {h} : mano'[g] = mano[g]
  BY DEF TypeOK
<1>3. NULL \notin Procesos
  BY ConstantesAssumption
<1>. QED
  BY <1>1, <1>2, <1>3 DEF Suelta, Agarra, Hilos

LEMMA ManoQuieta ==
  ASSUME TypeOK, NEW h \in Hilos, NEW a, NEW b \in Puntos[h],
         Ir(h, a, b), Cuelga(h, a) <=> Cuelga(h, b), mano' = mano
  PROVE  \A q \in Procesos, g \in Hilos : Agarra(g, q)' <=> Agarra(g, q)
<1>1. pc[h] = a /\ pc'[h] = b /\ \A g \in Hilos \ {h} : pc'[g] = pc[g]
  BY AlIr
<1>. QED
  BY <1>1 DEF Agarra, Cuelga, Hilos

\* A thread outside its stretch has nobody in its hands.
LEMMA ManoVacia ==
  ASSUME NEW h \in Hilos, ~Cuelga(h, pc[h]) \/ mano[h] = NULL
  PROVE  \A q \in Procesos : ~Agarra(h, q)
BY ConstantesAssumption DEF Agarra, Cuelga

-----------------------------------------------------------------------------
\* The steps that carry a process, one by one.
LEMMA DeLugares ==
  ASSUME Lugares
  PROVE  /\ Inductiva /\ TypeOK /\ ManosSegunPunto /\ SinNulos /\ SinRepetidos /\ UnLugar
         /\ ManosEnColas /\ Terminados /\ NULL \notin Procesos
         /\ mano \in [Hilos -> Procesos \cup {NULL}]
<1>1. Inductiva /\ SinRepetidos /\ UnLugar /\ ManosEnColas /\ Terminados
  BY DEF Lugares
<1>. QED
  BY <1>1, InductivaSinNulos, ConstantesAssumption DEF Inductiva, TypeOK

LEMMA MueveIniciar ==
  ASSUME Lugares, NEW p \in Procesos, IniciarProceso(p)
  PROVE  Mudanza(p, "afuera", "NEW") /\ SinRepetidos'
<1>0. "NEW" \in Estados
  BY DEF Estados
<1>1. Push("NEW", p) /\ pc' = pc /\ mano' = mano /\ finalizados' = finalizados
  BY DEF IniciarProceso
<1>2. /\ consola[p] = "conectada" /\ consola'[p] = "en_new"
      /\ \A q \in Procesos \ {p} : consola'[q] = consola[q]
  BY DeLugares DEF IniciarProceso, TypeOK
<1>3. "afuera" \in Sitios /\ EnSitio(p, "afuera") /\ p \notin finalizados
  BY <1>2, DeLugares, SitioDe DEF Activo, Terminados
<1>4. \A y \in Sitios : EnSitio(p, y) <=> y = "afuera"
  BY <1>3, DeLugares, UnicoSitio
<1>5. ~EnCola(p, "NEW")
  BY <1>0, <1>4, SitioDe, SitiosDistintos
<1>6. Entra("NEW", p) /\ SinRepetidos'
  BY <1>0, <1>1, <1>5, DeLugares, EnPush
<1>7. ASSUME NEW q \in Procesos, NEW z \in Sitios
      PROVE  EnSitio(q, z)' <=> IF q = p THEN z = "NEW" ELSE EnSitio(q, z)
  <2>1. CASE z \in Estados
    <3>1. (EnSitio(q, z) <=> EnCola(q, z)) /\ (EnSitio(q, z)' <=> EnCola(q, z)')
      BY <2>1, SitiosDistintos DEF EnSitio
    <3>2. z # "afuera"
      BY <2>1, SitiosDistintos
    <3>. QED
      BY <1>4, <1>6, <2>1, <3>1, <3>2 DEF Entra
  <2>2. CASE z \in Hilos
    <3>1. (EnSitio(q, z) <=> Agarra(z, q)) /\ (EnSitio(q, z)' <=> Agarra(z, q)')
      BY <2>2, SitiosDistintos DEF EnSitio
    <3>2. z # "afuera" /\ z # "NEW"
      BY <1>0, <2>2, SitiosDistintos
    <3>3. Agarra(z, q)' <=> Agarra(z, q)
      BY <1>1 DEF Agarra
    <3>. QED
      BY <1>4, <3>1, <3>2, <3>3
  <2>3. CASE z = "afuera"
    <3>1. (EnSitio(q, z) <=> ~Activo(q)) /\ (EnSitio(q, z)' <=> ~Activo(q)')
      BY <2>3, SitiosDistintos DEF EnSitio
    <3>2. z # "NEW"
      BY <1>0, <2>3, SitiosDistintos
    <3>3. Activo(q)' <=> IF q = p THEN TRUE ELSE Activo(q)
      BY <1>1, <1>2, <1>3 DEF Activo
    <3>. QED
      BY <3>1, <3>2, <3>3
  <2>. QED
    BY <2>1, <2>2, <2>3 DEF Sitios
<1>. QED
  BY <1>3, <1>6, <1>7 DEF Mudanza

LEMMA MueveSacarSuspendido ==
  ASSUME Lugares, LargoSacarSuspendido
  PROVE  /\ Head(cola["SUSPENDED_READY"]) \in Procesos /\ mano'["largo"] = Head(cola["SUSPENDED_READY"])
         /\ Mudanza(Head(cola["SUSPENDED_READY"]), "SUSPENDED_READY", "largo") /\ SinRepetidos'
<1>0. "SUSPENDED_READY" \in Estados /\ "largo" \in Hilos /\ "push_ready" \in Puntos["largo"]
  BY DEF Estados, Hilos, Puntos
<1>. DEFINE p == Head(cola["SUSPENDED_READY"])
<1>1. /\ cola["SUSPENDED_READY"] # <<>> /\ Pop("SUSPENDED_READY") /\ Ir("largo", "pop_suspendido", "push_ready")
      /\ mano' = [mano EXCEPT !["largo"] = p] /\ UNCHANGED usuarioVars
  BY DEF LargoSacarSuspendido
<1>2. p \in Procesos /\ EnCola(p, "SUSPENDED_READY") /\ Sale("SUSPENDED_READY", p) /\ SinRepetidos'
  BY <1>0, <1>1, DeLugares, EnPop
<1>3. Toma("largo", p)
  BY <1>0, <1>1, <1>2, DeLugares, ManoToma DEF Cuelga
<1>4. \A q \in Procesos : ~Agarra("largo", q)
  <2>1. pc["largo"] = "pop_suspendido"
    BY <1>1 DEF Ir
  <2>2. mano["largo"] = NULL
    BY <2>1, DeLugares DEF ManosSegunPunto
  <2>. QED
    BY <1>0, <2>2, ManoVacia
<1>5. mano'["largo"] = p
  BY <1>0, <1>1, DeLugares
<1>. QED
  BY <1>0, <1>1, <1>2, <1>3, <1>4, <1>5, DeLugares, DeColaAMano

LEMMA MueveSacarNuevo ==
  ASSUME Lugares, LargoSacarNuevo
  PROVE  /\ Head(cola["NEW"]) \in Procesos /\ mano'["largo"] = Head(cola["NEW"])
         /\ Mudanza(Head(cola["NEW"]), "NEW", "largo") /\ SinRepetidos'
<1>0. "NEW" \in Estados /\ "largo" \in Hilos /\ "enviar_iniciar" \in Puntos["largo"]
  BY DEF Estados, Hilos, Puntos
<1>. DEFINE p == Head(cola["NEW"])
<1>1. /\ cola["NEW"] # <<>> /\ Pop("NEW") /\ Ir("largo", "pop_nuevo", "enviar_iniciar")
      /\ mano' = [mano EXCEPT !["largo"] = p] /\ UNCHANGED usuarioVars
  BY DEF LargoSacarNuevo
<1>2. p \in Procesos /\ EnCola(p, "NEW") /\ Sale("NEW", p) /\ SinRepetidos'
  BY <1>0, <1>1, DeLugares, EnPop
<1>3. Toma("largo", p)
  BY <1>0, <1>1, <1>2, DeLugares, ManoToma DEF Cuelga
<1>4. \A q \in Procesos : ~Agarra("largo", q)
  <2>1. pc["largo"] = "pop_nuevo"
    BY <1>1 DEF Ir
  <2>2. mano["largo"] = NULL
    BY <2>1, DeLugares DEF ManosSegunPunto
  <2>. QED
    BY <1>0, <2>2, ManoVacia
<1>5. mano'["largo"] = p
  BY <1>0, <1>1, DeLugares
<1>. QED
  BY <1>0, <1>1, <1>2, <1>3, <1>4, <1>5, DeLugares, DeColaAMano

LEMMA MuevePushReady ==
  ASSUME Lugares, LargoPushReady
  PROVE  /\ mano["largo"] \in Procesos
         /\ Mudanza(mano["largo"], "largo", "READY") /\ SinRepetidos'
<1>0. "READY" \in Estados /\ "largo" \in Hilos /\ "post_ready" \in Puntos["largo"]
  BY DEF Estados, Hilos, Puntos
<1>. DEFINE p == mano["largo"]
<1>1. /\ Push("READY", p) /\ Ir("largo", "push_ready", "post_ready") /\ mano' = [mano EXCEPT !["largo"] = NULL]
      /\ UNCHANGED usuarioVars
  BY DEF LargoPushReady
<1>2. pc["largo"] = "push_ready" /\ p \in Procesos
  <2>1. pc["largo"] = "push_ready"
    BY <1>1 DEF Ir
  <2>. QED
    BY <2>1, <1>0, DeLugares DEF ManosSegunPunto
<1>3. Entra("READY", p) /\ (~EnCola(p, "READY") => SinRepetidos')
  BY <1>0, <1>1, <1>2, DeLugares, EnPush
<1>4. Suelta("largo")
  BY <1>0, <1>1, DeLugares, ManoSuelta
<1>5. Agarra("largo", p) /\ \A q \in Procesos : Agarra("largo", q) => q = p
  BY <1>2 DEF Agarra
<1>6. Mudanza(p, "largo", "READY") /\ ~EnCola(p, "READY")
  BY <1>0, <1>1, <1>2, <1>3, <1>4, <1>5, DeLugares, DeManoACola
<1>. QED
  BY <1>2, <1>3, <1>6

LEMMA MuevePopReady ==
  ASSUME Lugares, CortoPopReady
  PROVE  /\ Head(cola["READY"]) \in Procesos /\ mano'["corto"] = Head(cola["READY"])
         /\ Mudanza(Head(cola["READY"]), "READY", "corto") /\ SinRepetidos'
<1>0. "READY" \in Estados /\ "corto" \in Hilos /\ "push_exec" \in Puntos["corto"]
  BY DEF Estados, Hilos, Puntos
<1>. DEFINE p == Head(cola["READY"])
<1>1. /\ cola["READY"] # <<>> /\ Pop("READY") /\ Ir("corto", "pop_ready", "push_exec")
      /\ mano' = [mano EXCEPT !["corto"] = p] /\ UNCHANGED usuarioVars
  BY DEF CortoPopReady
<1>2. p \in Procesos /\ EnCola(p, "READY") /\ Sale("READY", p) /\ SinRepetidos'
  BY <1>0, <1>1, DeLugares, EnPop
<1>3. Toma("corto", p)
  BY <1>0, <1>1, <1>2, DeLugares, ManoToma DEF Cuelga
<1>4. \A q \in Procesos : ~Agarra("corto", q)
  <2>1. pc["corto"] = "pop_ready"
    BY <1>1 DEF Ir
  <2>2. mano["corto"] = NULL
    BY <2>1, DeLugares DEF ManosSegunPunto
  <2>. QED
    BY <1>0, <2>2, ManoVacia
<1>5. mano'["corto"] = p
  BY <1>0, <1>1, DeLugares
<1>. QED
  BY <1>0, <1>1, <1>2, <1>3, <1>4, <1>5, DeLugares, DeColaAMano

LEMMA MuevePushExec ==
  ASSUME Lugares, CortoPushExec
  PROVE  /\ mano["corto"] \in Procesos
         /\ Mudanza(mano["corto"], "corto", "EXEC") /\ SinRepetidos'
<1>0. "EXEC" \in Estados /\ "corto" \in Hilos /\ "post_ejecutando" \in Puntos["corto"]
  BY DEF Estados, Hilos, Puntos
<1>. DEFINE p == mano["corto"]
<1>1. /\ Push("EXEC", p) /\ Ir("corto", "push_exec", "post_ejecutando") /\ mano' = [mano EXCEPT !["corto"] = NULL]
      /\ UNCHANGED usuarioVars
  BY DEF CortoPushExec
<1>2. pc["corto"] = "push_exec" /\ p \in Procesos
  <2>1. pc["corto"] = "push_exec"
    BY <1>1 DEF Ir
  <2>. QED
    BY <2>1, <1>0, DeLugares DEF ManosSegunPunto
<1>3. Entra("EXEC", p) /\ (~EnCola(p, "EXEC") => SinRepetidos')
  BY <1>0, <1>1, <1>2, DeLugares, EnPush
<1>4. Suelta("corto")
  BY <1>0, <1>1, DeLugares, ManoSuelta
<1>5. Agarra("corto", p) /\ \A q \in Procesos : Agarra("corto", q) => q = p
  BY <1>2 DEF Agarra
<1>6. Mudanza(p, "corto", "EXEC") /\ ~EnCola(p, "EXEC")
  BY <1>0, <1>1, <1>2, <1>3, <1>4, <1>5, DeLugares, DeManoACola
<1>. QED
  BY <1>2, <1>3, <1>6

LEMMA MueveSacarExec ==
  ASSUME Lugares, CpuSacarExec
  PROVE  /\ mano["cpu"] \in Procesos
         /\ Mudanza(mano["cpu"], "EXEC", "cpu") /\ SinRepetidos'
<1>0. "EXEC" \in Estados /\ "cpu" \in Hilos /\ "reubicar" \in Puntos["cpu"]
  BY DEF Estados, Hilos, Puntos
<1>. DEFINE p == mano["cpu"]
<1>1. /\ SacarProceso("EXEC", p) /\ Ir("cpu", "sacar_exec", "reubicar") /\ mano' = mano
      /\ UNCHANGED usuarioVars
  BY DEF CpuSacarExec
<1>2. pc["cpu"] = "sacar_exec" /\ p \in Procesos /\ cola["EXEC"] = <<p>>
  <2>1. pc["cpu"] = "sacar_exec"
    BY <1>1 DEF Ir
  <2>. QED
    BY <2>1, <1>0, DeLugares DEF ManosSegunPunto, Inductiva, ColasSegunPunto
<1>3. EnCola(p, "EXEC")
  BY <1>2 DEF EnCola, Contains
<1>4. Sale("EXEC", p) /\ SinRepetidos'
  BY <1>0, <1>1, DeLugares, EnSacar
<1>5. Toma("cpu", p)
  <2>1. pc'["cpu"] = "reubicar" /\ \A g \in Hilos \ {"cpu"} : pc'[g] = pc[g]
    BY <1>0, <1>1, DeLugares, AlIr
  <2>. QED
    BY <1>1, <2>1 DEF Toma, Agarra, Hilos
<1>6. \A q \in Procesos : ~Agarra("cpu", q)
  BY <1>2 DEF Agarra
<1>. QED
  BY <1>0, <1>1, <1>2, <1>3, <1>4, <1>5, <1>6, DeLugares, DeColaAMano

LEMMA MueveAReady ==
  ASSUME Lugares, CpuAReady
  PROVE  /\ mano["cpu"] \in Procesos
         /\ Mudanza(mano["cpu"], "cpu", "READY") /\ SinRepetidos'
<1>0. "READY" \in Estados /\ "cpu" \in Hilos /\ "post_ready" \in Puntos["cpu"]
  BY DEF Estados, Hilos, Puntos
<1>. DEFINE p == mano["cpu"]
<1>1. /\ InsertSorted("READY", p) /\ Ir("cpu", "reubicar", "post_ready") /\ mano' = [mano EXCEPT !["cpu"] = NULL]
      /\ UNCHANGED usuarioVars
  BY DEF CpuAReady
<1>2. pc["cpu"] = "reubicar" /\ p \in Procesos
  <2>1. pc["cpu"] = "reubicar"
    BY <1>1 DEF Ir
  <2>. QED
    BY <2>1, <1>0, DeLugares DEF ManosSegunPunto
<1>3. Entra("READY", p) /\ (~EnCola(p, "READY") => SinRepetidos')
  BY <1>0, <1>1, <1>2, DeLugares, EnInsertar
<1>4. Suelta("cpu")
  BY <1>0, <1>1, DeLugares, ManoSuelta
<1>5. Agarra("cpu", p) /\ \A q \in Procesos : Agarra("cpu", q) => q = p
  BY <1>2 DEF Agarra
<1>6. Mudanza(p, "cpu", "READY") /\ ~EnCola(p, "READY")
  BY <1>0, <1>1, <1>2, <1>3, <1>4, <1>5, DeLugares, DeManoACola
<1>. QED
  BY <1>2, <1>3, <1>6

LEMMA MueveABlocked ==
  ASSUME Lugares, CpuABlocked
  PROVE  /\ mano["cpu"] \in Procesos
         /\ Mudanza(mano["cpu"], "cpu", "BLOCKED") /\ SinRepetidos'
<1>0. "BLOCKED" \in Estados /\ "cpu" \in Hilos /\ "post_blocked" \in Puntos["cpu"]
  BY DEF Estados, Hilos, Puntos
<1>. DEFINE p == mano["cpu"]
<1>1. /\ Push("BLOCKED", p) /\ Ir("cpu", "reubicar", "post_blocked") /\ mano' = [mano EXCEPT !["cpu"] = NULL]
      /\ UNCHANGED usuarioVars
  BY DEF CpuABlocked
<1>2. pc["cpu"] = "reubicar" /\ p \in Procesos
  <2>1. pc["cpu"] = "reubicar"
    BY <1>1 DEF Ir
  <2>. QED
    BY <2>1, <1>0, DeLugares DEF ManosSegunPunto
<1>3. Entra("BLOCKED", p) /\ (~EnCola(p, "BLOCKED") => SinRepetidos')
  BY <1>0, <1>1, <1>2, DeLugares, EnPush
<1>4. Suelta("cpu")
  BY <1>0, <1>1, DeLugares, ManoSuelta
<1>5. Agarra("cpu", p) /\ \A q \in Procesos : Agarra("cpu", q) => q = p
  BY <1>2 DEF Agarra
<1>6. Mudanza(p, "cpu", "BLOCKED") /\ ~EnCola(p, "BLOCKED")
  BY <1>0, <1>1, <1>2, <1>3, <1>4, <1>5, DeLugares, DeManoACola
<1>. QED
  BY <1>2, <1>3, <1>6

LEMMA MueveAExit ==
  ASSUME Lugares, CpuAExit
  PROVE  /\ mano["cpu"] \in Procesos
         /\ Mudanza(mano["cpu"], "cpu", "EXIT") /\ SinRepetidos'
<1>0. "EXIT" \in Estados /\ "cpu" \in Hilos /\ "enviar_finalizar" \in Puntos["cpu"]
  BY DEF Estados, Hilos, Puntos
<1>. DEFINE p == mano["cpu"]
<1>1. /\ Push("EXIT", p) /\ Ir("cpu", "reubicar", "enviar_finalizar") /\ mano' = mano
      /\ UNCHANGED usuarioVars
  BY DEF CpuAExit
<1>2. pc["cpu"] = "reubicar" /\ p \in Procesos
  <2>1. pc["cpu"] = "reubicar"
    BY <1>1 DEF Ir
  <2>. QED
    BY <2>1, <1>0, DeLugares DEF ManosSegunPunto
<1>3. Entra("EXIT", p) /\ (~EnCola(p, "EXIT") => SinRepetidos')
  BY <1>0, <1>1, <1>2, DeLugares, EnPush
<1>4. Suelta("cpu")
  <2>1. pc'["cpu"] = "enviar_finalizar" /\ \A g \in Hilos \ {"cpu"} : pc'[g] = pc[g]
    BY <1>0, <1>1, DeLugares, AlIr
  <2>. QED
    BY <1>1, <2>1 DEF Suelta, Agarra, Hilos
<1>5. Agarra("cpu", p) /\ \A q \in Procesos : Agarra("cpu", q) => q = p
  BY <1>2 DEF Agarra
<1>6. Mudanza(p, "cpu", "EXIT") /\ ~EnCola(p, "EXIT")
  BY <1>0, <1>1, <1>2, <1>3, <1>4, <1>5, DeLugares, DeManoACola
<1>. QED
  BY <1>2, <1>3, <1>6

LEMMA MueveSacarExit ==
  ASSUME Lugares, CpuSacarExit
  PROVE  /\ mano["cpu"] \in Procesos
         /\ Mudanza(mano["cpu"], "EXIT", "afuera") /\ SinRepetidos'
<1>0. /\ "EXIT" \in Estados /\ "cpu" \in Hilos
      /\ "sacar_exit" \in Puntos["cpu"] /\ "post_multiprogramacion" \in Puntos["cpu"]
  BY DEF Estados, Hilos, Puntos
<1>. DEFINE p == mano["cpu"]
<1>1. /\ SacarProceso("EXIT", p) /\ Ir("cpu", "sacar_exit", "post_multiprogramacion")
      /\ mano' = [mano EXCEPT !["cpu"] = NULL]
      /\ consola' = consola /\ finalizados' = finalizados \cup {p}
  BY DEF CpuSacarExit
<1>2. pc["cpu"] = "sacar_exit" /\ p \in Procesos /\ EnCola(p, "EXIT")
  <2>1. pc["cpu"] = "sacar_exit"
    BY <1>1 DEF Ir
  <2>. QED
    BY <2>1, <1>0, DeLugares DEF ManosSegunPunto, ManosEnColas
<1>3. Sale("EXIT", p) /\ SinRepetidos'
  BY <1>0, <1>1, DeLugares, EnSacar
<1>4. Suelta("cpu")
  BY <1>0, <1>1, DeLugares, ManoSuelta
<1>5. \A q \in Procesos : ~Agarra("cpu", q)
  BY <1>2 DEF Agarra
<1>6. "EXIT" \in Sitios /\ EnSitio(p, "EXIT")
  BY <1>0, <1>2, SitioDe
<1>7. \A y \in Sitios : EnSitio(p, y) <=> y = "EXIT"
  BY <1>2, <1>6, DeLugares, UnicoSitio
<1>8. ASSUME NEW q \in Procesos, NEW z \in Sitios
      PROVE  EnSitio(q, z)' <=> IF q = p THEN z = "afuera" ELSE EnSitio(q, z)
  <2>1. CASE z \in Estados
    <3>1. (EnSitio(q, z) <=> EnCola(q, z)) /\ (EnSitio(q, z)' <=> EnCola(q, z)')
      BY <2>1, SitiosDistintos DEF EnSitio
    <3>2. z # "afuera"
      BY <2>1, SitiosDistintos
    <3>. QED
      BY <1>3, <1>7, <2>1, <3>1, <3>2 DEF Sale
  <2>2. CASE z \in Hilos
    <3>1. (EnSitio(q, z) <=> Agarra(z, q)) /\ (EnSitio(q, z)' <=> Agarra(z, q)')
      BY <2>2, SitiosDistintos DEF EnSitio
    <3>2. z # "afuera" /\ z # "EXIT"
      BY <1>0, <2>2, SitiosDistintos
    <3>. QED
      BY <1>4, <1>5, <1>7, <2>2, <3>1, <3>2 DEF Suelta
  <2>3. CASE z = "afuera"
    <3>1. (EnSitio(q, z) <=> ~Activo(q)) /\ (EnSitio(q, z)' <=> ~Activo(q)')
      BY <2>3, SitiosDistintos DEF EnSitio
    <3>2. Activo(q)' <=> Activo(q) /\ q # p
      BY <1>1 DEF Activo
    <3>. QED
      BY <2>3, <3>1, <3>2
  <2>. QED
    BY <2>1, <2>2, <2>3 DEF Sitios
<1>. QED
  BY <1>2, <1>3, <1>6, <1>8 DEF Mudanza

LEMMA MuevePopBlocked ==
  ASSUME Lugares, IoPopBlocked
  PROVE  /\ Head(cola["BLOCKED"]) \in Procesos /\ mano'["io"] = Head(cola["BLOCKED"])
         /\ Mudanza(Head(cola["BLOCKED"]), "BLOCKED", "io") /\ SinRepetidos'
<1>0. "BLOCKED" \in Estados /\ "io" \in Hilos /\ "tomar_blocked" \in Puntos["io"]
  BY DEF Estados, Hilos, Puntos
<1>. DEFINE p == Head(cola["BLOCKED"])
<1>1. /\ cola["BLOCKED"] # <<>> /\ Pop("BLOCKED") /\ Ir("io", "pop_blocked", "tomar_blocked")
      /\ mano' = [mano EXCEPT !["io"] = p] /\ UNCHANGED usuarioVars
  BY DEF IoPopBlocked
<1>2. p \in Procesos /\ EnCola(p, "BLOCKED") /\ Sale("BLOCKED", p) /\ SinRepetidos'
  BY <1>0, <1>1, DeLugares, EnPop
<1>3. Toma("io", p)
  BY <1>0, <1>1, <1>2, DeLugares, ManoToma DEF Cuelga
<1>4. \A q \in Procesos : ~Agarra("io", q)
  <2>1. pc["io"] = "pop_blocked"
    BY <1>1 DEF Ir
  <2>2. mano["io"] = NULL
    BY <2>1, DeLugares DEF ManosSegunPunto
  <2>. QED
    BY <1>0, <2>2, ManoVacia
<1>5. mano'["io"] = p
  BY <1>0, <1>1, DeLugares
<1>. QED
  BY <1>0, <1>1, <1>2, <1>3, <1>4, <1>5, DeLugares, DeColaAMano

LEMMA MuevePushSuspendido ==
  ASSUME Lugares, IoPushSuspendido
  PROVE  /\ mano["io"] \in Procesos
         /\ Mudanza(mano["io"], "io", "SUSPENDED_READY") /\ SinRepetidos'
<1>0. "SUSPENDED_READY" \in Estados /\ "io" \in Hilos /\ "post_entrando" \in Puntos["io"]
  BY DEF Estados, Hilos, Puntos
<1>. DEFINE p == mano["io"]
<1>1. /\ Push("SUSPENDED_READY", p) /\ Ir("io", "desbloquear", "post_entrando") /\ mano' = [mano EXCEPT !["io"] = NULL]
      /\ UNCHANGED usuarioVars
  BY DEF IoPushSuspendido
<1>2. pc["io"] = "desbloquear" /\ p \in Procesos
  <2>1. pc["io"] = "desbloquear"
    BY <1>1 DEF Ir
  <2>. QED
    BY <2>1, <1>0, DeLugares DEF ManosSegunPunto
<1>3. Entra("SUSPENDED_READY", p) /\ (~EnCola(p, "SUSPENDED_READY") => SinRepetidos')
  BY <1>0, <1>1, <1>2, DeLugares, EnPush
<1>4. Suelta("io")
  BY <1>0, <1>1, DeLugares, ManoSuelta
<1>5. Agarra("io", p) /\ \A q \in Procesos : Agarra("io", q) => q = p
  BY <1>2 DEF Agarra
<1>6. Mudanza(p, "io", "SUSPENDED_READY") /\ ~EnCola(p, "SUSPENDED_READY")
  BY <1>0, <1>1, <1>2, <1>3, <1>4, <1>5, DeLugares, DeManoACola
<1>. QED
  BY <1>2, <1>3, <1>6

LEMMA MueveDesbloquearReady ==
  ASSUME Lugares, IoPushReady
  PROVE  /\ mano["io"] \in Procesos
         /\ Mudanza(mano["io"], "io", "READY") /\ SinRepetidos'
<1>0. "READY" \in Estados /\ "io" \in Hilos /\ "post_ready" \in Puntos["io"]
  BY DEF Estados, Hilos, Puntos
<1>. DEFINE p == mano["io"]
<1>1. /\ Push("READY", p) /\ Ir("io", "desbloquear", "post_ready") /\ mano' = [mano EXCEPT !["io"] = NULL]
      /\ UNCHANGED usuarioVars
  BY DEF IoPushReady
<1>2. pc["io"] = "desbloquear" /\ p \in Procesos
  <2>1. pc["io"] = "desbloquear"
    BY <1>1 DEF Ir
  <2>. QED
    BY <2>1, <1>0, DeLugares DEF ManosSegunPunto
<1>3. Entra("READY", p) /\ (~EnCola(p, "READY") => SinRepetidos')
  BY <1>0, <1>1, <1>2, DeLugares, EnPush
<1>4. Suelta("io")
  BY <1>0, <1>1, DeLugares, ManoSuelta
<1>5. Agarra("io", p) /\ \A q \in Procesos : Agarra("io", q) => q = p
  BY <1>2 DEF Agarra
<1>6. Mudanza(p, "io", "READY") /\ ~EnCola(p, "READY")
  BY <1>0, <1>1, <1>2, <1>3, <1>4, <1>5, DeLugares, DeManoACola
<1>. QED
  BY <1>2, <1>3, <1>6

-----------------------------------------------------------------------------
\* The other steps carry nobody.
LEMMA PasosQuietos ==
  ASSUME Lugares,
         \/ \E p \in Procesos : AvisarEntrada(p)
         \/ LargoEsperarGrado \/ LargoEsperarEntrada \/ LargoSinSuspendidos
         \/ LargoEnviarIniciar \/ LargoRecibirTabla \/ LargoPostReady
         \/ CortoEsperarReady \/ CortoDesalojar \/ CortoNoDesalojar
         \/ CortoEsperarPlanificacion \/ CortoPostEjecutando \/ CpuEsperarEjecutando
         \/ CpuEnviarProceso \/ CpuRecibirPcb \/ CpuPostReady
         \/ CpuPostBlocked \/ CpuEnviarFinalizar \/ CpuRecibirFinalizar
         \/ CpuPostMultiprogramacion \/ CpuPostPlanificacion \/ IoEsperarBlocked
         \/ IoContarBloqueo \/ IoRecibirSuspender \/ IoPostMultiprogramacion
         \/ IoPostBlocked \/ IoDormir \/ IoTomarBlocked
         \/ IoPostEntrando \/ IoPostReady
         \/ DevolverProceso \/ Memoria \/ UNCHANGED vars
  PROVE  Quieto /\ SinRepetidos'
<1>. DEFINE Quietas == \A q \in Procesos, g \in Hilos : Agarra(g, q)' <=> Agarra(g, q)
<1>0. TypeOK /\ ManosSegunPunto /\ mano \in [Hilos -> Procesos \cup {NULL}] /\ NULL \notin Procesos
  BY DeLugares
<1>t. UNCHANGED usuarioVars => \A q \in Procesos : Activo(q)' <=> Activo(q)
  BY ActivosQuietos
<1>1. ASSUME NEW p \in Procesos, AvisarEntrada(p)
      PROVE  Quieto /\ SinRepetidos'
  <2>1. cola' = cola /\ pc' = pc /\ mano' = mano /\ finalizados' = finalizados
    BY <1>1 DEF AvisarEntrada
  <2>2. /\ consola[p] # "conectada" /\ consola'[p] # "conectada"
        /\ \A q \in Procesos \ {p} : consola'[q] = consola[q]
    BY <1>1, <1>0 DEF AvisarEntrada, TypeOK
  <2>3. \A q \in Procesos : Activo(q)' <=> Activo(q)
    BY <2>1, <2>2 DEF Activo
  <2>4. Quietas
    BY <2>1 DEF Agarra
  <2>. QED
    BY <2>1, <2>3, <2>4, SinMudanza, DeLugares
<1>2. CASE LargoEsperarGrado
  <2>1. "largo" \in Hilos /\ "entrando_a_ready" \in Puntos["largo"] /\ (Cuelga("largo", "multiprogramacion") <=> Cuelga("largo", "entrando_a_ready"))
    BY DEF Hilos, Puntos, Cuelga
  <2>2. Ir("largo", "multiprogramacion", "entrando_a_ready") /\ cola' = cola /\ mano' = mano /\ UNCHANGED usuarioVars
    BY <1>2 DEF LargoEsperarGrado
  <2>3. Quietas
    BY <1>0, <2>1, <2>2, ManoQuieta
  <2>. QED
    BY <1>t, <2>2, <2>3, SinMudanza, DeLugares
<1>3. CASE LargoEsperarEntrada
  <2>1. "largo" \in Hilos /\ "pop_suspendido" \in Puntos["largo"] /\ (Cuelga("largo", "entrando_a_ready") <=> Cuelga("largo", "pop_suspendido"))
    BY DEF Hilos, Puntos, Cuelga
  <2>2. Ir("largo", "entrando_a_ready", "pop_suspendido") /\ cola' = cola /\ mano' = mano /\ UNCHANGED usuarioVars
    BY <1>3 DEF LargoEsperarEntrada
  <2>3. Quietas
    BY <1>0, <2>1, <2>2, ManoQuieta
  <2>. QED
    BY <1>t, <2>2, <2>3, SinMudanza, DeLugares
<1>4. CASE LargoSinSuspendidos
  <2>1. "largo" \in Hilos /\ "pop_nuevo" \in Puntos["largo"] /\ (Cuelga("largo", "pop_suspendido") <=> Cuelga("largo", "pop_nuevo"))
    BY DEF Hilos, Puntos, Cuelga
  <2>2. Ir("largo", "pop_suspendido", "pop_nuevo") /\ cola' = cola /\ mano' = mano /\ UNCHANGED usuarioVars
    BY <1>4 DEF LargoSinSuspendidos
  <2>3. Quietas
    BY <1>0, <2>1, <2>2, ManoQuieta
  <2>. QED
    BY <1>t, <2>2, <2>3, SinMudanza, DeLugares
<1>5. CASE LargoEnviarIniciar
  <2>1. "largo" \in Hilos /\ "recibir_iniciar" \in Puntos["largo"] /\ (Cuelga("largo", "enviar_iniciar") <=> Cuelga("largo", "recibir_iniciar"))
    BY DEF Hilos, Puntos, Cuelga
  <2>2. Ir("largo", "enviar_iniciar", "recibir_iniciar") /\ cola' = cola /\ mano' = mano /\ UNCHANGED usuarioVars
    BY <1>5 DEF LargoEnviarIniciar
  <2>3. Quietas
    BY <1>0, <2>1, <2>2, ManoQuieta
  <2>. QED
    BY <1>t, <2>2, <2>3, SinMudanza, DeLugares
<1>6. CASE LargoRecibirTabla
  <2>1. "largo" \in Hilos /\ "push_ready" \in Puntos["largo"] /\ (Cuelga("largo", "recibir_iniciar") <=> Cuelga("largo", "push_ready"))
    BY DEF Hilos, Puntos, Cuelga
  <2>2. Ir("largo", "recibir_iniciar", "push_ready") /\ cola' = cola /\ mano' = mano /\ UNCHANGED usuarioVars
    BY <1>6 DEF LargoRecibirTabla
  <2>3. Quietas
    BY <1>0, <2>1, <2>2, ManoQuieta
  <2>. QED
    BY <1>t, <2>2, <2>3, SinMudanza, DeLugares
<1>7. CASE LargoPostReady
  <2>1. "largo" \in Hilos /\ "multiprogramacion" \in Puntos["largo"] /\ (Cuelga("largo", "post_ready") <=> Cuelga("largo", "multiprogramacion"))
    BY DEF Hilos, Puntos, Cuelga
  <2>2. Ir("largo", "post_ready", "multiprogramacion") /\ cola' = cola /\ mano' = mano /\ UNCHANGED usuarioVars
    BY <1>7 DEF LargoPostReady
  <2>3. Quietas
    BY <1>0, <2>1, <2>2, ManoQuieta
  <2>. QED
    BY <1>t, <2>2, <2>3, SinMudanza, DeLugares
<1>8. CASE CortoEsperarReady
  <2>1. "corto" \in Hilos /\ "desalojar" \in Puntos["corto"] /\ (Cuelga("corto", "ready") <=> Cuelga("corto", "desalojar"))
    BY DEF Hilos, Puntos, Cuelga
  <2>2. Ir("corto", "ready", "desalojar") /\ cola' = cola /\ mano' = mano /\ UNCHANGED usuarioVars
    BY <1>8 DEF CortoEsperarReady
  <2>3. Quietas
    BY <1>0, <2>1, <2>2, ManoQuieta
  <2>. QED
    BY <1>t, <2>2, <2>3, SinMudanza, DeLugares
<1>9. CASE CortoDesalojar
  <2>1. "corto" \in Hilos /\ "planificacion" \in Puntos["corto"] /\ (Cuelga("corto", "desalojar") <=> Cuelga("corto", "planificacion"))
    BY DEF Hilos, Puntos, Cuelga
  <2>2. Ir("corto", "desalojar", "planificacion") /\ cola' = cola /\ mano' = mano /\ UNCHANGED usuarioVars
    BY <1>9 DEF CortoDesalojar
  <2>3. Quietas
    BY <1>0, <2>1, <2>2, ManoQuieta
  <2>. QED
    BY <1>t, <2>2, <2>3, SinMudanza, DeLugares
<1>10. CASE CortoNoDesalojar
  <2>1. "corto" \in Hilos /\ "planificacion" \in Puntos["corto"] /\ (Cuelga("corto", "desalojar") <=> Cuelga("corto", "planificacion"))
    BY DEF Hilos, Puntos, Cuelga
  <2>2. Ir("corto", "desalojar", "planificacion") /\ cola' = cola /\ mano' = mano /\ UNCHANGED usuarioVars
    BY <1>10 DEF CortoNoDesalojar
  <2>3. Quietas
    BY <1>0, <2>1, <2>2, ManoQuieta
  <2>. QED
    BY <1>t, <2>2, <2>3, SinMudanza, DeLugares
<1>11. CASE CortoEsperarPlanificacion
  <2>1. "corto" \in Hilos /\ "pop_ready" \in Puntos["corto"] /\ (Cuelga("corto", "planificacion") <=> Cuelga("corto", "pop_ready"))
    BY DEF Hilos, Puntos, Cuelga
  <2>2. Ir("corto", "planificacion", "pop_ready") /\ cola' = cola /\ mano' = mano /\ UNCHANGED usuarioVars
    BY <1>11 DEF CortoEsperarPlanificacion
  <2>3. Quietas
    BY <1>0, <2>1, <2>2, ManoQuieta
  <2>. QED
    BY <1>t, <2>2, <2>3, SinMudanza, DeLugares
<1>12. CASE CortoPostEjecutando
  <2>1. "corto" \in Hilos /\ "ready" \in Puntos["corto"] /\ (Cuelga("corto", "post_ejecutando") <=> Cuelga("corto", "ready"))
    BY DEF Hilos, Puntos, Cuelga
  <2>2. Ir("corto", "post_ejecutando", "ready") /\ cola' = cola /\ mano' = mano /\ UNCHANGED usuarioVars
    BY <1>12 DEF CortoPostEjecutando
  <2>3. Quietas
    BY <1>0, <2>1, <2>2, ManoQuieta
  <2>. QED
    BY <1>t, <2>2, <2>3, SinMudanza, DeLugares
<1>13. CASE CpuEsperarEjecutando
  <2>1. "cpu" \in Hilos /\ "enviar_proceso" \in Puntos["cpu"] /\ (Cuelga("cpu", "ejecutando") <=> Cuelga("cpu", "enviar_proceso"))
    BY DEF Hilos, Puntos, Cuelga
  <2>2. Ir("cpu", "ejecutando", "enviar_proceso") /\ cola' = cola /\ mano' = mano /\ UNCHANGED usuarioVars
    BY <1>13 DEF CpuEsperarEjecutando
  <2>3. Quietas
    BY <1>0, <2>1, <2>2, ManoQuieta
  <2>. QED
    BY <1>t, <2>2, <2>3, SinMudanza, DeLugares
<1>14. CASE CpuEnviarProceso
  <2>1. "cpu" \in Hilos /\ "recibir_pcb" \in Puntos["cpu"]
    BY DEF Hilos, Puntos
  <2>2. /\ Ir("cpu", "enviar_proceso", "recibir_pcb") /\ cola' = cola /\ UNCHANGED usuarioVars
        /\ mano' = [mano EXCEPT !["cpu"] = Head(cola["EXEC"])]
    BY <1>14 DEF CpuEnviarProceso
  <2>3. Quietas
    <3>1. /\ pc["cpu"] = "enviar_proceso" /\ pc'["cpu"] = "recibir_pcb"
          /\ \A g \in Hilos \ {"cpu"} : pc'[g] = pc[g] /\ mano'[g] = mano[g]
      BY <1>0, <2>1, <2>2, AlIr
    <3>. QED
      BY <3>1 DEF Agarra, Hilos
  <2>. QED
    BY <1>t, <2>2, <2>3, SinMudanza, DeLugares
<1>15. CASE CpuRecibirPcb
  <2>1. "cpu" \in Hilos /\ "sacar_exec" \in Puntos["cpu"] /\ (Cuelga("cpu", "recibir_pcb") <=> Cuelga("cpu", "sacar_exec"))
    BY DEF Hilos, Puntos, Cuelga
  <2>2. Ir("cpu", "recibir_pcb", "sacar_exec") /\ cola' = cola /\ mano' = mano /\ UNCHANGED usuarioVars
    BY <1>15 DEF CpuRecibirPcb
  <2>3. Quietas
    BY <1>0, <2>1, <2>2, ManoQuieta
  <2>. QED
    BY <1>t, <2>2, <2>3, SinMudanza, DeLugares
<1>16. CASE CpuPostReady
  <2>1. "cpu" \in Hilos /\ "post_planificacion" \in Puntos["cpu"] /\ (Cuelga("cpu", "post_ready") <=> Cuelga("cpu", "post_planificacion"))
    BY DEF Hilos, Puntos, Cuelga
  <2>2. Ir("cpu", "post_ready", "post_planificacion") /\ cola' = cola /\ mano' = mano /\ UNCHANGED usuarioVars
    BY <1>16 DEF CpuPostReady
  <2>3. Quietas
    BY <1>0, <2>1, <2>2, ManoQuieta
  <2>. QED
    BY <1>t, <2>2, <2>3, SinMudanza, DeLugares
<1>17. CASE CpuPostBlocked
  <2>1. "cpu" \in Hilos /\ "post_planificacion" \in Puntos["cpu"] /\ (Cuelga("cpu", "post_blocked") <=> Cuelga("cpu", "post_planificacion"))
    BY DEF Hilos, Puntos, Cuelga
  <2>2. Ir("cpu", "post_blocked", "post_planificacion") /\ cola' = cola /\ mano' = mano /\ UNCHANGED usuarioVars
    BY <1>17 DEF CpuPostBlocked
  <2>3. Quietas
    BY <1>0, <2>1, <2>2, ManoQuieta
  <2>. QED
    BY <1>t, <2>2, <2>3, SinMudanza, DeLugares
<1>18. CASE CpuEnviarFinalizar
  <2>1. "cpu" \in Hilos /\ "recibir_finalizar" \in Puntos["cpu"] /\ (Cuelga("cpu", "enviar_finalizar") <=> Cuelga("cpu", "recibir_finalizar"))
    BY DEF Hilos, Puntos, Cuelga
  <2>2. Ir("cpu", "enviar_finalizar", "recibir_finalizar") /\ cola' = cola /\ mano' = mano /\ UNCHANGED usuarioVars
    BY <1>18 DEF CpuEnviarFinalizar
  <2>3. Quietas
    BY <1>0, <2>1, <2>2, ManoQuieta
  <2>. QED
    BY <1>t, <2>2, <2>3, SinMudanza, DeLugares
<1>19. CASE CpuRecibirFinalizar
  <2>1. "cpu" \in Hilos /\ "sacar_exit" \in Puntos["cpu"] /\ (Cuelga("cpu", "recibir_finalizar") <=> Cuelga("cpu", "sacar_exit"))
    BY DEF Hilos, Puntos, Cuelga
  <2>2. Ir("cpu", "recibir_finalizar", "sacar_exit") /\ cola' = cola /\ mano' = mano /\ UNCHANGED usuarioVars
    BY <1>19 DEF CpuRecibirFinalizar
  <2>3. Quietas
    BY <1>0, <2>1, <2>2, ManoQuieta
  <2>. QED
    BY <1>t, <2>2, <2>3, SinMudanza, DeLugares
<1>20. CASE CpuPostMultiprogramacion
  <2>1. "cpu" \in Hilos /\ "post_planificacion" \in Puntos["cpu"] /\ (Cuelga("cpu", "post_multiprogramacion") <=> Cuelga("cpu", "post_planificacion"))
    BY DEF Hilos, Puntos, Cuelga
  <2>2. Ir("cpu", "post_multiprogramacion", "post_planificacion") /\ cola' = cola /\ mano' = mano /\ UNCHANGED usuarioVars
    BY <1>20 DEF CpuPostMultiprogramacion
  <2>3. Quietas
    BY <1>0, <2>1, <2>2, ManoQuieta
  <2>. QED
    BY <1>t, <2>2, <2>3, SinMudanza, DeLugares
<1>21. CASE CpuPostPlanificacion
  <2>1. "cpu" \in Hilos /\ "ejecutando" \in Puntos["cpu"] /\ (Cuelga("cpu", "post_planificacion") <=> Cuelga("cpu", "ejecutando"))
    BY DEF Hilos, Puntos, Cuelga
  <2>2. Ir("cpu", "post_planificacion", "ejecutando") /\ cola' = cola /\ mano' = mano /\ UNCHANGED usuarioVars
    BY <1>21 DEF CpuPostPlanificacion
  <2>3. Quietas
    BY <1>0, <2>1, <2>2, ManoQuieta
  <2>. QED
    BY <1>t, <2>2, <2>3, SinMudanza, DeLugares
<1>22. CASE IoEsperarBlocked
  <2>1. "io" \in Hilos /\ "suspender" \in Puntos["io"] /\ (Cuelga("io", "blocked") <=> Cuelga("io", "suspender"))
    BY DEF Hilos, Puntos, Cuelga
  <2>2. Ir("io", "blocked", "suspender") /\ cola' = cola /\ mano' = mano /\ UNCHANGED usuarioVars
    BY <1>22 DEF IoEsperarBlocked
  <2>3. Quietas
    BY <1>0, <2>1, <2>2, ManoQuieta
  <2>. QED
    BY <1>t, <2>2, <2>3, SinMudanza, DeLugares
<1>23. CASE IoContarBloqueo
  <2>. DEFINE p == cola["BLOCKED"][cursor]
  <2>1. "io" \in Hilos /\ {"recibir_suspender", "suspender"} \subseteq Puntos["io"]
    BY DEF Hilos, Puntos
  <2>2. cola' = cola /\ UNCHANGED usuarioVars
    BY <1>23 DEF IoContarBloqueo
  <2>3. /\ pc["io"] = "suspender" /\ pc'["io"] \in {"recibir_suspender", "suspender"}
        /\ \A g \in Hilos \ {"io"} : pc'[g] = pc[g] /\ mano'[g] = mano[g]
    <3>1. CASE Vencido(p)
      <4>1. Ir("io", "suspender", "recibir_suspender") /\ mano' = [mano EXCEPT !["io"] = p]
        BY <1>23, <3>1 DEF IoContarBloqueo
      <4>. QED
        BY <1>0, <2>1, <4>1, AlIr
    <3>2. CASE ~Vencido(p)
      <4>1. Ir("io", "suspender", "suspender") /\ mano' = mano
        BY <1>23, <3>2 DEF IoContarBloqueo
      <4>. QED
        BY <1>0, <2>1, <4>1, AlIr
    <3>. QED
      BY <3>1, <3>2
  <2>4. Quietas
    BY <2>3 DEF Agarra, Hilos
  <2>. QED
    BY <1>t, <2>2, <2>4, SinMudanza, DeLugares
<1>24. CASE IoRecibirSuspender
  <2>1. "io" \in Hilos /\ "post_multiprogramacion" \in Puntos["io"]
    BY DEF Hilos, Puntos
  <2>2. /\ Ir("io", "recibir_suspender", "post_multiprogramacion") /\ cola' = cola
        /\ mano' = [mano EXCEPT !["io"] = NULL] /\ UNCHANGED usuarioVars
    BY <1>24 DEF IoRecibirSuspender
  <2>3. Quietas
    <3>1. /\ pc["io"] = "recibir_suspender" /\ pc'["io"] = "post_multiprogramacion"
          /\ \A g \in Hilos \ {"io"} : pc'[g] = pc[g] /\ mano'[g] = mano[g]
      BY <1>0, <2>1, <2>2, AlIr
    <3>. QED
      BY <3>1 DEF Agarra, Hilos
  <2>. QED
    BY <1>t, <2>2, <2>3, SinMudanza, DeLugares
<1>25. CASE IoPostMultiprogramacion
  <2>1. "io" \in Hilos /\ "suspender" \in Puntos["io"] /\ (Cuelga("io", "post_multiprogramacion") <=> Cuelga("io", "suspender"))
    BY DEF Hilos, Puntos, Cuelga
  <2>2. Ir("io", "post_multiprogramacion", "suspender") /\ cola' = cola /\ mano' = mano /\ UNCHANGED usuarioVars
    BY <1>25 DEF IoPostMultiprogramacion
  <2>3. Quietas
    BY <1>0, <2>1, <2>2, ManoQuieta
  <2>. QED
    BY <1>t, <2>2, <2>3, SinMudanza, DeLugares
<1>26. CASE IoPostBlocked
  <2>1. "io" \in Hilos /\ "realizar_io" \in Puntos["io"] /\ (Cuelga("io", "suspender") <=> Cuelga("io", "realizar_io"))
    BY DEF Hilos, Puntos, Cuelga
  <2>2. Ir("io", "suspender", "realizar_io") /\ cola' = cola /\ mano' = mano /\ UNCHANGED usuarioVars
    BY <1>26 DEF IoPostBlocked
  <2>3. Quietas
    BY <1>0, <2>1, <2>2, ManoQuieta
  <2>. QED
    BY <1>t, <2>2, <2>3, SinMudanza, DeLugares
<1>27. CASE IoDormir
  <2>1. "io" \in Hilos /\ {"blocked", "pop_blocked"} \subseteq Puntos["io"]
    BY DEF Hilos, Puntos
  <2>2. /\ Ir("io", "realizar_io", "blocked") \/ Ir("io", "realizar_io", "pop_blocked")
        /\ cola' = cola /\ mano' = mano /\ UNCHANGED usuarioVars
    BY <1>27 DEF IoDormir
  <2>3. /\ pc["io"] = "realizar_io" /\ pc'["io"] \in {"blocked", "pop_blocked"}
        /\ \A g \in Hilos \ {"io"} : pc'[g] = pc[g]
    BY <1>0, <2>1, <2>2, AlIr
  <2>4. Quietas
    BY <2>2, <2>3 DEF Agarra, Hilos
  <2>. QED
    BY <1>t, <2>2, <2>4, SinMudanza, DeLugares
<1>28. CASE IoTomarBlocked
  <2>1. "io" \in Hilos /\ "desbloquear" \in Puntos["io"] /\ (Cuelga("io", "tomar_blocked") <=> Cuelga("io", "desbloquear"))
    BY DEF Hilos, Puntos, Cuelga
  <2>2. Ir("io", "tomar_blocked", "desbloquear") /\ cola' = cola /\ mano' = mano /\ UNCHANGED usuarioVars
    BY <1>28 DEF IoTomarBlocked
  <2>3. Quietas
    BY <1>0, <2>1, <2>2, ManoQuieta
  <2>. QED
    BY <1>t, <2>2, <2>3, SinMudanza, DeLugares
<1>29. CASE IoPostEntrando
  <2>1. "io" \in Hilos /\ "blocked" \in Puntos["io"] /\ (Cuelga("io", "post_entrando") <=> Cuelga("io", "blocked"))
    BY DEF Hilos, Puntos, Cuelga
  <2>2. Ir("io", "post_entrando", "blocked") /\ cola' = cola /\ mano' = mano /\ UNCHANGED usuarioVars
    BY <1>29 DEF IoPostEntrando
  <2>3. Quietas
    BY <1>0, <2>1, <2>2, ManoQuieta
  <2>. QED
    BY <1>t, <2>2, <2>3, SinMudanza, DeLugares
<1>30. CASE IoPostReady
  <2>1. "io" \in Hilos /\ "blocked" \in Puntos["io"] /\ (Cuelga("io", "post_ready") <=> Cuelga("io", "blocked"))
    BY DEF Hilos, Puntos, Cuelga
  <2>2. Ir("io", "post_ready", "blocked") /\ cola' = cola /\ mano' = mano /\ UNCHANGED usuarioVars
    BY <1>30 DEF IoPostReady
  <2>3. Quietas
    BY <1>0, <2>1, <2>2, ManoQuieta
  <2>. QED
    BY <1>t, <2>2, <2>3, SinMudanza, DeLugares
<1>31. CASE DevolverProceso
  <2>1. cola' = cola /\ pc' = pc /\ mano' = mano /\ UNCHANGED usuarioVars
    BY <1>31 DEF DevolverProceso
  <2>2. Quietas
    BY <2>1 DEF Agarra
  <2>. QED
    BY <1>t, <2>1, <2>2, SinMudanza, DeLugares
<1>32. CASE Memoria
  <2>1. cola' = cola /\ pc' = pc /\ mano' = mano /\ UNCHANGED usuarioVars
    BY <1>32 DEF Memoria, MemoriaIniciar, MemoriaCambiar, Responder
  <2>2. Quietas
    BY <2>1 DEF Agarra
  <2>. QED
    BY <1>t, <2>1, <2>2, SinMudanza, DeLugares
<1>33. CASE UNCHANGED vars
  <2>1. cola' = cola /\ pc' = pc /\ mano' = mano /\ UNCHANGED usuarioVars
    BY <1>33 DEF vars, usuarioVars
  <2>2. Quietas
    BY <2>1 DEF Agarra
  <2>. QED
    BY <1>t, <2>1, <2>2, SinMudanza, DeLugares
<1>. QED
  BY <1>1, <1>2, <1>3, <1>4, <1>5, <1>6, <1>7, <1>8, <1>9, <1>10, <1>11, <1>12,
     <1>13, <1>14, <1>15, <1>16, <1>17, <1>18, <1>19, <1>20, <1>21, <1>22, <1>23,
     <1>24, <1>25, <1>26, <1>27, <1>28, <1>29, <1>30, <1>31, <1>32, <1>33

-----------------------------------------------------------------------------
\* The ways of each thread: from a queue to its hands and from them to another.
Flechas == [
  largo |-> {<<"SUSPENDED_READY", "largo">>, <<"NEW", "largo">>, <<"largo", "READY">>},
  corto |-> {<<"READY", "corto">>, <<"corto", "EXEC">>},
  cpu   |-> {<<"EXEC", "cpu">>, <<"cpu", "READY">>, <<"cpu", "BLOCKED">>, <<"cpu", "EXIT">>,
             <<"EXIT", "afuera">>},
  io    |-> {<<"BLOCKED", "io">>, <<"io", "SUSPENDED_READY">>, <<"io", "READY">>}]
Camina(h) ==
  \/ Quieto
  \/ \E p \in Procesos, f \in Flechas[h] : Mudanza(p, f[1], f[2])
Ajenos(h) == \A g \in Hilos \ {h} : pc'[g] = pc[g] /\ mano'[g] = mano[g]

LEMMA FlechasTipo ==
  ASSUME NEW h \in Hilos, NEW f \in Flechas[h]
  PROVE  f[1] \in Sitios /\ f[2] \in Sitios
BY DEF Hilos, Flechas, Sitios, Estados

LEMMA LargoCamina ==
  ASSUME Lugares, Largo
  PROVE  Camina("largo") /\ SinRepetidos' /\ Ajenos("largo")
<1>1. ASSUME LargoSacarSuspendido PROVE Camina("largo") /\ SinRepetidos'
  BY <1>1, MueveSacarSuspendido DEF Camina, Flechas
<1>2. ASSUME LargoSacarNuevo PROVE Camina("largo") /\ SinRepetidos'
  BY <1>2, MueveSacarNuevo DEF Camina, Flechas
<1>3. ASSUME LargoPushReady PROVE Camina("largo") /\ SinRepetidos'
  BY <1>3, MuevePushReady DEF Camina, Flechas
<1>4. ASSUME ~(LargoSacarSuspendido \/ LargoSacarNuevo \/ LargoPushReady)
      PROVE  Camina("largo") /\ SinRepetidos'
  BY <1>4, PasosQuietos DEF Largo, Camina
<1>5. Ajenos("largo")
  <2>1. pc \in [Hilos -> UNION {Puntos[h] : h \in Hilos}] /\ mano \in [Hilos -> Procesos \cup {NULL}]
    BY DeLugares DEF TypeOK, TipoPc
  <2>. QED
    BY <2>1 DEF Ajenos, Ir, Largo, LargoEsperarGrado, LargoEsperarEntrada,
                LargoSacarSuspendido, LargoSinSuspendidos, LargoSacarNuevo,
                LargoEnviarIniciar, LargoRecibirTabla, LargoPushReady, LargoPostReady
<1>. QED
  BY <1>1, <1>2, <1>3, <1>4, <1>5

LEMMA CortoCamina ==
  ASSUME Lugares, Corto
  PROVE  Camina("corto") /\ SinRepetidos' /\ Ajenos("corto")
<1>1. ASSUME CortoPopReady PROVE Camina("corto") /\ SinRepetidos'
  BY <1>1, MuevePopReady DEF Camina, Flechas
<1>2. ASSUME CortoPushExec PROVE Camina("corto") /\ SinRepetidos'
  BY <1>2, MuevePushExec DEF Camina, Flechas
<1>3. ASSUME ~(CortoPopReady \/ CortoPushExec) PROVE Camina("corto") /\ SinRepetidos'
  BY <1>3, PasosQuietos DEF Corto, Camina
<1>4. Ajenos("corto")
  <2>1. pc \in [Hilos -> UNION {Puntos[h] : h \in Hilos}] /\ mano \in [Hilos -> Procesos \cup {NULL}]
    BY DeLugares DEF TypeOK, TipoPc
  <2>. QED
    BY <2>1 DEF Ajenos, Ir, Corto, CortoEsperarReady, CortoDesalojar, CortoNoDesalojar,
                CortoEsperarPlanificacion, CortoPopReady, CortoPushExec, CortoPostEjecutando
<1>. QED
  BY <1>1, <1>2, <1>3, <1>4

LEMMA CpuCamina ==
  ASSUME Lugares, Cpu
  PROVE  Camina("cpu") /\ SinRepetidos' /\ Ajenos("cpu")
<1>1. ASSUME CpuSacarExec PROVE Camina("cpu") /\ SinRepetidos'
  BY <1>1, MueveSacarExec DEF Camina, Flechas
<1>2. ASSUME CpuAReady PROVE Camina("cpu") /\ SinRepetidos'
  BY <1>2, MueveAReady DEF Camina, Flechas
<1>3. ASSUME CpuABlocked PROVE Camina("cpu") /\ SinRepetidos'
  BY <1>3, MueveABlocked DEF Camina, Flechas
<1>4. ASSUME CpuAExit PROVE Camina("cpu") /\ SinRepetidos'
  BY <1>4, MueveAExit DEF Camina, Flechas
<1>5. ASSUME CpuSacarExit PROVE Camina("cpu") /\ SinRepetidos'
  BY <1>5, MueveSacarExit DEF Camina, Flechas
<1>6. ASSUME ~(CpuSacarExec \/ CpuAReady \/ CpuABlocked \/ CpuAExit \/ CpuSacarExit)
      PROVE  Camina("cpu") /\ SinRepetidos'
  BY <1>6, PasosQuietos DEF Cpu, Camina
<1>7. Ajenos("cpu")
  <2>1. pc \in [Hilos -> UNION {Puntos[h] : h \in Hilos}] /\ mano \in [Hilos -> Procesos \cup {NULL}]
    BY DeLugares DEF TypeOK, TipoPc
  <2>2. CASE CpuRecibirPcb
    BY <2>1, <2>2 DEF Ajenos, Ir, CpuRecibirPcb
  <2>3. CASE ~CpuRecibirPcb
    BY <2>1, <2>3 DEF Ajenos, Ir, Cpu, CpuEsperarEjecutando, CpuEnviarProceso, CpuSacarExec,
                CpuAReady, CpuPostReady, CpuABlocked, CpuPostBlocked, CpuAExit,
                CpuEnviarFinalizar, CpuRecibirFinalizar, CpuSacarExit,
                CpuPostMultiprogramacion, CpuPostPlanificacion
  <2>. QED
    BY <2>2, <2>3
<1>. QED
  BY <1>1, <1>2, <1>3, <1>4, <1>5, <1>6, <1>7

LEMMA IoCamina ==
  ASSUME Lugares, Io
  PROVE  Camina("io") /\ SinRepetidos' /\ Ajenos("io")
<1>1. ASSUME IoPopBlocked PROVE Camina("io") /\ SinRepetidos'
  BY <1>1, MuevePopBlocked DEF Camina, Flechas
<1>2. ASSUME IoPushSuspendido PROVE Camina("io") /\ SinRepetidos'
  BY <1>2, MuevePushSuspendido DEF Camina, Flechas
<1>3. ASSUME IoPushReady PROVE Camina("io") /\ SinRepetidos'
  BY <1>3, MueveDesbloquearReady DEF Camina, Flechas
<1>4. ASSUME ~(IoPopBlocked \/ IoPushSuspendido \/ IoPushReady)
      PROVE  Camina("io") /\ SinRepetidos'
  BY <1>4, PasosQuietos DEF Io, Camina
<1>5. Ajenos("io")
  <2>1. pc \in [Hilos -> UNION {Puntos[h] : h \in Hilos}] /\ mano \in [Hilos -> Procesos \cup {NULL}]
    BY DeLugares DEF TypeOK, TipoPc
  <2>2. CASE IoContarBloqueo
    BY <2>1, <2>2 DEF Ajenos, Ir, IoContarBloqueo
  <2>3. CASE IoDormir
    BY <2>1, <2>3 DEF Ajenos, Ir, IoDormir
  <2>4. CASE ~(IoContarBloqueo \/ IoDormir)
    BY <2>1, <2>4 DEF Ajenos, Ir, Io, IoEsperarBlocked, IoRecibirSuspender,
                IoPostMultiprogramacion, IoPostBlocked, IoPopBlocked, IoTomarBlocked,
                IoPushSuspendido, IoPostEntrando, IoPushReady, IoPostReady
  <2>. QED
    BY <2>2, <2>3, <2>4
<1>. QED
  BY <1>1, <1>2, <1>3, <1>4, <1>5

\* The other processes' steps, and those of a console after it has come.
LEMMA OtrosQuietos ==
  ASSUME Lugares,
         (\E p \in Procesos : AvisarEntrada(p)) \/ DevolverProceso \/ Memoria \/ UNCHANGED vars
  PROVE  Quieto /\ SinRepetidos' /\ pc' = pc /\ mano' = mano
<1>1. Quieto /\ SinRepetidos'
  BY PasosQuietos
<1>2. pc' = pc /\ mano' = mano
  BY DEF AvisarEntrada, DevolverProceso, Memoria, MemoriaIniciar, MemoriaCambiar, Responder, vars
<1>. QED
  BY <1>1, <1>2

\* A step that has no way out of a queue leaves there who is there.
LEMMA Quedan ==
  ASSUME UnLugar, NEW h \in Hilos, Camina(h), NEW e \in Estados,
         \A f \in Flechas[h] : f[1] # e,
         NEW q \in Procesos, EnCola(q, e)
  PROVE  EnCola(q, e)'
<1>1. e \in Sitios /\ EnSitio(q, e) /\ (EnSitio(q, e)' <=> EnCola(q, e)')
  BY SitiosDistintos DEF EnSitio, Sitios
<1>2. CASE Quieto
  BY <1>1, <1>2 DEF Quieto
<1>3. CASE \E p \in Procesos, f \in Flechas[h] : Mudanza(p, f[1], f[2])
  <2>1. PICK p \in Procesos, f \in Flechas[h] : Mudanza(p, f[1], f[2])
    BY <1>3
  <2>2. f[1] \in Sitios /\ f[1] # e
    BY FlechasTipo
  <2>3. q # p
    BY <1>1, <2>1, <2>2, UnicoSitio DEF Mudanza
  <2>. QED
    BY <1>1, <2>1, <2>3 DEF Mudanza
<1>. QED
  BY <1>2, <1>3 DEF Camina

LEMMA UnLugarCamina ==
  ASSUME UnLugar, NEW h \in Hilos, Camina(h)
  PROVE  UnLugar'
BY UnLugarQuieto, UnLugarMudanza, FlechasTipo DEF Camina

\* Six actions write a field of a process.
LEMMA QuienesEscriben ==
  ASSUME [Next]_vars,
         ~(LargoRecibirTabla \/ LargoPushReady \/ CpuRecibirPcb \/ IoContarBloqueo
             \/ IoRecibirSuspender \/ IoDormir)
  PROVE  proc' = proc
<1>1. Largo => proc' = proc
  BY DEF Largo, LargoEsperarGrado, LargoEsperarEntrada, LargoSacarSuspendido,
              LargoSinSuspendidos, LargoSacarNuevo, LargoEnviarIniciar, LargoPostReady
<1>2. Corto => proc' = proc
  BY DEF Corto, CortoEsperarReady, CortoDesalojar, CortoNoDesalojar,
         CortoEsperarPlanificacion, CortoPopReady, CortoPushExec, CortoPostEjecutando
<1>3. Cpu => proc' = proc
  BY DEF Cpu, CpuEsperarEjecutando, CpuEnviarProceso, CpuSacarExec, CpuAReady,
              CpuPostReady, CpuABlocked, CpuPostBlocked, CpuAExit, CpuEnviarFinalizar,
              CpuRecibirFinalizar, CpuSacarExit, CpuPostMultiprogramacion,
              CpuPostPlanificacion
<1>4. Io => proc' = proc
  BY DEF Io, IoEsperarBlocked, IoPostMultiprogramacion, IoPostBlocked, IoPopBlocked,
              IoTomarBlocked, IoPushSuspendido, IoPostEntrando, IoPushReady, IoPostReady
<1>5. (\E p \in Procesos : Consola(p)) \/ DevolverProceso \/ Memoria \/ UNCHANGED vars
        => proc' = proc
  BY DEF Consola, IniciarProceso, AvisarEntrada, DevolverProceso, Memoria, MemoriaIniciar,
         MemoriaCambiar, Responder, vars
<1>. QED
BY <1>1, <1>2, <1>3, <1>4, <1>5 DEF Next, Reposo

\* Who the CPU thread is ending, and who the I/O thread is suspending, stay
\* where those threads found them.
LEMMA SuspendidosQuietos ==
  ASSUME Lugares, [Next]_vars, ~IoRecibirSuspender, ~LargoPushReady
  PROVE  \A q \in Procesos : proc'[q].suspendido = proc[q].suspendido
<1>0. proc \in [Procesos -> TProceso] /\ mano \in [Hilos -> Procesos \cup {NULL}]
  BY DeLugares DEF TypeOK
<1>1. CASE proc' = proc
  BY <1>1
<1>2. CASE LargoRecibirTabla
  BY <1>0, <1>2 DEF LargoRecibirTabla, TProceso
<1>3. CASE CpuRecibirPcb
  <2>1. PICK e : proc' = [proc EXCEPT ![mano["cpu"]] =
                     IF devolucion.estado = "BLOCKED"
                     THEN [@ EXCEPT !.bloqueo_restante = devolucion.tiempo,
                                    !.tiempo_bloqueado = 0, !.estimacion_rafaga = e]
                     ELSE [@ EXCEPT !.estimacion_rafaga = e]]
    BY <1>3 DEF CpuRecibirPcb
  <2>. QED
    BY <1>0, <2>1 DEF TProceso
<1>4. CASE IoContarBloqueo
  BY <1>0, <1>4 DEF IoContarBloqueo, TProceso
<1>5. CASE IoDormir
  BY <1>0, <1>5 DEF IoDormir, TProceso
<1>6. CASE proc' # proc
  BY <1>1, <1>2, <1>3, <1>4, <1>5, QuienesEscriben
<1>. QED
  BY <1>1, <1>6

LEMMA EnExitPaso ==
  ASSUME Lugares, [Next]_vars
  PROVE  pc'["cpu"] \in {"enviar_finalizar", "recibir_finalizar", "sacar_exit"}
           => EnCola(mano["cpu"], "EXIT")'
<1>. DEFINE P == pc'["cpu"] \in {"enviar_finalizar", "recibir_finalizar", "sacar_exit"}
                   => EnCola(mano["cpu"], "EXIT")'
<1>0. /\ "EXIT" \in Estados /\ {"cpu", "largo", "corto", "io"} \subseteq Hilos
      /\ pc["cpu"] \in {"enviar_finalizar", "recibir_finalizar", "sacar_exit"}
           => EnCola(mano["cpu"], "EXIT") /\ mano["cpu"] \in Procesos
  BY DeLugares DEF Estados, Hilos, ManosEnColas, ManosSegunPunto
<1>1. ASSUME pc'["cpu"] = pc["cpu"], mano'["cpu"] = mano["cpu"],
             \A q \in Procesos : EnCola(q, "EXIT") => EnCola(q, "EXIT")'
      PROVE  P
  <2>1. ASSUME pc["cpu"] \in {"enviar_finalizar", "recibir_finalizar", "sacar_exit"}
        PROVE  Contains(cola'["EXIT"], mano["cpu"])
    BY <1>0, <1>1, <2>1 DEF EnCola
  <2>. QED
    BY <1>1, <2>1 DEF EnCola
<1>2. CASE Largo
  <2>1. \A f \in Flechas["largo"] : f[1] # "EXIT"
    BY DEF Flechas
  <2>. QED
    BY <1>0, <1>1, <1>2, <2>1, LargoCamina, Quedan, DeLugares DEF Ajenos, Hilos
<1>3. CASE Corto
  <2>1. \A f \in Flechas["corto"] : f[1] # "EXIT"
    BY DEF Flechas
  <2>. QED
    BY <1>0, <1>1, <1>3, <2>1, CortoCamina, Quedan, DeLugares DEF Ajenos, Hilos
<1>4. CASE Io
  <2>1. \A f \in Flechas["io"] : f[1] # "EXIT"
    BY DEF Flechas
  <2>. QED
    BY <1>0, <1>1, <1>4, <2>1, IoCamina, Quedan, DeLugares DEF Ajenos, Hilos
<1>5. CASE Cpu
  <2>1. CASE CpuAExit
    <3>1. mano["cpu"] \in Procesos /\ mano' = mano /\ EnSitio(mano["cpu"], "EXIT")'
      BY <1>0, <2>1, MueveAExit DEF CpuAExit, Mudanza, Sitios
    <3>2. Contains(cola'["EXIT"], mano["cpu"])
      BY <1>0, <3>1, SitiosDistintos DEF EnSitio, EnCola
    <3>. QED
      BY <3>1, <3>2 DEF EnCola
  <2>2. CASE CpuEnviarFinalizar \/ CpuRecibirFinalizar
    <3>1. /\ pc["cpu"] \in {"enviar_finalizar", "recibir_finalizar"}
          /\ mano' = mano /\ cola' = cola
      BY <2>2 DEF CpuEnviarFinalizar, CpuRecibirFinalizar, Ir
    <3>. QED
      BY <1>0, <3>1 DEF EnCola
  <2>3. CASE ~(CpuAExit \/ CpuEnviarFinalizar \/ CpuRecibirFinalizar)
    <3>1. pc'["cpu"] \notin {"enviar_finalizar", "recibir_finalizar", "sacar_exit"}
      <4>1. pc \in [Hilos -> UNION {Puntos[h] : h \in Hilos}]
        BY DeLugares DEF TypeOK, TipoPc
      <4>. QED
        BY <1>0, <1>5, <2>3, <4>1
           DEF Ir, Cpu, CpuEsperarEjecutando, CpuEnviarProceso, CpuRecibirPcb, CpuSacarExec,
               CpuAReady, CpuPostReady, CpuABlocked, CpuPostBlocked, CpuSacarExit,
               CpuPostMultiprogramacion, CpuPostPlanificacion
    <3>. QED
      BY <3>1
  <2>. QED
    BY <2>1, <2>2, <2>3
<1>6. ASSUME NEW p \in Procesos, IniciarProceso(p) PROVE P
  <2>1. pc' = pc /\ mano' = mano /\ cola'["EXIT"] = cola["EXIT"]
    BY <1>0, <1>6, DeLugares DEF IniciarProceso, Push, TypeOK
  <2>. QED
    BY <1>1, <2>1 DEF EnCola
<1>7. CASE (\E p \in Procesos : AvisarEntrada(p)) \/ DevolverProceso \/ Memoria \/ UNCHANGED vars
  <2>1. Camina("cpu") /\ pc' = pc /\ mano' = mano
    BY <1>7, OtrosQuietos DEF Camina
  <2>2. cola' = cola
    BY <1>7 DEF AvisarEntrada, DevolverProceso, Memoria, MemoriaIniciar, MemoriaCambiar,
                Responder, vars
  <2>. QED
    BY <1>1, <2>1, <2>2 DEF EnCola
<1>. QED
  BY <1>2, <1>3, <1>4, <1>5, <1>6, <1>7 DEF Next, Consola, Reposo

LEMMA EnBlockedPaso ==
  ASSUME Lugares, [Next]_vars
  PROVE  pc'["io"] = "recibir_suspender"
           => EnCola(mano["io"], "BLOCKED")' /\ ~proc'[mano'["io"]].suspendido
<1>. DEFINE P == pc'["io"] = "recibir_suspender"
                   => EnCola(mano["io"], "BLOCKED")' /\ ~proc'[mano'["io"]].suspendido
<1>0. /\ "BLOCKED" \in Estados /\ {"cpu", "largo", "corto", "io"} \subseteq Hilos
      /\ pc["io"] = "recibir_suspender"
           => /\ EnCola(mano["io"], "BLOCKED") /\ ~proc[mano["io"]].suspendido
              /\ mano["io"] \in Procesos
  BY DeLugares DEF Estados, Hilos, ManosEnColas, ManosSegunPunto
<1>s. \A q \in Procesos : ~proc[q].suspendido /\ ~IoRecibirSuspender => ~proc'[q].suspendido
  <2>1. CASE LargoPushReady
    <3>1. proc \in [Procesos -> TProceso]
      BY DeLugares DEF TypeOK
    <3>. QED
      BY <2>1, <3>1 DEF LargoPushReady, TProceso
  <2>2. CASE ~LargoPushReady
    BY <2>2, SuspendidosQuietos
  <2>. QED
    BY <2>1, <2>2
<1>1. ASSUME pc'["io"] = pc["io"], mano'["io"] = mano["io"], ~IoRecibirSuspender,
             \A q \in Procesos : EnCola(q, "BLOCKED") => EnCola(q, "BLOCKED")'
      PROVE  P
  <2>1. ASSUME pc["io"] = "recibir_suspender"
        PROVE  Contains(cola'["BLOCKED"], mano["io"]) /\ ~proc'[mano["io"]].suspendido
    BY <1>0, <1>1, <1>s, <2>1 DEF EnCola
  <2>. QED
    BY <1>1, <2>1 DEF EnCola
<1>8. ASSUME ~Io PROVE ~IoRecibirSuspender
  BY <1>8 DEF Io
<1>9. CASE IoRecibirSuspender
  <2>1. pc \in [Hilos -> UNION {Puntos[h] : h \in Hilos}]
    BY DeLugares DEF TypeOK, TipoPc
  <2>. QED
    BY <1>0, <1>9, <2>1 DEF IoRecibirSuspender, Ir
<1>2. ASSUME Largo, ~IoRecibirSuspender PROVE P
  <2>1. \A f \in Flechas["largo"] : f[1] # "BLOCKED"
    BY DEF Flechas
  <2>. QED
    BY <1>0, <1>1, <1>2, <2>1, LargoCamina, Quedan, DeLugares DEF Ajenos, Hilos
<1>3. ASSUME Corto, ~IoRecibirSuspender PROVE P
  <2>1. \A f \in Flechas["corto"] : f[1] # "BLOCKED"
    BY DEF Flechas
  <2>. QED
    BY <1>0, <1>1, <1>3, <2>1, CortoCamina, Quedan, DeLugares DEF Ajenos, Hilos
<1>4. ASSUME Cpu, ~IoRecibirSuspender PROVE P
  <2>1. \A f \in Flechas["cpu"] : f[1] # "BLOCKED"
    BY DEF Flechas
  <2>. QED
    BY <1>0, <1>1, <1>4, <2>1, CpuCamina, Quedan, DeLugares DEF Ajenos, Hilos
<1>5. ASSUME Io, ~IoRecibirSuspender PROVE P
  <2>0. /\ pc \in [Hilos -> UNION {Puntos[h] : h \in Hilos}]
        /\ mano \in [Hilos -> Procesos \cup {NULL}]
    BY DeLugares DEF TypeOK, TipoPc
  <2>1. CASE IoContarBloqueo
    <3>. DEFINE p == cola["BLOCKED"][cursor]
    <3>1. p \in Procesos /\ cola' = cola /\ EnCola(p, "BLOCKED")
      <4>1. cola["BLOCKED"] \in Seq(Procesos) /\ cursor \in 1..Len(cola["BLOCKED"])
        <5>1. cola["BLOCKED"] \in Seq(Procesos) /\ cursor \in Nat \ {0}
          BY <1>0, DeLugares DEF TypeOK
        <5>2. cursor <= Len(cola["BLOCKED"]) /\ Len(cola["BLOCKED"]) \in Nat
          BY <2>1, <5>1, LenProperties DEF IoContarBloqueo
        <5>. QED
          BY <5>1, <5>2
      <4>2. p \in Procesos /\ EnCola(p, "BLOCKED")
        BY <4>1, ElementOfSeq DEF EnCola, Contains
      <4>. QED
        BY <2>1, <4>2 DEF IoContarBloqueo
    <3>2. CASE Vencido(p)
      <4>1. mano' = [mano EXCEPT !["io"] = p] /\ ~proc[p].suspendido
        BY <2>1, <3>2 DEF IoContarBloqueo, Vencido
      <4>2. mano'["io"] = p /\ ~proc'[p].suspendido
        BY <1>0, <1>s, <1>5, <2>0, <3>1, <4>1
      <4>. QED
        BY <3>1, <4>2 DEF EnCola
    <3>3. CASE ~Vencido(p)
      <4>1. Ir("io", "suspender", "suspender")
        BY <2>1, <3>3 DEF IoContarBloqueo
      <4>. QED
        BY <1>0, <2>0, <4>1 DEF Ir
    <3>. QED
      BY <3>2, <3>3
  <2>2. CASE IoDormir
    <3>1. pc'["io"] \in {"blocked", "pop_blocked"}
      BY <1>0, <2>0, <2>2 DEF IoDormir, Ir
    <3>. QED
      BY <3>1
  <2>3. CASE ~(IoContarBloqueo \/ IoDormir)
    <3>1. pc'["io"] # "recibir_suspender"
      BY <1>0, <1>5, <2>0, <2>3
         DEF Ir, Io, IoEsperarBlocked, IoPostMultiprogramacion, IoPostBlocked, IoPopBlocked,
             IoTomarBlocked, IoPushSuspendido, IoPostEntrando, IoPushReady, IoPostReady
    <3>. QED
      BY <3>1
  <2>. QED
    BY <2>1, <2>2, <2>3
<1>6. ASSUME NEW p \in Procesos, IniciarProceso(p), ~IoRecibirSuspender PROVE P
  <2>1. pc' = pc /\ mano' = mano /\ cola'["BLOCKED"] = cola["BLOCKED"]
    BY <1>0, <1>6, DeLugares DEF IniciarProceso, Push, TypeOK
  <2>. QED
    BY <1>1, <1>6, <2>1 DEF EnCola
<1>7. ASSUME (\E p \in Procesos : AvisarEntrada(p)) \/ DevolverProceso \/ Memoria \/ UNCHANGED vars,
             ~IoRecibirSuspender
      PROVE  P
  <2>1. pc' = pc /\ mano' = mano
    BY <1>7, OtrosQuietos
  <2>2. cola' = cola
    BY <1>7 DEF AvisarEntrada, DevolverProceso, Memoria, MemoriaIniciar, MemoriaCambiar,
                Responder, vars
  <2>. QED
    BY <1>1, <1>7, <2>1, <2>2 DEF EnCola
<1>. QED
  BY <1>2, <1>3, <1>4, <1>5, <1>6, <1>7, <1>9 DEF Next, Consola, Reposo

LEMMA TerminadosPaso ==
  ASSUME Lugares, [Next]_vars
  PROVE  Terminados'
<1>0. consola \in [Procesos -> {"conectada", "en_new", "lista"}]
  BY DeLugares DEF TypeOK
<1>1. \A p \in Procesos : consola[p] # "conectada" => consola'[p] # "conectada"
  <2>1. CASE consola' = consola
    BY <2>1
  <2>2. ASSUME NEW p \in Procesos, Consola(p)
        PROVE  \A q \in Procesos : consola[q] # "conectada" => consola'[q] # "conectada"
    BY <1>0, <2>2 DEF Consola, IniciarProceso, AvisarEntrada
  <2>3. Largo => consola' = consola
    BY DEF Largo, LargoEsperarGrado, LargoEsperarEntrada, LargoSacarSuspendido, usuarioVars,
           LargoSinSuspendidos, LargoSacarNuevo, LargoEnviarIniciar, LargoRecibirTabla,
           LargoPushReady, LargoPostReady
  <2>4. Corto => consola' = consola
    BY DEF Corto, CortoEsperarReady, CortoDesalojar, CortoNoDesalojar, usuarioVars,
           CortoEsperarPlanificacion, CortoPopReady, CortoPushExec, CortoPostEjecutando
  <2>5. Cpu => consola' = consola
    <3>1. CpuRecibirPcb => consola' = consola
      BY DEF CpuRecibirPcb, usuarioVars
    <3>. QED
      BY <3>1
         DEF Cpu, CpuEsperarEjecutando, CpuEnviarProceso, CpuSacarExec, CpuAReady, usuarioVars,
             CpuPostReady, CpuABlocked, CpuPostBlocked, CpuAExit, CpuEnviarFinalizar,
             CpuRecibirFinalizar, CpuSacarExit, CpuPostMultiprogramacion, CpuPostPlanificacion
  <2>6. Io => consola' = consola
    <3>1. IoContarBloqueo \/ IoDormir => consola' = consola
      BY DEF IoContarBloqueo, IoDormir, usuarioVars
    <3>. QED
      BY <3>1
         DEF Io, IoEsperarBlocked, IoRecibirSuspender, IoPostMultiprogramacion, IoPostBlocked,
             IoPopBlocked, IoTomarBlocked, IoPushSuspendido, IoPostEntrando, IoPushReady,
             IoPostReady, usuarioVars
  <2>7. DevolverProceso \/ Memoria \/ UNCHANGED vars => consola' = consola
    BY DEF DevolverProceso, Memoria, MemoriaIniciar, MemoriaCambiar, Responder, vars, usuarioVars
  <2>. QED
    BY <2>1, <2>2, <2>3, <2>4, <2>5, <2>6, <2>7 DEF Next, Reposo
<1>2. CASE CpuSacarExit
  <2>1. EnSitio(mano["cpu"], "EXIT") /\ mano["cpu"] \in Procesos /\ "EXIT" \in Sitios
    BY <1>2, MueveSacarExit DEF Mudanza, Sitios, Estados
  <2>2. Activo(mano["cpu"])
    BY <2>1, DeLugares, UnicoSitio, SitioDe, SitiosDistintos DEF Estados
  <2>3. finalizados' = finalizados \cup {mano["cpu"]} /\ finalizados \subseteq Procesos
    BY <1>2, DeLugares DEF CpuSacarExit, TypeOK
  <2>. QED
    BY <1>1, <2>1, <2>2, <2>3, DeLugares DEF Terminados, Activo
<1>3. CASE finalizados' = finalizados
  BY <1>1, <1>3, DeLugares DEF Terminados, TypeOK
<1>4. ASSUME ~CpuSacarExit PROVE finalizados' = finalizados
  <2>1. (\E p \in Procesos : Consola(p)) => finalizados' = finalizados
    BY DEF Consola, IniciarProceso, AvisarEntrada
  <2>2. Largo \/ Corto => finalizados' = finalizados
    BY DEF Largo, LargoEsperarGrado, LargoEsperarEntrada, LargoSacarSuspendido, usuarioVars,
           LargoSinSuspendidos, LargoSacarNuevo, LargoEnviarIniciar, LargoRecibirTabla,
           LargoPushReady, LargoPostReady,
           Corto, CortoEsperarReady, CortoDesalojar, CortoNoDesalojar,
           CortoEsperarPlanificacion, CortoPopReady, CortoPushExec, CortoPostEjecutando
  <2>3. Cpu => finalizados' = finalizados
    <3>1. CpuRecibirPcb => finalizados' = finalizados
      BY DEF CpuRecibirPcb, usuarioVars
    <3>. QED
      BY <1>4, <3>1
         DEF Cpu, CpuEsperarEjecutando, CpuEnviarProceso, CpuSacarExec, CpuAReady, usuarioVars,
             CpuPostReady, CpuABlocked, CpuPostBlocked, CpuAExit, CpuEnviarFinalizar,
             CpuRecibirFinalizar, CpuPostMultiprogramacion, CpuPostPlanificacion
  <2>4. Io => finalizados' = finalizados
    <3>1. IoContarBloqueo \/ IoDormir => finalizados' = finalizados
      BY DEF IoContarBloqueo, IoDormir, usuarioVars
    <3>. QED
      BY <3>1
         DEF Io, IoEsperarBlocked, IoRecibirSuspender, IoPostMultiprogramacion, IoPostBlocked,
             IoPopBlocked, IoTomarBlocked, IoPushSuspendido, IoPostEntrando, IoPushReady,
             IoPostReady, usuarioVars
  <2>5. DevolverProceso \/ Memoria \/ UNCHANGED vars => finalizados' = finalizados
    BY DEF DevolverProceso, Memoria, MemoriaIniciar, MemoriaCambiar, Responder, vars, usuarioVars
  <2>. QED
    BY <2>1, <2>2, <2>3, <2>4, <2>5 DEF Next, Reposo
<1>. QED
  BY <1>2, <1>3, <1>4

-----------------------------------------------------------------------------
LEMMA LugaresInicio ==
  ASSUME Init
  PROVE  Lugares
<1>1. Inductiva
  BY InductivaInicio
<1>2. \A e \in Estados : cola[e] = <<>>
  BY DEF Init
<1>3. SinRepetidos
  BY <1>2 DEF SinRepetidos, IsInjective
<1>4. UnLugar
  <2>1. ASSUME NEW p \in Procesos, NEW y \in Sitios PROVE EnSitio(p, y) <=> y = "afuera"
    <3>1. \A e \in Estados : ~EnCola(p, e)
      BY <1>2 DEF EnCola, Contains
    <3>2. \A h \in Hilos : ~Agarra(h, p)
      BY ConstantesAssumption DEF Init, Agarra
    <3>3. ~Activo(p)
      BY DEF Init, Activo
    <3>. QED
      BY <3>1, <3>2, <3>3, SitiosDistintos DEF EnSitio, Sitios
  <2>. QED
    BY <2>1 DEF UnLugar, Sitios
<1>5. ManosEnColas /\ Terminados
  BY DEF Init, ManosEnColas, Terminados
<1>. QED
  BY <1>1, <1>3, <1>4, <1>5 DEF Lugares

LEMMA LugaresPaso ==
  ASSUME Lugares, [Next]_vars
  PROVE  Lugares'
<1>1. Inductiva'
  <2>1. Inductiva /\ SinNulos /\ TypeOK /\ ManosSegunPunto
    BY DeLugares
  <2>. QED
    BY <2>1, TipoPaso, ManosPaso, BalancePaso, ColasPaso DEF Inductiva
<1>2. SinRepetidos' /\ UnLugar'
  <2>0. {"largo", "corto", "cpu", "io"} \subseteq Hilos /\ UnLugar
    BY DeLugares DEF Hilos
  <2>1. CASE Largo
    BY <2>0, <2>1, LargoCamina, UnLugarCamina
  <2>2. CASE Corto
    BY <2>0, <2>2, CortoCamina, UnLugarCamina
  <2>3. CASE Cpu
    BY <2>0, <2>3, CpuCamina, UnLugarCamina
  <2>4. CASE Io
    BY <2>0, <2>4, IoCamina, UnLugarCamina
  <2>5. ASSUME NEW p \in Procesos, IniciarProceso(p) PROVE SinRepetidos' /\ UnLugar'
    <3>1. Mudanza(p, "afuera", "NEW") /\ SinRepetidos'
      BY <2>5, MueveIniciar
    <3>2. "afuera" \in Sitios /\ "NEW" \in Sitios
      BY DEF Sitios, Estados
    <3>. QED
      BY <2>0, <3>1, <3>2, UnLugarMudanza
  <2>6. CASE (\E p \in Procesos : AvisarEntrada(p)) \/ DevolverProceso \/ Memoria \/ UNCHANGED vars
    BY <2>0, <2>6, OtrosQuietos, UnLugarQuieto
  <2>. QED
    BY <2>1, <2>2, <2>3, <2>4, <2>5, <2>6 DEF Next, Consola, Reposo
<1>3. ManosEnColas' /\ Terminados'
  BY EnExitPaso, EnBlockedPaso, TerminadosPaso DEF ManosEnColas
<1>. QED
  BY <1>1, <1>2, <1>3 DEF Lugares

\* The places of the processes are an inductive invariant.
THEOREM LugaresSiempre == Spec => []Lugares
<1>1. Init => Lugares
  BY LugaresInicio
<1>2. Lugares /\ [Next]_vars => Lugares'
  BY LugaresPaso
<1>. QED
  BY <1>1, <1>2, PTL DEF Spec

\* A queue without repetitions has no position beyond the number of processes,
\* so the positions of a process are those of the queues it is in.
LEMMA PosicionesDe ==
  ASSUME Lugares, NEW p \in Procesos
  PROVE  /\ \A e \in Estados : EnCola(p, e) =>
              \E k \in Nat : <<e, k>> \in Posiciones(p)
                /\ \A l \in Nat : <<e, l>> \in Posiciones(p) => l = k
         /\ \A e, k : <<e, k>> \in Posiciones(p) => e \in Estados /\ k \in Nat /\ EnCola(p, e)
<1>0. Cardinality(Procesos) \in Nat
  BY ConstantesAssumption, FS_CardinalityType
<1>1. ASSUME NEW e \in Estados
      PROVE  /\ Len(cola[e]) \in Nat /\ Len(cola[e]) <= Cardinality(Procesos)
             /\ DOMAIN cola[e] = 1..Len(cola[e]) /\ IsInjective(cola[e])
  <2>1. cola[e] \in Seq(Procesos) /\ IsInjective(cola[e])
    BY DeLugares DEF TypeOK, SinRepetidos
  <2>. QED
    BY <2>1, LargoDe, LenProperties, ConstantesAssumption
<1>2. ASSUME NEW e, NEW k
      PROVE  <<e, k>> \in Posiciones(p)
               <=> e \in Estados /\ k \in 1..Cardinality(Procesos) /\ k <= Len(cola[e])
                   /\ cola[e][k] = p
  BY DEF Posiciones
<1>3. ASSUME NEW e \in Estados, EnCola(p, e)
      PROVE  \E k \in Nat : <<e, k>> \in Posiciones(p)
                /\ \A l \in Nat : <<e, l>> \in Posiciones(p) => l = k
  <2>1. PICK k \in 1..Len(cola[e]) : cola[e][k] = p
    BY <1>3 DEF EnCola, Contains
  <2>2. k \in 1..Cardinality(Procesos) /\ k <= Len(cola[e])
    BY <1>0, <1>1
  <2>3. <<e, k>> \in Posiciones(p)
    BY <1>2, <2>1, <2>2
  <2>4. ASSUME NEW l \in Nat, <<e, l>> \in Posiciones(p) PROVE l = k
    <3>1. l \in 1..Len(cola[e]) /\ cola[e][l] = p
      BY <1>0, <1>1, <1>2, <2>4
    <3>. QED
      BY <1>1, <2>1, <3>1 DEF IsInjective
  <2>. QED
    BY <2>3, <2>4
<1>4. ASSUME NEW e, NEW k, <<e, k>> \in Posiciones(p)
      PROVE  e \in Estados /\ k \in Nat /\ EnCola(p, e)
  <2>1. e \in Estados /\ k \in 1..Cardinality(Procesos) /\ k <= Len(cola[e]) /\ cola[e][k] = p
    BY <1>2, <1>4
  <2>2. k \in Nat /\ k \in 1..Len(cola[e])
    BY <1>0, <1>1, <2>1
  <2>. QED
    BY <2>1, <2>2 DEF EnCola, Contains
<1>. QED
  BY <1>3, <1>4

LEMMA LugaresUnSoloLugar ==
  ASSUME Lugares
  PROVE  UnSoloLugar
<1>. SUFFICES ASSUME NEW p \in Procesos
              PROVE  LET manos == {h \in Hilos : mano[h] = p} IN
                       IF consola[p] = "conectada" \/ p \in finalizados
                       THEN Posiciones(p) = {} /\ manos = {}
                       ELSE \/ Cardinality(Posiciones(p)) = 1
                            \/ Posiciones(p) = {} /\ Cardinality(manos) = 1
  BY DEF UnSoloLugar
<1>. DEFINE manos == {h \in Hilos : mano[h] = p}
<1>1. PICK x \in Sitios : \A y \in Sitios : EnSitio(p, y) <=> y = x
  BY DeLugares DEF UnLugar
<1>2. /\ \A e \in Estados : EnCola(p, e) <=> e = x
      /\ \A h \in Hilos : Agarra(h, p) <=> h = x
      /\ ~Activo(p) <=> x = "afuera"
  BY <1>1, SitioDe
<1>3. \A z \in Posiciones(p) : z[1] \in Estados /\ z[2] \in Nat /\ z = <<z[1], z[2]>>
  BY PosicionesDe DEF Posiciones
\* A hand that does not hold p is that of a thread that p waits for in a queue.
<1>4. ASSUME NEW h \in Hilos, mano[h] = p
      PROVE  Agarra(h, p) \/ \E e \in Estados : EnCola(p, e)
  <2>1. CASE h = "cpu" /\ pc["cpu"] # "reubicar"
    <3>1. pc["cpu"] \in {"recibir_pcb", "sacar_exec", "enviar_finalizar", "recibir_finalizar",
                         "sacar_exit"}
      BY <1>4, <2>1, DeLugares DEF ManosSegunPunto
    <3>2. CASE pc["cpu"] \in {"recibir_pcb", "sacar_exec"}
      <4>1. cola["EXEC"] = <<p>> /\ "EXEC" \in Estados
        BY <1>4, <2>1, <3>2, DeLugares DEF Inductiva, ColasSegunPunto, Estados
      <4>. QED
        BY <4>1 DEF EnCola, Contains
    <3>3. CASE pc["cpu"] \in {"enviar_finalizar", "recibir_finalizar", "sacar_exit"}
      BY <1>4, <2>1, <3>3, DeLugares DEF ManosEnColas, Estados
    <3>. QED
      BY <3>1, <3>2, <3>3
  <2>2. CASE h = "io" /\ pc["io"] \notin {"tomar_blocked", "desbloquear"}
    <3>1. pc["io"] = "recibir_suspender"
      BY <1>4, <2>2, DeLugares DEF ManosSegunPunto
    <3>. QED
      BY <1>4, <2>2, <3>1, DeLugares DEF ManosEnColas, Estados
  <2>3. CASE ~(h = "cpu" /\ pc["cpu"] # "reubicar")
             /\ ~(h = "io" /\ pc["io"] \notin {"tomar_blocked", "desbloquear"})
    BY <1>4, <2>3 DEF Agarra
  <2>. QED
    BY <2>1, <2>2, <2>3
<1>5. CASE x \in Estados
  <2>1. EnCola(p, x) /\ Activo(p)
    BY <1>2, <1>5, SitiosDistintos
  <2>2. PICK k \in Nat : <<x, k>> \in Posiciones(p)
                           /\ \A l \in Nat : <<x, l>> \in Posiciones(p) => l = k
    BY <1>5, <2>1, PosicionesDe
  <2>3. ASSUME NEW z \in Posiciones(p) PROVE z = <<x, k>>
    <3>1. z[1] \in Estados /\ z[2] \in Nat /\ z = <<z[1], z[2]>> /\ EnCola(p, z[1])
      BY <1>3, PosicionesDe
    <3>2. z[1] = x
      BY <1>2, <3>1
    <3>. QED
      BY <2>2, <3>1, <3>2
  <2>4. Posiciones(p) = {<<x, k>>}
    BY <2>2, <2>3
  <2>5. Cardinality(Posiciones(p)) = 1
    BY <2>4, FS_Singleton
  <2>. QED
    BY <2>1, <2>5 DEF Activo
<1>6. CASE x \notin Estados
  <2>1. \A e \in Estados : ~EnCola(p, e)
    BY <1>2, <1>6
  <2>2. Posiciones(p) = {}
    BY <1>3, <2>1, PosicionesDe
  <2>3. manos = {h \in Hilos : h = x}
    BY <1>2, <1>4, <2>1 DEF Agarra
  <2>4. CASE x = "afuera"
    <3>1. manos = {}
      BY <2>3, <2>4, SitiosDistintos
    <3>2. consola[p] = "conectada" \/ p \in finalizados
      BY <1>2, <2>4 DEF Activo
    <3>. QED
      BY <2>2, <3>1, <3>2
  <2>5. CASE x \in Hilos
    <3>1. manos = {x}
      BY <2>3, <2>5
    <3>2. Cardinality(manos) = 1
      BY <3>1, FS_Singleton
    <3>3. Activo(p)
      BY <1>2, <2>5, SitiosDistintos
    <3>. QED
      BY <2>2, <3>2, <3>3 DEF Activo
  <2>. QED
    BY <1>6, <2>4, <2>5 DEF Sitios
<1>. QED
  BY <1>5, <1>6

\* No process is lost or duplicated as the queues and the threads hand it over,
\* whatever the interleaving of the four threads and the consoles.
THEOREM UnSoloLugarSiempre == Spec => []UnSoloLugar
<1>1. Lugares => UnSoloLugar
  BY LugaresUnSoloLugar
<1>. QED
  BY <1>1, LugaresSiempre, PTL

-------------------------------------------------------------------------------
\* Only a process that is blocked, or on its way back, is suspended.
PuedeSuspendido == {"BLOCKED", "io", "SUSPENDED_READY", "largo"}
Suspendidos ==
  \A p \in Procesos :
    /\ proc[p].suspendido => \E x \in PuedeSuspendido : EnSitio(p, x)
    /\ EnSitio(p, "SUSPENDED_READY") => proc[p].suspendido

\* Once the long-term thread has asked for its tables a process has some.
SinTablaEn(p) ==
  \/ EnSitio(p, "afuera") \/ EnSitio(p, "NEW")
  \/ EnSitio(p, "largo") /\ pc["largo"] \in {"enviar_iniciar", "recibir_iniciar"}
ConTabla == \A p \in Procesos : proc[p].tabla_paginas = NULL => SinTablaEn(p)

Cargados == Lugares /\ Suspendidos /\ ConTabla

Mueven ==
  \/ \E p \in Procesos : IniciarProceso(p)
  \/ LargoSacarSuspendido \/ LargoSacarNuevo \/ LargoPushReady
  \/ CortoPopReady \/ CortoPushExec
  \/ CpuSacarExec \/ CpuAReady \/ CpuABlocked \/ CpuAExit \/ CpuSacarExit
  \/ IoPopBlocked \/ IoPushSuspendido \/ IoPushReady

LEMMA SitiosTipo ==
  /\ {"NEW", "READY", "EXEC", "BLOCKED", "EXIT", "SUSPENDED_READY"} \subseteq Sitios
  /\ {"largo", "corto", "cpu", "io", "afuera"} \subseteq Sitios
BY DEF Sitios, Estados, Hilos

LEMMA NoMueven ==
  ASSUME Lugares, [Next]_vars, ~Mueven
  PROVE  Quieto
BY PasosQuietos DEF Mueven, Next, Consola, Largo, Corto, Cpu, Io, Reposo

-----------------------------------------------------------------------------
LEMMA SuspendidosMudanza ==
  ASSUME UnLugar, Suspendidos, NEW p \in Procesos, NEW x \in Sitios, NEW y \in Sitios,
         Mudanza(p, x, y),
         \A q \in Procesos : proc'[q].suspendido = proc[q].suspendido,
         x \in PuedeSuspendido /\ proc[p].suspendido => y \in PuedeSuspendido,
         y = "SUSPENDED_READY" => proc[p].suspendido
  PROVE  Suspendidos'
<1>0. PuedeSuspendido \subseteq Sitios /\ "SUSPENDED_READY" \in Sitios
  BY DEF PuedeSuspendido, Sitios, Estados, Hilos
<1>1. ASSUME NEW q \in Procesos, proc'[q].suspendido
      PROVE  \E z \in PuedeSuspendido : EnSitio(q, z)'
  <2>1. PICK z \in PuedeSuspendido : EnSitio(q, z)
    BY <1>1 DEF Suspendidos
  <2>2. CASE q = p
    <3>1. z = x
      BY <1>0, <2>1, <2>2, UnicoSitio DEF Mudanza
    <3>. QED
      BY <1>1, <2>1, <2>2, <3>1 DEF Mudanza
  <2>3. CASE q # p
    BY <1>0, <2>1, <2>3 DEF Mudanza
  <2>. QED
    BY <2>2, <2>3
<1>2. ASSUME NEW q \in Procesos, EnSitio(q, "SUSPENDED_READY")'
      PROVE  proc'[q].suspendido
  BY <1>0, <1>2 DEF Suspendidos, Mudanza
<1>. QED
  BY <1>1, <1>2 DEF Suspendidos

LEMMA SuspendidosPaso ==
  ASSUME Cargados, [Next]_vars
  PROVE  Suspendidos'
<1>0. Lugares /\ UnLugar /\ Suspendidos /\ proc \in [Procesos -> TProceso]
  BY DeLugares DEF Cargados, TypeOK
<1>. DEFINE Iguales == \A q \in Procesos : proc'[q].suspendido = proc[q].suspendido
<1>1. CASE LargoPushReady
  <2>. PICK p \in Procesos : p = mano["largo"] /\ Mudanza(p, "largo", "READY")
    BY <1>0, <1>1, MuevePushReady
  <2>1. p = mano["largo"] /\ Mudanza(p, "largo", "READY")
    OBVIOUS
  <2>2. /\ ~proc'[p].suspendido
        /\ \A q \in Procesos \ {p} : proc'[q].suspendido = proc[q].suspendido
    BY <1>0, <1>1, <2>1 DEF LargoPushReady, TProceso
  <2>3. \A q \in Procesos \ {p}, z \in Sitios : EnSitio(q, z)' <=> EnSitio(q, z)
    BY <2>1 DEF Mudanza
  <2>4. ~EnSitio(p, "SUSPENDED_READY")'
    BY <2>1, SitiosTipo DEF Mudanza
  <2>5. PuedeSuspendido \subseteq Sitios
    BY SitiosTipo DEF PuedeSuspendido
  <2>. QED
    BY <1>0, <2>2, <2>3, <2>4, <2>5, SitiosTipo DEF Suspendidos
<1>2. CASE IoRecibirSuspender
  <2>. DEFINE p == mano["io"]
  <2>0. pc["io"] = "recibir_suspender" /\ "io" \in Hilos
    BY <1>2 DEF IoRecibirSuspender, Ir, Hilos
  <2>1. p \in Procesos /\ EnCola(p, "BLOCKED")
    BY <1>0, <2>0, DeLugares DEF ManosSegunPunto, ManosEnColas
  <2>2. EnSitio(p, "BLOCKED")
    BY <2>1, SitioDe DEF Estados
  <2>3. /\ proc'[p].suspendido
        /\ \A q \in Procesos \ {p} : proc'[q].suspendido = proc[q].suspendido
    BY <1>0, <1>2, <2>1 DEF IoRecibirSuspender, TProceso
  <2>4. Quieto
    BY <1>0, <1>2, PasosQuietos
  <2>5. PuedeSuspendido \subseteq Sitios /\ "BLOCKED" \in PuedeSuspendido
    BY SitiosTipo DEF PuedeSuspendido
  <2>. HIDE DEF p
  <2>. QED
    BY <1>0, <2>1, <2>2, <2>3, <2>4, <2>5, SitiosTipo DEF Suspendidos, Quieto
<1>3. ASSUME ~LargoPushReady, ~IoRecibirSuspender PROVE Iguales
  BY <1>0, <1>3, SuspendidosQuietos
<1>4. ASSUME Iguales, NEW p \in Procesos, NEW x \in Sitios, NEW y \in Sitios,
             Mudanza(p, x, y), x \in PuedeSuspendido /\ proc[p].suspendido => y \in PuedeSuspendido,
             y = "SUSPENDED_READY" => proc[p].suspendido
      PROVE  Suspendidos'
  BY <1>0, <1>4, SuspendidosMudanza
<1>5. ASSUME Iguales, ~Mueven PROVE Suspendidos'
  <2>1. Quieto
    BY <1>0, <1>5, NoMueven
  <2>2. PuedeSuspendido \subseteq Sitios
    BY SitiosTipo DEF PuedeSuspendido
  <2>. QED
    BY <1>0, <1>5, <2>1, <2>2, SitiosTipo DEF Suspendidos, Quieto
<1>6. ASSUME Iguales, Mueven, ~LargoPushReady PROVE Suspendidos'
  <2>1. CASE \E p \in Procesos : IniciarProceso(p)
    BY <1>0, <1>4, <1>6, <2>1, MueveIniciar, SitiosTipo DEF PuedeSuspendido
  <2>2. CASE LargoSacarSuspendido
    BY <1>0, <1>4, <1>6, <2>2, MueveSacarSuspendido, SitiosTipo DEF PuedeSuspendido
  <2>3. CASE LargoSacarNuevo
    BY <1>0, <1>4, <1>6, <2>3, MueveSacarNuevo, SitiosTipo DEF PuedeSuspendido
  <2>4. CASE CortoPopReady
    BY <1>0, <1>4, <1>6, <2>4, MuevePopReady, SitiosTipo DEF PuedeSuspendido
  <2>5. CASE CortoPushExec
    BY <1>0, <1>4, <1>6, <2>5, MuevePushExec, SitiosTipo DEF PuedeSuspendido
  <2>6. CASE CpuSacarExec
    BY <1>0, <1>4, <1>6, <2>6, MueveSacarExec, SitiosTipo DEF PuedeSuspendido
  <2>7. CASE CpuAReady
    BY <1>0, <1>4, <1>6, <2>7, MueveAReady, SitiosTipo DEF PuedeSuspendido
  <2>8. CASE CpuABlocked
    BY <1>0, <1>4, <1>6, <2>8, MueveABlocked, SitiosTipo DEF PuedeSuspendido
  <2>9. CASE CpuAExit
    BY <1>0, <1>4, <1>6, <2>9, MueveAExit, SitiosTipo DEF PuedeSuspendido
  <2>10. CASE CpuSacarExit
    BY <1>0, <1>4, <1>6, <2>10, MueveSacarExit, SitiosTipo DEF PuedeSuspendido
  <2>11. CASE IoPopBlocked
    BY <1>0, <1>4, <1>6, <2>11, MuevePopBlocked, SitiosTipo DEF PuedeSuspendido
  <2>12. CASE IoPushSuspendido
    <3>1. proc[mano["io"]].suspendido
      BY <2>12 DEF IoPushSuspendido
    <3>. QED
      BY <1>0, <1>4, <1>6, <2>12, <3>1, MuevePushSuspendido, SitiosTipo DEF PuedeSuspendido
  <2>13. CASE IoPushReady
    <3>1. ~proc[mano["io"]].suspendido
      BY <2>13 DEF IoPushReady
    <3>. QED
      BY <1>0, <1>4, <1>6, <2>13, <3>1, MueveDesbloquearReady, SitiosTipo
  <2>. QED
    BY <1>6, <2>1, <2>2, <2>3, <2>4, <2>5, <2>6, <2>7, <2>8, <2>9, <2>10, <2>11, <2>12, <2>13
       DEF Mueven
<1>7. ~Mueven /\ LargoPushReady => FALSE
  BY DEF Mueven
<1>. QED
  BY <1>1, <1>2, <1>3, <1>5, <1>6

-----------------------------------------------------------------------------
\* Only the answer to its INICIAR_PROCESO changes the table of a process.
LEMMA TablasQuietas ==
  ASSUME Lugares, [Next]_vars, ~LargoRecibirTabla
  PROVE  \A q \in Procesos : proc'[q].tabla_paginas = proc[q].tabla_paginas
<1>0. proc \in [Procesos -> TProceso] /\ mano \in [Hilos -> Procesos \cup {NULL}]
  BY DeLugares DEF TypeOK
<1>1. CASE proc' = proc
  BY <1>1
<1>2. CASE LargoPushReady
  BY <1>0, <1>2 DEF LargoPushReady, TProceso
<1>3. CASE CpuRecibirPcb
  <2>1. PICK e : proc' = [proc EXCEPT ![mano["cpu"]] =
                     IF devolucion.estado = "BLOCKED"
                     THEN [@ EXCEPT !.bloqueo_restante = devolucion.tiempo,
                                    !.tiempo_bloqueado = 0, !.estimacion_rafaga = e]
                     ELSE [@ EXCEPT !.estimacion_rafaga = e]]
    BY <1>3 DEF CpuRecibirPcb
  <2>. QED
    BY <1>0, <2>1 DEF TProceso
<1>4. CASE IoContarBloqueo
  BY <1>0, <1>4 DEF IoContarBloqueo, TProceso
<1>5. CASE IoDormir
  BY <1>0, <1>5 DEF IoDormir, TProceso
<1>6. CASE IoRecibirSuspender
  BY <1>0, <1>6 DEF IoRecibirSuspender, TProceso
<1>. QED
  BY <1>1, <1>2, <1>3, <1>4, <1>5, <1>6, QuienesEscriben

\* A step of the other threads leaves a process without tables where it was.
LEMMA SinTablaAjeno ==
  ASSUME Lugares, [Next]_vars, ~Largo, NEW p \in Procesos, SinTablaEn(p)
  PROVE  SinTablaEn(p)'
<1>0. /\ UnLugar /\ "largo" \in Hilos /\ {"corto", "cpu", "io"} \subseteq Hilos \ {"largo"}
      /\ {"afuera", "NEW", "largo"} \subseteq Sitios
  BY DeLugares, SitiosTipo DEF Hilos
<1>1. ASSUME pc'["largo"] = pc["largo"],
             \A x \in {"afuera", "NEW", "largo"} : EnSitio(p, x) => EnSitio(p, x)'
      PROVE  SinTablaEn(p)'
  BY <1>1 DEF SinTablaEn
<1>2. ASSUME NEW h \in Hilos \ {"largo"}, Camina(h), Ajenos(h)
      PROVE  SinTablaEn(p)'
  <2>1. pc'["largo"] = pc["largo"]
    BY <1>0, <1>2 DEF Ajenos
  <2>2. ASSUME NEW x \in {"afuera", "NEW", "largo"}, EnSitio(p, x)
        PROVE  EnSitio(p, x)'
    <3>1. CASE Quieto
      BY <1>0, <2>2, <3>1 DEF Quieto
    <3>2. ASSUME NEW q \in Procesos, NEW f \in Flechas[h], Mudanza(q, f[1], f[2])
          PROVE  EnSitio(p, x)'
      <4>1. f[1] # x /\ f[1] \in Sitios
        BY <3>2, FlechasTipo DEF Flechas, Hilos
      <4>2. q # p
        BY <1>0, <2>2, <3>2, <4>1, UnicoSitio DEF Mudanza
      <4>. QED
        BY <1>0, <2>2, <3>2, <4>2 DEF Mudanza
    <3>. QED
      BY <1>2, <3>1, <3>2 DEF Camina
  <2>. QED
    BY <1>1, <2>1, <2>2
<1>3. CASE Corto \/ Cpu \/ Io
  BY <1>0, <1>2, <1>3, CortoCamina, CpuCamina, IoCamina
<1>4. ASSUME NEW q \in Procesos, IniciarProceso(q)
      PROVE  SinTablaEn(p)'
  <2>1. Mudanza(q, "afuera", "NEW") /\ pc' = pc
    BY <1>4, MueveIniciar DEF IniciarProceso
  <2>2. CASE q = p
    BY <1>0, <2>1, <2>2 DEF Mudanza, SinTablaEn
  <2>3. CASE q # p
    BY <1>0, <1>1, <2>1, <2>3 DEF Mudanza
  <2>. QED
    BY <2>2, <2>3
<1>5. CASE (\E q \in Procesos : AvisarEntrada(q)) \/ DevolverProceso \/ Memoria \/ UNCHANGED vars
  BY <1>0, <1>1, <1>5, OtrosQuietos DEF Quieto
<1>. QED
  BY <1>3, <1>4, <1>5 DEF Next, Consola, Reposo

LEMMA ConTablaPaso ==
  ASSUME Cargados, [Next]_vars
  PROVE  ConTabla'
<1>0. /\ Lugares /\ UnLugar /\ ConTabla /\ TypeOK
      /\ proc \in [Procesos -> TProceso] /\ "largo" \in Hilos
      /\ {"afuera", "NEW", "largo"} \subseteq Sitios
  BY DeLugares, SitiosTipo DEF Cargados, TypeOK, Hilos
<1>. SUFFICES ASSUME NEW p \in Procesos, proc'[p].tabla_paginas = NULL
              PROVE  SinTablaEn(p)'
  BY DEF ConTabla
<1>1. CASE LargoRecibirTabla
  <2>1. pc["largo"] = "recibir_iniciar" /\ respuestas # <<>> /\ respuestas \in Seq(Numeros)
    BY <1>0, <1>1 DEF LargoRecibirTabla, Ir, TypeOK
  <2>2. mano["largo"] \in Procesos
    BY <1>0, <2>1, DeLugares DEF ManosSegunPunto
  <2>3. Head(respuestas) \in Numeros /\ NULL \notin Numeros
    BY <2>1, ConstantesAssumption DEF Numeros, Codigos
  <2>4. /\ proc'[mano["largo"]].tabla_paginas = Head(respuestas)
        /\ \A q \in Procesos \ {mano["largo"]} : proc'[q].tabla_paginas = proc[q].tabla_paginas
    BY <1>0, <1>1, <2>2 DEF LargoRecibirTabla, TProceso
  <2>5. p # mano["largo"] /\ SinTablaEn(p)
    BY <1>0, <2>3, <2>4 DEF ConTabla
  <2>6. ~Agarra("largo", p)
    BY <2>5 DEF Agarra
  <2>7. EnSitio(p, "afuera") \/ EnSitio(p, "NEW")
    BY <1>0, <2>5, <2>6, SitioDe DEF SinTablaEn
  <2>8. Quieto
    BY <1>0, <1>1, PasosQuietos
  <2>. QED
    BY <1>0, <2>7, <2>8 DEF Quieto, SinTablaEn
<1>2. CASE ~LargoRecibirTabla
  <2>1. SinTablaEn(p)
    BY <1>0, <1>2, TablasQuietas DEF ConTabla
  <2>2. CASE ~Largo
    BY <1>0, <2>1, <2>2, SinTablaAjeno
  <2>3. CASE LargoSacarNuevo
    <3>1. PICK q \in Procesos : Mudanza(q, "NEW", "largo")
      BY <1>0, <2>3, MueveSacarNuevo
    <3>2. pc["largo"] = "pop_nuevo" /\ pc'["largo"] = "enviar_iniciar"
      BY <1>0, <2>3 DEF LargoSacarNuevo, Ir, TypeOK, TipoPc
    <3>. QED
      BY <1>0, <2>1, <3>1, <3>2 DEF Mudanza, SinTablaEn
  <2>4. CASE LargoSacarSuspendido \/ LargoPushReady
    <3>1. PICK q \in Procesos, x \in {"SUSPENDED_READY", "largo"}, y \in Sitios : Mudanza(q, x, y)
      BY <1>0, <2>4, MueveSacarSuspendido, MuevePushReady, SitiosTipo
    <3>2. pc["largo"] \notin {"enviar_iniciar", "recibir_iniciar"}
      BY <2>4 DEF LargoSacarSuspendido, LargoPushReady, Ir
    <3>3. x \in Sitios /\ x \notin {"afuera", "NEW"}
      BY SitiosTipo
    <3>4. EnSitio(p, "afuera") \/ EnSitio(p, "NEW")
      BY <2>1, <3>2 DEF SinTablaEn
    <3>5. q # p
      BY <1>0, <3>1, <3>3, <3>4, UnicoSitio DEF Mudanza
    <3>. QED
      BY <1>0, <3>1, <3>4, <3>5 DEF Mudanza, SinTablaEn
  <2>5. CASE Largo /\ ~(LargoSacarNuevo \/ LargoSacarSuspendido \/ LargoPushReady)
    <3>1. Quieto
      BY <1>0, <1>2, <2>5, PasosQuietos DEF Largo
    <3>2. pc["largo"] \in {"enviar_iniciar", "recibir_iniciar"} => pc'["largo"] = "recibir_iniciar"
      BY <1>0, <1>2, <2>5 DEF Largo, LargoEsperarGrado, LargoEsperarEntrada, LargoSinSuspendidos,
           LargoEnviarIniciar, LargoPostReady, Ir, TypeOK, TipoPc
    <3>. QED
      BY <1>0, <2>1, <3>1, <3>2 DEF Quieto, SinTablaEn
  <2>. QED
    BY <2>2, <2>3, <2>4, <2>5
<1>. QED
  BY <1>1, <1>2

LEMMA CargadosInicio ==
  ASSUME Init
  PROVE  Cargados
<1>1. Lugares
  BY LugaresInicio
<1>2. \A p \in Procesos : EnSitio(p, "afuera")
  BY SitioDe DEF Init, Activo
<1>3. \A p \in Procesos : ~proc[p].suspendido
  BY DEF Init, CrearProceso
<1>4. \A p \in Procesos : ~EnSitio(p, "SUSPENDED_READY")
  BY <1>1, <1>2, DeLugares, SitiosTipo, UnicoSitio
<1>. QED
  BY <1>1, <1>2, <1>3, <1>4 DEF Cargados, Suspendidos, ConTabla, SinTablaEn

\* Lugares, with who may be suspended and who may lack its tables, is
\* inductive.
THEOREM CargadosSiempre == Spec => []Cargados
<1>1. Init => Cargados
  BY CargadosInicio
<1>2. Cargados /\ [Next]_vars => Cargados'
  BY LugaresPaso, SuspendidosPaso, ConTablaPaso DEF Cargados
<1>. QED
  BY <1>1, <1>2, PTL DEF Spec

\* A process that is ready or running is not suspended and has had its tables
\* asked for, however many there are and whatever the memory answers: the long-term
\* thread clears suspendido and waits for the answer before its push, and the
\* I/O thread suspends only a process it still has in BLOCKED.
THEOREM ListosCargadosSiempre == Spec => []ListosCargados
<1>1. Cargados => ListosCargados
  <2>. SUFFICES ASSUME Cargados, NEW p \in Procesos, EnCola(p, "READY") \/ EnCola(p, "EXEC")
                PROVE  ~proc[p].suspendido /\ proc[p].tabla_paginas # NULL
    BY DEF ListosCargados
  <2>1. PICK x \in {"READY", "EXEC"} : x \in Sitios /\ EnSitio(p, x)
    BY SitioDe DEF Estados
  <2>2. \A y \in Sitios : EnSitio(p, y) <=> y = x
    BY <2>1, DeLugares, UnicoSitio DEF Cargados
  <2>3. \A y \in {"BLOCKED", "io", "SUSPENDED_READY", "largo", "afuera", "NEW"} : ~EnSitio(p, y)
    BY <2>2, SitiosTipo
  <2>. QED
    BY <2>3 DEF Cargados, Suspendidos, PuedeSuspendido, ConTabla, SinTablaEn
<1>. QED
  BY <1>1, CargadosSiempre, PTL

-----------------------------------------------------------------------------
\* The places in memory.  A process has one while it is in these sites, and
\* in BLOCKED or on its way out of it if it has not been suspended.
Dentro == {"READY", "EXEC", "EXIT", "corto", "cpu"}
ConCupo(x, suspendido) == x \in Dentro \/ (x \in {"BLOCKED", "io"} /\ ~suspendido)

LEMMA OcupaSitio ==
  ASSUME NEW p \in Procesos
  PROVE  /\ Ocupa(p) <=> \E x \in Sitios : EnSitio(p, x) /\ ConCupo(x, proc[p].suspendido)
         /\ Ocupa(p)' <=> \E x \in Sitios : EnSitio(p, x)' /\ ConCupo(x, proc'[p].suspendido)
<1>1. Ocupa(p) <=> \/ EnSitio(p, "READY") \/ EnSitio(p, "EXEC") \/ EnSitio(p, "EXIT")
                   \/ EnSitio(p, "corto") \/ EnSitio(p, "cpu")
                   \/ (EnSitio(p, "BLOCKED") \/ EnSitio(p, "io")) /\ ~proc[p].suspendido
  BY DEF Ocupa, EnSitio, Agarra, Estados, Hilos
<1>2. Ocupa(p)' <=> \/ EnSitio(p, "READY")' \/ EnSitio(p, "EXEC")' \/ EnSitio(p, "EXIT")'
                    \/ EnSitio(p, "corto")' \/ EnSitio(p, "cpu")'
                    \/ (EnSitio(p, "BLOCKED")' \/ EnSitio(p, "io")') /\ ~proc'[p].suspendido
  BY DEF Ocupa, EnSitio, Agarra, Estados, Hilos
<1>. QED
  BY <1>1, <1>2, SitiosTipo DEF ConCupo, Dentro

\* A process that goes from a site to another keeps its place, or its lack of
\* one, if both sites agree; else it takes one or gives one back.
LEMMA OcupantesMudanza ==
  ASSUME UnLugar, NEW p \in Procesos, NEW x \in Sitios, NEW y \in Sitios, Mudanza(p, x, y),
         \A q \in Procesos \ {p} : proc'[q].suspendido = proc[q].suspendido
  PROVE  /\ Ocupa(p) <=> ConCupo(x, proc[p].suspendido)
         /\ Ocupa(p)' <=> ConCupo(y, proc'[p].suspendido)
         /\ \A q \in Procesos \ {p} : Ocupa(q)' <=> Ocupa(q)
<1>1. \A z \in Sitios : (EnSitio(p, z) <=> z = x) /\ (EnSitio(p, z)' <=> z = y)
  BY UnicoSitio DEF Mudanza
<1>2. (Ocupa(p) <=> ConCupo(x, proc[p].suspendido)) /\ (Ocupa(p)' <=> ConCupo(y, proc'[p].suspendido))
  BY <1>1, OcupaSitio
<1>3. ASSUME NEW q \in Procesos \ {p} PROVE Ocupa(q)' <=> Ocupa(q)
  <2>1. \A z \in Sitios : EnSitio(q, z)' <=> EnSitio(q, z)
    BY <1>3 DEF Mudanza
  <2>. QED
    BY <1>3, <2>1, OcupaSitio
<1>. QED
  BY <1>2, <1>3

LEMMA OcupantesQuietos ==
  ASSUME Quieto, \A q \in Procesos : proc'[q].suspendido = proc[q].suspendido
  PROVE  Ocupantes' = Ocupantes
BY OcupaSitio DEF Quieto, Ocupantes

Entran == LargoPushReady
Salen == CpuSacarExit \/ IoRecibirSuspender

LEMMA OcupantesPaso ==
  ASSUME Cargados, [Next]_vars
  PROVE  /\ Entran => \E p \in Procesos \ Ocupantes : Ocupantes' = Ocupantes \cup {p}
         /\ Salen => \E p \in Ocupantes : Ocupantes' = Ocupantes \ {p}
         /\ ~Entran /\ ~Salen => Ocupantes' = Ocupantes
<1>0. Lugares /\ UnLugar /\ Suspendidos /\ proc \in [Procesos -> TProceso]
  BY DeLugares DEF Cargados, TypeOK
<1>. DEFINE Iguales == \A q \in Procesos : proc'[q].suspendido = proc[q].suspendido
<1>1. ASSUME Entran
      PROVE  \E p \in Procesos \ Ocupantes : Ocupantes' = Ocupantes \cup {p}
  <2>1. PICK p \in Procesos : p = mano["largo"] /\ Mudanza(p, "largo", "READY")
    BY <1>0, <1>1, MuevePushReady DEF Entran
  <2>2. \A q \in Procesos \ {p} : proc'[q].suspendido = proc[q].suspendido
    BY <1>0, <1>1, <2>1 DEF Entran, LargoPushReady, TProceso
  <2>3. ~Ocupa(p) /\ Ocupa(p)' /\ \A q \in Procesos \ {p} : Ocupa(q)' <=> Ocupa(q)
    BY <1>0, <2>1, <2>2, OcupantesMudanza, SitiosTipo DEF ConCupo, Dentro
  <2>. QED
    BY <2>3 DEF Ocupantes
<1>2. ASSUME CpuSacarExit
      PROVE  \E p \in Ocupantes : Ocupantes' = Ocupantes \ {p}
  <2>1. PICK p \in Procesos : Mudanza(p, "EXIT", "afuera")
    BY <1>0, <1>2, MueveSacarExit
  <2>2. proc' = proc
    BY <1>2 DEF CpuSacarExit
  <2>3. Ocupa(p) /\ ~Ocupa(p)' /\ \A q \in Procesos \ {p} : Ocupa(q)' <=> Ocupa(q)
    BY <1>0, <2>1, <2>2, OcupantesMudanza, SitiosTipo DEF ConCupo, Dentro
  <2>. QED
    BY <2>3 DEF Ocupantes
<1>3. ASSUME IoRecibirSuspender
      PROVE  \E p \in Ocupantes : Ocupantes' = Ocupantes \ {p}
  <2>0. pc["io"] = "recibir_suspender"
    BY <1>3 DEF IoRecibirSuspender, Ir
  <2>1. PICK p \in Procesos : p = mano["io"] /\ EnCola(p, "BLOCKED") /\ ~proc[p].suspendido
    BY <1>0, <2>0, DeLugares DEF ManosSegunPunto, ManosEnColas, Hilos
  <2>2. /\ proc'[p].suspendido
        /\ \A q \in Procesos \ {p} : proc'[q].suspendido = proc[q].suspendido
    BY <1>0, <1>3, <2>1 DEF IoRecibirSuspender, TProceso
  <2>3. Quieto
    BY <1>0, <1>3, PasosQuietos
  <2>4. \A x \in Sitios : (EnSitio(p, x) <=> x = "BLOCKED") /\ (EnSitio(p, x)' <=> x = "BLOCKED")
    BY <1>0, <2>1, <2>3, SitioDe, UnicoSitio DEF Quieto, Estados
  <2>5. Ocupa(p) /\ ~Ocupa(p)'
    BY <2>1, <2>2, <2>4, OcupaSitio, SitiosTipo DEF ConCupo, Dentro
  <2>6. \A q \in Procesos \ {p} : Ocupa(q)' <=> Ocupa(q)
    BY <2>2, <2>3, OcupaSitio DEF Quieto
  <2>. QED
    BY <2>5, <2>6 DEF Ocupantes
<1>4. ASSUME ~Entran, ~Salen
      PROVE  Ocupantes' = Ocupantes
  <2>0. Iguales
    BY <1>0, <1>4, SuspendidosQuietos DEF Entran, Salen
  <2>1. ASSUME NEW p \in Procesos, NEW x \in Sitios, NEW y \in Sitios, Mudanza(p, x, y),
               ConCupo(x, proc[p].suspendido) <=> ConCupo(y, proc[p].suspendido)
        PROVE  Ocupantes' = Ocupantes
    BY <1>0, <2>0, <2>1, OcupantesMudanza DEF Ocupantes
  <2>2. CASE ~Mueven
    BY <1>0, <2>0, <2>2, NoMueven, OcupantesQuietos
  <2>3. ASSUME NEW p \in Procesos, IniciarProceso(p) PROVE Ocupantes' = Ocupantes
    BY <1>0, <2>1, <2>3, MueveIniciar, SitiosTipo DEF ConCupo, Dentro
  <2>4. CASE LargoSacarSuspendido
    BY <1>0, <2>1, <2>4, MueveSacarSuspendido, SitiosTipo DEF ConCupo, Dentro
  <2>5. CASE LargoSacarNuevo
    BY <1>0, <2>1, <2>5, MueveSacarNuevo, SitiosTipo DEF ConCupo, Dentro
  <2>6. CASE CortoPopReady
    BY <1>0, <2>1, <2>6, MuevePopReady, SitiosTipo DEF ConCupo, Dentro
  <2>7. CASE CortoPushExec
    BY <1>0, <2>1, <2>7, MuevePushExec, SitiosTipo DEF ConCupo, Dentro
  <2>8. CASE CpuSacarExec
    BY <1>0, <2>1, <2>8, MueveSacarExec, SitiosTipo DEF ConCupo, Dentro
  <2>9. CASE CpuAReady
    BY <1>0, <2>1, <2>9, MueveAReady, SitiosTipo DEF ConCupo, Dentro
  <2>10. CASE CpuABlocked
    <3>1. PICK p \in Procesos : Mudanza(p, "cpu", "BLOCKED")
      BY <1>0, <2>10, MueveABlocked
    <3>2. \A z \in PuedeSuspendido : ~EnSitio(p, z)
      BY <1>0, <3>1, SitiosTipo, UnicoSitio DEF Mudanza, PuedeSuspendido
    <3>3. ~proc[p].suspendido
      BY <1>0, <3>2 DEF Suspendidos
    <3>. QED
      BY <2>1, <3>1, <3>3, SitiosTipo DEF ConCupo, Dentro
  <2>11. CASE CpuAExit
    BY <1>0, <2>1, <2>11, MueveAExit, SitiosTipo DEF ConCupo, Dentro
  <2>12. CASE IoPopBlocked
    BY <1>0, <2>1, <2>12, MuevePopBlocked, SitiosTipo DEF ConCupo, Dentro
  <2>13. CASE IoPushSuspendido
    <3>1. proc[mano["io"]].suspendido
      BY <2>13 DEF IoPushSuspendido
    <3>. QED
      BY <1>0, <2>1, <2>13, <3>1, MuevePushSuspendido, SitiosTipo DEF ConCupo, Dentro
  <2>14. CASE IoPushReady
    <3>1. ~proc[mano["io"]].suspendido
      BY <2>14 DEF IoPushReady
    <3>. QED
      BY <1>0, <2>1, <2>14, <3>1, MueveDesbloquearReady, SitiosTipo DEF ConCupo, Dentro
  <2>. QED
    BY <1>4, <2>2, <2>3, <2>4, <2>5, <2>6, <2>7, <2>8, <2>9, <2>10, <2>11, <2>12, <2>13, <2>14
       DEF Mueven, Entran, Salen
<1>. QED
  BY <1>1, <1>2, <1>3, <1>4 DEF Salen

\* The units of multiprogramacion that no process holds: in the semaphore, or
\* in a thread that has taken one or is about to post it.
Reserva ==
  sem["multiprogramacion"]
    + Uno(pc["largo"] \notin {"multiprogramacion", "post_ready"})
    + Uno(pc["cpu"] = "post_multiprogramacion")
    + Uno(pc["io"] = "post_multiprogramacion")

LEMMA ReservaPaso ==
  ASSUME TypeOK, [Next]_vars
  PROVE  /\ Entran => Reserva' = Reserva - 1
         /\ Salen => Reserva' = Reserva + 1
         /\ ~Entran /\ ~Salen => Reserva' = Reserva
<1>0. /\ sem \in [Semaforos -> Nat] /\ pc \in [Hilos -> UNION {Puntos[h] : h \in Hilos}]
      /\ sem["multiprogramacion"] \in Nat
      /\ Hilos = {"largo", "corto", "cpu", "io"} /\ {"ready", "blocked", "ejecutando",
            "entrando_a_ready", "planificacion", "multiprogramacion"} = Semaforos
  BY DEF TypeOK, TipoPc, Semaforos, Hilos
<1>1. ASSUME NEW h \in Hilos, NEW a, NEW b, Ir(h, a, b)
      PROVE  pc[h] = a /\ pc'[h] = b /\ \A g \in Hilos \ {h} : pc'[g] = pc[g]
  BY <1>0, <1>1 DEF Ir
<1>2. ASSUME NEW s \in Semaforos \ {"multiprogramacion"}, Esperar(s) \/ Postear(s)
      PROVE  sem'["multiprogramacion"] = sem["multiprogramacion"]
  BY <1>0, <1>2 DEF Esperar, Postear
<1>3. CASE Largo
  <2>1. pc'["cpu"] = pc["cpu"] /\ pc'["io"] = pc["io"]
    BY <1>0, <1>1, <1>3 DEF Largo, LargoEsperarGrado, LargoEsperarEntrada, LargoSacarSuspendido,
         LargoSinSuspendidos, LargoSacarNuevo, LargoEnviarIniciar, LargoRecibirTabla,
         LargoPushReady, LargoPostReady
  <2>2. ~Salen /\ (Entran <=> LargoPushReady)
    BY <1>0, <2>1 DEF Entran, Salen, CpuSacarExit, IoRecibirSuspender, Ir
  <2>3. CASE LargoEsperarGrado
    <3>1. /\ pc["largo"] = "multiprogramacion" /\ pc'["largo"] = "entrando_a_ready"
          /\ sem'["multiprogramacion"] = sem["multiprogramacion"] - 1
      BY <1>0, <1>1, <2>3 DEF LargoEsperarGrado, Esperar
    <3>2. ~Entran
      BY <3>1 DEF Entran, LargoPushReady, Ir
    <3>. QED
      BY <1>0, <2>1, <2>2, <3>1, <3>2 DEF Reserva, Uno
  <2>4. CASE LargoPushReady
    <3>1. /\ pc["largo"] = "push_ready" /\ pc'["largo"] = "post_ready"
          /\ sem'["multiprogramacion"] = sem["multiprogramacion"]
      BY <1>0, <1>1, <2>4 DEF LargoPushReady
    <3>. QED
      BY <1>0, <2>1, <2>2, <2>4, <3>1 DEF Reserva, Uno
  <2>5. CASE LargoPostReady
    <3>1. /\ pc["largo"] = "post_ready" /\ pc'["largo"] = "multiprogramacion"
          /\ sem'["multiprogramacion"] = sem["multiprogramacion"]
      BY <1>0, <1>1, <1>2, <2>5 DEF LargoPostReady
    <3>2. ~Entran
      BY <3>1 DEF Entran, LargoPushReady, Ir
    <3>. QED
      BY <1>0, <2>1, <2>2, <3>1, <3>2 DEF Reserva, Uno
  <2>6. CASE Largo /\ ~(LargoEsperarGrado \/ LargoPushReady \/ LargoPostReady)
    <3>1. /\ pc["largo"] \notin {"multiprogramacion", "post_ready"}
          /\ pc'["largo"] \notin {"multiprogramacion", "post_ready"}
          /\ sem'["multiprogramacion"] = sem["multiprogramacion"]
      BY <1>0, <1>1, <1>2, <2>6 DEF Largo, LargoEsperarEntrada, LargoSacarSuspendido,
         LargoSinSuspendidos, LargoSacarNuevo, LargoEnviarIniciar, LargoRecibirTabla
    <3>. QED
      BY <1>0, <2>1, <2>2, <2>6, <3>1 DEF Reserva, Uno
  <2>. QED
    BY <1>3, <2>3, <2>4, <2>5, <2>6
<1>4. CASE Corto
  <2>1. /\ pc'["cpu"] = pc["cpu"] /\ pc'["io"] = pc["io"] /\ pc'["largo"] = pc["largo"]
        /\ sem'["multiprogramacion"] = sem["multiprogramacion"]
    BY <1>0, <1>1, <1>2, <1>4 DEF Corto, CortoEsperarReady, CortoDesalojar, CortoNoDesalojar,
         CortoEsperarPlanificacion, CortoPopReady, CortoPushExec, CortoPostEjecutando
  <2>2. ~Salen /\ ~Entran
    BY <1>0, <2>1 DEF Entran, Salen, CpuSacarExit, IoRecibirSuspender, LargoPushReady, Ir
  <2>. QED
    BY <2>1, <2>2 DEF Reserva
<1>5. CASE Cpu
  <2>1. pc'["largo"] = pc["largo"] /\ pc'["io"] = pc["io"]
    BY <1>0, <1>1, <1>5 DEF Cpu, CpuEsperarEjecutando, CpuEnviarProceso, CpuRecibirPcb, CpuSacarExec,
         CpuAReady, CpuPostReady, CpuABlocked, CpuPostBlocked, CpuAExit, CpuEnviarFinalizar,
         CpuRecibirFinalizar, CpuSacarExit, CpuPostMultiprogramacion, CpuPostPlanificacion
  <2>2. ~Entran /\ (Salen <=> CpuSacarExit)
    BY <1>0, <2>1 DEF Entran, Salen, LargoPushReady, IoRecibirSuspender, Ir
  <2>3. CASE CpuSacarExit
    <3>1. /\ pc["cpu"] = "sacar_exit" /\ pc'["cpu"] = "post_multiprogramacion"
          /\ sem'["multiprogramacion"] = sem["multiprogramacion"]
      BY <1>0, <1>1, <2>3 DEF CpuSacarExit
    <3>. QED
      BY <1>0, <2>1, <2>2, <2>3, <3>1 DEF Reserva, Uno
  <2>4. CASE CpuPostMultiprogramacion
    <3>1. /\ pc["cpu"] = "post_multiprogramacion" /\ pc'["cpu"] = "post_planificacion"
          /\ sem'["multiprogramacion"] = sem["multiprogramacion"] + 1
      BY <1>0, <1>1, <2>4 DEF CpuPostMultiprogramacion, Postear
    <3>2. ~Salen
      BY <2>2, <3>1 DEF CpuSacarExit, Ir
    <3>. QED
      BY <1>0, <2>1, <2>2, <3>1, <3>2 DEF Reserva, Uno
  <2>5. CASE Cpu /\ ~(CpuSacarExit \/ CpuPostMultiprogramacion)
    <3>1. /\ pc["cpu"] # "post_multiprogramacion" /\ pc'["cpu"] # "post_multiprogramacion"
          /\ sem'["multiprogramacion"] = sem["multiprogramacion"]
      <4>1. CASE CpuRecibirPcb
        <5>1. sem' = sem /\ Ir("cpu", "recibir_pcb", "sacar_exec")
          BY <4>1 DEF CpuRecibirPcb
        <5>. QED
          BY <1>0, <1>1, <5>1
      <4>2. CASE CpuPostReady \/ CpuPostBlocked \/ CpuPostPlanificacion \/ CpuEsperarEjecutando
        BY <1>0, <1>1, <1>2, <4>2 DEF CpuPostReady, CpuPostBlocked, CpuPostPlanificacion,
           CpuEsperarEjecutando
      <4>3. CASE CpuEnviarProceso \/ CpuSacarExec \/ CpuAReady \/ CpuABlocked \/ CpuAExit
                   \/ CpuEnviarFinalizar \/ CpuRecibirFinalizar
        BY <1>0, <1>1, <4>3 DEF CpuEnviarProceso, CpuSacarExec, CpuAReady, CpuABlocked, CpuAExit,
           CpuEnviarFinalizar, CpuRecibirFinalizar
      <4>. QED
        BY <2>5, <4>1, <4>2, <4>3 DEF Cpu
    <3>. QED
      BY <1>0, <2>1, <2>2, <2>5, <3>1 DEF Reserva, Uno
  <2>. QED
    BY <1>5, <2>3, <2>4, <2>5
<1>6. CASE Io
  <2>1. pc'["largo"] = pc["largo"] /\ pc'["cpu"] = pc["cpu"]
    BY <1>0, <1>1, <1>6 DEF Io, IoEsperarBlocked, IoContarBloqueo, IoRecibirSuspender,
         IoPostMultiprogramacion, IoPostBlocked, IoDormir, IoPopBlocked, IoTomarBlocked,
         IoPushSuspendido, IoPostEntrando, IoPushReady, IoPostReady
  <2>2. ~Entran /\ (Salen <=> IoRecibirSuspender)
    BY <1>0, <2>1 DEF Entran, Salen, LargoPushReady, CpuSacarExit, Ir
  <2>3. CASE IoRecibirSuspender
    <3>1. /\ pc["io"] = "recibir_suspender" /\ pc'["io"] = "post_multiprogramacion"
          /\ sem'["multiprogramacion"] = sem["multiprogramacion"]
      BY <1>0, <1>1, <2>3 DEF IoRecibirSuspender
    <3>. QED
      BY <1>0, <2>1, <2>2, <2>3, <3>1 DEF Reserva, Uno
  <2>4. CASE IoPostMultiprogramacion
    <3>1. /\ pc["io"] = "post_multiprogramacion" /\ pc'["io"] = "suspender"
          /\ sem'["multiprogramacion"] = sem["multiprogramacion"] + 1
      BY <1>0, <1>1, <2>4 DEF IoPostMultiprogramacion, Postear
    <3>2. ~Salen
      BY <2>2, <3>1 DEF IoRecibirSuspender, Ir
    <3>. QED
      BY <1>0, <2>1, <2>2, <3>1, <3>2 DEF Reserva, Uno
  <2>5. CASE Io /\ ~(IoRecibirSuspender \/ IoPostMultiprogramacion)
    <3>1. /\ pc["io"] # "post_multiprogramacion" /\ pc'["io"] # "post_multiprogramacion"
          /\ sem'["multiprogramacion"] = sem["multiprogramacion"]
      <4>1. CASE IoContarBloqueo
        <5>1. /\ sem' = sem
              /\ Ir("io", "suspender", "recibir_suspender") \/ Ir("io", "suspender", "suspender")
          BY <4>1 DEF IoContarBloqueo
        <5>. QED
          BY <1>0, <1>1, <5>1
      <4>2. CASE IoDormir
        <5>1. sem' = sem /\ (Ir("io", "realizar_io", "blocked") \/ Ir("io", "realizar_io", "pop_blocked"))
          BY <4>2 DEF IoDormir
        <5>. QED
          BY <1>0, <1>1, <5>1
      <4>3. CASE ~IoContarBloqueo /\ ~IoDormir
        BY <1>0, <1>1, <1>2, <2>5, <4>3 DEF Io, IoEsperarBlocked, IoPostBlocked, IoPopBlocked,
           IoTomarBlocked, IoPushSuspendido, IoPostEntrando, IoPushReady, IoPostReady
      <4>. QED
        BY <4>1, <4>2, <4>3
    <3>. QED
      BY <1>0, <2>1, <2>2, <2>5, <3>1 DEF Reserva, Uno
  <2>. QED
    BY <1>6, <2>3, <2>4, <2>5
<1>7. CASE (\E p \in Procesos : Consola(p)) \/ DevolverProceso \/ Memoria \/ UNCHANGED vars
  <2>1. pc' = pc
    BY <1>7 DEF Consola, IniciarProceso, AvisarEntrada, DevolverProceso, Memoria, MemoriaIniciar,
         MemoriaCambiar, Responder, vars
  <2>2. sem'["multiprogramacion"] = sem["multiprogramacion"]
    BY <1>0, <1>2, <1>7 DEF Consola, IniciarProceso, AvisarEntrada, DevolverProceso, Memoria,
         MemoriaIniciar, MemoriaCambiar, Responder, vars
  <2>3. ~Salen /\ ~Entran
    BY <1>0, <2>1 DEF Entran, Salen, CpuSacarExit, IoRecibirSuspender, LargoPushReady, Ir
  <2>. QED
    BY <2>1, <2>2, <2>3 DEF Reserva
<1>. QED
  BY <1>3, <1>4, <1>5, <1>6, <1>7 DEF Next, Reposo

Cupos == Cargados /\ CuposConservados

LEMMA CuposPaso ==
  ASSUME Cupos, [Next]_vars
  PROVE  CuposConservados'
<1>0. Cargados /\ TypeOK /\ GRADO \in Nat
  BY DeLugares, ConstantesAssumption DEF Cupos, Cargados
<1>1. Reserva \in Nat
  BY <1>0 DEF Reserva, Uno, TypeOK, Semaforos
<1>2. /\ Reserva + Cardinality(Ocupantes) = GRADO
      /\ Reserva' + Cardinality(Ocupantes)' = GRADO => CuposConservados'
  <2>1. sem["multiprogramacion"] \in Nat /\ sem'["multiprogramacion"] \in Nat
    BY <1>0, TipoPaso, DeLugares DEF Cargados, TypeOK, Semaforos
  <2>2. IsFiniteSet(Ocupantes) /\ IsFiniteSet(Ocupantes')
    BY ConstantesAssumption, FS_Subset DEF Ocupantes
  <2>3. Cardinality(Ocupantes) \in Nat /\ Cardinality(Ocupantes)' \in Nat
    BY <2>2, FS_CardinalityType
  <2>. QED
    BY <2>1, <2>3 DEF Cupos, CuposConservados, Reserva, Uno
<1>3. IsFiniteSet(Ocupantes) /\ Cardinality(Ocupantes) \in Nat
  <2>1. IsFiniteSet(Ocupantes)
    BY ConstantesAssumption, FS_Subset DEF Ocupantes
  <2>. QED
    BY <2>1, FS_CardinalityType
<1>4. CASE Entran
  <2>1. PICK p \in Procesos \ Ocupantes : Ocupantes' = Ocupantes \cup {p}
    BY <1>0, <1>4, OcupantesPaso
  <2>2. Cardinality(Ocupantes)' = Cardinality(Ocupantes) + 1
    BY <1>3, <2>1, FS_AddElement
  <2>. QED
    BY <1>0, <1>1, <1>2, <1>3, <1>4, <2>2, ReservaPaso
<1>5. CASE Salen
  <2>1. PICK p \in Ocupantes : Ocupantes' = Ocupantes \ {p}
    BY <1>0, <1>5, OcupantesPaso
  <2>2. Cardinality(Ocupantes)' = Cardinality(Ocupantes) - 1
    BY <1>3, <2>1, FS_RemoveElement
  <2>. QED
    BY <1>0, <1>1, <1>2, <1>3, <1>5, <2>2, ReservaPaso
<1>6. CASE ~Entran /\ ~Salen
  <2>1. Ocupantes' = Ocupantes
    BY <1>0, <1>6, OcupantesPaso
  <2>. QED
    BY <1>0, <1>1, <1>2, <1>6, <2>1, ReservaPaso
<1>. QED
  BY <1>4, <1>5, <1>6

LEMMA CuposInicio ==
  ASSUME Init
  PROVE  CuposConservados
<1>1. Ocupantes = {}
  <2>1. ASSUME NEW p \in Procesos PROVE ~Ocupa(p)
    <3>1. Lugares /\ EnSitio(p, "afuera")
      BY LugaresInicio, SitioDe DEF Init, Activo
    <3>2. \A y \in Sitios : EnSitio(p, y) <=> y = "afuera"
      BY <3>1, DeLugares, SitiosTipo, UnicoSitio
    <3>. QED
      BY <3>2, OcupaSitio DEF ConCupo, Dentro
  <2>. QED
    BY <2>1 DEF Ocupantes
<1>2. Cardinality(Ocupantes) = 0
  BY <1>1, FS_EmptySet
<1>3. /\ sem["multiprogramacion"] = GRADO /\ pc["largo"] = "multiprogramacion"
      /\ pc["cpu"] = "ejecutando" /\ pc["io"] = "blocked"
  BY DEF Init, Semaforos
<1>. QED
  BY <1>2, <1>3, ConstantesAssumption DEF CuposConservados, Uno

\* Cargados and the conservation of the places are inductive together.
THEOREM CuposInductivos == Spec => []Cupos
<1>1. Init => Cupos
  BY CargadosInicio, CuposInicio DEF Cupos
<1>2. Cupos /\ [Next]_vars => Cupos'
  BY LugaresPaso, SuspendidosPaso, ConTablaPaso, CuposPaso DEF Cupos, Cargados
<1>. QED
  BY <1>1, <1>2, PTL DEF Spec

\* The degree of multiprogramming holds for any number of processes and any
\* GRADO: the units of the semaphore are neither lost nor given twice, though
\* the CPU thread, the I/O thread and the long-term thread post and take them
\* for processes that the others are moving.
THEOREM CuposSiempre == Spec => []CuposConservados
<1>1. Cupos => CuposConservados
  BY DEF Cupos
<1>. QED
  BY <1>1, CuposInductivos, PTL

-----------------------------------------------------------------------------
\* The life cycle.  The state of a process follows from its site, whether it is
\* suspended and whether it has ended.
EstadoEn(x, suspendido, terminado) ==
  CASE x = "afuera" -> IF terminado THEN "FIN" ELSE "FUERA"
    [] x = "largo" -> IF suspendido THEN "SUSPENDED_READY" ELSE "NEW"
    [] x \in {"READY", "corto"} -> "READY"
    [] x \in {"EXEC", "cpu"} -> "EXEC"
    [] x \in {"BLOCKED", "io"} -> IF suspendido THEN "SUSPENDED_BLOCKED" ELSE "BLOCKED"
    [] x \in {"NEW", "SUSPENDED_READY", "EXIT"} -> x

EstadosPorSitio ==
  \A p \in Procesos, x \in Sitios :
    EnSitio(p, x) => EstadoDe(p) = EstadoEn(x, proc[p].suspendido, p \in finalizados)

LEMMA EstadoDeSitio == Lugares => EstadosPorSitio
<1>. SUFFICES ASSUME Lugares, NEW p \in Procesos, NEW x \in Sitios, EnSitio(p, x)
              PROVE  EstadoDe(p) = EstadoEn(x, proc[p].suspendido, p \in finalizados)
  BY DEF EstadosPorSitio
<1>. DEFINE s == proc[p].suspendido
            f == p \in finalizados
            EnC(e) == EnCola(p, e)
<1>1. \A y \in Sitios : EnSitio(p, y) <=> y = x
  BY DeLugares, UnicoSitio
<1>2. /\ \A e \in Estados : EnC(e) <=> x = e
      /\ \A h \in Hilos : Agarra(h, p) <=> x = h
      /\ (consola[p] = "conectada" \/ f) <=> x = "afuera"
  BY <1>1, SitioDe DEF Activo
<1>3. /\ mano["largo"] = p <=> x = "largo"
      /\ mano["corto"] = p <=> x = "corto"
      /\ mano["cpu"] = p /\ pc["cpu"] = "reubicar" <=> x = "cpu"
  BY <1>2 DEF Agarra, Hilos
<1>4. f => consola[p] # "conectada"
  BY DeLugares DEF Terminados
<1>5. x \in {"NEW", "READY", "EXEC", "BLOCKED", "EXIT", "SUSPENDED_READY",
             "largo", "corto", "cpu", "io", "afuera"}
  BY DEF Sitios, Estados, Hilos
<1>6. /\ EnC("NEW") <=> x = "NEW"
      /\ EnC("READY") <=> x = "READY"
      /\ EnC("EXEC") <=> x = "EXEC"
      /\ EnC("EXIT") <=> x = "EXIT"
      /\ EnC("SUSPENDED_READY") <=> x = "SUSPENDED_READY"
  BY <1>2 DEF Estados
<1>7. EstadoDe(p) =
  CASE f -> "FIN"
    [] consola[p] = "conectada" -> "FUERA"
    [] EnC("NEW") \/ (mano["largo"] = p /\ ~s) -> "NEW"
    [] EnC("SUSPENDED_READY") \/ (mano["largo"] = p /\ s) -> "SUSPENDED_READY"
    [] EnC("READY") \/ mano["corto"] = p -> "READY"
    [] EnC("EXIT") -> "EXIT"
    [] EnC("EXEC") \/ (mano["cpu"] = p /\ pc["cpu"] = "reubicar") -> "EXEC"
    [] OTHER -> IF s THEN "SUSPENDED_BLOCKED" ELSE "BLOCKED"
  BY DEF EstadoDe
<1>8. s \in BOOLEAN
  BY DeLugares DEF TypeOK, TProceso
<1>. HIDE DEF s, f, EnC
<1>9. EstadoDe(p) = EstadoEn(x, s, f)
  <2>1. CASE x = "afuera"
    BY <1>2, <1>3, <1>4, <1>6, <1>7, <2>1 DEF EstadoEn
  <2>2. CASE x = "largo"
    BY <1>2, <1>3, <1>6, <1>7, <1>8, <2>2 DEF EstadoEn
  <2>3. CASE x \in {"READY", "corto"}
    BY <1>2, <1>3, <1>6, <1>7, <2>3 DEF EstadoEn
  <2>4. CASE x \in {"EXEC", "cpu"}
    BY <1>2, <1>3, <1>6, <1>7, <2>4 DEF EstadoEn
  <2>5. CASE x \in {"BLOCKED", "io"}
    BY <1>2, <1>3, <1>6, <1>7, <2>5 DEF EstadoEn
  <2>6. CASE x \in {"NEW", "SUSPENDED_READY", "EXIT"}
    BY <1>2, <1>3, <1>6, <1>7, <2>6 DEF EstadoEn
  <2>. QED
    BY <1>5, <2>1, <2>2, <2>3, <2>4, <2>5, <2>6
<1>. QED
  BY <1>9 DEF s, f

\* A step that carries p from x to y changes its state and no other's.
LEMMA EstadoMudanza ==
  ASSUME Lugares, Lugares', NEW p \in Procesos, NEW x \in Sitios, NEW y \in Sitios,
         Mudanza(p, x, y),
         \A q \in Procesos \ {p} : proc'[q].suspendido = proc[q].suspendido,
         \A q \in Procesos \ {p} : q \in finalizados' <=> q \in finalizados
  PROVE  /\ EstadoDe(p) = EstadoEn(x, proc[p].suspendido, p \in finalizados)
         /\ EstadoDe(p)' = EstadoEn(y, proc'[p].suspendido, p \in finalizados')
         /\ \A q \in Procesos \ {p} : EstadoDe(q)' = EstadoDe(q)
<1>1. Lugares' => EstadosPorSitio'
  BY EstadoDeSitio, PTL
<1>2. EstadosPorSitio /\ EstadosPorSitio'
  BY <1>1, EstadoDeSitio
<1>3. /\ \A z \in Sitios : EnSitio(p, z)' <=> z = y
      /\ \A q \in Procesos \ {p}, z \in Sitios : EnSitio(q, z)' <=> EnSitio(q, z)
  BY DEF Mudanza
<1>4. ASSUME NEW q \in Procesos \ {p} PROVE EstadoDe(q)' = EstadoDe(q)
  <2>1. PICK z \in Sitios : EnSitio(q, z)
    BY <1>4, DeLugares DEF UnLugar
  <2>2. /\ EstadoDe(q) = EstadoEn(z, proc[q].suspendido, q \in finalizados)
        /\ EstadoDe(q)' = EstadoEn(z, proc'[q].suspendido, q \in finalizados')
    BY <1>2, <1>3, <1>4, <2>1 DEF EstadosPorSitio
  <2>. QED
    BY <1>4, <2>2 DEF EstadoEn
<1>. QED
  BY <1>2, <1>3, <1>4 DEF EstadosPorSitio, Mudanza

\* The steps of the life cycle, in terms of EstadoDe.
Mapa == [p \in Procesos |-> EstadoDe(p)]

LEMMA Pasa ==
  ASSUME NEW p \in Procesos, NEW a, NEW b, EstadoDe(p) = a, EstadoDe(p)' = b,
         \A q \in Procesos \ {p} : EstadoDe(q)' = EstadoDe(q)
  PROVE  Ciclo!Pasar(p, a, b)
<1>1. Mapa[p] = a
  BY DEF Mapa
<1>2. Mapa' = [Mapa EXCEPT ![p] = b]
  BY DEF Mapa
<1>. QED
  BY <1>1, <1>2 DEF Ciclo!Pasar, Mapa

LEMMA NadiePasa ==
  ASSUME \A q \in Procesos : EstadoDe(q)' = EstadoDe(q)
  PROVE  UNCHANGED Mapa
BY DEF Mapa

\* EnMemoria of the life cycle is Ocupantes.
LEMMA EnMemoriaOcupantes ==
  ASSUME Lugares
  PROVE  Ciclo!EnMemoria = Ocupantes
<1>1. ASSUME NEW p \in Procesos
      PROVE  EstadoDe(p) \in {"READY", "EXEC", "BLOCKED", "EXIT"} <=> Ocupa(p)
  <2>1. PICK x \in Sitios : \A y \in Sitios : EnSitio(p, y) <=> y = x
    BY DeLugares DEF UnLugar
  <2>2. EstadoDe(p) = EstadoEn(x, proc[p].suspendido, p \in finalizados)
    BY <2>1, EstadoDeSitio DEF EstadosPorSitio
  <2>3. Ocupa(p) <=> ConCupo(x, proc[p].suspendido)
    BY <2>1, OcupaSitio
  <2>4. x \in {"NEW", "READY", "EXEC", "BLOCKED", "EXIT", "SUSPENDED_READY",
               "largo", "corto", "cpu", "io", "afuera"}
    BY DEF Sitios, Estados, Hilos
  <2>. QED
    BY <2>2, <2>3, <2>4 DEF EstadoEn, ConCupo, Dentro
<1>. QED
  BY <1>1 DEF Ciclo!EnMemoria, Ocupantes

LEMMA CicloInicio ==
  ASSUME Init
  PROVE  Ciclo!Init
<1>1. ASSUME NEW p \in Procesos PROVE EstadoDe(p) = "FUERA"
  <2>1. EnSitio(p, "afuera") /\ p \notin finalizados
    BY SitioDe DEF Init, Activo
  <2>2. EstadosPorSitio
    BY LugaresInicio, EstadoDeSitio
  <2>. QED
    BY <2>1, <2>2, SitiosTipo DEF EstadosPorSitio, EstadoEn
<1>. QED
  BY <1>1 DEF Ciclo!Init

\* The steps that change no state: those that move nobody, and those that take
\* a process out of a queue.
LEMMA EstadosQuietos ==
  ASSUME Lugares, Lugares', Quieto, finalizados' = finalizados,
         \A q \in Procesos : proc'[q].suspendido = proc[q].suspendido
  PROVE  UNCHANGED Mapa
<1>1. Lugares' => EstadosPorSitio'
  BY EstadoDeSitio, PTL
<1>2. EstadosPorSitio /\ EstadosPorSitio'
  BY <1>1, EstadoDeSitio
<1>3. ASSUME NEW q \in Procesos PROVE EstadoDe(q)' = EstadoDe(q)
  <2>1. PICK z \in Sitios : EnSitio(q, z)
    BY DeLugares DEF UnLugar
  <2>2. EnSitio(q, z)'
    BY <2>1 DEF Quieto
  <2>. QED
    BY <1>2, <2>1, <2>2 DEF EstadosPorSitio
<1>. QED
  BY <1>3, NadiePasa

LEMMA MudanzaSinPaso ==
  ASSUME Lugares, Lugares', NEW p \in Procesos, NEW x \in Sitios, NEW y \in Sitios,
         Mudanza(p, x, y), finalizados' = finalizados, NEW s, proc[p].suspendido = s,
         \A q \in Procesos : proc'[q].suspendido = proc[q].suspendido,
         \A f : EstadoEn(x, s, f) = EstadoEn(y, s, f)
  PROVE  UNCHANGED Mapa
BY EstadoMudanza, NadiePasa

LEMMA MudanzaConPaso ==
  ASSUME Lugares, Lugares', NEW p \in Procesos, NEW x \in Sitios, NEW y \in Sitios,
         Mudanza(p, x, y), NEW a, NEW b,
         \A q \in Procesos \ {p} : proc'[q].suspendido = proc[q].suspendido,
         \A q \in Procesos \ {p} : q \in finalizados' <=> q \in finalizados,
         EstadoEn(x, proc[p].suspendido, p \in finalizados) = a,
         EstadoEn(y, proc'[p].suspendido, p \in finalizados') = b
  PROVE  Ciclo!Pasar(p, a, b)
BY EstadoMudanza, Pasa

\* A unit of multiprogramacion in the hands of the long-term thread is one
\* that no process has, and while the short-term thread has its turn to fill
\* EXEC nobody is in it nor on its way out.
LEMMA MismoCardinal == \A S : Ciclo!Cardinality(S) = Cardinality(S)
BY DEF Cardinality, Ciclo!Cardinality, IsFiniteSet, Ciclo!IsFiniteSet

LEMMA HayLugar ==
  ASSUME Cupos, pc["largo"] = "push_ready"
  PROVE  Cardinality(Ciclo!EnMemoria) < GRADO
<1>1. /\ Lugares /\ CuposConservados /\ GRADO \in Nat
      /\ sem["multiprogramacion"] \in Nat
  BY DeLugares, ConstantesAssumption DEF Cupos, Cargados, TypeOK, Semaforos
<1>2. Cardinality(Ocupantes) \in Nat
  BY ConstantesAssumption, FS_Subset, FS_CardinalityType DEF Ocupantes
<1>3. sem["multiprogramacion"] + Cardinality(Ocupantes) + 1
        + Uno(pc["cpu"] = "post_multiprogramacion")
        + Uno(pc["io"] = "post_multiprogramacion") = GRADO
  BY <1>1 DEF CuposConservados, Uno
<1>4. Cardinality(Ocupantes) < GRADO
  BY <1>1, <1>2, <1>3 DEF Uno
<1>. QED
  BY <1>1, <1>4, EnMemoriaOcupantes

LEMMA CpuLibre ==
  ASSUME Lugares, pc["corto"] = "push_exec"
  PROVE  Ciclo!Los("EXEC") = {}
<1>1. /\ TurnoEnBalance /\ EjecutandoEnBalance /\ TypeOK
  BY DeLugares DEF Inductiva, SemaforosEnBalance
<1>2. /\ sem["planificacion"] \in Nat /\ sem["ejecutando"] \in Nat /\ Cuantos("EXEC") \in Nat
  BY <1>1, NaturalesDe DEF Estados, Semaforos
<1>3. pc["cpu"] = "ejecutando" /\ Cuantos("EXEC") = 0
  BY <1>1, <1>2 DEF TurnoEnBalance, EjecutandoEnBalance, En, Uno
<1>4. cola["EXEC"] = <<>>
  BY <1>1, <1>3, VaciaDe DEF Estados, TypeOK
<1>5. ASSUME NEW p \in Procesos PROVE EstadoDe(p) # "EXEC"
  <2>1. PICK x \in Sitios : EnSitio(p, x)
    BY DeLugares DEF UnLugar
  <2>2. ~EnSitio(p, "EXEC") /\ ~EnSitio(p, "cpu")
    <3>1. ~EnCola(p, "EXEC")
      BY <1>4 DEF EnCola, Contains
    <3>2. ~Agarra("cpu", p)
      BY <1>3 DEF Agarra
    <3>. QED
      BY <3>1, <3>2, SitioDe DEF Estados, Hilos
  <2>3. EstadoDe(p) = EstadoEn(x, proc[p].suspendido, p \in finalizados)
    BY <2>1, EstadoDeSitio DEF EstadosPorSitio
  <2>4. x \in {"NEW", "READY", "BLOCKED", "EXIT", "SUSPENDED_READY",
               "largo", "corto", "io", "afuera"}
    BY <2>1, <2>2 DEF Sitios, Estados, Hilos
  <2>. QED
    BY <2>3, <2>4 DEF EstadoEn
<1>. QED
  BY <1>5 DEF Ciclo!Los

\* A process outside the sites of suspension is not suspended.
LEMMA NoSuspendido ==
  ASSUME Cargados, NEW p \in Procesos, NEW x \in Sitios \ PuedeSuspendido, EnSitio(p, x)
  PROVE  proc[p].suspendido = FALSE
<1>1. UnLugar /\ Suspendidos /\ PuedeSuspendido \subseteq Sitios
  BY DeLugares, SitiosTipo DEF Cargados, PuedeSuspendido
<1>2. proc[p].suspendido \in BOOLEAN
  BY DeLugares DEF Cargados, TypeOK, TProceso
<1>. QED
  BY <1>1, <1>2, UnicoSitio DEF Suspendidos

LEMMA FinalizadosQuietos ==
  ASSUME [Next]_vars, ~CpuSacarExit
  PROVE  finalizados' = finalizados
<1>1. Largo => finalizados' = finalizados
  BY DEF Largo, LargoEsperarGrado, LargoEsperarEntrada, LargoSacarSuspendido, LargoSinSuspendidos,
         LargoSacarNuevo, LargoEnviarIniciar, LargoRecibirTabla, LargoPushReady, LargoPostReady,
         usuarioVars
<1>2. Corto => finalizados' = finalizados
  BY DEF Corto, CortoEsperarReady, CortoDesalojar, CortoNoDesalojar, CortoEsperarPlanificacion,
         CortoPopReady, CortoPushExec, CortoPostEjecutando, usuarioVars
<1>3. Cpu => finalizados' = finalizados
  BY DEF Cpu, CpuEsperarEjecutando, CpuEnviarProceso, CpuRecibirPcb, CpuSacarExec, CpuAReady,
         CpuPostReady, CpuABlocked, CpuPostBlocked, CpuAExit, CpuEnviarFinalizar,
         CpuRecibirFinalizar, CpuPostMultiprogramacion, CpuPostPlanificacion, usuarioVars
<1>4. Io => finalizados' = finalizados
  BY DEF Io, IoEsperarBlocked, IoContarBloqueo, IoRecibirSuspender, IoPostMultiprogramacion,
         IoPostBlocked, IoDormir, IoPopBlocked, IoTomarBlocked, IoPushSuspendido, IoPostEntrando,
         IoPushReady, IoPostReady, usuarioVars
<1>5. (\E p \in Procesos : Consola(p)) \/ DevolverProceso \/ Memoria \/ UNCHANGED vars
        => finalizados' = finalizados
  BY DEF Consola, IniciarProceso, AvisarEntrada, DevolverProceso, Memoria, MemoriaIniciar,
         MemoriaCambiar, Responder, usuarioVars, vars
<1>. QED
  BY <1>1, <1>2, <1>3, <1>4, <1>5 DEF Next, Reposo

LEMMA CicloPaso ==
  ASSUME Cupos, Cupos', [Next]_vars
  PROVE  [Ciclo!Next]_Mapa
<1>0. /\ Lugares /\ Lugares' /\ Cargados /\ Suspendidos
      /\ proc \in [Procesos -> TProceso] /\ \A q \in Procesos : proc[q].suspendido \in BOOLEAN
  BY DeLugares DEF Cupos, Cargados, TypeOK, TProceso
<1>. DEFINE Iguales == \A q \in Procesos : proc'[q].suspendido = proc[q].suspendido
<1>1. CASE LargoPushReady
  <2>1. PICK p \in Procesos : p = mano["largo"] /\ Mudanza(p, "largo", "READY")
    BY <1>0, <1>1, MuevePushReady
  <2>2. /\ \A q \in Procesos \ {p} : proc'[q].suspendido = proc[q].suspendido
        /\ finalizados' = finalizados /\ pc["largo"] = "push_ready"
    BY <1>0, <1>1, <2>1 DEF LargoPushReady, TProceso, usuarioVars, Ir
  <2>3. Ciclo!Pasar(p, "NEW", "READY") \/ Ciclo!Pasar(p, "SUSPENDED_READY", "READY")
    <3>1. /\ EstadoEn("largo", proc[p].suspendido, p \in finalizados) \in {"NEW", "SUSPENDED_READY"}
          /\ EstadoEn("READY", proc'[p].suspendido, p \in finalizados') = "READY"
      BY <1>0 DEF EstadoEn
    <3>. QED
      BY <1>0, <2>1, <2>2, <3>1, MudanzaConPaso, SitiosTipo
  <2>4. Cardinality(Ciclo!EnMemoria) < GRADO
    BY <2>2, HayLugar
  <2>5. Ciclo!Admitir(p)
    BY <2>3, <2>4, MismoCardinal DEF Ciclo!Admitir
  <2>. QED
    BY <2>5 DEF Ciclo!Next
<1>2. CASE IoRecibirSuspender
  <2>0. pc["io"] = "recibir_suspender" /\ finalizados' = finalizados
    BY <1>2 DEF IoRecibirSuspender, Ir, usuarioVars
  <2>1. PICK p \in Procesos : p = mano["io"] /\ EnCola(p, "BLOCKED") /\ ~proc[p].suspendido
    BY <1>0, <2>0, DeLugares DEF ManosSegunPunto, ManosEnColas, Hilos
  <2>2. /\ proc'[p].suspendido = TRUE
        /\ \A q \in Procesos \ {p} : proc'[q].suspendido = proc[q].suspendido
    BY <1>0, <1>2, <2>1 DEF IoRecibirSuspender, TProceso
  <2>3. Quieto
    BY <1>0, <1>2, PasosQuietos
  <2>4. Mudanza(p, "BLOCKED", "BLOCKED")
    <3>1. \A x \in Sitios : EnSitio(p, x) <=> x = "BLOCKED"
      BY <1>0, <2>1, SitioDe, DeLugares, UnicoSitio DEF Estados
    <3>. QED
      BY <2>3, <3>1, SitiosTipo DEF Quieto, Mudanza
  <2>5. Ciclo!Pasar(p, "BLOCKED", "SUSPENDED_BLOCKED")
    <3>1. /\ EstadoEn("BLOCKED", proc[p].suspendido, p \in finalizados) = "BLOCKED"
          /\ EstadoEn("BLOCKED", proc'[p].suspendido, p \in finalizados') = "SUSPENDED_BLOCKED"
      BY <2>1, <2>2 DEF EstadoEn
    <3>. QED
      BY <1>0, <2>0, <2>2, <2>4, <3>1, MudanzaConPaso, SitiosTipo
  <2>. QED
    BY <2>5 DEF Ciclo!Next, Ciclo!Suspender
<1>3. ASSUME ~LargoPushReady, ~IoRecibirSuspender
      PROVE  Iguales
  BY <1>0, <1>3, SuspendidosQuietos
<1>4. CASE CpuSacarExit
  <2>1. PICK p \in Procesos : p = mano["cpu"] /\ Mudanza(p, "EXIT", "afuera")
    BY <1>0, <1>4, MueveSacarExit
  <2>2. proc' = proc /\ finalizados' = finalizados \cup {p}
    BY <1>4, <2>1 DEF CpuSacarExit
  <2>3. /\ EstadoEn("EXIT", proc[p].suspendido, p \in finalizados) = "EXIT"
        /\ EstadoEn("afuera", proc'[p].suspendido, p \in finalizados') = "FIN"
    BY <2>2 DEF EstadoEn
  <2>4. Ciclo!Pasar(p, "EXIT", "FIN")
    BY <1>0, <2>1, <2>2, <2>3, MudanzaConPaso, SitiosTipo
  <2>. QED
    BY <2>4 DEF Ciclo!Next, Ciclo!Terminar
<1>5. ASSUME Iguales, finalizados' = finalizados, NEW p \in Procesos, NEW x \in Sitios,
             NEW y \in Sitios, Mudanza(p, x, y), NEW s \in BOOLEAN, proc[p].suspendido = s,
             \A f : EstadoEn(x, s, f) = EstadoEn(y, s, f)
      PROVE  UNCHANGED Mapa
  BY <1>0, <1>5, MudanzaSinPaso
<1>6. ASSUME Iguales, finalizados' = finalizados, NEW p \in Procesos, NEW x \in Sitios,
             NEW y \in Sitios, Mudanza(p, x, y), NEW s \in BOOLEAN, proc[p].suspendido = s,
             NEW a, NEW b,
             EstadoEn(x, s, p \in finalizados) = a, EstadoEn(y, s, p \in finalizados) = b
      PROVE  Ciclo!Pasar(p, a, b)
  <2>1. /\ EstadoEn(x, proc[p].suspendido, p \in finalizados) = a
        /\ EstadoEn(y, proc'[p].suspendido, p \in finalizados') = b
    BY <1>6
  <2>. QED
    BY <1>0, <1>6, <2>1, MudanzaConPaso
<1>. HIDE DEF Iguales
<1>7. ASSUME ~LargoPushReady, ~IoRecibirSuspender, ~CpuSacarExit
      PROVE  [Ciclo!Next]_Mapa
  <2>0. Iguales /\ finalizados' = finalizados
    BY <1>3, <1>7, FinalizadosQuietos
  <2>1. CASE ~Mueven
    BY <1>0, <2>0, <2>1, NoMueven, EstadosQuietos DEF Iguales
  <2>2. ASSUME NEW p \in Procesos, IniciarProceso(p) PROVE [Ciclo!Next]_Mapa
    <3>1. Mudanza(p, "afuera", "NEW")
      BY <1>0, <2>2, MueveIniciar
    <3>2. p \notin finalizados
      BY <1>0, <2>2, DeLugares DEF IniciarProceso, Terminados
    <3>3. /\ EstadoEn("afuera", proc[p].suspendido, p \in finalizados) = "FUERA"
          /\ EstadoEn("NEW", proc[p].suspendido, p \in finalizados) = "NEW"
      BY <3>2 DEF EstadoEn
    <3>4. Ciclo!Pasar(p, "FUERA", "NEW")
      BY <1>0, <1>6, <2>0, <3>1, <3>3, SitiosTipo
    <3>. QED
      BY <3>4 DEF Ciclo!Next, Ciclo!Llegar
  <2>3. CASE LargoSacarSuspendido
    <3>1. PICK p \in Procesos : Mudanza(p, "SUSPENDED_READY", "largo")
      BY <1>0, <2>3, MueveSacarSuspendido
    <3>2. proc[p].suspendido = TRUE
      BY <1>0, <3>1 DEF Suspendidos, Mudanza
    <3>3. \A f : EstadoEn("SUSPENDED_READY", TRUE, f) = EstadoEn("largo", TRUE, f)
      BY DEF EstadoEn
    <3>. QED
      BY <1>5, <2>0, <3>1, <3>2, <3>3, SitiosTipo
  <2>4. CASE LargoSacarNuevo
    <3>1. PICK p \in Procesos : Mudanza(p, "NEW", "largo")
      BY <1>0, <2>4, MueveSacarNuevo
    <3>2. proc[p].suspendido = FALSE
      BY <1>0, <3>1, NoSuspendido, SitiosTipo DEF Mudanza, PuedeSuspendido
    <3>3. \A f : EstadoEn("NEW", FALSE, f) = EstadoEn("largo", FALSE, f)
      BY DEF EstadoEn
    <3>. QED
      BY <1>5, <2>0, <3>1, <3>2, <3>3, SitiosTipo
  <2>5. CASE CortoPopReady
    <3>1. PICK p \in Procesos : Mudanza(p, "READY", "corto")
      BY <1>0, <2>5, MuevePopReady
    <3>3. \A s, f : EstadoEn("READY", s, f) = EstadoEn("corto", s, f)
      BY DEF EstadoEn
    <3>. QED
      BY <1>0, <1>5, <2>0, <3>1, <3>3, SitiosTipo
  <2>6. CASE CortoPushExec
    <3>1. PICK p \in Procesos : Mudanza(p, "corto", "EXEC")
      BY <1>0, <2>6, MuevePushExec
    <3>2. pc["corto"] = "push_exec"
      BY <2>6 DEF CortoPushExec, Ir
    <3>3. /\ EstadoEn("corto", proc[p].suspendido, p \in finalizados) = "READY"
          /\ EstadoEn("EXEC", proc[p].suspendido, p \in finalizados) = "EXEC"
      BY DEF EstadoEn
    <3>4. Ciclo!Pasar(p, "READY", "EXEC")
      BY <1>0, <1>6, <2>0, <3>1, <3>3, SitiosTipo
    <3>. QED
      BY <1>0, <3>2, <3>4, CpuLibre DEF Ciclo!Next, Ciclo!Despachar
  <2>7. CASE CpuSacarExec
    <3>1. PICK p \in Procesos : Mudanza(p, "EXEC", "cpu")
      BY <1>0, <2>7, MueveSacarExec
    <3>3. \A s, f : EstadoEn("EXEC", s, f) = EstadoEn("cpu", s, f)
      BY DEF EstadoEn
    <3>. QED
      BY <1>0, <1>5, <2>0, <3>1, <3>3, SitiosTipo
  <2>8. CASE CpuAReady
    <3>1. PICK p \in Procesos : Mudanza(p, "cpu", "READY")
      BY <1>0, <2>8, MueveAReady
    <3>3. /\ EstadoEn("cpu", proc[p].suspendido, p \in finalizados) = "EXEC"
          /\ EstadoEn("READY", proc[p].suspendido, p \in finalizados) = "READY"
      BY DEF EstadoEn
    <3>4. Ciclo!Pasar(p, "EXEC", "READY")
      BY <1>0, <1>6, <2>0, <3>1, <3>3, SitiosTipo
    <3>. QED
      BY <3>4 DEF Ciclo!Next, Ciclo!Desalojar
  <2>9. CASE CpuABlocked
    <3>1. PICK p \in Procesos : Mudanza(p, "cpu", "BLOCKED")
      BY <1>0, <2>9, MueveABlocked
    <3>2. proc[p].suspendido = FALSE
      BY <1>0, <3>1, NoSuspendido, SitiosTipo DEF Mudanza, PuedeSuspendido
    <3>3. /\ EstadoEn("cpu", FALSE, p \in finalizados) = "EXEC"
          /\ EstadoEn("BLOCKED", FALSE, p \in finalizados) = "BLOCKED"
      BY DEF EstadoEn
    <3>4. Ciclo!Pasar(p, "EXEC", "BLOCKED")
      BY <1>6, <2>0, <3>1, <3>2, <3>3, SitiosTipo
    <3>. QED
      BY <3>4 DEF Ciclo!Next, Ciclo!Bloquear
  <2>10. CASE CpuAExit
    <3>1. PICK p \in Procesos : Mudanza(p, "cpu", "EXIT")
      BY <1>0, <2>10, MueveAExit
    <3>3. /\ EstadoEn("cpu", proc[p].suspendido, p \in finalizados) = "EXEC"
          /\ EstadoEn("EXIT", proc[p].suspendido, p \in finalizados) = "EXIT"
      BY DEF EstadoEn
    <3>4. Ciclo!Pasar(p, "EXEC", "EXIT")
      BY <1>0, <1>6, <2>0, <3>1, <3>3, SitiosTipo
    <3>. QED
      BY <3>4 DEF Ciclo!Next, Ciclo!Terminar
  <2>11. CASE IoPopBlocked
    <3>1. PICK p \in Procesos : Mudanza(p, "BLOCKED", "io")
      BY <1>0, <2>11, MuevePopBlocked
    <3>3. \A s, f : EstadoEn("BLOCKED", s, f) = EstadoEn("io", s, f)
      BY DEF EstadoEn
    <3>. QED
      BY <1>0, <1>5, <2>0, <3>1, <3>3, SitiosTipo
  <2>12. CASE IoPushSuspendido
    <3>1. PICK p \in Procesos : p = mano["io"] /\ Mudanza(p, "io", "SUSPENDED_READY")
      BY <1>0, <2>12, MuevePushSuspendido
    <3>2. proc[p].suspendido = TRUE
      BY <1>0, <2>12, <3>1 DEF IoPushSuspendido
    <3>3. /\ EstadoEn("io", TRUE, p \in finalizados) = "SUSPENDED_BLOCKED"
          /\ EstadoEn("SUSPENDED_READY", TRUE, p \in finalizados) = "SUSPENDED_READY"
      BY DEF EstadoEn
    <3>4. Ciclo!Pasar(p, "SUSPENDED_BLOCKED", "SUSPENDED_READY")
      BY <1>6, <2>0, <3>1, <3>2, <3>3, SitiosTipo
    <3>. QED
      BY <3>4 DEF Ciclo!Next, Ciclo!Despertar
  <2>13. CASE IoPushReady
    <3>1. PICK p \in Procesos : p = mano["io"] /\ Mudanza(p, "io", "READY")
      BY <1>0, <2>13, MueveDesbloquearReady
    <3>2. proc[p].suspendido = FALSE
      BY <1>0, <2>13, <3>1 DEF IoPushReady
    <3>3. /\ EstadoEn("io", FALSE, p \in finalizados) = "BLOCKED"
          /\ EstadoEn("READY", FALSE, p \in finalizados) = "READY"
      BY DEF EstadoEn
    <3>4. Ciclo!Pasar(p, "BLOCKED", "READY")
      BY <1>6, <2>0, <3>1, <3>2, <3>3, SitiosTipo
    <3>. QED
      BY <3>4 DEF Ciclo!Next, Ciclo!Despertar
  <2>. QED
    BY <1>7, <2>1, <2>2, <2>3, <2>4, <2>5, <2>6, <2>7, <2>8, <2>9, <2>10, <2>11, <2>12, <2>13
       DEF Mueven
<1>. QED
  BY <1>1, <1>2, <1>4, <1>7

\* The threads implement the life cycle, for any number of processes, degree
\* and algorithm: every step of the threads is an arrow of the diagram or
\* leaves every process in its state, a process is admitted only with a place
\* in memory and dispatched only with the CPU free.
THEOREM PlanificacionImplementaCiclo == Spec => ImplementaCiclo
<1>1. Init => Ciclo!Init
  BY CicloInicio
<1>2. Cupos /\ Cupos' /\ [Next]_vars => [Ciclo!Next]_Mapa
  BY CicloPaso
<1>3. Cupos /\ Cupos' /\ [Next]_vars => [Ciclo!Next]_[p \in Procesos |-> EstadoDe(p)]
  BY <1>2 DEF Mapa
<1>. QED
  BY <1>1, <1>3, CuposInductivos, PTL DEF Spec, ImplementaCiclo, Ciclo!Spec

===============================================================================
