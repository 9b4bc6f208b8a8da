--------------------------- MODULE DiscordiadorProofs ---------------------------
(***************************************************************************)
(* Proofs about Discordiador.  The types come first; then, each from the   *)
(* ones before it, who holds the mutex of the pause and that of a member,  *)
(* who has been started, where each member is queued, whose turn it is to  *)
(* move it, and the properties that follow: the pause, the CPUs, the       *)
(* device, the queues, NEW and the count of READY.                         *)
(***************************************************************************)
EXTENDS Discordiador, Lemas

-------------------------------------------------------------------------------
\* Los returns those of a list that are in a set: each of them, nobody else,
\* and no one twice if nobody was.
LEMMA LosDe ==
  ASSUME NEW S, NEW s \in Seq(S), NEW T
  PROVE  /\ Los(s, T) \in Seq(S)
         /\ \A x : Contains(Los(s, T), x) <=> Contains(s, x) /\ x \in T
         /\ IsInjective(s) => IsInjective(Los(s, T))
<1>. DEFINE n == Len(s)
            Sigue(q, i) == IF i = 0 THEN <<>>
                           ELSE IF s[i] \in T THEN Append(q[i - 1], s[i]) ELSE q[i - 1]
            Hay(k) == \E q : DOMAIN q = 0..k /\ \A i \in 0..k : q[i] = Sigue(q, i)
            f == CHOOSE q : q = [i \in 0..n |-> Sigue(q, i)]
<1>1. n \in Nat /\ DOMAIN s = 1..n /\ \A i \in 1..n : s[i] \in S
  BY LenProperties, ElementOfSeq
<1>2. Los(s, T) = f[n]
  BY DEF Los
<1>. HIDE DEF n
<1>3. Hay(n)
  <2>. DEFINE I == {k \in Nat : ~Hay(k)}
  <2>. SUFFICES ASSUME ~Hay(n) PROVE FALSE
    OBVIOUS
  <2>1. PICK m \in I : \A j \in I : m <= j
    <3>1. I \in SUBSET Nat /\ n \in I
      BY <1>1
    <3>. HIDE DEF I
    <3>. QED
      BY <3>1, MinimoDe
  <2>2. m \in Nat /\ ~Hay(m)
    BY <2>1
  <2>3. Hay(0)
    <3>. DEFINE q == [i \in 0..0 |-> <<>>]
    <3>1. DOMAIN q = 0..0 /\ \A i \in 0..0 : q[i] = Sigue(q, i)
      OBVIOUS
    <3>. QED
      BY <3>1
  <2>4. m # 0 /\ m - 1 \in Nat /\ Hay(m - 1)
    <3>. HIDE DEF Hay
    <3>. QED
      BY <2>1, <2>2, <2>3
  <2>5. PICK q : DOMAIN q = 0..(m - 1) /\ \A i \in 0..(m - 1) : q[i] = Sigue(q, i)
    BY <2>4
  <2>. DEFINE r == [i \in 0..m |-> IF i < m THEN q[i] ELSE Sigue(q, m)]
  <2>6. DOMAIN r = 0..m /\ r[m] = Sigue(q, m) /\ \A i \in 0..(m - 1) : r[i] = q[i]
    BY <2>2, <2>4
  <2>7. ASSUME NEW i \in 0..m PROVE r[i] = Sigue(r, i)
    <3>1. i = 0 \/ (i - 1 \in 0..(m - 1) /\ r[i - 1] = q[i - 1])
      BY <2>2, <2>6
    <3>2. (i < m /\ i \in 0..(m - 1)) \/ i = m
      BY <2>2
    <3>3. r[i] = Sigue(q, i)
      BY <2>4, <2>5, <2>6, <3>2
    <3>. HIDE DEF r
    <3>. QED
      BY <3>1, <3>3
  <2>. HIDE DEF r
  <2>. QED
    BY <2>2, <2>6, <2>7
<1>4. f = [i \in 0..n |-> Sigue(f, i)]
  <2>1. PICK q : DOMAIN q = 0..n /\ \A i \in 0..n : q[i] = Sigue(q, i)
    BY <1>3
  <2>. DEFINE r == [i \in 0..n |-> q[i]]
  <2>2. r = [i \in 0..n |-> Sigue(r, i)]
    <3>1. ASSUME NEW i \in 0..n PROVE r[i] = Sigue(r, i)
      <4>1. i = 0 \/ i - 1 \in 0..n
        BY <1>1
      <4>. QED
        BY <2>1, <4>1
    <3>2. r = [i \in 0..n |-> r[i]]
      OBVIOUS
    <3>. HIDE DEF r
    <3>. QED
      BY <3>1, <3>2
  <2>. HIDE DEF r
  <2>. QED
    BY <2>2
<1>. HIDE DEF f
<1>. DEFINE Bien(i) == /\ f[i] \in Seq(S)
                       /\ \A x : Contains(f[i], x) <=> \E j \in 1..i : s[j] = x /\ x \in T
                       /\ IsInjective(s) => IsInjective(f[i])
<1>5. \A i \in 0..n : f[i] = Sigue(f, i)
  BY <1>4
<1>. HIDE DEF Hay
<1>6. Bien(0)
  <2>1. f[0] = <<>>
    BY <1>1, <1>5
  <2>2. <<>> \in Seq(S) /\ IsInjective(<<>>) /\ \A x : ~Contains(<<>>, x)
    BY EmptySeq DEF IsInjective, Contains
  <2>. QED
    BY <2>1, <2>2
<1>7. ASSUME NEW i \in 1..n, Bien(i - 1) PROVE Bien(i)
  <2>. DEFINE q == f[i - 1]
  <2>1. q \in Seq(S) /\ i \in DOMAIN s /\ s[i] \in S /\ f[i] = Sigue(f, i) /\ i # 0
    BY <1>1, <1>5, <1>7
  <2>2. \A x : (\E j \in 1..i : s[j] = x /\ x \in T) <=> (\E j \in 1..(i - 1) : s[j] = x /\ x \in T) \/ (s[i] = x /\ x \in T)
    <3>1. 1..i = 1..(i - 1) \cup {i}
      BY <1>1
    <3>. QED
      BY <3>1
  <2>3. CASE s[i] \in T
    <3>1. f[i] = Append(q, s[i])
      BY <2>1, <2>3
    <3>2. \A x : Contains(f[i], x) <=> Contains(q, x) \/ x = s[i]
      BY <2>1, <3>1, AgregarDe
    <3>3. IsInjective(s) => IsInjective(f[i])
      <4>. SUFFICES ASSUME IsInjective(s) PROVE IsInjective(f[i])
        OBVIOUS
      <4>1. \A j \in 1..(i - 1) : j \in 1..n /\ j # i
        BY <1>1
      <4>2. ~Contains(q, s[i])
        BY <1>1, <1>7, <4>1 DEF IsInjective
      <4>. QED
        BY <1>7, <2>1, <3>1, <4>2, AgregarDe
    <3>4. f[i] \in Seq(S)
      BY <2>1, <3>1, AppendProperties
    <3>. QED
      BY <1>7, <2>2, <2>3, <3>2, <3>3, <3>4
  <2>4. CASE s[i] \notin T
    <3>1. f[i] = q
      BY <2>1, <2>4
    <3>. QED
      BY <1>7, <2>2, <2>4, <3>1
  <2>. QED
    BY <2>3, <2>4
<1>8. Bien(n)
  <2>. DEFINE I == {k \in 0..n : ~Bien(k)}
  <2>. SUFFICES ASSUME ~Bien(n) PROVE FALSE
    OBVIOUS
  <2>. HIDE DEF Bien
  <2>1. PICK m \in I : \A j \in I : m <= j
    <3>1. I \in SUBSET Nat /\ n \in I
      BY <1>1
    <3>. HIDE DEF I
    <3>. QED
      BY <3>1, MinimoDe
  <2>2. m \in 0..n /\ ~Bien(m)
    BY <2>1
  <2>3. m # 0
    BY <1>6, <2>2
  <2>4. m \in 1..n /\ m - 1 \in 0..n
    BY <1>1, <2>2, <2>3
  <2>5. Bien(m - 1)
    BY <2>1, <2>4
  <2>. QED
    BY <1>7, <2>2, <2>4, <2>5
<1>9. \A x : Contains(s, x) <=> \E j \in 1..n : s[j] = x
  BY <1>1 DEF Contains, n
<1>. QED
  BY <1>2, <1>8, <1>9

-------------------------------------------------------------------------------
\* The types.  Besides them: the console has members in its list while it
\* starts or expels them, the sabotage has chosen somebody while it moves it,
\* and a member works on a task there is.
Semaforos == {"sem_planificacion", "cpus_libres", "dispositivos_io", "contador_ready"}
TTripulante ==
  [estado : Estados \cup {NULL}, mutex : Hilos \cup {NULL},
   semaforo : Nat, pausado : Nat, sem_destruir : Nat, termino : BOOLEAN,
   x : Int, tiempo_en_cpu : Nat, tarea : Nat \ {0},
   tiempo_haciendo_tarea : Nat, haciendo_io : BOOLEAN]
TSabotaje ==
  [x : Int, elegido : Tripulantes \cup {NULL}, estaba_pausado : BOOLEAN,
   estaba_en_ready : BOOLEAN, cola_exec : Seq(Tripulantes), cola_ready : Seq(Tripulantes)]
TUsos == [escenario : Escenarios, pausas : Nat, expulsiones : Nat, sabotajes : Nat]

DeColas == colas \in [Estados -> Seq(Tripulantes)] /\ colas_tomadas \in BOOLEAN
DeSem == sem \in [Semaforos -> Nat]
DeTrip == trip \in [Tripulantes -> TTripulante]
DePausa == /\ mutex_pausa \in Ordenes \cup {NULL}
           /\ pausa \in BOOLEAN /\ planificando \in BOOLEAN /\ emergencia \in BOOLEAN
DePc == DOMAIN pc = Hilos
DeCambio == cambio \in [Hilos -> TCambio \cup {NULL}]
DeLista == lista \in [Hilos -> Seq(Tripulantes)]
DeSabo == sabo \in TSabotaje
DeUsos == usos \in TUsos
ConLista == {"iniciar_tripulante", "encolar", "encolado", "expulsar", "expulsado"}
ConTarea == {"semaforo", "mutex", "decidir"}
Puestos ==
  /\ pc["consola"] \in ConLista => lista["consola"] # <<>>
  /\ pc["sabotaje"] \in {"mover", "guardar"} => sabo.elegido # NULL
  /\ pc["sabotaje"] = "bloquear_suave" => lista["sabotaje"] # <<>>
  /\ \A t \in Tripulantes :
       /\ trip[t].tarea <= Len(TAREAS) + 1
       /\ pc[t] \in ConTarea => trip[t].tarea <= Len(TAREAS)

Tipos ==
  /\ DeColas /\ DeSem /\ DeTrip /\ DePausa /\ DePc
  /\ DeCambio /\ DeLista /\ DeSabo /\ DeUsos /\ Puestos

\* What the steps do to each variable keeps its type.
LEMMA PostearTipo ==
  ASSUME DeSem, NEW s \in Semaforos, Postear(s)
  PROVE  DeSem'
BY DEF DeSem, Postear

LEMMA EsperarTipo ==
  ASSUME DeSem, NEW s \in Semaforos, Esperar(s)
  PROVE  DeSem'
BY DEF DeSem, Esperar

LEMMA CambiarTipo ==
  ASSUME DeCambio, NEW h \in Hilos, NEW t \in Tripulantes, NEW e \in Estados, Cambiar(h, t, e)
  PROVE  DeCambio'
<1>1. [t |-> t, viejo |-> NULL, nuevo |-> e, paso |-> "tomar"] \in TCambio
  BY DEF TCambio
<1>. QED
  BY <1>1 DEF DeCambio, Cambiar

LEMMA CambiarSuaveTipo ==
  ASSUME DeCambio, NEW h \in Hilos, NEW t \in Tripulantes, NEW e \in Estados,
         NEW v \in Estados \cup {NULL}, CambiarSuave(h, t, v, e)
  PROVE  DeCambio'
<1>1. [t |-> t, viejo |-> v, nuevo |-> e, paso |-> "suave_sacar"] \in TCambio
  BY DEF TCambio
<1>. QED
  BY <1>1 DEF DeCambio, CambiarSuave

\* The call a thread is in.
LEMMA ElCambio ==
  ASSUME DeCambio, NEW h \in Hilos, cambio[h] # NULL
  PROVE  /\ cambio[h] \in TCambio
         /\ cambio[h].t \in Tripulantes /\ cambio[h].nuevo \in Estados
         /\ cambio[h].viejo \in Estados \cup {NULL}
BY DEF DeCambio, TCambio

LEMMA TodosTipo ==
  ASSUME DeColas
  PROVE  Todos \in Seq(Tripulantes)
BY ConcatProperties DEF DeColas, Todos, Estados

LEMMA VecesTipo ==
  ASSUME DeColas, NEW t
  PROVE  Veces(t) \in Nat
<1>1. DOMAIN Todos = 1..Len(Todos) /\ Len(Todos) \in Nat
  BY TodosTipo, LenProperties
<1>2. IsFiniteSet(DOMAIN Todos)
  BY <1>1, FS_Interval
<1>3. IsFiniteSet({i \in DOMAIN Todos : Todos[i] = t})
  BY <1>2, FS_Subset
<1>. QED
  BY <1>3, FS_CardinalityType DEF Veces

\* The nearest of a list is one of the list.
LEMMA CuadradoNatural ==
  ASSUME NEW d \in Int
  PROVE  d * d \in Nat
<1>1. CASE d >= 0
  BY <1>1
<1>2. CASE d < 0
  <2>1. d * d = (0 - d) * (0 - d)
    OBVIOUS
  <2>. QED
    BY <1>2, <2>1
<1>. QED
  BY <1>1, <1>2

LEMMA MasCercanoTipo ==
  ASSUME DeTrip, DeSabo, NEW ts \in Seq(Tripulantes)
  PROVE  /\ ts = <<>> => MasCercano(ts) = NULL
         /\ ts # <<>> => MasCercano(ts) \in Tripulantes /\ Contains(ts, MasCercano(ts))
<1>1. ts = <<>> => MasCercano(ts) = NULL
  BY DEF MasCercano
<1>2. ASSUME ts # <<>> PROVE MasCercano(ts) \in Tripulantes /\ Contains(ts, MasCercano(ts))
  <2>. DEFINE menores == {i \in DOMAIN ts : \A j \in DOMAIN ts : DistanciaA(ts[i]) <= DistanciaA(ts[j])}
              D == {DistanciaA(ts[i]) : i \in DOMAIN ts}
              k == CHOOSE i \in menores : \A j \in menores : i <= j
  <2>1. DOMAIN ts = 1..Len(ts) /\ Len(ts) \in Nat /\ 1 \in DOMAIN ts /\ \A i \in DOMAIN ts : ts[i] \in Tripulantes
    BY <1>2, LenProperties, EmptySeq, ElementOfSeq
  <2>2. \A i \in DOMAIN ts : DistanciaA(ts[i]) \in Nat
    <3>. TAKE i \in DOMAIN ts
    <3>1. sabo.x - trip[ts[i]].x \in Int
      BY <2>1 DEF DeTrip, DeSabo, TTripulante, TSabotaje
    <3>. HIDE DEF DeTrip
    <3>. QED
      BY <3>1, CuadradoNatural DEF DistanciaA
  <2>3. D \in SUBSET Nat /\ D # {}
    BY <2>1, <2>2
  <2>4. PICK d \in D : \A e \in D : d <= e
    <3>. HIDE DEF D
    <3>. QED
      BY <2>3, MinimoDe
  <2>5. menores # {} /\ menores \in SUBSET Nat
    BY <2>1, <2>4
  <2>6. \E i \in menores : \A j \in menores : i <= j
    <3>. HIDE DEF menores
    <3>. QED
      BY <2>5, MinimoDe
  <2>7. k \in menores
    BY <2>6
  <2>8. MasCercano(ts) = ts[k] /\ k \in DOMAIN ts
    BY <1>2, <2>7 DEF MasCercano
  <2>. HIDE DEF k
  <2>. QED
    BY <2>1, <2>8 DEF Contains
<1>. QED
  BY <1>1, <1>2

\* What a step leaves alone keeps its type.
LEMMA Quietos ==
  ASSUME Tipos
  PROVE  /\ UNCHANGED colasVars => DeColas'
         /\ UNCHANGED sem => DeSem'
         /\ UNCHANGED trip => DeTrip'
         /\ UNCHANGED <<mutex_pausa, banderas>> => DePausa'
         /\ UNCHANGED pc => DePc'
         /\ UNCHANGED cambio => DeCambio'
         /\ UNCHANGED lista => DeLista'
         /\ UNCHANGED sabo => DeSabo'
         /\ UNCHANGED usos => DeUsos'
         /\ UNCHANGED ordenVars => UNCHANGED <<lista, sabo, usos>>
         /\ UNCHANGED banderas => UNCHANGED <<pausa, planificando, emergencia>>
         /\ UNCHANGED colasVars => UNCHANGED <<colas, colas_tomadas>>
BY DEF Tipos, DeColas, DeSem, DeTrip, DePausa, DePc, DeCambio, DeLista, DeSabo, DeUsos,
       colasVars, banderas, ordenVars

\* A thread that goes from a point to another keeps Puestos if it does not get
\* where it asks for more than it did.
LEMMA PuestosIr ==
  ASSUME Tipos, NEW h \in Hilos, NEW a, NEW b, Ir(h, a, b), UNCHANGED <<lista, sabo, usos>>,
         \A t \in Tripulantes : trip'[t].tarea = trip[t].tarea,
         h = "consola" /\ b \in ConLista => a \in ConLista,
         h = "sabotaje" /\ b \in {"mover", "guardar"} => a \in {"mover", "guardar"},
         h = "sabotaje" => b # "bloquear_suave",
         h \in Tripulantes /\ b \in ConTarea => a \in ConTarea
  PROVE  Puestos' /\ DePc'
BY DEF Tipos, DePc, Puestos, Ir, En, TAREAS

LEMMA PuestosQuietos ==
  ASSUME Tipos, UNCHANGED <<pc, lista, sabo, usos>>,
         \A t \in Tripulantes : trip'[t].tarea = trip[t].tarea
  PROVE  Puestos' /\ DePc'
BY DEF Tipos, DePc, Puestos, TAREAS

\* A step in cambiar_estado.
LEMMA TiposCambiar ==
  ASSUME Tipos, NEW h \in Hilos, CambiarEstado(h)
  PROVE  Tipos'
<1>1. CASE CambiarNada(h)
  <2>1. DeCambio'
    BY <1>1 DEF CambiarNada, Tipos, DeCambio
  <2>. QED
    BY <1>1, <2>1, Quietos, PuestosQuietos DEF CambiarNada, Tipos
<1>2. CASE CambiarTomar(h)
  <2>. DEFINE t == cambio[h].t
  <2>1. cambio[h] \in TCambio /\ t \in Tripulantes /\ trip[t].estado \in Estados \cup {NULL}
    BY <1>2, ElCambio DEF CambiarTomar, EnCambio, Tipos, DeTrip, TTripulante
  <2>2. DeCambio'
    <3>1. cambio' = [cambio EXCEPT ![h] = [cambio[h] EXCEPT !.viejo = trip[t].estado, !.paso = "sacar"]]
      BY <1>2, <2>1 DEF CambiarTomar, Tipos, DeCambio
    <3>2. [cambio[h] EXCEPT !.viejo = trip[t].estado, !.paso = "sacar"] \in TCambio
      BY <2>1 DEF TCambio
    <3>. QED
      BY <3>1, <3>2 DEF Tipos, DeCambio
  <2>3. DeSem'
    BY <1>2, Quietos, PostearTipo DEF CambiarTomar, Tipos, Semaforos
  <2>4. DeTrip' /\ \A u \in Tripulantes : trip'[u].tarea = trip[u].tarea
    <3>. DEFINE cpu == IF trip[t].estado = "BLOCKED" THEN 0 ELSE trip[t].tiempo_en_cpu
    <3>1. trip' = [trip EXCEPT ![t] = [trip[t] EXCEPT !.mutex = h, !.tiempo_en_cpu = cpu]]
      BY <1>2, <2>1 DEF CambiarTomar, Tipos, DeTrip, TTripulante
    <3>2. cpu \in Nat
      BY <2>1 DEF Tipos, DeTrip, TTripulante
    <3>. HIDE DEF cpu
    <3>3. DeTrip /\ trip[t] \in TTripulante
      BY <2>1 DEF Tipos, DeTrip
    <3>4. /\ [trip[t] EXCEPT !.mutex = h, !.tiempo_en_cpu = cpu] \in TTripulante
          /\ [trip[t] EXCEPT !.mutex = h, !.tiempo_en_cpu = cpu].tarea = trip[t].tarea
      BY <3>2, <3>3 DEF TTripulante
    <3>. QED
      BY <2>1, <3>1, <3>3, <3>4 DEF DeTrip
  <2>. QED
    BY <1>2, <2>2, <2>3, <2>4, Quietos, PuestosQuietos DEF CambiarTomar, Tipos
<1>3. CASE CambiarSacar(h)
  <2>. DEFINE c == cambio[h]
  <2>1. c \in TCambio /\ c.t \in Tripulantes /\ c.nuevo \in Estados
    BY <1>3, ElCambio DEF CambiarSacar, EnCambio, Tipos
  <2>2. DeCambio'
    BY <1>3, <2>1 DEF CambiarSacar, Tipos, DeCambio, TCambio
  <2>3. DeColas'
    BY <1>3, SacarTipo DEF CambiarSacar, Tipos, DeColas
  <2>4. DeTrip' /\ \A u \in Tripulantes : trip'[u].tarea = trip[u].tarea
    BY <1>3, <2>1 DEF CambiarSacar, Tipos, DeTrip, TTripulante
  <2>. QED
    BY <1>3, <2>2, <2>3, <2>4, Quietos, PuestosQuietos DEF CambiarSacar, Tipos
<1>4. CASE CambiarAgregar(h)
  <2>. DEFINE c == cambio[h]
  <2>1. c \in TCambio /\ c.t \in Tripulantes /\ c.nuevo \in Estados
    BY <1>4, ElCambio DEF CambiarAgregar, EnCambio, Tipos
  <2>2. DeCambio'
    BY <1>4 DEF CambiarAgregar, Tipos, DeCambio
  <2>3. DeColas'
    BY <1>4, <2>1, AppendProperties DEF CambiarAgregar, Tipos, DeColas
  <2>4. DeTrip' /\ \A u \in Tripulantes : trip'[u].tarea = trip[u].tarea
    <3>. DEFINE s == IF c.nuevo \in {"EXEC", "EXIT"} THEN trip[c.t].semaforo + 1 ELSE trip[c.t].semaforo
                b == trip[c.t].termino \/ c.nuevo = "EXIT"
                e == [trip[c.t] EXCEPT !.mutex = NULL, !.termino = b, !.semaforo = s]
    <3>1. trip' = [trip EXCEPT ![c.t] = e]
      BY <1>4 DEF CambiarAgregar
    <3>2. trip[c.t] \in TTripulante
      BY <2>1 DEF Tipos, DeTrip
    <3>3. b \in BOOLEAN /\ s \in Nat
      BY <3>2 DEF TTripulante
    <3>. HIDE DEF b, s
    <3>4. e \in TTripulante /\ e.tarea = trip[c.t].tarea
      BY <3>2, <3>3 DEF TTripulante
    <3>. HIDE DEF e
    <3>. QED
      BY <2>1, <3>1, <3>4 DEF Tipos, DeTrip
  <2>5. DeSem'
    BY <1>4, Quietos, PostearTipo DEF CambiarAgregar, Tipos, Semaforos
  <2>. QED
    BY <1>4, <2>2, <2>3, <2>4, <2>5, Quietos, PuestosQuietos DEF CambiarAgregar, Tipos
<1>5. CASE SuaveSacar(h)
  <2>1. cambio[h] \in TCambio
    BY <1>5, ElCambio DEF SuaveSacar, EnCambio, Tipos
  <2>2. DeCambio'
    BY <1>5, <2>1 DEF SuaveSacar, Tipos, DeCambio, TCambio
  <2>3. DeColas'
    BY <1>5, SacarTipo DEF SuaveSacar, Tipos, DeColas
  <2>. QED
    BY <1>5, <2>2, <2>3, Quietos, PuestosQuietos DEF SuaveSacar, Tipos
<1>6. CASE SuaveAgregar(h)
  <2>1. cambio[h].t \in Tripulantes
    BY <1>6, ElCambio DEF SuaveAgregar, EnCambio, Tipos
  <2>2. DeCambio'
    BY <1>6 DEF SuaveAgregar, Tipos, DeCambio
  <2>3. DeColas'
    BY <1>6, <2>1, AppendProperties DEF SuaveAgregar, Tipos, DeColas
  <2>. QED
    BY <1>6, <2>2, <2>3, Quietos, PuestosQuietos DEF SuaveAgregar, Tipos
<1>. QED
  BY <1>1, <1>2, <1>3, <1>4, <1>5, <1>6 DEF CambiarEstado

\* A step of the planner.
LEMMA TiposPlanificador ==
  ASSUME Tipos, Planificador
  PROVE  Tipos'
<1>. DEFINE p == "planificador"
<1>1. p \in Hilos /\ p \notin Tripulantes
  BY NombresAssumption DEF Hilos
<1>2. CASE PlanEsperarCpu
  BY <1>1, <1>2, Quietos, PuestosIr, EsperarTipo DEF PlanEsperarCpu, EsperarYSeguir, Tipos, Semaforos
<1>3. CASE PlanEsperarReady
  BY <1>1, <1>3, Quietos, PuestosIr, EsperarTipo DEF PlanEsperarReady, EsperarYSeguir, Tipos, Semaforos
<1>4. CASE PlanEsperarPlanificacion
  BY <1>1, <1>4, Quietos, PuestosIr, EsperarTipo DEF PlanEsperarPlanificacion, EsperarYSeguir, Tipos, Semaforos
<1>5. CASE PasarUnoAExec
  <2>1. DeCambio'
    <3>1. CASE colas["READY"] = <<>>
      BY <1>5, <3>1, Quietos DEF PasarUnoAExec
    <3>2. CASE colas["READY"] # <<>>
      <4>1. Head(colas["READY"]) \in Tripulantes /\ "EXEC" \in Estados
        BY <3>2, HeadTailProperties DEF Tipos, DeColas, Estados
      <4>. QED
        BY <1>1, <1>5, <3>2, <4>1, CambiarTipo DEF PasarUnoAExec, Tipos
    <3>. QED
      BY <3>1, <3>2
  <2>. QED
    BY <1>1, <1>5, <2>1, Quietos, PuestosIr DEF PasarUnoAExec, Tipos
<1>6. CASE PlanPost
  BY <1>1, <1>6, Quietos, PuestosIr, PostearTipo DEF PlanPost, Tipos, Semaforos
<1>. QED
  BY <1>2, <1>3, <1>4, <1>5, <1>6 DEF Planificador


\* A step of the thread of a member: of the part of hacer_tareas before it
\* decides what to do.
LEMMA TiposTripulanteAntes ==
  ASSUME Tipos, NEW t \in Tripulantes,
         PasarPausa(t) \/ EsperarSemaforo(t) \/ Seguir(t) \/ Salir(t)
           \/ SalirDeReady(t) \/ TomarContador(t)
  PROVE  Tipos'
<1>1. t \in Hilos /\ t # "consola" /\ t # "sabotaje" /\ "EXIT" \in Estados
  BY NombresAssumption DEF Hilos, Estados
<1>2. CASE PasarPausa(t)
  <2>1. /\ Ir(t, "pausado", "semaforo")
        /\ UNCHANGED <<colasVars, sem, trip, mutex_pausa, banderas, cambio, ordenVars>>
    BY <1>2 DEF PasarPausa, Avanzar
  <2>2. trip[t].tarea <= Len(TAREAS)
    <3>1. Len(TAREAS) \in Nat
      BY DiscordiadorAssumption, LenProperties DEF Tipos, DeUsos, TUsos, TAREAS
    <3>2. trip[t].tarea \in Nat
      BY DEF Tipos, DeTrip, TTripulante
    <3>. QED
      BY <1>2, <3>1, <3>2 DEF PasarPausa, SinTareas
  <2>3. Puestos' /\ DePc'
    BY <1>1, <2>1, <2>2 DEF Ir, Tipos, DePc, Puestos, TAREAS, ordenVars
  <2>. QED
    BY <2>1, <2>3, Quietos DEF Tipos
<1>3. CASE EsperarSemaforo(t)
  <2>1. DeTrip' /\ \A u \in Tripulantes : trip'[u].tarea = trip[u].tarea
    BY <1>3 DEF EsperarSemaforo, Tipos, DeTrip, TTripulante
  <2>. QED
    BY <1>1, <1>3, <2>1, Quietos, PuestosIr DEF EsperarSemaforo, Tipos, ConTarea
<1>4. CASE Seguir(t)
  BY <1>1, <1>4, Quietos, PuestosIr DEF Seguir, Avanzar, Tipos, ConTarea
<1>5. CASE Salir(t)
  BY <1>1, <1>5, Quietos, PuestosIr, CambiarTipo DEF Salir, Tipos, ConTarea
<1>6. CASE SalirDeReady(t)
  <2>1. DeTrip' /\ \A u \in Tripulantes : trip'[u].tarea = trip[u].tarea
    BY <1>1, <1>6 DEF SalirDeReady, Tipos, DeTrip, TTripulante
  <2>. QED
    BY <1>1, <1>6, <2>1, Quietos, PuestosIr DEF SalirDeReady, Tipos, ConTarea
<1>7. CASE TomarContador(t)
  <2>1. DeTrip' /\ \A u \in Tripulantes : trip'[u].tarea = trip[u].tarea
    BY <1>7 DEF TomarContador, Tipos, DeTrip, TTripulante
  <2>. QED
    BY <1>1, <1>7, <2>1, Quietos, PuestosIr, CambiarTipo, EsperarTipo
       DEF TomarContador, Tipos, ConTarea, Semaforos
<1>. QED
  BY <1>2, <1>3, <1>4, <1>5, <1>6, <1>7

\* The same of what it does of its task.
LEMMA TiposTripulanteTarea ==
  ASSUME Tipos, NEW t \in Tripulantes,
         DejarCpu(t) \/ PedirIO(t) \/ TomarDispositivo(t) \/ HacerTarea(t)
           \/ Moverse(t) \/ Terminar(t)
  PROVE  Tipos'
<1>1. /\ t \in Hilos /\ t # "consola" /\ t # "sabotaje"
      /\ {"EXIT", "READY", "BLOCKED"} \subseteq Estados /\ trip[t] \in TTripulante
  BY NombresAssumption DEF Hilos, Estados, Tipos, DeTrip
<1>2. CASE DejarCpu(t)
  <2>1. DeTrip' /\ \A u \in Tripulantes : trip'[u].tarea = trip[u].tarea
    BY <1>2 DEF DejarCpu, Tipos, DeTrip, TTripulante
  <2>. QED
    BY <1>1, <1>2, <2>1, Quietos, PuestosIr, CambiarTipo DEF DejarCpu, Tipos, ConTarea
<1>3. CASE PedirIO(t)
  <2>1. DeTrip' /\ \A u \in Tripulantes : trip'[u].tarea = trip[u].tarea
    BY <1>3 DEF PedirIO, Tipos, DeTrip, TTripulante
  <2>. QED
    BY <1>1, <1>3, <2>1, Quietos, PuestosIr, CambiarTipo DEF PedirIO, Tipos, ConTarea
<1>4. CASE TomarDispositivo(t)
  BY <1>1, <1>4, Quietos, PuestosIr, EsperarTipo DEF TomarDispositivo, EsperarYSeguir, Tipos, ConTarea, Semaforos
<1>5. CASE HacerTarea(t)
  <2>. DEFINE io == trip[t].haciendo_io
              ultima == Ultima(t)
              proxima == trip[t].tarea + 1
              a == IF io /\ ultima THEN trip[t].semaforo ELSE trip[t].semaforo + 1
              b == IF io THEN trip[t].tiempo_en_cpu ELSE trip[t].tiempo_en_cpu + 1
              c == IF ultima THEN 0 ELSE trip[t].tiempo_haciendo_tarea + 1
              d == IF ultima THEN proxima ELSE trip[t].tarea
              s == SigueEnIO(t)
              e == [trip[t] EXCEPT !.semaforo = a, !.tiempo_en_cpu = b, !.tiempo_haciendo_tarea = c,
                                   !.tarea = d, !.haciendo_io = s]
  <2>1. trip' = [trip EXCEPT ![t] = e]
    BY <1>5 DEF HacerTarea
  <2>2. /\ s \in BOOLEAN /\ a \in Nat /\ b \in Nat /\ c \in Nat /\ d \in Nat \ {0}
        /\ (d = trip[t].tarea \/ d = trip[t].tarea + 1)
    BY <1>1 DEF SigueEnIO, TTripulante
  <2>. HIDE DEF a, b, c, d, s
  <2>3. e \in TTripulante /\ (e.tarea = trip[t].tarea \/ e.tarea = trip[t].tarea + 1)
    BY <1>1, <2>2 DEF TTripulante
  <2>. HIDE DEF e
  <2>4. DeTrip'
    BY <2>1, <2>3 DEF Tipos, DeTrip
  <2>5. Puestos' /\ DePc'
    <3>1. Len(TAREAS) \in Nat
      BY DiscordiadorAssumption, LenProperties DEF Tipos, DeUsos, TUsos, TAREAS
    <3>2. /\ UNCHANGED <<lista, sabo, usos>> /\ TAREAS' = TAREAS
          /\ pc[t] = "decidir" /\ pc' = [pc EXCEPT ![t] = "pausado"]
      BY <1>5, Quietos DEF HacerTarea, Ir, En, TAREAS
    <3>3. trip[t].tarea <= Len(TAREAS) /\ trip[t].tarea \in Nat
      BY <1>1, <3>2 DEF Tipos, Puestos, ConTarea, TTripulante
    <3>4. \A u \in Tripulantes : u # t => trip'[u] = trip[u]
      BY <2>1 DEF Tipos, DeTrip
    <3>5. trip'[t].tarea <= Len(TAREAS) + 1
      BY <2>1, <2>3, <3>1, <3>3 DEF Tipos, DeTrip
    <3>. QED
      BY <1>1, <3>2, <3>4, <3>5 DEF Tipos, DePc, Puestos, ConTarea
  <2>6. DeSem' /\ DeCambio'
    <3>1. CASE io /\ ultima
      <4>1. Postear("dispositivos_io") /\ Cambiar(t, t, IF proxima > Len(TAREAS) THEN "EXIT" ELSE "READY")
        BY <1>5, <3>1 DEF HacerTarea
      <4>2. (IF proxima > Len(TAREAS) THEN "EXIT" ELSE "READY") \in Estados
        BY <1>1
      <4>. QED
        BY <1>1, <4>1, <4>2, PostearTipo, CambiarTipo DEF Tipos, Semaforos
    <3>2. CASE ~(io /\ ultima)
      BY <1>5, <3>2, Quietos DEF HacerTarea
    <3>. QED
      BY <3>1, <3>2
  <2>. QED
    BY <1>5, <2>4, <2>5, <2>6, Quietos DEF HacerTarea, Tipos
<1>6. CASE Moverse(t)
  <2>. DEFINE a == Hacia(trip[t].x, Tarea(t).x)
              b == trip[t].tiempo_en_cpu + 1
              c == trip[t].semaforo + 1
              e == [trip[t] EXCEPT !.x = a, !.tiempo_en_cpu = b, !.semaforo = c]
  <2>1. trip' = [trip EXCEPT ![t] = e]
    BY <1>6 DEF Moverse
  <2>2. a \in Int /\ b \in Nat /\ c \in Nat
    BY <1>1 DEF Hacia, TTripulante
  <2>. HIDE DEF a, b, c
  <2>3. e \in TTripulante /\ e.tarea = trip[t].tarea
    BY <1>1, <2>2 DEF TTripulante
  <2>. HIDE DEF e
  <2>4. DeTrip' /\ \A u \in Tripulantes : trip'[u].tarea = trip[u].tarea
    BY <2>1, <2>3 DEF Tipos, DeTrip
  <2>. QED
    BY <1>1, <1>6, <2>4, Quietos, PuestosIr DEF Moverse, Tipos, ConTarea
<1>7. CASE Terminar(t)
  BY <1>1, <1>7, Quietos, PuestosIr, CambiarTipo DEF Terminar, Tipos, ConTarea
<1>. QED
  BY <1>2, <1>3, <1>4, <1>5, <1>6, <1>7

\* The same of the end of its crew.
LEMMA TiposTripulanteFin ==
  ASSUME Tipos, NEW t \in Tripulantes,
         TerminoListar(t) \/ FaltaAlguno(t) \/ EstanTodos(t) \/ DestruirTodos(t) \/ Destruirse(t)
  PROVE  Tipos'
<1>1. t \in Hilos /\ t # "consola" /\ t # "sabotaje"
  BY NombresAssumption DEF Hilos
<1>2. ASSUME NEW a, NEW b, Ir(t, a, b), b \notin ConTarea, UNCHANGED <<sabo, usos>>,
             NEW l \in Seq(Tripulantes), lista' = [lista EXCEPT ![t] = l],
             \A u \in Tripulantes : trip'[u].tarea = trip[u].tarea
      PROVE  Puestos' /\ DePc' /\ DeLista'
  BY <1>1, <1>2 DEF Tipos, DePc, DeLista, Puestos, Ir, En, TAREAS
<1>3. CASE TerminoListar(t)
  <2>1. Los(Todos, Companeros(t)) \in Seq(Tripulantes)
    BY LosDe, TodosTipo DEF Tipos
  <2>. QED
    BY <1>2, <1>3, <2>1, Quietos DEF TerminoListar, Tipos, ConTarea
<1>4. CASE FaltaAlguno(t)
  BY <1>2, <1>4, Quietos, EmptySeq DEF FaltaAlguno, Tipos, ConTarea
<1>5. CASE EstanTodos(t)
  BY <1>1, <1>5, Quietos, PuestosIr DEF EstanTodos, Avanzar, Tipos, ConTarea
<1>6. CASE DestruirTodos(t)
  <2>1. DeColas'
    <3>1. colas' = [colas EXCEPT !["EXIT"] = Los(@, Tripulantes \ ToSet(lista[t]))] /\ colas_tomadas' = colas_tomadas
      BY <1>6 DEF DestruirTodos
    <3>2. Los(colas["EXIT"], Tripulantes \ ToSet(lista[t])) \in Seq(Tripulantes)
      BY LosDe DEF Tipos, DeColas, Estados
    <3>. QED
      BY <3>1, <3>2 DEF Tipos, DeColas
  <2>2. DeTrip' /\ \A u \in Tripulantes : trip'[u].tarea = trip[u].tarea
    <3>1. \A u \in Tripulantes : /\ trip[u] \in TTripulante
                                 /\ [trip[u] EXCEPT !.sem_destruir = @ + 1] \in TTripulante
                                 /\ [trip[u] EXCEPT !.sem_destruir = @ + 1].tarea = trip[u].tarea
      BY DEF Tipos, DeTrip, TTripulante
    <3>2. trip' = [u \in Tripulantes |-> IF u \in Avisados(t) THEN [trip[u] EXCEPT !.sem_destruir = @ + 1] ELSE trip[u]]
      BY <1>6 DEF DestruirTodos
    <3>. QED
      BY <3>1, <3>2 DEF DeTrip
  <2>. QED
    BY <1>2, <1>6, <2>1, <2>2, Quietos, EmptySeq DEF DestruirTodos, Tipos, ConTarea
<1>7. CASE Destruirse(t)
  BY <1>1, <1>7, Quietos, PuestosIr DEF Destruirse, Avanzar, Tipos, ConTarea
<1>. QED
  BY <1>3, <1>4, <1>5, <1>6, <1>7

\* A step of iniciar_planificacion or pausar_planificacion.
LEMMA TiposOrden ==
  ASSUME Tipos, NEW h \in Ordenes, Orden(h)
  PROVE  Tipos'
<1>1. h \in Hilos /\ h \notin Tripulantes /\ "READY" \in Estados
  BY NombresAssumption DEF Hilos, Ordenes, Estados
<1>2. ASSUME NEW a, NEW b, Ir(h, a, b), b \notin ConLista, b \notin {"mover", "guardar", "bloquear_suave"},
             UNCHANGED <<sabo, usos>>,
             NEW l \in Seq(Tripulantes), lista' = [lista EXCEPT ![h] = l],
             \A u \in Tripulantes : trip'[u].tarea = trip[u].tarea
      PROVE  Puestos' /\ DePc' /\ DeLista'
  BY <1>1, <1>2 DEF Tipos, DePc, DeLista, Puestos, Ir, En, TAREAS
<1>3. TrasPausar(h) \notin ConLista /\ TrasPausar(h) \notin {"mover", "guardar", "bloquear_suave"}
  BY DEF TrasPausar, ConLista
<1>4. lista[h] \in Seq(Tripulantes) /\ colas["NEW"] \in Seq(Tripulantes)
  BY <1>1 DEF Tipos, DeLista, DeColas, Estados
<1>5. CASE IniciarNada(h)
  BY <1>1, <1>5, Quietos, PuestosIr DEF IniciarNada, Avanzar, Tipos, ConLista
<1>6. CASE IniciarContar(h)
  <2>1. DePausa'
    BY <1>6 DEF IniciarContar, TomarPausa, Tipos, DePausa, banderas
  <2>. QED
    BY <1>2, <1>4, <1>6, <2>1, Quietos DEF IniciarContar, Tipos, ConLista
<1>7. CASE IniciarNuevo(h)
  <2>1. Tail(lista[h]) \in Seq(Tripulantes) /\ Head(colas["NEW"]) \in Tripulantes
    BY <1>4, <1>7, HeadTailProperties DEF IniciarNuevo
  <2>. QED
    BY <1>1, <1>2, <1>7, <2>1, Quietos, CambiarTipo DEF IniciarNuevo, Tipos, ConLista
<1>8. CASE IniciarCaida(h)
  BY <1>1, <1>8, Quietos, PuestosIr DEF IniciarCaida, Avanzar, Tipos, ConLista
<1>9. CASE IniciarReanudar(h)
  <2>1. DeTrip' /\ \A u \in Tripulantes : trip'[u].tarea = trip[u].tarea
    <3>1. ASSUME planificando PROVE DeTrip' /\ \A u \in Tripulantes : trip'[u].tarea = trip[u].tarea
      <4>1. trip' = [t \in Tripulantes |-> [trip[t] EXCEPT !.pausado = @ + Veces(t)]]
        BY <1>9, <3>1 DEF IniciarReanudar
      <4>2. ASSUME NEW t \in Tripulantes
            PROVE  /\ [trip[t] EXCEPT !.pausado = @ + Veces(t)] \in TTripulante
                   /\ [trip[t] EXCEPT !.pausado = @ + Veces(t)].tarea = trip[t].tarea
        <5>1. trip[t] \in TTripulante /\ Veces(t) \in Nat
          BY VecesTipo DEF Tipos, DeTrip
        <5>. QED
          BY <5>1 DEF TTripulante
      <4>. QED
        BY <4>1, <4>2 DEF DeTrip
    <3>2. ASSUME ~planificando PROVE DeTrip' /\ \A u \in Tripulantes : trip'[u].tarea = trip[u].tarea
      BY <1>9, <3>2, Quietos DEF IniciarReanudar
    <3>. QED
      BY <3>1, <3>2 DEF Tipos, DePausa
  <2>2. DePausa'
    BY <1>9 DEF IniciarReanudar, SoltarPausa, Tipos, DePausa
  <2>. QED
    BY <1>1, <1>9, <2>1, <2>2, Quietos, PuestosIr, PostearTipo DEF IniciarReanudar, Tipos, ConLista, Semaforos
<1>10. CASE PausarNada(h)
  BY <1>1, <1>3, <1>10, Quietos, PuestosIr DEF PausarNada, Avanzar, Tipos
<1>11. CASE PausarTomar(h)
  <2>1. DePausa'
    BY <1>11 DEF PausarTomar, TomarPausa, Tipos, DePausa
  <2>. QED
    BY <1>1, <1>11, <2>1, Quietos, PuestosIr DEF PausarTomar, Tipos, ConLista
<1>12. CASE PausarEsperar(h)
  BY <1>1, <1>12, Quietos, PuestosIr, EsperarTipo DEF PausarEsperar, EsperarYSeguir, Tipos, ConLista, Semaforos
<1>13. CASE PausarTodos(h)
  <2>1. DeColas'
    BY <1>13 DEF PausarTodos, Tipos, DeColas
  <2>. QED
    BY <1>2, <1>13, <2>1, Quietos, TodosTipo DEF PausarTodos, Tipos, ConLista
<1>14. CASE PausarUno(h)
  <2>. DEFINE t == Head(lista[h])
  <2>1. Tail(lista[h]) \in Seq(Tripulantes) /\ t \in Tripulantes
    BY <1>4, <1>14, HeadTailProperties DEF PausarUno
  <2>2. DeTrip' /\ \A u \in Tripulantes : trip'[u].tarea = trip[u].tarea
    <3>1. trip[t].pausado > 0 /\ trip' = [trip EXCEPT ![t].pausado = @ - 1]
      BY <1>14 DEF PausarUno
    <3>. HIDE DEF t
    <3>2. trip[t] \in TTripulante
      BY <2>1 DEF Tipos, DeTrip
    <3>3. trip[t].pausado - 1 \in Nat
      BY <3>1, <3>2 DEF TTripulante
    <3>4. /\ [trip[t] EXCEPT !.pausado = @ - 1] \in TTripulante
          /\ [trip[t] EXCEPT !.pausado = @ - 1].tarea = trip[t].tarea
      BY <3>2, <3>3 DEF TTripulante
    <3>5. trip' = [trip EXCEPT ![t] = [trip[t] EXCEPT !.pausado = @ - 1]]
      BY <3>1
    <3>. QED
      BY <2>1, <3>4, <3>5 DEF Tipos, DeTrip
  <2>. QED
    BY <1>2, <1>14, <2>1, <2>2, Quietos DEF PausarUno, Tipos, ConLista
<1>15. CASE PausarFin(h)
  <2>1. DePausa' /\ DeColas'
    BY <1>15 DEF PausarFin, SoltarPausa, Tipos, DePausa, DeColas, banderas
  <2>. QED
    BY <1>1, <1>3, <1>15, <2>1, Quietos, PuestosIr DEF PausarFin, Tipos
<1>. QED
  BY <1>5, <1>6, <1>7, <1>8, <1>9, <1>10, <1>11, <1>12, <1>13, <1>14, <1>15 DEF Orden

\* What is left of a list of more than one is something.
LEMMA RestoNoVacio ==
  ASSUME NEW S, NEW s \in Seq(S), s # <<>>, Len(s) # 1
  PROVE  Tail(s) # <<>>
<1>1. Tail(s) \in Seq(S) /\ Len(Tail(s)) = Len(s) - 1 /\ Len(s) \in Nat
  BY HeadTailProperties, LenProperties
<1>2. Len(Tail(s)) # 0
  BY <1>1
<1>. QED
  BY <1>1, <1>2, EmptySeq

\* A step of the console.
LEMMA TiposConsola ==
  ASSUME Tipos, Consola
  PROVE  Tipos'
<1>. DEFINE h == "consola"
            t == Head(lista[h])
<1>1. /\ h \in Hilos /\ h \notin Tripulantes /\ h # "sabotaje" /\ "sabotaje" \in Hilos
      /\ {"NEW", "READY"} \subseteq Estados
  BY NombresAssumption DEF Hilos, Estados
<1>2. lista[h] \in Seq(Tripulantes) /\ DeLista /\ DePc
  BY <1>1 DEF Tipos, DeLista
<1>3. pc[h] \in ConLista => /\ lista[h] # <<>> /\ t \in Tripulantes
                            /\ Tail(lista[h]) \in Seq(Tripulantes) /\ trip[t] \in TTripulante
  BY <1>2, HeadTailProperties DEF Tipos, Puestos, DeTrip
<1>4. ASSUME NEW a, NEW b, Ir(h, a, b), UNCHANGED sabo, TAREAS' = TAREAS,
             NEW l \in Seq(Tripulantes), lista' = [lista EXCEPT ![h] = l], b \in ConLista => l # <<>>,
             \A u \in Tripulantes : trip'[u].tarea = trip[u].tarea
      PROVE  Puestos' /\ DePc' /\ DeLista'
  <2>. HIDE DEF h
  <2>1. /\ pc' = [pc EXCEPT ![h] = b] /\ DOMAIN pc' = Hilos
        /\ \A k \in Hilos \ {h} : pc'[k] = pc[k] /\ lista'[k] = lista[k]
        /\ pc'[h] = b /\ lista'[h] = l /\ lista' \in [Hilos -> Seq(Tripulantes)]
    BY <1>1, <1>2, <1>4 DEF DePc, DeLista, Ir
  <2>2. \A u \in Tripulantes : u \in Hilos \ {h}
    BY <1>1 DEF Hilos
  <2>3. "sabotaje" \in Hilos \ {h}
    BY <1>1
  <2>4. ASSUME NEW u \in Tripulantes
        PROVE  /\ trip'[u].tarea <= Len(TAREAS') + 1
               /\ pc'[u] \in ConTarea => trip'[u].tarea <= Len(TAREAS')
    <3>1. pc'[u] = pc[u] /\ trip'[u].tarea = trip[u].tarea /\ TAREAS' = TAREAS
      BY <1>4, <2>1, <2>2
    <3>. QED
      BY <3>1 DEF Tipos, Puestos
  <2>5. /\ pc'["sabotaje"] \in {"mover", "guardar"} => sabo'.elegido # NULL
        /\ pc'["sabotaje"] = "bloquear_suave" => lista'["sabotaje"] # <<>>
    BY <1>4, <2>1, <2>3 DEF Tipos, Puestos
  <2>6. pc'["consola"] \in ConLista => lista'["consola"] # <<>>
    BY <1>4, <2>1 DEF h
  <2>. QED
    BY <2>1, <2>4, <2>5, <2>6 DEF Puestos, DePc, DeLista
<1>5. CASE PedirIniciar
  BY <1>1, <1>5, Quietos, PuestosIr DEF PedirIniciar, Avanzar, Tipos, ConLista
<1>6. CASE PedirPausar
  <2>1. DeUsos' /\ TAREAS' = TAREAS
    BY <1>6 DEF PedirPausar, Tipos, DeUsos, TUsos, TAREAS
  <2>2. Puestos' /\ DePc'
    BY <1>1, <1>6, <2>1 DEF PedirPausar, Ir, En, Tipos, DePc, Puestos, ConLista
  <2>. QED
    BY <1>6, <2>1, <2>2, Quietos DEF PedirPausar, Tipos
<1>7. CASE \E p \in Patotas : IniciarPatota(p)
  <2>1. PICK p \in Patotas : IniciarPatota(p)
    BY <1>7
  <2>2. p \in Seq(Tripulantes) /\ p # <<>>
    BY DiscordiadorAssumption
  <2>. QED
    BY <1>4, <2>1, <2>2, Quietos DEF IniciarPatota, Tipos, TAREAS
<1>8. CASE IniciarTripulante
  <2>1. /\ pc[h] = "iniciar_tripulante" /\ pc' = [pc EXCEPT ![h] = "encolar", ![t] = "pausado"]
        /\ trip' = [trip EXCEPT ![t].estado = "NEW"] /\ UNCHANGED <<lista, sabo, usos>> /\ TAREAS' = TAREAS
    BY <1>8, Quietos DEF IniciarTripulante, En, TAREAS
  <2>2. t \in Tripulantes /\ lista[h] # <<>>
    BY <1>3, <2>1 DEF ConLista
  <2>. HIDE DEF t
  <2>3. DeTrip' /\ \A u \in Tripulantes : trip'[u].tarea = trip[u].tarea
    <3>1. DeTrip /\ "NEW" \in Estados
      BY DEF Tipos, Estados
    <3>2. [trip[t] EXCEPT !.estado = "NEW"] \in TTripulante
      BY <2>2, <3>1 DEF DeTrip, TTripulante
    <3>. QED
      BY <2>1, <2>2, <3>1, <3>2 DEF DeTrip, TTripulante
  <2>4. Puestos' /\ DePc'
    <3>1. /\ DOMAIN pc' = Hilos /\ pc'[h] = "encolar" /\ pc'["sabotaje"] = pc["sabotaje"]
          /\ \A u \in Tripulantes : pc'[u] = IF u = t THEN "pausado" ELSE pc[u]
      BY <1>1, <1>2, <2>1, <2>2, NombresAssumption DEF DePc, Hilos
    <3>2. /\ lista'[h] # <<>> /\ (pc'["sabotaje"] \in {"mover", "guardar"} => sabo'.elegido # NULL)
          /\ pc'["sabotaje"] = "bloquear_suave" => lista'["sabotaje"] # <<>>
      BY <2>1, <2>2, <3>1 DEF Tipos, Puestos
    <3>3. ASSUME NEW u \in Tripulantes
          PROVE  /\ trip'[u].tarea <= Len(TAREAS') + 1
                 /\ pc'[u] \in ConTarea => trip'[u].tarea <= Len(TAREAS')
      <4>1. trip'[u].tarea = trip[u].tarea /\ TAREAS' = TAREAS
        BY <2>1, <2>3
      <4>2. "pausado" \notin ConTarea
        BY DEF ConTarea
      <4>3. pc'[u] \in ConTarea => pc[u] \in ConTarea
        BY <3>1, <4>2
      <4>. QED
        BY <4>1, <4>3 DEF Tipos, Puestos
    <3>. QED
      BY <3>1, <3>2, <3>3 DEF DePc, Puestos
  <2>. QED
    BY <1>8, <2>3, <2>4, Quietos DEF IniciarTripulante, Tipos
<1>9. CASE IniciarEncolar
  <2>1. t \in Tripulantes /\ (IF pausa THEN "NEW" ELSE "READY") \in Estados
    BY <1>1, <1>3, <1>9 DEF IniciarEncolar, Ir, En, ConLista
  <2>2. DePausa'
    BY <1>9 DEF IniciarEncolar, TomarPausa, Tipos, DePausa, banderas, Ordenes
  <2>. QED
    BY <1>1, <1>9, <2>1, <2>2, Quietos, PuestosIr, CambiarTipo DEF IniciarEncolar, Tipos, ConLista
<1>10. CASE IniciarSiguiente
  <2>1. lista[h] # <<>> /\ Tail(lista[h]) \in Seq(Tripulantes)
    BY <1>3, <1>10 DEF IniciarSiguiente, Ir, En, ConLista
  <2>2. Len(lista[h]) # 1 => Tail(lista[h]) # <<>>
    BY <1>2, <2>1, RestoNoVacio
  <2>3. DePausa'
    BY <1>10 DEF IniciarSiguiente, SoltarPausa, Tipos, DePausa, banderas
  <2>4. "esperar" \notin ConLista
    BY DEF ConLista
  <2>5. Puestos' /\ DePc' /\ DeLista'
    BY <1>4, <1>10, <2>1, <2>2, <2>4, Quietos DEF IniciarSiguiente, TAREAS
  <2>. QED
    BY <1>10, <2>3, <2>5, Quietos DEF IniciarSiguiente, Tipos
<1>11. CASE \E u \in Tripulantes : ExpulsarTripulante(u)
  <2>1. PICK u \in Tripulantes : ExpulsarTripulante(u)
    BY <1>11
  <2>2. DeUsos' /\ TAREAS' = TAREAS
    BY <2>1 DEF ExpulsarTripulante, Tipos, DeUsos, TUsos, TAREAS
  <2>3. <<u>> \in Seq(Tripulantes) /\ <<u>> # <<>>
    OBVIOUS
  <2>4. Puestos' /\ DePc' /\ DeLista'
    BY <1>4, <2>1, <2>2, <2>3, Quietos DEF ExpulsarTripulante
  <2>. QED
    BY <2>1, <2>2, <2>4, Quietos DEF ExpulsarTripulante, Tipos
<1>12. CASE ExpulsarMarcar
  <2>1. t \in Tripulantes /\ trip' = [trip EXCEPT ![t].termino = TRUE]
    BY <1>3, <1>12 DEF ExpulsarMarcar, Ir, En, ConLista
  <2>. HIDE DEF t
  <2>2. DeTrip' /\ \A u \in Tripulantes : trip'[u].tarea = trip[u].tarea
    <3>1. DeTrip
      BY DEF Tipos
    <3>2. /\ [trip[t] EXCEPT !.termino = TRUE] \in TTripulante
          /\ [trip[t] EXCEPT !.termino = TRUE].tarea = trip[t].tarea
      BY <2>1, <3>1 DEF DeTrip, TTripulante
    <3>. QED
      BY <2>1, <3>1, <3>2 DEF DeTrip
  <2>3. /\ Ir(h, "expulsar", "expulsado") /\ "expulsar" \in ConLista
        /\ UNCHANGED <<colasVars, sem, mutex_pausa, banderas, cambio, ordenVars>>
    BY <1>12 DEF ExpulsarMarcar, ConLista
  <2>4. Puestos' /\ DePc'
    BY <1>1, <2>2, <2>3, PuestosIr DEF ordenVars
  <2>. QED
    BY <2>2, <2>3, <2>4, Quietos DEF Tipos
<1>13. CASE ExpulsarDespertar
  <2>1. /\ t \in Tripulantes
        /\ trip' = [trip EXCEPT ![t].semaforo = @ + 1, ![t].pausado = IF pausa THEN @ + 1 ELSE @]
    BY <1>3, <1>13 DEF ExpulsarDespertar, Ir, En, ConLista
  <2>. HIDE DEF t
  <2>2. DeTrip' /\ \A u \in Tripulantes : trip'[u].tarea = trip[u].tarea
    <3>. DEFINE v == IF pausa THEN trip[t].pausado + 1 ELSE trip[t].pausado
                w == trip[t].semaforo + 1
    <3>1. trip' = [trip EXCEPT ![t] = [trip[t] EXCEPT !.semaforo = w, !.pausado = v]]
      BY <2>1 DEF Tipos, DeTrip
    <3>2. trip[t] \in TTripulante /\ v \in Nat /\ w \in Nat
      BY <2>1 DEF Tipos, DeTrip, TTripulante
    <3>. HIDE DEF v, w
    <3>3. /\ [trip[t] EXCEPT !.semaforo = w, !.pausado = v] \in TTripulante
          /\ [trip[t] EXCEPT !.semaforo = w, !.pausado = v].tarea = trip[t].tarea
      BY <3>2 DEF TTripulante
    <3>. QED
      BY <2>1, <3>1, <3>3 DEF Tipos, DeTrip
  <2>3. Puestos' /\ DePc' /\ DeLista'
    <3>1. Ir(h, "expulsado", "esperar") /\ lista' = [lista EXCEPT ![h] = <<>>] /\ sabo' = sabo /\ TAREAS' = TAREAS
      BY <1>13 DEF ExpulsarDespertar, TAREAS
    <3>2. "esperar" \notin ConLista /\ <<>> \in Seq(Tripulantes)
      BY EmptySeq DEF ConLista
    <3>. QED
      BY <1>4, <2>2, <3>1, <3>2
  <2>. QED
    BY <1>13, <2>2, <2>3, Quietos DEF ExpulsarDespertar, Tipos
<1>. QED
  BY <1>5, <1>6, <1>7, <1>8, <1>9, <1>10, <1>11, <1>12, <1>13 DEF Consola

\* A step of the sabotage.
LEMMA TiposSabotaje ==
  ASSUME Tipos, Sabotaje
  PROVE  Tipos'
<1>. DEFINE h == "sabotaje"
            t == Head(lista[h])
<1>1. /\ h \in Hilos /\ h \notin Tripulantes /\ h # "consola"
      /\ "EXEC" \in Estados /\ "READY" \in Estados /\ "BLOCKED" \in Estados
  BY NombresAssumption DEF Hilos, Estados
<1>2. lista[h] \in Seq(Tripulantes) /\ DeLista /\ DePc /\ sabo \in TSabotaje
  BY <1>1 DEF Tipos, DeLista, DeSabo
<1>3. lista[h] # <<>> => /\ t \in Tripulantes /\ Tail(lista[h]) \in Seq(Tripulantes)
                         /\ trip[t].estado \in Estados \cup {NULL}
  BY <1>2, HeadTailProperties DEF Tipos, DeTrip, TTripulante
<1>4. pc[h] \in {"mover", "guardar"} => sabo.elegido \in Tripulantes
  BY <1>2 DEF Tipos, Puestos, TSabotaje
<1>5. ASSUME NEW a, NEW b, Ir(h, a, b), TAREAS' = TAREAS,
             NEW l \in Seq(Tripulantes), lista' = [lista EXCEPT ![h] = l],
             NEW s \in TSabotaje, sabo' = s, b \in {"mover", "guardar"} => s.elegido # NULL,
             b = "bloquear_suave" => l # <<>>, UNCHANGED trip
      PROVE  Puestos' /\ DePc' /\ DeLista' /\ DeSabo'
  BY <1>1, <1>5 DEF Tipos, DePc, DeLista, DeSabo, Puestos, Ir, En
<1>6. lista = [lista EXCEPT ![h] = lista[h]]
  BY <1>2 DEF DeLista
<1>7. CASE SaboEmpezar
  <2>1. DeUsos' /\ TAREAS' = TAREAS
    BY <1>7 DEF SaboEmpezar, Tipos, DeUsos, TUsos, TAREAS
  <2>2. PICK x \in Lugares : sabo' = [sabo EXCEPT !.x = x]
    BY <1>7 DEF SaboEmpezar
  <2>3. x \in Int
    BY <2>2, DiscordiadorAssumption DEF Tipos, DeUsos, TUsos, Lugares
  <2>4. [sabo EXCEPT !.x = x] \in TSabotaje
    BY <1>2, <2>3 DEF TSabotaje
  <2>5. Puestos' /\ DePc' /\ DeLista' /\ DeSabo'
    BY <1>2, <1>5, <1>6, <1>7, <2>1, <2>2, <2>4 DEF SaboEmpezar
  <2>6. DePausa'
    BY <1>7 DEF SaboEmpezar, Tipos, DePausa
  <2>. QED
    BY <1>7, <2>1, <2>5, <2>6, Quietos DEF SaboEmpezar, Tipos
<1>8. CASE SaboMirarPausa
  <2>1. [sabo EXCEPT !.estaba_pausado = pausa] \in TSabotaje
    BY <1>2 DEF TSabotaje, Tipos, DePausa
  <2>2. Puestos' /\ DePc' /\ DeLista' /\ DeSabo'
    <3>. DEFINE b == IF pausa THEN "listar_exec" ELSE "pausar"
    <3>1. /\ Ir(h, "mirar_pausa", b) /\ TAREAS' = TAREAS
          /\ lista' = [lista EXCEPT ![h] = lista[h]] /\ trip' = trip
          /\ sabo' = [sabo EXCEPT !.estaba_pausado = pausa]
      BY <1>6, <1>8 DEF SaboMirarPausa, TAREAS
    <3>2. b \notin {"mover", "guardar", "bloquear_suave"}
      OBVIOUS
    <3>. HIDE DEF b
    <3>. QED
      BY <1>2, <1>5, <2>1, <3>1, <3>2
  <2>. QED
    BY <1>8, <2>2, Quietos DEF SaboMirarPausa, Tipos
<1>9. ASSUME NEW e \in Estados, NEW a, NEW b, b \notin {"mover", "guardar", "bloquear_suave"},
             SaboListar(e, a, b)
      PROVE  Tipos'
  <2>1. lista[h] \o colas[e] \in Seq(Tripulantes)
    BY <1>2, ConcatProperties DEF Tipos, DeColas
  <2>2. Puestos' /\ DePc' /\ DeLista' /\ DeSabo'
    <3>1. /\ Ir(h, a, b) /\ TAREAS' = TAREAS /\ sabo' = sabo /\ trip' = trip
          /\ lista' = [lista EXCEPT ![h] = lista[h] \o colas[e]]
      BY <1>9 DEF SaboListar, TAREAS
    <3>. QED
      BY <1>2, <1>5, <1>9, <2>1, <3>1
  <2>. QED
    BY <1>9, <2>2, Quietos DEF SaboListar, Tipos
<1>10. CASE SaboElegir
  <2>. DEFINE m == MasCercano(lista[h])
              s == [sabo EXCEPT !.elegido = m]
              l == Los(lista[h], Tripulantes \ {m})
  <2>1. m \in Tripulantes \cup {NULL}
    BY <1>2, MasCercanoTipo DEF Tipos
  <2>2. /\ Ir(h, "elegir", "bloquear") /\ TAREAS' = TAREAS /\ trip' = trip /\ sabo' = s
        /\ lista' = [lista EXCEPT ![h] = Los(@, Tripulantes \ {sabo'.elegido})]
    BY <1>10 DEF SaboElegir, TAREAS
  <2>. HIDE DEF m
  <2>3. s \in TSabotaje /\ s.elegido = m
    BY <1>2, <2>1 DEF TSabotaje
  <2>4. l \in Seq(Tripulantes) /\ lista' = [lista EXCEPT ![h] = l]
    BY <1>2, <2>2, <2>3, LosDe
  <2>. HIDE DEF s, l
  <2>5. Puestos' /\ DePc' /\ DeLista' /\ DeSabo'
    <3>1. "bloquear" \notin {"mover", "guardar", "bloquear_suave"}
      OBVIOUS
    <3>. QED
      BY <1>5, <2>2, <2>3, <2>4, <3>1
  <2>. QED
    BY <1>10, <2>5, Quietos DEF SaboElegir, Tipos
<1>11. CASE SaboBloquear
  <2>. DEFINE cola == IF trip[t].estado = "READY" THEN "cola_ready" ELSE "cola_exec"
              s == [sabo EXCEPT ![cola] = Append(@, t)]
  <2>1. t \in Tripulantes /\ lista[h] # <<>>
    BY <1>3, <1>11 DEF SaboBloquear
  <2>2. /\ Ir(h, "bloquear", "bloquear_suave") /\ UNCHANGED <<usos, trip, lista>> /\ sabo' = s
    BY <1>11 DEF SaboBloquear
  <2>. HIDE DEF t
  <2>4. s \in TSabotaje
    <3>1. Append(sabo.cola_ready, t) \in Seq(Tripulantes) /\ Append(sabo.cola_exec, t) \in Seq(Tripulantes)
      BY <1>2, <2>1, AppendProperties DEF TSabotaje
    <3>2. /\ [sabo EXCEPT !.cola_ready = Append(sabo.cola_ready, t)] \in TSabotaje
          /\ [sabo EXCEPT !.cola_exec = Append(sabo.cola_exec, t)] \in TSabotaje
      BY <1>2, <3>1 DEF TSabotaje
    <3>. QED
      BY <3>2
  <2>. HIDE DEF s
  <2>5. Puestos' /\ DePc' /\ DeSabo'
    <3>1. lista' = [lista EXCEPT ![h] = lista[h]] /\ TAREAS' = TAREAS
      BY <1>6, <2>2 DEF TAREAS
    <3>2. "bloquear_suave" \notin {"mover", "guardar"}
      OBVIOUS
    <3>. QED
      BY <1>2, <1>5, <2>1, <2>2, <2>4, <3>1, <3>2
  <2>. QED
    BY <1>11, <2>5, Quietos DEF SaboBloquear, Tipos
<1>21. CASE SaboBloquearSuave
  <2>1. t \in Tripulantes /\ Tail(lista[h]) \in Seq(Tripulantes) /\ trip[t].estado \in Estados \cup {NULL}
    BY <1>1, <1>3, <1>21 DEF SaboBloquearSuave, Ir, En, Tipos, Puestos
  <2>2. /\ Ir(h, "bloquear_suave", "bloquear") /\ TAREAS' = TAREAS /\ trip' = trip /\ sabo' = sabo
        /\ lista' = [lista EXCEPT ![h] = Tail(lista[h])]
        /\ CambiarSuave(h, t, trip[t].estado, "BLOCKED")
    BY <1>21 DEF SaboBloquearSuave, TAREAS
  <2>3. DeCambio'
    BY <1>1, <2>1, <2>2, CambiarSuaveTipo DEF Tipos
  <2>. HIDE DEF t
  <2>5. Puestos' /\ DePc' /\ DeLista' /\ DeSabo'
    <3>1. "bloquear" \notin {"mover", "guardar", "bloquear_suave"}
      OBVIOUS
    <3>. DEFINE l == Tail(lista[h])
    <3>2. l \in Seq(Tripulantes) /\ lista' = [lista EXCEPT ![h] = l]
      BY <2>1, <2>2
    <3>. HIDE DEF l
    <3>. QED
      BY <1>2, <1>5, <2>2, <3>1, <3>2
  <2>. QED
    BY <1>21, <2>3, <2>5, Quietos DEF SaboBloquearSuave, Tipos
<1>12. CASE SaboSinNadie
  BY <1>1, <1>12, Quietos, PuestosIr DEF SaboSinNadie, Avanzar, Tipos
<1>13. CASE SaboResolver
  <2>. DEFINE ready == trip[sabo.elegido].estado = "READY"
              s == [sabo EXCEPT !.estaba_en_ready = ready]
  <2>1. sabo.elegido \in Tripulantes
    BY <1>2, <1>13 DEF SaboResolver, TSabotaje
  <2>2. DeCambio'
    BY <1>1, <1>13, <2>1, Quietos, CambiarSuaveTipo DEF SaboResolver, Tipos
  <2>3. Ir(h, "bloquear", "mover") /\ TAREAS' = TAREAS /\ trip' = trip /\ lista' = lista /\ sabo' = s
    BY <1>13 DEF SaboResolver, TAREAS
  <2>4. ready \in BOOLEAN
    OBVIOUS
  <2>. HIDE DEF ready
  <2>5. s \in TSabotaje /\ s.elegido = sabo.elegido /\ s.elegido # NULL
    BY <1>2, <1>13, <2>4 DEF TSabotaje, SaboResolver
  <2>. HIDE DEF s
  <2>6. Puestos' /\ DePc' /\ DeLista' /\ DeSabo'
    BY <1>2, <1>5, <1>6, <2>3, <2>5
  <2>. QED
    BY <1>13, <2>2, <2>6, Quietos DEF SaboResolver, Tipos
<1>14. CASE SaboMover
  <2>. DEFINE u == sabo.elegido
              x == Hacia(trip[u].x, sabo.x)
  <2>1. u \in Tripulantes /\ trip' = [trip EXCEPT ![u].x = x]
    BY <1>4, <1>14 DEF SaboMover, Ir, En
  <2>2. trip[u] \in TTripulante /\ x \in Int
    BY <2>1 DEF Tipos, DeTrip, TTripulante, Hacia
  <2>. HIDE DEF u, x
  <2>3. DeTrip' /\ \A v \in Tripulantes : trip'[v].tarea = trip[v].tarea
    BY <2>1, <2>2 DEF Tipos, DeTrip, TTripulante
  <2>. QED
    BY <1>1, <1>14, <2>3, Quietos, PuestosIr DEF SaboMover, Tipos
<1>15. CASE SaboLlegar
  BY <1>1, <1>4, <1>15, Quietos, PuestosIr, CambiarSuaveTipo DEF SaboLlegar, Ir, En, Tipos
<1>16. CASE SaboGuardar
  <2>. DEFINE u == sabo.elegido
              cola == IF sabo.estaba_en_ready THEN "cola_ready" ELSE "cola_exec"
              s == [sabo EXCEPT ![cola] = Append(@, u), !.elegido = NULL]
  <2>1. u \in Tripulantes /\ sabo' = s /\ Ir(h, "guardar", "devolver") /\ TAREAS' = TAREAS /\ trip' = trip /\ lista' = lista
    BY <1>4, <1>16 DEF SaboGuardar, Ir, En, TAREAS
  <2>2. s \in TSabotaje
    <3>1. Append(sabo.cola_ready, u) \in Seq(Tripulantes) /\ Append(sabo.cola_exec, u) \in Seq(Tripulantes)
      BY <1>2, <2>1, AppendProperties DEF TSabotaje
    <3>2. /\ [sabo EXCEPT !.cola_ready = Append(sabo.cola_ready, u), !.elegido = NULL] \in TSabotaje
          /\ [sabo EXCEPT !.cola_exec = Append(sabo.cola_exec, u), !.elegido = NULL] \in TSabotaje
      BY <1>2, <3>1 DEF TSabotaje
    <3>. QED
      BY <3>2
  <2>. HIDE DEF s
  <2>3. Puestos' /\ DePc' /\ DeLista' /\ DeSabo'
    BY <1>2, <1>5, <1>6, <2>1, <2>2
  <2>. QED
    BY <1>16, <2>3, Quietos DEF SaboGuardar, Tipos
<1>17. CASE SaboDevolver
  <2>. DEFINE exec == sabo.cola_exec # <<>>
              cola == IF exec THEN "cola_exec" ELSE "cola_ready"
              u == Head(sabo[cola])
              s == [sabo EXCEPT ![cola] = Tail(@)]
  <2>1. /\ sabo' = s /\ Ir(h, "devolver", "devolver") /\ TAREAS' = TAREAS /\ trip' = trip /\ lista' = lista
        /\ CambiarSuave(h, u, "BLOCKED", IF exec THEN "EXEC" ELSE "READY") /\ sabo[cola] # <<>>
    BY <1>17 DEF SaboDevolver, TAREAS
  <2>2. u \in Tripulantes /\ s \in TSabotaje
    <3>1. CASE exec
      <4>1. cola = "cola_exec" /\ sabo.cola_exec \in Seq(Tripulantes) /\ sabo.cola_exec # <<>>
        BY <1>2, <3>1 DEF TSabotaje
      <4>2. Head(sabo.cola_exec) \in Tripulantes /\ Tail(sabo.cola_exec) \in Seq(Tripulantes)
        BY <4>1, HeadTailProperties
      <4>3. [sabo EXCEPT !.cola_exec = Tail(sabo.cola_exec)] \in TSabotaje
        BY <1>2, <4>2 DEF TSabotaje
      <4>. QED
        BY <3>1, <4>2, <4>3
    <3>2. CASE ~exec
      <4>1. cola = "cola_ready" /\ sabo.cola_ready \in Seq(Tripulantes) /\ sabo.cola_ready # <<>>
        BY <1>2, <2>1, <3>2 DEF TSabotaje
      <4>2. Head(sabo.cola_ready) \in Tripulantes /\ Tail(sabo.cola_ready) \in Seq(Tripulantes)
        BY <4>1, HeadTailProperties
      <4>3. [sabo EXCEPT !.cola_ready = Tail(sabo.cola_ready)] \in TSabotaje
        BY <1>2, <4>2 DEF TSabotaje
      <4>. QED
        BY <3>2, <4>2, <4>3
    <3>. QED
      BY <3>1, <3>2
  <2>3. (IF exec THEN "EXEC" ELSE "READY") \in Estados
    BY <1>1
  <2>. HIDE DEF exec, cola, u, s
  <2>4. DeCambio'
    BY <1>1, <2>1, <2>2, <2>3, CambiarSuaveTipo DEF Tipos
  <2>5. Puestos' /\ DePc' /\ DeLista' /\ DeSabo'
    BY <1>2, <1>5, <1>6, <2>1, <2>2
  <2>. QED
    BY <1>17, <2>4, <2>5, Quietos DEF SaboDevolver, Tipos
<1>18. CASE SaboFin
  <2>1. DePausa'
    BY <1>18 DEF SaboFin, Tipos, DePausa
  <2>2. (IF sabo.estaba_pausado THEN "esperar" ELSE "iniciar") \notin {"mover", "guardar"}
    OBVIOUS
  <2>3. Puestos' /\ DePc'
    <3>1. /\ Ir(h, "devolver", IF sabo.estaba_pausado THEN "esperar" ELSE "iniciar")
          /\ UNCHANGED <<lista, sabo, usos>> /\ trip' = trip
      BY <1>18, Quietos DEF SaboFin
    <3>. QED
      BY <1>1, <2>2, <3>1, PuestosIr
  <2>. QED
    BY <1>18, <2>1, <2>3, Quietos DEF SaboFin, Tipos
<1>19. SaboListar("EXEC", "listar_exec", "listar_ready") => Tipos'
  BY <1>1, <1>9
<1>20. SaboListar("READY", "listar_ready", "elegir") => Tipos'
  BY <1>1, <1>9
<1>. QED
  BY <1>7, <1>8, <1>10, <1>11, <1>12, <1>13, <1>14, <1>15, <1>16, <1>17, <1>18, <1>19, <1>20, <1>21
     DEF Sabotaje

LEMMA TiposInicial ==
  Init => Tipos
<1>. SUFFICES ASSUME Init PROVE Tipos
  OBVIOUS
<1>1. DeColas /\ DePausa /\ DePc /\ DeCambio /\ DeLista
  BY EmptySeq DEF Init, DeColas, DePausa, DePc, DeCambio, DeLista
<1>2. DeSem
  BY DiscordiadorAssumption DEF Init, DeSem, Semaforos
<1>3. SinCrear \in TTripulante
  BY DEF SinCrear, TTripulante
<1>4. DeTrip /\ \A t \in Tripulantes : trip[t].tarea = 1
  BY <1>3 DEF Init, DeTrip, SinCrear
<1>5. DeSabo /\ DeUsos
  BY EmptySeq DEF Init, DeSabo, DeUsos, TSabotaje, TUsos
<1>6. /\ pc["consola"] = "esperar" /\ pc["sabotaje"] = "esperar"
      /\ \A t \in Tripulantes : pc[t] = "sin_crear"
  BY NombresAssumption DEF Init, Hilos, Ordenes
<1>7. Len(TAREAS) \in Nat
  BY <1>5, DiscordiadorAssumption, LenProperties DEF DeUsos, TUsos, TAREAS
<1>8. Puestos
  BY <1>4, <1>6, <1>7 DEF Puestos, ConLista, ConTarea
<1>. QED
  BY <1>1, <1>2, <1>4, <1>5, <1>8 DEF Tipos

LEMMA TiposPaso ==
  ASSUME Tipos, [Next]_vars
  PROVE  Tipos'
<1>1. CASE UNCHANGED vars
  <2>1. /\ UNCHANGED <<colasVars, sem, trip, mutex_pausa, banderas, pc, cambio, lista, sabo, usos>>
    BY <1>1, Quietos DEF vars, ordenVars
  <2>. QED
    BY <2>1, Quietos, PuestosQuietos DEF Tipos
<1>2. CASE Next
  <2>1. CASE \E h \in Hilos : DelHilo(h)
    <3>1. PICK h \in Hilos : DelHilo(h)
      BY <2>1
    <3>2. CASE h \in Tripulantes /\ Tripulante(h)
      BY <3>2, TiposTripulanteAntes, TiposTripulanteTarea, TiposTripulanteFin DEF Tripulante
    <3>. QED
      BY <3>1, <3>2, TiposCambiar, TiposPlanificador, TiposConsola, TiposSabotaje, TiposOrden DEF DelHilo
  <2>2. CASE Reposo
    BY <1>1, <2>2 DEF Reposo
  <2>. QED
    BY <1>2, <2>1, <2>2 DEF Next
<1>. QED
  BY <1>1, <1>2

\* Every variable keeps to its type, a member works on a task there is, and
\* the lists that are read from are not empty, whatever the crews, the console
\* and the sabotages do.
THEOREM TiposSiempre == Spec => []Tipos
BY TiposInicial, TiposPaso, PTL DEF Spec

\* TypeOK of Discordiador.
THEOREM TypeOKSiempre == Spec => []TypeOK
<1>1. ASSUME Tipos PROVE TypeOK
  <2>1. Len(TAREAS) \in Nat
    BY <1>1, DiscordiadorAssumption, LenProperties DEF Tipos, DeUsos, TUsos, TAREAS
  <2>2. ASSUME NEW t \in Tripulantes
        PROVE  /\ trip[t].estado \in Estados \cup {NULL} /\ trip[t].mutex \in Hilos \cup {NULL}
               /\ {trip[t].semaforo, trip[t].pausado, trip[t].sem_destruir} \subseteq Nat
               /\ {trip[t].termino, trip[t].haciendo_io} \subseteq BOOLEAN
               /\ trip[t].x \in Int /\ trip[t].tiempo_en_cpu \in Nat
               /\ trip[t].tarea \in 1 .. Len(TAREAS) + 1 /\ trip[t].tiempo_haciendo_tarea \in Nat
    <3>1. trip[t] \in TTripulante /\ trip[t].tarea <= Len(TAREAS) + 1
      BY <1>1 DEF Tipos, DeTrip, Puestos
    <3>. QED
      BY <2>1, <3>1 DEF TTripulante
  <2>3. sabo.cola_exec \in Seq(Tripulantes) /\ sabo.cola_ready \in Seq(Tripulantes)
    BY <1>1 DEF Tipos, DeSabo, TSabotaje
  <2>4. /\ \A e \in Estados : colas[e] \in Seq(Tripulantes)
        /\ DOMAIN sem = Semaforos /\ \A s \in DOMAIN sem : sem[s] \in Nat
        /\ mutex_pausa \in Ordenes \cup {NULL} /\ colas_tomadas \in BOOLEAN
        /\ {pausa, planificando, emergencia} \subseteq BOOLEAN
        /\ DOMAIN pc = Hilos /\ DOMAIN cambio = Hilos
        /\ \A h \in Hilos : lista[h] \in Seq(Tripulantes)
    BY <1>1 DEF Tipos, DeColas, DeSem, DePausa, DePc, DeCambio, DeLista
  <2>. QED
    BY <2>2, <2>3, <2>4 DEF TypeOK, Semaforos
<1>. QED
  BY <1>1, TiposSiempre, PTL

-------------------------------------------------------------------------------
\* Who has mutex_pausa, and where the unit of sem_planificacion is.
ConPausa == {"nuevos", "caido", "sem_planificacion", "todos", "pausados", "encolado"}
Unidad == sem.sem_planificacion + (IF pc["planificador"] \in {"pasar_uno", "post"} THEN 1 ELSE 0)
Esperando == \E h \in Ordenes : pc[h] = "sem_planificacion"

\* A thread has the mutex where it should and nowhere else; it starts or stops
\* the planner only while there is a pause; and there is one unit while the
\* planner goes on or a pause waits for it, and none in a pause.
PausaBien ==
  /\ \A h \in Ordenes : pc[h] \in ConPausa <=> mutex_pausa = h
  /\ \A h \in Ordenes : pc[h] \in ConPausa \ {"encolado"} => pausa
  /\ Esperando => planificando
  /\ Unidad = IF Esperando \/ (planificando /\ ~pausa) THEN 1 ELSE 0

\* Nothing that PausaBien speaks of changes.
LEMMA PausaQuieta ==
  ASSUME Tipos, PausaBien, UNCHANGED <<mutex_pausa, pausa, planificando>>,
         \A h \in Ordenes \cup {"planificador"} : pc'[h] = pc[h],
         sem'.sem_planificacion = sem.sem_planificacion
  PROVE  PausaBien'
BY DEF PausaBien, Unidad, Esperando

LEMMA PausaMiembros ==
  ASSUME Tipos, PausaBien, NEW t \in Tripulantes, Tripulante(t)
  PROVE  PausaBien'
<1>1. \A h \in Ordenes \cup {"planificador"} : h \in Hilos /\ h # t
  BY NombresAssumption DEF Hilos, Ordenes
<1>2. ASSUME NEW a, NEW b, Ir(t, a, b) PROVE \A h \in Ordenes \cup {"planificador"} : pc'[h] = pc[h]
  BY <1>1, <1>2 DEF Ir, Tipos, DePc
<1>3. ASSUME NEW s \in Semaforos \ {"sem_planificacion"}, Esperar(s) \/ Postear(s)
      PROVE  sem'.sem_planificacion = sem.sem_planificacion
  BY <1>3 DEF Esperar, Postear, Tipos, DeSem, Semaforos
<1>4. CASE PasarPausa(t) \/ EsperarSemaforo(t) \/ Seguir(t) \/ Salir(t) \/ SalirDeReady(t)
  BY <1>2, <1>4, PausaQuieta
     DEF PasarPausa, EsperarSemaforo, Seguir, Salir, SalirDeReady, Avanzar, banderas
<1>5. CASE TomarContador(t) \/ TomarDispositivo(t)
  BY <1>2, <1>3, <1>5, PausaQuieta DEF TomarContador, TomarDispositivo, EsperarYSeguir, banderas, Semaforos
<1>6. CASE HacerTarea(t)
  <2>1. sem'.sem_planificacion = sem.sem_planificacion
    BY <1>3, <1>6 DEF HacerTarea, Semaforos
  <2>. QED
    BY <1>2, <1>6, <2>1, PausaQuieta DEF HacerTarea, banderas
<1>7. CASE DejarCpu(t) \/ PedirIO(t) \/ Moverse(t) \/ Terminar(t)
  BY <1>2, <1>7, PausaQuieta DEF DejarCpu, PedirIO, Moverse, Terminar, banderas
<1>8. CASE TerminoListar(t) \/ FaltaAlguno(t) \/ EstanTodos(t) \/ DestruirTodos(t) \/ Destruirse(t)
  BY <1>2, <1>8, PausaQuieta DEF TerminoListar, FaltaAlguno, EstanTodos, DestruirTodos, Destruirse, Avanzar, banderas
<1>. QED
  BY <1>4, <1>5, <1>6, <1>7, <1>8 DEF Tripulante

LEMMA PausaCambiar ==
  ASSUME Tipos, PausaBien, NEW k \in Hilos, CambiarEstado(k)
  PROVE  PausaBien'
<1>1. UNCHANGED <<mutex_pausa, banderas, pc>>
  BY DEF CambiarEstado, CambiarNada, CambiarTomar, CambiarSacar, CambiarAgregar, SuaveSacar, SuaveAgregar
<1>2. sem'.sem_planificacion = sem.sem_planificacion
  BY DEF CambiarEstado, CambiarNada, CambiarTomar, CambiarSacar, CambiarAgregar, SuaveSacar, SuaveAgregar,
         Postear, Tipos, DeSem, Semaforos
<1>. QED
  BY <1>1, <1>2, PausaQuieta DEF banderas

LEMMA PausaPlanificador ==
  ASSUME Tipos, PausaBien, Planificador
  PROVE  PausaBien'
<1>1. \A h \in Ordenes : h \in Hilos /\ h # "planificador"
  BY DEF Hilos, Ordenes
<1>2. "planificador" \in Hilos
  BY DEF Hilos
<1>3. ASSUME NEW a, NEW b, Ir("planificador", a, b), UNCHANGED <<mutex_pausa, banderas>>, Unidad' = Unidad
      PROVE  PausaBien'
  <2>1. \A h \in Ordenes : pc'[h] = pc[h]
    BY <1>1, <1>3 DEF Ir, Tipos, DePc
  <2>. QED
    BY <1>3, <2>1 DEF PausaBien, Esperando, banderas
<1>4. ASSUME NEW a, NEW b, Ir("planificador", a, b)
      PROVE  pc["planificador"] = a /\ pc'["planificador"] = b
  BY <1>2, <1>4 DEF Ir, En, Tipos, DePc
<1>5. CASE PlanEsperarCpu
  <2>1. Unidad' = Unidad
    BY <1>4, <1>5 DEF PlanEsperarCpu, EsperarYSeguir, Unidad, Esperar, Tipos, DeSem, Semaforos
  <2>. QED
    BY <1>3, <1>5, <2>1 DEF PlanEsperarCpu, EsperarYSeguir
<1>6. CASE PlanEsperarReady
  <2>1. Unidad' = Unidad
    BY <1>4, <1>6 DEF PlanEsperarReady, EsperarYSeguir, Unidad, Esperar, Tipos, DeSem, Semaforos
  <2>. QED
    BY <1>3, <1>6, <2>1 DEF PlanEsperarReady, EsperarYSeguir
<1>7. CASE PlanEsperarPlanificacion
  <2>1. Unidad' = Unidad
    BY <1>4, <1>7 DEF PlanEsperarPlanificacion, EsperarYSeguir, Unidad, Esperar, Tipos, DeSem, Semaforos
  <2>. QED
    BY <1>3, <1>7, <2>1 DEF PlanEsperarPlanificacion, EsperarYSeguir
<1>8. CASE PasarUnoAExec
  <2>1. Unidad' = Unidad
    BY <1>4, <1>8 DEF PasarUnoAExec, Unidad
  <2>. QED
    BY <1>3, <1>8, <2>1 DEF PasarUnoAExec
<1>9. CASE PlanPost
  <2>1. Unidad' = Unidad
    BY <1>4, <1>9 DEF PlanPost, Unidad, Postear, Tipos, DeSem, Semaforos
  <2>. QED
    BY <1>3, <1>9, <2>1 DEF PlanPost
<1>. QED
  BY <1>5, <1>6, <1>7, <1>8, <1>9 DEF Planificador

LEMMA PausaOrdenes ==
  ASSUME Tipos, PausaBien, ~Caido, NEW h \in Ordenes, Orden(h)
  PROVE  PausaBien'
<1>1. /\ h \in Hilos /\ h # "planificador" /\ h # NULL
      /\ \A k \in Ordenes : k \in Hilos /\ k # NULL
      /\ sem.sem_planificacion \in Nat
  BY NombresAssumption DEF Hilos, Ordenes, Tipos, DeSem, Semaforos
<1>2. ASSUME NEW a, NEW b, Ir(h, a, b)
      PROVE  /\ pc[h] = a /\ pc'[h] = b /\ pc'["planificador"] = pc["planificador"]
             /\ \A k \in Ordenes \ {h} : pc'[k] = pc[k]
  BY <1>1, <1>2 DEF Ir, En, Tipos, DePc
<1>3. TrasPausar(h) \notin ConPausa
  BY DEF TrasPausar, ConPausa
\* A step that neither takes nor leaves the mutex.
<1>4. ASSUME NEW a, NEW b, Ir(h, a, b), a \in ConPausa \ {"encolado"} <=> b \in ConPausa,
             b # "encolado", a # "encolado", a # "sem_planificacion", b # "sem_planificacion",
             UNCHANGED <<sem, mutex_pausa, banderas>>
      PROVE  PausaBien'
  <2>1. Unidad' = Unidad /\ Esperando' = Esperando
    BY <1>2, <1>4 DEF Unidad, Esperando
  <2>. QED
    BY <1>2, <1>4, <2>1 DEF PausaBien, banderas
<1>5. CASE IniciarNada(h)
  BY <1>4, <1>5 DEF IniciarNada, Avanzar, ConPausa
<1>6. CASE IniciarContar(h)
  <2>1. Ir(h, "iniciar", "nuevos") /\ mutex_pausa = NULL /\ mutex_pausa' = h /\ pausa /\ UNCHANGED <<sem, banderas>>
    BY <1>6 DEF IniciarContar, TomarPausa
  <2>2. Unidad' = Unidad /\ Esperando' = Esperando
    BY <1>2, <2>1 DEF Unidad, Esperando
  <2>. QED
    BY <1>1, <1>2, <2>1, <2>2 DEF PausaBien, banderas, ConPausa
<1>7. CASE IniciarNuevo(h)
  BY <1>4, <1>7 DEF IniciarNuevo, ConPausa
<1>8. CASE IniciarCaida(h)
  BY <1>4, <1>8 DEF IniciarCaida, Avanzar, ConPausa
<1>9. CASE IniciarReanudar(h)
  <2>1. /\ Ir(h, "nuevos", "esperar") /\ mutex_pausa' = NULL /\ pausa' = FALSE /\ planificando' = TRUE
        /\ sem' = [sem EXCEPT !["sem_planificacion"] = @ + 1]
    BY <1>9 DEF IniciarReanudar, SoltarPausa, Postear
  <2>2. mutex_pausa = h /\ pausa
    BY <1>2, <2>1 DEF PausaBien, ConPausa
  <2>3. ~Esperando
    BY <1>2, <2>1, <2>2 DEF PausaBien, ConPausa, Esperando
  <2>4. Unidad' = Unidad + 1 /\ ~Esperando'
    BY <1>1, <1>2, <2>1, <2>3 DEF Unidad, Esperando, Tipos, DeSem, Semaforos
  <2>. QED
    BY <1>1, <1>2, <2>1, <2>2, <2>3, <2>4 DEF PausaBien, ConPausa
<1>10. CASE PausarNada(h)
  <2>1. TrasPausar(h) # "encolado" /\ TrasPausar(h) # "sem_planificacion"
    BY DEF TrasPausar
  <2>. QED
    BY <1>3, <1>4, <1>10, <2>1 DEF PausarNada, Avanzar, ConPausa
<1>11. CASE PausarTomar(h)
  <2>1. /\ Ir(h, "pausar", "sem_planificacion") /\ mutex_pausa = NULL /\ mutex_pausa' = h
        /\ ~pausa /\ planificando /\ pausa' = TRUE /\ planificando' = planificando /\ sem' = sem
    BY <1>11 DEF PausarTomar, TomarPausa
  <2>2. Unidad' = Unidad /\ Esperando'
    BY <1>2, <2>1 DEF Unidad, Esperando
  <2>. QED
    BY <1>1, <1>2, <2>1, <2>2 DEF PausaBien, ConPausa
<1>12. CASE PausarEsperar(h)
  <2>1. /\ Ir(h, "sem_planificacion", "todos") /\ sem.sem_planificacion > 0
        /\ sem' = [sem EXCEPT !["sem_planificacion"] = @ - 1]
        /\ UNCHANGED <<mutex_pausa, pausa, planificando>>
    BY <1>12 DEF PausarEsperar, EsperarYSeguir, Esperar, banderas
  <2>2. mutex_pausa = h /\ pausa /\ Esperando
    BY <1>2, <2>1 DEF PausaBien, ConPausa, Esperando
  <2>3. ~Esperando'
    BY <1>2, <2>1, <2>2 DEF PausaBien, ConPausa, Esperando
  <2>4. Unidad' = Unidad - 1
    BY <1>1, <1>2, <2>1 DEF Unidad, Tipos, DeSem, Semaforos
  <2>. QED
    BY <1>1, <1>2, <2>1, <2>2, <2>3, <2>4 DEF PausaBien, ConPausa
<1>13. CASE PausarTodos(h)
  BY <1>4, <1>13 DEF PausarTodos, ConPausa
<1>14. CASE PausarUno(h)
  BY <1>4, <1>14 DEF PausarUno, ConPausa
<1>15. CASE PausarFin(h)
  <2>1. /\ Ir(h, "pausados", TrasPausar(h)) /\ mutex_pausa' = NULL /\ UNCHANGED <<sem, pausa, planificando>>
        /\ TrasPausar(h) # "sem_planificacion"
    BY <1>15 DEF PausarFin, SoltarPausa, banderas, TrasPausar
  <2>2. mutex_pausa = h
    BY <1>2, <2>1 DEF PausaBien, ConPausa
  <2>3. Unidad' = Unidad /\ Esperando' = Esperando
    BY <1>2, <2>1 DEF Unidad, Esperando
  <2>. QED
    BY <1>1, <1>2, <1>3, <2>1, <2>2, <2>3 DEF PausaBien
<1>. QED
  BY <1>5, <1>6, <1>7, <1>8, <1>9, <1>10, <1>11, <1>12, <1>13, <1>14, <1>15 DEF Orden

LEMMA PausaConsola ==
  ASSUME Tipos, PausaBien, Consola
  PROVE  PausaBien'
<1>. DEFINE h == "consola"
<1>1. /\ h \in Hilos /\ h \in Ordenes /\ h # "planificador" /\ \A k \in Ordenes : k \in Hilos /\ k # NULL
      /\ "planificador" \notin Tripulantes /\ \A k \in Ordenes : k \notin Tripulantes
  BY NombresAssumption DEF Hilos, Ordenes
<1>2. ASSUME NEW a, NEW b, Ir(h, a, b)
      PROVE  /\ pc[h] = a /\ pc'[h] = b /\ pc'["planificador"] = pc["planificador"]
             /\ \A k \in Ordenes \ {h} : pc'[k] = pc[k]
  BY <1>1, <1>2 DEF Ir, En, Tipos, DePc
<1>3. ASSUME pc[h] \notin ConPausa, pc'[h] \notin ConPausa, pc'["planificador"] = pc["planificador"],
             \A k \in Ordenes \ {h} : pc'[k] = pc[k], UNCHANGED <<sem, mutex_pausa, banderas>>
      PROVE  PausaBien'
  <2>1. Unidad' = Unidad /\ Esperando' = Esperando
    BY <1>3 DEF Unidad, Esperando, ConPausa
  <2>. QED
    BY <1>3, <2>1 DEF PausaBien, banderas
<1>4. CASE PedirIniciar
  BY <1>2, <1>3, <1>4 DEF PedirIniciar, Avanzar, ConPausa
<1>5. CASE PedirPausar
  BY <1>2, <1>3, <1>5 DEF PedirPausar, ConPausa
<1>6. CASE \E p \in Patotas : IniciarPatota(p)
  BY <1>2, <1>3, <1>6 DEF IniciarPatota, ConPausa
<1>7. CASE IniciarTripulante
  <2>. DEFINE t == Head(lista["consola"])
  <2>1. t \in Tripulantes
    BY <1>1, <1>7, HeadTailProperties DEF IniciarTripulante, En, Tipos, Puestos, ConLista, DeLista
  <2>2. pc[h] = "iniciar_tripulante" /\ pc' = [pc EXCEPT ![h] = "encolar", ![t] = "pausado"] /\ UNCHANGED <<sem, mutex_pausa, banderas>>
    BY <1>7 DEF IniciarTripulante, En
  <2>. HIDE DEF t
  <2>3. DOMAIN pc = Hilos /\ "planificador" \in Hilos
    BY DEF Tipos, DePc, Hilos
  <2>4. t # h /\ t # "planificador" /\ \A k \in Ordenes : t # k
    BY <1>1, <2>1
  <2>5. pc'[h] = "encolar"
    BY <1>1, <2>2, <2>3, <2>4
  <2>6. pc'["planificador"] = pc["planificador"]
    BY <1>1, <2>2, <2>3, <2>4
  <2>7. ASSUME NEW k \in Ordenes \ {h}
        PROVE  pc'[k] = pc[k]
    BY <1>1, <2>2, <2>3, <2>4, <2>7
  <2>8. pc[h] \notin ConPausa /\ pc'[h] \notin ConPausa
    BY <2>2, <2>5 DEF ConPausa
  <2>. QED
    BY <1>3, <2>2, <2>6, <2>7, <2>8
<1>8. CASE IniciarEncolar
  <2>1. Ir(h, "encolar", "encolado") /\ mutex_pausa = NULL /\ mutex_pausa' = h /\ UNCHANGED <<sem, pausa, planificando>>
    BY <1>8 DEF IniciarEncolar, TomarPausa, banderas
  <2>2. Unidad' = Unidad /\ Esperando' = Esperando
    BY <1>2, <2>1 DEF Unidad, Esperando
  <2>. QED
    BY <1>1, <1>2, <2>1, <2>2 DEF PausaBien, ConPausa
<1>9. CASE IniciarSiguiente
  <2>. DEFINE b == IF Len(lista["consola"]) = 1 THEN "esperar" ELSE "iniciar_tripulante"
  <2>1. Ir(h, "encolado", b) /\ mutex_pausa' = NULL /\ UNCHANGED <<sem, pausa, planificando>>
    BY <1>9 DEF IniciarSiguiente, SoltarPausa, banderas
  <2>2. b \notin ConPausa
    BY DEF ConPausa
  <2>. HIDE DEF b
  <2>3. Unidad' = Unidad /\ Esperando' = Esperando
    BY <1>2, <2>1, <2>2 DEF Unidad, Esperando, ConPausa
  <2>4. mutex_pausa = h
    BY <1>1, <1>2, <2>1 DEF PausaBien, ConPausa
  <2>. QED
    BY <1>1, <1>2, <2>1, <2>2, <2>3, <2>4 DEF PausaBien
<1>10. CASE \E u \in Tripulantes : ExpulsarTripulante(u)
  BY <1>2, <1>3, <1>10 DEF ExpulsarTripulante, ConPausa
<1>11. CASE ExpulsarMarcar
  BY <1>2, <1>3, <1>11 DEF ExpulsarMarcar, ConPausa
<1>12. CASE ExpulsarDespertar
  BY <1>2, <1>3, <1>12 DEF ExpulsarDespertar, ConPausa
<1>. QED
  BY <1>4, <1>5, <1>6, <1>7, <1>8, <1>9, <1>10, <1>11, <1>12 DEF Consola

LEMMA PausaSabotaje ==
  ASSUME Tipos, PausaBien, Sabotaje
  PROVE  PausaBien'
<1>. DEFINE h == "sabotaje"
<1>1. h \in Hilos /\ h \in Ordenes /\ h # "planificador"
  BY DEF Hilos, Ordenes
<1>2. ASSUME NEW a, NEW b, Ir(h, a, b), a \notin ConPausa, b \notin ConPausa,
             UNCHANGED <<sem, mutex_pausa, pausa, planificando>>
      PROVE  PausaBien'
  <2>1. /\ pc[h] = a /\ pc'[h] = b /\ pc'["planificador"] = pc["planificador"]
        /\ \A k \in Ordenes \ {h} : pc'[k] = pc[k]
    BY <1>1, <1>2 DEF Ir, En, Tipos, DePc
  <2>2. Unidad' = Unidad /\ Esperando' = Esperando
    BY <1>2, <2>1 DEF Unidad, Esperando, ConPausa
  <2>. QED
    BY <1>2, <2>1, <2>2 DEF PausaBien
<1>3. CASE SaboEmpezar
  BY <1>2, <1>3 DEF SaboEmpezar, ConPausa
<1>4. CASE SaboMirarPausa
  <2>1. (IF pausa THEN "listar_exec" ELSE "pausar") \notin ConPausa /\ "mirar_pausa" \notin ConPausa
    BY DEF ConPausa
  <2>. QED
    BY <1>2, <1>4, <2>1 DEF SaboMirarPausa, banderas
<1>5. CASE SaboListar("EXEC", "listar_exec", "listar_ready") \/ SaboListar("READY", "listar_ready", "elegir")
  BY <1>2, <1>5 DEF SaboListar, ConPausa, banderas
<1>6. CASE SaboElegir \/ SaboBloquear \/ SaboBloquearSuave \/ SaboSinNadie \/ SaboResolver
  BY <1>2, <1>6 DEF SaboElegir, SaboBloquear, SaboBloquearSuave, SaboSinNadie, SaboResolver, Avanzar, ConPausa, banderas
<1>7. CASE SaboMover \/ SaboLlegar \/ SaboGuardar \/ SaboDevolver
  BY <1>2, <1>7 DEF SaboMover, SaboLlegar, SaboGuardar, SaboDevolver, ConPausa, banderas
<1>8. CASE SaboFin
  <2>1. (IF sabo.estaba_pausado THEN "esperar" ELSE "iniciar") \notin ConPausa /\ "devolver" \notin ConPausa
    BY DEF ConPausa
  <2>. QED
    BY <1>2, <1>8, <2>1 DEF SaboFin
<1>. QED
  BY <1>3, <1>4, <1>5, <1>6, <1>7, <1>8 DEF Sabotaje

LEMMA PausaInicial ==
  ASSUME Init
  PROVE  PausaBien
<1>1. \A h \in Ordenes : pc[h] = "esperar" /\ h # NULL
  BY NombresAssumption DEF Init, Hilos, Ordenes
<1>2. sem.sem_planificacion = 0 /\ mutex_pausa = NULL /\ ~planificando
  BY DEF Init
<1>3. pc["planificador"] = "cpus_libres"
  <2>1. "planificador" \in Hilos /\ "planificador" \notin Ordenes
    BY DEF Hilos, Ordenes
  <2>. QED
    BY <2>1 DEF Init
<1>4. ~Esperando /\ \A h \in Ordenes : pc[h] \notin ConPausa
  BY <1>1 DEF Esperando, ConPausa
<1>5. Unidad = 0
  BY <1>2, <1>3 DEF Unidad
<1>. QED
  BY <1>1, <1>2, <1>4, <1>5 DEF PausaBien

LEMMA PausaPaso ==
  ASSUME Tipos, PausaBien, [Next]_vars
  PROVE  PausaBien'
<1>1. CASE UNCHANGED vars
  BY <1>1, PausaQuieta DEF vars, banderas
<1>2. CASE Next
  <2>1. CASE ~Caido /\ \E h \in Hilos : DelHilo(h)
    BY <2>1, PausaMiembros, PausaCambiar, PausaPlanificador, PausaOrdenes, PausaConsola, PausaSabotaje
       DEF DelHilo
  <2>2. CASE Reposo
    BY <1>1, <2>2 DEF Reposo
  <2>. QED
    BY <1>2, <2>1, <2>2 DEF Next
<1>. QED
  BY <1>1, <1>2

LEMMA PausaSiempre == Spec => []PausaBien
<1>1. Init => PausaBien
  BY PausaInicial
<1>2. Tipos /\ PausaBien /\ [Next]_vars => PausaBien'
  BY PausaPaso
<1>. QED
  BY <1>1, <1>2, TiposSiempre, PTL DEF Spec

\* While paused the planner passes nobody to EXEC: it has no unit of
\* sem_planificacion from when a pause has taken it until the planning is
\* resumed, and one otherwise, however pauses, sabotages and new members
\* interleave.
THEOREM PlanificacionPausadaSiempre == Spec => []PlanificacionPausada
<1>1. ASSUME Tipos, PausaBien PROVE PlanificacionPausada
  <2>1. \A h \in Ordenes : h # NULL
    BY NombresAssumption DEF Hilos, Ordenes
  <2>2. mutex_pausa = NULL => ~Esperando
    BY <1>1, <2>1 DEF PausaBien, Esperando, ConPausa
  <2>. QED
    BY <1>1, <2>2 DEF PausaBien, PlanificacionPausada, Unidad
<1>. QED
  BY <1>1, TiposSiempre, PausaSiempre, PTL

-------------------------------------------------------------------------------
\* What a thread may do out of cambiar_estado.
DeEstado == {"tomar", "sacar", "agregar"}

\* The call it begins: a member's on itself, the planner's and the orders' on
\* somebody of a queue, the console's on who it has just started, and the
\* sabotage's, which is the soft one.
Llamada(h) ==
  LET c == cambio'[h] IN
    \/ /\ h \in Tripulantes /\ pc[h] # "sin_crear"
       /\ c.paso = "tomar" /\ c.t = h /\ c.nuevo \in {"READY", "BLOCKED", "EXIT"}
    \/ /\ h = "planificador" /\ pc'[h] = "post"
       /\ c.paso = "tomar" /\ Contains(colas["READY"], c.t) /\ c.nuevo = "EXEC"
    \/ /\ h \in Ordenes /\ IniciarNuevo(h) /\ pc'[h] = "nuevos"
       /\ c.paso = "tomar" /\ c.t = Head(colas["NEW"]) /\ c.nuevo = "READY"
    \/ /\ h = "consola" /\ IniciarEncolar /\ pc[h] = "encolar" /\ pc'[h] = "encolado"
       /\ c.paso = "tomar" /\ c.t = Head(lista[h])
       /\ c.nuevo \in {"NEW", "READY"} /\ (c.nuevo = "NEW" => pausa)
    \/ /\ h = "sabotaje" /\ (SaboBloquearSuave \/ SaboResolver \/ SaboLlegar \/ SaboDevolver)
       /\ c.paso = "suave_sacar" /\ c.nuevo # "NEW"

\* Besides that it moves on, and changes of the state of a member, of its mutex,
\* of the CPUs and of the device what the actions named say.
Huella(h) ==
  /\ cambio[h] = NULL
  /\ \A k \in Hilos \ {h} : cambio'[k] = cambio[k] /\ pc'[k] = pc[k]
  /\ cambio'[h] # NULL => Llamada(h)
  /\ \/ colas' = colas
     \/ h \in Tripulantes /\ DestruirTodos(h)
  /\ \A t \in Tripulantes :
       /\ trip'[t].estado = trip[t].estado
       /\ \/ trip'[t].mutex = trip[t].mutex
          \/ t = h /\ (SalirDeReady(h) \/ TomarContador(h))
       /\ \/ trip'[t].haciendo_io = trip[t].haciendo_io
          \/ t = h /\ (PedirIO(h) \/ HacerTarea(h))
  /\ \/ sem'.cpus_libres = sem.cpus_libres
     \/ h = "planificador" /\ PlanEsperarCpu
  /\ \/ sem'.dispositivos_io = sem.dispositivos_io
     \/ h \in Tripulantes /\ (TomarDispositivo(h) \/ HacerTarea(h))
  /\ h \in Tripulantes =>
       /\ pc[h] # "sin_crear"
       /\ pc'[h] = "contador_ready" => SalirDeReady(h)
       /\ pc'[h] = "dispositivos_io" => PedirIO(h)

\* The fields of a member that no action but those named touches.
Campos == /\ DOMAIN trip' = Tripulantes
          /\ \A t \in Tripulantes : /\ trip'[t].estado = trip[t].estado
                                    /\ trip'[t].mutex = trip[t].mutex
                                    /\ trip'[t].haciendo_io = trip[t].haciendo_io

\* A step that touches nothing but its own point.
LEMMA HuellaQuieta ==
  ASSUME Tipos, NEW h \in Hilos, NEW a, NEW b, Ir(h, a, b), UNCHANGED <<colas, cambio>>,
         Campos, sem'.cpus_libres = sem.cpus_libres, sem'.dispositivos_io = sem.dispositivos_io,
         h \in Tripulantes => a # "sin_crear" /\ b \notin {"contador_ready", "dispositivos_io"}
  PROVE  Huella(h)
<1>1. cambio[h] = NULL /\ pc[h] = a /\ pc'[h] = b /\ \A k \in Hilos \ {h} : pc'[k] = pc[k]
  BY DEF Ir, En, Tipos, DePc
<1>. QED
  BY <1>1 DEF Huella, Campos

\* One that begins a call.
LEMMA HuellaLlamada ==
  ASSUME Tipos, NEW h \in Hilos, NEW a, NEW b, Ir(h, a, b), UNCHANGED colas,
         \A k \in Hilos \ {h} : cambio'[k] = cambio[k], Llamada(h),
         Campos, sem'.cpus_libres = sem.cpus_libres, sem'.dispositivos_io = sem.dispositivos_io,
         h \in Tripulantes => a # "sin_crear" /\ b \notin {"contador_ready", "dispositivos_io"}
  PROVE  Huella(h)
<1>1. cambio[h] = NULL /\ pc[h] = a /\ pc'[h] = b /\ \A k \in Hilos \ {h} : pc'[k] = pc[k]
  BY DEF Ir, En, Tipos, DePc
<1>. QED
  BY <1>1 DEF Huella, Campos

LEMMA CambiarDe ==
  ASSUME DeCambio, NEW h \in Hilos, NEW t, NEW e, Cambiar(h, t, e)
  PROVE  /\ \A k \in Hilos \ {h} : cambio'[k] = cambio[k]
         /\ cambio'[h].t = t /\ cambio'[h].nuevo = e /\ cambio'[h].paso = "tomar"
BY DEF DeCambio, Cambiar

LEMMA CambiarSuaveDe ==
  ASSUME DeCambio, NEW h \in Hilos, NEW t, NEW v, NEW e, CambiarSuave(h, t, v, e)
  PROVE  /\ \A k \in Hilos \ {h} : cambio'[k] = cambio[k]
         /\ cambio'[h].t = t /\ cambio'[h].viejo = v /\ cambio'[h].nuevo = e
         /\ cambio'[h].paso = "suave_sacar"
BY DEF DeCambio, CambiarSuave

\* The thread of a member.
LEMMA HuellaTripulante ==
  ASSUME Tipos, NEW t \in Tripulantes, Tripulante(t)
  PROVE  Huella(t)
<1>1. t \in Hilos /\ DeCambio /\ DeSem /\ DeTrip /\ trip[t] \in TTripulante /\ t # "planificador"
  BY NombresAssumption DEF Hilos, Tipos, DeTrip
<1>2. UNCHANGED trip => Campos
  BY <1>1 DEF Campos, DeTrip
<1>3. UNCHANGED sem => sem'.cpus_libres = sem.cpus_libres /\ sem'.dispositivos_io = sem.dispositivos_io
  OBVIOUS
<1>4. UNCHANGED colasVars => UNCHANGED colas
  BY DEF colasVars
<1>5. ASSUME NEW a, NEW b, Ir(t, a, b)
      PROVE  /\ cambio[t] = NULL /\ pc[t] = a /\ pc'[t] = b
             /\ \A k \in Hilos \ {t} : pc'[k] = pc[k]
  BY <1>1, <1>5 DEF Ir, En, Tipos, DePc
<1>6. ASSUME NEW a, NEW b, Ir(t, a, b), a # "sin_crear", NEW e \in {"READY", "BLOCKED", "EXIT"}, Cambiar(t, t, e)
      PROVE  /\ \A k \in Hilos \ {t} : cambio'[k] = cambio[k]
             /\ Llamada(t)
  BY <1>1, <1>5, <1>6, CambiarDe DEF Llamada
<1>7. CASE PasarPausa(t) \/ Seguir(t) \/ EstanTodos(t) \/ Destruirse(t)
  BY <1>1, <1>2, <1>3, <1>4, <1>7, HuellaQuieta DEF PasarPausa, Seguir, EstanTodos, Destruirse, Avanzar
<1>8. CASE TerminoListar(t) \/ FaltaAlguno(t)
  BY <1>1, <1>2, <1>3, <1>4, <1>8, HuellaQuieta DEF TerminoListar, FaltaAlguno
<1>9. CASE EsperarSemaforo(t)
  <2>1. Campos
    BY <1>1, <1>9 DEF EsperarSemaforo, Campos, DeTrip, TTripulante
  <2>. QED
    BY <1>1, <1>3, <1>4, <1>9, <2>1, HuellaQuieta DEF EsperarSemaforo
<1>10. CASE Moverse(t)
  <2>. DEFINE a == Hacia(trip[t].x, Tarea(t).x)
              b == trip[t].tiempo_en_cpu + 1
              c == trip[t].semaforo + 1
  <2>1. trip' = [trip EXCEPT ![t] = [trip[t] EXCEPT !.x = a, !.tiempo_en_cpu = b, !.semaforo = c]]
    BY <1>10 DEF Moverse
  <2>. HIDE DEF a, b, c
  <2>2. Campos
    BY <1>1, <2>1 DEF Campos, DeTrip, TTripulante
  <2>. QED
    BY <1>1, <1>3, <1>4, <1>10, <2>2, HuellaQuieta DEF Moverse
<1>11. CASE Salir(t)
  BY <1>1, <1>2, <1>3, <1>4, <1>6, <1>11, HuellaLlamada DEF Salir
<1>12. CASE Terminar(t)
  BY <1>1, <1>2, <1>3, <1>4, <1>6, <1>12, HuellaLlamada DEF Terminar
<1>13. CASE DejarCpu(t)
  <2>1. Campos
    BY <1>1, <1>13 DEF DejarCpu, Campos, DeTrip, TTripulante
  <2>. QED
    BY <1>1, <1>3, <1>4, <1>6, <1>13, <2>1, HuellaLlamada DEF DejarCpu
<1>14. CASE SalirDeReady(t)
  <2>1. \A u \in Tripulantes : /\ trip'[u].estado = trip[u].estado
                               /\ trip'[u].haciendo_io = trip[u].haciendo_io
                               /\ u # t => trip'[u].mutex = trip[u].mutex
    BY <1>1, <1>14 DEF SalirDeReady, DeTrip, TTripulante
  <2>2. /\ Ir(t, "mutex", "contador_ready") /\ UNCHANGED <<colas, sem, cambio>>
    BY <1>14 DEF SalirDeReady, colasVars
  <2>. QED
    BY <1>1, <1>5, <1>14, <2>1, <2>2 DEF Huella
<1>15. CASE TomarContador(t)
  <2>1. \A u \in Tripulantes : /\ trip'[u].estado = trip[u].estado
                               /\ trip'[u].haciendo_io = trip[u].haciendo_io
                               /\ u # t => trip'[u].mutex = trip[u].mutex
    BY <1>1, <1>15 DEF TomarContador, DeTrip, TTripulante
  <2>2. Ir(t, "contador_ready", "termino") /\ UNCHANGED colas /\ Cambiar(t, t, "EXIT")
    BY <1>15 DEF TomarContador, colasVars
  <2>3. sem'.cpus_libres = sem.cpus_libres /\ sem'.dispositivos_io = sem.dispositivos_io
    BY <1>1, <1>15 DEF TomarContador, Esperar, DeSem, Semaforos
  <2>. QED
    BY <1>1, <1>5, <1>6, <1>15, <2>1, <2>2, <2>3 DEF Huella
<1>16. CASE PedirIO(t)
  <2>1. \A u \in Tripulantes : /\ trip'[u].estado = trip[u].estado
                               /\ trip'[u].mutex = trip[u].mutex
                               /\ u # t => trip'[u].haciendo_io = trip[u].haciendo_io
    BY <1>1, <1>16 DEF PedirIO, DeTrip, TTripulante
  <2>2. Ir(t, "decidir", "dispositivos_io") /\ UNCHANGED <<colas, sem>> /\ Cambiar(t, t, "BLOCKED")
    BY <1>16 DEF PedirIO, colasVars
  <2>. QED
    BY <1>1, <1>5, <1>6, <1>16, <2>1, <2>2 DEF Huella
<1>17. CASE TomarDispositivo(t)
  <2>1. Ir(t, "dispositivos_io", "pausado") /\ UNCHANGED <<colas, trip, cambio>>
    BY <1>17 DEF TomarDispositivo, EsperarYSeguir, colasVars
  <2>2. sem'.cpus_libres = sem.cpus_libres
    BY <1>1, <1>17 DEF TomarDispositivo, EsperarYSeguir, Esperar, DeSem, Semaforos
  <2>. QED
    BY <1>1, <1>5, <1>17, <2>1, <2>2 DEF Huella
<1>18. CASE HacerTarea(t)
  <2>. DEFINE io == trip[t].haciendo_io
              ultima == Ultima(t)
              a == IF io /\ ultima THEN trip[t].semaforo ELSE trip[t].semaforo + 1
              b == IF io THEN trip[t].tiempo_en_cpu ELSE trip[t].tiempo_en_cpu + 1
              c == IF ultima THEN 0 ELSE trip[t].tiempo_haciendo_tarea + 1
              d == IF ultima THEN trip[t].tarea + 1 ELSE trip[t].tarea
              f == SigueEnIO(t)
              ex == IF trip[t].tarea + 1 > Len(TAREAS) THEN "EXIT" ELSE "READY"
  <2>1. trip' = [trip EXCEPT ![t] = [trip[t] EXCEPT !.semaforo = a, !.tiempo_en_cpu = b,
                   !.tiempo_haciendo_tarea = c, !.tarea = d, !.haciendo_io = f]]
    BY <1>18 DEF HacerTarea
  <2>2. Ir(t, "decidir", "pausado") /\ UNCHANGED colas
    BY <1>18 DEF HacerTarea, colasVars
  <2>3. \/ Postear("dispositivos_io") /\ Cambiar(t, t, ex)
        \/ UNCHANGED <<sem, cambio>>
    BY <1>18 DEF HacerTarea
  <2>4. ex \in {"READY", "BLOCKED", "EXIT"}
    OBVIOUS
  <2>. HIDE DEF a, b, c, d, f, ex
  <2>5. \A u \in Tripulantes : /\ trip'[u].estado = trip[u].estado
                               /\ trip'[u].mutex = trip[u].mutex
                               /\ u # t => trip'[u].haciendo_io = trip[u].haciendo_io
    BY <1>1, <2>1 DEF DeTrip, TTripulante
  <2>6. sem'.cpus_libres = sem.cpus_libres
    BY <1>1, <2>3 DEF Postear, DeSem, Semaforos
  <2>7. /\ \A k \in Hilos \ {t} : cambio'[k] = cambio[k]
        /\ cambio'[t] # NULL => Llamada(t)
    BY <1>5, <1>6, <2>2, <2>3, <2>4
  <2>. QED
    BY <1>1, <1>5, <1>18, <2>2, <2>5, <2>6, <2>7 DEF Huella
<1>19. CASE DestruirTodos(t)
  <2>1. \A u \in Tripulantes : /\ trip'[u].estado = trip[u].estado
                               /\ trip'[u].mutex = trip[u].mutex
                               /\ trip'[u].haciendo_io = trip[u].haciendo_io
    <3>1. trip' = [u \in Tripulantes |-> IF u \in Avisados(t) THEN [trip[u] EXCEPT !.sem_destruir = @ + 1] ELSE trip[u]]
      BY <1>19 DEF DestruirTodos
    <3>2. \A u \in Tripulantes : trip[u] \in TTripulante
      BY <1>1 DEF DeTrip
    <3>. QED
      BY <3>1, <3>2 DEF TTripulante
  <2>2. Ir(t, "destruir", "sem_destruir") /\ UNCHANGED <<sem, cambio>>
    BY <1>19 DEF DestruirTodos
  <2>. QED
    BY <1>1, <1>5, <1>19, <2>1, <2>2 DEF Huella
<1>. QED
  BY <1>7, <1>8, <1>9, <1>10, <1>11, <1>12, <1>13, <1>14, <1>15, <1>16, <1>17, <1>18, <1>19 DEF Tripulante

LEMMA HuellaPlanificador ==
  ASSUME Tipos, Planificador
  PROVE  Huella("planificador")
<1>. DEFINE p == "planificador"
<1>1. p \in Hilos /\ p \notin Tripulantes /\ DeCambio /\ DeSem /\ DeTrip
  BY NombresAssumption DEF Hilos, Tipos
<1>2. UNCHANGED trip => Campos
  BY <1>1 DEF Campos, DeTrip
<1>3. UNCHANGED colasVars => UNCHANGED colas
  BY DEF colasVars
<1>4. CASE PlanEsperarCpu
  <2>1. Ir(p, "cpus_libres", "contador_ready") /\ UNCHANGED <<colas, trip, cambio>>
    BY <1>3, <1>4 DEF PlanEsperarCpu, EsperarYSeguir
  <2>2. sem'.dispositivos_io = sem.dispositivos_io
    BY <1>1, <1>4 DEF PlanEsperarCpu, EsperarYSeguir, Esperar, DeSem, Semaforos
  <2>3. cambio[p] = NULL /\ \A k \in Hilos \ {p} : pc'[k] = pc[k]
    BY <1>1, <2>1 DEF Ir, En, Tipos, DePc
  <2>. QED
    BY <1>1, <1>4, <2>1, <2>2, <2>3 DEF Huella
<1>5. CASE PlanEsperarReady \/ PlanEsperarPlanificacion
  <2>1. sem'.cpus_libres = sem.cpus_libres /\ sem'.dispositivos_io = sem.dispositivos_io
    BY <1>1, <1>5 DEF PlanEsperarReady, PlanEsperarPlanificacion, EsperarYSeguir, Esperar, DeSem, Semaforos
  <2>. QED
    BY <1>1, <1>2, <1>3, <1>5, <2>1, HuellaQuieta DEF PlanEsperarReady, PlanEsperarPlanificacion, EsperarYSeguir
<1>6. CASE PasarUnoAExec
  <2>1. Ir(p, "pasar_uno", "post") /\ UNCHANGED <<colas, sem, trip>>
    BY <1>3, <1>6 DEF PasarUnoAExec
  <2>2. CASE colas["READY"] = <<>>
    BY <1>1, <1>2, <1>6, <2>1, <2>2, HuellaQuieta DEF PasarUnoAExec
  <2>3. CASE colas["READY"] # <<>>
    <3>1. Cambiar(p, Head(colas["READY"]), "EXEC")
      BY <1>6, <2>3 DEF PasarUnoAExec
    <3>2. Contains(colas["READY"], Head(colas["READY"]))
      <4>1. colas["READY"] \in Seq(Tripulantes)
        BY DEF Tipos, DeColas, Estados
      <4>. QED
        BY <2>3, <4>1, CabezaDe
    <3>3. pc'[p] = "post"
      BY <1>1, <2>1 DEF Ir, Tipos, DePc
    <3>4. \A k \in Hilos \ {p} : cambio'[k] = cambio[k]
      BY <1>1, <3>1, CambiarDe
    <3>5. Llamada(p)
      BY <1>1, <3>1, <3>2, <3>3, CambiarDe DEF Llamada
    <3>. QED
      BY <1>1, <1>2, <2>1, <3>4, <3>5, HuellaLlamada
  <2>. QED
    BY <2>2, <2>3
<1>7. CASE PlanPost
  <2>1. sem'.cpus_libres = sem.cpus_libres /\ sem'.dispositivos_io = sem.dispositivos_io
    BY <1>1, <1>7 DEF PlanPost, Postear, DeSem, Semaforos
  <2>. QED
    BY <1>1, <1>2, <1>3, <1>7, <2>1, HuellaQuieta DEF PlanPost
<1>. QED
  BY <1>4, <1>5, <1>6, <1>7 DEF Planificador

LEMMA HuellaOrden ==
  ASSUME Tipos, NEW h \in Ordenes, Orden(h)
  PROVE  Huella(h)
<1>1. h \in Hilos /\ h \notin Tripulantes /\ DeCambio /\ DeSem /\ DeTrip /\ h # "planificador"
  BY NombresAssumption DEF Hilos, Ordenes, Tipos
<1>2. UNCHANGED trip => Campos
  BY <1>1 DEF Campos, DeTrip
<1>3. UNCHANGED colasVars => UNCHANGED colas
  BY DEF colasVars
<1>4. CASE IniciarNada(h) \/ IniciarCaida(h) \/ PausarNada(h)
  BY <1>1, <1>2, <1>3, <1>4, HuellaQuieta DEF IniciarNada, IniciarCaida, PausarNada, Avanzar
<1>5. CASE IniciarContar(h) \/ PausarTomar(h) \/ PausarTodos(h) \/ PausarFin(h)
  BY <1>1, <1>2, <1>3, <1>5, HuellaQuieta DEF IniciarContar, PausarTomar, PausarTodos, PausarFin
<1>6. CASE PausarEsperar(h)
  <2>1. sem'.cpus_libres = sem.cpus_libres /\ sem'.dispositivos_io = sem.dispositivos_io
    BY <1>1, <1>6 DEF PausarEsperar, EsperarYSeguir, Esperar, DeSem, Semaforos
  <2>. QED
    BY <1>1, <1>2, <1>3, <1>6, <2>1, HuellaQuieta DEF PausarEsperar, EsperarYSeguir
<1>7. CASE IniciarReanudar(h)
  <2>1. sem'.cpus_libres = sem.cpus_libres /\ sem'.dispositivos_io = sem.dispositivos_io
    BY <1>1, <1>7 DEF IniciarReanudar, Postear, DeSem, Semaforos
  <2>2. Campos
    <3>1. CASE planificando
      <4>1. trip' = [t \in Tripulantes |-> [trip[t] EXCEPT !.pausado = @ + Veces(t)]]
        BY <1>7, <3>1 DEF IniciarReanudar
      <4>2. \A t \in Tripulantes : trip[t] \in TTripulante
        BY <1>1 DEF DeTrip
      <4>. QED
        BY <4>1, <4>2 DEF Campos, TTripulante
    <3>2. CASE ~planificando
      BY <1>2, <1>7, <3>2 DEF IniciarReanudar
    <3>. QED
      BY <3>1, <3>2
  <2>. QED
    BY <1>1, <1>3, <1>7, <2>1, <2>2, HuellaQuieta DEF IniciarReanudar
<1>8. CASE PausarUno(h)
  <2>. DEFINE t == Head(lista[h])
  <2>1. trip' = [trip EXCEPT ![t].pausado = @ - 1]
    BY <1>8 DEF PausarUno
  <2>. HIDE DEF t
  <2>2. Campos
    BY <1>1, <2>1 DEF Campos, DeTrip, TTripulante
  <2>. QED
    BY <1>1, <1>3, <1>8, <2>2, HuellaQuieta DEF PausarUno
<1>9. CASE IniciarNuevo(h)
  <2>1. Ir(h, "nuevos", "nuevos") /\ UNCHANGED <<colas, sem, trip>> /\ Cambiar(h, Head(colas["NEW"]), "READY")
    BY <1>3, <1>9 DEF IniciarNuevo
  <2>2. pc'[h] = "nuevos"
    BY <1>1, <2>1 DEF Ir, Tipos, DePc
  <2>3. \A k \in Hilos \ {h} : cambio'[k] = cambio[k]
    BY <1>1, <2>1, CambiarDe
  <2>4. Llamada(h)
    BY <1>1, <1>9, <2>1, <2>2, CambiarDe DEF Llamada
  <2>. QED
    BY <1>1, <1>2, <2>1, <2>3, <2>4, HuellaLlamada
<1>. QED
  BY <1>4, <1>5, <1>6, <1>7, <1>8, <1>9 DEF Orden

\* The console, but for the start of a member's thread.
LEMMA HuellaConsola ==
  ASSUME Tipos, Consola, ~IniciarTripulante
  PROVE  Huella("consola")
<1>. DEFINE h == "consola"
<1>1. h \in Hilos /\ h \notin Tripulantes /\ DeCambio /\ DeSem /\ DeTrip
  BY NombresAssumption DEF Hilos, Tipos
<1>2. UNCHANGED trip => Campos
  BY <1>1 DEF Campos, DeTrip
<1>3. UNCHANGED colasVars => UNCHANGED colas
  BY DEF colasVars
<1>4. CASE PedirIniciar \/ PedirPausar \/ IniciarSiguiente
  BY <1>1, <1>2, <1>3, <1>4, HuellaQuieta DEF PedirIniciar, PedirPausar, IniciarSiguiente, Avanzar
<1>5. CASE (\E p \in Patotas : IniciarPatota(p)) \/ (\E t \in Tripulantes : ExpulsarTripulante(t))
  BY <1>1, <1>2, <1>3, <1>5, HuellaQuieta DEF IniciarPatota, ExpulsarTripulante
<1>6. CASE ExpulsarMarcar
  <2>. DEFINE t == Head(lista["consola"])
  <2>1. trip' = [trip EXCEPT ![t].termino = TRUE]
    BY <1>6 DEF ExpulsarMarcar
  <2>. HIDE DEF t
  <2>2. Campos
    BY <1>1, <2>1 DEF Campos, DeTrip, TTripulante
  <2>. QED
    BY <1>1, <1>3, <1>6, <2>2, HuellaQuieta DEF ExpulsarMarcar
<1>7. CASE ExpulsarDespertar
  <2>. DEFINE t == Head(lista["consola"])
              a == IF pausa THEN trip[t].pausado + 1 ELSE trip[t].pausado
  <2>1. trip' = [trip EXCEPT ![t].semaforo = trip[t].semaforo + 1, ![t].pausado = a]
    BY <1>7 DEF ExpulsarDespertar
  <2>. HIDE DEF t, a
  <2>2. Campos
    BY <1>1, <2>1 DEF Campos, DeTrip, TTripulante
  <2>. QED
    BY <1>1, <1>3, <1>7, <2>2, HuellaQuieta DEF ExpulsarDespertar
<1>8. CASE IniciarEncolar
  <2>. DEFINE e == IF pausa THEN "NEW" ELSE "READY"
              t == Head(lista["consola"])
  <2>1. Ir(h, "encolar", "encolado") /\ UNCHANGED <<colas, sem, trip>> /\ Cambiar(h, t, e)
    BY <1>3, <1>8 DEF IniciarEncolar
  <2>2. e \in {"NEW", "READY"} /\ (e = "NEW" => pausa)
    OBVIOUS
  <2>3. pc[h] = "encolar" /\ pc'[h] = "encolado"
    BY <1>1, <2>1 DEF Ir, En, Tipos, DePc
  <2>. HIDE DEF e
  <2>4. \A k \in Hilos \ {h} : cambio'[k] = cambio[k]
    BY <1>1, <2>1, CambiarDe
  <2>5. Llamada(h)
    BY <1>1, <1>8, <2>1, <2>2, <2>3, CambiarDe DEF Llamada
  <2>. QED
    BY <1>1, <1>2, <2>1, <2>4, <2>5, HuellaLlamada
<1>. QED
  BY <1>4, <1>5, <1>6, <1>7, <1>8 DEF Consola

LEMMA HuellaSabotaje ==
  ASSUME Tipos, Sabotaje
  PROVE  Huella("sabotaje")
<1>. DEFINE h == "sabotaje"
<1>1. h \in Hilos /\ h \notin Tripulantes /\ DeCambio /\ DeSem /\ DeTrip
  BY NombresAssumption DEF Hilos, Tipos
<1>2. UNCHANGED trip => Campos
  BY <1>1 DEF Campos, DeTrip
<1>3. UNCHANGED colasVars => UNCHANGED colas
  BY DEF colasVars
<1>4. CASE SaboEmpezar \/ SaboMirarPausa
  BY <1>1, <1>2, <1>3, <1>4, HuellaQuieta DEF SaboEmpezar, SaboMirarPausa
<1>5. CASE SaboListar("EXEC", "listar_exec", "listar_ready") \/ SaboListar("READY", "listar_ready", "elegir")
  BY <1>1, <1>2, <1>3, <1>5, HuellaQuieta DEF SaboListar
<1>6. CASE SaboElegir \/ SaboBloquear \/ SaboSinNadie \/ SaboGuardar \/ SaboFin
  BY <1>1, <1>2, <1>3, <1>6, HuellaQuieta DEF SaboElegir, SaboBloquear, SaboSinNadie, SaboGuardar, SaboFin, Avanzar
<1>7. CASE SaboMover
  <2>. DEFINE t == sabo.elegido
              a == Hacia(trip[t].x, sabo.x)
  <2>1. trip' = [trip EXCEPT ![t].x = a]
    BY <1>7 DEF SaboMover
  <2>. HIDE DEF t, a
  <2>2. Campos
    BY <1>1, <2>1 DEF Campos, DeTrip, TTripulante
  <2>. QED
    BY <1>1, <1>3, <1>7, <2>2, HuellaQuieta DEF SaboMover
<1>8. ASSUME NEW a, NEW b, Ir(h, a, b), UNCHANGED <<colas, sem, trip>>, NEW t, NEW v, NEW e,
             CambiarSuave(h, t, v, e), e # "NEW", SaboBloquearSuave \/ SaboResolver \/ SaboLlegar \/ SaboDevolver
      PROVE  Huella(h)
  <2>1. /\ \A k \in Hilos \ {h} : cambio'[k] = cambio[k]
        /\ cambio'[h].paso = "suave_sacar" /\ cambio'[h].nuevo = e
    BY <1>1, <1>8, CambiarSuaveDe
  <2>2. Llamada(h)
    BY <1>8, <2>1 DEF Llamada
  <2>. QED
    BY <1>1, <1>2, <1>8, <2>1, <2>2, HuellaLlamada
<1>9. CASE SaboBloquearSuave
  <2>. DEFINE t == Head(lista["sabotaje"])
              v == trip[t].estado
  <2>1. Ir(h, "bloquear_suave", "bloquear") /\ UNCHANGED <<colas, sem, trip>> /\ CambiarSuave(h, t, v, "BLOCKED")
    BY <1>3, <1>9 DEF SaboBloquearSuave
  <2>. HIDE DEF t, v
  <2>. QED
    BY <1>8, <1>9, <2>1
<1>10. CASE SaboResolver
  <2>1. Ir(h, "bloquear", "mover") /\ UNCHANGED <<colas, sem, trip>>
    BY <1>3, <1>10 DEF SaboResolver
  <2>2. CambiarSuave(h, sabo.elegido, "READY", "EXEC") \/ UNCHANGED cambio
    BY <1>10 DEF SaboResolver
  <2>. QED
    BY <1>1, <1>2, <1>8, <1>10, <2>1, <2>2, HuellaQuieta
<1>11. CASE SaboLlegar
  <2>. DEFINE t == sabo.elegido
  <2>1. Ir(h, "mover", "guardar") /\ UNCHANGED <<colas, sem, trip>> /\ CambiarSuave(h, t, "EXEC", "BLOCKED")
    BY <1>3, <1>11 DEF SaboLlegar
  <2>. HIDE DEF t
  <2>. QED
    BY <1>8, <1>11, <2>1
<1>12. CASE SaboDevolver
  <2>. DEFINE exec == sabo.cola_exec # <<>>
              cola == IF exec THEN "cola_exec" ELSE "cola_ready"
              e == IF exec THEN "EXEC" ELSE "READY"
              t == Head(sabo[cola])
  <2>1. Ir(h, "devolver", "devolver") /\ UNCHANGED <<colas, sem, trip>> /\ CambiarSuave(h, t, "BLOCKED", e)
    BY <1>3, <1>12 DEF SaboDevolver
  <2>2. e # "NEW"
    OBVIOUS
  <2>. HIDE DEF t, e
  <2>. QED
    BY <1>8, <1>12, <2>1, <2>2
<1>. QED
  BY <1>4, <1>5, <1>6, <1>7, <1>9, <1>10, <1>11, <1>12 DEF Sabotaje

\* So a step is the start of a member's thread, one in cambiar_estado, or one
\* that leaves the footprint of its thread.
LEMMA HuellaDelPaso ==
  ASSUME Tipos, NEW h \in Hilos, DelHilo(h)
  PROVE  CambiarEstado(h) \/ IniciarTripulante \/ Huella(h)
BY HuellaTripulante, HuellaPlanificador, HuellaOrden, HuellaConsola, HuellaSabotaje DEF DelHilo

-------------------------------------------------------------------------------
\* Who is in cambiar_estado, and what for: the console and the orders are there
\* as long as they are at a point, the planner only to pass somebody to EXEC.
LlamadaBien(h) ==
  LET c == cambio[h] IN
  c # NULL =>
    \/ h \in Tripulantes /\ c.paso \in DeEstado /\ c.t = h /\ c.nuevo \in {"READY", "BLOCKED", "EXIT"}
    \/ h = "planificador" /\ c.paso \in DeEstado /\ pc[h] = "post" /\ c.nuevo = "EXEC"
    \/ h \in Ordenes /\ c.paso \in DeEstado /\ pc[h] = "nuevos" /\ c.nuevo = "READY"
    \/ h = "consola" /\ c.paso \in DeEstado /\ pc[h] = "encolado" /\ c.nuevo \in {"NEW", "READY"}
    \/ h = "sabotaje" /\ c.paso \notin DeEstado /\ c.nuevo # "NEW"
LlamadasBien == \A h \in Hilos : LlamadaBien(h)

\* What a step in cambiar_estado does to the call.
LEMMA CambiarPasa ==
  ASSUME Tipos, NEW h \in Hilos, CambiarEstado(h)
  PROVE  /\ cambio[h] \in TCambio /\ cambio[h] # NULL
         /\ \A k \in Hilos \ {h} : cambio'[k] = cambio[k]
         /\ pc' = pc
         /\ \/ cambio'[h] = NULL
            \/ /\ cambio'[h] # NULL
               /\ cambio'[h].t = cambio[h].t /\ cambio'[h].nuevo = cambio[h].nuevo
               /\ cambio'[h].paso \in DeEstado <=> cambio[h].paso \in DeEstado
<1>1. cambio[h] # NULL /\ pc' = pc
  BY DEF CambiarEstado, CambiarNada, CambiarTomar, CambiarSacar, CambiarAgregar, SuaveSacar, SuaveAgregar, EnCambio
<1>2. cambio[h] \in TCambio /\ DeCambio
  BY <1>1, ElCambio DEF Tipos
<1>3. NULL \notin TCambio
  BY NombresAssumption
<1>4. CASE CambiarNada(h) \/ CambiarAgregar(h) \/ SuaveAgregar(h)
  <2>1. cambio' = [cambio EXCEPT ![h] = NULL]
    BY <1>4 DEF CambiarNada, CambiarAgregar, SuaveAgregar
  <2>. QED
    BY <1>1, <1>2, <2>1 DEF DeCambio
<1>5. CASE CambiarTomar(h)
  <2>. DEFINE v == trip[cambio[h].t].estado
  <2>1. cambio' = [cambio EXCEPT ![h] = [cambio[h] EXCEPT !.viejo = v, !.paso = "sacar"]]
    BY <1>2, <1>5 DEF CambiarTomar, DeCambio
  <2>2. cambio[h].paso = "tomar" /\ v \in Estados \cup {NULL}
    BY <1>2, <1>5 DEF CambiarTomar, EnCambio, Tipos, DeTrip, TTripulante, TCambio
  <2>. HIDE DEF v
  <2>3. [cambio[h] EXCEPT !.viejo = v, !.paso = "sacar"] \in TCambio
    BY <1>2, <2>2 DEF TCambio
  <2>. QED
    BY <1>1, <1>2, <1>3, <2>1, <2>2, <2>3 DEF DeCambio, TCambio, DeEstado
<1>6. CASE CambiarSacar(h)
  <2>1. cambio' = [cambio EXCEPT ![h] = [cambio[h] EXCEPT !.paso = "agregar"]]
    BY <1>2, <1>6 DEF CambiarSacar, DeCambio
  <2>2. cambio[h].paso = "sacar"
    BY <1>6 DEF CambiarSacar, EnCambio
  <2>3. [cambio[h] EXCEPT !.paso = "agregar"] \in TCambio
    BY <1>2 DEF TCambio
  <2>. QED
    BY <1>1, <1>2, <1>3, <2>1, <2>2, <2>3 DEF DeCambio, TCambio, DeEstado
<1>7. CASE SuaveSacar(h)
  <2>1. cambio' = [cambio EXCEPT ![h] = [cambio[h] EXCEPT !.paso = "suave_agregar"]]
    BY <1>2, <1>7 DEF SuaveSacar, DeCambio
  <2>2. cambio[h].paso = "suave_sacar"
    BY <1>7 DEF SuaveSacar, EnCambio
  <2>3. [cambio[h] EXCEPT !.paso = "suave_agregar"] \in TCambio
    BY <1>2 DEF TCambio
  <2>. QED
    BY <1>1, <1>2, <1>3, <2>1, <2>2, <2>3 DEF DeCambio, TCambio, DeEstado
<1>. QED
  BY <1>4, <1>5, <1>6, <1>7 DEF CambiarEstado

\* What the start of a member's thread does.
LEMMA IniciarDe ==
  ASSUME Tipos, IniciarTripulante
  PROVE  LET t == Head(lista["consola"]) IN
         /\ t \in Tripulantes /\ lista["consola"] \in Seq(Tripulantes) /\ lista["consola"] # <<>>
         /\ pc["consola"] = "iniciar_tripulante" /\ pc'["consola"] = "encolar" /\ pc'[t] = "pausado"
         /\ cambio["consola"] = NULL
         /\ \A k \in Hilos \ {"consola", t} : pc'[k] = pc[k]
         /\ UNCHANGED <<colas, sem, cambio, lista, sabo, usos, mutex_pausa, pausa, planificando>>
         /\ \A u \in Tripulantes : /\ trip'[u].mutex = trip[u].mutex
                                   /\ trip'[u].haciendo_io = trip[u].haciendo_io
                                   /\ trip'[u].estado = IF u = t THEN "NEW" ELSE trip[u].estado
<1>. DEFINE t == Head(lista["consola"])
<1>1. "consola" \in Hilos /\ "consola" \notin Tripulantes /\ Tripulantes \subseteq Hilos
  BY NombresAssumption DEF Hilos
<1>2. lista["consola"] \in Seq(Tripulantes) /\ lista["consola"] # <<>>
  BY <1>1 DEF IniciarTripulante, En, Tipos, Puestos, ConLista, DeLista
<1>3. t \in Tripulantes
  BY <1>2, HeadTailProperties
<1>4. /\ pc["consola"] = "iniciar_tripulante" /\ cambio["consola"] = NULL
      /\ pc' = [pc EXCEPT !["consola"] = "encolar", ![t] = "pausado"]
      /\ trip' = [trip EXCEPT ![t].estado = "NEW"]
  BY DEF IniciarTripulante, En
<1>5. UNCHANGED <<colas, sem, cambio, lista, sabo, usos, mutex_pausa, pausa, planificando>>
  BY DEF IniciarTripulante, colasVars, ordenVars, banderas
<1>. HIDE DEF t
<1>6. DOMAIN pc = Hilos /\ t # "consola" /\ t \in Hilos
  BY <1>1, <1>3 DEF Tipos, DePc
<1>7. pc'["consola"] = "encolar"
  BY <1>1, <1>4, <1>6
<1>8. pc'[t] = "pausado"
  BY <1>1, <1>4, <1>6
<1>9. \A k \in Hilos \ {"consola", t} : pc'[k] = pc[k]
  BY <1>4, <1>6
<1>10. \A u \in Tripulantes : /\ trip'[u].mutex = trip[u].mutex
                              /\ trip'[u].haciendo_io = trip[u].haciendo_io
                              /\ trip'[u].estado = IF u = t THEN "NEW" ELSE trip[u].estado
  BY <1>3, <1>4 DEF Tipos, DeTrip, TTripulante
<1>. QED
  BY <1>2, <1>3, <1>4, <1>5, <1>7, <1>8, <1>9, <1>10 DEF t

\* The parts of the footprint.
LEMMA DeHuella ==
  ASSUME Tipos, NEW h \in Hilos, Huella(h), cambio'[h] # NULL
  PROVE  LlamadaBien(h)'
BY DEF Huella, Llamada, LlamadaBien, DeEstado

LEMMA LlamadasPaso ==
  ASSUME Tipos, LlamadasBien, NEW h \in Hilos, DelHilo(h)
  PROVE  LlamadasBien'
<1>1. CASE CambiarEstado(h)
  <2>1. LlamadaBien(h)'
    BY <1>1, CambiarPasa DEF LlamadasBien, LlamadaBien
  <2>2. ASSUME NEW k \in Hilos \ {h} PROVE LlamadaBien(k)'
    BY <1>1, <2>2, CambiarPasa DEF LlamadasBien, LlamadaBien
  <2>. QED
    BY <2>1, <2>2 DEF LlamadasBien
<1>2. CASE IniciarTripulante
  <2>. DEFINE t == Head(lista["consola"])
  <2>1. /\ t \in Tripulantes /\ cambio["consola"] = NULL /\ UNCHANGED cambio
        /\ \A k \in Hilos \ {"consola", t} : pc'[k] = pc[k]
    BY <1>2, IniciarDe
  <2>. HIDE DEF t
  <2>2. t # "planificador" /\ t \notin Ordenes /\ t # "sabotaje" /\ t # "consola"
    BY <2>1, NombresAssumption DEF Ordenes
  <2>3. ASSUME NEW k \in Hilos PROVE LlamadaBien(k)'
    <3>1. CASE k = "consola"
      BY <2>1, <3>1 DEF LlamadaBien
    <3>2. CASE k = t
      BY <2>1, <2>2, <3>2 DEF LlamadasBien, LlamadaBien
    <3>3. CASE k # t /\ k # "consola"
      BY <2>1, <3>3 DEF LlamadasBien, LlamadaBien
    <3>. QED
      BY <3>1, <3>2, <3>3
  <2>. QED
    BY <2>3 DEF LlamadasBien
<1>3. CASE Huella(h)
  <2>1. LlamadaBien(h)'
    BY <1>3, DeHuella DEF LlamadaBien
  <2>2. ASSUME NEW k \in Hilos \ {h} PROVE LlamadaBien(k)'
    BY <1>3, <2>2 DEF LlamadasBien, LlamadaBien, Huella
  <2>. QED
    BY <2>1, <2>2 DEF LlamadasBien
<1>. QED
  BY <1>1, <1>2, <1>3, HuellaDelPaso

-------------------------------------------------------------------------------
\* A member is moved by who has its mutex, and who waits for its unit of
\* contador_ready has its own.
Mueve(h) == EnCambio(h, "sacar") \/ EnCambio(h, "agregar")
MutexBien ==
  /\ \A h \in Hilos : Mueve(h) => trip[cambio[h].t].mutex = h
  /\ \A t \in Tripulantes : pc[t] = "contador_ready" => trip[t].mutex = t /\ cambio[t] = NULL

\* What each step of cambiar_estado does to the mutex and the state of a member
\* and to the CPUs.
LEMMA TomarDe ==
  ASSUME Tipos, NEW h \in Hilos, CambiarTomar(h)
  PROVE  LET t == cambio[h].t IN
         /\ t \in Tripulantes /\ cambio[h].paso = "tomar" /\ cambio[h] # NULL
         /\ cambio'[h] # NULL /\ cambio'[h].paso = "sacar" /\ cambio'[h].t = t
         /\ cambio'[h].viejo = trip[t].estado
         /\ trip[t].mutex = NULL /\ trip'[t].mutex = h /\ trip[t].estado # "EXIT"
         /\ colas' = colas
         /\ \A u \in Tripulantes : /\ trip'[u].estado = trip[u].estado
                                   /\ trip'[u].haciendo_io = trip[u].haciendo_io
                                   /\ u # t => trip'[u].mutex = trip[u].mutex
         /\ sem'.cpus_libres = IF trip[t].estado = "EXEC" THEN sem.cpus_libres + 1 ELSE sem.cpus_libres
         /\ sem'.dispositivos_io = sem.dispositivos_io
<1>. DEFINE t == cambio[h].t
            v == trip[t].estado
<1>1. cambio[h] \in TCambio /\ cambio[h] # NULL /\ cambio[h].paso = "tomar"
  BY ElCambio DEF CambiarTomar, EnCambio, Tipos
<1>2. t \in Tripulantes /\ v \in Estados \cup {NULL} /\ DeCambio /\ NULL \notin TCambio
  BY <1>1, NombresAssumption DEF TCambio, Tipos, DeTrip, TTripulante
<1>3. /\ trip[t].mutex = NULL /\ v # "EXIT" /\ UNCHANGED colas
      /\ trip' = [trip EXCEPT ![t].mutex = h, ![t].tiempo_en_cpu = IF v = "BLOCKED" THEN 0 ELSE @]
      /\ IF v = "EXEC" THEN Postear("cpus_libres") ELSE UNCHANGED sem
      /\ cambio' = [cambio EXCEPT ![h].viejo = v, ![h].paso = "sacar"]
  BY DEF CambiarTomar, Libre, LiberaCpu, colasVars
<1>4. /\ trip'[t].mutex = h
      /\ \A u \in Tripulantes : /\ trip'[u].estado = trip[u].estado
                                /\ trip'[u].haciendo_io = trip[u].haciendo_io
                                /\ u # t => trip'[u].mutex = trip[u].mutex
  <2>. DEFINE a == IF v = "BLOCKED" THEN 0 ELSE trip[t].tiempo_en_cpu
  <2>1. trip' = [trip EXCEPT ![t] = [trip[t] EXCEPT !.mutex = h, !.tiempo_en_cpu = a]]
    BY <1>2, <1>3 DEF Tipos, DeTrip
  <2>. HIDE DEF a, t
  <2>. QED
    BY <1>2, <2>1 DEF Tipos, DeTrip, TTripulante
<1>5. /\ sem'.cpus_libres = IF v = "EXEC" THEN sem.cpus_libres + 1 ELSE sem.cpus_libres
      /\ sem'.dispositivos_io = sem.dispositivos_io
  BY <1>3 DEF Postear, Tipos, DeSem, Semaforos
<1>6. cambio'[h] # NULL /\ cambio'[h].paso = "sacar" /\ cambio'[h].t = t /\ cambio'[h].viejo = v
  <2>1. cambio' = [cambio EXCEPT ![h] = [cambio[h] EXCEPT !.viejo = v, !.paso = "sacar"]]
    BY <1>2, <1>3 DEF DeCambio
  <2>. HIDE DEF v
  <2>2. [cambio[h] EXCEPT !.viejo = v, !.paso = "sacar"] \in TCambio
    BY <1>1, <1>2 DEF TCambio
  <2>. QED
    BY <1>1, <1>2, <2>1, <2>2 DEF DeCambio, TCambio
<1>. QED
  BY <1>1, <1>2, <1>3, <1>4, <1>5, <1>6

LEMMA SacandoDe ==
  ASSUME Tipos, NEW h \in Hilos, CambiarSacar(h)
  PROVE  LET c == cambio[h] IN
         /\ c # NULL /\ c.paso = "sacar" /\ c.t \in Tripulantes /\ c.nuevo \in Estados
         /\ cambio'[h] # NULL /\ cambio'[h].paso = "agregar" /\ cambio'[h].t = c.t
         /\ cambio'[h].nuevo = c.nuevo
         /\ colas' = [colas EXCEPT ![c.viejo] = RemoveFirst(@, c.t)]
         /\ sem' = sem
         /\ \A u \in Tripulantes : /\ trip'[u].mutex = trip[u].mutex
                                   /\ trip'[u].haciendo_io = trip[u].haciendo_io
                                   /\ trip'[u].estado = IF u = c.t THEN c.nuevo ELSE trip[u].estado
<1>. DEFINE c == cambio[h]
<1>1. c \in TCambio /\ c # NULL /\ c.paso = "sacar" /\ c.t \in Tripulantes /\ c.nuevo \in Estados
  BY ElCambio DEF CambiarSacar, EnCambio, Tipos
<1>2. /\ trip' = [trip EXCEPT ![c.t].estado = c.nuevo]
      /\ cambio' = [cambio EXCEPT ![h] = [cambio[h] EXCEPT !.paso = "agregar"]]
      /\ colas' = [colas EXCEPT ![c.viejo] = RemoveFirst(@, c.t)]
      /\ UNCHANGED sem
  BY DEF CambiarSacar, Tipos, DeCambio
<1>3. [cambio[h] EXCEPT !.paso = "agregar"] \in TCambio /\ NULL \notin TCambio
  BY <1>1, NombresAssumption DEF TCambio
<1>4. cambio'[h] # NULL /\ cambio'[h].paso = "agregar" /\ cambio'[h].t = c.t /\ cambio'[h].nuevo = c.nuevo
  BY <1>1, <1>2, <1>3 DEF Tipos, DeCambio, TCambio
<1>5. \A u \in Tripulantes : /\ trip'[u].mutex = trip[u].mutex
                             /\ trip'[u].haciendo_io = trip[u].haciendo_io
                             /\ trip'[u].estado = IF u = c.t THEN c.nuevo ELSE trip[u].estado
  BY <1>1, <1>2 DEF Tipos, DeTrip, TTripulante
<1>. QED
  BY <1>1, <1>2, <1>4, <1>5

LEMMA AgregandoDe ==
  ASSUME Tipos, NEW h \in Hilos, CambiarAgregar(h)
  PROVE  LET c == cambio[h] IN
         /\ c # NULL /\ c.paso = "agregar" /\ c.t \in Tripulantes /\ c.nuevo \in Estados
         /\ cambio'[h] = NULL
         /\ colas' = [colas EXCEPT ![c.nuevo] = Append(@, c.t)]
         /\ sem'.cpus_libres = sem.cpus_libres /\ sem'.dispositivos_io = sem.dispositivos_io
         /\ trip'[c.t].mutex = NULL
         /\ \A u \in Tripulantes : /\ trip'[u].estado = trip[u].estado
                                   /\ trip'[u].haciendo_io = trip[u].haciendo_io
                                   /\ u # c.t => trip'[u].mutex = trip[u].mutex
<1>. DEFINE c == cambio[h]
            a == IF c.nuevo \in {"EXEC", "EXIT"} THEN trip[c.t].semaforo + 1 ELSE trip[c.t].semaforo
            b == trip[c.t].termino \/ c.nuevo = "EXIT"
<1>1. c # NULL /\ c.paso = "agregar" /\ c.t \in Tripulantes /\ c.nuevo \in Estados
  BY ElCambio DEF CambiarAgregar, EnCambio, Tipos
<1>2. /\ trip' = [trip EXCEPT ![c.t] = [trip[c.t] EXCEPT !.mutex = NULL, !.termino = b, !.semaforo = a]]
      /\ cambio' = [cambio EXCEPT ![h] = NULL]
      /\ colas' = [colas EXCEPT ![c.nuevo] = Append(@, c.t)]
      /\ Postear("contador_ready") \/ UNCHANGED sem
  BY DEF CambiarAgregar
<1>. HIDE DEF a, b
<1>3. /\ trip'[c.t].mutex = NULL
      /\ \A u \in Tripulantes : /\ trip'[u].estado = trip[u].estado
                                /\ trip'[u].haciendo_io = trip[u].haciendo_io
                                /\ u # c.t => trip'[u].mutex = trip[u].mutex
  BY <1>1, <1>2 DEF Tipos, DeTrip, TTripulante
<1>4. sem'.cpus_libres = sem.cpus_libres /\ sem'.dispositivos_io = sem.dispositivos_io
  BY <1>2 DEF Postear, Tipos, DeSem, Semaforos
<1>5. cambio'[h] = NULL
  BY <1>2 DEF Tipos, DeCambio
<1>. QED
  BY <1>1, <1>2, <1>3, <1>4, <1>5

\* The steps of a call that leave the members and the semaphores alone.
LEMMA SuaveDe ==
  ASSUME Tipos, NEW h \in Hilos, CambiarNada(h) \/ SuaveSacar(h) \/ SuaveAgregar(h)
  PROVE  /\ UNCHANGED <<trip, sem>>
         /\ ~Mueve(h) /\ ~Mueve(h)'
         /\ EnCambio(h, "tomar")' => cambio[h].paso = "tomar"
<1>1. UNCHANGED <<trip, sem>>
  BY DEF CambiarNada, SuaveSacar, SuaveAgregar
<1>2. cambio[h] # NULL /\ cambio[h].paso \in {"tomar", "suave_sacar", "suave_agregar"}
  BY DEF CambiarNada, SuaveSacar, SuaveAgregar, EnCambio
<1>3. cambio'[h] = NULL \/ cambio'[h].paso = "suave_agregar"
  <2>1. CASE CambiarNada(h) \/ SuaveAgregar(h)
    BY <2>1 DEF CambiarNada, SuaveAgregar, Tipos, DeCambio
  <2>2. CASE SuaveSacar(h)
    <3>1. cambio[h] \in TCambio
      BY <1>2, ElCambio DEF Tipos
    <3>. QED
      BY <2>2, <3>1 DEF SuaveSacar, Tipos, DeCambio, TCambio
  <2>. QED
    BY <2>1, <2>2
<1>. QED
  BY <1>1, <1>2, <1>3 DEF Mueve, EnCambio

\* A call that begins does not move anybody yet.
LEMMA HuellaNoMueve ==
  ASSUME Tipos, NEW h \in Hilos, Huella(h)
  PROVE  /\ ~Mueve(h) /\ ~Mueve(h)'
         /\ \A k \in Hilos \ {h} : cambio'[k] = cambio[k]
BY DEF Huella, Llamada, Mueve, EnCambio

LEMMA MutexPaso ==
  ASSUME Tipos, MutexBien, NEW h \in Hilos, DelHilo(h)
  PROVE  MutexBien'
<1>0. NULL \notin Hilos /\ Tripulantes \subseteq Hilos
  BY NombresAssumption DEF Hilos
<1>1. ASSUME CambiarEstado(h) PROVE pc' = pc /\ \A k \in Hilos \ {h} : cambio'[k] = cambio[k] /\ (Mueve(k)' <=> Mueve(k))
  BY <1>1, CambiarPasa DEF Mueve, EnCambio
<1>2. ASSUME CambiarEstado(h) PROVE \A t \in Tripulantes : pc'[t] = "contador_ready" => t # h /\ trip[t].mutex = t /\ cambio'[t] = NULL
  <2>1. cambio[h] # NULL
    BY <1>2, CambiarPasa
  <2>. QED
    BY <1>0, <1>1, <1>2, <2>1 DEF MutexBien
<1>3. CASE CambiarNada(h) \/ SuaveSacar(h) \/ SuaveAgregar(h)
  <2>1. CambiarEstado(h)
    BY <1>3 DEF CambiarEstado
  <2>2. UNCHANGED trip /\ ~Mueve(h)'
    BY <1>3, SuaveDe
  <2>. QED
    BY <1>1, <1>2, <2>1, <2>2 DEF MutexBien
<1>4. CASE CambiarTomar(h)
  <2>. DEFINE t == cambio[h].t
  <2>1. CambiarEstado(h)
    BY <1>4 DEF CambiarEstado
  <2>2. /\ t \in Tripulantes /\ cambio'[h].t = t /\ trip[t].mutex = NULL /\ trip'[t].mutex = h
        /\ \A u \in Tripulantes : u # t => trip'[u].mutex = trip[u].mutex
    BY <1>4, TomarDe
  <2>. HIDE DEF t
  <2>3. ASSUME NEW k \in Hilos, Mueve(k)' PROVE trip'[cambio'[k].t].mutex = k
    <3>1. CASE k = h
      BY <2>2, <3>1
    <3>2. CASE k # h
      <4>1. Mueve(k) /\ cambio'[k] = cambio[k] /\ trip[cambio[k].t].mutex = k
        BY <1>1, <2>1, <2>3, <3>2 DEF MutexBien
      <4>2. cambio[k].t \in Tripulantes
        BY <4>1, ElCambio DEF Mueve, EnCambio, Tipos
      <4>. QED
        BY <1>0, <2>2, <4>1, <4>2
    <3>. QED
      BY <3>1, <3>2
  <2>4. \A u \in Tripulantes : pc'[u] = "contador_ready" => trip'[u].mutex = u /\ cambio'[u] = NULL
    BY <1>0, <1>2, <2>1, <2>2
  <2>. QED
    BY <2>3, <2>4 DEF MutexBien
<1>5. CASE CambiarSacar(h)
  <2>1. CambiarEstado(h)
    BY <1>5 DEF CambiarEstado
  <2>2. /\ Mueve(h) /\ cambio'[h].t = cambio[h].t /\ cambio[h].t \in Tripulantes
        /\ \A u \in Tripulantes : trip'[u].mutex = trip[u].mutex
    BY <1>5, SacandoDe DEF Mueve, EnCambio
  <2>3. ASSUME NEW k \in Hilos, Mueve(k)' PROVE trip'[cambio'[k].t].mutex = k
    <3>1. Mueve(k) /\ cambio'[k].t = cambio[k].t /\ trip[cambio[k].t].mutex = k
      BY <1>1, <2>1, <2>2, <2>3 DEF MutexBien
    <3>2. cambio[k].t \in Tripulantes
      BY <3>1, ElCambio DEF Mueve, EnCambio, Tipos
    <3>. QED
      BY <2>2, <3>1, <3>2
  <2>. QED
    BY <1>2, <2>1, <2>2, <2>3 DEF MutexBien
<1>6. CASE CambiarAgregar(h)
  <2>. DEFINE t == cambio[h].t
  <2>1. CambiarEstado(h)
    BY <1>6 DEF CambiarEstado
  <2>2. /\ Mueve(h) /\ ~Mueve(h)' /\ t \in Tripulantes
        /\ \A u \in Tripulantes : u # t => trip'[u].mutex = trip[u].mutex
    BY <1>6, AgregandoDe DEF Mueve, EnCambio
  <2>3. trip[t].mutex = h
    BY <2>2 DEF MutexBien
  <2>. HIDE DEF t
  <2>4. ASSUME NEW k \in Hilos, Mueve(k)' PROVE trip'[cambio'[k].t].mutex = k
    <3>1. k # h /\ Mueve(k) /\ cambio'[k] = cambio[k] /\ trip[cambio[k].t].mutex = k
      BY <1>1, <2>1, <2>2, <2>4 DEF MutexBien
    <3>2. cambio[k].t \in Tripulantes
      BY <3>1, ElCambio DEF Mueve, EnCambio, Tipos
    <3>. QED
      BY <2>2, <2>3, <3>1, <3>2
  <2>5. \A u \in Tripulantes : pc'[u] = "contador_ready" => trip'[u].mutex = u /\ cambio'[u] = NULL
    BY <1>0, <1>2, <2>1, <2>2, <2>3
  <2>. QED
    BY <2>4, <2>5 DEF MutexBien
<1>7. CASE IniciarTripulante
  <2>. DEFINE t == Head(lista["consola"])
  <2>1. /\ t \in Tripulantes /\ cambio' = cambio /\ pc'[t] = "pausado"
        /\ \A k \in Hilos \ {"consola", t} : pc'[k] = pc[k]
        /\ \A u \in Tripulantes : trip'[u].mutex = trip[u].mutex
    BY <1>7, IniciarDe
  <2>. HIDE DEF t
  <2>2. \A k \in Hilos : Mueve(k)' <=> Mueve(k)
    BY <2>1 DEF Mueve, EnCambio
  <2>3. \A k \in Hilos : Mueve(k) => cambio[k].t \in Tripulantes
    BY ElCambio DEF Mueve, EnCambio, Tipos
  <2>4. \A u \in Tripulantes : pc'[u] = "contador_ready" => pc[u] = "contador_ready"
    BY <1>0, <2>1, NombresAssumption
  <2>. QED
    BY <2>1, <2>2, <2>3, <2>4 DEF MutexBien
<1>8. CASE Huella(h)
  <2>1. ~Mueve(h) /\ ~Mueve(h)' /\ \A k \in Hilos \ {h} : cambio'[k] = cambio[k]
    BY <1>8, HuellaNoMueve
  <2>2. \A k \in Hilos : Mueve(k)' => Mueve(k) /\ k # h /\ cambio[k].t \in Tripulantes
    BY <2>1, ElCambio DEF Mueve, EnCambio, Tipos
  <2>3. \A u \in Tripulantes : u # h => /\ trip'[u].mutex = trip[u].mutex
                                        /\ pc'[u] = pc[u]
    BY <1>0, <1>8 DEF Huella
  <2>4. CASE h \in Tripulantes /\ SalirDeReady(h)
    <3>1. trip[h].mutex = NULL /\ trip'[h].mutex = h /\ cambio' = cambio /\ cambio[h] = NULL
      BY <2>4 DEF SalirDeReady, Libre, Ir, En, Tipos, DeTrip, TTripulante
    <3>2. ASSUME NEW k \in Hilos, Mueve(k)' PROVE trip'[cambio'[k].t].mutex = k
      BY <1>0, <2>1, <2>2, <2>3, <3>1, <3>2 DEF MutexBien
    <3>. QED
      BY <2>1, <2>3, <3>1, <3>2, <1>0 DEF MutexBien
  <2>5. CASE h \in Tripulantes /\ TomarContador(h)
    <3>1. pc[h] = "contador_ready" /\ pc'[h] = "termino" /\ cambio[h] = NULL
      BY <1>0, <2>5 DEF TomarContador, Ir, En, Tipos, DePc
    <3>2. trip[h].mutex = h
      BY <2>5, <3>1 DEF MutexBien
    <3>3. ASSUME NEW k \in Hilos, Mueve(k)' PROVE trip'[cambio'[k].t].mutex = k
      BY <2>1, <2>2, <2>3, <3>2, <3>3 DEF MutexBien
    <3>. QED
      BY <2>1, <2>3, <3>1, <3>3, <1>0 DEF MutexBien
  <2>6. CASE ~(h \in Tripulantes /\ (SalirDeReady(h) \/ TomarContador(h)))
    <3>1. \A u \in Tripulantes : trip'[u].mutex = trip[u].mutex
      BY <1>8, <2>6 DEF Huella
    <3>2. h \in Tripulantes => pc'[h] # "contador_ready"
      BY <1>8, <2>6 DEF Huella
    <3>. QED
      BY <2>1, <2>2, <2>3, <3>1, <3>2, <1>0 DEF MutexBien
  <2>. QED
    BY <2>4, <2>5, <2>6
<1>. QED
  BY <1>3, <1>4, <1>5, <1>6, <1>7, <1>8, HuellaDelPaso DEF CambiarEstado

-------------------------------------------------------------------------------
\* The CPUs: those that are free, the one the planner took, and those of the
\* members in EXEC.  Whoever takes a member out of EXEC, with its mutex, gives
\* its CPU back, and only the planner, with a CPU, puts one in.
Sacando(t) == \E h \in Hilos : EnCambio(h, "sacar") /\ cambio[h].t = t

LEMMA EnExecFinito ==
  ASSUME NEW S \in SUBSET Tripulantes
  PROVE  IsFiniteSet(S) /\ Cardinality(S) \in Nat
BY DiscordiadorAssumption, FS_Subset, FS_CardinalityType

\* No more members in EXEC, free CPUs or CPUs in the planner's hand.
LEMMA CpusNoMas ==
  ASSUME Tipos, Tipos', CpusAcotadas, EnExec' \subseteq EnExec,
         sem'.cpus_libres = sem.cpus_libres, EnElPlanificador' <= EnElPlanificador
  PROVE  CpusAcotadas'
<1>1. EnExec \in SUBSET Tripulantes /\ EnExec' \in SUBSET Tripulantes
  BY DEF EnExec
<1>2. Cardinality(EnExec') <= Cardinality(EnExec) /\ Cardinality(EnExec) \in Nat /\ Cardinality(EnExec') \in Nat
  BY <1>1, EnExecFinito, FS_Subset
<1>3. sem.cpus_libres \in Nat /\ EnElPlanificador \in {0, 1} /\ EnElPlanificador' \in {0, 1} /\ GRADO_MULTITAREA \in Nat
  BY DiscordiadorAssumption DEF Tipos, DeSem, Semaforos, EnElPlanificador
<1>. QED
  BY <1>2, <1>3 DEF CpusAcotadas, Cpus

\* The planner's hand is where the planner is.
LEMMA ManoQuieta ==
  ASSUME pc'["planificador"] = pc["planificador"], cambio'["planificador"] = cambio["planificador"]
  PROVE  EnElPlanificador' = EnElPlanificador
BY DEF EnElPlanificador

LEMMA CpusPaso ==
  ASSUME Tipos, Tipos', LlamadasBien, MutexBien, CpusAcotadas, NEW h \in Hilos, DelHilo(h)
  PROVE  CpusAcotadas'
<1>. DEFINE p == "planificador"
<1>0. /\ NULL \notin Hilos /\ p \in Hilos /\ p \notin Tripulantes /\ p \notin Ordenes
      /\ sem.cpus_libres \in Nat /\ GRADO_MULTITAREA \in Nat
      /\ EnElPlanificador \in {0, 1} /\ EnElPlanificador' \in {0, 1}
      /\ Cardinality(EnExec) \in Nat /\ IsFiniteSet(EnExec)
  BY NombresAssumption, DiscordiadorAssumption, EnExecFinito
     DEF Hilos, Ordenes, Tipos, DeSem, Semaforos, EnElPlanificador, EnExec
<1>1. ASSUME CambiarEstado(h) PROVE pc' = pc /\ \A k \in Hilos \ {h} : cambio'[k] = cambio[k]
  BY <1>1, CambiarPasa
<1>2. CASE CambiarNada(h) \/ SuaveSacar(h) \/ SuaveAgregar(h)
  <2>1. UNCHANGED <<trip, sem>> /\ ~Mueve(h) /\ ~Mueve(h)' /\ (EnCambio(h, "tomar")' => cambio[h].paso = "tomar")
    BY <1>2, SuaveDe
  <2>2. pc' = pc /\ \A k \in Hilos \ {h} : cambio'[k] = cambio[k]
    BY <1>1, <1>2 DEF CambiarEstado
  <2>3. EnExec' \subseteq EnExec
    BY <2>1, <2>2 DEF EnExec, EnCambio, Mueve
  <2>4. EnElPlanificador' <= EnElPlanificador
    <3>1. CASE h # p
      BY <1>0, <2>2, <3>1, ManoQuieta
    <3>2. CASE h = p
      <4>1. cambio'[p] = NULL \/ cambio'[p].paso \notin {"tomar", "sacar"} \/ cambio[p].paso = "tomar"
        BY <2>1, <3>2 DEF EnCambio, Mueve
      <4>2. cambio[p] # NULL
        BY <1>2, <3>2 DEF CambiarNada, SuaveSacar, SuaveAgregar, EnCambio
      <4>. QED
        BY <2>2, <4>1, <4>2 DEF EnElPlanificador
    <3>. QED
      BY <3>1, <3>2
  <2>. QED
    BY <2>1, <2>3, <2>4, CpusNoMas
<1>3. CASE CambiarTomar(h)
  <2>. DEFINE t == cambio[h].t
  <2>1. pc' = pc /\ \A k \in Hilos \ {h} : cambio'[k] = cambio[k]
    BY <1>1, <1>3 DEF CambiarEstado
  <2>2. /\ t \in Tripulantes /\ cambio[h] # NULL /\ cambio[h].paso = "tomar"
        /\ cambio'[h] # NULL /\ cambio'[h].t = t /\ cambio'[h].paso = "sacar"
        /\ trip[t].mutex = NULL
        /\ \A u \in Tripulantes : trip'[u].estado = trip[u].estado
        /\ sem'.cpus_libres = IF trip[t].estado = "EXEC" THEN sem.cpus_libres + 1 ELSE sem.cpus_libres
    BY <1>3, TomarDe
  <2>3. EnElPlanificador' = EnElPlanificador
    <3>1. CASE h # p
      BY <1>0, <2>1, <3>1, ManoQuieta
    <3>2. CASE h = p
      BY <2>1, <2>2, <3>2 DEF EnElPlanificador
    <3>. QED
      BY <3>1, <3>2
  <2>4. ~Sacando(t)
    BY <1>0, <2>2 DEF Sacando, MutexBien, Mueve
  <2>. HIDE DEF t
  <2>5. EnExec' = EnExec \ {t}
    <3>1. ASSUME NEW u \in Tripulantes \ {t} PROVE Sacando(u)' <=> Sacando(u)
      BY <2>1, <2>2, <3>1 DEF Sacando, EnCambio, t
    <3>2. ASSUME NEW u, u = t PROVE Sacando(u)'
      BY <2>2, <3>2 DEF Sacando, EnCambio
    <3>. QED
      BY <2>2, <3>1, <3>2 DEF EnExec, Sacando
  <2>6. CASE trip[t].estado = "EXEC"
    <3>1. t \in EnExec
      BY <2>2, <2>4, <2>6 DEF EnExec, Sacando
    <3>2. Cardinality(EnExec') = Cardinality(EnExec) - 1
      BY <1>0, <2>5, <3>1, FS_RemoveElement
    <3>. QED
      BY <1>0, <2>2, <2>3, <2>6, <3>2 DEF CpusAcotadas, Cpus
  <2>7. CASE trip[t].estado # "EXEC"
    BY <1>0, <2>2, <2>3, <2>5, <2>7, CpusNoMas
  <2>. QED
    BY <2>6, <2>7
<1>4. CASE CambiarSacar(h)
  <2>. DEFINE t == cambio[h].t
              nuevo == cambio[h].nuevo
  <2>1. pc' = pc /\ \A k \in Hilos \ {h} : cambio'[k] = cambio[k]
    BY <1>1, <1>4 DEF CambiarEstado
  <2>2. /\ t \in Tripulantes /\ cambio[h] # NULL /\ cambio[h].paso = "sacar"
        /\ cambio'[h] # NULL /\ cambio'[h].paso = "agregar"
        /\ sem' = sem
        /\ \A u \in Tripulantes : trip'[u].estado = IF u = t THEN nuevo ELSE trip[u].estado
    BY <1>4, SacandoDe
  <2>3. h = p <=> nuevo = "EXEC"
    BY <1>0, <2>2 DEF LlamadasBien, LlamadaBien, DeEstado
  <2>. HIDE DEF t, nuevo
  <2>4. ASSUME NEW u \in Tripulantes \ {t} PROVE Sacando(u)' <=> Sacando(u)
    BY <2>1, <2>2, <2>4 DEF Sacando, EnCambio, t
  <2>5. Sacando(t) /\ t \notin EnExec
    BY <2>2 DEF Sacando, EnCambio, EnExec, t
  <2>6. CASE h = p
    <3>1. EnElPlanificador = 1 /\ EnElPlanificador' = 0
      <4>1. pc[p] = "post" /\ pc'[p] = "post"
        BY <1>0, <2>1, <2>2, <2>6 DEF LlamadasBien, LlamadaBien, Ordenes, DeEstado
      <4>. QED
        BY <2>2, <2>6, <4>1 DEF EnElPlanificador
    <3>2. EnExec' \subseteq EnExec \cup {t}
      BY <2>2, <2>4 DEF EnExec, Sacando
    <3>3. IsFiniteSet(EnExec \cup {t}) /\ Cardinality(EnExec \cup {t}) = Cardinality(EnExec) + 1
      BY <1>0, <2>5, FS_AddElement
    <3>4. Cardinality(EnExec') <= Cardinality(EnExec) + 1 /\ Cardinality(EnExec') \in Nat
      <4>1. EnExec' \in SUBSET Tripulantes
        BY DEF EnExec
      <4>. QED
        BY <3>2, <3>3, <4>1, EnExecFinito, FS_Subset
    <3>. QED
      BY <1>0, <2>2, <3>1, <3>4 DEF CpusAcotadas, Cpus
  <2>7. CASE h # p
    <3>1. EnExec' \subseteq EnExec
      BY <2>2, <2>3, <2>4, <2>7 DEF EnExec, Sacando
    <3>2. EnElPlanificador' = EnElPlanificador
      BY <1>0, <2>1, <2>7, ManoQuieta
    <3>. QED
      BY <1>0, <2>2, <3>1, <3>2, CpusNoMas
  <2>. QED
    BY <2>6, <2>7
<1>5. CASE CambiarAgregar(h)
  <2>1. pc' = pc /\ \A k \in Hilos \ {h} : cambio'[k] = cambio[k]
    BY <1>1, <1>5 DEF CambiarEstado
  <2>2. /\ cambio[h] # NULL /\ cambio[h].paso = "agregar" /\ cambio'[h] = NULL
        /\ sem'.cpus_libres = sem.cpus_libres
        /\ \A u \in Tripulantes : trip'[u].estado = trip[u].estado
    BY <1>5, AgregandoDe
  <2>3. EnExec' \subseteq EnExec
    BY <2>1, <2>2 DEF EnExec, EnCambio
  <2>4. EnElPlanificador' <= EnElPlanificador
    <3>1. CASE h # p
      BY <1>0, <2>1, <3>1, ManoQuieta
    <3>2. CASE h = p
      BY <2>1, <2>2, <3>2 DEF EnElPlanificador
    <3>. QED
      BY <3>1, <3>2
  <2>. QED
    BY <2>2, <2>3, <2>4, CpusNoMas
<1>6. CASE IniciarTripulante
  <2>. DEFINE t == Head(lista["consola"])
  <2>1. /\ t \in Tripulantes /\ cambio' = cambio /\ sem' = sem
        /\ \A k \in Hilos \ {"consola", t} : pc'[k] = pc[k]
        /\ \A u \in Tripulantes : trip'[u].estado = IF u = t THEN "NEW" ELSE trip[u].estado
    BY <1>6, IniciarDe
  <2>. HIDE DEF t
  <2>2. EnExec' \subseteq EnExec
    BY <2>1 DEF EnExec, EnCambio
  <2>3. EnElPlanificador' = EnElPlanificador
    BY <1>0, <2>1, ManoQuieta
  <2>. QED
    BY <1>0, <2>1, <2>2, <2>3, CpusNoMas
<1>7. CASE Huella(h)
  <2>1. ~Mueve(h) /\ ~Mueve(h)' /\ \A k \in Hilos \ {h} : cambio'[k] = cambio[k]
    BY <1>7, HuellaNoMueve
  <2>2. EnExec' = EnExec
    <3>1. \A u \in Tripulantes : trip'[u].estado = trip[u].estado
      BY <1>7 DEF Huella
    <3>. QED
      BY <2>1, <3>1 DEF EnExec, EnCambio, Mueve
  <2>3. CASE h # p
    <3>1. pc'[p] = pc[p] /\ cambio'[p] = cambio[p] /\ sem'.cpus_libres = sem.cpus_libres
      BY <1>0, <1>7, <2>3 DEF Huella
    <3>. QED
      BY <1>0, <2>2, <3>1, ManoQuieta, CpusNoMas
  <2>4. CASE h = p
    <3>1. cambio[p] = NULL
      BY <1>7, <2>4 DEF Huella
    <3>2. Planificador
      <4>1. ~CambiarEstado(p)
        BY <3>1 DEF CambiarEstado, CambiarNada, CambiarTomar, CambiarSacar, CambiarAgregar, SuaveSacar, SuaveAgregar, EnCambio
      <4>. QED
        BY <1>0, <2>4, <4>1 DEF DelHilo
    <3>3. ASSUME NEW a, NEW b, Ir(p, a, b) PROVE pc[p] = a /\ pc'[p] = b
      BY <1>0, <3>3 DEF Ir, En, Tipos, DePc
    <3>4. CASE PlanEsperarCpu
      <4>1. pc[p] = "cpus_libres" /\ pc'[p] = "contador_ready"
        BY <3>3, <3>4 DEF PlanEsperarCpu, EsperarYSeguir
      <4>2. EnElPlanificador = 0 /\ EnElPlanificador' = 1
        BY <3>1, <4>1 DEF EnElPlanificador
      <4>3. sem'.cpus_libres = sem.cpus_libres - 1
        BY <3>4 DEF PlanEsperarCpu, EsperarYSeguir, Esperar, Tipos, DeSem, Semaforos
      <4>. QED
        BY <1>0, <2>2, <4>2, <4>3 DEF CpusAcotadas, Cpus
    <3>5. ASSUME ~PlanEsperarCpu PROVE CpusAcotadas'
      <4>1. sem'.cpus_libres = sem.cpus_libres
        BY <1>7, <3>5 DEF Huella
      <4>2. CASE PlanEsperarReady \/ PlanEsperarPlanificacion
        <5>1. EnElPlanificador = 1
          BY <3>3, <4>2 DEF PlanEsperarReady, PlanEsperarPlanificacion, EsperarYSeguir, EnElPlanificador
        <5>. QED
          BY <1>0, <2>2, <4>1, <5>1, CpusNoMas
      <4>3. CASE PasarUnoAExec
        <5>1. EnElPlanificador = 1
          BY <3>3, <4>3 DEF PasarUnoAExec, EnElPlanificador
        <5>. QED
          BY <1>0, <2>2, <4>1, <5>1, CpusNoMas
      <4>4. CASE PlanPost
        <5>1. pc'[p] = "cpus_libres" /\ cambio'[p] = cambio[p]
          BY <3>3, <4>4 DEF PlanPost
        <5>2. EnElPlanificador' = 0
          BY <3>1, <5>1 DEF EnElPlanificador
        <5>. QED
          BY <1>0, <2>2, <4>1, <5>2, CpusNoMas
      <4>. QED
        BY <3>2, <3>5, <4>2, <4>3, <4>4 DEF Planificador
    <3>. QED
      BY <3>4, <3>5
  <2>. QED
    BY <2>3, <2>4
<1>. QED
  BY <1>2, <1>3, <1>4, <1>5, <1>6, <1>7, HuellaDelPaso DEF CambiarEstado

\* The three together, of a step and at first.
MovidosBien == LlamadasBien /\ MutexBien

LEMMA MovidosInicial ==
  ASSUME Init
  PROVE  MovidosBien /\ CpusAcotadas
<1>1. \A h \in Hilos : cambio[h] = NULL
  BY DEF Init
<1>2. \A t \in Tripulantes : pc[t] = "sin_crear" /\ trip[t].estado = NULL
  BY NombresAssumption DEF Init, Hilos, Ordenes, SinCrear
<1>3. MovidosBien
  BY <1>1, <1>2 DEF MovidosBien, LlamadasBien, LlamadaBien, MutexBien, Mueve, EnCambio
<1>4. EnElPlanificador = 0
  <2>1. "planificador" \in Hilos /\ "planificador" \notin Ordenes
    BY DEF Hilos, Ordenes
  <2>2. pc["planificador"] = "cpus_libres"
    BY <2>1 DEF Init
  <2>. QED
    BY <1>1, <2>1, <2>2 DEF EnElPlanificador
<1>5. EnExec = {}
  BY <1>2, NombresAssumption DEF EnExec, Estados
<1>6. sem.cpus_libres = GRADO_MULTITAREA
  BY DEF Init
<1>. QED
  BY <1>3, <1>4, <1>5, <1>6, FS_EmptySet, DiscordiadorAssumption DEF CpusAcotadas, Cpus

LEMMA MovidosPaso ==
  ASSUME Tipos, MovidosBien, [Next]_vars
  PROVE  MovidosBien'
<1>1. CASE UNCHANGED vars
  BY <1>1 DEF vars, MovidosBien, LlamadasBien, LlamadaBien, MutexBien, Mueve, EnCambio
<1>2. CASE \E h \in Hilos : DelHilo(h)
  BY <1>2, LlamadasPaso, MutexPaso DEF MovidosBien
<1>. QED
  BY <1>1, <1>2 DEF Next, Reposo

LEMMA MovidosSiempre == Spec => []MovidosBien
<1>1. Init => MovidosBien
  BY MovidosInicial
<1>2. Tipos /\ MovidosBien /\ [Next]_vars => MovidosBien'
  BY MovidosPaso
<1>. QED
  BY <1>1, <1>2, TiposSiempre, PTL DEF Spec

\* Never are there more members in EXEC and free CPUs than GRADO_MULTITAREA,
\* whatever is expelled, paused or sabotaged meanwhile: nobody takes a member
\* out of EXEC twice for one CPU, nor puts one in without it.
THEOREM CpusAcotadasSiempre == Spec => []CpusAcotadas
<1>1. Init => CpusAcotadas
  BY MovidosInicial
<1>2. Tipos /\ Tipos' /\ MovidosBien /\ CpusAcotadas /\ [Next]_vars => CpusAcotadas'
  <2>. SUFFICES ASSUME Tipos, Tipos', MovidosBien, CpusAcotadas, [Next]_vars PROVE CpusAcotadas'
    OBVIOUS
  <2>1. CASE UNCHANGED vars
    BY <2>1 DEF vars, CpusAcotadas, Cpus, EnElPlanificador, EnExec, EnCambio
  <2>2. CASE \E h \in Hilos : DelHilo(h)
    BY <2>2, CpusPaso DEF MovidosBien
  <2>. QED
    BY <2>1, <2>2 DEF Next, Reposo
<1>. QED
  BY <1>1, <1>2, TiposSiempre, MovidosSiempre, PTL DEF Spec

-------------------------------------------------------------------------------
\* Who there is.  A member whose thread has not been started is in no queue, no
\* call and no list but the console's.
Vivo(t) == trip[t].estado # NULL
NuevosBien ==
  /\ pc["consola"] \in {"iniciar_tripulante", "encolar", "encolado"} => IsInjective(lista["consola"])
  /\ pc["consola"] = "iniciar_tripulante" =>
       \A t \in Tripulantes : Contains(lista["consola"], t) => ~Vivo(t)
  /\ pc["consola"] \in {"encolar", "encolado"} =>
       /\ Vivo(Head(lista["consola"]))
       /\ \A t \in Tripulantes : Contains(Tail(lista["consola"]), t) => ~Vivo(t)
EnSabotaje(t) == \/ Contains(lista["sabotaje"], t)
                 \/ Contains(sabo.cola_exec, t) \/ Contains(sabo.cola_ready, t)
                 \/ sabo.elegido = t
EnColasVivos == \A t \in Tripulantes, e \in Estados : Contains(colas[e], t) => Vivo(t)
EnSabotajeVivos == \A t \in Tripulantes : EnSabotaje(t) => Vivo(t)
VivosBien ==
  /\ NuevosBien /\ EnColasVivos /\ EnSabotajeVivos
  /\ \A t \in Tripulantes : pc[t] # "sin_crear" => Vivo(t)
  /\ \A h \in Hilos : cambio[h] # NULL => Vivo(cambio[h].t)

\* A thread changes its own list, and the sabotage alone what it has.
LEMMA ListasDe ==
  ASSUME Tipos, NEW h \in Hilos, DelHilo(h)
  PROVE  /\ \A k \in Hilos \ {h} : lista'[k] = lista[k]
         /\ h # "sabotaje" => sabo' = sabo
<1>1. ASSUME NEW l, lista' = [lista EXCEPT ![h] = l] PROVE \A k \in Hilos \ {h} : lista'[k] = lista[k]
  BY <1>1 DEF Tipos, DeLista
<1>2. CASE CambiarEstado(h)
  BY <1>2 DEF CambiarEstado, CambiarNada, CambiarTomar, CambiarSacar, CambiarAgregar, SuaveSacar, SuaveAgregar, ordenVars
<1>3. CASE h = "planificador" /\ Planificador
  BY <1>3 DEF Planificador, PlanEsperarCpu, PlanEsperarReady, PlanEsperarPlanificacion, PasarUnoAExec, PlanPost,
              EsperarYSeguir, ordenVars
<1>4. CASE h = "consola" /\ Consola
  <2>1. CASE PedirIniciar \/ PedirPausar \/ IniciarTripulante \/ IniciarEncolar \/ ExpulsarMarcar
    BY <2>1 DEF PedirIniciar, PedirPausar, IniciarTripulante, IniciarEncolar, ExpulsarMarcar, Avanzar, ordenVars
  <2>2. CASE IniciarSiguiente \/ ExpulsarDespertar
    BY <1>1, <1>4, <2>2 DEF IniciarSiguiente, ExpulsarDespertar
  <2>3. CASE \E p \in Patotas : IniciarPatota(p)
    BY <1>1, <1>4, <2>3 DEF IniciarPatota
  <2>4. CASE \E t \in Tripulantes : ExpulsarTripulante(t)
    BY <1>1, <1>4, <2>4 DEF ExpulsarTripulante
  <2>. QED
    BY <1>4, <2>1, <2>2, <2>3, <2>4 DEF Consola
<1>5. CASE h = "sabotaje" /\ Sabotaje
  <2>1. CASE SaboEmpezar \/ SaboMirarPausa \/ SaboSinNadie \/ SaboResolver \/ SaboMover
    BY <1>5, <2>1 DEF SaboEmpezar, SaboMirarPausa, SaboSinNadie, SaboResolver, SaboMover, Avanzar, ordenVars
  <2>2. CASE SaboLlegar \/ SaboGuardar \/ SaboDevolver \/ SaboFin
    BY <1>5, <2>2 DEF SaboLlegar, SaboGuardar, SaboDevolver, SaboFin, ordenVars
  <2>3. CASE SaboListar("EXEC", "listar_exec", "listar_ready") \/ SaboListar("READY", "listar_ready", "elegir")
    BY <1>1, <1>5, <2>3 DEF SaboListar
  <2>4. CASE SaboElegir
    BY <1>1, <1>5, <2>4 DEF SaboElegir
  <2>5. CASE SaboBloquear \/ SaboBloquearSuave
    BY <1>1, <1>5, <2>5 DEF SaboBloquear, SaboBloquearSuave
  <2>. QED
    BY <1>5, <2>1, <2>2, <2>3, <2>4, <2>5 DEF Sabotaje
<1>6. CASE h \in Ordenes /\ Orden(h)
  <2>1. CASE IniciarNada(h) \/ IniciarCaida(h) \/ IniciarReanudar(h) \/ PausarNada(h)
    BY <2>1 DEF IniciarNada, IniciarCaida, IniciarReanudar, PausarNada, Avanzar, ordenVars
  <2>2. CASE PausarTomar(h) \/ PausarEsperar(h) \/ PausarFin(h)
    BY <2>2 DEF PausarTomar, PausarEsperar, PausarFin, EsperarYSeguir, ordenVars
  <2>3. CASE IniciarContar(h) \/ IniciarNuevo(h) \/ PausarTodos(h) \/ PausarUno(h)
    BY <1>1, <2>3 DEF IniciarContar, IniciarNuevo, PausarTodos, PausarUno
  <2>. QED
    BY <1>6, <2>1, <2>2, <2>3 DEF Orden
<1>7. CASE h \in Tripulantes /\ Tripulante(h)
  <2>1. CASE PasarPausa(h) \/ EsperarSemaforo(h) \/ Seguir(h) \/ Salir(h) \/ SalirDeReady(h) \/ TomarContador(h)
    BY <2>1 DEF PasarPausa, EsperarSemaforo, Seguir, Salir, SalirDeReady, TomarContador, Avanzar, ordenVars
  <2>2. CASE DejarCpu(h) \/ PedirIO(h) \/ TomarDispositivo(h) \/ HacerTarea(h) \/ Moverse(h) \/ Terminar(h)
    BY <2>2 DEF DejarCpu, PedirIO, TomarDispositivo, HacerTarea, Moverse, Terminar, EsperarYSeguir, ordenVars
  <2>3. CASE TerminoListar(h) \/ FaltaAlguno(h) \/ DestruirTodos(h)
    BY <1>1, <2>3 DEF TerminoListar, FaltaAlguno, DestruirTodos
  <2>4. CASE EstanTodos(h) \/ Destruirse(h)
    BY <2>4 DEF EstanTodos, Destruirse, Avanzar, ordenVars
  <2>. QED
    BY <1>7, <2>1, <2>2, <2>3, <2>4 DEF Tripulante
<1>. QED
  BY <1>2, <1>3, <1>4, <1>5, <1>6, <1>7 DEF DelHilo

\* What the queues lose and gain.
LEMMA ColasPasa ==
  ASSUME Tipos, NEW h \in Hilos, CambiarEstado(h)
  PROVE  /\ cambio[h].t \in Tripulantes
         /\ UNCHANGED <<lista, sabo, usos, mutex_pausa, pausa, planificando>>
         /\ \/ colas' = colas
            \/ /\ CambiarSacar(h) \/ SuaveSacar(h)
               /\ colas' = [colas EXCEPT ![cambio[h].viejo] = RemoveFirst(@, cambio[h].t)]
            \/ /\ CambiarAgregar(h) \/ SuaveAgregar(h)
               /\ colas' = [colas EXCEPT ![cambio[h].nuevo] = Append(@, cambio[h].t)]
<1>1. cambio[h] \in TCambio
  BY CambiarPasa
<1>2. UNCHANGED <<lista, sabo, usos, mutex_pausa, pausa, planificando>>
  BY DEF CambiarEstado, CambiarNada, CambiarTomar, CambiarSacar, CambiarAgregar, SuaveSacar, SuaveAgregar, ordenVars, banderas
<1>. QED
  BY <1>1, <1>2 DEF CambiarEstado, CambiarNada, CambiarTomar, CambiarSacar, CambiarAgregar, SuaveSacar, SuaveAgregar,
                    colasVars, TCambio

LEMMA TodosDe ==
  ASSUME DeColas, NEW t, Contains(Todos, t)
  PROVE  \E e \in Estados : Contains(colas[e], t)
<1>. DEFINE a == colas["NEW"]
            b == colas["READY"]
            c == colas["EXEC"]
            d == colas["BLOCKED"]
            f == colas["EXIT"]
<1>1. /\ a \in Seq(Tripulantes) /\ b \in Seq(Tripulantes) /\ c \in Seq(Tripulantes)
      /\ d \in Seq(Tripulantes) /\ f \in Seq(Tripulantes)
  BY DEF DeColas, Estados
<1>2. Todos = (((a \o b) \o c) \o d) \o f
  BY DEF Todos
<1>. DEFINE ab == a \o b
            abc == ab \o c
            abcd == abc \o d
<1>. HIDE DEF a, b, c, d, f
<1>3. ab \in Seq(Tripulantes)
  BY <1>1, ConcatProperties
<1>. HIDE DEF ab
<1>4. abc \in Seq(Tripulantes)
  BY <1>1, <1>3, ConcatProperties
<1>. HIDE DEF abc
<1>5. abcd \in Seq(Tripulantes)
  BY <1>1, <1>4, ConcatProperties
<1>. HIDE DEF abcd
<1>6. Contains(abcd \o f, t)
  BY <1>2 DEF abcd, abc, ab
<1>7. Contains(abcd, t) \/ Contains(f, t)
  BY <1>1, <1>5, <1>6, UnirDe
<1>8. Contains(abcd, t) => Contains(abc, t) \/ Contains(d, t)
  BY <1>1, <1>4, UnirDe DEF abcd
<1>9. Contains(abc, t) => Contains(ab, t) \/ Contains(c, t)
  BY <1>1, <1>3, UnirDe DEF abc
<1>10. Contains(ab, t) => Contains(a, t) \/ Contains(b, t)
  BY <1>1, UnirDe DEF ab
<1>. QED
  BY <1>7, <1>8, <1>9, <1>10 DEF a, b, c, d, f, Estados

\* The queues hold whom they held, and in cambiar_estado whom the call is for.
LEMMA ColasMasUno ==
  ASSUME Tipos, NEW h \in Hilos, CambiarEstado(h), NEW e \in Estados, NEW t, Contains(colas'[e], t)
  PROVE  Contains(colas[e], t) \/ t = cambio[h].t
<1>1. cambio[h] \in TCambio /\ colas[e] \in Seq(Tripulantes) /\ cambio[h].t \in Tripulantes
  BY CambiarPasa DEF TCambio, Tipos, DeColas
<1>2. \/ colas'[e] = colas[e] \/ colas'[e] = RemoveFirst(colas[e], cambio[h].t)
      \/ colas'[e] = Append(colas[e], cambio[h].t)
  BY ColasPasa DEF Tipos, DeColas
<1>3. ASSUME colas'[e] = RemoveFirst(colas[e], cambio[h].t) PROVE Contains(colas[e], t)
  BY <1>1, <1>3, SacarMenos
<1>4. ASSUME colas'[e] = Append(colas[e], cambio[h].t) PROVE Contains(colas[e], t) \/ t = cambio[h].t
  BY <1>1, <1>4, AgregarDe
<1>. QED
  BY <1>2, <1>3, <1>4

LEMMA ColasSoloMenos ==
  ASSUME Tipos, NEW h \in Hilos, Huella(h), NEW e \in Estados, NEW t, Contains(colas'[e], t)
  PROVE  Contains(colas[e], t)
<1>1. CASE colas' = colas
  BY <1>1
<1>2. CASE h \in Tripulantes /\ DestruirTodos(h)
  <2>1. colas' = [colas EXCEPT !["EXIT"] = Los(@, Tripulantes \ ToSet(lista[h]))]
    BY <1>2 DEF DestruirTodos
  <2>2. colas'[e] = colas[e] \/ colas'[e] = Los(colas[e], Tripulantes \ ToSet(lista[h]))
    BY <2>1 DEF Tipos, DeColas
  <2>3. colas[e] \in Seq(Tripulantes)
    BY DEF Tipos, DeColas
  <2>. QED
    BY <2>2, <2>3, LosDe
<1>. QED
  BY <1>1, <1>2 DEF Huella

LEMMA EstadosPasa ==
  ASSUME Tipos, NEW h \in Hilos, CambiarEstado(h), NEW u \in Tripulantes
  PROVE  \/ trip'[u].estado = trip[u].estado
         \/ CambiarSacar(h) /\ u = cambio[h].t /\ trip'[u].estado = cambio[h].nuevo /\ cambio[h].nuevo \in Estados
<1>1. CASE CambiarNada(h) \/ SuaveSacar(h) \/ SuaveAgregar(h)
  BY <1>1, SuaveDe
<1>2. CASE CambiarTomar(h)
  BY <1>2, TomarDe
<1>3. CASE CambiarAgregar(h)
  BY <1>3, AgregandoDe
<1>4. CASE CambiarSacar(h)
  BY <1>4, SacandoDe
<1>. QED
  BY <1>1, <1>2, <1>3, <1>4 DEF CambiarEstado

\* What a thread does out of a call, if nobody's life changes.
LEMMA NuevosHuella ==
  ASSUME Tipos, NuevosBien, NEW h \in Hilos, DelHilo(h), Huella(h), ~IniciarTripulante
  PROVE  NuevosBien'
<1>. DEFINE k == "consola"
            l == lista["consola"]
<1>1. k \in Hilos /\ k \notin Tripulantes /\ l \in Seq(Tripulantes)
  BY NombresAssumption DEF Hilos, Tipos, DeLista
<1>2. \A t \in Tripulantes : Vivo(t)' <=> Vivo(t)
  BY DEF Huella, Vivo
<1>3. l # <<>> => Head(l) \in Tripulantes
  BY <1>1, CabezaDe, HeadTailProperties
<1>4. CASE h # k
  <2>1. pc'[k] = pc[k] /\ lista'[k] = lista[k]
    BY <1>1, <1>4, ListasDe DEF Huella
  <2>2. pc[k] \in {"encolar", "encolado"} => l # <<>>
    BY DEF Tipos, Puestos, ConLista
  <2>. QED
    BY <1>2, <1>3, <2>1, <2>2 DEF NuevosBien, Vivo
<1>5. CASE h = k
  <2>1. ASSUME pc'[k] \notin {"iniciar_tripulante", "encolar", "encolado"} PROVE NuevosBien'
    BY <2>1 DEF NuevosBien
  <2>2. ASSUME NEW a, NEW b, Ir(k, a, b) PROVE pc[k] = a /\ pc'[k] = b
    BY <1>1, <2>2 DEF Ir, En, Tipos, DePc
  <2>3. Orden(k) \/ Consola
    <3>1. ~CambiarEstado(k)
      BY <1>5 DEF Huella, CambiarEstado, CambiarNada, CambiarTomar, CambiarSacar, CambiarAgregar, SuaveSacar, SuaveAgregar, EnCambio
    <3>. QED
      BY <1>1, <1>5, <3>1 DEF DelHilo
  <2>4. CASE Orden(k)
    <3>1. TrasPausar(k) \notin {"iniciar_tripulante", "encolar", "encolado"}
      BY DEF TrasPausar
    <3>2. CASE IniciarNada(k) \/ IniciarContar(k) \/ IniciarNuevo(k) \/ IniciarCaida(k) \/ IniciarReanudar(k)
      BY <2>1, <2>2, <3>2 DEF IniciarNada, IniciarContar, IniciarNuevo, IniciarCaida, IniciarReanudar, Avanzar
    <3>3. CASE PausarNada(k) \/ PausarTomar(k) \/ PausarEsperar(k) \/ PausarTodos(k) \/ PausarUno(k) \/ PausarFin(k)
      BY <2>1, <2>2, <3>1, <3>3
         DEF PausarNada, PausarTomar, PausarEsperar, PausarTodos, PausarUno, PausarFin, Avanzar, EsperarYSeguir
    <3>. QED
      BY <2>4, <3>2, <3>3 DEF Orden
  <2>5. CASE PedirIniciar \/ PedirPausar
    BY <2>1, <2>2, <2>5 DEF PedirIniciar, PedirPausar, Avanzar
  <2>6. CASE (\E t \in Tripulantes : ExpulsarTripulante(t)) \/ ExpulsarMarcar \/ ExpulsarDespertar
    BY <2>1, <2>2, <2>6 DEF ExpulsarTripulante, ExpulsarMarcar, ExpulsarDespertar
  <2>7. CASE \E p \in Patotas : IniciarPatota(p)
    <3>1. PICK p \in Patotas : IniciarPatota(p)
      BY <2>7
    <3>2. /\ pc'[k] = "iniciar_tripulante" /\ lista'[k] = p
          /\ \A t \in ToSet(p) : trip[t].estado = NULL
      BY <1>1, <2>2, <3>1 DEF IniciarPatota, Tipos, DeLista
    <3>3. IsInjective(p)
      BY DiscordiadorAssumption
    <3>4. ASSUME NEW t \in Tripulantes, Contains(p, t) PROVE ~Vivo(t)'
      <4>1. t \in ToSet(p)
        BY <3>4, DiscordiadorAssumption, LenProperties DEF Contains, ToSet
      <4>. QED
        BY <1>2, <3>2, <4>1 DEF Vivo
    <3>. QED
      BY <3>2, <3>3, <3>4 DEF NuevosBien
  <2>8. CASE IniciarEncolar
    <3>1. pc[k] = "encolar" /\ pc'[k] = "encolado" /\ lista' = lista
      BY <2>2, <2>8 DEF IniciarEncolar, ordenVars
    <3>2. l # <<>>
      BY <3>1 DEF Tipos, Puestos, ConLista
    <3>. QED
      BY <1>2, <1>3, <3>1, <3>2 DEF NuevosBien, Vivo
  <2>9. CASE IniciarSiguiente
    <3>1. /\ pc[k] = "encolado" /\ lista'[k] = Tail(l)
          /\ pc'[k] = "esperar" \/ pc'[k] = "iniciar_tripulante"
      BY <1>1, <2>2, <2>9 DEF IniciarSiguiente, Tipos, DeLista
    <3>2. l # <<>>
      BY <3>1 DEF Tipos, Puestos, ConLista
    <3>3. IsInjective(l) /\ \A t \in Tripulantes : Contains(Tail(l), t) => ~Vivo(t)
      BY <3>1 DEF NuevosBien
    <3>4. IsInjective(Tail(l))
      BY <1>1, <3>2, <3>3, ColaDe
    <3>. QED
      BY <1>2, <2>1, <3>1, <3>3, <3>4 DEF NuevosBien
  <2>10. ~IniciarTripulante
    OBVIOUS
  <2>. QED
    BY <2>3, <2>4, <2>5, <2>6, <2>7, <2>8, <2>9, <2>10 DEF Consola
<1>. QED
  BY <1>4, <1>5

\* What the sabotage has in hand it took from the queues.
LEMMA SabotajeHuella ==
  ASSUME Tipos, VivosBien, NEW h \in Hilos, DelHilo(h), Huella(h), NEW t \in Tripulantes, EnSabotaje(t)'
  PROVE  Vivo(t)
<1>. DEFINE k == "sabotaje"
            l == lista["sabotaje"]
<1>1. /\ k \in Hilos /\ k \notin Tripulantes /\ l \in Seq(Tripulantes) /\ DeSabo /\ NULL \notin Tripulantes
      /\ sabo.cola_exec \in Seq(Tripulantes) /\ sabo.cola_ready \in Seq(Tripulantes)
      /\ \A e \in Estados : colas[e] \in Seq(Tripulantes)
  BY NombresAssumption DEF Hilos, Tipos, DeLista, DeSabo, TSabotaje, DeColas
<1>2. EnSabotaje(t) => Vivo(t)
  BY DEF VivosBien, EnSabotajeVivos
<1>3. ASSUME NEW e \in Estados, Contains(colas[e], t) PROVE Vivo(t)
  BY <1>3 DEF VivosBien, EnColasVivos
<1>4. ASSUME NEW s \in Seq(Tripulantes), NEW x \in Tripulantes, NEW r,
             r = s \/ r = Append(s, x), Contains(r, t)
      PROVE  Contains(s, t) \/ t = x
  <2>1. CASE r = s
    BY <1>4, <2>1
  <2>2. CASE r = Append(s, x)
    BY <1>4, <2>2, AgregarDe
  <2>. QED
    BY <1>4, <2>1, <2>2
<1>5. ASSUME NEW s \in Seq(Tripulantes), NEW r, r = s \/ (s # <<>> /\ r = Tail(s)), Contains(r, t)
      PROVE  Contains(s, t)
  BY <1>5, CabezaDe
<1>6. CASE h # k
  <2>1. lista'[k] = lista[k] /\ sabo' = sabo
    BY <1>1, <1>6, ListasDe
  <2>. QED
    BY <1>2, <2>1 DEF EnSabotaje
<1>7. CASE h = k
  <2>1. ASSUME NEW s, lista'[k] = s, sabo' = sabo, Contains(s, t) => Vivo(t) PROVE Vivo(t)
    BY <1>2, <2>1 DEF EnSabotaje
  <2>2. ASSUME NEW s, lista' = [lista EXCEPT ![k] = s] PROVE lista'[k] = s
    BY <1>1, <2>2 DEF Tipos, DeLista
  <2>3. Orden(k) \/ Sabotaje
    <3>1. ~CambiarEstado(k)
      BY <1>7 DEF Huella, CambiarEstado, CambiarNada, CambiarTomar, CambiarSacar, CambiarAgregar, SuaveSacar, SuaveAgregar, EnCambio
    <3>. QED
      BY <1>1, <1>7, <3>1 DEF DelHilo
  <2>4. CASE Orden(k)
    <3>1. CASE IniciarNada(k) \/ IniciarCaida(k) \/ IniciarReanudar(k) \/ PausarNada(k) \/ PausarTomar(k)
               \/ PausarEsperar(k) \/ PausarFin(k)
      <4>1. UNCHANGED <<lista, sabo>>
        BY <3>1 DEF IniciarNada, IniciarCaida, IniciarReanudar, PausarNada, PausarTomar, PausarEsperar, PausarFin,
                    Avanzar, EsperarYSeguir, ordenVars
      <4>. QED
        BY <1>2, <4>1 DEF EnSabotaje
    <3>2. CASE IniciarContar(k)
      <4>1. lista'[k] = colas["NEW"] /\ sabo' = sabo /\ "NEW" \in Estados
        BY <2>2, <3>2 DEF IniciarContar, Estados
      <4>. QED
        BY <1>3, <2>1, <4>1
    <3>3. CASE PausarTodos(k)
      <4>1. lista'[k] = Todos /\ sabo' = sabo
        BY <2>2, <3>3 DEF PausarTodos
      <4>2. Contains(Todos, t) => Vivo(t)
        BY <1>3, TodosDe DEF Tipos
      <4>. QED
        BY <2>1, <4>1, <4>2
    <3>4. CASE IniciarNuevo(k) \/ PausarUno(k)
      <4>1. lista'[k] = Tail(l) /\ sabo' = sabo /\ l # <<>>
        BY <2>2, <3>4 DEF IniciarNuevo, PausarUno
      <4>2. Contains(Tail(l), t) => Contains(l, t)
        BY <1>1, <4>1, CabezaDe
      <4>. QED
        BY <1>2, <2>1, <4>1, <4>2 DEF EnSabotaje
    <3>. QED
      BY <2>4, <3>1, <3>2, <3>3, <3>4 DEF Orden
  <2>5. CASE SaboMirarPausa \/ SaboSinNadie \/ SaboMover \/ SaboLlegar \/ SaboFin \/ SaboEmpezar \/ SaboResolver
    <3>1. /\ lista' = lista /\ sabo'.cola_exec = sabo.cola_exec /\ sabo'.cola_ready = sabo.cola_ready
          /\ sabo'.elegido = sabo.elegido
      BY <1>1, <2>5 DEF SaboMirarPausa, SaboSinNadie, SaboMover, SaboLlegar, SaboFin, SaboEmpezar, SaboResolver,
                        Avanzar, ordenVars, DeSabo, TSabotaje
    <3>. QED
      BY <1>2, <3>1 DEF EnSabotaje
  <2>6. ASSUME NEW e \in Estados, NEW a, NEW b, SaboListar(e, a, b) PROVE Vivo(t)
    <3>1. lista'[k] = l \o colas[e] /\ sabo' = sabo
      BY <2>2, <2>6 DEF SaboListar
    <3>2. Contains(l \o colas[e], t) => Contains(l, t) \/ Contains(colas[e], t)
      BY <1>1, UnirDe
    <3>. QED
      BY <1>2, <1>3, <2>1, <3>1, <3>2 DEF EnSabotaje
  <2>7. CASE SaboElegir
    <3>. DEFINE e == MasCercano(l)
    <3>1. /\ lista' = [lista EXCEPT ![k] = Los(l, Tripulantes \ {sabo'.elegido})]
          /\ sabo' = [sabo EXCEPT !.elegido = e]
      BY <2>7 DEF SaboElegir
    <3>2. e = t => Contains(l, t)
      BY <1>1, MasCercanoTipo DEF Tipos
    <3>. HIDE DEF e
    <3>3. /\ sabo'.cola_exec = sabo.cola_exec /\ sabo'.cola_ready = sabo.cola_ready /\ sabo'.elegido = e
          /\ lista'[k] = Los(l, Tripulantes \ {sabo'.elegido})
      BY <1>1, <2>2, <3>1 DEF DeSabo, TSabotaje
    <3>4. Contains(lista'[k], t) => Contains(l, t)
      BY <1>1, <3>3, LosDe
    <3>. QED
      BY <1>2, <3>2, <3>3, <3>4 DEF EnSabotaje
  <2>8. CASE SaboBloquear
    <3>. DEFINE cola == IF trip[Head(l)].estado = "READY" THEN "cola_ready" ELSE "cola_exec"
    <3>1. /\ l # <<>> /\ lista' = lista
          /\ sabo' = [sabo EXCEPT ![cola] = Append(@, Head(l))]
          /\ cola \in {"cola_ready", "cola_exec"}
      BY <2>2, <2>8 DEF SaboBloquear
    <3>. HIDE DEF cola
    <3>2. /\ sabo'.elegido = sabo.elegido
          /\ sabo'.cola_exec = sabo.cola_exec \/ sabo'.cola_exec = Append(sabo.cola_exec, Head(l))
          /\ sabo'.cola_ready = sabo.cola_ready \/ sabo'.cola_ready = Append(sabo.cola_ready, Head(l))
      BY <1>1, <3>1 DEF DeSabo, TSabotaje
    <3>3. Contains(l, Head(l)) /\ Head(l) \in Tripulantes
      BY <1>1, <3>1, CabezaDe, HeadTailProperties
    <3>4. /\ Contains(sabo'.cola_exec, t) => Contains(sabo.cola_exec, t) \/ t = Head(l)
          /\ Contains(sabo'.cola_ready, t) => Contains(sabo.cola_ready, t) \/ t = Head(l)
      BY <1>1, <1>4, <3>2, <3>3
    <3>. QED
      BY <1>2, <3>1, <3>2, <3>3, <3>4 DEF EnSabotaje
  <2>11. CASE SaboBloquearSuave
    <3>1. l # <<>> /\ lista'[k] = Tail(l) /\ sabo' = sabo
      BY <2>2, <2>11 DEF SaboBloquearSuave, Tipos, Puestos, Ir, En
    <3>2. Contains(Tail(l), t) => Contains(l, t)
      BY <1>1, <3>1, CabezaDe
    <3>. QED
      BY <1>2, <3>1, <3>2 DEF EnSabotaje
  <2>9. CASE SaboGuardar
    <3>. DEFINE cola == IF sabo.estaba_en_ready THEN "cola_ready" ELSE "cola_exec"
                x == sabo.elegido
    <3>1. /\ lista' = lista /\ pc[k] = "guardar"
          /\ sabo' = [sabo EXCEPT ![cola] = Append(@, x), !.elegido = NULL]
          /\ cola \in {"cola_ready", "cola_exec"}
      BY <2>9 DEF SaboGuardar, Ir, En
    <3>. HIDE DEF cola
    <3>2. x \in Tripulantes
      BY <1>1, <3>1 DEF Tipos, Puestos, DeSabo, TSabotaje
    <3>3. /\ sabo'.elegido = NULL
          /\ sabo'.cola_exec = sabo.cola_exec \/ sabo'.cola_exec = Append(sabo.cola_exec, x)
          /\ sabo'.cola_ready = sabo.cola_ready \/ sabo'.cola_ready = Append(sabo.cola_ready, x)
      BY <1>1, <3>1 DEF DeSabo, TSabotaje
    <3>4. /\ Contains(sabo'.cola_exec, t) => Contains(sabo.cola_exec, t) \/ t = x
          /\ Contains(sabo'.cola_ready, t) => Contains(sabo.cola_ready, t) \/ t = x
      BY <1>1, <1>4, <3>2, <3>3
    <3>. QED
      BY <1>1, <1>2, <3>1, <3>3, <3>4 DEF EnSabotaje
  <2>10. CASE SaboDevolver
    <3>. DEFINE cola == IF sabo.cola_exec # <<>> THEN "cola_exec" ELSE "cola_ready"
    <3>1. /\ lista' = lista /\ sabo[cola] # <<>>
          /\ sabo' = [sabo EXCEPT ![cola] = Tail(@)]
          /\ cola \in {"cola_ready", "cola_exec"}
      BY <2>10 DEF SaboDevolver
    <3>. HIDE DEF cola
    <3>2. /\ sabo'.elegido = sabo.elegido
          /\ sabo'.cola_exec = sabo.cola_exec \/ (sabo.cola_exec # <<>> /\ sabo'.cola_exec = Tail(sabo.cola_exec))
          /\ sabo'.cola_ready = sabo.cola_ready \/ (sabo.cola_ready # <<>> /\ sabo'.cola_ready = Tail(sabo.cola_ready))
      BY <1>1, <3>1 DEF DeSabo, TSabotaje
    <3>3. /\ Contains(sabo'.cola_exec, t) => Contains(sabo.cola_exec, t)
          /\ Contains(sabo'.cola_ready, t) => Contains(sabo.cola_ready, t)
      BY <1>1, <1>5, <3>2
    <3>. QED
      BY <1>2, <3>1, <3>2, <3>3 DEF EnSabotaje
  <2>. QED
    BY <2>3, <2>4, <2>5, <2>6, <2>7, <2>8, <2>9, <2>10, <2>11 DEF Sabotaje, Estados
<1>. QED
  BY <1>6, <1>7

\* Who a thread begins a call for lives.
LEMMA LlamadaViva ==
  ASSUME Tipos, VivosBien, NEW h \in Hilos, Huella(h), cambio'[h] # NULL
  PROVE  cambio'[h].t \in Tripulantes /\ Vivo(cambio'[h].t)
<1>. DEFINE c == cambio'[h]
<1>1. /\ \A e \in Estados : colas[e] \in Seq(Tripulantes)
      /\ \A k \in Hilos : lista[k] \in Seq(Tripulantes)
      /\ DeCambio /\ DeSabo
      /\ sabo.cola_exec \in Seq(Tripulantes) /\ sabo.cola_ready \in Seq(Tripulantes)
  BY DEF Tipos, DeColas, DeLista, DeSabo, TSabotaje
<1>2. Llamada(h)
  BY DEF Huella
<1>3. ASSUME NEW t, NEW e \in Estados, Contains(colas[e], t) PROVE t \in Tripulantes /\ Vivo(t)
  <2>1. t \in Tripulantes
    BY <1>1, <1>3, ElementOfSeq DEF Contains
  <2>. QED
    BY <1>3, <2>1 DEF VivosBien, EnColasVivos
<1>4. CASE h \in Tripulantes /\ pc[h] # "sin_crear" /\ c.t = h
  BY <1>4 DEF VivosBien
<1>5. CASE Contains(colas["READY"], c.t)
  BY <1>3, <1>5 DEF Estados
<1>6. CASE IniciarNuevo(h) /\ c.t = Head(colas["NEW"])
  <2>1. "NEW" \in Estados /\ colas["NEW"] # <<>>
    BY <1>6 DEF Estados, IniciarNuevo
  <2>2. Contains(colas["NEW"], Head(colas["NEW"]))
    BY <1>1, <2>1, CabezaDe
  <2>. QED
    BY <1>3, <1>6, <2>1, <2>2
<1>7. CASE h = "consola" /\ pc[h] = "encolar" /\ c.t = Head(lista[h])
  <2>1. lista[h] # <<>>
    BY <1>7 DEF Tipos, Puestos, ConLista
  <2>2. Head(lista[h]) \in Tripulantes
    BY <1>1, <2>1, HeadTailProperties
  <2>. QED
    BY <1>7, <2>2 DEF VivosBien, NuevosBien
<1>8. CASE h = "sabotaje" /\ (SaboBloquearSuave \/ SaboResolver \/ SaboLlegar \/ SaboDevolver)
  <2>1. ASSUME NEW t \in Tripulantes, EnSabotaje(t) PROVE Vivo(t)
    BY <2>1 DEF VivosBien, EnSabotajeVivos
  <2>2. ASSUME NEW s \in Seq(Tripulantes), s # <<>> PROVE Head(s) \in Tripulantes /\ Contains(s, Head(s))
    BY <2>2, CabezaDe, HeadTailProperties
  <2>3. ASSUME NEW t, NEW v, NEW e, CambiarSuave("sabotaje", t, v, e) PROVE c.t = t
    BY <1>1, <1>8, <2>3, CambiarSuaveDe
  <2>4. CASE SaboBloquearSuave
    <3>1. lista[h] # <<>> /\ c.t = Head(lista[h])
      BY <1>8, <2>3, <2>4 DEF SaboBloquearSuave, Tipos, Puestos, Ir, En
    <3>2. Head(lista[h]) \in Tripulantes /\ Contains(lista[h], Head(lista[h]))
      BY <1>1, <2>2, <3>1
    <3>. QED
      BY <1>8, <2>1, <3>1, <3>2 DEF EnSabotaje
  <2>5. CASE SaboResolver
    <3>1. sabo.elegido # NULL
      BY <2>5 DEF SaboResolver
    <3>2. cambio[h] = NULL
      BY DEF Huella
    <3>3. CambiarSuave("sabotaje", sabo.elegido, "READY", "EXEC") \/ cambio' = cambio
      BY <2>5 DEF SaboResolver
    <3>4. c.t = sabo.elegido
      BY <2>3, <3>2, <3>3
    <3>5. sabo.elegido \in Tripulantes
      BY <1>1, <3>1 DEF DeSabo, TSabotaje
    <3>. QED
      BY <2>1, <3>4, <3>5 DEF EnSabotaje
  <2>6. CASE SaboLlegar
    <3>1. pc["sabotaje"] = "mover" /\ c.t = sabo.elegido
      BY <2>3, <2>6 DEF SaboLlegar, Ir, En
    <3>2. sabo.elegido \in Tripulantes
      BY <1>1, <3>1 DEF Tipos, Puestos, DeSabo, TSabotaje
    <3>. QED
      BY <2>1, <3>1, <3>2 DEF EnSabotaje
  <2>7. CASE SaboDevolver
    <3>. DEFINE cola == IF sabo.cola_exec # <<>> THEN "cola_exec" ELSE "cola_ready"
    <3>1. sabo[cola] # <<>> /\ c.t = Head(sabo[cola]) /\ cola \in {"cola_exec", "cola_ready"}
      BY <2>3, <2>7 DEF SaboDevolver
    <3>. HIDE DEF cola
    <3>2. Head(sabo[cola]) \in Tripulantes /\ Contains(sabo[cola], Head(sabo[cola]))
      BY <1>1, <2>2, <3>1
    <3>. QED
      BY <2>1, <3>1, <3>2 DEF EnSabotaje
  <2>. QED
    BY <1>8, <2>4, <2>5, <2>6, <2>7
<1>. QED
  BY <1>2, <1>4, <1>5, <1>6, <1>7, <1>8 DEF Llamada

LEMMA VivosPaso ==
  ASSUME Tipos, VivosBien, NEW h \in Hilos, DelHilo(h)
  PROVE  VivosBien'
<1>0. /\ NULL \notin Estados /\ Tripulantes \subseteq Hilos
      /\ "consola" \in Hilos /\ "consola" \notin Tripulantes
  BY NombresAssumption DEF Hilos
<1>1. CASE CambiarEstado(h)
  <2>1. /\ pc' = pc /\ cambio[h] # NULL /\ \A k \in Hilos \ {h} : cambio'[k] = cambio[k]
        /\ cambio'[h] = NULL \/ cambio'[h].t = cambio[h].t
    BY <1>1, CambiarPasa
  <2>2. /\ cambio[h].t \in Tripulantes /\ UNCHANGED <<lista, sabo>>
        /\ \A k \in Hilos : cambio[k] # NULL => cambio[k].t \in Tripulantes
    BY <1>1, ColasPasa, ElCambio DEF Tipos
  <2>3. Vivo(cambio[h].t)
    BY <2>1 DEF VivosBien
  <2>4. \A u \in Tripulantes : Vivo(u)' <=> Vivo(u)
    BY <1>0, <1>1, <2>3, EstadosPasa DEF Vivo
  <2>5. \A t \in Tripulantes, e \in Estados : Contains(colas'[e], t) => Vivo(t)
    BY <1>1, <2>3, ColasMasUno DEF VivosBien, EnColasVivos
  <2>6. EnColasVivos'
    BY <2>4, <2>5 DEF EnColasVivos
  <2>7. \A t \in Tripulantes : EnSabotaje(t)' <=> EnSabotaje(t)
    BY <2>2 DEF EnSabotaje
  <2>8. EnSabotajeVivos'
    BY <2>4, <2>7 DEF VivosBien, EnSabotajeVivos
  <2>9. NuevosBien'
    <3>1. pc["consola"] \in {"encolar", "encolado"} => Head(lista["consola"]) \in Tripulantes
      BY <1>0, HeadTailProperties DEF Tipos, Puestos, ConLista, DeLista
    <3>. QED
      BY <2>1, <2>2, <2>4, <3>1 DEF VivosBien, NuevosBien, Vivo
  <2>10. \A k \in Hilos : cambio'[k] # NULL => Vivo(cambio[k].t)'
    BY <2>1, <2>2, <2>3, <2>4 DEF VivosBien, Vivo
  <2>11. \A t \in Tripulantes : pc'[t] # "sin_crear" => Vivo(t)'
    BY <2>1, <2>4 DEF VivosBien
  <2>. QED
    BY <2>6, <2>8, <2>9, <2>10, <2>11 DEF VivosBien, Vivo
<1>2. CASE IniciarTripulante
  <2>. DEFINE t == Head(lista["consola"])
              l == lista["consola"]
  <2>1. /\ t \in Tripulantes /\ l \in Seq(Tripulantes) /\ l # <<>>
        /\ pc["consola"] = "iniciar_tripulante" /\ pc'["consola"] = "encolar"
        /\ \A k \in Hilos \ {"consola", t} : pc'[k] = pc[k]
        /\ UNCHANGED <<colas, cambio, lista, sabo>>
        /\ \A u \in Tripulantes : trip'[u].estado = IF u = t THEN "NEW" ELSE trip[u].estado
    BY <1>2, IniciarDe
  <2>2. \A u \in Tripulantes : Vivo(u)' <=> Vivo(u) \/ u = t
    BY <1>0, <2>1 DEF Vivo, Estados
  <2>3. NuevosBien'
    <3>1. IsInjective(l) /\ \A u \in Tripulantes : Contains(l, u) => ~Vivo(u)
      BY <2>1 DEF VivosBien, NuevosBien
    <3>2. \A u : Contains(Tail(l), u) => Contains(l, u) /\ u # t
      BY <2>1, <3>1, ColaDe
    <3>3. lista'["consola"] = l
      BY <2>1
    <3>4. ASSUME NEW u, u = t PROVE Vivo(u)'
      BY <2>1, <2>2, <3>4
    <3>5. Vivo(Head(lista["consola"]))'
      BY <2>1, <3>4 DEF Vivo
    <3>. HIDE DEF t, l
    <3>6. \A u \in Tripulantes : Contains(Tail(l), u) => ~(Vivo(u)')
      BY <2>2, <3>1, <3>2
    <3>. QED
      BY <2>1, <3>1, <3>3, <3>5, <3>6 DEF NuevosBien
  <2>. HIDE DEF t
  <2>4. EnColasVivos' /\ EnSabotajeVivos'
    BY <2>1, <2>2 DEF VivosBien, EnColasVivos, EnSabotajeVivos, EnSabotaje
  <2>5. \A u \in Tripulantes : pc'[u] # "sin_crear" => Vivo(u)'
    BY <1>0, <2>1, <2>2 DEF VivosBien
  <2>6. \A k \in Hilos : cambio'[k] # NULL => Vivo(cambio[k].t)'
    <3>1. \A k \in Hilos : cambio[k] # NULL => cambio[k].t \in Tripulantes
      BY ElCambio DEF Tipos
    <3>. QED
      BY <2>1, <2>2, <3>1 DEF VivosBien, Vivo
  <2>. QED
    BY <2>3, <2>4, <2>5, <2>6 DEF VivosBien, Vivo
<1>3. CASE Huella(h) /\ ~IniciarTripulante
  <2>1. \A u \in Tripulantes : Vivo(u)' <=> Vivo(u)
    BY <1>3 DEF Huella, Vivo
  <2>2. NuevosBien'
    BY <1>3, NuevosHuella DEF VivosBien
  <2>3. EnSabotajeVivos'
    BY <1>3, <2>1, SabotajeHuella DEF EnSabotajeVivos
  <2>4. EnColasVivos'
    BY <1>3, <2>1, ColasSoloMenos DEF VivosBien, EnColasVivos
  <2>5. \A u \in Tripulantes : pc'[u] # "sin_crear" => Vivo(u)'
    BY <1>0, <1>3, <2>1 DEF VivosBien, Huella
  <2>6. \A k \in Hilos : cambio'[k] # NULL => Vivo(cambio[k].t)'
    <3>1. ASSUME NEW k \in Hilos, cambio'[k] # NULL, k = h PROVE Vivo(cambio[k].t)'
      BY <1>3, <2>1, <3>1, LlamadaViva DEF Vivo
    <3>2. ASSUME NEW k \in Hilos, cambio'[k] # NULL, k # h PROVE Vivo(cambio[k].t)'
      <4>1. cambio'[k] = cambio[k] /\ cambio[k] # NULL
        BY <1>3, <3>2 DEF Huella
      <4>2. cambio[k].t \in Tripulantes /\ Vivo(cambio[k].t)
        BY <4>1, ElCambio DEF VivosBien, Tipos
      <4>. QED
        BY <2>1, <4>1, <4>2 DEF Vivo
    <3>. QED
      BY <3>1, <3>2
  <2>. QED
    BY <2>2, <2>3, <2>4, <2>5, <2>6 DEF VivosBien, Vivo
<1>. QED
  BY <1>1, <1>2, <1>3, HuellaDelPaso

LEMMA VivosSiempre == Spec => []VivosBien
<1>1. Init => VivosBien
  <2>. SUFFICES ASSUME Init PROVE VivosBien
    OBVIOUS
  <2>1. \A h \in Hilos : cambio[h] = NULL
    BY DEF Init
  <2>2. \A t \in Tripulantes : pc[t] = "sin_crear"
    BY NombresAssumption DEF Init, Hilos, Ordenes
  <2>3. \A x : ~Contains(<<>>, x)
    BY DEF Contains
  <2>4. "consola" \in Hilos /\ pc["consola"] = "esperar" /\ "sabotaje" \in Hilos
    BY DEF Init, Hilos, Ordenes
  <2>5. NuevosBien
    BY <2>4 DEF NuevosBien
  <2>6. EnColasVivos
    BY <2>3 DEF Init, EnColasVivos
  <2>7. EnSabotajeVivos
    BY <2>3, <2>4, NombresAssumption DEF Init, EnSabotajeVivos, EnSabotaje, Hilos
  <2>. QED
    BY <2>1, <2>2, <2>5, <2>6, <2>7 DEF VivosBien
<1>2. Tipos /\ VivosBien /\ [Next]_vars => VivosBien'
  <2>. SUFFICES ASSUME Tipos, VivosBien, [Next]_vars PROVE VivosBien'
    OBVIOUS
  <2>1. CASE UNCHANGED vars
    BY <2>1 DEF vars, colasVars, ordenVars, VivosBien, NuevosBien, EnColasVivos, EnSabotajeVivos, EnSabotaje, Vivo
  <2>2. CASE \E h \in Hilos : DelHilo(h)
    BY <2>2, VivosPaso
  <2>. QED
    BY <2>1, <2>2 DEF Next, Reposo
<1>. QED
  BY <1>1, <1>2, TiposSiempre, PTL DEF Spec

-------------------------------------------------------------------------------
\* The I/O device: it is free, or one member has it from when it takes it until
\* the last burst of its task, wherever its thread and its state are meanwhile.
DispositivoBien ==
  /\ \A t \in Tripulantes : pc[t] = "dispositivos_io" => trip[t].haciendo_io
  /\ UnSoloDispositivo

LEMMA DispositivoQuieto ==
  ASSUME DispositivoBien, sem'.dispositivos_io = sem.dispositivos_io,
         \A t \in Tripulantes : /\ trip'[t].haciendo_io = trip[t].haciendo_io
                                /\ pc'[t] = "dispositivos_io" <=> pc[t] = "dispositivos_io"
  PROVE  DispositivoBien'
<1>1. ConDispositivo' = ConDispositivo
  BY DEF ConDispositivo
<1>. QED
  BY <1>1 DEF DispositivoBien, UnSoloDispositivo

\* Only the wait for it goes on from where it is waited for.
LEMMA DesdeDispositivo ==
  ASSUME NEW t \in Tripulantes, Tripulante(t), pc[t] = "dispositivos_io"
  PROVE  TomarDispositivo(t)
<1>1. ~(PasarPausa(t) \/ EsperarSemaforo(t) \/ Seguir(t) \/ Salir(t) \/ SalirDeReady(t) \/ TomarContador(t))
  BY DEF PasarPausa, EsperarSemaforo, Seguir, Salir, SalirDeReady, TomarContador, Avanzar, Ir, En
<1>2. ~(DejarCpu(t) \/ PedirIO(t) \/ HacerTarea(t) \/ Moverse(t) \/ Terminar(t))
  BY DEF DejarCpu, PedirIO, HacerTarea, Moverse, Terminar, Ir, En
<1>3. ~(TerminoListar(t) \/ FaltaAlguno(t) \/ EstanTodos(t) \/ DestruirTodos(t) \/ Destruirse(t))
  BY DEF TerminoListar, FaltaAlguno, EstanTodos, DestruirTodos, Destruirse, Avanzar, Ir, En
<1>. QED
  BY <1>1, <1>2, <1>3 DEF Tripulante

LEMMA DispositivoPaso ==
  ASSUME Tipos, VivosBien, DispositivoBien, NEW h \in Hilos, DelHilo(h)
  PROVE  DispositivoBien'
<1>0. /\ Tripulantes \subseteq Hilos /\ "consola" \notin Tripulantes
      /\ IsFiniteSet(ConDispositivo) /\ Cardinality(ConDispositivo) \in Nat
      /\ sem.dispositivos_io \in Nat
  BY NombresAssumption, EnExecFinito DEF Hilos, ConDispositivo, Tipos, DeSem, Semaforos
<1>1. CASE CambiarEstado(h)
  <2>1. pc' = pc
    BY <1>1, CambiarPasa
  <2>2. /\ sem'.dispositivos_io = sem.dispositivos_io
        /\ \A t \in Tripulantes : trip'[t].haciendo_io = trip[t].haciendo_io
    <3>1. CASE CambiarNada(h) \/ SuaveSacar(h) \/ SuaveAgregar(h)
      BY <3>1, SuaveDe
    <3>2. CASE CambiarTomar(h)
      BY <3>2, TomarDe
    <3>3. CASE CambiarSacar(h)
      BY <3>3, SacandoDe
    <3>4. CASE CambiarAgregar(h)
      BY <3>4, AgregandoDe
    <3>. QED
      BY <1>1, <3>1, <3>2, <3>3, <3>4 DEF CambiarEstado
  <2>. QED
    BY <2>1, <2>2, DispositivoQuieto
<1>2. CASE IniciarTripulante
  <2>. DEFINE t == Head(lista["consola"])
  <2>1. /\ t \in Tripulantes /\ lista["consola"] \in Seq(Tripulantes) /\ lista["consola"] # <<>>
        /\ pc["consola"] = "iniciar_tripulante" /\ pc'[t] = "pausado" /\ sem' = sem
        /\ \A k \in Hilos \ {"consola", t} : pc'[k] = pc[k]
        /\ \A u \in Tripulantes : trip'[u].haciendo_io = trip[u].haciendo_io
    BY <1>2, IniciarDe
  <2>2. Contains(lista["consola"], t)
    BY <2>1, CabezaDe
  <2>3. pc[t] = "sin_crear"
    BY <2>1, <2>2 DEF VivosBien, NuevosBien
  <2>. HIDE DEF t
  <2>. QED
    BY <1>0, <2>1, <2>3, DispositivoQuieto
<1>3. CASE Huella(h)
  <2>1. ASSUME h \notin Tripulantes PROVE DispositivoBien'
    <3>1. \A t \in Tripulantes : trip'[t].haciendo_io = trip[t].haciendo_io /\ pc'[t] = pc[t]
      BY <1>0, <1>3, <2>1 DEF Huella
    <3>2. sem'.dispositivos_io = sem.dispositivos_io
      BY <1>3, <2>1 DEF Huella
    <3>. QED
      BY <3>1, <3>2, DispositivoQuieto
  <2>2. ASSUME h \in Tripulantes PROVE DispositivoBien'
    <3>0. \A u \in Tripulantes \ {h} : trip'[u].haciendo_io = trip[u].haciendo_io /\ pc'[u] = pc[u]
      BY <1>0, <1>3 DEF Huella
    <3>1. ASSUME NEW a, NEW b, Ir(h, a, b) PROVE pc[h] = a /\ pc'[h] = b
      BY <3>1 DEF Ir, En, Tipos, DePc
    <3>2. trip[h] \in TTripulante
      BY <2>2 DEF Tipos, DeTrip
    <3>3. CASE PedirIO(h)
      <4>1. /\ pc[h] = "decidir" /\ pc'[h] = "dispositivos_io" /\ sem' = sem
            /\ ~trip[h].haciendo_io /\ trip'[h].haciendo_io
        BY <2>2, <3>1, <3>3 DEF PedirIO, Tipos, DeTrip, TTripulante
      <4>2. ConDispositivo' = ConDispositivo
        BY <3>0, <4>1 DEF ConDispositivo
      <4>. QED
        BY <3>0, <4>1, <4>2 DEF DispositivoBien, UnSoloDispositivo
    <3>4. CASE TomarDispositivo(h)
      <4>1. /\ pc[h] = "dispositivos_io" /\ pc'[h] = "pausado" /\ trip' = trip
            /\ sem'.dispositivos_io = sem.dispositivos_io - 1
        BY <3>1, <3>4 DEF TomarDispositivo, EsperarYSeguir, Esperar, Tipos, DeSem, Semaforos
      <4>2. trip[h].haciendo_io
        BY <2>2, <4>1 DEF DispositivoBien
      <4>3. ConDispositivo' = ConDispositivo \cup {h} /\ h \notin ConDispositivo
        BY <2>2, <3>0, <4>1, <4>2 DEF ConDispositivo
      <4>4. Cardinality(ConDispositivo') = Cardinality(ConDispositivo) + 1
        BY <1>0, <4>3, FS_AddElement
      <4>5. \A u \in Tripulantes : pc'[u] = "dispositivos_io" => trip'[u].haciendo_io
        BY <3>0, <4>1 DEF DispositivoBien
      <4>. QED
        BY <1>0, <4>1, <4>4, <4>5 DEF DispositivoBien, UnSoloDispositivo
    <3>5. CASE HacerTarea(h)
      <4>1. /\ pc[h] = "decidir" /\ pc'[h] = "pausado"
            /\ trip'[h].haciendo_io = SigueEnIO(h)
            /\ IF trip[h].haciendo_io /\ Ultima(h) THEN Postear("dispositivos_io") ELSE UNCHANGED sem
        <5>1. pc[h] = "decidir" /\ pc'[h] = "pausado"
          BY <3>1, <3>5 DEF HacerTarea
        <5>2. IF trip[h].haciendo_io /\ Ultima(h) THEN Postear("dispositivos_io") ELSE UNCHANGED sem
          BY <3>5 DEF HacerTarea
        <5>3. trip'[h].haciendo_io = SigueEnIO(h)
          <6>. DEFINE f == SigueEnIO(h)
                      a == IF trip[h].haciendo_io /\ Ultima(h) THEN trip[h].semaforo ELSE trip[h].semaforo + 1
                      b == IF trip[h].haciendo_io THEN trip[h].tiempo_en_cpu ELSE trip[h].tiempo_en_cpu + 1
                      c == IF Ultima(h) THEN 0 ELSE trip[h].tiempo_haciendo_tarea + 1
                      d == IF Ultima(h) THEN trip[h].tarea + 1 ELSE trip[h].tarea
          <6>1. trip' = [trip EXCEPT ![h] = [trip[h] EXCEPT !.semaforo = a, !.tiempo_en_cpu = b,
                           !.tiempo_haciendo_tarea = c, !.tarea = d, !.haciendo_io = f]]
            BY <3>5 DEF HacerTarea
          <6>. HIDE DEF a, b, c, d, f
          <6>2. trip'[h].haciendo_io = f
            BY <2>2, <3>2, <6>1 DEF Tipos, DeTrip, TTripulante
          <6>. QED
            BY <6>2 DEF f
        <5>. QED
          BY <5>1, <5>2, <5>3
      <4>2. \A u \in Tripulantes : pc'[u] = "dispositivos_io" => trip'[u].haciendo_io
        BY <3>0, <4>1 DEF DispositivoBien
      <4>3. CASE trip[h].haciendo_io /\ Ultima(h)
        <5>1. sem'.dispositivos_io = sem.dispositivos_io + 1
          BY <4>1, <4>3 DEF Postear, Tipos, DeSem, Semaforos
        <5>2. ~(trip'[h].haciendo_io)
          BY <4>1, <4>3 DEF SigueEnIO
        <5>3. ConDispositivo' = ConDispositivo \ {h} /\ h \in ConDispositivo
          BY <2>2, <3>0, <4>1, <4>3, <5>2 DEF ConDispositivo
        <5>4. Cardinality(ConDispositivo') = Cardinality(ConDispositivo) - 1
          BY <1>0, <5>3, FS_RemoveElement
        <5>. QED
          BY <1>0, <4>2, <5>1, <5>4 DEF DispositivoBien, UnSoloDispositivo
      <4>4. CASE ~(trip[h].haciendo_io /\ Ultima(h))
        <5>1. trip'[h].haciendo_io <=> trip[h].haciendo_io
          BY <4>1, <4>4 DEF SigueEnIO
        <5>2. ConDispositivo' = ConDispositivo
          BY <3>0, <4>1, <5>1 DEF ConDispositivo
        <5>. QED
          BY <4>1, <4>2, <4>4, <5>2 DEF DispositivoBien, UnSoloDispositivo
      <4>. QED
        BY <4>3, <4>4
    <3>6. CASE ~(PedirIO(h) \/ TomarDispositivo(h) \/ HacerTarea(h))
      <4>1. /\ \A t \in Tripulantes : trip'[t].haciendo_io = trip[t].haciendo_io
            /\ sem'.dispositivos_io = sem.dispositivos_io
            /\ pc'[h] # "dispositivos_io"
        BY <1>3, <2>2, <3>6 DEF Huella
      <4>2. pc[h] # "dispositivos_io"
        <5>1. ~CambiarEstado(h)
          BY <1>3 DEF Huella, CambiarEstado, CambiarNada, CambiarTomar, CambiarSacar, CambiarAgregar, SuaveSacar, SuaveAgregar, EnCambio
        <5>2. h # "planificador" /\ h # "consola" /\ h # "sabotaje" /\ h \notin Ordenes
          BY <2>2, NombresAssumption DEF Ordenes
        <5>3. Tripulante(h)
          BY <5>1, <5>2 DEF DelHilo
        <5>. QED
          BY <2>2, <3>6, <5>3, DesdeDispositivo
      <4>. QED
        BY <3>0, <4>1, <4>2, DispositivoQuieto
    <3>. QED
      BY <3>3, <3>4, <3>5, <3>6
  <2>. QED
    BY <2>1, <2>2
<1>. QED
  BY <1>1, <1>2, <1>3, HuellaDelPaso

\* The device is never in two hands, nor lost, whatever is expelled, paused or
\* sabotaged while a member does its I/O.
THEOREM UnSoloDispositivoSiempre == Spec => []UnSoloDispositivo
<1>1. Init => DispositivoBien
  <2>. SUFFICES ASSUME Init PROVE DispositivoBien
    OBVIOUS
  <2>1. \A t \in Tripulantes : pc[t] = "sin_crear"
    BY NombresAssumption DEF Init, Hilos, Ordenes
  <2>2. sem.dispositivos_io = 1 /\ \A t \in Tripulantes : ~trip[t].haciendo_io
    BY DEF Init, SinCrear
  <2>3. ConDispositivo = {}
    BY <2>2 DEF ConDispositivo
  <2>. QED
    BY <2>1, <2>2, <2>3, FS_EmptySet DEF DispositivoBien, UnSoloDispositivo
<1>2. Tipos /\ VivosBien /\ DispositivoBien /\ [Next]_vars => DispositivoBien'
  <2>. SUFFICES ASSUME Tipos, VivosBien, DispositivoBien, [Next]_vars PROVE DispositivoBien'
    OBVIOUS
  <2>1. CASE UNCHANGED vars
    BY <2>1, DispositivoQuieto DEF vars
  <2>2. CASE \E h \in Hilos : DelHilo(h)
    BY <2>2, DispositivoPaso
  <2>. QED
    BY <2>1, <2>2 DEF Next, Reposo
<1>3. DispositivoBien => UnSoloDispositivo
  BY DEF DispositivoBien
<1>. QED
  BY <1>1, <1>2, <1>3, TiposSiempre, VivosSiempre, PTL DEF Spec
-------------------------------------------------------------------------------
\* How many expulsions and sabotages there were never goes down, and only the
\* actions that begin one add to it.
LEMMA UsosDe ==
  ASSUME Tipos, NEW h \in Hilos, DelHilo(h)
  PROVE  /\ SinSabotajes' => SinSabotajes /\ ~(h = "sabotaje" /\ SaboEmpezar)
         /\ NingunoExpulsado' => NingunoExpulsado /\ ~(h = "consola" /\ \E t \in Tripulantes : ExpulsarTripulante(t))
<1>. DEFINE P == /\ usos'.sabotajes = usos.sabotajes /\ usos'.expulsiones = usos.expulsiones
                 /\ ~SaboEmpezar /\ ~(\E t \in Tripulantes : ExpulsarTripulante(t))
<1>0. /\ usos.sabotajes \in Nat /\ usos.expulsiones \in Nat /\ usos \in TUsos
      /\ "sabotaje" \notin Tripulantes /\ "consola" \notin Tripulantes
  BY NombresAssumption DEF Tipos, DeUsos, TUsos
<1>1. ASSUME UNCHANGED usos PROVE P
  <2>1. ~SaboEmpezar
    <3>. SUFFICES ASSUME SaboEmpezar PROVE FALSE
      OBVIOUS
    <3>1. usos'.sabotajes = usos.sabotajes + 1
      BY <1>0 DEF SaboEmpezar, TUsos
    <3>. QED
      BY <1>0, <1>1, <3>1
  <2>2. ASSUME NEW t \in Tripulantes, ExpulsarTripulante(t) PROVE FALSE
    <3>1. usos'.expulsiones = usos.expulsiones + 1
      BY <1>0, <2>2 DEF ExpulsarTripulante, TUsos
    <3>. QED
      BY <1>0, <1>1, <3>1
  <2>. QED
    BY <1>1, <2>1, <2>2
<1>2. P => /\ SinSabotajes' => SinSabotajes /\ ~(h = "sabotaje" /\ SaboEmpezar)
           /\ NingunoExpulsado' => NingunoExpulsado /\ ~(h = "consola" /\ \E t \in Tripulantes : ExpulsarTripulante(t))
  BY DEF SinSabotajes, NingunoExpulsado
<1>3. CASE CambiarEstado(h)
  <2>1. UNCHANGED usos
    BY <1>3, ColasPasa
  <2>. QED
    BY <1>1, <1>2, <2>1
<1>4. CASE h = "planificador" /\ Planificador
  <2>1. UNCHANGED usos
    BY <1>4 DEF Planificador, PlanEsperarCpu, PlanEsperarReady, PlanEsperarPlanificacion, PasarUnoAExec, PlanPost,
                EsperarYSeguir, ordenVars
  <2>. QED
    BY <1>1, <1>2, <2>1
<1>5. CASE h = "consola" /\ Consola
  <2>1. CASE PedirPausar
    <3>1. usos'.sabotajes = usos.sabotajes /\ usos'.expulsiones = usos.expulsiones
      BY <1>0, <2>1 DEF PedirPausar, TUsos
    <3>2. pc'["consola"] = "pausar"
      BY <1>5, <2>1 DEF PedirPausar, Ir, Tipos, DePc
    <3>3. ASSUME NEW t \in Tripulantes, ExpulsarTripulante(t) PROVE pc'["consola"] = "expulsar"
      BY <1>5, <3>3 DEF ExpulsarTripulante, Ir, Tipos, DePc
    <3>. QED
      BY <1>5, <3>1, <3>2, <3>3 DEF SinSabotajes, NingunoExpulsado
  <2>2. CASE \E t \in Tripulantes : ExpulsarTripulante(t)
    <3>1. usos'.sabotajes = usos.sabotajes /\ usos'.expulsiones = usos.expulsiones + 1
      BY <1>0, <2>2 DEF ExpulsarTripulante, TUsos
    <3>2. h # "sabotaje" /\ usos'.expulsiones # 0
      BY <1>0, <1>5, <3>1
    <3>. QED
      BY <3>1, <3>2 DEF SinSabotajes, NingunoExpulsado
  <2>3. CASE PedirIniciar \/ IniciarTripulante \/ IniciarEncolar \/ IniciarSiguiente \/ ExpulsarMarcar
             \/ ExpulsarDespertar \/ \E p \in Patotas : IniciarPatota(p)
    <3>1. UNCHANGED usos
      BY <2>3 DEF PedirIniciar, IniciarTripulante, IniciarEncolar, IniciarSiguiente, ExpulsarMarcar,
                  ExpulsarDespertar, IniciarPatota, Avanzar, ordenVars
    <3>. QED
      BY <1>1, <1>2, <3>1
  <2>. QED
    BY <1>5, <2>1, <2>2, <2>3 DEF Consola
<1>6. CASE h = "sabotaje" /\ Sabotaje
  <2>1. CASE SaboEmpezar
    <3>1. usos'.sabotajes = usos.sabotajes + 1 /\ usos'.expulsiones = usos.expulsiones
      BY <1>0, <2>1 DEF SaboEmpezar, TUsos
    <3>2. h # "consola" /\ usos'.sabotajes # 0
      BY <1>0, <1>6, <3>1
    <3>. QED
      BY <3>1, <3>2 DEF SinSabotajes, NingunoExpulsado
  <2>2. CASE ~SaboEmpezar
    <3>1. UNCHANGED usos
      BY <1>6, <2>2 DEF Sabotaje, SaboMirarPausa, SaboListar, SaboElegir, SaboBloquear, SaboBloquearSuave, SaboSinNadie, SaboResolver,
                  SaboMover, SaboLlegar, SaboGuardar, SaboDevolver, SaboFin, Avanzar, ordenVars
    <3>. QED
      BY <1>1, <1>2, <3>1
  <2>. QED
    BY <2>1, <2>2
<1>7. CASE h \in Ordenes /\ Orden(h)
  <2>1. UNCHANGED usos
    BY <1>7 DEF Orden, IniciarNada, IniciarContar, IniciarNuevo, IniciarCaida, IniciarReanudar, PausarNada, PausarTomar,
                PausarEsperar, PausarTodos, PausarUno, PausarFin, Avanzar, EsperarYSeguir, ordenVars
  <2>. QED
    BY <1>1, <1>2, <2>1
<1>8. CASE h \in Tripulantes /\ Tripulante(h)
  <2>1. CASE PasarPausa(h) \/ EsperarSemaforo(h) \/ Seguir(h) \/ Salir(h) \/ SalirDeReady(h) \/ TomarContador(h)
    <3>1. UNCHANGED usos
      BY <2>1 DEF PasarPausa, EsperarSemaforo, Seguir, Salir, SalirDeReady, TomarContador, Avanzar, ordenVars
    <3>. QED
      BY <1>1, <1>2, <3>1
  <2>2. CASE DejarCpu(h) \/ PedirIO(h) \/ TomarDispositivo(h) \/ HacerTarea(h) \/ Moverse(h) \/ Terminar(h)
    <3>1. UNCHANGED usos
      BY <2>2 DEF DejarCpu, PedirIO, TomarDispositivo, HacerTarea, Moverse, Terminar, EsperarYSeguir, ordenVars
    <3>. QED
      BY <1>1, <1>2, <3>1
  <2>3. CASE TerminoListar(h) \/ FaltaAlguno(h) \/ DestruirTodos(h) \/ EstanTodos(h) \/ Destruirse(h)
    <3>1. UNCHANGED usos
      BY <2>3 DEF TerminoListar, FaltaAlguno, DestruirTodos, EstanTodos, Destruirse, Avanzar, ordenVars
    <3>. QED
      BY <1>1, <1>2, <3>1
  <2>. QED
    BY <1>8, <2>1, <2>2, <2>3 DEF Tripulante
<1>. QED
  BY <1>3, <1>4, <1>5, <1>6, <1>7, <1>8 DEF DelHilo

\* Before the first sabotage its thread has nothing to do.
SinSuaves == SinSabotajes => pc["sabotaje"] = "esperar" /\ cambio["sabotaje"] = NULL

LEMMA NoSabotea ==
  ASSUME Tipos, SinSuaves, NEW h \in Hilos, DelHilo(h), SinSabotajes'
  PROVE  h # "sabotaje"
<1>. DEFINE k == "sabotaje"
<1>. SUFFICES ASSUME h = k PROVE FALSE
  OBVIOUS
<1>1. pc[k] = "esperar" /\ cambio[k] = NULL /\ ~SaboEmpezar
  BY UsosDe DEF SinSuaves
<1>2. k \notin Tripulantes
  BY NombresAssumption
<1>3. ~CambiarEstado(k)
  BY <1>1 DEF CambiarEstado, CambiarNada, CambiarTomar, CambiarSacar, CambiarAgregar, SuaveSacar, SuaveAgregar, EnCambio
<1>4. ~Orden(k)
  BY <1>1 DEF Orden, IniciarNada, IniciarContar, IniciarNuevo, IniciarCaida, IniciarReanudar, PausarNada, PausarTomar,
              PausarEsperar, PausarTodos, PausarUno, PausarFin, Avanzar, EsperarYSeguir, Ir, En
<1>5. ~Sabotaje
  BY <1>1 DEF Sabotaje, SaboMirarPausa, SaboListar, SaboElegir, SaboBloquear, SaboBloquearSuave, SaboSinNadie, SaboResolver,
              SaboMover, SaboLlegar, SaboGuardar, SaboDevolver, SaboFin, Avanzar, Ir, En
<1>. QED
  BY <1>2, <1>3, <1>4, <1>5 DEF DelHilo

LEMMA SuavesPaso ==
  ASSUME Tipos, SinSuaves, NEW h \in Hilos, DelHilo(h)
  PROVE  SinSuaves'
<1>. DEFINE k == "sabotaje"
<1>. SUFFICES ASSUME SinSabotajes' PROVE pc'[k] = "esperar" /\ cambio'[k] = NULL
  BY DEF SinSuaves
<1>1. pc[k] = "esperar" /\ cambio[k] = NULL
  BY UsosDe DEF SinSuaves
<1>2. k \in Hilos /\ k \notin Tripulantes /\ k # "consola"
  BY NombresAssumption DEF Hilos
<1>3. h # k
  BY NoSabotea
<1>4. CASE CambiarEstado(h)
  BY <1>1, <1>2, <1>3, <1>4, CambiarPasa
<1>5. CASE IniciarTripulante
  <2>. DEFINE t == Head(lista["consola"])
  <2>1. t \in Tripulantes /\ cambio' = cambio /\ \A j \in Hilos \ {"consola", t} : pc'[j] = pc[j]
    BY <1>5, IniciarDe
  <2>. HIDE DEF t
  <2>. QED
    BY <1>1, <1>2, <2>1
<1>6. CASE Huella(h)
  BY <1>1, <1>2, <1>3, <1>6 DEF Huella
<1>. QED
  BY <1>4, <1>5, <1>6, HuellaDelPaso

-------------------------------------------------------------------------------
\* The queues.  In NEW, and in all of them before the first sabotage, nobody is
\* twice and each is where its state says, unless some thread has yet to put it
\* there; and that thread remembers the state it took it out of.
Agregando(t) == \E h \in Hilos : EnCambio(h, "agregar") /\ cambio[h].t = t
EnRegla(e) == e = "NEW" \/ SinSabotajes
ColaBien(e) == /\ IsInjective(colas[e])
               /\ \A t \in Tripulantes : Contains(colas[e], t) => trip[t].estado = e /\ ~Agregando(t)
ColasBien ==
  /\ \A e \in Estados : EnRegla(e) => ColaBien(e)
  /\ \A h \in Hilos : /\ EnCambio(h, "sacar") => cambio[h].viejo = trip[cambio[h].t].estado
                      /\ EnCambio(h, "agregar") => cambio[h].nuevo = trip[cambio[h].t].estado

\* Who has a member's mutex, to move it, is alone.
LEMMA UnoSolo ==
  ASSUME MutexBien, NEW h \in Hilos, NEW k \in Hilos, Mueve(h), Mueve(k), cambio[h].t = cambio[k].t
  PROVE  h = k
BY DEF MutexBien

\* A step that leaves the states of the members as they are, the queues too or
\* with less, and begins no more than a call.
LEMMA ColasQuietas ==
  ASSUME Tipos, ColasBien, SinSabotajes' => SinSabotajes,
         \A e \in Estados : /\ IsInjective(colas[e]) => IsInjective(colas'[e])
                            /\ \A t \in Tripulantes : Contains(colas'[e], t) => Contains(colas[e], t),
         \A t \in Tripulantes : trip'[t].estado = trip[t].estado,
         \A h \in Hilos : Mueve(h)' => cambio'[h] = cambio[h]
  PROVE  ColasBien'
<1>1. \A h \in Hilos : EnCambio(h, "agregar")' => EnCambio(h, "agregar") /\ cambio'[h] = cambio[h]
  BY DEF Mueve, EnCambio
<1>2. \A h \in Hilos : EnCambio(h, "sacar")' => EnCambio(h, "sacar") /\ cambio'[h] = cambio[h]
  BY DEF Mueve, EnCambio
<1>3. \A t : Agregando(t)' => Agregando(t)
  BY <1>1 DEF Agregando
<1>4. ASSUME NEW e \in Estados, EnRegla(e)' PROVE ColaBien(e)'
  <2>1. ColaBien(e)
    BY <1>4 DEF ColasBien, EnRegla
  <2>. QED
    BY <1>3, <2>1 DEF ColaBien
<1>5. \A h \in Hilos : Mueve(h) => cambio[h].t \in Tripulantes
  BY ElCambio DEF Mueve, EnCambio, Tipos
<1>6. ASSUME NEW h \in Hilos
      PROVE  /\ EnCambio(h, "sacar")' => cambio'[h].viejo = trip'[cambio'[h].t].estado
             /\ EnCambio(h, "agregar")' => cambio'[h].nuevo = trip'[cambio'[h].t].estado
  BY <1>1, <1>2, <1>5 DEF ColasBien, Mueve
<1>. QED
  BY <1>4, <1>6 DEF ColasBien

LEMMA ColasPaso ==
  ASSUME Tipos, MovidosBien, VivosBien, SinSuaves, ColasBien, NEW h \in Hilos, DelHilo(h)
  PROVE  ColasBien'
<1>0. SinSabotajes' => SinSabotajes
  BY UsosDe
<1>1. \A k \in Hilos : cambio[k] # NULL => cambio[k].t \in Tripulantes /\ cambio[k].nuevo \in Estados
  BY ElCambio DEF Tipos
<1>2. \A e \in Estados : colas[e] \in Seq(Tripulantes) /\ DOMAIN colas = Estados
  BY DEF Tipos, DeColas
<1>3. CASE CambiarNada(h)
  <2>1. colas' = colas /\ trip' = trip /\ ~Mueve(h)'
    BY <1>3, SuaveDe DEF CambiarNada, colasVars
  <2>2. \A k \in Hilos \ {h} : cambio'[k] = cambio[k]
    BY <1>3, CambiarPasa DEF CambiarEstado
  <2>. QED
    BY <1>0, <2>1, <2>2, ColasQuietas
<1>4. CASE CambiarTomar(h)
  <2>. DEFINE t == cambio[h].t
  <2>1. /\ t \in Tripulantes /\ cambio'[h].t = t /\ cambio'[h].viejo = trip[t].estado
        /\ cambio'[h].paso = "sacar" /\ cambio[h].paso = "tomar" /\ colas' = colas
        /\ \A u \in Tripulantes : trip'[u].estado = trip[u].estado
    BY <1>4, TomarDe
  <2>2. \A k \in Hilos \ {h} : cambio'[k] = cambio[k]
    BY <1>4, CambiarPasa DEF CambiarEstado
  <2>. HIDE DEF t
  <2>3. \A u : Agregando(u)' => Agregando(u)
    BY <2>1, <2>2 DEF Agregando, EnCambio
  <2>4. ASSUME NEW e \in Estados, EnRegla(e)' PROVE ColaBien(e)'
    <3>1. ColaBien(e)
      BY <1>0, <2>4 DEF ColasBien, EnRegla
    <3>. QED
      BY <2>1, <2>3, <3>1 DEF ColaBien
  <2>5. ASSUME NEW k \in Hilos
        PROVE  /\ EnCambio(k, "sacar")' => cambio'[k].viejo = trip'[cambio'[k].t].estado
               /\ EnCambio(k, "agregar")' => cambio'[k].nuevo = trip'[cambio'[k].t].estado
    <3>1. CASE k = h
      BY <2>1, <3>1 DEF EnCambio
    <3>2. CASE k # h
      BY <1>1, <2>1, <2>2, <3>2 DEF ColasBien, EnCambio
    <3>. QED
      BY <3>1, <3>2
  <2>. QED
    BY <2>4, <2>5 DEF ColasBien
<1>5. CASE CambiarSacar(h)
  <2>. DEFINE c == cambio[h]
              t == cambio[h].t
  <2>1. /\ c # NULL /\ c.paso = "sacar" /\ t \in Tripulantes /\ c.nuevo \in Estados
        /\ cambio'[h] # NULL /\ cambio'[h].paso = "agregar" /\ cambio'[h].t = t
        /\ cambio'[h].nuevo = c.nuevo
        /\ colas' = [colas EXCEPT ![c.viejo] = RemoveFirst(@, t)]
        /\ \A u \in Tripulantes : trip'[u].estado = IF u = t THEN c.nuevo ELSE trip[u].estado
    BY <1>5, SacandoDe
  <2>2. \A k \in Hilos \ {h} : cambio'[k] = cambio[k]
    BY <1>5, CambiarPasa DEF CambiarEstado
  <2>3. c.viejo = trip[t].estado /\ Mueve(h)
    BY <2>1 DEF ColasBien, EnCambio, Mueve
  <2>4. \A e \in Estados : colas'[e] = IF e = trip[t].estado THEN RemoveFirst(colas[e], t) ELSE colas[e]
    BY <1>2, <2>1, <2>3
  <2>5. cambio'[h].nuevo = trip'[t].estado
    BY <2>1
  <2>. HIDE DEF c, t
  <2>6. \A k \in Hilos \ {h} : Mueve(k) => cambio[k].t # t /\ cambio[k].t \in Tripulantes
    BY <1>1, <2>3, UnoSolo DEF MovidosBien, t, Mueve, EnCambio
  <2>7. \A u : Agregando(u)' => Agregando(u) \/ u = t
    BY <2>1, <2>2 DEF Agregando, EnCambio
  <2>8. ASSUME NEW e \in Estados, EnRegla(e)' PROVE ColaBien(e)'
    <3>1. ColaBien(e)
      BY <1>0, <2>8 DEF ColasBien, EnRegla
    <3>2. /\ IsInjective(colas'[e])
          /\ \A u \in Tripulantes : Contains(colas'[e], u) => Contains(colas[e], u) /\ u # t
      <4>1. CASE e = trip[t].estado
        BY <1>2, <2>4, <3>1, <4>1, SacarDe DEF ColaBien
      <4>2. CASE e # trip[t].estado
        BY <2>1, <2>4, <3>1, <4>2 DEF ColaBien
      <4>. QED
        BY <4>1, <4>2
    <3>. QED
      BY <2>1, <2>7, <3>1, <3>2 DEF ColaBien
  <2>9. ASSUME NEW k \in Hilos
        PROVE  /\ EnCambio(k, "sacar")' => cambio'[k].viejo = trip'[cambio'[k].t].estado
               /\ EnCambio(k, "agregar")' => cambio'[k].nuevo = trip'[cambio'[k].t].estado
    <3>1. CASE k = h
      BY <2>1, <2>5, <3>1 DEF EnCambio
    <3>2. CASE k # h
      BY <2>1, <2>2, <2>6, <3>2 DEF ColasBien, EnCambio, Mueve
    <3>. QED
      BY <3>1, <3>2
  <2>. QED
    BY <2>8, <2>9 DEF ColasBien
<1>6. CASE CambiarAgregar(h)
  <2>. DEFINE c == cambio[h]
              t == cambio[h].t
  <2>1. /\ c # NULL /\ c.paso = "agregar" /\ t \in Tripulantes /\ c.nuevo \in Estados
        /\ cambio'[h] = NULL
        /\ colas' = [colas EXCEPT ![c.nuevo] = Append(@, t)]
        /\ \A u \in Tripulantes : trip'[u].estado = trip[u].estado
    BY <1>6, AgregandoDe
  <2>2. \A k \in Hilos \ {h} : cambio'[k] = cambio[k]
    BY <1>6, CambiarPasa DEF CambiarEstado
  <2>3. c.nuevo = trip[t].estado /\ Mueve(h) /\ Agregando(t)
    BY <2>1 DEF ColasBien, EnCambio, Mueve, Agregando
  <2>4. \A e \in Estados : colas'[e] = IF e = trip[t].estado THEN Append(colas[e], t) ELSE colas[e]
    BY <1>2, <2>1, <2>3
  <2>. HIDE DEF c, t
  <2>5. \A k \in Hilos \ {h} : Mueve(k) => cambio[k].t # t /\ cambio[k].t \in Tripulantes
    BY <1>1, <2>3, UnoSolo DEF MovidosBien, t, Mueve, EnCambio
  <2>6. \A u : Agregando(u)' => Agregando(u) /\ u # t
    BY <2>1, <2>2, <2>5 DEF Agregando, EnCambio, Mueve
  <2>7. ASSUME NEW e \in Estados, EnRegla(e)' PROVE ColaBien(e)'
    <3>1. ColaBien(e)
      BY <1>0, <2>7 DEF ColasBien, EnRegla
    <3>2. ~Contains(colas[e], t)
      BY <2>1, <2>3, <3>1 DEF ColaBien
    <3>3. CASE e = trip[t].estado
      <4>1. /\ IsInjective(colas'[e])
            /\ \A u : Contains(colas'[e], u) <=> Contains(colas[e], u) \/ u = t
        BY <1>2, <2>1, <2>4, <3>1, <3>2, <3>3, AgregarDe DEF ColaBien
      <4>. QED
        BY <2>1, <2>6, <3>1, <3>3, <4>1 DEF ColaBien
    <3>4. CASE e # trip[t].estado
      BY <2>1, <2>4, <2>6, <3>1, <3>4 DEF ColaBien
    <3>. QED
      BY <3>3, <3>4
  <2>8. ASSUME NEW k \in Hilos
        PROVE  /\ EnCambio(k, "sacar")' => cambio'[k].viejo = trip'[cambio'[k].t].estado
               /\ EnCambio(k, "agregar")' => cambio'[k].nuevo = trip'[cambio'[k].t].estado
    <3>1. CASE k = h
      BY <2>1, <3>1 DEF EnCambio
    <3>2. CASE k # h
      BY <2>1, <2>2, <2>5, <3>2 DEF ColasBien, EnCambio, Mueve
    <3>. QED
      BY <3>1, <3>2
  <2>. QED
    BY <2>7, <2>8 DEF ColasBien
<1>7. CASE SuaveSacar(h) \/ SuaveAgregar(h)
  <2>1. /\ trip' = trip /\ ~Mueve(h)' /\ cambio[h] # NULL /\ cambio[h].paso \in {"suave_sacar", "suave_agregar"}
        /\ CambiarEstado(h)
    BY <1>7, SuaveDe DEF SuaveSacar, SuaveAgregar, EnCambio, CambiarEstado
  <2>2. \A k \in Hilos \ {h} : cambio'[k] = cambio[k]
    BY <2>1, CambiarPasa
  <2>3. h = "sabotaje" /\ cambio[h].nuevo # "NEW"
    BY <2>1 DEF MovidosBien, LlamadasBien, LlamadaBien, DeEstado
  <2>4. ~SinSabotajes
    BY <2>1, <2>3 DEF SinSuaves
  <2>5. ~(SinSabotajes')
    BY <1>0, <2>4
  <2>6. \/ colas'["NEW"] = colas["NEW"]
        \/ colas'["NEW"] = RemoveFirst(colas["NEW"], cambio[h].t)
    <3>1. CASE SuaveSacar(h)
      BY <1>2, <3>1 DEF SuaveSacar, Estados
    <3>2. CASE SuaveAgregar(h)
      BY <1>2, <2>3, <3>2 DEF SuaveAgregar, Estados
    <3>. QED
      BY <1>7, <3>1, <3>2
  <2>7. ColaBien("NEW") /\ colas["NEW"] \in Seq(Tripulantes) /\ "NEW" \in Estados
    BY <1>2 DEF ColasBien, EnRegla, Estados
  <2>8. /\ IsInjective(colas'["NEW"])
        /\ \A u \in Tripulantes : Contains(colas'["NEW"], u) => Contains(colas["NEW"], u)
    BY <2>6, <2>7, SacarDe DEF ColaBien
  <2>9. \A u : Agregando(u)' => Agregando(u)
    BY <2>1, <2>2 DEF Agregando, Mueve, EnCambio
  <2>10. ColaBien("NEW")'
    BY <2>1, <2>7, <2>8, <2>9 DEF ColaBien
  <2>11. \A e \in Estados : EnRegla(e)' => ColaBien(e)'
    BY <2>5, <2>10 DEF EnRegla
  <2>12. ASSUME NEW k \in Hilos
         PROVE  /\ EnCambio(k, "sacar")' => cambio'[k].viejo = trip'[cambio'[k].t].estado
                /\ EnCambio(k, "agregar")' => cambio'[k].nuevo = trip'[cambio'[k].t].estado
    <3>1. CASE k = h
      BY <2>1, <3>1 DEF Mueve
    <3>2. CASE k # h
      BY <2>1, <2>2, <3>2 DEF ColasBien, EnCambio
    <3>. QED
      BY <3>1, <3>2
  <2>. QED
    BY <2>11, <2>12 DEF ColasBien
<1>8. CASE IniciarTripulante
  <2>. DEFINE t == Head(lista["consola"])
  <2>1. /\ t \in Tripulantes /\ lista["consola"] \in Seq(Tripulantes) /\ lista["consola"] # <<>>
        /\ pc["consola"] = "iniciar_tripulante"
        /\ UNCHANGED <<colas, cambio, usos>>
        /\ \A u \in Tripulantes : trip'[u].estado = IF u = t THEN "NEW" ELSE trip[u].estado
    BY <1>8, IniciarDe
  <2>2. Contains(lista["consola"], t)
    BY <2>1, CabezaDe
  <2>3. ~Vivo(t)
    BY <2>1, <2>2 DEF VivosBien, NuevosBien
  <2>. HIDE DEF t
  <2>4. /\ \A e \in Estados : ~Contains(colas[e], t)
        /\ \A k \in Hilos : cambio[k] # NULL => cambio[k].t # t
    BY <2>1, <2>3 DEF VivosBien, EnColasVivos
  <2>5. \A u : Agregando(u)' => Agregando(u)
    BY <2>1 DEF Agregando, EnCambio
  <2>6. ASSUME NEW e \in Estados, EnRegla(e)' PROVE ColaBien(e)'
    <3>1. ColaBien(e)
      BY <1>0, <2>6 DEF ColasBien, EnRegla
    <3>. QED
      BY <2>1, <2>4, <2>5, <3>1 DEF ColaBien
  <2>7. ASSUME NEW k \in Hilos
        PROVE  /\ EnCambio(k, "sacar")' => cambio'[k].viejo = trip'[cambio'[k].t].estado
               /\ EnCambio(k, "agregar")' => cambio'[k].nuevo = trip'[cambio'[k].t].estado
    BY <1>1, <2>1, <2>4 DEF ColasBien, EnCambio
  <2>. QED
    BY <2>6, <2>7 DEF ColasBien
<1>9. CASE Huella(h)
  <2>1. ASSUME NEW e \in Estados
        PROVE  /\ IsInjective(colas[e]) => IsInjective(colas'[e])
               /\ \A t \in Tripulantes : Contains(colas'[e], t) => Contains(colas[e], t)
    <3>1. CASE colas' = colas
      BY <3>1
    <3>2. CASE h \in Tripulantes /\ DestruirTodos(h)
      <4>1. colas'[e] = colas[e] \/ colas'[e] = Los(colas[e], Tripulantes \ ToSet(lista[h]))
        BY <1>2, <3>2 DEF DestruirTodos
      <4>. QED
        BY <1>2, <4>1, LosDe
    <3>. QED
      BY <1>9, <3>1, <3>2 DEF Huella
  <2>2. \A t \in Tripulantes : trip'[t].estado = trip[t].estado
    BY <1>9 DEF Huella
  <2>3. \A k \in Hilos : Mueve(k)' => cambio'[k] = cambio[k]
    BY <1>9, HuellaNoMueve
  <2>. QED
    BY <1>0, <2>1, <2>2, <2>3, ColasQuietas
<1>. QED
  BY <1>3, <1>4, <1>5, <1>6, <1>7, <1>8, <1>9, HuellaDelPaso DEF CambiarEstado

LEMMA ColasSiempre == Spec => [](SinSuaves /\ ColasBien)
<1>1. Init => SinSuaves /\ ColasBien
  <2>. SUFFICES ASSUME Init PROVE SinSuaves /\ ColasBien
    OBVIOUS
  <2>1. \A h \in Hilos : cambio[h] = NULL
    BY DEF Init
  <2>2. "sabotaje" \in Hilos /\ pc["sabotaje"] = "esperar"
    BY DEF Init, Hilos, Ordenes
  <2>3. IsInjective(<<>>) /\ \A x : ~Contains(<<>>, x)
    BY DEF Contains, IsInjective
  <2>4. \A e \in Estados : ColaBien(e)
    BY <2>3 DEF Init, ColaBien
  <2>. QED
    BY <2>1, <2>2, <2>4 DEF SinSuaves, ColasBien, EnCambio
<1>2. Tipos /\ MovidosBien /\ VivosBien /\ SinSuaves /\ ColasBien /\ [Next]_vars => (SinSuaves /\ ColasBien)'
  <2>. SUFFICES ASSUME Tipos, MovidosBien, VivosBien, SinSuaves, ColasBien, [Next]_vars PROVE (SinSuaves /\ ColasBien)'
    OBVIOUS
  <2>1. CASE UNCHANGED vars
    BY <2>1 DEF vars, colasVars, ordenVars, SinSuaves, SinSabotajes, ColasBien, EnRegla, ColaBien, Agregando, EnCambio
  <2>2. CASE \E h \in Hilos : DelHilo(h)
    BY <2>2, SuavesPaso, ColasPaso
  <2>. QED
    BY <2>1, <2>2 DEF Next, Reposo
<1>. QED
  BY <1>1, <1>2, TiposSiempre, MovidosSiempre, VivosSiempre, PTL DEF Spec

-------------------------------------------------------------------------------
\* Who is in NEW.  Out of a pause nobody, nor does any thread have somebody to
\* put there; and while an order passes them to READY there are no more of them
\* than it has counted, but for the one it is taking out.
PorSacar(h) == IF cambio[h] # NULL /\ Contains(colas["NEW"], cambio[h].t) THEN 1 ELSE 0
NuevasBien ==
  /\ ~pausa => colas["NEW"] = <<>>
  /\ \A h \in Hilos : cambio[h] # NULL /\ cambio[h].nuevo = "NEW" => pausa
  /\ \A h \in Ordenes : pc[h] = "nuevos" =>
       /\ cambio[h] # NULL => cambio[h].paso \in DeEstado
       /\ Len(colas["NEW"]) <= Len(lista[h]) + PorSacar(h)

\* Only a pause and its end change pausa, and an order gets to where it passes
\* the members of NEW only by counting them, or by passing another.
LEMMA PausaDe ==
  ASSUME Tipos, NEW h \in Hilos, DelHilo(h), ~CambiarEstado(h)
  PROVE  /\ pausa' = pausa \/ (h \in Ordenes /\ (PausarTomar(h) \/ IniciarReanudar(h)))
         /\ pc'[h] = "nuevos" /\ h \in Ordenes => IniciarContar(h) \/ IniciarNuevo(h)
<1>1. ASSUME NEW a, NEW b, Ir(h, a, b) PROVE pc'[h] = b
  BY <1>1 DEF Ir, Tipos, DePc
<1>2. CASE h = "planificador" /\ Planificador
  <2>1. UNCHANGED pausa
    BY <1>2 DEF Planificador, PlanEsperarCpu, PlanEsperarReady, PlanEsperarPlanificacion, PasarUnoAExec, PlanPost,
                EsperarYSeguir, banderas
  <2>. QED
    BY <1>2, <2>1 DEF Ordenes
<1>3. CASE h = "consola" /\ Consola
  <2>1. UNCHANGED pausa
    BY <1>3 DEF Consola, PedirIniciar, PedirPausar, IniciarTripulante, IniciarEncolar, IniciarSiguiente,
                ExpulsarMarcar, ExpulsarDespertar, IniciarPatota, ExpulsarTripulante, Avanzar, banderas
  <2>2. pc'[h] # "nuevos"
    <3>1. CASE IniciarTripulante
      BY <1>3, <3>1, IniciarDe
    <3>2. CASE ~IniciarTripulante
      BY <1>1, <1>3, <3>2 DEF Consola, PedirIniciar, PedirPausar, IniciarEncolar, IniciarSiguiente,
                ExpulsarMarcar, ExpulsarDespertar, IniciarPatota, ExpulsarTripulante, Avanzar
    <3>. QED
      BY <3>1, <3>2
  <2>. QED
    BY <2>1, <2>2
<1>4. CASE h = "sabotaje" /\ Sabotaje
  <2>1. UNCHANGED pausa
    BY <1>4 DEF Sabotaje, SaboEmpezar, SaboMirarPausa, SaboListar, SaboElegir, SaboBloquear, SaboBloquearSuave, SaboSinNadie, SaboResolver,
                SaboMover, SaboLlegar, SaboGuardar, SaboDevolver, SaboFin, Avanzar, banderas
  <2>2. pc'[h] # "nuevos"
    BY <1>1, <1>4 DEF Sabotaje, SaboEmpezar, SaboMirarPausa, SaboListar, SaboElegir, SaboBloquear, SaboBloquearSuave, SaboSinNadie,
                SaboResolver, SaboMover, SaboLlegar, SaboGuardar, SaboDevolver, SaboFin, Avanzar
  <2>. QED
    BY <2>1, <2>2
<1>5. CASE h \in Ordenes /\ Orden(h)
  <2>1. CASE IniciarContar(h) \/ IniciarNuevo(h)
    BY <2>1 DEF IniciarContar, IniciarNuevo, banderas
  <2>2. CASE ~(IniciarContar(h) \/ IniciarNuevo(h))
    <3>1. pausa' = pausa \/ PausarTomar(h) \/ IniciarReanudar(h)
      BY <1>5, <2>2 DEF Orden, IniciarNada, IniciarCaida, PausarNada,
                PausarEsperar, PausarTodos, PausarUno, PausarFin, Avanzar, EsperarYSeguir, banderas
    <3>2. TrasPausar(h) # "nuevos"
      BY DEF TrasPausar
    <3>3. pc'[h] # "nuevos"
      BY <1>1, <1>5, <2>2, <3>2 DEF Orden, IniciarNada, IniciarCaida, IniciarReanudar, PausarNada, PausarTomar,
                PausarEsperar, PausarTodos, PausarUno, PausarFin, Avanzar, EsperarYSeguir
    <3>. QED
      BY <1>5, <3>1, <3>3
  <2>. QED
    BY <2>1, <2>2
<1>6. CASE h \in Tripulantes /\ Tripulante(h)
  <2>1. UNCHANGED pausa
    <3>1. CASE PasarPausa(h) \/ EsperarSemaforo(h) \/ Seguir(h) \/ Salir(h) \/ SalirDeReady(h) \/ TomarContador(h)
      BY <3>1 DEF PasarPausa, EsperarSemaforo, Seguir, Salir, SalirDeReady, TomarContador, Avanzar, banderas
    <3>2. CASE DejarCpu(h) \/ PedirIO(h) \/ TomarDispositivo(h) \/ HacerTarea(h) \/ Moverse(h) \/ Terminar(h)
      BY <3>2 DEF DejarCpu, PedirIO, TomarDispositivo, HacerTarea, Moverse, Terminar, EsperarYSeguir, banderas
    <3>3. CASE TerminoListar(h) \/ FaltaAlguno(h) \/ DestruirTodos(h) \/ EstanTodos(h) \/ Destruirse(h)
      BY <3>3 DEF TerminoListar, FaltaAlguno, DestruirTodos, EstanTodos, Destruirse, Avanzar, banderas
    <3>. QED
      BY <1>6, <3>1, <3>2, <3>3 DEF Tripulante
  <2>2. h \notin Ordenes
    BY <1>6, NombresAssumption DEF Ordenes
  <2>. QED
    BY <2>1, <2>2
<1>. QED
  BY <1>2, <1>3, <1>4, <1>5, <1>6 DEF DelHilo

\* While an order passes the members of NEW nobody puts another there.
LEMMA NadieEntra ==
  ASSUME LlamadasBien, PausaBien, NEW k \in Ordenes, pc[k] = "nuevos",
         NEW h \in Hilos, cambio[h] # NULL, cambio[h].nuevo = "NEW"
  PROVE  FALSE
<1>1. h = "consola" /\ pc[h] = "encolado"
  BY DEF LlamadasBien, LlamadaBien
<1>2. mutex_pausa = "consola" /\ mutex_pausa = k
  BY <1>1 DEF PausaBien, ConPausa, Ordenes
<1>. QED
  BY <1>1, <1>2

\* A step of a call, while an order passes the members of NEW.
LEMMA NuevasCambiar ==
  ASSUME Tipos, LlamadasBien, PausaBien, ColasBien, NEW h \in Hilos, CambiarEstado(h),
         NEW k \in Ordenes, pc[k] = "nuevos", cambio[k] # NULL => cambio[k].paso \in DeEstado,
         Len(colas["NEW"]) <= Len(lista[k]) + PorSacar(k)
  PROVE  Len(colas'["NEW"]) <= Len(lista[k]) + PorSacar(k)'
<1>. DEFINE n == colas["NEW"]
            t == cambio[h].t
<1>1. /\ "NEW" \in Estados /\ n \in Seq(Tripulantes) /\ IsInjective(n) /\ Len(n) \in Nat /\ Len(lista[k]) \in Nat
      /\ \A u \in Tripulantes : Contains(n, u) => trip[u].estado = "NEW" /\ ~Agregando(u)
      /\ k \in Hilos
  BY LenProperties DEF Tipos, DeColas, DeLista, Estados, ColasBien, EnRegla, ColaBien, Hilos, Ordenes
<1>2. /\ cambio[h] # NULL /\ t \in Tripulantes /\ \A j \in Hilos \ {h} : cambio'[j] = cambio[j]
      /\ cambio[h].nuevo # "NEW"
  BY CambiarPasa, ColasPasa, NadieEntra
<1>3. PorSacar(k) \in {0, 1} /\ PorSacar(k)' \in {0, 1}
  BY DEF PorSacar
<1>4. ASSUME colas'["NEW"] = n, PorSacar(k)' = PorSacar(k) PROVE Len(colas'["NEW"]) <= Len(lista[k]) + PorSacar(k)'
  BY <1>4
<1>. HIDE DEF n, t
<1>5. CASE CambiarTomar(h)
  <2>1. colas' = colas /\ cambio'[h] # NULL /\ cambio'[h].t = cambio[h].t
    BY <1>5, TomarDe
  <2>2. PorSacar(k)' = PorSacar(k)
    <3>1. CASE k = h
      BY <1>2, <2>1, <3>1 DEF PorSacar
    <3>2. CASE k # h
      BY <1>1, <1>2, <2>1, <3>2 DEF PorSacar
    <3>. QED
      BY <3>1, <3>2
  <2>. QED
    BY <1>4, <2>1, <2>2 DEF n
<1>6. CASE CambiarNada(h)
  <2>1. colas' = colas /\ trip[t].estado = "EXIT"
    BY <1>6 DEF CambiarNada, colasVars, t
  <2>2. ~Contains(n, t)
    BY <1>1, <1>2, <2>1
  <2>3. cambio'[h] = NULL
    BY <1>6 DEF CambiarNada, Tipos, DeCambio
  <2>4. PorSacar(k)' = PorSacar(k)
    <3>1. CASE k = h
      BY <2>2, <2>3, <3>1 DEF PorSacar, n, t
    <3>2. CASE k # h
      BY <1>1, <1>2, <2>1, <3>2 DEF PorSacar
    <3>. QED
      BY <3>1, <3>2
  <2>. QED
    BY <1>4, <2>1, <2>4 DEF n
<1>7. CASE CambiarAgregar(h) \/ SuaveAgregar(h)
  <2>1. colas'["NEW"] = n
    BY <1>1, <1>2, <1>7 DEF CambiarAgregar, SuaveAgregar, Tipos, DeColas, n
  <2>2. cambio'[h] = NULL
    BY <1>7 DEF CambiarAgregar, SuaveAgregar, Tipos, DeCambio
  <2>3. PorSacar(k)' = PorSacar(k)
    <3>1. CASE k = h
      <4>1. EnCambio(h, "agregar")
        BY <1>2, <1>7, <3>1 DEF CambiarAgregar, SuaveAgregar, EnCambio, DeEstado
      <4>2. ~Contains(n, t)
        BY <1>1, <1>2, <4>1 DEF Agregando, t
      <4>. QED
        BY <2>2, <3>1, <4>2 DEF PorSacar, n, t
    <3>2. CASE k # h
      BY <1>1, <1>2, <2>1, <3>2 DEF PorSacar, n
    <3>. QED
      BY <3>1, <3>2
  <2>. QED
    BY <1>4, <2>1, <2>3
<1>8. CASE CambiarSacar(h) \/ SuaveSacar(h)
  <2>1. colas'["NEW"] = n \/ colas'["NEW"] = RemoveFirst(n, t)
    BY <1>1, <1>8 DEF CambiarSacar, SuaveSacar, Tipos, DeColas, n, t
  <2>2. cambio'[h] # NULL /\ cambio'[h].t = t
    <3>1. cambio[h] \in TCambio /\ NULL \notin TCambio
      BY CambiarPasa, NombresAssumption
    <3>2. CASE CambiarSacar(h)
      BY <3>2, SacandoDe DEF t
    <3>3. CASE SuaveSacar(h)
      <4>1. cambio' = [cambio EXCEPT ![h] = [cambio[h] EXCEPT !.paso = "suave_agregar"]]
        BY <3>3 DEF SuaveSacar, Tipos, DeCambio
      <4>2. [cambio[h] EXCEPT !.paso = "suave_agregar"] \in TCambio
        BY <3>1 DEF TCambio
      <4>. QED
        BY <3>1, <4>1, <4>2 DEF Tipos, DeCambio, TCambio, t
    <3>. QED
      BY <1>8, <3>2, <3>3
  <2>3. CASE colas'["NEW"] = n
    <3>1. PorSacar(k)' = PorSacar(k)
      <4>1. CASE k = h
        BY <1>2, <2>2, <2>3, <4>1 DEF PorSacar, n, t
      <4>2. CASE k # h
        BY <1>1, <1>2, <2>3, <4>2 DEF PorSacar, n
      <4>. QED
        BY <4>1, <4>2
    <3>. QED
      BY <1>4, <2>3, <3>1
  <2>4. CASE colas'["NEW"] = RemoveFirst(n, t)
    <3>1. /\ Len(colas'["NEW"]) = IF Contains(n, t) THEN Len(n) - 1 ELSE Len(n)
          /\ \A x : Contains(colas'["NEW"], x) <=> Contains(n, x) /\ x # t
      BY <1>1, <2>4, SacarMenos, SacarDe
    <3>2. CASE Contains(n, t)
      <4>1. Len(n) <= Len(lista[k]) + PorSacar(k)
        BY DEF n
      <4>2. Len(colas'["NEW"]) = Len(n) - 1
        BY <3>1, <3>2
      <4>. HIDE DEF PorSacar
      <4>. QED
        BY <1>1, <1>3, <4>1, <4>2
    <3>3. CASE ~Contains(n, t)
      <4>1. Len(colas'["NEW"]) = Len(n)
        BY <3>1, <3>3
      <4>2. PorSacar(k)' = PorSacar(k)
        <5>1. CASE k = h
          BY <2>2, <3>1, <3>3, <5>1 DEF PorSacar, n, t
        <5>2. CASE k # h
          <6>1. cambio'[k] = cambio[k]
            BY <1>1, <1>2, <5>2
          <6>2. \A x : Contains(colas'["NEW"], x) <=> Contains(n, x)
            BY <3>1, <3>3
          <6>. QED
            BY <6>1, <6>2 DEF PorSacar, n
        <5>. QED
          BY <5>1, <5>2
      <4>. QED
        BY <4>1, <4>2 DEF n
    <3>. QED
      BY <3>2, <3>3
  <2>. QED
    BY <2>1, <2>3, <2>4
<1>. QED
  BY <1>5, <1>6, <1>7, <1>8 DEF CambiarEstado

LEMMA NuevasPaso ==
  ASSUME Tipos, LlamadasBien, PausaBien, ColasBien, NuevasBien, NEW h \in Hilos, DelHilo(h)
  PROVE  NuevasBien'
<1>. DEFINE n == colas["NEW"]
<1>0. /\ n \in Seq(Tripulantes) /\ "NEW" \in Estados /\ Len(n) \in Nat /\ Ordenes \subseteq Hilos
      /\ "consola" \notin Tripulantes /\ "sabotaje" \notin Tripulantes /\ pausa \in BOOLEAN
      /\ \A k \in Ordenes : lista[k] \in Seq(Tripulantes) /\ Len(lista[k]) \in Nat
  BY LenProperties, NombresAssumption DEF Tipos, DeColas, DePausa, DeLista, Estados, Hilos, Ordenes
<1>. HIDE DEF n
<1>1. CASE CambiarEstado(h)
  <2>1. /\ cambio[h] # NULL /\ \A k \in Hilos \ {h} : cambio'[k] = cambio[k]
        /\ cambio'[h] # NULL => /\ cambio'[h].nuevo = cambio[h].nuevo
                                /\ cambio'[h].paso \in DeEstado <=> cambio[h].paso \in DeEstado
        /\ pc' = pc /\ lista' = lista /\ pausa' = pausa
    BY <1>1, CambiarPasa, ColasPasa
  <2>2. ASSUME ~(pausa') PROVE colas'["NEW"] = <<>>
    <3>1. n = <<>> /\ cambio[h].nuevo # "NEW"
      BY <2>1, <2>2 DEF NuevasBien, n
    <3>2. colas'["NEW"] = n \/ colas'["NEW"] = RemoveFirst(n, cambio[h].t)
      BY <1>0, <1>1, <3>1, ColasPasa DEF Tipos, DeColas, n
    <3>3. RemoveFirst(n, cambio[h].t) \in Seq(Tripulantes)
      BY <1>0, SacarTipo
    <3>4. Len(RemoveFirst(n, cambio[h].t)) \in Nat /\ Len(RemoveFirst(n, cambio[h].t)) <= Len(n)
      BY <1>0, SacarMenos
    <3>5. Len(n) = 0
      BY <3>1, EmptySeq
    <3>6. RemoveFirst(n, cambio[h].t) = <<>>
      <4>1. Len(RemoveFirst(n, cambio[h].t)) = 0
        BY <3>4, <3>5
      <4>. QED
        BY <3>3, <4>1, EmptySeq
    <3>. QED
      BY <3>1, <3>2, <3>6
  <2>3. ASSUME NEW k \in Hilos, cambio'[k] # NULL, cambio'[k].nuevo = "NEW" PROVE pausa'
    <3>1. cambio[k] # NULL /\ cambio[k].nuevo = "NEW"
      BY <2>1, <2>3
    <3>. QED
      BY <2>1, <3>1 DEF NuevasBien
  <2>4. ASSUME NEW k \in Ordenes, pc'[k] = "nuevos"
        PROVE  /\ cambio'[k] # NULL => cambio'[k].paso \in DeEstado
               /\ Len(colas'["NEW"]) <= Len(lista'[k]) + PorSacar(k)'
    <3>1. /\ pc[k] = "nuevos" /\ k \in Hilos
          /\ (cambio[k] # NULL => cambio[k].paso \in DeEstado)
          /\ Len(colas["NEW"]) <= Len(lista[k]) + PorSacar(k)
      BY <1>0, <2>1, <2>4 DEF NuevasBien
    <3>2. cambio'[k] # NULL => cambio'[k].paso \in DeEstado
      <4>1. CASE k = h
        BY <2>1, <3>1, <4>1
      <4>2. CASE k # h
        BY <2>1, <3>1, <4>2
      <4>. QED
        BY <4>1, <4>2
    <3>3. Len(colas'["NEW"]) <= Len(lista[k]) + PorSacar(k)'
      BY <1>1, <3>1, NuevasCambiar
    <3>. QED
      BY <2>1, <3>2, <3>3
  <2>. QED
    BY <2>2, <2>3, <2>4 DEF NuevasBien
<1>2. CASE IniciarTripulante
  <2>. DEFINE t == Head(lista["consola"])
  <2>1. /\ t \in Tripulantes /\ UNCHANGED <<colas, cambio, lista, pausa>>
        /\ pc'["consola"] = "encolar" /\ \A k \in Hilos \ {"consola", t} : pc'[k] = pc[k]
    BY <1>2, IniciarDe
  <2>. HIDE DEF t
  <2>2. \A k \in Ordenes : pc'[k] = "nuevos" => pc[k] = "nuevos"
    BY <1>0, <2>1 DEF Ordenes
  <2>3. \A k \in Ordenes : PorSacar(k)' = PorSacar(k)
    BY <2>1 DEF PorSacar
  <2>. QED
    BY <2>1, <2>2, <2>3 DEF NuevasBien
<1>3. CASE Huella(h) /\ ~CambiarEstado(h)
  <2>1. /\ cambio[h] = NULL /\ \A k \in Hilos \ {h} : cambio'[k] = cambio[k] /\ pc'[k] = pc[k]
        /\ cambio'[h] # NULL => Llamada(h)
    BY <1>3 DEF Huella
  <2>2. colas'["NEW"] = n
    <3>1. CASE colas' = colas
      BY <3>1 DEF n
    <3>2. CASE h \in Tripulantes /\ DestruirTodos(h)
      BY <1>0, <3>2 DEF DestruirTodos, Tipos, DeColas, n
    <3>. QED
      BY <1>3, <3>1, <3>2 DEF Huella
  <2>3. \A k \in Hilos \ {h} : lista'[k] = lista[k]
    BY ListasDe
  <2>4. /\ pausa' = pausa \/ (h \in Ordenes /\ (PausarTomar(h) \/ IniciarReanudar(h)))
        /\ pc'[h] = "nuevos" /\ h \in Ordenes => IniciarContar(h) \/ IniciarNuevo(h)
    BY <1>3, PausaDe
  <2>5. ASSUME ~(pausa') PROVE n = <<>>
    <3>1. CASE ~pausa
      BY <3>1 DEF NuevasBien, n
    <3>2. CASE pausa
      <4>1. h \in Ordenes /\ IniciarReanudar(h)
        BY <2>4, <2>5, <3>2 DEF PausarTomar
      <4>2. pc[h] = "nuevos" /\ lista[h] = <<>>
        BY <4>1 DEF IniciarReanudar, Ir, En
      <4>3. PorSacar(h) = 0 /\ Len(lista[h]) = 0
        BY <2>1, <4>2, EmptySeq DEF PorSacar
      <4>4. Len(n) <= 0 + 0
        BY <4>1, <4>2, <4>3 DEF NuevasBien, n
      <4>5. Len(n) = 0
        BY <1>0, <4>4
      <4>. QED
        BY <1>0, <4>5, EmptySeq
    <3>. QED
      BY <1>0, <3>1, <3>2
  <2>6. ASSUME NEW k \in Hilos, cambio'[k] # NULL, cambio'[k].nuevo = "NEW" PROVE pausa'
    <3>1. CASE k = h
      <4>1. Llamada(h) /\ cambio'[h].nuevo = "NEW"
        BY <2>1, <2>6, <3>1
      <4>2. h = "consola" /\ IniciarEncolar /\ pausa
        BY <4>1 DEF Llamada
      <4>. QED
        BY <4>2 DEF IniciarEncolar, banderas
    <3>2. CASE k # h
      <4>1. cambio[k] # NULL /\ cambio[k].nuevo = "NEW"
        BY <2>1, <2>6, <3>2
      <4>2. pausa
        BY <4>1 DEF NuevasBien
      <4>3. ~(h \in Ordenes /\ IniciarReanudar(h))
        BY <4>1, NadieEntra DEF IniciarReanudar, Ir, En
      <4>. QED
        BY <2>4, <4>2, <4>3 DEF PausarTomar
    <3>. QED
      BY <3>1, <3>2
  <2>7. ASSUME NEW k \in Ordenes, pc'[k] = "nuevos"
        PROVE  /\ cambio'[k] # NULL => cambio'[k].paso \in DeEstado
               /\ Len(colas'["NEW"]) <= Len(lista'[k]) + PorSacar(k)'
    <3>1. CASE k # h
      <4>1. /\ (cambio[k] # NULL => cambio[k].paso \in DeEstado)
            /\ Len(n) <= Len(lista[k]) + PorSacar(k)
        BY <1>0, <2>1, <2>7, <3>1 DEF NuevasBien, n
      <4>2. cambio'[k] = cambio[k] /\ lista'[k] = lista[k]
        BY <1>0, <2>1, <2>3, <3>1
      <4>3. PorSacar(k)' = PorSacar(k)
        BY <2>2, <4>2 DEF PorSacar, n
      <4>. QED
        BY <2>2, <4>1, <4>2, <4>3
    <3>2. CASE k = h
      <4>1. CASE IniciarContar(h)
        <5>1. lista'[h] = n /\ cambio'[h] = NULL
          BY <1>0, <2>1, <4>1 DEF IniciarContar, Tipos, DeLista, n
        <5>2. PorSacar(h)' = 0
          BY <5>1 DEF PorSacar
        <5>. QED
          BY <1>0, <2>2, <3>2, <5>1, <5>2
      <4>2. CASE IniciarNuevo(h)
        <5>1. /\ pc[h] = "nuevos" /\ lista[h] # <<>> /\ n # <<>> /\ lista'[h] = Tail(lista[h])
              /\ Cambiar(h, Head(n), "READY")
          BY <1>0, <2>1, <4>2 DEF IniciarNuevo, Ir, En, Tipos, DeLista, n
        <5>2. cambio'[h].t = Head(n) /\ cambio'[h].paso = "tomar" /\ cambio'[h] # NULL
          <6>1. DeCambio /\ NULL \notin TCambio /\ Head(n) \in Tripulantes /\ "READY" \in Estados
            BY <1>0, <5>1, NombresAssumption, HeadTailProperties DEF Tipos, Estados
          <6>2. DeCambio'
            BY <5>1, <6>1, CambiarTipo
          <6>3. [t |-> Head(n), viejo |-> NULL, nuevo |-> "READY", paso |-> "tomar"] \in TCambio
            BY <6>1 DEF TCambio
          <6>4. cambio'[h] = [t |-> Head(n), viejo |-> NULL, nuevo |-> "READY", paso |-> "tomar"]
            BY <5>1, <6>1 DEF Cambiar, DeCambio
          <6>. QED
            BY <6>1, <6>3, <6>4
        <5>3. Contains(n, Head(n))
          BY <1>0, <5>1, CabezaDe
        <5>4. PorSacar(h)' = 1 /\ PorSacar(h) = 0
          BY <2>1, <2>2, <5>2, <5>3 DEF PorSacar
        <5>5. Len(Tail(lista[h])) = Len(lista[h]) - 1
          BY <1>0, <3>2, <5>1, CabezaDe
        <5>6. Len(n) <= Len(lista[h]) + 0
          BY <3>2, <5>1, <5>4 DEF NuevasBien, n
        <5>7. Len(n) <= Len(lista'[h]) + PorSacar(h)'
          BY <1>0, <3>2, <5>1, <5>4, <5>5, <5>6
        <5>. QED
          BY <2>2, <3>2, <5>2, <5>7 DEF DeEstado
      <4>. QED
        BY <2>4, <2>7, <3>2, <4>1, <4>2
    <3>. QED
      BY <3>1, <3>2
  <2>. QED
    BY <2>2, <2>5, <2>6, <2>7 DEF NuevasBien
<1>. QED
  BY <1>1, <1>2, <1>3, HuellaDelPaso

\* Out of a pause nobody is left behind in NEW: whoever the console adds while
\* an order empties the queue waits for it to end, and then goes to READY.
THEOREM NadieQuedaEnNewSiempre == Spec => []NadieQuedaEnNew
<1>1. Init => NuevasBien
  <2>. SUFFICES ASSUME Init PROVE NuevasBien
    OBVIOUS
  <2>1. \A h \in Hilos : cambio[h] = NULL
    BY DEF Init
  <2>2. \A h \in Ordenes : h \in Hilos /\ pc[h] = "esperar"
    BY DEF Init, Hilos, Ordenes
  <2>. QED
    BY <2>1, <2>2 DEF Init, NuevasBien
<1>2. Tipos /\ MovidosBien /\ PausaBien /\ ColasBien /\ NuevasBien /\ [Next]_vars => NuevasBien'
  <2>. SUFFICES ASSUME Tipos, MovidosBien, PausaBien, ColasBien, NuevasBien, [Next]_vars PROVE NuevasBien'
    OBVIOUS
  <2>1. CASE UNCHANGED vars
    BY <2>1 DEF vars, colasVars, ordenVars, banderas, NuevasBien, PorSacar
  <2>2. CASE \E h \in Hilos : DelHilo(h)
    BY <2>2, NuevasPaso DEF MovidosBien
  <2>. QED
    BY <2>1, <2>2 DEF Next, Reposo
<1>3. NuevasBien => NadieQuedaEnNew
  BY DEF NuevasBien, NadieQuedaEnNew
<1>. QED
  BY <1>1, <1>2, <1>3, TiposSiempre, MovidosSiempre, PausaSiempre, ColasSiempre, PTL DEF Spec

-------------------------------------------------------------------------------
\* The turns.  While nobody is expelled and there is no sabotage, the state of a
\* member tells where its thread is, what its semaphore holds and which call it
\* may be in, so a member is moved by one thread at a time, in one order.
Calma == NingunoExpulsado /\ SinSabotajes

Falta(t) == trip[t].tarea <= Len(TAREAS)
Pide(t, e) == cambio[t] # NULL /\ cambio[t].paso # "agregar" /\ cambio[t].nuevo = e
Llega(t) == cambio[t] # NULL => cambio[t].paso = "agregar"
LoPonen(t) == EnCambio("planificador", "agregar") /\ cambio["planificador"].t = t

\* It waits to be put in EXEC, it runs, it waits for the device, it is over.
Espera(t) == /\ pc[t] \in {"pausado", "semaforo"} /\ trip[t].semaforo = 0
             /\ ~trip[t].haciendo_io /\ Falta(t)
Corre(t) == /\ cambio[t] = NULL
            /\ \/ pc[t] \in {"pausado", "semaforo"} /\ trip[t].semaforo = 1
               \/ pc[t] \in {"mutex", "decidir"} /\ trip[t].semaforo = 0
EnDispositivo(t) == /\ pc[t] = "dispositivos_io" /\ trip[t].semaforo = 1
                    /\ trip[t].haciendo_io /\ Falta(t)
Acaba(t) == ~trip[t].haciendo_io /\ ~Falta(t)

EnNadaBien(t) == /\ pc[t] = "sin_crear" /\ trip[t].semaforo = 0 /\ ~trip[t].haciendo_io
                 /\ Falta(t) /\ cambio[t] = NULL
EnExecBien(t) ==
  \/ LoPonen(t) /\ Espera(t) /\ cambio[t] = NULL
  \/ /\ ~LoPonen(t)
     /\ \/ Espera(t) /\ pc[t] = "pausado" /\ Pide(t, "READY")
        \/ Corre(t) /\ ~trip[t].haciendo_io
        \/ EnDispositivo(t) /\ Pide(t, "BLOCKED")
        \/ pc[t] = "termino" /\ Acaba(t) /\ Pide(t, "EXIT")
EnBlockedBien(t) ==
  \/ EnDispositivo(t) /\ Llega(t)
  \/ Corre(t) /\ trip[t].haciendo_io /\ Falta(t)
  \/ Espera(t) /\ pc[t] = "pausado" /\ Pide(t, "READY")
  \/ pc[t] = "pausado" /\ Acaba(t) /\ Pide(t, "EXIT")
EnExitBien(t) ==
  /\ pc[t] \in {"pausado", "termino", "revisar", "destruir", "sem_destruir", "destruido"}
  /\ Acaba(t)
  /\ cambio[t] # NULL => cambio[t].nuevo = "EXIT"
TurnoBien(t) ==
  /\ trip[t].termino => trip[t].estado = "EXIT"
  /\ trip[t].estado = NULL => EnNadaBien(t)
  /\ trip[t].estado \in {"NEW", "READY"} => Espera(t) /\ Llega(t)
  /\ trip[t].estado = "EXEC" => EnExecBien(t)
  /\ trip[t].estado = "BLOCKED" => EnBlockedBien(t)
  /\ trip[t].estado = "EXIT" => EnExitBien(t)

\* Until it takes a member out of its queue, who calls finds it where it was.
Llama(h, e) == cambio[h] # NULL /\ cambio[h].paso # "agregar" => trip[cambio[h].t].estado = e
ConsolaBien ==
  /\ pc["consola"] \notin {"expulsar", "expulsado"}
  /\ pc["consola"] = "encolar" =>
       cambio["consola"] = NULL /\ trip[Head(lista["consola"])].estado = "NEW"
EnReadyBien == \A t \in Tripulantes :
                 trip[t].estado = "READY" /\ ~Agregando(t) => Contains(colas["READY"], t)
Turnos ==
  /\ \A t \in Tripulantes : TurnoBien(t)
  /\ Llama("planificador", "READY") /\ Llama("consola", "NEW")
  /\ ConsolaBien /\ EnReadyBien

\* What says where a member is in its turn.
Iguales(t) == /\ trip'[t].semaforo = trip[t].semaforo
              /\ trip'[t].tarea = trip[t].tarea
              /\ trip'[t].termino = trip[t].termino

LEMMA TurnoIgual ==
  ASSUME NEW t \in Tripulantes, TurnoBien(t), pc'[t] = pc[t], cambio'[t] = cambio[t], Iguales(t),
         trip'[t].estado = trip[t].estado, trip'[t].haciendo_io = trip[t].haciendo_io,
         LoPonen(t)' <=> LoPonen(t), TAREAS' = TAREAS
  PROVE  TurnoBien(t)'
<1>1. (Falta(t)' <=> Falta(t)) /\ (Llega(t)' <=> Llega(t)) /\ \A e : Pide(t, e)' <=> Pide(t, e)
  BY DEF Falta, Llega, Pide, Iguales
<1>2. /\ Espera(t)' <=> Espera(t)
      /\ Corre(t)' <=> Corre(t)
      /\ EnDispositivo(t)' <=> EnDispositivo(t)
      /\ Acaba(t)' <=> Acaba(t)
  BY <1>1 DEF Espera, Corre, EnDispositivo, Acaba, Iguales
<1>3. EnNadaBien(t)' <=> EnNadaBien(t)
  BY <1>1 DEF EnNadaBien, Iguales
<1>4. EnExecBien(t)' <=> EnExecBien(t)
  BY <1>1, <1>2 DEF EnExecBien
<1>5. EnBlockedBien(t)' <=> EnBlockedBien(t)
  BY <1>1, <1>2 DEF EnBlockedBien
<1>6. EnExitBien(t)' <=> EnExitBien(t)
  BY <1>1, <1>2 DEF EnExitBien
<1>. QED
  BY <1>1, <1>2, <1>3, <1>4, <1>5, <1>6 DEF TurnoBien, Iguales

\* Out of cambiar_estado, and of expulsions and sabotages, nobody touches the
\* turn of another.
LEMMA AjenosDe ==
  ASSUME Tipos, NEW h \in Hilos, DelHilo(h), ~CambiarEstado(h), h # "sabotaje",
         ~ExpulsarMarcar, ~ExpulsarDespertar
  PROVE  TAREAS' = TAREAS /\ \A u \in Tripulantes \ {h} : Iguales(u)
<1>0. DeTrip /\ DOMAIN trip = Tripulantes /\ \A u \in Tripulantes : trip[u] \in TTripulante
  BY DEF Tipos, DeTrip
<1>1. UNCHANGED trip => \A u \in Tripulantes \ {h} : Iguales(u)
  BY DEF Iguales
<1>2. UNCHANGED ordenVars => TAREAS' = TAREAS /\ UNCHANGED usos
  BY DEF ordenVars, TAREAS
<1>3. UNCHANGED usos => TAREAS' = TAREAS
  BY DEF TAREAS
<1>4. CASE Planificador
  BY <1>1, <1>2, <1>4 DEF Planificador, PlanEsperarCpu, PlanEsperarReady, PlanEsperarPlanificacion,
     PasarUnoAExec, PlanPost, EsperarYSeguir
<1>5. CASE h = "consola" /\ Consola
  <2>1. CASE PedirIniciar \/ IniciarEncolar
    BY <1>1, <1>2, <2>1 DEF PedirIniciar, IniciarEncolar, Avanzar
  <2>2. CASE IniciarSiguiente \/ \E p \in Patotas : IniciarPatota(p)
    BY <1>1, <1>3, <2>2 DEF IniciarSiguiente, IniciarPatota
  <2>3. CASE PedirPausar \/ \E t \in Tripulantes : ExpulsarTripulante(t)
    <3>1. UNCHANGED trip
      BY <2>3 DEF PedirPausar, ExpulsarTripulante
    <3>2. usos'.escenario = usos.escenario
      BY <2>3 DEF PedirPausar, ExpulsarTripulante, Tipos, DeUsos, TUsos
    <3>. QED
      BY <1>1, <3>1, <3>2 DEF TAREAS
  <2>4. CASE IniciarTripulante
    <3>. DEFINE t == Head(lista["consola"])
    <3>1. trip' = [trip EXCEPT ![t].estado = "NEW"] /\ UNCHANGED ordenVars
      BY <2>4 DEF IniciarTripulante
    <3>2. t \in Tripulantes
      BY <2>4, IniciarDe
    <3>. HIDE DEF t
    <3>. QED
      BY <1>0, <1>2, <3>1, <3>2 DEF Iguales, TTripulante
  <2>. QED
    BY <1>5, <2>1, <2>2, <2>3, <2>4 DEF Consola
<1>6. CASE h \in Ordenes /\ Orden(h)
  <2>1. CASE IniciarNada(h) \/ IniciarCaida(h) \/ PausarNada(h) \/ PausarTomar(h) \/ PausarEsperar(h) \/ PausarFin(h)
    BY <1>1, <1>2, <2>1 DEF IniciarNada, IniciarCaida, PausarNada, PausarTomar, PausarEsperar, PausarFin,
       Avanzar, EsperarYSeguir
  <2>2. CASE IniciarContar(h) \/ IniciarNuevo(h) \/ PausarTodos(h)
    BY <1>1, <1>3, <2>2 DEF IniciarContar, IniciarNuevo, PausarTodos
  <2>3. CASE IniciarReanudar(h)
    <3>1. UNCHANGED ordenVars
      BY <2>3 DEF IniciarReanudar
    <3>2. CASE planificando
      <4>1. trip' = [t \in Tripulantes |-> [trip[t] EXCEPT !.pausado = @ + Veces(t)]]
        BY <2>3, <3>2 DEF IniciarReanudar
      <4>2. \A u \in Tripulantes : Iguales(u)
        BY <1>0, <4>1 DEF Iguales, TTripulante
      <4>. QED
        BY <1>2, <3>1, <4>2
    <3>3. CASE ~planificando
      BY <1>1, <1>2, <2>3, <3>1, <3>3 DEF IniciarReanudar
    <3>. QED
      BY <3>2, <3>3
  <2>4. CASE PausarUno(h)
    <3>. DEFINE t == Head(lista[h])
    <3>1. lista[h] \in Seq(Tripulantes) /\ lista[h] # <<>>
      BY <2>4 DEF PausarUno, Tipos, DeLista
    <3>2. t \in Tripulantes
      BY <3>1, HeadTailProperties
    <3>3. trip' = [trip EXCEPT ![t].pausado = @ - 1] /\ UNCHANGED usos
      BY <2>4 DEF PausarUno
    <3>. HIDE DEF t
    <3>4. \A u \in Tripulantes : Iguales(u)
      BY <1>0, <3>2, <3>3 DEF Iguales, TTripulante
    <3>. QED
      BY <1>3, <3>3, <3>4
  <2>. QED
    BY <1>6, <2>1, <2>2, <2>3, <2>4 DEF Orden
<1>7. CASE h \in Tripulantes /\ Tripulante(h)
  <2>1. CASE PasarPausa(h) \/ Seguir(h) \/ Salir(h) \/ TomarDispositivo(h) \/ Terminar(h) \/ EstanTodos(h) \/ Destruirse(h)
    BY <1>1, <1>2, <2>1 DEF PasarPausa, Seguir, Salir, TomarDispositivo, Terminar, EstanTodos, Destruirse,
       Avanzar, EsperarYSeguir
  <2>2. CASE TerminoListar(h) \/ FaltaAlguno(h)
    BY <1>1, <1>3, <2>2 DEF TerminoListar, FaltaAlguno
  <2>3. CASE DestruirTodos(h)
    <3>. DEFINE A == Avisados(h)
    <3>1. /\ trip' = [u \in Tripulantes |->
                        IF u \in A THEN [trip[u] EXCEPT !.sem_destruir = @ + 1] ELSE trip[u]]
          /\ UNCHANGED usos
      BY <2>3 DEF DestruirTodos
    <3>. HIDE DEF A
    <3>2. \A u \in Tripulantes : Iguales(u)
      BY <1>0, <3>1 DEF Iguales, TTripulante
    <3>. QED
      BY <1>3, <3>1, <3>2
  <2>4. CASE EsperarSemaforo(h) \/ SalirDeReady(h) \/ TomarContador(h) \/ DejarCpu(h) \/ PedirIO(h) \/ HacerTarea(h) \/ Moverse(h)
    <3>1. UNCHANGED ordenVars
      BY <2>4 DEF EsperarSemaforo, SalirDeReady, TomarContador, DejarCpu, PedirIO, HacerTarea, Moverse
    <3>2. \E r : trip' = [trip EXCEPT ![h] = r]
      BY <2>4 DEF EsperarSemaforo, SalirDeReady, TomarContador, DejarCpu, PedirIO, HacerTarea, Moverse
    <3>3. \A u \in Tripulantes \ {h} : trip'[u] = trip[u]
      BY <1>0, <3>2
    <3>. QED
      BY <1>2, <3>1, <3>3 DEF Iguales
  <2>. QED
    BY <1>7, <2>1, <2>2, <2>3, <2>4 DEF Tripulante
<1>. QED
  BY <1>4, <1>5, <1>6, <1>7 DEF DelHilo

\* And cambiar_estado touches it only to put the member in EXEC or in EXIT.
LEMMA PropiosDe ==
  ASSUME Tipos, NEW h \in Hilos, CambiarEstado(h)
  PROVE  LET t == cambio[h].t IN
         /\ TAREAS' = TAREAS /\ pc' = pc
         /\ \A u \in Tripulantes :
              /\ trip'[u].haciendo_io = trip[u].haciendo_io
              /\ Iguales(u) \/ (CambiarAgregar(h) /\ u = t)
         /\ CambiarAgregar(h) =>
              /\ trip'[t].tarea = trip[t].tarea
              /\ trip'[t].termino = (trip[t].termino \/ cambio[h].nuevo = "EXIT")
              /\ trip'[t].semaforo = IF cambio[h].nuevo \in {"EXEC", "EXIT"}
                                     THEN trip[t].semaforo + 1 ELSE trip[t].semaforo
<1>. DEFINE t == cambio[h].t
<1>0. DeTrip /\ DOMAIN trip = Tripulantes /\ \A u \in Tripulantes : trip[u] \in TTripulante
  BY DEF Tipos, DeTrip
<1>1. TAREAS' = TAREAS /\ pc' = pc /\ t \in Tripulantes
  BY ColasPasa, CambiarPasa DEF TAREAS
<1>2. CASE CambiarNada(h) \/ SuaveSacar(h) \/ SuaveAgregar(h)
  <2>1. trip' = trip /\ ~CambiarAgregar(h)
    BY <1>2 DEF CambiarNada, SuaveSacar, SuaveAgregar, CambiarAgregar, EnCambio
  <2>. QED
    BY <1>1, <2>1 DEF Iguales
<1>3. CASE CambiarTomar(h)
  <2>. DEFINE a == IF trip[t].estado = "BLOCKED" THEN 0 ELSE trip[t].tiempo_en_cpu
  <2>1. trip' = [trip EXCEPT ![t] = [trip[t] EXCEPT !.mutex = h, !.tiempo_en_cpu = a]]
    BY <1>0, <1>1, <1>3 DEF CambiarTomar
  <2>2. ~CambiarAgregar(h)
    BY <1>3 DEF CambiarTomar, CambiarAgregar, EnCambio
  <2>. HIDE DEF a, t
  <2>3. \A u \in Tripulantes : trip'[u].haciendo_io = trip[u].haciendo_io /\ Iguales(u)
    BY <1>0, <1>1, <2>1 DEF Iguales, TTripulante
  <2>. QED
    BY <1>1, <2>2, <2>3
<1>4. CASE CambiarSacar(h)
  <2>. DEFINE e == cambio[h].nuevo
  <2>1. trip' = [trip EXCEPT ![t].estado = e]
    BY <1>4 DEF CambiarSacar
  <2>2. ~CambiarAgregar(h)
    BY <1>4 DEF CambiarSacar, CambiarAgregar, EnCambio
  <2>. HIDE DEF e, t
  <2>3. \A u \in Tripulantes : trip'[u].haciendo_io = trip[u].haciendo_io /\ Iguales(u)
    BY <1>0, <1>1, <2>1 DEF Iguales, TTripulante
  <2>. QED
    BY <1>1, <2>2, <2>3
<1>5. CASE CambiarAgregar(h)
  <2>. DEFINE a == IF cambio[h].nuevo \in {"EXEC", "EXIT"} THEN trip[t].semaforo + 1 ELSE trip[t].semaforo
              b == trip[t].termino \/ cambio[h].nuevo = "EXIT"
  <2>1. trip' = [trip EXCEPT ![t] = [trip[t] EXCEPT !.mutex = NULL, !.termino = b, !.semaforo = a]]
    BY <1>5 DEF CambiarAgregar
  <2>. HIDE DEF a, b, t
  <2>2. /\ \A u \in Tripulantes : trip'[u].haciendo_io = trip[u].haciendo_io
        /\ \A u \in Tripulantes \ {t} : Iguales(u)
        /\ trip'[t].tarea = trip[t].tarea /\ trip'[t].termino = b /\ trip'[t].semaforo = a
    BY <1>0, <1>1, <2>1 DEF Iguales, TTripulante
  <2>. QED
    BY <1>1, <1>5, <2>2 DEF a, b, t
<1>. QED
  BY <1>2, <1>3, <1>4, <1>5 DEF CambiarEstado

\* The turn of a member that moves on.
LEMMA LlamaDe ==
  ASSUME DeCambio, NEW h \in Hilos, NEW t \in Tripulantes, NEW e \in Estados, Cambiar(h, t, e)
  PROVE  cambio'[h] # NULL /\ cambio'[h].t = t /\ cambio'[h].paso = "tomar" /\ cambio'[h].nuevo = e
<1>. DEFINE c == [t |-> t, viejo |-> NULL, nuevo |-> e, paso |-> "tomar"]
<1>1. c \in TCambio /\ NULL \notin TCambio
  BY NombresAssumption DEF TCambio
<1>2. cambio'[h] = c
  BY DEF Cambiar, DeCambio
<1>. QED
  BY <1>1, <1>2

LEMMA TurnoPropio ==
  ASSUME Tipos, NEW t \in Tripulantes, Tripulante(t), TurnoBien(t)
  PROVE  TurnoBien(t)'
<1>. DEFINE e == trip[t].estado
            Quedan == /\ trip'[t].tarea = trip[t].tarea /\ trip'[t].termino = trip[t].termino
                      /\ trip'[t].haciendo_io = trip[t].haciendo_io
<1>0. /\ t \in Hilos /\ t # "planificador" /\ "planificador" \in Hilos
      /\ DeCambio /\ DePc /\ DeTrip /\ DOMAIN trip = Tripulantes /\ trip[t] \in TTripulante
      /\ {"READY", "EXEC", "BLOCKED", "EXIT"} \subseteq Estados
  BY NombresAssumption DEF Hilos, Tipos, DeTrip, Estados
<1>1. Huella(t)
  BY HuellaTripulante
<1>2. cambio[t] = NULL /\ trip'[t].estado = e /\ (LoPonen(t)' <=> LoPonen(t)) /\ pc[t] # "sin_crear"
  BY <1>0, <1>1 DEF Huella, LoPonen, EnCambio
<1>3. TAREAS' = TAREAS /\ Len(TAREAS) \in Nat
  <2>1. Len(TAREAS) \in Nat
    BY DiscordiadorAssumption, LenProperties DEF Tipos, DeUsos, TUsos, TAREAS
  <2>2. UNCHANGED usos
    <3>1. CASE PasarPausa(t) \/ EsperarSemaforo(t) \/ Seguir(t) \/ Salir(t) \/ SalirDeReady(t) \/ TomarContador(t)
      BY <3>1 DEF PasarPausa, EsperarSemaforo, Seguir, Salir, SalirDeReady, TomarContador, Avanzar, ordenVars
    <3>2. CASE DejarCpu(t) \/ PedirIO(t) \/ TomarDispositivo(t) \/ HacerTarea(t) \/ Moverse(t) \/ Terminar(t)
      BY <3>2 DEF DejarCpu, PedirIO, TomarDispositivo, HacerTarea, Moverse, Terminar, EsperarYSeguir, ordenVars
    <3>3. CASE TerminoListar(t) \/ FaltaAlguno(t) \/ DestruirTodos(t) \/ EstanTodos(t) \/ Destruirse(t)
      BY <3>3 DEF TerminoListar, FaltaAlguno, DestruirTodos, EstanTodos, Destruirse, Avanzar, ordenVars
    <3>. QED
      BY <3>1, <3>2, <3>3 DEF Tripulante
  <2>. QED
    BY <2>1, <2>2 DEF TAREAS
<1>4. /\ trip[t].tarea \in Nat /\ trip[t].semaforo \in Nat /\ trip[t].haciendo_io \in BOOLEAN
      /\ pc[t] \in ConTarea => Falta(t)
      /\ e \in Estados \cup {NULL} /\ NULL \notin Estados
  BY <1>0, NombresAssumption DEF TTripulante, Tipos, Puestos, Falta
<1>5. ASSUME NEW a, NEW b, Ir(t, a, b) PROVE pc[t] = a /\ pc'[t] = b
  BY <1>0, <1>5 DEF Ir, En, DePc
\* Where it may be when it is in no call.
<1>6. /\ trip[t].termino => e = "EXIT"
      /\ \/ Espera(t) /\ (e \in {"NEW", "READY"} \/ (e = "EXEC" /\ LoPonen(t)))
         \/ Corre(t) /\ e = "EXEC" /\ ~LoPonen(t) /\ ~trip[t].haciendo_io
         \/ EnDispositivo(t) /\ e = "BLOCKED"
         \/ Corre(t) /\ e = "BLOCKED" /\ trip[t].haciendo_io /\ Falta(t)
         \/ EnExitBien(t) /\ e = "EXIT"
  BY <1>2, <1>4 DEF TurnoBien, EnExecBien, EnBlockedBien, EnNadaBien, Pide, Estados
\* And where that takes it.
<1>7. ASSUME cambio'[t] = NULL, trip'[t].termino => e = "EXIT",
             \/ Espera(t)' /\ (e \in {"NEW", "READY"} \/ (e = "EXEC" /\ LoPonen(t)))
             \/ Corre(t)' /\ e = "EXEC" /\ ~LoPonen(t) /\ ~trip'[t].haciendo_io
             \/ Corre(t)' /\ e = "BLOCKED" /\ trip'[t].haciendo_io /\ Falta(t)'
             \/ EnExitBien(t)' /\ e = "EXIT"
      PROVE  TurnoBien(t)'
  BY <1>2, <1>4, <1>7 DEF TurnoBien, EnExecBien, EnBlockedBien, Llega, Estados
<1>. HIDE DEF e
<1>8. CASE PasarPausa(t)
  <2>1. pc[t] = "pausado" /\ pc'[t] = "semaforo" /\ trip' = trip /\ cambio' = cambio /\ Falta(t)
    BY <1>3, <1>4, <1>5, <1>8 DEF PasarPausa, Avanzar, SinTareas, Falta
  <2>2. Falta(t)'
    BY <1>3, <2>1 DEF Falta
  <2>3. (Espera(t) => Espera(t)') /\ (Corre(t) => Corre(t)') /\ ~EnDispositivo(t) /\ ~EnExitBien(t)
    BY <2>1, <2>2 DEF Espera, Corre, EnDispositivo, EnExitBien, Acaba
  <2>. QED
    BY <1>2, <1>6, <1>7, <2>1, <2>2, <2>3
<1>9. CASE EsperarSemaforo(t) \/ Seguir(t)
  <2>1. pc'[t] \in {"mutex", "decidir"} /\ cambio' = cambio /\ Quedan
        /\ \/ pc[t] = "semaforo" /\ trip[t].semaforo > 0 /\ trip'[t].semaforo = trip[t].semaforo - 1
           \/ pc[t] = "mutex" /\ trip'[t].semaforo = trip[t].semaforo
    <3>1. CASE EsperarSemaforo(t)
      <4>1. /\ trip' = [trip EXCEPT ![t].semaforo = @ - 1] /\ trip[t].semaforo > 0
            /\ Ir(t, "semaforo", "mutex") /\ cambio' = cambio
        BY <3>1 DEF EsperarSemaforo
      <4>2. Quedan /\ trip'[t].semaforo = trip[t].semaforo - 1
        BY <1>0, <4>1 DEF TTripulante
      <4>. QED
        BY <1>5, <4>1, <4>2
    <3>2. CASE Seguir(t)
      <4>1. Ir(t, "mutex", "decidir") /\ cambio' = cambio /\ trip' = trip
        BY <3>2 DEF Seguir, Avanzar
      <4>. QED
        BY <1>5, <4>1
    <3>. QED
      BY <1>9, <3>1, <3>2
  <2>2. (Corre(t) => Corre(t)') /\ ~Espera(t) /\ ~EnDispositivo(t) /\ ~EnExitBien(t)
    BY <1>2, <1>4, <2>1 DEF Espera, Corre, EnDispositivo, EnExitBien
  <2>3. Falta(t)' <=> Falta(t)
    BY <1>3, <2>1 DEF Falta
  <2>. QED
    BY <1>2, <1>6, <1>7, <2>1, <2>2, <2>3
<1>10. ~Salir(t) /\ ~SalirDeReady(t) /\ ~TomarContador(t)
  <2>1. pc[t] # "contador_ready" /\ (pc[t] = "mutex" => ~trip[t].termino)
    BY <1>6 DEF Espera, Corre, EnDispositivo, EnExitBien
  <2>. QED
    BY <2>1 DEF Salir, SalirDeReady, TomarContador, Ir, En
\* In decidir it runs.
<1>11. ASSUME pc[t] = "decidir"
       PROVE  /\ trip[t].semaforo = 0 /\ Falta(t) /\ ~trip[t].termino
              /\ \/ e = "EXEC" /\ ~LoPonen(t) /\ ~trip[t].haciendo_io
                 \/ e = "BLOCKED" /\ trip[t].haciendo_io
  BY <1>4, <1>6, <1>11 DEF Espera, Corre, EnDispositivo, EnExitBien, ConTarea
<1>12. CASE DejarCpu(t)
  <2>1. /\ Ir(t, "decidir", "pausado") /\ ~trip[t].haciendo_io /\ Cambiar(t, t, "READY")
        /\ trip' = [trip EXCEPT ![t].tiempo_en_cpu = 0]
    BY <1>12 DEF DejarCpu
  <2>2. pc[t] = "decidir" /\ pc'[t] = "pausado" /\ Pide(t, "READY")'
    BY <1>0, <1>5, <2>1, LlamaDe DEF Pide
  <2>3. Quedan /\ trip'[t].semaforo = trip[t].semaforo
    BY <1>0, <2>1 DEF TTripulante
  <2>4. Espera(t)'
    BY <1>3, <1>11, <2>1, <2>2, <2>3 DEF Espera, Falta
  <2>. QED
    BY <1>0, <1>2, <1>4, <1>11, <2>1, <2>2, <2>3, <2>4 DEF TurnoBien, EnExecBien
<1>13. CASE PedirIO(t)
  <2>. DEFINE a == trip[t].tiempo_en_cpu + 1
              b == trip[t].semaforo + 1
  <2>1. /\ Ir(t, "decidir", "dispositivos_io") /\ ~trip[t].haciendo_io /\ Cambiar(t, t, "BLOCKED")
        /\ trip' = [trip EXCEPT ![t] = [trip[t] EXCEPT !.tiempo_en_cpu = a, !.semaforo = b, !.haciendo_io = TRUE]]
    BY <1>0, <1>13 DEF PedirIO
  <2>2. pc[t] = "decidir" /\ pc'[t] = "dispositivos_io" /\ Pide(t, "BLOCKED")'
    BY <1>0, <1>5, <2>1, LlamaDe DEF Pide
  <2>. HIDE DEF a, b
  <2>3. /\ trip'[t].tarea = trip[t].tarea /\ trip'[t].termino = trip[t].termino
        /\ trip'[t].haciendo_io /\ trip'[t].semaforo = b
    BY <1>0, <2>1 DEF TTripulante
  <2>4. EnDispositivo(t)'
    BY <1>3, <1>11, <2>2, <2>3 DEF EnDispositivo, Falta, b
  <2>. QED
    BY <1>0, <1>2, <1>4, <1>11, <2>1, <2>2, <2>3, <2>4 DEF TurnoBien, EnExecBien
<1>14. CASE TomarDispositivo(t)
  <2>1. pc[t] = "dispositivos_io" /\ pc'[t] = "pausado" /\ trip' = trip /\ cambio' = cambio
    BY <1>5, <1>14 DEF TomarDispositivo, EsperarYSeguir
  <2>2. EnDispositivo(t) /\ e = "BLOCKED"
    BY <1>6, <2>1 DEF Espera, Corre, EnExitBien
  <2>3. Corre(t)' /\ trip'[t].haciendo_io /\ Falta(t)'
    BY <1>2, <1>3, <2>1, <2>2 DEF EnDispositivo, Corre, Falta
  <2>. QED
    BY <1>2, <1>6, <1>7, <2>1, <2>2, <2>3
<1>15. CASE HacerTarea(t)
  <2>. DEFINE io == trip[t].haciendo_io
              ultima == Ultima(t)
              proxima == trip[t].tarea + 1
              a == IF io /\ ultima THEN trip[t].semaforo ELSE trip[t].semaforo + 1
              b == IF io THEN trip[t].tiempo_en_cpu ELSE trip[t].tiempo_en_cpu + 1
              c == IF ultima THEN 0 ELSE trip[t].tiempo_haciendo_tarea + 1
              d == IF ultima THEN proxima ELSE trip[t].tarea
              f == SigueEnIO(t)
              r == IF proxima > Len(TAREAS) THEN "EXIT" ELSE "READY"
  <2>1. /\ Ir(t, "decidir", "pausado") /\ (f <=> io /\ ~ultima)
        /\ trip' = [trip EXCEPT ![t] = [trip[t] EXCEPT !.semaforo = a, !.tiempo_en_cpu = b,
                      !.tiempo_haciendo_tarea = c, !.tarea = d, !.haciendo_io = f]]
        /\ IF io /\ ultima THEN Cambiar(t, t, r) ELSE UNCHANGED cambio
    BY <1>15 DEF HacerTarea, SigueEnIO
  <2>2. pc[t] = "decidir" /\ pc'[t] = "pausado"
    BY <1>5, <2>1
  <2>. HIDE DEF a, b, c, d, f
  <2>3. /\ trip'[t].semaforo = a /\ trip'[t].tarea = d /\ trip'[t].haciendo_io = f
        /\ trip'[t].termino = trip[t].termino
    BY <1>0, <2>1 DEF TTripulante
  <2>4. CASE ~(io /\ ultima)
    <3>1. cambio'[t] = NULL /\ trip'[t].semaforo = 1
      BY <1>2, <1>11, <2>1, <2>2, <2>3, <2>4 DEF a
    <3>2. Corre(t)'
      BY <2>2, <3>1 DEF Corre
    <3>3. CASE e = "EXEC"
      BY <1>7, <1>11, <2>1, <2>2, <2>3, <3>1, <3>2, <3>3
    <3>4. CASE e = "BLOCKED"
      <4>1. io /\ ~ultima
        BY <1>11, <2>2, <2>4, <3>4
      <4>2. trip'[t].haciendo_io /\ trip'[t].tarea = trip[t].tarea
        BY <2>1, <2>3, <4>1 DEF d
      <4>3. Falta(t)'
        BY <1>3, <1>11, <2>2, <4>2 DEF Falta
      <4>. QED
        BY <1>7, <1>11, <2>2, <2>3, <3>1, <3>2, <3>4, <4>2, <4>3
    <3>. QED
      BY <1>11, <2>2, <3>3, <3>4
  <2>5. CASE io /\ ultima
    <3>1. /\ e = "BLOCKED" /\ ~trip'[t].haciendo_io /\ trip'[t].semaforo = 0 /\ trip'[t].tarea = proxima
          /\ ~trip'[t].termino
      BY <1>11, <2>1, <2>2, <2>3, <2>5 DEF a, d
    <3>2. r \in Estados /\ Cambiar(t, t, r)
      BY <1>0, <2>1, <2>5
    <3>3. cambio'[t] # NULL /\ cambio'[t].paso # "agregar" /\ cambio'[t].nuevo = r
      <4>. HIDE DEF r
      <4>. QED
        BY <1>0, <3>2, LlamaDe
    <3>4. CASE proxima > Len(TAREAS)
      <4>1. Acaba(t)'
        BY <1>3, <1>4, <3>1, <3>4 DEF Acaba, Falta
      <4>2. Pide(t, "EXIT")'
        BY <3>3, <3>4 DEF Pide
      <4>. QED
        BY <1>0, <1>2, <1>4, <2>2, <3>1, <4>1, <4>2 DEF TurnoBien, EnBlockedBien
    <3>5. CASE ~(proxima > Len(TAREAS))
      <4>1. Espera(t)'
        BY <1>3, <1>4, <2>2, <3>1, <3>5 DEF Espera, Falta
      <4>2. Pide(t, "READY")'
        BY <3>3, <3>5 DEF Pide
      <4>. QED
        BY <1>0, <1>2, <1>4, <2>2, <3>1, <4>1, <4>2 DEF TurnoBien, EnBlockedBien
    <3>. QED
      BY <3>4, <3>5
  <2>. QED
    BY <2>4, <2>5
<1>16. CASE Moverse(t)
  <2>. DEFINE a == Hacia(trip[t].x, Tarea(t).x)
              b == trip[t].tiempo_en_cpu + 1
              c == trip[t].semaforo + 1
  <2>1. /\ Ir(t, "decidir", "pausado") /\ cambio' = cambio
        /\ trip' = [trip EXCEPT ![t] = [trip[t] EXCEPT !.x = a, !.tiempo_en_cpu = b, !.semaforo = c]]
    BY <1>16 DEF Moverse
  <2>2. pc[t] = "decidir" /\ pc'[t] = "pausado"
    BY <1>5, <2>1
  <2>. HIDE DEF a, b, c
  <2>3. Quedan /\ trip'[t].semaforo = c
    BY <1>0, <2>1 DEF TTripulante
  <2>4. Corre(t)' /\ Falta(t)'
    BY <1>2, <1>3, <1>11, <2>1, <2>2, <2>3 DEF Corre, Falta, c
  <2>. QED
    BY <1>2, <1>7, <1>11, <2>1, <2>2, <2>3, <2>4
<1>17. CASE Terminar(t)
  <2>1. /\ pc[t] = "pausado" /\ pc'[t] = "termino" /\ ~Falta(t) /\ trip' = trip
        /\ Cambiar(t, t, "EXIT")
    BY <1>3, <1>4, <1>5, <1>17 DEF Terminar, SinTareas, Falta
  <2>2. Pide(t, "EXIT")'
    BY <1>0, <2>1, LlamaDe DEF Pide
  <2>3. (e = "EXEC" /\ ~LoPonen(t) /\ ~trip[t].haciendo_io) \/ (e = "EXIT" /\ EnExitBien(t))
    BY <1>6, <2>1 DEF Espera, EnDispositivo
  <2>4. Acaba(t)'
    BY <1>3, <2>1, <2>3 DEF Acaba, Falta, EnExitBien
  <2>. QED
    BY <1>0, <1>2, <1>4, <1>6, <2>1, <2>2, <2>3, <2>4 DEF TurnoBien, EnExecBien, EnExitBien, Pide
<1>18. CASE TerminoListar(t) \/ FaltaAlguno(t) \/ EstanTodos(t) \/ DestruirTodos(t) \/ Destruirse(t)
  <2>1. /\ pc[t] \in {"termino", "revisar", "destruir", "sem_destruir"}
        /\ pc'[t] \in {"revisar", "destruir", "sem_destruir", "destruido"} /\ cambio' = cambio
    BY <1>5, <1>18 DEF TerminoListar, FaltaAlguno, EstanTodos, DestruirTodos, Destruirse, Avanzar
  <2>2. Quedan
    <3>1. CASE DestruirTodos(t)
      <4>. DEFINE A == Avisados(t)
      <4>1. trip' = [u \in Tripulantes |->
                       IF u \in A THEN [trip[u] EXCEPT !.sem_destruir = @ + 1] ELSE trip[u]]
        BY <3>1 DEF DestruirTodos
      <4>. HIDE DEF A
      <4>. QED
        BY <1>0, <4>1 DEF TTripulante
    <3>2. CASE ~DestruirTodos(t)
      BY <1>18, <3>2 DEF TerminoListar, FaltaAlguno, EstanTodos, Destruirse, Avanzar
    <3>. QED
      BY <3>1, <3>2
  <2>3. e = "EXIT" /\ EnExitBien(t)
    BY <1>6, <2>1 DEF Espera, Corre, EnDispositivo
  <2>4. EnExitBien(t)'
    BY <1>2, <1>3, <2>1, <2>2, <2>3 DEF EnExitBien, Acaba, Falta
  <2>. QED
    BY <1>2, <1>7, <2>1, <2>3, <2>4
<1>. QED
  BY <1>8, <1>9, <1>10, <1>12, <1>13, <1>14, <1>15, <1>16, <1>17, <1>18 DEF Tripulante

\* In calm a call is a member's on itself, the planner's or the console's; and
\* until it has the member out of its queue, nobody else is calling on it.
LEMMA QuienLlama ==
  ASSUME Tipos, LlamadasBien, SinSuaves, Calma, NEW k \in Hilos, cambio[k] # NULL
  PROVE  /\ cambio[k].t \in Tripulantes /\ cambio[k].paso \in DeEstado /\ cambio[k].nuevo \in Estados
         /\ \/ k \in Tripulantes /\ cambio[k].t = k /\ cambio[k].nuevo \in {"READY", "BLOCKED", "EXIT"}
            \/ k = "planificador" /\ cambio[k].nuevo = "EXEC"
            \/ k = "consola" /\ cambio[k].nuevo \in {"NEW", "READY"}
<1>1. k # "sabotaje"
  BY DEF SinSuaves, Calma
<1>2. cambio[k].t \in Tripulantes /\ cambio[k].nuevo \in Estados
  BY ElCambio DEF Tipos
<1>. QED
  BY <1>1, <1>2 DEF LlamadasBien, LlamadaBien, Ordenes

LEMMA UnicaLlamada ==
  ASSUME Tipos, MovidosBien, SinSuaves, Calma, Turnos, NEW h \in Hilos, NEW k \in Hilos,
         cambio[h] # NULL, cambio[h].paso # "agregar", cambio[k] # NULL, cambio[k].paso # "agregar",
         cambio[h].t = cambio[k].t
  PROVE  h = k
<1>. DEFINE t == cambio[h].t
<1>1. t \in Tripulantes /\ LlamadasBien
  BY QuienLlama DEF MovidosBien
<1>2. ASSUME t \in Hilos, cambio[t] # NULL, cambio[t].paso # "agregar"
      PROVE  trip[t].estado \notin {"NEW", "READY"}
  BY <1>1, <1>2 DEF Turnos, TurnoBien, Llega
<1>3. ASSUME NEW j \in Hilos, cambio[j] # NULL, cambio[j].paso # "agregar", cambio[j].t = t
      PROVE  \/ j = t
             \/ j = "planificador" /\ trip[t].estado = "READY"
             \/ j = "consola" /\ trip[t].estado = "NEW"
  BY <1>1, <1>3, QuienLlama DEF Turnos, Llama
<1>. QED
  BY <1>2, <1>3

\* The turns after a step of cambiar_estado.
LEMMA TurnoCambiar ==
  ASSUME Tipos, MovidosBien, ColasBien, SinSuaves, Calma, Turnos, NEW h \in Hilos, CambiarEstado(h),
         NEW u \in Tripulantes
  PROVE  TurnoBien(u)'
<1>. DEFINE t == cambio[h].t
            p == "planificador"
<1>0. /\ cambio[h] # NULL /\ t \in Tripulantes /\ cambio[h].paso \in DeEstado /\ cambio[h].nuevo \in Estados
      /\ \/ h \in Tripulantes /\ t = h /\ cambio[h].nuevo \in {"READY", "BLOCKED", "EXIT"}
         \/ h = p /\ cambio[h].nuevo = "EXEC"
         \/ h = "consola" /\ cambio[h].nuevo \in {"NEW", "READY"}
  BY CambiarPasa, QuienLlama DEF MovidosBien
<1>1. /\ p \in Hilos /\ Tripulantes \subseteq Hilos /\ p \notin Tripulantes /\ "consola" \notin Tripulantes
      /\ NULL \notin Estados /\ {"NEW", "READY", "EXEC", "BLOCKED", "EXIT"} = Estados
  BY NombresAssumption DEF Hilos, Estados
<1>2. /\ TAREAS' = TAREAS /\ pc' = pc /\ \A k \in Hilos \ {h} : cambio'[k] = cambio[k]
      /\ trip'[u].haciendo_io = trip[u].haciendo_io
      /\ Iguales(u) \/ (CambiarAgregar(h) /\ u = t)
      /\ CambiarAgregar(h) =>
           /\ trip'[t].tarea = trip[t].tarea
           /\ trip'[t].termino = (trip[t].termino \/ cambio[h].nuevo = "EXIT")
           /\ trip'[t].semaforo = IF cambio[h].nuevo \in {"EXEC", "EXIT"}
                                  THEN trip[t].semaforo + 1 ELSE trip[t].semaforo
  BY PropiosDe, CambiarPasa
<1>3. TurnoBien(u) /\ TurnoBien(t) /\ Llama(p, "READY") /\ Llama("consola", "NEW") /\ trip[u].estado \in Estados \cup {NULL}
  BY <1>0 DEF Turnos, Tipos, DeTrip, TTripulante
<1>4. ~SuaveSacar(h) /\ ~SuaveAgregar(h)
  BY <1>0 DEF SuaveSacar, SuaveAgregar, EnCambio, DeEstado
\* The planner's hand over the others does not change, nor what they do.
<1>5. ASSUME cambio'[h] = NULL \/ cambio'[h].t = t PROVE u # t => (LoPonen(u)' <=> LoPonen(u))
  BY <1>1, <1>2, <1>5 DEF LoPonen, EnCambio
<1>6. u # t => cambio'[u] = cambio[u]
  BY <1>0, <1>1, <1>2
<1>. HIDE DEF t
<1>7. CASE CambiarNada(h)
  <2>1. cambio'[h] = NULL /\ trip' = trip /\ trip[t].estado = "EXIT" /\ cambio[h].paso = "tomar"
    BY <1>7 DEF CambiarNada, EnCambio, Tipos, DeCambio, t
  <2>2. h = t
    BY <1>0, <1>3, <2>1 DEF Llama, t
  <2>3. LoPonen(u)' <=> LoPonen(u)
    BY <1>1, <1>2, <2>2, <1>0 DEF LoPonen, EnCambio
  <2>4. CASE u # t
    BY <1>2, <1>3, <1>6, <2>1, <2>3, <2>4, TurnoIgual DEF Iguales
  <2>5. CASE u = t
    <3>1. EnExitBien(u)'
      BY <1>1, <1>2, <1>3, <2>1, <2>2, <2>5 DEF TurnoBien, EnExitBien, Acaba, Falta
    <3>. QED
      BY <1>1, <1>3, <2>1, <2>5, <3>1 DEF TurnoBien
  <2>. QED
    BY <2>4, <2>5
<1>8. CASE CambiarTomar(h)
  <2>1. /\ cambio[h].paso = "tomar" /\ cambio'[h] # NULL /\ cambio'[h].paso = "sacar" /\ cambio'[h].t = t
        /\ trip[t].estado # "EXIT" /\ trip'[u].estado = trip[u].estado /\ cambio'[h].nuevo = cambio[h].nuevo
    BY <1>8, TomarDe, CambiarPasa DEF t
  <2>2. Iguales(u) /\ (LoPonen(u)' <=> LoPonen(u))
    <3>1. ~CambiarAgregar(h)
      BY <1>8 DEF CambiarTomar, CambiarAgregar, EnCambio
    <3>. QED
      BY <1>1, <1>2, <2>1, <3>1 DEF LoPonen, EnCambio
  <2>3. CASE u # h
    BY <1>1, <1>2, <1>3, <2>1, <2>2, <2>3, TurnoIgual
  <2>4. CASE u = h
    <3>1. /\ cambio[u] # NULL /\ cambio[u].paso # "agregar" /\ cambio'[u] # NULL /\ cambio'[u].paso # "agregar"
          /\ cambio'[u].nuevo = cambio[u].nuevo
      BY <1>0, <2>1, <2>4
    <3>2. (Falta(u)' <=> Falta(u)) /\ ~Llega(u) /\ \A e : Pide(u, e)' <=> Pide(u, e)
      BY <1>2, <2>2, <3>1 DEF Falta, Llega, Pide, Iguales
    <3>3. (Espera(u)' <=> Espera(u)) /\ ~Corre(u) /\ (EnDispositivo(u)' <=> EnDispositivo(u)) /\ (Acaba(u)' <=> Acaba(u))
      BY <1>2, <2>2, <3>1, <3>2 DEF Espera, Corre, EnDispositivo, Acaba, Iguales
    <3>4. ~EnNadaBien(u) /\ (EnExecBien(u) => EnExecBien(u)') /\ (EnBlockedBien(u) => EnBlockedBien(u)')
          /\ (EnExitBien(u) => EnExitBien(u)')
      BY <1>2, <2>2, <3>1, <3>2, <3>3 DEF EnNadaBien, EnExecBien, EnBlockedBien, EnExitBien
    <3>. QED
      BY <1>3, <2>1, <2>2, <3>2, <3>4 DEF TurnoBien, Iguales
  <2>. QED
    BY <2>3, <2>4
<1>9. CASE CambiarSacar(h)
  <2>1. /\ cambio[h].paso = "sacar" /\ cambio'[h] # NULL /\ cambio'[h].paso = "agregar" /\ cambio'[h].t = t
        /\ cambio'[h].nuevo = cambio[h].nuevo
        /\ trip'[u].estado = IF u = t THEN cambio[h].nuevo ELSE trip[u].estado
    BY <1>9, SacandoDe DEF t
  <2>2. Iguales(u)
    BY <1>2, <1>9 DEF CambiarSacar, CambiarAgregar, EnCambio
  <2>3. CASE u # t
    BY <1>2, <1>3, <1>5, <1>6, <2>1, <2>2, <2>3, TurnoIgual
  <2>4. CASE u = t
    <3>1. (Falta(u)' <=> Falta(u)) /\ (Espera(u)' <=> Espera(u)) /\ (EnDispositivo(u)' <=> EnDispositivo(u))
          /\ (Acaba(u)' <=> Acaba(u))
      BY <1>2, <2>2 DEF Falta, Espera, EnDispositivo, Acaba, Iguales
    <3>2. CASE h = p
      <4>1. trip[u].estado = "READY" /\ Espera(u) /\ Llega(u) /\ ~trip[u].termino /\ cambio[h].nuevo = "EXEC"
        BY <1>0, <1>1, <1>3, <2>1, <2>4, <3>2 DEF Llama, TurnoBien, t
      <4>2. cambio[u] = NULL
        <5>. SUFFICES ASSUME cambio[u] # NULL PROVE FALSE
          OBVIOUS
        <5>1. Mueve(u) /\ Mueve(h) /\ cambio[u].t = t /\ u \in Hilos
          BY <1>0, <1>1, <2>1, <2>4, <4>1, QuienLlama DEF Mueve, EnCambio, Llega, MovidosBien
        <5>. QED
          BY <1>1, <3>2, <5>1, UnoSolo DEF MovidosBien, t
      <4>3. LoPonen(u)' /\ cambio'[u] = NULL
        BY <1>1, <1>2, <2>1, <2>4, <3>2, <4>2 DEF LoPonen, EnCambio
      <4>. QED
        BY <1>1, <2>1, <2>2, <2>4, <3>1, <4>1, <4>3 DEF TurnoBien, EnExecBien, Iguales
    <3>3. CASE h = "consola"
      <4>1. trip[u].estado = "NEW" /\ Espera(u) /\ Llega(u) /\ ~trip[u].termino /\ cambio[h].nuevo \in {"NEW", "READY"}
        BY <1>0, <1>1, <1>3, <2>1, <2>4, <3>3 DEF Llama, TurnoBien, t
      <4>2. Llega(u)'
        BY <1>1, <1>2, <3>3, <4>1 DEF Llega
      <4>. QED
        BY <1>1, <2>1, <2>2, <2>4, <3>1, <4>1, <4>2 DEF TurnoBien, Iguales
    <3>4. CASE h = u
      <4>1. /\ cambio[u] # NULL /\ cambio[u].paso # "agregar" /\ cambio[u].nuevo \in {"READY", "BLOCKED", "EXIT"}
            /\ cambio'[u].nuevo = cambio[u].nuevo /\ trip'[u].estado = cambio[u].nuevo
        BY <1>0, <1>1, <2>1, <2>4, <3>4
      <4>2. ~Llega(u) /\ ~Corre(u) /\ \A e : Pide(u, e) => e = cambio[u].nuevo
        BY <4>1 DEF Llega, Corre, Pide
      <4>3. Llega(u)'
        BY <2>1, <3>4 DEF Llega
      <4>4. trip[u].estado \notin {"NEW", "READY"} /\ trip[u].estado # NULL
        BY <1>3, <4>1, <4>2 DEF TurnoBien, EnNadaBien
      <4>5. CASE trip[u].estado = "EXIT"
        <5>1. EnExitBien(u) /\ cambio[u].nuevo = "EXIT"
          BY <1>3, <4>1, <4>5 DEF TurnoBien, EnExitBien
        <5>2. EnExitBien(u)'
          BY <1>2, <3>1, <4>1, <5>1 DEF EnExitBien
        <5>. QED
          BY <1>1, <4>1, <5>1, <5>2 DEF TurnoBien
      <4>6. CASE trip[u].estado \in {"EXEC", "BLOCKED"}
        <5>1. ~trip[u].termino
          BY <1>3, <4>6 DEF TurnoBien
        <5>2. \/ Espera(u) /\ Pide(u, "READY")
              \/ EnDispositivo(u) /\ Pide(u, "BLOCKED")
              \/ pc[u] \in {"pausado", "termino"} /\ Acaba(u) /\ Pide(u, "EXIT")
          BY <1>3, <4>1, <4>2, <4>6 DEF TurnoBien, EnExecBien, EnBlockedBien
        <5>3. \/ Espera(u)' /\ cambio[u].nuevo = "READY"
              \/ EnDispositivo(u)' /\ cambio[u].nuevo = "BLOCKED"
              \/ EnExitBien(u)' /\ cambio[u].nuevo = "EXIT"
          BY <1>2, <3>1, <4>1, <4>2, <5>2 DEF EnExitBien
        <5>. QED
          BY <1>1, <2>2, <4>1, <4>3, <5>1, <5>3 DEF TurnoBien, EnBlockedBien, Iguales
      <4>. QED
        BY <1>1, <1>3, <4>4, <4>5, <4>6
    <3>. QED
      BY <1>0, <2>4, <3>2, <3>3, <3>4
  <2>. QED
    BY <2>3, <2>4
<1>10. CASE CambiarAgregar(h)
  <2>1. /\ cambio[h].paso = "agregar" /\ cambio'[h] = NULL /\ trip'[u].estado = trip[u].estado
        /\ trip[t].estado = cambio[h].nuevo
    BY <1>0, <1>10, AgregandoDe DEF ColasBien, EnCambio, t
  <2>2. CASE u # t
    BY <1>2, <1>3, <1>5, <1>6, <2>1, <2>2, TurnoIgual
  <2>3. CASE u = t
    <3>1. (Falta(u)' <=> Falta(u)) /\ (Acaba(u)' <=> Acaba(u))
      BY <1>2, <1>10, <2>3 DEF Falta, Acaba
    <3>2. CASE h = p
      <4>1. LoPonen(u) /\ ~LoPonen(u)' /\ trip[u].estado = "EXEC" /\ ~trip[u].termino
        BY <1>0, <1>1, <1>3, <2>1, <2>3, <3>2 DEF LoPonen, EnCambio, TurnoBien, t
      <4>2. Espera(u) /\ cambio[u] = NULL
        BY <1>3, <4>1, <2>3 DEF TurnoBien, EnExecBien
      <4>3. cambio'[u] = NULL /\ trip'[u].semaforo = 1 /\ ~trip'[u].termino /\ ~trip'[u].haciendo_io
        <5>1. cambio'[u] = cambio[u]
          BY <1>1, <1>2, <3>2
        <5>2. cambio[h].nuevo = "EXEC" /\ "EXEC" \in {"EXEC", "EXIT"} /\ "EXEC" # "EXIT"
          BY <1>1, <2>1, <2>3, <4>1
        <5>3. trip'[u].semaforo = trip[u].semaforo + 1
          BY <1>2, <1>10, <2>3, <5>2
        <5>4. ~trip'[u].termino
          BY <1>2, <1>10, <2>3, <4>1, <5>2
        <5>. QED
          BY <1>2, <4>1, <4>2, <5>1, <5>3, <5>4 DEF Espera
      <4>4. Corre(u)'
        BY <1>2, <4>2, <4>3 DEF Corre, Espera
      <4>. QED
        BY <1>1, <2>1, <4>1, <4>3, <4>4 DEF TurnoBien, EnExecBien
    <3>3. CASE h = "consola"
      <4>1. /\ trip[u].estado \in {"NEW", "READY"} /\ ~trip'[u].termino /\ trip'[u].semaforo = trip[u].semaforo
            /\ Espera(u) /\ Llega(u)
        BY <1>0, <1>1, <1>2, <1>3, <1>10, <2>1, <2>3, <3>3 DEF TurnoBien
      <4>2. Espera(u)' /\ Llega(u)'
        BY <1>1, <1>2, <3>1, <3>3, <4>1 DEF Espera, Llega
      <4>. QED
        BY <1>1, <2>1, <4>1, <4>2 DEF TurnoBien
    <3>4. CASE h = u
      <4>1. /\ cambio[u] # NULL /\ cambio[u].paso = "agregar" /\ cambio'[u] = NULL
            /\ trip[u].estado = cambio[u].nuevo /\ trip[u].estado \in {"READY", "BLOCKED", "EXIT"}
        BY <1>0, <1>1, <2>1, <2>3, <3>4
      <4>2. ~Corre(u) /\ (\A e : ~Pide(u, e)) /\ Llega(u)'
        BY <4>1 DEF Corre, Pide, Llega
      <4>3. CASE trip[u].estado = "EXIT"
        <5>1. EnExitBien(u)'
          BY <1>2, <1>3, <3>1, <4>1, <4>3 DEF TurnoBien, EnExitBien
        <5>. QED
          BY <1>1, <2>1, <4>3, <5>1 DEF TurnoBien
      <4>4. CASE trip[u].estado \in {"READY", "BLOCKED"}
        <5>1. ~trip'[u].termino /\ trip'[u].semaforo = trip[u].semaforo
          BY <1>0, <1>2, <1>3, <1>10, <2>3, <3>4, <4>1, <4>4 DEF TurnoBien
        <5>2. (Espera(u)' <=> Espera(u)) /\ (EnDispositivo(u)' <=> EnDispositivo(u))
          BY <1>2, <3>1, <5>1 DEF Espera, EnDispositivo
        <5>. QED
          BY <1>1, <1>3, <2>1, <4>2, <4>4, <5>1, <5>2 DEF TurnoBien, EnBlockedBien
      <4>. QED
        BY <4>1, <4>3, <4>4
    <3>. QED
      BY <1>0, <2>3, <3>2, <3>3, <3>4
  <2>. QED
    BY <2>2, <2>3
<1>. QED
  BY <1>4, <1>7, <1>8, <1>9, <1>10 DEF CambiarEstado

\* The console gets to expel somebody, or to queue a member, only from there on.
LEMMA ConsolaVa ==
  ASSUME Tipos, NEW h \in Hilos, DelHilo(h), Huella(h), ~IniciarTripulante, NingunoExpulsado',
         pc["consola"] \notin {"expulsar", "expulsado"}
  PROVE  /\ pc'["consola"] \notin {"expulsar", "expulsado"}
         /\ pc'["consola"] = "encolar" => h # "consola" /\ pc["consola"] = "encolar"
<1>. DEFINE c == "consola"
<1>1. c \in Hilos /\ c \notin Tripulantes
  BY NombresAssumption DEF Hilos
<1>2. CASE h # c
  BY <1>1, <1>2 DEF Huella
<1>3. CASE h = c
  <2>1. ~(\E t \in Tripulantes : ExpulsarTripulante(t)) /\ ~ExpulsarMarcar /\ ~ExpulsarDespertar /\ ~CambiarEstado(c)
    BY <1>3, UsosDe, CambiarPasa DEF ExpulsarMarcar, ExpulsarDespertar, Ir, En, Huella
  <2>2. ASSUME NEW a, NEW b, Ir(c, a, b) PROVE pc'[c] = b
    BY <1>1, <2>2 DEF Ir, Tipos, DePc
  <2>3. CASE Consola
    BY <2>1, <2>2, <2>3 DEF Consola, PedirIniciar, PedirPausar, IniciarEncolar, IniciarSiguiente, IniciarPatota, Avanzar
  <2>4. CASE Orden(c)
    BY <2>2, <2>4 DEF Orden, IniciarNada, IniciarContar, IniciarNuevo, IniciarCaida, IniciarReanudar, PausarNada,
       PausarTomar, PausarEsperar, PausarTodos, PausarUno, PausarFin, Avanzar, EsperarYSeguir, TrasPausar
  <2>. QED
    BY <1>1, <1>3, <2>1, <2>3, <2>4 DEF DelHilo
<1>. QED
  BY <1>2, <1>3

\* The turns after a step out of cambiar_estado.
LEMMA TurnosHuella ==
  ASSUME Tipos, ColasBien, SinSuaves, Turnos, Calma, Calma', NEW h \in Hilos, DelHilo(h), Huella(h),
         ~IniciarTripulante
  PROVE  Turnos'
<1>. DEFINE p == "planificador"
            k == "consola"
<1>0. /\ p \in Hilos /\ k \in Hilos /\ Tripulantes \subseteq Hilos /\ p \notin Tripulantes /\ k \notin Tripulantes
      /\ Tripulantes \cap Ordenes = {} /\ "sabotaje" \notin Tripulantes /\ {"NEW", "READY"} \subseteq Estados
  BY NombresAssumption DEF Hilos, Ordenes, Estados
<1>1. /\ cambio[h] = NULL /\ ~CambiarEstado(h) /\ h # "sabotaje"
      /\ \A j \in Hilos \ {h} : cambio'[j] = cambio[j] /\ pc'[j] = pc[j]
      /\ \A u \in Tripulantes : trip'[u].estado = trip[u].estado
      /\ \A u \in Tripulantes \ {h} : trip'[u].haciendo_io = trip[u].haciendo_io
      /\ cambio'[h] # NULL => Llamada(h)
  BY CambiarPasa, NoSabotea DEF Huella, Calma
<1>2. /\ \A u \in Tripulantes : TurnoBien(u)
      /\ Llama(p, "READY") /\ Llama(k, "NEW") /\ ConsolaBien /\ EnReadyBien
  BY DEF Turnos
<1>3. TAREAS' = TAREAS /\ \A u \in Tripulantes \ {h} : Iguales(u)
  <2>1. ~ExpulsarMarcar /\ ~ExpulsarDespertar
    BY <1>2 DEF ConsolaBien, ExpulsarMarcar, ExpulsarDespertar, Ir, En
  <2>. QED
    BY <1>1, <2>1, AjenosDe
<1>4. \A j \in Hilos : cambio[j] # NULL => cambio[j].t \in Tripulantes
  BY ElCambio DEF Tipos
<1>5. ASSUME NEW e \in {"NEW", "READY"} PROVE ColaBien(e) /\ colas[e] \in Seq(Tripulantes)
  BY <1>0 DEF ColasBien, EnRegla, Calma, Tipos, DeColas
<1>6. ASSUME NEW u \in Tripulantes PROVE TurnoBien(u)'
  <2>1. CASE u = h
    BY <1>0, <1>1, <1>2, <2>1, TurnoPropio DEF DelHilo
  <2>2. CASE u # h
    <3>1. LoPonen(u)' <=> LoPonen(u)
      BY <1>0, <1>1, HuellaNoMueve DEF LoPonen, EnCambio, Mueve
    <3>2. pc'[u] = pc[u] /\ cambio'[u] = cambio[u]
      BY <1>0, <1>1, <2>2
    <3>. QED
      BY <1>1, <1>2, <1>3, <2>2, <3>1, <3>2, TurnoIgual
  <2>. QED
    BY <2>1, <2>2
<1>7. Llama(p, "READY")'
  <2>1. CASE h # p
    BY <1>0, <1>1, <1>2, <1>4, <2>1 DEF Llama
  <2>2. CASE h = p
    <3>. SUFFICES ASSUME cambio'[p] # NULL PROVE trip'[cambio'[p].t].estado = "READY"
      BY DEF Llama
    <3>. DEFINE t == cambio'[p].t
    <3>1. Contains(colas["READY"], t)
      BY <1>0, <1>1, <2>2 DEF Llamada, Ordenes
    <3>. HIDE DEF t
    <3>2. t \in Tripulantes
      BY <1>5, <3>1, ElementOfSeq, LenProperties DEF Contains
    <3>3. trip[t].estado = "READY"
      BY <1>5, <3>1, <3>2 DEF ColaBien
    <3>. QED
      BY <1>1, <3>2, <3>3 DEF t
  <2>. QED
    BY <2>1, <2>2
<1>8. Llama(k, "NEW")'
  <2>1. CASE h # k
    BY <1>0, <1>1, <1>2, <1>4, <2>1 DEF Llama
  <2>2. CASE h = k
    <3>. SUFFICES ASSUME cambio'[k] # NULL PROVE trip'[cambio'[k].t].estado = "NEW"
      BY DEF Llama
    <3>. DEFINE t == cambio'[k].t
    <3>1. \/ IniciarNuevo(k) /\ t = Head(colas["NEW"])
          \/ IniciarEncolar /\ pc[k] = "encolar" /\ t = Head(lista[k])
      BY <1>0, <1>1, <2>2 DEF Llamada
    <3>. HIDE DEF t
    <3>2. CASE IniciarNuevo(k) /\ t = Head(colas["NEW"])
      <4>1. colas["NEW"] # <<>>
        BY <3>2 DEF IniciarNuevo
      <4>2. t \in Tripulantes /\ Contains(colas["NEW"], t)
        BY <1>5, <3>2, <4>1, CabezaDe, HeadTailProperties
      <4>3. trip[t].estado = "NEW"
        BY <1>5, <4>2 DEF ColaBien
      <4>. QED
        BY <1>1, <4>2, <4>3 DEF t
    <3>3. CASE pc[k] = "encolar" /\ t = Head(lista[k])
      <4>1. lista[k] # <<>> /\ lista[k] \in Seq(Tripulantes)
        BY <1>0, <3>3 DEF Tipos, Puestos, ConLista, DeLista
      <4>2. t \in Tripulantes /\ trip[t].estado = "NEW"
        BY <1>2, <3>3, <4>1, HeadTailProperties DEF ConsolaBien
      <4>. QED
        BY <1>1, <4>2 DEF t
    <3>. QED
      BY <3>1, <3>2, <3>3
  <2>. QED
    BY <2>1, <2>2
<1>9. ConsolaBien'
  <2>1. /\ pc'[k] \notin {"expulsar", "expulsado"}
        /\ pc'[k] = "encolar" => h # k /\ pc[k] = "encolar"
    BY <1>2, ConsolaVa DEF ConsolaBien, Calma
  <2>2. ASSUME pc'[k] = "encolar" PROVE cambio'[k] = NULL /\ trip'[Head(lista'[k])].estado = "NEW"
    <3>1. h # k /\ pc[k] = "encolar" /\ cambio[k] = NULL /\ trip[Head(lista[k])].estado = "NEW"
      BY <1>2, <2>1, <2>2 DEF ConsolaBien
    <3>2. Head(lista[k]) \in Tripulantes
      BY <1>0, <3>1, HeadTailProperties DEF Tipos, Puestos, ConLista, DeLista
    <3>3. lista'[k] = lista[k] /\ cambio'[k] = cambio[k]
      BY <1>0, <1>1, <3>1, ListasDe
    <3>. QED
      BY <1>1, <3>1, <3>2, <3>3
  <2>. QED
    BY <2>1, <2>2 DEF ConsolaBien
<1>10. EnReadyBien'
  <2>. SUFFICES ASSUME NEW t \in Tripulantes, trip'[t].estado = "READY", ~Agregando(t)'
                PROVE  Contains(colas'["READY"], t)
    BY DEF EnReadyBien
  <2>1. ~Agregando(t)
    BY <1>1 DEF Agregando, EnCambio
  <2>2. Contains(colas["READY"], t)
    BY <1>1, <1>2, <2>1 DEF EnReadyBien
  <2>3. colas'["READY"] = colas["READY"]
    BY <1>0 DEF Huella, DestruirTodos, Tipos, DeColas
  <2>. QED
    BY <2>2, <2>3
<1>. QED
  BY <1>6, <1>7, <1>8, <1>9, <1>10 DEF Turnos

\* The start of a member.
LEMMA TurnosIniciar ==
  ASSUME Tipos, VivosBien, Turnos, IniciarTripulante
  PROVE  Turnos'
<1>. DEFINE p == "planificador"
            k == "consola"
            t == Head(lista["consola"])
<1>0. /\ p \in Hilos /\ k \in Hilos /\ Tripulantes \subseteq Hilos /\ p \notin Tripulantes /\ k \notin Tripulantes
      /\ NULL \notin Estados /\ {"NEW", "READY", "EXIT"} \subseteq Estados /\ p # k
  BY NombresAssumption DEF Hilos, Estados
<1>1. /\ \A u \in Tripulantes : TurnoBien(u)
      /\ Llama(p, "READY") /\ Llama(k, "NEW") /\ ConsolaBien /\ EnReadyBien
  BY DEF Turnos
<1>2. /\ t \in Tripulantes /\ lista[k] \in Seq(Tripulantes) /\ lista[k] # <<>>
      /\ pc[k] = "iniciar_tripulante" /\ pc'[k] = "encolar" /\ pc'[t] = "pausado" /\ cambio[k] = NULL
      /\ \A j \in Hilos \ {k, t} : pc'[j] = pc[j]
      /\ colas' = colas /\ cambio' = cambio /\ lista' = lista
      /\ \A u \in Tripulantes : /\ trip'[u].haciendo_io = trip[u].haciendo_io
                                /\ trip'[u].estado = IF u = t THEN "NEW" ELSE trip[u].estado
  BY IniciarDe
<1>3. TAREAS' = TAREAS /\ \A u \in Tripulantes : Iguales(u)
  <2>1. DelHilo(k) /\ ~CambiarEstado(k) /\ k # "sabotaje"
    BY <1>0, <1>1, <1>2, CambiarPasa DEF DelHilo, Consola
  <2>2. ~ExpulsarMarcar /\ ~ExpulsarDespertar
    BY <1>2 DEF ConsolaBien, ExpulsarMarcar, ExpulsarDespertar, Ir, En
  <2>. QED
    BY <1>0, <2>1, <2>2, AjenosDe
<1>4. trip[t].estado = NULL
  BY <1>2, CabezaDe DEF VivosBien, NuevosBien, Vivo
<1>. HIDE DEF t
<1>5. \A j \in Hilos : cambio[j] # NULL => cambio[j].t \in Tripulantes
  BY ElCambio DEF Tipos
<1>6. ASSUME NEW u \in Tripulantes PROVE TurnoBien(u)'
  <2>1. CASE u = t
    <3>1. EnNadaBien(u) /\ ~trip[u].termino
      BY <1>0, <1>1, <1>2, <1>4, <2>1 DEF TurnoBien
    <3>2. Falta(u)' <=> Falta(u)
      BY <1>2, <1>3 DEF Falta, Iguales
    <3>3. Espera(u)' /\ Llega(u)' /\ ~trip'[u].termino
      BY <1>2, <1>3, <2>1, <3>1, <3>2 DEF EnNadaBien, Espera, Llega, Iguales
    <3>4. trip'[u].estado = "NEW"
      BY <1>2, <2>1
    <3>. QED
      BY <1>0, <3>3, <3>4 DEF TurnoBien
  <2>2. CASE u # t
    <3>1. LoPonen(u)' <=> LoPonen(u)
      BY <1>2 DEF LoPonen, EnCambio
    <3>2. pc'[u] = pc[u] /\ cambio'[u] = cambio[u] /\ trip'[u].estado = trip[u].estado
      BY <1>0, <1>2, <2>2
    <3>. QED
      BY <1>1, <1>2, <1>3, <3>1, <3>2, TurnoIgual
  <2>. QED
    BY <2>1, <2>2
<1>7. Llama(p, "READY")'
  BY <1>0, <1>1, <1>2, <1>4, <1>5 DEF Llama
<1>8. Llama(k, "NEW")'
  BY <1>2 DEF Llama
<1>9. ConsolaBien'
  BY <1>2 DEF ConsolaBien, t
<1>10. EnReadyBien'
  <2>. SUFFICES ASSUME NEW u \in Tripulantes, trip'[u].estado = "READY", ~Agregando(u)'
                PROVE  Contains(colas'["READY"], u)
    BY DEF EnReadyBien
  <2>1. ~Agregando(u)
    BY <1>2 DEF Agregando, EnCambio
  <2>2. trip[u].estado = "READY"
    BY <1>2
  <2>. QED
    BY <1>1, <1>2, <2>1, <2>2 DEF EnReadyBien
<1>. QED
  BY <1>6, <1>7, <1>8, <1>9, <1>10 DEF Turnos

\* A step of cambiar_estado.
LEMMA TurnosCambiar ==
  ASSUME Tipos, MovidosBien, ColasBien, SinSuaves, Turnos, Calma, NEW h \in Hilos, CambiarEstado(h)
  PROVE  Turnos'
<1>. DEFINE p == "planificador"
            k == "consola"
            c == cambio[h]
            t == cambio[h].t
<1>0. /\ p \in Hilos /\ k \in Hilos /\ Tripulantes \subseteq Hilos /\ p \notin Tripulantes /\ k \notin Tripulantes
      /\ {"NEW", "READY"} \subseteq Estados /\ "READY" \in Estados
  BY NombresAssumption DEF Hilos, Estados
<1>1. /\ c # NULL /\ t \in Tripulantes /\ c.paso \in DeEstado
      /\ \/ h \in Tripulantes /\ t = h
         \/ h = p
         \/ h = k
  BY CambiarPasa, QuienLlama DEF MovidosBien
<1>2. /\ \A u \in Tripulantes : TurnoBien(u)
      /\ Llama(p, "READY") /\ Llama(k, "NEW") /\ ConsolaBien /\ EnReadyBien
  BY DEF Turnos
<1>3. /\ pc' = pc /\ \A j \in Hilos \ {h} : cambio'[j] = cambio[j]
      /\ lista' = lista
      /\ cambio'[h] = NULL \/ (cambio'[h] # NULL /\ cambio'[h].t = t)
  BY CambiarPasa, ColasPasa
<1>4. \A j \in Hilos : cambio[j] # NULL => cambio[j].t \in Tripulantes
  BY ElCambio DEF Tipos
<1>5. ~SuaveSacar(h) /\ ~SuaveAgregar(h)
  BY <1>1 DEF SuaveSacar, SuaveAgregar, EnCambio, DeEstado
\* Only who is taken out of its queue changes its state, and it is on its way.
<1>6. ASSUME NEW u \in Tripulantes
      PROVE  \/ trip'[u].estado = trip[u].estado
             \/ u = t /\ c.paso = "sacar" /\ cambio'[h] # NULL /\ cambio'[h].paso = "agregar"
  BY EstadosPasa, SacandoDe
<1>7. cambio'[h] # NULL /\ cambio'[h].paso # "agregar" => c.paso = "tomar" /\ ~CambiarSacar(h)
  BY <1>5, TomarDe, SacandoDe, AgregandoDe DEF CambiarEstado, CambiarNada, EnCambio
<1>8. ASSUME NEW j \in {p, k}, NEW e, Llama(j, e) PROVE Llama(j, e)'
  <2>. SUFFICES ASSUME cambio'[j] # NULL, cambio'[j].paso # "agregar" PROVE trip'[cambio'[j].t].estado = e
    BY DEF Llama
  <2>1. CASE j = h
    <3>1. c.paso = "tomar" /\ cambio'[h].t = t
      BY <1>3, <1>7, <2>1
    <3>. QED
      BY <1>1, <1>6, <1>8, <2>1, <3>1 DEF Llama
  <2>2. CASE j # h
    <3>1. cambio'[j] = cambio[j] /\ cambio[j].t \in Tripulantes /\ trip[cambio[j].t].estado = e
      BY <1>0, <1>3, <1>4, <1>8, <2>2 DEF Llama
    <3>2. ~(cambio[j].t = t /\ c.paso = "sacar")
      BY <1>0, <1>1, <2>2, <3>1, UnicaLlamada
    <3>. QED
      BY <1>6, <3>1, <3>2
  <2>. QED
    BY <2>1, <2>2
<1>9. ConsolaBien'
  <2>1. pc'[k] \notin {"expulsar", "expulsado"}
    BY <1>2, <1>3 DEF ConsolaBien
  <2>2. ASSUME pc'[k] = "encolar" PROVE cambio'[k] = NULL /\ trip'[Head(lista'[k])].estado = "NEW"
    <3>. DEFINE x == Head(lista[k])
    <3>1. pc[k] = "encolar" /\ cambio[k] = NULL /\ trip[x].estado = "NEW"
      BY <1>2, <1>3, <2>2 DEF ConsolaBien
    <3>2. x \in Tripulantes
      BY <1>0, <3>1, HeadTailProperties DEF Tipos, Puestos, ConLista, DeLista
    <3>3. h # k /\ cambio'[k] = NULL
      BY <1>0, <1>1, <1>3, <3>1
    <3>. HIDE DEF x, t
    <3>4. ~(x = t /\ c.paso = "sacar")
      <4>. SUFFICES ASSUME x = t, c.paso = "sacar" PROVE FALSE
        OBVIOUS
      <4>1. h # p
        BY <1>1, <1>2, <3>1 DEF Llama, t
      <4>2. Llega(t)
        BY <1>1, <1>2, <3>1 DEF TurnoBien
      <4>. QED
        BY <1>1, <3>3, <4>1, <4>2 DEF Llega
    <3>5. trip'[x].estado = "NEW"
      BY <1>6, <3>1, <3>2, <3>4
    <3>. QED
      BY <1>3, <3>3, <3>5 DEF x
  <2>. QED
    BY <2>1, <2>2 DEF ConsolaBien
<1>10. EnReadyBien'
  <2>. SUFFICES ASSUME NEW u \in Tripulantes, trip'[u].estado = "READY", ~Agregando(u)'
                PROVE  Contains(colas'["READY"], u)
    BY DEF EnReadyBien
  <2>. DEFINE r == colas["READY"]
  <2>1. r \in Seq(Tripulantes) /\ IsInjective(r)
    BY <1>0 DEF ColasBien, EnRegla, Calma, ColaBien, Tipos, DeColas
  <2>2. ~(u = t /\ cambio'[h] # NULL /\ cambio'[h].paso = "agregar")
    BY <1>3 DEF Agregando, EnCambio
  <2>3. trip[u].estado = "READY"
    BY <1>6, <2>2
  <2>4. CASE Agregando(u)
    <3>1. c.paso = "agregar" /\ t = u
      BY <1>3, <2>4 DEF Agregando, EnCambio
    <3>2. CambiarAgregar(h) /\ c.nuevo = "READY"
      BY <1>1, <1>5, <2>3, <3>1 DEF CambiarEstado, CambiarNada, CambiarTomar, CambiarSacar, EnCambio, ColasBien
    <3>3. colas'["READY"] = Append(r, u)
      BY <1>0, <3>1, <3>2, AgregandoDe DEF Tipos, DeColas
    <3>. QED
      BY <2>1, <3>3, AgregarDe
  <2>5. CASE ~Agregando(u)
    <3>1. Contains(r, u)
      BY <1>2, <2>3, <2>5 DEF EnReadyBien
    <3>2. \/ colas'["READY"] = r
          \/ CambiarSacar(h) /\ colas'["READY"] = RemoveFirst(r, t)
          \/ colas'["READY"] = Append(r, t)
      <4>1. DOMAIN colas = Estados
        BY DEF Tipos, DeColas
      <4>2. \/ colas' = colas
            \/ CambiarSacar(h) /\ colas' = [colas EXCEPT ![c.viejo] = RemoveFirst(@, t)]
            \/ colas' = [colas EXCEPT ![c.nuevo] = Append(@, t)]
        BY <1>5, ColasPasa
      <4>. HIDE DEF c, t
      <4>. QED
        BY <1>0, <4>1, <4>2
    <3>3. CambiarSacar(h) => u # t
      BY <2>2, SacandoDe
    <3>. HIDE DEF r, t
    <3>4. CASE colas'["READY"] = r
      BY <3>1, <3>4
    <3>5. CASE CambiarSacar(h) /\ colas'["READY"] = RemoveFirst(r, t)
      BY <2>1, <3>1, <3>3, <3>5, SacarDe
    <3>6. CASE colas'["READY"] = Append(r, t)
      BY <1>1, <2>1, <3>1, <3>6, AgregarDe
    <3>. QED
      BY <3>2, <3>4, <3>5, <3>6
  <2>. QED
    BY <2>4, <2>5
<1>. QED
  BY <1>2, <1>8, <1>9, <1>10, TurnoCambiar DEF Turnos

LEMMA TurnosPaso ==
  ASSUME Tipos, MovidosBien, VivosBien, SinSuaves, ColasBien, Calma => Turnos, NEW h \in Hilos, DelHilo(h)
  PROVE  Calma' => Turnos'
<1>. SUFFICES ASSUME Calma' PROVE Turnos'
  OBVIOUS
<1>1. Calma /\ Turnos
  BY UsosDe DEF Calma
<1>. QED
  BY <1>1, TurnosCambiar, TurnosIniciar, TurnosHuella, HuellaDelPaso

LEMMA TurnosSiempre == Spec => [](Calma => Turnos)
<1>1. Init => Turnos
  <2>. SUFFICES ASSUME Init PROVE Turnos
    OBVIOUS
  <2>1. \A h \in Hilos : cambio[h] = NULL
    BY DEF Init
  <2>2. \A t \in Tripulantes : t \in Hilos /\ pc[t] = "sin_crear" /\ trip[t] = SinCrear
    BY NombresAssumption DEF Init, Hilos, Ordenes
  <2>3. "planificador" \in Hilos /\ "consola" \in Hilos /\ pc["consola"] = "esperar"
    BY DEF Init, Hilos, Ordenes
  <2>4. Len(TAREAS) \in Nat /\ Len(TAREAS) # 0
    BY DiscordiadorAssumption, LenProperties, EmptySeq DEF Init, TAREAS
  <2>5. ASSUME NEW t \in Tripulantes
        PROVE  /\ trip[t].estado = NULL /\ trip[t].semaforo = 0 /\ trip[t].tarea = 1
               /\ ~trip[t].haciendo_io /\ ~trip[t].termino
    BY <2>2 DEF SinCrear
  <2>6. NULL \notin Estados /\ {"NEW", "READY", "EXEC", "BLOCKED", "EXIT"} = Estados
    BY NombresAssumption DEF Estados
  <2>7. \A t \in Tripulantes : TurnoBien(t)
    BY <2>1, <2>2, <2>4, <2>5, <2>6 DEF TurnoBien, EnNadaBien, Falta
  <2>8. EnReadyBien
    BY <2>5, <2>6 DEF EnReadyBien
  <2>. QED
    BY <2>1, <2>3, <2>7, <2>8 DEF Turnos, Llama, ConsolaBien
<1>2. Tipos /\ MovidosBien /\ VivosBien /\ (SinSuaves /\ ColasBien) /\ (Calma => Turnos) /\ [Next]_vars => (Calma => Turnos)'
  <2>. SUFFICES ASSUME Tipos, MovidosBien, VivosBien, SinSuaves, ColasBien, Calma => Turnos, [Next]_vars
                PROVE  (Calma => Turnos)'
    OBVIOUS
  <2>1. CASE UNCHANGED vars
    BY <2>1 DEF vars, colasVars, ordenVars, Calma, NingunoExpulsado, SinSabotajes, Turnos, TurnoBien, Llama, ConsolaBien,
       EnReadyBien, EnNadaBien, EnExecBien, EnBlockedBien, EnExitBien, Falta, Pide, Llega, LoPonen, Espera, Corre,
       EnDispositivo, Acaba, Agregando, EnCambio, TAREAS
  <2>2. CASE \E h \in Hilos : DelHilo(h)
    BY <2>2, TurnosPaso
  <2>. QED
    BY <2>1, <2>2 DEF Next, Reposo
<1>. QED
  BY <1>1, <1>2, TiposSiempre, MovidosSiempre, VivosSiempre, ColasSiempre, PTL DEF Spec

\* While nobody is expelled and there is no sabotage, the device is kept in
\* BLOCKED: nobody goes back to READY with it, nor asks for it out of EXEC.
THEOREM DispositivoEnBlockedSiempre == Spec => []DispositivoEnBlocked
<1>1. ASSUME Tipos, UnSoloDispositivo, Calma => Turnos PROVE DispositivoEnBlocked
  <2>. SUFFICES ASSUME Turnos, NEW t \in ConDispositivo PROVE trip[t].estado = "BLOCKED"
    BY <1>1 DEF DispositivoEnBlocked, Calma
  <2>1. t \in Tripulantes /\ trip[t].haciendo_io /\ pc[t] # "dispositivos_io"
    BY DEF ConDispositivo
  <2>2. trip[t].estado \in {"NEW", "READY", "EXEC", "BLOCKED", "EXIT", NULL} /\ TurnoBien(t)
    BY <1>1, <2>1 DEF Turnos, Tipos, DeTrip, TTripulante, Estados
  <2>3. ~Espera(t) /\ ~EnDispositivo(t) /\ ~Acaba(t) /\ ~EnNadaBien(t)
    BY <2>1 DEF Espera, EnDispositivo, Acaba, EnNadaBien
  <2>4. ~EnExecBien(t) /\ ~EnExitBien(t)
    BY <2>1, <2>3 DEF EnExecBien, EnExitBien
  <2>. QED
    BY <2>2, <2>3, <2>4 DEF TurnoBien
<1>. QED
  BY <1>1, TiposSiempre, UnSoloDispositivoSiempre, TurnosSiempre, PTL

-------------------------------------------------------------------------------
\* The counts.  The planner takes a CPU and a unit of contador_ready, passes one
\* of READY, and posts; the rest of the threads leave both alone but in
\* cambiar_estado.
ManoReady ==
  IF \/ pc["planificador"] \in {"sem_planificacion", "pasar_uno"}
     \/ cambio["planificador"] # NULL /\ cambio["planificador"].paso \in {"tomar", "sacar"}
  THEN 1 ELSE 0
CuentasBien == /\ Cardinality(EnReady) = sem.contador_ready + ManoReady
               /\ Cpus = GRADO_MULTITAREA

LEMMA PlanDe ==
  ASSUME Tipos, Planificador
  PROVE  LET p == "planificador" IN
         /\ cambio[p] = NULL
         /\ \/ /\ pc[p] = "cpus_libres" /\ pc'[p] = "contador_ready" /\ cambio' = cambio
               /\ sem'.cpus_libres = sem.cpus_libres - 1 /\ sem'.contador_ready = sem.contador_ready
            \/ /\ pc[p] = "contador_ready" /\ pc'[p] = "sem_planificacion" /\ cambio' = cambio
               /\ sem'.cpus_libres = sem.cpus_libres /\ sem'.contador_ready = sem.contador_ready - 1
            \/ /\ sem'.cpus_libres = sem.cpus_libres /\ sem'.contador_ready = sem.contador_ready
               /\ \/ pc[p] = "sem_planificacion" /\ pc'[p] = "pasar_uno" /\ cambio' = cambio
                  \/ pc[p] = "post" /\ pc'[p] = "cpus_libres" /\ cambio' = cambio
                  \/ /\ pc[p] = "pasar_uno" /\ pc'[p] = "post"
                     /\ colas["READY"] # <<>> => cambio'[p] # NULL /\ cambio'[p].paso = "tomar"
<1>. DEFINE p == "planificador"
<1>1. p \in Hilos /\ sem \in [Semaforos -> Nat] /\ DeCambio /\ {"READY", "EXEC"} \subseteq Estados
  BY DEF Hilos, Tipos, DeSem, Estados
<1>2. ASSUME NEW a, NEW b, Ir(p, a, b) PROVE cambio[p] = NULL /\ pc[p] = a /\ pc'[p] = b
  BY <1>1, <1>2 DEF Ir, En, Tipos, DePc
<1>3. CASE PlanEsperarCpu
  BY <1>1, <1>2, <1>3 DEF PlanEsperarCpu, EsperarYSeguir, Esperar, Semaforos
<1>4. CASE PlanEsperarReady
  BY <1>1, <1>2, <1>4 DEF PlanEsperarReady, EsperarYSeguir, Esperar, Semaforos
<1>5. CASE PlanEsperarPlanificacion
  BY <1>1, <1>2, <1>5 DEF PlanEsperarPlanificacion, EsperarYSeguir, Esperar, Semaforos
<1>6. CASE PlanPost
  BY <1>1, <1>2, <1>6 DEF PlanPost, Postear, Semaforos
<1>7. CASE PasarUnoAExec
  <2>. DEFINE t == Head(colas["READY"])
  <2>1. Ir(p, "pasar_uno", "post") /\ sem' = sem
    BY <1>7 DEF PasarUnoAExec
  <2>2. ASSUME colas["READY"] # <<>> PROVE cambio'[p] # NULL /\ cambio'[p].paso = "tomar"
    <3>1. Cambiar(p, t, "EXEC")
      BY <1>7, <2>2 DEF PasarUnoAExec
    <3>2. t \in Tripulantes
      BY <1>1, <2>2, HeadTailProperties DEF Tipos, DeColas
    <3>. HIDE DEF t
    <3>. QED
      BY <1>1, <3>1, <3>2, LlamaDe
  <2>. QED
    BY <1>2, <2>1, <2>2
<1>. QED
  BY <1>3, <1>4, <1>5, <1>6, <1>7 DEF Planificador

LEMMA ContadorDe ==
  ASSUME Tipos, NEW h \in Hilos, DelHilo(h), ~CambiarEstado(h), h # "planificador",
         \A t \in Tripulantes : pc[t] # "contador_ready"
  PROVE  sem'.contador_ready = sem.contador_ready
<1>1. sem \in [Semaforos -> Nat]
  BY DEF Tipos, DeSem
<1>2. ASSUME NEW s \in Semaforos \ {"contador_ready"}, Esperar(s) \/ Postear(s)
      PROVE  sem'.contador_ready = sem.contador_ready
  BY <1>1, <1>2 DEF Esperar, Postear, Semaforos
<1>3. {"sem_planificacion", "cpus_libres", "dispositivos_io"} \subseteq Semaforos \ {"contador_ready"}
  BY DEF Semaforos
<1>4. CASE Consola
  <2>1. UNCHANGED sem
    BY <1>4 DEF Consola, PedirIniciar, PedirPausar, IniciarTripulante, IniciarEncolar, IniciarSiguiente,
       ExpulsarMarcar, ExpulsarDespertar, IniciarPatota, ExpulsarTripulante, Avanzar
  <2>. QED
    BY <2>1
<1>5. CASE Sabotaje
  <2>1. UNCHANGED sem
    BY <1>5 DEF Sabotaje, SaboEmpezar, SaboMirarPausa, SaboListar, SaboElegir, SaboBloquear, SaboBloquearSuave, SaboSinNadie,
       SaboResolver, SaboMover, SaboLlegar, SaboGuardar, SaboDevolver, SaboFin, Avanzar
  <2>. QED
    BY <2>1
<1>6. CASE Orden(h)
  <2>1. \/ UNCHANGED sem
        \/ Esperar("sem_planificacion") \/ Postear("sem_planificacion")
    BY <1>6 DEF Orden, IniciarNada, IniciarContar, IniciarNuevo, IniciarCaida, IniciarReanudar, PausarNada,
       PausarTomar, PausarEsperar, PausarTodos, PausarUno, PausarFin, Avanzar, EsperarYSeguir
  <2>. QED
    BY <1>2, <1>3, <2>1
<1>7. CASE h \in Tripulantes /\ Tripulante(h)
  <2>1. ~TomarContador(h)
    BY <1>7 DEF TomarContador, Ir, En
  <2>2. \/ UNCHANGED sem
        \/ Esperar("dispositivos_io") \/ Postear("dispositivos_io")
    <3>1. CASE PasarPausa(h) \/ EsperarSemaforo(h) \/ Seguir(h) \/ Salir(h) \/ SalirDeReady(h)
      BY <3>1 DEF PasarPausa, EsperarSemaforo, Seguir, Salir, SalirDeReady, Avanzar
    <3>2. CASE DejarCpu(h) \/ PedirIO(h) \/ TomarDispositivo(h) \/ HacerTarea(h) \/ Moverse(h) \/ Terminar(h)
      BY <3>2 DEF DejarCpu, PedirIO, TomarDispositivo, HacerTarea, Moverse, Terminar, EsperarYSeguir
    <3>3. CASE TerminoListar(h) \/ FaltaAlguno(h) \/ DestruirTodos(h) \/ EstanTodos(h) \/ Destruirse(h)
      BY <3>3 DEF TerminoListar, FaltaAlguno, DestruirTodos, EstanTodos, Destruirse, Avanzar
    <3>. QED
      BY <1>7, <2>1, <3>1, <3>2, <3>3 DEF Tripulante
  <2>. QED
    BY <1>2, <1>3, <2>2
<1>. QED
  BY <1>4, <1>5, <1>6, <1>7 DEF DelHilo

\* Two sets that differ at most in one element.
LEMMA MenosUno ==
  ASSUME NEW A \in SUBSET Tripulantes, NEW B \in SUBSET Tripulantes, NEW t \in Tripulantes,
         \A u \in Tripulantes : u # t => (u \in A <=> u \in B)
  PROVE  /\ Cardinality(A) \in Nat /\ Cardinality(B) \in Nat
         /\ Cardinality(B) + (IF t \in A THEN 1 ELSE 0) = Cardinality(A) + (IF t \in B THEN 1 ELSE 0)
<1>1. IsFiniteSet(A) /\ IsFiniteSet(B) /\ Cardinality(A) \in Nat /\ Cardinality(B) \in Nat
  BY EnExecFinito
<1>2. CASE t \in A <=> t \in B
  <2>1. A = B
    BY <1>2
  <2>. QED
    BY <1>1, <2>1
<1>3. CASE t \in A /\ t \notin B
  <2>1. A = B \cup {t}
    BY <1>3
  <2>. QED
    BY <1>1, <1>3, <2>1, FS_AddElement
<1>4. CASE t \notin A /\ t \in B
  <2>1. B = A \cup {t}
    BY <1>4
  <2>. QED
    BY <1>1, <1>4, <2>1, FS_AddElement
<1>. QED
  BY <1>2, <1>3, <1>4

\* In cambiar_estado.
LEMMA CuentasCambiar ==
  ASSUME Tipos, MovidosBien, ColasBien, SinSuaves, Turnos, Calma, CuentasBien, NEW h \in Hilos, CambiarEstado(h)
  PROVE  CuentasBien'
<1>. DEFINE p == "planificador"
            k == "consola"
<1>a. PICK t : t = cambio[h].t
  OBVIOUS
<1>b. PICK nuevo : nuevo = cambio[h].nuevo
  OBVIOUS
<1>0. /\ p \in Hilos /\ p \notin Tripulantes /\ k \notin Tripulantes /\ Tripulantes \subseteq Hilos /\ p # k
      /\ {"NEW", "READY", "EXEC", "BLOCKED", "EXIT"} = Estados /\ NULL \notin Hilos
  BY NombresAssumption DEF Hilos, Estados
<1>1. /\ cambio[h] # NULL /\ t \in Tripulantes /\ cambio[h].paso \in DeEstado
      /\ \/ h \in Tripulantes /\ t = h /\ nuevo \in {"READY", "BLOCKED", "EXIT"}
         \/ h = p /\ nuevo = "EXEC"
         \/ h = k /\ nuevo \in {"NEW", "READY"}
  BY <1>a, <1>b, CambiarPasa, QuienLlama DEF MovidosBien
<1>2. /\ TurnoBien(t) /\ Llama(p, "READY") /\ Llama(k, "NEW")
      /\ h = p => pc[p] = "post"
  BY <1>0, <1>1 DEF Turnos, MovidosBien, LlamadasBien, LlamadaBien, Ordenes
<1>3. /\ pc' = pc /\ \A j \in Hilos \ {h} : cambio'[j] = cambio[j]
      /\ cambio'[h] = NULL \/ (cambio'[h] # NULL /\ cambio'[h].t = t)
  BY <1>a, CambiarPasa
<1>4. ~SuaveSacar(h) /\ ~SuaveAgregar(h)
  BY <1>1 DEF SuaveSacar, SuaveAgregar, EnCambio, DeEstado
<1>5. /\ sem.contador_ready \in Nat /\ sem.cpus_libres \in Nat /\ sem \in [Semaforos -> Nat]
      /\ ManoReady \in {0, 1} /\ EnElPlanificador \in {0, 1} /\ GRADO_MULTITAREA \in Nat
      /\ Cardinality(EnReady) = sem.contador_ready + ManoReady
      /\ sem.cpus_libres + EnElPlanificador + Cardinality(EnExec) = GRADO_MULTITAREA
  BY DiscordiadorAssumption DEF Tipos, DeSem, Semaforos, ManoReady, EnElPlanificador, CuentasBien, Cpus
<1>6. h # p => ManoReady' = ManoReady /\ EnElPlanificador' = EnElPlanificador
  BY <1>0, <1>3 DEF ManoReady, EnElPlanificador
<1>7. /\ \A u : u \in EnReady <=> u \in Tripulantes /\ trip[u].estado = "READY" /\ ~Agregando(u)
      /\ \A u : u \in EnExec <=> u \in Tripulantes /\ trip[u].estado = "EXEC" /\ ~Sacando(u)
  BY DEF EnReady, EnExec, Agregando, Sacando
<1>8. /\ \A u : u \in EnReady' <=> u \in Tripulantes /\ trip'[u].estado = "READY" /\ ~Agregando(u)'
      /\ \A u : u \in EnExec' <=> u \in Tripulantes /\ trip'[u].estado = "EXEC" /\ ~Sacando(u)'
  BY DEF EnReady, EnExec, Agregando, Sacando
<1>9. ASSUME NEW u \in Tripulantes, u # t
      PROVE  (u \in EnReady <=> u \in EnReady') /\ (u \in EnExec <=> u \in EnExec')
  <2>1. (Agregando(u)' <=> Agregando(u)) /\ (Sacando(u)' <=> Sacando(u))
    BY <1>a, <1>3, <1>9 DEF Agregando, Sacando, EnCambio
  <2>2. trip'[u].estado = trip[u].estado
    BY <1>a, <1>9, EstadosPasa
  <2>. QED
    BY <1>7, <1>8, <2>1, <2>2
\* What the counts gain and lose by t.
<1>10. /\ Cardinality(EnReady) \in Nat /\ Cardinality(EnReady)' \in Nat
       /\ Cardinality(EnExec) \in Nat /\ Cardinality(EnExec)' \in Nat
       /\ Cardinality(EnReady)' + (IF t \in EnReady THEN 1 ELSE 0)
            = Cardinality(EnReady) + (IF t \in EnReady' THEN 1 ELSE 0)
       /\ Cardinality(EnExec)' + (IF t \in EnExec THEN 1 ELSE 0)
            = Cardinality(EnExec) + (IF t \in EnExec' THEN 1 ELSE 0)
  <2>1. /\ EnReady \in SUBSET Tripulantes /\ EnReady' \in SUBSET Tripulantes
        /\ EnExec \in SUBSET Tripulantes /\ EnExec' \in SUBSET Tripulantes
    BY <1>7, <1>8
  <2>. QED
    BY <1>1, <1>9, <2>1, MenosUno
\* Who has the member, to move it, is alone with it.
<1>11. \A j \in Hilos : Mueve(j) /\ cambio[j].t = t => trip[t].mutex = j /\ (Mueve(h) => j = h)
  BY <1>a, UnoSolo DEF MovidosBien, MutexBien
<1>12. CASE CambiarNada(h)
  <2>1. /\ cambio[h].paso = "tomar" /\ cambio'[h] = NULL /\ trip[t].estado = "EXIT" /\ sem' = sem /\ trip' = trip
    BY <1>a, <1>12 DEF CambiarNada, EnCambio, Tipos, DeCambio
  <2>2. h # p
    BY <1>a, <1>0, <1>1, <1>2, <2>1 DEF Llama
  <2>3. t \notin EnReady /\ t \notin EnReady' /\ t \notin EnExec /\ t \notin EnExec'
    BY <1>7, <1>8, <2>1
  <2>. QED
    BY <1>5, <1>6, <1>10, <2>1, <2>2, <2>3 DEF CuentasBien, Cpus
<1>13. CASE CambiarTomar(h)
  <2>1. /\ cambio[h].paso = "tomar" /\ cambio'[h] # NULL /\ cambio'[h].paso = "sacar" /\ cambio'[h].t = t
        /\ trip[t].mutex = NULL /\ trip'[t].estado = trip[t].estado
        /\ sem'.cpus_libres = IF trip[t].estado = "EXEC" THEN sem.cpus_libres + 1 ELSE sem.cpus_libres
    BY <1>a, <1>1, <1>13, TomarDe
  <2>2. sem'.contador_ready = sem.contador_ready
    BY <1>5, <1>13 DEF CambiarTomar, Postear, Semaforos
  <2>3. ManoReady' = ManoReady /\ EnElPlanificador' = EnElPlanificador
    BY <1>1, <1>3, <1>6, <2>1 DEF ManoReady, EnElPlanificador
  <2>4. ~Sacando(t) /\ ~Agregando(t)
    BY <1>0, <1>11, <2>1 DEF Sacando, Agregando, Mueve
  <2>5. Sacando(t)' /\ ~Agregando(t)'
    BY <1>3, <2>1, <2>4 DEF Sacando, Agregando, EnCambio
  <2>6. /\ t \in EnReady <=> t \in EnReady'
        /\ t \notin EnExec' /\ (t \in EnExec <=> trip[t].estado = "EXEC")
    BY <1>1, <1>7, <1>8, <2>1, <2>4, <2>5
  <2>7. Cardinality(EnReady)' = Cardinality(EnReady)
    BY <1>10, <2>6
  <2>8. sem'.cpus_libres + Cardinality(EnExec)' = sem.cpus_libres + Cardinality(EnExec)
    <3>1. CASE trip[t].estado = "EXEC"
      <4>1. sem'.cpus_libres = sem.cpus_libres + 1 /\ Cardinality(EnExec)' + 1 = Cardinality(EnExec)
        BY <1>10, <2>1, <2>6, <3>1
      <4>. QED
        BY <1>5, <1>10, <4>1
    <3>2. CASE trip[t].estado # "EXEC"
      <4>1. sem'.cpus_libres = sem.cpus_libres /\ Cardinality(EnExec)' = Cardinality(EnExec)
        BY <1>10, <2>1, <2>6, <3>2
      <4>. QED
        BY <4>1
    <3>. QED
      BY <3>1, <3>2
  <2>9. sem'.cpus_libres \in Nat
    BY <1>5, <2>1
  <2>. QED
    BY <1>5, <1>10, <2>2, <2>3, <2>7, <2>8, <2>9 DEF CuentasBien, Cpus
<1>14. CASE CambiarSacar(h)
  <2>1. /\ cambio[h].paso = "sacar" /\ cambio'[h] # NULL /\ cambio'[h].paso = "agregar" /\ cambio'[h].t = t
        /\ sem' = sem /\ trip'[t].estado = nuevo /\ Mueve(h)
    BY <1>a, <1>b, <1>1, <1>14, SacandoDe DEF Mueve, EnCambio
  <2>2. Sacando(t) /\ ~Agregando(t)
    BY <1>a, <1>1, <1>11, <2>1 DEF Sacando, Agregando, Mueve, EnCambio
  <2>3. ~Sacando(t)' /\ Agregando(t)'
    BY <1>3, <1>11, <2>1 DEF Sacando, Agregando, Mueve, EnCambio
  <2>4. /\ t \notin EnExec /\ t \notin EnReady'
        /\ t \in EnExec' <=> nuevo = "EXEC"
        /\ t \in EnReady <=> trip[t].estado = "READY"
    BY <1>1, <1>7, <1>8, <2>1, <2>2, <2>3
  <2>5. CASE h = p
    <3>1. nuevo = "EXEC" /\ trip[t].estado = "READY"
      BY <1>a, <1>0, <1>1, <1>2, <2>1, <2>5 DEF Llama
    <3>2. ManoReady = 1 /\ ManoReady' = 0 /\ EnElPlanificador = 1 /\ EnElPlanificador' = 0
      BY <1>1, <1>2, <1>3, <2>1, <2>5 DEF ManoReady, EnElPlanificador
    <3>. QED
      BY <1>5, <1>10, <2>1, <2>4, <3>1, <3>2 DEF CuentasBien, Cpus
  <2>6. CASE h # p
    <3>1. nuevo # "EXEC" /\ trip[t].estado # "READY"
      BY <1>a, <1>0, <1>1, <1>2, <2>1, <2>6 DEF Llama, TurnoBien, Llega
    <3>. QED
      BY <1>5, <1>6, <1>10, <2>1, <2>4, <2>6, <3>1 DEF CuentasBien, Cpus
  <2>. QED
    BY <2>5, <2>6
<1>15. CASE CambiarAgregar(h)
  <2>1. /\ cambio[h].paso = "agregar" /\ cambio'[h] = NULL /\ trip'[t].estado = trip[t].estado
        /\ trip[t].estado = nuevo /\ sem'.cpus_libres = sem.cpus_libres /\ Mueve(h)
    BY <1>a, <1>b, <1>1, <1>15, AgregandoDe DEF ColasBien, Mueve, EnCambio
  <2>2. sem'.contador_ready = IF nuevo = "READY" THEN sem.contador_ready + 1 ELSE sem.contador_ready
    BY <1>b, <1>5, <1>15 DEF CambiarAgregar, SeCuenta, Postear, Semaforos
  <2>3. ~Sacando(t) /\ Agregando(t)
    BY <1>a, <1>1, <1>11, <2>1 DEF Sacando, Agregando, Mueve, EnCambio
  <2>4. ~Sacando(t)' /\ ~Agregando(t)'
    BY <1>3, <1>11, <2>1 DEF Sacando, Agregando, Mueve, EnCambio
  <2>5. /\ t \notin EnReady /\ (t \in EnReady' <=> nuevo = "READY")
        /\ t \in EnExec <=> t \in EnExec'
    BY <1>1, <1>7, <1>8, <2>1, <2>3, <2>4
  <2>6. ManoReady' = ManoReady /\ EnElPlanificador' = EnElPlanificador
    BY <1>1, <1>2, <1>3, <1>6, <2>1 DEF ManoReady, EnElPlanificador
  <2>. QED
    BY <1>5, <1>10, <2>1, <2>2, <2>5, <2>6 DEF CuentasBien, Cpus
<1>. QED
  BY <1>4, <1>12, <1>13, <1>14, <1>15 DEF CambiarEstado

\* Out of it: the queue has somebody when the planner gets to it.
LEMMA CuentasHuella ==
  ASSUME Tipos, Turnos, Calma, CuentasBien, NEW h \in Hilos, DelHilo(h), Huella(h)
  PROVE  CuentasBien'
<1>. DEFINE p == "planificador"
<1>0. /\ p \in Hilos /\ p \notin Tripulantes /\ p \notin Ordenes /\ Tripulantes \subseteq Hilos
      /\ sem.contador_ready \in Nat /\ sem.cpus_libres \in Nat /\ GRADO_MULTITAREA \in Nat
      /\ ManoReady \in {0, 1} /\ EnElPlanificador \in {0, 1}
      /\ Cardinality(EnReady) = sem.contador_ready + ManoReady
      /\ sem.cpus_libres + EnElPlanificador + Cardinality(EnExec) = GRADO_MULTITAREA
  BY NombresAssumption, DiscordiadorAssumption
     DEF Hilos, Ordenes, Tipos, DeSem, Semaforos, ManoReady, EnElPlanificador, CuentasBien, Cpus
<1>1. ~CambiarEstado(h) /\ \A t \in Tripulantes : trip'[t].estado = trip[t].estado
  BY CambiarPasa DEF Huella
<1>2. /\ \A j \in Hilos \ {h} : cambio'[j] = cambio[j] /\ pc'[j] = pc[j]
      /\ ~Mueve(h) /\ ~Mueve(h)'
  BY HuellaNoMueve DEF Huella
<1>3. EnReady' = EnReady /\ EnExec' = EnExec
  <2>1. \A t : (Agregando(t)' <=> Agregando(t)) /\ (Sacando(t)' <=> Sacando(t))
    BY <1>2 DEF Agregando, Sacando, Mueve, EnCambio
  <2>. QED
    BY <1>1, <2>1 DEF EnReady, EnExec, Agregando, Sacando
<1>4. CASE h # p
  <2>1. \A t \in Tripulantes : pc[t] # "contador_ready"
    <3>. TAKE t \in Tripulantes
    <3>1. TurnoBien(t) /\ trip[t].estado \in {"NEW", "READY", "EXEC", "BLOCKED", "EXIT", NULL}
      BY DEF Turnos, Tipos, DeTrip, TTripulante, Estados
    <3>2. pc[t] = "contador_ready" => ~Espera(t) /\ ~Corre(t) /\ ~EnDispositivo(t) /\ ~EnNadaBien(t) /\ ~EnExitBien(t)
      BY DEF Espera, Corre, EnDispositivo, EnNadaBien, EnExitBien
    <3>. QED
      BY <3>1, <3>2 DEF TurnoBien, EnExecBien, EnBlockedBien
  <2>2. sem'.contador_ready = sem.contador_ready /\ sem'.cpus_libres = sem.cpus_libres
    BY <1>1, <1>4, <2>1, ContadorDe DEF Huella
  <2>3. ManoReady' = ManoReady /\ EnElPlanificador' = EnElPlanificador
    BY <1>0, <1>2, <1>4 DEF ManoReady, EnElPlanificador
  <2>. QED
    BY <1>0, <1>3, <2>2, <2>3 DEF CuentasBien, Cpus
<1>5. CASE h = p
  <2>1. Planificador
    BY <1>0, <1>1, <1>5 DEF DelHilo
  <2>2. pc[p] = "pasar_uno" => colas["READY"] # <<>>
    <3>. SUFFICES ASSUME pc[p] = "pasar_uno" PROVE colas["READY"] # <<>>
      OBVIOUS
    <3>1. Cardinality(EnReady) # 0
      BY <1>0 DEF ManoReady
    <3>2. EnReady # {}
      BY <3>1, FS_EmptySet
    <3>3. PICK t \in Tripulantes : trip[t].estado = "READY" /\ ~Agregando(t)
      BY <3>2 DEF EnReady, Agregando
    <3>4. Contains(colas["READY"], t)
      BY <3>3 DEF Turnos, EnReadyBien
    <3>. QED
      BY <3>4, EmptySeq DEF Contains
  <2>3. /\ cambio[p] = NULL
        /\ \/ /\ pc[p] = "cpus_libres" /\ pc'[p] = "contador_ready" /\ cambio' = cambio
              /\ sem'.cpus_libres = sem.cpus_libres - 1 /\ sem'.contador_ready = sem.contador_ready
           \/ /\ pc[p] = "contador_ready" /\ pc'[p] = "sem_planificacion" /\ cambio' = cambio
              /\ sem'.cpus_libres = sem.cpus_libres /\ sem'.contador_ready = sem.contador_ready - 1
           \/ /\ sem'.cpus_libres = sem.cpus_libres /\ sem'.contador_ready = sem.contador_ready
              /\ \/ pc[p] = "sem_planificacion" /\ pc'[p] = "pasar_uno" /\ cambio' = cambio
                 \/ pc[p] = "post" /\ pc'[p] = "cpus_libres" /\ cambio' = cambio
                 \/ pc[p] = "pasar_uno" /\ pc'[p] = "post" /\ cambio'[p] # NULL /\ cambio'[p].paso = "tomar"
    BY <2>1, <2>2, PlanDe
  <2>4. sem'.contador_ready + ManoReady' = sem.contador_ready + ManoReady
    BY <1>0, <2>3 DEF ManoReady
  <2>5. sem'.cpus_libres + EnElPlanificador' = sem.cpus_libres + EnElPlanificador
    BY <1>0, <2>3 DEF EnElPlanificador
  <2>6. EnElPlanificador' \in {0, 1} /\ sem'.cpus_libres \in Int
    BY <1>0, <2>3 DEF EnElPlanificador
  <2>. QED
    BY <1>0, <1>3, <2>4, <2>5, <2>6 DEF CuentasBien, Cpus
<1>. QED
  BY <1>4, <1>5

LEMMA CuentasPaso ==
  ASSUME Tipos, MovidosBien, VivosBien, SinSuaves, ColasBien, Calma => Turnos, Calma => CuentasBien,
         NEW h \in Hilos, DelHilo(h)
  PROVE  Calma' => CuentasBien'
<1>. SUFFICES ASSUME Calma' PROVE CuentasBien'
  OBVIOUS
<1>1. Calma /\ Turnos /\ CuentasBien
  BY UsosDe DEF Calma
<1>2. CASE IniciarTripulante
  <2>a. PICK t : t = Head(lista["consola"])
    OBVIOUS
  <2>1. /\ t \in Tripulantes /\ cambio' = cambio /\ sem' = sem
        /\ \A j \in Hilos \ {"consola", t} : pc'[j] = pc[j]
        /\ \A u \in Tripulantes : trip'[u].estado = IF u = t THEN "NEW" ELSE trip[u].estado
    BY <1>2, <2>a, IniciarDe
  <2>2. trip[t].estado = NULL
    BY <1>2, <2>a, IniciarDe, CabezaDe DEF VivosBien, NuevosBien, Vivo
  <2>3. "planificador" \in Hilos \ {"consola", t} /\ {"READY", "EXEC"} \subseteq Estados /\ NULL \notin Estados
    BY <2>1, NombresAssumption DEF Hilos, Estados
  <2>4. EnReady' = EnReady /\ EnExec' = EnExec
    BY <2>1, <2>2, <2>3 DEF EnReady, EnExec, EnCambio
  <2>5. ManoReady' = ManoReady /\ EnElPlanificador' = EnElPlanificador
    BY <2>1, <2>3 DEF ManoReady, EnElPlanificador
  <2>. QED
    BY <1>1, <2>1, <2>4, <2>5 DEF CuentasBien, Cpus
<1>. QED
  BY <1>1, <1>2, CuentasCambiar, CuentasHuella, HuellaDelPaso

LEMMA CuentasSiempre == Spec => [](Calma => CuentasBien)
<1>1. Init => CuentasBien
  <2>. SUFFICES ASSUME Init PROVE CuentasBien
    OBVIOUS
  <2>1. \A h \in Hilos : cambio[h] = NULL
    BY DEF Init
  <2>2. \A t \in Tripulantes : trip[t].estado = NULL
    BY DEF Init, SinCrear
  <2>3. EnReady = {} /\ EnExec = {}
    BY <2>2, NombresAssumption DEF EnReady, EnExec, Estados
  <2>4. "planificador" \in Hilos /\ pc["planificador"] = "cpus_libres"
    BY DEF Init, Hilos, Ordenes
  <2>5. ManoReady = 0 /\ EnElPlanificador = 0
    BY <2>1, <2>4 DEF ManoReady, EnElPlanificador
  <2>6. sem.contador_ready = 0 /\ sem.cpus_libres = GRADO_MULTITAREA
    BY DEF Init
  <2>. QED
    BY <2>3, <2>5, <2>6, FS_EmptySet, DiscordiadorAssumption DEF CuentasBien, Cpus
<1>2. /\ Tipos /\ MovidosBien /\ VivosBien /\ (SinSuaves /\ ColasBien)
      /\ (Calma => Turnos) /\ (Calma => CuentasBien) /\ [Next]_vars
      => (Calma => CuentasBien)'
  <2>. SUFFICES ASSUME Tipos, MovidosBien, VivosBien, SinSuaves, ColasBien, Calma => Turnos,
                       Calma => CuentasBien, [Next]_vars
                PROVE  (Calma => CuentasBien)'
    OBVIOUS
  <2>1. CASE UNCHANGED vars
    BY <2>1 DEF vars, colasVars, ordenVars, Calma, NingunoExpulsado, SinSabotajes, CuentasBien, Cpus, ManoReady,
       EnElPlanificador, EnReady, EnExec, EnCambio
  <2>2. CASE \E h \in Hilos : DelHilo(h)
    BY <2>2, CuentasPaso
  <2>. QED
    BY <2>1, <2>2 DEF Next, Reposo
<1>. QED
  BY <1>1, <1>2, TiposSiempre, MovidosSiempre, VivosSiempre, ColasSiempre, TurnosSiempre, PTL DEF Spec

\* While nobody is expelled and there is no sabotage, contador_ready and the
\* planner's hand count the members in READY, so the planner never finds the
\* queue empty.
THEOREM ReadyContadosSiempre == Spec => []ReadyContados
<1>1. (Calma => CuentasBien) => ReadyContados
  BY DEF Calma, CuentasBien, ReadyContados, ManoReady
<1>. QED
  BY <1>1, CuentasSiempre, PTL

\* And no CPU is lost then: those that are free, the planner's and those of the
\* members in EXEC are GRADO_MULTITAREA, whatever pauses there are meanwhile.
THEOREM CpusConservadasSiempre == Spec => []CpusConservadas
<1>1. CpusAcotadas /\ (Calma => CuentasBien) => CpusConservadas
  BY DEF Calma, CuentasBien, CpusConservadas
<1>. QED
  BY <1>1, CpusAcotadasSiempre, CuentasSiempre, PTL

-------------------------------------------------------------------------------
\* In a queue, once.  A member that the console has yet to put in one waits with
\* nothing to wake it, and nobody else moves it; from then on it is where its
\* state says, unless a thread has it between two queues, until its crew is over:
\* who is told to destroy itself is in EXIT for good, and out of its queue.
SinEncolar(t) == ~Vivo(t) \/ PorEncolar(t)
Salido(t) == trip[t].estado = "EXIT" /\ ~Agregando(t)
Quieto(t) == /\ trip[t].semaforo = 0 /\ Falta(t)
             /\ pc[t] \in {"sin_crear", "pausado", "semaforo"}
             /\ trip[t].estado \in {NULL, "NEW", "READY"}
             /\ \A e \in Estados : ~Contains(colas[e], t)
             /\ \A h \in Hilos : cambio[h] # NULL /\ cambio[h].t = t => h = "consola"
ExpulsaVivos == pc["consola"] \in {"expulsar", "expulsado"} => Vivo(Head(lista["consola"]))
EncolaAlPrimero ==
  pc["consola"] = "encolado" /\ cambio["consola"] # NULL => cambio["consola"].t = Head(lista["consola"])
SacaVivos == \A h \in Hilos : EnCambio(h, "sacar") => trip[cambio[h].t].estado # "EXIT"
DestruyeSalidos == \A w \in Tripulantes : pc[w] = "destruir" => \A t \in ToSet(lista[w]) : Salido(t)
Encolado(t) ==
  /\ SinEncolar(t) => Quieto(t)
  /\ trip[t].sem_destruir > 0 => Salido(t) /\ ~Contains(colas["EXIT"], t)
  /\ ~SinEncolar(t) /\ ~Agregando(t) /\ trip[t].sem_destruir = 0 => Contains(colas[trip[t].estado], t)
ColasLlenas ==
  /\ ExpulsaVivos /\ EncolaAlPrimero /\ SacaVivos /\ DestruyeSalidos
  /\ \A t \in Tripulantes : Encolado(t)

\* The console out of a call: it puts in a queue who it had at that point, and
\* expels somebody who lives.
LEMMA ConsolaDe ==
  ASSUME Tipos, VivosBien, ExpulsaVivos, NEW h \in Hilos, h = "consola", DelHilo(h), ~CambiarEstado(h),
         ~IniciarTripulante
  PROVE  /\ pc'[h] # "encolar"
         /\ pc[h] = "encolar" \/ pc'[h] = "encolado" =>
              /\ pc[h] = "encolar" /\ pc'[h] = "encolado" /\ lista' = lista
              /\ cambio'[h] # NULL /\ cambio'[h].t = Head(lista[h])
         /\ pc'[h] \in {"expulsar", "expulsado"} => Head(lista'[h]) \in Tripulantes /\ Vivo(Head(lista'[h]))
<1>0. /\ h \notin Tripulantes /\ h # "planificador" /\ h # "sabotaje" /\ h \in Ordenes /\ DePc /\ DeLista /\ DeCambio
      /\ {"NEW", "READY"} \subseteq Estados
  BY NombresAssumption DEF Ordenes, Tipos, Estados
<1>1. CASE \E t \in Tripulantes : ExpulsarTripulante(t)
  <2>1. PICK t \in Tripulantes : ExpulsarTripulante(t)
    BY <1>1
  <2>2. lista'[h] = <<t>> /\ pc[h] = "esperar" /\ pc'[h] = "expulsar"
    BY <1>0, <2>1 DEF ExpulsarTripulante, Ir, En, DePc, DeLista
  <2>3. Vivo(t)
    BY <2>1 DEF ExpulsarTripulante, EnAlguna, EnCola, VivosBien, EnColasVivos
  <2>4. Head(lista'[h]) = t
    BY <2>2
  <2>. QED
    BY <2>2, <2>3, <2>4
<1>2. CASE ExpulsarMarcar
  <2>1. pc[h] = "expulsar" /\ pc'[h] = "expulsado" /\ lista' = lista
    BY <1>0, <1>2 DEF ExpulsarMarcar, Ir, En, DePc, ordenVars
  <2>2. lista[h] \in Seq(Tripulantes) /\ lista[h] # <<>>
    BY <2>1 DEF Tipos, Puestos, ConLista, DeLista
  <2>3. Head(lista[h]) \in Tripulantes
    BY <2>2, HeadTailProperties
  <2>. QED
    BY <2>1, <2>3 DEF ExpulsaVivos
<1>3. CASE IniciarEncolar
  <2>. DEFINE t == Head(lista[h])
              e == IF pausa THEN "NEW" ELSE "READY"
  <2>1. pc[h] = "encolar" /\ pc'[h] = "encolado" /\ lista' = lista /\ Cambiar(h, t, e) /\ e \in Estados
    BY <1>0, <1>3 DEF IniciarEncolar, Ir, En, DePc, ordenVars
  <2>2. lista[h] \in Seq(Tripulantes) /\ lista[h] # <<>>
    BY <2>1 DEF Tipos, Puestos, ConLista, DeLista
  <2>3. t \in Tripulantes
    BY <2>2, HeadTailProperties
  <2>. HIDE DEF t, e
  <2>4. cambio'[h] # NULL /\ cambio'[h].t = t
    BY <1>0, <2>1, <2>3, LlamaDe
  <2>. QED
    BY <2>1, <2>4 DEF t
<1>4. CASE PedirIniciar \/ PedirPausar \/ IniciarSiguiente \/ ExpulsarDespertar \/ \E p \in Patotas : IniciarPatota(p)
  <2>1. pc[h] # "encolar" /\ pc'[h] \notin {"encolar", "encolado", "expulsar", "expulsado"}
    BY <1>0, <1>4 DEF PedirIniciar, PedirPausar, IniciarSiguiente, ExpulsarDespertar, IniciarPatota, Avanzar, Ir, En, DePc
  <2>. QED
    BY <2>1
<1>5. CASE Orden(h)
  <2>1. pc[h] # "encolar" /\ pc'[h] \notin {"encolar", "encolado", "expulsar", "expulsado"}
    BY <1>0, <1>5 DEF Orden, IniciarNada, IniciarContar, IniciarNuevo, IniciarCaida, IniciarReanudar, PausarNada,
       PausarTomar, PausarEsperar, PausarTodos, PausarUno, PausarFin, TrasPausar, EsperarYSeguir, Avanzar, Ir, En, DePc
  <2>. QED
    BY <2>1
<1>. QED
  BY <1>0, <1>1, <1>2, <1>3, <1>4, <1>5 DEF DelHilo, Consola

\* How long the console has yet to put a member in a queue.
LEMMA SinEncolarCambiar ==
  ASSUME Tipos, LlamadasBien, VivosBien, ColasLlenas, NEW h \in Hilos, CambiarEstado(h), NEW t \in Tripulantes
  PROVE  /\ SinEncolar(t)' => SinEncolar(t) /\ ~(CambiarAgregar(h) /\ cambio[h].t = t)
         /\ SinEncolar(t) /\ ~(SinEncolar(t)') => CambiarAgregar(h) /\ cambio[h].t = t
<1>1. /\ UNCHANGED <<pc, lista>> /\ cambio[h] # NULL /\ \A k \in Hilos \ {h} : cambio'[k] = cambio[k]
      /\ Vivo(cambio[h].t)
  BY ColasPasa, CambiarPasa DEF VivosBien
<1>2. Vivo(t)' <=> Vivo(t)
  BY <1>1, EstadosPasa, NombresAssumption DEF Vivo
<1>3. PorEncolar(t)' => PorEncolar(t)
  BY <1>1 DEF PorEncolar, Hilos
<1>4. CASE h # "consola"
  <2>1. PorEncolar(t)' <=> PorEncolar(t)
    BY <1>1, <1>4 DEF PorEncolar, Hilos
  <2>2. cambio[h].t = t => ~SinEncolar(t)
    BY <1>1, <1>4 DEF ColasLlenas, Encolado, Quieto
  <2>. QED
    BY <1>2, <2>1, <2>2 DEF SinEncolar
<1>5. CASE h = "consola"
  <2>1. PorEncolar(t) => pc[h] = "encolado" /\ cambio[h].t = t
    BY <1>1, <1>5, NombresAssumption DEF PorEncolar, LlamadasBien, LlamadaBien, ColasLlenas, EncolaAlPrimero
  <2>2. PorEncolar(t) => ~CambiarNada(h)
    <3>. SUFFICES ASSUME PorEncolar(t) PROVE trip[t].estado # "EXIT"
      BY <2>1 DEF CambiarNada
    <3>. QED
      BY NombresAssumption DEF ColasLlenas, Encolado, SinEncolar, Quieto, Estados
  <2>3. PorEncolar(t) => cambio[h].paso \in DeEstado
    BY <1>1, <1>5, <2>1, NombresAssumption DEF LlamadasBien, LlamadaBien
  <2>4. PorEncolar(t) /\ ~CambiarAgregar(h) => cambio'[h] # NULL
    <3>. SUFFICES ASSUME PorEncolar(t), ~CambiarAgregar(h) PROVE cambio'[h] # NULL
      OBVIOUS
    <3>1. CambiarTomar(h) \/ CambiarSacar(h)
      BY <2>2, <2>3 DEF CambiarEstado, SuaveSacar, SuaveAgregar, EnCambio, DeEstado
    <3>. QED
      BY <3>1, TomarDe, SacandoDe
  <2>5. CambiarAgregar(h) => cambio'[h] = NULL
    BY AgregandoDe
  <2>6. CambiarAgregar(h) => ~(PorEncolar(t)')
    <3>. SUFFICES ASSUME CambiarAgregar(h), PorEncolar(t)' PROVE FALSE
      OBVIOUS
    <3>1. pc["consola"] = "encolar"
      BY <1>1, <1>5, <2>5 DEF PorEncolar
    <3>. QED
      BY <1>1, <1>5, <3>1, NombresAssumption DEF LlamadasBien, LlamadaBien, Ordenes
  <2>7. PorEncolar(t) /\ ~CambiarAgregar(h) => PorEncolar(t)'
    BY <1>1, <1>5, <2>1, <2>4 DEF PorEncolar
  <2>. QED
    BY <1>1, <1>2, <1>3, <2>1, <2>6, <2>7 DEF SinEncolar
<1>. QED
  BY <1>4, <1>5

\* Nor does any other step: only the console, by its own ways, has who is yet to be
\* enqueued.
LEMMA SinEncolarHuella ==
  ASSUME Tipos, LlamadasBien, VivosBien, ColasLlenas, NEW h \in Hilos, DelHilo(h), Huella(h), ~IniciarTripulante,
         NEW t \in Tripulantes
  PROVE  SinEncolar(t)' <=> SinEncolar(t)
<1>1. (Vivo(t)' <=> Vivo(t)) /\ cambio[h] = NULL
  BY DEF Vivo, Huella
<1>2. CASE h # "consola"
  <2>1. /\ "consola" \in Hilos /\ pc'["consola"] = pc["consola"] /\ cambio'["consola"] = cambio["consola"]
        /\ lista'["consola"] = lista["consola"]
    BY <1>2, ListasDe DEF Huella, Hilos
  <2>. QED
    BY <1>1, <2>1 DEF SinEncolar, PorEncolar
<1>3. CASE h = "consola"
  <2>1. ~CambiarEstado(h)
    BY <1>1, CambiarPasa
  <2>2. /\ pc'[h] # "encolar"
        /\ pc[h] = "encolar" \/ pc'[h] = "encolado" =>
             /\ pc[h] = "encolar" /\ pc'[h] = "encolado" /\ lista' = lista
             /\ cambio'[h] # NULL
    BY <1>3, <2>1, ConsolaDe DEF ColasLlenas
  <2>. QED
    BY <1>1, <1>3, <2>2 DEF SinEncolar, PorEncolar
<1>. QED
  BY <1>2, <1>3

\* Only the end of a crew tells anybody to destroy itself.
LEMMA AvisosDe ==
  ASSUME Tipos, NEW h \in Hilos, DelHilo(h), ~(h \in Tripulantes /\ DestruirTodos(h))
  PROVE  \A u \in Tripulantes : trip'[u].sem_destruir = trip[u].sem_destruir
<1>0. /\ DeTrip /\ DOMAIN trip = Tripulantes /\ \A u \in Tripulantes : trip[u] \in TTripulante
      /\ \A k \in Hilos : lista[k] \in Seq(Tripulantes)
  BY DEF Tipos, DeTrip, DeLista
<1>1. CASE CambiarEstado(h)
  <2>. DEFINE t == cambio[h].t
  <2>1. t \in Tripulantes
    BY <1>1, ColasPasa
  <2>2. CASE CambiarTomar(h)
    <3>. DEFINE a == IF trip[t].estado = "BLOCKED" THEN 0 ELSE trip[t].tiempo_en_cpu
    <3>1. trip' = [trip EXCEPT ![t] = [trip[t] EXCEPT !.mutex = h, !.tiempo_en_cpu = a]]
      BY <1>0, <2>1, <2>2 DEF CambiarTomar
    <3>. HIDE DEF a, t
    <3>. QED
      BY <1>0, <2>1, <3>1 DEF TTripulante
  <2>3. CASE CambiarSacar(h)
    <3>. DEFINE e == cambio[h].nuevo
    <3>1. trip' = [trip EXCEPT ![t].estado = e]
      BY <2>3 DEF CambiarSacar
    <3>. HIDE DEF e, t
    <3>. QED
      BY <1>0, <2>1, <3>1 DEF TTripulante
  <2>4. CASE CambiarAgregar(h)
    <3>. DEFINE a == IF cambio[h].nuevo \in {"EXEC", "EXIT"} THEN trip[t].semaforo + 1 ELSE trip[t].semaforo
                b == trip[t].termino \/ cambio[h].nuevo = "EXIT"
    <3>1. trip' = [trip EXCEPT ![t] = [trip[t] EXCEPT !.mutex = NULL, !.termino = b, !.semaforo = a]]
      BY <2>4 DEF CambiarAgregar
    <3>. HIDE DEF a, b, t
    <3>. QED
      BY <1>0, <2>1, <3>1 DEF TTripulante
  <2>5. CASE CambiarNada(h) \/ SuaveSacar(h) \/ SuaveAgregar(h)
    BY <2>5, SuaveDe
  <2>. QED
    BY <1>1, <2>2, <2>3, <2>4, <2>5 DEF CambiarEstado
<1>2. CASE Planificador
  BY <1>2 DEF Planificador, PlanEsperarCpu, PlanEsperarReady, PlanEsperarPlanificacion,
     PasarUnoAExec, PlanPost, EsperarYSeguir
<1>3. CASE Consola
  <2>. DEFINE t == Head(lista["consola"])
  <2>1. pc["consola"] \in ConLista => t \in Tripulantes
    <3>. SUFFICES ASSUME pc["consola"] \in ConLista PROVE t \in Tripulantes
      OBVIOUS
    <3>1. lista["consola"] \in Seq(Tripulantes) /\ lista["consola"] # <<>>
      BY <1>0 DEF Tipos, Puestos, Hilos
    <3>. QED
      BY <3>1, HeadTailProperties
  <2>2. CASE IniciarTripulante
    <3>1. trip' = [trip EXCEPT ![t].estado = "NEW"] /\ t \in Tripulantes
      BY <2>1, <2>2 DEF IniciarTripulante, En, ConLista
    <3>. HIDE DEF t
    <3>. QED
      BY <1>0, <3>1 DEF TTripulante
  <2>3. CASE ExpulsarMarcar
    <3>1. trip' = [trip EXCEPT ![t].termino = TRUE] /\ t \in Tripulantes
      BY <2>1, <2>3 DEF ExpulsarMarcar, Ir, En, ConLista
    <3>. HIDE DEF t
    <3>. QED
      BY <1>0, <3>1 DEF TTripulante
  <2>4. CASE ExpulsarDespertar
    <3>. DEFINE a == IF pausa THEN trip[t].pausado + 1 ELSE trip[t].pausado
    <3>1. trip' = [trip EXCEPT ![t].semaforo = trip[t].semaforo + 1, ![t].pausado = a] /\ t \in Tripulantes
      BY <2>1, <2>4 DEF ExpulsarDespertar, Ir, En, ConLista
    <3>. HIDE DEF t, a
    <3>. QED
      BY <1>0, <3>1 DEF TTripulante
  <2>5. ~IniciarTripulante /\ ~ExpulsarMarcar /\ ~ExpulsarDespertar => trip' = trip
    BY <1>3 DEF Consola, PedirIniciar, PedirPausar, IniciarEncolar, IniciarSiguiente, IniciarPatota,
       ExpulsarTripulante, Avanzar
  <2>. QED
    BY <2>2, <2>3, <2>4, <2>5
<1>4. CASE Sabotaje
  <2>1. CASE SaboMover
    <3>. DEFINE t == sabo.elegido
                a == Hacia(trip[t].x, sabo.x)
    <3>1. trip' = [trip EXCEPT ![t].x = a]
      BY <2>1 DEF SaboMover
    <3>. HIDE DEF t, a
    <3>. QED
      BY <1>0, <3>1 DEF TTripulante
  <2>2. ~SaboMover => trip' = trip
    BY <1>4 DEF Sabotaje, SaboEmpezar, SaboMirarPausa, SaboListar, SaboElegir, SaboBloquear, SaboBloquearSuave,
       SaboSinNadie, SaboResolver, SaboLlegar, SaboGuardar, SaboDevolver, SaboFin, Avanzar
  <2>. QED
    BY <2>1, <2>2
<1>5. CASE Orden(h)
  <2>1. CASE IniciarReanudar(h)
    <3>1. CASE planificando
      <4>1. trip' = [t \in Tripulantes |-> [trip[t] EXCEPT !.pausado = @ + Veces(t)]]
        BY <2>1, <3>1 DEF IniciarReanudar
      <4>. QED
        BY <1>0, <4>1 DEF TTripulante
    <3>2. CASE ~planificando
      BY <2>1, <3>2 DEF IniciarReanudar
    <3>. QED
      BY <3>1, <3>2
  <2>2. CASE PausarUno(h)
    <3>. DEFINE t == Head(lista[h])
    <3>1. lista[h] # <<>> /\ trip' = [trip EXCEPT ![t].pausado = @ - 1]
      BY <2>2 DEF PausarUno
    <3>2. t \in Tripulantes
      BY <1>0, <3>1, HeadTailProperties
    <3>. HIDE DEF t
    <3>. QED
      BY <1>0, <3>1, <3>2 DEF TTripulante
  <2>3. ~IniciarReanudar(h) /\ ~PausarUno(h) => trip' = trip
    BY <1>5 DEF Orden, IniciarNada, IniciarContar, IniciarNuevo, IniciarCaida, PausarNada, PausarTomar,
       PausarEsperar, PausarTodos, PausarFin, Avanzar, EsperarYSeguir
  <2>. QED
    BY <2>1, <2>2, <2>3
<1>6. CASE h \in Tripulantes /\ Tripulante(h)
  <2>0. h \in Tripulantes /\ trip[h] \in TTripulante
    BY <1>0, <1>6
  <2>1. CASE EsperarSemaforo(h)
    BY <1>0, <2>0, <2>1 DEF EsperarSemaforo, TTripulante
  <2>2. CASE SalirDeReady(h) \/ TomarContador(h)
    <3>1. \E m \in Hilos \cup {NULL} : trip' = [trip EXCEPT ![h].mutex = m]
      BY <2>2 DEF SalirDeReady, TomarContador
    <3>. QED
      BY <1>0, <2>0, <3>1 DEF TTripulante
  <2>3. CASE DejarCpu(h)
    BY <1>0, <2>0, <2>3 DEF DejarCpu, TTripulante
  <2>4. CASE PedirIO(h)
    BY <1>0, <2>0, <2>4 DEF PedirIO, TTripulante
  <2>5. CASE HacerTarea(h)
    <3>. DEFINE io == trip[h].haciendo_io
                ultima == Ultima(h)
                a == IF io /\ ultima THEN trip[h].semaforo ELSE trip[h].semaforo + 1
                b == IF io THEN trip[h].tiempo_en_cpu ELSE trip[h].tiempo_en_cpu + 1
                c == IF ultima THEN 0 ELSE trip[h].tiempo_haciendo_tarea + 1
                d == IF ultima THEN trip[h].tarea + 1 ELSE trip[h].tarea
                s == SigueEnIO(h)
                e == [trip[h] EXCEPT !.semaforo = a, !.tiempo_en_cpu = b, !.tiempo_haciendo_tarea = c,
                                     !.tarea = d, !.haciendo_io = s]
    <3>1. trip' = [trip EXCEPT ![h] = e]
      BY <2>5 DEF HacerTarea
    <3>. HIDE DEF a, b, c, d, s
    <3>2. e.sem_destruir = trip[h].sem_destruir
      BY <2>0 DEF TTripulante
    <3>. HIDE DEF e
    <3>. QED
      BY <1>0, <2>0, <3>1, <3>2
  <2>6. CASE Moverse(h)
    <3>. DEFINE a == Hacia(trip[h].x, Tarea(h).x)
    <3>1. trip' = [trip EXCEPT ![h] = [trip[h] EXCEPT !.x = a,
                     !.tiempo_en_cpu = trip[h].tiempo_en_cpu + 1, !.semaforo = trip[h].semaforo + 1]]
      BY <2>6 DEF Moverse
    <3>. HIDE DEF a
    <3>. QED
      BY <1>0, <2>0, <3>1 DEF TTripulante
  <2>7. CASE PasarPausa(h) \/ Seguir(h) \/ Salir(h) \/ TomarDispositivo(h) \/ Terminar(h) \/ TerminoListar(h)
             \/ FaltaAlguno(h) \/ EstanTodos(h) \/ Destruirse(h)
    <3>1. trip' = trip
      BY <2>7 DEF PasarPausa, Seguir, Salir, TomarDispositivo, Terminar, TerminoListar, FaltaAlguno, EstanTodos,
         Destruirse, Avanzar, EsperarYSeguir
    <3>. QED
      BY <3>1
  <2>. QED
    BY <1>6, <2>1, <2>2, <2>3, <2>4, <2>5, <2>6, <2>7 DEF Tripulante
<1>. QED
  BY <1>1, <1>2, <1>3, <1>4, <1>5, <1>6 DEF DelHilo

\* Who the console has yet to put in a queue waits, and nobody wakes it.
LEMMA QuietoDe ==
  ASSUME Tipos, LlamadasBien, VivosBien, ColasLlenas, NEW h \in Hilos, DelHilo(h), Huella(h), h # "sabotaje",
         ~IniciarTripulante, NEW t \in Tripulantes, SinEncolar(t)
  PROVE  /\ TAREAS' = TAREAS /\ trip'[t].semaforo = trip[t].semaforo /\ trip'[t].tarea = trip[t].tarea
         /\ pc'[t] \in {"sin_crear", "pausado", "semaforo"}
         /\ h = t => cambio' = cambio
<1>1. ~CambiarEstado(h) /\ "consola" \in Hilos /\ "consola" \notin Tripulantes /\ t \in Hilos
  BY CambiarPasa, NombresAssumption DEF Huella, Hilos
<1>2. /\ trip[t].semaforo = 0 /\ Falta(t) /\ pc[t] \in {"sin_crear", "pausado", "semaforo"}
      /\ trip[t] \in TTripulante
  BY DEF ColasLlenas, Encolado, Quieto, Tipos, DeTrip
<1>3. CASE h = t
  <2>1. Tripulante(t) /\ pc[t] # "sin_crear"
    BY <1>1, <1>3, NombresAssumption DEF DelHilo, Huella, Ordenes
  <2>2. PasarPausa(t)
    <3>1. ~EsperarSemaforo(t) /\ ~Terminar(t)
      BY <1>2 DEF EsperarSemaforo, Terminar, SinTareas, Falta, TTripulante, TAREAS
    <3>. QED
      BY <1>2, <2>1, <3>1 DEF Tripulante, Seguir, Salir, SalirDeReady, TomarContador, DejarCpu, PedirIO,
         TomarDispositivo, HacerTarea, Moverse, TerminoListar, FaltaAlguno, EstanTodos, DestruirTodos,
         Destruirse, EsperarYSeguir, Avanzar, Ir, En
  <2>3. pc'[t] = "semaforo" /\ UNCHANGED <<trip, cambio, usos>>
    BY <1>1, <2>2 DEF PasarPausa, Avanzar, Ir, En, ordenVars, Tipos, DePc
  <2>. QED
    BY <2>3 DEF TAREAS
<1>4. CASE h # t /\ ~ExpulsarMarcar /\ ~ExpulsarDespertar
  <2>1. TAREAS' = TAREAS /\ Iguales(t)
    BY <1>1, <1>4, AjenosDe
  <2>. QED
    BY <1>1, <1>2, <1>4, <2>1 DEF Iguales, Huella
<1>5. CASE h # t /\ (ExpulsarMarcar \/ ExpulsarDespertar)
  <2>. DEFINE u == Head(lista["consola"])
              a == IF pausa THEN trip[u].pausado + 1 ELSE trip[u].pausado
  <2>1. pc["consola"] \in {"expulsar", "expulsado"} /\ UNCHANGED usos
    BY <1>5 DEF ExpulsarMarcar, ExpulsarDespertar, Ir, En, ordenVars
  <2>2. Vivo(u)
    BY <2>1 DEF ColasLlenas, ExpulsaVivos
  <2>3. u # t
    BY <2>1, <2>2 DEF SinEncolar, PorEncolar
  <2>4. \/ trip' = [trip EXCEPT ![u].termino = TRUE]
        \/ trip' = [trip EXCEPT ![u].semaforo = trip[u].semaforo + 1, ![u].pausado = a]
    BY <1>5 DEF ExpulsarMarcar, ExpulsarDespertar
  <2>. HIDE DEF u, a
  <2>5. trip'[t] = trip[t]
    BY <2>3, <2>4 DEF Tipos, DeTrip
  <2>. QED
    BY <1>1, <1>2, <1>5, <2>1, <2>5 DEF TAREAS, Huella
<1>. QED
  BY <1>3, <1>4, <1>5

\* Who is in EXIT, and in its queue, stays there.
LEMMA SalidoQueda ==
  ASSUME Tipos, VivosBien, SacaVivos, NEW h \in Hilos, DelHilo(h), NEW t \in Tripulantes, Salido(t)
  PROVE  Salido(t)'
<1>1. CASE CambiarTomar(h)
  <2>1. /\ trip'[t].estado = trip[t].estado /\ cambio'[h].paso = "sacar"
        /\ \A k \in Hilos \ {h} : cambio'[k] = cambio[k]
    BY <1>1, TomarDe, CambiarPasa DEF CambiarEstado
  <2>. QED
    BY <2>1 DEF Salido, Agregando, EnCambio
<1>2. CASE CambiarSacar(h)
  <2>1. /\ \A u \in Tripulantes : trip'[u].estado = IF u = cambio[h].t THEN cambio[h].nuevo ELSE trip[u].estado
        /\ cambio'[h].t = cambio[h].t /\ \A k \in Hilos \ {h} : cambio'[k] = cambio[k]
        /\ EnCambio(h, "sacar")
    BY <1>2, SacandoDe, CambiarPasa DEF CambiarEstado, EnCambio
  <2>2. cambio[h].t # t
    BY <2>1 DEF SacaVivos, Salido
  <2>. QED
    BY <2>1, <2>2 DEF Salido, Agregando, EnCambio
<1>3. CASE CambiarAgregar(h)
  <2>1. /\ trip'[t].estado = trip[t].estado /\ cambio'[h] = NULL
        /\ \A k \in Hilos \ {h} : cambio'[k] = cambio[k]
    BY <1>3, AgregandoDe, CambiarPasa DEF CambiarEstado
  <2>. QED
    BY <2>1 DEF Salido, Agregando, EnCambio
<1>4. CASE CambiarNada(h) \/ SuaveSacar(h) \/ SuaveAgregar(h)
  <2>1. trip' = trip /\ ~Mueve(h)' /\ \A k \in Hilos \ {h} : cambio'[k] = cambio[k]
    BY <1>4, SuaveDe, CambiarPasa DEF CambiarEstado
  <2>. QED
    BY <2>1 DEF Salido, Agregando, Mueve, EnCambio
<1>5. CASE IniciarTripulante
  <2>1. /\ UNCHANGED cambio
        /\ \A u \in Tripulantes : trip'[u].estado = IF u = Head(lista["consola"]) THEN "NEW" ELSE trip[u].estado
        /\ lista["consola"] \in Seq(Tripulantes) /\ lista["consola"] # <<>>
        /\ Head(lista["consola"]) \in Tripulantes /\ pc["consola"] = "iniciar_tripulante"
    BY <1>5, IniciarDe
  <2>2. ~Vivo(Head(lista["consola"]))
    BY <2>1, CabezaDe DEF VivosBien, NuevosBien
  <2>3. t # Head(lista["consola"])
    BY <2>2, NombresAssumption DEF Vivo, Salido, Estados
  <2>. QED
    BY <2>1, <2>3 DEF Salido, Agregando, EnCambio
<1>6. CASE Huella(h)
  <2>1. trip'[t].estado = trip[t].estado /\ ~Mueve(h)' /\ \A k \in Hilos \ {h} : cambio'[k] = cambio[k]
    BY <1>6, HuellaNoMueve DEF Huella
  <2>. QED
    BY <2>1 DEF Salido, Agregando, Mueve, EnCambio
<1>. QED
  BY <1>1, <1>2, <1>3, <1>4, <1>5, <1>6, HuellaDelPaso DEF CambiarEstado

\* The points of the console, and who it has at them.
LEMMA ConsolaPaso ==
  ASSUME Tipos, LlamadasBien, VivosBien, ColasLlenas, NEW h \in Hilos, DelHilo(h), h # "sabotaje"
  PROVE  ExpulsaVivos' /\ EncolaAlPrimero'
<1>0. "consola" \in Hilos
  BY DEF Hilos
<1>1. CASE CambiarEstado(h)
  <2>1. /\ UNCHANGED <<pc, lista>> /\ \A k \in Hilos \ {h} : cambio'[k] = cambio[k]
        /\ cambio'[h] = NULL \/ (cambio[h] # NULL /\ cambio'[h].t = cambio[h].t)
    BY <1>1, ColasPasa, CambiarPasa
  <2>2. pc["consola"] \in {"expulsar", "expulsado"} => Head(lista["consola"]) \in Tripulantes
    <3>1. lista["consola"] \in Seq(Tripulantes)
      BY <1>0 DEF Tipos, DeLista
    <3>2. pc["consola"] \in {"expulsar", "expulsado"} => lista["consola"] # <<>>
      BY DEF Tipos, Puestos, ConLista
    <3>. QED
      BY <3>1, <3>2, HeadTailProperties
  <2>3. ExpulsaVivos'
    BY <1>1, <2>1, <2>2, EstadosPasa, NombresAssumption DEF ColasLlenas, ExpulsaVivos, Vivo
  <2>. QED
    BY <1>0, <2>1, <2>3 DEF ColasLlenas, EncolaAlPrimero
<1>2. CASE IniciarTripulante
  BY <1>2, IniciarDe DEF ExpulsaVivos, EncolaAlPrimero
<1>3. CASE Huella(h) /\ ~IniciarTripulante
  <2>1. \A t \in Tripulantes : Vivo(t)' <=> Vivo(t)
    BY <1>3 DEF Huella, Vivo
  <2>2. CASE h = "consola"
    <3>1. ~CambiarEstado(h)
      BY <1>3, CambiarPasa DEF Huella
    <3>2. /\ pc'[h] = "encolado" => lista' = lista /\ cambio'[h].t = Head(lista[h])
          /\ pc'[h] \in {"expulsar", "expulsado"} =>
               Head(lista'[h]) \in Tripulantes /\ Vivo(Head(lista'[h]))
      BY <1>3, <2>2, <3>1, ConsolaDe DEF ColasLlenas
    <3>. QED
      BY <2>1, <2>2, <3>2 DEF ExpulsaVivos, EncolaAlPrimero
  <2>3. CASE h # "consola"
    <3>1. /\ pc'["consola"] = pc["consola"] /\ cambio'["consola"] = cambio["consola"]
          /\ lista'["consola"] = lista["consola"]
      BY <1>0, <1>3, <2>3, ListasDe DEF Huella
    <3>2. pc["consola"] \in {"expulsar", "expulsado"} => Head(lista["consola"]) \in Tripulantes
      <4>1. lista["consola"] \in Seq(Tripulantes)
        BY <1>0 DEF Tipos, DeLista
      <4>2. pc["consola"] \in {"expulsar", "expulsado"} => lista["consola"] # <<>>
        BY DEF Tipos, Puestos, ConLista
      <4>. QED
        BY <4>1, <4>2, HeadTailProperties
    <3>. QED
      BY <2>1, <3>1, <3>2 DEF ColasLlenas, ExpulsaVivos, EncolaAlPrimero
  <2>. QED
    BY <2>2, <2>3
<1>. QED
  BY <1>1, <1>2, <1>3, HuellaDelPaso

\* Nobody takes a member out of EXIT.
LEMMA SacaVivosPaso ==
  ASSUME Tipos, MovidosBien, VivosBien, ColasLlenas, NEW h \in Hilos, DelHilo(h)
  PROVE  SacaVivos'
<1>0. SacaVivos /\ \A k \in Hilos : cambio[k] # NULL => cambio[k].t \in Tripulantes
  BY ElCambio DEF ColasLlenas, Tipos
<1>1. CASE CambiarTomar(h)
  <2>1. /\ \A u \in Tripulantes : trip'[u].estado = trip[u].estado
        /\ cambio'[h].t = cambio[h].t /\ cambio[h].t \in Tripulantes /\ trip[cambio[h].t].estado # "EXIT"
        /\ \A k \in Hilos \ {h} : cambio'[k] = cambio[k]
    BY <1>1, TomarDe, CambiarPasa DEF CambiarEstado
  <2>. QED
    BY <1>0, <2>1 DEF SacaVivos, EnCambio
<1>2. CASE CambiarSacar(h)
  <2>1. /\ \A u \in Tripulantes : trip'[u].estado = IF u = cambio[h].t THEN cambio[h].nuevo ELSE trip[u].estado
        /\ cambio'[h].paso = "agregar" /\ \A k \in Hilos \ {h} : cambio'[k] = cambio[k]
        /\ EnCambio(h, "sacar")
    BY <1>2, SacandoDe, CambiarPasa DEF CambiarEstado, EnCambio
  <2>2. \A k \in Hilos \ {h} : EnCambio(k, "sacar") => cambio[k].t # cambio[h].t
    BY <2>1, UnoSolo DEF MovidosBien, Mueve
  <2>. QED
    BY <1>0, <2>1, <2>2 DEF SacaVivos, EnCambio
<1>3. CASE CambiarAgregar(h)
  <2>1. /\ \A u \in Tripulantes : trip'[u].estado = trip[u].estado
        /\ cambio'[h] = NULL /\ \A k \in Hilos \ {h} : cambio'[k] = cambio[k]
    BY <1>3, AgregandoDe, CambiarPasa DEF CambiarEstado
  <2>. QED
    BY <1>0, <2>1 DEF SacaVivos, EnCambio
<1>4. CASE CambiarNada(h) \/ SuaveSacar(h) \/ SuaveAgregar(h)
  <2>1. trip' = trip /\ ~Mueve(h)' /\ \A k \in Hilos \ {h} : cambio'[k] = cambio[k]
    BY <1>4, SuaveDe, CambiarPasa DEF CambiarEstado
  <2>. QED
    BY <1>0, <2>1 DEF SacaVivos, Mueve, EnCambio
<1>5. CASE IniciarTripulante
  <2>1. /\ UNCHANGED cambio
        /\ \A u \in Tripulantes : trip'[u].estado = IF u = Head(lista["consola"]) THEN "NEW" ELSE trip[u].estado
    BY <1>5, IniciarDe
  <2>. QED
    BY <1>0, <2>1 DEF SacaVivos, EnCambio
<1>6. CASE Huella(h)
  <2>1. /\ \A u \in Tripulantes : trip'[u].estado = trip[u].estado
        /\ ~Mueve(h)' /\ \A k \in Hilos \ {h} : cambio'[k] = cambio[k]
    BY <1>6, HuellaNoMueve DEF Huella
  <2>. QED
    BY <1>0, <2>1 DEF SacaVivos, Mueve, EnCambio
<1>. QED
  BY <1>1, <1>2, <1>3, <1>4, <1>5, <1>6, HuellaDelPaso DEF CambiarEstado

\* Who finds all of a crew in EXIT finds them out of any call.
LEMMA DestruyePaso ==
  ASSUME Tipos, MovidosBien, VivosBien, ColasLlenas, NEW h \in Hilos, DelHilo(h)
  PROVE  DestruyeSalidos'
<1>0. /\ Tripulantes \subseteq Hilos /\ NULL \notin Hilos /\ SacaVivos
      /\ \A k \in Hilos : lista[k] \in Seq(Tripulantes)
  BY NombresAssumption DEF Hilos, ColasLlenas, Tipos, DeLista
<1>. SUFFICES ASSUME NEW w \in Tripulantes, pc'[w] = "destruir", NEW t \in ToSet(lista'[w]) PROVE Salido(t)'
  BY DEF DestruyeSalidos
<1>1. CASE pc[w] = "destruir" /\ lista'[w] = lista[w]
  <2>1. Salido(t) /\ t \in Tripulantes
    BY <1>0, <1>1, ElementOfSeq DEF ColasLlenas, DestruyeSalidos, ToSet
  <2>. QED
    BY <1>0, <2>1, SalidoQueda
<1>2. CASE EstanTodos(w)
  <2>1. /\ lista'[w] = lista[w]
        /\ \A u \in ToSet(lista[w]) : trip[u].mutex = NULL /\ trip[u].estado = "EXIT"
    BY <1>2 DEF EstanTodos, Avanzar, ordenVars, Libre
  <2>2. t \in Tripulantes
    BY <1>0, <2>1, ElementOfSeq DEF ToSet
  <2>3. Salido(t)
    BY <1>0, <2>1 DEF Salido, Agregando, MovidosBien, MutexBien, Mueve
  <2>. QED
    BY <1>0, <2>2, <2>3, SalidoQueda
<1>3. CASE CambiarEstado(h)
  BY <1>1, <1>3, ColasPasa, CambiarPasa
<1>4. CASE IniciarTripulante
  BY <1>0, <1>1, <1>4, IniciarDe, NombresAssumption
<1>5. CASE Huella(h) /\ h # w
  <2>1. pc'[w] = pc[w] /\ lista'[w] = lista[w]
    BY <1>0, <1>5, ListasDe DEF Huella
  <2>. QED
    BY <1>1, <2>1
<1>6. CASE Huella(h) /\ h = w
  <2>1. Tripulante(w) /\ w \notin Ordenes
    BY <1>6, CambiarPasa, NombresAssumption DEF DelHilo, Huella, Ordenes
  <2>2. EstanTodos(w)
    BY <1>0, <2>1 DEF Tipos, DePc, Tripulante, PasarPausa, EsperarSemaforo, Seguir, Salir, SalirDeReady, TomarContador,
       DejarCpu, PedirIO, TomarDispositivo, HacerTarea, Moverse, Terminar, TerminoListar, FaltaAlguno, DestruirTodos,
       Destruirse, EsperarYSeguir, Avanzar, Ir, En
  <2>. QED
    BY <1>2, <2>2
<1>. QED
  BY <1>3, <1>4, <1>5, <1>6, HuellaDelPaso

\* The members, in a step of a call.
LEMMA EncoladoCambiar ==
  ASSUME Tipos, MovidosBien, VivosBien, SinSabotajes, ColasBien, ColasLlenas, NEW h \in Hilos, CambiarEstado(h),
         h # "sabotaje", NEW t \in Tripulantes
  PROVE  Encolado(t)'
<1>. DEFINE c == cambio[h]
<1>0. /\ \A e \in Estados : colas[e] \in Seq(Tripulantes) /\ DOMAIN colas = Estados /\ ColaBien(e)
      /\ DelHilo(h) /\ SacaVivos /\ Encolado(t) /\ trip[t] \in TTripulante
  BY DEF Tipos, DeColas, ColasBien, EnRegla, DelHilo, ColasLlenas, DeTrip
<1>1. /\ UNCHANGED <<pc, lista>> /\ c # NULL /\ c.t \in Tripulantes /\ c.nuevo \in Estados
      /\ \A k \in Hilos \ {h} : cambio'[k] = cambio[k]
      /\ cambio'[h] = NULL \/ (cambio'[h].t = c.t /\ cambio'[h].nuevo = c.nuevo)
  BY ColasPasa, CambiarPasa, ElCambio DEF Tipos
<1>2. /\ SinEncolar(t)' => SinEncolar(t) /\ ~(CambiarAgregar(h) /\ c.t = t)
      /\ SinEncolar(t) /\ ~(SinEncolar(t)') => CambiarAgregar(h) /\ c.t = t
  BY SinEncolarCambiar DEF MovidosBien
<1>3. trip'[t].sem_destruir = trip[t].sem_destruir
  <2>1. ~(h \in Tripulantes /\ DestruirTodos(h))
    BY <1>1 DEF DestruirTodos, Ir, En
  <2>. QED
    BY <1>0, <2>1, AvisosDe
<1>4. c.paso \in DeEstado
  BY <1>1, NombresAssumption DEF MovidosBien, LlamadasBien, LlamadaBien
<1>5. CambiarNada(h) \/ CambiarTomar(h) \/ CambiarSacar(h) \/ CambiarAgregar(h)
  BY <1>4 DEF CambiarEstado, SuaveSacar, SuaveAgregar, EnCambio, DeEstado
<1>6. \A e \in Estados, u \in Tripulantes :
        /\ Contains(colas'[e], u) => Contains(colas[e], u) \/ (CambiarAgregar(h) /\ u = c.t /\ e = c.nuevo)
        /\ Contains(colas[e], u) => Contains(colas'[e], u) \/ (CambiarSacar(h) /\ u = c.t)
  <2>1. CASE CambiarNada(h) \/ CambiarTomar(h)
    <3>1. colas' = colas
      BY <2>1 DEF CambiarNada, CambiarTomar, colasVars
    <3>. QED
      BY <3>1
  <2>2. CASE CambiarSacar(h)
    <3>1. colas' = [colas EXCEPT ![c.viejo] = RemoveFirst(@, c.t)]
      BY <2>2, SacandoDe
    <3>. HIDE DEF c
    <3>2. ASSUME NEW e \in Estados, NEW u \in Tripulantes
          PROVE  /\ Contains(colas'[e], u) => Contains(colas[e], u)
                 /\ Contains(colas[e], u) => Contains(colas'[e], u) \/ u = c.t
      <4>1. IsInjective(colas[e]) /\ colas[e] \in Seq(Tripulantes)
        BY <1>0 DEF ColaBien
      <4>2. colas'[e] = colas[e] \/ colas'[e] = RemoveFirst(colas[e], c.t)
        BY <1>0, <3>1
      <4>. QED
        BY <4>1, <4>2, SacarDe
    <3>. QED
      BY <2>2, <3>2
  <2>3. CASE CambiarAgregar(h)
    <3>1. colas' = [colas EXCEPT ![c.nuevo] = Append(@, c.t)]
      BY <2>3, AgregandoDe
    <3>. HIDE DEF c
    <3>2. ASSUME NEW e \in Estados, NEW u \in Tripulantes
          PROVE  /\ Contains(colas'[e], u) => Contains(colas[e], u) \/ (u = c.t /\ e = c.nuevo)
                 /\ Contains(colas[e], u) => Contains(colas'[e], u)
      <4>1. colas[e] \in Seq(Tripulantes)
        BY <1>0
      <4>2. \/ e # c.nuevo /\ colas'[e] = colas[e]
            \/ e = c.nuevo /\ colas'[e] = Append(colas[e], c.t)
        BY <1>0, <3>1
      <4>3. \A x : Contains(Append(colas[e], c.t), x) <=> Contains(colas[e], x) \/ x = c.t
        BY <1>1, <4>1, AgregarDe
      <4>. QED
        BY <4>2, <4>3
    <3>. QED
      BY <2>3, <3>2
  <2>. QED
    BY <1>5, <2>1, <2>2, <2>3
<1>7. /\ \A u \in Tripulantes : trip'[u].estado = IF CambiarSacar(h) /\ u = c.t THEN c.nuevo ELSE trip[u].estado
      /\ Agregando(t)' <=> (Agregando(t) /\ ~(CambiarAgregar(h) /\ t = c.t)) \/ (CambiarSacar(h) /\ t = c.t)
  <2>1. CASE CambiarNada(h)
    BY <1>1, <2>1 DEF CambiarNada, CambiarSacar, CambiarAgregar, EnCambio, Agregando
  <2>2. CASE CambiarTomar(h)
    <3>1. /\ cambio'[h].paso = "sacar" /\ c.paso = "tomar"
          /\ \A u \in Tripulantes : trip'[u].estado = trip[u].estado
      BY <2>2, TomarDe
    <3>. QED
      BY <1>1, <3>1 DEF CambiarSacar, CambiarAgregar, EnCambio, Agregando
  <2>3. CASE CambiarSacar(h)
    <3>1. /\ cambio'[h] # NULL /\ cambio'[h].paso = "agregar" /\ c.paso = "sacar" /\ cambio'[h].t = c.t
          /\ \A u \in Tripulantes : trip'[u].estado = IF u = c.t THEN c.nuevo ELSE trip[u].estado
      BY <2>3, SacandoDe
    <3>. QED
      BY <1>1, <2>3, <3>1 DEF CambiarAgregar, EnCambio, Agregando
  <2>4. CASE CambiarAgregar(h)
    <3>1. /\ cambio'[h] = NULL /\ c.paso = "agregar"
          /\ \A u \in Tripulantes : trip'[u].estado = trip[u].estado
      BY <2>4, AgregandoDe
    <3>2. \A k \in Hilos \ {h} : Mueve(k) => cambio[k].t # c.t
      BY <1>1, <3>1, UnoSolo DEF MovidosBien, Mueve, EnCambio
    <3>. QED
      BY <1>1, <2>4, <3>1, <3>2 DEF CambiarSacar, EnCambio, Agregando, Mueve
  <2>. QED
    BY <1>5, <2>1, <2>2, <2>3, <2>4
<1>8. CambiarSacar(h) => /\ trip[c.t].estado # "EXIT" /\ ~Agregando(c.t)
  <2>. SUFFICES ASSUME CambiarSacar(h) PROVE trip[c.t].estado # "EXIT" /\ ~Agregando(c.t)
    OBVIOUS
  <2>1. EnCambio(h, "sacar")
    BY DEF CambiarSacar
  <2>2. \A k \in Hilos : Mueve(k) /\ cambio[k].t = c.t => k = h
    BY <2>1, UnoSolo DEF MovidosBien, Mueve
  <2>. QED
    BY <1>0, <2>1, <2>2 DEF SacaVivos, Agregando, Mueve, EnCambio
<1>9. CambiarAgregar(h) => c.nuevo = trip[c.t].estado /\ Agregando(c.t)
  BY DEF CambiarAgregar, EnCambio, Agregando, ColasBien
<1>10. SinEncolar(t)' => Quieto(t)'
  <2>. SUFFICES ASSUME SinEncolar(t)' PROVE Quieto(t)'
    OBVIOUS
  <2>1. Quieto(t) /\ SinEncolar(t) /\ ~(CambiarAgregar(h) /\ c.t = t)
    BY <1>0, <1>2 DEF Encolado
  <2>2. TAREAS' = TAREAS /\ Iguales(t)
    BY <2>1, PropiosDe
  <2>3. trip'[t].estado \in {NULL, "NEW", "READY"}
    <3>1. CASE CambiarSacar(h) /\ t = c.t
      <4>1. h = "consola" /\ pc[h] = "encolado"
        BY <1>1, <2>1, <3>1 DEF Quieto, SinEncolar, PorEncolar, VivosBien, MovidosBien, LlamadasBien, LlamadaBien
      <4>2. h \notin Tripulantes /\ h # "planificador" /\ h # "sabotaje" /\ LlamadaBien(h)
        BY <4>1, NombresAssumption DEF MovidosBien, LlamadasBien
      <4>3. c.nuevo \in {"NEW", "READY"}
        BY <1>1, <4>1, <4>2 DEF LlamadaBien
      <4>. QED
        BY <1>7, <3>1, <4>3
    <3>. QED
      BY <1>7, <2>1, <3>1 DEF Quieto
  <2>4. \A e \in Estados : ~Contains(colas'[e], t)
    BY <1>6, <2>1 DEF Quieto
  <2>5. \A k \in Hilos : cambio'[k] # NULL /\ cambio'[k].t = t => k = "consola"
    BY <1>1, <2>1 DEF Quieto
  <2>. QED
    BY <1>1, <2>1, <2>2, <2>3, <2>4, <2>5 DEF Quieto, Iguales, Falta
<1>11. trip'[t].sem_destruir > 0 => Salido(t)' /\ ~Contains(colas'["EXIT"], t)
  <2>. SUFFICES ASSUME trip'[t].sem_destruir > 0 PROVE Salido(t)' /\ ~Contains(colas'["EXIT"], t)
    OBVIOUS
  <2>1. Salido(t) /\ ~Contains(colas["EXIT"], t)
    BY <1>0, <1>3 DEF Encolado
  <2>2. Salido(t)'
    BY <1>0, <2>1, SalidoQueda
  <2>3. ~(CambiarAgregar(h) /\ t = c.t)
    BY <1>9, <2>1 DEF Salido
  <2>. QED
    BY <1>6, <2>1, <2>2, <2>3 DEF Estados
<1>12. ~(SinEncolar(t)') /\ ~(Agregando(t)') /\ trip'[t].sem_destruir = 0 => Contains(colas'[trip'[t].estado], t)
  <2>. SUFFICES ASSUME ~(SinEncolar(t)'), ~(Agregando(t)'), trip'[t].sem_destruir = 0
                PROVE  Contains(colas'[trip'[t].estado], t)
    OBVIOUS
  <2>1. ~(CambiarSacar(h) /\ t = c.t) /\ trip'[t].estado = trip[t].estado
    BY <1>7
  <2>2. CASE CambiarAgregar(h) /\ t = c.t
    <3>1. colas' = [colas EXCEPT ![c.nuevo] = Append(@, c.t)] /\ c.nuevo = trip'[t].estado
      BY <1>9, <2>1, <2>2, AgregandoDe
    <3>. HIDE DEF c
    <3>2. colas'[c.nuevo] = Append(colas[c.nuevo], c.t) /\ colas[c.nuevo] \in Seq(Tripulantes)
      BY <1>0, <1>1, <3>1
    <3>. QED
      BY <1>1, <2>2, <3>1, <3>2, AgregarDe
  <2>3. CASE ~(CambiarAgregar(h) /\ t = c.t)
    <3>1. ~SinEncolar(t) /\ ~Agregando(t)
      BY <1>2, <1>7, <2>3
    <3>2. Contains(colas[trip[t].estado], t) /\ trip[t].estado \in Estados
      BY <1>0, <1>3, <3>1 DEF Encolado, SinEncolar, Vivo, TTripulante
    <3>. QED
      BY <1>6, <2>1, <3>2
  <2>. QED
    BY <2>2, <2>3
<1>. QED
  BY <1>10, <1>11, <1>12 DEF Encolado

\* When the console starts one.
LEMMA EncoladoIniciar ==
  ASSUME Tipos, VivosBien, ColasLlenas, IniciarTripulante, NEW t \in Tripulantes
  PROVE  Encolado(t)'
<1>. DEFINE u == Head(lista["consola"])
            k == "consola"
<1>0. /\ k \in Hilos /\ k # "sabotaje" /\ k \notin Tripulantes /\ NULL \notin Estados /\ Tripulantes \subseteq Hilos
      /\ DelHilo(k) /\ SacaVivos /\ Encolado(t)
  BY NombresAssumption DEF Hilos, DelHilo, Consola, ColasLlenas
<1>1. /\ u \in Tripulantes /\ pc[k] = "iniciar_tripulante" /\ pc'[k] = "encolar" /\ pc'[u] = "pausado"
      /\ cambio[k] = NULL /\ \A j \in Hilos \ {k, u} : pc'[j] = pc[j]
      /\ UNCHANGED <<colas, cambio, lista, usos>>
      /\ \A v \in Tripulantes : trip'[v].estado = IF v = u THEN "NEW" ELSE trip[v].estado
      /\ lista[k] \in Seq(Tripulantes) /\ lista[k] # <<>>
  BY IniciarDe
<1>2. ~Vivo(u)
  BY <1>1, CabezaDe DEF VivosBien, NuevosBien
<1>3. ~CambiarEstado(k) /\ ~ExpulsarMarcar /\ ~ExpulsarDespertar
  BY <1>0, <1>1, CambiarPasa DEF ExpulsarMarcar, ExpulsarDespertar, Ir, En
<1>4. TAREAS' = TAREAS /\ Iguales(t)
  BY <1>0, <1>3, AjenosDe
<1>5. trip'[t].sem_destruir = trip[t].sem_destruir
  BY <1>0, AvisosDe
<1>6. Agregando(t)' <=> Agregando(t)
  BY <1>1 DEF Agregando, EnCambio
<1>. HIDE DEF u
<1>7. CASE t = u
  <2>1. SinEncolar(t) /\ Quieto(t) /\ SinEncolar(t)'
    BY <1>0, <1>1, <1>2, <1>7 DEF SinEncolar, PorEncolar, Encolado, u
  <2>2. Quieto(t)'
    BY <1>0, <1>1, <1>4, <1>7, <2>1 DEF Quieto, Iguales, Falta
  <2>3. trip'[t].sem_destruir > 0 => FALSE
    BY <1>0, <1>2, <1>5, <1>7, <2>1 DEF Encolado, Salido, Vivo, Quieto, Estados
  <2>. QED
    BY <2>1, <2>2, <2>3 DEF Encolado
<1>8. CASE t # u
  <2>1. trip'[t].estado = trip[t].estado /\ pc'[t] = pc[t]
    BY <1>0, <1>1, <1>8
  <2>2. SinEncolar(t)' <=> SinEncolar(t)
    BY <1>1, <1>8, <2>1 DEF SinEncolar, PorEncolar, Vivo, u
  <2>3. Quieto(t)' <=> Quieto(t)
    BY <1>1, <1>4, <2>1 DEF Quieto, Iguales, Falta
  <2>. QED
    BY <1>0, <1>1, <1>5, <1>6, <2>1, <2>2, <2>3 DEF Encolado, Salido
<1>. QED
  BY <1>7, <1>8

\* And out of a call.
LEMMA EncoladoHuella ==
  ASSUME Tipos, MovidosBien, VivosBien, SinSabotajes, ColasBien, ColasLlenas, NEW h \in Hilos, DelHilo(h), Huella(h),
         h # "sabotaje", ~IniciarTripulante, NEW t \in Tripulantes
  PROVE  Encolado(t)'
<1>. DEFINE D == h \in Tripulantes /\ DestruirTodos(h) /\ t \in ToSet(lista[h])
<1>0. /\ \A e \in Estados : colas[e] \in Seq(Tripulantes) /\ DOMAIN colas = Estados
      /\ SacaVivos /\ Encolado(t) /\ trip[t] \in TTripulante /\ DOMAIN trip = Tripulantes
      /\ cambio[h] = NULL /\ \A k \in Hilos \ {h} : cambio'[k] = cambio[k]
      /\ trip'[t].estado = trip[t].estado /\ "EXIT" \in Estados
  BY DEF Tipos, DeColas, ColasLlenas, DeTrip, Huella, Estados
<1>1. SinEncolar(t)' <=> SinEncolar(t)
  BY SinEncolarHuella DEF MovidosBien
<1>2. Agregando(t)' <=> Agregando(t)
  BY <1>0, HuellaNoMueve DEF Agregando, Mueve, EnCambio
<1>3. trip'[t].sem_destruir = IF D THEN trip[t].sem_destruir + 1 ELSE trip[t].sem_destruir
  <2>1. CASE h \in Tripulantes /\ DestruirTodos(h)
    <3>1. trip' = [v \in Tripulantes |->
                     IF v \in ToSet(lista[h]) THEN [trip[v] EXCEPT !.sem_destruir = @ + 1] ELSE trip[v]]
      BY <2>1 DEF DestruirTodos, Avisados
    <3>. QED
      BY <1>0, <2>1, <3>1 DEF TTripulante
  <2>2. CASE ~(h \in Tripulantes /\ DestruirTodos(h))
    BY <2>2, AvisosDe
  <2>. QED
    BY <2>1, <2>2
<1>4. D => Salido(t)
  <2>. SUFFICES ASSUME D PROVE Salido(t)
    OBVIOUS
  <2>1. pc[h] = "destruir"
    BY DEF DestruirTodos, Ir, En
  <2>. QED
    BY <2>1 DEF ColasLlenas, DestruyeSalidos
<1>5. ASSUME NEW e \in Estados
      PROVE  /\ Contains(colas'[e], t) => Contains(colas[e], t) /\ ~(D /\ e = "EXIT")
             /\ Contains(colas[e], t) => Contains(colas'[e], t) \/ D
  <2>1. CASE h \in Tripulantes /\ DestruirTodos(h)
    <3>. DEFINE T == Tripulantes \ ToSet(lista[h])
    <3>1. colas' = [colas EXCEPT !["EXIT"] = Los(@, T)]
      BY <2>1 DEF DestruirTodos
    <3>. HIDE DEF T
    <3>2. \/ e # "EXIT" /\ colas'[e] = colas[e]
          \/ e = "EXIT" /\ colas'[e] = Los(colas[e], T)
      BY <1>0, <3>1
    <3>3. colas[e] \in Seq(Tripulantes)
      BY <1>0
    <3>4. Contains(Los(colas[e], T), t) <=> Contains(colas[e], t) /\ t \in T
      BY <3>3, LosDe
    <3>5. t \in T <=> ~D
      BY <2>1 DEF T
    <3>. HIDE DEF D
    <3>. QED
      BY <3>2, <3>4, <3>5
  <2>2. CASE ~(h \in Tripulantes /\ DestruirTodos(h))
    BY <2>2 DEF Huella
  <2>. QED
    BY <2>1, <2>2
<1>. HIDE DEF D
<1>6. SinEncolar(t)' => Quieto(t)'
  <2>. SUFFICES ASSUME SinEncolar(t)' PROVE Quieto(t)'
    OBVIOUS
  <2>1. Quieto(t) /\ SinEncolar(t)
    BY <1>0, <1>1 DEF Encolado
  <2>2. /\ TAREAS' = TAREAS /\ trip'[t].semaforo = trip[t].semaforo /\ trip'[t].tarea = trip[t].tarea
        /\ pc'[t] \in {"sin_crear", "pausado", "semaforo"}
        /\ h = t => cambio' = cambio
    BY <2>1, QuietoDe DEF MovidosBien
  <2>3. \A e \in Estados : ~Contains(colas'[e], t)
    BY <1>5, <2>1 DEF Quieto
  <2>4. cambio'[h] # NULL /\ cambio'[h].t = t => h = "consola"
    <3>. SUFFICES ASSUME cambio'[h] # NULL, cambio'[h].t = t, h # "consola" PROVE FALSE
      OBVIOUS
    <3>1. Llamada(h)
      BY DEF Huella
    <3>2. ~Contains(colas["READY"], t) /\ h # t
      BY <1>0, <2>1, <2>2 DEF Quieto, Estados
    <3>. QED
      BY <3>1, <3>2 DEF Llamada, Ordenes
  <2>5. \A k \in Hilos : cambio'[k] # NULL /\ cambio'[k].t = t => k = "consola"
    BY <1>0, <2>1, <2>4 DEF Quieto
  <2>. QED
    BY <1>0, <2>1, <2>2, <2>3, <2>5 DEF Quieto, Falta
<1>7. trip'[t].sem_destruir > 0 => Salido(t)' /\ ~Contains(colas'["EXIT"], t)
  <2>. SUFFICES ASSUME trip'[t].sem_destruir > 0 PROVE Salido(t)' /\ ~Contains(colas'["EXIT"], t)
    OBVIOUS
  <2>1. Salido(t)
    BY <1>0, <1>3, <1>4 DEF Encolado
  <2>2. Salido(t)'
    BY <1>0, <2>1, SalidoQueda
  <2>3. D \/ ~Contains(colas["EXIT"], t)
    BY <1>0, <1>3 DEF Encolado
  <2>. QED
    BY <1>0, <1>5, <2>2, <2>3
<1>8. ~(SinEncolar(t)') /\ ~(Agregando(t)') /\ trip'[t].sem_destruir = 0 => Contains(colas'[trip'[t].estado], t)
  <2>. SUFFICES ASSUME ~(SinEncolar(t)'), ~(Agregando(t)'), trip'[t].sem_destruir = 0
                PROVE  Contains(colas'[trip'[t].estado], t)
    OBVIOUS
  <2>1. ~D /\ trip[t].sem_destruir = 0
    BY <1>0, <1>3 DEF TTripulante
  <2>2. Contains(colas[trip[t].estado], t) /\ trip[t].estado \in Estados
    BY <1>0, <1>1, <1>2, <2>1 DEF Encolado, SinEncolar, Vivo, TTripulante
  <2>. QED
    BY <1>0, <1>5, <2>1, <2>2
<1>. QED
  BY <1>6, <1>7, <1>8 DEF Encolado

\* A step of any thread, by its kinds: changes of state, the birth of a member, and
\* the rest.
LEMMA ColasLlenasPaso ==
  ASSUME Tipos, MovidosBien, VivosBien, SinSuaves, SinSabotajes, ColasBien, ColasLlenas, NEW h \in Hilos, DelHilo(h),
         SinSabotajes'
  PROVE  ColasLlenas'
<1>1. h # "sabotaje"
  BY NoSabotea
<1>2. ExpulsaVivos' /\ EncolaAlPrimero'
  BY <1>1, ConsolaPaso DEF MovidosBien
<1>3. SacaVivos' /\ DestruyeSalidos'
  BY SacaVivosPaso, DestruyePaso
<1>4. ASSUME NEW t \in Tripulantes PROVE Encolado(t)'
  <2>1. CASE CambiarEstado(h)
    BY <1>1, <2>1, EncoladoCambiar
  <2>2. CASE IniciarTripulante
    BY <2>2, EncoladoIniciar
  <2>3. CASE Huella(h) /\ ~IniciarTripulante
    BY <1>1, <2>3, EncoladoHuella
  <2>. QED
    BY <2>1, <2>2, <2>3, HuellaDelPaso
<1>. QED
  BY <1>2, <1>3, <1>4 DEF ColasLlenas

\* Without sabotages nobody is lost from the queues.
LEMMA ColasLlenasSiempre == Spec => [](SinSabotajes => ColasLlenas)
<1>1. Init => ColasLlenas
  <2>. SUFFICES ASSUME Init PROVE ColasLlenas
    OBVIOUS
  <2>1. /\ \A h \in Hilos : cambio[h] = NULL
        /\ pc["consola"] = "esperar" /\ "consola" \in Hilos /\ Tripulantes \subseteq Hilos
        /\ \A t \in Tripulantes : pc[t] = "sin_crear"
    BY NombresAssumption DEF Init, Hilos, Ordenes
  <2>2. \A t \in Tripulantes : /\ trip[t].estado = NULL /\ trip[t].semaforo = 0 /\ trip[t].sem_destruir = 0
                               /\ trip[t].tarea = 1
    BY DEF Init, SinCrear
  <2>3. \A e \in Estados : \A t : ~Contains(colas[e], t)
    BY DEF Init, Contains
  <2>4. 1 <= Len(TAREAS)
    <3>1. usos.escenario \in Escenarios
      BY DEF Init
    <3>2. TAREAS \in Seq([x : Int, tiempo : Nat \ {0}, io : BOOLEAN]) /\ TAREAS # <<>>
      BY <3>1, DiscordiadorAssumption DEF TAREAS
    <3>. QED
      BY <3>2, EmptySeq, LenProperties
  <2>5. ASSUME NEW t \in Tripulantes PROVE Quieto(t) /\ SinEncolar(t)
    <3>1. Falta(t)
      BY <2>2, <2>4 DEF Falta
    <3>. QED
      BY <2>1, <2>2, <2>3, <3>1 DEF Quieto, SinEncolar, Vivo
  <2>. QED
    BY <2>1, <2>2, <2>5 DEF ColasLlenas, ExpulsaVivos, EncolaAlPrimero, SacaVivos, EnCambio, DestruyeSalidos, Encolado
<1>2. Tipos /\ MovidosBien /\ VivosBien /\ SinSuaves /\ ColasBien /\ (SinSabotajes => ColasLlenas) /\ [Next]_vars
        => (SinSabotajes => ColasLlenas)'
  <2>. SUFFICES ASSUME Tipos, MovidosBien, VivosBien, SinSuaves, ColasBien, SinSabotajes => ColasLlenas, [Next]_vars,
                       SinSabotajes'
                PROVE  ColasLlenas'
    OBVIOUS
  <2>1. CASE UNCHANGED vars
    <3>1. UNCHANGED <<colas, trip, pc, cambio, lista, usos>> /\ SinSabotajes
      BY <2>1 DEF vars, colasVars, ordenVars, SinSabotajes
    <3>. QED
      BY <3>1 DEF ColasLlenas, ExpulsaVivos, EncolaAlPrimero, SacaVivos, DestruyeSalidos, Encolado, SinEncolar, Quieto,
         Salido, Agregando, PorEncolar, Vivo, Falta, TAREAS, EnCambio
  <2>2. CASE \E h \in Hilos : DelHilo(h)
    <3>1. SinSabotajes
      BY <2>2, UsosDe
    <3>. QED
      BY <2>2, <3>1, ColasLlenasPaso
  <2>. QED
    BY <2>1, <2>2 DEF Next, Reposo
<1>. QED
  BY <1>1, <1>2, TiposSiempre, MovidosSiempre, VivosSiempre, ColasSiempre, PTL DEF Spec

\* Until the first sabotage, from when the console has put it in a queue, a
\* member that no thread is moving is in the queue of its state, once, and in no
\* other, and in none once its crew is told to destroy itself: with pauses,
\* expulsions and new crews, and whoever of the planner, the orders and its own
\* thread moves it, none is lost between two queues.
THEOREM EnSuColaSiempre == Spec => []EnSuCola
<1>1. ASSUME Tipos, ColasBien, SinSabotajes => ColasLlenas PROVE EnSuCola
  <2>. SUFFICES ASSUME SinSabotajes, NEW t \in Tripulantes, trip[t].estado # NULL, ~PorEncolar(t), ~Cambiando(t)
                PROVE  IF trip[t].sem_destruir = 0 THEN UnaSolaCola(t) ELSE ~EnAlguna(t)
    BY DEF EnSuCola
  <2>1. \A e \in Estados : ColaBien(e) /\ colas[e] \in Seq(Tripulantes)
    BY <1>1 DEF ColasBien, EnRegla, Tipos, DeColas
  <2>2. ~SinEncolar(t) /\ ~Agregando(t) /\ Encolado(t) /\ trip[t].sem_destruir \in Nat
    BY <1>1 DEF SinEncolar, Vivo, Agregando, Cambiando, EnCambio, ColasLlenas, Tipos, DeTrip, TTripulante
  <2>3. CASE trip[t].sem_destruir = 0
    <3>. SUFFICES ASSUME NEW e \in Estados
                  PROVE  Cardinality({i \in DOMAIN colas[e] : colas[e][i] = t}) = IF trip[t].estado = e THEN 1 ELSE 0
      BY <2>3 DEF UnaSolaCola
    <3>. DEFINE I == {i \in DOMAIN colas[e] : colas[e][i] = t}
    <3>1. Contains(colas[e], t) <=> I # {}
      BY <2>1, LenProperties DEF Contains
    <3>2. Contains(colas[e], t) <=> trip[t].estado = e
      BY <2>1, <2>2, <2>3 DEF Encolado, ColaBien
    <3>3. ASSUME NEW i \in I PROVE I = {i}
      BY <2>1, <3>3 DEF ColaBien, IsInjective
    <3>. HIDE DEF I
    <3>4. I = {} \/ \E i : I = {i}
      BY <3>3
    <3>5. Cardinality(I) = IF I = {} THEN 0 ELSE 1
      BY <3>4, FS_EmptySet, FS_Singleton
    <3>. QED
      BY <3>1, <3>2, <3>5 DEF I
  <2>4. CASE trip[t].sem_destruir # 0
    <3>1. trip[t].estado = "EXIT" /\ ~Contains(colas["EXIT"], t)
      BY <2>2, <2>4 DEF Encolado, Salido
    <3>2. ~EnAlguna(t)
      BY <2>1, <3>1 DEF EnAlguna, EnCola, ColaBien
    <3>. QED
      BY <2>4, <3>2
  <2>. QED
    BY <2>3, <2>4
<1>. QED
  BY <1>1, TiposSiempre, ColasSiempre, ColasLlenasSiempre, PTL

===============================================================================
