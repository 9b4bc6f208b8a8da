-------------------------- MODULE CicloDeVidaProofs --------------------------
(***************************************************************************)
(* Proofs about the life cycle, for any set of processes and any degree.   *)
(***************************************************************************)
EXTENDS CicloDeVida, FiniteSetTheorems, TLAPS

\* A step moves one process along one arrow of the diagram.
LEMMA UnPaso ==
  ASSUME TypeOK, NEW p \in Procesos, NEW a \in EstadosDelCiclo,
         NEW b \in EstadosDelCiclo, Pasar(p, a, b)
  PROVE  /\ TypeOK'
         /\ estado[p] = a /\ estado'[p] = b
         /\ \A q \in Procesos \ {p} : estado'[q] = estado[q]
BY DEF TypeOK, Pasar

\* A step keeps the types, and one process in the CPU.
LEMMA PasoTipos ==
  ASSUME TypeOK, UnoEnCpu, [Next]_estado
  PROVE  TypeOK' /\ UnoEnCpu'
<1>1. CASE UNCHANGED estado
  BY <1>1 DEF TypeOK, UnoEnCpu, Los
<1>2. CASE Next
  <2>1. PICK p \in Procesos :
          \/ Llegar(p) \/ Admitir(p) \/ Despachar(p) \/ Desalojar(p)
          \/ Bloquear(p) \/ Suspender(p) \/ Despertar(p) \/ Terminar(p)
    BY <1>2 DEF Next
  <2>2. CASE Despachar(p)
    BY <2>2, UnPaso DEF Despachar, EstadosDelCiclo, UnoEnCpu, Los
  <2>3. ASSUME NEW a \in EstadosDelCiclo, NEW b \in EstadosDelCiclo \ {"EXEC"},
               Pasar(p, a, b)
        PROVE  TypeOK' /\ UnoEnCpu'
    BY <2>3, UnPaso DEF UnoEnCpu, Los
  <2>4. CASE Llegar(p) \/ Admitir(p) \/ Desalojar(p) \/ Bloquear(p)
    BY <2>3, <2>4 DEF Llegar, Admitir, Desalojar, Bloquear, EstadosDelCiclo
  <2>5. CASE Suspender(p) \/ Despertar(p) \/ Terminar(p)
    BY <2>3, <2>5 DEF Suspender, Despertar, Terminar, EstadosDelCiclo
  <2>. QED
    BY <2>1, <2>2, <2>4, <2>5
<1>. QED
  BY <1>1, <1>2

\* Only an admission adds to the processes in memory, and it adds one.
LEMMA PasoGrado ==
  ASSUME IsFiniteSet(Procesos), GRADO \in Nat, TypeOK, GradoRespetado, [Next]_estado
  PROVE  GradoRespetado'
<1>1. IsFiniteSet(EnMemoria) /\ IsFiniteSet(EnMemoria') /\ Cardinality(EnMemoria) \in Nat
  BY FS_Subset, FS_CardinalityType DEF EnMemoria
<1>2. ASSUME EnMemoria' \subseteq EnMemoria PROVE GradoRespetado'
  BY <1>1, <1>2, FS_Subset, FS_CardinalityType DEF GradoRespetado
<1>3. CASE UNCHANGED estado
  BY <1>2, <1>3 DEF EnMemoria
<1>4. CASE Next
  <2>1. PICK p \in Procesos :
          \/ Llegar(p) \/ Admitir(p) \/ Despachar(p) \/ Desalojar(p)
          \/ Bloquear(p) \/ Suspender(p) \/ Despertar(p) \/ Terminar(p)
    BY <1>4 DEF Next
  <2>2. CASE Admitir(p)
    <3>1. EnMemoria' \subseteq EnMemoria \cup {p} /\ Cardinality(EnMemoria) < GRADO
      BY <2>2, UnPaso DEF Admitir, EstadosDelCiclo, EnMemoria
    <3>2. /\ IsFiniteSet(EnMemoria \cup {p})
          /\ Cardinality(EnMemoria \cup {p}) <= Cardinality(EnMemoria) + 1
      <4>. DEFINE M == EnMemoria
      <4>1. IsFiniteSet(M) /\ Cardinality(M) \in Nat
        BY <1>1
      <4>. HIDE DEF M
      <4>2. /\ IsFiniteSet(M \cup {p})
            /\ Cardinality(M \cup {p}) \in {Cardinality(M), Cardinality(M) + 1}
        BY <4>1, FS_AddElement
      <4>3. Cardinality(M \cup {p}) <= Cardinality(M) + 1
        BY <4>1, <4>2
      <4>. QED
        BY <4>2, <4>3 DEF M
    <3>3. /\ Cardinality(EnMemoria') \in Nat
          /\ Cardinality(EnMemoria') <= Cardinality(EnMemoria \cup {p})
          /\ Cardinality(EnMemoria \cup {p}) \in Nat
      BY <3>1, <3>2, FS_Subset, FS_CardinalityType
    <3>. QED
      BY <1>1, <3>1, <3>2, <3>3 DEF GradoRespetado
  <2>3. ASSUME NEW a \in EstadosDelCiclo, NEW b \in EstadosDelCiclo, Pasar(p, a, b),
               b \in {"READY", "EXEC", "BLOCKED", "EXIT"}
                 => a \in {"READY", "EXEC", "BLOCKED", "EXIT"}
        PROVE  GradoRespetado'
    <3>1. EnMemoria' \subseteq EnMemoria
      BY <2>3, UnPaso DEF EnMemoria
    <3>. QED
      BY <1>2, <3>1
  <2>4. CASE Llegar(p) \/ Despachar(p) \/ Desalojar(p) \/ Bloquear(p)
    BY <2>3, <2>4 DEF Llegar, Despachar, Desalojar, Bloquear, EstadosDelCiclo
  <2>5. CASE Suspender(p) \/ Despertar(p) \/ Terminar(p)
    BY <2>3, <2>5 DEF Suspender, Despertar, Terminar, EstadosDelCiclo
  <2>. QED
    BY <2>1, <2>2, <2>4, <2>5
<1>. QED
  BY <1>3, <1>4

\* The life cycle keeps one process in the CPU.
THEOREM CicloUnoEnCpu == Spec => [](TypeOK /\ UnoEnCpu)
<1>1. Init => TypeOK /\ UnoEnCpu
  BY DEF Init, TypeOK, UnoEnCpu, Los, EstadosDelCiclo
<1>2. TypeOK /\ UnoEnCpu /\ [Next]_estado => TypeOK' /\ UnoEnCpu'
  BY PasoTipos
<1>. QED
  BY <1>1, <1>2, PTL DEF Spec

\* The life cycle never has more processes in memory than the degree of
\* multiprogramming.
THEOREM CicloGrado ==
  ASSUME IsFiniteSet(Procesos), GRADO \in Nat
  PROVE  Spec => []GradoRespetado
<1>1. Init => GradoRespetado
  <2>1. Init => EnMemoria = {}
    BY DEF Init, EnMemoria
  <2>2. Cardinality({}) = 0
    BY FS_EmptySet
  <2>. QED
    BY <2>1, <2>2 DEF GradoRespetado
<1>2. TypeOK /\ GradoRespetado /\ [Next]_estado => GradoRespetado'
  BY PasoGrado
<1>3. Spec => []TypeOK
  BY CicloUnoEnCpu, PTL
<1>. QED
  BY <1>1, <1>2, <1>3, PTL DEF Spec

=============================================================================
