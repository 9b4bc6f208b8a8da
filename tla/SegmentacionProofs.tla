-------------------------- MODULE SegmentacionProofs --------------------------
(*****************************************************************************)
(* Proofs about what Segmentacion does to the memory, for any crews, sizes   *)
(* and criterion: sums and folds over the segments, what each function does  *)
(* to the segments and the holes, that every cell is in one of them, and that *)
(* each segment of a member is found by its tid, wherever it is moved.       *)
(*****************************************************************************)
EXTENDS Segmentacion, Lemas

-----------------------------------------------------------------------------
\* Sums of sizes.

Uno(s) == CHOOSE x \in s : TRUE
\* What Suma is.
LEMMA SumaEs ==
  ASSUME NEW S, IsFiniteSet(S), \A x \in S : x.tamanio \in Nat
  PROVE  \E g \in [SUBSET S -> Nat] :
           /\ Suma(S) = g[S]
           /\ \A s \in SUBSET S : g[s] = IF s = {} THEN 0 ELSE Uno(s).tamanio + g[s \ {Uno(s)}]
<1>. DEFINE c == [s \in SUBSET S |-> Uno(s)]
            F == [z \in S \X Nat |-> z[1].tamanio + z[2]]
            iter == CHOOSE h : h = [s \in SUBSET S |-> IF s = {} THEN 0 ELSE Uno(s).tamanio + h[s \ {Uno(s)}]]
            V == Nat
            b == 0
<1>1. Elige(c, S)
  BY DEF Uno, Elige
<1>3. PICK g \in [SUBSET S -> V] : Recorre(g, S, b, c, F)
  <2>1. b \in V /\ Cerrada(F, S, V)
    BY DEF Cerrada
  <2>. HIDE DEF c, F, V, b
  <2>. QED
    BY <1>1, <2>1, Recurrencia
<1>4. \A s \in SUBSET S : g[s] = IF s = {} THEN 0 ELSE Uno(s).tamanio + g[s \ {Uno(s)}]
  <2>1. \A s \in SUBSET S : s # {} => c[s] \in S /\ s \ {c[s]} \in SUBSET S
    BY <1>1 DEF Elige
  <2>. QED
    BY <1>3, <2>1 DEF Recorre
<1>5. g = [s \in SUBSET S |-> IF s = {} THEN 0 ELSE Uno(s).tamanio + g[s \ {Uno(s)}]]
  BY <1>4
<1>6. iter = [s \in SUBSET S |-> IF s = {} THEN 0 ELSE Uno(s).tamanio + iter[s \ {Uno(s)}]]
  BY <1>5
<1>7. Suma(S) = iter[S]
  BY DEF Suma, MapThenSumSet, MapThenFoldSet, Uno
<1>. HIDE DEF iter
<1>8. \A s \in SUBSET S : iter[s] = IF s = {} THEN 0 ELSE Uno(s).tamanio + iter[s \ {Uno(s)}]
  BY <1>6, Zenon
<1>9. \A s \in SUBSET S : iter[s] \in Nat
  <2>. DEFINE Q == {s \in SUBSET S : iter[s] \in Nat}
  <2>1. {} \in Q
    <3>1. iter[{}] = 0
      BY <1>8
    <3>. QED
      BY <3>1
  <2>2. ASSUME NEW s \in SUBSET S, s # {}, s \ {c[s]} \in Q PROVE s \in Q
    <3>1. iter[s] = Uno(s).tamanio + iter[s \ {Uno(s)}]
      BY <1>8, <2>2
    <3>2. Uno(s) \in S
      BY <1>1, <2>2 DEF Elige
    <3>3. iter[s \ {Uno(s)}] \in Nat
      BY <2>2
    <3>. QED
      BY <3>1, <3>2, <3>3
  <2>. HIDE DEF Q, c
  <2>3. \A s \in SUBSET S : s \in Q
    BY <2>1, <2>2, <1>1, InduccionPartes
  <2>. QED
    BY <2>3 DEF Q
<1>10. iter \in [SUBSET S -> Nat]
  BY <1>6, <1>9
<1>. QED
  BY <1>7, <1>8, <1>10

\* The two ways of going through a part of a set and through the set give the
\* same sums: a sum is that of the element chosen first and the sum of the rest.
LEMMA SumaPaso ==
  ASSUME NEW S, IsFiniteSet(S), \A x \in S : x.tamanio \in Nat
  PROVE  /\ Suma(S) \in Nat
         /\ S = {} => Suma(S) = 0
         /\ S # {} => Uno(S) \in S /\ Suma(S) = Uno(S).tamanio + Suma(S \ {Uno(S)})
<1>1. PICK g \in [SUBSET S -> Nat] :
           /\ Suma(S) = g[S]
           /\ \A s \in SUBSET S : g[s] = IF s = {} THEN 0 ELSE Uno(s).tamanio + g[s \ {Uno(s)}]
  BY SumaEs
<1>2. Suma(S) \in Nat /\ (S = {} => Suma(S) = 0)
  BY <1>1
<1>3. ASSUME S # {}
      PROVE  Uno(S) \in S /\ Suma(S) = Uno(S).tamanio + Suma(S \ {Uno(S)})
  <2>. DEFINE R == S \ {Uno(S)}
              c == [s \in SUBSET S |-> Uno(s)]
  <2>1. Uno(S) \in S
    BY <1>3 DEF Uno
  <2>2. IsFiniteSet(R) /\ \A x \in R : x.tamanio \in Nat
    BY FS_Subset
  <2>3. PICK h \in [SUBSET R -> Nat] :
           /\ Suma(R) = h[R]
           /\ \A s \in SUBSET R : h[s] = IF s = {} THEN 0 ELSE Uno(s).tamanio + h[s \ {Uno(s)}]
    BY <2>2, SumaEs
  <2>. DEFINE Q == {s \in SUBSET S : s \subseteq R => h[s] = g[s]}
  <2>4. {} \in Q
    BY <1>1, <2>3
  <2>5. Elige(c, S)
    BY DEF Elige, Uno
  <2>6. ASSUME NEW s \in SUBSET S, s # {}, s \ {c[s]} \in Q PROVE s \in Q
    <3>1. SUFFICES ASSUME s \subseteq R PROVE h[s] = g[s]
      OBVIOUS
    <3>2. h[s \ {Uno(s)}] = g[s \ {Uno(s)}]
      BY <2>6, <3>1
    <3>. QED
      BY <1>1, <2>3, <2>6, <3>1, <3>2
  <2>7. \A s \in SUBSET S : s \in Q
    <3>. HIDE DEF Q, c
    <3>. QED
      BY <2>4, <2>5, <2>6, InduccionPartes
  <2>8. h[R] = g[R]
    BY <2>7
  <2>. QED
    BY <1>1, <1>3, <2>1, <2>3, <2>8
<1>. QED
  BY <1>2, <1>3

\* The sum of a set is that of any of its elements and of the rest.
LEMMA SumaDe ==
  ASSUME NEW S, IsFiniteSet(S), \A x \in S : x.tamanio \in Nat
  PROVE  /\ Suma(S) \in Nat
         /\ S = {} => Suma(S) = 0
         /\ \A x \in S : Suma(S) = x.tamanio + Suma(S \ {x})
<1>. DEFINE P == {n \in Nat : \A s \in SUBSET S : Cardinality(s) = n =>
                     \A x \in s : Suma(s) = x.tamanio + Suma(s \ {x})}
<1>1. \A s \in SUBSET S : IsFiniteSet(s) /\ Cardinality(s) \in Nat /\ (Cardinality(s) = 0 <=> s = {})
  BY FS_Subset, FS_CardinalityType, FS_EmptySet
<1>2. 0 \in P
  BY <1>1
<1>3. ASSUME NEW n \in Nat, n \in P PROVE n + 1 \in P
  <2>1. SUFFICES ASSUME NEW s \in SUBSET S, Cardinality(s) = n + 1, NEW x \in s
                 PROVE  Suma(s) = x.tamanio + Suma(s \ {x})
    OBVIOUS
  <2>. DEFINE u == Uno(s)
  <2>2. u \in s /\ Suma(s) = u.tamanio + Suma(s \ {u})
    BY <1>1, <2>1, SumaPaso
  <2>3. CASE u = x
    BY <2>2, <2>3
  <2>4. CASE u # x
    <3>1. Cardinality(s \ {u}) = n /\ Cardinality(s \ {x}) = n
      <4>1. Cardinality(s \ {u}) = Cardinality(s) - 1 /\ Cardinality(s \ {x}) = Cardinality(s) - 1
        BY <1>1, <2>2, FS_RemoveElement
      <4>. QED
        BY <2>1, <4>1
    <3>2. s \ {u} \in SUBSET S /\ s \ {x} \in SUBSET S /\ x \in s \ {u} /\ u \in s \ {x}
      BY <2>2, <2>4
    <3>3. Suma(s \ {u}) = x.tamanio + Suma((s \ {u}) \ {x})
      BY <1>3, <3>1, <3>2
    <3>4. Suma(s \ {x}) = u.tamanio + Suma((s \ {x}) \ {u})
      BY <1>3, <3>1, <3>2
    <3>5. (s \ {u}) \ {x} = (s \ {x}) \ {u}
      OBVIOUS
    <3>6. Suma((s \ {x}) \ {u}) \in Nat
      <4>1. IsFiniteSet((s \ {x}) \ {u}) /\ \A y \in (s \ {x}) \ {u} : y.tamanio \in Nat
        BY FS_Subset
      <4>. QED
        BY <4>1, SumaPaso
    <3>7. u.tamanio \in Nat /\ x.tamanio \in Nat
      BY <2>2
    <3>8. Suma((s \ {u}) \ {x}) = Suma((s \ {x}) \ {u})
      BY <3>5
    <3>9. \A i, j, k \in Nat : i + (j + k) = j + (i + k)
      OBVIOUS
    <3>. HIDE DEF u
    <3>10. Suma(s) = u.tamanio + (x.tamanio + Suma((s \ {x}) \ {u}))
      BY <2>2, <3>3, <3>8
    <3>. QED
      BY <3>4, <3>6, <3>7, <3>9, <3>10
  <2>. QED
    BY <2>3, <2>4
<1>4. \A n \in Nat : n \in P
  <2>. HIDE DEF P
  <2>. QED
    BY <1>2, <1>3, Induccion
<1>. QED
  BY <1>1, <1>4, SumaPaso

\* A part has no more than the whole.
LEMMA SumaParte ==
  ASSUME NEW S, IsFiniteSet(S), \A x \in S : x.tamanio \in Nat, NEW D \in SUBSET S
  PROVE  Suma(D) <= Suma(S)
<1>. DEFINE c == [s \in SUBSET S |-> Uno(s)]
            Q == {s \in SUBSET S : \A d \in SUBSET s : Suma(d) <= Suma(s)}
<1>1. Elige(c, S)
  BY DEF Elige, Uno
<1>2. \A s \in SUBSET S : IsFiniteSet(s) /\ \A x \in s : x.tamanio \in Nat
  BY FS_Subset
<1>3. \A s \in SUBSET S : Suma(s) \in Nat
  BY <1>2, SumaDe
<1>4. {} \in Q
  BY <1>3
<1>5. ASSUME NEW s \in SUBSET S, s # {}, s \ {c[s]} \in Q PROVE s \in Q
  <2>. DEFINE x == Uno(s)
              r == s \ {x}
  <2>1. x \in s
    BY <1>5 DEF Uno
  <2>2. Suma(s) = x.tamanio + Suma(r)
    BY <1>2, <2>1, SumaDe
  <2>3. \A d \in SUBSET r : Suma(d) <= Suma(r)
    BY <1>5
  <2>4. ASSUME NEW d \in SUBSET s PROVE Suma(d) <= Suma(s)
    <3>. HIDE DEF x
    <3>0. x.tamanio \in Nat /\ r \in SUBSET S
      BY <2>1
    <3>1. CASE x \in d
      <4>1. Suma(d) = x.tamanio + Suma(d \ {x})
        BY <1>2, <3>1, SumaDe
      <4>2. d \ {x} \in SUBSET r /\ d \ {x} \in SUBSET S
        OBVIOUS
      <4>3. Suma(d \ {x}) <= Suma(r)
        BY <2>3, <4>2
      <4>. QED
        BY <1>3, <2>2, <3>0, <4>1, <4>2, <4>3
    <3>2. CASE x \notin d
      <4>1. d \in SUBSET r /\ d \in SUBSET S
        BY <3>2
      <4>2. Suma(d) <= Suma(r)
        BY <2>3, <4>1
      <4>. QED
        BY <1>3, <2>2, <3>0, <4>1, <4>2
    <3>. QED
      BY <3>1, <3>2
  <2>. QED
    BY <2>4
<1>6. \A s \in SUBSET S : s \in Q
  <2>. HIDE DEF Q, c
  <2>. QED
    BY <1>1, <1>4, <1>5, InduccionPartes
<1>. QED
  BY <1>6

-----------------------------------------------------------------------------
\* Blocks of the memory: within it, not empty, and no two over one cell.
Segmento == [inicio : Nat, tamanio : Nat]
Fin(x) == x.inicio + x.tamanio
Separados(x, y) == Fin(x) <= y.inicio \/ Fin(y) <= x.inicio
Bloques(C, T) ==
  /\ IsFiniteSet(C) /\ C \subseteq Segmento
  /\ \A x \in C : x.tamanio >= 1 /\ Fin(x) <= T
  /\ \A x, y \in C : x # y => Separados(x, y)
Antes(C, n) == {y \in C : y.inicio < n}

\* The blocks before an address are finitely many.
LEMMA AntesFinito ==
  ASSUME NEW T, NEW C, Bloques(C, T), NEW n
  PROVE  /\ IsFiniteSet(Antes(C, n)) /\ Antes(C, n) \in SUBSET C
         /\ \A x \in Antes(C, n) : x.tamanio \in Nat
         /\ Suma(Antes(C, n)) \in Nat
<1>1. Antes(C, n) \in SUBSET C
  BY DEF Antes
<1>2. IsFiniteSet(Antes(C, n))
  BY <1>1, FS_Subset DEF Bloques
<1>3. \A x \in Antes(C, n) : x.tamanio \in Nat
  BY <1>1 DEF Bloques, Segmento
<1>. QED
  BY <1>1, <1>2, <1>3, SumaDe

\* From one address to the next there is one more block at most.
LEMMA AntesPaso ==
  ASSUME NEW T \in Nat, NEW C, Bloques(C, T), NEW n \in Nat
  PROVE  \/ Antes(C, n + 1) = Antes(C, n)
         \/ \E y \in C : /\ y.inicio = n /\ y \in Antes(C, n + 1)
                         /\ Suma(Antes(C, n + 1)) = y.tamanio + Suma(Antes(C, n))
                         /\ \A z \in Antes(C, n) : Fin(z) <= n
<1>. USE DEF Antes
<1>1. \A x \in C : x.inicio \in Nat /\ x.tamanio \in Nat /\ x.tamanio >= 1
  BY DEF Bloques, Segmento
<1>2. CASE \A x \in C : x.inicio # n
  BY <1>1, <1>2
<1>3. CASE \E x \in C : x.inicio = n
  <2>1. PICK y \in C : y.inicio = n
    BY <1>3
  <2>2. \A z \in C : z # y => Fin(z) <= n \/ n + y.tamanio <= z.inicio
    BY <2>1 DEF Bloques, Separados, Fin
  <2>3. \A z \in Antes(C, n) : Fin(z) <= n
    BY <1>1, <2>1, <2>2
  <2>4. \A z \in C : z.inicio = n => z = y
    BY <1>1, <2>1, <2>2 DEF Fin
  <2>5. Antes(C, n + 1) \ {y} = Antes(C, n) /\ y \in Antes(C, n + 1)
    BY <1>1, <2>1, <2>4
  <2>6. Suma(Antes(C, n + 1)) = y.tamanio + Suma(Antes(C, n + 1) \ {y})
    <3>1. IsFiniteSet(Antes(C, n + 1)) /\ \A x \in Antes(C, n + 1) : x.tamanio \in Nat
      BY AntesFinito
    <3>. HIDE DEF Antes
    <3>. QED
      BY <2>5, <3>1, SumaDe
  <2>. HIDE DEF Antes
  <2>. QED
    BY <2>1, <2>3, <2>5, <2>6
<1>. QED
  BY <1>2, <1>3

\* No block is before the address 0.
LEMMA AntesCero ==
  ASSUME NEW T, NEW C, Bloques(C, T)
  PROVE  Antes(C, 0) = {} /\ Suma(Antes(C, 0)) = 0
<1>1. Antes(C, 0) = {}
  BY DEF Antes, Bloques, Segmento
<1>. QED
  BY <1>1, SumaDe, FS_EmptySet

\* The blocks before an address, one after the other, end before the last of
\* them does: compacting moves nothing up.
LEMMA AntesCabe ==
  ASSUME NEW T \in Nat, NEW C, Bloques(C, T), NEW n \in Nat, NEW m \in Nat,
         \A y \in Antes(C, n) : Fin(y) <= m
  PROVE  Suma(Antes(C, n)) <= m
<1>. DEFINE P == {k \in Nat : \A l \in Nat : (\A y \in Antes(C, k) : Fin(y) <= l) => Suma(Antes(C, k)) <= l}
<1>1. 0 \in P
  BY AntesCero
<1>2. ASSUME NEW k \in Nat, k \in P PROVE k + 1 \in P
  <2>1. SUFFICES ASSUME NEW l \in Nat, \A y \in Antes(C, k + 1) : Fin(y) <= l
                 PROVE  Suma(Antes(C, k + 1)) <= l
    OBVIOUS
  <2>2. CASE Antes(C, k + 1) = Antes(C, k)
    BY <1>2, <2>1, <2>2
  <2>3. CASE \E y \in C : /\ y.inicio = k /\ y \in Antes(C, k + 1)
                          /\ Suma(Antes(C, k + 1)) = y.tamanio + Suma(Antes(C, k))
                          /\ \A z \in Antes(C, k) : Fin(z) <= k
    <3>1. PICK y \in C : /\ y.inicio = k /\ y \in Antes(C, k + 1)
                         /\ Suma(Antes(C, k + 1)) = y.tamanio + Suma(Antes(C, k))
                         /\ \A z \in Antes(C, k) : Fin(z) <= k
      BY <2>3
    <3>2. Suma(Antes(C, k)) <= k
      BY <1>2, <3>1
    <3>3. k + y.tamanio <= l /\ y.tamanio \in Nat
      BY <2>1, <3>1 DEF Fin, Bloques, Segmento
    <3>4. Suma(Antes(C, k)) \in Nat
      BY AntesFinito
    <3>. QED
      BY <3>1, <3>2, <3>3, <3>4
  <2>. QED
    BY <2>2, <2>3, AntesPaso
<1>3. \A k \in Nat : k \in P
  <2>. HIDE DEF P
  <2>. QED
    BY <1>1, <1>2, Induccion
<1>. QED
  BY <1>3

\* One after the other they leave no cell between.
LEMMA AntesCubre ==
  ASSUME NEW T \in Nat, NEW C, Bloques(C, T), NEW n \in Nat, NEW a \in Nat, a < Suma(Antes(C, n))
  PROVE  \E x \in Antes(C, n) : /\ Suma(Antes(C, x.inicio)) <= a
                                /\ a < Suma(Antes(C, x.inicio)) + x.tamanio
<1>. DEFINE Esta(x) == Suma(Antes(C, x.inicio)) <= a /\ a < Suma(Antes(C, x.inicio)) + x.tamanio
            P == {k \in Nat : a < Suma(Antes(C, k)) => \E x \in Antes(C, k) : Esta(x)}
<1>1. 0 \in P
  BY AntesCero
<1>2. ASSUME NEW k \in Nat, k \in P PROVE k + 1 \in P
  <2>1. SUFFICES ASSUME a < Suma(Antes(C, k + 1))
                 PROVE  \E x \in Antes(C, k + 1) : Esta(x)
    OBVIOUS
  <2>2. CASE Antes(C, k + 1) = Antes(C, k)
    BY <1>2, <2>1, <2>2
  <2>3. CASE \E y \in C : /\ y.inicio = k /\ y \in Antes(C, k + 1)
                          /\ Suma(Antes(C, k + 1)) = y.tamanio + Suma(Antes(C, k))
                          /\ \A z \in Antes(C, k) : Fin(z) <= k
    <3>1. PICK y \in C : /\ y.inicio = k /\ y \in Antes(C, k + 1)
                         /\ Suma(Antes(C, k + 1)) = y.tamanio + Suma(Antes(C, k))
      BY <2>3
    <3>2. Suma(Antes(C, k)) \in Nat /\ y.tamanio \in Nat
      BY AntesFinito DEF Bloques, Segmento
    <3>3. CASE a < Suma(Antes(C, k))
      <4>1. PICK x \in Antes(C, k) : Esta(x)
        BY <1>2, <3>3
      <4>2. x \in Antes(C, k + 1)
        BY <4>1 DEF Antes, Bloques, Segmento
      <4>. QED
        BY <4>1, <4>2
    <3>4. CASE ~(a < Suma(Antes(C, k)))
      BY <2>1, <3>1, <3>2, <3>4
    <3>. QED
      BY <3>3, <3>4
  <2>. QED
    BY <2>2, <2>3, AntesPaso
<1>3. \A k \in Nat : k \in P
  <2>. HIDE DEF P
  <2>. QED
    BY <1>1, <1>2, Induccion
<1>. QED
  BY <1>3

\* Where compacting takes each block: in the same order, with no overlap, and
\* no further than where it was.
LEMMA BasesDe ==
  ASSUME NEW T \in Nat, NEW C, Bloques(C, T)
  PROVE  /\ Suma(C) \in Nat /\ Suma(C) <= T
         /\ \A x \in C : /\ Suma(Antes(C, x.inicio)) \in Nat
                         /\ Suma(Antes(C, x.inicio)) <= x.inicio
                         /\ Suma(Antes(C, x.inicio)) + x.tamanio <= Suma(C)
         /\ \A x, y \in C : x.inicio < y.inicio =>
               Suma(Antes(C, x.inicio)) + x.tamanio <= Suma(Antes(C, y.inicio))
         /\ \A a \in Nat : a < Suma(C) =>
               \E x \in C : /\ Suma(Antes(C, x.inicio)) <= a
                            /\ a < Suma(Antes(C, x.inicio)) + x.tamanio
<1>1. \A x \in C : x.inicio \in Nat /\ x.tamanio \in Nat /\ x.tamanio >= 1 /\ Fin(x) <= T
  BY DEF Bloques, Segmento
<1>2. Antes(C, T) = C
  BY <1>1 DEF Antes, Fin
<1>3. Suma(C) \in Nat /\ Suma(C) <= T
  BY <1>1, <1>2, AntesFinito, AntesCabe
<1>4. ASSUME NEW x \in C
      PROVE  /\ Suma(Antes(C, x.inicio)) \in Nat
             /\ Suma(Antes(C, x.inicio)) <= x.inicio
  <2>1. \A y \in Antes(C, x.inicio) : Fin(y) <= x.inicio
    BY <1>1 DEF Antes, Bloques, Separados, Fin
  <2>. QED
    BY <1>1, <2>1, AntesFinito, AntesCabe
<1>5. ASSUME NEW x \in C, NEW D \in SUBSET C, Antes(C, x.inicio) \subseteq D, x \in D
      PROVE  Suma(Antes(C, x.inicio)) + x.tamanio <= Suma(D)
  <2>. DEFINE A == Antes(C, x.inicio) \cup {x}
  <2>1. A \in SUBSET D /\ A \in SUBSET C
    BY <1>5
  <2>2. A \ {x} = Antes(C, x.inicio)
    BY <1>1 DEF Antes
  <2>3. /\ IsFiniteSet(A) /\ \A y \in A : y.tamanio \in Nat
        /\ IsFiniteSet(D) /\ \A y \in D : y.tamanio \in Nat
    BY <1>1, <2>1, FS_Subset DEF Bloques
  <2>4. Suma(A) = x.tamanio + Suma(A \ {x})
    <3>. HIDE DEF A
    <3>1. x \in A
      BY DEF A
    <3>. QED
      BY <2>3, <3>1, SumaDe
  <2>5. Suma(A) <= Suma(D)
    <3>. HIDE DEF A
    <3>. QED
      BY <2>1, <2>3, SumaParte
  <2>6. Suma(D) \in Nat
    BY <2>3, SumaDe
  <2>. HIDE DEF A
  <2>. QED
    BY <1>1, <1>4, <2>2, <2>4, <2>5, <2>6
<1>6. \A x \in C : Suma(Antes(C, x.inicio)) + x.tamanio <= Suma(C)
  <2>1. \A x \in C : Antes(C, x.inicio) \subseteq C
    BY DEF Antes
  <2>. QED
    BY <1>5, <2>1
<1>7. ASSUME NEW x \in C, NEW y \in C, x.inicio < y.inicio
      PROVE  Suma(Antes(C, x.inicio)) + x.tamanio <= Suma(Antes(C, y.inicio))
  <2>1. Antes(C, x.inicio) \subseteq Antes(C, y.inicio) /\ x \in Antes(C, y.inicio) /\ Antes(C, y.inicio) \in SUBSET C
    BY <1>1, <1>7 DEF Antes
  <2>. QED
    BY <1>5, <2>1
<1>8. \A a \in Nat : a < Suma(C) =>
        \E x \in C : /\ Suma(Antes(C, x.inicio)) <= a
                     /\ a < Suma(Antes(C, x.inicio)) + x.tamanio
  <2>1. ASSUME NEW a \in Nat, a < Suma(Antes(C, T))
        PROVE \E x \in Antes(C, T) : /\ Suma(Antes(C, x.inicio)) <= a
                     /\ a < Suma(Antes(C, x.inicio)) + x.tamanio
    BY <2>1, AntesCubre
  <2>. QED
    BY <1>2, <2>1
<1>. QED
  BY <1>3, <1>4, <1>6, <1>7, <1>8

-------------------------------------------------------------------------------
\* How the memory is divided: the segments C and the holes H cover it, with no
\* cell in two of them. Only a memory of size 0 has an empty hole.
Reparto(C, H, T) ==
  /\ Bloques(C, T) /\ H \subseteq Segmento /\ C \cap H = {}
  /\ \A x \in H : Fin(x) <= T /\ (x.tamanio >= 1 \/ T = 0)
  /\ \A x, y \in C \cup H : x # y => Separados(x, y)
  /\ \A a \in 0..(T - 1) : \E x \in C \cup H : x.inicio <= a /\ a < Fin(x)

\* A segment that becomes a hole changes nothing else.
LEMMA RepartoEliminar ==
  ASSUME NEW T \in Nat, NEW C, NEW H, Reparto(C, H, T), NEW x \in C
  PROVE  Reparto(C \ {x}, H \cup {x}, T) /\ \A y \in H : x.inicio # y.inicio
<1>1. x \in Segmento /\ x.tamanio >= 1 /\ Fin(x) <= T /\ C \subseteq Segmento /\ IsFiniteSet(C)
  BY DEF Reparto, Bloques
<1>2. T # 0
  BY <1>1 DEF Segmento, Fin
<1>3. Bloques(C \ {x}, T)
  BY FS_Subset DEF Reparto, Bloques
<1>4. (C \ {x}) \cup (H \cup {x}) = C \cup H
  OBVIOUS
<1>5. (C \ {x}) \cap (H \cup {x}) = {}
  BY DEF Reparto
<1>6. \A y \in H \cup {x} : y \in Segmento /\ Fin(y) <= T /\ y.tamanio >= 1
  BY <1>1, <1>2 DEF Reparto
<1>7. ASSUME NEW y \in H PROVE x.inicio # y.inicio
  <2>1. y # x /\ Separados(x, y)
    BY DEF Reparto
  <2>. QED
    BY <1>1, <1>6, <2>1 DEF Separados, Segmento, Fin
<1>. QED
  BY <1>3, <1>4, <1>5, <1>6, <1>7 DEF Reparto

\* A hole that becomes a segment.
LEMMA RepartoOcupar ==
  ASSUME NEW T \in Nat, NEW C, NEW H, Reparto(C, H, T), NEW x \in H, x.tamanio >= 1
  PROVE  Reparto(C \cup {x}, H \ {x}, T) /\ x \notin C
<1>1. x \in Segmento /\ Fin(x) <= T /\ x \notin C
  BY DEF Reparto
<1>2. Bloques(C \cup {x}, T)
  <2>1. IsFiniteSet(C \cup {x})
    BY FS_AddElement DEF Reparto, Bloques
  <2>. QED
    BY <1>1, <2>1 DEF Reparto, Bloques
<1>3. (C \cup {x}) \cup (H \ {x}) = C \cup H
  OBVIOUS
<1>4. (C \cup {x}) \cap (H \ {x}) = {}
  BY DEF Reparto
<1>. QED
  BY <1>1, <1>2, <1>3, <1>4 DEF Reparto

\* A hole whose first n cells become a segment.
LEMMA RepartoPartir ==
  ASSUME NEW T \in Nat, NEW C, NEW H, Reparto(C, H, T), NEW x \in H,
         NEW n \in Nat, n >= 1, n < x.tamanio
  PROVE  LET a == [inicio |-> x.inicio, tamanio |-> n]
         IN /\ Reparto(C \cup {a}, (H \ {x}) \cup {Resto(x, n)}, T) /\ a \notin C
            /\ \A y \in H : x.inicio < y.inicio => x.inicio + n < y.inicio
            /\ \A y \in C : Separados(a, y)
<1>. DEFINE a == [inicio |-> x.inicio, tamanio |-> n]
            b == Resto(x, n)
            U == C \cup H
            W == (C \cup {a}) \cup ((H \ {x}) \cup {b})
<1>1. x \in Segmento /\ Fin(x) <= T /\ x \notin C /\ x.inicio \in Nat /\ x.tamanio \in Nat
  BY DEF Reparto, Segmento
<1>2. /\ a \in Segmento /\ a.inicio = x.inicio /\ a.tamanio = n /\ Fin(a) = x.inicio + n
      /\ b \in Segmento /\ b.inicio = x.inicio + n /\ b.tamanio = x.tamanio - n /\ Fin(b) = Fin(x)
  BY <1>1 DEF Segmento, Resto, Fin
<1>3. \A y \in U : y \in Segmento /\ (y # x => Separados(x, y))
  BY DEF Reparto, Bloques
<1>4. T # 0
  BY <1>1 DEF Fin
<1>5. \A y \in U : y.inicio \in Nat /\ y.tamanio \in Nat /\ y.tamanio >= 1
  BY <1>3, <1>4 DEF Reparto, Bloques, Segmento
<1>6. \A y \in U : y # x => Separados(a, y) /\ Separados(y, a) /\ Separados(b, y) /\ Separados(y, b)
  <2>. HIDE DEF U, a, b
  <2>. QED
    BY <1>1, <1>2, <1>3, <1>5 DEF Separados, Fin
<1>7. a \notin U /\ b \notin U /\ a # b /\ Separados(a, b) /\ Separados(b, a)
  <2>1. a # x /\ b # x /\ a # b
    BY <1>1, <1>2
  <2>2. Separados(a, b) /\ Separados(b, a)
    <3>. HIDE DEF U, a, b
    <3>. QED
      BY <1>1, <1>2 DEF Separados
  <2>3. ~Separados(a, a) /\ ~Separados(b, b)
    <3>. HIDE DEF U, a, b
    <3>. QED
      BY <1>1, <1>2 DEF Separados, Fin
  <2>. HIDE DEF U, a, b
  <2>. QED
    BY <1>6, <2>1, <2>2, <2>3
<1>. HIDE DEF a, b
<1>8. W = (U \ {x}) \cup {a, b}
  BY <1>1
<1>9. Bloques(C \cup {a}, T)
  <2>1. IsFiniteSet(C \cup {a})
    BY FS_AddElement DEF Reparto, Bloques
  <2>2. Fin(a) <= T
    BY <1>1, <1>2 DEF Fin
  <2>3. \A y \in C : Separados(a, y) /\ Separados(y, a)
    BY <1>1, <1>6
  <2>. QED
    BY <1>2, <2>1, <2>2, <2>3 DEF Reparto, Bloques
<1>10. (C \cup {a}) \cap ((H \ {x}) \cup {b}) = {}
  BY <1>7 DEF Reparto
<1>11. \A y, z \in W : y # z => Separados(y, z)
  <2>1. \A y, z \in U : y # z => Separados(y, z)
    BY DEF Reparto
  <2>. HIDE DEF U, W
  <2>. QED
    BY <1>6, <1>7, <1>8, <2>1
<1>12. \A c \in 0..(T - 1) : \E y \in W : y.inicio <= c /\ c < Fin(y)
  <2>1. SUFFICES ASSUME NEW c \in 0..(T - 1) PROVE \E y \in W : y.inicio <= c /\ c < Fin(y)
    OBVIOUS
  <2>2. PICK y \in U : y.inicio <= c /\ c < Fin(y)
    BY DEF Reparto
  <2>3. CASE y # x
    BY <1>8, <2>2, <2>3
  <2>4. CASE y = x
    <3>1. a \in W /\ b \in W
      OBVIOUS
    <3>2. (a.inicio <= c /\ c < Fin(a)) \/ (b.inicio <= c /\ c < Fin(b))
      BY <1>1, <1>2, <2>2, <2>4
    <3>. QED
      BY <3>1, <3>2
  <2>. QED
    BY <2>3, <2>4
<1>13. \A y \in (H \ {x}) \cup {b} : y \in Segmento /\ Fin(y) <= T /\ (y.tamanio >= 1 \/ T = 0)
  BY <1>1, <1>2 DEF Reparto
<1>14. Reparto(C \cup {a}, (H \ {x}) \cup {b}, T)
  BY <1>9, <1>10, <1>11, <1>12, <1>13 DEF Reparto
<1>15. ASSUME NEW y \in H, x.inicio < y.inicio PROVE x.inicio + n < y.inicio
  <2>1. y # x
    BY <1>1, <1>15
  <2>2. Separados(x, y)
    BY <1>3, <2>1
  <2>. QED
    BY <1>1, <1>5, <1>15, <2>2 DEF Separados, Fin
<1>. QED
  BY <1>1, <1>6, <1>7, <1>14, <1>15 DEF a, b

\* Where compacting takes a block, and what is left.
Base(C, x) == Suma(Antes(C, x.inicio))
Movido(C, x) == [x EXCEPT !.inicio = Base(C, x)]
Movidos(C) == {Movido(C, x) : x \in C}
Resta(C, T) == IF Suma(C) < T THEN <<[inicio |-> Suma(C), tamanio |-> T - Suma(C)]>> ELSE <<>>

\* compactacion: the blocks moved and the hole that is left have every cell.
LEMMA RepartoCompactar ==
  ASSUME NEW T \in Nat, NEW C, Bloques(C, T)
  PROVE  /\ Reparto(Movidos(C), ToSet(Resta(C, T)), T)
         /\ \A x, y \in C : x # y => Separados(Movido(C, x), Movido(C, y))
         /\ \A x \in C : /\ Movido(C, x) \in Segmento /\ Movido(C, x).inicio = Base(C, x)
                         /\ Movido(C, x).tamanio = x.tamanio /\ Fin(Movido(C, x)) <= T
<1>. DEFINE M == Movidos(C)
            H == ToSet(Resta(C, T))
            n == Suma(C)
<1>1. \A x \in C : x \in Segmento /\ x.inicio \in Nat /\ x.tamanio \in Nat /\ x.tamanio >= 1
  BY DEF Bloques, Segmento
<1>2. /\ n \in Nat /\ n <= T
      /\ \A x \in C : Base(C, x) \in Nat /\ Base(C, x) <= x.inicio /\ Base(C, x) + x.tamanio <= n
      /\ \A x, y \in C : x.inicio < y.inicio => Base(C, x) + x.tamanio <= Base(C, y)
      /\ \A a \in Nat : a < n => \E x \in C : Base(C, x) <= a /\ a < Base(C, x) + x.tamanio
  BY BasesDe DEF Base
<1>3. \A x \in C : /\ Movido(C, x) \in Segmento /\ Movido(C, x).inicio = Base(C, x)
                   /\ Movido(C, x).tamanio = x.tamanio /\ Fin(Movido(C, x)) = Base(C, x) + x.tamanio
  BY <1>1, <1>2 DEF Movido, Fin, Segmento
<1>. USE DEF Movidos
<1>4. \A x, y \in C : x # y => x.inicio < y.inicio \/ y.inicio < x.inicio
  BY <1>1 DEF Bloques, Separados, Fin
<1>5. \A x, y \in C : x # y => Separados(Movido(C, x), Movido(C, y))
  BY <1>2, <1>3, <1>4 DEF Separados
<1>6. Bloques(M, T)
  <2>1. IsFiniteSet(M)
    <3>1. IsFiniteSet(C)
      BY DEF Bloques
    <3>. DEFINE f == [x \in C |-> Movido(C, x)]
    <3>2. f \in Surjection(C, M)
      BY DEF Surjection
    <3>. QED
      BY <3>1, <3>2, FS_Surjection
  <2>2. \A y \in M : y \in Segmento /\ y.tamanio >= 1 /\ Fin(y) <= T
    BY <1>1, <1>2, <1>3
  <2>3. \A y, z \in M : y # z => Separados(y, z)
    BY <1>5
  <2>. QED
    BY <2>1, <2>2, <2>3 DEF Bloques
<1>7. \A y \in M : Fin(y) <= n
  BY <1>2, <1>3
<1>8. CASE n < T
  <2>. DEFINE h == [inicio |-> n, tamanio |-> T - n]
  <2>1. H = {h}
    BY <1>8 DEF Resta, ToSet
  <2>2. h \in Segmento /\ h.inicio = n /\ h.tamanio >= 1 /\ Fin(h) = T
    BY <1>2, <1>8 DEF Segmento, Fin
  <2>3. \A y \in M : y # h /\ Separados(y, h) /\ Separados(h, y)
    <3>1. \A y \in M : Fin(y) <= h.inicio /\ y.tamanio >= 1 /\ y.inicio \in Nat /\ y.tamanio \in Nat
      BY <1>6, <1>7, <2>2 DEF Bloques, Segmento
    <3>2. \A y \in M : y # h
      BY <3>1, <2>2, <1>2 DEF Fin
    <3>. HIDE DEF h, M
    <3>. QED
      BY <3>1, <3>2 DEF Separados
  <2>4. ASSUME NEW a \in 0..(T - 1) PROVE \E y \in M \cup {h} : y.inicio <= a /\ a < Fin(y)
    <3>1. CASE a < n
      <4>1. PICK x \in C : Base(C, x) <= a /\ a < Base(C, x) + x.tamanio
        BY <1>2, <3>1
      <4>2. Movido(C, x) \in M
        OBVIOUS
      <4>. QED
        BY <1>3, <4>1, <4>2
    <3>2. CASE ~(a < n)
      BY <1>2, <2>2, <3>2
    <3>. QED
      BY <3>1, <3>2
  <2>. HIDE DEF h, M, H
  <2>5. \A y, z \in M \cup {h} : y # z => Separados(y, z)
    BY <1>6, <2>3 DEF Bloques
  <2>6. M \cap {h} = {}
    BY <2>3
  <2>7. QED
    <3>1. Reparto(M, {h}, T)
      BY <1>6, <2>2, <2>4, <2>5, <2>6 DEF Reparto
    <3>2. \A x \in C : Fin(Movido(C, x)) <= T
      BY <1>1, <1>2, <1>3
    <3>. QED
      BY <1>3, <1>5, <2>1, <3>1, <3>2 DEF M, H
<1>9. CASE ~(n < T)
  <2>1. H = {} /\ n = T
    BY <1>2, <1>9 DEF Resta, ToSet
  <2>2. \A a \in 0..(T - 1) : \E y \in M : y.inicio <= a /\ a < Fin(y)
    BY <1>2, <1>3, <2>1
  <2>. HIDE DEF M, H
  <2>3. \A y, z \in M : y # z => Separados(y, z)
    BY <1>6 DEF Bloques
  <2>. QED
    BY <1>2, <1>3, <1>5, <1>6, <2>1, <2>2, <2>3 DEF Reparto, M, H
<1>. QED
  BY <1>8, <1>9

-------------------------------------------------------------------------------
\* The list of the holes is in the order of the memory.
Orden(h) == \A i, j \in DOMAIN h : i < j => h[i].inicio < h[j].inicio

\* A list in order of its addresses has no two equal ones.
LEMMA OrdenDe ==
  ASSUME NEW h \in Seq(Segmento), Orden(h)
  PROVE  /\ Len(h) \in Nat /\ DOMAIN h = 1..Len(h) /\ ToSet(h) \subseteq Segmento
         /\ \A i \in 1..Len(h) : h[i] \in ToSet(h) /\ h[i] \in Segmento /\ h[i].inicio \in Nat
         /\ \A y \in ToSet(h) : \E i \in 1..Len(h) : y = h[i]
         /\ \A i, j \in 1..Len(h) : h[i].inicio = h[j].inicio => i = j
<1>1. Len(h) \in Nat /\ DOMAIN h = 1..Len(h) /\ \A i \in 1..Len(h) : h[i] \in Segmento
  BY LenProperties, ElementOfSeq
<1>2. \A i \in 1..Len(h) : h[i].inicio \in Nat
  BY <1>1 DEF Segmento
<1>3. \A i, j \in 1..Len(h) : h[i].inicio = h[j].inicio => i = j
  <2>1. \A i, j \in 1..Len(h) : i = j \/ i < j \/ j < i
    BY <1>1
  <2>. QED
    BY <1>1, <1>2, <2>1 DEF Orden
<1>. QED
  BY <1>1, <1>2, <1>3 DEF ToSet

\* What eliminar_segmento does to it.
LEMMA OrdenInsertar ==
  ASSUME NEW h \in Seq(Segmento), Orden(h), NEW x \in Segmento,
         \A y \in ToSet(h) : x.inicio # y.inicio
  PROVE  LET mayores == {i \in DOMAIN h : x.inicio < h[i].inicio}
             n == IF mayores = {} THEN Append(h, x) ELSE InsertAt(h, Min(mayores), x)
         IN n \in Seq(Segmento) /\ Orden(n) /\ ToSet(n) = ToSet(h) \cup {x}
<1>. DEFINE mayores == {i \in DOMAIN h : x.inicio < h[i].inicio}
            n == IF mayores = {} THEN Append(h, x) ELSE InsertAt(h, Min(mayores), x)
<1>1. /\ Len(h) \in Nat /\ DOMAIN h = 1..Len(h) /\ x.inicio \in Nat
      /\ \A i \in 1..Len(h) : h[i].inicio \in Nat /\ x.inicio # h[i].inicio /\ h[i] \in ToSet(h)
      /\ \A y \in ToSet(h) : \E i \in 1..Len(h) : y = h[i]
  BY OrdenDe DEF Segmento
<1>2. PICK k \in 1..(Len(h) + 1) :
        /\ n \in Seq(Segmento) /\ Len(n) = Len(h) + 1
        /\ \A i \in 1..(Len(h) + 1) : n[i] = IF i < k THEN h[i] ELSE IF i = k THEN x ELSE h[i - 1]
        /\ \A i \in 1..Len(h) : i < k => h[i].inicio < x.inicio
        /\ \A i \in 1..Len(h) : i >= k => x.inicio < h[i].inicio
  <2>1. CASE mayores = {}
    <3>1. n = Append(h, x)
      BY <2>1
    <3>2. /\ n \in Seq(Segmento) /\ Len(n) = Len(h) + 1
          /\ \A i \in 1..Len(h) : n[i] = h[i]
          /\ n[Len(h) + 1] = x
      BY <3>1, AppendProperties
    <3>3. \A i \in 1..Len(h) : h[i].inicio < x.inicio
      BY <1>1, <2>1
    <3>. HIDE DEF n
    <3>4. \A i \in 1..(Len(h) + 1) : i \in 1..Len(h) \/ i = Len(h) + 1
      BY <1>1
    <3>. WITNESS Len(h) + 1 \in 1..(Len(h) + 1)
    <3>. QED
      BY <1>1, <3>2, <3>3, <3>4
  <2>2. CASE mayores # {}
    <3>. DEFINE k == Min(mayores)
    <3>1. n = InsertAt(h, k, x)
      BY <2>2
    <3>2. k \in mayores /\ \A j \in mayores : k <= j
      <4>1. mayores \in SUBSET Nat
        BY <1>1
      <4>. HIDE DEF mayores
      <4>. QED
        BY <2>2, <4>1, MinimoDe
    <3>3. k \in 1..Len(h) /\ k \in 1..(Len(h) + 1) /\ x.inicio < h[k].inicio
      BY <1>1, <3>2
    <3>. HIDE DEF k, n
    <3>4. /\ n \in Seq(Segmento) /\ Len(n) = Len(h) + 1
          /\ \A i \in 1..(Len(h) + 1) : n[i] = IF i < k THEN h[i] ELSE IF i = k THEN x ELSE h[i - 1]
      <4>. DEFINE t == InsertAt(h, k, x)
      <4>1. t \in Seq(Segmento) /\ Len(t) = Len(h) + 1
        BY <3>3, InsertarLargo
      <4>2. \A i \in 1..(Len(h) + 1) : t[i] = IF i < k THEN h[i] ELSE IF i = k THEN x ELSE h[i - 1]
        BY <3>3, InsertarEn
      <4>3. n = t
        BY <3>1
      <4>. HIDE DEF t, mayores
      <4>. QED
        BY <4>1, <4>2, <4>3
    <3>5. \A i \in 1..Len(h) : i < k => h[i].inicio < x.inicio
      BY SMTT(30), <1>1, <3>2, <3>3
    <3>6. \A i \in 1..Len(h) : i >= k => x.inicio < h[i].inicio
      <4>1. ASSUME NEW i \in 1..Len(h), i > k PROVE h[k].inicio < h[i].inicio
        BY <1>1, <3>3, <4>1 DEF Orden
      <4>. QED
        BY <1>1, <3>3, <4>1
    <3>. QED
      BY <3>3, <3>4, <3>5, <3>6
  <2>. QED
    BY <2>1, <2>2
<1>. HIDE DEF n
<1>3. DOMAIN n = 1..(Len(h) + 1)
  BY <1>2, LenProperties
<1>4. Orden(n)
  <2>1. SUFFICES ASSUME NEW i \in 1..(Len(h) + 1), NEW j \in 1..(Len(h) + 1), i < j
                 PROVE  n[i].inicio < n[j].inicio
    BY <1>3 DEF Orden
  <2>2. CASE j < k
    <3>1. n[i] = h[i] /\ n[j] = h[j] /\ i \in 1..Len(h) /\ j \in 1..Len(h)
      BY <1>1, <1>2, <2>1, <2>2
    <3>. QED
      BY <1>1, <2>1, <3>1 DEF Orden
  <2>3. CASE j = k
    <3>1. n[i] = h[i] /\ n[j] = x /\ i \in 1..Len(h)
      BY <1>1, <1>2, <2>1, <2>3
    <3>. QED
      BY <1>2, <2>1, <2>3, <3>1
  <2>4. CASE j > k
    <3>1. n[j] = h[j - 1] /\ j - 1 \in 1..Len(h) /\ j - 1 >= k
      BY <1>1, <1>2, <2>1, <2>4
    <3>2. CASE i = k
      BY <1>2, <3>1, <3>2
    <3>3. CASE i < k
      <4>1. n[i] = h[i] /\ i \in 1..Len(h)
        BY <1>1, <1>2, <3>3
      <4>2. h[i].inicio < x.inicio /\ x.inicio < h[j - 1].inicio
        BY <1>2, <3>1, <3>3, <4>1
      <4>. QED
        BY <1>1, <3>1, <4>1, <4>2
    <3>4. CASE i > k
      <4>1. n[i] = h[i - 1] /\ i - 1 \in 1..Len(h) /\ i - 1 < j - 1
        BY <1>1, <1>2, <2>1, <3>4
      <4>. QED
        BY <1>1, <3>1, <4>1 DEF Orden
    <3>. QED
      BY <3>2, <3>3, <3>4
  <2>. QED
    BY <2>2, <2>3, <2>4
<1>5. ToSet(n) = ToSet(h) \cup {x}
  <2>1. \A i \in 1..(Len(h) + 1) : n[i] \in ToSet(h) \cup {x}
    <3>1. \A i \in 1..(Len(h) + 1) : i < k => i \in 1..Len(h)
      BY <1>1
    <3>2. \A i \in 1..(Len(h) + 1) : i > k => i - 1 \in 1..Len(h)
      BY <1>1
    <3>. QED
      BY <1>1, <1>2, <3>1, <3>2
  <2>2. \A i \in 1..Len(h) : h[i] \in ToSet(n)
    <3>1. \A i \in 1..Len(h) : i < k => i \in DOMAIN n /\ n[i] = h[i]
      BY <1>1, <1>2, <1>3
    <3>2. \A i \in 1..Len(h) : i >= k => i + 1 \in DOMAIN n /\ n[i + 1] = h[i]
      BY <1>1, <1>2, <1>3
    <3>. QED
      BY <3>1, <3>2 DEF ToSet
  <2>3. x \in ToSet(n)
    BY <1>2, <1>3 DEF ToSet
  <2>4. ToSet(n) \subseteq ToSet(h) \cup {x}
    BY <1>3, <2>1 DEF ToSet
  <2>5. ToSet(h) \subseteq ToSet(n)
    BY <1>1, <2>2
  <2>. QED
    BY <2>3, <2>4, <2>5
<1>. QED
  BY <1>2, <1>4, <1>5 DEF n

\* A hole that is filled.
LEMMA OrdenQuitar ==
  ASSUME NEW h \in Seq(Segmento), Orden(h), NEW k \in 1..Len(h)
  PROVE  /\ RemoveAt(h, k) \in Seq(Segmento) /\ Orden(RemoveAt(h, k))
         /\ ToSet(RemoveAt(h, k)) = ToSet(h) \ {h[k]}
<1>. DEFINE n == RemoveAt(h, k)
<1>1. /\ Len(h) \in Nat /\ DOMAIN h = 1..Len(h)
      /\ \A i \in 1..Len(h) : h[i] \in ToSet(h)
      /\ \A y \in ToSet(h) : \E i \in 1..Len(h) : y = h[i]
      /\ \A i, j \in 1..Len(h) : h[i].inicio = h[j].inicio => i = j
  BY OrdenDe
<1>2. /\ n \in Seq(Segmento) /\ Len(n) = Len(h) - 1 /\ DOMAIN n = 1..(Len(h) - 1)
      /\ \A i \in 1..(Len(h) - 1) : n[i] = IF i < k THEN h[i] ELSE h[i + 1]
  BY QuitarDe, LenProperties
<1>. HIDE DEF n
<1>3. Orden(n)
  <2>1. SUFFICES ASSUME NEW i \in 1..(Len(h) - 1), NEW j \in 1..(Len(h) - 1), i < j
                 PROVE  n[i].inicio < n[j].inicio
    BY <1>2 DEF Orden
  <2>2. PICK p \in 1..Len(h), q \in 1..Len(h) : n[i] = h[p] /\ n[j] = h[q] /\ p < q
    <3>1. CASE j < k
      BY SMTT(30), <1>1, <1>2, <2>1, <3>1
    <3>2. CASE i < k /\ ~(j < k)
      <4>1. n[i] = h[i] /\ n[j] = h[j + 1] /\ i \in 1..Len(h) /\ j + 1 \in 1..Len(h) /\ i < j + 1
        BY <1>1, <1>2, <2>1, <3>2
      <4>. QED
        BY <4>1
    <3>3. CASE ~(i < k)
      <4>1. n[i] = h[i + 1] /\ n[j] = h[j + 1] /\ i + 1 \in 1..Len(h) /\ j + 1 \in 1..Len(h) /\ i + 1 < j + 1
        BY <1>1, <1>2, <2>1, <3>3
      <4>. QED
        BY <4>1
    <3>. QED
      BY <2>1, <3>1, <3>2, <3>3
  <2>. QED
    BY <1>1, <2>2 DEF Orden
<1>4. ToSet(n) = ToSet(h) \ {h[k]}
  <2>1. \A i \in 1..(Len(h) - 1) : n[i] \in ToSet(h) /\ n[i] # h[k]
    <3>1. \A i \in 1..(Len(h) - 1) : i < k => i \in 1..Len(h) /\ i # k /\ n[i] = h[i]
      BY <1>1, <1>2
    <3>2. \A i \in 1..(Len(h) - 1) : ~(i < k) => i + 1 \in 1..Len(h) /\ i + 1 # k /\ n[i] = h[i + 1]
      BY <1>1, <1>2
    <3>. QED
      BY <1>1, <3>1, <3>2
  <2>2. \A i \in 1..Len(h) : i # k => h[i] \in ToSet(n)
    <3>1. \A i \in 1..Len(h) : i < k => i \in DOMAIN n /\ n[i] = h[i]
      BY <1>1, <1>2
    <3>2. \A i \in 1..Len(h) : i > k => i - 1 \in DOMAIN n /\ n[i - 1] = h[i]
      BY <1>1, <1>2
    <3>. QED
      BY <3>1, <3>2 DEF ToSet
  <2>3. ToSet(n) \subseteq ToSet(h) \ {h[k]}
    BY <1>2, <2>1 DEF ToSet
  <2>. QED
    BY <1>1, <2>2, <2>3
<1>. QED
  BY <1>2, <1>3, <1>4 DEF n

\* A hole that starts later, and before the next one.
LEMMA OrdenCambiar ==
  ASSUME NEW h \in Seq(Segmento), Orden(h), NEW k \in 1..Len(h), NEW x \in Segmento,
         h[k].inicio <= x.inicio, \A y \in ToSet(h) : h[k].inicio < y.inicio => x.inicio < y.inicio
  PROVE  /\ ReplaceAt(h, k, x) \in Seq(Segmento) /\ Orden(ReplaceAt(h, k, x))
         /\ ToSet(ReplaceAt(h, k, x)) = (ToSet(h) \ {h[k]}) \cup {x}
<1>. DEFINE n == ReplaceAt(h, k, x)
<1>1. /\ Len(h) \in Nat /\ DOMAIN h = 1..Len(h) /\ x.inicio \in Nat
      /\ \A i \in 1..Len(h) : h[i] \in ToSet(h) /\ h[i].inicio \in Nat
      /\ \A y \in ToSet(h) : \E i \in 1..Len(h) : y = h[i]
      /\ \A i, j \in 1..Len(h) : h[i].inicio = h[j].inicio => i = j
  BY OrdenDe DEF Segmento
<1>2. /\ n \in Seq(Segmento) /\ Len(n) = Len(h) /\ DOMAIN n = 1..Len(h)
      /\ \A i \in 1..Len(h) : n[i] = IF i = k THEN x ELSE h[i]
  BY ExceptSeq, LenProperties DEF ReplaceAt
<1>. HIDE DEF n
<1>3. Orden(n)
  <2>1. SUFFICES ASSUME NEW i \in 1..Len(h), NEW j \in 1..Len(h), i < j
                 PROVE  n[i].inicio < n[j].inicio
    BY <1>2 DEF Orden
  <2>2. h[i].inicio < h[j].inicio
    BY <1>1, <2>1 DEF Orden
  <2>3. CASE i = k
    <3>1. x.inicio < h[j].inicio
      BY <1>1, <2>2, <2>3
    <3>. QED
      BY <1>2, <2>1, <2>3, <3>1
  <2>4. CASE j = k
    <3>1. h[i].inicio < x.inicio
      BY <1>1, <2>2, <2>4
    <3>. QED
      BY <1>2, <2>1, <2>4, <3>1
  <2>5. CASE i # k /\ j # k
    BY <1>2, <2>2, <2>5
  <2>. QED
    BY <2>3, <2>4, <2>5
<1>4. ToSet(n) = (ToSet(h) \ {h[k]}) \cup {x}
  <2>1. \A i \in 1..Len(h) : i # k => h[i] # h[k]
    BY <1>1
  <2>2. ToSet(n) \subseteq (ToSet(h) \ {h[k]}) \cup {x}
    BY <1>1, <1>2, <2>1 DEF ToSet
  <2>3. \A i \in 1..Len(h) : i # k => h[i] \in ToSet(n)
    BY <1>2 DEF ToSet
  <2>4. x \in ToSet(n)
    BY <1>2 DEF ToSet
  <2>. QED
    BY <1>1, <2>2, <2>3, <2>4
<1>. QED
  BY <1>2, <1>3, <1>4 DEF n

-------------------------------------------------------------------------------
\* The globals, for a memory of T cells.
SegEstado(T) ==
  [memoria : [0..(T - 1) -> Celdas], procesos : UNION {[D -> Seq(Segmento)] : D \in SUBSET Pids},
   huecos : Seq(Segmento), caida : BOOLEAN]
Repartida(s, C, T) == s \in SegEstado(T) /\ Orden(s.huecos) /\ Reparto(C, ToSet(s.huecos), T)

\* Copying writes the cells it is given and no other.
LEMMA CopiarDe ==
  ASSUME NEW T \in Nat, NEW S, NEW memoria \in [0..(T - 1) -> S], NEW inicio \in Nat, NEW c \in Seq(S)
  PROVE  /\ Copiar(memoria, inicio, c) \in [0..(T - 1) -> S]
         /\ \A a \in 0..(T - 1) :
              Copiar(memoria, inicio, c)[a] =
                IF inicio <= a /\ a < inicio + Len(c) THEN c[a - inicio + 1] ELSE memoria[a]
<1>1. Len(c) \in Nat /\ \A k \in 1..Len(c) : c[k] \in S
  BY LenProperties, ElementOfSeq
<1>2. \A a \in 0..(T - 1) :
        /\ a \in inicio..(inicio + Len(c) - 1) <=> inicio <= a /\ a < inicio + Len(c)
        /\ inicio <= a /\ a < inicio + Len(c) => a - inicio + 1 \in 1..Len(c)
  BY <1>1
<1>3. Copiar(memoria, inicio, c) =
        [a \in 0..(T - 1) |-> IF a \in inicio..(inicio + Len(c) - 1) THEN c[a - inicio + 1] ELSE memoria[a]]
  BY DEF Copiar
<1>. QED
  BY <1>1, <1>2, <1>3

\* A sequence of n cells, one for each number.
LEMMA FilaDe ==
  ASSUME NEW S, NEW n \in Nat, NEW f \in [1..n -> S]
  PROVE  f \in Seq(S) /\ Len(f) = n
BY SeqDef

\* What the globals are, one by one.
LEMMA EstadoDe ==
  ASSUME NEW T, NEW s \in SegEstado(T)
  PROVE  /\ s.memoria \in [0..(T - 1) -> Celdas] /\ DOMAIN s.memoria = 0..(T - 1)
         /\ s.huecos \in Seq(Segmento) /\ s.caida \in BOOLEAN
         /\ DOMAIN s.procesos \subseteq Pids /\ s.procesos \in [DOMAIN s.procesos -> Seq(Segmento)]
BY DEF SegEstado

\* What malloc leaves is a cell.
LEMMA BasuraEs == Basura \in Celdas
BY DEF Basura, Celdas, Campo

\* eliminar_segmento: its segment becomes a hole, and what the others hold stays.
LEMMA EliminarTipo ==
  ASSUME NEW T \in Nat, NEW s \in SegEstado(T), NEW x \in Segmento
  PROVE  LET e == EliminarSegmento(s, x)
             mayores == {i \in DOMAIN s.huecos : x.inicio < s.huecos[i].inicio}
         IN /\ e \in SegEstado(T) /\ e.procesos = s.procesos /\ e.caida = s.caida
            /\ e.huecos = IF mayores = {} THEN Append(s.huecos, x) ELSE InsertAt(s.huecos, Min(mayores), x)
            /\ e.memoria = Copiar(s.memoria, x.inicio, [k \in 1..x.tamanio |-> Basura])
<1>. DEFINE mayores == {i \in DOMAIN s.huecos : x.inicio < s.huecos[i].inicio}
            h == IF mayores = {} THEN Append(s.huecos, x) ELSE InsertAt(s.huecos, Min(mayores), x)
            b == [k \in 1..x.tamanio |-> Basura]
            m == Copiar(s.memoria, x.inicio, b)
<1>1. /\ s.memoria \in [0..(T - 1) -> Celdas] /\ s.huecos \in Seq(Segmento) /\ s.caida \in BOOLEAN
      /\ DOMAIN s.procesos \subseteq Pids /\ s.procesos \in [DOMAIN s.procesos -> Seq(Segmento)]
      /\ Len(s.huecos) \in Nat /\ DOMAIN s.huecos = 1..Len(s.huecos)
      /\ x.inicio \in Nat /\ x.tamanio \in Nat
  BY EstadoDe, LenProperties DEF Segmento
<1>2. EliminarSegmento(s, x) = [s EXCEPT !.huecos = h, !.memoria = m]
  BY DEF EliminarSegmento
<1>3. b \in Seq(Celdas)
  <2>1. b \in [1..x.tamanio -> Celdas] /\ x.tamanio \in Nat
    BY <1>1, BasuraEs
  <2>. HIDE DEF b
  <2>. QED
    BY <2>1, FilaDe
<1>4. m \in [0..(T - 1) -> Celdas]
  <2>. HIDE DEF b
  <2>. QED
    BY <1>1, <1>3, CopiarDe
<1>5. h \in Seq(Segmento)
  <2>1. CASE mayores = {}
    <3>1. h = Append(s.huecos, x)
      BY <2>1
    <3>2. Append(s.huecos, x) \in Seq(Segmento)
      BY <1>1, AppendProperties
    <3>. QED
      BY <3>1, <3>2
  <2>2. CASE mayores # {}
    <3>1. mayores \in SUBSET Nat /\ mayores \subseteq 1..Len(s.huecos)
      BY <1>1
    <3>2. Min(mayores) \in 1..Len(s.huecos)
      <4>. HIDE DEF mayores
      <4>. QED
        BY <2>2, <3>1, MinimoDe
    <3>3. Min(mayores) \in 1..(Len(s.huecos) + 1)
      BY <1>1, <3>2
    <3>4. h = InsertAt(s.huecos, Min(mayores), x)
      BY <2>2
    <3>5. InsertAt(s.huecos, Min(mayores), x) \in Seq(Segmento)
      <4>. HIDE DEF mayores
      <4>. QED
        BY <1>1, <3>3, InsertarLargo
    <3>. QED
      BY <3>4, <3>5
  <2>. QED
    BY <2>1, <2>2
<1>. DEFINE e == EliminarSegmento(s, x)
<1>6. e \in SegEstado(T) /\ e.procesos = s.procesos /\ e.caida = s.caida /\ e.huecos = h /\ e.memoria = m
  <2>. DEFINE r == [s EXCEPT !.huecos = h, !.memoria = m]
  <2>1. e = r
    BY <1>2
  <2>. HIDE DEF h, m, e
  <2>2. r \in SegEstado(T) /\ r.memoria = m /\ r.huecos = h /\ r.procesos = s.procesos /\ r.caida = s.caida
    BY <1>4, <1>5 DEF SegEstado
  <2>. HIDE DEF r
  <2>. QED
    BY <2>1, <2>2
<1>. HIDE DEF e
<1>. QED
  BY <1>6 DEF e

\* eliminar_segmento: the segment becomes a hole and the rest stay as they were.
LEMMA EliminarDe ==
  ASSUME NEW T \in Nat, NEW C, NEW s, Repartida(s, C, T), NEW x \in C
  PROVE  LET e == EliminarSegmento(s, x)
         IN /\ Repartida(e, C \ {x}, T) /\ e.procesos = s.procesos /\ e.caida = s.caida
            /\ \A y \in C \ {x}, k \in Nat :
                 k < y.tamanio => e.memoria[y.inicio + k] = s.memoria[y.inicio + k]
<1>. DEFINE e == EliminarSegmento(s, x)
            mayores == {i \in DOMAIN s.huecos : x.inicio < s.huecos[i].inicio}
            h == IF mayores = {} THEN Append(s.huecos, x) ELSE InsertAt(s.huecos, Min(mayores), x)
            b == [k \in 1..x.tamanio |-> Basura]
            m == Copiar(s.memoria, x.inicio, b)
<1>1. /\ s \in SegEstado(T) /\ Orden(s.huecos) /\ Reparto(C, ToSet(s.huecos), T)
      /\ x \in Segmento /\ x.inicio \in Nat /\ x.tamanio \in Nat
  BY DEF Repartida, Reparto, Bloques, Segmento
<1>2. e.memoria = m /\ e.procesos = s.procesos /\ e.caida = s.caida /\ e.huecos = h /\ e \in SegEstado(T)
  <2>. HIDE DEF e
  <2>. QED
    BY <1>1, EliminarTipo DEF e
<1>4. Reparto(C \ {x}, ToSet(s.huecos) \cup {x}, T) /\ \A y \in ToSet(s.huecos) : x.inicio # y.inicio
  BY <1>1, RepartoEliminar
<1>5. Orden(h) /\ ToSet(h) = ToSet(s.huecos) \cup {x}
  <2>1. s.huecos \in Seq(Segmento)
    BY <1>1, EstadoDe
  <2>. QED
    BY <1>1, <1>4, <2>1, OrdenInsertar
<1>6. ASSUME NEW y \in C \ {x}, NEW k \in Nat, k < y.tamanio
      PROVE  m[y.inicio + k] = s.memoria[y.inicio + k]
  <2>. DEFINE a == y.inicio + k
  <2>1. /\ y \in Segmento /\ y.inicio \in Nat /\ y.tamanio \in Nat /\ Fin(y) <= T
        /\ Separados(x, y)
    BY DEF Repartida, Reparto, Bloques, Segmento
  <2>2. a \in 0..(T - 1) /\ ~(x.inicio <= a /\ a < x.inicio + x.tamanio)
    BY <1>1, <1>6, <2>1 DEF Separados, Fin
  <2>3. b \in Seq(Celdas) /\ Len(b) = x.tamanio
    BY <1>1, BasuraEs, FilaDe
  <2>. HIDE DEF a, b
  <2>4. s.memoria \in [0..(T - 1) -> Celdas]
    BY <1>1, EstadoDe
  <2>5. m[a] = IF x.inicio <= a /\ a < x.inicio + Len(b) THEN b[a - x.inicio + 1] ELSE s.memoria[a]
    BY <1>1, <2>2, <2>3, <2>4, CopiarDe
  <2>. QED
    BY <2>2, <2>3, <2>5 DEF a
<1>. HIDE DEF e, m, h
<1>. QED
  BY <1>2, <1>4, <1>5, <1>6 DEF Repartida, e

-------------------------------------------------------------------------------
\* The end of a crew: eliminar_segmento of each of its segments, one by one.
LEMMA EliminarPliegue ==
  ASSUME NEW T \in Nat, NEW d \in SegEstado(T), NEW p \in Seq(Segmento)
  PROVE  \E r \in [0..Len(p) -> SegEstado(T)] :
           /\ FoldLeft(EliminarSegmento, d, p) = r[Len(p)]
           /\ r[0] = d
           /\ \A k \in 1..Len(p) : r[k] = EliminarSegmento(r[k - 1], p[k])
<1>. DEFINE n == Len(p)
            V == SegEstado(T)
            F == [z \in (1..n) \X V |-> EliminarSegmento(z[2], p[z[1]])]
            iter == CHOOSE h : h = [s \in SUBSET DOMAIN p |->
                      IF s = {} THEN d ELSE EliminarSegmento(h[s \ {Max(s)}], p[Max(s)])]
<1>1. n \in Nat /\ DOMAIN p = 1..n /\ \A k \in 1..n : p[k] \in Segmento
  BY LenProperties, ElementOfSeq
<1>2. PICK g, r : Fila(g, r, n, V, d, F)
  <2>1. Cerrada(F, 1..n, V)
    BY <1>1, EliminarTipo DEF Cerrada
  <2>2. d \in V
    OBVIOUS
  <2>. HIDE DEF F, V, n
  <2>. QED
    BY <1>1, <2>1, <2>2, FilaRecorre
<1>3. \A x \in 1..n, v \in V : F[<<x, v>>] = EliminarSegmento(v, p[x])
  OBVIOUS
<1>. HIDE DEF F, V, n
<1>4. \A s \in SUBSET (1..n) : g[s] = IF s = {} THEN d ELSE EliminarSegmento(g[s \ {Max(s)}], p[Max(s)])
  BY <1>2, <1>3 DEF Fila
<1>5. g = [s \in SUBSET DOMAIN p |-> IF s = {} THEN d ELSE EliminarSegmento(g[s \ {Max(s)}], p[Max(s)])]
  BY <1>1, <1>2, <1>4 DEF Fila
<1>6. iter = [s \in SUBSET DOMAIN p |-> IF s = {} THEN d ELSE EliminarSegmento(iter[s \ {Max(s)}], p[Max(s)])]
  BY <1>5
<1>7. FoldLeft(EliminarSegmento, d, p) = iter[DOMAIN p]
  BY DEF FoldLeft, MapThenFoldSet
<1>. HIDE DEF iter
<1>8. \A s \in SUBSET DOMAIN p : iter[s] = IF s = {} THEN d ELSE EliminarSegmento(iter[s \ {Max(s)}], p[Max(s)])
  BY <1>6, Zenon
<1>9. \A s \in SUBSET (1..n) : iter[s] = g[s]
  <2>. DEFINE Q == {s \in SUBSET (1..n) : iter[s] = g[s]}
  <2>1. {} \in Q
    BY <1>1, <1>4, <1>8
  <2>2. \A s \in SUBSET (1..n) : s # {} /\ s \ {Max(s)} \in Q => s \in Q
    BY <1>1, <1>4, <1>8
  <2>. HIDE DEF Q
  <2>3. \A s \in SUBSET (1..n) : s \in Q
    BY <1>1, <2>1, <2>2, InduccionFila
  <2>. QED
    BY <2>3 DEF Q
<1>10. FoldLeft(EliminarSegmento, d, p) = r[n]
  BY <1>1, <1>2, <1>7, <1>9 DEF Fila
<1>11. \A k \in 1..n : r[k] = EliminarSegmento(r[k - 1], p[k])
  BY <1>1, <1>2, <1>3 DEF Fila
<1>12. r \in [0..n -> V] /\ r[0] = d
  BY <1>2 DEF Fila
<1>. QED
  BY <1>10, <1>11, <1>12 DEF V, n

\* seg_eliminar_pcb frees the segments of a crew one after the other.
LEMMA EliminarTodos ==
  ASSUME NEW T \in Nat, NEW C, NEW d, Repartida(d, C, T), NEW p \in Seq(Segmento),
         ToSet(p) \subseteq C, IsInjective(p)
  PROVE  LET e == FoldLeft(EliminarSegmento, d, p)
         IN /\ Repartida(e, C \ ToSet(p), T) /\ e.procesos = d.procesos /\ e.caida = d.caida
            /\ \A y \in C \ ToSet(p), k \in Nat :
                 k < y.tamanio => e.memoria[y.inicio + k] = d.memoria[y.inicio + k]
<1>1. PICK r \in [0..Len(p) -> SegEstado(T)] :
        /\ FoldLeft(EliminarSegmento, d, p) = r[Len(p)]
        /\ r[0] = d
        /\ \A k \in 1..Len(p) : r[k] = EliminarSegmento(r[k - 1], p[k])
  BY EliminarPliegue DEF Repartida
<1>. DEFINE Hechos(n) == {p[i] : i \in 1..n}
            Bien(e, D) == /\ Repartida(e, D, T) /\ e.procesos = d.procesos /\ e.caida = d.caida
                          /\ \A y \in D, k \in Nat :
                               k < y.tamanio => e.memoria[y.inicio + k] = d.memoria[y.inicio + k]
            P == {n \in Nat : n <= Len(p) => Bien(r[n], C \ Hechos(n))}
<1>2. Len(p) \in Nat /\ DOMAIN p = 1..Len(p) /\ \A i \in 1..Len(p) : p[i] \in C
  BY LenProperties DEF ToSet
<1>3. 0 \in P
  <2>1. Hechos(0) = {}
    OBVIOUS
  <2>2. C \ Hechos(0) = C
    BY <2>1
  <2>. HIDE DEF Hechos
  <2>. QED
    BY <1>1, <2>2
<1>4. ASSUME NEW n \in Nat, n \in P PROVE n + 1 \in P
  <2>1. SUFFICES ASSUME n + 1 <= Len(p) PROVE Bien(r[n + 1], C \ Hechos(n + 1))
    OBVIOUS
  <2>. DEFINE D == C \ Hechos(n)
              x == p[n + 1]
  <2>2. Bien(r[n], D) /\ n + 1 \in 1..Len(p) /\ (n + 1) - 1 = n
    BY <1>2, <1>4, <2>1
  <2>3. r[n + 1] = EliminarSegmento(r[n], x)
    BY <1>1, <2>2
  <2>4. x \in D
    <3>1. \A i \in 1..n : i \in 1..Len(p) /\ i # n + 1
      BY <1>2, <2>1
    <3>2. \A i \in 1..n : p[i] # x
      BY <1>2, <2>2, <3>1 DEF IsInjective
    <3>. QED
      BY <1>2, <2>2, <3>2
  <2>5. C \ Hechos(n + 1) = D \ {x}
    <3>1. \A i \in 1..(n + 1) : i \in 1..n \/ i = n + 1
      OBVIOUS
    <3>2. 1..n \subseteq 1..(n + 1) /\ n + 1 \in 1..(n + 1)
      OBVIOUS
    <3>. QED
      BY <3>1, <3>2
  <2>. HIDE DEF D, x, Hechos
  <2>6. Bien(r[n + 1], D \ {x})
    <3>. DEFINE e == EliminarSegmento(r[n], x)
    <3>1. /\ Repartida(e, D \ {x}, T) /\ e.procesos = r[n].procesos /\ e.caida = r[n].caida
          /\ \A y \in D \ {x}, k \in Nat :
               k < y.tamanio => e.memoria[y.inicio + k] = r[n].memoria[y.inicio + k]
      BY <2>2, <2>4, EliminarDe
    <3>. HIDE DEF e
    <3>2. Bien(e, D \ {x})
      BY <2>2, <3>1
    <3>. QED
      BY <2>3, <3>2 DEF e
  <2>. QED
    BY <2>5, <2>6
<1>5. \A n \in Nat : n \in P
  <2>. HIDE DEF P
  <2>. QED
    BY <1>3, <1>4, Induccion
<1>6. Bien(r[Len(p)], C \ Hechos(Len(p)))
  <2>1. Len(p) \in P /\ Len(p) <= Len(p)
    <3>. HIDE DEF P
    <3>. QED
      BY <1>2, <1>5
  <2>. HIDE DEF Bien, Hechos
  <2>. QED
    BY <2>1
<1>7. Hechos(Len(p)) = ToSet(p)
  BY <1>2 DEF ToSet
<1>. HIDE DEF Hechos
<1>. QED
  BY <1>1, <1>6, <1>7

-------------------------------------------------------------------------------
\* The segments of a process are among all the segments.
LEMMA SegmentosDe ==
  ASSUME NEW T, NEW s \in SegEstado(T)
  PROVE  /\ Segmentos(s) \subseteq Segmento
         /\ \A pid \in DOMAIN s.procesos : /\ s.procesos[pid] \in Seq(Segmento)
                                           /\ Len(s.procesos[pid]) \in Nat
                                           /\ DOMAIN s.procesos[pid] = 1..Len(s.procesos[pid])
         /\ \A pid \in DOMAIN s.procesos, i \in Nat :
              i \in DOMAIN s.procesos[pid] => s.procesos[pid][i] \in Segmentos(s)
         /\ \A x \in Segmentos(s) : \E pid \in DOMAIN s.procesos : \E i \in DOMAIN s.procesos[pid] : x = s.procesos[pid][i]
<1>1. \A pid \in DOMAIN s.procesos : s.procesos[pid] \in Seq(Segmento)
  BY EstadoDe
<1>2. \A pid \in DOMAIN s.procesos : /\ Len(s.procesos[pid]) \in Nat
                                     /\ DOMAIN s.procesos[pid] = 1..Len(s.procesos[pid])
                                     /\ \A i \in DOMAIN s.procesos[pid] : s.procesos[pid][i] \in Segmento
  BY <1>1, LenProperties, ElementOfSeq
<1>. QED
  BY <1>1, <1>2 DEF Segmentos, ToSet

\* The cells of a segment, where they were, are what it holds.
LEMMA ContenidoDe ==
  ASSUME NEW T \in Nat, NEW s \in SegEstado(T), NEW x \in Segmento, Fin(x) <= T
  PROVE  /\ Contenido(s, x) \in Seq(Celdas) /\ Len(Contenido(s, x)) = x.tamanio
         /\ \A k \in 1..x.tamanio : Contenido(s, x)[k] = s.memoria[x.inicio + k - 1]
<1>1. x.inicio \in Nat /\ x.tamanio \in Nat /\ s.memoria \in [0..(T - 1) -> Celdas]
  BY EstadoDe DEF Segmento
<1>2. \A k \in 1..x.tamanio : x.inicio + k - 1 \in 0..(T - 1)
  BY <1>1 DEF Fin
<1>3. Contenido(s, x) \in [1..x.tamanio -> Celdas]
  BY <1>1, <1>2 DEF Contenido
<1>. QED
  BY <1>1, <1>3, FilaDe DEF Contenido

\* The copy that compactacion makes of the memory.
LEMMA CompactarMemoria ==
  ASSUME NEW T \in Nat, NEW s \in SegEstado(T), Bloques(Segmentos(s), T)
  PROVE  LET todos == Segmentos(s)
             m == FoldSet(LAMBDA x, memoria : Copiar(memoria, Suma({y \in todos : y.inicio < x.inicio}), Contenido(s, x)),
                          [a \in DOMAIN s.memoria |-> Basura], todos)
         IN /\ m \in [0..(T - 1) -> Celdas]
            /\ \A x \in todos, k \in Nat : k < x.tamanio => m[Base(todos, x) + k] = s.memoria[x.inicio + k]
<1>. DEFINE todos == Segmentos(s)
            m == FoldSet(LAMBDA x, memoria : Copiar(memoria, Suma({y \in todos : y.inicio < x.inicio}), Contenido(s, x)),
                         [a \in DOMAIN s.memoria |-> Basura], todos)
            base == [a \in DOMAIN s.memoria |-> Basura]
            V == [0..(T - 1) -> Celdas]
            Op(x, v) == Copiar(v, Base(todos, x), Contenido(s, x))
            F == [z \in todos \X V |-> Op(z[1], z[2])]
            c == [t \in SUBSET todos |-> Uno(t)]
            iter == CHOOSE h : h = [t \in SUBSET todos |->
                      IF t = {} THEN base ELSE Copiar(h[t \ {Uno(t)}], Suma({y \in todos : y.inicio < Uno(t).inicio}), Contenido(s, Uno(t)))]
<1>1. /\ IsFiniteSet(todos)
      /\ \A x \in todos : x \in Segmento /\ x.inicio \in Nat /\ x.tamanio \in Nat /\ Fin(x) <= T
      /\ \A x \in todos : Base(todos, x) \in Nat /\ Base(todos, x) + x.tamanio <= T
      /\ \A x, y \in todos : x # y => \/ Base(todos, x) + x.tamanio <= Base(todos, y)
                                      \/ Base(todos, y) + y.tamanio <= Base(todos, x)
  <2>1. \A x \in todos : /\ Movido(todos, x) \in Segmento /\ Movido(todos, x).inicio = Base(todos, x)
                         /\ Movido(todos, x).tamanio = x.tamanio /\ Fin(Movido(todos, x)) <= T
    BY RepartoCompactar
  <2>2. \A x, y \in todos : x # y => Separados(Movido(todos, x), Movido(todos, y))
    BY RepartoCompactar
  <2>. QED
    BY <2>1, <2>2 DEF Bloques, Segmento, Fin, Separados
<1>2. ASSUME NEW x \in todos, NEW v \in V
      PROVE  /\ Op(x, v) \in V
             /\ \A a \in 0..(T - 1) :
                  Op(x, v)[a] = IF Base(todos, x) <= a /\ a < Base(todos, x) + x.tamanio
                                THEN s.memoria[x.inicio + (a - Base(todos, x))] ELSE v[a]
  <2>. DEFINE d == Contenido(s, x)
              b == Base(todos, x)
  <2>1. d \in Seq(Celdas) /\ Len(d) = x.tamanio /\ \A k \in 1..x.tamanio : d[k] = s.memoria[x.inicio + k - 1]
    BY <1>1, ContenidoDe
  <2>2. b \in Nat
    BY <1>1
  <2>. HIDE DEF d, b
  <2>3. /\ Copiar(v, b, d) \in V
        /\ \A a \in 0..(T - 1) : Copiar(v, b, d)[a] = IF b <= a /\ a < b + Len(d) THEN d[a - b + 1] ELSE v[a]
    <3>1. v \in [0..(T - 1) -> Celdas] /\ d \in Seq(Celdas) /\ b \in Nat /\ T \in Nat
      BY <2>1, <2>2
    <3>. QED
      BY ONLY <3>1, CopiarDe DEF V
  <2>4. \A a \in 0..(T - 1) : b <= a /\ a < b + x.tamanio => d[a - b + 1] = s.memoria[x.inicio + (a - b)]
    <3>1. SUFFICES ASSUME NEW a \in 0..(T - 1), b <= a, a < b + x.tamanio
                   PROVE  d[a - b + 1] = s.memoria[x.inicio + (a - b)]
      OBVIOUS
    <3>2. x.inicio \in Nat /\ x.tamanio \in Nat
      BY <1>1
    <3>3. a - b + 1 \in 1..x.tamanio /\ x.inicio + (a - b + 1) - 1 = x.inicio + (a - b)
      BY <2>2, <3>1, <3>2
    <3>. QED
      BY <2>1, <3>3
  <2>. QED
    BY <2>1, <2>3, <2>4 DEF d, b
<1>3. base \in V
  BY BasuraEs, EstadoDe
<1>4. Elige(c, todos)
  BY DEF Elige, Uno
<1>. HIDE DEF Op
<1>5. PICK g \in [SUBSET todos -> V] : Recorre(g, todos, base, c, F)
  <2>1. Cerrada(F, todos, V)
    BY <1>2 DEF Cerrada
  <2>. HIDE DEF F, c, V, base, todos
  <2>. QED
    BY <1>1, <1>3, <1>4, <2>1, Recurrencia
<1>6. \A t \in SUBSET todos : t # {} => Uno(t) \in todos /\ Uno(t) \in t /\ t \ {Uno(t)} \in SUBSET todos
  BY DEF Uno
<1>. HIDE DEF todos, V, base
<1>7. \A t \in SUBSET todos : g[t] = IF t = {} THEN base ELSE Op(Uno(t), g[t \ {Uno(t)}])
  BY <1>5, <1>6 DEF Recorre
<1>8. \A t \in SUBSET todos :
        g[t] = IF t = {} THEN base ELSE Copiar(g[t \ {Uno(t)}], Suma({y \in todos : y.inicio < Uno(t).inicio}), Contenido(s, Uno(t)))
  BY <1>7 DEF Op, Base, Antes
<1>9. g = [t \in SUBSET todos |->
             IF t = {} THEN base ELSE Copiar(g[t \ {Uno(t)}], Suma({y \in todos : y.inicio < Uno(t).inicio}), Contenido(s, Uno(t)))]
  BY <1>8
<1>10. iter = [t \in SUBSET todos |->
             IF t = {} THEN base ELSE Copiar(iter[t \ {Uno(t)}], Suma({y \in todos : y.inicio < Uno(t).inicio}), Contenido(s, Uno(t)))]
  BY <1>9
<1>11. m = iter[todos]
  BY DEF FoldSet, MapThenFoldSet, Uno, base
<1>. HIDE DEF iter
<1>12. \A t \in SUBSET todos :
        iter[t] = IF t = {} THEN base ELSE Copiar(iter[t \ {Uno(t)}], Suma({y \in todos : y.inicio < Uno(t).inicio}), Contenido(s, Uno(t)))
  BY <1>10, Zenon
<1>13. \A t \in SUBSET todos : iter[t] = g[t]
  <2>. DEFINE Q == {t \in SUBSET todos : iter[t] = g[t]}
  <2>1. {} \in Q
    BY <1>8, <1>12
  <2>2. \A t \in SUBSET todos : t # {} /\ t \ {c[t]} \in Q => t \in Q
    BY <1>8, <1>12
  <2>. HIDE DEF Q, c
  <2>3. \A t \in SUBSET todos : t \in Q
    BY <1>1, <1>4, <2>1, <2>2, InduccionPartes
  <2>. QED
    BY <2>3 DEF Q
<1>14. \A t \in SUBSET todos : \A x \in t, k \in Nat : k < x.tamanio => g[t][Base(todos, x) + k] = s.memoria[x.inicio + k]
  <2>. DEFINE Q == {t \in SUBSET todos : \A x \in t, k \in Nat :
                      k < x.tamanio => g[t][Base(todos, x) + k] = s.memoria[x.inicio + k]}
  <2>1. {} \in Q
    OBVIOUS
  <2>2. ASSUME NEW t \in SUBSET todos, t # {}, t \ {Uno(t)} \in Q PROVE t \in Q
    <3>. DEFINE y == Uno(t)
                v == g[t \ {y}]
    <3>1. y \in todos /\ y \in t /\ v \in V /\ g[t] = Op(y, v)
      BY <1>5, <1>6, <1>7, <2>2
    <3>. HIDE DEF y, v
    <3>2. ASSUME NEW x \in t, NEW k \in Nat, k < x.tamanio
          PROVE  g[t][Base(todos, x) + k] = s.memoria[x.inicio + k]
      <4>. DEFINE a == Base(todos, x) + k
      <4>1. /\ Base(todos, x) \in Nat /\ x.tamanio \in Nat /\ x.inicio \in Nat /\ a \in 0..(T - 1)
            /\ Base(todos, y) \in Nat /\ y.tamanio \in Nat
        BY <1>1, <3>1, <3>2
      <4>2. g[t][a] = IF Base(todos, y) <= a /\ a < Base(todos, y) + y.tamanio
                      THEN s.memoria[y.inicio + (a - Base(todos, y))] ELSE v[a]
        <5>. HIDE DEF a
        <5>. QED
          BY <1>2, <3>1, <4>1
      <4>3. CASE x = y
        <5>1. Base(todos, y) <= a /\ a < Base(todos, y) + y.tamanio /\ a - Base(todos, y) = k
          BY <3>2, <4>1, <4>3
        <5>. HIDE DEF a
        <5>2. g[t][a] = s.memoria[y.inicio + k]
          BY <4>2, <5>1
        <5>. QED
          BY <4>3, <5>2 DEF a
      <4>4. CASE x # y
        <5>1. \/ Base(todos, x) + x.tamanio <= Base(todos, y)
              \/ Base(todos, y) + y.tamanio <= Base(todos, x)
          BY <1>1, <3>1, <4>4
        <5>2. ~(Base(todos, y) <= a /\ a < Base(todos, y) + y.tamanio)
          BY <3>2, <4>1, <5>1
        <5>3. x \in t \ {y} /\ v[a] = s.memoria[x.inicio + k]
          BY <2>2, <3>2, <4>4 DEF y, v
        <5>. HIDE DEF a
        <5>. QED
          BY <4>2, <5>2, <5>3 DEF a
      <4>. QED
        BY <4>3, <4>4
    <3>. QED
      BY <3>2
  <2>3. \A t \in SUBSET todos : t # {} /\ t \ {c[t]} \in Q => t \in Q
    BY <2>2
  <2>. HIDE DEF Q, c
  <2>4. \A t \in SUBSET todos : t \in Q
    BY <1>1, <1>4, <2>1, <2>3, InduccionPartes
  <2>. QED
    BY <2>4 DEF Q
<1>15. m = g[todos]
  BY <1>11, <1>13
<1>16. m \in V /\ \A x \in todos, k \in Nat : k < x.tamanio => m[Base(todos, x) + k] = s.memoria[x.inicio + k]
  <2>. HIDE DEF m
  <2>. QED
    BY <1>5, <1>14, <1>15
<1>. QED
  BY <1>16 DEF todos, V

-------------------------------------------------------------------------------
\* compactacion, as a whole.
LEMMA CompactarDe ==
  ASSUME NEW T \in Nat, config.tamanio = T, NEW s \in SegEstado(T), Bloques(Segmentos(s), T)
  PROVE  LET C == Segmentos(s)
             e == Compactacion(s)
         IN /\ e \in SegEstado(T) /\ e.caida = s.caida /\ e.huecos = Resta(C, T)
            /\ DOMAIN e.procesos = DOMAIN s.procesos
            /\ \A pid \in DOMAIN s.procesos :
                 e.procesos[pid] = [i \in DOMAIN s.procesos[pid] |-> Movido(C, s.procesos[pid][i])]
            /\ \A x \in C, k \in Nat : k < x.tamanio => e.memoria[Base(C, x) + k] = s.memoria[x.inicio + k]
<1>. DEFINE C == Segmentos(s)
            e == Compactacion(s)
            m == FoldSet(LAMBDA x, memoria : Copiar(memoria, Suma({y \in C : y.inicio < x.inicio}), Contenido(s, x)),
                         [a \in DOMAIN s.memoria |-> Basura], C)
            p == [pid \in DOMAIN s.procesos |-> [i \in DOMAIN s.procesos[pid] |->
                    [s.procesos[pid][i] EXCEPT !.inicio = Suma({y \in C : y.inicio < s.procesos[pid][i].inicio})]]]
            h == IF Suma(C) < T THEN <<[inicio |-> Suma(C), tamanio |-> T - Suma(C)]>> ELSE <<>>
<1>1. e = [s EXCEPT !.memoria = m, !.procesos = p, !.huecos = h]
  BY DEF Compactacion
<1>2. m \in [0..(T - 1) -> Celdas]
  BY CompactarMemoria
<1>3. \A x \in C, k \in Nat : k < x.tamanio => m[Base(C, x) + k] = s.memoria[x.inicio + k]
  BY CompactarMemoria
<1>4. h = Resta(C, T)
  BY DEF Resta
<1>5. h \in Seq(Segmento)
  <2>1. Suma(C) \in Nat
    BY BasesDe
  <2>. HIDE DEF C
  <2>2. CASE Suma(C) < T
    <3>1. [inicio |-> Suma(C), tamanio |-> T - Suma(C)] \in Segmento
      BY <2>1, <2>2 DEF Segmento
    <3>. QED
      BY <2>2, <3>1
  <2>3. CASE ~(Suma(C) < T)
    BY <2>3
  <2>. QED
    BY <2>2, <2>3
<1>6. \A pid \in DOMAIN s.procesos : p[pid] = [i \in DOMAIN s.procesos[pid] |-> Movido(C, s.procesos[pid][i])]
  BY DEF Movido, Base, Antes
<1>. HIDE DEF m, h, p, C
<1>7. p \in [DOMAIN s.procesos -> Seq(Segmento)]
  <2>1. ASSUME NEW pid \in DOMAIN s.procesos PROVE p[pid] \in Seq(Segmento)
    <3>1. /\ Len(s.procesos[pid]) \in Nat /\ DOMAIN s.procesos[pid] = 1..Len(s.procesos[pid])
          /\ \A i \in 1..Len(s.procesos[pid]) : s.procesos[pid][i] \in C
      BY SegmentosDe DEF C
    <3>2. \A x \in C : Movido(C, x) \in Segmento
      BY RepartoCompactar DEF C
    <3>3. p[pid] \in [1..Len(s.procesos[pid]) -> Segmento]
      <4>. DEFINE q == s.procesos[pid]
                  f == [i \in 1..Len(q) |-> Movido(C, q[i])]
      <4>1. p[pid] = f
        BY <1>6, <3>1
      <4>2. \A i \in 1..Len(q) : Movido(C, q[i]) \in Segmento
        BY <3>1, <3>2
      <4>3. f \in [1..Len(q) -> Segmento]
        <5>. HIDE DEF q
        <5>. QED
          BY <4>2
      <4>. HIDE DEF f
      <4>. QED
        BY <4>1, <4>3
    <3>. QED
      BY <3>1, <3>3, FilaDe
  <2>2. DOMAIN p = DOMAIN s.procesos /\ p = [pid \in DOMAIN s.procesos |-> p[pid]]
    BY DEF p
  <2>. QED
    BY <2>1, <2>2
<1>8. DOMAIN s.procesos \in SUBSET Pids
  BY EstadoDe
<1>9. e \in SegEstado(T) /\ e.memoria = m /\ e.procesos = p /\ e.huecos = h /\ e.caida = s.caida
  <2>. DEFINE r == [s EXCEPT !.memoria = m, !.procesos = p, !.huecos = h]
  <2>1. p \in UNION {[D -> Seq(Segmento)] : D \in SUBSET Pids}
    BY <1>7, <1>8
  <2>2. r \in SegEstado(T) /\ r.memoria = m /\ r.procesos = p /\ r.huecos = h /\ r.caida = s.caida
    BY <1>2, <1>5, <2>1 DEF SegEstado
  <2>. HIDE DEF r, e
  <2>3. e = r
    BY <1>1 DEF r
  <2>. QED
    BY <2>2, <2>3
<1>. HIDE DEF e
<1>10. DOMAIN p = DOMAIN s.procesos
  BY <1>7
<1>. QED
  BY <1>3, <1>4, <1>6, <1>9, <1>10 DEF C, e

\* buscar_hueco finds one that fits, when there is one.
LEMMA HuecoDe ==
  ASSUME NEW T, NEW s \in SegEstado(T), NEW n \in Nat, Alcanzan(s, n) # {}
  PROVE  BuscarHueco(s, n) \in 1..Len(s.huecos) /\ s.huecos[BuscarHueco(s, n)].tamanio >= n
<1>. DEFINE A == Alcanzan(s, n)
            I == {s.huecos[i].tamanio : i \in A}
            peor(i, j) == config.criterio = "BF" /\ s.huecos[j].tamanio < s.huecos[i].tamanio
            B == {i \in A : \A j \in A : ~peor(i, j)}
<1>1. Len(s.huecos) \in Nat /\ DOMAIN s.huecos = 1..Len(s.huecos) /\ \A i \in 1..Len(s.huecos) : s.huecos[i] \in Segmento
  BY EstadoDe, LenProperties, ElementOfSeq
<1>2. \A i \in A : i \in 1..Len(s.huecos) /\ s.huecos[i].tamanio >= n /\ s.huecos[i].tamanio \in Nat
  BY <1>1 DEF Alcanzan, Segmento
<1>3. I \in SUBSET Nat /\ I # {}
  BY <1>2
<1>4. Min(I) \in I /\ \A j \in I : Min(I) <= j
  BY <1>3, MinimoDe
<1>. HIDE DEF A
<1>5. PICK i \in A : s.huecos[i].tamanio = Min(I)
  BY <1>4
<1>6. \A j \in A : s.huecos[i].tamanio <= s.huecos[j].tamanio
  BY <1>4, <1>5
<1>7. i \in B
  BY <1>2, <1>6
<1>8. B \in SUBSET Nat /\ B # {}
  BY <1>1, <1>2, <1>7
<1>9. Min(B) \in B
  <2>. HIDE DEF B
  <2>. QED
    BY <1>8, MinimoDe
<1>10. BuscarHueco(s, n) = Min(B)
  BY DEF BuscarHueco, A
<1>. QED
  BY <1>2, <1>9, <1>10

\* The part of guardar_segmento that takes the hole.
Ocupada(c, pid, contenido) ==
  LET n == Len(contenido)
      i == BuscarHueco(c, n)
      x == c.huecos[i]
  IN [c EXCEPT !.huecos = IF x.tamanio # n THEN ReplaceAt(@, i, Resto(x, n)) ELSE RemoveAt(@, i),
               !.memoria = Copiar(@, x.inicio, contenido),
               !.procesos[pid] = Append(@, [inicio |-> x.inicio, tamanio |-> n])]

Ocupa(c, e, C, T, pid, contenido, b) ==
  /\ b.tamanio = Len(contenido) /\ b \notin C /\ Repartida(e, C \cup {b}, T) /\ e.caida = c.caida
  /\ e.procesos = [c.procesos EXCEPT ![pid] = Append(@, b)]
  /\ \A y \in C, k \in Nat : k < y.tamanio => e.memoria[y.inicio + k] = c.memoria[y.inicio + k]
  /\ \A k \in 1..Len(contenido) : e.memoria[b.inicio + k - 1] = contenido[k]

\* guardar_segmento in a hole that fits: the segment takes cells of that hole.
LEMMA OcuparDe ==
  ASSUME NEW T \in Nat, NEW C, NEW c, Repartida(c, C, T), NEW pid \in DOMAIN c.procesos,
         NEW contenido \in Seq(Celdas), contenido # <<>>, Alcanzan(c, Len(contenido)) # {}
  PROVE  \E b \in Segmento : Ocupa(c, Ocupada(c, pid, contenido), C, T, pid, contenido, b)
<1>. DEFINE n == Len(contenido)
            i == BuscarHueco(c, n)
            x == c.huecos[i]
            b == [inicio |-> x.inicio, tamanio |-> n]
            h == IF x.tamanio # n THEN ReplaceAt(c.huecos, i, Resto(x, n)) ELSE RemoveAt(c.huecos, i)
            m == Copiar(c.memoria, x.inicio, contenido)
            p == [c.procesos EXCEPT ![pid] = Append(@, b)]
            e == Ocupada(c, pid, contenido)
            H == ToSet(c.huecos)
<1>1. /\ c \in SegEstado(T) /\ Orden(c.huecos) /\ Reparto(C, H, T) /\ c.huecos \in Seq(Segmento)
      /\ c.memoria \in [0..(T - 1) -> Celdas] /\ DOMAIN c.procesos \in SUBSET Pids
      /\ c.procesos \in [DOMAIN c.procesos -> Seq(Segmento)]
  BY EstadoDe DEF Repartida
<1>2. n \in Nat /\ n >= 1
  BY EmptySeq, LenProperties
<1>3. i \in 1..Len(c.huecos) /\ x.tamanio >= n
  BY <1>1, <1>2, HuecoDe
<1>. HIDE DEF i, n
<1>4. x \in H /\ x \in Segmento /\ x.inicio \in Nat /\ x.tamanio \in Nat /\ Fin(x) <= T
  <2>1. x \in H
    BY <1>1, <1>3, OrdenDe
  <2>. HIDE DEF x, H
  <2>. QED
    BY <1>1, <2>1 DEF Reparto, Segmento
<1>5. b \in Segmento /\ b.inicio = x.inicio /\ b.tamanio = n
  BY <1>2, <1>4 DEF Segmento
<1>6. h \in Seq(Segmento) /\ Orden(h) /\ Reparto(C \cup {b}, ToSet(h), T) /\ b \notin C /\ \A y \in C : Separados(b, y)
  <2>1. CASE x.tamanio = n
    <3>1. b = x
      BY <1>4, <2>1 DEF Segmento
    <3>2. h = RemoveAt(c.huecos, i)
      BY <2>1
    <3>. HIDE DEF h, b, H
    <3>3. h \in Seq(Segmento) /\ Orden(h) /\ ToSet(h) = H \ {x}
      BY <1>1, <1>3, <3>2, OrdenQuitar DEF H
    <3>. HIDE DEF x
    <3>4. Reparto(C \cup {x}, H \ {x}, T) /\ x \notin C
      <4>1. x.tamanio >= 1
        BY <1>2, <2>1
      <4>. QED
        BY <1>1, <1>4, <4>1, RepartoOcupar
    <3>5. \A y \in C : Separados(x, y)
      BY <1>1, <1>4, <3>4 DEF Reparto
    <3>. QED
      BY <3>1, <3>3, <3>4, <3>5
  <2>2. CASE x.tamanio # n
    <3>. DEFINE q == Resto(x, n)
    <3>1. n < x.tamanio
      BY <1>2, <1>3, <1>4, <2>2
    <3>2. /\ Reparto(C \cup {b}, (H \ {x}) \cup {q}, T) /\ b \notin C
          /\ \A y \in H : x.inicio < y.inicio => x.inicio + n < y.inicio
          /\ \A y \in C : Separados(b, y)
      <4>. HIDE DEF x, H
      <4>. QED
        BY <1>1, <1>2, <1>4, <3>1, RepartoPartir
    <3>3. q \in Segmento /\ q.inicio = x.inicio + n
      BY <1>2, <1>4, <3>1 DEF Resto, Segmento
    <3>. HIDE DEF q
    <3>4. h = ReplaceAt(c.huecos, i, q)
      BY <2>2 DEF q
    <3>. HIDE DEF h, b
    <3>5. h \in Seq(Segmento) /\ Orden(h) /\ ToSet(h) = (H \ {x}) \cup {q}
      <4>1. x.inicio <= q.inicio
        BY <1>2, <1>4, <3>3
      <4>2. \A y \in ToSet(c.huecos) : x.inicio < y.inicio => q.inicio < y.inicio
        BY <3>2, <3>3
      <4>. QED
        BY SMTT(40), <1>1, <1>3, <3>3, <3>4, <4>1, <4>2, OrdenCambiar
    <3>. HIDE DEF x, H
    <3>. QED
      BY <3>2, <3>5
  <2>. QED
    BY <2>1, <2>2
<1>7. m \in [0..(T - 1) -> Celdas]
  BY <1>1, <1>4, CopiarDe
<1>8. \A a \in 0..(T - 1) : m[a] = IF x.inicio <= a /\ a < x.inicio + n THEN contenido[a - x.inicio + 1] ELSE c.memoria[a]
  <2>. DEFINE cm == c.memoria
              d == x.inicio
  <2>1. cm \in [0..(T - 1) -> Celdas] /\ d \in Nat
    BY <1>1, <1>4
  <2>. HIDE DEF cm, d
  <2>2. \A a \in 0..(T - 1) :
          Copiar(cm, d, contenido)[a] = IF d <= a /\ a < d + Len(contenido) THEN contenido[a - d + 1] ELSE cm[a]
    BY <2>1, CopiarDe
  <2>. QED
    BY <2>2 DEF cm, d, n
<1>9. e = [c EXCEPT !.huecos = h, !.memoria = m, !.procesos = p]
  BY DEF Ocupada, n, i
<1>10. p \in [DOMAIN c.procesos -> Seq(Segmento)]
  <2>1. Append(c.procesos[pid], b) \in Seq(Segmento)
    BY <1>1, <1>5, AppendProperties
  <2>. HIDE DEF b
  <2>. QED
    BY <1>1, <2>1
<1>. HIDE DEF h, m, p, b
<1>11. e \in SegEstado(T) /\ e.memoria = m /\ e.procesos = p /\ e.huecos = h /\ e.caida = c.caida
  <2>. DEFINE r == [c EXCEPT !.huecos = h, !.memoria = m, !.procesos = p]
  <2>1. p \in UNION {[D -> Seq(Segmento)] : D \in SUBSET Pids}
    BY <1>1, <1>10
  <2>2. r \in SegEstado(T) /\ r.memoria = m /\ r.procesos = p /\ r.huecos = h /\ r.caida = c.caida
    BY <1>1, <1>6, <1>7, <2>1 DEF SegEstado
  <2>. HIDE DEF r, e
  <2>3. e = r
    BY <1>9 DEF r
  <2>. QED
    BY <2>2, <2>3
<1>. HIDE DEF e, x
<1>12. \A y \in C, k \in Nat : k < y.tamanio => m[y.inicio + k] = c.memoria[y.inicio + k]
  <2>1. SUFFICES ASSUME NEW y \in C, NEW k \in Nat, k < y.tamanio
                 PROVE  m[y.inicio + k] = c.memoria[y.inicio + k]
    OBVIOUS
  <2>2. y.inicio \in Nat /\ y.tamanio \in Nat /\ Fin(y) <= T /\ Separados(b, y)
    BY <1>1, <1>6 DEF Reparto, Bloques, Segmento
  <2>3. y.inicio + y.tamanio <= T /\ (x.inicio + n <= y.inicio \/ y.inicio + y.tamanio <= x.inicio)
    BY <1>5, <2>2 DEF Separados, Fin
  <2>4. y.inicio + k \in 0..(T - 1) /\ ~(x.inicio <= y.inicio + k /\ y.inicio + k < x.inicio + n)
    <3>. DEFINE u == y.inicio
                v == y.tamanio
                w == x.inicio
    <3>1. n \in Nat /\ u \in Nat /\ v \in Nat /\ w \in Nat /\ k \in Nat /\ k < v
      BY <1>2, <1>4, <2>1, <2>2
    <3>2. u + v <= T /\ (w + n <= u \/ u + v <= w)
      BY <2>3
    <3>. HIDE DEF u, v, w
    <3>3. u + k \in 0..(T - 1) /\ ~(w <= u + k /\ u + k < w + n)
      BY <3>1, <3>2
    <3>. QED
      BY <3>3 DEF u, w
  <2>. QED
    BY <1>8, <2>4
<1>13. \A k \in 1..n : m[b.inicio + k - 1] = contenido[k]
  <2>1. SUFFICES ASSUME NEW k \in 1..n PROVE m[x.inicio + k - 1] = contenido[k]
    BY <1>5
  <2>2. /\ x.inicio + k - 1 \in 0..(T - 1) /\ x.inicio <= x.inicio + k - 1 /\ x.inicio + k - 1 < x.inicio + n
        /\ (x.inicio + k - 1) - x.inicio + 1 = k
    BY SMTT(40), <1>2, <1>3, <1>4, <2>1 DEF Fin
  <2>. QED
    BY <1>8, <2>2
<1>14. Repartida(e, C \cup {b}, T)
  BY <1>6, <1>11 DEF Repartida
<1>15. e.procesos = [c.procesos EXCEPT ![pid] = Append(@, b)]
  BY <1>11 DEF p
<1>16. Ocupa(c, e, C, T, pid, contenido, b)
  BY <1>5, <1>6, <1>11, <1>12, <1>13, <1>14, <1>15 DEF n, Ocupa
<1>. QED
  BY <1>5, <1>16 DEF e

-------------------------------------------------------------------------------
\* Each segment is in the list of one process, once.
Unico(s) ==
  \A p, q \in DOMAIN s.procesos : \A i \in DOMAIN s.procesos[p], j \in DOMAIN s.procesos[q] :
    s.procesos[p][i] = s.procesos[q][j] => p = q /\ i = j
SegBien(s, T) == Repartida(s, Segmentos(s), T) /\ Unico(s)

\* The segment i of a process holds in e what it held in s, wherever it is.
Igual(s, e, pid, i) ==
  LET x == s.procesos[pid][i]
      y == e.procesos[pid][i]
  IN /\ pid \in DOMAIN e.procesos /\ i \in DOMAIN e.procesos[pid] /\ y.tamanio = x.tamanio
     /\ \A k \in Nat : k < x.tamanio => e.memoria[y.inicio + k] = s.memoria[x.inicio + k]
Iguales(s, e) == \A pid \in DOMAIN s.procesos : \A i \in DOMAIN s.procesos[pid] : Igual(s, e, pid, i)

\* What is known of the segments, one by one.
LEMMA BienDe ==
  ASSUME NEW T \in Nat, NEW s, SegBien(s, T)
  PROVE  /\ s \in SegEstado(T) /\ Bloques(Segmentos(s), T) /\ Unico(s)
         /\ \A pid \in DOMAIN s.procesos : /\ s.procesos[pid] \in Seq(Segmento)
                                           /\ Len(s.procesos[pid]) \in Nat
                                           /\ DOMAIN s.procesos[pid] = 1..Len(s.procesos[pid])
         /\ \A pid \in DOMAIN s.procesos : \A i \in DOMAIN s.procesos[pid] :
              LET x == s.procesos[pid][i]
              IN /\ x \in Segmentos(s) /\ x.inicio \in Nat /\ x.tamanio \in Nat
                 /\ x.tamanio >= 1 /\ x.inicio + x.tamanio <= T
         /\ \A x \in Segmentos(s) : \E pid \in DOMAIN s.procesos : \E i \in DOMAIN s.procesos[pid] : x = s.procesos[pid][i]
<1>1. s \in SegEstado(T) /\ Bloques(Segmentos(s), T) /\ Unico(s)
  BY DEF SegBien, Repartida, Reparto
<1>2. \A x \in Segmentos(s) : x.inicio \in Nat /\ x.tamanio \in Nat /\ x.tamanio >= 1 /\ x.inicio + x.tamanio <= T
  BY <1>1 DEF Bloques, Segmento, Fin
<1>3. \A pid \in DOMAIN s.procesos : \A i \in DOMAIN s.procesos[pid] : s.procesos[pid][i] \in Segmentos(s)
  BY DEF Segmentos, ToSet
<1>4. /\ \A pid \in DOMAIN s.procesos : /\ s.procesos[pid] \in Seq(Segmento)
                                           /\ Len(s.procesos[pid]) \in Nat
                                           /\ DOMAIN s.procesos[pid] = 1..Len(s.procesos[pid])
      /\ \A x \in Segmentos(s) : \E pid \in DOMAIN s.procesos : \E i \in DOMAIN s.procesos[pid] : x = s.procesos[pid][i]
  BY <1>1, SegmentosDe
<1>. QED
  BY <1>1, <1>2, <1>3, <1>4

\* A segment is one of some process.
LEMMA SegmentosEn ==
  ASSUME NEW s, NEW x
  PROVE  x \in Segmentos(s) <=> \E pid \in DOMAIN s.procesos : \E i \in DOMAIN s.procesos[pid] : x = s.procesos[pid][i]
BY DEF Segmentos, ToSet

\* Compacting moves every segment with what it holds.
LEMMA CompactarBien ==
  ASSUME NEW T \in Nat, config.tamanio = T, NEW s, SegBien(s, T)
  PROVE  LET e == Compactacion(s)
         IN /\ SegBien(e, T) /\ e.caida = s.caida /\ DOMAIN e.procesos = DOMAIN s.procesos
            /\ \A pid \in DOMAIN s.procesos : Len(e.procesos[pid]) = Len(s.procesos[pid])
            /\ Iguales(s, e)
<1>. DEFINE C == Segmentos(s)
            e == Compactacion(s)
            M == Movidos(C)
<1>1. s \in SegEstado(T) /\ Bloques(C, T) /\ Unico(s)
  BY BienDe
<1>2. /\ e \in SegEstado(T) /\ e.caida = s.caida /\ e.huecos = Resta(C, T)
      /\ DOMAIN e.procesos = DOMAIN s.procesos
      /\ \A pid \in DOMAIN s.procesos :
           e.procesos[pid] = [i \in DOMAIN s.procesos[pid] |-> Movido(C, s.procesos[pid][i])]
      /\ \A x \in C, k \in Nat : k < x.tamanio => e.memoria[Base(C, x) + k] = s.memoria[x.inicio + k]
  BY <1>1, CompactarDe
<1>3. /\ Reparto(M, ToSet(Resta(C, T)), T)
      /\ \A x, y \in C : x # y => Separados(Movido(C, x), Movido(C, y))
      /\ \A x \in C : /\ Movido(C, x).inicio = Base(C, x) /\ Base(C, x) \in Nat
                      /\ Movido(C, x).tamanio = x.tamanio /\ x.tamanio \in Nat /\ x.tamanio >= 1
  <2>1. /\ Reparto(M, ToSet(Resta(C, T)), T)
        /\ \A x, y \in C : x # y => Separados(Movido(C, x), Movido(C, y))
        /\ \A x \in C : /\ Movido(C, x) \in Segmento /\ Movido(C, x).inicio = Base(C, x)
                         /\ Movido(C, x).tamanio = x.tamanio
    BY <1>1, RepartoCompactar
  <2>. QED
    BY <1>1, <2>1 DEF Bloques, Segmento
<1>. HIDE DEF e
<1>4. \A pid \in DOMAIN s.procesos : \A i \in DOMAIN s.procesos[pid] :
        s.procesos[pid][i] \in C /\ e.procesos[pid][i] = Movido(C, s.procesos[pid][i])
  BY <1>2, BienDe
<1>5. \A pid \in DOMAIN s.procesos : DOMAIN e.procesos[pid] = DOMAIN s.procesos[pid]
  BY <1>2
<1>6. Segmentos(e) = M
  <2>1. ASSUME NEW y \in Segmentos(e) PROVE y \in M
    <3>1. PICK pid \in DOMAIN e.procesos : \E i \in DOMAIN e.procesos[pid] : y = e.procesos[pid][i]
      BY SegmentosEn
    <3>2. PICK i \in DOMAIN e.procesos[pid] : y = e.procesos[pid][i]
      BY <3>1
    <3>3. pid \in DOMAIN s.procesos /\ i \in DOMAIN s.procesos[pid]
      BY <1>2, <1>5
    <3>. QED
      BY <1>4, <3>2, <3>3 DEF Movidos
  <2>2. ASSUME NEW x \in C PROVE Movido(C, x) \in Segmentos(e)
    <3>1. PICK pid \in DOMAIN s.procesos : \E i \in DOMAIN s.procesos[pid] : x = s.procesos[pid][i]
      BY BienDe
    <3>2. PICK i \in DOMAIN s.procesos[pid] : x = s.procesos[pid][i]
      BY <3>1
    <3>3. e.procesos[pid][i] = Movido(C, x) /\ i \in DOMAIN e.procesos[pid] /\ pid \in DOMAIN e.procesos
      BY <1>2, <1>4, <1>5, <3>2
    <3>. QED
      BY <3>3, SegmentosEn
  <2>. QED
    BY <2>1, <2>2 DEF Movidos
<1>7. Orden(e.huecos)
  <2>1. \A i, j \in DOMAIN e.huecos : i = 1 /\ j = 1
    BY <1>2 DEF Resta
  <2>. QED
    BY <2>1 DEF Orden
<1>. HIDE DEF C
<1>8. Unico(e)
  <2>1. \A x, y \in C : x # y => Movido(C, x) # Movido(C, y)
    BY <1>3 DEF Separados, Fin
  <2>. QED
    BY <1>1, <1>2, <1>4, <1>5, <2>1 DEF Unico
<1>9. SegBien(e, T)
  BY <1>2, <1>3, <1>6, <1>7, <1>8 DEF SegBien, Repartida
<1>10. \A pid \in DOMAIN s.procesos : Len(e.procesos[pid]) = Len(s.procesos[pid])
  <2>1. \A pid \in DOMAIN s.procesos : /\ Len(e.procesos[pid]) \in Nat /\ DOMAIN e.procesos[pid] = 1..Len(e.procesos[pid])
                                       /\ Len(s.procesos[pid]) \in Nat /\ DOMAIN s.procesos[pid] = 1..Len(s.procesos[pid])
    BY <1>2, <1>9, BienDe
  <2>2. \A n, m \in Nat : 1..n = 1..m => n = m
    <3>1. \A n, m \in Nat : 1..n = 1..m => ~(n < m)
      <4>1. ASSUME NEW n \in Nat, NEW m \in Nat, n < m PROVE m \in 1..m /\ m \notin 1..n
        BY <4>1
      <4>. QED
        BY <4>1
    <3>. QED
      BY <3>1
  <2>. QED
    BY <1>5, <2>1, <2>2
<1>11. Iguales(s, e)
  <2>1. SUFFICES ASSUME NEW pid \in DOMAIN s.procesos, NEW i \in DOMAIN s.procesos[pid]
                 PROVE  Igual(s, e, pid, i)
    BY DEF Iguales
  <2>. DEFINE x == s.procesos[pid][i]
  <2>2. x \in C /\ e.procesos[pid][i] = Movido(C, x)
    BY <1>4
  <2>3. e.procesos[pid][i].tamanio = x.tamanio /\ e.procesos[pid][i].inicio = Base(C, x)
    BY <1>3, <2>2
  <2>4. \A k \in Nat : k < x.tamanio => e.memoria[Base(C, x) + k] = s.memoria[x.inicio + k]
    BY <1>2, <2>2
  <2>5. pid \in DOMAIN e.procesos /\ i \in DOMAIN e.procesos[pid]
    BY <1>2, <1>5
  <2>. QED
    BY <2>3, <2>4, <2>5 DEF Igual
<1>. QED
  BY <1>2, <1>9, <1>10, <1>11 DEF e

\* Two steps that keep what every segment holds.
LEMMA IgualesDe ==
  ASSUME NEW s, NEW d, NEW e, Iguales(s, d), Iguales(d, e)
  PROVE  Iguales(s, e)
BY DEF Iguales, Igual

\* Doing nothing keeps what every segment holds.
LEMMA IgualesMismo == ASSUME NEW s PROVE Iguales(s, s)
BY DEF Iguales, Igual

\* e is c with one segment more, the last one of pid, that holds contenido.
ConSegmento(c, e, pid, contenido) ==
  LET n == Len(c.procesos[pid]) + 1
  IN /\ e.caida = c.caida /\ DOMAIN e.procesos = DOMAIN c.procesos /\ Iguales(c, e)
     /\ \A q \in DOMAIN c.procesos : q # pid => Len(e.procesos[q]) = Len(c.procesos[q])
     /\ Len(e.procesos[pid]) = n /\ e.procesos[pid][n].tamanio = Len(contenido)
     /\ \A k \in 1..Len(contenido) : e.memoria[e.procesos[pid][n].inicio + k - 1] = contenido[k]

\* A segment more for a process.
LEMMA OcuparBien ==
  ASSUME NEW T \in Nat, NEW c, SegBien(c, T), NEW pid \in DOMAIN c.procesos,
         NEW contenido \in Seq(Celdas), contenido # <<>>, Alcanzan(c, Len(contenido)) # {}
  PROVE  /\ ConSegmento(c, Ocupada(c, pid, contenido), pid, contenido)
         /\ SegBien(Ocupada(c, pid, contenido), T)
<1>. DEFINE C == Segmentos(c)
            e == Ocupada(c, pid, contenido)
            n == Len(c.procesos[pid]) + 1
<1>1. c \in SegEstado(T) /\ Repartida(c, C, T) /\ Unico(c)
  BY BienDe DEF SegBien
<1>2. PICK b \in Segmento : Ocupa(c, e, C, T, pid, contenido, b)
  BY <1>1, OcuparDe
<1>. USE DEF Ocupa
<1>. HIDE DEF e
<1>3. /\ c.procesos[pid] \in Seq(Segmento) /\ n - 1 \in Nat /\ n \in Nat /\ DOMAIN c.procesos[pid] = 1..(n - 1)
      /\ c.procesos \in [DOMAIN c.procesos -> Seq(Segmento)]
  BY <1>1, BienDe, EstadoDe
<1>4. /\ DOMAIN e.procesos = DOMAIN c.procesos /\ e.procesos[pid] = Append(c.procesos[pid], b)
      /\ \A q \in DOMAIN c.procesos : q # pid => e.procesos[q] = c.procesos[q]
  BY <1>2, <1>3
<1>5. /\ e.procesos[pid] \in Seq(Segmento) /\ Len(e.procesos[pid]) = n /\ DOMAIN e.procesos[pid] = 1..n
      /\ \A i \in 1..(n - 1) : e.procesos[pid][i] = c.procesos[pid][i]
      /\ e.procesos[pid][n] = b
  <2>. DEFINE p == c.procesos[pid]
              r == Append(p, b)
  <2>1. r \in Seq(Segmento) /\ Len(r) = Len(p) + 1 /\ (\A i \in 1..Len(p) : r[i] = p[i]) /\ r[Len(p) + 1] = b
    <3>. HIDE DEF p
    <3>1. p \in Seq(Segmento)
      BY <1>3 DEF p
    <3>. QED
      BY <3>1, AppendProperties
  <2>. HIDE DEF r
  <2>2. DOMAIN r = 1..Len(r)
    BY <2>1, LenProperties
  <2>3. e.procesos[pid] = r
    BY <1>4 DEF r
  <2>. QED
    BY <1>3, <2>1, <2>2, <2>3
<1>6. 1..(n - 1) \subseteq 1..n /\ n \in 1..n /\ \A i \in 1..n : i = n \/ i \in 1..(n - 1)
  BY <1>3
<1>7. \A q \in DOMAIN c.procesos : \A i \in DOMAIN c.procesos[q] :
        i \in DOMAIN e.procesos[q] /\ e.procesos[q][i] = c.procesos[q][i] /\ c.procesos[q][i] \in C
  BY <1>3, <1>4, <1>5, <1>6, BienDe
<1>8. \A q \in DOMAIN c.procesos : \A i \in DOMAIN e.procesos[q] :
        (q = pid /\ i = n /\ e.procesos[q][i] = b) \/ i \in DOMAIN c.procesos[q]
  BY <1>3, <1>4, <1>5, <1>6
<1>. HIDE DEF n
<1>9. Segmentos(e) = C \cup {b}
  <2>1. \A x \in Segmentos(e) : x \in C \cup {b}
    BY <1>4, <1>7, <1>8, SegmentosEn
  <2>2. \A x \in C : x \in Segmentos(e)
    <3>1. \A q \in DOMAIN c.procesos : \A i \in DOMAIN c.procesos[q] : c.procesos[q][i] \in Segmentos(e)
      BY <1>4, <1>7, SegmentosEn
    <3>. QED
      BY <3>1, BienDe
  <2>3. b \in Segmentos(e)
    BY <1>4, <1>5, <1>6, SegmentosEn
  <2>. QED
    BY <2>1, <2>2, <2>3
<1>. HIDE DEF C
<1>10. Unico(e)
  <2>1. SUFFICES ASSUME NEW p \in DOMAIN c.procesos, NEW q \in DOMAIN c.procesos,
                        NEW i \in DOMAIN e.procesos[p], NEW j \in DOMAIN e.procesos[q],
                        e.procesos[p][i] = e.procesos[q][j]
                 PROVE  p = q /\ i = j
    BY <1>4 DEF Unico
  <2>2. CASE i \in DOMAIN c.procesos[p] /\ j \in DOMAIN c.procesos[q]
    BY <1>1, <1>7, <2>1, <2>2 DEF Unico
  <2>3. CASE i \notin DOMAIN c.procesos[p]
    BY <1>2, <1>7, <1>8, <2>1, <2>3
  <2>4. CASE j \notin DOMAIN c.procesos[q]
    BY <1>2, <1>7, <1>8, <2>1, <2>4
  <2>. QED
    BY <2>2, <2>3, <2>4
<1>11. SegBien(e, T)
  BY <1>2, <1>9, <1>10 DEF SegBien
<1>12. Iguales(c, e)
  BY <1>2, <1>4, <1>7 DEF Iguales, Igual
<1>13. e.procesos[pid][n].tamanio = Len(contenido)
  BY <1>2, <1>5
<1>14. \A k \in 1..Len(contenido) : e.memoria[e.procesos[pid][n].inicio + k - 1] = contenido[k]
  BY <1>2, <1>5
<1>. QED
  <2>1. ConSegmento(c, e, pid, contenido)
    BY <1>2, <1>4, <1>5, <1>12, <1>13, <1>14 DEF ConSegmento, n
  <2>. QED
    BY <1>11, <2>1 DEF e

\* What guardar_segmento leaves: the new segment, or a server that died.
ConGuardado(s, e, pid, contenido) ==
  /\ DOMAIN e.procesos = DOMAIN s.procesos /\ Iguales(s, e)
  /\ \A q \in DOMAIN s.procesos : q # pid => Len(e.procesos[q]) = Len(s.procesos[q])
  /\ e.caida \/ ConSegmento(s, e, pid, contenido)

\* guardar_segmento, as a whole.
LEMMA GuardarBien ==
  ASSUME NEW T \in Nat, config.tamanio = T, NEW s, SegBien(s, T), NEW pid \in DOMAIN s.procesos,
         NEW contenido \in Seq(Celdas), contenido # <<>>
  PROVE  SegBien(GuardarSegmento(s, pid, contenido), T) /\ ConGuardado(s, GuardarSegmento(s, pid, contenido), pid, contenido)
<1>. DEFINE e == GuardarSegmento(s, pid, contenido)
            l == Len(contenido)
            c == IF Alcanzan(s, l) = {} THEN Compactacion(s) ELSE s
<1>1. /\ SegBien(c, T) /\ c.caida = s.caida /\ DOMAIN c.procesos = DOMAIN s.procesos
      /\ \A q \in DOMAIN s.procesos : Len(c.procesos[q]) = Len(s.procesos[q])
      /\ Iguales(s, c)
  <2>1. CASE Alcanzan(s, l) = {}
    <3>1. c = Compactacion(s)
      BY <2>1
    <3>. HIDE DEF c
    <3>. QED
      BY <3>1, CompactarBien
  <2>2. CASE Alcanzan(s, l) # {}
    <3>1. c = s
      BY <2>2
    <3>. HIDE DEF c
    <3>. QED
      BY <3>1, IgualesMismo
  <2>. QED
    BY <2>1, <2>2
<1>. HIDE DEF c
<1>2. CASE Alcanzan(c, l) = {}
  <2>1. e = [c EXCEPT !.caida = TRUE]
    BY <1>2 DEF GuardarSegmento, c
  <2>. HIDE DEF e
  <2>2. c \in SegEstado(T)
    BY <1>1, BienDe
  <2>3. e \in SegEstado(T) /\ e.caida = TRUE /\ e.procesos = c.procesos /\ e.huecos = c.huecos /\ e.memoria = c.memoria
    BY <2>1, <2>2 DEF SegEstado
  <2>4. Segmentos(e) = Segmentos(c) /\ Unico(e) = Unico(c)
    BY <2>3 DEF Segmentos, Unico
  <2>5. SegBien(e, T)
    BY <1>1, <2>3, <2>4 DEF SegBien, Repartida
  <2>6. Iguales(s, e)
    BY <1>1, <2>3 DEF Iguales, Igual
  <2>. QED
    BY <1>1, <2>3, <2>5, <2>6 DEF e, ConGuardado
<1>3. CASE Alcanzan(c, l) # {}
  <2>1. e = Ocupada(c, pid, contenido)
    BY <1>3 DEF GuardarSegmento, c, Ocupada
  <2>. HIDE DEF e
  <2>2. ConSegmento(c, e, pid, contenido) /\ SegBien(e, T)
    BY <1>1, <1>3, <2>1, OcuparBien
  <2>3. Iguales(s, e)
    BY <1>1, <2>2, IgualesDe DEF ConSegmento
  <2>4. Len(c.procesos[pid]) = Len(s.procesos[pid])
    BY <1>1
  <2>. HIDE DEF c
  <2>5. ConSegmento(s, e, pid, contenido)
    BY <1>1, <2>2, <2>3, <2>4 DEF ConSegmento
  <2>6. ConGuardado(s, e, pid, contenido)
    BY <2>5 DEF ConSegmento, ConGuardado
  <2>. QED
    BY <2>2, <2>6 DEF e
<1>. QED
  BY <1>2, <1>3

-------------------------------------------------------------------------------
\* The start of a crew: guardar_segmento of each of its contents, one by one.
SegGuardarTodo(d, pid, p) == FoldLeft(LAMBDA e, contenido : GuardarSegmento(e, pid, contenido), d, p)
SegCon(T, pid) == {s \in SegEstado(T) : SegBien(s, T) /\ pid \in DOMAIN s.procesos}

\* seg_guardar_patota turn by turn: the memory after each segment.
LEMMA GuardarPliegue ==
  ASSUME NEW T \in Nat, config.tamanio = T, NEW pid, NEW d \in SegCon(T, pid), NEW p \in Seq(Seq(Celdas) \ {<<>>})
  PROVE  \E r \in [0..Len(p) -> SegCon(T, pid)] :
           /\ SegGuardarTodo(d, pid, p) = r[Len(p)]
           /\ r[0] = d
           /\ \A k \in 1..Len(p) : r[k] = GuardarSegmento(r[k - 1], pid, p[k])
<1>. DEFINE n == Len(p)
            V == SegCon(T, pid)
            F == [z \in (1..n) \X V |-> GuardarSegmento(z[2], pid, p[z[1]])]
            iter == CHOOSE h : h = [s \in SUBSET DOMAIN p |->
                      IF s = {} THEN d ELSE GuardarSegmento(h[s \ {Max(s)}], pid, p[Max(s)])]
<1>1. n \in Nat /\ DOMAIN p = 1..n /\ \A k \in 1..n : p[k] \in Seq(Celdas) \ {<<>>}
  BY LenProperties, ElementOfSeq
<1>2. PICK g, r : Fila(g, r, n, V, d, F)
  <2>1. ASSUME NEW x \in 1..n, NEW v \in V PROVE GuardarSegmento(v, pid, p[x]) \in V
    <3>. DEFINE c == p[x]
                e == GuardarSegmento(v, pid, c)
    <3>1. c \in Seq(Celdas) /\ c # <<>> /\ SegBien(v, T) /\ pid \in DOMAIN v.procesos
      BY <1>1 DEF SegCon
    <3>. HIDE DEF c
    <3>2. SegBien(e, T) /\ DOMAIN e.procesos = DOMAIN v.procesos
      BY <3>1, GuardarBien DEF ConGuardado
    <3>. HIDE DEF e
    <3>3. e \in SegEstado(T)
      BY <3>2, BienDe
    <3>4. e \in V
      BY <3>1, <3>2, <3>3 DEF SegCon
    <3>. QED
      BY <3>4 DEF e, c
  <2>2. Cerrada(F, 1..n, V)
    <3>. HIDE DEF V, n
    <3>. QED
      BY <2>1 DEF Cerrada
  <2>3. d \in V
    OBVIOUS
  <2>. HIDE DEF F, V, n
  <2>. QED
    BY <1>1, <2>2, <2>3, FilaRecorre
<1>3. \A x \in 1..n, v \in V : F[<<x, v>>] = GuardarSegmento(v, pid, p[x])
  OBVIOUS
<1>. HIDE DEF F, V, n
<1>4. \A s \in SUBSET (1..n) : g[s] = IF s = {} THEN d ELSE GuardarSegmento(g[s \ {Max(s)}], pid, p[Max(s)])
  BY <1>2, <1>3 DEF Fila
<1>5. g = [s \in SUBSET DOMAIN p |-> IF s = {} THEN d ELSE GuardarSegmento(g[s \ {Max(s)}], pid, p[Max(s)])]
  BY <1>1, <1>2, <1>4 DEF Fila
<1>6. iter = [s \in SUBSET DOMAIN p |-> IF s = {} THEN d ELSE GuardarSegmento(iter[s \ {Max(s)}], pid, p[Max(s)])]
  BY <1>5
<1>7. SegGuardarTodo(d, pid, p) = iter[DOMAIN p]
  BY DEF SegGuardarTodo, FoldLeft, MapThenFoldSet
<1>. HIDE DEF iter
<1>8. \A s \in SUBSET DOMAIN p : iter[s] = IF s = {} THEN d ELSE GuardarSegmento(iter[s \ {Max(s)}], pid, p[Max(s)])
  BY <1>6, Zenon
<1>9. \A s \in SUBSET (1..n) : iter[s] = g[s]
  <2>. DEFINE Q == {s \in SUBSET (1..n) : iter[s] = g[s]}
  <2>1. {} \in Q
    BY <1>1, <1>4, <1>8
  <2>2. \A s \in SUBSET (1..n) : s # {} /\ s \ {Max(s)} \in Q => s \in Q
    BY <1>1, <1>4, <1>8
  <2>. HIDE DEF Q
  <2>3. \A s \in SUBSET (1..n) : s \in Q
    BY <1>1, <2>1, <2>2, InduccionFila
  <2>. QED
    BY <2>3 DEF Q
<1>10. SegGuardarTodo(d, pid, p) = r[n]
  <2>1. iter[DOMAIN p] = r[n]
    BY <1>1, <1>2, <1>9 DEF Fila
  <2>. QED
    BY <1>7, <2>1
<1>11. \A k \in 1..n : r[k] = GuardarSegmento(r[k - 1], pid, p[k])
  BY <1>1, <1>2, <1>3 DEF Fila
<1>12. r \in [0..n -> V] /\ r[0] = d
  BY <1>2 DEF Fila
<1>. QED
  BY <1>10, <1>11, <1>12 DEF V, n

\* The segment i of a process holds c.
Tiene(s, pid, i, c) ==
  LET x == s.procesos[pid][i]
  IN /\ x.tamanio = Len(c)
     /\ \A k \in Nat : k < Len(c) => s.memoria[x.inicio + k] = c[k + 1]

\* What the first n turns of seg_guardar_patota leave.
Guardada(d, e, pid, p, n) ==
  /\ DOMAIN e.procesos = DOMAIN d.procesos /\ Iguales(d, e) /\ e.caida = d.caida
  /\ \A q \in DOMAIN d.procesos : q # pid => Len(e.procesos[q]) = Len(d.procesos[q])
  /\ Len(e.procesos[pid]) = n /\ \A i \in 1..n : Tiene(e, pid, i, p[i])

\* After seg_guardar_patota each segment of the crew holds what was saved in it.
LEMMA GuardarTodos ==
  ASSUME NEW T \in Nat, config.tamanio = T, NEW pid, NEW d \in SegCon(T, pid), NEW p \in Seq(Seq(Celdas) \ {<<>>}),
         d.procesos[pid] = <<>>
  PROVE  LET e == SegGuardarTodo(d, pid, p)
         IN SegBien(e, T) /\ (e.caida \/ Guardada(d, e, pid, p, Len(p)))
<1>1. PICK r \in [0..Len(p) -> SegCon(T, pid)] :
           /\ SegGuardarTodo(d, pid, p) = r[Len(p)]
           /\ r[0] = d
           /\ \A k \in 1..Len(p) : r[k] = GuardarSegmento(r[k - 1], pid, p[k])
  BY GuardarPliegue
<1>2. Len(p) \in Nat /\ DOMAIN p = 1..Len(p) /\ \A k \in 1..Len(p) : p[k] \in Seq(Celdas) \ {<<>>}
  BY LenProperties, ElementOfSeq
<1>. DEFINE P == {n \in Nat : n <= Len(p) => r[n].caida \/ Guardada(d, r[n], pid, p, n)}
<1>3. 0 \in P
  <2>1. r[0] = d /\ Iguales(d, d) /\ 1..0 = {} /\ Len(d.procesos[pid]) = 0
    BY <1>1, IgualesMismo
  <2>2. Guardada(d, r[0], pid, p, 0)
    BY <2>1 DEF Guardada
  <2>. QED
    BY <2>2
<1>4. ASSUME NEW n \in Nat, n \in P PROVE n + 1 \in P
  <2>1. SUFFICES ASSUME n + 1 <= Len(p) PROVE r[n + 1].caida \/ Guardada(d, r[n + 1], pid, p, n + 1)
    OBVIOUS
  <2>. DEFINE s == r[n]
              c == p[n + 1]
              e == r[n + 1]
  <2>2. n + 1 \in 1..Len(p) /\ (n + 1) - 1 = n /\ n \in 0..Len(p) /\ n + 1 \in 0..Len(p)
    BY <1>2, <2>1
  <2>3. /\ e = GuardarSegmento(s, pid, c) /\ s \in SegCon(T, pid) /\ e \in SegCon(T, pid)
        /\ c \in Seq(Celdas) /\ c # <<>> /\ (s.caida \/ Guardada(d, s, pid, p, n))
    <3>1. s \in SegCon(T, pid) /\ e \in SegCon(T, pid)
      BY <2>2
    <3>2. s.caida \/ Guardada(d, s, pid, p, n)
      BY <1>4, <2>1, <1>2
    <3>3. e = GuardarSegmento(s, pid, c)
      BY <1>1, <2>2
    <3>. HIDE DEF s, e
    <3>. QED
      BY <1>2, <2>2, <3>1, <3>2, <3>3
  <2>4. SegBien(s, T) /\ SegBien(e, T) /\ pid \in DOMAIN s.procesos /\ pid \in DOMAIN e.procesos
    BY <2>3 DEF SegCon
  <2>. HIDE DEF s, c, e
  <2>5. LET m == Len(s.procesos[pid]) + 1
        IN /\ DOMAIN e.procesos = DOMAIN s.procesos /\ Iguales(s, e)
           /\ \A q \in DOMAIN s.procesos : q # pid => Len(e.procesos[q]) = Len(s.procesos[q])
           /\ \/ e.caida
              \/ /\ e.caida = s.caida /\ Len(e.procesos[pid]) = m
                 /\ e.procesos[pid][m].tamanio = Len(c)
                 /\ \A k \in 1..Len(c) : e.memoria[e.procesos[pid][m].inicio + k - 1] = c[k]
    <3>1. ConGuardado(s, e, pid, c)
      BY <2>3, <2>4, GuardarBien
    <3>. QED
      BY <3>1 DEF ConGuardado, ConSegmento
  <2>6. SUFFICES ASSUME ~e.caida PROVE Guardada(d, e, pid, p, n + 1)
    BY DEF e
  <2>7. /\ Guardada(d, s, pid, p, n) /\ e.caida = s.caida
    BY <2>3, <2>5, <2>6
  <2>8. Len(s.procesos[pid]) = n
    BY <2>7 DEF Guardada
  <2>9. Iguales(d, e)
    BY <2>5, <2>7, IgualesDe DEF Guardada
  <2>10. Tiene(e, pid, n + 1, c)
    <3>1. /\ e.procesos[pid][n + 1].tamanio = Len(c)
          /\ \A k \in 1..Len(c) : e.memoria[e.procesos[pid][n + 1].inicio + k - 1] = c[k]
      BY <2>5, <2>6, <2>8
    <3>2. e.procesos[pid][n + 1].inicio \in Nat
      <4>1. Len(e.procesos[pid]) = n + 1
        BY <2>5, <2>6, <2>8
      <4>2. n + 1 \in DOMAIN e.procesos[pid]
        BY <2>4, <4>1, BienDe
      <4>. QED
        BY <2>4, <4>2, BienDe
    <3>3. ASSUME NEW k \in Nat, k < Len(c)
          PROVE  e.memoria[e.procesos[pid][n + 1].inicio + k] = c[k + 1]
      <4>1. Len(c) \in Nat
        BY <2>3, LenProperties
      <4>2. k + 1 \in 1..Len(c)
        BY <3>3, <4>1
      <4>. DEFINE b == e.procesos[pid][n + 1].inicio
      <4>. HIDE DEF b
      <4>3. b + (k + 1) - 1 = b + k
        BY <3>2 DEF b
      <4>. QED
        BY <3>1, <4>2, <4>3 DEF b
    <3>. QED
      BY <3>1, <3>3 DEF Tiene
  <2>11. ASSUME NEW i \in 1..n PROVE Tiene(e, pid, i, p[i])
    <3>1. i \in DOMAIN s.procesos[pid]
      BY <2>4, <2>8, BienDe
    <3>2. Igual(s, e, pid, i)
      BY <2>4, <2>5, <3>1 DEF Iguales
    <3>3. Tiene(s, pid, i, p[i])
      BY <2>7 DEF Guardada
    <3>4. /\ e.procesos[pid][i].tamanio = s.procesos[pid][i].tamanio
          /\ \A k \in Nat : k < s.procesos[pid][i].tamanio =>
                e.memoria[e.procesos[pid][i].inicio + k] = s.memoria[s.procesos[pid][i].inicio + k]
      BY <3>2 DEF Igual
    <3>. QED
      BY <3>3, <3>4 DEF Tiene
  <2>12. \A i \in 1..(n + 1) : Tiene(e, pid, i, p[i])
    <3>1. \A i \in 1..(n + 1) : i \in 1..n \/ i = n + 1
      OBVIOUS
    <3>. QED
      BY <2>10, <2>11, <3>1 DEF c
  <2>13. Len(e.procesos[pid]) = n + 1
    BY <2>5, <2>6, <2>8
  <2>14. DOMAIN e.procesos = DOMAIN d.procesos /\ e.caida = d.caida
         /\ \A q \in DOMAIN d.procesos : q # pid => Len(e.procesos[q]) = Len(d.procesos[q])
    BY <2>5, <2>7 DEF Guardada
  <2>. QED
    BY <2>9, <2>12, <2>13, <2>14 DEF Guardada
<1>5. \A n \in Nat : n \in P
  <2>. HIDE DEF P
  <2>. QED
    BY <1>3, <1>4, Induccion
<1>6. r[Len(p)].caida \/ Guardada(d, r[Len(p)], pid, p, Len(p))
  <2>1. Len(p) \in P /\ Len(p) <= Len(p)
    <3>. HIDE DEF P
    <3>. QED
      BY <1>2, <1>5
  <2>. QED
    BY <2>1
<1>7. SegBien(r[Len(p)], T)
  <2>1. Len(p) \in 0..Len(p)
    BY <1>2
  <2>2. r[Len(p)] \in SegCon(T, pid)
    BY <2>1
  <2>. QED
    BY <2>2 DEF SegCon
<1>. HIDE DEF P
<1>. QED
  BY <1>1, <1>6, <1>7

-------------------------------------------------------------------------------
\* The cells of a text.
LEMMA LetrasDe ==
  ASSUME NEW t \in Seq(Caracteres \cup {","})
  PROVE  Letras(t) \in Seq(Celdas) /\ Len(Letras(t)) = Len(t)
<1>1. Len(t) \in Nat /\ DOMAIN t = 1..Len(t) /\ \A i \in 1..Len(t) : t[i] \in Caracteres \cup {","}
  BY LenProperties, ElementOfSeq
<1>2. \A i \in 1..Len(t) : Campo("texto", t[i]) \in Celdas
  BY <1>1 DEF Campo, Celdas
<1>3. Letras(t) \in [1..Len(t) -> Celdas]
  BY <1>1, <1>2 DEF Letras
<1>. QED
  BY <1>1, <1>3, FilaDe

\* The text of a crew's tasks is not empty.
LEMMA TextoDe ==
  ASSUME NEW pid \in Pids
  PROVE  Texto(pid) \in Seq(Celdas) \ {<<>>}
<1>. DEFINE A == Caracteres
            L == Seq(A)
            p == Tail(TAREAS[pid])
            d == Letras(Head(TAREAS[pid]))
            n == Len(p)
            V == Seq(Celdas) \ {<<>>}
            otra(t) == Letras(<<",">> \o t)
            F == [z \in (1..n) \X V |-> z[2] \o otra(p[z[1]])]
            iter == CHOOSE h : h = [s \in SUBSET DOMAIN p |->
                      IF s = {} THEN d ELSE h[s \ {Max(s)}] \o otra(p[Max(s)])]
<1>1. TAREAS[pid] \in Seq(L) /\ TAREAS[pid] # <<>> /\ \A i \in 1..Len(TAREAS[pid]) : TAREAS[pid][i] # <<>>
  <2>1. DOMAIN TAREAS = 1..Len(TAREAS) /\ DOMAIN TRIPULANTES = 1..Len(TRIPULANTES)
    BY EstructurasAssumption, LenProperties
  <2>2. pid \in DOMAIN TAREAS
    BY <2>1, EstructurasAssumption DEF Pids
  <2>3. TAREAS[pid] \in Seq(L)
    <3>. HIDE DEF A
    <3>1. TAREAS \in Seq(Seq(L))
      BY EstructurasAssumption DEF A
    <3>. QED
      BY <2>1, <2>2, <3>1, ElementOfSeq
  <2>4. TAREAS[pid] # <<>> /\ <<>> \notin ToSet(TAREAS[pid])
    BY <2>2, EstructurasAssumption
  <2>5. DOMAIN TAREAS[pid] = 1..Len(TAREAS[pid])
    BY <2>3, LenProperties
  <2>. QED
    BY <2>3, <2>4, <2>5 DEF ToSet
<1>2. /\ n \in Nat /\ DOMAIN p = 1..n /\ \A i \in 1..n : p[i] \in L
      /\ Head(TAREAS[pid]) \in L /\ Head(TAREAS[pid]) # <<>>
  <2>. DEFINE q == TAREAS[pid]
  <2>. HIDE DEF L
  <2>1. q \in Seq(L) /\ q # <<>> /\ \A i \in 1..Len(q) : q[i] # <<>>
    BY <1>1
  <2>. HIDE DEF q
  <2>2. Tail(q) \in Seq(L) /\ Head(q) \in L /\ Head(q) = q[1] /\ Len(q) \in Nat /\ Len(q) # 0
    BY <2>1, HeadTailProperties, LenProperties, EmptySeq
  <2>3. 1 \in 1..Len(q)
    BY <2>2
  <2>4. p = Tail(q)
    BY DEF q
  <2>. HIDE DEF p
  <2>5. Len(p) \in Nat /\ DOMAIN p = 1..Len(p) /\ \A i \in 1..Len(p) : p[i] \in L
    BY <2>2, <2>4, LenProperties, ElementOfSeq
  <2>6. Head(q) # <<>>
    BY <2>1, <2>2, <2>3
  <2>. QED
    BY <2>2, <2>5, <2>6 DEF q
<1>3. \A t \in L : t \in Seq(A \cup {","}) /\ <<",">> \o t \in Seq(A \cup {","}) /\ Len(t) \in Nat
                   /\ Len(<<",">> \o t) = Len(t) + 1
  <2>1. SUFFICES ASSUME NEW t \in Seq(A)
                 PROVE  t \in Seq(A \cup {","}) /\ <<",">> \o t \in Seq(A \cup {","}) /\ Len(t) \in Nat
                        /\ Len(<<",">> \o t) = Len(t) + 1
    OBVIOUS
  <2>. HIDE DEF A
  <2>2. Len(t) \in Nat /\ \A i \in 1..Len(t) : t[i] \in A
    BY LenProperties, ElementOfSeq
  <2>3. t \in [1..Len(t) -> A \cup {","}]
    BY <2>2, SeqDef, LenProperties
  <2>4. t \in Seq(A \cup {","})
    BY <2>2, <2>3, FilaDe
  <2>. DEFINE B == A \cup {","}
              u == <<",">>
  <2>5. u \in Seq(B) /\ Len(u) = 1
    OBVIOUS
  <2>. HIDE DEF B, u
  <2>6. t \in Seq(B)
    BY <2>4 DEF B
  <2>7. u \o t \in Seq(B) /\ Len(u \o t) = Len(t) + 1
    BY <2>2, <2>5, <2>6, ConcatProperties
  <2>. QED
    BY <2>2, <2>6, <2>7 DEF B, u
<1>4. d \in V
  <2>. DEFINE t == Head(TAREAS[pid])
  <2>1. t \in L /\ t # <<>>
    BY <1>2
  <2>. HIDE DEF t
  <2>2. t \in Seq(A \cup {","}) /\ Len(t) # 0
    <3>1. Len(t) # 0
      <4>. HIDE DEF A
      <4>. QED
        BY <2>1, EmptySeq
    <3>. QED
      BY <1>3, <2>1, <3>1
  <2>3. Letras(t) \in Seq(Celdas) /\ Len(Letras(t)) # 0
    BY <2>2, LetrasDe
  <2>. QED
    BY <2>3 DEF t
<1>5. \A v \in V, x \in 1..n : v \o otra(p[x]) \in V
  <2>1. SUFFICES ASSUME NEW v \in V, NEW x \in 1..n PROVE v \o otra(p[x]) \in V
    OBVIOUS
  <2>. DEFINE t == <<",">> \o p[x]
              w == Letras(t)
  <2>2. t \in Seq(A \cup {","})
    <3>1. p[x] \in L
      BY <1>2
    <3>. HIDE DEF p, L
    <3>. QED
      BY <1>3, <3>1
  <2>3. w \in Seq(Celdas)
    <3>. HIDE DEF t
    <3>. QED
      BY <2>2, LetrasDe
  <2>. HIDE DEF w
  <2>4. v \in Seq(Celdas) /\ v # <<>>
    OBVIOUS
  <2>5. v \o w \in Seq(Celdas) /\ Len(v \o w) = Len(v) + Len(w) /\ Len(v) \in Nat /\ Len(w) \in Nat /\ Len(v) # 0
    BY <2>3, <2>4, ConcatProperties, LenProperties, EmptySeq
  <2>6. v \o w # <<>>
    BY <2>5, EmptySeq
  <2>. QED
    BY <2>5, <2>6 DEF w
<1>6. \A x \in 1..n, v \in V : F[<<x, v>>] = v \o otra(p[x])
  OBVIOUS
<1>. HIDE DEF F, V, n
<1>7. PICK g, r : Fila(g, r, n, V, d, F)
  <2>1. Cerrada(F, 1..n, V)
    <3>. HIDE DEF otra, p
    <3>. QED
      BY <1>5, <1>6 DEF Cerrada
  <2>. HIDE DEF d
  <2>. QED
    BY <1>2, <1>4, <2>1, FilaRecorre
<1>. HIDE DEF p, d, otra
<1>8. \A s \in SUBSET (1..n) : g[s] = IF s = {} THEN d ELSE g[s \ {Max(s)}] \o otra(p[Max(s)])
  BY <1>6, <1>7 DEF Fila
<1>9. g = [s \in SUBSET DOMAIN p |-> IF s = {} THEN d ELSE g[s \ {Max(s)}] \o otra(p[Max(s)])]
  BY <1>2, <1>7, <1>8 DEF Fila
<1>10. iter = [s \in SUBSET DOMAIN p |-> IF s = {} THEN d ELSE iter[s \ {Max(s)}] \o otra(p[Max(s)])]
  BY <1>9
<1>11. Texto(pid) = iter[DOMAIN p]
  BY DEF Texto, FoldLeft, MapThenFoldSet, p, d, otra
<1>. HIDE DEF iter
<1>12. \A s \in SUBSET DOMAIN p : iter[s] = IF s = {} THEN d ELSE iter[s \ {Max(s)}] \o otra(p[Max(s)])
  BY <1>10, Zenon
<1>13. \A s \in SUBSET (1..n) : iter[s] = g[s]
  <2>. DEFINE Q == {s \in SUBSET (1..n) : iter[s] = g[s]}
  <2>1. {} \in Q
    BY <1>2, <1>8, <1>12
  <2>2. \A s \in SUBSET (1..n) : s # {} /\ s \ {Max(s)} \in Q => s \in Q
    BY <1>2, <1>8, <1>12
  <2>. HIDE DEF Q
  <2>3. \A s \in SUBSET (1..n) : s \in Q
    BY <1>2, <2>1, <2>2, InduccionFila
  <2>. QED
    BY <2>3 DEF Q
<1>14. iter[DOMAIN p] \in V
  BY <1>2, <1>7, <1>13 DEF Fila
<1>. QED
  BY <1>11, <1>14 DEF V

\* The contents of the segments of a crew, in the order they are saved.
Contenidos(pid) == <<PCB(pid, 0)>> \o [t \in 1..TRIPULANTES[pid] |-> TCB(t, 1)] \o <<Texto(pid)>>

\* What is saved of a crew: its PCB, its TCBs in order and its tasks.
LEMMA ContenidosDe ==
  ASSUME NEW pid \in Pids
  PROVE  LET n == TRIPULANTES[pid]
             p == Contenidos(pid)
         IN /\ n \in Nat \ {0} /\ pid \in Nat /\ p \in Seq(Seq(Celdas) \ {<<>>}) /\ Len(p) = n + 2
            /\ \A t \in 1..n : p[t + 1] = TCB(t, 1)
<1>. DEFINE n == TRIPULANTES[pid]
            V == Seq(Celdas) \ {<<>>}
            a == <<PCB(pid, 0)>>
            b == [t \in 1..n |-> TCB(t, 1)]
            c == <<Texto(pid)>>
<1>1. n \in Nat \ {0} /\ pid \in Nat
  <2>1. pid \in 1..Len(TRIPULANTES) /\ Len(TRIPULANTES) \in Nat
    BY EstructurasAssumption, LenProperties DEF Pids
  <2>2. TRIPULANTES \in Seq(Nat \ {0})
    BY EstructurasAssumption
  <2>. DEFINE S == Nat \ {0}
  <2>. HIDE DEF S
  <2>3. n \in S
    BY <2>1, <2>2, ElementOfSeq DEF S
  <2>. QED
    BY <2>1, <2>3 DEF S
<1>2. PCB(pid, 0) \in V
  <2>1. Campo("pid", pid) \in Celdas /\ Campo("tareas", 0) \in Celdas
    BY <1>1 DEF Campo, Celdas
  <2>. QED
    BY <2>1 DEF PCB
<1>3. \A t \in 1..n : TCB(t, 1) \in V
  <2>1. SUFFICES ASSUME NEW t \in 1..n PROVE TCB(t, 1) \in V
    OBVIOUS
  <2>4. t \in Nat
    BY <1>1
  <2>2. Campo("tid", t) \in Celdas /\ Campo("instruccion", 1) \in Celdas
    BY <2>4 DEF Campo, Celdas
  <2>3. Campo("estado", "N") \in Celdas /\ Campo("posicion", 0) \in Celdas
    BY EstructurasAssumption DEF Campo, Celdas
  <2>. QED
    BY <2>2, <2>3 DEF TCB
<1>4. a \in Seq(V) /\ Len(a) = 1
  <2>. HIDE DEF V
  <2>. QED
    BY <1>2
<1>5. b \in Seq(V) /\ Len(b) = n
  <2>1. b \in [1..n -> V]
    BY <1>3
  <2>. HIDE DEF V, b
  <2>. QED
    BY <1>1, <2>1, FilaDe
<1>6. c \in Seq(V) /\ Len(c) = 1
  <2>1. Texto(pid) \in V
    BY TextoDe
  <2>. HIDE DEF V
  <2>. QED
    BY <2>1
<1>7. \A t \in 1..n : b[t] = TCB(t, 1)
  OBVIOUS
<1>. HIDE DEF V, a, b, c, n
<1>8. a \o b \in Seq(V) /\ Len(a \o b) = n + 1 /\ \A t \in 1..n : (a \o b)[t + 1] = b[t]
  <2>1. a \o b \in Seq(V) /\ Len(a \o b) = Len(a) + Len(b)
        /\ \A i \in 1..(Len(a) + Len(b)) : (a \o b)[i] = IF i <= Len(a) THEN a[i] ELSE b[i - Len(a)]
    BY <1>4, <1>5, ConcatProperties
  <2>2. \A t \in 1..n : t + 1 \in 1..(1 + n) /\ ~(t + 1 <= 1) /\ (t + 1) - 1 = t
    BY <1>1
  <2>. QED
    BY <1>1, <1>4, <1>5, <2>1, <2>2
<1>. DEFINE u == a \o b
<1>9. u \o c \in Seq(V) /\ Len(u \o c) = n + 2 /\ \A t \in 1..n : (u \o c)[t + 1] = b[t]
  <2>1. u \in Seq(V) /\ Len(u) = n + 1 /\ \A t \in 1..n : u[t + 1] = b[t]
    BY <1>8
  <2>. HIDE DEF u
  <2>2. u \o c \in Seq(V) /\ Len(u \o c) = Len(u) + Len(c)
        /\ \A i \in 1..(Len(u) + Len(c)) : (u \o c)[i] = IF i <= Len(u) THEN u[i] ELSE c[i - Len(u)]
    BY <1>6, <2>1, ConcatProperties
  <2>3. \A t \in 1..n : t + 1 \in 1..(n + 2) /\ t + 1 <= n + 1
    BY <1>1
  <2>. QED
    BY <1>1, <1>6, <2>1, <2>2, <2>3
<1>10. Contenidos(pid) = u \o c
  BY DEF Contenidos, a, b, c, n
<1>. HIDE DEF u
<1>. QED
  BY <1>1, <1>7, <1>9, <1>10 DEF V, n

-------------------------------------------------------------------------------
\* The segments between the first and the last of a process are TCBs, and the
\* TCB of a member is there.
EsTCB(s, x) == x.tamanio = TAM_TCB /\ s.memoria[x.inicio + INSTRUCCION] \in {"instruccion"} \X Nat
ConTCBs(s, pid) == \A i \in 2..(Len(s.procesos[pid]) - 1) : EsTCB(s, s.procesos[pid][i])
TCBs(s) == \A pid \in DOMAIN s.procesos : ConTCBs(s, pid)
Presente(s, pid, tid) == pid \in DOMAIN s.procesos /\ DeTCB(s, pid, tid) # {}

\* The TCB of a member is one of the segments of its process.
LEMMA PresenteDe ==
  ASSUME NEW T \in Nat, NEW s, SegBien(s, T), NEW pid, NEW tid, Presente(s, pid, tid)
  PROVE  LET j == Min(DeTCB(s, pid, tid))
         IN /\ pid \in DOMAIN s.procesos /\ j \in 2..(Len(s.procesos[pid]) - 1) /\ ConTid(s, pid, tid, j)
            /\ Len(s.procesos[pid]) \in Nat /\ DOMAIN s.procesos[pid] = 1..Len(s.procesos[pid])
            /\ j \in 1..Len(s.procesos[pid]) /\ s.procesos[pid][j] \in Segmentos(s)
            /\ BuscarTCB(s, pid, tid) = s.procesos[pid][j].inicio
<1>. DEFINE D == DeTCB(s, pid, tid)
<1>1. /\ pid \in DOMAIN s.procesos /\ D # {} /\ Len(s.procesos[pid]) \in Nat
      /\ DOMAIN s.procesos[pid] = 1..Len(s.procesos[pid])
  BY BienDe DEF Presente
<1>2. D \in SUBSET Nat
  BY <1>1 DEF DeTCB
<1>3. Min(D) \in D
  <2>. HIDE DEF D
  <2>. QED
    BY <1>1, <1>2, MinimoDe
<1>4. Min(D) \in 2..(Len(s.procesos[pid]) - 1) /\ ConTid(s, pid, tid, Min(D))
  BY <1>3 DEF DeTCB
<1>5. Min(D) \in 1..Len(s.procesos[pid])
  BY <1>1, <1>4
<1>6. s.procesos[pid][Min(D)] \in Segmentos(s)
  BY <1>1, <1>5, BienDe
<1>. QED
  BY <1>1, <1>4, <1>5, <1>6 DEF BuscarTCB

\* What the segments hold tells where the TCBs are.
LEMMA IgualesTCB ==
  ASSUME NEW T \in Nat, NEW s, SegBien(s, T), NEW e, SegBien(e, T), Iguales(s, e),
         NEW pid \in DOMAIN s.procesos, Len(e.procesos[pid]) = Len(s.procesos[pid])
  PROVE  /\ ConTCBs(s, pid) => ConTCBs(e, pid)
         /\ \A tid : Presente(s, pid, tid) => Presente(e, pid, tid)
<1>. DEFINE n == Len(s.procesos[pid])
<1>1. /\ n \in Nat /\ DOMAIN s.procesos[pid] = 1..n
      /\ \A i \in 1..n : s.procesos[pid][i].inicio \in Nat
  BY BienDe
<1>2. \A i \in 1..n : /\ pid \in DOMAIN e.procesos /\ i \in DOMAIN e.procesos[pid]
                      /\ e.procesos[pid][i].tamanio = s.procesos[pid][i].tamanio
                      /\ \A k \in Nat : k < s.procesos[pid][i].tamanio =>
                           e.memoria[e.procesos[pid][i].inicio + k] = s.memoria[s.procesos[pid][i].inicio + k]
  BY <1>1 DEF Iguales, Igual
<1>3. \A i \in 1..n : pid \in DOMAIN e.procesos /\ e.procesos[pid][i].inicio \in Nat
  BY <1>2, BienDe
<1>4. \A i \in 2..(n - 1) : i \in 1..n
  BY <1>1
<1>5. ConTCBs(s, pid) => ConTCBs(e, pid)
  <2>1. SUFFICES ASSUME ConTCBs(s, pid), NEW i \in 2..(n - 1) PROVE EsTCB(e, e.procesos[pid][i])
    BY DEF ConTCBs
  <2>2. EsTCB(s, s.procesos[pid][i])
    BY <2>1 DEF ConTCBs
  <2>. DEFINE x == s.procesos[pid][i]
              y == e.procesos[pid][i]
  <2>3. y.tamanio = x.tamanio /\ \A k \in Nat : k < x.tamanio => e.memoria[y.inicio + k] = s.memoria[x.inicio + k]
    BY <1>2, <1>4
  <2>4. x.tamanio = 4 /\ s.memoria[x.inicio + 3] \in {"instruccion"} \X Nat
    BY <2>2 DEF EsTCB, TAM_TCB, INSTRUCCION
  <2>. HIDE DEF x, y
  <2>5. y.tamanio = 4 /\ e.memoria[y.inicio + 3] \in {"instruccion"} \X Nat
    BY <2>3, <2>4
  <2>. QED
    BY <2>5 DEF EsTCB, TAM_TCB, INSTRUCCION, y
<1>6. ASSUME NEW tid, Presente(s, pid, tid) PROVE Presente(e, pid, tid)
  <2>1. PICK i \in 2..(n - 1) : ConTid(s, pid, tid, i)
    BY <1>6 DEF Presente, DeTCB
  <2>. DEFINE x == s.procesos[pid][i]
              y == e.procesos[pid][i]
  <2>2. x.inicio \in Nat /\ y.inicio \in Nat /\ x.tamanio >= 1 /\ x.tamanio \in Nat /\ pid \in DOMAIN e.procesos
    BY <1>1, <1>2, <1>3, <1>4, BienDe
  <2>3. e.memoria[y.inicio + 0] = s.memoria[x.inicio + 0]
    <3>1. \A k \in Nat : k < x.tamanio => e.memoria[y.inicio + k] = s.memoria[x.inicio + k]
      BY <1>2, <1>4
    <3>. HIDE DEF x, y
    <3>. QED
      BY <2>2, <3>1
  <2>4. e.memoria[y.inicio] = s.memoria[x.inicio]
    <3>1. y.inicio + 0 = y.inicio /\ x.inicio + 0 = x.inicio
      BY <2>2
    <3>. HIDE DEF x, y
    <3>. QED
      BY <2>3, <3>1
  <2>5. ConTid(e, pid, tid, i)
    BY <2>1, <2>4 DEF ConTid
  <2>. QED
    BY <2>2, <2>5 DEF Presente, DeTCB
<1>. QED
  BY <1>5, <1>6

\* compactacion: each TCB is found where it has been moved.
LEMMA CompactarTCBs ==
  ASSUME NEW T \in Nat, config.tamanio = T, NEW s, SegBien(s, T), TCBs(s)
  PROVE  LET e == Compactacion(s)
         IN /\ SegBien(e, T) /\ TCBs(e) /\ e.caida = s.caida /\ DOMAIN e.procesos = DOMAIN s.procesos
            /\ \A pid, tid : Presente(s, pid, tid) => Presente(e, pid, tid)
<1>. DEFINE e == Compactacion(s)
<1>1. /\ SegBien(e, T) /\ e.caida = s.caida /\ DOMAIN e.procesos = DOMAIN s.procesos
      /\ \A pid \in DOMAIN s.procesos : Len(e.procesos[pid]) = Len(s.procesos[pid])
      /\ Iguales(s, e)
  BY CompactarBien
<1>. HIDE DEF e
<1>2. \A pid \in DOMAIN s.procesos : /\ ConTCBs(s, pid) => ConTCBs(e, pid)
                                     /\ \A tid : Presente(s, pid, tid) => Presente(e, pid, tid)
  BY <1>1, IgualesTCB
<1>3. TCBs(e)
  BY <1>1, <1>2 DEF TCBs
<1>4. \A pid, tid : Presente(s, pid, tid) => Presente(e, pid, tid)
  BY <1>2 DEF Presente
<1>. QED
  BY <1>1, <1>3, <1>4 DEF e

\* seg_guardar_patota, of a crew that is not in the memory.
LEMMA GuardarTCBs ==
  ASSUME NEW T \in Nat, config.tamanio = T, NEW s, SegBien(s, T), TCBs(s), ~s.caida,
         NEW pid \in Pids, pid \notin DOMAIN s.procesos
  PROVE  LET e == SegGuardarPatota(s, pid)
         IN \/ e.caida
            \/ /\ SegBien(e, T) /\ TCBs(e) /\ DOMAIN e.procesos = DOMAIN s.procesos \cup {pid}
               /\ \A q, tid : Presente(s, q, tid) => Presente(e, q, tid)
               /\ \A tid \in 1..TRIPULANTES[pid] : Presente(e, pid, tid)
<1>. DEFINE d == [s EXCEPT !.procesos = Con(@, pid, <<>>)]
            f == Con(s.procesos, pid, <<>>)
            p == Contenidos(pid)
            n == TRIPULANTES[pid]
            e == SegGuardarTodo(d, pid, p)
<1>1. SegGuardarPatota(s, pid) = e
  BY DEF SegGuardarPatota, SegGuardarTodo, Contenidos
<1>2. /\ n \in Nat \ {0} /\ p \in Seq(Seq(Celdas) \ {<<>>}) /\ Len(p) = n + 2
      /\ \A t \in 1..n : p[t + 1] = TCB(t, 1)
  BY ContenidosDe
<1>3. s \in SegEstado(T) /\ Repartida(s, Segmentos(s), T) /\ Unico(s)
  BY BienDe DEF SegBien
<1>4. /\ DOMAIN f = DOMAIN s.procesos \cup {pid} /\ f[pid] = <<>>
      /\ \A q \in DOMAIN s.procesos : q # pid /\ f[q] = s.procesos[q]
  BY DEF Con
<1>5. /\ d \in SegEstado(T) /\ d.procesos = f /\ d.huecos = s.huecos /\ d.memoria = s.memoria /\ d.caida = s.caida
  <2>1. DOMAIN f \in SUBSET Pids /\ f \in [DOMAIN f -> Seq(Segmento)]
    <3>1. DOMAIN s.procesos \subseteq Pids /\ \A q \in DOMAIN s.procesos : s.procesos[q] \in Seq(Segmento)
      BY <1>3, EstadoDe
    <3>2. <<>> \in Seq(Segmento)
      OBVIOUS
    <3>3. f = [q \in DOMAIN f |-> f[q]]
      BY DEF Con
    <3>. HIDE DEF f
    <3>4. \A q \in DOMAIN f : f[q] \in Seq(Segmento)
      BY <1>4, <3>1, <3>2
    <3>. QED
      BY <1>4, <3>1, <3>3, <3>4
  <2>. DEFINE r == [s EXCEPT !.procesos = f]
  <2>2. d = r
    BY <1>3 DEF SegEstado
  <2>. HIDE DEF f, d
  <2>3. f \in UNION {[D -> Seq(Segmento)] : D \in SUBSET Pids}
    BY <2>1
  <2>4. r \in SegEstado(T) /\ r.procesos = f /\ r.huecos = s.huecos /\ r.memoria = s.memoria /\ r.caida = s.caida
    BY <1>3, <2>3 DEF SegEstado
  <2>. QED
    BY <2>2, <2>4
<1>. HIDE DEF d, f
<1>6. Segmentos(d) = Segmentos(s)
  <2>1. \A x \in Segmentos(d) : x \in Segmentos(s)
    <3>1. SUFFICES ASSUME NEW q \in DOMAIN f, NEW i \in DOMAIN f[q] PROVE f[q][i] \in Segmentos(s)
      BY <1>5, SegmentosEn
    <3>2. q # pid
      <4>1. DOMAIN <<>> = {}
        OBVIOUS
      <4>. QED
        BY <1>4, <3>1, <4>1
    <3>. QED
      BY <1>4, <3>1, <3>2, SegmentosEn
  <2>2. \A x \in Segmentos(s) : x \in Segmentos(d)
    BY <1>4, <1>5, SegmentosEn
  <2>. QED
    BY <2>1, <2>2
<1>7. Unico(d)
  <2>1. DOMAIN f[pid] = {}
    BY <1>4
  <2>. QED
    BY <1>3, <1>4, <1>5, <2>1 DEF Unico
<1>8. SegBien(d, T)
  BY <1>3, <1>5, <1>6, <1>7 DEF SegBien, Repartida
<1>9. Iguales(s, d)
  BY <1>4, <1>5 DEF Iguales, Igual
<1>10. SegBien(e, T) /\ (e.caida \/ Guardada(d, e, pid, p, n + 2))
  <2>1. d \in SegCon(T, pid) /\ d.procesos[pid] = <<>>
    BY <1>4, <1>5, <1>8 DEF SegCon
  <2>. HIDE DEF p
  <2>2. p \in Seq(Seq(Celdas) \ {<<>>}) /\ Len(p) = n + 2
    BY <1>2
  <2>. HIDE DEF n
  <2>. QED
    BY <2>1, <2>2, GuardarTodos
<1>. HIDE DEF e, p, n
<1>11. SUFFICES ASSUME ~e.caida
                PROVE  /\ SegBien(e, T) /\ TCBs(e) /\ DOMAIN e.procesos = DOMAIN s.procesos \cup {pid}
                       /\ \A q, tid : Presente(s, q, tid) => Presente(e, q, tid)
                       /\ \A tid \in 1..n : Presente(e, pid, tid)
  BY <1>1 DEF n
<1>12. /\ DOMAIN e.procesos = DOMAIN d.procesos /\ Iguales(d, e)
       /\ \A q \in DOMAIN d.procesos : q # pid => Len(e.procesos[q]) = Len(d.procesos[q])
       /\ Len(e.procesos[pid]) = n + 2 /\ \A i \in 1..(n + 2) : Tiene(e, pid, i, p[i])
  BY <1>10, <1>11 DEF Guardada
<1>13. Iguales(s, e)
  BY <1>9, <1>12, IgualesDe
<1>14. \A q \in DOMAIN s.procesos : Len(e.procesos[q]) = Len(s.procesos[q])
  BY <1>4, <1>5, <1>12
<1>15. \A q \in DOMAIN s.procesos : /\ ConTCBs(s, q) => ConTCBs(e, q)
                                    /\ \A tid : Presente(s, q, tid) => Presente(e, q, tid)
  BY <1>10, <1>13, <1>14, IgualesTCB
<1>16. \A t \in 1..n : /\ e.procesos[pid][t + 1].tamanio = 4 /\ e.procesos[pid][t + 1].inicio \in Nat
                       /\ e.memoria[e.procesos[pid][t + 1].inicio] = Campo("tid", t)
                       /\ e.memoria[e.procesos[pid][t + 1].inicio + 3] = Campo("instruccion", 1)
  <2>1. SUFFICES ASSUME NEW t \in 1..n
                 PROVE  /\ e.procesos[pid][t + 1].tamanio = 4 /\ e.procesos[pid][t + 1].inicio \in Nat
                        /\ e.memoria[e.procesos[pid][t + 1].inicio] = Campo("tid", t)
                        /\ e.memoria[e.procesos[pid][t + 1].inicio + 3] = Campo("instruccion", 1)
    OBVIOUS
  <2>. DEFINE x == e.procesos[pid][t + 1]
              c == TCB(t, 1)
  <2>2. t + 1 \in 1..(n + 2) /\ p[t + 1] = c
    BY <1>2
  <2>3. Len(c) = 4 /\ c[1] = Campo("tid", t) /\ c[4] = Campo("instruccion", 1)
    BY DEF TCB
  <2>. HIDE DEF c
  <2>4. x.tamanio = 4 /\ \A k \in Nat : k < 4 => e.memoria[x.inicio + k] = c[k + 1]
    BY <1>12, <2>2, <2>3 DEF Tiene
  <2>5. x.inicio \in Nat
    <3>1. pid \in DOMAIN e.procesos
      BY <1>4, <1>5, <1>12
    <3>2. t + 1 \in DOMAIN e.procesos[pid]
      BY <1>10, <1>12, <2>2, <3>1, BienDe
    <3>. QED
      BY <1>10, <3>1, <3>2, BienDe
  <2>. HIDE DEF x
  <2>6. e.memoria[x.inicio + 0] = c[0 + 1] /\ e.memoria[x.inicio + 3] = c[3 + 1] /\ x.inicio + 0 = x.inicio
    BY <2>4, <2>5
  <2>. QED
    <3>1. e.memoria[x.inicio] = Campo("tid", t)
      BY <2>3, <2>6
    <3>2. e.memoria[x.inicio + 3] = Campo("instruccion", 1)
      BY <2>3, <2>6
    <3>. QED
      BY <2>4, <2>5, <3>1, <3>2 DEF x
<1>17. ConTCBs(e, pid)
  <2>1. SUFFICES ASSUME NEW i \in 2..(n + 1) PROVE EsTCB(e, e.procesos[pid][i])
    BY <1>2, <1>12 DEF ConTCBs
  <2>2. i - 1 \in 1..n /\ (i - 1) + 1 = i
    BY <1>2
  <2>3. e.procesos[pid][i].tamanio = 4 /\ e.memoria[e.procesos[pid][i].inicio + 3] = Campo("instruccion", 1)
    BY <1>16, <2>2
  <2>. QED
    BY SMTT(30), <2>3 DEF EsTCB, TAM_TCB, INSTRUCCION, Campo
<1>18. \A tid \in 1..n : Presente(e, pid, tid)
  <2>1. SUFFICES ASSUME NEW tid \in 1..n PROVE Presente(e, pid, tid)
    OBVIOUS
  <2>2. tid + 1 \in 2..(Len(e.procesos[pid]) - 1)
    BY <1>2, <1>12
  <2>3. ConTid(e, pid, tid, tid + 1)
    BY <1>16 DEF ConTid
  <2>4. pid \in DOMAIN e.procesos
    BY <1>4, <1>5, <1>12
  <2>. QED
    BY <2>2, <2>3, <2>4 DEF Presente, DeTCB
<1>19. TCBs(e)
  BY <1>4, <1>5, <1>12, <1>15, <1>17 DEF TCBs
<1>20. \A q, tid : Presente(s, q, tid) => Presente(e, q, tid)
  BY <1>15 DEF Presente
<1>. QED
  BY <1>4, <1>5, <1>10, <1>12, <1>18, <1>19, <1>20

-------------------------------------------------------------------------------
\* What holds of the segments of a process is kept when what they hold is.
LEMMA TCBIgual ==
  ASSUME NEW s, NEW e, NEW x \in Segmento,
         \A k \in Nat : k < x.tamanio => e.memoria[x.inicio + k] = s.memoria[x.inicio + k]
  PROVE  /\ EsTCB(s, x) => EsTCB(e, x)
         /\ x.tamanio >= 1 => e.memoria[x.inicio] = s.memoria[x.inicio]
<1>1. x.inicio \in Nat /\ x.tamanio \in Nat /\ x.inicio + 0 = x.inicio
  BY DEF Segmento
<1>2. x.tamanio >= 1 => e.memoria[x.inicio + 0] = s.memoria[x.inicio + 0]
  BY <1>1
<1>. QED
  BY <1>1, <1>2 DEF EsTCB, TAM_TCB, INSTRUCCION

\* seg_eliminar_tcb, its first part: the TCB at position j is no more.
Quitado(s, pid, j) == [EliminarSegmento(s, s.procesos[pid][j]) EXCEPT !.procesos[pid] = RemoveAt(@, j)]
Sin(s, d, pid, j) ==
  /\ DOMAIN d.procesos = DOMAIN s.procesos /\ d.caida = s.caida
  /\ \A q \in DOMAIN s.procesos : q # pid => d.procesos[q] = s.procesos[q]
  /\ Len(d.procesos[pid]) = Len(s.procesos[pid]) - 1
  /\ \A i \in 1..(Len(s.procesos[pid]) - 1) :
       d.procesos[pid][i] = IF i < j THEN s.procesos[pid][i] ELSE s.procesos[pid][i + 1]
  /\ \A y \in Segmentos(s) \ {s.procesos[pid][j]}, k \in Nat :
       k < y.tamanio => d.memoria[y.inicio + k] = s.memoria[y.inicio + k]

\* seg_eliminar_tcb: the segments that are left are the ones there were.
LEMMA QuitarTCB ==
  ASSUME NEW T \in Nat, NEW s, SegBien(s, T), NEW pid \in DOMAIN s.procesos, NEW j \in 1..Len(s.procesos[pid])
  PROVE  LET d == Quitado(s, pid, j) IN SegBien(d, T) /\ Sin(s, d, pid, j)
<1>. DEFINE C == Segmentos(s)
            p == s.procesos[pid]
            x == p[j]
            a == EliminarSegmento(s, x)
            d == Quitado(s, pid, j)
            w == RemoveAt(p, j)
            n == Len(p)
<1>1. /\ s \in SegEstado(T) /\ Repartida(s, C, T) /\ Unico(s)
      /\ p \in Seq(Segmento) /\ n \in Nat /\ DOMAIN p = 1..n /\ x \in C /\ j \in 1..n
  BY BienDe DEF SegBien
<1>. HIDE DEF C, x, n
<1>2. /\ Repartida(a, C \ {x}, T) /\ a.procesos = s.procesos /\ a.caida = s.caida
      /\ \A y \in C \ {x}, k \in Nat : k < y.tamanio => a.memoria[y.inicio + k] = s.memoria[y.inicio + k]
  <2>1. Repartida(s, C, T) /\ x \in C
    BY <1>1
  <2>2. T \in Nat
    OBVIOUS
  <2>3. Repartida(a, C \ {x}, T)
    BY ONLY <2>1, <2>2, EliminarDe
  <2>4. a.procesos = s.procesos
    BY ONLY <2>1, <2>2, <2>3, EliminarDe
  <2>5. a.caida = s.caida
    BY ONLY <2>1, <2>2, <2>3, EliminarDe
  <2>6. \A y \in C \ {x}, k \in Nat : k < y.tamanio => a.memoria[y.inicio + k] = s.memoria[y.inicio + k]
    BY ONLY <2>1, <2>2, <2>3, EliminarDe
  <2>. QED
    BY ONLY <2>3, <2>4, <2>5, <2>6
<1>3. a \in SegEstado(T)
  BY <1>2 DEF Repartida
<1>. HIDE DEF a
<1>4. /\ w \in Seq(Segmento) /\ Len(w) = n - 1 /\ DOMAIN w = 1..(n - 1)
      /\ \A i \in 1..(n - 1) : w[i] = IF i < j THEN p[i] ELSE p[i + 1]
  <2>. HIDE DEF w, p
  <2>1. w \in Seq(Segmento) /\ Len(w) = Len(p) - 1
        /\ \A i \in 1..(Len(p) - 1) : w[i] = IF i < j THEN p[i] ELSE p[i + 1]
    BY <1>1, QuitarDe DEF w, n
  <2>. QED
    BY <2>1, LenProperties DEF n
<1>. HIDE DEF w
<1>5. /\ d \in SegEstado(T) /\ d.huecos = a.huecos /\ d.caida = a.caida /\ d.memoria = a.memoria
      /\ DOMAIN d.procesos = DOMAIN s.procesos /\ d.procesos[pid] = w
      /\ \A q \in DOMAIN s.procesos : q # pid => d.procesos[q] = s.procesos[q]
  <2>. DEFINE f == [s.procesos EXCEPT ![pid] = w]
              r == [a EXCEPT !.procesos = f]
  <2>1. d = r
    BY <1>2, <1>3 DEF Quitado, a, w, p, x, SegEstado
  <2>2. DOMAIN f = DOMAIN s.procesos /\ f \in [DOMAIN s.procesos -> Seq(Segmento)] /\ f[pid] = w
        /\ \A q \in DOMAIN s.procesos : q # pid => f[q] = s.procesos[q]
    BY <1>1, <1>4, EstadoDe
  <2>. HIDE DEF f, d
  <2>3. f \in UNION {[D -> Seq(Segmento)] : D \in SUBSET Pids}
    <3>1. DOMAIN s.procesos \in SUBSET Pids
      BY <1>1, EstadoDe
    <3>. QED
      BY <2>2, <3>1
  <2>4. r \in SegEstado(T) /\ r.procesos = f /\ r.huecos = a.huecos /\ r.memoria = a.memoria /\ r.caida = a.caida
    BY <1>3, <2>3 DEF SegEstado
  <2>. HIDE DEF r
  <2>. QED
    BY <2>1, <2>2, <2>4
<1>. HIDE DEF d
\* Where each segment of d was in s, and where those of s are in d.
<1>. DEFINE en(q, i) == IF q = pid /\ i >= j THEN i + 1 ELSE i
<1>6. \A q \in DOMAIN s.procesos : \A i \in DOMAIN d.procesos[q] :
        /\ en(q, i) \in DOMAIN s.procesos[q] /\ d.procesos[q][i] = s.procesos[q][en(q, i)]
        /\ q = pid => en(q, i) # j
  <2>1. SUFFICES ASSUME NEW q \in DOMAIN s.procesos, NEW i \in DOMAIN d.procesos[q]
                 PROVE  /\ en(q, i) \in DOMAIN s.procesos[q] /\ d.procesos[q][i] = s.procesos[q][en(q, i)]
                        /\ q = pid => en(q, i) # j
    OBVIOUS
  <2>2. CASE q # pid
    BY <1>5, <2>2
  <2>3. CASE q = pid
    <3>1. i \in 1..(n - 1)
      BY <1>4, <1>5, <2>3
    <3>2. en(pid, i) = (IF i < j THEN i ELSE i + 1) /\ en(pid, i) \in 1..n /\ en(pid, i) # j
      BY <1>1, <3>1
    <3>3. w[i] = p[en(pid, i)]
      BY <1>4, <3>1, <3>2
    <3>. HIDE DEF en
    <3>. QED
      BY <1>1, <1>5, <2>3, <3>2, <3>3
  <2>. QED
    BY <2>2, <2>3
<1>7. \A q \in DOMAIN s.procesos : \A k \in DOMAIN s.procesos[q] :
        ~(q = pid /\ k = j) => \E i \in DOMAIN d.procesos[q] : s.procesos[q][k] = d.procesos[q][i]
  <2>1. SUFFICES ASSUME NEW q \in DOMAIN s.procesos, NEW k \in DOMAIN s.procesos[q], ~(q = pid /\ k = j)
                 PROVE  \E i \in DOMAIN d.procesos[q] : s.procesos[q][k] = d.procesos[q][i]
    OBVIOUS
  <2>2. CASE q # pid
    BY <1>5, <2>2
  <2>3. CASE q = pid /\ k < j
    <3>1. k \in 1..(n - 1)
      BY <1>1, <2>3
    <3>. QED
      BY <1>4, <1>5, <2>3, <3>1
  <2>4. CASE q = pid /\ k > j
    <3>1. k - 1 \in 1..(n - 1) /\ ~(k - 1 < j) /\ (k - 1) + 1 = k
      BY <1>1, <2>4
    <3>2. w[k - 1] = p[k]
      BY <1>4, <3>1
    <3>. QED
      BY <1>4, <1>5, <2>4, <3>1, <3>2
  <2>5. q # pid \/ k < j \/ k > j
    BY <1>1, <2>1
  <2>. QED
    BY <2>2, <2>3, <2>4, <2>5
<1>8. \A q \in DOMAIN s.procesos : \A i, k \in DOMAIN d.procesos[q] : en(q, i) = en(q, k) => i = k
  <2>1. SUFFICES ASSUME NEW q \in DOMAIN s.procesos, NEW i \in DOMAIN d.procesos[q], NEW k \in DOMAIN d.procesos[q],
                        en(q, i) = en(q, k)
                 PROVE  i = k
    OBVIOUS
  <2>2. q # pid => i = k
    BY <2>1
  <2>3. q = pid => i \in Nat /\ k \in Nat
    BY <1>4, <1>5
  <2>4. q = pid => i = k
    BY <1>1, <2>1, <2>3
  <2>. QED
    BY <2>2, <2>4
<1>. HIDE DEF en
<1>9. Segmentos(d) = C \ {x}
  <2>1. ASSUME NEW y \in Segmentos(d) PROVE y \in C \ {x}
    <3>1. PICK q \in DOMAIN d.procesos : \E i \in DOMAIN d.procesos[q] : y = d.procesos[q][i]
      BY SegmentosEn
    <3>2. PICK i \in DOMAIN d.procesos[q] : y = d.procesos[q][i]
      BY <3>1
    <3>3. q \in DOMAIN s.procesos /\ en(q, i) \in DOMAIN s.procesos[q] /\ y = s.procesos[q][en(q, i)]
          /\ ~(q = pid /\ en(q, i) = j)
      BY <1>5, <1>6, <3>2
    <3>4. y \in C
      BY <3>3, SegmentosEn DEF C
    <3>5. y # x
      <4>1. pid \in DOMAIN s.procesos /\ j \in DOMAIN s.procesos[pid]
        BY <1>1
      <4>. QED
        BY <1>1, <3>3, <4>1 DEF Unico, x
    <3>. QED
      BY <3>4, <3>5
  <2>2. ASSUME NEW y \in C \ {x} PROVE y \in Segmentos(d)
    <3>1. PICK q \in DOMAIN s.procesos : \E k \in DOMAIN s.procesos[q] : y = s.procesos[q][k]
      BY SegmentosEn DEF C
    <3>2. PICK k \in DOMAIN s.procesos[q] : y = s.procesos[q][k]
      BY <3>1
    <3>3. ~(q = pid /\ k = j)
      BY <3>2 DEF x
    <3>4. PICK i \in DOMAIN d.procesos[q] : y = d.procesos[q][i]
      BY <1>7, <3>2, <3>3
    <3>. QED
      BY <1>5, <3>4, SegmentosEn
  <2>. QED
    BY <2>1, <2>2
<1>10. Unico(d)
  <2>1. SUFFICES ASSUME NEW q \in DOMAIN d.procesos, NEW u \in DOMAIN d.procesos,
                        NEW i \in DOMAIN d.procesos[q], NEW k \in DOMAIN d.procesos[u],
                        d.procesos[q][i] = d.procesos[u][k]
                 PROVE  q = u /\ i = k
    BY DEF Unico
  <2>2. /\ en(q, i) \in DOMAIN s.procesos[q] /\ d.procesos[q][i] = s.procesos[q][en(q, i)]
        /\ en(u, k) \in DOMAIN s.procesos[u] /\ d.procesos[u][k] = s.procesos[u][en(u, k)]
        /\ q \in DOMAIN s.procesos /\ u \in DOMAIN s.procesos
    BY <1>5, <1>6
  <2>3. q = u /\ en(q, i) = en(u, k)
    <3>. DEFINE f == en(q, i)
                h == en(u, k)
    <3>1. f \in DOMAIN s.procesos[q] /\ h \in DOMAIN s.procesos[u] /\ s.procesos[q][f] = s.procesos[u][h]
          /\ q \in DOMAIN s.procesos /\ u \in DOMAIN s.procesos
      BY <2>1, <2>2
    <3>. HIDE DEF f, h
    <3>2. q = u /\ f = h
      BY <1>1, <3>1 DEF Unico
    <3>. QED
      BY <3>2 DEF f, h
  <2>. QED
    BY <1>8, <2>2, <2>3
<1>11. SegBien(d, T)
  BY <1>2, <1>5, <1>9, <1>10 DEF SegBien, Repartida
<1>12. Sin(s, d, pid, j)
  BY <1>1, <1>2, <1>4, <1>5 DEF Sin, C, x, n
<1>. QED
  BY <1>11, <1>12 DEF d

-------------------------------------------------------------------------------
\* The other TCBs stay where they were.
LEMMA QuitadoTCBs ==
  ASSUME NEW T \in Nat, NEW s, SegBien(s, T), TCBs(s), NEW pid \in DOMAIN s.procesos, NEW tid,
         NEW j \in 2..(Len(s.procesos[pid]) - 1), ConTid(s, pid, tid, j),
         NEW d, SegBien(d, T), Sin(s, d, pid, j)
  PROVE  /\ TCBs(d)
         /\ \A q, u : Presente(s, q, u) /\ ~(q = pid /\ u = tid) => Presente(d, q, u)
<1>. DEFINE n == Len(s.procesos[pid])
            x == s.procesos[pid][j]
            C == Segmentos(s)
<1>1. /\ Unico(s) /\ n \in Nat /\ DOMAIN s.procesos[pid] = 1..n /\ j \in 1..n /\ j \in DOMAIN s.procesos[pid]
      /\ C \subseteq Segmento
  <2>1. n \in Nat /\ DOMAIN s.procesos[pid] = 1..n /\ Unico(s)
    BY BienDe
  <2>2. C \subseteq Segmento
    BY BienDe DEF Bloques
  <2>. QED
    BY <2>1, <2>2
<1>2. /\ DOMAIN d.procesos = DOMAIN s.procesos
      /\ \A q \in DOMAIN s.procesos : q # pid => d.procesos[q] = s.procesos[q]
      /\ Len(d.procesos[pid]) = n - 1
      /\ \A i \in 1..(n - 1) : d.procesos[pid][i] = IF i < j THEN s.procesos[pid][i] ELSE s.procesos[pid][i + 1]
      /\ \A y \in C \ {x}, k \in Nat : k < y.tamanio => d.memoria[y.inicio + k] = s.memoria[y.inicio + k]
  BY DEF Sin
<1>3. \A y \in C \ {x} : /\ EsTCB(s, y) => EsTCB(d, y)
                         /\ y.tamanio >= 1 /\ d.memoria[y.inicio] = s.memoria[y.inicio]
  <2>1. SUFFICES ASSUME NEW y \in C \ {x}
                 PROVE  (EsTCB(s, y) => EsTCB(d, y)) /\ y.tamanio >= 1 /\ d.memoria[y.inicio] = s.memoria[y.inicio]
    OBVIOUS
  <2>2. y \in Segmento /\ \A k \in Nat : k < y.tamanio => d.memoria[y.inicio + k] = s.memoria[y.inicio + k]
    BY <1>1, <1>2
  <2>3. y.tamanio >= 1
    BY BienDe DEF Bloques
  <2>. QED
    BY <2>2, <2>3, TCBIgual
<1>4. \A q \in DOMAIN s.procesos : \A i \in DOMAIN s.procesos[q] :
        s.procesos[q][i] \in C /\ (~(q = pid /\ i = j) => s.procesos[q][i] # x)
  <2>1. \A q \in DOMAIN s.procesos : \A i \in DOMAIN s.procesos[q] : s.procesos[q][i] \in C
    BY BienDe
  <2>. QED
    BY <1>1, <2>1 DEF Unico
<1>. HIDE DEF C, x
<1>5. \A q \in DOMAIN s.procesos : \A i \in DOMAIN s.procesos[q] : ~(q = pid /\ i = j) =>
        LET y == s.procesos[q][i]
        IN (EsTCB(s, y) => EsTCB(d, y)) /\ d.memoria[y.inicio] = s.memoria[y.inicio]
  BY <1>3, <1>4
<1>6. \A q \in DOMAIN s.procesos : \A i \in 2..(Len(s.procesos[q]) - 1) : i \in DOMAIN s.procesos[q]
  <2>1. \A q \in DOMAIN s.procesos : Len(s.procesos[q]) \in Nat /\ DOMAIN s.procesos[q] = 1..Len(s.procesos[q])
    BY BienDe
  <2>. QED
    BY <2>1
<1>7. ASSUME NEW q \in DOMAIN s.procesos PROVE ConTCBs(d, q)
  <2>1. CASE q # pid
    <3>1. SUFFICES ASSUME NEW i \in 2..(Len(s.procesos[q]) - 1) PROVE EsTCB(d, s.procesos[q][i])
      BY <1>2, <2>1 DEF ConTCBs
    <3>2. EsTCB(s, s.procesos[q][i])
      BY DEF TCBs, ConTCBs
    <3>. QED
      BY <1>5, <1>6, <2>1, <3>2
  <2>2. CASE q = pid
    <3>1. SUFFICES ASSUME NEW i \in 2..(n - 2) PROVE EsTCB(d, d.procesos[pid][i])
      <4>1. (n - 1) - 1 = n - 2
        BY <1>1
      <4>. QED
        BY <1>2, <2>2, <4>1 DEF ConTCBs
    <3>. DEFINE k == IF i < j THEN i ELSE i + 1
    <3>2. i \in 1..(n - 1) /\ k \in 2..(n - 1) /\ k # j /\ k \in 1..n
      BY <1>1
    <3>3. d.procesos[pid][i] = s.procesos[pid][k]
      BY <1>2, <3>2
    <3>. HIDE DEF k
    <3>4. EsTCB(s, s.procesos[pid][k])
      BY <3>2 DEF TCBs, ConTCBs
    <3>. QED
      BY <1>1, <1>5, <3>2, <3>3, <3>4
  <2>. QED
    BY <2>1, <2>2
<1>8. ASSUME NEW q, NEW u, Presente(s, q, u), ~(q = pid /\ u = tid) PROVE Presente(d, q, u)
  <2>1. q \in DOMAIN s.procesos /\ q \in DOMAIN d.procesos
    BY <1>2, <1>8 DEF Presente
  <2>2. PICK k \in 2..(Len(s.procesos[q]) - 1) : ConTid(s, q, u, k)
    BY <1>8 DEF Presente, DeTCB
  <2>3. s.memoria[s.procesos[q][k].inicio] = Campo("tid", u) /\ k \in DOMAIN s.procesos[q]
    BY <1>6, <2>1, <2>2 DEF ConTid
  <2>4. CASE q # pid
    <3>1. d.procesos[q] = s.procesos[q]
      BY <1>2, <2>1, <2>4
    <3>2. d.memoria[s.procesos[q][k].inicio] = Campo("tid", u)
      BY <1>5, <2>1, <2>3, <2>4
    <3>3. ConTid(d, q, u, k)
      BY <3>1, <3>2 DEF ConTid
    <3>. QED
      BY <2>1, <2>2, <3>1, <3>3 DEF Presente, DeTCB
  <2>5. CASE q = pid
    <3>1. k # j
      <4>1. u # tid
        BY <1>8, <2>5
      <4>2. s.memoria[s.procesos[pid][j].inicio] = Campo("tid", tid)
        BY DEF ConTid
      <4>. QED
        <5>1. Campo("tid", u) # Campo("tid", tid)
          BY <4>1 DEF Campo
        <5>. QED
          BY <2>3, <2>5, <4>2, <5>1
    <3>. DEFINE i == IF k < j THEN k ELSE k - 1
    <3>2. i \in 2..(n - 2) /\ i \in 1..(n - 1) /\ k = (IF i < j THEN i ELSE i + 1)
      BY <1>1, <2>2, <2>5, <3>1
    <3>3. d.procesos[pid][i] = s.procesos[pid][k]
      BY <1>2, <3>2
    <3>. HIDE DEF i
    <3>4. d.memoria[s.procesos[pid][k].inicio] = Campo("tid", u)
      BY <1>5, <2>3, <2>5, <3>1
    <3>5. ConTid(d, pid, u, i)
      BY <3>3, <3>4 DEF ConTid
    <3>6. i \in 2..(Len(d.procesos[pid]) - 1)
      BY <1>1, <1>2, <3>2
    <3>. QED
      BY <2>1, <2>5, <3>5, <3>6 DEF Presente, DeTCB
  <2>. QED
    BY <2>4, <2>5
<1>9. TCBs(d)
  BY <1>2, <1>7 DEF TCBs
<1>. QED
  BY <1>8, <1>9

\* seg_eliminar_pcb: none of the segments of the process is left.
LEMMA EliminarProceso ==
  ASSUME NEW T \in Nat, NEW d, SegBien(d, T), TCBs(d), NEW pid \in DOMAIN d.procesos
  PROVE  LET e == SegEliminarPCB(d, pid)
         IN /\ SegBien(e, T) /\ TCBs(e) /\ e.caida = d.caida /\ DOMAIN e.procesos = DOMAIN d.procesos \ {pid}
            /\ \A q, u : Presente(d, q, u) /\ q # pid => Presente(e, q, u)
<1>. DEFINE C == Segmentos(d)
            p == d.procesos[pid]
            f == FoldLeft(EliminarSegmento, d, p)
            e == SegEliminarPCB(d, pid)
            D == DOMAIN d.procesos \ {pid}
<1>1. /\ d \in SegEstado(T) /\ Repartida(d, C, T) /\ Unico(d) /\ Bloques(C, T)
      /\ p \in Seq(Segmento) /\ DOMAIN p = 1..Len(p)
      /\ \A q \in DOMAIN d.procesos : \A i \in DOMAIN d.procesos[q] : d.procesos[q][i] \in C
  BY BienDe DEF SegBien
<1>2. ToSet(p) \subseteq C /\ IsInjective(p)
  <2>1. \A i \in DOMAIN p : p[i] \in C
    BY <1>1
  <2>2. \A i, k \in DOMAIN p : p[i] = p[k] => i = k
    BY <1>1 DEF Unico
  <2>. QED
    BY <2>1, <2>2 DEF ToSet, IsInjective
<1>3. /\ Repartida(f, C \ ToSet(p), T) /\ f.procesos = d.procesos /\ f.caida = d.caida
      /\ \A y \in C \ ToSet(p), k \in Nat : k < y.tamanio => f.memoria[y.inicio + k] = d.memoria[y.inicio + k]
  <2>. HIDE DEF p, C
  <2>1. Repartida(f, C \ ToSet(p), T)
    BY <1>1, <1>2, EliminarTodos
  <2>. QED
    BY <1>1, <1>2, <2>1, EliminarTodos
<1>4. f \in SegEstado(T)
  BY <1>3 DEF Repartida
<1>. HIDE DEF f
<1>5. /\ e \in SegEstado(T) /\ e.huecos = f.huecos /\ e.caida = f.caida /\ e.memoria = f.memoria
      /\ DOMAIN e.procesos = D /\ \A q \in D : e.procesos[q] = d.procesos[q]
  <2>. DEFINE g == [q \in D |-> d.procesos[q]]
              r == [f EXCEPT !.procesos = g]
  <2>1. e = [f EXCEPT !.procesos = Restrict(@, DOMAIN @ \ {pid})]
    BY DEF SegEliminarPCB, f, p
  <2>5. e = r
    BY <1>3, <1>4, <2>1 DEF Restrict, SegEstado
  <2>2. g \in UNION {[A -> Seq(Segmento)] : A \in SUBSET Pids}
    <3>1. D \in SUBSET Pids /\ \A q \in D : d.procesos[q] \in Seq(Segmento)
      BY <1>1, EstadoDe
    <3>2. g \in [D -> Seq(Segmento)]
      BY <3>1
    <3>. QED
      BY <3>1, <3>2
  <2>3. DOMAIN g = D /\ \A q \in D : g[q] = d.procesos[q]
    OBVIOUS
  <2>. HIDE DEF g, e, D
  <2>4. r \in SegEstado(T) /\ r.procesos = g /\ r.huecos = f.huecos /\ r.memoria = f.memoria /\ r.caida = f.caida
    BY <1>4, <2>2 DEF SegEstado
  <2>. HIDE DEF r
  <2>. QED
    BY <2>3, <2>4, <2>5
<1>. HIDE DEF e
<1>6. Segmentos(e) = C \ ToSet(p)
  <2>1. ASSUME NEW y \in Segmentos(e) PROVE y \in C \ ToSet(p)
    <3>1. PICK q \in D : \E i \in DOMAIN e.procesos[q] : y = e.procesos[q][i]
      BY <1>5, SegmentosEn
    <3>2. PICK i \in DOMAIN d.procesos[q] : y = d.procesos[q][i]
      BY <1>5, <3>1
    <3>. QED
      BY <1>1, <3>2 DEF Unico, ToSet
  <2>2. ASSUME NEW y \in C, y \notin ToSet(p) PROVE y \in Segmentos(e)
    <3>1. PICK q \in DOMAIN d.procesos : \E i \in DOMAIN d.procesos[q] : y = d.procesos[q][i]
      BY SegmentosEn
    <3>2. q # pid
      BY <2>2, <3>1 DEF ToSet
    <3>. QED
      BY <1>5, <3>1, <3>2, SegmentosEn
  <2>. QED
    BY <2>1, <2>2
<1>7. Unico(e)
  BY <1>1, <1>5 DEF Unico
<1>8. SegBien(e, T)
  BY <1>3, <1>5, <1>6, <1>7 DEF SegBien, Repartida
<1>9. \A q \in D : \A i \in DOMAIN d.procesos[q] :
        LET y == d.procesos[q][i]
        IN (EsTCB(d, y) => EsTCB(e, y)) /\ e.memoria[y.inicio] = d.memoria[y.inicio]
  <2>1. SUFFICES ASSUME NEW q \in D, NEW i \in DOMAIN d.procesos[q], NEW y, y = d.procesos[q][i]
                 PROVE  (EsTCB(d, y) => EsTCB(e, y)) /\ e.memoria[y.inicio] = d.memoria[y.inicio]
    OBVIOUS
  <2>2. y \in Segmentos(e) /\ y \in C
    BY <1>5, <2>1, SegmentosEn
  <2>3. y \in Segmento /\ y.tamanio >= 1
    BY <1>1, <2>2 DEF Bloques
  <2>4. \A k \in Nat : k < y.tamanio => e.memoria[y.inicio + k] = d.memoria[y.inicio + k]
    BY <1>3, <1>5, <1>6, <2>2
  <2>. QED
    BY <2>3, <2>4, TCBIgual
<1>10. \A q \in D : \A i \in 2..(Len(d.procesos[q]) - 1) : i \in DOMAIN d.procesos[q]
  <2>1. \A q \in D : Len(d.procesos[q]) \in Nat /\ DOMAIN d.procesos[q] = 1..Len(d.procesos[q])
    BY BienDe
  <2>. QED
    BY <2>1
<1>11. TCBs(e)
  BY <1>5, <1>9, <1>10 DEF TCBs, ConTCBs
<1>12. ASSUME NEW q, NEW u, Presente(d, q, u), q # pid PROVE Presente(e, q, u)
  <2>1. q \in D /\ q \in DOMAIN e.procesos /\ e.procesos[q] = d.procesos[q]
    BY <1>5, <1>12 DEF Presente
  <2>2. PICK k \in 2..(Len(d.procesos[q]) - 1) : ConTid(d, q, u, k)
    BY <1>12 DEF Presente, DeTCB
  <2>3. ConTid(e, q, u, k)
    BY <1>9, <1>10, <2>1, <2>2 DEF ConTid
  <2>. QED
    BY <2>1, <2>2, <2>3 DEF Presente, DeTCB
<1>. QED
  BY <1>3, <1>5, <1>8, <1>11, <1>12 DEF e, f

\* seg_eliminar_tcb, as a whole.
LEMMA EliminarTCBs ==
  ASSUME NEW T \in Nat, NEW s, SegBien(s, T), TCBs(s), NEW pid, NEW tid, Presente(s, pid, tid)
  PROVE  LET e == SegEliminarTCB(s, pid, tid)
         IN /\ SegBien(e, T) /\ TCBs(e) /\ e.caida = s.caida /\ DOMAIN e.procesos \subseteq DOMAIN s.procesos
            /\ \A q, u : Presente(s, q, u) /\ ~(q = pid /\ u = tid) => Presente(e, q, u)
<1>. DEFINE j == Min(DeTCB(s, pid, tid))
            d == Quitado(s, pid, j)
            e == SegEliminarTCB(s, pid, tid)
<1>1. /\ pid \in DOMAIN s.procesos /\ j \in 2..(Len(s.procesos[pid]) - 1) /\ ConTid(s, pid, tid, j)
      /\ j \in 1..Len(s.procesos[pid]) /\ DeTCB(s, pid, tid) # {}
  BY PresenteDe DEF Presente
<1>2. e = IF Len(d.procesos[pid]) > 2 THEN d
          ELSE SegEliminarPCB(d, pid)
  BY <1>1 DEF SegEliminarTCB, Quitado
<1>. HIDE DEF j, e
<1>3. SegBien(d, T) /\ Sin(s, d, pid, j)
  BY <1>1, QuitarTCB
<1>. HIDE DEF d
<1>4. TCBs(d) /\ \A q, u : Presente(s, q, u) /\ ~(q = pid /\ u = tid) => Presente(d, q, u)
  BY <1>1, <1>3, QuitadoTCBs
<1>5. d.caida = s.caida /\ DOMAIN d.procesos = DOMAIN s.procesos
  BY <1>3 DEF Sin
<1>6. CASE Len(d.procesos[pid]) > 2
  BY <1>2, <1>3, <1>4, <1>5, <1>6 DEF e
<1>7. CASE ~(Len(d.procesos[pid]) > 2)
  <2>. DEFINE f == SegEliminarPCB(d, pid)
  <2>1. /\ SegBien(f, T) /\ TCBs(f) /\ f.caida = d.caida /\ DOMAIN f.procesos = DOMAIN d.procesos \ {pid}
        /\ \A q, u : Presente(d, q, u) /\ q # pid => Presente(f, q, u)
    BY <1>1, <1>3, <1>4, <1>5, EliminarProceso
  <2>2. \A u : ~Presente(d, pid, u)
    <3>1. Len(d.procesos[pid]) \in Nat
      BY <1>1, <1>3, <1>5, BienDe
    <3>2. 2..(Len(d.procesos[pid]) - 1) = {}
      BY <1>7, <3>1
    <3>. QED
      BY <3>2 DEF Presente, DeTCB
  <2>3. e = f
    BY <1>2, <1>7
  <2>. HIDE DEF f
  <2>4. \A q, u : Presente(s, q, u) /\ ~(q = pid /\ u = tid) => Presente(f, q, u)
    BY <1>4, <2>1, <2>2
  <2>. QED
    BY <1>5, <2>1, <2>3, <2>4 DEF e
<1>. QED
  BY <1>6, <1>7

\* A write to a field of a TCB leaves every other cell as it was.
LEMMA EditarTCBs ==
  ASSUME NEW T \in Nat, NEW s, SegBien(s, T), TCBs(s), NEW pid, NEW tid, Presente(s, pid, tid),
         NEW campo \in 1..3, NEW valor \in Celdas, campo = INSTRUCCION => valor \in {"instruccion"} \X Nat
  PROVE  LET e == SegEditar(s, pid, tid, campo, valor)
         IN /\ SegBien(e, T) /\ TCBs(e) /\ e.caida = s.caida /\ e.procesos = s.procesos
            /\ \A q, u : Presente(s, q, u) => Presente(e, q, u)
<1>. DEFINE j == Min(DeTCB(s, pid, tid))
            x == s.procesos[pid][j]
            C == Segmentos(s)
            a == x.inicio + campo
            e == SegEditar(s, pid, tid, campo, valor)
<1>1. /\ pid \in DOMAIN s.procesos /\ j \in 2..(Len(s.procesos[pid]) - 1) /\ x \in C
      /\ BuscarTCB(s, pid, tid) = x.inicio
  BY PresenteDe
<1>2. EsTCB(s, x)
  BY <1>1 DEF TCBs, ConTCBs
<1>3. s \in SegEstado(T) /\ Unico(s) /\ Bloques(C, T) /\ Repartida(s, C, T)
  BY BienDe DEF SegBien
<1>4. /\ x.inicio \in Nat /\ x.tamanio = 4 /\ x.inicio + 4 <= T /\ a \in 0..(T - 1)
      /\ s.memoria \in [0..(T - 1) -> Celdas]
  <2>1. x.inicio \in Nat /\ x.inicio + x.tamanio <= T /\ x.tamanio = 4
    BY <1>1, <1>2, <1>3 DEF Bloques, Segmento, Fin, EsTCB, TAM_TCB
  <2>2. s.memoria \in [0..(T - 1) -> Celdas]
    BY <1>3, EstadoDe
  <2>3. a \in 0..(T - 1)
    <3>. DEFINE b == x.inicio
    <3>1. b \in Nat /\ b + 4 <= T
      BY <2>1
    <3>. HIDE DEF b
    <3>2. b + campo \in 0..(T - 1)
      BY <3>1
    <3>. QED
      BY <3>2 DEF b
  <2>. QED
    BY <2>1, <2>2, <2>3
<1>5. /\ e \in SegEstado(T) /\ e.procesos = s.procesos /\ e.huecos = s.huecos /\ e.caida = s.caida
      /\ e.memoria = [s.memoria EXCEPT ![a] = valor]
  <2>. DEFINE m == [s.memoria EXCEPT ![a] = valor]
              r == [s EXCEPT !.memoria = m]
  <2>1. e = r
    BY <1>1, <1>3 DEF SegEditar, SegEstado
  <2>2. m \in [0..(T - 1) -> Celdas]
    BY <1>4
  <2>. HIDE DEF m, e
  <2>3. r \in SegEstado(T) /\ r.procesos = s.procesos /\ r.huecos = s.huecos /\ r.caida = s.caida /\ r.memoria = m
    BY <1>3, <2>2 DEF SegEstado
  <2>. HIDE DEF r
  <2>. QED
    BY <2>1, <2>3 DEF m
<1>. HIDE DEF e
<1>6. Segmentos(e) = C /\ Unico(e)
  BY <1>3, <1>5 DEF Segmentos, Unico
<1>. HIDE DEF C, x
<1>7. SegBien(e, T)
  BY <1>3, <1>5, <1>6 DEF SegBien, Repartida
<1>8. \A y \in C, k \in Nat : k < y.tamanio /\ y.inicio + k = a => k = campo
  <2>1. SUFFICES ASSUME NEW y \in C, NEW k \in Nat, k < y.tamanio, y.inicio + k = a PROVE k = campo
    OBVIOUS
  <2>2. y.inicio \in Nat /\ y.tamanio \in Nat
    BY <1>3 DEF Bloques, Segmento
  <2>3. y = x
    <3>1. ~Separados(y, x)
      <4>1. campo \in Nat /\ campo < 4 /\ y.inicio + k = x.inicio + campo
        BY <2>1
      <4>2. \A b, c, n, h, l \in Nat : h < 4 /\ l < n /\ c + l = b + h => ~(c + n <= b) /\ ~(b + 4 <= c)
        OBVIOUS
      <4>3. ~(y.inicio + y.tamanio <= x.inicio) /\ ~(x.inicio + 4 <= y.inicio)
        BY <1>4, <2>1, <2>2, <4>1, <4>2
      <4>. QED
        BY <1>4, <4>3 DEF Separados, Fin
    <3>. QED
      BY <1>1, <1>3, <3>1 DEF Bloques
  <2>. QED
    BY <1>4, <2>1, <2>3
<1>9. ASSUME NEW y \in C
      PROVE  /\ EsTCB(s, y) => EsTCB(e, y)
             /\ e.memoria[y.inicio] = s.memoria[y.inicio]
  <2>1. y.inicio \in Nat /\ y.tamanio \in Nat /\ y.tamanio >= 1 /\ y.inicio + y.tamanio <= T
    BY <1>3, <1>9 DEF Bloques, Segmento, Fin
  <2>2. \A k \in Nat : k < y.tamanio => y.inicio + k \in 0..(T - 1)
    BY <2>1
  <2>3. y.inicio + 0 = y.inicio
    BY <2>1
  <2>4. y.inicio # a
    <3>1. 0 \in Nat /\ 0 < y.tamanio
      BY <2>1
    <3>2. y.inicio + 0 # a
      <4>1. 0 # campo
        OBVIOUS
      <4>. QED
        BY <1>8, <1>9, <3>1, <4>1
    <3>. QED
      BY <2>3, <3>2
  <2>5. e.memoria[y.inicio] = s.memoria[y.inicio]
    BY <1>4, <1>5, <2>4
  <2>6. ASSUME EsTCB(s, y) PROVE EsTCB(e, y)
    <3>1. y.tamanio = 4 /\ s.memoria[y.inicio + 3] \in {"instruccion"} \X Nat
      BY <2>6 DEF EsTCB, TAM_TCB, INSTRUCCION
    <3>2. y.inicio + 3 \in 0..(T - 1)
      BY <2>2, <3>1
    <3>3. e.memoria[y.inicio + 3] = IF y.inicio + 3 = a THEN valor ELSE s.memoria[y.inicio + 3]
      BY <1>4, <1>5, <3>2
    <3>4. y.inicio + 3 = a => campo = 3
      BY <1>8, <1>9, <3>1
    <3>5. e.memoria[y.inicio + 3] \in {"instruccion"} \X Nat
      BY <3>1, <3>3, <3>4 DEF INSTRUCCION
    <3>. QED
      BY <3>1, <3>5 DEF EsTCB, TAM_TCB, INSTRUCCION
  <2>. QED
    BY <2>5, <2>6
<1>10. \A q \in DOMAIN s.procesos : \A i \in 2..(Len(s.procesos[q]) - 1) : s.procesos[q][i] \in C
  <2>1. \A q \in DOMAIN s.procesos : Len(s.procesos[q]) \in Nat /\ DOMAIN s.procesos[q] = 1..Len(s.procesos[q])
    BY BienDe
  <2>2. \A q \in DOMAIN s.procesos : \A i \in 2..(Len(s.procesos[q]) - 1) : i \in DOMAIN s.procesos[q]
    BY <2>1
  <2>. QED
    BY <2>2, SegmentosEn DEF C
<1>11. TCBs(e)
  BY <1>5, <1>9, <1>10 DEF TCBs, ConTCBs
<1>12. ASSUME NEW q, NEW u, Presente(s, q, u) PROVE Presente(e, q, u)
  <2>1. q \in DOMAIN s.procesos
    BY <1>12 DEF Presente
  <2>2. PICK k \in 2..(Len(s.procesos[q]) - 1) : ConTid(s, q, u, k)
    BY <1>12 DEF Presente, DeTCB
  <2>3. ConTid(e, q, u, k)
    BY <1>5, <1>9, <1>10, <2>1, <2>2 DEF ConTid
  <2>. QED
    BY <1>5, <2>1, <2>2, <2>3 DEF Presente, DeTCB
<1>. QED
  BY <1>5, <1>7, <1>11, <1>12 DEF e

-------------------------------------------------------------------------------
\* A memory that is well divided is what ParticionMemoria says.
LEMMA ParticionDe ==
  ASSUME NEW T \in Nat, SegBien(seg, T)
  PROVE  ParticionMemoria
<1>. DEFINE celdas(x) == x.inicio..(x.inicio + x.tamanio - 1)
            L == UNION {{pid} \X DOMAIN seg.procesos[pid] : pid \in DOMAIN seg.procesos}
            deSeg(a) == {l \in L : a \in celdas(seg.procesos[l[1]][l[2]])}
            deHueco(a) == {i \in DOMAIN seg.huecos : a \in celdas(seg.huecos[i])}
            C == Segmentos(seg)
            H == ToSet(seg.huecos)
<1>1. /\ seg \in SegEstado(T) /\ Unico(seg) /\ Orden(seg.huecos) /\ Reparto(C, H, T)
      /\ DOMAIN seg.memoria = 0..(T - 1) /\ seg.huecos \in Seq(Segmento)
  BY BienDe, EstadoDe DEF SegBien, Repartida
<1>2. \A x \in C \cup H : /\ x.inicio \in Nat /\ x.tamanio \in Nat /\ x.inicio + x.tamanio <= T
                          /\ \A a \in Int : a \in celdas(x) <=> x.inicio <= a /\ a < x.inicio + x.tamanio
  BY <1>1 DEF Reparto, Bloques, Segmento, Fin
<1>3. \A x \in C \cup H : celdas(x) \subseteq DOMAIN seg.memoria
  <2>1. SUFFICES ASSUME NEW x \in C \cup H, NEW a \in celdas(x) PROVE a \in 0..(T - 1)
    BY <1>1
  <2>2. x.inicio \in Nat /\ x.tamanio \in Nat /\ x.inicio + x.tamanio <= T
    BY <1>2
  <2>. QED
    BY <2>2
<1>4. \A x, y \in C \cup H, a \in Int : a \in celdas(x) /\ a \in celdas(y) => x = y
  <2>1. SUFFICES ASSUME NEW x \in C \cup H, NEW y \in C \cup H, NEW a \in Int, a \in celdas(x), a \in celdas(y), x # y
                 PROVE  FALSE
    OBVIOUS
  <2>2. Separados(x, y)
    BY <1>1, <2>1 DEF Reparto
  <2>3. /\ x.inicio \in Nat /\ x.tamanio \in Nat /\ x.inicio <= a /\ a < x.inicio + x.tamanio
        /\ y.inicio \in Nat /\ y.tamanio \in Nat /\ y.inicio <= a /\ a < y.inicio + y.tamanio
    BY <1>2, <2>1
  <2>. QED
    BY <2>2, <2>3 DEF Separados, Fin
<1>5. \A a \in 0..(T - 1) : \E x \in C \cup H : a \in celdas(x)
  <2>1. SUFFICES ASSUME NEW a \in 0..(T - 1) PROVE \E x \in C \cup H : a \in celdas(x)
    OBVIOUS
  <2>2. PICK x \in C \cup H : x.inicio <= a /\ a < Fin(x)
    BY <1>1 DEF Reparto
  <2>3. a \in celdas(x)
    BY <1>2, <2>2 DEF Fin
  <2>. QED
    BY <2>3
<1>6. C \cap H = {}
  BY <1>1 DEF Reparto
\* A position of a list of segments, and one of the list of holes, for each of them.
<1>7. /\ \A l \in L : seg.procesos[l[1]][l[2]] \in C
      /\ \A x \in C : \E l \in L : x = seg.procesos[l[1]][l[2]]
      /\ \A l, m \in L : seg.procesos[l[1]][l[2]] = seg.procesos[m[1]][m[2]] => l = m
  <2>1. \A l \in L : l[1] \in DOMAIN seg.procesos /\ l[2] \in DOMAIN seg.procesos[l[1]] /\ l = <<l[1], l[2]>>
    OBVIOUS
  <2>2. \A pid \in DOMAIN seg.procesos : \A i \in DOMAIN seg.procesos[pid] : <<pid, i>> \in L
    OBVIOUS
  <2>. HIDE DEF L
  <2>3. \A l \in L : seg.procesos[l[1]][l[2]] \in C
    BY <2>1, SegmentosEn
  <2>4. \A x \in C : \E l \in L : x = seg.procesos[l[1]][l[2]]
    <3>1. SUFFICES ASSUME NEW x \in C PROVE \E l \in L : x = seg.procesos[l[1]][l[2]]
      OBVIOUS
    <3>2. PICK pid \in DOMAIN seg.procesos : \E i \in DOMAIN seg.procesos[pid] : x = seg.procesos[pid][i]
      BY SegmentosEn
    <3>3. PICK i \in DOMAIN seg.procesos[pid] : x = seg.procesos[pid][i]
      BY <3>2
    <3>4. <<pid, i>> \in L /\ x = seg.procesos[<<pid, i>>[1]][<<pid, i>>[2]]
      BY <2>2, <3>3
    <3>. QED
      BY <3>4
  <2>5. \A l, m \in L : seg.procesos[l[1]][l[2]] = seg.procesos[m[1]][m[2]] => l = m
    BY <1>1, <2>1 DEF Unico
  <2>. QED
    BY <2>3, <2>4, <2>5
<1>8. /\ \A i \in DOMAIN seg.huecos : seg.huecos[i] \in H
      /\ \A x \in H : \E i \in DOMAIN seg.huecos : x = seg.huecos[i]
      /\ \A i, j \in DOMAIN seg.huecos : seg.huecos[i] = seg.huecos[j] => i = j
  <2>1. DOMAIN seg.huecos = 1..Len(seg.huecos) /\ Len(seg.huecos) \in Nat
        /\ \A i, j \in 1..Len(seg.huecos) : seg.huecos[i].inicio = seg.huecos[j].inicio => i = j
    BY <1>1, OrdenDe
  <2>. QED
    BY <2>1 DEF ToSet
<1>. HIDE DEF C, H, L, celdas
<1>9. ASSUME NEW a \in DOMAIN seg.memoria PROVE Cardinality(deSeg(a)) + Cardinality(deHueco(a)) = 1
  <2>0. /\ \A l, S : S = {l} => Cardinality(S) = 1
        /\ \A S : S = {} => Cardinality(S) = 0
    BY FS_EmptySet, FS_Singleton
  <2>. HIDE DEF deSeg, deHueco
  <2>1. a \in 0..(T - 1) /\ a \in Int
    BY <1>1
  <2>2. PICK x \in C \cup H : a \in celdas(x)
    BY <1>5, <2>1
  <2>3. CASE x \in C
    <3>1. PICK l \in L : x = seg.procesos[l[1]][l[2]]
      BY <1>7, <2>3
    <3>2. deSeg(a) = {l}
      BY <1>4, <1>7, <2>1, <2>2, <2>3, <3>1 DEF deSeg
    <3>3. deHueco(a) = {}
      BY <1>4, <1>6, <1>8, <2>1, <2>2, <2>3 DEF deHueco
    <3>4. Cardinality(deSeg(a)) = 1 /\ Cardinality(deHueco(a)) = 0
      BY <2>0, <3>2, <3>3, Zenon
    <3>. QED
      BY <3>4
  <2>4. CASE x \in H
    <3>1. PICK i \in DOMAIN seg.huecos : x = seg.huecos[i]
      BY <1>8, <2>4
    <3>2. deHueco(a) = {i}
      BY <1>4, <1>8, <2>1, <2>2, <2>4, <3>1 DEF deHueco
    <3>3. deSeg(a) = {}
      BY <1>4, <1>6, <1>7, <2>1, <2>2, <2>4 DEF deSeg
    <3>4. Cardinality(deSeg(a)) = 0 /\ Cardinality(deHueco(a)) = 1
      BY <2>0, <3>2, <3>3, Zenon
    <3>. QED
      BY <3>4
  <2>. QED
    BY <2>2, <2>3, <2>4
<1>10. \A i, j \in DOMAIN seg.huecos : i < j => seg.huecos[i].inicio < seg.huecos[j].inicio
  BY <1>1 DEF Orden
<1>. QED
  BY <1>3, <1>9, <1>10 DEF ParticionMemoria, C, H, L, celdas

\* seg_iniciar_variables: the whole memory is a hole.
LEMMA IniciarBien ==
  ASSUME NEW T \in Nat
  PROVE  /\ SegBien(SegIniciar(T), T) /\ TCBs(SegIniciar(T)) /\ SegIniciar(T).caida = FALSE
         /\ SegIniciar(T).procesos = <<>>
<1>. DEFINE s == SegIniciar(T)
            h == [inicio |-> 0, tamanio |-> T]
            f == <<>>
            m == [a \in 0..(T - 1) |-> Basura]
<1>1. h \in Segmento /\ h.inicio = 0 /\ h.tamanio = T /\ DOMAIN f = {}
  BY DEF Segmento
<1>2. f \in UNION {[D -> Seq(Segmento)] : D \in SUBSET Pids}
  <2>1. f \in [{} -> Seq(Segmento)]
    BY <1>1
  <2>. QED
    BY <2>1
<1>3. s.memoria = m /\ s.procesos = f /\ s.huecos = <<h>> /\ s.caida = FALSE
  BY DEF SegIniciar
<1>4. m \in [0..(T - 1) -> Celdas]
  BY BasuraEs
<1>5. s \in SegEstado(T)
  <2>. HIDE DEF f, h, m
  <2>1. <<h>> \in Seq(Segmento)
    BY <1>1
  <2>2. s = [memoria |-> m, procesos |-> f, huecos |-> <<h>>, caida |-> FALSE]
    BY DEF SegIniciar, f, h, m
  <2>. HIDE DEF s
  <2>. QED
    BY <1>2, <1>4, <2>1, <2>2 DEF SegEstado
<1>. HIDE DEF s, m, h
<1>6. Segmentos(s) = {} /\ Unico(s) /\ TCBs(s)
  BY <1>1, <1>3 DEF Segmentos, Unico, TCBs
<1>7. ToSet(s.huecos) = {h} /\ Orden(s.huecos)
  BY <1>3 DEF ToSet, Orden
<1>8. Reparto({}, {h}, T)
  <2>1. Bloques({}, T)
    BY FS_EmptySet DEF Bloques
  <2>. QED
    BY <1>1, <2>1 DEF Reparto, Fin
<1>. QED
  BY <1>3, <1>5, <1>6, <1>7, <1>8 DEF SegBien, Repartida, s

\* The next instruction of a member is a number.
LEMMA InstruccionDe ==
  ASSUME NEW T \in Nat, NEW s, SegBien(s, T), TCBs(s), NEW pid, NEW tid, Presente(s, pid, tid)
  PROVE  Instruccion(s, pid, tid) \in Nat
<1>. DEFINE x == s.procesos[pid][Min(DeTCB(s, pid, tid))]
<1>1. EsTCB(s, x) /\ BuscarTCB(s, pid, tid) = x.inicio
  BY PresenteDe DEF TCBs, ConTCBs
<1>. QED
  BY <1>1 DEF EsTCB, Instruccion

===============================================================================
