------------------------------ MODULE SwampProofs ------------------------------
(***************************************************************************)
(* Proofs about Swamp, for any files, carpinchos and contents: no two      *)
(* pages share a frame and the bitmaps are exactly the frames of the       *)
(* pages, a free frame is blank, and a request never touches the pages of  *)
(* a carpincho it was not about.                                           *)
(***************************************************************************)
EXTENDS Swamp, Lemas

TPagina == [marco : Marcos, libre : BOOLEAN]
TCarpincho == [archivo : Archivos \cup {-1}, paginas : Seq(TPagina)]

Tipos ==
  /\ config \in Configuraciones
  /\ conectada \in BOOLEAN /\ caida \in BOOLEAN /\ asignacion \in {"FIJA", "DINAMICA"}
  /\ archivos \in [Archivos -> [Marcos -> Contenidos \cup {CERO}]]
  /\ bitmaps \in [Archivos -> SUBSET Marcos]
  /\ DOMAIN carpinchos \subseteq Pids
  /\ carpinchos \in [DOMAIN carpinchos -> TCarpincho]

\* The frames of a carpincho, each of which one of its pages alone has.
Suyos(pid) == IF pid \in DOMAIN carpinchos THEN MarcosDe(Paginas(pid)) ELSE {}
Distintos(s) == \A i, j \in DOMAIN s : s[i].marco = s[j].marco => i = j
Dueno(pid, a, m) == m \in Suyos(pid) /\ carpinchos[pid].archivo = a

\* Without a memory there are no carpinchos, and one with pages has a file.
SinMemoria == ~conectada => DOMAIN carpinchos = {}
ConArchivo == \A pid \in DOMAIN carpinchos : Suyos(pid) # {} => carpinchos[pid].archivo \in Archivos

UnDueno ==
  /\ \A pid \in DOMAIN carpinchos : Distintos(Paginas(pid))
  /\ \A p, q \in DOMAIN carpinchos : \A a, m : Dueno(p, a, m) /\ Dueno(q, a, m) => p = q
  /\ \A a \in Archivos : \A m : m \in bitmaps[a] <=> \E p \in DOMAIN carpinchos : Dueno(p, a, m)

\* Under FIJA each carpincho has a whole block: the blocks never overlap in
\* part, so the first free frame begins a free block. That is what
\* iniciar_carpincho relies on when it does not look at the frames after it.
Bloque(k) == (k * MARCOS_MAXIMOS)..(k * MARCOS_MAXIMOS + MARCOS_MAXIMOS - 1)
EnBloques ==
  asignacion = "FIJA" =>
    \A pid \in DOMAIN carpinchos :
      carpinchos[pid].archivo \in Archivos /\ \E k \in Nat : Suyos(pid) = Bloque(k)

\* Under DINAMICA no page waits to be written.
SinLibres ==
  asignacion = "DINAMICA" =>
    \A pid \in DOMAIN carpinchos : \A i \in DOMAIN Paginas(pid) : ~Paginas(pid)[i].libre

Inductiva == 
  /\ Tipos /\ SinMemoria /\ ConArchivo /\ UnDueno /\ EnBloques /\ SinLibres
  /\ MarcosLimpios

-------------------------------------------------------------------------------
\* The frames of a list of pages, one by one.
LEMMA MarcosDeEs ==
  ASSUME NEW s, NEW m
  PROVE  m \in MarcosDe(s) <=> \E i \in DOMAIN s : s[i].marco = m
BY DEF MarcosDe, ToSet

\* A list of no pages, and one with a page more for a frame nobody had.
LEMMA PaginasVacias ==
  MarcosDe(<<>>) = {} /\ Distintos(<<>>)
BY DEF MarcosDe, ToSet, Distintos

LEMMA PaginaMas ==
  ASSUME NEW F, NEW s \in Seq([marco : F, libre : BOOLEAN]), Distintos(s),
         NEW e \in [marco : F, libre : BOOLEAN], e.marco \notin MarcosDe(s)
  PROVE  /\ Append(s, e) \in Seq([marco : F, libre : BOOLEAN])
         /\ MarcosDe(Append(s, e)) = MarcosDe(s) \cup {e.marco}
         /\ Distintos(Append(s, e))
<1>. DEFINE T == [marco : F, libre : BOOLEAN]
            m == e.marco
            t == Append(s, e)
<1>1. e \in T /\ e.marco = m
  OBVIOUS
<1>. HIDE DEF m, T
<1>2. /\ t \in Seq(T) /\ Len(t) = Len(s) + 1 /\ Len(s) \in Nat
      /\ \A i \in 1..Len(s) : t[i] = s[i]
      /\ t[Len(s) + 1] = e
      /\ DOMAIN t = 1..(Len(s) + 1) /\ DOMAIN s = 1..Len(s)
  BY <1>1, AppendProperties, LenProperties DEF T
<1>. HIDE DEF t
<1>3. MarcosDe(t) = MarcosDe(s) \cup {m}
  <2>1. ASSUME NEW x PROVE x \in MarcosDe(t) <=> x \in MarcosDe(s) \/ x = m
    <3>1. DOMAIN t = 1..Len(s) \cup {Len(s) + 1}
      BY <1>2
    <3>2. x \in MarcosDe(t) <=> \E i \in DOMAIN t : t[i].marco = x
      BY MarcosDeEs
    <3>3. x \in MarcosDe(t) <=> (\E i \in 1..Len(s) : t[i].marco = x) \/ t[Len(s) + 1].marco = x
      BY <3>1, <3>2
    <3>4. (\E i \in 1..Len(s) : t[i].marco = x) <=> x \in MarcosDe(s)
      BY <1>2, MarcosDeEs
    <3>. QED
      BY <1>1, <1>2, <3>3, <3>4
  <2>. QED
    BY <2>1
<1>4. \A i \in 1..Len(s) : s[i].marco # m
  BY <1>1, <1>2, MarcosDeEs
<1>5. Distintos(t)
  BY <1>1, <1>2, <1>4 DEF Distintos
<1>. QED
  BY <1>2, <1>3, <1>5 DEF T, t, m

\* A page less is its frame less.
LEMMA PaginaMenos ==
  ASSUME NEW F, NEW s \in Seq([marco : F, libre : BOOLEAN]), Distintos(s),
         NEW n \in Nat, n < Len(s)
  PROVE  /\ Sacar(s, n) \in Seq([marco : F, libre : BOOLEAN])
         /\ MarcosDe(Sacar(s, n)) = MarcosDe(s) \ {s[n + 1].marco}
         /\ Distintos(Sacar(s, n))
<1>. DEFINE T == [marco : F, libre : BOOLEAN]
            t == Sacar(s, n)
<1>1. /\ t \in Seq(T) /\ Len(t) = Len(s) - 1 /\ Len(s) \in Nat
      /\ \A i \in 1..(Len(s) - 1) : t[i] = IF i < n + 1 THEN s[i] ELSE s[i + 1]
  <2>. HIDE DEF T
  <2>1. Len(s) \in Nat /\ n + 1 \in 1..Len(s)
    BY LenProperties DEF T
  <2>. QED
    BY <2>1, QuitarDe DEF T, Sacar
<1>2. DOMAIN t = 1..(Len(s) - 1) /\ DOMAIN s = 1..Len(s)
  BY <1>1, LenProperties
<1>. HIDE DEF t
<1>. DEFINE de(i) == IF i < n + 1 THEN i ELSE i + 1
<1>3. \A i \in 1..(Len(s) - 1) : de(i) \in 1..Len(s) \ {n + 1} /\ t[i] = s[de(i)]
  BY <1>1
<1>5. Distintos(t)
  <2>. SUFFICES ASSUME NEW i \in 1..(Len(s) - 1), NEW j \in 1..(Len(s) - 1),
                       t[i].marco = t[j].marco
                PROVE  i = j
    BY <1>2 DEF Distintos
  <2>1. s[de(i)].marco = s[de(j)].marco
    BY <1>3
  <2>2. de(i) = de(j)
    <3>. HIDE DEF de
    <3>. QED
      BY <1>2, <1>3, <2>1 DEF Distintos
  <2>. QED
    BY <2>2
<1>4. ASSUME NEW x PROVE x \in MarcosDe(t) <=> x \in MarcosDe(s) /\ x # s[n + 1].marco
  <2>1. ASSUME NEW i \in 1..(Len(s) - 1), t[i].marco = x
        PROVE  x \in MarcosDe(s) /\ x # s[n + 1].marco
    <3>. HIDE DEF de
    <3>1. de(i) \in DOMAIN s /\ de(i) # n + 1 /\ n + 1 \in DOMAIN s /\ s[de(i)].marco = x
      BY <1>1, <1>2, <1>3, <2>1
    <3>. QED
      BY <3>1, MarcosDeEs DEF Distintos
  <2>2. ASSUME NEW j \in 1..Len(s), s[j].marco = x, x # s[n + 1].marco
        PROVE  x \in MarcosDe(t)
    <3>1. j # n + 1
      BY <2>2
    <3>2. PICK i \in 1..(Len(s) - 1) : t[i] = s[j]
      <4>1. CASE j < n + 1
        BY <1>1, <4>1
      <4>2. CASE j > n + 1
        <5>1. j - 1 \in 1..(Len(s) - 1) /\ ~(j - 1 < n + 1) /\ (j - 1) + 1 = j
          BY <1>1, <4>2
        <5>. QED
          BY <1>1, <5>1
      <4>. QED
        BY <3>1, <4>1, <4>2
    <3>. QED
      BY <1>2, <2>2, <3>2, MarcosDeEs
  <2>. QED
    BY <1>2, <2>1, <2>2, MarcosDeEs
<1>. QED
  BY <1>1, <1>2, <1>3, <1>4, <1>5 DEF T, t

LEMMA QuedanLasMismas ==
  ASSUME NEW S, NEW s \in Seq(S), NEW n \in Nat, n < Len(s), NEW i \in DOMAIN Sacar(s, n)
  PROVE  \E j \in DOMAIN s : Sacar(s, n)[i] = s[j]
<1>1. n + 1 \in 1..Len(s) /\ Len(s) \in Nat /\ DOMAIN s = 1..Len(s)
  BY LenProperties
<1>2. /\ Sacar(s, n) \in Seq(S) /\ Len(Sacar(s, n)) = Len(s) - 1
      /\ \A k \in 1..(Len(s) - 1) : Sacar(s, n)[k] = IF k < n + 1 THEN s[k] ELSE s[k + 1]
  BY <1>1, QuitarDe DEF Sacar
<1>3. i \in 1..(Len(s) - 1)
  BY <1>2, LenProperties
<1>. QED
  BY <1>1, <1>2, <1>3

\* Changing one field of a page keeps the other.
LEMMA PaginaSuelta ==
  ASSUME NEW F, NEW p \in [marco : F, libre : BOOLEAN], NEW b \in BOOLEAN
  PROVE  [p EXCEPT !.libre = b] = [marco |-> p.marco, libre |-> b]
OBVIOUS

\* A page that is used, or is used no more, has the frame it had.
LEMMA PaginaUsada ==
  ASSUME NEW F, NEW s \in Seq([marco : F, libre : BOOLEAN]), NEW k \in 1..Len(s), NEW b \in BOOLEAN
  PROVE  LET t == [s EXCEPT ![k].libre = b]
         IN /\ t \in Seq([marco : F, libre : BOOLEAN])
            /\ MarcosDe(t) = MarcosDe(s)
            /\ Distintos(s) => Distintos(t)
            /\ DOMAIN t = DOMAIN s /\ \A i \in DOMAIN s : t[i].marco = s[i].marco
<1>. DEFINE T == [marco : F, libre : BOOLEAN]
            e == [s[k] EXCEPT !.libre = b]
            t == [s EXCEPT ![k] = e]
<1>1. s[k] \in T
  BY ElementOfSeq
<1>2. e \in T /\ e.marco = s[k].marco
  BY <1>1
<1>. HIDE DEF e, T
<1>3. /\ t \in Seq(T) /\ Len(t) = Len(s)
      /\ \A j \in 1..Len(s) : t[j] = IF j = k THEN e ELSE s[j]
      /\ DOMAIN t = 1..Len(s) /\ DOMAIN s = 1..Len(s)
  BY <1>2, ExceptSeq, LenProperties DEF T
<1>. HIDE DEF t
<1>4. \A i \in 1..Len(s) : t[i].marco = s[i].marco
  BY <1>2, <1>3
<1>5. Distintos(s) => Distintos(t)
  BY <1>3, <1>4 DEF Distintos
<1>6. MarcosDe(t) = MarcosDe(s)
  <2>1. ASSUME NEW x PROVE x \in MarcosDe(t) <=> x \in MarcosDe(s)
    <3>1. x \in MarcosDe(t) <=> \E i \in 1..Len(s) : t[i].marco = x
      BY <1>3, MarcosDeEs
    <3>2. x \in MarcosDe(s) <=> \E i \in 1..Len(s) : s[i].marco = x
      BY <1>3, MarcosDeEs
    <3>. QED
      BY <1>4, <3>1, <3>2
  <2>. QED
    BY <2>1
<1>. QED
  BY <1>3, <1>4, <1>5, <1>6 DEF T, t, e

\* The pages a carpincho is given under FIJA: a block of frames from m on.
LEMMA PaginasDeBloque ==
  ASSUME NEW F, NEW m \in Nat, NEW k \in Nat \ {0}, m..(m + k - 1) \subseteq F
  PROVE  LET t == [i \in 1..k |-> [marco |-> m + i - 1, libre |-> TRUE]]
         IN /\ t \in Seq([marco : F, libre : BOOLEAN])
            /\ MarcosDe(t) = m..(m + k - 1)
            /\ Distintos(t)
<1>. DEFINE T == [marco : F, libre : BOOLEAN]
            t == [i \in 1..k |-> [marco |-> m + i - 1, libre |-> TRUE]]
<1>1. \A i \in 1..k : m + i - 1 \in m..(m + k - 1)
  OBVIOUS
<1>2. DOMAIN t = 1..k /\ \A i \in 1..k : t[i] \in T /\ t[i].marco = m + i - 1
  BY <1>1
<1>3. t \in Seq(T)
  <2>. HIDE DEF T
  <2>1. t \in [1..k -> T]
    BY <1>2
  <2>. HIDE DEF t
  <2>. QED
    BY <2>1
<1>4. MarcosDe(t) = m..(m + k - 1)
  <2>. HIDE DEF t
  <2>1. ASSUME NEW x \in m..(m + k - 1) PROVE x \in MarcosDe(t)
    <3>1. x - m + 1 \in 1..k /\ m + (x - m + 1) - 1 = x
      OBVIOUS
    <3>2. t[x - m + 1].marco = x
      BY <1>2, <3>1
    <3>. QED
      BY <1>2, <3>1, <3>2, MarcosDeEs
  <2>2. ASSUME NEW x, x \in MarcosDe(t) PROVE x \in m..(m + k - 1)
    BY <1>1, <1>2, <2>2, MarcosDeEs
  <2>. QED
    BY <2>1, <2>2
<1>5. Distintos(t)
  BY <1>2 DEF Distintos
<1>. QED
  BY <1>3, <1>4, <1>5 DEF T, t

\* tamanio_archivo counts, and archivo_con_mas_espacio is one of the files.
LEMMA LibresDe ==
  ASSUME Tipos, NEW a \in Archivos
  PROVE  IsFiniteSet(Libres(a)) /\ tamanio_archivo(a) \in Nat /\ tamanio_archivo(a) <= config.paginas
<1>1. config.paginas \in Nat \ {0}
  BY SwampAssumption DEF Tipos
<1>2. IsFiniteSet(Marcos) /\ Cardinality(Marcos) = config.paginas
  <2>. DEFINE p == config.paginas
  <2>. HIDE DEF p
  <2>1. p \in Nat \ {0} /\ Marcos = 0..(p - 1)
    BY <1>1 DEF p, Marcos
  <2>2. IsFiniteSet(0..(p - 1)) /\ Cardinality(0..(p - 1)) = IF 0 > p - 1 THEN 0 ELSE p - 1 - 0 + 1
    BY <2>1, FS_Interval
  <2>. QED
    BY <2>1, <2>2 DEF p
<1>3. Libres(a) \in SUBSET Marcos
  BY DEF Libres
<1>. QED
  BY <1>2, <1>3, FS_Subset, FS_CardinalityType DEF tamanio_archivo

LEMMA ArchivoElegido ==
  ASSUME Tipos
  PROVE  archivo_con_mas_espacio \in Archivos
<1>. DEFINE faltan == {config.paginas - tamanio_archivo(b) : b \in Archivos}
            menos == Min(faltan)
            mejores == {b \in Archivos : config.paginas - tamanio_archivo(b) = menos}
            a == Min(mejores)
<1>1. config.archivos \in Nat \ {0} /\ config.paginas \in Nat \ {0}
  BY SwampAssumption DEF Tipos
<1>2. Archivos \subseteq Nat /\ 0 \in Archivos
  BY <1>1 DEF Archivos
<1>3. \A b \in Archivos : tamanio_archivo(b) \in Nat /\ tamanio_archivo(b) <= config.paginas
  BY LibresDe
<1>4. faltan \in SUBSET Nat /\ faltan # {}
  BY <1>1, <1>2, <1>3
<1>5. menos \in faltan /\ \A d \in faltan : menos <= d
  <2>. HIDE DEF faltan
  <2>. QED
    BY <1>4, MinimoDe
<1>. HIDE DEF menos
<1>6. mejores \in SUBSET Nat /\ mejores # {}
  BY <1>2, <1>5
<1>7. a \in mejores /\ \A b \in mejores : a <= b
  <2>. HIDE DEF mejores
  <2>. QED
    BY <1>6, MinimoDe
<1>. HIDE DEF a
<1>8. ASSUME NEW b \in Archivos
      PROVE  /\ tamanio_archivo(b) <= tamanio_archivo(a)
             /\ b < a => tamanio_archivo(b) < tamanio_archivo(a)
  <2>1. a \in Archivos /\ config.paginas - tamanio_archivo(a) = menos
    BY <1>7
  <2>2. menos <= config.paginas - tamanio_archivo(b)
    BY <1>5
  <2>3. tamanio_archivo(b) = tamanio_archivo(a) => a <= b
    BY <1>7, <2>1
  <2>4. /\ tamanio_archivo(a) \in Nat /\ tamanio_archivo(b) \in Nat
        /\ a \in Nat /\ b \in Nat /\ config.paginas \in Nat
    BY <1>1, <1>2, <1>3, <2>1
  <2>. QED
    BY <2>1, <2>2, <2>3, <2>4
<1>. QED
  BY <1>7, <1>8 DEF archivo_con_mas_espacio

\* The first free frame, when there is one.
LEMMA PrimeroDe ==
  ASSUME Tipos, NEW a \in Archivos, Libres(a) # {}
  PROVE  /\ Primero(a) \in Marcos /\ Primero(a) \in Nat /\ Primero(a) \notin bitmaps[a]
         /\ \A m \in Libres(a) : Primero(a) <= m
<1>1. Libres(a) \in SUBSET Nat /\ Marcos \subseteq Nat
  BY SwampAssumption DEF Tipos, Libres, Marcos
<1>2. Primero(a) \in Libres(a) /\ \A m \in Libres(a) : Primero(a) <= m
  BY <1>1, MinimoDe DEF Primero
<1>. QED
  BY <1>1, <1>2 DEF Libres

\* Under FIJA the frames from the first that is free are a free block, if there
\* are enough free frames for one wherever they are.
LEMMA BloqueLibre ==
  ASSUME Tipos, UnDueno, EnBloques, asignacion = "FIJA",
         NEW a \in Archivos, tamanio_archivo(a) >= MARCOS_MAXIMOS
  PROVE  LET m == Primero(a)
             bloque == m..(m + MARCOS_MAXIMOS - 1)
         IN /\ m \in Nat /\ bloque \subseteq Marcos /\ bloque \cap bitmaps[a] = {}
            /\ \E k \in Nat : bloque = Bloque(k)
<1>. DEFINE m == Primero(a)
            M == MARCOS_MAXIMOS
            n == config.paginas
<1>1. M \in Nat \ {0} /\ n \in Nat \ {0} /\ Marcos = 0..(n - 1)
  BY SwampAssumption DEF Tipos, Marcos
<1>2. IsFiniteSet(Libres(a)) /\ Cardinality(Libres(a)) \in Nat /\ Cardinality(Libres(a)) >= M
  BY LibresDe DEF tamanio_archivo
<1>3. Libres(a) # {}
  BY <1>1, <1>2, FS_EmptySet
<1>4. /\ m \in Marcos /\ m \in Nat /\ m \notin bitmaps[a]
      /\ \A x \in Marcos : x \notin bitmaps[a] => m <= x
  BY <1>3, PrimeroDe DEF Libres
<1>5. ASSUME NEW x \in bitmaps[a]
      PROVE  \E k \in Nat : x \in Bloque(k) /\ Bloque(k) \subseteq bitmaps[a]
  <2>1. PICK p \in DOMAIN carpinchos : Dueno(p, a, x)
    BY DEF UnDueno
  <2>2. PICK k \in Nat : Suyos(p) = Bloque(k)
    BY DEF EnBloques
  <2>3. ASSUME NEW y \in Suyos(p) PROVE y \in bitmaps[a]
    <3>1. Dueno(p, a, y)
      BY <2>1 DEF Dueno
    <3>. QED
      BY <3>1 DEF UnDueno
  <2>. QED
    BY <2>1, <2>2, <2>3 DEF Dueno
<1>. HIDE DEF m, M, n
<1>6. PICK k \in Nat : m = k * M
  <2>1. CASE m = 0
    BY <1>1, <2>1
  <2>2. CASE m # 0
    <3>1. m - 1 \in Marcos /\ ~(m <= m - 1)
      BY <1>1, <1>4, <2>2
    <3>2. m - 1 \in bitmaps[a]
      BY <1>4, <3>1
    <3>3. PICK k \in Nat : m - 1 \in Bloque(k) /\ Bloque(k) \subseteq bitmaps[a]
      BY <1>5, <3>2
    <3>4. m \notin Bloque(k)
      BY <1>4, <3>3
    <3>5. k * M \in Nat /\ (k + 1) * M = k * M + M
      BY <1>1, Multiplos
    <3>6. Bloque(k) = (k * M)..(k * M + M - 1)
      BY DEF Bloque, M
    <3>7. m = k * M + M
      BY <1>1, <1>4, <3>3, <3>4, <3>5, <3>6
    <3>. QED
      BY <3>5, <3>7
  <2>. QED
    BY <2>1, <2>2
<1>7. ASSUME NEW x \in m..(m + M - 1) PROVE x \notin bitmaps[a]
  <2>. SUFFICES ASSUME x \in bitmaps[a] PROVE FALSE
    OBVIOUS
  <2>1. PICK l \in Nat : x \in Bloque(l) /\ Bloque(l) \subseteq bitmaps[a]
    BY <1>5
  <2>. DEFINE c == k * M
              d == l * M
  <2>2. c \in Nat /\ d \in Nat /\ (c < d => c + M <= d) /\ (d < c => d + M <= c)
    BY <1>1, Multiplos
  <2>3. Bloque(l) = d..(d + M - 1) /\ m = c
    BY <1>6 DEF Bloque, M
  <2>. HIDE DEF c, d
  <2>. QED
    BY <1>1, <1>4, <2>1, <2>2, <2>3
<1>8. m + M <= n
  <2>1. Libres(a) \subseteq m..(n - 1)
    BY <1>1, <1>4 DEF Libres
  <2>2. IsFiniteSet(m..(n - 1)) /\ Cardinality(m..(n - 1)) = n - m
    <3>1. m \in Int /\ n - 1 \in Int /\ ~(m > n - 1)
      BY <1>1, <1>4
    <3>2. /\ IsFiniteSet(m..(n - 1))
          /\ Cardinality(m..(n - 1)) = IF m > n - 1 THEN 0 ELSE (n - 1) - m + 1
      BY <3>1, FS_Interval
    <3>. QED
      BY <1>1, <1>4, <3>1, <3>2
  <2>3. Cardinality(Libres(a)) <= n - m
    BY <2>1, <2>2, FS_Subset
  <2>. QED
    BY <1>1, <1>2, <1>4, <2>3
<1>9. m..(m + M - 1) \subseteq Marcos
  BY <1>1, <1>4, <1>8
<1>10. m..(m + M - 1) = Bloque(k)
  BY <1>6 DEF Bloque, M
<1>. QED
  BY <1>4, <1>7, <1>9, <1>10 DEF m, M

-------------------------------------------------------------------------------
(***************************************************************************)
(* What all the requests that change something have in common: one         *)
(* carpincho, pid, changes some frames of its own, of the file a, for      *)
(* others that were free, and what it leaves is blank.                     *)
(***************************************************************************)
Cambio(pid, a) ==
  /\ conectada /\ a \in Archivos
  /\ UNCHANGED <<config, conectada, asignacion>>
  /\ Tipos'
  /\ DOMAIN carpinchos' \ {pid} = DOMAIN carpinchos \ {pid}
  /\ \A r \in DOMAIN carpinchos \ {pid} : carpinchos'[r] = carpinchos[r]
  /\ Suyos(pid) # {} => carpinchos[pid].archivo = a
  /\ Suyos(pid)' # {} => carpinchos'[pid].archivo = a
  /\ \A x \in Archivos \ {a} : bitmaps'[x] = bitmaps[x] /\ archivos'[x] = archivos[x]
  /\ bitmaps'[a] = (bitmaps[a] \ Suyos(pid)) \cup Suyos(pid)'
  /\ bitmaps[a] \cap Suyos(pid)' \subseteq Suyos(pid)
  /\ \A m \in Marcos : m \notin Suyos(pid) \cup Suyos(pid)' => archivos'[a][m] = archivos[a][m]
  /\ \A m \in Suyos(pid) \ Suyos(pid)' : archivos'[a][m] = CERO
  /\ pid \in DOMAIN carpinchos' =>
       /\ Distintos(Paginas(pid))'
       /\ asignacion = "FIJA" => carpinchos'[pid].archivo \in Archivos /\ \E k \in Nat : Suyos(pid)' = Bloque(k)
       /\ asignacion = "DINAMICA" => \A i \in DOMAIN Paginas(pid)' : ~Paginas(pid)'[i].libre

\* The frames of the others stay as they were, and so does what they have.
LEMMA OtrosMarcos ==
  ASSUME NEW pid, NEW a, Cambio(pid, a), NEW r, r # pid
  PROVE  /\ r \in DOMAIN carpinchos <=> r \in DOMAIN carpinchos'
         /\ Suyos(r)' = Suyos(r)
         /\ \A x, m : Dueno(r, x, m)' <=> Dueno(r, x, m)
<1>1. r \in DOMAIN carpinchos <=> r \in DOMAIN carpinchos'
  BY DEF Cambio
<1>2. r \in DOMAIN carpinchos => carpinchos'[r] = carpinchos[r]
  BY DEF Cambio
<1>3. Suyos(r)' = Suyos(r)
  BY <1>1, <1>2 DEF Suyos, Paginas
<1>4. \A x, m : Dueno(r, x, m)' <=> Dueno(r, x, m)
  BY <1>2, <1>3 DEF Dueno, Suyos
<1>. QED
  BY <1>1, <1>3, <1>4

\* Such a change keeps the invariant.
LEMMA CambioUnDueno ==
  ASSUME Inductiva, NEW pid, NEW a, Cambio(pid, a)
  PROVE  UnDueno'
<1>1. Archivos' = Archivos /\ a \in Archivos
  BY DEF Cambio, Archivos
<1>2. ASSUME NEW r \in DOMAIN carpinchos' PROVE Distintos(Paginas(r))'
  <2>1. CASE r = pid
    BY <2>1 DEF Cambio
  <2>2. CASE r # pid
    <3>1. r \in DOMAIN carpinchos /\ carpinchos'[r] = carpinchos[r]
      BY <2>2 DEF Cambio
    <3>2. Distintos(carpinchos[r].paginas)
      BY <3>1 DEF Inductiva, UnDueno, Paginas
    <3>. QED
      BY <3>1, <3>2 DEF Paginas
  <2>. QED
    BY <2>1, <2>2
<1>3. ASSUME NEW r, r # pid, NEW x, NEW m, Dueno(r, x, m)' PROVE x = a => m \notin Suyos(pid)'
  <2>1. Dueno(r, x, m) /\ r \in DOMAIN carpinchos
    BY <1>3, OtrosMarcos DEF Dueno, Suyos
  <2>2. SUFFICES ASSUME x = a, m \in Suyos(pid)' PROVE FALSE
    OBVIOUS
  <2>3. m \in bitmaps[a]
    BY <1>1, <2>1, <2>2 DEF Inductiva, UnDueno
  <2>4. m \in Suyos(pid) /\ carpinchos[pid].archivo = a
    BY <2>2, <2>3 DEF Cambio
  <2>5. Dueno(pid, a, m) /\ pid \in DOMAIN carpinchos
    BY <2>4 DEF Dueno, Suyos
  <2>. QED
    BY <1>3, <2>1, <2>2, <2>5 DEF Inductiva, UnDueno
<1>4. ASSUME NEW p, NEW q, NEW x, NEW m, Dueno(p, x, m)', Dueno(q, x, m)'
      PROVE  p = q
  <2>1. CASE p # pid /\ q # pid
    <3>1. Dueno(p, x, m) /\ Dueno(q, x, m) /\ p \in DOMAIN carpinchos /\ q \in DOMAIN carpinchos
      BY <1>4, <2>1, OtrosMarcos DEF Dueno, Suyos
    <3>. QED
      BY <3>1 DEF Inductiva, UnDueno
  <2>2. ASSUME NEW y, Dueno(pid, y, m)' PROVE m \in Suyos(pid)' /\ y = a
    BY <2>2 DEF Dueno, Cambio
  <2>. QED
    BY <1>3, <1>4, <2>1, <2>2
<1>5. ASSUME NEW x \in Archivos, NEW m
      PROVE  m \in bitmaps'[x] <=> \E p \in DOMAIN carpinchos' : Dueno(p, x, m)'
  <2>1. m \in bitmaps[x] <=> \E p \in DOMAIN carpinchos : Dueno(p, x, m)
    BY DEF Inductiva, UnDueno
  <2>2. ASSUME NEW p, p # pid PROVE p \in DOMAIN carpinchos' /\ Dueno(p, x, m)' <=> p \in DOMAIN carpinchos /\ Dueno(p, x, m)
    BY <2>2, OtrosMarcos
  <2>3. x # a => ~ Dueno(pid, x, m) /\ ~ Dueno(pid, x, m)' /\ bitmaps'[x] = bitmaps[x]
    BY DEF Dueno, Cambio
  <2>4. CASE x # a
    BY <2>1, <2>2, <2>3, <2>4
  <2>5. CASE x = a
    <3>1. /\ m \in Suyos(pid) <=> pid \in DOMAIN carpinchos /\ Dueno(pid, a, m)
          /\ m \in Suyos(pid)' <=> pid \in DOMAIN carpinchos' /\ Dueno(pid, a, m)'
      BY DEF Dueno, Suyos, Cambio
    <3>2. m \in bitmaps'[a] <=> (m \in bitmaps[a] /\ m \notin Suyos(pid)) \/ m \in Suyos(pid)'
      BY DEF Cambio
    <3>3. ASSUME NEW p \in DOMAIN carpinchos, p # pid, Dueno(p, a, m) PROVE m \notin Suyos(pid)
      BY <3>1, <3>3 DEF Inductiva, UnDueno
    <3>. QED
      BY <2>1, <2>2, <2>5, <3>1, <3>2, <3>3
  <2>. QED
    BY <2>4, <2>5
<1>. QED
  BY <1>1, <1>2, <1>4, <1>5 DEF UnDueno

LEMMA CambioLimpio ==
  ASSUME Inductiva, NEW pid, NEW a, Cambio(pid, a)
  PROVE  MarcosLimpios'
<1>1. Archivos' = Archivos /\ Marcos' = Marcos
  BY DEF Cambio, Archivos, Marcos
<1>. SUFFICES ASSUME NEW x \in Archivos, NEW m \in Marcos, m \notin bitmaps'[x]
              PROVE  archivos'[x][m] = CERO
  BY <1>1 DEF MarcosLimpios
<1>2. CASE x # a
  BY <1>2 DEF Cambio, Inductiva, MarcosLimpios
<1>3. CASE x = a
  BY <1>3 DEF Cambio, Inductiva, MarcosLimpios
<1>. QED
  BY <1>2, <1>3

LEMMA CambioInductiva ==
  ASSUME Inductiva, NEW pid, NEW a, Cambio(pid, a)
  PROVE  Inductiva'
<1>1. Tipos' /\ conectada' /\ Archivos' = Archivos /\ asignacion' = asignacion /\ a \in Archivos
  BY DEF Cambio, Archivos
<1>2. ASSUME NEW r \in DOMAIN carpinchos', r # pid
      PROVE  r \in DOMAIN carpinchos /\ carpinchos'[r] = carpinchos[r] /\ Suyos(r)' = Suyos(r)
  BY <1>2, OtrosMarcos DEF Cambio
<1>3. ConArchivo'
  BY <1>1, <1>2 DEF ConArchivo, Inductiva, Cambio
<1>4. EnBloques'
  <2>1. \A k : Bloque(k)' = Bloque(k)
    BY DEF Bloque
  <2>. SUFFICES ASSUME asignacion = "FIJA", NEW r \in DOMAIN carpinchos'
                PROVE  carpinchos'[r].archivo \in Archivos /\ \E k \in Nat : Suyos(r)' = Bloque(k)
    BY <1>1, <2>1 DEF EnBloques
  <2>2. CASE r = pid
    BY <2>2 DEF Cambio
  <2>3. CASE r # pid
    BY <1>2, <2>3 DEF Inductiva, EnBloques
  <2>. QED
    BY <2>2, <2>3
<1>5. SinLibres'
  <2>. SUFFICES ASSUME asignacion = "DINAMICA", NEW r \in DOMAIN carpinchos'
                PROVE  \A i \in DOMAIN Paginas(r)' : ~Paginas(r)'[i].libre
    BY <1>1 DEF SinLibres
  <2>2. CASE r = pid
    BY <2>2 DEF Cambio
  <2>3. CASE r # pid
    BY <1>2, <2>3 DEF Inductiva, SinLibres, Paginas
  <2>. QED
    BY <2>2, <2>3
<1>. QED
  BY <1>1, <1>3, <1>4, <1>5, CambioUnDueno, CambioLimpio DEF Inductiva, SinMemoria

\* Nor does it touch what the pages of the others have.
LEMMA CambioQuietos ==
  ASSUME Inductiva, NEW pid, NEW a, Cambio(pid, a),
         NEW r \in DOMAIN carpinchos, r # pid
  PROVE  Contenido(r)' = Contenido(r)
<1>. DEFINE f == carpinchos[r].archivo
            s == carpinchos[r].paginas
<1>1. carpinchos'[r] = carpinchos[r]
  BY DEF Cambio
<1>2. ASSUME NEW i \in DOMAIN s PROVE archivos'[f][s[i].marco] = archivos[f][s[i].marco]
  <2>. DEFINE m == s[i].marco
  <2>1. m \in Suyos(r)
    BY MarcosDeEs DEF Suyos, Paginas
  <2>2. f \in Archivos /\ Dueno(r, f, m)
    BY <2>1 DEF Inductiva, ConArchivo, Dueno
  <2>4. s \in Seq(TPagina) /\ m \in Marcos
    <3>1. s \in Seq(TPagina)
      BY DEF Inductiva, Tipos, TCarpincho
    <3>2. s[i] \in TPagina
      BY <3>1, ElementOfSeq, LenProperties
    <3>. QED
      BY <3>1, <3>2 DEF TPagina
  <2>. HIDE DEF m, f, s
  <2>5. CASE f # a
    BY <2>2, <2>5 DEF Cambio, m
  <2>6. CASE f = a
    <3>1. ~ Dueno(pid, f, m)
      BY <2>2 DEF Inductiva, UnDueno, Dueno, Suyos
    <3>2. m \notin Suyos(pid)
      BY <2>6, <3>1 DEF Dueno, Cambio
    <3>3. m \in bitmaps[a]
      BY <2>2, <2>6 DEF Inductiva, UnDueno, Dueno, Suyos
    <3>4. m \notin Suyos(pid)'
      BY <3>2, <3>3 DEF Cambio
    <3>. QED
      BY <2>4, <2>6, <3>2, <3>4 DEF Cambio, m
  <2>. QED
    BY <2>5, <2>6
<1>. QED
  BY <1>1, <1>2 DEF Contenido, Paginas

-------------------------------------------------------------------------------
\* What the operations on the state of a request do, and that they keep types.
LEMMA TiposDe ==
  ASSUME Tipos, UNCHANGED <<config, conectada, asignacion>>, caida' \in BOOLEAN,
         archivos' \in [Archivos -> [Marcos -> Contenidos \cup {CERO}]],
         bitmaps' \in [Archivos -> SUBSET Marcos],
         DOMAIN carpinchos' \subseteq Pids,
         carpinchos' \in [DOMAIN carpinchos' -> TCarpincho]
  PROVE  Tipos'
<1>1. Archivos' = Archivos /\ Marcos' = Marcos /\ TCarpincho' = TCarpincho
  BY DEF Archivos, Marcos, TCarpincho, TPagina
<1>. QED
  BY <1>1 DEF Tipos

LEMMA AlGuardar ==
  ASSUME Tipos, NEW a \in Archivos, NEW m \in Marcos, NEW c \in Contenidos, Guardar(a, m, c)
  PROVE  /\ archivos' \in [Archivos -> [Marcos -> Contenidos \cup {CERO}]]
         /\ \A x \in Archivos \ {a} : archivos'[x] = archivos[x]
         /\ \A y \in Marcos \ {m} : archivos'[a][y] = archivos[a][y]
BY DEF Tipos, Guardar

LEMMA AlBlanquear ==
  ASSUME Tipos, NEW a \in Archivos, NEW S,
         archivos' = [archivos EXCEPT ![a] = Ceros(@, S)]
  PROVE  /\ archivos' \in [Archivos -> [Marcos -> Contenidos \cup {CERO}]]
         /\ \A x \in Archivos \ {a} : archivos'[x] = archivos[x]
         /\ \A y \in Marcos : archivos'[a][y] = IF y \in S THEN CERO ELSE archivos[a][y]
<1>1. \A y \in Marcos : Ceros(archivos[a], S)[y] = IF y \in S THEN CERO ELSE archivos[a][y]
  BY DEF Ceros
<1>2. Ceros(archivos[a], S) \in [Marcos -> Contenidos \cup {CERO}]
  BY DEF Ceros, Tipos
<1>. QED
  BY <1>1, <1>2 DEF Tipos

LEMMA AlMarcar ==
  ASSUME Tipos, NEW a \in Archivos, NEW S \in SUBSET Marcos,
         bitmaps' = [bitmaps EXCEPT ![a] = S]
  PROVE  /\ bitmaps' \in [Archivos -> SUBSET Marcos]
         /\ bitmaps'[a] = S
         /\ \A x \in Archivos \ {a} : bitmaps'[x] = bitmaps[x]
BY DEF Tipos

LEMMA AlCambiar ==
  ASSUME Tipos, NEW pid \in DOMAIN carpinchos, NEW c \in TCarpincho,
         carpinchos' = [carpinchos EXCEPT ![pid] = c]
  PROVE  /\ DOMAIN carpinchos' = DOMAIN carpinchos
         /\ carpinchos' \in [DOMAIN carpinchos' -> TCarpincho]
         /\ \A r \in DOMAIN carpinchos \ {pid} : carpinchos'[r] = carpinchos[r]
         /\ carpinchos'[pid] = c
         /\ Suyos(pid)' = MarcosDe(c.paginas) /\ Paginas(pid)' = c.paginas
<1>1. DOMAIN carpinchos' = DOMAIN carpinchos /\ carpinchos'[pid] = c
  OBVIOUS
<1>2. Paginas(pid)' = c.paginas
  BY <1>1 DEF Paginas
<1>3. Suyos(pid)' = MarcosDe(c.paginas)
  BY <1>1, <1>2 DEF Suyos
<1>4. \A r \in DOMAIN carpinchos \ {pid} : carpinchos'[r] = carpinchos[r]
  OBVIOUS
<1>5. carpinchos' \in [DOMAIN carpinchos -> TCarpincho]
  BY DEF Tipos
<1>. QED
  BY <1>1, <1>2, <1>3, <1>4, <1>5

\* What the invariant says of one carpincho.
LEMMA DelCarpincho ==
  ASSUME Inductiva, NEW pid \in DOMAIN carpinchos
  PROVE  /\ carpinchos[pid] \in TCarpincho
         /\ Paginas(pid) \in Seq(TPagina) /\ Len(Paginas(pid)) \in Nat
         /\ DOMAIN Paginas(pid) = 1..Len(Paginas(pid))
         /\ Suyos(pid) = MarcosDe(Paginas(pid)) /\ Distintos(Paginas(pid))
         /\ Suyos(pid) = {} <=> Len(Paginas(pid)) = 0
         /\ \A i \in 1..Len(Paginas(pid)) :
              /\ Paginas(pid)[i] \in TPagina
              /\ Paginas(pid)[i].marco \in Marcos /\ Paginas(pid)[i].marco \in Suyos(pid)
<1>1. carpinchos[pid] \in TCarpincho
  BY DEF Inductiva, Tipos
<1>2. Paginas(pid) \in Seq(TPagina)
  BY <1>1 DEF TCarpincho, Paginas
<1>. DEFINE s == Paginas(pid)
<1>3. Len(s) \in Nat /\ DOMAIN s = 1..Len(s)
  BY <1>2, LenProperties
<1>4. Suyos(pid) = MarcosDe(s) /\ Distintos(s)
  BY DEF Suyos, Inductiva, UnDueno
<1>. HIDE DEF s
<1>5. ASSUME NEW i \in 1..Len(s)
      PROVE  s[i] \in TPagina /\ s[i].marco \in Marcos /\ s[i].marco \in Suyos(pid)
  <2>1. s[i] \in TPagina
    BY <1>2, ElementOfSeq DEF s
  <2>2. s[i].marco \in MarcosDe(s)
    BY <1>3, MarcosDeEs
  <2>. QED
    BY <1>4, <2>1, <2>2 DEF TPagina
<1>6. Suyos(pid) = {} <=> Len(s) = 0
  <2>1. CASE Len(s) = 0
    <3>1. \A m : m \notin MarcosDe(s)
      BY <1>3, <2>1, MarcosDeEs
    <3>. QED
      BY <1>4, <2>1, <3>1
  <2>2. CASE Len(s) # 0
    <3>1. 1 \in 1..Len(s)
      BY <1>3, <2>2
    <3>. QED
      BY <1>5, <2>2, <3>1
  <2>. QED
    BY <2>1, <2>2
<1>. QED
  BY <1>1, <1>2, <1>3, <1>4, <1>5, <1>6 DEF s

\* The frames of a carpincho are in use, in the one file it has.
LEMMA SuyosEnUso ==
  ASSUME Inductiva, NEW pid \in DOMAIN carpinchos, Suyos(pid) # {}
  PROVE  /\ carpinchos[pid].archivo \in Archivos
         /\ Suyos(pid) \subseteq bitmaps[carpinchos[pid].archivo]
         /\ Suyos(pid) \subseteq Marcos
<1>1. carpinchos[pid].archivo \in Archivos
  BY DEF Inductiva, ConArchivo
<1>2. ASSUME NEW m \in Suyos(pid) PROVE m \in bitmaps[carpinchos[pid].archivo]
  BY <1>1 DEF Dueno, Inductiva, UnDueno
<1>. QED
  BY <1>1, <1>2 DEF Inductiva, Tipos

LEMMA AlAgregar ==
  ASSUME Tipos, NEW pid, pid \notin DOMAIN carpinchos, NEW c \in TCarpincho,
         carpinchos' = [p \in DOMAIN carpinchos \cup {pid} |-> IF p = pid THEN c ELSE carpinchos[p]]
  PROVE  /\ DOMAIN carpinchos' = DOMAIN carpinchos \cup {pid}
         /\ carpinchos' \in [DOMAIN carpinchos' -> TCarpincho]
         /\ \A r \in DOMAIN carpinchos : carpinchos'[r] = carpinchos[r]
         /\ carpinchos'[pid] = c
         /\ Suyos(pid)' = MarcosDe(c.paginas) /\ Paginas(pid)' = c.paginas
<1>2. DOMAIN carpinchos' = DOMAIN carpinchos \cup {pid} /\ carpinchos'[pid] = c
  OBVIOUS
<1>3. \A r \in DOMAIN carpinchos : carpinchos'[r] = carpinchos[r]
  OBVIOUS
<1>4. carpinchos' \in [DOMAIN carpinchos \cup {pid} -> TCarpincho]
  BY DEF Tipos
<1>5. Paginas(pid)' = c.paginas
  BY <1>2 DEF Paginas
<1>6. Suyos(pid)' = MarcosDe(c.paginas)
  BY <1>2, <1>5 DEF Suyos
<1>. QED
  BY <1>2, <1>3, <1>4, <1>5, <1>6

-------------------------------------------------------------------------------
\* A request that is turned down changes nothing of the swap.
SinCambio ==
  UNCHANGED <<config, conectada, asignacion, archivos, bitmaps, carpinchos>> /\ caida' \in BOOLEAN

LEMMA SinCambioInductiva ==
  ASSUME Inductiva, SinCambio
  PROVE  Inductiva' /\ \A r : Contenido(r)' = Contenido(r)
<1>1. /\ Archivos' = Archivos /\ Marcos' = Marcos /\ TCarpincho' = TCarpincho
      /\ \A r : Paginas(r)' = Paginas(r) /\ Suyos(r)' = Suyos(r)
      /\ \A k : Bloque(k)' = Bloque(k)
  BY DEF SinCambio, Archivos, Marcos, TCarpincho, TPagina, Suyos, Paginas, Bloque
<1>2. \A r, a, m : Dueno(r, a, m)' <=> Dueno(r, a, m)
  BY <1>1 DEF SinCambio, Dueno
<1>3. Tipos' /\ SinMemoria'
  BY <1>1 DEF SinCambio, Inductiva, Tipos, SinMemoria
<1>4. ConArchivo' /\ MarcosLimpios'
  BY <1>1 DEF SinCambio, Inductiva, ConArchivo, MarcosLimpios
<1>5. UnDueno'
  BY <1>1, <1>2 DEF SinCambio, Inductiva, UnDueno, Distintos
<1>6. EnBloques'
  BY <1>1 DEF SinCambio, Inductiva, EnBloques
<1>7. SinLibres'
  BY <1>1 DEF SinCambio, Inductiva, SinLibres
<1>8. \A r : Contenido(r)' = Contenido(r)
  BY <1>1 DEF SinCambio, Contenido
<1>. QED
  BY <1>3, <1>4, <1>5, <1>6, <1>7, <1>8 DEF Inductiva

\* Each request of the memory is one of these two.
LEMMA PasoIniciar ==
  ASSUME Inductiva, NEW pid \in Pids, Iniciar(pid)
  PROVE  SinCambio \/ \E a : Cambio(pid, a)
<1>. DEFINE a == archivo_con_mas_espacio
            m == Primero(a)
            bloque == m..(m + MARCOS_MAXIMOS - 1)
            marcos == [i \in 1..MARCOS_MAXIMOS |-> m + i - 1]
            s == [i \in 1..MARCOS_MAXIMOS |-> [marco |-> m + i - 1, libre |-> TRUE]]
<1>1. /\ Tipos /\ conectada /\ UNCHANGED <<config, conectada, asignacion, archivos, caida>>
      /\ pid \notin DOMAIN carpinchos /\ a \in Archivos /\ Suyos(pid) = {}
      /\ MARCOS_MAXIMOS \in Nat \ {0}
  BY ArchivoElegido, SwampAssumption DEF Inductiva, Iniciar, Sigue, Suyos
<1>2. CASE asignacion = "DINAMICA" /\ Nuevo(pid, -1, <<>>) /\ UNCHANGED bitmaps
  <2>. DEFINE c == [archivo |-> -1, paginas |-> <<>>]
  <2>1. c \in TCarpincho /\ c.paginas = <<>>
    BY EmptySeq DEF TCarpincho
  <2>. HIDE DEF c
  <2>2. carpinchos' = [p \in DOMAIN carpinchos \cup {pid} |-> IF p = pid THEN c ELSE carpinchos[p]]
    BY <1>2 DEF Nuevo, c
  <2>3. /\ DOMAIN carpinchos' = DOMAIN carpinchos \cup {pid}
        /\ carpinchos' \in [DOMAIN carpinchos' -> TCarpincho]
        /\ \A r \in DOMAIN carpinchos : carpinchos'[r] = carpinchos[r]
        /\ Suyos(pid)' = {} /\ Paginas(pid)' = <<>>
    <3>1. /\ DOMAIN carpinchos' = DOMAIN carpinchos \cup {pid}
          /\ carpinchos' \in [DOMAIN carpinchos' -> TCarpincho]
          /\ \A r \in DOMAIN carpinchos : carpinchos'[r] = carpinchos[r]
          /\ Suyos(pid)' = MarcosDe(c.paginas) /\ Paginas(pid)' = c.paginas
      BY <1>1, <2>1, <2>2, AlAgregar
    <3>. QED
      BY <2>1, <3>1, PaginasVacias
  <2>4. Tipos'
    BY <1>1, <1>2, <2>3, TiposDe DEF Tipos
  <2>5. Distintos(Paginas(pid))' /\ \A i \in DOMAIN Paginas(pid)' : ~Paginas(pid)'[i].libre
    BY <2>3, EmptySeq DEF Distintos
  <2>6. asignacion # "FIJA"
    BY <1>2
  <2>7. Cambio(pid, a)
    BY <1>1, <1>2, <2>3, <2>4, <2>5, <2>6 DEF Cambio
  <2>. QED
    BY <2>7
<1>3. CASE /\ asignacion = "FIJA" /\ tamanio_archivo(a) >= MARCOS_MAXIMOS
           /\ Nuevo(pid, a, s) /\ bitmaps' = [bitmaps EXCEPT ![a] = @ \cup ToSet(marcos)]
  <2>. DEFINE c == [archivo |-> a, paginas |-> s]
  <2>1. /\ m \in Nat /\ bloque \subseteq Marcos /\ bloque \cap bitmaps[a] = {}
        /\ \E k \in Nat : bloque = Bloque(k)
    BY <1>1, <1>3, BloqueLibre DEF Inductiva
  <2>2. s \in Seq(TPagina) /\ MarcosDe(s) = bloque /\ Distintos(s)
    BY <1>1, <2>1, PaginasDeBloque DEF TPagina
  <2>3. ToSet(marcos) = MarcosDe(s)
    <3>1. /\ DOMAIN marcos = 1..MARCOS_MAXIMOS /\ DOMAIN s = 1..MARCOS_MAXIMOS
          /\ \A i \in 1..MARCOS_MAXIMOS : marcos[i] = s[i].marco
      OBVIOUS
    <3>. HIDE DEF marcos, s
    <3>2. \A x : x \in ToSet(marcos) <=> \E i \in 1..MARCOS_MAXIMOS : marcos[i] = x
      BY <3>1 DEF ToSet
    <3>3. ASSUME NEW x PROVE x \in MarcosDe(s) <=> \E i \in 1..MARCOS_MAXIMOS : s[i].marco = x
      <4>1. x \in MarcosDe(s) <=> \E i \in DOMAIN s : s[i].marco = x
        BY MarcosDeEs
      <4>. QED
        BY <3>1, <4>1
    <3>. QED
      BY <3>1, <3>2, <3>3
  <2>. HIDE DEF s, marcos, bloque, m, a
  <2>4. c \in TCarpincho /\ c.paginas = s /\ c.archivo = a
    BY <1>1, <2>2 DEF TCarpincho
  <2>. HIDE DEF c
  <2>5. carpinchos' = [p \in DOMAIN carpinchos \cup {pid} |-> IF p = pid THEN c ELSE carpinchos[p]]
    BY <1>3 DEF Nuevo, c
  <2>6. /\ DOMAIN carpinchos' = DOMAIN carpinchos \cup {pid}
        /\ carpinchos' \in [DOMAIN carpinchos' -> TCarpincho]
        /\ \A r \in DOMAIN carpinchos : carpinchos'[r] = carpinchos[r]
        /\ carpinchos'[pid] = c
        /\ Suyos(pid)' = bloque /\ Paginas(pid)' = s
    BY <1>1, <2>2, <2>4, <2>5, AlAgregar
  <2>7. /\ bitmaps' \in [Archivos -> SUBSET Marcos] /\ bitmaps'[a] = bitmaps[a] \cup bloque
        /\ \A x \in Archivos \ {a} : bitmaps'[x] = bitmaps[x]
    BY <1>1, <1>3, <2>1, <2>2, <2>3 DEF Tipos
  <2>8. Tipos'
    BY <1>1, <2>6, <2>7, TiposDe DEF Tipos
  <2>9. Distintos(Paginas(pid))'
    BY <2>2, <2>6 DEF Distintos
  <2>10. asignacion # "DINAMICA"
    BY <1>3
  <2>11. Cambio(pid, a)
    BY <1>1, <2>1, <2>4, <2>6, <2>7, <2>8, <2>9, <2>10 DEF Cambio
  <2>. QED
    BY <2>11
<1>4. CASE UNCHANGED <<carpinchos, bitmaps>>
  BY <1>1, <1>4 DEF SinCambio, Tipos
<1>. QED
  BY <1>2, <1>3, <1>4 DEF Iniciar

LEMMA PasoCerrar ==
  ASSUME Inductiva, NEW pid, Cerrar(pid)
  PROVE  SinCambio \/ \E a : Cambio(pid, a)
<1>. DEFINE a == carpinchos[pid].archivo
            s == Paginas(pid)
<1>1. /\ Tipos /\ conectada /\ UNCHANGED <<config, conectada, asignacion, caida>>
      /\ pid \in DOMAIN carpinchos
  BY DEF Inductiva, Cerrar, Sigue
<1>2. /\ DOMAIN carpinchos' = DOMAIN carpinchos \ {pid}
      /\ carpinchos' \in [DOMAIN carpinchos' -> TCarpincho]
      /\ \A r \in DOMAIN carpinchos \ {pid} : carpinchos'[r] = carpinchos[r]
  BY <1>1 DEF Cerrar, Restrict, Tipos
<1>3. pid \notin DOMAIN carpinchos' /\ Suyos(pid)' = {}
  BY <1>2 DEF Suyos
<1>4. Suyos(pid) = MarcosDe(s)
  BY <1>1 DEF Suyos
<1>5. CASE s = <<>>
  <2>1. Suyos(pid) = {}
    BY <1>4, <1>5, PaginasVacias
  <2>2. UNCHANGED <<archivos, bitmaps>>
    BY <1>5 DEF Cerrar
  <2>3. archivo_con_mas_espacio \in Archivos
    BY <1>1, ArchivoElegido
  <2>4. Tipos'
    BY <1>1, <1>2, <2>2, TiposDe DEF Tipos
  <2>5. Cambio(pid, archivo_con_mas_espacio)
    BY <1>1, <1>2, <1>3, <2>1, <2>2, <2>3, <2>4 DEF Cambio
  <2>. QED
    BY <2>5
<1>6. CASE s # <<>>
  <2>1. /\ bitmaps' = [bitmaps EXCEPT ![a] = @ \ Suyos(pid)]
        /\ archivos' = [archivos EXCEPT ![a] = Ceros(@, Suyos(pid))]
    BY <1>4, <1>6 DEF Cerrar
  <2>2. Suyos(pid) # {}
    BY <1>1, <1>6, DelCarpincho, EmptySeq
  <2>3. a \in Archivos
    BY <1>1, <2>2 DEF Inductiva, ConArchivo
  <2>4. /\ bitmaps' \in [Archivos -> SUBSET Marcos] /\ bitmaps'[a] = bitmaps[a] \ Suyos(pid)
        /\ \A x \in Archivos \ {a} : bitmaps'[x] = bitmaps[x]
    BY <1>1, <2>1, <2>3 DEF Tipos
  <2>. HIDE DEF a
  <2>5. /\ archivos' \in [Archivos -> [Marcos -> Contenidos \cup {CERO}]]
        /\ \A x \in Archivos \ {a} : archivos'[x] = archivos[x]
        /\ \A y \in Marcos : archivos'[a][y] = IF y \in Suyos(pid) THEN CERO ELSE archivos[a][y]
    BY <1>1, <2>1, <2>3, AlBlanquear
  <2>6. Suyos(pid) \subseteq Marcos
    BY <1>1, <2>2, SuyosEnUso
  <2>7. Tipos'
    BY <1>1, <1>2, <2>4, <2>5, TiposDe DEF Tipos
  <2>8. Cambio(pid, a)
    BY <1>1, <1>2, <1>3, <2>3, <2>4, <2>5, <2>6, <2>7 DEF Cambio, a
  <2>. QED
    BY <2>8
<1>. QED
  BY <1>5, <1>6

LEMMA PasoEscribirDinamica ==
  ASSUME Inductiva, NEW pid, NEW n \in Numeros, NEW c \in Contenidos, EscribirDinamica(pid, n, c)
  PROVE  SinCambio \/ \E a : Cambio(pid, a)
<1>. DEFINE s == Paginas(pid)
            a == IF Len(s) = 0 THEN archivo_con_mas_espacio ELSE carpinchos[pid].archivo
            carpincho == [carpinchos[pid] EXCEPT !.archivo = a]
<1>1. /\ Tipos /\ conectada /\ UNCHANGED <<config, conectada, asignacion>>
      /\ pid \in DOMAIN carpinchos /\ asignacion = "DINAMICA" /\ asignacion # "FIJA"
  BY DEF Inductiva, EscribirDinamica, Sigue
<1>2. n \in Nat
  BY SwampAssumption DEF Numeros
<1>3. /\ s \in Seq(TPagina) /\ Len(s) \in Nat /\ DOMAIN s = 1..Len(s)
      /\ Suyos(pid) = MarcosDe(s) /\ Distintos(s) /\ (Suyos(pid) = {} <=> Len(s) = 0)
      /\ \A i \in 1..Len(s) : s[i] \in TPagina /\ s[i].marco \in Marcos /\ s[i].marco \in Suyos(pid)
  BY <1>1, DelCarpincho
<1>4. a \in Archivos /\ (Suyos(pid) # {} => carpinchos[pid].archivo = a)
  BY <1>1, <1>3, ArchivoElegido DEF Inductiva, ConArchivo
<1>5. \A i \in 1..Len(s) : ~s[i].libre
  BY <1>1, <1>3 DEF Inductiva, SinLibres
<1>6. carpincho \in TCarpincho /\ carpincho.archivo = a /\ carpincho.paginas = s
  <2>1. carpinchos[pid] \in TCarpincho /\ carpinchos[pid].paginas = s
    BY <1>1 DEF Inductiva, Tipos, Paginas
  <2>. HIDE DEF a
  <2>. QED
    BY <1>4, <2>1 DEF TCarpincho
<1>. HIDE DEF s, a, carpincho
<1>7. CASE /\ n < Len(s) /\ UNCHANGED <<bitmaps, carpinchos, caida>>
           /\ Guardar(a, s[n + 1].marco, c)
  <2>1. n + 1 \in 1..Len(s)
    BY <1>2, <1>3, <1>7
  <2>2. s[n + 1].marco \in Marcos /\ s[n + 1].marco \in Suyos(pid)
    BY <1>3, <2>1
  <2>3. /\ archivos' \in [Archivos -> [Marcos -> Contenidos \cup {CERO}]]
        /\ \A x \in Archivos \ {a} : archivos'[x] = archivos[x]
        /\ \A y \in Marcos \ {s[n + 1].marco} : archivos'[a][y] = archivos[a][y]
    BY <1>1, <1>4, <1>7, <2>2, AlGuardar
  <2>4. Suyos(pid)' = Suyos(pid) /\ Paginas(pid)' = s
    BY <1>7 DEF Suyos, Paginas, s
  <2>5. Tipos'
    BY <1>1, <1>7, <2>3, TiposDe DEF Tipos
  <2>6. Suyos(pid) \subseteq bitmaps[a]
    BY <1>1, <1>4, SuyosEnUso
  <2>7. Distintos(Paginas(pid))' /\ \A i \in DOMAIN Paginas(pid)' : ~Paginas(pid)'[i].libre
    BY <1>3, <1>5, <2>4 DEF Distintos
  <2>8. Cambio(pid, a)
    BY <1>1, <1>4, <1>7, <2>2, <2>3, <2>4, <2>5, <2>6, <2>7 DEF Cambio
  <2>. QED
    BY <2>8
<1>8. ASSUME NEW marco, marco = Primero(a), Libres(a) # {}, UNCHANGED caida,
             Guardar(a, marco, c), bitmaps' = [bitmaps EXCEPT ![a] = @ \cup {marco}],
             carpinchos' = [carpinchos EXCEPT ![pid] =
               [carpincho EXCEPT !.paginas = Append(@, [marco |-> marco, libre |-> FALSE])]]
      PROVE  Cambio(pid, a)
  <2>. DEFINE e == [marco |-> marco, libre |-> FALSE]
              t == Append(s, e)
              nuevo == [carpincho EXCEPT !.paginas = t]
  <2>1. marco \in Marcos /\ marco \notin bitmaps[a]
    BY <1>1, <1>4, <1>8, PrimeroDe
  <2>2. Suyos(pid) \subseteq bitmaps[a]
    BY <1>1, <1>4, SuyosEnUso
  <2>3. t \in Seq(TPagina) /\ MarcosDe(t) = Suyos(pid) \cup {marco} /\ Distintos(t)
    <3>1. e \in [marco : Marcos, libre : BOOLEAN] /\ e.marco = marco
      BY <2>1
    <3>. HIDE DEF e
    <3>2. s \in Seq([marco : Marcos, libre : BOOLEAN]) /\ Distintos(s) /\ e.marco \notin MarcosDe(s)
      BY <1>3, <2>1, <2>2, <3>1 DEF TPagina
    <3>3. /\ t \in Seq([marco : Marcos, libre : BOOLEAN])
          /\ MarcosDe(t) = MarcosDe(s) \cup {e.marco} /\ Distintos(t)
      BY <3>1, <3>2, PaginaMas
    <3>. QED
      BY <1>3, <3>1, <3>3 DEF TPagina
  <2>4. \A i \in DOMAIN t : ~t[i].libre
    <3>1. e \in TPagina /\ ~e.libre
      BY <2>1 DEF TPagina
    <3>. HIDE DEF e
    <3>2. /\ t \in Seq(TPagina) /\ Len(t) = Len(s) + 1 /\ t[Len(s) + 1] = e
          /\ \A i \in 1..Len(s) : t[i] = s[i]
      BY <1>3, <3>1, AppendProperties
    <3>3. DOMAIN t = 1..(Len(s) + 1)
      BY <3>2, LenProperties
    <3>. HIDE DEF t
    <3>. QED
      BY <1>3, <1>5, <3>1, <3>2, <3>3
  <2>5. carpinchos' = [carpinchos EXCEPT ![pid] = nuevo]
    BY <1>6, <1>8
  <2>. HIDE DEF t
  <2>6. nuevo \in TCarpincho /\ nuevo.archivo = a /\ nuevo.paginas = t
    BY <1>4, <1>6, <2>3 DEF TCarpincho
  <2>. HIDE DEF nuevo
  <2>7. /\ DOMAIN carpinchos' = DOMAIN carpinchos
        /\ carpinchos' \in [DOMAIN carpinchos' -> TCarpincho]
        /\ \A r \in DOMAIN carpinchos \ {pid} : carpinchos'[r] = carpinchos[r]
        /\ carpinchos'[pid] = nuevo
        /\ Suyos(pid)' = Suyos(pid) \cup {marco} /\ Paginas(pid)' = t
    BY <1>1, <2>3, <2>5, <2>6, AlCambiar
  <2>8. /\ archivos' \in [Archivos -> [Marcos -> Contenidos \cup {CERO}]]
        /\ \A x \in Archivos \ {a} : archivos'[x] = archivos[x]
        /\ \A y \in Marcos \ {marco} : archivos'[a][y] = archivos[a][y]
    BY <1>1, <1>4, <1>8, <2>1, AlGuardar
  <2>9. /\ bitmaps' \in [Archivos -> SUBSET Marcos] /\ bitmaps'[a] = bitmaps[a] \cup {marco}
        /\ \A x \in Archivos \ {a} : bitmaps'[x] = bitmaps[x]
    BY <1>1, <1>4, <1>8, <2>1 DEF Tipos
  <2>10. Tipos'
    BY <1>1, <1>8, <2>7, <2>8, <2>9, TiposDe DEF Tipos
  <2>11. Distintos(Paginas(pid))' /\ \A i \in DOMAIN Paginas(pid)' : ~Paginas(pid)'[i].libre
    BY <2>3, <2>4, <2>7 DEF Distintos
  <2>. QED
    BY <1>1, <1>4, <2>1, <2>2, <2>6, <2>7, <2>8, <2>9, <2>10, <2>11 DEF Cambio
<1>9. CASE caida' = TRUE /\ UNCHANGED <<archivos, bitmaps, carpinchos, respuesta>>
  BY <1>1, <1>9 DEF SinCambio
<1>10. CASE carpinchos' = [carpinchos EXCEPT ![pid] = carpincho] /\ UNCHANGED <<archivos, bitmaps, caida>>
  <2>1. /\ DOMAIN carpinchos' = DOMAIN carpinchos
        /\ carpinchos' \in [DOMAIN carpinchos' -> TCarpincho]
        /\ \A r \in DOMAIN carpinchos \ {pid} : carpinchos'[r] = carpinchos[r]
        /\ carpinchos'[pid] = carpincho
        /\ Suyos(pid)' = Suyos(pid) /\ Paginas(pid)' = s
    BY <1>1, <1>3, <1>6, <1>10, AlCambiar
  <2>2. Tipos'
    BY <1>1, <1>10, <2>1, TiposDe DEF Tipos
  <2>3. Distintos(Paginas(pid))' /\ \A i \in DOMAIN Paginas(pid)' : ~Paginas(pid)'[i].libre
    BY <1>3, <1>5, <2>1 DEF Distintos
  <2>4. Suyos(pid) \subseteq bitmaps[a]
    BY <1>1, <1>4, SuyosEnUso
  <2>5. Cambio(pid, a)
    BY <1>1, <1>4, <1>6, <1>10, <2>1, <2>2, <2>3, <2>4 DEF Cambio
  <2>. QED
    BY <2>5
<1>. QED
  BY <1>7, <1>8, <1>9, <1>10 DEF EscribirDinamica, s, a, carpincho

LEMMA PasoEscribirFija ==
  ASSUME Inductiva, NEW pid, NEW n \in Numeros, NEW c \in Contenidos, EscribirFija(pid, n, c)
  PROVE  SinCambio \/ \E a : Cambio(pid, a)
<1>. DEFINE s == Paginas(pid)
            libres == {i \in DOMAIN s : s[i].libre}
            a == carpinchos[pid].archivo
            k == Min(libres)
<1>1. /\ Tipos /\ conectada /\ UNCHANGED <<config, conectada, asignacion>>
      /\ pid \in DOMAIN carpinchos /\ asignacion = "FIJA" /\ asignacion # "DINAMICA"
  BY DEF Inductiva, EscribirFija, Sigue
<1>2. n \in Nat
  BY SwampAssumption DEF Numeros
<1>3. /\ s \in Seq(TPagina) /\ Len(s) \in Nat /\ DOMAIN s = 1..Len(s)
      /\ Suyos(pid) = MarcosDe(s) /\ Distintos(s)
      /\ \A i \in 1..Len(s) : s[i] \in TPagina /\ s[i].marco \in Marcos /\ s[i].marco \in Suyos(pid)
  BY <1>1, DelCarpincho
<1>4. /\ carpinchos[pid] \in TCarpincho /\ carpinchos[pid].paginas = s
      /\ a \in Archivos /\ \E b \in Nat : Suyos(pid) = Bloque(b)
  BY <1>1 DEF Inductiva, Tipos, EnBloques, Paginas
<1>5. CASE (libres = {} /\ Quietos) \/ (caida' = TRUE /\ UNCHANGED <<archivos, bitmaps, carpinchos, respuesta>>)
  BY <1>1, <1>5 DEF SinCambio, Quietos, Tipos
<1>6. CASE /\ libres # {} /\ n < Len(s)
           /\ Guardar(a, s[k].marco, c)
           /\ carpinchos' = [carpinchos EXCEPT ![pid].paginas[n + 1].libre = FALSE]
           /\ UNCHANGED <<bitmaps, caida>>
  <2>. DEFINE t == [s EXCEPT ![n + 1].libre = FALSE]
              nuevo == [carpinchos[pid] EXCEPT !.paginas = t]
  <2>1. k \in 1..Len(s)
    <3>1. libres \in SUBSET Nat /\ libres \subseteq 1..Len(s)
      BY <1>3
    <3>. HIDE DEF libres
    <3>. QED
      BY <1>6, <3>1, MinimoDe
  <2>2. n + 1 \in 1..Len(s)
    BY <1>2, <1>3, <1>6
  <2>3. carpinchos' = [carpinchos EXCEPT ![pid] = nuevo]
    BY <1>6 DEF Paginas
  <2>4. t \in Seq(TPagina) /\ MarcosDe(t) = Suyos(pid) /\ Distintos(t)
    <3>1. s \in Seq([marco : Marcos, libre : BOOLEAN]) /\ FALSE \in BOOLEAN
      BY <1>3 DEF TPagina
    <3>2. /\ t \in Seq([marco : Marcos, libre : BOOLEAN])
          /\ MarcosDe(t) = MarcosDe(s) /\ (Distintos(s) => Distintos(t))
      BY <2>2, <3>1, PaginaUsada
    <3>. QED
      BY <1>3, <3>2 DEF TPagina
  <2>. HIDE DEF t, k, s, a
  <2>5. nuevo \in TCarpincho /\ nuevo.archivo = a /\ nuevo.paginas = t
    BY <1>4, <2>4 DEF TCarpincho, a
  <2>. HIDE DEF nuevo
  <2>6. /\ DOMAIN carpinchos' = DOMAIN carpinchos
        /\ carpinchos' \in [DOMAIN carpinchos' -> TCarpincho]
        /\ \A r \in DOMAIN carpinchos \ {pid} : carpinchos'[r] = carpinchos[r]
        /\ carpinchos'[pid] = nuevo
        /\ Suyos(pid)' = Suyos(pid) /\ Paginas(pid)' = t
    BY <1>1, <2>3, <2>4, <2>5, AlCambiar
  <2>7. s[k].marco \in Marcos /\ s[k].marco \in Suyos(pid)
    BY <1>3, <2>1
  <2>8. /\ archivos' \in [Archivos -> [Marcos -> Contenidos \cup {CERO}]]
        /\ \A x \in Archivos \ {a} : archivos'[x] = archivos[x]
        /\ \A y \in Marcos \ {s[k].marco} : archivos'[a][y] = archivos[a][y]
    BY <1>1, <1>4, <1>6, <2>7, AlGuardar
  <2>9. Tipos'
    BY <1>1, <1>6, <2>6, <2>8, TiposDe DEF Tipos
  <2>10. Suyos(pid) \subseteq bitmaps[a]
    BY <1>1, SuyosEnUso DEF a
  <2>11. Distintos(Paginas(pid))'
    BY <2>4, <2>6 DEF Distintos
  <2>12. carpinchos[pid].archivo = a
    BY DEF a
  <2>13. Cambio(pid, a)
    BY <1>1, <1>4, <1>6, <2>5, <2>6, <2>7, <2>8, <2>9, <2>10, <2>11, <2>12 DEF Cambio
  <2>. QED
    BY <2>13
<1>. QED
  BY <1>5, <1>6 DEF EscribirFija

LEMMA PasoEliminar ==
  ASSUME Inductiva, NEW pid, NEW n \in Numeros, Eliminar(pid, n)
  PROVE  SinCambio \/ \E a : Cambio(pid, a)
<1>. DEFINE s == Paginas(pid)
            a == carpinchos[pid].archivo
            pagina == s[n + 1]
            quedan == Sacar(s, n)
            m == pagina.marco
<1>1. Tipos /\ conectada /\ UNCHANGED <<config, conectada, asignacion>>
  BY DEF Inductiva, Eliminar, Sigue
<1>2. n \in Nat
  BY SwampAssumption DEF Numeros
<1>3. CASE ~Existe(pid, n) /\ Quietos
  BY <1>1, <1>3 DEF SinCambio, Quietos, Tipos
<1>4. ASSUME Existe(pid, n), UNCHANGED caida,
             archivos' = [archivos EXCEPT ![a] = Ceros(@, {m})],
             NEW t \in Seq(TPagina), Distintos(t), MarcosDe(t) \subseteq Suyos(pid),
             Suyos(pid) \ MarcosDe(t) \subseteq {m},
             carpinchos' = [carpinchos EXCEPT ![pid].paginas = t],
             bitmaps' \in [Archivos -> SUBSET Marcos],
             bitmaps'[a] = bitmaps[a] \ (Suyos(pid) \ MarcosDe(t)),
             \A x \in Archivos \ {a} : bitmaps'[x] = bitmaps[x],
             asignacion = "FIJA" => MarcosDe(t) = Suyos(pid),
             asignacion = "DINAMICA" => \A i \in DOMAIN t : ~t[i].libre
      PROVE  Cambio(pid, a)
  <2>. DEFINE nuevo == [carpinchos[pid] EXCEPT !.paginas = t]
  <2>1. pid \in DOMAIN carpinchos /\ n < Len(s)
    BY <1>4 DEF Existe
  <2>2. Len(s) \in Nat /\ n + 1 \in 1..Len(s)
    BY <1>2, <2>1, DelCarpincho
  <2>3. m \in Suyos(pid) /\ m \in Marcos /\ carpinchos[pid] \in TCarpincho
    BY <2>1, <2>2, DelCarpincho
  <2>4. a \in Archivos /\ Suyos(pid) \subseteq bitmaps[a] /\ Suyos(pid) \subseteq Marcos
    BY <2>1, <2>3, SuyosEnUso
  <2>. HIDE DEF m, s, pagina
  <2>5. nuevo \in TCarpincho /\ nuevo.archivo = a /\ nuevo.paginas = t
    BY <1>4, <2>3 DEF TCarpincho
  <2>6. carpinchos' = [carpinchos EXCEPT ![pid] = nuevo] /\ carpinchos[pid].archivo = a
    BY <1>4
  <2>. HIDE DEF nuevo, a
  <2>7. /\ DOMAIN carpinchos' = DOMAIN carpinchos
        /\ carpinchos' \in [DOMAIN carpinchos' -> TCarpincho]
        /\ \A r \in DOMAIN carpinchos \ {pid} : carpinchos'[r] = carpinchos[r]
        /\ carpinchos'[pid] = nuevo
        /\ Suyos(pid)' = MarcosDe(t) /\ Paginas(pid)' = t
    BY <1>1, <2>1, <2>5, <2>6, AlCambiar
  <2>8. /\ archivos' \in [Archivos -> [Marcos -> Contenidos \cup {CERO}]]
        /\ \A x \in Archivos \ {a} : archivos'[x] = archivos[x]
        /\ \A y \in Marcos : archivos'[a][y] = IF y \in {m} THEN CERO ELSE archivos[a][y]
    BY <1>1, <1>4, <2>4, AlBlanquear
  <2>9. Tipos'
    BY <1>1, <1>4, <2>7, <2>8, TiposDe DEF Tipos
  <2>10. Distintos(Paginas(pid))' /\ (asignacion = "DINAMICA" => \A i \in DOMAIN Paginas(pid)' : ~Paginas(pid)'[i].libre)
    BY <1>4, <2>7 DEF Distintos
  <2>11. asignacion = "FIJA" => \E k \in Nat : Suyos(pid)' = Bloque(k)
    BY <1>4, <2>1, <2>7 DEF Inductiva, EnBloques
  <2>12. bitmaps'[a] = (bitmaps[a] \ Suyos(pid)) \cup Suyos(pid)'
    BY <1>4, <2>4, <2>7
  <2>13. /\ bitmaps[a] \cap Suyos(pid)' \subseteq Suyos(pid)
         /\ \A y \in Marcos : y \notin Suyos(pid) \cup Suyos(pid)' => archivos'[a][y] = archivos[a][y]
         /\ \A y \in Suyos(pid) \ Suyos(pid)' : archivos'[a][y] = CERO
    BY <1>4, <2>3, <2>4, <2>7, <2>8
  <2>. QED
    BY <1>1, <1>4, <2>1, <2>4, <2>5, <2>6, <2>7, <2>8, <2>9, <2>10, <2>11, <2>12, <2>13 DEF Cambio
<1>5. CASE Existe(pid, n) /\ UNCHANGED caida /\ archivos' = [archivos EXCEPT ![a] = Ceros(@, {m})]
  <2>1. pid \in DOMAIN carpinchos /\ n < Len(s)
    BY <1>5 DEF Existe
  <2>2. /\ s \in Seq(TPagina) /\ Len(s) \in Nat /\ DOMAIN s = 1..Len(s)
        /\ Suyos(pid) = MarcosDe(s) /\ Distintos(s) /\ pagina \in TPagina
        /\ m \in Marcos /\ m \in Suyos(pid)
    <3>1. Len(s) \in Nat
      BY <2>1, DelCarpincho
    <3>2. n + 1 \in 1..Len(s)
      BY <1>2, <2>1, <3>1
    <3>. QED
      BY <2>1, <3>2, DelCarpincho
  <2>3. a \in Archivos /\ Suyos(pid) \subseteq bitmaps[a] /\ Suyos(pid) \subseteq Marcos
    BY <2>1, <2>2, SuyosEnUso
  <2>4. /\ quedan \in Seq(TPagina) /\ Distintos(quedan)
        /\ MarcosDe(quedan) = Suyos(pid) \ {m}
        /\ \A i \in DOMAIN quedan : \E j \in DOMAIN s : quedan[i] = s[j]
    <3>. HIDE DEF s
    <3>1. s \in Seq([marco : Marcos, libre : BOOLEAN]) /\ Distintos(s) /\ n < Len(s)
      BY <2>1, <2>2 DEF TPagina
    <3>2. /\ quedan \in Seq([marco : Marcos, libre : BOOLEAN]) /\ Distintos(quedan)
          /\ MarcosDe(quedan) = MarcosDe(s) \ {m}
          /\ \A i \in DOMAIN quedan : \E j \in DOMAIN s : quedan[i] = s[j]
      <4>1. Sacar(s, n) \in Seq([marco : Marcos, libre : BOOLEAN]) /\ Distintos(Sacar(s, n))
        BY <1>2, <3>1, PaginaMenos
      <4>2. MarcosDe(Sacar(s, n)) = MarcosDe(s) \ {s[n + 1].marco}
        BY <1>2, <3>1, PaginaMenos
      <4>3. ASSUME NEW i \in DOMAIN Sacar(s, n) PROVE \E j \in DOMAIN s : Sacar(s, n)[i] = s[j]
        BY <1>2, <3>1, QuedanLasMismas
      <4>. QED
        BY <4>1, <4>2, <4>3
    <3>. QED
      BY <2>2, <3>2 DEF TPagina
  <2>5. CASE /\ asignacion = "DINAMICA"
             /\ carpinchos' = [carpinchos EXCEPT ![pid].paginas = quedan]
             /\ bitmaps' = [bitmaps EXCEPT ![a] = @ \ {m}]
    <3>1. asignacion # "FIJA" /\ \A i \in DOMAIN quedan : ~quedan[i].libre
      BY <2>1, <2>4, <2>5 DEF Inductiva, SinLibres
    <3>. HIDE DEF a, m, s, quedan, pagina
    <3>2. /\ bitmaps' \in [Archivos -> SUBSET Marcos] /\ bitmaps'[a] = bitmaps[a] \ {m}
          /\ \A x \in Archivos \ {a} : bitmaps'[x] = bitmaps[x]
      BY <1>1, <2>3, <2>5 DEF Tipos
    <3>3. Suyos(pid) \ MarcosDe(quedan) = {m}
      BY <2>2, <2>4
    <3>4. Cambio(pid, a)
      BY <1>4, <1>5, <2>4, <2>5, <3>1, <3>2, <3>3
    <3>. QED
      BY <3>4
  <2>6. CASE /\ asignacion = "FIJA"
             /\ carpinchos' = [carpinchos EXCEPT ![pid].paginas = Append(quedan, [pagina EXCEPT !.libre = TRUE])]
             /\ UNCHANGED bitmaps
    <3>. DEFINE e == [marco |-> m, libre |-> TRUE]
                t == Append(quedan, e)
    <3>1. [pagina EXCEPT !.libre = TRUE] = e
      <4>1. TRUE \in BOOLEAN /\ pagina \in [marco : Marcos, libre : BOOLEAN]
        BY <2>2 DEF TPagina
      <4>. HIDE DEF pagina
      <4>. QED
        BY <4>1, PaginaSuelta
    <3>. HIDE DEF a, m, s, quedan, pagina
    <3>2. t \in Seq(TPagina) /\ MarcosDe(t) = Suyos(pid) /\ Distintos(t)
      <4>1. e \in [marco : Marcos, libre : BOOLEAN] /\ e.marco = m
        BY <2>2
      <4>. HIDE DEF e
      <4>2. /\ quedan \in Seq([marco : Marcos, libre : BOOLEAN]) /\ Distintos(quedan)
            /\ e.marco \notin MarcosDe(quedan)
        BY <2>4, <4>1 DEF TPagina
      <4>3. /\ t \in Seq([marco : Marcos, libre : BOOLEAN])
            /\ MarcosDe(t) = MarcosDe(quedan) \cup {e.marco} /\ Distintos(t)
        BY <4>1, <4>2, PaginaMas
      <4>. QED
        BY <2>2, <2>4, <4>1, <4>3 DEF TPagina
    <3>3. carpinchos' = [carpinchos EXCEPT ![pid].paginas = t]
      BY <2>6, <3>1
    <3>. HIDE DEF t
    <3>4. asignacion # "DINAMICA" /\ bitmaps' \in [Archivos -> SUBSET Marcos]
      BY <1>1, <2>6 DEF Tipos
    <3>5. Suyos(pid) \ MarcosDe(t) = {}
      BY <3>2
    <3>6. Cambio(pid, a)
      BY <1>4, <1>5, <2>6, <3>2, <3>3, <3>4, <3>5
    <3>. QED
      BY <3>6
  <2>. QED
    BY <1>5, <2>5, <2>6 DEF Eliminar
<1>. QED
  BY <1>3, <1>5 DEF Eliminar

-------------------------------------------------------------------------------
LEMMA SwampInicio ==
  ASSUME Init
  PROVE  Inductiva
<1>1. DOMAIN carpinchos = {} /\ carpinchos \in [{} -> TCarpincho]
  BY DEF Init
<1>2. Tipos
  BY <1>1 DEF Init, Tipos
<1>3. \A pid : Suyos(pid) = {}
  BY <1>1 DEF Suyos
<1>4. UnDueno
  BY <1>1, <1>3 DEF Init, UnDueno, Dueno
<1>5. SinMemoria /\ ConArchivo /\ EnBloques /\ SinLibres
  BY <1>1 DEF SinMemoria, ConArchivo, EnBloques, SinLibres
<1>6. MarcosLimpios
  BY DEF Init, MarcosLimpios
<1>. QED
  BY <1>2, <1>4, <1>5, <1>6 DEF Inductiva

\* The memory comes and goes with no carpinchos.
LEMMA PasoConectar ==
  ASSUME Inductiva, NEW tipo \in {"FIJA", "DINAMICA"}, Conectar(tipo)
  PROVE  Inductiva'
<1>1. DOMAIN carpinchos = {} /\ UNCHANGED <<config, archivos, bitmaps, carpinchos, caida>>
  BY DEF Inductiva, SinMemoria, Conectar, Quietos
<1>2. /\ Archivos' = Archivos /\ Marcos' = Marcos /\ TCarpincho' = TCarpincho
      /\ \A r : Suyos(r)' = Suyos(r)
  BY <1>1 DEF Archivos, Marcos, TCarpincho, TPagina, Suyos, Paginas
<1>3. \A r, a, m : Dueno(r, a, m)' <=> Dueno(r, a, m)
  BY <1>1, <1>2 DEF Dueno
<1>4. Tipos'
  BY <1>1, <1>2 DEF Inductiva, Tipos, Conectar
<1>5. UnDueno'
  BY <1>1, <1>2, <1>3 DEF Inductiva, UnDueno
<1>6. SinMemoria' /\ ConArchivo' /\ EnBloques' /\ SinLibres'
  BY <1>1 DEF SinMemoria, ConArchivo, EnBloques, SinLibres
<1>7. MarcosLimpios'
  BY <1>1, <1>2 DEF Inductiva, MarcosLimpios
<1>. QED
  BY <1>4, <1>5, <1>6, <1>7 DEF Inductiva

LEMMA PasoDesconectar ==
  ASSUME Inductiva, Desconectar
  PROVE  Inductiva' /\ ~conectada'
<1>1. /\ DOMAIN carpinchos' = {} /\ carpinchos' \in [{} -> TCarpincho']
      /\ UNCHANGED <<config, asignacion, caida>>
  BY DEF Desconectar
<1>2. Archivos' = Archivos /\ Marcos' = Marcos
  BY <1>1 DEF Archivos, Marcos
<1>3. \A r : Suyos(r)' = {}
  BY <1>1 DEF Suyos
<1>4. Tipos'
  BY <1>1, <1>2 DEF Inductiva, Tipos, Desconectar
<1>5. UnDueno'
  BY <1>1, <1>2, <1>3 DEF UnDueno, Dueno, Desconectar
<1>6. SinMemoria' /\ ConArchivo' /\ EnBloques' /\ SinLibres'
  BY <1>1 DEF SinMemoria, ConArchivo, EnBloques, SinLibres
<1>7. MarcosLimpios'
  BY <1>2 DEF MarcosLimpios, Desconectar
<1>8. ~conectada'
  BY DEF Desconectar
<1>. QED
  BY <1>4, <1>5, <1>6, <1>7, <1>8 DEF Inductiva

\* A step of a request changes the frames of one carpincho at most.
LEMMA PasoPedido ==
  ASSUME Inductiva, NEW pid \in Pids, Pedido(pid)
  PROVE  SinCambio \/ \E a : Cambio(pid, a)
<1>1. ASSUME NEW n \in Numeros, Leer(pid, n) PROVE SinCambio
  BY <1>1 DEF Leer, Sigue, Quietos, SinCambio, Inductiva, Tipos
<1>2. ASSUME NEW n \in Numeros, EscribirDesconocido(pid, n) PROVE SinCambio
  BY <1>2 DEF EscribirDesconocido, Sigue, Quietos, SinCambio, Inductiva, Tipos
<1>. QED
  BY <1>1, <1>2, PasoIniciar, PasoCerrar, PasoEliminar, PasoEscribirDinamica, PasoEscribirFija DEF Pedido

\* The invariant is inductive.
LEMMA PasoSwamp ==
  ASSUME Inductiva, [Next]_vars
  PROVE  Inductiva'
<1>1. ASSUME NEW tipo \in {"FIJA", "DINAMICA"}, Conectar(tipo) PROVE Inductiva'
  BY <1>1, PasoConectar
<1>2. CASE Desconectar
  BY <1>2, PasoDesconectar
<1>3. ASSUME SinCambio PROVE Inductiva'
  BY <1>3, SinCambioInductiva
<1>4. ASSUME NEW pid, NEW a, Cambio(pid, a) PROVE Inductiva'
  BY <1>4, CambioInductiva
<1>5. CASE UNCHANGED vars
  <2>1. SinCambio
    BY <1>5 DEF vars, SinCambio, Inductiva, Tipos
  <2>. QED
    BY <1>3, <2>1
<1>6. ASSUME NEW pid \in Pids, Pedido(pid) PROVE Inductiva'
  <2>1. SinCambio \/ \E a : Cambio(pid, a)
    BY <1>6, PasoPedido
  <2>. QED
    BY <1>3, <1>4, <2>1
<1>. QED
  BY <1>1, <1>2, <1>5, <1>6 DEF Next

\* The invariant that all the others follow from.
THEOREM SwampInductiva == Spec => []Inductiva
<1>1. Init => Inductiva
  BY SwampInicio
<1>2. Inductiva /\ [Next]_vars => Inductiva'
  BY PasoSwamp
<1>. QED
  BY <1>1, <1>2, PTL DEF Spec

\* Every variable keeps its type: in particular the frames a carpincho is given
\* are always frames of its file, though iniciar_carpincho (swamp.c) only looks
\* at how many are free and at the first.
THEOREM SwampTipos == Spec => []TypeOK
<1>1. Inductiva => TypeOK
  <2>. SUFFICES ASSUME Inductiva PROVE TypeOK
    OBVIOUS
  <2>1. ASSUME NEW pid \in DOMAIN carpinchos
        PROVE  /\ carpinchos[pid].archivo \in Archivos \cup {-1}
               /\ \A p \in ToSet(Paginas(pid)) : p.marco \in Marcos /\ p.libre \in BOOLEAN
    <3>1. carpinchos[pid].archivo \in Archivos \cup {-1}
      BY DelCarpincho DEF TCarpincho
    <3>2. ASSUME NEW p \in ToSet(Paginas(pid)) PROVE p \in TPagina
      BY DelCarpincho DEF ToSet
    <3>. QED
      BY <3>1, <3>2 DEF TPagina
  <2>. QED
    BY <2>1 DEF Inductiva, Tipos, TypeOK
<1>. QED
  BY <1>1, SwampInductiva, PTL

\* No two pages ever share a frame, and the bitmaps are the frames of the pages.
THEOREM SwampMarcosPropios == Spec => []MarcosPropios
<1>1. Inductiva => MarcosPropios
  <2>. SUFFICES ASSUME Inductiva PROVE MarcosPropios
    OBVIOUS
  <2>1. ASSUME NEW p \in DOMAIN carpinchos, NEW q \in DOMAIN carpinchos,
               NEW i \in DOMAIN Paginas(p), NEW j \in DOMAIN Paginas(q),
               carpinchos[p].archivo = carpinchos[q].archivo,
               Paginas(p)[i].marco = Paginas(q)[j].marco
        PROVE  p = q /\ i = j
    <3>. DEFINE m == Paginas(p)[i].marco
                a == carpinchos[p].archivo
    <3>1. Dueno(p, a, m) /\ Dueno(q, a, m)
      BY <2>1, DelCarpincho DEF Dueno
    <3>2. p = q
      BY <3>1 DEF Inductiva, UnDueno
    <3>3. Distintos(Paginas(p))
      BY DelCarpincho
    <3>. QED
      BY <2>1, <3>2, <3>3 DEF Distintos
  <2>2. ASSUME NEW a \in Archivos
        PROVE  bitmaps[a] = UNION {{Paginas(p)[i].marco : i \in DOMAIN Paginas(p)} :
                                     p \in {q \in DOMAIN carpinchos : carpinchos[q].archivo = a}}
    <3>1. ASSUME NEW m
          PROVE  m \in bitmaps[a] <=>
                   \E p \in DOMAIN carpinchos :
                     carpinchos[p].archivo = a /\ \E i \in DOMAIN Paginas(p) : Paginas(p)[i].marco = m
      <4>1. ASSUME NEW p \in DOMAIN carpinchos
            PROVE  m \in Suyos(p) <=> \E i \in DOMAIN Paginas(p) : Paginas(p)[i].marco = m
        BY MarcosDeEs DEF Suyos
      <4>. QED
        BY <4>1 DEF Inductiva, UnDueno, Dueno
    <3>. QED
      BY <3>1
  <2>. QED
    BY <2>1, <2>2 DEF MarcosPropios
<1>. QED
  BY <1>1, SwampInductiva, PTL

\* A frame that is in no page is blank: whoever is given it, by
\* iniciar_carpincho or by agregar_pagina, finds nothing of the one that had it.
THEOREM SwampMarcosLimpios == Spec => []MarcosLimpios
<1>1. Inductiva => MarcosLimpios
  BY DEF Inductiva
<1>. QED
  BY <1>1, SwampInductiva, PTL

\* A request changes no pages, nor what is in them, but those of the carpincho
\* it is for, under either assignment.
THEOREM SwampOtrosQuietos == Spec => OtrosQuietos
<1>. DEFINE Quieto(q) ==
       /\ q \in DOMAIN carpinchos <=> q \in DOMAIN carpinchos'
       /\ q \in DOMAIN carpinchos => carpinchos'[q] = carpinchos[q] /\ Contenido(q)' = Contenido(q)
<1>1. ASSUME Inductiva, NEW pid \in Pids, Pedido(pid), NEW q \in Pids \ {pid}
      PROVE  Quieto(q)
  <2>1. CASE SinCambio
    BY <1>1, <2>1, SinCambioInductiva DEF SinCambio
  <2>2. ASSUME NEW a, Cambio(pid, a) PROVE Quieto(q)
    <3>1. q \in DOMAIN carpinchos <=> q \in DOMAIN carpinchos'
      BY <1>1, <2>2, OtrosMarcos
    <3>2. q \in DOMAIN carpinchos => Contenido(q)' = Contenido(q)
      BY <1>1, <2>2, CambioQuietos
    <3>3. q \in DOMAIN carpinchos => carpinchos'[q] = carpinchos[q]
      BY <1>1, <2>2 DEF Cambio
    <3>. QED
      BY <3>1, <3>2, <3>3
  <2>. QED
    BY <1>1, <2>1, <2>2, PasoPedido
<1>. DEFINE Sosiego == \A pid \in Pids : Pedido(pid) => \A q \in Pids \ {pid} : Quieto(q)
<1>2. Inductiva => Sosiego
  BY <1>1
<1>3. Inductiva => [Sosiego]_vars
  BY <1>2
<1>. QED
  BY <1>3, SwampInductiva, PTL DEF Spec, OtrosQuietos

-------------------------------------------------------------------------------
(***************************************************************************)
(* That with DINAMICA Swamp is the swap SwapAbstracto promises: request by *)
(* request, the contents of the pages change as they should.               *)
(***************************************************************************)
LEMMA ContenidoDe ==
  ASSUME Inductiva, NEW pid \in DOMAIN carpinchos
  PROVE  /\ DOMAIN Contenido(pid) = 1..Len(Paginas(pid))
         /\ Contenido(pid) \in Seq(Contenidos \cup {CERO})
         /\ Len(Contenido(pid)) = Len(Paginas(pid)) /\ Len(Paginas(pid)) \in Nat
         /\ \A i \in 1..Len(Paginas(pid)) :
              Contenido(pid)[i] = archivos[carpinchos[pid].archivo][Paginas(pid)[i].marco]
<1>. DEFINE s == Paginas(pid)
            f == carpinchos[pid].archivo
            C == Contenido(pid)
            V == Contenidos \cup {CERO}
<1>1. Len(s) \in Nat /\ DOMAIN s = 1..Len(s)
  BY DelCarpincho
<1>2. ASSUME NEW i \in 1..Len(s) PROVE archivos[f][s[i].marco] \in V
  <2>1. s[i].marco \in Suyos(pid) /\ s[i].marco \in Marcos
    BY DelCarpincho
  <2>2. f \in Archivos
    BY <2>1, SuyosEnUso
  <2>. QED
    BY <2>1, <2>2 DEF Inductiva, Tipos
<1>3. /\ C = [i \in 1..Len(s) |-> archivos[f][s[i].marco]]
  BY <1>1 DEF Contenido
<1>. HIDE DEF s, f, C, V
<1>4. C \in [1..Len(s) -> V] /\ DOMAIN C = 1..Len(s) /\ \A i \in 1..Len(s) : C[i] = archivos[f][s[i].marco]
  BY <1>2, <1>3
<1>5. C \in Seq(V) /\ Len(C) = Len(s)
  BY <1>1, <1>4
<1>. QED
  BY <1>1, <1>4, <1>5 DEF s, f, C, V

\* With DINAMICA every page there is exists.
LEMMA ExisteDe ==
  ASSUME Inductiva, asignacion = "DINAMICA", NEW pid, NEW n \in Nat
  PROVE  Existe(pid, n) <=> pid \in DOMAIN carpinchos /\ n < Len(Paginas(pid))
<1>1. ASSUME pid \in DOMAIN carpinchos, n < Len(Paginas(pid)) PROVE ~Paginas(pid)[n + 1].libre
  <2>1. n + 1 \in DOMAIN Paginas(pid)
    BY <1>1, DelCarpincho
  <2>. QED
    BY <1>1, <2>1 DEF Inductiva, SinLibres
<1>. QED
  BY <1>1 DEF Existe

LEMMA OtrosContenidos ==
  ASSUME Inductiva, NEW pid, SinCambio \/ \E a : Cambio(pid, a)
  PROVE  \A r \in DOMAIN carpinchos : r # pid => r \in DOMAIN carpinchos' /\ Contenido(r)' = Contenido(r)
<1>1. CASE SinCambio
  BY <1>1, SinCambioInductiva DEF SinCambio
<1>2. ASSUME NEW a, Cambio(pid, a) PROVE \A r \in DOMAIN carpinchos : r # pid => r \in DOMAIN carpinchos' /\ Contenido(r)' = Contenido(r)
  BY <1>2, CambioQuietos, OtrosMarcos
<1>. QED
  BY <1>1, <1>2

LEMMA ImplementaLeer ==
  ASSUME Inductiva, asignacion = "DINAMICA", NEW pid, NEW n \in Numeros, Leer(pid, n)
  PROVE  Abs!Leer(pid, n)
<1>. DEFINE cont == [p \in DOMAIN carpinchos |-> Contenido(p)]
<1>1. n \in Nat
  BY SwampAssumption DEF Numeros
<1>2. Existe(pid, n) <=> Abs!Existe(pid, n)
  BY <1>1, ExisteDe, ContenidoDe DEF Abs!Existe
<1>3. Existe(pid, n) => /\ pid \in DOMAIN carpinchos
                        /\ Contenido(pid)[n + 1] = archivos[carpinchos[pid].archivo][Paginas(pid)[n + 1].marco]
  <2>. SUFFICES ASSUME Existe(pid, n)
                PROVE  /\ pid \in DOMAIN carpinchos
                       /\ Contenido(pid)[n + 1] = archivos[carpinchos[pid].archivo][Paginas(pid)[n + 1].marco]
    OBVIOUS
  <2>1. pid \in DOMAIN carpinchos /\ n < Len(Paginas(pid)) /\ Len(Paginas(pid)) \in Nat
    BY <1>1, ExisteDe, DelCarpincho
  <2>2. n + 1 \in 1..Len(Paginas(pid))
    BY <1>1, <2>1
  <2>. QED
    BY <2>1, <2>2, ContenidoDe
<1>4. cont' = cont
  <2>1. SinCambio
    BY DEF Leer, Sigue, Quietos, SinCambio, Inductiva, Tipos
  <2>2. DOMAIN carpinchos' = DOMAIN carpinchos /\ \A r : Contenido(r)' = Contenido(r)
    BY <2>1, SinCambioInductiva DEF SinCambio
  <2>. QED
    BY <2>2
<1>. QED
  BY <1>2, <1>3, <1>4 DEF Leer, Contestar, Abs!Leer, Abs!Contestar

LEMMA ImplementaIniciar ==
  ASSUME Inductiva, asignacion = "DINAMICA", NEW pid \in Pids, Iniciar(pid)
  PROVE  Abs!Iniciar(pid)
<1>1. /\ Nuevo(pid, -1, <<>>) /\ pid \notin DOMAIN carpinchos
  BY DEF Iniciar
<1>2. /\ DOMAIN carpinchos' = DOMAIN carpinchos \cup {pid} /\ carpinchos'[pid].paginas = <<>>
      /\ respuesta' = 0
  BY <1>1 DEF Nuevo, Contestar
<1>3. Contenido(pid)' = <<>>
  BY <1>2 DEF Contenido, Paginas
<1>4. \A r \in DOMAIN carpinchos : Contenido(r)' = Contenido(r)
  BY <1>1, PasoIniciar, OtrosContenidos
<1>. QED
  BY <1>1, <1>2, <1>3, <1>4 DEF Abs!Iniciar, Abs!Contestar

LEMMA ImplementaCerrar ==
  ASSUME Inductiva, NEW pid, Cerrar(pid)
  PROVE  Abs!Cerrar(pid)
<1>1. DOMAIN carpinchos' = DOMAIN carpinchos \ {pid} /\ respuesta' = respuesta
  BY DEF Cerrar, Restrict
<1>2. \A r \in DOMAIN carpinchos : r # pid => Contenido(r)' = Contenido(r)
  BY PasoCerrar, OtrosContenidos
<1>. QED
  BY <1>1, <1>2 DEF Abs!Cerrar

LEMMA ImplementaLimpiar ==
  ASSUME Desconectar
  PROVE  Abs!Limpiar
<1>1. DOMAIN carpinchos' = {} /\ respuesta' = respuesta
  BY DEF Desconectar
<1>. QED
  BY <1>1 DEF Abs!Limpiar

LEMMA ImplementaEliminar ==
  ASSUME Inductiva, asignacion = "DINAMICA", NEW pid, NEW n \in Numeros, Eliminar(pid, n)
  PROVE  Abs!Eliminar(pid, n)
<1>. DEFINE s == Paginas(pid)
            f == carpinchos[pid].archivo
            m == s[n + 1].marco
            q == Sacar(s, n)
            C == Contenido(pid)
            V == Contenidos \cup {CERO}
            R == RemoveAt(C, n + 1)
            cont == [p \in DOMAIN carpinchos |-> Contenido(p)]
<1>1. n \in Nat
  BY SwampAssumption DEF Numeros
<1>2. Existe(pid, n) <=> Abs!Existe(pid, n)
  BY <1>1, ExisteDe, ContenidoDe DEF Abs!Existe
<1>3. \A r \in DOMAIN carpinchos : r # pid => Contenido(r)' = Contenido(r)
  BY PasoEliminar, OtrosContenidos
<1>4. CASE ~Existe(pid, n)
  <2>1. SinCambio /\ respuesta' = -1
    BY <1>4 DEF Eliminar, Sigue, Quietos, SinCambio, Inductiva, Tipos, Contestar
  <2>2. cont' = cont
    <3>1. DOMAIN carpinchos' = DOMAIN carpinchos /\ \A r : Contenido(r)' = Contenido(r)
      BY <2>1, SinCambioInductiva DEF SinCambio
    <3>. QED
      BY <3>1
  <2>. QED
    BY <1>2, <1>4, <2>1, <2>2 DEF Abs!Eliminar, Abs!Contestar
<1>5. CASE Existe(pid, n)
  <2>1. /\ archivos' = [archivos EXCEPT ![f] = Ceros(@, {m})] /\ respuesta' = 0
        /\ carpinchos' = [carpinchos EXCEPT ![pid].paginas = q]
    BY <1>5 DEF Eliminar, Contestar
  <2>2. /\ pid \in DOMAIN carpinchos /\ n < Len(s) /\ Len(s) \in Nat /\ s \in Seq(TPagina)
        /\ DOMAIN s = 1..Len(s) /\ Distintos(s) /\ carpinchos[pid] \in TCarpincho
    BY <1>1, <1>5, ExisteDe, DelCarpincho
  <2>3. n + 1 \in 1..Len(s)
    BY <1>1, <2>2
  <2>4. m \in Suyos(pid) /\ f \in Archivos /\ \A i \in 1..Len(s) : s[i].marco \in Marcos
    BY <2>2, <2>3, DelCarpincho, SuyosEnUso
  <2>5. /\ C \in Seq(V) /\ Len(C) = Len(s)
        /\ \A i \in 1..Len(s) : C[i] = archivos[f][s[i].marco]
    BY <2>2, ContenidoDe
  <2>6. DOMAIN carpinchos' = DOMAIN carpinchos /\ carpinchos'[pid].paginas = q /\ carpinchos'[pid].archivo = f
    BY <2>1, <2>2 DEF TCarpincho
  <2>7. Contenido(pid)' = [i \in DOMAIN q |-> archivos'[f][q[i].marco]]
    BY <2>6 DEF Contenido, Paginas
  <2>. HIDE DEF s, f, m, C, V
  <2>8. \A y \in Marcos : archivos'[f][y] = IF y \in {m} THEN CERO ELSE archivos[f][y]
    BY <2>1, <2>4, AlBlanquear DEF Inductiva
  <2>9. /\ DOMAIN q = 1..(Len(s) - 1)
        /\ \A i \in 1..(Len(s) - 1) : q[i] = IF i < n + 1 THEN s[i] ELSE s[i + 1]
    <3>1. /\ q \in Seq(TPagina) /\ Len(q) = Len(s) - 1
          /\ \A i \in 1..(Len(s) - 1) : q[i] = IF i < n + 1 THEN s[i] ELSE s[i + 1]
      BY <2>2, <2>3, QuitarDe DEF Sacar
    <3>. HIDE DEF q
    <3>. QED
      BY <3>1, LenProperties
  <2>10. /\ DOMAIN R = 1..(Len(s) - 1) /\ R \in [1..(Len(s) - 1) -> V]
         /\ \A i \in 1..(Len(s) - 1) : R[i] = IF i < n + 1 THEN C[i] ELSE C[i + 1]
    <3>1. n + 1 \in 1..Len(C)
      BY <2>3, <2>5
    <3>2. /\ R \in Seq(V) /\ Len(R) = Len(C) - 1
          /\ \A i \in 1..(Len(C) - 1) : R[i] = IF i < n + 1 THEN C[i] ELSE C[i + 1]
      BY <2>5, <3>1, QuitarDe
    <3>. HIDE DEF R
    <3>3. R \in [1..Len(R) -> V] /\ DOMAIN R = 1..Len(R)
      BY <3>2, LenProperties
    <3>. QED
      BY <2>5, <3>2, <3>3
  <2>. HIDE DEF q, R
  <2>11. ASSUME NEW i \in 1..(Len(s) - 1) PROVE archivos'[f][q[i].marco] = R[i]
    <3>1. PICK j \in 1..Len(s) : j # n + 1 /\ q[i] = s[j] /\ R[i] = C[j]
      <4>1. CASE i < n + 1
        BY <2>2, <2>9, <2>10, <4>1
      <4>2. CASE ~(i < n + 1)
        <5>1. i + 1 \in 1..Len(s) /\ i + 1 # n + 1
          BY <1>1, <2>2, <4>2
        <5>. QED
          BY <2>9, <2>10, <4>2, <5>1
      <4>. QED
        BY <4>1, <4>2
    <3>2. s[j].marco # m
      BY <2>2, <2>3, <3>1 DEF Distintos, m
    <3>. QED
      BY <2>4, <2>5, <2>8, <3>1, <3>2
  <2>12. Contenido(pid)' = R
    BY <2>7, <2>9, <2>10, <2>11
  <2>13. cont' = [cont EXCEPT ![pid] = R]
    BY <1>3, <2>2, <2>6, <2>12
  <2>14. cont[pid] = C
    BY <2>2 DEF C
  <2>15. R = Abs!RemoveAt(C, n + 1)
    BY DEF R, RemoveAt, Abs!RemoveAt
  <2>. QED
    BY <1>2, <1>5, <2>1, <2>13, <2>14, <2>15 DEF Abs!Eliminar, Abs!Contestar
<1>. QED
  BY <1>4, <1>5

LEMMA ImplementaEscribir ==
  ASSUME Inductiva, NEW pid, NEW n \in Numeros, NEW c \in Contenidos,
         EscribirDinamica(pid, n, c), ~caida'
  PROVE  Abs!Escribir(pid, n, c)
<1>. DEFINE s == Paginas(pid)
            f == carpinchos[pid].archivo
            a == IF Len(s) = 0 THEN archivo_con_mas_espacio ELSE f
            carpincho == [carpinchos[pid] EXCEPT !.archivo = a]
            C == Contenido(pid)
            V == Contenidos \cup {CERO}
            cont == [p \in DOMAIN carpinchos |-> Contenido(p)]
<1>1. n \in Nat
  BY SwampAssumption DEF Numeros
<1>2. /\ pid \in DOMAIN carpinchos /\ asignacion = "DINAMICA" /\ carpinchos[pid] \in TCarpincho
      /\ s \in Seq(TPagina) /\ Len(s) \in Nat /\ DOMAIN s = 1..Len(s) /\ Distintos(s)
      /\ \A i \in 1..Len(s) : s[i].marco \in Marcos /\ s[i].marco \in Suyos(pid)
  BY DelCarpincho DEF EscribirDinamica
<1>3. \A r \in DOMAIN carpinchos : r # pid => Contenido(r)' = Contenido(r)
  BY PasoEscribirDinamica, OtrosContenidos
<1>4. /\ C \in Seq(V) /\ Len(C) = Len(s) /\ DOMAIN C = 1..Len(s)
      /\ \A i \in 1..Len(s) : C[i] = archivos[f][s[i].marco]
  BY <1>2, ContenidoDe
<1>5. Abs!Existe(pid, n) <=> n < Len(s)
  BY <1>2, <1>4 DEF Abs!Existe
<1>6. a \in Archivos
  <2>1. Len(s) # 0 => Suyos(pid) # {}
    BY <1>2, DelCarpincho
  <2>. QED
    BY <1>2, <2>1, ArchivoElegido DEF Inductiva, ConArchivo
<1>7. Tipos
  BY DEF Inductiva
<1>8. /\ carpincho.archivo = a /\ carpincho.paginas = s
      /\ carpincho \in TCarpincho /\ carpinchos[pid].paginas = s
  <2>1. carpinchos[pid].paginas = s
    BY DEF Paginas
  <2>. HIDE DEF a
  <2>. QED
    BY <1>2, <1>6, <2>1 DEF TCarpincho
<1>9. ASSUME n < Len(s), UNCHANGED <<carpinchos>>, Guardar(a, s[n + 1].marco, c), Contestar(0)
      PROVE  Abs!Escribir(pid, n, c)
  <2>1. n + 1 \in 1..Len(s) /\ a = f
    BY <1>1, <1>2, <1>9
  <2>2. \A y \in Marcos : archivos'[f][y] = IF y = s[n + 1].marco THEN c ELSE archivos[f][y]
    BY <1>2, <1>6, <1>7, <1>9, <2>1 DEF Guardar, Tipos
  <2>3. Contenido(pid)' = [i \in DOMAIN s |-> archivos'[f][s[i].marco]]
    BY <1>9 DEF Contenido, Paginas
  <2>4. ASSUME NEW i \in 1..Len(s) PROVE archivos'[f][s[i].marco] = IF i = n + 1 THEN c ELSE C[i]
    <3>1. s[i].marco = s[n + 1].marco <=> i = n + 1
      BY <1>2, <2>1 DEF Distintos
    <3>. QED
      BY <1>2, <1>4, <2>2, <3>1
  <2>. HIDE DEF s, f, a, C, V
  <2>5. C \in [1..Len(s) -> V]
    BY <1>4, LenProperties
  <2>6. Contenido(pid)' = [C EXCEPT ![n + 1] = c]
    BY <1>2, <2>1, <2>3, <2>4, <2>5
  <2>7. cont[pid] = C
    BY <1>2 DEF C
  <2>8. cont' = [cont EXCEPT ![pid] = [C EXCEPT ![n + 1] = c]]
    BY <1>2, <1>3, <1>9, <2>6
  <2>9. cont' = [cont EXCEPT ![pid][n + 1] = c]
    BY <2>7, <2>8
  <2>. QED
    BY <1>5, <1>9, <2>9 DEF Abs!Escribir, Abs!Contestar, Contestar
<1>10. ASSUME NEW marco, marco = Primero(a), n = Len(s), Libres(a) # {}, Contestar(0),
              Guardar(a, marco, c),
              carpinchos' = [carpinchos EXCEPT ![pid] =
                [carpincho EXCEPT !.paginas = Append(@, [marco |-> marco, libre |-> FALSE])]]
       PROVE  Abs!Escribir(pid, n, c)
  <2>. DEFINE e == [marco |-> marco, libre |-> FALSE]
              t == Append(s, e)
              D == Append(C, c)
  <2>1. marco \in Marcos /\ marco \notin bitmaps[a]
    BY <1>6, <1>7, <1>10, PrimeroDe
  <2>2. e \in TPagina /\ e.marco = marco
    BY <2>1 DEF TPagina
  <2>3. carpinchos'[pid].paginas = t /\ carpinchos'[pid].archivo = a /\ DOMAIN carpinchos' = DOMAIN carpinchos
    <3>. HIDE DEF e, a
    <3>1. carpinchos' = [carpinchos EXCEPT ![pid] = [carpincho EXCEPT !.paginas = Append(s, e)]]
      BY <1>8, <1>10 DEF e
    <3>2. [carpincho EXCEPT !.paginas = Append(s, e)].paginas = Append(s, e)
      BY <1>8 DEF TCarpincho
    <3>3. [carpincho EXCEPT !.paginas = Append(s, e)].archivo = a
      BY <1>8 DEF TCarpincho
    <3>. HIDE DEF carpincho, s
    <3>. QED
      BY <1>2, <3>1, <3>2, <3>3
  <2>. HIDE DEF e
  <2>4. /\ t \in Seq(TPagina) /\ Len(t) = Len(s) + 1 /\ t[Len(s) + 1] = e
        /\ \A i \in 1..Len(s) : t[i] = s[i]
    BY <1>2, <2>2, AppendProperties
  <2>5. DOMAIN t = 1..(Len(s) + 1)
    BY <1>2, <2>4, LenProperties
  <2>6. Contenido(pid)' = [i \in DOMAIN t |-> archivos'[a][t[i].marco]]
    BY <2>3 DEF Contenido, Paginas
  <2>7. \A y \in Marcos : archivos'[a][y] = IF y = marco THEN c ELSE archivos[a][y]
    BY <1>6, <1>7, <1>10, <2>1 DEF Guardar, Tipos
  <2>8. ASSUME NEW i \in 1..Len(s) PROVE archivos'[a][s[i].marco] = C[i]
    <3>1. a = f /\ s[i].marco \in bitmaps[f]
      BY <1>2, SuyosEnUso
    <3>. QED
      BY <1>2, <1>4, <2>1, <2>7, <3>1
  <2>. HIDE DEF C, V
  <2>9. /\ D \in Seq(V) /\ Len(D) = Len(s) + 1 /\ D[Len(s) + 1] = c
        /\ \A i \in 1..Len(s) : D[i] = C[i]
    <3>1. c \in V
      BY DEF V
    <3>. QED
      BY <1>4, <3>1, AppendProperties
  <2>10. DOMAIN D = 1..(Len(s) + 1) /\ D \in [1..(Len(s) + 1) -> V]
    BY <2>9, LenProperties
  <2>. HIDE DEF s, t, D, a
  <2>11. \A i \in 1..(Len(s) + 1) : archivos'[a][t[i].marco] = D[i]
    BY <1>2, <2>1, <2>2, <2>4, <2>7, <2>8, <2>9
  <2>12. Contenido(pid)' = D
    BY <2>5, <2>6, <2>10, <2>11
  <2>13. cont[pid] = C
    BY <1>2 DEF C
  <2>14. cont' = [cont EXCEPT ![pid] = D]
    BY <1>2, <1>3, <2>3, <2>12
  <2>15. n = Len(C)
    BY <1>4, <1>10
  <2>. QED
    BY <1>2, <1>10, <2>13, <2>14, <2>15 DEF Abs!Escribir, Abs!Contestar, Contestar, D
<1>11. ASSUME n >= Len(s), carpinchos' = [carpinchos EXCEPT ![pid] = carpincho], Contestar(-1),
              UNCHANGED archivos
       PROVE  Abs!Escribir(pid, n, c)
  <2>1. carpinchos'[pid].paginas = s /\ carpinchos'[pid].archivo = a /\ DOMAIN carpinchos' = DOMAIN carpinchos
    <3>. HIDE DEF carpincho, a, s
    <3>. QED
      BY <1>2, <1>8, <1>11
  <2>2. Contenido(pid)' = [i \in DOMAIN s |-> archivos[a][s[i].marco]]
    BY <1>11, <2>1 DEF Contenido, Paginas
  <2>3. C = [i \in DOMAIN s |-> archivos[f][s[i].marco]]
    BY DEF Contenido
  <2>4. Contenido(pid)' = C
    <3>1. CASE Len(s) = 0
      <4>1. DOMAIN s = {}
        BY <1>2, <3>1
      <4>. QED
        BY <2>2, <2>3, <4>1
    <3>2. CASE Len(s) # 0
      BY <2>2, <2>3, <3>2
    <3>. QED
      BY <3>1, <3>2
  <2>. HIDE DEF C
  <2>5. cont' = cont
    BY <1>2, <1>3, <2>1, <2>4 DEF C
  <2>6. ~(n < Len(s))
    BY <1>1, <1>2, <1>11
  <2>. QED
    BY <1>5, <1>11, <2>5, <2>6 DEF Abs!Escribir, Abs!Contestar, Contestar
<1>. HIDE DEF s, a, carpincho
<1>12. CASE n = Len(s) /\ Libres(a) = {} /\ caida' = TRUE
  BY <1>12
<1>13. (n > Len(s) \/ (n = Len(s) /\ Libres(a) = {})) => n >= Len(s)
  <2>1. n \in Nat /\ Len(s) \in Nat
    BY <1>1, <1>2
  <2>. QED
    BY <2>1
<1>. QED
  BY <1>9, <1>10, <1>11, <1>12, <1>13 DEF EscribirDinamica, s, f, a, carpincho

\* With DINAMICA Swamp does, request by request, what SwapAbstracto promises.
\* It is said of the steps that leave it alive: agregar_pagina writes out of the
\* file when no frame is left.
THEOREM SwampImplementaSwap == Spec => ImplementaSwap
<1>. DEFINE Implementa ==
       ~caida' /\ asignacion = "DINAMICA" =>
         /\ Desconectar => Abs!Limpiar
         /\ \A pid \in Pids :
              /\ Iniciar(pid) => Abs!Iniciar(pid)
              /\ Cerrar(pid) => Abs!Cerrar(pid)
              /\ \A n \in Numeros :
                   /\ Leer(pid, n) => Abs!Leer(pid, n)
                   /\ Eliminar(pid, n) => Abs!Eliminar(pid, n)
                   /\ \A c \in Contenidos : EscribirDinamica(pid, n, c) => Abs!Escribir(pid, n, c)
<1>1. Inductiva => Implementa
  BY ImplementaLimpiar, ImplementaIniciar, ImplementaCerrar, ImplementaLeer,
     ImplementaEliminar, ImplementaEscribir
<1>2. Inductiva /\ [Next]_vars => [Implementa]_vars
  BY <1>1
<1>. QED
  BY <1>2, SwampInductiva, PTL DEF Spec, ImplementaSwap

===============================================================================
