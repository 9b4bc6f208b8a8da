----------------------------- MODULE MiRAMProofs ------------------------------
(*****************************************************************************)
(* Proofs about Mi-RAM-HQ for any crews, sizes, criteria and replacement.    *)
(* First what the functions of PaginacionRAM do to the pages: frames have one *)
(* page, pages hold what they held, and those of who is left have a frame.   *)
(* Then the server: who is connected, that the segments or the pages of who  *)
(* is connected are there, and from that the invariants of its run.          *)
(*****************************************************************************)
EXTENDS MiRAM, SegmentacionProofs

\* Frames and the cells in them.

\* The size of a page and how many frames there are.
LEMMA TamDe ==
  ASSUME config \in Configuraciones
  PROVE  /\ TAM \in Nat \ {0} /\ Marcos \in Nat /\ MarcosSwap \in Nat
         /\ config.tamanio \in Nat /\ config.swap \in Nat
         /\ config.reemplazo \in {"LRU", "CLOCK"}
<1>1. config.pagina \in Nat \ {0} /\ config.tamanio \in Nat /\ config.swap \in Nat /\ config.reemplazo \in {"LRU", "CLOCK"}
  BY EstructurasAssumption
<1>2. TAM \in Nat \ {0}
  BY <1>1 DEF TAM
<1>3. Marcos \in Nat /\ MarcosSwap \in Nat
  BY <1>1, <1>2, DivisionDe DEF Marcos, MarcosSwap
<1>. QED
  BY <1>1, <1>2, <1>3

\* Two cells of frames are the same only if they are the same of the same frame.
LEMMA CeldasDistintas ==
  ASSUME NEW e \in Nat \ {0}, NEW f \in Nat, NEW g \in Nat, NEW k \in 0..(e - 1), NEW j \in 0..(e - 1),
         f * e + k = g * e + j
  PROVE  f = g /\ k = j
<1>1. (f * e + k) \div e = f /\ (f * e + k) % e = k
  BY DivisionUnica
<1>2. (g * e + j) \div e = g /\ (g * e + j) % e = j
  BY DivisionUnica
<1>. QED
  BY <1>1, <1>2

\* The cells of a frame are in the memory.
LEMMA CeldaDentro ==
  ASSUME NEW e \in Nat \ {0}, NEW n \in Nat, NEW f \in 0..((n \div e) - 1), NEW k \in 0..(e - 1)
  PROVE  f * e + k \in 0..(n - 1) /\ f * e \in Nat /\ f \in Nat
<1>. DEFINE q == n \div e
            r == n % e
<1>1. q \in Nat /\ r \in 0..(e - 1) /\ n = q * e + r /\ f \in 0..(q - 1)
  BY DivisionDe
<1>. HIDE DEF q, r
<1>2. f \in Nat /\ f * e \in Nat /\ q * e \in Nat /\ (f + 1) * e = f * e + e
  BY <1>1, Multiplos
<1>3. (f + 1) * e <= q * e
  <2>1. f + 1 \in Nat /\ f + 1 <= q
    BY <1>1
  <2>2. CASE f + 1 = q
    BY <1>2, <2>2
  <2>3. CASE f + 1 < q
    <3>. DEFINE a == (f + 1) * e
                b == q * e
    <3>1. ~(b < a)
      <4>1. b < a => b + e <= a
        BY <1>1, <2>1, Multiplos
      <4>2. \E c \in Nat \ {0} : q = f + 1 + c
        <5>1. q = f + 1 + (q - (f + 1)) /\ q - (f + 1) \in Nat \ {0}
          BY <1>1, <2>1, <2>3
        <5>. QED
          BY <5>1
      <4>3. PICK c \in Nat \ {0} : q = f + 1 + c
        BY <4>2
      <4>4. c * e \in Nat /\ b = a + c * e
        BY <1>2, <4>3
      <4>5. a \in Nat
        BY <1>2
      <4>. HIDE DEF a, b
      <4>. QED
        BY <4>4, <4>5
    <3>2. a \in Nat /\ b \in Nat
      BY <1>2
    <3>. HIDE DEF a, b
    <3>3. a <= b
      BY <3>1, <3>2
    <3>. QED
      BY <3>3 DEF a, b
  <2>. QED
    BY <1>1, <2>1, <2>2, <2>3
<1>4. f * e + k < n /\ f * e + k >= 0
  BY <1>1, <1>2, <1>3
<1>. QED
  BY <1>2, <1>4

\* memcpy to a frame writes that frame, of q there are, and no other.
Escrito(memoria, m, e, q, f, c) ==
  \A g \in 0..(q - 1), k \in 0..(e - 1) :
    m[g * e + k] = IF g = f /\ k < Len(c) THEN c[k + 1] ELSE memoria[g * e + k]

\* memcpy of a page to its frame: that frame is written and the others stay.
LEMMA CopiarFrame ==
  ASSUME NEW e \in Nat \ {0}, NEW n \in Nat, NEW S, NEW memoria \in [0..(n - 1) -> S], NEW q, q = n \div e,
         NEW f \in 0..(q - 1), NEW c \in Seq(S), Len(c) <= e
  PROVE  LET m == Copiar(memoria, f * e, c)
         IN m \in [0..(n - 1) -> S] /\ Escrito(memoria, m, e, q, f, c)
<1>. DEFINE m == Copiar(memoria, f * e, c)
<1>0. f \in 0..((n \div e) - 1)
  OBVIOUS
<1>1. f * e \in Nat /\ f \in Nat
  <2>1. 0 \in 0..(e - 1)
    OBVIOUS
  <2>. QED
    BY <1>0, <2>1, CeldaDentro
<1>2. /\ m \in [0..(n - 1) -> S]
      /\ \A a \in 0..(n - 1) :
           m[a] = IF f * e <= a /\ a < f * e + Len(c) THEN c[a - f * e + 1] ELSE memoria[a]
  BY <1>1, CopiarDe
<1>3. ASSUME NEW g \in 0..((n \div e) - 1), NEW k \in 0..(e - 1)
      PROVE  m[g * e + k] = IF g = f /\ k < Len(c) THEN c[k + 1] ELSE memoria[g * e + k]
  <2>0. g \in 0..((n \div e) - 1)
    OBVIOUS
  <2>1. g * e + k \in 0..(n - 1) /\ g * e \in Nat /\ g \in Nat /\ k \in Nat
    <3>1. g * e + k \in 0..(n - 1) /\ g * e \in Nat /\ g \in Nat
      BY ONLY e \in Nat \ {0}, n \in Nat, <2>0, k \in 0..(e - 1), CeldaDentro
    <3>. QED
      BY <3>1
  <2>2. m[g * e + k] = IF f * e <= g * e + k /\ g * e + k < f * e + Len(c) THEN c[g * e + k - f * e + 1] ELSE memoria[g * e + k]
    BY <1>2, <2>1
  <2>3. Len(c) \in Nat
    BY LenProperties
  <2>4. CASE g = f
    <3>1. f * e <= g * e + k /\ g * e + k - f * e + 1 = k + 1 /\ (g * e + k < f * e + Len(c) <=> k < Len(c))
      <4>. DEFINE a == f * e
      <4>1. a \in Nat /\ g * e = a
        BY <1>1, <2>4
      <4>. HIDE DEF a
      <4>2. a <= a + k /\ a + k - a + 1 = k + 1 /\ (a + k < a + Len(c) <=> k < Len(c))
        BY <4>1, <2>1, <2>3
      <4>. QED
        BY <4>1, <4>2 DEF a
    <3>. QED
      BY <2>2, <2>4, <3>1
  <2>5. CASE g # f
    <3>1. ~(f * e <= g * e + k /\ g * e + k < f * e + Len(c))
      <4>1. SUFFICES ASSUME f * e <= g * e + k, g * e + k < f * e + Len(c) PROVE FALSE
        OBVIOUS
      <4>. DEFINE a == f * e
                  b == g * e
                  j == b + k - a
      <4>2. a \in Nat /\ b \in Nat /\ a <= b + k /\ b + k < a + Len(c)
        BY <1>1, <2>1, <4>1
      <4>3. j \in 0..(e - 1) /\ b + k = a + j
        <5>. HIDE DEF a, b
        <5>. QED
          BY <2>1, <2>3, <4>2
      <4>. HIDE DEF j
      <4>4. g * e + k = f * e + j
        BY <4>3
      <4>5. g = f
        BY <1>1, <2>1, <4>3, <4>4, CeldasDistintas
      <4>. QED
        BY <2>5, <4>5
    <3>. QED
      BY <2>2, <2>5, <3>1
  <2>. QED
    BY <2>4, <2>5
<1>4. Escrito(memoria, m, e, q, f, c)
  BY <1>3 DEF Escrito
<1>. QED
  BY <1>2, <1>4

-------------------------------------------------------------------------------
\* The globals.
Pag == [frame : Int, presencia : BOOLEAN, uso : BOOLEAN]
Proceso == [tamanio : Nat, paginas : Seq(Pag), tcbs : SUBSET Nat]
Lugar == Pids \X (Nat \ {0})
PagEstado ==
  [memoria : [0..(config.tamanio - 1) -> Celdas], swap : [0..(config.swap - 1) -> Celdas],
   frames_real : SUBSET (0..(Marcos - 1)), frames_swap : SUBSET (0..(MarcosSwap - 1)),
   procesos : UNION {[D -> Proceso] : D \in SUBSET Pids},
   paginas_memoria : Seq(Lugar), puntero : Nat, caida : BOOLEAN]

PaginasDe(d) == UNION {{p} \X DOMAIN d.procesos[p].paginas : p \in DOMAIN d.procesos}

\* A step that changes none of the processes but what their pages say.
MismaForma(d, e) ==
  /\ DOMAIN e.procesos = DOMAIN d.procesos
  /\ \A p \in DOMAIN d.procesos :
       /\ e.procesos[p].tamanio = d.procesos[p].tamanio /\ e.procesos[p].tcbs = d.procesos[p].tcbs
       /\ DOMAIN e.procesos[p].paginas = DOMAIN d.procesos[p].paginas

\* What the globals are, one by one.
LEMMA PagEstadoDe ==
  ASSUME NEW d \in PagEstado
  PROVE  /\ d.memoria \in [0..(config.tamanio - 1) -> Celdas] /\ d.swap \in [0..(config.swap - 1) -> Celdas]
         /\ d.frames_real \subseteq 0..(Marcos - 1) /\ d.frames_swap \subseteq 0..(MarcosSwap - 1)
         /\ DOMAIN d.procesos \subseteq Pids /\ d.procesos \in [DOMAIN d.procesos -> Proceso]
         /\ d.paginas_memoria \in Seq(Lugar) /\ d.puntero \in Nat /\ d.caida \in BOOLEAN
BY DEF PagEstado

\* What a process of the table is.
LEMMA ProcesoDe ==
  ASSUME NEW d \in PagEstado, NEW p \in DOMAIN d.procesos
  PROVE  /\ d.procesos[p] \in Proceso /\ d.procesos[p].paginas \in Seq(Pag) /\ d.procesos[p].tcbs \subseteq Nat
         /\ d.procesos[p].tamanio \in Nat
         /\ Len(d.procesos[p].paginas) \in Nat
         /\ DOMAIN d.procesos[p].paginas = 1..Len(d.procesos[p].paginas)
         /\ \A i \in DOMAIN d.procesos[p].paginas : d.procesos[p].paginas[i] \in Pag /\ <<p, i>> \in PaginasDe(d)
<1>1. d.procesos[p] \in Proceso
  BY PagEstadoDe
<1>2. d.procesos[p].paginas \in Seq(Pag) /\ d.procesos[p].tcbs \subseteq Nat /\ d.procesos[p].tamanio \in Nat
  BY <1>1 DEF Proceso
<1>. DEFINE s == d.procesos[p].paginas
<1>3. Len(s) \in Nat /\ DOMAIN s = 1..Len(s)
  BY <1>2, LenProperties
<1>4. \A i \in 1..Len(s) : s[i] \in Pag
  <2>. HIDE DEF s
  <2>1. s \in Seq(Pag)
    BY <1>2 DEF s
  <2>. QED
    BY <2>1, ElementOfSeq
<1>5. \A i \in DOMAIN s : <<p, i>> \in PaginasDe(d)
  BY DEF PaginasDe
<1>. QED
  BY <1>1, <1>2, <1>3, <1>4, <1>5

\* A page is in the table of its process.
LEMMA PaginaDe ==
  ASSUME NEW d \in PagEstado, NEW x \in PaginasDe(d)
  PROVE  /\ x[1] \in DOMAIN d.procesos /\ x[2] \in DOMAIN d.procesos[x[1]].paginas /\ x = <<x[1], x[2]>>
         /\ Pagina(d, x) \in Pag /\ x \in Lugar
<1>1. x[1] \in DOMAIN d.procesos /\ x[2] \in DOMAIN d.procesos[x[1]].paginas /\ x = <<x[1], x[2]>>
  BY DEF PaginasDe
<1>2. d.procesos[x[1]].paginas[x[2]] \in Pag /\ x[2] \in Nat \ {0} /\ x[1] \in Pids
  BY <1>1, ProcesoDe, PagEstadoDe
<1>. QED
  BY <1>1, <1>2 DEF Pagina, Lugar

\* A step that keeps the form keeps which pages there are.
LEMMA FormaDe ==
  ASSUME NEW d, NEW e, MismaForma(d, e)
  PROVE  PaginasDe(e) = PaginasDe(d)
BY DEF MismaForma, PaginasDe

\* Two steps that keep the form.
LEMMA FormaTransitiva ==
  ASSUME NEW d, NEW e, NEW f, MismaForma(d, e), MismaForma(e, f)
  PROVE  MismaForma(d, f)
BY DEF MismaForma

\* A page written in the table of its process.
LEMMA ConPaginaDe ==
  ASSUME NEW d \in PagEstado, NEW x \in PaginasDe(d), NEW q \in Pag
  PROVE  LET e == ConPagina(d, x, q)
         IN /\ e \in PagEstado /\ MismaForma(d, e)
            /\ e.memoria = d.memoria /\ e.swap = d.swap /\ e.frames_real = d.frames_real
            /\ e.frames_swap = d.frames_swap /\ e.paginas_memoria = d.paginas_memoria
            /\ e.puntero = d.puntero /\ e.caida = d.caida
            /\ \A y \in PaginasDe(d) : Pagina(e, y) = IF y = x THEN q ELSE Pagina(d, y)
<1>. DEFINE p == x[1]
            i == x[2]
            s == [d.procesos[p].paginas EXCEPT ![i] = q]
            r == [d.procesos[p] EXCEPT !.paginas = s]
            f == [d.procesos EXCEPT ![p] = r]
            e == [d EXCEPT !.procesos = f]
<1>1. /\ p \in DOMAIN d.procesos /\ i \in DOMAIN d.procesos[p].paginas /\ x = <<p, i>>
      /\ d.procesos[p] \in Proceso /\ d.procesos[p].paginas \in Seq(Pag)
      /\ d.procesos \in [DOMAIN d.procesos -> Proceso] /\ DOMAIN d.procesos \subseteq Pids
  BY PaginaDe, ProcesoDe, PagEstadoDe
<1>2. ConPagina(d, x, q) = e
  BY DEF ConPagina
<1>3. /\ s \in Seq(Pag) /\ DOMAIN s = DOMAIN d.procesos[p].paginas
      /\ \A j \in DOMAIN s : s[j] = IF j = i THEN q ELSE d.procesos[p].paginas[j]
  <2>. DEFINE t == d.procesos[p].paginas
  <2>1. t \in Seq(Pag) /\ i \in 1..Len(t)
    BY <1>1, ProcesoDe
  <2>. HIDE DEF t
  <2>2. [t EXCEPT ![i] = q] \in Seq(Pag)
    BY <2>1, ExceptSeq
  <2>. QED
    BY <2>2 DEF t
<1>. HIDE DEF s
<1>4. r \in Proceso /\ r.paginas = s /\ r.tamanio = d.procesos[p].tamanio /\ r.tcbs = d.procesos[p].tcbs
  BY <1>1, <1>3 DEF Proceso
<1>. HIDE DEF r
<1>5. /\ f \in [DOMAIN d.procesos -> Proceso] /\ DOMAIN f = DOMAIN d.procesos
      /\ \A u \in DOMAIN d.procesos : f[u] = IF u = p THEN r ELSE d.procesos[u]
  BY <1>1, <1>4
<1>. HIDE DEF f
<1>6. f \in UNION {[D -> Proceso] : D \in SUBSET Pids}
  BY <1>1, <1>5
<1>7. /\ e \in PagEstado /\ e.procesos = f
      /\ e.memoria = d.memoria /\ e.swap = d.swap /\ e.frames_real = d.frames_real
      /\ e.frames_swap = d.frames_swap /\ e.paginas_memoria = d.paginas_memoria
      /\ e.puntero = d.puntero /\ e.caida = d.caida
  BY <1>6 DEF PagEstado
<1>. HIDE DEF e
<1>8. MismaForma(d, e)
  BY <1>3, <1>4, <1>5, <1>7 DEF MismaForma
<1>9. ASSUME NEW y \in PaginasDe(d) PROVE Pagina(e, y) = IF y = x THEN q ELSE Pagina(d, y)
  <2>1. y[1] \in DOMAIN d.procesos /\ y[2] \in DOMAIN d.procesos[y[1]].paginas /\ y = <<y[1], y[2]>>
    BY PaginaDe
  <2>2. Pagina(e, y) = f[y[1]].paginas[y[2]]
    BY <1>7 DEF Pagina
  <2>3. CASE y[1] = p
    <3>1. Pagina(e, y) = s[y[2]] /\ y[2] \in DOMAIN s
      BY <1>3, <1>4, <1>5, <2>1, <2>2, <2>3
    <3>2. y = x <=> y[2] = i
      BY <1>1, <2>1, <2>3
    <3>. QED
      BY <1>3, <2>3, <3>1, <3>2 DEF Pagina
  <2>4. CASE y[1] # p
    BY <1>1, <1>5, <2>1, <2>2, <2>4 DEF Pagina
  <2>. QED
    BY <2>3, <2>4
<1>. QED
  BY <1>2, <1>7, <1>8, <1>9

-------------------------------------------------------------------------------
\* What the page holds, wherever it is.
Cel(d, x, k) ==
  IF Pagina(d, x).presencia THEN d.memoria[Pagina(d, x).frame * TAM + k]
  ELSE d.swap[Pagina(d, x).frame * TAM + k]
ConFrame(d, x) == Pagina(d, x).frame # -1
EnReal(d, x) == Pagina(d, x).presencia /\ ConFrame(d, x)

\* The pages of P have frames of their own, that the bitmaps have as in use, and
\* the list is of some of those in the memory, once each.
Cuadros(d, P) ==
  /\ \A x \in P : ConFrame(d, x) => Pagina(d, x).frame \in (IF Pagina(d, x).presencia THEN d.frames_real ELSE d.frames_swap)
  /\ \A x, y \in P :
       ConFrame(d, x) /\ Pagina(d, x).frame = Pagina(d, y).frame /\ Pagina(d, x).presencia = Pagina(d, y).presencia => x = y
  /\ \A f \in d.frames_real : \E x \in P : Pagina(d, x).presencia /\ Pagina(d, x).frame = f
Lista(d, P) ==
  /\ IsInjective(d.paginas_memoria)
  /\ \A x : Contains(d.paginas_memoria, x) => x \in P /\ EnReal(d, x)
PagParte(d, P) == d \in PagEstado /\ P \subseteq PaginasDe(d) /\ Cuadros(d, P) /\ Lista(d, P)

\* The pages of P hold what they held.
Guarda(d, e, P) ==
  \A x \in P : /\ ConFrame(e, x) <=> ConFrame(d, x)
               /\ ConFrame(d, x) => \A k \in 0..(TAM - 1) : Cel(e, x, k) = Cel(d, x, k)

\* Nothing of the pages changes but their uso.
SoloUso(d, e) ==
  /\ e \in PagEstado /\ MismaForma(d, e) /\ e.memoria = d.memoria /\ e.swap = d.swap /\ e.frames_real = d.frames_real
  /\ e.caida = d.caida
  /\ \A y \in PaginasDe(d) : Pagina(e, y).frame = Pagina(d, y).frame /\ Pagina(e, y).presencia = Pagina(d, y).presencia

\* A step that only changes uso leaves every page where it was and with what it held.
LEMMA SoloUsoDe ==
  ASSUME NEW d, NEW e, SoloUso(d, e)
  PROVE  /\ PaginasDe(e) = PaginasDe(d)
         /\ \A x \in PaginasDe(d) : /\ ConFrame(e, x) = ConFrame(d, x) /\ EnReal(e, x) = EnReal(d, x)
                                    /\ \A k : Cel(e, x, k) = Cel(d, x, k)
<1>1. PaginasDe(e) = PaginasDe(d)
  BY FormaDe DEF SoloUso
<1>2. ASSUME NEW x \in PaginasDe(d)
      PROVE  /\ ConFrame(e, x) = ConFrame(d, x) /\ EnReal(e, x) = EnReal(d, x)
             /\ \A k : Cel(e, x, k) = Cel(d, x, k)
  <2>1. Pagina(e, x).frame = Pagina(d, x).frame /\ Pagina(e, x).presencia = Pagina(d, x).presencia
        /\ e.memoria = d.memoria /\ e.swap = d.swap
    BY DEF SoloUso
  <2>. QED
    BY <2>1 DEF ConFrame, EnReal, Cel
<1>. QED
  BY <1>1, <1>2

\* Two steps that only change uso.
LEMMA SoloUsoTransitiva ==
  ASSUME NEW d, NEW e, NEW f, SoloUso(d, e), SoloUso(e, f)
  PROVE  SoloUso(d, f)
<1>1. PaginasDe(e) = PaginasDe(d)
  BY SoloUsoDe
<1>. QED
  BY <1>1, FormaTransitiva DEF SoloUso

\* Writing the uso of a page.
LEMMA ConUsoDe ==
  ASSUME NEW d \in PagEstado, NEW x \in PaginasDe(d), NEW u \in BOOLEAN
  PROVE  LET e == ConUso(d, x, u)
         IN SoloUso(d, e) /\ e.frames_swap = d.frames_swap /\ e.paginas_memoria = d.paginas_memoria /\ e.puntero = d.puntero
<1>. DEFINE q == [Pagina(d, x) EXCEPT !.uso = u]
            e == ConPagina(d, x, q)
<1>1. q \in Pag /\ q.frame = Pagina(d, x).frame /\ q.presencia = Pagina(d, x).presencia
  BY PaginaDe DEF Pag
<1>. HIDE DEF q
<1>2. /\ e \in PagEstado /\ MismaForma(d, e)
      /\ e.memoria = d.memoria /\ e.swap = d.swap /\ e.frames_real = d.frames_real
      /\ e.frames_swap = d.frames_swap /\ e.paginas_memoria = d.paginas_memoria
      /\ e.puntero = d.puntero /\ e.caida = d.caida
      /\ \A y \in PaginasDe(d) : Pagina(e, y) = IF y = x THEN q ELSE Pagina(d, y)
  BY <1>1, ConPaginaDe
<1>3. e = ConUso(d, x, u)
  BY DEF ConUso, q
<1>. HIDE DEF e
<1>4. SoloUso(d, e)
  BY <1>1, <1>2 DEF SoloUso
<1>. QED
  BY <1>2, <1>3, <1>4

\* A page with another frame.
Movida(d, e, x, f, b) ==
  /\ e \in PagEstado /\ MismaForma(d, e)
  /\ e.memoria = d.memoria /\ e.swap = d.swap /\ e.frames_real = d.frames_real
  /\ e.frames_swap = d.frames_swap /\ e.paginas_memoria = d.paginas_memoria
  /\ e.puntero = d.puntero /\ e.caida = d.caida
  /\ Pagina(e, x).frame = f /\ Pagina(e, x).presencia = b
  /\ \A y \in PaginasDe(d) : y # x => Pagina(e, y) = Pagina(d, y)

\* Writing the frame and the presencia of a page.
LEMMA EnFrameDe ==
  ASSUME NEW d \in PagEstado, NEW x \in PaginasDe(d), NEW f \in Int, NEW b \in BOOLEAN
  PROVE  Movida(d, EnFrame(d, x, f, b), x, f, b)
<1>. DEFINE q == [Pagina(d, x) EXCEPT !.frame = f, !.presencia = b]
            e == ConPagina(d, x, q)
<1>1. q \in Pag /\ q.frame = f /\ q.presencia = b
  BY PaginaDe DEF Pag
<1>. HIDE DEF q
<1>2. /\ e \in PagEstado /\ MismaForma(d, e)
      /\ e.memoria = d.memoria /\ e.swap = d.swap /\ e.frames_real = d.frames_real
      /\ e.frames_swap = d.frames_swap /\ e.paginas_memoria = d.paginas_memoria
      /\ e.puntero = d.puntero /\ e.caida = d.caida
      /\ \A y \in PaginasDe(d) : Pagina(e, y) = IF y = x THEN q ELSE Pagina(d, y)
  BY <1>1, ConPaginaDe
<1>3. e = EnFrame(d, x, f, b)
  BY DEF EnFrame, q
<1>. HIDE DEF e
<1>. QED
  BY <1>1, <1>2, <1>3 DEF Movida

\* The hand of CLOCK puts in 0 the uso of those it passes.
LEMMA SinUsoDe ==
  ASSUME NEW d \in PagEstado, NEW P
  PROVE  LET e == SinUso(d, P)
         IN SoloUso(d, e) /\ e.frames_swap = d.frames_swap /\ e.paginas_memoria = d.paginas_memoria /\ e.puntero = d.puntero
<1>. DEFINE s(p) == [i \in DOMAIN d.procesos[p].paginas |->
                       [Pagina(d, <<p, i>>) EXCEPT !.uso = @ /\ <<p, i>> \notin P]]
            f == [p \in DOMAIN d.procesos |-> [d.procesos[p] EXCEPT !.paginas = s(p)]]
            e == [d EXCEPT !.procesos = f]
<1>1. SinUso(d, P) = e
  BY DEF SinUso
<1>2. ASSUME NEW p \in DOMAIN d.procesos
      PROVE  /\ s(p) \in Seq(Pag) /\ DOMAIN s(p) = DOMAIN d.procesos[p].paginas
             /\ \A i \in DOMAIN s(p) : s(p)[i].frame = d.procesos[p].paginas[i].frame
                                       /\ s(p)[i].presencia = d.procesos[p].paginas[i].presencia
  <2>. DEFINE t == d.procesos[p].paginas
              n == Len(t)
  <2>1. n \in Nat /\ DOMAIN t = 1..n /\ \A i \in 1..n : t[i] \in Pag
    BY ProcesoDe
  <2>2. \A i \in 1..n : s(p)[i] \in Pag /\ s(p)[i].frame = t[i].frame /\ s(p)[i].presencia = t[i].presencia
    <3>1. SUFFICES ASSUME NEW i \in 1..n
                   PROVE  s(p)[i] \in Pag /\ s(p)[i].frame = t[i].frame /\ s(p)[i].presencia = t[i].presencia
      OBVIOUS
    <3>. DEFINE b == t[i].uso /\ <<p, i>> \notin P
                v == [t[i] EXCEPT !.uso = b]
    <3>2. v \in Pag /\ v.frame = t[i].frame /\ v.presencia = t[i].presencia
      <4>1. t[i] \in Pag /\ b \in BOOLEAN
        BY <2>1
      <4>. HIDE DEF b
      <4>. QED
        BY <4>1 DEF Pag
    <3>3. s(p)[i] = v
      BY <2>1 DEF Pagina
    <3>. HIDE DEF v, t, s
    <3>. QED
      BY <3>2, <3>3
  <2>3. s(p) \in [1..n -> Pag]
    BY <2>1, <2>2
  <2>. QED
    BY <2>1, <2>2, <2>3
<1>. HIDE DEF s
<1>3. ASSUME NEW p \in DOMAIN d.procesos
      PROVE  LET r == [d.procesos[p] EXCEPT !.paginas = s(p)]
             IN r \in Proceso /\ r.paginas = s(p) /\ r.tamanio = d.procesos[p].tamanio /\ r.tcbs = d.procesos[p].tcbs
  <2>1. d.procesos[p] \in Proceso
    BY ProcesoDe
  <2>. QED
    BY <1>2, <2>1 DEF Proceso
<1>4. /\ DOMAIN f = DOMAIN d.procesos
      /\ \A p \in DOMAIN d.procesos : f[p] \in Proceso /\ f[p].paginas = s(p) /\ f[p].tamanio = d.procesos[p].tamanio
                                      /\ f[p].tcbs = d.procesos[p].tcbs
  BY <1>3
<1>5. f \in UNION {[D -> Proceso] : D \in SUBSET Pids}
  <2>1. f \in [DOMAIN d.procesos -> Proceso]
    BY <1>3
  <2>2. DOMAIN d.procesos \in SUBSET Pids
    BY PagEstadoDe
  <2>. HIDE DEF f
  <2>. QED
    BY <2>1, <2>2
<1>. HIDE DEF f
<1>6. /\ e \in PagEstado /\ e.procesos = f
      /\ e.memoria = d.memoria /\ e.swap = d.swap /\ e.frames_real = d.frames_real
      /\ e.frames_swap = d.frames_swap /\ e.paginas_memoria = d.paginas_memoria
      /\ e.puntero = d.puntero /\ e.caida = d.caida
  BY <1>5 DEF PagEstado
<1>. HIDE DEF e
<1>7. MismaForma(d, e)
  BY <1>2, <1>4, <1>6 DEF MismaForma
<1>8. ASSUME NEW y \in PaginasDe(d)
      PROVE  Pagina(e, y).frame = Pagina(d, y).frame /\ Pagina(e, y).presencia = Pagina(d, y).presencia
  <2>1. y[1] \in DOMAIN d.procesos /\ y[2] \in DOMAIN d.procesos[y[1]].paginas
    BY PaginaDe
  <2>. QED
    BY <1>2, <1>4, <1>6, <2>1 DEF Pagina
<1>. QED
  BY <1>1, <1>6, <1>7, <1>8 DEF SoloUso

-------------------------------------------------------------------------------
\* An element of a list replaced by another that is not in it.
LEMMA ReemplazoDe ==
  ASSUME NEW S, NEW s \in Seq(S), NEW e \in S, NEW k \in 1..Len(s), IsInjective(s), ~Contains(s, e)
  PROVE  LET t == ReplaceAt(s, k, e)
         IN /\ t \in Seq(S) /\ IsInjective(t)
            /\ \A x : Contains(t, x) <=> (Contains(s, x) /\ x # s[k]) \/ x = e
<1>. DEFINE t == [s EXCEPT ![k] = e]
            n == Len(s)
<1>1. /\ n \in Nat /\ DOMAIN s = 1..n /\ t \in Seq(S) /\ Len(t) = n /\ DOMAIN t = 1..n
      /\ \A i \in 1..n : t[i] = IF i = k THEN e ELSE s[i]
  BY LenProperties, ExceptSeq
<1>2. \A i, j \in 1..n : s[i] = s[j] => i = j
  BY <1>1 DEF IsInjective
<1>3. \A i \in 1..n : s[i] # e
  BY DEF Contains
<1>4. ReplaceAt(s, k, e) = t
  BY DEF ReplaceAt
<1>. HIDE DEF t
<1>5. IsInjective(t)
  BY <1>1, <1>2, <1>3 DEF IsInjective
<1>6. ASSUME NEW x PROVE Contains(t, x) <=> (Contains(s, x) /\ x # s[k]) \/ x = e
  <2>1. Contains(t, x) => (Contains(s, x) /\ x # s[k]) \/ x = e
    BY <1>1, <1>2 DEF Contains
  <2>2. Contains(s, x) /\ x # s[k] => Contains(t, x)
    BY <1>1 DEF Contains
  <2>3. x = e => Contains(t, x)
    BY <1>1 DEF Contains
  <2>. QED
    BY <2>1, <2>2, <2>3
<1>. QED
  BY <1>1, <1>4, <1>5, <1>6

\* The hand of CLOCK stays on the list.
LEMMA VictimaDe ==
  ASSUME config \in Configuraciones, NEW d \in PagEstado, d.paginas_memoria # <<>>
  PROVE  Victima(d) \in 1..Len(d.paginas_memoria)
<1>. DEFINE n == Len(d.paginas_memoria)
            paran == {k \in DOMAIN Vuelta(d) : ~Pagina(d, d.paginas_memoria[Vuelta(d)[k]]).uso}
<1>1. n \in Nat \ {0} /\ DOMAIN d.paginas_memoria = 1..n /\ d.puntero \in Nat
  BY PagEstadoDe, LenProperties, EmptySeq
<1>2. DOMAIN Vuelta(d) = 1..n
  BY <1>1 DEF Vuelta
<1>3. \A k \in 1..n : Vuelta(d)[k] \in 1..n
  <2>1. SUFFICES ASSUME NEW k \in 1..n PROVE ((d.puntero + k - 1) % n) + 1 \in 1..n
    BY <1>1 DEF Vuelta
  <2>. HIDE DEF n
  <2>2. d.puntero + k - 1 \in Nat
    BY <1>1
  <2>. DEFINE z == d.puntero + k - 1
              r == z % n
  <2>. HIDE DEF z
  <2>3. r \in 0..(n - 1)
    BY <1>1, <2>2, DivisionDe DEF z
  <2>. HIDE DEF r
  <2>4. r + 1 \in 1..n
    BY <1>1, <2>3
  <2>. QED
    BY <2>4 DEF r, z
<1>4. Pasadas(d) \in 0..n
  <2>1. paran \in SUBSET Nat /\ paran \subseteq 1..n
    BY <1>1, <1>2
  <2>2. Pasadas(d) = IF paran = {} THEN n ELSE Min(paran) - 1
    BY DEF Pasadas
  <2>. HIDE DEF paran
  <2>3. CASE paran = {}
    BY <1>1, <2>2, <2>3
  <2>4. CASE paran # {}
    <3>1. Min(paran) \in paran
      BY <2>1, <2>4, MinimoDe
    <3>2. Min(paran) \in 1..n
      BY <2>1, <3>1
    <3>. QED
      BY <1>1, <2>2, <2>4, <3>2
  <2>. QED
    BY <2>3, <2>4
<1>5. (Pasadas(d) % n) + 1 \in 1..n
  <2>. DEFINE z == Pasadas(d)
              r == z % n
  <2>. HIDE DEF n
  <2>1. z \in Nat
    BY <1>1, <1>4
  <2>. HIDE DEF z
  <2>2. r \in 0..(n - 1)
    BY <1>1, <2>1, DivisionDe
  <2>. HIDE DEF r
  <2>3. r + 1 \in 1..n
    BY <1>1, <2>2
  <2>. QED
    BY <2>3 DEF r, z
<1>6. Victima(d) = IF config.reemplazo = "LRU" THEN 1 ELSE Vuelta(d)[(Pasadas(d) % n) + 1]
  BY DEF Victima
<1>7. 1 \in 1..n
  BY <1>1
<1>. QED
  BY <1>3, <1>5, <1>6, <1>7

\* The page that comes takes its place in the list from the one that leaves.
LEMMA RelevarDe ==
  ASSUME config \in Configuraciones, NEW d \in PagEstado, d.paginas_memoria # <<>>, IsInjective(d.paginas_memoria),
         NEW pg \in Lugar, ~Contains(d.paginas_memoria, pg)
  PROVE  LET e == Relevar(d, pg)
             sacada == d.paginas_memoria[Victima(d)]
         IN /\ SoloUso(d, e) /\ e.frames_swap = d.frames_swap
            /\ Contains(d.paginas_memoria, sacada) /\ IsInjective(e.paginas_memoria)
            /\ \A x : Contains(e.paginas_memoria, x) <=> (Contains(d.paginas_memoria, x) /\ x # sacada) \/ x = pg
<1>. DEFINE l == d.paginas_memoria
            v == Victima(d)
            e == Relevar(d, pg)
<1>1. l \in Seq(Lugar) /\ v \in 1..Len(l) /\ Len(l) \in Nat \ {0} /\ l # <<>>
  BY PagEstadoDe, VictimaDe, LenProperties, EmptySeq
<1>2. Contains(l, l[v])
  BY <1>1 DEF Contains
<1>3. CASE config.reemplazo = "LRU"
  <2>. DEFINE t == Append(Tail(l), pg)
              f == [d EXCEPT !.paginas_memoria = t]
  <2>1. v = 1 /\ e = f
    BY <1>3 DEF Victima, Relevar
  <2>2. Tail(l) \in Seq(Lugar)
    BY <1>1, CabezaDe
  <2>3. /\ \A x : Contains(Tail(l), x) <=> Contains(l, x) /\ x # Head(l)
        /\ IsInjective(Tail(l))
    BY <1>1, ColaDe
  <2>4. t \in Seq(Lugar)
    BY <2>2, AppendProperties
  <2>5. ~Contains(Tail(l), pg)
    BY <2>3
  <2>6. /\ \A x : Contains(t, x) <=> Contains(Tail(l), x) \/ x = pg
        /\ IsInjective(t)
    BY <2>2, <2>3, <2>5, AgregarDe
  <2>7. Head(l) = l[v]
    BY <1>1, <2>1
  <2>. HIDE DEF t
  <2>8. /\ f \in PagEstado /\ f.paginas_memoria = t /\ f.procesos = d.procesos /\ f.memoria = d.memoria /\ f.swap = d.swap
        /\ f.frames_real = d.frames_real /\ f.frames_swap = d.frames_swap /\ f.caida = d.caida
    BY <2>4 DEF PagEstado
  <2>. HIDE DEF f
  <2>9. SoloUso(d, f)
    BY <2>8 DEF SoloUso, MismaForma, Pagina
  <2>. HIDE DEF l, v
  <2>. QED
    BY <1>2, <2>1, <2>3, <2>6, <2>7, <2>8, <2>9 DEF l, v
<1>4. CASE config.reemplazo # "LRU"
  <2>. DEFINE P == {l[Vuelta(d)[k]] : k \in 1..Pasadas(d)}
              b == SinUso(d, P)
              t == ReplaceAt(l, v, pg)
              n == Adelantar(d, v)
              f == [b EXCEPT !.paginas_memoria = t, !.puntero = n]
  <2>1. SoloUso(d, b) /\ b.frames_swap = d.frames_swap /\ b.paginas_memoria = l /\ b.puntero = d.puntero
    BY SinUsoDe
  <2>2. e = f
    BY <1>4, <2>1 DEF Relevar
  <2>3. /\ t \in Seq(Lugar) /\ IsInjective(t)
        /\ \A x : Contains(t, x) <=> (Contains(l, x) /\ x # l[v]) \/ x = pg
    BY <1>1, ReemplazoDe
  <2>4. n \in Nat
    BY <1>1 DEF Adelantar
  <2>5. b \in PagEstado
    BY <2>1 DEF SoloUso
  <2>. HIDE DEF b, t, n
  <2>6. /\ f \in PagEstado /\ f.paginas_memoria = t /\ f.procesos = b.procesos /\ f.memoria = b.memoria /\ f.swap = b.swap
        /\ f.frames_real = b.frames_real /\ f.frames_swap = b.frames_swap /\ f.caida = b.caida
    BY <2>3, <2>4, <2>5 DEF PagEstado
  <2>. HIDE DEF f
  <2>7. SoloUso(d, f)
    <3>1. SoloUso(b, f)
      BY <2>6 DEF SoloUso, MismaForma, Pagina
    <3>. QED
      BY <2>1, <3>1, SoloUsoTransitiva
  <2>. QED
    BY <1>2, <2>1, <2>2, <2>3, <2>6, <2>7
<1>. QED
  BY <1>3, <1>4

-------------------------------------------------------------------------------
\* proximo_frame: one that is free, or -1.
LEMMA ProximoFrameDe ==
  ASSUME NEW ocupados, NEW cantidad \in Nat
  PROVE  LET r == ProximoFrame(ocupados, cantidad)
         IN r = -1 \/ (r \in 0..(cantidad - 1) /\ r \notin ocupados)
<1>. DEFINE libres == (0..(cantidad - 1)) \ ocupados
<1>1. libres \in SUBSET Nat
  OBVIOUS
<1>2. ProximoFrame(ocupados, cantidad) = IF libres = {} THEN -1 ELSE Min(libres)
  BY DEF ProximoFrame
<1>3. libres # {} => Min(libres) \in libres
  <2>. HIDE DEF libres
  <2>. QED
    BY <1>1, MinimoDe
<1>. QED
  BY <1>2, <1>3

\* What a frame holds.
Copiado(c, memoria, f) ==
  Len(c) = TAM /\ \A k \in 0..(TAM - 1) : c[k + 1] = memoria[f * TAM + k]

\* What is copied of a frame is what it holds.
LEMMA CopiaDe ==
  ASSUME config \in Configuraciones, NEW n \in Nat, NEW S, NEW memoria \in [0..(n - 1) -> S],
         NEW q, q = n \div TAM, NEW f \in 0..(q - 1)
  PROVE  Copia(memoria, f) \in Seq(S) /\ Copiado(Copia(memoria, f), memoria, f)
<1>. DEFINE c == [k \in 1..TAM |-> memoria[f * TAM + k - 1]]
<1>1. TAM \in Nat \ {0}
  BY TamDe
<1>0. f \in 0..((n \div TAM) - 1)
  OBVIOUS
<1>2. \A k \in 0..(TAM - 1) : f * TAM + k \in 0..(n - 1) /\ f * TAM \in Nat
  BY <1>0, <1>1, CeldaDentro
<1>3. \A k \in 1..TAM : k - 1 \in 0..(TAM - 1) /\ f * TAM + k - 1 = f * TAM + (k - 1)
  <2>1. 0 \in 0..(TAM - 1)
    BY <1>1
  <2>2. f * TAM \in Nat
    BY <1>2, <2>1
  <2>. DEFINE a == f * TAM
  <2>3. \A k \in 1..TAM : k - 1 \in 0..(TAM - 1) /\ a + k - 1 = a + (k - 1)
    <3>. HIDE DEF a
    <3>1. a \in Nat
      BY <2>2 DEF a
    <3>. QED
      BY <1>1, <3>1
  <2>. QED
    BY <2>3
<1>4. \A k \in 1..TAM : c[k] \in S /\ c[k] = memoria[f * TAM + (k - 1)]
  BY <1>2, <1>3
<1>5. c \in [1..TAM -> S]
  BY <1>4
<1>6. c \in Seq(S) /\ Len(c) = TAM
  BY <1>1, <1>5
<1>7. \A k \in 0..(TAM - 1) : c[k + 1] = memoria[f * TAM + k]
  <2>1. SUFFICES ASSUME NEW k \in 0..(TAM - 1) PROVE c[k + 1] = memoria[f * TAM + k]
    OBVIOUS
  <2>2. k + 1 \in 1..TAM /\ k + 1 - 1 = k
    BY <1>1
  <2>. HIDE DEF c
  <2>. QED
    BY <1>4, <2>2
<1>8. Copia(memoria, f) = c
  BY DEF Copia
<1>. QED
  BY <1>6, <1>7, <1>8 DEF Copiado

\* A bad address changes only that the process has died.
LEMMA CaerDe ==
  ASSUME NEW d \in PagEstado
  PROVE  Caer(d) \in PagEstado /\ Caer(d).caida = TRUE
BY DEF Caer, PagEstado

\* A frame of a page is one of those of where the page is.
LEMMA FrameDe ==
  ASSUME NEW d, NEW P, PagParte(d, P), NEW x \in P, ConFrame(d, x)
  PROVE  /\ Pagina(d, x).presencia => Pagina(d, x).frame \in d.frames_real /\ Pagina(d, x).frame \in 0..(Marcos - 1)
         /\ ~Pagina(d, x).presencia => Pagina(d, x).frame \in d.frames_swap /\ Pagina(d, x).frame \in 0..(MarcosSwap - 1)
<1>1. d.frames_real \subseteq 0..(Marcos - 1) /\ d.frames_swap \subseteq 0..(MarcosSwap - 1)
  BY PagEstadoDe DEF PagParte
<1>. QED
  BY <1>1 DEF PagParte, Cuadros

\* A page more, in a frame of the memory, and the others hold what they held.
Traida(d, e, P, pg) ==
  /\ PagParte(e, P \cup {pg}) /\ MismaForma(d, e) /\ EnReal(e, pg) /\ Guarda(d, e, P)
  /\ e.memoria = d.memoria

\* The page that leaves goes to a free frame of the swap with what it holds, and
\* the one that comes has its frame.
LEMMA ReemplazarDe ==
  ASSUME config \in Configuraciones, NEW d, NEW P, PagParte(d, P), NEW pg \in PaginasDe(d), pg \notin P
  PROVE  LET e == Reemplazar(d, pg)
         IN e \in PagEstado /\ (e.caida \/ (Traida(d, e, P, pg) /\ e.frames_real = d.frames_real))
<1>. DEFINE e == Reemplazar(d, pg)
            sacada == d.paginas_memoria[Victima(d)]
            frame == Pagina(d, sacada).frame
            virtual == ProximoFrame(d.frames_swap, MarcosSwap)
            a == Relevar(d, pg)
            b == EnFrame(a, sacada, virtual, FALSE)
            c == EnFrame(b, pg, frame, TRUE)
            s == Copiar(c.swap, virtual * TAM, Copia(d.memoria, frame))
            w == c.frames_swap \cup {virtual}
            f == [c EXCEPT !.swap = s, !.frames_swap = w]
<1>1. d \in PagEstado /\ Caer(d) \in PagEstado /\ Caer(d).caida = TRUE
  BY CaerDe DEF PagParte
<1>2. e = IF d.paginas_memoria = <<>> THEN Caer(d) ELSE IF virtual = -1 THEN Caer(d) ELSE f
  BY DEF Reemplazar
<1>3. SUFFICES ASSUME d.paginas_memoria # <<>>, virtual # -1, e = f
               PROVE  f \in PagEstado /\ Traida(d, f, P, pg) /\ f.frames_real = d.frames_real
  <2>. HIDE DEF f, virtual
  <2>. QED
    BY <1>1, <1>2
<1>4. /\ TAM \in Nat \ {0} /\ Marcos \in Nat /\ MarcosSwap \in Nat /\ config.tamanio \in Nat /\ config.swap \in Nat
      /\ Marcos = config.tamanio \div TAM /\ MarcosSwap = config.swap \div TAM
  BY TamDe DEF Marcos, MarcosSwap
<1>5. virtual \in 0..(MarcosSwap - 1) /\ virtual \notin d.frames_swap
  BY <1>3, <1>4, ProximoFrameDe
<1>6. pg \in Lugar /\ ~Contains(d.paginas_memoria, pg) /\ IsInjective(d.paginas_memoria)
  BY <1>1, PaginaDe DEF PagParte, Lista
<1>7. /\ SoloUso(d, a) /\ a.frames_swap = d.frames_swap
      /\ Contains(d.paginas_memoria, sacada) /\ IsInjective(a.paginas_memoria)
      /\ \A x : Contains(a.paginas_memoria, x) <=> (Contains(d.paginas_memoria, x) /\ x # sacada) \/ x = pg
  BY <1>1, <1>3, <1>6, RelevarDe
<1>. HIDE DEF a, sacada, virtual
<1>8. /\ sacada \in P /\ sacada \in PaginasDe(d) /\ EnReal(d, sacada) /\ sacada # pg
  BY <1>7 DEF PagParte, Lista
<1>9. /\ Pagina(d, sacada).presencia /\ frame \in d.frames_real /\ frame \in 0..(Marcos - 1) /\ frame \in Nat
  <2>1. Pagina(d, sacada).presencia /\ ConFrame(d, sacada)
    BY <1>8 DEF EnReal
  <2>. QED
    BY <1>4, <1>8, <2>1, FrameDe
<1>10. a \in PagEstado /\ PaginasDe(a) = PaginasDe(d)
  BY <1>7, SoloUsoDe DEF SoloUso
<1>. HIDE DEF frame
<1>11. /\ b \in PagEstado /\ MismaForma(a, b)
       /\ b.memoria = a.memoria /\ b.swap = a.swap /\ b.frames_real = a.frames_real
       /\ b.frames_swap = a.frames_swap /\ b.paginas_memoria = a.paginas_memoria
       /\ Pagina(b, sacada).frame = virtual /\ Pagina(b, sacada).presencia = FALSE
       /\ \A y \in PaginasDe(a) : y # sacada => Pagina(b, y) = Pagina(a, y)
  <2>1. virtual \in Int
    BY <1>4, <1>5
  <2>2. sacada \in PaginasDe(a)
    BY <1>8, <1>10
  <2>3. Movida(a, b, sacada, virtual, FALSE)
    BY <1>10, <2>1, <2>2, EnFrameDe
  <2>. HIDE DEF b
  <2>. QED
    BY <2>3 DEF Movida
<1>12. PaginasDe(b) = PaginasDe(d)
  <2>. HIDE DEF b
  <2>. QED
    BY <1>10, <1>11, FormaDe
<1>. HIDE DEF b
<1>13. /\ c \in PagEstado /\ MismaForma(b, c)
       /\ c.memoria = b.memoria /\ c.swap = b.swap /\ c.frames_real = b.frames_real
       /\ c.frames_swap = b.frames_swap /\ c.paginas_memoria = b.paginas_memoria
       /\ Pagina(c, pg).frame = frame /\ Pagina(c, pg).presencia = TRUE
       /\ \A y \in PaginasDe(b) : y # pg => Pagina(c, y) = Pagina(b, y)
  <2>1. frame \in Int
    BY <1>9
  <2>2. b \in PagEstado /\ pg \in PaginasDe(b)
    BY <1>11, <1>12
  <2>3. Movida(b, c, pg, frame, TRUE)
    BY <2>1, <2>2, EnFrameDe
  <2>. HIDE DEF c
  <2>. QED
    BY <2>3 DEF Movida
<1>. HIDE DEF c
<1>14. Copia(d.memoria, frame) \in Seq(Celdas) /\ Copiado(Copia(d.memoria, frame), d.memoria, frame)
  <2>1. d.memoria \in [0..(config.tamanio - 1) -> Celdas]
    BY <1>1, PagEstadoDe
  <2>. QED
    BY <1>4, <1>9, <2>1, CopiaDe
<1>15. c.swap = d.swap /\ c.memoria = d.memoria /\ c.frames_real = d.frames_real /\ c.frames_swap = d.frames_swap
  BY <1>7, <1>11, <1>13 DEF SoloUso
<1>16. /\ s \in [0..(config.swap - 1) -> Celdas]
       /\ \A g \in 0..(MarcosSwap - 1), k \in 0..(TAM - 1) :
            s[g * TAM + k] = IF g = virtual THEN d.memoria[frame * TAM + k] ELSE d.swap[g * TAM + k]
  <2>. DEFINE cc == Copia(d.memoria, frame)
  <2>1. d.swap \in [0..(config.swap - 1) -> Celdas]
    BY <1>1, PagEstadoDe
  <2>2. cc \in Seq(Celdas) /\ Len(cc) <= TAM /\ Copiado(cc, d.memoria, frame)
    BY <1>4, <1>14 DEF Copiado
  <2>3. s = Copiar(d.swap, virtual * TAM, cc)
    BY <1>15
  <2>. HIDE DEF s, cc
  <2>4. /\ s \in [0..(config.swap - 1) -> Celdas]
        /\ Escrito(d.swap, s, TAM, MarcosSwap, virtual, cc)
    BY <1>4, <1>5, <2>1, <2>2, <2>3, CopiarFrame
  <2>5. Len(cc) = TAM /\ \A k \in 0..(TAM - 1) : k < TAM /\ cc[k + 1] = d.memoria[frame * TAM + k]
    BY <1>4, <2>2 DEF Copiado
  <2>6. ASSUME NEW g \in 0..(MarcosSwap - 1), NEW k \in 0..(TAM - 1)
        PROVE  s[g * TAM + k] = IF g = virtual THEN d.memoria[frame * TAM + k] ELSE d.swap[g * TAM + k]
    <3>1. s[g * TAM + k] = IF g = virtual /\ k < Len(cc) THEN cc[k + 1] ELSE d.swap[g * TAM + k]
      BY <2>4 DEF Escrito
    <3>2. k < Len(cc) /\ cc[k + 1] = d.memoria[frame * TAM + k]
      BY <2>5
    <3>. QED
      BY <3>1, <3>2
  <2>. QED
    BY <2>4, <2>6
<1>. HIDE DEF s
<1>17. w \subseteq 0..(MarcosSwap - 1) /\ w = d.frames_swap \cup {virtual}
  BY <1>1, <1>5, <1>15, PagEstadoDe
<1>. HIDE DEF w
<1>18. /\ f \in PagEstado /\ f.procesos = c.procesos /\ f.memoria = d.memoria /\ f.swap = s
       /\ f.frames_real = d.frames_real /\ f.frames_swap = d.frames_swap \cup {virtual}
       /\ f.paginas_memoria = a.paginas_memoria
  <2>1. /\ f \in PagEstado /\ f.procesos = c.procesos /\ f.memoria = c.memoria /\ f.swap = s
        /\ f.frames_real = c.frames_real /\ f.frames_swap = w /\ f.paginas_memoria = c.paginas_memoria
    BY <1>13, <1>16, <1>17 DEF PagEstado
  <2>. QED
    BY <1>11, <1>13, <1>15, <1>17, <2>1
<1>. HIDE DEF f
<1>19. /\ Pagina(f, pg).frame = frame /\ Pagina(f, pg).presencia = TRUE
       /\ Pagina(f, sacada).frame = virtual /\ Pagina(f, sacada).presencia = FALSE
       /\ \A y \in PaginasDe(d) : y # pg /\ y # sacada =>
            Pagina(f, y).frame = Pagina(d, y).frame /\ Pagina(f, y).presencia = Pagina(d, y).presencia
  <2>1. \A y : Pagina(f, y) = Pagina(c, y)
    BY <1>18 DEF Pagina
  <2>2. \A y \in PaginasDe(d) : y # pg => Pagina(f, y) = Pagina(b, y)
    BY <1>12, <1>13, <2>1
  <2>3. \A y \in PaginasDe(d) : y # sacada => Pagina(b, y) = Pagina(a, y)
    BY <1>10, <1>11
  <2>4. \A y \in PaginasDe(d) : Pagina(a, y).frame = Pagina(d, y).frame /\ Pagina(a, y).presencia = Pagina(d, y).presencia
    BY <1>7 DEF SoloUso
  <2>. QED
    BY <1>8, <1>11, <1>13, <2>1, <2>2, <2>3, <2>4
<1>20. MismaForma(d, f)
  <2>1. MismaForma(c, f) /\ MismaForma(d, a)
    BY <1>7, <1>18 DEF MismaForma, SoloUso
  <2>. QED
    BY <1>11, <1>13, <2>1, FormaTransitiva
<1>21. Cuadros(f, P \cup {pg})
  <2>0. P \subseteq PaginasDe(d) /\ Cuadros(d, P)
    BY DEF PagParte
  <2>1. ASSUME NEW x \in P \cup {pg}, ConFrame(f, x)
        PROVE  Pagina(f, x).frame \in (IF Pagina(f, x).presencia THEN f.frames_real ELSE f.frames_swap)
    <3>1. CASE x = pg
      BY <1>9, <1>18, <1>19, <3>1
    <3>2. CASE x = sacada
      BY <1>18, <1>19, <3>2
    <3>3. CASE x # pg /\ x # sacada
      BY <1>18, <1>19, <2>0, <2>1, <3>3 DEF Cuadros, ConFrame
    <3>. QED
      BY <3>1, <3>2, <3>3
  <2>2. ASSUME NEW x \in P \cup {pg}, NEW y \in P \cup {pg}, ConFrame(f, x), Pagina(f, x).frame = Pagina(f, y).frame,
               Pagina(f, x).presencia = Pagina(f, y).presencia, x # y
        PROVE  FALSE
    <3>1. \A z \in P : z # sacada => ~(Pagina(d, z).frame = frame /\ Pagina(d, z).presencia)
      BY <1>8, <1>9, <2>0 DEF Cuadros, ConFrame, EnReal, frame
    <3>2. \A z \in P : z # sacada => ~(Pagina(d, z).frame = virtual /\ ~Pagina(d, z).presencia)
      BY <1>4, <1>5, <2>0 DEF Cuadros, ConFrame
    <3>3. x \in {pg, sacada} \/ y \in {pg, sacada}
      BY <1>19, <2>0, <2>2 DEF Cuadros, ConFrame
    <3>. QED
      BY <1>8, <1>19, <2>0, <2>2, <3>1, <3>2, <3>3
  <2>3. ASSUME NEW g \in f.frames_real PROVE \E x \in P \cup {pg} : Pagina(f, x).presencia /\ Pagina(f, x).frame = g
    <3>1. PICK x \in P : Pagina(d, x).presencia /\ Pagina(d, x).frame = g
      BY <1>18, <2>0, <2>3 DEF Cuadros
    <3>2. CASE x = sacada
      BY <1>19, <3>1, <3>2 DEF frame
    <3>3. CASE x # sacada
      BY <1>19, <2>0, <3>1, <3>3
    <3>. QED
      BY <3>2, <3>3
  <2>. QED
    BY <2>1, <2>2, <2>3 DEF Cuadros
<1>22. EnReal(f, pg)
  BY <1>9, <1>19 DEF EnReal, ConFrame
<1>23. Lista(f, P \cup {pg})
  <2>1. ASSUME NEW x, Contains(f.paginas_memoria, x) PROVE x \in P \cup {pg} /\ EnReal(f, x)
    <3>1. (Contains(d.paginas_memoria, x) /\ x # sacada) \/ x = pg
      BY <1>7, <1>18, <2>1
    <3>2. CASE x = pg
      BY <1>22, <3>2
    <3>3. CASE x # pg
      <4>1. x \in P /\ x \in PaginasDe(d) /\ EnReal(d, x) /\ x # sacada
        BY <3>1, <3>3 DEF PagParte, Lista
      <4>. QED
        BY <1>19, <3>3, <4>1 DEF EnReal, ConFrame
    <3>. QED
      BY <3>2, <3>3
  <2>. QED
    BY <1>7, <1>18, <2>1 DEF Lista
<1>24. Guarda(d, f, P)
  <2>1. SUFFICES ASSUME NEW x \in P
                 PROVE  /\ ConFrame(f, x) <=> ConFrame(d, x)
                        /\ ConFrame(d, x) => \A k \in 0..(TAM - 1) : Cel(f, x, k) = Cel(d, x, k)
    BY DEF Guarda
  <2>2. x \in PaginasDe(d) /\ x # pg
    BY DEF PagParte
  <2>3. CASE x = sacada
    <3>1. ConFrame(f, x) /\ ConFrame(d, x)
      BY <1>4, <1>5, <1>8, <1>19, <2>3 DEF ConFrame, EnReal
    <3>2. ASSUME NEW k \in 0..(TAM - 1) PROVE Cel(f, x, k) = Cel(d, x, k)
      <4>1. Cel(f, x, k) = s[virtual * TAM + k]
        BY <1>18, <1>19, <2>3 DEF Cel
      <4>2. Cel(d, x, k) = d.memoria[frame * TAM + k]
        BY <1>9, <2>3 DEF Cel, frame
      <4>. QED
        BY <1>5, <1>16, <4>1, <4>2
    <3>. QED
      BY <3>1, <3>2
  <2>4. CASE x # sacada
    <3>1. Pagina(f, x).frame = Pagina(d, x).frame /\ Pagina(f, x).presencia = Pagina(d, x).presencia
      BY <1>19, <2>2, <2>4
    <3>2. ASSUME ConFrame(d, x), NEW k \in 0..(TAM - 1) PROVE Cel(f, x, k) = Cel(d, x, k)
      <4>1. CASE Pagina(d, x).presencia
        BY <1>18, <3>1, <4>1 DEF Cel
      <4>2. CASE ~Pagina(d, x).presencia
        <5>1. Pagina(d, x).frame \in 0..(MarcosSwap - 1) /\ Pagina(d, x).frame # virtual
          BY <1>5, <3>2, <4>2, FrameDe
        <5>2. Cel(f, x, k) = s[Pagina(d, x).frame * TAM + k] /\ Cel(d, x, k) = d.swap[Pagina(d, x).frame * TAM + k]
          BY <1>18, <3>1, <4>2 DEF Cel
        <5>. QED
          BY <1>16, <5>1, <5>2
      <4>. QED
        BY <4>1, <4>2
    <3>. QED
      BY <3>1, <3>2 DEF ConFrame
  <2>. QED
    BY <2>3, <2>4
<1>25. PagParte(f, P \cup {pg})
  <2>1. PaginasDe(f) = PaginasDe(d)
    BY <1>20, FormaDe
  <2>. QED
    BY <1>18, <1>21, <1>23, <2>1 DEF PagParte
<1>. QED
  BY <1>18, <1>20, <1>22, <1>24, <1>25 DEF Traida

-------------------------------------------------------------------------------
\* A step after which every page is as it should be and holds what it held.
PagBase(d) == PagParte(d, PaginasDe(d))
Sigue(d, e) == PagBase(e) /\ MismaForma(d, e) /\ Guarda(d, e, PaginasDe(d))

\* What is written in the frame of a page is in no other.
Anotada(f, g, P, pg) ==
  /\ PagParte(g, P) /\ MismaForma(f, g) /\ EnReal(g, pg) /\ Guarda(f, g, P \ {pg})
  /\ \A k \in 0..(TAM - 1) : Cel(g, pg, k) = g.memoria[Pagina(f, pg).frame * TAM + k]

ConMemoria(f, m) == [f EXCEPT !.memoria = m]
SoloFrame(f, m, frame) ==
  \A q \in 0..(Marcos - 1), k \in 0..(TAM - 1) : q # frame => m[q * TAM + k] = f.memoria[q * TAM + k]

\* A page of the memory whose frame is written.
LEMMA AnotarDe ==
  ASSUME config \in Configuraciones, NEW f, NEW P, PagParte(f, P), NEW pg \in P, EnReal(f, pg),
         NEW m \in [0..(config.tamanio - 1) -> Celdas], SoloFrame(f, m, Pagina(f, pg).frame)
  PROVE  LET g == ConMemoria(f, m) IN Anotada(f, g, P, pg) /\ g.memoria = m /\ g.caida = f.caida
<1>. DEFINE g == ConMemoria(f, m)
<1>1. /\ g \in PagEstado /\ g.memoria = m /\ g.swap = f.swap /\ g.frames_real = f.frames_real
      /\ g.frames_swap = f.frames_swap /\ g.paginas_memoria = f.paginas_memoria /\ g.procesos = f.procesos /\ g.caida = f.caida
  BY DEF PagParte, PagEstado, ConMemoria
<1>. HIDE DEF g
<1>2. \A x : Pagina(g, x) = Pagina(f, x)
  BY <1>1 DEF Pagina
<1>3. \A x : ConFrame(g, x) = ConFrame(f, x) /\ EnReal(g, x) = EnReal(f, x)
  BY <1>2 DEF ConFrame, EnReal
<1>4. PaginasDe(g) = PaginasDe(f) /\ MismaForma(f, g)
  BY <1>1 DEF PaginasDe, MismaForma
<1>5. Cuadros(g, P) /\ Lista(g, P)
  BY <1>1, <1>2, <1>3 DEF PagParte, Cuadros, Lista
<1>6. PagParte(g, P)
  BY <1>1, <1>4, <1>5 DEF PagParte
<1>7. Guarda(f, g, P \ {pg})
  <2>1. SUFFICES ASSUME NEW x \in P \ {pg}, ConFrame(f, x), NEW k \in 0..(TAM - 1) PROVE Cel(g, x, k) = Cel(f, x, k)
    BY <1>3 DEF Guarda
  <2>2. CASE ~Pagina(f, x).presencia
    BY <1>1, <1>2, <2>2 DEF Cel
  <2>3. CASE Pagina(f, x).presencia
    <3>1. Pagina(f, x).frame \in 0..(Marcos - 1)
      BY <2>1, <2>3, FrameDe
    <3>2. Pagina(f, x).frame # Pagina(f, pg).frame
      BY <2>1, <2>3 DEF PagParte, Cuadros, EnReal
    <3>3. m[Pagina(f, x).frame * TAM + k] = f.memoria[Pagina(f, x).frame * TAM + k]
      BY <2>1, <3>1, <3>2 DEF SoloFrame
    <3>. QED
      BY <1>1, <1>2, <2>3, <3>3 DEF Cel
  <2>. QED
    BY <2>2, <2>3
<1>8. \A k \in 0..(TAM - 1) : Cel(g, pg, k) = g.memoria[Pagina(f, pg).frame * TAM + k]
  BY <1>2 DEF Cel, EnReal
<1>9. EnReal(g, pg)
  BY <1>3
<1>10. Anotada(f, g, P, pg) /\ g.memoria = m /\ g.caida = f.caida
  BY <1>1, <1>4, <1>6, <1>7, <1>8, <1>9 DEF Anotada
<1>. QED
  BY <1>10 DEF g

\* A page brought to a free frame is listed.
LEMMA TraerLibre ==
  ASSUME config \in Configuraciones, NEW e, NEW P, PagParte(e, P), NEW pg \in PaginasDe(e), pg \notin P,
         NEW libre \in 0..(Marcos - 1), libre \notin e.frames_real
  PROVE  LET f == [EnFrame(e, pg, libre, TRUE) EXCEPT
                     !.frames_real = @ \cup {libre}, !.paginas_memoria = Append(@, pg)]
         IN Traida(e, f, P, pg) /\ f.caida = e.caida
<1>. DEFINE c == EnFrame(e, pg, libre, TRUE)
            r == e.frames_real \cup {libre}
            l == Append(e.paginas_memoria, pg)
            f == [c EXCEPT !.frames_real = r, !.paginas_memoria = l]
            f0 == [c EXCEPT !.frames_real = @ \cup {libre}, !.paginas_memoria = Append(@, pg)]
<1>1. e \in PagEstado /\ pg \in Lugar /\ Marcos \in Nat /\ libre \in Int /\ libre # -1
  BY PaginaDe, TamDe DEF PagParte
<1>2. Movida(e, c, pg, libre, TRUE)
  BY <1>1, EnFrameDe
<1>. HIDE DEF c
<1>3. /\ c \in PagEstado /\ MismaForma(e, c) /\ c.memoria = e.memoria /\ c.swap = e.swap /\ c.frames_real = e.frames_real
      /\ c.frames_swap = e.frames_swap /\ c.paginas_memoria = e.paginas_memoria /\ c.caida = e.caida
      /\ Pagina(c, pg).frame = libre /\ Pagina(c, pg).presencia = TRUE
      /\ \A y \in PaginasDe(e) : y # pg => Pagina(c, y) = Pagina(e, y)
  BY <1>2 DEF Movida
<1>4. f0 = f
  BY <1>3
<1>5. /\ r \subseteq 0..(Marcos - 1) /\ l \in Seq(Lugar)
      /\ IsInjective(l) /\ \A x : Contains(l, x) <=> Contains(e.paginas_memoria, x) \/ x = pg
  <2>1. e.frames_real \subseteq 0..(Marcos - 1) /\ e.paginas_memoria \in Seq(Lugar)
    BY <1>1, PagEstadoDe
  <2>2. IsInjective(e.paginas_memoria) /\ ~Contains(e.paginas_memoria, pg)
    BY DEF PagParte, Lista
  <2>3. l \in Seq(Lugar)
    BY <1>1, <2>1, AppendProperties
  <2>. QED
    BY <1>1, <2>1, <2>2, <2>3, AgregarDe
<1>. HIDE DEF r, l
<1>6. /\ f \in PagEstado /\ f.memoria = e.memoria /\ f.swap = e.swap /\ f.frames_real = r /\ f.caida = e.caida
      /\ f.frames_swap = e.frames_swap /\ f.paginas_memoria = l /\ f.procesos = c.procesos
  BY <1>3, <1>5 DEF PagEstado
<1>. HIDE DEF f
<1>7. /\ Pagina(f, pg).frame = libre /\ Pagina(f, pg).presencia = TRUE
      /\ \A y \in PaginasDe(e) : y # pg => Pagina(f, y) = Pagina(e, y)
  <2>1. \A y : Pagina(f, y) = Pagina(c, y)
    BY <1>6 DEF Pagina
  <2>. QED
    BY <1>3, <2>1
<1>8. MismaForma(e, f)
  BY <1>3, <1>6 DEF MismaForma
<1>9. P \subseteq PaginasDe(e) /\ Cuadros(e, P) /\ \A y \in P : y \in PaginasDe(e) /\ y # pg
  BY DEF PagParte
<1>10. Cuadros(f, P \cup {pg})
  <2>1. ASSUME NEW x \in P \cup {pg}, ConFrame(f, x)
        PROVE  Pagina(f, x).frame \in (IF Pagina(f, x).presencia THEN f.frames_real ELSE f.frames_swap)
    <3>1. CASE x = pg
      BY <1>6, <1>7, <3>1 DEF r
    <3>2. CASE x # pg
      BY <1>6, <1>7, <1>9, <2>1, <3>2 DEF r, Cuadros, ConFrame
    <3>. QED
      BY <3>1, <3>2
  <2>2. ASSUME NEW x \in P \cup {pg}, NEW y \in P \cup {pg}, ConFrame(f, x), Pagina(f, x).frame = Pagina(f, y).frame,
               Pagina(f, x).presencia = Pagina(f, y).presencia, x # y
        PROVE  FALSE
    <3>1. \A z \in P : ~(Pagina(e, z).frame = libre /\ Pagina(e, z).presencia)
      BY <1>1, <1>9 DEF Cuadros, ConFrame
    <3>. QED
      BY <1>7, <1>9, <2>2, <3>1 DEF Cuadros, ConFrame
  <2>3. ASSUME NEW g \in f.frames_real PROVE \E x \in P \cup {pg} : Pagina(f, x).presencia /\ Pagina(f, x).frame = g
    BY <1>6, <1>7, <1>9, <2>3 DEF r, Cuadros
  <2>. QED
    BY <2>1, <2>2, <2>3 DEF Cuadros
<1>11. EnReal(f, pg)
  BY <1>1, <1>7 DEF EnReal, ConFrame
<1>12. Lista(f, P \cup {pg})
  <2>1. ASSUME NEW x, Contains(l, x) PROVE x \in P \cup {pg} /\ EnReal(f, x)
    <3>1. CASE x = pg
      BY <1>11, <3>1
    <3>2. CASE x # pg
      <4>1. x \in P /\ EnReal(e, x)
        BY <1>5, <2>1, <3>2 DEF PagParte, Lista
      <4>. QED
        BY <1>7, <1>9, <3>2, <4>1 DEF EnReal, ConFrame
    <3>. QED
      BY <3>1, <3>2
  <2>. QED
    BY <1>5, <1>6, <2>1 DEF Lista
<1>13. Guarda(e, f, P)
  BY <1>6, <1>7, <1>9 DEF Guarda, ConFrame, Cel
<1>14. PagParte(f, P \cup {pg})
  <2>1. PaginasDe(f) = PaginasDe(e)
    BY <1>8, FormaDe
  <2>. QED
    BY <1>6, <1>9, <1>10, <1>12, <2>1 DEF PagParte
<1>15. Traida(e, f, P, pg) /\ f.caida = e.caida
  BY <1>6, <1>8, <1>11, <1>13, <1>14 DEF Traida
<1>16. Traida(e, f0, P, pg) /\ f0.caida = e.caida
  <2>. HIDE DEF f0
  <2>. QED
    BY <1>4, <1>15
<1>. QED
  BY <1>16 DEF f0, c

\* Two steps that keep what the pages hold.
LEMMA GuardaTransitiva ==
  ASSUME NEW d, NEW e, NEW f, NEW P, Guarda(d, e, P), Guarda(e, f, P)
  PROVE  Guarda(d, f, P)
BY DEF Guarda

\* Two steps that keep the pages.
LEMMA SigueTransitiva ==
  ASSUME NEW d, NEW e, NEW f, Sigue(d, e), Sigue(e, f)
  PROVE  Sigue(d, f)
<1>1. PaginasDe(e) = PaginasDe(d) /\ MismaForma(d, f)
  BY FormaDe, FormaTransitiva DEF Sigue
<1>2. Guarda(d, f, PaginasDe(d))
  BY <1>1, GuardaTransitiva DEF Sigue
<1>. QED
  BY <1>1, <1>2 DEF Sigue

\* Doing nothing keeps the pages.
LEMMA SigueIgual ==
  ASSUME NEW d, PagBase(d)
  PROVE  Sigue(d, d)
BY DEF Sigue, MismaForma, Guarda

\* Only the uso changes, and the order of the list.
LEMMA SoloUsoSigue ==
  ASSUME NEW d, PagBase(d), NEW e, SoloUso(d, e), e.frames_swap = d.frames_swap, IsInjective(e.paginas_memoria),
         \A x : Contains(e.paginas_memoria, x) <=> Contains(d.paginas_memoria, x)
  PROVE  Sigue(d, e)
<1>. DEFINE P == PaginasDe(d)
<1>1. /\ PaginasDe(e) = P
      /\ \A x \in P : /\ ConFrame(e, x) = ConFrame(d, x) /\ EnReal(e, x) = EnReal(d, x)
                      /\ \A k : Cel(e, x, k) = Cel(d, x, k)
  BY SoloUsoDe
<1>2. /\ e \in PagEstado /\ MismaForma(d, e) /\ e.frames_real = d.frames_real
      /\ \A y \in P : Pagina(e, y).frame = Pagina(d, y).frame /\ Pagina(e, y).presencia = Pagina(d, y).presencia
  BY DEF SoloUso
<1>3. Cuadros(d, P) /\ Lista(d, P)
  BY DEF PagBase, PagParte
<1>. HIDE DEF P
<1>4. Cuadros(e, P)
  BY <1>1, <1>2, <1>3 DEF Cuadros
<1>5. Lista(e, P)
  BY <1>1, <1>3 DEF Lista
<1>6. PagBase(e)
  BY <1>1, <1>2, <1>4, <1>5 DEF PagBase, PagParte
<1>7. Guarda(d, e, P)
  BY <1>1 DEF Guarda
<1>. QED
  BY <1>2, <1>6, <1>7 DEF Sigue, P

\* usar_pagina
LEMMA UsarPaginaDe ==
  ASSUME config \in Configuraciones, NEW d, PagBase(d), NEW pg \in PaginasDe(d), EnReal(d, pg)
  PROVE  LET e == UsarPagina(d, pg)
         IN e \in PagEstado /\ (e.caida \/ (Sigue(d, e) /\ EnReal(e, pg)))
<1>. DEFINE e == ConUso(d, pg, TRUE)
            l == Append(RemoveFirst(d.paginas_memoria, pg), pg)
            f == [e EXCEPT !.paginas_memoria = l]
<1>1. d \in PagEstado /\ IsInjective(d.paginas_memoria) /\ pg \in Lugar /\ d.paginas_memoria \in Seq(Lugar)
  BY PaginaDe, PagEstadoDe DEF PagBase, PagParte, Lista
<1>2. SoloUso(d, e) /\ e.frames_swap = d.frames_swap /\ e.paginas_memoria = d.paginas_memoria
  BY <1>1, ConUsoDe
<1>3. e \in PagEstado
  BY <1>2 DEF SoloUso
<1>4. UsarPagina(d, pg) = IF config.reemplazo = "CLOCK" THEN e ELSE IF ~Contains(d.paginas_memoria, pg) THEN Caer(d) ELSE f
  BY <1>2 DEF UsarPagina
<1>. HIDE DEF e
<1>5. CASE config.reemplazo = "CLOCK"
  <2>1. Sigue(d, e)
    BY <1>1, <1>2, SoloUsoSigue
  <2>2. EnReal(e, pg)
    BY <1>2, SoloUsoDe
  <2>. QED
    BY <1>3, <1>4, <1>5, <2>1, <2>2
<1>6. CASE config.reemplazo # "CLOCK" /\ ~Contains(d.paginas_memoria, pg)
  BY <1>1, <1>4, <1>6, CaerDe
<1>7. CASE config.reemplazo # "CLOCK" /\ Contains(d.paginas_memoria, pg)
  <2>. DEFINE r == RemoveFirst(d.paginas_memoria, pg)
  <2>1. r \in Seq(Lugar)
    BY <1>1, SacarTipo
  <2>2. /\ \A x : Contains(r, x) <=> Contains(d.paginas_memoria, x) /\ x # pg
        /\ IsInjective(r)
    BY <1>1, SacarDe
  <2>. HIDE DEF r
  <2>3. ~Contains(r, pg)
    BY <2>2
  <2>4. /\ \A x : Contains(Append(r, pg), x) <=> Contains(r, x) \/ x = pg
        /\ IsInjective(Append(r, pg))
    BY <1>1, <2>1, <2>2, <2>3, AgregarDe
  <2>5. Append(r, pg) \in Seq(Lugar)
    BY <1>1, <2>1, AppendProperties
  <2>6. l = Append(r, pg)
    BY DEF r
  <2>. HIDE DEF l
  <2>7. l \in Seq(Lugar) /\ IsInjective(l) /\ \A x : Contains(l, x) <=> Contains(d.paginas_memoria, x)
    BY <1>7, <2>2, <2>4, <2>5, <2>6
  <2>8. /\ f \in PagEstado /\ f.procesos = e.procesos /\ f.memoria = e.memoria /\ f.swap = e.swap
        /\ f.frames_real = e.frames_real /\ f.frames_swap = e.frames_swap /\ f.caida = e.caida /\ f.paginas_memoria = l
    BY <1>3, <2>7 DEF PagEstado
  <2>. HIDE DEF f
  <2>9. SoloUso(e, f)
    BY <2>8 DEF SoloUso, MismaForma, Pagina
  <2>10. SoloUso(d, f)
    BY <1>2, <2>9, SoloUsoTransitiva
  <2>11. Sigue(d, f)
    BY <1>2, <2>7, <2>8, <2>10, SoloUsoSigue
  <2>12. EnReal(f, pg)
    BY <2>10, SoloUsoDe
  <2>. QED
    BY <1>4, <1>7, <2>8, <2>11, <2>12
<1>. QED
  BY <1>5, <1>6, <1>7

-------------------------------------------------------------------------------
\* traer_pagina
LEMMA TraerPaginaDe ==
  ASSUME config \in Configuraciones, NEW d, PagBase(d), NEW pg \in PaginasDe(d), ~Pagina(d, pg).presencia
  PROVE  LET e == TraerPagina(d, pg)
         IN e \in PagEstado /\ (e.caida \/ (Sigue(d, e) /\ EnReal(e, pg)))
<1>. DEFINE vieja == Pagina(d, pg).frame
            libre == ProximoFrame(d.frames_real, Marcos)
            P == PaginasDe(d) \ {pg}
            a == ConUso(d, pg, TRUE)
            w == d.frames_swap \ {vieja}
            e0 == [a EXCEPT !.frames_swap = @ \ {vieja}]
            e == [a EXCEPT !.frames_swap = w]
            f1 == [EnFrame(e, pg, libre, TRUE) EXCEPT
                     !.frames_real = @ \cup {libre}, !.paginas_memoria = Append(@, pg)]
            f == IF libre = -1 THEN Reemplazar(e, pg) ELSE f1
            c == Copia(d.swap, vieja)
            frame == Pagina(f, pg).frame
            m == Copiar(f.memoria, frame * TAM, c)
            g == [f EXCEPT !.memoria = m]
<1>1. /\ d \in PagEstado /\ PagParte(d, PaginasDe(d))
      /\ TAM \in Nat \ {0} /\ Marcos \in Nat /\ MarcosSwap \in Nat /\ config.tamanio \in Nat /\ config.swap \in Nat
      /\ Marcos = config.tamanio \div TAM /\ MarcosSwap = config.swap \div TAM
  BY TamDe DEF Marcos, MarcosSwap, PagBase, PagParte
<1>2. SoloUso(d, a) /\ a.frames_swap = d.frames_swap /\ a.paginas_memoria = d.paginas_memoria
  BY <1>1, ConUsoDe
<1>3. e0 = e
  BY <1>2
<1>4. TraerPagina(d, pg) = IF vieja = -1 \/ f.caida THEN Caer(d) ELSE g
  BY <1>2, <1>3 DEF TraerPagina, SoloUso
<1>5. Caer(d) \in PagEstado /\ Caer(d).caida = TRUE
  BY <1>1, CaerDe
<1>6. SUFFICES ASSUME vieja # -1, ~f.caida
               PROVE  g \in PagEstado /\ Sigue(d, g) /\ EnReal(g, pg)
  <2>. HIDE DEF f, g, vieja
  <2>. QED
    BY <1>4, <1>5
<1>7. vieja \in 0..(MarcosSwap - 1) /\ vieja \in d.frames_swap /\ ConFrame(d, pg)
  <2>1. ConFrame(d, pg)
    BY <1>6 DEF ConFrame
  <2>. QED
    BY <1>1, <2>1, FrameDe
<1>8. w \subseteq d.frames_swap /\ d.frames_swap \subseteq 0..(MarcosSwap - 1)
  BY <1>1, PagEstadoDe
<1>9. a \in PagEstado
  BY <1>2 DEF SoloUso
<1>. HIDE DEF a, w, vieja
<1>10. /\ e \in PagEstado /\ e.procesos = a.procesos /\ e.memoria = a.memoria /\ e.swap = a.swap
       /\ e.frames_real = a.frames_real /\ e.frames_swap = w /\ e.caida = a.caida /\ e.paginas_memoria = a.paginas_memoria
  <2>1. w \subseteq 0..(MarcosSwap - 1)
    BY <1>8
  <2>. QED
    BY <1>9, <2>1 DEF PagEstado
<1>. HIDE DEF e
<1>11. /\ SoloUso(d, e) /\ e.paginas_memoria = d.paginas_memoria
  <2>1. SoloUso(a, e)
    BY <1>10 DEF SoloUso, MismaForma, Pagina
  <2>. QED
    BY <1>2, <1>10, <2>1, SoloUsoTransitiva
<1>12. /\ PaginasDe(e) = PaginasDe(d) /\ e.memoria = d.memoria /\ e.swap = d.swap /\ e.frames_real = d.frames_real
       /\ \A x \in PaginasDe(d) : /\ ConFrame(e, x) = ConFrame(d, x) /\ EnReal(e, x) = EnReal(d, x)
                                  /\ \A k : Cel(e, x, k) = Cel(d, x, k)
                                  /\ Pagina(e, x).frame = Pagina(d, x).frame /\ Pagina(e, x).presencia = Pagina(d, x).presencia
  <2>1. /\ e.memoria = d.memoria /\ e.swap = d.swap /\ e.frames_real = d.frames_real
        /\ \A x \in PaginasDe(d) : Pagina(e, x).frame = Pagina(d, x).frame /\ Pagina(e, x).presencia = Pagina(d, x).presencia
    BY <1>11 DEF SoloUso
  <2>. QED
    BY <1>11, <2>1, SoloUsoDe
<1>13. Cuadros(e, P)
  <2>0. Cuadros(d, PaginasDe(d)) /\ \A x \in P : x \in PaginasDe(d) /\ x # pg
    BY <1>1 DEF PagParte
  <2>1. ASSUME NEW x \in P, ConFrame(e, x)
        PROVE  Pagina(e, x).frame \in (IF Pagina(e, x).presencia THEN e.frames_real ELSE e.frames_swap)
    <3>0. ConFrame(d, x) /\ x # pg /\ x \in PaginasDe(d) /\ Cuadros(d, PaginasDe(d))
      BY <1>12, <2>0, <2>1
    <3>1. ConFrame(d, x) /\ (~Pagina(d, x).presencia => Pagina(d, x).frame # vieja)
      <4>1. SUFFICES ASSUME ~Pagina(d, x).presencia, Pagina(d, x).frame = Pagina(d, pg).frame PROVE FALSE
        BY <3>0 DEF vieja
      <4>2. Pagina(d, x).presencia = Pagina(d, pg).presencia
        <5>1. Pagina(d, x) \in Pag /\ Pagina(d, pg) \in Pag
          BY <1>1, <3>0, PaginaDe
        <5>. QED
          BY <4>1, <5>1 DEF Pag
      <4>. QED
        BY <3>0, <4>1, <4>2 DEF Cuadros
    <3>. QED
      BY <1>10, <1>12, <2>0, <3>1 DEF Cuadros, w
  <2>2. ASSUME NEW x \in P, NEW y \in P, ConFrame(e, x), Pagina(e, x).frame = Pagina(e, y).frame,
               Pagina(e, x).presencia = Pagina(e, y).presencia
        PROVE  x = y
    BY <1>12, <2>0, <2>2 DEF Cuadros
  <2>3. ASSUME NEW q \in e.frames_real PROVE \E x \in P : Pagina(e, x).presencia /\ Pagina(e, x).frame = q
    <3>1. PICK x \in PaginasDe(d) : Pagina(d, x).presencia /\ Pagina(d, x).frame = q
      BY <1>12, <2>0 DEF Cuadros
    <3>. QED
      BY <1>12, <3>1
  <2>. QED
    BY <2>1, <2>2, <2>3 DEF Cuadros
<1>14. Lista(e, P)
  <2>1. Lista(d, PaginasDe(d))
    BY <1>1 DEF PagParte
  <2>2. ~EnReal(d, pg)
    BY DEF EnReal
  <2>. QED
    BY <1>11, <1>12, <2>1, <2>2 DEF Lista
<1>15. PagParte(e, P) /\ pg \in PaginasDe(e) /\ pg \notin P
  BY <1>10, <1>12, <1>13, <1>14 DEF PagParte
<1>16. Guarda(d, e, P)
  BY <1>12 DEF Guarda
<1>17. Traida(e, f, P, pg)
  <2>. HIDE DEF P
  <2>1. libre = -1 \/ (libre \in 0..(Marcos - 1) /\ libre \notin e.frames_real)
    BY <1>1, <1>12, ProximoFrameDe
  <2>. HIDE DEF libre
  <2>2. CASE libre = -1
    <3>1. f = Reemplazar(e, pg)
      BY <2>2
    <3>. HIDE DEF f
    <3>2. Reemplazar(e, pg).caida \/ Traida(e, Reemplazar(e, pg), P, pg)
      BY <1>15, ReemplazarDe
    <3>. QED
      BY <1>6, <3>1, <3>2
  <2>3. CASE libre # -1
    <3>1. f = f1 /\ libre \in 0..(Marcos - 1) /\ libre \notin e.frames_real
      BY <2>1, <2>3
    <3>. HIDE DEF f
    <3>2. Traida(e, f1, P, pg)
      BY <1>15, <3>1, TraerLibre
    <3>. HIDE DEF f1
    <3>. QED
      BY <3>1, <3>2
  <2>. QED
    BY <2>2, <2>3
<1>. HIDE DEF f
<1>18. P \cup {pg} = PaginasDe(d)
  OBVIOUS
<1>19. /\ PagParte(f, PaginasDe(d)) /\ MismaForma(e, f) /\ EnReal(f, pg) /\ Guarda(e, f, P) /\ f.memoria = d.memoria
       /\ f \in PagEstado
  BY <1>12, <1>17, <1>18 DEF Traida, PagParte
<1>20. frame \in 0..(Marcos - 1)
  <2>1. ConFrame(f, pg) /\ Pagina(f, pg).presencia
    BY <1>19 DEF EnReal
  <2>. QED
    BY <1>19, <2>1, FrameDe
<1>21. c \in Seq(Celdas) /\ Copiado(c, d.swap, vieja) /\ Len(c) = TAM
  <2>1. d.swap \in [0..(config.swap - 1) -> Celdas]
    BY <1>1, PagEstadoDe
  <2>2. c \in Seq(Celdas) /\ Copiado(c, d.swap, vieja)
    BY <1>1, <1>7, <2>1, CopiaDe
  <2>. QED
    BY <2>2 DEF Copiado
<1>. HIDE DEF c, frame
<1>22. m \in [0..(config.tamanio - 1) -> Celdas] /\ Escrito(f.memoria, m, TAM, Marcos, frame, c)
  <2>1. f.memoria \in [0..(config.tamanio - 1) -> Celdas] /\ Len(c) <= TAM
    BY <1>1, <1>19, <1>21, PagEstadoDe
  <2>. QED
    BY <1>1, <1>20, <1>21, <2>1, CopiarFrame
<1>. HIDE DEF m
<1>23. Anotada(f, g, PaginasDe(d), pg) /\ g.memoria = m
  <2>1. SoloFrame(f, m, Pagina(f, pg).frame)
    BY <1>22 DEF Escrito, SoloFrame, frame
  <2>. DEFINE S == PaginasDe(d)
  <2>2. pg \in S /\ PagParte(f, S) /\ EnReal(f, pg)
    BY <1>19
  <2>. HIDE DEF S, P, libre, e0, f1, g
  <2>3. Anotada(f, ConMemoria(f, m), S, pg) /\ ConMemoria(f, m).memoria = m
    BY <1>22, <2>1, <2>2, AnotarDe
  <2>. QED
    BY <2>3 DEF g, S, ConMemoria
<1>. HIDE DEF g
<1>24. PagParte(g, PaginasDe(d)) /\ MismaForma(f, g) /\ EnReal(g, pg) /\ Guarda(f, g, P) /\ g \in PagEstado
  BY <1>23 DEF Anotada, PagParte
<1>25. MismaForma(d, g)
  BY <1>11, <1>19, <1>24, FormaTransitiva DEF SoloUso
<1>26. PagBase(g)
  BY <1>24, <1>25, FormaDe DEF PagBase
<1>27. Guarda(d, g, P)
  <2>. HIDE DEF P
  <2>1. Guarda(d, f, P)
    BY <1>16, <1>19, GuardaTransitiva
  <2>. QED
    BY <1>24, <2>1, GuardaTransitiva
<1>28. \A k \in 0..(TAM - 1) : Cel(g, pg, k) = Cel(d, pg, k)
  <2>1. SUFFICES ASSUME NEW k \in 0..(TAM - 1) PROVE Cel(g, pg, k) = Cel(d, pg, k)
    OBVIOUS
  <2>2. Cel(g, pg, k) = m[frame * TAM + k]
    BY <1>23 DEF Anotada, frame
  <2>3. m[frame * TAM + k] = c[k + 1]
    <3>1. k < Len(c)
      BY <1>1, <1>21
    <3>. QED
      BY <1>20, <1>22, <3>1 DEF Escrito
  <2>4. c[k + 1] = d.swap[vieja * TAM + k]
    BY <1>21 DEF Copiado
  <2>5. Cel(d, pg, k) = d.swap[vieja * TAM + k]
    BY DEF Cel, vieja
  <2>. QED
    BY <2>2, <2>3, <2>4, <2>5
<1>29. Guarda(d, g, PaginasDe(d))
  <2>1. ConFrame(g, pg)
    BY <1>24 DEF EnReal
  <2>. QED
    BY <1>7, <1>18, <1>27, <1>28, <2>1 DEF Guarda
<1>. QED
  BY <1>24, <1>25, <1>26, <1>29 DEF Sigue

\* traer_pagina or usar_pagina: the page of the address is in the memory.
PaginaDeDir(pid, direccion) == <<pid, direccion \div TAM + 1>>

\* After traer_pagina or usar_pagina the page of the address is in the memory,
\* unless the process has died, and every page holds what it held.
LEMMA TocarDe ==
  ASSUME config \in Configuraciones, NEW d, PagBase(d), NEW pid \in DOMAIN d.procesos, NEW direccion \in Nat
  PROVE  LET e == Tocar(d, pid, direccion)
             pg == PaginaDeDir(pid, direccion)
         IN e \in PagEstado /\ (e.caida \/ (Sigue(d, e) /\ pg \in PaginasDe(d) /\ EnReal(e, pg)))
<1>. DEFINE pg == PaginaDeDir(pid, direccion)
<1>1. d \in PagEstado /\ Caer(d) \in PagEstado /\ Caer(d).caida
  BY CaerDe DEF PagBase, PagParte
<1>2. Tocar(d, pid, direccion) =
        IF d.caida \/ pg[2] > Len(d.procesos[pid].paginas) THEN Caer(d)
        ELSE IF ~Pagina(d, pg).presencia THEN TraerPagina(d, pg)
        ELSE IF Pagina(d, pg).frame = -1 THEN Caer(d)
        ELSE UsarPagina(d, pg)
  BY DEF Tocar, PaginaDeDir
<1>3. pg[2] \in Nat \ {0} /\ pg = <<pid, pg[2]>>
  <2>1. direccion \div TAM \in Nat
    BY TamDe, DivisionDe
  <2>. QED
    BY <2>1 DEF PaginaDeDir
<1>4. pg[2] <= Len(d.procesos[pid].paginas) => pg \in PaginasDe(d)
  <2>1. /\ DOMAIN d.procesos[pid].paginas = 1..Len(d.procesos[pid].paginas) /\ Len(d.procesos[pid].paginas) \in Nat
        /\ \A i \in DOMAIN d.procesos[pid].paginas : <<pid, i>> \in PaginasDe(d)
    BY <1>1, ProcesoDe
  <2>. HIDE DEF pg
  <2>. QED
    BY <1>3, <2>1
<1>5. Len(d.procesos[pid].paginas) \in Nat
  BY <1>1, ProcesoDe
<1>. HIDE DEF pg
<1>6. CASE d.caida \/ pg[2] > Len(d.procesos[pid].paginas)
  BY <1>1, <1>2, <1>6
<1>7. CASE ~(d.caida \/ pg[2] > Len(d.procesos[pid].paginas))
  <2>1. pg \in PaginasDe(d)
    BY <1>3, <1>4, <1>5, <1>7
  <2>2. CASE ~Pagina(d, pg).presencia
    <3>1. Tocar(d, pid, direccion) = TraerPagina(d, pg)
      BY <1>2, <1>7, <2>2
    <3>2. TraerPagina(d, pg) \in PagEstado /\ (TraerPagina(d, pg).caida \/ (Sigue(d, TraerPagina(d, pg)) /\ EnReal(TraerPagina(d, pg), pg)))
      BY <2>1, <2>2, TraerPaginaDe
    <3>. QED
      BY <2>1, <3>1, <3>2 DEF pg
  <2>3. CASE Pagina(d, pg).presencia /\ Pagina(d, pg).frame = -1
    BY <1>1, <1>2, <1>7, <2>3
  <2>4. CASE Pagina(d, pg).presencia /\ Pagina(d, pg).frame # -1
    <3>1. Tocar(d, pid, direccion) = UsarPagina(d, pg)
      BY <1>2, <1>7, <2>4
    <3>2. EnReal(d, pg)
      BY <2>4 DEF EnReal, ConFrame
    <3>3. UsarPagina(d, pg) \in PagEstado /\ (UsarPagina(d, pg).caida \/ (Sigue(d, UsarPagina(d, pg)) /\ EnReal(UsarPagina(d, pg), pg)))
      BY <2>1, <3>2, UsarPaginaDe
    <3>. QED
      BY <2>1, <3>1, <3>3 DEF pg
  <2>. QED
    BY <2>2, <2>3, <2>4
<1>. QED
  BY <1>6, <1>7

-------------------------------------------------------------------------------
\* What the reads and the writes of one process leave.
Despues(d) == {e \in PagEstado : e.caida \/ Sigue(d, e)}

\* A page touched after others.
LEMMA TocarDespues ==
  ASSUME config \in Configuraciones, NEW d, PagBase(d), NEW pid \in DOMAIN d.procesos, NEW direccion \in Nat,
         NEW e \in Despues(d)
  PROVE  Tocar(e, pid, direccion) \in Despues(d)
<1>1. e \in PagEstado /\ (e.caida \/ Sigue(d, e))
  BY DEF Despues
<1>2. CASE e.caida
  <2>1. Tocar(e, pid, direccion) = Caer(e)
    BY <1>2 DEF Tocar
  <2>. QED
    BY <1>1, <2>1, CaerDe DEF Despues
<1>3. CASE Sigue(d, e)
  <2>. DEFINE f == Tocar(e, pid, direccion)
  <2>1. PagBase(e) /\ pid \in DOMAIN e.procesos
    BY <1>3 DEF Sigue, MismaForma
  <2>2. f \in PagEstado /\ (f.caida \/ Sigue(e, f))
    BY <2>1, TocarDe
  <2>. HIDE DEF f
  <2>3. f.caida \/ Sigue(d, f)
    BY <1>3, <2>2, SigueTransitiva
  <2>4. f \in Despues(d)
    BY <2>2, <2>3 DEF Despues
  <2>. QED
    BY <2>4 DEF f
<1>. QED
  BY <1>1, <1>2, <1>3

\* The cells read one after the other bring their pages, and leave what the pages
\* hold.
LEMMA RecorrerDe ==
  ASSUME config \in Configuraciones, NEW d, PagBase(d), NEW pid \in DOMAIN d.procesos, NEW desde \in Nat, NEW hasta \in Int
  PROVE  Recorrer(d, pid, desde, hasta) \in Despues(d)
<1>. DEFINE p == [k \in 1..(hasta - desde + 1) |-> desde + k - 1]
            n == IF hasta - desde + 1 \in Nat THEN hasta - desde + 1 ELSE 0
            V == Despues(d)
            F == [z \in (1..n) \X V |-> Tocar(z[2], pid, p[z[1]])]
            iter == CHOOSE h : h = [s \in SUBSET DOMAIN p |->
                      IF s = {} THEN d ELSE Tocar(h[s \ {Max(s)}], pid, p[Max(s)])]
<1>1. n \in Nat /\ DOMAIN p = 1..n /\ \A k \in 1..n : p[k] \in Nat
  OBVIOUS
<1>2. d \in V
  BY SigueIgual DEF Despues, PagBase, PagParte
<1>. HIDE DEF n, p, V
<1>3. \A x \in 1..n, v \in V : F[<<x, v>>] = Tocar(v, pid, p[x])
  OBVIOUS
<1>4. \A x \in 1..n, v \in V : Tocar(v, pid, p[x]) \in V
  BY <1>1, TocarDespues DEF V
<1>. HIDE DEF F
<1>5. PICK g, r : Fila(g, r, n, V, d, F)
  <2>1. Cerrada(F, 1..n, V)
    BY <1>3, <1>4 DEF Cerrada
  <2>. QED
    BY <1>1, <1>2, <2>1, FilaRecorre
<1>6. \A s \in SUBSET (1..n) : g[s] = IF s = {} THEN d ELSE Tocar(g[s \ {Max(s)}], pid, p[Max(s)])
  BY <1>3, <1>5 DEF Fila
<1>7. g = [s \in SUBSET DOMAIN p |-> IF s = {} THEN d ELSE Tocar(g[s \ {Max(s)}], pid, p[Max(s)])]
  BY <1>1, <1>5, <1>6 DEF Fila
<1>8. iter = [s \in SUBSET DOMAIN p |-> IF s = {} THEN d ELSE Tocar(iter[s \ {Max(s)}], pid, p[Max(s)])]
  BY <1>7
<1>9. Recorrer(d, pid, desde, hasta) = iter[DOMAIN p]
  BY DEF Recorrer, FoldLeft, MapThenFoldSet, p
<1>. HIDE DEF iter
<1>10. \A s \in SUBSET DOMAIN p : iter[s] = IF s = {} THEN d ELSE Tocar(iter[s \ {Max(s)}], pid, p[Max(s)])
  BY <1>8, Zenon
<1>11. \A s \in SUBSET (1..n) : iter[s] = g[s]
  <2>. DEFINE Q == {s \in SUBSET (1..n) : iter[s] = g[s]}
  <2>1. {} \in Q
    BY <1>1, <1>6, <1>10
  <2>2. \A s \in SUBSET (1..n) : s # {} /\ s \ {Max(s)} \in Q => s \in Q
    BY <1>1, <1>6, <1>10
  <2>. HIDE DEF Q
  <2>3. \A s \in SUBSET (1..n) : s \in Q
    BY <1>1, <2>1, <2>2, InduccionFila
  <2>. QED
    BY <2>3 DEF Q
<1>12. iter[DOMAIN p] \in V
  BY <1>1, <1>5, <1>11 DEF Fila
<1>. QED
  BY <1>9, <1>12 DEF V

\* Where the cell of an address is.
LEMMA LeidaDe ==
  ASSUME config \in Configuraciones, NEW d, NEW pid, NEW a \in Nat
  PROVE  Leida(d, pid, a) = Cel(d, PaginaDeDir(pid, a), a % TAM) /\ a % TAM \in 0..(TAM - 1)
<1>1. a % TAM \in 0..(TAM - 1)
  BY TamDe, DivisionDe
<1>. QED
  BY <1>1 DEF Leida, Cel, Real, PaginaDeDir

\* Two addresses of a process are in different cells.
LEMMA DireccionesDistintas ==
  ASSUME config \in Configuraciones, NEW pid, NEW q, NEW a \in Nat, NEW b \in Nat,
         PaginaDeDir(pid, a) = PaginaDeDir(q, b), a % TAM = b % TAM
  PROVE  pid = q /\ a = b
<1>. DEFINE u == a \div TAM
            v == b \div TAM
<1>1. TAM \in Nat \ {0} /\ u \in Nat /\ v \in Nat /\ a = u * TAM + (a % TAM) /\ b = v * TAM + (b % TAM)
  BY TamDe, DivisionDe
<1>2. pid = q /\ u + 1 = v + 1
  BY DEF PaginaDeDir
<1>. HIDE DEF u, v
<1>3. u = v
  BY <1>1, <1>2
<1>. QED
  BY <1>1, <1>2, <1>3

\* A step that changes one cell, and no other of the pages that have a frame.
Escribe(d, e, pid, a, celda) ==
  /\ PagBase(e) /\ MismaForma(d, e)
  /\ \A x \in PaginasDe(d) : ConFrame(e, x) <=> ConFrame(d, x)
  /\ Leida(e, pid, a) = celda
  /\ \A q \in DOMAIN d.procesos, b \in Nat :
       /\ PaginaDeDir(q, b) \in PaginasDe(d) /\ ConFrame(d, PaginaDeDir(q, b))
       /\ ~(q = pid /\ b = a)
       => Leida(e, q, b) = Leida(d, q, b)

\* editar_proceso
LEMMA EditarDe ==
  ASSUME config \in Configuraciones, NEW d, PagBase(d), NEW pid \in DOMAIN d.procesos, NEW a \in Nat, NEW celda \in Celdas
  PROVE  LET n == Editar(d, pid, a, celda)
         IN n \in PagEstado /\ (n.caida \/ Escribe(d, n, pid, a, celda))
<1>. DEFINE e == Tocar(d, pid, a)
            pg == PaginaDeDir(pid, a)
            frame == Pagina(e, pg).frame
            k == a % TAM
            m == [e.memoria EXCEPT ![frame * TAM + k] = celda]
            n == ConMemoria(e, m)
<1>1. e \in PagEstado /\ (e.caida \/ (Sigue(d, e) /\ pg \in PaginasDe(d) /\ EnReal(e, pg)))
  BY TocarDe
<1>2. Editar(d, pid, a, celda) = IF e.caida THEN e ELSE n
  <2>1. Real(e, pid, a) = frame * TAM + k
    BY DEF Real, PaginaDeDir
  <2>. QED
    BY <2>1 DEF Editar, ConMemoria
<1>. HIDE DEF e
<1>3. CASE e.caida
  BY <1>1, <1>2, <1>3
<1>4. CASE ~e.caida
  <2>1. Sigue(d, e) /\ pg \in PaginasDe(d) /\ EnReal(e, pg) /\ PaginasDe(e) = PaginasDe(d)
    BY <1>1, <1>4, FormaDe DEF Sigue
  <2>2. /\ TAM \in Nat \ {0} /\ config.tamanio \in Nat /\ Marcos = config.tamanio \div TAM /\ k \in 0..(TAM - 1)
        /\ e.memoria \in [0..(config.tamanio - 1) -> Celdas]
    BY <1>1, TamDe, DivisionDe, PagEstadoDe DEF Marcos
  <2>3. PagParte(e, PaginasDe(d)) /\ frame \in 0..(Marcos - 1)
    <3>1. PagParte(e, PaginasDe(d))
      BY <2>1 DEF Sigue, PagBase
    <3>2. Pagina(e, pg).presencia /\ ConFrame(e, pg)
      BY <2>1 DEF EnReal
    <3>. QED
      BY <2>1, <3>1, <3>2, FrameDe
  <2>. HIDE DEF frame, k, pg
  <2>4. frame * TAM + k \in 0..(config.tamanio - 1)
    <3>1. frame \in 0..((config.tamanio \div TAM) - 1)
      BY <2>2, <2>3
    <3>. QED
      BY <2>2, <3>1, CeldaDentro
  <2>5. m \in [0..(config.tamanio - 1) -> Celdas] /\ m[frame * TAM + k] = celda
    BY <2>2, <2>4
  <2>6. ASSUME NEW q \in 0..(Marcos - 1), NEW j \in 0..(TAM - 1), ~(q = frame /\ j = k)
        PROVE  m[q * TAM + j] = e.memoria[q * TAM + j]
    <3>1. q \in Nat /\ frame \in Nat
      BY <2>3
    <3>2. q * TAM + j # frame * TAM + k
      BY <2>2, <2>6, <3>1, CeldasDistintas
    <3>3. q * TAM + j \in 0..(config.tamanio - 1)
      <4>1. q \in 0..((config.tamanio \div TAM) - 1)
        BY <2>2
      <4>. QED
        BY <2>2, <4>1, CeldaDentro
    <3>. QED
      BY <2>2, <3>2, <3>3
  <2>. HIDE DEF m
  <2>7. SoloFrame(e, m, Pagina(e, pg).frame)
    BY <2>6 DEF SoloFrame, frame
  <2>8. Anotada(e, n, PaginasDe(d), pg) /\ n.memoria = m /\ n.caida = e.caida
    <3>. DEFINE S == PaginasDe(d)
    <3>1. PagParte(e, S) /\ pg \in S
      BY <2>1, <2>3
    <3>. HIDE DEF S, n
    <3>2. Anotada(e, ConMemoria(e, m), S, pg) /\ ConMemoria(e, m).memoria = m /\ ConMemoria(e, m).caida = e.caida
      BY <2>1, <2>5, <2>7, <3>1, AnotarDe
    <3>. QED
      BY <3>2 DEF S, n
  <2>. HIDE DEF n
  <2>9. /\ PagParte(n, PaginasDe(d)) /\ MismaForma(e, n) /\ Guarda(e, n, PaginasDe(d) \ {pg}) /\ EnReal(n, pg)
        /\ \A j \in 0..(TAM - 1) : Cel(n, pg, j) = m[frame * TAM + j]
    BY <2>8 DEF Anotada, frame
  <2>10. MismaForma(d, n) /\ PagBase(n) /\ n \in PagEstado
    <3>1. MismaForma(d, n)
      BY <2>1, <2>9, FormaTransitiva DEF Sigue
    <3>. QED
      BY <2>9, <3>1, FormaDe DEF PagBase, PagParte
  <2>11. /\ Guarda(d, e, PaginasDe(d)) /\ ConFrame(e, pg) /\ ConFrame(n, pg) /\ Pagina(e, pg).presencia
    BY <2>1, <2>9 DEF Sigue, EnReal
  <2>12. \A x \in PaginasDe(d) : ConFrame(n, x) <=> ConFrame(d, x)
    BY <2>9, <2>11 DEF Guarda
  <2>13. ASSUME NEW x \in PaginasDe(d), ConFrame(d, x), NEW j \in 0..(TAM - 1), ~(x = pg /\ j = k)
         PROVE  Cel(n, x, j) = Cel(d, x, j)
    <3>1. Cel(e, x, j) = Cel(d, x, j) /\ ConFrame(e, x)
      BY <2>11, <2>13 DEF Guarda
    <3>2. CASE x # pg
      BY <2>9, <3>1, <3>2 DEF Guarda
    <3>3. CASE x = pg
      <4>1. Cel(n, x, j) = m[frame * TAM + j]
        BY <2>9, <3>3
      <4>2. m[frame * TAM + j] = e.memoria[frame * TAM + j]
        BY <2>3, <2>6, <2>13, <3>3
      <4>3. Cel(e, x, j) = e.memoria[frame * TAM + j]
        BY <2>11, <3>3 DEF Cel, frame
      <4>. QED
        BY <3>1, <4>1, <4>2, <4>3
    <3>. QED
      BY <3>2, <3>3
  <2>14. Leida(n, pid, a) = celda
    <3>1. Leida(n, pid, a) = Cel(n, pg, k)
      BY LeidaDe DEF pg, k
    <3>. QED
      BY <2>2, <2>5, <2>9, <3>1
  <2>15. ASSUME NEW q \in DOMAIN d.procesos, NEW b \in Nat, PaginaDeDir(q, b) \in PaginasDe(d),
                ConFrame(d, PaginaDeDir(q, b)), ~(q = pid /\ b = a)
         PROVE  Leida(n, q, b) = Leida(d, q, b)
    <3>. DEFINE x == PaginaDeDir(q, b)
                j == b % TAM
    <3>1. Leida(n, q, b) = Cel(n, x, j) /\ Leida(d, q, b) = Cel(d, x, j) /\ j \in 0..(TAM - 1)
      BY LeidaDe
    <3>2. ~(x = pg /\ j = k)
      BY <2>15, DireccionesDistintas DEF pg, k
    <3>3. x \in PaginasDe(d) /\ ConFrame(d, x)
      BY <2>15
    <3>. HIDE DEF x, j
    <3>. QED
      BY <2>13, <3>1, <3>2, <3>3
  <2>16. Escribe(d, n, pid, a, celda)
    BY <2>10, <2>12, <2>14, <2>15 DEF Escribe
  <2>. QED
    BY <1>2, <1>4, <2>10, <2>16
<1>. QED
  BY <1>3, <1>4

-------------------------------------------------------------------------------
\* A page more at the end of the table of a process.
ConUnaMas(d, pid, q) == [d EXCEPT !.procesos[pid].paginas = Append(@, q)]
Siguiente(d, pid) == <<pid, Len(d.procesos[pid].paginas) + 1>>
UnaMas(d, e, pid) ==
  /\ DOMAIN e.procesos = DOMAIN d.procesos
  /\ \A p \in DOMAIN d.procesos :
       /\ e.procesos[p].tamanio = d.procesos[p].tamanio /\ e.procesos[p].tcbs = d.procesos[p].tcbs
       /\ p # pid => DOMAIN e.procesos[p].paginas = DOMAIN d.procesos[p].paginas
  /\ Len(e.procesos[pid].paginas) = Len(d.procesos[pid].paginas) + 1
  /\ PaginasDe(e) = PaginasDe(d) \cup {Siguiente(d, pid)} /\ Siguiente(d, pid) \notin PaginasDe(d)

\* A page more at the end of the table of its process; the others stay.
LEMMA UnaMasDe ==
  ASSUME NEW d \in PagEstado, NEW pid \in DOMAIN d.procesos, NEW q \in Pag
  PROVE  LET e == ConUnaMas(d, pid, q)
         IN /\ e \in PagEstado /\ UnaMas(d, e, pid)
            /\ e.memoria = d.memoria /\ e.swap = d.swap /\ e.frames_real = d.frames_real
            /\ e.frames_swap = d.frames_swap /\ e.paginas_memoria = d.paginas_memoria
            /\ e.caida = d.caida
            /\ Pagina(e, Siguiente(d, pid)) = q /\ \A y \in PaginasDe(d) : Pagina(e, y) = Pagina(d, y)
<1>. DEFINE l == d.procesos[pid].paginas
            s == Append(l, q)
            n == Len(l)
            r == [d.procesos[pid] EXCEPT !.paginas = s]
            f == [d.procesos EXCEPT ![pid] = r]
            e == [d EXCEPT !.procesos = f]
            x == Siguiente(d, pid)
<1>1. /\ d.procesos[pid] \in Proceso /\ l \in Seq(Pag)
      /\ d.procesos \in [DOMAIN d.procesos -> Proceso] /\ DOMAIN d.procesos \subseteq Pids
      /\ n \in Nat /\ DOMAIN l = 1..n
  BY ProcesoDe, PagEstadoDe
<1>2. ConUnaMas(d, pid, q) = e
  BY DEF ConUnaMas
<1>3. s \in Seq(Pag) /\ Len(s) = n + 1 /\ DOMAIN s = 1..(n + 1) /\ s[n + 1] = q /\ \A j \in 1..n : s[j] = l[j]
  <2>. HIDE DEF l
  <2>1. s \in Seq(Pag) /\ Len(s) = Len(l) + 1 /\ s[Len(l) + 1] = q /\ \A j \in 1..Len(l) : s[j] = l[j]
    BY <1>1, AppendProperties
  <2>. QED
    BY <2>1, LenProperties
<1>4. x = <<pid, n + 1>>
  BY DEF Siguiente
<1>. HIDE DEF s, x, n
<1>5. r \in Proceso /\ r.paginas = s /\ r.tamanio = d.procesos[pid].tamanio /\ r.tcbs = d.procesos[pid].tcbs
  BY <1>1, <1>3 DEF Proceso
<1>. HIDE DEF r
<1>6. /\ f \in [DOMAIN d.procesos -> Proceso] /\ DOMAIN f = DOMAIN d.procesos
      /\ \A u \in DOMAIN d.procesos : f[u] = IF u = pid THEN r ELSE d.procesos[u]
  BY <1>1, <1>5
<1>. HIDE DEF f
<1>7. f \in UNION {[D -> Proceso] : D \in SUBSET Pids}
  BY <1>1, <1>6
<1>8. /\ e \in PagEstado /\ e.procesos = f
      /\ e.memoria = d.memoria /\ e.swap = d.swap /\ e.frames_real = d.frames_real
      /\ e.frames_swap = d.frames_swap /\ e.paginas_memoria = d.paginas_memoria /\ e.caida = d.caida
  BY <1>7 DEF PagEstado
<1>. HIDE DEF e
<1>9. \A u \in DOMAIN d.procesos : u # pid => e.procesos[u] = d.procesos[u]
  BY <1>6, <1>8
<1>10. e.procesos[pid] = r /\ e.procesos[pid].paginas = s /\ DOMAIN e.procesos = DOMAIN d.procesos
  BY <1>5, <1>6, <1>8
<1>11. \A y : y \in PaginasDe(e) <=> y \in PaginasDe(d) \/ y = x
  <2>1. SUFFICES ASSUME NEW y PROVE y \in PaginasDe(e) <=> y \in PaginasDe(d) \/ y = x
    OBVIOUS
  <2>2. y \in PaginasDe(e) <=> \E p \in DOMAIN d.procesos : y \in {p} \X DOMAIN e.procesos[p].paginas
    BY <1>10 DEF PaginasDe
  <2>3. y \in PaginasDe(d) <=> \E p \in DOMAIN d.procesos : y \in {p} \X DOMAIN d.procesos[p].paginas
    BY DEF PaginasDe
  <2>4. ASSUME NEW p \in DOMAIN d.procesos
        PROVE  y \in {p} \X DOMAIN e.procesos[p].paginas <=> y \in {p} \X DOMAIN d.procesos[p].paginas \/ (p = pid /\ y = x)
    <3>1. CASE p # pid
      BY <1>9, <3>1
    <3>2. CASE p = pid
      <4>1. \A i : i \in DOMAIN s <=> i \in DOMAIN l \/ i = n + 1
        BY <1>1, <1>3
      <4>2. e.procesos[p].paginas = s /\ d.procesos[p].paginas = l
        BY <1>10, <3>2
      <4>. HIDE DEF l
      <4>3. \A D : y \in {pid} \X D <=> \E i \in D : y = <<pid, i>>
        OBVIOUS
      <4>. QED
        BY <1>4, <3>2, <4>1, <4>2, <4>3
    <3>. QED
      BY <3>1, <3>2
  <2>. QED
    BY <2>2, <2>3, <2>4
<1>12. x \notin PaginasDe(d)
  <2>1. SUFFICES ASSUME x \in PaginasDe(d) PROVE FALSE
    OBVIOUS
  <2>2. x[2] \in DOMAIN d.procesos[x[1]].paginas
    BY <2>1, PaginaDe
  <2>. QED
    BY <1>1, <1>4, <2>2
<1>13. UnaMas(d, e, pid)
  <2>1. PaginasDe(e) = PaginasDe(d) \cup {x}
    BY <1>11
  <2>2. Len(e.procesos[pid].paginas) = n + 1
    BY <1>3, <1>10
  <2>. QED
    BY <1>5, <1>9, <1>10, <1>12, <2>1, <2>2 DEF UnaMas, x, n
<1>14. Pagina(e, x) = q
  BY <1>3, <1>4, <1>10 DEF Pagina
<1>15. ASSUME NEW y \in PaginasDe(d) PROVE Pagina(e, y) = Pagina(d, y)
  <2>1. y[1] \in DOMAIN d.procesos /\ y[2] \in DOMAIN d.procesos[y[1]].paginas
    BY PaginaDe
  <2>2. CASE y[1] # pid
    BY <1>9, <2>1, <2>2 DEF Pagina
  <2>3. CASE y[1] = pid
    BY <1>1, <1>3, <1>10, <2>1, <2>3 DEF Pagina
  <2>. QED
    BY <2>2, <2>3
<1>. QED
  BY <1>2, <1>8, <1>13, <1>14, <1>15 DEF x

\* What guardar_paginas leaves after one page more.
Agregada(d, n, pid, trozo) ==
  /\ PagBase(n) /\ UnaMas(d, n, pid) /\ Guarda(d, n, PaginasDe(d))
  /\ ConFrame(n, Siguiente(d, pid)) /\ \A k \in 0..(Len(trozo) - 1) : Cel(n, Siguiente(d, pid), k) = trozo[k + 1]

\* A page more, and then a step that keeps the form.
LEMMA UnaMasForma ==
  ASSUME NEW d, NEW e \in PagEstado, NEW f, NEW pid \in DOMAIN d.procesos, f \in PagEstado, UnaMas(d, e, pid), MismaForma(e, f)
  PROVE  UnaMas(d, f, pid) /\ PaginasDe(f) = PaginasDe(e)
<1>1. PaginasDe(f) = PaginasDe(e)
  BY FormaDe
<1>2. pid \in DOMAIN e.procesos /\ pid \in DOMAIN f.procesos /\ DOMAIN f.procesos[pid].paginas = DOMAIN e.procesos[pid].paginas
  BY DEF UnaMas, MismaForma
<1>3. Len(f.procesos[pid].paginas) = Len(e.procesos[pid].paginas)
  <2>. DEFINE a == f.procesos[pid].paginas
              b == e.procesos[pid].paginas
  <2>1. a \in Seq(Pag) /\ b \in Seq(Pag) /\ DOMAIN a = DOMAIN b
    BY <1>2, ProcesoDe
  <2>. HIDE DEF a, b
  <2>2. Len(a) \in Nat /\ Len(b) \in Nat /\ 1..Len(a) = 1..Len(b)
    BY <2>1, LenProperties
  <2>3. Len(a) = Len(b)
    BY <2>2
  <2>. QED
    BY <2>3 DEF a, b
<1>. QED
  BY <1>1, <1>3 DEF UnaMas, MismaForma

ConReal(e, frame) == [e EXCEPT !.frames_real = @ \cup {frame}]

\* The frame of the new page, that is in use from now on.
LEMMA MarcarDe ==
  ASSUME config \in Configuraciones, NEW e, NEW P, PagParte(e, P), NEW x \in PaginasDe(e), x \notin P,
         NEW frame \in 0..(Marcos - 1), frame \notin e.frames_real,
         Pagina(e, x).frame = frame, Pagina(e, x).presencia = TRUE
  PROVE  LET h == ConReal(e, frame)
         IN PagParte(h, P \cup {x}) /\ MismaForma(e, h) /\ EnReal(h, x) /\ Guarda(e, h, P) /\ h.memoria = e.memoria
<1>. DEFINE r == e.frames_real \cup {frame}
            h == [e EXCEPT !.frames_real = r]
            h0 == ConReal(e, frame)
<1>1. e \in PagEstado /\ r \subseteq 0..(Marcos - 1) /\ frame # -1
  <2>1. e \in PagEstado
    BY DEF PagParte
  <2>2. e.frames_real \subseteq 0..(Marcos - 1)
    BY <2>1, PagEstadoDe
  <2>. QED
    BY <2>1, <2>2, TamDe
<1>. HIDE DEF r
<1>2. /\ h \in PagEstado /\ h.memoria = e.memoria /\ h.swap = e.swap /\ h.frames_real = r
      /\ h.frames_swap = e.frames_swap /\ h.paginas_memoria = e.paginas_memoria /\ h.procesos = e.procesos
  BY <1>1 DEF PagEstado
<1>3. h0 = h
  BY DEF r, ConReal
<1>. HIDE DEF h
<1>4. \A y : Pagina(h, y) = Pagina(e, y)
  BY <1>2 DEF Pagina
<1>5. \A y : ConFrame(h, y) = ConFrame(e, y) /\ EnReal(h, y) = EnReal(e, y)
  BY <1>4 DEF ConFrame, EnReal
<1>6. MismaForma(e, h) /\ PaginasDe(h) = PaginasDe(e)
  BY <1>2 DEF MismaForma, PaginasDe
<1>7. P \subseteq PaginasDe(e) /\ Cuadros(e, P) /\ Lista(e, P)
  BY DEF PagParte
<1>8. Cuadros(h, P \cup {x})
  <2>1. ASSUME NEW y \in P \cup {x}, ConFrame(h, y)
        PROVE  Pagina(h, y).frame \in (IF Pagina(h, y).presencia THEN h.frames_real ELSE h.frames_swap)
    BY <1>2, <1>4, <1>5, <1>7, <2>1 DEF Cuadros, r
  <2>2. ASSUME NEW y \in P \cup {x}, NEW z \in P \cup {x}, ConFrame(h, y), Pagina(h, y).frame = Pagina(h, z).frame,
               Pagina(h, y).presencia = Pagina(h, z).presencia, y # z
        PROVE  FALSE
    <3>1. \A w \in P : ~(Pagina(e, w).frame = frame /\ Pagina(e, w).presencia)
      BY <1>1, <1>7 DEF Cuadros, ConFrame
    <3>. QED
      BY <1>4, <1>5, <1>7, <2>2, <3>1 DEF Cuadros
  <2>3. ASSUME NEW g \in h.frames_real PROVE \E y \in P \cup {x} : Pagina(h, y).presencia /\ Pagina(h, y).frame = g
    BY <1>2, <1>4, <1>7, <2>3 DEF r, Cuadros
  <2>. QED
    BY <2>1, <2>2, <2>3 DEF Cuadros
<1>9. Lista(h, P \cup {x})
  BY <1>2, <1>5, <1>7 DEF Lista
<1>10. PagParte(h, P \cup {x})
  BY <1>2, <1>6, <1>7, <1>8, <1>9 DEF PagParte
<1>11. EnReal(h, x)
  BY <1>1, <1>4 DEF EnReal, ConFrame
<1>12. Guarda(e, h, P)
  BY <1>2, <1>4, <1>5 DEF Guarda, Cel
<1>13. PagParte(h0, P \cup {x}) /\ MismaForma(e, h0) /\ EnReal(h0, x) /\ Guarda(e, h0, P) /\ h0.memoria = e.memoria
  <2>. HIDE DEF h0
  <2>. QED
    BY <1>2, <1>3, <1>6, <1>10, <1>11, <1>12
<1>. QED
  BY <1>13

-------------------------------------------------------------------------------
\* One turn of guardar_paginas.
LEMMA GuardarPaginaDe ==
  ASSUME config \in Configuraciones, NEW d, PagBase(d), NEW pid \in DOMAIN d.procesos, NEW trozo \in Seq(Celdas), Len(trozo) <= TAM
  PROVE  LET n == GuardarPagina(d, pid, trozo)
         IN n \in PagEstado /\ (n.caida \/ Agregada(d, n, pid, trozo))
<1>. DEFINE libre == ProximoFrame(d.frames_real, Marcos)
            q == [frame |-> libre, presencia |-> TRUE, uso |-> TRUE]
            P == PaginasDe(d)
            x == Siguiente(d, pid)
            e == ConUnaMas(d, pid, q)
            f == IF libre = -1 THEN Reemplazar(e, x) ELSE e
            frame == Pagina(f, x).frame
            m == Copiar(f.memoria, frame * TAM, trozo)
            h == [f EXCEPT !.frames_real = @ \cup {frame}]
            n == ConMemoria(h, m)
            n0 == [f EXCEPT !.memoria = Copiar(@, frame * TAM, trozo), !.frames_real = @ \cup {frame}]
<1>1. /\ d \in PagEstado /\ PagParte(d, P) /\ Caer(d) \in PagEstado /\ Caer(d).caida
      /\ TAM \in Nat \ {0} /\ Marcos \in Nat /\ config.tamanio \in Nat /\ Marcos = config.tamanio \div TAM
  <2>1. d \in PagEstado /\ PagParte(d, P)
    BY DEF PagBase, PagParte
  <2>. QED
    BY <2>1, CaerDe, TamDe DEF Marcos
<1>2. libre = -1 \/ (libre \in 0..(Marcos - 1) /\ libre \notin d.frames_real)
  BY <1>1, ProximoFrameDe
<1>. HIDE DEF libre
<1>3. q \in Pag /\ q.frame = libre /\ q.presencia = TRUE
  BY <1>1, <1>2 DEF Pag
<1>. HIDE DEF q
<1>4. /\ e \in PagEstado /\ UnaMas(d, e, pid)
      /\ e.memoria = d.memoria /\ e.swap = d.swap /\ e.frames_real = d.frames_real
      /\ e.frames_swap = d.frames_swap /\ e.paginas_memoria = d.paginas_memoria
      /\ e.caida = d.caida
      /\ Pagina(e, x) = q /\ \A y \in P : Pagina(e, y) = Pagina(d, y)
  <2>. HIDE DEF P, x, e
  <2>1. /\ e \in PagEstado /\ UnaMas(d, e, pid)
        /\ e.memoria = d.memoria /\ e.swap = d.swap /\ e.frames_real = d.frames_real
        /\ e.frames_swap = d.frames_swap /\ e.paginas_memoria = d.paginas_memoria
        /\ e.caida = d.caida
        /\ Pagina(e, Siguiente(d, pid)) = q /\ \A y \in PaginasDe(d) : Pagina(e, y) = Pagina(d, y)
    BY <1>1, <1>3, UnaMasDe DEF e
  <2>. QED
    BY <2>1 DEF P, x
<1>5. x = <<pid, Len(e.procesos[pid].paginas)>>
  BY <1>4 DEF UnaMas, Siguiente
<1>6. GuardarPagina(d, pid, trozo) = IF d.caida \/ f.caida THEN Caer(d) ELSE n
  <2>1. GuardarPagina(d, pid, trozo) = IF d.caida \/ f.caida THEN Caer(d) ELSE n0
    <3>. DEFINE ee == [d EXCEPT !.procesos[pid].paginas = Append(@, [frame |-> libre, presencia |-> TRUE, uso |-> TRUE])]
                pg == <<pid, Len(ee.procesos[pid].paginas)>>
                ff == IF libre = -1 THEN Reemplazar(ee, pg) ELSE ee
                cc == Pagina(ff, pg).frame
                nn == [ff EXCEPT !.memoria = Copiar(@, cc * TAM, trozo), !.frames_real = @ \cup {cc}]
    <3>1. ee = e
      BY DEF ConUnaMas, q
    <3>2. GuardarPagina(d, pid, trozo) = IF d.caida \/ ff.caida THEN Caer(d) ELSE nn
      BY DEF GuardarPagina, libre
    <3>. HIDE DEF ee, x, e
    <3>3. pg = x
      BY <1>5, <3>1
    <3>. HIDE DEF pg
    <3>4. ff = f
      BY <3>1, <3>3
    <3>. HIDE DEF ff, f
    <3>5. cc = frame
      BY <3>3, <3>4
    <3>. HIDE DEF cc, frame
    <3>6. nn = n0
      BY <3>4, <3>5
    <3>. QED
      BY <3>2, <3>4, <3>6
  <2>2. f \in PagEstado => n0 = n
    <3>. HIDE DEF f, frame
    <3>1. SUFFICES ASSUME f \in PagEstado PROVE n0 = n
      OBVIOUS
    <3>. QED
      BY <3>1 DEF ConMemoria, PagEstado
  <2>3. f \in PagEstado
    <3>1. CASE libre = -1
      <4>1. PagParte(e, P) /\ x \in PaginasDe(e) /\ x \notin P
        <5>. HIDE DEF e, x
        <5>1. PaginasDe(e) = P \cup {x} /\ x \notin P
          BY <1>4 DEF UnaMas, x
        <5>2. \A y \in P : ConFrame(e, y) = ConFrame(d, y) /\ EnReal(e, y) = EnReal(d, y)
          BY <1>4 DEF ConFrame, EnReal
        <5>3. Cuadros(e, P)
          BY <1>1, <1>4, <5>2 DEF PagParte, Cuadros
        <5>4. Lista(e, P)
          BY <1>1, <1>4, <5>2 DEF PagParte, Lista
        <5>. QED
          BY <1>4, <5>1, <5>3, <5>4 DEF PagParte
      <4>. HIDE DEF e, x, P
      <4>2. Reemplazar(e, x) \in PagEstado
        BY <4>1, ReemplazarDe
      <4>. QED
        BY <3>1, <4>2
    <3>2. CASE libre # -1
      <4>1. f = e
        BY <3>2
      <4>. HIDE DEF f, e
      <4>. QED
        BY <1>4, <4>1
    <3>. QED
      BY <3>1, <3>2
  <2>. QED
    BY <2>1, <2>2, <2>3
<1>. HIDE DEF e
<1>7. PagParte(e, P) /\ x \in PaginasDe(e) /\ x \notin P /\ PaginasDe(e) = P \cup {x} /\ Guarda(d, e, P)
  <2>. HIDE DEF x
  <2>1. PaginasDe(e) = P \cup {x} /\ x \notin P
    BY <1>4 DEF UnaMas, x
  <2>2. \A y \in P : ConFrame(e, y) = ConFrame(d, y) /\ EnReal(e, y) = EnReal(d, y)
    BY <1>4 DEF ConFrame, EnReal
  <2>3. Cuadros(e, P)
    BY <1>1, <1>4, <2>2 DEF PagParte, Cuadros
  <2>4. Lista(e, P)
    BY <1>1, <1>4, <2>2 DEF PagParte, Lista
  <2>5. Guarda(d, e, P)
    BY <1>4, <2>2 DEF Guarda, Cel
  <2>. QED
    BY <1>4, <2>1, <2>3, <2>4, <2>5 DEF PagParte
<1>. HIDE DEF x, P
<1>8. SUFFICES ASSUME ~d.caida, ~f.caida PROVE n \in PagEstado /\ Agregada(d, n, pid, trozo)
  <2>. HIDE DEF f, n
  <2>. QED
    BY <1>1, <1>6
<1>9. /\ PagParte(h, P \cup {x}) /\ MismaForma(e, h) /\ EnReal(h, x) /\ Guarda(e, h, P) /\ h.memoria = f.memoria
      /\ frame = Pagina(h, x).frame
  <2>1. CASE libre = -1
    <3>1. f = Reemplazar(e, x)
      BY <2>1
    <3>. HIDE DEF f, n
    <3>2. Reemplazar(e, x) \in PagEstado /\ (Reemplazar(e, x).caida \/ Traida(e, Reemplazar(e, x), P, x))
      BY <1>7, ReemplazarDe
    <3>3. f \in PagEstado /\ Traida(e, f, P, x)
      BY <1>8, <3>1, <3>2
    <3>4. PagParte(f, P \cup {x}) /\ MismaForma(e, f) /\ EnReal(f, x) /\ Guarda(e, f, P)
      BY <3>3 DEF Traida
    <3>5. frame \in f.frames_real
      <4>1. ConFrame(f, x) /\ Pagina(f, x).presencia /\ x \in P \cup {x}
        BY <3>4 DEF EnReal
      <4>. QED
        BY <3>4, <4>1, FrameDe
    <3>. HIDE DEF frame
    <3>6. h = f
      <4>1. f.frames_real \cup {frame} = f.frames_real
        BY <3>5
      <4>2. h = [f EXCEPT !.frames_real = f.frames_real]
        BY <4>1
      <4>3. [f EXCEPT !.frames_real = f.frames_real] = f
        BY <3>3 DEF PagEstado
      <4>. QED
        BY <4>2, <4>3
    <3>. HIDE DEF h
    <3>. QED
      BY <3>4, <3>6 DEF frame
  <2>2. CASE libre # -1
    <3>1. f = e /\ libre \in 0..(Marcos - 1) /\ libre \notin e.frames_real
      BY <1>2, <1>4, <2>2
    <3>2. frame = libre /\ Pagina(e, x).frame = libre /\ Pagina(e, x).presencia = TRUE
      <4>. HIDE DEF f
      <4>. QED
        BY <1>3, <1>4, <3>1
    <3>. DEFINE hh == ConReal(e, libre)
    <3>3. PagParte(hh, P \cup {x}) /\ MismaForma(e, hh) /\ EnReal(hh, x) /\ Guarda(e, hh, P) /\ hh.memoria = e.memoria
      <4>. HIDE DEF f, hh, h, n, n0
      <4>1. PagParte(e, P) /\ x \in PaginasDe(e) /\ x \notin P
        BY <1>7
      <4>2. PagParte(ConReal(e, libre), P \cup {x}) /\ MismaForma(e, ConReal(e, libre)) /\ EnReal(ConReal(e, libre), x)
            /\ Guarda(e, ConReal(e, libre), P) /\ ConReal(e, libre).memoria = e.memoria
        BY <3>1, <3>2, <4>1, MarcarDe
      <4>. QED
        BY <4>2 DEF hh
    <3>4. Pagina(hh, x) = Pagina(e, x)
      BY <1>4 DEF Pagina, PagEstado, ConReal
    <3>. HIDE DEF f, frame, n
    <3>5. h = hh
      BY <3>1, <3>2 DEF ConReal
    <3>. HIDE DEF h, hh
    <3>. QED
      BY <3>1, <3>2, <3>3, <3>4, <3>5
  <2>. QED
    BY <2>1, <2>2
<1>. HIDE DEF f, h
<1>10. frame \in 0..(Marcos - 1) /\ h.memoria \in [0..(config.tamanio - 1) -> Celdas] /\ h \in PagEstado
  <2>0. h \in PagEstado
    BY <1>9 DEF PagParte
  <2>1. ConFrame(h, x) /\ Pagina(h, x).presencia /\ x \in P \cup {x}
    BY <1>9 DEF EnReal
  <2>2. Pagina(h, x).frame \in 0..(Marcos - 1)
    BY <1>9, <2>1, FrameDe
  <2>. HIDE DEF frame
  <2>. QED
    BY <1>9, <2>0, <2>2, PagEstadoDe
<1>. HIDE DEF frame
<1>11. m \in [0..(config.tamanio - 1) -> Celdas] /\ Escrito(h.memoria, m, TAM, Marcos, frame, trozo)
  <2>1. m = Copiar(h.memoria, frame * TAM, trozo)
    BY <1>9
  <2>. HIDE DEF m
  <2>. QED
    BY <1>1, <1>10, <2>1, CopiarFrame
<1>. HIDE DEF m
<1>12. Anotada(h, n, P \cup {x}, x) /\ n.memoria = m
  <2>1. SoloFrame(h, m, Pagina(h, x).frame)
    BY <1>9, <1>11 DEF Escrito, SoloFrame
  <2>. DEFINE S == P \cup {x}
  <2>2. x \in S /\ PagParte(h, S)
    BY <1>9
  <2>. HIDE DEF S, n
  <2>3. Anotada(h, ConMemoria(h, m), S, x) /\ ConMemoria(h, m).memoria = m
    BY <1>9, <1>11, <2>1, <2>2, AnotarDe
  <2>. QED
    BY <2>3 DEF S, n
<1>. HIDE DEF n
<1>13. /\ PagParte(n, P \cup {x}) /\ MismaForma(h, n) /\ EnReal(n, x) /\ Guarda(h, n, P)
       /\ \A k \in 0..(TAM - 1) : Cel(n, x, k) = m[frame * TAM + k]
  <2>1. (P \cup {x}) \ {x} = P
    BY <1>7
  <2>. QED
    BY <1>9, <1>12, <2>1 DEF Anotada
<1>14. MismaForma(e, n) /\ n \in PagEstado
  BY <1>9, <1>13, FormaTransitiva DEF PagParte
<1>15. UnaMas(d, n, pid) /\ PaginasDe(n) = P \cup {x}
  BY <1>4, <1>7, <1>14, UnaMasForma
<1>16. PagBase(n)
  BY <1>13, <1>15 DEF PagBase
<1>17. Guarda(d, n, P)
  BY <1>7, <1>9, <1>13, GuardaTransitiva
<1>18. ConFrame(n, x)
  BY <1>13 DEF EnReal
<1>19. ASSUME NEW k \in 0..(Len(trozo) - 1) PROVE Cel(n, x, k) = trozo[k + 1]
  <2>1. Len(trozo) \in Nat /\ k \in 0..(TAM - 1) /\ k < Len(trozo)
    BY <1>1, LenProperties
  <2>2. Cel(n, x, k) = m[frame * TAM + k]
    BY <1>13, <2>1
  <2>. QED
    BY <1>10, <1>11, <2>1, <2>2 DEF Escrito
<1>. QED
  BY <1>14, <1>15, <1>16, <1>17, <1>18, <1>19 DEF Agregada, x, P

-------------------------------------------------------------------------------
\* The multiples of a number are in the order of what they are multiples by.
LEMMA MultiplosOrden ==
  ASSUME NEW M \in Nat \ {0}, NEW k \in Nat, NEW l \in Nat, k <= l
  PROVE  k * M \in Nat /\ l * M \in Nat /\ k * M <= l * M
<1>. DEFINE c == l - k
<1>1. c \in Nat /\ l = k + c
  OBVIOUS
<1>. HIDE DEF c
<1>2. k * M \in Nat /\ c * M \in Nat
  BY <1>1, Multiplos
<1>3. l * M = k * M + c * M
  BY <1>1
<1>. QED
  BY <1>2, <1>3

\* How many pages a process of that size has.
LEMMA TechoDe ==
  ASSUME config \in Configuraciones, NEW t \in Nat
  PROVE  /\ Techo(t) \in Nat
         /\ \A a \in Nat : a < t => a \div TAM + 1 \in 1..Techo(t)
         /\ \A i \in 1..Techo(t) : (i - 1) * TAM \in Nat /\ (i - 1) * TAM < t
<1>. DEFINE z == t + TAM - 1
            c == z \div TAM
            r == z % TAM
            b == c * TAM
<1>1. TAM \in Nat \ {0} /\ z \in Nat
  BY TamDe
<1>2. c \in Nat /\ r \in 0..(TAM - 1) /\ z = b + r /\ b \in Nat
  <2>. HIDE DEF z
  <2>1. c \in Nat /\ r \in 0..(TAM - 1) /\ z = b + r
    BY <1>1, DivisionDe
  <2>2. b \in Nat
    BY <1>1, <2>1, Multiplos
  <2>. QED
    BY <2>1, <2>2
<1>3. Techo(t) = c
  BY DEF Techo
<1>4. b >= t /\ b < t + TAM
  <2>1. z = t + TAM - 1
    OBVIOUS
  <2>. HIDE DEF z, b, r
  <2>. QED
    BY <1>1, <1>2, <2>1
<1>. HIDE DEF z, r, c
<1>5. ASSUME NEW a \in Nat, a < t PROVE a \div TAM + 1 \in 1..c
  <2>. DEFINE u == a \div TAM
              v == a % TAM
              w == u * TAM
  <2>1. u \in Nat /\ v \in 0..(TAM - 1) /\ a = w + v
    BY <1>1, DivisionDe
  <2>2. w \in Nat
    BY <1>1, <2>1, Multiplos
  <2>. HIDE DEF u, v
  <2>3. c <= u => b <= w
    BY <1>1, <1>2, <2>1, MultiplosOrden
  <2>. HIDE DEF w, b
  <2>4. ~(c <= u)
    BY <1>2, <1>4, <1>5, <2>1, <2>2, <2>3, <1>1
  <2>5. u + 1 \in 1..c
    BY <1>2, <2>1, <2>4
  <2>. QED
    BY <2>5 DEF u
<1>6. ASSUME NEW i \in 1..c PROVE (i - 1) * TAM \in Nat /\ (i - 1) * TAM < t
  <2>. DEFINE j == i - 1
  <2>1. j \in Nat /\ j + 1 <= c /\ j + 1 \in Nat
    BY <1>2
  <2>. HIDE DEF j
  <2>2. j * TAM \in Nat /\ (j + 1) * TAM = j * TAM + TAM
    BY <1>1, <2>1, Multiplos
  <2>3. (j + 1) * TAM <= b
    BY <1>1, <1>2, <2>1, MultiplosOrden
  <2>. DEFINE w == j * TAM
  <2>4. w + TAM <= b /\ w \in Nat
    BY <2>2, <2>3
  <2>. HIDE DEF w, b
  <2>5. w < t
    BY <1>1, <1>2, <1>4, <2>4
  <2>. QED
    BY <2>4, <2>5 DEF w, j
<1>. QED
  BY <1>2, <1>3, <1>5, <1>6

\* The part of what is saved that goes to one page.
Trozo(s, i) == SubSeq(s, (i - 1) * TAM + 1, Min({i * TAM, Len(s)}))

\* The part of what is saved that goes to page i has its cells, a page at most.
LEMMA TrozoDe ==
  ASSUME config \in Configuraciones, NEW s \in Seq(Celdas), NEW i \in 1..Techo(Len(s))
  PROVE  /\ Trozo(s, i) \in Seq(Celdas) /\ Len(Trozo(s, i)) <= TAM
         /\ \A k \in 0..(TAM - 1) : (i - 1) * TAM + k < Len(s) =>
              k \in 0..(Len(Trozo(s, i)) - 1) /\ Trozo(s, i)[k + 1] = s[(i - 1) * TAM + k + 1]
<1>. DEFINE t == Len(s)
            b == (i - 1) * TAM
            h == Min({i * TAM, t})
<1>1. t \in Nat /\ TAM \in Nat \ {0} /\ b \in Nat /\ b < t /\ i \in Nat /\ i - 1 \in Nat
  <2>1. t \in Nat
    BY LenProperties
  <2>2. Techo(t) \in Nat
    BY <2>1, TechoDe
  <2>. QED
    BY <2>1, <2>2, TamDe, TechoDe
<1>2. i * TAM = b + TAM
  <2>. DEFINE j == i - 1
  <2>1. j \in Nat /\ i = j + 1
    BY <1>1
  <2>. HIDE DEF j
  <2>2. (j + 1) * TAM = j * TAM + TAM
    BY <1>1, <2>1, Multiplos
  <2>. QED
    BY <2>1, <2>2 DEF j
<1>3. Trozo(s, i) = SubSeq(s, b + 1, h)
  BY DEF Trozo
<1>. HIDE DEF t, b
<1>4. h = IF b + TAM <= t THEN b + TAM ELSE t
  <2>1. b + TAM \in Nat
    BY <1>1
  <2>. QED
    BY <1>1, <1>2, <2>1, MinimoDeDos
<1>. HIDE DEF h
<1>5. h \in Nat /\ b + 1 <= h /\ h <= t /\ h <= b + TAM
  BY <1>1, <1>4
<1>6. \A j \in (b + 1)..h : s[j] \in Celdas
  <2>1. \A j \in 1..t : s[j] \in Celdas
    BY ElementOfSeq DEF t
  <2>. QED
    BY <1>1, <1>5, <2>1
<1>. DEFINE c == SubSeq(s, b + 1, h)
<1>7. c \in Seq(Celdas) /\ Len(c) = h - b /\ \A j \in 1..(h - b) : c[j] = s[b + j]
  <2>1. c \in Seq(Celdas) /\ Len(c) = (IF b + 1 <= h THEN h - (b + 1) + 1 ELSE 0)
        /\ \A j \in 1..(h - (b + 1) + 1) : c[j] = s[(b + 1) + j - 1]
    <3>1. b + 1 \in Int /\ h \in Int
      BY <1>1, <1>5
    <3>. QED
      BY <1>6, <3>1, SubSeqProperties
  <2>. HIDE DEF c
  <2>2. h - (b + 1) + 1 = h - b /\ \A j \in 1..(h - b) : (b + 1) + j - 1 = b + j
    BY <1>1, <1>5
  <2>. QED
    BY <1>5, <2>1, <2>2
<1>. HIDE DEF c
<1>8. ASSUME NEW k \in 0..(TAM - 1), b + k < t PROVE k \in 0..(Len(c) - 1) /\ c[k + 1] = s[b + k + 1]
  <2>1. k + 1 \in 1..(h - b)
    BY <1>1, <1>4, <1>8
  <2>2. c[k + 1] = s[b + (k + 1)] /\ b + (k + 1) = b + k + 1
    BY <1>1, <1>7, <2>1
  <2>. QED
    BY <1>1, <1>5, <1>7, <2>1, <2>2
<1>9. Len(c) <= TAM
  BY <1>1, <1>5, <1>7
<1>10. Trozo(s, i) = c
  BY <1>3 DEF c
<1>. QED
  BY <1>7, <1>8, <1>9, <1>10 DEF b, t

\* What pag_guardar_patota saves: the fields that later are read to know where
\* things are.
LEMMA ImagenDe ==
  ASSUME NEW pid \in Pids
  PROVE  LET l == DireccionTareas(pid)
             s == Imagen(pid)
         IN /\ TRIPULANTES[pid] \in Nat \ {0} /\ l \in Nat /\ l = 2 + 4 * TRIPULANTES[pid]
            /\ s \in Seq(Celdas) /\ Len(s) = l + Len(Texto(pid)) /\ Len(Texto(pid)) \in Nat \ {0}
            /\ s[2] = Campo("tareas", l)
            /\ \A t \in 1..TRIPULANTES[pid] :
                 /\ DireccionTCB(t) + INSTRUCCION \in 1..(l - 1) /\ DireccionTCB(t) \in Nat
                 /\ s[DireccionTCB(t) + INSTRUCCION + 1] = Campo("instruccion", l)
<1>. DEFINE n == TRIPULANTES[pid]
            l == DireccionTareas(pid)
            a == PCB(pid, l)
            b == ImagenTCBs(pid)
            c == Texto(pid)
            s == Imagen(pid)
<1>1. n \in Nat \ {0} /\ pid \in Nat
  BY ContenidosDe
<1>2. l \in Nat /\ l = 2 + 4 * n
  BY <1>1 DEF DireccionTareas, DireccionTCB, TAM_PCB, TAM_TCB
<1>3. c \in Seq(Celdas) /\ Len(c) \in Nat \ {0}
  <2>1. c \in Seq(Celdas) /\ c # <<>>
    BY TextoDe
  <2>. HIDE DEF c
  <2>. QED
    BY <2>1, LenProperties, EmptySeq
<1>. HIDE DEF l, n
<1>4. a \in Seq(Celdas) /\ Len(a) = 2 /\ a[2] = Campo("tareas", l)
  <2>1. Campo("pid", pid) \in {"pid"} \X Nat /\ Campo("tareas", l) \in {"tareas"} \X Nat
    BY <1>1, <1>2 DEF Campo
  <2>2. Campo("pid", pid) \in Celdas /\ Campo("tareas", l) \in Celdas
    BY <2>1 DEF Celdas
  <2>. QED
    BY <2>2 DEF PCB
<1>5. ASSUME NEW t \in Nat, NEW j \in 1..4 PROVE TCB(t, l)[j] \in Celdas /\ TCB(t, l)[4] = Campo("instruccion", l)
  <2>1. Campo("tid", t) \in {"tid"} \X Nat /\ Campo("instruccion", l) \in {"instruccion"} \X Nat
    BY <1>2 DEF Campo
  <2>2. Campo("estado", "N") \in Celdas /\ Campo("posicion", 0) \in Celdas
    BY EstructurasAssumption DEF Campo, Celdas
  <2>3. Campo("tid", t) \in Celdas /\ Campo("instruccion", l) \in Celdas
    BY <2>1 DEF Celdas
  <2>. QED
    BY <2>2, <2>3 DEF TCB
<1>6. 4 * n \in Nat /\ \A k \in 1..(4 * n) : k - 1 \in Nat /\ (k - 1) \div 4 \in Nat /\ (k - 1) % 4 \in 0..3
  BY <1>1
<1>7. /\ DOMAIN b = 1..(4 * n)
      /\ \A k \in 1..(4 * n) : b[k] = TCB((k - 1) \div 4 + 1, l)[((k - 1) % 4) + 1]
  BY DEF ImagenTCBs, TAM_TCB, n, l
<1>8. b \in Seq(Celdas) /\ Len(b) = 4 * n
  <2>1. ASSUME NEW k \in 1..(4 * n) PROVE b[k] \in Celdas
    <3>. DEFINE t == (k - 1) \div 4 + 1
                j == ((k - 1) % 4) + 1
    <3>1. t \in Nat /\ j \in 1..4
      BY <1>6
    <3>2. b[k] = TCB(t, l)[j]
      BY <1>7
    <3>. HIDE DEF t, j, b
    <3>. QED
      BY <1>5, <3>1, <3>2
  <2>2. b = [k \in DOMAIN b |-> b[k]]
    BY DEF ImagenTCBs
  <2>. HIDE DEF b
  <2>3. b \in [1..(4 * n) -> Celdas]
    BY <1>7, <2>1, <2>2
  <2>. QED
    BY <1>6, <2>3, FilaDe
<1>9. ASSUME NEW t \in 1..n PROVE b[4 * (t - 1) + 4] = Campo("instruccion", l)
  <2>. DEFINE k == 4 * (t - 1) + 4
  <2>1. k \in 1..(4 * n) /\ k - 1 = (t - 1) * 4 + 3 /\ t - 1 \in Nat /\ t \in Nat
    BY <1>1
  <2>2. ((t - 1) * 4 + 3) \div 4 = t - 1 /\ ((t - 1) * 4 + 3) % 4 = 3
    <3>1. 4 \in Nat \ {0} /\ 3 \in 0..(4 - 1)
      OBVIOUS
    <3>. QED
      BY <2>1, <3>1, DivisionUnica
  <2>3. (k - 1) \div 4 + 1 = t /\ ((k - 1) % 4) + 1 = 4
    BY <2>1, <2>2
  <2>. HIDE DEF k, b
  <2>4. b[k] = TCB(t, l)[4]
    BY <1>7, <2>1, <2>3
  <2>5. 4 \in 1..4
    OBVIOUS
  <2>. QED
    BY <1>5, <2>1, <2>4, <2>5 DEF k
<1>10. s = (a \o b) \o c
  BY DEF Imagen, l
<1>. HIDE DEF a, b, c, s
<1>. DEFINE u == a \o b
<1>11. /\ u \in Seq(Celdas) /\ Len(u) = l
       /\ \A i \in 1..l : u[i] = IF i <= 2 THEN a[i] ELSE b[i - 2]
  <2>1. /\ u \in Seq(Celdas) /\ Len(u) = Len(a) + Len(b)
        /\ \A i \in 1..(Len(a) + Len(b)) : u[i] = IF i <= Len(a) THEN a[i] ELSE b[i - Len(a)]
    BY <1>4, <1>8, ConcatProperties
  <2>. QED
    BY <1>2, <1>4, <1>8, <2>1
<1>. HIDE DEF u
<1>12. /\ s \in Seq(Celdas) /\ Len(s) = l + Len(c) /\ \A i \in 1..l : s[i] = u[i]
  <2>1. /\ u \o c \in Seq(Celdas) /\ Len(u \o c) = Len(u) + Len(c)
        /\ \A i \in 1..(Len(u) + Len(c)) : (u \o c)[i] = IF i <= Len(u) THEN u[i] ELSE c[i - Len(u)]
    BY <1>3, <1>11, ConcatProperties
  <2>2. s = u \o c
    BY <1>10 DEF u
  <2>3. \A i \in 1..l : i \in 1..(l + Len(c)) /\ i <= l
    BY <1>2, <1>3
  <2>. QED
    BY <1>11, <2>1, <2>2, <2>3
<1>13. s[2] = Campo("tareas", l)
  <2>1. 2 \in 1..l
    BY <1>1, <1>2
  <2>. QED
    BY <1>4, <1>11, <1>12, <2>1
<1>14. ASSUME NEW t \in 1..n
       PROVE  /\ DireccionTCB(t) + INSTRUCCION \in 1..(l - 1) /\ DireccionTCB(t) \in Nat
              /\ s[DireccionTCB(t) + INSTRUCCION + 1] = Campo("instruccion", l)
  <2>1. DireccionTCB(t) = 2 + 4 * (t - 1) /\ INSTRUCCION = 3
    BY DEF DireccionTCB, TAM_PCB, TAM_TCB, INSTRUCCION
  <2>. DEFINE i == 4 * (t - 1) + 6
  <2>2. i \in 1..l /\ ~(i <= 2) /\ i - 2 = 4 * (t - 1) + 4 /\ DireccionTCB(t) + INSTRUCCION + 1 = i
        /\ DireccionTCB(t) + INSTRUCCION \in 1..(l - 1) /\ DireccionTCB(t) \in Nat
    BY <1>1, <1>2, <2>1
  <2>. HIDE DEF i
  <2>3. s[i] = b[i - 2]
    BY <1>11, <1>12, <2>2
  <2>. QED
    BY <1>9, <2>2, <2>3
<1>. QED
  BY <1>1, <1>2, <1>3, <1>12, <1>13, <1>14 DEF l, n, c, s

-------------------------------------------------------------------------------
PagCon(pid) == {e \in PagEstado : e.caida \/ (PagBase(e) /\ pid \in DOMAIN e.procesos)}
PagGuardarTodo(d, pid, s) ==
  FoldLeft(LAMBDA e, i : GuardarPagina(e, pid, Trozo(s, i)), d, [i \in 1..Techo(Len(s)) |-> i])

\* A turn of guardar_paginas, whether or not the process has died.
LEMMA GuardarCon ==
  ASSUME config \in Configuraciones, NEW pid, NEW s \in Seq(Celdas), NEW i \in 1..Techo(Len(s)), NEW e \in PagCon(pid)
  PROVE  GuardarPagina(e, pid, Trozo(s, i)) \in PagCon(pid)
<1>. DEFINE n == GuardarPagina(e, pid, Trozo(s, i))
<1>1. e \in PagEstado /\ (e.caida \/ (PagBase(e) /\ pid \in DOMAIN e.procesos))
  BY DEF PagCon
<1>2. CASE e.caida
  <2>1. n = Caer(e)
    BY <1>2 DEF GuardarPagina
  <2>. QED
    BY <1>1, <2>1, CaerDe DEF PagCon
<1>3. CASE PagBase(e) /\ pid \in DOMAIN e.procesos
  <2>1. Trozo(s, i) \in Seq(Celdas) /\ Len(Trozo(s, i)) <= TAM
    BY TrozoDe
  <2>. DEFINE c == Trozo(s, i)
  <2>. HIDE DEF c
  <2>2. n \in PagEstado /\ (n.caida \/ Agregada(e, n, pid, c))
    <3>1. c \in Seq(Celdas) /\ Len(c) <= TAM
      BY <2>1 DEF c
    <3>2. GuardarPagina(e, pid, c) \in PagEstado /\ (GuardarPagina(e, pid, c).caida \/ Agregada(e, GuardarPagina(e, pid, c), pid, c))
      BY <1>3, <3>1, GuardarPaginaDe
    <3>. QED
      BY <3>2 DEF c
  <2>. HIDE DEF n
  <2>3. Agregada(e, n, pid, c) => PagBase(n) /\ pid \in DOMAIN n.procesos
    BY <1>3 DEF Agregada, UnaMas
  <2>4. n \in PagCon(pid)
    BY <2>2, <2>3 DEF PagCon
  <2>. QED
    BY <2>4 DEF n
<1>. QED
  BY <1>1, <1>2, <1>3

\* guardar_paginas turn by turn: the memory after each page.
LEMMA PaginasPliegue ==
  ASSUME config \in Configuraciones, NEW pid, NEW s \in Seq(Celdas), NEW d \in PagCon(pid)
  PROVE  \E r \in [0..Techo(Len(s)) -> PagCon(pid)] :
           /\ PagGuardarTodo(d, pid, s) = r[Techo(Len(s))] /\ r[0] = d
           /\ \A k \in 1..Techo(Len(s)) : r[k] = GuardarPagina(r[k - 1], pid, Trozo(s, k))
<1>. DEFINE n == Techo(Len(s))
            p == [i \in 1..n |-> i]
            V == PagCon(pid)
            F == [z \in (1..n) \X V |-> GuardarPagina(z[2], pid, Trozo(s, z[1]))]
            iter == CHOOSE h : h = [t \in SUBSET DOMAIN p |->
                      IF t = {} THEN d ELSE GuardarPagina(h[t \ {Max(t)}], pid, Trozo(s, p[Max(t)]))]
<1>1. n \in Nat
  BY LenProperties, TechoDe
<1>2. DOMAIN p = 1..n /\ \A i \in 1..n : p[i] = i
  OBVIOUS
<1>3. \A x \in 1..n, v \in V : F[<<x, v>>] = GuardarPagina(v, pid, Trozo(s, x))
  OBVIOUS
<1>4. \A x \in 1..n, v \in V : GuardarPagina(v, pid, Trozo(s, x)) \in V
  BY GuardarCon
<1>5. PagGuardarTodo(d, pid, s) = iter[DOMAIN p]
  BY DEF PagGuardarTodo, FoldLeft, MapThenFoldSet
<1>. HIDE DEF F, p, n, V
<1>6. PICK g, r : Fila(g, r, n, V, d, F)
  <2>1. Cerrada(F, 1..n, V)
    BY <1>3, <1>4 DEF Cerrada
  <2>2. d \in V
    BY DEF V
  <2>. QED
    BY <1>1, <2>1, <2>2, FilaRecorre
<1>7. \A t \in SUBSET (1..n) : t # {} => Max(t) \in 1..n /\ p[Max(t)] = Max(t)
  BY <1>2, <1>6 DEF Fila
<1>8. \A t \in SUBSET (1..n) : g[t] = IF t = {} THEN d ELSE GuardarPagina(g[t \ {Max(t)}], pid, Trozo(s, Max(t)))
  BY <1>3, <1>6 DEF Fila
<1>9. g = [t \in SUBSET DOMAIN p |-> IF t = {} THEN d ELSE GuardarPagina(g[t \ {Max(t)}], pid, Trozo(s, p[Max(t)]))]
  BY SMTT(30), <1>2, <1>6, <1>7, <1>8 DEF Fila
<1>10. iter = [t \in SUBSET DOMAIN p |-> IF t = {} THEN d ELSE GuardarPagina(iter[t \ {Max(t)}], pid, Trozo(s, p[Max(t)]))]
  BY <1>9
<1>. HIDE DEF iter
<1>11. \A t \in SUBSET DOMAIN p : iter[t] = IF t = {} THEN d ELSE GuardarPagina(iter[t \ {Max(t)}], pid, Trozo(s, p[Max(t)]))
  BY <1>10, Zenon
<1>12. \A t \in SUBSET (1..n) : iter[t] = g[t]
  <2>. DEFINE Q == {t \in SUBSET (1..n) : iter[t] = g[t]}
  <2>1. {} \in Q
    BY <1>2, <1>8, <1>11
  <2>2. \A t \in SUBSET (1..n) : t # {} /\ t \ {Max(t)} \in Q => t \in Q
    BY <1>2, <1>7, <1>8, <1>11
  <2>. HIDE DEF Q
  <2>3. \A t \in SUBSET (1..n) : t \in Q
    BY <1>1, <2>1, <2>2, InduccionFila
  <2>. QED
    BY <2>3 DEF Q
<1>13. PagGuardarTodo(d, pid, s) = r[n]
  <2>1. iter[DOMAIN p] = r[n]
    BY <1>2, <1>6, <1>12 DEF Fila
  <2>. QED
    BY <1>5, <2>1
<1>14. \A k \in 1..n : r[k] = GuardarPagina(r[k - 1], pid, Trozo(s, k))
  BY <1>1, <1>3, <1>6 DEF Fila
<1>15. r \in [0..n -> V] /\ r[0] = d
  BY <1>6 DEF Fila
<1>. QED
  BY <1>13, <1>14, <1>15 DEF V, n

\* What the first n turns of pag_guardar_patota leave.
Colocadas(d, e, pid, s, n) ==
  /\ PagBase(e) /\ DOMAIN e.procesos = DOMAIN d.procesos
  /\ \A p \in DOMAIN d.procesos :
       /\ e.procesos[p].tamanio = d.procesos[p].tamanio /\ e.procesos[p].tcbs = d.procesos[p].tcbs
       /\ p # pid => DOMAIN e.procesos[p].paginas = DOMAIN d.procesos[p].paginas
  /\ Len(e.procesos[pid].paginas) = n /\ PaginasDe(d) \subseteq PaginasDe(e) /\ Guarda(d, e, PaginasDe(d))
  /\ \A i \in 1..n :
       /\ <<pid, i>> \in PaginasDe(e) /\ ConFrame(e, <<pid, i>>)
       /\ \A k \in 0..(Len(Trozo(s, i)) - 1) : Cel(e, <<pid, i>>, k) = Trozo(s, i)[k + 1]

\* One turn of guardar_paginas puts one page more in its place.
LEMMA UnaColocada ==
  ASSUME config \in Configuraciones, NEW pid, NEW s \in Seq(Celdas), NEW d, pid \in DOMAIN d.procesos,
         NEW n \in Nat, NEW e, Colocadas(d, e, pid, s, n), NEW f, Agregada(e, f, pid, Trozo(s, n + 1)),
         n + 1 \in 1..Techo(Len(s))
  PROVE  Colocadas(d, f, pid, s, n + 1)
<1>. DEFINE x == Siguiente(e, pid)
<1>1. /\ PagBase(f) /\ UnaMas(e, f, pid) /\ Guarda(e, f, PaginasDe(e))
      /\ ConFrame(f, x) /\ \A k \in 0..(Len(Trozo(s, n + 1)) - 1) : Cel(f, x, k) = Trozo(s, n + 1)[k + 1]
  BY DEF Agregada
<1>2. x = <<pid, n + 1>> /\ PaginasDe(f) = PaginasDe(e) \cup {x} /\ Len(f.procesos[pid].paginas) = n + 1
  BY <1>1 DEF UnaMas, Siguiente, Colocadas
<1>. HIDE DEF x
<1>3. PaginasDe(d) \subseteq PaginasDe(f) /\ Guarda(d, f, PaginasDe(d))
  <2>1. PaginasDe(d) \subseteq PaginasDe(e) /\ Guarda(d, e, PaginasDe(d))
    BY DEF Colocadas
  <2>2. Guarda(e, f, PaginasDe(d))
    BY <1>1, <2>1 DEF Guarda
  <2>. QED
    BY <1>2, <2>1, <2>2, GuardaTransitiva
<1>4. ASSUME NEW i \in 1..(n + 1)
      PROVE  /\ <<pid, i>> \in PaginasDe(f) /\ ConFrame(f, <<pid, i>>)
             /\ \A k \in 0..(Len(Trozo(s, i)) - 1) : Cel(f, <<pid, i>>, k) = Trozo(s, i)[k + 1]
  <2>1. CASE i = n + 1
    BY <1>1, <1>2, <2>1
  <2>2. CASE i \in 1..n
    <3>. DEFINE y == <<pid, i>>
                c == Trozo(s, i)
    <3>1. y \in PaginasDe(e) /\ ConFrame(e, y) /\ \A k \in 0..(Len(c) - 1) : Cel(e, y, k) = c[k + 1]
      BY <2>2 DEF Colocadas
    <3>2. Len(c) <= TAM /\ Len(c) \in Nat /\ TAM \in Nat
      <4>1. i \in 1..Techo(Len(s))
        BY <2>2, LenProperties, TechoDe
      <4>2. c \in Seq(Celdas) /\ Len(c) <= TAM
        BY <4>1, TrozoDe
      <4>. QED
        BY <4>2, LenProperties, TamDe
    <3>. HIDE DEF y, c
    <3>3. \A k \in 0..(Len(c) - 1) : k \in 0..(TAM - 1)
      BY <3>2
    <3>4. y \in PaginasDe(f) /\ ConFrame(f, y) /\ \A k \in 0..(Len(c) - 1) : Cel(f, y, k) = c[k + 1]
      BY <1>1, <1>2, <3>1, <3>3 DEF Guarda
    <3>. QED
      BY <3>4 DEF y, c
  <2>. QED
    BY SMTT(40), <2>1, <2>2
<1>5. /\ DOMAIN f.procesos = DOMAIN d.procesos
      /\ \A p \in DOMAIN d.procesos :
           /\ f.procesos[p].tamanio = d.procesos[p].tamanio /\ f.procesos[p].tcbs = d.procesos[p].tcbs
           /\ p # pid => DOMAIN f.procesos[p].paginas = DOMAIN d.procesos[p].paginas
  BY <1>1 DEF UnaMas, Colocadas
<1>. QED
  BY <1>1, <1>2, <1>3, <1>4, <1>5 DEF Colocadas

\* After guardar_paginas every page of the crew holds its part of what is saved.
LEMMA TodasColocadas ==
  ASSUME config \in Configuraciones, NEW pid, NEW s \in Seq(Celdas), NEW d, PagBase(d), pid \in DOMAIN d.procesos,
         d.procesos[pid].paginas = <<>>
  PROVE  LET e == PagGuardarTodo(d, pid, s)
         IN e \in PagEstado /\ (e.caida \/ Colocadas(d, e, pid, s, Techo(Len(s))))
<1>. DEFINE z == Techo(Len(s))
<1>0. z \in Nat /\ d \in PagCon(pid) /\ d \in PagEstado
  BY LenProperties, TechoDe DEF PagCon, PagBase, PagParte
<1>1. PICK r \in [0..z -> PagCon(pid)] :
           /\ PagGuardarTodo(d, pid, s) = r[z] /\ r[0] = d
           /\ \A k \in 1..z : r[k] = GuardarPagina(r[k - 1], pid, Trozo(s, k))
  BY <1>0, PaginasPliegue
<1>. HIDE DEF z
<1>. DEFINE P == {n \in Nat : n <= z => r[n].caida \/ Colocadas(d, r[n], pid, s, n)}
<1>2. 0 \in P
  <2>1. r[0] = d /\ 1..0 = {} /\ Len(d.procesos[pid].paginas) = 0 /\ Guarda(d, d, PaginasDe(d))
    BY <1>1 DEF Guarda
  <2>2. Colocadas(d, r[0], pid, s, 0)
    BY <2>1 DEF Colocadas
  <2>. QED
    BY <2>2
<1>3. ASSUME NEW n \in Nat, n \in P PROVE n + 1 \in P
  <2>1. SUFFICES ASSUME n + 1 <= z PROVE r[n + 1].caida \/ Colocadas(d, r[n + 1], pid, s, n + 1)
    OBVIOUS
  <2>. DEFINE e == r[n]
              f == r[n + 1]
              c == Trozo(s, n + 1)
  <2>2. n + 1 \in 1..z /\ (n + 1) - 1 = n /\ n \in 0..z /\ n <= z
    BY <1>0, <2>1
  <2>3. f = GuardarPagina(e, pid, c) /\ e \in PagCon(pid) /\ (e.caida \/ Colocadas(d, e, pid, s, n))
    BY <1>1, <1>3, <2>2
  <2>4. c \in Seq(Celdas) /\ Len(c) <= TAM
    BY <2>2, TrozoDe DEF z
  <2>. HIDE DEF e, f, P
  <2>5. CASE e.caida
    <3>1. f = Caer(e)
      BY <2>3, <2>5 DEF GuardarPagina
    <3>2. f.caida
      BY <2>3, <3>1, CaerDe DEF PagCon
    <3>. QED
      BY <3>2 DEF f
  <2>6. CASE ~e.caida
    <3>1. Colocadas(d, e, pid, s, n)
      BY <2>3, <2>6
    <3>2. PagBase(e) /\ pid \in DOMAIN e.procesos
      BY <3>1 DEF Colocadas
    <3>3. f.caida \/ Agregada(e, f, pid, c)
      <4>. HIDE DEF c
      <4>1. GuardarPagina(e, pid, c).caida \/ Agregada(e, GuardarPagina(e, pid, c), pid, c)
        BY <2>4, <3>2, GuardarPaginaDe
      <4>. QED
        BY <2>3, <4>1
    <3>4. Agregada(e, f, pid, c) => Colocadas(d, f, pid, s, n + 1)
      BY <2>2, <3>1, UnaColocada DEF z
    <3>. QED
      BY <3>3, <3>4 DEF f
  <2>. QED
    BY <2>5, <2>6
<1>4. \A n \in Nat : n \in P
  <2>. HIDE DEF P
  <2>. QED
    BY <1>2, <1>3, Induccion
<1>5. r[z].caida \/ Colocadas(d, r[z], pid, s, z)
  <2>1. z \in P /\ z <= z
    <3>. HIDE DEF P
    <3>. QED
      BY <1>0, <1>4
  <2>. QED
    BY <2>1
<1>6. r[z] \in PagEstado
  <2>1. z \in 0..z
    BY <1>0
  <2>. QED
    BY <1>1, <2>1 DEF PagCon
<1>. HIDE DEF P
<1>. QED
  BY <1>1, <1>5, <1>6 DEF z

-------------------------------------------------------------------------------
\* The pages of a process that hold something of who is left.
Vivas(pid, tcbs, n) ==
  {1, 1 \div TAM + 1} \cup (UNION {PaginasTCB(t) : t \in tcbs}) \cup (DireccionTareas(pid) \div TAM + 1)..n

\* What is known of a process: how many pages it has, that those of who is left
\* have a frame, and what they say of where things are.
ProcesoBien(d, pid) ==
  LET p == d.procesos[pid]
  IN /\ p.tamanio = DireccionTareas(pid) + Len(Texto(pid)) /\ Len(p.paginas) = Techo(p.tamanio)
     /\ p.tcbs \subseteq 1..TRIPULANTES[pid]
     /\ \A i \in Vivas(pid, p.tcbs, Len(p.paginas)) : ConFrame(d, <<pid, i>>)
     /\ Leida(d, pid, 1) = Campo("tareas", DireccionTareas(pid))
     /\ \A t \in p.tcbs : Leida(d, pid, DireccionTCB(t) + INSTRUCCION) \in {"instruccion"} \X Nat
PagBien(d) == PagBase(d) /\ \A pid \in DOMAIN d.procesos : ProcesoBien(d, pid)

\* The pages of who is left are pages of the process, among them those of the
\* fields that are read.
LEMMA VivasDe ==
  ASSUME config \in Configuraciones, NEW pid \in Pids, NEW tcbs, tcbs \subseteq 1..TRIPULANTES[pid],
         NEW n, n = Techo(DireccionTareas(pid) + Len(Texto(pid)))
  PROVE  /\ Vivas(pid, tcbs, n) \subseteq 1..n
         /\ 1 \div TAM + 1 \in Vivas(pid, tcbs, n)
         /\ \A t \in tcbs : (DireccionTCB(t) + INSTRUCCION) \div TAM + 1 \in Vivas(pid, tcbs, n)
<1>. DEFINE l == DireccionTareas(pid)
            z == l + Len(Texto(pid))
<1>1. /\ TRIPULANTES[pid] \in Nat \ {0} /\ l \in Nat /\ l = 2 + 4 * TRIPULANTES[pid] /\ Len(Texto(pid)) \in Nat \ {0}
      /\ TAM \in Nat \ {0}
  BY ImagenDe, TamDe
<1>2. z \in Nat /\ l < z /\ 1 < z /\ 0 < z
  BY <1>1
<1>3. n = Techo(z)
  OBVIOUS
<1>. HIDE DEF z
<1>4. n \in Nat /\ \A a \in Nat : a < z => a \div TAM + 1 \in 1..n
  BY <1>2, <1>3, TechoDe
<1>5. 1 \in 1..n
  <2>1. 0 \div TAM + 1 \in 1..n
    BY <1>2, <1>4
  <2>. QED
    BY <1>4, <2>1
<1>6. 1 \div TAM + 1 \in 1..n
  BY <1>2, <1>4
<1>7. ASSUME NEW t \in tcbs
      PROVE  /\ PaginasTCB(t) \subseteq 1..n
             /\ (DireccionTCB(t) + INSTRUCCION) \div TAM + 1 \in PaginasTCB(t)
  <2>1. DireccionTCB(t) = 2 + 4 * (t - 1) /\ INSTRUCCION = 3 /\ TAM_TCB = 4 /\ t \in Nat /\ t \in 1..TRIPULANTES[pid]
    BY <1>1 DEF DireccionTCB, TAM_PCB, TAM_TCB, INSTRUCCION
  <2>2. DireccionTCB(t) \in Nat /\ DireccionTCB(t) + 4 <= l
    BY <1>1, <2>1
  <2>3. \A a \in DireccionTCB(t)..(DireccionTCB(t) + 4 - 1) : a \in Nat /\ a < z
    BY <1>1, <1>2, <2>2
  <2>4. DireccionTCB(t) + INSTRUCCION \in DireccionTCB(t)..(DireccionTCB(t) + TAM_TCB - 1)
    BY <2>1, <2>2
  <2>. QED
    BY <1>4, <2>1, <2>3, <2>4 DEF PaginasTCB
<1>8. (l \div TAM + 1)..n \subseteq 1..n
  <2>1. l \div TAM + 1 \in 1..n
    BY <1>1, <1>2, <1>4
  <2>. QED
    BY <1>4, <2>1
<1>9. UNION {PaginasTCB(t) : t \in tcbs} \subseteq 1..n
  BY <1>7
<1>10. \A t \in tcbs : (DireccionTCB(t) + INSTRUCCION) \div TAM + 1 \in UNION {PaginasTCB(u) : u \in tcbs}
  BY <1>7
<1>. QED
  BY <1>5, <1>6, <1>8, <1>9, <1>10 DEF Vivas

\* A step that leaves of a process what is known of it, but for the cells of X.
Mantiene(d, e, pid, X) ==
  LET p == d.procesos[pid]
      q == e.procesos[pid]
      vivas == Vivas(pid, q.tcbs, Len(q.paginas))
  IN /\ q.tamanio = p.tamanio /\ q.tcbs \subseteq p.tcbs /\ Len(q.paginas) = Len(p.paginas)
     /\ \A i \in vivas : ConFrame(d, <<pid, i>>) => ConFrame(e, <<pid, i>>)
     /\ \A b \in Nat \ X : b \div TAM + 1 \in vivas /\ ConFrame(d, PaginaDeDir(pid, b)) => Leida(e, pid, b) = Leida(d, pid, b)

\* What is known of a process holds if the cells of its live pages are kept, but
\* for some that are rewritten.
LEMMA MantieneBien ==
  ASSUME config \in Configuraciones, NEW pid \in Pids, NEW d, ProcesoBien(d, pid), NEW e, NEW X, Mantiene(d, e, pid, X), 1 \notin X,
         \A t \in e.procesos[pid].tcbs :
           DireccionTCB(t) + INSTRUCCION \in X => Leida(e, pid, DireccionTCB(t) + INSTRUCCION) \in {"instruccion"} \X Nat
  PROVE  ProcesoBien(e, pid)
<1>. DEFINE p == d.procesos[pid]
            q == e.procesos[pid]
            n == Len(q.paginas)
            vivas == Vivas(pid, q.tcbs, n)
            l == DireccionTareas(pid)
<1>1. /\ p.tamanio = l + Len(Texto(pid)) /\ Len(p.paginas) = Techo(p.tamanio)
      /\ p.tcbs \subseteq 1..TRIPULANTES[pid]
      /\ \A i \in Vivas(pid, p.tcbs, Len(p.paginas)) : ConFrame(d, <<pid, i>>)
      /\ Leida(d, pid, 1) = Campo("tareas", l)
      /\ \A t \in p.tcbs : Leida(d, pid, DireccionTCB(t) + INSTRUCCION) \in {"instruccion"} \X Nat
  BY DEF ProcesoBien
<1>2. /\ q.tamanio = p.tamanio /\ q.tcbs \subseteq p.tcbs /\ n = Len(p.paginas)
      /\ \A i \in vivas : ConFrame(d, <<pid, i>>) => ConFrame(e, <<pid, i>>)
      /\ \A b \in Nat \ X : b \div TAM + 1 \in vivas /\ ConFrame(d, PaginaDeDir(pid, b)) => Leida(e, pid, b) = Leida(d, pid, b)
  BY DEF Mantiene
<1>. HIDE DEF p, q, n
<1>3. vivas \subseteq Vivas(pid, p.tcbs, n)
  BY <1>2 DEF Vivas
<1>4. /\ 1 \div TAM + 1 \in vivas
      /\ \A t \in q.tcbs : (DireccionTCB(t) + INSTRUCCION) \div TAM + 1 \in vivas
  <2>1. q.tcbs \subseteq 1..TRIPULANTES[pid] /\ n = Techo(DireccionTareas(pid) + Len(Texto(pid)))
    BY <1>1, <1>2
  <2>. QED
    BY <2>1, VivasDe
<1>. HIDE DEF vivas, l
<1>5. \A i \in vivas : ConFrame(d, <<pid, i>>) /\ ConFrame(e, <<pid, i>>)
  BY <1>1, <1>2, <1>3
<1>6. Leida(e, pid, 1) = Campo("tareas", l)
  <2>1. ConFrame(d, PaginaDeDir(pid, 1))
    BY <1>4, <1>5 DEF PaginaDeDir
  <2>2. Leida(e, pid, 1) = Leida(d, pid, 1)
    BY <1>2, <1>4, <2>1
  <2>. QED
    BY <1>1, <2>2
<1>7. ASSUME NEW t \in q.tcbs PROVE Leida(e, pid, DireccionTCB(t) + INSTRUCCION) \in {"instruccion"} \X Nat
  <2>. DEFINE b == DireccionTCB(t) + INSTRUCCION
  <2>1. b \in Nat /\ Leida(d, pid, b) \in {"instruccion"} \X Nat
    <3>1. t \in 1..TRIPULANTES[pid] /\ t \in p.tcbs
      BY <1>1, <1>2
    <3>2. DireccionTareas(pid) \in Nat /\ b \in 1..(DireccionTareas(pid) - 1)
      BY <3>1, ImagenDe
    <3>3. b \in Nat
      <4>. HIDE DEF b
      <4>. QED
        BY <3>2
    <3>. QED
      BY <1>1, <3>1, <3>3
  <2>2. CASE b \in X
    BY <2>2 DEF q
  <2>3. CASE b \notin X
    <3>1. b \div TAM + 1 \in vivas
      BY <1>4
    <3>. HIDE DEF b
    <3>2. ConFrame(d, PaginaDeDir(pid, b))
      BY <1>5, <3>1 DEF PaginaDeDir
    <3>3. Leida(e, pid, b) = Leida(d, pid, b)
      BY <1>2, <2>1, <2>3, <3>1, <3>2
    <3>4. Leida(e, pid, b) \in {"instruccion"} \X Nat
      BY <2>1, <3>3
    <3>. QED
      BY <3>4 DEF b
  <2>. QED
    BY <2>2, <2>3
<1>8. q.tamanio = l + Len(Texto(pid)) /\ n = Techo(q.tamanio) /\ q.tcbs \subseteq 1..TRIPULANTES[pid]
  BY <1>1, <1>2 DEF l
<1>. QED
  BY <1>5, <1>6, <1>7, <1>8 DEF ProcesoBien, vivas, q, n, l

\* The pages of who is left are pages of the process.
LEMMA VivasPaginas ==
  ASSUME config \in Configuraciones, NEW d \in PagEstado, NEW pid \in DOMAIN d.procesos, ProcesoBien(d, pid),
         NEW tcbs, tcbs \subseteq d.procesos[pid].tcbs
  PROVE  \A i \in Vivas(pid, tcbs, Len(d.procesos[pid].paginas)) : <<pid, i>> \in PaginasDe(d)
<1>. DEFINE n == Len(d.procesos[pid].paginas)
<1>1. tcbs \subseteq 1..TRIPULANTES[pid] /\ n = Techo(DireccionTareas(pid) + Len(Texto(pid))) /\ pid \in Pids
  BY PagEstadoDe DEF ProcesoBien
<1>2. \A i \in 1..n : <<pid, i>> \in PaginasDe(d)
  BY ProcesoDe
<1>. HIDE DEF n
<1>3. Vivas(pid, tcbs, n) \subseteq 1..n
  BY <1>1, VivasDe
<1>. QED
  BY <1>2, <1>3 DEF n

\* The table of a process has as many pages when its pages are the same ones.
LEMMA MismoLargo ==
  ASSUME NEW d \in PagEstado, NEW e \in PagEstado, NEW p \in DOMAIN d.procesos, p \in DOMAIN e.procesos,
         DOMAIN e.procesos[p].paginas = DOMAIN d.procesos[p].paginas
  PROVE  Len(e.procesos[p].paginas) = Len(d.procesos[p].paginas)
<1>. DEFINE a == e.procesos[p].paginas
            b == d.procesos[p].paginas
<1>1. a \in Seq(Pag) /\ b \in Seq(Pag) /\ DOMAIN a = DOMAIN b
  BY ProcesoDe
<1>. HIDE DEF a, b
<1>2. Len(a) \in Nat /\ Len(b) \in Nat /\ 1..Len(a) = 1..Len(b)
  BY <1>1, LenProperties
<1>3. Len(a) = Len(b)
  BY <1>2
<1>. QED
  BY <1>3 DEF a, b

\* What a page holds is what the addresses of its process say.
LEMMA GuardaLeida ==
  ASSUME config \in Configuraciones, NEW d, NEW e, NEW P, Guarda(d, e, P), NEW pid, NEW b \in Nat,
         PaginaDeDir(pid, b) \in P, ConFrame(d, PaginaDeDir(pid, b))
  PROVE  Leida(e, pid, b) = Leida(d, pid, b)
<1>. DEFINE x == PaginaDeDir(pid, b)
            k == b % TAM
<1>1. Leida(e, pid, b) = Cel(e, x, k) /\ Leida(d, pid, b) = Cel(d, x, k) /\ k \in 0..(TAM - 1)
  BY LeidaDe
<1>2. x \in P /\ ConFrame(d, x)
  OBVIOUS
<1>. HIDE DEF x, k
<1>. QED
  BY <1>1, <1>2 DEF Guarda

\* A step that guards the pages leaves what is known of each process.
LEMMA GuardaBien ==
  ASSUME config \in Configuraciones, NEW d \in PagEstado, NEW e \in PagEstado, NEW pid \in DOMAIN d.procesos,
         pid \in DOMAIN e.procesos, ProcesoBien(d, pid), Guarda(d, e, PaginasDe(d)),
         e.procesos[pid].tamanio = d.procesos[pid].tamanio, e.procesos[pid].tcbs = d.procesos[pid].tcbs,
         DOMAIN e.procesos[pid].paginas = DOMAIN d.procesos[pid].paginas
  PROVE  ProcesoBien(e, pid)
<1>. DEFINE q == e.procesos[pid]
            vivas == Vivas(pid, q.tcbs, Len(q.paginas))
<1>1. Len(q.paginas) = Len(d.procesos[pid].paginas)
  BY MismoLargo
<1>2. \A i \in vivas : <<pid, i>> \in PaginasDe(d)
  BY <1>1, VivasPaginas
<1>3. \A i \in vivas : ConFrame(d, <<pid, i>>) => ConFrame(e, <<pid, i>>)
  BY <1>2 DEF Guarda
<1>. HIDE DEF vivas
<1>4. ASSUME NEW b \in Nat, b \div TAM + 1 \in vivas, ConFrame(d, PaginaDeDir(pid, b))
      PROVE  Leida(e, pid, b) = Leida(d, pid, b)
  <2>1. PaginaDeDir(pid, b) \in PaginasDe(d)
    BY <1>2, <1>4 DEF PaginaDeDir
  <2>. QED
    BY <1>4, <2>1, GuardaLeida
<1>5. Mantiene(d, e, pid, {})
  BY <1>1, <1>3, <1>4 DEF Mantiene, vivas
<1>6. pid \in Pids
  BY PagEstadoDe
<1>. QED
  BY <1>5, <1>6, MantieneBien

\* A step that keeps the pages keeps what is known of every process.
LEMMA SigueBien ==
  ASSUME config \in Configuraciones, NEW d, PagBien(d), NEW e, Sigue(d, e)
  PROVE  PagBien(e) /\ DOMAIN e.procesos = DOMAIN d.procesos /\ \A p \in DOMAIN d.procesos : e.procesos[p].tcbs = d.procesos[p].tcbs
<1>1. PagBase(e) /\ MismaForma(d, e) /\ Guarda(d, e, PaginasDe(d)) /\ d \in PagEstado /\ e \in PagEstado
  BY DEF Sigue, PagBien, PagBase, PagParte
<1>2. ASSUME NEW pid \in DOMAIN d.procesos PROVE ProcesoBien(e, pid)
  <2>1. /\ pid \in DOMAIN e.procesos /\ ProcesoBien(d, pid)
        /\ e.procesos[pid].tamanio = d.procesos[pid].tamanio /\ e.procesos[pid].tcbs = d.procesos[pid].tcbs
        /\ DOMAIN e.procesos[pid].paginas = DOMAIN d.procesos[pid].paginas
    BY <1>1 DEF MismaForma, PagBien
  <2>. QED
    BY <1>1, <2>1, GuardaBien
<1>. QED
  BY <1>1, <1>2 DEF PagBien, MismaForma

\* A cell written that is not the tareas of the PCB, and is a number if it is an
\* instruccion.
LEMMA EscribeBien ==
  ASSUME config \in Configuraciones, NEW d, PagBien(d), NEW pid \in DOMAIN d.procesos, NEW a \in Nat, NEW celda, NEW e,
         Escribe(d, e, pid, a, celda), a # 1,
         \A t \in d.procesos[pid].tcbs : a = DireccionTCB(t) + INSTRUCCION => celda \in {"instruccion"} \X Nat
  PROVE  PagBien(e) /\ DOMAIN e.procesos = DOMAIN d.procesos /\ \A p \in DOMAIN d.procesos : e.procesos[p].tcbs = d.procesos[p].tcbs
<1>1. /\ PagBase(e) /\ MismaForma(d, e) /\ d \in PagEstado /\ e \in PagEstado
      /\ \A x \in PaginasDe(d) : ConFrame(e, x) <=> ConFrame(d, x)
      /\ Leida(e, pid, a) = celda
      /\ \A q \in DOMAIN d.procesos, b \in Nat :
           /\ PaginaDeDir(q, b) \in PaginasDe(d) /\ ConFrame(d, PaginaDeDir(q, b))
           /\ ~(q = pid /\ b = a)
           => Leida(e, q, b) = Leida(d, q, b)
  BY DEF Escribe, PagBien, PagBase, PagParte
<1>2. ASSUME NEW p \in DOMAIN d.procesos PROVE ProcesoBien(e, p)
  <2>. DEFINE q == e.procesos[p]
              vivas == Vivas(p, q.tcbs, Len(q.paginas))
              X == IF p = pid THEN {a} ELSE {}
  <2>1. /\ p \in DOMAIN e.procesos /\ ProcesoBien(d, p)
        /\ q.tamanio = d.procesos[p].tamanio /\ q.tcbs = d.procesos[p].tcbs
        /\ DOMAIN q.paginas = DOMAIN d.procesos[p].paginas
    BY <1>1 DEF MismaForma, PagBien
  <2>2. Len(q.paginas) = Len(d.procesos[p].paginas)
    BY <1>1, <2>1, MismoLargo
  <2>3. \A i \in vivas : <<p, i>> \in PaginasDe(d)
    BY <1>1, <2>1, <2>2, VivasPaginas
  <2>4. \A i \in vivas : ConFrame(d, <<p, i>>) => ConFrame(e, <<p, i>>)
    BY <1>1, <2>3
  <2>. HIDE DEF vivas
  <2>5. ASSUME NEW b \in Nat \ X, b \div TAM + 1 \in vivas, ConFrame(d, PaginaDeDir(p, b))
        PROVE  Leida(e, p, b) = Leida(d, p, b)
    <3>1. PaginaDeDir(p, b) \in PaginasDe(d)
      BY <2>3, <2>5 DEF PaginaDeDir
    <3>2. ~(p = pid /\ b = a)
      OBVIOUS
    <3>. QED
      BY <1>1, <2>5, <3>1, <3>2
  <2>6. Mantiene(d, e, p, X)
    <3>. HIDE DEF X
    <3>. QED
      BY <2>1, <2>2, <2>4, <2>5 DEF Mantiene, vivas
  <2>7. p \in Pids /\ 1 \notin X
    BY <1>1, PagEstadoDe
  <2>8. \A t \in q.tcbs : DireccionTCB(t) + INSTRUCCION \in X => Leida(e, p, DireccionTCB(t) + INSTRUCCION) \in {"instruccion"} \X Nat
    BY <1>1, <2>1
  <2>. HIDE DEF X
  <2>. QED
    BY <2>1, <2>6, <2>7, <2>8, MantieneBien
<1>. QED
  BY <1>1, <1>2 DEF PagBien, MismaForma

-------------------------------------------------------------------------------
\* A process with no pages yet.
ConProceso(d, pid, r) == [d EXCEPT !.procesos = Con(@, pid, r)]

\* A process with no pages in the table changes no page.
LEMMA ConProcesoDe ==
  ASSUME NEW d, PagBase(d), NEW pid \in Pids \ DOMAIN d.procesos, NEW r \in Proceso, r.paginas = <<>>
  PROVE  LET e == ConProceso(d, pid, r)
         IN /\ PagBase(e) /\ PaginasDe(e) = PaginasDe(d) /\ Guarda(d, e, PaginasDe(d))
            /\ DOMAIN e.procesos = DOMAIN d.procesos \cup {pid} /\ e.procesos[pid] = r
            /\ \A p \in DOMAIN d.procesos : p # pid /\ e.procesos[p] = d.procesos[p]
<1>. DEFINE f == Con(d.procesos, pid, r)
            e == ConProceso(d, pid, r)
            D == DOMAIN d.procesos
<1>1. d \in PagEstado /\ d.procesos \in [D -> Proceso] /\ D \subseteq Pids
  BY PagEstadoDe DEF PagBase, PagParte
<1>2. /\ f \in [D \cup {pid} -> Proceso] /\ DOMAIN f = D \cup {pid} /\ f[pid] = r
      /\ \A p \in D : p # pid /\ f[p] = d.procesos[p]
  BY <1>1 DEF Con
<1>. HIDE DEF f, D
<1>3. f \in UNION {[C -> Proceso] : C \in SUBSET Pids}
  <2>1. D \cup {pid} \in SUBSET Pids
    BY <1>1
  <2>. QED
    BY <1>2, <2>1
<1>4. /\ e \in PagEstado /\ e.procesos = f
      /\ e.memoria = d.memoria /\ e.swap = d.swap /\ e.frames_real = d.frames_real
      /\ e.frames_swap = d.frames_swap /\ e.paginas_memoria = d.paginas_memoria
  BY <1>1, <1>3 DEF PagEstado, ConProceso, f
<1>. HIDE DEF e
<1>5. PaginasDe(e) = PaginasDe(d)
  <2>1. DOMAIN r.paginas = {}
    OBVIOUS
  <2>2. e.procesos[pid] = r /\ DOMAIN e.procesos = D \cup {pid} /\ \A p \in D : p # pid /\ e.procesos[p] = d.procesos[p]
    BY <1>2, <1>4
  <2>. QED
    BY <2>1, <2>2 DEF PaginasDe, D
<1>6. ASSUME NEW x \in PaginasDe(d)
      PROVE  Pagina(e, x) = Pagina(d, x) /\ ConFrame(e, x) = ConFrame(d, x) /\ EnReal(e, x) = EnReal(d, x)
  <2>1. x[1] \in D
    BY <1>1, PaginaDe DEF D
  <2>2. Pagina(e, x) = Pagina(d, x)
    BY <1>2, <1>4, <2>1 DEF Pagina
  <2>. QED
    BY <2>2 DEF ConFrame, EnReal
<1>7. Guarda(d, e, PaginasDe(d))
  BY <1>4, <1>6 DEF Guarda, Cel
<1>8. Cuadros(d, PaginasDe(d)) /\ Lista(d, PaginasDe(d))
  BY DEF PagBase, PagParte
<1>. DEFINE P == PaginasDe(d)
<1>. HIDE DEF P
<1>9. Cuadros(e, P) /\ Lista(e, P)
  BY <1>4, <1>6, <1>8 DEF Cuadros, Lista, P
<1>10. PagBase(e)
  BY <1>4, <1>5, <1>9 DEF PagBase, PagParte, P
<1>11. /\ PagBase(e) /\ PaginasDe(e) = PaginasDe(d) /\ Guarda(d, e, PaginasDe(d))
       /\ DOMAIN e.procesos = DOMAIN d.procesos \cup {pid} /\ e.procesos[pid] = r
       /\ \A p \in DOMAIN d.procesos : p # pid /\ e.procesos[p] = d.procesos[p]
  BY <1>2, <1>4, <1>5, <1>7, <1>10 DEF D
<1>. QED
  BY <1>11 DEF e

\* pag_guardar_patota
LEMMA GuardarPatotaDe ==
  ASSUME config \in Configuraciones, NEW d, PagBien(d), NEW pid \in Pids \ DOMAIN d.procesos
  PROVE  LET e == PagGuardarPatota(d, pid)
         IN /\ e \in PagEstado
            /\ \/ e.caida
               \/ /\ PagBien(e) /\ DOMAIN e.procesos = DOMAIN d.procesos \cup {pid}
                  /\ e.procesos[pid].tcbs = 1..TRIPULANTES[pid]
                  /\ \A p \in DOMAIN d.procesos : p # pid /\ e.procesos[p].tcbs = d.procesos[p].tcbs
<1>. DEFINE s == Imagen(pid)
            t == Len(s)
            n == Techo(t)
            l == DireccionTareas(pid)
            tcbs == 1..TRIPULANTES[pid]
            r == [tamanio |-> t, paginas |-> <<>>, tcbs |-> tcbs]
            b == ConProceso(d, pid, r)
            e == PagGuardarPatota(d, pid)
<1>1. /\ TRIPULANTES[pid] \in Nat \ {0} /\ l \in Nat /\ l = 2 + 4 * TRIPULANTES[pid]
      /\ s \in Seq(Celdas) /\ t = l + Len(Texto(pid)) /\ Len(Texto(pid)) \in Nat \ {0}
      /\ s[2] = Campo("tareas", l)
      /\ \A u \in tcbs :
           /\ DireccionTCB(u) + INSTRUCCION \in 1..(l - 1) /\ DireccionTCB(u) \in Nat
           /\ s[DireccionTCB(u) + INSTRUCCION + 1] = Campo("instruccion", l)
      /\ d \in PagEstado /\ PagBase(d) /\ TAM \in Nat \ {0}
  BY ImagenDe, TamDe DEF PagBien, PagBase, PagParte
<1>2. t \in Nat /\ l < t /\ 1 < t /\ n \in Nat
  <2>1. t \in Nat /\ l < t /\ 1 < t
    <3>. HIDE DEF t, l
    <3>. QED
      BY SMTT(40), <1>1
  <2>. QED
    BY <2>1, TechoDe
<1>3. e = PagGuardarTodo(b, pid, s)
  BY DEF PagGuardarPatota, PagGuardarTodo, ConProceso, Trozo
<1>4. r \in Proceso /\ r.paginas = <<>> /\ r.tamanio = t /\ r.tcbs = tcbs
  <2>1. tcbs \subseteq Nat
    OBVIOUS
  <2>2. <<>> \in Seq(Pag)
    OBVIOUS
  <2>. HIDE DEF t, tcbs
  <2>. QED
    BY <1>2, <2>1, <2>2 DEF Proceso
<1>. HIDE DEF r
<1>5. /\ PagBase(b) /\ PaginasDe(b) = PaginasDe(d) /\ Guarda(d, b, PaginasDe(d))
      /\ DOMAIN b.procesos = DOMAIN d.procesos \cup {pid} /\ b.procesos[pid] = r
      /\ \A p \in DOMAIN d.procesos : p # pid /\ b.procesos[p] = d.procesos[p]
  BY SMTT(40), <1>1, <1>4, ConProcesoDe
<1>. HIDE DEF b, s, e
<1>6. e \in PagEstado /\ (e.caida \/ Colocadas(b, e, pid, s, n))
  <2>1. b.procesos[pid].paginas = <<>> /\ pid \in DOMAIN b.procesos
    BY <1>4, <1>5
  <2>. QED
    BY <1>1, <1>3, <1>5, <2>1, TodasColocadas
<1>7. SUFFICES ASSUME ~e.caida
               PROVE  /\ PagBien(e) /\ DOMAIN e.procesos = DOMAIN d.procesos \cup {pid}
                      /\ e.procesos[pid].tcbs = tcbs
                      /\ \A p \in DOMAIN d.procesos : p # pid /\ e.procesos[p].tcbs = d.procesos[p].tcbs
  BY <1>6 DEF e
<1>8. /\ PagBase(e) /\ DOMAIN e.procesos = DOMAIN b.procesos
      /\ \A p \in DOMAIN b.procesos :
           /\ e.procesos[p].tamanio = b.procesos[p].tamanio /\ e.procesos[p].tcbs = b.procesos[p].tcbs
           /\ p # pid => DOMAIN e.procesos[p].paginas = DOMAIN b.procesos[p].paginas
      /\ Len(e.procesos[pid].paginas) = n /\ Guarda(b, e, PaginasDe(b))
      /\ \A i \in 1..n :
           /\ <<pid, i>> \in PaginasDe(e) /\ ConFrame(e, <<pid, i>>)
           /\ \A k \in 0..(Len(Trozo(s, i)) - 1) : Cel(e, <<pid, i>>, k) = Trozo(s, i)[k + 1]
  <2>. HIDE DEF n
  <2>. QED
    BY <1>6, <1>7 DEF Colocadas
<1>9. Guarda(d, e, PaginasDe(d))
  BY <1>5, <1>8, GuardaTransitiva
<1>10. ASSUME NEW p \in DOMAIN d.procesos PROVE ProcesoBien(e, p)
  <2>1. /\ p \in DOMAIN e.procesos /\ e.procesos[p].tamanio = d.procesos[p].tamanio
        /\ e.procesos[p].tcbs = d.procesos[p].tcbs
        /\ DOMAIN e.procesos[p].paginas = DOMAIN d.procesos[p].paginas
    BY <1>5, <1>8
  <2>2. ProcesoBien(d, p)
    BY DEF PagBien
  <2>. QED
    BY <1>1, <1>6, <1>9, <2>1, <2>2, GuardaBien
<1>11. ASSUME NEW a \in Nat, a < t PROVE Leida(e, pid, a) = s[a + 1]
  <2>. DEFINE i == a \div TAM + 1
              k == a % TAM
  <2>1. i \in 1..n /\ k \in 0..(TAM - 1) /\ (i - 1) * TAM + k = a
    <3>1. i \in 1..n
      BY <1>2, <1>11, TechoDe
    <3>2. a \div TAM \in Nat /\ k \in 0..(TAM - 1) /\ a = (a \div TAM) * TAM + k
      BY <1>1, DivisionDe
    <3>3. i - 1 = a \div TAM
      BY <3>2
    <3>. QED
      BY <3>1, <3>2, <3>3
  <2>2. Leida(e, pid, a) = Cel(e, <<pid, i>>, k)
    BY LeidaDe DEF PaginaDeDir
  <2>. HIDE DEF i, k
  <2>3. k \in 0..(Len(Trozo(s, i)) - 1) /\ Trozo(s, i)[k + 1] = s[(i - 1) * TAM + k + 1]
    BY <1>1, <1>11, <2>1, TrozoDe
  <2>4. Cel(e, <<pid, i>>, k) = Trozo(s, i)[k + 1]
    BY <1>8, <2>1, <2>3
  <2>. QED
    BY <2>1, <2>2, <2>3, <2>4
<1>12. ProcesoBien(e, pid)
  <2>. DEFINE q == e.procesos[pid]
  <2>1. q.tamanio = t /\ q.tcbs = tcbs /\ Len(q.paginas) = n
    BY <1>4, <1>5, <1>8
  <2>2. Vivas(pid, tcbs, n) \subseteq 1..n
    <3>1. tcbs \subseteq 1..TRIPULANTES[pid] /\ n = Techo(DireccionTareas(pid) + Len(Texto(pid)))
      BY <1>1
    <3>. HIDE DEF tcbs, n
    <3>. QED
      BY <3>1, VivasDe
  <2>3. \A i \in Vivas(pid, tcbs, n) : ConFrame(e, <<pid, i>>)
    BY <1>8, <2>2
  <2>4. Leida(e, pid, 1) = Campo("tareas", l)
    BY <1>1, <1>2, <1>11
  <2>5. ASSUME NEW u \in tcbs PROVE Leida(e, pid, DireccionTCB(u) + INSTRUCCION) \in {"instruccion"} \X Nat
    <3>. DEFINE a == DireccionTCB(u) + INSTRUCCION
    <3>1. a \in Nat /\ a < t
      <4>1. a \in 1..(l - 1)
        BY <1>1
      <4>. HIDE DEF a, t, l
      <4>. QED
        BY <1>1, <1>2, <4>1
    <3>2. Leida(e, pid, a) = s[a + 1]
      BY <1>11, <3>1
    <3>3. s[a + 1] = Campo("instruccion", l)
      BY <1>1
    <3>4. Campo("instruccion", l) \in {"instruccion"} \X Nat
      BY <1>1 DEF Campo
    <3>. QED
      BY <3>2, <3>3, <3>4
  <2>. HIDE DEF q, tcbs
  <2>6. q.tamanio = DireccionTareas(pid) + Len(Texto(pid)) /\ Len(q.paginas) = Techo(q.tamanio) /\ q.tcbs \subseteq 1..TRIPULANTES[pid]
    BY <1>1, <2>1 DEF tcbs
  <2>. QED
    BY <2>1, <2>3, <2>4, <2>5, <2>6 DEF ProcesoBien, q
<1>13. DOMAIN e.procesos = DOMAIN d.procesos \cup {pid}
  BY <1>5, <1>8
<1>14. PagBien(e)
  BY <1>8, <1>10, <1>12, <1>13 DEF PagBien
<1>15. e.procesos[pid].tcbs = tcbs /\ \A p \in DOMAIN d.procesos : p # pid /\ e.procesos[p].tcbs = d.procesos[p].tcbs
  BY <1>4, <1>5, <1>8
<1>. QED
  BY <1>13, <1>14, <1>15

-------------------------------------------------------------------------------
\* A step that leaves each process with its members, and what is known of it.
Conserva(d, n) ==
  /\ PagBien(n) /\ DOMAIN n.procesos = DOMAIN d.procesos
  /\ \A p \in DOMAIN d.procesos : n.procesos[p].tcbs = d.procesos[p].tcbs

\* A cell that is neither the tareas of the PCB nor the instruccion of a TCB may
\* be written, and so may an instruccion.
LEMMA EdicionBien ==
  ASSUME config \in Configuraciones, NEW d, PagBien(d), NEW pid \in DOMAIN d.procesos, NEW t \in d.procesos[pid].tcbs,
         NEW k \in {ESTADO, POSICION, INSTRUCCION}, NEW celda \in Celdas,
         k = INSTRUCCION => celda \in {"instruccion"} \X Nat
  PROVE  LET n == Editar(d, pid, DireccionTCB(t) + k, celda)
         IN n \in PagEstado /\ (n.caida \/ Conserva(d, n))
<1>. DEFINE a == DireccionTCB(t) + k
            n == Editar(d, pid, a, celda)
<1>1. d \in PagEstado /\ PagBase(d) /\ d.procesos[pid].tcbs \subseteq Nat /\ t \in Nat \ {0}
  <2>1. d \in PagEstado /\ PagBase(d)
    BY DEF PagBien, PagBase, PagParte
  <2>2. d.procesos[pid].tcbs \subseteq 1..TRIPULANTES[pid]
    BY DEF PagBien, ProcesoBien
  <2>. QED
    BY <2>1, <2>2, ProcesoDe
<1>2. a \in Nat /\ a # 1 /\ \A u \in Nat : a = DireccionTCB(u) + INSTRUCCION => k = INSTRUCCION
  BY <1>1 DEF DireccionTCB, TAM_PCB, TAM_TCB, ESTADO, POSICION, INSTRUCCION
<1>. HIDE DEF a
<1>3. n \in PagEstado /\ (n.caida \/ Escribe(d, n, pid, a, celda))
  BY <1>1, <1>2, EditarDe
<1>4. \A u \in d.procesos[pid].tcbs : a = DireccionTCB(u) + INSTRUCCION => celda \in {"instruccion"} \X Nat
  BY <1>1, <1>2
<1>. HIDE DEF n
<1>5. Escribe(d, n, pid, a, celda) => Conserva(d, n)
  BY <1>2, <1>4, EscribeBien DEF Conserva
<1>6. n \in PagEstado /\ (n.caida \/ Conserva(d, n))
  BY <1>3, <1>5
<1>. QED
  BY <1>6 DEF n, a

\* CAMBIAR_ESTADO and MOVER_TRIPULANTE with paging.
LEMMA CambiarBien ==
  ASSUME config \in Configuraciones, NEW d, PagBien(d), NEW pid \in DOMAIN d.procesos, NEW t \in d.procesos[pid].tcbs,
         NEW estado \in Estados, NEW x \in Posiciones
  PROVE  /\ PagCambiarEstado(d, pid, t, estado) \in PagEstado
         /\ PagCambiarEstado(d, pid, t, estado).caida \/ Conserva(d, PagCambiarEstado(d, pid, t, estado))
         /\ PagMover(d, pid, t, x) \in PagEstado
         /\ PagMover(d, pid, t, x).caida \/ Conserva(d, PagMover(d, pid, t, x))
<1>1. Campo("estado", estado) \in Celdas /\ Campo("posicion", x) \in Celdas
  <2>1. Campo("estado", estado) \in {"estado"} \X Estados /\ Campo("posicion", x) \in {"posicion"} \X Posiciones
    BY DEF Campo
  <2>. QED
    BY <2>1 DEF Celdas
<1>2. ESTADO # INSTRUCCION /\ POSICION # INSTRUCCION
  BY DEF ESTADO, POSICION, INSTRUCCION
<1>. DEFINE n == Editar(d, pid, DireccionTCB(t) + ESTADO, Campo("estado", estado))
            m == Editar(d, pid, DireccionTCB(t) + POSICION, Campo("posicion", x))
<1>3. n \in PagEstado /\ (n.caida \/ Conserva(d, n))
  BY <1>1, <1>2, EdicionBien
<1>4. m \in PagEstado /\ (m.caida \/ Conserva(d, m))
  BY <1>1, <1>2, EdicionBien
<1>. QED
  BY <1>3, <1>4 DEF PagCambiarEstado, PagMover

\* The task read ends before the process does.
LEMMA TareaDe ==
  ASSUME NEW d \in PagEstado, NEW pid \in DOMAIN d.procesos, NEW t,
         Proxima(d, pid, t) \in Nat, Proxima(d, pid, t) < d.procesos[pid].tamanio
  PROVE  Min({Proxima(d, pid, t) + Len(PagTarea(d, pid, t)), d.procesos[pid].tamanio - 1}) \in Nat
<1>. DEFINE i == Proxima(d, pid, t)
            z == d.procesos[pid].tamanio
            texto == i..(z - 1)
            comas == {a \in texto : Leida(d, pid, a) = Coma}
            fin == IF comas = {} THEN z ELSE Min(comas)
            s == [k \in 1..(fin - i) |-> Leida(d, pid, i + k - 1)]
<1>1. z \in Nat /\ i \in Nat /\ i < z
  BY ProcesoDe
<1>. HIDE DEF z, i
<1>2. fin - i \in Nat
  <2>1. CASE comas = {}
    BY <1>1, <2>1
  <2>2. CASE comas # {}
    <3>1. comas \in SUBSET Nat
      BY <1>1
    <3>2. Min(comas) \in comas
      BY <2>2, <3>1, MinimoDe
    <3>. QED
      BY <1>1, <2>2, <3>2
  <2>. QED
    BY <2>1, <2>2
<1>3. PagTarea(d, pid, t) = s
  BY DEF PagTarea, i, z
<1>. HIDE DEF fin
<1>4. Len(s) \in Nat
  BY <1>2
<1>. HIDE DEF s
<1>5. i + Len(s) \in Nat /\ z - 1 \in Nat
  BY <1>1, <1>4
<1>6. Min({i + Len(s), z - 1}) \in Nat
  BY <1>5, MinimoDeDos
<1>. QED
  BY <1>3, <1>6 DEF i, z

\* PROXIMA_TAREA with paging.
LEMMA SiguienteTareaBien ==
  ASSUME config \in Configuraciones, NEW d, PagBien(d), NEW pid \in DOMAIN d.procesos, NEW t \in d.procesos[pid].tcbs
  PROVE  LET n == PagSiguienteTarea(d, pid, t)
         IN n \in PagEstado /\ (n.caida \/ Conserva(d, n))
<1>. DEFINE l == DireccionTCB(t)
            i == Proxima(d, pid, t)
            z == d.procesos[pid].tamanio
            hasta == Min({i + Len(PagTarea(d, pid, t)), z - 1})
            e == Recorrer(d, pid, l, l + TAM_TCB - 1)
            f == Recorrer(e, pid, i, hasta)
            n == PagSiguienteTarea(d, pid, t)
<1>1. /\ d \in PagEstado /\ PagBase(d) /\ t \in Nat \ {0} /\ i \in Nat
  <2>1. d \in PagEstado /\ PagBase(d)
    BY DEF PagBien, PagBase, PagParte
  <2>2. /\ d.procesos[pid].tcbs \subseteq 1..TRIPULANTES[pid]
        /\ Leida(d, pid, DireccionTCB(t) + INSTRUCCION) \in {"instruccion"} \X Nat
    BY DEF PagBien, ProcesoBien
  <2>3. d.procesos[pid].tcbs \subseteq Nat
    BY <2>1, ProcesoDe
  <2>. QED
    BY <2>1, <2>2, <2>3 DEF Proxima
<1>2. l \in Nat /\ l + TAM_TCB - 1 \in Int
  BY <1>1 DEF DireccionTCB, TAM_PCB, TAM_TCB
<1>3. e \in PagEstado /\ (e.caida \/ Sigue(d, e))
  BY <1>1, <1>2, RecorrerDe DEF Despues
<1>4. n = IF e.caida \/ i >= z THEN e ELSE Editar(f, pid, l + INSTRUCCION, Campo("instruccion", hasta + 1))
  BY DEF PagSiguienteTarea
<1>. HIDE DEF n, e, f, hasta, l
<1>5. CASE e.caida
  BY <1>3, <1>4, <1>5 DEF n
<1>6. ASSUME ~e.caida PROVE Conserva(d, e)
  BY <1>3, <1>6, SigueBien DEF Conserva
<1>7. CASE ~e.caida /\ i >= z
  BY <1>3, <1>4, <1>6, <1>7 DEF n
<1>8. CASE ~e.caida /\ ~(i >= z)
  <2>1. z \in Nat /\ i < z
    BY <1>1, <1>8, ProcesoDe
  <2>2. hasta \in Nat
    BY <1>1, <2>1, TareaDe DEF hasta
  <2>3. PagBien(e) /\ PagBase(e) /\ pid \in DOMAIN e.procesos /\ e.procesos[pid].tcbs = d.procesos[pid].tcbs
    BY <1>6, <1>8 DEF Conserva, PagBien
  <2>4. f \in PagEstado /\ (f.caida \/ Sigue(e, f))
    <3>1. hasta \in Int
      BY <2>2
    <3>. QED
      BY <1>1, <2>3, <3>1, RecorrerDe DEF Despues, f
  <2>. DEFINE celda == Campo("instruccion", hasta + 1)
              a == l + INSTRUCCION
  <2>5. n = Editar(f, pid, a, celda)
    BY <1>4, <1>8
  <2>6. CASE f.caida
    <3>1. Editar(f, pid, a, celda) = Caer(f)
      <4>1. Tocar(f, pid, a) = Caer(f)
        BY <2>6 DEF Tocar
      <4>2. Caer(f).caida
        BY <2>4, CaerDe
      <4>. QED
        BY <4>1, <4>2 DEF Editar
    <3>. QED
      BY <2>4, <2>5, <3>1, CaerDe DEF n
  <2>7. CASE ~f.caida
    <3>1. PagBien(f) /\ Conserva(e, f)
      BY <2>3, <2>4, <2>7, SigueBien DEF Conserva
    <3>2. pid \in DOMAIN f.procesos /\ t \in f.procesos[pid].tcbs
      BY <2>3, <3>1 DEF Conserva
    <3>3. celda \in {"instruccion"} \X Nat
      BY <2>2 DEF Campo
    <3>4. celda \in Celdas
      <4>. HIDE DEF celda
      <4>1. celda \in {"pid", "tareas", "tid", "instruccion"} \X Nat
        BY <3>3
      <4>. QED
        BY <4>1 DEF Celdas
    <3>. HIDE DEF celda
    <3>. DEFINE m == Editar(f, pid, DireccionTCB(t) + INSTRUCCION, celda)
    <3>5. m \in PagEstado /\ (m.caida \/ Conserva(f, m))
      BY <3>1, <3>2, <3>3, <3>4, EdicionBien
    <3>6. n = m
      BY <2>5 DEF l
    <3>. HIDE DEF m
    <3>7. Conserva(f, m) => Conserva(d, m)
      BY <1>6, <1>8, <3>1 DEF Conserva
    <3>. QED
      BY <3>5, <3>6, <3>7 DEF n
  <2>. QED
    BY <2>6, <2>7
<1>. QED
  BY <1>5, <1>7, <1>8

-------------------------------------------------------------------------------
\* The pages of P are left as they were, and no frame of the others is in use.
Quita(d, e, P) ==
  PagParte(e, P) /\ e.procesos = d.procesos /\ e.memoria = d.memoria /\ e.swap = d.swap

\* The frame of a page is given back.
LEMMA LiberarTipo ==
  ASSUME NEW d \in PagEstado, NEW pg
  PROVE  /\ Liberar(d, pg) \in PagEstado /\ Liberar(d, pg).procesos = d.procesos
         /\ d.caida => Liberar(d, pg).caida
<1>. DEFINE frame == Pagina(d, pg).frame
            lista == RemoveFirst(d.paginas_memoria, pg)
            mano == IF Contains(d.paginas_memoria, pg) /\ d.puntero >= Len(lista) THEN 0 ELSE d.puntero
            r == d.frames_real \ {frame}
            w == d.frames_swap \ {frame}
            a == [d EXCEPT !.frames_swap = w]
            b == [d EXCEPT !.frames_real = r, !.paginas_memoria = lista, !.puntero = mano]
<1>1. Liberar(d, pg) = IF d.caida \/ frame = -1 THEN Caer(d) ELSE IF ~Pagina(d, pg).presencia THEN a ELSE b
  BY DEF Liberar
<1>2. Caer(d) \in PagEstado /\ Caer(d).caida /\ Caer(d).procesos = d.procesos
  BY CaerDe DEF Caer, PagEstado
<1>3. /\ d.frames_real \subseteq 0..(Marcos - 1) /\ d.frames_swap \subseteq 0..(MarcosSwap - 1)
      /\ d.paginas_memoria \in Seq(Lugar) /\ d.puntero \in Nat
  BY PagEstadoDe
<1>4. lista \in Seq(Lugar) /\ mano \in Nat
  <2>1. lista \in Seq(Lugar)
    BY <1>3, SacarTipo
  <2>. HIDE DEF lista
  <2>. QED
    BY <1>3, <2>1
<1>5. r \in SUBSET (0..(Marcos - 1)) /\ w \in SUBSET (0..(MarcosSwap - 1))
  BY <1>3
<1>. HIDE DEF lista, mano, r, w, frame
<1>6. a \in PagEstado /\ a.procesos = d.procesos
  BY <1>5 DEF PagEstado
<1>7. b \in PagEstado /\ b.procesos = d.procesos
  BY <1>4, <1>5 DEF PagEstado
<1>. QED
  BY <1>1, <1>2, <1>6, <1>7

\* The rest of the pages keep their frames when the frame of one is given back.
LEMMA LiberarDe ==
  ASSUME NEW d, NEW P, PagParte(d, P), NEW pg \in P, ~Liberar(d, pg).caida
  PROVE  Quita(d, Liberar(d, pg), P \ {pg})
<1>. DEFINE frame == Pagina(d, pg).frame
            lista == RemoveFirst(d.paginas_memoria, pg)
            mano == IF Contains(d.paginas_memoria, pg) /\ d.puntero >= Len(lista) THEN 0 ELSE d.puntero
            a == [d EXCEPT !.frames_swap = @ \ {frame}]
            b == [d EXCEPT !.frames_real = @ \ {frame}, !.paginas_memoria = lista, !.puntero = mano]
            e == Liberar(d, pg)
            Q == P \ {pg}
<1>1. d \in PagEstado /\ e \in PagEstado /\ e.procesos = d.procesos
  BY LiberarTipo DEF PagParte
<1>2. e = IF d.caida \/ frame = -1 THEN Caer(d) ELSE IF ~Pagina(d, pg).presencia THEN a ELSE b
  BY DEF Liberar
<1>3. frame # -1 /\ ~d.caida
  BY <1>1, <1>2, CaerDe
<1>4. /\ \A x : Pagina(e, x) = Pagina(d, x) /\ ConFrame(e, x) = ConFrame(d, x) /\ EnReal(e, x) = EnReal(d, x)
      /\ PaginasDe(e) = PaginasDe(d)
  BY <1>1 DEF Pagina, ConFrame, EnReal, PaginasDe
<1>5. P \subseteq PaginasDe(d) /\ Cuadros(d, P) /\ Lista(d, P)
  BY DEF PagParte
<1>6. ConFrame(d, pg)
  BY <1>3 DEF ConFrame
<1>7. ASSUME ~Pagina(d, pg).presencia
      PROVE  Cuadros(e, Q) /\ Lista(e, Q) /\ e.memoria = d.memoria /\ e.swap = d.swap
  <2>1. e = a
    BY <1>2, <1>3, <1>7
  <2>2. /\ e.frames_real = d.frames_real /\ e.frames_swap = d.frames_swap \ {frame}
        /\ e.paginas_memoria = d.paginas_memoria /\ e.memoria = d.memoria /\ e.swap = d.swap
    BY <1>1, <2>1 DEF PagEstado
  <2>. HIDE DEF e, a, b
  <2>3. \A x \in Q : ConFrame(e, x) => Pagina(e, x).frame \in (IF Pagina(e, x).presencia THEN e.frames_real ELSE e.frames_swap)
    <3>1. SUFFICES ASSUME NEW x \in Q, ConFrame(e, x)
                   PROVE  Pagina(e, x).frame \in (IF Pagina(e, x).presencia THEN e.frames_real ELSE e.frames_swap)
      OBVIOUS
    <3>2. /\ x \in P /\ x # pg /\ ConFrame(d, x) /\ Pagina(e, x) = Pagina(d, x)
          /\ Pagina(d, x).frame \in (IF Pagina(d, x).presencia THEN d.frames_real ELSE d.frames_swap)
      BY <1>4, <1>5, <3>1 DEF Cuadros
    <3>3. CASE Pagina(d, x).presencia
      BY <2>2, <3>2, <3>3
    <3>4. CASE ~Pagina(d, x).presencia
      <4>1. Pagina(d, x).presencia = Pagina(d, pg).presencia
        <5>1. Pagina(d, x) \in Pag /\ Pagina(d, pg) \in Pag
          BY <1>1, <1>5, <3>2, PaginaDe
        <5>. QED
          BY <1>7, <3>4, <5>1 DEF Pag
      <4>2. Pagina(d, x).frame # frame
        BY <1>5, <3>2, <4>1 DEF Cuadros
      <4>. QED
        BY <2>2, <3>2, <3>4, <4>2
    <3>. QED
      BY <3>3, <3>4
  <2>4. \A f \in e.frames_real : \E x \in Q : Pagina(e, x).presencia /\ Pagina(e, x).frame = f
    BY <1>4, <1>5, <1>7, <2>2 DEF Cuadros
  <2>5. Cuadros(e, Q)
    BY <1>4, <1>5, <2>3, <2>4 DEF Cuadros
  <2>6. Lista(e, Q)
    BY <1>4, <1>5, <1>7, <2>2 DEF Lista, EnReal
  <2>. QED
    BY <2>2, <2>5, <2>6
<1>8. ASSUME Pagina(d, pg).presencia
      PROVE  Cuadros(e, Q) /\ Lista(e, Q) /\ e.memoria = d.memoria /\ e.swap = d.swap
  <2>1. e = b
    BY <1>2, <1>3, <1>8
  <2>2. /\ e.frames_real = d.frames_real \ {frame} /\ e.frames_swap = d.frames_swap
        /\ e.paginas_memoria = lista /\ e.memoria = d.memoria /\ e.swap = d.swap
    BY <1>1, <2>1 DEF PagEstado
  <2>7. /\ \A x : Contains(lista, x) <=> Contains(d.paginas_memoria, x) /\ x # pg
        /\ IsInjective(lista)
    BY <1>1, <1>5, SacarDe, PagEstadoDe DEF Lista
  <2>. HIDE DEF e, a, b, lista
  <2>3. \A x \in Q : ConFrame(e, x) => Pagina(e, x).frame \in (IF Pagina(e, x).presencia THEN e.frames_real ELSE e.frames_swap)
    BY <1>4, <1>5, <1>6, <1>8, <2>2 DEF Cuadros
  <2>4. \A f \in e.frames_real : \E x \in Q : Pagina(e, x).presencia /\ Pagina(e, x).frame = f
    BY <1>4, <1>5, <1>8, <2>2 DEF Cuadros
  <2>5. Cuadros(e, Q)
    BY <1>4, <1>5, <2>3, <2>4 DEF Cuadros
  <2>6. Lista(e, Q)
    BY <1>4, <1>5, <2>2, <2>7 DEF Lista
  <2>. QED
    BY <2>2, <2>5, <2>6
<1>9. Q \subseteq PaginasDe(e)
  BY <1>4, <1>5
<1>10. Cuadros(e, Q) /\ Lista(e, Q) /\ e.memoria = d.memoria /\ e.swap = d.swap
  BY <1>7, <1>8
<1>. HIDE DEF e, Q
<1>11. Quita(d, e, Q)
  BY <1>1, <1>9, <1>10 DEF Quita, PagParte
<1>. QED
  BY <1>11 DEF e, Q

\* What the pages hold when only the bitmaps and the list change.
LEMMA QuitaGuarda ==
  ASSUME NEW d, NEW e, NEW P, Quita(d, e, P)
  PROVE  Guarda(d, e, P) /\ PaginasDe(e) = PaginasDe(d)
<1>1. e.procesos = d.procesos /\ e.memoria = d.memoria /\ e.swap = d.swap
  BY DEF Quita
<1>2. \A x : Pagina(e, x) = Pagina(d, x)
  BY <1>1 DEF Pagina
<1>3. \A x, k : ConFrame(e, x) = ConFrame(d, x) /\ Cel(e, x, k) = Cel(d, x, k)
  BY <1>1, <1>2 DEF ConFrame, Cel
<1>. QED
  BY <1>1, <1>3 DEF Guarda, PaginasDe

\* A page whose frame is given back, and that has none.
LEMMA SoltarTipo ==
  ASSUME NEW d \in PagEstado, NEW pg \in PaginasDe(d)
  PROVE  Soltar(d, pg) \in PagEstado /\ MismaForma(d, Soltar(d, pg)) /\ (d.caida => Soltar(d, pg).caida)
<1>. DEFINE e == Liberar(d, pg)
            b == Pagina(d, pg).presencia
<1>1. e \in PagEstado /\ e.procesos = d.procesos /\ (d.caida => e.caida)
  BY LiberarTipo
<1>2. b \in BOOLEAN
  BY PaginaDe DEF Pag
<1>3. pg \in PaginasDe(e) /\ MismaForma(d, e)
  BY <1>1 DEF PaginasDe, MismaForma
<1>. HIDE DEF e, b
<1>4. Movida(e, EnFrame(e, pg, -1, b), pg, -1, b)
  BY <1>1, <1>2, <1>3, EnFrameDe
<1>5. Soltar(d, pg) = EnFrame(e, pg, -1, b)
  BY DEF Soltar, e, b
<1>. DEFINE n == Soltar(d, pg)
<1>. HIDE DEF n
<1>6. Movida(e, n, pg, -1, b)
  BY <1>4, <1>5 DEF n
<1>7. n \in PagEstado /\ MismaForma(e, n) /\ n.caida = e.caida
  BY <1>6 DEF Movida
<1>8. MismaForma(d, n)
  BY <1>3, <1>7, FormaTransitiva
<1>. QED
  BY <1>1, <1>7, <1>8 DEF n

\* A page freed by an expulsion keeps its place in the table, with no frame; the
\* others hold what they held.
LEMMA SoltarDe ==
  ASSUME NEW d, PagBase(d), NEW pg \in PaginasDe(d), ~Soltar(d, pg).caida
  PROVE  PagBase(Soltar(d, pg)) /\ Guarda(d, Soltar(d, pg), PaginasDe(d) \ {pg})
<1>. DEFINE e == Liberar(d, pg)
            b == Pagina(d, pg).presencia
            n == Soltar(d, pg)
            P == PaginasDe(d)
<1>1. d \in PagEstado /\ PagParte(d, P) /\ e \in PagEstado /\ b \in BOOLEAN
  <2>1. d \in PagEstado /\ PagParte(d, P)
    BY DEF PagBase, PagParte
  <2>. QED
    BY <2>1, LiberarTipo, PaginaDe DEF Pag
<1>2. pg \in PaginasDe(e)
  BY <1>1, LiberarTipo DEF PaginasDe
<1>. HIDE DEF e, b
<1>3. Movida(e, EnFrame(e, pg, -1, b), pg, -1, b)
  BY <1>1, <1>2, EnFrameDe
<1>4. n = EnFrame(e, pg, -1, b)
  BY DEF Soltar, e, b
<1>. HIDE DEF n
<1>5. Movida(e, n, pg, -1, b)
  BY <1>3, <1>4
<1>6. Quita(d, e, P \ {pg})
  <2>1. ~e.caida
    BY <1>5 DEF Movida, n
  <2>. QED
    BY <1>1, <2>1, LiberarDe DEF e
<1>7. Guarda(d, e, P \ {pg}) /\ PaginasDe(e) = P
  BY <1>6, QuitaGuarda
<1>8. /\ n \in PagEstado /\ MismaForma(e, n) /\ PaginasDe(n) = P
      /\ n.memoria = e.memoria /\ n.swap = e.swap /\ n.frames_real = e.frames_real /\ n.frames_swap = e.frames_swap
      /\ n.paginas_memoria = e.paginas_memoria /\ Pagina(n, pg).frame = -1
      /\ \A y \in P : y # pg => Pagina(n, y) = Pagina(e, y)
  BY <1>5, <1>7, FormaDe DEF Movida
<1>. HIDE DEF P
<1>9. /\ ~ConFrame(n, pg)
      /\ \A y \in P \ {pg} : ConFrame(n, y) = ConFrame(e, y) /\ EnReal(n, y) = EnReal(e, y)
  BY <1>8 DEF ConFrame, EnReal
<1>10. \A y \in P \ {pg} : \A k : Cel(n, y, k) = Cel(e, y, k)
  BY <1>8 DEF Cel
<1>11. PagParte(e, P \ {pg})
  BY <1>6 DEF Quita
<1>12. Cuadros(n, P)
  BY <1>8, <1>9, <1>11 DEF PagParte, Cuadros, ConFrame
<1>13. Lista(n, P)
  BY <1>8, <1>9, <1>11 DEF PagParte, Lista
<1>14. Guarda(e, n, P \ {pg})
  BY <1>9, <1>10 DEF Guarda
<1>15. Guarda(d, n, P \ {pg})
  BY <1>7, <1>14, GuardaTransitiva
<1>16. PagBase(n)
  BY <1>8, <1>12, <1>13 DEF PagBase, PagParte
<1>. QED
  BY <1>15, <1>16 DEF n, P

-------------------------------------------------------------------------------
\* The frames of a process given back.
Desalojar(d, pid) == FoldLeft(Liberar, d, [i \in DOMAIN d.procesos[pid].paginas |-> <<pid, i>>])
MismosProcesos(d) == {e \in PagEstado : e.procesos = d.procesos}
Primeras(pid, k) == {pid} \X (1..k)

\* They are given back one after the other.
LEMMA DesalojarPliegue ==
  ASSUME NEW d \in PagEstado, NEW pid \in DOMAIN d.procesos, NEW n, n = Len(d.procesos[pid].paginas)
  PROVE  \E r \in [0..n -> MismosProcesos(d)] :
           /\ Desalojar(d, pid) = r[n] /\ r[0] = d
           /\ \A k \in 1..n : r[k] = Liberar(r[k - 1], <<pid, k>>)
<1>. DEFINE p == [i \in DOMAIN d.procesos[pid].paginas |-> <<pid, i>>]
            V == MismosProcesos(d)
            F == [z \in (1..n) \X V |-> Liberar(z[2], <<pid, z[1]>>)]
            iter == CHOOSE h : h = [t \in SUBSET DOMAIN p |->
                      IF t = {} THEN d ELSE Liberar(h[t \ {Max(t)}], p[Max(t)])]
<1>1. n \in Nat /\ DOMAIN d.procesos[pid].paginas = 1..n
  BY ProcesoDe
<1>2. DOMAIN p = 1..n /\ \A i \in 1..n : p[i] = <<pid, i>>
  BY <1>1
<1>3. \A x \in 1..n, v \in V : F[<<x, v>>] = Liberar(v, <<pid, x>>)
  OBVIOUS
<1>4. \A x \in 1..n, v \in V : Liberar(v, <<pid, x>>) \in V
  BY LiberarTipo DEF MismosProcesos
<1>5. Desalojar(d, pid) = iter[DOMAIN p]
  BY DEF Desalojar, FoldLeft, MapThenFoldSet
<1>. HIDE DEF F, p, V
<1>6. PICK g, r : Fila(g, r, n, V, d, F)
  <2>1. Cerrada(F, 1..n, V)
    BY <1>3, <1>4 DEF Cerrada
  <2>2. d \in V
    BY DEF V, MismosProcesos
  <2>. QED
    BY <1>1, <2>1, <2>2, FilaRecorre
<1>7. \A t \in SUBSET (1..n) : t # {} => Max(t) \in 1..n /\ p[Max(t)] = <<pid, Max(t)>>
  BY <1>2, <1>6 DEF Fila
<1>8. \A t \in SUBSET (1..n) : g[t] = IF t = {} THEN d ELSE Liberar(g[t \ {Max(t)}], <<pid, Max(t)>>)
  BY <1>3, <1>6 DEF Fila
<1>9. g = [t \in SUBSET DOMAIN p |-> IF t = {} THEN d ELSE Liberar(g[t \ {Max(t)}], p[Max(t)])]
  <2>1. \A t \in SUBSET DOMAIN p : g[t] = IF t = {} THEN d ELSE Liberar(g[t \ {Max(t)}], p[Max(t)])
    BY <1>2, <1>7, <1>8
  <2>2. g \in [SUBSET DOMAIN p -> V]
    BY <1>2, <1>6 DEF Fila
  <2>. QED
    BY <2>1, <2>2
<1>10. iter = [t \in SUBSET DOMAIN p |-> IF t = {} THEN d ELSE Liberar(iter[t \ {Max(t)}], p[Max(t)])]
  BY <1>9
<1>. HIDE DEF iter
<1>11. \A t \in SUBSET DOMAIN p : iter[t] = IF t = {} THEN d ELSE Liberar(iter[t \ {Max(t)}], p[Max(t)])
  BY <1>10, Zenon
<1>12. \A t \in SUBSET (1..n) : iter[t] = g[t]
  <2>. DEFINE Q == {t \in SUBSET (1..n) : iter[t] = g[t]}
  <2>1. {} \in Q
    BY <1>2, <1>8, <1>11
  <2>2. \A t \in SUBSET (1..n) : t # {} /\ t \ {Max(t)} \in Q => t \in Q
    BY ZenonT(60), <1>2, <1>7, <1>8, <1>11
  <2>. HIDE DEF Q
  <2>3. \A t \in SUBSET (1..n) : t \in Q
    BY <1>1, <2>1, <2>2, InduccionFila
  <2>. QED
    BY <2>3 DEF Q
<1>13. Desalojar(d, pid) = r[n]
  <2>1. iter[DOMAIN p] = r[n]
    BY <1>2, <1>6, <1>12 DEF Fila
  <2>. QED
    BY <1>5, <2>1
<1>14. \A k \in 1..n : r[k] = Liberar(r[k - 1], <<pid, k>>)
  BY <1>1, <1>3, <1>6 DEF Fila
<1>15. r \in [0..n -> V] /\ r[0] = d
  BY <1>6 DEF Fila
<1>. QED
  BY <1>13, <1>14, <1>15 DEF V

\* When they are, the rest of the pages are as they were.
LEMMA DesalojarDe ==
  ASSUME NEW d, PagBase(d), NEW pid \in DOMAIN d.procesos, ~Desalojar(d, pid).caida
  PROVE  Quita(d, Desalojar(d, pid), PaginasDe(d) \ Primeras(pid, Len(d.procesos[pid].paginas)))
<1>. DEFINE n == Len(d.procesos[pid].paginas)
            T == PaginasDe(d)
<1>1. d \in PagEstado /\ PagParte(d, T) /\ n \in Nat /\ \A i \in 1..n : <<pid, i>> \in T
  BY ProcesoDe DEF PagBase, PagParte
<1>2. PICK r \in [0..n -> MismosProcesos(d)] :
           /\ Desalojar(d, pid) = r[n] /\ r[0] = d
           /\ \A k \in 1..n : r[k] = Liberar(r[k - 1], <<pid, k>>)
  BY <1>1, DesalojarPliegue
<1>. HIDE DEF n, T
<1>. DEFINE P == {k \in Nat : k <= n => r[k].caida \/ Quita(d, r[k], T \ Primeras(pid, k))}
<1>3. 0 \in P
  <2>1. T \ Primeras(pid, 0) = T
    BY DEF Primeras
  <2>. QED
    BY <1>1, <1>2, <2>1 DEF Quita
<1>4. ASSUME NEW k \in Nat, k \in P PROVE k + 1 \in P
  <2>1. SUFFICES ASSUME k + 1 <= n PROVE r[k + 1].caida \/ Quita(d, r[k + 1], T \ Primeras(pid, k + 1))
    OBVIOUS
  <2>. DEFINE e == r[k]
              f == r[k + 1]
              x == <<pid, k + 1>>
              R == T \ Primeras(pid, k)
  <2>2. k + 1 \in 1..n /\ (k + 1) - 1 = k /\ k \in 0..n /\ k <= n
    BY <1>1, <2>1
  <2>3. f = Liberar(e, x) /\ e \in PagEstado /\ (e.caida \/ Quita(d, e, R))
    BY <1>2, <1>4, <2>2 DEF MismosProcesos
  <2>4. x \in R /\ R \ {x} = T \ Primeras(pid, k + 1)
    <3>1. x \in T /\ x \notin Primeras(pid, k)
      BY <1>1, <2>2 DEF Primeras
    <3>2. Primeras(pid, k + 1) = Primeras(pid, k) \cup {x}
      <4>1. 1..(k + 1) = (1..k) \cup {k + 1}
        OBVIOUS
      <4>. QED
        BY <4>1 DEF Primeras
    <3>. QED
      BY <3>1, <3>2
  <2>. HIDE DEF e, f, x, R, P
  <2>5. CASE e.caida
    BY <2>3, <2>5, LiberarTipo DEF f
  <2>6. CASE ~e.caida /\ ~f.caida
    <3>1. Quita(d, e, R)
      BY <2>3, <2>6
    <3>2. Quita(e, f, R \ {x})
      BY <2>3, <2>4, <2>6, <3>1, LiberarDe DEF Quita
    <3>3. Quita(d, f, R \ {x})
      BY <3>1, <3>2 DEF Quita
    <3>. QED
      BY <2>4, <3>3 DEF f
  <2>. QED
    BY <2>5, <2>6 DEF f
<1>5. \A k \in Nat : k \in P
  <2>. HIDE DEF P
  <2>. QED
    BY <1>3, <1>4, Induccion
<1>6. n \in P /\ n <= n
  <2>. HIDE DEF P
  <2>. QED
    BY <1>1, <1>5
<1>7. Quita(d, r[n], T \ Primeras(pid, n))
  BY <1>2, <1>6
<1>. QED
  BY <1>2, <1>7 DEF n, T

\* A process taken out of the table.
SinProceso(e, pid) == [e EXCEPT !.procesos = Restrict(@, DOMAIN @ \ {pid})]

\* A process whose pages were freed leaves the table.
LEMMA SinProcesoDe ==
  ASSUME NEW d, PagBase(d), NEW pid \in DOMAIN d.procesos, NEW e,
         Quita(d, e, PaginasDe(d) \ Primeras(pid, Len(d.procesos[pid].paginas)))
  PROVE  LET n == SinProceso(e, pid)
         IN /\ PagBase(n) /\ n.caida = e.caida /\ PaginasDe(n) \subseteq PaginasDe(d) /\ Guarda(d, n, PaginasDe(n))
            /\ DOMAIN n.procesos = DOMAIN d.procesos \ {pid}
            /\ \A p \in DOMAIN n.procesos : n.procesos[p] = d.procesos[p]
<1>. DEFINE D == DOMAIN d.procesos \ {pid}
            f == Restrict(d.procesos, D)
            n == SinProceso(e, pid)
            m == Len(d.procesos[pid].paginas)
            P == PaginasDe(d) \ Primeras(pid, m)
<1>1. /\ d \in PagEstado /\ e \in PagEstado /\ e.procesos = d.procesos /\ PagParte(e, P)
      /\ Guarda(d, e, P) /\ PaginasDe(e) = PaginasDe(d)
      /\ d.procesos \in [DOMAIN d.procesos -> Proceso] /\ DOMAIN d.procesos \subseteq Pids
  BY QuitaGuarda, PagEstadoDe DEF Quita, PagBase, PagParte
<1>2. DOMAIN f = D /\ f \in [D -> Proceso] /\ \A p \in D : f[p] = d.procesos[p]
  BY <1>1 DEF Restrict
<1>3. f \in UNION {[C -> Proceso] : C \in SUBSET Pids}
  <2>1. D \in SUBSET Pids
    BY <1>1
  <2>. HIDE DEF f, D
  <2>. QED
    BY <1>2, <2>1
<1>4. n = [e EXCEPT !.procesos = f]
  BY <1>1 DEF SinProceso
<1>. HIDE DEF f, n
<1>5. /\ n \in PagEstado /\ n.procesos = f /\ n.memoria = e.memoria /\ n.swap = e.swap /\ n.caida = e.caida
      /\ n.frames_real = e.frames_real /\ n.frames_swap = e.frames_swap /\ n.paginas_memoria = e.paginas_memoria
  BY <1>1, <1>3, <1>4 DEF PagEstado
<1>6. PaginasDe(n) = P
  <2>1. DOMAIN d.procesos[pid].paginas = 1..m
    BY <1>1, ProcesoDe
  <2>. HIDE DEF m
  <2>2. PaginasDe(n) = UNION {{p} \X DOMAIN d.procesos[p].paginas : p \in D}
    BY <1>2, <1>5 DEF PaginasDe
  <2>3. P = UNION {{p} \X DOMAIN d.procesos[p].paginas : p \in D}
    <3>1. ASSUME NEW p \in DOMAIN d.procesos, NEW i \in DOMAIN d.procesos[p].paginas
          PROVE  <<p, i>> \in {pid} \X (1..m) <=> p = pid
      BY <2>1
    <3>. QED
      BY <3>1 DEF PaginasDe, Primeras, P, D
  <2>. QED
    BY <2>2, <2>3
<1>7. ASSUME NEW x \in P
      PROVE  Pagina(n, x) = Pagina(e, x) /\ ConFrame(n, x) = ConFrame(e, x) /\ EnReal(n, x) = EnReal(e, x)
             /\ \A k : Cel(n, x, k) = Cel(e, x, k)
  <2>1. x[1] \in D
    BY <1>6, <1>5, <1>2, PaginaDe
  <2>2. Pagina(n, x) = Pagina(e, x)
    BY <1>1, <1>2, <1>5, <2>1 DEF Pagina
  <2>. QED
    BY <1>5, <2>2 DEF ConFrame, EnReal, Cel
<1>. HIDE DEF P, D
<1>8. Cuadros(n, P)
  BY <1>1, <1>5, <1>7 DEF PagParte, Cuadros
<1>9. Lista(n, P)
  BY <1>1, <1>5, <1>7 DEF PagParte, Lista
<1>10. Guarda(d, n, P)
  <2>1. Guarda(e, n, P)
    BY <1>7 DEF Guarda
  <2>. QED
    BY <1>1, <2>1, GuardaTransitiva
<1>11. PagBase(n)
  BY <1>5, <1>6, <1>8, <1>9 DEF PagBase, PagParte
<1>12. PaginasDe(n) \subseteq PaginasDe(d)
  BY <1>6 DEF P
<1>13. DOMAIN n.procesos = DOMAIN d.procesos \ {pid} /\ \A p \in DOMAIN n.procesos : n.procesos[p] = d.procesos[p]
  BY <1>2, <1>5 DEF D
<1>. QED
  BY <1>5, <1>6, <1>10, <1>11, <1>12, <1>13 DEF n

-------------------------------------------------------------------------------
\* What is known of a process when the pages of who is left are of those guarded.
LEMMA GuardaVivas ==
  ASSUME config \in Configuraciones, NEW d \in PagEstado, NEW e \in PagEstado, NEW pid \in DOMAIN d.procesos,
         pid \in DOMAIN e.procesos, ProcesoBien(d, pid), NEW P, Guarda(d, e, P),
         e.procesos[pid].tamanio = d.procesos[pid].tamanio, e.procesos[pid].tcbs \subseteq d.procesos[pid].tcbs,
         DOMAIN e.procesos[pid].paginas = DOMAIN d.procesos[pid].paginas,
         \A i \in Vivas(pid, e.procesos[pid].tcbs, Len(e.procesos[pid].paginas)) : <<pid, i>> \in P
  PROVE  ProcesoBien(e, pid)
<1>. DEFINE q == e.procesos[pid]
            vivas == Vivas(pid, q.tcbs, Len(q.paginas))
<1>1. Len(q.paginas) = Len(d.procesos[pid].paginas)
  BY MismoLargo
<1>2. \A i \in vivas : <<pid, i>> \in P
  OBVIOUS
<1>3. \A i \in vivas : ConFrame(d, <<pid, i>>) => ConFrame(e, <<pid, i>>)
  BY <1>2 DEF Guarda
<1>. HIDE DEF vivas
<1>4. ASSUME NEW b \in Nat, b \div TAM + 1 \in vivas, ConFrame(d, PaginaDeDir(pid, b))
      PROVE  Leida(e, pid, b) = Leida(d, pid, b)
  <2>1. PaginaDeDir(pid, b) \in P
    BY <1>2, <1>4 DEF PaginaDeDir
  <2>. QED
    BY <1>4, <2>1, GuardaLeida
<1>5. Mantiene(d, e, pid, {})
  BY <1>1, <1>3, <1>4 DEF Mantiene, vivas
<1>6. pid \in Pids
  BY PagEstadoDe
<1>. QED
  BY <1>5, <1>6, MantieneBien

\* A member taken out of the list of its crew.
SinTCB(d, pid, tid) == [d EXCEPT !.procesos[pid].tcbs = @ \ {tid}]

\* Taking a member out of the list of its crew changes no page.
LEMMA SinTCBDe ==
  ASSUME config \in Configuraciones, NEW d, PagBien(d), NEW pid \in DOMAIN d.procesos, NEW tid
  PROVE  LET e == SinTCB(d, pid, tid)
         IN /\ PagBien(e) /\ DOMAIN e.procesos = DOMAIN d.procesos
            /\ e.procesos[pid].paginas = d.procesos[pid].paginas
            /\ e.procesos[pid].tcbs = d.procesos[pid].tcbs \ {tid}
            /\ \A p \in DOMAIN d.procesos : p # pid => e.procesos[p].tcbs = d.procesos[p].tcbs
<1>. DEFINE c == d.procesos[pid].tcbs \ {tid}
            r == [d.procesos[pid] EXCEPT !.tcbs = c]
            f == [d.procesos EXCEPT ![pid] = r]
            e == SinTCB(d, pid, tid)
            D == DOMAIN d.procesos
            P == PaginasDe(d)
<1>1. /\ d \in PagEstado /\ PagParte(d, P) /\ d.procesos \in [D -> Proceso] /\ D \subseteq Pids
      /\ d.procesos[pid] \in Proceso /\ d.procesos[pid].tcbs \subseteq Nat
  <2>1. d \in PagEstado /\ PagParte(d, P)
    BY DEF PagBien, PagBase, PagParte
  <2>. QED
    BY <2>1, PagEstadoDe, ProcesoDe
<1>2. e = [d EXCEPT !.procesos = f]
  BY DEF SinTCB
<1>3. /\ r \in Proceso /\ r.tcbs = c /\ r.tamanio = d.procesos[pid].tamanio /\ r.paginas = d.procesos[pid].paginas
  <2>1. c \subseteq Nat
    BY <1>1
  <2>. HIDE DEF c
  <2>. QED
    BY <1>1, <2>1 DEF Proceso
<1>. HIDE DEF r
<1>4. f \in [D -> Proceso] /\ DOMAIN f = D /\ \A p \in D : f[p] = IF p = pid THEN r ELSE d.procesos[p]
  BY <1>1, <1>3
<1>. HIDE DEF f, e
<1>5. f \in UNION {[C -> Proceso] : C \in SUBSET Pids}
  <2>1. D \in SUBSET Pids
    BY <1>1
  <2>. HIDE DEF D
  <2>. QED
    BY <1>4, <2>1
<1>6. /\ e \in PagEstado /\ e.procesos = f /\ e.memoria = d.memoria /\ e.swap = d.swap
      /\ e.frames_real = d.frames_real /\ e.frames_swap = d.frames_swap /\ e.paginas_memoria = d.paginas_memoria
  BY <1>1, <1>2, <1>5 DEF PagEstado
<1>7. \A p \in D : e.procesos[p].paginas = d.procesos[p].paginas /\ e.procesos[p].tamanio = d.procesos[p].tamanio
  BY <1>3, <1>4, <1>6
<1>8. PaginasDe(e) = P
  BY <1>4, <1>6, <1>7 DEF PaginasDe
<1>9. ASSUME NEW x \in P
      PROVE  Pagina(e, x) = Pagina(d, x) /\ ConFrame(e, x) = ConFrame(d, x) /\ EnReal(e, x) = EnReal(d, x)
             /\ \A k : Cel(e, x, k) = Cel(d, x, k)
  <2>1. Pagina(e, x) = Pagina(d, x)
    BY <1>1, <1>7, PaginaDe DEF Pagina
  <2>. QED
    BY <1>6, <2>1 DEF ConFrame, EnReal, Cel
<1>. HIDE DEF P
<1>10. Cuadros(e, P) /\ Lista(e, P)
  BY <1>1, <1>6, <1>9 DEF PagParte, Cuadros, Lista
<1>11. PagBase(e)
  BY <1>6, <1>8, <1>10 DEF PagBase, PagParte
<1>12. Guarda(d, e, P)
  BY <1>9 DEF Guarda
<1>13. \A p \in D : e.procesos[p].tcbs = IF p = pid THEN c ELSE d.procesos[p].tcbs
  BY <1>3, <1>4, <1>6
<1>14. ASSUME NEW p \in D PROVE ProcesoBien(e, p)
  <2>1. ProcesoBien(d, p) /\ p \in DOMAIN e.procesos /\ e.procesos[p].tcbs \subseteq d.procesos[p].tcbs
    BY <1>4, <1>6, <1>13 DEF PagBien
  <2>2. \A i \in Vivas(p, e.procesos[p].tcbs, Len(e.procesos[p].paginas)) : <<p, i>> \in P
    BY <1>1, <1>7, <2>1, VivasPaginas DEF P
  <2>. QED
    BY <1>1, <1>6, <1>7, <1>12, <2>1, <2>2, GuardaVivas
<1>15. PagBien(e)
  BY <1>4, <1>6, <1>11, <1>14 DEF PagBien
<1>16. DOMAIN e.procesos = D
  BY <1>4, <1>6
<1>. QED
  BY <1>7, <1>13, <1>15, <1>16 DEF e

\* pag_eliminar_pcb
LEMMA EliminarPCBDe ==
  ASSUME config \in Configuraciones, NEW d, PagBien(d), NEW pid \in DOMAIN d.procesos,
         ~PagEliminarPCB(d, pid).caida
  PROVE  LET n == PagEliminarPCB(d, pid)
         IN /\ PagBien(n) /\ DOMAIN n.procesos = DOMAIN d.procesos \ {pid}
            /\ \A p \in DOMAIN n.procesos : n.procesos[p].tcbs = d.procesos[p].tcbs
<1>. DEFINE e == Desalojar(d, pid)
            n == PagEliminarPCB(d, pid)
            m == Len(d.procesos[pid].paginas)
<1>1. n = SinProceso(e, pid)
  BY DEF PagEliminarPCB, SinProceso, Desalojar
<1>2. d \in PagEstado /\ PagBase(d)
  BY DEF PagBien, PagBase, PagParte
<1>3. e \in PagEstado
  <2>1. m \in Nat
    BY <1>2, ProcesoDe
  <2>2. PICK r \in [0..m -> MismosProcesos(d)] : e = r[m]
    BY <1>2, DesalojarPliegue
  <2>. HIDE DEF m, e
  <2>3. m \in 0..m
    BY <2>1
  <2>. QED
    BY <2>2, <2>3 DEF MismosProcesos
<1>. HIDE DEF n
<1>4. ~e.caida
  <2>. HIDE DEF e
  <2>1. SinProceso(e, pid).caida = e.caida
    BY <1>3 DEF PagEstado, SinProceso
  <2>. QED
    BY <1>1, <2>1 DEF n
<1>5. Quita(d, e, PaginasDe(d) \ Primeras(pid, m))
  BY <1>2, <1>4, DesalojarDe
<1>. HIDE DEF e
<1>. DEFINE q == SinProceso(e, pid)
<1>6. /\ PagBase(q) /\ PaginasDe(q) \subseteq PaginasDe(d) /\ Guarda(d, q, PaginasDe(q))
      /\ DOMAIN q.procesos = DOMAIN d.procesos \ {pid}
      /\ \A p \in DOMAIN q.procesos : q.procesos[p] = d.procesos[p]
  BY ZenonT(60), <1>2, <1>5, SinProcesoDe
<1>7. n = q
  BY <1>1
<1>. HIDE DEF q
<1>8. ASSUME NEW p \in DOMAIN q.procesos PROVE ProcesoBien(q, p)
  <2>1. p \in DOMAIN d.procesos /\ q.procesos[p] = d.procesos[p] /\ ProcesoBien(d, p)
    BY <1>6 DEF PagBien
  <2>2. q \in PagEstado /\ PagParte(q, PaginasDe(q))
    BY <1>6 DEF PagBase, PagParte
  <2>3. \A i \in Vivas(p, q.procesos[p].tcbs, Len(q.procesos[p].paginas)) : <<p, i>> \in PaginasDe(q)
    <3>1. \A i \in Vivas(p, d.procesos[p].tcbs, Len(d.procesos[p].paginas)) : <<p, i>> \in PaginasDe(d)
      BY <1>2, <2>1, VivasPaginas
    <3>2. \A i : <<p, i>> \in PaginasDe(d) => <<p, i>> \in PaginasDe(q)
      <4>1. SUFFICES ASSUME NEW i, <<p, i>> \in PaginasDe(d) PROVE <<p, i>> \in PaginasDe(q)
        OBVIOUS
      <4>2. i \in DOMAIN d.procesos[p].paginas
        BY <1>2, <4>1, PaginaDe
      <4>. QED
        BY <2>1, <4>2 DEF PaginasDe
    <3>. QED
      BY <2>1, <3>1, <3>2
  <2>. QED
    BY <1>2, <1>6, <2>1, <2>2, <2>3, GuardaVivas
<1>9. PagBien(q)
  BY <1>6, <1>8 DEF PagBien
<1>. QED
  BY <1>6, <1>7, <1>9 DEF n

-------------------------------------------------------------------------------
\* Some pages of a process whose frames are given back.
SoltarTodas(d, pid, B) == FoldSet(LAMBDA i, g : Soltar(g, <<pid, i>>), d, B)
Sueltas(d) == {e \in PagEstado : MismaForma(d, e)}
Suelta(d, e, pid, B) == PagBase(e) /\ Guarda(d, e, PaginasDe(d) \ ({pid} \X B))

\* After the pages of B, and then that of one more.
LEMMA SueltaUna ==
  ASSUME NEW d, PagBase(d), NEW pid, NEW B, NEW i, <<pid, i>> \in PaginasDe(d), NEW e \in Sueltas(d),
         e.caida \/ Suelta(d, e, pid, B)
  PROVE  Soltar(e, <<pid, i>>) \in Sueltas(d) /\ (Soltar(e, <<pid, i>>).caida \/ Suelta(d, Soltar(e, <<pid, i>>), pid, B \cup {i}))
<1>. DEFINE x == <<pid, i>>
            f == Soltar(e, x)
<1>1. e \in PagEstado /\ MismaForma(d, e) /\ PaginasDe(e) = PaginasDe(d) /\ x \in PaginasDe(e)
  BY FormaDe DEF Sueltas
<1>2. f \in PagEstado /\ MismaForma(e, f) /\ (e.caida => f.caida)
  BY <1>1, SoltarTipo
<1>3. f \in Sueltas(d)
  BY <1>1, <1>2, FormaTransitiva DEF Sueltas
<1>4. ASSUME ~f.caida PROVE Suelta(d, f, pid, B \cup {i})
  <2>1. PagBase(e) /\ Guarda(d, e, PaginasDe(d) \ ({pid} \X B))
    BY <1>2, <1>4 DEF Suelta
  <2>2. PagBase(f) /\ Guarda(e, f, PaginasDe(d) \ {x})
    BY <1>1, <1>4, <2>1, SoltarDe
  <2>. DEFINE P == PaginasDe(d) \ ({pid} \X (B \cup {i}))
  <2>3. P \subseteq PaginasDe(d) \ ({pid} \X B) /\ P \subseteq PaginasDe(d) \ {x}
    OBVIOUS
  <2>. HIDE DEF P, f, x
  <2>4. Guarda(d, e, P) /\ Guarda(e, f, P)
    BY <2>1, <2>2, <2>3 DEF Guarda
  <2>5. Guarda(d, f, P)
    BY <2>4, GuardaTransitiva
  <2>. QED
    BY <2>2, <2>5 DEF Suelta, P
<1>. QED
  BY <1>3, <1>4

\* The pages of a member freed one by one, in any order.
LEMMA SoltarTodasDe ==
  ASSUME NEW d, PagBase(d), NEW pid, NEW B, IsFiniteSet(B), \A i \in B : <<pid, i>> \in PaginasDe(d)
  PROVE  LET h == SoltarTodas(d, pid, B)
         IN h \in Sueltas(d) /\ (h.caida \/ Suelta(d, h, pid, B))
<1>. DEFINE Una(s) == CHOOSE x \in s : TRUE
            c == [s \in SUBSET B |-> Una(s)]
            V == Sueltas(d)
            F == [z \in B \X V |-> Soltar(z[2], <<pid, z[1]>>)]
            iter == CHOOSE h : h = [s \in SUBSET B |-> IF s = {} THEN d ELSE Soltar(h[s \ {Una(s)}], <<pid, Una(s)>>)]
<1>1. Elige(c, B)
  BY DEF Elige
<1>2. \A x \in B, v \in V : F[<<x, v>>] = Soltar(v, <<pid, x>>)
  OBVIOUS
<1>3. \A x \in B, v \in V : Soltar(v, <<pid, x>>) \in V
  <2>1. SUFFICES ASSUME NEW x \in B, NEW v \in V PROVE Soltar(v, <<pid, x>>) \in V
    OBVIOUS
  <2>2. v \in PagEstado /\ MismaForma(d, v) /\ <<pid, x>> \in PaginasDe(v)
    BY FormaDe DEF Sueltas
  <2>3. Soltar(v, <<pid, x>>) \in PagEstado /\ MismaForma(v, Soltar(v, <<pid, x>>))
    BY <2>2, SoltarTipo
  <2>. QED
    BY <2>2, <2>3, FormaTransitiva DEF Sueltas
<1>4. d \in V /\ Suelta(d, d, pid, {})
  BY DEF Sueltas, Suelta, PagBase, PagParte, MismaForma, Guarda
<1>5. SoltarTodas(d, pid, B) = iter[B]
  BY DEF SoltarTodas, FoldSet, MapThenFoldSet
<1>. HIDE DEF F, V
<1>6. PICK g \in [SUBSET B -> V] : Recorre(g, B, d, c, F)
  <2>1. Cerrada(F, B, V)
    BY <1>2, <1>3 DEF Cerrada
  <2>. HIDE DEF c
  <2>. QED
    BY <1>1, <1>4, <2>1, Recurrencia
<1>7. \A s \in SUBSET B : c[s] = Una(s)
  OBVIOUS
<1>. HIDE DEF c
<1>8. \A s \in SUBSET B : s # {} => c[s] \in B /\ c[s] \in s /\ s \ {c[s]} \in SUBSET B /\ g[s \ {c[s]}] \in V
  BY <1>1, <1>6 DEF Elige
<1>9. \A s \in SUBSET B : g[s] = IF s = {} THEN d ELSE Soltar(g[s \ {c[s]}], <<pid, c[s]>>)
  BY <1>2, <1>6, <1>8 DEF Recorre
<1>10. g = [s \in SUBSET B |-> IF s = {} THEN d ELSE Soltar(g[s \ {Una(s)}], <<pid, Una(s)>>)]
  <2>1. \A s \in SUBSET B : g[s] = IF s = {} THEN d ELSE Soltar(g[s \ {Una(s)}], <<pid, Una(s)>>)
    BY <1>7, <1>9
  <2>. HIDE DEF Una
  <2>. QED
    BY <1>6, <2>1
<1>11. iter = [s \in SUBSET B |-> IF s = {} THEN d ELSE Soltar(iter[s \ {Una(s)}], <<pid, Una(s)>>)]
  BY <1>10
<1>. HIDE DEF iter, Una
<1>12. \A s \in SUBSET B : iter[s] = IF s = {} THEN d ELSE Soltar(iter[s \ {Una(s)}], <<pid, Una(s)>>)
  BY <1>11, Zenon
<1>. DEFINE Q == {s \in SUBSET B : iter[s] = g[s] /\ (g[s].caida \/ Suelta(d, g[s], pid, s))}
<1>13. {} \in Q
  BY <1>4, <1>9, <1>12
<1>14. ASSUME NEW s \in SUBSET B, s # {}, s \ {c[s]} \in Q PROVE s \in Q
  <2>. DEFINE r == s \ {c[s]}
              e == g[r]
              i == c[s]
              f == g[s]
  <2>1. iter[r] = e /\ e \in V /\ i \in B /\ i \in s /\ (e.caida \/ Suelta(d, e, pid, r))
    BY <1>8, <1>14
  <2>2. f = Soltar(e, <<pid, i>>) /\ iter[s] = f
    BY <1>7, <1>9, <1>12, <1>14, <2>1
  <2>3. r \cup {i} = s
    BY <2>1
  <2>. HIDE DEF r, e, i, f
  <2>4. f.caida \/ Suelta(d, f, pid, r \cup {i})
    <3>1. e \in Sueltas(d) /\ <<pid, i>> \in PaginasDe(d)
      BY <2>1 DEF V
    <3>2. Soltar(e, <<pid, i>>).caida \/ Suelta(d, Soltar(e, <<pid, i>>), pid, r \cup {i})
      BY <2>1, <3>1, SueltaUna
    <3>. QED
      BY <2>2, <3>2
  <2>. QED
    BY <2>2, <2>3, <2>4 DEF f
<1>15. \A s \in SUBSET B : s \in Q
  <2>. HIDE DEF Q
  <2>. QED
    BY <1>1, <1>13, <1>14, InduccionPartes
<1>16. iter[B] = g[B] /\ (g[B].caida \/ Suelta(d, g[B], pid, B)) /\ g[B] \in V
  <2>1. B \in Q
    BY <1>15
  <2>. QED
    BY <1>6, <2>1
<1>. QED
  BY <1>5, <1>16 DEF V

\* The page of the tareas of the PCB is the first, or it is no page of a TCB.
LEMMA PaginaTareas ==
  ASSUME config \in Configuraciones, NEW t \in Nat \ {0}, NEW i \in PaginasTCB(t), i > 1
  PROVE  i # 1 \div TAM + 1
<1>1. TAM \in Nat \ {0}
  BY TamDe
<1>2. PICK a \in DireccionTCB(t)..(DireccionTCB(t) + TAM_TCB - 1) : i = a \div TAM + 1
  BY DEF PaginasTCB
<1>3. a \in Nat /\ a >= 2
  BY <1>2 DEF DireccionTCB, TAM_PCB, TAM_TCB
<1>4. CASE TAM = 1
  <2>1. a \div TAM = a /\ 1 \div TAM = 1
    BY <1>3, <1>4
  <2>. QED
    BY <1>2, <1>3, <2>1
<1>5. CASE TAM > 1
  <2>1. 1 \div TAM = 0
    BY <1>1, <1>5
  <2>. QED
    BY <2>1
<1>. QED
  BY <1>1, <1>4, <1>5

-------------------------------------------------------------------------------
\* A member leaves, and the rest of them stay with what is known of their crews.
SinUno(d, n, pid, tid) ==
  /\ PagBien(n) /\ DOMAIN n.procesos \subseteq DOMAIN d.procesos
  /\ \A q \in DOMAIN d.procesos : \A t \in d.procesos[q].tcbs :
       ~(q = pid /\ t = tid) => q \in DOMAIN n.procesos /\ t \in n.procesos[q].tcbs

\* The pages that are only of who leaves.
Borrables(d, f, pid, tid) ==
  LET quedan == f.procesos[pid].tcbs
      primera == Leida(d, pid, 1)[2] \div TAM + 1
  IN {i \in PaginasTCB(tid) : /\ i > 1 /\ i < primera /\ ~DeOtro(i, quedan)
                              /\ Pagina(f, <<pid, i>>).frame # -1}

\* They are none of those of who is left.
LEMMA BorrablesDe ==
  ASSUME config \in Configuraciones, NEW d, NEW pid \in Pids, ProcesoBien(d, pid), NEW tid \in Nat \ {0}, NEW f,
         NEW n, NEW i \in Borrables(d, f, pid, tid)
  PROVE  i \notin Vivas(pid, f.procesos[pid].tcbs, n)
<1>. DEFINE quedan == f.procesos[pid].tcbs
            l == DireccionTareas(pid)
<1>1. Leida(d, pid, 1)[2] = l
  BY DEF ProcesoBien, Campo
<1>2. i \in PaginasTCB(tid) /\ i > 1 /\ i < l \div TAM + 1 /\ ~DeOtro(i, quedan)
  BY <1>1 DEF Borrables
<1>3. i # 1 /\ i # 1 \div TAM + 1
  BY <1>2, PaginaTareas
<1>4. i \notin UNION {PaginasTCB(t) : t \in quedan}
  BY <1>2 DEF DeOtro
<1>5. i \notin (l \div TAM + 1)..n
  <2>1. \A j \in (l \div TAM + 1)..n : ~(j < l \div TAM + 1)
    <3>1. l \in Nat /\ TAM \in Nat \ {0}
      BY ImagenDe, TamDe
    <3>2. l \div TAM \in Nat
      BY <3>1, DivisionDe
    <3>. DEFINE z == l \div TAM
    <3>. HIDE DEF z
    <3>3. z \in Nat
      BY <3>2 DEF z
    <3>4. \A j \in (z + 1)..n : ~(j < z + 1)
      BY <3>3
    <3>. QED
      BY <3>4 DEF z
  <2>. QED
    BY <1>2, <2>1
<1>. HIDE DEF quedan, l
<1>6. i \notin Vivas(pid, quedan, n)
  BY <1>3, <1>4, <1>5 DEF Vivas, l
<1>. QED
  BY <1>6 DEF quedan

\* They are pages of the process.
LEMMA BorrablesPaginas ==
  ASSUME config \in Configuraciones, NEW d \in PagEstado, NEW pid \in DOMAIN d.procesos, ProcesoBien(d, pid),
         NEW tid \in d.procesos[pid].tcbs, NEW f \in PagEstado, pid \in DOMAIN f.procesos,
         DOMAIN f.procesos[pid].paginas = DOMAIN d.procesos[pid].paginas
  PROVE  /\ IsFiniteSet(Borrables(d, f, pid, tid))
         /\ \A i \in Borrables(d, f, pid, tid) : <<pid, i>> \in PaginasDe(f)
<1>. DEFINE n == Len(d.procesos[pid].paginas)
            B == Borrables(d, f, pid, tid)
<1>1. \A i \in Vivas(pid, {tid}, n) : <<pid, i>> \in PaginasDe(d)
  BY VivasPaginas
<1>2. PaginasTCB(tid) \subseteq Vivas(pid, {tid}, n)
  BY DEF Vivas
<1>3. n \in Nat /\ DOMAIN d.procesos[pid].paginas = 1..n
  BY ProcesoDe
<1>4. B \subseteq PaginasTCB(tid)
  BY DEF Borrables
<1>. HIDE DEF n, B
<1>5. \A i \in B : i \in 1..n
  <2>1. \A i : <<pid, i>> \in PaginasDe(d) => i \in 1..n
    BY <1>3, PaginaDe
  <2>. QED
    BY <1>1, <1>2, <1>4, <2>1
<1>6. IsFiniteSet(B)
  <2>1. IsFiniteSet(1..n)
    BY <1>3, FS_Interval
  <2>2. B \subseteq 1..n
    BY <1>5
  <2>. QED
    BY <2>1, <2>2, FS_Subset
<1>7. \A i \in B : <<pid, i>> \in PaginasDe(f)
  BY <1>3, <1>5 DEF PaginasDe
<1>. QED
  BY <1>6, <1>7 DEF B

\* The pages of who leaves, given back, leave the processes as they were.
LEMMA SoltarBien ==
  ASSUME config \in Configuraciones, NEW f, PagBien(f), NEW pid \in DOMAIN f.procesos, NEW B,
         \A i \in B : i \notin Vivas(pid, f.procesos[pid].tcbs, Len(f.procesos[pid].paginas)),
         NEW h \in Sueltas(f), Suelta(f, h, pid, B)
  PROVE  Conserva(f, h)
<1>. DEFINE P == PaginasDe(f) \ ({pid} \X B)
<1>1. /\ f \in PagEstado /\ h \in PagEstado /\ MismaForma(f, h) /\ PagBase(h) /\ Guarda(f, h, P)
  BY DEF Sueltas, Suelta, PagBien, PagBase, PagParte
<1>2. ASSUME NEW p \in DOMAIN f.procesos PROVE ProcesoBien(h, p)
  <2>1. /\ ProcesoBien(f, p) /\ p \in DOMAIN h.procesos
        /\ h.procesos[p].tamanio = f.procesos[p].tamanio /\ h.procesos[p].tcbs = f.procesos[p].tcbs
        /\ DOMAIN h.procesos[p].paginas = DOMAIN f.procesos[p].paginas
    BY <1>1 DEF PagBien, MismaForma
  <2>2. Len(h.procesos[p].paginas) = Len(f.procesos[p].paginas)
    BY <1>1, <2>1, MismoLargo
  <2>3. \A i \in Vivas(p, f.procesos[p].tcbs, Len(f.procesos[p].paginas)) : <<p, i>> \in PaginasDe(f)
    BY <1>1, <2>1, VivasPaginas
  <2>4. \A i \in Vivas(p, h.procesos[p].tcbs, Len(h.procesos[p].paginas)) : <<p, i>> \in P
    BY <2>1, <2>2, <2>3
  <2>. HIDE DEF P
  <2>. QED
    BY <1>1, <2>1, <2>4, GuardaVivas
<1>3. PagBien(h)
  BY <1>1, <1>2 DEF PagBien, MismaForma
<1>. QED
  BY <1>1, <1>3 DEF Conserva, MismaForma

\* pag_eliminar_tcb
LEMMA EliminarTCBDe ==
  ASSUME config \in Configuraciones, NEW d, PagBien(d), NEW pid \in DOMAIN d.procesos, NEW tid \in d.procesos[pid].tcbs,
         ~PagEliminarTCB(d, pid, tid).caida
  PROVE  SinUno(d, PagEliminarTCB(d, pid, tid), pid, tid)
<1>. DEFINE e == SinTCB(d, pid, tid)
            quedan == e.procesos[pid].tcbs
            f == Recorrer(e, pid, 1, 1)
            primera == Leida(d, pid, 1)[2] \div TAM + 1
            B == {i \in PaginasTCB(tid) : /\ i > 1 /\ i < primera /\ ~DeOtro(i, quedan)
                                          /\ Pagina(f, <<pid, i>>).frame # -1}
            n == PagEliminarTCB(d, pid, tid)
<1>1. d \in PagEstado /\ ProcesoBien(d, pid) /\ pid \in Pids /\ tid \in Nat \ {0}
  <2>1. d \in PagEstado /\ ProcesoBien(d, pid)
    BY DEF PagBien, PagBase, PagParte
  <2>2. tid \in 1..TRIPULANTES[pid] /\ tid \in Nat
    BY <2>1, ProcesoDe DEF ProcesoBien
  <2>. QED
    BY <2>1, <2>2, PagEstadoDe
<1>2. n = IF quedan = {} THEN PagEliminarPCB(e, pid) ELSE IF f.caida THEN f ELSE SoltarTodas(f, pid, B)
  BY DEF PagEliminarTCB, SinTCB, SoltarTodas
<1>. HIDE DEF n
<1>3. /\ PagBien(e) /\ DOMAIN e.procesos = DOMAIN d.procesos
      /\ e.procesos[pid].paginas = d.procesos[pid].paginas
      /\ quedan = d.procesos[pid].tcbs \ {tid}
      /\ \A p \in DOMAIN d.procesos : p # pid => e.procesos[p].tcbs = d.procesos[p].tcbs
  BY SinTCBDe
<1>. HIDE DEF e
<1>4. CASE quedan = {}
  <2>. DEFINE m == PagEliminarPCB(e, pid)
  <2>1. n = m /\ ~m.caida
    BY <1>2, <1>4 DEF n
  <2>2. /\ PagBien(m) /\ DOMAIN m.procesos = DOMAIN e.procesos \ {pid}
        /\ \A p \in DOMAIN m.procesos : m.procesos[p].tcbs = e.procesos[p].tcbs
    BY <1>3, <2>1, EliminarPCBDe
  <2>. HIDE DEF m
  <2>3. SinUno(d, m, pid, tid)
    BY <1>3, <1>4, <2>2 DEF SinUno
  <2>. QED
    BY <2>1, <2>3 DEF n
<1>5. CASE quedan # {}
  <2>1. PagBase(e) /\ pid \in DOMAIN e.procesos
    BY <1>3 DEF PagBien
  <2>2. f \in PagEstado /\ (f.caida \/ Sigue(e, f))
    BY <2>1, RecorrerDe DEF Despues
  <2>. HIDE DEF f
  <2>3. ~f.caida /\ n = SoltarTodas(f, pid, B)
    BY <1>2, <1>5 DEF n
  <2>4. PagBien(f) /\ Conserva(e, f) /\ DOMAIN f.procesos[pid].paginas = DOMAIN d.procesos[pid].paginas
    <3>1. Sigue(e, f)
      BY <2>2, <2>3
    <3>2. PagBien(f) /\ Conserva(e, f)
      BY <1>3, <3>1, SigueBien DEF Conserva
    <3>. QED
      BY <1>3, <3>1, <3>2 DEF Sigue, MismaForma
  <2>5. pid \in DOMAIN f.procesos /\ f.procesos[pid].tcbs = quedan
    BY <1>3, <2>4 DEF Conserva
  <2>6. B = Borrables(d, f, pid, tid)
    BY <2>5 DEF Borrables
  <2>. HIDE DEF B, primera
  <2>7. IsFiniteSet(B) /\ \A i \in B : <<pid, i>> \in PaginasDe(f)
    BY <1>1, <2>2, <2>4, <2>5, <2>6, BorrablesPaginas
  <2>8. \A i \in B : i \notin Vivas(pid, f.procesos[pid].tcbs, Len(f.procesos[pid].paginas))
    BY <1>1, <2>6, BorrablesDe
  <2>. DEFINE h == SoltarTodas(f, pid, B)
  <2>9. h \in Sueltas(f) /\ (h.caida \/ Suelta(f, h, pid, B))
    <3>1. PagBase(f)
      BY <2>4 DEF PagBien
    <3>. QED
      BY <2>7, <3>1, SoltarTodasDe
  <2>10. n = h /\ ~h.caida
    BY <2>3 DEF n
  <2>. HIDE DEF h
  <2>11. Conserva(f, h)
    BY <2>4, <2>5, <2>8, <2>9, <2>10, SoltarBien
  <2>12. SinUno(d, h, pid, tid)
    <3>1. Conserva(e, h)
      BY <2>4, <2>11 DEF Conserva
    <3>. HIDE DEF quedan
    <3>2. PagBien(h) /\ DOMAIN h.procesos = DOMAIN d.procesos /\ h.procesos[pid].tcbs = quedan
          /\ \A p \in DOMAIN d.procesos : p # pid => h.procesos[p].tcbs = d.procesos[p].tcbs
      BY <1>3, <3>1 DEF Conserva, quedan
    <3>. QED
      BY <1>3, <3>2 DEF SinUno
  <2>. QED
    BY <2>10, <2>12 DEF n
<1>. QED
  BY <1>4, <1>5

-------------------------------------------------------------------------------
Conectadas == {"creada", "trabaja", "termino"}
Fases == Conectadas \cup {"fuera", "expulsado"}

\* The crews are started in order, and who is asking for a task is connected.
FasesInv ==
  /\ config \in Configuraciones /\ fase \in [Miembros -> Fases]
  /\ DOMAIN separando \subseteq {m \in Miembros : fase[m] \in {"creada", "trabaja"}}
  /\ \E n \in 0..Len(TRIPULANTES) : \A pid \in Pids : fase[<<pid, 1>>] # "fuera" <=> pid <= n

SiguenConectadas == \A u \in Miembros :
  (fase'[u] \in Conectadas <=> fase[u] \in Conectadas) /\ (fase[u] # "fuera" => fase'[u] # "fuera")

\* Crews and members: what the sets hold.
LEMMA MiembrosDe ==
  /\ Pids = 1..Len(TRIPULANTES) /\ Len(TRIPULANTES) \in Nat
  /\ \A pid \in Pids : TRIPULANTES[pid] \in Nat \ {0} /\ <<pid, 1>> \in De(pid) /\ De(pid) \subseteq Miembros
  /\ \A m \in Miembros : m = <<m[1], m[2]>> /\ m[1] \in Pids /\ m[2] \in 1..TRIPULANTES[m[1]] /\ m \in De(m[1])
  /\ \A pid, q \in Pids : <<q, 1>> \in De(pid) <=> q = pid
<1>1. Pids = 1..Len(TRIPULANTES) /\ Len(TRIPULANTES) \in Nat
  BY EstructurasAssumption, LenProperties DEF Pids
<1>2. \A pid \in Pids : TRIPULANTES[pid] \in Nat \ {0}
  <2>. DEFINE S == Nat \ {0}
  <2>1. TRIPULANTES \in Seq(S)
    BY EstructurasAssumption
  <2>. HIDE DEF S
  <2>2. \A pid \in Pids : TRIPULANTES[pid] \in S
    BY <1>1, <2>1, ElementOfSeq
  <2>. QED
    BY <2>2 DEF S
<1>3. \A pid \in Pids : 1 \in 1..TRIPULANTES[pid]
  BY <1>2
<1>. QED
  BY <1>1, <1>2, <1>3 DEF De, Miembros

\* The crew that is started is the first that is not.
LEMMA ProximoPidDe ==
  ASSUME FasesInv, ProximoPid \in Pids
  PROVE  /\ fase[<<ProximoPid, 1>>] = "fuera"
         /\ \A pid \in Pids : fase[<<pid, 1>>] # "fuera" <=> pid <= ProximoPid - 1
         /\ ProximoPid \in 1..Len(TRIPULANTES)
<1>1. PICK n \in 0..Len(TRIPULANTES) : \A pid \in Pids : fase[<<pid, 1>>] # "fuera" <=> pid <= n
  BY DEF FasesInv
<1>2. n \in Nat /\ Pids = 1..Len(TRIPULANTES) /\ Len(TRIPULANTES) \in Nat
  BY MiembrosDe
<1>3. {pid \in Pids : fase[<<pid, 1>>] # "fuera"} = 1..n
  BY <1>1, <1>2
<1>4. Cardinality(1..n) = n
  BY <1>2, FS_Interval
<1>5. ProximoPid = n + 1
  <2>1. Cardinality({pid \in Pids : fase[<<pid, 1>>] # "fuera"}) = n
    BY <1>3, <1>4, Zenon
  <2>. QED
    BY <2>1 DEF ProximoPid
<1>6. fase[<<n + 1, 1>>] = "fuera"
  BY <1>1, <1>2, <1>5
<1>. QED
  BY <1>1, <1>2, <1>5, <1>6

\* Nobody is connected at the start.
LEMMA FasesInit == Init => FasesInv
<1>1. SUFFICES ASSUME Init PROVE FasesInv
  OBVIOUS
<1>2. \A pid \in Pids : <<pid, 1>> \in De(pid) /\ De(pid) \subseteq Miembros /\ pid \in 1..Len(TRIPULANTES)
  BY MiembrosDe
<1>7. fase = [m \in Miembros |-> "fuera"]
  BY <1>1 DEF Init
<1>3. \A pid \in Pids : fase[<<pid, 1>>] # "fuera" <=> pid <= 0
  <2>1. SUFFICES ASSUME NEW pid \in Pids PROVE fase[<<pid, 1>>] = "fuera" /\ ~(pid <= 0)
    OBVIOUS
  <2>2. <<pid, 1>> \in Miembros
    BY <1>2
  <2>3. pid \in 1..Len(TRIPULANTES) /\ Len(TRIPULANTES) \in Nat
    BY <1>2, MiembrosDe
  <2>. QED
    BY <1>7, <2>2, <2>3
<1>4. 0 \in 0..Len(TRIPULANTES)
  BY MiembrosDe
<1>5. fase \in [Miembros -> Fases]
  BY <1>1 DEF Init, Fases
<1>. QED
  BY <1>1, <1>3, <1>4, <1>5 DEF FasesInv, Init

\* An answer to a member that is asking.
LEMMA ResponderFases ==
  ASSUME FasesInv, NEW m \in Miembros, NEW respuesta, fase[m] \in {"creada", "trabaja"}, Responder(m, respuesta),
         DOMAIN separando' \subseteq DOMAIN separando \ {m}, config' = config
  PROVE  FasesInv' /\ SiguenConectadas
<1>1. /\ fase' \in [Miembros -> Fases] /\ fase'[m] \in {"trabaja", "termino"}
      /\ \A u \in Miembros : u # m => fase'[u] = fase[u]
  BY DEF FasesInv, Responder, Fases, Conectadas
<1>2. PICK n \in 0..Len(TRIPULANTES) : \A pid \in Pids : fase[<<pid, 1>>] # "fuera" <=> pid <= n
  BY DEF FasesInv
<1>3. \A pid \in Pids : fase'[<<pid, 1>>] # "fuera" <=> pid <= n
  BY <1>1, <1>2, MiembrosDe
<1>4. DOMAIN separando' \subseteq {u \in Miembros : fase'[u] \in {"creada", "trabaja"}}
  BY <1>1 DEF FasesInv
<1>. QED
  BY <1>1, <1>2, <1>3, <1>4 DEF FasesInv, Conectadas, SiguenConectadas

\* A step that leaves who is connected as it was.
LEMMA FasesIguales ==
  ASSUME FasesInv, fase' = fase, config' = config, DOMAIN separando' \subseteq DOMAIN separando
  PROVE  FasesInv' /\ SiguenConectadas
BY DEF FasesInv, SiguenConectadas

\* INICIAR_PATOTA connects the members of one crew, the next one, or nobody.
LEMMA IniciarFases ==
  ASSUME FasesInv, NEW pid \in Pids, IniciarPatota(pid)
  PROVE  FasesInv' /\ (CAIDA' => fase' = fase)
         /\ (~CAIDA' => /\ \A m \in De(pid) : fase'[m] = "creada"
                        /\ \A m \in Miembros : m \notin De(pid) => fase'[m] = fase[m])
<1>1. /\ pid = ProximoPid /\ config' = config /\ separando' = separando
      /\ fase' = [m \in Miembros |-> IF m \in De(pid) /\ ~CAIDA' THEN "creada" ELSE fase[m]]
  BY DEF IniciarPatota
<1>2. fase' \in [Miembros -> Fases]
  BY <1>1 DEF FasesInv, Fases, Conectadas
<1>3. CASE CAIDA'
  <2>1. fase' = fase
    BY <1>1, <1>3 DEF FasesInv
  <2>. QED
    BY <1>1, <1>3, <2>1, FasesIguales
<1>4. CASE ~CAIDA'
  <2>1. /\ \A m \in De(pid) : fase'[m] = "creada"
        /\ \A m \in Miembros : m \notin De(pid) => fase'[m] = fase[m]
    BY <1>1, <1>4, MiembrosDe
  <2>2. /\ \A q \in Pids : fase[<<q, 1>>] # "fuera" <=> q <= pid - 1
        /\ pid \in 1..Len(TRIPULANTES)
    BY <1>1, ProximoPidDe
  <2>3. \A q \in Pids : fase'[<<q, 1>>] # "fuera" <=> q <= pid
    <3>1. SUFFICES ASSUME NEW q \in Pids PROVE fase'[<<q, 1>>] # "fuera" <=> q <= pid
      OBVIOUS
    <3>2. q \in Nat /\ pid \in Nat /\ <<q, 1>> \in Miembros /\ (<<q, 1>> \in De(pid) <=> q = pid)
      BY MiembrosDe
    <3>3. CASE q = pid
      BY <2>1, <3>2, <3>3
    <3>4. CASE q # pid
      BY <2>1, <2>2, <3>2, <3>4
    <3>. QED
      BY <3>3, <3>4
  <2>4. DOMAIN separando' \subseteq {m \in Miembros : fase'[m] \in {"creada", "trabaja"}}
    BY <1>1, <2>1 DEF FasesInv
  <2>5. config' \in Configuraciones
    BY <1>1 DEF FasesInv
  <2>6. pid \in 0..Len(TRIPULANTES)
    BY <2>2, MiembrosDe
  <2>. QED
    BY <1>2, <1>4, <2>1, <2>3, <2>4, <2>5, <2>6 DEF FasesInv
<1>. QED
  BY <1>3, <1>4

\* EXPULSAR_TRIPULANTE disconnects one member at most.
LEMMA ExpulsarFases ==
  ASSUME FasesInv, NEW m \in Miembros, Expulsar(m)
  PROVE  /\ FasesInv' /\ fase[m] \in Conectadas
         /\ \A u \in Miembros : fase'[u] \in Conectadas => fase[u] \in Conectadas /\ (u # m \/ CAIDA')
         /\ \A u \in Miembros : fase[u] # "fuera" => fase'[u] # "fuera"
<1>1. /\ fase[m] \in {"trabaja", "termino"} /\ m \notin DOMAIN separando /\ config' = config /\ separando' = separando
      /\ fase' = [fase EXCEPT ![m] = IF CAIDA' THEN @ ELSE "expulsado"]
  BY DEF Expulsar, Conectado, strtok
<1>2. /\ fase' \in [Miembros -> Fases] /\ fase'[m] = (IF CAIDA' THEN fase[m] ELSE "expulsado")
      /\ \A u \in Miembros : u # m => fase'[u] = fase[u]
  BY <1>1 DEF FasesInv, Fases
<1>3. PICK n \in 0..Len(TRIPULANTES) : \A pid \in Pids : fase[<<pid, 1>>] # "fuera" <=> pid <= n
  BY DEF FasesInv
<1>4. \A pid \in Pids : fase'[<<pid, 1>>] # "fuera" <=> pid <= n
  BY <1>1, <1>2, <1>3, MiembrosDe
<1>5. DOMAIN separando' \subseteq {u \in Miembros : fase'[u] \in {"creada", "trabaja"}}
  BY <1>1, <1>2 DEF FasesInv
<1>. QED
  BY <1>1, <1>2, <1>3, <1>4, <1>5 DEF FasesInv, Conectadas

\* The requests of a task.
LEMMA ProximaFases ==
  ASSUME FasesInv, NEW m \in Miembros, ProximaTareaPag(m) \/ ProximaTareaSeg(m) \/ Separar(m) \/ SepararFin(m)
  PROVE  /\ FasesInv' /\ SiguenConectadas
<1>1. CASE ProximaTareaPag(m)
  <2>1. fase[m] \in {"creada", "trabaja"} /\ m \notin DOMAIN separando /\ config' = config /\ separando' = separando
    BY <1>1 DEF ProximaTareaPag, PuedePedir, strtok
  <2>2. fase' = fase \/ \E respuesta : Responder(m, respuesta)
    BY <1>1 DEF ProximaTareaPag, clientes
  <2>. QED
    BY <2>1, <2>2, ResponderFases, FasesIguales
<1>2. CASE ProximaTareaSeg(m)
  <2>1. fase[m] \in {"creada", "trabaja"} /\ config' = config /\ fase' = fase
    BY <1>2 DEF ProximaTareaSeg, PuedePedir, clientes
  <2>2. DOMAIN separando' = DOMAIN separando \cup {m}
    BY <1>2 DEF ProximaTareaSeg, Con
  <2>. QED
    BY <2>1, <2>2 DEF FasesInv, SiguenConectadas
<1>3. CASE Separar(m)
  <2>1. config' = config /\ fase' = fase
    BY <1>3 DEF Separar, clientes
  <2>2. DOMAIN separando' = DOMAIN separando
    BY <1>3 DEF Separar
  <2>. QED
    BY <2>1, <2>2, FasesIguales
<1>4. CASE SepararFin(m)
  <2>1. m \in DOMAIN separando /\ config' = config /\ \E respuesta : Responder(m, respuesta)
    BY <1>4 DEF SepararFin
  <2>2. DOMAIN separando' = DOMAIN separando \ {m}
    BY <1>4 DEF SepararFin, Restrict
  <2>3. fase[m] \in {"creada", "trabaja"}
    BY <2>1 DEF FasesInv
  <2>. QED
    BY <2>1, <2>2, <2>3, ResponderFases
<1>. QED
  BY <1>1, <1>2, <1>3, <1>4

\* What changes nothing of a member but its TCB.
LEMMA CambiarFases ==
  ASSUME FasesInv,
         \/ \E m \in Miembros, estado \in Estados : CambiarEstado(m, estado)
         \/ \E m \in Miembros, x \in Posiciones : Mover(m, x)
         \/ Compactar \/ UNCHANGED vars
  PROVE  /\ FasesInv' /\ SiguenConectadas
<1>1. fase' = fase /\ config' = config /\ separando' = separando
  BY DEF CambiarEstado, Mover, Compactar, vars, clientes, strtok
<1>. QED
  BY <1>1, FasesIguales

-------------------------------------------------------------------------------
SegTam == IF config.esquema = "SEGMENTACION" THEN config.tamanio ELSE 0

\* With segmentation every member that is connected has its TCB.
SegInv ==
  /\ SegBien(seg, SegTam) /\ TCBs(seg)
  /\ \A pid \in DOMAIN seg.procesos : fase[<<pid, 1>>] # "fuera"
  /\ Esquema("SEGMENTACION") =>
       \A m \in Miembros : fase[m] \in Conectadas => Presente(seg, m[1], m[2])

\* The size of the memory that segmentation uses.
LEMMA SegTamDe ==
  ASSUME FasesInv
  PROVE  SegTam \in Nat /\ (config.esquema = "SEGMENTACION" => config.tamanio = SegTam)
<1>1. config.tamanio \in Nat
  BY EstructurasAssumption DEF FasesInv
<1>. QED
  BY <1>1 DEF SegTam

\* The segments at the start: one hole.
LEMMA SegInvInit == Init => SegInv
<1>1. SUFFICES ASSUME Init PROVE SegInv
  OBVIOUS
<1>2. FasesInv
  BY <1>1, FasesInit
<1>3. SegTam \in Nat
  BY <1>2, SegTamDe
<1>4. seg = SegIniciar(SegTam)
  BY <1>1 DEF Init, SegTam
<1>5. SegBien(seg, SegTam) /\ TCBs(seg) /\ seg.procesos = <<>>
  BY <1>3, <1>4, IniciarBien
<1>6. \A m \in Miembros : fase[m] \notin Conectadas
  BY <1>1 DEF Init, Conectadas
<1>. QED
  BY <1>5, <1>6 DEF SegInv

\* Dying changes nothing that anyone will see.
LEMMA QuedaSeg ==
  ASSUME NEW T \in Nat, NEW s, SegBien(s, T), TCBs(s), NEW n, n.caida \/ (SegBien(n, T) /\ TCBs(n))
  PROVE  /\ SegBien(Queda(s, n), T) /\ TCBs(Queda(s, n))
         /\ n.caida => Queda(s, n).caida /\ Queda(s, n).procesos = s.procesos
         /\ ~n.caida => Queda(s, n) = n
<1>1. CASE ~n.caida
  BY <1>1 DEF Queda
<1>2. CASE n.caida
  <2>. DEFINE e == [s EXCEPT !.caida = TRUE]
  <2>1. Queda(s, n) = e
    BY <1>2 DEF Queda
  <2>2. s \in SegEstado(T)
    BY BienDe
  <2>3. e \in SegEstado(T) /\ e.memoria = s.memoria /\ e.procesos = s.procesos /\ e.huecos = s.huecos /\ e.caida = TRUE
    BY <2>2 DEF SegEstado
  <2>. HIDE DEF e
  <2>6. Segmentos(e) = Segmentos(s)
    BY <2>3 DEF Segmentos
  <2>7. Unico(s) => Unico(e)
    BY <2>3 DEF Unico
  <2>8. \A x : EsTCB(e, x) <=> EsTCB(s, x)
    BY <2>3 DEF EsTCB
  <2>9. TCBs(s) => TCBs(e)
    BY <2>3, <2>8 DEF TCBs, ConTCBs
  <2>4. Segmentos(e) = Segmentos(s) /\ (Unico(s) => Unico(e)) /\ (TCBs(s) => TCBs(e))
    BY <2>6, <2>7, <2>9
  <2>5. SegBien(e, T)
    BY <2>3, <2>4 DEF SegBien, Repartida
  <2>. QED
    BY <1>2, <2>1, <2>3, <2>4, <2>5
<1>. QED
  BY <1>1, <1>2

\* A step that keeps the segments, and of who is connected leaves some.
LEMMA SegPaso ==
  ASSUME FasesInv, SegInv, config' = config, NEW n, EnSeg(n), n.caida \/ (SegBien(n, SegTam) /\ TCBs(n)),
         ~n.caida => /\ DOMAIN n.procesos \subseteq DOMAIN seg.procesos
                     /\ \A m \in Miembros : fase'[m] \in Conectadas =>
                          fase[m] \in Conectadas /\ (Presente(seg, m[1], m[2]) => Presente(n, m[1], m[2])),
         Esquema("SEGMENTACION"), \A pid \in Pids : fase[<<pid, 1>>] # "fuera" => fase'[<<pid, 1>>] # "fuera"
  PROVE  SegInv'
<1>1. seg' = Queda(seg, n) /\ SegTam' = SegTam /\ SegTam \in Nat /\ SegBien(seg, SegTam) /\ TCBs(seg)
  BY SegTamDe DEF EnSeg, SegInv, SegTam
<1>2. /\ SegBien(seg', SegTam') /\ TCBs(seg')
      /\ n.caida => seg'.caida /\ seg'.procesos = seg.procesos
      /\ ~n.caida => seg' = n
  BY <1>1, QuedaSeg
<1>3. DOMAIN seg'.procesos \subseteq DOMAIN seg.procesos /\ DOMAIN seg.procesos \subseteq Pids
  <2>1. DOMAIN seg.procesos \subseteq Pids
    BY <1>1, BienDe, EstadoDe
  <2>. QED
    BY <1>2, <2>1
<1>4. \A pid \in DOMAIN seg'.procesos : fase'[<<pid, 1>>] # "fuera"
  BY <1>3 DEF SegInv
<1>5. Esquema("SEGMENTACION")' => \A m \in Miembros : fase'[m] \in Conectadas => Presente(seg', m[1], m[2])
  <2>1. SUFFICES ASSUME ~CAIDA', NEW m \in Miembros, fase'[m] \in Conectadas PROVE Presente(seg', m[1], m[2])
    BY DEF Esquema
  <2>2. ~n.caida /\ seg' = n
    BY <1>2, <2>1 DEF CAIDA
  <2>3. fase[m] \in Conectadas /\ (Presente(seg, m[1], m[2]) => Presente(n, m[1], m[2]))
    BY <2>1, <2>2
  <2>4. Presente(seg, m[1], m[2])
    BY <2>3 DEF SegInv
  <2>. QED
    BY <2>2, <2>3, <2>4
<1>. QED
  BY <1>2, <1>4, <1>5 DEF SegInv

\* A step that does nothing to the segments.
LEMMA SegQuieto ==
  ASSUME FasesInv, SegInv, seg' = seg, config' = config,
         \A pid \in Pids : fase[<<pid, 1>>] # "fuera" => fase'[<<pid, 1>>] # "fuera",
         Esquema("SEGMENTACION")' =>
           Esquema("SEGMENTACION") /\ \A m \in Miembros : fase'[m] \in Conectadas => fase[m] \in Conectadas
  PROVE  SegInv'
<1>1. SegTam' = SegTam /\ SegTam \in Nat /\ DOMAIN seg.procesos \subseteq Pids
  <2>1. SegTam \in Nat
    BY SegTamDe
  <2>2. DOMAIN seg.procesos \subseteq Pids
    BY <2>1, BienDe, EstadoDe DEF SegInv
  <2>. QED
    BY <2>1, <2>2 DEF SegTam
<1>. QED
  BY <1>1 DEF SegInv

\* One scheme at a time, and only while the process lives.
LEMMA EsquemaDe ==
  /\ ~(Esquema("SEGMENTACION") /\ Esquema("PAGINACION"))
  /\ \A e : Esquema(e) => ~CAIDA /\ ~seg.caida /\ ~pag.caida /\ config.esquema = e
BY DEF Esquema, CAIDA

\* No step takes a member back to before its crew was started.
LEMMA FasesMonotonas ==
  ASSUME FasesInv, [Next]_vars
  PROVE  /\ FasesInv' /\ config' = config
         /\ \A m \in Miembros : fase[m] # "fuera" => fase'[m] # "fuera"
<1>1. ASSUME NEW pid \in Pids, IniciarPatota(pid)
      PROVE  FasesInv' /\ config' = config /\ \A m \in Miembros : fase[m] # "fuera" => fase'[m] # "fuera"
  <2>1. FasesInv' /\ config' = config
    BY <1>1, IniciarFases DEF IniciarPatota
  <2>2. fase' = [m \in Miembros |-> IF m \in De(pid) /\ ~CAIDA' THEN "creada" ELSE fase[m]]
    BY <1>1 DEF IniciarPatota
  <2>. QED
    BY <2>1, <2>2
<1>2. ASSUME NEW m \in Miembros, ProximaTareaPag(m) \/ ProximaTareaSeg(m) \/ Separar(m) \/ SepararFin(m)
      PROVE  FasesInv' /\ config' = config /\ \A u \in Miembros : fase[u] # "fuera" => fase'[u] # "fuera"
  <2>1. FasesInv' /\ SiguenConectadas
    BY <1>2, ProximaFases
  <2>2. config' = config
    BY <1>2 DEF ProximaTareaPag, ProximaTareaSeg, Separar, SepararFin
  <2>. QED
    BY <2>1, <2>2 DEF SiguenConectadas
<1>3. ASSUME NEW m \in Miembros, Expulsar(m)
      PROVE  FasesInv' /\ config' = config /\ \A u \in Miembros : fase[u] # "fuera" => fase'[u] # "fuera"
  BY <1>3, ExpulsarFases DEF Expulsar
<1>4. ASSUME \/ \E m \in Miembros, estado \in Estados : CambiarEstado(m, estado)
             \/ \E m \in Miembros, x \in Posiciones : Mover(m, x)
             \/ Compactar \/ UNCHANGED vars
      PROVE  FasesInv' /\ config' = config /\ \A u \in Miembros : fase[u] # "fuera" => fase'[u] # "fuera"
  <2>1. FasesInv' /\ SiguenConectadas
    BY <1>4, CambiarFases
  <2>2. config' = config
    BY <1>4 DEF CambiarEstado, Mover, Compactar, vars
  <2>. QED
    BY <2>1, <2>2 DEF SiguenConectadas
<1>. QED
  BY <1>1, <1>2, <1>3, <1>4 DEF Next

-------------------------------------------------------------------------------
\* The start of a crew: its segments are its PCB, a TCB of each member and its
\* tasks.
LEMMA IniciarSeg ==
  ASSUME FasesInv, SegInv, NEW pid \in Pids, IniciarPatota(pid)
  PROVE  SegInv'
<1>1. /\ FasesInv' /\ config' = config /\ (CAIDA' => fase' = fase)
      /\ (~CAIDA' => /\ \A m \in De(pid) : fase'[m] = "creada"
                     /\ \A m \in Miembros : m \notin De(pid) => fase'[m] = fase[m])
  BY IniciarFases DEF IniciarPatota
<1>2. \A q \in Pids : <<q, 1>> \in Miembros /\ (<<q, 1>> \in De(pid) <=> q = pid)
  BY MiembrosDe
<1>3. \A q \in Pids : fase[<<q, 1>>] # "fuera" => fase'[<<q, 1>>] # "fuera"
  BY <1>1, <1>2
<1>4. CASE Esquema("PAGINACION")
  <2>1. ~Esquema("SEGMENTACION") /\ ~Esquema("SEGMENTACION")'
    BY <1>1, <1>4 DEF Esquema
  <2>2. seg' = seg
    BY <2>1 DEF IniciarPatota, EnPag
  <2>. QED
    BY <1>1, <1>3, <2>1, <2>2, SegQuieto
<1>5. CASE Esquema("SEGMENTACION")
  <2>. DEFINE n == SegGuardarPatota(seg, pid)
  <2>1. EnSeg(n) /\ ~CAIDA /\ ~seg.caida
    BY <1>5, EsquemaDe DEF IniciarPatota
  <2>2. /\ SegTam \in Nat /\ config.tamanio = SegTam /\ SegBien(seg, SegTam) /\ TCBs(seg)
        /\ SegTam' = SegTam
    BY <1>1, <1>5, SegTamDe DEF Esquema, SegInv, SegTam
  <2>3. pid \notin DOMAIN seg.procesos /\ DOMAIN seg.procesos \subseteq Pids
    <3>1. fase[<<pid, 1>>] = "fuera"
      BY ProximoPidDe DEF IniciarPatota
    <3>2. DOMAIN seg.procesos \subseteq Pids
      BY <2>2, BienDe, EstadoDe
    <3>. QED
      BY <3>1, <3>2 DEF SegInv
  <2>4. \/ n.caida
        \/ /\ SegBien(n, SegTam) /\ TCBs(n) /\ DOMAIN n.procesos = DOMAIN seg.procesos \cup {pid}
           /\ \A q, tid : Presente(seg, q, tid) => Presente(n, q, tid)
           /\ \A tid \in 1..TRIPULANTES[pid] : Presente(n, pid, tid)
    BY <2>1, <2>2, <2>3, GuardarTCBs
  <2>. HIDE DEF n
  <2>5. seg' = Queda(seg, n)
    BY <2>1 DEF EnSeg
  <2>6. /\ SegBien(seg', SegTam) /\ TCBs(seg')
        /\ n.caida => seg'.caida /\ seg'.procesos = seg.procesos
        /\ ~n.caida => seg' = n
    BY <2>2, <2>4, <2>5, QuedaSeg
  <2>7. CASE n.caida
    <3>1. CAIDA' /\ seg'.procesos = seg.procesos
      BY <2>6, <2>7 DEF CAIDA
    <3>2. fase' = fase
      BY <1>1, <3>1
    <3>. QED
      BY <2>2, <2>6, <3>1, <3>2 DEF SegInv, Esquema
  <2>8. CASE ~n.caida
    <3>1. /\ seg' = n /\ DOMAIN n.procesos = DOMAIN seg.procesos \cup {pid} /\ SegBien(n, SegTam) /\ TCBs(n)
          /\ \A q, tid : Presente(seg, q, tid) => Presente(n, q, tid)
          /\ \A tid \in 1..TRIPULANTES[pid] : Presente(n, pid, tid)
      BY <2>4, <2>6, <2>8
    <3>2. ~CAIDA'
      <4>1. pag' = pag
        BY <1>5, EsquemaDe DEF IniciarPatota, EnSeg
      <4>. QED
        BY <1>5, <2>8, <3>1, <4>1 DEF Esquema, CAIDA
    <3>3. \A q \in DOMAIN seg'.procesos : fase'[<<q, 1>>] # "fuera"
      <4>1. SUFFICES ASSUME NEW q \in DOMAIN n.procesos PROVE fase'[<<q, 1>>] # "fuera"
        BY <3>1
      <4>2. CASE q = pid
        BY <1>1, <1>2, <3>2, <4>2
      <4>3. CASE q # pid
        <5>1. q \in DOMAIN seg.procesos
          BY <3>1, <4>3
        <5>. QED
          BY <1>3, <2>3, <5>1 DEF SegInv
      <4>. QED
        BY <4>2, <4>3
    <3>4. ASSUME NEW m \in Miembros, fase'[m] \in Conectadas PROVE Presente(n, m[1], m[2])
      <4>1. m[2] \in 1..TRIPULANTES[m[1]] /\ m \in De(m[1])
        BY MiembrosDe
      <4>2. CASE m \in De(pid)
        <5>1. m[1] = pid
          BY <4>2 DEF De
        <5>. QED
          BY <3>1, <4>1, <5>1
      <4>3. CASE m \notin De(pid)
        <5>1. fase[m] \in Conectadas
          BY <1>1, <3>2, <3>4, <4>3
        <5>2. Presente(seg, m[1], m[2])
          BY <1>5, <5>1 DEF SegInv
        <5>. QED
          BY <3>1, <5>2
      <4>. QED
        BY <4>2, <4>3
    <3>. QED
      BY <2>2, <2>6, <3>1, <3>3, <3>4 DEF SegInv
  <2>. QED
    BY <2>7, <2>8
<1>. QED
  BY <1>4, <1>5 DEF IniciarPatota

\* An edition of a TCB that is there.
LEMMA EditarSeg ==
  ASSUME FasesInv, SegInv, config' = config, Esquema("SEGMENTACION"), SiguenConectadas,
         NEW m \in Miembros, fase[m] \in Conectadas,
         NEW campo \in 1..3, NEW valor \in Celdas, campo = INSTRUCCION => valor \in {"instruccion"} \X Nat,
         EnSeg(SegEditar(seg, m[1], m[2], campo, valor))
  PROVE  SegInv'
<1>. DEFINE n == SegEditar(seg, m[1], m[2], campo, valor)
<1>1. SegTam \in Nat /\ SegBien(seg, SegTam) /\ TCBs(seg) /\ Presente(seg, m[1], m[2])
  BY SegTamDe DEF SegInv
<1>2. /\ SegBien(n, SegTam) /\ TCBs(n) /\ n.procesos = seg.procesos
      /\ \A q, u : Presente(seg, q, u) => Presente(n, q, u)
  BY <1>1, EditarTCBs
<1>3. EnSeg(n)
  OBVIOUS
<1>. HIDE DEF n
<1>4. \A pid \in Pids : fase[<<pid, 1>>] # "fuera" => fase'[<<pid, 1>>] # "fuera"
  BY MiembrosDe DEF SiguenConectadas
<1>5. \A u \in Miembros : fase'[u] \in Conectadas =>
        fase[u] \in Conectadas /\ (Presente(seg, u[1], u[2]) => Presente(n, u[1], u[2]))
  BY <1>2 DEF SiguenConectadas
<1>. QED
  BY <1>2, <1>3, <1>4, <1>5, SegPaso

\* The requests of a member, and the compaction.
LEMMA PedidoSeg ==
  ASSUME FasesInv, SegInv, NEW m \in Miembros,
         ProximaTareaPag(m) \/ ProximaTareaSeg(m) \/ Separar(m) \/ SepararFin(m)
  PROVE  SegInv'
<1>1. FasesInv' /\ SiguenConectadas /\ config' = config
  BY ProximaFases DEF ProximaTareaPag, ProximaTareaSeg, Separar, SepararFin
<1>2. /\ \A pid \in Pids : fase[<<pid, 1>>] # "fuera" => fase'[<<pid, 1>>] # "fuera"
      /\ \A u \in Miembros : fase'[u] \in Conectadas => fase[u] \in Conectadas
  BY <1>1, MiembrosDe DEF SiguenConectadas
<1>3. CASE ProximaTareaPag(m)
  <2>1. seg' = seg /\ ~Esquema("SEGMENTACION")'
    BY <1>1, <1>3 DEF ProximaTareaPag, EnPag, Esquema
  <2>. QED
    BY <1>1, <1>2, <2>1, SegQuieto
<1>4. CASE Separar(m) \/ SepararFin(m)
  <2>1. seg' = seg /\ pag' = pag
    BY <1>4 DEF Separar, SepararFin
  <2>2. Esquema("SEGMENTACION")' <=> Esquema("SEGMENTACION")
    BY <1>1, <2>1 DEF Esquema, CAIDA
  <2>. QED
    BY <1>1, <1>2, <2>1, <2>2, SegQuieto
<1>5. CASE ProximaTareaSeg(m)
  <2>1. Esquema("SEGMENTACION") /\ EnSeg(SegAvanzar(seg, m[1], m[2])) /\ fase[m] \in Conectadas
    BY <1>5 DEF ProximaTareaSeg, PuedePedir, Conectadas
  <2>. DEFINE i == Instruccion(seg, m[1], m[2])
              v == Campo("instruccion", i + 1)
  <2>2. i \in Nat
    <3>1. SegTam \in Nat /\ SegBien(seg, SegTam) /\ TCBs(seg) /\ Presente(seg, m[1], m[2])
      BY <2>1, SegTamDe DEF SegInv
    <3>. QED
      BY <3>1, InstruccionDe
  <2>3. EnSeg(SegEditar(seg, m[1], m[2], INSTRUCCION, v))
    BY <2>1 DEF SegAvanzar
  <2>. HIDE DEF i
  <2>5. v \in {"instruccion"} \X Nat
    BY <2>2 DEF Campo
  <2>. HIDE DEF v
  <2>6. v \in {"pid", "tareas", "tid", "instruccion"} \X Nat
    BY <2>5
  <2>7. v \in Celdas
    BY <2>6 DEF Celdas
  <2>4. v \in {"instruccion"} \X Nat /\ v \in Celdas /\ INSTRUCCION \in 1..3
    BY <2>5, <2>7 DEF INSTRUCCION
  <2>. QED
    BY <1>1, <2>1, <2>3, <2>4, EditarSeg
<1>. QED
  BY <1>3, <1>4, <1>5

\* CAMBIAR_ESTADO and MOVER_TRIPULANTE with segmentation.
LEMMA CambiarSeg ==
  ASSUME FasesInv, SegInv, NEW m \in Miembros,
         (\E estado \in Estados : CambiarEstado(m, estado)) \/ (\E x \in Posiciones : Mover(m, x))
  PROVE  SegInv'
<1>1. FasesInv' /\ SiguenConectadas /\ config' = config
  BY CambiarFases DEF CambiarEstado, Mover
<1>2. /\ \A pid \in Pids : fase[<<pid, 1>>] # "fuera" => fase'[<<pid, 1>>] # "fuera"
      /\ \A u \in Miembros : fase'[u] \in Conectadas => fase[u] \in Conectadas
  BY <1>1, MiembrosDe DEF SiguenConectadas
<1>3. CASE Esquema("PAGINACION")
  <2>1. seg' = seg /\ ~Esquema("SEGMENTACION")'
    BY <1>1, <1>3 DEF CambiarEstado, Mover, EnPag, Esquema
  <2>. QED
    BY <1>1, <1>2, <2>1, SegQuieto
<1>4. CASE Esquema("SEGMENTACION")
  <2>1. PICK campo \in 1..3, valor \in Celdas : /\ campo = INSTRUCCION => valor \in {"instruccion"} \X Nat
                                                /\ EnSeg(SegEditar(seg, m[1], m[2], campo, valor))
    <3>0. ~Esquema("PAGINACION")
      BY <1>4 DEF Esquema
    <3>1. ASSUME NEW estado \in Estados, CambiarEstado(m, estado)
          PROVE  /\ ESTADO \in 1..3 /\ Campo("estado", estado) \in Celdas /\ ESTADO # INSTRUCCION
                 /\ EnSeg(SegEditar(seg, m[1], m[2], ESTADO, Campo("estado", estado)))
      <4>1. EnSeg(SegEditar(seg, m[1], m[2], ESTADO, Campo("estado", estado)))
        BY <3>0, <3>1 DEF CambiarEstado, SegCambiarEstado
      <4>2. Campo("estado", estado) \in {"estado"} \X Estados
        BY DEF Campo
      <4>3. Campo("estado", estado) \in Celdas
        BY <4>2 DEF Celdas
      <4>. QED
        BY <4>1, <4>3 DEF ESTADO, INSTRUCCION
    <3>2. ASSUME NEW x \in Posiciones, Mover(m, x)
          PROVE  /\ POSICION \in 1..3 /\ Campo("posicion", x) \in Celdas /\ POSICION # INSTRUCCION
                 /\ EnSeg(SegEditar(seg, m[1], m[2], POSICION, Campo("posicion", x)))
      <4>1. EnSeg(SegEditar(seg, m[1], m[2], POSICION, Campo("posicion", x)))
        BY <3>0, <3>2 DEF Mover, SegMover
      <4>2. Campo("posicion", x) \in {"posicion"} \X Posiciones
        BY DEF Campo
      <4>3. Campo("posicion", x) \in Celdas
        BY <4>2 DEF Celdas
      <4>. QED
        BY <4>1, <4>3 DEF POSICION, INSTRUCCION
    <3>. QED
      BY <3>1, <3>2
  <2>2. fase[m] \in Conectadas
    BY DEF CambiarEstado, Mover, Conectado, Conectadas
  <2>. QED
    BY <1>1, <1>4, <2>1, <2>2, EditarSeg
<1>. QED
  BY <1>3, <1>4 DEF CambiarEstado, Mover

\* EXPULSAR_TRIPULANTE with segmentation: the others keep their TCBs.
LEMMA ExpulsarSeg ==
  ASSUME FasesInv, SegInv, NEW m \in Miembros, Expulsar(m)
  PROVE  SegInv'
<1>1. /\ FasesInv' /\ config' = config /\ fase[m] \in Conectadas
      /\ \A u \in Miembros : fase'[u] \in Conectadas => fase[u] \in Conectadas /\ (u # m \/ CAIDA')
      /\ \A u \in Miembros : fase[u] # "fuera" => fase'[u] # "fuera"
  BY ExpulsarFases DEF Expulsar
<1>2. \A pid \in Pids : fase[<<pid, 1>>] # "fuera" => fase'[<<pid, 1>>] # "fuera"
  BY <1>1, MiembrosDe
<1>3. CASE Esquema("PAGINACION")
  <2>1. seg' = seg /\ ~Esquema("SEGMENTACION")'
    BY <1>1, <1>3 DEF Expulsar, EnPag, Esquema
  <2>. QED
    BY <1>1, <1>2, <2>1, SegQuieto
<1>4. CASE Esquema("SEGMENTACION")
  <2>. DEFINE n == SegEliminarTCB(seg, m[1], m[2])
  <2>1. SegTam \in Nat /\ SegBien(seg, SegTam) /\ TCBs(seg) /\ Presente(seg, m[1], m[2]) /\ ~seg.caida /\ ~pag.caida
    BY <1>1, <1>4, SegTamDe, EsquemaDe DEF SegInv
  <2>2. /\ SegBien(n, SegTam) /\ TCBs(n) /\ n.caida = seg.caida /\ DOMAIN n.procesos \subseteq DOMAIN seg.procesos
        /\ \A q, u : Presente(seg, q, u) /\ ~(q = m[1] /\ u = m[2]) => Presente(n, q, u)
    BY <2>1, EliminarTCBs
  <2>3. EnSeg(n) /\ pag' = pag
    BY <1>4 DEF Expulsar, Esquema, EnSeg
  <2>. HIDE DEF n
  <2>4. ~CAIDA'
    BY <2>1, <2>2, <2>3 DEF EnSeg, Queda, CAIDA
  <2>5. \A u \in Miembros : fase'[u] \in Conectadas =>
          fase[u] \in Conectadas /\ (Presente(seg, u[1], u[2]) => Presente(n, u[1], u[2]))
    <3>1. SUFFICES ASSUME NEW u \in Miembros, fase'[u] \in Conectadas, Presente(seg, u[1], u[2])
                   PROVE  Presente(n, u[1], u[2])
      BY <1>1
    <3>2. u # m
      BY <1>1, <2>4, <3>1
    <3>3. ~(u[1] = m[1] /\ u[2] = m[2])
      BY <3>2, MiembrosDe
    <3>. QED
      BY <2>2, <3>1, <3>3
  <2>. QED
    BY <1>1, <1>2, <1>4, <2>2, <2>3, <2>5, SegPaso
<1>. QED
  BY <1>3, <1>4 DEF Expulsar

\* SIGUSR2: every segment moves with what it holds.
LEMMA CompactarSeg ==
  ASSUME FasesInv, SegInv, Compactar
  PROVE  SegInv'
<1>. DEFINE n == Compactacion(seg)
<1>1. Esquema("SEGMENTACION") /\ EnSeg(n) /\ config' = config /\ fase' = fase
  BY DEF Compactar, clientes
<1>2. SegTam \in Nat /\ config.tamanio = SegTam /\ SegBien(seg, SegTam) /\ TCBs(seg)
  BY <1>1, SegTamDe DEF SegInv, Esquema
<1>3. /\ SegBien(n, SegTam) /\ TCBs(n) /\ DOMAIN n.procesos = DOMAIN seg.procesos
      /\ \A pid, tid : Presente(seg, pid, tid) => Presente(n, pid, tid)
  BY <1>2, CompactarTCBs
<1>. HIDE DEF n
<1>. QED
  BY <1>1, <1>3, SegPaso

\* What is known of the segments, step by step.
LEMMA SegSiguiente ==
  ASSUME FasesInv, SegInv, [Next]_vars
  PROVE  SegInv'
<1>1. CASE UNCHANGED vars
  BY <1>1, SegQuieto DEF vars, clientes, Esquema, CAIDA
<1>. QED
  BY <1>1, IniciarSeg, PedidoSeg, CambiarSeg, ExpulsarSeg, CompactarSeg DEF Next

\* Mi-RAM-HQ: every cell of the memory is in one segment or in one hole,
\* whatever crews start, move, are compacted and are expelled.
THEOREM MemoriaRepartida == Spec => []ParticionMemoria
<1>1. Init => FasesInv /\ SegInv
  BY FasesInit, SegInvInit
<1>2. FasesInv /\ SegInv /\ [Next]_vars => (FasesInv /\ SegInv)'
  BY FasesMonotonas, SegSiguiente
<1>3. FasesInv /\ SegInv => ParticionMemoria
  BY SegTamDe, ParticionDe DEF SegInv
<1>. QED
  BY <1>1, <1>2, <1>3, PTL DEF Spec

-------------------------------------------------------------------------------
\* The configuration is read once: what is known of the memory is said of the next
\* one with the same sizes.
LEMMA TamPrima ==
  ASSUME config' = config
  PROVE  TAM' = TAM /\ Marcos' = Marcos /\ MarcosSwap' = MarcosSwap /\ PagEstado' = PagEstado
<1>1. TAM' = TAM
  BY DEF TAM
<1>2. Marcos' = Marcos /\ MarcosSwap' = MarcosSwap
  BY <1>1 DEF Marcos, MarcosSwap
<1>3. PagEstado' = PagEstado
  BY <1>2 DEF PagEstado
<1>. QED
  BY <1>1, <1>2, <1>3

\* The same of the frames of the pages.
LEMMA BasePrima ==
  ASSUME config' = config
  PROVE  PagBase(pag)' <=> PagBase(pag')
<1>1. Cuadros(pag, PaginasDe(pag))' <=> Cuadros(pag', PaginasDe(pag'))
  BY DEF Cuadros, PaginasDe, ConFrame, Pagina
<1>2. Lista(pag, PaginasDe(pag))' <=> Lista(pag', PaginasDe(pag'))
  BY DEF Lista, PaginasDe, ConFrame, EnReal, Pagina
<1>3. (pag \in PagEstado)' <=> pag' \in PagEstado
  BY TamPrima
<1>. QED
  BY <1>1, <1>2, <1>3 DEF PagBase, PagParte

\* The same of the pages of who is left.
LEMMA VivasPrima ==
  ASSUME config' = config, NEW CONSTANT pid
  PROVE  (\A i \in Vivas(pid, pag.procesos[pid].tcbs, Len(pag.procesos[pid].paginas)) : ConFrame(pag, <<pid, i>>))'
         <=> \A i \in Vivas(pid, pag'.procesos[pid].tcbs, Len(pag'.procesos[pid].paginas)) : ConFrame(pag', <<pid, i>>)
<1>1. TAM' = TAM
  BY TamPrima
<1>. QED
  BY <1>1 DEF Vivas, PaginasTCB, ConFrame, Pagina

\* The same of what is known of a process.
LEMMA ProcesoPrima ==
  ASSUME config' = config, NEW CONSTANT pid
  PROVE  ProcesoBien(pag, pid)' <=> ProcesoBien(pag', pid)
<1>1. TAM' = TAM
  BY TamPrima
<1>2. (Len(pag.procesos[pid].paginas) = Techo(pag.procesos[pid].tamanio))' <=> Len(pag'.procesos[pid].paginas) = Techo(pag'.procesos[pid].tamanio)
  BY <1>1 DEF Techo
<1>3. Leida(pag, pid, 1)' = Leida(pag', pid, 1)
  BY <1>1 DEF Leida, Real, Pagina
<1>4. (\A t \in pag.procesos[pid].tcbs : Leida(pag, pid, DireccionTCB(t) + INSTRUCCION) \in {"instruccion"} \X Nat)'
      <=> \A t \in pag'.procesos[pid].tcbs : Leida(pag', pid, DireccionTCB(t) + INSTRUCCION) \in {"instruccion"} \X Nat
  BY <1>1 DEF Leida, Real, Pagina
<1>. QED
  BY <1>2, <1>3, <1>4, VivasPrima DEF ProcesoBien

\* The same of all that is known of the pages.
LEMMA BienPrima ==
  ASSUME config' = config
  PROVE  PagBien(pag)' <=> PagBien(pag')
<1>1. (\A pid \in DOMAIN pag.procesos : ProcesoBien(pag, pid))' <=> \A pid \in DOMAIN pag'.procesos : ProcesoBien(pag', pid)
  BY ProcesoPrima
<1>. QED
  BY <1>1, BasePrima DEF PagBien

-------------------------------------------------------------------------------
\* With paging what is known of the memory holds, and every member that is
\* connected is in the list of its crew.
PagInv ==
  IF config.esquema = "PAGINACION"
  THEN /\ PagBien(pag)
       /\ \A pid \in DOMAIN pag.procesos : fase[<<pid, 1>>] # "fuera"
       /\ ~CAIDA => \A m \in Miembros : fase[m] \in Conectadas =>
                      m[1] \in DOMAIN pag.procesos /\ m[2] \in pag.procesos[m[1]].tcbs
  ELSE pag = PagIniciar(0, 0)

\* The memory as it starts.
LEMMA PagIniciarDe ==
  ASSUME NEW n \in Nat, NEW s \in Nat
  PROVE  LET d == PagIniciar(n, s)
         IN /\ d.memoria \in [0..(n - 1) -> Celdas] /\ d.swap \in [0..(s - 1) -> Celdas]
            /\ d.frames_real = {} /\ d.frames_swap = {} /\ d.procesos = <<>> /\ DOMAIN d.procesos = {}
            /\ d.paginas_memoria = <<>> /\ d.puntero = 0 /\ d.caida = FALSE
            /\ d.procesos \in UNION {[D -> Proceso] : D \in SUBSET Pids}
            /\ d = [memoria |-> d.memoria, swap |-> d.swap, frames_real |-> d.frames_real, frames_swap |-> d.frames_swap,
                    procesos |-> d.procesos, paginas_memoria |-> d.paginas_memoria, puntero |-> d.puntero, caida |-> d.caida]
<1>. DEFINE f == <<>>
            m == [a \in 0..(n - 1) |-> Basura]
            w == [a \in 0..(s - 1) |-> Basura]
            d == PagIniciar(n, s)
<1>1. m \in [0..(n - 1) -> Celdas] /\ w \in [0..(s - 1) -> Celdas]
  BY BasuraEs
<1>2. DOMAIN f = {}
  OBVIOUS
<1>3. f \in UNION {[D -> Proceso] : D \in SUBSET Pids}
  <2>1. f \in [{} -> Proceso]
    BY <1>2
  <2>. QED
    BY <2>1
<1>. HIDE DEF m, w
<1>4. d = [memoria |-> m, swap |-> w, frames_real |-> {}, frames_swap |-> {},
           procesos |-> f, paginas_memoria |-> f, puntero |-> 0, caida |-> FALSE]
  BY DEF PagIniciar, m, w
<1>. HIDE DEF f, d
<1>5. d.memoria = m /\ d.swap = w /\ d.frames_real = {} /\ d.frames_swap = {} /\ d.procesos = f
      /\ d.paginas_memoria = f /\ d.puntero = 0 /\ d.caida = FALSE
  BY <1>4
<1>6. d = [memoria |-> d.memoria, swap |-> d.swap, frames_real |-> d.frames_real, frames_swap |-> d.frames_swap,
           procesos |-> d.procesos, paginas_memoria |-> d.paginas_memoria, puntero |-> d.puntero, caida |-> d.caida]
  BY <1>4, <1>5
<1>7. f = <<>>
  BY DEF f
<1>. QED
  BY <1>1, <1>2, <1>3, <1>5, <1>6, <1>7 DEF d

\* The pages at the start: none.
LEMMA PagInvInit == Init => PagInv
<1>1. SUFFICES ASSUME Init PROVE PagInv
  OBVIOUS
<1>2. CASE config.esquema # "PAGINACION"
  BY <1>1, <1>2 DEF Init, PagInv
<1>3. CASE config.esquema = "PAGINACION"
  <2>. DEFINE d == PagIniciar(config.tamanio, config.swap)
  <2>1. config \in Configuraciones /\ pag = d
    BY <1>1, <1>3 DEF Init
  <2>2. config.tamanio \in Nat /\ config.swap \in Nat
    BY <2>1, TamDe
  <2>3. /\ d.memoria \in [0..(config.tamanio - 1) -> Celdas] /\ d.swap \in [0..(config.swap - 1) -> Celdas]
        /\ d.frames_real = {} /\ d.frames_swap = {} /\ DOMAIN d.procesos = {}
        /\ d.paginas_memoria = <<>> /\ d.puntero = 0 /\ d.caida = FALSE
        /\ d.procesos \in UNION {[D -> Proceso] : D \in SUBSET Pids}
        /\ d = [memoria |-> d.memoria, swap |-> d.swap, frames_real |-> d.frames_real, frames_swap |-> d.frames_swap,
                procesos |-> d.procesos, paginas_memoria |-> d.paginas_memoria, puntero |-> d.puntero, caida |-> d.caida]
    BY ZenonT(60), <2>2, PagIniciarDe
  <2>. HIDE DEF d
  <2>4. d \in PagEstado
    <3>1. <<>> \in Seq(Lugar)
      OBVIOUS
    <3>2. d.paginas_memoria = <<>> /\ d.puntero = 0 /\ d.caida = FALSE
      BY <2>3
    <3>3. d.paginas_memoria \in Seq(Lugar)
      BY ONLY <3>1, <3>2, Zenon
    <3>4. d.puntero \in Nat
      BY ONLY <3>2
    <3>5. d.caida \in BOOLEAN
      BY ONLY <3>2, Zenon
    <3>. QED
      BY <2>3, <3>3, <3>4, <3>5 DEF PagEstado
  <2>5. PaginasDe(d) = {}
    BY <2>3 DEF PaginasDe
  <2>6. Cuadros(d, {})
    BY <2>3 DEF Cuadros
  <2>7. Lista(d, {})
    BY <2>3 DEF Lista, IsInjective, Contains
  <2>8. PagBien(d)
    BY <2>3, <2>4, <2>5, <2>6, <2>7 DEF PagBien, PagBase, PagParte
  <2>9. \A m \in Miembros : fase[m] \notin Conectadas
    BY <1>1 DEF Init, Conectadas
  <2>. QED
    BY <1>3, <2>1, <2>3, <2>8, <2>9 DEF PagInv
<1>. QED
  BY <1>2, <1>3

\* Dying changes nothing that anyone will see.
LEMMA QuedaPag ==
  ASSUME NEW s, PagBien(s), NEW n, n.caida \/ PagBien(n)
  PROVE  /\ PagBien(Queda(s, n))
         /\ n.caida => Queda(s, n).caida /\ Queda(s, n).procesos = s.procesos
         /\ ~n.caida => Queda(s, n) = n
<1>1. CASE ~n.caida
  BY <1>1 DEF Queda
<1>2. CASE n.caida
  <2>. DEFINE e == [s EXCEPT !.caida = TRUE]
  <2>1. Queda(s, n) = e
    BY <1>2 DEF Queda
  <2>2. s \in PagEstado /\ PagBase(s) /\ \A pid \in DOMAIN s.procesos : ProcesoBien(s, pid)
    BY DEF PagBien, PagBase, PagParte
  <2>3. /\ e \in PagEstado /\ e.memoria = s.memoria /\ e.swap = s.swap /\ e.procesos = s.procesos
        /\ e.frames_real = s.frames_real /\ e.frames_swap = s.frames_swap
        /\ e.paginas_memoria = s.paginas_memoria /\ e.caida = TRUE
    BY <2>2 DEF PagEstado
  <2>. HIDE DEF e
  <2>4. PaginasDe(e) = PaginasDe(s)
    BY <2>3 DEF PaginasDe
  <2>5. \A x : Pagina(e, x) = Pagina(s, x)
    BY <2>3 DEF Pagina
  <2>6. PagBase(e)
    BY <2>2, <2>3, <2>4, <2>5 DEF PagBase, PagParte, Cuadros, Lista, ConFrame, EnReal
  <2>7. \A pid, a : Leida(e, pid, a) = Leida(s, pid, a)
    BY <2>3, <2>5 DEF Leida, Real
  <2>8. \A pid \in DOMAIN e.procesos : ProcesoBien(e, pid)
    <3>1. SUFFICES ASSUME NEW pid \in DOMAIN s.procesos PROVE ProcesoBien(e, pid)
      BY <2>3
    <3>2. ProcesoBien(s, pid)
      BY <2>2
    <3>. QED
      BY <2>3, <2>5, <2>7, <3>2 DEF ProcesoBien, ConFrame
  <2>9. PagBien(e)
    BY <2>6, <2>8 DEF PagBien
  <2>. QED
    BY <1>2, <2>1, <2>3, <2>9
<1>. QED
  BY <1>1, <1>2

\* A step that keeps the pages, and of who is connected leaves some.
LEMMA PagPaso ==
  ASSUME FasesInv, PagInv, config' = config, NEW n, EnPag(n), n.caida \/ PagBien(n),
         ~n.caida => /\ DOMAIN n.procesos \subseteq DOMAIN pag.procesos
                     /\ \A m \in Miembros : fase'[m] \in Conectadas =>
                          /\ fase[m] \in Conectadas
                          /\ m[1] \in DOMAIN pag.procesos /\ m[2] \in pag.procesos[m[1]].tcbs =>
                               m[1] \in DOMAIN n.procesos /\ m[2] \in n.procesos[m[1]].tcbs,
         Esquema("PAGINACION"), \A pid \in Pids : fase[<<pid, 1>>] # "fuera" => fase'[<<pid, 1>>] # "fuera"
  PROVE  PagInv'
<1>1. pag' = Queda(pag, n) /\ PagBien(pag) /\ config.esquema = "PAGINACION" /\ config'.esquema = "PAGINACION" /\ ~CAIDA
  BY EsquemaDe DEF EnPag, PagInv
<1>2. /\ PagBien(pag')
      /\ n.caida => pag'.caida /\ pag'.procesos = pag.procesos
      /\ ~n.caida => pag' = n
  BY <1>1, QuedaPag
<1>3. PagBien(pag)'
  BY <1>2, BienPrima
<1>4. DOMAIN pag'.procesos \subseteq DOMAIN pag.procesos /\ DOMAIN pag.procesos \subseteq Pids
  <2>1. DOMAIN pag.procesos \subseteq Pids
    BY <1>1, PagEstadoDe DEF PagBien, PagBase, PagParte
  <2>. QED
    BY <1>2, <2>1
<1>5. \A pid \in DOMAIN pag'.procesos : fase'[<<pid, 1>>] # "fuera"
  BY <1>1, <1>4 DEF PagInv
<1>6. ASSUME ~CAIDA', NEW m \in Miembros, fase'[m] \in Conectadas
      PROVE  m[1] \in DOMAIN pag'.procesos /\ m[2] \in pag'.procesos[m[1]].tcbs
  <2>1. ~n.caida /\ pag' = n
    BY <1>2, <1>6 DEF CAIDA
  <2>2. fase[m] \in Conectadas
    BY <1>6, <2>1
  <2>3. m[1] \in DOMAIN pag.procesos /\ m[2] \in pag.procesos[m[1]].tcbs
    BY <1>1, <2>2 DEF PagInv
  <2>. QED
    BY <1>6, <2>1, <2>3
<1>. QED
  BY <1>1, <1>3, <1>5, <1>6 DEF PagInv

\* A step that does nothing to the pages.
LEMMA PagQuieto ==
  ASSUME FasesInv, PagInv, pag' = pag, config' = config,
         \A pid \in Pids : fase[<<pid, 1>>] # "fuera" => fase'[<<pid, 1>>] # "fuera",
         config.esquema = "PAGINACION" =>
           (~CAIDA' => ~CAIDA) /\ \A m \in Miembros : fase'[m] \in Conectadas => fase[m] \in Conectadas
  PROVE  PagInv'
<1>1. CASE config.esquema # "PAGINACION"
  BY <1>1 DEF PagInv, PagIniciar
<1>2. CASE config.esquema = "PAGINACION"
  <2>1. PagBien(pag) /\ PagBien(pag)'
    BY <1>2, BienPrima DEF PagInv
  <2>2. DOMAIN pag.procesos \subseteq Pids
    BY <2>1, PagEstadoDe DEF PagBien, PagBase, PagParte
  <2>. QED
    BY <1>2, <2>1, <2>2 DEF PagInv
<1>. QED
  BY <1>1, <1>2

-------------------------------------------------------------------------------
\* The start of a crew with paging.
LEMMA IniciarPag ==
  ASSUME FasesInv, PagInv, NEW pid \in Pids, IniciarPatota(pid)
  PROVE  PagInv'
<1>1. /\ FasesInv' /\ config' = config /\ (CAIDA' => fase' = fase)
      /\ (~CAIDA' => /\ \A m \in De(pid) : fase'[m] = "creada"
                     /\ \A m \in Miembros : m \notin De(pid) => fase'[m] = fase[m])
  BY IniciarFases DEF IniciarPatota
<1>2. \A q \in Pids : <<q, 1>> \in Miembros /\ (<<q, 1>> \in De(pid) <=> q = pid)
  BY MiembrosDe
<1>3. \A q \in Pids : fase[<<q, 1>>] # "fuera" => fase'[<<q, 1>>] # "fuera"
  BY <1>1, <1>2
<1>4. CASE Esquema("SEGMENTACION")
  <2>1. config.esquema # "PAGINACION" /\ pag' = pag
    BY <1>4 DEF IniciarPatota, EnSeg, Esquema
  <2>. QED
    BY <1>1, <1>3, <2>1, PagQuieto
<1>5. CASE Esquema("PAGINACION")
  <2>. DEFINE n == PagGuardarPatota(pag, pid)
  <2>1. EnPag(n) /\ ~CAIDA /\ ~pag.caida /\ config.esquema = "PAGINACION" /\ config'.esquema = "PAGINACION" /\ seg' = seg
    BY <1>1, <1>5, EsquemaDe DEF IniciarPatota, EnPag
  <2>2. PagBien(pag) /\ config \in Configuraciones /\ DOMAIN pag.procesos \subseteq Pids
    <3>1. PagBien(pag)
      BY <2>1 DEF PagInv
    <3>. QED
      BY <3>1, PagEstadoDe DEF FasesInv, PagBien, PagBase, PagParte
  <2>3. pid \in Pids \ DOMAIN pag.procesos
    <3>1. fase[<<pid, 1>>] = "fuera"
      BY ProximoPidDe DEF IniciarPatota
    <3>. QED
      BY <2>1, <3>1 DEF PagInv
  <2>4. \/ n.caida
        \/ /\ PagBien(n) /\ DOMAIN n.procesos = DOMAIN pag.procesos \cup {pid}
           /\ n.procesos[pid].tcbs = 1..TRIPULANTES[pid]
           /\ \A p \in DOMAIN pag.procesos : p # pid /\ n.procesos[p].tcbs = pag.procesos[p].tcbs
    BY <2>2, <2>3, GuardarPatotaDe
  <2>. HIDE DEF n
  <2>5. pag' = Queda(pag, n)
    BY <2>1 DEF EnPag
  <2>6. /\ PagBien(pag')
        /\ n.caida => pag'.caida /\ pag'.procesos = pag.procesos
        /\ ~n.caida => pag' = n
    BY <2>2, <2>4, <2>5, QuedaPag
  <2>7. PagBien(pag)'
    BY <1>1, <2>6, BienPrima
  <2>8. CASE n.caida
    <3>1. CAIDA' /\ pag'.procesos = pag.procesos
      BY <2>6, <2>8 DEF CAIDA
    <3>2. fase' = fase
      BY <1>1, <3>1
    <3>. QED
      BY <2>1, <2>7, <3>1, <3>2 DEF PagInv
  <2>9. CASE ~n.caida
    <3>1. /\ pag' = n /\ DOMAIN n.procesos = DOMAIN pag.procesos \cup {pid}
          /\ n.procesos[pid].tcbs = 1..TRIPULANTES[pid]
          /\ \A p \in DOMAIN pag.procesos : p # pid /\ n.procesos[p].tcbs = pag.procesos[p].tcbs
      BY <2>4, <2>6, <2>9
    <3>2. ~CAIDA'
      BY <2>1, <2>9, <3>1 DEF CAIDA
    <3>3. ASSUME NEW q \in DOMAIN n.procesos PROVE fase'[<<q, 1>>] # "fuera"
      <4>1. CASE q = pid
        BY <1>1, <1>2, <3>2, <4>1
      <4>2. CASE q # pid
        <5>1. q \in DOMAIN pag.procesos
          BY <3>1, <3>3, <4>2
        <5>. QED
          BY <1>3, <2>1, <2>2, <5>1 DEF PagInv
      <4>. QED
        BY <4>1, <4>2
    <3>4. ASSUME NEW m \in Miembros, fase'[m] \in Conectadas
          PROVE  m[1] \in DOMAIN n.procesos /\ m[2] \in n.procesos[m[1]].tcbs
      <4>1. m[2] \in 1..TRIPULANTES[m[1]] /\ m \in De(m[1])
        BY MiembrosDe
      <4>2. CASE m \in De(pid)
        <5>1. m[1] = pid
          BY <4>2 DEF De
        <5>. QED
          BY <3>1, <4>1, <5>1
      <4>3. CASE m \notin De(pid)
        <5>1. fase[m] \in Conectadas
          BY <1>1, <3>2, <3>4, <4>3
        <5>2. m[1] \in DOMAIN pag.procesos /\ m[2] \in pag.procesos[m[1]].tcbs
          BY <2>1, <5>1 DEF PagInv
        <5>. QED
          BY <3>1, <5>2
      <4>. QED
        BY <4>2, <4>3
    <3>. QED
      BY <2>1, <2>7, <3>1, <3>3, <3>4 DEF PagInv
  <2>. QED
    BY <2>8, <2>9
<1>. QED
  BY <1>4, <1>5 DEF IniciarPatota

\* A step that leaves each crew with who it has.
LEMMA ConservaPag ==
  ASSUME FasesInv, PagInv, config' = config, Esquema("PAGINACION"), SiguenConectadas,
         NEW n, EnPag(n), n.caida \/ Conserva(pag, n)
  PROVE  PagInv'
<1>1. n.caida \/ (/\ PagBien(n) /\ DOMAIN n.procesos = DOMAIN pag.procesos
                  /\ \A p \in DOMAIN pag.procesos : n.procesos[p].tcbs = pag.procesos[p].tcbs)
  BY DEF Conserva
<1>2. \A pid \in Pids : fase[<<pid, 1>>] # "fuera" => fase'[<<pid, 1>>] # "fuera"
  BY MiembrosDe DEF SiguenConectadas
<1>3. \A u \in Miembros : fase'[u] \in Conectadas => fase[u] \in Conectadas
  BY DEF SiguenConectadas
<1>. QED
  BY <1>1, <1>2, <1>3, PagPaso

\* A member that is connected is in the list of its crew.
LEMMA ConectadoPag ==
  ASSUME FasesInv, PagInv, Esquema("PAGINACION"), NEW m \in Miembros, fase[m] \in Conectadas
  PROVE  /\ config \in Configuraciones /\ PagBien(pag)
         /\ m[1] \in DOMAIN pag.procesos /\ m[2] \in pag.procesos[m[1]].tcbs
BY EsquemaDe DEF FasesInv, PagInv

\* The requests of a member.
LEMMA PedidoPag ==
  ASSUME FasesInv, PagInv, NEW m \in Miembros,
         ProximaTareaPag(m) \/ ProximaTareaSeg(m) \/ Separar(m) \/ SepararFin(m)
  PROVE  PagInv'
<1>1. FasesInv' /\ SiguenConectadas /\ config' = config
  BY ProximaFases DEF ProximaTareaPag, ProximaTareaSeg, Separar, SepararFin
<1>2. /\ \A pid \in Pids : fase[<<pid, 1>>] # "fuera" => fase'[<<pid, 1>>] # "fuera"
      /\ \A u \in Miembros : fase'[u] \in Conectadas => fase[u] \in Conectadas
  BY <1>1, MiembrosDe DEF SiguenConectadas
<1>3. CASE ProximaTareaPag(m)
  <2>. DEFINE n == PagSiguienteTarea(pag, m[1], m[2])
  <2>1. Esquema("PAGINACION") /\ EnPag(n) /\ fase[m] \in Conectadas
    BY <1>3 DEF ProximaTareaPag, PuedePedir, Conectadas
  <2>2. n.caida \/ Conserva(pag, n)
    BY <2>1, ConectadoPag, SiguienteTareaBien
  <2>. HIDE DEF n
  <2>. QED
    BY <1>1, <2>1, <2>2, ConservaPag
<1>4. CASE ProximaTareaSeg(m)
  <2>1. pag' = pag /\ config.esquema # "PAGINACION"
    BY <1>4 DEF ProximaTareaSeg, EnSeg, Esquema
  <2>. QED
    BY <1>1, <1>2, <2>1, PagQuieto
<1>5. CASE Separar(m) \/ SepararFin(m)
  <2>1. pag' = pag /\ ~CAIDA
    BY <1>5 DEF Separar, SepararFin
  <2>. QED
    BY <1>1, <1>2, <2>1, PagQuieto
<1>. QED
  BY <1>3, <1>4, <1>5

\* CAMBIAR_ESTADO and MOVER_TRIPULANTE with paging.
LEMMA CambiarPag ==
  ASSUME FasesInv, PagInv, NEW m \in Miembros,
         (\E estado \in Estados : CambiarEstado(m, estado)) \/ (\E x \in Posiciones : Mover(m, x))
  PROVE  PagInv'
<1>1. FasesInv' /\ SiguenConectadas /\ config' = config
  BY CambiarFases DEF CambiarEstado, Mover
<1>2. /\ \A pid \in Pids : fase[<<pid, 1>>] # "fuera" => fase'[<<pid, 1>>] # "fuera"
      /\ \A u \in Miembros : fase'[u] \in Conectadas => fase[u] \in Conectadas
  BY <1>1, MiembrosDe DEF SiguenConectadas
<1>3. CASE Esquema("SEGMENTACION")
  <2>1. pag' = pag /\ config.esquema # "PAGINACION"
    BY <1>3 DEF CambiarEstado, Mover, EnSeg, Esquema
  <2>. QED
    BY <1>1, <1>2, <2>1, PagQuieto
<1>4. CASE Esquema("PAGINACION")
  <2>1. fase[m] \in Conectadas /\ ~Esquema("SEGMENTACION")
    BY <1>4 DEF CambiarEstado, Mover, Conectado, Conectadas, Esquema
  <2>2. PICK n : EnPag(n) /\ (n.caida \/ Conserva(pag, n))
    <3>1. ASSUME NEW estado \in Estados, CambiarEstado(m, estado)
          PROVE  \E n : EnPag(n) /\ (n.caida \/ Conserva(pag, n))
      <4>1. EnPag(PagCambiarEstado(pag, m[1], m[2], estado))
        BY <2>1, <3>1 DEF CambiarEstado
      <4>2. 0 \in Posiciones
        BY EstructurasAssumption
      <4>. QED
        BY <1>4, <2>1, <4>1, <4>2, ConectadoPag, CambiarBien
    <3>2. ASSUME NEW x \in Posiciones, Mover(m, x)
          PROVE  \E n : EnPag(n) /\ (n.caida \/ Conserva(pag, n))
      <4>1. EnPag(PagMover(pag, m[1], m[2], x))
        BY <2>1, <3>2 DEF Mover
      <4>2. "N" \in Estados
        BY EstructurasAssumption
      <4>. QED
        BY <1>4, <2>1, <4>1, <4>2, ConectadoPag, CambiarBien
    <3>. QED
      BY <3>1, <3>2
  <2>. QED
    BY <1>1, <1>4, <2>2, ConservaPag
<1>. QED
  BY <1>3, <1>4 DEF CambiarEstado, Mover

\* EXPULSAR_TRIPULANTE with paging: the pages of who is left keep their frames.
LEMMA ExpulsarPag ==
  ASSUME FasesInv, PagInv, NEW m \in Miembros, Expulsar(m)
  PROVE  PagInv'
<1>1. /\ FasesInv' /\ config' = config /\ fase[m] \in Conectadas
      /\ \A u \in Miembros : fase'[u] \in Conectadas => fase[u] \in Conectadas /\ (u # m \/ CAIDA')
      /\ \A u \in Miembros : fase[u] # "fuera" => fase'[u] # "fuera"
  BY ExpulsarFases DEF Expulsar
<1>2. \A pid \in Pids : fase[<<pid, 1>>] # "fuera" => fase'[<<pid, 1>>] # "fuera"
  BY <1>1, MiembrosDe
<1>3. CASE Esquema("SEGMENTACION")
  <2>1. pag' = pag /\ config.esquema # "PAGINACION"
    BY <1>3 DEF Expulsar, EnSeg, Esquema
  <2>. QED
    BY <1>1, <1>2, <2>1, PagQuieto
<1>4. CASE Esquema("PAGINACION")
  <2>. DEFINE n == PagEliminarTCB(pag, m[1], m[2])
  <2>1. EnPag(n) /\ ~CAIDA /\ seg' = seg
    BY <1>4, EsquemaDe DEF Expulsar, EnPag
  <2>2. ~n.caida => SinUno(pag, n, m[1], m[2])
    BY <1>1, <1>4, ConectadoPag, EliminarTCBDe
  <2>. HIDE DEF n
  <2>3. n.caida \/ PagBien(n)
    BY <2>2 DEF SinUno
  <2>4. ASSUME ~n.caida
        PROVE  /\ DOMAIN n.procesos \subseteq DOMAIN pag.procesos
               /\ \A u \in Miembros : fase'[u] \in Conectadas =>
                    /\ fase[u] \in Conectadas
                    /\ u[1] \in DOMAIN pag.procesos /\ u[2] \in pag.procesos[u[1]].tcbs =>
                         u[1] \in DOMAIN n.procesos /\ u[2] \in n.procesos[u[1]].tcbs
    <3>1. ~CAIDA'
      BY <2>1, <2>4 DEF EnPag, Queda, CAIDA
    <3>2. SinUno(pag, n, m[1], m[2])
      BY <2>2, <2>4
    <3>3. SUFFICES ASSUME NEW u \in Miembros, fase'[u] \in Conectadas,
                          u[1] \in DOMAIN pag.procesos, u[2] \in pag.procesos[u[1]].tcbs
                   PROVE  u[1] \in DOMAIN n.procesos /\ u[2] \in n.procesos[u[1]].tcbs
      BY <1>1, <3>2 DEF SinUno
    <3>4. u # m
      BY <1>1, <3>1, <3>3
    <3>5. ~(u[1] = m[1] /\ u[2] = m[2])
      BY <3>4, MiembrosDe
    <3>. QED
      BY <3>2, <3>3, <3>5 DEF SinUno
  <2>. QED
    BY <1>1, <1>2, <1>4, <2>1, <2>3, <2>4, PagPaso
<1>. QED
  BY <1>3, <1>4 DEF Expulsar

\* What is known of the pages, step by step.
LEMMA PagSiguiente ==
  ASSUME FasesInv, PagInv, [Next]_vars
  PROVE  PagInv'
<1>1. CASE UNCHANGED vars
  BY <1>1, PagQuieto DEF vars, clientes, CAIDA
<1>2. CASE Compactar
  <2>1. config.esquema # "PAGINACION" /\ pag' = pag /\ config' = config /\ fase' = fase
    BY <1>2 DEF Compactar, EnSeg, Esquema, clientes
  <2>. QED
    BY <2>1, PagQuieto
<1>. QED
  BY <1>1, <1>2, IniciarPag, PedidoPag, CambiarPag, ExpulsarPag DEF Next

-------------------------------------------------------------------------------
Invariante == FasesInv /\ SegInv /\ PagInv

\* Mi-RAM-HQ's invariant: who is connected, the segments and the pages, one or
\* the other scheme.
THEOREM RamInvariante == Spec => []Invariante
<1>1. Init => Invariante
  BY FasesInit, SegInvInit, PagInvInit DEF Invariante
<1>2. Invariante /\ [Next]_vars => Invariante'
  BY FasesMonotonas, SegSiguiente, PagSiguiente DEF Invariante
<1>. QED
  BY <1>1, <1>2, PTL DEF Spec

\* What the pages are: with the other scheme there is none.
LEMMA PaginasSon ==
  ASSUME Invariante
  PROVE  /\ Paginas = PaginasDe(pag)
         /\ EnMemoria = {x \in PaginasDe(pag) : EnReal(pag, x)}
         /\ \/ PagBien(pag)
            \/ DOMAIN pag.procesos = {} /\ pag.frames_real = {} /\ pag.frames_swap = {} /\ DOMAIN pag.memoria = {}
<1>1. Paginas = PaginasDe(pag)
  BY DEF Paginas, PaginasDe
<1>2. EnMemoria = {x \in PaginasDe(pag) : EnReal(pag, x)}
  BY <1>1 DEF EnMemoria, EnReal, ConFrame
<1>3. CASE config.esquema = "PAGINACION"
  BY <1>1, <1>2, <1>3 DEF Invariante, PagInv
<1>4. CASE config.esquema # "PAGINACION"
  <2>1. pag = PagIniciar(0, 0)
    BY <1>4 DEF Invariante, PagInv
  <2>2. pag.memoria \in [0..(0 - 1) -> Celdas] /\ DOMAIN pag.procesos = {} /\ pag.frames_real = {} /\ pag.frames_swap = {}
    BY <2>1, PagIniciarDe
  <2>. QED
    BY <1>1, <1>2, <2>2
<1>. QED
  BY <1>3, <1>4

\* Mi-RAM-HQ with paging: a frame of the memory belongs to one page, and the
\* bitmap of frames has as in use those that pages have, whatever is brought,
\* replaced and freed.
THEOREM FramesDeUnaPagina == Spec => []FramesPropios
<1>1. ASSUME Invariante PROVE FramesPropios
  <2>1. /\ EnMemoria = {x \in PaginasDe(pag) : EnReal(pag, x)} /\ Paginas = PaginasDe(pag)
        /\ \/ PagBien(pag)
           \/ DOMAIN pag.procesos = {} /\ pag.frames_real = {}
    BY <1>1, PaginasSon
  <2>2. CASE PagBien(pag)
    <3>1. Cuadros(pag, PaginasDe(pag))
      BY <2>2 DEF PagBien, PagBase, PagParte
    <3>2. ASSUME NEW x \in EnMemoria, NEW y \in EnMemoria, Pagina(pag, x).frame = Pagina(pag, y).frame
          PROVE  x = y
      BY <2>1, <3>1, <3>2 DEF Cuadros, EnReal
    <3>3. ASSUME NEW x \in EnMemoria PROVE Pagina(pag, x).frame \in pag.frames_real
      BY <2>1, <3>1, <3>3 DEF Cuadros, EnReal
    <3>4. ASSUME NEW f \in pag.frames_real PROVE \E x \in EnMemoria : f = Pagina(pag, x).frame
      <4>1. PICK x \in PaginasDe(pag) : Pagina(pag, x).presencia /\ Pagina(pag, x).frame = f
        BY <3>1, <3>4 DEF Cuadros
      <4>2. f # -1
        <5>1. pag \in PagEstado /\ pag.frames_real \subseteq 0..(Marcos - 1) /\ config \in Configuraciones
          BY <1>1, <2>2, PagEstadoDe DEF PagBien, PagBase, PagParte, Invariante, FasesInv
        <5>. QED
          BY <3>4, <5>1, TamDe
      <4>3. x \in EnMemoria
        BY <2>1, <4>1, <4>2 DEF EnReal, ConFrame
      <4>. QED
        BY <4>1, <4>3
    <3>. QED
      BY <3>2, <3>3, <3>4 DEF FramesPropios
  <2>3. CASE DOMAIN pag.procesos = {} /\ pag.frames_real = {}
    <3>1. EnMemoria = {}
      BY <2>1, <2>3 DEF PaginasDe
    <3>. QED
      BY <2>3, <3>1 DEF FramesPropios
  <2>. QED
    BY <2>1, <2>2, <2>3
<1>. QED
  BY <1>1, RamInvariante, PTL

\* Mi-RAM-HQ with paging: the pages of the PCB, of the tasks and of the members
\* that are left have a frame, whoever is expelled.
THEOREM PaginasDeQuienQueda == Spec => []PaginasVivas
<1>1. ASSUME Invariante PROVE PaginasVivas
  <2>1. SUFFICES ASSUME NEW pid \in DOMAIN pag.procesos,
                        NEW i \in {1} \cup (UNION {PaginasTCB(t) : t \in pag.procesos[pid].tcbs})
                                  \cup (DireccionTareas(pid) \div TAM + 1)..Len(pag.procesos[pid].paginas)
                 PROVE  pag.procesos[pid].paginas[i].frame # -1
    BY DEF PaginasVivas
  <2>2. ProcesoBien(pag, pid)
    BY <1>1, PaginasSon DEF PagBien
  <2>3. i \in Vivas(pid, pag.procesos[pid].tcbs, Len(pag.procesos[pid].paginas))
    BY DEF Vivas
  <2>4. ConFrame(pag, <<pid, i>>)
    BY <2>2, <2>3 DEF ProcesoBien
  <2>. QED
    BY <2>4 DEF ConFrame, Pagina
<1>. QED
  BY <1>1, RamInvariante, PTL

\* The larger of two sizes.
LEMMA MaximoDeDos ==
  ASSUME NEW a \in Nat, NEW b \in Nat
  PROVE  Max({a, b}) \in Nat /\ Max({a, b}) >= a /\ Max({a, b}) >= b
<1>1. \E x \in {a, b} : \A y \in {a, b} : x >= y
  <2>1. CASE a >= b
    BY <2>1
  <2>2. CASE b >= a
    BY <2>2
  <2>. QED
    BY <2>1, <2>2
<1>2. Max({a, b}) \in {a, b} /\ \A y \in {a, b} : Max({a, b}) >= y
  BY <1>1 DEF Max
<1>. QED
  BY <1>2

\* Mi-RAM-HQ: what the memory, the segments, the holes, the bitmaps and the pages
\* may hold, whatever the sizes, the criteria and the replacement.
THEOREM MemoriaTipo == Spec => []TypeOK
<1>1. ASSUME Invariante PROVE TypeOK
  <2>1. config \in Configuraciones
    BY <1>1 DEF Invariante, FasesInv
  <2>2. /\ SegTam \in Nat /\ SegBien(seg, SegTam) /\ seg \in SegEstado(SegTam)
        /\ seg.memoria \in [0..(SegTam - 1) -> Celdas] /\ seg.huecos \in Seq(Segmento)
    BY <1>1, SegTamDe, BienDe, EstadoDe DEF Invariante, SegInv
  <2>3. \A a \in DOMAIN seg.memoria : seg.memoria[a] \in Celdas
    BY <2>2
  <2>4. ASSUME NEW x \in Segmentos(seg) \cup ToSet(seg.huecos) PROVE {x.inicio, x.tamanio} \subseteq Nat
    <3>1. CASE x \in Segmentos(seg)
      <4>1. \E pid \in DOMAIN seg.procesos : \E i \in DOMAIN seg.procesos[pid] : x = seg.procesos[pid][i]
        BY <2>2, <3>1, BienDe
      <4>. QED
        BY <2>2, <4>1, BienDe
    <3>2. CASE x \in ToSet(seg.huecos)
      <4>1. x \in Segmento
        <5>1. PICK i \in DOMAIN seg.huecos : x = seg.huecos[i]
          BY <3>2 DEF ToSet
        <5>. QED
          BY <2>2, <5>1, ElementOfSeq, LenProperties
      <4>. QED
        BY <4>1 DEF Segmento
    <3>. QED
      BY <2>4, <3>1, <3>2
  <2>5. /\ Paginas = PaginasDe(pag)
        /\ \/ PagBien(pag)
           \/ DOMAIN pag.procesos = {} /\ pag.frames_real = {} /\ pag.frames_swap = {} /\ DOMAIN pag.memoria = {}
    BY <1>1, PaginasSon
  <2>. DEFINE X == Max({Marcos, MarcosSwap})
  <2>6. /\ \A a \in DOMAIN pag.memoria : pag.memoria[a] \in Celdas
        /\ pag.frames_real \subseteq 0..(Marcos - 1) /\ pag.frames_swap \subseteq 0..(MarcosSwap - 1)
        /\ \A pg \in Paginas : Pagina(pag, pg).frame \in -1..(X - 1)
    <3>1. CASE PagBien(pag)
      <4>1. /\ PagParte(pag, PaginasDe(pag)) /\ pag.memoria \in [0..(config.tamanio - 1) -> Celdas]
            /\ pag.frames_real \subseteq 0..(Marcos - 1) /\ pag.frames_swap \subseteq 0..(MarcosSwap - 1)
        BY <3>1, PagEstadoDe DEF PagBien, PagBase, PagParte
      <4>2. ASSUME NEW pg \in PaginasDe(pag) PROVE Pagina(pag, pg).frame \in -1..(X - 1)
        <5>1. Marcos \in Nat /\ MarcosSwap \in Nat /\ X \in Nat /\ X >= Marcos /\ X >= MarcosSwap
          BY <2>1, TamDe, MaximoDeDos
        <5>. HIDE DEF X
        <5>2. CASE Pagina(pag, pg).frame = -1
          BY <5>1, <5>2
        <5>3. CASE ConFrame(pag, pg)
          <6>1. \/ Pagina(pag, pg).frame \in 0..(Marcos - 1)
                \/ Pagina(pag, pg).frame \in 0..(MarcosSwap - 1)
            BY <4>1, <5>3, FrameDe
          <6>. QED
            BY <5>1, <6>1
        <5>. QED
          BY <5>2, <5>3 DEF ConFrame
      <4>. HIDE DEF X
      <4>. QED
        BY <2>5, <4>1, <4>2
    <3>2. CASE DOMAIN pag.procesos = {} /\ pag.frames_real = {} /\ pag.frames_swap = {} /\ DOMAIN pag.memoria = {}
      <4>1. PaginasDe(pag) = {}
        BY <3>2 DEF PaginasDe
      <4>. QED
        BY <2>5, <3>2, <4>1
    <3>. QED
      BY <2>5, <3>1, <3>2
  <2>7. \A m \in Miembros : fase[m] \in {"fuera", "creada", "trabaja", "termino", "expulsado"}
    BY <1>1 DEF Invariante, FasesInv, Fases, Conectadas
  <2>8. DOMAIN separando \subseteq Miembros
    BY <1>1 DEF Invariante, FasesInv
  <2>. QED
    BY <2>1, <2>3, <2>4, <2>6, <2>7, <2>8 DEF TypeOK
<1>. QED
  BY <1>1, RamInvariante, PTL

===============================================================================
