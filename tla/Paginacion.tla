------------------------------ MODULE Paginacion ------------------------------
(***************************************************************************)
(* The memory process of KISS (src/kiss/memoria/src): the two levels of    *)
(* page tables, the frames and their bitmap, the resident pages of each    *)
(* process, page replacement (CLOCK and CLOCK-M) and the swap files.       *)
(*                                                                         *)
(* Each operator is what one handler does while it holds mutex_tablas.     *)
(* A page holds one word: the offset takes no part in any decision.        *)
(* Tables, pages and frames are numbered from 0, as in the code.           *)
(***************************************************************************)
EXTENDS Integers, SequencesExt

CONSTANTS
  Procesos,
  Configuraciones,     \* what the processes and the configuration files say:
                       \*   llegan, the processes that are started
                       \*   paginas, cantidad_paginas of each, from its tamanio
                       \*   marcos_por_proceso, reemplazo ("CLOCK" or "CLOCK-M")
                       \*   entradas_tlb, reemplazo_tlb ("FIFO" or "LRU"), of the CPU
                       \*   instrucciones, a bound: memory instructions executed
  ENTRADAS_POR_TABLA,
  CANTIDAD_MARCOS,     \* tamanio_memoria / tamanio_pagina
  Valores,             \* the words of the memory, 0 among them
  BASURA,              \* the word in a swap file nobody has cleared
  NULL

VARIABLES
  config,        \* one of Configuraciones
  primer_nivel,  \* the processes, each with the numbers of its tables
  segundo_nivel, \* the second-level tables: the numbers of their pages
  pagina,        \* the fields of each t_pagina
  residentes,    \* the resident pages of each process, in clock order
  libres,        \* the frames whose bit in marcos_libres is clear
  principal,     \* memoria_principal, one word per frame
  swap           \* the swap file of each process, one word per page

tablasVars == <<config, primer_nivel, segundo_nivel>>
marcosVars == <<residentes, libres>>
paginacionVars == <<tablasVars, pagina, marcosVars, principal, swap>>

PAGINAS == config.paginas
MARCOS_POR_PROCESO == config.marcos_por_proceso
Numeros(p) == 0..(PAGINAS[p] - 1)
Marcos == 0..(CANTIDAD_MARCOS - 1)
\* entradas_tabla_intermedia gives every table but the first the size of the
\* last one, so the processes have two tables, or full ones.
TablasEnteras(cantidad) ==
  /\ cantidad <= ENTRADAS_POR_TABLA * ENTRADAS_POR_TABLA
  /\ cantidad <= 2 * ENTRADAS_POR_TABLA \/ cantidad % ENTRADAS_POR_TABLA = 0

ASSUME PaginacionAssumption ==
  /\ IsFiniteSet(Procesos)
  /\ ENTRADAS_POR_TABLA \in Nat \ {0} /\ CANTIDAD_MARCOS \in Nat \ {0}
  /\ \A c \in Configuraciones :
       /\ c.paginas \in [Procesos -> Nat \ {0}]
       /\ \A p \in Procesos : TablasEnteras(c.paginas[p])
       /\ c.marcos_por_proceso \in Nat \ {0}
       /\ c.reemplazo \in {"CLOCK", "CLOCK-M"}
  /\ {0, BASURA} \subseteq Valores
  /\ NULL \notin Procesos

-----------------------------------------------------------------------------
\* Slip: a page starts with no frame instead of frame 0.
PaginaSinMarco == [marco |-> -1, presencia |-> FALSE, uso |-> 0, modificado |-> 0]

PaginaNueva == [marco |-> 0, presencia |-> FALSE, uso |-> 0, modificado |-> 0]

\* Until it is mapped and cleared a swap file may hold anything: an earlier
\* run leaves its files behind.
PaginacionInit ==
  /\ config \in Configuraciones
  /\ primer_nivel = <<>>
  /\ segundo_nivel = <<>>
  /\ pagina = [p \in Procesos |-> [n \in Numeros(p) |-> PaginaNueva]]
  /\ residentes = [p \in Procesos |-> <<>>]
  /\ libres = Marcos
  /\ principal = [m \in Marcos |-> 0]
  /\ swap = [p \in Procesos |-> [n \in Numeros(p) |-> BASURA]]

-----------------------------------------------------------------------------
\* iniciar_proceso: the tables first, then, once mutex_tablas is released,
\* the swap file.

CantidadTablas(p) == (PAGINAS[p] + ENTRADAS_POR_TABLA - 1) \div ENTRADAS_POR_TABLA

EntradasTablaIntermedia(i, cantidad) ==
  IF i = 0 THEN Min({ENTRADAS_POR_TABLA, cantidad})
  ELSE IF cantidad % ENTRADAS_POR_TABLA = 0 THEN ENTRADAS_POR_TABLA
  ELSE cantidad % ENTRADAS_POR_TABLA

CrearPaginas(p, i) ==
  [j \in 1..EntradasTablaIntermedia(i, PAGINAS[p]) |-> i * ENTRADAS_POR_TABLA + j - 1]

CrearTablas(p) ==
  /\ primer_nivel' = Append(primer_nivel,
       [proceso |-> p,
        tablas |-> [i \in 1..CantidadTablas(p) |-> Len(segundo_nivel) + i - 1]])
  /\ segundo_nivel' = segundo_nivel \o [i \in 1..CantidadTablas(p) |-> CrearPaginas(p, i - 1)]
  /\ UNCHANGED <<config, pagina, marcosVars, principal, swap>>

\* Slip: the swap file is mapped but not cleared.
SwapSinLimpiar(p) == UNCHANGED paginacionVars

SwapIniciarProceso(p) ==
  /\ swap' = [swap EXCEPT ![p] = [n \in Numeros(p) |-> 0]]
  /\ UNCHANGED <<tablasVars, pagina, marcosVars, principal>>

-----------------------------------------------------------------------------
\* Page replacement: the victim's place in the list of residents, and the
\* places of the pages that lose their use bit on the way to it.

Con(p, usos, modificados) ==
  {k \in DOMAIN residentes[p] :
     LET g == pagina[p][residentes[p][k]] IN g.uso \in usos /\ g.modificado \in modificados}
Hasta(S) == [victima |-> Min(S), apagadas |-> 1..(Min(S) - 1)]

ReemplazarClock(p) ==
  IF Con(p, {0}, {0, 1}) # {} THEN Hasta(Con(p, {0}, {0, 1}))
  ELSE [victima |-> 1, apagadas |-> DOMAIN residentes[p]]

\* Two turns, the first for (u=0, m=0) and the second for (u=0, m=1) clearing
\* use bits; then the same again, now that no page is in use.
ReemplazarClockModificado(p) ==
  IF Con(p, {0}, {0}) # {} THEN [victima |-> Min(Con(p, {0}, {0})), apagadas |-> {}]
  ELSE IF Con(p, {0}, {1}) # {} THEN Hasta(Con(p, {0}, {1}))
  ELSE [victima |-> IF Con(p, {1}, {0}) # {} THEN Min(Con(p, {1}, {0})) ELSE 1,
        apagadas |-> DOMAIN residentes[p]]

Reemplazo(p) ==
  IF config.reemplazo = "CLOCK" THEN ReemplazarClock(p) ELSE ReemplazarClockModificado(p)

\* The list without its k-th page, from there on: where the hand stops.
Girar(s, k) == SubSeq(s, k + 1, Len(s)) \o SubSeq(s, 1, k - 1)

\* The fields of a page brought into frame m.
Presente(m) == [marco |-> m, presencia |-> TRUE, uso |-> 1, modificado |-> 0]

\* Slip: modificado is cleared before the page is known to be absent.
YaPresenteLimpia(p, n) ==
  /\ pagina[p][n].presencia
  /\ pagina' = [pagina EXCEPT ![p][n].uso = 1, ![p][n].modificado = 0]
  /\ UNCHANGED <<tablasVars, marcosVars, principal, swap>>

\* traer_a_memoria, of a page that is there, into a free frame, and in the
\* place of another one, which goes to swap if it was modified.
YaPresente(p, n) ==
  /\ pagina[p][n].presencia
  /\ pagina' = [pagina EXCEPT ![p][n].uso = 1]
  /\ UNCHANGED <<tablasVars, marcosVars, principal, swap>>

EnMarcoLibre(p, n) ==
  /\ ~pagina[p][n].presencia
  /\ Len(residentes[p]) < MARCOS_POR_PROCESO
  /\ libres # {}
  /\ LET m == Min(libres) IN
       /\ pagina' = [pagina EXCEPT ![p][n] = Presente(m)]
       /\ libres' = libres \ {m}
       /\ principal' = [principal EXCEPT ![m] = swap[p][n]]
  /\ residentes' = [residentes EXCEPT ![p] = Append(@, n)]
  /\ UNCHANGED <<tablasVars, swap>>

EnLugarDeOtra(p, n) ==
  /\ ~pagina[p][n].presencia
  /\ Len(residentes[p]) >= MARCOS_POR_PROCESO
  /\ LET r == Reemplazo(p)
         sale == residentes[p][r.victima]
         m == pagina[p][sale].marco
         apagadas == {residentes[p][k] : k \in r.apagadas}
         girada(q) == IF q \in apagadas THEN [pagina[p][q] EXCEPT !.uso = 0] ELSE pagina[p][q]
     IN /\ pagina' = [pagina EXCEPT ![p] = [q \in Numeros(p) |->
              CASE q = n -> Presente(m)
                [] q = sale -> [girada(q) EXCEPT !.presencia = FALSE, !.modificado = 0]
                [] OTHER -> girada(q)]]
        /\ swap' = IF pagina[p][sale].modificado = 1
                   THEN [swap EXCEPT ![p][sale] = principal[m]] ELSE swap
        /\ principal' = [principal EXCEPT ![m] = swap[p][n]]
        /\ residentes' = [residentes EXCEPT ![p] = Append(Girar(@, r.victima), n)]
  /\ UNCHANGED <<tablasVars, libres>>

TraerAMemoria(p, n) == YaPresente(p, n) \/ EnMarcoLibre(p, n) \/ EnLugarDeOtra(p, n)

-----------------------------------------------------------------------------
\* memoria_pedir_tabla and the first half of memoria_pedir_marco.
PedirTabla(tabla1, entrada) == primer_nivel[tabla1 + 1].tablas[entrada + 1]
PaginaDe(tabla2, entrada) == segundo_nivel[tabla2 + 1][entrada + 1]

\* The frames the resident pages of a process hold.
MarcosDe(p) == {pagina[p][n].marco : n \in ToSet(residentes[p])}

\* Slip: the frames are not freed.
SuspenderSinLiberar(p) ==
  /\ swap' = [swap EXCEPT ![p] = [n \in Numeros(p) |->
       IF Contains(residentes[p], n) THEN principal[pagina[p][n].marco] ELSE @[n]]]
  /\ pagina' = [pagina EXCEPT ![p] = [n \in Numeros(p) |-> [@[n] EXCEPT !.presencia = FALSE]]]
  /\ residentes' = [residentes EXCEPT ![p] = <<>>]
  /\ UNCHANGED <<tablasVars, libres, principal>>

\* suspender_proceso: swap_suspender_proceso.
SuspenderProceso(p) ==
  /\ swap' = [swap EXCEPT ![p] = [n \in Numeros(p) |->
       IF Contains(residentes[p], n) /\ pagina[p][n].modificado = 1
       THEN principal[pagina[p][n].marco] ELSE @[n]]]
  /\ pagina' = [pagina EXCEPT ![p] = [n \in Numeros(p) |->
       IF Contains(residentes[p], n) THEN [@[n] EXCEPT !.presencia = FALSE] ELSE @[n]]]
  /\ libres' = libres \cup MarcosDe(p)
  /\ residentes' = [residentes EXCEPT ![p] = <<>>]
  /\ UNCHANGED <<tablasVars, principal>>

\* Slip: the list of residents is cleared without clearing their bits.
FinalizarSinLiberar(p) ==
  /\ residentes' = [residentes EXCEPT ![p] = <<>>]
  /\ UNCHANGED <<tablasVars, pagina, libres, principal, swap>>

\* finalizar_proceso: the frames are freed and the swap file removed; the
\* tables stay, with their pages as they were.
FinalizarProceso(p) ==
  /\ libres' = libres \cup MarcosDe(p)
  /\ residentes' = [residentes EXCEPT ![p] = <<>>]
  /\ UNCHANGED <<tablasVars, pagina, principal, swap>>

-----------------------------------------------------------------------------
\* memoria_leer and memoria_escribir; the second copies the word under
\* mutex_memoria and marks the page later, under mutex_tablas.
MemoriaLeer(m) == principal[m]

MemoriaEscribir(m, v) ==
  /\ principal' = [principal EXCEPT ![m] = v]
  /\ UNCHANGED <<tablasVars, pagina, marcosVars, swap>>

BuscarPagina(m) ==
  {pn \in UNION {{p} \X ToSet(residentes[p]) : p \in Procesos} :
     pagina[pn[1]][pn[2]].marco = m /\ pagina[pn[1]][pn[2]].presencia}

MarcarModificada(m) ==
  /\ \E pn \in BuscarPagina(m) : pagina' = [pagina EXCEPT ![pn[1]][pn[2]].modificado = 1]
  /\ UNCHANGED <<tablasVars, marcosVars, principal, swap>>

=============================================================================
