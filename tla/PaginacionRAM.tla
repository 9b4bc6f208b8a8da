---------------------------- MODULE PaginacionRAM ----------------------------
(***************************************************************************)
(* Paging in Mi-RAM-HQ (src/amongos/Mi-RAM-HQ/src/paginacion.c): the PCB,  *)
(* the TCBs and the tasks of a crew, one after the other, in pages that    *)
(* are in the memory or in the swap file.                                  *)
(*                                                                         *)
(* As in Segmentacion, the functions are operators on a record d of the    *)
(* globals. An address of a process is the number of a cell from its PCB;  *)
(* pages are numbered from 1 here, frames from 0. pag_dump only writes a   *)
(* file.                                                                   *)
(***************************************************************************)
EXTENDS EstructurasRAM

VARIABLE
  pag       \* memoria_principal, memoria_swap, frames_real and frames_swap (the
            \* frames in use), procesos, paginas_memoria (pages, as <<pid, number>>),
            \* puntero, and whether the process has died of a bad address

TAM == config.pagina
Marcos == config.tamanio \div TAM
MarcosSwap == config.swap \div TAM
Techo(n) == (n + TAM - 1) \div TAM

\* pag_iniciar_variables
PagIniciar(tamanio, swap) ==
  [memoria |-> [a \in 0..(tamanio - 1) |-> Basura],
   swap |-> [a \in 0..(swap - 1) |-> Basura],
   frames_real |-> {}, frames_swap |-> {},
   procesos |-> <<>>, paginas_memoria |-> <<>>, puntero |-> 0,
   caida |-> FALSE]

Caer(d) == [d EXCEPT !.caida = TRUE]
Pagina(d, pg) == d.procesos[pg[1]].paginas[pg[2]]
ConPagina(d, pg, pagina) == [d EXCEPT !.procesos[pg[1]].paginas[pg[2]] = pagina]
ConUso(d, pg, uso) == ConPagina(d, pg, [Pagina(d, pg) EXCEPT !.uso = uso])
EnFrame(d, pg, frame, presencia) == ConPagina(d, pg, [Pagina(d, pg) EXCEPT !.frame = frame, !.presencia = presencia])
Copia(memoria, frame) == [k \in 1..TAM |-> memoria[frame * TAM + k - 1]]

\* Slip: one frame too many.
ProximoFrameDeMas(ocupados, cantidad) ==
  LET libres == (0..cantidad) \ ocupados IN IF libres = {} THEN -1 ELSE Min(libres)
\* proximo_frame: the first that is free, or -1.
ProximoFrame(ocupados, cantidad) ==
  LET libres == (0..(cantidad - 1)) \ ocupados IN IF libres = {} THEN -1 ELSE Min(libres)

-------------------------------------------------------------------------------
(* Replacement: insertar_pagina and traer_pagina choose a page of            *)
(* paginas_memoria, of which LRU takes the first, and CLOCK the first from   *)
(* the hand with uso in 0, putting in 0 those it passes; the page that comes *)
(* takes its place in the list. With nothing in the list the first read of   *)
(* it is one of a null pointer.                                              *)

Adelantar(d, n) == IF n >= Len(d.paginas_memoria) THEN 0 ELSE n

\* The positions the hand of CLOCK goes through, and how many it passes.
Vuelta(d) == [k \in DOMAIN d.paginas_memoria |-> ((d.puntero + k - 1) % Len(d.paginas_memoria)) + 1]
Pasadas(d) ==
  LET paran == {k \in DOMAIN Vuelta(d) : ~Pagina(d, d.paginas_memoria[Vuelta(d)[k]]).uso}
  IN IF paran = {} THEN Len(d.paginas_memoria) ELSE Min(paran) - 1

Victima(d) == IF config.reemplazo = "LRU" THEN 1 ELSE Vuelta(d)[(Pasadas(d) % Len(d.paginas_memoria)) + 1]
SinUso(d, pgs) ==
  LET paginas(pid) == [i \in DOMAIN d.procesos[pid].paginas |->
                         [Pagina(d, <<pid, i>>) EXCEPT !.uso = @ /\ <<pid, i>> \notin pgs]]
  IN [d EXCEPT !.procesos = [pid \in DOMAIN d.procesos |-> [d.procesos[pid] EXCEPT !.paginas = paginas(pid)]]]
Relevar(d, pg) ==
  LET v == Victima(d)
      pasadas == {d.paginas_memoria[Vuelta(d)[k]] : k \in 1..Pasadas(d)}
  IN IF config.reemplazo = "LRU" THEN [d EXCEPT !.paginas_memoria = Append(Tail(@), pg)]
     ELSE [SinUso(d, pasadas) EXCEPT !.paginas_memoria = ReplaceAt(@, v, pg), !.puntero = Adelantar(d, v)]

\* The page that leaves goes to the swap, and pg has its frame.
Reemplazar(d, pg) ==
  IF d.paginas_memoria = <<>> THEN Caer(d)
  ELSE LET sacada == d.paginas_memoria[Victima(d)]
           frame == Pagina(d, sacada).frame
           virtual == ProximoFrame(d.frames_swap, MarcosSwap)
           e == EnFrame(Relevar(d, pg), sacada, virtual, FALSE)
       IN IF virtual = -1 THEN Caer(d)
          ELSE [EnFrame(e, pg, frame, TRUE) EXCEPT
                  !.swap = Copiar(@, virtual * TAM, Copia(d.memoria, frame)),
                  !.frames_swap = @ \cup {virtual}]

\* traer_pagina: to a free frame, and only then is the page listed, or to the
\* frame of the page it replaces.
TraerPagina(d, pg) ==
  LET vieja == Pagina(d, pg).frame
      libre == ProximoFrame(d.frames_real, Marcos)
      e == [ConUso(d, pg, TRUE) EXCEPT !.frames_swap = @ \ {vieja}]
      f == IF libre = -1 THEN Reemplazar(e, pg)
           ELSE [EnFrame(e, pg, libre, TRUE) EXCEPT
                   !.frames_real = @ \cup {libre}, !.paginas_memoria = Append(@, pg)]
  IN IF vieja = -1 \/ f.caida THEN Caer(d)
     ELSE [f EXCEPT !.memoria = Copiar(@, Pagina(f, pg).frame * TAM, Copia(d.swap, vieja))]

\* usar_pagina: under LRU a page that is not in the list is removed from the
\* position -1 of it.
UsarPagina(d, pg) ==
  LET e == ConUso(d, pg, TRUE)
  IN IF config.reemplazo = "CLOCK" THEN e
     ELSE IF ~Contains(d.paginas_memoria, pg) THEN Caer(d)
     ELSE [e EXCEPT !.paginas_memoria = Append(RemoveFirst(@, pg), pg)]

\* A page brought or used, and one that is not there or has no frame.
Tocar(d, pid, direccion) ==
  LET pg == <<pid, direccion \div TAM + 1>>
  IN IF d.caida \/ pg[2] > Len(d.procesos[pid].paginas) THEN Caer(d)
     ELSE IF ~Pagina(d, pg).presencia THEN TraerPagina(d, pg)
     ELSE IF Pagina(d, pg).frame = -1 THEN Caer(d)
     ELSE UsarPagina(d, pg)

\* Where a cell of the process is, once its page is in the memory.
Real(d, pid, direccion) == Pagina(d, <<pid, direccion \div TAM + 1>>).frame * TAM + (direccion % TAM)

\* editar_proceso: page by page, each brought before its part is copied.
Editar(d, pid, direccion, celda) ==
  LET e == Tocar(d, pid, direccion)
  IN IF e.caida THEN e ELSE [e EXCEPT !.memoria[Real(e, pid, direccion)] = celda]

\* copiar_tcb, direccion_tareas, the loop of pag_siguiente_tarea: a read of the
\* cells from..to brings their pages; what it reads is their content.
Recorrer(d, pid, desde, hasta) ==
  FoldLeft(LAMBDA e, a : Tocar(e, pid, a), d, [k \in 1..(hasta - desde + 1) |-> desde + k - 1])
Leida(d, pid, direccion) ==
  IF Pagina(d, <<pid, direccion \div TAM + 1>>).presencia THEN d.memoria[Real(d, pid, direccion)]
  ELSE d.swap[Real(d, pid, direccion)]

-------------------------------------------------------------------------------
DireccionTCB(tid) == TAM_PCB + TAM_TCB * (tid - 1)
PaginasTCB(tid) == {a \div TAM + 1 : a \in DireccionTCB(tid)..(DireccionTCB(tid) + TAM_TCB - 1)}
DireccionTareas(pid) == DireccionTCB(TRIPULANTES[pid] + 1)

ImagenTCBs(pid) ==
  [k \in 1..(TAM_TCB * TRIPULANTES[pid]) |->
     TCB((k - 1) \div TAM_TCB + 1, DireccionTareas(pid))[((k - 1) % TAM_TCB) + 1]]
Imagen(pid) == PCB(pid, DireccionTareas(pid)) \o ImagenTCBs(pid) \o Texto(pid)

\* hay_espacio_pag: free frames, of the memory or of the swap.
PagCabe(d, pid) ==
  Marcos - Cardinality(d.frames_real) + MarcosSwap - Cardinality(d.frames_swap) >= Techo(Len(Imagen(pid)))

\* One turn of guardar_paginas (insertar_pagina when there is no frame): the
\* page is not put in paginas_memoria.
GuardarPagina(d, pid, trozo) ==
  LET libre == ProximoFrame(d.frames_real, Marcos)
      e == [d EXCEPT !.procesos[pid].paginas = Append(@, [frame |-> libre, presencia |-> TRUE, uso |-> TRUE])]
      pg == <<pid, Len(e.procesos[pid].paginas)>>
      f == IF libre = -1 THEN Reemplazar(e, pg) ELSE e
      frame == Pagina(f, pg).frame
  IN IF d.caida \/ f.caida THEN Caer(d)
     ELSE [f EXCEPT !.memoria = Copiar(@, frame * TAM, trozo), !.frames_real = @ \cup {frame}]

\* pag_guardar_patota
PagGuardarPatota(d, pid) ==
  LET tamanio == Len(Imagen(pid))
      trozo(i) == SubSeq(Imagen(pid), (i - 1) * TAM + 1, Min({i * TAM, tamanio}))
      nuevo == [tamanio |-> tamanio, paginas |-> <<>>, tcbs |-> 1..TRIPULANTES[pid]]
  IN FoldLeft(LAMBDA e, i : GuardarPagina(e, pid, trozo(i)),
              [d EXCEPT !.procesos = Con(@, pid, nuevo)], [i \in 1..Techo(tamanio) |-> i])

PagCambiarEstado(d, pid, tid, estado) == Editar(d, pid, DireccionTCB(tid) + ESTADO, Campo("estado", estado))
PagMover(d, pid, tid, x) == Editar(d, pid, DireccionTCB(tid) + POSICION, Campo("posicion", x))

\* pag_siguiente_tarea: the whole TCB is read, then the text from its instruccion
\* to a comma or to the end of the process, and the TCB has where that is.
Proxima(d, pid, tid) == Leida(d, pid, DireccionTCB(tid) + INSTRUCCION)[2]
PagTarea(d, pid, tid) ==
  LET texto == Proxima(d, pid, tid)..(d.procesos[pid].tamanio - 1)
      comas == {a \in texto : Leida(d, pid, a) = Coma}
      fin == IF comas = {} THEN d.procesos[pid].tamanio ELSE Min(comas)
  IN [k \in 1..(fin - Proxima(d, pid, tid)) |-> Leida(d, pid, Proxima(d, pid, tid) + k - 1)]
PagSiguienteTarea(d, pid, tid) ==
  LET e == Recorrer(d, pid, DireccionTCB(tid), DireccionTCB(tid) + TAM_TCB - 1)
      hasta == Min({Proxima(d, pid, tid) + Len(PagTarea(d, pid, tid)), d.procesos[pid].tamanio - 1})
      f == Recorrer(e, pid, Proxima(d, pid, tid), hasta)
  IN IF e.caida \/ Proxima(d, pid, tid) >= d.procesos[pid].tamanio THEN e
     ELSE Editar(f, pid, DireccionTCB(tid) + INSTRUCCION, Campo("instruccion", hasta + 1))

-------------------------------------------------------------------------------
\* Frames given back. bitarray_clean_bit of the frame of a page that has none,
\* the unsigned -1, is half a gigabyte past the bitmap.
Liberar(d, pg) ==
  LET pagina == Pagina(d, pg)
  IN IF d.caida \/ pagina.frame = -1 THEN Caer(d)
     ELSE IF ~pagina.presencia THEN [d EXCEPT !.frames_swap = @ \ {pagina.frame}]
     ELSE LET lista == RemoveFirst(d.paginas_memoria, pg)
          IN [d EXCEPT !.frames_real = @ \ {pagina.frame}, !.paginas_memoria = lista,
                       !.puntero = IF Contains(d.paginas_memoria, pg) /\ @ >= Len(lista) THEN 0 ELSE @]

\* pag_eliminar_pcb
PagEliminarPCB(d, pid) ==
  LET paginas == d.procesos[pid].paginas
  IN [FoldLeft(Liberar, d, [i \in DOMAIN paginas |-> <<pid, i>>]) EXCEPT
        !.procesos = Restrict(@, DOMAIN @ \ {pid})]

\* Slip: the page that is freed keeps its frame.
SoltarConFrame(d, pg) == Liberar(d, pg)
Soltar(d, pg) == EnFrame(Liberar(d, pg), pg, -1, Pagina(d, pg).presencia)

\* Slip: only the page where a TCB starts is taken as its own.
DeOtroSiEmpieza(i, quedan) == \E u \in quedan : i = Min(PaginasTCB(u))
DeOtro(i, quedan) == \E u \in quedan : i \in PaginasTCB(u)

\* pag_eliminar_tcb: the pages of the TCB that are after the first, before those
\* of the tasks, and of no other member that is left.
PagEliminarTCB(d, pid, tid) ==
  LET e == [d EXCEPT !.procesos[pid].tcbs = @ \ {tid}]
      quedan == e.procesos[pid].tcbs
      f == Recorrer(e, pid, 1, 1)
      primera == Leida(d, pid, 1)[2] \div TAM + 1
      borrar == {i \in PaginasTCB(tid) : /\ i > 1 /\ i < primera /\ ~DeOtro(i, quedan)
                                         /\ Pagina(f, <<pid, i>>).frame # -1}
  IN IF quedan = {} THEN PagEliminarPCB(e, pid)
     ELSE IF f.caida THEN f
     ELSE FoldSet(LAMBDA i, g : Soltar(g, <<pid, i>>), f, borrar)

-------------------------------------------------------------------------------
Paginas == UNION {{p} \X DOMAIN pag.procesos[p].paginas : p \in DOMAIN pag.procesos}
EnMemoria == {pg \in Paginas : Pagina(pag, pg).presencia /\ Pagina(pag, pg).frame # -1}

\* A frame of the memory belongs to one page, and the bitmap has as in use the
\* frames that pages have: what guardar_paginas, traer_pagina and the two
\* functions that free pages keep between them.
FramesPropios ==
  ~pag.caida =>
    /\ \A x, y \in EnMemoria : Pagina(pag, x).frame = Pagina(pag, y).frame => x = y
    /\ pag.frames_real = {Pagina(pag, pg).frame : pg \in EnMemoria}

\* Expelling a member frees pages, but never one that holds something of a
\* member of the crew that is left, its PCB or its tasks.
PaginasVivas ==
  ~pag.caida =>
    \A pid \in DOMAIN pag.procesos :
      LET p == pag.procesos[pid]
      IN \A i \in {1} \cup (UNION {PaginasTCB(t) : t \in p.tcbs})
                   \cup (DireccionTareas(pid) \div TAM + 1)..Len(p.paginas) :
           p.paginas[i].frame # -1

===============================================================================
