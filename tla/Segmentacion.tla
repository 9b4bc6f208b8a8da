----------------------------- MODULE Segmentacion -----------------------------
(***************************************************************************)
(* Segmentation in Mi-RAM-HQ (src/amongos/Mi-RAM-HQ/src/segmentacion.c):   *)
(* a segment for the PCB of each crew, one for each of its members' TCBs   *)
(* and one for its tasks, and the list of the holes between segments.      *)
(*                                                                         *)
(* What each function does to the globals is an operator from and to a     *)
(* record s of them; MiRAM makes actions of them, each the code between    *)
(* sem_wait(&mutex_memoria) and its sem_post. seg_dump only writes a file. *)
(* What a hole holds is not kept: a read of it would be of anything.       *)
(***************************************************************************)
EXTENDS EstructurasRAM

VARIABLE
  seg       \* memoria_principal, procesos (the list of segments of each pid),
            \* huecos, and whether the process has died of a bad address

\* seg_iniciar_variables: one hole, the whole memory.
SegIniciar(tamanio) ==
  [memoria |-> [a \in 0..(tamanio - 1) |-> Basura],
   procesos |-> <<>>,
   huecos |-> <<[inicio |-> 0, tamanio |-> tamanio]>>,
   caida |-> FALSE]

Suma(segmentos) == MapThenSumSet(LAMBDA x : x.tamanio, segmentos)
Segmentos(s) == UNION {ToSet(s.procesos[pid]) : pid \in DOMAIN s.procesos}
Contenido(s, x) == [k \in 1..x.tamanio |-> s.memoria[x.inicio + k - 1]]

\* segmentos_ordenados, compactacion: every segment moves down to the end of
\* the ones before it, and what is left is one hole.
Compactacion(s) ==
  LET todos == Segmentos(s)
      base(x) == Suma({y \in todos : y.inicio < x.inicio})
      mover(memoria, x) == Copiar(memoria, base(x), Contenido(s, x))
      movido(x) == [x EXCEPT !.inicio = base(x)]
      fin == Suma(todos)
  IN [s EXCEPT
        !.memoria = FoldSet(LAMBDA x, memoria : mover(memoria, x), [a \in DOMAIN @ |-> Basura], todos),
        !.procesos = [pid \in DOMAIN @ |-> [i \in DOMAIN @[pid] |-> movido(@[pid][i])]],
        !.huecos = IF fin < config.tamanio THEN <<[inicio |-> fin, tamanio |-> config.tamanio - fin]>> ELSE <<>>]

HayEspacio(s, tamanio) == FoldLeft(LAMBDA libre, x : libre + x.tamanio, 0, s.huecos) >= tamanio

\* hay_algun_hueco_de, buscar_hueco: the first that fits, or the first of the
\* smallest that do.
Alcanzan(s, tamanio) == {i \in DOMAIN s.huecos : s.huecos[i].tamanio >= tamanio}
BuscarHueco(s, tamanio) ==
  LET peor(i, j) == config.criterio = "BF" /\ s.huecos[j].tamanio < s.huecos[i].tamanio
  IN Min({i \in Alcanzan(s, tamanio) : \A j \in Alcanzan(s, tamanio) : ~peor(i, j)})

\* Slip: the hole shrinks and stays where it is.
RestoQuieto(x, n) == [x EXCEPT !.tamanio = @ - n]
Resto(x, n) == [inicio |-> x.inicio + n, tamanio |-> x.tamanio - n]

\* guardar_segmento, and list_add to the segments of the process. With no hole
\* after the compaction, list_get(huecos, -1) is a null pointer.
GuardarSegmento(s, pid, contenido) ==
  LET n == Len(contenido)
      c == IF Alcanzan(s, n) = {} THEN Compactacion(s) ELSE s
      i == BuscarHueco(c, n)
      x == c.huecos[i]
  IN IF Alcanzan(c, n) = {} THEN [c EXCEPT !.caida = TRUE]
     ELSE [c EXCEPT !.huecos = IF x.tamanio # n THEN ReplaceAt(@, i, Resto(x, n)) ELSE RemoveAt(@, i),
                    !.memoria = Copiar(@, x.inicio, contenido),
                    !.procesos[pid] = Append(@, [inicio |-> x.inicio, tamanio |-> n])]

\* seg_guardar_patota: the process is in the list before its segments are, so
\* that a compaction between two of them moves those it already has.
SegCabe(s, pid) == HayEspacio(s, TAM_PCB + TAM_TCB * TRIPULANTES[pid] + Len(Texto(pid)))
SegGuardarPatota(s, pid) ==
  FoldLeft(LAMBDA d, contenido : GuardarSegmento(d, pid, contenido),
           [s EXCEPT !.procesos = Con(@, pid, <<>>)],
           <<PCB(pid, 0)>> \o [t \in 1..TRIPULANTES[pid] |-> TCB(t, 1)] \o <<Texto(pid)>>)

\* eliminar_segmento: a hole where it was, in order; holes are never joined.
EliminarSegmento(s, x) ==
  LET mayores == {i \in DOMAIN s.huecos : x.inicio < s.huecos[i].inicio}
  IN [s EXCEPT !.huecos = IF mayores = {} THEN Append(@, x) ELSE InsertAt(@, Min(mayores), x),
               !.memoria = Copiar(@, x.inicio, [k \in 1..x.tamanio |-> Basura])]

\* The segments of the TCBs are those between the PCB's and the tasks'.
ConTid(s, pid, tid, i) == s.memoria[s.procesos[pid][i].inicio] = Campo("tid", tid)
DeTCB(s, pid, tid) == {i \in 2..(Len(s.procesos[pid]) - 1) : ConTid(s, pid, tid, i)}

\* seg_eliminar_pcb: a hole for each of its segments, and one process less.
SegEliminarPCB(s, pid) ==
  [FoldLeft(EliminarSegmento, s, s.procesos[pid]) EXCEPT !.procesos = Restrict(@, DOMAIN @ \ {pid})]

\* seg_eliminar_tcb and, for the last member, seg_eliminar_pcb.
SegEliminarTCB(s, pid, tid) ==
  LET i == DeTCB(s, pid, tid)
      d == IF i = {} THEN s
           ELSE [EliminarSegmento(s, s.procesos[pid][Min(i)]) EXCEPT !.procesos[pid] = RemoveAt(@, Min(i))]
  IN IF Len(d.procesos[pid]) > 2 THEN d
     ELSE SegEliminarPCB(d, pid)

\* buscar_tcb: the address of the TCB; of the last one, if none has that tid.
BuscarTCB(s, pid, tid) ==
  LET i == IF DeTCB(s, pid, tid) = {} THEN Len(s.procesos[pid]) - 1 ELSE Min(DeTCB(s, pid, tid))
  IN s.procesos[pid][i].inicio

SegEditar(s, pid, tid, campo, valor) == [s EXCEPT !.memoria[BuscarTCB(s, pid, tid) + campo] = valor]
\* Slip: whoever asks, it is the first member of the crew that changes.
SegCambiarElPrimero(s, pid, tid, estado) == SegEditar(s, pid, 1, ESTADO, Campo("estado", estado))
SegCambiarEstado(s, pid, tid, estado) == SegEditar(s, pid, tid, ESTADO, Campo("estado", estado))
SegMover(s, pid, tid, x) == SegEditar(s, pid, tid, POSICION, Campo("posicion", x))

\* The part of seg_siguiente_tarea under the mutex: siguiente_instruccion and
\* obtener_tareas.
Instruccion(s, pid, tid) == s.memoria[BuscarTCB(s, pid, tid) + INSTRUCCION][2]
SegAvanzar(s, pid, tid) == SegEditar(s, pid, tid, INSTRUCCION, Campo("instruccion", Instruccion(s, pid, tid) + 1))
ObtenerTareas(s, pid) == Contenido(s, Last(s.procesos[pid]))

-------------------------------------------------------------------------------
\* Every cell of the memory is in one segment or in one hole, and the holes are
\* in order: what guardar_segmento, eliminar_segmento and compactacion, called
\* with no protection but the mutex, keep between them. A cell lost is memory
\* that no crew can ever use; a cell twice, a TCB over another.
ParticionMemoria ==
  LET celdas(x) == x.inicio..(x.inicio + x.tamanio - 1)
      segmentos(a) == {l \in UNION {{pid} \X DOMAIN seg.procesos[pid] : pid \in DOMAIN seg.procesos} :
                         a \in celdas(seg.procesos[l[1]][l[2]])}
      huecos(a) == {i \in DOMAIN seg.huecos : a \in celdas(seg.huecos[i])}
  IN /\ \A a \in DOMAIN seg.memoria : Cardinality(segmentos(a)) + Cardinality(huecos(a)) = 1
     /\ \A x \in Segmentos(seg) \cup ToSet(seg.huecos) : celdas(x) \subseteq DOMAIN seg.memoria
     /\ \A i, j \in DOMAIN seg.huecos : i < j => seg.huecos[i].inicio < seg.huecos[j].inicio

===============================================================================
