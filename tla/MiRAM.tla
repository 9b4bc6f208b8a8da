-------------------------------- MODULE MiRAM --------------------------------
(***************************************************************************)
(* The server Mi-RAM-HQ (src/amongos/Mi-RAM-HQ/src/acciones.c) with the    *)
(* memory scheme of its configuration, and the Discordiador as its client: *)
(* one connection, and so one thread of the server, per crew member, and   *)
(* one of the console (Discordiador/src/tripulante.c).                     *)
(*                                                                         *)
(* A request is one action, from recibir to the answer, as all it does to  *)
(* the memory is under mutex_memoria; but for PROXIMA_TAREA with           *)
(* segmentation, which lets go of the mutex before it cuts the text of the *)
(* tasks with strtok, whose state is one for the whole process: there each *)
(* call of strtok is an action.                                            *)
(***************************************************************************)
EXTENDS Segmentacion, PaginacionRAM

CONSTANTS
  MaxSeparando,   \* bound: requests that cut texts at the same time
  MaxCambios      \* bound: changes of state and moves

ASSUME MiRAMAssumption == MaxSeparando \in Nat \ {0} /\ MaxCambios \in Nat

NINGUNA == <<"ninguna">>
FIN == <<"fin">>

VARIABLES
  fase,        \* where each member is: "fuera", "creada", "trabaja", "termino", "expulsado"
  tarea,       \* t->tarea, the last answer to its pedir_tarea
  separando,   \* the requests that are cutting a text: instruccion, tareas, lista_tareas
  resto,       \* what strtok has left to cut
  cambios      \* how many changes of state and moves there were

clientes == <<fase, tarea>>
strtok == <<separando, resto>>
vars == <<config, seg, pag, clientes, strtok, cambios>>

CAIDA == seg.caida \/ pag.caida
Esquema(e) == ~CAIDA /\ config.esquema = e

\* What a handler leaves; one that dies leaves the memory as it was, as nobody
\* will see it again.
Queda(s, n) == IF n.caida THEN [s EXCEPT !.caida = TRUE] ELSE n
EnSeg(n) == seg' = Queda(seg, n) /\ UNCHANGED pag
EnPag(n) == pag' = Queda(pag, n) /\ UNCHANGED seg

-------------------------------------------------------------------------------
De(pid) == {pid} \X (1..TRIPULANTES[pid])

\* The console starts crews one at a time: the pid is the one after the last
\* that was accepted, and each member asks for its first task, in order, before
\* the next one is started (iniciar_patota, iniciar_tripulante).
ProximoPid == Cardinality({pid \in Pids : fase[<<pid, 1>>] # "fuera"}) + 1
ConsolaLibre == \A m \in Miembros : fase[m] # "creada"
PuedePedir(m) ==
  \/ fase[m] = "trabaja" /\ m \notin DOMAIN separando
  \/ /\ fase[m] = "creada" /\ m \notin DOMAIN separando
     /\ \A t \in 1..(m[2] - 1) : fase[<<m[1], t>>] # "creada"
Conectado(m) == fase[m] \in {"trabaja", "termino"} /\ m \notin DOMAIN separando

\* A text may be cut while others are: the bound is on how many at once.
PuedeSeparar == Cardinality(DOMAIN separando) < MaxSeparando

\* INICIAR_PATOTA (iniciar_patota). A crew that is refused may be asked for
\* again. With segmentation separar_string cuts the positions too: its calls of
\* strtok are one here, and what is left of them is that strtok has no text. A
\* request that is cutting its tasks meanwhile loses what it had left, as in the
\* code; that in between the two take some of each other's words is left out.
IniciarPatota(pid) ==
  /\ pid = ProximoPid /\ ConsolaLibre
  /\ \/ /\ Esquema("SEGMENTACION") /\ SegCabe(seg, pid) /\ PuedeSeparar
        /\ EnSeg(SegGuardarPatota(seg, pid))
        /\ resto' = <<>>
     \/ /\ Esquema("PAGINACION") /\ PagCabe(pag, pid)
        /\ EnPag(PagGuardarPatota(pag, pid))
        /\ UNCHANGED resto
  /\ fase' = [m \in Miembros |-> IF m \in De(pid) /\ ~CAIDA' THEN "creada" ELSE fase[m]]
  /\ UNCHANGED <<config, tarea, separando, cambios>>

Responder(m, respuesta) ==
  /\ tarea' = [tarea EXCEPT ![m] = respuesta]
  /\ fase' = [fase EXCEPT ![m] = IF respuesta = FIN THEN "termino" ELSE "trabaja"]

\* PROXIMA_TAREA with paging (enviar_proxima_tarea, pag_siguiente_tarea).
ProximaTareaPag(m) ==
  LET n == PagSiguienteTarea(pag, m[1], m[2])
      hay == Proxima(pag, m[1], m[2]) < pag.procesos[m[1]].tamanio
  IN /\ Esquema("PAGINACION") /\ PuedePedir(m)
     /\ EnPag(n)
     /\ IF n.caida THEN UNCHANGED clientes
        ELSE Responder(m, IF hay THEN Tarea(PagTarea(pag, m[1], m[2])) ELSE FIN)
     /\ UNCHANGED <<config, strtok, cambios>>

\* PROXIMA_TAREA with segmentation: what seg_siguiente_tarea does under the
\* mutex, then each call of strtok, and after the one that answers NULL the
\* choice of the task.
ProximaTareaSeg(m) ==
  /\ Esquema("SEGMENTACION") /\ PuedePedir(m) /\ PuedeSeparar
  /\ EnSeg(SegAvanzar(seg, m[1], m[2]))
  /\ separando' = Con(separando, m, [instruccion |-> Instruccion(seg, m[1], m[2]),
                                     tareas |-> ObtenerTareas(seg, m[1]), lista |-> <<>>])
  /\ UNCHANGED <<config, clientes, resto, cambios>>

\* One token: what comes before the first comma, and the rest after it.
Token(texto) ==
  LET comas == {i \in DOMAIN texto : texto[i] = Coma}
  IN SubSeq(texto, 1, IF comas = {} THEN Len(texto) ELSE Min(comas) - 1)

Separar(m) ==
  LET h == separando[m]
      texto == IF h.tareas # <<>> THEN h.tareas ELSE resto
  IN /\ ~CAIDA /\ m \in DOMAIN separando /\ texto # <<>>
     /\ resto' = SubSeq(texto, Len(Token(texto)) + 2, Len(texto))
     /\ separando' = [separando EXCEPT ![m].tareas = <<>>, ![m].lista = Append(@, Token(texto))]
     /\ UNCHANGED <<config, seg, pag, clientes, cambios>>

SepararFin(m) ==
  LET h == separando[m]
  IN /\ ~CAIDA /\ m \in DOMAIN separando /\ h.tareas = <<>> /\ resto = <<>>
     /\ Responder(m, IF h.instruccion <= Len(h.lista) THEN Tarea(h.lista[h.instruccion]) ELSE FIN)
     /\ separando' = Restrict(separando, DOMAIN separando \ {m})
     /\ UNCHANGED <<config, seg, pag, resto, cambios>>

\* CAMBIAR_ESTADO, MOVER_TRIPULANTE
CambiarEstado(m, estado) ==
  /\ Conectado(m) /\ cambios < MaxCambios /\ cambios' = cambios + 1
  /\ \/ Esquema("SEGMENTACION") /\ EnSeg(SegCambiarEstado(seg, m[1], m[2], estado))
     \/ Esquema("PAGINACION") /\ EnPag(PagCambiarEstado(pag, m[1], m[2], estado))
  /\ UNCHANGED <<config, clientes, strtok>>

Mover(m, x) ==
  /\ Conectado(m) /\ cambios < MaxCambios /\ cambios' = cambios + 1
  /\ \/ Esquema("SEGMENTACION") /\ EnSeg(SegMover(seg, m[1], m[2], x))
     \/ Esquema("PAGINACION") /\ EnPag(PagMover(pag, m[1], m[2], x))
  /\ UNCHANGED <<config, clientes, strtok>>

\* EXPULSAR_TRIPULANTE: a member that ended, or that the console expelled.
Expulsar(m) ==
  /\ Conectado(m)
  /\ \/ Esquema("SEGMENTACION") /\ EnSeg(SegEliminarTCB(seg, m[1], m[2]))
     \/ Esquema("PAGINACION") /\ EnPag(PagEliminarTCB(pag, m[1], m[2]))
  /\ fase' = [fase EXCEPT ![m] = IF CAIDA' THEN @ ELSE "expulsado"]
  /\ UNCHANGED <<config, tarea, strtok, cambios>>

\* SIGUSR2, at any moment (signal_handler).
Compactar ==
  /\ Esquema("SEGMENTACION")
  /\ EnSeg(Compactacion(seg))
  /\ UNCHANGED <<config, clientes, strtok, cambios>>

\* iniciar_memoria
Init ==
  /\ config \in Configuraciones
  /\ LET usa(e, tamanio) == IF config.esquema = e THEN tamanio ELSE 0
     IN /\ seg = SegIniciar(usa("SEGMENTACION", config.tamanio))
        /\ pag = PagIniciar(usa("PAGINACION", config.tamanio), usa("PAGINACION", config.swap))
  /\ fase = [m \in Miembros |-> "fuera"] /\ tarea = [m \in Miembros |-> NINGUNA]
  /\ separando = <<>> /\ resto = <<>> /\ cambios = 0

Next ==
  \/ \E pid \in Pids : IniciarPatota(pid)
  \/ \E m \in Miembros :
       \/ ProximaTareaPag(m) \/ ProximaTareaSeg(m) \/ Separar(m) \/ SepararFin(m)
       \/ Expulsar(m)
       \/ \E estado \in Estados : CambiarEstado(m, estado)
       \/ \E x \in Posiciones : Mover(m, x)
  \/ Compactar

Spec == Init /\ [][Next]_vars

-------------------------------------------------------------------------------
TypeOK ==
  /\ config \in Configuraciones
  /\ \A a \in DOMAIN seg.memoria : seg.memoria[a] \in Celdas
  /\ \A a \in DOMAIN pag.memoria : pag.memoria[a] \in Celdas
  /\ \A x \in Segmentos(seg) \cup ToSet(seg.huecos) : {x.inicio, x.tamanio} \subseteq Nat
  /\ pag.frames_real \subseteq 0..(Marcos - 1) /\ pag.frames_swap \subseteq 0..(MarcosSwap - 1)
  /\ \A pg \in Paginas : Pagina(pag, pg).frame \in -1..(Max({Marcos, MarcosSwap}) - 1)
  /\ \A m \in Miembros : fase[m] \in {"fuera", "creada", "trabaja", "termino", "expulsado"}
  /\ DOMAIN separando \subseteq Miembros

(* What each member's TCB says, read from the memory through the tables of   *)
(* the scheme: how many tasks it was given is its instruccion, less the      *)
(* request that is still cutting its text, or, with paging, how many tasks   *)
(* start before it.                                                          *)
Guardados ==
  IF config.esquema = "PAGINACION"
  THEN UNION {{pid} \X pag.procesos[pid].tcbs : pid \in DOMAIN pag.procesos}
  ELSE {m \in Miembros : m[1] \in DOMAIN seg.procesos /\ DeTCB(seg, m[1], m[2]) # {}}
CampoDe(m, campo, nombre) ==
  LET celda == IF config.esquema = "PAGINACION" THEN Leida(pag, m[1], DireccionTCB(m[2]) + campo)
               ELSE seg.memoria[BuscarTCB(seg, m[1], m[2]) + campo]
  IN IF celda[1] = nombre THEN celda[2] ELSE -1
Hechas(m) ==
  LET i == CampoDe(m, INSTRUCCION, "instruccion")
      n == Len(TAREAS[m[1]])
      inicio(k) == DireccionTareas(m[1]) + SumFunction([j \in 1..(k - 1) |-> Len(TAREAS[m[1]][j]) + 1])
  IN IF config.esquema = "PAGINACION" THEN Cardinality({k \in 1..n : inicio(k) < i})
     ELSE Min({n, i - (IF m \in DOMAIN separando THEN 2 ELSE 1)})

Abs == INSTANCE TripulacionAbstracta WITH
  entregada <- tarea,
  estado <- [m \in Guardados |-> CampoDe(m, ESTADO, "estado")],
  posicion <- [m \in Guardados |-> CampoDe(m, POSICION, "posicion")],
  hechas <- [m \in Guardados |-> Hechas(m)]

\* Whatever the scheme and whatever moves in the memory, each request does to the
\* member it is for what was asked, and nothing to any other: a change of state
\* or of place is that member's, the task it is told is the next one of its crew,
\* and a compaction changes nothing. (With more than one text cut at a time it is
\* not so: see TareasPropias.) It is said of the steps that leave it alive.
ImplementaTripulacion ==
  /\ Abs!Init
  /\ [][~CAIDA' =>
         /\ \A pid \in Pids : IniciarPatota(pid) => Abs!Crear(pid)
         /\ \A m \in Miembros :
              /\ ProximaTareaPag(m) \/ SepararFin(m) => Abs!Pedir(m)
              /\ ProximaTareaSeg(m) \/ Separar(m) => UNCHANGED Abs!vars
              /\ Expulsar(m) => Abs!Expulsar(m)
              /\ \A e \in Estados : CambiarEstado(m, e) => Abs!CambiarEstado(m, e)
              /\ \A x \in Posiciones : Mover(m, x) => Abs!Mover(m, x)
         /\ Compactar => UNCHANGED Abs!vars]_vars

\* What a member is told is a task of its own crew, or that there are no more:
\* the text that seg_siguiente_tarea cuts is the one it read for it.
TareasPropias == \A m \in Miembros : tarea[m] \in {NINGUNA, FIN} \cup ToSet(TAREAS[m[1]])

===============================================================================
