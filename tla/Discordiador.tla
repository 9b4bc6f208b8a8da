----------------------------- MODULE Discordiador -----------------------------
(***************************************************************************)
(* The scheduler of AmongOS (src/amongos/Discordiador/src): the planner    *)
(* thread and the thread of each crew member (planificacion.c,             *)
(* tripulante.c), the console, which starts crews, expels members, pauses  *)
(* and resumes (consola.c), and the thread that answers sabotages          *)
(* (sabotaje.c).                                                           *)
(*                                                                         *)
(* An action is one wait or post on a semaphore, or one critical section.  *)
(* cambiar_estado, which every thread calls, is three: it takes the member *)
(* (its mutex), takes it out of a queue, and puts it into another.         *)
(* Positions are on one axis, and messages to Mi-RAM-HQ are left out but   *)
(* for the next task, which is the next of the crew's file.                *)
(***************************************************************************)
EXTENDS Integers, SequencesExt, FiniteSets

CONSTANTS
  Tripulantes,      \* the crew members there may be
  Patotas,          \* the crews: sequences of members
  GRADO_MULTITAREA,
  ALGORITMO,        \* "FIFO" or "RR"
  QUANTUM,
  Escenarios,       \* what crews are told to do and what goes on meanwhile:
                    \*   tareas, of a crew, with their x, tiempo and io
                    \*   lugares, where a sabotage may be
                    \*   pausas, expulsiones, sabotajes: bounds on how many
  NULL

ASSUME DiscordiadorAssumption ==
  /\ IsFiniteSet(Tripulantes)
  /\ Patotas \subseteq Seq(Tripulantes)
  /\ \A p \in Patotas : IsInjective(p) /\ p # <<>>
  /\ \A p, q \in Patotas : p # q => ToSet(p) \cap ToSet(q) = {}
  /\ GRADO_MULTITAREA \in Nat \ {0} /\ QUANTUM \in Nat \ {0}
  /\ ALGORITMO \in {"FIFO", "RR"}
  /\ \A e \in Escenarios :
       /\ e.tareas \in Seq([x : Int, tiempo : Nat \ {0}, io : BOOLEAN]) /\ e.tareas # <<>>
       /\ e.lugares \subseteq Int
       /\ {e.pausas, e.expulsiones, e.sabotajes} \subseteq Nat

Estados == {"NEW", "READY", "EXEC", "BLOCKED", "EXIT"}
Hilos == {"planificador", "consola", "sabotaje"} \cup Tripulantes
\* A call of cambiar_estado or cambiar_estado_soft, and how far it got.
TCambio == [t : Tripulantes, viejo : Estados \cup {NULL}, nuevo : Estados,
            paso : {"tomar", "sacar", "agregar", "suave_sacar", "suave_agregar"}]

ASSUME NombresAssumption ==
  /\ {"planificador", "consola", "sabotaje"} \cap Tripulantes = {}
  /\ NULL \notin Hilos \cup Estados \cup TCambio

Ordenes == {"consola", "sabotaje"}

VARIABLES
  colas,        \* colas[]: the queue of each state
  colas_tomadas,\* todos_los_semaforos holds every sem_colas
  sem,          \* the value of each global semaphore
  trip,         \* the fields of each t_tripulante, and its thread's locals
  mutex_pausa,  \* the thread that holds it
  pausa, planificando, emergencia,
  pc,           \* where each thread is
  cambio,       \* the call of cambiar_estado each thread is in
  lista,        \* the members each thread has in a local list
  sabo,         \* the locals of sabotaje, cola_exec and cola_ready
  usos          \* the scenario, and how many pauses, expulsions and sabotages
                \* there were

banderas == <<pausa, planificando, emergencia>>
colasVars == <<colas, colas_tomadas>>
ordenVars == <<lista, sabo, usos>>
vars == <<colasVars, sem, trip, mutex_pausa, banderas, pc, cambio, ordenVars>>

TAREAS == usos.escenario.tareas
Lugares == usos.escenario.lugares

-----------------------------------------------------------------------------
\* Slip: a wait that never blocks.
EsperarSinBloquear(s) == sem' = [sem EXCEPT ![s] = @ - 1]
Esperar(s) == sem[s] > 0 /\ sem' = [sem EXCEPT ![s] = @ - 1]
Postear(s) == sem' = [sem EXCEPT ![s] = @ + 1]
En(h, punto) == pc[h] = punto /\ cambio[h] = NULL
Ir(h, desde, hasta) == En(h, desde) /\ pc' = [pc EXCEPT ![h] = hasta]
\* A step that changes nothing but pc, and one that waits for the semaphore
\* it is at.
Avanzar(h, desde, hasta) ==
  /\ Ir(h, desde, hasta)
  /\ UNCHANGED <<colasVars, sem, trip, mutex_pausa, banderas, cambio, ordenVars>>
EsperarYSeguir(h, s, hasta) ==
  /\ Ir(h, s, hasta) /\ Esperar(s)
  /\ UNCHANGED <<colasVars, trip, mutex_pausa, banderas, cambio, ordenVars>>

Cambiar(h, t, nuevo) ==
  cambio' = [cambio EXCEPT ![h] = [t |-> t, viejo |-> NULL, nuevo |-> nuevo, paso |-> "tomar"]]
CambiarSuave(h, t, viejo, nuevo) ==
  cambio' = [cambio EXCEPT ![h] = [t |-> t, viejo |-> viejo, nuevo |-> nuevo, paso |-> "suave_sacar"]]

\* Slip: a member is moved without its mutex.
LibreSinMutex(t) == TRUE
Libre(t) == trip[t].mutex = NULL

\* Slip: mutex_pausa taken without waiting for it.
TomarPausaSinEsperar(h) == mutex_pausa' = h
TomarPausa(h) == mutex_pausa = NULL /\ mutex_pausa' = h
SoltarPausa == mutex_pausa' = NULL

EnCola(t, e) == Contains(colas[e], t)
\* Those of s that are in T, in order.
Los(s, T) ==
  LET q[i \in 0..Len(s)] ==
        IF i = 0 THEN <<>> ELSE IF s[i] \in T THEN Append(q[i - 1], s[i]) ELSE q[i - 1]
  IN q[Len(s)]
EnAlguna(t) == \E e \in Estados : EnCola(t, e)
\* The members in the queues, in the order of todos_los_semaforos.
Todos == colas["NEW"] \o colas["READY"] \o colas["EXEC"] \o colas["BLOCKED"] \o colas["EXIT"]

SinCrear ==
  [estado |-> NULL, mutex |-> NULL, semaforo |-> 0, pausado |-> 1, sem_destruir |-> 0,
   termino |-> FALSE, x |-> 0, tiempo_en_cpu |-> 0, tarea |-> 1,
   tiempo_haciendo_tarea |-> 0, haciendo_io |-> FALSE]

Init ==
  /\ colas = [e \in Estados |-> <<>>]
  /\ colas_tomadas = FALSE
  /\ sem = [sem_planificacion |-> 0, cpus_libres |-> GRADO_MULTITAREA,
            dispositivos_io |-> 1, contador_ready |-> 0]
  /\ trip = [t \in Tripulantes |-> SinCrear]
  /\ mutex_pausa = NULL
  /\ pausa = TRUE /\ planificando = FALSE /\ emergencia = FALSE
  /\ pc = [h \in Hilos |-> CASE h = "planificador" -> "cpus_libres"
                             [] h \in Ordenes -> "esperar"
                             [] OTHER -> "sin_crear"]
  /\ cambio = [h \in Hilos |-> NULL]
  /\ lista = [h \in Hilos |-> <<>>]
  /\ sabo = [x |-> 0, elegido |-> NULL, estaba_pausado |-> FALSE,
             estaba_en_ready |-> FALSE, cola_exec |-> <<>>, cola_ready |-> <<>>]
  /\ usos \in [escenario : Escenarios, pausas : {0}, expulsiones : {0}, sabotajes : {0}]

-----------------------------------------------------------------------------
\* cambiar_estado.  A member in EXIT stays there.

EnCambio(h, paso) == cambio[h] # NULL /\ cambio[h].paso = paso

CambiarNada(h) ==
  /\ EnCambio(h, "tomar")
  /\ LET t == cambio[h].t IN Libre(t) /\ trip[t].estado = "EXIT"
  /\ cambio' = [cambio EXCEPT ![h] = NULL]
  /\ UNCHANGED <<colasVars, sem, trip, mutex_pausa, banderas, pc, ordenVars>>

\* Slip: who asks for an I/O keeps the CPU.
LiberaCpuSinIO(viejo, nuevo) == viejo = "EXEC" /\ nuevo # "BLOCKED"
LiberaCpu(viejo, nuevo) == viejo = "EXEC"

CambiarTomar(h) ==
  /\ EnCambio(h, "tomar")
  /\ LET t == cambio[h].t
         viejo == trip[t].estado
     IN /\ Libre(t) /\ viejo # "EXIT"
        /\ trip' = [trip EXCEPT ![t].mutex = h,
                                ![t].tiempo_en_cpu = IF viejo = "BLOCKED" THEN 0 ELSE @]
        /\ IF LiberaCpu(viejo, cambio[h].nuevo) THEN Postear("cpus_libres") ELSE UNCHANGED sem
        /\ cambio' = [cambio EXCEPT ![h].viejo = viejo, ![h].paso = "sacar"]
  /\ UNCHANGED <<colasVars, mutex_pausa, banderas, pc, ordenVars>>

CambiarSacar(h) ==
  /\ EnCambio(h, "sacar")
  /\ ~colas_tomadas
  /\ LET c == cambio[h] IN
       /\ colas' = [colas EXCEPT ![c.viejo] = RemoveFirst(@, c.t)]
       /\ trip' = [trip EXCEPT ![c.t].estado = c.nuevo]
  /\ cambio' = [cambio EXCEPT ![h].paso = "agregar"]
  /\ UNCHANGED <<colas_tomadas, sem, mutex_pausa, banderas, pc, ordenVars>>

\* Slip: who comes from an I/O is not counted in READY.
SeCuentaSinBlocked(viejo, nuevo) == nuevo = "READY" /\ viejo # "BLOCKED"
SeCuenta(viejo, nuevo) == nuevo = "READY"

CambiarAgregar(h) ==
  /\ EnCambio(h, "agregar")
  /\ ~colas_tomadas
  /\ LET t == cambio[h].t
         nuevo == cambio[h].nuevo
     IN /\ colas' = [colas EXCEPT ![nuevo] = Append(@, t)]
        /\ trip' = [trip EXCEPT
             ![t] = [trip[t] EXCEPT !.mutex = NULL,
                              !.termino = @ \/ nuevo = "EXIT",
                              !.semaforo = IF nuevo \in {"EXEC", "EXIT"} THEN @ + 1 ELSE @]]
        /\ IF SeCuenta(cambio[h].viejo, nuevo) THEN Postear("contador_ready") ELSE UNCHANGED sem
  /\ cambio' = [cambio EXCEPT ![h] = NULL]
  /\ UNCHANGED <<colas_tomadas, mutex_pausa, banderas, pc, ordenVars>>

\* cambiar_estado_soft: from a queue to another, the member's state untouched.
SuaveSacar(h) ==
  /\ EnCambio(h, "suave_sacar")
  /\ ~colas_tomadas
  /\ LET c == cambio[h] IN colas' = [colas EXCEPT ![c.viejo] = RemoveFirst(@, c.t)]
  /\ cambio' = [cambio EXCEPT ![h].paso = "suave_agregar"]
  /\ UNCHANGED <<colas_tomadas, sem, trip, mutex_pausa, banderas, pc, ordenVars>>

SuaveAgregar(h) ==
  /\ EnCambio(h, "suave_agregar")
  /\ ~colas_tomadas
  /\ LET c == cambio[h] IN colas' = [colas EXCEPT ![c.nuevo] = Append(@, c.t)]
  /\ cambio' = [cambio EXCEPT ![h] = NULL]
  /\ UNCHANGED <<colas_tomadas, sem, trip, mutex_pausa, banderas, pc, ordenVars>>

CambiarEstado(h) ==
  \/ CambiarNada(h) \/ CambiarTomar(h) \/ CambiarSacar(h) \/ CambiarAgregar(h)
  \/ SuaveSacar(h) \/ SuaveAgregar(h)

-----------------------------------------------------------------------------
\* planificar

PlanEsperarCpu == EsperarYSeguir("planificador", "cpus_libres", "contador_ready")
PlanEsperarReady == EsperarYSeguir("planificador", "contador_ready", "sem_planificacion")
PlanEsperarPlanificacion == EsperarYSeguir("planificador", "sem_planificacion", "pasar_uno")

PasarUnoAExec ==
  /\ Ir("planificador", "pasar_uno", "post")
  /\ ~colas_tomadas
  /\ IF colas["READY"] = <<>> THEN UNCHANGED cambio
     ELSE Cambiar("planificador", Head(colas["READY"]), "EXEC")
  /\ UNCHANGED <<colasVars, sem, trip, mutex_pausa, banderas, ordenVars>>

PlanPost ==
  /\ Ir("planificador", "post", "cpus_libres")
  /\ Postear("sem_planificacion")
  /\ UNCHANGED <<colasVars, trip, mutex_pausa, banderas, cambio, ordenVars>>

-----------------------------------------------------------------------------
\* hacer_tareas, the thread of a crew member.

Tarea(t) == TAREAS[trip[t].tarea]
SinTareas(t) == trip[t].tarea > Len(TAREAS)
ConsumioElQuantum(t) == ALGORITMO = "RR" /\ trip[t].tiempo_en_cpu >= QUANTUM
EstaEnLaTarea(t) == trip[t].x = Tarea(t).x

\* The wait and the post of pausado, as one step: nobody but a pause, which
\* then waits for the post, can tell.
PasarPausa(t) ==
  /\ Avanzar(t, "pausado", "semaforo")
  /\ ~SinTareas(t)
  /\ trip[t].pausado > 0

EsperarSemaforo(t) ==
  /\ Ir(t, "semaforo", "mutex")
  /\ trip[t].semaforo > 0
  /\ trip' = [trip EXCEPT ![t].semaforo = @ - 1]
  /\ UNCHANGED <<colasVars, sem, mutex_pausa, banderas, cambio, ordenVars>>

Seguir(t) ==
  /\ Avanzar(t, "mutex", "decidir")
  /\ Libre(t)
  /\ ~trip[t].termino /\ trip[t].estado # "EXIT"

Salir(t) ==
  /\ Ir(t, "mutex", "termino")
  /\ Libre(t)
  /\ trip[t].termino /\ trip[t].estado # "READY"
  /\ Cambiar(t, t, "EXIT")
  /\ UNCHANGED <<colasVars, sem, trip, mutex_pausa, banderas, ordenVars>>

\* An expelled member in READY takes its unit of contador_ready with its
\* mutex held.
SalirDeReady(t) ==
  /\ Ir(t, "mutex", "contador_ready")
  /\ Libre(t)
  /\ trip[t].termino /\ trip[t].estado = "READY"
  /\ trip' = [trip EXCEPT ![t].mutex = t]
  /\ UNCHANGED <<colasVars, sem, mutex_pausa, banderas, cambio, ordenVars>>

TomarContador(t) ==
  /\ Ir(t, "contador_ready", "termino")
  /\ Esperar("contador_ready")
  /\ trip' = [trip EXCEPT ![t].mutex = NULL]
  /\ Cambiar(t, t, "EXIT")
  /\ UNCHANGED <<colasVars, mutex_pausa, banderas, ordenVars>>

DejarCpu(t) ==
  /\ Ir(t, "decidir", "pausado")
  /\ ConsumioElQuantum(t) /\ ~trip[t].haciendo_io
  /\ trip' = [trip EXCEPT ![t].tiempo_en_cpu = 0]
  /\ Cambiar(t, t, "READY")
  /\ UNCHANGED <<colasVars, sem, mutex_pausa, banderas, ordenVars>>

Trabaja(t) == ~ConsumioElQuantum(t) \/ trip[t].haciendo_io

\* A CPU burst posts the member's own semaphore: it goes on until its quantum
\* or an I/O stops it.
PedirIO(t) ==
  /\ Ir(t, "decidir", "dispositivos_io")
  /\ Trabaja(t) /\ EstaEnLaTarea(t) /\ Tarea(t).io /\ ~trip[t].haciendo_io
  /\ trip' = [trip EXCEPT ![t].tiempo_en_cpu = @ + 1, ![t].semaforo = @ + 1,
                          ![t].haciendo_io = TRUE]
  /\ Cambiar(t, t, "BLOCKED")
  /\ UNCHANGED <<colasVars, sem, mutex_pausa, banderas, ordenVars>>

TomarDispositivo(t) == EsperarYSeguir(t, "dispositivos_io", "pausado")

Ultima(t) == trip[t].tiempo_haciendo_tarea + 1 >= Tarea(t).tiempo
\* Slip: the end of an I/O is not remembered.
SigueEnIOSiempre(t) == trip[t].haciendo_io
SigueEnIO(t) == trip[t].haciendo_io /\ ~Ultima(t)

\* A burst of a task: of CPU, or of I/O, whose last one frees the device.
\* The last of a task asks for the next one.
HacerTarea(t) ==
  /\ Ir(t, "decidir", "pausado")
  /\ Trabaja(t) /\ EstaEnLaTarea(t) /\ (Tarea(t).io => trip[t].haciendo_io)
  /\ LET io == trip[t].haciendo_io
         ultima == Ultima(t)
         proxima == trip[t].tarea + 1
     IN /\ trip' = [trip EXCEPT ![t] = [trip[t] EXCEPT
             !.semaforo = IF io /\ ultima THEN @ ELSE @ + 1,
             !.tiempo_en_cpu = IF io THEN @ ELSE @ + 1,
             !.tiempo_haciendo_tarea = IF ultima THEN 0 ELSE @ + 1,
             !.tarea = IF ultima THEN proxima ELSE @,
             !.haciendo_io = SigueEnIO(t)]]
        /\ IF io /\ ultima
           THEN /\ Postear("dispositivos_io")
                /\ Cambiar(t, t, IF proxima > Len(TAREAS) THEN "EXIT" ELSE "READY")
           ELSE UNCHANGED <<sem, cambio>>
  /\ UNCHANGED <<colasVars, mutex_pausa, banderas, ordenVars>>

Hacia(desde, hasta) == IF hasta < desde THEN desde - 1
                       ELSE IF hasta > desde THEN desde + 1 ELSE desde

Moverse(t) ==
  /\ Ir(t, "decidir", "pausado")
  /\ Trabaja(t) /\ ~EstaEnLaTarea(t)
  /\ Libre(t)
  /\ trip' = [trip EXCEPT ![t] = [trip[t] EXCEPT !.x = Hacia(@, Tarea(t).x),
                                  !.tiempo_en_cpu = @ + 1, !.semaforo = @ + 1]]
  /\ UNCHANGED <<colasVars, sem, mutex_pausa, banderas, cambio, ordenVars>>

Terminar(t) ==
  /\ Ir(t, "pausado", "termino")
  /\ SinTareas(t)
  /\ Cambiar(t, t, "EXIT")
  /\ UNCHANGED <<colasVars, sem, trip, mutex_pausa, banderas, ordenVars>>

\* termino_el_proceso: who there is, whether all of the crew are in EXIT, and
\* then out of EXIT and a post for each to destroy itself. If two find that all
\* are in EXIT both do it, and the second may do it to members already freed: here
\* they are not in EXIT any more, and what else that does is left out.
Companeros(t) == UNION {ToSet(p) : p \in {q \in Patotas : Contains(q, t)}}

TerminoListar(t) ==
  /\ Ir(t, "termino", "revisar")
  /\ ~colas_tomadas
  /\ lista' = [lista EXCEPT ![t] = Los(Todos, Companeros(t))]
  /\ UNCHANGED <<colasVars, sem, trip, mutex_pausa, banderas, cambio, sabo, usos>>

FaltaAlguno(t) ==
  /\ Ir(t, "revisar", "sem_destruir")
  /\ \E u \in ToSet(lista[t]) : Libre(u) /\ trip[u].estado # "EXIT"
  /\ lista' = [lista EXCEPT ![t] = <<>>]
  /\ UNCHANGED <<colasVars, sem, trip, mutex_pausa, banderas, cambio, sabo, usos>>

EstanTodos(t) ==
  /\ Avanzar(t, "revisar", "destruir")
  /\ \A u \in ToSet(lista[t]) : Libre(u) /\ trip[u].estado = "EXIT"

\* Slip: the last one wakes only itself.
AvisadosSolo(t) == {t}
Avisados(t) == ToSet(lista[t])

DestruirTodos(t) ==
  /\ Ir(t, "destruir", "sem_destruir")
  /\ ~colas_tomadas
  /\ LET quienes == ToSet(lista[t])
         avisados == Avisados(t)
     IN
       /\ colas' = [colas EXCEPT !["EXIT"] = Los(@, Tripulantes \ quienes)]
       /\ trip' = [u \in Tripulantes |->
            IF u \in avisados THEN [trip[u] EXCEPT !.sem_destruir = @ + 1] ELSE trip[u]]
  /\ lista' = [lista EXCEPT ![t] = <<>>]
  /\ UNCHANGED <<colas_tomadas, sem, mutex_pausa, banderas, cambio, sabo, usos>>

Destruirse(t) ==
  /\ Avanzar(t, "sem_destruir", "destruido")
  /\ trip[t].sem_destruir > 0

Tripulante(t) ==
  \/ PasarPausa(t) \/ EsperarSemaforo(t) \/ Seguir(t) \/ Salir(t)
  \/ SalirDeReady(t) \/ TomarContador(t) \/ DejarCpu(t) \/ PedirIO(t)
  \/ TomarDispositivo(t) \/ HacerTarea(t) \/ Moverse(t) \/ Terminar(t)
  \/ TerminoListar(t) \/ FaltaAlguno(t) \/ EstanTodos(t) \/ DestruirTodos(t)
  \/ Destruirse(t)

-----------------------------------------------------------------------------
\* iniciar_planificacion and pausar_planificacion, which the console and the
\* sabotage call.

TrasPausar(h) == IF h = "consola" THEN "esperar" ELSE "listar_exec"

IniciarNada(h) ==
  /\ Avanzar(h, "iniciar", "esperar")
  /\ mutex_pausa = NULL /\ ~pausa

\* How many there are in NEW: only the length of the list is used.
IniciarContar(h) ==
  /\ Ir(h, "iniciar", "nuevos")
  /\ TomarPausa(h) /\ pausa
  /\ ~colas_tomadas
  /\ lista' = [lista EXCEPT ![h] = colas["NEW"]]
  /\ UNCHANGED <<colasVars, sem, trip, banderas, cambio, sabo, usos>>

\* The first of NEW, read with no lock.
IniciarNuevo(h) ==
  /\ Ir(h, "nuevos", "nuevos")
  /\ lista[h] # <<>> /\ colas["NEW"] # <<>>
  /\ lista' = [lista EXCEPT ![h] = Tail(@)]
  /\ Cambiar(h, Head(colas["NEW"]), "READY")
  /\ UNCHANGED <<colasVars, sem, trip, mutex_pausa, banderas, sabo, usos>>

\* An expelled member left NEW meanwhile: cambiar_estado of a null pointer
\* ends the process.
IniciarCaida(h) ==
  /\ Avanzar(h, "nuevos", "caido")
  /\ lista[h] # <<>> /\ colas["NEW"] = <<>>

Veces(t) == Cardinality({i \in DOMAIN Todos : Todos[i] = t})

IniciarReanudar(h) ==
  /\ Ir(h, "nuevos", "esperar")
  /\ lista[h] = <<>>
  /\ planificando => ~colas_tomadas
  /\ trip' = IF planificando
             THEN [t \in Tripulantes |-> [trip[t] EXCEPT !.pausado = @ + Veces(t)]]
             ELSE trip
  /\ pausa' = FALSE /\ planificando' = TRUE /\ UNCHANGED emergencia
  /\ Postear("sem_planificacion")
  /\ SoltarPausa
  /\ UNCHANGED <<colasVars, cambio, ordenVars>>

PausarNada(h) ==
  /\ Avanzar(h, "pausar", TrasPausar(h))
  /\ mutex_pausa = NULL /\ (pausa \/ ~planificando)

PausarTomar(h) ==
  /\ Ir(h, "pausar", "sem_planificacion")
  /\ TomarPausa(h) /\ ~pausa /\ planificando
  /\ pausa' = TRUE /\ UNCHANGED <<planificando, emergencia>>
  /\ UNCHANGED <<colasVars, sem, trip, cambio, ordenVars>>

\* Slip: a pause that does not stop the planner.
PausarEsperarSinPlanificador(h) == Avanzar(h, "sem_planificacion", "todos")
PausarEsperar(h) == EsperarYSeguir(h, "sem_planificacion", "todos")

PausarTodos(h) ==
  /\ Ir(h, "todos", "pausados")
  /\ ~colas_tomadas /\ colas_tomadas' = TRUE
  /\ lista' = [lista EXCEPT ![h] = Todos]
  /\ UNCHANGED <<colas, sem, trip, mutex_pausa, banderas, cambio, sabo, usos>>

PausarUno(h) ==
  /\ Ir(h, "pausados", "pausados")
  /\ lista[h] # <<>>
  /\ LET t == Head(lista[h]) IN
       /\ trip[t].pausado > 0
       /\ trip' = [trip EXCEPT ![t].pausado = @ - 1]
  /\ lista' = [lista EXCEPT ![h] = Tail(@)]
  /\ UNCHANGED <<colasVars, sem, mutex_pausa, banderas, cambio, sabo, usos>>

PausarFin(h) ==
  /\ Ir(h, "pausados", TrasPausar(h))
  /\ lista[h] = <<>>
  /\ colas_tomadas' = FALSE
  /\ SoltarPausa
  /\ UNCHANGED <<colas, sem, trip, banderas, cambio, ordenVars>>

Orden(h) ==
  \/ IniciarNada(h) \/ IniciarContar(h) \/ IniciarNuevo(h) \/ IniciarCaida(h)
  \/ IniciarReanudar(h) \/ PausarNada(h) \/ PausarTomar(h) \/ PausarEsperar(h)
  \/ PausarTodos(h) \/ PausarUno(h) \/ PausarFin(h)

-----------------------------------------------------------------------------
\* The console, which takes no command during a sabotage.

PedirIniciar ==
  /\ Avanzar("consola", "esperar", "iniciar")
  /\ ~emergencia

PedirPausar ==
  /\ Ir("consola", "esperar", "pausar")
  /\ ~emergencia /\ usos.pausas < usos.escenario.pausas
  /\ usos' = [usos EXCEPT !.pausas = @ + 1]
  /\ UNCHANGED <<colasVars, sem, trip, mutex_pausa, banderas, cambio, lista, sabo>>

IniciarPatota(p) ==
  /\ Ir("consola", "esperar", "iniciar_tripulante")
  /\ ~emergencia
  /\ \A t \in ToSet(p) : trip[t].estado = NULL
  /\ lista' = [lista EXCEPT !["consola"] = p]
  /\ UNCHANGED <<colasVars, sem, trip, mutex_pausa, banderas, cambio, sabo, usos>>

\* The member's thread starts before the member is in a queue.
IniciarTripulante ==
  LET t == Head(lista["consola"]) IN
  /\ En("consola", "iniciar_tripulante")
  /\ pc' = [pc EXCEPT !["consola"] = "encolar", ![t] = "pausado"]
  /\ trip' = [trip EXCEPT ![t].estado = "NEW"]
  /\ UNCHANGED <<colasVars, sem, mutex_pausa, banderas, cambio, ordenVars>>

IniciarEncolar ==
  /\ Ir("consola", "encolar", "encolado")
  /\ TomarPausa("consola")
  /\ Cambiar("consola", Head(lista["consola"]), IF pausa THEN "NEW" ELSE "READY")
  /\ UNCHANGED <<colasVars, sem, trip, banderas, ordenVars>>

IniciarSiguiente ==
  /\ Ir("consola", "encolado",
        IF Len(lista["consola"]) = 1 THEN "esperar" ELSE "iniciar_tripulante")
  /\ SoltarPausa
  /\ lista' = [lista EXCEPT !["consola"] = Tail(@)]
  /\ UNCHANGED <<colasVars, sem, trip, banderas, cambio, sabo, usos>>

ExpulsarTripulante(t) ==
  /\ Ir("consola", "esperar", "expulsar")
  /\ ~emergencia /\ usos.expulsiones < usos.escenario.expulsiones
  /\ ~colas_tomadas /\ EnAlguna(t) /\ trip[t].estado # "EXIT"
  /\ lista' = [lista EXCEPT !["consola"] = <<t>>]
  /\ usos' = [usos EXCEPT !.expulsiones = @ + 1]
  /\ UNCHANGED <<colasVars, sem, trip, mutex_pausa, banderas, cambio, sabo>>

ExpulsarMarcar ==
  LET t == Head(lista["consola"]) IN
  /\ Ir("consola", "expulsar", "expulsado")
  /\ Libre(t)
  /\ trip' = [trip EXCEPT ![t].termino = TRUE]
  /\ UNCHANGED <<colasVars, sem, mutex_pausa, banderas, cambio, ordenVars>>

ExpulsarDespertar ==
  LET t == Head(lista["consola"]) IN
  /\ Ir("consola", "expulsado", "esperar")
  /\ mutex_pausa = NULL
  /\ trip' = [trip EXCEPT ![t].semaforo = @ + 1, ![t].pausado = IF pausa THEN @ + 1 ELSE @]
  /\ lista' = [lista EXCEPT !["consola"] = <<>>]
  /\ UNCHANGED <<colasVars, sem, mutex_pausa, banderas, cambio, sabo, usos>>

Consola ==
  \/ PedirIniciar \/ PedirPausar \/ IniciarTripulante \/ IniciarEncolar
  \/ IniciarSiguiente \/ ExpulsarMarcar \/ ExpulsarDespertar
  \/ \E p \in Patotas : IniciarPatota(p)
  \/ \E t \in Tripulantes : ExpulsarTripulante(t)

-----------------------------------------------------------------------------
\* sabotaje

SaboEmpezar ==
  /\ Ir("sabotaje", "esperar", "mirar_pausa")
  /\ usos.sabotajes < usos.escenario.sabotajes
  /\ usos' = [usos EXCEPT !.sabotajes = @ + 1]
  /\ emergencia' = TRUE /\ UNCHANGED <<pausa, planificando>>
  /\ \E x \in Lugares : sabo' = [sabo EXCEPT !.x = x]
  /\ UNCHANGED <<colasVars, sem, trip, mutex_pausa, cambio, lista>>

SaboMirarPausa ==
  /\ Ir("sabotaje", "mirar_pausa", IF pausa THEN "listar_exec" ELSE "pausar")
  /\ mutex_pausa = NULL
  /\ sabo' = [sabo EXCEPT !.estaba_pausado = pausa]
  /\ UNCHANGED <<colasVars, sem, trip, mutex_pausa, banderas, cambio, lista, usos>>

SaboListar(e, desde, hasta) ==
  /\ Ir("sabotaje", desde, hasta)
  /\ ~colas_tomadas
  /\ lista' = [lista EXCEPT !["sabotaje"] = @ \o colas[e]]
  /\ UNCHANGED <<colasVars, sem, trip, mutex_pausa, banderas, cambio, sabo, usos>>

DistanciaA(t) == (sabo.x - trip[t].x) * (sabo.x - trip[t].x)
MasCercano(ts) ==
  IF ts = <<>> THEN NULL
  ELSE LET menores == {i \in DOMAIN ts : \A j \in DOMAIN ts :
                         DistanciaA(ts[i]) <= DistanciaA(ts[j])}
       IN ts[CHOOSE i \in menores : \A j \in menores : i <= j]

SaboElegir ==
  /\ Ir("sabotaje", "elegir", "bloquear")
  /\ \A t \in ToSet(lista["sabotaje"]) : Libre(t)
  /\ sabo' = [sabo EXCEPT !.elegido = MasCercano(lista["sabotaje"])]
  /\ lista' = [lista EXCEPT !["sabotaje"] = Los(@, Tripulantes \ {sabo'.elegido})]
  /\ UNCHANGED <<colasVars, sem, trip, mutex_pausa, banderas, cambio, usos>>

\* estado is read twice with no lock: for the push, and for the call; the
\* member may be changing it in between.
SaboBloquear ==
  LET t == Head(lista["sabotaje"])
      cola == IF trip[t].estado = "READY" THEN "cola_ready" ELSE "cola_exec"
  IN /\ Ir("sabotaje", "bloquear", "bloquear_suave")
     /\ lista["sabotaje"] # <<>>
     /\ sabo' = [sabo EXCEPT ![cola] = Append(@, t)]
     /\ UNCHANGED <<colasVars, sem, trip, mutex_pausa, banderas, cambio, lista, usos>>

SaboBloquearSuave ==
  LET t == Head(lista["sabotaje"])
  IN /\ Ir("sabotaje", "bloquear_suave", "bloquear")
     /\ lista' = [lista EXCEPT !["sabotaje"] = Tail(@)]
     /\ CambiarSuave("sabotaje", t, trip[t].estado, "BLOCKED")
     /\ UNCHANGED <<colasVars, sem, trip, mutex_pausa, banderas, sabo, usos>>

SaboSinNadie ==
  /\ Avanzar("sabotaje", "bloquear", "devolver")
  /\ lista["sabotaje"] = <<>> /\ sabo.elegido = NULL

SaboResolver ==
  /\ Ir("sabotaje", "bloquear", "mover")
  /\ lista["sabotaje"] = <<>> /\ sabo.elegido # NULL
  /\ LET ready == trip[sabo.elegido].estado = "READY" IN
       /\ sabo' = [sabo EXCEPT !.estaba_en_ready = ready]
       /\ IF ready THEN CambiarSuave("sabotaje", sabo.elegido, "READY", "EXEC")
          ELSE UNCHANGED cambio
  /\ UNCHANGED <<colasVars, sem, trip, mutex_pausa, banderas, lista, usos>>

SaboMover ==
  LET t == sabo.elegido IN
  /\ Ir("sabotaje", "mover", "mover")
  /\ trip[t].x # sabo.x /\ Libre(t)
  /\ trip' = [trip EXCEPT ![t].x = Hacia(@, sabo.x)]
  /\ UNCHANGED <<colasVars, sem, mutex_pausa, banderas, cambio, ordenVars>>

SaboLlegar ==
  LET t == sabo.elegido IN
  /\ Ir("sabotaje", "mover", "guardar")
  /\ trip[t].x = sabo.x
  /\ CambiarSuave("sabotaje", t, "EXEC", "BLOCKED")
  /\ UNCHANGED <<colasVars, sem, trip, mutex_pausa, banderas, ordenVars>>

SaboGuardar ==
  LET cola == IF sabo.estaba_en_ready THEN "cola_ready" ELSE "cola_exec" IN
  /\ Ir("sabotaje", "guardar", "devolver")
  /\ sabo' = [sabo EXCEPT ![cola] = Append(@, sabo.elegido), !.elegido = NULL]
  /\ UNCHANGED <<colasVars, sem, trip, mutex_pausa, banderas, cambio, lista, usos>>

\* Those of cola_exec first.
SaboDevolver ==
  LET exec == sabo.cola_exec # <<>>
      cola == IF exec THEN "cola_exec" ELSE "cola_ready"
  IN /\ Ir("sabotaje", "devolver", "devolver")
     /\ sabo[cola] # <<>>
     /\ sabo' = [sabo EXCEPT ![cola] = Tail(@)]
     /\ CambiarSuave("sabotaje", Head(sabo[cola]), "BLOCKED", IF exec THEN "EXEC" ELSE "READY")
     /\ UNCHANGED <<colasVars, sem, trip, mutex_pausa, banderas, lista, usos>>

SaboFin ==
  /\ Ir("sabotaje", "devolver", IF sabo.estaba_pausado THEN "esperar" ELSE "iniciar")
  /\ sabo.cola_exec = <<>> /\ sabo.cola_ready = <<>>
  /\ emergencia' = FALSE /\ UNCHANGED <<pausa, planificando>>
  /\ UNCHANGED <<colasVars, sem, trip, mutex_pausa, cambio, ordenVars>>

Sabotaje ==
  \/ SaboEmpezar \/ SaboMirarPausa \/ SaboListar("EXEC", "listar_exec", "listar_ready")
  \/ SaboListar("READY", "listar_ready", "elegir")
  \/ SaboElegir \/ SaboBloquear \/ SaboBloquearSuave \/ SaboSinNadie \/ SaboResolver
  \/ SaboMover \/ SaboLlegar \/ SaboGuardar \/ SaboDevolver \/ SaboFin

-----------------------------------------------------------------------------
Planificador ==
  \/ PlanEsperarCpu \/ PlanEsperarReady \/ PlanEsperarPlanificacion
  \/ PasarUnoAExec \/ PlanPost

\* A step of a thread: one of the function it is in, or of cambiar_estado.
DelHilo(h) ==
  \/ CambiarEstado(h)
  \/ h = "planificador" /\ Planificador
  \/ h = "consola" /\ Consola
  \/ h = "sabotaje" /\ Sabotaje
  \/ h \in Ordenes /\ Orden(h)
  \/ h \in Tripulantes /\ Tripulante(h)

Caido == \E h \in Ordenes : pc[h] = "caido"

\* Once every crew member is gone, or the process is, nothing is left to do.
Reposo ==
  /\ Caido \/ \A t \in Tripulantes : pc[t] = "destruido"
  /\ UNCHANGED vars

Next == (~Caido /\ \E h \in Hilos : DelHilo(h)) \/ Reposo

Spec == Init /\ [][Next]_vars

-----------------------------------------------------------------------------
Paso(h) == ~Caido /\ DelHilo(h)
\* The console's commands are the user's: only those begun go on by themselves.
SpecJusta ==
  /\ Spec
  /\ \A h \in Hilos \ {"consola"} : WF_vars(Paso(h))
  /\ WF_vars(pc["consola"] # "esperar" /\ Paso("consola"))

-----------------------------------------------------------------------------
NingunoExpulsado == usos.expulsiones = 0
SinSabotajes == usos.sabotajes = 0
\* t is in the middle of a change of queue of some thread.
Cambiando(t) == \E h \in Hilos : cambio[h] # NULL /\ cambio[h].t = t /\ cambio[h].paso # "tomar"

TypeOK ==
  /\ \A e \in Estados : colas[e] \in Seq(Tripulantes)
  /\ colas_tomadas \in BOOLEAN
  /\ DOMAIN sem = {"sem_planificacion", "cpus_libres", "dispositivos_io", "contador_ready"}
  /\ \A s \in DOMAIN sem : sem[s] \in Nat
  /\ \A t \in Tripulantes :
       /\ trip[t].estado \in Estados \cup {NULL} /\ trip[t].mutex \in Hilos \cup {NULL}
       /\ {trip[t].semaforo, trip[t].pausado, trip[t].sem_destruir} \subseteq Nat
       /\ {trip[t].termino, trip[t].haciendo_io} \subseteq BOOLEAN
       /\ trip[t].x \in Int /\ trip[t].tiempo_en_cpu \in Nat
       /\ trip[t].tarea \in 1 .. Len(TAREAS) + 1 /\ trip[t].tiempo_haciendo_tarea \in Nat
  /\ mutex_pausa \in Ordenes \cup {NULL}
  /\ {pausa, planificando, emergencia} \subseteq BOOLEAN
  /\ DOMAIN pc = Hilos /\ DOMAIN cambio = Hilos
  /\ \A h \in Hilos : lista[h] \in Seq(Tripulantes)
  /\ sabo.cola_exec \in Seq(Tripulantes) /\ sabo.cola_ready \in Seq(Tripulantes)

\* The units of cpus_libres that the planner took and no member in EXEC has.
EnElPlanificador ==
  IF \/ pc["planificador"] \in {"contador_ready", "sem_planificacion", "pasar_uno"}
     \/ cambio["planificador"] # NULL /\ cambio["planificador"].paso \in {"tomar", "sacar"}
  THEN 1 ELSE 0
EnExec == {t \in Tripulantes :
             trip[t].estado = "EXEC"
             /\ ~\E h \in Hilos : EnCambio(h, "sacar") /\ cambio[h].t = t}

Cpus == sem.cpus_libres + EnElPlanificador + Cardinality(EnExec)

\* Free CPUs and members in EXEC are never more than GRADO_MULTITAREA, and
\* none is lost unless a member is expelled or there is a sabotage
\* (planificacion.c:41-54, 127).
CpusAcotadas == Cpus <= GRADO_MULTITAREA
CpusConservadas ==
  /\ CpusAcotadas
  /\ NingunoExpulsado /\ SinSabotajes => Cpus = GRADO_MULTITAREA

\* contador_ready and the planner's hand count the members in READY: the
\* planner never finds the queue empty while nobody is expelled
\* (planificacion.c:22, 46, 140).
EnReady == {t \in Tripulantes :
              trip[t].estado = "READY" /\ ~\E h \in Hilos : EnCambio(h, "agregar") /\ cambio[h].t = t}
ReadyContados ==
  NingunoExpulsado /\ SinSabotajes =>
    Cardinality(EnReady) = sem.contador_ready +
      IF \/ pc["planificador"] \in {"sem_planificacion", "pasar_uno"}
         \/ cambio["planificador"] # NULL /\ cambio["planificador"].paso \in {"tomar", "sacar"}
      THEN 1 ELSE 0

\* One member at most has the I/O device, which is free otherwise, and it is
\* in BLOCKED unless there are expulsions or sabotages (tripulante.c:291-315).
ConDispositivo == {t \in Tripulantes : trip[t].haciendo_io /\ pc[t] # "dispositivos_io"}
UnSoloDispositivo == sem.dispositivos_io + Cardinality(ConDispositivo) = 1
DispositivoEnBlocked ==
  /\ UnSoloDispositivo
  /\ NingunoExpulsado /\ SinSabotajes =>
       \A t \in ConDispositivo : trip[t].estado = "BLOCKED"

\* While paused the planner passes nobody to EXEC, and out of a pause there is
\* one unit of sem_planificacion, in the semaphore or with the planner
\* (planificacion.c:48-52, 69-91).
PlanificacionPausada ==
  mutex_pausa = NULL =>
    sem.sem_planificacion + (IF pc["planificador"] \in {"pasar_uno", "post"} THEN 1 ELSE 0)
      = IF planificando /\ ~pausa THEN 1 ELSE 0

\* Out of a pause nobody is left behind in NEW (planificacion.c:33-39,
\* tripulante.c:203-206).
NadieQuedaEnNew == ~pausa /\ mutex_pausa = NULL => colas["NEW"] = <<>>

\* From when the console has put it in a queue, a member that no thread is
\* moving is once in the queue of its state, EXIT too, and in no other; once its
\* crew is told to destroy itself it is in none (planificacion.c:115-145,
\* tripulante.c:203-210, 232-241).
UnaSolaCola(t) ==
  \A e \in Estados :
    Cardinality({i \in DOMAIN colas[e] : colas[e][i] = t}) = IF trip[t].estado = e THEN 1 ELSE 0
PorEncolar(t) ==
  /\ lista["consola"] # <<>> /\ Head(lista["consola"]) = t
  /\ pc["consola"] = "encolar" \/ (pc["consola"] = "encolado" /\ cambio["consola"] # NULL)
EnSuCola ==
  SinSabotajes =>
    \A t \in Tripulantes :
      trip[t].estado # NULL /\ ~PorEncolar(t) /\ ~Cambiando(t) =>
        IF trip[t].sem_destruir = 0 THEN UnaSolaCola(t) ELSE ~EnAlguna(t)

\* A crew member that is ready to go ends its tasks and is destroyed, if
\* nobody pauses (tripulante.c:266-332).
Terminan ==
  \A t \in Tripulantes : (planificando /\ EnAlguna(t)) ~> (pc[t] = "destruido")

\* "Reanudar planificacion" (sabotaje.c:106): a sabotage is over some time.
SabotajeTermina == emergencia ~> ~emergencia

=============================================================================
