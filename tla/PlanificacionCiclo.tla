-------------------------- MODULE PlanificacionCiclo --------------------------
(***************************************************************************)
(* The threads of Planificacion implement the life cycle of CicloDeVida.   *)
(***************************************************************************)
EXTENDS Planificacion

\* The state of a process, read off the queue it is in or, while a thread
\* carries it between two queues, off that thread's place in its code.  A
\* thread that carries a process has not yet changed its state: it is the
\* push into the next queue that does.
EstadoDe(p) ==
  CASE p \in finalizados -> "FIN"
    [] consola[p] = "conectada" -> "FUERA"
    [] EnCola(p, "NEW") \/ (mano["largo"] = p /\ ~proc[p].suspendido) -> "NEW"
    [] EnCola(p, "SUSPENDED_READY") \/ (mano["largo"] = p /\ proc[p].suspendido)
         -> "SUSPENDED_READY"
    [] EnCola(p, "READY") \/ mano["corto"] = p -> "READY"
    [] EnCola(p, "EXIT") -> "EXIT"
    [] EnCola(p, "EXEC") \/ (mano["cpu"] = p /\ pc["cpu"] = "reubicar") -> "EXEC"
    [] OTHER -> IF proc[p].suspendido THEN "SUSPENDED_BLOCKED" ELSE "BLOCKED"

Ciclo == INSTANCE CicloDeVida WITH estado <- [p \in Procesos |-> EstadoDe(p)]

\* Every step of the threads is a step of the life cycle or leaves it as it
\* was: a process is admitted, from NEW or from suspension, only with a place
\* in memory, dispatched only with the CPU free, and passes from state to
\* state only along the arrows of the diagram.
ImplementaCiclo == Ciclo!Spec

=============================================================================
