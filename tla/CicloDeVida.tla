----------------------------- MODULE CicloDeVida -----------------------------
(***************************************************************************)
(* What the KISS kernel promises about a process, whatever its threads,    *)
(* queues and semaphores do: the life cycle of the assignment's diagram of *)
(* seven states (kiss/shared/include/pcb.h, estado_string in colas.c), one *)
(* process in the CPU, and no more than GRADO processes in memory.         *)
(***************************************************************************)
EXTENDS Naturals, FiniteSets

CONSTANTS Procesos, GRADO

VARIABLE estado

EstadosDelCiclo ==
  {"FUERA", "NEW", "READY", "EXEC", "BLOCKED", "SUSPENDED_BLOCKED",
   "SUSPENDED_READY", "EXIT", "FIN"}

Los(e) == {p \in Procesos : estado[p] = e}
EnMemoria == {p \in Procesos : estado[p] \in {"READY", "EXEC", "BLOCKED", "EXIT"}}
Pasar(p, desde, hasta) == estado[p] = desde /\ estado' = [estado EXCEPT ![p] = hasta]

Init == estado = [p \in Procesos |-> "FUERA"]

Llegar(p) == Pasar(p, "FUERA", "NEW")
Admitir(p) ==
  /\ Cardinality(EnMemoria) < GRADO
  /\ Pasar(p, "NEW", "READY") \/ Pasar(p, "SUSPENDED_READY", "READY")
Despachar(p) == Los("EXEC") = {} /\ Pasar(p, "READY", "EXEC")
Desalojar(p) == Pasar(p, "EXEC", "READY")
Bloquear(p) == Pasar(p, "EXEC", "BLOCKED")
Suspender(p) == Pasar(p, "BLOCKED", "SUSPENDED_BLOCKED")
Despertar(p) == \/ Pasar(p, "BLOCKED", "READY")
                \/ Pasar(p, "SUSPENDED_BLOCKED", "SUSPENDED_READY")
Terminar(p) == Pasar(p, "EXEC", "EXIT") \/ Pasar(p, "EXIT", "FIN")

Next == \E p \in Procesos :
          \/ Llegar(p) \/ Admitir(p) \/ Despachar(p) \/ Desalojar(p)
          \/ Bloquear(p) \/ Suspender(p) \/ Despertar(p) \/ Terminar(p)

Spec == Init /\ [][Next]_estado

-----------------------------------------------------------------------------
\* Every process is in one state of the diagram.
TypeOK == estado \in [Procesos -> EstadosDelCiclo]

\* At most one process is in the CPU, and at most GRADO are in memory.
UnoEnCpu == \A p, q \in Los("EXEC") : p = q
GradoRespetado == Cardinality(EnMemoria) <= GRADO

=============================================================================
