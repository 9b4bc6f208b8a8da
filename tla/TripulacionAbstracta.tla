------------------------- MODULE TripulacionAbstracta -------------------------
(***************************************************************************)
(* What Mi-RAM-HQ promises the Discordiador, whatever its scheme: it keeps *)
(* the state, the place and the next task of each member, changes what it  *)
(* is told to of the member it is told, and gives each member the tasks of *)
(* its crew, in order, once, and then says that there are no more.  One    *)
(* operation for each request: MiRAM says which one each of its steps is.  *)
(***************************************************************************)
EXTENDS Integers, Sequences, FiniteSets

CONSTANTS Miembros, TAREAS, NINGUNA, FIN

VARIABLES
  estado, posicion,   \* of each member it keeps
  hechas,             \* how many tasks it has given to each of them
  entregada           \* the last answer each member had

vars == <<estado, posicion, hechas, entregada>>

De(pid) == {m \in Miembros : m[1] = pid}
Agregar(f, nuevos, valor) == [m \in DOMAIN f \cup nuevos |-> IF m \in nuevos THEN valor ELSE f[m]]
Quitar(f, m) == [u \in DOMAIN f \ {m} |-> f[u]]

Init ==
  /\ estado = <<>> /\ posicion = <<>> /\ hechas = <<>>
  /\ entregada = [m \in Miembros |-> NINGUNA]

Crear(pid) ==
  /\ \A m \in De(pid) : entregada[m] = NINGUNA /\ m \notin DOMAIN estado
  /\ estado' = Agregar(estado, De(pid), "N")
  /\ posicion' = Agregar(posicion, De(pid), 0)
  /\ hechas' = Agregar(hechas, De(pid), 0)
  /\ UNCHANGED entregada

Existe(m) == m \in DOMAIN estado

CambiarEstado(m, nuevo) ==
  /\ Existe(m)
  /\ estado' = [estado EXCEPT ![m] = nuevo]
  /\ UNCHANGED <<posicion, hechas, entregada>>

Mover(m, x) ==
  /\ Existe(m)
  /\ posicion' = [posicion EXCEPT ![m] = x]
  /\ UNCHANGED <<estado, hechas, entregada>>

Pedir(m) ==
  LET k == hechas[m] + 1
      hay == k <= Len(TAREAS[m[1]])
  IN /\ Existe(m)
     /\ entregada' = [entregada EXCEPT ![m] = IF hay THEN TAREAS[m[1]][k] ELSE FIN]
     /\ hechas' = [hechas EXCEPT ![m] = IF hay THEN k ELSE @]
     /\ UNCHANGED <<estado, posicion>>

Expulsar(m) ==
  /\ Existe(m)
  /\ estado' = Quitar(estado, m) /\ posicion' = Quitar(posicion, m) /\ hechas' = Quitar(hechas, m)
  /\ UNCHANGED entregada
===============================================================================
