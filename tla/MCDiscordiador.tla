---------------------------- MODULE MCDiscordiador ----------------------------
(* Instances of Discordiador for TLC: a crew of one or two, tasks with and   *)
(* without I/O, at the crew's place or one step away, and what the console   *)
(* and a sabotage do meanwhile.                                              *)
EXTENDS Discordiador

CONSTANTS t1, t2

UnTripulante == {<<t1>>}
UnaPatota == {<<t1, t2>>}

SoloIO == <<[x |-> 0, tiempo |-> 1, io |-> TRUE]>>
CpuLejos == <<[x |-> 1, tiempo |-> 1, io |-> FALSE]>>
IOYCpu == <<[x |-> 1, tiempo |-> 2, io |-> TRUE], [x |-> 0, tiempo |-> 1, io |-> FALSE]>>

Escenario(tareas, pausas, expulsiones, sabotajes) ==
  [tareas |-> tareas, lugares |-> {tareas[1].x}, pausas |-> pausas,
   expulsiones |-> expulsiones, sabotajes |-> sabotajes]
ExpulsionOSabotaje == {Escenario(SoloIO, 1, 1, 0), Escenario(CpuLejos, 0, 0, 1)}
Tranquilo == {Escenario(IOYCpu, 0, 0, 0)}
PausaYSabotaje == {Escenario(SoloIO, 1, 0, 1)}

===============================================================================
