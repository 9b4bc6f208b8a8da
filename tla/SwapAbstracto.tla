---------------------------- MODULE SwapAbstracto ----------------------------
(***************************************************************************)
(* What a swap of pages promises the memory of CarpinchOS: it keeps the    *)
(* pages of each carpincho, numbered from 0 without gaps, each with the    *)
(* last content written to it, until the memory closes the carpincho or    *)
(* goes away.                                                              *)
(***************************************************************************)
EXTENDS Integers, SequencesExt

CONSTANTS Pids, Numeros, Contenidos, READ_FAULT

VARIABLES
  contenido,   \* of each carpincho, its pages
  respuesta    \* the last answer

vars == <<contenido, respuesta>>

Init == contenido = <<>> /\ respuesta = 0

Contestar(r) == respuesta' = r
Existe(pid, n) == pid \in DOMAIN contenido /\ n < Len(contenido[pid])

Iniciar(pid) ==
  /\ pid \notin DOMAIN contenido
  /\ contenido' = [p \in DOMAIN contenido \cup {pid} |-> IF p = pid THEN <<>> ELSE contenido[p]]
  /\ Contestar(0)

\* The one request that has no answer.
Cerrar(pid) ==
  /\ contenido' = [p \in DOMAIN contenido \ {pid} |-> contenido[p]]
  /\ UNCHANGED respuesta

\* To a page there is, or to the one after the last, if there is room for it.
Escribir(pid, n, c) ==
  \/ /\ Existe(pid, n)
     /\ contenido' = [contenido EXCEPT ![pid][n + 1] = c]
     /\ Contestar(0)
  \/ /\ pid \in DOMAIN contenido /\ n = Len(contenido[pid])
     /\ contenido' = [contenido EXCEPT ![pid] = Append(@, c)]
     /\ Contestar(0)
  \/ ~Existe(pid, n) /\ UNCHANGED contenido /\ Contestar(-1)

Leer(pid, n) ==
  /\ Contestar(IF Existe(pid, n) THEN contenido[pid][n + 1] ELSE READ_FAULT)
  /\ UNCHANGED contenido

\* The pages after it take the numbers before theirs.
Eliminar(pid, n) ==
  IF Existe(pid, n)
  THEN contenido' = [contenido EXCEPT ![pid] = RemoveAt(@, n + 1)] /\ Contestar(0)
  ELSE UNCHANGED contenido /\ Contestar(-1)

Limpiar == contenido' = <<>> /\ UNCHANGED respuesta

Next ==
  \/ \E pid \in Pids :
       \/ Iniciar(pid) \/ Cerrar(pid)
       \/ \E n \in Numeros : Leer(pid, n) \/ Eliminar(pid, n) \/ \E c \in Contenidos : Escribir(pid, n, c)
  \/ Limpiar

Spec == Init /\ [][Next]_vars
===============================================================================
