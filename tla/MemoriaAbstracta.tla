--------------------------- MODULE MemoriaAbstracta ---------------------------
(***************************************************************************)
(* What a program of KISS is promised: a memory of its own, zero when it   *)
(* starts, that only its own instructions change and in which a read gives *)
(* back the last word it wrote to that page, however its pages move        *)
(* between frames and swap and whoever runs meanwhile.                     *)
(***************************************************************************)
CONSTANTS
  Procesos,
  Escritos      \* the words a WRITE may carry

VARIABLES
  contenido,    \* the words of each process
  corre,        \* the process in the CPU, if there is one
  vida,         \* of each process: "vive", "salio" (it has asked to end), "fin"
  instruccion,  \* what the process in the CPU is executing
  leido         \* the last word read

vars == <<contenido, corre, vida, instruccion, leido>>
Paginas(p) == DOMAIN contenido[p]
Vacia(p) == [n \in Paginas(p) |-> 0]
SinInstruccion == [op |-> "NO_OP"]

Init ==
  /\ \A p \in Procesos : contenido[p] = Vacia(p) /\ vida[p] = "vive"
  /\ corre = {} /\ instruccion = SinInstruccion /\ leido = 0

-----------------------------------------------------------------------------
\* The CPU is given to a process, and given back between two instructions.
Entrar(p) ==
  /\ corre = {} /\ vida[p] = "vive"
  /\ corre' = {p}
  /\ UNCHANGED <<contenido, vida, instruccion, leido>>

Dejar(p) ==
  /\ corre = {p} /\ instruccion = SinInstruccion
  /\ corre' = {}
  /\ vida' = vida \/ vida' = [vida EXCEPT ![p] = "salio"]
  /\ UNCHANGED <<contenido, instruccion, leido>>

\* An instruction: first which one, then what it does. A COPY is a read, and
\* then a write of the word that was read.
Pedir(p) ==
  /\ corre = {p} /\ instruccion = SinInstruccion
  /\ instruccion' \in [op : {"READ"}, pagina : Paginas(p)]
                      \cup [op : {"WRITE"}, pagina : Paginas(p), valor : Escritos]
                      \cup [op : {"COPY"}, pagina : Paginas(p), destino : Paginas(p)]
  /\ UNCHANGED <<contenido, corre, vida, leido>>

Leer(p) ==
  /\ corre = {p} /\ instruccion.op \in {"READ", "COPY"}
  /\ leido' = contenido[p][instruccion.pagina]
  /\ instruccion' = IF instruccion.op = "COPY"
                    THEN [op |-> "WRITE", pagina |-> instruccion.destino, valor |-> leido']
                    ELSE SinInstruccion
  /\ UNCHANGED <<contenido, corre, vida>>

Escribir(p) ==
  /\ corre = {p} /\ instruccion.op = "WRITE"
  /\ contenido' = [contenido EXCEPT ![p][instruccion.pagina] = instruccion.valor]
  /\ instruccion' = SinInstruccion
  /\ UNCHANGED <<corre, vida, leido>>

\* Who has asked to end loses its memory.
Terminar(p) ==
  /\ vida[p] = "salio"
  /\ vida' = [vida EXCEPT ![p] = "fin"]
  /\ contenido' = [contenido EXCEPT ![p] = Vacia(p)]
  /\ UNCHANGED <<corre, instruccion, leido>>

Next ==
  \E p \in Procesos : Entrar(p) \/ Dejar(p) \/ Pedir(p) \/ Leer(p) \/ Escribir(p) \/ Terminar(p)

Spec == Init /\ [][Next]_vars

=============================================================================
