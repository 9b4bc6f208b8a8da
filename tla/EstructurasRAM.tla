---------------------------- MODULE EstructurasRAM ----------------------------
(***************************************************************************)
(* What Mi-RAM-HQ keeps in its memory (src/amongos/Mi-RAM-HQ/src/          *)
(* constantes.h): the PCB and the TCBs of each crew, then its tasks as the *)
(* Discordiador sent them, joined by commas. The memory is made of cells:  *)
(* one for each field of a PCB or a TCB (its coordinates are one, its      *)
(* field PCB, always 0, is left out), one for each character of the tasks. *)
(***************************************************************************)
EXTENDS Integers, SequencesExt, FiniteSetsExt

CONSTANTS
  TRIPULANTES,    \* TRIPULANTES[pid]: how many members crew pid has
  TAREAS,         \* TAREAS[pid]: its tasks, each a sequence of characters
  Estados,        \* char_estados; a new member is in "N"
  Posiciones,     \* the places on the map; a new member is at 0
  Configuraciones \* the files Mi-RAM-HQ.config there may be

VARIABLE config   \* the file Mi-RAM-HQ.config, read once

Caracteres == UNION {ToSet(tarea) : tarea \in UNION {ToSet(TAREAS[pid]) : pid \in DOMAIN TAREAS}}

ASSUME EstructurasAssumption ==
  /\ TRIPULANTES \in Seq(Nat \ {0}) /\ Len(TAREAS) = Len(TRIPULANTES)
  /\ TAREAS \in Seq(Seq(Seq(Caracteres)))
  /\ \A p \in DOMAIN TAREAS : TAREAS[p] # <<>> /\ <<>> \notin ToSet(TAREAS[p])
  /\ "," \notin Caracteres /\ "N" \in Estados /\ 0 \in Posiciones
  /\ \A c \in Configuraciones :
       /\ c.esquema \in {"SEGMENTACION", "PAGINACION"}
       /\ c.criterio \in {"FF", "BF"} /\ c.reemplazo \in {"LRU", "CLOCK"}
       /\ {c.tamanio, c.swap} \subseteq Nat /\ c.pagina \in Nat \ {0}

Pids == DOMAIN TRIPULANTES
Miembros == UNION {{p} \X (1..TRIPULANTES[p]) : p \in Pids}

TAM_PCB == 2
TAM_TCB == 4
\* The fields of a TCB, from its first cell.
ESTADO == 1
POSICION == 2
INSTRUCCION == 3

Campo(nombre, valor) == <<nombre, valor>>
PCB(pid, tareas) == <<Campo("pid", pid), Campo("tareas", tareas)>>
TCB(tid, instruccion) == <<Campo("tid", tid), Campo("estado", "N"), Campo("posicion", 0), Campo("instruccion", instruccion)>>

\* The text of a crew's tasks, as agregar_archivo_a_paquete joins them.
Letras(tarea) == [i \in DOMAIN tarea |-> Campo("texto", tarea[i])]
Texto(pid) ==
  FoldLeft(LAMBDA texto, tarea : texto \o Letras(<<",">> \o tarea), Letras(Head(TAREAS[pid])), Tail(TAREAS[pid]))

\* A task read from cells of text.
Tarea(celdas) == [i \in DOMAIN celdas |-> celdas[i][2]]
Coma == Campo("texto", ",")

\* What a cell may hold; the memory starts as malloc leaves it.
Basura == Campo("texto", "basura")
Celdas == ({"pid", "tareas", "tid", "instruccion"} \X Nat) \cup ({"estado"} \X Estados)
          \cup ({"posicion"} \X Posiciones) \cup ({"texto"} \X (Caracteres \cup {",", "basura"}))

\* f with v for x: a list with one more element, found by x.
Con(f, x, v) == [y \in DOMAIN f \cup {x} |-> IF y = x THEN v ELSE f[y]]

\* memcpy of a sequence of cells to an address.
Copiar(memoria, inicio, contenido) ==
  [a \in DOMAIN memoria |->
     IF a \in inicio..(inicio + Len(contenido) - 1) THEN contenido[a - inicio + 1] ELSE memoria[a]]

===============================================================================
