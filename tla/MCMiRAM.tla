------------------------------- MODULE MCMiRAM -------------------------------
(* Instances of MiRAM for TLC. With pages of five cells the TCBs of the first *)
(* crew share pages with each other, its PCB and its tasks.                   *)
EXTENDS MiRAM

Archivo(esquema, criterio, reemplazo, tamanio) ==
  [esquema |-> esquema, criterio |-> criterio, reemplazo |-> reemplazo,
   tamanio |-> tamanio, swap |-> 5, pagina |-> 5]

DosPatotas == <<3, 1>>
DosTareas == << << <<"a", "b">> >>, << <<"d">>, <<"e">> >> >>

Todas ==
  {Archivo("SEGMENTACION", "FF", "LRU", 21), Archivo("SEGMENTACION", "BF", "LRU", 21),
   Archivo("PAGINACION", "FF", "LRU", 25), Archivo("PAGINACION", "FF", "CLOCK", 25)}
Segmentada == {Archivo("SEGMENTACION", "FF", "LRU", 27)}

===============================================================================
