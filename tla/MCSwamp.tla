------------------------------- MODULE MCSwamp -------------------------------
(* Instances of Swamp for TLC: two files of one block of frames each, one of *)
(* two blocks, and one with a frame that is left over.                       *)
EXTENDS Swamp

CONSTANTS c1, c2, c3, x, y

DosArchivosOUno == {[archivos |-> 2, paginas |-> 2], [archivos |-> 1, paginas |-> 4], [archivos |-> 1, paginas |-> 3]}
Simetria == Permutations(Pids) \cup Permutations(Contenidos)

===============================================================================
