--------------------------- MODULE MCMemoriaVirtual ---------------------------
(***************************************************************************)
(* Instances of MemoriaVirtual for TLC: a process with more pages than     *)
(* frames, and two with a frame each, that share the memory.               *)
(***************************************************************************)
EXTENDS MemoriaVirtual

CONSTANTS p1, p2

UnoSolo ==
  [llegan |-> {p1}, paginas |-> (p1 :> 3 @@ p2 :> 1), marcos_por_proceso |-> 2,
   reemplazo |-> "CLOCK-M", entradas_tlb |-> 1, reemplazo_tlb |-> "FIFO", instrucciones |-> 5]
Dos ==
  [llegan |-> {p1, p2}, paginas |-> (p1 :> 2 @@ p2 :> 1), marcos_por_proceso |-> 1,
   reemplazo |-> "CLOCK", entradas_tlb |-> 2, reemplazo_tlb |-> "LRU", instrucciones |-> 3]
UnoYDos == {UnoSolo, Dos}
=============================================================================
