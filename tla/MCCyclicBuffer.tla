--------------------------- MODULE MCCyclicBuffer ---------------------------
(* Model-checking instance of CyclicBuffer: two nodes, a two-slot buffer   *)
(* and a tail of at most four, so every slot is reused twice.              *)
EXTENDS CyclicBuffer
====
