--------------------------- MODULE MCUnboundedLog ---------------------------
(* Model-checking instance of UnboundedLog: two nodes, a log of at most   *)
(* three entries (so both nodes can interleave entries in one Loop), two  *)
(* update ids and one read id that are recycled by get_new_nat.           *)
EXTENDS UnboundedLog

MCUpdateOps == {"a", "b"}
MCReadonlyOps == {"r"}
MCOneUpdateOp == {"a"}
====
