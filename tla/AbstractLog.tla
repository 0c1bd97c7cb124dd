----------------------------- MODULE AbstractLog -----------------------------
(***************************************************************************)
(* What node replication promises its clients (spec sections 1 and 4.5): *)
(* a single sequence of update operations, alog, to which every update    *)
(* is appended once, at a point between its submission and its answer,   *)
(* and which every read observes at some length between its start and    *)
(* its answer.  The answer of an update is its result on the prefix of    *)
(* alog before it; the answer of a read is its result on a prefix at      *)
(* least as long as alog was when the read took its snapshot.             *)
(*                                                                         *)
(* A request is a record keyed by its id while the client holds it:       *)
(* pos / lo is -1 until the update is linearized / the read has its       *)
(* snapshot, done says whether the answer is available.                   *)
(***************************************************************************)
EXTENDS Naturals, Sequences, FiniteSets, Functions, TLC, NRState

CONSTANTS UpdateReqIds, ReadReqIds, UpdateOps, ReadonlyOps

VARIABLES alog, updates, reads

avars == <<alog, updates, reads>>

Pending == {rid \in DOMAIN updates : updates[rid].pos = -1}

Init ==
  /\ alog = <<>>
  /\ updates = <<>>
  /\ reads = <<>>

UpdateInvoke(op) ==
  /\ \E rid \in UpdateReqIds \ DOMAIN updates :
       updates' = (rid :> [op |-> op, pos |-> -1, done |-> FALSE, ret |-> 0]) @@ updates
  /\ UNCHANGED <<alog, reads>>

(* Some pending updates, in some order, take effect together.             *)
Linearize ==
  \E k \in 1 .. Cardinality(Pending) :
  \E order \in [1 .. k -> Pending] :
    /\ IsInjective(order)
    /\ alog' = alog \o [i \in 1 .. k |-> updates[order[i]].op]
    /\ updates' = [rid \in DOMAIN updates |->
                     IF \E i \in 1 .. k : order[i] = rid
                     THEN [updates[rid] EXCEPT
                             !.pos = Len(alog) + (CHOOSE i \in 1 .. k : order[i] = rid) - 1]
                     ELSE updates[rid]]
    /\ UNCHANGED reads

UpdateRespond(rid) ==
  LET u == updates[rid] IN
  /\ u.pos >= 0
  /\ ~u.done
  /\ updates' = [updates EXCEPT ![rid].done = TRUE,
                                ![rid].ret = NRUpdate(SubSeq(alog, 1, u.pos), u.op).ret]
  /\ UNCHANGED <<alog, reads>>

UpdateReturn(rid) ==
  /\ updates[rid].done
  /\ updates' = Restrict(updates, DOMAIN updates \ {rid})
  /\ UNCHANGED <<alog, reads>>

ReadInvoke(op) ==
  /\ \E rid \in ReadReqIds \ DOMAIN reads :
       reads' = (rid :> [op |-> op, lo |-> -1, done |-> FALSE, ret |-> 0]) @@ reads
  /\ UNCHANGED <<alog, updates>>

ReadBegin(rid) ==
  /\ reads[rid].lo = -1
  /\ reads' = [reads EXCEPT ![rid].lo = Len(alog)]
  /\ UNCHANGED <<alog, updates>>

ReadRespond(rid) ==
  LET r == reads[rid] IN
  /\ r.lo >= 0
  /\ ~r.done
  /\ \E k \in r.lo .. Len(alog) :
       reads' = [reads EXCEPT ![rid].done = TRUE,
                              ![rid].ret = NRRead(SubSeq(alog, 1, k), r.op)]
  /\ UNCHANGED <<alog, updates>>

ReadReturn(rid) ==
  /\ reads[rid].done
  /\ reads' = Restrict(reads, DOMAIN reads \ {rid})
  /\ UNCHANGED <<alog, updates>>

Next ==
  \/ \E op \in UpdateOps : UpdateInvoke(op)
  \/ Linearize
  \/ \E rid \in DOMAIN updates : UpdateRespond(rid) \/ UpdateReturn(rid)
  \/ \E op \in ReadonlyOps : ReadInvoke(op)
  \/ \E rid \in DOMAIN reads : ReadBegin(rid) \/ ReadRespond(rid) \/ ReadReturn(rid)

Spec == Init /\ [][Next]_avars

=============================================================================
