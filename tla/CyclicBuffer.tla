---------------------------- MODULE CyclicBuffer ----------------------------
(***************************************************************************)
(* The cyclic buffer that stores the node-replication log                 *)
(* (src/nr/cyclicbuffer.rs, tokenized_state_machine CyclicBuffer).        *)
(* One action per transition!: the reader protocol, the racy head         *)
(* advance, tail reservation with withdrawal of the overwritten slots,    *)
(* and appending (flip the alive bit, deposit the entry).                 *)
(*                                                                         *)
(* contents is the storage_map: logical index -> stored entry, a function *)
(* whose domain is the set of indices currently stored.  The stored entry *)
(* (StoredType, a log entry) is abstracted to the id of the node that     *)
(* deposited it, -1 for the entries present at initialisation.            *)
(* deposit, withdraw and guard carry proof obligations in the state       *)
(* machine, not enabling conditions; they are stated below as properties. *)
(***************************************************************************)
EXTENDS Integers, FiniteSets, Functions, TLC

CONSTANTS
  BufferSize,   \* buffer_size
  NumReplicas,  \* num_replicas: nodes are 0 .. NumReplicas - 1
  MaxTail       \* bound: the tail is never advanced beyond MaxTail, and no
                \* appender or reader cursor moves past it

ASSUME BufferSize \in Nat \ {0} /\ NumReplicas \in Nat \ {0} /\ MaxTail \in Nat

Nodes == 0 .. NumReplicas - 1
Slots == 0 .. BufferSize - 1
StoredValues == Nodes \cup {-1}

VARIABLES
  head,            \* logical index, may move backwards
  tail,            \* logical index where the next append goes
  local_heads,     \* NodeId -> LogIdx
  contents,        \* logical index -> StoredType (partial)
  alive_bits,      \* physical slot -> bool
  combiner_state   \* NodeId -> CombinerState

vars == <<head, tail, local_heads, contents, alive_bits, combiner_state>>

-----------------------------------------------------------------------------
(* CombinerState and ReaderState as records of one shape: rs is the        *)
(* ReaderState variant while tag = "Reading"; unused fields are 0.         *)
Idle == [tag |-> "Idle", rs |-> "None", start |-> 0, end |-> 0, cur |-> 0, val |-> 0,
         idx |-> 0, min_head |-> 0, observed_head |-> 0, cur_idx |-> 0, tail |-> 0]

(* logical_to_alive_bit_alive_when: the alive bit of a slot means "alive"  *)
(* with the parity of the logical index's wrap count.                      *)
logical_to_alive_bit_alive_when(logical) == (logical \div BufferSize) % 2 = 0

min(x, y) == IF x < y THEN x ELSE y

-----------------------------------------------------------------------------

Init ==
  /\ head = 0
  /\ tail = 0
  /\ local_heads = [n \in Nodes |-> 0]
  /\ contents = [i \in -BufferSize .. -1 |-> -1]
  /\ alive_bits = [s \in Slots |-> FALSE]
  /\ combiner_state = [n \in Nodes |-> Idle]

(* Readers *)

reader_do_start(node_id) ==
  /\ combiner_state[node_id].tag = "Idle"
  /\ combiner_state' = [combiner_state EXCEPT ![node_id] =
                          [Idle EXCEPT !.tag = "Reading", !.rs = "Starting",
                                       !.start = local_heads[node_id]]]
  /\ UNCHANGED <<head, tail, local_heads, contents, alive_bits>>

reader_do_enter(node_id) ==
  LET c == combiner_state[node_id] IN
  /\ c.tag = "Reading" /\ c.rs = "Starting"
  /\ combiner_state' = [combiner_state EXCEPT ![node_id] =
                          [c EXCEPT !.rs = "Range", !.end = tail, !.cur = c.start]]
  /\ UNCHANGED <<head, tail, local_heads, contents, alive_bits>>

(* The guard takes the entry at cur once its alive bit shows it published; *)
(* "birds_eye let val = pre.contents.index(cur)" is unspecified when cur   *)
(* is not stored, so any stored value may then be taken.                   *)
reader_do_guard(node_id) ==
  LET c == combiner_state[node_id] IN
  /\ c.tag = "Reading" /\ c.rs = "Range"
  /\ c.cur < MaxTail
  /\ alive_bits[c.cur % BufferSize] = logical_to_alive_bit_alive_when(c.cur)
  /\ \E val \in IF c.cur \in DOMAIN contents THEN {contents[c.cur]} ELSE StoredValues :
       combiner_state' = [combiner_state EXCEPT ![node_id] = [c EXCEPT !.rs = "Guard", !.val = val]]
  /\ UNCHANGED <<head, tail, local_heads, contents, alive_bits>>

reader_do_unguard(node_id) ==
  LET c == combiner_state[node_id] IN
  /\ c.tag = "Reading" /\ c.rs = "Guard"
  /\ combiner_state' = [combiner_state EXCEPT ![node_id] =
                          [c EXCEPT !.rs = "Range", !.cur = c.cur + 1, !.val = 0]]
  /\ UNCHANGED <<head, tail, local_heads, contents, alive_bits>>

reader_do_finish(node_id) ==
  LET c == combiner_state[node_id] IN
  /\ c.tag = "Reading" /\ c.rs = "Range"
  /\ combiner_state' = [combiner_state EXCEPT ![node_id] = Idle]
  /\ local_heads' = [local_heads EXCEPT ![node_id] = c.end]
  /\ UNCHANGED <<head, tail, contents, alive_bits>>

reader_do_abort(node_id) ==
  /\ combiner_state[node_id].tag = "Reading"
  /\ combiner_state[node_id].rs \in {"Starting", "Range"}
  /\ combiner_state' = [combiner_state EXCEPT ![node_id] = Idle]
  /\ UNCHANGED <<head, tail, local_heads, contents, alive_bits>>

(* Advancing the head: scan local_heads[1 ..] folding the minimum. *)

init_advance_head(node_id) ==
  /\ combiner_state[node_id].tag = "Idle"
  /\ combiner_state' = [combiner_state EXCEPT ![node_id] =
                          [Idle EXCEPT !.tag = "AdvancingHead", !.idx = 1,
                                       !.min_head = local_heads[node_id]]]
  /\ UNCHANGED <<head, tail, local_heads, contents, alive_bits>>

step_advance_head(node_id) ==
  LET c == combiner_state[node_id] IN
  /\ c.tag = "AdvancingHead"
  /\ c.idx < NumReplicas
  /\ combiner_state' = [combiner_state EXCEPT ![node_id] =
                          [c EXCEPT !.idx = c.idx + 1,
                                    !.min_head = min(c.min_head, local_heads[c.idx])]]
  /\ UNCHANGED <<head, tail, local_heads, contents, alive_bits>>

abandon_advance_head(node_id) ==
  /\ combiner_state[node_id].tag = "AdvancingHead"
  /\ combiner_state' = [combiner_state EXCEPT ![node_id] = Idle]
  /\ UNCHANGED <<head, tail, local_heads, contents, alive_bits>>

finish_advance_head(node_id) ==
  LET c == combiner_state[node_id] IN
  /\ c.tag = "AdvancingHead"
  /\ c.idx = NumReplicas
  /\ head' = c.min_head
  /\ combiner_state' = [combiner_state EXCEPT ![node_id] = Idle]
  /\ UNCHANGED <<tail, local_heads, contents, alive_bits>>

(* Advancing the tail: reserve [tail, new_tail) against the observed head. *)

init_advance_tail(node_id) ==
  /\ combiner_state[node_id].tag = "Idle"
  /\ combiner_state' = [combiner_state EXCEPT ![node_id] =
                          [Idle EXCEPT !.tag = "AdvancingTail", !.observed_head = head]]
  /\ UNCHANGED <<head, tail, local_heads, contents, alive_bits>>

abandon_advance_tail(node_id) ==
  /\ combiner_state[node_id].tag = "AdvancingTail"
  /\ combiner_state' = [combiner_state EXCEPT ![node_id] = Idle]
  /\ UNCHANGED <<head, tail, local_heads, contents, alive_bits>>

(* The indices whose slots a reservation up to new_tail takes over.        *)
Withdrawn(new_tail) == (tail - BufferSize) .. (new_tail - BufferSize - 1)

finish_advance_tail(node_id, new_tail) ==
  LET c == combiner_state[node_id] IN
  /\ c.tag = "AdvancingTail"
  /\ tail <= new_tail /\ new_tail <= c.observed_head + BufferSize
  /\ combiner_state' = [combiner_state EXCEPT ![node_id] =
                          [Idle EXCEPT !.tag = "Appending", !.cur_idx = tail, !.tail = new_tail]]
  /\ tail' = new_tail
  /\ contents' = Restrict(contents, DOMAIN contents \ Withdrawn(new_tail))
  /\ UNCHANGED <<head, local_heads, alive_bits>>

(* Appending: flip the slot's alive bit to "alive for cur_idx" and deposit *)
(* the entry.  The code has no cur_idx < tail condition here.              *)
append_flip_bit(node_id) ==
  LET c == combiner_state[node_id] IN
  /\ c.tag = "Appending"
  /\ c.cur_idx < MaxTail
  /\ combiner_state' = [combiner_state EXCEPT ![node_id].cur_idx = c.cur_idx + 1]
  /\ alive_bits' = [alive_bits EXCEPT ![c.cur_idx % BufferSize] =
                      logical_to_alive_bit_alive_when(c.cur_idx)]
  /\ contents' = (c.cur_idx :> node_id) @@ contents
  /\ UNCHANGED <<head, tail, local_heads>>

finish_appending(node_id) ==
  LET c == combiner_state[node_id] IN
  /\ c.tag = "Appending"
  /\ c.cur_idx = c.tail
  /\ combiner_state' = [combiner_state EXCEPT ![node_id] = Idle]
  /\ UNCHANGED <<head, tail, local_heads, contents, alive_bits>>

-----------------------------------------------------------------------------

Next ==
  \E n \in Nodes :
    \/ reader_do_start(n)
    \/ reader_do_enter(n)
    \/ reader_do_guard(n)
    \/ reader_do_unguard(n)
    \/ reader_do_finish(n)
    \/ reader_do_abort(n)
    \/ init_advance_head(n)
    \/ step_advance_head(n)
    \/ abandon_advance_head(n)
    \/ finish_advance_head(n)
    \/ init_advance_tail(n)
    \/ abandon_advance_tail(n)
    \/ \E t \in tail .. MaxTail : finish_advance_tail(n, t)
    \/ append_flip_bit(n)
    \/ finish_appending(n)

Spec == Init /\ [][Next]_vars

-----------------------------------------------------------------------------
(* Properties *)

TypeOK ==
  /\ head \in 0 .. MaxTail /\ tail \in 0 .. MaxTail
  /\ local_heads \in [Nodes -> 0 .. MaxTail]
  /\ DOMAIN contents \subseteq -BufferSize .. MaxTail
  /\ \A i \in DOMAIN contents : contents[i] \in StoredValues
  /\ alive_bits \in [Slots -> BOOLEAN]
  /\ \A n \in Nodes :
       combiner_state[n].tag \in {"Idle", "Reading", "AdvancingHead", "AdvancingTail", "Appending"}

(* The code's invariants pointer_ordering and pointer_differences.       *)
pointer_ordering ==
  /\ head <= tail
  /\ \A i \in DOMAIN local_heads : head <= local_heads[i] /\ local_heads[i] <= tail
  /\ \A i \in DOMAIN local_heads : tail - BufferSize <= local_heads[i]

pointer_differences ==
  \A i \in DOMAIN local_heads :
    local_heads[i] <= tail /\ tail <= local_heads[i] + BufferSize

(* Spec I1, I2: the head never passes a replica's local head, and no       *)
(* replica lags the tail by more than one wrap.  The head advance scans   *)
(* the local heads without a lock while the readers move them, and two    *)
(* advances may overlap.                                                   *)
HeadBoundsLocalHeads == pointer_ordering /\ pointer_differences

(* property! guard_guards (spec I5): while a reader holds the guard on     *)
(* cur, the entry it took is still stored at cur, i.e. no reservation has  *)
(* withdrawn it and no appender has replaced it.                           *)
GuardGuards ==
  \A n \in Nodes : LET c == combiner_state[n] IN
    (c.tag = "Reading" /\ c.rs = "Guard") =>
      c.cur \in DOMAIN contents /\ contents[c.cur] = c.val

(* The code's invariant ranges_no_overlap (spec I4 and section 5: each    *)
(* log slot is written by the one combiner that reserved it): an          *)
(* appender's remaining range [cur_idx, tail) contains no index another   *)
(* node guards, and is disjoint from another appender's remaining range.  *)
(* Translated as written; the appender/appender disjunct reads            *)
(* "cur_idx <= tail2 || tail <= cur_idx2".                                *)
ranges_no_overlap ==
  \A i, j \in Nodes : i # j =>
    LET ci == combiner_state[i]
        cj == combiner_state[j]
    IN ci.tag = "Appending" =>
         /\ (cj.tag = "Reading" /\ cj.rs = "Guard") =>
              ci.cur_idx > cj.cur \/ ci.tail <= cj.cur
         /\ cj.tag = "Appending" =>
              ci.cur_idx <= cj.tail \/ ci.tail <= cj.cur_idx

(* The deposit in append_flip_bit (spec publish_slot, I4): an appender     *)
(* only deposits at an index where nothing is stored, so it never replaces *)
(* an entry another appender published.                                    *)
DepositFresh ==
  [][\A n \in Nodes :
       append_flip_bit(n) => combiner_state[n].cur_idx \notin DOMAIN contents]_vars

=============================================================================
