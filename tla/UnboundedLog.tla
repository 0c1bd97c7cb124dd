---------------------------- MODULE UnboundedLog ----------------------------
(***************************************************************************)
(* The unbounded-log layer of node replication (src/nr/unbounded_log.rs,  *)
(* tokenized_state_machine UnboundedLog).  One action per transition!:    *)
(* the readonly protocol, the update lifecycle and the per-node combiner  *)
(* (Ready -> Placed -> LoadedLocalVersion -> Loop -> UpdatedVersion).     *)
(*                                                                         *)
(* The sharded maps of the state machine (log, local_updates, ...) are    *)
(* TLA+ functions whose domain is the set of keys currently held; a       *)
(* "remove m -= [k => v]" / "add m += [k => v']" pair is an EXCEPT, a     *)
(* lone add is (k :> v) @@ m and a lone remove is a Restrict.             *)
(***************************************************************************)
EXTENDS Naturals, Sequences, FiniteSets, Functions, TLC, NRState

CONSTANTS
  NumReplicas,   \* num_replicas: nodes are 0 .. NumReplicas - 1
  UpdateReqIds,  \* the ids get_new_nat can hand to update requests
  ReadReqIds,    \* the ids get_new_nat can hand to readonly requests
  UpdateOps,     \* UpdateOp values a client may submit
  ReadonlyOps,   \* ReadonlyOp values a client may submit
  MaxLog         \* bound: global_tail never exceeds MaxLog

ASSUME NumReplicas \in Nat \ {0} /\ MaxLog \in Nat

Nodes == 0 .. NumReplicas - 1

VARIABLES
  log,                  \* LogIdx -> LogEntry, domain 0 .. global_tail - 1
  global_tail,
  replicas,             \* NodeId -> NRState
  local_versions,       \* NodeId -> LogIdx
  version_upper_bound,
  local_reads,          \* ReqId -> ReadonlyState (partial)
  local_updates,        \* ReqId -> UpdateState   (partial)
  combiner              \* NodeId -> CombinerState

vars == <<log, global_tail, replicas, local_versions, version_upper_bound,
          local_reads, local_updates, combiner>>

-----------------------------------------------------------------------------
(* Variants of ReadonlyState, UpdateState and CombinerState as records of  *)
(* one shape, unused fields held at 0.                                     *)
RInit(op) == [tag |-> "Init", op |-> op, node_id |-> 0, version_upper_bound |-> 0, ret |-> 0]
UInit(op) == [tag |-> "Init", op |-> op, idx |-> 0, ret |-> 0]
CReady == [tag |-> "Ready", queued_ops |-> <<>>, lversion |-> 0, idx |-> 0, global_tail |-> 0]
CLoop(q, lv, i, gt) ==
  [tag |-> "Loop", queued_ops |-> q, lversion |-> lv, idx |-> i, global_tail |-> gt]

(* CombinerState::queued_ops (renamed, as queued_ops names a field and a   *)
(* parameter here): Ready holds the empty queue.                          *)
combiner_queued_ops(cs) == cs.queued_ops

(* current_local_version: the version node_id's replica is at, by phase.   *)
current_local_version(n) ==
  LET c == combiner[n] IN
  CASE c.tag \in {"Ready", "Placed"}                 -> local_versions[n]
    [] c.tag \in {"LoadedLocalVersion", "Loop"}      -> c.lversion
    [] c.tag = "UpdatedVersion"                      -> c.global_tail

-----------------------------------------------------------------------------
(* Helper predicates of the invariants (unbounded_log.rs, helper          *)
(* functions).  The log is LogIdx -> LogEntry with entries at             *)
(* 0 .. global_tail - 1.                                                  *)

LogContainsEntriesUpToHere(lg, end) == \A i \in 0 .. end - 1 : i \in DOMAIN lg
LogNoEntriesFromHere(lg, start) == \A i \in DOMAIN lg : i < start

(* No entry of node_id in [start, end).                                    *)
RECURSIVE LogRangeNoNodeId(_, _, _, _)
LogRangeNoNodeId(lg, start, end, node_id) ==
  start < end =>
    /\ start \in DOMAIN lg
    /\ lg[start].node_id # node_id
    /\ LogRangeNoNodeId(lg, start + 1, end, node_id)

(* Walking the log from logIndexLower to logIndexUpper, each entry of      *)
(* nodeId is the next request of the queue (0-based queueIndex), which is  *)
(* Placed at exactly that index; at the end the queue is used up.          *)
RECURSIVE LogRangeMatchesQueue(_, _, _, _, _, _, _)
LogRangeMatchesQueue(queue, lg, queueIndex, logIndexLower, logIndexUpper, nodeId, updates) ==
  /\ logIndexLower = logIndexUpper => queueIndex = Len(queue)
  /\ logIndexLower < logIndexUpper =>
       /\ logIndexLower \in DOMAIN lg
       /\ lg[logIndexLower].node_id = nodeId =>
            /\ queueIndex < Len(queue)
            /\ queue[queueIndex + 1] \in DOMAIN updates
            /\ updates[queue[queueIndex + 1]].tag = "Placed"
            /\ updates[queue[queueIndex + 1]].idx = logIndexLower
            /\ LogRangeMatchesQueue(queue, lg, queueIndex + 1, logIndexLower + 1,
                                    logIndexUpper, nodeId, updates)
       /\ lg[logIndexLower].node_id # nodeId =>
            LogRangeMatchesQueue(queue, lg, queueIndex, logIndexLower + 1,
                                 logIndexUpper, nodeId, updates)

(* The queued requests from bound on are present and Placed.               *)
QueueRidsUpdatePlaced(queued_ops, localUpdates, bound) ==
  \A j \in bound + 1 .. Len(queued_ops) :
    /\ queued_ops[j] \in DOMAIN localUpdates
    /\ localUpdates[queued_ops[j]].tag = "Placed"

(* wf_node_id: the node has a combiner, a local version and a replica.    *)
wf_node_id(node_id) ==
  node_id \in DOMAIN combiner /\ node_id \in DOMAIN local_versions /\ node_id \in DOMAIN replicas

(* inv_version_in_range: the version upper bound never passes the tail.    *)
inv_version_in_range == version_upper_bound <= global_tail

(* inv_local_version_upper_bound_heads: no local version is ahead of the   *)
(* version upper bound.                                                    *)
inv_local_version_upper_bound_heads ==
  \A node_id \in DOMAIN local_versions : local_versions[node_id] <= version_upper_bound

(* wf_readstate: a read's snapshot of the version upper bound never runs  *)
(* ahead of the current one, nor, once it has picked a node, of that      *)
(* node's current local version.                                          *)
wf_readstate(rs) ==
  /\ rs.tag # "Init" => rs.version_upper_bound <= version_upper_bound
  /\ rs.tag \in {"ReadyToRead", "Done"} =>
       /\ wf_node_id(rs.node_id)
       /\ rs.version_upper_bound <= current_local_version(rs.node_id)

(* wf_combiner_for_node_id, by combiner phase (seq_unique is IsInjective), *)
(* without its QueueRidsUpdateDone conjuncts (Loop, UpdatedVersion): how  *)
(* the queue lines up with the log.  QueueRidsUpdateDone takes the        *)
(* presence of a queued request only as a hypothesis, so that a request   *)
(* may retire early, but a retired id handed out again by get_new_nat is  *)
(* present and Init, and the conjunct fails on the trace that breaks      *)
(* inv_combiner_rids_distinct (CombinerRidsDistinct below).               *)
combiner_queue_wf(node_id) ==
  LET c  == combiner[node_id]
      lv == local_versions[node_id]
  IN
  CASE c.tag = "Ready" -> LogRangeNoNodeId(log, lv, global_tail, node_id)
    [] c.tag = "Placed" ->
         /\ LogRangeMatchesQueue(c.queued_ops, log, 0, lv, global_tail, node_id, local_updates)
         /\ QueueRidsUpdatePlaced(c.queued_ops, local_updates, 0)
         /\ IsInjective(c.queued_ops)
    [] c.tag = "LoadedLocalVersion" ->
         /\ c.lversion = lv
         /\ LogRangeMatchesQueue(c.queued_ops, log, 0, c.lversion, global_tail, node_id, local_updates)
         /\ QueueRidsUpdatePlaced(c.queued_ops, local_updates, 0)
         /\ IsInjective(c.queued_ops)
    [] c.tag = "Loop" ->
         /\ c.global_tail <= global_tail
         /\ c.lversion >= lv
         /\ c.lversion <= c.global_tail
         /\ c.idx <= Len(c.queued_ops)
         /\ LogRangeMatchesQueue(c.queued_ops, log, c.idx, c.lversion, c.global_tail, node_id, local_updates)
         /\ LogRangeNoNodeId(log, c.global_tail, global_tail, node_id)
         /\ QueueRidsUpdatePlaced(c.queued_ops, local_updates, c.idx)
         /\ IsInjective(c.queued_ops)
    [] c.tag = "UpdatedVersion" ->
         /\ c.global_tail <= version_upper_bound
         /\ lv <= c.global_tail
         /\ LogRangeNoNodeId(log, c.global_tail, global_tail, node_id)
         /\ IsInjective(c.queued_ops)

-----------------------------------------------------------------------------
(* Mutants: plausible slips in the transitions below, each of which a      *)
(* property of MCUnboundedLog.cfg, MCUnboundedLogReads.cfg or              *)
(* MCUnboundedLogLiveness.cfg must detect.                                 *)

\* a read picks a node without checking the node has reached its snapshot
readonly_ready_to_read_MutNoCheck(rid, node_id) ==
  /\ local_reads[rid].tag = "VersionUpperBound"
  /\ local_reads' = [local_reads EXCEPT ![rid].tag = "ReadyToRead", ![rid].node_id = node_id]
  /\ UNCHANGED <<log, global_tail, replicas, local_versions, version_upper_bound,
                 local_updates, combiner>>

\* the pass ends without publishing its local version
exec_finish_MutNoPublish(node_id) ==
  /\ combiner[node_id].tag = "UpdatedVersion"
  /\ combiner' = [combiner EXCEPT ![node_id] = CReady]
  /\ UNCHANGED <<log, global_tail, replicas, local_versions, version_upper_bound,
                 local_reads, local_updates>>

\* the log entry is written one slot past the old tail
place_one_MutOffByOne(node_id, rid) ==
  /\ combiner[node_id].tag = "Placed"
  /\ local_updates[rid].tag = "Init"
  /\ global_tail < MaxLog
  /\ global_tail' = global_tail + 1
  /\ log' = (global_tail + 1 :> [op |-> local_updates[rid].op, node_id |-> node_id]) @@ log
  /\ local_updates' = [local_updates EXCEPT ![rid].tag = "Placed", ![rid].idx = global_tail]
  /\ combiner' = [combiner EXCEPT ![node_id].queued_ops = Append(@, rid)]
  /\ UNCHANGED <<replicas, local_versions, version_upper_bound, local_reads>>

\* the request is placed in the log but not pushed onto queued_ops
place_one_MutNoPush(node_id, rid) ==
  /\ combiner[node_id].tag = "Placed"
  /\ local_updates[rid].tag = "Init"
  /\ global_tail < MaxLog
  /\ global_tail' = global_tail + 1
  /\ log' = (global_tail :> [op |-> local_updates[rid].op, node_id |-> node_id]) @@ log
  /\ local_updates' = [local_updates EXCEPT ![rid].tag = "Placed", ![rid].idx = global_tail]
  /\ UNCHANGED <<replicas, local_versions, version_upper_bound, local_reads, combiner>>

\* the applied update records the log index after the increment
dispatch_local_MutIdx(node_id) ==
  LET c   == combiner[node_id]
      rid == c.queued_ops[c.idx + 1]
      res == NRUpdate(replicas[node_id], log[c.lversion].op)
  IN
  /\ c.tag = "Loop"
  /\ c.lversion < c.global_tail
  /\ log[c.lversion].node_id = node_id
  /\ c.idx < Len(c.queued_ops)
  /\ rid \in DOMAIN local_updates
  /\ local_updates' = [local_updates EXCEPT ![rid] =
                         [tag |-> "Applied", op |-> @.op, idx |-> c.lversion + 1, ret |-> res.ret]]
  /\ replicas' = [replicas EXCEPT ![node_id] = res.state]
  /\ combiner' = [combiner EXCEPT ![node_id].lversion = c.lversion + 1,
                                  ![node_id].idx = c.idx + 1]
  /\ UNCHANGED <<log, global_tail, local_versions, version_upper_bound, local_reads>>

\* a remote entry is skipped instead of applied to the local replica
dispatch_remote_MutSkip(node_id) ==
  LET c == combiner[node_id] IN
  /\ c.tag = "Loop"
  /\ c.lversion < c.global_tail
  /\ log[c.lversion].node_id # node_id
  /\ combiner' = [combiner EXCEPT ![node_id].lversion = c.lversion + 1]
  /\ UNCHANGED <<log, global_tail, replicas, local_versions, version_upper_bound,
                 local_reads, local_updates>>

\* the version upper bound is left as it was
update_vub_MutNoRaise(node_id) ==
  LET c == combiner[node_id] IN
  /\ c.tag = "Loop"
  /\ c.lversion = c.global_tail
  /\ combiner' = [combiner EXCEPT ![node_id] = [CReady EXCEPT
                    !.tag = "UpdatedVersion", !.queued_ops = c.queued_ops,
                    !.global_tail = c.global_tail]]
  /\ UNCHANGED <<log, global_tail, replicas, local_versions, version_upper_bound,
                 local_reads, local_updates>>

\* the combiner snapshots the version upper bound (the completed tail)
\* instead of the global tail
exec_load_global_head_MutVub(node_id) ==
  LET c == combiner[node_id] IN
  /\ c.tag = "LoadedLocalVersion"
  /\ combiner' = [combiner EXCEPT ![node_id] = CLoop(c.queued_ops, c.lversion, 0, version_upper_bound)]
  /\ UNCHANGED <<log, global_tail, replicas, local_versions, version_upper_bound,
                 local_reads, local_updates>>

\* the version upper bound is overwritten with the snapshot, not raised to it
update_vub_MutNoMax(node_id) ==
  LET c == combiner[node_id] IN
  /\ c.tag = "Loop"
  /\ c.lversion = c.global_tail
  /\ version_upper_bound' = c.global_tail
  /\ combiner' = [combiner EXCEPT ![node_id] = [CReady EXCEPT
                    !.tag = "UpdatedVersion", !.queued_ops = c.queued_ops,
                    !.global_tail = c.global_tail]]
  /\ UNCHANGED <<log, global_tail, replicas, local_versions, local_reads, local_updates>>

\* the local version is published from the live global tail, not from the
\* snapshot the Loop applied up to
exec_finish_MutLiveTail(node_id) ==
  /\ combiner[node_id].tag = "UpdatedVersion"
  /\ local_versions' = [local_versions EXCEPT ![node_id] = global_tail]
  /\ combiner' = [combiner EXCEPT ![node_id] = CReady]
  /\ UNCHANGED <<log, global_tail, replicas, version_upper_bound, local_reads, local_updates>>

-----------------------------------------------------------------------------

Init ==
  /\ log = <<>>
  /\ global_tail = 0
  /\ replicas = [n \in Nodes |-> NRStateInit]
  /\ local_versions = [n \in Nodes |-> 0]
  /\ version_upper_bound = 0
  /\ local_reads = <<>>
  /\ local_updates = <<>>
  /\ combiner = [n \in Nodes |-> CReady]

(* Readonly requests *)

readonly_start(op) ==
  /\ \E rid \in ReadReqIds \ DOMAIN local_reads :
       local_reads' = (rid :> RInit(op)) @@ local_reads
  /\ UNCHANGED <<log, global_tail, replicas, local_versions, version_upper_bound,
                 local_updates, combiner>>

readonly_read_ctail(rid) ==
  /\ local_reads[rid].tag = "Init"
  /\ local_reads' = [local_reads EXCEPT ![rid].tag = "VersionUpperBound",
                                        ![rid].version_upper_bound = version_upper_bound]
  /\ UNCHANGED <<log, global_tail, replicas, local_versions, version_upper_bound,
                 local_updates, combiner>>

readonly_ready_to_read(rid, node_id) ==
  /\ local_reads[rid].tag = "VersionUpperBound"
  /\ local_versions[node_id] >= local_reads[rid].version_upper_bound
  /\ local_reads' = [local_reads EXCEPT ![rid].tag = "ReadyToRead", ![rid].node_id = node_id]
  /\ UNCHANGED <<log, global_tail, replicas, local_versions, version_upper_bound,
                 local_updates, combiner>>

readonly_apply(rid) ==
  LET r == local_reads[rid] IN
  /\ r.tag = "ReadyToRead"
  /\ combiner[r.node_id].tag = "Ready"
  /\ local_reads' = [local_reads EXCEPT ![rid].tag = "Done",
                                        ![rid].ret = NRRead(replicas[r.node_id], r.op)]
  /\ UNCHANGED <<log, global_tail, replicas, local_versions, version_upper_bound,
                 local_updates, combiner>>

readonly_finish(rid) ==
  /\ local_reads[rid].tag = "Done"
  /\ local_reads' = Restrict(local_reads, DOMAIN local_reads \ {rid})
  /\ UNCHANGED <<log, global_tail, replicas, local_versions, version_upper_bound,
                 local_updates, combiner>>

(* Update requests *)

update_start(op) ==
  /\ \E rid \in UpdateReqIds \ DOMAIN local_updates :
       local_updates' = (rid :> UInit(op)) @@ local_updates
  /\ UNCHANGED <<log, global_tail, replicas, local_versions, version_upper_bound,
                 local_reads, combiner>>

update_place_ops_in_log_one(node_id, rid) ==
  /\ combiner[node_id].tag = "Placed"
  /\ local_updates[rid].tag = "Init"
  /\ global_tail < MaxLog
  /\ global_tail' = global_tail + 1
  /\ log' = (global_tail :> [op |-> local_updates[rid].op, node_id |-> node_id]) @@ log
  /\ local_updates' = [local_updates EXCEPT ![rid].tag = "Placed", ![rid].idx = global_tail]
  /\ combiner' = [combiner EXCEPT ![node_id].queued_ops = Append(@, rid)]
  /\ UNCHANGED <<replicas, local_versions, version_upper_bound, local_reads>>

update_done(rid) ==
  /\ local_updates[rid].tag = "Applied"
  /\ version_upper_bound > local_updates[rid].idx
  /\ local_updates' = [local_updates EXCEPT ![rid].tag = "Done"]
  /\ UNCHANGED <<log, global_tail, replicas, local_versions, version_upper_bound,
                 local_reads, combiner>>

update_finish(rid) ==
  /\ local_updates[rid].tag = "Done"
  /\ local_updates' = Restrict(local_updates, DOMAIN local_updates \ {rid})
  /\ UNCHANGED <<log, global_tail, replicas, local_versions, version_upper_bound,
                 local_reads, combiner>>

(* Combiner *)

exec_trivial_start(node_id) ==
  /\ combiner[node_id].tag = "Ready"
  /\ combiner' = [combiner EXCEPT ![node_id].tag = "Placed"]
  /\ UNCHANGED <<log, global_tail, replicas, local_versions, version_upper_bound,
                 local_reads, local_updates>>

exec_load_local_version(node_id) ==
  /\ combiner[node_id].tag = "Placed"
  /\ combiner' = [combiner EXCEPT ![node_id].tag = "LoadedLocalVersion",
                                  ![node_id].lversion = local_versions[node_id]]
  /\ UNCHANGED <<log, global_tail, replicas, local_versions, version_upper_bound,
                 local_reads, local_updates>>

exec_load_global_head(node_id) ==
  LET c == combiner[node_id] IN
  /\ c.tag = "LoadedLocalVersion"
  /\ combiner' = [combiner EXCEPT ![node_id] = CLoop(c.queued_ops, c.lversion, 0, global_tail)]
  /\ UNCHANGED <<log, global_tail, replicas, local_versions, version_upper_bound,
                 local_reads, local_updates>>

(* Apply the local entry at lversion; its request is queued_ops[idx]       *)
(* (1-based: idx + 1), which the remove of local_updates requires present. *)
exec_dispatch_local(node_id) ==
  LET c   == combiner[node_id]
      rid == c.queued_ops[c.idx + 1]
      res == NRUpdate(replicas[node_id], log[c.lversion].op)
  IN
  /\ c.tag = "Loop"
  /\ c.lversion < c.global_tail
  /\ log[c.lversion].node_id = node_id
  /\ c.idx < Len(c.queued_ops)
  /\ rid \in DOMAIN local_updates
  /\ local_updates' = [local_updates EXCEPT ![rid] =
                         [tag |-> "Applied", op |-> @.op, idx |-> c.lversion, ret |-> res.ret]]
  /\ replicas' = [replicas EXCEPT ![node_id] = res.state]
  /\ combiner' = [combiner EXCEPT ![node_id].lversion = c.lversion + 1,
                                  ![node_id].idx = c.idx + 1]
  /\ UNCHANGED <<log, global_tail, local_versions, version_upper_bound, local_reads>>

exec_dispatch_remote(node_id) ==
  LET c == combiner[node_id] IN
  /\ c.tag = "Loop"
  /\ c.lversion < c.global_tail
  /\ log[c.lversion].node_id # node_id
  /\ replicas' = [replicas EXCEPT ![node_id] = NRUpdate(@, log[c.lversion].op).state]
  /\ combiner' = [combiner EXCEPT ![node_id].lversion = c.lversion + 1]
  /\ UNCHANGED <<log, global_tail, local_versions, version_upper_bound,
                 local_reads, local_updates>>

exec_update_version_upper_bound(node_id) ==
  LET c == combiner[node_id] IN
  /\ c.tag = "Loop"
  /\ c.lversion = c.global_tail
  /\ version_upper_bound' = IF version_upper_bound >= c.global_tail
                            THEN version_upper_bound ELSE c.global_tail
  /\ combiner' = [combiner EXCEPT ![node_id] = [CReady EXCEPT
                    !.tag = "UpdatedVersion", !.queued_ops = c.queued_ops,
                    !.global_tail = c.global_tail]]
  /\ UNCHANGED <<log, global_tail, replicas, local_versions, local_reads, local_updates>>

exec_finish(node_id) ==
  /\ combiner[node_id].tag = "UpdatedVersion"
  /\ local_versions' = [local_versions EXCEPT ![node_id] = combiner[node_id].global_tail]
  /\ combiner' = [combiner EXCEPT ![node_id] = CReady]
  /\ UNCHANGED <<log, global_tail, replicas, version_upper_bound, local_reads, local_updates>>

-----------------------------------------------------------------------------

Next ==
  \/ \E op \in ReadonlyOps : readonly_start(op)
  \/ \E rid \in DOMAIN local_reads :
       \/ readonly_read_ctail(rid)
       \/ \E n \in Nodes : readonly_ready_to_read(rid, n)
       \/ readonly_apply(rid)
       \/ readonly_finish(rid)
  \/ \E op \in UpdateOps : update_start(op)
  \/ \E rid \in DOMAIN local_updates :
       \/ \E n \in Nodes : update_place_ops_in_log_one(n, rid)
       \/ update_done(rid)
       \/ update_finish(rid)
  \/ \E n \in Nodes :
       \/ exec_trivial_start(n)
       \/ exec_load_local_version(n)
       \/ exec_load_global_head(n)
       \/ exec_dispatch_local(n)
       \/ exec_dispatch_remote(n)
       \/ exec_update_version_upper_bound(n)
       \/ exec_finish(n)

Spec == Init /\ [][Next]_vars

(* Fairness.  Once a combiner pass has begun (exec_trivial_start), the     *)
(* thread that holds the combiner lock runs it to the end: every later     *)
(* step of the pass is weakly fair.  A client thread waiting on an Applied *)
(* update keeps polling, so update_done is weakly fair.  Nothing forces a  *)
(* pass to start or a client to submit, so those steps are not fair.       *)
CombinerFairness ==
  \A n \in Nodes :
    /\ WF_vars(exec_load_local_version(n))
    /\ WF_vars(exec_load_global_head(n))
    /\ WF_vars(exec_dispatch_local(n))
    /\ WF_vars(exec_dispatch_remote(n))
    /\ WF_vars(exec_update_version_upper_bound(n))
    /\ WF_vars(exec_finish(n))

(* A client thread with a read in flight keeps taking its next step: it   *)
(* snapshots the version upper bound and spins on the local versions, so  *)
(* those steps are weakly fair.  readonly_apply is enabled only while the *)
(* node's combiner is Ready, and a new pass may start before the reader   *)
(* runs; the reader is assumed to get the replica between passes         *)
(* infinitely often (the reader/writer discipline of spec section 4.5),   *)
(* which is strong fairness on readonly_apply.                            *)
ReaderFairness ==
  \A rid \in ReadReqIds :
    /\ WF_vars(rid \in DOMAIN local_reads /\ readonly_read_ctail(rid))
    /\ WF_vars(rid \in DOMAIN local_reads /\ \E n \in Nodes : readonly_ready_to_read(rid, n))
    /\ SF_vars(rid \in DOMAIN local_reads /\ readonly_apply(rid))

FairSpec ==
  /\ Spec
  /\ CombinerFairness
  /\ \A rid \in UpdateReqIds : WF_vars(rid \in DOMAIN local_updates /\ update_done(rid))
  /\ ReaderFairness

-----------------------------------------------------------------------------
(* Refinement mapping onto AbstractLog.  The linearized sequence is the    *)
(* log below the version upper bound; an update takes effect when the     *)
(* version upper bound passes its log index, a read when it snapshots the *)
(* version upper bound.                                                    *)
abs_alog == [i \in 1 .. version_upper_bound |-> log[i - 1].op]

abs_updates ==
  [rid \in DOMAIN local_updates |->
     LET u == local_updates[rid] IN
     [op   |-> u.op,
      pos  |-> IF u.tag # "Init" /\ u.idx < version_upper_bound THEN u.idx ELSE -1,
      done |-> u.tag = "Done",
      ret  |-> IF u.tag = "Done" THEN u.ret ELSE 0]]

abs_reads ==
  [rid \in DOMAIN local_reads |->
     LET r == local_reads[rid] IN
     [op   |-> r.op,
      lo   |-> IF r.tag = "Init" THEN -1 ELSE r.version_upper_bound,
      done |-> r.tag = "Done",
      ret  |-> IF r.tag = "Done" THEN r.ret ELSE 0]]

AbsLog == INSTANCE AbstractLog WITH alog <- abs_alog, updates <- abs_updates, reads <- abs_reads

-----------------------------------------------------------------------------
(* Properties *)

TypeOK ==
  /\ global_tail \in 0 .. MaxLog
  /\ LogContainsEntriesUpToHere(log, global_tail)
  /\ LogNoEntriesFromHere(log, global_tail)
  /\ \A i \in DOMAIN log : log[i].op \in UpdateOps /\ log[i].node_id \in Nodes
  /\ replicas \in [Nodes -> Seq(UpdateOps)]
  /\ local_versions \in [Nodes -> 0 .. MaxLog]
  /\ version_upper_bound \in 0 .. MaxLog
  /\ DOMAIN local_reads \subseteq ReadReqIds
  /\ DOMAIN local_updates \subseteq UpdateReqIds
  /\ \A r \in DOMAIN local_reads :
       local_reads[r].tag \in {"Init", "VersionUpperBound", "ReadyToRead", "Done"}
  /\ \A u \in DOMAIN local_updates :
       local_updates[u].tag \in {"Init", "Placed", "Applied", "Done"}
  /\ \A n \in Nodes :
       combiner[n].tag \in {"Ready", "Placed", "LoadedLocalVersion", "Loop", "UpdatedVersion"}

(* The code's invariant combiner_states_wf, less QueueRidsUpdateDone: in   *)
(* every phase of a pass, walking the log from the node's version to the  *)
(* tail (its snapshot, in the Loop) meets the node's own entries exactly  *)
(* in the order of its queue, each still Placed at that index, and no own *)
(* entry lies past the snapshot.  Other combiners append between the      *)
(* node's appends, a read may retire and reuse ids, and exec_dispatch_local *)
(* and exec_update_version_upper_bound rest on this alignment.             *)
CombinerQueueMatchesLog == \A n \in Nodes : combiner_queue_wf(n)

(* The code's invariants inv_version_in_range and                         *)
(* inv_local_version_upper_bound_heads, which readonly_ready_to_read and   *)
(* update_done lean on: every local version is at most the version upper  *)
(* bound, itself at most the tail.  Each pass publishes its own snapshot  *)
(* of the tail, twice (exec_update_version_upper_bound, then exec_finish), *)
(* while other passes with older or newer snapshots publish theirs in     *)
(* between.                                                                 *)
VersionsInRange ==
  /\ inv_version_in_range
  /\ inv_local_version_upper_bound_heads

(* The code's invariant inv_readonly_requests_wf.                          *)
ReadonlyRequestsWf == \A r \in DOMAIN local_reads : wf_readstate(local_reads[r])

(* Every replica holds exactly the log prefix up to its current local      *)
(* version, so replicas at the same version are identical (spec I7):       *)
(* the dispatch loop applies every entry once, in log order, on every      *)
(* node, whatever the other combiners do meanwhile.                        *)
ReplicaIsLogPrefix ==
  \A n \in Nodes :
    replicas[n] = [i \in 1 .. current_local_version(n) |-> log[i - 1].op]

(* Node replication is linearizable (spec sections 1 and 4.5): every      *)
(* behaviour of the combiners, the update lifecycle and the readonly      *)
(* protocol is, under the mapping above, a behaviour of AbstractLog.  The *)
(* update answers come from dispatch on a replica, the read answers from  *)
(* readonly_apply on whichever replica the read picked, and both must     *)
(* agree with one sequence published through version_upper_bound.        *)
RefinesAbstractLog == AbsLog!Spec

(* The code's invariant inv_local_updates: every Placed, Applied or Done   *)
(* update has a log entry below the version upper bound.                   *)
LocalUpdatesWf ==
  \A u \in DOMAIN local_updates :
    local_updates[u].tag # "Init" =>
      /\ local_updates[u].idx \in DOMAIN log
      /\ local_updates[u].idx < version_upper_bound

(* The code's invariant inv_combiner_rids_distinct (spec section 4.3):    *)
(* the queued_ops of two different combiners never share a request id.    *)
(* update_finish may retire a Done request while its combiner still holds *)
(* it queued, and get_new_nat may then hand the same id to a new request. *)
CombinerRidsDistinct ==
  \A n1, n2 \in Nodes : n1 # n2 =>
    \A i \in 1 .. Len(combiner_queued_ops(combiner[n1])), j \in 1 .. Len(combiner_queued_ops(combiner[n2])) :
      combiner_queued_ops(combiner[n1])[i] # combiner_queued_ops(combiner[n2])[j]

(* Every update that a combiner has placed in the log eventually completes  *)
(* (update_done): the pass that placed it dispatches it, publishes a       *)
(* version upper bound past its index, and no other combiner's appends can *)
(* hold it back.                                                            *)
UpdateEventuallyDone ==
  \A rid \in UpdateReqIds :
    (rid \in DOMAIN local_updates /\ local_updates[rid].tag = "Placed")
      ~> (rid \in DOMAIN local_updates /\ local_updates[rid].tag = "Done")

(* Every read that has been submitted eventually has its answer: the pass *)
(* that raised the version upper bound it snapshots publishes a local     *)
(* version at least that high (exec_finish), local versions never go      *)
(* back, so readonly_ready_to_read stays enabled, and the reader then     *)
(* finds the node's combiner Ready.                                        *)
ReadEventuallyDone ==
  \A rid \in ReadReqIds :
    (rid \in DOMAIN local_reads /\ local_reads[rid].tag = "Init")
      ~> (rid \in DOMAIN local_reads /\ local_reads[rid].tag = "Done")

(* Replicas converge (spec section 5): if every node keeps running        *)
(* combiner passes, every entry placed in the log is eventually applied on *)
(* every replica.  A node's replica catches up only through its own        *)
(* passes, each of which snapshots the tail and publishes that snapshot as *)
(* its local version.                                                      *)
RunsCombinerForever(n) == []<>(combiner[n].tag # "Ready")

ReplicasConverge ==
  (\A n \in Nodes : RunsCombinerForever(n)) =>
    \A n \in Nodes, k \in 1 .. MaxLog :
      (global_tail >= k) ~> (local_versions[n] >= k)

=============================================================================
