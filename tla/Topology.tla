------------------------------ MODULE Topology ------------------------------
(***************************************************************************)
(* CPU allocation of the benchmark harness                                *)
(* (src/benchmarks/lib/bench_utils/src/topology.rs, MachineTopology).     *)
(* MachineTopology::new lists the processing units (PUs) hwloc reports in *)
(* its logical order: socket by socket, core by core, the hyperthreads of  *)
(* a core together.  The model builds that list from a machine shape      *)
(* (cores per socket, threads per core, how the OS numbers the PUs, and   *)
(* whether a socket is split into two NUMA nodes); allocate and the       *)
(* cpus_on_* filters are operators over it, and one step of the spec      *)
(* calls allocate on a request.  L1/L2/L3 ids are left out: no strategy   *)
(* reads them.                                                            *)
(***************************************************************************)
EXTENDS Naturals, FiniteSets, Sequences, SequencesExt, Functions

CONSTANTS
  Machines,    \* set of machine shapes [cores, threads, numbering, snc]
  MaxThreads   \* bound on how_many

Strategies == {"None", "Sequential", "NUMAFill", "Interleave"}

VARIABLES
  shape,       \* the machine
  strategy,    \* ThreadMapping
  how_many,
  use_ht,
  result,      \* [ok, cpus]: ok is FALSE when allocate panics
  returned

vars == <<shape, strategy, how_many, use_ht, result, returned>>

-----------------------------------------------------------------------------
(* MachineTopology::new: the CpuInfo list in hwloc order.  core is the     *)
(* machine-wide logical core index; cpu is the OS index, numbered either   *)
(* with hyperthread siblings adjacent or offset by the number of cores.    *)

TotalCores(sh) == FoldSeq(LAMBDA a, b : a + b, 0, sh.cores)
CoreBase(sh, s) == FoldSeq(LAMBDA a, b : a + b, 0, SubSeq(sh.cores, 1, s))

PU(sh, s, j, t) ==
  LET core == CoreBase(sh, s) + j IN
  [socket |-> s,
   core   |-> core,
   cpu    |-> IF sh.numbering = "adjacent" THEN core * sh.threads + t
                                           ELSE core + t * TotalCores(sh),
   node   |-> IF sh.snc THEN 2 * s + (j % 2) ELSE s]

data(sh) ==
  FlattenSeq([s \in 1 .. Len(sh.cores) |->
    FlattenSeq([j \in 1 .. sh.cores[s] |->
      [t \in 1 .. sh.threads |-> PU(sh, s - 1, j - 1, t - 1)]])])

-----------------------------------------------------------------------------
(* Vec::sort_by / sort_by_key are stable sorts: an element's position is   *)
(* the number of elements ordered before it, ties broken by position.     *)
StableSort(seq, Lt(_, _)) ==
  LET pos(j) == Cardinality({i \in DOMAIN seq :
                   Lt(seq[i], seq[j]) \/ (~Lt(seq[j], seq[i]) /\ i < j)}) + 1
  IN [k \in DOMAIN seq |-> seq[CHOOSE j \in DOMAIN seq : pos(j) = k]]

ByCore(a, b) == a.core < b.core
BySocket(a, b) == a.socket < b.socket
BySocketThenCpu(a, b) == a.socket < b.socket \/ (a.socket = b.socket /\ a.cpu < b.cpu)

(* Vec::dedup_by(|a, b| a.core == b.core): drop an element whose core is   *)
(* that of the element before it.                                         *)
DedupByCore(seq) ==
  LET keep == SelectSeq([i \in DOMAIN seq |-> i],
                        LAMBDA i : i = 1 \/ seq[i - 1].core # seq[i].core)
  IN [k \in DOMAIN keep |-> seq[keep[k]]]

Take(seq, n) == SubSeq(seq, 1, IF n < Len(seq) THEN n ELSE Len(seq))

sockets(d) == SetToSortSeq({c.socket : c \in ToSet(d)}, <)
nodes(d) == SetToSortSeq({c.node : c \in ToSet(d)}, <)

cpus_on_node(d, node) == SelectSeq(d, LAMBDA t : t.socket = node)
cpus_on_socket(d, socket) == SelectSeq(d, LAMBDA t : t.socket = socket)

-----------------------------------------------------------------------------
(* allocate *)

(* Without use_ht only the first PU of each core is kept.                  *)
usable(d, ht) == IF ht THEN d ELSE DedupByCore(StableSort(d, ByCore))

(* ht1: one PU per core in core order; ht2: the remaining PUs, in the      *)
(* order of cpus (Vec::contains compares the whole CpuInfo).              *)
cores_first(cpus) == DedupByCore(StableSort(cpus, ByCore))
siblings(cpus) == SelectSeq(cpus, LAMBDA c : c \notin ToSet(cores_first(cpus)))

\* mutant: the hyperthread list takes every PU, not only those left out of ht1
interleave_order_MutAllSiblings(cpus) == cores_first(cpus) \o StableSort(cpus, ByCore)

interleave_order(cpus) == cores_first(cpus) \o StableSort(siblings(cpus), ByCore)

(* The Interleave loop: give each PU to its socket until the socket holds  *)
(* cpus_per_socket PUs, stopping once how_many are placed.                 *)
RECURSIVE interleave_loop(_, _, _, _, _)
interleave_loop(list, allocated, num_alloc_cpus, n, per) ==
  IF list = <<>> \/ num_alloc_cpus = n THEN allocated
  ELSE LET cpu == Head(list) IN
       IF Len(allocated[cpu.socket]) = per
       THEN interleave_loop(Tail(list), allocated, num_alloc_cpus, n, per)
       ELSE interleave_loop(Tail(list),
                            [allocated EXCEPT ![cpu.socket] = Append(@, cpu)],
                            num_alloc_cpus + 1, n, per)

alloc_interleave(d, cpus, n) ==
  LET socks == sockets(d)
      per   == (n + Len(socks) - 1) \div Len(socks)
      alloc == interleave_loop(interleave_order(cpus),
                               [s \in 0 .. Len(socks) - 1 |-> <<>>], 0, n, per)
      c     == FlattenSeq([i \in 1 .. Len(socks) |-> alloc[i - 1]])
  IN [ok |-> Len(c) = n, cpus |-> c]

alloc_sequential(cpus, n) == [ok |-> TRUE, cpus |-> Take(StableSort(cpus, BySocketThenCpu), n)]

\* mutant: the PUs are only sorted by socket, without splitting off the siblings
alloc_numafill_MutNoSplit(cpus, n) == [ok |-> TRUE, cpus |-> Take(StableSort(cpus, BySocket), n)]

alloc_numafill(cpus, n) ==
  [ok |-> TRUE,
   cpus |-> Take(StableSort(cores_first(cpus), BySocket)
                   \o StableSort(siblings(cpus), BySocket), n)]

allocate(d, strat, n, ht) ==
  LET cpus == usable(d, ht) IN
  CASE strat = "None"       -> [ok |-> TRUE, cpus |-> <<>>]
    [] strat = "Interleave" -> alloc_interleave(d, cpus, n)
    [] strat = "Sequential" -> alloc_sequential(cpus, n)
    [] strat = "NUMAFill"   -> alloc_numafill(cpus, n)

-----------------------------------------------------------------------------
(* A caller picks a machine and a request; one step runs allocate.  After  *)
(* it the program has its answer and nothing follows.                      *)

Init ==
  /\ shape \in Machines
  /\ strategy \in Strategies
  /\ how_many \in 0 .. MaxThreads
  /\ use_ht \in BOOLEAN
  /\ result = [ok |-> TRUE, cpus |-> <<>>]
  /\ returned = FALSE

call_allocate ==
  /\ ~returned
  /\ result' = allocate(data(shape), strategy, how_many, use_ht)
  /\ returned' = TRUE
  /\ UNCHANGED <<shape, strategy, how_many, use_ht>>

Next == call_allocate

Spec == Init /\ [][Next]_vars

-----------------------------------------------------------------------------
(* Properties *)

(* A hyperthread sibling: a PU that is not the first PU hwloc lists for    *)
(* its core.                                                               *)
IsSibling(d, c) == \E i, j \in DOMAIN d : i < j /\ d[j] = c /\ d[i].core = c.core

(* allocate hands out how_many distinct PUs of the machine (all of them if *)
(* the machine has fewer), one per core unless use_ht, without panicking:  *)
(* what a benchmark relies on when it pins one thread per returned CPU.    *)
(* Interleave asserts the count, so it is only asked for what exists.      *)
AllocateSound ==
  LET d == data(shape)
      u == usable(d, use_ht)
  IN
  (returned /\ strategy # "None"
            /\ (strategy = "Interleave" => how_many <= Len(u))) =>
    /\ result.ok
    /\ Len(result.cpus) = IF how_many < Len(u) THEN how_many ELSE Len(u)
    /\ IsInjective(result.cpus)
    /\ ToSet(result.cpus) \subseteq ToSet(u)

(* Spec section 6 (topology query) and the comment in the Sequential arm:  *)
(* hyperthreads are consumed last, i.e. no strategy places a thread on a   *)
(* core's sibling while a core of the same socket is still unused.         *)
HyperthreadsLast ==
  returned =>
    \A c \in ToSet(result.cpus) : IsSibling(data(shape), c) =>
      \A p \in ToSet(data(shape)) : p.socket = c.socket =>
        \E q \in ToSet(result.cpus) : q.core = p.core

(* The NUMAFill arm's comment ("all cores sorted by socket, then all       *)
(* hyperthreads sorted by socket") and spec section 6 (hyperthreads        *)
(* consumed last, ties broken by socket): a usable PU that comes before a  *)
(* chosen one in that order is chosen too, so the first socket is filled   *)
(* with cores before the next, and no sibling is taken while a core of     *)
(* any socket is free.  The code gets this from two stable sorts of lists  *)
(* that dedup_by and contains split, on every OS numbering.                *)
FillsBefore(d, p, c) ==
  \/ ~IsSibling(d, p) /\ IsSibling(d, c)
  \/ IsSibling(d, p) = IsSibling(d, c) /\ p.socket < c.socket

NumaFillOrder ==
  LET d == data(shape) IN
  (returned /\ strategy = "NUMAFill") =>
    \A c \in ToSet(result.cpus), p \in ToSet(usable(d, use_ht)) :
      FillsBefore(d, p, c) => p \in ToSet(result.cpus)

(* Interleave spreads the threads over the sockets: cpus_per_socket caps  *)
(* every socket at how_many / num_sockets rounded up while the loop walks *)
(* the cores of socket 0 first, and on equal sockets no socket ends up    *)
(* with more than one PU more than another.                               *)
OnSocket(cpus, s) == Cardinality({i \in DOMAIN cpus : cpus[i].socket = s})

=============================================================================
