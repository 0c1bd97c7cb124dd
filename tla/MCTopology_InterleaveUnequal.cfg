\* Interleave on sockets with different core counts.
CONSTANTS
  Machines <- MCUnequalMachines
  MaxThreads = 6
SPECIFICATION Spec
INVARIANT AllocateSound
\* allocate returns and the program has its answer: the state after the
\* call has no successor by design.
CHECK_DEADLOCK FALSE
