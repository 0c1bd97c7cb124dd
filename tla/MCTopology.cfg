\* Every strategy on machines with equal sockets.
CONSTANTS
  Machines <- MCEqualMachines
  MaxThreads = 6
SPECIFICATION Spec
INVARIANT AllocateSound
INVARIANT NumaFillOrder
 
\* allocate returns and the program has its answer: the state after the
\* call has no successor by design.
CHECK_DEADLOCK FALSE
