\* Sibling PUs are used only after the cores of their socket.
CONSTANTS
  Machines <- MCEqualMachines
  MaxThreads = 6
SPECIFICATION Spec
INVARIANT HyperthreadsLast
\* allocate returns and the program has its answer: the state after the
\* call has no successor by design.
CHECK_DEADLOCK FALSE
