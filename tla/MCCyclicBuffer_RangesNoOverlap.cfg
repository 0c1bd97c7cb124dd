CONSTANTS
  BufferSize = 2
  NumReplicas = 2
  MaxTail = 4
SPECIFICATION Spec
INVARIANT ranges_no_overlap
