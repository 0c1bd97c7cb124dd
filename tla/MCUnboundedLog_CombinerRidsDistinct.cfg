CONSTANTS
  NumReplicas = 2
  UpdateReqIds = {0, 1}
  ReadReqIds = {}
  UpdateOps <- MCOneUpdateOp
  ReadonlyOps <- MCReadonlyOps
  MaxLog = 3
SPECIFICATION Spec
INVARIANT CombinerRidsDistinct
