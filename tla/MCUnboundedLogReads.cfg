\* Reads racing the combiners: two nodes, three log entries, two update ids
\* and one read id, both recycled.
CONSTANTS
  NumReplicas = 2
  UpdateReqIds = {0, 1}
  ReadReqIds = {0}
  UpdateOps <- MCOneUpdateOp
  ReadonlyOps <- MCReadonlyOps
  MaxLog = 3
SPECIFICATION Spec
INVARIANT ReadonlyRequestsWf
PROPERTY RefinesAbstractLog
