\* Liveness of updates and reads: two nodes, two update ids, one read id,
\* one op value each; two log entries keep the temporal check in bounds.
CONSTANTS
  NumReplicas = 2
  UpdateReqIds = {0, 1}
  ReadReqIds = {0}
  UpdateOps <- MCOneUpdateOp
  ReadonlyOps <- MCReadonlyOps
  MaxLog = 2
SPECIFICATION FairSpec
PROPERTY UpdateEventuallyDone
PROPERTY ReadEventuallyDone
PROPERTY ReplicasConverge
