\* Updates and combiners only: two nodes, three log entries, two update ids.
CONSTANTS
  NumReplicas = 2
  UpdateReqIds = {0, 1}
  ReadReqIds = {}
  UpdateOps <- MCUpdateOps
  ReadonlyOps <- MCReadonlyOps
  MaxLog = 3
SPECIFICATION Spec
INVARIANT TypeOK
INVARIANT CombinerQueueMatchesLog
INVARIANT ReplicaIsLogPrefix
INVARIANT VersionsInRange
PROPERTY RefinesAbstractLog
