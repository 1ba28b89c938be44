SPECIFICATION Spec
CONSTANTS
  nic1 = nic1
  nic2 = nic2
  nic3 = nic3
  Cards = {nic1, nic2, nic3}
  Id <- MCId
  Parameters <- MCParameters
  DefaultPages = 2
  Word = 16
  Queues = 2
  PageSize = 2
  Pool = 6
  MaxNic = 4
  None = None
\* the life of the module ends: unloaded, failed or crashed
CHECK_DEADLOCK FALSE
INVARIANT TypeOK
INVARIANT NumbersFixed
INVARIANT PoolShared
INVARIANT QueuesExact
PROPERTY NumberIsKept
