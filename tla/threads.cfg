SPECIFICATION ThreadsSpec
CONSTANTS
  a = a
  b = b
  p1 = p1
  p2 = p2
  Executor = Executor
  Raw = Raw
  Items = {a, b}
  Readers = {Executor}
  Producers = {p1, p2}
  BlockSize = 2
  MaxItems = 5
  t1 = t1
  Issuers = {t1}
  MaxIssued = 2
  RetryInterval = 1
  HardDeadline = 2
  CacheSize = 1
  LastIssue = 1
  MaxTime = 3
  MaxProcessed = 3
INVARIANTS
  IteratorsReadWhatWasPushed
  RunInOrder
  HandledOnce
  ResolvedProperly
PROPERTIES
  QueueContract
  ImplementsNumberedQueue
  CallbacksRun
  ExecutorStops
  RequestsResolved
CHECK_DEADLOCK FALSE
