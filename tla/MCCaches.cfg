\* Two writers and a query, and two queries; a cache of three; three threads; three tasks.
SPECIFICATION PartSpec
CONSTANTS
  p = p  q = q  r1 = r1  r2 = r2  w = w  x = x
  Proc = {p, q}
  Thread = {r1, r2, w, x}
  ProcOf <- Homes
  Reader = {r1, r2}
  Writer = {w, x}
  Ttl = 1
  MaxRevision = 2
  MaxTime = 3
  None = None
  Key = {r1, r2, w, x}
  MaxSize = 3
  Batch = 2
  Lifetime = 1
  Prefix = {{r1, r2}}
  LastTime = 2
  Caller = {r1, w, x}
  Instance = {p, q, r1, w, x}
  Task = {r1, w, x}
  LoopOf <- OneLoop
  Product = {p, q, r1, w}
  MaxRetries = 1
  Delay = 2
INVARIANTS WritesAreSeen SeenWithinTtl CachesAreSound ThreadsShareOne
PROPERTIES MemoryIsInOrder TasksShareOne
CHECK_DEADLOCK FALSE
