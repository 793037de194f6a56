\* Two replacements of one source, every failure and one crash each; tasks that use the
\* client; a process that forks while it locks a file; two rankings of three points.
SPECIFICATION PartSpec
CONSTANTS
  w1 = w1  w2 = w2  old = old  new = new  again = again  blank = blank  c = c  f = f  g = g
  t = t  u = u  p1 = p1  p2 = p2  t1 = t1  t2 = t2  t3 = t3
  Writer = {w1, w2}
  Id = {c, f, g}
  Version = {blank, old, new, again}
  IdsOf <- Ids
  Writes <- TwoWrites
  Initial = {blank, old}
  Absent = Absent
  Keep = Keep
  NoWriter = NoWriter
  Task = {t, u}
  Clients = 6
  MaxChecks = 3
  NoClient = NoClient
  Process = {p1, p2}
  Locker = {t1, t2, t3}
  OwnerOf <- HomeForked
  Shared = {t2, t3}
  Async = {t1}
  First = {p1}
  MaxInode = 2
  Point <- Keys
  Grouping <- Pairs
  MaxRanking = 3
  Weights = {0, 1, 2}
  RrfK = {0, 2}
  ServerK = 1
  ResultLimit = {2}
  PrefetchLimit = {2, 3}
  Path = {"search", "grouped", "results", "fuse"}
  NoResult = NoResult
INVARIANTS WholeOrJournaled JournalIsInOrder ClientsAreKept FileLocksHold FusionIsFair
PROPERTIES OutcomeIsTold EveryCallEnds
\* Writers may have ended, and no client is made beyond the bound.
CHECK_DEADLOCK FALSE
