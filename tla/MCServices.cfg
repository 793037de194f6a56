\* Two or three calls of each service.
SPECIFICATION PartSpec
CONSTANTS
  t1 = t1  t2 = t2  t3 = t3  apple = apple  pear = pear  plum = plum
  id1 = id1  id2 = id2  id3 = id3
  Caller = {t1, t2}
  Texts <- TwoAndOne
  Threshold = 2
  Reset = 2
  MaxRetries = 1
  NotSet = NotSet
  Asker = {t1, t2, t3}
  Text = {apple, pear, plum}
  LoopOf <- OneLoop
  MaxSize = 2
  MaxFaults = 2
  Dim = 3
  None = None
  Server = {t1, t2}
  Fields <- Common
  MaxLost = 2
  Call = {t1, t2}
  Batches = 3
  Concurrency = 2
  MaxAttempts = 2
  Char <- Letters
  Strings <- Words
  Contexts <- SomePrefixes
  Limits <- AllLimits
  BytesOf <- Width
  TokensOf <- Tokens
  Merged <- OnePair
  Density = 2
INVARIANTS CircuitFollowsTheService QueriesShareCalls LastCallWins EnsuredIsIndexed SplitsFit
PROPERTY EveryCallEnds
\* Some calls are made once.
CHECK_DEADLOCK FALSE
