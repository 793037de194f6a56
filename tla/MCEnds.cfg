\* Three requests, two calls, a query and a writer, and two tasks.
SPECIFICATION PartSpec
CONSTANTS
  p1 = p1  p2 = p2  t1 = t1  t2 = t2  t3 = t3  i = i  j = j  k = k  None = None
PROPERTIES RequestsAreServed LockCallsEnd VocabCallsEnd Recovers
\* Requests and calls of most parts are made once.
CHECK_DEADLOCK FALSE
