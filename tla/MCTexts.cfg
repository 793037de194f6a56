\* Two calls with texts in common and a cache that may fail.
SPECIFICATION Spec
CONSTANTS
  c1 = c1  c2 = c2  one = one  two = two  other = other  huge = huge
  Call = {c1, c2}
  Text = {one, two, other, huge}
  Bytes <- Sizes
  Budget = 3
  BatchSize = 2
  Concurrency = 2
  None = None
  Inputs <- Repeated
  Caching = TRUE
INVARIANTS TextsAreAnswered
\* Calls are made once.
CHECK_DEADLOCK FALSE
