\* A process that forks and whose tasks run on in its child, and two that share two slots.
SPECIFICATION PartSpec
CONSTANTS
  p1 = p1  p2 = p2  q1 = q1  q2 = q2  d1 = d1  d2 = d2
  NoTask = NoTask
  Proc = {p1, p2}
  Started = {p1}
  Query = {q1}
  Document = {d1}
  Repeating = {}
  HomeOf <- HomeOneProcess
  Capacity = 1
INVARIANTS CapacityKept LocksAreAccounted
PROPERTIES PriorityIsKept SharedPriorityIsKept
\* Requests are made once.
CHECK_DEADLOCK FALSE
