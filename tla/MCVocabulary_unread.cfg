\* A pass over the facts of which it cannot read all.
SPECIFICATION PartSpec
CONSTANTS
  a = a  b = b  f1 = f1  f2 = f2  x = x  y = y  empty = empty  Absent = Absent  None = None
  Codebase = {a, b}
  Token = {x, y}
  MaxInteger = 3
  MaxUpdate = 1
  MaxResidue = 1
  Fact = {f1, f2}
  FactText = {{x}, {x, y}}
  MaxFaults = 2
  Client = {a, b}
  Id = {f1, f2}
  EntryText = {x, y}
  Thread = {a, b}
  Legacy = {f1}
  Current = {x, y}
  MaxEntries = 1
  Slack = 0
  MaxTime = 1
  MaxLookups = 1
  File = {f1, f2}
  Content = {x, y, empty}
  Size <- SizeOf
  LastTime = 1
  MaxEdits = 3
  MaxErrors = 1
PROPERTY PassAccountsForPoints
