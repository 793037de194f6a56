\* Reads after an update that waited for the lock in vain.
SPECIFICATION PartSpec
CONSTANTS
  client1 = client1  client2 = client2  id1 = id1  id2 = id2  id3 = id3  id4 = id4
  hat = hat  coat = coat  doc = doc  x = x  y = y
  Usaf = Usaf  USAF = USAF  Api = Api  usaf = usaf  api = api
  None = None  Blank = Blank  Begun = Begun
  Client = {client1, client2}
  Id = {id1, id2, id3}
  Spo = {hat, coat}
  Date = {}
  Doc = {doc}
  TypeOf <- Types
  Selectors <- Marks
  MaxTimeouts = 1
  Name = {Usaf, USAF, Api}
  Normal <- LowerCase
  Text = {x, y}
  Edge = {id1, id2, id3, id4}
  Entity <- Entities
  Graphs <- AllGraphs
  Queries <- AllQueries
  MaxDepth = 2
  Limit = 4
  MaxVisited = 3
PROPERTY DeletedIsNotFound
\* A search ends.
CHECK_DEADLOCK FALSE
