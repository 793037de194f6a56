------------------------------ MODULE FactGraph ------------------------------
(***************************************************************************)
(* The breadth-first search of FactStore.find_connections                  *)
(* (facts/database.py) over the table of adjacencies, while other writers  *)
(* delete facts.                                                           *)
(*                                                                         *)
(* An entity is a name with a type. The order in which SQL returns rows is *)
(* not determined. A fact has one row for its subject and one for its      *)
(* object, so that there is one other row for each fact of an entity.      *)
(***************************************************************************)
EXTENDS Naturals, FiniteSets, Sequences, SequencesExt

CONSTANTS Fact,
          Entity,       \* records [name, type]
          Graphs,       \* the tables to start from: functions from facts to [s, o]
          Queries,      \* the searches: [name, type, target, ttype], None where not given
          MaxDepth,     \* max_depth
          Limit,        \* limit
          MaxVisited,   \* MAX_BFS_VISITED
          None

GraphAssumption ==
  /\ MaxDepth \in 1 .. 10 /\ Limit \in Nat \ {0} /\ MaxVisited \in Nat
  /\ IsFiniteSet(Fact) /\ None \notin [at : Entity, path : Seq(Fact)]
  /\ \A g \in Graphs : DOMAIN g \subseteq Fact /\ \A f \in DOMAIN g : {g[f].s, g[f].o} \subseteq Entity

VARIABLES
  graph,      \* entity_adjacency and facts as they were when the search began
  stored,     \* the facts of graph that have not been deleted
  query,
  queue,      \* of records [at, path]
  visited, collected, paths,
  node,       \* the element of the queue whose facts are looked at
  rows,       \* the facts of node that are left
  pc

vars == <<graph, stored, query, queue, visited, collected, paths, node, rows, pc>>

-----------------------------------------------------------------------------
Ends(f) == {graph[f].s, graph[f].o}
FactsOf(e) == {f \in stored : e \in Ends(f)}

\* The entity of the row that is not the one of e in the role that was selected.
Other(f, e) == IF graph[f].o = e THEN graph[f].s ELSE graph[f].o

Named(e, name, type) == e.name = name /\ type \in {None, e.type}
Starts(g, q) == {e \in UNION {{g[f].s, g[f].o} : f \in DOMAIN g} : Named(e, q.name, q.type)}
Found(e) == Named(e, query.target, query.ttype)

Init ==
  /\ graph \in Graphs /\ stored = DOMAIN graph /\ query \in Queries
  /\ visited = Starts(graph, query) /\ collected = visited
  /\ queue \in {[n \in DOMAIN s |-> [at |-> s[n], path |-> <<>>]] : s \in SetToSeqs(visited)}
  /\ paths = <<>> /\ node = None /\ rows = {} /\ pc = "search"

\* The safety check: no more entities are searched from.
TooMany == Cardinality(visited) > MaxVisited

\* Mutant of Pop: the entity stays in the queue.
PopKeeps ==
  /\ pc = "search" /\ node = None /\ queue # <<>> /\ Len(paths) < Limit /\ ~TooMany
  /\ node' = Head(queue) /\ rows' = FactsOf(Head(queue).at)
  /\ UNCHANGED <<graph, stored, query, queue, visited, collected, paths, pc>>

\* The next entity of the queue, and its facts.
Pop ==
  /\ pc = "search" /\ node = None /\ queue # <<>> /\ Len(paths) < Limit /\ ~TooMany
  /\ queue' = Tail(queue)
  /\ IF Len(Head(queue).path) >= MaxDepth
     THEN UNCHANGED <<node, rows>>
     ELSE node' = Head(queue) /\ rows' = FactsOf(Head(queue).at)
  /\ UNCHANGED <<graph, stored, query, visited, collected, paths, pc>>

\* Mutant of Wanted: entities that are to be searched from are not returned again.
WantedUnvisited(e) == IF query.target = None THEN e \notin visited ELSE Found(e)

\* Mutant of Wanted: the type of the target is left out.
WantedByName(e) ==
  IF query.target = None THEN e \notin collected ELSE e.name = query.target

\* A path that ends at e is returned.
Wanted(e) == IF query.target = None THEN e \notin collected ELSE Found(e)

\* Mutant of Enqueue: the depth is one more.
EnqueueDeeper(e, path) ==
  IF Len(path) <= MaxDepth /\ e \notin visited
  THEN /\ visited' = visited \cup {e}
       /\ queue' = Append(queue, [at |-> e, path |-> path])
  ELSE UNCHANGED <<visited, queue>>

\* Mutant of Enqueue: the depth is one less.
EnqueueShallow(e, path) ==
  IF Len(path) < MaxDepth - 1 /\ e \notin visited
  THEN /\ visited' = visited \cup {e}
       /\ queue' = Append(queue, [at |-> e, path |-> path])
  ELSE UNCHANGED <<visited, queue>>

\* e is searched from later.
Enqueue(e, path) ==
  IF Len(path) < MaxDepth /\ e \notin visited
  THEN /\ visited' = visited \cup {e}
       /\ queue' = Append(queue, [at |-> e, path |-> path])
  ELSE UNCHANGED <<visited, queue>>

\* One fact of the entity: its path may be returned, for which its facts are read,
\* and the search may go on from its other end.
Follow(f) ==
  /\ pc = "search" /\ f \in rows /\ f \in stored /\ ~Contains(node.path, f)
  /\ Len(paths) < Limit /\ rows' = rows \ {f} /\ UNCHANGED <<graph, stored, query, node, pc>>
  /\ LET e == Other(f, node.at)
         path == Append(node.path, f)
     IN /\ IF Wanted(e)
           THEN /\ ToSet(path) \subseteq stored
                /\ paths' = Append(paths, path)
                /\ collected' = IF query.target = None THEN collected \cup {e} ELSE collected
           ELSE UNCHANGED <<paths, collected>>
        /\ IF Len(paths') < Limit THEN Enqueue(e, path) ELSE UNCHANGED <<visited, queue>>

\* A fact that was found before, or has been deleted since.
Skip(f) ==
  /\ pc = "search" /\ f \in rows /\ Len(paths) < Limit
  /\ Contains(node.path, f) \/ f \notin stored
  /\ rows' = rows \ {f}
  /\ UNCHANGED <<graph, stored, query, queue, visited, collected, paths, node, pc>>

\* FactNotFoundError: a fact of the path has been deleted, or f has after its rows
\* were looked at.
Raise(f) ==
  /\ pc = "search" /\ f \in rows /\ ~Contains(node.path, f) /\ Len(paths) < Limit
  /\ f \in stored =>
       Wanted(Other(f, node.at)) /\ ~(ToSet(node.path) \subseteq stored)
  /\ pc' = "raised"
  /\ UNCHANGED <<graph, stored, query, queue, visited, collected, paths, node, rows>>

\* All facts of the entity have been looked at, or enough paths are found.
Leave ==
  /\ pc = "search" /\ node # None /\ (rows = {} \/ Len(paths) >= Limit)
  /\ node' = None /\ rows' = {}
  /\ UNCHANGED <<graph, stored, query, queue, visited, collected, paths, pc>>

\* Nothing is left to search from, or enough paths or too many entities are found.
Return ==
  /\ pc = "search" /\ node = None /\ (queue = <<>> \/ Len(paths) >= Limit \/ TooMany)
  /\ pc' = "done"
  /\ UNCHANGED <<graph, stored, query, queue, visited, collected, paths, node, rows>>

\* Another writer.
Delete(f) ==
  /\ pc = "search" /\ f \in stored /\ stored' = stored \ {f}
  /\ UNCHANGED <<graph, query, queue, visited, collected, paths, node, rows, pc>>

Search == Pop \/ (\E f \in Fact : Follow(f) \/ Skip(f) \/ Raise(f)) \/ Leave \/ Return

Next == Search \/ \E f \in Fact : Delete(f)

Spec == Init /\ [][Next]_vars
FairSpec == Spec /\ WF_vars(Search)

-----------------------------------------------------------------------------
TypeOK ==
  /\ collected \subseteq Entity /\ visited \subseteq Entity /\ rows \subseteq Fact
  /\ stored \subseteq DOMAIN graph /\ pc \in {"search", "done", "raised"} /\ Len(paths) <= Limit
  /\ \A n \in DOMAIN queue : queue[n].at \in visited /\ Len(queue[n].path) < MaxDepth
  /\ \A n \in DOMAIN paths : Len(paths[n]) \in 1 .. MaxDepth

\* What is reached from the entities that are asked for by n facts of F at the most.
Neighbours(F, R) == UNION {Ends(f) : f \in {g \in F : Ends(g) \cap R # {}}}
Within(F, n) ==
  LET Reached[m \in 0 .. MaxDepth] ==
        IF m = 0 THEN Starts(graph, query) ELSE Reached[m - 1] \cup Neighbours(F, Reached[m - 1])
  IN Reached[n]

\* e is not nearer to them than n facts, of those that are left.
NoNearer(e, n) == n > 0 => e \notin Within(stored, n - 1)

\* The ends of the walks from there along path p.
Across(f, E) == {Other(f, e) : e \in E \cap Ends(f)}
Walk(p) ==
  LET Stops[n \in 0 .. Len(p)] ==
        IF n = 0 THEN Starts(graph, query)
        ELSE Across(p[n], Stops[n - 1])
  IN Stops[Len(p)]

\* The search has not been cut short.
Complete == pc = "done" /\ Len(paths) < Limit /\ (queue = <<>> \/ ~TooMany)

(* Every path that is returned leads along distinct facts from the entity  *)
(* asked for to the target, and a search fails only if a fact was deleted. *)
PathsConnect ==
  /\ \A n \in DOMAIN paths :
       IsInjective(paths[n]) /\ \E e \in Walk(paths[n]) : query.target # None => Found(e)
  /\ pc = "raised" => stored # DOMAIN graph

(* Without a target, exactly one path is returned to each of some          *)
(* entities, and if the search is not cut short these are all in reach     *)
(* that are left: an entity at the last depth is neither missed nor        *)
(* returned twice. A path is no longer than the way that is left.          *)
ReachesEachOnce ==
  query.target = None =>
    LET R == collected \ Starts(graph, query)
    IN /\ Len(paths) = Cardinality(R)
       /\ \A e \in R : \E n \in DOMAIN paths : e \in Walk(paths[n]) /\ NoNearer(e, Len(paths[n]))
       /\ Complete => Within(stored, MaxDepth) \subseteq collected

(* With a target, a search that is not cut short finds it if it is left in *)
(* reach, and none by a longer path than the way that is left, cycles or   *)
(* not.                                                                    *)
FindsTarget ==
  query.target # None =>
    \A e \in Within(stored, MaxDepth) \ Starts(graph, query) : Found(e) =>
      /\ Complete => paths # <<>>
      /\ paths # <<>> => NoNearer(e, Len(paths[1]))

(* "returns single-fact paths to all reachable entities": without a target *)
(* every path has one fact.                                                *)
SingleFactPaths == query.target = None => \A n \in DOMAIN paths : Len(paths[n]) = 1

(* A target in reach is found on any graph. (It does not hold: a search is *)
(* cut short at MAX_BFS_VISITED.)                                          *)
AlwaysFound ==
  pc = "done" /\ query.target # None =>
    \A e \in Within(stored, MaxDepth) \ Starts(graph, query) : Found(e) => paths # <<>>

(* The search ends on every graph, also while facts are deleted.           *)
SearchEnds == <>(pc # "search")

-----------------------------------------------------------------------------
(* The strengthening that makes these inductive. Facts may be deleted: what *)
(* is in reach becomes less, and what is said of it stays true.            *)
Items == [at : Entity, path : Seq(Fact)]
Typed ==
  /\ DOMAIN graph \subseteq Fact /\ stored \subseteq DOMAIN graph
  /\ \A f \in DOMAIN graph : Ends(f) \subseteq Entity
  /\ visited \subseteq Entity /\ collected \subseteq Entity /\ rows \subseteq Fact
  /\ queue \in Seq(Items) /\ paths \in Seq(Seq(Fact)) /\ node \in Items \cup {None}
  /\ pc \in {"search", "done", "raised"} /\ Len(paths) <= Limit
  /\ \A n \in DOMAIN queue : queue[n].at \in visited /\ Len(queue[n].path) < MaxDepth
  /\ node # None => node.at \in visited /\ Len(node.path) < MaxDepth
  /\ node = None => rows = {}
  /\ \A n \in DOMAIN paths : Len(paths[n]) \in 1 .. MaxDepth

\* An entity from which the search goes on, and how it came there.
Ready(i) ==
  /\ i.at \in visited /\ NoNearer(i.at, Len(i.path)) /\ i.at \in Walk(i.path)
  /\ IsInjective(i.path)
  /\ \A n \in 1 .. Len(i.path) : i.path[n] \in DOMAIN graph /\ Ends(i.path[n]) \subseteq visited

\* Breadth first: paths in the queue get longer, by one fact at the most.
Follows(i, j) == Len(j.path) \in {Len(i.path), Len(i.path) + 1}
QueueOK ==
  /\ \A n \in DOMAIN queue : Ready(queue[n])
  /\ \A m, n \in DOMAIN queue : m <= n => Follows(queue[m], queue[n])
NodeOK ==
  node # None =>
    /\ Ready(node) /\ \A f \in rows : f \in DOMAIN graph /\ node.at \in Ends(f)
    /\ \A n \in DOMAIN queue : Follows(node, queue[n])

\* e has been returned, if it is to be, and will be searched from, unless it is too far.
Told(e) ==
  IF query.target = None THEN e \in collected
  ELSE Found(e) => e \in Starts(graph, query) \/ paths # <<>>
Met(e) == Told(e) /\ (e \in visited \/ e \notin Within(stored, MaxDepth - 1))

\* All entities are met that a fact of e leads to, but for the facts in F.
Expanded(e, F) == \A f \in FactsOf(e) \ F : \A o \in Ends(f) : Met(o)
VisitedOK ==
  /\ Starts(graph, query) \subseteq visited /\ \A e \in visited : Told(e)
  /\ Len(paths) < Limit => \A e \in visited :
       \/ \E n \in DOMAIN queue : queue[n].at = e
       \/ node # None /\ node.at = e /\ Expanded(e, rows)
       \/ Expanded(e, {})

\* Where a path leads that is returned.
ListOK ==
  LET R == collected \ Starts(graph, query)
  IN /\ Starts(graph, query) \subseteq collected
     /\ IsFiniteSet(R) /\ Cardinality(R) = Len(paths)
     /\ \A e \in R : \E n \in DOMAIN paths : e \in Walk(paths[n]) /\ NoNearer(e, Len(paths[n]))
FirstOK ==
  paths # <<>> =>
    \A e \in Within(stored, Len(paths[1]) - 1) \ Starts(graph, query) : ~Found(e)

DoneOK == pc = "done" => node = None /\ (queue = <<>> \/ Len(paths) >= Limit \/ TooMany)

IInv ==
  /\ Typed /\ QueueOK /\ NodeOK /\ VisitedOK /\ PathsConnect /\ DoneOK
  /\ IF query.target = None THEN ListOK ELSE FirstOK
=============================================================================
