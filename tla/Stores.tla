------------------------------- MODULE Stores --------------------------------
(***************************************************************************)
(* The store of facts, and beside it, each with state of its own, the one  *)
(* of glossary entries and the search over a graph of facts.               *)
(***************************************************************************)
EXTENDS FactStore

CONSTANTS Name, Normal, Text
VARIABLES entries, aliases, call, lock, exclusive, raised

Names == INSTANCE GlossaryStore WITH op <- call

CONSTANTS Edge, Entity, Graphs, Queries, MaxDepth, Limit, MaxVisited
VARIABLES graph, stored, query, queue, visited, collected, paths, node, rows, pc

Graph == INSTANCE FactGraph WITH Fact <- Edge

-----------------------------------------------------------------------------
(* Under the lock, a name is the term or an alias of one entry at most and *)
(* the hash of an entry is that of what is stored.                         *)
NamesMeanOne == Names!NamesMeanOne

(* While facts are deleted: every path leads along distinct facts to what  *)
(* was asked for. What is left in reach is found, by one path to each      *)
(* entity or one to the target, unless a limit cuts the search short.      *)
PathsAreFound ==
  /\ Graph!TypeOK /\ Graph!PathsConnect
  /\ Graph!ReachesEachOnce /\ Graph!FindsTarget
=============================================================================
