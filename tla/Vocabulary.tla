----------------------------- MODULE Vocabulary ------------------------------
(***************************************************************************)
(* The vocabulary tables and the indexing that fills them: the indexers of *)
(* facts and of the glossary, the cache of the embeddings of their texts,  *)
(* and the files that a server finds changed. Each has state of its own.   *)
(***************************************************************************)
EXTENDS VocabTables

CONSTANTS Fact, FactText, Absent, MaxFaults
VARIABLES point, vec, known, freq, docs, pc, call, lost, unread, faults

Facts == INSTANCE FactIndex WITH Text <- FactText

CONSTANTS Client, Id, EntryText, None
VARIABLES store, points, vocabulary, lock, tool, stale, failures

Glossary == INSTANCE GlossaryIndex
  WITH Text <- EntryText, op <- tool, faults <- failures

CONSTANTS Thread, Legacy, Current, MaxEntries, Slack, MaxTime, MaxLookups
VARIABLES rows, clock, at, keys, now, bad, hits, misses, written

Embeddings == INSTANCE EmbeddingCache WITH entries <- rows, pc <- at

CONSTANTS File, Content, Size, LastTime, MaxEdits, MaxErrors
VARIABLES
  disk, edits, errors, index, phase, left, stats, reading, changes, quiet, overlooked, had, alike

Walks == INSTANCE ChangeDetect WITH MaxTime <- LastTime

-----------------------------------------------------------------------------
(* Between calls the vocabulary counts the facts that have points, whose   *)
(* vectors have all their terms, and a force pass leaves no point but of   *)
(* facts of the store, whatever has failed on the way.                     *)
FactsAreCounted == Facts!FactsAreCounted

(* No point is left of an entry that is deleted; points and vocabulary     *)
(* are those of the entries but for failures, which index_all repairs.     *)
GlossaryIsIndexed == Glossary!GlossaryIsIndexed

(* Both tables of the cache of embeddings are within its one limit, from   *)
(* which legacy entries are evicted first and then what was used longest   *)
(* ago, and no upkeep of a read brings a cleared entry back.               *)
EmbeddingsAreKept ==
  /\ [](Embeddings!TypeOK /\ Embeddings!WithinLimit /\ Embeddings!ClearedStaysCleared)
  /\ Embeddings!EvictionOrder

(* A pass in quiet reports the very differences of index and files, and no *)
(* old content is recorded under the time and size of a new one, but for   *)
(* files that were given a time and size that they had before.             *)
ChangesAreFound == Walks!ChangesAreFound
=============================================================================
