---------------------------- MODULE MCVocabulary -----------------------------
(***************************************************************************)
(* The vocabulary tables, the indexers that register in them, the cache of *)
(* embeddings and the detection of changes, for TLC. TLC looks at one of   *)
(* them at a time: `part` says which one takes steps, and the others stay  *)
(* as they began.                                                          *)
(***************************************************************************)
EXTENDS Vocabulary, TLC

CONSTANTS a, b, f1, f2, x, y, empty

VARIABLE part

tableVars == <<idx, docFreq, contrib, docCount>>
factVars == <<point, vec, known, freq, docs, pc, call, lost, unread, faults>>
glossaryVars == <<store, points, vocabulary, lock, tool, stale, failures>>
cacheVars == <<rows, clock, at, keys, now, bad, hits, misses, written>>
fileVars ==
  <<disk, edits, errors, index, phase, left, stats, reading, changes, quiet, overlooked, had, alike>>

\* Two contents of one size and an empty one.
SizeOf == x :> 1 @@ y :> 1 @@ empty :> 0

ASSUME
  /\ Facts!FactIndexAssumption /\ Glossary!GlossaryIndexAssumption
  /\ Embeddings!CacheAssumption /\ Walks!ChangeAssumption

-----------------------------------------------------------------------------
PartInit ==
  /\ part \in {"tables", "facts", "glossary", "embeddings", "changes"}
  /\ Init /\ Facts!Init /\ Glossary!Init /\ Embeddings!Init /\ Walks!Init
  /\ part = "tables" \/ \A t \in Token : idx[t] = NoIndex
  /\ part = "embeddings" \/ rows = [k \in {} |-> 0]

PartSpec ==
  /\ PartInit
  /\ [][ /\ UNCHANGED part
         /\ \/ part = "tables" /\ Next
                 /\ UNCHANGED <<factVars, glossaryVars, cacheVars, fileVars>>
            \/ part = "facts" /\ Facts!Next
                 /\ UNCHANGED <<tableVars, glossaryVars, cacheVars, fileVars>>
            \/ part = "glossary" /\ Glossary!Next
                 /\ UNCHANGED <<tableVars, factVars, cacheVars, fileVars>>
            \/ part = "embeddings" /\ Embeddings!Next
                 /\ UNCHANGED <<tableVars, factVars, glossaryVars, fileVars>>
            \/ part = "changes" /\ Walks!Next
                 /\ UNCHANGED <<tableVars, factVars, glossaryVars, cacheVars>>
       ]_<<part, tableVars, factVars, glossaryVars, cacheVars, fileVars>>

-----------------------------------------------------------------------------
(* A pass retires what it left unwritten (it does not hold).               *)
PassAccountsForPoints == Facts!PassAccountsForPoints

(* The vocabulary counts no other entry (it does not hold).                *)
VocabularyExact == Glossary!VocabularyExact

(* A read deletes corrupt entries only (it does not hold).                 *)
OnlyCorruptIsDropped == Embeddings!OnlyCorruptIsDropped

(* A hit that was counted is taken back once (it does not hold).           *)
HitsAreCounted == Embeddings!HitsAreCounted

(* The time and size tell a content (it does not hold).                    *)
SameStatSameContent == Walks!SameStatSameContent

(* What is reported as deleted has gone (it does not hold).                *)
DeletedAreGone == Walks!DeletedAreGone
=============================================================================
