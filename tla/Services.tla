------------------------------ MODULE Services ------------------------------
(***************************************************************************)
(* The calls to the services: the circuit breaker and the cache of queries *)
(* of the embedding client, its split of a text, the creation of a         *)
(* collection and the batches of an upsert, each with state of its own.    *)
(* The runs give the constants their values; the proofs leave them open.   *)
(***************************************************************************)
CONSTANTS Caller, Texts, Threshold, Reset, MaxRetries, NotSet
VARIABLES failures, remaining, stand, answer, attempt, left, up, streak, quiet, outage, probes

Circuit == INSTANCE CircuitBreaker WITH Request <- Caller, pc <- stand

CONSTANTS Asker, Text, LoopOf, MaxSize, MaxFaults, Dim, None
VARIABLES dim, cache, queryLock, waiters, bound, asked, identity, probing, faults, raised

Cached == INSTANCE QueryCache WITH Task <- Asker, task <- asked, lock <- queryLock

CONSTANTS Server, Fields, MaxLost
VARIABLES exists, indexes, step, next, ending, creators, lost

Ensure == INSTANCE EnsureCollection WITH MaxFaults <- MaxLost, outcome <- ending, faults <- lost

CONSTANTS Call, Batches, Concurrency, MaxAttempts
VARIABLES held, call, batches, tries, stored, last

Upsert == INSTANCE UpsertBatch WITH lock <- held, task <- batches, MaxRetries <- MaxAttempts

CONSTANTS Char, Strings, Contexts, Limits, BytesOf, TokensOf, Merged, Density
VARIABLES source, prefix, limit, phase, start, window, body, spans, merged, pending, following

Split == INSTANCE SplitText
  WITH Texts <- Strings, text <- source, pc <- phase, result <- merged, next <- following

-----------------------------------------------------------------------------
(* The circuit has an opening time exactly after a streak of failures, of  *)
(* which only a service that has been down is blamed, and it rejects for   *)
(* the reset time after the last one.                                      *)
CircuitFollowsTheService ==
  /\ Circuit!TypeOK /\ Circuit!OpensAfterStreak
  /\ Circuit!RejectsForResetTime /\ Circuit!OnlyOutagesCount

(* A text is not asked for while its vector is in the cache, and keys and  *)
(* identities have the dimension that the service told.                    *)
QueriesShareCalls == Cached!QueriesShareCalls

(* A call that returns has left the collection with all of its indexes.    *)
EnsuredIsIndexed == Ensure!TypeOK /\ Ensure!EnsuredIsIndexed

(* Unless a call raises, what is stored is what the last call wrote, and   *)
(* when one has timed out nothing of it is sent any more.                  *)
LastCallWins == Upsert!TypeOK /\ Upsert!LastCallWins /\ Upsert!TimeoutStops

(* The spans of a split partition the complete text, embedding a span is   *)
(* never refused, and no text is whose every character can be embedded.    *)
SplitsFit ==
  Split!TypeOK /\ Split!Partition /\ Split!EveryInputFits /\ Split!OnlyMisfitsAreRefused
=============================================================================
