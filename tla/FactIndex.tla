------------------------------ MODULE FactIndex ------------------------------
(***************************************************************************)
(* FactIndexer (facts/indexer.py): the points of the facts in Qdrant and   *)
(* the facts' contribution to the shared vocabulary, two stores that       *)
(* index_fact, delete_fact_index and index_all change one after the other. *)
(*                                                                         *)
(* The collection lock of _mutation_target admits one call at a time; what *)
(* can go wrong is a failure, a cancellation or a death between two of its *)
(* steps.  A text is the set of its tokens.  A vocabulary transaction is a *)
(* step as in VocabTables, a group replacement ends as in FragmentGroup.   *)
(***************************************************************************)
EXTENDS Integers, FiniteSets

CONSTANTS Fact, Token,
          Text,        \* the texts that a fact may have, as token sets
          Absent,      \* no point is stored for the fact; the fact is not in the store
          MaxFaults    \* bound: failures, cancellations and deaths in one behaviour

FactIndexAssumption ==
  /\ IsFiniteSet(Fact) /\ IsFiniteSet(Token)
  /\ Text \subseteq SUBSET Token
  /\ \A s \in SUBSET Token : s # Absent
  /\ MaxFaults \in Nat

VARIABLES
  point,     \* the stored text of each fact, read back by _stored_fact_tokens
  vec,       \* the tokens of the sparse vector stored with it
  known,     \* tokens with an index: rows of vocabulary
  freq,      \* codebase_contributions of the facts
  docs,      \* codebase_doc_counts of the facts
  pc,        \* where the call stands
  call,      \* its locals
  lost,      \* history: a write that only one of the two stores knows of
  unread,    \* history: index_all registered without knowing the stored points
  faults     \* failures so far

points == <<point, vec>>
contribution == <<known, freq, docs>>
history == <<lost, unread>>
vars == <<points, contribution, pc, call, history, faults>>

Corpus == [Fact -> Text \cup {Absent}]
NoFacts == [f \in Fact |-> Absent]
NoCall == [fact |-> Absent, text |-> {}, was |-> FALSE, old |-> {}, applied |-> FALSE,
           force |-> FALSE, corpus |-> NoFacts, scanned |-> FALSE, before |-> NoFacts,
           queue |-> {}, unwritten |-> {}]

Call == [fact : Fact \cup {Absent}, text : SUBSET Token, was : BOOLEAN, old : SUBSET Token,
         applied : BOOLEAN, force : BOOLEAN, corpus : Corpus, scanned : BOOLEAN,
         before : Corpus, queue : SUBSET Fact, unwritten : SUBSET Fact]
Place == {"idle", "rebuild", "read", "update", "write", "revert", "recall", "delete", "retire",
          "scan", "wipe", "register", "pass", "finally"}

AtLeast0(n) == IF n > 0 THEN n ELSE 0
Present(p) == {f \in Fact : p[f] # Absent}
Holders(p, t) == {f \in Present(p) : t \in p[f]}
Single(text) == [t \in Token |-> IF t \in text THEN 1 ELSE 0]
NoTokens == Single({})

Init ==
  /\ point = NoFacts /\ vec = [f \in Fact |-> {}]
  /\ known = {} /\ freq = NoTokens /\ docs = 0
  /\ pc = "idle" /\ call = NoCall
  /\ lost = FALSE /\ unread = FALSE /\ faults = 0

-----------------------------------------------------------------------------
\* register_codebase: p's texts become the whole contribution.
RegisterAs(p) ==
  /\ known' = known \cup UNION {p[f] : f \in Present(p)}
  /\ freq' = [t \in Token |-> Cardinality(Holders(p, t))]
  /\ docs' = Cardinality(Present(p))

\* Mutant of UpdateBy: the count is not clamped.
UpdateByRaw(added, removed, net) ==
  /\ known' = known \cup {t \in Token : added[t] > 0}
  /\ freq' = [t \in Token |-> freq[t] + added[t] - removed[t]]
  /\ docs' = docs + net

\* update_codebase_incremental, with the clamping of _contribution_deltas.
UpdateBy(added, removed, net) ==
  /\ known' = known \cup {t \in Token : added[t] > 0}
  /\ freq' = [t \in Token |-> AtLeast0(freq[t] + added[t] - removed[t])]
  /\ docs' = AtLeast0(docs + net)

\* vectorize_document drops the tokens that have no index.
Put(f, text) ==
  /\ point' = [point EXCEPT ![f] = text]
  /\ vec' = [vec EXCEPT ![f] = text \cap known]

Remove(fs) ==
  /\ point' = [f \in Fact |-> IF f \in fs THEN Absent ELSE point[f]]
  /\ vec' = [f \in Fact |-> IF f \in fs THEN {} ELSE vec[f]]

Fault == faults < MaxFaults /\ faults' = faults + 1
Return == pc' = "idle" /\ call' = NoCall

-----------------------------------------------------------------------------
(* index_fact                                                              *)

IndexFact(f, text) ==
  /\ pc = "idle"
  /\ pc' = IF docs = 0 THEN "rebuild" ELSE "read"
  /\ call' = [NoCall EXCEPT !.fact = f, !.text = text]
  /\ UNCHANGED <<points, contribution, history, faults>>

\* _rebuild_vocabulary; a registration that fails is logged.
Rebuild ==
  /\ pc = "rebuild"
  /\ \/ RegisterAs(point) /\ lost' = FALSE /\ unread' = FALSE /\ UNCHANGED faults
     \/ Fault /\ lost' = TRUE /\ UNCHANGED <<contribution, unread>>
  /\ pc' = "read"
  /\ UNCHANGED <<points, call>>

\* _indexed_token_set, before the delta is registered.
ReadPrevious ==
  /\ pc = "read"
  /\ LET f == call.fact
     IN call' = [call EXCEPT !.was = point[f] # Absent,
                             !.old = IF point[f] = Absent THEN {} ELSE point[f]]
  /\ pc' = "update"
  /\ UNCHANGED <<points, contribution, history, faults>>

\* A failed or cancelled read ends the call before it changed anything.
ReadFails ==
  /\ pc \in {"rebuild", "read"}
  /\ Fault /\ Return
  /\ UNCHANGED <<points, contribution, history>>

Net == IF call.was THEN 0 ELSE 1

\* Mutant of UpdateVocabulary: the terms follow the point, as after a commit.
UpdateLater ==
  /\ pc = "update"
  /\ call' = [call EXCEPT !.applied = TRUE]
  /\ pc' = "write"
  /\ UNCHANGED <<points, contribution, history, faults>>

\* _update_vocabulary of a single fact; false, and logged, when it fails.
UpdateVocabulary ==
  /\ pc = "update"
  /\ \/ /\ UpdateBy(Single(call.text), Single(call.old), Net)
        /\ call' = [call EXCEPT !.applied = TRUE]
        /\ UNCHANGED <<history, faults>>
     \/ Fault /\ lost' = TRUE /\ UNCHANGED <<contribution, call, unread>>
  /\ pc' = "write"
  /\ UNCHANGED points

\* The group is stored and on_commit has run; a cancellation of the cleanup
\* after it raises all the same, and changes nothing.
StoreFact ==
  /\ pc = "write"
  /\ Put(call.fact, call.text)
  /\ Return
  /\ UNCHANGED <<contribution, history, faults>>

\* The embedding or the upsert failed, or was cancelled: nothing was stored.
StoreFails ==
  /\ pc = "write"
  /\ Fault
  /\ IF call.applied THEN pc' = "revert" /\ UNCHANGED call ELSE Return
  /\ UNCHANGED <<points, contribution, history>>

\* FragmentGroupRecoveryError: what is stored is unknown, a journal has the rest.
StoreUnresolved ==
  /\ pc = "write"
  /\ Fault
  /\ \/ Put(call.fact, call.text) \/ Remove({call.fact}) \/ UNCHANGED points
  /\ IF call.applied THEN pc' = "revert" /\ UNCHANGED call ELSE Return
  /\ lost' = TRUE
  /\ UNCHANGED <<contribution, unread>>

\* The inverse of a delta that was applied.
Revert ==
  /\ pc = "revert"
  /\ \/ UpdateBy(Single(call.old), Single(call.text), -Net) /\ UNCHANGED <<history, faults>>
     \/ Fault /\ lost' = TRUE /\ UNCHANGED <<contribution, unread>>
  /\ Return
  /\ UNCHANGED points

-----------------------------------------------------------------------------
(* delete_fact_index                                                       *)

DeleteFact(f) ==
  /\ pc = "idle"
  /\ pc' = "recall"
  /\ call' = [NoCall EXCEPT !.fact = f]
  /\ UNCHANGED <<points, contribution, history, faults>>

\* What the point holds is read back; a failure is logged, the deletion goes on.
Recall ==
  /\ pc = "recall"
  /\ LET f == call.fact
     IN \/ /\ call' = [call EXCEPT !.was = point[f] # Absent,
                                   !.old = IF point[f] = Absent THEN {} ELSE point[f]]
           /\ UNCHANGED <<history, faults>>
        \/ Fault /\ lost' = TRUE /\ UNCHANGED <<call, unread>>
  /\ pc' = "delete"
  /\ UNCHANGED <<points, contribution>>

DeletePoint ==
  /\ pc = "delete"
  /\ Remove({call.fact})
  /\ IF call.was THEN pc' = "retire" /\ UNCHANGED call ELSE Return
  /\ UNCHANGED <<contribution, history, faults>>

\* The request failed, or its reply was lost; the contribution stays.
DeleteFails ==
  /\ pc = "delete"
  /\ Fault /\ Return
  /\ \/ UNCHANGED <<points, lost>>
     \/ Remove({call.fact}) /\ lost' = TRUE
  /\ UNCHANGED <<contribution, unread>>

RetireFact ==
  /\ pc = "retire"
  /\ \/ UpdateBy(NoTokens, Single(call.old), -1) /\ UNCHANGED <<history, faults>>
     \/ Fault /\ lost' = TRUE /\ UNCHANGED <<contribution, unread>>
  /\ Return
  /\ UNCHANGED points

-----------------------------------------------------------------------------
(* index_all                                                               *)

IndexAll(force, corpus) ==
  /\ pc = "idle"
  /\ pc' = IF force THEN "wipe" ELSE "scan"
  /\ call' = [NoCall EXCEPT !.force = force, !.scanned = force, !.corpus = corpus]
  /\ UNCHANGED <<points, contribution, history, faults>>

\* _scan_stored_facts: a failure means that every fact is written again.
Scan ==
  /\ pc = "scan"
  /\ \/ call' = [call EXCEPT !.scanned = TRUE, !.before = point] /\ UNCHANGED faults
     \/ Fault /\ UNCHANGED call
  /\ pc' = "register"
  /\ UNCHANGED <<points, contribution, history>>

\* The corpus cannot be read, or the pass is cancelled: nothing was touched.
CorpusFails ==
  /\ pc \in {"scan", "wipe"}
  /\ Fault /\ Return
  /\ UNCHANGED <<points, contribution, history>>

\* Mutant of Wipe: the facts of the corpus are deleted, and what else is stored stays.
WipeListed ==
  /\ pc = "wipe"
  /\ Remove(Present(call.corpus))
  /\ pc' = "register"
  /\ UNCHANGED <<contribution, call, history, faults>>

\* _delete_all_fact_points, once the corpus is read.
Wipe ==
  /\ pc = "wipe"
  /\ Remove(Fact)
  /\ pc' = "register"
  /\ UNCHANGED <<contribution, call, history, faults>>

WipeUnanswered ==
  /\ pc = "wipe"
  /\ Fault /\ Return
  /\ Remove(Fact) /\ lost' = TRUE
  /\ UNCHANGED <<contribution, unread>>

Missing == {f \in Fact : call.corpus[f] # Absent /\ call.before[f] = Absent}

\* What index_all registers: the facts to index, and the stored ones as stored.
Registered ==
  [f \in Fact |-> IF f \in Missing THEN call.corpus[f] ELSE call.before[f]]

RegisterAll ==
  /\ pc = "register"
  /\ RegisterAs(Registered)
  /\ lost' = FALSE /\ unread' = ~call.scanned
  /\ IF Missing = {} THEN Return
     ELSE /\ pc' = "pass"
          /\ call' = [call EXCEPT !.queue = Missing, !.unwritten = Missing]
  /\ UNCHANGED <<points, faults>>

\* register_codebase raises; a force pass has wiped the points by now.
RegisterFails ==
  /\ pc = "register"
  /\ Fault /\ Return
  /\ lost' = (lost \/ call.force)
  /\ UNCHANGED <<points, contribution, unread>>

\* A fact leaves `unwritten` the moment its group is stored.
PassStores(f) ==
  /\ pc = "pass" /\ f \in call.queue
  /\ Put(f, call.corpus[f])
  /\ call' = [call EXCEPT !.queue = @ \ {f}, !.unwritten = @ \ {f}]
  /\ UNCHANGED <<pc, contribution, history, faults>>

\* The embedding service or anything unexpected fails: on to the next fact.
PassSkips(f) ==
  /\ pc = "pass" /\ f \in call.queue
  /\ Fault
  /\ call' = [call EXCEPT !.queue = @ \ {f}]
  /\ UNCHANGED <<pc, points, contribution, history>>

\* The storage fails or the pass is cancelled, before or after a commit.
PassAborts(f) ==
  /\ pc = "pass" /\ f \in call.queue
  /\ Fault
  /\ \/ UNCHANGED <<points, call>>
     \/ Put(f, call.corpus[f]) /\ call' = [call EXCEPT !.unwritten = @ \ {f}]
  /\ pc' = "finally"
  /\ UNCHANGED <<contribution, history>>

PassUnresolved(f) ==
  /\ pc = "pass" /\ f \in call.queue
  /\ Fault
  /\ \/ Put(f, call.corpus[f]) \/ Remove({f}) \/ UNCHANGED points
  /\ pc' = "finally"
  /\ lost' = TRUE
  /\ UNCHANGED <<contribution, call, unread>>

PassEnds ==
  /\ pc = "pass" /\ call.queue = {}
  /\ pc' = "finally"
  /\ UNCHANGED <<points, contribution, call, history, faults>>

\* Mutant of Retired: what failed is retired, what was never tried is forgotten.
RetiredTried(before) == {f \in call.unwritten \ call.queue : before[f] = Absent}

\* The facts that _retire_unwritten takes back, given the stored ones.
Retired(before) == {f \in call.unwritten : before[f] = Absent}

\* _retire_unwritten, in the finally of the pass.
RetireUnwritten ==
  /\ pc = "finally"
  /\ \/ LET gone == Retired(IF call.scanned THEN call.before ELSE point)
        IN /\ UpdateBy(NoTokens,
                       [t \in Token |-> Cardinality({f \in gone : t \in call.corpus[f]})],
                       -Cardinality(gone))
           /\ UNCHANGED <<history, faults>>
     \/ /\ call.unwritten # {}
        /\ Fault /\ lost' = TRUE /\ UNCHANGED <<contribution, unread>>
  /\ Return
  /\ UNCHANGED points

-----------------------------------------------------------------------------
\* The process dies.  Between the two writes, one store does not learn of the other.
Die ==
  /\ pc # "idle"
  /\ Fault /\ Return
  /\ lost' = (lost \/ pc \in {"write", "revert", "retire", "pass", "finally"}
                   \/ (pc = "register" /\ call.force))
  /\ UNCHANGED <<points, contribution, unread>>

Indexing ==
  \/ \E f \in Fact, text \in Text : IndexFact(f, text)
  \/ Rebuild \/ ReadPrevious \/ ReadFails \/ UpdateVocabulary
  \/ StoreFact \/ StoreFails \/ StoreUnresolved \/ Revert

Deletion ==
  \/ \E f \in Fact : DeleteFact(f)
  \/ Recall \/ DeletePoint \/ DeleteFails \/ RetireFact

Pass ==
  \/ \E force \in BOOLEAN, corpus \in Corpus : IndexAll(force, corpus)
  \/ Scan \/ CorpusFails \/ Wipe \/ WipeUnanswered \/ RegisterAll \/ RegisterFails
  \/ \E f \in Fact : PassStores(f) \/ PassSkips(f) \/ PassAborts(f) \/ PassUnresolved(f)
  \/ PassEnds \/ RetireUnwritten

Next == Indexing \/ Deletion \/ Pass \/ Die

Spec == Init /\ [][Next]_vars

-----------------------------------------------------------------------------
(* Points, contribution and call are well formed.                          *)
TypeOK ==
  /\ point \in [Fact -> Text \cup {Absent}]
  /\ vec \in [Fact -> SUBSET known] /\ known \subseteq Token
  /\ freq \in [Token -> Nat] /\ docs \in Nat
  /\ pc \in Place /\ call \in Call
  /\ lost \in BOOLEAN /\ unread \in BOOLEAN /\ faults \in Nat

\* The contribution is that of the texts p.
Describes(p) ==
  /\ docs = Cardinality(Present(p))
  /\ \A t \in Token : freq[t] = Cardinality(Holders(p, t))

Exact == Describes(point)

(* "The contribution describes exactly the indexed facts": between calls,  *)
(* document count and frequencies are those of the stored points, however  *)
(* calls failed or were cancelled, unless a write was lost to one of the   *)
(* stores or index_all could not read the points.                          *)
ContributionIsExact == pc = "idle" /\ ~lost /\ ~unread => Exact

(* Comment of _index_all (facts/indexer.py:341-345): what a pass left      *)
(* unwritten is retired "so the contribution describes exactly the facts   *)
(* with stored points", here with the facts of the store as the only ones  *)
(* that have points.                                                       *)
PassAccountsForPoints ==
  [][pc = "finally" /\ ~lost' /\ Present(point) \subseteq Present(call.corpus) => Exact']_vars

(* "A fact's terms are in the vocabulary before the fact is vectorized":   *)
(* unless its vocabulary write failed, a fact is stored with a sparse      *)
(* vector that has all its terms.                                          *)
VectorsAreWhole ==
  [][\A f \in Fact :
       /\ point'[f] # Absent /\ <<point[f], vec[f]>>' # <<point[f], vec[f]>>
       /\ call.applied \/ pc = "pass"
       => vec'[f] = point'[f]]_vars

(* A force pass that ran to its end shows searches nothing but facts of    *)
(* the store in their current text: the points it found are gone.          *)
ForceShowsTheStore ==
  pc = "finally" /\ call.force =>
    \A f \in Fact : point[f] \in {Absent, call.corpus[f]}

(* The facts are counted exactly, stored with all of their terms, and      *)
(* after a force pass only those of the store are.                         *)
FactsAreCounted ==
  /\ [](TypeOK /\ ContributionIsExact /\ ForceShowsTheStore)
  /\ VectorsAreWhole

-----------------------------------------------------------------------------
\* What the proofs need besides.

\* A call on one fact knows what is stored of it.
Knows ==
  /\ call.fact \in Fact
  /\ call.was = (point[call.fact] # Absent)
  /\ call.old = IF call.was THEN point[call.fact] ELSE {}

Stored(text) == [point EXCEPT ![call.fact] = text]

(* Whatever was lost: the locals of index_fact and of index_all.           *)
CallInv ==
  /\ pc \in {"rebuild", "read", "update", "write", "revert"} =>
       call.fact \in Fact /\ call.text \in Text
  /\ pc \in {"recall", "delete", "retire"} => call.fact \in Fact
  /\ pc \in {"rebuild", "read", "update"} => ~call.applied
  /\ pc = "recall" => ~call.was
  /\ pc = "write" /\ call.applied => call.text \subseteq known
  /\ pc = "pass" => \A f \in call.queue : call.corpus[f] # Absent /\ call.corpus[f] \subseteq known
  /\ pc = "scan" => ~call.force /\ ~call.scanned
  /\ pc = "wipe" => call.force /\ call.scanned
  /\ pc \in {"scan", "wipe"} => call.before = NoFacts
  /\ pc = "register" /\ call.scanned => call.before = point
  /\ pc = "register" /\ call.force => point = NoFacts
  /\ pc \in {"pass", "finally"} /\ call.force =>
       \A f \in Fact : point[f] \in {Absent, call.corpus[f]}

(* Unless something was lost: where the two stores stand.                  *)
CountInv == ~lost /\ ~unread =>
  /\ pc \in {"idle", "rebuild", "read", "update", "recall", "delete", "scan", "wipe"} => Exact
  /\ pc = "register" /\ ~call.force => Exact
  /\ pc \in {"update", "write", "revert", "delete"} => Knows
  /\ pc \in {"write", "revert"} => call.applied /\ Describes(Stored(call.text))
  /\ pc = "retire" => /\ point[call.fact] = Absent /\ call.old \in Text
                      /\ Describes(Stored(call.old))
  /\ pc \in {"pass", "finally"} =>
       /\ call.scanned /\ Describes(Registered)
       /\ call.unwritten \subseteq Missing /\ (pc = "pass" => call.queue \subseteq call.unwritten)
       /\ \A f \in Fact : point[f] = IF f \in call.unwritten THEN Absent ELSE Registered[f]

IInv == TypeOK /\ CallInv /\ CountInv
=============================================================================
