---------------------------- MODULE VocabTables ----------------------------
(***************************************************************************)
(* The tables of GlobalVocabulary (embeddings/global_vocab.py) and the     *)
(* transactions on them: every codebase that shares the database puts its  *)
(* document frequencies in, takes out what it put in, and reads the        *)
(* aggregate.                                                              *)
(*                                                                         *)
(* file_lock and BEGIN IMMEDIATE make a transaction one step; one that     *)
(* raises is rolled back and changes nothing.  MaxInteger is the largest   *)
(* INTEGER of SQLite, 2^63 - 1 in the code and small in the checks.        *)
(***************************************************************************)
EXTENDS Integers, FiniteSets, Functions

CONSTANTS Codebase, Token,
          MaxInteger,      \* SQLITE_MAX_INTEGER
          MaxUpdate,       \* bound: sets of an incremental update that hold one token
          MaxResidue       \* bound: frequency that older releases left behind

ASSUME TablesAssumption ==
  /\ IsFiniteSet(Codebase) /\ IsFiniteSet(Token)
  /\ MaxInteger \in Nat /\ MaxUpdate \in 0 .. MaxInteger /\ MaxResidue \in 0 .. MaxInteger

NoIndex == -1    \* the token has no row in vocabulary
NoCount == -1    \* the codebase has no row in codebase_doc_counts
Amount == 0 .. MaxInteger

VARIABLES
  idx,       \* vocabulary.idx by token
  docFreq,   \* vocabulary.doc_freq by token, 0 without a row
  contrib,   \* codebase_contributions.doc_freq by codebase and token, 0 without a row
  docCount   \* codebase_doc_counts.doc_count by codebase

vars == <<idx, docFreq, contrib, docCount>>

AtLeast0(n) == IF n > 0 THEN n ELSE 0
Count(c) == AtLeast0(docCount[c])
Known == {t \in Token : idx[t] # NoIndex}

\* The sum of the contributions to a token, and what nobody accounts for.
Contributed(t) == SumFunction([c \in Codebase |-> contrib[c][t]])
Residue(t) == docFreq[t] - Contributed(t)

(* A new database, or one with tokens that an older release left over.     *)
Init ==
  /\ contrib = [c \in Codebase |-> [t \in Token |-> 0]]
  /\ docCount = [c \in Codebase |-> NoCount]
  /\ \E old \in SUBSET Token :
       /\ \E order \in Bijection(old, 0 .. Cardinality(old) - 1) :
            idx = [t \in Token |-> IF t \in old THEN order[t] ELSE NoIndex]
       /\ docFreq \in [Token -> 0 .. MaxResidue]
       /\ \A t \in Token \ old : docFreq[t] = 0

-----------------------------------------------------------------------------
\* Mutant of TotalFits: only the replaced count is looked at.
OwnCountFits(c, n) == n <= MaxInteger

(* _validate_total_doc_count: with c's count replaced, their sum is an     *)
(* INTEGER.                                                                *)
TotalFits(c, n) ==
  SumFunction([d \in Codebase |-> IF d = c THEN n ELSE Count(d)]) <= MaxInteger

\* Mutant of DeltaFits: the delta is looked at alone.
OwnDeltaFits(f, t, delta) == delta <= MaxInteger

(* _validate_frequency_delta, against the frequencies f.                   *)
DeltaFits(f, t, delta) == delta > 0 => f[t] + delta <= MaxInteger

\* Mutant of IsNextIndex: MAX(idx).
IsLastIndex(n) ==
  /\ \A t \in Known : idx[t] <= n
  /\ n = 0 \/ \E t \in Known : n = idx[t]

(* _get_next_index: MAX(idx) + 1, or 0 in an empty vocabulary.             *)
IsNextIndex(n) ==
  /\ \A t \in Known : idx[t] < n
  /\ n = 0 \/ \E t \in Known : n = idx[t] + 1

\* Mutant of AppendIndices: the vocabulary is numbered again.
NumberAnew(tokens) ==
  \E order \in Bijection(Known \cup tokens, 0 .. Cardinality(Known \cup tokens) - 1) :
    idx' = [t \in Token |-> IF t \in Known \cup tokens THEN order[t] ELSE idx[t]]

(* Tokens without a row get the next indices, in the order of a Counter.   *)
AppendIndices(tokens) ==
  LET fresh == tokens \ Known
  IN \E n \in 0 .. Cardinality(Token) :
       /\ IsNextIndex(n)
       /\ \E order \in Bijection(fresh, n .. n + Cardinality(fresh) - 1) :
            idx' = [t \in Token |-> IF t \in fresh THEN order[t] ELSE idx[t]]

\* Mutant of Without: the old contribution stays in the aggregate.
WithoutNothing(c) == docFreq

(* What _remove_codebase_contribution leaves of the frequencies.           *)
Without(c) == [t \in Token |-> AtLeast0(docFreq[t] - contrib[c][t])]

(* register_codebase and register_codebase_frequencies: c's contribution   *)
(* is replaced by f over n documents.                                      *)
Register(c, f, n) ==
  /\ \A t \in Token : f[t] <= n
  /\ TotalFits(c, n)
  /\ \A t \in Token : DeltaFits(Without(c), t, f[t])
  /\ AppendIndices({t \in Token : f[t] > 0})
  /\ docFreq' = [t \in Token |-> Without(c)[t] + f[t]]
  /\ contrib' = [contrib EXCEPT ![c] = f]
  /\ docCount' = [docCount EXCEPT ![c] = n]

Unregister(c) ==
  /\ docFreq' = Without(c)
  /\ contrib' = [contrib EXCEPT ![c] = [t \in Token |-> 0]]
  /\ docCount' = [docCount EXCEPT ![c] = NoCount]
  /\ UNCHANGED idx

\* Mutant of Delta: the caller's raw figures.
RawDelta(c, added, removed, t) == added[t] - removed[t]

(* _contribution_deltas: a codebase can only take back what it put in.     *)
Delta(c, added, removed, t) ==
  IF removed[t] = 0 THEN added[t]
  ELSE AtLeast0(contrib[c][t] + added[t] - removed[t]) - contrib[c][t]

\* Mutant of Update: a bare UPDATE of the count, which matches no row of a new codebase.
UpdateOfRow(c, added, removed, net) ==
  /\ AtLeast0(Count(c) + net) <= MaxInteger
  /\ TotalFits(c, AtLeast0(Count(c) + net))
  /\ \A t \in Token : DeltaFits(docFreq, t, Delta(c, added, removed, t))
  /\ AppendIndices({t \in Token : added[t] > 0})
  /\ docFreq' = [t \in Token |-> AtLeast0(docFreq[t] + Delta(c, added, removed, t))]
  /\ contrib' = [contrib EXCEPT ![c] =
                   [t \in Token |-> AtLeast0(@[t] + Delta(c, added, removed, t))]]
  /\ docCount' = IF docCount[c] = NoCount THEN docCount
                 ELSE [docCount EXCEPT ![c] = AtLeast0(Count(c) + net)]

(* update_codebase_incremental: one delta for the aggregate and for the    *)
(* contribution; rows that reach zero are deleted.                         *)
Update(c, added, removed, net) ==
  /\ AtLeast0(Count(c) + net) <= MaxInteger
  /\ TotalFits(c, AtLeast0(Count(c) + net))
  /\ \A t \in Token : DeltaFits(docFreq, t, Delta(c, added, removed, t))
  /\ AppendIndices({t \in Token : added[t] > 0})
  /\ docFreq' = [t \in Token |-> AtLeast0(docFreq[t] + Delta(c, added, removed, t))]
  /\ contrib' = [contrib EXCEPT ![c] =
                   [t \in Token |-> AtLeast0(@[t] + Delta(c, added, removed, t))]]
  /\ docCount' = [docCount EXCEPT ![c] = AtLeast0(Count(c) + net)]

(* rebuild_aggregate_doc_frequencies: SUM fails when it overflows.         *)
Rebuild ==
  /\ \A t \in Known : Contributed(t) \in Amount
  /\ docFreq' = [t \in Token |-> IF t \in Known THEN Contributed(t) ELSE docFreq[t]]
  /\ UNCHANGED <<idx, contrib, docCount>>

Next ==
  \/ \E c \in Codebase, f \in [Token -> Amount], n \in Amount : Register(c, f, n)
  \/ \E c \in Codebase : Unregister(c)
  \/ \E c \in Codebase, added, removed \in [Token -> 0 .. MaxUpdate],
        net \in -MaxInteger .. MaxInteger : Update(c, added, removed, net)
  \/ Rebuild

Spec == Init /\ [][Next]_vars

-----------------------------------------------------------------------------
(* Document counts and frequencies stay SQLite INTEGERs and are never      *)
(* negative, which the logarithm of vectorize_query depends on.            *)
TypeOK ==
  /\ idx \in [Token -> Nat \cup {NoIndex}]
  /\ docFreq \in [Token -> Amount]
  /\ contrib \in [Codebase -> [Token -> Nat]]
  /\ docCount \in [Codebase -> Amount \cup {NoCount}]

(* total_docs, the sum that every query reads, is an INTEGER as well.      *)
TotalIsInteger == SumFunction([c \in Codebase |-> Count(c)]) <= MaxInteger

(* No codebase takes away another one's share of a token: the aggregate    *)
(* covers the contributions (_contribution_deltas).                        *)
SharesAreCovered == \A t \in Token : Residue(t) >= 0

(* "The aggregate stays equal to the sum of the contributions": whatever   *)
(* codebases register, remove and update, nothing but what an older        *)
(* release left is unaccounted for.                                        *)
NoNewResidue == [][\A t \in Token : Residue(t)' <= Residue(t)]_vars

(* "Vocabulary indices are append-only": a sparse vector that was stored   *)
(* once means the same tokens for ever, to every codebase.                 *)
IndicesAreStable == [][\A t \in Known : idx'[t] = idx[t]]_vars

(* Two tokens never share a dimension of the sparse vectors, however       *)
(* _get_next_index and the registrations of several codebases interleave.  *)
IndicesAreUnique == \A t, u \in Known : idx[t] = idx[u] => t = u

(* A codebase with contributions has a document count, and its tokens have *)
(* indices: its frequencies never weigh without their documents.           *)
ContributionsAreBacked ==
  \A c \in Codebase, t \in Token :
    contrib[c][t] > 0 => docCount[c] # NoCount /\ t \in Known

(* What was stored once keeps its meaning and its documents.               *)
TablesAreInOrder ==
  /\ [](TypeOK /\ IndicesAreUnique /\ ContributionsAreBacked)
  /\ IndicesAreStable

(* The aggregate is that of the codebases and can be read as an INTEGER.   *)
CountsAreSound ==
  /\ [](TotalIsInteger /\ SharesAreCovered)
  /\ NoNewResidue
=============================================================================
