--------------------------- MODULE EmbeddingCache ---------------------------
(***************************************************************************)
(* EmbeddingCache (embeddings/cache.py): two tables in one SQLite file,    *)
(* the legacy one by content hash and the one by deployment key, under one *)
(* limit of entries. Threads and processes read and write it with          *)
(* connections of their own; what a read found is touched, or dropped if   *)
(* it is corrupt, in a transaction that comes later.                       *)
(*                                                                         *)
(* An entry is its time of access and whether it can be decoded. Hits and  *)
(* misses are counted per process; the threads here are of one process.    *)
(***************************************************************************)
EXTENDS Integers, FiniteSets, FiniteSetsExt

CONSTANTS Thread,
          Legacy, Current,   \* keys of either table
          MaxEntries,
          Slack,             \* int(max_entries * 0.1)
          MaxTime,           \* bound: time
          MaxLookups         \* bound: lookups that are counted before another may begin

CacheAssumption ==
  /\ Legacy \cap Current = {} /\ IsFiniteSet(Legacy) /\ IsFiniteSet(Current)
  /\ {MaxEntries, MaxTime, MaxLookups} \subseteq Nat \ {0} /\ Slack \in Nat

VARIABLES
  entries,   \* the rows of both tables: from keys to [at, good]
  clock,
  pc,
  keys,      \* the keys of each operation
  now,       \* the time at which it began
  bad,       \* corrupt rows that it read
  hits, misses,
  written    \* history: keys written since both tables were last cleared

stats == <<hits, misses>>
vars == <<entries, clock, pc, keys, now, bad, stats, written>>

Key == Legacy \cup Current
Keys == DOMAIN entries

Init ==
  \* what earlier releases have left, corrupt entries among them
  /\ \E K \in SUBSET Key : /\ Cardinality(K) <= MaxEntries
                           /\ entries \in [K -> [at : {0}, good : BOOLEAN]]
                           /\ written = K
  /\ clock = 0
  /\ pc = [t \in Thread |-> "idle"] /\ keys = [t \in Thread |-> {}]
  /\ now = [t \in Thread |-> 0] /\ bad = [t \in Thread |-> {}]
  /\ hits = 0 /\ misses = 0

Goto(t, p) == pc' = [pc EXCEPT ![t] = p]

\* The operation returns, and its locals are gone.
Return(t) ==
  /\ Goto(t, "idle") /\ keys' = [keys EXCEPT ![t] = {}]
  /\ now' = [now EXCEPT ![t] = 0] /\ bad' = [bad EXCEPT ![t] = {}]

Without(e, K) == [k \in DOMAIN e \ K |-> e[k]]

\* Mutant of IsOldest: the most recently used rows are taken.
IsNewest(e, K, n) ==
  Cardinality(K) = n /\ \A k \in K, l \in DOMAIN e \ K : e[k].at >= e[l].at

\* K is a set of n least recently used keys of e.
IsOldest(e, K, n) ==
  Cardinality(K) = n /\ \A k \in K, l \in DOMAIN e \ K : e[k].at <= e[l].at

\* Mutant of Evicted: each table has the limit for itself.
EvictedByTable(e) ==
  LET part(T) == [k \in DOMAIN e \cap T |-> e[k]]
      excess(T) == IF Cardinality(DOMAIN e \cap T) <= MaxEntries THEN 0
                   ELSE Max({Cardinality(DOMAIN e \cap T) - MaxEntries, Slack, 1})
  IN {Without(e, K \cup L) :
        K \in {K \in SUBSET (DOMAIN e \cap Legacy) : IsOldest(part(Legacy), K, excess(Legacy))},
        L \in {L \in SUBSET (DOMAIN e \cap Current) : IsOldest(part(Current), L, excess(Current))}}

\* _maybe_evict_combined: what can remain of the rows e; legacy ones go first.
Evicted(e) ==
  LET legacy == [k \in DOMAIN e \cap Legacy |-> e[k]]
      current == [k \in DOMAIN e \cap Current |-> e[k]]
      surplus == Cardinality(DOMAIN e) - MaxEntries
      total == Max({surplus, Slack, 1})
      ofLegacy == Min({Cardinality(DOMAIN legacy), total})
      ofCurrent == Min({Cardinality(DOMAIN current), total - ofLegacy})
  IN IF surplus <= 0 THEN {e}
     ELSE {Without(e, K) : K \in {K \in SUBSET DOMAIN e :
             /\ IsOldest(legacy, K \cap Legacy, ofLegacy)
             /\ IsOldest(current, K \cap Current, ofCurrent)}}

Stored(e, K, time) ==
  [k \in DOMAIN e \cup K |-> IF k \in K THEN [at |-> time, good |-> TRUE] ELSE e[k]]

-----------------------------------------------------------------------------
\* An operation begins: it takes the time, and has yet to get at the database.
Begin(t) ==
  /\ pc[t] = "idle"
  /\ \E K \in SUBSET Key \ {{}} :
       /\ K \subseteq Legacy => Cardinality(K) = 1
       /\ K \subseteq Legacy \/ K \subseteq Current
       /\ keys' = [keys EXCEPT ![t] = K]
  /\ \E p \in {"set", "get"} :
       /\ Goto(t, p)
       /\ p = "get" => hits + misses < MaxLookups
  /\ now' = [now EXCEPT ![t] = clock]
  /\ UNCHANGED <<entries, clock, bad, stats, written>>

\* set and set_many: the write and the eviction are one transaction.
Set(t) ==
  /\ pc[t] = "set" /\ Return(t)
  /\ entries' \in Evicted(Stored(entries, keys[t], now[t]))
  /\ written' = written \cup keys[t]
  /\ UNCHANGED <<clock, stats>>

Found(t) == keys[t] \cap Keys

\* Mutant of Corrupt: corrupt rows beyond those that were asked for.
CorruptAnywhere(t) == {k \in Keys : ~entries[k].good}

Corrupt(t) == {k \in Found(t) : ~entries[k].good}

\* get_many reads; what it returns is settled here.
GetMany(t) ==
  /\ pc[t] = "get" /\ keys[t] \subseteq Current
  /\ bad' = [bad EXCEPT ![t] = Corrupt(t)]
  /\ keys' = [keys EXCEPT ![t] = Found(t)]
  /\ hits' = hits + Cardinality(Found(t) \ Corrupt(t))
  /\ misses' = misses + Cardinality(keys[t] \ (Found(t) \ Corrupt(t)))
  /\ Goto(t, "upkeep")
  /\ UNCHANGED <<entries, clock, now, written>>

\* get reads a legacy row, counts a hit or a miss, and has not decoded it.
Get(t) ==
  /\ pc[t] = "get" /\ keys[t] \subseteq Legacy
  /\ IF Found(t) = {}
     THEN misses' = misses + 1 /\ Return(t) /\ UNCHANGED hits
     ELSE /\ hits' = hits + 1 /\ Goto(t, "upkeep")
          /\ bad' = [bad EXCEPT ![t] = Corrupt(t)] /\ UNCHANGED <<misses, keys, now>>
  /\ UNCHANGED <<entries, clock, written>>

\* Mutant of Touched: rows that were found are written back.
TouchedBack(t, K) ==
  [k \in Keys \cup K |-> IF k \in K THEN [at |-> now[t], good |-> TRUE] ELSE entries[k]]

\* UPDATE ... SET accessed_at: only what is still there.
Touched(t, K) ==
  [k \in Keys |-> IF k \in K THEN [entries[k] EXCEPT !.at = now[t]] ELSE entries[k]]

\* get_many drops what was corrupt and touches the rest; if it cannot, it
\* returns what it has read all the same.
Upkeep(t) ==
  /\ pc[t] = "upkeep" /\ keys[t] \subseteq Current
  /\ \/ entries' = Without(Touched(t, keys[t] \ bad[t]), bad[t])
     \/ UNCHANGED entries
  /\ Return(t)
  /\ UNCHANGED <<clock, stats, written>>

\* get touches its row, and has it if it can be decoded.
Touch(t) ==
  /\ pc[t] = "upkeep" /\ keys[t] \subseteq Legacy
  /\ entries' = Touched(t, keys[t])
  /\ IF bad[t] = {} THEN Return(t) ELSE Goto(t, "drop") /\ UNCHANGED <<keys, now, bad>>
  /\ UNCHANGED <<clock, stats, written>>

\* A row that cannot be decoded is deleted, and its hit becomes a miss.
Drop(t) ==
  /\ pc[t] = "drop" /\ Return(t)
  /\ entries' = Without(entries, bad[t])
  /\ hits' = hits - 1 /\ misses' = misses + 1
  /\ UNCHANGED <<clock, written>>

Clear(t) ==
  /\ pc[t] = "idle" /\ Goto(t, "cleared")
  /\ entries' = Without(entries, Keys) /\ written' = {}
  /\ UNCHANGED <<clock, keys, now, bad, stats>>

ResetStats(t) ==
  /\ pc[t] = "cleared" /\ Goto(t, "idle")
  /\ hits' = 0 /\ misses' = 0
  /\ UNCHANGED <<entries, clock, keys, now, bad, written>>

Tick ==
  /\ clock < MaxTime /\ clock' = clock + 1
  /\ UNCHANGED <<entries, pc, keys, now, bad, stats, written>>

Next ==
  \/ \E t \in Thread : \/ Begin(t) \/ Set(t) \/ GetMany(t) \/ Get(t) \/ Upkeep(t)
                       \/ Touch(t) \/ Drop(t) \/ Clear(t) \/ ResetStats(t)
  \/ Tick

Spec == Init /\ [][Next]_vars

-----------------------------------------------------------------------------
TypeOK ==
  /\ Keys \subseteq Key /\ \A k \in Keys : entries[k] \in [at : 0 .. MaxTime, good : BOOLEAN]
  /\ pc \in [Thread -> {"idle", "set", "get", "upkeep", "drop", "cleared"}]
  /\ \A t \in Thread : bad[t] \subseteq keys[t] /\ (bad[t] # {} => pc[t] \in {"upkeep", "drop"})
  /\ clock \in 0 .. MaxTime /\ now \in [Thread -> 0 .. MaxTime]
  /\ hits \in Int /\ misses \in Nat

(* "one entry limit across legacy and deployment-safe caches": no process  *)
(* ever sees more entries than that, whoever writes at the same time.      *)
WithinLimit == Cardinality(Keys) <= MaxEntries

(* A write may evict current entries only when no legacy one remains, and  *)
(* never one that was used later than one it keeps.                        *)
EvictionOrder ==
  [][\A t \in Thread : Set(t) =>
       LET gone == (Keys \cup keys[t]) \ DOMAIN entries'
           at(k) == IF k \in keys[t] THEN now[t] ELSE entries[k].at
       IN /\ gone \cap Current # {} => DOMAIN entries' \cap Legacy = {}
          /\ \A k \in gone, l \in DOMAIN entries' :
               {k, l} \subseteq Current \/ {k, l} \subseteq Legacy => at(k) <= at(l)]_vars

(* What was cleared or evicted does not come back with the upkeep of a     *)
(* read that began before: every entry was written after the last clear.   *)
ClearedStaysCleared == Keys \subseteq written

(* "Delete the corrupted entry to allow re-caching" (get), "corrupt-entry  *)
(* cleanup" (get_many): only corrupt entries are deleted.                  *)
OnlyCorruptIsDropped ==
  [][\A t \in Thread : Upkeep(t) \/ Drop(t) =>
       \A k \in Keys \ DOMAIN entries' : ~entries[k].good]_vars

(* "Undo the hit count" (get): a hit that was counted is taken back.       *)
HitsAreCounted == hits >= 0

-----------------------------------------------------------------------------
(* The inductive invariant: besides, an operation has keys of its own.     *)
IInv ==
  /\ TypeOK /\ WithinLimit /\ ClearedStaysCleared
  /\ keys \in [Thread -> SUBSET Key] /\ bad \in [Thread -> SUBSET Key]
=============================================================================
