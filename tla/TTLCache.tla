------------------------------ MODULE TTLCache ------------------------------
(***************************************************************************)
(* TTLCache (utils/cache.py): an ordered dictionary whose entries expire   *)
(* and of which the first ones are evicted when it is full. Its operations *)
(* hold one lock each, so that threads only choose their order: of those   *)
(* that miss a key, each may set it, the second one while it is there.     *)
(***************************************************************************)
EXTENDS Naturals, Sequences

CONSTANTS Key,
          MaxSize,    \* max_size
          Batch,      \* max(1, int(max_size * eviction_ratio))
          Ttl,        \* ttl_seconds, in ticks
          Prefix,     \* the sets of keys that have a prefix in common
          MaxTime     \* bound: time

TTLAssumption ==
  /\ MaxSize \in Nat \ {0} /\ Batch \in 1 .. MaxSize /\ Ttl \in Nat /\ MaxTime \in Nat
  /\ Prefix \subseteq SUBSET Key

VARIABLES
  data,      \* _data: its entries [key, at] in their order
  clock,
  served,    \* the key that the last operation returned a value of, or found
  used,      \* history: when each key was last set or read
  later      \* history: the keys that were inserted or read later than each key was

vars == <<data, clock, served, used, later>>

Keys == {data[n].key : n \in DOMAIN data}
Position(k) == CHOOSE n \in DOMAIN data : data[n].key = k
Expired(e) == clock - e.at > Ttl
Entry(k) == [key |-> k, at |-> clock]
Later(k) == [j \in Key |-> IF j = k THEN {} ELSE later[j] \cup {k}]

\* The entries at the positions P, in their order.
Kept(P) ==
  LET upTo[n \in 0 .. Len(data)] ==
        IF n = 0 THEN <<>> ELSE IF n \in P THEN Append(upTo[n - 1], data[n]) ELSE upTo[n - 1]
  IN upTo[Len(data)]

\* data[k] = (value, now): a key that is there keeps its place.
Put(d, k) ==
  IF \E n \in DOMAIN d : d[n].key = k
  THEN [n \in DOMAIN d |-> IF d[n].key = k THEN Entry(k) ELSE d[n]]
  ELSE Append(d, Entry(k))

Init ==
  /\ data = <<>> /\ clock = 0 /\ served = {}
  /\ used = [k \in Key |-> 0] /\ later = [k \in Key |-> {}]

-----------------------------------------------------------------------------
Miss(k) == k \notin Keys /\ served' = {} /\ UNCHANGED <<data, clock, used, later>>

Expire(k) ==
  /\ k \in Keys /\ Expired(data[Position(k)])
  /\ data' = Kept(DOMAIN data \ {Position(k)}) /\ served' = {}
  /\ UNCHANGED <<clock, used, later>>

\* Mutant of Hit: the entry keeps its place.
HitInPlace(k) ==
  /\ k \in Keys /\ ~Expired(data[Position(k)])
  /\ data' = Put(data, k)
  /\ served' = {k} /\ used' = [used EXCEPT ![k] = clock]
  /\ later' = Later(k) /\ UNCHANGED clock

\* Mutant of Hit: the entry is put at the end as well.
HitTwice(k) ==
  /\ k \in Keys /\ ~Expired(data[Position(k)])
  /\ data' = Append(data, Entry(k))
  /\ served' = {k} /\ used' = [used EXCEPT ![k] = clock]
  /\ later' = Later(k) /\ UNCHANGED clock

\* A hit renews the entry and moves it to the end.
Hit(k) ==
  /\ k \in Keys /\ ~Expired(data[Position(k)])
  /\ data' = Append(Kept(DOMAIN data \ {Position(k)}), Entry(k))
  /\ served' = {k} /\ used' = [used EXCEPT ![k] = clock]
  /\ later' = Later(k) /\ UNCHANGED clock

\* Mutant of Evicted: room is made one entry too late.
EvictedLate == IF Len(data) > MaxSize THEN SubSeq(data, Batch + 1, Len(data)) ELSE data

\* _evict_oldest: the entries at the front.
Evicted == IF Len(data) >= MaxSize THEN SubSeq(data, Batch + 1, Len(data)) ELSE data

\* set makes room also for a key that is there, of which it renews the time only,
\* unless it was evicted just now.
Set(k) ==
  /\ data' = Put(Evicted, k)
  /\ served' = {} /\ used' = [used EXCEPT ![k] = clock] /\ UNCHANGED clock
  /\ later' = IF \E n \in DOMAIN Evicted : Evicted[n].key = k THEN later ELSE Later(k)

Invalidate(K) ==
  /\ data' = Kept({n \in DOMAIN data : data[n].key \notin K})
  /\ served' = {} /\ UNCHANGED <<clock, used, later>>

CleanupExpired ==
  /\ data' = Kept({n \in DOMAIN data : ~Expired(data[n])})
  /\ served' = {} /\ UNCHANGED <<clock, used, later>>

\* Mutant of Peek: the entry is renewed as by get.
PeekRenews(k) ==
  /\ served' = IF k \in Keys /\ ~Expired(data[Position(k)]) THEN {k} ELSE {}
  /\ data' = IF served' = {} THEN data ELSE Put(data, k)
  /\ UNCHANGED <<clock, used, later>>

\* contains looks at the entry and does not renew it.
Peek(k) ==
  /\ served' = IF k \in Keys /\ ~Expired(data[Position(k)]) THEN {k} ELSE {}
  /\ UNCHANGED <<data, clock, used, later>>

Tick ==
  /\ clock < MaxTime /\ clock' = clock + 1
  /\ served' = {} /\ UNCHANGED <<data, used, later>>

Next ==
  \/ \E k \in Key : Miss(k) \/ Expire(k) \/ Hit(k) \/ Set(k) \/ Invalidate({k}) \/ Peek(k)
  \/ \E K \in Prefix \cup {Key} : Invalidate(K)
  \/ CleanupExpired \/ Tick

Spec == Init /\ [][Next]_vars

-----------------------------------------------------------------------------
TypeOK ==
  /\ data \in Seq([key : Key, at : 0 .. clock]) /\ clock \in 0 .. MaxTime
  /\ served \subseteq Key /\ used \in [Key -> 0 .. clock] /\ later \in [Key -> SUBSET Key]
  /\ \A m, n \in DOMAIN data : data[m].key = data[n].key => m = n

(* No order of sets, reads, expirations and evictions makes the cache      *)
(* larger than max_size.                                                   *)
WithinSize == Len(data) <= MaxSize

(* What a read returns, or contains finds, was set or read within the time *)
(* to live: contains alone keeps no entry alive.                           *)
ServedInTime == [][\A k \in served' : clock - used[k] <= Ttl]_vars

(* "Evicting oldest entries if full": the entries are in the order in      *)
(* which they were inserted or last read, whichever keys are set again     *)
(* while they are there, so that an eviction takes those longest unread.   *)
UnreadAtFront ==
  \A m, n \in DOMAIN data : m < n => data[n].key \in later[data[m].key]

(* "Most recently used items are at the end", sets included. (It does not  *)
(* hold: a key that is set while it is there keeps its place.)             *)
RecentAtEnd == \A m, n \in DOMAIN data : m < n => used[data[m].key] <= used[data[n].key]

-----------------------------------------------------------------------------
(* The inductive invariant: besides, the time of an entry is that of its   *)
(* last use.                                                               *)
IInv ==
  /\ TypeOK /\ WithinSize /\ UnreadAtFront
  /\ \A n \in DOMAIN data : data[n].at = used[data[n].key]
=============================================================================
