---------------------------- MODULE HybridSearch -----------------------------
(***************************************************************************)
(* reciprocal_rank_fusion (search/rank_fusion.py) and HybridSearcher       *)
(* (storage/hybrid.py), which asks the server for the points of a dense    *)
(* and of a sparse ranking and fuses them on one of several paths.         *)
(*                                                                         *)
(* Scores are exact: each is a multiple of a unit by which every           *)
(* contribution 1 / (k + rank) is a whole number.                          *)
(***************************************************************************)
EXTENDS Integers, Sequences, FiniteSets, SequencesExt, FiniteSetsExt

CONSTANTS
  Key,        \* points, as integers in the order of their ids
  GroupOf,    \* the group of each point: a function
  Length,     \* bound: points of a ranking
  Weight,     \* weights to choose from, as integers
  K,          \* values of rrf_k to choose from, none below 0
  ServerK,    \* the constant of the server's own fusion, for ranks from 1
  Limit, Prefetch, Kind, None

\* K is clamped at 0, and settings refuse a weight below 0.
HybridAssumption ==
  /\ Key \subseteq Int /\ GroupOf \in [Key -> Int] /\ Length \in Nat
  /\ Weight \subseteq Nat /\ K \subseteq Nat /\ ServerK \in Nat
  /\ Limit \subseteq Nat /\ Prefetch \subseteq Nat

VARIABLES
  in,   \* the call: its kind, weights and limits, and the rankings that the server has
  out   \* a sequence of [key, score, item] once the call has returned

vars == <<in, out>>

Rankings == UNION {[1 .. n -> Key] : n \in 0 .. Length}
Distinct(s) == \A i, j \in DOMAIN s : s[i] = s[j] => i = j

\* The server returns a point once. Lists of a caller's own may repeat one.
Init ==
  /\ out = None
  /\ in \in [kind : Kind, lists : Rankings \X Rankings, weights : Weight \X Weight,
             k : K, limit : Limit, prefetch : Prefetch]
  /\ in.kind # "fuse" => Distinct(in.lists[1]) /\ Distinct(in.lists[2])

-----------------------------------------------------------------------------
\* Mutant of Top: one more is returned.
TopAndOne(s, n) == SubSeq(s, 1, IF n + 1 < Len(s) THEN n + 1 ELSE Len(s))

Top(s, n) == SubSeq(s, 1, IF n < Len(s) THEN n ELSE Len(s))

\* Mutant of Share: later ranks are worth more.
ShareOfLater(k, rank) == k + rank

\* 1 / (k + rank), in units: the product of what the other ranks divide by.
Share(k, rank) ==
  LET others[n \in 0 .. Length] ==
        IF n = 0 THEN 1 ELSE IF n = rank THEN others[n - 1] ELSE (k + n) * others[n - 1]
  IN others[Length]

\* Mutant of Add: a key that a list repeats has its last rank.
AddLast(lists, weights, k, acc, p) ==
  LET l == p[1]
      key == lists[l][p[2]]
      was == IF acc[key].ranks[l] = 0 THEN 0 ELSE weights[l] * Share(k, acc[key].ranks[l])
  IN IF weights[l] = 0 THEN acc
     ELSE [acc EXCEPT ![key] =
             [score |-> @.score - was + weights[l] * Share(k, p[2]), ranks |-> [@.ranks EXCEPT ![l] = p[2]],
              item |-> IF @.best = 0 THEN p ELSE @.item,
              best |-> IF @.best = 0 \/ p[2] < @.best THEN p[2] ELSE @.best]]

\* The item at p adds to the score of its key, at its first rank in a list. Of the
\* items of a key the first is kept.
Add(lists, weights, k, acc, p) ==
  LET l == p[1]
      key == lists[l][p[2]]
  IN IF weights[l] = 0 \/ acc[key].ranks[l] # 0 THEN acc
     ELSE [acc EXCEPT ![key] =
             [score |-> @.score + weights[l] * Share(k, p[2]), ranks |-> [@.ranks EXCEPT ![l] = p[2]],
              item |-> IF @.best = 0 THEN p ELSE @.item,
              best |-> IF @.best = 0 \/ p[2] < @.best THEN p[2] ELSE @.best]]

\* What two lists give to the keys in them, one item after the other. A rank of 0
\* is none.
Added(lists, weights, k) ==
  LET items == [r \in DOMAIN lists[1] |-> <<1, r>>] \o [r \in DOMAIN lists[2] |-> <<2, r>>]
      nothing == [score |-> 0, ranks |-> <<0, 0>>, item |-> <<1, 0>>, best |-> 0]
      after[n \in 0 .. Len(items)] ==
        IF n = 0 THEN [x \in Range(lists[1]) \cup Range(lists[2]) |-> nothing]
        ELSE Add(lists, weights, k, after[n - 1], items[n])
  IN after[Len(items)]

\* sort_key
Before(acc, x, y) ==
  \/ acc[x].score > acc[y].score
  \/ acc[x].score = acc[y].score /\ acc[x].best < acc[y].best
  \/ acc[x].score = acc[y].score /\ acc[x].best = acc[y].best /\ x < y

\* The keys with a rank, in order. Keys differ: there is one such sequence.
Sorted(acc) ==
  {s \in SetToSeqs({x \in DOMAIN acc : acc[x].best > 0}) :
     \A i, j \in DOMAIN s : i < j => Before(acc, s[i], s[j])}

\* reciprocal_rank_fusion
Fusion(lists, weights, k, limit) ==
  LET acc == Added(lists, weights, k)
      Result(x) == [key |-> x, score |-> acc[x].score, ranks |-> acc[x].ranks, item |-> acc[x].item]
      Results(s) == [i \in DOMAIN s |-> Result(s[i])]
  IN {Results(Top(s, Max({1, limit}))) : s \in Sorted(acc)}

Hits(s) == [i \in DOMAIN s |-> [key |-> s[i], score |-> 0, item |-> <<1, i>>]]

Return(r) == out' = r /\ UNCHANGED in
Called(kind) == out = None /\ in.kind = kind

\* reciprocal_rank_fusion, called on lists of the caller's own.
Fuse ==
  /\ Called("fuse")
  /\ \E f \in Fusion(in.lists, in.weights, in.k, in.limit) : Return(f)

\* One weight is 0: one ranking is asked for.
SearchOne ==
  /\ Called("search")
  /\ \E l \in {1, 2} :
       /\ in.weights[l] > 0 /\ in.weights[3 - l] <= 0
       /\ Return(Hits(Top(in.lists[l], in.limit)))

Prefetched == [l \in 1 .. 2 |-> Top(in.lists[l], in.prefetch)]

\* Equal weights: the server fuses.
SearchEqual ==
  /\ Called("search") /\ in.weights[1] = in.weights[2]
  /\ in.weights[1] > 0 \/ in.weights[2] <= 0
  /\ \E f \in Fusion(Prefetched, <<1, 1>>, ServerK, in.limit) : Return(f)

\* _weighted_rrf of two answers.
SearchWeighted ==
  /\ Called("search") /\ in.weights[1] # in.weights[2]
  /\ \A l \in {1, 2} : in.weights[l] > 0 => in.weights[3 - l] > 0
  /\ \E f \in Fusion(Prefetched, in.weights, in.k, Len(Prefetched[1]) + Len(Prefetched[2])) :
       Return(Top(f, in.limit))

\* The points of a ranking that are the best of their group.
BestOfGroups(s) ==
  LET best[n \in 0 .. Len(s)] ==
        IF n = 0 THEN <<>>
        ELSE IF \E q \in 1 .. n - 1 : GroupOf[s[q]] = GroupOf[s[n]] THEN best[n - 1]
        ELSE Append(best[n - 1], s[n])
  IN best[Len(s)]

\* Mutant of Branch: the best rank, whatever the weights.
BranchByRank(ranks, weights, k) ==
  CHOOSE l \in 1 .. 2 : ranks[l] > 0 /\ \A m \in 1 .. 2 :
    ranks[m] = 0 \/ ranks[l] < ranks[m] \/ (ranks[l] = ranks[m] /\ l <= m)

\* The branch that contributes most, the first of equals.
Branch(ranks, weights, k) ==
  CHOOSE l \in 1 .. 2 : ranks[l] > 0 /\ \A m \in 1 .. 2 :
    LET a == weights[l] * Share(k, ranks[l])
        b == weights[m] * Share(k, ranks[m])
    IN ranks[m] = 0 \/ a > b \/ (a = b /\ l <= m)

\* The groups of a ranking are asked for if it has a weight.
GroupHits(l) ==
  IF in.weights[l] <= 0 THEN <<>>
  ELSE Top(BestOfGroups(in.lists[l]), Max({in.prefetch, in.limit}))

\* _search_grouped: a group is shown by its hit in the strongest branch.
SearchGrouped ==
  /\ Called("grouped")
  /\ LET hits == [l \in 1 .. 2 |-> GroupHits(l)]
         groups == [l \in 1 .. 2 |-> [r \in DOMAIN hits[l] |-> GroupOf[hits[l][r]]]]
         Shown(f) == LET l == Branch(f.ranks, in.weights, in.k) IN hits[l][f.ranks[l]]
         Results(fused) == [i \in DOMAIN fused |-> [fused[i] EXCEPT !.key = Shown(fused[i])]]
     IN \E f \in Fusion(groups, in.weights, in.k, in.limit) : Return(Results(Top(f, in.limit)))

\* Mutant of Given: the first rank is 2.
GivenFromTwo(key, l) ==
  IF \E r \in DOMAIN in.lists[l] : in.lists[l][r] = key
  THEN in.weights[l] * Share(in.k, (CHOOSE r \in DOMAIN in.lists[l] : in.lists[l][r] = key) + 1)
  ELSE 0

\* fuse_results adds up what the lists give, also with a weight of 0. Results of
\* one score come in any order.
Given(key, l) ==
  IF \E r \in DOMAIN in.lists[l] : in.lists[l][r] = key
  THEN in.weights[l] * Share(in.k, CHOOSE r \in DOMAIN in.lists[l] : in.lists[l][r] = key)
  ELSE 0

FuseResults ==
  /\ Called("results")
  /\ LET keys == Range(in.lists[1]) \cup Range(in.lists[2])
         Score(x) == Given(x, 1) + Given(x, 2)
     IN \E s \in SetToSeqs(keys) :
          /\ \A i, j \in DOMAIN s : i < j => Score(s[i]) >= Score(s[j])
          /\ Return(Top([i \in DOMAIN s |-> [key |-> s[i], score |-> Score(s[i]), item |-> <<1, i>>]],
                        in.limit))

Next == Fuse \/ SearchOne \/ SearchEqual \/ SearchWeighted \/ SearchGrouped \/ FuseResults

Spec == Init /\ [][Next]_vars

-----------------------------------------------------------------------------
TypeOK ==
  out # None =>
    /\ \A r \in Range(out) : r.key \in Key /\ r.score \in Int
    /\ Len(out) <= Max({in.limit, 1})
    /\ \A i, j \in DOMAIN out : out[i].key = out[j].key => i = j

\* The first rank of a key in a list, or 0.
FirstRank(key, s) ==
  IF key \in Range(s) THEN Min({r \in DOMAIN s : s[r] = key}) ELSE 0

\* x is ahead of y in every list that counts and has y, and one has.
Ahead(x, y) ==
  LET counts == {l \in {1, 2} : in.weights[l] > 0 \/ (in.kind = "search" /\ in.weights = <<0, 0>>)}
      by == {l \in counts : FirstRank(y, in.lists[l]) > 0}
  IN by # {} /\ \A l \in by :
       FirstRank(x, in.lists[l]) \in 1 .. FirstRank(y, in.lists[l]) - 1

(* Whichever path a search takes, and wherever its limits cut: a point     *)
(* that is ahead of another in every ranking is returned before it, and    *)
(* not left out for it. Groups stand for their best points.                *)
AheadComesFirst ==
  out # None /\ in.kind # "grouped" =>
    \A j \in DOMAIN out : \A x \in Key :
      Ahead(x, out[j].key) => \E i \in 1 .. j - 1 : out[i].key = x

\* The contribution of list l to a key, with rrf_k.
Contribution(x, l) ==
  LET r == FirstRank(x, in.lists[l]) IN IF r = 0 THEN 0 ELSE in.weights[l] * Share(in.k, r)

\* A search of which both rankings are fetched whole and fused here.
FusedHere ==
  /\ in.kind = "search" /\ in.weights[1] # in.weights[2]
  /\ 0 \notin Range(in.weights) /\ in.prefetch >= Length

(* "score = dense_weight/(k + dense_rank) + sparse_weight/(k +             *)
(* sparse_rank)", whatever way the points are fused.                       *)
ScoresFollowTheFormula ==
  out # None /\ (in.kind \in {"fuse", "results"} \/ FusedHere) =>
    \A i \in DOMAIN out : out[i].score = Contribution(out[i].key, 1) + Contribution(out[i].key, 2)

\* The rank of the group of x among the groups of list l, or 0.
GroupRank(x, l) ==
  LET s == in.lists[l]
      of == {r \in DOMAIN s : GroupOf[s[r]] = GroupOf[x]}
  IN IF of = {} THEN 0
     ELSE 1 + Cardinality({GroupOf[s[q]] : q \in 1 .. Min(of) - 1})

(* "retaining the strongest RRF-contributing hit": the point that stands   *)
(* for a group is its best in the ranking that contributes most, in the    *)
(* dense one if both do, and a group has one result.                       *)
StrongestHit ==
  out # None /\ in.kind = "grouped" =>
    \A i \in DOMAIN out :
      LET x == out[i].key
          Weighs(l) == IF in.weights[l] <= 0 \/ GroupRank(x, l) = 0 THEN -1
                       ELSE in.weights[l] * Share(in.k, GroupRank(x, l))
          l == IF Weighs(1) >= Weighs(2) THEN 1 ELSE 2
      IN /\ FirstRank(x, in.lists[l]) = Min({r \in DOMAIN in.lists[l] : GroupOf[in.lists[l][r]] = GroupOf[x]})
         /\ \A j \in DOMAIN out : GroupOf[out[j].key] = GroupOf[x] => i = j

(* "rrf_k: RRF constant (higher = smoother ranking)": points come in the   *)
(* order of the formula with rrf_k, for equal weights too.                 *)
EqualWeightsUseRrfK ==
  out # None /\ in.kind = "search" /\ in.weights = <<1, 1>> =>
    \A i, j \in DOMAIN out : i < j =>
      Contribution(out[i].key, 1) + Contribution(out[i].key, 2)
        >= Contribution(out[j].key, 1) + Contribution(out[j].key, 2)
=============================================================================
