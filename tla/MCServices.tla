------------------------------ MODULE MCServices ------------------------------
(***************************************************************************)
(* Calls to the services and what becomes of them when requests fail, for  *)
(* TLC: the circuit breaker and the cache of queries of the embedding      *)
(* client, its calls for many texts, the batches of an upsert, the         *)
(* creation of a collection, the split of a text, and the search over the  *)
(* graph of facts. TLC looks at one of them at a time: `part` says which   *)
(* one takes steps, and the others stay as they began.                     *)
(***************************************************************************)
EXTENDS Services, Naturals, Sequences, FiniteSets, TLC

CONSTANTS t1, t2, t3, apple, pear, plum, id1, id2, id3

VARIABLES
  part,
  answers, failedOpen, opener, known, found, pc, input, uses, hits, plan,
  running, finished, failed, reported, result,
  graph, undeleted, query, queue, visited, collected, paths, node, rows, search

circuitVars ==
  <<failures, remaining, stand, answer, attempt, left, up, streak, quiet, outage, probes>>
queryVars ==
  <<dim, cache, queryLock, waiters, bound, asked, identity, probing, faults, raised>>
ensureVars == <<exists, indexes, step, next, ending, creators, lost>>
upsertVars == <<held, call, batches, tries, stored, last>>
embedVars ==
  <<answers, failedOpen, opener, known, found, pc, input, uses, hits, plan,
    running, finished, failed, reported, result>>
splitVars ==
  <<source, prefix, limit, phase, start, window, body, spans, merged, pending, following>>
graphVars == <<graph, undeleted, query, queue, visited, collected, paths, node, rows, search>>

Pair == {t1, t2}
Trio == {t1, t2, t3}

\* Two requests, one of two texts; two failures open the circuit for two ticks.
TwoAndOne == t1 :> 2 @@ t2 :> 1

\* An invalid response ends a request as an answer of use does, unless texts are left.
Matters == \A t \in Pair : answer'[t] = "invalid" => left'[t] > 1

\* Three tasks of one event loop and three texts, a cache of two, and two failures.
OneLoop == [t \in Trio |-> 1]
Fruits == {apple, pear, plum}

\* Two servers that want an index in common, and two requests that fail.
Common == t1 :> <<apple, pear>> @@ t2 :> <<pear, plum>>

\* Two calls of three batches, two at a time and tried twice, one of which fails.
OneFails == Cardinality({<<c, b>> \in Pair \X (1 .. Batches) : tries'[c][b] > 0}) <= 1

\* Two calls, with a text that does not fit into a request.
Sizes == apple :> 1 @@ pear :> 2 @@ plum :> 5
Inputs == {<<apple, apple>>, <<apple, pear>>, <<apple, plum>>}
Embed == INSTANCE EmbedAll
  WITH Call <- Pair, Text <- Fruits, Bytes <- Sizes, Budget <- 3, BatchSize <- 2,
       Concurrency <- 2, Caching <- TRUE, cache <- answers, dim <- known, stored <- found

\* All texts of up to four characters under limits of every kind: a and b make one
\* token together, b alone makes two; u takes three bytes and two tokens; w makes no token.
Letters == {"a", "b", "u", "w"}
Width == "a" :> 1 @@ "b" :> 1 @@ "u" :> 3 @@ "w" :> 1
Tokens == "a" :> 1 @@ "b" :> 2 @@ "u" :> 2 @@ "w" :> 0
Words == UNION {[1 .. n -> Letters] : n \in 1 .. 4}
SomePrefixes == {<<>>, <<"a">>}
OnePair == {<<"a", "b">>}
L(c, by, t, r, s, i) ==
  [chars |-> c, bytes |-> by, tokens |-> t, reserved |-> r, special |-> s, ids |-> i]
AllLimits == {
  L(3, 0, 0, 0, 0, FALSE), L(0, 4, 0, 0, 0, FALSE), L(0, 0, 4, 1, 1, FALSE), L(4, 5, 4, 0, 0, FALSE),
  L(0, 0, 2, 0, 0, TRUE), L(3, 4, 3, 0, 0, TRUE), L(3, 0, 0, 0, 0, TRUE), L(1, 0, 0, 0, 0, FALSE)}

\* Chains and cycles of three facts that are deleted meanwhile.
E(n, t) == [name |-> n, type |-> t]
Entities == {E("a", 1), E("a", 2), E("b", 1), E("c", 1)}
Chains ==
  [{id1, id2, id3} -> {[s |-> E("a", 1), o |-> E("b", 1)], [s |-> E("b", 1), o |-> E("c", 1)],
                       [s |-> E("c", 1), o |-> E("a", 2)], [s |-> E("c", 1), o |-> E("c", 1)]}]
Q(n, t, o, u) == [name |-> n, type |-> t, target |-> o, ttype |-> u]
TwoQueries == {Q("a", None, None, None), Q("b", None, "a", 2)}
Graph == INSTANCE FactGraph
  WITH Fact <- {id1, id2, id3}, Entity <- Entities, Graphs <- Chains, Queries <- TwoQueries,
       MaxDepth <- 2, Limit <- 2, MaxVisited <- 2, stored <- undeleted,
       pc <- search

ASSUME
  /\ Circuit!CircuitAssumption /\ Cached!QueryAssumption
  /\ Ensure!EnsureAssumption /\ Upsert!UpsertAssumption
  /\ Embed!EmbedAllAssumption /\ Split!SplitAssumption /\ Graph!GraphAssumption

-----------------------------------------------------------------------------
NothingToEmbed == ~known /\ input = [t \in Pair |-> <<apple, plum>>]

WholeText == <<[start |-> 0, end |-> 1]>>
NothingToSplit ==
  /\ source = <<"a">> /\ prefix = <<>> /\ limit = L(1, 0, 0, 0, 0, FALSE) /\ phase = "done"
  /\ start = 1 /\ window = 1 /\ body = <<"a">> /\ spans = WholeText
  /\ merged = WholeText /\ pending = 1 /\ following = 1

NothingToFind ==
  /\ graph = [f \in {} |-> 0] /\ undeleted = {} /\ query = Q("a", None, None, None) /\ queue = <<>>
  /\ visited = {} /\ collected = {} /\ paths = <<>> /\ node = None /\ rows = {} /\ search = "done"

PartInit ==
  /\ part \in {"circuit", "queries", "upsert", "ensure", "embed", "split", "graph"}
  /\ Circuit!Init /\ Cached!Init /\ Ensure!Init /\ Upsert!Init
  /\ Embed!Init /\ (part = "embed" \/ NothingToEmbed)
  /\ IF part = "split" THEN Split!Init ELSE NothingToSplit
  /\ IF part = "graph" THEN Graph!Init ELSE NothingToFind

allVars ==
  <<part, circuitVars, queryVars, upsertVars, ensureVars, embedVars, splitVars, graphVars>>
ByCircuit ==
  /\ Matters /\ UNCHANGED <<part, queryVars, upsertVars, ensureVars, embedVars, splitVars, graphVars>>
ByQueries == UNCHANGED <<part, circuitVars, upsertVars, ensureVars, embedVars, splitVars, graphVars>>
ByUpsert == UNCHANGED <<part, circuitVars, queryVars, ensureVars, embedVars, splitVars, graphVars>>
ByEnsure == UNCHANGED <<part, circuitVars, queryVars, upsertVars, embedVars, splitVars, graphVars>>
ByEmbed == UNCHANGED <<part, circuitVars, queryVars, upsertVars, ensureVars, splitVars, graphVars>>
BySplit == UNCHANGED <<part, circuitVars, queryVars, upsertVars, ensureVars, embedVars, graphVars>>
ByGraph == UNCHANGED <<part, circuitVars, queryVars, upsertVars, ensureVars, embedVars, splitVars>>

PartNext ==
  \/ part = "circuit" /\ Circuit!Next /\ ByCircuit
  \/ part = "queries" /\ Cached!Next /\ ByQueries
  \/ part = "upsert" /\ Upsert!Next /\ OneFails /\ ByUpsert
  \/ part = "ensure" /\ Ensure!Next /\ ByEnsure
  \/ part = "embed" /\ Embed!Next /\ ByEmbed
  \/ part = "split" /\ Split!Next /\ BySplit
  \/ part = "graph" /\ Graph!Next /\ ByGraph

\* The fairness of each part. As `part` stays, fairness of a disjunction is that of
\* the disjunct that is enabled; TLC wants few of them. A request to the service can
\* always take a step, its next call included; only short texts are followed to the end.
Short == Len(source) = 3 /\ prefix = <<>>
Goes(t) ==
  \/ /\ part = "circuit" /\ t \in Pair
     /\ (Circuit!Work(t) \/ Circuit!Check(t) \/ Circuit!Reject(t)) /\ ByCircuit
  \/ part = "circuit" /\ t = t3 /\ Circuit!Tick /\ ByCircuit
  \/ part = "queries" /\ Cached!GoOn(t) /\ ByQueries
  \/ part = "upsert" /\ t \in Pair /\ Upsert!Step(t) /\ OneFails /\ ByUpsert
  \/ part = "ensure" /\ t \in Pair /\ (Ensure!Look(t) \/ Ensure!Create(t) \/ Ensure!Index(t)) /\ ByEnsure
  \/ part = "embed" /\ t \in Pair /\ Embed!Step(t) /\ ByEmbed
  \/ part = "split" /\ t = t3 /\ Short /\ Split!Next /\ BySplit
  \/ part = "graph" /\ t = t3 /\ Graph!Search /\ ByGraph

PartSpec ==
  /\ PartInit /\ [][PartNext]_allVars
  /\ \A t \in Trio : WF_allVars(Goes(t))

-----------------------------------------------------------------------------
(* One request is let through at a time after the reset time (it does not  *)
(* hold).                                                                  *)
HalfOpenAllowsOne == Circuit!HalfOpenAllowsOne

(* What is sent is sent under the lock (it does not hold).                 *)
SentUnderLock == Upsert!SentUnderLock

(* No call fails because another one has created the collection (it does   *)
(* not hold).                                                              *)
SecondCallSkips == Ensure!SecondCallSkips

\* The call of t is under way; t3 splits and searches.
Begun(t) ==
  \/ part = "queries" /\ queryLock # None /\ asked[t].at # "idle"
  \/ part = "upsert" /\ t \in Pair /\ call[t] = "running"
  \/ part = "ensure" /\ t \in Pair /\ ending[t] # "ok"
  \/ part = "embed" /\ t \in Pair /\ pc[t] # "idle"
  \/ t = t3 /\ (IF part = "split" THEN Short ELSE part = "graph")

Over(t) ==
  /\ part = "queries" => asked[t].at = "idle"
  /\ part = "upsert" /\ t \in Pair => call[t] # "running"
  /\ part = "ensure" /\ t \in Pair => ending[t] = "ok"
  /\ part = "embed" /\ t \in Pair => pc[t] \in {"done", "failed", "cancelled"}
  /\ part = "split" => phase \in {"done", "refused"}
  /\ part = "graph" => search # "search"

(* Every call comes to an end, in one formula for TLC: a query that waits  *)
(* is answered or told of a failure (QueriesEnd), an upsert and a call for *)
(* many texts end whatever fails (CallsEnd), servers that repeat a call    *)
(* that failed come to the end of it (AllEnsure), slices get smaller until *)
(* they fit (Terminates), and a search ends while facts are deleted        *)
(* (SearchEnds). A service that stays up is asked again.                   *)
EveryCallEnds ==
  /\ \A t \in Trio : Begun(t) ~> Over(t)
  /\ Circuit!RecoversFromOutage
=============================================================================
