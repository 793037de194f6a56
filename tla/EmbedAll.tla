------------------------------ MODULE EmbedAll ------------------------------
(***************************************************************************)
(* EmbeddingClient.embed_all (embeddings/client.py): concurrent calls on   *)
(* one client and one event loop. A call opens the persistent cache, reads *)
(* what it has, packs the rest into requests that run under a semaphore    *)
(* and finish in any order, scatters their vectors back to the positions   *)
(* of its input, and stores them; whatever is wrong with the cache, the    *)
(* call goes on without it.                                                *)
(*                                                                         *)
(* The vector of a text is the text itself, so that a result can be        *)
(* compared with its input. A request is one step of the service here;     *)
(* its retries are in CircuitBreaker.                                      *)
(***************************************************************************)
EXTENDS Naturals, Sequences, FiniteSets, SequencesExt

CONSTANTS Call, Text,
          Inputs,        \* what a call may be asked to embed
          Bytes,         \* what a text takes in the body of a request
          Budget,        \* max_request_bytes, without what every body takes
          BatchSize, Concurrency,
          Caching,       \* there is a cache_namespace
          None

ASSUME EmbedAllAssumption ==
  /\ \A s \in Inputs : s \in Seq(Text) /\ s # <<>>
  /\ Bytes \in [Text -> Nat] /\ Budget \in Nat /\ None \notin Call
  /\ BatchSize \in Nat \ {0} /\ Concurrency \in Nat \ {0} /\ Caching \in BOOLEAN

VARIABLES
  \* the client
  cache,      \* _embedding_cache is there
  failedOpen, \* _persistent_cache_failed
  opener,     \* the call that holds _embedding_cache_init_lock
  dim,        \* the dimension is known
  stored,     \* texts of which the database has a vector
  \* each call
  pc, input,
  uses,       \* the call has got the cache
  hits,       \* texts that it found there
  plan,       \* texts to embed
  running, finished, failed,   \* its requests; the finished ones in order
  reported,   \* the last progress_cb
  result

client == <<cache, failedOpen, opener, dim, stored>>
requests == <<running, finished, failed>>
vars == <<client, pc, input, uses, hits, plan, requests, reported, result>>

-----------------------------------------------------------------------------
\* Mutant of Grown: the comma before the next text is forgotten.
GrownTightly(r, t) == r.bytes + Bytes[t]

\* What a request takes with t added to it: a comma stands between two texts.
Grown(r, t) == r.bytes + 1 + Bytes[t]

\* The text at position n goes into the last request, or opens one.
Put(s, reqs, n) ==
  LET k == Len(reqs)
      r == reqs[k]
  IN IF k > 0 /\ n - r.first < BatchSize /\ Grown(r, s[n]) <= Budget
     THEN [reqs EXCEPT ![k] = [first |-> r.first, last |-> n, bytes |-> Grown(r, s[n])]]
     ELSE Append(reqs, [first |-> n, last |-> n, bytes |-> Bytes[s[n]]])

\* _request_batches: each has the texts of s from the position first to last.
Packed(s) ==
  LET upTo[n \in 0 .. Len(s)] == IF n = 0 THEN <<>> ELSE Put(s, upTo[n - 1], n)
  IN upTo[Len(s)]

TextsOf(c, i) == SubSeq(plan[c], Packed(plan[c])[i].first, Packed(plan[c])[i].last)

\* The first occurrence (dict.fromkeys) of each text that is not in found.
Missing(s, found) ==
  LET upTo[n \in 0 .. Len(s)] ==
        IF n = 0 THEN <<>>
        ELSE IF s[n] \in found \cup ToSet(upTo[n - 1]) THEN upTo[n - 1] ELSE Append(upTo[n - 1], s[n])
  IN upTo[Len(s)]

Count(s, ts) == Cardinality({i \in DOMAIN s : s[i] \in ts})

\* A request that does not fit at all: EmbeddingRequestTooLargeError.
TooLarge(s) == \E t \in ToSet(s) : Bytes[t] > Budget

\* Requests that wait for the semaphore.
Pending(c) ==
  IF pc[c] = "cancelled" \/ TooLarge(plan[c]) THEN {}
  ELSE DOMAIN Packed(plan[c]) \ (running[c] \cup failed[c] \cup ToSet(finished[c]))

Init ==
  /\ cache = FALSE /\ failedOpen = FALSE /\ opener = None
  /\ dim \in BOOLEAN /\ stored = {}
  /\ pc = [c \in Call |-> "idle"] /\ input \in [Call -> Inputs]
  /\ uses = [c \in Call |-> FALSE] /\ hits = [c \in Call |-> {}]
  /\ plan = [c \in Call |-> <<>>]
  /\ running = [c \in Call |-> {}] /\ finished = [c \in Call |-> <<>>]
  /\ failed = [c \in Call |-> {}]
  /\ reported = [c \in Call |-> 0] /\ result = [c \in Call |-> <<>>]

Goto(c, p) == pc' = [pc EXCEPT ![c] = p]

\* The call embeds s, having found found; if s is empty it has all it needs.
Embed(c, s, found) ==
  /\ plan' = [plan EXCEPT ![c] = s] /\ hits' = [hits EXCEPT ![c] = found]
  /\ LET all == Len(input[c])
         known == Count(input[c], found)
     IN /\ reported' = [reported EXCEPT ![c] = IF known > 0 THEN known ELSE @]
        /\ IF s = <<>>
           THEN Goto(c, "done") /\ result' = [result EXCEPT ![c] = input[c]]
           ELSE Goto(c, IF TooLarge(s) THEN "failed" ELSE "run") /\ UNCHANGED result
  /\ UNCHANGED <<input, requests>>

\* _embed_all_effective, once _get_embedding_cache has returned.
Proceed(c, got) ==
  /\ uses' = [uses EXCEPT ![c] = got]
  /\ IF got /\ dim
     THEN Goto(c, "read") /\ UNCHANGED <<input, hits, plan, requests, reported, result>>
     ELSE Embed(c, IF got THEN Missing(input[c], {}) ELSE input[c], {})

-----------------------------------------------------------------------------
Begin(c) ==
  /\ pc[c] = "idle"
  /\ IF Caching /\ ~failedOpen /\ ~cache
     THEN Goto(c, "wait") /\ UNCHANGED <<input, uses, hits, plan, requests, reported, result>>
     ELSE Proceed(c, Caching /\ ~failedOpen)
  /\ UNCHANGED client

(* The lock is taken: another call may have opened the cache meanwhile.    *)
TakeInitLock(c) ==
  /\ pc[c] = "wait" /\ opener = None
  /\ IF cache
     THEN Proceed(c, TRUE) /\ UNCHANGED opener
     ELSE /\ opener' = c /\ Goto(c, "opening")
          /\ UNCHANGED <<input, uses, hits, plan, requests, reported, result>>
  /\ UNCHANGED <<cache, failedOpen, dim, stored>>

(* EmbeddingCache is constructed in a thread, or its constructor raises.   *)
Opened(c) ==
  /\ pc[c] = "opening" /\ opener' = None
  /\ \E ok \in BOOLEAN :
       /\ cache' = ok /\ failedOpen' = (failedOpen \/ ~ok)
       /\ Proceed(c, ok)
  /\ UNCHANGED <<dim, stored>>

\* The cache is closed and given up for good.
GiveUp == cache' = FALSE /\ failedOpen' = TRUE /\ UNCHANGED <<opener, dim, stored>>

\* Mutant of Read: what was found is embedded again where it comes twice.
ReadAll(c) ==
  /\ pc[c] = "read" /\ UNCHANGED <<client, uses>>
  /\ LET found == ToSet(input[c]) \cap stored
     IN Embed(c, SelectSeq(input[c], LAMBDA t : t \notin found), found)

(* get_many of the unique keys; the rest is embedded once each.            *)
Read(c) ==
  /\ pc[c] = "read"
  /\ \/ LET found == ToSet(input[c]) \cap stored
        IN /\ Embed(c, Missing(input[c], found), found)
           /\ UNCHANGED <<client, uses>>
     \/ Embed(c, input[c], {}) /\ GiveUp /\ uses' = [uses EXCEPT ![c] = FALSE]

(* A request gets the semaphore of its call.                               *)
Send(c) ==
  /\ Cardinality(running[c]) < Concurrency
  /\ \E i \in Pending(c) : running' = [running EXCEPT ![c] = @ \cup {i}]
  /\ UNCHANGED <<client, pc, input, uses, hits, plan, finished, failed, reported, result>>

\* Mutant of Answer: progress counts what was embedded, not what it is for.
AnswerUnweighted(c, i) ==
  /\ i \in running[c]
  /\ running' = [running EXCEPT ![c] = @ \ {i}]
  /\ finished' = [finished EXCEPT ![c] = Append(@, i)]
  /\ dim' = TRUE
  /\ reported' = [reported EXCEPT ![c] = @ + Len(TextsOf(c, i))]
  /\ UNCHANGED <<cache, failedOpen, opener, stored, pc, input, uses, hits, plan, failed, result>>

(* A request is answered; the progress counts the positions of the input   *)
(* that its texts are for, also when the call has failed in the meantime.  *)
Answer(c, i) ==
  /\ i \in running[c]
  /\ running' = [running EXCEPT ![c] = @ \ {i}]
  /\ finished' = [finished EXCEPT ![c] = Append(@, i)]
  /\ dim' = TRUE
  /\ LET weight == IF uses[c] THEN Count(input[c], ToSet(TextsOf(c, i))) ELSE Len(TextsOf(c, i))
     IN reported' = [reported EXCEPT ![c] = @ + weight]
  /\ UNCHANGED <<cache, failedOpen, opener, stored, pc, input, uses, hits, plan, failed, result>>

(* A request fails: gather raises at once, and leaves the other requests   *)
(* running.                                                                *)
Fail(c, i) ==
  /\ i \in running[c]
  /\ running' = [running EXCEPT ![c] = @ \ {i}] /\ failed' = [failed EXCEPT ![c] = @ \cup {i}]
  /\ Goto(c, "failed")
  /\ UNCHANGED <<client, input, uses, hits, plan, finished, reported, result>>

\* Mutant of Vectors: the requests are taken as they finished.
VectorsAsFinished(c) ==
  FlattenSeq([n \in DOMAIN finished[c] |-> TextsOf(c, finished[c][n])])

\* The vectors of all requests, sorted by where they start.
Vectors(c) == FlattenSeq([i \in DOMAIN Packed(plan[c]) |-> TextsOf(c, i)])

\* Every position of the input gets its vector, fresh or found.
Scattered(c) ==
  IF ~uses[c] THEN Vectors(c)
  ELSE [i \in DOMAIN input[c] |->
          IF input[c][i] \in hits[c] THEN input[c][i]
          ELSE Vectors(c)[CHOOSE n \in DOMAIN plan[c] : plan[c][n] = input[c][i]]]

(* gather returns, and the fresh vectors go to the cache, if there is one. *)
Gather(c) ==
  /\ pc[c] = "run" /\ ToSet(finished[c]) = DOMAIN Packed(plan[c])
  /\ IF uses[c]
     THEN Goto(c, "write") /\ UNCHANGED result
     ELSE Goto(c, "done") /\ result' = [result EXCEPT ![c] = Scattered(c)]
  /\ UNCHANGED <<client, input, uses, hits, plan, requests, reported>>

\* Mutant of Write: a cache that cannot be written fails the call.
WriteRaises(c) ==
  /\ pc[c] = "write"
  /\ \/ /\ stored' = stored \cup ToSet(plan[c]) /\ UNCHANGED <<cache, failedOpen, opener, dim>>
        /\ Goto(c, "done")
     \/ GiveUp /\ Goto(c, "failed")
  /\ result' = [result EXCEPT ![c] = Scattered(c)] /\ UNCHANGED <<input, uses, hits, plan, requests, reported>>

(* set_many; if it fails, the call has its vectors all the same.           *)
Write(c) ==
  /\ pc[c] = "write"
  /\ \/ stored' = stored \cup ToSet(plan[c]) /\ UNCHANGED <<cache, failedOpen, opener, dim>>
     \/ GiveUp
  /\ Goto(c, "done") /\ result' = [result EXCEPT ![c] = Scattered(c)]
  /\ UNCHANGED <<input, uses, hits, plan, requests, reported>>

\* Mutant of Cancel: a call that is cancelled while it opens the cache keeps the lock.
CancelKeepsLock(c) ==
  /\ pc[c] \in {"wait", "opening", "read", "run", "write"}
  /\ Goto(c, "cancelled")
  /\ running' = [running EXCEPT ![c] = {}]
  /\ \/ UNCHANGED stored
     \/ pc[c] = "write" /\ stored' = stored \cup ToSet(plan[c])
  /\ UNCHANGED <<cache, failedOpen, opener, dim, input, uses, hits, plan, finished, failed,
                 reported, result>>

(* The call is cancelled, and with it its requests; a thread that writes   *)
(* to the database goes on.                                                *)
Cancel(c) ==
  /\ pc[c] \in {"wait", "opening", "read", "run", "write"}
  /\ Goto(c, "cancelled")
  /\ running' = [running EXCEPT ![c] = {}]
  /\ opener' = IF opener = c THEN None ELSE opener
  /\ \/ UNCHANGED stored
     \/ pc[c] = "write" /\ stored' = stored \cup ToSet(plan[c])
  /\ UNCHANGED <<cache, failedOpen, dim, input, uses, hits, plan, finished, failed, reported, result>>

(* Other processes share the database: entries are evicted.                *)
Evict ==
  /\ \E t \in stored : stored' = stored \ {t}
  /\ UNCHANGED <<cache, failedOpen, opener, dim, pc, input, uses, hits, plan, requests,
                 reported, result>>

Step(c) ==
  \/ TakeInitLock(c) \/ Opened(c) \/ Read(c) \/ Send(c) \/ Gather(c) \/ Write(c)
  \/ \E i \in running[c] : Answer(c, i) \/ Fail(c, i)

Next == (\E c \in Call : Begin(c) \/ Step(c) \/ Cancel(c)) \/ Evict

Spec == Init /\ [][Next]_vars
FairSpec == Spec /\ \A c \in Call : WF_vars(Step(c))

-----------------------------------------------------------------------------
TypeOK ==
  /\ cache \in BOOLEAN /\ failedOpen \in BOOLEAN /\ dim \in BOOLEAN
  /\ opener \in Call \cup {None} /\ stored \subseteq Text
  /\ pc \in [Call -> {"idle", "wait", "opening", "read", "run", "write", "done", "failed", "cancelled"}]
  /\ input \in [Call -> Inputs] /\ uses \in [Call -> BOOLEAN]
  /\ hits \in [Call -> SUBSET Text] /\ plan \in [Call -> Seq(Text)] /\ result \in [Call -> Seq(Text)]
  /\ running \in [Call -> SUBSET Nat] /\ failed \in [Call -> SUBSET Nat]
  /\ finished \in [Call -> Seq(Nat)] /\ reported \in [Call -> Nat]
  /\ \A c \in Call : opener = c <=> pc[c] = "opening"

(* "List of embedding vectors in same order as input texts": whatever was  *)
(* cached, packed together, repeated, and in whatever order the requests   *)
(* finished.                                                               *)
SameOrder == \A c \in Call : pc[c] = "done" => result[c] = input[c]

(* Progress counts the positions of the input that have a vector, never    *)
(* more than there are, and the last report of a call that succeeds is     *)
(* (total, total).                                                         *)
ProgressIsExact ==
  \A c \in Call :
    /\ reported[c] <= Len(input[c])
    /\ uses[c] => reported[c] = Count(input[c],
         hits[c] \cup UNION {ToSet(TextsOf(c, i)) : i \in ToSet(finished[c])})
    /\ pc[c] = "done" => reported[c] = Len(input[c])

(* With the cache at hand, a text is sent once, however often it occurs,   *)
(* and not at all if it was found.                                         *)
SentOnce ==
  \A c \in Call : uses[c] =>
    /\ \A m, n \in DOMAIN plan[c] : plan[c][m] = plan[c][n] => m = n
    /\ ToSet(plan[c]) \cap hits[c] = {}

\* What texts take in a JSON array.
BodySize(b) ==
  LET sum[n \in 0 .. Len(b)] == IF n = 0 THEN 0 ELSE sum[n - 1] + Bytes[b[n]]
  IN sum[Len(b)] + Len(b) - 1

(* Every request keeps to the batch size and the byte budget, and no text  *)
(* is lost or moved in packing.                                            *)
RequestsKeepLimits ==
  \A c \in Call :
    /\ \A i \in running[c] : Len(TextsOf(c, i)) \in 1 .. BatchSize /\ BodySize(TextsOf(c, i)) <= Budget
    /\ FlattenSeq([i \in DOMAIN Packed(plan[c]) |-> TextsOf(c, i)]) = plan[c]

(* A cache that cannot be opened, read or written fails no call: only a    *)
(* request does.                                                           *)
CacheFailsOpen ==
  \A c \in Call : pc[c] = "failed" => failed[c] # {} \/ TooLarge(plan[c])

(* Each text is sent once, in requests within their limits, and a call     *)
(* that returns has every vector at its place and has told of all of its   *)
(* texts, whatever the persistent cache does.                              *)
TextsAreAnswered ==
  /\ TypeOK /\ SentOnce /\ RequestsKeepLimits
  /\ SameOrder /\ ProgressIsExact /\ CacheFailsOpen

\* The positions of the plan that have been answered.
Answered(c) ==
  {n \in DOMAIN plan[c] : \E i \in ToSet(finished[c]) :
     n \in Packed(plan[c])[i].first .. Packed(plan[c])[i].last}

\* What a call has planned, sent and reported; with it the invariant is inductive.
Consistent(c) ==
  /\ hits[c] \subseteq ToSet(input[c])
  /\ running[c] \cup ToSet(finished[c]) \subseteq DOMAIN Packed(plan[c])
  /\ running[c] \cap ToSet(finished[c]) = {}
  /\ running[c] # {} => ~TooLarge(plan[c])
  /\ plan[c] # <<>> \/ pc[c] \in {"run", "write"} =>
       plan[c] = IF uses[c] THEN Missing(input[c], hits[c]) ELSE input[c]
  /\ pc[c] \in {"idle", "wait", "opening", "read"} =>
       hits[c] = {} /\ plan[c] = <<>> /\ running[c] = {} /\ finished[c] = <<>>
  /\ reported[c] = IF uses[c] THEN Count(input[c], hits[c] \cup {plan[c][n] : n \in Answered(c)})
                   ELSE Cardinality(Answered(c))
  /\ pc[c] \in {"write", "done"} => ToSet(finished[c]) = DOMAIN Packed(plan[c])
  /\ pc[c] \in {"read", "write"} => uses[c]
  /\ pc[c] = "done" => result[c] = input[c] /\ reported[c] = Len(input[c])
  /\ pc[c] = "failed" => failed[c] # {} \/ TooLarge(plan[c])

IInv == TypeOK /\ \A c \in Call : Consistent(c)

(* Every call comes to an end.                                             *)
CallsEnd == \A c \in Call : pc[c] # "idle" ~> pc[c] \in {"done", "failed", "cancelled"}

(* "Open the opt-in persistent cache, permanently failing open per client" *)
(* (_get_embedding_cache): no call gets the cache after that.              *)
PermanentlyFailsOpen == [][failedOpen => \A c \in Call : uses'[c] => uses[c]]_vars
=============================================================================
