------------------------- MODULE PrioritySemaphore -------------------------
(***************************************************************************)
(* What embeddings/limiter.py promises to the HTTP attempts of one         *)
(* endpoint/model scope, with no process, file or descriptor in sight: a   *)
(* counting semaphore with Capacity permits on which queries may register  *)
(* as waiting, and which gives no permit to a document while one has.      *)
(***************************************************************************)
EXTENDS Naturals, FiniteSets

CONSTANTS Client,     \* everything that may ask for a permit
          QueryClient,  \* those of them that ask on behalf of a query
          Capacity    \* the number of permits

VARIABLES holders,    \* the clients that hold a permit
          claims      \* the queries registered as waiting

semVars == <<holders, claims>>

SemInit == /\ holders = {}
           /\ claims = {}

\* A document gets a permit only while no query is registered.
TakeAsDocument(c) == /\ c \in Client \ (QueryClient \cup holders)
                     /\ claims = {}
                     /\ Cardinality(holders \cup {c}) <= Capacity
                     /\ holders' = holders \cup {c}
                     /\ UNCHANGED claims

\* A query needs nothing but a permit.
TakeAsQuery(c) == /\ c \in QueryClient \ holders
                  /\ Cardinality(holders \cup {c}) <= Capacity
                  /\ holders' = holders \cup {c}
                  /\ UNCHANGED claims

Register(c) == /\ c \in QueryClient
               /\ claims' = claims \cup {c}
               /\ UNCHANGED holders

\* Clients give up permits and registrations, several at once when the
\* process they run in dies.
Leave == /\ holders' \subseteq holders
         /\ claims' \subseteq claims

SemNext == \/ \E c \in Client : TakeAsDocument(c) \/ TakeAsQuery(c) \/ Register(c)
           \/ Leave

SemSpec == SemInit /\ [][SemNext]_semVars
=============================================================================
