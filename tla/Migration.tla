------------------------------ MODULE Migration ------------------------------
(***************************************************************************)
(* ensure_embedding_collection, current_embedding_binding and _publish of  *)
(* storage/embedding_migration.py: clients with embedding identities of    *)
(* their own read and write one logical index.  It lives in physical       *)
(* collections; an alias names the active one, which a client of another   *)
(* identity replaces by a candidate that it fills, marks ready, publishes. *)
(*                                                                         *)
(* A document is a fragment group, stored in one step (FragmentGroup), and *)
(* its content is the identity that its vectors were made with.  The       *)
(* collection lock is flock's, which a dead process gives up.              *)
(***************************************************************************)
EXTENDS Naturals, FiniteSets, TLC

CONSTANTS Client, Identity, Document,
          SourceBacked,    \* documents without text, which finalize_candidate adds
          Unknown,         \* the identity of a legacy collection
          Absent,          \* no point of the document is stored
          Nobody,          \* no client
          MaxCandidate     \* bound: candidates that are created

ASSUME MigrationAssumption ==
  /\ SourceBacked \subseteq Document /\ IsFiniteSet(Document)
  /\ Unknown \notin Identity /\ Absent \notin Identity /\ Absent # Unknown
  /\ Nobody \notin Client
  /\ MaxCandidate \in Nat

Legacy == 0                              \* the collection with the logical name
Candidate == 1 .. MaxCandidate           \* vcgen_<lineage>_<uuid4>
Collection == {Legacy} \cup Candidate
NoCollection == MaxCandidate + 1

VARIABLES
  exists,      \* collections on the server
  space,       \* the identity that each was created for
  manifest,    \* the state in its point 0
  points,      \* its documents
  alias,       \* what <logical_name>__active names
  late,        \* publications that nobody waits for and the server may still do
  lock,        \* the client in embedding_collection_lock
  ident,       \* the identity of each client
  bound,       \* its entry in _bindings
  pc, kind,    \* where its call stands, and what the call is for
  source, target, todo, copied,    \* locals of ensure_embedding_collection
  view,        \* the collection that the call works on
  cancelled,   \* a CancelledError that _publish has put off
  held,        \* history: the documents that were acknowledged
  failed,      \* history: candidates whose EmbeddingMigrationError was raised
  excused,     \* history: publications whose reply or client was lost
  passed,      \* history: those of them that a later lock holder came after
  overtaken    \* history: one of those was executed

server == <<exists, space, manifest, points, alias, late>>
locals == <<source, target, todo, copied, view, cancelled>>
history == <<held, failed, excused, passed, overtaken>>
vars == <<server, lock, ident, bound, pc, kind, locals, history>>

Building == {"stamp", "copy", "finalize", "ready"}
Place == {"idle", "check", "confirm", "lock", "source", "decide", "publish", "use"} \cup Building

\* active_embedding_collection
Active ==
  IF alias # NoCollection THEN alias
  ELSE IF Legacy \in exists THEN Legacy ELSE NoCollection

Stored(g) == {d \in Document : points[g][d] # Absent}
Empty == [d \in Document |-> Absent]

(* No index yet, or a legacy one that nobody knows the identity of.        *)
Init ==
  /\ \/ exists = {} /\ held = {}
     \/ exists = {Legacy} /\ held = Document
  /\ space = [g \in Collection |-> Unknown]
  /\ manifest = [g \in Collection |-> "none"]
  /\ points = [g \in Collection |->
                 [d \in Document |-> IF g \in exists THEN Unknown ELSE Absent]]
  /\ alias = NoCollection /\ late = {} /\ lock = Nobody
  /\ ident \in [Client -> Identity]
  /\ bound = [c \in Client |-> NoCollection]
  /\ pc = [c \in Client |-> "idle"] /\ kind = [c \in Client |-> "read"]
  /\ source = [c \in Client |-> NoCollection] /\ target = [c \in Client |-> NoCollection]
  /\ todo = [c \in Client |-> {}] /\ copied = [c \in Client |-> 0]
  /\ view = [c \in Client |-> NoCollection] /\ cancelled = [c \in Client |-> FALSE]
  /\ failed = {} /\ excused = {} /\ passed = {} /\ overtaken = FALSE

-----------------------------------------------------------------------------
At(c, p) == pc[c] = p
Goto(c, p) == pc' = [pc EXCEPT ![c] = p]

\* The call is over: its locals are gone and its lock is released.
End(c) ==
  /\ Goto(c, "idle")
  /\ lock' = IF lock = c THEN Nobody ELSE lock
  /\ kind' = [kind EXCEPT ![c] = "read"]
  /\ source' = [source EXCEPT ![c] = NoCollection]
  /\ target' = [target EXCEPT ![c] = NoCollection]
  /\ todo' = [todo EXCEPT ![c] = {}] /\ copied' = [copied EXCEPT ![c] = 0]
  /\ view' = [view EXCEPT ![c] = NoCollection]
  /\ cancelled' = [cancelled EXCEPT ![c] = FALSE]

\* A ready manifest of the client's identity (_manifest_identity).
Compatible(c, g) == g \in Collection /\ manifest[g] = "ready" /\ space[g] = ident[c]

\* Mutant of Start: a write that is bound trusts the binding as well.
StartUnlocked(c) ==
  /\ At(c, "idle")
  /\ \E k \in {"read", "write"} :
       /\ kind' = [kind EXCEPT ![c] = k]
       /\ Goto(c, IF bound[c] # NoCollection THEN "check" ELSE "lock")
  /\ UNCHANGED <<server, lock, ident, bound, locals, history>>

(* A read asks current_embedding_binding first; a write takes the lock.    *)
Start(c) ==
  /\ At(c, "idle")
  /\ \E k \in {"read", "write"} :
       /\ kind' = [kind EXCEPT ![c] = k]
       /\ Goto(c, IF k = "read" /\ bound[c] # NoCollection THEN "check" ELSE "lock")
  /\ UNCHANGED <<server, lock, ident, bound, locals, history>>

\* The alias is read, then the generation is verified, both without the lock.
CheckAlias(c) ==
  /\ At(c, "check")
  /\ Goto(c, IF Active = bound[c] THEN "confirm" ELSE "lock")
  /\ UNCHANGED <<server, lock, ident, bound, kind, locals, history>>

Confirm(c) ==
  /\ At(c, "confirm")
  /\ IF Compatible(c, bound[c])
     THEN Goto(c, "use") /\ view' = [view EXCEPT ![c] = bound[c]]
     ELSE Goto(c, "lock") /\ UNCHANGED view
  /\ UNCHANGED <<server, lock, ident, bound, kind, source, target, todo, copied,
                 cancelled, history>>

\* Mutant of Acquire: the lock is one per client.
AcquireOwn(c) ==
  /\ At(c, "lock")
  /\ lock' = c
  /\ Goto(c, "source")
  /\ passed' = late \cap excused
  /\ UNCHANGED <<server, ident, bound, kind, locals, held, failed, excused, overtaken>>

Acquire(c) ==
  /\ At(c, "lock") /\ lock = Nobody
  /\ lock' = c
  /\ Goto(c, "source")
  /\ passed' = late \cap excused
  /\ UNCHANGED <<server, ident, bound, kind, locals, held, failed, excused, overtaken>>

ReadSource(c) ==
  /\ At(c, "source")
  /\ source' = [source EXCEPT ![c] = Active]
  /\ Goto(c, "decide")
  /\ UNCHANGED <<server, lock, ident, bound, kind, target, todo, copied, view,
                 cancelled, history>>

\* Mutant of Bind: a ready collection is good enough.
BindReady(c) ==
  /\ At(c, "decide") /\ source[c] \in Candidate /\ manifest[source[c]] = "ready"
  /\ bound' = [bound EXCEPT ![c] = source[c]]
  /\ view' = [view EXCEPT ![c] = source[c]]
  /\ Goto(c, "use")
  /\ UNCHANGED <<server, lock, ident, kind, source, target, todo, copied, cancelled, history>>

(* The source has the client's identity: it is verified and bound, by a    *)
(* new client, or by a bound one, whatever generation it was bound to.     *)
Bind(c) ==
  /\ At(c, "decide") /\ Compatible(c, source[c])
  /\ bound' = [bound EXCEPT ![c] = source[c]]
  /\ view' = [view EXCEPT ![c] = source[c]]
  /\ Goto(c, "use")
  /\ UNCHANGED <<server, lock, ident, kind, source, target, todo, copied, cancelled, history>>

(* A bound client that another identity superseded fails closed.           *)
Superseded(c) ==
  /\ At(c, "decide") /\ bound[c] # NoCollection
  /\ ~Compatible(c, source[c])
  /\ End(c)
  /\ UNCHANGED <<server, ident, bound, history>>

(* A fresh candidate under a new name, for an unbound client.              *)
Create(c) ==
  /\ At(c, "decide") /\ bound[c] = NoCollection
  /\ ~Compatible(c, source[c])
  /\ \E g \in Candidate :
       /\ g = Cardinality(exists \cap Candidate) + 1
       /\ exists' = exists \cup {g}
       /\ space' = [space EXCEPT ![g] = ident[c]]
       /\ target' = [target EXCEPT ![c] = g]
  /\ Goto(c, "stamp")
  /\ UNCHANGED <<manifest, points, alias, late, lock, ident, bound, kind, source, todo,
                 copied, view, cancelled, history>>

StampBuilding(c) ==
  /\ At(c, "stamp")
  /\ manifest' = [manifest EXCEPT ![target[c]] = "building"]
  /\ todo' = [todo EXCEPT ![c] = IF source[c] = NoCollection THEN {} ELSE Stored(source[c])]
  /\ Goto(c, "copy")
  /\ UNCHANGED <<exists, space, points, alias, late, lock, ident, bound, kind, source,
                 target, copied, view, cancelled, history>>

(* One document is embedded anew and written; the transport may lose it,   *)
(* and one without text is left to the finalizer.                          *)
Copy(c, d) ==
  /\ At(c, "copy") /\ d \in todo[c]
  /\ todo' = [todo EXCEPT ![c] = @ \ {d}]
  /\ IF d \in SourceBacked THEN UNCHANGED <<points, copied>>
     ELSE /\ copied' = [copied EXCEPT ![c] = @ + 1]
          /\ \/ points' = [points EXCEPT ![target[c]][d] = ident[c]]
             \/ UNCHANGED points
  /\ UNCHANGED <<exists, space, manifest, alias, late, lock, ident, bound, pc, kind,
                 source, target, view, cancelled, history>>

\* Mutant of CountPoints: the copy is taken at its word.
TrustCopy(c) ==
  /\ At(c, "copy") /\ todo[c] = {}
  /\ Goto(c, "finalize")
  /\ UNCHANGED <<server, lock, ident, bound, kind, locals, history>>

\* client.count, less the manifest, is what the copy says it wrote.
CountPoints(c) ==
  /\ At(c, "copy") /\ todo[c] = {}
  /\ Cardinality(Stored(target[c])) = copied[c]
  /\ Goto(c, "finalize")
  /\ UNCHANGED <<server, lock, ident, bound, kind, locals, history>>

\* finalize_candidate rebuilds what the copy omitted, or raises.
Finalize(c) ==
  /\ At(c, "finalize")
  /\ points' = [points EXCEPT ![target[c]] =
                  [d \in Document |-> IF d \in SourceBacked \cap held THEN ident[c] ELSE @[d]]]
  /\ Goto(c, "ready")
  /\ UNCHANGED <<exists, space, manifest, alias, late, lock, ident, bound, kind, locals, history>>

StampReady(c) ==
  /\ At(c, "ready")
  /\ manifest' = [manifest EXCEPT ![target[c]] = "ready"]
  /\ Goto(c, "publish")
  /\ UNCHANGED <<exists, space, points, alias, late, lock, ident, bound, kind, locals, history>>

(* The alias request is answered; a put-off cancellation is raised now,    *)
(* and the binding is not set.                                             *)
Publish(c) ==
  /\ At(c, "publish")
  /\ alias' = target[c]
  /\ IF cancelled[c] THEN End(c) /\ UNCHANGED bound
     ELSE /\ bound' = [bound EXCEPT ![c] = target[c]]
          /\ view' = [view EXCEPT ![c] = target[c]]
          /\ Goto(c, "use")
          /\ UNCHANGED <<lock, kind, source, target, todo, copied, cancelled>>
  /\ UNCHANGED <<exists, space, manifest, points, late, ident, history>>

(* The request fails, is done without an answer, or is left to the server. *)
PublishFails(c) ==
  /\ At(c, "publish")
  /\ \/ UNCHANGED <<alias, late, excused>>
     \/ alias' = target[c] /\ UNCHANGED <<late, excused>>
     \/ /\ late' = late \cup {target[c]} /\ excused' = excused \cup {target[c]}
        /\ UNCHANGED alias
  /\ failed' = failed \cup {target[c]}
  /\ End(c)
  /\ UNCHANGED <<exists, space, manifest, points, ident, bound, held, passed, overtaken>>

ExecuteLate(g) ==
  /\ g \in late
  /\ alias' = g /\ late' = late \ {g}
  /\ overtaken' = (overtaken \/ g \in passed)
  /\ UNCHANGED <<exists, space, manifest, points, lock, ident, bound, pc, kind, locals,
                 held, failed, excused, passed>>

(* An embedding, a request or a check fails before the publication.        *)
Fail(c) ==
  /\ pc[c] \in {"check", "confirm", "source", "decide"} \cup Building
  /\ failed' = IF pc[c] \in Building THEN failed \cup {target[c]} ELSE failed
  /\ End(c)
  /\ UNCHANGED <<server, ident, bound, held, excused, passed, overtaken>>

\* Mutant of Cancel: the alias request is abandoned like any other await.
CancelAnywhere(c) ==
  /\ pc[c] # "idle"
  /\ late' = IF At(c, "publish") THEN late \cup {target[c]} ELSE late
  /\ End(c)
  /\ UNCHANGED <<exists, space, manifest, points, alias, ident, bound, history>>

(* A cancellation is raised at once, but _publish shields its request.     *)
Cancel(c) ==
  /\ pc[c] # "idle"
  /\ IF At(c, "publish")
     THEN /\ cancelled' = [cancelled EXCEPT ![c] = TRUE]
          /\ UNCHANGED <<lock, pc, kind, source, target, todo, copied, view>>
     ELSE End(c)
  /\ UNCHANGED <<server, ident, bound, history>>

\* The process dies, and a client of any identity takes its place.
Restart(c) ==
  /\ IF At(c, "publish")
     THEN late' = late \cup {target[c]} /\ excused' = excused \cup {target[c]}
     ELSE UNCHANGED <<late, excused>>
  /\ bound' = [bound EXCEPT ![c] = NoCollection]
  /\ \E i \in Identity : ident' = [ident EXCEPT ![c] = i]
  /\ End(c)
  /\ UNCHANGED <<exists, space, manifest, points, alias, held, failed, passed, overtaken>>

(* The search that the collection was wanted for.                          *)
Search(c) ==
  /\ At(c, "use") /\ kind[c] = "read"
  /\ End(c)
  /\ UNCHANGED <<server, ident, bound, history>>

(* The indexer stores or deletes a document under the same lock.           *)
Write(c, d) ==
  /\ At(c, "use") /\ kind[c] = "write"
  /\ \/ /\ points' = [points EXCEPT ![view[c]][d] = ident[c]]
        /\ held' = held \cup {d}
     \/ /\ points' = [points EXCEPT ![view[c]][d] = Absent]
        /\ held' = held \ {d}
  /\ End(c)
  /\ UNCHANGED <<exists, space, manifest, alias, late, ident, bound, failed, excused, passed, overtaken>>

(* A read that took the lock to bind gives it up before it searches.       *)
Release(c) ==
  /\ At(c, "use") /\ kind[c] = "read" /\ lock = c
  /\ lock' = Nobody
  /\ UNCHANGED <<server, ident, bound, pc, kind, locals, history>>

Next ==
  \/ \E c \in Client :
       \/ Start(c) \/ CheckAlias(c) \/ Confirm(c) \/ Acquire(c) \/ ReadSource(c)
       \/ Bind(c) \/ Superseded(c) \/ Create(c) \/ StampBuilding(c)
       \/ \E d \in Document : Copy(c, d) \/ Write(c, d)
       \/ CountPoints(c) \/ Finalize(c) \/ StampReady(c) \/ Publish(c) \/ PublishFails(c)
       \/ Fail(c) \/ Cancel(c) \/ Restart(c) \/ Search(c) \/ Release(c)
  \/ \E g \in Candidate : ExecuteLate(g)

Spec == Init /\ [][Next]_vars

\* Clients differ in their identities only, which are alike: for TLC.
Symmetry == Permutations(Client) \cup Permutations(Identity)

-----------------------------------------------------------------------------
(* Collections, bindings and locals are well formed, and a call is not at  *)
(* the work of a lock holder without the lock.                             *)
TypeOK ==
  /\ exists \subseteq Collection /\ late \subseteq exists \cap Candidate /\ failed \subseteq exists
  /\ space \in [Collection -> Identity \cup {Unknown}]
  /\ manifest \in [Collection -> {"none", "building", "ready"}]
  /\ points \in [Collection -> [Document -> Identity \cup {Unknown, Absent}]]
  /\ alias \in (exists \cap Candidate) \cup {NoCollection}
  /\ lock \in Client \cup {Nobody} /\ ident \in [Client -> Identity]
  /\ bound \in [Client -> Candidate \cup {NoCollection}]
  /\ pc \in [Client -> Place] /\ kind \in [Client -> {"read", "write"}]
  /\ source \in [Client -> Collection \cup {NoCollection}]
  /\ target \in [Client -> Candidate \cup {NoCollection}]
  /\ view \in [Client -> Candidate \cup {NoCollection}]
  /\ todo \in [Client -> SUBSET Document] /\ copied \in [Client -> Nat]
  /\ cancelled \in [Client -> BOOLEAN] /\ held \subseteq Document
  /\ \A c \in Client : pc[c] \notin {"idle", "check", "confirm", "lock", "use"} => lock = c

(* "Bind to a complete compatible generation, rebuilding reversibly": the  *)
(* active collection holds exactly the documents that were acknowledged,   *)
(* through migrations between identities, failures, cancellations, deaths  *)
(* and retries; only a publication whose reply or client was lost, and     *)
(* which is executed after somebody else had the lock, may break this.     *)
ActiveIsComplete ==
  ~overtaken /\ Active # NoCollection => Stored(Active) = held

(* Vectors of two embedding spaces never meet: what a client reads or      *)
(* writes in was built for its identity, every vector in it.               *)
SpacesNeverMix ==
  \A c \in Client :
    pc[c] = "use" => \A d \in Document : points[view[c]][d] \in {ident[c], Absent}

(* A write goes to the collection that searches are sent to, although its  *)
(* client may have bound long ago and others have published since.         *)
WritesGoToTheActive ==
  \A c \in Client :
    pc[c] = "use" /\ kind[c] = "write" /\ ~overtaken => view[c] = Active

(* What an alias or a manifest makes active has all of its documents.      *)
ActiveIsWhole == TypeOK /\ ActiveIsComplete

(* Docstring of ensure_embedding_collection (storage/embedding_migration.py*)
(* :637-638): "Failed candidates are retained and never published."        *)
FailedNeverPublished == alias \notin failed

-----------------------------------------------------------------------------
\* What the proofs need besides.

\* Candidates are created in order, under fresh names, and hold vectors of their space.
CollectionInv ==
  /\ exists \cap Candidate = 1 .. Cardinality(exists \cap Candidate)
  /\ manifest[Legacy] = "none"
  /\ \A g \in Candidate :
       /\ g \notin exists => points[g] = Empty /\ manifest[g] = "none"
       /\ \A d \in Document : points[g][d] \in {space[g], Absent}

\* A call builds a candidate that nobody else knows, or uses one of its identity.
CallOK(c) ==
  /\ pc[c] \in {"check", "confirm"} => kind[c] = "read" /\ bound[c] # NoCollection
  /\ pc[c] = "use" => /\ view[c] \in exists \cap Candidate /\ space[view[c]] = ident[c]
                      /\ kind[c] = "write" => lock = c
  /\ pc[c] \in Building \cup {"publish"} =>
       /\ target[c] \in exists \cap Candidate /\ space[target[c]] = ident[c]
       /\ target[c] # alias /\ target[c] \notin late
  /\ pc[c] = "stamp" => points[target[c]] = Empty
  /\ pc[c] \in {"idle", "check", "confirm", "lock", "source", "decide", "stamp"} => copied[c] = 0

\* A publication is late for whoever has the lock, and what is late for nobody is whole.
LateInv ==
  /\ late \subseteq excused
  /\ lock # Nobody => late \subseteq passed
  /\ ~overtaken => \A g \in late \ passed : Stored(g) = held

\* While it has the lock, a client knows the source, and fills its candidate step by step.
BuildOK(c) ==
  /\ pc[c] \in {"decide"} \cup Building => source[c] = Active
  /\ pc[c] = "copy" => /\ todo[c] \subseteq held
                       /\ Stored(target[c]) \subseteq (held \ todo[c]) \ SourceBacked
                       /\ copied[c] = Cardinality((held \ todo[c]) \ SourceBacked)
  /\ pc[c] = "finalize" => Stored(target[c]) = held \ SourceBacked
  /\ pc[c] \in {"ready", "publish"} => Stored(target[c]) = held

\* The active collection is that of `held`, and a candidate becomes so.
WholeInv == ~overtaken =>
  /\ IF Active = NoCollection THEN held = {} ELSE Stored(Active) = held
  /\ \A c \in Client : BuildOK(c)

IInv == TypeOK /\ CollectionInv /\ (\A c \in Client : CallOK(c)) /\ LateInv /\ WholeInv /\ WritesGoToTheActive
=============================================================================
