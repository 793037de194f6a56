------------------------------- MODULE MCStores -------------------------------
(***************************************************************************)
(* The stores of facts and of glossary entries and the search over the     *)
(* graph of facts, for TLC. TLC looks at one of them at a time: `part`     *)
(* says which one takes steps, and the others stay as they began.          *)
(***************************************************************************)
EXTENDS Stores, TLC

CONSTANTS client1, client2, id1, id2, id3, id4, hat, coat, doc, Usaf, USAF, Api, usaf, api, x, y

VARIABLE part

factVars == <<db, txn, op, gone, timeouts, used>>
glossaryVars == <<entries, aliases, call, lock, exclusive, raised>>
graphVars == <<graph, stored, query, queue, visited, collected, paths, node, rows, pc>>

\* One document, whose sources are marked one by one or all at once.
Types == [d \in Doc |-> "document"]
Marks == {[type |-> "document", doc |-> doc], [type |-> "document", doc |-> None]}

\* Three spellings of two names.
LowerCase == Usaf :> usaf @@ USAF :> usaf @@ Api :> api

\* All graphs of three facts between four entities, two of one name (up to the names of
\* the facts, which play no part), and those in which three entities are next to one: too
\* many to be searched from, while a fourth fact leads on.
E(n, t) == [name |-> n, type |-> t]
Near == <<E("a", 1), E("a", 2), E("b", 1), E("c", 1)>>
Entities == {Near[n] : n \in DOMAIN Near} \cup {E("d", 1)}
Arc(n) == [s |-> Near[(n \div 4) + 1], o |-> Near[(n % 4) + 1]]
Triangles ==
  {id1 :> Arc(t[1]) @@ id2 :> Arc(t[2]) @@ id3 :> Arc(t[3]) :
     t \in {n \in [1 .. 3 -> 0 .. 15] : n[1] <= n[2] /\ n[2] <= n[3]}}
Hub == id1 :> E("a", 2) @@ id2 :> E("b", 1) @@ id3 :> E("d", 1)
Hubs ==
  {[f \in Edge |-> IF f = id4 THEN last ELSE [s |-> E("a", 1), o |-> Hub[f]]] :
     last \in [s : Entities \ {E("a", 1)}, o : {E("c", 1)}]}
AllGraphs == Triangles \cup Hubs
Q(n, t, o, u) == [name |-> n, type |-> t, target |-> o, ttype |-> u]
AllQueries ==
  {Q("a", None, None, None), Q("a", 1, None, None), Q("a", 1, "c", None), Q("b", None, "a", 2)}

ASSUME FactStoreAssumption /\ Names!GlossaryAssumption /\ Graph!GraphAssumption

-----------------------------------------------------------------------------
NoSearch ==
  /\ graph = [f \in {} |-> 0] /\ stored = {} /\ query = Q("a", None, None, None) /\ queue = <<>>
  /\ visited = {} /\ collected = {} /\ paths = <<>> /\ node = None /\ rows = {} /\ pc = "search"

PartInit ==
  /\ part \in {"facts", "late", "locked", "free", "graph"}
  /\ Init /\ Names!Init /\ exclusive = (part = "locked")
  /\ IF part = "graph" THEN Graph!Init ELSE NoSearch

\* Nobody waits for the lock in vain, or (`late`, where there is one kind of fact and
\* two ids) somebody does, which rolls back or leaves a transaction open.
InTime == timeouts = {}
Late == Ids(db) \subseteq {id1, id2} /\ \A c \in Client : op[c].kind = "create" => op[c].spo = hat

\* Who asks for no lock (`free`) does so with two entries, two spellings and one text.
Few ==
  /\ \A i \in DOMAIN entries : /\ i \in {id1, id2} /\ entries[i].term \in {Usaf, USAF}
                              /\ entries[i].text = x
  /\ DOMAIN aliases \subseteq {usaf}
  /\ \A c \in Client : call[c].kind # "idle" => call[c].id \in {id1, id2}
  /\ \A c \in Client : call[c].kind \in {"create", "update"} =>
       /\ call[c].term \in {Usaf, USAF, None} /\ call[c].text \in {x, None}
       /\ call[c].names \in SUBSET {usaf} \cup {None}

\* One fact is deleted while a search goes on.
OneDeleted == Cardinality(DOMAIN graph \ stored) <= 1

PartSpec ==
  /\ PartInit
  /\ [][ /\ UNCHANGED part
         /\ \/ part = "facts" /\ Next /\ InTime' /\ UNCHANGED <<glossaryVars, graphVars>>
            \/ part = "late" /\ Next /\ Late' /\ UNCHANGED <<glossaryVars, graphVars>>
            \/ part = "locked" /\ Names!Next /\ UNCHANGED <<factVars, graphVars>>
            \/ part = "free" /\ Names!Next /\ Few' /\ UNCHANGED <<factVars, graphVars>>
            \/ part = "graph" /\ Graph!Next /\ OneDeleted' /\ UNCHANGED <<factVars, glossaryVars>>
       ]_<<part, factVars, glossaryVars, graphVars>>
=============================================================================
