---------------------------- MODULE GlossaryStore ----------------------------
(***************************************************************************)
(* GlossaryStore (glossary/store.py): entries with a term and aliases, in  *)
(* two tables that several clients change, each on a connection of its own.*)
(*                                                                         *)
(* What is looked up before a write is one step, and the transaction that  *)
(* writes is another. Names are compared without their case, except by the *)
(* constraint on terms.                                                    *)
(***************************************************************************)
EXTENDS Naturals, FiniteSets

CONSTANTS Client, Id,
          Name,        \* spellings
          Normal,      \* a spelling in lower case: a function on Name
          Text,        \* expansions and definitions
          None

GlossaryAssumption ==
  /\ None \notin Client
  /\ \A A \in SUBSET {Normal[a] : a \in Name} : A # None

VARIABLES
  entries,   \* glossary_entries: [term, text, hash] for some ids
  aliases,   \* glossary_aliases: the id of some names in lower case
  op, lock,
  exclusive, \* clients hold the lock of the collection from the look to the write
  raised     \* clients whose last lookup raised GlossaryNotFoundError

vars == <<entries, aliases, op, lock, exclusive, raised>>

Ids == DOMAIN entries
Idle == [kind |-> "idle"]

Init ==
  /\ entries = [i \in {} |-> 0] /\ aliases = [n \in {} |-> 0]
  /\ op = [c \in Client |-> Idle] /\ lock = None /\ raised = {}
  /\ exclusive \in BOOLEAN

-----------------------------------------------------------------------------
Lower(A) == {Normal[a] : a \in A}
AliasesOf(i) == {n \in DOMAIN aliases : aliases[n] = i}

\* _compute_entry_hash
Hash(term, text, lower) == <<term, text, lower>>

\* Mutant of ExistsForOther: aliases are not looked at.
ExistsAsTerm(a, i) == \E j \in Ids \ {i} : Normal[entries[j].term] = Normal[a]

\* _exists_for_other_entry, and exists_term for an id that is new.
ExistsForOther(a, i) ==
  \/ \E j \in Ids \ {i} : Normal[entries[j].term] = Normal[a]
  \/ \E n \in DOMAIN aliases : n = Normal[a] /\ aliases[n] # i

\* _ensure_aliases_insertable
Insertable(A, i) ==
  /\ Cardinality(Lower(A)) = Cardinality(A)
  /\ \A a \in A : ~ExistsForOther(a, i)

Take(c) == lock \in {None, c} /\ lock' = IF exclusive THEN c ELSE None

\* The client is done, and gives the lock up.
Done(c) == op' = [op EXCEPT ![c] = Idle] /\ lock' = IF lock = c THEN None ELSE lock

\* Other ids: create returns a new one each time (bound: Id).
Free == {i \in Id \ Ids : \A c \in Client : op[c].kind = "idle" \/ op[c].id # i}

CreateCheck(c, term, text, A) ==
  /\ op[c].kind = "idle" /\ Take(c)
  /\ \E i \in Free :
       /\ ~ExistsForOther(term, i) /\ Insertable(A, i)
       /\ op' = [op EXCEPT ![c] =
            [kind |-> "create", id |-> i, term |-> term, text |-> text, names |-> Lower(A)]]
  /\ raised' = raised \ {c} /\ UNCHANGED <<entries, aliases>>

\* The rows are consistent: the term is UNIQUE, and a name is one alias at the most.
Allowed(i, term, lower) ==
  /\ \A j \in Ids \ {i} : entries[j].term # term
  /\ \A n \in lower \cap DOMAIN aliases : aliases[n] = i

\* Row i and its aliases are replaced.
Put(i, term, text, hash, lower) ==
  /\ entries' = [j \in Ids \cup {i} |->
       IF j = i THEN [term |-> term, text |-> text, hash |-> hash] ELSE entries[j]]
  /\ aliases' = [n \in (DOMAIN aliases \ AliasesOf(i)) \cup lower |->
       IF n \in lower THEN i ELSE aliases[n]]

\* The transaction of create, which is rolled back if a row cannot be inserted.
CreateWrite(c) ==
  /\ op[c].kind = "create" /\ Done(c) /\ UNCHANGED raised
  /\ LET o == op[c]
     IN IF Allowed(o.id, o.term, o.names)
        THEN Put(o.id, o.term, o.text, Hash(o.term, o.text, o.names), o.names)
        ELSE UNCHANGED <<entries, aliases>>

\* Mutant of UpdateRead: the hash is computed before the aliases are applied.
UpdateReadEarlyHash(c, i, term, text, A) ==
  /\ op[c].kind = "idle" /\ i \in Ids /\ Take(c)
  /\ term \notin {None, entries[i].term} => ~ExistsForOther(term, i)
  /\ A # None => Insertable(A, i)
  /\ op' = [op EXCEPT ![c] =
       [kind |-> "update", id |-> i, term |-> term, text |-> text,
        names |-> IF A = None THEN None ELSE Lower(A),
        hash |-> Hash(IF term = None THEN entries[i].term ELSE term,
                      IF text = None THEN entries[i].text ELSE text, AliasesOf(i))]]
  /\ raised' = raised \ {c} /\ UNCHANGED <<entries, aliases>>

\* update reads the entry and looks at its new names. What is not given is None.
UpdateRead(c, i, term, text, A) ==
  /\ op[c].kind = "idle" /\ i \in Ids /\ Take(c)
  /\ term \notin {None, entries[i].term} => ~ExistsForOther(term, i)
  /\ A # None => Insertable(A, i)
  /\ op' = [op EXCEPT ![c] =
       [kind |-> "update", id |-> i, term |-> term, text |-> text,
        names |-> IF A = None THEN None ELSE Lower(A),
        hash |-> Hash(IF term = None THEN entries[i].term ELSE term,
                      IF text = None THEN entries[i].text ELSE text,
                      IF A = None THEN AliasesOf(i) ELSE Lower(A))]]
  /\ raised' = raised \ {c} /\ UNCHANGED <<entries, aliases>>

\* Mutant of UpdateWrite: foreign keys are not enforced.
UpdateWriteUnchecked(c) ==
  /\ op[c].kind = "update" /\ Done(c) /\ UNCHANGED raised
  /\ LET o == op[c] IN
     IF o.id \in Ids
     THEN Put(o.id, IF o.term = None THEN entries[o.id].term ELSE o.term,
              IF o.text = None THEN entries[o.id].text ELSE o.text, o.hash,
              IF o.names = None THEN AliasesOf(o.id) ELSE o.names)
     ELSE /\ aliases' = [n \in DOMAIN aliases \cup (IF o.names = None THEN {} ELSE o.names) |->
                           IF n \in DOMAIN aliases THEN aliases[n] ELSE o.id]
          /\ UNCHANGED entries

\* The transaction of update: what was given is written, with the hash of what was
\* read. It is rolled back if a row is not allowed, or if the entry is gone.
UpdateWrite(c) ==
  /\ op[c].kind = "update" /\ Done(c) /\ UNCHANGED raised
  /\ LET o == op[c]
         term == IF o.term = None THEN entries[o.id].term ELSE o.term
         lower == IF o.names = None THEN AliasesOf(o.id) ELSE o.names
     IN IF o.id \in Ids /\ Allowed(o.id, term, lower)
        THEN Put(o.id, term, IF o.text = None THEN entries[o.id].text ELSE o.text, o.hash, lower)
        ELSE UNCHANGED <<entries, aliases>>

\* delete, with its aliases (ON DELETE CASCADE).
Delete(c, i) ==
  /\ op[c].kind = "idle" /\ i \in Ids /\ lock = None
  /\ entries' = [j \in Ids \ {i} |-> entries[j]]
  /\ aliases' = [n \in DOMAIN aliases \ AliasesOf(i) |-> aliases[n]]
  /\ UNCHANGED <<op, lock, raised>>

\* lookup finds an id as a term, else as an alias, and reads the entry next.
LookupFind(c, a) ==
  /\ op[c].kind = "idle"
  /\ \E i \in Ids :
       /\ \/ Normal[entries[i].term] = Normal[a]
          \/ /\ \A j \in Ids : Normal[entries[j].term] # Normal[a]
             /\ Normal[a] \in AliasesOf(i)
       /\ op' = [op EXCEPT ![c] = [kind |-> "lookup", id |-> i]]
  /\ raised' = raised \ {c} /\ UNCHANGED <<entries, aliases, lock>>

LookupRead(c) ==
  /\ op[c].kind = "lookup" /\ op' = [op EXCEPT ![c] = Idle]
  /\ raised' = IF op[c].id \in Ids THEN raised ELSE raised \cup {c}
  /\ UNCHANGED <<entries, aliases, lock>>

Step(c) ==
  \/ \E term \in Name, text \in Text, A \in SUBSET Name :
       Cardinality(A) <= 2 /\ CreateCheck(c, term, text, A)
  \/ \E i \in Id, term \in Name \cup {None}, text \in Text \cup {None}, A \in {None} \cup SUBSET Name :
       UpdateRead(c, i, term, text, A)
  \/ CreateWrite(c) \/ UpdateWrite(c) \/ LookupRead(c)
  \/ \E i \in Id : Delete(c, i)
  \/ \E a \in Name : LookupFind(c, a)

\* The lock is asked for by all clients or by none.
Next == (\E c \in Client : Step(c)) /\ UNCHANGED exclusive

Spec == Init /\ [][Next]_vars

-----------------------------------------------------------------------------
Entry == [term : Name, text : Text, hash : Name \X Text \X SUBSET Lower(Name)]

Operation ==
  [kind : {"idle"}]
  \cup [kind : {"create"}, id : Id, term : Name, text : Text, names : SUBSET Lower(Name)]
  \cup [kind : {"update"}, id : Id, term : Name \cup {None}, text : Text \cup {None},
        names : {None} \cup SUBSET Lower(Name), hash : Name \X Text \X SUBSET Lower(Name)]
  \cup [kind : {"lookup"}, id : Id]

TypeOK ==
  /\ Ids \subseteq Id /\ entries \in [Ids -> Entry]
  /\ DOMAIN aliases \subseteq Lower(Name) /\ aliases \in [DOMAIN aliases -> Ids]
  /\ op \in [Client -> Operation] /\ raised \subseteq Client
  /\ exclusive \in BOOLEAN
  /\ lock \in Client \cup {None} /\ (exclusive \/ lock = None)

Means(n, i) == Normal[entries[i].term] = n \/ n \in AliasesOf(i)

(* "TermExistsError: If term or any alias already exists": a name, in any  *)
(* case, is the term or an alias of one entry at the most, however entries *)
(* are created, renamed and given other aliases.                           *)
NameMeansOne ==
  \A n \in Lower(Name) : \A i, j \in Ids : Means(n, i) /\ Means(n, j) => i = j

(* "the stored entry_hash reflects alias changes": the hash by which       *)
(* changes are detected is the one of the term, the texts and the aliases  *)
(* that are stored.                                                        *)
HashMatches ==
  \A i \in Ids : entries[i].hash = Hash(entries[i].term, entries[i].text, AliasesOf(i))

(* Under the lock a name means one entry, and hashes match.                *)
NamesMeanOne == TypeOK /\ (exclusive => NameMeansOne /\ HashMatches)

(* lookup returns a "GlossaryEntry or None if not found": it does not      *)
(* raise.                                                                  *)
LookupReturns == raised = {}

-----------------------------------------------------------------------------
(* The inductive invariant.                                                *)

\* No entry but i means n.
MeansNoOther(n, i) == \A j \in Ids : Means(n, j) => j = i

\* What was looked up under the lock still holds: the names that a client is about
\* to write are no other entry's, and the hash is that of what will be stored.
CreateOK(c) ==
  LET o == op[c]
  IN  /\ o.id \notin Ids
      /\ \A n \in {Normal[o.term]} \cup o.names : MeansNoOther(n, o.id)

UpdateOK(c) ==
  LET o == op[c]
      term == IF o.term = None THEN entries[o.id].term ELSE o.term
      text == IF o.text = None THEN entries[o.id].text ELSE o.text
      lower == IF o.names = None THEN AliasesOf(o.id) ELSE o.names
  IN  /\ o.id \in Ids /\ o.hash = Hash(term, text, lower)
      /\ \A n \in {Normal[term]} \cup lower : MeansNoOther(n, o.id)

IInv ==
  /\ TypeOK
  /\ exclusive =>
       /\ NameMeansOne /\ HashMatches
       /\ \A c \in Client :
            /\ op[c].kind \in {"create", "update"} <=> lock = c
            /\ op[c].kind = "create" => CreateOK(c)
            /\ op[c].kind = "update" => UpdateOK(c)
=============================================================================
