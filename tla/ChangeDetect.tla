---------------------------- MODULE ChangeDetect -----------------------------
(***************************************************************************)
(* ChangeDetector (indexing/change_detect.py) over FileDiscovery           *)
(* (indexing/discovery.py): a scan of the times and sizes of the files,    *)
(* and a second walk that reads them if the first one found a candidate.   *)
(* Files are written while they are walked over, and each is looked at in  *)
(* a step of its own. The caller then brings its index up to date.         *)
(*                                                                         *)
(* A file that the filters exclude is not in File.                         *)
(***************************************************************************)
EXTENDS Naturals, FiniteSets

CONSTANTS File, Content,
          Size,       \* the size of a content: a function; nobody indexes 0
          MaxTime,    \* bound: the times of files
          MaxEdits,   \* bound: writes and removals
          MaxErrors,  \* bound: files that could not be looked at
          Absent

ChangeAssumption ==
  /\ Size \in [Content -> Nat] /\ MaxTime \in Nat /\ {MaxEdits, MaxErrors} \subseteq Nat
  /\ Absent \notin [content : Content, mtime : 0 .. MaxTime]
                \cup [hash : Content, mtime : 0 .. MaxTime, size : Nat]

VARIABLES
  disk,     \* the content and time of each file, or Absent
  edits, errors,
  index,    \* what the caller recorded of each file: [hash, mtime, size], or Absent
  phase, left,
  stats,    \* the first walk: [mtime, size] of the files that it saw
  reading,  \* the file of which the second walk has the stat, as it was then
  changes,  \* the ChangeSet in the making
  quiet,    \* history: no file has been written since the pass began
  overlooked, \* history: the pass has met an error
  had,      \* history: the times and sizes that each file has had
  alike     \* history: the files that were given a time and size that they had had before

history == <<had, alike>>
vars ==
  <<disk, edits, errors, index, phase, left, stats, reading, changes, quiet, overlooked, history>>

Nothing == [f \in {} |-> Absent]
NoChanges == [added |-> Nothing, modified |-> Nothing, deleted |-> {}]
Indexed == {f \in File : index[f] # Absent}

\* A file with a size within the limits is walked over.
Visible(f) == disk[f] # Absent /\ Size[disk[f].content] > 0
Stat(d) == [mtime |-> d.mtime, size |-> Size[d.content]]

\* What is recorded of a file with the stat of d and the contents c.
Entry(d, c) == [hash |-> c, mtime |-> d.mtime, size |-> Size[d.content]]

Extended(s, f, d) == [g \in DOMAIN s \cup {f} |-> IF g = f THEN d ELSE s[g]]

Init ==
  /\ disk = [f \in File |-> Absent] /\ index = [f \in File |-> Absent]
  /\ edits = 0 /\ errors = 0 /\ phase = "idle" /\ left = {}
  /\ stats = Nothing /\ reading = Nothing /\ changes = NoChanges
  /\ quiet = TRUE /\ overlooked = FALSE /\ had = [f \in File |-> {}] /\ alike = {}

-----------------------------------------------------------------------------
\* Somebody writes, or removes, a file. Its time is what the file system and its writer
\* make of it: that of a write just before, or an earlier one that is restored.
Edit ==
  /\ edits < MaxEdits /\ edits' = edits + 1 /\ quiet' = FALSE
  /\ \E f \in File, d \in {Absent} \cup [content : Content, mtime : 0 .. MaxTime] :
       /\ disk[f] # d /\ disk' = [disk EXCEPT ![f] = d]
       /\ IF d = Absent THEN UNCHANGED history
          ELSE /\ had' = [had EXCEPT ![f] = @ \cup {Stat(d)}]
               /\ alike' = IF Stat(d) \in had[f] THEN alike \cup {f} ELSE alike
  /\ UNCHANGED <<errors, index, phase, left, stats, reading, changes, overlooked>>

Begin ==
  /\ phase = "idle" /\ phase' = "scan" /\ left' = File
  /\ stats' = Nothing /\ changes' = NoChanges /\ quiet' = TRUE /\ overlooked' = FALSE
  /\ UNCHANGED <<history, disk, edits, errors, index, reading>>

\* A file that is not walked over, or that cannot be looked at, is passed over.
PassOver(f) ==
  \/ ~Visible(f) /\ UNCHANGED <<errors, overlooked>>
  \/ /\ Visible(f) /\ errors < MaxErrors
     /\ errors' = errors + 1 /\ overlooked' = TRUE

Scan(f) ==
  /\ phase = "scan" /\ f \in left /\ left' = left \ {f}
  /\ \/ /\ Visible(f) /\ UNCHANGED <<errors, overlooked>>
        /\ stats' = Extended(stats, f, Stat(disk[f]))
     \/ PassOver(f) /\ UNCHANGED stats
  /\ UNCHANGED <<history, disk, edits, index, phase, reading, changes, quiet>>

New == DOMAIN stats \ Indexed

\* Mutant of Suspected: the size alone is compared.
SuspectedBySize == {f \in DOMAIN stats \cap Indexed : stats[f].size # index[f].size}

\* The candidates: another time or size, or no time in the index.
Suspected == {f \in DOMAIN stats \cap Indexed :
  stats[f].mtime # index[f].mtime \/ stats[f].size # index[f].size \/ index[f].mtime = 0}

\* What was not seen is deleted. Without candidates nothing is read.
Classify ==
  /\ phase = "scan" /\ left = {}
  /\ changes' = [changes EXCEPT !.deleted = Indexed \ DOMAIN stats]
  /\ IF New \cup Suspected = {} THEN phase' = "done" /\ UNCHANGED left
     ELSE phase' = "discover" /\ left' = File
  /\ UNCHANGED <<history, disk, edits, errors, index, stats, reading, quiet, overlooked>>

\* The second walk has the stat of a file, and reads it next.
Look(f) ==
  /\ phase = "discover" /\ f \in left /\ left' = left \ {f}
  /\ reading = Nothing
  /\ \/ Visible(f) /\ reading' = [g \in {f} |-> disk[f]] /\ UNCHANGED <<errors, overlooked>>
     \/ PassOver(f) /\ UNCHANGED reading
  /\ UNCHANGED <<history, disk, edits, index, phase, stats, changes, quiet>>

\* Mutant of Record: what is not new is modified.
RecordAll(f, d) ==
  /\ reading' = Nothing
  /\ IF f \in New THEN changes' = [changes EXCEPT !.added = Extended(@, f, d)]
     ELSE changes' = [changes EXCEPT !.modified = Extended(@, f, d)]

\* A file that was not there at the first walk, or not suspected, is left out.
Record(f, d) ==
  /\ reading' = Nothing
  /\ IF f \in New THEN changes' = [changes EXCEPT !.added = Extended(@, f, d)]
     ELSE IF f \in Suspected /\ d.hash # index[f].hash
     THEN changes' = [changes EXCEPT !.modified = Extended(@, f, d)]
     ELSE UNCHANGED changes

\* Mutant of Read: the file was read before its stat was had.
ReadBeforeStat(f) ==
  /\ f \in DOMAIN reading
  /\ IF disk[f] = Absent THEN reading' = Nothing /\ UNCHANGED changes
     ELSE Record(f, Entry(disk[f], reading[f].content))
  /\ UNCHANGED <<history, disk, edits, errors, index, phase, left, stats, quiet, overlooked>>

\* A file that is gone by now is passed over.
Read(f) ==
  /\ f \in DOMAIN reading
  /\ IF disk[f] = Absent THEN reading' = Nothing /\ UNCHANGED changes
     ELSE Record(f, Entry(reading[f], disk[f].content))
  /\ UNCHANGED <<history, disk, edits, errors, index, phase, left, stats, quiet, overlooked>>

EndWalk ==
  /\ phase = "discover" /\ left = {} /\ reading = Nothing /\ phase' = "done"
  /\ UNCHANGED <<history, disk, edits, errors, index, left, stats, reading, changes, quiet,
                 overlooked>>

\* The caller records what is reported.
Apply ==
  /\ phase = "done" /\ phase' = "idle"
  /\ index' = [f \in File |->
       IF f \in DOMAIN changes.added THEN changes.added[f]
       ELSE IF f \in DOMAIN changes.modified THEN changes.modified[f]
       ELSE IF f \in changes.deleted THEN Absent ELSE index[f]]
  /\ UNCHANGED <<history, disk, edits, errors, left, stats, reading, changes, quiet, overlooked>>

\* The index is of a caller of detect_changes, which keeps hashes only.
Forget ==
  /\ phase = "idle"
  /\ index' = [f \in File |->
       IF index[f] = Absent THEN Absent ELSE [index[f] EXCEPT !.mtime = 0, !.size = 0]]
  /\ UNCHANGED <<history, disk, edits, errors, phase, left, stats, reading, changes, quiet,
                 overlooked>>

Next ==
  \/ Edit \/ Begin \/ Classify \/ EndWalk \/ Apply \/ Forget
  \/ \E f \in File : Scan(f) \/ Look(f) \/ Read(f)

Spec == Init /\ [][Next]_vars

-----------------------------------------------------------------------------
TypeOK ==
  /\ \A f \in Indexed : index[f].hash \in Content /\ index[f].mtime \in 0 .. MaxTime
  /\ phase \in {"idle", "scan", "discover", "done"} /\ left \subseteq File
  /\ DOMAIN stats \subseteq File /\ Cardinality(DOMAIN reading) <= 1
  /\ phase # "idle" =>
       DOMAIN changes.added \cap Indexed = {} /\ DOMAIN changes.modified \subseteq Indexed

(* A pass during which no file was written and no error met reports the    *)
(* very differences between the index and the files, by their contents,    *)
(* but perhaps for a change of a file that has a time and size that it had *)
(* before.                                                                 *)
QuietPassIsExact ==
  LET Changed == {f \in Indexed : Visible(f) /\ index[f].hash # disk[f].content} IN
  phase = "done" /\ quiet /\ ~overlooked =>
    /\ DOMAIN changes.added = {f \in File : Visible(f) /\ f \notin Indexed}
    /\ DOMAIN changes.modified \subseteq Changed /\ Changed \ alike \subseteq DOMAIN changes.modified
    /\ changes.deleted = {f \in Indexed : ~Visible(f)}
    /\ \A f \in DOMAIN changes.added : changes.added[f].hash = disk[f].content
    /\ \A f \in DOMAIN changes.modified : changes.modified[f].hash = disk[f].content

\* What the first walk does not tell from what is in the index.
SameStat(f) == [mtime |-> index[f].mtime, size |-> index[f].size] = Stat(disk[f])

(* Whatever was written while a pass went over the files, the index never  *)
(* has an old content under the time and size of a new one, which no later *)
(* pass would look into, unless the file was given a time and size that it *)
(* had before.                                                             *)
NothingHidden ==
  \A f \in Indexed \ alike : Visible(f) /\ SameStat(f) => index[f].hash = disk[f].content

(* A pass in quiet reports the differences, and nothing is hidden.         *)
ChangesAreFound == TypeOK /\ QuietPassIsExact /\ NothingHidden

(* "Deleted file paths": a file that is reported as deleted, by a pass     *)
(* during which nothing was written, has gone.                             *)
DeletedAreGone ==
  phase = "done" /\ quiet => \A f \in changes.deleted : disk[f] = Absent

(* "if mtime and size unchanged, file is likely unchanged": it may be the  *)
(* other content that was written in the same tick of the clock.           *)
SameStatSameContent ==
  \A f \in Indexed : Visible(f) /\ SameStat(f) => index[f].hash = disk[f].content

-----------------------------------------------------------------------------
(* The inductive invariant.                                                *)

\* A file with the time and size of the entry, which it has for the first time, has its
\* contents. An entry of hashes only has the size of no file that is walked over.
Honest(f, e) ==
  /\ e \in [hash : Content, mtime : 0 .. MaxTime, size : Nat]
  /\ LET s == [mtime |-> e.mtime, size |-> e.size] IN
       /\ e.size = 0 \/ s \in had[f]
       /\ f \notin alike /\ Visible(f) /\ Stat(disk[f]) = s => disk[f].content = e.hash

DiskOK ==
  /\ edits \in Nat /\ errors \in Nat
  /\ disk \in [File -> {Absent} \cup [content : Content, mtime : 0 .. MaxTime]]
  /\ had \in [File -> SUBSET [mtime : 0 .. MaxTime, size : Nat]]
  /\ \A f \in File : disk[f] # Absent => Stat(disk[f]) \in had[f]

IndexOK ==
  /\ DOMAIN index = File /\ \A f \in Indexed : Honest(f, index[f])
  /\ \A s \in {changes.added, changes.modified} : \A f \in DOMAIN s : Honest(f, s[f])

\* The stat of the file that is read next is one that the file has had.
ReadingOK ==
  /\ phase = "done" => left = {}
  /\ reading # Nothing => phase = "discover" /\ \E f \in File : DOMAIN reading = {f}
  /\ \A f \in DOMAIN reading :
       /\ reading[f] \in [content : Content, mtime : 0 .. MaxTime]
       /\ Stat(reading[f]) \in had[f]

ChangesOK ==
  /\ changes = [added |-> changes.added, modified |-> changes.modified,
                 deleted |-> changes.deleted]
  /\ DOMAIN changes.added \cup DOMAIN changes.modified \cup changes.deleted \subseteq File
  /\ phase = "scan" => changes = NoChanges
  /\ phase # "idle" => /\ DOMAIN changes.added \subseteq New
                       /\ DOMAIN changes.modified \subseteq Indexed

\* What a pass in quiet knows so far: of files that it has seen in either walk.
Seen == File \ (left \cup DOMAIN reading)
PassOK == quiet /\ ~overlooked =>
  /\ phase = "scan" => DOMAIN stats = {f \in File \ left : Visible(f)}
  /\ phase # "idle" => \A f \in DOMAIN stats : stats[f] = Stat(disk[f])
  /\ phase \in {"discover", "done"} =>
       /\ DOMAIN stats = {f \in File : Visible(f)}
       /\ changes.deleted = Indexed \ DOMAIN stats
       /\ \A f \in DOMAIN changes.added : changes.added[f].hash = disk[f].content
       /\ \A f \in DOMAIN changes.modified : changes.modified[f].hash = disk[f].content
       /\ \A f \in DOMAIN reading : reading[f] = disk[f]
       /\ New \cap Seen \subseteq DOMAIN changes.added
       /\ DOMAIN changes.modified \subseteq {f \in Suspected : index[f].hash # disk[f].content}
       /\ {f \in Suspected \cap Seen : index[f].hash # disk[f].content} \subseteq DOMAIN changes.modified

IInv ==
  /\ TypeOK /\ DiskOK /\ IndexOK /\ ReadingOK /\ ChangesOK /\ PassOK
=============================================================================
