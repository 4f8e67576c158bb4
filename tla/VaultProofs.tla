---------------------------- MODULE VaultProofs -----------------------------
(***************************************************************************)
(* What the vault keeps though nothing is locked, for any number of notes, *)
(* projects and actors.                                                    *)
(*                                                                         *)
(* Two notes may have one stem, so an operation that comes back to a name  *)
(* may find the file of another note there, or none.  What every step      *)
(* keeps is a count (Balanced): a note has one file and one more for each  *)
(* move that has linked its new name.  A step takes a file from a note     *)
(* without ending its move only if somebody asked to delete the note or    *)
(* history says it was overrun; it gives a note a file without beginning   *)
(* its move, or ends the move with both names there, only if history says  *)
(* the note was cut or strayed (Keeps).                                    *)
(*                                                                         *)
(* What a project learnt of a note is kept by whoever has the note in hand *)
(* alone, or history says so, and so knows where its files and its         *)
(* examples are (Placed); once nobody has it, its examples are in the      *)
(* folder its file is in, or a deletion will forget them (Kept).           *)
(***************************************************************************)
EXTENDS VaultEdits, FiniteSetTheorems, WellFoundedInduction, TLAPS

-----------------------------------------------------------------------------
(* Paths and operations.                                                   *)

LEMMA PathParts ==
    ASSUME NEW path \in Paths
    PROVE  /\ path[1] \in Folders /\ path[2] \in Stems /\ path[3] \in Attempts
           /\ \A q \in Folders :
                 /\ InFolder(path, q) \in Paths
                 /\ FolderOf(InFolder(path, q)) = q
                 /\ InFolder(path, q)[2] = path[2]
                 /\ InFolder(path, q)[3] = path[3]
           /\ path = <<path[1], path[2], path[3]>>
  BY DEF Paths, InFolder, FolderOf

\* What an operation is, its kind tells.
LEMMA OpShape ==
    ASSUME NEW op \in Operations
    PROVE  /\ op.kind \in {"edit", "category", "delete"} <=> op \in NoteOps
           /\ op.kind = "file" <=> op \in FileOps
           /\ op.kind = "delete project" <=> op \in DeleteOps
           /\ op.kind = "rename project" <=> op \in RenameOps
           /\ op # Nothing
  BY NothingAssumption DEF Operations, NoteOps, FileOps, DeleteOps, RenameOps

\* The first free name of a stem in a folder.
LEMMA FreePathIsFree ==
    ASSUME NEW p \in Folders, NEW stem \in Stems, FreeNames(p, stem) # {}
    PROVE  /\ FreePath(p, stem) \in Paths
           /\ files[FreePath(p, stem)] = Nothing
           /\ FolderOf(FreePath(p, stem)) = p
           /\ FreePath(p, stem)[2] = stem
  <1>1. FreeNames(p, stem) \subseteq Nat
    BY VaultAssumption DEF FreeNames, Attempts
  <1>2. IsWellFoundedOn(OpToRel(<, Nat), Nat)
    BY NatLessThanWellFounded
  <1>3. \E n \in FreeNames(p, stem) :
          \A m \in FreeNames(p, stem) : ~ (<<m, n>> \in OpToRel(<, Nat))
    BY <1>1, <1>2, WFMin
  <1>4. \E n \in FreeNames(p, stem) : \A m \in FreeNames(p, stem) : n <= m
    <2>1. \A m, n \in Nat : ~ (<<m, n>> \in OpToRel(<, Nat)) => n <= m
      BY DEF OpToRel
    <2> QED
      BY <1>1, <1>3, <2>1
  <1>5. PICK n \in FreeNames(p, stem) : FreePath(p, stem) = <<p, stem, n>>
    BY <1>4 DEF FreePath
  <1> QED
    BY <1>5 DEF FreeNames, Paths, FolderOf

-----------------------------------------------------------------------------
(* Types.                                                                  *)

LEMMA LinkTypes ==
    ASSUME VaultTypeOK, NEW a \in Actors, NEW p \in Folders, NEW op \in FileOps \cup DeleteOps,
           op.path \in Paths, NEW note \in Contents, Link(a, op, p, note)
    PROVE  /\ files' \in [Paths -> Contents \cup {Nothing}]
           /\ proc' \in [Actors -> Operations \cup {Nothing}]
           /\ \A path \in Paths : files'[path] # Nothing =>
                 files[path] # Nothing \/ FolderOf(path) = p
  <1> DEFINE new == FreePath(p, op.path[2])
  <1>1. /\ new \in Paths /\ FolderOf(new) = p
    BY PathParts, FreePathIsFree DEF Link
  <1>2. [op EXCEPT !.at = "linked", !.new = new] \in Operations
    <2>1. CASE op \in FileOps
      BY <1>1, <2>1 DEF FileOps, Operations
    <2>2. CASE op \in DeleteOps
      BY <1>1, <2>2 DEF DeleteOps, Operations
    <2> QED
      BY <2>1, <2>2
  <1>3. files' = [files EXCEPT ![new] = note] /\ proc' = [proc EXCEPT ![a] = [op EXCEPT !.at = "linked", !.new = new]]
    BY DEF Link, Proceed
  <1> HIDE DEF new
  <1> QED
    BY <1>1, <1>2, <1>3 DEF VaultTypeOK

LEMMA HandTypes ==
    ASSUME VaultTypeOK, NEW op \in Operations \cup {Nothing}
    PROVE  InHand(op) \subseteq Ids /\ LeftBehind(op) \subseteq Ids /\ InMove(op) \subseteq Ids
  <1>1. LeftBehind(op) \subseteq Ids
    BY DEF LeftBehind
  <1>2. CASE op = Nothing
    BY <1>1, <1>2 DEF InHand, InMove
  <1>3. CASE op \in NoteOps \cup FileOps
    BY <1>1, <1>3, OpShape DEF InHand, InMove, OnProject, NoteOps, FileOps, Contents, Operations
  <1>4. CASE op \in DeleteOps \cup RenameOps
    <2>1. \A r \in op.todo : r.note.id \in Ids
      BY <1>4 DEF DeleteOps, RenameOps, Scanned, Contents
    <2>2. op # Nothing /\ OnProject(op) /\ op.kind # "file"
      BY <1>4, OpShape DEF OnProject, Operations, DeleteOps, RenameOps
    <2>3. InHand(op) \subseteq Ids
      BY <2>1, <2>2 DEF InHand
    <2>4. InMove(op) \subseteq {r.note.id : r \in op.todo}
      BY <2>2 DEF InMove
    <2> QED
      BY <1>1, <2>1, <2>3, <2>4
  <1> QED
    BY <1>2, <1>3, <1>4 DEF Operations

LEMMA BeginTypes ==
    ASSUME VaultTypeOK, NEW a \in Actors, NEW op \in Operations, Begin(a, op)
    PROVE  /\ proc' \in [Actors -> Operations \cup {Nothing}]
           /\ crossed' \subseteq Ids /\ swept' \subseteq Ids /\ spent' \in 0..Budget
           /\ proc' = [proc EXCEPT ![a] = op] /\ proc[a] = Nothing
  <1>1. \A other \in Operations \cup {Nothing} : AtStake(other) \subseteq Ids
    BY HandTypes DEF AtStake
  <1>2. \A b \in Actors : AtStake(proc[b]) \subseteq Ids
    BY <1>1 DEF VaultTypeOK
  <1>3. InHand(op) \subseteq Ids
    BY HandTypes
  <1>4. swept' \subseteq swept \cup AtStake(op)
                 \cup UNION {AtStake(other) : other \in {proc[b] : b \in Actors}}
    BY DEF Begin
  <1>5. swept' \subseteq Ids
    BY <1>1, <1>2, <1>4 DEF VaultTypeOK
  <1>6. crossed' \subseteq Ids
    BY <1>3 DEF Begin, VaultTypeOK
  <1> QED
    BY <1>5, <1>6, VaultAssumption DEF Begin, Spend, VaultTypeOK

LEMMA StartTypes ==
    ASSUME VaultTypeOK, NEW a \in Actors, Starts(a)
    PROVE  VaultTypeOK'
  <1> USE VaultAssumption DEF history, stray
  <1> DEFINE Unmoved == UNCHANGED <<files, folders, examples, others, cut, overrun, strayed>> /\ removed' \subseteq Ids
  <1>1. ASSUME NEW op \in Operations, Begin(a, op), Unmoved
        PROVE  VaultTypeOK'
    BY <1>1, BeginTypes DEF VaultTypeOK
  <1>2. ASSUME NEW i \in Ids, NEW path \in Holders(i) PROVE path \in Paths /\ files[path] \in Contents
    BY <1>2 DEF Holders, VaultTypeOK
  <1>3. ASSUME NEW p \in Projects PROVE Scan(p) \in SUBSET Scanned
    BY <1>3 DEF Scan, NotesIn, Scanned, VaultTypeOK
  <1>4. ASSUME NEW i \in Ids, NEW kind \in {"edit", "category"}, FindForEdit(a, i, kind)
        PROVE  VaultTypeOK'
    <2>1. PICK path \in Holders(i) :
            Begin(a, [kind |-> kind, at |-> "found", path |-> path, note |-> files[path]])
      BY <1>4 DEF FindForEdit
    <2>2. [kind |-> kind, at |-> "found", path |-> path, note |-> files[path]] \in Operations
      BY <1>2, <2>1 DEF Operations, NoteOps
    <2> QED
      BY <1>1, <1>4, <2>1, <2>2 DEF FindForEdit, VaultTypeOK
  <1>5. ASSUME NEW i \in Ids, FindForDelete(a, i)
        PROVE  VaultTypeOK'
    <2>1. PICK path \in Holders(i) :
            Begin(a, [kind |-> "delete", at |-> "found", path |-> path, note |-> files[path]])
      BY <1>5 DEF FindForDelete
    <2>2. [kind |-> "delete", at |-> "found", path |-> path, note |-> files[path]] \in Operations
      BY <1>2, <2>1 DEF Operations, NoteOps
    <2> QED
      BY <1>1, <1>5, <2>1, <2>2 DEF FindForDelete, VaultTypeOK
  <1>6. ASSUME NEW i \in Ids, NEW p \in Projects, NEW create \in BOOLEAN, FindForFiling(a, i, p, create)
        PROVE  VaultTypeOK'
    <2>1. PICK path \in Holders(i) :
            Begin(a, [kind |-> "file", at |-> "found", path |-> path, new |-> path,
                      note |-> files[path], target |-> p])
      BY <1>6 DEF FindForFiling
    <2>2. [kind |-> "file", at |-> "found", path |-> path, new |-> path,
           note |-> files[path], target |-> p] \in Operations
      BY <1>2, <2>1 DEF Operations, FileOps
    <2> QED
      BY <1>1, <1>6, <2>1, <2>2 DEF FindForFiling, VaultTypeOK
  <1>7. ASSUME NEW p \in Projects, ScanForDelete(a, p)
        PROVE  VaultTypeOK'
    <2> DEFINE op == [kind |-> "delete project", at |-> "moving", project |-> p, todo |-> Scan(p),
                      infra |-> {log[1] : log \in examples[p]}, path |-> Nothing, new |-> Nothing]
    <2>1. {log[1] : log \in examples[p]} \in SUBSET {"route", "kind"}
      BY DEF VaultTypeOK, Folders, Logs
    <2>2. op \in Operations
      BY <1>3, <2>1 DEF Operations, DeleteOps
    <2>3. Begin(a, op)
      BY <1>7 DEF ScanForDelete
    <2> HIDE DEF op
    <2> QED
      BY <1>1, <1>7, <2>2, <2>3 DEF ScanForDelete, VaultTypeOK
  <1>8. ASSUME NEW p \in Projects, NEW q \in Projects, ScanForRename(a, p, q)
        PROVE  VaultTypeOK'
    <2> DEFINE op == [kind |-> "rename project", at |-> "scanned", project |-> p, to |-> q,
                      todo |-> Scan(p), path |-> Nothing]
    <2>2. op \in Operations
      BY <1>3 DEF Operations, RenameOps
    <2>3. Begin(a, op)
      BY <1>8 DEF ScanForRename
    <2> HIDE DEF op
    <2> QED
      BY <1>1, <1>8, <2>2, <2>3 DEF ScanForRename, VaultTypeOK
  <1> QED
    BY <1>4, <1>5, <1>6, <1>7, <1>8 DEF Starts

\* What the actor of a step has in hand.
LEMMA HandShape ==
    ASSUME VaultTypeOK, NEW a \in Actors, proc[a] # Nothing
    PROVE  /\ proc[a] \in Operations
           /\ proc[a].kind \in {"edit", "category", "delete"} => proc[a] \in NoteOps
           /\ proc[a].kind = "file" => proc[a] \in FileOps
           /\ proc[a].kind = "delete project" => proc[a] \in DeleteOps
           /\ proc[a].kind = "rename project" => proc[a] \in RenameOps
  <1>1. proc[a] \in Operations
    BY DEF VaultTypeOK
  <1> QED
    BY <1>1, OpShape

LEMMA ProceedTypes ==
    ASSUME VaultTypeOK, NEW a \in Actors, NEW op \in Operations \cup {Nothing}, Proceed(a, op)
    PROVE  proc' \in [Actors -> Operations \cup {Nothing}]
  BY DEF Proceed, VaultTypeOK

LEMMA TouchTypes ==
    ASSUME VaultTypeOK, NEW path \in Paths, NEW i \in Ids
    PROVE  /\ Overruns(path, i) => overrun' \subseteq Ids
           /\ Touches(path, i) => overrun' \subseteq Ids /\ strayed' \subseteq Ids
  <1>1. There(path) => files[path].id \in Ids
    BY DEF There, VaultTypeOK, Contents
  <1> QED
    BY <1>1 DEF Overruns, Touches, VaultTypeOK

LEMMA ReplaceTypes ==
    ASSUME VaultTypeOK, NEW path \in Paths, NEW note \in Contents, CanStage(path), Replace(path, note)
    PROVE  /\ files' \in [Paths -> Contents \cup {Nothing}]
           /\ overrun' \subseteq Ids /\ strayed' \subseteq Ids
           /\ \A q \in Paths : files'[q] # Nothing => FolderOf(q) \in folders \cup {Inbox}
  <1>1. note.id \in Ids
    BY DEF Contents
  <1> QED
    BY <1>1, TouchTypes DEF Replace, CanStage, VaultTypeOK

LEMMA NoteStepTypes ==
    ASSUME VaultTypeOK, NEW a \in Actors,
           SaveChecks(a) \/ SaveEdit(a) \/ SaveExample(a) \/ DeleteNote(a)
    PROVE  VaultTypeOK'
  <1> USE DEF history, meetings, stray
  <1> DEFINE op == proc[a]
  <1>1. op \in NoteOps /\ op \in Operations
    BY HandShape DEF SaveChecks, SaveEdit, SaveExample, DeleteNote, Editing
  <1>2. /\ op.path \in Paths /\ op.note \in Contents /\ op.note.id \in Ids
        /\ FolderOf(op.path) \in Folders
    BY <1>1, PathParts DEF NoteOps, Contents, FolderOf
  <1>3. /\ [op EXCEPT !.at = "checked"] \in Operations
        /\ [op EXCEPT !.at = "saved"] \in Operations
    BY <1>1 DEF NoteOps, Operations
  <1>4. CASE SaveChecks(a)
    <2>1. proc' \in [Actors -> Operations \cup {Nothing}]
      BY <1>3, <1>4, ProceedTypes DEF SaveChecks, Done
    <2> QED
      BY <1>4, <2>1 DEF SaveChecks, VaultTypeOK
  <1>5. CASE SaveEdit(a)
    <2>1. proc' \in [Actors -> Operations \cup {Nothing}]
      BY <1>3, <1>5, ProceedTypes DEF SaveEdit, Done
    <2>2. CASE ~CanStage(op.path)
      BY <1>5, <2>1, <2>2 DEF SaveEdit, VaultTypeOK
    <2>3. CASE CanStage(op.path)
      <3>1. PICK extra \in {op.note.extra} \cup (Extras \ {FALSE}) :
                Replace(op.path, [op.note EXCEPT !.extra = extra])
        BY <1>5, <2>3 DEF SaveEdit
      <3>2. [op.note EXCEPT !.extra = extra] \in Contents
        BY <1>2, <3>1, VaultAssumption DEF Contents
      <3>3. /\ files' \in [Paths -> Contents \cup {Nothing}]
            /\ overrun' \subseteq Ids /\ strayed' \subseteq Ids
            /\ \A q \in Paths : files'[q] # Nothing => FolderOf(q) \in folders \cup {Inbox}
        BY <1>2, <2>3, <3>1, <3>2, ReplaceTypes
      <3> QED
        BY <1>5, <2>1, <3>3 DEF SaveEdit, VaultTypeOK
    <2> QED
      BY <2>2, <2>3
  <1>6. CASE SaveExample(a)
    <2>3. proc' \in [Actors -> Operations \cup {Nothing}]
      BY <1>6, ProceedTypes DEF SaveExample, Done
    <2>4. <<"kind", op.note.id>> \in Logs
      BY <1>2 DEF Logs
    <2>5. examples' \in [Folders -> SUBSET Logs]
      BY <1>6, <1>2, <2>4 DEF SaveExample, VaultTypeOK
    <2> QED
      BY <1>6, <2>3, <2>5 DEF SaveExample, VaultTypeOK
  <1>7. CASE DeleteNote(a)
    <2>1. proc' \in [Actors -> Operations \cup {Nothing}]
      BY <1>7, ProceedTypes DEF DeleteNote, Done
    <2>2. overrun' \subseteq Ids
      BY <1>2, <1>7, TouchTypes DEF DeleteNote
    <2> QED
      BY <1>2, <1>7, <2>1, <2>2, NothingAssumption DEF DeleteNote, VaultTypeOK
  <1> QED
    BY <1>4, <1>5, <1>6, <1>7

\* The two ends of a move.
LEMMA EndTypes ==
    ASSUME VaultTypeOK, NEW op \in Operations, op.path \in Paths, op.new \in Paths,
           NEW i \in Ids, Unlink(op, i) \/ TakeBack(op, i)
    PROVE  /\ files' \in [Paths -> Contents \cup {Nothing}]
           /\ \A q \in Paths : files'[q] # Nothing => files[q] # Nothing
           /\ cut' \subseteq Ids /\ overrun' \subseteq Ids /\ strayed' \subseteq Ids
           /\ spent' \in 0..Budget
  <1>1. LeftBehind(op) \subseteq Ids
    BY HandTypes
  <1>2. CASE Unlink(op, i)
    BY <1>2, TouchTypes, NothingAssumption DEF Unlink, Unlinked, RemovalWorks, VaultTypeOK
  <1>3. CASE TakeBack(op, i)
    <2>1. spent' \in 0..Budget
      BY <1>3, VaultAssumption DEF TakeBack, RemovalFails, Spend, VaultTypeOK
    <2>2. CASE files' = RolledBack(op) /\ Touches(op.new, i) /\ cut' = cut \cup LeftBehind(op)
      BY <1>1, <2>1, <2>2, TouchTypes, NothingAssumption DEF RolledBack, VaultTypeOK
    <2>3. CASE UNCHANGED <<files, stray>> /\ cut' = cut \cup LeftBehind(op) \cup {i}
      BY <1>1, <2>1, <2>3 DEF stray, VaultTypeOK
    <2> QED
      BY <1>3, <2>2, <2>3 DEF TakeBack
  <1> QED
    BY <1>2, <1>3

LEMMA FilingTypes ==
    ASSUME VaultTypeOK, NEW a \in Actors,
           \/ FileLinks(a) \/ FileRewrites(a) \/ FileUnlinks(a)
           \/ FileClearsExamples(a) \/ FileSavesExample(a)
    PROVE  VaultTypeOK'
  <1> USE DEF history, meetings, stray
  <1> DEFINE op == proc[a]
  <1>1. op \in FileOps /\ op \in Operations
    BY HandShape DEF FileLinks, FileRewrites, FileUnlinks, FileClearsExamples, FileSavesExample, Filing
  <1>2. /\ op.path \in Paths /\ op.new \in Paths /\ op.note \in Contents /\ op.target \in Projects
        /\ op.note.id \in Ids
    BY <1>1 DEF FileOps, Contents
  <1>3. /\ [op EXCEPT !.at = "moved"] \in Operations
        /\ [op EXCEPT !.at = "cleared"] \in Operations
        /\ [op EXCEPT !.at = "checked"] \in Operations
    BY <1>1 DEF FileOps, Operations
  <1>4. CASE FileLinks(a)
    <2> DEFINE note == [op.note EXCEPT !.project = op.target]
    <2>1. note \in Contents
      BY <1>2 DEF Contents, Folders
    <2>2. CASE FolderOf(op.path) = op.target
      <3>1. proc' \in [Actors -> Operations \cup {Nothing}]
        BY <1>3, <1>4, <2>2, ProceedTypes DEF FileLinks, Done
      <3> QED
        BY <1>4, <2>2, <3>1 DEF FileLinks, VaultTypeOK
    <2>3. CASE FolderOf(op.path) # op.target
      <3>1. Link(a, op, op.target, note) /\ folders' = folders \cup {op.target}
        BY <1>4, <2>3 DEF FileLinks
      <3>2. /\ files' \in [Paths -> Contents \cup {Nothing}]
            /\ proc' \in [Actors -> Operations \cup {Nothing}]
            /\ \A path \in Paths : files'[path] # Nothing =>
                 files[path] # Nothing \/ FolderOf(path) = op.target
        <4> HIDE DEF op, note
        <4> QED
          BY <1>1, <1>2, <2>1, <3>1, LinkTypes DEF Folders
      <3> QED
        BY <1>2, <1>4, <2>3, <3>1, <3>2 DEF FileLinks, VaultTypeOK
    <2> QED
      BY <2>2, <2>3
  <1>5. CASE FileUnlinks(a)
    <2>1. proc' \in [Actors -> Operations \cup {Nothing}]
      BY <1>3, <1>5, ProceedTypes DEF FileUnlinks, Done
    <2>2. Unlink(op, op.note.id) \/ TakeBack(op, op.note.id)
      BY <1>5 DEF FileUnlinks
    <2> QED
      BY <1>1, <1>2, <1>5, <2>1, <2>2, EndTypes DEF FileUnlinks, VaultTypeOK
  <1>8. CASE FileRewrites(a)
    <2>1. proc' \in [Actors -> Operations \cup {Nothing}]
      BY <1>3, <1>8, ProceedTypes DEF FileRewrites, Done
    <2>2. [op.note EXCEPT !.project = op.target] \in Contents
      BY <1>2 DEF Contents, Folders
    <2>3. CASE CanStage(op.path)
      BY <1>2, <1>8, <2>1, <2>2, <2>3, ReplaceTypes DEF FileRewrites, VaultTypeOK
    <2>4. CASE ~CanStage(op.path)
      BY <1>8, <2>1, <2>4 DEF FileRewrites, VaultTypeOK
    <2> QED
      BY <2>3, <2>4
  <1>6. CASE FileClearsExamples(a)
    <2>1. proc' \in [Actors -> Operations \cup {Nothing}]
      BY <1>3, <1>6, ProceedTypes DEF FileClearsExamples
    <2>2. examples' \in [Folders -> SUBSET Logs]
      BY <1>6, <1>2, PathParts DEF FileClearsExamples, VaultTypeOK, FolderOf
    <2> QED
      BY <1>6, <2>1, <2>2 DEF FileClearsExamples, VaultTypeOK
  <1>7. CASE FileSavesExample(a)
    <2>1. proc' \in [Actors -> Operations \cup {Nothing}]
      BY <1>7, ProceedTypes DEF FileSavesExample, Done
    <2>2. <<"route", op.note.id>> \in Logs
      BY <1>2 DEF Logs
    <2>3. examples' \in [Folders -> SUBSET Logs]
      BY <1>7, <1>2, <2>2 DEF FileSavesExample, VaultTypeOK, Folders
    <2> QED
      BY <1>7, <2>1, <2>3 DEF FileSavesExample, VaultTypeOK
  <1> QED
    BY <1>4, <1>5, <1>6, <1>7, <1>8

LEMMA ProjectTypes ==
    ASSUME VaultTypeOK, NEW a \in Actors,
           \/ DeleteProjectLinks(a) \/ DeleteProjectUnlinks(a) \/ DeleteProjectRemoves(a)
           \/ RenameMoves(a) \/ RenameChecks(a) \/ RenameRewrites(a)
    PROVE  VaultTypeOK'
  <1> USE DEF history, meetings, stray
  <1> DEFINE op == proc[a]
  <1>1. CASE DeleteProjectLinks(a)
    <2>1. op \in DeleteOps /\ op \in Operations
      BY <1>1, HandShape DEF DeleteProjectLinks, Deleting
    <2>2. PICK r \in op.todo : Link(a, [op EXCEPT !.path = r.path], Inbox,
                                    [id |-> r.note.id, project |-> Inbox, extra |-> FALSE])
      BY <1>1 DEF DeleteProjectLinks
    <2>3. r.path \in Paths /\ r.note.id \in Ids
      BY <2>1, <2>2 DEF DeleteOps, Scanned, Contents
    <2>4. [op EXCEPT !.path = r.path] \in DeleteOps /\ [op EXCEPT !.path = r.path].path = r.path
      BY <2>1, <2>3 DEF DeleteOps
    <2>5. [id |-> r.note.id, project |-> Inbox, extra |-> FALSE] \in Contents
      BY <2>3 DEF Contents, Folders
    <2>6. /\ files' \in [Paths -> Contents \cup {Nothing}]
          /\ proc' \in [Actors -> Operations \cup {Nothing}]
          /\ \A path \in Paths : files'[path] # Nothing =>
               files[path] # Nothing \/ FolderOf(path) = Inbox
      <3> HIDE DEF op
      <3> QED
        BY <2>2, <2>3, <2>4, <2>5, LinkTypes DEF Folders
    <2> QED
      BY <1>1, <2>6 DEF DeleteProjectLinks, VaultTypeOK
  <1>2. CASE DeleteProjectUnlinks(a)
    <2>7. PICK i \in InMove(op) : Unlink(op, i) \/ TakeBack(op, i)
      BY <1>2 DEF DeleteProjectUnlinks
    <2>1. op \in DeleteOps /\ op \in Operations
      BY <1>2, HandShape DEF DeleteProjectUnlinks, Deleting
    <2>2. [op EXCEPT !.at = "moving", !.todo = {r \in @ : r.path # op.path}] \in Operations
      BY <2>1 DEF DeleteOps, Operations
    <2>3. proc' \in [Actors -> Operations \cup {Nothing}]
      BY <1>2, <2>2, ProceedTypes DEF DeleteProjectUnlinks, Done
    <2>4. i \in Ids
      BY <2>1, <2>7, HandTypes
    <2>5. op.path \in Paths /\ op.new \in Paths
      BY <1>2, <2>1 DEF DeleteOps, DeleteProjectUnlinks, Deleting
    <2> QED
      BY <1>2, <2>1, <2>3, <2>4, <2>5, <2>7, EndTypes DEF DeleteProjectUnlinks, VaultTypeOK
  <1>3. CASE DeleteProjectRemoves(a)
    <2>1. op \in DeleteOps
      BY <1>3, HandShape DEF DeleteProjectRemoves, Deleting
    <2>2. op.project \in Projects
      BY <2>1 DEF DeleteOps
    <2>3. proc' \in [Actors -> Operations \cup {Nothing}]
      BY <1>3, ProceedTypes DEF DeleteProjectRemoves, Done
    <2>4. examples' \in [Folders -> SUBSET Logs]
      BY <1>3, <2>2 DEF DeleteProjectRemoves, VaultTypeOK, Folders
    <2>5. /\ folders' \subseteq Projects
          /\ others \subseteq folders'
          /\ \A path \in Paths : files[path] # Nothing => FolderOf(path) \in folders' \cup {Inbox}
      BY <1>3, <2>2 DEF DeleteProjectRemoves, VaultTypeOK, NotesIn
    <2> QED
      BY <1>3, <2>3, <2>4, <2>5 DEF DeleteProjectRemoves, VaultTypeOK
  <1>4. CASE RenameMoves(a)
    <2>1. op \in RenameOps
      BY <1>4, HandShape DEF RenameMoves, Renaming
    <2> DEFINE p == op.project
               q == op.to
    <2>2. p \in Projects /\ q \in Projects /\ [op EXCEPT !.at = "moved"] \in Operations
      BY <2>1 DEF RenameOps, Operations
    <2>3. proc' \in [Actors -> Operations \cup {Nothing}]
      BY <1>4, <2>2, ProceedTypes DEF RenameMoves, Done
    <2>4. CASE p \notin folders \/ q \in folders
      BY <1>4, <2>3, <2>4 DEF RenameMoves, VaultTypeOK
    <2>5. CASE ~(p \notin folders \/ q \in folders)
      <3>1. /\ files' = [path \in Paths |->
                       IF FolderOf(path) = q THEN files[InFolder(path, p)]
                       ELSE IF FolderOf(path) = p THEN Nothing ELSE files[path]]
            /\ examples' = [examples EXCEPT ![q] = examples[p], ![p] = {}]
            /\ folders' = (folders \ {p}) \cup {q}
            /\ others' = IF p \in others THEN (others \ {p}) \cup {q} ELSE others
        BY <1>4, <2>5 DEF RenameMoves
      <3>2. \A path \in Paths : InFolder(path, p) \in Paths
        BY <2>2, PathParts DEF Folders
      <3>3. files' \in [Paths -> Contents \cup {Nothing}]
        BY <3>1, <3>2 DEF VaultTypeOK
      <3>4. examples' \in [Folders -> SUBSET Logs]
        BY <3>1, <2>2 DEF VaultTypeOK, Folders
      <3>5. folders' \subseteq Projects /\ others' \subseteq folders'
        BY <3>1, <2>2, <2>5 DEF VaultTypeOK
      <3>6. \A path \in Paths : files'[path] # Nothing => FolderOf(path) \in folders' \cup {Inbox}
        BY <3>1 DEF VaultTypeOK
      <3> QED
        BY <1>4, <2>3, <3>3, <3>4, <3>5, <3>6 DEF RenameMoves, VaultTypeOK
    <2> QED
      BY <2>4, <2>5
  <1>5. CASE RenameChecks(a)
    <2>1. op \in RenameOps
      BY <1>5, HandShape DEF RenameChecks, Renaming
    <2>2. \A r \in op.todo : /\ [op EXCEPT !.at = "checked", !.path = r.path] \in Operations
                              /\ [op EXCEPT !.todo = @ \ {r}] \in Operations
      BY <2>1 DEF RenameOps, Scanned, Operations
    <2>3. proc' \in [Actors -> Operations \cup {Nothing}]
      BY <1>5, <2>2, ProceedTypes DEF RenameChecks, Done
    <2> QED
      BY <1>5, <2>3 DEF RenameChecks, VaultTypeOK
  <1>6. CASE RenameRewrites(a)
    <2>1. op \in RenameOps
      BY <1>6, HandShape DEF RenameRewrites, Renaming
    <2>2. PICK r \in op.todo :
            /\ IF CanStage(InFolder(r.path, op.to))
               THEN Replace(InFolder(r.path, op.to), [r.note EXCEPT !.project = op.to])
               ELSE UNCHANGED <<files, stray>>
            /\ Proceed(a, [op EXCEPT !.at = "moved", !.todo = @ \ {r}])
      BY <1>6 DEF RenameRewrites
    <2>3. [op EXCEPT !.at = "moved", !.todo = @ \ {r}] \in Operations
      BY <2>1 DEF RenameOps, Operations
    <2>4. proc' \in [Actors -> Operations \cup {Nothing}]
      BY <2>2, <2>3, ProceedTypes
    <2>5. r.path \in Paths /\ r.note \in Contents /\ op.to \in Projects
      BY <2>1, <2>2 DEF RenameOps, Scanned
    <2>6. InFolder(r.path, op.to) \in Paths /\ [r.note EXCEPT !.project = op.to] \in Contents
      BY <2>5, PathParts DEF Folders, Contents
    <2>7. CASE CanStage(InFolder(r.path, op.to))
      BY <1>6, <2>2, <2>4, <2>6, <2>7, ReplaceTypes DEF RenameRewrites, VaultTypeOK
    <2>8. CASE ~CanStage(InFolder(r.path, op.to))
      BY <1>6, <2>2, <2>4, <2>8 DEF RenameRewrites, VaultTypeOK
    <2> QED
      BY <2>7, <2>8
  <1> QED
    BY <1>1, <1>2, <1>3, <1>4, <1>5, <1>6

LEMMA TypeStep ==
    ASSUME VaultTypeOK, [Next]_vars
    PROVE  VaultTypeOK'
  <1> USE VaultAssumption DEF history, meetings, stray
  <1>1. ASSUME NEW a \in Actors, Dies(a)
        PROVE  VaultTypeOK'
    <2>1. proc' \in [Actors -> Operations \cup {Nothing}]
      BY <1>1, ProceedTypes DEF Dies, Done
    <2>2. InMove(proc[a]) \subseteq Ids /\ LeftBehind(proc[a]) \subseteq Ids
      BY HandTypes DEF VaultTypeOK
    <2> QED
      BY <1>1, <2>1, <2>2 DEF Dies, Spend, VaultTypeOK
  <1>2. ASSUME NEW p \in Projects, CreateProject(p) \/ DropOther(p)
        PROVE  VaultTypeOK'
    <2>1. CASE CreateProject(p)
      <3>3. folders' = folders \cup {p} /\ Spend
        BY <2>1 DEF CreateProject
      <3>4. spent' \in 0..Budget
        BY <3>3 DEF Spend, VaultTypeOK
      <3>1. folders' \subseteq Projects /\ folders \subseteq folders' /\ spent' \in 0..Budget
        BY <1>2, <3>3, <3>4 DEF VaultTypeOK
      <3>2. \A path \in Paths : files[path] # Nothing => FolderOf(path) \in folders' \cup {Inbox}
        BY <3>1 DEF VaultTypeOK
      <3> QED
        BY <2>1, <3>1, <3>2 DEF CreateProject, VaultTypeOK
    <2>2. CASE DropOther(p)
      <3>1. others' \subseteq folders
        BY <2>2 DEF DropOther, VaultTypeOK
      <3> QED
        BY <2>2, <3>1 DEF DropOther, Spend, VaultTypeOK
    <2> QED
      BY <1>2, <2>1, <2>2
  <1>3. CASE UNCHANGED vars
    BY <1>3 DEF vars, VaultTypeOK
  <1>4. ASSUME NEW a \in Actors, Steps(a)
        PROVE  VaultTypeOK'
    BY <1>4, NoteStepTypes, FilingTypes, ProjectTypes DEF Steps
  <1>5. ASSUME NEW a \in Actors, Starts(a)
        PROVE  VaultTypeOK'
    BY <1>5, StartTypes
  <1> QED
    BY <1>1, <1>2, <1>3, <1>4, <1>5 DEF Next

LEMMA InitTypes ==
    ASSUME Init
    PROVE  VaultTypeOK
  <1>1. PICK home \in [Ids -> Folders], n \in [Ids -> Attempts], extra \in [Ids -> Extras] :
          /\ files = [path \in Paths |->
                 IF \E i \in Ids : path = <<home[i], Stem[i], n[i]>>
                 THEN LET i == CHOOSE i \in Ids : path = <<home[i], Stem[i], n[i]>>
                      IN  [id |-> i, project |-> home[i], extra |-> extra[i]]
                 ELSE Nothing]
          /\ \A i, j \in Ids : <<home[i], Stem[i], n[i]>> = <<home[j], Stem[j], n[j]>> => i = j
          /\ folders = {home[i] : i \in Ids} \ {Inbox}
    BY Zenon DEF Init
  <1>2. ASSUME NEW path \in Paths
        PROVE  /\ files[path] \in Contents \cup {Nothing}
               /\ files[path] # Nothing => FolderOf(path) \in folders \cup {Inbox}
    <2>1. CASE \E i \in Ids : path = <<home[i], Stem[i], n[i]>>
      <3> DEFINE j == CHOOSE i \in Ids : path = <<home[i], Stem[i], n[i]>>
      <3>1. j \in Ids /\ path = <<home[j], Stem[j], n[j]>>
        BY <2>1
      <3>2. files[path] = [id |-> j, project |-> home[j], extra |-> extra[j]]
        BY <1>1, <1>2, <2>1
      <3> HIDE DEF j
      <3> QED
        BY <1>1, <3>1, <3>2, VaultAssumption DEF Contents, FolderOf
    <2>2. CASE ~ \E i \in Ids : path = <<home[i], Stem[i], n[i]>>
      BY <1>1, <1>2, <2>2
    <2> QED
      BY <2>1, <2>2
  <1>3. folders \subseteq Projects
    BY <1>1 DEF Folders
  <1>4. files \in [Paths -> Contents \cup {Nothing}]
    BY <1>1, <1>2
  <1>5. /\ examples = [p \in Folders |-> {}] /\ others = {}
        /\ proc = [a \in Actors |-> Nothing]
        /\ removed = {} /\ cut = {} /\ overrun = {} /\ strayed = {} /\ crossed = {} /\ swept = {} /\ spent = 0
    BY DEF Init
  <1>6. spent \in 0..Budget
    BY <1>5, VaultAssumption
  <1> QED
    BY <1>2, <1>3, <1>4, <1>5, <1>6 DEF VaultTypeOK

\* The vault, the examples and what every actor has in hand keep their types.
THEOREM VaultTyped == Spec => []VaultTypeOK
  <1>1. Init => VaultTypeOK
    BY InitTypes
  <1> QED
    BY <1>1, TypeStep, PTL DEF Spec

-----------------------------------------------------------------------------
(* Counting files and moves.                                               *)

\* The actors whose move has linked the new name of a note, and still has the old.
Linking(op) == op # Nothing /\ op.kind \in {"file", "delete project"} /\ op.at = "linked"
Moves(op, i) == Linking(op) /\ i \in InMove(op)
Movers(i) == {a \in Actors : Moves(proc[a], i)}

\* A note has one file, and one more for each move that has linked.
Balanced(i) ==
    /\ i \notin removed \cup overrun => Cardinality(Holders(i)) >= 1 + Cardinality(Movers(i))
    /\ i \notin cut \cup strayed => Cardinality(Holders(i)) <= 1 + Cardinality(Movers(i))

\* Somebody asked for a deletion; a scan found one note under each name.
OpFits(op, gone) ==
    /\ op.kind = "delete" => op.note.id \in gone
    /\ op.kind = "delete project" => \A r, s \in op.todo : r.path = s.path => r = s

OpsFit == \A a \in Actors : proc[a] # Nothing => OpFits(proc[a], removed)

VaultInv ==
    /\ VaultTypeOK
    /\ OpsFit
    /\ \A i \in Ids : Balanced(i)

HistoryGrows ==
    removed \subseteq removed' /\ cut \subseteq cut' /\ overrun \subseteq overrun'
    /\ strayed \subseteq strayed'

\* What a step does to the count of a note's files, and to that of its moves.
Keeps(i) ==
    \E d, e \in {-1, 0, 1} :
        /\ Cardinality(Holders(i)') = Cardinality(Holders(i)) + d
        /\ Cardinality(Movers(i)') = Cardinality(Movers(i)) + e
        /\ i \notin removed' \cup overrun' => d >= e
        /\ i \notin cut' \cup strayed' => d <= e

LEMMA FiniteVault ==
    /\ IsFiniteSet(Paths)
    /\ \A i : IsFiniteSet(Holders(i)) /\ IsFiniteSet(Movers(i))
  <1>1. IsFiniteSet(Folders)
    BY VaultAssumption, FS_AddElement DEF Folders
  <1>2. IsFiniteSet(Stems)
    <2> DEFINE f == [i \in Ids |-> Stem[i]]
    <2>1. f \in Surjection(Ids, Stems)
      BY DEF Surjection, Stems
    <2> QED
      BY <2>1, VaultAssumption, FS_Surjection
  <1>3. IsFiniteSet(Attempts)
    BY VaultAssumption, FS_Interval DEF Attempts
  <1>4. IsFiniteSet(Paths)
    <2>1. IsFiniteSet(Stems \X Attempts) /\ IsFiniteSet(Folders \X (Stems \X Attempts))
      BY <1>1, <1>2, <1>3, FS_Product
    <2> DEFINE f == [x \in Folders \X (Stems \X Attempts) |-> <<x[1], x[2][1], x[2][2]>>]
    <2>2. f \in Surjection(Folders \X (Stems \X Attempts), Paths)
      <3>1. \A x \in Folders \X (Stems \X Attempts) : f[x] \in Paths
        BY DEF Paths
      <3>2. ASSUME NEW path \in Paths
            PROVE  \E x \in Folders \X (Stems \X Attempts) : f[x] = path
        <4>1. PICK p \in Folders, stem \in Stems, n \in Attempts : path = <<p, stem, n>>
          BY DEF Paths
        <4>2. <<p, <<stem, n>>>> \in Folders \X (Stems \X Attempts)
          OBVIOUS
        <4>3. f[<<p, <<stem, n>>>>] = path
          BY <4>1, <4>2
        <4> QED
          BY <4>2, <4>3
      <3> QED
        BY <3>1, <3>2 DEF Surjection
    <2> QED
      BY <2>1, <2>2, FS_Surjection
  <1>5. \A i : Holders(i) \in SUBSET Paths /\ Movers(i) \in SUBSET Actors
    BY DEF Holders, Movers
  <1> QED
    BY <1>4, <1>5, FS_Subset, VaultAssumption

LEMMA Counts ==
    \A i : /\ IsFiniteSet(Holders(i)) /\ IsFiniteSet(Movers(i))
           /\ Cardinality(Holders(i)) \in Nat /\ Cardinality(Movers(i)) \in Nat
  BY FiniteVault, FS_CardinalityType

LEMMA KeepsBalance ==
    ASSUME NEW i \in Ids, Balanced(i), Keeps(i), HistoryGrows
    PROVE  Balanced(i)'
  <1>1. PICK d \in {-1, 0, 1}, e \in {-1, 0, 1} :
          /\ Cardinality(Holders(i)') = Cardinality(Holders(i)) + d
          /\ Cardinality(Movers(i)') = Cardinality(Movers(i)) + e
          /\ i \notin removed' \cup overrun' => d >= e
          /\ i \notin cut' \cup strayed' => d <= e
    BY DEF Keeps
  <1> DEFINE H == Cardinality(Holders(i))
             M == Cardinality(Movers(i))
  <1>2. H \in Nat /\ M \in Nat
    BY Counts
  <1>3. /\ i \notin removed' \cup overrun' => i \notin removed \cup overrun
        /\ i \notin cut' \cup strayed' => i \notin cut \cup strayed
    BY DEF HistoryGrows
  <1>4. /\ i \notin removed \cup overrun => H >= 1 + M
        /\ i \notin cut \cup strayed => H <= 1 + M
    BY DEF Balanced
  <1> HIDE DEF H, M
  <1>5. /\ i \notin removed' \cup overrun' => H + d >= 1 + (M + e)
        /\ i \notin cut' \cup strayed' => H + d <= 1 + (M + e)
    BY <1>1, <1>2, <1>3, <1>4
  <1>6. /\ i \notin removed' \cup overrun' => Cardinality(Holders(i)') >= 1 + Cardinality(Movers(i)')
        /\ i \notin cut' \cup strayed' => Cardinality(Holders(i)') <= 1 + Cardinality(Movers(i)')
    BY <1>1, <1>5 DEF H, M
  <1> QED
    BY <1>6 DEF Balanced

\* One name is written or removed.
LEMMA OneName ==
    ASSUME VaultTypeOK, NEW path \in Paths, NEW note \in Contents \cup {Nothing},
           files' = [files EXCEPT ![path] = note], NEW i \in Ids
    PROVE  LET holds == note # Nothing /\ note.id = i
           IN  /\ holds /\ ~HoldsNote(path, i) =>
                      Cardinality(Holders(i)') = Cardinality(Holders(i)) + 1
               /\ ~holds /\ HoldsNote(path, i) =>
                      Cardinality(Holders(i)') = Cardinality(Holders(i)) - 1
               /\ (holds <=> HoldsNote(path, i)) => Holders(i)' = Holders(i)
  <1> DEFINE holds == note # Nothing /\ note.id = i
             H == Holders(i)
             K == Holders(i)'
  <1>1. files'[path] = note /\ \A q \in Paths \ {path} : files'[q] = files[q]
    BY DEF VaultTypeOK
  <1>2. \A q : q \in H <=> q \in Paths /\ files[q] # Nothing /\ files[q].id = i
    BY DEF Holders
  <1>3. \A q : q \in K <=> q \in Paths /\ files'[q] # Nothing /\ files'[q].id = i
    BY DEF Holders
  <1>4. /\ path \in H <=> HoldsNote(path, i)
        /\ path \in K <=> holds
        /\ \A q : q # path => (q \in K <=> q \in H)
    BY <1>1, <1>2, <1>3 DEF HoldsNote, There
  <1>5. IsFiniteSet(H)
    BY Counts
  <1> HIDE DEF H, K, holds
  <1>6. ASSUME holds, ~HoldsNote(path, i)
        PROVE  Cardinality(K) = Cardinality(H) + 1
    <2>1. path \notin H /\ K = H \cup {path}
      BY <1>4, <1>6
    <2> QED
      BY <1>5, <2>1, FS_AddElement
  <1>7. ASSUME ~holds, HoldsNote(path, i)
        PROVE  Cardinality(K) = Cardinality(H) - 1
    <2>1. path \in H /\ K = H \ {path}
      BY <1>4, <1>7
    <2> QED
      BY <1>5, <2>1, FS_RemoveElement
  <1>8. ASSUME holds <=> HoldsNote(path, i)
        PROVE  K = H
    BY <1>4, <1>8
  <1> QED
    BY <1>6, <1>7, <1>8 DEF H, K, holds

\* One actor goes on.
LEMMA OneActor ==
    ASSUME VaultTypeOK, NEW a \in Actors, NEW op, proc' = [proc EXCEPT ![a] = op], NEW i \in Ids
    PROVE  /\ Moves(op, i) /\ ~Moves(proc[a], i) =>
                  Cardinality(Movers(i)') = Cardinality(Movers(i)) + 1
           /\ ~Moves(op, i) /\ Moves(proc[a], i) =>
                  Cardinality(Movers(i)') = Cardinality(Movers(i)) - 1
           /\ (Moves(op, i) <=> Moves(proc[a], i)) => Movers(i)' = Movers(i)
  <1> DEFINE M == Movers(i)
             N == {b \in Actors : Moves(proc'[b], i)}
  <1>1. Movers(i)' = N
    BY DEF Movers, Moves, Linking, InMove
  <1>2. /\ a \in M <=> Moves(proc[a], i)
        /\ a \in N <=> Moves(op, i)
        /\ \A b : b # a => (b \in N <=> b \in M)
    BY DEF Movers, VaultTypeOK
  <1>3. IsFiniteSet(M)
    BY Counts
  <1> HIDE DEF M, N
  <1>4. ASSUME Moves(op, i), ~Moves(proc[a], i)
        PROVE  Cardinality(N) = Cardinality(M) + 1
    <2>1. a \notin M /\ N = M \cup {a}
      BY <1>2, <1>4
    <2> QED
      BY <1>3, <2>1, FS_AddElement
  <1>5. ASSUME ~Moves(op, i), Moves(proc[a], i)
        PROVE  Cardinality(N) = Cardinality(M) - 1
    <2>1. a \in M /\ N = M \ {a}
      BY <1>2, <1>5
    <2> QED
      BY <1>3, <2>1, FS_RemoveElement
  <1>6. ASSUME Moves(op, i) <=> Moves(proc[a], i)
        PROVE  N = M
    BY <1>2, <1>6
  <1> QED
    BY <1>1, <1>4, <1>5, <1>6 DEF M

\* The four things a step does to a note.
LEMMA KeepsFrom ==
    ASSUME NEW i \in Ids, NEW d \in {-1, 0, 1}, NEW e \in {-1, 0, 1},
           \/ d = 0 /\ Holders(i)' = Holders(i)
           \/ Cardinality(Holders(i)') = Cardinality(Holders(i)) + d,
           \/ e = 0 /\ Movers(i)' = Movers(i)
           \/ Cardinality(Movers(i)') = Cardinality(Movers(i)) + e,
           i \notin removed' \cup overrun' => d >= e,
           i \notin cut' \cup strayed' => d <= e
    PROVE  Keeps(i)
  <1>1. Cardinality(Holders(i)) \in Nat /\ Cardinality(Movers(i)) \in Nat
    BY Counts
  <1>2. Cardinality(Holders(i)') = Cardinality(Holders(i)) + d
    BY <1>1
  <1>3. Cardinality(Movers(i)') = Cardinality(Movers(i)) + e
    BY <1>1
  <1> QED
    BY <1>2, <1>3 DEF Keeps

LEMMA BothKeep ==
    ASSUME NEW i \in Ids,
           \/ Holders(i)' = Holders(i) /\ Movers(i)' = Movers(i)
           \/ /\ Cardinality(Holders(i)') = Cardinality(Holders(i)) + 1
              /\ Cardinality(Movers(i)') = Cardinality(Movers(i)) + 1
    PROVE  Keeps(i)
  BY KeepsFrom

LEMMA IdleKeeps ==
    ASSUME VaultTypeOK, NEW a \in Actors, NEW op, proc' = [proc EXCEPT ![a] = op],
           ~Linking(op), ~Linking(proc[a]), files' = files, NEW i \in Ids
    PROVE  Keeps(i)
  <1>1. Movers(i)' = Movers(i)
    BY OneActor DEF Moves
  <1>2. Holders(i)' = Holders(i)
    BY DEF Holders
  <1> QED
    BY <1>1, <1>2, KeepsFrom

LEMMA WriteKeeps ==
    ASSUME VaultTypeOK, NEW a \in Actors, NEW op, proc' = [proc EXCEPT ![a] = op],
           ~Linking(op), ~Linking(proc[a]), NEW path \in Paths, NEW note \in Contents,
           Replace(path, note), NEW i \in Ids
    PROVE  Keeps(i)
  <1>1. Movers(i)' = Movers(i)
    BY OneActor DEF Moves
  <1>2. files' = [files EXCEPT ![path] = note] /\ Touches(path, note.id)
    BY DEF Replace
  <1>3. note # Nothing
    BY NothingAssumption
  <1>4. CASE note.id = i <=> HoldsNote(path, i)
    <2>1. Holders(i)' = Holders(i)
      BY <1>2, <1>3, <1>4, OneName
    <2> QED
      BY <1>1, <2>1, KeepsFrom
  <1>5. CASE note.id = i /\ ~HoldsNote(path, i)
    <2>1. Cardinality(Holders(i)') = Cardinality(Holders(i)) + 1
      BY <1>2, <1>3, <1>5, OneName
    <2>2. i \in strayed'
      BY <1>2, <1>5 DEF Touches
    <2> QED
      BY <1>1, <2>1, <2>2, KeepsFrom
  <1>6. CASE note.id # i /\ HoldsNote(path, i)
    <2>1. Cardinality(Holders(i)') = Cardinality(Holders(i)) + (-1)
      BY <1>2, <1>3, <1>6, OneName, Counts
    <2>2. i \in overrun'
      BY <1>2, <1>6 DEF Touches, Overruns, HoldsNote
    <2> QED
      BY <1>1, <2>1, <2>2, KeepsFrom
  <1> QED
    BY <1>4, <1>5, <1>6

LEMMA DeleteKeeps ==
    ASSUME VaultTypeOK, NEW a \in Actors, NEW op, proc' = [proc EXCEPT ![a] = op],
           ~Linking(op), ~Linking(proc[a]), NEW path \in Paths, NEW j \in Ids, j \in removed',
           files' = [files EXCEPT ![path] = Nothing], Overruns(path, j), NEW i \in Ids
    PROVE  Keeps(i)
  <1>1. Movers(i)' = Movers(i)
    BY OneActor DEF Moves
  <1>2. CASE ~HoldsNote(path, i)
    <2>1. Holders(i)' = Holders(i)
      BY <1>2, OneName
    <2> QED
      BY <1>1, <2>1, KeepsFrom
  <1>3. CASE HoldsNote(path, i)
    <2>1. Cardinality(Holders(i)') = Cardinality(Holders(i)) + (-1)
      BY <1>3, OneName, Counts
    <2>2. i \in removed' \cup overrun'
      BY <1>3 DEF Overruns, HoldsNote
    <2> QED
      BY <1>1, <2>1, <2>2, KeepsFrom
  <1> QED
    BY <1>2, <1>3

LinkedAs(op, new) == [op EXCEPT !.at = "linked", !.new = new]

LEMMA LinkKeeps ==
    ASSUME VaultTypeOK, NEW a \in Actors, NEW op \in FileOps \cup DeleteOps, op.path \in Paths,
           NEW p \in Folders, NEW note \in Contents, Link(a, op, p, note), ~Linking(proc[a]),
           \A new \in Paths : InMove(LinkedAs(op, new)) = {note.id}, NEW i \in Ids
    PROVE  Keeps(i)
  <1>1. PICK new : new = FreePath(p, op.path[2])
    OBVIOUS
  <1> DEFINE next == [op EXCEPT !.at = "linked", !.new = new]
  <1>2. new \in Paths /\ files[new] = Nothing
    BY <1>1, PathParts, FreePathIsFree DEF Link
  <1>3. files' = [files EXCEPT ![new] = note] /\ proc' = [proc EXCEPT ![a] = next]
    BY <1>1 DEF Link, Proceed
  <1>4. Linking(next)
    <2>1. next.kind = op.kind /\ next.at = "linked"
      BY DEF FileOps, DeleteOps
    <2>2. op.kind \in {"file", "delete project"}
      BY DEF FileOps, DeleteOps
    <2>3. next # Nothing
      <3>1. next \in FileOps \/ next \in DeleteOps
        BY <1>2 DEF FileOps, DeleteOps
      <3> QED
        BY <3>1, OpShape DEF Operations
    <2> QED
      BY <2>1, <2>2, <2>3 DEF Linking
  <1>5. ~HoldsNote(new, i) /\ note # Nothing
    BY <1>2, NothingAssumption DEF HoldsNote, There
  <1>6. Moves(next, i) <=> note.id = i
    <2>1. InMove(next) = {note.id}
      BY <1>2 DEF LinkedAs
    <2> HIDE DEF next
    <2> QED
      BY <1>4, <2>1 DEF Moves
  <1>7. ~Moves(proc[a], i)
    BY DEF Moves
  <1> HIDE DEF next
  <1>8. CASE note.id = i
    <2>1. Cardinality(Holders(i)') = Cardinality(Holders(i)) + 1
      BY <1>2, <1>3, <1>5, <1>8, OneName
    <2>2. Cardinality(Movers(i)') = Cardinality(Movers(i)) + 1
      BY <1>3, <1>6, <1>7, <1>8, OneActor
    <2> QED
      BY <2>1, <2>2, BothKeep
  <1>9. CASE note.id # i
    <2>1. Holders(i)' = Holders(i)
      BY <1>2, <1>3, <1>5, <1>9, OneName
    <2>2. Movers(i)' = Movers(i)
      BY <1>3, <1>6, <1>7, <1>9, OneActor
    <2> QED
      BY <2>1, <2>2, BothKeep
  <1> QED
    BY <1>8, <1>9

\* The move of j ends, whatever it finds under its two names.
LEMMA EndKeeps ==
    ASSUME VaultTypeOK, NEW a \in Actors, NEW next, proc' = [proc EXCEPT ![a] = next],
           Linking(proc[a]), ~Linking(next), NEW op, op = proc[a], NEW j \in Ids,
           InMove(op) = {j}, op.path \in Paths, op.new \in Paths,
           Unlink(op, j) \/ TakeBack(op, j), NEW i \in Ids
    PROVE  Keeps(i)
  <1>1. /\ Moves(proc[a], i) <=> i = j
        /\ ~Moves(next, i)
    BY DEF Moves
  <1>2. /\ i = j => Cardinality(Movers(i)') = Cardinality(Movers(i)) + (-1)
        /\ i # j => Movers(i)' = Movers(i)
    BY <1>1, OneActor, Counts
  <1>3. ASSUME NEW path \in Paths, files' = [files EXCEPT ![path] = Nothing], Touches(path, j)
        PROVE  Keeps(i)
    <2>1. /\ ~HoldsNote(path, i) => Holders(i)' = Holders(i)
          /\ HoldsNote(path, i) => Cardinality(Holders(i)') = Cardinality(Holders(i)) + (-1)
      BY <1>3, OneName, Counts
    <2>2. i = j /\ ~HoldsNote(path, i) => i \in strayed'
      BY <1>3 DEF Touches
    <2>3. i # j /\ HoldsNote(path, i) => i \in overrun'
      BY <1>3 DEF Touches, Overruns, HoldsNote
    <2>4. CASE i = j /\ HoldsNote(path, i)
      BY <1>2, <2>1, <2>4, KeepsFrom
    <2>5. CASE i = j /\ ~HoldsNote(path, i)
      BY <1>2, <2>1, <2>2, <2>5, KeepsFrom
    <2>6. CASE i # j /\ HoldsNote(path, i)
      BY <1>2, <2>1, <2>3, <2>6, KeepsFrom
    <2>7. CASE i # j /\ ~HoldsNote(path, i)
      BY <1>2, <2>1, <2>7, KeepsFrom
    <2> QED
      BY <2>4, <2>5, <2>6, <2>7
  <1>4. CASE Unlink(op, j)
    BY <1>3, <1>4 DEF Unlink, Unlinked
  <1>5. CASE TakeBack(op, j)
    <2>1. CASE files' = RolledBack(op) /\ Touches(op.new, j)
      BY <1>3, <2>1 DEF RolledBack
    <2>2. CASE UNCHANGED files /\ cut' = cut \cup LeftBehind(op) \cup {j}
      <3>1. Holders(i)' = Holders(i)
        BY <2>2 DEF Holders
      <3>2. i = j => i \in cut'
        BY <2>2
      <3> QED
        BY <1>2, <3>1, <3>2, KeepsFrom
    <2> QED
      BY <1>5, <2>1, <2>2 DEF TakeBack
  <1> QED
    BY <1>4, <1>5

LEMMA RenamedKeeps ==
    ASSUME NEW i \in Ids, VaultTypeOK, NEW a \in Actors, NEW op,
           proc' = [proc EXCEPT ![a] = op], NEW p \in Projects, NEW q \in Projects,
           p \in folders, q \notin folders,
           files' = [path \in Paths |->
               IF FolderOf(path) = q THEN files[InFolder(path, p)]
               ELSE IF FolderOf(path) = p THEN Nothing ELSE files[path]],
           ~Linking(proc[a]), ~Linking(op)
    PROVE  Keeps(i)
  <1>1. Movers(i)' = Movers(i)
    BY OneActor DEF Moves
  <1>2. p \in Folders /\ q \in Folders /\ p # q
    BY DEF Folders
  <1>3. \A path \in Paths : files[path] # Nothing => FolderOf(path) # q
    BY VaultAssumption DEF VaultTypeOK
  <1> DEFINE f == [path \in Holders(i) |-> IF FolderOf(path) = p THEN InFolder(path, q) ELSE path]
             H == Holders(i)'
  <1>4. \A path : path \in Holders(i) <=> path \in Paths /\ files[path] # Nothing /\ files[path].id = i
    BY DEF Holders
  <1>5. \A path : path \in H <=> path \in Paths /\ files'[path] # Nothing /\ files'[path].id = i
    BY DEF Holders
  <1>6. \A path \in Paths : /\ InFolder(path, q) \in Paths /\ FolderOf(InFolder(path, q)) = q
                            /\ InFolder(path, p) \in Paths /\ FolderOf(InFolder(path, p)) = p
                            /\ FolderOf(path) = p => InFolder(InFolder(path, q), p) = path
                            /\ FolderOf(path) = q => InFolder(InFolder(path, p), q) = path
    BY <1>2, PathParts DEF FolderOf, InFolder
  <1>7. \A path \in Paths : files'[path] = IF FolderOf(path) = q THEN files[InFolder(path, p)]
                                           ELSE IF FolderOf(path) = p THEN Nothing ELSE files[path]
    OBVIOUS
  <1> HIDE DEF H
  <1>8. \A path \in Holders(i) : f[path] \in H
    <2> SUFFICES ASSUME NEW path \in Holders(i) PROVE f[path] \in H
      OBVIOUS
    <2>1. CASE FolderOf(path) = p
      <3>1. f[path] = InFolder(path, q)
        BY <2>1
      <3>2. files'[InFolder(path, q)] = files[path]
        BY <1>4, <1>6, <1>7, <2>1
      <3> QED
        BY <1>4, <1>5, <1>6, <3>1, <3>2
    <2>2. CASE FolderOf(path) # p
      BY <1>3, <1>4, <1>5, <1>7, <2>2
    <2> QED
      BY <2>1, <2>2
  <1>9. \A x, y \in Holders(i) : f[x] = f[y] => x = y
    <2> SUFFICES ASSUME NEW x \in Holders(i), NEW y \in Holders(i), f[x] = f[y] PROVE x = y
      OBVIOUS
    <2>1. x \in Paths /\ y \in Paths /\ FolderOf(x) # q /\ FolderOf(y) # q
      BY <1>3, <1>4
    <2>2. /\ f[x] = IF FolderOf(x) = p THEN InFolder(x, q) ELSE x
          /\ f[y] = IF FolderOf(y) = p THEN InFolder(y, q) ELSE y
      OBVIOUS
    <2> HIDE DEF f
    <2>3. CASE FolderOf(x) = p /\ FolderOf(y) = p
      <3>1. InFolder(x, q) = InFolder(y, q)
        BY <2>2, <2>3
      <3> QED
        BY <1>6, <2>1, <2>3, <3>1
    <2>4. CASE FolderOf(x) = p /\ FolderOf(y) # p
      <3>1. InFolder(x, q) = y /\ FolderOf(InFolder(x, q)) = q
        BY <1>6, <2>1, <2>2, <2>4
      <3> QED
        BY <2>1, <3>1
    <2>5. CASE FolderOf(x) # p /\ FolderOf(y) = p
      <3>1. InFolder(y, q) = x /\ FolderOf(InFolder(y, q)) = q
        BY <1>6, <2>1, <2>2, <2>5
      <3> QED
        BY <2>1, <3>1
    <2>6. CASE FolderOf(x) # p /\ FolderOf(y) # p
      BY <2>2, <2>6
    <2> QED
      BY <2>3, <2>4, <2>5, <2>6
  <1>10. \A y \in H : \E x \in Holders(i) : f[x] = y
    <2> SUFFICES ASSUME NEW y \in H PROVE \E x \in Holders(i) : f[x] = y
      OBVIOUS
    <2>1. CASE FolderOf(y) = q
      <3>1. files'[y] = files[InFolder(y, p)]
        BY <1>5, <1>7, <2>1
      <3>2. InFolder(y, p) \in Holders(i)
        BY <1>4, <1>5, <1>6, <3>1
      <3>3. f[InFolder(y, p)] = InFolder(InFolder(y, p), q)
        BY <1>5, <1>6, <3>2
      <3> QED
        BY <1>5, <1>6, <2>1, <3>2, <3>3
    <2>2. CASE FolderOf(y) # q
      <3>1. FolderOf(y) # p /\ files'[y] = files[y]
        BY <1>5, <1>7, <2>2
      <3>2. y \in Holders(i)
        BY <1>4, <1>5, <3>1
      <3> QED
        BY <3>1, <3>2
    <2> QED
      BY <2>1, <2>2
  <1>11. f \in Bijection(Holders(i), H)
    <2>1. f \in [Holders(i) -> H]
      BY <1>8
    <2> HIDE DEF f
    <2> QED
      BY <2>1, <1>9, <1>10 DEF Bijection, Injection, Surjection, IsInjective
  <1>12. Cardinality(Holders(i)') = Cardinality(Holders(i)) + 0
    <2>1. IsFiniteSet(Holders(i)) /\ Cardinality(Holders(i)) \in Nat
      BY Counts
    <2>2. ExistsBijection(Holders(i), H)
      BY <1>11 DEF ExistsBijection
    <2>3. Cardinality(H) = Cardinality(Holders(i))
      BY <2>1, <2>2, FS_Bijection
    <2> QED
      BY <2>1, <2>3 DEF H
  <1> QED
    BY <1>1, <1>12, KeepsFrom

-----------------------------------------------------------------------------
(* Every step.                                                             *)

LEMMA StartKeeps ==
    ASSUME VaultTypeOK, NEW a \in Actors, Starts(a), NEW i \in Ids
    PROVE  Keeps(i) /\ HistoryGrows
  <1> USE DEF history, stray
  <1>1. ASSUME NEW op, Begin(a, op), ~Linking(op), files' = files
        PROVE  Keeps(i)
    <2>1. proc' = [proc EXCEPT ![a] = op] /\ ~Linking(proc[a])
      BY <1>1 DEF Begin, Linking
    <2> QED
      BY <1>1, <2>1, IdleKeeps
  <1>2. ASSUME NEW j \in Ids, NEW kind \in {"edit", "category"}, FindForEdit(a, j, kind)
        PROVE  Keeps(i)
    <2>1. PICK path \in Holders(j) :
            Begin(a, [kind |-> kind, at |-> "found", path |-> path, note |-> files[path]])
      BY <1>2 DEF FindForEdit
    <2>2. ~Linking([kind |-> kind, at |-> "found", path |-> path, note |-> files[path]])
      BY DEF Linking
    <2> QED
      BY <1>1, <1>2, <2>1, <2>2 DEF FindForEdit
  <1>3. ASSUME NEW j \in Ids, FindForDelete(a, j)
        PROVE  Keeps(i)
    <2>1. PICK path \in Holders(j) :
            Begin(a, [kind |-> "delete", at |-> "found", path |-> path, note |-> files[path]])
      BY <1>3 DEF FindForDelete
    <2>2. ~Linking([kind |-> "delete", at |-> "found", path |-> path, note |-> files[path]])
      BY DEF Linking
    <2> QED
      BY <1>1, <1>3, <2>1, <2>2 DEF FindForDelete
  <1>4. ASSUME NEW j \in Ids, NEW p \in Projects, NEW create \in BOOLEAN, FindForFiling(a, j, p, create)
        PROVE  Keeps(i)
    <2>1. PICK path \in Holders(j) :
            Begin(a, [kind |-> "file", at |-> "found", path |-> path, new |-> path,
                      note |-> files[path], target |-> p])
      BY <1>4 DEF FindForFiling
    <2>2. ~Linking([kind |-> "file", at |-> "found", path |-> path, new |-> path,
                    note |-> files[path], target |-> p])
      BY DEF Linking
    <2> QED
      BY <1>1, <1>4, <2>1, <2>2 DEF FindForFiling
  <1>5. ASSUME NEW p \in Projects, ScanForDelete(a, p)
        PROVE  Keeps(i)
    <2> DEFINE op == [kind |-> "delete project", at |-> "moving", project |-> p, todo |-> Scan(p),
                      infra |-> {log[1] : log \in examples[p]}, path |-> Nothing, new |-> Nothing]
    <2>1. Begin(a, op) /\ ~Linking(op)
      BY <1>5 DEF ScanForDelete, Linking
    <2> HIDE DEF op
    <2> QED
      BY <1>1, <1>5, <2>1 DEF ScanForDelete
  <1>6. ASSUME NEW p \in Projects, NEW q \in Projects, ScanForRename(a, p, q)
        PROVE  Keeps(i)
    <2> DEFINE op == [kind |-> "rename project", at |-> "scanned", project |-> p, to |-> q,
                      todo |-> Scan(p), path |-> Nothing]
    <2>1. Begin(a, op) /\ ~Linking(op)
      BY <1>6 DEF ScanForRename, Linking
    <2> HIDE DEF op
    <2> QED
      BY <1>1, <1>6, <2>1 DEF ScanForRename
  <1>7. HistoryGrows
    BY DEF Starts, FindForEdit, FindForDelete, FindForFiling, ScanForDelete, ScanForRename, HistoryGrows
  <1> QED
    BY <1>2, <1>3, <1>4, <1>5, <1>6, <1>7 DEF Starts

LEMMA NoteStepKeeps ==
    ASSUME VaultTypeOK, OpsFit, NEW a \in Actors,
           SaveChecks(a) \/ SaveEdit(a) \/ SaveExample(a) \/ DeleteNote(a), NEW i \in Ids
    PROVE  Keeps(i) /\ HistoryGrows
  <1> USE DEF history, stray
  <1>0. PICK op : op = proc[a]
    OBVIOUS
  <1>1. op \in NoteOps /\ op # Nothing
    BY <1>0, HandShape DEF SaveChecks, SaveEdit, SaveExample, DeleteNote, Editing
  <1>2. op.path \in Paths /\ op.note \in Contents /\ op.note.id \in Ids
    BY <1>1 DEF NoteOps, Contents
  <1>3. \A at : [op EXCEPT !.at = at].kind = op.kind
    BY <1>1 DEF NoteOps
  <1>4. ~Linking(proc[a]) /\ ~Linking(Nothing) /\ \A at : ~Linking([op EXCEPT !.at = at])
    BY <1>0, <1>1, <1>3 DEF Linking, NoteOps
  <1>5. CASE SaveChecks(a) \/ SaveExample(a)
    <2>1. PICK next : proc' = [proc EXCEPT ![a] = next] /\ ~Linking(next)
      BY <1>0, <1>4, <1>5 DEF SaveChecks, SaveExample, Proceed, Done
    <2>2. Keeps(i)
      BY <1>4, <1>5, <2>1, IdleKeeps DEF SaveChecks, SaveExample
    <2> QED
      BY <1>5, <2>2 DEF SaveChecks, SaveExample, HistoryGrows
  <1>6. CASE SaveEdit(a)
    <2>1. PICK next : proc' = [proc EXCEPT ![a] = next] /\ ~Linking(next)
      BY <1>0, <1>4, <1>6 DEF SaveEdit, Proceed, Done
    <2>2. CASE ~CanStage(op.path)
      <3>1. files' = files /\ HistoryGrows
        BY <1>0, <1>6, <2>2 DEF SaveEdit, HistoryGrows
      <3> QED
        BY <1>4, <2>1, <3>1, IdleKeeps
    <2>3. CASE CanStage(op.path)
      <3>1. PICK extra \in {op.note.extra} \cup (Extras \ {FALSE}) :
                Replace(op.path, [op.note EXCEPT !.extra = extra])
        BY <1>0, <1>6, <2>3 DEF SaveEdit
      <3>2. [op.note EXCEPT !.extra = extra] \in Contents
        BY <1>2, <3>1, VaultAssumption DEF Contents
      <3>3. Keeps(i)
        BY <1>2, <1>4, <2>1, <3>1, <3>2, WriteKeeps
      <3>4. overrun \subseteq overrun' /\ strayed \subseteq strayed'
        BY <3>1 DEF Replace, Touches, Overruns
      <3> QED
        BY <1>6, <3>3, <3>4 DEF SaveEdit, HistoryGrows
    <2> QED
      BY <2>2, <2>3
  <1>7. CASE DeleteNote(a)
    <2>1. proc' = [proc EXCEPT ![a] = Nothing]
      BY <1>7 DEF DeleteNote, Done, Proceed
    <2>2. op.note.id \in removed'
      BY <1>0, <1>1, <1>7 DEF DeleteNote, OpsFit, OpFits
    <2>3. files' = [files EXCEPT ![op.path] = Nothing] /\ Overruns(op.path, op.note.id)
      BY <1>0, <1>7 DEF DeleteNote
    <2>4. Keeps(i)
      BY <1>2, <1>4, <2>1, <2>2, <2>3, DeleteKeeps
    <2>5. overrun \subseteq overrun'
      BY <2>3 DEF Overruns
    <2> QED
      BY <1>7, <2>4, <2>5 DEF DeleteNote, HistoryGrows
  <1> QED
    BY <1>5, <1>6, <1>7

\* What a move's end does to history.
LEMMA EndGrows ==
    ASSUME NEW op, NEW j, Unlink(op, j) \/ TakeBack(op, j)
    PROVE  cut \subseteq cut' /\ overrun \subseteq overrun' /\ strayed \subseteq strayed'
  BY DEF Unlink, TakeBack, Touches, Overruns, stray

LEMMA FilingKeeps ==
    ASSUME VaultTypeOK, NEW a \in Actors,
           \/ FileLinks(a) \/ FileRewrites(a) \/ FileUnlinks(a)
           \/ FileClearsExamples(a) \/ FileSavesExample(a),
           NEW i \in Ids
    PROVE  Keeps(i) /\ HistoryGrows
  <1> USE DEF history, stray
  <1>0. PICK op : op = proc[a]
    OBVIOUS
  <1>1. op \in FileOps /\ op \in Operations /\ op # Nothing /\ op.kind = "file"
    BY <1>0, HandShape DEF FileLinks, FileRewrites, FileUnlinks, FileClearsExamples,
       FileSavesExample, Filing
  <1>2. /\ op.path \in Paths /\ op.new \in Paths /\ op.note \in Contents /\ op.target \in Folders
        /\ op.note.id \in Ids
    BY <1>1 DEF FileOps, Contents, Folders
  <1>3. [op.note EXCEPT !.project = op.target] \in Contents
        /\ [op.note EXCEPT !.project = op.target].id = op.note.id
    BY <1>2 DEF Contents
  <1>4. ~Linking(Nothing) /\ \A at \in {"checked", "moved", "cleared"} : ~Linking([op EXCEPT !.at = at])
    BY <1>1 DEF Linking, FileOps
  <1>5. CASE FileLinks(a)
    <2>1. ~Linking(proc[a])
      BY <1>5 DEF FileLinks, Filing, Linking
    <2>2. CASE FolderOf(op.path) = op.target
      <3>1. PICK next : proc' = [proc EXCEPT ![a] = next] /\ ~Linking(next)
        BY <1>0, <1>4, <1>5, <2>2 DEF FileLinks, Proceed, Done
      <3>2. files' = files /\ HistoryGrows
        BY <1>0, <1>5, <2>2 DEF FileLinks, HistoryGrows
      <3> QED
        BY <2>1, <3>1, <3>2, IdleKeeps
    <2>3. CASE FolderOf(op.path) # op.target
      <3>1. Link(a, op, op.target, [op.note EXCEPT !.project = op.target])
        BY <1>0, <1>5, <2>3 DEF FileLinks
      <3>2. ASSUME NEW new \in Paths
            PROVE  InMove(LinkedAs(op, new)) = {op.note.id}
        <4> DEFINE next == [op EXCEPT !.at = "linked", !.new = new]
        <4>1. next.kind = "file" /\ next.at = "linked" /\ next.note = op.note
          BY <1>1 DEF FileOps
        <4>2. next # Nothing
          <5>1. next \in FileOps
            BY <1>1, <3>2 DEF FileOps
          <5> HIDE DEF next
          <5> QED
            BY <5>1, OpShape DEF Operations
        <4> HIDE DEF next
        <4> QED
          BY <4>1, <4>2 DEF InMove, next, LinkedAs
      <3>3. Keeps(i)
        <4>1. PICK note \in Contents : note = [op.note EXCEPT !.project = op.target]
          BY <1>3
        <4>2. Link(a, op, op.target, note) /\ note.id = op.note.id
          BY <1>3, <3>1, <4>1
        <4> QED
          BY <1>1, <1>2, <2>1, <3>2, <4>2, LinkKeeps
      <3>4. HistoryGrows
        BY <1>5 DEF FileLinks, HistoryGrows
      <3> QED
        BY <3>3, <3>4
    <2> QED
      BY <2>2, <2>3
  <1>6. CASE FileRewrites(a)
    <2>1. ~Linking(proc[a])
      BY <1>6 DEF FileRewrites, Filing, Linking
    <2>2. PICK next : proc' = [proc EXCEPT ![a] = next] /\ ~Linking(next)
      BY <1>0, <1>4, <1>6 DEF FileRewrites, Proceed, Done
    <2>3. CASE ~CanStage(op.path)
      <3>1. files' = files /\ HistoryGrows
        BY <1>0, <1>6, <2>3 DEF FileRewrites, HistoryGrows
      <3> QED
        BY <2>1, <2>2, <3>1, IdleKeeps
    <2>4. CASE CanStage(op.path)
      <3>1. Replace(op.path, [op.note EXCEPT !.project = op.target])
        BY <1>0, <1>6, <2>4 DEF FileRewrites
      <3>2. Keeps(i)
        BY <1>2, <1>3, <2>1, <2>2, <3>1, WriteKeeps
      <3>3. overrun \subseteq overrun' /\ strayed \subseteq strayed'
        BY <3>1 DEF Replace, Touches, Overruns
      <3> QED
        BY <1>6, <3>2, <3>3 DEF FileRewrites, HistoryGrows
    <2> QED
      BY <2>3, <2>4
  <1>7. CASE FileUnlinks(a)
    <2>1. PICK next : proc' = [proc EXCEPT ![a] = next] /\ ~Linking(next)
      BY <1>0, <1>4, <1>7 DEF FileUnlinks, Proceed, Done
    <2>2. op.at = "linked"
      BY <1>0, <1>7 DEF FileUnlinks, Filing
    <2>3. Linking(proc[a]) /\ InMove(op) = {op.note.id}
      BY <1>0, <1>1, <2>2 DEF Linking, InMove
    <2>4. Unlink(op, op.note.id) \/ TakeBack(op, op.note.id)
      BY <1>0, <1>7 DEF FileUnlinks
    <2>5. Keeps(i)
      BY <1>0, <1>2, <2>1, <2>3, <2>4, EndKeeps
    <2> QED
      BY <1>7, <2>4, <2>5, EndGrows DEF FileUnlinks, HistoryGrows
  <1>8. CASE FileClearsExamples(a) \/ FileSavesExample(a)
    <2>1. ~Linking(proc[a])
      BY <1>8 DEF FileClearsExamples, FileSavesExample, Filing, Linking
    <2>2. PICK next : proc' = [proc EXCEPT ![a] = next] /\ ~Linking(next)
      BY <1>0, <1>4, <1>8 DEF FileClearsExamples, FileSavesExample, Proceed, Done
    <2>3. Keeps(i)
      BY <1>8, <2>1, <2>2, IdleKeeps DEF FileClearsExamples, FileSavesExample
    <2> QED
      BY <1>8, <2>3 DEF FileClearsExamples, FileSavesExample, HistoryGrows
  <1> QED
    BY <1>5, <1>6, <1>7, <1>8

LEMMA ProjectKeeps ==
    ASSUME VaultTypeOK, OpsFit, NEW a \in Actors,
           \/ DeleteProjectLinks(a) \/ DeleteProjectUnlinks(a) \/ DeleteProjectRemoves(a)
           \/ RenameMoves(a) \/ RenameChecks(a) \/ RenameRewrites(a),
           NEW i \in Ids
    PROVE  Keeps(i) /\ HistoryGrows
  <1> USE DEF history, stray
  <1>0. PICK op : op = proc[a]
    OBVIOUS
  <1>1. CASE DeleteProjectLinks(a)
    <2>1. op \in DeleteOps /\ op.kind = "delete project" /\ op.at = "moving" /\ op # Nothing
      BY <1>0, <1>1, HandShape DEF DeleteProjectLinks, Deleting
    <2>2. PICK r \in op.todo : Link(a, [op EXCEPT !.path = r.path], Inbox,
                                    [id |-> r.note.id, project |-> Inbox, extra |-> FALSE])
      BY <1>0, <1>1 DEF DeleteProjectLinks
    <2>3. PICK next : next = [op EXCEPT !.path = r.path]
      OBVIOUS
    <2>4. r.path \in Paths /\ r.note.id \in Ids
      BY <2>1, <2>2 DEF DeleteOps, Scanned, Contents
    <2>5. /\ next \in DeleteOps /\ next.path = r.path /\ next.todo = op.todo
          /\ next.kind = "delete project"
      BY <2>1, <2>3, <2>4 DEF DeleteOps
    <2>6. [id |-> r.note.id, project |-> Inbox, extra |-> FALSE] \in Contents
      BY <2>4 DEF Contents, Folders
    <2>7. \A s \in op.todo : s.path = r.path => s = r
      BY <1>0, <2>1, <2>2 DEF OpsFit, OpFits
    <2>8. ASSUME NEW new \in Paths
          PROVE  InMove(LinkedAs(next, new)) = {r.note.id}
      <3> DEFINE last == [next EXCEPT !.at = "linked", !.new = new]
      <3>1. /\ last.kind = "delete project" /\ last.at = "linked" /\ last.todo = op.todo
            /\ last.path = r.path
        BY <2>5 DEF DeleteOps
      <3>2. last # Nothing
        <4>1. last \in DeleteOps
          BY <2>4, <2>5, <2>8 DEF DeleteOps
        <4> HIDE DEF last
        <4> QED
          BY <4>1, OpShape DEF Operations
      <3> HIDE DEF last
      <3>3. InMove(last) = {s.note.id : s \in {t \in op.todo : t.path = r.path}}
        BY <3>1, <3>2 DEF InMove
      <3> QED
        BY <2>2, <2>7, <3>3 DEF last, LinkedAs
    <2>9. ~Linking(proc[a])
      BY <1>0, <2>1 DEF Linking
    <2>10. Keeps(i)
      <3>1. Link(a, next, Inbox, [id |-> r.note.id, project |-> Inbox, extra |-> FALSE])
        BY <2>2, <2>3
      <3> QED
        <4>1. Inbox \in Folders
          BY DEF Folders
        <4> QED
          <5>1. PICK note \in Contents : note = [id |-> r.note.id, project |-> Inbox, extra |-> FALSE]
            BY <2>6
          <5>2. Link(a, next, Inbox, note) /\ note.id = r.note.id
            BY <3>1, <5>1
          <5>3. next \in FileOps \cup DeleteOps /\ next.path \in Paths
            BY <2>4, <2>5
          <5>4. \A new \in Paths : InMove(LinkedAs(next, new)) = {note.id}
            BY <2>8, <5>2
          <5> QED
            BY <2>9, <4>1, <5>2, <5>3, <5>4, LinkKeeps
    <2> QED
      BY <1>1, <2>10 DEF DeleteProjectLinks, HistoryGrows
  <1>2. CASE DeleteProjectUnlinks(a)
    <2>1. op \in DeleteOps /\ op.kind = "delete project" /\ op.at = "linked" /\ op # Nothing
      BY <1>0, <1>2, HandShape DEF DeleteProjectUnlinks, Deleting
    <2>2. PICK j \in InMove(op) : Unlink(op, j) \/ TakeBack(op, j)
      BY <1>0, <1>2 DEF DeleteProjectUnlinks
    <2>3. op.path \in Paths /\ op.new \in Paths
      BY <2>1 DEF DeleteOps
    <2>4. InMove(op) = {j} /\ j \in Ids
      <3>1. InMove(op) = {r.note.id : r \in {t \in op.todo : t.path = op.path}}
        BY <2>1 DEF InMove
      <3>2. \A r, s \in op.todo : r.path = s.path => r = s
        BY <1>0, <2>1 DEF OpsFit, OpFits
      <3>3. \A r \in op.todo : r.note.id \in Ids
        BY <2>1 DEF DeleteOps, Scanned, Contents
      <3> QED
        BY <2>2, <3>1, <3>2, <3>3
    <2>5. ~Linking(Nothing) /\ \A todo : ~Linking([op EXCEPT !.at = "moving", !.todo = todo])
      BY <2>1 DEF Linking, DeleteOps
    <2>6. PICK next : proc' = [proc EXCEPT ![a] = next] /\ ~Linking(next)
      <3>1. PICK next : Proceed(a, next) /\ next \in {Nothing,
               [op EXCEPT !.at = "moving", !.todo = {r \in op.todo : r.path # op.path}]}
        BY <1>0, <1>2, <2>1 DEF DeleteProjectUnlinks, Done
      <3> QED
        BY <2>5, <3>1 DEF Proceed
    <2>7. Linking(proc[a])
      BY <1>0, <2>1 DEF Linking
    <2>8. Keeps(i)
      BY <1>0, <2>2, <2>3, <2>4, <2>6, <2>7, EndKeeps
    <2> QED
      BY <1>2, <2>2, <2>8, EndGrows DEF DeleteProjectUnlinks, HistoryGrows
  <1>3. CASE DeleteProjectRemoves(a)
    <2>1. ~Linking(proc[a]) /\ ~Linking(Nothing)
      BY <1>3 DEF DeleteProjectRemoves, Deleting, Linking
    <2>2. proc' = [proc EXCEPT ![a] = Nothing] /\ files' = files
      BY <1>3 DEF DeleteProjectRemoves, Done, Proceed
    <2>3. Keeps(i)
      BY <2>1, <2>2, IdleKeeps
    <2> QED
      BY <1>3, <2>3 DEF DeleteProjectRemoves, HistoryGrows
  <1>4. ASSUME RenameMoves(a) \/ RenameChecks(a) \/ RenameRewrites(a)
        PROVE  op \in RenameOps /\ op.kind = "rename project" /\ ~Linking(proc[a])
    <2>1. proc[a] # Nothing /\ proc[a].kind = "rename project"
      BY <1>4 DEF RenameMoves, RenameChecks, RenameRewrites, Renaming
    <2> QED
      BY <1>0, <2>1, HandShape DEF Linking
  <1>5. CASE RenameMoves(a)
    <2>1. ~Linking(Nothing) /\ ~Linking([op EXCEPT !.at = "moved"])
      BY <1>4, <1>5 DEF Linking, RenameOps
    <2>2. PICK next : proc' = [proc EXCEPT ![a] = next] /\ ~Linking(next)
      BY <1>0, <1>5, <2>1 DEF RenameMoves, Proceed, Done
    <2>3. HistoryGrows
      BY <1>5 DEF RenameMoves, HistoryGrows
    <2>4. CASE op.project \notin folders \/ op.to \in folders
      <3>1. files' = files
        BY <1>0, <1>5, <2>4 DEF RenameMoves
      <3> QED
        BY <1>4, <1>5, <2>2, <2>3, <3>1, IdleKeeps
    <2>5. CASE ~(op.project \notin folders \/ op.to \in folders)
      <3>1. files' = [path \in Paths |->
                IF FolderOf(path) = op.to THEN files[InFolder(path, op.project)]
                ELSE IF FolderOf(path) = op.project THEN Nothing ELSE files[path]]
        BY <1>0, <1>5, <2>5 DEF RenameMoves
      <3>2. op.project \in Projects /\ op.to \in Projects
        BY <1>4, <1>5 DEF RenameOps
      <3> QED
        BY <1>4, <1>5, <2>2, <2>3, <2>5, <3>1, <3>2, RenamedKeeps
    <2> QED
      BY <2>4, <2>5
  <1>6. CASE RenameChecks(a)
    <2>1. \A r : /\ ~Linking([op EXCEPT !.at = "checked", !.path = r.path])
                 /\ ~Linking([op EXCEPT !.todo = @ \ {r}])
      BY <1>4, <1>6 DEF Linking, RenameOps
    <2>2. PICK next : proc' = [proc EXCEPT ![a] = next] /\ ~Linking(next)
      BY <1>0, <1>6, <2>1 DEF RenameChecks, Proceed, Done, Linking
    <2>3. Keeps(i)
      BY <1>4, <1>6, <2>2, IdleKeeps DEF RenameChecks
    <2> QED
      BY <1>6, <2>3 DEF RenameChecks, HistoryGrows
  <1>7. CASE RenameRewrites(a)
    <2>1. PICK r \in op.todo :
            /\ IF CanStage(InFolder(r.path, op.to))
               THEN Replace(InFolder(r.path, op.to), [r.note EXCEPT !.project = op.to])
               ELSE UNCHANGED <<files, stray>>
            /\ Proceed(a, [op EXCEPT !.at = "moved", !.todo = @ \ {r}])
      BY <1>0, <1>7 DEF RenameRewrites
    <2>2. PICK next : proc' = [proc EXCEPT ![a] = next] /\ ~Linking(next)
      <3>1. ~Linking([op EXCEPT !.at = "moved", !.todo = @ \ {r}])
        BY <1>4, <1>7 DEF Linking, RenameOps
      <3> QED
        BY <2>1, <3>1 DEF Proceed
    <2>3. r.path \in Paths /\ r.note \in Contents /\ op.to \in Projects
      BY <1>4, <1>7, <2>1 DEF RenameOps, Scanned
    <2>4. PICK path : path = InFolder(r.path, op.to)
      OBVIOUS
    <2>5. path \in Paths /\ [r.note EXCEPT !.project = op.to] \in Contents
      BY <2>3, <2>4, PathParts DEF Folders, Contents
    <2>6. CASE CanStage(path)
      <3>1. Replace(path, [r.note EXCEPT !.project = op.to])
        BY <2>1, <2>4, <2>6
      <3>2. Keeps(i)
        BY <1>4, <1>7, <2>2, <2>5, <3>1, WriteKeeps
      <3>3. overrun \subseteq overrun' /\ strayed \subseteq strayed'
        BY <3>1 DEF Replace, Touches, Overruns
      <3> QED
        BY <1>7, <3>2, <3>3 DEF RenameRewrites, HistoryGrows
    <2>7. CASE ~CanStage(path)
      <3>1. files' = files /\ HistoryGrows
        BY <1>7, <2>1, <2>4, <2>7 DEF RenameRewrites, HistoryGrows
      <3> QED
        BY <1>4, <1>7, <2>2, <3>1, IdleKeeps
    <2> QED
      BY <2>6, <2>7
  <1> QED
    BY <1>1, <1>2, <1>3, <1>5, <1>6, <1>7

LEMMA StepKeeps ==
    ASSUME VaultTypeOK, OpsFit, [Next]_vars, NEW i \in Ids
    PROVE  Keeps(i) /\ HistoryGrows
  <1> USE DEF history, meetings, stray
  <1>1. ASSUME UNCHANGED <<files, proc>> PROVE Keeps(i)
    <2>1. Holders(i)' = Holders(i) /\ Movers(i)' = Movers(i)
      BY <1>1 DEF Holders, Movers, Moves, Linking, InMove
    <2> QED
      BY <2>1, BothKeep
  <1>2. ASSUME NEW a \in Actors, Dies(a)
        PROVE  Keeps(i) /\ HistoryGrows
    <2>1. proc' = [proc EXCEPT ![a] = Nothing] /\ ~Moves(Nothing, i)
      BY <1>2 DEF Dies, Done, Proceed, Moves, Linking
    <2>2. Holders(i)' = Holders(i)
      BY <1>2 DEF Dies, Holders
    <2>3. CASE Moves(proc[a], i)
      <3>1. Cardinality(Movers(i)') = Cardinality(Movers(i)) + (-1)
        BY <2>1, <2>3, OneActor, Counts
      <3>2. i \in cut'
        BY <1>2, <2>3 DEF Dies, Moves
      <3>3. Keeps(i)
        BY <2>2, <3>1, <3>2, KeepsFrom
      <3> QED
        BY <1>2, <3>3 DEF Dies, HistoryGrows
    <2>4. CASE ~Moves(proc[a], i)
      <3>1. Movers(i)' = Movers(i)
        BY <2>1, <2>4, OneActor
      <3>2. Keeps(i)
        BY <2>2, <3>1, BothKeep
      <3> QED
        BY <1>2, <3>2 DEF Dies, HistoryGrows
    <2> QED
      BY <2>3, <2>4
  <1>3. ASSUME NEW a \in Actors, Steps(a)
        PROVE  Keeps(i) /\ HistoryGrows
    BY <1>3, NoteStepKeeps, FilingKeeps, ProjectKeeps DEF Steps
  <1>4. ASSUME NEW a \in Actors, Starts(a)
        PROVE  Keeps(i) /\ HistoryGrows
    BY <1>4, StartKeeps
  <1>5. ASSUME NEW p \in Projects, CreateProject(p) \/ DropOther(p)
        PROVE  Keeps(i) /\ HistoryGrows
    BY <1>1, <1>5 DEF CreateProject, DropOther, HistoryGrows
  <1>6. CASE UNCHANGED vars
    BY <1>1, <1>6 DEF vars, HistoryGrows
  <1> QED
    BY <1>2, <1>3, <1>4, <1>5, <1>6 DEF Next

-----------------------------------------------------------------------------
(* What the operations promise, and the start.                             *)

\* One actor's operation changes.
LEMMA FitsFrom ==
    ASSUME VaultTypeOK, OpsFit, NEW a \in Actors, NEW op,
           proc' = [proc EXCEPT ![a] = op], removed \subseteq removed',
           op # Nothing => OpFits(op, removed')
    PROVE  OpsFit'
  <1>1. ASSUME NEW b \in Actors, proc'[b] # Nothing
        PROVE  OpFits(proc'[b], removed')
    <2>1. CASE b = a
      BY <1>1, <2>1 DEF VaultTypeOK
    <2>2. CASE b # a
      <3>1. proc'[b] = proc[b]
        BY <2>2 DEF VaultTypeOK
      <3>2. OpFits(proc[b], removed)
        BY <1>1, <3>1 DEF OpsFit
      <3> QED
        BY <3>1, <3>2 DEF OpFits
    <2> QED
      BY <2>1, <2>2
  <1> QED
    BY <1>1 DEF OpsFit

LEMMA FitsStep ==
    ASSUME VaultTypeOK, OpsFit, [Next]_vars, removed \subseteq removed'
    PROVE  OpsFit'
  <1> USE DEF history, meetings, stray
  <1>1. ASSUME NEW a \in Actors, NEW op, Proceed(a, op), op # Nothing => OpFits(op, removed')
        PROVE  OpsFit'
    BY <1>1, FitsFrom DEF Proceed
  <1>2. ASSUME NEW a \in Actors, Done(a)
        PROVE  OpsFit'
    BY <1>1, <1>2 DEF Done
  <1>3. ASSUME NEW a \in Actors, NEW op, Begin(a, op), OpFits(op, removed')
        PROVE  OpsFit'
    BY <1>3, FitsFrom DEF Begin
  <1>4. ASSUME NEW a \in Actors, Starts(a)
        PROVE  OpsFit'
    <2>1. ASSUME NEW j \in Ids, NEW kind \in {"edit", "category"}, FindForEdit(a, j, kind)
          PROVE  OpsFit'
      <3>1. PICK path \in Holders(j) :
              Begin(a, [kind |-> kind, at |-> "found", path |-> path, note |-> files[path]])
        BY <2>1 DEF FindForEdit
      <3>2. OpFits([kind |-> kind, at |-> "found", path |-> path, note |-> files[path]], removed')
        BY DEF OpFits
      <3> QED
        BY <1>3, <3>1, <3>2
    <2>2. ASSUME NEW j \in Ids, FindForDelete(a, j)
          PROVE  OpsFit'
      <3>1. PICK path \in Holders(j) :
              Begin(a, [kind |-> "delete", at |-> "found", path |-> path, note |-> files[path]])
        BY <2>2 DEF FindForDelete
      <3>2. files[path].id \in removed'
        BY <2>2, <3>1 DEF FindForDelete, Holders
      <3>3. OpFits([kind |-> "delete", at |-> "found", path |-> path, note |-> files[path]], removed')
        BY <3>2 DEF OpFits
      <3> QED
        BY <1>3, <3>1, <3>3
    <2>3. ASSUME NEW j \in Ids, NEW p \in Projects, NEW create \in BOOLEAN, FindForFiling(a, j, p, create)
          PROVE  OpsFit'
      <3>1. PICK path \in Holders(j) :
              Begin(a, [kind |-> "file", at |-> "found", path |-> path, new |-> path,
                        note |-> files[path], target |-> p])
        BY <2>3 DEF FindForFiling
      <3>2. OpFits([kind |-> "file", at |-> "found", path |-> path, new |-> path,
                    note |-> files[path], target |-> p], removed')
        BY DEF OpFits
      <3> QED
        BY <1>3, <3>1, <3>2
    <2>4. ASSUME NEW p \in Projects, ScanForDelete(a, p)
          PROVE  OpsFit'
      <3> DEFINE op == [kind |-> "delete project", at |-> "moving", project |-> p, todo |-> Scan(p),
                        infra |-> {log[1] : log \in examples[p]}, path |-> Nothing, new |-> Nothing]
      <3>1. Begin(a, op)
        BY <2>4 DEF ScanForDelete
      <3>2. \A r, s \in Scan(p) : r.path = s.path => r = s
        BY DEF Scan
      <3>3. OpFits(op, removed')
        BY <3>2 DEF OpFits
      <3> HIDE DEF op
      <3> QED
        BY <1>3, <3>1, <3>3
    <2>5. ASSUME NEW p \in Projects, NEW q \in Projects, ScanForRename(a, p, q)
          PROVE  OpsFit'
      <3> DEFINE op == [kind |-> "rename project", at |-> "scanned", project |-> p, to |-> q,
                        todo |-> Scan(p), path |-> Nothing]
      <3>1. Begin(a, op) /\ OpFits(op, removed')
        BY <2>5 DEF ScanForRename, OpFits
      <3> HIDE DEF op
      <3> QED
        BY <1>3, <3>1
    <2> QED
      BY <1>4, <2>1, <2>2, <2>3, <2>4, <2>5 DEF Starts
  <1>5. ASSUME NEW a \in Actors, Steps(a)
        PROVE  OpsFit'
    <2>0. PICK op : op = proc[a]
      OBVIOUS
    <2>1. ASSUME SaveChecks(a) \/ SaveEdit(a) \/ SaveExample(a) \/ DeleteNote(a)
          PROVE  OpsFit'
      <3>1. op \in NoteOps
        BY <2>0, <2>1, HandShape DEF SaveChecks, SaveEdit, SaveExample, DeleteNote, Editing
      <3>2. \A at : op.kind # "delete" => OpFits([op EXCEPT !.at = at], removed')
        BY <3>1 DEF OpFits, NoteOps
      <3> QED
        BY <1>1, <1>2, <2>0, <2>1, <3>2 DEF SaveChecks, SaveEdit, SaveExample, DeleteNote, Editing
    <2>2. ASSUME \/ FileLinks(a) \/ FileRewrites(a) \/ FileUnlinks(a)
                 \/ FileClearsExamples(a) \/ FileSavesExample(a)
          PROVE  OpsFit'
      <3>1. op \in FileOps
        BY <2>0, <2>2, HandShape DEF FileLinks, FileRewrites, FileUnlinks, FileClearsExamples,
           FileSavesExample, Filing
      <3>2. \A at, new : /\ OpFits([op EXCEPT !.at = at], removed')
                         /\ OpFits([op EXCEPT !.at = at, !.new = new], removed')
        BY <3>1 DEF OpFits, FileOps
      <3> QED
        BY <1>1, <1>2, <2>0, <2>2, <3>2 DEF FileLinks, FileRewrites, FileUnlinks,
           FileClearsExamples, FileSavesExample, Link
    <2>3. ASSUME DeleteProjectLinks(a) \/ DeleteProjectUnlinks(a) \/ DeleteProjectRemoves(a)
          PROVE  OpsFit'
      <3>1. op \in DeleteOps /\ op.kind = "delete project" /\ op # Nothing
        BY <2>0, <2>3, HandShape DEF DeleteProjectLinks, DeleteProjectUnlinks, DeleteProjectRemoves,
           Deleting
      <3>2. \A r, s \in op.todo : r.path = s.path => r = s
        BY <2>0, <3>1 DEF OpsFit, OpFits
      <3>3. CASE DeleteProjectLinks(a)
        <4>1. PICK r \in op.todo : Link(a, [op EXCEPT !.path = r.path], Inbox,
                                        [id |-> r.note.id, project |-> Inbox, extra |-> FALSE])
          BY <2>0, <3>3 DEF DeleteProjectLinks
        <4>2. PICK new : Proceed(a, [[op EXCEPT !.path = r.path] EXCEPT !.at = "linked", !.new = new])
          BY <4>1 DEF Link
        <4>3. OpFits([[op EXCEPT !.path = r.path] EXCEPT !.at = "linked", !.new = new], removed')
          BY <3>1, <3>2 DEF OpFits, DeleteOps
        <4> QED
          BY <1>1, <4>2, <4>3
      <3>4. CASE DeleteProjectUnlinks(a)
        <4>1. OpFits([op EXCEPT !.at = "moving", !.todo = {r \in @ : r.path # op.path}], removed')
          <5>1. PICK next : next = [op EXCEPT !.at = "moving", !.todo = {r \in @ : r.path # op.path}]
            OBVIOUS
          <5>2. next.kind = "delete project" /\ next.todo \subseteq op.todo
            BY <3>1, <5>1 DEF DeleteOps
          <5> QED
            BY <3>2, <5>1, <5>2 DEF OpFits
        <4> QED
          BY <1>1, <1>2, <2>0, <3>4, <4>1 DEF DeleteProjectUnlinks
      <3>5. CASE DeleteProjectRemoves(a)
        BY <1>2, <3>5 DEF DeleteProjectRemoves
      <3> QED
        BY <2>3, <3>3, <3>4, <3>5
    <2>4. ASSUME RenameMoves(a) \/ RenameChecks(a) \/ RenameRewrites(a)
          PROVE  OpsFit'
      <3>1. op \in RenameOps
        BY <2>0, <2>4, HandShape DEF RenameMoves, RenameChecks, RenameRewrites, Renaming
      <3>2. \A at, path, todo : /\ OpFits([op EXCEPT !.at = at], removed')
                                /\ OpFits([op EXCEPT !.at = at, !.path = path], removed')
                                /\ OpFits([op EXCEPT !.todo = todo], removed')
                                /\ OpFits([op EXCEPT !.at = at, !.todo = todo], removed')
        <4>1. \A next : next.kind = "rename project" => OpFits(next, removed')
          BY DEF OpFits
        <4>2. \A at, path, todo :
                 /\ [op EXCEPT !.at = at].kind = "rename project"
                 /\ [op EXCEPT !.at = at, !.path = path].kind = "rename project"
                 /\ [op EXCEPT !.todo = todo].kind = "rename project"
                 /\ [op EXCEPT !.at = at, !.todo = todo].kind = "rename project"
          BY <3>1 DEF RenameOps
        <4> QED
          BY <4>1, <4>2
      <3>3. PICK next : Proceed(a, next) /\ (next # Nothing => OpFits(next, removed'))
        <4>1. CASE RenameMoves(a)
          BY <2>0, <3>2, <4>1 DEF RenameMoves, Done
        <4>2. CASE RenameChecks(a)
          <5>1. CASE op.todo = {}
            BY <2>0, <4>2, <5>1 DEF RenameChecks, Done
          <5>2. CASE op.todo # {}
            <6>1. PICK r \in op.todo :
                    Proceed(a, IF r.note.project = op.project /\ There(InFolder(r.path, op.to))
                               THEN [op EXCEPT !.at = "checked", !.path = r.path]
                               ELSE [op EXCEPT !.todo = op.todo \ {r}])
              BY <2>0, <4>2, <5>2 DEF RenameChecks
            <6>2. \/ Proceed(a, [op EXCEPT !.at = "checked", !.path = r.path])
                  \/ Proceed(a, [op EXCEPT !.todo = op.todo \ {r}])
              BY <6>1
            <6> QED
              BY <3>2, <6>2
          <5> QED
            BY <5>1, <5>2
        <4>3. CASE RenameRewrites(a)
          <5>1. PICK r \in op.todo : Proceed(a, [op EXCEPT !.at = "moved", !.todo = op.todo \ {r}])
            BY <2>0, <4>3 DEF RenameRewrites
          <5> QED
            BY <3>2, <5>1
        <4> QED
          BY <2>4, <4>1, <4>2, <4>3
      <3> QED
        BY <1>1, <3>3
    <2> QED
      BY <1>5, <2>1, <2>2, <2>3, <2>4 DEF Steps
  <1>6. ASSUME UNCHANGED proc PROVE OpsFit'
    BY <1>6 DEF OpsFit, OpFits
  <1>7. ASSUME NEW a \in Actors, Dies(a)
        PROVE  OpsFit'
    BY <1>2, <1>7 DEF Dies
  <1>8. ASSUME NEW p \in Projects, CreateProject(p) \/ DropOther(p)
        PROVE  OpsFit'
    BY <1>6, <1>8 DEF CreateProject, DropOther
  <1>9. CASE UNCHANGED vars
    BY <1>6, <1>9 DEF vars
  <1> QED
    BY <1>4, <1>5, <1>7, <1>8, <1>9 DEF Next

\* At the start a note has one file, and no move has linked.
LEMMA InitBalanced ==
    ASSUME Init, VaultTypeOK, NEW i \in Ids
    PROVE  Balanced(i)
  <1>1. PICK home \in [Ids -> Folders], n \in [Ids -> Attempts], extra \in [Ids -> Extras] :
          /\ files = [path \in Paths |->
                 IF \E k \in Ids : path = <<home[k], Stem[k], n[k]>>
                 THEN LET k == CHOOSE k \in Ids : path = <<home[k], Stem[k], n[k]>>
                      IN  [id |-> k, project |-> home[k], extra |-> extra[k]]
                 ELSE Nothing]
          /\ \A k, j \in Ids :
                <<home[k], Stem[k], n[k]>> = <<home[j], Stem[j], n[j]>> => k = j
          /\ folders = {home[k] : k \in Ids} \ {Inbox}
    BY Zenon DEF Init
  <1> DEFINE x == <<home[i], Stem[i], n[i]>>
             At(path) == CHOOSE j \in Ids : path = <<home[j], Stem[j], n[j]>>
  <1>2. x \in Paths
    BY DEF Paths, Stems
  <1>3. ASSUME NEW path \in Paths, files[path] # Nothing
        PROVE  /\ At(path) \in Ids /\ path = <<home[At(path)], Stem[At(path)], n[At(path)]>>
               /\ files[path] = [id |-> At(path), project |-> home[At(path)], extra |-> extra[At(path)]]
    <2>1. \E j \in Ids : path = <<home[j], Stem[j], n[j]>>
      BY <1>1, <1>3
    <2>2. files[path] = [id |-> At(path), project |-> home[At(path)], extra |-> extra[At(path)]]
      BY <1>1, <1>3, <2>1
    <2> QED
      BY <2>1, <2>2
  <1>4. files[x] # Nothing /\ files[x].id = i
    <2>1. At(x) \in Ids /\ x = <<home[At(x)], Stem[At(x)], n[At(x)]>>
      OBVIOUS
    <2>2. files[x] = [id |-> At(x), project |-> home[At(x)], extra |-> extra[At(x)]]
      BY <1>1, <1>2
    <2>3. At(x) = i
      BY <1>1, <2>1
    <2> HIDE DEF At
    <2>4. files[x] \in Contents
      BY <2>1, <2>2, VaultAssumption DEF Contents
    <2> QED
      BY <2>2, <2>3, <2>4, NothingAssumption
  <1>5. ASSUME NEW path \in Holders(i)
        PROVE  path = x
    <2>1. path \in Paths /\ files[path] # Nothing /\ files[path].id = i
      BY DEF Holders
    <2>2. /\ path = <<home[At(path)], Stem[At(path)], n[At(path)]>>
          /\ files[path] = [id |-> At(path), project |-> home[At(path)], extra |-> extra[At(path)]]
      BY <1>3, <2>1
    <2> HIDE DEF At
    <2>3. At(path) = i
      BY <2>1, <2>2
    <2> QED
      BY <2>2, <2>3
  <1>6. Holders(i) = {x}
    <2>1. x \in Holders(i)
      BY <1>2, <1>4 DEF Holders
    <2> HIDE DEF x
    <2> QED
      BY <1>5, <2>1
  <1>7. Movers(i) = {}
    BY DEF Init, Movers, Moves, Linking
  <1>8. Cardinality(Holders(i)) = 1 /\ Cardinality(Movers(i)) = 0
    BY <1>6, <1>7, FS_Singleton, FS_EmptySet
  <1> QED
    BY <1>8 DEF Balanced

\* The count of files is what the moves make it.
LEMMA VaultInvariant == Spec => []VaultInv
  <1>1. Init => VaultInv
    <2>1. Init => OpsFit
      BY DEF Init, OpsFit
    <2> QED
      BY <2>1, InitTypes, InitBalanced DEF VaultInv
  <1>2. ASSUME VaultInv, [Next]_vars
        PROVE  VaultInv'
    <2>1. VaultTypeOK /\ OpsFit /\ \A i \in Ids : Balanced(i)
      BY <1>2 DEF VaultInv
    <2>2. ASSUME NEW i \in removed
          PROVE  i \in removed'
      <3>1. i \in Ids
        BY <2>1 DEF VaultTypeOK
      <3> QED
        BY <1>2, <2>1, <3>1, StepKeeps DEF HistoryGrows
    <2>3. VaultTypeOK' /\ OpsFit'
      BY <1>2, <2>1, <2>2, TypeStep, FitsStep
    <2>4. ASSUME NEW i \in Ids
          PROVE  Balanced(i)'
      BY <1>2, <2>1, StepKeeps, KeepsBalance
    <2>5. \A i \in Ids : Balanced(i)'
      BY <2>4
    <2> QED
      BY <2>3, <2>5 DEF VaultInv
  <1> QED
    BY <1>1, <1>2, PTL DEF Spec

\* However edits, moves, project deletions and renames cross, fail or die, a note
\* nobody asked to delete keeps a file, unless an operation on another note came
\* back to a name that had become this note's.
THEOREM NoNoteLost == Spec => []NoNoteIsLost
  <1>1. ASSUME VaultInv
        PROVE  NoNoteIsLost
    <2> SUFFICES ASSUME NEW i \in Ids \ (removed \cup overrun) PROVE Holders(i) # {}
      BY DEF NoNoteIsLost
    <2>1. Cardinality(Holders(i)) >= 1 + Cardinality(Movers(i))
      BY <1>1 DEF VaultInv, Balanced
    <2>2. Cardinality(Movers(i)) \in Nat
      BY Counts
    <2>3. Holders(i) = {} => Cardinality(Holders(i)) = 0
      BY FS_EmptySet
    <2> QED
      BY <2>1, <2>2, <2>3
  <1>2. VaultInv => NoNoteIsLost
    BY <1>1
  <1> QED
    BY <1>2, VaultInvariant, PTL

\* No two files claim one id, but during a move, after one that was cut short or
\* could not be taken back, or after an operation on the note wrote or moved it
\* under a name it no longer had.
THEOREM OneFile == Spec => []OneFilePerNote
  <1>1. ASSUME VaultInv
        PROVE  OneFilePerNote
    <2> SUFFICES ASSUME NEW i \in Ids \ (cut \cup strayed), ~ \E a \in Actors : i \in InMove(proc[a])
                 PROVE  Cardinality(Holders(i)) <= 1
      BY DEF OneFilePerNote
    <2>1. Cardinality(Holders(i)) <= 1 + Cardinality(Movers(i))
      BY <1>1 DEF VaultInv, Balanced
    <2>2. Movers(i) = {}
      BY DEF Movers, Moves
    <2>3. Cardinality(Movers(i)) = 0 /\ Cardinality(Holders(i)) \in Nat
      BY <2>2, FS_EmptySet, Counts
    <2> QED
      BY <2>1, <2>3
  <1>2. VaultInv => OneFilePerNote
    BY <1>1
  <1> QED
    BY <1>2, VaultInvariant, PTL

-----------------------------------------------------------------------------
(* What a project learnt of a note.                                        *)

Clean(i) == i \notin cut \cup crossed \cup swept

\* Where the note is an example, of either kind.
Learnt(i) == {p \in Projects : <<"route", i>> \in examples[p] \/ <<"kind", i>> \in examples[p]}
LearntIn(i, p) == Learnt(i) \subseteq {p}
Within(i, p) == \A path \in Holders(i) : FolderOf(path) = p
\* A project that knows of the note has all its files.
Settled(i, p) == LearntIn(i, p) /\ (Learnt(i) = {} \/ Within(i, p))

\* What an operation may count on while it has the note in hand: where the note's
\* files can be, and the one project that can know of it.
Placed(op, i) ==
    /\ op.kind = "edit" => op.at # "saved" /\ Settled(i, FolderOf(op.path))
    /\ (op.kind \in {"category", "delete"} \/ (op.kind = "file" /\ op.at \in {"found", "checked"})) =>
          Holders(i) \subseteq {op.path} /\ LearntIn(i, FolderOf(op.path))
    /\ op.kind = "file" /\ op.at = "checked" => FolderOf(op.path) = op.target
    /\ op.kind = "file" /\ op.at \in {"linked", "moved"} =>
          /\ Holders(i) \subseteq {op.path, op.new} /\ LearntIn(i, FolderOf(op.path))
          /\ FolderOf(op.new) = op.target
    /\ op.kind = "file" /\ op.at = "moved" => Holders(i) \subseteq {op.new}
    /\ op.kind = "file" /\ op.at = "cleared" => Within(i, op.target) /\ LearntIn(i, op.target)
    /\ op.kind = "delete project" => LearntIn(i, op.project)
    /\ op.kind = "rename project" /\ op.at = "scanned" => Settled(i, op.project)
    /\ op.kind = "rename project" /\ op.at \in {"moved", "checked"} => Settled(i, op.to)

Has(a, i) == i \in InHand(proc[a])
DeletesIn(op, p) == op # Nothing /\ op.kind = "delete project" /\ op.project = p
RenamesFrom(op, p) == op # Nothing /\ op.kind = "rename project" /\ op.at = "scanned" /\ op.project = p
Deletion(a, p) == DeletesIn(proc[a], p)
ARename(a, p) == RenamesFrom(proc[a], p)
IsPlaced(a, i) == Placed(proc[a], i)

\* One actor has the note in hand, with no project's operation beside it.
OneHand(i) == \A a, b \in Actors : Has(a, i) /\ Has(b, i) => a = b
AloneInHand(i) == \A a, b \in Actors : Has(a, i) /\ OnProject(proc[b]) => a = b
HandsPlaced(i) == \A a \in Actors : Has(a, i) => IsPlaced(a, i)

\* A note nobody has in hand is where it was learnt, or a deletion will forget it.
LearntWhereFiled(i) ==
    \A p \in Learnt(i) :
        \/ \E a \in Actors : Has(a, i) \/ Deletion(a, p)
        \/ Within(i, p)

\* A deletion forgets what the folder knows of notes there still are.
DeletionForgets(i) ==
    \A a \in Actors, p \in Projects, which \in {"route", "kind"} :
        Deletion(a, p) /\ (Has(a, i) \/ Holders(i) # {}) /\ <<which, i>> \in examples[p]
            => which \in proc[a].infra

\* A folder's rename has in hand all its folder knows of and that there still is.
RenameHasAll(i) ==
    \A a \in Actors, p \in Projects :
        ARename(a, p) /\ Holders(i) # {} /\ p \in Learnt(i) => Has(a, i)

LearntOnce(i) == \A p, q \in Learnt(i) : p = q

Kept(i) ==
    /\ OneHand(i) /\ AloneInHand(i) /\ HandsPlaced(i) /\ LearntWhereFiled(i)
    /\ DeletionForgets(i) /\ RenameHasAll(i) /\ LearntOnce(i)

ExampleInv == VaultTypeOK /\ \A i \in Ids : Clean(i) => Kept(i)

\* What is said of an actor's operation depends on the operation only.
LEMMA Unfold ==
    ASSUME NEW a, NEW op, NEW i
    PROVE  /\ proc[a] = op => (Has(a, i) <=> i \in InHand(op)) /\ (IsPlaced(a, i) <=> Placed(op, i))
           /\ proc'[a] = op => (Has(a, i)' <=> i \in InHand(op)) /\ (IsPlaced(a, i)' <=> Placed(op, i)')
           /\ \A p : /\ proc[a] = op => (Deletion(a, p) <=> DeletesIn(op, p)) /\ (ARename(a, p) <=> RenamesFrom(op, p))
                     /\ proc'[a] = op => (Deletion(a, p)' <=> DeletesIn(op, p)) /\ (ARename(a, p)' <=> RenamesFrom(op, p))
  <1>1. proc[a] = op => (Has(a, i) <=> i \in InHand(op)) /\ (IsPlaced(a, i) <=> Placed(op, i))
    BY DEF Has, IsPlaced, Placed
  <1>2. proc'[a] = op => (Has(a, i)' <=> i \in InHand(op))
    BY DEF Has, InHand, OnProject
  <1>3. proc'[a] = op => (IsPlaced(a, i)' <=> Placed(op, i)')
    BY DEF IsPlaced, Placed, FolderOf, Settled, Within, LearntIn, Learnt, Holders
  <1>4. \A p : /\ proc[a] = op => (Deletion(a, p) <=> DeletesIn(op, p)) /\ (ARename(a, p) <=> RenamesFrom(op, p))
               /\ proc'[a] = op => (Deletion(a, p)' <=> DeletesIn(op, p)) /\ (ARename(a, p)' <=> RenamesFrom(op, p))
    BY DEF Deletion, DeletesIn, ARename, RenamesFrom
  <1> QED
    BY <1>1, <1>2, <1>3, <1>4

\* A step of one actor leaves what the others have in hand.
LEMMA OthersSame ==
    ASSUME VaultTypeOK, NEW a \in Actors, NEW op, proc' = [proc EXCEPT ![a] = op], NEW i
    PROVE  /\ proc'[a] = op
           /\ \A b \in Actors \ {a} :
                 /\ proc'[b] = proc[b] /\ (Has(b, i)' <=> Has(b, i))
                 /\ OnProject(proc'[b]) <=> OnProject(proc[b])
                 /\ \A p : (Deletion(b, p)' <=> Deletion(b, p)) /\ (ARename(b, p)' <=> ARename(b, p))
  <1>1. proc'[a] = op /\ \A b \in Actors \ {a} : proc'[b] = proc[b]
    BY DEF VaultTypeOK
  <1>2. ASSUME NEW b \in Actors \ {a}
        PROVE  /\ Has(b, i)' <=> Has(b, i)
               /\ OnProject(proc'[b]) <=> OnProject(proc[b])
               /\ \A p : (Deletion(b, p)' <=> Deletion(b, p)) /\ (ARename(b, p)' <=> ARename(b, p))
    <2>1. PICK other : other = proc[b] /\ other = proc'[b]
      BY <1>1
    <2> QED
      BY <2>1, Unfold
  <1> QED
    BY <1>1, <1>2

\* Less is known and less is there.
Fewer(i) ==
    /\ Holders(i)' \subseteq Holders(i)
    /\ \A p \in Projects, which \in {"route", "kind"} :
          <<which, i>> \in examples'[p] => <<which, i>> \in examples[p]

LEMMA FewerLearnt ==
    ASSUME NEW i, Fewer(i)
    PROVE  /\ Learnt(i)' \subseteq Learnt(i)
           /\ \A p : LearntIn(i, p) => LearntIn(i, p)'
           /\ \A p : Within(i, p) => Within(i, p)'
           /\ \A p : Settled(i, p) => Settled(i, p)'
           /\ \A op : Placed(op, i) => Placed(op, i)'
           /\ LearntOnce(i) => LearntOnce(i)'
  <1>1. Learnt(i)' \subseteq Learnt(i) /\ Holders(i)' \subseteq Holders(i)
    BY DEF Learnt, Fewer
  <1>2. \A p : LearntIn(i, p) => LearntIn(i, p)'
    BY <1>1 DEF LearntIn
  <1>3. \A p : Within(i, p) => Within(i, p)'
    BY <1>1 DEF Within
  <1>6. \A p : Settled(i, p) => Settled(i, p)'
    <2>1. Learnt(i) = {} => Learnt(i)' = {}
      BY <1>1
    <2> QED
      BY <1>2, <1>3, <2>1 DEF Settled
  <1>4. ASSUME NEW op, Placed(op, i)
        PROVE  Placed(op, i)'
    <2>1. \A S : Holders(i) \subseteq S => Holders(i)' \subseteq S
      BY <1>1
    <2> QED
      BY <1>2, <1>3, <1>4, <1>6, <2>1 DEF Placed, FolderOf
  <1>5. LearntOnce(i) => LearntOnce(i)'
    BY <1>1 DEF LearntOnce
  <1> QED
    BY <1>1, <1>2, <1>3, <1>4, <1>5, <1>6

\* An actor goes on with op, which is no new operation.
GoesOn(a, op) ==
    /\ proc' = [proc EXCEPT ![a] = op]
    /\ InHand(op) \subseteq InHand(proc[a])
    /\ OnProject(op) => OnProject(proc[a])
    /\ \A p : ~RenamesFrom(op, p)
    /\ \A p : DeletesIn(op, p) => Deletion(a, p) /\ op.infra = proc[a].infra

LEMMA HandsGoOn ==
    ASSUME VaultTypeOK, NEW a \in Actors, NEW op, GoesOn(a, op), NEW i, OneHand(i), AloneInHand(i)
    PROVE  /\ OneHand(i)' /\ AloneInHand(i)'
           /\ Has(a, i)' <=> i \in InHand(op)
           /\ i \in InHand(op) => Has(a, i)
  <1>1. proc' = [proc EXCEPT ![a] = op] /\ InHand(op) \subseteq InHand(proc[a])
        /\ (OnProject(op) => OnProject(proc[a]))
    BY DEF GoesOn
  <1>2. /\ proc'[a] = op
        /\ \A b \in Actors \ {a} : (Has(b, i)' <=> Has(b, i)) /\ (OnProject(proc'[b]) <=> OnProject(proc[b]))
    BY <1>1, OthersSame
  <1>3. Has(a, i)' <=> i \in InHand(op)
    BY <1>2, Unfold
  <1>4. i \in InHand(op) => Has(a, i)
    BY <1>1 DEF Has
  <1>5. OnProject(proc'[a]) => OnProject(proc[a])
    BY <1>1, <1>2
  <1>6. \A b \in Actors : (Has(b, i)' => Has(b, i)) /\ (OnProject(proc'[b]) => OnProject(proc[b]))
    BY <1>2, <1>3, <1>4, <1>5
  <1>7. OneHand(i)'
    BY <1>6 DEF OneHand
  <1>8. AloneInHand(i)'
    BY <1>6 DEF AloneInHand
  <1> QED
    BY <1>3, <1>4, <1>7, <1>8

\* A note the actor does not have in hand: nothing is added to it.
LEMMA OtherKept ==
    ASSUME VaultTypeOK, NEW a \in Actors, NEW op, GoesOn(a, op), NEW i, Kept(i), ~Has(a, i), Fewer(i),
           \A p \in Projects :
              Deletion(a, p) => DeletesIn(op, p) \/ p \notin Learnt(i)' \/ Holders(i)' = {}
    PROVE  Kept(i)'
  <1>1. OneHand(i)' /\ AloneInHand(i)' /\ ~Has(a, i)'
    BY HandsGoOn DEF Kept
  <1>2. /\ proc'[a] = op
        /\ \A b \in Actors \ {a} :
              /\ proc'[b] = proc[b] /\ (Has(b, i)' <=> Has(b, i))
              /\ \A p : (Deletion(b, p)' <=> Deletion(b, p)) /\ (ARename(b, p)' <=> ARename(b, p))
    BY OthersSame DEF GoesOn
  <1>3. \A p : (Deletion(a, p)' <=> DeletesIn(op, p)) /\ (ARename(a, p)' <=> RenamesFrom(op, p))
    BY <1>2, Unfold
  <1>4. Learnt(i)' \subseteq Learnt(i) /\ Holders(i)' \subseteq Holders(i) /\ LearntOnce(i)'
    BY FewerLearnt DEF Fewer, Kept
  <1>5. HandsPlaced(i)'
    <2>1. ASSUME NEW b \in Actors, Has(b, i)'
          PROVE  IsPlaced(b, i)'
      <3>1. b # a /\ Has(b, i) /\ proc'[b] = proc[b]
        BY <1>1, <1>2, <2>1
      <3>2. IsPlaced(b, i)
        BY <3>1 DEF Kept, HandsPlaced
      <3>3. PICK other : other = proc[b] /\ other = proc'[b]
        BY <3>1
      <3> QED
        BY <3>2, <3>3, Unfold, FewerLearnt
    <2> QED
      BY <2>1 DEF HandsPlaced
  <1>6. LearntWhereFiled(i)'
    <2>1. ASSUME NEW p, p \in Learnt(i)'
          PROVE  (\E b \in Actors : Has(b, i)' \/ Deletion(b, p)') \/ Within(i, p)'
      <3>1. p \in Learnt(i) /\ p \in Projects
        BY <1>4, <2>1 DEF Learnt
      <3>2. (\E b \in Actors : Has(b, i) \/ Deletion(b, p)) \/ Within(i, p)
        BY <3>1 DEF Kept, LearntWhereFiled
      <3>3. CASE Within(i, p)
        BY <3>3, FewerLearnt
      <3>4. CASE \E b \in Actors \ {a} : Has(b, i) \/ Deletion(b, p)
        BY <1>2, <3>4
      <3>5. CASE Deletion(a, p)
        <4>1. DeletesIn(op, p) \/ Holders(i)' = {}
          BY <2>1, <3>1, <3>5
        <4>2. Holders(i)' = {} => Within(i, p)'
          BY DEF Within
        <4> QED
          BY <1>3, <4>1, <4>2
      <3> QED
        BY <3>2, <3>3, <3>4, <3>5
    <2> QED
      BY <2>1 DEF LearntWhereFiled
  <1>7. DeletionForgets(i)'
    <2>1. ASSUME NEW b \in Actors, NEW p \in Projects, NEW which \in {"route", "kind"},
                 Deletion(b, p)', Has(b, i)' \/ Holders(i)' # {}, <<which, i>> \in examples'[p]
          PROVE  which \in proc'[b].infra
      <3>1. <<which, i>> \in examples[p] /\ (Has(b, i) \/ Holders(i) # {})
        BY <1>1, <1>2, <1>4, <2>1 DEF Fewer
      <3>2. Deletion(b, p) /\ proc'[b].infra = proc[b].infra
        BY <1>2, <1>3, <2>1 DEF GoesOn
      <3> QED
        BY <3>1, <3>2 DEF Kept, DeletionForgets
    <2> QED
      BY <2>1 DEF DeletionForgets
  <1>8. RenameHasAll(i)'
    <2>1. ASSUME NEW b \in Actors, NEW p \in Projects, ARename(b, p)', Holders(i)' # {}, p \in Learnt(i)'
          PROVE  Has(b, i)'
      <3>1. b # a /\ ARename(b, p)
        BY <1>2, <1>3, <2>1 DEF GoesOn
      <3>2. Has(b, i)
        BY <1>4, <2>1, <3>1 DEF Kept, RenameHasAll
      <3> QED
        BY <1>2, <3>1, <3>2
    <2> QED
      BY <2>1 DEF RenameHasAll
  <1> QED
    BY <1>1, <1>4, <1>5, <1>6, <1>7, <1>8 DEF Kept

\* The note the actor has in hand, alone.
LEMMA OwnKept ==
    ASSUME VaultTypeOK, NEW a \in Actors, NEW op, GoesOn(a, op), NEW i, Kept(i), Has(a, i),
           i \in InHand(op) => Placed(op, i)',
           \E p : LearntIn(i, p)',
           \A p \in Projects, which \in {"route", "kind"} :
              DeletesIn(op, p) /\ <<which, i>> \in examples'[p] => <<which, i>> \in examples[p],
           i \notin InHand(op) => \A p \in Learnt(i)' : Within(i, p)' \/ DeletesIn(op, p)
    PROVE  Kept(i)'
  <1>1. OneHand(i)' /\ AloneInHand(i)' /\ (Has(a, i)' <=> i \in InHand(op))
    BY HandsGoOn DEF Kept
  <1>2. /\ proc'[a] = op
        /\ \A b \in Actors \ {a} :
              /\ Has(b, i)' <=> Has(b, i)
              /\ \A p : (Deletion(b, p)' <=> Deletion(b, p)) /\ (ARename(b, p)' <=> ARename(b, p))
    BY OthersSame DEF GoesOn
  <1>3. \A p : (Deletion(a, p)' <=> DeletesIn(op, p)) /\ (ARename(a, p)' <=> RenamesFrom(op, p))
    BY <1>2, Unfold
  <1>4. \A b \in Actors \ {a} : ~Has(b, i) /\ \A p : ~Deletion(b, p) /\ ~ARename(b, p)
    <2>1. \A b \in Actors \ {a} : ~Has(b, i) /\ ~OnProject(proc[b])
      BY DEF Kept, OneHand, AloneInHand
    <2> QED
      BY <2>1 DEF Deletion, DeletesIn, ARename, RenamesFrom, OnProject
  <1>5. HandsPlaced(i)'
    <2>1. Has(a, i)' => IsPlaced(a, i)'
      BY <1>1, <1>2, Unfold
    <2> QED
      BY <1>2, <1>4, <2>1 DEF HandsPlaced
  <1>6. LearntWhereFiled(i)'
    BY <1>1, <1>3 DEF LearntWhereFiled
  <1>7. DeletionForgets(i)'
    <2>1. ASSUME NEW p \in Projects, NEW which \in {"route", "kind"},
                 Deletion(a, p)', <<which, i>> \in examples'[p]
          PROVE  which \in proc'[a].infra
      <3>1. Deletion(a, p) /\ proc'[a].infra = proc[a].infra
        BY <1>2, <1>3, <2>1 DEF GoesOn
      <3>2. <<which, i>> \in examples[p]
        BY <1>3, <2>1
      <3> QED
        BY <3>1, <3>2 DEF Kept, DeletionForgets
    <2> QED
      BY <1>2, <1>4, <2>1 DEF DeletionForgets
  <1>8. RenameHasAll(i)'
    <2>1. \A p : ~ARename(a, p)'
      BY <1>3 DEF GoesOn
    <2> QED
      BY <1>2, <1>4, <2>1 DEF RenameHasAll
  <1>9. LearntOnce(i)'
    BY DEF LearntIn, LearntOnce
  <1> QED
    BY <1>1, <1>5, <1>6, <1>7, <1>8, <1>9 DEF Kept

\* One write touches the files of the notes at its path.
LEMMA WriteOne ==
    ASSUME VaultTypeOK, NEW path \in Paths, NEW note, files' = [files EXCEPT ![path] = note], NEW i
    PROVE  /\ Holders(i)' \subseteq Holders(i) \cup {path}
           /\ note = Nothing \/ note.id # i => Holders(i)' \subseteq Holders(i) \ {path}
  <1>1. files \in [Paths -> Contents \cup {Nothing}]
    BY DEF VaultTypeOK
  <1>2. \A q \in Paths \ {path} : files'[q] = files[q]
    BY <1>1
  <1>3. files'[path] = note
    BY <1>1
  <1> QED
    BY <1>2, <1>3 DEF Holders

LEMMA ReplaceOne ==
    ASSUME VaultTypeOK, NEW path \in Paths, NEW note, Replace(path, note), NEW i
    PROVE  /\ Holders(i)' \subseteq Holders(i) \cup {path}
           /\ note.id # i => Holders(i)' \subseteq Holders(i)
  BY WriteOne DEF Replace

LEMMA SameLearnt ==
    ASSUME UNCHANGED examples, NEW i
    PROVE  /\ Learnt(i)' = Learnt(i)
           /\ \A p : LearntIn(i, p)' <=> LearntIn(i, p)
           /\ Holders(i)' \subseteq Holders(i) => Fewer(i)
  BY DEF Learnt, LearntIn, Fewer

\* An operation on one note goes on, or ends.
LEMMA NoteGoesOn ==
    ASSUME VaultTypeOK, NEW a \in Actors, NEW op \in NoteOps \cup FileOps, proc[a] = op,
           NEW next \in NoteOps \cup FileOps \cup {Nothing},
           next # Nothing => next.note.id = op.note.id,
           Proceed(a, next), NEW i, Kept(i),
           i # op.note.id => Fewer(i),
           i = op.note.id =>
              /\ next # Nothing => Placed(next, i)'
              /\ \E p : LearntIn(i, p)' /\ (next = Nothing => Learnt(i)' = {} \/ Within(i, p)')
    PROVE  Kept(i)'
  <1>1. /\ op # Nothing /\ ~OnProject(op) /\ ~OnProject(next)
        /\ \A p : ~DeletesIn(op, p) /\ ~DeletesIn(next, p) /\ ~RenamesFrom(next, p)
    <2>1. op \in Operations /\ next \in Operations \cup {Nothing}
      BY DEF Operations
    <2>2. op # Nothing /\ op.kind \notin {"delete project", "rename project"}
      BY <2>1, OpShape DEF NoteOps, FileOps
    <2>3. next # Nothing => next.kind \notin {"delete project", "rename project"}
      BY DEF NoteOps, FileOps
    <2> QED
      BY <2>2, <2>3 DEF OnProject, DeletesIn, RenamesFrom
  <1>2. InHand(op) = {op.note.id} /\ (next = Nothing => InHand(next) = {})
        /\ (next # Nothing => InHand(next) = {op.note.id})
    BY <1>1 DEF InHand
  <1>3. GoesOn(a, next)
    BY <1>1, <1>2 DEF GoesOn, Proceed
  <1>4. (Has(a, i) <=> i = op.note.id) /\ \A p : ~Deletion(a, p)
    BY <1>1, <1>2, Unfold
  <1>5. CASE i # op.note.id
    BY <1>3, <1>4, <1>5, OtherKept
  <1>6. CASE i = op.note.id
    <2>1. PICK p : LearntIn(i, p)' /\ (next = Nothing => Learnt(i)' = {} \/ Within(i, p)')
      BY <1>6
    <2>2. i \in InHand(next) => Placed(next, i)'
      BY <1>2, <1>6
    <2>3. i \notin InHand(next) => \A q \in Learnt(i)' : Within(i, q)' \/ DeletesIn(next, q)
      BY <1>2, <1>6, <2>1 DEF LearntIn
    <2> QED
      BY <1>1, <1>3, <1>4, <1>6, <2>1, <2>2, <2>3, OwnKept
  <1> QED
    BY <1>5, <1>6

LEMMA NoteStepKept ==
    ASSUME VaultTypeOK, NEW a \in Actors,
           SaveChecks(a) \/ SaveEdit(a) \/ SaveExample(a) \/ DeleteNote(a),
           NEW i, Kept(i)
    PROVE  Kept(i)'
  <1>1. PICK op : op = proc[a]
    OBVIOUS
  <1>2. /\ op \in NoteOps /\ op.path \in Paths /\ op.note \in Contents
        /\ op.kind \in {"edit", "category", "delete"}
    <2>1. op \in NoteOps
      BY <1>1, HandShape DEF SaveChecks, SaveEdit, SaveExample, DeleteNote, Editing
    <2> QED
      BY <2>1 DEF NoteOps
  <1>3. i = op.note.id => Placed(op, i)
    <2>1. op # Nothing /\ ~OnProject(op)
      BY <1>2, OpShape DEF Operations, NoteOps, OnProject
    <2>2. i = op.note.id => Has(a, i)
      BY <1>1, <2>1, Unfold DEF InHand
    <2> QED
      BY <1>1, <2>2, Unfold DEF Kept, HandsPlaced
  <1>4. i = op.note.id => /\ op.kind = "edit" => op.at # "saved" /\ Settled(i, FolderOf(op.path))
                          /\ op.kind # "edit" => Holders(i) \subseteq {op.path}
                          /\ LearntIn(i, FolderOf(op.path))
    BY <1>2, <1>3 DEF Placed, Settled
  <1>5. Holders(i)' \subseteq {op.path} => Within(i, FolderOf(op.path))'
    BY DEF Within, FolderOf
  \* An operation that keeps its kind and its name counts on the same.
  <1>6. ASSUME NEW next \in NoteOps, next.kind = op.kind, next.path = op.path,
               next.kind = "edit" => next.at # "saved",
               LearntIn(i, FolderOf(op.path))',
               op.kind = "edit" => Settled(i, FolderOf(op.path))',
               op.kind # "edit" => Holders(i)' \subseteq {op.path}
        PROVE  Placed(next, i)'
    BY <1>2, <1>6 DEF Placed, FolderOf
  <1>7. CASE SaveChecks(a)
    <2>1. UNCHANGED <<files, examples>>
      BY <1>7 DEF SaveChecks
    <2>2. Holders(i)' = Holders(i)
      BY <2>1 DEF Holders
    <2>3. Fewer(i)
      BY <2>1, <2>2, SameLearnt
    <2>4. PICK next : next \in {Nothing, [op EXCEPT !.at = "checked"]} /\ Proceed(a, next)
      BY <1>1, <1>7 DEF SaveChecks, Done
    <2>5. /\ next \in NoteOps \cup {Nothing}
          /\ next # Nothing => /\ next.note = op.note /\ next.path = op.path /\ next.kind = op.kind
                               /\ next.at = "checked" /\ next \in NoteOps
      BY <1>2, <2>4 DEF NoteOps
    <2>6. i = op.note.id => /\ LearntIn(i, FolderOf(op.path))'
                            /\ op.kind = "edit" => Settled(i, FolderOf(op.path))'
                            /\ op.kind # "edit" => Holders(i)' \subseteq {op.path}
      <3>1. \A p : (LearntIn(i, p) => LearntIn(i, p)') /\ (Settled(i, p) => Settled(i, p)')
        BY <2>3, FewerLearnt
      <3> QED
        BY <1>4, <2>2, <3>1 DEF FolderOf
    <2>7. i = op.note.id /\ next # Nothing => Placed(next, i)'
      BY <1>6, <2>5, <2>6
    <2>8. i = op.note.id => \E p : LearntIn(i, p)' /\ (Learnt(i)' = {} \/ Within(i, p)')
      BY <1>5, <2>6 DEF Settled, FolderOf
    <2>9. next # Nothing => next.note.id = op.note.id
      BY <2>5
    <2> QED
      BY <1>1, <1>2, <2>3, <2>4, <2>5, <2>7, <2>8, <2>9, NoteGoesOn
  <1>8. CASE SaveEdit(a)
    <2>1. UNCHANGED examples /\ op.at = "checked"
      BY <1>1, <1>8 DEF SaveEdit, Editing
    <2>2. /\ Holders(i)' \subseteq Holders(i) \cup {op.path}
          /\ i # op.note.id => Holders(i)' \subseteq Holders(i)
      <3>1. CASE ~CanStage(op.path)
        BY <1>1, <1>8, <3>1 DEF SaveEdit, Holders
      <3>2. CASE CanStage(op.path)
        <4>1. PICK extra \in {op.note.extra} \cup (Extras \ {FALSE}) :
                  Replace(op.path, [op.note EXCEPT !.extra = extra])
          BY <1>1, <1>8, <3>2 DEF SaveEdit
        <4>2. PICK note : Replace(op.path, note) /\ note.id = op.note.id
          <5>1. [op.note EXCEPT !.extra = extra].id = op.note.id
            BY <1>2 DEF Contents
          <5> QED
            BY <4>1, <5>1
        <4>3. op.path \in Paths
          BY <1>2
        <4> QED
          BY <4>2, <4>3, ReplaceOne
      <3> QED
        BY <3>1, <3>2
    <2>3. PICK next : /\ next = Nothing \/ (op.kind = "category" /\ next = [op EXCEPT !.at = "saved"])
                      /\ Proceed(a, next)
      BY <1>1, <1>8 DEF SaveEdit, Done
    <2>4. /\ next \in NoteOps \cup {Nothing}
          /\ next # Nothing => /\ next.note = op.note /\ next.path = op.path /\ next.kind = op.kind
                               /\ next.kind = "category" /\ next \in NoteOps
      BY <1>2, <2>3 DEF NoteOps
    <2>5. Learnt(i)' = Learnt(i) /\ \A p : LearntIn(i, p)' <=> LearntIn(i, p)
      BY <2>1, SameLearnt
    <2>6. i = op.note.id => /\ LearntIn(i, FolderOf(op.path))'
                            /\ op.kind = "edit" => Settled(i, FolderOf(op.path))'
                            /\ op.kind # "edit" => Holders(i)' \subseteq {op.path}
      <3>1. \A p : p = FolderOf(op.path) /\ Within(i, p) => Within(i, p)'
        BY <2>2 DEF Within, FolderOf
      <3>2. i = op.note.id => LearntIn(i, FolderOf(op.path))'
        BY <1>4, <2>5 DEF FolderOf
      <3>3. i = op.note.id /\ op.kind = "edit" => Learnt(i)' = {} \/ Within(i, FolderOf(op.path))'
        BY <1>4, <2>5, <3>1 DEF Settled, FolderOf
      <3> QED
        BY <1>4, <2>2, <3>2, <3>3 DEF Settled, FolderOf
    <2>7. i = op.note.id /\ next # Nothing => Placed(next, i)'
      BY <1>6, <2>4, <2>6
    <2>8. i = op.note.id => \E p : LearntIn(i, p)' /\ (Learnt(i)' = {} \/ Within(i, p)')
      BY <1>5, <2>6 DEF Settled, FolderOf
    <2>9. next # Nothing => next.note.id = op.note.id
      BY <2>4
    <2>10. i # op.note.id => Fewer(i)
      BY <2>1, <2>2, SameLearnt
    <2> QED
      BY <1>1, <1>2, <2>3, <2>4, <2>7, <2>8, <2>9, <2>10, NoteGoesOn
  <1>9. CASE SaveExample(a)
    <2>1. UNCHANGED files /\ Proceed(a, Nothing) /\ op.at = "saved"
      BY <1>1, <1>9 DEF SaveExample, Done, Editing
    <2>2. Holders(i)' = Holders(i)
      BY <2>1 DEF Holders
    <2>3. \A p \in Projects, which \in {"route", "kind"} :
             <<which, i>> \in examples'[p] =>
                <<which, i>> \in examples[p] \/ (p = FolderOf(op.path) /\ i = op.note.id)
      BY <1>1, <1>9 DEF SaveExample, VaultTypeOK, Folders
    <2>4. i # op.note.id => Fewer(i)
      BY <2>2, <2>3 DEF Fewer
    <2>5. i = op.note.id => LearntIn(i, FolderOf(op.path))'
      BY <1>4, <2>3 DEF LearntIn, Learnt, FolderOf
    <2>6. i = op.note.id => Within(i, FolderOf(op.path))'
      BY <1>4, <1>5, <2>1, <2>2
    <2> QED
      BY <1>1, <1>2, <2>1, <2>4, <2>5, <2>6, NoteGoesOn
  <1>10. CASE DeleteNote(a)
    <2>1. /\ files' = [files EXCEPT ![op.path] = Nothing] /\ UNCHANGED examples /\ Proceed(a, Nothing)
          /\ op.kind = "delete"
      BY <1>1, <1>10 DEF DeleteNote, Done
    <2>2. Holders(i)' \subseteq Holders(i)
      BY <1>2, <2>1, WriteOne
    <2>3. i = op.note.id => LearntIn(i, FolderOf(op.path))' /\ Within(i, FolderOf(op.path))'
      BY <1>4, <1>5, <2>1, <2>2, SameLearnt DEF FolderOf
    <2>4. Fewer(i)
      BY <2>1, <2>2, SameLearnt
    <2> QED
      BY <1>1, <1>2, <2>1, <2>3, <2>4, NoteGoesOn
  <1> QED
    BY <1>7, <1>8, <1>9, <1>10

LEMMA FilingKept ==
    ASSUME VaultTypeOK, NEW a \in Actors,
           FileLinks(a) \/ FileRewrites(a) \/ FileUnlinks(a)
              \/ FileClearsExamples(a) \/ FileSavesExample(a),
           NEW i \in Ids, Kept(i), Clean(i)'
    PROVE  Kept(i)'
  <1>1. PICK op : op = proc[a]
    OBVIOUS
  <1>2. /\ op \in FileOps /\ op.path \in Paths /\ op.new \in Paths /\ op.note \in Contents
        /\ op.target \in Projects /\ op.kind = "file"
    <2>1. op \in FileOps
      BY <1>1, HandShape
         DEF FileLinks, FileRewrites, FileUnlinks, FileClearsExamples, FileSavesExample, Filing
    <2> QED
      BY <2>1 DEF FileOps
  <1>3. i = op.note.id => Placed(op, i)
    <2>1. op # Nothing /\ ~OnProject(op)
      BY <1>2, OpShape DEF Operations, FileOps, OnProject
    <2>2. i = op.note.id => Has(a, i)
      BY <1>1, <2>1, Unfold DEF InHand
    <2> QED
      BY <1>1, <2>2, Unfold DEF Kept, HandsPlaced
  <1>4. \A at \in {"checked", "moved", "cleared"} :
           /\ [op EXCEPT !.at = at] \in FileOps /\ [op EXCEPT !.at = at].note = op.note
           /\ [op EXCEPT !.at = at].at = at /\ [op EXCEPT !.at = at].kind = "file"
           /\ [op EXCEPT !.at = at].target = op.target /\ [op EXCEPT !.at = at].new = op.new
           /\ [op EXCEPT !.at = at].path = op.path
    BY <1>2 DEF FileOps
  <1>5. CASE FileLinks(a)
    <2>1. op.at = "found" /\ UNCHANGED examples
      BY <1>1, <1>5 DEF FileLinks, Filing
    <2>2. i = op.note.id => Holders(i) \subseteq {op.path} /\ LearntIn(i, FolderOf(op.path))
      BY <1>2, <1>3, <2>1 DEF Placed
    <2>3. CASE FolderOf(op.path) = op.target
      <3>1. UNCHANGED files
        BY <1>1, <1>5, <2>3 DEF FileLinks
      <3>2. Holders(i)' = Holders(i)
        BY <3>1 DEF Holders
      <3>3. PICK next : next \in {Nothing, [op EXCEPT !.at = "checked"]} /\ Proceed(a, next)
        BY <1>1, <1>5, <2>3 DEF FileLinks, Done
      <3>4. Fewer(i)
        BY <2>1, <3>2, SameLearnt
      <3>5. i = op.note.id => Holders(i)' \subseteq {op.path} /\ LearntIn(i, FolderOf(op.path))'
        BY <2>1, <2>2, <3>2, SameLearnt DEF FolderOf
      <3>6. i = op.note.id => Within(i, FolderOf(op.path))'
        BY <3>5 DEF Within, FolderOf
      <3>7. /\ next \in FileOps \cup {Nothing}
            /\ next # Nothing => /\ next.note = op.note /\ next.at = "checked" /\ next.kind = "file"
                                 /\ next.target = op.target /\ next.path = op.path
        BY <1>4, <3>3
      <3>8. i = op.note.id /\ next # Nothing => Placed(next, i)'
        BY <2>3, <3>5, <3>7 DEF Placed, FolderOf
      <3>9. next # Nothing => next.note.id = op.note.id
        BY <3>7
      <3> QED
        BY <1>1, <1>2, <3>3, <3>4, <3>5, <3>6, <3>7, <3>8, <3>9, NoteGoesOn
    <2>4. CASE FolderOf(op.path) # op.target
      <3>1. PICK path, note : /\ path = FreePath(op.target, op.path[2])
                              /\ note = [op.note EXCEPT !.project = op.target]
        OBVIOUS
      <3>2. /\ FreeNames(op.target, op.path[2]) # {}
            /\ files' = [files EXCEPT ![path] = note]
            /\ Proceed(a, [op EXCEPT !.at = "linked", !.new = path])
        BY <1>1, <1>5, <2>4, <3>1 DEF FileLinks, Link
      <3>3. path \in Paths /\ FolderOf(path) = op.target
        <4>1. op.target \in Folders /\ op.path[2] \in Stems
          BY <1>2, PathParts DEF Folders
        <4> QED
          BY <3>1, <3>2, <4>1, FreePathIsFree
      <3>4. note.id = op.note.id
        BY <1>2, <3>1 DEF Contents
      <3>5. PICK next : next = [op EXCEPT !.at = "linked", !.new = path]
        OBVIOUS
      <3>6. /\ next \in FileOps /\ next.note = op.note /\ next.at = "linked" /\ next.kind = "file"
            /\ next.target = op.target /\ next.new = path /\ next.path = op.path
            /\ Proceed(a, next)
        BY <1>2, <3>2, <3>3, <3>5 DEF FileOps
      <3>7. /\ Holders(i)' \subseteq Holders(i) \cup {path}
            /\ i # op.note.id => Holders(i)' \subseteq Holders(i)
        BY <3>2, <3>3, <3>4, WriteOne
      <3>8. i = op.note.id => Holders(i)' \subseteq {op.path, path} /\ LearntIn(i, FolderOf(op.path))'
        BY <2>1, <2>2, <3>7, SameLearnt
      <3>9. i = op.note.id => Placed(next, i)'
        BY <3>3, <3>6, <3>8 DEF Placed, FolderOf
      <3>10. next # Nothing
        BY <3>6, NothingAssumption DEF Operations
      <3>11. i # op.note.id => Fewer(i)
        BY <2>1, <3>7, SameLearnt
      <3>12. next # Nothing => next.note.id = op.note.id
        BY <3>6
      <3> QED
        BY <1>1, <1>2, <3>6, <3>8, <3>9, <3>10, <3>11, <3>12, NoteGoesOn
    <2> QED
      BY <2>3, <2>4
  <1>6. CASE FileUnlinks(a)
    <2>1. op.at = "linked" /\ UNCHANGED examples
      BY <1>1, <1>6 DEF FileUnlinks, Filing
    <2>2. i = op.note.id => /\ Holders(i) \subseteq {op.path, op.new} /\ LearntIn(i, FolderOf(op.path))
                            /\ FolderOf(op.new) = op.target
      BY <1>2, <1>3, <2>1 DEF Placed
    <2>3. CASE Unlink(op, op.note.id) /\ Proceed(a, [op EXCEPT !.at = "moved"])
      <3>1. Holders(i)' \subseteq Holders(i) \ {op.path}
        BY <1>2, <2>3, WriteOne DEF Unlink, Unlinked
      <3>2. PICK next : next = [op EXCEPT !.at = "moved"]
        OBVIOUS
      <3>3. /\ next \in FileOps /\ next.note = op.note /\ next.at = "moved" /\ next.kind = "file"
            /\ next.target = op.target /\ next.new = op.new /\ next.path = op.path
            /\ Proceed(a, next)
        BY <1>4, <2>3, <3>2
      <3>4. i = op.note.id => /\ Holders(i)' \subseteq {op.new} /\ LearntIn(i, FolderOf(op.path))'
                              /\ Placed(next, i)'
        BY <2>1, <2>2, <3>1, <3>3, SameLearnt DEF Placed, FolderOf
      <3>5. next # Nothing
        BY <3>3, NothingAssumption DEF Operations
      <3> QED
        BY <1>1, <1>2, <2>1, <3>1, <3>3, <3>4, <3>5, SameLearnt, NoteGoesOn
    <2>4. CASE TakeBack(op, op.note.id) /\ Done(a)
      <3>1. i = op.note.id => files' = RolledBack(op)
        BY <2>4 DEF TakeBack, Clean
      <3>2. i = op.note.id => Holders(i)' \subseteq Holders(i) \ {op.new}
        BY <1>2, <3>1, WriteOne DEF RolledBack
      <3>3. Holders(i)' \subseteq Holders(i)
        <4>1. files' = RolledBack(op) => Holders(i)' \subseteq Holders(i)
          BY <1>2, WriteOne DEF RolledBack
        <4>2. files' = files => Holders(i)' = Holders(i)
          BY DEF Holders
        <4> QED
          BY <2>4, <4>1, <4>2 DEF TakeBack
      <3>4. i = op.note.id => Within(i, FolderOf(op.path))' /\ LearntIn(i, FolderOf(op.path))'
        BY <2>1, <2>2, <3>2, SameLearnt DEF Within, FolderOf
      <3>5. Fewer(i) /\ Proceed(a, Nothing)
        BY <2>1, <2>4, <3>3, SameLearnt DEF Done
      <3> QED
        BY <1>1, <1>2, <3>4, <3>5, NoteGoesOn
    <2> QED
      BY <1>1, <1>6, <2>3, <2>4 DEF FileUnlinks
  <1>7. CASE FileClearsExamples(a)
    <2>1. op.at = "moved" /\ UNCHANGED files
      BY <1>1, <1>7 DEF FileClearsExamples, Filing
    <2>2. i = op.note.id => /\ Holders(i) \subseteq {op.new} /\ LearntIn(i, FolderOf(op.path))
                            /\ FolderOf(op.new) = op.target
      BY <1>2, <1>3, <2>1 DEF Placed
    <2>3. Holders(i)' = Holders(i)
      BY <2>1 DEF Holders
    <2>4. PICK next : next = [op EXCEPT !.at = "cleared"]
      OBVIOUS
    <2>5. /\ next \in FileOps /\ next.note = op.note /\ next.at = "cleared" /\ next.kind = "file"
          /\ next.target = op.target /\ Proceed(a, next)
      BY <1>1, <1>4, <1>7, <2>4 DEF FileClearsExamples
    <2>6. examples' = IF FolderOf(op.path) = Inbox THEN examples
                      ELSE [examples EXCEPT ![FolderOf(op.path)]
                                = @ \ ({"route", "kind"} \X {op.note.id})]
      BY <1>1, <1>7 DEF FileClearsExamples
    <2>7. \A p \in Projects, which \in {"route", "kind"} :
             <<which, i>> \in examples'[p] =>
                /\ <<which, i>> \in examples[p]
                /\ i = op.note.id => p # FolderOf(op.path)
      BY <2>6, VaultAssumption DEF VaultTypeOK, Folders
    <2>8. Fewer(i)
      BY <2>3, <2>7 DEF Fewer
    <2>9. i = op.note.id => Learnt(i)' = {}
      BY <2>2, <2>7 DEF LearntIn, Learnt, FolderOf
    <2>10. i = op.note.id => Within(i, op.target)' /\ LearntIn(i, op.target)'
      BY <2>2, <2>3, <2>9 DEF Within, FolderOf, LearntIn
    <2>11. i = op.note.id => Placed(next, i)'
      BY <2>5, <2>10 DEF Placed
    <2>12. next # Nothing
      BY <2>5, NothingAssumption DEF Operations
    <2> QED
      BY <1>1, <1>2, <2>5, <2>8, <2>10, <2>11, <2>12, NoteGoesOn
  <1>8. CASE FileSavesExample(a)
    <2>1. op.at = "cleared" /\ UNCHANGED files /\ Proceed(a, Nothing)
      BY <1>1, <1>8 DEF FileSavesExample, Filing, Done
    <2>2. i = op.note.id => Within(i, op.target) /\ LearntIn(i, op.target)
      BY <1>2, <1>3, <2>1 DEF Placed
    <2>3. Holders(i)' = Holders(i)
      BY <2>1 DEF Holders
    <2>4. \A p \in Projects, which \in {"route", "kind"} :
             <<which, i>> \in examples'[p] =>
                <<which, i>> \in examples[p] \/ (p = op.target /\ i = op.note.id)
      BY <1>1, <1>8 DEF FileSavesExample, VaultTypeOK, Folders
    <2>5. i # op.note.id => Fewer(i)
      BY <2>3, <2>4 DEF Fewer
    <2>6. i = op.note.id => LearntIn(i, op.target)' /\ Within(i, op.target)'
      BY <2>2, <2>3, <2>4 DEF LearntIn, Learnt, Within, FolderOf
    <2> QED
      BY <1>1, <1>2, <2>1, <2>5, <2>6, NoteGoesOn
  <1>9. CASE FileRewrites(a)
    <2>1. op.at = "checked" /\ UNCHANGED examples
      BY <1>1, <1>9 DEF FileRewrites, Filing
    <2>2. i = op.note.id => /\ Holders(i) \subseteq {op.path} /\ LearntIn(i, FolderOf(op.path))
                            /\ FolderOf(op.path) = op.target
      BY <1>2, <1>3, <2>1 DEF Placed
    <2>3. /\ Holders(i)' \subseteq Holders(i) \cup {op.path}
          /\ i # op.note.id => Holders(i)' \subseteq Holders(i)
      <3>1. CASE ~CanStage(op.path)
        BY <1>1, <1>9, <3>1 DEF FileRewrites, Holders
      <3>2. CASE CanStage(op.path)
        <4>1. PICK note : Replace(op.path, note) /\ note.id = op.note.id
          <5>1. [op.note EXCEPT !.project = op.target].id = op.note.id
            BY <1>2 DEF Contents
          <5> QED
            BY <1>1, <1>9, <3>2, <5>1 DEF FileRewrites
        <4>2. op.path \in Paths
          BY <1>2
        <4> QED
          BY <4>1, <4>2, ReplaceOne
      <3> QED
        BY <3>1, <3>2
    <2>4. PICK next : next \in {Nothing, [op EXCEPT !.at = "cleared"]} /\ Proceed(a, next)
      BY <1>1, <1>9 DEF FileRewrites, Done
    <2>5. i = op.note.id => Within(i, op.target)' /\ LearntIn(i, op.target)'
      BY <2>1, <2>2, <2>3, SameLearnt DEF Within, FolderOf
    <2>6. /\ next \in FileOps \cup {Nothing}
          /\ next # Nothing => /\ next.note = op.note /\ next.at = "cleared" /\ next.kind = "file"
                               /\ next.target = op.target
      BY <1>4, <2>4
    <2>7. i = op.note.id /\ next # Nothing => Placed(next, i)'
      BY <2>5, <2>6 DEF Placed
    <2>8. i # op.note.id => Fewer(i)
      BY <2>1, <2>3, SameLearnt
    <2>9. next # Nothing => next.note.id = op.note.id
      BY <2>6
    <2> QED
      BY <1>1, <1>2, <2>4, <2>5, <2>6, <2>7, <2>8, <2>9, NoteGoesOn
  <1> QED
    BY <1>5, <1>6, <1>7, <1>8, <1>9

\* A project's operation goes on, or ends: Stays is what it leaves of each note.
LEMMA ProjectGoesOn ==
    ASSUME VaultTypeOK, NEW a \in Actors, NEW op \in DeleteOps \cup RenameOps, proc[a] = op,
           NEW next \in DeleteOps \cup RenameOps \cup {Nothing}, Proceed(a, next),
           next # Nothing =>
              /\ next.todo \subseteq op.todo /\ next.kind = op.kind /\ next.project = op.project
              /\ \A p : ~RenamesFrom(next, p)
              /\ op \in DeleteOps => next.infra = op.infra
    PROVE  /\ GoesOn(a, next)
           /\ InHand(op) = {r.note.id : r \in op.todo}
           /\ next # Nothing => InHand(next) = {r.note.id : r \in next.todo}
           /\ \A i : Has(a, i) <=> i \in InHand(op)
           /\ \A p : Deletion(a, p) <=> op \in DeleteOps /\ op.project = p
           /\ \A p : DeletesIn(next, p) <=> next # Nothing /\ op \in DeleteOps /\ op.project = p
  <1>1. /\ op # Nothing /\ OnProject(op) /\ op.kind \in {"delete project", "rename project"}
        /\ op \in DeleteOps <=> op.kind = "delete project"
    BY OpShape DEF OnProject, Operations, DeleteOps, RenameOps
  <1>2. next # Nothing => OnProject(next)
    BY <1>1 DEF OnProject
  <1>3. InHand(op) = {r.note.id : r \in op.todo}
    BY <1>1 DEF InHand
  <1>4. next # Nothing => InHand(next) = {r.note.id : r \in next.todo}
    BY <1>2 DEF InHand
  <1>5. next = Nothing => InHand(next) = {} /\ ~OnProject(next) /\ \A p : ~RenamesFrom(next, p)
    BY DEF InHand, OnProject, RenamesFrom
  <1>6. InHand(next) \subseteq InHand(proc[a])
    BY <1>3, <1>4, <1>5
  <1>7. \A p : Deletion(a, p) <=> op \in DeleteOps /\ op.project = p
    BY <1>1, Unfold DEF DeletesIn
  <1>8. \A p : DeletesIn(next, p) <=> next # Nothing /\ op \in DeleteOps /\ op.project = p
    BY <1>1 DEF DeletesIn
  <1>9. GoesOn(a, next)
    BY <1>1, <1>5, <1>6, <1>7, <1>8 DEF GoesOn, Proceed
  <1>10. \A i : Has(a, i) <=> i \in InHand(op)
    BY Unfold
  <1> QED
    BY <1>3, <1>4, <1>7, <1>8, <1>9, <1>10

LEMMA DeletionGoesOn ==
    ASSUME VaultTypeOK, NEW a \in Actors, NEW op \in DeleteOps, proc[a] = op,
           NEW next \in DeleteOps, NEW i, Proceed(a, next),
           next.todo \subseteq op.todo, next.project = op.project, next.infra = op.infra
    PROVE  /\ GoesOn(a, next)
           /\ Has(a, i) <=> i \in InHand(op)
           /\ InHand(op) = {r.note.id : r \in op.todo}
           /\ InHand(next) = {r.note.id : r \in next.todo}
           /\ \A p : (Deletion(a, p) <=> op.project = p) /\ (DeletesIn(next, p) <=> op.project = p)
  <1>1. next.kind = "delete project" /\ op.kind = "delete project" /\ next # Nothing /\ op # Nothing
    BY NothingAssumption DEF DeleteOps, Operations
  <1>2. OnProject(op) /\ OnProject(next) /\ \A p : ~RenamesFrom(next, p)
    BY <1>1 DEF OnProject, RenamesFrom
  <1>3. InHand(op) = {r.note.id : r \in op.todo} /\ InHand(next) = {r.note.id : r \in next.todo}
    BY <1>1, <1>2 DEF InHand
  <1>4. InHand(next) \subseteq InHand(op)
    BY <1>3
  <1>5. \A p : (Deletion(a, p) <=> op.project = p) /\ (DeletesIn(next, p) <=> op.project = p)
    BY <1>1 DEF Deletion, DeletesIn
  <1>6. GoesOn(a, next)
    BY <1>2, <1>4, <1>5 DEF GoesOn, Proceed
  <1> QED
    BY <1>3, <1>5, <1>6 DEF Has

\* The examples a deletion leaves behind when it stops are not of a clean note.
LEMMA CleanOfDeletion ==
    ASSUME NEW op \in DeleteOps, LeftBehind(op) \subseteq cut', NEW i \in Ids, Clean(i)'
    PROVE  op.project \notin Learnt(i)
  <1>1. op.kind = "delete project" /\ op # Nothing
    BY OpShape DEF Operations
  <1>2. i \notin LeftBehind(op)
    BY DEF Clean
  <1>3. \A log \in examples[op.project] : log[2] # i
    BY <1>1, <1>2 DEF LeftBehind
  <1> QED
    BY <1>3 DEF Learnt

LEMMA DeletionKept ==
    ASSUME VaultTypeOK, NEW a \in Actors,
           DeleteProjectLinks(a) \/ DeleteProjectUnlinks(a) \/ DeleteProjectRemoves(a),
           NEW i \in Ids, Kept(i), Clean(i)'
    PROVE  Kept(i)'
  <1>1. PICK op : op = proc[a]
    OBVIOUS
  <1>2. op \in DeleteOps /\ op.todo \subseteq Scanned /\ op.kind = "delete project" /\ op # Nothing
    <2>1. op \in DeleteOps
      BY <1>1, HandShape DEF DeleteProjectLinks, DeleteProjectUnlinks, DeleteProjectRemoves, Deleting
    <2> QED
      BY <2>1, OpShape DEF DeleteOps, Operations
  <1>3. Has(a, i) => LearntIn(i, op.project)
    <2>1. Has(a, i) => Placed(op, i)
      BY <1>1, Unfold DEF Kept, HandsPlaced
    <2> QED
      BY <1>2, <2>1 DEF Placed
  <1>4. CASE DeleteProjectLinks(a)
    <2>1. PICK r \in op.todo : Link(a, [op EXCEPT !.path = r.path], Inbox,
                                    [id |-> r.note.id, project |-> Inbox, extra |-> FALSE])
      BY <1>1, <1>4 DEF DeleteProjectLinks
    <2>2. r.path \in Paths /\ r.note.id \in Ids
      BY <1>2, <2>1 DEF Scanned, Contents
    <2>3. PICK path, note : /\ path = FreePath(Inbox, r.path[2])
                            /\ note = [id |-> r.note.id, project |-> Inbox, extra |-> FALSE]
      OBVIOUS
    <2>4. PICK next : next = [op EXCEPT !.path = r.path, !.at = "linked", !.new = path]
      OBVIOUS
    <2>5. [op EXCEPT !.path = r.path].path = r.path
          /\ [[op EXCEPT !.path = r.path] EXCEPT !.at = "linked", !.new = path] = next
      BY <1>2, <2>4 DEF DeleteOps
    <2>6. /\ FreeNames(Inbox, r.path[2]) # {} /\ files' = [files EXCEPT ![path] = note]
          /\ Proceed(a, next)
      BY <2>1, <2>3, <2>5 DEF Link
    <2>7. path \in Paths
      <3>1. r.path[2] \in Stems /\ Inbox \in Folders
        BY <2>2, PathParts DEF Folders
      <3> QED
        BY <2>3, <2>6, <3>1, FreePathIsFree
    <2>8. /\ next \in DeleteOps /\ next.todo = op.todo /\ next.kind = "delete project"
          /\ next.project = op.project /\ next.infra = op.infra
      BY <1>2, <2>2, <2>4, <2>7 DEF DeleteOps
    <2>9. /\ GoesOn(a, next) /\ InHand(next) = InHand(op) /\ (Has(a, i) <=> i \in InHand(op))
           /\ r.note.id \in InHand(op)
           /\ \A p : Deletion(a, p) => DeletesIn(next, p)
      <3>1. /\ GoesOn(a, next) /\ (Has(a, i) <=> i \in InHand(op))
            /\ InHand(op) = {t.note.id : t \in op.todo}
            /\ InHand(next) = {t.note.id : t \in next.todo}
            /\ \A p : Deletion(a, p) => DeletesIn(next, p)
        BY <1>1, <1>2, <2>6, <2>8, DeletionGoesOn
      <3>2. r.note.id \in {t.note.id : t \in op.todo}
        BY <2>1
      <3> QED
        BY <2>8, <3>1, <3>2
    <2>11. UNCHANGED examples
      BY <1>4 DEF DeleteProjectLinks
    <2>12. CASE Has(a, i)
      <3>1. LearntIn(i, op.project)'
        BY <1>3, <2>11, <2>12, SameLearnt
      <3>2. Placed(next, i)'
        BY <2>8, <3>1 DEF Placed
      <3> QED
        BY <2>9, <2>11, <2>12, <3>1, <3>2, OwnKept
    <2>13. CASE ~Has(a, i)
      <3>1. i # r.note.id
        BY <2>9, <2>13
      <3>2. note.id = r.note.id
        BY <2>3
      <3>3. Holders(i)' \subseteq Holders(i)
        BY <2>6, <2>7, <3>1, <3>2, WriteOne
      <3>4. Fewer(i)
        BY <2>11, <3>3, SameLearnt
      <3> QED
        BY <2>9, <2>13, <3>4, OtherKept
    <2> QED
      BY <2>12, <2>13
  <1>5. CASE DeleteProjectUnlinks(a)
    <2>1. op.path \in Paths /\ op.new \in Paths /\ UNCHANGED examples
      BY <1>1, <1>2, <1>5 DEF DeleteOps, DeleteProjectUnlinks, Deleting
    <2>6. PICK j \in InMove(op) :
            \/ Unlink(op, j) /\ Proceed(a, [op EXCEPT !.at = "moving", !.todo = {r \in @ : r.path # op.path}])
            \/ TakeBack(op, j) /\ Done(a)
      BY <1>1, <1>5 DEF DeleteProjectUnlinks
    <2>2. Holders(i)' \subseteq Holders(i)
      <3>1. files' = Unlinked(op) \/ files' = RolledBack(op) \/ files' = files
        BY <2>6 DEF Unlink, TakeBack
      <3>2. files' = Unlinked(op) => Holders(i)' \subseteq Holders(i)
        BY <2>1, WriteOne DEF Unlinked
      <3>3. files' = RolledBack(op) => Holders(i)' \subseteq Holders(i)
        BY <2>1, WriteOne DEF RolledBack
      <3>4. files' = files => Holders(i)' = Holders(i)
        BY DEF Holders
      <3> QED
        BY <3>1, <3>2, <3>3, <3>4
    <2>3. Fewer(i) /\ (Has(a, i) => LearntIn(i, op.project)') /\ Learnt(i)' = Learnt(i)
      BY <1>3, <2>1, <2>2, SameLearnt
    <2>4. CASE Proceed(a, [op EXCEPT !.at = "moving", !.todo = {r \in @ : r.path # op.path}])
      <3>1. PICK next : next = [op EXCEPT !.at = "moving", !.todo = {r \in @ : r.path # op.path}]
        OBVIOUS
      <3>2. /\ next \in DeleteOps /\ next.todo \subseteq op.todo /\ next.kind = "delete project"
            /\ next.project = op.project /\ next.infra = op.infra /\ Proceed(a, next)
        BY <1>2, <2>4, <3>1 DEF DeleteOps
      <3>4. GoesOn(a, next) /\ \A p : (Deletion(a, p) <=> op.project = p) /\ (DeletesIn(next, p) <=> op.project = p)
        BY <1>1, <1>2, <3>2, DeletionGoesOn
      <3>5. CASE Has(a, i)
        <4>1. Placed(next, i)'
          BY <2>3, <3>2, <3>5 DEF Placed
        <4>2. \A p \in Learnt(i)' : DeletesIn(next, p)
          BY <2>3, <3>4, <3>5 DEF LearntIn
        <4> QED
          BY <2>1, <2>3, <3>4, <3>5, <4>1, <4>2, OwnKept
      <3> QED
        BY <2>3, <3>4, <3>5, OtherKept
    <2>5. CASE Done(a) /\ LeftBehind(op) \subseteq cut'
      <3>1. op.project \notin Learnt(i)'
        BY <1>2, <2>3, <2>5, CleanOfDeletion
      <3>2. /\ GoesOn(a, Nothing) /\ \A p : (Deletion(a, p) <=> op.project = p) /\ ~DeletesIn(Nothing, p)
            /\ i \notin InHand(Nothing)
        BY <1>1, <1>2, <2>5, ProjectGoesOn DEF Done, InHand
      <3>3. CASE Has(a, i)
        <4>1. Learnt(i)' = {}
          BY <2>3, <3>1, <3>3 DEF LearntIn
        <4> QED
          BY <2>1, <2>3, <3>2, <3>3, <4>1, OwnKept
      <3> QED
        BY <2>3, <3>1, <3>2, <3>3, OtherKept
    <2> QED
      BY <2>4, <2>5, <2>6 DEF TakeBack
  <1>6. CASE DeleteProjectRemoves(a)
    <2>1. op.todo = {} /\ UNCHANGED files /\ Proceed(a, Nothing)
          /\ examples' = [examples EXCEPT ![op.project]
                             = {log \in examples[op.project] : log[1] \notin op.infra}]
      BY <1>1, <1>6 DEF DeleteProjectRemoves, Done
    <2>2. /\ GoesOn(a, Nothing) /\ \A p : (Deletion(a, p) <=> op.project = p)
          /\ ~Has(a, i)
      <3>1. /\ GoesOn(a, Nothing) /\ \A p : (Deletion(a, p) <=> op.project = p)
            /\ InHand(op) = {r.note.id : r \in op.todo} /\ (Has(a, i) <=> i \in InHand(op))
        BY <1>1, <1>2, <2>1, ProjectGoesOn
      <3>2. InHand(op) = {}
        BY <2>1, <3>1
      <3> QED
        BY <3>1, <3>2
    <2>3. op.project \in Projects
      BY <1>2 DEF DeleteOps
    <2>4. \A p \in Projects, which \in {"route", "kind"} :
             <<which, i>> \in examples'[p] =>
                <<which, i>> \in examples[p] /\ (p = op.project => which \notin op.infra)
      BY <2>1, <2>3 DEF VaultTypeOK, Folders
    <2>5. Holders(i)' = Holders(i)
      BY <2>1 DEF Holders
    <2>6. Fewer(i)
      BY <2>4, <2>5 DEF Fewer
    <2>7. ASSUME op.project \in Learnt(i)'
          PROVE  Holders(i)' = {}
      <3>1. PICK which \in {"route", "kind"} : <<which, i>> \in examples'[op.project]
        BY <2>7 DEF Learnt
      <3>2. <<which, i>> \in examples[op.project] /\ which \notin op.infra
        BY <2>3, <2>4, <3>1
      <3> QED
        BY <1>1, <2>2, <2>3, <2>5, <3>1, <3>2 DEF Kept, DeletionForgets
    <2> QED
      BY <2>2, <2>6, <2>7, OtherKept
  <1> QED
    BY <1>4, <1>5, <1>6

\* The folder takes its notes and what it learnt along.
LEMMA RenameMovesAll ==
    ASSUME VaultTypeOK, NEW p \in Projects, NEW q \in Projects, p \in folders, q \notin folders,
           files' = [path \in Paths |->
               IF FolderOf(path) = q THEN files[InFolder(path, p)]
               ELSE IF FolderOf(path) = p THEN Nothing ELSE files[path]],
           examples' = [examples EXCEPT ![q] = examples[p], ![p] = {}],
           NEW i
    PROVE  /\ p # q /\ p \notin Learnt(i)' /\ (q \in Learnt(i)' <=> p \in Learnt(i))
           /\ \A x \in Projects \ {p, q}, which \in {"route", "kind"} :
                 <<which, i>> \in examples'[x] <=> <<which, i>> \in examples[x]
           /\ \A x \in Projects \ {p, q} : x \in Learnt(i)' <=> x \in Learnt(i)
           /\ \A path \in Holders(i)' :
                 \/ FolderOf(path) = q /\ \E old \in Holders(i) : FolderOf(old) = p
                 \/ path \in Holders(i) /\ FolderOf(path) \notin {p, q}
  <1>1. p # q
    OBVIOUS
  <1>2. examples'[p] = {} /\ examples'[q] = examples[p]
        /\ \A x \in Projects \ {p, q} : examples'[x] = examples[x]
    BY <1>1 DEF VaultTypeOK, Folders
  <1>3. ASSUME NEW path \in Holders(i)'
        PROVE  \/ FolderOf(path) = q /\ \E old \in Holders(i) : FolderOf(old) = p
               \/ path \in Holders(i) /\ FolderOf(path) \notin {p, q}
    <2>1. path \in Paths /\ files'[path] # Nothing /\ files'[path].id = i
      BY DEF Holders
    <2>2. CASE FolderOf(path) = q
      <3>1. InFolder(path, p) \in Paths /\ FolderOf(InFolder(path, p)) = p
        BY <2>1, PathParts DEF Folders
      <3>2. files[InFolder(path, p)] = files'[path]
        BY <2>1, <2>2
      <3> QED
        BY <2>1, <2>2, <3>1, <3>2 DEF Holders
    <2>3. CASE FolderOf(path) # q
      <3>1. FolderOf(path) # p /\ files'[path] = files[path]
        BY <2>1, <2>3
      <3> QED
        BY <2>1, <2>3, <3>1 DEF Holders
    <2> QED
      BY <2>2, <2>3
  <1> QED
    BY <1>1, <1>2, <1>3 DEF Learnt

LEMMA RenameKept ==
    ASSUME VaultTypeOK, NEW a \in Actors, RenameMoves(a) \/ RenameChecks(a) \/ RenameRewrites(a),
           NEW i \in Ids, Kept(i)
    PROVE  Kept(i)'
  <1>1. PICK op : op = proc[a]
    OBVIOUS
  <1>2. /\ op \in RenameOps /\ op \notin DeleteOps /\ op.kind = "rename project" /\ op # Nothing
        /\ op.project \in Projects /\ op.to \in Projects /\ op.todo \subseteq Scanned
    <2>1. op \in RenameOps
      BY <1>1, HandShape DEF RenameMoves, RenameChecks, RenameRewrites, Renaming
    <2> QED
      BY <2>1, OpShape DEF RenameOps, DeleteOps, Operations
  <1>3. Has(a, i) => Placed(op, i)
    BY <1>1, Unfold DEF Kept, HandsPlaced
  <1>4. Proceed(a, Nothing) => /\ GoesOn(a, Nothing) /\ i \notin InHand(Nothing)
                               /\ \A x : ~Deletion(a, x) /\ ~DeletesIn(Nothing, x)
    BY <1>1, <1>2, ProjectGoesOn DEF InHand
  <1>5. CASE RenameMoves(a) /\ Done(a) /\ UNCHANGED <<files, examples>>
    <2>1. op.at = "scanned"
      BY <1>1, <1>5 DEF RenameMoves, Renaming
    <2>2. Fewer(i) /\ Learnt(i)' = Learnt(i)
      BY <1>5, SameLearnt DEF Holders
    <2>3. CASE Has(a, i)
      <3>1. Settled(i, op.project)
        BY <1>2, <1>3, <2>1, <2>3 DEF Placed
      <3>2. LearntIn(i, op.project)' /\ (Learnt(i)' = {} \/ Within(i, op.project)')
        <4>1. Settled(i, op.project)'
          BY <2>2, <3>1, FewerLearnt
        <4> QED
          BY <4>1 DEF Settled
      <3>3. \A x \in Learnt(i)' : Within(i, x)'
        BY <3>2 DEF LearntIn
      <3> QED
        BY <1>4, <1>5, <2>3, <3>2, <3>3, OwnKept DEF Done
    <2> QED
      BY <1>4, <1>5, <2>2, <2>3, OtherKept DEF Done
  <1>6. CASE RenameMoves(a) /\ ~(op.project \notin folders \/ op.to \in folders)
    <2>1. PICK p, q : p = op.project /\ q = op.to
      OBVIOUS
    <2>2. op.at = "scanned"
      BY <1>1, <1>6 DEF RenameMoves, Renaming
    <2>3. /\ p \in folders /\ q \notin folders
          /\ files' = [path \in Paths |->
               IF FolderOf(path) = q THEN files[InFolder(path, p)]
               ELSE IF FolderOf(path) = p THEN Nothing ELSE files[path]]
          /\ examples' = [examples EXCEPT ![q] = examples[p], ![p] = {}]
          /\ Proceed(a, [op EXCEPT !.at = "moved"])
      BY <1>1, <1>6, <2>1 DEF RenameMoves
    <2>4. /\ p # q /\ p \notin Learnt(i)' /\ (q \in Learnt(i)' <=> p \in Learnt(i))
          /\ \A x \in Projects \ {p, q}, which \in {"route", "kind"} :
                <<which, i>> \in examples'[x] <=> <<which, i>> \in examples[x]
          /\ \A x \in Projects \ {p, q} : x \in Learnt(i)' <=> x \in Learnt(i)
          /\ \A path \in Holders(i)' :
                \/ FolderOf(path) = q /\ \E old \in Holders(i) : FolderOf(old) = p
                \/ path \in Holders(i) /\ FolderOf(path) \notin {p, q}
      <3>1. p \in Projects /\ q \in Projects
        BY <1>2, <2>1
      <3> QED
        BY <2>3, <3>1, RenameMovesAll
    <2>5. PICK next : next = [op EXCEPT !.at = "moved"]
      OBVIOUS
    <2>6. /\ next \in RenameOps /\ next.todo = op.todo /\ next.kind = "rename project" /\ next.at = "moved"
          /\ next.project = op.project /\ next.to = q /\ Proceed(a, next)
      BY <1>2, <2>1, <2>3, <2>5 DEF RenameOps
    <2>7. next # Nothing /\ \A x : ~RenamesFrom(next, x)
      BY <2>6, NothingAssumption DEF Operations, RenamesFrom
    <2>8. /\ GoesOn(a, next) /\ InHand(next) = InHand(op) /\ (Has(a, i) <=> i \in InHand(op))
          /\ \A x : ~Deletion(a, x) /\ ~DeletesIn(next, x)
      <3>1. /\ GoesOn(a, next) /\ (Has(a, i) <=> i \in InHand(op))
            /\ InHand(op) = {r.note.id : r \in op.todo}
            /\ InHand(next) = {r.note.id : r \in next.todo}
            /\ \A x : ~Deletion(a, x) /\ ~DeletesIn(next, x)
        BY <1>1, <1>2, <2>6, <2>7, ProjectGoesOn
      <3> QED
        BY <2>6, <3>1
    <2>9. Learnt(i)' \subseteq Projects /\ Learnt(i) \subseteq Projects
      BY DEF Learnt
    <2>10. CASE Has(a, i)
      <3>1. LearntIn(i, p) /\ (Learnt(i) = {} \/ Within(i, p))
        BY <1>2, <1>3, <2>1, <2>2, <2>10 DEF Placed, Settled
      <3>2. LearntIn(i, q)'
        BY <2>4, <2>9, <3>1 DEF LearntIn
      <3>3. Learnt(i)' = {} \/ Within(i, q)'
        BY <2>4, <2>9, <3>1 DEF Within, FolderOf
      <3>4. Placed(next, i)'
        BY <2>6, <3>2, <3>3 DEF Placed, Settled
      <3> QED
        BY <2>8, <2>10, <3>2, <3>4, OwnKept
    <2>11. CASE ~Has(a, i)
      <3>1. /\ OnProject(op) /\ ARename(a, p)
        <4>1. OnProject(op) /\ RenamesFrom(op, p)
          BY <1>2, <2>1, <2>2 DEF OnProject, RenamesFrom
        <4> QED
          BY <1>1, <4>1, Unfold
      <3>2. \A b \in Actors : ~Has(b, i)
        BY <1>1, <2>11, <3>1 DEF Kept, AloneInHand
      <3>3. Holders(i) = {} \/ p \notin Learnt(i)
        BY <1>2, <2>1, <2>11, <3>1 DEF Kept, RenameHasAll
      <3>4. /\ proc'[a] = next
            /\ \A b \in Actors \ {a} :
                  /\ proc'[b] = proc[b] /\ (Has(b, i)' <=> Has(b, i))
                  /\ \A x : (Deletion(b, x)' <=> Deletion(b, x)) /\ (ARename(b, x)' <=> ARename(b, x))
        BY <2>6, OthersSame DEF Proceed
      <3>5. OneHand(i)' /\ AloneInHand(i)' /\ \A b \in Actors : ~Has(b, i)'
        <4>1. OneHand(i)' /\ AloneInHand(i)' /\ ~Has(a, i)'
          BY <2>8, <2>11, HandsGoOn DEF Kept
        <4> QED
          BY <3>2, <3>4, <4>1
      <3>6. \A x : ~Deletion(a, x)' /\ ~ARename(a, x)'
        BY <2>7, <2>8, <3>4, Unfold
      <3>7. Holders(i)' # {} => Holders(i) # {}
        BY <2>4
      <3>8. CASE Holders(i) = {}
        <4>1. Holders(i)' = {}
          BY <3>7, <3>8
        <4>2. LearntOnce(i)'
          BY <2>4, <2>9 DEF LearntOnce, Kept
        <4> QED
          BY <3>5, <4>1, <4>2
             DEF Kept, HandsPlaced, LearntWhereFiled, DeletionForgets, RenameHasAll, Within
      <3>9. CASE p \notin Learnt(i)
        <4>1. Learnt(i)' \subseteq Learnt(i) \ {p, q}
          BY <2>4, <2>9, <3>9
        <4>2. LearntOnce(i)'
          BY <4>1 DEF LearntOnce, Kept
        <4>3. LearntWhereFiled(i)'
          <5>1. ASSUME NEW x, x \in Learnt(i)'
                PROVE  (\E b \in Actors : Has(b, i)' \/ Deletion(b, x)') \/ Within(i, x)'
            <6>1. (\E b \in Actors : Deletion(b, x)) \/ Within(i, x)
              BY <3>2, <4>1, <5>1 DEF Kept, LearntWhereFiled
            <6>2. CASE \E b \in Actors : Deletion(b, x)
              BY <2>8, <3>4, <6>2
            <6>3. CASE Within(i, x)
              <7>1. Within(i, x)'
                BY <2>4, <4>1, <5>1, <6>3 DEF Within, FolderOf
              <7> QED
                BY <7>1
            <6> QED
              BY <6>1, <6>2, <6>3
          <5> QED
            BY <5>1 DEF LearntWhereFiled
        <4>4. DeletionForgets(i)'
          <5>1. ASSUME NEW b \in Actors, NEW x \in Projects, NEW which \in {"route", "kind"},
                       Deletion(b, x)', Holders(i)' # {}, <<which, i>> \in examples'[x]
                PROVE  which \in proc'[b].infra
            <6>1. x \in Learnt(i)'
              BY <5>1 DEF Learnt
            <6>2. <<which, i>> \in examples[x]
              BY <2>4, <4>1, <5>1, <6>1
            <6>3. Deletion(b, x) /\ proc'[b] = proc[b]
              BY <3>4, <3>6, <5>1
            <6> QED
              BY <3>7, <5>1, <6>2, <6>3 DEF Kept, DeletionForgets
          <5> QED
            BY <3>5, <5>1 DEF DeletionForgets
        <4>5. RenameHasAll(i)'
          <5>1. ASSUME NEW b \in Actors, NEW x \in Projects, ARename(b, x)', Holders(i)' # {}, x \in Learnt(i)'
                PROVE  FALSE
            <6>1. ARename(b, x)
              BY <3>4, <3>6, <5>1
            <6> QED
              BY <3>2, <3>7, <4>1, <5>1, <6>1 DEF Kept, RenameHasAll
          <5> QED
            BY <5>1 DEF RenameHasAll
        <4> QED
          BY <3>5, <4>2, <4>3, <4>4, <4>5 DEF Kept, HandsPlaced
      <3> QED
        BY <3>3, <3>8, <3>9
    <2> QED
      BY <2>10, <2>11
  <1>7. CASE RenameChecks(a)
    <2>1. op.at = "moved" /\ UNCHANGED <<files, examples>>
      BY <1>1, <1>7 DEF RenameChecks, Renaming
    <2>2. Fewer(i) /\ Learnt(i)' = Learnt(i)
      BY <2>1, SameLearnt DEF Holders
    <2>3. CASE op.todo = {}
      <3>1. Proceed(a, Nothing)
        BY <1>1, <1>7, <2>3 DEF RenameChecks, Done
      <3>2. ~Has(a, i)
        <4>1. InHand(op) = {r.note.id : r \in op.todo} /\ (Has(a, i) <=> i \in InHand(op))
          BY <1>1, <1>2, <3>1, ProjectGoesOn
        <4>2. InHand(op) = {}
          BY <2>3, <4>1
        <4> QED
          BY <4>1, <4>2
      <3> QED
        BY <1>4, <2>2, <3>1, <3>2, OtherKept
    <2>4. CASE op.todo # {}
      <3>1. PICK r \in op.todo :
              Proceed(a, IF r.note.project = op.project /\ There(InFolder(r.path, op.to))
                         THEN [op EXCEPT !.at = "checked", !.path = r.path]
                         ELSE [op EXCEPT !.todo = @ \ {r}])
        BY <1>1, <1>7, <2>4 DEF RenameChecks
      <3>2. PICK next : /\ next \in {[op EXCEPT !.at = "checked", !.path = r.path], [op EXCEPT !.todo = @ \ {r}]}
                        /\ Proceed(a, next)
        BY <3>1
      <3>3. r.path \in Paths
        BY <1>2, <3>1 DEF Scanned
      <3>4. /\ next \in RenameOps /\ next.todo \subseteq op.todo /\ next.kind = "rename project"
            /\ next.at \in {"moved", "checked"} /\ next.project = op.project /\ next.to = op.to
        BY <1>2, <2>1, <3>2, <3>3 DEF RenameOps
      <3>5. next # Nothing /\ \A x : ~RenamesFrom(next, x)
        BY <3>4, NothingAssumption DEF Operations, RenamesFrom
      <3>6. /\ GoesOn(a, next) /\ (Has(a, i) <=> i \in InHand(op))
            /\ \A x : ~Deletion(a, x) /\ ~DeletesIn(next, x)
        BY <1>1, <1>2, <3>2, <3>4, <3>5, ProjectGoesOn
      <3>7. CASE Has(a, i)
        <4>1. Settled(i, op.to)
          BY <1>2, <1>3, <2>1, <3>7 DEF Placed
        <4>2. Settled(i, op.to)'
          BY <2>2, <4>1, FewerLearnt
        <4>3. Placed(next, i)'
          BY <3>4, <4>2 DEF Placed
        <4>4. LearntIn(i, op.to)' /\ \A x \in Learnt(i)' : Within(i, x)'
          BY <4>2 DEF Settled, LearntIn
        <4> QED
          BY <2>1, <3>6, <3>7, <4>3, <4>4, OwnKept
      <3> QED
        BY <2>2, <3>6, <3>7, OtherKept
    <2> QED
      BY <2>3, <2>4
  <1>8. CASE RenameRewrites(a)
    <2>1. PICK r \in op.todo :
            /\ IF CanStage(InFolder(r.path, op.to))
               THEN Replace(InFolder(r.path, op.to), [r.note EXCEPT !.project = op.to])
               ELSE UNCHANGED files
            /\ Proceed(a, [op EXCEPT !.at = "moved", !.todo = @ \ {r}])
      BY <1>1, <1>8 DEF RenameRewrites
    <2>2. op.at = "checked" /\ UNCHANGED examples
      BY <1>1, <1>8 DEF RenameRewrites, Renaming
    <2>3. PICK path : path = InFolder(r.path, op.to)
      OBVIOUS
    <2>4. path \in Paths /\ FolderOf(path) = op.to /\ r.note \in Contents
      <3>1. r.path \in Paths /\ r.note \in Contents
        BY <1>2, <2>1 DEF Scanned
      <3>2. op.to \in Folders
        BY <1>2 DEF Folders
      <3> QED
        BY <2>3, <3>1, <3>2, PathParts
    <2>5. /\ Holders(i)' \subseteq Holders(i) \cup {path}
          /\ r.note.id # i => Holders(i)' \subseteq Holders(i)
      <3>1. [r.note EXCEPT !.project = op.to].id = r.note.id
        BY <2>4 DEF Contents
      <3>2. CASE CanStage(path)
        <4>1. PICK note : Replace(path, note) /\ note.id = r.note.id
          BY <2>1, <2>3, <3>1, <3>2
        <4>2. path \in Paths
          BY <2>4
        <4> QED
          BY <4>1, <4>2, ReplaceOne
      <3>3. CASE ~CanStage(path)
        BY <2>1, <2>3, <3>3 DEF Holders
      <3> QED
        BY <3>2, <3>3
    <2>6. PICK next : next = [op EXCEPT !.at = "moved", !.todo = @ \ {r}]
      OBVIOUS
    <2>7. /\ next \in RenameOps /\ next.todo \subseteq op.todo /\ next.kind = "rename project" /\ next.at = "moved"
          /\ next.project = op.project /\ next.to = op.to /\ Proceed(a, next)
      BY <1>2, <2>1, <2>2, <2>6 DEF RenameOps
    <2>8. next # Nothing /\ \A x : ~RenamesFrom(next, x)
      BY <2>7, NothingAssumption DEF Operations, RenamesFrom
    <2>9. /\ GoesOn(a, next) /\ InHand(op) = {t.note.id : t \in op.todo} /\ (Has(a, i) <=> i \in InHand(op))
          /\ \A x : ~Deletion(a, x) /\ ~DeletesIn(next, x)
      BY <1>1, <1>2, <2>7, <2>8, ProjectGoesOn
    <2>10. CASE Has(a, i)
      <3>1. LearntIn(i, op.to) /\ (Learnt(i) = {} \/ Within(i, op.to))
        BY <1>2, <1>3, <2>2, <2>10 DEF Placed, Settled
      <3>2. LearntIn(i, op.to)' /\ Learnt(i)' = Learnt(i)
        BY <2>2, <3>1, SameLearnt
      <3>3. Within(i, op.to) => Within(i, op.to)'
        BY <2>4, <2>5 DEF Within, FolderOf
      <3>4. Placed(next, i)'
        BY <2>7, <3>1, <3>2, <3>3 DEF Placed, Settled
      <3>5. \A x \in Learnt(i)' : Within(i, x)'
        BY <3>1, <3>2, <3>3 DEF LearntIn
      <3> QED
        BY <2>9, <2>10, <3>2, <3>4, <3>5, OwnKept
    <2>11. CASE ~Has(a, i)
      <3>1. r.note.id # i
        BY <2>1, <2>9, <2>11
      <3>2. Fewer(i)
        BY <2>2, <2>5, <3>1, SameLearnt
      <3> QED
        BY <2>9, <2>11, <3>2, OtherKept
    <2> QED
      BY <2>10, <2>11
  <1>9. RenameMoves(a) /\ (op.project \notin folders \/ op.to \in folders)
          => Done(a) /\ UNCHANGED <<files, examples>>
    BY <1>1 DEF RenameMoves
  <1> QED
    BY <1>5, <1>6, <1>7, <1>8, <1>9

LEMMA DiesKept ==
    ASSUME VaultTypeOK, NEW a \in Actors, Dies(a), NEW i \in Ids, Kept(i), Clean(i)'
    PROVE  Kept(i)'
  <1>1. PICK op : op = proc[a]
    OBVIOUS
  <1>2. /\ op # Nothing /\ op \in Operations /\ Proceed(a, Nothing) /\ UNCHANGED <<files, examples>>
        /\ i \notin InMove(op) /\ LeftBehind(op) \subseteq cut'
    <2>1. op # Nothing /\ cut' = cut \cup InMove(op) \cup LeftBehind(op) /\ Proceed(a, Nothing)
      BY <1>1 DEF Dies, Done
    <2> QED
      BY <1>1, <2>1, HandShape DEF Dies, Clean
  <1>3. Fewer(i) /\ Learnt(i)' = Learnt(i) /\ Holders(i)' = Holders(i)
    BY <1>2, SameLearnt DEF Holders
  <1>4. \A p : (LearntIn(i, p)' <=> LearntIn(i, p)) /\ (Within(i, p)' <=> Within(i, p))
    BY <1>3 DEF LearntIn, Within, FolderOf
  <1>5. Has(a, i) => Placed(op, i)
    BY <1>1, Unfold DEF Kept, HandsPlaced
  <1>6. CASE op \in NoteOps \cup FileOps
    <2>1. i = op.note.id => Placed(op, i)
      <3>1. ~OnProject(op)
        BY <1>2, <1>6, OpShape DEF OnProject, NoteOps, FileOps
      <3> QED
        BY <1>1, <1>2, <1>5, <3>1, Unfold DEF InHand
    <2>2. i = op.note.id => \E p : Settled(i, p)
      <3>1. CASE op \in NoteOps
        <4>1. op.kind \in {"edit", "category", "delete"}
          BY <3>1 DEF NoteOps
        <4> QED
          BY <2>1, <4>1 DEF Placed, Within, Settled
      <3>2. CASE op \in FileOps
        <4>1. op.kind = "file" /\ op.at \in {"found", "checked", "linked", "moved", "cleared"}
          BY <3>2 DEF FileOps
        <4>2. i = op.note.id => op.at \notin {"linked", "moved"}
          BY <1>2, <4>1 DEF InMove
        <4>3. CASE op.at \in {"found", "checked"}
          BY <2>1, <4>1, <4>3 DEF Placed, Within, Settled
        <4>4. CASE op.at = "cleared"
          BY <2>1, <4>1, <4>4 DEF Placed, Settled
        <4> QED
          BY <4>1, <4>2, <4>3, <4>4
      <3> QED
        BY <1>6, <3>1, <3>2
    <2>3. i = op.note.id => \E p : LearntIn(i, p)' /\ (Learnt(i)' = {} \/ Within(i, p)')
      BY <1>3, <1>4, <2>2 DEF Settled
    <2> QED
      BY <1>1, <1>2, <1>3, <1>6, <2>3, NoteGoesOn
  <1>7. CASE op \in DeleteOps
    <2>1. op.project \notin Learnt(i)'
      BY <1>2, <1>3, <1>7, CleanOfDeletion
    <2>2. /\ GoesOn(a, Nothing) /\ i \notin InHand(Nothing)
          /\ \A p : (Deletion(a, p) <=> op.project = p) /\ ~DeletesIn(Nothing, p)
      BY <1>1, <1>2, <1>7, ProjectGoesOn DEF InHand
    <2>3. CASE Has(a, i)
      <3>1. op.kind = "delete project"
        BY <1>2, <1>7, OpShape
      <3>2. LearntIn(i, op.project)
        BY <1>5, <2>3, <3>1 DEF Placed
      <3>3. Learnt(i)' = {}
        BY <1>3, <2>1, <3>2 DEF LearntIn
      <3>4. LearntIn(i, op.project)'
        BY <1>4, <3>2
      <3> QED
        BY <2>2, <2>3, <3>3, <3>4, OwnKept
    <2> QED
      BY <1>3, <2>1, <2>2, <2>3, OtherKept
  <1>8. CASE op \in RenameOps
    <2>1. op.kind = "rename project" /\ op.at \in {"scanned", "moved", "checked"} /\ op \notin DeleteOps
      BY <1>8 DEF RenameOps, DeleteOps
    <2>2. /\ GoesOn(a, Nothing) /\ i \notin InHand(Nothing)
          /\ \A p : ~Deletion(a, p) /\ ~DeletesIn(Nothing, p)
      BY <1>1, <1>2, <1>8, <2>1, ProjectGoesOn DEF InHand
    <2>3. CASE Has(a, i)
      <3>1. \E p : LearntIn(i, p) /\ (Learnt(i) = {} \/ Within(i, p))
        BY <1>5, <2>1, <2>3 DEF Placed, Settled
      <3>2. PICK p : LearntIn(i, p)' /\ (Learnt(i)' = {} \/ Within(i, p)')
        BY <1>3, <1>4, <3>1
      <3>3. \A x \in Learnt(i)' : Within(i, x)'
        BY <3>2 DEF LearntIn
      <3> QED
        BY <2>2, <2>3, <3>2, <3>3, OwnKept
    <2> QED
      BY <1>3, <2>2, <2>3, OtherKept
  <1> QED
    BY <1>2, <1>6, <1>7, <1>8 DEF Operations

\* An operation begins; a note that stays clean was in nobody else's hand.
LEMMA BeginKept ==
    ASSUME VaultTypeOK, NEW a \in Actors, NEW op \in Operations, Begin(a, op),
           UNCHANGED <<files, examples>>, NEW i \in Ids, Kept(i), Clean(i)',
           i \in InHand(op) /\ (\A p \in Learnt(i) : Within(i, p)) => Placed(op, i),
           \A p \in Projects, which \in {"route", "kind"} :
              DeletesIn(op, p) /\ <<which, i>> \in examples[p] => which \in op.infra,
           \A p \in Projects :
              RenamesFrom(op, p) => \A path \in Holders(i) : FolderOf(path) = p => i \in InHand(op)
    PROVE  Kept(i)'
  <1>1. /\ proc[a] = Nothing /\ proc' = [proc EXCEPT ![a] = op]
        /\ i \notin {j \in InHand(op) : \E b \in Actors : j \in InHand(proc[b])}
        /\ i \notin (IF \E other \in {proc[b] : b \in Actors} : OnProject(other) THEN AtStake(op) ELSE {})
        /\ i \notin (IF OnProject(op) THEN UNION {AtStake(other) : other \in {proc[b] : b \in Actors}} ELSE {})
    BY DEF Begin, Clean
  <1>2. op # Nothing
    BY OpShape
  <1>3. i \in InHand(op) => \A b \in Actors : ~Has(b, i) /\ ~OnProject(proc[b])
    BY <1>1 DEF Has, AtStake
  <1>4. OnProject(op) => \A b \in Actors : i \notin AtStake(proc[b])
    BY <1>1
  <1>5. OnProject(op) => \A b \in Actors : ~Has(b, i) /\ \A p \in Learnt(i) : ~Deletion(b, p)
    <2>1. ASSUME NEW b \in Actors, NEW p \in Learnt(i), Deletion(b, p)
          PROVE  i \in AtStake(proc[b])
      <3>1. \E log \in examples[p] : log[2] = i
        BY DEF Learnt
      <3> QED
        BY <2>1, <3>1 DEF Deletion, DeletesIn, AtStake, LeftBehind
    <2> QED
      BY <1>4, <2>1 DEF Has, AtStake
  <1>6. /\ proc'[a] = op
        /\ \A b \in Actors \ {a} :
              /\ proc'[b] = proc[b] /\ (Has(b, i)' <=> Has(b, i))
              /\ OnProject(proc'[b]) <=> OnProject(proc[b])
              /\ \A p : (Deletion(b, p)' <=> Deletion(b, p)) /\ (ARename(b, p)' <=> ARename(b, p))
    BY <1>1, OthersSame
  <1>7. /\ Has(a, i)' <=> i \in InHand(op)
        /\ \A p : (Deletion(a, p)' <=> DeletesIn(op, p)) /\ (ARename(a, p)' <=> RenamesFrom(op, p))
    BY <1>6, Unfold
  <1>8. ~Has(a, i) /\ \A p : ~Deletion(a, p) /\ ~ARename(a, p)
    BY <1>1 DEF Has, InHand, Deletion, DeletesIn, ARename, RenamesFrom
  <1>9. Learnt(i)' = Learnt(i) /\ Holders(i)' = Holders(i) /\ Fewer(i)
    BY SameLearnt DEF Holders
  <1>10. \A p : Within(i, p)' <=> Within(i, p)
    BY <1>9 DEF Within, FolderOf
  <1>11. OneHand(i)'
    BY <1>3, <1>6, <1>7 DEF Kept, OneHand
  <1>12. AloneInHand(i)'
    BY <1>3, <1>5, <1>6, <1>7 DEF Kept, AloneInHand
  <1>13. HandsPlaced(i)'
    <2>1. ASSUME NEW b \in Actors \ {a}, Has(b, i)'
          PROVE  IsPlaced(b, i)'
      <3>1. Has(b, i) /\ proc'[b] = proc[b]
        BY <1>6, <2>1
      <3>2. IsPlaced(b, i)
        BY <3>1 DEF Kept, HandsPlaced
      <3>3. PICK other : other = proc[b] /\ other = proc'[b]
        BY <3>1
      <3> QED
        BY <1>9, <3>2, <3>3, Unfold, FewerLearnt
    <2>2. ASSUME Has(a, i)'
          PROVE  IsPlaced(a, i)'
      <3>1. i \in InHand(op) /\ \A b \in Actors : ~Has(b, i) /\ ~OnProject(proc[b])
        BY <1>3, <1>7, <2>2
      <3>2. \A b \in Actors, p \in Learnt(i) : ~Deletion(b, p)
        BY <3>1 DEF Deletion, DeletesIn, OnProject
      <3>3. \A p \in Learnt(i) : Within(i, p)
        BY <3>1, <3>2 DEF Kept, LearntWhereFiled
      <3> QED
        BY <1>6, <1>9, <3>1, <3>3, Unfold, FewerLearnt
    <2> QED
      BY <2>1, <2>2 DEF HandsPlaced
  <1>14. LearntWhereFiled(i)'
    BY <1>6, <1>8, <1>9, <1>10 DEF Kept, LearntWhereFiled
  <1>15. DeletionForgets(i)'
    <2>1. ASSUME NEW b \in Actors, NEW p \in Projects, NEW which \in {"route", "kind"},
                 Deletion(b, p)', Has(b, i)' \/ Holders(i)' # {}, <<which, i>> \in examples'[p]
          PROVE  which \in proc'[b].infra
      <3>1. CASE b = a
        BY <1>6, <1>7, <2>1, <3>1
      <3>2. CASE b # a
        BY <1>6, <1>9, <2>1, <3>2 DEF Kept, DeletionForgets
      <3> QED
        BY <3>1, <3>2
    <2> QED
      BY <2>1 DEF DeletionForgets
  <1>16. RenameHasAll(i)'
    <2>1. ASSUME NEW b \in Actors, NEW p \in Projects, ARename(b, p)', Holders(i)' # {}, p \in Learnt(i)'
          PROVE  Has(b, i)'
      <3>1. CASE b = a
        <4>1. RenamesFrom(op, p)
          BY <1>7, <2>1, <3>1
        <4>2. OnProject(op)
          BY <1>2, <4>1 DEF RenamesFrom, OnProject
        <4>3. Within(i, p)
          BY <1>5, <1>9, <2>1, <4>2 DEF Kept, LearntWhereFiled
        <4>4. \E path \in Holders(i) : FolderOf(path) = p
          BY <1>9, <2>1, <4>3 DEF Within
        <4> QED
          BY <1>7, <3>1, <4>1, <4>4
      <3>2. CASE b # a
        BY <1>6, <1>9, <2>1, <3>2 DEF Kept, RenameHasAll
      <3> QED
        BY <3>1, <3>2
    <2> QED
      BY <2>1 DEF RenameHasAll
  <1>17. LearntOnce(i)'
    BY <1>9 DEF Kept, LearntOnce
  <1> QED
    BY <1>11, <1>12, <1>13, <1>14, <1>15, <1>16, <1>17 DEF Kept

LEMMA StartKept ==
    ASSUME VaultTypeOK, NEW a \in Actors, Starts(a), NEW i \in Ids, Kept(i), Clean(i)'
    PROVE  Kept(i)'
  <1> USE DEF history, stray
  <1>1. ASSUME NEW op \in NoteOps \cup FileOps, Begin(a, op), UNCHANGED <<files, examples>>,
               op.at = "found",
               op.note.id = i => op.path \in Holders(i) /\ (op.kind = "edit" \/ Holders(i) = {op.path})
        PROVE  Kept(i)'
    <2>1. op \in Operations /\ op # Nothing /\ ~OnProject(op)
          /\ (op \in NoteOps => op.kind \in {"edit", "category", "delete"})
          /\ (op \in FileOps => op.kind = "file")
      BY OpShape DEF Operations, OnProject, NoteOps, FileOps
    <2>2. /\ i \in InHand(op) => op.note.id = i
          /\ \A p : ~DeletesIn(op, p) /\ ~RenamesFrom(op, p)
      BY <2>1 DEF InHand, OnProject, DeletesIn, RenamesFrom
    <2>3. ASSUME i \in InHand(op), \A p \in Learnt(i) : Within(i, p)
          PROVE  Placed(op, i)
      <3>1. op.path \in Holders(i) /\ (op.kind = "edit" \/ Holders(i) = {op.path})
        BY <1>1, <2>2, <2>3
      <3>2. Settled(i, FolderOf(op.path))
        BY <2>3, <3>1 DEF Within, LearntIn, Settled, FolderOf
      <3>3. CASE op \in NoteOps
        BY <1>1, <2>1, <3>1, <3>2, <3>3 DEF Placed, Settled
      <3>4. CASE op \in FileOps
        BY <1>1, <2>1, <3>1, <3>2, <3>4 DEF Placed, Settled
      <3> QED
        BY <3>3, <3>4
    <2> QED
      BY <1>1, <2>1, <2>2, <2>3, BeginKept
  <1>2. ASSUME NEW j \in Ids, NEW path \in Holders(j)
        PROVE  path \in Paths /\ files[path] \in Contents /\ files[path].id = j
    BY <1>2 DEF Holders, VaultTypeOK
  <1>3. ASSUME NEW p \in Projects
        PROVE  /\ Scan(p) \in SUBSET Scanned
               /\ \A r \in Scan(p) : r.note.id = i => \E path \in Holders(i) : FolderOf(path) = p
               /\ \A path \in Holders(i) : FolderOf(path) = p => \E r \in Scan(p) : r.note.id = i
    <2>1. \A path \in NotesIn(p) : path \in Paths /\ files[path] \in Contents /\ files[path] # Nothing
                                   /\ FolderOf(path) = p
      BY DEF NotesIn, VaultTypeOK
    <2>2. \A r \in Scan(p) : r \in Scanned /\ r.path \in NotesIn(p) /\ r.note = files[r.path]
      BY <2>1 DEF Scan, Scanned
    <2>3. ASSUME NEW path \in Holders(i), FolderOf(path) = p
          PROVE  \E r \in Scan(p) : r.note.id = i
      <3>1. path \in NotesIn(p) /\ files[path].id = i
        BY <2>3 DEF NotesIn, Holders
      <3>2. [path |-> path, note |-> files[path]] \in Scan(p)
        BY <3>1 DEF Scan
      <3> QED
        BY <3>1, <3>2
    <2> QED
      BY <2>1, <2>2, <2>3 DEF Holders
  <1>4. ASSUME NEW j \in Ids, NEW kind \in {"edit", "category"}, FindForEdit(a, j, kind)
        PROVE  Kept(i)'
    <2>1. PICK path \in Holders(j) :
            /\ kind = "edit" \/ Holders(j) = {path}
            /\ Begin(a, [kind |-> kind, at |-> "found", path |-> path, note |-> files[path]])
      BY <1>4 DEF FindForEdit, Finds
    <2>2. PICK op : op = [kind |-> kind, at |-> "found", path |-> path, note |-> files[path]]
      OBVIOUS
    <2>3. op \in NoteOps /\ op.note.id = j /\ op.path = path
      BY <1>2, <2>2 DEF NoteOps
    <2>4. op.at = "found" /\ op.kind = kind
      BY <2>2
    <2> QED
      BY <1>1, <1>4, <2>1, <2>2, <2>3, <2>4 DEF FindForEdit
  <1>5. ASSUME NEW j \in Ids, FindForDelete(a, j)
        PROVE  Kept(i)'
    <2>1. PICK path \in Holders(j) :
            /\ Holders(j) = {path}
            /\ Begin(a, [kind |-> "delete", at |-> "found", path |-> path, note |-> files[path]])
      BY <1>5 DEF FindForDelete, Finds
    <2>2. PICK op : op = [kind |-> "delete", at |-> "found", path |-> path, note |-> files[path]]
      OBVIOUS
    <2>3. op \in NoteOps /\ op.note.id = j /\ op.path = path
      BY <1>2, <2>2 DEF NoteOps
    <2>4. op.at = "found"
      BY <2>2
    <2> QED
      BY <1>1, <1>5, <2>1, <2>2, <2>3, <2>4 DEF FindForDelete
  <1>6. ASSUME NEW j \in Ids, NEW p \in Projects, NEW create \in BOOLEAN, FindForFiling(a, j, p, create)
        PROVE  Kept(i)'
    <2>1. PICK path \in Holders(j) :
            /\ Holders(j) = {path}
            /\ Begin(a, [kind |-> "file", at |-> "found", path |-> path, new |-> path,
                         note |-> files[path], target |-> p])
      BY <1>6 DEF FindForFiling, Finds
    <2>2. PICK op : op = [kind |-> "file", at |-> "found", path |-> path, new |-> path,
                          note |-> files[path], target |-> p]
      OBVIOUS
    <2>3. op \in FileOps /\ op.at = "found" /\ op.note.id = j /\ op.path = path
      BY <1>2, <2>2 DEF FileOps
    <2> QED
      BY <1>1, <1>6, <2>1, <2>2, <2>3 DEF FindForFiling
  <1>7. ASSUME NEW p \in Projects, ScanForDelete(a, p)
        PROVE  Kept(i)'
    <2>1. PICK op : op = [kind |-> "delete project", at |-> "moving", project |-> p, todo |-> Scan(p),
                          infra |-> {log[1] : log \in examples[p]}, path |-> Nothing, new |-> Nothing]
      OBVIOUS
    <2>2. {log[1] : log \in examples[p]} \in SUBSET {"route", "kind"}
      BY DEF VaultTypeOK, Folders, Logs
    <2>3. op \in DeleteOps /\ op.kind = "delete project" /\ op.project = p /\ op.todo = Scan(p)
          /\ op.infra = {log[1] : log \in examples[p]}
      BY <1>3, <2>1, <2>2 DEF DeleteOps
    <2>4. op \in Operations /\ op # Nothing /\ OnProject(op) /\ \A q : ~RenamesFrom(op, q)
      BY <2>3, OpShape DEF Operations, OnProject, RenamesFrom
    <2>5. Begin(a, op) /\ UNCHANGED <<files, examples>>
      BY <1>7, <2>1 DEF ScanForDelete
    <2>6. ASSUME i \in InHand(op), \A x \in Learnt(i) : Within(i, x)
          PROVE  Placed(op, i)
      <3>1. \E r \in Scan(p) : r.note.id = i
        BY <2>3, <2>4, <2>6 DEF InHand
      <3>2. \E path \in Holders(i) : FolderOf(path) = p
        BY <1>3, <3>1
      <3>3. LearntIn(i, p)
        BY <2>6, <3>2 DEF Within, LearntIn
      <3> QED
        BY <2>3, <3>3 DEF Placed
    <2>7. \A q \in Projects, which \in {"route", "kind"} :
              DeletesIn(op, q) /\ <<which, i>> \in examples[q] => which \in op.infra
      <3> SUFFICES ASSUME NEW q \in Projects, NEW which \in {"route", "kind"},
                          DeletesIn(op, q), <<which, i>> \in examples[q]
                   PROVE  which \in op.infra
        OBVIOUS
      <3>1. <<which, i>>[1] = which /\ q = p
        BY <2>3 DEF DeletesIn
      <3> QED
        BY <2>3, <3>1
    <2> QED
      BY <2>4, <2>5, <2>6, <2>7, BeginKept
  <1>8. ASSUME NEW p \in Projects, NEW q \in Projects, ScanForRename(a, p, q)
        PROVE  Kept(i)'
    <2>1. PICK op : op = [kind |-> "rename project", at |-> "scanned", project |-> p, to |-> q,
                          todo |-> Scan(p), path |-> Nothing]
      OBVIOUS
    <2>2. op \in RenameOps /\ op.kind = "rename project" /\ op.at = "scanned" /\ op.project = p
          /\ op.todo = Scan(p)
      BY <1>3, <2>1 DEF RenameOps
    <2>3. op \in Operations /\ op # Nothing /\ OnProject(op) /\ \A x : ~DeletesIn(op, x)
      BY <2>2, OpShape DEF Operations, OnProject, DeletesIn
    <2>4. Begin(a, op) /\ UNCHANGED <<files, examples>>
      BY <1>8, <2>1 DEF ScanForRename
    <2>5. i \in InHand(op) <=> \E r \in Scan(p) : r.note.id = i
      BY <2>2, <2>3 DEF InHand
    <2>6. ASSUME i \in InHand(op), \A x \in Learnt(i) : Within(i, x)
          PROVE  Placed(op, i)
      <3>1. \E path \in Holders(i) : FolderOf(path) = p
        BY <1>3, <2>5, <2>6
      <3>2. LearntIn(i, p)
        BY <2>6, <3>1 DEF Within, LearntIn
      <3>3. Learnt(i) = {} \/ Within(i, p)
        BY <2>6, <3>2 DEF LearntIn
      <3> QED
        BY <2>2, <3>2, <3>3 DEF Placed, Settled
    <2>7. \A x \in Projects :
              RenamesFrom(op, x) => \A path \in Holders(i) : FolderOf(path) = x => i \in InHand(op)
      BY <1>3, <2>2, <2>5 DEF RenamesFrom
    <2> QED
      BY <2>3, <2>4, <2>6, <2>7, BeginKept
  <1> QED
    BY <1>4, <1>5, <1>6, <1>7, <1>8 DEF Starts

\* A note that is clean was clean before.
LEMMA CleanBefore ==
    ASSUME [Next]_vars, NEW i, Clean(i)'
    PROVE  Clean(i)
  <1> DEFINE Grow == cut \subseteq cut' /\ crossed \subseteq crossed' /\ swept \subseteq swept'
  <1> USE DEF history, meetings, stray
  <1>1. ASSUME NEW a, NEW op, Begin(a, op) PROVE crossed \subseteq crossed' /\ swept \subseteq swept'
    BY <1>1 DEF Begin
  <1>2. ASSUME NEW a \in Actors, Starts(a) PROVE Grow
    BY <1>1, <1>2 DEF Starts, FindForEdit, FindForDelete, FindForFiling, ScanForDelete, ScanForRename
  <1>3. ASSUME NEW a \in Actors, Steps(a) PROVE Grow
    BY <1>3 DEF Steps, SaveChecks, SaveEdit, SaveExample, DeleteNote, FileLinks, FileRewrites,
       FileUnlinks, FileClearsExamples, FileSavesExample, DeleteProjectLinks, DeleteProjectUnlinks,
       DeleteProjectRemoves, RenameMoves, RenameChecks, RenameRewrites, Unlink, TakeBack
  <1>4. ASSUME NEW a \in Actors, Dies(a) PROVE Grow
    BY <1>4 DEF Dies
  <1>5. ASSUME NEW p \in Projects, CreateProject(p) \/ DropOther(p) PROVE Grow
    BY <1>5 DEF CreateProject, DropOther
  <1>6. CASE UNCHANGED vars
    BY <1>6 DEF vars, Clean
  <1>7. Grow => Clean(i)
    BY DEF Clean
  <1> QED
    BY <1>2, <1>3, <1>4, <1>5, <1>6, <1>7 DEF Next

LEMMA KeptStep ==
    ASSUME ExampleInv, [Next]_vars, NEW i \in Ids, Clean(i)'
    PROVE  Kept(i)'
  <1>1. VaultTypeOK /\ Kept(i)
    BY CleanBefore DEF ExampleInv
  <1>2. ASSUME NEW a \in Actors, Starts(a) PROVE Kept(i)'
    BY <1>1, <1>2, StartKept
  <1>3. ASSUME NEW a \in Actors, Steps(a) PROVE Kept(i)'
    BY <1>1, <1>3, NoteStepKept, FilingKept, DeletionKept, RenameKept DEF Steps
  <1>4. ASSUME NEW a \in Actors, Dies(a) PROVE Kept(i)'
    BY <1>1, <1>4, DiesKept
  <1>5. ASSUME UNCHANGED <<files, examples, proc>> PROVE Kept(i)'
    <2>1. /\ Holders(i)' = Holders(i) /\ Learnt(i)' = Learnt(i) /\ Fewer(i)
          /\ \A p : Within(i, p)' <=> Within(i, p)
      BY <1>5, SameLearnt DEF Holders, Within, FolderOf
    <2>2. ASSUME NEW a \in Actors
          PROVE  /\ proc'[a] = proc[a] /\ (Has(a, i)' <=> Has(a, i)) /\ (IsPlaced(a, i) => IsPlaced(a, i)')
                 /\ \A p : (Deletion(a, p)' <=> Deletion(a, p)) /\ (ARename(a, p)' <=> ARename(a, p))
      <3>1. PICK op : op = proc[a] /\ op = proc'[a]
        BY <1>5
      <3> QED
        BY <2>1, <3>1, Unfold, FewerLearnt
    <2>3. OneHand(i)' /\ AloneInHand(i)'
      BY <1>1, <2>2 DEF Kept, OneHand, AloneInHand
    <2>4. HandsPlaced(i)' /\ LearntWhereFiled(i)'
      BY <1>1, <2>1, <2>2 DEF Kept, HandsPlaced, LearntWhereFiled
    <2>5. DeletionForgets(i)' /\ RenameHasAll(i)' /\ LearntOnce(i)'
      BY <1>1, <1>5, <2>1, <2>2 DEF Kept, DeletionForgets, RenameHasAll, LearntOnce
    <2> QED
      BY <2>3, <2>4, <2>5 DEF Kept
  <1>6. ASSUME NEW p \in Projects, CreateProject(p) \/ DropOther(p) PROVE Kept(i)'
    BY <1>5, <1>6 DEF CreateProject, DropOther
  <1>7. CASE UNCHANGED vars
    BY <1>5, <1>7 DEF vars
  <1> QED
    BY <1>2, <1>3, <1>4, <1>6, <1>7 DEF Next

LEMMA ExampleInvariant == Spec => []ExampleInv
  <1>1. ASSUME Init
        PROVE  ExampleInv
    <2>1. VaultTypeOK
      BY <1>1, InitTypes
    <2>2. \A a \in Actors : proc[a] = Nothing
      BY <1>1 DEF Init
    <2>3. \A i \in Ids, a \in Actors : \A p : ~Has(a, i) /\ ~Deletion(a, p) /\ ~ARename(a, p)
      BY <2>2 DEF Has, InHand, Deletion, DeletesIn, ARename, RenamesFrom
    <2>4. \A i : Learnt(i) = {}
      BY <1>1 DEF Init, Learnt, Folders
    <2>5. \A i \in Ids : Kept(i)
      BY <2>3, <2>4 DEF Kept, OneHand, AloneInHand, HandsPlaced, LearntWhereFiled, DeletionForgets,
                        RenameHasAll, LearntOnce
    <2> QED
      BY <2>1, <2>5 DEF ExampleInv
  <1>2. ASSUME ExampleInv, [Next]_vars
        PROVE  ExampleInv'
    <2>1. VaultTypeOK'
      BY <1>2, TypeStep DEF ExampleInv
    <2>2. ASSUME NEW i \in Ids, Clean(i)' PROVE Kept(i)'
      BY <1>2, <2>2, KeptStep
    <2> QED
      BY <2>1, <2>2 DEF ExampleInv
  <1> QED
    BY <1>1, <1>2, PTL DEF Spec

\* A correction is recorded in one project at most, unless two operations had
\* the note at once, a project it was in was deleted or renamed meanwhile, or a
\* move stopped halfway.
THEOREM OneExample == Spec => []OneExamplePerNote
  <1>1. ASSUME ExampleInv
        PROVE  OneExamplePerNote
    <2> SUFFICES ASSUME NEW i \in Ids \ (cut \cup crossed \cup swept), NEW which \in {"route", "kind"}
                 PROVE  Cardinality({p \in Projects : <<which, i>> \in examples[p]}) <= 1
      BY DEF OneExamplePerNote
    <2> DEFINE S == {p \in Projects : <<which, i>> \in examples[p]}
    <2>1. S \subseteq Learnt(i)
      BY DEF Learnt
    <2>2. \A p, q \in Learnt(i) : p = q
      BY <1>1 DEF ExampleInv, Clean, Kept, LearntOnce
    <2>3. CASE S = {}
      <3>1. Cardinality(S) = 0
        BY <2>3, FS_EmptySet
      <3> QED
        BY <3>1
    <2>4. CASE S # {}
      <3>1. PICK p : S = {p}
        BY <2>1, <2>2, <2>4
      <3>2. Cardinality(S) = 1
        BY <3>1, FS_Singleton
      <3> QED
        BY <3>2
    <2> QED
      BY <2>3, <2>4
  <1>2. ExampleInv => OneExamplePerNote
    BY <1>1
  <1> QED
    BY <1>2, ExampleInvariant, PTL

=============================================================================
