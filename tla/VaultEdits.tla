----------------------------- MODULE VaultEdits ------------------------------
(***************************************************************************)
(* Changing notes and projects (kodabi-core/src/vault.rs, note.rs).        *)
(*                                                                         *)
(* The vault is a tree of files and nothing locks it.  The app's commands, *)
(* its ledger worker and the assistant's process each find a note, merge   *)
(* their change into what they read, look whether the file is still there  *)
(* and replace it some time later; filing a note moves its file by linking *)
(* a new name and removing the old; a project's deletion and rename work   *)
(* from a scan of its folder.  A name is free again once its file has      *)
(* moved, and two notes may want the same one.                             *)
(***************************************************************************)
EXTENDS Naturals, FiniteSets

CONSTANTS
    Actors,      \* threads and processes that change the vault
    Ids,         \* the notes' stable ids
    Projects,    \* project names
    Stem,        \* the file stem of each note's title; two may have one
    Inbox,       \* the sentinel
    Nothing,     \* no file, no operation
    Calls,       \* which operations actors call
    Extras,      \* whether notes may carry optional fields: no guard asks
    LastName,    \* bound: file names per stem and folder
    Budget       \* bound: operations begun, removals that fail, actors that die

Folders == Projects \cup {Inbox}
Stems == {Stem[i] : i \in Ids}
\* stem.md, stem-2.md: the first free name is taken.
Attempts == 1..LastName
Paths == Folders \X Stems \X Attempts
Logs == {"route", "kind"} \X Ids

ASSUME VaultAssumption ==
    /\ Inbox \notin Projects
    /\ Extras \subseteq BOOLEAN
    /\ IsFiniteSet(Actors) /\ IsFiniteSet(Ids) /\ IsFiniteSet(Projects)
    /\ LastName \in Nat \ {0} /\ Budget \in Nat

VARIABLES
    files,       \* the notes in the vault
    folders,     \* the project folders there are
    examples,    \* each folder's routing and category examples
    others,      \* folders that hold a file Kodabi does not manage
    proc,        \* each actor's operation
    removed,     \* history: notes someone asked to delete
    cut,         \* history: notes whose move, or project's deletion, stopped halfway
                 \* or whose new name could not be removed again
    overrun,     \* history: notes whose file an operation on another note replaced
                 \* or removed
    strayed,     \* history: notes an operation wrote or moved under a name that was
                 \* no longer theirs
    crossed,     \* history: notes two operations had in hand at once
    swept,       \* history: notes at stake while a project was deleted or renamed
    spent        \* of the budget so far

vars == <<files, folders, examples, others, proc, removed, cut, overrun, strayed,
          crossed, swept, spent>>
history == <<removed, cut>>
stray == <<overrun, strayed>>
meetings == <<crossed, swept>>

\* A file: whose note it is, the project its frontmatter names, and whether it
\* carries the optional fields (title, category, tracking).
Contents == [id : Ids, project : Folders, extra : BOOLEAN]

\* What a scan of a folder found, and what an actor has in hand.
Scanned == [path : Paths, note : Contents]
NoteOps == [kind : {"edit", "category", "delete"}, at : {"found", "checked", "saved"},
            path : Paths, note : Contents]
FileOps == [kind : {"file"}, at : {"found", "checked", "linked", "moved", "cleared"}, path : Paths,
            new : Paths, note : Contents, target : Projects]
DeleteOps ==
    {op \in [kind : {"delete project"}, at : {"moving", "linked"}, project : Projects,
             todo : SUBSET Scanned, infra : SUBSET {"route", "kind"},
             path : Paths \cup {Nothing}, new : Paths \cup {Nothing}] :
        op.at = "linked" => {op.path, op.new} \subseteq Paths}
RenameOps == [kind : {"rename project"}, at : {"scanned", "moved", "checked"},
              project : Projects, to : Projects, todo : SUBSET Scanned,
              path : Paths \cup {Nothing}]
Operations == NoteOps \cup FileOps \cup DeleteOps \cup RenameOps

ASSUME NothingAssumption == Nothing \notin Contents \cup Operations \cup Paths

FolderOf(path) == path[1]
Holders(i) == {path \in Paths : files[path] # Nothing /\ files[path].id = i}
NotesIn(p) == {path \in Paths : FolderOf(path) = p /\ files[path] # Nothing}

VaultTypeOK ==
    /\ files \in [Paths -> Contents \cup {Nothing}]
    /\ folders \subseteq Projects
    /\ examples \in [Folders -> SUBSET Logs]
    /\ others \subseteq folders
    /\ proc \in [Actors -> Operations \cup {Nothing}]
    /\ removed \subseteq Ids /\ cut \subseteq Ids /\ overrun \subseteq Ids
    /\ strayed \subseteq Ids /\ crossed \subseteq Ids /\ swept \subseteq Ids
    /\ spent \in 0..Budget
    /\ \A path \in Paths : files[path] # Nothing => FolderOf(path) \in folders \cup {Inbox}

-----------------------------------------------------------------------------
(* Finding and writing.                                                    *)

\* The notes an actor's operation has read and not yet written.
OnProject(op) == op # Nothing /\ op.kind \in {"delete project", "rename project"}
InHand(op) ==
    IF op = Nothing THEN {}
    ELSE IF OnProject(op) THEN {r.note.id : r \in op.todo}
    ELSE {op.note.id}

\* A deletion that stops halfway leaves the examples of the notes it moved.
LeftBehind(op) ==
    IF op # Nothing /\ op.kind = "delete project"
    THEN {i \in Ids : \E log \in examples[op.project] : log[2] = i} ELSE {}

AtStake(op) == InHand(op) \cup LeftBehind(op)

Spend == spent < Budget /\ spent' = spent + 1

Begin(a, op) ==
    /\ proc[a] = Nothing
    /\ op.kind \in Calls
    /\ Spend
    /\ proc' = [proc EXCEPT ![a] = op]
    /\ crossed' = crossed \cup {i \in InHand(op) : \E b \in Actors : i \in InHand(proc[b])}
    /\ LET rest == {proc[b] : b \in Actors} IN
        swept' = swept
            \cup (IF \E other \in rest : OnProject(other) THEN AtStake(op) ELSE {})
            \cup (IF OnProject(op) THEN UNION {AtStake(other) : other \in rest} ELSE {})

Proceed(a, op) == proc' = [proc EXCEPT ![a] = op]
Done(a) == Proceed(a, Nothing)

\* An id two files claim is an error and nothing is done: find_note looks in
\* one project, find_note_anywhere in all of the vault.
FindsIn(i, path) == Holders(i) \cap NotesIn(FolderOf(path)) = {path}
Finds(i, path) == Holders(i) = {path}

There(path) == files[path] # Nothing
HoldsNote(path, i) == There(path) /\ files[path].id = i

\* An operation on i replaces or removes the file of that name, whosever it is.
Overruns(path, i) ==
    overrun' = IF There(path) THEN overrun \cup ({files[path].id} \ {i}) ELSE overrun
Touches(path, i) ==
    /\ Overruns(path, i)
    /\ strayed' = IF HoldsNote(path, i) THEN strayed ELSE strayed \cup {i}

\* The second half of save_note_at.  The first looks whether the file is there;
\* this one puts the new text in a file beside it, which takes the folder, and
\* renames that to the name, which takes no file of that name.
CanStage(path) == FolderOf(path) \in folders \cup {Inbox}
Replace(path, note) ==
    /\ files' = [files EXCEPT ![path] = note]
    /\ Touches(path, note.id)

FreeNames(p, stem) == {n \in Attempts : files[<<p, stem, n>>] = Nothing}
FreePath(p, stem) ==
    <<p, stem, CHOOSE n \in FreeNames(p, stem) : \A m \in FreeNames(p, stem) : n <= m>>

-----------------------------------------------------------------------------
(* Edits: save_note_edit, which looks in one project, and                  *)
(* set_action_item_done, insert_annotation and set_note_tracking, which    *)
(* look everywhere, write one note; set_note_category also records an      *)
(* example in the folder the note was found in.                            *)

FindForEdit(a, i, kind) ==
    /\ \E path \in Holders(i) :
        /\ IF kind = "edit" THEN FindsIn(i, path) ELSE Finds(i, path)
        /\ Begin(a, [kind |-> kind, at |-> "found", path |-> path, note |-> files[path]])
    /\ UNCHANGED <<files, folders, examples, others, history, stray>>

Editing(a, at) ==
    proc[a] # Nothing /\ proc[a].kind \in {"edit", "category"} /\ proc[a].at = at

\* A file that is gone is not written.
SaveChecks(a) ==
    /\ Editing(a, "found")
    /\ IF There(proc[a].path) THEN Proceed(a, [proc[a] EXCEPT !.at = "checked"]) ELSE Done(a)
    /\ UNCHANGED <<files, folders, examples, others, history, stray, meetings, spent>>

SaveEdit(a) ==
    /\ Editing(a, "checked")
    /\ LET op == proc[a] IN
        IF ~CanStage(op.path) THEN Done(a) /\ UNCHANGED <<files, stray>>
        ELSE /\ \E extra \in {op.note.extra} \cup (Extras \ {FALSE}) :
                  Replace(op.path, [op.note EXCEPT !.extra = extra])
             /\ IF op.kind = "category" /\ FolderOf(op.path) # Inbox
                THEN Proceed(a, [op EXCEPT !.at = "saved"])
                ELSE Done(a)
    /\ UNCHANGED <<folders, examples, others, history, meetings, spent>>

SaveExample(a) ==
    /\ Editing(a, "saved")
    /\ LET p == FolderOf(proc[a].path) IN
        examples' = IF p \in folders
                    THEN [examples EXCEPT ![p] = @ \cup {<<"kind", proc[a].note.id>>}]
                    ELSE examples
    /\ Done(a)
    /\ UNCHANGED <<files, folders, others, history, stray, meetings, spent>>

-----------------------------------------------------------------------------
(* Moves: relocate_note_file links the new name, then removes the old one; *)
(* when the removal fails the new name is removed again, if that works.    *)

Link(a, op, p, note) ==
    LET path == FreePath(p, op.path[2])
    IN  /\ FreeNames(p, op.path[2]) # {}
        /\ files' = [files EXCEPT ![path] = note]
        /\ Proceed(a, [op EXCEPT !.at = "linked", !.new = path])

Unlinked(op) == [files EXCEPT ![op.path] = Nothing]
\* A mutant of RolledBack: a failed move leaves the new name.
KeepsBoth(op) == files
RolledBack(op) == [files EXCEPT ![op.new] = Nothing]

\* Somebody else removed the old file, or the removal fails.
RemovalFails(op) ==
    \/ files[op.path] = Nothing /\ UNCHANGED spent
    \/ files[op.path] # Nothing /\ Spend

RemovalWorks(op) == files[op.path] # Nothing /\ UNCHANGED spent

\* The note a move has linked, and not yet taken from the old folder's examples.
InMove(op) ==
    IF op = Nothing THEN {}
    ELSE IF op.kind = "file" /\ op.at \in {"linked", "moved"} THEN {op.note.id}
    ELSE IF op.kind = "delete project" /\ op.at = "linked"
    THEN {r.note.id : r \in {t \in op.todo : t.path = op.path}}
    ELSE {}

\* The file that has the old name goes.
Unlink(op, i) ==
    /\ RemovalWorks(op)
    /\ files' = Unlinked(op)
    /\ Touches(op.path, i)
    /\ UNCHANGED cut

\* The file that has the new name goes, or both names stay.
TakeBack(op, i) ==
    /\ RemovalFails(op)
    /\ \/ /\ files' = RolledBack(op) /\ Touches(op.new, i)
          /\ cut' = cut \cup LeftBehind(op)
       \/ /\ There(op.new) /\ UNCHANGED <<files, stray>>
          /\ cut' = cut \cup LeftBehind(op) \cup {i}

-----------------------------------------------------------------------------
(* file_note_to_project.                                                   *)

\* A target that is not there needs create_project.
FindForFiling(a, i, target, create) ==
    /\ target \in folders \/ create
    /\ \E path \in Holders(i) :
        /\ Finds(i, path)
        /\ Begin(a, [kind |-> "file", at |-> "found", path |-> path, new |-> path,
                     note |-> files[path], target |-> target])
    /\ UNCHANGED <<files, folders, examples, others, history, stray>>

Filing(a, at) == proc[a] # Nothing /\ proc[a].kind = "file" /\ proc[a].at = at

\* A note already in the project is rewritten where it is.
FileLinks(a) ==
    /\ Filing(a, "found")
    /\ LET op == proc[a]
           note == [op.note EXCEPT !.project = op.target]
       IN  IF FolderOf(op.path) = op.target
           THEN /\ IF There(op.path) THEN Proceed(a, [op EXCEPT !.at = "checked"]) ELSE Done(a)
                /\ UNCHANGED <<files, folders>>
           ELSE /\ Link(a, op, op.target, note)
                /\ folders' = folders \cup {op.target}
    /\ UNCHANGED <<examples, others, history, stray, meetings, spent>>

FileRewrites(a) ==
    /\ Filing(a, "checked")
    /\ LET op == proc[a] IN
        IF CanStage(op.path)
        THEN /\ Replace(op.path, [op.note EXCEPT !.project = op.target])
             /\ Proceed(a, [op EXCEPT !.at = "cleared"])
        ELSE Done(a) /\ UNCHANGED <<files, stray>>
    /\ UNCHANGED <<folders, examples, others, history, meetings, spent>>

FileUnlinks(a) ==
    /\ Filing(a, "linked")
    /\ LET op == proc[a] IN
        \/ Unlink(op, op.note.id) /\ Proceed(a, [op EXCEPT !.at = "moved"])
        \/ TakeBack(op, op.note.id) /\ Done(a)
    /\ UNCHANGED <<folders, examples, others, removed, meetings>>

\* A mutant of FileClearsExamples: the old project keeps what it learnt.
KeepsExamples(a) ==
    /\ Filing(a, "moved")
    /\ Proceed(a, [proc[a] EXCEPT !.at = "cleared"])
    /\ UNCHANGED <<files, folders, examples, others, history, stray, meetings, spent>>

\* The old project forgets the note before the new one learns of it.
FileClearsExamples(a) ==
    /\ Filing(a, "moved")
    /\ LET op == proc[a]
           p == FolderOf(op.path)
       IN  /\ examples' = IF p = Inbox THEN examples
                          ELSE [examples EXCEPT ![p] = @ \ ({"route", "kind"} \X {op.note.id})]
           /\ Proceed(a, [op EXCEPT !.at = "cleared"])
    /\ UNCHANGED <<files, folders, others, history, stray, meetings, spent>>

FileSavesExample(a) ==
    /\ Filing(a, "cleared")
    /\ LET op == proc[a] IN
        examples' = IF op.target \in folders
                    THEN [examples EXCEPT ![op.target] = @ \cup {<<"route", op.note.id>>}]
                    ELSE examples
    /\ Done(a)
    /\ UNCHANGED <<files, folders, others, history, stray, meetings, spent>>

-----------------------------------------------------------------------------
(* delete_note.                                                            *)

FindForDelete(a, i) ==
    /\ \E path \in Holders(i) :
        /\ Finds(i, path)
        /\ Begin(a, [kind |-> "delete", at |-> "found", path |-> path, note |-> files[path]])
    /\ removed' = removed \cup {i}
    /\ UNCHANGED <<files, folders, examples, others, cut, stray>>

\* A file that is no longer there is taken for deleted.
DeleteNote(a) ==
    /\ proc[a] # Nothing /\ proc[a].kind = "delete"
    /\ files' = [files EXCEPT ![proc[a].path] = Nothing]
    /\ Overruns(proc[a].path, proc[a].note.id)
    /\ Done(a)
    /\ UNCHANGED <<folders, examples, others, history, strayed, meetings, spent>>

-----------------------------------------------------------------------------
(* Projects.                                                               *)

CreateProject(p) ==
    /\ "create project" \in Calls
    /\ p \notin folders
    /\ Spend
    /\ folders' = folders \cup {p}
    /\ UNCHANGED <<files, examples, others, proc, history, stray, meetings>>

\* The user drops a file of another kind into a folder, or takes it out.
DropOther(p) ==
    /\ p \in folders
    /\ Spend
    /\ others' = IF p \in others THEN others \ {p} ELSE others \cup {p}
    /\ UNCHANGED <<files, folders, examples, proc, history, stray, meetings>>

Scan(p) == {[path |-> path, note |-> files[path]] : path \in NotesIn(p)}

\* delete_project refuses a folder that holds anything it does not manage.
ScanForDelete(a, p) ==
    /\ p \in folders
    /\ p \notin others
    /\ Begin(a, [kind |-> "delete project", at |-> "moving", project |-> p, todo |-> Scan(p),
                 infra |-> {log[1] : log \in examples[p]}, path |-> Nothing, new |-> Nothing])
    /\ UNCHANGED <<files, folders, examples, others, history, stray>>

Deleting(a, at) == proc[a] # Nothing /\ proc[a].kind = "delete project" /\ proc[a].at = at

\* A note is rebuilt from the fields Note::new takes: the optional ones are gone.
DeleteProjectLinks(a) ==
    /\ Deleting(a, "moving")
    /\ \E r \in proc[a].todo :
        Link(a, [proc[a] EXCEPT !.path = r.path], Inbox,
             [id |-> r.note.id, project |-> Inbox, extra |-> FALSE])
    /\ UNCHANGED <<folders, examples, others, history, stray, meetings, spent>>

DeleteProjectUnlinks(a) ==
    /\ Deleting(a, "linked")
    /\ \E i \in InMove(proc[a]) : LET op == proc[a] IN
        \/ Unlink(op, i) /\ Proceed(a, [op EXCEPT !.at = "moving",
                                               !.todo = {r \in @ : r.path # op.path}])
        \/ TakeBack(op, i) /\ Done(a)
    /\ UNCHANGED <<folders, examples, others, removed, meetings>>

\* A mutant of DeleteProjectRemoves: the folder goes with what it holds by now.
RemovesTree(a) ==
    /\ Deleting(a, "moving")
    /\ proc[a].todo = {}
    /\ LET p == proc[a].project
       IN  /\ examples' = [examples EXCEPT ![p] = {}]
           /\ files' = [path \in Paths |-> IF FolderOf(path) = p THEN Nothing ELSE files[path]]
           /\ folders' = folders \ {p}
           /\ others' = others \ {p}
    /\ Done(a)
    /\ UNCHANGED <<history, stray, meetings, spent>>

\* The files Kodabi put there go, then the folder, if it is empty by now.
DeleteProjectRemoves(a) ==
    /\ Deleting(a, "moving")
    /\ proc[a].todo = {}
    /\ LET p == proc[a].project
           left == {log \in examples[p] : log[1] \notin proc[a].infra}
       IN  /\ examples' = [examples EXCEPT ![p] = left]
           /\ folders' = IF NotesIn(p) = {} /\ p \notin others /\ left = {}
                         THEN folders \ {p} ELSE folders
    /\ Done(a)
    /\ UNCHANGED <<files, others, history, stray, meetings, spent>>

ScanForRename(a, p, q) ==
    /\ p \in folders
    /\ q \notin folders
    /\ Begin(a, [kind |-> "rename project", at |-> "scanned", project |-> p, to |-> q,
                 todo |-> Scan(p), path |-> Nothing])
    /\ UNCHANGED <<files, folders, examples, others, history, stray>>

Renaming(a, at) == proc[a] # Nothing /\ proc[a].kind = "rename project" /\ proc[a].at = at

InFolder(path, p) == <<p, path[2], path[3]>>

\* The folder moves with all that is in it by now, or nothing does.
RenameMoves(a) ==
    /\ Renaming(a, "scanned")
    /\ LET p == proc[a].project
           q == proc[a].to
       IN  IF p \notin folders \/ q \in folders
           THEN Done(a) /\ UNCHANGED <<files, folders, examples, others>>
           ELSE /\ files' = [path \in Paths |->
                       IF FolderOf(path) = q THEN files[InFolder(path, p)]
                       ELSE IF FolderOf(path) = p THEN Nothing ELSE files[path]]
                /\ examples' = [examples EXCEPT ![q] = examples[p], ![p] = {}]
                /\ folders' = (folders \ {p}) \cup {q}
                /\ others' = IF p \in others THEN (others \ {p}) \cup {q} ELSE others
                /\ Proceed(a, [proc[a] EXCEPT !.at = "moved"])
    /\ UNCHANGED <<history, stray, meetings, spent>>

\* Each note of the scan that was filed under the old name is written at its new
\* place, as it was scanned; one whose file is gone is passed over.
RenameChecks(a) ==
    /\ Renaming(a, "moved")
    /\ LET op == proc[a] IN
        IF op.todo = {} THEN Done(a)
        ELSE \E r \in op.todo :
            Proceed(a, IF r.note.project = op.project /\ There(InFolder(r.path, op.to))
                       THEN [op EXCEPT !.at = "checked", !.path = r.path]
                       ELSE [op EXCEPT !.todo = @ \ {r}])
    /\ UNCHANGED <<files, folders, examples, others, history, stray, meetings, spent>>

RenameRewrites(a) ==
    /\ Renaming(a, "checked")
    /\ \E r \in proc[a].todo : LET op == proc[a] IN
        /\ r.path = op.path
        /\ IF CanStage(InFolder(r.path, op.to))
           THEN Replace(InFolder(r.path, op.to), [r.note EXCEPT !.project = op.to])
           ELSE UNCHANGED <<files, stray>>
        /\ Proceed(a, [op EXCEPT !.at = "moved", !.todo = @ \ {r}])
    /\ UNCHANGED <<folders, examples, others, history, meetings, spent>>

-----------------------------------------------------------------------------
\* An actor dies: a move in progress leaves both names.
Dies(a) ==
    /\ proc[a] # Nothing
    /\ Spend
    /\ cut' = cut \cup InMove(proc[a]) \cup LeftBehind(proc[a])
    /\ Done(a)
    /\ UNCHANGED <<files, folders, examples, others, removed, stray, meetings>>

\* Each note under its title's stem, or numbered.
Init ==
    /\ \E home \in [Ids -> Folders], n \in [Ids -> Attempts], extra \in [Ids -> Extras] :
        /\ files = [path \in Paths |->
               IF \E i \in Ids : path = <<home[i], Stem[i], n[i]>>
               THEN LET i == CHOOSE i \in Ids : path = <<home[i], Stem[i], n[i]>>
                    IN  [id |-> i, project |-> home[i], extra |-> extra[i]]
               ELSE Nothing]
        /\ \A i, j \in Ids : <<home[i], Stem[i], n[i]>> = <<home[j], Stem[j], n[j]>> => i = j
        /\ folders = {home[i] : i \in Ids} \ {Inbox}
    /\ examples = [p \in Folders |-> {}]
    /\ others = {}
    /\ proc = [a \in Actors |-> Nothing]
    /\ removed = {} /\ cut = {} /\ overrun = {} /\ strayed = {} /\ crossed = {} /\ swept = {}
    /\ spent = 0

Starts(a) ==
    \/ \E i \in Ids : \/ FindForEdit(a, i, "edit") \/ FindForEdit(a, i, "category")
                      \/ FindForDelete(a, i)
                      \/ \E p \in Projects, create \in BOOLEAN : FindForFiling(a, i, p, create)
    \/ \E p \in Projects : ScanForDelete(a, p) \/ \E q \in Projects : ScanForRename(a, p, q)

Steps(a) ==
    \/ SaveChecks(a) \/ SaveEdit(a) \/ SaveExample(a) \/ DeleteNote(a)
    \/ FileLinks(a) \/ FileRewrites(a) \/ FileUnlinks(a)
    \/ FileClearsExamples(a) \/ FileSavesExample(a)
    \/ DeleteProjectLinks(a) \/ DeleteProjectUnlinks(a) \/ DeleteProjectRemoves(a)
    \/ RenameMoves(a) \/ RenameChecks(a) \/ RenameRewrites(a)

Next ==
    \/ \E a \in Actors : Starts(a) \/ Steps(a) \/ Dies(a)
    \/ \E p \in Projects : CreateProject(p) \/ DropOther(p)

Spec == Init /\ [][Next]_vars

-----------------------------------------------------------------------------
(* What holds though nothing is locked.                                    *)

\* However edits, moves, project deletions and renames cross, fail or die, a
\* note nobody asked to delete keeps a file, unless an operation on another note
\* that had found a name before came back to it when it was this note's
\* (save_note_at, delete_note, relocate_note_file: they keep the path they found).
NoNoteIsLost == \A i \in Ids \ (removed \cup overrun) : Holders(i) # {}

\* No two files claim one id, but during a move, after one that was cut short or
\* whose new name could not be removed again, or after an operation wrote or moved
\* the note under a name it no longer had (relocate_note_file: "so the vault never
\* ends with two files claiming one id"; save_note_at: a file that moved meanwhile
\* is an error "rather than re-creating it").
OneFilePerNote ==
    \A i \in Ids \ (cut \cup strayed) :
        Cardinality(Holders(i)) <= 1 \/ \E a \in Actors : i \in InMove(proc[a])

\* A correction is recorded in one project at most, unless two operations had
\* the note at once (file_note_to_project: "rather than one in two logs at once").
OneExamplePerNote ==
    \A i \in Ids \ (cut \cup crossed \cup swept), which \in {"route", "kind"} :
        Cardinality({p \in Projects : <<which, i>> \in examples[p]}) <= 1

\* A note a project's deletion moves keeps its optional fields.
MovedNotesKeepEveryField ==
    [][\A path \in Paths :
          (files[path] # Nothing /\ files[path].extra)
              => \A new \in Paths :
                    (files[new] = Nothing /\ files'[new] # Nothing
                       /\ files'[new].id = files[path].id)
                        => files'[new].extra]_vars
=============================================================================
