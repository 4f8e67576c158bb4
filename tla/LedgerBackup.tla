---------------------------- MODULE LedgerBackup ----------------------------
(***************************************************************************)
(* The ledger's backup in the vault (src-tauri/src/ledger_state.rs,        *)
(* kodabi-core/src/ledger/snapshot.rs and mod.rs,                          *)
(* kodabi-mcp/src/tools/update_action_item.rs).                            *)
(*                                                                         *)
(* Each project folder carries a file with its commitments.  The app's     *)
(* worker remembers in memory which files fell behind and rewrites them    *)
(* after a lull; the assistant's process writes the file of what it        *)
(* changed.  Files are read once, by a launch that finds the ledger empty. *)
(* Writes fail, folders are renamed or removed, processes die, the         *)
(* database is lost.                                                       *)
(***************************************************************************)
EXTENDS Naturals, FiniteSets

CONSTANTS
    Lines,        \* the notes' action items: one live commitment each
    LastProject,  \* projects are 1..LastProject, in the order of their slugs
    States,       \* what may have been judged of a commitment
    Open,         \* the state a commitment is minted in
    App,          \* the app's ledger worker
    Assistants,   \* calls of the assistant's tool, each a process of its own
    None,         \* no entry, no build
    Alien,        \* a file this build cannot read: a newer format, or broken
    MaxChanges,   \* bound: changes of the ledger and of the folders
    MaxFaults     \* bound: failed reads and writes, deaths

Projects == 1..LastProject
Processes == {App} \cup Assistants
Entries == [project : Projects, state : States]
Files == [Lines -> States \cup {None}]
Builds == [project : Projects, file : Files, crossed : BOOLEAN]

ASSUME BackupAssumption ==
    /\ LastProject \in Nat
    /\ Open \in States
    /\ App \notin Assistants
    /\ None \notin Entries \cup States \cup Builds \cup [Lines -> Entries \cup {None}]
    /\ Alien \notin Files
    /\ MaxChanges \in Nat /\ MaxFaults \in Nat

NoFile == [l \in Lines |-> None]

VARIABLES
    db,         \* the ledger: the live commitment of each line
    filed,      \* the project each line's note is filed in
    folders,    \* the projects that exist
    disk,       \* each project's snapshot
    dirty,      \* what each process knows to be behind
    pending,    \* the projects left of the flush each process is in
    built,      \* the snapshot each process has read and not yet renamed in
    at,         \* "down", "restoring", "idle" or "flushing"
    armed,      \* the worker has a deadline
    changes,    \* changes so far
    faults,     \* faults so far
    lapsed,     \* history: projects whose file fell behind with nobody to know
    lost        \* history: the ledger that was lost, until a launch

vars == <<db, filed, folders, disk, dirty, pending, built, at, armed, changes,
          faults, lapsed, lost>>
vault == <<filed, folders, disk>>
flushes == <<pending, built, at>>

BackupTypeOK ==
    /\ db \in [Lines -> Entries \cup {None}]
    /\ filed \in [Lines -> Projects]
    /\ folders \subseteq Projects
    /\ disk \in [Projects -> Files \cup {Alien}]
    /\ dirty \in [Processes -> SUBSET Projects]
    /\ pending \in [Processes -> SUBSET Projects]
    /\ built \in [Processes -> Builds \cup {None}]
    /\ at \in [Processes -> {"down", "restoring", "idle", "flushing"}]
    /\ armed \in BOOLEAN
    /\ changes \in 0..MaxChanges
    /\ faults \in 0..MaxFaults
    /\ lapsed \subseteq Projects
    /\ lost \in [Lines -> Entries \cup {None}] \cup {None}

\* A project's commitments as the file spells them: the folder names the project.
Serialized(p) ==
    [l \in Lines |-> IF db[l] # None /\ db[l].project = p THEN db[l].state ELSE None]

\* A mutant of Restored: what was judged of a commitment is forgotten.
RestoredOpen(l) ==
    LET holding == {p \in folders : disk[p] # Alien /\ disk[p][l] # None}
    IN  IF holding = {} THEN None
        ELSE [project |-> CHOOSE p \in holding : \A q \in holding : p <= q, state |-> Open]

\* The first project whose snapshot holds a line wins it.
Restored(l) ==
    LET holding == {p \in folders : disk[p] # Alien /\ disk[p][l] # None}
    IN  IF holding = {} THEN None
        ELSE LET p == CHOOSE p \in holding : \A q \in holding : p <= q
             IN  [project |-> p, state |-> disk[p][l]]

\* Projects whose snapshots both claim some line: a restore takes the first and
\* leaves the other as it is.
Duplicated ==
    {p \in folders : \E q \in folders \ {p}, l \in Lines :
        /\ disk[p] # Alien /\ disk[p][l] # None
        /\ disk[q] # Alien /\ disk[q][l] # None}

LedgerIsEmpty == \A l \in Lines : db[l] = None

Init ==
    /\ db = [l \in Lines |-> None]
    /\ filed \in [Lines -> Projects]
    /\ folders = Projects
    /\ disk \in [Projects -> {NoFile, Alien}]
    /\ dirty = [P \in Processes |-> {}]
    /\ pending = [P \in Processes |-> {}]
    /\ built = [P \in Processes |-> None]
    /\ at = [P \in Processes |-> IF P = App THEN "restoring" ELSE "down"]
    /\ armed = FALSE
    /\ changes = 0
    /\ faults = 0
    /\ lapsed = {p \in Projects : disk[p] = Alien}
    /\ lost = None

Change == changes < MaxChanges /\ changes' = changes + 1
Fault == faults < MaxFaults /\ faults' = faults + 1

-----------------------------------------------------------------------------
(* The worker's jobs.  Any job arms the deadline when something is behind.  *)

\* A commit of one process leaves the readings of the others behind.
Marks(P, S) ==
    /\ dirty' = [dirty EXCEPT ![P] = @ \cup S]
    /\ built' = [Q \in Processes |->
                    IF built[Q] # None /\ built[Q].project \in S
                    THEN [built[Q] EXCEPT !.crossed = TRUE]
                    ELSE built[Q]]

\* A mutant of WorkerWrote: only what newly fell behind sets a deadline.
ArmsForNews(S) ==
    /\ at[App] = "idle"
    /\ Marks(App, S)
    /\ armed' = (armed \/ ~(S \subseteq dirty[App]))
    /\ UNCHANGED <<vault, pending, at, faults, lapsed, lost>>

WorkerWrote(S) ==
    /\ at[App] = "idle"
    /\ Marks(App, S)
    /\ armed' = (dirty'[App] # {})
    /\ UNCHANGED <<vault, pending, at, faults, lapsed, lost>>

\* A note's line is enrolled, or its commitment follows the note.
Sync(l) ==
    /\ Change
    /\ \/ /\ db[l] = None
          /\ db' = [db EXCEPT ![l] = [project |-> filed[l], state |-> Open]]
          /\ WorkerWrote({filed[l]})
       \/ /\ db[l] # None
          /\ db[l].project # filed[l]
          /\ db' = [db EXCEPT ![l].project = filed[l]]
          /\ WorkerWrote({db[l].project, filed[l]})

Judge(l, s) ==
    /\ Change
    /\ db[l] # None
    /\ db[l].state # s
    /\ db' = [db EXCEPT ![l].state = s]
    /\ WorkerWrote({db[l].project})

\* A read, a sync that changes nothing: it only gives a failed write its retry.
OtherJob ==
    /\ ~armed
    /\ dirty[App] # {}
    /\ WorkerWrote({})
    /\ UNCHANGED <<db, changes>>

StartsFlush(P) ==
    /\ at' = [at EXCEPT ![P] = "flushing"]
    /\ pending' = [pending EXCEPT ![P] = dirty[P]]
    /\ UNCHANGED <<db, vault, dirty, built, changes, faults, lapsed, lost>>

\* The lull came, or the cap on waiting for one.
FlushDue ==
    /\ at[App] = "idle"
    /\ armed
    /\ StartsFlush(App)
    /\ UNCHANGED armed

\* Quit asks for a flush without waiting for the lull.
FlushAtQuit ==
    /\ at[App] = "idle"
    /\ StartsFlush(App)
    /\ UNCHANGED armed

-----------------------------------------------------------------------------
(* Writing one project's file.                                             *)

\* A flush takes the projects in the order of the dirty set.
Turn(P, p) ==
    /\ at[P] = "flushing"
    /\ built[P] = None
    /\ p \in pending[P]
    /\ \A q \in pending[P] : p <= q

Wrote(P, p, file) ==
    /\ disk' = [disk EXCEPT ![p] = file]
    /\ dirty' = [dirty EXCEPT ![P] = @ \ {p}]
    /\ pending' = [pending EXCEPT ![P] = @ \ {p}]
    /\ lapsed' = IF built[P] # None /\ built[P].crossed THEN lapsed \cup {p}
                 ELSE lapsed \ {p}
    /\ built' = [built EXCEPT ![P] = None]
    /\ UNCHANGED faults

\* A deleted folder is not conjured up again; the project counts as written.
Skipped(P, p) ==
    /\ dirty' = [dirty EXCEPT ![P] = @ \ {p}]
    /\ pending' = [pending EXCEPT ![P] = @ \ {p}]
    /\ lapsed' = lapsed \cup {p}
    /\ UNCHANGED <<disk, built, faults>>

\* A mutant of CouldNotWrite: the failed write is forgotten.
FailureForgotten(P, p) ==
    /\ pending' = [pending EXCEPT ![P] = @ \ {p}]
    /\ dirty' = [dirty EXCEPT ![P] = @ \ {p}]
    /\ built' = [built EXCEPT ![P] = None]
    /\ UNCHANGED <<disk, lapsed>>

\* The project stays dirty.
CouldNotWrite(P, p) ==
    /\ pending' = [pending EXCEPT ![P] = @ \ {p}]
    /\ built' = [built EXCEPT ![P] = None]
    /\ UNCHANGED <<disk, dirty, lapsed>>

\* The project's entries are read.  With none the file is removed; without the
\* folder there is nothing to write.
Build(P, p) ==
    /\ Turn(P, p)
    /\ LET file == Serialized(p)
       IN  \/ file = NoFile /\ (Wrote(P, p, NoFile) \/ (Fault /\ CouldNotWrite(P, p)))
           \/ file # NoFile /\ p \notin folders /\ Skipped(P, p)
           \/ /\ file # NoFile
              /\ p \in folders
              /\ built' = [built EXCEPT ![P] = [project |-> p, file |-> file, crossed |-> FALSE]]
              /\ UNCHANGED <<disk, dirty, pending, faults, lapsed>>
    /\ UNCHANGED <<db, filed, folders, at, armed, changes, lost>>

\* The scratch file takes the snapshot's name, in a folder that is still there.
Rename(P) ==
    /\ built[P] # None
    /\ LET p == built[P].project
       IN  \/ p \in folders /\ Wrote(P, p, built[P].file)
           \/ p \in folders /\ Fault /\ CouldNotWrite(P, p)
           \/ p \notin folders /\ CouldNotWrite(P, p) /\ UNCHANGED faults
    /\ UNCHANGED <<db, filed, folders, at, armed, changes, lost>>

\* After a failed write the deadline is gone: the next job sets another.
EndFlush ==
    /\ at[App] = "flushing"
    /\ pending[App] = {}
    /\ built[App] = None
    /\ at' = [at EXCEPT ![App] = "idle"]
    /\ armed' = FALSE
    /\ UNCHANGED <<db, vault, dirty, pending, built, changes, faults, lapsed, lost>>

-----------------------------------------------------------------------------
(* The assistant's process: one judgement, then its own flush.             *)

AssistantJudges(P, l, s) ==
    /\ Change
    /\ at[P] = "down"
    /\ db[l] # None
    /\ db[l].state # s
    /\ db' = [db EXCEPT ![l].state = s]
    /\ Marks(P, {db[l].project})
    /\ pending' = [pending EXCEPT ![P] = {db[l].project}]
    /\ at' = [at EXCEPT ![P] = "flushing"]
    /\ UNCHANGED <<vault, armed, faults, lapsed, lost>>

\* What it could not write it forgets: its handle's dirty set goes with the call.
AssistantReturns(P) ==
    /\ P \in Assistants
    /\ at[P] = "flushing"
    /\ pending[P] = {}
    /\ built[P] = None
    /\ at' = [at EXCEPT ![P] = "down"]
    /\ dirty' = [dirty EXCEPT ![P] = {}]
    /\ lapsed' = lapsed \cup dirty[P]
    /\ UNCHANGED <<db, vault, pending, built, armed, changes, faults, lost>>

-----------------------------------------------------------------------------
(* Processes and folders.                                                  *)

\* The dirty set dies with its process.
Dies(P) ==
    /\ Fault
    /\ dirty' = [dirty EXCEPT ![P] = {}]
    /\ pending' = [pending EXCEPT ![P] = {}]
    /\ built' = [built EXCEPT ![P] = None]
    /\ at' = [at EXCEPT ![P] = "down"]
    /\ armed' = (armed /\ P # App)
    /\ lapsed' = lapsed \cup dirty[P]
    /\ UNCHANGED <<vault, changes>>

Crash(P) ==
    /\ at[P] # "down"
    /\ Dies(P)
    /\ UNCHANGED <<db, lost>>

\* A new machine, a deleted config folder: the vault is what is left.
LoseLedger ==
    /\ at[App] \in {"idle", "flushing"}
    /\ \A P \in Assistants : at[P] = "down"
    /\ Dies(App)
    /\ lost' = db
    /\ db' = [l \in Lines |-> None]

Launch ==
    /\ at[App] = "down"
    /\ at' = [at EXCEPT ![App] = "restoring"]
    /\ UNCHANGED <<db, vault, dirty, pending, built, armed, changes, faults, lapsed, lost>>

\* The first job: snapshots fill an empty ledger, and are then taken as written.
Restore ==
    /\ at[App] = "restoring"
    /\ IF LedgerIsEmpty
       THEN /\ db' = [l \in Lines |-> Restored(l)]
            /\ dirty' = [dirty EXCEPT ![App] = {}]
            /\ lapsed' = lapsed \cup Duplicated
       ELSE UNCHANGED <<db, dirty, lapsed>>
    /\ at' = [at EXCEPT ![App] = "idle"]
    /\ lost' = None
    /\ UNCHANGED <<vault, pending, built, armed, changes, faults>>

\* One snapshot that cannot be read ends the restore with nothing restored; the
\* notes' lines are then enrolled afresh, over the snapshots.
RestoreFails ==
    /\ at[App] = "restoring"
    /\ LedgerIsEmpty
    /\ Fault
    /\ at' = [at EXCEPT ![App] = "idle"]
    /\ lost' = None
    /\ lapsed' = {p \in Projects : disk[p] # NoFile}
    /\ UNCHANGED <<db, vault, dirty, pending, built, armed, changes>>

\* The file moves with the folder; the notes are synced one by one later.
RenameProject(p, q) ==
    /\ Change
    /\ p \in folders
    /\ q \notin folders
    /\ folders' = (folders \ {p}) \cup {q}
    /\ disk' = [disk EXCEPT ![p] = NoFile, ![q] = disk[p]]
    /\ filed' = [l \in Lines |-> IF filed[l] = p THEN q ELSE filed[l]]
    /\ lapsed' = IF lost # None THEN {IF r = p THEN q ELSE r : r \in lapsed}
                               ELSE lapsed \cup {p, q}
    /\ UNCHANGED <<db, dirty, flushes, armed, faults, lost>>

\* A deleted project's notes go to another; its folder goes with its file.
DeleteProject(p, q) ==
    /\ Change
    /\ p \in folders
    /\ q \in folders \ {p}
    /\ folders' = folders \ {p}
    /\ disk' = [disk EXCEPT ![p] = NoFile]
    /\ filed' = [l \in Lines |-> IF filed[l] = p THEN q ELSE filed[l]]
    /\ lapsed' = lapsed \cup {p}
    /\ UNCHANGED <<db, dirty, flushes, armed, faults, lost>>

Refile(l, q) ==
    /\ Change
    /\ q \in folders
    /\ filed[l] # q
    /\ filed' = [filed EXCEPT ![l] = q]
    /\ UNCHANGED <<db, folders, disk, dirty, flushes, armed, faults, lapsed, lost>>

-----------------------------------------------------------------------------

Worker ==
    \/ \E l \in Lines : Sync(l) \/ \E s \in States : Judge(l, s)
    \/ OtherJob \/ FlushDue \/ FlushAtQuit \/ EndFlush \/ Restore \/ RestoreFails

Writing == \E P \in Processes : Rename(P) \/ \E p \in Projects : Build(P, p)

Assistant ==
    \E P \in Assistants :
        AssistantReturns(P) \/ \E l \in Lines, s \in States : AssistantJudges(P, l, s)

Surroundings ==
    \/ (\E P \in Processes : Crash(P)) \/ LoseLedger \/ Launch
    \/ \E p, q \in Projects : RenameProject(p, q) \/ DeleteProject(p, q)
    \/ \E l \in Lines, q \in Projects : Refile(l, q)

Next == Worker \/ Writing \/ Assistant \/ Surroundings

Spec == Init /\ [][Next]_vars

\* The worker's thread runs, deadlines pass, and a used app sends it jobs.
FairSpec ==
    /\ Spec
    /\ WF_vars(FlushDue)
    /\ WF_vars(Rename(App) \/ \E p \in Projects : Build(App, p))
    /\ WF_vars(EndFlush)
    /\ WF_vars(OtherJob)

-----------------------------------------------------------------------------
(* Properties.                                                             *)

Behind == UNION {dirty[P] : P \in Processes}

\* A project no process lists as behind has the snapshot of its commitments,
\* through failed writes, moves between projects and flushes cut short, but for
\* what a death, a folder's rename or two writers at once left behind (mod.rs:
\* dirty is the projects "whose `_ledger.yml` no longer matches the database").
UnlistedSnapshotsMatch ==
    lost = None => \A p \in folders \ (Behind \cup lapsed) : disk[p] = Serialized(p)

\* What the worker knows to be behind it writes in the end, after a failed write
\* too, though that leaves no deadline (ledger_state.rs: "without it the retry
\* would wait for some *other* project to be dirtied").
BehindIsWritten == \A p \in Projects : p \in dirty[App] ~> p \notin dirty[App]

\* A ledger lost while no snapshot was behind comes back with every judgement it
\* held, however the folders were renamed since (snapshot.rs: "back up the
\* vault").
LostLedgerComesBack ==
    [][(Restore /\ lost # None /\ lapsed = {}) =>
         \A l \in Lines : lost[l] # None =>
             db'[l] # None /\ db'[l].state = lost[l].state]_vars
=============================================================================
