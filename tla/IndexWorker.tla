----------------------------- MODULE IndexWorker -----------------------------
(***************************************************************************)
(* The note index and what the ledger hears of it                          *)
(* (src-tauri/src/index_state.rs, kodabi-core/src/reconcile.rs, watch.rs). *)
(*                                                                         *)
(* The vault's files are the truth; rows are derived from them by one      *)
(* worker serving a queue: single notes the app just wrote or deleted,     *)
(* whole passes over the vault, rebuilds.  A watcher turns a burst of      *)
(* file events into one pass.  Every row the worker changes it reports to  *)
(* the ledger through a second queue.  Files change under a pass; passes   *)
(* fail halfway; the app dies with both queues in memory.                  *)
(***************************************************************************)
EXTENDS Naturals, Sequences, FiniteSets

CONSTANTS
    Ids,         \* the notes' stable ids
    LastPath,    \* files are 1..LastPath, in the order a pass walks them
    Versions,    \* what a note's text may be
    Recent,      \* ids whose notes are inside the enrolment window
    Writers,     \* the app's threads that write notes
    Nothing,     \* no file, no row, no job
    Torn,        \* a file that does not parse: half written, or corrupt
    Never,       \* the ledger was never told of the note
    Gone,        \* the ledger was told the note is gone
    Faults,      \* which of "crash", "io", "folder" and "lost ledger" may happen
    MaxEdits,    \* bound: changes of the vault
    MaxFaults,   \* bound: faults
    MaxQueue     \* bound: jobs waiting for the worker

Paths == 1..LastPath
NoteFiles == [id : Ids, ver : Versions]
Rows == [path : Paths, ver : Versions]

ASSUME IndexAssumption ==
    /\ LastPath \in Nat /\ MaxEdits \in Nat /\ MaxFaults \in Nat
    /\ Recent \subseteq Ids
    /\ Nothing \notin NoteFiles \cup Rows
    /\ Torn \notin NoteFiles
    /\ Torn # Nothing
    /\ Never \notin Versions
    /\ Gone \notin Versions
    /\ Never # Gone

VARIABLES
    files,       \* the vault
    noticed,     \* the watcher holds a burst it has not fired
    cmd,         \* the job each writer owes: its disk write is done
    queue,       \* the worker's jobs
    scan,        \* the pass under way
    rows,        \* the index
    bare,        \* rows written before the index kept action items
    told,        \* batches on their way to the ledger
    heard,       \* the ledger's last word of each note
    owesSeed,    \* the ledger came up empty and was not seeded yet
    app,         \* "down", "starting" (not watching yet) or "up"
    edits,       \* changes of the vault so far
    faults,      \* faults so far
    missed,      \* history: the vault changed with no pass left to see it
    unheard      \* history: notes whose row changed and no batch says so

vars == <<files, noticed, cmd, queue, scan, rows, bare, told, heard, owesSeed,
          app, edits, faults, missed, unheard>>
index == <<rows, bare>>
ledger == <<told, heard, owesSeed, unheard>>

NoteJob(i, p, v, late) == [kind |-> "note", id |-> i, path |-> p, ver |-> v, late |-> late]
DeleteJob(i, late) == [kind |-> "delete", id |-> i, late |-> late]
ReconcileJob == [kind |-> "reconcile"]
RebuildJob == [kind |-> "rebuild"]

Jobs == [kind : {"note"}, id : Ids, path : Paths, ver : Versions, late : BOOLEAN]
        \cup [kind : {"delete"}, id : Ids, late : BOOLEAN]
        \cup {ReconcileJob, RebuildJob}

\* A pass: the next file, the ids and files it has read, the notes it wrote.
Scans == [at : 1..LastPath + 1, seen : SUBSET Ids, parsed : SUBSET Paths,
          changed : SUBSET Ids, kind : {"reconcile", "rebuild"}]

ASSUME NothingAssumption == Nothing \notin Jobs \cup Scans

Words == Versions \cup {Never, Gone}
Batches == UNION {[S -> Words] : S \in SUBSET Ids}

IndexTypeOK ==
    /\ files \in [Paths -> NoteFiles \cup {Nothing, Torn}]
    /\ noticed \in BOOLEAN
    /\ cmd \in [Writers -> Jobs \cup {Nothing}]
    /\ queue \in Seq(Jobs)
    /\ scan \in Scans \cup {Nothing}
    /\ rows \in [Ids -> Rows \cup {Nothing}]
    /\ bare \subseteq Ids
    /\ told \in Seq(Batches)
    /\ heard \in [Ids -> Words]
    /\ owesSeed \in BOOLEAN
    /\ app \in {"down", "starting", "up"}
    /\ edits \in 0..MaxEdits
    /\ faults \in 0..MaxFaults
    /\ missed \in BOOLEAN
    /\ unheard \subseteq Ids

-----------------------------------------------------------------------------
(* What the index should say of a vault, and the ledger of the index.      *)

Holders(i) == {p \in Paths : files[p] \in [id : {i}, ver : Versions]}

\* The first file in walk order speaks for an id.
First(S) == CHOOSE p \in S : \A q \in S : p <= q

\* A row whose file stopped parsing is kept.
RowMatches(i) ==
    IF Holders(i) # {}
    THEN LET p == First(Holders(i)) IN rows[i] = [path |-> p, ver |-> files[p].ver]
    ELSE rows[i] = Nothing \/ files[rows[i].path] = Torn

Matches == \A i \in Ids : RowMatches(i)

\* The last word sent to the ledger about i, on its way or heard.
LastTold(i) ==
    LET about == {n \in 1..Len(told) : i \in DOMAIN told[n]}
    IN  IF about = {} THEN heard[i]
        ELSE told[CHOOSE n \in about : \A m \in about : m <= n][i]

-----------------------------------------------------------------------------
(* Telling the ledger.                                                     *)

\* What the worker says of the notes in S: the row it just wrote or removed.
About(S) == [i \in S |-> IF rows'[i] = Nothing THEN Gone ELSE rows'[i].ver]

Batch(S) == IF S = {} THEN <<>> ELSE <<About(S)>>

LedgerHears ==
    /\ told # <<>>
    /\ heard' = [i \in Ids |-> IF i \in DOMAIN told[1] THEN told[1][i] ELSE heard[i]]
    /\ told' = Tail(told)
    /\ UNCHANGED <<files, noticed, cmd, queue, scan, index, owesSeed, app, edits,
                   faults, missed, unheard>>

-----------------------------------------------------------------------------
(* The vault changes.                                                      *)

\* The watcher sees each file event while it watches.
Notices == /\ noticed' = (noticed \/ app = "up")
           /\ missed' = (missed \/ app = "starting")

Edited(new) ==
    /\ edits < MaxEdits
    /\ edits' = edits + 1
    /\ files' = new

Owes(w, job) ==
    /\ app # "down"
    /\ cmd[w] = Nothing
    /\ cmd' = [cmd EXCEPT ![w] = job]

AppSave(w, p, v) ==
    /\ files[p] \in NoteFiles
    /\ Edited([files EXCEPT ![p] = [id |-> files[p].id, ver |-> v]])
    /\ Notices
    /\ Owes(w, NoteJob(files[p].id, p, v, FALSE))
    /\ UNCHANGED <<queue, scan, index, ledger, app, faults>>

AppCreate(w, i, p, v) ==
    /\ files[p] = Nothing
    /\ Holders(i) = {}
    /\ Edited([files EXCEPT ![p] = [id |-> i, ver |-> v]])
    /\ Notices
    /\ Owes(w, NoteJob(i, p, v, FALSE))
    /\ UNCHANGED <<queue, scan, index, ledger, app, faults>>

\* Filing one note indexes it; a project's rename or deletion asks for a pass.
AppMove(w, p, q) ==
    /\ files[p] \in NoteFiles
    /\ files[q] = Nothing
    /\ Edited([files EXCEPT ![p] = Nothing, ![q] = files[p]])
    /\ Notices
    /\ \/ Owes(w, NoteJob(files[p].id, q, files[p].ver, FALSE))
       \/ Owes(w, ReconcileJob)
    /\ UNCHANGED <<queue, scan, index, ledger, app, faults>>

AppDelete(w, p) ==
    /\ files[p] \in NoteFiles
    /\ Edited([files EXCEPT ![p] = Nothing])
    /\ Notices
    /\ Owes(w, DeleteJob(files[p].id, FALSE))
    /\ UNCHANGED <<queue, scan, index, ledger, app, faults>>

\* An editor, a sync tool, a file manager: a copy may reuse an id.
ExternalWrite(p, content) ==
    /\ content # files[p]
    /\ Edited([files EXCEPT ![p] = content])
    /\ Notices
    /\ UNCHANGED <<cmd, queue, scan, index, ledger, app, faults>>

\* A folder's event names no .md file, so it is not relevant.
ExternalFolderMove(p, q) ==
    /\ "folder" \in Faults
    /\ files[p] \in NoteFiles
    /\ files[q] = Nothing
    /\ Edited([files EXCEPT ![p] = Nothing, ![q] = files[p]])
    /\ missed' = (missed \/ app # "down")
    /\ UNCHANGED <<noticed, cmd, queue, scan, index, ledger, app, faults>>

-----------------------------------------------------------------------------
(* Queueing.                                                               *)

\* What a job says of a note is out of date once the file moved on.
Stale(job) ==
    \/ job.kind = "note" /\ files[job.path] # [id |-> job.id, ver |-> job.ver]
    \/ job.kind = "note" /\ \E p \in Holders(job.id) : p < job.path
    \/ job.kind = "delete" /\ Holders(job.id) # {}

\* Only the watcher's next burst would set right what a stale job undoes.
Stamped(job) ==
    IF job.kind \in {"note", "delete"}
    THEN [job EXCEPT !.late = Stale(job) /\ ~noticed]
    ELSE job

Enqueue(w) ==
    /\ cmd[w] # Nothing
    /\ Len(queue) < MaxQueue
    /\ queue' = Append(queue, Stamped(cmd[w]))
    /\ cmd' = [cmd EXCEPT ![w] = Nothing]
    /\ UNCHANGED <<files, noticed, scan, index, ledger, app, edits, faults, missed>>

\* The burst is quiet, or has lasted long enough.
Fire ==
    /\ noticed
    /\ Len(queue) < MaxQueue
    /\ noticed' = FALSE
    /\ queue' = Append(queue, ReconcileJob)
    /\ UNCHANGED <<files, cmd, scan, index, ledger, app, edits, faults, missed>>

RequestRebuild ==
    /\ app # "down"
    /\ Len(queue) < MaxQueue
    /\ faults < MaxFaults /\ faults' = faults + 1
    /\ queue' = Append(queue, RebuildJob)
    /\ UNCHANGED <<files, noticed, cmd, scan, index, ledger, app, edits, missed>>

-----------------------------------------------------------------------------
(* The worker.                                                             *)

Takes(kind) ==
    /\ scan = Nothing
    /\ queue # <<>>
    /\ queue[1].kind = kind
    /\ queue' = Tail(queue)

\* A database write may fail: it is logged.
Fails(what) == what \in Faults /\ faults < MaxFaults /\ faults' = faults + 1

\* The worker has a pass over the vault still ahead of it.
PassComing ==
    noticed \/ \E n \in 2..Len(queue) : queue[n].kind \in {"reconcile", "rebuild"}

Served(job) == missed' = (missed \/ (job.late /\ ~PassComing))
Failed(job) ==
    /\ Fails("io")
    /\ missed' = (missed \/ ~PassComing)
    /\ unheard' = unheard \cup {job.id}

ProcessNote ==
    /\ Takes("note")
    /\ LET job == queue[1] IN
        /\ \/ /\ rows' = [rows EXCEPT ![job.id] = [path |-> job.path, ver |-> job.ver]]
              /\ bare' = bare \ {job.id}
              /\ Served(job)
              /\ unheard' = unheard \ {job.id}
              /\ UNCHANGED faults
           \/ Failed(job) /\ UNCHANGED index
        /\ told' = Append(told, [i \in {job.id} |-> job.ver])
    /\ UNCHANGED <<files, noticed, cmd, scan, heard, owesSeed, app, edits>>

\* A mutant of ProcessDelete: the ledger is not told.
DeletesQuietly ==
    /\ Takes("delete")
    /\ rows' = [rows EXCEPT ![queue[1].id] = Nothing]
    /\ bare' = bare \ {queue[1].id}
    /\ Served(queue[1])
    /\ UNCHANGED <<files, noticed, cmd, scan, ledger, app, edits, faults>>

ProcessDelete ==
    /\ Takes("delete")
    /\ LET job == queue[1] IN
        /\ \/ /\ rows' = [rows EXCEPT ![job.id] = Nothing]
              /\ bare' = bare \ {job.id}
              /\ Served(job)
              /\ unheard' = unheard \ {job.id}
              /\ UNCHANGED faults
           \/ Failed(job) /\ UNCHANGED index
        /\ told' = Append(told, [i \in {job.id} |-> Gone])
    /\ UNCHANGED <<files, noticed, cmd, scan, heard, owesSeed, app, edits>>

\* What lies unseen so far the new pass sees, unless a job behind it undoes it.
NewPass(kind) ==
    /\ scan' = [at |-> 1, seen |-> {}, parsed |-> {}, changed |-> {}, kind |-> kind]
    /\ missed' = (missed /\ \E n \in 2..Len(queue) : queue[n].kind \in {"note", "delete"})

StartPass ==
    /\ Takes("reconcile")
    /\ NewPass("reconcile")
    /\ UNCHANGED <<files, noticed, cmd, index, ledger, app, edits, faults>>

\* A rebuild clears the index, and commits that, before its pass.
StartRebuild ==
    /\ Takes("rebuild")
    /\ NewPass("rebuild")
    /\ rows' = [i \in Ids |-> Nothing]
    /\ bare' = {}
    /\ unheard' = unheard \cup {i \in Ids : rows[i] # Nothing}
    /\ UNCHANGED <<files, noticed, cmd, told, heard, owesSeed, app, edits, faults>>

\* One file of the walk: an unchanged note is not written, a second file with
\* the same id is left out, and one that does not parse is skipped.
ScanFile ==
    /\ scan # Nothing
    /\ scan.at \in Paths
    /\ LET p == scan.at
           note == files[p]
           row == [path |-> p, ver |-> note.ver]
       IN  IF note \notin NoteFiles
           THEN /\ scan' = [scan EXCEPT !.at = p + 1]
                /\ UNCHANGED <<index, unheard>>
           ELSE IF note.id \in scan.seen \/ rows[note.id] = row
           THEN /\ scan' = [scan EXCEPT !.at = p + 1, !.seen = @ \cup {note.id},
                                        !.parsed = @ \cup {p}]
                /\ UNCHANGED <<index, unheard>>
           ELSE /\ scan' = [scan EXCEPT !.at = p + 1, !.seen = @ \cup {note.id},
                                        !.parsed = @ \cup {p}, !.changed = @ \cup {note.id}]
                /\ rows' = [rows EXCEPT ![note.id] = row]
                /\ bare' = bare \ {note.id}
                /\ unheard' = unheard \cup {note.id}
    /\ UNCHANGED <<files, noticed, cmd, queue, told, heard, owesSeed, app, edits,
                   faults, missed>>

\* A mutant of Swept: a row goes only with its file.
SweptWithFile ==
    {i \in Ids : rows[i] # Nothing /\ i \notin scan.seen /\ files[rows[i].path] = Nothing}

\* Rows no file spoke for, but those whose file is there and did not parse.
Swept ==
    {i \in Ids : /\ rows[i] # Nothing
                 /\ i \notin scan.seen
                 /\ files[rows[i].path] = Nothing \/ rows[i].path \in scan.parsed}

\* The sweep, then what the pass changed is forwarded: written rows, removed
\* rows, rows that lacked their items, and a ledger that came up empty is seeded.
EndPass ==
    /\ scan # Nothing
    /\ scan.at \notin Paths
    /\ scan' = Nothing
    /\ rows' = [i \in Ids |-> IF i \in Swept THEN Nothing ELSE rows[i]]
    /\ bare' = {}
    /\ LET gone == Swept
           derived == (bare \ gone) \cap Recent
           seeded == IF owesSeed /\ scan.kind = "reconcile"
                     THEN {i \in Recent : rows'[i] # Nothing} ELSE {}
       IN  /\ told' = told \o Batch(scan.changed) \o Batch(gone)
                           \o Batch(derived) \o Batch(seeded)
           /\ unheard' = unheard \ (scan.changed \cup gone \cup derived \cup seeded)
    /\ owesSeed' = (owesSeed /\ scan.kind = "rebuild")
    /\ UNCHANGED <<files, noticed, cmd, queue, heard, app, edits, faults, missed>>

\* A folder that cannot be read or a database error ends the pass: rows it wrote
\* stay, nothing is forwarded, nothing asks for another pass.
FailPass ==
    /\ scan # Nothing
    /\ Fails("io")
    /\ scan' = Nothing
    /\ missed' = (missed \/ ~noticed)
    /\ UNCHANGED <<files, noticed, cmd, queue, index, ledger, app, edits>>

-----------------------------------------------------------------------------
(* The app's life.                                                         *)

LedgerIsEmpty == \A i \in Ids : heard[i] = Never

\* Only a ledger that comes up empty is seeded: what the last process still owed
\* it is forgotten once it heard of a single note.
Launch ==
    /\ app = "down"
    /\ app' = "starting"
    /\ queue' = <<ReconcileJob>>
    /\ owesSeed' = LedgerIsEmpty
    /\ unheard' = IF owesSeed /\ ~LedgerIsEmpty
                  THEN unheard \cup {i \in Recent : rows[i] # Nothing /\ heard[i] = Never}
                  ELSE unheard
    /\ UNCHANGED <<files, noticed, cmd, scan, index, told, heard, edits, faults, missed>>

StartWatching ==
    /\ app = "starting"
    /\ app' = "up"
    /\ UNCHANGED <<files, noticed, cmd, queue, scan, index, ledger, edits, faults, missed>>

\* Files, rows and the ledger survive, with the ledger lost in some crashes.
Crash ==
    /\ app # "down"
    /\ Fails("crash")
    /\ app' = "down"
    /\ noticed' = FALSE
    /\ cmd' = [w \in Writers |-> Nothing]
    /\ queue' = <<>>
    /\ scan' = Nothing
    /\ told' = <<>>
    /\ \/ heard' = heard
       \/ "lost ledger" \in Faults /\ heard' = [i \in Ids |-> Never]
    /\ unheard' = unheard \cup UNION {DOMAIN told[n] : n \in 1..Len(told)}
    /\ UNCHANGED <<files, index, owesSeed, edits, missed>>

-----------------------------------------------------------------------------

\* An empty vault, or one an earlier version indexed without action items.
Init ==
    /\ files \in [Paths -> NoteFiles \cup {Nothing}]
    /\ \A p, q \in Paths : files[p] # Nothing /\ files[q] # Nothing /\ p # q
                             => files[p].id # files[q].id
    /\ rows = [i \in Ids |->
                 IF Holders(i) = {} THEN Nothing
                 ELSE LET p == First(Holders(i)) IN [path |-> p, ver |-> files[p].ver]]
    /\ bare = {i \in Ids : Holders(i) # {}}
    /\ heard = [i \in Ids |-> Never]
    /\ noticed = FALSE
    /\ cmd = [w \in Writers |-> Nothing]
    /\ queue = <<>>
    /\ scan = Nothing
    /\ told = <<>>
    /\ owesSeed = TRUE
    /\ app = "down"
    /\ edits = 0
    /\ faults = 0
    /\ missed = FALSE
    /\ unheard = {}

VaultChanges ==
    \/ \E w \in Writers, p \in Paths :
        \/ \E v \in Versions : AppSave(w, p, v) \/ \E i \in Ids : AppCreate(w, i, p, v)
        \/ \E q \in Paths : AppMove(w, p, q)
        \/ AppDelete(w, p)
    \/ \E p \in Paths, content \in NoteFiles \cup {Nothing, Torn} : ExternalWrite(p, content)
    \/ \E p, q \in Paths : ExternalFolderMove(p, q)

Queueing == (\E w \in Writers : Enqueue(w)) \/ Fire
Working == ProcessNote \/ ProcessDelete \/ StartPass \/ StartRebuild \/ ScanFile \/ EndPass

Next ==
    \/ VaultChanges \/ Queueing \/ Working \/ LedgerHears
    \/ RequestRebuild \/ FailPass \/ Launch \/ StartWatching \/ Crash

Spec == Init /\ [][Next]_vars

-----------------------------------------------------------------------------
(* Properties.                                                             *)

Settled ==
    /\ app = "up"
    /\ ~noticed
    /\ queue = <<>>
    /\ scan = Nothing
    /\ \A w \in Writers : cmd[w] = Nothing

\* Once the worker has nothing left to do, every row says what its file says,
\* whatever was written under a pass, queued behind it or failed: but for a
\* change no pass was left to see (reconcile.rs: "always converges the index").
SettledIndexIsCurrent == Settled /\ ~missed => Matches

\* The ledger's last word of a note, heard or on its way, is the index's, but
\* for notes whose report was lost with the process, a failed pass or a rebuild,
\* and for old notes the enrolment window keeps out (index_state.rs:
\* "Reconcile's unchanged-note fast path is deliberately not a gap").
LedgerHasTheIndexsWord ==
    \A i \in Ids :
        \/ i \in unheard \/ i \in bare
        \/ owesSeed \/ (app = "down" /\ LedgerIsEmpty)
        \/ rows[i] = Nothing /\ LastTold(i) \in {Gone, Never}
        \/ rows[i] # Nothing /\ LastTold(i) = rows[i].ver
        \/ rows[i] # Nothing /\ i \notin Recent /\ LastTold(i) = Never
=============================================================================
