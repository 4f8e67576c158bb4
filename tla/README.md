# Kodabi in TLA+

A verification development of [kodabi](../src/README.md), the desktop app that
records meetings, transcribes them locally, distills them into Markdown notes
and keeps a ledger of the commitments those notes state. Everything here is
translated from the code under `src/`; a definition's lines are in
`PROJECT.json` under `map`.

## 1. The system

The notes are the truth (`docs/FOUNDING_DOC.md`, `ARCHITECTURE.md`): plain
Markdown files in a vault. Around them run background threads and managed
stores, which meet in the shell (`src-tauri/src`):

    hotkey / tray / IPC -> capture -> spill directory -> transcription -> raw session
                                                                            |
    vault watcher -> index worker -> ledger worker <- distill follow-up <- distill
                          |                ^    ^                           |
                        index           views  assistant (MCP)            note file

### Components, their state, and what makes each correct

| Component | State it keeps | Operations | Interacts with | Correct when |
|---|---|---|---|---|
| **Commitment ledger** (`kodabi-core/src/ledger/store.rs`, `sync.rs`, `enrollment.rs`) | SQLite rows: entries, item refs, links, evidence; dirty projects | sync a note, remove it, a person's nine judgements, promote a line, flip a meeting's tracking, learn an alias | index worker (lines), views and assistant (judgements), snapshot files | no commitment is lost or doubled, no judgement undone by a machine, rows always consistent |
| **Distill follow-up** (`ledger/distill_apply.rs`) | one pass: updates left, entries changed, lines claimed | refresh, supersede, report completion | ledger, the assistant's process between two updates | one change per entry, graph and states agree, every machine close can be contested |
| **Ledger worker** (`src-tauri/src/ledger_state.rs`) | job queue, connection, identity | run one job at a time, flush snapshots, retry lost projects | everything above, index | every job answered, every change reaches a snapshot |
| **Ledger snapshots** (`ledger/snapshot.rs`) | a YAML file per project | flush, restore on an empty database | ledger, other devices through the vault | restoring gives back what was written |
| **Ledger views** (`view.rs`, `digest.rs`, `commitments.rs`) | none (digest: last-seen cursor) | join with the index, snooze expiry, digest | frontend, MCP | read-time expiry agrees with the stored state |
| **Capture toggle** (`src-tauri/src/capture_control.rs`) | the toggle lock, one pending press, last broadcast phase | hotkey and tray presses, IPC start and stop | capture, overlay, tray, watchdog | presses during a toggle fold into at most one stop; nothing starts by surprise |
| **Capture watchdog** (`capture_watchdog.rs`) | debounce counters | tick: broadcast the truth, drain a missed press | toggle, capture | indicators converge to the truth, a missed press is honoured |
| **Capture sessions** (`audio_cmds.rs`, `kodabi-audio`) | active streams, stashed spill directory | start, stop, mic test | devices, in-flight store | a running capture has somewhere to spill; consent first |
| **In-flight store** (`kodabi-core/src/inflight.rs`) | spill directories with lock and meta files | create, append, scan, remove, sweep | capture, transcription, recovery on the next start | a crash loses at most a flush interval; no live capture is recovered or swept |
| **Transcription** (`src-tauri/src/transcribe.rs`, `kodabi-core/src/pipeline.rs`, `kodabi-transcribe`) | the transcription lock | transcribe, clean, persist, recover orphans | in-flight store, raw sessions, distill | each capture becomes exactly one raw session |
| **Raw sessions, retention** (`raw_session.rs`, `sessions.rs`, `retention.rs`) | JSONL and WAV files | write, list undistilled, prune | distill, settings | nothing is pruned before it was distilled |
| **Distill** (`distill_cmds.rs`, `kodabi-core/src/distill.rs`, `routing.rs`) | in-flight set of sessions | distill, route, write the note | LLM, vault, follow-up | one note per session |
| **Chat, chat distill** (`chat_cmds.rs`, `chat_distill_cmds.rs`) | session process, turn state, transcript | start, send, interrupt, end, distill | Claude process, vault | a tool runs only if the user allowed it; a note holds the whole chat |
| **Index worker** (`index_state.rs`, `kodabi-core/src/index`, `reconcile.rs`, `watch.rs`, `embed.rs`) | queue, SQLite cache, embedder | upsert, remove, reconcile, rebuild, embed | vault watcher, ledger | converges to the vault, and the ledger hears of every change |
| **Vault, notes** (`vault.rs`, `note.rs`, `naming.rs`, `capture.rs`, `quick_capture.rs`) | Markdown files | create, edit, file, move, delete; rename and delete a project | all, and the assistant's process | a note keeps a file and only one; a correction is kept once |
| **Models** (`models.rs`, `models_cmds.rs`, `kodabi-core/src/models`) | files, partial downloads | download, resume, verify, cancel | network | a file has its real name only when verified |
| **Settings, glossary, examples, device** | files with a write-through cache | load, save | shell | cache and file agree |
| **Assistant tools** (`kodabi-mcp`) | its own ledger connection | list, close, reopen, waive; edit and file notes | ledger and vault from a second process | the same rules as in the app |
| **Overlay, tray, terminal, updater, sandbox** | windows, a PTY | show, hide, promote, resize | capture, OS | |
| **Audio signal path** (`combine.rs`, `drift.rs`, `resample.rs`, `kodabi-aec`) | sample buffers | align, resample, cancel echo | capture | channels stay aligned |
| **Frontend** (`src/src`) | React hooks | render, call commands, follow events | all commands | shows what the backend last said |

### Where it is hard

* *Two readings of one thing.* The ledger sees only successive readings of a
  note and has to infer that a line was edited, moved, repeated or deleted.
* *Machines beside people.* Syncs, alias sweeps, tracking flips and distill
  updates all rewrite rows a person may have judged.
* *A second process.* The assistant's tools write to the same database and the
  same files, with no lock in common with the app.
* *Half a pass.* No call of the ledger but a reconciliation is a transaction: an
  update relinks, then links, then closes, one statement at a time; a crash, or
  the other process, comes between any two.
* *Memory beside disk.* Which snapshots are behind, which notes the index still
  has to read and what the ledger still has to hear live in queues and sets that
  a crash empties.
* *Nothing is locked in the vault.* A note is found, merged and rewritten in
  separate steps, a move is a link and a removal, a project's deletion is a loop.
* *Presses during a toggle.* Stopping a capture takes seconds, and the hotkey,
  the tray and the window all offer to do it again meanwhile.
* *A child process.* The chat's prompts, replies, stops and exit travel through
  four threads; any of them may come after the command that outdates it.
* *Half a file.* A download is cut, resumed against other bytes or stopped while
  it is verified.

`PROJECT.json` lists every hazard at its line, with the properties that watch it.

## 2. Plan

Done, most important first:

1. `Ledger`, `LedgerReadings`, `LedgerFollowUp`: the commitment ledger, what it
   makes of successive readings, and a distill's updates statement by statement. Checked,
   and proved in `LedgerProofs`.
2. `RecordingLight`, `CaptureToggle`: the capture toggle against the
   promise it makes to the people in the room, proved in `CaptureProofs`.
3. `SessionLifecycle`: spill directory, recovery, transcription, retention and
   distill of two apps on one vault, its safety proved in `SessionProofs`.
4. `LedgerBackup`: the snapshot files, the retries and the restore, its safety
   proved in `BackupProofs`.
5. `IndexWorker`: its queue, passes and rebuilds, and what it tells the ledger,
   proved in `IndexProofs`.
6. `VaultEdits`: edits, moves and deletions of notes and projects by several
   actors, proved in `VaultProofs`.
7. `ChatSession`: start, send, stop, prompts, exit and the distill of a chat, its
   safety proved in `ChatProofs`.
8. `ModelDownload`: download, resume, verify and cancel, its safety proved in
   `ModelProofs`.

What is left, in this order: the triage and digest cursors; the settings caches;
the hooks of the frontend that follow event streams; the mic test. No module that
is to be proved about declares a RECURSIVE operator.

A run answers one question; a component is given one run, or two when safety and
progress want different instances, not one per property.

## 3. The modules and the code

### `Ledger`

| Variable | In the code |
|---|---|
| `entry` | rows of `ledger_entries`, by id; `EntryRec` has one field per column that matters (`untrackedVia`, `closedVia`, `snoozedUntil`, `reviewReason`, `direction`, `touched`, `enrolledVia`, the project and the last mention) |
| `refs` | the active rows of `ledger_item_refs` |
| `links`, `claims` | `ledger_entry_links`, `ledger_evidence` |
| `dirty` | projects whose snapshot is behind the database |
| `call` | the judgement that is between its two commits: a reopening that has dropped the links, a dismissal that has removed the claim |

A job of the worker (`handle_job`) is one action where it is one transaction or
where nothing reads what lies between its statements:
`Sync` and `NoteRemoved` are `reconcile`, with its partition (`Kept`, `Gone`,
`Fresh`), its two tiers of swaps (`OwnerSwaps`, `NoteSwaps`), hints, re-mentions
(`NewestMatches`), founding (`Founders`, `NewWords`), project moves and parking
(`Rewrite`); `JudgeEntry` is `apply_mutation` with its trailing `mark_touched`, and the two
judgements that commit twice are `UnlinkToReopen` or `DismissEvidence`, then
`FinishReopen` or `FinishDismissal`, with `Halt` where the worker dies or the
database refuses between them;
`RetroApply`, `RetroResolveOwners` and `TrackItem` are the three sweeps.

Abstractions. A line is a number, numbered in body order, and its note and
words are functions of it: the code's id hashes just those. When several entries
tie as the newest with the same words the choice is free. A hint of the same pass
may move an entry's date before another line looks for the newest match, so
`NewestMatches` allows either order. At most one swap concerns an entry in one
pass. Retired references are not kept. One step, though the code runs more than
one statement: the check and the update of `set_state` in the worker (the
assistant's are apart, see `LedgerFollowUp`), `mark_touched` after the judgement
it belongs to, and the two updates of `record_mention`. Timestamps are the note's
date; a snooze is a flag, whose expiry is a read-time view in the code. The assistant's process
has its own list of dirty projects; `dirty` means the file is behind the
database, whoever made it so.

### `LedgerReadings`

Adds three history variables (the last reading of each note, what that reading
obliged the ledger to track, the sync that nothing has happened since) so that
the inference from two readings can be compared with the readings.

### `LedgerFollowUp`

A distill's pass. `StartPass` reconciles with hints (`HintsOf`); then one step of
`Apply` is one commit. `Skip` and `Keep` drop an update that has
nothing to do, `Weigh` reads the holder of its line (`pass.found`, `pass.live`),
`Act` begins the first call (`RetireHolder`, `RecordMention`, `Supersede`,
`AddEvidence`) and `Follow` the second, from what was read before the first:
`LinkDuplicate` after a line was taken over, and after a claim one of
`CloseFromEvidence`, `SendToReview`, `Refused` and `KeepQuestion`. Two calls take
several commits. `relink_item` is `RetireHolder`, `GiveLine` and, for an entry
that was in review, `OpenRelinked`. `link_entries` is `CheckLink`, `InsertLink`
and `BecomeHistory`, which checks the move again and may be `Refused` with the
link already there. `pass.changed` and `pass.claimed` are the two sets
`apply_distill_follow_up` keeps.

The assistant (the MCP process) looked its entry up in an earlier call and judges
it in two steps, `AssistantBegins` and `AssistantWrites`, with any commit of the
worker between them; `AssistantStops` and `WorkerStops` are a crash or a database
error anywhere. When idle the worker also does every job of `Ledger`, its two
judgements of two commits included. Histories: `torn` (entries on which two
calls met, or one that links or reopens stopped halfway) and `cut` (entries whose
dismissal did, until they are dismissed again).

### `LedgerBackup`

| Variable | In the code |
|---|---|
| `db`, `filed`, `folders` | the live commitment of each line, where its note is filed, the project folders |
| `disk` | each folder's `_ledger.yml`: by line the state it gives, or a file this build cannot read |
| `dirty`, `pending`, `built`, `at` | what each process knows to be behind, what is left of its flush, the snapshot it has read and not yet renamed in, where it is |
| `armed` | the worker's deadline |

`Build` reads a project's rows and `Rename` puts the file in place; another
process may commit between them. `FlushDue` is the deadline, `FlushAtQuit` the
drain when the queue closes, `OtherJob` any job that leaves a deadline because
something is dirty. `Restore` runs at a launch that finds the ledger empty.
`LoseLedger`, `Crash`, `RenameProject` and `DeleteProject` are what happens to
the database, the processes and the folders. The history variable `lapsed` names
the projects whose file fell behind with nobody to know (a death, a folder's
rename, a commit of one process while another writes), `lost` the ledger that
was lost.

### `RecordingLight`, `CaptureToggle`

`RecordingLight` is what a toggle promises: lit before on air, dark only off
air, never on air before consent. `CaptureToggle` has a program counter per
thread (`pc`) over `toggle_lock`, `pending_toggle`, the two device slots and the
last broadcast. A press is `Press`, `MarkPending`, `Retry`, a `Pass…` and
`Check`; the window's commands are `CallStart`/`CallStop` and
`StartUnderLock`/`StopUnderLock`, which neither clear nor drain the flag; the
watchdog is `Tick` and `TickSkipped`, whose replay is the same `Check`. Starting
and stopping take several steps (`Negotiate`, `StreamsStopped`), between which
devices stall, recover and fail, and a thread may die (`Panics`).

What only the lock protects is merged with its neighbours; every access to the
pending flag has a step of its own. Only the phase of `last_broadcast` is kept,
which is all `decide` looks at. The stashed session goes by one of two names, so
that a replaced one shows. Poisoning of the inner mutex of the engine and the
length of intervals are left out. So is the mic test of the Settings, which only
looks at the capture before and after it listens (section 7 says what it misses).

### `SessionLifecycle`

One `stage` per app and meeting (recording, waiting, transcribing, landed,
unlocked, …), the files they share (`spill`, `dirLock`, `transcript`, `notes`),
and per app the distill's claims, runs and the window's list. A directory is
what it amounts to: nothing, scrap (mis-tap, lone channel, corrupt) or full,
enough to transcribe. Stopping writes the rest; when that write fails
(`StopMeeting`) the directory stays what it was and goes on all the same.
`Crash` ends an app at any step and keeps the files; `Launch` and `Scan` recover.
`Removed` lets `remove_dir_all` fail before or after the audio is gone.
`Windows` are the apps whose window is open; only they list, retry and delete.

Abstractions: one capture per meeting; ages are not modelled, a transcript may
expire at any time when the policy has a limit; recordings, dismissed markers and
captures with nothing said are left out; counters stop at 2. Creating a session,
a scan and a refetch of the list are one step each. Synchronous commands of one
window run one after another.

### `IndexWorker`

`files` is the vault, `rows` the index by id, `queue` the worker's channel. A
command of the app writes the file (`AppSave`, `AppCreate`, `AppMove`,
`AppDelete`) and queues its job later (`Enqueue`); everyone else only writes.
The watcher holds a burst (`noticed`) and fires one pass. `StartPass`,
`ScanFile` in walk order and `EndPass` are `reconcile`, with its three rules:
the first file speaks for an id, an unchanged file is passed by, a row whose
file does not parse is kept. `StartRebuild` clears first. What a step changes it
sends to the ledger (`told`), which hears it later (`LedgerHears`), or is seeded
with the rows when it came up empty. `FailPass` and `Crash` stop anything
midway. Histories: `missed` (the vault changed with no pass left to see it: a
folder renamed outside the app, a watcher not yet running, a failed pass, a job
about a file that moved on since) and `unheard` (notes whose row changed in a
batch that was never sent, and notes whose seed a process still owed when it
ended, which the next one no longer offers).

Abstractions: a note's text is a version; the queue is bounded where the code's
is not, so a sender waits; embeddings are left out.

### `VaultEdits`

`files` maps a path (folder, stem, number) to a note's id, the project its
frontmatter names and whether it carries the optional fields. An operation is a
record in `proc[a]` and walks through the calls of the code: find, look
whether the file is there, replace it (`SaveChecks`, `SaveEdit`), record the
example (`SaveExample`); find, link, unlink, clear and record the examples
(`FileLinks` … `FileSavesExample`), or rewrite a note that is in the project
already (`FileRewrites`); scan a folder, move each note, remove the folder
(`DeleteProject…`); rename the folder, check and rewrite each note (`Rename…`). A
save's two halves are the check of `save_note_at` and its rename, which replaces
whatever has the name by then and creates it if nothing has. Any other actor moves
between two steps; removals and their undoing fail; an actor `Dies`. An edit of
the app finds the note in one project (`FindsIn`) and goes on while a move has
both names; all else looks in the whole vault (`Finds`). Histories: `removed`
(notes someone asked to delete), `cut` (a move or a project's deletion stopped
halfway, or a move's new name stayed because its removal failed, too), `overrun`
(an operation on another note replaced or removed this note's file, under a name
it had found before), `strayed` (an operation wrote or moved the note under a name
that no longer held it), `crossed` (two operations had the
note at once), `swept` (it was at stake, in an operation's hand or about to be left
behind in the examples, while a project was deleted or renamed).

Abstractions: a text edit is not told from another; names differ by a number,
not by casing; projects are not nested; a scan and the staging of a scratch file
with its rename are one step each.

### `ChatSession`

Per chat: the child process, the lines queued for its stdin, the writer and
waiter threads, the items its stdout gave, the flags of `SharedChat`
(`pending`, `reaped`, `onReap`), the transcript on disk and where
its distill stands. Commands run one at a time under the lock of `ChatState`
(`cmd`), in the steps between which the pump or the child may come: `ChatSend` and
`SendWrites`, `ChatCancel` and `CancelInterrupts`, `ChatPermissionRespond`,
`RespondWrites` and `RespondRecords`. No command asks whether a turn is under way,
so the flag `turn_active` is left out, and with it `interrupting`, which only
chooses the word a turn's end is reported with. `Pump` is `pump_events` with `handle_exit` for
the last item. `Sweep` and `Distills` are `chat_distill_cmds`. The child is
external: it answers, asks, ends turns, fails and dies as it likes, but it runs a
tool only on the answer to the prompt it is blocked on. Histories: `allowed`
(prompts the user clicked Allow on), `ran` (tools that ran), `cut` (chats the app
did not outlive).

### `ModelDownload`

`at` is the worker's place in `download`, `fetch_with_retries` and `fetch_once`.
A part file is its length and whether it is a prefix of the right bytes; a real
file is absent, of another size, right or wrong. `Start` and `Cancel` are the
commands, with the guard that lets one worker run. A response may ignore the
range, be cut, or carry other bytes; the part is hashed in steps between which a
stop is seen; the old file is removed and the part renamed. `Dies` keeps both
files. `late` counts the files put in place since a stop was asked for. There is one app
process: the guard is a flag of the process and no lock keeps a second app from
the models folder, so two apps that download at once are not modelled.

## 4. The runs

| Run | Instance | What it shows |
|---|---|---|
| `ledger_two_notes` | two notes in two projects, two days, three lines, two entries, a claim already gone | direction fits owner through rewording, claims and aliases; a machine untracks only what one meeting carries; a promotion sticks; every change marks the snapshots it left and entered |
| `readings` | one note, three lines of which two say the same, five readings, two entries | a commitment owed is held; a line has one holder; a live entry that loses its line asks; only a person reopens; no duplicate is founded; an unchanged note of distinct lines is a no-op |
| `followup` | an older and a newer note, conversations of one or two updates, one claim, the assistant's reads and writes between any two commits, crashes | state and link graph agree of an entry no two calls met on; a machine close keeps a claim to contest; a claimed line is not handed on; the first change wins; no live entry loses its line in silence |
| `capture` | a press that may panic, a window command, the watchdog | `CaptureToggle` implements `RecordingLight`; a recording keeps its spill directory; a press that means stop ends the capture; a stale indicator is corrected; a lasting loss is shown |
| `sessions` | two apps, one meeting, all policies, both windows, crashes at every step | nothing recorded is lost; a live spill stays; a transcript on disk is not written again |
| `sessions_progress` | one app, two meetings on its two locks, all policies | claims are released; whoever waits is served |
| `index` | two notes, two paths, two versions, one command, two edits, one fault of any kind | a settled index says what the files say; the ledger's last word of a note is the index's |
| `backup` | two lines, two projects, the app and one call of the assistant, four changes, two faults | a project nobody lists as behind has a right snapshot; the worker writes what it knows to be behind; a lost ledger comes back with its judgements |
| `chat` | two chats, two prompts, three messages, one fault | a tool runs only on the user's Allow and a prompt has one outcome; a note holds every reply of its chat; a chat that ended gets its note |
| `vault` | two notes of one title, Inbox and two projects, two actors, three operations, failed removals or deaths | a note keeps a file unless another's operation overran it, one file unless it strayed, and one recorded correction |
| `models` | three files of two chunks, three attempts, three stops or failures | what is ready was verified; a stop lets one file through; a run that nothing disturbs finishes |
| `vault_delete_project` | one note, one operation | refutes a comment of the code, see section 7 |

Every property of a passing run has a mutant in `PROJECT.json`, a plausible slip
in the code (a check dropped, a set too wide, a column not reset) that the same
run detects. The mutated operators stand beside the definitions they change.
Type invariants, the columns of a row (`ProvenanceFitsState`) and the claims of a
run (`RunsAreClaimed`) are not run again: they are proved, or followed by what is.

**Bounds, and why they are enough.** Each run is exhaustive in its bounds.

* *Ledger.* Two entries are the least with which one can be duplicated, swapped
  for, linked to or hinted at another; mint ids are symmetric. Three lines give a
  swap beside a repetition, two notes an entry with two sources, two days an
  older and a newer mention. One claim is enough to be recorded, confirmed and
  dismissed twice. Minting stops when the ids are used up (`Entries`), recording
  claims too (`Claims`). In `ledger_two_notes` each job finds all snapshots written
  (`NothingIsBehind`), so that no mark stands for one that a job should have made;
  the claim there has no row and is dismissed again.
* *Follow-up.* Two updates are the least of which one undoes what the other did.
  One call is torn or cut (`OneAccident`); after it what is under way ends, and
  only dismissals and reopenings of two commits begin (`NothingBegins`): what a
  torn entry may do next is exempt in any case. Every line is the user's own there,
  so nothing reads the touched flag, how an entry was enrolled, why it is in review
  or which snapshots are behind, and states that differ in these only are taken
  for one (`Told`).
* *Capture.* A press, a command and the watchdog are every kind of thread; two
  confirm ticks are the constant of the code. Two presses that race are covered
  by the proofs.
* *Sessions.* Two apps give a live one beside a recovering one, two meetings a
  queue.
* *Index.* Two paths give a move, a copy and a note before another in walk order;
  two edits give a change under a pass and one before it; `MaxQueue` 2 a job
  behind a pass.
* *Backup.* Two projects give a move and a restore that meets one line twice; two
  faults a failed write and a death; four changes (`MaxChanges`) a commitment
  judged, moved, lost and restored.
* *Chat.* Two chats give a restart; two prompts one that outlives its turn and
  the next; `MaxSaid` 3 a message, its reply and a stop.
* *Vault.* `Budget` 3 is two operations that race and a failure, or three
  operations; `LastName` 2 a name that is taken and the next. Both notes have one
  title, so a name the one left may be found, checked and written by the other.
  The optional fields (`Extras`) matter to `vault_delete_project` only.
* *Models.* Two chunks give a part that is short, whole or too long; `Budget` 3 a
  file's three attempts.

**Fairness.** The ledger's runs, `sessions`, `index` and `vault` need none.

* `capture`: a thread inside a toggle goes on (`WF` on `Proceed`: negotiation and
  joins have time limits in the code); the watchdog's poll meets a free lock time
  and again (`SF` on `Tick`: it sleeps and retries for ever); a toggle does not
  panic each time (`SF` on `Settle`).
* `sessions_progress`: threads run on (`WF`) and whoever waits for one of the two
  mutexes gets it some time (`SF` on `Turn` and `DistillTurn`): a std `Mutex`
  promises no order, but the number of waiting threads is finite. It runs with no
  window open: retries and deletes only add runs and take transcripts away, which
  retention does in that run as well.
* `backup`: the worker's deadline passes and its flush goes on (`WF` on
  `FlushDue`, its `Build` and `Rename`, and `EndFlush`), and an app in use sends
  its worker a job now and then (`WF` on `OtherJob`): after a failed write nothing
  else sets the deadline again.
* `chat`: the threads of a running app are scheduled (`WF` on each chat's `Pump`,
  `Threads` and `Distills`, on the second half of a command and on the `Sweep`).
* `models`: the worker's thread is scheduled (`WF` on `Worker`).

Nothing is assumed of users, crashes, launches, devices, the child process, the
network or sweeps.

## 5. What is proved

### The ledger

`LedgerProofs` proves, for any notes, lines, words, owners, dates, readings and
alias sets, of every reachable state of `Ledger!Spec`:

| Theorem | Property |
|---|---|
| `TypeCorrect` | `TypeOK` |
| `OneHolder` | `OneHolderPerLine` |
| `ColumnsAlwaysFit` | `ProvenanceFitsState` |
| `UntrackedByOneMeeting` | `MachineUntrackHasOneSource` |
| `PromotionSticks` | `ManualEnrolmentSticks` |
| `DirectionsFit` | `DirectionFitsOwner` |

None of these is inductive alone. A revived or reworded row keeps its columns
only because it had a type; a sync that links a line keeps one holder only
because the line was free or was retired in the same pass; an untracked entry
keeps one source only because no path hands a line to an entry that is not live.
So the invariant `IInv` joins them: per row (`RowOK`) its type, its columns, its
promotion and its direction; per ledger `OneHolderPerLine` and
`MachineUntrackHasOneSource`. The heart of the proof is the lemma
`ReconcileStep`, which says once what a whole reconciliation may do: a row is
left alone, reworded, heard, moved to another project or parked, or it is a new
open row; a new reference is of a fresh line, to a live or a new entry. Every
conjunct of `IInv` follows from that, as it does from the far smaller steps of
the other jobs.

Assumptions: those of `Ledger` (the line's note, words and owner are functions
of it; a reading is of one note and its asks are among its lines; the user's own
spelling is not the token for nobody; the empty slug is no project). TLC
evaluates them on every instance.

It proves, from the same invariant, what no step may do:

| Theorem | Property |
|---|---|
| `OnlyPeopleReopen` | `OnlyAPersonReopens` |
| `LostLinesAsk` | `LostLineAsks` |
| `OnePromiseOneEntry` | `NoDuplicateMinted` |
| `ChangesAreMarked` | `ChangesMarkTheirProjects` |

`IInv` makes every step well typed. Each job is shown to do no more to a row than
a list of changes allows (`JobStep`), and each property follows from that list.
For `ChangesMarkTheirProjects` a lemma says which projects a reconciliation marks
(`ReconcileMarks`): it opens the pass once, with the projects a row was in and
the one it is moved to. A row there is all a snapshot writes of it, the touched
flag, its lines, links and claims included; `OnlyTouches` names the calls that
set the flag alone and mark nothing, and a reopening marks when it is done.

### The readings

`LedgerProofs` proves of `LedgerReadings!RSpec`: `ReadingsAreLedger` (the
history variables only watch, so it implements `Ledger!Spec` and has its
theorems), `OwedAreHeld` (`OwedLinesHeld`) and `ResyncIsQuiet`
(`ResyncOfDistinctLinesWritesNothing`). The last one needs that a reconciliation
leaves nothing to do for the page it has read (`AllSettled`): every line is held
by a live entry in the page's project that has heard it, or was not asked for.

### The follow-up

It proves of `LedgerFollowUp!FSpec`, for any conversations:

| Theorem | Property |
|---|---|
| `FollowUpTyped` | `FollowUpTypeOK` |
| `SupersededMeansLinked` | `SupersededIffLinked` |
| `ClosesHaveClaims` | `ConversationCloseHasClaim` |
| `ClaimedLinesStay` | `ClaimedLineStays` |
| `FirstChangesWin` | `FirstChangeWins` |
| `FollowUpKeepsLines` | `FollowUpLosesNoLine` |

The invariant `FInv` adds to `IInv` what is known between two commits. Of the
pass (`PassOK`): what was read of an update still holds when it writes, since the
assistant moves neither a line nor a claim, only states and links. Of state and
graph (`LinksOK`): no two calls are on one entry, an entry that is being judged is
as its call read it, and it is linked exactly if superseded, but between the
commits of the call that is on it. All that is said of entries that are not
`torn`, and two calls that come to one entry tear it, so neither process needs to
know what the other writes. There is one lemma for each commit (`WeighStep`,
`RetireHolderStep`, `GiveLineStep`, `CheckLinkStep`, `InsertLinkStep`,
`BecomeHistoryStep`, `RefusedStep`, `AddEvidenceStep`, …), for the assistant's
(`AssistantBeginsStep`, `AssistantWritesStep`), for the stops, and one for all
that happens beside a pass (`JobBeside`). `Related` says that no job of the
ledger reaches or leaves
"superseded" but by a reopening, which drops the links.

### The backup

`BackupProofs` proves `BackupTyped`, `UnlistedMatch` (`UnlistedSnapshotsMatch`)
and `LostComesBack` (`LostLedgerComesBack`), for any lines, projects and calls of
the assistant. A snapshot that was read and is not yet renamed in is still what
the ledger says, unless a commit crossed it (`ReadingsHold`). Whoever commits
marks what it changed, so a file falls behind only together with a process that
knows, or as `lapsed`. So a ledger lost while nothing is behind is spelled by the
files of the folders, and no process writes until it is restored. Assumptions:
those of `LedgerBackup`.

### The index

`IndexProofs` proves, for any notes, files, writers, edits and faults:

| Theorem | Property |
|---|---|
| `IndexTyped` | `IndexTypeOK` |
| `SettledIsCurrent` | `SettledIndexIsCurrent` |
| `LedgerHasTheWord` | `LedgerHasTheIndexsWord` |

The index is wrong most of the time, so the invariant (`IndexInv`) speaks of the
moments when no change is unseen and the watcher holds none (`Calm`). Then a job
that no pass follows says what the files say or is known to be late
(`JobsAreRight`), and if no pass waits the rows are right, or the pass under way
has read all notes up to its place, and theirs are (`RowsAreRight`,
`ScanIsRight`). So a late job is harmless when a pass follows it, and the sweep at
the end is sound because a note with a file has been seen by then. The ledger's
side (`WordInv`) is two facts: what it was last told of a note is what the row
says (`ToldIsRow`), and what it was never told it is owed, by a pass that finds
the row without its items or by the seed (`NoneIsOwed`). Lemmas on the last word
of a queue (`AppendWord`, `HearWord`, `BatchWord`) say what a send, a hearing and
a crash do to it. Assumptions: those of `IndexWorker`; the tokens are no notes,
rows, jobs or words.

### The models

`ModelProofs` proves `DownloadTyped`, `OnlyVerified` (`OnlyVerifiedIsReady`) and
`StopIsObeyed` (`StopLetsOneFileThrough`), for any files, sizes and attempts. A
part is renamed only from two places of the worker, which only a part whose bytes
were just hashed reaches; and the flag of a run that was asked to stop stays set
while the run lasts, because only the command that wins the guard clears it.

### The vault

`VaultProofs` proves `VaultTyped`, `NoNoteLost` (`NoNoteIsLost`), `OneFile`
(`OneFilePerNote`) and `OneExample` (`OneExamplePerNote`), for any notes,
projects, actors, titles and bounds.

None of the three is inductive. Titles repeat and a name is free again once its
file has moved, so an operation that comes back to a name it found may meet there
the file of another note, or none. The invariant of the files (`VaultInv`)
therefore says nothing of names and only counts (`Balanced`): a note has one file
and one more for each move that has linked its new name (`Movers`), at least while
nobody asked to delete it or overran it, at most while no move of it was cut and
no operation strayed. Each step is shown to keep that balance (`Keeps`): it takes
a file of a note without ending its move, or gives it one without beginning a
move, only if the histories say so; a rename is a bijection of the files. The
counting uses the library's theorems on finite sets; that
the first free name exists, its theorem on well-founded orders.

For the examples, the
invariant (`ExampleInv`) speaks of the notes the histories leave clean, as the
property does, and says seven things of each (`Kept`). One actor at most has the
note in hand (`OneHand`), and while one has, nobody else works on a project
(`AloneInHand`). That actor's operation knows at each of its steps where
the note's files can be and which one project can have learnt of it (`Placed`).
A note nobody has in hand is filed where it was learnt, unless a deletion of that
project is under way (`LearntWhereFiled`). Such a deletion removes what its folder
knows of a note that still has a file, because what was written after it listed
the logs is of notes no longer clean (`DeletionForgets`), and a rename has in hand every note its folder knows
of that still has a file (`RenameHasAll`). The property follows from the last
part: one project at most learnt of the note, in either log (`LearntOnce`). A
step then either leaves a note it does not have in hand with fewer files and
examples (`OtherKept`) or owes the new `Placed` for the one it has (`OwnKept`).

### The chat

`ChatProofs` proves `ChatTyped`, `PromptsAnswered` (`PromptsAreAnsweredOnce`) and
`NotesAreWhole` (`NoteHasTheWholeChat`), for any chats, prompts, messages and
faults. For the prompts the invariant says where each of them is (`Places`): in
the events its child emitted, on the open card, in the command of a click or
resolved in a transcript, in one of these and once; and what an Allow on its way
to the child, or a tool that ran, implies (`Grants`): the user clicked it, and
the prompt has left every place but that click. For the notes it says that the
exit is the last item of a child that is gone (`Ends`), and that a chat that is
scheduled, being read, noted or left to a sweep is over: no child and no item
that could still reach its transcript (`Whole`).

### The capture toggle

`CaptureProofs` proves, for any number of presses, commands and threads that may
panic, and any confirmation count:

| Theorem | Property |
|---|---|
| `CaptureTyped` | `CaptureTypeOK` |
| `TogglesExclude` | at most one thread is inside a start, a stop or a replay |
| `HonestLight` | `LightIsHonest`: `CaptureToggle` implements `RecordingLight` |
| `SpillKept` | `StashKept` |

The invariant says what the lock buys. A thread is inside exactly while it holds
the lock (`LockIsHeld`), so the announcement and the consent a start began with
still stand when its streams come up, possibly seconds later (`StartIsLit`), and
a capture is lit as long as it is engaged (`ActiveIsLit`). Streams still being
joined belong to a thread that is stopping (`DrainingStops`), so whoever else
turns the light off finds none. The steps that touch the light are mapped to
those of `RecordingLight` one by one; all others stutter. Assumptions: the kinds
of threads are disjoint and none is the token of the free lock; the debounce
count is positive.

### The sessions

`SessionProofs` proves, for any apps on one vault, meetings, windows and policies:

| Theorem | Property |
|---|---|
| `SessionsTyped` | `SessionTypeOK` |
| `NothingIsLost` | `NothingLost` |
| `ClaimsAreRuns` | `RunsAreClaimed` |
| `LiveSpillsStay` | `LiveSpillStays` |
| `LandsOnce` | `NoDoubleLanding` |

`NothingLost` alone is not inductive: a directory may be removed at several
places, each of which decides by what it saw earlier. The invariant relates those
stages to the files. Whoever records, waits, recovers or transcribes holds the
lock of the directory, if that exists, and is the only one (`OwnersAlone`), and nobody else knows of a
meeting before its first transcription (`FirstOwnerAlone`). A thread that goes on
to clear a directory does so for a meeting that is safe, by a transcript, a note
or the user's own wish, or that never was whole (`ClearedIsSafe`); a transcript
is tidied only beside a note (`TidiedIsNoted`). What is safe stays safe, whatever
crashes in between. Assumptions: the token of the free lock is no app and no
meeting, and windows belong to apps.

## 6. What is only checked, and what is not modelled

Every safety invariant and action property that a passing run checks is a
theorem's too. Only model-checked: `MovedNotesKeepEveryField`, which is refuted,
and everything under fairness (`StopIsHonoured`, `StaleIndicatorCorrected`,
`LossSurfaces`, `ClaimsAreReleased`, `WaitingEnds`, `BehindIsWritten`,
`EndedChatIsNoted`, `HonestRunFinishes`), which is out of the prover's reach and
stays with TLC. `ReadingsTypeOK` states the types of its module and is neither run
nor proved as a property of its own.

Not modelled, beyond the plan of section 2:

* *Numbers*: routing scores, search ranking, embeddings, alignment, filtering and
  echo cancellation.
* *Text*: parsing and rendering of notes, prompts, transcripts and settings; the
  projects' and titles' spelling.
* *Reads*: ledger views, the digest, index queries, the assistant's read tools.
  They keep no state but two cursors.
* *The operating system*: windows, tray and overlay placement, the terminal, the
  updater, the sandbox, device lists.
* *Others' processes*: inference engines and the Claude process, which appear as
  an outcome or as the chat's external child.
* Benchmarks and metrics; schema migrations; power loss (a file that was synced
  and renamed is taken to be there).
* Of the ledger: `unlink_entries`, which nothing in the app calls. Of the worker:
  its replies to commands and their time limits. Of the downloads: progress events
  and a second app. Of the Settings: the mic test.

The map therefore names a small part of the repository's lines. More than two in
five Rust lines are tests; most of the others are the parsing, rendering,
scoring, queries and views listed above, which hold little control to model.

## 7. Where the code and its words differ

Refuted by a run (`PROJECT.json`, `findings`):

* `delete_project` rebuilds every note it moves to the Inbox from seven fields, so
  title, category and tracking are gone, while its comment says "preserving its
  stem and every field but the routing" (`vault.rs:1361`, `vault_delete_project`).

Seen while modelling, and reflected in the models, with no run of their own:

*Ledger*

* A deleted line can be paired, as if edited, with an old line the meeting's mode
  had declined; the entry takes its words.
* Re-syncing an unchanged note may write once (`sync.rs:4-5` says never), when a
  ticked line repeats a later one; hence `ResyncOfDistinctLinesWritesNothing`.
* `mark_touched` marks no project, since "every caller is mid-mutation and has
  already done so" (`store.rs:583-585`). Three have not: promoting a line its entry
  holds already (`enrollment.rs:270-272`), claiming an entry that is mine
  (`store.rs:563-565`) and dismissing a claim that is gone. The snapshot, which
  writes the flag, stays behind; hence `OnlyTouches`.
* A reopening drops the links in a commit of its own, before it marks the project
  (`store.rs:684-691`): if it stops there, the entry is superseded by nothing, and
  its snapshot still has the link, against "the state and the graph stay
  consistent" (`store.rs:679-681`).
* "Keep open" on a parked commitment removes the claim and leaves the entry in
  review; dismissing a claim reopens an entry a person had closed by hand
  (`store.rs:826-827`).
* Any mention reopens an entry in review, whatever the question
  (`sync.rs:720-722`).

*Follow-up*

* The holder a refresh takes a line from may have been changed earlier in the
  pass (`distill_apply.rs:127-129`); hence the exception in `FirstChangeWins`.
* Taking a line over and closing its old holder are two calls. A crash or an error
  between them leaves a live duplicate with no line and no question, which a
  comment calls closed out "rather than leaving a second live commitment for one
  promise" (`distill_apply.rs:243-246`). A holder that was settled when it was
  looked up, and that the assistant reopens before the line is taken, stays live
  without a line. Hence the exceptions in `FollowUpLosesNoLine`.
* `link_entries` never asks whether the replacement is live (`store.rs:901-903`),
  and runs two bare statements, which its check is to keep together: "the exact
  drift this state is meant to make impossible" (`store.rs:918-923`). It is not
  impossible. A crash after the insert, or the assistant's waiver between the
  check and the move, leaves a link on an entry that is not superseded; a reopening
  by the assistant that crosses it leaves a superseded entry without one. Hence
  `torn`, which `SupersededIffLinked` leaves out.
* A dismissal removes the claim in its own commit (`store.rs:841-845`). A crash
  before it reopens leaves an entry closed by a conversation with no claim to
  contest, until "a retry after a crash" for which no claim is left to be shown.
  Hence `cut`, which `ConversationCloseHasClaim` leaves out.
* A worker that took a line over opens an entry that was in review when it began
  (`store.rs:1000-1004`), whoever settled it since.
* A sure report closes again an entry the assistant closed by hand meanwhile and
  overwrites who closed it (`store.rs:235-238` allows closed to closed).
* When the link is refused, the entry that took the line does not count as changed
  in that pass.

*Backup*

* The app and the assistant may write one project's file in turn so that it stays
  behind with nobody to list it; each process knows only its own changes
  (`update_action_item.rs:123-125`). What the assistant fails to write it forgets.
* A restore that stops at an unreadable file leaves the ledger empty; the seed that
  follows is written over the other snapshots.
* After a restore that met one line in two files, "The database now equals the
  snapshots" (`snapshot.rs:584`) is untrue of the second file.
* A file of a newer format is passed over by the restore, then overwritten.

*Capture and sessions*

* An impatient second press can start a recording, if its retry comes just after
  the stop.
* A press left behind by the window's stop is replayed by the watchdog and may
  meet a later recording (`capture_control.rs:130-131`).
* A mic test during which a meeting was started and stopped keeps its result: it
  looks at the capture again when it is over and finds none, although a capture
  "during the test" makes its result "untrustworthy — discard it"
  (`audio_cmds.rs:554-558`).
* A spill whose last write fails is handed on as complete and the samples kept in
  memory are dropped (`combine.rs:358-379`, `485-506`), although a full disk is to
  degrade "rather than dropping audio" (`combine.rs:345-348`).
* A spill directory that outlives a discarded transcript is transcribed again.
* A meeting is listed as needing attention between its transcript landing and
  its automatic distill (`distill_cmds.rs:185`); a retry from a stale row makes a
  second note (`distill_cmds.rs:160`); a delete looks at the claims before, not
  while, it removes the files (`distill_cmds.rs:247-249`); two apps do not see
  each other's claims (`distill_cmds.rs:101`).

*Index*

* A rebuild that fails halfway leaves the index cleared; its message is written on
  the belief that it "leaves the previous index in place"
  (`index_state.rs:682-683`).
* A ledger is seeded only by a process that found it empty. If that process's
  first pass fails and the ledger hears of one note before the process ends, "no
  later launch would ever re-offer the seed": the comment says so of a lost reply
  (`index_state.rs:586-592`), and it holds of a failed pass too. Found by
  strengthening `LedgerHasTheIndexsWord` to several faults; hence the launch's
  part in `unheard`.
* A folder renamed outside the app names no Markdown file in its event, and no
  pass follows until something else changes.
* A pass that fails midway leaves rows the ledger never hears of: a later pass
  finds their files unchanged.
* The rebuild's loop over removed notes never has one, the rows being cleared
  before.

*Vault*

* A deletion takes the file's absence for a racing deletion, "the note is already
  gone" (`vault.rs:1780-1781`); it may be a racing move.
* After a project's rename a stale note does not always converge "the next time it
  is edited" (`vault.rs:1461-1462`): an edit keeps the frontmatter's project.
* A crash between a move's link and its removal leaves two files with one id, after
  which `find_note_anywhere` reports an error for every operation on that note.
* A move from a stale read, followed by a move back and a removal that fails, can
  leave two files as well; a project's deletion that stops halfway leaves its moved
  notes' examples behind. Hence the histories `cut`, `crossed` and `swept`.
* A save whose file is moved between its check and its rename creates the old name
  again, so that two files have one id, although it errors "rather than re-creating
  it". The comment accepts that window (`note.rs:1180-1182`), which the promise of
  moves does not mention, that "the vault never ends with two files claiming one
  id" (`note.rs:1225-1227`). The same comes of a save under a stale name that
  another note has by then. Hence `strayed`.
* Two notes of one title: an operation that found a note keeps its path, and where
  the other note has taken that name meanwhile a save overwrites it, a move or a
  deletion removes it. Nothing compares ids. Hence `overrun`, of which
  `NoNoteIsLost` says that it is the only way to lose a note.
* When a move's removal fails, the error of removing its new name again is ignored
  (`note.rs:1258`): both names stay, although "the new link is rolled back"
  (`note.rs:1226`).

*Chat*

* A card the pump registers after a stop has denied what was pending outlives its
  turn, although "every non-answer path resolves to deny"
  (`chat_cmds.rs:19-23`); it is denied when the session ends.
* A line is only queued for the child, so an Allow to a dying child is recorded as
  allowed; a card put back after the exit was handled gets no record at all.
* A message recorded by `chat_send` may come after its chat's distill has read the
  transcript; `NoteHasTheWholeChat` speaks of replies alone.
* A stale stop is to be consumed by the next message, so that it "cannot relabel
  this turn's real failure" (`chat_cmds.rs:483-485`); the flag is cleared after the
  message is on its way, and a turn that fails before that is called stopped. The
  flag is not in the model.

*Models*

* A download of the wrong size is reported as "discarded" (`models_cmds.rs:156-163`)
  although a short part is kept and resumed.
* What is ready goes by a file's size alone; nothing verified is hashed again.
