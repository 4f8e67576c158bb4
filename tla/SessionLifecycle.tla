-------------------------- MODULE SessionLifecycle --------------------------
(***************************************************************************)
(* From a recorded meeting to its note (src-tauri/src/transcribe.rs,       *)
(* distill_cmds.rs, retention.rs; kodabi-core/src/inflight.rs,             *)
(* raw_session.rs, sessions.rs, retention.rs).                             *)
(*                                                                         *)
(* A capture spills into a directory its app keeps locked.  A stop hands   *)
(* it to a transcription thread; a launch recovers what earlier apps left. *)
(* The transcript lands as one file, the directory is removed, the distill *)
(* thread writes the note.  Threads of one app queue on one transcription  *)
(* and one distill lock; nothing keeps a second app from running on the    *)
(* same vault.  Apps die at any step: only the files survive.              *)
(***************************************************************************)
EXTENDS Naturals, FiniteSets

CONSTANTS
    Apps,        \* the app's processes
    Windows,     \* those whose window is open; the others sit in the tray
    Meetings,    \* each is captured once; its files are named by its instant
    Nobody,      \* no process: a directory that is not locked
    Policies     \* the retention policies the user may choose

ASSUME AppsAssumption ==
    /\ Nobody \notin Apps \cup Meetings
    /\ Windows \subseteq Apps

ASSUME PoliciesAssumption == Policies \subseteq {"keep_all", "keep_days", "discard"}

VARIABLES
    up,          \* the apps that run
    scanned,     \* the apps whose recovery has looked for orphans
    stage,       \* where each app's thread for each meeting is
    captured,    \* the meetings whose capture began
    spill,       \* its spill directory: "full" is enough to be transcribed
    dirLock,     \* who holds its lock file
    transcript,  \* the meetings with a .jsonl in sessions/
    notes,       \* the notes whose source is the meeting: none, one, more
    claims,      \* DISTILLS_IN_FLIGHT of each app
    run,         \* where each app's distill of each meeting is
    tidying,     \* the meeting whose distill succeeded and is being tidied up
    rows,        \* the needs-attention list each window shows
    deleting,    \* the meeting a delete_session found unclaimed
    recorded,    \* history: meetings with that much on disk at some time
    letGo,       \* history: meetings the user deleted or let expire
    landings     \* history: transcripts written for it: none, one, more

vars == <<up, scanned, stage, captured, spill, dirLock, transcript, notes,
          claims, run, tidying, rows, deleting, recorded, letGo, landings>>

apps == <<up, scanned>>
audio == <<captured, spill, dirLock>>
files == <<transcript, notes>>
views == <<rows, deleting>>
distills == <<claims, run, tidying>>
history == <<recorded, letGo, landings>>

SessionTypeOK ==
    /\ up \subseteq Apps
    /\ scanned \subseteq up
    /\ stage \in [Apps -> [Meetings -> {"idle", "recording", "waiting", "orphan",
                                        "transcribing", "landed", "unlocked", "leftover", "clearing"}]]
    /\ captured \subseteq Meetings
    /\ spill \in [Meetings -> {"none", "scrap", "full"}]
    /\ dirLock \in [Meetings -> Apps \cup {Nobody}]
    /\ transcript \subseteq Meetings
    /\ notes \in [Meetings -> 0..2]
    /\ claims \in [Apps -> SUBSET Meetings]
    /\ run \in [Apps -> [Meetings -> {"none", "queued", "running", "noted"}]]
    /\ tidying \in [Apps -> Meetings \cup {Nobody}]
    /\ rows \in [Apps -> SUBSET Meetings]
    /\ deleting \in [Apps -> Meetings \cup {Nobody}]
    /\ recorded \subseteq Meetings
    /\ letGo \subseteq Meetings
    /\ landings \in [Meetings -> 0..2]

Init ==
    /\ up = {}
    /\ scanned = {}
    /\ stage = [a \in Apps |-> [m \in Meetings |-> "idle"]]
    /\ captured = {}
    /\ spill = [m \in Meetings |-> "none"]
    /\ dirLock = [m \in Meetings |-> Nobody]
    /\ transcript = {}
    /\ notes = [m \in Meetings |-> 0]
    /\ claims = [a \in Apps |-> {}]
    /\ run = [a \in Apps |-> [m \in Meetings |-> "none"]]
    /\ tidying = [a \in Apps |-> Nobody]
    /\ rows = [a \in Apps |-> {}]
    /\ deleting = [a \in Apps |-> Nobody]
    /\ recorded = {}
    /\ letGo = {}
    /\ landings = [m \in Meetings |-> 0]

OneMore(n) == IF n = 2 THEN 2 ELSE n + 1

Enters(a, m, place) == stage' = [stage EXCEPT ![a][m] = place]
Locks(a, m) == dirLock' = [dirLock EXCEPT ![m] = a]

\* Only the holder's handle keeps the lock.
Unlocks(a, m) ==
    dirLock' = [dirLock EXCEPT ![m] = IF @ = a THEN Nobody ELSE @]

-----------------------------------------------------------------------------
(* The processes.                                                          *)

Launch(a) ==
    /\ a \notin up
    /\ up' = up \cup {a}
    /\ UNCHANGED <<scanned, stage, audio, files, views, distills, history>>

\* The process ends: its handles, claims and threads go with it.
Crash(a) ==
    /\ a \in up
    /\ up' = up \ {a}
    /\ scanned' = scanned \ {a}
    /\ stage' = [stage EXCEPT ![a] = [m \in Meetings |-> "idle"]]
    /\ dirLock' = [m \in Meetings |-> IF dirLock[m] = a THEN Nobody ELSE dirLock[m]]
    /\ claims' = [claims EXCEPT ![a] = {}]
    /\ run' = [run EXCEPT ![a] = [m \in Meetings |-> "none"]]
    /\ tidying' = [tidying EXCEPT ![a] = Nobody]
    /\ rows' = [rows EXCEPT ![a] = {}]
    /\ deleting' = [deleting EXCEPT ![a] = Nobody]
    /\ UNCHANGED <<captured, spill, files, history>>

-----------------------------------------------------------------------------
(* Capturing: the directory is made and locked before anything is spilled. *)

\* Without a directory the capture stays in memory.
StartCapture(a, m) ==
    /\ a \in up
    /\ m \notin captured
    /\ \A other \in Meetings : stage[a][other] # "recording"
    /\ captured' = captured \cup {m}
    /\ Enters(a, m, "recording")
    /\ \/ spill' = [spill EXCEPT ![m] = "scrap"] /\ Locks(a, m)
       \/ UNCHANGED <<spill, dirLock>>
    /\ UNCHANGED <<apps, files, views, distills, history>>

\* Both channels hold enough on disk to be worth transcribing.
Flush(a, m) ==
    /\ stage[a][m] = "recording"
    /\ spill[m] = "scrap"
    /\ spill' = [spill EXCEPT ![m] = "full"]
    /\ recorded' = recorded \cup {m}
    /\ UNCHANGED <<apps, stage, captured, dirLock, files, views, distills, letGo, landings>>

\* Both sources ran long enough; finalizing flushes the rest.  An error of that
\* last write is swallowed and the samples dropped: the files, however short,
\* go to the transcription.
StopMeeting(a, m) ==
    /\ stage[a][m] = "recording"
    /\ Enters(a, m, "waiting")
    /\ \/ /\ spill[m] # "none"
          /\ spill' = [spill EXCEPT ![m] = "full"]
          /\ recorded' = recorded \cup {m}
       \/ UNCHANGED <<spill, recorded>>
    /\ UNCHANGED <<apps, captured, dirLock, files, views, distills, letGo, landings>>

\* A mis-tap, or a lone source.
StopNothing(a, m) ==
    /\ stage[a][m] = "recording"
    /\ spill[m] # "full"
    /\ Enters(a, m, "clearing")
    /\ Unlocks(a, m)
    /\ UNCHANGED <<apps, captured, spill, files, views, distills, history>>

-----------------------------------------------------------------------------
(* Recovery: every directory with enough in it that no one holds.          *)

\* A mutant of Recoverable: a directory is recovered whoever holds its lock.
FoundUnlocked(m) == spill[m] = "full"

Recoverable(m) == spill[m] = "full" /\ dirLock[m] = Nobody

Scan(a) ==
    /\ a \in up \ scanned
    /\ scanned' = scanned \cup {a}
    /\ stage' = [stage EXCEPT ![a] =
                   [m \in Meetings |-> IF Recoverable(m) THEN "orphan" ELSE stage[a][m]]]
    /\ dirLock' = [m \in Meetings |-> IF Recoverable(m) THEN a ELSE dirLock[m]]
    /\ UNCHANGED <<up, captured, spill, files, views, distills, history>>

\* A mutant of Discardable: the lock is not looked at.
SweptAlsoLocked(m) == spill[m] = "scrap"

\* Corrupt, lone-channel and mis-tap leftovers that no one holds.
Discardable(m) == spill[m] = "scrap" /\ dirLock[m] = Nobody

\* sweep_stale, on recovery's end and on the retention schedule.
Sweep(a, m) ==
    /\ a \in up
    /\ Discardable(m)
    /\ spill' = [spill EXCEPT ![m] = "none"]
    /\ UNCHANGED <<apps, stage, captured, dirLock, files, views, distills, history>>

-----------------------------------------------------------------------------
(* Transcription: one thread of an app at a time, TRANSCRIBE_LOCK.         *)

\* The lock is held to the end of the thread, the removal included.
Transcribing(a) ==
    \E m \in Meetings : stage[a][m] \in {"transcribing", "landed", "unlocked", "leftover"}

Transcribe(a, m) ==
    /\ stage[a][m] = "waiting"
    /\ ~Transcribing(a)
    /\ Enters(a, m, "transcribing")
    /\ UNCHANGED <<apps, audio, files, views, distills, history>>

\* recover_orphan without the look at session_exists.
RecoverAgain(a, m) ==
    /\ stage[a][m] = "orphan"
    /\ ~Transcribing(a)
    /\ Enters(a, m, "transcribing")
    /\ UNCHANGED <<apps, audio, files, views, distills, history>>

\* An orphan whose transcript is already there is only cleared away.
Recover(a, m) ==
    /\ stage[a][m] = "orphan"
    /\ ~Transcribing(a)
    /\ \/ m \in transcript /\ Enters(a, m, "leftover") /\ Unlocks(a, m)
       \/ m \notin transcript /\ Enters(a, m, "transcribing") /\ UNCHANGED dirLock
    /\ UNCHANGED <<apps, captured, spill, files, views, distills, history>>

\* A mutant of TranscriptionFails: a failed transcription removes its directory.
ClearsOnFailure(a, m) ==
    /\ stage[a][m] = "transcribing"
    /\ Enters(a, m, "leftover")
    /\ Unlocks(a, m)
    /\ UNCHANGED <<apps, captured, spill, files, views, distills, history>>

\* A mutant of TranscriptionFails: a failed transcription waits again.
RequeuesOnFailure(a, m) ==
    /\ stage[a][m] = "transcribing"
    /\ Enters(a, m, "waiting")
    /\ UNCHANGED <<apps, audio, files, views, distills, history>>

\* A missing model, a full disk: the directory waits for a launch.
TranscriptionFails(a, m) ==
    /\ stage[a][m] = "transcribing"
    /\ Enters(a, m, "idle")
    /\ Unlocks(a, m)
    /\ UNCHANGED <<apps, captured, spill, files, views, distills, history>>

\* write_raw_session: the file appears whole, by a hard link.  Audio on disk
\* must still be there.
Land(a, m) ==
    /\ stage[a][m] = "transcribing"
    /\ dirLock[m] = a => spill[m] # "none"
    /\ Enters(a, m, "landed")
    /\ transcript' = transcript \cup {m}
    /\ recorded' = recorded \cup {m}
    /\ landings' = [landings EXCEPT ![m] = OneMore(@)]
    /\ UNCHANGED <<apps, audio, notes, views, distills, letGo>>

\* The recording is kept beside it, then the directory is let go.
RetainAudio(a, m) ==
    /\ stage[a][m] = "landed"
    /\ Enters(a, m, "unlocked")
    /\ Unlocks(a, m)
    /\ UNCHANGED <<apps, captured, spill, files, views, distills, history>>

\* remove_dir_all: whole, or failing before or after the audio is gone.
Removed(m) ==
    IF spill[m] = "none" THEN {"none"} ELSE {"none", "scrap", spill[m]}

\* The claim comes before the thread: it covers the wait as well.
QueueDistill(a, m) ==
    /\ claims' = [claims EXCEPT ![a] = @ \cup {m}]
    /\ run' = [run EXCEPT ![a][m] = "queued"]

\* The directory is removed and the distill chained, unless it is claimed.
FinishTranscription(a, m) ==
    /\ stage[a][m] = "unlocked"
    /\ Enters(a, m, "idle")
    /\ \E left \in Removed(m) : spill' = [spill EXCEPT ![m] = left]
    /\ \/ m \in claims[a] /\ UNCHANGED <<claims, run>>
       \/ m \notin claims[a] /\ QueueDistill(a, m)
    /\ UNCHANGED <<apps, captured, dirLock, files, views, tidying, history>>

\* A leftover is removed; no distill follows.
ClearAway(a, m) ==
    /\ stage[a][m] \in {"leftover", "clearing"}
    /\ Enters(a, m, "idle")
    /\ \E left \in Removed(m) : spill' = [spill EXCEPT ![m] = left]
    /\ UNCHANGED <<apps, captured, dirLock, files, views, distills, history>>

-----------------------------------------------------------------------------
(* The needs-attention list and its commands.                              *)

\* Sessions no note claims, but for the runs this process has in hand.
NeedsAttention(a) == {m \in transcript : notes[m] = 0} \ claims[a]

Refetch(a) ==
    /\ a \in up \cap Windows
    /\ rows' = [rows EXCEPT ![a] = NeedsAttention(a)]
    /\ UNCHANGED <<apps, stage, audio, files, deleting, distills, history>>

\* A retry from a row, however stale, unless a run holds the session.  The
\* window's synchronous commands run one after another.
Retry(a, m) ==
    /\ m \in rows[a]
    /\ deleting[a] = Nobody
    /\ m \notin claims[a]
    /\ QueueDistill(a, m)
    /\ UNCHANGED <<apps, stage, audio, files, views, tidying, history>>

\* delete_session looks at the claims, then removes the files.
DeleteAsked(a, m) ==
    /\ m \in rows[a]
    /\ deleting[a] = Nobody
    /\ m \notin claims[a]
    /\ deleting' = [deleting EXCEPT ![a] = m]
    /\ UNCHANGED <<apps, stage, audio, files, rows, distills, history>>

DeleteDone(a, m) ==
    /\ deleting[a] = m
    /\ deleting' = [deleting EXCEPT ![a] = Nobody]
    /\ transcript' = transcript \ {m}
    /\ letGo' = letGo \cup {m}
    /\ UNCHANGED <<apps, stage, audio, notes, rows, distills, recorded, landings>>

\* Deleting a note takes its session's files along.
DeleteNote(a, m) ==
    /\ a \in up \cap Windows
    /\ notes[m] > 0
    /\ notes' = [notes EXCEPT ![m] = @ - 1]
    /\ transcript' = transcript \ {m}
    /\ letGo' = letGo \cup {m}
    /\ UNCHANGED <<apps, stage, audio, views, distills, recorded, landings>>

\* prune_sessions, by age alone: a meeting without a note expires as well.
Prune(a, m) ==
    /\ a \in up
    /\ "keep_days" \in Policies
    /\ m \in transcript
    /\ transcript' = transcript \ {m}
    /\ letGo' = letGo \cup {m}
    /\ UNCHANGED <<apps, stage, audio, notes, views, distills, recorded, landings>>

-----------------------------------------------------------------------------
(* Distilling: one thread of an app at a time, DISTILL_LOCK.               *)

Distilling(a) ==
    \/ \E m \in Meetings : run[a][m] \in {"running", "noted"}
    \/ tidying[a] # Nobody

\* The transcript is read once, at the beginning.
BeginRun(a, m) ==
    /\ run[a][m] = "queued"
    /\ ~Distilling(a)
    /\ m \in transcript
    /\ run' = [run EXCEPT ![a][m] = "running"]
    /\ UNCHANGED <<apps, stage, audio, files, views, claims, tidying, history>>

Failing(a, m) ==
    \/ run[a][m] = "queued" /\ ~Distilling(a) /\ m \notin transcript
    \/ run[a][m] = "running"

\* A mutant of RunFails: a failed run keeps its claim.
FailKeepsClaim(a, m) ==
    /\ Failing(a, m)
    /\ run' = [run EXCEPT ![a][m] = "none"]
    /\ UNCHANGED <<apps, stage, audio, files, views, claims, tidying, history>>

\* No transcript any more, a failed call, a panic: the claim is released.
RunFails(a, m) ==
    /\ Failing(a, m)
    /\ run' = [run EXCEPT ![a][m] = "none"]
    /\ claims' = [claims EXCEPT ![a] = @ \ {m}]
    /\ UNCHANGED <<apps, stage, audio, files, views, tidying, history>>

\* A second note of a session gets a name of its own.
WriteNote(a, m) ==
    /\ run[a][m] = "running"
    /\ run' = [run EXCEPT ![a][m] = "noted"]
    /\ notes' = [notes EXCEPT ![m] = OneMore(@)]
    /\ UNCHANGED <<apps, stage, audio, transcript, views, claims, tidying, history>>

\* The claim goes before the outcome is announced.
Release(a, m) ==
    /\ run[a][m] = "noted"
    /\ run' = [run EXCEPT ![a][m] = "none"]
    /\ claims' = [claims EXCEPT ![a] = @ \ {m}]
    /\ tidying' = [tidying EXCEPT ![a] = m]
    /\ UNCHANGED <<apps, stage, audio, files, views, history>>

\* The policy of the moment discards the transcript now, or keeps it.
Tidy(a) ==
    /\ tidying[a] # Nobody
    /\ tidying' = [tidying EXCEPT ![a] = Nobody]
    /\ \E policy \in Policies :
          transcript' = IF policy = "discard" THEN transcript \ {tidying[a]} ELSE transcript
    /\ UNCHANGED <<apps, stage, audio, notes, views, claims, run, history>>

-----------------------------------------------------------------------------
\* What a thread does once it has begun.
Transcription(a, m) ==
    \/ TranscriptionFails(a, m)
    \/ Land(a, m)
    \/ RetainAudio(a, m)
    \/ FinishTranscription(a, m)
    \/ ClearAway(a, m)

Turn(a, m) == Transcribe(a, m) \/ Recover(a, m)

Distillation(a, m) == RunFails(a, m) \/ WriteNote(a, m) \/ Release(a, m)

DistillTurn(a, m) == BeginRun(a, m) \/ RunFails(a, m)

Next ==
    \/ \E a \in Apps : Launch(a) \/ Crash(a) \/ Scan(a) \/ Refetch(a) \/ Tidy(a)
    \/ \E a \in Apps, m \in Meetings :
         \/ StartCapture(a, m) \/ Flush(a, m) \/ StopMeeting(a, m) \/ StopNothing(a, m)
         \/ Sweep(a, m) \/ Prune(a, m)
         \/ Turn(a, m) \/ Transcription(a, m)
         \/ Retry(a, m) \/ DeleteAsked(a, m) \/ DeleteDone(a, m) \/ DeleteNote(a, m)
         \/ DistillTurn(a, m) \/ Distillation(a, m)

\* Threads run on; the two locks are free time and again, and whoever waits
\* for one is not passed over for ever.
Fairness ==
    \A a \in Apps :
      /\ WF_vars(Tidy(a))
      /\ \A m \in Meetings :
           /\ WF_vars(Transcription(a, m))
           /\ WF_vars(Distillation(a, m))
           /\ SF_vars(Turn(a, m))
           /\ SF_vars(DistillTurn(a, m))

Spec == Init /\ [][Next]_vars

FairSpec == Spec /\ Fairness

-----------------------------------------------------------------------------
\* A meeting of which enough to transcribe was on disk once is never lost,
\* whatever fails, crashes or runs beside it: that audio, its transcript or a
\* note is there, unless the user deleted it or let it expire (inflight.rs,
\* transcribe.rs).  Samples the last write of a stop failed to put on disk are
\* not spoken of.
NothingLost ==
    \A m \in recorded :
      spill[m] = "full" \/ m \in transcript \/ notes[m] > 0 \/ m \in letGo

\* A directory someone records into, or whose recording waits for its turn,
\* is never removed, by no recovery and no sweep of any app (inflight.rs).
InUse(m) ==
    \E a \in Apps : dirLock[m] = a /\ stage[a][m] \in {"recording", "waiting"}

LiveSpillStays == [][\A m \in Meetings : InUse(m) => (spill[m] # "none" => spill'[m] # "none")]_vars

\* A meeting whose transcript is on disk is not transcribed again.
NoDoubleLanding == [][\A m \in transcript : landings'[m] = landings[m]]_vars

\* A run holds its claim from before it is queued until its note is written,
\* and a claim belongs to a run (distill_cmds.rs, DISTILLS_IN_FLIGHT).
RunsAreClaimed ==
    \A a \in Apps, m \in Meetings : run[a][m] # "none" <=> m \in claims[a]

\* No claim outlives its run: a session does not vanish from the list of what
\* needs attention because some distill died.
ClaimsAreReleased ==
    \A a \in Apps, m \in Meetings : m \in claims[a] ~> m \notin claims[a]

\* A stopped or recovered meeting gets its turn.
WaitingEnds ==
    \A a \in Apps, m \in Meetings :
      stage[a][m] \in {"waiting", "orphan"} ~> stage[a][m] = "idle"
=============================================================================
