---------------------------- MODULE ModelDownload ----------------------------
(***************************************************************************)
(* Fetching the speech models (kodabi-core/src/models/download.rs,         *)
(* status.rs; src-tauri/src/models_cmds.rs).                               *)
(*                                                                         *)
(* One worker at a time fetches the files that are not on disk at their    *)
(* declared size.  Bytes land in a part file, which outlives a stop, a     *)
(* failure and the app, and take the real name once their hash is right.   *)
(***************************************************************************)
EXTENDS Naturals

CONSTANTS
    LastFile,     \* the files of the required sets, in manifest order
    Size,         \* the declared size of each, in chunks
    MaxAttempts,  \* max_attempts
    Budget        \* bound: stops, and what goes wrong in the network and on disk

ASSUME DownloadAssumption ==
    LastFile \in Nat /\ Size \in Nat \ {0} /\ MaxAttempts \in Nat \ {0} /\ Budget \in Nat

Files == 1..LastFile

VARIABLES
    real,     \* what has each file's real name
    part,     \* the part files: how long, and whether a prefix of the right bytes
    at,       \* where the worker is; "idle" when none runs
    todo,     \* the plan's files not yet fetched
    attempt,  \* of the current file
    cancel,   \* the flag cancel_model_download sets
    late,     \* history: files this run put in place since it was asked to stop
    asked,    \* history: this run was asked to stop
    spent     \* of the budget so far

vars == <<real, part, at, todo, attempt, cancel, late, asked, spent>>
disk == <<real, part>>

Empty == [len |-> 0, pure |-> TRUE]
Parts == {q \in [len : 0..Size + 1, pure : BOOLEAN] :
             (q.len = 0 => q.pure) /\ (q.len > Size => ~q.pure)}
Places == {"idle", "top", "starting", "fetching", "streaming", "reading", "measuring",
           "hashing", "hashed", "replacing", "renaming", "failed", "waiting"}

\* "other": a leftover of another size.
DownloadTypeOK ==
    /\ real \in [Files -> {"absent", "other", "right", "wrong"}]
    /\ part \in [Files -> Parts]
    /\ at \in Places
    /\ todo \subseteq Files
    /\ attempt \in 1..MaxAttempts
    /\ cancel \in BOOLEAN /\ asked \in BOOLEAN
    /\ late \in Nat /\ spent \in 0..Budget
    /\ at \notin {"idle", "top"} => todo # {}
    /\ at = "waiting" => attempt < MaxAttempts

\* status and plan go by size alone.
Complete(f) == real[f] \in {"right", "wrong"}
Missing == {f \in Files : ~Complete(f)}
Ready == Missing = {}

Current == CHOOSE f \in todo : \A g \in todo : f <= g

-----------------------------------------------------------------------------
(* The commands.                                                           *)

\* A mutant of Start: the flag is cleared before the guard is won.
ClearsFirst ==
    /\ cancel' = FALSE
    /\ IF at = "idle"
       THEN /\ at' = "top" /\ todo' = Missing /\ attempt' = 1
            /\ late' = 0 /\ asked' = FALSE
       ELSE UNCHANGED <<at, todo, attempt, late, asked>>
    /\ UNCHANGED <<disk, spent>>

\* download_models: a second call while a worker runs does nothing.
Start ==
    IF at = "idle"
    THEN /\ cancel' = FALSE
         /\ at' = "top" /\ todo' = Missing /\ attempt' = 1
         /\ late' = 0 /\ asked' = FALSE
         /\ UNCHANGED <<disk, spent>>
    ELSE UNCHANGED vars

Spend == spent < Budget /\ spent' = spent + 1

\* cancel_model_download.
Cancel ==
    /\ Spend
    /\ cancel' = TRUE
    /\ asked' = (at # "idle")
    /\ UNCHANGED <<disk, at, todo, attempt, late>>

-----------------------------------------------------------------------------
(* The worker: download, fetch_with_retries, fetch_once.                   *)

Goto(place) == at' = place
Ends == Goto("idle") /\ UNCHANGED <<todo, attempt>>
Unless(place) == IF cancel THEN Ends ELSE Goto(place) /\ UNCHANGED <<todo, attempt>>

NextFile ==
    /\ at = "top"
    /\ IF todo = {} THEN Ends
       ELSE Unless("starting")
    /\ UNCHANGED <<disk, cancel, late, asked, spent>>

\* A part longer than declared goes; one that is whole is verified as it is.
FileStarts ==
    /\ at = "starting"
    /\ LET f == Current IN
        /\ part' = IF part[f].len > Size THEN [part EXCEPT ![f] = Empty] ELSE part
        /\ Goto(IF part[f].len = Size THEN "measuring" ELSE "fetching")
    /\ UNCHANGED <<real, todo, attempt, cancel, late, asked, spent>>

\* The part is created anew unless the server resumed.
Answered(resumed) ==
    /\ at = "fetching"
    /\ part' = IF resumed THEN part ELSE [part EXCEPT ![Current] = Empty]
    /\ Goto("streaming")
    /\ UNCHANGED <<real, todo, attempt, cancel, late, asked, spent>>

\* No answer, a read or a write that fails, a rename that fails.
Breaks ==
    /\ at \in {"fetching", "reading", "measuring", "hashed", "renaming"}
    /\ Spend
    /\ Goto("failed")
    /\ UNCHANGED <<disk, todo, attempt, cancel, late, asked>>

Streams ==
    /\ at = "streaming"
    /\ Unless("reading")
    /\ UNCHANGED <<disk, cancel, late, asked, spent>>

\* The server sends the next chunk, or bytes that are not it.
Chunk ==
    /\ at = "reading"
    /\ LET f == Current
           longer(pure) == [part EXCEPT ![f] = [len |-> @.len + 1, pure |-> pure]]
       IN  \/ part[f].len < Size /\ part' = longer(part[f].pure) /\ UNCHANGED spent
           \/ part[f].len <= Size /\ Spend /\ part' = longer(FALSE)
    /\ Goto("streaming")
    /\ UNCHANGED <<real, todo, attempt, cancel, late, asked>>

\* The body ends where it should, or early.
BodyEnds ==
    /\ at = "reading"
    /\ IF part[Current].len >= Size THEN UNCHANGED spent ELSE Spend
    /\ Goto("measuring")
    /\ UNCHANGED <<disk, todo, attempt, cancel, late, asked>>

\* A short part stays for the next attempt, one too long goes.
Measures ==
    /\ at = "measuring"
    /\ LET f == Current IN
        /\ part' = IF part[f].len > Size THEN [part EXCEPT ![f] = Empty] ELSE part
        /\ Goto(IF part[f].len = Size THEN "hashing" ELSE "failed")
    /\ UNCHANGED <<real, todo, attempt, cancel, late, asked, spent>>

\* The flag is read before each block that is hashed.
Hashes ==
    /\ \/ at = "hashing" /\ Unless("hashed")
       \/ at = "hashed" /\ cancel /\ Ends
    /\ UNCHANGED <<disk, cancel, late, asked, spent>>

\* A mutant of Verifies: the length is taken for proof.
TrustsTheLength ==
    /\ at = "hashed"
    /\ Goto("replacing")
    /\ UNCHANGED <<disk, todo, attempt, cancel, late, asked, spent>>

\* A mutant of Verifies: a part that fails stays.
KeepsThePart ==
    /\ at = "hashed"
    /\ Goto(IF part[Current].pure THEN "replacing" ELSE "failed")
    /\ UNCHANGED <<disk, todo, attempt, cancel, late, asked, spent>>

Verifies ==
    /\ at = "hashed"
    /\ LET f == Current IN
        /\ part' = IF part[f].pure THEN part ELSE [part EXCEPT ![f] = Empty]
        /\ Goto(IF part[f].pure THEN "replacing" ELSE "failed")
    /\ UNCHANGED <<real, todo, attempt, cancel, late, asked, spent>>

RemovesOld ==
    /\ at = "replacing"
    /\ real' = [real EXCEPT ![Current] = "absent"]
    /\ Goto("renaming")
    /\ UNCHANGED <<part, todo, attempt, cancel, late, asked, spent>>

Renames ==
    /\ at = "renaming"
    /\ real' = [real EXCEPT ![Current] = IF part[Current].pure THEN "right" ELSE "wrong"]
    /\ part' = [part EXCEPT ![Current] = Empty]
    /\ todo' = todo \ {Current}
    /\ attempt' = 1
    /\ late' = IF asked THEN late + 1 ELSE late
    /\ Goto("top")
    /\ UNCHANGED <<cancel, asked, spent>>

Retries ==
    /\ at = "failed"
    /\ IF attempt = MaxAttempts THEN Ends ELSE Goto("waiting") /\ UNCHANGED <<todo, attempt>>
    /\ UNCHANGED <<disk, cancel, late, asked, spent>>

Waits ==
    /\ at = "waiting"
    /\ IF cancel THEN Ends
       ELSE Goto("starting") /\ attempt' = attempt + 1 /\ UNCHANGED todo
    /\ UNCHANGED <<disk, cancel, late, asked, spent>>

-----------------------------------------------------------------------------
\* The app dies; the disk keeps what was written.
Dies ==
    /\ at # "idle"
    /\ Spend
    /\ Ends
    /\ cancel' = FALSE
    /\ asked' = FALSE
    /\ UNCHANGED <<disk, late>>

\* Parts of an earlier release may be there.
Init ==
    /\ real \in [Files -> {"absent", "other"}]
    /\ part \in [Files -> Parts]
    /\ at = "idle" /\ todo = {} /\ attempt = 1
    /\ cancel = FALSE /\ late = 0 /\ asked = FALSE
    /\ spent = 0

Worker ==
    \/ NextFile \/ FileStarts \/ \E resumed \in BOOLEAN : Answered(resumed)
    \/ Streams \/ Chunk \/ BodyEnds \/ Measures \/ Hashes \/ Verifies
    \/ RemovesOld \/ Renames \/ Retries \/ Waits

Next == Start \/ Cancel \/ Worker \/ Breaks \/ Dies

Spec == Init /\ [][Next]_vars

\* The worker's thread runs; nobody has to press anything.
FairSpec == Spec /\ WF_vars(Worker)

-----------------------------------------------------------------------------
(* What the downloader promises.                                           *)

\* What status calls ready has been verified, whatever was resumed, cut short,
\* replaced or left by a run that died ("Nothing half-written ever takes a real
\* filename").
OnlyVerifiedIsReady == \A f \in Files : Complete(f) => real[f] = "right"

\* A run asked to stop puts one more file in place at most, however often the
\* user presses Download meanwhile (download_models clears the flag "only after
\* winning the guard").
StopLetsOneFileThrough == late <= 1

\* A run that starts when nothing goes wrong any more gets there, whatever
\* earlier runs and releases left in the part files.
HonestRunFinishes ==
    (at = "top" /\ todo = Missing /\ attempt = 1 /\ ~cancel /\ spent = Budget) ~> Ready
=============================================================================
