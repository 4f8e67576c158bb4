---------------------------- MODULE SessionProofs ----------------------------
(***************************************************************************)
(* What SessionLifecycle keeps, for any apps, meetings and policies: the   *)
(* safety properties of its run, from one inductive invariant.             *)
(*                                                                         *)
(* The argument: whoever owns a meeting's spill directory holds its lock,  *)
(* and nobody else owns it; a directory is only cleared once its meeting   *)
(* is safe (a transcript, a note, or let go by the user) or if it never    *)
(* held enough; and a meeting that is safe stays safe.                     *)
(***************************************************************************)
EXTENDS SessionLifecycle, TLAPS

\* Something else than the spill stands for the meeting.
Safe(m) == m \in transcript \/ notes[m] > 0 \/ m \in letGo

\* The stages in which an app may read or write the directory.
Owner(a, m) == stage[a][m] \in {"recording", "waiting", "orphan", "transcribing"}

Uncaptured ==
    \A m \in Meetings : m \notin captured =>
      /\ spill[m] = "none"
      /\ m \notin transcript
      /\ \A a \in Apps : stage[a][m] = "idle"

OwnersAlone ==
    \A a \in Apps, m \in Meetings : Owner(a, m) =>
      /\ spill[m] # "none" => dirLock[m] = a
      /\ \A b \in Apps : Owner(b, m) => b = a

\* Before its first transcription a meeting is known to its recorder alone.
FirstOwnerAlone ==
    \A a \in Apps, m \in Meetings : stage[a][m] \in {"recording", "waiting"} =>
      \A b \in Apps : stage[b][m] # "idle" => b = a

NotYetLanded ==
    \A a \in Apps, m \in Meetings :
      stage[a][m] \in {"recording", "waiting", "transcribing"} => m \notin transcript

ClearedIsSafe ==
    \A a \in Apps, m \in Meetings :
      /\ stage[a][m] \in {"landed", "unlocked", "leftover"} => Safe(m)
      /\ stage[a][m] = "clearing" => m \notin recorded \/ Safe(m)

Noted(m) == notes[m] > 0 \/ m \in letGo

TidiedIsNoted ==
    \A a \in Apps, m \in Meetings :
      run[a][m] = "noted" \/ tidying[a] = m => Noted(m)

IInv ==
    /\ SessionTypeOK
    /\ Uncaptured
    /\ OwnersAlone
    /\ FirstOwnerAlone
    /\ NotYetLanded
    /\ ClearedIsSafe
    /\ TidiedIsNoted
    /\ NothingLost
    /\ RunsAreClaimed

-----------------------------------------------------------------------------
(* Each conjunct, by the actions that touch what it speaks of.             *)

\* Every step keeps the types.
LEMMA TypeStep ==
  ASSUME SessionTypeOK, Next
  PROVE  SessionTypeOK'
<1> USE AppsAssumption
    DEF SessionTypeOK, apps, audio, files, views, distills, history
<1>1. ASSUME NEW a \in Apps, Launch(a) PROVE SessionTypeOK'
  BY <1>1 DEF Launch
<1>2. ASSUME NEW a \in Apps, Crash(a) PROVE SessionTypeOK'
  BY <1>2 DEF Crash
<1>3. ASSUME NEW a \in Apps, Scan(a) PROVE SessionTypeOK'
  BY <1>3 DEF Scan, Recoverable
<1>4. ASSUME NEW a \in Apps, Refetch(a) PROVE SessionTypeOK'
  BY <1>4 DEF Refetch, NeedsAttention
<1>5. ASSUME NEW a \in Apps, Tidy(a) PROVE SessionTypeOK'
  BY <1>5 DEF Tidy
<1>6. ASSUME NEW a \in Apps, NEW m \in Meetings, StartCapture(a, m)
      PROVE SessionTypeOK'
  <2>1. CASE spill' = [spill EXCEPT ![m] = "scrap"] /\ Locks(a, m)
    BY <1>6, <2>1 DEF StartCapture, Enters, Locks
  <2>2. CASE UNCHANGED <<spill, dirLock>>
    BY <1>6, <2>2 DEF StartCapture, Enters
  <2> QED
    BY <1>6, <2>1, <2>2 DEF StartCapture
<1>7. ASSUME NEW a \in Apps, NEW m \in Meetings, Flush(a, m)
      PROVE SessionTypeOK'
  BY <1>7 DEF Flush
<1>8. ASSUME NEW a \in Apps, NEW m \in Meetings, StopMeeting(a, m)
      PROVE SessionTypeOK'
  <2>1. CASE UNCHANGED <<spill, recorded>>
    BY <1>8, <2>1 DEF StopMeeting, Enters
  <2>2. CASE ~UNCHANGED <<spill, recorded>>
    <3>1. /\ stage' = [stage EXCEPT ![a][m] = "waiting"]
          /\ spill' = [spill EXCEPT ![m] = "full"] /\ recorded' = recorded \cup {m}
          /\ UNCHANGED <<apps, captured, dirLock, files, views, distills, letGo, landings>>
      BY <1>8, <2>2 DEF StopMeeting, Enters
    <3>2. stage' \in [Apps -> [Meetings -> {"idle", "recording", "waiting", "orphan",
                                   "transcribing", "landed", "unlocked", "leftover", "clearing"}]]
      BY <3>1
    <3>3. spill' \in [Meetings -> {"none", "scrap", "full"}] /\ recorded' \subseteq Meetings
      BY <3>1
    <3> QED
      BY <3>1, <3>2, <3>3
  <2> QED
    BY <2>1, <2>2
<1>9. ASSUME NEW a \in Apps, NEW m \in Meetings, StopNothing(a, m)
      PROVE SessionTypeOK'
  BY <1>9 DEF StopNothing, Enters, Unlocks
<1>10. ASSUME NEW a \in Apps, NEW m \in Meetings, Sweep(a, m)
       PROVE SessionTypeOK'
  BY <1>10 DEF Sweep, Discardable
<1>11. ASSUME NEW a \in Apps, NEW m \in Meetings, Prune(a, m)
       PROVE SessionTypeOK'
  BY <1>11 DEF Prune
<1>12. ASSUME NEW a \in Apps, NEW m \in Meetings, Transcribe(a, m)
       PROVE SessionTypeOK'
  BY <1>12 DEF Transcribe, Enters
<1>13. ASSUME NEW a \in Apps, NEW m \in Meetings, Recover(a, m)
       PROVE SessionTypeOK'
  <2>1. CASE m \in transcript /\ Enters(a, m, "leftover") /\ Unlocks(a, m)
    BY <1>13, <2>1 DEF Recover, Enters, Unlocks
  <2>2. CASE m \notin transcript /\ Enters(a, m, "transcribing") /\ UNCHANGED dirLock
    BY <1>13, <2>2 DEF Recover, Enters
  <2> QED
    BY <1>13, <2>1, <2>2 DEF Recover
<1>14. ASSUME NEW a \in Apps, NEW m \in Meetings, TranscriptionFails(a, m)
       PROVE SessionTypeOK'
  BY <1>14 DEF TranscriptionFails, Enters, Unlocks
<1>15. ASSUME NEW a \in Apps, NEW m \in Meetings, Land(a, m)
       PROVE SessionTypeOK'
  <2>1. OneMore(landings[m]) \in 0..2
    BY DEF OneMore
  <2> QED
    BY <1>15, <2>1 DEF Land, Enters
<1>16. ASSUME NEW a \in Apps, NEW m \in Meetings, RetainAudio(a, m)
       PROVE SessionTypeOK'
  BY <1>16 DEF RetainAudio, Enters, Unlocks
<1>17. ASSUME NEW a \in Apps, NEW m \in Meetings, FinishTranscription(a, m)
       PROVE SessionTypeOK'
  <2>3. spill' \in [Meetings -> {"none", "scrap", "full"}]
    BY <1>17 DEF FinishTranscription, Removed
  <2>1. CASE m \in claims[a] /\ UNCHANGED <<claims, run>>
    BY <1>17, <2>1, <2>3 DEF FinishTranscription, Enters
  <2>2. CASE m \notin claims[a] /\ QueueDistill(a, m)
    BY <1>17, <2>2, <2>3 DEF FinishTranscription, Enters, QueueDistill
  <2> QED
    BY <1>17, <2>1, <2>2 DEF FinishTranscription
<1>18. ASSUME NEW a \in Apps, NEW m \in Meetings, ClearAway(a, m)
       PROVE SessionTypeOK'
  <2>1. spill' \in [Meetings -> {"none", "scrap", "full"}]
    BY <1>18 DEF ClearAway, Removed
  <2> QED
    BY <1>18, <2>1 DEF ClearAway, Enters
<1>19. ASSUME NEW a \in Apps, NEW m \in Meetings, Retry(a, m)
       PROVE SessionTypeOK'
  BY <1>19 DEF Retry, QueueDistill
<1>20. ASSUME NEW a \in Apps, NEW m \in Meetings, DeleteAsked(a, m)
       PROVE SessionTypeOK'
  BY <1>20 DEF DeleteAsked
<1>21. ASSUME NEW a \in Apps, NEW m \in Meetings, DeleteDone(a, m)
       PROVE SessionTypeOK'
  BY <1>21 DEF DeleteDone
<1>22. ASSUME NEW a \in Apps, NEW m \in Meetings, DeleteNote(a, m)
       PROVE SessionTypeOK'
  BY <1>22 DEF DeleteNote
<1>23. ASSUME NEW a \in Apps, NEW m \in Meetings, BeginRun(a, m)
       PROVE SessionTypeOK'
  BY <1>23 DEF BeginRun
<1>24. ASSUME NEW a \in Apps, NEW m \in Meetings, RunFails(a, m)
       PROVE SessionTypeOK'
  BY <1>24 DEF RunFails
<1>25. ASSUME NEW a \in Apps, NEW m \in Meetings, WriteNote(a, m)
       PROVE SessionTypeOK'
  <2>1. OneMore(notes[m]) \in 0..2
    BY DEF OneMore
  <2> QED
    BY <1>25, <2>1 DEF WriteNote
<1>26. ASSUME NEW a \in Apps, NEW m \in Meetings, Release(a, m)
       PROVE SessionTypeOK'
  BY <1>26 DEF Release
<1> QED
  BY <1>1, <1>2, <1>3, <1>4, <1>5, <1>6, <1>7, <1>8, <1>9, <1>10, <1>11,
     <1>12, <1>13, <1>14, <1>15, <1>16, <1>17, <1>18, <1>19, <1>20, <1>21,
     <1>22, <1>23, <1>24, <1>25, <1>26
      DEF Next, Turn, Transcription, Distillation, DistillTurn

\* A meeting nobody captured yet has left no trace.
LEMMA UncapturedStep ==
  ASSUME IInv, Next
  PROVE  Uncaptured'
<1> USE DEF IInv, SessionTypeOK, apps, audio, files, views, distills, history
<1>1. ASSUME NEW a \in Apps, Crash(a) PROVE Uncaptured'
  BY <1>1 DEF Crash, Uncaptured
<1>2. ASSUME NEW a \in Apps, Scan(a) PROVE Uncaptured'
  BY <1>2 DEF Scan, Recoverable, Uncaptured
<1>3. ASSUME NEW a \in Apps, Tidy(a) PROVE Uncaptured'
  BY <1>3 DEF Tidy, Uncaptured
<1>4. ASSUME NEW a \in Apps, NEW m \in Meetings, StartCapture(a, m)
      PROVE Uncaptured'
  BY <1>4 DEF StartCapture, Enters, Uncaptured
<1>5. ASSUME NEW a \in Apps, NEW m \in Meetings, Flush(a, m) PROVE Uncaptured'
  BY <1>5 DEF Flush, Uncaptured
<1>6. ASSUME NEW a \in Apps, NEW m \in Meetings, StopMeeting(a, m)
      PROVE Uncaptured'
  BY <1>6 DEF StopMeeting, Enters, Uncaptured
<1>7. ASSUME NEW a \in Apps, NEW m \in Meetings, StopNothing(a, m)
      PROVE Uncaptured'
  BY <1>7 DEF StopNothing, Enters, Uncaptured
<1>8. ASSUME NEW a \in Apps, NEW m \in Meetings, Sweep(a, m) PROVE Uncaptured'
  BY <1>8 DEF Sweep, Discardable, Uncaptured
<1>9. ASSUME NEW a \in Apps, NEW m \in Meetings, Prune(a, m) PROVE Uncaptured'
  BY <1>9 DEF Prune, Uncaptured
<1>10. ASSUME NEW a \in Apps, NEW m \in Meetings, Transcribe(a, m)
       PROVE Uncaptured'
  BY <1>10 DEF Transcribe, Enters, Uncaptured
<1>11. ASSUME NEW a \in Apps, NEW m \in Meetings, Recover(a, m)
       PROVE Uncaptured'
  <2>1. CASE m \in transcript /\ Enters(a, m, "leftover") /\ Unlocks(a, m)
    BY <1>11, <2>1 DEF Recover, Enters, Uncaptured
  <2>2. CASE m \notin transcript /\ Enters(a, m, "transcribing") /\ UNCHANGED dirLock
    BY <1>11, <2>2 DEF Recover, Enters, Uncaptured
  <2> QED
    BY <1>11, <2>1, <2>2 DEF Recover
<1>12. ASSUME NEW a \in Apps, NEW m \in Meetings, TranscriptionFails(a, m)
       PROVE Uncaptured'
  BY <1>12 DEF TranscriptionFails, Enters, Uncaptured
<1>13. ASSUME NEW a \in Apps, NEW m \in Meetings, Land(a, m) PROVE Uncaptured'
  BY <1>13 DEF Land, Enters, Uncaptured
<1>14. ASSUME NEW a \in Apps, NEW m \in Meetings, RetainAudio(a, m)
       PROVE Uncaptured'
  BY <1>14 DEF RetainAudio, Enters, Uncaptured
<1>15. ASSUME NEW a \in Apps, NEW m \in Meetings, FinishTranscription(a, m)
       PROVE Uncaptured'
  BY <1>15 DEF FinishTranscription, Enters, Removed, Uncaptured
<1>16. ASSUME NEW a \in Apps, NEW m \in Meetings, ClearAway(a, m)
       PROVE Uncaptured'
  BY <1>16 DEF ClearAway, Enters, Removed, Uncaptured
<1>17. ASSUME NEW a \in Apps, NEW m \in Meetings, DeleteDone(a, m)
       PROVE Uncaptured'
  BY <1>17 DEF DeleteDone, Uncaptured
<1>18. ASSUME NEW a \in Apps, NEW m \in Meetings, DeleteNote(a, m)
       PROVE Uncaptured'
  BY <1>18 DEF DeleteNote, Uncaptured
<1>19. ASSUME UNCHANGED <<captured, spill, transcript, stage>> PROVE Uncaptured'
  BY <1>19 DEF Uncaptured
<1> QED
  BY <1>1, <1>2, <1>3, <1>4, <1>5, <1>6, <1>7, <1>8, <1>9, <1>10, <1>11,
     <1>12, <1>13, <1>14, <1>15, <1>16, <1>17, <1>18, <1>19
  DEF Next, Turn, Transcription, Distillation, DistillTurn, Launch, Refetch,
      Retry, DeleteAsked, BeginRun, RunFails, WriteNote, Release

\* Only a free lock makes a new owner, and only its holder gives it up.
LEMMA OwnersAloneStep ==
  ASSUME IInv, Next
  PROVE  OwnersAlone'
<1> USE DEF IInv, SessionTypeOK, apps, audio, files, views, distills, history
<1>1. ASSUME NEW a \in Apps, Crash(a) PROVE OwnersAlone'
  BY <1>1, AppsAssumption DEF Crash, Owner, OwnersAlone
<1>2. ASSUME NEW a \in Apps, Scan(a) PROVE OwnersAlone'
  <2> SUFFICES ASSUME NEW c \in Apps, NEW k \in Meetings, Owner(c, k)'
               PROVE  /\ spill'[k] # "none" => dirLock'[k] = c
                      /\ \A b \in Apps : Owner(b, k)' => b = c
    BY DEF OwnersAlone
  <2>1. CASE Recoverable(k)
    <3>1. \A b \in Apps : ~Owner(b, k)
      BY <2>1, AppsAssumption DEF Recoverable, OwnersAlone
    <3>2. \A b \in Apps : Owner(b, k)' => b = a
      BY <1>2, <3>1 DEF Scan, Owner
    <3> QED
      BY <1>2, <2>1, <3>2 DEF Scan
  <2>2. CASE ~Recoverable(k)
    BY <1>2, <2>2 DEF Scan, Owner, OwnersAlone
  <2> QED
    BY <2>1, <2>2
<1>3. ASSUME NEW a \in Apps, NEW m \in Meetings, StartCapture(a, m)
      PROVE OwnersAlone'
  BY <1>3 DEF StartCapture, Enters, Locks, Owner, OwnersAlone, Uncaptured
<1>4. ASSUME NEW a \in Apps, NEW m \in Meetings, Flush(a, m) PROVE OwnersAlone'
  BY <1>4 DEF Flush, Owner, OwnersAlone
<1>5. ASSUME NEW a \in Apps, NEW m \in Meetings, StopMeeting(a, m)
      PROVE OwnersAlone'
  BY <1>5 DEF StopMeeting, Enters, Owner, OwnersAlone
<1>6. ASSUME NEW a \in Apps, NEW m \in Meetings, StopNothing(a, m)
      PROVE OwnersAlone'
  BY <1>6, AppsAssumption DEF StopNothing, Enters, Unlocks, Owner, OwnersAlone
<1>7. ASSUME NEW a \in Apps, NEW m \in Meetings, Sweep(a, m) PROVE OwnersAlone'
  BY <1>7 DEF Sweep, Discardable, Owner, OwnersAlone
<1>8. ASSUME NEW a \in Apps, NEW m \in Meetings, Transcribe(a, m)
      PROVE OwnersAlone'
  BY <1>8 DEF Transcribe, Enters, Owner, OwnersAlone
<1>9. ASSUME NEW a \in Apps, NEW m \in Meetings, Recover(a, m)
      PROVE OwnersAlone'
  <2>1. CASE m \in transcript /\ Enters(a, m, "leftover") /\ Unlocks(a, m)
    BY <1>9, <2>1 DEF Recover, Enters, Unlocks, Owner, OwnersAlone
  <2>2. CASE m \notin transcript /\ Enters(a, m, "transcribing") /\ UNCHANGED dirLock
    BY <1>9, <2>2 DEF Recover, Enters, Owner, OwnersAlone
  <2> QED
    BY <1>9, <2>1, <2>2 DEF Recover
<1>10. ASSUME NEW a \in Apps, NEW m \in Meetings, TranscriptionFails(a, m)
       PROVE OwnersAlone'
  BY <1>10 DEF TranscriptionFails, Enters, Unlocks, Owner, OwnersAlone
<1>11. ASSUME NEW a \in Apps, NEW m \in Meetings, Land(a, m) PROVE OwnersAlone'
  BY <1>11 DEF Land, Enters, Owner, OwnersAlone
<1>12. ASSUME NEW a \in Apps, NEW m \in Meetings, RetainAudio(a, m)
       PROVE OwnersAlone'
  BY <1>12 DEF RetainAudio, Enters, Unlocks, Owner, OwnersAlone
<1>13. ASSUME NEW a \in Apps, NEW m \in Meetings, FinishTranscription(a, m)
       PROVE OwnersAlone'
  BY <1>13 DEF FinishTranscription, Enters, Removed, Owner, OwnersAlone
<1>14. ASSUME NEW a \in Apps, NEW m \in Meetings, ClearAway(a, m)
       PROVE OwnersAlone'
  BY <1>14 DEF ClearAway, Enters, Removed, Owner, OwnersAlone
<1>15. ASSUME UNCHANGED <<stage, spill, dirLock>> PROVE OwnersAlone'
  BY <1>15 DEF Owner, OwnersAlone
<1> QED
  BY <1>1, <1>2, <1>3, <1>4, <1>5, <1>6, <1>7, <1>8, <1>9, <1>10, <1>11,
     <1>12, <1>13, <1>14, <1>15
  DEF Next, Turn, Transcription, Distillation, DistillTurn, Launch, Refetch,
      Tidy, Prune, Retry, DeleteAsked, DeleteDone, DeleteNote, BeginRun,
      RunFails, WriteNote, Release

\* A scan of another app passes over what is recorded or waits: it is locked.
LEMMA FirstOwnerAloneStep ==
  ASSUME IInv, Next
  PROVE  FirstOwnerAlone'
<1> USE DEF IInv, SessionTypeOK, apps, audio, files, views, distills, history
<1>1. ASSUME NEW a \in Apps, Crash(a) PROVE FirstOwnerAlone'
  BY <1>1 DEF Crash, FirstOwnerAlone
<1>2. ASSUME NEW a \in Apps, Scan(a) PROVE FirstOwnerAlone'
  <2> SUFFICES ASSUME NEW c \in Apps, NEW k \in Meetings,
                      stage'[c][k] \in {"recording", "waiting"}
               PROVE  \A b \in Apps : stage'[b][k] # "idle" => b = c
    BY DEF FirstOwnerAlone
  <2>1. stage[c][k] \in {"recording", "waiting"}
    BY <1>2 DEF Scan
  <2>2. ~Recoverable(k)
    BY <2>1, AppsAssumption DEF Recoverable, OwnersAlone, Owner
  <2> QED
    BY <1>2, <2>1, <2>2 DEF Scan, FirstOwnerAlone
<1>3. ASSUME NEW a \in Apps, NEW m \in Meetings, StartCapture(a, m)
      PROVE FirstOwnerAlone'
  BY <1>3 DEF StartCapture, Enters, FirstOwnerAlone, Uncaptured
<1>4. ASSUME NEW a \in Apps, NEW m \in Meetings, StopMeeting(a, m)
      PROVE FirstOwnerAlone'
  BY <1>4 DEF StopMeeting, Enters, FirstOwnerAlone
<1>5. ASSUME NEW a \in Apps, NEW m \in Meetings, StopNothing(a, m)
      PROVE FirstOwnerAlone'
  BY <1>5 DEF StopNothing, Enters, FirstOwnerAlone
<1>6. ASSUME NEW a \in Apps, NEW m \in Meetings, Transcribe(a, m)
      PROVE FirstOwnerAlone'
  BY <1>6 DEF Transcribe, Enters, FirstOwnerAlone
<1>7. ASSUME NEW a \in Apps, NEW m \in Meetings, Recover(a, m)
      PROVE FirstOwnerAlone'
  <2>1. CASE m \in transcript /\ Enters(a, m, "leftover") /\ Unlocks(a, m)
    BY <1>7, <2>1 DEF Recover, Enters, FirstOwnerAlone
  <2>2. CASE m \notin transcript /\ Enters(a, m, "transcribing") /\ UNCHANGED dirLock
    BY <1>7, <2>2 DEF Recover, Enters, FirstOwnerAlone
  <2> QED
    BY <1>7, <2>1, <2>2 DEF Recover
<1>8. ASSUME NEW a \in Apps, NEW m \in Meetings, TranscriptionFails(a, m)
      PROVE FirstOwnerAlone'
  BY <1>8 DEF TranscriptionFails, Enters, FirstOwnerAlone
<1>9. ASSUME NEW a \in Apps, NEW m \in Meetings, Land(a, m)
      PROVE FirstOwnerAlone'
  BY <1>9 DEF Land, Enters, FirstOwnerAlone
<1>10. ASSUME NEW a \in Apps, NEW m \in Meetings, RetainAudio(a, m)
       PROVE FirstOwnerAlone'
  BY <1>10 DEF RetainAudio, Enters, FirstOwnerAlone
<1>11. ASSUME NEW a \in Apps, NEW m \in Meetings, FinishTranscription(a, m)
       PROVE FirstOwnerAlone'
  BY <1>11 DEF FinishTranscription, Enters, FirstOwnerAlone
<1>12. ASSUME NEW a \in Apps, NEW m \in Meetings, ClearAway(a, m)
       PROVE FirstOwnerAlone'
  BY <1>12 DEF ClearAway, Enters, FirstOwnerAlone
<1>13. ASSUME UNCHANGED <<stage>> PROVE FirstOwnerAlone'
  BY <1>13 DEF FirstOwnerAlone
<1> QED
  BY <1>1, <1>2, <1>3, <1>4, <1>5, <1>6, <1>7, <1>8, <1>9, <1>10, <1>11,
     <1>12, <1>13
  DEF Next, Turn, Transcription, Distillation, DistillTurn, Launch, Refetch,
      Tidy, Flush, Sweep, Prune, Retry, DeleteAsked, DeleteDone, DeleteNote,
      BeginRun, RunFails, WriteNote, Release

\* A transcript lands for its owner only, who is then no longer transcribing.
LEMMA NotYetLandedStep ==
  ASSUME IInv, Next
  PROVE  NotYetLanded'
<1> USE DEF IInv, SessionTypeOK, apps, audio, files, views, distills, history
<1>1. ASSUME NEW a \in Apps, Crash(a) PROVE NotYetLanded'
  BY <1>1 DEF Crash, NotYetLanded
<1>2. ASSUME NEW a \in Apps, Scan(a) PROVE NotYetLanded'
  BY <1>2 DEF Scan, Recoverable, NotYetLanded
<1>3. ASSUME NEW a \in Apps, Tidy(a) PROVE NotYetLanded'
  BY <1>3 DEF Tidy, NotYetLanded
<1>4. ASSUME NEW a \in Apps, NEW m \in Meetings, StartCapture(a, m)
      PROVE NotYetLanded'
  BY <1>4 DEF StartCapture, Enters, NotYetLanded, Uncaptured
<1>5. ASSUME NEW a \in Apps, NEW m \in Meetings, StopMeeting(a, m)
      PROVE NotYetLanded'
  BY <1>5 DEF StopMeeting, Enters, NotYetLanded
<1>6. ASSUME NEW a \in Apps, NEW m \in Meetings, StopNothing(a, m)
      PROVE NotYetLanded'
  BY <1>6 DEF StopNothing, Enters, NotYetLanded
<1>7. ASSUME NEW a \in Apps, NEW m \in Meetings, Prune(a, m)
      PROVE NotYetLanded'
  BY <1>7 DEF Prune, NotYetLanded
<1>8. ASSUME NEW a \in Apps, NEW m \in Meetings, Transcribe(a, m)
      PROVE NotYetLanded'
  BY <1>8 DEF Transcribe, Enters, NotYetLanded
<1>9. ASSUME NEW a \in Apps, NEW m \in Meetings, Recover(a, m)
      PROVE NotYetLanded'
  <2>1. CASE m \in transcript /\ Enters(a, m, "leftover") /\ Unlocks(a, m)
    BY <1>9, <2>1 DEF Recover, Enters, NotYetLanded
  <2>2. CASE m \notin transcript /\ Enters(a, m, "transcribing") /\ UNCHANGED dirLock
    BY <1>9, <2>2 DEF Recover, Enters, NotYetLanded
  <2> QED
    BY <1>9, <2>1, <2>2 DEF Recover
<1>10. ASSUME NEW a \in Apps, NEW m \in Meetings, TranscriptionFails(a, m)
       PROVE NotYetLanded'
  BY <1>10 DEF TranscriptionFails, Enters, NotYetLanded
<1>11. ASSUME NEW a \in Apps, NEW m \in Meetings, Land(a, m)
       PROVE NotYetLanded'
  BY <1>11 DEF Land, Enters, NotYetLanded, OwnersAlone, Owner
<1>12. ASSUME NEW a \in Apps, NEW m \in Meetings, RetainAudio(a, m)
       PROVE NotYetLanded'
  BY <1>12 DEF RetainAudio, Enters, NotYetLanded
<1>13. ASSUME NEW a \in Apps, NEW m \in Meetings, FinishTranscription(a, m)
       PROVE NotYetLanded'
  BY <1>13 DEF FinishTranscription, Enters, NotYetLanded
<1>14. ASSUME NEW a \in Apps, NEW m \in Meetings, ClearAway(a, m)
       PROVE NotYetLanded'
  BY <1>14 DEF ClearAway, Enters, NotYetLanded
<1>15. ASSUME NEW a \in Apps, NEW m \in Meetings, DeleteDone(a, m)
       PROVE NotYetLanded'
  BY <1>15 DEF DeleteDone, NotYetLanded
<1>16. ASSUME NEW a \in Apps, NEW m \in Meetings, DeleteNote(a, m)
       PROVE NotYetLanded'
  BY <1>16 DEF DeleteNote, NotYetLanded
<1>17. ASSUME UNCHANGED <<stage, transcript>> PROVE NotYetLanded'
  BY <1>17 DEF NotYetLanded
<1> QED
  BY <1>1, <1>2, <1>3, <1>4, <1>5, <1>6, <1>7, <1>8, <1>9, <1>10, <1>11,
     <1>12, <1>13, <1>14, <1>15, <1>16, <1>17
  DEF Next, Turn, Transcription, Distillation, DistillTurn, Launch, Refetch,
      Flush, Sweep, Retry, DeleteAsked, BeginRun, RunFails, WriteNote, Release

\* What is safe stays safe, and what never held enough is not recorded any more.
LEMMA ClearedIsSafeStep ==
  ASSUME IInv, Next
  PROVE  ClearedIsSafe'
<1> USE DEF IInv, SessionTypeOK, apps, audio, files, views, distills, history
<1>1. ASSUME NEW a \in Apps, Crash(a) PROVE ClearedIsSafe'
  BY <1>1 DEF Crash, Safe, ClearedIsSafe
<1>2. ASSUME NEW a \in Apps, Scan(a) PROVE ClearedIsSafe'
  BY <1>2 DEF Scan, Recoverable, Safe, ClearedIsSafe
<1>3. ASSUME NEW a \in Apps, Tidy(a) PROVE ClearedIsSafe'
  BY <1>3 DEF Tidy, Safe, ClearedIsSafe, TidiedIsNoted, Noted
<1>4. ASSUME NEW a \in Apps, NEW m \in Meetings, StartCapture(a, m)
      PROVE ClearedIsSafe'
  BY <1>4 DEF StartCapture, Enters, Safe, ClearedIsSafe
<1>5. ASSUME NEW a \in Apps, NEW m \in Meetings, Flush(a, m)
      PROVE ClearedIsSafe'
  BY <1>5 DEF Flush, Safe, ClearedIsSafe, FirstOwnerAlone
<1>6. ASSUME NEW a \in Apps, NEW m \in Meetings, StopMeeting(a, m)
      PROVE ClearedIsSafe'
  BY <1>6 DEF StopMeeting, Enters, Safe, ClearedIsSafe, FirstOwnerAlone
<1>7. ASSUME NEW a \in Apps, NEW m \in Meetings, StopNothing(a, m)
      PROVE ClearedIsSafe'
  BY <1>7 DEF StopNothing, Enters, Safe, ClearedIsSafe, NothingLost
<1>8. ASSUME NEW a \in Apps, NEW m \in Meetings, Prune(a, m)
      PROVE ClearedIsSafe'
  BY <1>8 DEF Prune, Safe, ClearedIsSafe
<1>9. ASSUME NEW a \in Apps, NEW m \in Meetings, Transcribe(a, m)
      PROVE ClearedIsSafe'
  BY <1>9 DEF Transcribe, Enters, Safe, ClearedIsSafe
<1>10. ASSUME NEW a \in Apps, NEW m \in Meetings, Recover(a, m)
       PROVE ClearedIsSafe'
  <2>1. CASE m \in transcript /\ Enters(a, m, "leftover") /\ Unlocks(a, m)
    BY <1>10, <2>1 DEF Recover, Enters, Safe, ClearedIsSafe
  <2>2. CASE m \notin transcript /\ Enters(a, m, "transcribing") /\ UNCHANGED dirLock
    BY <1>10, <2>2 DEF Recover, Enters, Safe, ClearedIsSafe
  <2> QED
    BY <1>10, <2>1, <2>2 DEF Recover
<1>11. ASSUME NEW a \in Apps, NEW m \in Meetings, TranscriptionFails(a, m)
       PROVE ClearedIsSafe'
  BY <1>11 DEF TranscriptionFails, Enters, Safe, ClearedIsSafe
<1>12. ASSUME NEW a \in Apps, NEW m \in Meetings, Land(a, m)
       PROVE ClearedIsSafe'
  BY <1>12 DEF Land, Enters, Safe, ClearedIsSafe
<1>13. ASSUME NEW a \in Apps, NEW m \in Meetings, RetainAudio(a, m)
       PROVE ClearedIsSafe'
  BY <1>13 DEF RetainAudio, Enters, Safe, ClearedIsSafe
<1>14. ASSUME NEW a \in Apps, NEW m \in Meetings, FinishTranscription(a, m)
       PROVE ClearedIsSafe'
  BY <1>14 DEF FinishTranscription, Enters, Safe, ClearedIsSafe
<1>15. ASSUME NEW a \in Apps, NEW m \in Meetings, ClearAway(a, m)
       PROVE ClearedIsSafe'
  BY <1>15 DEF ClearAway, Enters, Safe, ClearedIsSafe
<1>16. ASSUME NEW a \in Apps, NEW m \in Meetings, DeleteDone(a, m)
       PROVE ClearedIsSafe'
  BY <1>16 DEF DeleteDone, Safe, ClearedIsSafe
<1>17. ASSUME NEW a \in Apps, NEW m \in Meetings, DeleteNote(a, m)
       PROVE ClearedIsSafe'
  BY <1>17 DEF DeleteNote, Safe, ClearedIsSafe
<1>18. ASSUME NEW a \in Apps, NEW m \in Meetings, WriteNote(a, m)
       PROVE ClearedIsSafe'
  <2>1. OneMore(notes[m]) \in 1..2
    BY DEF OneMore
  <2> QED
    BY <1>18, <2>1 DEF WriteNote, Safe, ClearedIsSafe
<1>19. ASSUME UNCHANGED <<stage, recorded, transcript, notes, letGo>> PROVE ClearedIsSafe'
  BY <1>19 DEF Safe, ClearedIsSafe
<1> QED
  BY <1>1, <1>2, <1>3, <1>4, <1>5, <1>6, <1>7, <1>8, <1>9, <1>10, <1>11,
     <1>12, <1>13, <1>14, <1>15, <1>16, <1>17, <1>18, <1>19
  DEF Next, Turn, Transcription, Distillation, DistillTurn, Launch, Refetch,
      Sweep, Retry, DeleteAsked, BeginRun, RunFails, Release

\* A run that wrote its note may only lose it to the user.
LEMMA TidiedIsNotedStep ==
  ASSUME IInv, Next
  PROVE  TidiedIsNoted'
<1> USE DEF IInv, SessionTypeOK, apps, audio, files, views, distills, history
<1>1. ASSUME NEW a \in Apps, Crash(a) PROVE TidiedIsNoted'
  BY <1>1, AppsAssumption DEF Crash, Noted, TidiedIsNoted
<1>2. ASSUME NEW a \in Apps, Tidy(a) PROVE TidiedIsNoted'
  BY <1>2, AppsAssumption DEF Tidy, Noted, TidiedIsNoted
<1>3. ASSUME NEW a \in Apps, NEW m \in Meetings, Prune(a, m)
      PROVE TidiedIsNoted'
  BY <1>3 DEF Prune, Noted, TidiedIsNoted
<1>4. ASSUME NEW a \in Apps, NEW m \in Meetings, FinishTranscription(a, m)
      PROVE TidiedIsNoted'
  <2>1. CASE m \in claims[a] /\ UNCHANGED <<claims, run>>
    BY <1>4, <2>1 DEF FinishTranscription, Noted, TidiedIsNoted
  <2>2. CASE m \notin claims[a] /\ QueueDistill(a, m)
    BY <1>4, <2>2 DEF FinishTranscription, QueueDistill, Noted, TidiedIsNoted
  <2> QED
    BY <1>4, <2>1, <2>2 DEF FinishTranscription
<1>5. ASSUME NEW a \in Apps, NEW m \in Meetings, Retry(a, m)
      PROVE TidiedIsNoted'
  BY <1>5 DEF Retry, QueueDistill, Noted, TidiedIsNoted
<1>6. ASSUME NEW a \in Apps, NEW m \in Meetings, DeleteDone(a, m)
      PROVE TidiedIsNoted'
  BY <1>6 DEF DeleteDone, Noted, TidiedIsNoted
<1>7. ASSUME NEW a \in Apps, NEW m \in Meetings, DeleteNote(a, m)
      PROVE TidiedIsNoted'
  BY <1>7 DEF DeleteNote, Noted, TidiedIsNoted
<1>8. ASSUME NEW a \in Apps, NEW m \in Meetings, BeginRun(a, m)
      PROVE TidiedIsNoted'
  BY <1>8 DEF BeginRun, Noted, TidiedIsNoted
<1>9. ASSUME NEW a \in Apps, NEW m \in Meetings, RunFails(a, m)
      PROVE TidiedIsNoted'
  BY <1>9 DEF RunFails, Noted, TidiedIsNoted
<1>10. ASSUME NEW a \in Apps, NEW m \in Meetings, WriteNote(a, m)
       PROVE TidiedIsNoted'
  <2>1. OneMore(notes[m]) \in 1..2
    BY DEF OneMore
  <2> QED
    BY <1>10, <2>1 DEF WriteNote, Noted, TidiedIsNoted
<1>11. ASSUME NEW a \in Apps, NEW m \in Meetings, Release(a, m)
       PROVE TidiedIsNoted'
  BY <1>11 DEF Release, Noted, TidiedIsNoted
<1>12. ASSUME UNCHANGED <<run, tidying, notes, letGo>> PROVE TidiedIsNoted'
  BY <1>12 DEF Noted, TidiedIsNoted
<1> QED
  BY <1>1, <1>2, <1>3, <1>4, <1>5, <1>6, <1>7, <1>8, <1>9, <1>10, <1>11, <1>12
  DEF Next, Turn, Transcription, Distillation, DistillTurn, Launch, Scan,
      Refetch, StartCapture, Flush, StopMeeting, StopNothing, Sweep,
      Transcribe, Recover, TranscriptionFails, Land, RetainAudio, ClearAway,
      DeleteAsked

\* No step takes the last of audio, transcript and note but a user's.
LEMMA NothingLostStep ==
  ASSUME IInv, Next
  PROVE  NothingLost'
<1> USE DEF IInv, SessionTypeOK, apps, audio, files, views, distills, history
<1>1. ASSUME NEW a \in Apps, Tidy(a) PROVE NothingLost'
  BY <1>1 DEF Tidy, NothingLost, TidiedIsNoted, Noted
<1>2. ASSUME NEW a \in Apps, NEW m \in Meetings, StartCapture(a, m)
      PROVE NothingLost'
  BY <1>2 DEF StartCapture, NothingLost, Uncaptured
<1>3. ASSUME NEW a \in Apps, NEW m \in Meetings, Flush(a, m) PROVE NothingLost'
  BY <1>3 DEF Flush, NothingLost
<1>4. ASSUME NEW a \in Apps, NEW m \in Meetings, StopMeeting(a, m)
      PROVE NothingLost'
  BY <1>4 DEF StopMeeting, NothingLost
<1>5. ASSUME NEW a \in Apps, NEW m \in Meetings, Sweep(a, m) PROVE NothingLost'
  BY <1>5 DEF Sweep, Discardable, NothingLost
<1>6. ASSUME NEW a \in Apps, NEW m \in Meetings, Prune(a, m) PROVE NothingLost'
  BY <1>6 DEF Prune, NothingLost
<1>7. ASSUME NEW a \in Apps, NEW m \in Meetings, Land(a, m) PROVE NothingLost'
  BY <1>7 DEF Land, NothingLost
<1>8. ASSUME NEW a \in Apps, NEW m \in Meetings, FinishTranscription(a, m)
      PROVE NothingLost'
  BY <1>8 DEF FinishTranscription, Removed, NothingLost, ClearedIsSafe, Safe
<1>9. ASSUME NEW a \in Apps, NEW m \in Meetings, ClearAway(a, m)
      PROVE NothingLost'
  BY <1>9 DEF ClearAway, Removed, NothingLost, ClearedIsSafe, Safe
<1>10. ASSUME NEW a \in Apps, NEW m \in Meetings, DeleteDone(a, m)
       PROVE NothingLost'
  BY <1>10 DEF DeleteDone, NothingLost
<1>11. ASSUME NEW a \in Apps, NEW m \in Meetings, DeleteNote(a, m)
       PROVE NothingLost'
  BY <1>11 DEF DeleteNote, NothingLost
<1>12. ASSUME NEW a \in Apps, NEW m \in Meetings, WriteNote(a, m)
       PROVE NothingLost'
  <2>1. OneMore(notes[m]) \in 1..2
    BY DEF OneMore
  <2> QED
    BY <1>12, <2>1 DEF WriteNote, NothingLost
<1>13. ASSUME UNCHANGED <<recorded, spill, transcript, notes, letGo>> PROVE NothingLost'
  BY <1>13 DEF NothingLost
<1> QED
  BY <1>1, <1>2, <1>3, <1>4, <1>5, <1>6, <1>7, <1>8, <1>9, <1>10, <1>11,
     <1>12, <1>13
  DEF Next, Turn, Transcription, Distillation, DistillTurn, Launch, Crash,
      Scan, Refetch, StopNothing, Transcribe, Recover, TranscriptionFails,
      RetainAudio, Retry, DeleteAsked, BeginRun, RunFails, Release

\* Claim and run come and go together.
LEMMA RunsAreClaimedStep ==
  ASSUME IInv, Next
  PROVE  RunsAreClaimed'
<1> USE DEF IInv, SessionTypeOK, apps, audio, files, views, distills, history
<1>1. ASSUME NEW a \in Apps, Crash(a) PROVE RunsAreClaimed'
  BY <1>1 DEF Crash, RunsAreClaimed
<1>2. ASSUME NEW a \in Apps, NEW m \in Meetings, FinishTranscription(a, m)
      PROVE RunsAreClaimed'
  <2>1. CASE m \in claims[a] /\ UNCHANGED <<claims, run>>
    BY <1>2, <2>1 DEF FinishTranscription, RunsAreClaimed
  <2>2. CASE m \notin claims[a] /\ QueueDistill(a, m)
    BY <1>2, <2>2 DEF FinishTranscription, QueueDistill, RunsAreClaimed
  <2> QED
    BY <1>2, <2>1, <2>2 DEF FinishTranscription
<1>3. ASSUME NEW a \in Apps, NEW m \in Meetings, Retry(a, m)
      PROVE RunsAreClaimed'
  BY <1>3 DEF Retry, QueueDistill, RunsAreClaimed
<1>4. ASSUME NEW a \in Apps, NEW m \in Meetings, BeginRun(a, m)
      PROVE RunsAreClaimed'
  BY <1>4 DEF BeginRun, RunsAreClaimed
<1>5. ASSUME NEW a \in Apps, NEW m \in Meetings, RunFails(a, m)
      PROVE RunsAreClaimed'
  BY <1>5 DEF RunFails, RunsAreClaimed
<1>6. ASSUME NEW a \in Apps, NEW m \in Meetings, WriteNote(a, m)
      PROVE RunsAreClaimed'
  BY <1>6 DEF WriteNote, RunsAreClaimed
<1>7. ASSUME NEW a \in Apps, NEW m \in Meetings, Release(a, m)
      PROVE RunsAreClaimed'
  BY <1>7 DEF Release, RunsAreClaimed
<1>8. ASSUME UNCHANGED <<run, claims>> PROVE RunsAreClaimed'
  BY <1>8 DEF RunsAreClaimed
<1> QED
  BY <1>1, <1>2, <1>3, <1>4, <1>5, <1>6, <1>7, <1>8
  DEF Next, Turn, Transcription, Distillation, DistillTurn, Launch, Scan,
      Refetch, Tidy, StartCapture, Flush, StopMeeting, StopNothing, Sweep,
      Prune, Transcribe, Recover, TranscriptionFails, Land, RetainAudio,
      ClearAway, DeleteAsked, DeleteDone, DeleteNote

-----------------------------------------------------------------------------
\* A removal spares a directory someone records into or waits with, which is
\* locked by them and no one else's.
LEMMA LiveSpillStep ==
  ASSUME IInv, Next, NEW m \in Meetings, InUse(m), spill[m] # "none"
  PROVE  spill'[m] # "none"
<1> USE DEF IInv, SessionTypeOK
<1> PICK a \in Apps : dirLock[m] = a /\ stage[a][m] \in {"recording", "waiting"}
  BY DEF InUse
<1>1. ASSUME NEW b \in Apps, stage[b][m] # "idle" PROVE b = a
  BY <1>1 DEF FirstOwnerAlone
<1>2. ASSUME NEW b \in Apps, NEW k \in Meetings, StartCapture(b, k) PROVE spill'[m] # "none"
  BY <1>2 DEF StartCapture
<1>3. ASSUME NEW b \in Apps, NEW k \in Meetings, Flush(b, k) PROVE spill'[m] # "none"
  BY <1>3 DEF Flush
<1>4. ASSUME NEW b \in Apps, NEW k \in Meetings, StopMeeting(b, k) PROVE spill'[m] # "none"
  BY <1>4 DEF StopMeeting
<1>5. ASSUME NEW b \in Apps, NEW k \in Meetings, Sweep(b, k) PROVE spill'[m] # "none"
  BY <1>5, AppsAssumption DEF Sweep, Discardable
<1>6. ASSUME NEW b \in Apps, NEW k \in Meetings, FinishTranscription(b, k) PROVE spill'[m] # "none"
  BY <1>6, <1>1 DEF FinishTranscription
<1>7. ASSUME NEW b \in Apps, NEW k \in Meetings, ClearAway(b, k) PROVE spill'[m] # "none"
  BY <1>7, <1>1 DEF ClearAway
<1>8. ASSUME UNCHANGED spill PROVE spill'[m] # "none"
  BY <1>8
<1> QED
  BY <1>2, <1>3, <1>4, <1>5, <1>6, <1>7, <1>8
  DEF Next, Turn, Transcription, Distillation, DistillTurn, Launch, Crash, Scan,
      Refetch, Tidy, StopNothing, Prune, Transcribe, Recover, TranscriptionFails,
      Land, RetainAudio, Retry, DeleteAsked, DeleteDone, DeleteNote, BeginRun,
      RunFails, WriteNote, Release, audio

\* Only Land writes a transcript, and its meeting has none.
LEMMA LandingStep ==
  ASSUME IInv, Next, NEW m \in transcript
  PROVE  landings'[m] = landings[m]
<1> USE DEF IInv, SessionTypeOK
<1>1. ASSUME NEW a \in Apps, NEW k \in Meetings, Land(a, k) PROVE landings'[m] = landings[m]
  BY <1>1 DEF Land, NotYetLanded
<1>2. ASSUME UNCHANGED landings PROVE landings'[m] = landings[m]
  BY <1>2
<1> QED
  BY <1>1, <1>2
  DEF Next, Turn, Transcription, Distillation, DistillTurn, Launch, Crash, Scan,
      Refetch, Tidy, StartCapture, Flush, StopMeeting, StopNothing, Sweep, Prune,
      Transcribe, Recover, TranscriptionFails, RetainAudio, FinishTranscription,
      ClearAway, Retry, DeleteAsked, DeleteDone, DeleteNote, BeginRun, RunFails,
      WriteNote, Release, history

-----------------------------------------------------------------------------
\* The invariant holds when no app runs and nothing was captured.
LEMMA InitIInv == Init => IInv
<1> SUFFICES ASSUME Init PROVE IInv
  OBVIOUS
<1>1. SessionTypeOK
  BY DEF Init, SessionTypeOK
<1>2. Uncaptured /\ OwnersAlone /\ FirstOwnerAlone /\ NotYetLanded
  BY DEF Init, Uncaptured, OwnersAlone, Owner, FirstOwnerAlone, NotYetLanded
<1>3. ClearedIsSafe /\ NothingLost
  BY DEF Init, ClearedIsSafe, NothingLost
<1>4. TidiedIsNoted /\ RunsAreClaimed
  BY AppsAssumption DEF Init, TidiedIsNoted, RunsAreClaimed
<1> QED
  BY <1>1, <1>2, <1>3, <1>4 DEF IInv

LEMMA StutterIInv == IInv /\ UNCHANGED vars => IInv'
  BY DEF IInv, vars, SessionTypeOK, Uncaptured, OwnersAlone, Owner, FirstOwnerAlone,
         NotYetLanded, ClearedIsSafe, Safe, TidiedIsNoted, Noted, NothingLost,
         RunsAreClaimed

LEMMA NextIInv == IInv /\ Next => IInv'
<1> SUFFICES ASSUME IInv, Next PROVE IInv'
  OBVIOUS
<1>1. SessionTypeOK'
  BY TypeStep DEF IInv
<1> QED
  BY <1>1, UncapturedStep, OwnersAloneStep, FirstOwnerAloneStep, NotYetLandedStep,
     ClearedIsSafeStep, TidiedIsNotedStep, NothingLostStep, RunsAreClaimedStep
  DEF IInv

LEMMA AlwaysIInv == Spec => []IInv
<1>1. IInv /\ [Next]_vars => IInv'
  BY NextIInv, StutterIInv
<1> QED
  BY <1>1, InitIInv, PTL DEF Spec

\* The files and threads of every session keep their types
\* (SessionLifecycle!SessionTypeOK).
THEOREM SessionsTyped == Spec => []SessionTypeOK
<1>1. IInv => SessionTypeOK
  BY DEF IInv
<1> QED
  BY <1>1, AlwaysIInv, PTL

\* No recorded meeting is lost to a crash, a failure, another app or a sweep
\* (transcribe.rs, inflight.rs, retention.rs).
THEOREM NothingIsLost == Spec => []NothingLost
<1>1. IInv => NothingLost
  BY DEF IInv
<1> QED
  BY <1>1, AlwaysIInv, PTL

\* DISTILLS_IN_FLIGHT holds exactly the sessions a run is queued or busy for
\* (distill_cmds.rs).
THEOREM ClaimsAreRuns == Spec => []RunsAreClaimed
<1>1. IInv => RunsAreClaimed
  BY DEF IInv
<1> QED
  BY <1>1, AlwaysIInv, PTL

\* No recovery and no sweep, of any app, removes a directory in use
\* (inflight.rs, acquire_lock_file).
THEOREM LiveSpillsStay == Spec => LiveSpillStays
<1> DEFINE Stays == \A m \in Meetings : InUse(m) => (spill[m] # "none" => spill'[m] # "none")
<1>1. IInv /\ [Next]_vars => [Stays]_vars
  BY LiveSpillStep DEF vars
<1> QED
  BY <1>1, AlwaysIInv, PTL DEF Spec, LiveSpillStays

\* A meeting whose transcript is on disk is never transcribed again
\* (transcribe.rs, recover_orphan).
THEOREM LandsOnce == Spec => NoDoubleLanding
<1>1. IInv /\ [Next]_vars => [\A m \in transcript : landings'[m] = landings[m]]_vars
  BY LandingStep
<1> QED
  BY <1>1, AlwaysIInv, PTL DEF Spec, NoDoubleLanding
=============================================================================
