---------------------------- MODULE BackupProofs -----------------------------
(***************************************************************************)
(* What the ledger's backup keeps, for any lines, projects and processes.  *)
(*                                                                         *)
(* The argument: a snapshot that was read and not yet renamed in is still  *)
(* what the ledger says unless a commit crossed it, and whoever commits    *)
(* marks what it changed.  So a file falls behind only together with a     *)
(* process that knows, or with one of the ways the model calls lapsed.  A  *)
(* ledger lost while nothing is behind is spelled, line by line, by the    *)
(* files of the folders, and no process writes until it is restored.       *)
(***************************************************************************)
EXTENDS LedgerBackup, WellFoundedInduction, TLAPS

ReadingHolds(P) ==
    built[P] # None =>
        /\ at[P] = "flushing"
        /\ ~built[P].crossed => built[P].file = Serialized(built[P].project)

ReadingsHold == \A P \in Processes : ReadingHolds(P)

\* A process that is not serving jobs has nothing marked and nothing to write.
OnlyLiveMark ==
    \A P \in Processes : at[P] \in {"down", "restoring"} => dirty[P] = {} /\ pending[P] = {}

\* Nobody has anything to write of an empty ledger.
EmptyIsIdle ==
    LedgerIsEmpty =>
        \A P \in Processes : dirty[P] = {} /\ pending[P] = {} /\ built[P] = None

AliensLapsed == \A p \in Projects : disk[p] = Alien => p \in lapsed

\* While a ledger is lost nobody commits.
LossIsQuiet ==
    lost # None => /\ LedgerIsEmpty
                   /\ at[App] \in {"down", "restoring"}
                   /\ \A P \in Assistants : at[P] = "down"

\* A commitment's project is there, or known to be behind.
HomesKnown ==
    lost = None => \A l \in Lines : db[l] # None =>
        db[l].project \in folders \cup Behind \cup lapsed

\* What was lost is in the files.
Spelled(l) ==
    /\ \E p \in folders : disk[p][l] = lost[l].state
    /\ \A p \in folders : disk[p][l] \in {None, lost[l].state}

LossIsSpelled ==
    lost # None /\ lapsed = {} => \A l \in Lines : lost[l] # None => Spelled(l)

IInv ==
    /\ BackupTypeOK
    /\ ReadingsHold
    /\ OnlyLiveMark
    /\ EmptyIsIdle
    /\ AliensLapsed
    /\ LossIsQuiet
    /\ HomesKnown
    /\ LossIsSpelled
    /\ UnlistedSnapshotsMatch
-----------------------------------------------------------------------------
(* Types.                                                                  *)

LEMMA ProcessNames == App \in Processes /\ Assistants \subseteq Processes
BY DEF Processes

\* The two budgets.
LEMMA SpendTyped ==
  ASSUME BackupTypeOK
  PROVE  (Change => changes' \in 0..MaxChanges) /\ (Fault => faults' \in 0..MaxFaults)
BY BackupAssumption DEF BackupTypeOK, Change, Fault

\* A commit marks projects.
LEMMA MarksTyped ==
  ASSUME BackupTypeOK, NEW P \in Processes, NEW S \in SUBSET Projects, Marks(P, S)
  PROVE  dirty' \in [Processes -> SUBSET Projects] /\ built' \in [Processes -> Builds \cup {None}]
<1>1. dirty' \in [Processes -> SUBSET Projects]
  BY DEF Marks, BackupTypeOK
<1>2. ASSUME NEW b \in Builds PROVE [b EXCEPT !.crossed = TRUE] \in Builds
  BY DEF Builds
<1>3. ASSUME NEW Q \in Processes PROVE built'[Q] \in Builds \cup {None}
  <2>1. CASE built[Q] # None /\ built[Q].project \in S
    BY <2>1, <1>2 DEF Marks, BackupTypeOK
  <2>2. CASE ~(built[Q] # None /\ built[Q].project \in S)
    BY <2>2 DEF Marks, BackupTypeOK
  <2> QED BY <2>1, <2>2
<1>4. built' = [Q \in Processes |-> built'[Q]]
  BY DEF Marks
<1> QED BY <1>1, <1>3, <1>4

\* A job that commits leaves the worker's own state typed.
LEMMA WorkerTyped ==
  ASSUME BackupTypeOK, NEW S \in SUBSET Projects, WorkerWrote(S),
         db' \in [Lines -> Entries \cup {None}], changes' \in 0..MaxChanges
  PROVE  BackupTypeOK'
<1>1. /\ dirty' \in [Processes -> SUBSET Projects]
      /\ built' \in [Processes -> Builds \cup {None}]
  BY ProcessNames, MarksTyped DEF WorkerWrote
<1>2. armed' \in BOOLEAN
  BY DEF WorkerWrote
<1> QED BY <1>1, <1>2 DEF WorkerWrote, BackupTypeOK, vault

\* What a project's turn in a flush changes.
LEMMA TurnTyped ==
  ASSUME BackupTypeOK, NEW P \in Processes, NEW p \in Projects, NEW file \in Files,
         Wrote(P, p, file) \/ CouldNotWrite(P, p) \/ Skipped(P, p)
  PROVE  /\ disk' \in [Projects -> Files \cup {Alien}]
         /\ dirty' \in [Processes -> SUBSET Projects]
         /\ pending' \in [Processes -> SUBSET Projects]
         /\ built' \in [Processes -> Builds \cup {None}]
         /\ lapsed' \in SUBSET Projects
<1>1. CASE Wrote(P, p, file)
  BY <1>1 DEF Wrote, BackupTypeOK
<1>2. CASE CouldNotWrite(P, p)
  BY <1>2 DEF CouldNotWrite, BackupTypeOK
<1>3. CASE Skipped(P, p)
  BY <1>3 DEF Skipped, BackupTypeOK
<1> QED BY <1>1, <1>2, <1>3

LEMMA SerializedTyped ==
  ASSUME BackupTypeOK, NEW p \in Projects
  PROVE  Serialized(p) \in Files
BY DEF BackupTypeOK, Serialized, Files, Entries

\* The smallest of some projects.
LEMMA FirstProject ==
  ASSUME NEW S \in SUBSET Projects, S # {}
  PROVE  \E p \in S : \A q \in S : p <= q
<1> DEFINE R == {ss \in Nat \X Nat : ss[1] < ss[2]}
<1>1. IsWellFoundedOn(R, Nat)
  BY NatLessThanWellFounded DEF OpToRel
<1>2. S \subseteq Nat
  BY BackupAssumption DEF Projects
<1>3. PICK p \in S : \A q \in S : <<q, p>> \notin R
  <2> HIDE DEF R
  <2> QED BY <1>1, <1>2, WFMin
<1>4. \A q \in S : ~(q < p)
  BY <1>2, <1>3
<1>5. \A q \in S : q \in Nat /\ p \in Nat
  BY <1>2
<1> QED BY <1>3, <1>4, <1>5

\* A restored line is the entry one of the folders' files spells.
LEMMA RestoredSpelled ==
  ASSUME BackupTypeOK, NEW l \in Lines
  PROVE  \/ /\ Restored(l) = None
            /\ \A p \in folders : disk[p] = Alien \/ disk[p][l] = None
         \/ \E p \in folders : /\ disk[p] # Alien /\ disk[p][l] # None
                               /\ Restored(l) = [project |-> p, state |-> disk[p][l]]
<1> DEFINE holding == {p \in folders : disk[p] # Alien /\ disk[p][l] # None}
<1>1. CASE holding = {}
  <2>1. Restored(l) = None
    BY <1>1 DEF Restored
  <2> QED BY <1>1, <2>1
<1>2. CASE holding # {}
  <2>1. holding \in SUBSET Projects
    BY DEF BackupTypeOK
  <2>2. \E p \in holding : \A q \in holding : p <= q
    <3> HIDE DEF holding
    <3> QED BY <1>2, <2>1, FirstProject
  <2> DEFINE p == CHOOSE p \in holding : \A q \in holding : p <= q
  <2>3. p \in holding
    <3> HIDE DEF holding
    <3> QED BY <2>2
  <2>4. Restored(l) = [project |-> p, state |-> disk[p][l]]
    BY <1>2 DEF Restored
  <2> HIDE DEF p
  <2> QED BY <2>3, <2>4
<1> QED BY <1>1, <1>2

LEMMA RestoredTyped ==
  ASSUME BackupTypeOK
  PROVE  [l \in Lines |-> Restored(l)] \in [Lines -> Entries \cup {None}]
<1>1. ASSUME NEW l \in Lines PROVE Restored(l) \in Entries \cup {None}
  BY RestoredSpelled, BackupAssumption DEF BackupTypeOK, Entries, Files
<1> QED BY <1>1

\* Every step keeps the types.
LEMMA TypeStep ==
  ASSUME BackupTypeOK, Next
  PROVE  BackupTypeOK'
<1> USE ProcessNames DEF BackupTypeOK, vault
<1>1. ASSUME NEW l \in Lines, Sync(l) PROVE BackupTypeOK'
  <2>1. changes' \in 0..MaxChanges
    BY <1>1, SpendTyped DEF Sync
  <2>2. CASE db' = [db EXCEPT ![l] = [project |-> filed[l], state |-> Open]]
             /\ WorkerWrote({filed[l]})
    <3>1. db' \in [Lines -> Entries \cup {None}]
      BY <2>2, BackupAssumption DEF Entries
    <3> QED BY <2>1, <2>2, <3>1, WorkerTyped
  <2>3. CASE db[l] # None /\ db' = [db EXCEPT ![l].project = filed[l]]
             /\ WorkerWrote({db[l].project, filed[l]})
    <3>1. db[l] \in Entries /\ filed[l] \in Projects
      BY <2>3
    <3>2. [db[l] EXCEPT !.project = filed[l]] \in Entries /\ db[l].project \in Projects
      BY <3>1 DEF Entries
    <3>3. db' \in [Lines -> Entries \cup {None}]
      BY <2>3, <3>2
    <3> QED BY <2>1, <2>3, <3>1, <3>2, <3>3, WorkerTyped
  <2> QED BY <1>1, <2>2, <2>3 DEF Sync
<1>2. ASSUME NEW l \in Lines, NEW s \in States, Judge(l, s) PROVE BackupTypeOK'
  <2>1. changes' \in 0..MaxChanges
    BY <1>2, SpendTyped DEF Judge
  <2>2. db[l] \in Entries
    BY <1>2 DEF Judge
  <2>3. [db[l] EXCEPT !.state = s] \in Entries /\ db[l].project \in Projects
    BY <2>2 DEF Entries
  <2>4. db' \in [Lines -> Entries \cup {None}]
    BY <1>2, <2>3 DEF Judge
  <2> QED BY <1>2, <2>1, <2>3, <2>4, WorkerTyped DEF Judge
<1>3. CASE OtherJob
  BY <1>3, WorkerTyped DEF OtherJob
<1>4. CASE FlushDue
  BY <1>4 DEF FlushDue, StartsFlush
<1>5. CASE FlushAtQuit
  BY <1>5 DEF FlushAtQuit, StartsFlush
<1>6. CASE EndFlush
  BY <1>6 DEF EndFlush
<1>7. CASE Restore
  <2>1. Duplicated \subseteq Projects
    BY DEF Duplicated
  <2>2. CASE LedgerIsEmpty
    BY <1>7, <2>1, <2>2, RestoredTyped DEF Restore
  <2>3. CASE ~LedgerIsEmpty
    BY <1>7, <2>3 DEF Restore
  <2> QED BY <2>2, <2>3
<1>8. CASE RestoreFails
  BY <1>8, SpendTyped DEF RestoreFails
<1>9. ASSUME NEW P \in Processes, Rename(P) PROVE BackupTypeOK'
  <2> DEFINE p == built[P].project
  <2>1. p \in Projects /\ built[P].file \in Files
    BY <1>9 DEF Rename, Builds
  <2>2. /\ Wrote(P, p, built[P].file) \/ CouldNotWrite(P, p)
        /\ UNCHANGED faults \/ Fault
    BY <1>9 DEF Rename, Wrote
  <2> HIDE DEF p
  <2> QED BY <1>9, <2>1, <2>2, TurnTyped, SpendTyped DEF Rename
<1>10. ASSUME NEW P \in Processes, NEW p \in Projects, Build(P, p)
      PROVE  BackupTypeOK'
  <2>1. Serialized(p) \in Files
    BY SerializedTyped
  <2>2. CASE Wrote(P, p, NoFile) \/ CouldNotWrite(P, p) \/ Skipped(P, p)
    <3>1. NoFile \in Files
      BY DEF NoFile, Files
    <3>2. UNCHANGED faults \/ Fault
      BY <1>10 DEF Build, Wrote, Skipped
    <3> QED BY <1>10, <2>2, <3>1, <3>2, TurnTyped, SpendTyped DEF Build
  <2>3. CASE /\ built' = [built EXCEPT ![P] = [project |-> p, file |-> Serialized(p), crossed |-> FALSE]]
             /\ UNCHANGED <<disk, dirty, pending, faults, lapsed>>
    BY <1>10, <2>1, <2>3 DEF Build, Builds
  <2> QED BY <1>10, <2>2, <2>3 DEF Build
<1>11. ASSUME NEW P \in Assistants, AssistantReturns(P) PROVE BackupTypeOK'
  BY <1>11 DEF AssistantReturns
<1>12. ASSUME NEW P \in Assistants, NEW l \in Lines, NEW s \in States,
               AssistantJudges(P, l, s)
      PROVE  BackupTypeOK'
  <2>1. changes' \in 0..MaxChanges
    BY <1>12, SpendTyped DEF AssistantJudges
  <2>2. db[l] \in Entries
    BY <1>12 DEF AssistantJudges
  <2>3. [db[l] EXCEPT !.state = s] \in Entries /\ db[l].project \in Projects
    BY <2>2 DEF Entries
  <2>4. db' \in [Lines -> Entries \cup {None}]
    BY <1>12, <2>3 DEF AssistantJudges
  <2>5. /\ dirty' \in [Processes -> SUBSET Projects]
        /\ built' \in [Processes -> Builds \cup {None}]
    BY <1>12, <2>3, MarksTyped DEF AssistantJudges
  <2>6. /\ pending' \in [Processes -> SUBSET Projects]
        /\ at' \in [Processes -> {"down", "restoring", "idle", "flushing"}]
    BY <1>12, <2>3 DEF AssistantJudges
  <2> QED BY <1>12, <2>1, <2>4, <2>5, <2>6 DEF AssistantJudges
<1>13. ASSUME NEW P \in Processes, Crash(P) PROVE BackupTypeOK'
  BY <1>13, SpendTyped DEF Crash, Dies
<1>14. CASE LoseLedger
  <2>1. db' \in [Lines -> Entries \cup {None}]
    BY <1>14 DEF LoseLedger
  <2> QED BY <1>14, <2>1, SpendTyped DEF LoseLedger, Dies
<1>15. CASE Launch
  BY <1>15 DEF Launch
<1>16. ASSUME NEW p \in Projects, NEW q \in Projects, RenameProject(p, q)
      PROVE  BackupTypeOK'
  <2>1. changes' \in 0..MaxChanges
    BY <1>16, SpendTyped DEF RenameProject
  <2>2. lapsed' \subseteq Projects
    <3>1. CASE lost = None
      BY <1>16, <3>1 DEF RenameProject
    <3>2. CASE lost # None
      BY <1>16, <3>2 DEF RenameProject
    <3> QED BY <3>1, <3>2
  <2>3. disk' \in [Projects -> Files \cup {Alien}]
    BY <1>16 DEF RenameProject, NoFile, Files
  <2> QED BY <1>16, <2>1, <2>2, <2>3 DEF RenameProject, flushes
<1>17. ASSUME NEW p \in Projects, NEW q \in Projects, DeleteProject(p, q)
      PROVE  BackupTypeOK'
  <2>1. changes' \in 0..MaxChanges
    BY <1>17, SpendTyped DEF DeleteProject
  <2>2. disk' \in [Projects -> Files \cup {Alien}]
    BY <1>17 DEF DeleteProject, NoFile, Files
  <2> QED BY <1>17, <2>1, <2>2 DEF DeleteProject, flushes
<1>18. ASSUME NEW l \in Lines, NEW q \in Projects, Refile(l, q) PROVE BackupTypeOK'
  <2>1. changes' \in 0..MaxChanges
    BY <1>18, SpendTyped DEF Refile
  <2> QED BY <1>18, <2>1 DEF Refile, flushes
<1> QED
  BY <1>1, <1>2, <1>3, <1>4, <1>5, <1>6, <1>7, <1>8, <1>9, <1>10, <1>11, <1>12, <1>13,
     <1>14, <1>15, <1>16, <1>17, <1>18
  DEF Next, Worker, Writing, Assistant, Surroundings

-----------------------------------------------------------------------------
(* What the steps amount to.                                               *)

\* A commit touches commitments of S, before and after.
Commits(S) ==
    /\ \A l \in Lines : db'[l] # db[l] =>
          db'[l] # None /\ db'[l].project \in S /\ (db[l] # None => db[l].project \in S)
    /\ S # {} => ~LedgerIsEmpty'

WorkerCommits(S) == WorkerWrote(S) /\ Commits(S)

AssistantCommits(P, S) ==
    /\ at[P] = "down" /\ ~LedgerIsEmpty
    /\ Marks(P, S) /\ Commits(S) /\ S # {}
    /\ at' = [at EXCEPT ![P] = "flushing"]
    /\ pending' = [pending EXCEPT ![P] = S]
    /\ UNCHANGED <<vault, armed, faults, lapsed, lost>>

\* A file is written as it should be, or as a reading a commit crossed.
Lands(P, p, file) ==
    /\ Wrote(P, p, file) /\ file \in Files
    /\ (built[P] = None \/ ~built[P].crossed) => file = Serialized(p)
    /\ p \in folders \/ Serialized(p) = NoFile

Reads(P, p) ==
    /\ built' = [built EXCEPT ![P] = [project |-> p, file |-> Serialized(p), crossed |-> FALSE]]
    /\ UNCHANGED <<disk, dirty, pending, lapsed>>

Turns(P, p) ==
    /\ at[P] = "flushing"
    /\ p \in pending[P] \/ built[P] # None
    /\ \/ \E file \in Files : Lands(P, p, file)
       \/ CouldNotWrite(P, p)
       \/ Skipped(P, p)
       \/ Reads(P, p)
    /\ UNCHANGED <<db, filed, folders, at, armed, changes, lost>>

LEMMA SyncCommits ==
  ASSUME BackupTypeOK, NEW l \in Lines, Sync(l)
  PROVE  \E S \in SUBSET Projects : WorkerCommits(S)
<1>1. CASE /\ db[l] = None /\ db' = [db EXCEPT ![l] = [project |-> filed[l], state |-> Open]]
           /\ WorkerWrote({filed[l]})
  <2>1. db'[l] = [project |-> filed[l], state |-> Open] /\ db'[l] # None
    BY <1>1, BackupAssumption DEF BackupTypeOK, Entries
  <2>2. Commits({filed[l]})
    BY <1>1, <2>1 DEF Commits, LedgerIsEmpty, BackupTypeOK
  <2>3. {filed[l]} \in SUBSET Projects
    BY DEF BackupTypeOK
  <2> QED BY <1>1, <2>2, <2>3 DEF WorkerCommits
<1>2. CASE /\ db[l] # None /\ db' = [db EXCEPT ![l].project = filed[l]]
           /\ WorkerWrote({db[l].project, filed[l]})
  <2> DEFINE S == {db[l].project, filed[l]}
  <2>1. db[l] \in Entries /\ filed[l] \in Projects
    BY <1>2 DEF BackupTypeOK
  <2>2. db'[l] \in Entries /\ db'[l].project = filed[l]
    BY <1>2, <2>1 DEF BackupTypeOK, Entries
  <2>3. db'[l] # None
    BY <2>2, BackupAssumption
  <2>4. \A k \in Lines : k # l => db'[k] = db[k]
    BY <1>2 DEF BackupTypeOK
  <2>5. Commits(S)
    BY <2>2, <2>3, <2>4 DEF Commits, LedgerIsEmpty
  <2>6. S \in SUBSET Projects
    BY <2>1 DEF Entries
  <2> QED BY <1>2, <2>5, <2>6 DEF WorkerCommits
<1> QED BY <1>1, <1>2 DEF Sync

LEMMA JudgeCommits ==
  ASSUME BackupTypeOK, NEW l \in Lines, NEW s \in States, db[l] # None,
         db' = [db EXCEPT ![l].state = s]
  PROVE  {db[l].project} \in SUBSET Projects /\ Commits({db[l].project})
<1>1. db[l] \in Entries
  BY DEF BackupTypeOK
<1>2. db'[l] \in Entries /\ db'[l].project = db[l].project
  BY <1>1 DEF BackupTypeOK, Entries
<1>3. db'[l] # None
  BY <1>2, BackupAssumption
<1>4. \A k \in Lines : k # l => db'[k] = db[k]
  BY DEF BackupTypeOK
<1> QED BY <1>1, <1>2, <1>3, <1>4 DEF Commits, LedgerIsEmpty, Entries

LEMMA AssistantJudgeCommits ==
  ASSUME BackupTypeOK, NEW P \in Assistants, NEW l \in Lines, NEW s \in States,
         AssistantJudges(P, l, s)
  PROVE  \E S \in SUBSET Projects : AssistantCommits(P, S)
<1>1. {db[l].project} \in SUBSET Projects /\ Commits({db[l].project})
  BY JudgeCommits DEF AssistantJudges
<1>2. AssistantCommits(P, {db[l].project})
  BY <1>1 DEF AssistantJudges, AssistantCommits, LedgerIsEmpty
<1> QED BY <1>1, <1>2

LEMMA WritingTurns ==
  ASSUME BackupTypeOK, ReadingsHold, NEW P \in Processes,
         Rename(P) \/ \E p \in Projects : Build(P, p)
  PROVE  \E p \in Projects : Turns(P, p)
<1>1. CASE Rename(P)
  <2> DEFINE p == built[P].project
  <2>1. p \in Projects /\ built[P].file \in Files /\ built[P].crossed \in BOOLEAN
    BY <1>1 DEF Rename, Builds, BackupTypeOK
  <2>2. at[P] = "flushing" /\ (~built[P].crossed => built[P].file = Serialized(p))
    BY <1>1 DEF Rename, ReadingsHold, ReadingHolds
  <2>3. \/ p \in folders /\ Wrote(P, p, built[P].file)
        \/ CouldNotWrite(P, p)
    BY <1>1 DEF Rename
  <2> HIDE DEF p
  <2>4. CASE p \in folders /\ Wrote(P, p, built[P].file)
    <3>1. Lands(P, p, built[P].file)
      BY <1>1, <2>1, <2>2, <2>4 DEF Lands, Rename
    <3> QED BY <1>1, <2>1, <2>2, <3>1 DEF Turns, Rename
  <2>5. CASE CouldNotWrite(P, p)
    BY <1>1, <2>1, <2>2, <2>5 DEF Turns, Rename
  <2> QED BY <2>3, <2>4, <2>5
<1>2. ASSUME NEW p \in Projects, Build(P, p) PROVE Turns(P, p)
  <2>1. at[P] = "flushing" /\ built[P] = None /\ p \in pending[P]
    BY <1>2 DEF Build, Turn
  <2>2. UNCHANGED <<db, filed, folders, at, armed, changes, lost>>
    BY <1>2 DEF Build
  <2>3. CASE Serialized(p) = NoFile /\ Wrote(P, p, NoFile)
    <3>1. Lands(P, p, NoFile) /\ NoFile \in Files
      BY <2>3 DEF Lands, NoFile, Files
    <3> QED BY <2>1, <2>2, <3>1 DEF Turns
  <2>4. CASE CouldNotWrite(P, p)
    BY <2>1, <2>2, <2>4 DEF Turns
  <2>5. CASE Skipped(P, p)
    BY <2>1, <2>2, <2>5 DEF Turns
  <2>6. CASE Reads(P, p)
    BY <2>1, <2>2, <2>6 DEF Turns
  <2> QED BY <1>2, <2>3, <2>4, <2>5, <2>6 DEF Build, Reads
<1> QED BY <1>1, <1>2

LEMMA Cases ==
  ASSUME BackupTypeOK, ReadingsHold, Next
  PROVE  \/ \E S \in SUBSET Projects : WorkerCommits(S)
         \/ FlushDue \/ FlushAtQuit \/ EndFlush \/ Restore \/ RestoreFails
         \/ \E P \in Processes, p \in Projects : Turns(P, p)
         \/ \E P \in Assistants : AssistantReturns(P)
         \/ \E P \in Assistants, S \in SUBSET Projects : AssistantCommits(P, S)
         \/ \E P \in Processes : Crash(P)
         \/ LoseLedger \/ Launch
         \/ \E p, q \in Projects : RenameProject(p, q)
         \/ \E p, q \in Projects : DeleteProject(p, q)
         \/ \E l \in Lines, q \in Projects : Refile(l, q)
<1>1. ASSUME Worker
      PROVE  \/ \E S \in SUBSET Projects : WorkerCommits(S)
             \/ FlushDue \/ FlushAtQuit \/ EndFlush \/ Restore \/ RestoreFails
  <2>1. ASSUME NEW l \in Lines, NEW s \in States, Judge(l, s)
        PROVE  \E S \in SUBSET Projects : WorkerCommits(S)
    <3>1. {db[l].project} \in SUBSET Projects /\ WorkerCommits({db[l].project})
      BY <2>1, JudgeCommits DEF Judge, WorkerCommits
    <3> QED BY <3>1
  <2>2. ASSUME OtherJob PROVE WorkerCommits({})
    BY <2>2 DEF OtherJob, WorkerCommits, Commits
  <2> QED BY <1>1, <2>1, <2>2, SyncCommits DEF Worker
<1> QED BY <1>1, WritingTurns, AssistantJudgeCommits DEF Next, Writing, Assistant,
           Surroundings

\* What no commit touched reads as before.
LEMMA SameReading ==
  ASSUME BackupTypeOK, NEW S, Commits(S)
  PROVE  \A p \in Projects \ S : Serialized(p)' = Serialized(p)
<1> SUFFICES ASSUME NEW p \in Projects \ S PROVE Serialized(p)' = Serialized(p)
  OBVIOUS
<1>1. ASSUME NEW l \in Lines
      PROVE  (db'[l] # None /\ db'[l].project = p) <=> (db[l] # None /\ db[l].project = p)
  BY DEF Commits
<1>2. ASSUME NEW l \in Lines, db[l] # None, db[l].project = p PROVE db'[l] = db[l]
  BY <1>2 DEF Commits
<1> QED BY <1>1, <1>2 DEF Serialized

\* A commit marks the readings it crosses; the others stay right.
LEMMA MarkedReading ==
  ASSUME BackupTypeOK, NEW P \in Processes, NEW S \in SUBSET Projects, Marks(P, S), Commits(S),
         NEW Q \in Processes, ReadingHolds(Q), at'[Q] \in {at[Q], "flushing"}
  PROVE  ReadingHolds(Q)'
<1>1. CASE built[Q] = None
  BY <1>1 DEF Marks, ReadingHolds
<1>2. CASE built[Q] # None /\ built[Q].project \in S
  <2>1. built[Q] \in Builds
    BY <1>2 DEF BackupTypeOK
  <2>2. built'[Q] = [built[Q] EXCEPT !.crossed = TRUE]
    BY <1>2 DEF Marks
  <2>3. built'[Q].crossed
    BY <2>1, <2>2 DEF Builds
  <2> QED BY <1>2, <2>3 DEF ReadingHolds
<1>3. CASE built[Q] # None /\ built[Q].project \notin S
  <2>1. built'[Q] = built[Q]
    BY <1>3 DEF Marks
  <2>2. built[Q].project \in Projects
    BY <1>3 DEF BackupTypeOK, Builds
  <2> QED BY <1>3, <2>1, <2>2, SameReading DEF ReadingHolds, Serialized
<1> QED BY <1>1, <1>2, <1>3

\* With the ledger untouched a reading changes only with its own process.
LEMMA KeptReading ==
  ASSUME NEW Q \in Processes, ReadingHolds(Q), UNCHANGED db,
         \/ built'[Q] = None
         \/ built'[Q] = built[Q] /\ at'[Q] \in {at[Q], "flushing"}
  PROVE  ReadingHolds(Q)'
BY DEF ReadingHolds, Serialized

-----------------------------------------------------------------------------
(* Each conjunct.                                                          *)

\* A reading that no commit crossed stays right.
LEMMA ReadingsStep ==
  ASSUME BackupTypeOK, BackupTypeOK', ReadingsHold, EmptyIsIdle, Next
  PROVE  ReadingsHold'
<1>1. ASSUME NEW S \in SUBSET Projects, WorkerCommits(S)
      PROVE  ReadingsHold'
  <2> SUFFICES ASSUME NEW Q \in Processes, ReadingHolds(Q) PROVE ReadingHolds(Q)'
    BY DEF ReadingsHold
  <2>1. Marks(App, S) /\ Commits(S) /\ at'[Q] \in {at[Q], "flushing"}
    BY <1>1, ProcessNames DEF WorkerCommits, WorkerWrote, BackupTypeOK
  <2> QED BY <2>1, ProcessNames, MarkedReading
<1>2. CASE FlushDue
  <2> SUFFICES ASSUME NEW Q \in Processes, ReadingHolds(Q) PROVE ReadingHolds(Q)'
    BY DEF ReadingsHold
  <2>1. UNCHANGED db /\ (built'[Q] = None \/ (built'[Q] = built[Q] /\ at'[Q] \in {at[Q], "flushing"}))
    BY <1>2, ProcessNames DEF FlushDue, StartsFlush, BackupTypeOK, ReadingHolds
  <2> QED BY <2>1, KeptReading
<1>3. CASE FlushAtQuit
  <2> SUFFICES ASSUME NEW Q \in Processes, ReadingHolds(Q) PROVE ReadingHolds(Q)'
    BY DEF ReadingsHold
  <2>1. UNCHANGED db /\ (built'[Q] = None \/ (built'[Q] = built[Q] /\ at'[Q] \in {at[Q], "flushing"}))
    BY <1>3, ProcessNames DEF FlushAtQuit, StartsFlush, BackupTypeOK, ReadingHolds
  <2> QED BY <2>1, KeptReading
<1>4. CASE EndFlush
  <2> SUFFICES ASSUME NEW Q \in Processes, ReadingHolds(Q) PROVE ReadingHolds(Q)'
    BY DEF ReadingsHold
  <2>1. UNCHANGED db /\ built' = built /\ (built[Q] # None => at'[Q] = at[Q])
    BY <1>4, ProcessNames DEF EndFlush, BackupTypeOK, ReadingHolds
  <2> QED BY <2>1, KeptReading DEF ReadingHolds
<1>5. CASE Restore
  <2> SUFFICES ASSUME NEW Q \in Processes, ReadingHolds(Q) PROVE ReadingHolds(Q)'
    BY DEF ReadingsHold
  <2>1. CASE LedgerIsEmpty
    BY <1>5, <2>1 DEF Restore, EmptyIsIdle, ReadingHolds
  <2>2. CASE ~LedgerIsEmpty
    <3>1. UNCHANGED db /\ built' = built /\ (built[Q] # None => at'[Q] = at[Q])
      BY <1>5, <2>2, ProcessNames DEF Restore, BackupTypeOK, ReadingHolds
    <3> QED BY <3>1, KeptReading DEF ReadingHolds
  <2> QED BY <2>1, <2>2
<1>6. CASE RestoreFails
  <2> SUFFICES ASSUME NEW Q \in Processes, ReadingHolds(Q) PROVE ReadingHolds(Q)'
    BY DEF ReadingsHold
  <2>1. UNCHANGED db /\ built' = built /\ (built[Q] # None => at'[Q] = at[Q])
    BY <1>6, ProcessNames DEF RestoreFails, BackupTypeOK, ReadingHolds
  <2> QED BY <2>1, KeptReading DEF ReadingHolds
<1>7. ASSUME NEW P \in Processes, NEW p \in Projects, Turns(P, p)
      PROVE  ReadingsHold'
  <2> SUFFICES ASSUME NEW Q \in Processes, ReadingHolds(Q) PROVE ReadingHolds(Q)'
    BY DEF ReadingsHold
  <2>1. CASE Reads(P, p) /\ Q = P
    <3>1. built'[P] = [project |-> p, file |-> Serialized(p), crossed |-> FALSE]
      BY <2>1 DEF Reads, BackupTypeOK
    <3> QED BY <1>7, <2>1, <3>1 DEF Turns, ReadingHolds, Serialized
  <2>2. CASE ~(Reads(P, p) /\ Q = P)
    <3>1. UNCHANGED <<db, at>> /\ (built'[Q] = None \/ built'[Q] = built[Q])
      BY <1>7, <2>2 DEF Turns, Lands, Wrote, CouldNotWrite, Skipped, Reads, BackupTypeOK
    <3> QED BY <3>1, KeptReading
  <2> QED BY <2>1, <2>2
<1>8. ASSUME NEW P \in Assistants, AssistantReturns(P)
      PROVE  ReadingsHold'
  <2> SUFFICES ASSUME NEW Q \in Processes, ReadingHolds(Q) PROVE ReadingHolds(Q)'
    BY DEF ReadingsHold
  <2>1. UNCHANGED db /\ P \in Processes
    BY <1>8, ProcessNames DEF AssistantReturns
  <2>2. CASE Q = P
    BY <1>8, <2>1, <2>2, KeptReading DEF AssistantReturns, BackupTypeOK
  <2>3. CASE Q # P
    BY <1>8, <2>1, <2>3, KeptReading DEF AssistantReturns, BackupTypeOK
  <2> QED BY <2>2, <2>3
<1>9. ASSUME NEW P \in Assistants, NEW S \in SUBSET Projects, AssistantCommits(P, S)
      PROVE  ReadingsHold'
  <2> SUFFICES ASSUME NEW Q \in Processes, ReadingHolds(Q) PROVE ReadingHolds(Q)'
    BY DEF ReadingsHold
  <2>1. Marks(P, S) /\ Commits(S) /\ at'[Q] \in {at[Q], "flushing"}
    BY <1>9, ProcessNames DEF AssistantCommits, BackupTypeOK
  <2> QED BY <2>1, ProcessNames, MarkedReading
<1>10. ASSUME NEW P \in Processes, Crash(P)
      PROVE  ReadingsHold'
  <2> SUFFICES ASSUME NEW Q \in Processes, ReadingHolds(Q) PROVE ReadingHolds(Q)'
    BY DEF ReadingsHold
  <2>1. UNCHANGED db /\ P \in Processes
    BY <1>10, ProcessNames DEF Crash, Dies, vault
  <2>2. CASE Q = P
    BY <1>10, <2>1, <2>2, KeptReading DEF Crash, Dies, vault, BackupTypeOK
  <2>3. CASE Q # P
    BY <1>10, <2>1, <2>3, KeptReading DEF Crash, Dies, vault, BackupTypeOK
  <2> QED BY <2>2, <2>3
<1>11. CASE LoseLedger
  <2> SUFFICES ASSUME NEW Q \in Processes PROVE ReadingHolds(Q)'
    BY DEF ReadingsHold
  <2>1. built'[Q] = None
    BY <1>11 DEF LoseLedger, Dies, BackupTypeOK, ReadingsHold, ReadingHolds, Processes
  <2> QED BY <2>1 DEF ReadingHolds
<1>12. CASE Launch
  <2> SUFFICES ASSUME NEW Q \in Processes, ReadingHolds(Q) PROVE ReadingHolds(Q)'
    BY DEF ReadingsHold
  <2>1. UNCHANGED db /\ built' = built /\ (built[Q] # None => at'[Q] = at[Q])
    BY <1>12, ProcessNames DEF Launch, BackupTypeOK, ReadingHolds
  <2> QED BY <2>1, KeptReading DEF ReadingHolds
<1>13. ASSUME NEW p \in Projects, NEW q \in Projects, RenameProject(p, q)
      PROVE  ReadingsHold'
  <2> SUFFICES ASSUME NEW Q \in Processes, ReadingHolds(Q) PROVE ReadingHolds(Q)'
    BY DEF ReadingsHold
  <2>1. UNCHANGED db /\ (built'[Q] = None \/ (built'[Q] = built[Q] /\ at'[Q] \in {at[Q], "flushing"}))
    BY <1>13, ProcessNames DEF RenameProject, flushes, BackupTypeOK, ReadingHolds
  <2> QED BY <2>1, KeptReading
<1>14. ASSUME NEW p \in Projects, NEW q \in Projects, DeleteProject(p, q)
      PROVE  ReadingsHold'
  <2> SUFFICES ASSUME NEW Q \in Processes, ReadingHolds(Q) PROVE ReadingHolds(Q)'
    BY DEF ReadingsHold
  <2>1. UNCHANGED db /\ (built'[Q] = None \/ (built'[Q] = built[Q] /\ at'[Q] \in {at[Q], "flushing"}))
    BY <1>14, ProcessNames DEF DeleteProject, flushes, BackupTypeOK, ReadingHolds
  <2> QED BY <2>1, KeptReading
<1>15. ASSUME NEW l \in Lines, NEW q \in Projects, Refile(l, q)
      PROVE  ReadingsHold'
  <2> SUFFICES ASSUME NEW Q \in Processes, ReadingHolds(Q) PROVE ReadingHolds(Q)'
    BY DEF ReadingsHold
  <2>1. UNCHANGED db /\ (built'[Q] = None \/ (built'[Q] = built[Q] /\ at'[Q] \in {at[Q], "flushing"}))
    BY <1>15, ProcessNames DEF Refile, flushes, BackupTypeOK, ReadingHolds
  <2> QED BY <2>1, KeptReading
<1> QED
  BY <1>1, <1>2, <1>3, <1>4, <1>5, <1>6, <1>7, <1>8, <1>9, <1>10, <1>11, <1>12, <1>13,
     <1>14, <1>15, Cases

\* Only a process serving jobs has anything marked.
LEMMA LiveMarksStep ==
  ASSUME BackupTypeOK, BackupTypeOK', ReadingsHold, OnlyLiveMark, Next
  PROVE  OnlyLiveMark'
<1> USE ProcessNames DEF BackupTypeOK, OnlyLiveMark, vault
<1>1. ASSUME NEW S \in SUBSET Projects, WorkerCommits(S)
      PROVE  OnlyLiveMark'
  BY <1>1 DEF WorkerCommits, WorkerWrote, Marks
<1>2. CASE FlushDue
  BY <1>2 DEF FlushDue, StartsFlush
<1>3. CASE FlushAtQuit
  BY <1>3 DEF FlushAtQuit, StartsFlush
<1>4. CASE EndFlush
  BY <1>4 DEF EndFlush
<1>5. CASE Restore
  BY <1>5 DEF Restore
<1>6. CASE RestoreFails
  BY <1>6 DEF RestoreFails
<1>7. ASSUME NEW P \in Processes, NEW p \in Projects, Turns(P, p)
      PROVE  OnlyLiveMark'
  <2>1. /\ at[P] = "flushing" /\ at' = at
        /\ \A Q \in Processes \ {P} : dirty'[Q] = dirty[Q] /\ pending'[Q] = pending[Q]
    BY <1>7 DEF Turns, Lands, Wrote, CouldNotWrite, Skipped, Reads
  <2> QED BY <2>1
<1>8. ASSUME NEW P \in Assistants, AssistantReturns(P)
      PROVE  OnlyLiveMark'
  BY <1>8 DEF AssistantReturns
<1>9. ASSUME NEW P \in Assistants, NEW S \in SUBSET Projects, AssistantCommits(P, S)
      PROVE  OnlyLiveMark'
  BY <1>9 DEF AssistantCommits, Marks
<1>10. ASSUME NEW P \in Processes, Crash(P)
      PROVE  OnlyLiveMark'
  BY <1>10 DEF Crash, Dies
<1>11. CASE LoseLedger
  BY <1>11 DEF LoseLedger, Dies
<1>12. CASE Launch
  BY <1>12 DEF Launch
<1>13. ASSUME NEW p \in Projects, NEW q \in Projects, RenameProject(p, q)
      PROVE  OnlyLiveMark'
  BY <1>13 DEF RenameProject, flushes, Change
<1>14. ASSUME NEW p \in Projects, NEW q \in Projects, DeleteProject(p, q)
      PROVE  OnlyLiveMark'
  BY <1>14 DEF DeleteProject, flushes
<1>15. ASSUME NEW l \in Lines, NEW q \in Projects, Refile(l, q)
      PROVE  OnlyLiveMark'
  BY <1>15 DEF Refile, flushes
<1> QED
  BY <1>1, <1>2, <1>3, <1>4, <1>5, <1>6, <1>7, <1>8, <1>9, <1>10, <1>11, <1>12, <1>13,
     <1>14, <1>15, Cases

\* An empty ledger has nothing to be written.
LEMMA IdleStep ==
  ASSUME BackupTypeOK, BackupTypeOK', ReadingsHold, OnlyLiveMark, EmptyIsIdle, Next
  PROVE  EmptyIsIdle'
<1>1. ASSUME NEW S \in SUBSET Projects, WorkerCommits(S)
      PROVE  EmptyIsIdle'
  <2>1. CASE S = {}
    <3>1. LedgerIsEmpty' => LedgerIsEmpty
      BY <1>1, <2>1 DEF WorkerCommits, Commits, LedgerIsEmpty
    <3>2. /\ pending' = pending
          /\ \A Q \in Processes : dirty'[Q] = dirty[Q] /\ (built[Q] = None => built'[Q] = None)
      BY <1>1, <2>1, ProcessNames DEF WorkerCommits, WorkerWrote, Marks, BackupTypeOK
    <3> QED BY <3>1, <3>2 DEF EmptyIsIdle
  <2>2. CASE S # {}
    BY <1>1, <2>2 DEF WorkerCommits, Commits, EmptyIsIdle
  <2> QED BY <2>1, <2>2
<1>2. CASE FlushDue
  <2>1. db' = db
    BY <1>2 DEF FlushDue, StartsFlush
  <2>2. ASSUME LedgerIsEmpty, NEW Q \in Processes
        PROVE  dirty'[Q] = {} /\ pending'[Q] = {} /\ built'[Q] = None
    BY <1>2, <2>2, ProcessNames DEF FlushDue, StartsFlush, BackupTypeOK, EmptyIsIdle, vault
  <2> QED BY <2>1, <2>2 DEF EmptyIsIdle, LedgerIsEmpty
<1>3. CASE FlushAtQuit
  <2>1. db' = db
    BY <1>3 DEF FlushAtQuit, StartsFlush
  <2>2. ASSUME LedgerIsEmpty, NEW Q \in Processes
        PROVE  dirty'[Q] = {} /\ pending'[Q] = {} /\ built'[Q] = None
    BY <1>3, <2>2, ProcessNames DEF FlushAtQuit, StartsFlush, BackupTypeOK, EmptyIsIdle,
       vault
  <2> QED BY <2>1, <2>2 DEF EmptyIsIdle, LedgerIsEmpty
<1>4. CASE EndFlush
  <2>1. db' = db
    BY <1>4 DEF EndFlush
  <2>2. ASSUME LedgerIsEmpty, NEW Q \in Processes
        PROVE  dirty'[Q] = {} /\ pending'[Q] = {} /\ built'[Q] = None
    BY <1>4, <2>2, ProcessNames DEF EndFlush, BackupTypeOK, EmptyIsIdle, vault
  <2> QED BY <2>1, <2>2 DEF EmptyIsIdle, LedgerIsEmpty
<1>5. CASE Restore
  <2>1. CASE LedgerIsEmpty
    <3>1. \A Q \in Processes : dirty'[Q] = {} /\ pending'[Q] = {} /\ built'[Q] = None
      BY <1>5, <2>1, ProcessNames DEF Restore, BackupTypeOK, EmptyIsIdle
    <3> QED BY <3>1 DEF EmptyIsIdle
  <2>2. CASE ~LedgerIsEmpty
    BY <1>5, <2>2 DEF Restore, EmptyIsIdle, LedgerIsEmpty
  <2> QED BY <2>1, <2>2
<1>6. CASE RestoreFails
  <2>1. db' = db
    BY <1>6 DEF RestoreFails
  <2>2. ASSUME LedgerIsEmpty, NEW Q \in Processes
        PROVE  dirty'[Q] = {} /\ pending'[Q] = {} /\ built'[Q] = None
    BY <1>6, <2>2, ProcessNames DEF RestoreFails, BackupTypeOK, EmptyIsIdle, vault
  <2> QED BY <2>1, <2>2 DEF EmptyIsIdle, LedgerIsEmpty
<1>7. ASSUME NEW P \in Processes, NEW p \in Projects, Turns(P, p)
      PROVE  EmptyIsIdle'
  <2>1. db' = db /\ ~LedgerIsEmpty
    BY <1>7 DEF Turns, EmptyIsIdle
  <2> QED BY <2>1 DEF EmptyIsIdle, LedgerIsEmpty
<1>8. ASSUME NEW P \in Assistants, AssistantReturns(P)
      PROVE  EmptyIsIdle'
  <2>1. db' = db
    BY <1>8 DEF AssistantReturns
  <2>2. ASSUME LedgerIsEmpty, NEW Q \in Processes
        PROVE  dirty'[Q] = {} /\ pending'[Q] = {} /\ built'[Q] = None
    BY <1>8, <2>2, ProcessNames DEF AssistantReturns, BackupTypeOK, EmptyIsIdle, vault
  <2> QED BY <2>1, <2>2 DEF EmptyIsIdle, LedgerIsEmpty
<1>9. ASSUME NEW P \in Assistants, NEW S \in SUBSET Projects, AssistantCommits(P, S)
      PROVE  EmptyIsIdle'
  BY <1>9 DEF AssistantCommits, Commits, EmptyIsIdle
<1>10. ASSUME NEW P \in Processes, Crash(P)
      PROVE  EmptyIsIdle'
  <2>1. db' = db
    BY <1>10 DEF Crash, Dies
  <2>2. ASSUME LedgerIsEmpty, NEW Q \in Processes
        PROVE  dirty'[Q] = {} /\ pending'[Q] = {} /\ built'[Q] = None
    BY <1>10, <2>2, ProcessNames DEF Crash, Dies, BackupTypeOK, EmptyIsIdle, vault
  <2> QED BY <2>1, <2>2 DEF EmptyIsIdle, LedgerIsEmpty
<1>11. CASE LoseLedger
  <2>1. ASSUME NEW Q \in Processes
        PROVE  dirty'[Q] = {} /\ pending'[Q] = {} /\ built'[Q] = None
    BY <1>11, ProcessNames DEF LoseLedger, Dies, BackupTypeOK, OnlyLiveMark, ReadingsHold,
       ReadingHolds, Processes
  <2> QED BY <2>1 DEF EmptyIsIdle
<1>12. CASE Launch
  <2>1. db' = db
    BY <1>12 DEF Launch
  <2>2. ASSUME LedgerIsEmpty, NEW Q \in Processes
        PROVE  dirty'[Q] = {} /\ pending'[Q] = {} /\ built'[Q] = None
    BY <1>12, <2>2, ProcessNames DEF Launch, BackupTypeOK, EmptyIsIdle, vault
  <2> QED BY <2>1, <2>2 DEF EmptyIsIdle, LedgerIsEmpty
<1>13. ASSUME NEW p \in Projects, NEW q \in Projects, RenameProject(p, q)
      PROVE  EmptyIsIdle'
  <2>1. db' = db
    BY <1>13 DEF RenameProject, flushes, Change
  <2>2. ASSUME LedgerIsEmpty, NEW Q \in Processes
        PROVE  dirty'[Q] = {} /\ pending'[Q] = {} /\ built'[Q] = None
    BY <1>13, <2>2, ProcessNames DEF RenameProject, flushes, Change, BackupTypeOK,
       EmptyIsIdle, vault
  <2> QED BY <2>1, <2>2 DEF EmptyIsIdle, LedgerIsEmpty
<1>14. ASSUME NEW p \in Projects, NEW q \in Projects, DeleteProject(p, q)
      PROVE  EmptyIsIdle'
  <2>1. db' = db
    BY <1>14 DEF DeleteProject, flushes
  <2>2. ASSUME LedgerIsEmpty, NEW Q \in Processes
        PROVE  dirty'[Q] = {} /\ pending'[Q] = {} /\ built'[Q] = None
    BY <1>14, <2>2, ProcessNames DEF DeleteProject, flushes, BackupTypeOK, EmptyIsIdle,
       vault
  <2> QED BY <2>1, <2>2 DEF EmptyIsIdle, LedgerIsEmpty
<1>15. ASSUME NEW l \in Lines, NEW q \in Projects, Refile(l, q)
      PROVE  EmptyIsIdle'
  <2>1. db' = db
    BY <1>15 DEF Refile, flushes
  <2>2. ASSUME LedgerIsEmpty, NEW Q \in Processes
        PROVE  dirty'[Q] = {} /\ pending'[Q] = {} /\ built'[Q] = None
    BY <1>15, <2>2, ProcessNames DEF Refile, flushes, BackupTypeOK, EmptyIsIdle, vault
  <2> QED BY <2>1, <2>2 DEF EmptyIsIdle, LedgerIsEmpty
<1> QED
  BY <1>1, <1>2, <1>3, <1>4, <1>5, <1>6, <1>7, <1>8, <1>9, <1>10, <1>11, <1>12, <1>13,
     <1>14, <1>15, Cases

\* A file that cannot be read is behind, and nobody writes one.
LEMMA AliensStep ==
  ASSUME BackupTypeOK, BackupTypeOK', ReadingsHold, AliensLapsed, Next
  PROVE  AliensLapsed'
<1> USE ProcessNames DEF BackupTypeOK, AliensLapsed, vault
<1>1. ASSUME NEW S \in SUBSET Projects, WorkerCommits(S)
      PROVE  AliensLapsed'
  BY <1>1 DEF WorkerCommits, WorkerWrote, Marks
<1>2. CASE FlushDue
  BY <1>2 DEF FlushDue, StartsFlush
<1>3. CASE FlushAtQuit
  BY <1>3 DEF FlushAtQuit, StartsFlush
<1>4. CASE EndFlush
  BY <1>4 DEF EndFlush
<1>5. CASE Restore
  BY <1>5 DEF Restore
<1>6. CASE RestoreFails
  BY <1>6, BackupAssumption DEF RestoreFails, NoFile, Files
<1>7. ASSUME NEW P \in Processes, NEW p \in Projects, Turns(P, p)
      PROVE  AliensLapsed'
  <2>1. CASE \E file \in Files : Lands(P, p, file)
    BY <1>7, <2>1, BackupAssumption DEF Lands, Wrote
  <2>2. CASE CouldNotWrite(P, p) \/ Skipped(P, p) \/ Reads(P, p)
    BY <2>2 DEF CouldNotWrite, Skipped, Reads
  <2> QED BY <1>7, <2>1, <2>2 DEF Turns
<1>8. ASSUME NEW P \in Assistants, AssistantReturns(P)
      PROVE  AliensLapsed'
  BY <1>8 DEF AssistantReturns
<1>9. ASSUME NEW P \in Assistants, NEW S \in SUBSET Projects, AssistantCommits(P, S)
      PROVE  AliensLapsed'
  BY <1>9 DEF AssistantCommits, Marks
<1>10. ASSUME NEW P \in Processes, Crash(P)
      PROVE  AliensLapsed'
  BY <1>10 DEF Crash, Dies
<1>11. CASE LoseLedger
  BY <1>11 DEF LoseLedger, Dies
<1>12. CASE Launch
  BY <1>12 DEF Launch
<1>13. ASSUME NEW p \in Projects, NEW q \in Projects, RenameProject(p, q)
      PROVE  AliensLapsed'
  <2>1. disk' = [disk EXCEPT ![p] = NoFile, ![q] = disk[p]] /\ p # q /\ NoFile # Alien
    BY <1>13, BackupAssumption DEF RenameProject, NoFile, Files
  <2>2. CASE lost = None
    BY <1>13, <2>1, <2>2 DEF RenameProject
  <2>3. CASE lost # None
    BY <1>13, <2>1, <2>3 DEF RenameProject
  <2> QED BY <2>2, <2>3
<1>14. ASSUME NEW p \in Projects, NEW q \in Projects, DeleteProject(p, q)
      PROVE  AliensLapsed'
  BY <1>14, BackupAssumption DEF DeleteProject, NoFile, Files
<1>15. ASSUME NEW l \in Lines, NEW q \in Projects, Refile(l, q)
      PROVE  AliensLapsed'
  BY <1>15 DEF Refile, flushes
<1> QED
  BY <1>1, <1>2, <1>3, <1>4, <1>5, <1>6, <1>7, <1>8, <1>9, <1>10, <1>11, <1>12, <1>13,
     <1>14, <1>15, Cases

\* A lost ledger is quiet until a launch.
LEMMA LossStep ==
  ASSUME BackupTypeOK, BackupTypeOK', ReadingsHold, OnlyLiveMark, EmptyIsIdle,
         LossIsQuiet, Next
  PROVE  LossIsQuiet'
<1> USE ProcessNames DEF BackupTypeOK, LossIsQuiet, vault
<1>1. ASSUME NEW S \in SUBSET Projects, WorkerCommits(S)
      PROVE  LossIsQuiet'
  BY <1>1 DEF WorkerCommits, WorkerWrote
<1>2. CASE FlushDue
  BY <1>2 DEF FlushDue, StartsFlush
<1>3. CASE FlushAtQuit
  BY <1>3 DEF FlushAtQuit, StartsFlush
<1>4. CASE EndFlush
  BY <1>4 DEF EndFlush
<1>5. CASE Restore
  BY <1>5 DEF Restore
<1>6. CASE RestoreFails
  BY <1>6 DEF RestoreFails
<1>7. ASSUME NEW P \in Processes, NEW p \in Projects, Turns(P, p)
      PROVE  LossIsQuiet'
  BY <1>7 DEF Turns, Processes, LedgerIsEmpty
<1>8. ASSUME NEW P \in Assistants, AssistantReturns(P)
      PROVE  LossIsQuiet'
  BY <1>8 DEF AssistantReturns, LedgerIsEmpty
<1>9. ASSUME NEW P \in Assistants, NEW S \in SUBSET Projects, AssistantCommits(P, S)
      PROVE  LossIsQuiet'
  BY <1>9 DEF AssistantCommits
<1>10. ASSUME NEW P \in Processes, Crash(P)
      PROVE  LossIsQuiet'
  BY <1>10 DEF Crash, Dies, LedgerIsEmpty
<1>11. CASE LoseLedger
  BY <1>11, BackupAssumption DEF LoseLedger, Dies, LedgerIsEmpty, Processes
<1>12. CASE Launch
  BY <1>12, BackupAssumption DEF Launch, LedgerIsEmpty
<1>13. ASSUME NEW p \in Projects, NEW q \in Projects, RenameProject(p, q)
      PROVE  LossIsQuiet'
  BY <1>13 DEF RenameProject, flushes, LedgerIsEmpty
<1>14. ASSUME NEW p \in Projects, NEW q \in Projects, DeleteProject(p, q)
      PROVE  LossIsQuiet'
  BY <1>14 DEF DeleteProject, flushes, LedgerIsEmpty
<1>15. ASSUME NEW l \in Lines, NEW q \in Projects, Refile(l, q)
      PROVE  LossIsQuiet'
  BY <1>15 DEF Refile, flushes, LedgerIsEmpty
<1> QED
  BY <1>1, <1>2, <1>3, <1>4, <1>5, <1>6, <1>7, <1>8, <1>9, <1>10, <1>11, <1>12, <1>13,
     <1>14, <1>15, Cases

LEMMA BehindAre ==
  /\ \A p : p \in Behind <=> \E P \in Processes : p \in dirty[P]
  /\ \A p : p \in Behind' <=> \E P \in Processes : p \in dirty'[P]
BY DEF Behind

\* A commitment shows in what its project's file should say.
LEMMA ShowsWhereItIs ==
  ASSUME BackupTypeOK, NEW l \in Lines, db[l] # None
  PROVE  db[l].project \in Projects /\ db[l].state \in States
         /\ Serialized(db[l].project)[l] = db[l].state /\ Serialized(db[l].project) # NoFile
<1>1. db[l] \in Entries
  BY DEF BackupTypeOK
<1>2. db[l].project \in Projects /\ db[l].state \in States
  BY <1>1 DEF Entries
<1>3. Serialized(db[l].project)[l] = db[l].state
  BY DEF Serialized
<1> QED BY <1>2, <1>3, BackupAssumption DEF NoFile

\* A commitment never strays to a project nobody knows to be behind.
LEMMA HomesStep ==
  ASSUME BackupTypeOK, BackupTypeOK', ReadingsHold, LossIsQuiet, HomesKnown, Next
  PROVE  HomesKnown'
<1>1. ASSUME NEW S \in SUBSET Projects, WorkerCommits(S)
      PROVE  HomesKnown'
  <2> SUFFICES ASSUME lost' = None, NEW l \in Lines, db'[l] # None
               PROVE  db'[l].project \in folders' \cup Behind' \cup lapsed'
    BY DEF HomesKnown
  <2>1. UNCHANGED vault /\ lapsed' = lapsed /\ lost = None /\ Commits(S)
    BY <1>1 DEF WorkerCommits, WorkerWrote
  <2>2. \A Q \in Processes : dirty[Q] \subseteq dirty'[Q]
    BY <1>1 DEF WorkerCommits, WorkerWrote, Marks, BackupTypeOK
  <2>3. S \subseteq dirty'[App]
    BY <1>1, ProcessNames DEF WorkerCommits, WorkerWrote, Marks, BackupTypeOK
  <2>4. db'[l].project \in S \/ db'[l] = db[l]
    BY <2>1 DEF Commits
  <2> QED BY <2>1, <2>2, <2>3, <2>4, BehindAre, ProcessNames DEF HomesKnown, vault
<1>2. CASE FlushDue
  <2> SUFFICES ASSUME lost' = None, NEW l \in Lines, db'[l] # None
               PROVE  db'[l].project \in folders' \cup Behind' \cup lapsed'
    BY DEF HomesKnown
  <2>1. db' = db /\ lost = None /\ folders' = folders
    BY <1>2 DEF FlushDue, StartsFlush, vault
  <2>2. \A Q \in Processes : \A r \in dirty[Q] : r \in dirty'[Q] \cup lapsed'
    BY <1>2, ProcessNames DEF FlushDue, StartsFlush, vault, BackupTypeOK
  <2>3. lapsed \subseteq lapsed'
    BY <1>2 DEF FlushDue, StartsFlush, vault
  <2> QED BY <2>1, <2>2, <2>3, BehindAre DEF HomesKnown
<1>3. CASE FlushAtQuit
  <2> SUFFICES ASSUME lost' = None, NEW l \in Lines, db'[l] # None
               PROVE  db'[l].project \in folders' \cup Behind' \cup lapsed'
    BY DEF HomesKnown
  <2>1. db' = db /\ lost = None /\ folders' = folders
    BY <1>3 DEF FlushAtQuit, StartsFlush, vault
  <2>2. \A Q \in Processes : \A r \in dirty[Q] : r \in dirty'[Q] \cup lapsed'
    BY <1>3, ProcessNames DEF FlushAtQuit, StartsFlush, vault, BackupTypeOK
  <2>3. lapsed \subseteq lapsed'
    BY <1>3 DEF FlushAtQuit, StartsFlush, vault
  <2> QED BY <2>1, <2>2, <2>3, BehindAre DEF HomesKnown
<1>4. CASE EndFlush
  <2> SUFFICES ASSUME lost' = None, NEW l \in Lines, db'[l] # None
               PROVE  db'[l].project \in folders' \cup Behind' \cup lapsed'
    BY DEF HomesKnown
  <2>1. db' = db /\ lost = None /\ folders' = folders
    BY <1>4 DEF EndFlush, vault
  <2>2. \A Q \in Processes : \A r \in dirty[Q] : r \in dirty'[Q] \cup lapsed'
    BY <1>4, ProcessNames DEF EndFlush, vault, BackupTypeOK
  <2>3. lapsed \subseteq lapsed'
    BY <1>4 DEF EndFlush, vault
  <2> QED BY <2>1, <2>2, <2>3, BehindAre DEF HomesKnown
<1>5. CASE Restore
  <2> SUFFICES ASSUME lost' = None, NEW l \in Lines, db'[l] # None
               PROVE  db'[l].project \in folders' \cup Behind' \cup lapsed'
    BY DEF HomesKnown
  <2>1. CASE LedgerIsEmpty
    <3>1. Restored(l) # None /\ db'[l] = Restored(l) /\ folders' = folders
      BY <1>5, <2>1 DEF Restore, vault
    <3> QED BY <3>1, RestoredSpelled
  <2>2. CASE ~LedgerIsEmpty
    BY <1>5, <2>2, BehindAre DEF Restore, vault, HomesKnown, LossIsQuiet
  <2> QED BY <2>1, <2>2
<1>6. CASE RestoreFails
  BY <1>6 DEF RestoreFails, LedgerIsEmpty, HomesKnown
<1>7. ASSUME NEW P \in Processes, NEW p \in Projects, Turns(P, p)
      PROVE  HomesKnown'
  <2> SUFFICES ASSUME lost' = None, NEW l \in Lines, db'[l] # None
               PROVE  db'[l].project \in folders' \cup Behind' \cup lapsed'
    BY DEF HomesKnown
  <2>1. db' = db /\ lost = None /\ folders' = folders
    BY <1>7 DEF Turns
  <2>2. CASE \E file \in Files : Lands(P, p, file)
    <3>1. p \in folders \/ db[l].project # p
      BY <2>1, <2>2, ShowsWhereItIs DEF Lands
    <3>2. \A Q \in Processes : dirty[Q] \ {p} \subseteq dirty'[Q]
      BY <2>2 DEF Lands, Wrote, BackupTypeOK
    <3>3. lapsed \ {p} \subseteq lapsed'
      BY <2>2 DEF Lands, Wrote
    <3> QED BY <2>1, <3>1, <3>2, <3>3, BehindAre DEF HomesKnown
  <2>3. CASE CouldNotWrite(P, p) \/ Skipped(P, p) \/ Reads(P, p)
    <3>1. /\ \A Q \in Processes : dirty[Q] \subseteq dirty'[Q] \cup lapsed'
          /\ lapsed \subseteq lapsed'
      BY <2>3 DEF CouldNotWrite, Skipped, Reads, BackupTypeOK
    <3> QED BY <2>1, <3>1, BehindAre DEF HomesKnown
  <2> QED BY <1>7, <2>2, <2>3 DEF Turns
<1>8. ASSUME NEW P \in Assistants, AssistantReturns(P)
      PROVE  HomesKnown'
  <2> SUFFICES ASSUME lost' = None, NEW l \in Lines, db'[l] # None
               PROVE  db'[l].project \in folders' \cup Behind' \cup lapsed'
    BY DEF HomesKnown
  <2>1. db' = db /\ lost = None /\ folders' = folders
    BY <1>8 DEF AssistantReturns, vault
  <2>2. \A Q \in Processes : \A r \in dirty[Q] : r \in dirty'[Q] \cup lapsed'
    BY <1>8, ProcessNames DEF AssistantReturns, vault, BackupTypeOK
  <2>3. lapsed \subseteq lapsed'
    BY <1>8 DEF AssistantReturns, vault
  <2> QED BY <2>1, <2>2, <2>3, BehindAre DEF HomesKnown
<1>9. ASSUME NEW P \in Assistants, NEW S \in SUBSET Projects, AssistantCommits(P, S)
      PROVE  HomesKnown'
  <2> SUFFICES ASSUME lost' = None, NEW l \in Lines, db'[l] # None
               PROVE  db'[l].project \in folders' \cup Behind' \cup lapsed'
    BY DEF HomesKnown
  <2>1. UNCHANGED vault /\ lapsed' = lapsed /\ lost = None /\ Commits(S)
    BY <1>9 DEF AssistantCommits
  <2>2. \A Q \in Processes : dirty[Q] \subseteq dirty'[Q]
    BY <1>9 DEF AssistantCommits, Marks, BackupTypeOK
  <2>3. S \subseteq dirty'[P]
    BY <1>9, ProcessNames DEF AssistantCommits, Marks, BackupTypeOK
  <2>4. db'[l].project \in S \/ db'[l] = db[l]
    BY <2>1 DEF Commits
  <2> QED BY <2>1, <2>2, <2>3, <2>4, BehindAre, ProcessNames DEF HomesKnown, vault
<1>10. ASSUME NEW P \in Processes, Crash(P)
      PROVE  HomesKnown'
  <2> SUFFICES ASSUME lost' = None, NEW l \in Lines, db'[l] # None
               PROVE  db'[l].project \in folders' \cup Behind' \cup lapsed'
    BY DEF HomesKnown
  <2>1. db' = db /\ lost = None /\ folders' = folders
    BY <1>10 DEF Crash, Dies, vault
  <2>2. \A Q \in Processes : \A r \in dirty[Q] : r \in dirty'[Q] \cup lapsed'
    BY <1>10, ProcessNames DEF Crash, Dies, vault, BackupTypeOK
  <2>3. lapsed \subseteq lapsed'
    BY <1>10 DEF Crash, Dies, vault
  <2> QED BY <2>1, <2>2, <2>3, BehindAre DEF HomesKnown
<1>11. CASE LoseLedger
  BY <1>11, BackupAssumption DEF LoseLedger, HomesKnown, BackupTypeOK
<1>12. CASE Launch
  <2> SUFFICES ASSUME lost' = None, NEW l \in Lines, db'[l] # None
               PROVE  db'[l].project \in folders' \cup Behind' \cup lapsed'
    BY DEF HomesKnown
  <2>1. db' = db /\ lost = None /\ folders' = folders
    BY <1>12 DEF Launch, vault
  <2>2. \A Q \in Processes : \A r \in dirty[Q] : r \in dirty'[Q] \cup lapsed'
    BY <1>12, ProcessNames DEF Launch, vault, BackupTypeOK
  <2>3. lapsed \subseteq lapsed'
    BY <1>12 DEF Launch, vault
  <2> QED BY <2>1, <2>2, <2>3, BehindAre DEF HomesKnown
<1>13. ASSUME NEW p \in Projects, NEW q \in Projects, RenameProject(p, q)
      PROVE  HomesKnown'
  <2> SUFFICES ASSUME lost' = None, NEW l \in Lines, db'[l] # None
               PROVE  db'[l].project \in folders' \cup Behind' \cup lapsed'
    BY DEF HomesKnown
  <2>1. db' = db /\ lost = None /\ dirty' = dirty
    BY <1>13 DEF RenameProject
  <2>2. folders \cup lapsed \subseteq folders' \cup lapsed'
    BY <1>13, <2>1 DEF RenameProject
  <2> QED BY <2>1, <2>2, BehindAre DEF HomesKnown
<1>14. ASSUME NEW p \in Projects, NEW q \in Projects, DeleteProject(p, q)
      PROVE  HomesKnown'
  <2> SUFFICES ASSUME lost' = None, NEW l \in Lines, db'[l] # None
               PROVE  db'[l].project \in folders' \cup Behind' \cup lapsed'
    BY DEF HomesKnown
  <2>1. db' = db /\ lost = None /\ dirty' = dirty
    BY <1>14 DEF DeleteProject
  <2>2. folders \cup lapsed \subseteq folders' \cup lapsed'
    BY <1>14, <2>1 DEF DeleteProject
  <2> QED BY <2>1, <2>2, BehindAre DEF HomesKnown
<1>15. ASSUME NEW k \in Lines, NEW q \in Projects, Refile(k, q)
      PROVE  HomesKnown'
  <2> SUFFICES ASSUME lost' = None, NEW l \in Lines, db'[l] # None
               PROVE  db'[l].project \in folders' \cup Behind' \cup lapsed'
    BY DEF HomesKnown
  <2>1. db' = db /\ lost = None /\ folders' = folders
    BY <1>15 DEF Refile, flushes, vault
  <2>2. \A Q \in Processes : \A r \in dirty[Q] : r \in dirty'[Q] \cup lapsed'
    BY <1>15, ProcessNames DEF Refile, flushes, vault, BackupTypeOK
  <2>3. lapsed \subseteq lapsed'
    BY <1>15 DEF Refile, flushes, vault
  <2> QED BY <2>1, <2>2, <2>3, BehindAre DEF HomesKnown
<1> QED
  BY <1>1, <1>2, <1>3, <1>4, <1>5, <1>6, <1>7, <1>8, <1>9, <1>10, <1>11, <1>12, <1>13,
     <1>14, <1>15, Cases

\* A file that falls behind is known to be.
LEMMA MatchStep ==
  ASSUME BackupTypeOK, BackupTypeOK', ReadingsHold, AliensLapsed, LossIsQuiet,
         UnlistedSnapshotsMatch, Next
  PROVE  UnlistedSnapshotsMatch'
<1>1. ASSUME NEW S \in SUBSET Projects, WorkerCommits(S)
      PROVE  UnlistedSnapshotsMatch'
  <2> SUFFICES ASSUME lost' = None, NEW r \in folders', r \notin Behind', r \notin lapsed'
               PROVE  disk'[r] = Serialized(r)'
    BY DEF UnlistedSnapshotsMatch
  <2>1. UNCHANGED vault /\ lapsed' = lapsed /\ lost = None /\ Commits(S)
    BY <1>1 DEF WorkerCommits, WorkerWrote
  <2>2. \A Q \in Processes : dirty[Q] \subseteq dirty'[Q]
    BY <1>1 DEF WorkerCommits, WorkerWrote, Marks, BackupTypeOK
  <2>3. S \subseteq dirty'[App]
    BY <1>1, ProcessNames DEF WorkerCommits, WorkerWrote, Marks, BackupTypeOK
  <2>4. r \in Projects \ S
    BY <2>1, <2>3, BehindAre, ProcessNames DEF BackupTypeOK, vault
  <2>5. disk[r] = Serialized(r)
    BY <2>1, <2>2, BehindAre DEF UnlistedSnapshotsMatch, vault
  <2>6. Serialized(r)' = Serialized(r)
    BY <2>1, <2>4, SameReading
  <2> QED BY <2>1, <2>5, <2>6 DEF vault
<1>2. CASE FlushDue
  <2> SUFFICES ASSUME lost' = None, NEW r \in folders', r \notin Behind', r \notin lapsed'
               PROVE  disk'[r] = Serialized(r)'
    BY DEF UnlistedSnapshotsMatch
  <2>1. db' = db /\ lost = None /\ r \in folders /\ disk' = disk
    BY <1>2 DEF FlushDue, StartsFlush, vault
  <2>2. \A Q \in Processes : \A s \in dirty[Q] : s \in dirty'[Q] \cup lapsed'
    BY <1>2, ProcessNames DEF FlushDue, StartsFlush, vault, BackupTypeOK
  <2>3. lapsed \subseteq lapsed'
    BY <1>2 DEF FlushDue, StartsFlush, vault
  <2>4. disk[r] = Serialized(r)
    BY <2>1, <2>2, <2>3, BehindAre DEF UnlistedSnapshotsMatch
  <2> QED BY <2>1, <2>4 DEF Serialized
<1>3. CASE FlushAtQuit
  <2> SUFFICES ASSUME lost' = None, NEW r \in folders', r \notin Behind', r \notin lapsed'
               PROVE  disk'[r] = Serialized(r)'
    BY DEF UnlistedSnapshotsMatch
  <2>1. db' = db /\ lost = None /\ r \in folders /\ disk' = disk
    BY <1>3 DEF FlushAtQuit, StartsFlush, vault
  <2>2. \A Q \in Processes : \A s \in dirty[Q] : s \in dirty'[Q] \cup lapsed'
    BY <1>3, ProcessNames DEF FlushAtQuit, StartsFlush, vault, BackupTypeOK
  <2>3. lapsed \subseteq lapsed'
    BY <1>3 DEF FlushAtQuit, StartsFlush, vault
  <2>4. disk[r] = Serialized(r)
    BY <2>1, <2>2, <2>3, BehindAre DEF UnlistedSnapshotsMatch
  <2> QED BY <2>1, <2>4 DEF Serialized
<1>4. CASE EndFlush
  <2> SUFFICES ASSUME lost' = None, NEW r \in folders', r \notin Behind', r \notin lapsed'
               PROVE  disk'[r] = Serialized(r)'
    BY DEF UnlistedSnapshotsMatch
  <2>1. db' = db /\ lost = None /\ r \in folders /\ disk' = disk
    BY <1>4 DEF EndFlush, vault
  <2>2. \A Q \in Processes : \A s \in dirty[Q] : s \in dirty'[Q] \cup lapsed'
    BY <1>4, ProcessNames DEF EndFlush, vault, BackupTypeOK
  <2>3. lapsed \subseteq lapsed'
    BY <1>4 DEF EndFlush, vault
  <2>4. disk[r] = Serialized(r)
    BY <2>1, <2>2, <2>3, BehindAre DEF UnlistedSnapshotsMatch
  <2> QED BY <2>1, <2>4 DEF Serialized
<1>5. CASE Restore
  <2> SUFFICES ASSUME lost' = None, NEW r \in folders', r \notin Behind', r \notin lapsed'
               PROVE  disk'[r] = Serialized(r)'
    BY DEF UnlistedSnapshotsMatch
  <2>1. r \in Projects /\ folders' = folders /\ disk' = disk
    BY <1>5 DEF Restore, vault, BackupTypeOK
  <2>2. CASE LedgerIsEmpty
    <3>1. r \notin Duplicated /\ r \notin lapsed /\ db' = [l \in Lines |-> Restored(l)]
      BY <1>5, <2>2 DEF Restore
    <3>2. disk[r] \in Files
      BY <2>1, <3>1 DEF AliensLapsed, BackupTypeOK
    <3>3. ASSUME NEW l \in Lines
          PROVE  disk[r][l] = IF db'[l] # None /\ db'[l].project = r THEN db'[l].state ELSE None
      <4>1. CASE disk[r][l] = None
        <5>1. ~(Restored(l) # None /\ Restored(l).project = r)
          BY <4>1, RestoredSpelled
        <5> QED BY <3>1, <4>1, <5>1
      <4>2. CASE disk[r][l] # None
        <5>1. \A p \in folders : disk[p] # Alien /\ disk[p][l] # None => p = r
          BY <2>1, <3>1, <3>2, <4>2, BackupAssumption DEF Duplicated
        <5>2. Restored(l) = [project |-> r, state |-> disk[r][l]]
          BY <2>1, <3>2, <4>2, <5>1, RestoredSpelled, BackupAssumption
        <5>3. db'[l] \in Entries \cup {None} /\ Restored(l) # None
          BY <2>1, <3>2, <4>2, <5>2, BackupAssumption DEF BackupTypeOK, Entries, Files
        <5> QED BY <3>1, <5>2, <5>3
      <4> QED BY <4>1, <4>2
    <3>4. disk[r] = [l \in Lines |-> disk[r][l]]
      BY <3>2 DEF Files
    <3> QED BY <2>1, <3>3, <3>4 DEF Serialized
  <2>3. CASE ~LedgerIsEmpty
    <3>1. UNCHANGED <<db, dirty, lapsed>> /\ lost = None
      BY <1>5, <2>3 DEF Restore, LossIsQuiet
    <3>2. disk[r] = Serialized(r)
      BY <2>1, <3>1, BehindAre DEF UnlistedSnapshotsMatch
    <3> QED BY <2>1, <3>1, <3>2 DEF Serialized
  <2> QED BY <2>2, <2>3
<1>6. CASE RestoreFails
  <2> SUFFICES ASSUME lost' = None, NEW r \in folders', r \notin Behind', r \notin lapsed'
               PROVE  disk'[r] = Serialized(r)'
    BY DEF UnlistedSnapshotsMatch
  <2>1. disk'[r] = NoFile
    BY <1>6 DEF RestoreFails, vault, BackupTypeOK
  <2> QED BY <1>6, <2>1 DEF RestoreFails, LedgerIsEmpty, Serialized, NoFile
<1>7. ASSUME NEW P \in Processes, NEW p \in Projects, Turns(P, p)
      PROVE  UnlistedSnapshotsMatch'
  <2> SUFFICES ASSUME lost' = None, NEW r \in folders', r \notin Behind', r \notin lapsed'
               PROVE  disk'[r] = Serialized(r)'
    BY DEF UnlistedSnapshotsMatch
  <2>1. db' = db /\ lost = None /\ folders' = folders
    BY <1>7 DEF Turns
  <2>2. Serialized(r)' = Serialized(r)
    BY <2>1 DEF Serialized
  <2>3. CASE \E file \in Files : Lands(P, p, file)
    <3>1. PICK file \in Files : Lands(P, p, file)
      BY <2>3
    <3>2. CASE r = p
      <4>1. built[P] = None \/ ~built[P].crossed
        BY <3>1, <3>2 DEF Lands, Wrote
      <4> QED BY <2>2, <3>1, <3>2, <4>1 DEF Lands, Wrote, BackupTypeOK
    <3>3. CASE r # p
      <4>1. \A Q \in Processes : dirty[Q] \ {p} \subseteq dirty'[Q]
        BY <3>1 DEF Lands, Wrote, BackupTypeOK
      <4>2. lapsed \ {p} \subseteq lapsed' /\ disk'[r] = disk[r]
        BY <2>1, <3>1, <3>3 DEF Lands, Wrote, BackupTypeOK
      <4> QED BY <2>1, <2>2, <3>3, <4>1, <4>2, BehindAre DEF UnlistedSnapshotsMatch
    <3> QED BY <3>2, <3>3
  <2>4. CASE CouldNotWrite(P, p) \/ Skipped(P, p) \/ Reads(P, p)
    <3>1. /\ \A Q \in Processes : dirty[Q] \subseteq dirty'[Q] \cup lapsed'
          /\ lapsed \subseteq lapsed' /\ disk' = disk
      BY <2>4 DEF CouldNotWrite, Skipped, Reads, BackupTypeOK
    <3> QED BY <2>1, <2>2, <3>1, BehindAre DEF UnlistedSnapshotsMatch
  <2> QED BY <1>7, <2>3, <2>4 DEF Turns
<1>8. ASSUME NEW P \in Assistants, AssistantReturns(P)
      PROVE  UnlistedSnapshotsMatch'
  <2> SUFFICES ASSUME lost' = None, NEW r \in folders', r \notin Behind', r \notin lapsed'
               PROVE  disk'[r] = Serialized(r)'
    BY DEF UnlistedSnapshotsMatch
  <2>1. db' = db /\ lost = None /\ r \in folders /\ disk' = disk
    BY <1>8 DEF AssistantReturns, vault
  <2>2. \A Q \in Processes : \A s \in dirty[Q] : s \in dirty'[Q] \cup lapsed'
    BY <1>8, ProcessNames DEF AssistantReturns, vault, BackupTypeOK
  <2>3. lapsed \subseteq lapsed'
    BY <1>8 DEF AssistantReturns, vault
  <2>4. disk[r] = Serialized(r)
    BY <2>1, <2>2, <2>3, BehindAre DEF UnlistedSnapshotsMatch
  <2> QED BY <2>1, <2>4 DEF Serialized
<1>9. ASSUME NEW P \in Assistants, NEW S \in SUBSET Projects, AssistantCommits(P, S)
      PROVE  UnlistedSnapshotsMatch'
  <2> SUFFICES ASSUME lost' = None, NEW r \in folders', r \notin Behind', r \notin lapsed'
               PROVE  disk'[r] = Serialized(r)'
    BY DEF UnlistedSnapshotsMatch
  <2>1. UNCHANGED vault /\ lapsed' = lapsed /\ lost = None /\ Commits(S)
    BY <1>9 DEF AssistantCommits
  <2>2. \A Q \in Processes : dirty[Q] \subseteq dirty'[Q]
    BY <1>9 DEF AssistantCommits, Marks, BackupTypeOK
  <2>3. S \subseteq dirty'[P]
    BY <1>9, ProcessNames DEF AssistantCommits, Marks, BackupTypeOK
  <2>4. r \in Projects \ S
    BY <2>1, <2>3, BehindAre, ProcessNames DEF BackupTypeOK, vault
  <2>5. disk[r] = Serialized(r)
    BY <2>1, <2>2, BehindAre DEF UnlistedSnapshotsMatch, vault
  <2>6. Serialized(r)' = Serialized(r)
    BY <2>1, <2>4, SameReading
  <2> QED BY <2>1, <2>5, <2>6 DEF vault
<1>10. ASSUME NEW P \in Processes, Crash(P)
      PROVE  UnlistedSnapshotsMatch'
  <2> SUFFICES ASSUME lost' = None, NEW r \in folders', r \notin Behind', r \notin lapsed'
               PROVE  disk'[r] = Serialized(r)'
    BY DEF UnlistedSnapshotsMatch
  <2>1. db' = db /\ lost = None /\ r \in folders /\ disk' = disk
    BY <1>10 DEF Crash, Dies, vault
  <2>2. \A Q \in Processes : \A s \in dirty[Q] : s \in dirty'[Q] \cup lapsed'
    BY <1>10, ProcessNames DEF Crash, Dies, vault, BackupTypeOK
  <2>3. lapsed \subseteq lapsed'
    BY <1>10 DEF Crash, Dies, vault
  <2>4. disk[r] = Serialized(r)
    BY <2>1, <2>2, <2>3, BehindAre DEF UnlistedSnapshotsMatch
  <2> QED BY <2>1, <2>4 DEF Serialized
<1>11. CASE LoseLedger
  BY <1>11, BackupAssumption DEF LoseLedger, UnlistedSnapshotsMatch, BackupTypeOK
<1>12. CASE Launch
  <2> SUFFICES ASSUME lost' = None, NEW r \in folders', r \notin Behind', r \notin lapsed'
               PROVE  disk'[r] = Serialized(r)'
    BY DEF UnlistedSnapshotsMatch
  <2>1. db' = db /\ lost = None /\ r \in folders /\ disk' = disk
    BY <1>12 DEF Launch, vault
  <2>2. \A Q \in Processes : \A s \in dirty[Q] : s \in dirty'[Q] \cup lapsed'
    BY <1>12, ProcessNames DEF Launch, vault, BackupTypeOK
  <2>3. lapsed \subseteq lapsed'
    BY <1>12 DEF Launch, vault
  <2>4. disk[r] = Serialized(r)
    BY <2>1, <2>2, <2>3, BehindAre DEF UnlistedSnapshotsMatch
  <2> QED BY <2>1, <2>4 DEF Serialized
<1>13. ASSUME NEW p \in Projects, NEW q \in Projects, RenameProject(p, q)
      PROVE  UnlistedSnapshotsMatch'
  <2> SUFFICES ASSUME lost' = None, NEW r \in folders', r \notin Behind', r \notin lapsed'
               PROVE  disk'[r] = Serialized(r)'
    BY DEF UnlistedSnapshotsMatch
  <2>1. db' = db /\ lost = None /\ dirty' = dirty
    BY <1>13 DEF RenameProject
  <2>2. r \in folders /\ r \notin lapsed /\ disk'[r] = disk[r]
    BY <1>13, <2>1 DEF RenameProject, BackupTypeOK
  <2>3. disk[r] = Serialized(r)
    BY <2>1, <2>2, BehindAre DEF UnlistedSnapshotsMatch
  <2> QED BY <2>1, <2>2, <2>3 DEF Serialized
<1>14. ASSUME NEW p \in Projects, NEW q \in Projects, DeleteProject(p, q)
      PROVE  UnlistedSnapshotsMatch'
  <2> SUFFICES ASSUME lost' = None, NEW r \in folders', r \notin Behind', r \notin lapsed'
               PROVE  disk'[r] = Serialized(r)'
    BY DEF UnlistedSnapshotsMatch
  <2>1. db' = db /\ lost = None /\ dirty' = dirty
    BY <1>14 DEF DeleteProject
  <2>2. r \in folders /\ r \notin lapsed /\ disk'[r] = disk[r]
    BY <1>14, <2>1 DEF DeleteProject, BackupTypeOK
  <2>3. disk[r] = Serialized(r)
    BY <2>1, <2>2, BehindAre DEF UnlistedSnapshotsMatch
  <2> QED BY <2>1, <2>2, <2>3 DEF Serialized
<1>15. ASSUME NEW l \in Lines, NEW q \in Projects, Refile(l, q)
      PROVE  UnlistedSnapshotsMatch'
  <2> SUFFICES ASSUME lost' = None, NEW r \in folders', r \notin Behind', r \notin lapsed'
               PROVE  disk'[r] = Serialized(r)'
    BY DEF UnlistedSnapshotsMatch
  <2>1. db' = db /\ lost = None /\ r \in folders /\ disk' = disk
    BY <1>15 DEF Refile, flushes, vault
  <2>2. \A Q \in Processes : \A s \in dirty[Q] : s \in dirty'[Q] \cup lapsed'
    BY <1>15, ProcessNames DEF Refile, flushes, vault, BackupTypeOK
  <2>3. lapsed \subseteq lapsed'
    BY <1>15 DEF Refile, flushes, vault
  <2>4. disk[r] = Serialized(r)
    BY <2>1, <2>2, <2>3, BehindAre DEF UnlistedSnapshotsMatch
  <2> QED BY <2>1, <2>4 DEF Serialized
<1> QED
  BY <1>1, <1>2, <1>3, <1>4, <1>5, <1>6, <1>7, <1>8, <1>9, <1>10, <1>11, <1>12, <1>13,
     <1>14, <1>15, Cases

\* What was lost stays in the files.
LEMMA LossSpelledStep ==
  ASSUME BackupTypeOK, BackupTypeOK', ReadingsHold, OnlyLiveMark, LossIsQuiet,
         HomesKnown, UnlistedSnapshotsMatch, LossIsSpelled, Next
  PROVE  LossIsSpelled'
<1>1. ASSUME NEW S \in SUBSET Projects, WorkerCommits(S)
      PROVE  LossIsSpelled'
  <2> SUFFICES ASSUME lost' # None, lapsed' = {}, NEW l \in Lines, lost'[l] # None
               PROVE  Spelled(l)'
    BY DEF LossIsSpelled
  <2>1. lost # None
    BY <1>1 DEF WorkerCommits, WorkerWrote, Marks
  <2> QED BY <1>1, <2>1, ProcessNames DEF WorkerCommits, WorkerWrote, Marks, LossIsQuiet,
             Processes
<1>2. CASE FlushDue
  <2> SUFFICES ASSUME lost' # None, lapsed' = {}, NEW l \in Lines, lost'[l] # None
               PROVE  Spelled(l)'
    BY DEF LossIsSpelled
  <2>1. lost # None
    BY <1>2 DEF FlushDue, StartsFlush
  <2> QED BY <1>2, <2>1, ProcessNames DEF FlushDue, StartsFlush, LossIsQuiet, Processes
<1>3. CASE FlushAtQuit
  <2> SUFFICES ASSUME lost' # None, lapsed' = {}, NEW l \in Lines, lost'[l] # None
               PROVE  Spelled(l)'
    BY DEF LossIsSpelled
  <2>1. lost # None
    BY <1>3 DEF FlushAtQuit, StartsFlush
  <2> QED BY <1>3, <2>1, ProcessNames DEF FlushAtQuit, StartsFlush, LossIsQuiet, Processes
<1>4. CASE EndFlush
  <2> SUFFICES ASSUME lost' # None, lapsed' = {}, NEW l \in Lines, lost'[l] # None
               PROVE  Spelled(l)'
    BY DEF LossIsSpelled
  <2>1. lost # None
    BY <1>4 DEF EndFlush
  <2> QED BY <1>4, <2>1, ProcessNames DEF EndFlush, LossIsQuiet, Processes
<1>5. CASE Restore
  BY <1>5 DEF Restore, LossIsSpelled
<1>6. CASE RestoreFails
  BY <1>6 DEF RestoreFails, LossIsSpelled
<1>7. ASSUME NEW P \in Processes, NEW p \in Projects, Turns(P, p)
      PROVE  LossIsSpelled'
  <2> SUFFICES ASSUME lost' # None, lapsed' = {}, NEW l \in Lines, lost'[l] # None
               PROVE  Spelled(l)'
    BY DEF LossIsSpelled
  <2>1. lost # None
    BY <1>7 DEF Turns, Lands, Wrote, CouldNotWrite, Skipped, Reads
  <2> QED BY <1>7, <2>1, ProcessNames DEF Turns, Lands, Wrote, CouldNotWrite, Skipped,
             Reads, LossIsQuiet, Processes
<1>8. ASSUME NEW P \in Assistants, AssistantReturns(P)
      PROVE  LossIsSpelled'
  <2> SUFFICES ASSUME lost' # None, lapsed' = {}, NEW l \in Lines, lost'[l] # None
               PROVE  Spelled(l)'
    BY DEF LossIsSpelled
  <2>1. lost # None
    BY <1>8 DEF AssistantReturns
  <2> QED BY <1>8, <2>1, ProcessNames DEF AssistantReturns, LossIsQuiet, Processes
<1>9. ASSUME NEW P \in Assistants, NEW S \in SUBSET Projects, AssistantCommits(P, S)
      PROVE  LossIsSpelled'
  <2> SUFFICES ASSUME lost' # None, lapsed' = {}, NEW l \in Lines, lost'[l] # None
               PROVE  Spelled(l)'
    BY DEF LossIsSpelled
  <2>1. lost # None
    BY <1>9 DEF AssistantCommits, Marks
  <2> QED BY <1>9, <2>1, ProcessNames DEF AssistantCommits, Marks, LossIsQuiet, Processes
<1>10. ASSUME NEW P \in Processes, Crash(P)
      PROVE  LossIsSpelled'
  <2> SUFFICES ASSUME lost' # None, lapsed' = {}, NEW l \in Lines, lost'[l] # None
               PROVE  Spelled(l)'
    BY DEF LossIsSpelled
  <2>1. lost' = lost /\ folders' = folders /\ disk' = disk /\ lapsed \subseteq lapsed'
    BY <1>10 DEF Crash, Dies, vault
  <2>2. Spelled(l)
    BY <2>1 DEF LossIsSpelled
  <2> QED BY <2>1, <2>2 DEF Spelled
<1>11. CASE LoseLedger
  <2> SUFFICES ASSUME lost' # None, lapsed' = {}, NEW l \in Lines, lost'[l] # None
               PROVE  Spelled(l)'
    BY DEF LossIsSpelled
  <2>1. lost = None /\ lost' = db /\ folders' = folders /\ disk' = disk
    BY <1>11 DEF LoseLedger, Dies, vault, LossIsQuiet
  <2>2. lapsed = {} /\ \A Q \in Processes : dirty[Q] = {}
    BY <1>11 DEF LoseLedger, Dies, OnlyLiveMark, Processes
  <2>3. \A r \in folders : disk[r] = Serialized(r)
    BY <2>1, <2>2, BehindAre DEF UnlistedSnapshotsMatch
  <2>4. db[l].project \in folders
    BY <2>1, <2>2, BehindAre DEF HomesKnown
  <2>5. ASSUME NEW r \in folders
        PROVE  disk[r][l] = IF db[l].project = r THEN db[l].state ELSE None
    <3>1. disk[r][l] = Serialized(r)[l] /\ db[l] # None
      BY <2>1, <2>3
    <3> QED BY <3>1 DEF Serialized
  <2> QED BY <2>1, <2>4, <2>5 DEF Spelled
<1>12. CASE Launch
  <2> SUFFICES ASSUME lost' # None, lapsed' = {}, NEW l \in Lines, lost'[l] # None
               PROVE  Spelled(l)'
    BY DEF LossIsSpelled
  <2>1. lost' = lost /\ folders' = folders /\ disk' = disk /\ lapsed \subseteq lapsed'
    BY <1>12 DEF Launch, vault
  <2>2. Spelled(l)
    BY <2>1 DEF LossIsSpelled
  <2> QED BY <2>1, <2>2 DEF Spelled
<1>13. ASSUME NEW p \in Projects, NEW q \in Projects, RenameProject(p, q)
      PROVE  LossIsSpelled'
  <2> SUFFICES ASSUME lost' # None, lapsed' = {}, NEW l \in Lines, lost'[l] # None
               PROVE  Spelled(l)'
    BY DEF LossIsSpelled
  <2>1. lost' = lost /\ lapsed = {}
    BY <1>13 DEF RenameProject
  <2>2. Spelled(l)
    BY <2>1 DEF LossIsSpelled
  <2>3. /\ p \in folders /\ q \notin folders /\ folders' = (folders \ {p}) \cup {q}
        /\ disk'[q] = disk[p] /\ \A r \in folders \ {p} : disk'[r] = disk[r]
    BY <1>13 DEF RenameProject, BackupTypeOK
  <2> QED BY <2>1, <2>2, <2>3 DEF Spelled
<1>14. ASSUME NEW p \in Projects, NEW q \in Projects, DeleteProject(p, q)
      PROVE  LossIsSpelled'
  <2> SUFFICES ASSUME lost' # None, lapsed' = {}, NEW l \in Lines, lost'[l] # None
               PROVE  Spelled(l)'
    BY DEF LossIsSpelled
  <2> QED BY <1>14 DEF DeleteProject
<1>15. ASSUME NEW k \in Lines, NEW q \in Projects, Refile(k, q)
      PROVE  LossIsSpelled'
  <2> SUFFICES ASSUME lost' # None, lapsed' = {}, NEW l \in Lines, lost'[l] # None
               PROVE  Spelled(l)'
    BY DEF LossIsSpelled
  <2>1. lost' = lost /\ folders' = folders /\ disk' = disk /\ lapsed \subseteq lapsed'
    BY <1>15 DEF Refile, flushes, vault
  <2>2. Spelled(l)
    BY <2>1 DEF LossIsSpelled
  <2> QED BY <2>1, <2>2 DEF Spelled
<1> QED
  BY <1>1, <1>2, <1>3, <1>4, <1>5, <1>6, <1>7, <1>8, <1>9, <1>10, <1>11, <1>12, <1>13,
     <1>14, <1>15, Cases

-----------------------------------------------------------------------------
(* The invariant and the theorems.                                         *)

LEMMA Initially == Init => IInv
<1> SUFFICES ASSUME Init PROVE IInv
  OBVIOUS
<1>1. BackupTypeOK
  <2>1. NoFile \in Files
    BY DEF NoFile, Files
  <2>2. db \in [Lines -> Entries \cup {None}] /\ disk \in [Projects -> Files \cup {Alien}]
    BY <2>1 DEF Init
  <2>3. at \in [Processes -> {"down", "restoring", "idle", "flushing"}] /\ lapsed \subseteq Projects
    BY DEF Init
  <2>4. changes \in 0..MaxChanges /\ faults \in 0..MaxFaults
    BY BackupAssumption DEF Init
  <2> QED BY <2>2, <2>3, <2>4 DEF Init, BackupTypeOK
<1>2. LedgerIsEmpty /\ \A p \in Projects : Serialized(p) = NoFile
  BY DEF Init, LedgerIsEmpty, Serialized, NoFile
<1>3. ReadingsHold /\ EmptyIsIdle /\ OnlyLiveMark
  BY DEF Init, ReadingsHold, ReadingHolds, EmptyIsIdle, OnlyLiveMark
<1>4. AliensLapsed /\ LossIsQuiet /\ LossIsSpelled /\ HomesKnown
  BY DEF Init, AliensLapsed, LossIsQuiet, LossIsSpelled, HomesKnown
<1>5. UnlistedSnapshotsMatch
  BY <1>1, <1>2 DEF Init, UnlistedSnapshotsMatch, BackupTypeOK
<1> QED BY <1>1, <1>3, <1>4, <1>5 DEF IInv

LEMMA Inductive == IInv /\ [Next]_vars => IInv'
<1> SUFFICES ASSUME IInv, [Next]_vars PROVE IInv'
  OBVIOUS
<1> USE DEF IInv
<1>1. CASE Next
  <2>1. BackupTypeOK'
    BY <1>1, TypeStep
  <2>2. ReadingsHold' /\ OnlyLiveMark' /\ EmptyIsIdle'
    BY <1>1, <2>1, ReadingsStep, LiveMarksStep, IdleStep
  <2>3. AliensLapsed' /\ LossIsQuiet' /\ HomesKnown'
    BY <1>1, <2>1, AliensStep, LossStep, HomesStep
  <2>4. UnlistedSnapshotsMatch' /\ LossIsSpelled'
    BY <1>1, <2>1, MatchStep, LossSpelledStep
  <2> QED BY <2>1, <2>2, <2>3, <2>4
<1>2. CASE UNCHANGED vars
  <2>1. BackupTypeOK' /\ OnlyLiveMark' /\ AliensLapsed'
    BY <1>2 DEF vars, BackupTypeOK, OnlyLiveMark, AliensLapsed
  <2>2. ReadingsHold'
    BY <1>2 DEF vars, ReadingsHold, ReadingHolds, Serialized
  <2>3. EmptyIsIdle' /\ LossIsQuiet' /\ HomesKnown'
    BY <1>2 DEF vars, EmptyIsIdle, LossIsQuiet, HomesKnown, LedgerIsEmpty, Behind
  <2>4. UnlistedSnapshotsMatch'
    BY <1>2 DEF vars, UnlistedSnapshotsMatch, Serialized, Behind
  <2>5. LossIsSpelled'
    BY <1>2 DEF vars, LossIsSpelled, Spelled
  <2> QED BY <2>1, <2>2, <2>3, <2>4, <2>5
<1> QED BY <1>1, <1>2

THEOREM Invariant == Spec => []IInv
BY Initially, Inductive, PTL DEF Spec

\* The ledger, the files and what each process remembers of them keep their
\* types: a restore makes entries of readable files only.
THEOREM BackupTyped == Spec => []BackupTypeOK
<1>1. IInv => BackupTypeOK
  BY DEF IInv
<1> QED BY <1>1, Invariant, PTL

\* Whatever the jobs, failures and renames, a project no process lists as behind
\* has the snapshot of its commitments (mod.rs, the dirty set).
THEOREM UnlistedMatch == Spec => []UnlistedSnapshotsMatch
<1>1. IInv => UnlistedSnapshotsMatch
  BY DEF IInv
<1> QED BY <1>1, Invariant, PTL

\* A ledger lost while no snapshot was behind is restored with every judgement it
\* held, however many folders were renamed before the next launch (snapshot.rs,
\* import).
THEOREM LostComesBack == Spec => LostLedgerComesBack
<1>1. ASSUME IInv, Restore, lost # None, lapsed = {}, NEW l \in Lines, lost[l] # None
      PROVE  db'[l] # None /\ db'[l].state = lost[l].state
  <2>1. LedgerIsEmpty /\ Spelled(l) /\ BackupTypeOK /\ AliensLapsed
    BY <1>1 DEF IInv, LossIsQuiet, LossIsSpelled
  <2>2. \A p \in folders : disk[p] \in Files /\ disk[p] # Alien
    BY <1>1, <2>1, BackupAssumption DEF AliensLapsed, BackupTypeOK
  <2>3. lost[l].state # None
    BY <1>1, <2>1, BackupAssumption DEF BackupTypeOK, Entries
  <2>4. PICK p \in folders : disk[p][l] # None /\ Restored(l) = [project |-> p, state |-> disk[p][l]]
    BY <2>1, <2>2, <2>3, RestoredSpelled DEF Spelled
  <2>5. disk[p][l] = lost[l].state /\ db'[l] = Restored(l)
    BY <1>1, <2>1, <2>4 DEF Restore, Spelled
  <2>6. Restored(l) \in Entries
    BY <2>1, <2>2, <2>4 DEF Entries, Files, BackupTypeOK
  <2> QED BY <2>4, <2>5, <2>6, BackupAssumption
<1>2. IInv /\ [Next]_vars =>
        [(Restore /\ lost # None /\ lapsed = {}) =>
           \A l \in Lines : lost[l] # None =>
               db'[l] # None /\ db'[l].state = lost[l].state]_vars
  BY <1>1
<1> QED BY <1>2, Invariant, PTL DEF Spec, LostLedgerComesBack
=============================================================================
