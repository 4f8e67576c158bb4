----------------------------- MODULE ModelProofs -----------------------------
(***************************************************************************)
(* What the model download keeps, for any files, sizes, attempts and       *)
(* faults.                                                                 *)
(*                                                                         *)
(* The argument: a part is renamed only from "replacing" and "renaming",   *)
(* which only a part that was just verified reaches, and nothing writes to *)
(* it there.  The flag of a run that was asked to stop stays set while the *)
(* run lasts, and a run that put a file in place after that is at the top  *)
(* of its loop, where it reads the flag before it begins another.          *)
(***************************************************************************)
EXTENDS ModelDownload, TLAPS

VerifiedParts ==
    /\ \A f \in Files : real[f] # "wrong"
    /\ at \in {"replacing", "renaming"} => part[Current].pure

StopIsHeard ==
    /\ asked /\ at # "idle" => cancel
    /\ late > 0 => at \in {"idle", "top"}
    /\ late > 0 /\ at = "top" => cancel
    /\ late <= 1

IInv == DownloadTypeOK /\ VerifiedParts /\ StopIsHeard

\* A plan that is left alone has the same file next.
LEMMA SameCurrent == ASSUME todo' = todo PROVE Current' = Current
BY DEF Current

\* A part file of the right size and kind.
LEMMA EmptyPart == Empty \in Parts
BY DownloadAssumption DEF Empty, Parts

-----------------------------------------------------------------------------
\* Every step keeps the types.
LEMMA TypeStep ==
  ASSUME DownloadTypeOK, Next
  PROVE  DownloadTypeOK'
<1> USE DownloadAssumption, EmptyPart DEF DownloadTypeOK, Goto, disk
<1>1. CASE Start
  <2>1. CASE at = "idle"
    <3>1. /\ cancel' = FALSE /\ at' = "top" /\ todo' = Missing /\ attempt' = 1
          /\ late' = 0 /\ asked' = FALSE /\ real' = real /\ part' = part /\ spent' = spent
      BY <1>1, <2>1 DEF Start
    <3>2. todo' \subseteq Files
      BY <3>1 DEF Missing
    <3>3. attempt' \in 1..MaxAttempts
      BY <3>1
    <3>4. late' \in Nat /\ spent' \in 0..Budget
      BY <3>1
    <3>5. at' \in Places /\ at' # "waiting"
      BY <3>1 DEF Places
    <3> QED BY <3>1, <3>2, <3>3, <3>4, <3>5
  <2>2. CASE at # "idle"
    BY <1>1, <2>2 DEF Start, vars
  <2> QED BY <2>1, <2>2
<1>2. CASE Cancel
  BY <1>2 DEF Cancel, Spend
<1>3. CASE NextFile
  BY <1>3 DEF NextFile, Unless, Ends, Places
<1>4. CASE FileStarts
  BY <1>4 DEF FileStarts, Places
<1>5. ASSUME NEW resumed \in BOOLEAN, Answered(resumed) PROVE DownloadTypeOK'
  BY <1>5 DEF Answered, Places
<1>6. CASE Streams
  BY <1>6 DEF Streams, Unless, Ends, Places
<1>7. CASE Chunk
  <2>1. ASSUME NEW f \in Files, NEW pure \in BOOLEAN, part[f].len < Size \/ ~pure,
                part[f].len <= Size, pure => part[f].pure
        PROVE  [len |-> part[f].len + 1, pure |-> pure] \in Parts
    BY <2>1 DEF Parts
  <2>2. \A f \in Files : part[f] \in Parts /\ part[f].pure \in BOOLEAN /\ part[f].len \in Nat
    BY DEF Parts
  <2>3. part' \in [Files -> Parts]
    <3>1. CASE part' = [part EXCEPT ![Current] = [len |-> part[Current].len + 1,
                                                  pure |-> part[Current].pure]]
               /\ part[Current].len < Size
      <4>1. Current \in Files =>
              [len |-> part[Current].len + 1, pure |-> part[Current].pure] \in Parts
        BY <3>1, <2>1, <2>2
      <4> QED BY <3>1, <4>1
    <3>2. CASE part' = [part EXCEPT ![Current] = [len |-> part[Current].len + 1, pure |-> FALSE]]
               /\ part[Current].len <= Size
      BY <3>2, <2>1, <2>2
    <3> QED BY <1>7, <3>1, <3>2 DEF Chunk
  <2> QED BY <1>7, <2>3 DEF Chunk, Spend, Places
<1>8. CASE BodyEnds
  BY <1>8 DEF BodyEnds, Spend, Places
<1>9. CASE Measures
  BY <1>9 DEF Measures, Places
<1>10. CASE Hashes
  BY <1>10 DEF Hashes, Unless, Ends, Places
<1>11. CASE Verifies
  BY <1>11 DEF Verifies, Places
<1>12. CASE RemovesOld
  BY <1>12 DEF RemovesOld, Places
<1>13. CASE Renames
  <2>1. /\ real' \in [Files -> {"absent", "other", "right", "wrong"}]
        /\ part' \in [Files -> Parts]
    BY <1>13 DEF Renames
  <2>2. late' \in Nat
    BY <1>13 DEF Renames
  <2> QED BY <1>13, <2>1, <2>2 DEF Renames, Places
<1>14. CASE Retries
  BY <1>14 DEF Retries, Ends, Places
<1>15. CASE Waits
  BY <1>15 DEF Waits, Ends, Places
<1>16. CASE Breaks
  BY <1>16 DEF Breaks, Spend, Places
<1>17. CASE Dies
  <2>1. spent' \in 0..Budget
    BY <1>17 DEF Dies, Spend
  <2> QED BY <1>17, <2>1 DEF Dies, Ends, Places
<1> QED
  BY <1>1, <1>2, <1>3, <1>4, <1>5, <1>6, <1>7, <1>8, <1>9, <1>10, <1>11, <1>12, <1>13,
     <1>14, <1>15, <1>16, <1>17 DEF Next, Worker

\* Every step keeps unverified parts from the real names.
LEMMA VerifiedStep ==
  ASSUME DownloadTypeOK, VerifiedParts, Next
  PROVE  VerifiedParts'
<1> USE DEF VerifiedParts, Goto, disk
<1>1. CASE Start
  BY <1>1, SameCurrent DEF Start, vars
<1>2. CASE Cancel
  BY <1>2, SameCurrent DEF Cancel
<1>3. CASE NextFile
  BY <1>3 DEF NextFile, Unless, Ends
<1>4. CASE FileStarts
  BY <1>4 DEF FileStarts
<1>5. ASSUME NEW resumed \in BOOLEAN, Answered(resumed) PROVE VerifiedParts'
  BY <1>5 DEF Answered
<1>6. CASE Streams
  BY <1>6 DEF Streams, Unless, Ends
<1>7. CASE Chunk
  BY <1>7 DEF Chunk
<1>8. CASE BodyEnds
  BY <1>8 DEF BodyEnds
<1>9. CASE Measures
  BY <1>9 DEF Measures
<1>10. CASE Hashes
  BY <1>10 DEF Hashes, Unless, Ends
<1>11. CASE Verifies
  <2>1. Current' = Current
    BY <1>11, SameCurrent DEF Verifies
  <2> QED BY <1>11, <2>1 DEF Verifies
<1>12. CASE RemovesOld
  <2>1. Current' = Current
    BY <1>12, SameCurrent DEF RemovesOld
  <2> QED BY <1>12, <2>1 DEF RemovesOld, DownloadTypeOK
<1>13. CASE Renames
  BY <1>13 DEF Renames, DownloadTypeOK
<1>14. CASE Retries
  BY <1>14 DEF Retries, Ends
<1>15. CASE Waits
  BY <1>15 DEF Waits, Ends
<1>16. CASE Breaks
  BY <1>16 DEF Breaks
<1>17. CASE Dies
  BY <1>17 DEF Dies, Ends
<1> QED
  BY <1>1, <1>2, <1>3, <1>4, <1>5, <1>6, <1>7, <1>8, <1>9, <1>10, <1>11, <1>12, <1>13,
     <1>14, <1>15, <1>16, <1>17 DEF Next, Worker

\* Every step of a run that was asked to stop leaves the flag where it reads it.
LEMMA StopStep ==
  ASSUME DownloadTypeOK, StopIsHeard, Next
  PROVE  StopIsHeard'
<1> USE DEF StopIsHeard, DownloadTypeOK, Goto, disk
<1>1. CASE Start
  BY <1>1 DEF Start, vars
<1>2. CASE Cancel
  BY <1>2 DEF Cancel
<1>3. CASE NextFile
  BY <1>3 DEF NextFile, Unless, Ends
<1>4. CASE FileStarts
  BY <1>4 DEF FileStarts
<1>5. ASSUME NEW resumed \in BOOLEAN, Answered(resumed) PROVE StopIsHeard'
  BY <1>5 DEF Answered
<1>6. CASE Streams
  BY <1>6 DEF Streams, Unless, Ends
<1>7. CASE Chunk
  BY <1>7 DEF Chunk
<1>8. CASE BodyEnds
  BY <1>8 DEF BodyEnds
<1>9. CASE Measures
  BY <1>9 DEF Measures
<1>10. CASE Hashes
  BY <1>10 DEF Hashes, Unless, Ends
<1>11. CASE Verifies
  BY <1>11 DEF Verifies
<1>12. CASE RemovesOld
  BY <1>12 DEF RemovesOld
<1>13. CASE Renames
  BY <1>13 DEF Renames
<1>14. CASE Retries
  BY <1>14 DEF Retries, Ends
<1>15. CASE Waits
  BY <1>15 DEF Waits, Ends
<1>16. CASE Breaks
  BY <1>16 DEF Breaks
<1>17. CASE Dies
  BY <1>17 DEF Dies, Ends
<1> QED
  BY <1>1, <1>2, <1>3, <1>4, <1>5, <1>6, <1>7, <1>8, <1>9, <1>10, <1>11, <1>12, <1>13,
     <1>14, <1>15, <1>16, <1>17 DEF Next, Worker

-----------------------------------------------------------------------------
\* The invariant holds at the start and is kept by every step and stutter.
LEMMA Inductive == Spec => []IInv
<1>1. Init => IInv
  <2> SUFFICES ASSUME Init PROVE IInv
    OBVIOUS
  <2>1. DownloadTypeOK
    <3>1. real \in [Files -> {"absent", "other", "right", "wrong"}]
      BY DEF Init
    <3>2. attempt \in 1..MaxAttempts
      BY DownloadAssumption DEF Init
    <3>3. spent \in 0..Budget
      BY DownloadAssumption DEF Init
    <3> QED BY <3>1, <3>2, <3>3 DEF Init, DownloadTypeOK, Places
  <2>2. VerifiedParts /\ StopIsHeard
    BY DEF Init, VerifiedParts, StopIsHeard
  <2> QED BY <2>1, <2>2 DEF IInv
<1>2. ASSUME IInv, [Next]_vars PROVE IInv'
  <2>1. CASE Next
    BY <1>2, <2>1, TypeStep, VerifiedStep, StopStep DEF IInv
  <2>2. CASE UNCHANGED vars
    BY <1>2, <2>2, SameCurrent
       DEF vars, IInv, DownloadTypeOK, VerifiedParts, StopIsHeard
  <2> QED BY <1>2, <2>1, <2>2
<1> QED BY <1>1, <1>2, PTL DEF Spec

\* The worker and what is on disk stay what they can be.
THEOREM DownloadTyped == Spec => []DownloadTypeOK
<1>1. IInv => DownloadTypeOK
  BY DEF IInv
<1> QED BY <1>1, Inductive, PTL

\* A file status counts as complete has been verified, whatever was resumed,
\* cut short, replaced or left behind.
THEOREM OnlyVerified == Spec => []OnlyVerifiedIsReady
<1>1. IInv => OnlyVerifiedIsReady
  BY DEF IInv, VerifiedParts, OnlyVerifiedIsReady, Complete
<1> QED BY <1>1, Inductive, PTL

\* A run asked to stop puts one more file in place at most.
THEOREM StopIsObeyed == Spec => []StopLetsOneFileThrough
<1>1. IInv => StopLetsOneFileThrough
  BY DEF IInv, StopIsHeard, StopLetsOneFileThrough
<1> QED BY <1>1, Inductive, PTL
=============================================================================
