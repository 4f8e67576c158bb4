----------------------------- MODULE IndexProofs ----------------------------
(***************************************************************************)
(* What the note index and the ledger's word of it keep, for any number of *)
(* notes, files, writers, edits and faults.                                *)
(*                                                                         *)
(* While no change of the vault went unseen and the watcher holds none,    *)
(* what is wrong in the index a pass in the queue will set right, and a    *)
(* job behind the last pass is right or known to be late (JobsAreRight,    *)
(* RowsAreRight).  What the ledger was last told of a note is what its row *)
(* says, and what it was never told it is owed (ToldIsRow, NoneIsOwed).    *)
(***************************************************************************)
EXTENDS IndexWorker, SequenceTheorems, WellFoundedInduction, TLAPS

-----------------------------------------------------------------------------
(* The least file and the last batch.                                      *)

LEMMA LeastNat ==
    ASSUME NEW S, S \subseteq Nat, S # {}
    PROVE  \E n \in S : \A m \in S : n <= m
  <1>1. IsWellFoundedOn(OpToRel(<, Nat), Nat)
    BY NatLessThanWellFounded
  <1>2. PICK n \in S : \A m \in S : ~ (<<m, n>> \in OpToRel(<, Nat))
    BY <1>1, WFMin
  <1>3. \A k, m \in Nat : ~ (<<m, k>> \in OpToRel(<, Nat)) => k <= m
    BY DEF OpToRel
  <1> QED
    BY <1>2, <1>3

LEMMA FirstIsLeast ==
    ASSUME NEW S, S \subseteq Paths, S # {}
    PROVE  /\ First(S) \in S
           /\ \A q \in S : First(S) <= q
           /\ \A p \in S : (\A q \in S : p <= q) => First(S) = p
  <1>1. S \subseteq Nat
    BY DEF Paths
  <1>2. \E n \in S : \A m \in S : n <= m
    BY <1>1, LeastNat
  <1>3. First(S) \in S /\ \A q \in S : First(S) <= q
    BY <1>2 DEF First
  <1>4. ASSUME NEW p \in S, \A q \in S : p <= q
        PROVE  First(S) = p
    <2>1. p <= First(S) /\ First(S) <= p /\ p \in Nat /\ First(S) \in Nat
      BY <1>1, <1>3, <1>4
    <2> QED
      BY <2>1
  <1> QED
    BY <1>3, <1>4

LEMMA GreatestIndex ==
    ASSUME NEW n \in Nat, NEW S, S \subseteq 1..n, S # {}
    PROVE  \E m \in S : \A k \in S : k <= m
  <1> DEFINE T == {n - k : k \in S}
  <1>1. T \subseteq Nat /\ T # {}
    <2>1. \A k \in S : n - k \in Nat
      OBVIOUS
    <2> QED
      BY <2>1
  <1> HIDE DEF T
  <1>2. PICK l \in T : \A m \in T : l <= m
    BY <1>1, LeastNat
  <1>3. PICK m \in S : l = n - m
    BY DEF T
  <1>4. \A k \in S : n - m <= n - k
    BY <1>2, <1>3 DEF T
  <1>5. \A k \in S : k <= m
    BY <1>4
  <1> QED
    BY <1>5

-----------------------------------------------------------------------------
(* The last word of a sequence of batches, over what was heard before.     *)

Saying(t, i) == {n \in 1..Len(t) : i \in DOMAIN t[n]}
LastWord(t, h, i) ==
    IF Saying(t, i) = {} THEN h[i]
    ELSE t[CHOOSE n \in Saying(t, i) : \A m \in Saying(t, i) : m <= n][i]

IsLast(n, t, i) == n \in Saying(t, i) /\ \A m \in Saying(t, i) : m <= n

LEMMA LastToldIsWord ==
    \A i : LastTold(i) = LastWord(told, heard, i) /\ LastTold(i)' = LastWord(told', heard', i)
  BY DEF LastTold, LastWord, Saying

LEMMA WordAt ==
    ASSUME NEW t, NEW h, NEW i, NEW n, IsLast(n, t, i)
    PROVE  LastWord(t, h, i) = t[n][i]
  <1>1. Saying(t, i) \subseteq Nat
    BY DEF Saying
  <1>2. n = CHOOSE k \in Saying(t, i) : \A m \in Saying(t, i) : m <= k
    BY <1>1 DEF IsLast
  <1> QED
    BY <1>2 DEF LastWord, IsLast

LEMMA LastSaying ==
    ASSUME NEW t \in Seq(Batches), NEW i, Saying(t, i) # {}
    PROVE  \E n \in 1..Len(t) : IsLast(n, t, i)
  BY GreatestIndex, LenProperties DEF Saying, IsLast

\* What is said last counts, and a batch about others changes nothing.
LEMMA AppendWord ==
    ASSUME NEW t \in Seq(Batches), NEW b \in Batches, NEW h, NEW i
    PROVE  LastWord(Append(t, b), h, i) = IF i \in DOMAIN b THEN b[i] ELSE LastWord(t, h, i)
  <1>0. PICK s : s = Append(t, b)
    OBVIOUS
  <1>1. /\ s \in Seq(Batches) /\ Len(s) = Len(t) + 1 /\ Len(t) \in Nat
        /\ \A k \in 1..Len(t) : s[k] = t[k]
        /\ s[Len(t) + 1] = b
    BY <1>0, AppendProperties, LenProperties
  <1>2. CASE i \in DOMAIN b
    <2>1. IsLast(Len(s), s, i)
      BY <1>1, <1>2 DEF Saying, IsLast
    <2>2. LastWord(s, h, i) = s[Len(s)][i]
      BY <2>1, WordAt
    <2> QED
      BY <1>0, <1>1, <1>2, <2>2
  <1>3. CASE i \notin DOMAIN b
    <2>1. Saying(s, i) = Saying(t, i)
      BY <1>1, <1>3 DEF Saying
    <2>2. CASE Saying(t, i) = {}
      BY <1>0, <1>3, <2>1, <2>2 DEF LastWord
    <2>3. CASE Saying(t, i) # {}
      <3>1. PICK n \in 1..Len(t) : IsLast(n, t, i)
        BY <2>3, LastSaying
      <3>2. s[n] = t[n]
        BY <1>1
      <3>3. LastWord(t, h, i) = t[n][i]
        BY <3>1, WordAt
      <3>4. IsLast(n, s, i)
        BY <2>1, <3>1 DEF IsLast
      <3>5. LastWord(s, h, i) = s[n][i]
        BY <3>4, WordAt
      <3> QED
        BY <1>0, <1>3, <3>2, <3>3, <3>5
    <2> QED
      BY <2>2, <2>3
  <1> QED
    BY <1>2, <1>3

\* Hearing a batch leaves the last word what it was.
LEMMA HearWord ==
    ASSUME NEW t \in Seq(Batches), t # <<>>, NEW h, NEW i \in Ids
    PROVE  LastWord(Tail(t), [j \in Ids |-> IF j \in DOMAIN t[1] THEN t[1][j] ELSE h[j]], i)
              = LastWord(t, h, i)
  <1>0. PICK s, g : s = Tail(t) /\ g = [j \in Ids |-> IF j \in DOMAIN t[1] THEN t[1][j] ELSE h[j]]
    OBVIOUS
  <1>1. /\ s \in Seq(Batches) /\ Len(t) \in Nat \ {0} /\ Len(s) = Len(t) - 1
        /\ \A k \in 1..Len(s) : s[k] = t[k + 1]
    BY <1>0, HeadTailProperties, LenProperties, EmptySeq
  <1>2. g[i] = IF i \in DOMAIN t[1] THEN t[1][i] ELSE h[i]
    BY <1>0
  <1>3. \A k \in Nat : k \in Saying(s, i) <=> k + 1 \in Saying(t, i) /\ k >= 1
    BY <1>1 DEF Saying
  <1>4. CASE Saying(s, i) = {}
    <2>1. Saying(t, i) \subseteq {1}
      <3>1. ASSUME NEW n \in Saying(t, i), n # 1 PROVE FALSE
        <4>1. n \in Nat /\ n - 1 \in Nat /\ n - 1 >= 1
          BY <1>1, <3>1 DEF Saying
        <4>2. n - 1 + 1 = n
          BY <4>1
        <4> QED
          BY <1>3, <1>4, <4>1, <4>2
      <3> QED
        BY <3>1
    <2>2. LastWord(s, g, i) = g[i]
      BY <1>4 DEF LastWord
    <2>3. CASE i \in DOMAIN t[1]
      <3>1. 1 \in Saying(t, i)
        BY <1>1, <2>3 DEF Saying
      <3>2. IsLast(1, t, i)
        BY <2>1, <3>1 DEF IsLast
      <3>3. LastWord(t, h, i) = t[1][i]
        BY <3>2, WordAt
      <3> QED
        BY <1>0, <1>2, <2>2, <2>3, <3>3
    <2>4. CASE i \notin DOMAIN t[1]
      <3>1. Saying(t, i) = {}
        BY <2>1, <2>4 DEF Saying
      <3> QED
        BY <1>0, <1>2, <2>2, <2>4, <3>1 DEF LastWord
    <2> QED
      BY <2>3, <2>4
  <1>5. CASE Saying(s, i) # {}
    <2>1. PICK n \in 1..Len(s) : IsLast(n, s, i)
      BY <1>1, <1>5, LastSaying
    <2>2. n \in Nat /\ n >= 1 /\ s[n] = t[n + 1] /\ n + 1 \in Saying(t, i)
      BY <1>1, <1>3, <2>1 DEF IsLast
    <2>3. ASSUME NEW m \in Saying(t, i) PROVE m <= n + 1
      <3>1. m \in Nat /\ m >= 1
        BY <1>1 DEF Saying
      <3>2. m # 1 => m - 1 \in Saying(s, i)
        BY <1>3, <3>1
      <3> QED
        BY <2>1, <2>2, <3>1, <3>2 DEF IsLast
    <2>4. LastWord(s, g, i) = s[n][i]
      BY <2>1, WordAt
    <2>5. LastWord(t, h, i) = t[n + 1][i]
      <3>1. IsLast(n + 1, t, i)
        BY <2>2, <2>3 DEF IsLast
      <3> QED
        BY <3>1, WordAt
    <2> QED
      BY <1>0, <2>2, <2>4, <2>5
  <1> QED
    BY <1>4, <1>5

-----------------------------------------------------------------------------
(* Types.                                                                  *)

LEMMA JobTypes ==
    /\ ReconcileJob \in Jobs /\ RebuildJob \in Jobs
    /\ \A i \in Ids, p \in Paths, v \in Versions, late \in BOOLEAN :
          NoteJob(i, p, v, late) \in Jobs /\ DeleteJob(i, late) \in Jobs
    /\ \A job \in Jobs :
          /\ job.kind \in {"note", "delete", "reconcile", "rebuild"}
          /\ job.kind = "note" =>
                job.id \in Ids /\ job.path \in Paths /\ job.ver \in Versions /\ job.late \in BOOLEAN
          /\ job.kind = "delete" => job.id \in Ids /\ job.late \in BOOLEAN
  BY DEF Jobs, ReconcileJob, RebuildJob, NoteJob, DeleteJob

\* A stamp only sets whether the job is late.
LEMMA StampTypes ==
    ASSUME IndexTypeOK, NEW job \in Jobs
    PROVE  /\ Stamped(job) \in Jobs
           /\ Stamped(job).kind = job.kind
           /\ Stale(Stamped(job)) <=> Stale(job)
           /\ job.kind \in {"note", "delete"} => Stamped(job).late = (Stale(job) /\ ~noticed)
  <1>1. (Stale(job) /\ ~noticed) \in BOOLEAN
    BY DEF Stale
  <1>2. CASE job \in [kind : {"note"}, id : Ids, path : Paths, ver : Versions, late : BOOLEAN]
    BY <1>2 DEF Stamped, Jobs, Stale
  <1>3. CASE job \in [kind : {"delete"}, id : Ids, late : BOOLEAN]
    BY <1>3 DEF Stamped, Jobs, Stale
  <1>4. CASE job \in {ReconcileJob, RebuildJob}
    BY <1>4 DEF Stamped, ReconcileJob, RebuildJob, Stale, Jobs
  <1> QED
    BY <1>2, <1>3, <1>4 DEF Jobs

LEMMA TakeTypes ==
    ASSUME IndexTypeOK, NEW kind, Takes(kind)
    PROVE  /\ queue' \in Seq(Jobs)
           /\ queue[1] \in Jobs /\ queue[1].kind = kind
           /\ Len(queue) \in Nat \ {0} /\ Len(queue') = Len(queue) - 1
           /\ \A k \in 1..Len(queue') : queue'[k] = queue[k + 1]
  <1>1. queue \in Seq(Jobs) /\ queue # <<>> /\ queue' = Tail(queue)
    BY DEF IndexTypeOK, Takes
  <1>2. Len(queue) \in Nat \ {0}
    BY <1>1, EmptySeq, LenProperties
  <1>3. queue[1] \in Jobs
    BY <1>1, <1>2, ElementOfSeq
  <1> QED
    BY <1>1, <1>2, <1>3, HeadTailProperties DEF Takes

LEMMA PutTypes ==
    ASSUME IndexTypeOK, NEW job \in Jobs, queue' = Append(queue, job)
    PROVE  /\ queue' \in Seq(Jobs)
           /\ Len(queue) \in Nat /\ Len(queue') = Len(queue) + 1
           /\ \A k \in 1..Len(queue) : queue'[k] = queue[k]
           /\ queue'[Len(queue) + 1] = job
  BY AppendProperties, LenProperties DEF IndexTypeOK

LEMMA AboutTypes ==
    ASSUME rows' \in [Ids -> Rows \cup {Nothing}], NEW S \in SUBSET Ids
    PROVE  /\ About(S) \in Batches /\ DOMAIN About(S) = S
           /\ \A i \in S : About(S)[i] = IF rows'[i] = Nothing THEN Gone ELSE rows'[i].ver
  <1>1. \A i \in S : (IF rows'[i] = Nothing THEN Gone ELSE rows'[i].ver) \in Words
    BY DEF Rows, Words
  <1>2. About(S) \in [S -> Words]
    BY <1>1 DEF About
  <1> QED
    BY <1>2 DEF Batches, About

\* A batch is sent unless it is about no note.
LEMMA BatchWord ==
    ASSUME rows' \in [Ids -> Rows \cup {Nothing}], NEW S \in SUBSET Ids,
           NEW t \in Seq(Batches), NEW h
    PROVE  /\ t \o Batch(S) \in Seq(Batches)
           /\ \A i : LastWord(t \o Batch(S), h, i) =
                 IF i \in S THEN IF rows'[i] = Nothing THEN Gone ELSE rows'[i].ver
                 ELSE LastWord(t, h, i)
  <1>1. About(S) \in Batches /\ DOMAIN About(S) = S
    BY AboutTypes
  <1>2. CASE S = {}
    <2>1. t \o Batch(S) = t
      BY <1>2, ConcatEmptySeq DEF Batch
    <2> QED
      BY <1>2, <2>1
  <1>3. CASE S # {}
    <2>1. t \o Batch(S) = Append(t, About(S))
      BY <1>1, <1>3, AppendIsConcat DEF Batch
    <2>2. Append(t, About(S)) \in Seq(Batches)
      BY <1>1, AppendProperties
    <2>3. \A i : LastWord(Append(t, About(S)), h, i) =
                    IF i \in S THEN About(S)[i] ELSE LastWord(t, h, i)
      BY <1>1, AppendWord
    <2> QED
      BY <2>1, <2>2, <2>3, AboutTypes
  <1> QED
    BY <1>2, <1>3

LEMMA ScanTypes ==
    /\ \A kind \in {"reconcile", "rebuild"} :
          [at |-> 1, seen |-> {}, parsed |-> {}, changed |-> {}, kind |-> kind] \in Scans
    /\ \A s \in Scans :
          /\ s.at \in 1..LastPath + 1 /\ s.kind \in {"reconcile", "rebuild"}
          /\ s.seen \subseteq Ids /\ s.parsed \subseteq Paths /\ s.changed \subseteq Ids
  BY IndexAssumption DEF Scans

LEMMA ChangeTypes ==
    ASSUME IndexTypeOK, VaultChanges
    PROVE  IndexTypeOK'
  <1> USE DEF index, ledger
  <1> DEFINE Rest == UNCHANGED <<queue, scan, index, ledger, app, faults>>
  <1>1. ASSUME NEW new \in [Paths -> NoteFiles \cup {Nothing, Torn}], Edited(new), Rest,
               noticed' \in BOOLEAN, missed' \in BOOLEAN,
               cmd' \in [Writers -> Jobs \cup {Nothing}]
        PROVE  IndexTypeOK'
    BY <1>1, IndexAssumption DEF IndexTypeOK, Edited
  <1>2. Notices => noticed' \in BOOLEAN /\ missed' \in BOOLEAN
    BY DEF Notices, IndexTypeOK
  <1>3. \A w \in Writers, job \in Jobs : Owes(w, job) => cmd' \in [Writers -> Jobs \cup {Nothing}]
    BY DEF Owes, IndexTypeOK
  <1>4. /\ \A p \in Paths, c \in NoteFiles \cup {Nothing, Torn} :
              [files EXCEPT ![p] = c] \in [Paths -> NoteFiles \cup {Nothing, Torn}]
        /\ \A p, q \in Paths : files[p] \in NoteFiles =>
              [files EXCEPT ![p] = Nothing, ![q] = files[p]] \in [Paths -> NoteFiles \cup {Nothing, Torn}]
    BY DEF IndexTypeOK
  <1>5. \A i \in Ids, v \in Versions : [id |-> i, ver |-> v] \in NoteFiles
    BY DEF NoteFiles
  <1>6. \A f \in NoteFiles : f.id \in Ids /\ f.ver \in Versions
    BY DEF NoteFiles
  <1>7. ASSUME NEW w \in Writers, NEW p \in Paths, NEW v \in Versions, AppSave(w, p, v)
        PROVE  IndexTypeOK'
    <2>1. NoteJob(files[p].id, p, v, FALSE) \in Jobs /\ files[p].id \in Ids
      BY <1>6, <1>7, JobTypes DEF AppSave
    <2> QED
      BY <1>1, <1>2, <1>3, <1>4, <1>5, <1>7, <2>1 DEF AppSave
  <1>8. ASSUME NEW w \in Writers, NEW i \in Ids, NEW p \in Paths, NEW v \in Versions,
               AppCreate(w, i, p, v)
        PROVE  IndexTypeOK'
    <2>1. NoteJob(i, p, v, FALSE) \in Jobs
      BY JobTypes
    <2> QED
      BY <1>1, <1>2, <1>3, <1>4, <1>5, <1>8, <2>1 DEF AppCreate
  <1>9. ASSUME NEW w \in Writers, NEW p \in Paths, NEW q \in Paths, AppMove(w, p, q)
        PROVE  IndexTypeOK'
    <2>1. NoteJob(files[p].id, q, files[p].ver, FALSE) \in Jobs /\ ReconcileJob \in Jobs
      BY <1>6, <1>9, JobTypes DEF AppMove
    <2> QED
      BY <1>1, <1>2, <1>3, <1>4, <1>9, <2>1 DEF AppMove
  <1>10. ASSUME NEW w \in Writers, NEW p \in Paths, AppDelete(w, p)
         PROVE  IndexTypeOK'
    <2>1. DeleteJob(files[p].id, FALSE) \in Jobs
      BY <1>6, <1>10, JobTypes DEF AppDelete
    <2> QED
      BY <1>1, <1>2, <1>3, <1>4, <1>10, <2>1 DEF AppDelete
  <1>11. cmd \in [Writers -> Jobs \cup {Nothing}] /\ noticed \in BOOLEAN /\ missed \in BOOLEAN
    BY DEF IndexTypeOK
  <1>12. ASSUME NEW p \in Paths, NEW c \in NoteFiles \cup {Nothing, Torn}, ExternalWrite(p, c)
         PROVE  IndexTypeOK'
    BY <1>1, <1>2, <1>4, <1>11, <1>12 DEF ExternalWrite
  <1>13. ASSUME NEW p \in Paths, NEW q \in Paths, ExternalFolderMove(p, q)
         PROVE  IndexTypeOK'
    BY <1>1, <1>4, <1>11, <1>13 DEF ExternalFolderMove
  <1> QED
    BY <1>7, <1>8, <1>9, <1>10, <1>12, <1>13 DEF VaultChanges

LEMMA QueueingTypes ==
    ASSUME IndexTypeOK, Queueing \/ RequestRebuild
    PROVE  IndexTypeOK'
  <1> USE DEF index, ledger
  <1>1. ASSUME NEW w \in Writers, Enqueue(w)
        PROVE  IndexTypeOK'
    <2>1. Stamped(cmd[w]) \in Jobs
      BY <1>1, StampTypes DEF Enqueue, IndexTypeOK
    <2>2. queue' \in Seq(Jobs)
      BY <1>1, <2>1, PutTypes DEF Enqueue
    <2> QED
      BY <1>1, <2>2 DEF Enqueue, IndexTypeOK
  <1>2. CASE Fire
    <2>1. queue' \in Seq(Jobs)
      BY <1>2, JobTypes, PutTypes DEF Fire
    <2> QED
      BY <1>2, <2>1 DEF Fire, IndexTypeOK
  <1>3. CASE RequestRebuild
    <2>1. queue' \in Seq(Jobs)
      BY <1>3, JobTypes, PutTypes DEF RequestRebuild
    <2> QED
      BY <1>3, <2>1, IndexAssumption DEF RequestRebuild, IndexTypeOK
  <1> QED
    BY <1>1, <1>2, <1>3 DEF Queueing

\* What a single note's job writes and says.
LEMMA OneNoteTypes ==
    ASSUME IndexTypeOK, NEW i \in Ids, NEW word \in Words
    PROVE  /\ [j \in {i} |-> word] \in Batches /\ DOMAIN [j \in {i} |-> word] = {i}
           /\ [j \in {i} |-> word][i] = word
           /\ Append(told, [j \in {i} |-> word]) \in Seq(Batches)
  <1>1. [j \in {i} |-> word] \in Batches
    <2>1. [j \in {i} |-> word] \in [{i} -> Words] /\ {i} \in SUBSET Ids
      OBVIOUS
    <2> QED
      BY <2>1 DEF Batches
  <1>2. told \in Seq(Batches)
    BY DEF IndexTypeOK
  <1> QED
    BY <1>1, <1>2, AppendProperties

LEMMA FaultTypes ==
    ASSUME IndexTypeOK, NEW what, Fails(what)
    PROVE  faults' \in 0..MaxFaults
  BY IndexAssumption DEF Fails, IndexTypeOK

LEMMA ScanFileTypes ==
    ASSUME IndexTypeOK, ScanFile
    PROVE  /\ scan' \in Scans /\ rows' \in [Ids -> Rows \cup {Nothing}]
           /\ bare' \subseteq Ids /\ unheard' \subseteq Ids
  <1> USE DEF index
  <1>1. scan \in Scans /\ scan.at \in Paths /\ scan.at + 1 \in 1..LastPath + 1
    BY IndexAssumption DEF ScanFile, IndexTypeOK, Paths
  <1>2. files[scan.at] \in NoteFiles =>
           /\ files[scan.at].id \in Ids
           /\ [path |-> scan.at, ver |-> files[scan.at].ver] \in Rows
    BY <1>1 DEF NoteFiles, Rows
  <1>3. /\ scan' \in Scans /\ rows' \in [Ids -> Rows \cup {Nothing}]
        /\ bare' \subseteq Ids /\ unheard' \subseteq Ids
    <2>1. CASE files[scan.at] \notin NoteFiles
      BY <1>1, <2>1 DEF ScanFile, IndexTypeOK, Scans
    <2>2. CASE files[scan.at] \in NoteFiles
      <3> DEFINE i == files[scan.at].id
                 row == [path |-> scan.at, ver |-> files[scan.at].ver]
      <3>1. i \in Ids /\ row \in Rows
        BY <1>2, <2>2
      <3>2. CASE i \in scan.seen \/ rows[i] = row
        <4>1. /\ scan' = [scan EXCEPT !.at = scan.at + 1, !.seen = @ \cup {i},
                                      !.parsed = @ \cup {scan.at}]
              /\ UNCHANGED <<rows, bare, unheard>>
          BY <2>2, <3>2 DEF ScanFile
        <4>2. scan' \in Scans
          BY <1>1, <3>1, <4>1 DEF Scans
        <4> QED
          BY <4>1, <4>2 DEF IndexTypeOK
      <3>3. CASE ~(i \in scan.seen \/ rows[i] = row)
        <4>1. /\ scan' = [scan EXCEPT !.at = scan.at + 1, !.seen = @ \cup {i},
                                      !.parsed = @ \cup {scan.at}, !.changed = @ \cup {i}]
              /\ rows' = [rows EXCEPT ![i] = row]
              /\ bare' = bare \ {i} /\ unheard' = unheard \cup {i}
          BY <2>2, <3>3 DEF ScanFile
        <4>2. scan' \in Scans
          BY <1>1, <3>1, <4>1 DEF Scans
        <4> HIDE DEF i, row
        <4> QED
          BY <3>1, <4>1, <4>2 DEF IndexTypeOK
      <3> QED
        BY <3>2, <3>3
    <2> QED
      BY <2>1, <2>2
  <1> QED
    BY <1>3

LEMMA WorkTypes ==
    ASSUME IndexTypeOK, Working \/ FailPass
    PROVE  IndexTypeOK'
  <1> USE DEF index, ledger
  <1>1. CASE ProcessNote
    <2> DEFINE job == queue[1]
    <2>1. /\ queue' \in Seq(Jobs) /\ job.id \in Ids /\ job.path \in Paths /\ job.ver \in Versions
          /\ job.late \in BOOLEAN
      BY <1>1, TakeTypes, JobTypes DEF ProcessNote
    <2>2. told' \in Seq(Batches)
      BY <1>1, <2>1, OneNoteTypes DEF ProcessNote, Words
    <2>3. rows' \in [Ids -> Rows \cup {Nothing}] /\ bare' \subseteq Ids /\ unheard' \subseteq Ids
      BY <1>1, <2>1 DEF ProcessNote, Failed, IndexTypeOK, Rows
    <2>4. missed' \in BOOLEAN /\ faults' \in 0..MaxFaults
      BY <1>1, <2>1, FaultTypes DEF ProcessNote, Served, Failed, PassComing, IndexTypeOK
    <2> QED
      BY <1>1, <2>1, <2>2, <2>3, <2>4 DEF ProcessNote, IndexTypeOK
  <1>2. CASE ProcessDelete
    <2> DEFINE job == queue[1]
    <2>1. queue' \in Seq(Jobs) /\ job.id \in Ids /\ job.late \in BOOLEAN
      BY <1>2, TakeTypes, JobTypes DEF ProcessDelete
    <2>2. told' \in Seq(Batches)
      BY <1>2, <2>1, OneNoteTypes DEF ProcessDelete, Words
    <2>3. rows' \in [Ids -> Rows \cup {Nothing}] /\ bare' \subseteq Ids /\ unheard' \subseteq Ids
      BY <1>2, <2>1 DEF ProcessDelete, Failed, IndexTypeOK
    <2>4. missed' \in BOOLEAN /\ faults' \in 0..MaxFaults
      BY <1>2, <2>1, FaultTypes DEF ProcessDelete, Served, Failed, PassComing, IndexTypeOK
    <2> QED
      BY <1>2, <2>1, <2>2, <2>3, <2>4 DEF ProcessDelete, IndexTypeOK
  <1>3. CASE StartPass
    <2>1. queue' \in Seq(Jobs) /\ scan' \in Scans /\ missed' \in BOOLEAN
      BY <1>3, TakeTypes, ScanTypes DEF StartPass, NewPass, IndexTypeOK
    <2> QED
      BY <1>3, <2>1 DEF StartPass, IndexTypeOK
  <1>4. CASE StartRebuild
    <2>1. queue' \in Seq(Jobs) /\ scan' \in Scans /\ missed' \in BOOLEAN
      BY <1>4, TakeTypes, ScanTypes DEF StartRebuild, NewPass, IndexTypeOK
    <2>2. rows' \in [Ids -> Rows \cup {Nothing}] /\ bare' \subseteq Ids /\ unheard' \subseteq Ids
      BY <1>4 DEF StartRebuild, IndexTypeOK
    <2> QED
      BY <1>4, <2>1, <2>2 DEF StartRebuild, IndexTypeOK
  <1>5. CASE ScanFile
    BY <1>5, ScanFileTypes DEF ScanFile, IndexTypeOK
  <1>6. CASE EndPass
    <2>1. rows' \in [Ids -> Rows \cup {Nothing}]
      BY <1>6 DEF EndPass, IndexTypeOK
    <2>2. \A S, T, U, V \in SUBSET Ids :
             told \o Batch(S) \o Batch(T) \o Batch(U) \o Batch(V) \in Seq(Batches)
      <3>1. \A t \in Seq(Batches), S \in SUBSET Ids : t \o Batch(S) \in Seq(Batches)
        BY <2>1, BatchWord
      <3> QED
        BY <3>1 DEF IndexTypeOK
    <2>3. scan.changed \in SUBSET Ids /\ Swept \in SUBSET Ids /\ bare \in SUBSET Ids
      BY <1>6, ScanTypes DEF EndPass, IndexTypeOK, Swept
    <2>4. told' \in Seq(Batches) /\ unheard' \subseteq Ids
      BY <1>6, <2>2, <2>3, IndexAssumption DEF EndPass, IndexTypeOK
    <2> QED
      BY <1>6, <2>1, <2>4 DEF EndPass, IndexTypeOK
  <1>7. CASE FailPass
    BY <1>7, FaultTypes DEF FailPass, IndexTypeOK
  <1> QED
    BY <1>1, <1>2, <1>3, <1>4, <1>5, <1>6, <1>7 DEF Working

LEMMA LifeTypes ==
    ASSUME IndexTypeOK, LedgerHears \/ Launch \/ StartWatching \/ Crash
    PROVE  IndexTypeOK'
  <1> USE DEF index, ledger
  <1>1. CASE LedgerHears
    <2>1. told \in Seq(Batches) /\ told # <<>>
      BY <1>1 DEF LedgerHears, IndexTypeOK
    <2>2. told' \in Seq(Batches) /\ told[1] \in Batches
      BY <1>1, <2>1, HeadTailProperties, EmptySeq, LenProperties, ElementOfSeq DEF LedgerHears
    <2>3. \A i \in Ids : i \in DOMAIN told[1] => told[1][i] \in Words
      BY <2>2 DEF Batches
    <2>4. heard' \in [Ids -> Words]
      BY <1>1, <2>3 DEF LedgerHears, IndexTypeOK
    <2> QED
      BY <1>1, <2>2, <2>4 DEF LedgerHears, IndexTypeOK
  <1>2. CASE Launch
    <2>1. queue' \in Seq(Jobs)
      BY <1>2, JobTypes DEF Launch
    <2> QED
      BY <1>2, <2>1, IndexAssumption DEF Launch, LedgerIsEmpty, IndexTypeOK
  <1>3. CASE StartWatching
    BY <1>3 DEF StartWatching, IndexTypeOK
  <1>4. CASE Crash
    <2>1. queue' \in Seq(Jobs) /\ told' \in Seq(Batches)
      <3>1. queue' = <<>> /\ told' = <<>>
        BY <1>4 DEF Crash
      <3> QED
        BY <3>1
    <2>2. heard' \in [Ids -> Words]
      BY <1>4 DEF Crash, IndexTypeOK, Words
    <2>3. \A n \in 1..Len(told) : DOMAIN told[n] \subseteq Ids
      BY ElementOfSeq DEF IndexTypeOK, Batches
    <2>4. unheard' \subseteq Ids
      <3>1. UNION {DOMAIN told[n] : n \in 1..Len(told)} \subseteq Ids
        BY <2>3
      <3>2. unheard' = unheard \cup UNION {DOMAIN told[n] : n \in 1..Len(told)}
        BY <1>4 DEF Crash
      <3> QED
        BY <3>1, <3>2 DEF IndexTypeOK
    <2> QED
      BY <1>4, <2>1, <2>2, <2>4, FaultTypes DEF Crash, IndexTypeOK
  <1> QED
    BY <1>1, <1>2, <1>3, <1>4

LEMMA TypeStep == IndexTypeOK /\ [Next]_vars => IndexTypeOK'
  <1>1. IndexTypeOK /\ UNCHANGED vars => IndexTypeOK'
    BY DEF vars, IndexTypeOK
  <1> QED
    BY <1>1, ChangeTypes, QueueingTypes, WorkTypes, LifeTypes DEF Next

LEMMA InitTypes == Init => IndexTypeOK
  <1> SUFFICES ASSUME Init PROVE IndexTypeOK
    OBVIOUS
  <1>1. \A i \in Ids : Holders(i) \subseteq Paths
    BY DEF Holders
  <1>2. \A i \in Ids : rows[i] \in Rows \cup {Nothing}
    <2>1. SUFFICES ASSUME NEW i \in Ids, Holders(i) # {}
                   PROVE  rows[i] \in Rows
      BY DEF Init
    <2>2. First(Holders(i)) \in Holders(i)
      BY <1>1, <2>1, FirstIsLeast
    <2>3. First(Holders(i)) \in Paths /\ files[First(Holders(i))].ver \in Versions
      BY <2>2 DEF Holders
    <2>4. rows[i] = [path |-> First(Holders(i)), ver |-> files[First(Holders(i))].ver]
      BY <2>1 DEF Init
    <2> QED
      BY <2>3, <2>4 DEF Rows
  <1>3. rows \in [Ids -> Rows \cup {Nothing}]
    BY <1>2 DEF Init
  <1>4. /\ queue \in Seq(Jobs) /\ told \in Seq(Batches)
        /\ edits \in 0..MaxEdits /\ faults \in 0..MaxFaults
    BY IndexAssumption DEF Init
  <1> QED
    BY <1>3, <1>4 DEF Init, IndexTypeOK, Words

\* The vault, the queues, the rows and what the ledger hears keep their types.
THEOREM IndexTyped == Spec => []IndexTypeOK
  BY InitTypes, TypeStep, PTL DEF Spec

-----------------------------------------------------------------------------
(* The ledger's last word.                                                 *)

\* A process that is down has nothing in memory.
DownIsIdle ==
    app = "down" =>
        /\ queue = <<>> /\ scan = Nothing /\ told = <<>> /\ ~noticed
        /\ \A w \in Writers : cmd[w] = Nothing

\* What the ledger was told last of a note is what its row says.
RowWord(i) == IF rows[i] = Nothing THEN Gone ELSE rows[i].ver
Known(i) == i \in unheard \/ LastTold(i) = Never \/ LastTold(i) = RowWord(i)

\* What it was never told it is owed, by a pass that finds the row bare or by a seed.
Owed(i) == i \in bare \/ owesSeed \/ (app = "down" /\ LedgerIsEmpty)
Offered(i) ==
    \/ i \in unheard \/ Owed(i)
    \/ LastTold(i) # Never \/ rows[i] = Nothing \/ i \notin Recent

ToldIsRow == \A i \in Ids : Known(i)
NoneIsOwed == \A i \in Ids : Offered(i)

WordInv == IndexTypeOK /\ DownIsIdle /\ ToldIsRow /\ NoneIsOwed

\* What a change of the vault leaves alone.
LEMMA ChangeLeaves ==
    ASSUME VaultChanges
    PROVE  /\ UNCHANGED <<app, queue, scan, rows, bare, told, heard, owesSeed, unheard>>
           /\ Notices \/ (noticed' = noticed /\ missed' = (missed \/ app # "down"))
           /\ app # "down" \/ cmd' = cmd
  <1> USE DEF index, ledger
  <1> DEFINE Leaves ==
        /\ UNCHANGED <<app, queue, scan, rows, bare, told, heard, owesSeed, unheard>>
        /\ Notices \/ (noticed' = noticed /\ missed' = (missed \/ app # "down"))
        /\ app # "down" \/ cmd' = cmd
  <1>1. ASSUME NEW w \in Writers, NEW p \in Paths, NEW v \in Versions, AppSave(w, p, v)
        PROVE  Leaves
    BY <1>1 DEF AppSave, Owes
  <1>2. ASSUME NEW w \in Writers, NEW p \in Paths, NEW v \in Versions, NEW i \in Ids,
               AppCreate(w, i, p, v)
        PROVE  Leaves
    BY <1>2 DEF AppCreate, Owes
  <1>3. ASSUME NEW w \in Writers, NEW p \in Paths, NEW q \in Paths, AppMove(w, p, q)
        PROVE  Leaves
    BY <1>3 DEF AppMove, Owes
  <1>4. ASSUME NEW w \in Writers, NEW p \in Paths, AppDelete(w, p)
        PROVE  Leaves
    BY <1>4 DEF AppDelete, Owes
  <1>5. ASSUME NEW p \in Paths, NEW c \in NoteFiles \cup {Nothing, Torn}, ExternalWrite(p, c)
        PROVE  Leaves
    BY <1>5 DEF ExternalWrite
  <1>6. ASSUME NEW p \in Paths, NEW q \in Paths, ExternalFolderMove(p, q)
        PROVE  Leaves
    BY <1>6 DEF ExternalFolderMove
  <1> HIDE DEF Leaves
  <1>7. Leaves
    BY <1>1, <1>2, <1>3, <1>4, <1>5, <1>6 DEF VaultChanges
  <1> QED
    BY <1>7 DEF Leaves

LEMMA DownStep ==
    ASSUME IndexTypeOK, DownIsIdle, [Next]_vars
    PROVE  DownIsIdle'
  <1> USE DEF index, ledger
  <1>1. CASE VaultChanges
    BY <1>1, ChangeLeaves DEF Notices, DownIsIdle
  <1>2. CASE Queueing \/ RequestRebuild
    BY <1>2 DEF Queueing, Enqueue, Fire, RequestRebuild, DownIsIdle
  <1>3. CASE Working \/ FailPass
    <2>1. app' = app /\ (scan # Nothing \/ queue # <<>>)
      BY <1>3 DEF Working, Takes, ProcessNote, ProcessDelete, StartPass, StartRebuild, ScanFile,
         EndPass, FailPass
    <2> QED
      BY <2>1 DEF DownIsIdle
  <1>4. CASE LedgerHears \/ Launch \/ StartWatching \/ Crash
    BY <1>4 DEF LedgerHears, Launch, StartWatching, Crash, DownIsIdle
  <1>5. CASE UNCHANGED vars
    BY <1>5 DEF vars, DownIsIdle
  <1> QED
    BY <1>1, <1>2, <1>3, <1>4, <1>5 DEF Next

\* A note whose row stays, of which nothing new is said, while nothing is given up.
LEMMA SameWord ==
    ASSUME NEW i \in Ids, Known(i), Offered(i),
           rows'[i] = rows[i], LastTold(i)' = LastTold(i), i \in unheard => i \in unheard',
           i \in unheard' \/ (Owed(i) => Owed(i)')
    PROVE  Known(i)' /\ Offered(i)'
  BY DEF Known, Offered, RowWord

\* A note of which the row's word is said.
LEMMA SaidWord ==
    ASSUME IndexTypeOK', NEW i \in Ids, LastTold(i)' = RowWord(i)'
    PROVE  Known(i)' /\ Offered(i)'
  <1>1. RowWord(i)' # Never
    BY IndexAssumption DEF RowWord, IndexTypeOK, Rows
  <1> QED
    BY <1>1 DEF Known, Offered

LEMMA UnheardWord ==
    ASSUME NEW i \in Ids, i \in unheard'
    PROVE  Known(i)' /\ Offered(i)'
  BY DEF Known, Offered

LEMMA QuietWord ==
    ASSUME WordInv, UNCHANGED <<rows, bare, told, heard, owesSeed, unheard>>,
           app = "down" => app' = "down"
    PROVE  ToldIsRow' /\ NoneIsOwed'
  <1>1. ASSUME NEW i \in Ids PROVE Known(i)' /\ Offered(i)'
    <2>1. LastTold(i)' = LastTold(i)
      BY LastToldIsWord
    <2>2. Owed(i) => Owed(i)'
      BY DEF Owed, LedgerIsEmpty
    <2> QED
      BY <2>1, <2>2, SameWord DEF WordInv, ToldIsRow, NoneIsOwed
  <1> QED
    BY <1>1 DEF ToldIsRow, NoneIsOwed

\* A single note's job writes the row and says so, or fails.
LEMMA OneNoteWord ==
    ASSUME WordInv, IndexTypeOK', app # "down", NEW k \in Ids, NEW word \in Words,
           told' = Append(told, [j \in {k} |-> word]),
           UNCHANGED <<heard, owesSeed>>,
           \/ /\ \A i \in Ids \ {k} : rows'[i] = rows[i]
              /\ word = RowWord(k)' /\ bare' = bare \ {k} /\ unheard' = unheard \ {k}
           \/ UNCHANGED <<rows, bare>> /\ unheard' = unheard \cup {k}
    PROVE  ToldIsRow' /\ NoneIsOwed'
  <1> DEFINE b == [j \in {k} |-> word]
  <1>1. b \in Batches /\ DOMAIN b = {k} /\ b[k] = word
    BY OneNoteTypes DEF WordInv
  <1>2. told' = Append(told, b) /\ told \in Seq(Batches)
    BY DEF WordInv, IndexTypeOK
  <1> HIDE DEF b
  <1>3. \A i : LastTold(i)' = IF i = k THEN word ELSE LastTold(i)
    <2>1. \A i : LastWord(Append(told, b), heard, i) =
                    IF i \in DOMAIN b THEN b[i] ELSE LastWord(told, heard, i)
      BY <1>1, <1>2, AppendWord
    <2>2. heard' = heard
      OBVIOUS
    <2> QED
      BY <1>1, <1>2, <2>1, <2>2, LastToldIsWord
  <1>4. ASSUME NEW i \in Ids
        PROVE  Known(i)' /\ Offered(i)'
    <2>1. CASE i \in unheard'
      BY <2>1, UnheardWord
    <2>2. CASE i = k /\ i \notin unheard'
      BY <1>3, <2>2, SaidWord
    <2>3. CASE i # k
      <3>1. /\ rows'[i] = rows[i] /\ LastTold(i)' = LastTold(i)
            /\ i \in unheard => i \in unheard'
            /\ i \in bare => i \in bare'
        BY <1>3, <2>3
      <3>2. Owed(i) => Owed(i)'
        BY <3>1 DEF Owed
      <3> QED
        BY <3>1, <3>2, SameWord DEF WordInv, ToldIsRow, NoneIsOwed
    <2> QED
      BY <2>1, <2>2, <2>3
  <1> QED
    BY <1>4 DEF ToldIsRow, NoneIsOwed

LEMMA EndPassWord ==
    ASSUME WordInv, IndexTypeOK', app # "down", EndPass
    PROVE  ToldIsRow' /\ NoneIsOwed'
  <1> DEFINE derived == (bare \ Swept) \cap Recent
             seeded == IF owesSeed /\ scan.kind = "reconcile"
                       THEN {i \in Recent : rows'[i] # Nothing} ELSE {}
             said == scan.changed \cup Swept \cup derived \cup seeded
  <1>1. /\ scan.changed \in SUBSET Ids /\ Swept \in SUBSET Ids
        /\ derived \in SUBSET Ids /\ seeded \in SUBSET Ids
    BY ScanTypes, IndexAssumption DEF EndPass, WordInv, IndexTypeOK, Swept
  <1>2. /\ told' = told \o Batch(scan.changed) \o Batch(Swept) \o Batch(derived) \o Batch(seeded)
        /\ unheard' = unheard \ said
        /\ owesSeed' = (owesSeed /\ scan.kind = "rebuild")
        /\ \A i \in Ids : rows'[i] = IF i \in Swept THEN Nothing ELSE rows[i]
        /\ heard' = heard
    BY DEF EndPass, index, ledger
  <1>3. seeded = IF owesSeed /\ scan.kind = "reconcile"
                 THEN {i \in Recent : rows'[i] # Nothing} ELSE {}
    OBVIOUS
  <1>4. derived = (bare \ Swept) \cap Recent
    OBVIOUS
  <1>5. said = scan.changed \cup Swept \cup derived \cup seeded
    OBVIOUS
  <1>6. told \in Seq(Batches) /\ rows' \in [Ids -> Rows \cup {Nothing}]
    BY DEF WordInv, IndexTypeOK
  <1>7. scan \in Scans
    BY DEF EndPass, WordInv, IndexTypeOK
  <1> HIDE DEF derived, seeded, said
  <1>8. ASSUME NEW i \in Ids
        PROVE  LastTold(i)' = IF i \in said THEN RowWord(i)' ELSE LastTold(i)
    <2>1. RowWord(i)' = IF rows'[i] = Nothing THEN Gone ELSE rows'[i].ver
      BY DEF RowWord
    <2>2. \A t \in Seq(Batches), S \in SUBSET Ids :
             /\ t \o Batch(S) \in Seq(Batches)
             /\ LastWord(t \o Batch(S), heard, i) =
                   IF i \in S THEN RowWord(i)' ELSE LastWord(t, heard, i)
      BY <1>6, <2>1, BatchWord
    <2>3. PICK t1, t2, t3 : /\ t1 = told \o Batch(scan.changed)
                            /\ t2 = t1 \o Batch(Swept)
                            /\ t3 = t2 \o Batch(derived)
      OBVIOUS
    <2>4. /\ t1 \in Seq(Batches)
          /\ LastWord(t1, heard, i) = IF i \in scan.changed THEN RowWord(i)' ELSE LastWord(told, heard, i)
      BY <1>1, <1>6, <2>2, <2>3
    <2>5. /\ t2 \in Seq(Batches)
          /\ LastWord(t2, heard, i) = IF i \in Swept THEN RowWord(i)' ELSE LastWord(t1, heard, i)
      BY <1>1, <2>2, <2>3, <2>4
    <2>6. /\ t3 \in Seq(Batches)
          /\ LastWord(t3, heard, i) = IF i \in derived THEN RowWord(i)' ELSE LastWord(t2, heard, i)
      BY <1>1, <2>2, <2>3, <2>5
    <2>7. LastWord(t3 \o Batch(seeded), heard, i) =
             IF i \in seeded THEN RowWord(i)' ELSE LastWord(t3, heard, i)
      BY <1>1, <2>2, <2>6
    <2>8. told' = t3 \o Batch(seeded)
      BY <1>2, <2>3
    <2> QED
      BY <1>2, <1>5, <2>4, <2>5, <2>6, <2>7, <2>8, LastToldIsWord
  <1>9. ASSUME NEW i \in Ids
        PROVE  Known(i)' /\ Offered(i)'
    <2>1. CASE i \in said
      BY <1>8, <2>1, SaidWord
    <2>2. CASE i \notin said
      <3>1. /\ LastTold(i)' = LastTold(i) /\ rows'[i] = rows[i]
            /\ i \in unheard => i \in unheard'
        BY <1>2, <1>5, <1>8, <2>2
      <3>2. Known(i) /\ Offered(i)
        BY DEF WordInv, ToldIsRow, NoneIsOwed
      <3>3. Known(i)'
        BY <3>1, <3>2 DEF Known, RowWord
      <3>4. CASE i \in bare
        BY <1>4, <1>5, <2>2, <3>3, <3>4 DEF Offered
      <3>5. CASE owesSeed
        <4>1. scan.kind \in {"reconcile", "rebuild"}
          BY <1>7, ScanTypes
        <4>2. CASE scan.kind = "rebuild"
          BY <1>2, <3>3, <3>5, <4>2 DEF Offered, Owed
        <4>3. CASE scan.kind = "reconcile"
          BY <1>3, <1>5, <2>2, <3>3, <3>5, <4>3 DEF Offered
        <4> QED
          BY <4>1, <4>2, <4>3
      <3>6. CASE i \notin bare /\ ~owesSeed
        BY <3>1, <3>2, <3>3, <3>6 DEF Offered, Owed
      <3> QED
        BY <3>3, <3>4, <3>5, <3>6
    <2> QED
      BY <2>1, <2>2
  <1> QED
    BY <1>9 DEF ToldIsRow, NoneIsOwed

LEMMA WorkWord ==
    ASSUME WordInv, IndexTypeOK', Working \/ FailPass
    PROVE  ToldIsRow' /\ NoneIsOwed'
  <1> USE DEF index, ledger
  <1>0. app # "down"
    BY DEF WordInv, DownIsIdle, Working, Takes, ProcessNote, ProcessDelete, StartPass, StartRebuild,
       ScanFile, EndPass, FailPass
  <1>1. CASE ProcessNote
    <2>1. PICK k, ver, row : k = queue[1].id /\ ver = queue[1].ver /\ row = [path |-> queue[1].path, ver |-> ver]
      OBVIOUS
    <2>2. k \in Ids /\ ver \in Words /\ row \in Rows /\ row # Nothing /\ row.ver = ver
      BY <1>1, <2>1, TakeTypes, JobTypes, IndexAssumption DEF ProcessNote, WordInv, Words, Rows
    <2>3. \/ /\ rows' = [rows EXCEPT ![k] = row]
             /\ bare' = bare \ {k} /\ unheard' = unheard \ {k}
          \/ UNCHANGED <<rows, bare>> /\ unheard' = unheard \cup {k}
      BY <1>1, <2>1 DEF ProcessNote, Failed
    <2>4. told' = Append(told, [j \in {k} |-> ver]) /\ UNCHANGED <<heard, owesSeed>>
      BY <1>1, <2>1 DEF ProcessNote
    <2>5. ASSUME rows' = [rows EXCEPT ![k] = row]
          PROVE  (\A i \in Ids \ {k} : rows'[i] = rows[i]) /\ ver = RowWord(k)'
      BY <2>2, <2>5 DEF WordInv, IndexTypeOK, RowWord
    <2> QED
      BY <1>0, <2>2, <2>3, <2>4, <2>5, OneNoteWord
  <1>2. CASE ProcessDelete
    <2>1. PICK k : k = queue[1].id
      OBVIOUS
    <2>2. k \in Ids /\ Gone \in Words
      BY <1>2, <2>1, TakeTypes, JobTypes DEF ProcessDelete, WordInv, Words
    <2>3. \/ /\ rows' = [rows EXCEPT ![k] = Nothing]
             /\ bare' = bare \ {k} /\ unheard' = unheard \ {k}
          \/ UNCHANGED <<rows, bare>> /\ unheard' = unheard \cup {k}
      BY <1>2, <2>1 DEF ProcessDelete, Failed
    <2>4. told' = Append(told, [j \in {k} |-> Gone]) /\ UNCHANGED <<heard, owesSeed>>
      BY <1>2, <2>1 DEF ProcessDelete
    <2>5. ASSUME rows' = [rows EXCEPT ![k] = Nothing]
          PROVE  (\A i \in Ids \ {k} : rows'[i] = rows[i]) /\ Gone = RowWord(k)'
      BY <2>2, <2>5 DEF WordInv, IndexTypeOK, RowWord
    <2> QED
      BY <1>0, <2>2, <2>3, <2>4, <2>5, OneNoteWord
  <1>3. CASE StartPass
    BY <1>3, QuietWord DEF StartPass
  <1>4. CASE StartRebuild
    <2>1. ASSUME NEW i \in Ids
          PROVE  Known(i)' /\ Offered(i)'
      <3>1. rows'[i] = Nothing /\ UNCHANGED <<told, heard, owesSeed>>
        BY <1>4 DEF StartRebuild
      <3>2. LastTold(i)' = LastTold(i)
        BY <3>1, LastToldIsWord
      <3>3. CASE i \in unheard'
        BY <3>3, UnheardWord
      <3>4. CASE i \notin unheard'
        <4>1. i \notin unheard /\ rows[i] = Nothing
          BY <1>4, <3>4 DEF StartRebuild
        <4> QED
          BY <3>1, <3>2, <4>1 DEF WordInv, ToldIsRow, Known, Offered, RowWord
      <3> QED
        BY <3>3, <3>4
    <2> QED
      BY <2>1 DEF ToldIsRow, NoneIsOwed
  <1>5. CASE ScanFile
    <2>1. /\ UNCHANGED <<told, heard, owesSeed, app>>
          /\ \/ UNCHANGED <<rows, bare, unheard>>
             \/ \E k \in Ids, row \in Rows :
                   /\ rows' = [rows EXCEPT ![k] = row]
                   /\ bare' = bare \ {k} /\ unheard' = unheard \cup {k}
      BY <1>5 DEF ScanFile, Rows, NoteFiles
    <2>2. CASE UNCHANGED <<rows, bare, unheard>>
      BY <2>1, <2>2, QuietWord
    <2>3. ASSUME NEW k \in Ids, NEW row \in Rows, rows' = [rows EXCEPT ![k] = row],
                 bare' = bare \ {k}, unheard' = unheard \cup {k}
          PROVE  ToldIsRow' /\ NoneIsOwed'
      <3>1. ASSUME NEW i \in Ids
            PROVE  Known(i)' /\ Offered(i)'
        <4>1. CASE i = k
          BY <2>3, <4>1, UnheardWord
        <4>2. CASE i # k
          <5>1. rows'[i] = rows[i] /\ LastTold(i)' = LastTold(i) /\ (i \in unheard => i \in unheard')
            BY <2>1, <2>3, <4>2, LastToldIsWord DEF WordInv, IndexTypeOK
          <5>2. Owed(i) => Owed(i)'
            BY <2>1, <2>3, <4>2 DEF Owed, LedgerIsEmpty
          <5> QED
            BY <5>1, <5>2, SameWord DEF WordInv, ToldIsRow, NoneIsOwed
        <4> QED
          BY <4>1, <4>2
      <3> QED
        BY <3>1 DEF ToldIsRow, NoneIsOwed
    <2> QED
      BY <2>1, <2>2, <2>3
  <1>6. CASE EndPass
    BY <1>0, <1>6, EndPassWord
  <1>7. CASE FailPass
    BY <1>7, QuietWord DEF FailPass
  <1> QED
    BY <1>1, <1>2, <1>3, <1>4, <1>5, <1>6, <1>7 DEF Working

LEMMA LifeWord ==
    ASSUME WordInv, IndexTypeOK', LedgerHears \/ Launch \/ StartWatching \/ Crash
    PROVE  ToldIsRow' /\ NoneIsOwed'
  <1> USE DEF index, ledger
  <1>0. told \in Seq(Batches)
    BY DEF WordInv, IndexTypeOK
  <1>1. CASE LedgerHears
    <2>0. app # "down"
      BY <1>1 DEF LedgerHears, WordInv, DownIsIdle
    <2>1. ASSUME NEW i \in Ids PROVE LastTold(i)' = LastTold(i)
      <3>1. /\ told' = Tail(told) /\ told # <<>>
            /\ heard' = [j \in Ids |-> IF j \in DOMAIN told[1] THEN told[1][j] ELSE heard[j]]
        BY <1>1 DEF LedgerHears
      <3>2. LastWord(told', heard', i) = LastWord(told, heard, i)
        BY <1>0, <3>1, HearWord
      <3> QED
        BY <3>2, LastToldIsWord
    <2>2. ASSUME NEW i \in Ids PROVE Known(i)' /\ Offered(i)'
      <3>1. /\ rows'[i] = rows[i] /\ (i \in unheard => i \in unheard')
            /\ Owed(i) => Owed(i)'
        BY <1>1, <2>0 DEF LedgerHears, Owed
      <3> QED
        BY <2>1, <3>1, SameWord DEF WordInv, ToldIsRow, NoneIsOwed
    <2> QED
      BY <2>2 DEF ToldIsRow, NoneIsOwed
  <1>2. CASE Launch
    <2>1. told = <<>> /\ UNCHANGED <<rows, bare, told, heard>> /\ owesSeed' = LedgerIsEmpty
      BY <1>2 DEF Launch, WordInv, DownIsIdle
    <2>2. ASSUME NEW i \in Ids PROVE Known(i)' /\ Offered(i)'
      <3>1. LastTold(i) = heard[i] /\ LastTold(i)' = LastTold(i)
        BY <2>1, LastToldIsWord DEF LastWord, Saying
      <3>2. Known(i) /\ Offered(i)
        BY DEF WordInv, ToldIsRow, NoneIsOwed
      <3>3. i \in unheard => i \in unheard'
        BY <1>2 DEF Launch
      <3>4. Known(i)'
        BY <2>1, <3>1, <3>2, <3>3 DEF Known, RowWord
      <3>5. CASE owesSeed /\ ~LedgerIsEmpty
        BY <1>2, <2>1, <3>1, <3>4, <3>5 DEF Launch, Offered
      <3>6. CASE ~owesSeed \/ LedgerIsEmpty
        BY <2>1, <3>1, <3>2, <3>3, <3>4, <3>6 DEF Offered, Owed
      <3> QED
        BY <3>4, <3>5, <3>6
    <2> QED
      BY <2>2 DEF ToldIsRow, NoneIsOwed
  <1>3. CASE StartWatching
    BY <1>3, QuietWord DEF StartWatching
  <1>4. CASE Crash
    <2>1. /\ app # "down" /\ app' = "down" /\ told' = <<>> /\ UNCHANGED <<rows, bare, owesSeed>>
          /\ unheard' = unheard \cup UNION {DOMAIN told[n] : n \in 1..Len(told)}
          /\ heard' = heard \/ heard' = [i \in Ids |-> Never]
      BY <1>4 DEF Crash
    <2>2. ASSUME NEW i \in Ids, i \notin unheard'
          PROVE  LastTold(i) = heard[i] /\ LastTold(i)' = heard'[i] /\ i \notin unheard
      <3>1. Saying(told, i) = {} /\ i \notin unheard
        BY <2>1, <2>2 DEF Saying
      <3>2. Saying(told', i) = {}
        BY <2>1 DEF Saying
      <3> QED
        BY <3>1, <3>2, LastToldIsWord DEF LastWord
    <2>3. ASSUME NEW i \in Ids PROVE Known(i)' /\ Offered(i)'
      <3>1. CASE i \in unheard'
        BY <3>1, UnheardWord
      <3>2. CASE i \notin unheard' /\ heard' = heard
        <4>1. LastTold(i)' = LastTold(i) /\ rows'[i] = rows[i] /\ i \notin unheard
          BY <2>1, <2>2, <3>2
        <4>2. Owed(i) => Owed(i)'
          BY <2>1 DEF Owed
        <4> QED
          BY <4>1, <4>2, SameWord DEF WordInv, ToldIsRow, NoneIsOwed
      <3>3. CASE i \notin unheard' /\ heard' = [j \in Ids |-> Never]
        <4>1. LedgerIsEmpty' /\ LastTold(i)' = Never
          BY <2>2, <3>3 DEF LedgerIsEmpty
        <4> QED
          BY <2>1, <4>1 DEF Known, Offered, Owed
      <3> QED
        BY <2>1, <3>1, <3>2, <3>3
    <2> QED
      BY <2>3 DEF ToldIsRow, NoneIsOwed
  <1> QED
    BY <1>1, <1>2, <1>3, <1>4

LEMMA WordStep == WordInv /\ [Next]_vars => WordInv'
  <1> SUFFICES ASSUME WordInv, [Next]_vars PROVE WordInv'
    OBVIOUS
  <1>1. IndexTypeOK' /\ DownIsIdle'
    BY TypeStep, DownStep DEF WordInv
  <1> DEFINE Goal == ToldIsRow' /\ NoneIsOwed'
  <1>2. ASSUME VaultChanges PROVE Goal
    BY <1>2, ChangeLeaves, QuietWord
  <1>3. ASSUME Queueing \/ RequestRebuild PROVE Goal
    BY <1>3, QuietWord DEF Queueing, Enqueue, Fire, RequestRebuild, index, ledger
  <1>4. ASSUME UNCHANGED vars PROVE Goal
    BY <1>4, QuietWord DEF vars, index, ledger
  <1>5. Goal
    BY <1>1, <1>2, <1>3, <1>4, WorkWord, LifeWord DEF Next
  <1> QED
    BY <1>1, <1>5 DEF WordInv

\* The ledger's last word of a note is the index's, whatever fails, dies or is lost.
THEOREM LedgerHasTheWord == Spec => []LedgerHasTheIndexsWord
  <1>1. Init => WordInv
    <2> SUFFICES ASSUME Init PROVE WordInv
      OBVIOUS
    <2>1. \A i \in Ids : LastTold(i) = Never
      BY LastToldIsWord DEF Init, LastWord, Saying
    <2> QED
      BY <2>1, InitTypes DEF Init, WordInv, DownIsIdle, ToldIsRow, NoneIsOwed, Known, Offered, Owed
  <1>2. WordInv => LedgerHasTheIndexsWord
    BY DEF WordInv, ToldIsRow, NoneIsOwed, Known, Offered, Owed, RowWord, LedgerHasTheIndexsWord
  <1> QED
    BY <1>1, <1>2, WordStep, PTL DEF Spec

-----------------------------------------------------------------------------
(* The index.                                                              *)

IsPass(job) == job.kind \in {"reconcile", "rebuild"}
PassAfter(n) == \E m \in n + 1..Len(queue) : IsPass(queue[m])

\* Nothing of the vault's changes is unseen or held by the watcher.
Calm == app # "down" /\ ~missed /\ ~noticed

\* A job that no pass follows says what the files say, or is known to be late.
Right(job) == IsPass(job) \/ job.late \/ ~Stale(job)
RightAt(n) == Right(queue[n])
JobsAreRight == Calm => \A n \in 1..Len(queue) : PassAfter(n) \/ RightAt(n)

\* A pass has the ids and files it went by, and their rows are right.
Read(i) == \E p \in Holders(i) : p < scan.at
ScanIsRight ==
    /\ scan.seen = {i \in Ids : Read(i)}
    /\ scan.parsed = {p \in Paths : p < scan.at /\ files[p] \in NoteFiles}
    /\ \A i \in scan.seen : RowMatches(i)

\* What is wrong in the index a pass that waits or runs will set right.
RowsAreRight == Calm /\ ~PassAfter(0) => IF scan = Nothing THEN Matches ELSE ScanIsRight

IndexInv == IndexTypeOK /\ JobsAreRight /\ RowsAreRight

LEMMA HoldersAre ==
    \A i \in Ids : /\ Holders(i) = {p \in Paths : files[p] \in NoteFiles /\ files[p].id = i}
                   /\ Holders(i) \subseteq Paths
  BY DEF Holders, NoteFiles

\* While the files stay, only the row decides whether it is right.
LEMMA SameFiles ==
    ASSUME UNCHANGED files
    PROVE  /\ \A i : Holders(i)' = Holders(i)
           /\ \A i : rows'[i] = rows[i] => (RowMatches(i)' <=> RowMatches(i))
           /\ \A job : Stale(job)' <=> Stale(job)
  BY DEF Holders, RowMatches, Stale

LEMMA RightThere ==
    ASSUME NEW n, NEW job
    PROVE  /\ job = queue[n] => (RightAt(n) <=> Right(job))
           /\ job = queue'[n] => (RightAt(n)' <=> Right(job)')
  BY DEF RightAt, Right, IsPass, Stale, Holders

LEMMA RestlessRight ==
    ASSUME ~Calm'
    PROVE  JobsAreRight' /\ RowsAreRight'
  BY DEF JobsAreRight, RowsAreRight

\* A step that touches neither the files, the rows, the queue nor the pass.
LEMMA QuietIndex ==
    ASSUME IndexInv, Calm' => Calm, UNCHANGED <<files, queue, rows, scan>>
    PROVE  JobsAreRight' /\ RowsAreRight'
  <1>1. \A n : (PassAfter(n)' <=> PassAfter(n)) /\ (RightAt(n)' <=> RightAt(n))
    BY DEF PassAfter, IsPass, RightAt, Right, Stale, Holders
  <1>2. JobsAreRight'
    BY <1>1 DEF IndexInv, JobsAreRight
  <1>3. (Matches' <=> Matches) /\ (ScanIsRight' <=> ScanIsRight)
    BY DEF Matches, ScanIsRight, Read, RowMatches, Holders
  <1>4. RowsAreRight'
    BY <1>1, <1>3 DEF IndexInv, RowsAreRight
  <1> QED
    BY <1>2, <1>4

\* Behind a new pass everything is provisional.
LEMMA PutsPass ==
    ASSUME IndexTypeOK, NEW job \in Jobs, IsPass(job), queue' = Append(queue, job)
    PROVE  JobsAreRight' /\ RowsAreRight'
  <1>1. /\ Len(queue) \in Nat /\ Len(queue') = Len(queue) + 1
        /\ queue'[Len(queue) + 1] = job
    BY PutTypes
  <1>2. \A n \in 0..Len(queue) : PassAfter(n)'
    BY <1>1 DEF PassAfter
  <1>3. \A n \in 1..Len(queue') : n \in 0..Len(queue) \/ n = Len(queue) + 1
    BY <1>1
  <1>4. PassAfter(0)'
    BY <1>1, <1>2
  <1>5. \A n \in 1..Len(queue') : PassAfter(n)' \/ IsPass(queue'[n])
    BY <1>1, <1>2, <1>3
  <1>6. \A n \in 1..Len(queue') : IsPass(queue'[n]) => RightAt(n)'
    BY DEF RightAt, Right, IsPass
  <1> QED
    BY <1>4, <1>5, <1>6 DEF JobsAreRight, RowsAreRight

LEMMA QueueingIndex ==
    ASSUME IndexInv, Queueing \/ RequestRebuild
    PROVE  JobsAreRight' /\ RowsAreRight'
  <1> USE DEF index, ledger
  <1>1. ASSUME NEW w \in Writers, Enqueue(w)
        PROVE  JobsAreRight' /\ RowsAreRight'
    <2>1. PICK job : job = Stamped(cmd[w])
      OBVIOUS
    <2>2. cmd[w] \in Jobs
      BY <1>1 DEF Enqueue, IndexInv, IndexTypeOK
    <2>3. /\ job \in Jobs /\ job.kind = cmd[w].kind /\ (Stale(job) <=> Stale(cmd[w]))
          /\ cmd[w].kind \in {"note", "delete"} => job.late = (Stale(cmd[w]) /\ ~noticed)
      BY <2>1, <2>2, StampTypes DEF IndexInv
    <2>4. /\ Len(queue) \in Nat /\ Len(queue') = Len(queue) + 1
          /\ \A k \in 1..Len(queue) : queue'[k] = queue[k]
          /\ queue'[Len(queue) + 1] = job
      BY <1>1, <2>1, <2>3, PutTypes DEF Enqueue, IndexInv
    <2>5. UNCHANGED <<files, scan, rows>> /\ (Calm' <=> Calm)
      BY <1>1 DEF Enqueue, Calm
    <2>6. Calm => Right(job)
      BY <2>2, <2>3, JobTypes DEF Calm, Right, IsPass
    <2>7. \A n \in 0..Len(queue) : PassAfter(n) => PassAfter(n)'
      BY <2>4 DEF PassAfter
    <2>8. \A other : Right(other)' <=> Right(other)
      BY <2>5, SameFiles DEF Right, IsPass
    <2>9. JobsAreRight'
      <3>1. SUFFICES ASSUME Calm, NEW n \in 1..Len(queue') PROVE PassAfter(n)' \/ RightAt(n)'
        BY <2>5 DEF JobsAreRight
      <3>2. CASE n = Len(queue) + 1
        BY <2>4, <2>6, <2>8, <3>1, <3>2, RightThere
      <3>3. CASE n # Len(queue) + 1
        <4>1. n \in 1..Len(queue) /\ queue'[n] = queue[n]
          BY <2>4, <3>3
        <4>2. PassAfter(n) \/ RightAt(n)
          BY <3>1, <4>1 DEF IndexInv, JobsAreRight
        <4>3. PICK other : other = queue[n]
          OBVIOUS
        <4>4. RightAt(n) => RightAt(n)'
          BY <2>8, <4>1, <4>3, RightThere
        <4> QED
          BY <2>7, <4>1, <4>2, <4>4
      <3> QED
        BY <3>2, <3>3
    <2>10. RowsAreRight'
      <3>1. PassAfter(0) => PassAfter(0)'
        BY <2>4, <2>7
      <3> QED
        BY <2>5, <3>1 DEF IndexInv, RowsAreRight, ScanIsRight, Read, Matches, RowMatches, Holders
    <2> QED
      BY <2>9, <2>10
  <1>2. CASE Fire
    BY <1>2, PutsPass, JobTypes DEF Fire, IndexInv, IsPass, ReconcileJob
  <1>3. CASE RequestRebuild
    BY <1>3, PutsPass, JobTypes DEF RequestRebuild, IndexInv, IsPass, RebuildJob
  <1> QED
    BY <1>1, <1>2, <1>3 DEF Queueing

\* Taking a job shifts the queue.
LEMMA TakeShifts ==
    ASSUME IndexInv, NEW kind, Takes(kind)
    PROVE  /\ PassAfter(0)' <=> PassAfter(1)
           /\ PassAfter(0) <=> (IsPass(queue[1]) \/ PassAfter(1))
           /\ PassComing <=> (noticed \/ PassAfter(1))
           /\ \A n \in 1..Len(queue') :
                 /\ n + 1 \in 1..Len(queue) /\ queue'[n] = queue[n + 1]
                 /\ PassAfter(n)' <=> PassAfter(n + 1)
           /\ 1 \in 1..Len(queue) /\ queue[1].kind = kind /\ scan = Nothing
  <1>1. /\ Len(queue) \in Nat \ {0} /\ Len(queue') = Len(queue) - 1
        /\ \A k \in 1..Len(queue') : queue'[k] = queue[k + 1]
        /\ queue[1].kind = kind /\ scan = Nothing
    BY TakeTypes DEF IndexInv, Takes
  <1>2. ASSUME NEW n \in 0..Len(queue')
        PROVE  PassAfter(n)' <=> PassAfter(n + 1)
    <2>1. ASSUME NEW m \in n + 1..Len(queue'), IsPass(queue'[m])
          PROVE  m + 1 \in n + 2..Len(queue) /\ IsPass(queue[m + 1])
      BY <1>1, <1>2, <2>1
    <2>2. ASSUME NEW m \in n + 2..Len(queue), IsPass(queue[m])
          PROVE  m - 1 \in n + 1..Len(queue') /\ IsPass(queue'[m - 1])
      <3>1. m - 1 \in 1..Len(queue') /\ m - 1 + 1 = m /\ m - 1 \in n + 1..Len(queue')
        BY <1>1, <1>2, <2>2
      <3> QED
        BY <1>1, <2>2, <3>1
    <2>3. PassAfter(n)' <=> \E m \in n + 1..Len(queue') : IsPass(queue'[m])
      BY DEF PassAfter, IsPass
    <2>4. PassAfter(n + 1) <=> \E m \in n + 2..Len(queue) : IsPass(queue[m])
      <3>1. n + 1 + 1 = n + 2
        BY <1>1
      <3> QED
        BY <3>1 DEF PassAfter
    <2> QED
      BY <2>1, <2>2, <2>3, <2>4
  <1>3. PassAfter(0)' <=> PassAfter(1)
    BY <1>1, <1>2
  <1>4. PassAfter(0) <=> (IsPass(queue[1]) \/ PassAfter(1))
    <2>1. \A m \in 1..Len(queue) : m = 1 \/ m \in 2..Len(queue)
      BY <1>1
    <2>2. 1 \in 1..Len(queue) /\ 2..Len(queue) \subseteq 1..Len(queue)
      BY <1>1
    <2> QED
      BY <2>1, <2>2 DEF PassAfter
  <1>5. PassComing <=> (noticed \/ PassAfter(1))
    BY DEF PassComing, PassAfter, IsPass
  <1>6. \A n \in 1..Len(queue') : n + 1 \in 1..Len(queue) /\ n \in 0..Len(queue')
    BY <1>1
  <1> QED
    BY <1>1, <1>2, <1>3, <1>4, <1>5, <1>6


LEMMA ShiftJobs ==
    ASSUME IndexInv, NEW kind, Takes(kind), UNCHANGED files, Calm' => Calm
    PROVE  JobsAreRight'
  <1>1. SUFFICES ASSUME Calm, NEW n \in 1..Len(queue')
                 PROVE  PassAfter(n)' \/ RightAt(n)'
    BY DEF JobsAreRight
  <1>2. /\ n + 1 \in 1..Len(queue) /\ queue'[n] = queue[n + 1]
        /\ PassAfter(n)' <=> PassAfter(n + 1)
    BY <1>1, TakeShifts
  <1>3. PassAfter(n + 1) \/ RightAt(n + 1)
    BY <1>1, <1>2 DEF IndexInv, JobsAreRight
  <1>4. PICK job : job = queue[n + 1]
    OBVIOUS
  <1>5. Right(job)' <=> Right(job)
    BY SameFiles DEF Right, IsPass
  <1>6. RightAt(n + 1) => RightAt(n)'
    BY <1>2, <1>4, <1>5, RightThere
  <1> QED
    BY <1>2, <1>3, <1>6

\* With no pass behind it, a job that was served was right.
LEMMA ServesRight ==
    ASSUME IndexInv, NEW kind \in {"note", "delete"}, Takes(kind),
           UNCHANGED <<files, noticed, scan, app>>,
           Served(queue[1]) \/ missed' = (missed \/ ~PassComing)
    PROVE  /\ Calm' => Calm
           /\ Calm' /\ ~PassAfter(0)' => Served(queue[1]) /\ Matches /\ ~Stale(queue[1])
  <1>1. Calm' => Calm
    BY DEF Calm, Served
  <1>2. ASSUME Calm', ~PassAfter(0)'
        PROVE  Served(queue[1]) /\ Matches /\ ~Stale(queue[1])
    <2>1. /\ Calm /\ ~PassAfter(1) /\ ~PassComing /\ ~IsPass(queue[1]) /\ ~PassAfter(0)
          /\ 1 \in 1..Len(queue) /\ scan = Nothing
      BY <1>1, <1>2, TakeShifts DEF IsPass, Calm
    <2>2. Matches
      BY <2>1 DEF IndexInv, RowsAreRight
    <2>3. Served(queue[1]) /\ ~queue[1].late
      BY <1>2, <2>1 DEF Served, Calm
    <2>4. RightAt(1)
      BY <2>1 DEF IndexInv, JobsAreRight
    <2> QED
      BY <2>1, <2>2, <2>3, <2>4 DEF RightAt, Right
  <1> QED
    BY <1>1, <1>2

LEMMA OneNoteIndex ==
    ASSUME IndexInv, ProcessNote \/ ProcessDelete
    PROVE  JobsAreRight' /\ RowsAreRight'
  <1> USE DEF index, ledger
  <1>1. PICK job : job = queue[1]
    OBVIOUS
  <1>2. PICK kind \in {"note", "delete"} : Takes(kind) /\ (kind = "note" <=> ProcessNote)
    BY DEF ProcessNote, ProcessDelete, Takes
  <1>3. /\ UNCHANGED <<files, noticed, scan, app>>
        /\ Served(job) \/ missed' = (missed \/ ~PassComing)
    BY <1>1 DEF ProcessNote, ProcessDelete, Failed
  <1>4. JobsAreRight'
    BY <1>1, <1>2, <1>3, ServesRight, ShiftJobs
  <1>5. ASSUME Calm', ~PassAfter(0)'
        PROVE  Matches'
    <2>1. Served(job) /\ Matches /\ ~Stale(job) /\ ~missed'
      BY <1>1, <1>2, <1>3, <1>5, ServesRight DEF Calm
    <2>2. ~PassComing
      <3>1. ~noticed /\ ~PassAfter(1)
        BY <1>2, <1>3, <1>5, TakeShifts DEF Calm
      <3> QED
        BY <1>2, <3>1, TakeShifts
    <2>3. /\ job.kind = kind /\ job.id \in Ids
          /\ kind = "note" => job.path \in Paths /\ job.ver \in Versions
      BY <1>1, <1>2, TakeTypes, JobTypes DEF IndexInv
    <2>4. rows' = [rows EXCEPT ![job.id] =
                      IF kind = "note" THEN [path |-> job.path, ver |-> job.ver] ELSE Nothing]
      BY <1>1, <1>2, <2>1, <2>2 DEF ProcessNote, ProcessDelete, Failed
    <2>5. rows \in [Ids -> Rows \cup {Nothing}]
      BY DEF IndexInv, IndexTypeOK
    <2>6. ASSUME NEW i \in Ids, i # job.id
          PROVE  RowMatches(i)'
      BY <1>3, <2>1, <2>4, <2>5, <2>6, SameFiles DEF Matches
    <2>7. PICK i \in Ids : i = job.id
      BY <2>3
    <2>8. RowMatches(i)'
      <3>1. CASE kind = "delete"
        <4>1. Holders(i) = {}
          BY <2>1, <2>3, <2>7, <3>1 DEF Stale
        <4>2. rows'[i] = Nothing /\ Holders(i)' = {}
          BY <1>3, <2>4, <2>5, <2>7, <3>1, <4>1, SameFiles
        <4> QED
          BY <4>2 DEF RowMatches
      <3>2. CASE kind = "note"
        <4>1. /\ job.path \in Holders(i) /\ files[job.path].ver = job.ver
              /\ \A p \in Holders(i) : ~(p < job.path)
          BY <2>1, <2>3, <2>7, <3>2 DEF Stale, Holders
        <4>2. \A p \in Holders(i) : job.path <= p
          BY <4>1, HoldersAre DEF Paths
        <4>3. First(Holders(i)) = job.path
          BY <4>1, <4>2, FirstIsLeast, HoldersAre
        <4>4. rows'[i] = [path |-> job.path, ver |-> job.ver]
          BY <2>4, <2>5, <2>7, <3>2
        <4>5. Holders(i)' = Holders(i) /\ files' = files
          BY <1>3, SameFiles
        <4> QED
          BY <4>1, <4>3, <4>4, <4>5 DEF RowMatches
      <3> QED
        BY <3>1, <3>2
    <2> QED
      BY <2>6, <2>7, <2>8 DEF Matches
  <1>6. scan' = Nothing
    BY <1>2, <1>3 DEF Takes
  <1> QED
    BY <1>4, <1>5, <1>6 DEF RowsAreRight

\* A pass that starts has all the files before it, and what follows it is right.
LEMMA NewPassIndex ==
    ASSUME IndexInv, StartPass \/ StartRebuild
    PROVE  JobsAreRight' /\ RowsAreRight'
  <1> USE DEF index, ledger
  <1>1. PICK kind \in {"reconcile", "rebuild"} : Takes(kind) /\ NewPass(kind)
    BY DEF StartPass, StartRebuild
  <1>2. UNCHANGED <<files, noticed, app>>
    BY DEF StartPass, StartRebuild
  <1>3. JobsAreRight'
    <2>1. CASE Calm' => Calm
      BY <1>1, <1>2, <2>1, ShiftJobs
    <2>2. CASE Calm' /\ ~Calm
      <3>1. \A n \in 2..Len(queue) : queue[n].kind \notin {"note", "delete"}
        BY <1>1, <1>2, <2>2 DEF Calm, NewPass
      <3>2. ASSUME NEW n \in 1..Len(queue') PROVE RightAt(n)'
        <4>1. n + 1 \in 2..Len(queue) /\ queue'[n] = queue[n + 1] /\ queue[n + 1] \in Jobs
          <5>1. n + 1 \in 1..Len(queue) /\ queue'[n] = queue[n + 1]
            BY <1>1, TakeShifts
          <5>2. queue[n + 1] \in Jobs
            BY <5>1, ElementOfSeq DEF IndexInv, IndexTypeOK
          <5> QED
            BY <5>1, <5>2
        <4>2. IsPass(queue'[n])
          BY <3>1, <4>1, JobTypes DEF IsPass
        <4> QED
          BY <4>2 DEF RightAt, Right, IsPass
      <3> QED
        BY <3>2 DEF JobsAreRight
    <2> QED
      BY <2>1, <2>2
  <1>4. ScanIsRight' /\ scan' # Nothing
    <2>1. scan' = [at |-> 1, seen |-> {}, parsed |-> {}, changed |-> {}, kind |-> kind]
      BY <1>1 DEF NewPass
    <2>2. scan' \in Scans
      BY <2>1, ScanTypes
    <2>3. \A p \in Paths : ~(p < scan'.at)
      BY <2>1 DEF Paths
    <2>4. \A i \in Ids : ~Read(i)'
      BY <2>3, HoldersAre DEF Read, Holders
    <2> QED
      BY <2>1, <2>2, <2>3, <2>4, NothingAssumption DEF ScanIsRight
  <1> QED
    BY <1>3, <1>4 DEF RowsAreRight

\* A step of the pass that leaves the queue and the files.
LEMMA PassingIndex ==
    ASSUME IndexInv, UNCHANGED <<files, noticed, queue, app, missed>>, scan # Nothing,
           ScanIsRight => IF scan' = Nothing THEN Matches' ELSE ScanIsRight'
    PROVE  JobsAreRight' /\ RowsAreRight'
  <1>1. (Calm' <=> Calm) /\ (PassAfter(0)' <=> PassAfter(0))
    BY DEF Calm, PassAfter, IsPass
  <1>2. JobsAreRight'
    <2>1. \A n : (PassAfter(n)' <=> PassAfter(n)) /\ (RightAt(n)' <=> RightAt(n))
      BY DEF PassAfter, IsPass, RightAt, Right, Stale, Holders
    <2> QED
      BY <1>1, <2>1 DEF IndexInv, JobsAreRight
  <1> QED
    BY <1>1, <1>2 DEF IndexInv, RowsAreRight


LEMMA ScanFileIndex ==
    ASSUME IndexInv, ScanFile
    PROVE  JobsAreRight' /\ RowsAreRight'
  <1> USE DEF index, ledger
  <1>1. /\ UNCHANGED <<files, noticed, queue, app, missed>>
        /\ scan # Nothing /\ scan \in Scans /\ scan.at \in Paths
    BY DEF ScanFile, IndexInv, IndexTypeOK
  <1>2. PICK p \in Paths : p = scan.at
    BY <1>1
  <1>3. ASSUME ScanIsRight
        PROVE  scan' # Nothing /\ ScanIsRight'
    <2>1. scan' \in Scans
      BY ScanFileTypes DEF IndexInv
    <2>2. scan'.at = p + 1
      BY <1>1, <1>2 DEF ScanFile, Scans
    <2>3. \A q \in Paths : q < p + 1 <=> (q < p \/ q = p)
      BY DEF Paths
    <2>4. \A i : Holders(i)' = Holders(i)
      BY <1>1, SameFiles
    <2>5. \A i \in Ids : Read(i)' <=> (Read(i) \/ p \in Holders(i))
      BY <1>2, <2>2, <2>3, <2>4, HoldersAre DEF Read
    <2>6. scan' # Nothing
      BY <2>1, NothingAssumption
    <2>7. CASE files[p] \notin NoteFiles
      <3>1. scan'.seen = scan.seen /\ scan'.parsed = scan.parsed /\ rows' = rows
        BY <1>1, <1>2, <2>7 DEF ScanFile, Scans
      <3>2. \A i \in Ids : p \notin Holders(i)
        BY <2>7, HoldersAre
      <3>3. scan'.seen = {i \in Ids : Read(i)'}
        BY <1>3, <2>5, <3>1, <3>2 DEF ScanIsRight
      <3>4. scan'.parsed = {q \in Paths : q < p + 1 /\ files[q] \in NoteFiles}
        BY <1>2, <1>3, <2>3, <2>7, <3>1 DEF ScanIsRight
      <3>5. \A i \in scan'.seen : RowMatches(i)'
        BY <1>1, <1>3, <3>1, SameFiles DEF ScanIsRight
      <3> QED
        BY <1>1, <2>2, <2>6, <3>3, <3>4, <3>5 DEF ScanIsRight
    <2>8. CASE files[p] \in NoteFiles
      <3>1. PICK i \in Ids : i = files[p].id
        BY <2>8 DEF NoteFiles
      <3>2. PICK row : row = [path |-> p, ver |-> files[p].ver]
        OBVIOUS
      <3>3. p \in Holders(i) /\ \A j \in Ids : p \in Holders(j) => j = i
        BY <2>8, <3>1, HoldersAre
      <3>4. /\ scan'.seen = scan.seen \cup {i} /\ scan'.parsed = scan.parsed \cup {p}
            /\ \/ (i \in scan.seen \/ rows[i] = row) /\ rows' = rows
               \/ ~(i \in scan.seen \/ rows[i] = row) /\ rows' = [rows EXCEPT ![i] = row]
        BY <1>1, <1>2, <2>8, <3>1, <3>2 DEF ScanFile, Scans
      <3>5. scan'.seen = {j \in Ids : Read(j)'}
        BY <1>3, <2>5, <3>3, <3>4 DEF ScanIsRight
      <3>6. scan'.parsed = {q \in Paths : q < p + 1 /\ files[q] \in NoteFiles}
        BY <1>2, <1>3, <2>3, <2>8, <3>4 DEF ScanIsRight
      <3>7. rows \in [Ids -> Rows \cup {Nothing}]
        BY DEF IndexInv, IndexTypeOK
      <3>8. ASSUME NEW j \in Ids, j \in scan.seen
            PROVE  RowMatches(j)'
        <4>1. rows'[j] = rows[j] /\ RowMatches(j)
          BY <1>3, <3>4, <3>7, <3>8 DEF ScanIsRight
        <4> QED
          BY <1>1, <4>1, SameFiles
      <3>9. ASSUME i \notin scan.seen
            PROVE  RowMatches(i)'
        <4>1. \A q \in Holders(i) : ~(q < p)
          BY <1>2, <1>3, <3>9 DEF ScanIsRight, Read
        <4>2. \A q \in Holders(i) : p <= q
          BY <4>1, HoldersAre DEF Paths
        <4>3. First(Holders(i)) = p /\ Holders(i) # {}
          BY <3>3, <4>2, FirstIsLeast, HoldersAre
        <4>4. rows'[i] = row
          BY <3>4, <3>7, <3>9
        <4> QED
          BY <1>1, <2>4, <3>2, <4>3, <4>4 DEF RowMatches
      <3>10. \A j \in scan'.seen : RowMatches(j)'
        <4>1. scan'.seen \subseteq Ids
          BY <3>5
        <4> QED
          BY <3>4, <3>8, <3>9, <4>1
      <3> QED
        BY <1>1, <2>2, <2>6, <3>5, <3>6, <3>10 DEF ScanIsRight
    <2> QED
      BY <2>6, <2>7, <2>8
  <1> QED
    BY <1>1, <1>3, PassingIndex

\* A pass that reached the end has seen every note, and sweeps what it did not see.
LEMMA EndPassIndex ==
    ASSUME IndexInv, EndPass
    PROVE  JobsAreRight' /\ RowsAreRight'
  <1> USE DEF index, ledger
  <1>1. /\ UNCHANGED <<files, noticed, queue, app, missed>>
        /\ scan # Nothing /\ scan \in Scans /\ scan.at \notin Paths /\ scan' = Nothing
        /\ rows' = [i \in Ids |-> IF i \in Swept THEN Nothing ELSE rows[i]]
    BY DEF EndPass, IndexInv, IndexTypeOK
  <1>2. \A p \in Paths : p < scan.at
    BY <1>1, ScanTypes, IndexAssumption DEF Paths
  <1>3. ASSUME ScanIsRight, NEW i \in Ids
        PROVE  RowMatches(i)'
    <2>1. i \in scan.seen <=> Holders(i) # {}
      BY <1>2, <1>3, HoldersAre DEF ScanIsRight, Read
    <2>2. CASE Holders(i) # {}
      <3>1. rows'[i] = rows[i] /\ RowMatches(i)
        BY <1>1, <1>3, <2>1, <2>2 DEF Swept, ScanIsRight
      <3> QED
        BY <1>1, <3>1, SameFiles
    <2>3. CASE Holders(i) = {}
      <3>1. Holders(i)' = {} /\ files' = files
        BY <1>1, <2>3, SameFiles
      <3>2. rows[i] # Nothing => rows[i].path \in Paths
        BY DEF IndexInv, IndexTypeOK, Rows
      <3>3. \A p \in Paths : p \in scan.parsed <=> files[p] \in NoteFiles
        BY <1>2, <1>3 DEF ScanIsRight
      <3>4. \A p \in Paths : files[p] \in NoteFiles \/ files[p] = Nothing \/ files[p] = Torn
        BY DEF IndexInv, IndexTypeOK
      <3>5. rows[i] = Nothing \/ i \in Swept \/ files[rows[i].path] = Torn
        BY <2>1, <2>3, <3>2, <3>3, <3>4 DEF Swept
      <3>6. rows'[i] = Nothing \/ (rows'[i] = rows[i] /\ files[rows[i].path] = Torn)
        BY <1>1, <3>5
      <3>7. rows'[i] = Nothing \/ files[rows'[i].path] = Torn
        BY <3>6
      <3> QED
        BY <3>1, <3>7 DEF RowMatches
    <2> QED
      BY <2>2, <2>3
  <1> QED
    BY <1>1, <1>3, PassingIndex DEF Matches

LEMMA LifeIndex ==
    ASSUME IndexInv, LedgerHears \/ Launch \/ StartWatching \/ Crash \/ FailPass
    PROVE  JobsAreRight' /\ RowsAreRight'
  <1> USE DEF index, ledger
  <1>1. CASE LedgerHears \/ StartWatching
    BY <1>1, QuietIndex DEF LedgerHears, StartWatching, Calm
  <1>2. CASE Launch
    <2>1. /\ queue' = <<ReconcileJob>> /\ Len(queue') = 1 /\ queue'[1] = ReconcileJob
      BY <1>2 DEF Launch
    <2>2. IsPass(queue'[1])
      BY <2>1 DEF IsPass, ReconcileJob
    <2>3. PassAfter(0)'
      BY <2>1, <2>2 DEF PassAfter, IsPass
    <2>4. \A n \in 1..Len(queue') : n = 1
      BY <2>1
    <2>5. \A n \in 1..Len(queue') : RightAt(n)'
      BY <2>2, <2>4 DEF RightAt, Right, IsPass
    <2> QED
      BY <2>3, <2>5 DEF JobsAreRight, RowsAreRight
  <1>3. CASE Crash
    BY <1>3, RestlessRight DEF Crash, Calm
  <1>4. CASE FailPass
    BY <1>4, RestlessRight, QuietIndex DEF FailPass, Calm
  <1> QED
    BY <1>1, <1>2, <1>3, <1>4

\* A change of the vault the watcher holds, or it went unseen.
LEMMA ChangeIndex ==
    ASSUME IndexInv, VaultChanges
    PROVE  JobsAreRight' /\ RowsAreRight'
  <1>1. ~Calm'
    BY ChangeLeaves DEF Notices, Calm, IndexInv, IndexTypeOK
  <1> QED
    BY <1>1, RestlessRight

LEMMA IndexStep == IndexInv /\ [Next]_vars => IndexInv'
  <1> SUFFICES ASSUME IndexInv, [Next]_vars PROVE IndexInv'
    OBVIOUS
  <1>1. IndexTypeOK'
    BY TypeStep DEF IndexInv
  <1>2. CASE UNCHANGED vars
    <2>1. UNCHANGED <<files, queue, rows, scan>> /\ (Calm' => Calm)
      BY <1>2 DEF vars, index, ledger, Calm
    <2> QED
      BY <1>1, <2>1, QuietIndex DEF IndexInv
  <1>3. CASE Working
    BY <1>1, <1>3, OneNoteIndex, NewPassIndex, ScanFileIndex, EndPassIndex DEF Working, IndexInv
  <1>4. CASE VaultChanges \/ Queueing \/ RequestRebuild
    BY <1>1, <1>4, ChangeIndex, QueueingIndex DEF IndexInv
  <1>5. CASE LedgerHears \/ Launch \/ StartWatching \/ Crash \/ FailPass
    BY <1>1, <1>5, LifeIndex DEF IndexInv
  <1> QED
    BY <1>2, <1>3, <1>4, <1>5 DEF Next

\* When the worker has nothing left to do the index is what the files say, whatever
\* was written under a pass or queued behind it, but for a change nothing was left to see.
THEOREM SettledIsCurrent == Spec => []SettledIndexIsCurrent
  <1>1. Init => IndexInv
    BY InitTypes DEF Init, IndexInv, JobsAreRight, RowsAreRight, Calm
  <1>2. IndexInv => SettledIndexIsCurrent
    <2> SUFFICES ASSUME IndexInv, Settled, ~missed PROVE Matches
      BY DEF SettledIndexIsCurrent
    <2>1. Calm /\ scan = Nothing /\ queue = <<>>
      BY DEF Settled, Calm
    <2>2. ~PassAfter(0)
      BY <2>1, EmptySeq DEF PassAfter
    <2> QED
      BY <2>1, <2>2 DEF IndexInv, RowsAreRight
  <1> QED
    BY <1>1, <1>2, IndexStep, PTL DEF Spec

=============================================================================
