--------------------------- MODULE LedgerReadings ---------------------------
(***************************************************************************)
(* The ledger beside what its notes last said.  The index worker hands a   *)
(* note's lines over every time it re-reads the note; two history          *)
(* variables remember the last reading, so that what a sync concludes from *)
(* two readings can be compared with the readings themselves.  They are    *)
(* never read by an action.                                                *)
(***************************************************************************)
EXTENDS Ledger

VARIABLES
    seen,     \* the lines of each note at its last sync
    owed,     \* those among them that sync had to track
    resync    \* <<note, page>> if nothing happened since that sync

readingVars == <<seen, owed, resync>>
vars == <<entry, refs, links, claims, dirty, call, seen, owed, resync>>

Nothing == <<>>

\* The lines of a page that its mode enrolls.
EnrolledLines(p) ==
    {l \in p.asks : Enrolls(EffectiveMode(p), Resolve(LineOwner(l), p.aliases))}

RInit ==
    /\ Init
    /\ seen = [n \in Notes |-> {}]
    /\ owed = [n \in Notes |-> {}]
    /\ resync = Nothing

RSync(n, p) ==
    /\ call = NoCall /\ UNCHANGED call
    /\ Sync(n, p)
    /\ seen' = [seen EXCEPT ![n] = p.lines]
    /\ owed' = [owed EXCEPT ![n] = EnrolledLines(p)]
    /\ resync' = <<n, p>>

RNoteRemoved(n) ==
    /\ call = NoCall /\ UNCHANGED call
    /\ NoteRemoved(n)
    /\ seen' = [seen EXCEPT ![n] = {}]
    /\ owed' = [owed EXCEPT ![n] = {}]
    /\ resync' = Nothing

ROther ==
    /\ \/ /\ call = NoCall /\ UNCHANGED call
          /\ \/ JudgeEntry
             \/ RetroApply
             \/ TrackItem
             \/ \E aliases \in Identities : RetroResolveOwners(aliases)
       \/ call = NoCall /\ BeginCall
       \/ FinishCall
       \/ Halt
    /\ resync' = Nothing
    /\ UNCHANGED <<seen, owed>>

RSnapshotWritten ==
    /\ call = NoCall /\ UNCHANGED call
    /\ \E project \in Projects : SnapshotWritten(project)
    /\ UNCHANGED readingVars

RNext ==
    \/ \E n \in Notes, p \in Pages : RSync(n, p)
    \/ \E n \in Notes : RNoteRemoved(n)
    \/ ROther
    \/ RSnapshotWritten

RSpec == RInit /\ [][RNext]_vars

-----------------------------------------------------------------------------
ReadingsTypeOK ==
    /\ TypeOK
    /\ seen \in [Notes -> SUBSET Lines]
    /\ owed \in [Notes -> SUBSET Lines]
    /\ resync = Nothing \/ resync \in Notes \X Pages

\* A commitment the ledger had to track is on an entry for as long as its note
\* still says it: no flip, judgement, reword or sync of another note loses it.
OwedLinesHeld ==
    \A n \in Notes : \A l \in owed[n] : \E e \in Minted : <<e, l>> \in refs

WritesNothing == UNCHANGED <<entry, refs>> /\ dirty' \subseteq dirty

\* Re-syncing a note nobody touched changes nothing and dirties no project
\* (sync.rs:4-5), if none of its lines say the same words: a line that was
\* ticked when it was read first is linked by the second sync to the entry an
\* identical later line founded in between.
DistinctWords(p) == \A l, k \in p.lines : WordsOf[l] = WordsOf[k] => l = k
ResyncOfDistinctLinesWritesNothing ==
    [][resync # Nothing /\ DistinctWords(resync[2]) /\ resync' = resync
         => WritesNothing]_vars
=============================================================================
