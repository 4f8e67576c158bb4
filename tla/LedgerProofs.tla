---------------------------- MODULE LedgerProofs ----------------------------
(***************************************************************************)
(* The state invariants of Ledger, and what no job of it may do, proved    *)
(* for every value of its constants.                                       *)
(*                                                                         *)
(* Three of the invariants speak of one row at a time, so each way a row   *)
(* is rewritten has a lemma of its own; RowOK is what the rows carry       *)
(* along.  The other two relate rows and refs, and rest on ReconcileStep:  *)
(* what one reconciliation may do to a row, to a ref and to a new id.      *)
(*                                                                         *)
(* Of the steps: each job does no more than JobStep says of the rows it    *)
(* finds and founds; for a reconciliation that is ReconcileMarks, which    *)
(* opens the pass once.  What it leaves behind (AllSettled) is why reading *)
(* the same page again finds nothing to do.                                *)
(*                                                                         *)
(* Then the two modules that extend the ledger: what the readings of the   *)
(* notes are owed (a line a reading asked for is held while its note says  *)
(* it, and reading a note again that nobody touched writes nothing), and   *)
(* what a distill's conversation may do, one commit at a time, with the    *)
(* assistant on a connection of its own and a crash between any two        *)
(* commits.  FInv adds to the ledger's invariant what is known of the pass *)
(* (what it read of an update still holds when it writes: Weighed) and of  *)
(* state and graph (LinksOK): between a call's check and its last commit   *)
(* an entry is as the call found it, unless another call is on it too, and *)
(* then it is remembered in `torn'.                                        *)
(***************************************************************************)
EXTENDS LedgerReadings, LedgerFollowUp, SequenceTheorems, TLAPS

States == LiveStates \cup TerminalStates

\* The tables are well typed.
TablesOK ==
    /\ Minted \subseteq Entries
    /\ entry \in [Minted -> EntryRec]
    /\ refs \subseteq Minted \X Lines
    /\ links \subseteq Minted \X Minted
    /\ claims \subseteq Minted \X Claims
    /\ dirty \subseteq Projects

\* What is known of every row.
RowOK(r) ==
    /\ r \in EntryRec
    /\ ColumnsFit(r)
    /\ PromotionHolds(r)
    /\ DirectionFits(r)

RowsOK == \A e \in Minted : RowOK(entry[e])

\* A page as the worker reads it, or the empty page of a removed note.
Readable(n, p) ==
    /\ p.lines \subseteq Lines
    /\ \A l \in p.lines : NoteOf[l] = n
    /\ p.project \in Projects \cup {NoProject}
    /\ p.lines # {} => p.project \in Projects /\ p.date \in Dates

\* The four things one reconciliation does: to a row that was there, to a row
\* it mints, to the stale projects and to the refs of the note.
RowStep(p, e) ==
    \E b \in {entry[e]} \cup {Reworded(entry[e], l, p.aliases) : l \in Lines} :
      \E f \in {b} \cup {[b EXCEPT !.project = project] : project \in Projects} :
          \/ entry'[e] = f
          \/ IsLive(e) /\ entry'[e] = Parked(f)
          \/ IsLive(e) /\ \E date \in Dates : entry'[e] = Heard(f, date)

MintStep(p, e) ==
    /\ p.project \in Projects
    /\ p.date \in Dates
    /\ \E w \in Words :
          entry'[e] = OpenEntry(w, Resolve(OwnerOf[w], p.aliases), p.project,
                                p.date, EnrolledBy(p))

MarkStep(project) ==
    \/ project \in dirty
    \/ \E e \in Minted : project = entry[e].project
    \/ \E e \in Minted' : project = entry'[e].project

RefStep(n, p, r) ==
    /\ r \in Minted' \X p.lines
    /\ \/ r[1] \notin Minted
       \/ IsLive(r[1])
       \/ \E l \in LinesOf(r[1]) : NoteOf[l] = n

-----------------------------------------------------------------------------
(* Rows.                                                                   *)

\* A move keeps a row well formed when the columns it writes fit the new state.
Move(r, to, closedVia, untrackedVia) ==
    [r EXCEPT !.state = to, !.closedVia = closedVia, !.untrackedVia = untrackedVia,
              !.snoozedUntil = (to = "snoozed"), !.reviewReason = "none"]

MoveFits(r, to, closedVia, untrackedVia) ==
    /\ to \in States
    /\ closedVia \in {"none", "manual", "conversation"}
    /\ untrackedVia \in MachineSources \cup {"none", "manual"}
    /\ to = "closed" <=> closedVia # "none"
    /\ to = "untracked" <=> untrackedVia # "none"
    /\ untrackedVia \in MachineSources => r.enrolledVia # "manual"

LEMMA MoveRowOK ==
    ASSUME NEW r, RowOK(r), NEW to, NEW closedVia, NEW untrackedVia,
           MoveFits(r, to, closedVia, untrackedVia)
    PROVE  /\ RowOK(Move(r, to, closedVia, untrackedVia))
           /\ Move(r, to, closedVia, untrackedVia).untrackedVia = untrackedVia
  <1> DEFINE q == Move(r, to, closedVia, untrackedVia)
  <1>1. r \in EntryRec
    BY DEF RowOK
  <1>2. q \in EntryRec
    <2> DEFINE Closings == {"none", "manual", "conversation"}
               Untrackings == MachineSources \cup {"none", "manual"}
               Reasons == {"none", "line_removed", "reported_done"}
               Directions == {"mine", "theirs", "unassigned"}
               Enrolments == MachineSources \cup {"default", "manual"}
    <2>1. /\ to \in States
          /\ closedVia \in Closings
          /\ untrackedVia \in Untrackings
          /\ (to = "snoozed") \in BOOLEAN
          /\ "none" \in Reasons
      BY DEF MoveFits
    <2>2. EntryRec = [state : States, closedVia : Closings, untrackedVia : Untrackings,
                      snoozedUntil : BOOLEAN, reviewReason : Reasons,
                      direction : Directions, touched : BOOLEAN,
                      enrolledVia : Enrolments, words : Words, project : Projects,
                      mention : Dates]
      BY DEF EntryRec, States
    <2> HIDE DEF Closings, Untrackings, Reasons, Directions, Enrolments
    <2>3. QED
      BY <1>1, <2>1, <2>2 DEF Move
  <1>3. /\ q.state = to
        /\ q.closedVia = closedVia
        /\ q.untrackedVia = untrackedVia
        /\ q.snoozedUntil = (to = "snoozed")
        /\ q.reviewReason = "none"
        /\ q.direction = r.direction
        /\ q.touched = r.touched
        /\ q.enrolledVia = r.enrolledVia
        /\ q.words = r.words
    BY <1>1 DEF EntryRec, Move
  <1> HIDE DEF q
  <1>4. ColumnsFit(q)
    BY <1>3 DEF ColumnsFit, MoveFits
  <1>5. PromotionHolds(q) /\ DirectionFits(q)
    BY <1>3 DEF RowOK, PromotionHolds, DirectionFits, MoveFits
  <1>6. QED
    BY <1>2, <1>3, <1>4, <1>5 DEF RowOK, q

\* So does a person's or a machine's move, whichever it is.
LEMMA MovesRowOK ==
    ASSUME NEW r, RowOK(r)
    PROVE  /\ RowOK(AsOpen(r)) /\ AsOpen(r).untrackedVia = "none"
           /\ RowOK(Moved(r, "waived")) /\ Moved(r, "waived").untrackedVia = "none"
           /\ RowOK(AsSnoozed(r)) /\ AsSnoozed(r).untrackedVia = "none"
           /\ \A via \in {"manual", "conversation"} :
                 RowOK(AsClosed(r, via)) /\ AsClosed(r, via).untrackedVia = "none"
           /\ \A via \in MachineSources \cup {"manual"} :
                 (via \in MachineSources => r.enrolledVia # "manual") =>
                    RowOK(AsUntracked(r, via)) /\ AsUntracked(r, via).untrackedVia = via
  <1>1. r \in EntryRec
    BY DEF RowOK
  <1>2. /\ AsOpen(r) = Move(r, "open", "none", "none")
        /\ Moved(r, "waived") = Move(r, "waived", "none", "none")
        /\ AsSnoozed(r) = Move(r, "snoozed", "none", "none")
        /\ \A via : AsClosed(r, via) = Move(r, "closed", via, "none")
        /\ \A via : AsUntracked(r, via) = Move(r, "untracked", "none", via)
    BY <1>1 DEF EntryRec, AsOpen, Moved, AsSnoozed, AsClosed, AsUntracked, Move
  <1>3. /\ MoveFits(r, "open", "none", "none")
        /\ MoveFits(r, "waived", "none", "none")
        /\ MoveFits(r, "snoozed", "none", "none")
    BY DEF MoveFits, States, LiveStates, TerminalStates, MachineSources
  <1>4. \A via \in {"manual", "conversation"} : MoveFits(r, "closed", via, "none")
    BY DEF MoveFits, States, LiveStates, TerminalStates, MachineSources
  <1>5. \A via \in MachineSources \cup {"manual"} :
           (via \in MachineSources => r.enrolledVia # "manual") =>
              MoveFits(r, "untracked", "none", via)
    BY DEF MoveFits, States, LiveStates, TerminalStates, MachineSources
  <1>6. /\ RowOK(AsOpen(r)) /\ AsOpen(r).untrackedVia = "none"
        /\ RowOK(Moved(r, "waived")) /\ Moved(r, "waived").untrackedVia = "none"
        /\ RowOK(AsSnoozed(r)) /\ AsSnoozed(r).untrackedVia = "none"
    BY <1>2, <1>3, MoveRowOK
  <1>7. \A via \in {"manual", "conversation"} :
           RowOK(AsClosed(r, via)) /\ AsClosed(r, via).untrackedVia = "none"
    BY <1>2, <1>4, MoveRowOK
  <1>8. ASSUME NEW via \in MachineSources \cup {"manual"},
               via \in MachineSources => r.enrolledVia # "manual"
        PROVE  RowOK(AsUntracked(r, via)) /\ AsUntracked(r, via).untrackedVia = via
    BY <1>2, <1>5, <1>8, MoveRowOK
  <1>9. QED
    BY <1>6, <1>7, <1>8

\* A row that differs from a good one in columns no constraint ties to the
\* state is judged by those columns alone.
LEMMA SameStateRowOK ==
    ASSUME NEW r, RowOK(r), NEW q \in EntryRec,
           \A f \in {"state", "closedVia", "untrackedVia", "snoozedUntil", "reviewReason"} :
              q[f] = r[f],
           PromotionHolds(q), DirectionFits(q)
    PROVE  RowOK(q) /\ q.untrackedVia = r.untrackedVia
  BY DEF RowOK, ColumnsFit

\* What apply_mutation adds to each: the row is a person's from now on.
LEMMA TouchedRowOK ==
    ASSUME NEW r, RowOK(r)
    PROVE  RowOK(AsTouched(r)) /\ AsTouched(r).untrackedVia = r.untrackedVia
  <1> DEFINE q == AsTouched(r)
  <1>1. r \in EntryRec
    BY DEF RowOK
  <1>2. q \in EntryRec
    BY <1>1 DEF EntryRec, AsTouched
  <1>3. /\ q.touched = TRUE
        /\ \A f \in {"state", "closedVia", "untrackedVia", "snoozedUntil", "reviewReason",
                     "direction", "enrolledVia", "words"} : q[f] = r[f]
    BY <1>1 DEF EntryRec, AsTouched
  <1> HIDE DEF q
  <1>4. PromotionHolds(q) /\ DirectionFits(q)
    BY <1>3 DEF RowOK, PromotionHolds, DirectionFits
  <1>5. RowOK(q) /\ q.untrackedVia = r.untrackedVia
    BY <1>2, <1>3, <1>4, SameStateRowOK
  <1>6. QED
    BY <1>5 DEF q

LEMMA PromotedRowOK ==
    ASSUME NEW r, RowOK(r), r.untrackedVia = "none"
    PROVE  LET q == AsTouched([r EXCEPT !.enrolledVia = "manual"])
           IN  RowOK(q) /\ q.untrackedVia = "none"
  <1> DEFINE q == AsTouched([r EXCEPT !.enrolledVia = "manual"])
  <1>1. r \in EntryRec
    BY DEF RowOK
  <1>2. q \in EntryRec
    BY <1>1 DEF EntryRec, AsTouched
  <1>3. /\ q.touched = TRUE
        /\ \A f \in {"state", "closedVia", "untrackedVia", "snoozedUntil", "reviewReason",
                     "direction", "words"} : q[f] = r[f]
    BY <1>1 DEF EntryRec, AsTouched
  <1> HIDE DEF q
  <1>4. PromotionHolds(q) /\ DirectionFits(q)
    BY <1>3 DEF RowOK, PromotionHolds, DirectionFits, MachineSources
  <1>5. RowOK(q) /\ q.untrackedVia = "none"
    BY <1>2, <1>3, <1>4, SameStateRowOK
  <1>6. QED
    BY <1>5 DEF q

LEMMA ClaimedRowOK ==
    ASSUME NEW r, RowOK(r)
    PROVE  LET q == AsTouched([r EXCEPT !.direction = "mine"])
           IN  RowOK(q) /\ q.untrackedVia = r.untrackedVia
  <1> DEFINE q == AsTouched([r EXCEPT !.direction = "mine"])
  <1>1. r \in EntryRec
    BY DEF RowOK
  <1>2. q \in EntryRec
    BY <1>1 DEF EntryRec, AsTouched
  <1>3. /\ q.touched = TRUE
        /\ q.direction = "mine"
        /\ \A f \in {"state", "closedVia", "untrackedVia", "snoozedUntil", "reviewReason",
                     "enrolledVia", "words"} : q[f] = r[f]
    BY <1>1 DEF EntryRec, AsTouched
  <1> HIDE DEF q
  <1>4. PromotionHolds(q) /\ DirectionFits(q)
    BY <1>3 DEF RowOK, PromotionHolds, DirectionFits
  <1>5. RowOK(q) /\ q.untrackedVia = r.untrackedVia
    BY <1>2, <1>3, <1>4, SameStateRowOK
  <1>6. QED
    BY <1>5 DEF q

\* So does each way a machine rewrites a row without moving it.
LEMMA ResolvedRowOK ==
    ASSUME NEW r, RowOK(r), r.direction = "theirs"
    PROVE  LET q == [r EXCEPT !.direction = "mine"]
           IN  RowOK(q) /\ q.untrackedVia = r.untrackedVia
  BY DEF RowOK, EntryRec, ColumnsFit, PromotionHolds, DirectionFits

\* Resolving an owner gives a direction that fits it.
LEMMA ResolveFits ==
    ASSUME NEW owner, NEW aliases
    PROVE  /\ Resolve(owner, aliases) \in {"mine", "theirs", "unassigned"}
           /\ Resolve(owner, aliases) = "unassigned" => owner = Unassigned
           /\ Resolve(owner, aliases) = "theirs" => owner \notin {You, Unassigned}
           /\ Resolve(owner, aliases) = "mine" => owner # Unassigned
  BY OwnersAssumption DEF Resolve

LEMMA RewordedRowOK ==
    ASSUME NEW r, RowOK(r), NEW l \in Lines, NEW aliases
    PROVE  /\ RowOK(Reworded(r, l, aliases))
           /\ Reworded(r, l, aliases).state = r.state
           /\ Reworded(r, l, aliases).untrackedVia = r.untrackedVia
  <1> DEFINE d == IF r.touched /\ r.direction = "mine" THEN "mine"
                  ELSE Resolve(LineOwner(l), aliases)
             w == WordsOf[l]
             x == [r EXCEPT !.words = w, !.direction = d]
  <1>1. w \in Words
    BY LinesAssumption
  <1>2. /\ d \in {"mine", "theirs", "unassigned"}
        /\ d = "unassigned" => OwnerOf[w] = Unassigned
        /\ d = "theirs" => OwnerOf[w] \notin {You, Unassigned}
        /\ d = "mine" => OwnerOf[w] # Unassigned \/ r.touched
    BY ResolveFits DEF LineOwner
  <1>3. Reworded(r, l, aliases) = x
    BY DEF Reworded
  <1> HIDE DEF d, w
  <1>4. x \in EntryRec
    BY <1>1, <1>2 DEF RowOK, EntryRec
  <1>5. ColumnsFit(x) /\ PromotionHolds(x)
    BY DEF RowOK, EntryRec, ColumnsFit, PromotionHolds
  <1>6. DirectionFits(x)
    BY <1>2 DEF RowOK, EntryRec, DirectionFits
  <1>7. x.state = r.state /\ x.untrackedVia = r.untrackedVia
    BY DEF RowOK, EntryRec
  <1>8. QED
    BY <1>3, <1>4, <1>5, <1>6, <1>7 DEF RowOK

LEMMA FiledRowOK ==
    ASSUME NEW r, RowOK(r), NEW project \in Projects
    PROVE  RowOK([r EXCEPT !.project = project])
  BY DEF RowOK, EntryRec, ColumnsFit, PromotionHolds, DirectionFits

LEMMA HeardRowOK ==
    ASSUME NEW r, RowOK(r), NEW date \in Dates
    PROVE  RowOK(Heard(r, date)) /\ Heard(r, date).untrackedVia = r.untrackedVia
  <1> DEFINE dated == [r EXCEPT !.mention = IF date > @ THEN date ELSE @]
             q == [dated EXCEPT !.state = "open", !.reviewReason = "none"]
  <1>1. r \in EntryRec
    BY DEF RowOK
  <1>2. dated \in EntryRec
    BY <1>1 DEF EntryRec
  <1>3. \A f \in {"state", "closedVia", "untrackedVia", "snoozedUntil", "reviewReason",
                  "direction", "touched", "enrolledVia", "words"} : dated[f] = r[f]
    BY <1>1 DEF EntryRec
  <1>4. Heard(r, date) = IF r.state = "needs_review" THEN q ELSE dated
    BY DEF Heard
  <1> HIDE DEF dated
  <1>5. RowOK(dated) /\ dated.untrackedVia = r.untrackedVia
    <2>1. PromotionHolds(dated) /\ DirectionFits(dated)
      BY <1>3 DEF RowOK, PromotionHolds, DirectionFits
    <2>2. QED
      BY <1>2, <1>3, <2>1, SameStateRowOK
  <1>6. q \in EntryRec
    BY <1>2 DEF EntryRec, LiveStates
  <1>7. /\ q.state = "open"
        /\ q.reviewReason = "none"
        /\ \A f \in {"closedVia", "untrackedVia", "snoozedUntil",
                     "direction", "touched", "enrolledVia", "words"} : q[f] = dated[f]
    BY <1>2 DEF EntryRec
  <1> HIDE DEF q
  <1>8. r.state = "needs_review" => RowOK(q) /\ q.untrackedVia = r.untrackedVia
    BY <1>3, <1>5, <1>6, <1>7 DEF RowOK, ColumnsFit, PromotionHolds, DirectionFits
  <1>9. QED
    BY <1>4, <1>5, <1>8

LEMMA ParkedRowOK ==
    ASSUME NEW r, RowOK(r), r.state \in LiveStates
    PROVE  RowOK(Parked(r)) /\ Parked(r).untrackedVia = r.untrackedVia
  <1> USE DEF LiveStates, TerminalStates, MachineSources
  <1> DEFINE q == Parked(r)
  <1>1. r \in EntryRec /\ ColumnsFit(r) /\ PromotionHolds(r) /\ DirectionFits(r)
    BY DEF RowOK
  <1>2. q \in EntryRec
    BY <1>1 DEF Parked, EntryRec
  <1>3. /\ q.closedVia = r.closedVia /\ q.untrackedVia = r.untrackedVia
        /\ q.snoozedUntil = FALSE /\ q.state = "needs_review"
        /\ q.reviewReason = "line_removed" /\ q.direction = r.direction
        /\ q.touched = r.touched /\ q.enrolledVia = r.enrolledVia /\ q.words = r.words
    BY <1>1 DEF Parked, EntryRec
  <1> HIDE DEF q
  <1>4. RowOK(q)
    BY <1>1, <1>2, <1>3 DEF RowOK, ColumnsFit, PromotionHolds, DirectionFits
  <1> QED
    BY <1>3, <1>4 DEF q

\* A row minted by ingest, or by a person's promote.
LEMMA OpenEntryRowOK ==
    ASSUME NEW w \in Words, NEW d \in {"mine", "theirs", "unassigned"},
           d = "unassigned" => OwnerOf[w] = Unassigned,
           d = "theirs" => OwnerOf[w] \notin {You, Unassigned},
           d = "mine" => OwnerOf[w] # Unassigned,
           NEW project \in Projects, NEW date \in Dates,
           NEW via \in MachineSources \cup {"default", "manual"}
    PROVE  /\ via # "manual" => RowOK(OpenEntry(w, d, project, date, via))
           /\ RowOK(AsTouched(OpenEntry(w, d, project, date, via)))
  BY DEF RowOK, EntryRec, ColumnsFit, PromotionHolds, DirectionFits, OpenEntry,
         AsTouched, LiveStates, TerminalStates, MachineSources

LEMMA MintStepOK ==
    ASSUME NEW p, NEW e, MintStep(p, e)
    PROVE  RowOK(entry'[e]) /\ entry'[e].untrackedVia = "none"
  <1>1. PICK w \in Words :
           entry'[e] = OpenEntry(w, Resolve(OwnerOf[w], p.aliases), p.project,
                                 p.date, EnrolledBy(p))
    BY DEF MintStep
  <1>2. /\ EnrolledBy(p) \in MachineSources \cup {"default", "manual"}
        /\ EnrolledBy(p) # "manual"
    BY DEF EnrolledBy, MachineSources
  <1>3. p.project \in Projects /\ p.date \in Dates
    BY DEF MintStep
  <1> DEFINE d == Resolve(OwnerOf[w], p.aliases)
             via == EnrolledBy(p)
  <1>4. /\ d \in {"mine", "theirs", "unassigned"}
        /\ d = "unassigned" => OwnerOf[w] = Unassigned
        /\ d = "theirs" => OwnerOf[w] \notin {You, Unassigned}
        /\ d = "mine" => OwnerOf[w] # Unassigned
    BY ResolveFits
  <1>5. entry'[e] = OpenEntry(w, d, p.project, p.date, via)
    BY <1>1
  <1>6. entry'[e].untrackedVia = "none"
    BY <1>5 DEF OpenEntry
  <1> HIDE DEF d, via
  <1>7. RowOK(OpenEntry(w, d, p.project, p.date, via))
    BY <1>2, <1>3, <1>4, OpenEntryRowOK DEF via
  <1>8. QED
    BY <1>5, <1>6, <1>7

-----------------------------------------------------------------------------
(* One reconciliation.                                                     *)

\* Swaps pair a line that went with a line that came, each at most once.
LEMMA SwapsPair ==
    ASSUME NEW gone, NEW fresh
    PROVE  /\ Swaps(gone, fresh) \subseteq gone \X fresh
           /\ \A s, t \in Swaps(gone, fresh) : s[2] = t[2] => s[1] = t[1]
  <1> DEFINE O == OwnerSwaps(gone, fresh)
             N == NoteSwaps(gone \ {s[1] : s \in O}, fresh \ {s[2] : s \in O})
  <1>1. O \subseteq gone \X fresh /\ \A s, t \in O : s[2] = t[2] => s[1] = t[1]
    BY DEF OwnerSwaps
  <1>2. /\ N \subseteq gone \X fresh
        /\ \A s, t \in N : s[1] = t[1]
        /\ \A s \in O, t \in N : s[2] # t[2]
    BY DEF NoteSwaps
  <1>3. Swaps(gone, fresh) = O \cup N
    BY DEF Swaps
  <1> HIDE DEF O, N
  <1>4. QED
    BY <1>1, <1>2, <1>3

\* What becomes of the rows, for any swaps, restatements and new words.
LEMMA RewriteStep ==
    ASSUME TablesOK, NEW n, NEW p, Readable(n, p),
           NEW swaps \in SUBSET (refs \X p.lines),
           NEW mentioned \in SUBSET {e \in Minted : IsLive(e)},
           NEW newWords \in SUBSET Words,
           NEW mint \in [newWords -> Entries \ Minted],
           mentioned # {} \/ newWords # {} => p.lines # {},
           Rewrite(n, p, swaps, mentioned, mint)
    PROVE  /\ Minted' = Minted \cup Image(mint)
           /\ entry' = [e \in Minted' |-> entry'[e]]
           /\ \A e \in Minted : RowStep(p, e)
           /\ \A e \in Image(mint) : MintStep(p, e)
           /\ \A project \in dirty' : MarkStep(project)
  <1> DEFINE book == AfterSwaps(swaps, p.aliases)
             retired == {r[1] : r \in Gone(n, p) \ {s[1] : s \in swaps}}
             moving == {r[1] : r \in Kept(n, p)} \cup {s[1][1] : s \in swaps} \cup mentioned
             orphaned == {e \in retired : ~IsTerminal(e) /\ \A r \in refs' : r[1] # e}
             filed(e) == IF e \in moving /\ Follows(entry[e], p)
                         THEN [book[e] EXCEPT !.project = p.project]
                         ELSE book[e]
             minted(w) == OpenEntry(w, Resolve(OwnerOf[w], p.aliases),
                                    p.project, p.date, EnrolledBy(p))
  <1>1. entry' = [e \in Minted \cup Image(mint) |->
                    IF e \in Image(mint) THEN minted(CHOOSE w \in DOMAIN mint : mint[w] = e)
                    ELSE IF e \in mentioned THEN Heard(filed(e), p.date)
                    ELSE IF e \in orphaned THEN Parked(filed(e))
                    ELSE filed(e)]
    BY DEF Rewrite
  <1>2. Image(mint) \cap Minted = {}
    BY DEF Image
  <1>3. ASSUME NEW e \in Minted
        PROVE  RowStep(p, e)
    <2>1. book[e] \in {entry[e]} \cup {Reworded(entry[e], l, p.aliases) : l \in Lines}
      <3>1. CASE \E s \in swaps : s[1][1] = e
        <4>1. PICK s \in swaps : s = CHOOSE t \in swaps : t[1][1] = e
          BY <3>1
        <4>2. s[2] \in Lines
          BY DEF Readable
        <4>3. book[e] = Reworded(entry[e], s[2], p.aliases)
          BY <3>1, <4>1 DEF AfterSwaps
        <4>4. QED
          BY <4>2, <4>3
      <3>2. CASE ~\E s \in swaps : s[1][1] = e
        BY <3>2 DEF AfterSwaps
      <3>3. QED
        BY <3>1, <3>2
    <2>2. \/ filed(e) = book[e]
          \/ p.project \in Projects /\ filed(e) = [book[e] EXCEPT !.project = p.project]
      BY DEF Follows, Readable
    <2>3. \/ entry'[e] = filed(e)
          \/ IsLive(e) /\ entry'[e] = Parked(filed(e))
          \/ IsLive(e) /\ p.date \in Dates /\ entry'[e] = Heard(filed(e), p.date)
      <3>1. entry'[e] = IF e \in mentioned THEN Heard(filed(e), p.date)
                        ELSE IF e \in orphaned THEN Parked(filed(e))
                        ELSE filed(e)
        BY <1>1, <1>2
      <3>2. ~IsTerminal(e) => IsLive(e)
        BY DEF TablesOK, EntryRec, IsTerminal, IsLive
      <3>3. e \in mentioned => IsLive(e) /\ p.date \in Dates
        BY DEF Readable
      <3> HIDE DEF filed
      <3>4. QED
        BY <3>1, <3>2, <3>3
    <2> HIDE DEF book, filed
    <2>4. QED
      BY <2>1, <2>2, <2>3 DEF RowStep
  <1>4. ASSUME NEW e \in Image(mint)
        PROVE  MintStep(p, e)
    <2>1. PICK w \in newWords : w = CHOOSE v \in DOMAIN mint : mint[v] = e
      BY DEF Image
    <2>2. entry'[e] = minted(w)
      BY <1>1, <2>1
    <2>3. p.project \in Projects /\ p.date \in Dates
      BY <2>1 DEF Readable
    <2>4. QED
      BY <2>2, <2>3 DEF MintStep
  <1>5. ASSUME NEW project \in dirty'
        PROVE  MarkStep(project)
    <2> DEFINE rewritten == {s[1][1] : s \in swaps} \cup mentioned \cup retired \cup Image(mint)
                              \cup {e \in moving : filed(e).project # entry[e].project}
    <2>1. /\ retired \subseteq Minted
          /\ moving \subseteq Minted
          /\ {s[1][1] : s \in swaps} \subseteq Minted
      BY DEF Gone, Kept, TablesOK
    <2>2. rewritten \subseteq Minted' /\ Minted' = Minted \cup Image(mint)
      BY <1>1, <2>1 DEF Minted
    <2>3. dirty' = dirty \cup Homes(rewritten, entry')
      BY <1>1 DEF Rewrite, MarkDirty
    <2> HIDE DEF rewritten
    <2>4. QED
      BY <2>2, <2>3 DEF Homes, MarkStep
  <1>6. QED
    BY <1>1, <1>3, <1>4, <1>5 DEF Minted

\* What a reconciliation does, for any page the worker can read and any hints.
LEMMA ReconcileStep ==
    ASSUME TablesOK, NEW n, NEW p, Readable(n, p), NEW hints, Reconcile(n, p, hints)
    PROVE  /\ Minted \subseteq Minted' /\ Minted' \subseteq Entries
           /\ \A e \in Minted : RowStep(p, e)
           /\ \A e \in Minted' \ Minted : MintStep(p, e)
           /\ \A project \in dirty' : MarkStep(project)
           /\ \A r \in refs' \ refs : RefStep(n, p, r)
           /\ OneHolderPerLine => OneHolderPerLine'
           /\ entry' = [e \in Minted' |-> entry'[e]]
           /\ links' = links /\ claims' = claims
  <1> DEFINE swaps == PageSwaps(n, p)
             unpaired == Unpaired(n, p)
             book == AfterSwaps(swaps, p.aliases)
             hinted == Hinted(unpaired, hints)
             matched == {l \in unpaired \ hinted : LiveMatches(book, WordsOf[l]) # {}}
             founders == Founders(unpaired \ hinted, p)
             newWords == NewWords(book, founders)
             founded == {l \in unpaired \ (hinted \cup matched) :
                            \E k \in founders : WordsOf[k] = WordsOf[l] /\ k <= l}
  <1>1. PICK mint \in [newWords -> Entries \ Minted], match \in [matched -> Minted] :
          /\ \A l \in matched :
                match[l] \in NewestMatches(book, hints, p.date, WordsOf[l])
          /\ refs' = (refs \ Gone(n, p))
                       \cup {<<s[1][1], s[2]>> : s \in swaps}
                       \cup {<<hints[l], l>> : l \in hinted}
                       \cup {<<match[l], l>> : l \in matched}
                       \cup {<<mint[WordsOf[l]], l>> : l \in founded}
          /\ Rewrite(n, p, swaps, Image(match) \cup {hints[l] : l \in hinted}, mint)
          /\ UNCHANGED <<links, claims>>
    BY DEF Reconcile
  <1>2. /\ unpaired \subseteq p.lines
        /\ swaps \subseteq Gone(n, p) \X Fresh(p)
        /\ \A s, t \in swaps : s[2] = t[2] => s[1] = t[1]
        /\ \A s \in swaps : s[2] \notin unpaired
    <2>1. Fresh(p) \subseteq p.lines
      BY DEF Fresh
    <2>2. unpaired = Fresh(p) \ {s[2] : s \in swaps}
      BY DEF Unpaired
    <2>3. /\ swaps \subseteq Gone(n, p) \X Fresh(p)
          /\ \A s, t \in swaps : s[2] = t[2] => s[1] = t[1]
      BY SwapsPair DEF PageSwaps
    <2> HIDE DEF swaps, unpaired
    <2>4. QED
      BY <2>1, <2>2, <2>3
  <1>3. /\ hinted \subseteq unpaired
        /\ \A l \in hinted : hints[l] \in Minted /\ IsLive(hints[l])
    BY DEF Hinted
  <1>4. \A l \in matched : match[l] \in Minted /\ IsLive(match[l])
    BY <1>1 DEF NewestMatches, LiveMatches
  <1>5. \A l \in founded : WordsOf[l] \in newWords
    BY DEF NewWords
  <1>6. newWords \subseteq Words /\ (newWords # {} => p.lines # {})
    BY <1>2, LinesAssumption DEF NewWords, Founders, Readable
  <1> DEFINE mentioned == Image(match) \cup {hints[l] : l \in hinted}
  <1>7. mentioned \subseteq {e \in Minted : IsLive(e)} /\ (mentioned # {} => p.lines # {})
    BY <1>2, <1>3, <1>4 DEF Image
  <1>8. swaps \subseteq refs \X p.lines
    BY <1>2 DEF Gone, Fresh
  <1> HIDE DEF swaps, unpaired, book, hinted, matched, founders, newWords, founded, mentioned
  <1>9. Rewrite(n, p, swaps, mentioned, mint)
    BY <1>1 DEF mentioned
  <1>10. /\ Minted' = Minted \cup Image(mint)
         /\ entry' = [e \in Minted' |-> entry'[e]]
         /\ \A e \in Minted : RowStep(p, e)
         /\ \A e \in Image(mint) : MintStep(p, e)
         /\ \A project \in dirty' : MarkStep(project)
    BY <1>6, <1>7, <1>8, <1>9, RewriteStep
  <1>11. /\ \A s \in swaps : s[1] \in refs /\ NoteOf[s[1][2]] = n
         /\ \A x \in refs : x[2] \notin Fresh(p)
         /\ unpaired \subseteq Fresh(p)
         /\ matched \subseteq unpaired \ hinted
         /\ founded \subseteq unpaired \ (hinted \cup matched)
    BY <1>2 DEF Gone, Fresh, Unpaired, unpaired, matched, founded
  <1>12. \A l \in founded : mint[WordsOf[l]] \in Image(mint)
    BY <1>5 DEF Image
  <1>13. ASSUME NEW r \in refs', r \notin refs
         PROVE  RefStep(n, p, r)
    <2>1. CASE \E s \in swaps : r = <<s[1][1], s[2]>>
      <3>1. PICK s \in swaps : r = <<s[1][1], s[2]>>
        BY <2>1
      <3>2. s[1] \in refs /\ s[1] = <<s[1][1], s[1][2]>> /\ s[2] \in p.lines
        BY <1>8 DEF TablesOK
      <3>3. s[1][1] \in Minted /\ s[1][2] \in LinesOf(s[1][1]) /\ NoteOf[s[1][2]] = n
        BY <1>11, <3>2 DEF TablesOK, LinesOf
      <3>4. QED
        BY <1>10, <3>1, <3>2, <3>3 DEF RefStep
    <2>2. CASE \E l \in hinted : r = <<hints[l], l>>
      BY <1>2, <1>3, <1>10, <2>2 DEF RefStep
    <2>3. CASE \E l \in matched : r = <<match[l], l>>
      BY <1>2, <1>4, <1>10, <1>11, <2>3 DEF RefStep
    <2>4. CASE \E l \in founded : r = <<mint[WordsOf[l]], l>>
      <3>1. PICK l \in founded : r = <<mint[WordsOf[l]], l>>
        BY <2>4
      <3>2. l \in p.lines
        BY <1>2, <1>11
      <3>3. mint[WordsOf[l]] \in Minted' /\ mint[WordsOf[l]] \notin Minted
        BY <1>5, <1>10, <1>12
      <3>4. QED
        BY <3>1, <3>2, <3>3 DEF RefStep
    <2>5. QED
      BY <1>1, <1>13, <2>1, <2>2, <2>3, <2>4
  <1>14. ASSUME NEW x \in refs'
         PROVE  /\ x[2] \notin Fresh(p) => x \in refs
                /\ x[2] \in hinted => x = <<hints[x[2]], x[2]>>
                /\ x[2] \in matched => x = <<match[x[2]], x[2]>>
                /\ x[2] \in founded => x = <<mint[WordsOf[x[2]]], x[2]>>
                /\ x[2] \in unpaired => x[2] \in hinted \cup matched \cup founded
                /\ x[2] \in Fresh(p) \ unpaired =>
                      \E t \in swaps : x = <<t[1][1], t[2]>>
    <2>1. CASE x \in refs
      BY <1>3, <1>11, <2>1
    <2>2. CASE \E t \in swaps : x = <<t[1][1], t[2]>>
      BY <1>2, <1>3, <1>11, <2>2
    <2>3. CASE \E l \in hinted : x = <<hints[l], l>>
      BY <1>3, <1>11, <2>3
    <2>4. CASE \E l \in matched : x = <<match[l], l>>
      BY <1>3, <1>11, <2>4
    <2>5. CASE \E l \in founded : x = <<mint[WordsOf[l]], l>>
      BY <1>3, <1>11, <2>5
    <2>6. QED
      BY <1>1, <2>1, <2>2, <2>3, <2>4, <2>5
  <1>15. QED
    <2>1. ASSUME OneHolderPerLine, NEW r \in refs', NEW t \in refs', r[2] = t[2]
          PROVE  r = t
      <3>1. CASE r[2] \in unpaired
        BY <1>14, <2>1, <3>1
      <3>2. CASE r[2] \in Fresh(p) \ unpaired
        BY <1>2, <1>14, <2>1, <3>2
      <3>3. CASE r[2] \notin Fresh(p)
        BY <1>14, <2>1, <3>3 DEF OneHolderPerLine
      <3>4. QED
        BY <3>1, <3>2, <3>3
    <2>2. OneHolderPerLine => OneHolderPerLine'
      BY <2>1 DEF OneHolderPerLine
    <2>3. QED
      BY <1>1, <1>10, <1>13, <2>2 DEF Image, Minted, TablesOK

-----------------------------------------------------------------------------
(* The inductive invariant: the two properties of the refs, and what every *)
(* row carries.  MachineUntrackHasOneSource is inductive only beside RowOK,*)
(* which keeps a machine's untracking out of every other state.            *)

IInv ==
    /\ TablesOK
    /\ RowsOK
    /\ OneHolderPerLine
    /\ MachineUntrackHasOneSource

OneSource(e) == \A l, k \in LinesOf(e) : NoteOf[l] = NoteOf[k]

\* A reconciliation keeps a row well formed, and untracks none.
LEMMA RowStepOK ==
    ASSUME NEW p, NEW e \in Minted, RowOK(entry[e]), RowStep(p, e)
    PROVE  /\ RowOK(entry'[e])
           /\ entry'[e].untrackedVia \in MachineSources => entry[e].state = "untracked"
           /\ entry'[e].untrackedVia \in MachineSources =>
                 entry[e].untrackedVia \in MachineSources
  <1>0. PICK b \in {entry[e]} \cup {Reworded(entry[e], l, p.aliases) : l \in Lines} :
          \E f \in {b} \cup {[b EXCEPT !.project = project] : project \in Projects} :
              \/ entry'[e] = f
              \/ IsLive(e) /\ entry'[e] = Parked(f)
              \/ IsLive(e) /\ \E date \in Dates : entry'[e] = Heard(f, date)
    BY DEF RowStep
  <1>1. PICK f \in {b} \cup {[b EXCEPT !.project = project] : project \in Projects} :
          \/ entry'[e] = f
          \/ IsLive(e) /\ entry'[e] = Parked(f)
          \/ IsLive(e) /\ \E date \in Dates : entry'[e] = Heard(f, date)
    BY <1>0
  <1>2. RowOK(b) /\ b.state = entry[e].state /\ b.untrackedVia = entry[e].untrackedVia
    <2>1. CASE b = entry[e]
      BY <2>1
    <2>2. CASE \E l \in Lines : b = Reworded(entry[e], l, p.aliases)
      BY <2>2, RewordedRowOK
    <2>3. QED
      BY <2>1, <2>2
  <1>3. RowOK(f) /\ f.state = entry[e].state /\ f.untrackedVia = entry[e].untrackedVia
    <2>1. CASE f = b
      BY <1>2, <2>1
    <2>2. CASE \E project \in Projects : f = [b EXCEPT !.project = project]
      BY <1>2, <2>2, FiledRowOK DEF RowOK, EntryRec
    <2>3. QED
      BY <2>1, <2>2
  <1>4. f.untrackedVia \in MachineSources => f.state = "untracked"
    BY <1>3 DEF RowOK, EntryRec, ColumnsFit, MachineSources
  <1>5. CASE entry'[e] = f
    BY <1>3, <1>4, <1>5
  <1>6. CASE IsLive(e) /\ entry'[e] = Parked(f)
    BY <1>3, <1>4, <1>6, ParkedRowOK DEF IsLive
  <1>7. CASE IsLive(e) /\ \E date \in Dates : entry'[e] = Heard(f, date)
    BY <1>3, <1>4, <1>7, HeardRowOK
  <1>8. QED
    BY <1>1, <1>5, <1>6, <1>7

LEMMA ReconcileInv ==
    ASSUME IInv, NEW n, NEW p, Readable(n, p), NEW hints, Reconcile(n, p, hints)
    PROVE  IInv'
  <1> USE DEF IInv
  <1>1. /\ Minted \subseteq Minted' /\ Minted' \subseteq Entries
        /\ \A e \in Minted : RowStep(p, e)
        /\ \A e \in Minted' \ Minted : MintStep(p, e)
        /\ \A project \in dirty' : MarkStep(project)
        /\ \A r \in refs' \ refs : RefStep(n, p, r)
        /\ OneHolderPerLine'
        /\ entry' = [e \in Minted' |-> entry'[e]]
        /\ links' = links /\ claims' = claims
    BY ReconcileStep
  <1>2. \A e \in Minted :
           /\ RowOK(entry'[e])
           /\ entry'[e].untrackedVia \in MachineSources =>
                 /\ entry[e].state = "untracked"
                 /\ entry[e].untrackedVia \in MachineSources
    BY <1>1, RowStepOK DEF RowsOK
  <1>3. \A e \in Minted' \ Minted :
           RowOK(entry'[e]) /\ entry'[e].untrackedVia = "none"
    BY <1>1, MintStepOK
  <1>4. RowsOK'
    BY <1>2, <1>3 DEF RowsOK
  <1>5. TablesOK'
    <2>1. entry' \in [Minted' -> EntryRec]
      BY <1>1, <1>4 DEF RowsOK, RowOK
    <2>2. refs' \subseteq Minted' \X Lines
      BY <1>1 DEF TablesOK, RefStep, Readable
    <2>3. dirty' \subseteq Projects
      BY <1>1, <2>1 DEF TablesOK, MarkStep, EntryRec
    <2>4. QED
      BY <1>1, <2>1, <2>2, <2>3 DEF TablesOK
  <1>6. MachineUntrackHasOneSource'
    <2> SUFFICES ASSUME NEW e \in Minted', entry'[e].untrackedVia \in MachineSources,
                        NEW l \in LinesOf(e)', NEW k \in LinesOf(e)'
                 PROVE  NoteOf[l] = NoteOf[k]
      BY DEF MachineUntrackHasOneSource
    <2>1. e \in Minted /\ entry[e].state = "untracked" /\ OneSource(e)
      BY <1>2, <1>3 DEF MachineSources, MachineUntrackHasOneSource, OneSource
    <2>2. ~IsLive(e)
      BY <2>1 DEF IsLive, LiveStates
    <2>3. \A m \in LinesOf(e)' \ LinesOf(e) :
             NoteOf[m] = n /\ \E old \in LinesOf(e) : NoteOf[old] = n
      BY <1>1, <2>1, <2>2 DEF LinesOf, RefStep, Readable
    <2>4. QED
      BY <2>1, <2>3 DEF OneSource
  <1>7. QED
    BY <1>1, <1>4, <1>5, <1>6

-----------------------------------------------------------------------------
(* The other jobs rewrite rows in place.                                   *)

LEMMA InPlaceInv ==
    ASSUME IInv, entry' = [e \in Minted |-> entry'[e]], refs' = refs,
           \A e \in Minted :
              /\ RowOK(entry'[e])
              /\ entry'[e].untrackedVia \in MachineSources => OneSource(e),
           links' \subseteq Minted \X Minted,
           claims' \subseteq Minted \X Claims,
           dirty' \subseteq Projects
    PROVE  IInv'
  <1>1. Minted' = Minted
    BY DEF Minted
  <1>2. TablesOK' /\ RowsOK'
    BY <1>1 DEF IInv, TablesOK, RowsOK, RowOK
  <1>3. OneHolderPerLine'
    BY DEF IInv, OneHolderPerLine
  <1>4. MachineUntrackHasOneSource'
    BY <1>1 DEF MachineUntrackHasOneSource, OneSource, LinesOf
  <1>5. QED
    BY <1>2, <1>3, <1>4 DEF IInv

LEMMA ProjectOfRow ==
    ASSUME IInv, NEW e \in Minted
    PROVE  entry[e].project \in Projects
  BY DEF IInv, TablesOK, EntryRec

\* What every judgement of a person does: it writes a row that fits.
Judgement(e, r) ==
    /\ Judge(e, r)
    /\ RowOK(AsTouched(r))
    /\ AsTouched(r).untrackedVia \in MachineSources =>
          entry[e].untrackedVia \in MachineSources
    /\ dirty' \subseteq dirty \cup {entry[e].project}
    /\ refs' = refs
    /\ links' \subseteq links
    /\ claims' \subseteq claims

LEMMA JudgeInv ==
    ASSUME IInv, NEW e \in Minted, NEW r, Judgement(e, r)
    PROVE  IInv'
  <1>1. /\ entry' = [f \in Minted |-> entry'[f]]
        /\ entry'[e] = AsTouched(r)
        /\ \A f \in Minted \ {e} : entry'[f] = entry[f]
    BY DEF IInv, TablesOK, Judge, Judgement
  <1>2. \A f \in Minted :
           /\ RowOK(entry'[f])
           /\ entry'[f].untrackedVia \in MachineSources => OneSource(f)
    BY <1>1 DEF IInv, RowsOK, MachineUntrackHasOneSource, OneSource, Judgement
  <1>3. dirty' \subseteq Projects
    BY ProjectOfRow DEF IInv, TablesOK, Judgement
  <1>4. /\ refs' = refs
        /\ links' \subseteq Minted \X Minted
        /\ claims' \subseteq Minted \X Claims
    BY DEF IInv, TablesOK, Judgement
  <1>5. QED
    BY <1>1, <1>2, <1>3, <1>4, InPlaceInv

LEMMA JudgeEntryInv ==
    ASSUME IInv, NEW e \in Minted
    PROVE  /\ Close(e) => IInv'
           /\ Waive(e) => IInv'
           /\ Snooze(e) => IInv'
           /\ Untrack(e) => IInv'
           /\ Opened(e) => IInv'
           /\ ClaimMine(e) => IInv'
           /\ \A c \in Claims : ConfirmEvidence(e, c) => IInv'
  <1> DEFINE r == entry[e]
  <1>1. RowOK(r)
    BY DEF IInv, RowsOK
  <1>2. {"manual", "none"} \cap MachineSources = {}
    BY DEF MachineSources
  <1> USE JudgeInv
  <1>3. ASSUME Close(e) PROVE IInv'
    <2>1. Judgement(e, AsClosed(r, "manual"))
      BY <1>1, <1>2, <1>3, MovesRowOK, TouchedRowOK DEF Close, MarkDirty, Judgement
    <2>2. QED
      BY <2>1
  <1>4. ASSUME Waive(e) PROVE IInv'
    <2>1. Judgement(e, Moved(r, "waived"))
      BY <1>1, <1>2, <1>4, MovesRowOK, TouchedRowOK DEF Waive, MarkDirty, Judgement
    <2>2. QED
      BY <2>1
  <1>5. ASSUME Snooze(e) PROVE IInv'
    <2>1. Judgement(e, AsSnoozed(r))
      BY <1>1, <1>2, <1>5, MovesRowOK, TouchedRowOK DEF Snooze, MarkDirty, Judgement
    <2>2. QED
      BY <2>1
  <1>6. ASSUME Untrack(e) PROVE IInv'
    <2>1. /\ RowOK(AsTouched(AsUntracked(r, "manual")))
          /\ AsTouched(AsUntracked(r, "manual")).untrackedVia = "manual"
      BY <1>1, <1>2, MovesRowOK, TouchedRowOK
    <2>2. Judgement(e, AsUntracked(r, "manual"))
      BY <1>2, <1>6, <2>1 DEF Untrack, MarkDirty, Judgement
    <2>3. QED
      BY <2>2
  <1>7. ASSUME Opened(e) PROVE IInv'
    <2>1. Judgement(e, AsOpen(r))
      BY <1>1, <1>2, <1>7, MovesRowOK, TouchedRowOK DEF Opened, MarkDirty, Judgement
    <2>2. QED
      BY <2>1
  <1>8. ASSUME ClaimMine(e) PROVE IInv'
    <2>1. Judgement(e, [r EXCEPT !.direction = "mine"])
      BY <1>1, <1>2, <1>8, ClaimedRowOK DEF ClaimMine, MarkDirty, Judgement
    <2>2. QED
      BY <2>1
  <1>9. ASSUME NEW c \in Claims, ConfirmEvidence(e, c) PROVE IInv'
    <2>1. Judgement(e, AsClosed(r, "conversation"))
      BY <1>1, <1>2, <1>9, MovesRowOK, TouchedRowOK DEF ConfirmEvidence, MarkDirty, Judgement
    <2>2. QED
      BY <2>1
  <1>10. QED
    BY <1>3, <1>4, <1>5, <1>6, <1>7, <1>8, <1>9

\* The steps of the two calls that commit twice, and what drops the rest.
LEMMA CallInv ==
    ASSUME IInv, BeginCall \/ FinishCall \/ Halt
    PROVE  IInv'
  <1>1. ASSUME entry' = entry, refs' = refs, links' \subseteq links,
               claims' \subseteq claims, dirty' \subseteq Projects
        PROVE  IInv'
    BY <1>1 DEF IInv, TablesOK, Minted, RowsOK, OneHolderPerLine,
                MachineUntrackHasOneSource, LinesOf
  <1>2. dirty \subseteq Projects /\ \A e \in Minted : entry[e].project \in Projects
    BY ProjectOfRow DEF IInv, TablesOK
  <1>3. CASE BeginCall
    BY <1>1, <1>2, <1>3 DEF BeginCall, UnlinkToReopen, Unlinked, DismissEvidence, MarkDirty
  <1>4. CASE Halt
    BY <1>1, <1>2, <1>4 DEF Halt
  <1>5. CASE FinishCall
    <2>1. PICK e \in Minted : FinishReopen(e) \/ FinishDismissal(e)
      BY <1>5 DEF FinishCall
    <2>2. CASE Opened(e)
      BY <2>2, JudgeEntryInv
    <2>3. CASE ~Opened(e)
      <3>1. Judge(e, entry[e]) /\ MarkDirty({}) /\ UNCHANGED <<refs, links, claims>>
        BY <2>1, <2>3 DEF FinishReopen, FinishDismissal
      <3>2. RowOK(entry[e])
        BY DEF IInv, RowsOK
      <3>3. Judgement(e, entry[e])
        BY <3>1, <3>2, TouchedRowOK DEF MarkDirty, Judgement
      <3> QED BY <3>3, JudgeInv
    <2> QED BY <2>2, <2>3
  <1> QED BY <1>3, <1>4, <1>5

LEMMA RetroApplyInv ==
    ASSUME IInv, NEW n \in Notes, NEW project \in Projects
    PROVE  /\ \A source \in MachineSources :
                 RetroApplyContextOnly(n, project, source) => IInv'
           /\ RetroApplyTracked(n, project) => IInv'
  <1>1. \A e \in Minted : RowOK(entry[e]) /\ entry[e].project \in Projects
    BY ProjectOfRow DEF IInv, RowsOK
  <1>2. \A e \in Minted : entry[e].untrackedVia \in MachineSources => OneSource(e)
    BY DEF IInv, MachineUntrackHasOneSource, OneSource
  <1>3. links \subseteq Minted \X Minted /\ claims \subseteq Minted \X Claims
    BY DEF IInv, TablesOK
  <1>4. ASSUME NEW source \in MachineSources, RetroApplyContextOnly(n, project, source)
        PROVE  IInv'
    <2>1. \A e \in Overridable(n) :
             OneSource(e) /\ ~entry[e].touched /\ entry[e].enrolledVia # "manual"
      BY DEF Overridable, OneSource
    <2>2. \A e \in Overridable(n) : RowOK(AsUntracked(entry[e], source))
      BY <1>1, <2>1, MovesRowOK DEF Overridable
    <2>3. /\ entry' = [e \in Minted |-> entry'[e]]
          /\ \A e \in Overridable(n) : entry'[e] = AsUntracked(entry[e], source)
          /\ \A e \in Minted \ Overridable(n) : entry'[e] = entry[e]
      BY <1>4 DEF RetroApplyContextOnly, Overridable
    <2>4. dirty' \subseteq Projects
      BY <1>1, <1>4 DEF IInv, TablesOK, RetroApplyContextOnly, MarkDirty, Overridable
    <2>5. refs' = refs /\ links' = links /\ claims' = claims
      BY <1>4 DEF RetroApplyContextOnly
    <2>6. \A e \in Minted :
             /\ RowOK(entry'[e])
             /\ entry'[e].untrackedVia \in MachineSources => OneSource(e)
      BY <1>1, <1>2, <2>1, <2>2, <2>3
    <2>7. QED
      BY <1>3, <2>3, <2>4, <2>5, <2>6, InPlaceInv
  <1>5. ASSUME RetroApplyTracked(n, project)
        PROVE  IInv'
    <2>1. /\ entry' = [e \in Minted |-> entry'[e]]
          /\ \A e \in Revivable(n) : entry'[e] = AsOpen(entry[e])
          /\ \A e \in Minted \ Revivable(n) : entry'[e] = entry[e]
      BY <1>5 DEF RetroApplyTracked, Revivable
    <2>2. \A e \in Minted : RowOK(AsOpen(entry[e])) /\ AsOpen(entry[e]).untrackedVia = "none"
      BY <1>1, MovesRowOK
    <2>3. dirty' \subseteq Projects
      BY <1>1, <1>5 DEF IInv, TablesOK, RetroApplyTracked, MarkDirty, Revivable
    <2>4. refs' = refs /\ links' = links /\ claims' = claims
      BY <1>5 DEF RetroApplyTracked
    <2>5. \A e \in Minted :
             /\ RowOK(entry'[e])
             /\ entry'[e].untrackedVia \in MachineSources => OneSource(e)
      BY <1>1, <1>2, <2>1, <2>2 DEF MachineSources
    <2>6. QED
      BY <1>3, <2>1, <2>3, <2>4, <2>5, InPlaceInv
  <1>6. QED
    BY <1>4, <1>5

LEMMA RetroResolveInv ==
    ASSUME IInv, NEW aliases, RetroResolveOwners(aliases)
    PROVE  IInv'
  <1>1. \A e \in Minted : RowOK(entry[e]) /\ entry[e].project \in Projects
    BY ProjectOfRow DEF IInv, RowsOK
  <1>2. /\ entry' = [e \in Minted |-> entry'[e]]
        /\ \A e \in Unresolved(aliases) :
              entry'[e] = [entry[e] EXCEPT !.direction = "mine"]
        /\ \A e \in Minted \ Unresolved(aliases) : entry'[e] = entry[e]
    BY DEF RetroResolveOwners, Unresolved
  <1>3. \A e \in Unresolved(aliases) :
           /\ RowOK([entry[e] EXCEPT !.direction = "mine"])
           /\ [entry[e] EXCEPT !.direction = "mine"].untrackedVia = entry[e].untrackedVia
    BY <1>1, ResolvedRowOK DEF Unresolved
  <1>4. \A e \in Minted :
           /\ RowOK(entry'[e])
           /\ entry'[e].untrackedVia \in MachineSources => OneSource(e)
    <2>1. \A e \in Minted : entry[e].untrackedVia \in MachineSources => OneSource(e)
      BY DEF IInv, MachineUntrackHasOneSource, OneSource
    <2>2. ASSUME NEW e \in Unresolved(aliases)
          PROVE  /\ RowOK(entry'[e])
                 /\ entry'[e].untrackedVia \in MachineSources => OneSource(e)
      <3>1. e \in Minted
        BY DEF Unresolved
      <3> QED
        BY <1>2, <1>3, <2>1, <3>1
    <2>3. QED
      BY <1>1, <1>2, <2>1, <2>2
  <1>5. dirty' \subseteq Projects
    BY <1>1 DEF IInv, TablesOK, RetroResolveOwners, MarkDirty, Unresolved
  <1>6. /\ refs' = refs
        /\ links' \subseteq Minted \X Minted
        /\ claims' \subseteq Minted \X Claims
    BY DEF RetroResolveOwners, IInv, TablesOK
  <1>7. QED
    BY <1>2, <1>4, <1>5, <1>6, InPlaceInv

LEMMA TrackHeldLineInv ==
    ASSUME IInv, NEW e \in Entries, NEW l \in Lines, TrackHeldLine(e, l)
    PROVE  IInv'
  <1>1. e \in Minted /\ RowOK(entry[e])
    BY DEF TrackHeldLine, IInv, TablesOK, RowsOK
  <1>2. CASE entry[e].state = "untracked"
    <2>1. Judgement(e, [AsOpen(entry[e]) EXCEPT !.enrolledVia = "manual"])
      BY <1>1, <1>2, MovesRowOK, PromotedRowOK
      DEF TrackHeldLine, MarkDirty, Judgement, MachineSources
    <2>2. QED
      BY <1>1, <2>1, JudgeInv
  <1>3. CASE entry[e].state # "untracked"
    <2>1. Judgement(e, entry[e])
      BY <1>1, <1>3, MovesRowOK, TouchedRowOK DEF TrackHeldLine, MarkDirty, Judgement
    <2>2. QED
      BY <1>1, <2>1, JudgeInv
  <1>4. QED
    BY <1>2, <1>3

LEMMA TrackFreeLineInv ==
    ASSUME IInv, NEW e \in Entries, NEW l \in Lines, NEW p \in Pages, TrackFreeLine(e, l, p)
    PROVE  IInv'
  <1> DEFINE w == WordsOf[l]
             d == Resolve(LineOwner(l), p.aliases)
             r == OpenEntry(w, d, p.project, p.date, "manual")
  <1>1. w \in Words /\ p.project \in Projects /\ p.date \in Dates
    BY LinesAssumption, PagesAssumption DEF PageRec
  <1>2. /\ d \in {"mine", "theirs", "unassigned"}
        /\ d = "unassigned" => OwnerOf[w] = Unassigned
        /\ d = "theirs" => OwnerOf[w] \notin {You, Unassigned}
        /\ d = "mine" => OwnerOf[w] # Unassigned
    BY ResolveFits DEF LineOwner
  <1>3. /\ entry' = [f \in Minted \cup {e} |-> IF f = e THEN AsTouched(r) ELSE entry[f]]
        /\ refs' = refs \cup {<<e, l>>}
        /\ dirty' = dirty \cup {p.project}
        /\ links' = links /\ claims' = claims
        /\ e \notin Minted
        /\ \A f \in Minted : <<f, l>> \notin refs
    BY DEF TrackFreeLine, LineOwner, MarkDirty
  <1> HIDE DEF d, w
  <1>4. RowOK(AsTouched(r)) /\ AsTouched(r).untrackedVia = "none"
    BY <1>1, <1>2, OpenEntryRowOK DEF OpenEntry, AsTouched
  <1> HIDE DEF r
  <1>5. /\ Minted' = Minted \cup {e}
        /\ entry'[e] = AsTouched(r)
        /\ \A f \in Minted : entry'[f] = entry[f]
        /\ entry' = [f \in Minted' |-> entry'[f]]
    BY <1>3 DEF Minted
  <1>6. RowsOK'
    BY <1>4, <1>5 DEF IInv, RowsOK
  <1>7. TablesOK'
    <2>1. entry' \in [Minted' -> EntryRec]
      BY <1>5, <1>6 DEF RowsOK, RowOK
    <2>2. QED
      BY <1>1, <1>3, <1>5, <2>1 DEF IInv, TablesOK
  <1>8. OneHolderPerLine'
    BY <1>3 DEF IInv, TablesOK, OneHolderPerLine
  <1>9. MachineUntrackHasOneSource'
    <2>1. \A f \in Minted : LinesOf(f)' = LinesOf(f)
      BY <1>3 DEF LinesOf
    <2>2. "none" \notin MachineSources
      BY DEF MachineSources
    <2>3. QED
      BY <1>4, <1>5, <2>1, <2>2 DEF IInv, MachineUntrackHasOneSource
  <1>10. QED
    BY <1>6, <1>7, <1>8, <1>9 DEF IInv

-----------------------------------------------------------------------------
(* The theorems.                                                           *)

LEMMA ReadablePages ==
    /\ \A n \in Notes, p \in Pages : Sync(n, p) => Readable(n, p)
    /\ \A n \in Notes : Readable(n, RemovedPage)
  BY PagesAssumption DEF Sync, Readable, RemovedPage, PageRec

LEMMA InitInv == Init => IInv
  BY DEF Init, IInv, TablesOK, Minted, RowsOK, OneHolderPerLine,
         MachineUntrackHasOneSource

LEMMA JobInv == ASSUME IInv, Job PROVE IInv'
  <1>1. CASE JudgeEntry
    BY <1>1, JudgeEntryInv DEF JudgeEntry, Reopen
  <1>2. CASE RetroApply
    BY <1>2, RetroApplyInv DEF RetroApply
  <1>3. CASE TrackItem
    BY <1>3, TrackHeldLineInv, TrackFreeLineInv DEF TrackItem
  <1>4. CASE \E aliases \in Identities : RetroResolveOwners(aliases)
    BY <1>4, RetroResolveInv
  <1>5. CASE \E n \in Notes, p \in Pages : Sync(n, p)
    <2>1. PICK n \in Notes, p \in Pages : Sync(n, p)
      BY <1>5
    <2>2. Readable(n, p) /\ Reconcile(n, p, NoHints)
      BY <2>1, ReadablePages DEF Sync
    <2>3. QED
      BY <2>2, ReconcileInv
  <1>6. CASE \E n \in Notes : NoteRemoved(n)
    BY <1>6, ReadablePages, ReconcileInv DEF NoteRemoved
  <1>7. CASE \E project \in Projects : SnapshotWritten(project)
    <2>1. entry' = entry /\ refs' = refs /\ links' = links /\ claims' = claims
      BY <1>7 DEF SnapshotWritten
    <2>2. dirty' \subseteq Projects
      BY <1>7 DEF SnapshotWritten, IInv, TablesOK
    <2>3. QED
      BY <2>1, <2>2 DEF IInv, TablesOK, Minted, RowsOK, OneHolderPerLine,
                        MachineUntrackHasOneSource, LinesOf
  <1>8. QED
    BY <1>1, <1>2, <1>3, <1>4, <1>5, <1>6, <1>7 DEF Job

LEMMA NextInv == IInv /\ [Next]_ledgerVars => IInv'
  <1>1. IInv /\ UNCHANGED ledgerVars => IInv'
    BY DEF ledgerVars, IInv, TablesOK, Minted, RowsOK, OneHolderPerLine,
           MachineUntrackHasOneSource, LinesOf
  <1> QED
    BY <1>1, JobInv, CallInv DEF Next

\* The worker's call is one of the two, on an entry that exists.
CallOK == call \in {NoCall} \cup (Halves \X Minted)

LEMMA CallTyped == CallOK /\ [Next]_ledgerVars => CallOK'
  <1>1. ASSUME call = NoCall \/ call' = NoCall, call' = call \/ call' = NoCall
        PROVE  CallOK'
    BY <1>1 DEF CallOK
  <1>2. ASSUME BeginCall PROVE CallOK'
    <2>1. PICK e \in Minted : UnlinkToReopen(e) \/ \E c \in Claims : DismissEvidence(e, c)
      BY <1>2 DEF BeginCall
    <2>2. Minted' = Minted /\ \E name \in Halves : call' = <<name, e>>
      BY <2>1 DEF UnlinkToReopen, DismissEvidence, Halves, Minted
    <2> QED BY <2>2 DEF CallOK
  <1>3. FinishCall \/ Halt => call' = NoCall
    BY DEF FinishCall, FinishReopen, FinishDismissal, Halt
  <1>4. CallOK /\ UNCHANGED ledgerVars => CallOK'
    BY DEF CallOK, ledgerVars, Minted
  <1> QED
    BY <1>1, <1>2, <1>3, <1>4 DEF Next

\* Every reachable state satisfies the inductive invariant.
THEOREM Invariant == Spec => []IInv
  BY InitInv, NextInv, PTL DEF Spec

\* The tables are well typed: every row has a state and a direction of its
\* columns' domains, and refs, links and claims name rows that exist.
THEOREM TypeCorrect == Spec => []TypeOK
  <1>1. IInv /\ CallOK => TypeOK
    BY DEF IInv, TablesOK, CallOK, TypeOK
  <1>2. Init => CallOK
    BY DEF Init, CallOK
  <1>3. QED
    BY <1>1, <1>2, CallTyped, Invariant, PTL DEF Spec

\* No line ever has two active holders, however edits, restatements and
\* promotes follow one another: the unique index never aborts a sync.
THEOREM OneHolder == Spec => []OneHolderPerLine
  <1>1. IInv => OneHolderPerLine
    BY DEF IInv
  <1>2. QED
    BY <1>1, Invariant, PTL

\* Every row meets the CHECK constraints of its table.
THEOREM ColumnsAlwaysFit == Spec => []ProvenanceFitsState
  <1>1. IInv => ProvenanceFitsState
    BY DEF IInv, RowsOK, RowOK, ProvenanceFitsState
  <1>2. QED
    BY <1>1, Invariant, PTL

\* An entry a machine untracked has one meeting's lines only, so reviving it
\* never overrides what another meeting decided.
THEOREM UntrackedByOneMeeting == Spec => []MachineUntrackHasOneSource
  <1>1. IInv => MachineUntrackHasOneSource
    BY DEF IInv
  <1>2. QED
    BY <1>1, Invariant, PTL

\* What a person promoted stays touched, and no machine default untracks it.
THEOREM PromotionSticks == Spec => []ManualEnrolmentSticks
  <1>1. IInv => ManualEnrolmentSticks
    BY DEF IInv, RowsOK, RowOK, ManualEnrolmentSticks
  <1>2. QED
    BY <1>1, Invariant, PTL

\* Directions agree with owners through rewords, claims and alias sweeps.
THEOREM DirectionsFit == Spec => []DirectionFitsOwner
  <1>1. IInv => DirectionFitsOwner
    BY DEF IInv, RowsOK, RowOK, DirectionFitsOwner
  <1>2. QED
    BY <1>1, Invariant, PTL

-----------------------------------------------------------------------------
(* What a step may not do.                                                 *)

\* The lines of a page that its mode enrolls, and a page that says nothing twice.
AskedLines(p) ==
    {l \in p.asks : Enrolls(EffectiveMode(p), Resolve(LineOwner(l), p.aliases))}
NoRepeats(p) == \A l, k \in p.lines : WordsOf[l] = WordsOf[k] => l = k

\* A reworded row is a row of the same state.
LEMMA RewordedType ==
    ASSUME NEW r \in EntryRec, NEW l \in Lines, NEW aliases
    PROVE  Reworded(r, l, aliases) \in EntryRec
  <1>1. WordsOf[l] \in Words
    BY LinesAssumption
  <1>2. Resolve(LineOwner(l), aliases) \in {"mine", "theirs", "unassigned"}
    BY DEF Resolve
  <1>3. QED
    BY <1>1, <1>2 DEF Reworded, EntryRec

\* What a rewrite marks, whom it asks about and what it calls the rows.
Marked(n, p, swaps, mentioned, mint) ==
    /\ Minted' = Minted \cup Image(mint)
    /\ \A e \in Minted :
          /\ entry'[e].words = AfterSwaps(swaps, p.aliases)[e].words
          /\ entry'[e].state # entry[e].state => IsLive(e)
          /\ (\/ entry'[e] # entry[e]
              \/ e \in mentioned
              \/ \E r \in Gone(n, p) : r[1] = e)
             => entry[e].project \in dirty' /\ entry'[e].project \in dirty'
          /\ (/\ IsLive(e) /\ e \notin mentioned
              /\ \E r \in Gone(n, p) : r[1] = e /\ \A s \in swaps : s[1] # r
              /\ \A r \in refs' : r[1] # e)
             => entry'[e].state = "needs_review"
          /\ (\/ e \in mentioned
              \/ \E r \in Kept(n, p) : r[1] = e
              \/ \E s \in swaps : s[1][1] = e)
             => entry'[e].project = p.project \/ ~Follows(entry'[e], p)
    /\ \A e \in Image(mint) :
          /\ entry'[e].project \in dirty'
          /\ entry'[e].project = p.project
          /\ \E w \in DOMAIN mint : mint[w] = e /\ entry'[e].words = w

LEMMA RewriteMarks ==
    ASSUME TablesOK, NEW n, NEW p, Readable(n, p),
           NEW swaps \in SUBSET (Gone(n, p) \X p.lines),
           NEW mentioned \in SUBSET {e \in Minted : IsLive(e)},
           mentioned # {} => p.lines # {},
           NEW mint, Image(mint) \subseteq Entries \ Minted,
           Rewrite(n, p, swaps, mentioned, mint)
    PROVE  Marked(n, p, swaps, mentioned, mint)
  <1> DEFINE book == AfterSwaps(swaps, p.aliases)
             retired == {r[1] : r \in Gone(n, p) \ {s[1] : s \in swaps}}
             moving == {r[1] : r \in Kept(n, p)} \cup {s[1][1] : s \in swaps} \cup mentioned
             orphaned == {e \in retired : ~IsTerminal(e) /\ \A r \in refs' : r[1] # e}
             filed(e) == IF e \in moving /\ Follows(entry[e], p)
                         THEN [book[e] EXCEPT !.project = p.project]
                         ELSE book[e]
             minted(w) == OpenEntry(w, Resolve(OwnerOf[w], p.aliases),
                                    p.project, p.date, EnrolledBy(p))
             rewritten == {s[1][1] : s \in swaps} \cup mentioned \cup retired \cup Image(mint)
                            \cup {e \in moving : filed(e).project # entry[e].project}
  <1>1. entry' = [e \in Minted \cup Image(mint) |->
                    IF e \in Image(mint) THEN minted(CHOOSE w \in DOMAIN mint : mint[w] = e)
                    ELSE IF e \in mentioned THEN Heard(filed(e), p.date)
                    ELSE IF e \in orphaned THEN Parked(filed(e))
                    ELSE filed(e)]
    BY DEF Rewrite
  <1>2. dirty' = dirty \cup Homes(rewritten, entry')
    BY <1>1 DEF Rewrite, MarkDirty
  <1>3. Minted' = Minted \cup Image(mint)
    BY <1>1 DEF Minted
  <1>4. \A e \in rewritten : /\ e \in Minted => entry[e].project \in dirty'
                             /\ entry'[e].project \in dirty'
    <2> HIDE DEF rewritten
    <2> QED BY <1>2 DEF Homes
  <1>5. ASSUME NEW e \in Minted
        PROVE  /\ book[e] \in EntryRec
               /\ book[e].state = entry[e].state
               /\ e \notin rewritten => book[e] = entry[e]
    <2>1. CASE \E s \in swaps : s[1][1] = e
      <3>1. PICK s \in swaps : s[1][1] = e /\ book[e] = Reworded(entry[e], s[2], p.aliases)
        BY <2>1 DEF AfterSwaps
      <3>2. s[2] \in Lines /\ entry[e] \in EntryRec /\ e \in rewritten
        BY <3>1 DEF Readable, TablesOK
      <3>3. book[e] \in EntryRec
        BY <3>1, <3>2, RewordedType
      <3> HIDE DEF book, rewritten
      <3>4. book[e].state = entry[e].state
        BY <3>1, <3>2 DEF Reworded, EntryRec
      <3> QED BY <3>2, <3>3, <3>4
    <2>2. CASE ~\E s \in swaps : s[1][1] = e
      <3>1. book[e] = entry[e]
        BY <2>2 DEF AfterSwaps
      <3> QED BY <3>1 DEF TablesOK
    <2> QED BY <2>1, <2>2
  <1>6. ASSUME NEW e \in Minted
        PROVE  /\ filed(e) \in EntryRec
               /\ filed(e).state = entry[e].state
               /\ filed(e).words = book[e].words
               /\ e \notin rewritten => filed(e) = entry[e]
    <2>1. CASE e \in moving /\ Follows(entry[e], p)
      <3>1. p.project \in Projects
        BY <2>1 DEF Follows, Readable
      <3>2. filed(e) = [book[e] EXCEPT !.project = p.project]
        BY <2>1
      <3>3. e \notin rewritten => filed(e).project = entry[e].project
        BY <2>1
      <3> HIDE DEF filed, book, rewritten
      <3>4. /\ filed(e) \in EntryRec /\ filed(e).state = entry[e].state
            /\ filed(e).words = book[e].words
        BY <1>5, <3>1, <3>2 DEF EntryRec
      <3>5. ASSUME e \notin rewritten PROVE filed(e) = entry[e]
        <4>1. filed(e) = [entry[e] EXCEPT !.project = p.project]
          BY <1>5, <3>2, <3>5
        <4>2. entry[e] \in EntryRec
          BY DEF TablesOK
        <4>3. filed(e).project = p.project
          BY <4>1, <4>2 DEF EntryRec
        <4>4. QED
          BY <3>3, <3>5, <4>1, <4>2, <4>3 DEF EntryRec
      <3> QED BY <3>4, <3>5
    <2>2. CASE ~(e \in moving /\ Follows(entry[e], p))
      <3>1. filed(e) = book[e]
        BY <2>2
      <3> HIDE DEF filed, book, rewritten
      <3> QED BY <1>5, <3>1
    <2> QED BY <2>1, <2>2
  <1>7. ASSUME NEW e \in Minted
        PROVE  entry'[e] = IF e \in mentioned THEN Heard(filed(e), p.date)
                           ELSE IF e \in orphaned THEN Parked(filed(e))
                           ELSE filed(e)
    <2>1. e \notin Image(mint)
      OBVIOUS
    <2> QED BY <1>1, <2>1
  <1>8. ASSUME NEW e \in Minted
        PROVE  entry'[e].words = book[e].words
    <2> HIDE DEF filed, book, orphaned
    <2>1. filed(e) \in EntryRec /\ filed(e).words = book[e].words
      BY <1>6
    <2>2. Heard(filed(e), p.date).words = filed(e).words
      <3> DEFINE date == IF p.date > filed(e).mention THEN p.date ELSE filed(e).mention
      <3>1. Heard(filed(e), p.date) =
              IF filed(e).state = "needs_review"
              THEN [filed(e) EXCEPT !.mention = date, !.state = "open", !.reviewReason = "none"]
              ELSE [filed(e) EXCEPT !.mention = date]
        BY <2>1 DEF Heard, EntryRec
      <3> HIDE DEF date
      <3> QED BY <2>1, <3>1 DEF EntryRec
    <2>3. Parked(filed(e)).words = filed(e).words
      BY <2>1 DEF Parked, EntryRec
    <2> QED BY <1>7, <2>1, <2>2, <2>3
  <1>9. ASSUME NEW e \in Minted,
               \/ entry'[e] # entry[e]
               \/ e \in mentioned
               \/ \E r \in Gone(n, p) : r[1] = e
        PROVE  e \in rewritten
    <2>1. CASE e \in mentioned
      BY <2>1
    <2>2. CASE \E r \in Gone(n, p) : r[1] = e
      <3>1. PICK r \in Gone(n, p) : r[1] = e
        BY <2>2
      <3>2. CASE \E s \in swaps : s[1] = r
        BY <3>1, <3>2
      <3>3. CASE ~\E s \in swaps : s[1] = r
        BY <3>1, <3>3
      <3> QED BY <3>2, <3>3
    <2>3. CASE entry'[e] # entry[e] /\ e \notin mentioned
      <3>1. CASE e \in orphaned
        BY <3>1
      <3>2. CASE e \notin orphaned
        <4> HIDE DEF filed, orphaned, rewritten
        <4> QED BY <1>6, <1>7, <2>3, <3>2
      <3> QED BY <3>1, <3>2
    <2> QED BY <1>9, <2>1, <2>2, <2>3
  <1>10. ASSUME NEW e \in Minted, IsLive(e), e \notin mentioned,
                \E r \in Gone(n, p) : r[1] = e /\ \A s \in swaps : s[1] # r,
                \A r \in refs' : r[1] # e
         PROVE  entry'[e].state = "needs_review"
    <2>1. e \in retired
      BY <1>10
    <2>2. e \in orphaned
      BY <1>10, <2>1 DEF IsLive, IsTerminal, LiveStates, TerminalStates
    <2>3. entry'[e] = Parked(filed(e))
      BY <1>7, <1>10, <2>2
    <2> HIDE DEF filed
    <2> QED BY <1>6, <2>3 DEF Parked, EntryRec
  <1>11. ASSUME NEW e \in Image(mint)
         PROVE  /\ entry'[e].project \in dirty'
                /\ entry'[e].project = p.project
                /\ \E w \in DOMAIN mint : mint[w] = e /\ entry'[e].words = w
    <2>1. e \in rewritten
      OBVIOUS
    <2>2. PICK w \in DOMAIN mint : mint[w] = e /\ w = CHOOSE v \in DOMAIN mint : mint[v] = e
      BY DEF Image
    <2>3. entry'[e] = minted(w)
      BY <1>1, <2>2
    <2> QED BY <1>4, <2>1, <2>2, <2>3 DEF OpenEntry
  <1>12. ASSUME NEW e \in Minted, entry'[e].state # entry[e].state
         PROVE  IsLive(e)
    <2>1. e \in mentioned \/ e \in orphaned
      <3> HIDE DEF filed, orphaned
      <3> QED BY <1>6, <1>7, <1>12
    <2>2. e \in orphaned => IsLive(e)
      BY DEF TablesOK, EntryRec, IsTerminal, IsLive
    <2> QED BY <2>1, <2>2
  <1>13. ASSUME NEW e \in moving, e \in Minted
         PROVE  entry'[e].project = p.project \/ ~Follows(entry'[e], p)
    <2>1. /\ filed(e) \in EntryRec
          /\ filed(e).mention = entry[e].mention
          /\ Follows(entry[e], p) => filed(e).project = p.project
      <3>1. filed(e) \in EntryRec /\ book[e] \in EntryRec
        BY <1>5, <1>6, <1>13
      <3>2. book[e].mention = entry[e].mention
        <4>1. book[e] = entry[e] \/ \E l \in Lines : book[e] = Reworded(entry[e], l, p.aliases)
          BY <1>13 DEF AfterSwaps, Readable
        <4>2. entry[e] \in EntryRec
          BY <1>13 DEF TablesOK
        <4> HIDE DEF book
        <4> QED BY <4>1, <4>2 DEF Reworded, EntryRec
      <3>3. filed(e) = IF Follows(entry[e], p) THEN [book[e] EXCEPT !.project = p.project]
                       ELSE book[e]
        BY <1>13
      <3> HIDE DEF filed, book, moving
      <3> QED BY <3>1, <3>2, <3>3 DEF EntryRec
    <2>2. entry[e].mention \in Nat /\ p.date \in Nat
      <3>1. p.lines # {}
        BY <1>13 DEF Kept
      <3> QED BY <1>13, <3>1, DatesAssumption DEF TablesOK, EntryRec, Readable
    <2>3. Parked(filed(e)).project = filed(e).project /\ Parked(filed(e)).mention = filed(e).mention
      BY <2>1 DEF Parked, EntryRec
    <2>4. /\ Heard(filed(e), p.date).project = filed(e).project
          /\ Heard(filed(e), p.date).mention =
                IF p.date > filed(e).mention THEN p.date ELSE filed(e).mention
      <3> DEFINE date == IF p.date > filed(e).mention THEN p.date ELSE filed(e).mention
      <3>1. Heard(filed(e), p.date) =
              IF filed(e).state = "needs_review"
              THEN [filed(e) EXCEPT !.mention = date, !.state = "open", !.reviewReason = "none"]
              ELSE [filed(e) EXCEPT !.mention = date]
        BY <2>1 DEF Heard, EntryRec
      <3> HIDE DEF date
      <3>2. /\ Heard(filed(e), p.date).project = filed(e).project
            /\ Heard(filed(e), p.date).mention = date
        <4>1. CASE filed(e).state = "needs_review"
          BY <2>1, <3>1, <4>1 DEF EntryRec
        <4>2. CASE filed(e).state # "needs_review"
          BY <2>1, <3>1, <4>2 DEF EntryRec
        <4> QED
          BY <4>1, <4>2
      <3> QED BY <3>2 DEF date
    <2>5. entry'[e] \in {filed(e), Parked(filed(e)), Heard(filed(e), p.date)}
      BY <1>7, <1>13
    <2> HIDE DEF filed
    <2> QED BY <2>1, <2>2, <2>3, <2>4, <2>5 DEF Follows
  <1>14. \A e \in Minted :
           (\/ e \in mentioned
            \/ \E r \in Kept(n, p) : r[1] = e
            \/ \E s \in swaps : s[1][1] = e)
           => e \in moving
    OBVIOUS
  <1> HIDE DEF book, retired, moving, orphaned, filed, minted, rewritten
  <1> QED
    BY <1>3, <1>4, <1>8, <1>9, <1>10, <1>11, <1>12, <1>13, <1>14 DEF book, Marked
\* Nothing is left to do for page p: every ref of the note is of a line of it,
\* whoever holds one is where it should be, and a line nobody holds asks for
\* nothing and is said by no live entry.
AllSettled(n, p) ==
    /\ \A r \in refs : NoteOf[r[2]] = n => r[2] \in p.lines
    /\ \A r \in refs : r[2] \in p.lines =>
          entry[r[1]].project = p.project \/ ~Follows(entry[r[1]], p)
    /\ \A l \in p.lines : (\A r \in refs : r[2] # l) =>
          /\ l \notin AskedLines(p)
          /\ \A e \in Minted : IsLive(e) => entry[e].words # WordsOf[l]

\* What a whole reconciliation keeps, loses, founds and marks.
LEMMA ReconcileMarks ==
    ASSUME TablesOK, NEW n, NEW p, Readable(n, p), NEW hints, Reconcile(n, p, hints)
    PROVE  /\ \A e \in Minted :
                 /\ entry'[e].state # entry[e].state => IsLive(e)
                 /\ (entry'[e] # entry[e] \/ LinesOf(e)' # LinesOf(e))
                    => entry[e].project \in dirty' /\ entry'[e].project \in dirty'
                 /\ IsLive(e) /\ HoldsLine(e) /\ ~HoldsLine(e)'
                    => entry'[e].state = "needs_review"
           /\ \A e \in Minted' \ Minted :
                 /\ entry'[e].project \in dirty'
                 /\ \A f \in Minted' \ {e} :
                       entry'[f].state \in LiveStates => entry'[f].words # entry'[e].words
           /\ \A r \in refs : NoteOf[r[2]] # n => r \in refs'
           /\ p.asks \subseteq p.lines =>
                 \A l \in AskedLines(p) : \E e \in Minted' : <<e, l>> \in refs'
           /\ p.asks \subseteq p.lines /\ NoRepeats(p) => AllSettled(n, p)'
  <1> DEFINE swaps == PageSwaps(n, p)
             unpaired == Unpaired(n, p)
             book == AfterSwaps(swaps, p.aliases)
             hinted == Hinted(unpaired, hints)
             matched == {l \in unpaired \ hinted : LiveMatches(book, WordsOf[l]) # {}}
             founders == Founders(unpaired \ hinted, p)
             newWords == NewWords(book, founders)
             founded == {l \in unpaired \ (hinted \cup matched) :
                            \E k \in founders : WordsOf[k] = WordsOf[l] /\ k <= l}
  <1>1. PICK mint \in [newWords -> Entries \ Minted], match \in [matched -> Minted] :
          /\ \A l \in matched :
                match[l] \in NewestMatches(book, hints, p.date, WordsOf[l])
          /\ refs' = (refs \ Gone(n, p))
                       \cup {<<s[1][1], s[2]>> : s \in swaps}
                       \cup {<<hints[l], l>> : l \in hinted}
                       \cup {<<match[l], l>> : l \in matched}
                       \cup {<<mint[WordsOf[l]], l>> : l \in founded}
          /\ Rewrite(n, p, swaps, Image(match) \cup {hints[l] : l \in hinted}, mint)
    BY DEF Reconcile
  <1> DEFINE mentioned == Image(match) \cup {hints[l] : l \in hinted}
  <1>2. /\ swaps \in SUBSET (Gone(n, p) \X p.lines)
        /\ unpaired = Fresh(p) \ {s[2] : s \in swaps}
        /\ unpaired \subseteq p.lines
    <2>1. Fresh(p) \subseteq p.lines
      BY DEF Fresh
    <2>2. unpaired = Fresh(p) \ {s[2] : s \in swaps}
      BY DEF Unpaired
    <2>3. swaps \subseteq Gone(n, p) \X Fresh(p)
      BY SwapsPair DEF PageSwaps
    <2> HIDE DEF swaps, unpaired
    <2> QED BY <2>1, <2>2, <2>3
  <1>3. /\ hinted \subseteq unpaired
        /\ \A l \in hinted : hints[l] \in Minted /\ IsLive(hints[l])
    BY DEF Hinted
  <1>4. \A l \in matched : match[l] \in Minted /\ IsLive(match[l])
    BY <1>1 DEF NewestMatches, LiveMatches
  <1>5. matched \subseteq unpaired /\ founded \subseteq unpaired
    OBVIOUS
  <1>6. \A l \in founded : WordsOf[l] \in newWords
    BY DEF NewWords
  <1>7. \A w \in newWords : \A f \in Minted : IsLive(f) => book[f].words # w
    BY DEF NewWords, LiveMatches, AfterSwaps
  <1>8. \A l \in founders : l \in unpaired \ (hinted \cup matched) => l \in founded
    <2>1. founders \subseteq unpaired
      BY DEF Founders
    <2>2. \A l \in founders : l \in Nat
      BY <1>2, <2>1, LinesAssumption DEF Readable
    <2> HIDE DEF founders, unpaired, hinted, matched
    <2> QED BY <2>2
  <1>9. \A l \in unpaired \ hinted :
           l \in AskedLines(p) => l \in founders
    BY DEF AskedLines, Founders
  <1>10. /\ mentioned \in SUBSET {e \in Minted : IsLive(e)}
         /\ mentioned # {} => p.lines # {}
    <2>1. Image(match) = {match[l] : l \in matched}
      BY DEF Image
    <2> HIDE DEF swaps, unpaired, book, hinted, matched, founders, newWords, founded
    <2> QED BY <1>2, <1>3, <1>4, <1>5, <2>1
  <1>11. Image(mint) \subseteq Entries \ Minted
    BY DEF Image
  <1>12. \A l \in matched : match[l] \in mentioned
    BY DEF Image
  <1>13. \A l \in hinted : hints[l] \in mentioned
    OBVIOUS
  <1> HIDE DEF swaps, unpaired, book, hinted, matched, founders, newWords, founded, mentioned
  <1>14. /\ Minted' = Minted \cup Image(mint)
         /\ \A e \in Minted :
               /\ entry'[e].words = book[e].words
               /\ entry'[e].state # entry[e].state => IsLive(e)
               /\ (\/ entry'[e] # entry[e]
                   \/ e \in mentioned
                   \/ \E r \in Gone(n, p) : r[1] = e)
                  => entry[e].project \in dirty' /\ entry'[e].project \in dirty'
               /\ (/\ IsLive(e) /\ e \notin mentioned
                   /\ \E r \in Gone(n, p) : r[1] = e /\ \A s \in swaps : s[1] # r
                   /\ \A r \in refs' : r[1] # e)
                  => entry'[e].state = "needs_review"
               /\ (\/ e \in mentioned
                   \/ \E r \in Kept(n, p) : r[1] = e
                   \/ \E s \in swaps : s[1][1] = e)
                  => entry'[e].project = p.project \/ ~Follows(entry'[e], p)
         /\ \A e \in Image(mint) :
               /\ entry'[e].project \in dirty'
               /\ entry'[e].project = p.project
               /\ \E w \in DOMAIN mint : mint[w] = e /\ entry'[e].words = w
    <2>1. Rewrite(n, p, swaps, mentioned, mint)
      BY <1>1 DEF mentioned
    <2>2. Marked(n, p, swaps, mentioned, mint)
      BY <1>2, <1>10, <1>11, <2>1, RewriteMarks
    <2> QED BY <2>2 DEF Marked, book
  <1>15. /\ \A l \in founded : mint[WordsOf[l]] \notin Minted
         /\ Minted \subseteq Minted'
         /\ \A r \in refs : r \notin Gone(n, p) => r \in refs'
         /\ \A s \in swaps : <<s[1][1], s[2]>> \in refs'
         /\ \A l \in hinted : <<hints[l], l>> \in refs'
         /\ \A l \in matched : <<match[l], l>> \in refs'
         /\ \A l \in founded : <<mint[WordsOf[l]], l>> \in refs'
    BY <1>1, <1>6, <1>14
  <1>16. ASSUME NEW e \in Minted, LinesOf(e)' # LinesOf(e)
         PROVE  e \in mentioned \/ \E r \in Gone(n, p) : r[1] = e
    <2>1. PICK l \in Lines : <<e, l>> \in refs <=> <<e, l>> \notin refs'
      BY <1>16 DEF LinesOf
    <2>2. CASE <<e, l>> \in refs
      BY <1>1, <2>1, <2>2
    <2>3. CASE <<e, l>> \in refs'
      <3>1. CASE \E s \in swaps : <<e, l>> = <<s[1][1], s[2]>>
        BY <1>2, <3>1
      <3>2. CASE \E k \in hinted : <<e, l>> = <<hints[k], k>>
        BY <1>13, <3>2
      <3>3. CASE \E k \in matched : <<e, l>> = <<match[k], k>>
        BY <1>12, <3>3
      <3>4. CASE \E k \in founded : <<e, l>> = <<mint[WordsOf[k]], k>>
        BY <1>15, <3>4
      <3> QED BY <1>1, <2>1, <2>3, <3>1, <3>2, <3>3, <3>4
    <2> QED BY <2>1, <2>2, <2>3
  <1>17. ASSUME NEW e \in Minted, IsLive(e), HoldsLine(e), ~HoldsLine(e)'
         PROVE  entry'[e].state = "needs_review"
    <2>1. \A r \in refs' : r[1] # e
      <3>1. \A r \in refs' : r = <<r[1], r[2]>> /\ r[2] \in Lines
        <4>1. \A r \in refs : r = <<r[1], r[2]>> /\ r[2] \in Lines
          BY DEF TablesOK
        <4>2. \A s \in swaps : s[2] \in Lines
          BY <1>2 DEF Readable
        <4>3. \A l \in unpaired : l \in Lines
          BY <1>2 DEF Readable
        <4> QED BY <1>1, <1>3, <1>5, <4>1, <4>2, <4>3
      <3> QED BY <1>17, <3>1 DEF HoldsLine
    <2>2. PICK l \in Lines : <<e, l>> \in refs
      BY <1>17 DEF HoldsLine
    <2>3. <<e, l>> \in Gone(n, p)
      BY <1>1, <2>1, <2>2
    <2>4. ASSUME NEW s \in swaps PROVE s[1] # <<e, l>>
      <3>1. <<s[1][1], s[2]>> \in refs'
        BY <1>1
      <3>2. s[1][1] # e
        BY <2>1, <3>1
      <3> QED BY <3>2
    <2>5. e \notin mentioned
      <3>1. \A k \in matched : <<match[k], k>> \in refs'
        BY <1>1
      <3>2. \A k \in hinted : <<hints[k], k>> \in refs'
        BY <1>1
      <3>3. \A f \in mentioned :
               (\E k \in matched : f = match[k]) \/ \E k \in hinted : f = hints[k]
        BY <1>1 DEF mentioned, Image
      <3>4. \A k \in matched : match[k] # e
        BY <2>1, <3>1
      <3>5. \A k \in hinted : hints[k] # e
        BY <2>1, <3>2
      <3> QED BY <3>3, <3>4, <3>5
    <2>6. \E r \in Gone(n, p) : r[1] = e /\ \A s \in swaps : s[1] # r
      BY <2>3, <2>4
    <2> QED BY <1>14, <1>17, <2>1, <2>5, <2>6
  <1>18. ASSUME NEW e \in Minted' \ Minted, NEW f \in Minted' \ {e},
                entry'[f].state \in LiveStates
         PROVE  entry'[f].words # entry'[e].words
    <2>1. PICK w \in DOMAIN mint : mint[w] = e /\ entry'[e].words = w
      BY <1>14
    <2>2. w \in newWords
      BY <1>1
    <2>3. CASE f \in Minted
      <3>1. IsLive(f)
        BY <1>14, <1>18, <2>3 DEF IsLive
      <3> QED BY <1>7, <1>14, <2>1, <2>2, <2>3, <3>1
    <2>4. CASE f \in Image(mint)
      BY <1>14, <2>1, <2>4
    <2> QED BY <1>14, <2>3, <2>4
  <1>19. ASSUME NEW l \in AskedLines(p), p.asks \subseteq p.lines
         PROVE  \E e \in Minted' : <<e, l>> \in refs'
    <2>1. l \in p.lines /\ l \in Lines
      BY <1>19 DEF AskedLines, Readable
    <2>2. CASE l \notin Fresh(p)
      <3>1. PICK r \in refs : r[2] = l
        BY <2>1, <2>2 DEF Fresh
      <3>2. r = <<r[1], l>> /\ r[1] \in Minted
        BY <3>1 DEF TablesOK
      <3>3. r \notin Gone(n, p)
        BY <2>1, <3>1 DEF Gone
      <3> QED BY <1>15, <3>1, <3>2, <3>3
    <2>3. CASE \E s \in swaps : s[2] = l
      <3>1. PICK s \in swaps : s[2] = l
        BY <2>3
      <3>2. <<s[1][1], l>> \in refs' /\ s[1][1] \in Minted
        BY <1>1, <1>2, <3>1 DEF Gone, TablesOK
      <3> QED BY <1>14, <3>2
    <2>4. CASE l \in hinted
      BY <1>1, <1>3, <1>14, <2>4
    <2>5. CASE l \in matched
      BY <1>1, <1>4, <1>14, <2>5
    <2>6. CASE l \in unpaired \ (hinted \cup matched)
      <3>1. l \in founded
        BY <1>8, <1>9, <2>6
      <3>2. mint[WordsOf[l]] \in Image(mint)
        BY <1>1, <1>6, <3>1 DEF Image
      <3> QED BY <1>1, <1>14, <3>1, <3>2
    <2> QED BY <1>2, <2>2, <2>3, <2>4, <2>5, <2>6
  <1>20. \A r \in refs : NoteOf[r[2]] # n => r \in refs'
    BY <1>1 DEF Gone
  <1>21. ASSUME p.asks \subseteq p.lines, NoRepeats(p) PROVE AllSettled(n, p)'
    <2>1. ASSUME NEW r \in refs', NoteOf[r[2]] = n PROVE r[2] \in p.lines
      <3>1. CASE r \in refs \ Gone(n, p)
        BY <2>1, <3>1 DEF Gone
      <3>2. CASE r \notin refs \ Gone(n, p)
        BY <1>1, <1>2, <1>3, <1>5, <3>2
      <3> QED BY <3>1, <3>2
    <2>2. ASSUME NEW r \in refs', r[2] \in p.lines
          PROVE  entry'[r[1]].project = p.project \/ ~Follows(entry'[r[1]], p)
      <3>1. CASE r \in refs \ Gone(n, p)
        <4>1. r[1] \in Minted /\ r \in Kept(n, p)
          BY <2>2, <3>1 DEF TablesOK, Kept, Readable
        <4> QED BY <1>14, <4>1
      <3>2. CASE \E s \in swaps : r = <<s[1][1], s[2]>>
        <4>1. PICK s \in swaps : r = <<s[1][1], s[2]>>
          BY <3>2
        <4>2. s[1][1] \in Minted /\ r[1] = s[1][1]
          BY <1>2, <4>1 DEF Gone, TablesOK
        <4> QED BY <1>14, <4>2
      <3>3. CASE \E l \in hinted : r = <<hints[l], l>>
        BY <1>3, <1>13, <1>14, <3>3
      <3>4. CASE \E l \in matched : r = <<match[l], l>>
        BY <1>4, <1>12, <1>14, <3>4
      <3>5. CASE \E l \in founded : r = <<mint[WordsOf[l]], l>>
        <4>1. PICK l \in founded : r = <<mint[WordsOf[l]], l>>
          BY <3>5
        <4>2. r[1] \in Image(mint)
          BY <1>1, <1>6, <4>1 DEF Image
        <4> QED BY <1>14, <4>2
      <3> QED BY <1>1, <3>1, <3>2, <3>3, <3>4, <3>5
    <2>3. ASSUME NEW l \in p.lines, \A r \in refs' : r[2] # l
          PROVE  /\ l \notin AskedLines(p)
                 /\ \A e \in Minted' : entry'[e].state \in LiveStates =>
                       entry'[e].words # WordsOf[l]
      <3>1. l \notin AskedLines(p)
        BY <1>19, <1>21, <2>3
      <3>2. l \in Fresh(p)
        <4>1. ASSUME NEW r \in refs, r[2] = l PROVE FALSE
          <5>1. r \notin Gone(n, p)
            BY <4>1 DEF Gone
          <5> QED BY <1>15, <2>3, <4>1, <5>1
        <4> QED BY <4>1 DEF Fresh
      <3>3. l \in unpaired \ (hinted \cup matched) /\ l \notin founded
        <4>1. ASSUME NEW s \in swaps, s[2] = l PROVE FALSE
          <5>1. <<s[1][1], l>> \in refs'
            BY <1>15, <4>1
          <5> QED BY <2>3, <5>1
        <4>2. l \notin hinted /\ l \notin matched /\ l \notin founded
          <5>1. \A e : <<e, l>> \notin refs'
            BY <2>3
          <5> QED BY <1>15, <5>1
        <4> QED BY <1>2, <3>2, <4>1, <4>2
      <3>4. \A e \in Minted : IsLive(e) => book[e].words # WordsOf[l]
        BY <3>3 DEF matched, LiveMatches, book, AfterSwaps
      <3>5. \A w \in newWords : w # WordsOf[l]
        <4>1. ASSUME NEW k \in founders, WordsOf[k] = WordsOf[l] PROVE FALSE
          <5>1. k \in p.lines
            BY <1>2 DEF founders, Founders
          <5>2. k = l
            BY <1>21, <4>1, <5>1 DEF NoRepeats
          <5> QED BY <1>8, <3>3, <5>2, <4>1
        <4> QED BY <4>1 DEF newWords, NewWords
      <3>6. ASSUME NEW e \in Minted, entry'[e].state \in LiveStates
            PROVE  entry'[e].words # WordsOf[l]
        BY <1>14, <3>4, <3>6 DEF IsLive
      <3>7. ASSUME NEW e \in Image(mint)
            PROVE  entry'[e].words # WordsOf[l]
        BY <1>1, <1>14, <3>5
      <3> QED BY <1>14, <3>1, <3>6, <3>7
    <2> QED BY <2>1, <2>2, <2>3 DEF AllSettled, IsLive, AskedLines
  <1> QED
    BY <1>14, <1>16, <1>17, <1>18, <1>19, <1>20, <1>21

\* Reading a settled page again writes nothing.
LEMMA SettledIsQuiet ==
    ASSUME TablesOK, NEW n, NEW p, Readable(n, p), AllSettled(n, p),
           p.asks \subseteq p.lines, Reconcile(n, p, NoHints)
    PROVE  entry' = entry /\ refs' = refs /\ dirty' = dirty
  <1> DEFINE swaps == PageSwaps(n, p)
             unpaired == Unpaired(n, p)
             book == AfterSwaps(swaps, p.aliases)
             hinted == Hinted(unpaired, NoHints)
             matched == {l \in unpaired \ hinted : LiveMatches(book, WordsOf[l]) # {}}
             founders == Founders(unpaired \ hinted, p)
             newWords == NewWords(book, founders)
             founded == {l \in unpaired \ (hinted \cup matched) :
                            \E k \in founders : WordsOf[k] = WordsOf[l] /\ k <= l}
  <1>1. PICK mint \in [newWords -> Entries \ Minted], match \in [matched -> Minted] :
          /\ refs' = (refs \ Gone(n, p))
                       \cup {<<s[1][1], s[2]>> : s \in swaps}
                       \cup {<<NoHints[l], l>> : l \in hinted}
                       \cup {<<match[l], l>> : l \in matched}
                       \cup {<<mint[WordsOf[l]], l>> : l \in founded}
          /\ Rewrite(n, p, swaps, Image(match) \cup {NoHints[l] : l \in hinted}, mint)
    BY DEF Reconcile
  <1>2. Gone(n, p) = {}
    BY DEF AllSettled, Gone
  <1>3. swaps = {}
    BY <1>2, SwapsPair DEF PageSwaps
  <1>4. unpaired = Fresh(p) /\ Fresh(p) \subseteq p.lines
    BY <1>3 DEF Unpaired, Fresh
  <1>5. hinted = {}
    BY DEF Hinted, NoHints
  <1>6. book = entry
    BY <1>3 DEF AfterSwaps, TablesOK
  <1> HIDE DEF swaps, unpaired, book
  <1>7. matched = {}
    <2>1. ASSUME NEW l \in unpaired PROVE LiveMatches(book, WordsOf[l]) = {}
      <3>1. \A r \in refs : r[2] # l
        BY <1>4 DEF Fresh
      <3>2. \A e \in Minted : IsLive(e) => entry[e].words # WordsOf[l]
        BY <1>4, <3>1 DEF AllSettled
      <3> QED BY <1>6, <3>2 DEF LiveMatches, Minted
    <2> QED BY <2>1
  <1>8. founders = {}
    <2>1. ASSUME NEW l \in founders PROVE FALSE
      <3>1. l \in unpaired /\ l \in AskedLines(p)
        BY DEF Founders, AskedLines
      <3> QED BY <1>4, <3>1 DEF AllSettled, Fresh
    <2> QED BY <2>1
  <1>9. newWords = {} /\ founded = {}
    BY <1>8 DEF NewWords
  <1> HIDE DEF hinted, matched, founders, newWords, founded
  <1>10. refs' = refs
    BY <1>1, <1>2, <1>3, <1>5, <1>7, <1>9
  <1>11. Image(match) \cup {NoHints[l] : l \in hinted} = {} /\ Image(mint) = {}
    BY <1>1, <1>5, <1>7, <1>9 DEF Image
  <1>12. Rewrite(n, p, {}, {}, mint)
    BY <1>1, <1>3, <1>11
  <1> DEFINE moving == {r[1] : r \in Kept(n, p)}
             filed(e) == IF e \in moving /\ Follows(entry[e], p)
                         THEN [entry[e] EXCEPT !.project = p.project] ELSE entry[e]
  <1>13. /\ entry' = [e \in Minted |-> filed(e)]
         /\ dirty' = dirty \cup Homes({e \in moving : filed(e).project # entry[e].project}, entry')
    BY <1>2, <1>6, <1>11, <1>12, <1>3 DEF Rewrite, MarkDirty, book
  <1>14. ASSUME NEW e \in Minted PROVE filed(e) = entry[e]
    <2>1. CASE e \in moving /\ Follows(entry[e], p)
      <3>1. entry[e].project = p.project
        BY <2>1 DEF AllSettled, Kept
      <3> QED BY <2>1, <3>1 DEF TablesOK, EntryRec
    <2>2. CASE ~(e \in moving /\ Follows(entry[e], p))
      BY <2>2
    <2> QED BY <2>1, <2>2
  <1>15. moving \subseteq Minted
    BY DEF Kept, TablesOK
  <1> HIDE DEF moving, filed
  <1>16. entry' = entry
    BY <1>13, <1>14 DEF TablesOK
  <1>17. dirty' = dirty
    BY <1>13, <1>14, <1>15 DEF Homes
  <1> QED BY <1>10, <1>16, <1>17

-----------------------------------------------------------------------------
(* What one job may do, and that each job does no more.                    *)

Settles(e) ==
    entry[e].state \in TerminalStates /\ entry'[e].state # entry[e].state
      => /\ entry'[e].state = "open"
         /\ entry'[e].touched \/ entry[e].untrackedVia \in MachineSources

Marks(e) ==
    Row(e)' # Row(e) =>
        \/ entry[e].project \in dirty' /\ entry'[e].project \in dirty'
        \/ call' = <<"reopen", e>>
        \/ OnlyTouches(e)

Asks(e) ==
    IsLive(e) /\ HoldsLine(e) /\ ~HoldsLine(e)'
      => entry'[e].state \in {"needs_review", "superseded"}

Founds(e) ==
    /\ entry'[e].project \in dirty'
    /\ entry'[e].enrolledVia # "manual" =>
         \A f \in Minted' \ {e} :
            entry'[f].state \in LiveStates => entry'[f].words # entry'[e].words

JobStep ==
    /\ \A e \in Minted : Settles(e) /\ Marks(e) /\ Asks(e)
    /\ \A e \in Minted' \ Minted : Founds(e)

\* Each move writes a row of its state, in the project it was in.
LEMMA MoveTypes ==
    ASSUME NEW r \in EntryRec
    PROVE  /\ AsOpen(r) \in EntryRec /\ AsOpen(r).state = "open"
           /\ AsOpen(r).project = r.project
           /\ Moved(r, "waived") \in EntryRec /\ Moved(r, "waived").state = "waived"
           /\ Moved(r, "waived").project = r.project
           /\ AsSnoozed(r) \in EntryRec /\ AsSnoozed(r).state = "snoozed"
           /\ AsSnoozed(r).project = r.project
           /\ \A via \in {"manual", "conversation"} :
                 /\ AsClosed(r, via) \in EntryRec /\ AsClosed(r, via).state = "closed"
                 /\ AsClosed(r, via).project = r.project
           /\ \A via \in MachineSources \cup {"manual"} :
                 /\ AsUntracked(r, via) \in EntryRec /\ AsUntracked(r, via).state = "untracked"
                 /\ AsUntracked(r, via).project = r.project
  <1> USE DEF EntryRec, LiveStates, TerminalStates, Moved
  <1>1. /\ AsOpen(r) \in EntryRec /\ AsOpen(r).state = "open"
        /\ AsOpen(r).project = r.project
    BY DEF AsOpen
  <1>2. /\ Moved(r, "waived") \in EntryRec /\ Moved(r, "waived").state = "waived"
        /\ Moved(r, "waived").project = r.project
    OBVIOUS
  <1>3. /\ AsSnoozed(r) \in EntryRec /\ AsSnoozed(r).state = "snoozed"
        /\ AsSnoozed(r).project = r.project
    BY DEF AsSnoozed
  <1>4. ASSUME NEW via \in {"manual", "conversation"}
        PROVE  /\ AsClosed(r, via) \in EntryRec /\ AsClosed(r, via).state = "closed"
               /\ AsClosed(r, via).project = r.project
    <2> DEFINE m == Moved(r, "closed")
    <2>1. m \in EntryRec /\ m.state = "closed" /\ m.project = r.project
      OBVIOUS
    <2> HIDE DEF m
    <2>2. LET q == [m EXCEPT !.closedVia = via]
          IN  q \in EntryRec /\ q.state = "closed" /\ q.project = r.project
      BY <2>1
    <2> QED
      BY <2>2 DEF AsClosed, m
  <1>5. ASSUME NEW via \in MachineSources \cup {"manual"}
        PROVE  /\ AsUntracked(r, via) \in EntryRec /\ AsUntracked(r, via).state = "untracked"
               /\ AsUntracked(r, via).project = r.project
    <2> DEFINE m == Moved(r, "untracked")
    <2>1. m \in EntryRec /\ m.state = "untracked" /\ m.project = r.project
      OBVIOUS
    <2> HIDE DEF m
    <2>2. LET q == [m EXCEPT !.untrackedVia = via]
          IN  q \in EntryRec /\ q.state = "untracked" /\ q.project = r.project
      BY <2>1
    <2> QED
      BY <2>2 DEF AsUntracked, m
  <1> QED
    BY <1>1, <1>2, <1>3, <1>4, <1>5

\* A job that leaves the lines where they are.
LEMMA InPlaceStep ==
    ASSUME Minted' = Minted, refs' = refs,
           \A e \in Minted : Settles(e) /\ Marks(e)
    PROVE  JobStep
  BY DEF JobStep, Asks, HoldsLine

\* A judgement of one row.
LEMMA JudgedStep ==
    ASSUME TablesOK, NEW e \in Minted, NEW r \in EntryRec, Judge(e, r),
           \/ r.state = entry[e].state
           \/ r.state = "open"
           \/ entry[e].state \notin TerminalStates,
           r.project = entry[e].project,
           refs' = refs,
           \A k : k[1] # e => (k \in links' <=> k \in links),
           \A f \in Minted \ {e}, c \in Claims : <<f, c>> \in claims' <=> <<f, c>> \in claims,
           entry[e].project \in dirty' \/ OnlyTouches(e)
    PROVE  JobStep
  <1>1. /\ Minted' = Minted
        /\ \A f \in Minted \ {e} : entry'[f] = entry[f]
        /\ entry'[e] = AsTouched(r)
    BY DEF Judge, TablesOK, Minted
  <1>2. /\ AsTouched(r).state = r.state /\ AsTouched(r).touched
        /\ AsTouched(r).project = r.project
    BY DEF AsTouched, EntryRec
  <1>3. \A f \in Minted : Settles(f)
    BY <1>1, <1>2 DEF Settles
  <1>4. ASSUME NEW f \in Minted \ {e} PROVE Row(f)' = Row(f)
    <2>1. {k \in links : k[1] = f}' = {k \in links : k[1] = f}
      OBVIOUS
    <2>2. {c \in Claims : <<f, c>> \in claims}' = {c \in Claims : <<f, c>> \in claims}
      OBVIOUS
    <2>3. LinesOf(f)' = LinesOf(f)
      BY DEF LinesOf
    <2> QED BY <1>1, <2>1, <2>2, <2>3 DEF Row
  <1>5. Marks(e)
    BY <1>1, <1>2 DEF Marks
  <1>6. \A f \in Minted : Marks(f)
    BY <1>4, <1>5 DEF Marks
  <1> QED BY <1>1, <1>3, <1>6, InPlaceStep

\* A judgement that finds its work done, and sets the touched flag.
LEMMA TouchStep ==
    ASSUME TablesOK, NEW e \in Minted, Judge(e, entry[e]), refs' = refs,
           links' = links, claims' = claims,
           \/ \E l \in Lines : TrackHeldLine(e, l)
           \/ ClaimMine(e)
           \/ FinishDismissal(e)
    PROVE  JobStep
  <1>1. entry'[e] = AsTouched(entry[e])
    BY DEF Judge, TablesOK
  <1>2. Row(e)' = <<AsTouched(entry[e]), Row(e)[2], Row(e)[3], Row(e)[4]>>
    BY <1>1 DEF Row, LinesOf
  <1>3. OnlyTouches(e)
    BY <1>2 DEF OnlyTouches
  <1> QED BY <1>3, JudgedStep DEF TablesOK

\* A person judges an entry.
LEMMA JudgeEntryStep == ASSUME IInv, JudgeEntry PROVE JobStep
  <1>1. PICK e \in Minted :
          \/ Close(e) \/ Waive(e) \/ Snooze(e) \/ Untrack(e) \/ Reopen(e) \/ ClaimMine(e)
          \/ \E c \in Claims : ConfirmEvidence(e, c)
    BY DEF JudgeEntry
  <1>2. TablesOK /\ entry[e] \in EntryRec
    BY DEF IInv, TablesOK
  <1>3. "manual" \in {"manual", "conversation"} /\ "conversation" \in {"manual", "conversation"}
        /\ "manual" \in MachineSources \cup {"manual"}
    OBVIOUS
  <1>4. CASE Close(e)
    <2>1. AsClosed(entry[e], "manual") \in EntryRec
          /\ AsClosed(entry[e], "manual").state = "closed"
          /\ AsClosed(entry[e], "manual").project = entry[e].project
      BY <1>2, <1>3, MoveTypes
    <2> QED BY <1>2, <1>4, <2>1, JudgedStep
      DEF Close, MarkDirty, TransitionAllowed, LiveStates, TerminalStates
  <1>5. CASE Waive(e)
    <2>1. Moved(entry[e], "waived") \in EntryRec
          /\ Moved(entry[e], "waived").state = "waived"
          /\ Moved(entry[e], "waived").project = entry[e].project
      BY <1>2, MoveTypes
    <2> QED BY <1>2, <1>5, <2>1, JudgedStep
      DEF Waive, MarkDirty, TransitionAllowed, LiveStates, TerminalStates
  <1>6. CASE Snooze(e)
    <2>1. AsSnoozed(entry[e]) \in EntryRec
          /\ AsSnoozed(entry[e]).state = "snoozed"
          /\ AsSnoozed(entry[e]).project = entry[e].project
      BY <1>2, MoveTypes
    <2> QED BY <1>2, <1>6, <2>1, JudgedStep
      DEF Snooze, MarkDirty, TransitionAllowed, LiveStates, TerminalStates
  <1>7. CASE Untrack(e)
    <2>1. AsUntracked(entry[e], "manual") \in EntryRec
          /\ AsUntracked(entry[e], "manual").state = "untracked"
          /\ AsUntracked(entry[e], "manual").project = entry[e].project
      BY <1>2, <1>3, MoveTypes
    <2> QED BY <1>2, <1>7, <2>1, JudgedStep
      DEF Untrack, MarkDirty, TransitionAllowed, LiveStates, TerminalStates
  <1>8. CASE Reopen(e)
    <2>1. AsOpen(entry[e]) \in EntryRec /\ AsOpen(entry[e]).state = "open"
          /\ AsOpen(entry[e]).project = entry[e].project
      BY <1>2, MoveTypes
    <2> QED BY <1>2, <1>8, <2>1, JudgedStep DEF Reopen, Opened, MarkDirty
  <1>9. CASE ClaimMine(e)
    <2> DEFINE r == [entry[e] EXCEPT !.direction = "mine"]
    <2>1. r \in EntryRec /\ r.state = entry[e].state /\ r.project = entry[e].project
      BY <1>2 DEF EntryRec
    <2>2. entry[e].direction = "mine" => r = entry[e]
      BY <1>2 DEF EntryRec
    <2>3. Judge(e, r) /\ refs' = refs /\ links' = links /\ claims' = claims
          /\ (entry[e].direction # "mine" => entry[e].project \in dirty')
      BY <1>9 DEF ClaimMine, MarkDirty
    <2> HIDE DEF r
    <2>4. CASE entry[e].direction = "mine"
      BY <1>2, <1>9, <2>2, <2>3, <2>4, TouchStep
    <2>5. CASE entry[e].direction # "mine"
      BY <1>2, <2>1, <2>3, <2>5, JudgedStep
    <2> QED BY <2>4, <2>5
  <1>10. ASSUME NEW c \in Claims, ConfirmEvidence(e, c) PROVE JobStep
    <2>1. AsClosed(entry[e], "conversation") \in EntryRec
          /\ AsClosed(entry[e], "conversation").state = "closed"
          /\ AsClosed(entry[e], "conversation").project = entry[e].project
      BY <1>2, <1>3, MoveTypes
    <2> QED BY <1>2, <1>10, <2>1, JudgedStep
      DEF ConfirmEvidence, MarkDirty, TransitionAllowed, LiveStates, TerminalStates
  <1> QED
    BY <1>1, <1>4, <1>5, <1>6, <1>7, <1>8, <1>9, <1>10

\* A call that commits twice: the first commit of a reopening alone marks
\* nothing, and the second does.
LEMMA CallStep == ASSUME IInv, BeginCall \/ FinishCall PROVE JobStep
  <1>1. PICK e \in Minted :
          \/ UnlinkToReopen(e) \/ FinishReopen(e) \/ FinishDismissal(e)
          \/ \E c \in Claims : DismissEvidence(e, c)
    BY DEF BeginCall, FinishCall
  <1>2. TablesOK /\ entry[e] \in EntryRec
    BY DEF IInv, TablesOK
  <1>3. ASSUME entry' = entry, refs' = refs,
               \A f \in Minted \ {e} : {k \in links' : k[1] = f} = {k \in links : k[1] = f},
               \A f \in Minted \ {e}, c \in Claims : <<f, c>> \in claims' <=> <<f, c>> \in claims,
               Marks(e)
        PROVE  JobStep
    <2>1. Minted' = Minted /\ \A f \in Minted : LinesOf(f)' = LinesOf(f)
      BY <1>3 DEF Minted, LinesOf
    <2>2. ASSUME NEW f \in Minted \ {e} PROVE Row(f)' = Row(f)
      <3>1. {c \in Claims : <<f, c>> \in claims}' = {c \in Claims : <<f, c>> \in claims}
        BY <1>3
      <3> QED BY <1>3, <2>1, <3>1 DEF Row
    <2>3. \A f \in Minted : Settles(f) /\ Marks(f)
      BY <1>3, <2>2 DEF Settles, Marks
    <2> QED BY <1>3, <2>1, <2>3, InPlaceStep
  <1>4. CASE UnlinkToReopen(e)
    <2>1. Marks(e)
      BY <1>4 DEF UnlinkToReopen, Marks
    <2> QED BY <1>3, <1>4, <2>1 DEF UnlinkToReopen, Unlinked
  <1>5. ASSUME NEW c \in Claims, DismissEvidence(e, c) PROVE JobStep
    <2>1. /\ claims' = claims \ {<<e, c>>} /\ UNCHANGED <<entry, refs, links>>
          /\ <<e, c>> \in claims => entry[e].project \in dirty'
      BY <1>5 DEF DismissEvidence, MarkDirty
    <2>2. <<e, c>> \notin claims => claims' = claims
      BY <2>1
    <2>3. Marks(e)
      BY <2>1, <2>2 DEF Marks, Row, LinesOf
    <2> QED BY <1>3, <2>1, <2>3
  <1>6. CASE Opened(e)
    <2>1. AsOpen(entry[e]) \in EntryRec /\ AsOpen(entry[e]).state = "open"
          /\ AsOpen(entry[e]).project = entry[e].project
      BY <1>2, MoveTypes
    <2> QED BY <1>2, <1>6, <2>1, JudgedStep DEF Opened, MarkDirty
  <1>7. CASE FinishDismissal(e) /\ ~Opened(e)
    <2>1. Judge(e, entry[e]) /\ UNCHANGED <<refs, links, claims>>
      BY <1>7 DEF FinishDismissal
    <2> QED BY <1>2, <1>7, <2>1, TouchStep
  <1> QED
    BY <1>1, <1>4, <1>5, <1>6, <1>7 DEF FinishReopen

\* A meeting's tracking flips.
LEMMA RetroApplyStep == ASSUME IInv, RetroApply PROVE JobStep
  <1>1. PICK n \in Notes, project \in Projects :
          \/ \E source \in MachineSources : RetroApplyContextOnly(n, project, source)
          \/ RetroApplyTracked(n, project)
    BY DEF RetroApply
  <1>2. \A e \in Minted : entry[e] \in EntryRec
    BY DEF IInv, TablesOK
  <1>3. ASSUME NEW source \in MachineSources, RetroApplyContextOnly(n, project, source)
        PROVE  JobStep
    <2>1. /\ Minted' = Minted /\ refs' = refs /\ links' = links /\ claims' = claims
          /\ \A e \in Overridable(n) : entry'[e] = AsUntracked(entry[e], source)
          /\ \A e \in Minted \ Overridable(n) : entry'[e] = entry[e]
          /\ \A e \in Overridable(n) : entry[e].project \in dirty'
      BY <1>3 DEF RetroApplyContextOnly, Overridable, Minted, MarkDirty
    <2>2. ASSUME NEW e \in Overridable(n)
          PROVE  e \in Minted /\ Settles(e) /\ Marks(e)
      <3>1. e \in Minted /\ entry[e].state \notin TerminalStates
        BY DEF Overridable, IsLive, LiveStates, TerminalStates
      <3>2. AsUntracked(entry[e], source).project = entry[e].project
        BY <1>2, <3>1, MoveTypes
      <3> QED BY <2>1, <3>1, <3>2 DEF Settles, Marks
    <2>3. ASSUME NEW e \in Minted \ Overridable(n)
          PROVE  Settles(e) /\ Marks(e)
      BY <2>1 DEF Settles, Marks, Row, LinesOf
    <2> QED BY <2>1, <2>2, <2>3, InPlaceStep
  <1>4. CASE RetroApplyTracked(n, project)
    <2>1. /\ Minted' = Minted /\ refs' = refs /\ links' = links /\ claims' = claims
          /\ \A e \in Revivable(n) : entry'[e] = AsOpen(entry[e])
          /\ \A e \in Minted \ Revivable(n) : entry'[e] = entry[e]
          /\ \A e \in Revivable(n) : entry[e].project \in dirty'
      BY <1>4 DEF RetroApplyTracked, Revivable, Minted, MarkDirty
    <2>2. ASSUME NEW e \in Revivable(n)
          PROVE  e \in Minted /\ Settles(e) /\ Marks(e)
      <3>1. e \in Minted /\ entry[e].untrackedVia \in MachineSources
        BY DEF Revivable
      <3>2. AsOpen(entry[e]).project = entry[e].project /\ AsOpen(entry[e]).state = "open"
        BY <1>2, <3>1, MoveTypes
      <3> QED BY <2>1, <3>1, <3>2 DEF Settles, Marks
    <2>3. ASSUME NEW e \in Minted \ Revivable(n)
          PROVE  Settles(e) /\ Marks(e)
      BY <2>1 DEF Settles, Marks, Row, LinesOf
    <2> QED BY <2>1, <2>2, <2>3, InPlaceStep
  <1> QED BY <1>1, <1>3, <1>4

\* An alias is learned.
LEMMA RetroResolveStep ==
    ASSUME IInv, NEW aliases, RetroResolveOwners(aliases)
    PROVE  JobStep
  <1>1. /\ Minted' = Minted /\ refs' = refs /\ links' = links /\ claims' = claims
        /\ \A e \in Unresolved(aliases) : entry'[e] = [entry[e] EXCEPT !.direction = "mine"]
        /\ \A e \in Minted \ Unresolved(aliases) : entry'[e] = entry[e]
        /\ \A e \in Unresolved(aliases) : entry[e].project \in dirty'
    BY DEF RetroResolveOwners, Unresolved, Minted, MarkDirty
  <1>2. ASSUME NEW e \in Unresolved(aliases)
        PROVE  e \in Minted /\ Settles(e) /\ Marks(e)
    <2>1. e \in Minted /\ entry[e] \in EntryRec
      BY DEF Unresolved, IInv, TablesOK
    <2>2. /\ [entry[e] EXCEPT !.direction = "mine"].state = entry[e].state
          /\ [entry[e] EXCEPT !.direction = "mine"].project = entry[e].project
      BY <2>1 DEF EntryRec
    <2> QED BY <1>1, <2>1, <2>2 DEF Settles, Marks
  <1>3. ASSUME NEW e \in Minted \ Unresolved(aliases)
        PROVE  Settles(e) /\ Marks(e)
    BY <1>1 DEF Settles, Marks, Row, LinesOf
  <1> QED BY <1>1, <1>2, <1>3, InPlaceStep

\* A person promotes a line.
LEMMA TrackItemStep == ASSUME IInv, TrackItem PROVE JobStep
  <1>1. PICK e \in Entries, l \in Lines :
          TrackHeldLine(e, l) \/ \E p \in Pages : TrackFreeLine(e, l, p)
    BY DEF TrackItem
  <1>2. CASE TrackHeldLine(e, l)
    <2>1. e \in Minted /\ entry[e] \in EntryRec /\ TablesOK
      BY <1>2 DEF TrackHeldLine, IInv, TablesOK
    <2>2. refs' = refs /\ links' = links /\ claims' = claims
      BY <1>2 DEF TrackHeldLine
    <2>3. CASE entry[e].state = "untracked"
      <3> DEFINE r == [AsOpen(entry[e]) EXCEPT !.enrolledVia = "manual"]
      <3>1. AsOpen(entry[e]) \in EntryRec /\ AsOpen(entry[e]).state = "open"
            /\ AsOpen(entry[e]).project = entry[e].project
        BY <2>1, MoveTypes
      <3>2. r \in EntryRec /\ r.state = "open" /\ r.project = entry[e].project
        BY <3>1 DEF EntryRec
      <3>3. Judge(e, r) /\ entry[e].project \in dirty'
        BY <1>2, <2>3 DEF TrackHeldLine, MarkDirty
      <3> HIDE DEF r
      <3> QED BY <2>1, <2>2, <3>2, <3>3, JudgedStep
    <2>4. CASE entry[e].state # "untracked"
      <3>1. Judge(e, entry[e])
        BY <1>2, <2>4 DEF TrackHeldLine
      <3> QED BY <1>2, <2>1, <2>2, <3>1, TouchStep
    <2> QED BY <2>3, <2>4
  <1>3. ASSUME NEW p \in Pages, TrackFreeLine(e, l, p) PROVE JobStep
    <2>1. /\ e \notin Minted /\ Minted' = Minted \cup {e}
          /\ \A f \in Minted : entry'[f] = entry[f]
          /\ links' = links /\ claims' = claims
          /\ refs' = refs \cup {<<e, l>>}
          /\ p.project \in dirty'
      BY <1>3 DEF TrackFreeLine, Minted, MarkDirty
    <2>2. /\ entry'[e].project = p.project /\ entry'[e].enrolledVia = "manual"
      BY <1>3 DEF TrackFreeLine, AsTouched, OpenEntry
    <2>3. ASSUME NEW f \in Minted PROVE LinesOf(f)' = LinesOf(f)
      BY <2>1 DEF LinesOf
    <2>4. \A f \in Minted : HoldsLine(f)' = HoldsLine(f)
      BY <2>1 DEF HoldsLine
    <2>5. \A f \in Minted : Settles(f) /\ Marks(f) /\ Asks(f)
      BY <2>1, <2>3, <2>4 DEF Settles, Marks, Asks, Row
    <2> QED BY <2>1, <2>2, <2>5 DEF JobStep, Founds
  <1> QED BY <1>1, <1>2, <1>3

\* A note is read, or gone.
LEMMA ReconcileJobStep ==
    ASSUME IInv, NEW n, NEW p, Readable(n, p), NEW hints, Reconcile(n, p, hints)
    PROVE  JobStep
  <1>1. TablesOK /\ links' = links /\ claims' = claims
    BY DEF IInv, Reconcile
  <1>2. /\ \A e \in Minted :
              /\ entry'[e].state # entry[e].state => IsLive(e)
              /\ (entry'[e] # entry[e] \/ LinesOf(e)' # LinesOf(e))
                 => entry[e].project \in dirty' /\ entry'[e].project \in dirty'
              /\ IsLive(e) /\ HoldsLine(e) /\ ~HoldsLine(e)'
                 => entry'[e].state = "needs_review"
        /\ \A e \in Minted' \ Minted :
              /\ entry'[e].project \in dirty'
              /\ \A f \in Minted' \ {e} :
                    entry'[f].state \in LiveStates => entry'[f].words # entry'[e].words
    BY <1>1, ReconcileMarks
  <1>3. \A e \in Minted : Settles(e)
    BY <1>2 DEF Settles, IsLive, LiveStates, TerminalStates
  <1>4. \A e \in Minted : Marks(e)
    BY <1>1, <1>2 DEF Marks, Row
  <1>5. \A e \in Minted : Asks(e)
    BY <1>2 DEF Asks
  <1> QED BY <1>2, <1>3, <1>4, <1>5 DEF JobStep, Founds

LEMMA JobsStep == ASSUME IInv, Job PROVE JobStep
  <1>1. ASSUME NEW n \in Notes, NEW p \in Pages, Sync(n, p) PROVE JobStep
    <2>1. Readable(n, p) /\ Reconcile(n, p, NoHints)
      BY <1>1, ReadablePages DEF Sync
    <2> QED BY <2>1, ReconcileJobStep
  <1>2. ASSUME NEW n \in Notes, NoteRemoved(n) PROVE JobStep
    BY <1>2, ReadablePages, ReconcileJobStep DEF NoteRemoved
  <1>3. ASSUME entry' = entry, refs' = refs, links' = links, claims' = claims
        PROVE  JobStep
    BY <1>3, InPlaceStep DEF Settles, Marks, Row, LinesOf, Minted
  <1> QED
    BY <1>1, <1>2, <1>3, JudgeEntryStep, RetroApplyStep, RetroResolveStep, TrackItemStep
    DEF Job, SnapshotWritten

LEMMA NextStep == ASSUME IInv, [Next]_ledgerVars PROVE JobStep
  <1>1. ASSUME entry' = entry, refs' = refs, links' = links, claims' = claims
        PROVE  JobStep
    BY <1>1, InPlaceStep DEF Settles, Marks, Row, LinesOf, Minted
  <1> QED
    BY <1>1, JobsStep, CallStep DEF Next, Halt, ledgerVars

-----------------------------------------------------------------------------
(* The action properties.                                                  *)

\* No job undoes a judgement but a person's, or a flip back of the meeting
\* that made the untracking (store.rs, set_state; enrollment.rs).
THEOREM OnlyPeopleReopen == Spec => OnlyAPersonReopens
<1>1. IInv /\ [Next]_ledgerVars =>
        [\A e \in Minted :
           entry[e].state \in TerminalStates /\ entry'[e].state # entry[e].state
             => /\ entry'[e].state = "open"
                /\ entry'[e].touched \/ entry[e].untrackedVia \in MachineSources]_ledgerVars
  BY NextStep DEF JobStep, Settles
<1> QED
  BY <1>1, Invariant, PTL DEF Spec, OnlyAPersonReopens

\* A live entry that loses its last line is put to a person (sync.rs, the
\* parking at the end of reconcile).
THEOREM LostLinesAsk == Spec => LostLineAsks
<1>1. IInv /\ [Next]_ledgerVars =>
        [\A e \in Minted :
           IsLive(e) /\ HoldsLine(e) /\ ~HoldsLine(e)'
             => entry'[e].state \in {"needs_review", "superseded"}]_ledgerVars
  BY NextStep DEF JobStep, Asks
<1> QED
  BY <1>1, Invariant, PTL DEF Spec, LostLineAsks

\* Reading notes never founds a second live entry of the same words (sync.rs,
\* the create step of reconcile).
THEOREM OnePromiseOneEntry == Spec => NoDuplicateMinted
<1>1. IInv /\ [Next]_ledgerVars =>
        [\A e \in DOMAIN entry' \ Minted :
           entry'[e].enrolledVia # "manual" =>
             \A f \in DOMAIN entry' \ {e} :
               entry'[f].state \in LiveStates => entry'[f].words # entry'[e].words]_ledgerVars
  BY NextStep DEF JobStep, Founds, Minted
<1> QED
  BY <1>1, Invariant, PTL DEF Spec, NoDuplicateMinted

\* Whatever a job changes of a row the snapshot serialises, the snapshots it was
\* in and belongs in are marked (store.rs, mark_dirty); but for the three calls
\* that set the touched flag alone, and a reopening's first commit.
THEOREM ChangesAreMarked == Spec => ChangesMarkTheirProjects
<1>1. IInv /\ [Next]_ledgerVars =>
        [\A e \in DOMAIN entry' :
           (e \in Minted => Row(e)' # Row(e))
             => \/ /\ entry'[e].project \in dirty'
                   /\ e \in Minted => entry[e].project \in dirty'
                \/ call' = <<"reopen", e>>
                \/ e \in Minted /\ OnlyTouches(e)]_ledgerVars
  BY NextStep DEF JobStep, Marks, Founds, Minted
<1> QED
  BY <1>1, Invariant, PTL DEF Spec, ChangesMarkTheirProjects

-----------------------------------------------------------------------------
(* What the readings are owed.                                             *)

LEMMA SameNames ==
    /\ \A p : EnrolledLines(p) = AskedLines(p)
    /\ \A p : DistinctWords(p) <=> NoRepeats(p)
  BY DEF EnrolledLines, AskedLines, DistinctWords, NoRepeats

\* The history variables only watch.
LEMMA ReadingStep == [RNext]_vars => [Next]_ledgerVars
  BY DEF RNext, RSync, RNoteRemoved, ROther, RSnapshotWritten, Next, Job, vars, ledgerVars

Held ==
    /\ owed \in [Notes -> SUBSET Lines]
    /\ \A n \in Notes : \A l \in owed[n] : NoteOf[l] = n /\ \E e \in Minted : <<e, l>> \in refs

\* What is held stays held, whatever other notes are read.
LEMMA HeldKept ==
    ASSUME TablesOK, TablesOK', NEW l \in Lines, \E e \in Minted : <<e, l>> \in refs,
           \A r \in refs : r[2] = l => r \in refs'
    PROVE  \E e \in Minted' : <<e, l>> \in refs'
  BY DEF TablesOK

LEMMA ReadingKept ==
    ASSUME IInv, TablesOK', Held, NEW n \in Notes, NEW p, Readable(n, p),
           p.asks \subseteq p.lines, Reconcile(n, p, NoHints),
           owed' = [owed EXCEPT ![n] = EnrolledLines(p)]
    PROVE  Held'
  <1>1. /\ TablesOK
        /\ \A r \in refs : NoteOf[r[2]] # n => r \in refs'
        /\ \A l \in EnrolledLines(p) : \E e \in Minted' : <<e, l>> \in refs'
    BY ReconcileMarks, SameNames DEF IInv
  <1>2. EnrolledLines(p) \subseteq Lines /\ \A l \in EnrolledLines(p) : NoteOf[l] = n
    BY DEF EnrolledLines, Readable
  <1>3. owed' \in [Notes -> SUBSET Lines]
    BY <1>2 DEF Held
  <1>4. ASSUME NEW m \in Notes, NEW l \in owed'[m]
        PROVE  NoteOf[l] = m /\ \E e \in Minted' : <<e, l>> \in refs'
    <2>1. CASE m = n
      BY <1>1, <1>2, <2>1 DEF Held
    <2>2. CASE m # n
      <3>1. l \in owed[m]
        BY <2>2 DEF Held
      <3>2. l \in Lines /\ NoteOf[l] = m /\ \E e \in Minted : <<e, l>> \in refs
        BY <3>1 DEF Held
      <3> QED BY <1>1, <2>2, <3>2, HeldKept
    <2> QED BY <2>1, <2>2
  <1> QED BY <1>3, <1>4 DEF Held

LEMMA HeldStep == ASSUME IInv, Held, [RNext]_vars PROVE Held'
  <1>1. IInv'
    BY ReadingStep, NextInv
  <1>2. TablesOK /\ TablesOK'
    BY <1>1 DEF IInv
  <1>3. ASSUME NEW n \in Notes, NEW p \in Pages, RSync(n, p) PROVE Held'
    <2>1. Readable(n, p) /\ Reconcile(n, p, NoHints) /\ p.asks \subseteq p.lines
      BY <1>3, ReadablePages, PagesAssumption DEF RSync, Sync
    <2> QED BY <1>2, <1>3, <2>1, ReadingKept DEF RSync
  <1>4. ASSUME NEW n \in Notes, RNoteRemoved(n) PROVE Held'
    <2>1. EnrolledLines(RemovedPage) = {} /\ RemovedPage.asks \subseteq RemovedPage.lines
      BY DEF EnrolledLines, RemovedPage
    <2>2. Readable(n, RemovedPage) /\ Reconcile(n, RemovedPage, NoHints)
      BY <1>4, ReadablePages DEF RNoteRemoved, NoteRemoved
    <2>3. owed' = [owed EXCEPT ![n] = EnrolledLines(RemovedPage)]
      BY <1>4, <2>1 DEF RNoteRemoved
    <2> QED BY <1>2, <2>1, <2>2, <2>3, ReadingKept
  <1>5. ASSUME refs \subseteq refs', owed' = owed PROVE Held'
    <2>1. ASSUME NEW m \in Notes, NEW l \in owed[m]
          PROVE  NoteOf[l] = m /\ \E e \in Minted' : <<e, l>> \in refs'
      <3>1. l \in Lines /\ NoteOf[l] = m /\ \E e \in Minted : <<e, l>> \in refs
        BY DEF Held
      <3> QED BY <1>2, <1>5, <3>1, HeldKept
    <2> QED BY <1>5, <2>1 DEF Held
  <1>6. ASSUME ROther PROVE Held'
    <2>1. refs \subseteq refs'
      BY <1>6 DEF ROther, JudgeEntry, Close, Waive, Snooze, Untrack, Reopen, Opened, ClaimMine,
         ConfirmEvidence, RetroApply, RetroApplyContextOnly, RetroApplyTracked, TrackItem,
         TrackHeldLine, TrackFreeLine, RetroResolveOwners, BeginCall, UnlinkToReopen,
         DismissEvidence, FinishCall, FinishReopen, FinishDismissal, Halt
    <2> QED BY <1>5, <1>6, <2>1 DEF ROther
  <1>7. ASSUME RSnapshotWritten \/ UNCHANGED vars PROVE Held'
    BY <1>5, <1>7 DEF RSnapshotWritten, SnapshotWritten, readingVars, vars
  <1> QED BY <1>3, <1>4, <1>6, <1>7 DEF RNext

\* The ledger beside its readings is the ledger.
THEOREM ReadingsAreLedger == RSpec => Spec
<1>1. RInit => Init
  BY DEF RInit
<1> QED
  BY <1>1, ReadingStep, PTL DEF RSpec, Spec

\* A commitment the ledger had to track is on an entry as long as its note
\* says it (sync.rs, reconcile).
THEOREM OwedAreHeld == RSpec => []OwedLinesHeld
<1>1. RInit => Held
  BY DEF RInit, Held
<1>2. Held => OwedLinesHeld
  BY DEF Held, OwedLinesHeld
<1> QED
  BY <1>1, <1>2, HeldStep, Invariant, ReadingsAreLedger, PTL DEF RSpec

LastReadingSettled ==
    resync # Nothing =>
      /\ \E n \in Notes, p \in Pages : resync = <<n, p>>
      /\ DistinctWords(resync[2]) => AllSettled(resync[1], resync[2])

LEMMA SettledStep == ASSUME IInv, LastReadingSettled, [RNext]_vars PROVE LastReadingSettled'
  <1>1. ASSUME NEW n \in Notes, NEW p \in Pages, RSync(n, p) PROVE LastReadingSettled'
    <2>1. Readable(n, p) /\ Reconcile(n, p, NoHints) /\ p.asks \subseteq p.lines
      BY <1>1, ReadablePages, PagesAssumption DEF RSync, Sync
    <2>2. DistinctWords(p) => AllSettled(n, p)'
      BY <2>1, ReconcileMarks, SameNames DEF IInv
    <2>3. resync' = <<n, p>> /\ resync'[1] = n /\ resync'[2] = p
      BY <1>1 DEF RSync
    <2> QED BY <2>2, <2>3 DEF LastReadingSettled, AllSettled, DistinctWords, AskedLines
  <1>2. ASSUME resync' = Nothing PROVE LastReadingSettled'
    BY <1>2 DEF LastReadingSettled
  <1>3. ASSUME resync' = resync, entry' = entry, refs' = refs PROVE LastReadingSettled'
    BY <1>3 DEF LastReadingSettled, AllSettled, DistinctWords, IsLive, Minted
  <1> QED
    BY <1>1, <1>2, <1>3
    DEF RNext, RNoteRemoved, ROther, RSnapshotWritten, SnapshotWritten, readingVars, vars

\* Reading a note again that nobody touched writes nothing, if no two of its
\* lines say the same (sync.rs:4-5).
THEOREM ResyncIsQuiet == RSpec => ResyncOfDistinctLinesWritesNothing
<1>1. RInit => LastReadingSettled
  BY DEF RInit, LastReadingSettled
<1>2. IInv /\ LastReadingSettled /\ [RNext]_vars =>
        [resync # Nothing /\ DistinctWords(resync[2]) /\ resync' = resync => WritesNothing]_vars
  <2> SUFFICES ASSUME IInv, LastReadingSettled, RNext,
                      resync # Nothing, DistinctWords(resync[2]), resync' = resync
               PROVE  WritesNothing
    OBVIOUS
  <2>1. ASSUME NEW n \in Notes, NEW p \in Pages, RSync(n, p) PROVE WritesNothing
    <3>1. Readable(n, p) /\ Reconcile(n, p, NoHints) /\ p.asks \subseteq p.lines
      BY <2>1, ReadablePages, PagesAssumption DEF RSync, Sync
    <3>2. AllSettled(n, p)
      BY <2>1 DEF RSync, LastReadingSettled
    <3> QED BY <3>1, <3>2, SettledIsQuiet DEF IInv, WritesNothing
  <2>2. ASSUME RSnapshotWritten PROVE WritesNothing
    BY <2>2 DEF RSnapshotWritten, SnapshotWritten, WritesNothing
  <2>3. (\E n \in Notes : RNoteRemoved(n)) \/ ROther => resync' = Nothing
    BY DEF RNoteRemoved, ROther
  <2> QED BY <2>1, <2>2, <2>3 DEF RNext
<1> QED
  BY <1>1, <1>2, SettledStep, Invariant, ReadingsAreLedger, PTL
  DEF RSpec, ResyncOfDistinctLinesWritesNothing

-----------------------------------------------------------------------------
(* The pass of a distill.                                                  *)

\* What is known of a pass.
PassRec ==
    [updates : Seq(UpdateRec), lines : SUBSET Lines, date : Dates \cup {0},
     changed : SUBSET Minted, claimed : SUBSET Lines, step : Steps,
     found : SUBSET Minted, live : SUBSET Minted, reported : SUBSET Claims,
     asked : BOOLEAN, link : SUBSET (Minted \X Minted)]

PassTyped ==
    /\ pass \in PassRec
    /\ pass.claimed \subseteq pass.lines
    /\ pass.live \subseteq pass.found
    /\ \A i \in 1..Len(pass.updates) : pass.updates[i].item \subseteq pass.lines
    /\ Idle => pass = Resting
    /\ ~Idle => pass.date \in Dates
    /\ pass.step \notin {"checked", "inserted"} => pass.link = {}
    /\ \A k, j \in pass.link : k = j

\* What was read of an update still holds when it is written.
Weighed ==
    pass.step # "weigh" =>
        /\ Update.entry \in Minted \ pass.changed
        /\ entry[Update.entry].state \notin {"untracked", "superseded"}
        /\ Update.entry \notin pass.found
        /\ pass.step = "act" /\ Update.kind = "refresh" =>
              \A l \in Claimable(Update) : HoldersOf(l) = pass.found
        /\ pass.step = "retired" => \A l \in Claimable(Update) : HoldersOf(l) = {}
        /\ pass.step \in {"retired", "relinked"} => Update.kind = "refresh"
        /\ pass.step = "follow" /\ Update.kind = "completed" =>
              /\ pass.reported # {}
              /\ \A c \in pass.reported : <<Update.entry, c>> \in claims

PassOK == PassTyped /\ Weighed

\* The calls under way, and what is remembered of others.
HandOK ==
    /\ CallOK
    /\ hand \in {NoCall} \cup ({"close", "waive", "reopen"} \X Minted)
    /\ torn \subseteq Minted
    /\ cut \subseteq Minted
    /\ call # NoCall => Idle

\* Where state and graph stand of an entry on which no two calls met: the
\* assistant is not on it while the worker is, and each finds it as it read it.
Linked(e) == \E f \in Minted : <<e, f>> \in links
Super(e) == entry[e].state = "superseded"
Consistent(e) ==
    /\ ~(WorkerOn(e) /\ AssistantOn(e))
    /\ hand = <<"close", e>> \/ hand = <<"waive", e>> => ~Super(e)
    /\ call = <<"reopen", e>> \/ hand = <<"reopen", e>> => ~Linked(e)
    /\ \A k \in pass.link : k[1] = e =>
          /\ TransitionAllowed(entry[e].state, "superseded")
          /\ pass.step = "inserted" => k \in links
    /\ \/ call = <<"reopen", e>>
       \/ hand = <<"reopen", e>>
       \/ pass.step = "inserted" /\ \E k \in pass.link : k[1] = e
       \/ Super(e) <=> Linked(e)

LinksOK == \A e \in Minted \ torn : Consistent(e)

FInv ==
    /\ IInv
    /\ PassOK
    /\ HandOK
    /\ LinksOK
    /\ ConversationCloseHasClaim

-----------------------------------------------------------------------------
(* Rows.                                                                   *)

\* A row superseded, or parked by an unsure report, is well formed.
LEMMA FollowUpRowsOK ==
    ASSUME NEW r, RowOK(r)
    PROVE  /\ RowOK(Moved(r, "superseded"))
           /\ Moved(r, "superseded").state = "superseded"
           /\ Moved(r, "superseded").closedVia = "none"
           /\ Moved(r, "superseded").untrackedVia = "none"
           /\ RowOK(AsOpen(r))
           /\ AsOpen(r).state = "open"
           /\ AsOpen(r).closedVia = "none"
           /\ AsOpen(r).untrackedVia = "none"
           /\ RowOK(AsClosed(r, "conversation"))
           /\ AsClosed(r, "conversation").state = "closed"
           /\ AsClosed(r, "conversation").untrackedVia = "none"
           /\ LET parked == [Moved(r, "needs_review") EXCEPT !.reviewReason = "reported_done"]
              IN  /\ RowOK(parked)
                  /\ parked.state = "needs_review"
                  /\ parked.closedVia = "none"
                  /\ parked.untrackedVia = "none"
  <1>1. r \in EntryRec
    BY DEF RowOK
  <1>2. /\ Moved(r, "superseded") = Move(r, "superseded", "none", "none")
        /\ AsOpen(r) = Move(r, "open", "none", "none")
        /\ AsClosed(r, "conversation") = Move(r, "closed", "conversation", "none")
        /\ Moved(r, "needs_review") = Move(r, "needs_review", "none", "none")
    BY <1>1 DEF EntryRec, AsOpen, Moved, AsClosed, Move
  <1>3. /\ MoveFits(r, "superseded", "none", "none")
        /\ MoveFits(r, "open", "none", "none")
        /\ MoveFits(r, "closed", "conversation", "none")
        /\ MoveFits(r, "needs_review", "none", "none")
    BY DEF MoveFits, States, LiveStates, TerminalStates, MachineSources
  <1>4. /\ RowOK(Moved(r, "superseded")) /\ Moved(r, "superseded").untrackedVia = "none"
        /\ RowOK(AsOpen(r)) /\ AsOpen(r).untrackedVia = "none"
        /\ RowOK(AsClosed(r, "conversation")) /\ AsClosed(r, "conversation").untrackedVia = "none"
        /\ RowOK(Moved(r, "needs_review")) /\ Moved(r, "needs_review").untrackedVia = "none"
    BY <1>2, <1>3, MoveRowOK
  <1>5. /\ Moved(r, "superseded").state = "superseded"
        /\ Moved(r, "superseded").closedVia = "none"
        /\ AsOpen(r).state = "open"
        /\ AsOpen(r).closedVia = "none"
        /\ AsClosed(r, "conversation").state = "closed"
        /\ Moved(r, "needs_review").state = "needs_review"
        /\ Moved(r, "needs_review").closedVia = "none"
    <2>1. Moved(r, "superseded").state = "superseded" /\ Moved(r, "superseded").closedVia = "none"
      <3>1. Moved(r, "superseded").state = "superseded"
        BY <1>1 DEF EntryRec, Moved
      <3>2. Moved(r, "superseded").closedVia = "none"
        BY <1>1 DEF EntryRec, Moved
      <3> QED
        BY <3>1, <3>2
    <2>2. AsOpen(r).state = "open" /\ AsOpen(r).closedVia = "none"
      BY <1>1, <1>2 DEF EntryRec, Move
    <2>3. AsClosed(r, "conversation").state = "closed"
      BY <1>1, <1>2 DEF EntryRec, Move
    <2>4. Moved(r, "needs_review").state = "needs_review" /\ Moved(r, "needs_review").closedVia = "none"
      BY <1>1, <1>2 DEF EntryRec, Move
    <2> QED
      BY <2>1, <2>2, <2>3, <2>4
  <1>6. LET q == [Moved(r, "needs_review") EXCEPT !.reviewReason = "reported_done"]
        IN  /\ RowOK(q) /\ q.state = "needs_review" /\ q.untrackedVia = "none"
            /\ q.closedVia = "none"
    <2> DEFINE m == Moved(r, "needs_review")
               q == [m EXCEPT !.reviewReason = "reported_done"]
    <2>1. RowOK(m) /\ m.state = "needs_review" /\ m.untrackedVia = "none" /\ m.closedVia = "none"
      BY <1>4, <1>5
    <2> HIDE DEF m
    <2>2. RowOK(q) /\ q.state = "needs_review" /\ q.untrackedVia = "none" /\ q.closedVia = "none"
      BY <2>1 DEF RowOK, EntryRec, ColumnsFit, PromotionHolds, DirectionFits
    <2> QED BY <2>2 DEF m
  <1> QED
    BY <1>4, <1>5, <1>6

\* Hearing of an entry changes neither how it was closed nor untracked.
LEMMA HeardKeeps ==
    ASSUME NEW r \in EntryRec, NEW date
    PROVE  /\ Heard(r, date).closedVia = r.closedVia
           /\ \/ Heard(r, date).state = r.state
              \/ r.state = "needs_review" /\ Heard(r, date).state = "open"
           /\ Heard(r, date).project = r.project
  <1> DEFINE heard == IF date > r.mention THEN date ELSE r.mention
             dated == [r EXCEPT !.mention = heard]
  <1>1. Heard(r, date) = IF r.state = "needs_review"
                         THEN [dated EXCEPT !.state = "open", !.reviewReason = "none"]
                         ELSE dated
    BY DEF Heard, EntryRec
  <1> HIDE DEF heard
  <1>2. CASE r.state = "needs_review"
    <2>1. Heard(r, date) = [dated EXCEPT !.state = "open", !.reviewReason = "none"]
      BY <1>1, <1>2
    <2> QED BY <1>2, <2>1 DEF EntryRec
  <1>3. CASE r.state # "needs_review"
    <2>1. Heard(r, date) = dated
      BY <1>1, <1>3
    <2> QED BY <2>1 DEF EntryRec
  <1> QED BY <1>2, <1>3

-----------------------------------------------------------------------------
(* The jobs of the ledger, beside a pass.                                  *)

\* No job of one step moves an entry into or out of "superseded", writes a
\* link or a claim, or closes an entry by a conversation without one.
Settled(e) ==
    /\ Super(e)' <=> Super(e)
    /\ entry'[e].closedVia = "conversation" =>
          entry[e].closedVia = "conversation" \/ \E c \in Claims : <<e, c>> \in claims

Related ==
    /\ links' = links /\ claims' = claims
    /\ Minted \subseteq Minted'
    /\ \A e \in Minted : Settled(e)
    /\ \A e \in Minted' \ Minted : ~Super(e)' /\ entry'[e].closedVia = "none"

\* A reconciliation moves rows between open and parked only.
LEMMA ReconcileRelated ==
    ASSUME IInv, NEW n, NEW p, Readable(n, p), NEW hints, Reconcile(n, p, hints)
    PROVE  Related
  <1>1. /\ Minted \subseteq Minted'
        /\ \A e \in Minted : RowStep(p, e)
        /\ \A e \in Minted' \ Minted : MintStep(p, e)
        /\ links' = links /\ claims' = claims
    BY ReconcileStep DEF IInv, TablesOK
  <1>2. ASSUME NEW e \in Minted PROVE Settled(e)
    <2>1. PICK b \in {entry[e]} \cup {Reworded(entry[e], l, p.aliases) : l \in Lines} :
            \E f \in {b} \cup {[b EXCEPT !.project = project] : project \in Projects} :
                \/ entry'[e] = f
                \/ IsLive(e) /\ entry'[e] = Parked(f)
                \/ IsLive(e) /\ \E date \in Dates : entry'[e] = Heard(f, date)
      BY <1>1 DEF RowStep
    <2>2. PICK f \in {b} \cup {[b EXCEPT !.project = project] : project \in Projects} :
                \/ entry'[e] = f
                \/ IsLive(e) /\ entry'[e] = Parked(f)
                \/ IsLive(e) /\ \E date \in Dates : entry'[e] = Heard(f, date)
      BY <2>1
    <2>3. entry[e] \in EntryRec
      BY DEF IInv, TablesOK
    <2>4. b \in EntryRec /\ b.state = entry[e].state /\ b.closedVia = entry[e].closedVia
      <3>1. CASE b = entry[e]
        BY <2>3, <3>1
      <3>2. ASSUME NEW l \in Lines, b = Reworded(entry[e], l, p.aliases)
            PROVE  b \in EntryRec /\ b.state = entry[e].state /\ b.closedVia = entry[e].closedVia
        <4>1. b \in EntryRec
          BY <2>3, <3>2, RewordedType
        <4> QED BY <2>3, <3>2, <4>1 DEF Reworded, EntryRec
      <3> QED BY <2>1, <3>1, <3>2
    <2>5. f \in EntryRec /\ f.state = entry[e].state /\ f.closedVia = entry[e].closedVia
      BY <2>2, <2>4 DEF EntryRec
    <2>6. IsLive(e) => entry[e].state # "superseded"
      BY DEF IsLive, LiveStates
    <2>7. Parked(f).state = "needs_review" /\ Parked(f).closedVia = f.closedVia
      BY <2>5 DEF Parked, EntryRec
    <2>8. \A date \in Dates : /\ Heard(f, date).closedVia = f.closedVia
                              /\ Heard(f, date).state \in {f.state, "open"}
                              /\ f.state # "needs_review" => Heard(f, date).state = f.state
      BY <2>5, HeardKeeps
    <2>9. /\ entry'[e].closedVia = entry[e].closedVia
          /\ entry'[e].state = "superseded" <=> entry[e].state = "superseded"
      BY <2>2, <2>5, <2>6, <2>7, <2>8
    <2> QED BY <2>9 DEF Settled, Super
  <1>3. ASSUME NEW e \in Minted' \ Minted
        PROVE  ~Super(e)' /\ entry'[e].closedVia = "none"
    <2>2. PICK w \in Words :
            entry'[e] = OpenEntry(w, Resolve(OwnerOf[w], p.aliases), p.project,
                                  p.date, EnrolledBy(p))
      BY <1>1 DEF MintStep
    <2>3. entry'[e].state = "open" /\ entry'[e].closedVia = "none"
      BY <2>2 DEF OpenEntry
    <2> QED BY <2>3 DEF Super
  <1> QED
    BY <1>1, <1>2, <1>3 DEF Related

\* One row is judged.
LEMMA JudgedRelated ==
    ASSUME IInv, NEW e \in Minted, NEW r \in EntryRec, Judge(e, r),
           links' = links, claims' = claims,
           r.state = "superseded" <=> entry[e].state = "superseded",
           \/ r.closedVia # "conversation"
           \/ r.closedVia = entry[e].closedVia
           \/ \E c \in Claims : <<e, c>> \in claims
    PROVE  Related
  <1>1. /\ Minted' = Minted
        /\ \A f \in Minted \ {e} : entry'[f] = entry[f]
        /\ entry'[e] = AsTouched(r)
    BY DEF Judge, IInv, TablesOK, Minted
  <1>2. AsTouched(r).state = r.state /\ AsTouched(r).closedVia = r.closedVia
    BY DEF AsTouched, EntryRec
  <1>3. \A f \in Minted : Settled(f)
    BY <1>1, <1>2 DEF Settled, Super
  <1> QED
    BY <1>1, <1>3 DEF Related

\* A job that changes no more than these of a row.
LEMMA KeptRelated ==
    ASSUME IInv, Minted' = Minted, links' = links, claims' = claims,
           \A e \in Minted :
              /\ entry'[e].state = "superseded" <=> entry[e].state = "superseded"
              /\ entry'[e].closedVia \in {"none", entry[e].closedVia}
    PROVE  Related
  BY DEF Related, Settled, Super

\* How each move leaves the two columns the conversation's invariants read.
LEMMA MoveColumns ==
    ASSUME NEW r \in EntryRec
    PROVE  /\ AsOpen(r).closedVia = "none"
           /\ Moved(r, "waived").closedVia = "none"
           /\ AsSnoozed(r).closedVia = "none"
           /\ \A via \in {"manual", "conversation"} : AsClosed(r, via).closedVia = via
           /\ \A via \in MachineSources \cup {"manual"} : AsUntracked(r, via).closedVia = "none"
  BY DEF EntryRec, Moved, AsOpen, AsSnoozed, AsClosed, AsUntracked

LEMMA JudgeEntryRelated ==
    ASSUME IInv, JudgeEntry
    PROVE  Related
  <1>1. PICK e \in Minted :
          \/ Close(e) \/ Waive(e) \/ Snooze(e) \/ Untrack(e) \/ Reopen(e) \/ ClaimMine(e)
          \/ \E c \in Claims : ConfirmEvidence(e, c)
    BY DEF JudgeEntry
  <1> DEFINE r == entry[e]
  <1>2. r \in EntryRec
    BY DEF IInv, TablesOK
  <1>3. \A to \in {"closed", "waived", "snoozed", "untracked"} :
           TransitionAllowed(r.state, to) => r.state # "superseded"
    BY DEF TransitionAllowed, LiveStates
  <1>4. CASE Close(e)
    <2>1. Judge(e, AsClosed(r, "manual")) /\ links' = links /\ claims' = claims
      BY <1>4 DEF Close
    <2> QED BY <1>2, <1>3, <1>4, <2>1, MoveTypes, MoveColumns, JudgedRelated DEF Close
  <1>5. CASE Waive(e)
    <2>1. Judge(e, Moved(r, "waived")) /\ links' = links /\ claims' = claims
      BY <1>5 DEF Waive
    <2> QED BY <1>2, <1>3, <1>5, <2>1, MoveTypes, MoveColumns, JudgedRelated DEF Waive
  <1>6. CASE Snooze(e)
    <2>1. Judge(e, AsSnoozed(r)) /\ links' = links /\ claims' = claims
      BY <1>6 DEF Snooze
    <2> QED BY <1>2, <1>3, <1>6, <2>1, MoveTypes, MoveColumns, JudgedRelated DEF Snooze
  <1>7. CASE Untrack(e)
    <2>1. Judge(e, AsUntracked(r, "manual")) /\ links' = links /\ claims' = claims
      BY <1>7 DEF Untrack
    <2> QED BY <1>2, <1>3, <1>7, <2>1, MoveTypes, MoveColumns, JudgedRelated DEF Untrack
  <1>8. CASE Reopen(e)
    <2>1. Judge(e, AsOpen(r)) /\ links' = links /\ claims' = claims /\ r.state # "superseded"
      BY <1>8 DEF Reopen, Opened
    <2> QED BY <1>2, <2>1, MoveTypes, MoveColumns, JudgedRelated
  <1>9. CASE ClaimMine(e)
    <2> DEFINE q == [r EXCEPT !.direction = "mine"]
    <2>1. Judge(e, q) /\ links' = links /\ claims' = claims
      BY <1>9 DEF ClaimMine
    <2>2. q \in EntryRec /\ q.state = r.state /\ q.closedVia = r.closedVia
      BY <1>2 DEF EntryRec
    <2> HIDE DEF q
    <2> QED BY <2>1, <2>2, JudgedRelated
  <1>10. ASSUME NEW c \in Claims, ConfirmEvidence(e, c) PROVE Related
    <2>1. /\ Judge(e, AsClosed(r, "conversation")) /\ links' = links /\ claims' = claims
          /\ <<e, c>> \in claims
          /\ r.state # "superseded"
      BY <1>3, <1>10 DEF ConfirmEvidence
    <2> QED BY <1>2, <2>1, MoveTypes, MoveColumns, JudgedRelated
  <1> QED
    BY <1>1, <1>4, <1>5, <1>6, <1>7, <1>8, <1>9, <1>10

LEMMA RetroApplyRelated ==
    ASSUME IInv, RetroApply
    PROVE  Related
  <1>1. PICK n \in Notes, project \in Projects :
          \/ \E source \in MachineSources : RetroApplyContextOnly(n, project, source)
          \/ RetroApplyTracked(n, project)
    BY DEF RetroApply
  <1>2. \A e \in Minted : entry[e] \in EntryRec
    BY DEF IInv, TablesOK
  <1>3. ASSUME NEW source \in MachineSources, RetroApplyContextOnly(n, project, source)
        PROVE  Related
    <2>1. /\ Minted' = Minted /\ links' = links /\ claims' = claims
          /\ \A e \in Overridable(n) : entry'[e] = AsUntracked(entry[e], source)
          /\ \A e \in Minted \ Overridable(n) : entry'[e] = entry[e]
      BY <1>3 DEF RetroApplyContextOnly, Overridable, Minted
    <2>2. \A e \in Overridable(n) : e \in Minted /\ entry[e].state # "superseded"
      BY DEF Overridable, IsLive, LiveStates
    <2>3. ASSUME NEW e \in Overridable(n)
          PROVE  entry'[e].state = "untracked" /\ entry'[e].closedVia = "none"
      <3>1. entry[e] \in EntryRec /\ entry'[e] = AsUntracked(entry[e], source)
        BY <1>2, <2>1, <2>2
      <3>2. AsUntracked(entry[e], source).state = "untracked"
        BY <3>1, MoveTypes
      <3>3. AsUntracked(entry[e], source).closedVia = "none"
        BY <3>1, MoveColumns
      <3> QED BY <3>1, <3>2, <3>3
    <2> QED BY <2>1, <2>2, <2>3, KeptRelated
  <1>4. CASE RetroApplyTracked(n, project)
    <2>1. /\ Minted' = Minted /\ links' = links /\ claims' = claims
          /\ \A e \in Revivable(n) : entry'[e] = AsOpen(entry[e])
          /\ \A e \in Minted \ Revivable(n) : entry'[e] = entry[e]
      BY <1>4 DEF RetroApplyTracked, Revivable, Minted
    <2>2. \A e \in Revivable(n) : e \in Minted /\ entry[e].state # "superseded"
      BY DEF Revivable
    <2>3. ASSUME NEW e \in Revivable(n)
          PROVE  entry'[e].state = "open" /\ entry'[e].closedVia = "none"
      <3>1. entry[e] \in EntryRec /\ entry'[e] = AsOpen(entry[e])
        BY <1>2, <2>1, <2>2
      <3>2. AsOpen(entry[e]).state = "open"
        BY <3>1, MoveTypes
      <3>3. AsOpen(entry[e]).closedVia = "none"
        BY <3>1, MoveColumns
      <3> QED BY <3>1, <3>2, <3>3
    <2> QED BY <2>1, <2>2, <2>3, KeptRelated
  <1> QED BY <1>1, <1>3, <1>4

LEMMA RetroResolveRelated ==
    ASSUME IInv, NEW aliases, RetroResolveOwners(aliases)
    PROVE  Related
  <1>1. /\ Minted' = Minted /\ links' = links /\ claims' = claims
        /\ \A e \in Unresolved(aliases) : entry'[e] = [entry[e] EXCEPT !.direction = "mine"]
        /\ \A e \in Minted \ Unresolved(aliases) : entry'[e] = entry[e]
    BY DEF RetroResolveOwners, Unresolved, Minted
  <1>2. ASSUME NEW e \in Unresolved(aliases)
        PROVE  entry'[e].state = entry[e].state /\ entry'[e].closedVia = entry[e].closedVia
    <2>1. e \in Minted /\ entry[e] \in EntryRec
      BY DEF Unresolved, IInv, TablesOK
    <2>2. entry'[e] = [entry[e] EXCEPT !.direction = "mine"]
      BY <1>1
    <2> QED BY <2>1, <2>2 DEF EntryRec
  <1> QED BY <1>1, <1>2, KeptRelated

LEMMA TrackItemRelated ==
    ASSUME IInv, TrackItem
    PROVE  Related
  <1>1. PICK e \in Entries, l \in Lines :
          TrackHeldLine(e, l) \/ \E p \in Pages : TrackFreeLine(e, l, p)
    BY DEF TrackItem
  <1>2. CASE TrackHeldLine(e, l)
    <2>1. e \in Minted /\ entry[e] \in EntryRec /\ links' = links /\ claims' = claims
      BY <1>2 DEF TrackHeldLine, IInv, TablesOK
    <2>2. CASE entry[e].state = "untracked"
      <3> DEFINE r == [AsOpen(entry[e]) EXCEPT !.enrolledVia = "manual"]
      <3>1. /\ AsOpen(entry[e]) \in EntryRec /\ AsOpen(entry[e]).state = "open"
            /\ AsOpen(entry[e]).closedVia = "none"
        BY <2>1, MoveTypes, MoveColumns
      <3>2. r \in EntryRec /\ r.state = "open" /\ r.closedVia = "none"
        BY <3>1 DEF EntryRec
      <3>3. Judge(e, r)
        BY <1>2, <2>2 DEF TrackHeldLine
      <3> HIDE DEF r
      <3> QED BY <2>1, <2>2, <3>2, <3>3, JudgedRelated
    <2>3. CASE entry[e].state # "untracked"
      <3>1. Judge(e, entry[e])
        BY <1>2, <2>3 DEF TrackHeldLine
      <3> QED BY <2>1, <3>1, JudgedRelated
    <2> QED BY <2>2, <2>3
  <1>3. ASSUME NEW p \in Pages, TrackFreeLine(e, l, p) PROVE Related
    <2>1. /\ e \notin Minted /\ Minted' = Minted \cup {e}
          /\ \A f \in Minted : entry'[f] = entry[f]
          /\ links' = links /\ claims' = claims
      BY <1>3 DEF TrackFreeLine, Minted
    <2>2. entry'[e].state = "open" /\ entry'[e].closedVia = "none"
      BY <1>3 DEF TrackFreeLine, AsTouched, OpenEntry
    <2> QED BY <2>1, <2>2 DEF Related, Settled, Super
  <1> QED BY <1>1, <1>2, <1>3

LEMMA JobRelated == ASSUME IInv, Job PROVE Related
  <1>1. ASSUME NEW n \in Notes, NEW p \in Pages, Sync(n, p) PROVE Related
    <2>1. Readable(n, p) /\ Reconcile(n, p, NoHints)
      BY <1>1, ReadablePages DEF Sync
    <2> QED BY <2>1, ReconcileRelated
  <1>2. ASSUME NEW n \in Notes, NoteRemoved(n) PROVE Related
    BY <1>2, ReadablePages, ReconcileRelated DEF NoteRemoved
  <1>3. ASSUME entry' = entry, links' = links, claims' = claims PROVE Related
    BY <1>3, KeptRelated DEF Minted
  <1> QED
    BY <1>1, <1>2, <1>3, JudgeEntryRelated, RetroApplyRelated, RetroResolveRelated,
       TrackItemRelated
    DEF Job, SnapshotWritten

-----------------------------------------------------------------------------
(* The updates of a pass.                                                  *)

LEMMA UpdateOK ==
    ASSUME PassTyped, ~Idle
    PROVE  /\ Update \in UpdateRec
           /\ Update.item \subseteq pass.lines
           /\ Update.item \subseteq Lines
           /\ Claimable(Update) \subseteq pass.lines
           /\ Claimable(Update) \subseteq Lines
           /\ \A k, l \in Update.item : k = l
  <1>1. pass.updates \in Seq(UpdateRec) /\ pass.updates # <<>>
    BY DEF PassTyped, PassRec, Idle
  <1>2. Update = pass.updates[1] /\ 1 \in 1..Len(pass.updates)
    BY <1>1, HeadTailProperties, EmptySeq DEF Update
  <1>3. Update \in UpdateRec
    BY <1>1, HeadTailProperties DEF Update
  <1> QED
    BY <1>2, <1>3 DEF PassTyped, UpdateRec, Claimable

LEMMA RestingOK == ASSUME pass' = Resting PROVE PassOK'
  BY DEF Resting, PassOK, PassTyped, PassRec, Weighed, Idle, Steps

\* The pass stays well formed as it moves on, and over it is nothing.
LEMMA MoveOnOK ==
    ASSUME PassTyped, ~Idle, Minted \subseteq Minted', NEW changed, changed \subseteq Minted,
           NEW claimed, claimed \subseteq pass.lines, MoveOn(changed, claimed)
    PROVE  PassOK' /\ pass'.link = {}
  <1>1. CASE Len(pass.updates) = 1
    <2>1. pass' = Resting
      BY <1>1 DEF MoveOn
    <2> QED BY <2>1, RestingOK DEF Resting
  <1>2. CASE Len(pass.updates) # 1
    <2> DEFINE rest == Tail(pass.updates)
    <2>1. pass.updates \in Seq(UpdateRec) /\ pass.updates # <<>>
      BY DEF PassTyped, PassRec, Idle
    <2>2. /\ rest \in Seq(UpdateRec)
          /\ Len(rest) = Len(pass.updates) - 1
          /\ \A i \in 1..Len(rest) : rest[i] = pass.updates[i + 1]
      <3> DEFINE us == pass.updates
      <3> HIDE DEF us
      <3>1. us \in Seq(UpdateRec) /\ us # <<>>
        BY <2>1 DEF us
      <3>2. /\ Tail(us) \in Seq(UpdateRec)
            /\ Len(Tail(us)) = Len(us) - 1
            /\ \A i \in 1..Len(Tail(us)) : Tail(us)[i] = us[i + 1]
        BY <3>1, HeadTailProperties, Zenon
      <3> QED BY <3>2 DEF us
    <2> HIDE DEF rest
    <2>3. Len(pass.updates) \in Nat /\ rest # <<>>
      <3>1. Len(pass.updates) \in Nat
        BY <2>1, LenProperties, Zenon
      <3>2. Len(rest) # 0
        BY <1>2, <2>2, <3>1
      <3>3. Len(<<>>) = 0
        BY EmptySeq, Zenon
      <3> QED BY <3>1, <3>2, <3>3
    <2>4. \A i \in 1..Len(rest) : rest[i].item \subseteq pass.lines
      BY <2>2, <2>3 DEF PassTyped
    <2>5. /\ pass' = [pass EXCEPT !.updates = rest, !.changed = @ \cup changed,
                                  !.claimed = @ \cup claimed, !.step = "weigh",
                                  !.found = {}, !.live = {}, !.reported = {},
                                  !.asked = FALSE, !.link = {}]
          /\ pass \in PassRec
          /\ pass.claimed \subseteq pass.lines
          /\ pass.date \in Dates
      BY <1>2 DEF MoveOn, PassTyped, rest
    <2>6. /\ pass'.updates = rest /\ pass'.lines = pass.lines /\ pass'.date = pass.date
          /\ pass'.claimed = pass.claimed \cup claimed
          /\ pass'.step = "weigh" /\ pass'.live = {} /\ pass'.link = {}
          /\ pass' \in PassRec'
      BY <2>2, <2>5 DEF Steps, PassRec
    <2> QED
      BY <2>3, <2>4, <2>6 DEF PassOK, PassTyped, Weighed, Idle
  <1> QED BY <1>1, <1>2

\* What no step may do to the lines and to the entries a pass has dealt with.
KeepsClaimed == \A l \in pass.claimed : HoldersOf(l)' = HoldersOf(l)
FirstWins ==
    pass' # pass =>
        \A e \in pass.changed : entry'[e].state \in {entry[e].state, "superseded"}
NoneLost(e) ==
    IsLive(e) /\ HoldsLine(e) /\ ~HoldsLine(e)'
      => \/ entry'[e].state \in {"needs_review", "superseded"}
         \/ e \in pass.found /\ (e \in pass.live => e \in pass'.live)

\* What a step does to the tables alone.
LedgerStep ==
    /\ IInv'
    /\ KeepsClaimed
    /\ \A e \in Minted : NoneLost(e)
    /\ FirstWins

\* A step that leaves the lines where they are and rewrites the row of one
\* entry, not changed before unless it becomes history.
LEMMA RowUpdate ==
    ASSUME IInv, pass.changed \subseteq Minted, NEW e \in Minted, NEW r,
           e \notin pass.changed \/ r.state = "superseded" \/ pass' = pass,
           RowOK(r),
           r.untrackedVia \in MachineSources => entry[e].untrackedVia \in MachineSources,
           entry' = [entry EXCEPT ![e] = r], refs' = refs,
           links' \subseteq Minted \X Minted,
           claims' \subseteq Minted \X Claims,
           dirty' \subseteq Projects
    PROVE  LedgerStep /\ Minted' = Minted
  <1>1. /\ Minted' = Minted
        /\ entry' = [f \in Minted |-> entry'[f]]
        /\ entry'[e] = r
        /\ \A f \in Minted \ {e} : entry'[f] = entry[f]
    BY DEF IInv, TablesOK, Minted
  <1>2. \A f \in Minted :
           /\ RowOK(entry'[f])
           /\ entry'[f].untrackedVia \in MachineSources => OneSource(f)
    BY <1>1 DEF IInv, RowsOK, MachineUntrackHasOneSource, OneSource
  <1>3. IInv'
    BY <1>1, <1>2, InPlaceInv
  <1>4. KeepsClaimed /\ \A f \in Minted : NoneLost(f)
    BY <1>1 DEF KeepsClaimed, HoldersOf, NoneLost, HoldsLine
  <1>5. FirstWins
    BY <1>1 DEF FirstWins
  <1> QED
    BY <1>1, <1>3, <1>4, <1>5 DEF LedgerStep

\* A step that writes no row and moves no line.
LEMMA NoRowWritten ==
    ASSUME IInv, entry' = entry, refs' = refs,
           links' \subseteq Minted \X Minted,
           claims' \subseteq Minted \X Claims,
           dirty' \subseteq Projects
    PROVE  LedgerStep /\ Minted' = Minted
  <1>1. Minted' = Minted
    BY DEF Minted
  <1>2. IInv'
    BY <1>1 DEF IInv, TablesOK, RowsOK, OneHolderPerLine, MachineUntrackHasOneSource, LinesOf
  <1>3. KeepsClaimed /\ FirstWins /\ \A f \in Minted : NoneLost(f)
    BY <1>1 DEF KeepsClaimed, HoldersOf, FirstWins, NoneLost, HoldsLine
  <1> QED
    BY <1>1, <1>2, <1>3 DEF LedgerStep

-----------------------------------------------------------------------------
(* The calls, and what they leave of state, graph and claims.              *)

\* The worker's step leaves the assistant's call, and remembers who met.
Aside == UNCHANGED beside /\ Meets({})

LEMMA AsideKeeps ==
    ASSUME HandOK, Aside, call' = call, Minted \subseteq Minted', call = NoCall
    PROVE  /\ HandOK'
           /\ hand' = hand /\ cut' = cut /\ torn \subseteq torn'
           /\ \A e \in Minted : WorkerOn(e)' /\ AssistantOn(e) => e \in torn'
  <1>1. /\ hand' = hand /\ cut' = cut
        /\ torn' = torn \cup {e \in Minted : WorkerOn(e)' /\ AssistantOn(e)'}
    BY DEF Aside, beside, Meets
  <1>2. \A e : AssistantOn(e)' <=> AssistantOn(e)
    BY <1>1 DEF AssistantOn
  <1>3. torn \subseteq torn' /\ torn' \subseteq Minted'
    BY <1>1 DEF HandOK
  <1>4. \A e \in Minted : WorkerOn(e)' /\ AssistantOn(e) => e \in torn'
    BY <1>1, <1>2
  <1> QED
    BY <1>1, <1>3, <1>4 DEF HandOK, CallOK

\* A step that touches neither a link nor a call that reads or writes one, and
\* supersedes nothing.
LEMMA LinksKept ==
    ASSUME LinksOK, HandOK, IInv,
           links' = links, hand' = hand, torn \subseteq torn', Minted \subseteq Minted',
           \A e : call' = <<"reopen", e>> <=> call = <<"reopen", e>>,
           pass.link = {}, pass'.link = {},
           \A e \in Minted : Super(e)' <=> Super(e),
           \A e \in Minted' \ Minted : ~Super(e)'
    PROVE  LinksOK'
  <1> SUFFICES ASSUME NEW e \in Minted' \ torn' PROVE Consistent(e)'
    BY DEF LinksOK
  <1>1. links \subseteq Minted \X Minted
    BY DEF IInv, TablesOK
  <1>2. Linked(e)' <=> Linked(e)
    BY <1>1 DEF Linked
  <1>3. AssistantOn(e)' <=> AssistantOn(e)
    BY DEF AssistantOn
  <1>4. WorkerOn(e)' <=> WorkerOn(e)
    BY DEF WorkerOn
  <1>5. CASE e \in Minted
    <2>1. Consistent(e)
      BY <1>5 DEF LinksOK
    <2> QED BY <1>2, <1>3, <1>4, <1>5, <2>1 DEF Consistent
  <1>6. CASE e \notin Minted
    <2>1. ~Linked(e) /\ ~Super(e)'
      BY <1>1, <1>6 DEF Linked
    <2>2. call # <<"reopen", e>>
      BY <1>6 DEF HandOK, CallOK, NoCall
    <2>3. ~WorkerOn(e)
      BY <2>2 DEF WorkerOn
    <2>4. hand # <<"close", e>> /\ hand # <<"waive", e>> /\ hand # <<"reopen", e>>
      BY <1>6 DEF HandOK, NoCall
    <2> QED BY <1>2, <1>4, <2>1, <2>2, <2>3, <2>4 DEF Consistent
  <1> QED BY <1>5, <1>6

\* A step that takes no claim and closes nothing by a conversation without one.
LEMMA ClaimsKept ==
    ASSUME ConversationCloseHasClaim, claims \subseteq claims', cut \subseteq cut',
           Minted \subseteq Minted',
           \A e : call = <<"dismiss", e>> => call' = call \/ e \in cut',
           \A e \in Minted : entry'[e].closedVia = "conversation" =>
              \/ entry[e].closedVia = "conversation"
              \/ \E c \in Claims : <<e, c>> \in claims,
           \A e \in Minted' \ Minted : entry'[e].closedVia = "none"
    PROVE  ConversationCloseHasClaim'
  <1> SUFFICES ASSUME NEW e \in Minted' \ cut', entry'[e].closedVia = "conversation",
                      call' # <<"dismiss", e>>
               PROVE  \E c \in Claims : <<e, c>> \in claims'
    BY DEF ConversationCloseHasClaim
  <1>1. e \in Minted \ cut /\ call # <<"dismiss", e>>
    OBVIOUS
  <1>2. \E c \in Claims : <<e, c>> \in claims
    BY <1>1 DEF ConversationCloseHasClaim
  <1> QED BY <1>2

\* A call under way has an entry, and is one call on it.
LEMMA HandFacts ==
    ASSUME HandOK
    PROVE  /\ \A e, name : hand = <<name, e>> => AssistantOn(e) /\ e \in Minted
           /\ \A e : AssistantOn(e) =>
                 e \in Minted /\ \E name \in {"close", "waive", "reopen"} : hand = <<name, e>>
           /\ \A e, name : call = <<name, e>> => e \in Minted /\ call # NoCall
           /\ ~Idle => call = NoCall
  BY DEF HandOK, CallOK, AssistantOn, NoCall

\* A step of the pass that rewrites rows and neither links nor supersedes.
LEMMA PlainStep ==
    ASSUME FInv, LedgerStep, PassOK', Aside, call' = call, call = NoCall,
           Minted' = Minted, links' = links, claims \subseteq claims',
           pass.link = {}, pass'.link = {},
           \A e \in Minted : Super(e)' <=> Super(e),
           \A e \in Minted : entry'[e].closedVia = "conversation" =>
              \/ entry[e].closedVia = "conversation"
              \/ \E c \in Claims : <<e, c>> \in claims
    PROVE  FInv'
  <1>1. HandOK' /\ hand' = hand /\ cut' = cut /\ torn \subseteq torn'
    BY AsideKeeps DEF FInv
  <1>2. LinksOK'
    BY <1>1, LinksKept DEF FInv
  <1>3. ConversationCloseHasClaim'
    BY <1>1, ClaimsKept DEF FInv
  <1> QED
    BY <1>1, <1>2, <1>3 DEF FInv, LedgerStep

\* Nothing happens to the ledger.
LEMMA QuietStep ==
    ASSUME FInv, ~Idle, UNCHANGED ledgerVars, PassOK', Aside, pass.link = {}, pass'.link = {}
    PROVE  FInv' /\ LedgerStep
  <1>1. /\ entry' = entry /\ refs' = refs /\ links' = links /\ claims' = claims
        /\ dirty' = dirty /\ call' = call
    BY DEF ledgerVars
  <1>2. LedgerStep /\ Minted' = Minted
    BY <1>1, NoRowWritten DEF FInv, IInv, TablesOK
  <1>3. call = NoCall
    BY HandFacts DEF FInv
  <1> QED
    BY <1>1, <1>2, <1>3, PlainStep DEF Super

\* An update dropped, or found to be done already.
LEMMA PassedOver ==
    ASSUME FInv, ~Idle, NEW changed, changed \subseteq Minted,
           NEW claimed, claimed \subseteq pass.lines, pass.link = {},
           MoveOn(changed, claimed), UNCHANGED ledgerVars, Aside
    PROVE  FInv' /\ LedgerStep
  <1>1. Minted \subseteq Minted'
    BY DEF ledgerVars, Minted
  <1>2. PassOK' /\ pass'.link = {}
    BY <1>1, MoveOnOK DEF FInv, PassOK
  <1> QED BY <1>2, QuietStep

\* A pass that stays in its update.
LEMMA PassStays ==
    ASSUME PassTyped, ~Idle, Minted' = Minted, pass' \in PassRec,
           pass'.updates = pass.updates, pass'.lines = pass.lines,
           pass'.date = pass.date, pass'.claimed \subseteq pass.lines,
           pass'.live \subseteq pass'.found,
           pass'.step \notin {"checked", "inserted"} => pass'.link = {},
           \A k, j \in pass'.link : k = j
    PROVE  PassTyped' /\ Update' = Update /\ ~Idle'
  <1>1. pass' \in PassRec'
    BY DEF PassRec
  <1>2. Update' = Update /\ ~Idle'
    BY DEF Update, Idle
  <1> QED
    BY <1>1, <1>2 DEF PassTyped, Idle

\* What a step of the pass may count on.
LEMMA ActingOn ==
    ASSUME FInv, pass.step # "weigh"
    PROVE  /\ ~Idle
           /\ call = NoCall
           /\ Update.entry \in Minted
           /\ Update.entry \notin pass.changed
           /\ RowOK(entry[Update.entry])
           /\ entry[Update.entry] \in EntryRec
           /\ entry[Update.entry].project \in Projects
           /\ entry[Update.entry].untrackedVia = "none"
           /\ entry[Update.entry].state # "superseded"
           /\ entry[Update.entry].state # "untracked"
  <1>1. ~Idle
    BY DEF FInv, PassOK, PassTyped, Resting
  <1>2. /\ Update.entry \in Minted /\ Update.entry \notin pass.changed
        /\ entry[Update.entry].state \notin {"untracked", "superseded"}
    BY DEF FInv, PassOK, Weighed
  <1>3. RowOK(entry[Update.entry]) /\ entry[Update.entry].project \in Projects
    BY <1>2, ProjectOfRow DEF FInv, IInv, RowsOK
  <1>4. call = NoCall
    BY <1>1, HandFacts DEF FInv
  <1> QED
    BY <1>1, <1>2, <1>3, <1>4 DEF RowOK, ColumnsFit

LEMMA FInvTables ==
    ASSUME FInv
    PROVE  /\ entry \in [Minted -> EntryRec]
           /\ refs \subseteq Minted \X Lines
           /\ links \subseteq Minted \X Minted
           /\ claims \subseteq Minted \X Claims
           /\ dirty \subseteq Projects
           /\ \A f \in Minted : RowOK(entry[f]) /\ entry[f].project \in Projects
           /\ pass \in PassRec /\ pass.changed \subseteq Minted
           /\ pass.found \subseteq Minted /\ pass.live \subseteq pass.found
           /\ pass.link \subseteq Minted \X Minted /\ pass.reported \subseteq Claims
           /\ pass.step \notin {"checked", "inserted"} => pass.link = {}
           /\ pass.claimed \subseteq pass.lines /\ pass.lines \subseteq Lines
  BY ProjectOfRow DEF FInv, IInv, RowsOK, TablesOK, PassOK, PassTyped, PassRec

LEMMA OthersAre ==
    ASSUME NEW u
    PROVE  \A f : f \in OthersHolding(u) <=>
                    f # u.entry /\ \E l \in LineOf(u) : f \in HoldersOf(l)
  <1> DEFINE sets == {HoldersOf(l) : l \in LineOf(u)}
  <1>1. \A s : s \in sets <=> \E l \in LineOf(u) : s = HoldersOf(l)
    OBVIOUS
  <1>2. OthersHolding(u) = (UNION sets) \ {u.entry}
    BY Zenon DEF OthersHolding
  <1> HIDE DEF sets
  <1> QED
    BY <1>1, <1>2

\* What an update found when it was looked up, which is what it writes by.
LEMMA WeighStep == ASSUME FInv, ~Idle, Weigh, Aside PROVE FInv' /\ LedgerStep
  <1>1. /\ pass' = [pass EXCEPT !.step = "act", !.found = OthersHolding(Update),
                                !.live = {f \in OthersHolding(Update) : ~IsTerminal(f)}]
        /\ UNCHANGED ledgerVars
        /\ Update.entry \in Minted \ pass.changed
        /\ ~IsTerminal(Update.entry)
        /\ pass.step = "weigh"
    BY DEF Weigh, Applies
  <1>2. /\ entry' = entry /\ refs' = refs /\ claims' = claims /\ Minted' = Minted
    BY <1>1 DEF ledgerVars, Minted
  <1>3. OthersHolding(Update) \in SUBSET Minted
    BY OthersAre DEF HoldersOf
  <1>4. Update.entry \notin OthersHolding(Update)
    BY OthersAre
  <1> DEFINE live == {f \in OthersHolding(Update) : ~IsTerminal(f)}
             found == OthersHolding(Update)
  <1>5. live \subseteq found
    OBVIOUS
  <1>6. ASSUME Update.kind = "refresh", NEW l \in Claimable(Update)
        PROVE  HoldersOf(l) = found
    <2>1. \A k \in LineOf(Update) : k = l
      BY <1>6, UpdateOK DEF LineOf, Claimable, FInv, PassOK
    <2>2. l \in LineOf(Update)
      BY <1>6 DEF LineOf
    <2>3. found = HoldersOf(l) \ {Update.entry}
      BY <2>1, <2>2, OthersAre
    <2>4. Update.entry \notin HoldersOf(l)
      <3> SUFFICES ASSUME Update.entry \in HoldersOf(l) PROVE FALSE
        OBVIOUS
      <3>1. \A f \in HoldersOf(l) : f = Update.entry
        <4> SUFFICES ASSUME NEW f \in HoldersOf(l) PROVE f = Update.entry
          OBVIOUS
        <4>1. <<f, l>> \in refs /\ <<Update.entry, l>> \in refs
          BY DEF HoldersOf
        <4>2. <<f, l>> = <<Update.entry, l>>
          BY <4>1 DEF FInv, IInv, OneHolderPerLine
        <4> QED BY <4>2
      <3>2. HoldersOf(l) = {Update.entry}
        BY <3>1
      <3> QED BY <1>6, <3>2 DEF Weigh, RefreshKept
    <2> QED BY <2>3, <2>4
  <1> HIDE DEF live, found
  <1>9. /\ pass' = [pass EXCEPT !.step = "act", !.found = found, !.live = live]
        /\ pass \in PassRec
    BY <1>1 DEF live, found, FInv, PassOK, PassTyped
  <1>10. /\ pass'.updates = pass.updates /\ pass'.lines = pass.lines
         /\ pass'.date = pass.date /\ pass'.claimed = pass.claimed
         /\ pass'.changed = pass.changed /\ pass'.link = pass.link
         /\ pass'.step = "act" /\ pass'.found = found /\ pass'.live = live
         /\ pass' \in PassRec
    BY <1>3, <1>5, <1>9 DEF Steps, found, PassRec
  <1>11. PassTyped' /\ Update' = Update /\ pass.link = {}
    BY <1>1, <1>2, <1>5, <1>10, PassStays, FInvTables DEF FInv, PassOK, PassTyped
  <1>12. Weighed'
    <2>2. entry[Update.entry].state \notin {"untracked", "superseded"}
      BY <1>1 DEF IsTerminal, TerminalStates
    <2>3. \A l : HoldersOf(l)' = HoldersOf(l)
      BY <1>2 DEF HoldersOf
    <2>4. Claimable(Update)' = Claimable(Update)
      BY <1>10, <1>11 DEF Claimable
    <2> QED BY <1>1, <1>2, <1>4, <1>6, <1>10, <1>11, <2>2, <2>3, <2>4 DEF Weighed, found
  <1> QED BY <1>1, <1>10, <1>11, <1>12, QuietStep DEF PassOK

LEMMA RecordMentionStep ==
    ASSUME FInv, pass.step = "act", RecordMention(Update.entry), Aside
    PROVE  FInv' /\ LedgerStep
  <1> DEFINE e == Update.entry
             r == Heard(entry[e], pass.date)
  <1>1. /\ entry' = [entry EXCEPT ![e] = r]
        /\ dirty' = dirty \cup {entry[e].project}
        /\ MoveOn({e}, Claimable(Update))
        /\ refs' = refs /\ links' = links /\ claims' = claims /\ call' = call
        /\ Minted' = Minted
    BY DEF RecordMention, MarkDirty, Minted
  <1>2. /\ ~Idle /\ e \in Minted /\ e \notin pass.changed /\ call = NoCall
        /\ RowOK(entry[e]) /\ entry[e] \in EntryRec /\ entry[e].project \in Projects
        /\ entry[e].untrackedVia = "none" /\ entry[e].state # "superseded"
    BY ActingOn
  <1>3. RowOK(r) /\ r.untrackedVia = "none"
    BY <1>2, HeardRowOK DEF FInv, PassOK, PassTyped
  <1>4. r.closedVia = entry[e].closedVia /\ r.state # "superseded"
    BY <1>2, HeardKeeps
  <1>5. PassOK' /\ pass'.link = {}
    BY <1>1, <1>2, UpdateOK, MoveOnOK DEF FInv, PassOK
  <1> HIDE DEF r, e
  <1>6. \A f \in Minted :
           /\ Super(f)' <=> Super(f)
           /\ entry'[f].closedVia = entry[f].closedVia
    BY <1>1, <1>2, <1>4, FInvTables DEF Super
  <1>7. LedgerStep
    BY <1>1, <1>2, <1>3, RowUpdate, FInvTables DEF FInv, MachineSources
  <1> QED
    BY <1>1, <1>2, <1>5, <1>6, <1>7, PlainStep, FInvTables

\* A link that is checked: the worker is on the entry from here on, and if the
\* assistant is, the two calls have met.
LEMMA CheckLinkStep ==
    ASSUME FInv, pass.step \in {"act", "follow"}, NEW from \in Minted, NEW to \in Minted,
           CheckLink(from, to), Aside
    PROVE  FInv' /\ LedgerStep
  <1>1. /\ pass' = [pass EXCEPT !.step = "checked", !.link = {<<from, to>>}]
        /\ TransitionAllowed(entry[from].state, "superseded")
        /\ UNCHANGED ledgerVars
    BY DEF CheckLink
  <1>2. /\ entry' = entry /\ refs' = refs /\ links' = links /\ claims' = claims
        /\ dirty' = dirty /\ call' = call
    BY <1>1 DEF ledgerVars
  <1>3. LedgerStep /\ Minted' = Minted
    BY <1>2, NoRowWritten DEF FInv, IInv, TablesOK
  <1>4. ~Idle /\ call = NoCall /\ pass.link = {}
    BY ActingOn, FInvTables
  <1>5. HandOK' /\ hand' = hand /\ cut' = cut /\ torn \subseteq torn'
    BY <1>2, <1>3, <1>4, AsideKeeps DEF FInv
  <1>6. \A e \in Minted : WorkerOn(e)' /\ AssistantOn(e) => e \in torn'
    BY <1>2, <1>3, <1>4, AsideKeeps DEF FInv
  <1>7. /\ pass'.updates = pass.updates /\ pass'.lines = pass.lines
        /\ pass'.date = pass.date /\ pass'.claimed = pass.claimed
        /\ pass'.changed = pass.changed /\ pass'.found = pass.found
        /\ pass'.live = pass.live
        /\ pass'.step = "checked" /\ pass'.link = {<<from, to>>}
        /\ pass' \in PassRec
    <2> DEFINE link == {<<from, to>>}
    <2>1. pass \in PassRec /\ pass' = [pass EXCEPT !.step = "checked", !.link = link]
      BY <1>1, FInvTables
    <2>2. link \in SUBSET (Minted \X Minted)
      OBVIOUS
    <2> HIDE DEF link
    <2>3. /\ pass'.updates = pass.updates /\ pass'.lines = pass.lines
          /\ pass'.date = pass.date /\ pass'.claimed = pass.claimed
          /\ pass'.changed = pass.changed /\ pass'.found = pass.found
          /\ pass'.live = pass.live
          /\ pass'.step = "checked" /\ pass'.link = link
          /\ pass' \in PassRec
      BY <2>1, <2>2 DEF Steps, PassRec
    <2> QED BY <2>3 DEF link
  <1>8. PassTyped' /\ Update' = Update
    BY <1>3, <1>4, <1>7, PassStays, FInvTables DEF FInv, PassOK
  <1>9. Weighed'
    BY <1>2, <1>3, <1>7, <1>8 DEF FInv, PassOK, Weighed
  <1>10. LinksOK'
    <2> SUFFICES ASSUME NEW e \in Minted \ torn' PROVE Consistent(e)'
      BY <1>3 DEF LinksOK
    <2>1. Consistent(e)
      BY <1>5 DEF LinksOK, FInv
    <2>2. (Linked(e)' <=> Linked(e)) /\ (Super(e)' <=> Super(e))
      BY <1>2, <1>3 DEF Linked, Super
    <2>3. AssistantOn(e)' <=> AssistantOn(e)
      BY <1>5 DEF AssistantOn
    <2>4. ~(WorkerOn(e)' /\ AssistantOn(e)')
      BY <1>6, <2>3
    <2>5. call' # <<"reopen", e>>
      BY <1>2, <1>4 DEF NoCall
    <2> QED BY <1>1, <1>2, <1>4, <1>5, <1>7, <2>1, <2>2, <2>3, <2>4, <2>5 DEF Consistent
  <1>11. ConversationCloseHasClaim'
    BY <1>2, <1>3, <1>5, ClaimsKept DEF FInv
  <1> QED
    BY <1>3, <1>5, <1>8, <1>9, <1>10, <1>11 DEF FInv, LedgerStep, PassOK

LEMMA InsertLinkStep ==
    ASSUME FInv, InsertLink, Aside
    PROVE  FInv' /\ LedgerStep
  <1>1. /\ pass.step = "checked"
        /\ links' = links \cup pass.link
        /\ pass' = [pass EXCEPT !.step = "inserted"]
        /\ entry' = entry /\ refs' = refs /\ claims' = claims
        /\ dirty' = dirty /\ call' = call
    BY DEF InsertLink
  <1>2. links' \subseteq Minted \X Minted
    BY <1>1, FInvTables
  <1>3. LedgerStep /\ Minted' = Minted
    BY <1>1, <1>2, NoRowWritten DEF FInv, IInv, TablesOK
  <1>4. ~Idle /\ call = NoCall
    BY <1>1, ActingOn
  <1>5. HandOK' /\ hand' = hand /\ cut' = cut /\ torn \subseteq torn'
    BY <1>1, <1>3, <1>4, AsideKeeps DEF FInv
  <1>7. /\ pass'.updates = pass.updates /\ pass'.lines = pass.lines
        /\ pass'.date = pass.date /\ pass'.claimed = pass.claimed
        /\ pass'.changed = pass.changed /\ pass'.found = pass.found
        /\ pass'.live = pass.live
        /\ pass'.step = "inserted" /\ pass'.link = pass.link
        /\ pass' \in PassRec
    <2>1. pass \in PassRec /\ pass' = [pass EXCEPT !.step = "inserted"]
      BY <1>1, FInvTables
    <2> QED BY <2>1 DEF Steps, PassRec
  <1>8. PassTyped' /\ Update' = Update
    BY <1>3, <1>4, <1>7, PassStays, FInvTables DEF FInv, PassOK, PassTyped
  <1>9. Weighed'
    BY <1>1, <1>3, <1>7, <1>8 DEF FInv, PassOK, Weighed
  <1>10. LinksOK'
    <2> SUFFICES ASSUME NEW e \in Minted \ torn' PROVE Consistent(e)'
      BY <1>3 DEF LinksOK
    <2>1. Consistent(e)
      BY <1>5 DEF LinksOK, FInv
    <2>2. Super(e)' <=> Super(e)
      BY <1>1 DEF Super
    <2>3. AssistantOn(e)' <=> AssistantOn(e)
      BY <1>5 DEF AssistantOn
    <2>4. WorkerOn(e)' <=> WorkerOn(e)
      BY <1>1, <1>7 DEF WorkerOn
    <2>5. CASE \E k \in pass.link : k[1] = e
      <3>1. WorkerOn(e)
        BY <2>5 DEF WorkerOn
      <3>2. call # <<"reopen", e>> /\ hand # <<"reopen", e>>
        BY <1>4, <2>1, <3>1, HandFacts DEF FInv, Consistent, NoCall
      <3> QED BY <1>1, <1>5, <1>7, <2>1, <2>2, <2>3, <2>4, <2>5, <3>2 DEF Consistent
    <2>6. CASE \A k \in pass.link : k[1] # e
      <3>1. Linked(e)' <=> Linked(e)
        BY <1>1, <1>3, <2>6 DEF Linked
      <3> QED BY <1>1, <1>5, <1>7, <2>1, <2>2, <2>3, <2>4, <2>6, <3>1 DEF Consistent
    <2> QED BY <2>5, <2>6
  <1>11. ConversationCloseHasClaim'
    BY <1>1, <1>3, <1>5, ClaimsKept DEF FInv
  <1> QED
    BY <1>3, <1>5, <1>8, <1>9, <1>10, <1>11 DEF FInv, LedgerStep, PassOK

\* The row follows the link that is there already.
LEMMA BecomeHistoryStep ==
    ASSUME FInv, pass.step = "inserted", NEW k \in pass.link,
           BecomeHistory(k[1], k[2]), Aside
    PROVE  FInv' /\ LedgerStep
  <1> DEFINE from == k[1]
             r == Moved(entry[from], "superseded")
  <1>1. /\ entry' = [entry EXCEPT ![from] = r]
        /\ dirty' = dirty \cup {entry[from].project, entry[k[2]].project}
        /\ MoveOn({Update.entry}, {})
        /\ refs' = refs /\ links' = links /\ claims' = claims /\ call' = call
        /\ Minted' = Minted
    BY DEF BecomeHistory, Superseding, MarkDirty, Minted
  <1>2. /\ from \in Minted /\ k[2] \in Minted
        /\ RowOK(entry[from]) /\ links \subseteq Minted \X Minted
        /\ claims \subseteq Minted \X Claims /\ dirty' \subseteq Projects
    BY <1>1, FInvTables
  <1>3. RowOK(r) /\ r.untrackedVia = "none" /\ r.closedVia = "none" /\ r.state = "superseded"
    BY <1>2, FollowUpRowsOK
  <1>4. ~Idle /\ call = NoCall
    BY ActingOn
  <1>5. PassOK' /\ pass'.link = {}
    <2>1. {Update.entry} \subseteq Minted /\ {} \subseteq pass.lines /\ Minted \subseteq Minted'
      BY <1>1, ActingOn
    <2> QED BY <1>1, <1>4, <2>1, MoveOnOK DEF FInv, PassOK
  <1>6. HandOK' /\ hand' = hand /\ cut' = cut /\ torn \subseteq torn'
    BY <1>1, <1>4, AsideKeeps DEF FInv
  <1> HIDE DEF r, from
  <1>7. LedgerStep
    BY <1>1, <1>2, <1>3, RowUpdate, FInvTables DEF FInv, MachineSources
  <1>8. \A f \in Minted : entry'[f] = IF f = from THEN r ELSE entry[f]
    BY <1>1, FInvTables
  <1>9. LinksOK'
    <2> SUFFICES ASSUME NEW e \in Minted \ torn' PROVE Consistent(e)'
      BY <1>1 DEF LinksOK
    <2>1. Consistent(e)
      BY <1>6 DEF LinksOK, FInv
    <2>2. Linked(e)' <=> Linked(e)
      BY <1>1 DEF Linked
    <2>3. AssistantOn(e)' <=> AssistantOn(e)
      BY <1>6 DEF AssistantOn
    <2>4. ~WorkerOn(e)' /\ call # <<"reopen", e>> /\ call' # <<"reopen", e>>
      BY <1>1, <1>4, <1>5 DEF WorkerOn, NoCall
    <2>5. CASE e = from
      <3>1. ~AssistantOn(e) /\ k \in links
        BY <2>1, <2>5 DEF Consistent, WorkerOn, from
      <3>2. Linked(e)
        BY <1>2, <2>5, <3>1 DEF Linked, from
      <3>3. Super(e)'
        BY <1>2, <1>3, <1>8, <2>5 DEF Super
      <3>4. hand' # <<"close", e>> /\ hand' # <<"waive", e>> /\ hand' # <<"reopen", e>>
        BY <1>6, <3>1, HandFacts DEF FInv
      <3> QED BY <1>5, <2>2, <2>4, <3>2, <3>3, <3>4 DEF Consistent
    <2>6. CASE e # from
      <3>1. Super(e)' <=> Super(e)
        BY <1>8, <2>6 DEF Super
      <3>2. \A j \in pass.link : j[1] # e
        BY <2>6 DEF FInv, PassOK, PassTyped, from
      <3> QED BY <1>1, <1>5, <1>6, <2>1, <2>2, <2>4, <3>1, <3>2 DEF Consistent
    <2> QED BY <2>5, <2>6
  <1>10. ConversationCloseHasClaim'
    <2>1. \A f \in Minted : entry'[f].closedVia = "conversation" =>
                               entry[f].closedVia = "conversation"
      BY <1>3, <1>8
    <2> QED BY <1>1, <1>6, <2>1, ClaimsKept DEF FInv
  <1> QED
    BY <1>5, <1>6, <1>7, <1>9, <1>10 DEF FInv, LedgerStep

\* The table refuses a move; with the link inserted it can do so only because
\* the assistant got there in between.
LEMMA RefusedStep ==
    ASSUME FInv, pass.step # "weigh", NEW e \in Minted, NEW to, Refused(e, to), Aside,
           pass.link = {} \/ (pass.step = "inserted" /\ to = "superseded"
                                 /\ \E k \in pass.link : k[1] = e)
    PROVE  FInv' /\ LedgerStep
  <1>1. /\ ~TransitionAllowed(entry[e].state, to)
        /\ MoveOn({}, {})
        /\ UNCHANGED ledgerVars
    BY DEF Refused
  <1>2. ~Idle /\ call = NoCall
    BY ActingOn
  <1>3. CASE pass.link = {}
    BY <1>1, <1>2, <1>3, PassedOver
  <1>4. CASE /\ pass.step = "inserted" /\ to = "superseded"
             /\ \E k \in pass.link : k[1] = e
    <2>1. e \in torn
      BY <1>1, <1>4 DEF FInv, LinksOK, Consistent
    <2>2. /\ entry' = entry /\ refs' = refs /\ links' = links /\ claims' = claims
          /\ dirty' = dirty /\ call' = call
      BY <1>1 DEF ledgerVars
    <2>3. LedgerStep /\ Minted' = Minted
      BY <2>2, NoRowWritten DEF FInv, IInv, TablesOK
    <2>4. PassOK' /\ pass'.link = {}
      BY <1>1, <1>2, <2>3, MoveOnOK DEF FInv, PassOK
    <2>5. HandOK' /\ hand' = hand /\ cut' = cut /\ torn \subseteq torn'
      BY <1>2, <2>2, <2>3, AsideKeeps DEF FInv
    <2>6. LinksOK'
      <3> SUFFICES ASSUME NEW f \in Minted \ torn' PROVE Consistent(f)'
        BY <2>3 DEF LinksOK
      <3>1. Consistent(f)
        BY <2>5 DEF LinksOK, FInv
      <3>2. (Linked(f)' <=> Linked(f)) /\ (Super(f)' <=> Super(f))
        BY <2>2, <2>3 DEF Linked, Super
      <3>3. ~WorkerOn(f)' /\ call' # <<"reopen", f>> /\ call # <<"reopen", f>>
        BY <1>2, <2>2, <2>4 DEF WorkerOn, NoCall
      <3>4. \A j \in pass.link : j[1] # f
        BY <1>4, <2>1, <2>5 DEF FInv, PassOK, PassTyped
      <3> QED BY <2>4, <2>5, <3>1, <3>2, <3>3, <3>4 DEF Consistent
    <2>7. ConversationCloseHasClaim'
      BY <2>2, <2>3, <2>5, ClaimsKept DEF FInv
    <2> QED
      BY <2>3, <2>4, <2>5, <2>6, <2>7 DEF FInv, LedgerStep
  <1> QED BY <1>3, <1>4

LEMMA AddEvidenceStep ==
    ASSUME FInv, pass.step = "act", NEW c \in Claims, AddEvidence(Update.entry, c), Aside
    PROVE  FInv' /\ LedgerStep
  <1> DEFINE e == Update.entry
  <1>1. /\ Update.kind = "completed"
        /\ claims' = claims \cup {<<e, c>>}
        /\ dirty' = dirty \cup {entry[e].project}
        /\ pass' = [pass EXCEPT !.step = "follow", !.reported = {c}]
        /\ entry' = entry /\ refs' = refs /\ links' = links /\ call' = call
    BY DEF AddEvidence, MarkDirty
  <1>2. /\ ~Idle /\ e \in Minted /\ entry[e].project \in Projects /\ call = NoCall
    BY ActingOn
  <1>3. claims' \subseteq Minted \X Claims /\ dirty' \subseteq Projects
    BY <1>1, <1>2, FInvTables
  <1>4. LedgerStep /\ Minted' = Minted
    BY <1>1, <1>3, NoRowWritten, FInvTables DEF FInv
  <1>5. /\ pass'.updates = pass.updates /\ pass'.lines = pass.lines
        /\ pass'.date = pass.date /\ pass'.claimed = pass.claimed
        /\ pass'.changed = pass.changed /\ pass'.found = pass.found
        /\ pass'.live = pass.live /\ pass'.link = pass.link
        /\ pass'.step = "follow" /\ pass'.reported = {c}
        /\ pass' \in PassRec
    <2>1. pass \in PassRec /\ pass' = [pass EXCEPT !.step = "follow", !.reported = {c}]
      BY <1>1, FInvTables
    <2> QED BY <2>1 DEF Steps, PassRec
  <1>6. PassTyped' /\ Update' = Update /\ pass.link = {}
    BY <1>2, <1>4, <1>5, PassStays, FInvTables DEF FInv, PassOK
  <1> HIDE DEF e
  <1>7. Weighed'
    <2>1. Weighed /\ pass.step # "weigh"
      BY DEF FInv, PassOK
    <2> QED BY <1>1, <1>4, <1>5, <1>6, <2>1 DEF Weighed, e
  <1> QED
    BY <1>1, <1>2, <1>4, <1>5, <1>6, <1>7, PlainStep DEF PassOK, Super

\* The row of the entry a report is about: closed with its claim, or parked.
LEMMA ActOnReportStep ==
    ASSUME FInv, pass.step = "follow", ActOnReport(Update.entry), Aside
    PROVE  FInv' /\ LedgerStep
  <1> DEFINE e == Update.entry
  <1>1. /\ ~Idle /\ e \in Minted /\ e \notin pass.changed /\ call = NoCall
        /\ RowOK(entry[e]) /\ entry[e].project \in Projects
        /\ entry[e].state # "superseded" /\ pass.link = {} /\ pass.step # "weigh"
    BY ActingOn, FInvTables
  <1>2. \E c \in Claims : <<e, c>> \in claims
    BY FInvTables DEF FInv, PassOK, Weighed, ActOnReport
  <1>3. {e} \subseteq Minted /\ {} \subseteq Minted /\ {} \subseteq pass.lines
    BY <1>1
  <1>4. CASE Update.sure /\ Refused(e, "closed")
    BY <1>1, <1>4, RefusedStep
  <1>5. CASE KeepQuestion(e)
    BY <1>1, <1>3, <1>5, PassedOver DEF KeepQuestion
  <1>6. ASSUME NEW r, RowOK(r), r.untrackedVia = "none", r.state # "superseded",
               entry' = [entry EXCEPT ![e] = r], MoveOn({e}, {}),
               MarkDirty({entry[e].project}), UNCHANGED <<refs, links, claims, call>>
        PROVE  FInv' /\ LedgerStep
    <2> HIDE DEF e
    <2>1. claims' \subseteq Minted \X Claims /\ dirty' \subseteq Projects
      BY <1>1, <1>6, FInvTables DEF MarkDirty
    <2>2. LedgerStep /\ Minted' = Minted
      BY <1>1, <1>6, <2>1, RowUpdate, FInvTables DEF FInv, MachineSources
    <2>3. PassOK' /\ pass'.link = {}
      BY <1>1, <1>3, <1>6, <2>2, MoveOnOK DEF FInv, PassOK
    <2>4. /\ \A f \in Minted : Super(f)' <=> Super(f)
          /\ \A f \in Minted : entry'[f].closedVia = "conversation" =>
                \/ entry[f].closedVia = "conversation"
                \/ \E c \in Claims : <<f, c>> \in claims
      <3>1. \A f \in Minted : entry'[f] = IF f = e THEN r ELSE entry[f]
        BY <1>6, FInvTables
      <3> QED BY <1>1, <1>2, <1>6, <3>1 DEF Super
    <2> QED BY <1>1, <1>6, <2>2, <2>3, <2>4, PlainStep
  <1>7. CASE CloseFromEvidence(e)
    BY <1>1, <1>6, <1>7, FollowUpRowsOK DEF CloseFromEvidence
  <1>8. CASE SendToReview(e)
    BY <1>1, <1>6, <1>8, FollowUpRowsOK DEF SendToReview
  <1> QED
    BY <1>4, <1>5, <1>7, <1>8 DEF ActOnReport

-----------------------------------------------------------------------------
(* The one update that moves a line: from the duplicate, the only holder   *)
(* it can have, to the entry the conversation names.                       *)

LEMMA RetireHolderStep ==
    ASSUME FInv, pass.step = "act", NEW duplicate \in pass.found, NEW l \in Lines,
           RetireHolder(Update.entry, duplicate, l), Aside
    PROVE  FInv' /\ LedgerStep
  <1> DEFINE e == Update.entry
             live == IF duplicate \in pass.live THEN {duplicate} ELSE {}
             asked == entry[e].state = "needs_review"
  <1>1. /\ Update.kind = "refresh" /\ l \in Claimable(Update)
        /\ refs' = {r \in refs : r[2] = l => r[1] = e}
        /\ pass' = [pass EXCEPT !.step = "retired", !.asked = asked, !.live = live]
        /\ entry' = entry /\ links' = links /\ claims' = claims /\ dirty' = dirty
        /\ call' = call /\ Minted' = Minted
    BY DEF RetireHolder, TakenFromOthers, LeavesHistory, Minted
  <1>2. ~Idle /\ call = NoCall /\ pass.link = {}
    BY ActingOn, FInvTables
  <1>3. /\ HoldersOf(l) = pass.found /\ e \notin pass.found
        /\ l \notin pass.claimed /\ \A k \in Claimable(Update) : k = l
    BY <1>1, <1>2, UpdateOK DEF FInv, PassOK, Weighed, Claimable
  <1>4. \A r \in refs : r = <<r[1], r[2]>> /\ r[1] \in Minted /\ r[2] \in Lines
    BY FInvTables
  <1>5. refs' = {r \in refs : r[2] # l}
    <2>1. \A r \in refs : r[2] = l => r[1] # e
      BY <1>3, <1>4 DEF HoldersOf
    <2> QED BY <1>1, <2>1
  <1>6. IInv'
    <2>1. refs' \subseteq refs
      BY <1>5
    <2> QED
      BY <1>1, <2>1 DEF FInv, IInv, TablesOK, RowsOK, OneHolderPerLine,
                        MachineUntrackHasOneSource, LinesOf
  <1>7. KeepsClaimed
    BY <1>1, <1>3, <1>5 DEF KeepsClaimed, HoldersOf
  <1> HIDE DEF live, asked
  <1>8. /\ pass'.updates = pass.updates /\ pass'.lines = pass.lines
        /\ pass'.date = pass.date /\ pass'.claimed = pass.claimed
        /\ pass'.changed = pass.changed /\ pass'.found = pass.found
        /\ pass'.live = live /\ pass'.link = pass.link
        /\ pass'.step = "retired" /\ pass' \in PassRec
    <2>1. pass \in PassRec /\ live \in SUBSET Minted /\ asked \in BOOLEAN
      BY FInvTables DEF live, asked
    <2> QED BY <1>1, <2>1 DEF Steps, PassRec
  <1>9. \A f \in Minted : NoneLost(f)
    <2> SUFFICES ASSUME NEW f \in Minted, HoldsLine(f), ~HoldsLine(f)'
                 PROVE  f \in pass.found /\ (f \in pass.live => f \in pass'.live)
      BY DEF NoneLost
    <2>1. <<f, l>> \in refs
      BY <1>5 DEF HoldsLine
    <2>2. f \in pass.found /\ <<duplicate, l>> \in refs
      BY <1>3, <2>1, FInvTables DEF HoldersOf
    <2>3. <<f, l>> = <<duplicate, l>>
      BY <2>1, <2>2 DEF FInv, IInv, OneHolderPerLine
    <2> QED BY <1>8, <2>2, <2>3 DEF live
  <1>10. LedgerStep
    BY <1>1, <1>6, <1>7, <1>9 DEF LedgerStep, FirstWins
  <1>11. PassTyped' /\ Update' = Update
    <2>1. live \subseteq pass.found
      BY FInvTables DEF live
    <2> QED BY <1>1, <1>2, <1>8, <2>1, PassStays, FInvTables DEF FInv, PassOK
  <1>12. Weighed'
    <2>1. Weighed /\ pass.step # "weigh"
      BY DEF FInv, PassOK
    <2>2. Claimable(Update)' = Claimable(Update)
      BY <1>8, <1>11 DEF Claimable
    <2>3. HoldersOf(l)' = {}
      BY <1>5 DEF HoldersOf
    <2> QED BY <1>1, <1>3, <1>8, <1>11, <2>1, <2>2, <2>3 DEF Weighed
  <1> QED
    BY <1>1, <1>2, <1>8, <1>10, <1>11, <1>12, PlainStep DEF PassOK, Super

\* The entry has its line: the duplicate is next, or the next update.
LEMMA RelinkedOK ==
    ASSUME FInv, pass.step \in {"retired", "relinked"}, NEW lines, lines \subseteq pass.lines,
           Relinked(Update.entry, lines), Minted' = Minted,
           entry'[Update.entry].state \notin {"untracked", "superseded"}
    PROVE  PassOK' /\ pass.link = {} /\ pass'.link = {} /\ dirty' \subseteq Projects
  <1>1. /\ ~Idle /\ Update.entry \in Minted /\ entry[Update.entry].project \in Projects
    BY ActingOn
  <1>2. dirty' \subseteq Projects /\ pass.link = {}
    BY <1>1, FInvTables DEF Relinked, MarkDirty
  <1>3. CASE pass.live = {}
    BY <1>1, <1>2, <1>3, MoveOnOK DEF Relinked, FInv, PassOK
  <1>4. CASE pass.live # {}
    <2>1. pass \in PassRec /\ pass' = [pass EXCEPT !.step = "follow", !.claimed = @ \cup lines]
      BY <1>4, FInvTables DEF Relinked
    <2>2. pass.claimed \cup lines \in SUBSET Lines
      BY FInvTables
    <2>3. /\ pass'.updates = pass.updates /\ pass'.lines = pass.lines
          /\ pass'.date = pass.date /\ pass'.claimed = pass.claimed \cup lines
          /\ pass'.changed = pass.changed /\ pass'.found = pass.found
          /\ pass'.live = pass.live /\ pass'.link = pass.link
          /\ pass'.step = "follow" /\ pass' \in PassRec
      BY <2>1, <2>2 DEF Steps, PassRec
    <2>4. PassTyped' /\ Update' = Update
      BY <1>1, <1>2, <2>3, PassStays, FInvTables DEF FInv, PassOK
    <2>5. Weighed'
      <3>1. Weighed /\ Update.kind = "refresh"
        BY DEF FInv, PassOK, Weighed
      <3> QED BY <2>3, <2>4, <3>1 DEF Weighed
    <2> QED BY <1>2, <2>3, <2>4, <2>5 DEF PassOK
  <1> QED BY <1>3, <1>4

LEMMA GiveLineStep ==
    ASSUME FInv, GiveLine(Update.entry), Aside
    PROVE  FInv' /\ LedgerStep
  <1> DEFINE e == Update.entry
             lines == Claimable(Update)
  <1>1. /\ pass.step = "retired"
        /\ refs' = refs \cup ({e} \X lines)
        /\ IF pass.asked
           THEN /\ pass' = [pass EXCEPT !.step = "relinked", !.claimed = @ \cup lines]
                /\ dirty' = dirty
           ELSE Relinked(e, lines)
        /\ entry' = entry /\ links' = links /\ claims' = claims
        /\ call' = call /\ Minted' = Minted
    BY DEF GiveLine, Minted
  <1>2. /\ ~Idle /\ call = NoCall /\ pass.link = {} /\ e \in Minted
        /\ entry[e].untrackedVia = "none"
        /\ entry[e].state # "superseded" /\ entry[e].state # "untracked"
    BY <1>1, ActingOn, FInvTables
  <1>3. /\ \A l \in lines : HoldersOf(l) = {}
        /\ Update.kind = "refresh"
    BY <1>1 DEF FInv, PassOK, Weighed
  <1>4. /\ lines \subseteq pass.lines /\ lines \subseteq Lines /\ lines \cap pass.claimed = {}
        /\ \A k, l \in lines : k = l
    BY <1>2, UpdateOK DEF FInv, PassOK, Claimable
  <1>5. PassOK' /\ pass'.link = {} /\ dirty' \subseteq Projects
    <2>1. CASE ~pass.asked
      BY <1>1, <1>2, <1>4, <2>1, RelinkedOK
    <2>2. CASE pass.asked
      <3> HIDE DEF lines
      <3>1. pass \in PassRec /\ pass' = [pass EXCEPT !.step = "relinked", !.claimed = @ \cup lines]
        BY <1>1, <2>2, FInvTables
      <3>2. pass.claimed \cup lines \in SUBSET Lines
        BY <1>4, FInvTables
      <3>3. /\ pass'.updates = pass.updates /\ pass'.lines = pass.lines
            /\ pass'.date = pass.date /\ pass'.claimed = pass.claimed \cup lines
            /\ pass'.changed = pass.changed /\ pass'.found = pass.found
            /\ pass'.live = pass.live /\ pass'.link = pass.link
            /\ pass'.step = "relinked" /\ pass' \in PassRec
        BY <3>1, <3>2 DEF Steps, PassRec
      <3>4. PassTyped' /\ Update' = Update
        BY <1>1, <1>2, <1>4, <3>3, PassStays, FInvTables DEF FInv, PassOK
      <3>5. Weighed'
        <4>1. Weighed /\ pass.step # "weigh"
          BY <1>1 DEF FInv, PassOK
        <4> QED BY <1>1, <1>3, <3>3, <3>4, <4>1 DEF Weighed
      <3>6. dirty' \subseteq Projects
        BY <1>1, <2>2, FInvTables
      <3> QED BY <1>2, <3>3, <3>4, <3>5, <3>6 DEF PassOK
    <2> QED BY <2>1, <2>2
  <1> HIDE DEF lines, e
  <1>6. \A f, k : <<f, k>> \in refs' <=> <<f, k>> \in refs \/ (f = e /\ k \in lines)
    BY <1>1
  <1>7. \A r \in refs' : r = <<r[1], r[2]>> /\ r[1] \in Minted /\ r[2] \in Lines
    BY <1>1, <1>2, <1>4, FInvTables
  <1>8. IInv'
    <2>1. TablesOK'
      BY <1>1, <1>5, <1>7, FInvTables DEF FInv, IInv, TablesOK
    <2>2. RowsOK'
      BY <1>1 DEF FInv, IInv, RowsOK
    <2>3. OneHolderPerLine'
      <3> SUFFICES ASSUME NEW r \in refs', NEW s \in refs', r[2] = s[2]
                   PROVE  r = s
        BY DEF OneHolderPerLine
      <3>1. r = <<r[1], r[2]>> /\ s = <<s[1], s[2]>> /\ r[1] \in Minted /\ s[1] \in Minted
        BY <1>7
      <3>2. CASE r[2] \in lines
        <4>1. r \notin refs /\ s \notin refs
          BY <1>3, <3>1, <3>2 DEF HoldersOf, lines
        <4> QED BY <1>6, <3>1, <4>1
      <3>3. CASE r[2] \notin lines
        <4>1. r \in refs /\ s \in refs
          BY <1>6, <3>1, <3>3
        <4> QED BY <4>1 DEF FInv, IInv, OneHolderPerLine
      <3> QED BY <3>2, <3>3
    <2>4. MachineUntrackHasOneSource'
      <3> SUFFICES ASSUME NEW f \in Minted', entry'[f].untrackedVia \in MachineSources,
                          NEW j \in LinesOf(f)', NEW k \in LinesOf(f)'
                   PROVE  NoteOf[j] = NoteOf[k]
        BY DEF MachineUntrackHasOneSource
      <3>1. f \in Minted /\ entry[f].untrackedVia \in MachineSources /\ f # e
        BY <1>1, <1>2 DEF MachineSources
      <3>2. j \in LinesOf(f) /\ k \in LinesOf(f)
        BY <1>6, <3>1 DEF LinesOf
      <3> QED BY <3>1, <3>2 DEF FInv, IInv, MachineUntrackHasOneSource
    <2> QED BY <2>1, <2>2, <2>3, <2>4 DEF IInv
  <1>9. KeepsClaimed
    BY <1>1, <1>4, <1>6 DEF KeepsClaimed, HoldersOf
  <1>10. \A f \in Minted : NoneLost(f)
    BY <1>6 DEF NoneLost, HoldsLine
  <1>11. LedgerStep
    BY <1>1, <1>8, <1>9, <1>10 DEF LedgerStep, FirstWins
  <1> QED
    BY <1>1, <1>2, <1>5, <1>11, PlainStep DEF Super

LEMMA OpenRelinkedStep ==
    ASSUME FInv, OpenRelinked(Update.entry), Aside
    PROVE  FInv' /\ LedgerStep
  <1> DEFINE e == Update.entry
             r == AsOpen(entry[e])
  <1>1. /\ pass.step = "relinked"
        /\ entry' = [entry EXCEPT ![e] = r]
        /\ Relinked(e, {})
        /\ refs' = refs /\ links' = links /\ claims' = claims
        /\ call' = call /\ Minted' = Minted
    BY DEF OpenRelinked, Minted
  <1>2. /\ ~Idle /\ call = NoCall /\ e \in Minted /\ e \notin pass.changed
        /\ RowOK(entry[e]) /\ entry[e].state # "superseded"
    BY <1>1, ActingOn
  <1>3. RowOK(r) /\ r.state = "open" /\ r.closedVia = "none" /\ r.untrackedVia = "none"
    BY <1>2, FollowUpRowsOK
  <1> HIDE DEF r
  <1>4. \A f \in Minted : entry'[f] = IF f = e THEN r ELSE entry[f]
    BY <1>1, FInvTables
  <1>5. PassOK' /\ pass.link = {} /\ pass'.link = {} /\ dirty' \subseteq Projects
    BY <1>1, <1>2, <1>3, <1>4, RelinkedOK
  <1> HIDE DEF e
  <1>6. LedgerStep
    BY <1>1, <1>2, <1>3, <1>5, RowUpdate, FInvTables DEF FInv, MachineSources
  <1>7. \A f \in Minted :
           /\ Super(f)' <=> Super(f)
           /\ entry'[f].closedVia \in {"none", entry[f].closedVia}
    BY <1>2, <1>3, <1>4 DEF Super
  <1> QED
    BY <1>1, <1>2, <1>5, <1>6, <1>7, PlainStep

LEMMA ApplyStep == ASSUME FInv, Apply, Aside PROVE FInv' /\ LedgerStep
  <1>1. ~Idle
    BY DEF Apply
  <1>2. CASE Skip
    BY <1>1, <1>2, PassedOver, FInvTables DEF Skip
  <1>3. CASE Keep
    BY <1>1, <1>3, UpdateOK, PassedOver, FInvTables DEF Keep, Applies, FInv, PassOK
  <1>4. CASE Weigh
    BY <1>1, <1>4, WeighStep
  <1>5. CASE Act
    <2>1. pass.step = "act" /\ pass.found \subseteq Minted /\ Update.entry \in Minted
          /\ pass.link = {}
      BY <1>5, ActingOn, FInvTables DEF Act
    <2>2. ASSUME NEW r \in pass.found, Supersede(Update.entry, r) PROVE FInv' /\ LedgerStep
      BY <2>1, <2>2, CheckLinkStep, RefusedStep DEF Supersede
    <2> QED
      BY <1>5, <2>1, <2>2, RetireHolderStep, RecordMentionStep, AddEvidenceStep DEF Act
  <1>6. CASE Follow
    <2>1. pass.step = "follow" /\ pass.found \subseteq Minted /\ Update.entry \in Minted
          /\ pass.live \subseteq pass.found /\ pass.link = {}
      BY <1>6, ActingOn, FInvTables DEF Follow
    <2>2. ASSUME NEW d \in pass.live, LinkDuplicate(d, Update.entry) PROVE FInv' /\ LedgerStep
      BY <2>1, <2>2, CheckLinkStep, RefusedStep DEF LinkDuplicate
    <2> QED
      BY <1>6, <2>1, <2>2, ActOnReportStep DEF Follow
  <1>7. CASE Link
    <2>1. ASSUME pass.step = "inserted", NEW k \in pass.link, Refused(k[1], "superseded")
          PROVE  FInv' /\ LedgerStep
      <3>1. k[1] \in Minted
        BY FInvTables
      <3> QED BY <2>1, <3>1, RefusedStep
    <2> QED BY <1>7, <2>1, InsertLinkStep, BecomeHistoryStep DEF Link
  <1> QED
    BY <1>2, <1>3, <1>4, <1>5, <1>6, <1>7, GiveLineStep, OpenRelinkedStep DEF Apply

-----------------------------------------------------------------------------
(* The other steps, and the theorems.                                      *)

\* A job of the ledger while there is no pass.
LEMMA JobBeside ==
    ASSUME FInv, IInv', Related, JobStep, PassOK', Idle, call = NoCall, call' = call,
           Aside, pass'.link = {}
    PROVE  FInv' /\ LedgerStep
  <1>1. /\ links' = links /\ claims' = claims /\ Minted \subseteq Minted'
        /\ \A e \in Minted : Settled(e)
        /\ \A e \in Minted' \ Minted : ~Super(e)' /\ entry'[e].closedVia = "none"
    BY DEF Related
  <1>2. HandOK' /\ hand' = hand /\ cut' = cut /\ torn \subseteq torn'
    BY <1>1, AsideKeeps DEF FInv
  <1>3. pass.claimed = {} /\ pass.changed = {} /\ pass.link = {}
    BY DEF FInv, PassOK, PassTyped, Resting
  <1>4. LinksOK'
    BY <1>1, <1>2, <1>3, LinksKept DEF FInv, Settled
  <1>5. ConversationCloseHasClaim'
    BY <1>1, <1>2, ClaimsKept DEF FInv, Settled
  <1>6. KeepsClaimed /\ FirstWins
    BY <1>3 DEF KeepsClaimed, FirstWins
  <1>7. \A e \in Minted : NoneLost(e)
    BY DEF JobStep, Asks, NoneLost
  <1> QED
    BY <1>2, <1>4, <1>5, <1>6, <1>7 DEF FInv, LedgerStep

LEMMA StartPassStep ==
    ASSUME FInv, Idle, call = NoCall, Aside,
           NEW n \in Notes, NEW p \in Pages, NEW us \in Conversations, StartPass(n, p, us)
    PROVE  FInv' /\ LedgerStep
  <1>1. Reconcile(n, p, HintsOf(us)) /\ call' = call
    BY DEF StartPass
  <1>2. Readable(n, p) /\ p.lines \in SUBSET Lines /\ p.date \in Dates
    BY PagesAssumption DEF StartPass, Readable, PageRec
  <1>3. IInv' /\ Related /\ JobStep
    BY <1>1, <1>2, ReconcileInv, ReconcileRelated, ReconcileJobStep DEF FInv
  <1>4. /\ \A i \in 1..Len(us) : us[i].item \subseteq p.lines
        /\ us \in Seq(UpdateRec) /\ us # <<>>
    BY ConversationsAssumption DEF StartPass
  <1>5. pass' = [updates |-> us, lines |-> p.lines, date |-> p.date,
                 changed |-> {}, claimed |-> {}, step |-> "weigh", found |-> {},
                 live |-> {}, reported |-> {}, asked |-> FALSE, link |-> {}]
    BY DEF StartPass, Resting
  <1>6. PassTyped'
    <2>1. /\ pass'.updates = us /\ pass'.lines = p.lines /\ pass'.date = p.date
          /\ pass'.claimed = {} /\ pass'.live = {} /\ pass'.link = {}
          /\ pass' \in PassRec'
      BY <1>2, <1>4, <1>5 DEF Steps, PassRec
    <2> QED BY <1>2, <1>4, <2>1 DEF PassTyped, Idle
  <1>7. Weighed' /\ pass'.link = {}
    BY <1>5 DEF Weighed
  <1> QED
    BY <1>1, <1>3, <1>6, <1>7, JobBeside DEF PassOK

LEMMA RestingKept ==
    ASSUME FInv, Idle, pass' = pass
    PROVE  PassOK' /\ pass.link = {}
  BY RestingOK DEF FInv, PassOK, PassTyped, Resting

LEMMA JobAsideStep ==
    ASSUME FInv, Idle, call = NoCall, Aside, Job, UNCHANGED <<call, pass>>
    PROVE  FInv' /\ LedgerStep
  <1>1. IInv' /\ Related /\ JobStep
    BY JobInv, JobRelated, JobsStep DEF FInv
  <1>2. PassOK' /\ pass'.link = {}
    BY RestingKept
  <1> QED
    BY <1>1, <1>2, JobBeside

\* The first commit of a call of two: the links go, or the claim.
LEMMA BeginCallStep ==
    ASSUME FInv, Idle, call = NoCall, Aside, BeginCall, UNCHANGED pass
    PROVE  FInv' /\ LedgerStep
  <1>1. PICK e \in Minted : UnlinkToReopen(e) \/ \E c \in Claims : DismissEvidence(e, c)
    BY DEF BeginCall
  <1>2. /\ entry' = entry /\ refs' = refs
        /\ links' \subseteq Minted \X Minted
        /\ claims' \subseteq Minted \X Claims
        /\ dirty' \subseteq Projects
    BY <1>1, FInvTables DEF UnlinkToReopen, Unlinked, DismissEvidence, MarkDirty
  <1>3. LedgerStep /\ Minted' = Minted
    BY <1>2, NoRowWritten DEF FInv
  <1>4. PassOK' /\ pass.link = {} /\ pass'.link = {}
    BY RestingKept
  <1>5. /\ hand' = hand /\ cut' = cut
        /\ torn' = torn \cup {f \in Minted : WorkerOn(f)' /\ AssistantOn(f)'}
    BY DEF Aside, beside, Meets
  <1>6. HandOK'
    <2>1. \E name \in Halves : call' = <<name, e>>
      BY <1>1 DEF UnlinkToReopen, DismissEvidence, Halves
    <2>2. Idle'
      BY DEF Idle
    <2> QED BY <1>3, <1>5, <2>1, <2>2 DEF FInv, HandOK, CallOK
  <1>7. LinksOK'
    <2> SUFFICES ASSUME NEW f \in Minted \ torn' PROVE Consistent(f)'
      BY <1>3 DEF LinksOK
    <2>1. Consistent(f) /\ ~(WorkerOn(f)' /\ AssistantOn(f)')
      BY <1>5 DEF LinksOK, FInv
    <2>2. (Super(f)' <=> Super(f)) /\ (AssistantOn(f)' <=> AssistantOn(f))
      BY <1>2, <1>5 DEF Super, AssistantOn
    <2>3. call # <<"reopen", f>>
      BY DEF NoCall
    <2>4. CASE UnlinkToReopen(e)
      <3>1. /\ links' = {k \in links : k[1] # e} /\ call' = <<"reopen", e>>
        BY <2>4 DEF UnlinkToReopen, Unlinked
      <3>2. CASE f = e
        <4>1. ~Linked(f)'
          BY <3>1, <3>2 DEF Linked
        <4>2. ~AssistantOn(f)'
          BY <2>1, <3>1, <3>2 DEF WorkerOn
        <4>3. hand # <<"close", f>> /\ hand # <<"waive", f>> /\ hand # <<"reopen", f>>
          BY <2>2, <4>2, HandFacts DEF FInv
        <4> QED BY <1>4, <1>5, <3>1, <3>2, <4>1, <4>2, <4>3 DEF Consistent
      <3>3. CASE f # e
        <4>1. Linked(f)' <=> Linked(f)
          BY <1>3, <3>1, <3>3 DEF Linked
        <4>2. call' # <<"reopen", f>>
          BY <3>1, <3>3
        <4> QED BY <1>4, <1>5, <2>1, <2>2, <2>3, <4>1, <4>2 DEF Consistent
      <3> QED BY <3>2, <3>3
    <2>5. CASE \E c \in Claims : DismissEvidence(e, c)
      <3>1. links' = links /\ call' # <<"reopen", f>>
        BY <2>5 DEF DismissEvidence
      <3>2. Linked(f)' <=> Linked(f)
        BY <1>3, <3>1 DEF Linked
      <3> QED BY <1>4, <1>5, <2>1, <2>2, <2>3, <3>1, <3>2 DEF Consistent
    <2> QED BY <1>1, <2>4, <2>5
  <1>8. ConversationCloseHasClaim'
    <2>1. CASE UnlinkToReopen(e)
      <3>1. claims' = claims
        BY <2>1 DEF UnlinkToReopen
      <3>2. \A f : call # <<"dismiss", f>>
        BY DEF NoCall
      <3> QED BY <1>2, <1>3, <1>5, <3>1, <3>2, ClaimsKept DEF FInv
    <2>2. ASSUME NEW c \in Claims, DismissEvidence(e, c)
          PROVE  ConversationCloseHasClaim'
      <3>1. claims' = claims \ {<<e, c>>} /\ call' = <<"dismiss", e>>
        BY <2>2 DEF DismissEvidence
      <3>2. \A f : call # <<"dismiss", f>>
        BY DEF NoCall
      <3> SUFFICES ASSUME NEW f \in Minted \ cut, entry[f].closedVia = "conversation", f # e
                   PROVE  \E d \in Claims : <<f, d>> \in claims'
        BY <1>2, <1>3, <1>5, <3>1 DEF ConversationCloseHasClaim
      <3>3. PICK d \in Claims : <<f, d>> \in claims
        BY <3>2 DEF FInv, ConversationCloseHasClaim
      <3> QED BY <3>1, <3>3
    <2> QED BY <1>1, <2>1, <2>2
  <1> QED
    BY <1>3, <1>4, <1>6, <1>7, <1>8 DEF FInv, LedgerStep

\* A row judged beside a pass moves between the states a person may choose.
LEMMA PassBeside ==
    ASSUME FInv, pass' = pass, refs' = refs, claims' = claims, Minted' = Minted,
           \A f \in Minted : entry'[f].state \in {entry[f].state, "closed", "open", "waived"}
    PROVE  PassOK'
  <1>1. PassTyped'
    BY DEF FInv, PassOK, PassTyped, PassRec, Idle
  <1>2. /\ Update' = Update /\ Claimable(Update)' = Claimable(Update)
        /\ \A l : HoldersOf(l)' = HoldersOf(l)
    BY DEF Update, Claimable, HoldersOf
  <1>3. Weighed
    BY DEF FInv, PassOK
  <1>4. Weighed'
    BY <1>2, <1>3 DEF Weighed
  <1> QED BY <1>1, <1>4 DEF PassOK

\* The second commit: the entry is open, or was not closed by then.
LEMMA FinishCallStep ==
    ASSUME FInv, EndsCall
    PROVE  FInv' /\ LedgerStep
  <1>1. PICK e \in Minted : FinishReopen(e) \/ FinishDismissal(e)
    BY DEF EndsCall, FinishCall
  <1>2. /\ call' = NoCall /\ refs' = refs /\ links' = links /\ claims' = claims
        /\ hand' = hand /\ pass' = pass
        /\ call = <<"reopen", e>> \/ call = <<"dismiss", e>>
        /\ Opened(e) \/ (Judge(e, entry[e]) /\ entry[e].state # "closed" /\ MarkDirty({}))
    BY <1>1 DEF FinishReopen, FinishDismissal, Opened, EndsCall
  <1>3. /\ torn' = torn \cup {f \in Minted : WorkerOn(f)' /\ AssistantOn(f)'}
        /\ cut' = cut \ {f \in Minted : call = <<"dismiss", f>>}
    BY DEF EndsCall, Meets
  <1> DEFINE r == IF Opened(e) THEN AsTouched(AsOpen(entry[e])) ELSE AsTouched(entry[e])
  <1>4. entry' = [entry EXCEPT ![e] = r]
    BY <1>2 DEF Opened, Judge
  <1>5. /\ RowOK(r)
        /\ r.untrackedVia \in MachineSources => entry[e].untrackedVia \in MachineSources
        /\ r.state = "open" \/ r.state = entry[e].state
        /\ call = <<"reopen", e>> => r.state = "open"
        /\ r.closedVia = "none"
    <2>1. RowOK(entry[e]) /\ entry[e] \in EntryRec
      BY FInvTables DEF RowOK
    <2>2. CASE Opened(e)
      <3>1. /\ RowOK(AsOpen(entry[e])) /\ AsOpen(entry[e]).state = "open"
            /\ AsOpen(entry[e]).closedVia = "none" /\ AsOpen(entry[e]).untrackedVia = "none"
        BY <2>1, FollowUpRowsOK
      <3>2. AsOpen(entry[e]) \in EntryRec
        BY <3>1 DEF RowOK
      <3>3. /\ RowOK(r) /\ r.state = "open" /\ r.closedVia = "none" /\ r.untrackedVia = "none"
        BY <2>2, <3>1, <3>2, TouchedRowOK DEF AsTouched, EntryRec
      <3> QED BY <3>3 DEF MachineSources
    <2>3. CASE ~Opened(e)
      <3>1. entry[e].state # "closed" /\ call # <<"reopen", e>>
        <4>1. ~FinishReopen(e)
          BY <2>3 DEF FinishReopen
        <4>2. call = <<"dismiss", e>>
          BY <1>1, <4>1 DEF FinishDismissal
        <4> QED BY <1>2, <2>3, <4>2
      <3>2. entry[e].closedVia = "none"
        BY <2>1, <3>1 DEF RowOK, ColumnsFit
      <3>3. /\ RowOK(r) /\ r.state = entry[e].state /\ r.closedVia = entry[e].closedVia
            /\ r.untrackedVia = entry[e].untrackedVia
        BY <2>1, <2>3, TouchedRowOK DEF AsTouched, EntryRec
      <3> QED BY <3>1, <3>2, <3>3
    <2> QED BY <2>2, <2>3
  <1> HIDE DEF r
  <1>6. dirty' \subseteq Projects
    BY <1>2, FInvTables DEF Opened, MarkDirty
  <1>7. LedgerStep /\ Minted' = Minted
    BY <1>2, <1>4, <1>5, <1>6, RowUpdate, FInvTables DEF FInv
  <1>8. \A f \in Minted : entry'[f] = IF f = e THEN r ELSE entry[f]
    BY <1>4, FInvTables
  <1>9. Idle /\ pass.link = {}
    <2>1. Idle
      BY <1>2, HandFacts DEF FInv
    <2> QED BY <1>2, <2>1, RestingKept
  <1>10. PassOK'
    BY <1>2, <1>9, RestingKept
  <1>11. HandOK'
    BY <1>2, <1>3, <1>7, <1>9 DEF FInv, HandOK, CallOK
  <1>12. LinksOK'
    <2> SUFFICES ASSUME NEW f \in Minted \ torn' PROVE Consistent(f)'
      BY <1>7 DEF LinksOK
    <2>1. Consistent(f) /\ (AssistantOn(f)' <=> AssistantOn(f)) /\ (Linked(f)' <=> Linked(f))
      BY <1>2, <1>3, <1>7 DEF LinksOK, FInv, AssistantOn, Linked
    <2>2. ~WorkerOn(f)' /\ call' # <<"reopen", f>>
      BY <1>2, <1>9 DEF WorkerOn, NoCall
    <2>3. CASE call = <<"reopen", f>>
      <3>1. f = e /\ ~Linked(f) /\ ~AssistantOn(f)
        BY <1>2, <2>1, <2>3 DEF Consistent, WorkerOn
      <3>2. ~Super(f)'
        BY <1>5, <1>8, <2>3, <3>1 DEF Super
      <3> QED BY <1>2, <1>9, <2>1, <2>2, <3>1, <3>2 DEF Consistent
    <2>4. CASE call # <<"reopen", f>>
      <3>1. Super(f)' <=> Super(f)
        <4>1. CASE f = e /\ FinishReopen(e)
          BY <2>4, <4>1 DEF FinishReopen
        <4>2. CASE f = e /\ FinishDismissal(e)
          <5>1. CASE entry[e].state = "closed"
            BY <1>5, <1>8, <4>2, <5>1 DEF Super
          <5>2. CASE entry[e].state # "closed"
            <6>1. entry'[e] = AsTouched(entry[e]) /\ entry[e] \in EntryRec
              BY <4>2, <5>2, FInvTables DEF FinishDismissal, Judge, RowOK
            <6>2. entry'[e].state = entry[e].state
              BY <6>1 DEF AsTouched, EntryRec
            <6> QED BY <4>2, <6>2 DEF Super
          <5> QED BY <5>1, <5>2
        <4>3. CASE f # e
          BY <1>8, <4>3 DEF Super
        <4> QED BY <1>1, <4>1, <4>2, <4>3
      <3> QED BY <1>2, <1>9, <2>1, <2>2, <2>4, <3>1 DEF Consistent
    <2> QED BY <2>3, <2>4
  <1>13. ConversationCloseHasClaim'
    <2> SUFFICES ASSUME NEW f \in Minted \ cut', entry'[f].closedVia = "conversation"
                 PROVE  \E c \in Claims : <<f, c>> \in claims
      BY <1>2, <1>7 DEF ConversationCloseHasClaim
    <2>1. f # e /\ entry[f].closedVia = "conversation"
      BY <1>5, <1>8
    <2>2. call # <<"dismiss", f>> /\ f \notin cut
      BY <1>2, <1>3, <2>1
    <2> QED BY <2>1, <2>2 DEF FInv, ConversationCloseHasClaim
  <1> QED
    BY <1>7, <1>10, <1>11, <1>12, <1>13 DEF FInv, LedgerStep

\* The assistant begins where it reads, and drops the links it reopens over.
LEMMA AssistantBeginsStep ==
    ASSUME FInv, NEW e \in Minted, NEW name \in {"close", "waive", "reopen"},
           AssistantBegins(e, name), Meets({})
    PROVE  FInv' /\ LedgerStep
  <1>1. /\ hand = NoCall /\ hand' = <<name, e>>
        /\ name = "close" => TransitionAllowed(entry[e].state, "closed")
        /\ name = "waive" => TransitionAllowed(entry[e].state, "waived")
        /\ links' = IF name = "reopen" /\ entry[e].state = "superseded"
                    THEN {k \in links : k[1] # e} ELSE links
        /\ entry' = entry /\ refs' = refs /\ claims' = claims /\ dirty' = dirty
        /\ call' = call /\ pass' = pass /\ cut' = cut
        /\ torn' = torn \cup {f \in Minted : WorkerOn(f)' /\ AssistantOn(f)'}
    BY DEF AssistantBegins, Unlinked, Meets
  <1>2. links' \subseteq Minted \X Minted
    BY <1>1, FInvTables
  <1>3. LedgerStep /\ Minted' = Minted
    BY <1>1, <1>2, NoRowWritten, FInvTables DEF FInv
  <1>4. PassOK'
    BY <1>1, <1>3, PassBeside
  <1>5. HandOK'
    BY <1>1, <1>3 DEF FInv, HandOK, CallOK, Idle
  <1>6. LinksOK'
    <2> SUFFICES ASSUME NEW f \in Minted \ torn' PROVE Consistent(f)'
      BY <1>3 DEF LinksOK
    <2>1. Consistent(f) /\ ~(WorkerOn(f)' /\ AssistantOn(f)')
      BY <1>1 DEF LinksOK, FInv
    <2>2. (Super(f)' <=> Super(f)) /\ (WorkerOn(f)' <=> WorkerOn(f))
      BY <1>1 DEF Super, WorkerOn
    <2>3. hand # <<"close", f>> /\ hand # <<"waive", f>> /\ hand # <<"reopen", f>>
      BY <1>1 DEF NoCall
    <2>4. CASE f = e
      <3>1. AssistantOn(f)' /\ ~WorkerOn(f)
        BY <1>1, <2>1, <2>2, <2>4 DEF AssistantOn, NoCall
      <3>2. call # <<"reopen", f>> /\ \A k \in pass.link : k[1] # f
        BY <3>1 DEF WorkerOn
      <3>3. Super(f) <=> Linked(f)
        BY <2>1, <2>3, <3>2 DEF Consistent
      <3>4. ~(name \in {"close", "waive"} /\ Super(f))
        BY <1>1, <2>4 DEF Super, TransitionAllowed, LiveStates
      <3>5. CASE name = "reopen"
        <4>1. ~Linked(f)'
          BY <1>1, <1>3, <2>4, <3>3, <3>5 DEF Linked, Super
        <4> QED BY <1>1, <2>1, <2>2, <2>4, <3>1, <3>2, <3>5, <4>1 DEF Consistent
      <3>6. CASE name # "reopen"
        <4>1. Linked(f)' <=> Linked(f)
          BY <1>1, <1>3, <3>6 DEF Linked
        <4> QED BY <1>1, <2>1, <2>2, <2>4, <3>1, <3>2, <3>3, <3>4, <3>6, <4>1 DEF Consistent
      <3> QED BY <3>5, <3>6
    <2>5. CASE f # e
      <3>1. Linked(f)' <=> Linked(f)
        BY <1>1, <1>3, <2>5 DEF Linked
      <3>2. hand' # <<"close", f>> /\ hand' # <<"waive", f>> /\ hand' # <<"reopen", f>>
        BY <1>1, <2>5
      <3>3. \A k \in links : k[1] = f => k \in links'
        BY <1>1, <2>5
      <3> QED BY <1>1, <2>1, <2>2, <2>3, <3>1, <3>2, <3>3 DEF Consistent
    <2> QED BY <2>4, <2>5
  <1>7. ConversationCloseHasClaim'
    BY <1>1, <1>3, ClaimsKept DEF FInv
  <1> QED
    BY <1>3, <1>4, <1>5, <1>6, <1>7 DEF FInv, LedgerStep

\* It writes a row that fits, in whatever state it finds the old one.
LEMMA AssistantWritesStep ==
    ASSUME FInv, NEW e \in Minted, AssistantWrites(e), Meets({})
    PROVE  FInv' /\ LedgerStep
  <1>1. /\ \/ hand = <<"close", e>> /\ Judge(e, AsClosed(entry[e], "manual"))
           \/ hand = <<"waive", e>> /\ Judge(e, Moved(entry[e], "waived"))
           \/ hand = <<"reopen", e>> /\ Judge(e, AsOpen(entry[e]))
        /\ dirty' = dirty \cup {entry[e].project}
        /\ hand' = NoCall
        /\ refs' = refs /\ links' = links /\ claims' = claims
        /\ call' = call /\ pass' = pass /\ cut' = cut
        /\ torn' = torn \cup {f \in Minted : WorkerOn(f)' /\ AssistantOn(f)'}
    BY DEF AssistantWrites, MarkDirty, Meets
  <1>2. entry[e] \in EntryRec /\ RowOK(entry[e]) /\ dirty' \subseteq Projects
    BY <1>1, FInvTables
  <1>3. PICK m \in {AsClosed(entry[e], "manual"), Moved(entry[e], "waived"), AsOpen(entry[e])} :
           Judge(e, m)
    BY <1>1
  <1> DEFINE r == AsTouched(m)
  <1>4. /\ m \in EntryRec /\ m.state \in {"closed", "waived", "open"}
        /\ m.closedVia \in {"none", "manual"} /\ m.untrackedVia = "none" /\ RowOK(m)
    <2>1. /\ AsClosed(entry[e], "manual") = Move(entry[e], "closed", "manual", "none")
          /\ Moved(entry[e], "waived") = Move(entry[e], "waived", "none", "none")
          /\ AsOpen(entry[e]) = Move(entry[e], "open", "none", "none")
      BY <1>2 DEF EntryRec, AsOpen, Moved, AsClosed, Move
    <2>2. /\ MoveFits(entry[e], "closed", "manual", "none")
          /\ MoveFits(entry[e], "waived", "none", "none")
          /\ MoveFits(entry[e], "open", "none", "none")
      BY DEF MoveFits, States, LiveStates, TerminalStates, MachineSources
    <2>3. RowOK(m) /\ m.untrackedVia = "none"
      BY <1>2, <1>3, <2>1, <2>2, MoveRowOK
    <2>4. m.state \in {"closed", "waived", "open"} /\ m.closedVia \in {"none", "manual"}
      <3>1. /\ AsClosed(entry[e], "manual").state = "closed"
            /\ AsClosed(entry[e], "manual").closedVia = "manual"
            /\ Moved(entry[e], "waived").state = "waived"
            /\ Moved(entry[e], "waived").closedVia = "none"
            /\ AsOpen(entry[e]).state = "open"
            /\ AsOpen(entry[e]).closedVia = "none"
        <4>1. entry[e] \in EntryRec
          BY <1>2
        <4> QED BY <4>1, MoveTypes, MoveColumns
      <3> QED BY <1>3, <3>1
    <2> QED BY <2>3, <2>4 DEF RowOK
  <1>5. /\ RowOK(r) /\ r.state = m.state /\ r.closedVia = m.closedVia /\ r.untrackedVia = "none"
    BY <1>4, TouchedRowOK DEF AsTouched, EntryRec
  <1> HIDE DEF r
  <1>6. entry' = [entry EXCEPT ![e] = r]
    BY <1>3 DEF Judge, r
  <1>7. LedgerStep /\ Minted' = Minted
    BY <1>1, <1>2, <1>5, <1>6, RowUpdate, FInvTables DEF FInv, MachineSources
  <1>8. \A f \in Minted : entry'[f] = IF f = e THEN r ELSE entry[f]
    BY <1>6, FInvTables
  <1>9. PassOK'
    BY <1>1, <1>4, <1>5, <1>7, <1>8, PassBeside
  <1>10. HandOK'
    BY <1>1, <1>7 DEF FInv, HandOK, CallOK, Idle
  <1>11. LinksOK'
    <2> SUFFICES ASSUME NEW f \in Minted \ torn' PROVE Consistent(f)'
      BY <1>7 DEF LinksOK
    <2>1. Consistent(f) /\ (Linked(f)' <=> Linked(f)) /\ (WorkerOn(f)' <=> WorkerOn(f))
      BY <1>1, <1>7 DEF LinksOK, FInv, Linked, WorkerOn
    <2>2. /\ hand' # <<"close", f>> /\ hand' # <<"waive", f>> /\ hand' # <<"reopen", f>>
          /\ ~AssistantOn(f)'
      BY <1>1 DEF NoCall, AssistantOn
    <2>3. CASE f = e
      <3>1. AssistantOn(f)
        BY <1>1, <2>3, HandFacts DEF FInv
      <3>2. ~WorkerOn(f)
        BY <2>1, <3>1 DEF Consistent
      <3>3. call # <<"reopen", f>> /\ \A k \in pass.link : k[1] # f
        BY <3>2 DEF WorkerOn
      <3>4. ~Linked(f)
        BY <1>1, <2>1, <2>3, <3>3 DEF Consistent
      <3>5. ~Super(f)'
        BY <1>4, <1>5, <1>8, <2>3 DEF Super
      <3> QED BY <1>1, <2>1, <2>2, <3>3, <3>4, <3>5 DEF Consistent
    <2>4. CASE f # e
      <3>1. entry'[f] = entry[f] /\ hand # <<"reopen", f>>
        BY <1>1, <1>8, <2>4
      <3>2. Super(f)' <=> Super(f)
        BY <3>1 DEF Super
      <3> QED BY <1>1, <2>1, <2>2, <3>1, <3>2 DEF Consistent
    <2> QED BY <2>3, <2>4
  <1>12. ConversationCloseHasClaim'
    <2>1. \A f \in Minted : entry'[f].closedVia = "conversation" =>
                               entry[f].closedVia = "conversation"
      BY <1>4, <1>5, <1>8
    <2> QED BY <1>1, <1>7, <2>1, ClaimsKept DEF FInv
  <1> QED
    BY <1>7, <1>9, <1>10, <1>11, <1>12 DEF FInv, LedgerStep

LEMMA AssistantStopsStep == ASSUME FInv, AssistantStops PROVE FInv' /\ LedgerStep
  <1>1. /\ hand # NoCall /\ hand' = NoCall
        /\ entry' = entry /\ refs' = refs /\ links' = links /\ claims' = claims
        /\ dirty' = dirty /\ call' = call /\ pass' = pass /\ cut' = cut
        /\ torn' = torn \cup {f \in Minted : hand = <<"reopen", f>>}
                        \cup {f \in Minted : WorkerOn(f)' /\ AssistantOn(f)'}
    BY DEF AssistantStops, Meets
  <1>2. LedgerStep /\ Minted' = Minted
    BY <1>1, NoRowWritten, FInvTables DEF FInv
  <1>3. PassOK'
    BY <1>1, <1>2, PassBeside
  <1>4. HandOK'
    BY <1>1, <1>2 DEF FInv, HandOK, CallOK, Idle
  <1>5. LinksOK'
    <2> SUFFICES ASSUME NEW f \in Minted \ torn' PROVE Consistent(f)'
      BY <1>2 DEF LinksOK
    <2>1. Consistent(f) /\ hand # <<"reopen", f>>
      BY <1>1 DEF LinksOK, FInv
    <2>2. /\ (Super(f)' <=> Super(f)) /\ (Linked(f)' <=> Linked(f))
          /\ (WorkerOn(f)' <=> WorkerOn(f))
      BY <1>1, <1>2 DEF Super, Linked, WorkerOn
    <2>3. /\ hand' # <<"close", f>> /\ hand' # <<"waive", f>> /\ hand' # <<"reopen", f>>
          /\ ~AssistantOn(f)'
      BY <1>1 DEF NoCall, AssistantOn
    <2> QED BY <1>1, <2>1, <2>2, <2>3 DEF Consistent
  <1>6. ConversationCloseHasClaim'
    BY <1>1, <1>2, ClaimsKept DEF FInv
  <1> QED
    BY <1>2, <1>3, <1>4, <1>5, <1>6 DEF FInv, LedgerStep

\* What the worker leaves halfway is remembered.
LEMMA WorkerStopsStep == ASSUME FInv, WorkerStops PROVE FInv' /\ LedgerStep
  <1>1. /\ call' = NoCall /\ dirty' \in {dirty, {}} /\ pass' = Resting /\ hand' = hand
        /\ entry' = entry /\ refs' = refs /\ links' = links /\ claims' = claims
        /\ torn' = torn \cup {f \in Minted : WorkerOn(f)}
                        \cup {f \in Minted : WorkerOn(f)' /\ AssistantOn(f)'}
        /\ cut' = cut \cup {f \in Minted : call = <<"dismiss", f>>}
    BY DEF WorkerStops, Halt, Meets
  <1>2. LedgerStep /\ Minted' = Minted
    BY <1>1, NoRowWritten, FInvTables DEF FInv
  <1>3. PassOK' /\ pass'.link = {}
    BY <1>1, RestingOK DEF Resting
  <1>4. HandOK'
    BY <1>1, <1>2 DEF FInv, HandOK, CallOK
  <1>5. LinksOK'
    <2> SUFFICES ASSUME NEW f \in Minted \ torn' PROVE Consistent(f)'
      BY <1>2 DEF LinksOK
    <2>1. Consistent(f) /\ ~WorkerOn(f)
      BY <1>1 DEF LinksOK, FInv
    <2>2. /\ (Super(f)' <=> Super(f)) /\ (Linked(f)' <=> Linked(f))
          /\ (AssistantOn(f)' <=> AssistantOn(f))
      BY <1>1, <1>2 DEF Super, Linked, AssistantOn
    <2>3. ~WorkerOn(f)' /\ call' # <<"reopen", f>>
      BY <1>1, <1>3 DEF WorkerOn, NoCall
    <2>4. call # <<"reopen", f>> /\ \A k \in pass.link : k[1] # f
      BY <2>1 DEF WorkerOn
    <2> QED BY <1>1, <1>3, <2>1, <2>2, <2>3, <2>4 DEF Consistent
  <1>6. ConversationCloseHasClaim'
    <2>1. \A f : call = <<"dismiss", f>> => f \in cut'
      BY <1>1, HandFacts DEF FInv
    <2> QED BY <1>1, <1>2, <2>1, ClaimsKept DEF FInv
  <1> QED
    BY <1>2, <1>3, <1>4, <1>5, <1>6 DEF FInv, LedgerStep

LEMMA FNextStep == FInv /\ [FNext]_followUpVars => FInv' /\ LedgerStep
  <1> SUFFICES ASSUME FInv, [FNext]_followUpVars PROVE FInv' /\ LedgerStep
    OBVIOUS
  <1>1. CASE WorkerWorks /\ UNCHANGED beside /\ Meets({})
    <2>1. Aside
      BY <1>1 DEF Aside
    <2>2. CASE Apply
      BY <2>1, <2>2, ApplyStep
    <2>3. CASE Idle /\ call = NoCall /\ NextJob
      BY <2>1, <2>3, StartPassStep, BeginCallStep, JobAsideStep DEF NextJob
    <2> QED BY <1>1, <2>2, <2>3 DEF WorkerWorks
  <1>2. CASE EndsCall
    BY <1>2, FinishCallStep
  <1>3. CASE WorkerStops
    BY <1>3, WorkerStopsStep
  <1>4. ASSUME NEW e \in Minted, Meets({}),
               \/ \E name \in {"close", "waive", "reopen"} : AssistantBegins(e, name)
               \/ AssistantWrites(e)
        PROVE  FInv' /\ LedgerStep
    BY <1>4, AssistantBeginsStep, AssistantWritesStep
  <1>5. CASE AssistantStops
    BY <1>5, AssistantStopsStep
  <1>6. CASE UNCHANGED followUpVars
    <2>1. /\ entry' = entry /\ refs' = refs /\ links' = links /\ claims' = claims
          /\ dirty' = dirty /\ call' = call /\ pass' = pass /\ hand' = hand
          /\ torn' = torn /\ cut' = cut
      BY <1>6 DEF followUpVars
    <2>2. LedgerStep /\ Minted' = Minted
      BY <2>1, NoRowWritten, FInvTables DEF FInv
    <2>3. PassOK'
      BY <2>1, <2>2, PassBeside
    <2>4. HandOK'
      BY <2>1, <2>2 DEF FInv, HandOK, CallOK, Idle
    <2>5. LinksOK'
      BY <2>1, <2>2 DEF FInv, LinksOK, Consistent, WorkerOn, AssistantOn, Super, Linked
    <2>6. ConversationCloseHasClaim'
      BY <2>1, <2>2, ClaimsKept DEF FInv
    <2> QED BY <2>2, <2>3, <2>4, <2>5, <2>6 DEF FInv, LedgerStep
  <1> QED
    BY <1>1, <1>2, <1>3, <1>4, <1>5, <1>6 DEF FNext

LEMMA FInitInv == FInit => FInv
  <1> SUFFICES ASSUME FInit PROVE FInv
    OBVIOUS
  <1>1. /\ Init /\ pass = Resting /\ Minted = {} /\ hand = NoCall /\ torn = {} /\ cut = {}
        /\ call = NoCall
    BY DEF FInit, Init, Minted
  <1>2. IInv
    BY <1>1, InitInv
  <1>3. PassOK
    BY <1>1 DEF Resting, PassOK, PassTyped, PassRec, Weighed, Idle, Steps
  <1>4. HandOK /\ LinksOK /\ ConversationCloseHasClaim
    BY <1>1 DEF HandOK, CallOK, LinksOK, ConversationCloseHasClaim
  <1> QED
    BY <1>2, <1>3, <1>4 DEF FInv

\* Every reachable state of a pass satisfies its invariant.
THEOREM FollowUpInvariant == FSpec => []FInv
  <1>1. FInv /\ [FNext]_followUpVars => FInv'
    BY FNextStep
  <1> QED
    BY <1>1, FInitInv, PTL DEF FSpec

\* The ledger stays well typed, and a pass holds updates, lines and entries
\* that exist.
THEOREM FollowUpTyped == FSpec => []FollowUpTypeOK
  <1>1. FInv => FollowUpTypeOK
    BY DEF FInv, IInv, TablesOK, TypeOK, HandOK, CallOK, PassOK, PassTyped, PassRec,
           FollowUpTypeOK
  <1> QED
    BY <1>1, FollowUpInvariant, PTL

\* The word and the link go together through every supersede, take-over and
\* reopening, at every point between two commits and after every crash, for
\* each entry that no two calls met on and no call left halfway; it takes the
\* second check of set_state and the order of the commits (store.rs,
\* link_entries and reopen).
THEOREM SupersededMeansLinked == FSpec => []SupersededIffLinked
  <1>1. FInv => SupersededIffLinked
    BY DEF FInv, LinksOK, Consistent, SupersededIffLinked, WorkerOn, Linked, Super
  <1> QED
    BY <1>1, FollowUpInvariant, PTL

\* What a conversation closed has the claim that closed it, but between the two
\* commits of a dismissal, and after a crash there until the next dismissal
\* (store.rs, dismiss_evidence).
THEOREM ClosesHaveClaims == FSpec => []ConversationCloseHasClaim
  <1>1. FInv => ConversationCloseHasClaim
    BY DEF FInv
  <1> QED
    BY <1>1, FollowUpInvariant, PTL

\* A line a refresh settled stays where it is until the pass is over, also
\* while the assistant judges (distill_apply.rs, apply_refresh).
THEOREM ClaimedLinesStay == FSpec => ClaimedLineStays
  <1>1. FInv /\ [FNext]_followUpVars =>
          [\A l \in pass.claimed : HoldersOf(l)' = HoldersOf(l)]_followUpVars
    BY FNextStep DEF LedgerStep, KeepsClaimed
  <1> QED
    BY <1>1, FollowUpInvariant, PTL DEF FSpec, ClaimedLineStays

\* The first update of a pass that changes an entry has the last word on its
\* state, a take-over of its line apart (distill_apply.rs:127-129).
THEOREM FirstChangesWin == FSpec => FirstChangeWins
  <1>1. FInv /\ [FNext]_followUpVars =>
          [pass' # pass =>
             \A e \in pass.changed :
                entry'[e].state \in {entry[e].state, "superseded"}]_followUpVars
    BY FNextStep DEF LedgerStep, FirstWins
  <1> QED
    BY <1>1, FollowUpInvariant, PTL DEF FSpec, FirstChangeWins

\* No live entry loses its last line in silence: a pass takes a line over only
\* from the entry it found, and one found live is kept to be closed out
\* (distill_apply.rs, apply_refresh).
THEOREM FollowUpKeepsLines == FSpec => FollowUpLosesNoLine
  <1>1. FInv /\ [FNext]_followUpVars =>
          [\A e \in Minted :
             IsLive(e) /\ HoldsLine(e) /\ ~HoldsLine(e)'
               => \/ entry'[e].state \in {"needs_review", "superseded"}
                  \/ e \in pass.found
                     /\ (e \in pass.live => e \in pass'.live)]_followUpVars
    BY FNextStep DEF LedgerStep, NoneLost
  <1> QED
    BY <1>1, FollowUpInvariant, PTL DEF FSpec, FollowUpLosesNoLine
=============================================================================
