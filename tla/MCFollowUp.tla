----------------------------- MODULE MCFollowUp -----------------------------
(***************************************************************************)
(* A small instance of LedgerFollowUp for TLC: an older note with line 1,  *)
(* and a newer one with line 2 whose conversation speaks of both entries.  *)
(***************************************************************************)
EXTENDS LedgerFollowUp, TLC

CONSTANTS n1, n2, you, nobody, wOld, wNew, inbox

EntrySymmetry == Permutations(Entries)

NoteLines == 1..2
LineNote == 1 :> n1 @@ 2 :> n2
LineWords == 1 :> wOld @@ 2 :> wNew
WordsOwner == wOld :> you @@ wNew :> you

NotePages ==
    {[project |-> inbox, date |-> 1, lines |-> {l}, asks |-> {l},
      override |-> "unset", category |-> "unset", aliases |-> {}] : l \in NoteLines}

\* What may be said of an entry: heard again, without a line or as the new
\* one; replaced by it; done for sure, or perhaps.
Said(kind, e, item, sure) == [kind |-> kind, entry |-> e, item |-> item, sure |-> sure]
Mentioned(e) == Said("refresh", e, {}, FALSE)
Restated(e) == Said("refresh", e, {2}, FALSE)
Replaced(e) == Said("supersede", e, {2}, FALSE)
Done(e, sure) == Said("completed", e, {}, sure)

\* One or two things said, of one entry or of both.
Talks ==
    LET pairs == {q \in Entries \X Entries : q[1] # q[2]}
    IN  {<<Done(e, TRUE)>> : e \in Entries}
          \cup {<<Done(e, FALSE), Mentioned(e)>> : e \in Entries}
          \cup UNION {{<<Restated(q[1]), Restated(q[2])>>,
                      <<Replaced(q[1]), Restated(q[2])>>} : q \in pairs}

\* Here every line is the user's own, so no action reads a touched flag, how an
\* entry was enrolled, why it is in review, or which snapshots are stale, except
\* to write them, and no property of this instance speaks of them.
Decisive(r) == [x \in DOMAIN r \ {"touched", "enrolledVia", "reviewReason"} |-> r[x]]
Told == <<[e \in Minted |-> Decisive(entry[e])], refs, links, claims, call,
          pass, hand, torn, cut>>

\* Bounds: one call is torn or cut.  After it what is under way ends and claims
\* may be dismissed and entries reopened; nothing else begins.
Accidents == Cardinality(torn) + Cardinality(cut)
OneAccident == Accidents <= 1
NothingBegins ==
    Accidents = 1 =>
        /\ Idle => Idle'
        /\ hand = NoCall => hand' = NoCall
        /\ Idle /\ call = NoCall /\ hand = hand' => call' # NoCall
=============================================================================
