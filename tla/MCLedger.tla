----------------------------- MODULE MCLedger -----------------------------
(***************************************************************************)
(* Small instances of Ledger for TLC.                                      *)
(***************************************************************************)
EXTENDS Ledger, TLC

CONSTANTS n1, n2, you, sam, nobody, wSam, wNobody, inbox, growth

EntrySymmetry == Permutations(Entries)

\* Two notes in two projects, a day apart.  Lines 1 and 2 say the same words
\* of Sam's; line 3, of the first note, is nobody's.
TwoNoteLines == 1..3
TwoNoteOf == 1 :> n1 @@ 2 :> n2 @@ 3 :> n1
TwoNoteWords == 1 :> wSam @@ 2 :> wSam @@ 3 :> wNobody
TwoNoteOwner == wSam :> sam @@ wNobody :> nobody

\* The first note is re-filed, re-categorised, read under an alias of Sam's and
\* edited from his line to nobody's; the second restates his words.
TwoNotePage(project, date, lines, category, aliases) ==
    [project |-> project, date |-> date, lines |-> lines, asks |-> lines,
     override |-> "unset", category |-> category, aliases |-> aliases]
TwoNotePages ==
    {TwoNotePage(growth, 1, {1}, "context_only", {}),
     TwoNotePage(inbox, 1, {3}, "unset", {}),
     TwoNotePage(growth, 2, {2}, "unset", {})}

\* A bound: each job finds all snapshots written.  No job asks which are, and
\* a mark left by an earlier one would stand for a mark that is missing.
NothingIsBehind ==
    dirty # {} /\ call = NoCall => dirty' # dirty /\ dirty' \subseteq dirty
===========================================================================
