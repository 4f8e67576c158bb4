---------------------------- MODULE MCReadings ----------------------------
(***************************************************************************)
(* Small instances of LedgerReadings for TLC: one note, whose line 1 is    *)
(* the user's and lines 2 and 3 say the same words of Sam's.               *)
(***************************************************************************)
EXTENDS LedgerReadings, TLC

CONSTANTS n1, you, sam, nobody, wYou, wSam, inbox

EntrySymmetry == Permutations(Entries)

NoteLines == 1..3
LineNote == [l \in NoteLines |-> n1]
LineWords == 1 :> wYou @@ 2 :> wSam @@ 3 :> wSam
WordsOwner == wYou :> you @@ wSam :> sam

Page(lines, asks, override, aliases) ==
    [project |-> inbox, date |-> 1, lines |-> lines, asks |-> asks,
     override |-> override, category |-> "unset", aliases |-> aliases]

\* The note gains, loses, ticks and repeats lines, under either mode; its last
\* reading is the user's, Sam being an alias of theirs by then.
NotePages ==
    {Page({1, 2}, {1, 2}, "unset", {}),
     Page({1, 2}, {1}, "unset", {}),
     Page({1, 2}, {1, 2}, "context_only", {}),
     Page({2}, {2}, "context_only", {}),
     Page({2, 3}, {3}, "context_only", {sam})}
===========================================================================
