------------------------------- MODULE Ledger -------------------------------
(***************************************************************************)
(* The commitment ledger of kodabi-core (crates/kodabi-core/src/ledger).   *)
(*                                                                         *)
(* An entry is one promise; a line is one extracted action item of a note. *)
(* The ledger is written by the worker of src-tauri/src/ledger_state.rs,   *)
(* one job at a time: a note is synced or removed, a person judges an      *)
(* entry or promotes a line, a meeting's tracking flips, an alias is       *)
(* learned.  A job is one action, but for the two calls that commit one    *)
(* table and then another: reopening a superseded entry and dismissing a   *)
(* claim are two actions each, and the worker may die between them.  The   *)
(* classifications of a distill are in LedgerFollowUp.                     *)
(*                                                                         *)
(* A line id hashes its note, its owner and its words (meeting.rs,         *)
(* action_item_id), so NoteOf and WordsOf are functions of the line and    *)
(* OwnerOf of the words.  Timestamps other than the note's date, the       *)
(* snooze day and the wording of a review question are abstracted.         *)
(***************************************************************************)
EXTENDS Naturals, FiniteSets

CONSTANTS
    Entries,     \* the ids mint_id may draw: bounds the entries ever minted
    Notes,       \* note ids
    Lines,       \* line ids, numbered in body order
    Words,       \* normalised owner + description of a line
    Owners,      \* owner spellings
    You,         \* the grammar's own spelling of the local user
    Unassigned,  \* the grammar's token for an unattributed line
    NoteOf,      \* the note a line belongs to
    WordsOf,     \* the words of a line
    OwnerOf,     \* the owner some words name
    Projects,    \* project slugs, never empty (an unfiled note has Inbox)
    Dates,       \* note dates
    Claims,      \* evidence ids: bounds the claims ever recorded
    Pages,       \* the readings of a note the ledger may be handed
    Identities   \* the alias sets the settings may hold

NoProject == "no project"       \* the empty slug note_removed syncs with

EnrollmentModes == {"tracked", "context_only"}

\* What a NoteSync carries.  `asks' are the lines neither ticked nor
\* tentative; "unset" is an absent override or category default.
PageRec == [project : Projects \cup {NoProject}, date : Dates,
            lines : SUBSET Lines, asks : SUBSET Lines,
            override : EnrollmentModes \cup {"unset"},
            category : EnrollmentModes \cup {"unset"},
            aliases : SUBSET Owners]

ASSUME LinesAssumption ==
    /\ Lines \subseteq Nat
    /\ NoteOf \in [Lines -> Notes]
    /\ WordsOf \in [Lines -> Words]
    /\ OwnerOf \in [Words -> Owners]

ASSUME OwnersAssumption == You # Unassigned

ASSUME DatesAssumption == Dates \subseteq Nat

ASSUME PagesAssumption ==
    /\ Pages \subseteq PageRec
    /\ \A p \in Pages : p.asks \subseteq p.lines
    /\ \A p \in Pages : p.project # NoProject
    /\ \A p \in Pages : \E n \in Notes : \A l \in p.lines : NoteOf[l] = n

ASSUME IdentitiesAssumption == Identities \subseteq SUBSET Owners

ASSUME ProjectsAssumption == NoProject \notin Projects

-----------------------------------------------------------------------------
VARIABLES
    entry,    \* ledger_entries, by entry id
    refs,     \* the active rows of ledger_item_refs: <<entry, line>>
    links,    \* ledger_entry_links: <<from, to>>
    claims,   \* ledger_evidence: <<entry, claim>>
    dirty,    \* the projects whose snapshot is behind the database
    call      \* the call of the worker that is between two commits: <<name, entry>>

ledgerVars == <<entry, refs, links, claims, dirty, call>>

LiveStates == {"open", "needs_review", "snoozed"}
TerminalStates == {"closed", "superseded", "waived", "untracked"}
MachineSources == {"override", "category"}

EntryRec ==
    [state : LiveStates \cup TerminalStates,
     closedVia : {"none", "manual", "conversation"},
     untrackedVia : MachineSources \cup {"none", "manual"},
     snoozedUntil : BOOLEAN,
     reviewReason : {"none", "line_removed", "reported_done"},
     direction : {"mine", "theirs", "unassigned"},
     touched : BOOLEAN,
     enrolledVia : MachineSources \cup {"default", "manual"},
     words : Words,
     project : Projects,
     mention : Dates]

NoCall == <<>>
Halves == {"reopen", "dismiss"}

Minted == DOMAIN entry
IsLive(e) == entry[e].state \in LiveStates

\* A mutant of IsTerminal: a snoozed entry counts as settled.
SnoozedIsSettled(e) == entry[e].state \in TerminalStates \cup {"snoozed"}

\* A mutant of IsTerminal: a waived entry does not count as settled.
WaivedIsNotSettled(e) == entry[e].state \in TerminalStates \ {"waived"}

IsTerminal(e) == entry[e].state \in TerminalStates
HoldsLine(e) == \E l \in Lines : <<e, l>> \in refs
LinesOf(e) == {l \in Lines : <<e, l>> \in refs}

TypeOK ==
    /\ Minted \subseteq Entries
    /\ entry \in [Minted -> EntryRec]
    /\ refs \subseteq Minted \X Lines
    /\ links \subseteq Minted \X Minted
    /\ claims \subseteq Minted \X Claims
    /\ dirty \subseteq Projects
    /\ call \in {NoCall} \cup (Halves \X Minted)

Init ==
    /\ entry = [e \in {} |-> {}]
    /\ refs = {}
    /\ links = {}
    /\ claims = {}
    /\ dirty = {}
    /\ call = NoCall

-----------------------------------------------------------------------------
(* The state column, and the columns set_state writes with it.             *)

TransitionAllowed(from, to) ==
    \/ from = to
    \/ to = "open"
    \/ /\ from \in LiveStates
       /\ to \in TerminalStates
    \/ /\ from \in {"open", "snoozed"}
       /\ to \in {"needs_review", "snoozed"}

\* Every dependent column is written on every move, so none outlives the
\* state it belongs to.
Moved(r, to) == [r EXCEPT !.state = to, !.closedVia = "none",
                          !.untrackedVia = "none", !.snoozedUntil = FALSE,
                          !.reviewReason = "none"]

AsClosed(r, via) == [Moved(r, "closed") EXCEPT !.closedVia = via]
AsUntracked(r, via) == [Moved(r, "untracked") EXCEPT !.untrackedVia = via]
AsSnoozed(r) == [Moved(r, "snoozed") EXCEPT !.snoozedUntil = TRUE]
AsOpen(r) == Moved(r, "open")

\* A mutant of AsTouched: the judgement leaves no mark.
NeverTouched(r) == r

AsTouched(r) == [r EXCEPT !.touched = TRUE]

\* Direction::resolve: the grammar's two tokens first, then the aliases.
Resolve(owner, aliases) ==
    IF owner = You THEN "mine"
    ELSE IF owner = Unassigned THEN "unassigned"
    ELSE IF owner \in aliases THEN "mine"
    ELSE "theirs"

EffectiveMode(p) ==
    IF p.override # "unset" THEN p.override
    ELSE IF p.category # "unset" THEN p.category
    ELSE "tracked"

Enrolls(mode, direction) == mode = "tracked" \/ direction = "mine"

\* The gating source takes the credit; one that resolves to tracked gates
\* nothing and leaves the default.
EnrolledBy(p) ==
    IF p.override = "context_only" THEN "override"
    ELSE IF p.override = "unset" /\ p.category = "context_only" THEN "category"
    ELSE "default"

OpenEntry(w, direction, project, date, via) ==
    [state |-> "open", closedVia |-> "none", untrackedVia |-> "none",
     snoozedUntil |-> FALSE, reviewReason |-> "none", direction |-> direction,
     touched |-> FALSE, enrolledVia |-> via, words |-> w,
     project |-> project, mention |-> date]

-----------------------------------------------------------------------------
(* A person's judgement on one entry: apply_mutation runs the operation    *)
(* and then marks the entry touched.  An illegal transition is an error    *)
(* and writes nothing, so it is a guard.                                   *)

Judge(e, r) == entry' = [entry EXCEPT ![e] = AsTouched(r)]

MarkDirty(projects) == dirty' = dirty \cup projects

Close(e) ==
    /\ TransitionAllowed(entry[e].state, "closed")
    /\ Judge(e, AsClosed(entry[e], "manual"))
    /\ MarkDirty({entry[e].project})
    /\ UNCHANGED <<refs, links, claims>>

Waive(e) ==
    /\ TransitionAllowed(entry[e].state, "waived")
    /\ Judge(e, Moved(entry[e], "waived"))
    /\ MarkDirty({entry[e].project})
    /\ UNCHANGED <<refs, links, claims>>

Snooze(e) ==
    /\ TransitionAllowed(entry[e].state, "snoozed")
    /\ Judge(e, AsSnoozed(entry[e]))
    /\ MarkDirty({entry[e].project})
    /\ UNCHANGED <<refs, links, claims>>

Untrack(e) ==
    /\ TransitionAllowed(entry[e].state, "untracked")
    /\ Judge(e, AsUntracked(entry[e], "manual"))
    /\ MarkDirty({entry[e].project})
    /\ UNCHANGED <<refs, links, claims>>

Opened(e) ==
    /\ Judge(e, AsOpen(entry[e]))
    /\ MarkDirty({entry[e].project})
    /\ UNCHANGED <<refs, links, claims>>

Reopen(e) ==
    /\ entry[e].state # "superseded"
    /\ Opened(e)

\* A mutant of Unlinked: a reopened entry keeps its links.
LinksOutliveReopen(e) == links

\* Leaving superseded drops the entry's outgoing links, in a commit before the
\* one that opens the entry.
Unlinked(e) == {k \in links : k[1] # e}

UnlinkToReopen(e) ==
    /\ entry[e].state = "superseded"
    /\ links' = Unlinked(e)
    /\ call' = <<"reopen", e>>
    /\ UNCHANGED <<entry, refs, claims, dirty>>

FinishReopen(e) ==
    /\ call = <<"reopen", e>>
    /\ Opened(e)
    /\ call' = NoCall

\* claim_mine returns early, dirtying nothing, when the entry is mine already.
ClaimMine(e) ==
    /\ Judge(e, [entry[e] EXCEPT !.direction = "mine"])
    /\ MarkDirty(IF entry[e].direction = "mine" THEN {} ELSE {entry[e].project})
    /\ UNCHANGED <<refs, links, claims>>

ConfirmEvidence(e, c) ==
    /\ <<e, c>> \in claims
    /\ TransitionAllowed(entry[e].state, "closed")
    /\ Judge(e, AsClosed(entry[e], "conversation"))
    /\ MarkDirty({entry[e].project})
    /\ UNCHANGED <<refs, links, claims>>

\* The claim goes in a commit of its own.  It may be gone already: a retry
\* after a crash, or a second dismissal, finds no row and goes on.  (Whose
\* claim it was is not remembered, so any id without a row will do.)
DismissEvidence(e, c) ==
    /\ \A f \in Minted \ {e} : <<f, c>> \notin claims
    /\ claims' = claims \ {<<e, c>>}
    /\ MarkDirty(IF <<e, c>> \in claims THEN {entry[e].project} ELSE {})
    /\ call' = <<"dismiss", e>>
    /\ UNCHANGED <<entry, refs, links>>

\* A mutant of FinishDismissal: the claim goes, the entry stays closed.
DismissWithoutReopening(e) ==
    /\ call = <<"dismiss", e>>
    /\ Judge(e, entry[e])
    /\ MarkDirty({})
    /\ UNCHANGED <<refs, links, claims>>
    /\ call' = NoCall

FinishDismissal(e) ==
    /\ call = <<"dismiss", e>>
    /\ IF entry[e].state = "closed"
       THEN Opened(e)
       ELSE /\ Judge(e, entry[e])
            /\ MarkDirty({})
            /\ UNCHANGED <<refs, links, claims>>
    /\ call' = NoCall

\* The worker dies, or the database refuses its second commit.
Halt ==
    /\ call' = NoCall
    /\ dirty' \in {dirty, {}}
    /\ UNCHANGED <<entry, refs, links, claims>>

-----------------------------------------------------------------------------
(* Tracking and ownership, re-evaluated after a setting changed.           *)

\* A mutant of Overridable: entries other meetings state, too.
SharedIsOverridable(n) ==
    {e \in Minted :
        /\ IsLive(e)
        /\ ~entry[e].touched
        /\ entry[e].enrolledVia \in {"default", "category"}
        /\ entry[e].direction # "mine"
        /\ \E l \in LinesOf(e) : NoteOf[l] = n}

\* What a context-only flip of note n may untrack: what a machine default
\* enrolled, nobody touched, and this meeting alone carries.
Overridable(n) ==
    {e \in Minted :
        /\ IsLive(e)
        /\ ~entry[e].touched
        /\ entry[e].enrolledVia \in {"default", "category"}
        /\ entry[e].direction # "mine"
        /\ \E l \in LinesOf(e) : NoteOf[l] = n
        /\ \A l \in LinesOf(e) : NoteOf[l] = n}

\* What a flip back to tracked may revive: machine untracks only.
Revivable(n) ==
    {e \in Minted :
        /\ entry[e].state = "untracked"
        /\ entry[e].untrackedVia \in MachineSources
        /\ ~entry[e].touched
        /\ \E l \in LinesOf(e) : NoteOf[l] = n}

RetroApplyContextOnly(n, project, source) ==
    /\ entry' = [e \in Minted |->
                    IF e \in Overridable(n) THEN AsUntracked(entry[e], source)
                    ELSE entry[e]]
    /\ MarkDirty({project} \cup {entry[e].project : e \in Overridable(n)})
    /\ UNCHANGED <<refs, links, claims>>

RetroApplyTracked(n, project) ==
    /\ entry' = [e \in Minted |->
                    IF e \in Revivable(n) THEN AsOpen(entry[e]) ELSE entry[e]]
    /\ MarkDirty({project} \cup {entry[e].project : e \in Revivable(n)})
    /\ UNCHANGED <<refs, links, claims>>

\* Learning a name only ever moves entries toward mine, and nobody's judgement.
Unresolved(aliases) ==
    {e \in Minted : /\ IsLive(e)
                    /\ ~entry[e].touched
                    /\ entry[e].direction = "theirs"
                    /\ OwnerOf[entry[e].words] \in aliases}

RetroResolveOwners(aliases) ==
    /\ entry' = [e \in Minted |->
                    IF e \in Unresolved(aliases)
                    THEN [entry[e] EXCEPT !.direction = "mine"] ELSE entry[e]]
    /\ MarkDirty({entry[e].project : e \in Unresolved(aliases)})
    /\ UNCHANGED <<refs, links, claims>>

\* A person promotes line l, read from page p.  The worker marks the entry
\* touched whichever of the three cases applied.
TrackHeldLine(e, l) ==
    /\ <<e, l>> \in refs
    /\ IF entry[e].state = "untracked"
       THEN /\ Judge(e, [AsOpen(entry[e]) EXCEPT !.enrolledVia = "manual"])
            /\ MarkDirty({entry[e].project})
       ELSE /\ Judge(e, entry[e])
            /\ MarkDirty({})
    /\ UNCHANGED <<refs, links, claims>>

TrackFreeLine(e, l, p) ==
    /\ e \in Entries \ Minted
    /\ l \in p.lines
    /\ \A f \in Minted : <<f, l>> \notin refs
    /\ LET direction == Resolve(OwnerOf[WordsOf[l]], p.aliases)
           promoted == OpenEntry(WordsOf[l], direction, p.project, p.date, "manual")
       IN  entry' = [f \in Minted \cup {e} |->
                        IF f = e THEN AsTouched(promoted) ELSE entry[f]]
    /\ refs' = refs \cup {<<e, l>>}
    /\ MarkDirty({p.project})
    /\ UNCHANGED <<links, claims>>

-----------------------------------------------------------------------------
(* Reconciling note n, read as page p, with the ledger (sync.rs,           *)
(* reconcile): one transaction, so one action.  `hints' maps lines to the  *)
(* entries a distill says they restate.                                    *)

NoHints == [l \in {} |-> l]

EntryOwner(e) == OwnerOf[entry[e].words]
LineOwner(l) == OwnerOf[WordsOf[l]]

\* The partition.  A line on both sides is left alone, ticked or not.
Kept(n, p) == {r \in refs : NoteOf[r[2]] = n /\ r[2] \in p.lines}

\* A mutant of Gone: a ticked line counts as gone.
GoneOrTicked(n, p) == {r \in refs : NoteOf[r[2]] = n /\ r[2] \notin p.asks}

Gone(n, p) == {r \in refs : NoteOf[r[2]] = n /\ r[2] \notin p.lines}

\* A mutant of Fresh: a line of a settled entry counts as fresh.
FreshUnlessLive(p) == {l \in p.lines : \A r \in refs : r[2] # l \/ ~IsLive(r[1])}

Fresh(p) == {l \in p.lines : \A r \in refs : r[2] # l}

\* Tier A: within one owner, exactly one line gone and exactly one fresh.
OwnerSwaps(gone, fresh) ==
    {s \in gone \X fresh :
        /\ EntryOwner(s[1][1]) = LineOwner(s[2])
        /\ \A r \in gone : EntryOwner(r[1]) = LineOwner(s[2]) => r = s[1]
        /\ \A l \in fresh : LineOwner(l) = LineOwner(s[2]) => l = s[2]}

\* Tier B: after tier A, exactly one of each is left for the whole note.
NoteSwaps(gone, fresh) ==
    {s \in gone \X fresh : gone = {s[1]} /\ fresh = {s[2]}}

Swaps(gone, fresh) ==
    LET paired == OwnerSwaps(gone, fresh)
    IN  paired \cup NoteSwaps(gone \ {s[1] : s \in paired},
                             fresh \ {s[2] : s \in paired})

PageSwaps(n, p) == Swaps(Gone(n, p), Fresh(p))
Unpaired(n, p) == Fresh(p) \ {s[2] : s \in PageSwaps(n, p)}

\* A mutant of Reworded: a rewording keeps the direction.
MineSticks(r, l, aliases) ==
    [r EXCEPT !.words = WordsOf[l],
              !.direction = IF r.direction = "mine" THEN "mine"
                            ELSE Resolve(LineOwner(l), aliases)]

\* An edited line: the entry adopts the words, and the direction they name
\* unless a person has claimed it.
Reworded(r, l, aliases) ==
    [r EXCEPT !.words = WordsOf[l],
              !.direction = IF r.touched /\ r.direction = "mine" THEN "mine"
                            ELSE Resolve(LineOwner(l), aliases)]

AfterSwaps(swaps, aliases) ==
    [e \in Minted |->
        IF \E s \in swaps : s[1][1] = e
        THEN Reworded(entry[e], (CHOOSE s \in swaps : s[1][1] = e)[2], aliases)
        ELSE entry[e]]

\* Re-mention: a hint that names a live entry, else the live entry with these
\* very words mentioned last.  A hint in the same pass may already have moved
\* that entry's clock up to this note's date.  `book' is the ledger as the
\* swaps left it.
Hinted(lines, hints) ==
    {l \in lines : l \in DOMAIN hints /\ hints[l] \in Minted /\ IsLive(hints[l])}

\* A mutant of LiveMatches: only open entries are matched.
OpenMatches(book, w) ==
    {e \in DOMAIN book : entry[e].state = "open" /\ book[e].words = w}

LiveMatches(book, w) == {e \in DOMAIN book : IsLive(e) /\ book[e].words = w}

NewestMatches(book, hints, date, w) ==
    {e \in LiveMatches(book, w) :
        \A f \in LiveMatches(book, w) :
            \/ entry[f].mention <= entry[e].mention
            \/ /\ \E l \in DOMAIN hints : hints[l] = e
               /\ entry[f].mention <= date}

\* A mutant of Founders: only the user's own lines found entries.
FoundersOfMine(lines, p) ==
    {l \in lines : l \in p.asks /\ Resolve(LineOwner(l), p.aliases) = "mine"}

\* Create: words no live entry has are minted by the first line that asks for
\* it and that the meeting's mode enrolls; later lines re-mention that entry.
Founders(lines, p) ==
    {l \in lines : /\ l \in p.asks
                   /\ Enrolls(EffectiveMode(p), Resolve(LineOwner(l), p.aliases))}

NewWords(book, founders) ==
    {w \in {WordsOf[l] : l \in founders} : LiveMatches(book, w) = {}}

\* follow_project: an entry goes where its newest mention lives.
Follows(r, p) == p.project # NoProject /\ r.mention <= p.date

\* bump_mention: the clock only moves forward, and a review is answered.
Heard(r, date) ==
    LET dated == [r EXCEPT !.mention = IF date > @ THEN date ELSE @]
    IN  IF r.state = "needs_review"
        THEN [dated EXCEPT !.state = "open", !.reviewReason = "none"]
        ELSE dated

\* An entry left with no line: a human has to say what became of it.
Parked(r) == [r EXCEPT !.state = "needs_review", !.snoozedUntil = FALSE,
                       !.reviewReason = "line_removed"]

\* A mutant of Homes: the snapshot an entry left is not marked.
NewHomes(rewritten, after) == {after[e].project : e \in rewritten}

\* The snapshots some rewritten entries were in, and those they are in now.
Homes(rewritten, after) ==
    {entry[e].project : e \in rewritten \cap Minted} \cup {after[e].project : e \in rewritten}

Injective(f) == \A x, y \in DOMAIN f : f[x] = f[y] => x = y
Image(f) == {f[x] : x \in DOMAIN f}

\* The rows after a pass that swapped `swaps', restated `mentioned' and mints
\* one entry for each of mint's words: moved, renamed, heard, parked or born.
Rewrite(n, p, swaps, mentioned, mint) ==
    LET book == AfterSwaps(swaps, p.aliases)
        retired == {r[1] : r \in Gone(n, p) \ {s[1] : s \in swaps}}
        moving == {r[1] : r \in Kept(n, p)} \cup {s[1][1] : s \in swaps} \cup mentioned
        orphaned == {e \in retired : ~IsTerminal(e) /\ \A r \in refs' : r[1] # e}
        filed(e) == IF e \in moving /\ Follows(entry[e], p)
                    THEN [book[e] EXCEPT !.project = p.project]
                    ELSE book[e]
        minted(w) == OpenEntry(w, Resolve(OwnerOf[w], p.aliases),
                               p.project, p.date, EnrolledBy(p))
        after == [e \in Minted \cup Image(mint) |->
                    IF e \in Image(mint) THEN minted(CHOOSE w \in DOMAIN mint : mint[w] = e)
                    ELSE IF e \in mentioned THEN Heard(filed(e), p.date)
                    ELSE IF e \in orphaned THEN Parked(filed(e))
                    ELSE filed(e)]
        rewritten == {s[1][1] : s \in swaps} \cup mentioned \cup retired \cup Image(mint)
                       \cup {e \in moving : filed(e).project # entry[e].project}
    IN  /\ entry' = after
        /\ MarkDirty(Homes(rewritten, after))

Reconcile(n, p, hints) ==
    LET swaps == PageSwaps(n, p)
        unpaired == Unpaired(n, p)
        book == AfterSwaps(swaps, p.aliases)
        hinted == Hinted(unpaired, hints)
        matched == {l \in unpaired \ hinted : LiveMatches(book, WordsOf[l]) # {}}
        founders == Founders(unpaired \ hinted, p)
        founded == {l \in unpaired \ (hinted \cup matched) :
                       \E k \in founders : WordsOf[k] = WordsOf[l] /\ k <= l}
    IN  \E mint \in [NewWords(book, founders) -> Entries \ Minted],
           match \in [matched -> Minted] :
          /\ Injective(mint)
          /\ \A l \in matched :
                match[l] \in NewestMatches(book, hints, p.date, WordsOf[l])
          /\ refs' = (refs \ Gone(n, p))
                       \cup {<<s[1][1], s[2]>> : s \in swaps}
                       \cup {<<hints[l], l>> : l \in hinted}
                       \cup {<<match[l], l>> : l \in matched}
                       \cup {<<mint[WordsOf[l]], l>> : l \in founded}
          /\ Rewrite(n, p, swaps, Image(match) \cup {hints[l] : l \in hinted}, mint)
          /\ UNCHANGED <<links, claims>>

\* sync_note_items, as the index worker calls it for a note it re-read.
Sync(n, p) ==
    /\ \A l \in p.lines : NoteOf[l] = n
    /\ Reconcile(n, p, NoHints)

\* note_removed syncs an empty note; nothing reads its date or its mode.
RemovedPage == [project |-> NoProject, date |-> 0, lines |-> {}, asks |-> {},
                override |-> "unset", category |-> "unset", aliases |-> {}]

NoteRemoved(n) == Reconcile(n, RemovedPage, NoHints)

\* One project's snapshot is written and marked current again.
SnapshotWritten(project) ==
    /\ project \in dirty
    /\ dirty' = dirty \ {project}
    /\ UNCHANGED <<entry, refs, links, claims>>

-----------------------------------------------------------------------------
JudgeEntry ==
    \E e \in Minted :
        \/ Close(e)
        \/ Waive(e)
        \/ Snooze(e)
        \/ Untrack(e)
        \/ Reopen(e)
        \/ ClaimMine(e)
        \/ \E c \in Claims : ConfirmEvidence(e, c)

BeginCall ==
    \E e \in Minted :
        \/ UnlinkToReopen(e)
        \/ \E c \in Claims : DismissEvidence(e, c)

FinishCall == \E e \in Minted : FinishReopen(e) \/ FinishDismissal(e)

RetroApply ==
    \E n \in Notes, project \in Projects :
        \/ \E source \in MachineSources : RetroApplyContextOnly(n, project, source)
        \/ RetroApplyTracked(n, project)

TrackItem ==
    \E e \in Entries, l \in Lines :
        \/ TrackHeldLine(e, l)
        \/ \E p \in Pages : TrackFreeLine(e, l, p)

\* A job of one step.
Job ==
    \/ JudgeEntry
    \/ RetroApply
    \/ TrackItem
    \/ \E aliases \in Identities : RetroResolveOwners(aliases)
    \/ \E n \in Notes, p \in Pages : Sync(n, p)
    \/ \E n \in Notes : NoteRemoved(n)
    \/ \E project \in Projects : SnapshotWritten(project)

\* The worker takes the next job when the last one is over.
Next ==
    \/ call = NoCall /\ Job /\ UNCHANGED call
    \/ call = NoCall /\ BeginCall
    \/ FinishCall
    \/ Halt

Spec == Init /\ [][Next]_ledgerVars

-----------------------------------------------------------------------------
(* What the ledger promises.                                               *)

\* A line has at most one active holder.  The partial unique index would
\* abort the whole sync that broke this, so every path that links a line
\* must have released it first.
OneHolderPerLine == \A r, s \in refs : r[2] = s[2] => r = s

\* The CHECK constraints of ledger_entries: each dependent column is present
\* exactly in the state it belongs to, whichever path wrote the state.
ColumnsFit(r) ==
    /\ r.state = "closed" <=> r.closedVia # "none"
    /\ r.state = "untracked" <=> r.untrackedVia # "none"
    /\ r.state = "snoozed" <=> r.snoozedUntil
    /\ r.reviewReason # "none" => r.state = "needs_review"

ProvenanceFitsState == \A e \in Minted : ColumnsFit(entry[e])

\* An entry a machine untracked is carried by one meeting only.  This is why
\* override_untracked_entries needs no second NOT EXISTS: reviving it cannot
\* override what another meeting decided.
MachineUntrackHasOneSource ==
    \A e \in Minted : entry[e].untrackedVia \in MachineSources =>
        \A l, k \in LinesOf(e) : NoteOf[l] = NoteOf[k]

\* A promote is a person's word: the entry it enrolled stays touched, so no
\* machine default untracks it and no alias sweep re-files it.
PromotionHolds(r) ==
    r.enrolledVia = "manual" => r.touched /\ r.untrackedVia \notin MachineSources

ManualEnrolmentSticks == \A e \in Minted : PromotionHolds(entry[e])

\* The direction agrees with the owner's words through every reword, claim
\* and sweep: only the grammar's token is unassigned, nothing of the user's
\* own is filed as theirs, and an unattributed line becomes the user's only
\* by a person's claim.
DirectionFits(r) ==
    LET owner == OwnerOf[r.words]
    IN  /\ r.direction = "unassigned" => owner = Unassigned
        /\ r.direction = "theirs" => owner \notin {You, Unassigned}
        /\ r.direction = "mine" /\ owner = Unassigned => r.touched

DirectionFitsOwner == \A e \in Minted : DirectionFits(entry[e])

\* No live commitment loses its last line in silence: the step that takes it
\* asks a person, or records what replaced the entry.
LostLineAsks ==
    [][\A e \in Minted :
         IsLive(e) /\ HoldsLine(e) /\ ~HoldsLine(e)'
           => entry'[e].state \in {"needs_review", "superseded"}]_ledgerVars

\* A judgement is undone only by a deliberate act: a closed, waived or
\* superseded entry leaves its state as open and touched, never by a sync.
OnlyAPersonReopens ==
    [][\A e \in Minted :
         entry[e].state \in TerminalStates /\ entry'[e].state # entry[e].state
           => /\ entry'[e].state = "open"
              /\ entry'[e].touched \/ entry[e].untrackedVia \in MachineSources]_ledgerVars

\* One promise, one entry: ingest never mints an entry while another live one
\* has the same words, within one page or across notes.
NoDuplicateMinted ==
    [][\A e \in DOMAIN entry' \ Minted :
         entry'[e].enrolledVia # "manual" =>
           \A f \in DOMAIN entry' \ {e} :
             entry'[f].state \in LiveStates => entry'[f].words # entry'[e].words]_ledgerVars

\* What a snapshot says of an entry.
Row(e) == <<entry[e], LinesOf(e), {k \in links : k[1] = e},
            {c \in Claims : <<e, c>> \in claims}>>

\* The three calls that may find their work done already, and then only set
\* the touched flag.
OnlyTouches(e) ==
    /\ \/ \E l \in Lines : TrackHeldLine(e, l)
       \/ ClaimMine(e)
       \/ FinishDismissal(e)
    /\ Row(e)' = <<AsTouched(entry[e]), Row(e)[2], Row(e)[3], Row(e)[4]>>

\* Whatever a job changes of an entry, the snapshot it was in and the one it
\* now belongs in are marked stale by the end of the job, although every path
\* marks them on its own.  Not so the touched flag when it is all that changes:
\* mark_touched relies on its caller, and three callers have marked nothing
\* (against store.rs:583-585, "every caller ... has already done so").
ChangesMarkTheirProjects ==
    [][\A e \in DOMAIN entry' :
         (e \in Minted => Row(e)' # Row(e))
           => \/ /\ entry'[e].project \in dirty'
                 /\ e \in Minted => entry[e].project \in dirty'
              \/ call' = <<"reopen", e>>
              \/ e \in Minted /\ OnlyTouches(e)]_ledgerVars
=============================================================================
