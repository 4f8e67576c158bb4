--------------------------- MODULE LedgerFollowUp ---------------------------
(***************************************************************************)
(* What a distill's conversation does to the ledger                        *)
(* (kodabi-core/src/ledger/distill_apply.rs).                              *)
(*                                                                         *)
(* The worker reconciles the note with the hints of its refreshes, then    *)
(* applies the updates one at a time: it reads what an update is about and *)
(* then writes, in one call of the ledger or in two.  It takes no other    *)
(* job meanwhile, but the assistant's tools run in another process         *)
(* (crates/kodabi-mcp), on a connection of its own.  No call is a          *)
(* transaction but a reconciliation: linking two entries, taking a line    *)
(* over, reopening and dismissing commit one statement at a time, and      *)
(* between any two of them the assistant may settle or reopen an entry, or *)
(* a crash or a database error may drop the rest.                          *)
(***************************************************************************)
EXTENDS Ledger, Sequences

CONSTANT Conversations  \* the sequences of updates a distill may return

\* `item' is the line the update names, or nothing; `sure' is a confidence
\* above the auto-close threshold.
UpdateRec == [kind : {"refresh", "supersede", "completed"}, entry : Entries,
              item : {{}} \cup {{l} : l \in Lines}, sure : BOOLEAN]

ASSUME ConversationsAssumption ==
    \A us \in Conversations :
        /\ us \in Seq(UpdateRec)
        /\ us # <<>>
        /\ \A i \in 1..Len(us) : us[i].kind = "supersede" => us[i].item # {}

VARIABLES
    pass,   \* the follow-up the worker is applying
    hand,   \* the assistant's call, between reading and writing: <<name, entry>>
    torn,   \* history: entries on which two calls met, or one stopped halfway
    cut     \* history: entries whose dismissal stopped halfway

followUpVars == <<entry, refs, links, claims, dirty, call, pass, hand, torn, cut>>
beside == <<hand, cut>>

\* Where the pass is in its first update: nothing read yet, read, a line taken
\* from its holder, given to the entry, half written, a link checked, inserted.
Steps == {"weigh", "act", "retired", "relinked", "follow", "checked", "inserted"}

\* No pass: no updates left.  `found' is the other entry that held the line of
\* the update when it was looked up, `live' that entry if it was live then,
\* `reported' the claim a completion has recorded, `asked' whether the entry
\* was in review before it took the line over, and `link' what is being linked.
Resting == [updates |-> <<>>, lines |-> {}, date |-> 0, changed |-> {}, claimed |-> {},
            step |-> "weigh", found |-> {}, live |-> {}, reported |-> {},
            asked |-> FALSE, link |-> {}]
Idle == pass.updates = <<>>

Update == Head(pass.updates)

FollowUpTypeOK ==
    /\ TypeOK
    /\ pass.updates \in Seq(UpdateRec)
    /\ pass.lines \subseteq Lines
    /\ pass.date \in Dates \cup {0}
    /\ pass.changed \subseteq Minted
    /\ pass.claimed \subseteq pass.lines
    /\ pass.step \in Steps
    /\ pass.found \subseteq Minted
    /\ pass.live \subseteq pass.found
    /\ pass.reported \subseteq Claims
    /\ pass.asked \in BOOLEAN
    /\ pass.link \subseteq Minted \X Minted
    /\ hand \in {NoCall} \cup ({"close", "waive", "reopen"} \X Minted)
    /\ torn \subseteq Minted /\ cut \subseteq Minted

-----------------------------------------------------------------------------
\* The hint of a line is the first refresh that names it.
HintsOf(us) ==
    LET naming(l) == {i \in 1..Len(us) : us[i].kind = "refresh" /\ us[i].item = {l}}
        first(l) == CHOOSE i \in naming(l) : \A j \in naming(l) : i <= j
    IN  [l \in {k \in Lines : naming(k) # {}} |-> us[first(l)].entry]

\* The updates index the note's own items, so none names a line of another.
StartPass(n, p, us) ==
    /\ \A l \in p.lines : NoteOf[l] = n
    /\ \A i \in 1..Len(us) : us[i].item \subseteq p.lines
    /\ Reconcile(n, p, HintsOf(us))
    /\ pass' = [Resting EXCEPT !.updates = us, !.lines = p.lines, !.date = p.date]
    /\ UNCHANGED call

\* The pass moves on; after the last update it is over.
MoveOn(changed, claimed) ==
    pass' = IF Len(pass.updates) = 1 THEN Resting
            ELSE [pass EXCEPT !.updates = Tail(@), !.changed = @ \cup changed,
                              !.claimed = @ \cup claimed, !.step = "weigh",
                              !.found = {}, !.live = {}, !.reported = {},
                              !.asked = FALSE, !.link = {}]

HoldersOf(l) == {e \in Minted : <<e, l>> \in refs}

\* A mutant of Applies: an entry already changed is changed again.
LastChangeWins(u) ==
    /\ u.entry \in Minted
    /\ ~IsTerminal(u.entry)

\* An update is dropped when its entry was changed by an earlier one, is
\* unknown, or is settled by now.
Applies(u) ==
    /\ u.entry \in Minted
    /\ ~IsTerminal(u.entry)
    /\ u.entry \notin pass.changed

\* A mutant of Claimable: an item another update claimed may be taken.
AnyItem(u) == u.item

\* The line a refresh still may claim.
Claimable(u) == u.item \ pass.claimed

\* The line the update is about, and who else holds it.
LineOf(u) == IF u.kind = "refresh" THEN Claimable(u) ELSE u.item
OthersHolding(u) == (UNION {HoldersOf(l) : l \in LineOf(u)}) \ {u.entry}

\* The hint linked the line to this very entry.
RefreshKept(u) ==
    /\ u.kind = "refresh"
    /\ \E l \in Claimable(u) : HoldersOf(l) = {u.entry}

Skip ==
    /\ pass.step = "weigh"
    /\ \/ ~Applies(Update)
       \/ Update.kind = "supersede" /\ OthersHolding(Update) = {}
    /\ MoveOn({}, {})
    /\ UNCHANGED ledgerVars

Keep ==
    /\ pass.step = "weigh"
    /\ Applies(Update)
    /\ RefreshKept(Update)
    /\ MoveOn({Update.entry}, Claimable(Update))
    /\ UNCHANGED ledgerVars

\* The update is to be written.
Weigh ==
    /\ pass.step = "weigh"
    /\ Applies(Update)
    /\ ~RefreshKept(Update)
    /\ Update.kind = "supersede" => OthersHolding(Update) # {}
    /\ pass' = [pass EXCEPT !.step = "act", !.found = OthersHolding(Update),
                            !.live = {f \in OthersHolding(Update) : ~IsTerminal(f)}]
    /\ UNCHANGED ledgerVars

\* The table refuses the move: the entry was settled in between.
Refused(e, to) ==
    /\ ~TransitionAllowed(entry[e].state, to)
    /\ MoveOn({}, {})
    /\ UNCHANGED ledgerVars

\* link_entries: `from' becomes history, whatever state its replacement is in.
\* The move is checked, the link inserted, and the move made, which checks it
\* again.
CheckLink(from, to) ==
    /\ TransitionAllowed(entry[from].state, "superseded")
    /\ pass' = [pass EXCEPT !.step = "checked", !.link = {<<from, to>>}]
    /\ UNCHANGED ledgerVars

InsertLink ==
    /\ pass.step = "checked"
    /\ links' = links \cup pass.link
    /\ pass' = [pass EXCEPT !.step = "inserted"]
    /\ UNCHANGED <<entry, refs, claims, dirty, call>>

\* A mutant of Superseding: the link is there, the entry stays as it was.
StaysLive(from) == entry

Superseding(from) == [entry EXCEPT ![from] = Moved(@, "superseded")]

BecomeHistory(from, to) ==
    /\ TransitionAllowed(entry[from].state, "superseded")
    /\ entry' = Superseding(from)
    /\ MarkDirty({entry[from].project, entry[to].project})
    /\ MoveOn({Update.entry}, {})
    /\ UNCHANGED <<refs, links, claims, call>>

Link ==
    \/ InsertLink
    \/ /\ pass.step = "inserted"
       /\ \E k \in pass.link : BecomeHistory(k[1], k[2]) \/ Refused(k[1], "superseded")

TakenFromOthers(e, l) == {r \in refs : r[2] = l => r[1] = e}

\* A mutant of LeavesHistory: only an open duplicate is closed out.
IfOpen(duplicate) == duplicate \in pass.live /\ entry[duplicate].state = "open"

\* Whether the entry that lost its line is closed out as history: as it was
\* when the line was looked up.
LeavesHistory(duplicate) == duplicate \in pass.live

\* The watcher got to the note first and minted a duplicate for the line: the
\* entry takes the line over (relink_item).  The line is taken from its holder,
\* then given to the entry, and an entry that was in review is opened, whoever
\* settled it since.
RetireHolder(e, duplicate, l) ==
    /\ Update.kind = "refresh"
    /\ l \in Claimable(Update)
    /\ refs' = TakenFromOthers(e, l)
    /\ pass' = [pass EXCEPT !.step = "retired", !.asked = entry[e].state = "needs_review",
                            !.live = IF LeavesHistory(duplicate) THEN {duplicate} ELSE {}]
    /\ UNCHANGED <<entry, links, claims, dirty, call>>

\* The entry has the line: the duplicate is next, if it was live.
Relinked(e, lines) ==
    /\ MarkDirty({entry[e].project})
    /\ IF pass.live # {}
       THEN pass' = [pass EXCEPT !.step = "follow", !.claimed = @ \cup lines]
       ELSE MoveOn({e}, lines)

GiveLine(e) ==
    /\ pass.step = "retired"
    /\ refs' = refs \cup ({e} \X Claimable(Update))
    /\ IF pass.asked
       THEN /\ pass' = [pass EXCEPT !.step = "relinked", !.claimed = @ \cup Claimable(Update)]
            /\ UNCHANGED dirty
       ELSE Relinked(e, Claimable(Update))
    /\ UNCHANGED <<entry, links, claims, call>>

OpenRelinked(e) ==
    /\ pass.step = "relinked"
    /\ entry' = [entry EXCEPT ![e] = AsOpen(@)]
    /\ Relinked(e, {})
    /\ UNCHANGED <<refs, links, claims, call>>

\* Spoken about, but no line of this note is it.
RecordMention(e) ==
    /\ Update.kind = "refresh"
    /\ pass.found = {}
    /\ entry' = [entry EXCEPT ![e] = Heard(@, pass.date)]
    /\ MarkDirty({entry[e].project})
    /\ MoveOn({e}, Claimable(Update))
    /\ UNCHANGED <<refs, links, claims, call>>

Supersede(e, replacement) ==
    /\ Update.kind = "supersede"
    /\ CheckLink(e, replacement) \/ Refused(e, "superseded")

\* The claim is recorded whatever comes of it.
AddEvidence(e, c) ==
    /\ Update.kind = "completed"
    /\ \A f \in Minted : <<f, c>> \notin claims
    /\ claims' = claims \cup {<<e, c>>}
    /\ MarkDirty({entry[e].project})
    /\ pass' = [pass EXCEPT !.step = "follow", !.reported = {c}]
    /\ UNCHANGED <<entry, refs, links, call>>

Act ==
    /\ pass.step = "act"
    /\ \/ \E d \in pass.found, l \in Lines : RetireHolder(Update.entry, d, l)
       \/ RecordMention(Update.entry)
       \/ \E r \in pass.found : Supersede(Update.entry, r)
       \/ \E c \in Claims : AddEvidence(Update.entry, c)

\* The duplicate is closed out, as what the entry that kept the line replaced.
LinkDuplicate(duplicate, e) ==
    /\ Update.kind = "refresh"
    /\ CheckLink(duplicate, e) \/ Refused(duplicate, "superseded")

\* A sure report closes the entry, whoever closed it in between; an unsure one
\* parks an open or snoozed entry and leaves any other as it is.
CloseFromEvidence(e) ==
    /\ Update.sure
    /\ TransitionAllowed(entry[e].state, "closed")
    /\ entry' = [entry EXCEPT ![e] = AsClosed(@, "conversation")]
    /\ MarkDirty({entry[e].project})
    /\ MoveOn({e}, {})
    /\ UNCHANGED <<refs, links, claims, call>>

SendToReview(e) ==
    /\ ~Update.sure
    /\ entry[e].state \in {"open", "snoozed"}
    /\ entry' = [entry EXCEPT ![e] =
                    [Moved(@, "needs_review") EXCEPT !.reviewReason = "reported_done"]]
    /\ MarkDirty({entry[e].project})
    /\ MoveOn({e}, {})
    /\ UNCHANGED <<refs, links, claims, call>>

KeepQuestion(e) ==
    /\ ~Update.sure
    /\ entry[e].state \notin {"open", "snoozed"}
    /\ MoveOn({e}, {})
    /\ UNCHANGED ledgerVars

ActOnReport(e) ==
    /\ Update.kind = "completed"
    /\ \/ CloseFromEvidence(e)
       \/ Update.sure /\ Refused(e, "closed")
       \/ SendToReview(e)
       \/ KeepQuestion(e)

Follow ==
    /\ pass.step = "follow"
    /\ \/ \E d \in pass.live : LinkDuplicate(d, Update.entry)
       \/ ActOnReport(Update.entry)

-----------------------------------------------------------------------------
(* The assistant's process, and what may stop.                             *)

\* A call that links or reopens e, or any of the assistant's on it.
WorkerOn(e) == call = <<"reopen", e>> \/ \E k \in pass.link : k[1] = e
AssistantOn(e) == hand # NoCall /\ hand[2] = e

\* What the history remembers of a step: the calls it leaves on one entry, and
\* those it drops.
Meets(dropped) ==
    torn' = torn \cup dropped \cup {e \in Minted : WorkerOn(e)' /\ AssistantOn(e)'}

\* The assistant looked the entry up by its line in a call before: every entry
\* had one once, and by now the line may be gone and the entry in any state.
\* A close or a waiver reads the state and checks the move; a reopening reads
\* it and drops the links of a superseded entry.
AssistantBegins(e, name) ==
    /\ hand = NoCall
    /\ name = "close" => TransitionAllowed(entry[e].state, "closed")
    /\ name = "waive" => TransitionAllowed(entry[e].state, "waived")
    /\ links' = IF name = "reopen" /\ entry[e].state = "superseded" THEN Unlinked(e) ELSE links
    /\ hand' = <<name, e>>
    /\ UNCHANGED <<entry, refs, claims, dirty, call, pass, cut>>

\* Then it writes, whatever state the entry is in by now.
AssistantWrites(e) ==
    /\ \/ hand = <<"close", e>> /\ Judge(e, AsClosed(entry[e], "manual"))
       \/ hand = <<"waive", e>> /\ Judge(e, Moved(entry[e], "waived"))
       \/ hand = <<"reopen", e>> /\ Judge(e, AsOpen(entry[e]))
    /\ MarkDirty({entry[e].project})
    /\ hand' = NoCall
    /\ UNCHANGED <<refs, links, claims, call, pass, cut>>

AssistantStops ==
    /\ hand # NoCall
    /\ hand' = NoCall
    /\ UNCHANGED <<entry, refs, links, claims, dirty, call, pass, cut>>
    /\ Meets({e \in Minted : hand = <<"reopen", e>>})

\* The app dies, or the database refuses: what was committed stays.
WorkerStops ==
    /\ ~Idle \/ call # NoCall
    /\ Halt
    /\ pass' = Resting
    /\ UNCHANGED hand
    /\ Meets({e \in Minted : WorkerOn(e)})
    /\ cut' = cut \cup {e \in Minted : call = <<"dismiss", e>>}

-----------------------------------------------------------------------------
FInit == Init /\ pass = Resting /\ hand = NoCall /\ torn = {} /\ cut = {}

Apply == ~Idle /\ (Skip \/ Keep \/ Weigh \/ Act \/ GiveLine(Update.entry)
                     \/ OpenRelinked(Update.entry) \/ Follow \/ Link)

NextJob ==
    \/ \E n \in Notes, p \in Pages, us \in Conversations : StartPass(n, p, us)
    \/ BeginCall /\ UNCHANGED pass
    \/ Job /\ UNCHANGED <<call, pass>>

EndsCall ==
    /\ FinishCall
    /\ UNCHANGED <<pass, hand>>
    /\ Meets({})
    /\ cut' = cut \ {e \in Minted : call = <<"dismiss", e>>}

WorkerWorks ==
    \/ Idle /\ call = NoCall /\ NextJob
    \/ Apply

FNext ==
    \/ WorkerWorks /\ UNCHANGED beside /\ Meets({})
    \/ EndsCall
    \/ WorkerStops
    \/ \E e \in Minted : /\ \/ \E name \in {"close", "waive", "reopen"} : AssistantBegins(e, name)
                            \/ AssistantWrites(e)
                         /\ Meets({})
    \/ AssistantStops

FSpec == FInit /\ [][FNext]_followUpVars

-----------------------------------------------------------------------------
\* State and graph agree: an entry is superseded exactly while a link says by
\* what, unless it is being linked or reopened, or two calls met on it or one
\* stopped halfway.  (link_entries says that the drift is made impossible,
\* store.rs:918-923; its check makes it so for one process that lives.)
SupersededIffLinked ==
    \A e \in Minted \ torn :
        WorkerOn(e) \/ hand = <<"reopen", e>>
          \/ (entry[e].state = "superseded" <=> \E f \in Minted : <<e, f>> \in links)

\* A commitment the conversation closed still has a claim to show for it, so
\* that a person can disagree; but while the claim is being dismissed, or after
\* a crash between its removal and the reopening, until it is dismissed again
\* (dismiss_evidence: "a retry after a crash finds it already gone").
ConversationCloseHasClaim ==
    \A e \in Minted \ cut :
        entry[e].closedVia = "conversation" /\ call # <<"dismiss", e>> =>
            \E c \in Claims : <<e, c>> \in claims

\* One line per pass: a line an earlier refresh settled is not handed to
\* another entry by a later update.
ClaimedLineStays ==
    [][\A l \in pass.claimed : HoldersOf(l)' = HoldersOf(l)]_followUpVars

\* No live entry loses its last line in silence.  A pass that takes a line over
\* keeps the entry that was live when it looked for its next call, which closes
\* it out; one that was settled then stays as it is, whoever reopened it since.
FollowUpLosesNoLine ==
    [][\A e \in Minted :
         IsLive(e) /\ HoldsLine(e) /\ ~HoldsLine(e)'
           => \/ entry'[e].state \in {"needs_review", "superseded"}
              \/ e \in pass.found /\ (e \in pass.live => e \in pass'.live)]_followUpVars

\* One state change per entry per pass, the first update winning
\* (distill_apply.rs:127-129); but for an entry refreshed first and then
\* superseded, as the holder of a line that another refresh takes over.
FirstChangeWins ==
    [][pass' # pass =>
         \A e \in pass.changed :
            entry'[e].state \in {entry[e].state, "superseded"}]_followUpVars
=============================================================================
