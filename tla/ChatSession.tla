----------------------------- MODULE ChatSession -----------------------------
(***************************************************************************)
(* Chat sessions (src-tauri/src/chat_cmds.rs, chat_distill_cmds.rs,        *)
(* kodabi-llm/src/chat.rs).                                                *)
(*                                                                         *)
(* A chat is a claude child process.  Commands, one at a time under the    *)
(* lock of ChatState, queue lines for its stdin; a pump thread turns the   *)
(* items of its stdout into transcript records, and when the last item,    *)
(* the exit, is through it schedules the distill of the transcript.  The   *)
(* child, its stdin writer, its waiter and its reader run on their own.    *)
(* The flags turn_active and interrupting are left out: no command asks    *)
(* for them, they label a turn and its end for the view, and decide        *)
(* whether a failed turn is recorded as an error line.                     *)
(***************************************************************************)
EXTENDS Naturals, Sequences, FiniteSets

CONSTANTS
    LastChat,    \* chats are 1..LastChat, in the order they are spawned
    LastPrompt,  \* permission prompts are 1..LastPrompt, in the order asked
    Nothing,     \* no command, no note
    MaxSaid,     \* bound: messages, replies, prompts and stops
    MaxFaults    \* bound: children that die, distills that fail, exits, crashes

Chats == 1..LastChat
Prompts == 1..LastPrompt

ASSUME ChatAssumption ==
    /\ LastChat \in Nat /\ LastPrompt \in Nat
    /\ MaxSaid \in Nat /\ MaxFaults \in Nat

VARIABLES
    up,          \* the app runs
    open,        \* the chat in ChatState, or 0
    started,     \* chats spawned so far
    cmd,         \* the command that holds the lock of ChatState
    child,       \* each chat's process
    asks,        \* the prompt it is blocked on, or was last
    stdin,       \* lines queued for it
    writer,      \* its stdin writer thread lives
    alive,       \* the flag the waiter thread clears
    events,      \* parsed items the pump has not taken
    pending,     \* the open permission card, or 0
    reaped, onReap,    \* flags of SharedChat
    transcript,  \* what is on disk: the user spoke, replies
    verdicts,    \* how the transcript says each prompt was resolved
    distill,     \* where the chat's distill stands
    got,         \* the replies its distill read
    note,        \* the replies in the note that claims the transcript
    sweep,       \* the sweep of this launch is still to come
    allowed,     \* history: prompts the user clicked Allow on
    ran,         \* history: prompts whose tool ran
    cut,         \* history: chats whose process lost the app, or was cut by exit
    said, prompts, faults    \* what happened so far

process == <<child, asks, stdin, writer, alive, events>>
shared == <<pending, reaped, onReap>>
disk == <<transcript, verdicts, note>>
work == <<distill, got>>
history == <<allowed, ran, cut>>
counts == <<said, prompts, faults>>
vars == <<up, open, started, cmd, process, shared, disk, work, sweep, history, counts>>

UserLine == [kind |-> "user"]
InterruptLine == [kind |-> "interrupt"]
AnswerLine(p, allow) == [kind |-> "answer", prompt |-> p, allow |-> allow]
Lines == {UserLine, InterruptLine} \cup [kind : {"answer"}, prompt : Prompts, allow : BOOLEAN]

TextItem == [kind |-> "text"]
AskItem(p) == [kind |-> "ask", prompt |-> p]
ResultItem(failed) == [kind |-> "result", failed |-> failed]
ExitItem == [kind |-> "exited"]
Items == {TextItem, ExitItem} \cup [kind : {"ask"}, prompt : Prompts]
         \cup [kind : {"result"}, failed : BOOLEAN]

Living == {"idle", "busy", "asking"}
Command == [op : {"send", "cancel", "restart"}, chat : Chats]
           \cup [op : {"respond", "answered"}, chat : Chats, prompt : Prompts, allow : BOOLEAN]

ASSUME NothingAssumption == Nothing \notin Command \cup Nat

ChatTypeOK ==
    /\ up \in {"down", "up", "exiting"}
    /\ open \in 0..LastChat
    /\ started \in 0..LastChat
    /\ cmd \in Command \cup {Nothing}
    /\ child \in [Chats -> Living \cup {"none", "gone"}]
    /\ asks \in [Chats -> 0..LastPrompt]
    /\ stdin \in [Chats -> Seq(Lines)]
    /\ writer \in [Chats -> BOOLEAN]
    /\ alive \in [Chats -> BOOLEAN]
    /\ events \in [Chats -> Seq(Items)]
    /\ pending \in [Chats -> 0..LastPrompt]
    /\ reaped \in [Chats -> BOOLEAN]
    /\ onReap \in [Chats -> BOOLEAN]
    /\ transcript \in [Chats -> [user : BOOLEAN, replies : Nat]]
    /\ verdicts \in [Prompts -> SUBSET {"allow", "deny", "cancelled", "closed"}]
    /\ distill \in [Chats -> {"no", "queued", "reading", "failed", "done"}]
    /\ got \in [Chats -> Nat]
    /\ note \in [Chats -> Nat \cup {Nothing}]
    /\ sweep \in BOOLEAN
    /\ allowed \subseteq Prompts /\ ran \subseteq Prompts
    /\ cut \subseteq Chats
    /\ said \in 0..MaxSaid
    /\ prompts \in 0..LastPrompt /\ faults \in 0..MaxFaults

Speaks == said < MaxSaid /\ said' = said + 1
Fault == faults < MaxFaults /\ faults' = faults + 1

-----------------------------------------------------------------------------
(* The child, external, and the threads around it.                         *)

Emits(c, item) == events' = [events EXCEPT ![c] = Append(@, item)]

\* A reply during a turn.
ChildReplies(c) ==
    /\ child[c] = "busy"
    /\ Speaks
    /\ Emits(c, TextItem)
    /\ UNCHANGED <<up, open, started, cmd, child, asks, stdin, writer, alive, shared,
                   disk, work, sweep, history, prompts, faults>>

\* A write tool: the child blocks on its own request.
ChildAsks(c) ==
    /\ child[c] = "busy"
    /\ prompts < LastPrompt
    /\ Speaks
    /\ prompts' = prompts + 1
    /\ child' = [child EXCEPT ![c] = "asking"]
    /\ asks' = [asks EXCEPT ![c] = prompts + 1]
    /\ Emits(c, AskItem(prompts + 1))
    /\ UNCHANGED <<up, open, started, cmd, stdin, writer, alive, shared, disk, work,
                   sweep, history, faults>>

ChildFinishes(c) ==
    /\ child[c] = "busy"
    /\ child' = [child EXCEPT ![c] = "idle"]
    /\ \E failed \in BOOLEAN : Emits(c, ResultItem(failed))
    /\ UNCHANGED <<up, open, started, cmd, asks, stdin, writer, alive, shared, disk,
                   work, sweep, history, counts>>

\* A message starts a turn, an answer to the open request lets it go on, an
\* interrupt ends it as an error; a line out of place is ignored.
ChildReads(c) ==
    /\ child[c] \in Living
    /\ stdin[c] # <<>>
    /\ stdin' = [stdin EXCEPT ![c] = Tail(@)]
    /\ LET line == Head(stdin[c]) IN
        \/ /\ line.kind = "user"
           /\ child' = [child EXCEPT ![c] = IF @ = "idle" THEN "busy" ELSE @]
           /\ UNCHANGED <<events, ran>>
        \/ /\ line.kind = "interrupt"
           /\ child' = [child EXCEPT ![c] = "idle"]
           /\ IF child[c] = "idle" THEN UNCHANGED events ELSE Emits(c, ResultItem(TRUE))
           /\ UNCHANGED ran
        \/ /\ line.kind = "answer"
           /\ LET mine == child[c] = "asking" /\ asks[c] = line.prompt IN
                /\ child' = [child EXCEPT ![c] = IF mine THEN "busy" ELSE @]
                /\ ran' = IF mine /\ line.allow THEN ran \cup {line.prompt} ELSE ran
           /\ UNCHANGED events
    /\ UNCHANGED <<up, open, started, cmd, asks, writer, alive, shared, disk, work,
                   sweep, allowed, cut, counts>>

ChildDies(c) ==
    /\ child[c] \in Living
    /\ Fault
    /\ child' = [child EXCEPT ![c] = "gone"]
    /\ UNCHANGED <<up, open, started, cmd, asks, stdin, writer, alive, events, shared,
                   disk, work, sweep, history, said, prompts>>

\* The writer notices at its next line that the pipe is broken.
WriterStops(c) ==
    /\ child[c] = "gone" /\ writer[c] /\ stdin[c] # <<>>
    /\ writer' = [writer EXCEPT ![c] = FALSE]
    /\ UNCHANGED <<up, open, started, cmd, child, asks, stdin, alive, events, shared,
                   disk, work, sweep, history, counts>>

WaiterReports(c) ==
    /\ child[c] = "gone" /\ alive[c]
    /\ alive' = [alive EXCEPT ![c] = FALSE]
    /\ UNCHANGED <<up, open, started, cmd, child, asks, stdin, writer, events, shared,
                   disk, work, sweep, history, counts>>

\* The reader sends the exit after the last item, once the waiter has the code.
ReaderEnds(c) ==
    /\ up # "down"
    /\ child[c] = "gone" /\ ~alive[c]
    /\ child' = [child EXCEPT ![c] = "none"]
    /\ Emits(c, ExitItem)
    /\ UNCHANGED <<up, open, started, cmd, asks, stdin, writer, alive, shared, disk,
                   work, sweep, history, counts>>

-----------------------------------------------------------------------------
(* The pump.                                                               *)

Verdict(p, word) == verdicts' = [verdicts EXCEPT ![p] = @ \cup {word}]

\* The app's own claim of a transcript: a second request is turned down.
Schedule(c) ==
    distill' = IF distill[c] \in {"no", "failed"} THEN [distill EXCEPT ![c] = "queued"]
               ELSE distill

Takes(c, kind) ==
    /\ up # "down"
    /\ events[c] # <<>>
    /\ Head(events[c]).kind = kind
    /\ events' = [events EXCEPT ![c] = Tail(@)]

HandleText(c) ==
    /\ Takes(c, "text")
    /\ transcript' = [transcript EXCEPT ![c].replies = @ + 1]
    /\ UNCHANGED <<up, open, started, cmd, child, asks, stdin, writer, alive, shared,
                   verdicts, note, work, sweep, history, counts>>

HandlePermissionRequest(c) ==
    /\ Takes(c, "ask")
    /\ pending' = [pending EXCEPT ![c] = Head(events[c]).prompt]
    /\ UNCHANGED <<up, open, started, cmd, child, asks, stdin, writer, alive,
                   reaped, onReap, disk, work, sweep, history, counts>>

HandleTurnResult(c) ==
    /\ Takes(c, "result")
    /\ UNCHANGED <<up, open, started, cmd, child, asks, stdin, writer, alive, pending,
                   reaped, onReap, disk, work, sweep, history, counts>>

\* A mutant of HandleExit: a reaped chat is never distilled.
ReapedIsForgotten(c) ==
    /\ Takes(c, "exited")
    /\ pending' = [pending EXCEPT ![c] = 0]
    /\ IF pending[c] # 0 THEN Verdict(pending[c], "closed") ELSE UNCHANGED verdicts
    /\ IF ~reaped[c] THEN Schedule(c) ELSE UNCHANGED distill
    /\ UNCHANGED <<up, open, started, cmd, child, asks, stdin, writer, alive,
                   reaped, onReap, transcript, note, got, sweep, history, counts>>

\* An open card is closed; then, every record being written, the transcript is
\* scheduled, unless the app's exit reaped the chat.
HandleExit(c) ==
    /\ Takes(c, "exited")
    /\ pending' = [pending EXCEPT ![c] = 0]
    /\ IF pending[c] # 0 THEN Verdict(pending[c], "closed") ELSE UNCHANGED verdicts
    /\ IF ~reaped[c] \/ onReap[c] THEN Schedule(c) ELSE UNCHANGED distill
    /\ UNCHANGED <<up, open, started, cmd, child, asks, stdin, writer, alive,
                   reaped, onReap, transcript, note, got, sweep, history, counts>>

-----------------------------------------------------------------------------
(* The commands.                                                           *)

Locks == up = "up" /\ cmd = Nothing
Writes(c, lines) == stdin' = [stdin EXCEPT ![c] = @ \o lines]

\* A card resolved without an answer of the user's: the child is told no.
DenyPending(c, word) ==
    /\ pending' = [pending EXCEPT ![c] = 0]
    /\ IF pending[c] # 0 THEN Verdict(pending[c], word) ELSE UNCHANGED verdicts

DenyLine(c) ==
    IF pending[c] # 0 /\ writer[c] THEN <<AnswerLine(pending[c], FALSE)>> ELSE <<>>

\* The transcript file is created first, so a spawn that fails leaves an empty one.
Spawns ==
    /\ started < LastChat
    /\ started' = started + 1
    /\ \/ /\ open' = started + 1
          /\ child' = [child EXCEPT ![started + 1] = "idle"]
          /\ writer' = [writer EXCEPT ![started + 1] = TRUE]
          /\ alive' = [alive EXCEPT ![started + 1] = TRUE]
          /\ UNCHANGED faults
       \/ /\ Fault
          /\ open' = 0
          /\ UNCHANGED <<child, writer, alive>>

\* A live session is reused, a dead one replaced.
ChatOpen ==
    /\ Locks
    /\ ~(open # 0 /\ alive[open])
    /\ Spawns
    /\ UNCHANGED <<up, cmd, asks, stdin, events, shared, disk, work, sweep, history,
                   said, prompts>>

\* Nothing here asks whether a turn is running: the view does.
ChatSend ==
    /\ Locks
    /\ open # 0 /\ alive[open]
    /\ Speaks
    /\ cmd' = [op |-> "send", chat |-> open]
    /\ UNCHANGED <<up, open, started, process, shared, disk, work, sweep, history,
                   prompts, faults>>

\* The record stays though the line could not be queued.
SendWrites ==
    /\ cmd # Nothing /\ cmd.op = "send"
    /\ transcript' = [transcript EXCEPT ![cmd.chat].user = TRUE]
    /\ IF writer[cmd.chat]
       THEN Writes(cmd.chat, <<UserLine>>)
       ELSE UNCHANGED stdin
    /\ cmd' = Nothing
    /\ UNCHANGED <<up, open, started, child, asks, writer, alive, events, shared,
                   verdicts, note, work, sweep, history, counts>>

\* Nor here: a stop may cross the end of the turn it was meant for.
ChatCancel ==
    /\ Locks
    /\ open # 0 /\ alive[open]
    /\ Speaks
    /\ DenyPending(open, "cancelled")
    /\ Writes(open, DenyLine(open))
    /\ cmd' = [op |-> "cancel", chat |-> open]
    /\ UNCHANGED <<up, open, started, child, asks, writer, alive, events,
                   reaped, onReap, transcript, note, work, sweep,
                   history, prompts, faults>>

CancelInterrupts ==
    /\ cmd # Nothing /\ cmd.op = "cancel"
    /\ Writes(cmd.chat, IF writer[cmd.chat] THEN <<InterruptLine>> ELSE <<>>)
    /\ cmd' = Nothing
    /\ UNCHANGED <<up, open, started, child, asks, writer, alive, events, pending,
                   reaped, onReap, disk, work, sweep, history, counts>>

\* A mutant of ChatPermissionRespond: the request's id is not compared.
AnswersTheOpenCard(p, allow) ==
    /\ Locks
    /\ open # 0
    /\ p <= prompts /\ pending[open] # 0
    /\ pending' = [pending EXCEPT ![open] = 0]
    /\ allowed' = IF allow THEN allowed \cup {p} ELSE allowed
    /\ cmd' = [op |-> "respond", chat |-> open, prompt |-> p, allow |-> allow]
    /\ UNCHANGED <<up, open, started, process, reaped, onReap,
                   disk, work, sweep, ran, cut, counts>>

\* A click on a card that was resolved meanwhile does nothing.
ChatPermissionRespond(p, allow) ==
    /\ Locks
    /\ open # 0
    /\ pending[open] = p
    /\ pending' = [pending EXCEPT ![open] = 0]
    /\ allowed' = IF allow THEN allowed \cup {p} ELSE allowed
    /\ cmd' = [op |-> "respond", chat |-> open, prompt |-> p, allow |-> allow]
    /\ UNCHANGED <<up, open, started, process, reaped, onReap,
                   disk, work, sweep, ran, cut, counts>>

\* A line that cannot be queued puts the card back.
RespondWrites ==
    /\ cmd # Nothing /\ cmd.op = "respond"
    /\ IF writer[cmd.chat]
       THEN /\ Writes(cmd.chat, <<AnswerLine(cmd.prompt, cmd.allow)>>)
            /\ cmd' = [cmd EXCEPT !.op = "answered"]
            /\ UNCHANGED pending
       ELSE /\ pending' = [pending EXCEPT ![cmd.chat] = cmd.prompt]
            /\ cmd' = Nothing
            /\ UNCHANGED stdin
    /\ UNCHANGED <<up, open, started, child, asks, writer, alive, events,
                   reaped, onReap, disk, work, sweep, history, counts>>

RespondRecords ==
    /\ cmd # Nothing /\ cmd.op = "answered"
    /\ Verdict(cmd.prompt, IF cmd.allow THEN "allow" ELSE "deny")
    /\ cmd' = Nothing
    /\ UNCHANGED <<up, open, started, process, shared, transcript, note, work, sweep,
                   history, counts>>

\* A new chat: the old one is marked for its distill before it is reaped.
ChatRestart ==
    /\ Locks
    /\ open # 0
    /\ started < LastChat
    /\ onReap' = [onReap EXCEPT ![open] = TRUE]
    /\ DenyPending(open, "closed")
    /\ Writes(open, DenyLine(open))
    /\ cmd' = [op |-> "restart", chat |-> open]
    /\ UNCHANGED <<up, open, started, child, asks, writer, alive, events,
                   reaped, transcript, note, work, sweep, history, counts>>

Killed(c) == [child EXCEPT ![c] = IF @ \in Living THEN "gone" ELSE @]

\* A mutant of RestartReaps: the distill is scheduled right after the kill.
DistillsAtOnce ==
    /\ cmd # Nothing /\ cmd.op = "restart" /\ open = cmd.chat
    /\ reaped' = [reaped EXCEPT ![open] = TRUE]
    /\ child' = Killed(open)
    /\ open' = 0
    /\ Schedule(open)
    /\ UNCHANGED <<up, started, cmd, asks, stdin, writer, alive, events, pending,
                   onReap, disk, got, sweep, history, counts>>

RestartReaps ==
    /\ cmd # Nothing /\ cmd.op = "restart" /\ open = cmd.chat
    /\ reaped' = [reaped EXCEPT ![open] = TRUE]
    /\ child' = Killed(open)
    /\ open' = 0
    /\ UNCHANGED <<up, started, cmd, asks, stdin, writer, alive, events, pending,
                   onReap, disk, work, sweep, history, counts>>

RestartSpawns ==
    /\ cmd # Nothing /\ cmd.op = "restart" /\ open = 0
    /\ Spawns
    /\ cmd' = Nothing
    /\ UNCHANGED <<up, asks, stdin, events, shared, disk, work, sweep, history, said, prompts>>

-----------------------------------------------------------------------------
(* The distill of a transcript.                                            *)

Substantial(c) == transcript[c].user /\ transcript[c].replies > 0

\* One at a time: distill_lock.  A transcript too thin is passed over.
DistillReads(c) ==
    /\ up # "down"
    /\ distill[c] = "queued"
    /\ \A d \in Chats : distill[d] # "reading"
    /\ distill' = [distill EXCEPT ![c] = IF Substantial(c) THEN "reading" ELSE "no"]
    /\ got' = [got EXCEPT ![c] = transcript[c].replies]
    /\ UNCHANGED <<up, open, started, cmd, process, shared, disk, sweep, history, counts>>

DistillWrites(c) ==
    /\ up # "down"
    /\ distill[c] = "reading"
    /\ note' = [note EXCEPT ![c] = got[c]]
    /\ distill' = [distill EXCEPT ![c] = "done"]
    /\ UNCHANGED <<up, open, started, cmd, process, shared, transcript, verdicts, got,
                   sweep, history, counts>>

DistillFails(c) ==
    /\ up # "down"
    /\ distill[c] = "reading"
    /\ Fault
    /\ distill' = [distill EXCEPT ![c] = "failed"]
    /\ UNCHANGED <<up, open, started, cmd, process, shared, disk, got, sweep, history,
                   said, prompts>>

\* Once a launch: the transcripts of earlier launches no note claims.  One
\* written within the grace window is left to the next launch, the open one out.
Sweep ==
    /\ up = "up" /\ sweep
    /\ sweep' = FALSE
    /\ \E settled \in SUBSET cut :
        distill' = [c \in Chats |->
            IF c \in settled \ {open} /\ note[c] = Nothing /\ Substantial(c)
               /\ distill[c] \in {"no", "failed"}
            THEN "queued" ELSE distill[c]]
    /\ UNCHANGED <<up, open, started, cmd, process, shared, disk, got, history, counts>>

-----------------------------------------------------------------------------
(* The app stops and starts.                                               *)

\* The exit hook: the open chat is reaped and nothing is scheduled for it.
AppExits ==
    /\ Locks
    /\ Fault
    /\ up' = "exiting"
    /\ IF open = 0
       THEN UNCHANGED <<pending, verdicts, reaped, child, stdin>>
       ELSE /\ DenyPending(open, "closed")
            /\ Writes(open, DenyLine(open))
            /\ reaped' = [reaped EXCEPT ![open] = TRUE]
            /\ child' = Killed(open)
    /\ open' = 0
    /\ UNCHANGED <<started, cmd, asks, writer, alive, events,
                   onReap, transcript, note, work, sweep, history, said, prompts>>

\* The process is gone, after an exit or by a crash: what it had in memory with
\* it, and the children with their pipes.
AppStops ==
    /\ \/ up = "exiting" /\ UNCHANGED faults
       \/ up = "up" /\ Fault
    /\ up' = "down"
    /\ open' = 0
    /\ cmd' = Nothing
    /\ child' = [c \in Chats |-> "none"]
    /\ stdin' = [c \in Chats |-> <<>>]
    /\ events' = [c \in Chats |-> <<>>]
    /\ writer' = [c \in Chats |-> FALSE]
    /\ alive' = [c \in Chats |-> FALSE]
    /\ pending' = [c \in Chats |-> 0]
    /\ reaped' = [c \in Chats |-> FALSE]
    /\ onReap' = [c \in Chats |-> FALSE]
    /\ asks' = [c \in Chats |-> 0]
    /\ distill' = [c \in Chats |-> IF note[c] = Nothing THEN "no" ELSE "done"]
    /\ cut' = 1..started
    /\ UNCHANGED <<started, disk, got, sweep, allowed, ran, said, prompts>>

AppStarts ==
    /\ up = "down"
    /\ up' = "up"
    /\ sweep' = TRUE
    /\ UNCHANGED <<open, started, cmd, process, shared, disk, work, history, counts>>

-----------------------------------------------------------------------------
Init ==
    /\ up = "down" /\ open = 0 /\ started = 0 /\ cmd = Nothing
    /\ child = [c \in Chats |-> "none"]
    /\ asks = [c \in Chats |-> 0]
    /\ stdin = [c \in Chats |-> <<>>]
    /\ writer = [c \in Chats |-> FALSE]
    /\ alive = [c \in Chats |-> FALSE]
    /\ events = [c \in Chats |-> <<>>]
    /\ pending = [c \in Chats |-> 0]
    /\ reaped = [c \in Chats |-> FALSE]
    /\ onReap = [c \in Chats |-> FALSE]
    /\ transcript = [c \in Chats |-> [user |-> FALSE, replies |-> 0]]
    /\ verdicts = [p \in Prompts |-> {}]
    /\ distill = [c \in Chats |-> "no"]
    /\ got = [c \in Chats |-> 0]
    /\ note = [c \in Chats |-> Nothing]
    /\ sweep = TRUE
    /\ allowed = {} /\ ran = {} /\ cut = {}
    /\ said = 0 /\ prompts = 0 /\ faults = 0

Pump(c) == HandleText(c) \/ HandlePermissionRequest(c) \/ HandleTurnResult(c) \/ HandleExit(c)
Threads(c) == WriterStops(c) \/ WaiterReports(c) \/ ReaderEnds(c)
Distills(c) == DistillReads(c) \/ DistillWrites(c)
Child(c) == ChildReplies(c) \/ ChildAsks(c) \/ ChildFinishes(c) \/ ChildReads(c)
Finishes == SendWrites \/ CancelInterrupts \/ RespondWrites \/ RespondRecords
            \/ RestartReaps \/ RestartSpawns

Next ==
    \/ \E c \in Chats : \/ Child(c) \/ ChildDies(c) \/ Threads(c) \/ Pump(c)
                        \/ Distills(c) \/ DistillFails(c)
    \/ ChatOpen \/ ChatSend \/ ChatCancel \/ ChatRestart \/ Finishes
    \/ \E p \in Prompts, allow \in BOOLEAN : ChatPermissionRespond(p, allow)
    \/ Sweep \/ AppExits \/ AppStops \/ AppStarts

Spec == Init /\ [][Next]_vars

\* The threads of a running app are scheduled; nothing is asked of the user, nor
\* of the child while it lives.
FairSpec ==
    /\ Spec
    /\ \A c \in Chats : WF_vars(Pump(c)) /\ WF_vars(Threads(c)) /\ WF_vars(Distills(c))
    /\ WF_vars(Finishes) /\ WF_vars(Sweep)

-----------------------------------------------------------------------------
(* What the session code promises.                                         *)

\* However clicks, stops, restarts and exits cross, a tool runs only when the
\* user allowed that very prompt, and a transcript never gives one prompt two
\* outcomes (deny_pending, chat_permission_respond and handle_exit all take it).
PromptsAreAnsweredOnce ==
    /\ ran \subseteq allowed
    /\ \A p \in Prompts : Cardinality(verdicts[p]) <= 1
    /\ \A p \in ran : verdicts[p] \subseteq {"allow"}

\* A note never claims half a conversation: every reply that reaches the
\* transcript is in the note ("the one failure no later sweep can repair").
NoteHasTheWholeChat ==
    \A c \in Chats : note[c] # Nothing => note[c] = transcript[c].replies

\* A chat that ends while the app runs, and was a conversation, gets its note,
\* unless the distill fails or the app stops first.
EndedChatIsNoted ==
    \A c \in Chats :
        (child[c] = "gone" /\ up = "up")
            ~> (note[c] # Nothing \/ distill[c] = "failed" \/ ~Substantial(c) \/ up # "up")
=============================================================================
