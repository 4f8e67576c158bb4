----------------------------- MODULE ChatProofs -----------------------------
(***************************************************************************)
(* What chat sessions keep, for any number of chats and prompts.           *)
(*                                                                         *)
(* A prompt is in one place at a time: in the events its child emitted, on *)
(* the open card, in the command of a click, or resolved in a transcript;  *)
(* and an Allow on its way to the child means the prompt has left every    *)
(* place but the click that sent it (PromptInv).  A transcript that is     *)
(* scheduled, noted or left to a sweep belongs to a child that is gone and *)
(* whose last item, the exit, is through the pump (Whole).                 *)
(***************************************************************************)
EXTENDS ChatSession, SequenceTheorems, FiniteSetTheorems, TLAPS

-----------------------------------------------------------------------------
(* Queues: what is emitted, taken and written keeps its type.              *)

LEMMA LineTypes ==
    /\ UserLine \in Lines /\ InterruptLine \in Lines
    /\ \A p \in Prompts, allow \in BOOLEAN : AnswerLine(p, allow) \in Lines
    /\ \A line \in Lines : line.kind = "answer" => line.prompt \in Prompts /\ line.allow \in BOOLEAN
    /\ \A line \in Lines : line.kind \in {"user", "interrupt", "answer"}
  BY DEF Lines, UserLine, InterruptLine, AnswerLine

LEMMA ItemTypes ==
    /\ TextItem \in Items /\ ExitItem \in Items
    /\ \A p \in Prompts : AskItem(p) \in Items
    /\ \A failed \in BOOLEAN : ResultItem(failed) \in Items
    /\ \A item \in Items : item.kind = "ask" => item.prompt \in Prompts
  BY DEF Items, TextItem, ExitItem, AskItem, ResultItem

LEMMA EmitsQueue ==
    ASSUME ChatTypeOK, NEW c \in Chats, NEW item \in Items, Emits(c, item)
    PROVE  /\ events' \in [Chats -> Seq(Items)]
           /\ \A d \in Chats \ {c} : events'[d] = events[d]
           /\ Len(events'[c]) = Len(events[c]) + 1
           /\ \A k \in 1..Len(events[c]) : events'[c][k] = events[c][k]
           /\ events'[c][Len(events[c]) + 1] = item
           /\ events'[c] # <<>>
  <1>1. events[c] \in Seq(Items)
    BY DEF ChatTypeOK
  <1>2. events'[c] = Append(events[c], item)
    BY DEF Emits, ChatTypeOK
  <1>3. /\ events'[c] \in Seq(Items)
        /\ Len(events'[c]) = Len(events[c]) + 1
        /\ \A k \in 1..Len(events[c]) : events'[c][k] = events[c][k]
        /\ events'[c][Len(events[c]) + 1] = item
        /\ events'[c] # <<>>
    BY <1>1, <1>2, AppendProperties
  <1> QED
    BY <1>3 DEF Emits, ChatTypeOK

LEMMA TakesQueue ==
    ASSUME ChatTypeOK, NEW c \in Chats, NEW kind, Takes(c, kind)
    PROVE  /\ events' \in [Chats -> Seq(Items)]
           /\ \A d \in Chats \ {c} : events'[d] = events[d]
           /\ Len(events[c]) \in Nat \ {0}
           /\ Len(events'[c]) = Len(events[c]) - 1
           /\ \A k \in 1..Len(events'[c]) : events'[c][k] = events[c][k + 1]
           /\ Head(events[c]) = events[c][1] /\ Head(events[c]) \in Items
           /\ events[c][1].kind = kind
  <1>1. events[c] \in Seq(Items) /\ events[c] # <<>>
    BY DEF ChatTypeOK, Takes
  <1>2. events'[c] = Tail(events[c])
    BY DEF Takes, ChatTypeOK
  <1>3. /\ events'[c] \in Seq(Items)
        /\ Len(events'[c]) = Len(events[c]) - 1
        /\ \A k \in 1..Len(events'[c]) : events'[c][k] = events[c][k + 1]
        /\ Head(events[c]) \in Items
    BY <1>1, <1>2, HeadTailProperties
  <1>4. Len(events[c]) \in Nat \ {0}
    BY <1>1, EmptySeq
  <1>5. Head(events[c]) = events[c][1]
    BY <1>1
  <1> QED
    BY <1>3, <1>4, <1>5 DEF Takes, ChatTypeOK

\* A line that is there after a write was there or is one of the new.
LEMMA WritesQueue ==
    ASSUME ChatTypeOK, NEW c \in Chats, NEW lines \in Seq(Lines), Writes(c, lines)
    PROVE  /\ stdin' \in [Chats -> Seq(Lines)]
           /\ \A d \in Chats \ {c} : stdin'[d] = stdin[d]
           /\ \A k \in 1..Len(stdin'[c]) :
                 \/ k \in 1..Len(stdin[c]) /\ stdin'[c][k] = stdin[c][k]
                 \/ \E l \in 1..Len(lines) : stdin'[c][k] = lines[l]
  <1>1. stdin[c] \in Seq(Lines)
    BY DEF ChatTypeOK
  <1>2. stdin'[c] = stdin[c] \o lines
    BY DEF Writes, ChatTypeOK
  <1>3. /\ stdin'[c] \in Seq(Lines)
        /\ Len(stdin'[c]) = Len(stdin[c]) + Len(lines)
        /\ \A k \in 1..Len(stdin[c]) + Len(lines) : stdin'[c][k] =
              IF k <= Len(stdin[c]) THEN stdin[c][k] ELSE lines[k - Len(stdin[c])]
    BY <1>1, <1>2, ConcatProperties
  <1>4. Len(stdin[c]) \in Nat /\ Len(lines) \in Nat
    BY <1>1, LenProperties
  <1>5. ASSUME NEW k \in 1..Len(stdin'[c])
        PROVE  \/ k \in 1..Len(stdin[c]) /\ stdin'[c][k] = stdin[c][k]
               \/ \E l \in 1..Len(lines) : stdin'[c][k] = lines[l]
    <2>1. CASE k <= Len(stdin[c])
      BY <1>3, <1>4, <1>5, <2>1
    <2>2. CASE ~(k <= Len(stdin[c]))
      <3>1. k - Len(stdin[c]) \in 1..Len(lines) /\ stdin'[c][k] = lines[k - Len(stdin[c])]
        BY <1>3, <1>4, <1>5, <2>2
      <3> QED
        BY <3>1
    <2> QED
      BY <2>1, <2>2
  <1>6. stdin' \in [Chats -> Seq(Lines)] /\ \A d \in Chats \ {c} : stdin'[d] = stdin[d]
    BY <1>3 DEF Writes, ChatTypeOK
  <1> QED
    BY <1>5, <1>6

LEMMA OneLine ==
    ASSUME NEW line \in Lines
    PROVE  /\ <<line>> \in Seq(Lines) /\ <<>> \in Seq(Lines)
           /\ Len(<<line>>) = 1 /\ <<line>>[1] = line /\ Len(<<>>) = 0
  OBVIOUS

LEMMA DenyLineType ==
    ASSUME ChatTypeOK, NEW c \in Chats
    PROVE  /\ DenyLine(c) \in Seq(Lines)
           /\ \A l \in 1..Len(DenyLine(c)) : DenyLine(c)[l].kind = "answer" /\ ~DenyLine(c)[l].allow
  <1>1. CASE pending[c] # 0 /\ writer[c]
    <2>1. pending[c] \in Prompts
      BY <1>1, ChatAssumption DEF ChatTypeOK, Prompts
    <2>2. AnswerLine(pending[c], FALSE) \in Lines
      BY <2>1, LineTypes
    <2> DEFINE line == AnswerLine(pending[c], FALSE)
    <2>3. line.kind = "answer" /\ ~line.allow
      BY DEF AnswerLine
    <2>4. DenyLine(c) = <<line>>
      BY <1>1 DEF DenyLine
    <2> HIDE DEF line
    <2>5. DenyLine(c) \in Seq(Lines) /\ Len(DenyLine(c)) = 1 /\ DenyLine(c)[1] = line
      BY <2>2, <2>4, OneLine DEF line
    <2> QED
      BY <2>3, <2>5
  <1>2. CASE ~(pending[c] # 0 /\ writer[c])
    <2>1. DenyLine(c) = <<>>
      BY <1>2 DEF DenyLine
    <2> QED
      BY <2>1
  <1> QED
    BY <1>1, <1>2

\* What the child reads is gone from its queue.
LEMMA ReadsQueue ==
    ASSUME ChatTypeOK, NEW c \in Chats, stdin[c] # <<>>, stdin' = [stdin EXCEPT ![c] = Tail(@)]
    PROVE  /\ stdin' \in [Chats -> Seq(Lines)]
           /\ \A d \in Chats \ {c} : stdin'[d] = stdin[d]
           /\ \A k \in 1..Len(stdin'[c]) : k + 1 \in 1..Len(stdin[c]) /\ stdin'[c][k] = stdin[c][k + 1]
           /\ Head(stdin[c]) = stdin[c][1] /\ Head(stdin[c]) \in Lines /\ 1 \in 1..Len(stdin[c])
  <1>1. stdin[c] \in Seq(Lines)
    BY DEF ChatTypeOK
  <1>2. stdin'[c] = Tail(stdin[c])
    BY DEF ChatTypeOK
  <1>3. /\ stdin'[c] \in Seq(Lines)
        /\ Len(stdin'[c]) = Len(stdin[c]) - 1
        /\ \A k \in 1..Len(stdin'[c]) : stdin'[c][k] = stdin[c][k + 1]
        /\ Head(stdin[c]) \in Lines
    BY <1>1, <1>2, HeadTailProperties
  <1>4. Len(stdin[c]) \in Nat \ {0}
    BY <1>1, EmptySeq
  <1>5. Head(stdin[c]) = stdin[c][1]
    BY <1>1
  <1> QED
    BY <1>3, <1>4, <1>5 DEF ChatTypeOK

-----------------------------------------------------------------------------
(* Types.                                                                  *)

LEMMA CountTypes ==
    ASSUME ChatTypeOK
    PROVE  /\ Speaks => said' \in 0..MaxSaid
           /\ Fault => faults' \in 0..MaxFaults
           /\ 0 \in 0..LastPrompt /\ 0 \in 0..LastChat
  BY ChatAssumption DEF ChatTypeOK, Speaks, Fault

\* The two ways a transcript grows.
LEMMA TranscriptTypes ==
    ASSUME ChatTypeOK, NEW c \in Chats,
           \/ transcript' = [transcript EXCEPT ![c].replies = @ + 1]
           \/ transcript' = [transcript EXCEPT ![c].user = TRUE]
    PROVE  transcript' \in [Chats -> [user : BOOLEAN, replies : Nat]]
  <1>1. transcript \in [Chats -> [user : BOOLEAN, replies : Nat]]
    BY DEF ChatTypeOK
  <1>2. ASSUME NEW t \in [user : BOOLEAN, replies : Nat]
        PROVE  /\ [t EXCEPT !.replies = t.replies + 1] \in [user : BOOLEAN, replies : Nat]
               /\ [t EXCEPT !.user = TRUE] \in [user : BOOLEAN, replies : Nat]
    <2>1. t.replies \in Nat /\ t.replies + 1 \in Nat
      OBVIOUS
    <2> QED
      BY <2>1
  <1>3. transcript[c] \in [user : BOOLEAN, replies : Nat]
    BY <1>1
  <1>4. \E t \in [user : BOOLEAN, replies : Nat] : transcript' = [transcript EXCEPT ![c] = t]
    <2>1. CASE transcript' = [transcript EXCEPT ![c].replies = @ + 1]
      <3>1. transcript' = [transcript EXCEPT ![c] = [transcript[c] EXCEPT !.replies = transcript[c].replies + 1]]
        BY <2>1
      <3> QED
        BY <1>2, <1>3, <3>1
    <2>2. CASE transcript' = [transcript EXCEPT ![c].user = TRUE]
      <3>1. transcript' = [transcript EXCEPT ![c] = [transcript[c] EXCEPT !.user = TRUE]]
        BY <2>2
      <3> QED
        BY <1>2, <1>3, <3>1
    <2> QED
      BY <2>1, <2>2
  <1> QED
    BY <1>1, <1>4

LEMMA ChildTypes ==
    ASSUME ChatTypeOK, NEW c \in Chats, Child(c) \/ ChildDies(c) \/ Threads(c)
    PROVE  ChatTypeOK'
  <1> USE ChatAssumption, NothingAssumption DEF process, shared, disk, work, history, counts
  <1>1. CASE ChildReplies(c)
    <2>1. events' \in [Chats -> Seq(Items)]
      BY <1>1, ItemTypes, EmitsQueue DEF ChildReplies
    <2> QED
      BY <1>1, <2>1, CountTypes DEF ChildReplies, ChatTypeOK
  <1>2. CASE ChildAsks(c)
    <2>1. prompts + 1 \in Prompts
      BY <1>2 DEF ChildAsks, Prompts, ChatTypeOK
    <2>2. events' \in [Chats -> Seq(Items)]
      BY <1>2, <2>1, ItemTypes, EmitsQueue DEF ChildAsks
    <2>3. child' \in [Chats -> Living \cup {"none", "gone"}]
      BY <1>2 DEF ChildAsks, ChatTypeOK, Living
    <2>4. asks' \in [Chats -> 0..LastPrompt] /\ prompts' \in 0..LastPrompt
      BY <1>2, <2>1 DEF ChildAsks, ChatTypeOK, Prompts
    <2> QED
      BY <1>2, <2>2, <2>3, <2>4, CountTypes DEF ChildAsks, ChatTypeOK
  <1>3. CASE ChildFinishes(c)
    <2>1. events' \in [Chats -> Seq(Items)]
      BY <1>3, ItemTypes, EmitsQueue DEF ChildFinishes
    <2> QED
      BY <1>3, <2>1 DEF ChildFinishes, ChatTypeOK, Living
  <1>4. CASE ChildReads(c)
    <2>1. stdin' \in [Chats -> Seq(Lines)] /\ Head(stdin[c]) \in Lines
      BY <1>4, ReadsQueue DEF ChildReads
    <2>2. events' \in [Chats -> Seq(Items)]
      BY <1>4, ItemTypes, EmitsQueue DEF ChildReads, ChatTypeOK
    <2>3. child' \in [Chats -> Living \cup {"none", "gone"}]
      <3>1. \E state \in Living : child' = [child EXCEPT ![c] = state]
        BY <1>4 DEF ChildReads, Living
      <3>2. child \in [Chats -> Living \cup {"none", "gone"}]
        BY DEF ChatTypeOK
      <3> QED
        BY <3>1, <3>2
    <2>4. \/ ran' = ran
          \/ Head(stdin[c]).kind = "answer" /\ ran' = ran \cup {Head(stdin[c]).prompt}
      BY <1>4 DEF ChildReads
    <2>5. ran' \subseteq Prompts
      <3>1. Head(stdin[c]).kind = "answer" => Head(stdin[c]).prompt \in Prompts
        BY <2>1, LineTypes
      <3>2. ran \subseteq Prompts
        BY DEF ChatTypeOK
      <3> QED
        BY <2>4, <3>1, <3>2
    <2> QED
      BY <1>4, <2>1, <2>2, <2>3, <2>5 DEF ChildReads, ChatTypeOK
  <1>5. CASE ChildDies(c)
    BY <1>5, CountTypes DEF ChildDies, ChatTypeOK
  <1>6. CASE WriterStops(c)
    BY <1>6 DEF WriterStops, ChatTypeOK
  <1>7. CASE WaiterReports(c)
    BY <1>7 DEF WaiterReports, ChatTypeOK
  <1>8. CASE ReaderEnds(c)
    <2>1. events' \in [Chats -> Seq(Items)]
      BY <1>8, ItemTypes, EmitsQueue DEF ReaderEnds
    <2> QED
      BY <1>8, <2>1 DEF ReaderEnds, ChatTypeOK
  <1> QED
    BY <1>1, <1>2, <1>3, <1>4, <1>5, <1>6, <1>7, <1>8 DEF Child, Threads

LEMMA VerdictTypes ==
    ASSUME ChatTypeOK, NEW p \in 0..LastPrompt, NEW word \in {"allow", "deny", "cancelled", "closed"},
           IF p # 0 THEN Verdict(p, word) ELSE UNCHANGED verdicts
    PROVE  verdicts' \in [Prompts -> SUBSET {"allow", "deny", "cancelled", "closed"}]
  <1>1. verdicts \in [Prompts -> SUBSET {"allow", "deny", "cancelled", "closed"}]
    BY DEF ChatTypeOK
  <1>2. CASE p = 0
    BY <1>1, <1>2
  <1>3. CASE p # 0
    BY <1>1, <1>3 DEF Verdict
  <1> QED
    BY <1>2, <1>3

LEMMA PumpTypes ==
    ASSUME ChatTypeOK, NEW c \in Chats, Pump(c)
    PROVE  ChatTypeOK'
  <1> USE ChatAssumption, NothingAssumption DEF process, shared, disk, work, history, counts
  <1>1. CASE HandleText(c)
    <2>1. events' \in [Chats -> Seq(Items)]
      BY <1>1, TakesQueue DEF HandleText
    <2>2. transcript' \in [Chats -> [user : BOOLEAN, replies : Nat]]
      BY <1>1, TranscriptTypes DEF HandleText
    <2> QED
      BY <1>1, <2>1, <2>2 DEF HandleText, ChatTypeOK
  <1>2. CASE HandlePermissionRequest(c)
    <2>1. events' \in [Chats -> Seq(Items)] /\ Head(events[c]) \in Items /\ Head(events[c]).kind = "ask"
      BY <1>2, TakesQueue DEF HandlePermissionRequest
    <2>2. Head(events[c]).prompt \in 0..LastPrompt
      BY <2>1, ItemTypes DEF Prompts
    <2> QED
      BY <1>2, <2>1, <2>2 DEF HandlePermissionRequest, ChatTypeOK
  <1>3. CASE HandleTurnResult(c)
    <2>1. events' \in [Chats -> Seq(Items)]
      BY <1>3, TakesQueue DEF HandleTurnResult
    <2> QED
      BY <1>3, <2>1 DEF HandleTurnResult, ChatTypeOK
  <1>4. CASE HandleExit(c)
    <2>1. events' \in [Chats -> Seq(Items)]
      BY <1>4, TakesQueue DEF HandleExit
    <2>2. verdicts' \in [Prompts -> SUBSET {"allow", "deny", "cancelled", "closed"}]
      BY <1>4, VerdictTypes DEF HandleExit, ChatTypeOK
    <2>3. distill' \in [Chats -> {"no", "queued", "reading", "failed", "done"}]
      BY <1>4 DEF HandleExit, Schedule, ChatTypeOK
    <2> QED
      BY <1>4, <2>1, <2>2, <2>3, CountTypes DEF HandleExit, ChatTypeOK
  <1> QED
    BY <1>1, <1>2, <1>3, <1>4 DEF Pump

LEMMA SpawnTypes ==
    ASSUME ChatTypeOK, Spawns
    PROVE  /\ started' \in 0..LastChat /\ open' \in 0..LastChat /\ faults' \in 0..MaxFaults
           /\ child' \in [Chats -> Living \cup {"none", "gone"}]
           /\ writer' \in [Chats -> BOOLEAN] /\ alive' \in [Chats -> BOOLEAN]
  <1>1. started + 1 \in Chats /\ started' \in 0..LastChat /\ 0 \in 0..LastChat
    BY ChatAssumption DEF Spawns, ChatTypeOK, Chats
  <1>2. open' \in 0..LastChat
    BY <1>1 DEF Spawns, Chats
  <1>3. child' \in [Chats -> Living \cup {"none", "gone"}]
    BY DEF Spawns, ChatTypeOK, Living
  <1>4. writer' \in [Chats -> BOOLEAN] /\ alive' \in [Chats -> BOOLEAN]
    BY DEF Spawns, ChatTypeOK
  <1>5. faults' \in 0..MaxFaults
    BY CountTypes DEF Spawns, ChatTypeOK
  <1> QED
    BY <1>1, <1>2, <1>3, <1>4, <1>5

LEMMA DenyTypes ==
    ASSUME ChatTypeOK, NEW c \in Chats, NEW word \in {"cancelled", "closed"},
           DenyPending(c, word), Writes(c, DenyLine(c))
    PROVE  /\ pending' \in [Chats -> 0..LastPrompt]
           /\ verdicts' \in [Prompts -> SUBSET {"allow", "deny", "cancelled", "closed"}]
           /\ stdin' \in [Chats -> Seq(Lines)]
  <1>1. pending[c] \in 0..LastPrompt
    BY DEF ChatTypeOK
  <1>2. verdicts' \in [Prompts -> SUBSET {"allow", "deny", "cancelled", "closed"}]
    BY <1>1, VerdictTypes DEF DenyPending
  <1>3. stdin' \in [Chats -> Seq(Lines)]
    BY DenyLineType, WritesQueue
  <1>4. pending' \in [Chats -> 0..LastPrompt]
    BY CountTypes DEF DenyPending, ChatTypeOK
  <1> QED
    BY <1>2, <1>3, <1>4

LEMMA CommandTypes ==
    /\ \A op \in {"send", "cancel", "restart"}, c \in Chats : [op |-> op, chat |-> c] \in Command
    /\ \A op \in {"respond", "answered"}, c \in Chats, p \in Prompts, allow \in BOOLEAN :
          [op |-> op, chat |-> c, prompt |-> p, allow |-> allow] \in Command
    /\ \A x \in Command :
          /\ x.chat \in Chats
          /\ x.op \in {"send", "cancel", "restart", "respond", "answered"}
          /\ x.op \in {"respond", "answered"} => x.prompt \in Prompts /\ x.allow \in BOOLEAN
          /\ x.op = "respond" => [x EXCEPT !.op = "answered"] \in Command
  BY DEF Command

LEMMA CommandStepTypes ==
    ASSUME ChatTypeOK,
           \/ ChatOpen \/ ChatSend \/ ChatCancel \/ ChatRestart \/ Finishes
           \/ \E p \in Prompts, allow \in BOOLEAN : ChatPermissionRespond(p, allow)
    PROVE  ChatTypeOK'
  <1> USE ChatAssumption, NothingAssumption DEF process, shared, disk, work, history, counts
  <1>1. CASE ChatOpen
    <2>1. Spawns
      BY <1>1 DEF ChatOpen
    <2> QED
      BY <1>1, <2>1, SpawnTypes DEF ChatOpen, ChatTypeOK
  <1>2. CASE ChatSend
    <2>1. [op |-> "send", chat |-> open] \in Command
      BY <1>2, CommandTypes DEF ChatSend, ChatTypeOK, Chats
    <2> QED
      BY <1>2, <2>1, CountTypes DEF ChatSend, ChatTypeOK
  <1>3. CASE ChatCancel
    <2>1. open \in Chats /\ DenyPending(open, "cancelled") /\ Writes(open, DenyLine(open))
      BY <1>3 DEF ChatCancel, ChatTypeOK, Chats
    <2>2. [op |-> "cancel", chat |-> open] \in Command
      BY <2>1, CommandTypes
    <2> QED
      BY <1>3, <2>1, <2>2, DenyTypes, CountTypes DEF ChatCancel, ChatTypeOK
  <1>4. CASE ChatRestart
    <2>1. open \in Chats /\ DenyPending(open, "closed") /\ Writes(open, DenyLine(open))
      BY <1>4 DEF ChatRestart, ChatTypeOK, Chats
    <2>2. [op |-> "restart", chat |-> open] \in Command
      BY <2>1, CommandTypes
    <2> QED
      BY <1>4, <2>1, <2>2, DenyTypes DEF ChatRestart, ChatTypeOK
  <1>5. ASSUME NEW p \in Prompts, NEW allow \in BOOLEAN, ChatPermissionRespond(p, allow)
        PROVE  ChatTypeOK'
    <2>1. [op |-> "respond", chat |-> open, prompt |-> p, allow |-> allow] \in Command
      BY <1>5, CommandTypes DEF ChatPermissionRespond, ChatTypeOK, Chats
    <2>2. pending' \in [Chats -> 0..LastPrompt] /\ allowed' \subseteq Prompts
      BY <1>5, CountTypes DEF ChatPermissionRespond, ChatTypeOK
    <2> QED
      BY <1>5, <2>1, <2>2 DEF ChatPermissionRespond, ChatTypeOK
  <1>6. CASE SendWrites
    <2>1. cmd \in Command /\ cmd.op = "send"
      BY <1>6 DEF SendWrites, ChatTypeOK
    <2>2. cmd' \in Command \cup {Nothing}
      BY <1>6, <2>1, CommandTypes DEF SendWrites
    <2>3. stdin' \in [Chats -> Seq(Lines)]
      BY <1>6, <2>1, LineTypes, OneLine, WritesQueue, CommandTypes DEF SendWrites, ChatTypeOK
    <2>4. transcript' \in [Chats -> [user : BOOLEAN, replies : Nat]]
      BY <1>6, <2>1, CommandTypes, TranscriptTypes DEF SendWrites
    <2> QED
      BY <1>6, <2>1, <2>2, <2>3, <2>4 DEF SendWrites, ChatTypeOK
  <1>7. CASE CancelInterrupts
    <2>1. cmd.chat \in Chats
      BY <1>7, CommandTypes DEF CancelInterrupts, ChatTypeOK
    <2>2. stdin' \in [Chats -> Seq(Lines)]
      BY <1>7, <2>1, LineTypes, OneLine, WritesQueue DEF CancelInterrupts
    <2> QED
      BY <1>7, <2>2 DEF CancelInterrupts, ChatTypeOK
  <1>8. CASE RespondWrites
    <2>1. cmd \in Command /\ cmd.op = "respond" /\ cmd.chat \in Chats /\ cmd.prompt \in Prompts
          /\ cmd.allow \in BOOLEAN
      BY <1>8, CommandTypes DEF RespondWrites, ChatTypeOK
    <2>2. cmd' \in Command \cup {Nothing}
      BY <1>8, <2>1, CommandTypes DEF RespondWrites
    <2>3. stdin' \in [Chats -> Seq(Lines)]
      BY <1>8, <2>1, LineTypes, OneLine, WritesQueue DEF RespondWrites, ChatTypeOK
    <2>4. pending' \in [Chats -> 0..LastPrompt]
      <3>1. cmd.prompt \in 0..LastPrompt
        BY <2>1 DEF Prompts
      <3> QED
        BY <1>8, <3>1 DEF RespondWrites, ChatTypeOK
    <2> QED
      BY <1>8, <2>2, <2>3, <2>4 DEF RespondWrites, ChatTypeOK
  <1>9. CASE RespondRecords
    <2>1. cmd.prompt \in Prompts
      BY <1>9, CommandTypes DEF RespondRecords, ChatTypeOK
    <2>2. verdicts' \in [Prompts -> SUBSET {"allow", "deny", "cancelled", "closed"}]
      BY <1>9, <2>1 DEF RespondRecords, Verdict, ChatTypeOK
    <2> QED
      BY <1>9, <2>2 DEF RespondRecords, ChatTypeOK
  <1>10. CASE RestartReaps
    <2>1. reaped' \in [Chats -> BOOLEAN] /\ child' \in [Chats -> Living \cup {"none", "gone"}]
      BY <1>10 DEF RestartReaps, Killed, ChatTypeOK
    <2> QED
      BY <1>10, <2>1, CountTypes DEF RestartReaps, ChatTypeOK
  <1>11. CASE RestartSpawns
    <2>1. Spawns
      BY <1>11 DEF RestartSpawns
    <2> QED
      BY <1>11, <2>1, SpawnTypes DEF RestartSpawns, ChatTypeOK
  <1> QED
    BY <1>1, <1>2, <1>3, <1>4, <1>5, <1>6, <1>7, <1>8, <1>9, <1>10, <1>11 DEF Finishes

LEMMA WorkTypes ==
    ASSUME ChatTypeOK,
           \/ \E c \in Chats : Distills(c) \/ DistillFails(c)
           \/ Sweep \/ AppExits \/ AppStops \/ AppStarts
    PROVE  ChatTypeOK'
  <1> USE ChatAssumption, NothingAssumption DEF process, shared, disk, work, history, counts
  <1>1. ASSUME NEW c \in Chats, DistillReads(c)
        PROVE  ChatTypeOK'
    BY <1>1 DEF DistillReads, ChatTypeOK
  <1>2. ASSUME NEW c \in Chats, DistillWrites(c)
        PROVE  ChatTypeOK'
    BY <1>2 DEF DistillWrites, ChatTypeOK
  <1>3. ASSUME NEW c \in Chats, DistillFails(c)
        PROVE  ChatTypeOK'
    BY <1>3, CountTypes DEF DistillFails, ChatTypeOK
  <1>4. CASE Sweep
    <2>1. distill' \in [Chats -> {"no", "queued", "reading", "failed", "done"}]
      BY <1>4 DEF Sweep, ChatTypeOK
    <2> QED
      BY <1>4, <2>1 DEF Sweep, ChatTypeOK
  <1>5. CASE AppExits
    <2>1. CASE open = 0
      BY <1>5, <2>1, CountTypes DEF AppExits, ChatTypeOK
    <2>2. CASE open # 0
      <3>1. open \in Chats /\ DenyPending(open, "closed") /\ Writes(open, DenyLine(open))
        BY <1>5, <2>2 DEF AppExits, ChatTypeOK, Chats
      <3>2. reaped' = [reaped EXCEPT ![open] = TRUE] /\ child' = Killed(open) /\ open' = 0
        BY <1>5, <2>2 DEF AppExits
      <3>3. reaped' \in [Chats -> BOOLEAN] /\ child' \in [Chats -> Living \cup {"none", "gone"}]
        BY <3>2 DEF Killed, ChatTypeOK
      <3>4. /\ pending' \in [Chats -> 0..LastPrompt]
            /\ verdicts' \in [Prompts -> SUBSET {"allow", "deny", "cancelled", "closed"}]
            /\ stdin' \in [Chats -> Seq(Lines)]
        BY <3>1, DenyTypes
      <3>5. faults' \in 0..MaxFaults /\ open' \in 0..LastChat /\ up' = "exiting"
        BY <1>5, <3>2, CountTypes DEF AppExits
      <3>6. UNCHANGED <<started, cmd, asks, writer, alive, events, 
                        onReap, transcript, note, work, sweep, history, said, prompts>>
        BY <1>5 DEF AppExits
      <3> QED
        BY <3>3, <3>4, <3>5, <3>6 DEF ChatTypeOK
    <2> QED
      BY <2>1, <2>2
  <1>6. CASE AppStops
    <2>1. /\ stdin' \in [Chats -> Seq(Lines)] /\ events' \in [Chats -> Seq(Items)]
          /\ child' \in [Chats -> Living \cup {"none", "gone"}]
      BY <1>6 DEF AppStops
    <2>3. /\ writer' \in [Chats -> BOOLEAN] /\ alive' \in [Chats -> BOOLEAN]
          /\ reaped' \in [Chats -> BOOLEAN]
          /\ onReap' \in [Chats -> BOOLEAN]
      BY <1>6 DEF AppStops
    <2>4. /\ pending' \in [Chats -> 0..LastPrompt] /\ asks' \in [Chats -> 0..LastPrompt]
          /\ distill' \in [Chats -> {"no", "queued", "reading", "failed", "done"}]
      BY <1>6, CountTypes DEF AppStops
    <2>2. cut' \subseteq Chats
      BY <1>6 DEF AppStops, ChatTypeOK, Chats
    <2>5. faults' \in 0..MaxFaults /\ open' \in 0..LastChat /\ up' \in {"down", "up", "exiting"}
      BY <1>6, CountTypes DEF AppStops, ChatTypeOK
    <2>6. UNCHANGED <<started, disk, got, sweep, allowed, ran, said, prompts>> /\ cmd' = Nothing
      BY <1>6 DEF AppStops
    <2> QED
      BY <2>1, <2>2, <2>3, <2>4, <2>5, <2>6 DEF ChatTypeOK
  <1>7. CASE AppStarts
    BY <1>7 DEF AppStarts, ChatTypeOK
  <1> QED
    BY <1>1, <1>2, <1>3, <1>4, <1>5, <1>6, <1>7 DEF Distills

LEMMA TypeStep ==
    ASSUME ChatTypeOK, [Next]_vars
    PROVE  ChatTypeOK'
  <1>1. CASE UNCHANGED vars
    BY <1>1 DEF vars, process, shared, disk, work, history, counts, ChatTypeOK
  <1> QED
    BY <1>1, ChildTypes, PumpTypes, CommandStepTypes, WorkTypes DEF Next

LEMMA InitTypes ==
    ASSUME Init
    PROVE  ChatTypeOK
  <1>1. stdin \in [Chats -> Seq(Lines)] /\ events \in [Chats -> Seq(Items)]
    BY DEF Init
  <1> QED
    BY <1>1, ChatAssumption DEF Init, ChatTypeOK

\* The app, its children, their queues and the transcripts keep their types.
THEOREM ChatTyped == Spec => []ChatTypeOK
  BY InitTypes, TypeStep, PTL DEF Spec
-----------------------------------------------------------------------------
(* A conversation is over for good.                                        *)

\* Nothing more reaches the transcript.
Over(c) == child[c] = "none" /\ events[c] = <<>> /\ c <= started

\* The exit is the last item of a child that is gone, and comes from one that was.
Ends ==
    /\ \A c \in Chats : \A k \in 1..Len(events[c]) :
          events[c][k].kind = "exited" => k = Len(events[c]) /\ child[c] = "none"
    /\ \A c \in Chats : c > started => child[c] = "none" /\ events[c] = <<>>

\* A distill waits for the end, and so does the sweep; what it read is all there is.
Closed(c) == distill[c] \in {"queued", "reading", "done"} \/ note[c] # Nothing \/ c \in cut
Whole ==
    /\ \A c \in Chats : Closed(c) => Over(c)
    /\ \A c \in Chats : distill[c] = "reading" => got[c] = transcript[c].replies
    /\ \A c \in Chats : note[c] # Nothing => note[c] = transcript[c].replies

LEMMA QuietWhole ==
    ASSUME Ends, Whole, UNCHANGED <<started, child, events, transcript, distill, got, note, cut>>
    PROVE  Ends' /\ Whole'
  BY DEF Ends, Whole, Over, Closed

\* A chat that is not over changes its child or its items, and nothing was scheduled for it.
LEMMA RunningWhole ==
    ASSUME ChatTypeOK, Ends, Whole, NEW c \in Chats, ~Over(c), c <= started,
           UNCHANGED <<started, distill, got, note, cut>>,
           \A d \in Chats \ {c} : child'[d] = child[d] /\ events'[d] = events[d]
                                  /\ transcript'[d] = transcript[d],
           \A k \in 1..Len(events'[c]) :
                events'[c][k].kind = "exited" => k = Len(events'[c]) /\ child'[c] = "none"
    PROVE  Ends' /\ Whole'
  <1>1. ~Closed(c)
    BY DEF Whole
  <1>2. Ends'
    <2>1. ASSUME NEW d \in Chats, NEW k \in 1..Len(events'[d]), events'[d][k].kind = "exited"
          PROVE  k = Len(events'[d]) /\ child'[d] = "none"
      <3>1. CASE d = c
        BY <2>1, <3>1
      <3>2. CASE d # c
        BY <2>1, <3>2 DEF Ends
      <3> QED
        BY <3>1, <3>2
    <2>2. ASSUME NEW d \in Chats, d > started'
          PROVE  child'[d] = "none" /\ events'[d] = <<>>
      <3>1. d > started /\ d # c
        BY <2>2 DEF Chats, ChatTypeOK
      <3> QED
        BY <3>1 DEF Ends
    <2> QED
      BY <2>1, <2>2 DEF Ends
  <1>3. Whole'
    BY <1>1 DEF Whole, Over, Closed
  <1> QED
    BY <1>2, <1>3

\* A child that is there has not ended.
LEMMA ThereIsRunning ==
    ASSUME ChatTypeOK, Ends, NEW c \in Chats, child[c] # "none"
    PROVE  /\ ~Over(c) /\ c <= started
           /\ \A k \in 1..Len(events[c]) : events[c][k].kind # "exited"
  BY DEF Ends, Over, Chats, ChatTypeOK

LEMMA ChangeChildWhole ==
    ASSUME ChatTypeOK, Ends, Whole, NEW c \in Chats, child[c] # "none", NEW x,
           child' = [child EXCEPT ![c] = x],
           UNCHANGED <<started, events, transcript, distill, got, note, cut>>
    PROVE  Ends' /\ Whole'
  <1>1. \A d \in Chats \ {c} : child'[d] = child[d] /\ events'[d] = events[d]
                               /\ transcript'[d] = transcript[d]
    BY DEF ChatTypeOK
  <1>2. \A k \in 1..Len(events'[c]) : events'[c][k].kind # "exited"
    BY ThereIsRunning
  <1> QED
    BY <1>1, <1>2, ThereIsRunning, RunningWhole

LEMMA EmitsWhole ==
    ASSUME ChatTypeOK, Ends, Whole, NEW c \in Chats, child[c] # "none", NEW item \in Items,
           Emits(c, item), \A d \in Chats \ {c} : child'[d] = child[d],
           item.kind = "exited" => child'[c] = "none",
           UNCHANGED <<started, transcript, distill, got, note, cut>>
    PROVE  Ends' /\ Whole'
  <1>1. \A d \in Chats \ {c} : child'[d] = child[d] /\ events'[d] = events[d]
                               /\ transcript'[d] = transcript[d]
    BY EmitsQueue
  <1>2. Len(events[c]) \in Nat
    BY LenProperties DEF ChatTypeOK
  <1>3. ASSUME NEW k \in 1..Len(events'[c]), events'[c][k].kind = "exited"
        PROVE  k = Len(events'[c]) /\ child'[c] = "none"
    <2>1. k \notin 1..Len(events[c])
      BY <1>3, EmitsQueue, ThereIsRunning
    <2>2. k = Len(events[c]) + 1 /\ k = Len(events'[c])
      BY <1>2, <1>3, <2>1, EmitsQueue
    <2> QED
      BY <1>3, <2>2, EmitsQueue
  <1> QED
    BY <1>1, <1>3, ThereIsRunning, RunningWhole

LEMMA TakenIsRunning ==
    ASSUME ChatTypeOK, Ends, NEW c \in Chats, NEW kind, Takes(c, kind)
    PROVE  /\ ~Over(c) /\ c <= started
           /\ kind = "exited" => events'[c] = <<>> /\ child[c] = "none"
  <1>1. events[c] # <<>>
    BY DEF Takes
  <1>2. ~Over(c) /\ c <= started
    BY <1>1 DEF Over, Ends, Chats, ChatTypeOK
  <1>3. ASSUME kind = "exited"
        PROVE  events'[c] = <<>> /\ child[c] = "none"
    <2>1. 1 \in 1..Len(events[c]) /\ events[c][1].kind = "exited"
      BY <1>3, TakesQueue
    <2>2. 1 = Len(events[c]) /\ child[c] = "none"
      BY <2>1 DEF Ends
    <2>3. events'[c] \in Seq(Items) /\ Len(events'[c]) = 0
      BY <2>2, TakesQueue
    <2> QED
      BY <2>2, <2>3, EmptySeq
  <1> QED
    BY <1>2, <1>3

LEMMA TakesWhole ==
    ASSUME ChatTypeOK, Ends, Whole, NEW c \in Chats, NEW kind, Takes(c, kind),
           \A d \in Chats \ {c} : transcript'[d] = transcript[d],
           UNCHANGED <<started, child, distill, got, note, cut>>
    PROVE  Ends' /\ Whole'
  <1>1. \A d \in Chats \ {c} : child'[d] = child[d] /\ events'[d] = events[d]
                               /\ transcript'[d] = transcript[d]
    BY TakesQueue
  <1>2. ASSUME NEW k \in 1..Len(events'[c]), events'[c][k].kind = "exited"
        PROVE  k = Len(events'[c]) /\ child'[c] = "none"
    <2>1. Len(events[c]) \in Nat /\ k + 1 \in 1..Len(events[c]) /\ events[c][k + 1].kind = "exited"
          /\ Len(events'[c]) = Len(events[c]) - 1
      BY <1>2, TakesQueue
    <2>2. k + 1 = Len(events[c]) /\ child[c] = "none"
      BY <2>1 DEF Ends
    <2> QED
      BY <1>2, <2>1, <2>2
  <1> QED
    BY <1>1, <1>2, TakenIsRunning, RunningWhole

LEMMA ChildWhole ==
    ASSUME ChatTypeOK, Ends, Whole, NEW c \in Chats, Child(c) \/ ChildDies(c) \/ Threads(c)
    PROVE  Ends' /\ Whole'
  <1> USE DEF process, shared, disk, work, history, counts
  <1>1. CASE ChildReplies(c)
    BY <1>1, ItemTypes, EmitsWhole DEF ChildReplies, TextItem
  <1>2. CASE ChildAsks(c)
    <2>1. AskItem(prompts + 1) \in Items /\ AskItem(prompts + 1).kind = "ask"
      <3>1. prompts + 1 \in Prompts
        BY <1>2, ChatAssumption DEF ChildAsks, Prompts, ChatTypeOK
      <3> QED
        BY <3>1, ItemTypes DEF AskItem
    <2>2. \A d \in Chats \ {c} : child'[d] = child[d]
      BY <1>2 DEF ChildAsks, ChatTypeOK
    <2> QED
      BY <1>2, <2>1, <2>2, EmitsWhole DEF ChildAsks
  <1>3. CASE ChildFinishes(c)
    <2>1. PICK failed \in BOOLEAN : Emits(c, ResultItem(failed))
      BY <1>3 DEF ChildFinishes
    <2>2. ResultItem(failed) \in Items /\ ResultItem(failed).kind = "result"
      BY ItemTypes DEF ResultItem
    <2>3. \A d \in Chats \ {c} : child'[d] = child[d]
      BY <1>3 DEF ChildFinishes, ChatTypeOK
    <2> QED
      BY <1>3, <2>1, <2>2, <2>3, EmitsWhole DEF ChildFinishes
  <1>4. CASE ChildReads(c)
    <2>1. child[c] # "none"
      BY <1>4 DEF ChildReads, Living
    <2>2. \A d \in Chats \ {c} : child'[d] = child[d]
      BY <1>4 DEF ChildReads, ChatTypeOK
    <2>3. child' = [child EXCEPT ![c] = child'[c]]
      BY <1>4 DEF ChildReads, ChatTypeOK
    <2>4. ResultItem(TRUE) \in Items /\ ResultItem(TRUE).kind = "result"
      BY ItemTypes DEF ResultItem
    <2>5. events' = events \/ Emits(c, ResultItem(TRUE))
      BY <1>4 DEF ChildReads
    <2>6. UNCHANGED <<started, transcript, distill, got, note, cut>>
      BY <1>4 DEF ChildReads
    <2> QED
      BY <2>1, <2>2, <2>3, <2>4, <2>5, <2>6, ChangeChildWhole, EmitsWhole
  <1>5. CASE ChildDies(c)
    BY <1>5, ChangeChildWhole DEF ChildDies, Living
  <1>6. CASE WriterStops(c)
    BY <1>6, QuietWhole DEF WriterStops
  <1>7. CASE WaiterReports(c)
    BY <1>7, QuietWhole DEF WaiterReports
  <1>8. CASE ReaderEnds(c)
    <2>1. child'[c] = "none" /\ \A d \in Chats \ {c} : child'[d] = child[d]
      BY <1>8 DEF ReaderEnds, ChatTypeOK
    <2> QED
      BY <1>8, <2>1, ItemTypes, EmitsWhole DEF ReaderEnds
  <1> QED
    BY <1>1, <1>2, <1>3, <1>4, <1>5, <1>6, <1>7, <1>8 DEF Child, Threads

LEMMA PumpWhole ==
    ASSUME ChatTypeOK, Ends, Whole, NEW c \in Chats, Pump(c)
    PROVE  Ends' /\ Whole'
  <1> USE DEF process, shared, disk, work, history, counts
  <1>1. CASE HandleText(c)
    <2>1. \A d \in Chats \ {c} : transcript'[d] = transcript[d]
      BY <1>1 DEF HandleText, ChatTypeOK
    <2> QED
      BY <1>1, <2>1, TakesWhole DEF HandleText
  <1>2. CASE HandlePermissionRequest(c)
    BY <1>2, TakesWhole DEF HandlePermissionRequest
  <1>3. CASE HandleTurnResult(c)
    BY <1>3, TakesWhole DEF HandleTurnResult
  <1>4. CASE HandleExit(c)
    <2>1. Takes(c, "exited") /\ UNCHANGED <<started, child, transcript, got, note, cut>>
      BY <1>4 DEF HandleExit
    <2>2. ~Over(c) /\ c <= started /\ events'[c] = <<>> /\ child[c] = "none"
      BY <2>1, TakenIsRunning
    <2>3. \A d \in Chats \ {c} : events'[d] = events[d] /\ distill'[d] = distill[d]
      BY <1>4, <2>1, TakesQueue DEF HandleExit, Schedule, ChatTypeOK
    <2>4. Over(c)' /\ \A d \in Chats \ {c} : Over(d)' <=> Over(d)
      BY <2>1, <2>2, <2>3 DEF Over
    <2>5. ~Closed(c)
      BY <2>2 DEF Whole
    <2>6. distill'[c] # "reading"
      BY <1>4, <2>5 DEF HandleExit, Schedule, ChatTypeOK, Closed
    <2>7. Whole'
      BY <2>1, <2>3, <2>4, <2>5, <2>6 DEF Whole, Closed
    <2>8. Ends'
      <3>1. Len(events'[c]) = 0
        BY <2>2
      <3> QED
        BY <2>1, <2>2, <2>3, <3>1 DEF Ends
    <2> QED
      BY <2>7, <2>8
  <1> QED
    BY <1>1, <1>2, <1>3, <1>4 DEF Pump

LEMMA SpawnWhole ==
    ASSUME ChatTypeOK, Ends, Whole, Spawns,
           UNCHANGED <<events, transcript, distill, got, note, cut>>
    PROVE  Ends' /\ Whole'
  <1>1. started \in Nat /\ started' = started + 1 /\ Chats \subseteq Nat
    BY DEF Spawns, ChatTypeOK, Chats
  <1>2. \A c \in Chats : c # started + 1 => child'[c] = child[c]
    BY DEF Spawns, ChatTypeOK
  <1>3. \A c \in Chats : Over(c) => Over(c)'
    BY <1>1, <1>2 DEF Over
  <1>4. Whole'
    BY <1>3 DEF Whole, Closed
  <1>5. \A c \in Chats : c > started => child[c] = "none" /\ events[c] = <<>>
    BY DEF Ends
  <1>6. \A c \in Chats : c > started' => child'[c] = "none" /\ events'[c] = <<>>
    BY <1>1, <1>2, <1>5
  <1>7. ASSUME NEW c \in Chats, NEW k \in 1..Len(events'[c]), events'[c][k].kind = "exited"
        PROVE  k = Len(events'[c]) /\ child'[c] = "none"
    <2>1. k = Len(events[c]) /\ child[c] = "none"
      BY <1>7 DEF Ends
    <2>2. c # started + 1
      <3>1. events[c] # <<>>
        BY <1>7
      <3> QED
        BY <1>1, <1>5, <3>1
    <2> QED
      BY <1>2, <2>1, <2>2
  <1> QED
    BY <1>4, <1>6, <1>7 DEF Ends

LEMMA KillWhole ==
    ASSUME ChatTypeOK, Ends, Whole, NEW c \in Chats, child' = Killed(c),
           UNCHANGED <<started, events, transcript, distill, got, note, cut>>
    PROVE  Ends' /\ Whole'
  <1>1. CASE child[c] \in Living
    <2>1. child[c] # "none" /\ child' = [child EXCEPT ![c] = "gone"]
      BY <1>1 DEF Living, Killed
    <2> QED
      BY <2>1, ChangeChildWhole
  <1>2. CASE child[c] \notin Living
    <2>1. child' = child
      BY <1>2 DEF Killed, ChatTypeOK
    <2> QED
      BY <2>1, QuietWhole
  <1> QED
    BY <1>1, <1>2

LEMMA CommandWhole ==
    ASSUME ChatTypeOK, Ends, Whole,
           \/ ChatOpen \/ ChatSend \/ ChatCancel \/ ChatRestart \/ Finishes
           \/ \E p \in Prompts, allow \in BOOLEAN : ChatPermissionRespond(p, allow)
    PROVE  Ends' /\ Whole'
  <1> USE DEF process, shared, disk, work, history, counts
  <1>1. CASE ChatOpen
    BY <1>1, SpawnWhole DEF ChatOpen
  <1>2. CASE ChatSend
    BY <1>2, QuietWhole DEF ChatSend
  <1>3. CASE ChatCancel
    BY <1>3, QuietWhole DEF ChatCancel
  <1>4. CASE ChatRestart
    BY <1>4, QuietWhole DEF ChatRestart
  <1>5. ASSUME NEW p \in Prompts, NEW allow \in BOOLEAN, ChatPermissionRespond(p, allow)
        PROVE  Ends' /\ Whole'
    BY <1>5, QuietWhole DEF ChatPermissionRespond
  <1>6. CASE SendWrites
    <2>1. \A c \in Chats : transcript'[c].replies = transcript[c].replies
      <3>1. transcript' = [transcript EXCEPT ![cmd.chat].user = TRUE]
        BY <1>6 DEF SendWrites
      <3>2. transcript \in [Chats -> [user : BOOLEAN, replies : Nat]]
        BY DEF ChatTypeOK
      <3> QED
        BY <3>1, <3>2
    <2> QED
      BY <1>6, <2>1 DEF SendWrites, Ends, Whole, Over, Closed
  <1>7. CASE CancelInterrupts
    BY <1>7, QuietWhole DEF CancelInterrupts
  <1>8. CASE RespondWrites
    BY <1>8, QuietWhole DEF RespondWrites
  <1>9. CASE RespondRecords
    BY <1>9, QuietWhole DEF RespondRecords
  <1>10. CASE RestartReaps
    <2>1. open \in Chats /\ child' = Killed(open)
      BY <1>10, CommandTypes DEF RestartReaps, ChatTypeOK
    <2> QED
      BY <1>10, <2>1, KillWhole DEF RestartReaps
  <1>11. CASE RestartSpawns
    BY <1>11, SpawnWhole DEF RestartSpawns
  <1> QED
    BY <1>1, <1>2, <1>3, <1>4, <1>5, <1>6, <1>7, <1>8, <1>9, <1>10, <1>11 DEF Finishes

LEMMA WorkWhole ==
    ASSUME ChatTypeOK, Ends, Whole,
           \/ \E c \in Chats : Distills(c) \/ DistillFails(c)
           \/ Sweep \/ AppExits \/ AppStops \/ AppStarts
    PROVE  Ends' /\ Whole'
  <1> USE DEF process, shared, disk, work, history, counts
  <1>1. ASSUME NEW c \in Chats, DistillReads(c)
        PROVE  Ends' /\ Whole'
    <2>1. Ends' /\ \A d \in Chats : Over(d)' <=> Over(d)
      BY <1>1 DEF DistillReads, Ends, Over
    <2>2. \A d \in Chats : Closed(d)' => Closed(d)
      BY <1>1 DEF DistillReads, Closed, ChatTypeOK
    <2>3. \A d \in Chats : distill'[d] = "reading" => got'[d] = transcript'[d].replies
      BY <1>1 DEF DistillReads, Whole, ChatTypeOK
    <2> QED
      BY <1>1, <2>1, <2>2, <2>3 DEF DistillReads, Whole
  <1>2. ASSUME NEW c \in Chats, DistillWrites(c)
        PROVE  Ends' /\ Whole'
    <2>1. Ends' /\ \A d \in Chats : Over(d)' <=> Over(d)
      BY <1>2 DEF DistillWrites, Ends, Over
    <2>2. \A d \in Chats : Closed(d)' => Closed(d)
      BY <1>2 DEF DistillWrites, Closed, ChatTypeOK
    <2>3. \A d \in Chats : note'[d] # Nothing => note'[d] = transcript'[d].replies
      BY <1>2 DEF DistillWrites, Whole, ChatTypeOK
    <2>4. \A d \in Chats : distill'[d] = "reading" => got'[d] = transcript'[d].replies
      BY <1>2 DEF DistillWrites, Whole, ChatTypeOK
    <2> QED
      BY <2>1, <2>2, <2>3, <2>4 DEF Whole
  <1>3. ASSUME NEW c \in Chats, DistillFails(c)
        PROVE  Ends' /\ Whole'
    BY <1>3 DEF DistillFails, ChatTypeOK, Ends, Whole, Over, Closed
  <1>4. CASE Sweep
    <2>1. Ends' /\ \A d \in Chats : Over(d)' <=> Over(d)
      BY <1>4 DEF Sweep, Ends, Over
    <2>2. \A d \in Chats : distill'[d] = distill[d] \/ (d \in cut /\ distill'[d] = "queued")
      BY <1>4 DEF Sweep
    <2>3. UNCHANGED <<transcript, got, note, cut>>
      BY <1>4 DEF Sweep
    <2> QED
      BY <2>1, <2>2, <2>3 DEF Whole, Closed
  <1>5. CASE AppExits
    <2>1. CASE open = 0
      BY <1>5, <2>1, QuietWhole DEF AppExits
    <2>2. CASE open # 0
      <3>1. open \in Chats /\ child' = Killed(open)
        BY <1>5, <2>2 DEF AppExits, ChatTypeOK, Chats
      <3> QED
        BY <1>5, <3>1, KillWhole DEF AppExits
    <2> QED
      BY <2>1, <2>2
  <1>6. CASE AppStops
    <2>1. /\ \A c \in Chats : child'[c] = "none" /\ events'[c] = <<>>
          /\ UNCHANGED <<started, transcript, got, note>> /\ cut' = 1..started
          /\ \A c \in Chats : distill'[c] = IF note[c] = Nothing THEN "no" ELSE "done"
      BY <1>6 DEF AppStops
    <2>2. Ends'
      BY <2>1 DEF Ends
    <2>3. \A c \in Chats : Closed(c)' => Over(c)'
      <3>1. \A c \in Chats : note[c] # Nothing => c <= started
        BY DEF Whole, Closed, Over
      <3>2. ASSUME NEW c \in Chats, Closed(c)'
            PROVE  c <= started
        <4>1. CASE c \in cut'
          BY <2>1, <4>1
        <4>2. CASE c \notin cut'
          <5>1. note[c] # Nothing
            BY <2>1, <3>2, <4>2 DEF Closed
          <5> QED
            BY <3>1, <5>1
        <4> QED
          BY <4>1, <4>2
      <3> QED
        BY <2>1, <3>2 DEF Over
    <2> QED
      BY <2>1, <2>2, <2>3 DEF Whole
  <1>7. CASE AppStarts
    BY <1>7, QuietWhole DEF AppStarts
  <1> QED
    BY <1>1, <1>2, <1>3, <1>4, <1>5, <1>6, <1>7 DEF Distills

\* The notes of an app that is launched and stopped at will never claim half a
\* conversation: every reply that reaches a transcript is in the note that claims it.
THEOREM NotesAreWhole == Spec => []NoteHasTheWholeChat
  <1> DEFINE Inv == ChatTypeOK /\ Ends /\ Whole
  <1>1. Init => Inv
    <2> SUFFICES ASSUME Init PROVE Inv
      OBVIOUS
    <2>1. ChatTypeOK
      BY InitTypes
    <2>2. Ends /\ Whole
      BY DEF Init, Ends, Whole, Closed
    <2> QED
      BY <2>1, <2>2
  <1>2. Inv /\ [Next]_vars => Inv'
    <2> SUFFICES ASSUME Inv, [Next]_vars PROVE Inv'
      OBVIOUS
    <2>1. ChatTypeOK'
      BY TypeStep
    <2>2. CASE UNCHANGED vars
      <3>1. Ends' /\ Whole'
        BY <2>2, QuietWhole DEF vars, process, disk, work, history
      <3> QED
        BY <2>1, <3>1
    <2>3. CASE Next
      <3>1. Ends' /\ Whole'
        BY <2>3, ChildWhole, PumpWhole, CommandWhole, WorkWhole DEF Next
      <3> QED
        BY <2>1, <3>1
    <2> QED
      BY <2>2, <2>3
  <1>3. Inv => NoteHasTheWholeChat
    BY DEF Whole, NoteHasTheWholeChat
  <1> QED
    BY <1>1, <1>2, <1>3, PTL DEF Spec
-----------------------------------------------------------------------------
(* A prompt is in one place at a time: asked, on a card, clicked or        *)
(* resolved.                                                               *)

IsAsk(item, p) == item.kind = "ask" /\ item.prompt = p
Asked == {p \in Prompts : \E c \in Chats : \E k \in 1..Len(events[c]) : IsAsk(events[c][k], p)}
Carded == {p \in Prompts : \E c \in Chats : pending[c] = p}
Clicked == {p \in Prompts : cmd # Nothing /\ cmd.op \in {"respond", "answered"} /\ cmd.prompt = p}

AsksOnce ==
    \A p \in Prompts, c, d \in Chats : \A k \in 1..Len(events[c]), l \in 1..Len(events[d]) :
        IsAsk(events[c][k], p) /\ IsAsk(events[d][l], p) => c = d /\ k = l
CardsOnce == \A p \in Prompts, c, d \in Chats : pending[c] = p /\ pending[d] = p => c = d

Places ==
    /\ AsksOnce /\ CardsOnce
    /\ Asked \cap Carded = {} /\ Asked \cap Clicked = {} /\ Carded \cap Clicked = {}
    /\ \A p \in Asked \cup Carded \cup Clicked : p <= prompts /\ verdicts[p] = {}
    /\ \A p \in Prompts : verdicts[p] # {} => p <= prompts /\ \E word : verdicts[p] = {word}

\* The prompts an answer on its way, or already read, says yes to.
AllowsPrompt(line, p) == line.kind = "answer" /\ line.allow /\ line.prompt = p
Allowing == {p \in Prompts : \E c \in Chats : \E k \in 1..Len(stdin[c]) : AllowsPrompt(stdin[c][k], p)}

\* What the user allowed has left its card for good.
Granted(p) ==
    /\ p \in allowed /\ p <= prompts
    /\ p \notin Asked /\ p \notin Carded
    /\ verdicts[p] \subseteq {"allow"}
    /\ p \in Clicked => cmd.op = "answered" /\ cmd.allow

Grants ==
    /\ \A p \in Allowing \cup ran : Granted(p)
    /\ \A p \in Clicked : cmd.allow => p \in allowed

PromptInv == Places /\ Grants

LEMMA EmitsAsked ==
    ASSUME ChatTypeOK, AsksOnce, NEW c \in Chats, NEW item \in Items, Emits(c, item),
           \A p \in Prompts : IsAsk(item, p) => p \notin Asked
    PROVE  /\ AsksOnce'
           /\ \A p \in Asked' : p \in Asked \/ IsAsk(item, p)
  <1>1. Len(events[c]) \in Nat
    BY LenProperties DEF ChatTypeOK
  <1>2. ASSUME NEW d \in Chats, NEW k \in 1..Len(events'[d]), NEW p \in Prompts, IsAsk(events'[d][k], p)
        PROVE  \/ k \in 1..Len(events[d]) /\ IsAsk(events[d][k], p)
               \/ d = c /\ k = Len(events[c]) + 1 /\ IsAsk(item, p)
    <2>1. CASE d # c
      BY <1>2, <2>1, EmitsQueue
    <2>2. CASE d = c
      BY <1>1, <1>2, <2>2, EmitsQueue
    <2> QED
      BY <2>1, <2>2
  <1>3. \A d \in Chats, p \in Prompts : \A k \in 1..Len(events[d]) : IsAsk(events[d][k], p) => p \in Asked
    BY DEF Asked
  <1>4. \A p \in Asked' : p \in Asked \/ IsAsk(item, p)
    BY <1>2, <1>3 DEF Asked
  <1>5. ASSUME NEW p \in Prompts, NEW d \in Chats, NEW e \in Chats,
               NEW k \in 1..Len(events'[d]), NEW l \in 1..Len(events'[e]),
               IsAsk(events'[d][k], p), IsAsk(events'[e][l], p)
        PROVE  d = e /\ k = l
    <2>1. CASE IsAsk(item, p)
      BY <1>2, <1>3, <1>5, <2>1
    <2>2. CASE ~IsAsk(item, p)
      BY <1>2, <1>5, <2>2 DEF AsksOnce
    <2> QED
      BY <2>1, <2>2
  <1> QED
    BY <1>4, <1>5 DEF AsksOnce

LEMMA TakesAsked ==
    ASSUME ChatTypeOK, AsksOnce, NEW c \in Chats, NEW kind, Takes(c, kind)
    PROVE  /\ AsksOnce' /\ Asked' \subseteq Asked
           /\ kind = "ask" => Head(events[c]).prompt \in Asked \ Asked'
  <1>1. /\ Len(events[c]) \in Nat \ {0} /\ Len(events'[c]) = Len(events[c]) - 1
        /\ 1 \in 1..Len(events[c])
    BY TakesQueue
  <1> DEFINE was(d, k) == IF d = c THEN k + 1 ELSE k
  <1>2. ASSUME NEW d \in Chats, NEW k \in 1..Len(events'[d])
        PROVE  /\ was(d, k) \in 1..Len(events[d]) /\ events'[d][k] = events[d][was(d, k)]
               /\ d = c => was(d, k) # 1
    <2>1. CASE d # c
      BY <1>2, <2>1, TakesQueue
    <2>2. CASE d = c
      BY <1>1, <1>2, <2>2, TakesQueue
    <2> QED
      BY <2>1, <2>2
  <1> HIDE DEF was
  <1>3. Asked' \subseteq Asked
    BY <1>2 DEF Asked
  <1>4. ASSUME NEW p \in Prompts, NEW d \in Chats, NEW e \in Chats,
               NEW k \in 1..Len(events'[d]), NEW l \in 1..Len(events'[e]),
               IsAsk(events'[d][k], p), IsAsk(events'[e][l], p)
        PROVE  d = e /\ k = l
    <2>1. /\ was(d, k) \in 1..Len(events[d]) /\ IsAsk(events[d][was(d, k)], p)
          /\ was(e, l) \in 1..Len(events[e]) /\ IsAsk(events[e][was(e, l)], p)
      BY <1>2, <1>4
    <2>2. d = e /\ was(d, k) = was(e, l)
      BY <2>1 DEF AsksOnce
    <2> QED
      BY <2>2 DEF was
  <1>5. ASSUME kind = "ask"
        PROVE  Head(events[c]).prompt \in Asked \ Asked'
    <2> DEFINE p == Head(events[c]).prompt
    <2>1. p \in Prompts /\ IsAsk(events[c][1], p)
      BY <1>5, TakesQueue, ItemTypes DEF IsAsk
    <2>2. p \in Asked
      BY <1>1, <2>1 DEF Asked
    <2>3. ASSUME NEW d \in Chats, NEW k \in 1..Len(events'[d]), IsAsk(events'[d][k], p)
          PROVE  FALSE
      <3>0. was(d, k) \in 1..Len(events[d]) /\ IsAsk(events[d][was(d, k)], p)
        BY <1>2, <2>3
      <3>1. d = c /\ was(d, k) = 1
        BY <1>1, <2>1, <3>0 DEF AsksOnce
      <3> QED
        BY <1>2, <3>1
    <2>4. p \notin Asked'
      BY <2>3 DEF Asked
    <2> QED
      BY <2>2, <2>4
  <1> QED
    BY <1>3, <1>4, <1>5 DEF AsksOnce

\* Nothing moves but forward, and nothing new is allowed.
LEMMA QuietPrompts ==
    ASSUME PromptInv, AsksOnce', Asked' \subseteq Asked, UNCHANGED <<pending, verdicts, allowed, prompts>>,
           UNCHANGED cmd \/ Clicked' = {}, (Allowing \cup ran)' \subseteq Allowing \cup ran
    PROVE  PromptInv'
  <1>1. CardsOnce' /\ Carded' = Carded
    BY DEF PromptInv, Places, CardsOnce, Carded
  <1>2. Clicked' = {} \/ (Clicked' = Clicked /\ cmd' = cmd)
    BY DEF Clicked
  <1>3. Places'
    BY <1>1, <1>2 DEF PromptInv, Places
  <1>4. Grants'
    BY <1>1, <1>2 DEF PromptInv, Grants, Granted
  <1> QED
    BY <1>3, <1>4 DEF PromptInv

LEMMA SameAsks ==
    ASSUME UNCHANGED events
    PROVE  Asked' = Asked /\ (AsksOnce => AsksOnce')
  BY DEF Asked, AsksOnce

LEMMA SameAllowing ==
    ASSUME UNCHANGED stdin
    PROVE  Allowing' = Allowing
  BY DEF Allowing

LEMMA WritesAllowing ==
    ASSUME ChatTypeOK, NEW c \in Chats, NEW lines \in Seq(Lines), Writes(c, lines)
    PROVE  \A p \in Allowing' : p \in Allowing \/ \E l \in 1..Len(lines) : AllowsPrompt(lines[l], p)
  <1> SUFFICES ASSUME NEW p \in Allowing'
               PROVE  p \in Allowing \/ \E l \in 1..Len(lines) : AllowsPrompt(lines[l], p)
    OBVIOUS
  <1>1. p \in Prompts /\ \E d \in Chats : \E k \in 1..Len(stdin'[d]) : AllowsPrompt(stdin'[d][k], p)
    BY DEF Allowing
  <1>2. PICK d \in Chats : \E k \in 1..Len(stdin'[d]) : AllowsPrompt(stdin'[d][k], p)
    BY <1>1
  <1>3. CASE d # c
    BY <1>1, <1>2, <1>3, WritesQueue DEF Allowing
  <1>4. CASE d = c
    BY <1>1, <1>2, <1>4, WritesQueue DEF Allowing
  <1> QED
    BY <1>3, <1>4

LEMMA ChildPrompts ==
    ASSUME ChatTypeOK, PromptInv, NEW c \in Chats, Child(c) \/ ChildDies(c) \/ Threads(c)
    PROVE  PromptInv'
  <1> USE DEF process, shared, disk, work, history, counts
  <1>0. AsksOnce
    BY DEF PromptInv, Places
  <1>1. CASE ChildReplies(c)
    <2>1. \A p \in Prompts : ~IsAsk(TextItem, p)
      BY DEF IsAsk, TextItem
    <2>2. AsksOnce' /\ Asked' \subseteq Asked
      BY <1>0, <1>1, <2>1, ItemTypes, EmitsAsked DEF ChildReplies, Asked
    <2> QED
      BY <1>1, <2>2, QuietPrompts, SameAllowing DEF ChildReplies
  <1>2. CASE ChildAsks(c)
    <2> DEFINE q == prompts + 1
    <2>1. q \in Prompts /\ AskItem(q) \in Items /\ Emits(c, AskItem(q))
          /\ \A p \in Prompts : IsAsk(AskItem(q), p) <=> p = q
      <3>1. q \in Prompts
        BY <1>2, ChatAssumption DEF ChildAsks, Prompts, ChatTypeOK
      <3> QED
        BY <1>2, <3>1, ItemTypes DEF AskItem, ChildAsks, IsAsk
    <2>2. \A p \in Asked \cup Carded \cup Clicked \cup Allowing \cup ran : p <= prompts
      BY DEF PromptInv, Places, Grants, Granted
    <2>3. prompts \in Nat /\ ~(q <= prompts) /\ prompts' = q
      BY <1>2 DEF ChatTypeOK, ChildAsks
    <2>4. /\ q \notin Asked /\ q \notin Carded /\ q \notin Clicked
          /\ q \notin Allowing /\ q \notin ran
      BY <2>2, <2>3
    <2>5. AsksOnce' /\ \A p \in Asked' : p \in Asked \/ p = q
      <3>1. AsksOnce' /\ \A p \in Asked' : p \in Asked \/ IsAsk(AskItem(q), p)
        BY <1>0, <2>1, <2>4, EmitsAsked
      <3>2. Asked' \subseteq Prompts
        BY DEF Asked
      <3> QED
        BY <2>1, <3>1, <3>2
    <2>6. UNCHANGED <<pending, verdicts, allowed, ran, cmd, stdin>>
      BY <1>2 DEF ChildAsks
    <2>7. CardsOnce' /\ Carded' = Carded /\ Clicked' = Clicked /\ Allowing' = Allowing
      BY <2>6, SameAllowing DEF PromptInv, Places, CardsOnce, Carded, Clicked
    <2>8. verdicts[q] = {}
      BY <2>1, <2>3 DEF PromptInv, Places
    <2> HIDE DEF q
    <2>9. \A p \in Asked' \cup Carded' \cup Clicked' : p <= prompts' /\ verdicts'[p] = {}
      <3>1. ASSUME NEW p \in Asked \cup Carded \cup Clicked
            PROVE  p \in Nat /\ p <= prompts /\ verdicts[p] = {}
        BY <3>1 DEF PromptInv, Places, Asked, Carded, Clicked, Prompts
      <3>2. q <= prompts' /\ \A p \in Nat : p <= prompts => p <= prompts'
        BY <2>3 DEF q
      <3> QED
        BY <2>5, <2>6, <2>7, <2>8, <3>1, <3>2
    <2>10. \A p \in Prompts : verdicts'[p] # {} => p <= prompts' /\ \E word : verdicts'[p] = {word}
      <3>1. \A p \in Prompts : p <= prompts => p <= prompts'
        BY <2>3 DEF q, Prompts
      <3> QED
        BY <2>6, <3>1 DEF PromptInv, Places
    <2>11. /\ Asked' \cap Carded' = {} /\ Asked' \cap Clicked' = {} /\ Carded' \cap Clicked' = {}
      BY <2>4, <2>5, <2>7 DEF PromptInv, Places
    <2>12. ASSUME NEW p \in Allowing \cup ran
           PROVE  Granted(p)'
      <3>1. Granted(p) /\ p # q /\ p \in Nat
        <4>1. Granted(p)
          BY <2>12 DEF PromptInv, Grants
        <4>2. p \in Prompts
          BY <2>12 DEF Allowing, ChatTypeOK
        <4> QED
          BY <2>4, <2>12, <4>1, <4>2 DEF Prompts
      <3>2. p <= prompts'
        BY <2>3, <3>1 DEF q, Granted
      <3> QED
        BY <2>5, <2>6, <2>7, <3>1, <3>2 DEF Granted
    <2>13. Grants'
      BY <2>6, <2>7, <2>12 DEF PromptInv, Grants
    <2> QED
      BY <2>5, <2>7, <2>9, <2>10, <2>11, <2>13 DEF PromptInv, Places
  <1>3. CASE ChildFinishes(c)
    <2>1. PICK failed \in BOOLEAN : Emits(c, ResultItem(failed))
      BY <1>3 DEF ChildFinishes
    <2>2. \A p \in Prompts : ~IsAsk(ResultItem(failed), p)
      BY DEF IsAsk, ResultItem
    <2>3. AsksOnce' /\ Asked' \subseteq Asked
      BY <1>0, <2>1, <2>2, ItemTypes, EmitsAsked DEF Asked
    <2> QED
      BY <1>3, <2>3, QuietPrompts, SameAllowing DEF ChildFinishes
  <1>4. CASE ChildReads(c)
    <2>1. UNCHANGED <<pending, verdicts, allowed, prompts, cmd>> /\ stdin[c] # <<>>
          /\ stdin' = [stdin EXCEPT ![c] = Tail(@)]
      BY <1>4 DEF ChildReads
    <2>2. \A p \in Prompts : ~IsAsk(ResultItem(TRUE), p)
      BY DEF IsAsk, ResultItem
    <2>3. events' = events \/ Emits(c, ResultItem(TRUE))
      BY <1>4 DEF ChildReads
    <2>4. AsksOnce' /\ Asked' \subseteq Asked
      BY <1>0, <2>2, <2>3, ItemTypes, EmitsAsked, SameAsks DEF Asked
    <2>5. ASSUME NEW p \in Allowing'
          PROVE  p \in Allowing
      <3>1. p \in Prompts /\ \E d \in Chats : \E k \in 1..Len(stdin'[d]) : AllowsPrompt(stdin'[d][k], p)
        BY <2>5 DEF Allowing
      <3>2. PICK d \in Chats : \E k \in 1..Len(stdin'[d]) : AllowsPrompt(stdin'[d][k], p)
        BY <3>1
      <3>3. \E k \in 1..Len(stdin[d]) : AllowsPrompt(stdin[d][k], p)
        <4>1. CASE d # c
          BY <2>1, <3>2, <4>1, ReadsQueue
        <4>2. CASE d = c
          BY <2>1, <3>2, <4>2, ReadsQueue
        <4> QED
          BY <4>1, <4>2
      <3> QED
        BY <3>1, <3>3 DEF Allowing
    <2>6. \/ ran' = ran
          \/ /\ Head(stdin[c]).kind = "answer" /\ Head(stdin[c]).allow
             /\ ran' = ran \cup {Head(stdin[c]).prompt}
      BY <1>4 DEF ChildReads
    <2>7. ran' \subseteq Allowing \cup ran
      <3>1. CASE ran' = ran
        BY <3>1
      <3>2. CASE Head(stdin[c]).kind = "answer" /\ Head(stdin[c]).allow
                 /\ ran' = ran \cup {Head(stdin[c]).prompt}
        <4> DEFINE p == Head(stdin[c]).prompt
        <4>1. p \in Prompts /\ AllowsPrompt(stdin[c][1], p) /\ 1 \in 1..Len(stdin[c])
          BY <2>1, <3>2, ReadsQueue, LineTypes DEF AllowsPrompt
        <4>2. p \in Allowing
          BY <4>1 DEF Allowing
        <4> QED
          BY <3>2, <4>2
      <3> QED
        BY <2>6, <3>1, <3>2
    <2> QED
      BY <2>1, <2>4, <2>5, <2>7, QuietPrompts
  <1>5. CASE ChildDies(c)
    BY <1>0, <1>5, QuietPrompts, SameAsks, SameAllowing DEF ChildDies
  <1>6. CASE WriterStops(c)
    BY <1>0, <1>6, QuietPrompts, SameAsks, SameAllowing DEF WriterStops
  <1>7. CASE WaiterReports(c)
    BY <1>0, <1>7, QuietPrompts, SameAsks, SameAllowing DEF WaiterReports
  <1>8. CASE ReaderEnds(c)
    <2>1. \A p \in Prompts : ~IsAsk(ExitItem, p)
      BY DEF IsAsk, ExitItem
    <2>2. AsksOnce' /\ Asked' \subseteq Asked
      BY <1>0, <1>8, <2>1, ItemTypes, EmitsAsked DEF ReaderEnds, Asked
    <2> QED
      BY <1>8, <2>2, QuietPrompts, SameAllowing DEF ReaderEnds
  <1> QED
    BY <1>1, <1>2, <1>3, <1>4, <1>5, <1>6, <1>7, <1>8 DEF Child, Threads

\* A card resolved without an answer of the user's.
LEMMA ResolvesCard ==
    ASSUME ChatTypeOK, PromptInv, NEW c \in Chats, NEW word,
           pending' = [pending EXCEPT ![c] = 0],
           IF pending[c] # 0 THEN Verdict(pending[c], word) ELSE UNCHANGED verdicts,
           AsksOnce', Asked' \subseteq Asked, UNCHANGED <<allowed, prompts>>,
           UNCHANGED cmd \/ Clicked' = {}, (Allowing \cup ran)' \subseteq Allowing \cup ran
    PROVE  PromptInv'
  <1>1. Carded' \subseteq Carded /\ pending[c] \notin Carded' /\ CardsOnce'
    BY DEF PromptInv, Places, CardsOnce, Carded, ChatTypeOK, Prompts
  <1>2. Clicked' = {} \/ (Clicked' = Clicked /\ cmd' = cmd)
    BY DEF Clicked
  <1>3. CASE pending[c] = 0
    <2>1. verdicts' = verdicts
      BY <1>3
    <2>2. Places'
      BY <1>1, <1>2, <2>1 DEF PromptInv, Places
    <2>3. Grants'
      BY <1>1, <1>2, <2>1 DEF PromptInv, Grants, Granted
    <2> QED
      BY <2>2, <2>3 DEF PromptInv
  <1>4. CASE pending[c] # 0
    <2> DEFINE q == pending[c]
    <2>1. q \in Prompts /\ q \in Carded
      BY <1>4 DEF ChatTypeOK, Prompts, Carded
    <2>2. verdicts[q] = {} /\ q <= prompts /\ q \notin Asked /\ q \notin Clicked
      BY <2>1 DEF PromptInv, Places
    <2>3. verdicts'[q] = {word} /\ \A p \in Prompts \ {q} : verdicts'[p] = verdicts[p]
      BY <1>4, <2>1, <2>2 DEF Verdict, ChatTypeOK
    <2>4. q \notin Asked' /\ q \notin Carded' /\ q \notin Clicked'
      BY <1>1, <1>2, <2>2
    <2>5. q \notin Allowing \cup ran
      BY <2>1 DEF PromptInv, Grants, Granted
    <2>6. Asked' \subseteq Prompts /\ Carded' \subseteq Prompts /\ Clicked' \subseteq Prompts
          /\ Allowing \subseteq Prompts /\ ran \subseteq Prompts
      BY DEF Asked, Carded, Clicked, Allowing, ChatTypeOK
    <2> HIDE DEF q
    <2>7. \A p \in Asked' \cup Carded' \cup Clicked' : p <= prompts' /\ verdicts'[p] = {}
      BY <1>1, <1>2, <2>3, <2>4, <2>6 DEF PromptInv, Places
    <2>8. \A p \in Prompts : verdicts'[p] # {} => p <= prompts' /\ \E w : verdicts'[p] = {w}
      BY <2>2, <2>3 DEF PromptInv, Places
    <2>9. Places'
      BY <1>1, <1>2, <2>7, <2>8 DEF PromptInv, Places
    <2>10. Grants'
      BY <1>1, <1>2, <2>3, <2>5, <2>6 DEF PromptInv, Grants, Granted
    <2> QED
      BY <2>9, <2>10 DEF PromptInv
  <1> QED
    BY <1>3, <1>4

LEMMA PumpPrompts ==
    ASSUME ChatTypeOK, PromptInv, NEW c \in Chats, Pump(c)
    PROVE  PromptInv'
  <1> USE DEF process, shared, disk, work, history, counts
  <1>0. AsksOnce
    BY DEF PromptInv, Places
  <1>1. CASE HandleText(c)
    <2>1. AsksOnce' /\ Asked' \subseteq Asked
      BY <1>0, <1>1, TakesAsked DEF HandleText
    <2> QED
      BY <1>1, <2>1, QuietPrompts, SameAllowing DEF HandleText
  <1>2. CASE HandlePermissionRequest(c)
    <2> DEFINE q == Head(events[c]).prompt
    <2>1. AsksOnce' /\ Asked' \subseteq Asked /\ q \in Asked \ Asked'
      BY <1>0, <1>2, TakesAsked DEF HandlePermissionRequest
    <2>2. pending' = [pending EXCEPT ![c] = q] /\ UNCHANGED <<cmd, verdicts, allowed, ran, stdin, prompts>>
      BY <1>2 DEF HandlePermissionRequest
    <2>3. q \in Prompts /\ q \notin Carded /\ q \notin Clicked /\ q \notin Allowing \cup ran
          /\ q <= prompts /\ verdicts[q] = {}
      BY <2>1 DEF Asked, PromptInv, Places, Grants, Granted
    <2> HIDE DEF q
    <2>4. \A p \in Carded' : p \in Carded \/ p = q
      BY <2>2 DEF Carded, ChatTypeOK
    <2>5. CardsOnce'
      BY <2>2, <2>3 DEF PromptInv, Places, CardsOnce, Carded, ChatTypeOK
    <2>6. Clicked' = Clicked /\ Allowing' = Allowing
      BY <2>2, SameAllowing DEF Clicked
    <2>7. Places'
      BY <2>1, <2>2, <2>3, <2>4, <2>5, <2>6 DEF PromptInv, Places
    <2>8. Grants'
      BY <2>1, <2>2, <2>3, <2>4, <2>6 DEF PromptInv, Grants, Granted
    <2> QED
      BY <2>7, <2>8 DEF PromptInv
  <1>3. CASE HandleTurnResult(c)
    <2>1. AsksOnce' /\ Asked' \subseteq Asked
      BY <1>0, <1>3, TakesAsked DEF HandleTurnResult
    <2> QED
      BY <1>3, <2>1, QuietPrompts, SameAllowing DEF HandleTurnResult
  <1>4. CASE HandleExit(c)
    <2>1. AsksOnce' /\ Asked' \subseteq Asked
      BY <1>0, <1>4, TakesAsked DEF HandleExit
    <2> QED
      BY <1>4, <2>1, ResolvesCard, SameAllowing DEF HandleExit
  <1> QED
    BY <1>1, <1>2, <1>3, <1>4 DEF Pump

\* A command that closes the open card tells the child no.
LEMMA DenyPrompts ==
    ASSUME ChatTypeOK, PromptInv, NEW c \in Chats, NEW word, DenyPending(c, word),
           Writes(c, DenyLine(c)), UNCHANGED <<events, allowed, ran, prompts>>,
           UNCHANGED cmd \/ Clicked' = {}
    PROVE  PromptInv'
  <1>1. AsksOnce' /\ Asked' \subseteq Asked
    BY SameAsks DEF PromptInv, Places
  <1>2. Allowing' \subseteq Allowing
    BY WritesAllowing, DenyLineType DEF AllowsPrompt
  <1> QED
    BY <1>1, <1>2, ResolvesCard DEF DenyPending

LEMMA CommandPrompts ==
    ASSUME ChatTypeOK, PromptInv,
           \/ ChatOpen \/ ChatSend \/ ChatCancel \/ ChatRestart \/ Finishes
           \/ \E p \in Prompts, allow \in BOOLEAN : ChatPermissionRespond(p, allow)
    PROVE  PromptInv'
  <1> USE DEF process, shared, disk, work, history, counts
  <1>0. AsksOnce
    BY DEF PromptInv, Places
  <1>1. CASE ChatOpen
    BY <1>0, <1>1, QuietPrompts, SameAsks, SameAllowing DEF ChatOpen
  <1>2. CASE ChatSend
    <2>1. Clicked' = {}
      BY <1>2 DEF ChatSend, Clicked
    <2> QED
      BY <1>0, <1>2, <2>1, QuietPrompts, SameAsks, SameAllowing DEF ChatSend
  <1>3. CASE ChatCancel
    <2>1. Clicked' = {} /\ open \in Chats
      BY <1>3 DEF ChatCancel, Clicked, ChatTypeOK, Chats
    <2> QED
      BY <1>3, <2>1, DenyPrompts DEF ChatCancel
  <1>4. CASE ChatRestart
    <2>1. Clicked' = {} /\ open \in Chats
      BY <1>4 DEF ChatRestart, Clicked, ChatTypeOK, Chats
    <2> QED
      BY <1>4, <2>1, DenyPrompts DEF ChatRestart
  <1>5. ASSUME NEW q \in Prompts, NEW allow \in BOOLEAN, ChatPermissionRespond(q, allow)
        PROVE  PromptInv'
    <2>1. /\ open \in Chats /\ pending[open] = q /\ pending' = [pending EXCEPT ![open] = 0]
          /\ allowed' = IF allow THEN allowed \cup {q} ELSE allowed
          /\ cmd = Nothing /\ cmd' = [op |-> "respond", chat |-> open, prompt |-> q, allow |-> allow]
          /\ UNCHANGED <<events, stdin, verdicts, ran, prompts>>
      BY <1>5 DEF ChatPermissionRespond, Locks, ChatTypeOK, Chats
    <2>2. q \in Carded /\ q \notin Asked /\ q <= prompts /\ verdicts[q] = {} /\ q \notin Allowing \cup ran
      <3>1. q \in Carded
        BY <2>1 DEF Carded
      <3> QED
        BY <3>1 DEF PromptInv, Places, Grants, Granted
    <2>3. AsksOnce' /\ Asked' = Asked /\ Allowing' = Allowing
      BY <1>0, <2>1, SameAsks, SameAllowing
    <2>4. CardsOnce' /\ Carded' \subseteq Carded \ {q}
      <3>1. CardsOnce
        BY DEF PromptInv, Places
      <3>2. \A c \in Chats : pending'[c] = IF c = open THEN 0 ELSE pending[c]
        BY <2>1 DEF ChatTypeOK
      <3>3. 0 \notin Prompts
        BY DEF Prompts
      <3>4. CardsOnce'
        BY <3>1, <3>2, <3>3 DEF CardsOnce
      <3>5. Carded' \subseteq Carded \ {q}
        BY <2>1, <3>1, <3>2, <3>3 DEF CardsOnce, Carded
      <3> QED
        BY <3>4, <3>5
    <2>5. Clicked' = {q}
      <3>1. cmd' # Nothing
        BY <2>1, CommandTypes, NothingAssumption
      <3> QED
        BY <2>1, <3>1 DEF Clicked
    <2>6. Places'
      <3>1. Places
        BY DEF PromptInv
      <3>2. Asked' \cap Carded' = {} /\ Asked' \cap Clicked' = {} /\ Carded' \cap Clicked' = {}
        BY <2>2, <2>3, <2>4, <2>5, <3>1 DEF Places
      <3>3. Asked' \cup Carded' \cup Clicked' \subseteq Asked \cup Carded \cup Clicked
        BY <2>2, <2>3, <2>4, <2>5
      <3> QED
        BY <2>1, <2>3, <2>4, <3>1, <3>2, <3>3 DEF Places
    <2>7. Grants'
      BY <2>1, <2>2, <2>3, <2>4, <2>5 DEF PromptInv, Grants, Granted
    <2> QED
      BY <2>6, <2>7 DEF PromptInv
  <1>6. CASE SendWrites
    <2>1. Clicked' = {} /\ cmd.chat \in Chats
      <3>1. cmd \in Command /\ cmd.chat \in Chats
        BY <1>6, CommandTypes DEF SendWrites, ChatTypeOK
      <3>2. cmd' = Nothing
        BY <1>6 DEF SendWrites
      <3> QED
        BY <3>1, <3>2 DEF Clicked
    <2>2. Allowing' \subseteq Allowing
      <3>1. CASE writer[cmd.chat]
        <4>1. Writes(cmd.chat, <<UserLine>>) /\ <<UserLine>> \in Seq(Lines)
          BY <1>6, <3>1, LineTypes, OneLine DEF SendWrites
        <4>2. \A l \in 1..Len(<<UserLine>>), p \in Prompts : ~AllowsPrompt(<<UserLine>>[l], p)
          BY DEF AllowsPrompt, UserLine
        <4> QED
          BY <2>1, <4>1, <4>2, WritesAllowing DEF Allowing
      <3>2. CASE ~writer[cmd.chat]
        BY <1>6, <3>2, SameAllowing DEF SendWrites
      <3> QED
        BY <3>1, <3>2
    <2> QED
      BY <1>0, <1>6, <2>1, <2>2, QuietPrompts, SameAsks DEF SendWrites
  <1>7. CASE CancelInterrupts
    <2>1. Clicked' = {} /\ cmd.chat \in Chats
      BY <1>7, CommandTypes DEF CancelInterrupts, Clicked, ChatTypeOK
    <2> DEFINE lines == IF writer[cmd.chat] THEN <<InterruptLine>> ELSE <<>>
    <2>2. lines \in Seq(Lines) /\ Writes(cmd.chat, lines)
      BY <1>7, LineTypes, OneLine DEF CancelInterrupts
    <2>3. \A l \in 1..Len(lines), p \in Prompts : ~AllowsPrompt(lines[l], p)
      BY DEF AllowsPrompt, InterruptLine
    <2> HIDE DEF lines
    <2>4. Allowing' \subseteq Allowing
      BY <2>1, <2>2, <2>3, WritesAllowing DEF Allowing
    <2> QED
      BY <1>0, <1>7, <2>1, <2>4, QuietPrompts, SameAsks DEF CancelInterrupts
  <1>8. CASE RespondWrites
    <2> DEFINE q == cmd.prompt
               line == AnswerLine(q, cmd.allow)
    <2>1. /\ cmd \in Command /\ cmd # Nothing /\ cmd.op = "respond" /\ cmd.chat \in Chats
          /\ q \in Prompts /\ cmd.allow \in BOOLEAN /\ line \in Lines
          /\ UNCHANGED <<events, verdicts, allowed, ran, prompts>>
      BY <1>8, CommandTypes, LineTypes DEF RespondWrites, ChatTypeOK
    <2>2. Clicked = {q}
      BY <2>1 DEF Clicked
    <2>3. /\ q \notin Asked /\ q \notin Carded /\ q <= prompts /\ verdicts[q] = {}
          /\ cmd.allow => q \in allowed
          /\ q \notin Allowing \cup ran
      BY <2>1, <2>2 DEF PromptInv, Places, Grants, Granted
    <2>4. AsksOnce' /\ Asked' = Asked
      BY <1>0, <2>1, SameAsks
    <2>5. CASE writer[cmd.chat]
      <3>1. Writes(cmd.chat, <<line>>) /\ cmd' = [cmd EXCEPT !.op = "answered"] /\ pending' = pending
        BY <1>8, <2>5 DEF RespondWrites
      <3>2. cmd' \in Command /\ cmd' # Nothing /\ cmd'.op = "answered" /\ cmd'.prompt = q /\ cmd'.allow = cmd.allow
        BY <2>1, <3>1, CommandTypes, NothingAssumption DEF Command
      <3>3. Clicked' = {q} /\ Carded' = Carded /\ CardsOnce'
        BY <2>1, <3>1, <3>2 DEF Clicked, Carded, CardsOnce, PromptInv, Places
      <3>4. \A l \in 1..Len(<<line>>), p \in Prompts : AllowsPrompt(<<line>>[l], p) => p = q /\ cmd.allow
        BY DEF AllowsPrompt, AnswerLine
      <3>5. <<line>> \in Seq(Lines)
        BY <2>1, OneLine
      <3> HIDE DEF line, q
      <3>6. \A p \in Allowing' : p \in Allowing \/ (p = q /\ cmd.allow)
        BY <2>1, <3>1, <3>4, <3>5, WritesAllowing DEF Allowing
      <3>7. Places'
        BY <2>1, <2>2, <2>3, <2>4, <3>3 DEF PromptInv, Places
      <3>8. Grants'
        BY <2>1, <2>2, <2>3, <2>4, <3>2, <3>3, <3>6 DEF PromptInv, Grants, Granted
      <3> QED
        BY <3>7, <3>8 DEF PromptInv
    <2>6. CASE ~writer[cmd.chat]
      <3>1. pending' = [pending EXCEPT ![cmd.chat] = q] /\ cmd' = Nothing /\ stdin' = stdin
        BY <1>8, <2>6 DEF RespondWrites
      <3>2. Clicked' = {} /\ Allowing' = Allowing
        BY <3>1, SameAllowing DEF Clicked
      <3> HIDE DEF line, q
      <3>3. \A p \in Carded' : p \in Carded \/ p = q
        BY <2>1, <3>1 DEF Carded, ChatTypeOK
      <3>4. CardsOnce'
        BY <2>1, <2>3, <3>1 DEF PromptInv, Places, CardsOnce, Carded, ChatTypeOK
      <3>5. Places'
        BY <2>1, <2>3, <2>4, <3>2, <3>3, <3>4 DEF PromptInv, Places
      <3>6. Grants'
        BY <2>1, <2>3, <2>4, <3>2, <3>3 DEF PromptInv, Grants, Granted
      <3> QED
        BY <3>5, <3>6 DEF PromptInv
    <2> QED
      BY <2>5, <2>6
  <1>9. CASE RespondRecords
    <2> DEFINE q == cmd.prompt
               word == IF cmd.allow THEN "allow" ELSE "deny"
    <2>1. /\ cmd # Nothing /\ cmd.op = "answered" /\ q \in Prompts
          /\ verdicts' = [verdicts EXCEPT ![q] = @ \cup {word}] /\ cmd' = Nothing
          /\ UNCHANGED <<events, pending, stdin, allowed, ran, prompts>>
      BY <1>9, CommandTypes DEF RespondRecords, ChatTypeOK, Verdict
    <2>2. Clicked = {q}
      BY <2>1 DEF Clicked
    <2>3. q \notin Asked /\ q \notin Carded /\ q <= prompts /\ verdicts[q] = {}
      BY <2>2 DEF PromptInv, Places
    <2>4. verdicts'[q] = {word} /\ \A p \in Prompts \ {q} : verdicts'[p] = verdicts[p]
      BY <2>1, <2>3 DEF ChatTypeOK
    <2>5. q \in Allowing \cup ran => word = "allow"
      BY <2>2 DEF PromptInv, Grants, Granted
    <2> HIDE DEF q, word
    <2>6. /\ AsksOnce' /\ Asked' = Asked /\ CardsOnce' /\ Carded' = Carded
          /\ Clicked' = {} /\ Allowing' = Allowing
      BY <1>0, <2>1, SameAsks, SameAllowing DEF Clicked, Carded, CardsOnce, PromptInv, Places
    <2>7. Asked \subseteq Prompts /\ Carded \subseteq Prompts /\ Allowing \subseteq Prompts
          /\ ran \subseteq Prompts
      BY DEF Asked, Carded, Allowing, ChatTypeOK
    <2>8. \A p \in Prompts : verdicts'[p] # {} => p <= prompts' /\ \E w : verdicts'[p] = {w}
      BY <2>1, <2>3, <2>4 DEF PromptInv, Places
    <2>9. \A p \in Asked \cup Carded : p <= prompts /\ verdicts'[p] = {}
      BY <2>3, <2>4, <2>7 DEF PromptInv, Places
    <2>10. Places'
      BY <2>1, <2>6, <2>8, <2>9 DEF PromptInv, Places
    <2>11. ASSUME NEW p \in Allowing \cup ran
           PROVE  Granted(p)'
      <3>1. Granted(p) /\ p \in Prompts
        BY <2>7, <2>11 DEF PromptInv, Grants
      <3>2. verdicts'[p] \subseteq {"allow"}
        BY <2>4, <2>5, <2>11, <3>1 DEF Granted
      <3> QED
        BY <2>1, <2>6, <3>1, <3>2 DEF Granted
    <2>12. Grants'
      BY <2>1, <2>6, <2>11 DEF Grants
    <2> QED
      BY <2>10, <2>12 DEF PromptInv
  <1>10. CASE RestartReaps
    BY <1>0, <1>10, QuietPrompts, SameAsks, SameAllowing DEF RestartReaps
  <1>11. CASE RestartSpawns
    <2>1. Clicked' = {}
      BY <1>11 DEF RestartSpawns, Clicked
    <2> QED
      BY <1>0, <1>11, <2>1, QuietPrompts, SameAsks, SameAllowing DEF RestartSpawns
  <1> QED
    BY <1>1, <1>2, <1>3, <1>4, <1>5, <1>6, <1>7, <1>8, <1>9, <1>10, <1>11 DEF Finishes

LEMMA WorkPrompts ==
    ASSUME ChatTypeOK, PromptInv,
           \/ \E c \in Chats : Distills(c) \/ DistillFails(c)
           \/ Sweep \/ AppExits \/ AppStops \/ AppStarts
    PROVE  PromptInv'
  <1> USE DEF process, shared, disk, work, history, counts
  <1>0. AsksOnce
    BY DEF PromptInv, Places
  <1>1. ASSUME UNCHANGED <<events, pending, cmd, stdin, verdicts, allowed, ran, prompts>>
        PROVE  PromptInv'
    BY <1>0, <1>1, QuietPrompts, SameAsks, SameAllowing
  <1>2. ASSUME NEW c \in Chats, Distills(c) \/ DistillFails(c)
        PROVE  PromptInv'
    BY <1>1, <1>2 DEF Distills, DistillReads, DistillWrites, DistillFails
  <1>3. CASE Sweep \/ AppStarts
    BY <1>1, <1>3 DEF Sweep, AppStarts
  <1>4. CASE AppExits
    <2>1. CASE open = 0
      BY <1>1, <1>4, <2>1 DEF AppExits
    <2>2. CASE open # 0
      <3>1. open \in Chats
        BY <2>2 DEF ChatTypeOK, Chats
      <3> QED
        BY <1>4, <2>2, <3>1, DenyPrompts DEF AppExits
    <2> QED
      BY <2>1, <2>2
  <1>5. CASE AppStops
    <2>1. /\ \A c \in Chats : events'[c] = <<>> /\ stdin'[c] = <<>> /\ pending'[c] = 0
          /\ cmd' = Nothing /\ UNCHANGED <<verdicts, allowed, ran, prompts>>
      BY <1>5 DEF AppStops
    <2>2. /\ Asked' = {} /\ Allowing' = {} /\ AsksOnce'
      BY <2>1 DEF Asked, Allowing, AsksOnce
    <2>3. Carded' = {} /\ CardsOnce' /\ Clicked' = {}
      BY <2>1 DEF Carded, CardsOnce, Clicked, Prompts
    <2>4. Places'
      BY <2>1, <2>2, <2>3 DEF PromptInv, Places
    <2>5. Grants'
      BY <2>1, <2>2, <2>3 DEF PromptInv, Grants, Granted
    <2> QED
      BY <2>4, <2>5 DEF PromptInv
  <1> QED
    BY <1>2, <1>3, <1>4, <1>5

\* However clicks, stops, restarts, exits and crashes cross, a tool runs only when
\* the user allowed that very prompt, and a prompt has one outcome at most.
THEOREM PromptsAnswered == Spec => []PromptsAreAnsweredOnce
  <1> DEFINE Inv == ChatTypeOK /\ PromptInv
  <1>1. Init => Inv
    <2> SUFFICES ASSUME Init PROVE Inv
      OBVIOUS
    <2>1. ChatTypeOK
      BY InitTypes
    <2>2. Asked = {} /\ AsksOnce /\ Allowing = {}
      BY DEF Init, Asked, AsksOnce, Allowing
    <2>3. Carded = {} /\ CardsOnce /\ Clicked = {}
      BY DEF Init, Carded, CardsOnce, Clicked, Prompts
    <2>4. ran = {} /\ \A p \in Prompts : verdicts[p] = {}
      BY DEF Init
    <2>5. PromptInv
      BY <2>2, <2>3, <2>4 DEF PromptInv, Places, Grants
    <2> QED
      BY <2>1, <2>5
  <1>2. Inv /\ [Next]_vars => Inv'
    <2> SUFFICES ASSUME Inv, [Next]_vars PROVE Inv'
      OBVIOUS
    <2>1. ChatTypeOK'
      BY TypeStep
    <2>2. CASE UNCHANGED vars
      <3>1. UNCHANGED <<events, pending, cmd, stdin, verdicts, allowed, ran, prompts>>
        BY <2>2 DEF vars, process, shared, disk, history, counts
      <3>2. PromptInv'
        BY <3>1, QuietPrompts, SameAsks, SameAllowing DEF PromptInv, Places
      <3> QED
        BY <2>1, <3>2
    <2>3. CASE Next
      <3>1. PromptInv'
        BY <2>3, ChildPrompts, PumpPrompts, CommandPrompts, WorkPrompts DEF Next
      <3> QED
        BY <2>1, <3>1
    <2> QED
      BY <2>2, <2>3
  <1>3. Inv => PromptsAreAnsweredOnce
    <2> SUFFICES ASSUME Inv PROVE PromptsAreAnsweredOnce
      OBVIOUS
    <2>1. ran \subseteq allowed /\ \A p \in ran : verdicts[p] \subseteq {"allow"}
      BY DEF PromptInv, Grants, Granted
    <2>2. ASSUME NEW p \in Prompts
          PROVE  Cardinality(verdicts[p]) <= 1
      <3>1. CASE verdicts[p] = {}
        BY <3>1, FS_EmptySet
      <3>2. CASE verdicts[p] # {}
        <4>1. PICK word : verdicts[p] = {word}
          BY <3>2 DEF PromptInv, Places
        <4>2. Cardinality({word}) = 1
          BY FS_Singleton
        <4> QED
          BY <4>1, <4>2
      <3> QED
        BY <3>1, <3>2
    <2> QED
      BY <2>1, <2>2 DEF PromptsAreAnsweredOnce
  <1> QED
    BY <1>1, <1>2, <1>3, PTL DEF Spec
=============================================================================
