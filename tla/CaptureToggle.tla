--------------------------- MODULE CaptureToggle ---------------------------
(***************************************************************************)
(* Starting and stopping a capture (src-tauri/src/capture_control.rs,      *)
(* capture_watchdog.rs, audio_cmds.rs; kodabi-audio/src/session.rs).       *)
(*                                                                         *)
(* Hotkey and tray presses run on threads of their own; the window's       *)
(* start_capture and stop_capture commands block on the same toggle lock;  *)
(* a watchdog thread re-derives the truth and replays a stranded press.    *)
(* Each thread is a program counter.  Steps that only touch what the lock  *)
(* protects are merged with their neighbours; every access to the pending  *)
(* flag, which presses set without the lock, keeps its place.              *)
(***************************************************************************)
EXTENDS Naturals, FiniteSets

CONSTANTS
    Pressers,      \* threads of hotkey and tray presses
    Callers,       \* threads of the window's commands
    Watchdog,      \* the heartbeat thread
    Nobody,        \* the toggle lock is free
    Fragile,       \* the threads that may panic
    ConfirmTicks   \* DEGRADED_CONFIRM_TICKS

Threads == Pressers \cup Callers \cup {Watchdog}

ASSUME ThreadsAssumption ==
    /\ Pressers \cap Callers = {}
    /\ Watchdog \notin Pressers \cup Callers
    /\ Nobody \notin Threads
    /\ Fragile \subseteq Threads

ASSUME ConfirmAssumption == ConfirmTicks \in Nat \ {0}

Sources == {"loopback", "microphone"}

VARIABLES
    lock,         \* the holder of toggle_lock
    pending,      \* pending_toggle
    pc,           \* where each thread is
    how,          \* TogglePress: how each thread's pass began
    slot,         \* SourceHealth of each source
    negotiating,  \* the sources the running start still waits for
    draining,     \* the streams a stop has taken but not yet joined
    stash,        \* the in-flight session: at most one, under one of two names
    shown,        \* the phase of last_broadcast
    confirm,      \* consecutive_degraded
    consent,      \* consent_acknowledged, never withdrawn
    unheard       \* history: pressed while recording, not stopped since

vars == <<lock, pending, pc, how, slot, negotiating, draining, stash,
          shown, confirm, consent, unheard>>

devices == <<slot, negotiating, draining, stash>>

Phases == {"idle", "starting", "listening", "degraded"}
Inside == {"pass", "starting", "stopping", "stopped", "checking", "leaving"}
Places == Inside \cup {"rest", "missed", "retry", "wants_start", "wants_stop"}

CaptureTypeOK ==
    /\ lock \in Threads \cup {Nobody}
    /\ pending \in BOOLEAN
    /\ pc \in [Threads -> Places]
    /\ how \in [Threads -> {"direct", "coalesced"}]
    /\ slot \in [Sources -> {"off", "failed", "live", "stalled"}]
    /\ negotiating \subseteq Sources
    /\ draining \subseteq Sources
    /\ stash \in {{}, {1}, {2}}
    /\ shown \in Phases
    /\ confirm \in 0..(ConfirmTicks - 1)
    /\ consent \in BOOLEAN
    /\ unheard \in BOOLEAN

Init ==
    /\ lock = Nobody
    /\ pending = FALSE
    /\ pc = [t \in Threads |-> "rest"]
    /\ how = [t \in Threads |-> "direct"]
    /\ slot = [s \in Sources |-> "off"]
    /\ negotiating = {}
    /\ draining = {}
    /\ stash = {}
    /\ shown = "idle"
    /\ confirm = 0
    /\ consent \in BOOLEAN
    /\ unheard = FALSE

Installed(s) == slot[s] \in {"live", "stalled"}
Active == \E s \in Sources : Installed(s)
Live == {s \in Sources : slot[s] = "live"}

\* phase_of: what the sources' health amounts to.
Phase ==
    IF Live = Sources THEN "listening"
    ELSE IF Active THEN "degraded"
    ELSE "idle"

Goes(t, place) == pc' = [pc EXCEPT ![t] = place]

-----------------------------------------------------------------------------
(* What a start and a stop do, under the lock.                             *)

\* A fresh spill directory, or none if it cannot be created.
Spilled == IF stash = {1} THEN {2} ELSE {1}

\* A mutant of BeginStart: nothing is shown before the streams start.
UnannouncedStart(t) ==
    /\ stash' \in {stash, Spilled}
    /\ negotiating' = {s \in Sources : ~Installed(s)}
    /\ Goes(t, "starting")
    /\ UNCHANGED <<slot, draining, shown>>

\* A mutant of BeginStart: every start makes a spill directory.
SpillingAnew(t) ==
    /\ shown' = IF Active THEN shown ELSE "starting"
    /\ stash' \in {stash, Spilled}
    /\ negotiating' = {s \in Sources : ~Installed(s)}
    /\ Goes(t, "starting")
    /\ UNCHANGED <<slot, draining>>

\* A start over a running capture (a device rebuild) is not announced and
\* keeps the spill it has.
BeginStart(t) ==
    /\ shown' = IF Active THEN shown ELSE "starting"
    /\ IF Active THEN UNCHANGED stash ELSE stash' \in {stash, Spilled}
    /\ negotiating' = {s \in Sources : ~Installed(s)}
    /\ Goes(t, "starting")
    /\ UNCHANGED <<slot, draining>>

\* DualCapture::stop takes both slots, then joins the streams off its lock.
BeginStop(t) ==
    /\ slot' = [s \in Sources |-> "off"]
    /\ draining' = Live
    /\ Goes(t, "stopping")
    /\ UNCHANGED <<negotiating, stash, shown>>

\* One source's stream is up, or its failure is kept on its slot.
Negotiate(t, s) ==
    /\ pc[t] = "starting"
    /\ s \in negotiating
    /\ negotiating' = negotiating \ {s}
    /\ \E outcome \in {"live", "failed"} : slot' = [slot EXCEPT ![s] = outcome]
    /\ UNCHANGED <<lock, pending, pc, how, draining, stash, shown, confirm, consent, unheard>>

\* The streams are joined and the spill goes to transcription or is removed.
StreamsStopped(t) ==
    /\ pc[t] = "stopping"
    /\ draining' = {}
    /\ stash' = {}
    /\ Goes(t, "stopped")
    /\ UNCHANGED <<lock, pending, how, slot, negotiating, shown, confirm, consent, unheard>>

DoneBeforeJoining(t) ==
    \/ pc[t] = "starting" /\ negotiating = {}
    \/ pc[t] \in {"stopping", "stopped"}

ActionDone(t) ==
    \/ pc[t] = "starting" /\ negotiating = {}
    \/ pc[t] = "stopped"

\* The resulting truth is broadcast, whatever was intended.
Settle(t) ==
    /\ ActionDone(t)
    /\ shown' = Phase
    /\ Goes(t, IF t \in Callers THEN "leaving" ELSE "checking")
    /\ UNCHANGED <<lock, pending, how, devices, confirm, consent, unheard>>

Leave(t) ==
    /\ pc[t] = "leaving"
    /\ lock' = Nobody
    /\ Goes(t, "rest")
    /\ UNCHANGED <<pending, how, devices, shown, confirm, consent, unheard>>

\* The thread dies before its broadcast: the poisoned lock counts as free.
Panics(t) ==
    /\ ActionDone(t)
    /\ lock' = Nobody
    /\ Goes(t, "rest")
    /\ UNCHANGED <<pending, how, devices, shown, confirm, consent, unheard>>

-----------------------------------------------------------------------------
(* Presses: acquire_for_press, drain_pending_toggles, perform_one_toggle.  *)

Acquire(t, arrival) ==
    /\ lock' = t
    /\ how' = [how EXCEPT ![t] = arrival]
    /\ Goes(t, "pass")

Press(t) ==
    /\ pc[t] = "rest"
    /\ IF lock = Nobody
       THEN Acquire(t, "direct")
       ELSE /\ Goes(t, "missed")
            /\ how' = [how EXCEPT ![t] = "direct"]
            /\ UNCHANGED lock
    /\ unheard' = (unheard \/ Active)
    /\ UNCHANGED <<pending, devices, shown, confirm, consent>>

MarkPending(t) ==
    /\ pc[t] = "missed"
    /\ pending' = TRUE
    /\ Goes(t, "retry")
    /\ UNCHANGED <<lock, how, devices, shown, confirm, consent, unheard>>

Retry(t) ==
    /\ pc[t] = "retry"
    /\ IF lock = Nobody
       THEN Acquire(t, how[t])
       ELSE Goes(t, "rest") /\ UNCHANGED <<lock, how>>
    /\ UNCHANGED <<pending, devices, shown, confirm, consent, unheard>>

\* A pass clears the flag first, then decides by the true state (next_action).
Pass(t) ==
    /\ pc[t] = "pass"
    /\ pending' = FALSE
    /\ UNCHANGED <<lock, how, confirm, consent>>

PassStops(t) ==
    /\ Pass(t)
    /\ Active
    /\ BeginStop(t)
    /\ unheard' = FALSE

PassStarts(t) ==
    /\ Pass(t)
    /\ ~Active
    /\ how[t] # "coalesced"
    /\ consent
    /\ BeginStart(t)
    /\ UNCHANGED unheard

\* The nudge opens instead; nothing starts.
PassAsksConsent(t) ==
    /\ Pass(t)
    /\ ~Active
    /\ how[t] # "coalesced"
    /\ ~consent
    /\ shown' = Phase
    /\ Goes(t, "checking")
    /\ UNCHANGED <<devices, unheard>>

\* A replayed press with nothing to stop.
PassIgnored(t) ==
    /\ Pass(t)
    /\ ~Active
    /\ how[t] = "coalesced"
    /\ Goes(t, "checking")
    /\ UNCHANGED <<devices, shown, unheard>>

\* A mutant of Check: the flag is cleared, not replayed.
ForgetsMeanwhile(t) ==
    /\ pc[t] = "checking"
    /\ pending' = FALSE
    /\ Goes(t, "leaving")
    /\ UNCHANGED <<lock, how, devices, shown, confirm, consent, unheard>>

\* A press that landed meanwhile is replayed before the lock is released.
Check(t) ==
    /\ pc[t] = "checking"
    /\ IF pending
       THEN Goes(t, "pass") /\ how' = [how EXCEPT ![t] = "coalesced"]
       ELSE Goes(t, "leaving") /\ UNCHANGED how
    /\ UNCHANGED <<lock, pending, devices, shown, confirm, consent, unheard>>

-----------------------------------------------------------------------------
(* The window's commands: run_under_toggle_lock neither clears nor drains  *)
(* the pending flag.                                                       *)

\* start_capture reads the consent before it waits for the lock.
CallStart(t) ==
    /\ pc[t] = "rest"
    /\ consent
    /\ Goes(t, "wants_start")
    /\ UNCHANGED <<lock, pending, how, devices, shown, confirm, consent, unheard>>

CallStop(t) ==
    /\ pc[t] = "rest"
    /\ Goes(t, "wants_stop")
    /\ UNCHANGED <<lock, pending, how, devices, shown, confirm, consent, unheard>>

StartUnderLock(t) ==
    /\ pc[t] = "wants_start"
    /\ lock = Nobody
    /\ lock' = t
    /\ BeginStart(t)
    /\ UNCHANGED <<pending, how, confirm, consent, unheard>>

StopUnderLock(t) ==
    /\ pc[t] = "wants_stop"
    /\ lock = Nobody
    /\ lock' = t
    /\ BeginStop(t)
    /\ unheard' = FALSE
    /\ UNCHANGED <<pending, how, confirm, consent>>

-----------------------------------------------------------------------------
(* The watchdog's tick, and what changes on its own.                       *)

Entering(observed) == observed = "degraded" /\ shown # "degraded"

\* A mutant of Decide: a degraded observation is never confirmed.
NeverConfirms(observed) ==
    IF Entering(observed) THEN [shown |-> shown, confirm |-> 0]
    ELSE [shown |-> observed, confirm |-> 0]

\* A mutant of Decide: a start in progress is left alone.
LeavesStarting(observed) ==
    IF shown = "starting" THEN [shown |-> shown, confirm |-> 0]
    ELSE [shown |-> observed, confirm |-> 0]

\* DegradedDebounce::decide: only entering degraded waits for a second look.
Decide(observed) ==
    IF Entering(observed) /\ confirm + 1 < ConfirmTicks
    THEN [shown |-> shown, confirm |-> confirm + 1]
    ELSE [shown |-> observed, confirm |-> 0]

Tick ==
    /\ pc[Watchdog] = "rest"
    /\ lock = Nobody
    /\ lock' = Watchdog
    /\ shown' = Decide(Phase).shown
    /\ confirm' = Decide(Phase).confirm
    /\ Goes(Watchdog, "checking")
    /\ UNCHANGED <<pending, how, devices, consent, unheard>>

\* A toggle is mid-flight and will broadcast its own outcome.
TickSkipped ==
    /\ pc[Watchdog] = "rest"
    /\ lock # Nobody
    /\ confirm' = 0
    /\ UNCHANGED <<lock, pending, pc, how, devices, shown, consent, unheard>>

\* A device drops out, or its rebuild succeeds.
Stall(s) ==
    /\ slot[s] = "live"
    /\ slot' = [slot EXCEPT ![s] = "stalled"]
    /\ UNCHANGED <<lock, pending, pc, how, negotiating, draining, stash,
                   shown, confirm, consent, unheard>>

Recover(s) ==
    /\ slot[s] = "stalled"
    /\ slot' = [slot EXCEPT ![s] = "live"]
    /\ UNCHANGED <<lock, pending, pc, how, negotiating, draining, stash,
                   shown, confirm, consent, unheard>>

AcknowledgeConsent ==
    /\ consent' = TRUE
    /\ UNCHANGED <<lock, pending, pc, how, devices, shown, confirm, unheard>>

-----------------------------------------------------------------------------
\* What a thread does once it has begun.
Proceed(t) ==
    \/ MarkPending(t)
    \/ Retry(t)
    \/ PassStops(t)
    \/ PassStarts(t)
    \/ PassAsksConsent(t)
    \/ PassIgnored(t)
    \/ \E s \in Sources : Negotiate(t, s)
    \/ StreamsStopped(t)
    \/ Settle(t)
    \/ Check(t)
    \/ Leave(t)

Next ==
    \/ \E t \in Threads : Proceed(t)
    \/ \E t \in Fragile : Panics(t)
    \/ \E t \in Pressers : Press(t)
    \/ \E t \in Callers : CallStart(t) \/ CallStop(t) \/ StartUnderLock(t) \/ StopUnderLock(t)
    \/ Tick
    \/ TickSkipped
    \/ \E s \in Sources : Stall(s) \/ Recover(s)
    \/ AcknowledgeConsent

\* A thread inside goes on: negotiation and joins are bounded.  The watchdog
\* polls for ever, and the lock is not taken at every single poll; a toggle
\* does not panic every time.
Fairness ==
    /\ \A t \in Threads : WF_vars(Proceed(t))
    /\ SF_vars(Tick)
    /\ \A t \in Threads : SF_vars(Settle(t))

Spec == Init /\ [][Next]_vars /\ Fairness

-----------------------------------------------------------------------------
OnAir == Live # {} \/ draining # {}

Light == INSTANCE RecordingLight
         WITH agreed <- consent, lit <- shown # "idle", onAir <- OnAir

\* The toggle keeps the promise of RecordingLight: nothing is recorded
\* unannounced or without consent, and the mark never goes dark over a stream
\* that still runs, whoever started, stopped, panicked or dropped out.
LightIsHonest == Light!Spec

\* A recording keeps the spill directory it began with: a second start, from
\* any path, never replaces it, which would unlock it for recovery.
StashKept == [][Active /\ Active' => stash' = stash]_vars

\* A press that means stop is never silently ignored: a capture someone
\* pressed to end does end, however the press met the other threads.
StopIsHonoured == unheard ~> ~unheard

\* An indicator that claims a capture nobody runs is put right, even when the
\* toggle that should have done it died.
StaleIndicatorCorrected == (shown # "idle" /\ ~Active) ~> (shown = "idle" \/ Active)

\* A source that stays lost is shown as lost.
LossSurfaces == <>[](Phase = "degraded") => <>[](shown = "degraded")
=============================================================================
