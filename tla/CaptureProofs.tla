---------------------------- MODULE CaptureProofs ----------------------------
(***************************************************************************)
(* What the capture toggle keeps, for any number of presses, commands and  *)
(* panicking threads: the recording light is honest and a capture keeps    *)
(* its spill directory.                                                    *)
(*                                                                         *)
(* The argument: whatever starts, stops or announces does so inside the    *)
(* toggle lock, and a thread is inside exactly while it holds the lock.    *)
(* So the announcement a start made before its first stream still stands   *)
(* when the stream comes up, and no stream is being joined when the mark   *)
(* goes dark.                                                              *)
(***************************************************************************)
EXTENDS CaptureToggle, TLAPS

LockIsHeld == \A t \in Threads : pc[t] \in Inside <=> lock = t

ActiveIsLit == Active => consent /\ shown # "idle"

\* A start was agreed to when it was asked for, and announced when it began.
StartIsLit ==
    \A t \in Threads :
      /\ pc[t] = "wants_start" => consent
      /\ pc[t] = "starting" => consent /\ shown # "idle"

StoppedIsOff == \A t \in Threads : pc[t] \in {"stopping", "stopped"} => ~Active

DrainingStops == draining # {} => \E t \in Threads : pc[t] = "stopping"

IInv ==
    /\ CaptureTypeOK
    /\ LockIsHeld
    /\ ActiveIsLit
    /\ StartIsLit
    /\ StoppedIsOff
    /\ DrainingStops

-----------------------------------------------------------------------------
(* Each conjunct, by the actions that touch what it speaks of.             *)
\* Every step keeps the types.
LEMMA TypeStep ==
  ASSUME CaptureTypeOK, Next
  PROVE  CaptureTypeOK'
<1> USE ThreadsAssumption, ConfirmAssumption
    DEF CaptureTypeOK, Goes, devices
<1>1. ASSUME NEW t \in Threads, MarkPending(t) PROVE CaptureTypeOK'
  BY <1>1 DEF MarkPending, Places
<1>2. ASSUME NEW t \in Threads, Retry(t) PROVE CaptureTypeOK'
  BY <1>2 DEF Retry, Acquire, Inside, Places
<1>3. ASSUME NEW t \in Threads, PassStops(t) PROVE CaptureTypeOK'
  BY <1>3 DEF PassStops, Pass, BeginStop, Inside, Places, Live
<1>4. ASSUME NEW t \in Threads, PassStarts(t) PROVE CaptureTypeOK'
  BY <1>4 DEF PassStarts, Pass, BeginStart, Spilled, Inside, Places, Phases
<1>5. ASSUME NEW t \in Threads, PassAsksConsent(t) PROVE CaptureTypeOK'
  BY <1>5 DEF PassAsksConsent, Pass, Phase, Inside, Places, Phases
<1>6. ASSUME NEW t \in Threads, PassIgnored(t) PROVE CaptureTypeOK'
  BY <1>6 DEF PassIgnored, Pass, Inside, Places
<1>7. ASSUME NEW t \in Threads, NEW s \in Sources, Negotiate(t, s)
      PROVE  CaptureTypeOK'
  BY <1>7 DEF Negotiate
<1>8. ASSUME NEW t \in Threads, StreamsStopped(t) PROVE CaptureTypeOK'
  BY <1>8 DEF StreamsStopped, Inside, Places
<1>9. ASSUME NEW t \in Threads, Settle(t) PROVE CaptureTypeOK'
  BY <1>9 DEF Settle, Phase, Inside, Places, Phases
<1>10. ASSUME NEW t \in Threads, Check(t) PROVE CaptureTypeOK'
  BY <1>10 DEF Check, Inside, Places
<1>11. ASSUME NEW t \in Threads, Leave(t) PROVE CaptureTypeOK'
  BY <1>11 DEF Leave, Places
<1>12. ASSUME NEW t \in Threads, Panics(t) PROVE CaptureTypeOK'
  BY <1>12 DEF Panics, Places
<1>13. ASSUME NEW t \in Pressers, Press(t) PROVE CaptureTypeOK'
  BY <1>13 DEF Press, Acquire, Threads, Inside, Places
<1>14. ASSUME NEW t \in Callers, CallStart(t) PROVE CaptureTypeOK'
  BY <1>14 DEF CallStart, Places
<1>15. ASSUME NEW t \in Callers, CallStop(t) PROVE CaptureTypeOK'
  BY <1>15 DEF CallStop, Places
<1>16. ASSUME NEW t \in Callers, StartUnderLock(t) PROVE CaptureTypeOK'
  BY <1>16 DEF StartUnderLock, BeginStart, Spilled, Threads, Inside, Places,
     Phases
<1>17. ASSUME NEW t \in Callers, StopUnderLock(t) PROVE CaptureTypeOK'
  BY <1>17 DEF StopUnderLock, BeginStop, Threads, Inside, Places, Live
<1>18. ASSUME Tick PROVE CaptureTypeOK'
  BY <1>18 DEF Tick, Decide, Phase, Threads, Inside, Places, Phases
<1>19. ASSUME TickSkipped PROVE CaptureTypeOK'
  BY <1>19 DEF TickSkipped
<1>20. ASSUME NEW s \in Sources, Stall(s) PROVE CaptureTypeOK'
  BY <1>20 DEF Stall
<1>21. ASSUME NEW s \in Sources, Recover(s) PROVE CaptureTypeOK'
  BY <1>21 DEF Recover
<1>22. ASSUME AcknowledgeConsent PROVE CaptureTypeOK'
  BY <1>22 DEF AcknowledgeConsent
<1> QED
  BY <1>1, <1>2, <1>3, <1>4, <1>5, <1>6, <1>7, <1>8, <1>9, <1>10, <1>11,
     <1>12, <1>13, <1>14, <1>15, <1>16, <1>17, <1>18, <1>19, <1>20, <1>21,
     <1>22
  DEF Next, Proceed

\* Every place inside is entered with the lock and left by giving it back.
LEMMA LockIsHeldStep ==
  ASSUME IInv, Next
  PROVE  LockIsHeld'
<1> USE ThreadsAssumption
    DEF IInv, CaptureTypeOK, LockIsHeld, Goes
<1>1. ASSUME NEW t \in Threads, MarkPending(t) PROVE LockIsHeld'
  BY <1>1 DEF MarkPending, Inside
<1>2. ASSUME NEW t \in Threads, Retry(t) PROVE LockIsHeld'
  BY <1>2 DEF Retry, Acquire, Inside
<1>3. ASSUME NEW t \in Threads, PassStops(t) PROVE LockIsHeld'
  BY <1>3 DEF PassStops, Pass, BeginStop, Inside
<1>4. ASSUME NEW t \in Threads, PassStarts(t) PROVE LockIsHeld'
  BY <1>4 DEF PassStarts, Pass, BeginStart, Inside
<1>5. ASSUME NEW t \in Threads, PassAsksConsent(t) PROVE LockIsHeld'
  BY <1>5 DEF PassAsksConsent, Pass, Inside
<1>6. ASSUME NEW t \in Threads, PassIgnored(t) PROVE LockIsHeld'
  BY <1>6 DEF PassIgnored, Pass, Inside
<1>7. ASSUME NEW t \in Threads, StreamsStopped(t) PROVE LockIsHeld'
  BY <1>7 DEF StreamsStopped, Inside
<1>8. ASSUME NEW t \in Threads, Settle(t) PROVE LockIsHeld'
  BY <1>8 DEF Settle, ActionDone, Inside
<1>9. ASSUME NEW t \in Threads, Check(t) PROVE LockIsHeld'
  BY <1>9 DEF Check, Inside
<1>10. ASSUME NEW t \in Threads, Leave(t) PROVE LockIsHeld'
  BY <1>10 DEF Leave, Inside
<1>11. ASSUME NEW t \in Threads, Panics(t) PROVE LockIsHeld'
  BY <1>11 DEF Panics, ActionDone, Inside
<1>12. ASSUME NEW t \in Pressers, Press(t) PROVE LockIsHeld'
  BY <1>12 DEF Press, Acquire, Inside
<1>13. ASSUME NEW t \in Callers, CallStart(t) PROVE LockIsHeld'
  BY <1>13 DEF CallStart, Inside
<1>14. ASSUME NEW t \in Callers, CallStop(t) PROVE LockIsHeld'
  BY <1>14 DEF CallStop, Inside
<1>15. ASSUME NEW t \in Callers, StartUnderLock(t) PROVE LockIsHeld'
  BY <1>15 DEF StartUnderLock, BeginStart, Inside
<1>16. ASSUME NEW t \in Callers, StopUnderLock(t) PROVE LockIsHeld'
  BY <1>16 DEF StopUnderLock, BeginStop, Inside
<1>17. ASSUME Tick PROVE LockIsHeld'
  BY <1>17 DEF Tick, Inside
<1>18. ASSUME UNCHANGED <<lock, pc>> PROVE LockIsHeld'
  BY <1>18
<1> QED
  BY <1>1, <1>2, <1>3, <1>4, <1>5, <1>6, <1>7, <1>8, <1>9, <1>10, <1>11,
     <1>12, <1>13, <1>14, <1>15, <1>16, <1>17, <1>18
  DEF Next, Proceed, devices, Negotiate, TickSkipped, Stall, Recover,
      AcknowledgeConsent

\* A source goes live only in a start, which was announced and agreed to.
LEMMA ActiveIsLitStep ==
  ASSUME IInv, Next
  PROVE  ActiveIsLit'
<1> USE ThreadsAssumption
    DEF IInv, ActiveIsLit
<1>1. ASSUME NEW t \in Threads, PassStops(t) PROVE ActiveIsLit'
  BY <1>1 DEF PassStops, Pass, BeginStop
<1>2. ASSUME NEW t \in Threads, PassStarts(t) PROVE ActiveIsLit'
  BY <1>2 DEF PassStarts, Pass, BeginStart
<1>3. ASSUME NEW t \in Threads, PassAsksConsent(t) PROVE ActiveIsLit'
  BY <1>3 DEF PassAsksConsent, Pass, Active, Installed, devices
<1>4. ASSUME NEW t \in Threads, NEW s \in Sources, Negotiate(t, s)
      PROVE  ActiveIsLit'
  BY <1>4 DEF Negotiate, StartIsLit
<1>5. ASSUME NEW t \in Threads, Settle(t) PROVE ActiveIsLit'
  BY <1>5 DEF Settle, ActionDone, Phase, Active, Installed, devices
<1>6. ASSUME NEW t \in Callers, StartUnderLock(t) PROVE ActiveIsLit'
  BY <1>6 DEF StartUnderLock, BeginStart, Active, Installed
<1>7. ASSUME NEW t \in Callers, StopUnderLock(t) PROVE ActiveIsLit'
  BY <1>7 DEF StopUnderLock, BeginStop, Active, Installed
<1>8. ASSUME Tick PROVE ActiveIsLit'
  BY <1>8 DEF Tick, Decide, Phase, Active, Installed, devices
<1>9. ASSUME NEW s \in Sources, Stall(s) PROVE ActiveIsLit'
  BY <1>9 DEF Stall, Active, Installed
<1>10. ASSUME NEW s \in Sources, Recover(s) PROVE ActiveIsLit'
  BY <1>10 DEF Recover, Active, Installed
<1>11. ASSUME AcknowledgeConsent PROVE ActiveIsLit'
  BY <1>11 DEF AcknowledgeConsent, Active, Installed, devices
<1>12. ASSUME UNCHANGED <<slot, consent, shown>> PROVE ActiveIsLit'
  BY <1>12 DEF Active, Installed
<1> QED
  BY <1>1, <1>2, <1>3, <1>4, <1>5, <1>6, <1>7, <1>8, <1>9, <1>10, <1>11, <1>12
  DEF Next, Proceed, devices, MarkPending, Retry, PassIgnored, StreamsStopped,
      Check, Leave, Panics, Press, CallStart, CallStop, TickSkipped, Pass

\* The lock keeps everyone else from taking the announcement back.
LEMMA StartIsLitStep ==
  ASSUME IInv, Next
  PROVE  StartIsLit'
<1> USE ThreadsAssumption
    DEF IInv, CaptureTypeOK, StartIsLit, Goes
<1>1. ASSUME NEW t \in Threads, MarkPending(t) PROVE StartIsLit'
  BY <1>1 DEF MarkPending
<1>2. ASSUME NEW t \in Threads, Retry(t) PROVE StartIsLit'
  BY <1>2 DEF Retry, Acquire
<1>3. ASSUME NEW t \in Threads, PassStops(t) PROVE StartIsLit'
  BY <1>3 DEF PassStops, Pass, BeginStop
<1>4. ASSUME NEW t \in Threads, PassStarts(t) PROVE StartIsLit'
  BY <1>4 DEF PassStarts, Pass, BeginStart
<1>5. ASSUME NEW t \in Threads, PassAsksConsent(t) PROVE StartIsLit'
  BY <1>5 DEF PassAsksConsent
<1>6. ASSUME NEW t \in Threads, PassIgnored(t) PROVE StartIsLit'
  BY <1>6 DEF PassIgnored, Pass
<1>7. ASSUME NEW t \in Threads, StreamsStopped(t) PROVE StartIsLit'
  BY <1>7 DEF StreamsStopped
<1>8. ASSUME NEW t \in Threads, Settle(t) PROVE StartIsLit'
  BY <1>8 DEF Settle, ActionDone, LockIsHeld, Inside
<1>9. ASSUME NEW t \in Threads, Check(t) PROVE StartIsLit'
  BY <1>9 DEF Check
<1>10. ASSUME NEW t \in Threads, Leave(t) PROVE StartIsLit'
  BY <1>10 DEF Leave
<1>11. ASSUME NEW t \in Threads, Panics(t) PROVE StartIsLit'
  BY <1>11 DEF Panics
<1>12. ASSUME NEW t \in Pressers, Press(t) PROVE StartIsLit'
  BY <1>12 DEF Press, Acquire
<1>13. ASSUME NEW t \in Callers, CallStart(t) PROVE StartIsLit'
  BY <1>13 DEF CallStart
<1>14. ASSUME NEW t \in Callers, CallStop(t) PROVE StartIsLit'
  BY <1>14 DEF CallStop
<1>15. ASSUME NEW t \in Callers, StartUnderLock(t) PROVE StartIsLit'
  BY <1>15 DEF StartUnderLock, BeginStart, ActiveIsLit
<1>16. ASSUME NEW t \in Callers, StopUnderLock(t) PROVE StartIsLit'
  BY <1>16 DEF StopUnderLock, BeginStop
<1>17. ASSUME Tick PROVE StartIsLit'
  BY <1>17 DEF Tick, LockIsHeld, Inside
<1>18. ASSUME AcknowledgeConsent PROVE StartIsLit'
  BY <1>18 DEF AcknowledgeConsent
<1>19. ASSUME UNCHANGED <<pc, consent, shown>> PROVE StartIsLit'
  BY <1>19
<1> QED
  BY <1>1, <1>2, <1>3, <1>4, <1>5, <1>6, <1>7, <1>8, <1>9, <1>10, <1>11,
     <1>12, <1>13, <1>14, <1>15, <1>16, <1>17, <1>18, <1>19
  DEF Next, Proceed, devices, Negotiate, TickSkipped, Stall, Recover

\* A stop empties both slots, and only the holder of the lock fills them.
LEMMA StoppedIsOffStep ==
  ASSUME IInv, Next
  PROVE  StoppedIsOff'
<1> USE ThreadsAssumption
    DEF IInv, CaptureTypeOK, StoppedIsOff, Goes
<1>1. ASSUME NEW t \in Threads, MarkPending(t) PROVE StoppedIsOff'
  BY <1>1 DEF MarkPending, Active, Installed, devices
<1>2. ASSUME NEW t \in Threads, Retry(t) PROVE StoppedIsOff'
  BY <1>2 DEF Retry, Acquire, Active, Installed, devices
<1>3. ASSUME NEW t \in Threads, PassStops(t) PROVE StoppedIsOff'
  BY <1>3 DEF PassStops, BeginStop, Active, Installed
<1>4. ASSUME NEW t \in Threads, PassStarts(t) PROVE StoppedIsOff'
  BY <1>4 DEF PassStarts, BeginStart, Active, Installed
<1>5. ASSUME NEW t \in Threads, PassAsksConsent(t) PROVE StoppedIsOff'
  BY <1>5 DEF PassAsksConsent, Pass, LockIsHeld, Inside
<1>6. ASSUME NEW t \in Threads, PassIgnored(t) PROVE StoppedIsOff'
  BY <1>6 DEF PassIgnored, Pass, LockIsHeld, Inside
<1>7. ASSUME NEW t \in Threads, NEW s \in Sources, Negotiate(t, s)
      PROVE  StoppedIsOff'
  BY <1>7 DEF Negotiate, LockIsHeld, Inside
<1>8. ASSUME NEW t \in Threads, StreamsStopped(t) PROVE StoppedIsOff'
  BY <1>8 DEF StreamsStopped, Active, Installed
<1>9. ASSUME NEW t \in Threads, Settle(t) PROVE StoppedIsOff'
  BY <1>9 DEF Settle, ActionDone, LockIsHeld, Inside
<1>10. ASSUME NEW t \in Threads, Check(t) PROVE StoppedIsOff'
  BY <1>10 DEF Check, LockIsHeld, Inside
<1>11. ASSUME NEW t \in Threads, Leave(t) PROVE StoppedIsOff'
  BY <1>11 DEF Leave, LockIsHeld, Inside
<1>12. ASSUME NEW t \in Threads, Panics(t) PROVE StoppedIsOff'
  BY <1>12 DEF Panics, ActionDone, LockIsHeld, Inside
<1>13. ASSUME NEW t \in Pressers, Press(t) PROVE StoppedIsOff'
  BY <1>13 DEF Press, Acquire, Active, Installed, devices
<1>14. ASSUME NEW t \in Callers, CallStart(t) PROVE StoppedIsOff'
  BY <1>14 DEF CallStart, Active, Installed, devices
<1>15. ASSUME NEW t \in Callers, CallStop(t) PROVE StoppedIsOff'
  BY <1>15 DEF CallStop, Active, Installed, devices
<1>16. ASSUME NEW t \in Callers, StartUnderLock(t) PROVE StoppedIsOff'
  BY <1>16 DEF StartUnderLock, BeginStart, Active, Installed
<1>17. ASSUME NEW t \in Callers, StopUnderLock(t) PROVE StoppedIsOff'
  BY <1>17 DEF StopUnderLock, BeginStop, Active, Installed
<1>18. ASSUME Tick PROVE StoppedIsOff'
  BY <1>18 DEF Tick, LockIsHeld, Inside
<1>19. ASSUME NEW s \in Sources, Stall(s) PROVE StoppedIsOff'
  BY <1>19 DEF Stall, Active, Installed
<1>20. ASSUME NEW s \in Sources, Recover(s) PROVE StoppedIsOff'
  BY <1>20 DEF Recover, Active, Installed
<1>21. ASSUME UNCHANGED <<pc, slot>> PROVE StoppedIsOff'
  BY <1>21 DEF Active, Installed
<1> QED
  BY <1>1, <1>2, <1>3, <1>4, <1>5, <1>6, <1>7, <1>8, <1>9, <1>10, <1>11,
     <1>12, <1>13, <1>14, <1>15, <1>16, <1>17, <1>18, <1>19, <1>20, <1>21
  DEF Next, Proceed, devices, TickSkipped, AcknowledgeConsent

\* Streams are joined by the thread that took them, inside the lock.
LEMMA DrainingStopsStep ==
  ASSUME IInv, Next
  PROVE  DrainingStops'
<1> USE ThreadsAssumption
    DEF IInv, CaptureTypeOK, DrainingStops, Goes
<1>1. ASSUME NEW t \in Threads, MarkPending(t) PROVE DrainingStops'
  BY <1>1 DEF MarkPending, devices
<1>2. ASSUME NEW t \in Threads, Retry(t) PROVE DrainingStops'
  BY <1>2 DEF Retry, Acquire, devices
<1>3. ASSUME NEW t \in Threads, PassStops(t) PROVE DrainingStops'
  BY <1>3 DEF PassStops, BeginStop
<1>4. ASSUME NEW t \in Threads, PassStarts(t) PROVE DrainingStops'
  BY <1>4 DEF PassStarts, Pass, BeginStart
<1>5. ASSUME NEW t \in Threads, PassAsksConsent(t) PROVE DrainingStops'
  BY <1>5 DEF PassAsksConsent, Pass, devices
<1>6. ASSUME NEW t \in Threads, PassIgnored(t) PROVE DrainingStops'
  BY <1>6 DEF PassIgnored, Pass, devices
<1>7. ASSUME NEW t \in Threads, StreamsStopped(t) PROVE DrainingStops'
  BY <1>7 DEF StreamsStopped
<1>8. ASSUME NEW t \in Threads, Settle(t) PROVE DrainingStops'
  BY <1>8 DEF Settle, ActionDone, devices
<1>9. ASSUME NEW t \in Threads, Check(t) PROVE DrainingStops'
  BY <1>9 DEF Check, devices
<1>10. ASSUME NEW t \in Threads, Leave(t) PROVE DrainingStops'
  BY <1>10 DEF Leave, devices
<1>11. ASSUME NEW t \in Threads, Panics(t) PROVE DrainingStops'
  BY <1>11 DEF Panics, ActionDone, devices
<1>12. ASSUME NEW t \in Pressers, Press(t) PROVE DrainingStops'
  BY <1>12 DEF Press, Acquire, devices
<1>13. ASSUME NEW t \in Callers, CallStart(t) PROVE DrainingStops'
  BY <1>13 DEF CallStart, devices
<1>14. ASSUME NEW t \in Callers, CallStop(t) PROVE DrainingStops'
  BY <1>14 DEF CallStop, devices
<1>15. ASSUME NEW t \in Callers, StartUnderLock(t) PROVE DrainingStops'
  BY <1>15 DEF StartUnderLock, BeginStart
<1>16. ASSUME NEW t \in Callers, StopUnderLock(t) PROVE DrainingStops'
  BY <1>16 DEF StopUnderLock, BeginStop, Threads
<1>17. ASSUME Tick PROVE DrainingStops'
  BY <1>17 DEF Tick, devices
<1>18. ASSUME UNCHANGED <<pc, draining>> PROVE DrainingStops'
  BY <1>18
<1> QED
  BY <1>1, <1>2, <1>3, <1>4, <1>5, <1>6, <1>7, <1>8, <1>9, <1>10, <1>11,
     <1>12, <1>13, <1>14, <1>15, <1>16, <1>17, <1>18
  DEF Next, Proceed, devices, Negotiate, TickSkipped, Stall, Recover,
      AcknowledgeConsent

LEMMA InitIInv == Init => IInv
<1> SUFFICES ASSUME Init PROVE IInv
  OBVIOUS
<1> USE DEF Init
<1>1. CaptureTypeOK
  <2>1. confirm \in 0..(ConfirmTicks - 1)
    BY ConfirmAssumption
  <2>2. consent \in BOOLEAN /\ unheard \in BOOLEAN /\ pending \in BOOLEAN
    OBVIOUS
  <2>3. slot \in [Sources -> {"off", "failed", "live", "stalled"}]
    OBVIOUS
  <2> QED
    BY <2>1, <2>2, <2>3 DEF CaptureTypeOK, Places, Phases
<1>2. LockIsHeld
  BY ThreadsAssumption DEF LockIsHeld, Inside
<1>3. ~Active
  BY DEF Active, Installed
<1> QED
  BY <1>1, <1>2, <1>3
  DEF IInv, ActiveIsLit, StartIsLit, StoppedIsOff, DrainingStops

LEMMA StutterIInv == IInv /\ UNCHANGED vars => IInv'
  BY DEF IInv, vars, CaptureTypeOK, LockIsHeld, ActiveIsLit, StartIsLit,
         StoppedIsOff, DrainingStops, Active, Installed

LEMMA NextIInv == IInv /\ Next => IInv'
<1> SUFFICES ASSUME IInv, Next PROVE IInv'
  OBVIOUS
<1>1. CaptureTypeOK'
  BY TypeStep DEF IInv
<1> QED
  BY <1>1, LockIsHeldStep, ActiveIsLitStep, StartIsLitStep, StoppedIsOffStep,
     DrainingStopsStep
  DEF IInv

LEMMA AlwaysIInv == Spec => []IInv
<1>1. IInv /\ [Next]_vars => IInv'
  BY NextIInv, StutterIInv
<1> QED
  BY <1>1, InitIInv, PTL DEF Spec

-----------------------------------------------------------------------------
(* The toggle implements RecordingLight.                                   *)

LEMMA LightInit == Init => Light!Init
  BY DEF Init, Light!Init, OnAir, Live

\* Each step is a step of the light, or changes nothing it shows.
LEMMA LightStep ==
  ASSUME IInv, Next
  PROVE  [Light!Next]_(Light!lightVars)
<1> USE ThreadsAssumption
    DEF IInv, CaptureTypeOK, OnAir
<1> USE DEF Light!Next, Light!lightVars, Light!Agree, Light!LightUp,
         Light!GoOnAir, Light!GoOffAir, Light!GoDark
<1>1. ASSUME NEW t \in Threads, PassStops(t)
      PROVE  [Light!Next]_(Light!lightVars)
  BY <1>1 DEF PassStops, Pass, BeginStop, ActiveIsLit
<1>2. ASSUME NEW t \in Threads, PassStarts(t)
      PROVE  [Light!Next]_(Light!lightVars)
  BY <1>2 DEF PassStarts, Pass, BeginStart, Live
<1>3. ASSUME NEW t \in Threads, PassAsksConsent(t)
      PROVE  [Light!Next]_(Light!lightVars)
  BY <1>3 DEF PassAsksConsent, Pass, LockIsHeld, DrainingStops, Active, Live,
     Installed, Inside, devices
<1>4. ASSUME NEW t \in Threads, NEW s \in Sources, Negotiate(t, s)
      PROVE  [Light!Next]_(Light!lightVars)
  BY <1>4 DEF Negotiate, StartIsLit
<1>5. ASSUME NEW t \in Threads, StreamsStopped(t)
      PROVE  [Light!Next]_(Light!lightVars)
  BY <1>5 DEF StreamsStopped, Live
<1>6. ASSUME NEW t \in Threads, Settle(t) PROVE [Light!Next]_(Light!lightVars)
  BY <1>6 DEF Settle, ActionDone, Phase, LockIsHeld, DrainingStops, Active,
     Live, Installed, Inside, devices
<1>7. ASSUME NEW t \in Callers, StartUnderLock(t)
      PROVE  [Light!Next]_(Light!lightVars)
  BY <1>7 DEF StartUnderLock, BeginStart, Live
<1>8. ASSUME NEW t \in Callers, StopUnderLock(t)
      PROVE  [Light!Next]_(Light!lightVars)
  BY <1>8 DEF StopUnderLock, BeginStop, Live
<1>9. ASSUME Tick PROVE [Light!Next]_(Light!lightVars)
  BY <1>9 DEF Tick, Decide, Phase, LockIsHeld, DrainingStops, Active, Live,
     Installed, Inside, devices
<1>10. ASSUME NEW s \in Sources, Stall(s) PROVE [Light!Next]_(Light!lightVars)
  BY <1>10 DEF Stall, Live
<1>11. ASSUME NEW s \in Sources, Recover(s)
       PROVE  [Light!Next]_(Light!lightVars)
  BY <1>11 DEF Recover, ActiveIsLit, Active, Installed
<1>12. ASSUME AcknowledgeConsent PROVE [Light!Next]_(Light!lightVars)
  BY <1>12 DEF AcknowledgeConsent, Live, devices
<1>13. ASSUME UNCHANGED <<slot, draining, shown, consent>>
       PROVE  [Light!Next]_(Light!lightVars)
  BY <1>13 DEF Live
<1> QED
  BY <1>1, <1>2, <1>3, <1>4, <1>5, <1>6, <1>7, <1>8, <1>9, <1>10, <1>11,
     <1>12, <1>13
  DEF Next, Proceed, devices, MarkPending, Retry, PassIgnored, Check, Leave,
      Panics, Press, CallStart, CallStop, TickSkipped, Pass

LEMMA LightStutter == UNCHANGED vars => UNCHANGED Light!lightVars
  BY DEF vars, Light!lightVars, OnAir, Live

-----------------------------------------------------------------------------

\* The lock, the flag and the sources keep their types
\* (CaptureToggle!CaptureTypeOK).
THEOREM CaptureTyped == Spec => []CaptureTypeOK
<1>1. IInv => CaptureTypeOK
  BY DEF IInv
<1> QED
  BY <1>1, AlwaysIInv, PTL

\* At most one thread is inside a start, a stop or a replay, and it is the
\* one that holds the toggle lock (capture_control.rs).
THEOREM TogglesExclude ==
  Spec => [](\A t, u \in Threads : pc[t] \in Inside /\ pc[u] \in Inside => t = u)
<1>1. IInv => \A t, u \in Threads : pc[t] \in Inside /\ pc[u] \in Inside => t = u
  BY DEF IInv, LockIsHeld
<1> QED
  BY <1>1, AlwaysIInv, PTL

\* Nothing is recorded unannounced or without consent, and the mark never
\* goes dark over a running stream (audio_cmds.rs, CapturePhase).
THEOREM HonestLight == Spec => LightIsHonest
<1>1. IInv /\ [Next]_vars => [Light!Next]_(Light!lightVars)
  BY LightStep, LightStutter
<1> QED
  BY <1>1, LightInit, AlwaysIInv, PTL DEF Spec, LightIsHonest, Light!Spec

\* A second start never replaces the spill of a running capture
\* (audio_cmds.rs, start_capture over an active session).
THEOREM SpillKept == Spec => StashKept
<1>1. ASSUME IInv, Next PROVE Active /\ Active' => stash' = stash
  <2> USE DEF IInv, devices
  <2>1. ASSUME NEW t \in Threads, PassStarts(t)
        PROVE  Active /\ Active' => stash' = stash
    BY <2>1 DEF PassStarts, BeginStart
  <2>2. ASSUME NEW t \in Callers, StartUnderLock(t)
        PROVE  Active /\ Active' => stash' = stash
    BY <2>2 DEF StartUnderLock, BeginStart
  <2>3. ASSUME NEW t \in Threads, StreamsStopped(t)
        PROVE  Active /\ Active' => stash' = stash
    BY <1>1, <2>3 DEF StreamsStopped, StoppedIsOff
  <2>4. ASSUME UNCHANGED stash PROVE Active /\ Active' => stash' = stash
    BY <2>4
  <2> QED
    BY <1>1, <2>1, <2>2, <2>3, <2>4
    DEF Next, Proceed, Pass, MarkPending, Retry, PassStops, BeginStop,
        PassAsksConsent, PassIgnored, Negotiate, Settle, Check, Leave, Panics,
        Press, CallStart, CallStop, StopUnderLock, Tick, TickSkipped, Stall,
        Recover, AcknowledgeConsent
<1>2. IInv /\ [Next]_vars => [Active /\ Active' => stash' = stash]_vars
  BY <1>1
<1> QED
  BY <1>2, AlwaysIInv, PTL DEF Spec, StashKept
=============================================================================
