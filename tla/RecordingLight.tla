--------------------------- MODULE RecordingLight ---------------------------
(***************************************************************************)
(* What the capture toggle promises the people in the room: the mark is    *)
(* lit before anything is recorded and stays lit until nothing is, and     *)
(* nothing is recorded before the user has agreed to it (CapturePhase is   *)
(* "also the consent signal", audio_cmds.rs).  CaptureToggle implements    *)
(* this with a lock, four phases and two devices.                          *)
(***************************************************************************)
VARIABLES
    agreed,   \* the consent nudge was acknowledged
    lit,      \* the tray, the window and the pill say a capture is engaged
    onAir     \* audio of some source is being taken

lightVars == <<agreed, lit, onAir>>

Init == agreed \in BOOLEAN /\ lit = FALSE /\ onAir = FALSE

Agree == agreed' = TRUE /\ UNCHANGED <<lit, onAir>>

LightUp == lit' = TRUE /\ UNCHANGED <<agreed, onAir>>

GoOnAir == agreed /\ lit /\ onAir' = TRUE /\ UNCHANGED <<agreed, lit>>

GoOffAir == onAir' = FALSE /\ UNCHANGED <<agreed, lit>>

GoDark == ~onAir /\ lit' = FALSE /\ UNCHANGED <<agreed, onAir>>

Next == Agree \/ LightUp \/ GoOnAir \/ GoOffAir \/ GoDark

Spec == Init /\ [][Next]_lightVars
=============================================================================
