----------------------------- MODULE MCSessions -----------------------------
(***************************************************************************)
(* Small instances of SessionLifecycle for TLC.                            *)
(***************************************************************************)
EXTENDS SessionLifecycle, TLC

AllPolicies == {"keep_all", "keep_days", "discard"}
Symmetry == Permutations(Apps) \cup Permutations(Meetings)
=============================================================================
