------------------------------ MODULE MCIndex ------------------------------
(***************************************************************************)
(* Small instances of IndexWorker for TLC.                                 *)
(***************************************************************************)
EXTENDS IndexWorker, TLC

Symmetry == Permutations(Versions)
AllFaults == {"crash", "io", "folder", "lost ledger"}
=============================================================================
