------------------------------ MODULE MCBackup ------------------------------
(* Two lines, two projects, the app and one call of the assistant. *)
EXTENDS LedgerBackup
=============================================================================
