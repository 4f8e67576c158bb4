------------------------------ MODULE MCModels -------------------------------
(* Files of two chunks, some attempts each. *)
EXTENDS ModelDownload
=============================================================================
