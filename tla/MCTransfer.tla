----------------------------- MODULE MCTransfer -----------------------------
(* Small instances of Transfer for TLC. *)
EXTENDS Transfer

OneFile == <<3>>
TwoFiles == <<3, 1>>

=============================================================================
