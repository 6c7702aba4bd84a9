------------------------------ MODULE MCDialer ------------------------------
(* Small instances of Dialer for TLC. *)
EXTENDS Dialer

TwoDials == {"d1", "d2"}
TwoCloses == {"c1", "c2"}
TwoTargets == [d \in TwoDials |-> IF d = "d1" THEN "hostA" ELSE "hostB"]
TwoJumps == <<"jump1", "jump2">>

=============================================================================
