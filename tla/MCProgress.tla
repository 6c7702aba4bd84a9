----------------------------- MODULE MCProgress -----------------------------
(* A small instance of Progress for TLC: one of the files is empty. *)
EXTENDS Progress

ThreeFiles == [f \in {"f1", "f2", "f3"} |->
                 CASE f = "f1" -> 2 [] f = "f2" -> 1 [] f = "f3" -> 0]
TwoCompletes == {"c1", "c2"}

=============================================================================
