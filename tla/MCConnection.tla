---------------------------- MODULE MCConnection ----------------------------
(* Instances of Connection for TLC. *)
EXTENDS Connection, TLC

(* The calls made once the handle is open are interchangeable. *)
CallSymmetry == Permutations(Calls \ {Hello})
=============================================================================
