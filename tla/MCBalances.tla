----------------------------- MODULE MCBalances -----------------------------
(* Instances of Balances for TLC: what the adapters may say. *)
EXTENDS Balances

(* Each adapter's lines, with a figure and without one; one adapter's may turn
   up in a reply of another's connection. *)
AllLines == WireLines

(* A status that is fresh, one that is not, and one that wants the user. *)
SomeEntries == [resource : Resources,
                outcome : {"fetched", "stale", "reauth_required"}]

(* Three refreshes of adapter 1, and one of any other. *)
DeepReads == [a \in Adapters |-> IF a = 1 THEN 6 ELSE 2]
=============================================================================
