----------------------------- MODULE MCBitcoin ------------------------------
(* Instances of Bitcoin for TLC. *)
EXTENDS Bitcoin

CONSTANTS a, b

(* Wallet 1 has both addresses and wallet 2 one of them, or only wallet 1 is left with *)
(* one; the third file lists an address twice.  Transaction 2 is in the listings of    *)
(* both addresses.                                                                     *)
SomeDefinitions == {<<<<a, b>>, <<b>>>>, <<<<a>>, <<>>>>, <<<<a, a>>, <<>>>>}
SomeTouches == <<{a}, {a, b}, {b}>>

(* Transaction 2 fits only truncated, 3 only confirmed: its description is too long. *)
SomeHeavy == <<2, 4, 3>>
SomeLean == <<2, 2, 4>>

(* An error body that a frame full of pages has no room for. *)
SomeEvidence == [status \in Statuses |-> IF status \in {"ok", "stuck"} THEN 0 ELSE 2]

SomeStarts == {<<1, 2, Absent>>, <<0, 0, 1>>}

(* One wallet, one address. *)
OneDefinition == {<<<<a>>>>}
OneTouches == <<{a}>>
OneByte == <<1>>
OneStart == {<<0>>}

Alone == {{"history"}, {"balances"}, {"status"}}
=============================================================================
