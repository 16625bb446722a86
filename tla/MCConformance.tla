---------------------------- MODULE MCConformance -----------------------------
(* Instances of Conformance for TLC. *)
EXTENDS Conformance

Sent(id, money, state) ==
  [id |-> id, money |-> money, state |-> state, note |-> Honest, big |-> FALSE]

(* One record is superseded after the cut, one tombstoned before it. *)
SomeHistory == <<Sent("x", 1, "active"), Sent("y", 1, "active"), Sent("y", 1, "tombstoned"),
                 Sent("x", 2, "active")>>

(* Resumed at a cursor or from the batch's start, with a record to omit or with a balance. *)
SomeFixtures ==
  {[history |-> SomeHistory, balances |-> <<>>, live |-> {"x"}, ends |-> <<1, 3, 4>>,
    dies |-> 3, resumable |-> "exact", forbidden |-> {"y"}, redelivered |-> {},
    frames |-> 1, omitted |-> {"w"}],
   [history |-> SomeHistory, balances |-> <<>>, live |-> {"x"}, ends |-> <<1, 4>>,
    dies |-> 1, resumable |-> "batch_restart", forbidden |-> {}, redelivered |-> {"x", "y"},
    frames |-> 2, omitted |-> {}],
   [history |-> <<Sent("x", 1, "active"), Sent("z", 1, "active")>>, balances |-> <<1>>,
    live |-> {"x", "z"}, ends |-> <<1, 2>>, dies |-> 1, resumable |-> "exact",
    forbidden |-> {"x"}, redelivered |-> {"z"}, frames |-> 1, omitted |-> {}]}

(* Nothing takes a failure back, so what follows one has no more to show. *)
Undecided == failures = {}
=============================================================================
