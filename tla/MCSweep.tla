------------------------------ MODULE MCSweep ------------------------------
(* Instances of Sweep for TLC: what the adapter and the user may do. *)
EXTENDS Sweep, TLC

Report(surfaces, states, ats) ==
  [resource : Resources, surface : surfaces, state : states,
   content : Contents, at : ats]

(* One active observation of a record per resource, at one instant. *)
OneReport == Report({1}, {"active"}, {1})

(* Observations inside and before a history_start, and one whose timestamp
   no host can order. *)
ThreeAges == Report({1}, {"active"}, {1, 2, Unorderable})

(* A provider that also tombstones. *)
Tombstones == Report({1}, {"active", "tombstoned"}, {1})

(* The host processes are interchangeable. *)
HostSymmetry == Permutations(Hosts)

Confirming == {[resume |-> FALSE, confirmEmpty |-> TRUE]}
MayResume == [resume : BOOLEAN, confirmEmpty : {TRUE}]
MayConfirm == [resume : {FALSE}, confirmEmpty : BOOLEAN]
=============================================================================
