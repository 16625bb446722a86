------------------------------ MODULE Verdict ------------------------------
(***************************************************************************)
(* What a connection promises about its verdict, whatever its tasks do: the *)
(* first violation caught is the verdict and it is never taken back; a      *)
(* caller may hold the verdict and it does not move while it is held; the   *)
(* connection ends once, for one reason, and ending for a violation         *)
(* publishes that violation or an earlier one.  This is what the commit of  *)
(* a sweep relies on (core/host/src/mux.rs, the docs of Mux::verdict,       *)
(* Mux::finish and Mux::with_violation_held).                               *)
(***************************************************************************)
CONSTANTS Kinds,  \* the protocol violations
          Ends,   \* the other reasons a connection ends
          None

VARIABLES verdict,  \* the violation the connection was caught committing
          held,     \* whether a caller is inside with_violation_held
          terminal  \* why the connection is finished

vvars == <<verdict, held, terminal>>

Init == verdict = None /\ held = FALSE /\ terminal = None

First(k) == IF verdict = None THEN k ELSE verdict

(* record_violation *)
Publish(k) ==
  /\ ~ held
  /\ verdict' = First(k)
  /\ UNCHANGED <<held, terminal>>

(* finish with a violation *)
EndViolated(k) ==
  /\ ~ held /\ terminal = None
  /\ terminal' = k
  /\ verdict' = First(k)
  /\ UNCHANGED held

(* finish with anything else: nothing to publish, nothing to wait for *)
EndOtherwise(e) ==
  /\ terminal = None
  /\ terminal' = e
  /\ UNCHANGED <<verdict, held>>

(* with_violation_held begins and returns *)
Hold == ~ held /\ held' = TRUE /\ UNCHANGED <<verdict, terminal>>

Release == held /\ held' = FALSE /\ UNCHANGED <<verdict, terminal>>

Next ==
  \/ \E k \in Kinds : Publish(k) \/ EndViolated(k)
  \/ \E e \in Ends : EndOtherwise(e)
  \/ Hold
  \/ Release

Spec == Init /\ [][Next]_vvars
=============================================================================
