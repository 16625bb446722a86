-------------------------- MODULE ConnectionProofs --------------------------
(***************************************************************************)
(* Connection implements Verdict, and what a connection promises its        *)
(* callers, for every number of calls, ids, permits and frames and for      *)
(* every adapter.                                                           *)
(*                                                                         *)
(* For the refinement, what has to be known of a state is what the tasks    *)
(* carry from the place where a violation is judged to the place where it   *)
(* is published: the reader a violation, the kill channel a violation or    *)
(* nothing, and the supervisor, when it finishes the connection, a reason   *)
(* to finish it for.  For the rest: types, whose answer a call is handed,   *)
(* where the permits are, what an ordinary exit means and what an adapter   *)
(* that keeps the contract is never charged with.                           *)
(***************************************************************************)
EXTENDS Connection, TLAPS, FiniteSetTheorems

(* The reader holds a violation from its judgement to its kill request. *)
ReaderCarries ==
  /\ reader \in [at : {"reading", "publish", "kill", "done"}, kind : Kinds \cup {None}]
  /\ reader.at \in {"publish", "kill"} => reader.kind \in Kinds

(* The kill channel holds at most one request, with or without a violation. *)
KillCarries == kill \in {<< >>} \cup {<<m>> : m \in Kinds \cup {None}}

(* The supervisor finishes the connection for a reason. *)
SupCarries ==
  /\ sup \in [at : {"watching", "draining", "judging", "reaping", "finishing", "done"},
              drained : BOOLEAN, reason : Kinds \cup Ends \cup {None}]
  /\ sup.at = "reaping" => sup.reason \in Kinds \cup {None}
  /\ sup.at = "finishing" => sup.reason \in Kinds \cup Ends

Carried == ReaderCarries /\ KillCarries /\ SupCarries

(* A frame is a violation or it is none: on_frame invents nothing else. *)
LEMMA FrameKind == ASSUME NEW f PROVE on_frame(f) \in Kinds \cup {None}
BY DEF on_frame, deliver, Kinds

(* try_send leaves a request of a legal kind in the channel. *)
LEMMA SendKeeps ==
  ASSUME KillCarries, NEW m \in Kinds \cup {None}, try_send(m)
  PROVE  KillCarries'
BY DEF KillCarries, try_send

(* What is received from the channel: a violation, or the request without. *)
LEMMA KillHead ==
  ASSUME KillCarries, kill # << >>
  PROVE  Head(kill) \in Kinds \cup {None} /\ (kill # <<None>> => Head(kill) \in Kinds)
<1>1. PICK m \in Kinds \cup {None} : kill = <<m>>
  BY DEF KillCarries
<1>2. Head(kill) = m
  BY <1>1
<1>3. QED BY <1>1, <1>2

(* At the start nothing is carried. *)
LEMMA CarriedInit == Init => Carried
BY DEF Init, Carried, ReaderCarries, KillCarries, SupCarries

(* The reader's steps. *)
LEMMA ReaderStep ==
  ASSUME Carried, Reader \/ ReadError
  PROVE  Carried'
<1>1. CASE ReadFrame
  <2>1. KillCarries' /\ SupCarries'
    BY <1>1 DEF Carried, ReadFrame, supVars, KillCarries, SupCarries
  <2>2. ReaderCarries'
    BY <1>1, FrameKind DEF Carried, ReadFrame, ReaderCarries
  <2>3. QED BY <2>1, <2>2 DEF Carried
<1>2. CASE ReadEof
  <2>1. KillCarries' /\ SupCarries'
    BY <1>2 DEF Carried, ReadEof, supVars, KillCarries, SupCarries
  <2>2. ReaderCarries'
    BY <1>2 DEF Carried, ReadEof, ReaderCarries, Kinds
  <2>3. QED BY <2>1, <2>2 DEF Carried
<1>3. CASE ReadError
  BY <1>3 DEF Carried, ReadError, supVars, KillCarries, SupCarries, ReaderCarries
<1>4. CASE ReaderPublish
  BY <1>4 DEF Carried, ReaderPublish, supVars, KillCarries, SupCarries, ReaderCarries
<1>5. CASE ReaderKill
  <2>1. KillCarries'
    BY <1>5, SendKeeps DEF Carried, ReaderKill, ReaderCarries
  <2>2. SupCarries' /\ ReaderCarries'
    BY <1>5 DEF Carried, ReaderKill, SupCarries, ReaderCarries
  <2>3. QED BY <2>1, <2>2 DEF Carried
<1>6. QED BY <1>1, <1>2, <1>3, <1>4, <1>5 DEF Reader

(* The supervisor's steps. *)
LEMMA SuperviseStep ==
  ASSUME Carried, Supervise
  PROVE  Carried'
<1>1. ReaderCarries'
  BY DEF Carried, Supervise, SupExit, SupDrain, SupJudge, SupKill, SupReap,
         SupFinish, readerVars, ReaderCarries
<1>2. KillCarries'
  BY DEF Carried, Supervise, SupExit, SupDrain, SupJudge, SupKill, SupReap,
         SupFinish, KillCarries
<1>3. SupCarries'
  <2>1. CASE SupExit \/ SupDrain \/ SupReap \/ SupFinish
    BY <2>1 DEF Carried, SupExit, SupDrain, SupReap, SupFinish, SupCarries
  <2>2. CASE SupJudge
    <3> DEFINE why == IF kill # << >> /\ kill # <<None>> THEN Head(kill)
                      ELSE IF ~ sup.drained THEN "StdoutHeldOpen"
                      ELSE "Exited"
    <3>1. why \in Kinds \cup Ends
      BY KillHead DEF Carried, Kinds, Ends
    <3>2. sup' = [sup EXCEPT !.at = "finishing", !.reason = why]
      BY <2>2 DEF SupJudge
    <3> HIDE DEF why
    <3>3. QED BY <3>1, <3>2 DEF Carried, SupCarries
  <2>3. CASE SupKill
    BY <2>3, KillHead DEF Carried, SupKill, SupCarries
  <2>4. QED BY <2>1, <2>2, <2>3 DEF Supervise
<1>4. QED BY <1>1, <1>2, <1>3 DEF Carried

(* The steps of the host that only request a kill. *)
LEMMA RequestStep ==
  ASSUME Carried, PumpKill \/ HelloFailed \/ CloseEnds \/ Drop
  PROVE  Carried'
<1>1. KillCarries'
  BY SendKeeps DEF Carried, PumpKill, HelloFailed, CloseEnds, Drop
<1>2. ReaderCarries' /\ SupCarries'
  BY DEF Carried, PumpKill, HelloFailed, CloseEnds, Drop, readerVars,
         ReaderCarries, SupCarries
<1>3. QED BY <1>1, <1>2 DEF Carried

Calling == \E c \in Calls : StartCall(c) \/ Enqueue(c) \/ Abandoned(c)

Waiters == \E i \in Ids : Waiter(i)

(* Every other step leaves the reader, the channel and the supervisor alone. *)
LEMMA OtherStep ==
  ASSUME Carried,
         \/ Calling
         \/ Waiters
         \/ PumpRecv \/ PumpClose \/ PumpAdmit \/ PumpPermit \/ PumpRecheck
         \/ PumpIssue \/ PumpWrite \/ PumpCut \/ PumpFinish
         \/ HelloAccepted \/ CloseDeadline \/ CloseFinish \/ CloseBegins
         \/ Hold \/ Release \/ Adapter \/ UNCHANGED vars
  PROVE  Carried'
<1>1. UNCHANGED <<reader, kill, sup>>
  <2>1. CASE Calling
    BY <2>1 DEF Calling, StartCall, Enqueue, Abandoned, readerVars, supVars
  <2>2. CASE Waiters
    BY <2>2 DEF Waiters, Waiter, Delivered, Elapse, Expire, readerVars, supVars
  <2>3. CASE \/ PumpRecv \/ PumpClose \/ PumpAdmit \/ PumpPermit \/ PumpRecheck
             \/ PumpIssue \/ PumpWrite \/ PumpCut \/ PumpFinish
    BY <2>3 DEF PumpRecv, PumpClose, PumpAdmit, PumpPermit, PumpRecheck,
                PumpIssue, PumpWrite, PumpCut, PumpFinish, readerVars, supVars
  <2>4. CASE \/ HelloAccepted \/ CloseDeadline \/ CloseFinish \/ CloseBegins
             \/ Hold \/ Release
    BY <2>4 DEF HelloAccepted, CloseDeadline, CloseFinish, CloseBegins, Hold,
                Release, readerVars, supVars
  <2>5. CASE Adapter
    BY <2>5 DEF Adapter, Answer, Stray, BeginFrame, GoDeaf, Fork, Orphan, Exit,
                hostVars, readerVars, supVars
  <2>6. CASE UNCHANGED vars
    BY <2>6 DEF vars, readerVars, supVars
  <2>7. QED BY <2>1, <2>2, <2>3, <2>4, <2>5, <2>6
<1>2. QED BY <1>1 DEF Carried, ReaderCarries, KillCarries, SupCarries

(* What the tasks carry is always legal. *)
LEMMA CarriedAlways == Spec => []Carried
<1>1. Carried /\ [Next]_vars => Carried'
  BY ReaderStep, SuperviseStep, RequestStep, OtherStep
     DEF Next, Pump, Handle, Calling, Waiters
<1>2. QED BY CarriedInit, <1>1, PTL DEF Spec

-----------------------------------------------------------------------------
(* finish with a reason is an ending of the verdict, or comes second. *)
LEMMA FinishMaps ==
  ASSUME NEW reason \in Kinds \cup Ends, finish(reason), UNCHANGED held
  PROVE  V!Next \/ UNCHANGED V!vvars
<1>1. CASE terminal # None
  BY <1>1 DEF finish, muxVars, V!vvars
<1>2. CASE terminal = None /\ reason \in Kinds
  <2>1. V!EndViolated(reason)
    BY <1>2 DEF finish, V!EndViolated, V!First
  <2>2. QED BY <1>2, <2>1 DEF V!Next
<1>3. CASE terminal = None /\ reason \notin Kinds
  <2>1. V!EndOtherwise(reason)
    BY <1>3 DEF finish, V!EndOtherwise
  <2>2. QED BY <1>3, <2>1 DEF V!Next
<1>4. QED BY <1>1, <1>2, <1>3

(* The steps that move the verdict, the latch or the terminal reason. *)
Finishing == PumpFinish \/ SupFinish \/ CloseFinish

(* Every step that does none of these leaves them alone. *)
LEMMA Elsewhere ==
  ASSUME Next \/ UNCHANGED vars, ~ ReaderPublish, ~ Finishing, ~ Hold, ~ Release
  PROVE  UNCHANGED V!vvars
<1>1. CASE Calling
  BY <1>1 DEF Calling, StartCall, Enqueue, Abandoned, muxVars, verdictVars, V!vvars
<1>2. CASE Waiters
  BY <1>2 DEF Waiters, Waiter, Delivered, Elapse, Expire, muxVars, verdictVars, V!vvars
<1>3. CASE Pump
  BY <1>3 DEF Pump, Finishing, PumpRecv, PumpClose, PumpAdmit, PumpPermit,
              PumpRecheck, PumpIssue, PumpWrite, PumpCut, PumpKill, muxVars,
              verdictVars, V!vvars
<1>4. CASE Reader \/ ReadError
  BY <1>4 DEF Reader, ReadError, ReadFrame, ReadEof, ReaderKill, muxVars,
              verdictVars, V!vvars
<1>5. CASE Supervise
  BY <1>5 DEF Supervise, Finishing, SupExit, SupDrain, SupJudge, SupKill,
              SupReap, muxVars, verdictVars, V!vvars
<1>6. CASE Handle \/ CloseBegins \/ Drop
  BY <1>6 DEF Handle, Finishing, HelloAccepted, HelloFailed, CloseBegins,
              CloseDeadline, CloseEnds, Drop, muxVars, verdictVars, V!vvars
<1>7. CASE Adapter
  BY <1>7 DEF Adapter, Answer, Stray, BeginFrame, GoDeaf, Fork, Orphan, Exit,
              hostVars, muxVars, verdictVars, V!vvars
<1>8. CASE UNCHANGED vars
  BY <1>8 DEF vars, muxVars, verdictVars, V!vvars
<1>9. QED
  BY <1>1, <1>2, <1>3, <1>4, <1>5, <1>6, <1>7, <1>8 DEF Next, Calling, Waiters

(* The connection keeps the promise a sweep's commit relies on: whatever the
   tasks and the adapter do, the first violation caught is the verdict and is
   never taken back, it does not move while a commit holds it, and a
   connection that ends for a violation has published one (Mux::finish,
   Mux::record_violation and Mux::with_violation_held). *)
THEOREM ConnectionImplementsVerdict == Spec => VerdictSpec
<1>1. Init => V!Init
  BY DEF Init, V!Init
<1>2. Carried /\ [Next]_vars => [V!Next]_(V!vvars)
  <2> SUFFICES ASSUME Carried, Next \/ UNCHANGED vars
               PROVE  V!Next \/ UNCHANGED V!vvars
    OBVIOUS
  <2>1. CASE ReaderPublish
    <3>1. V!Publish(reader.kind)
      BY <2>1 DEF ReaderPublish, V!Publish, V!First, muxVars
    <3>2. reader.kind \in Kinds
      BY <2>1 DEF Carried, ReaderCarries, ReaderPublish
    <3>3. QED BY <3>1, <3>2 DEF V!Next
  <2>2. CASE PumpFinish
    BY <2>2, FinishMaps DEF PumpFinish, Ends
  <2>3. CASE SupFinish
    BY <2>3, FinishMaps DEF Carried, SupCarries, SupFinish
  <2>4. CASE CloseFinish
    BY <2>4, FinishMaps DEF CloseFinish, Kinds
  <2>5. CASE Hold
    BY <2>5 DEF Hold, V!Hold, V!Next, muxVars
  <2>6. CASE Release
    BY <2>6 DEF Release, V!Release, V!Next, muxVars
  <2>7. QED
    BY <2>1, <2>2, <2>3, <2>4, <2>5, <2>6, Elsewhere DEF Finishing
<1>3. QED BY CarriedAlways, <1>1, <1>2, PTL DEF Spec, VerdictSpec, V!Spec

-----------------------------------------------------------------------------

(* The pump has a request in hand, and on the wire an id that was issued. *)
Busy == {"admit", "permit", "recheck", "issue", "write"}

Requests ==
  /\ pump.at \in Busy => pump.req \in Calls
  /\ pump.at = "write" => pump.id \in Ids /\ pump.id < nextId

Typed == TypeOK /\ Requests /\ Carried

(* An ending is an outcome. *)
LEMMA EndingIsOutcome ==
  ASSUME NEW x \in {"Timeout", "IdsExhausted"} \cup Ends \cup Kinds
  PROVE  Outcome(x) \in Outcomes
BY DEF Outcome, Outcomes

(* A call that returns. *)
LEMMA RespondType ==
  ASSUME TypeOK, NEW c \in Calls, NEW r \in Outcomes, Respond(c, r)
  PROVE  /\ callpc' \in [Calls -> {"new", "sending", "queued", "taken", "done"}]
         /\ result' \in [Calls -> Outcomes \cup {None}]
BY DEF TypeOK, Respond

(* The end of a connection resolves what is pending. *)
LEMMA FinishType ==
  ASSUME TypeOK, NEW x \in Kinds \cup Ends, finish(x)
  PROVE  /\ nextId' = nextId
         /\ slot' \in [Ids -> {"unissued", "pending", "tombstoned", "answered"}]
         /\ terminal' \in Kinds \cup Ends \cup {None}
         /\ verdict' \in Kinds \cup {None}
         /\ box' \in [Ids -> Outcomes \cup {None}]
<1>1. Outcome(x) \in Outcomes
  BY EndingIsOutcome
<1>2. CASE terminal # None
  BY <1>2 DEF TypeOK, finish, muxVars
<1>3. CASE terminal = None
  <2> DEFINE o == Outcome(x)
  <2>1. /\ nextId' = nextId /\ terminal' = x
        /\ verdict' = IF x \in Kinds /\ verdict = None THEN x ELSE verdict
        /\ slot' = [i \in Ids |-> IF slot[i] = "pending" THEN "answered" ELSE slot[i]]
        /\ box' = [i \in Ids |-> IF i \in {j \in Ids : slot[j] = "pending"} THEN o ELSE box[i]]
    BY <1>3 DEF finish
  <2> HIDE DEF o
  <2> QED BY <1>1, <2>1 DEF TypeOK, o
<1> QED BY <1>2, <1>3

(* The callers' steps. *)
LEMMA CallingType ==
  ASSUME Typed, NEW c \in Calls, StartCall(c) \/ Enqueue(c) \/ Abandoned(c)
  PROVE  TypeOK' /\ Requests'
<1>1. CASE StartCall(c)
  <2>1. CASE terminal # None
    <3>1. Respond(c, Outcome(terminal)) /\ Outcome(terminal) \in Outcomes
      BY <1>1, <2>1, EndingIsOutcome DEF StartCall, Typed, TypeOK
    <3> QED BY <1>1, <3>1, RespondType DEF Typed, TypeOK, Requests, StartCall, muxVars,
               verdictVars, queueVars, waiterVars, readerVars, supVars, adapterVars
  <2>2. CASE terminal = None
    <3>1. callpc' \in [Calls -> {"new", "sending", "queued", "taken", "done"}]
      BY <1>1, <2>2 DEF StartCall, Typed, TypeOK
    <3> QED BY <1>1, <2>2, <3>1 DEF Typed, TypeOK, Requests, StartCall, muxVars,
               verdictVars, queueVars, waiterVars, readerVars, supVars, adapterVars
  <2> QED BY <2>1, <2>2
<1>2. CASE Enqueue(c)
  <2>1. queue' \in Seq(Calls) /\ Len(queue') = Len(queue) + 1 /\ Len(queue) \in Nat
    BY <1>2 DEF Enqueue, Typed, TypeOK
  <2>2. Len(queue') <= QueueCapacity
    BY <1>2, <2>1, ConnectionAssumption DEF Enqueue
  <2> QED BY <1>2, <2>1, <2>2 DEF Typed, TypeOK, Requests, Enqueue, muxVars,
             verdictVars, waiterVars, readerVars, supVars, adapterVars
<1>3. CASE Abandoned(c)
  <2>1. Respond(c, terminal_error) /\ terminal_error \in Outcomes
    BY <1>3, EndingIsOutcome DEF Abandoned, terminal_error, Ends, Typed, TypeOK
  <2> QED BY <1>3, <2>1, RespondType DEF Typed, TypeOK, Requests, Abandoned, muxVars,
             verdictVars, queueVars, waiterVars, readerVars, supVars, adapterVars
<1> QED BY <1>1, <1>2, <1>3

(* What the pump does to a request: it answers it and turns to the next. *)
LEMMA RefuseType ==
  ASSUME Typed, pump.at \in Busy, Refuse
  PROVE  /\ callpc' \in [Calls -> {"new", "sending", "queued", "taken", "done"}]
         /\ result' \in [Calls -> Outcomes \cup {None}]
<1>1. (IF terminal # None THEN terminal ELSE "Timeout") \in {"Timeout"} \cup Ends \cup Kinds
  BY DEF Typed, TypeOK
<1>2. Outcome(IF terminal # None THEN terminal ELSE "Timeout") \in Outcomes
  BY <1>1, EndingIsOutcome
<1>3. pump.req \in Calls
  BY DEF Typed, Requests
<1> QED BY <1>2, <1>3, RespondType DEF Refuse, Typed

(* Places of the pump. *)
Places == {"recv", "admit", "permit", "recheck", "issue", "write", "kill", "finish", "stopped"}

(* The pump keeps its request and its id when it only moves. *)
LEMMA PumpMoves ==
  ASSUME Typed, NEW p \in Places, PumpTo(p), p \in Busy => pump.at \in Busy, p # "write",
         nextId' = nextId
  PROVE  /\ pump' \in [at : Places, req : Calls \cup {None}, id : Ids \cup {None}]
         /\ Requests'
BY DEF PumpTo, Places, Busy, Typed, TypeOK, Requests

(* The pump's steps. *)
LEMMA PumpType == ASSUME Typed, Pump PROVE TypeOK' /\ Requests'
<1>1. CASE PumpRecv
  <2>1. Head(queue) \in Calls /\ queue' \in Seq(Calls) /\ Len(queue') <= QueueCapacity
    <3>1. queue \in Seq(Calls) /\ queue # << >> /\ Len(queue) <= QueueCapacity
      BY <1>1 DEF PumpRecv, Typed, TypeOK
    <3>2. Head(queue) \in Calls /\ Tail(queue) \in Seq(Calls)
          /\ Len(Tail(queue)) = Len(queue) - 1 /\ Len(queue) \in Nat
      BY <3>1
    <3> QED BY <1>1, <3>1, <3>2, ConnectionAssumption DEF PumpRecv
  <2>2. callpc' \in [Calls -> {"new", "sending", "queued", "taken", "done"}]
    BY <1>1, <2>1 DEF PumpRecv, Typed, TypeOK
  <2>3. pump' \in [at : Places, req : Calls \cup {None}, id : Ids \cup {None}] /\ Requests'
    BY <1>1, <2>1 DEF PumpRecv, Places, Busy, Requests
  <2>4. UNCHANGED <<muxVars, verdictVars, permits, closing, result, waiterVars, readerVars,
                    supVars, handle, adapterVars>>
    BY <1>1 DEF PumpRecv
  <2> QED BY <2>1, <2>2, <2>3, <2>4 DEF Places, Typed, TypeOK, muxVars, verdictVars,
             waiterVars, readerVars, supVars, adapterVars
<1>2. CASE PumpClose
  <2>1. pump' \in [at : Places, req : Calls \cup {None}, id : Ids \cup {None}] /\ Requests'
    BY <1>2, PumpMoves DEF PumpClose, Places, Busy, muxVars
  <2>2. closing' \in BOOLEAN
    BY <1>2 DEF PumpClose
  <2>3. UNCHANGED <<muxVars, verdictVars, queue, permits, callVars, waiterVars, readerVars,
                    supVars, handle, adapterVars>>
    BY <1>2 DEF PumpClose
  <2>4. TypeOK'
    BY <2>1, <2>2, <2>3 DEF Places, Typed, TypeOK, muxVars, verdictVars, callVars, waiterVars,
       readerVars, supVars, adapterVars
  <2> QED BY <2>1, <2>4
<1>3. CASE PumpAdmit
  <2>1. callpc' \in [Calls -> {"new", "sending", "queued", "taken", "done"}]
        /\ result' \in [Calls -> Outcomes \cup {None}]
    BY <1>3, RefuseType DEF PumpAdmit, AtPump, Busy, callVars, Typed, TypeOK
  <2>2. pump' \in [at : Places, req : Calls \cup {None}, id : Ids \cup {None}] /\ Requests'
    BY <1>3, PumpMoves DEF PumpAdmit, AtPump, Places, Busy, muxVars
  <2> QED BY <1>3, <2>1, <2>2 DEF PumpAdmit, Places, Typed, TypeOK, muxVars,
             verdictVars, queueVars, waiterVars, readerVars, supVars, adapterVars
<1>4. CASE PumpPermit
  <2>1. pump' \in [at : Places, req : Calls \cup {None}, id : Ids \cup {None}] /\ Requests'
    BY <1>4, PumpMoves DEF PumpPermit, AtPump, Places, Busy, muxVars
  <2>2. permits' \in Nat
    BY <1>4 DEF PumpPermit, Typed, TypeOK
  <2> QED BY <1>4, <2>1, <2>2 DEF PumpPermit, Places, Typed, TypeOK, muxVars, verdictVars,
             callVars, waiterVars, readerVars, supVars, adapterVars
<1>5. CASE PumpRecheck
  <2>1. callpc' \in [Calls -> {"new", "sending", "queued", "taken", "done"}]
        /\ result' \in [Calls -> Outcomes \cup {None}]
    BY <1>5, RefuseType DEF PumpRecheck, AtPump, Busy, callVars, Typed, TypeOK
  <2>2. pump' \in [at : Places, req : Calls \cup {None}, id : Ids \cup {None}] /\ Requests'
    BY <1>5, PumpMoves DEF PumpRecheck, AtPump, Places, Busy, muxVars
  <2>3. permits' \in Nat
    BY <1>5 DEF PumpRecheck, Typed, TypeOK
  <2> QED BY <1>5, <2>1, <2>2, <2>3 DEF PumpRecheck, Places, Typed, TypeOK, muxVars, verdictVars,
             waiterVars, readerVars, supVars, adapterVars
<1>6. CASE PumpIssue
  <2>1. CASE nextId = IdLimit
    <3>1. Respond(pump.req, Outcome("IdsExhausted")) /\ Outcome("IdsExhausted") \in Outcomes
      BY <1>6, <2>1, ConnectionAssumption, EndingIsOutcome DEF PumpIssue, Typed, TypeOK
    <3>2. callpc' \in [Calls -> {"new", "sending", "queued", "taken", "done"}]
          /\ result' \in [Calls -> Outcomes \cup {None}]
      BY <1>6, <3>1, RespondType DEF PumpIssue, AtPump, Busy, Typed, Requests
    <3>3. permits' \in Nat /\ PumpTo("recv") /\ UNCHANGED muxVars
      BY <1>6, <2>1, ConnectionAssumption DEF PumpIssue, Typed, TypeOK
    <3>4. pump' \in [at : Places, req : Calls \cup {None}, id : Ids \cup {None}] /\ Requests'
      BY <3>3, PumpMoves DEF Places, Busy, muxVars
    <3> QED BY <1>6, <3>2, <3>3, <3>4 DEF PumpIssue, Places, Typed, TypeOK, muxVars,
               verdictVars, waiterVars, readerVars, supVars, adapterVars
  <2>2. CASE nextId < IdLimit
    <3>1. nextId \in Ids /\ nextId' = nextId + 1 /\ nextId' \in 0..IdLimit /\ nextId < nextId'
      BY <1>6, <2>2, ConnectionAssumption DEF PumpIssue, Ids, Typed, TypeOK
    <3>2. slot' \in [Ids -> {"unissued", "pending", "tombstoned", "answered"}]
      <4>1. slot' = [slot EXCEPT ![nextId] = "pending"]
        BY <1>6, <2>2, ConnectionAssumption DEF PumpIssue, Typed, TypeOK
      <4> QED BY <4>1 DEF Typed, TypeOK
    <3>3. pump' = [pump EXCEPT !.at = "write", !.id = nextId] /\ pump.req \in Calls
      BY <1>6, <2>2, ConnectionAssumption DEF PumpIssue, AtPump, Busy, Typed, TypeOK, Requests
    <3>4. pump' \in [at : Places, req : Calls \cup {None}, id : Ids \cup {None}] /\ Requests'
      BY <3>1, <3>3 DEF Places, Busy, Typed, TypeOK, Requests
    <3>5. UNCHANGED <<callpc, result, permits, terminal>>
      BY <1>6, <2>2, ConnectionAssumption DEF PumpIssue, callVars, Typed, TypeOK
    <3>6. UNCHANGED <<verdictVars, queue, closing, waiterVars, readerVars, supVars, handle,
                      adapterVars>>
      BY <1>6 DEF PumpIssue
    <3> QED BY <3>1, <3>2, <3>4, <3>5, <3>6 DEF Places, Typed, TypeOK,
               verdictVars, waiterVars, readerVars, supVars, adapterVars
  <2> QED BY <1>6, <2>1, <2>2 DEF PumpIssue
<1>7. CASE PumpWrite
  <2>1. pump.req \in Calls /\ pump.id \in Ids
    BY <1>7 DEF PumpWrite, AtPump, Busy, Typed, Requests
  <2>2. asked' \subseteq Ids \X Calls
    BY <1>7, <2>1 DEF PumpWrite, Typed, TypeOK
  <2>3. waiter' \in [Ids -> [at : {"waiting", "elapsed"}, req : Calls] \cup {None}]
    BY <1>7, <2>1 DEF PumpWrite, Typed, TypeOK
  <2>4. pump' \in [at : Places, req : Calls \cup {None}, id : Ids \cup {None}] /\ Requests'
    BY <1>7, PumpMoves DEF PumpWrite, Places, Busy, muxVars
  <2> QED BY <1>7, <2>2, <2>3, <2>4 DEF PumpWrite, Places, Typed, TypeOK, muxVars,
             verdictVars, queueVars, callVars, readerVars, supVars
<1>8. CASE PumpCut
  <2>1. Respond(pump.req, Outcome("Timeout")) /\ Outcome("Timeout") \in Outcomes
    BY <1>8, EndingIsOutcome DEF PumpCut
  <2>2. callpc' \in [Calls -> {"new", "sending", "queued", "taken", "done"}]
        /\ result' \in [Calls -> Outcomes \cup {None}]
    BY <1>8, <2>1, RespondType DEF PumpCut, AtPump, Busy, Typed, Requests
  <2>3. slot' \in [Ids -> {"unissued", "pending", "tombstoned", "answered"}]
    BY <1>8 DEF PumpCut, tombstone, Typed, TypeOK
  <2>4. pump' \in [at : Places, req : Calls \cup {None}, id : Ids \cup {None}] /\ Requests'
    BY <1>8, PumpMoves DEF PumpCut, Places, Busy
  <2>5. permits' \in Nat
    BY <1>8 DEF PumpCut, Typed, TypeOK
  <2> QED BY <1>8, <2>2, <2>3, <2>4, <2>5 DEF PumpCut, Places, Typed, TypeOK, verdictVars,
             waiterVars, readerVars, supVars, adapterVars
<1>9. CASE PumpKill
  <2>1. kill' \in {<< >>} \cup {<<m>> : m \in Kinds \cup {None}}
    BY <1>9, SendKeeps DEF PumpKill, Typed, Carried, KillCarries
  <2>2. pump' \in [at : Places, req : Calls \cup {None}, id : Ids \cup {None}] /\ Requests'
    BY <1>9, PumpMoves DEF PumpKill, Places, Busy, muxVars
  <2> QED BY <1>9, <2>1, <2>2 DEF PumpKill, Places, Typed, TypeOK, muxVars, verdictVars,
             queueVars, callVars, waiterVars, readerVars, adapterVars
<1>10. CASE PumpFinish
  <2>1. finish("Crashed") /\ "Crashed" \in Kinds \cup Ends
    BY <1>10 DEF PumpFinish, Ends
  <2>2. /\ nextId' = nextId
        /\ slot' \in [Ids -> {"unissued", "pending", "tombstoned", "answered"}]
        /\ terminal' \in Kinds \cup Ends \cup {None}
        /\ verdict' \in Kinds \cup {None}
        /\ box' \in [Ids -> Outcomes \cup {None}]
    BY <2>1, FinishType DEF Typed
  <2>3. pump' \in [at : Places, req : Calls \cup {None}, id : Ids \cup {None}] /\ Requests'
    BY <1>10, <2>2, PumpMoves DEF PumpFinish, Places, Busy
  <2> QED BY <1>10, <2>2, <2>3 DEF PumpFinish, Places, Typed, TypeOK, queueVars,
             callVars, readerVars, supVars, adapterVars
<1> QED BY <1>1, <1>2, <1>3, <1>4, <1>5, <1>6, <1>7, <1>8, <1>9, <1>10 DEF Pump

(* A waiter's steps. *)
LEMMA WaiterType == ASSUME Typed, NEW i \in Ids, Waiter(i) PROVE TypeOK' /\ Requests'
<1>1. ASSUME NEW r \in Outcomes, waiter[i] # None, WaiterDone(i, r)
      PROVE  /\ callpc' \in [Calls -> {"new", "sending", "queued", "taken", "done"}]
             /\ result' \in [Calls -> Outcomes \cup {None}]
             /\ waiter' \in [Ids -> [at : {"waiting", "elapsed"}, req : Calls] \cup {None}]
             /\ permits' \in Nat
  <2>1. waiter[i].req \in Calls
    BY <1>1 DEF Typed, TypeOK
  <2>2. waiter' = [waiter EXCEPT ![i] = None] /\ permits' = permits + 1
        /\ Respond(waiter[i].req, r)
    BY <1>1 DEF WaiterDone
  <2>3. waiter' \in [Ids -> [at : {"waiting", "elapsed"}, req : Calls] \cup {None}]
        /\ permits' \in Nat
    BY <2>2 DEF Typed, TypeOK
  <2> QED BY <2>1, <2>2, <2>3, <1>1, RespondType DEF Typed
<1>2. [box EXCEPT ![i] = None] \in [Ids -> Outcomes \cup {None}]
  BY DEF Typed, TypeOK
<1>3. CASE Delivered(i)
  <2>1. box[i] \in Outcomes /\ waiter[i] # None /\ WaiterDone(i, box[i])
        /\ box' = [box EXCEPT ![i] = None]
    BY <1>3 DEF Delivered, Waiting, Typed, TypeOK
  <2>2. UNCHANGED <<muxVars, verdictVars, queue, closing, pump, readerVars, supVars, handle,
                    adapterVars>>
    BY <1>3 DEF Delivered
  <2> QED BY <1>1, <1>2, <2>1, <2>2 DEF Typed, TypeOK, Requests, muxVars, verdictVars,
             readerVars, supVars, adapterVars
<1>4. CASE Elapse(i)
  <2>1. waiter' \in [Ids -> [at : {"waiting", "elapsed"}, req : Calls] \cup {None}]
    BY <1>4 DEF Elapse, Waiting, Typed, TypeOK
  <2>2. UNCHANGED <<muxVars, verdictVars, queueVars, callVars, pump, box, readerVars, supVars,
                    handle, adapterVars>>
    BY <1>4 DEF Elapse
  <2> QED BY <2>1, <2>2 DEF Typed, TypeOK, Requests, muxVars, verdictVars, queueVars, callVars,
             readerVars, supVars, adapterVars
<1>5. CASE Expire(i)
  <2>1. waiter[i] # None /\ WaiterDone(i, Outcome("Timeout")) /\ slot' = tombstone(slot, i)
        /\ box' = [box EXCEPT ![i] = None]
    BY <1>5 DEF Expire, Waiting
  <2>2. Outcome("Timeout") \in Outcomes
    BY EndingIsOutcome
  <2>3. slot' \in [Ids -> {"unissued", "pending", "tombstoned", "answered"}]
    BY <2>1 DEF tombstone, Typed, TypeOK
  <2>4. UNCHANGED <<nextId, terminal, verdictVars, queue, closing, pump, readerVars, supVars,
                    handle, adapterVars>>
    BY <1>5 DEF Expire
  <2>5. /\ callpc' \in [Calls -> {"new", "sending", "queued", "taken", "done"}]
        /\ result' \in [Calls -> Outcomes \cup {None}]
        /\ waiter' \in [Ids -> [at : {"waiting", "elapsed"}, req : Calls] \cup {None}]
        /\ permits' \in Nat
    BY <1>1, <2>1, <2>2
  <2>6. box' \in [Ids -> Outcomes \cup {None}]
    BY <1>2, <2>1
  <2>7. Requests'
    BY <2>4 DEF Typed, Requests
  <2>8. TypeOK'
    BY <2>3, <2>4, <2>5, <2>6 DEF Typed, TypeOK, verdictVars, readerVars, supVars, adapterVars
  <2> QED BY <2>7, <2>8
<1> QED BY <1>3, <1>4, <1>5 DEF Waiter

(* A frame the reader accepts names an id that was issued. *)
LEMMA AcceptedId ==
  ASSUME Typed, NEW f \in Frames, on_frame(f) = None
  PROVE  f.id \in Ids /\ f.id < nextId
<1>1. f.id # None /\ deliver(f.id) = None
  BY ConnectionAssumption DEF on_frame, Kinds
<1>2. f.id \in 0..IdLimit /\ ~ (f.id >= nextId)
  BY <1>1, ConnectionAssumption DEF deliver, Kinds, Frames
<1> QED BY <1>2, ConnectionAssumption DEF Ids, Typed, TypeOK

(* The reader's steps; what it carries is typed already. *)
LEMMA ReaderType == ASSUME Typed, Carried', Reader \/ ReadError PROVE TypeOK' /\ Requests'
<1>1. /\ reader' \in [at : {"reading", "publish", "kill", "done"}, kind : Kinds \cup {None}]
      /\ kill' \in {<< >>} \cup {<<m>> : m \in Kinds \cup {None}}
  BY DEF Carried, ReaderCarries, KillCarries
<1>2. CASE ReadFrame
  <2> DEFINE f == Head(stdout)
  <2>1. f \in Frames /\ stdout' \in Seq(Frames)
    BY <1>2 DEF ReadFrame, Typed, TypeOK
  <2>2. hello_done' \in BOOLEAN
    BY <1>2 DEF ReadFrame, Typed, TypeOK
  <2>3. /\ slot' \in [Ids -> {"unissued", "pending", "tombstoned", "answered"}]
        /\ box' \in [Ids -> Outcomes \cup {None}]
    <3>1. CASE on_frame(f) # None
      BY <1>2, <3>1 DEF ReadFrame, Typed, TypeOK
    <3>2. CASE on_frame(f) = None
      <4>1. f.id \in Ids /\ [is |-> "Reply", of |-> f.of] \in Outcomes
        BY <2>1, <3>2, AcceptedId DEF Frames, Outcomes
      <4>2. /\ slot' = [slot EXCEPT ![f.id] = IF @ = "pending" THEN "answered" ELSE @]
            /\ box' = [box EXCEPT ![f.id] = IF slot[f.id] = "pending"
                                            THEN [is |-> "Reply", of |-> f.of] ELSE @]
        BY <1>2, <3>2 DEF ReadFrame
      <4> HIDE DEF f
      <4>3. slot' \in [Ids -> {"unissued", "pending", "tombstoned", "answered"}]
        BY <4>1, <4>2 DEF Typed, TypeOK
      <4> DEFINE o == [is |-> "Reply", of |-> f.of]
      <4>4. o \in Outcomes /\ box' = [box EXCEPT ![f.id] = IF slot[f.id] = "pending" THEN o ELSE @]
        BY <4>1, <4>2
      <4> HIDE DEF o
      <4>5. box' \in [Ids -> Outcomes \cup {None}]
        BY <4>1, <4>4 DEF Typed, TypeOK
      <4> QED BY <4>3, <4>5
    <3> QED BY <3>1, <3>2
  <2>4. UNCHANGED <<nextId, terminal, verdictVars, queueVars, callVars, pump, waiter, supVars,
                    handle, child, asked, partial, forked, deaf>>
    BY <1>2 DEF ReadFrame
  <2>5. Requests'
    BY <2>4 DEF Typed, Requests
  <2>6. stdout' \in Seq(Frames)
    BY <2>1
  <2> HIDE DEF f
  <2>7. TypeOK'
    BY <1>1, <2>2, <2>3, <2>4, <2>6 DEF Typed, TypeOK, verdictVars, queueVars, callVars, supVars
  <2> QED BY <2>5, <2>7
<1>3. CASE ReadEof \/ ReadError
  <2>1. UNCHANGED <<muxVars, verdictVars, queueVars, callVars, pump, waiterVars, hello_done,
                    supVars, handle, adapterVars>>
    BY <1>3 DEF ReadEof, ReadError
  <2> QED BY <1>1, <2>1 DEF Typed, TypeOK, Requests, muxVars, verdictVars, queueVars, callVars,
             waiterVars, supVars, adapterVars
<1>4. CASE ReaderPublish
  <2>1. verdict' \in Kinds \cup {None}
    BY <1>4 DEF ReaderPublish, Typed, TypeOK, Carried, ReaderCarries
  <2>2. UNCHANGED <<muxVars, held, queueVars, callVars, pump, waiterVars, hello_done, supVars,
                    handle, adapterVars>>
    BY <1>4 DEF ReaderPublish
  <2> QED BY <1>1, <2>1, <2>2 DEF Typed, TypeOK, Requests, muxVars, queueVars, callVars,
             waiterVars, supVars, adapterVars
<1>5. CASE ReaderKill
  <2>1. UNCHANGED <<muxVars, verdictVars, queueVars, callVars, pump, waiterVars, hello_done, sup,
                    exited, handle, adapterVars>>
    BY <1>5 DEF ReaderKill
  <2> QED BY <1>1, <2>1 DEF Typed, TypeOK, Requests, muxVars, verdictVars, queueVars, callVars,
             waiterVars, supVars, adapterVars
<1> QED BY <1>2, <1>3, <1>4, <1>5 DEF Reader

(* The supervisor's steps; what it carries is typed already. *)
LEMMA SuperviseType == ASSUME Typed, Carried', Supervise PROVE TypeOK' /\ Requests'
<1>1. /\ sup' \in [at : {"watching", "draining", "judging", "reaping", "finishing", "done"},
                   drained : BOOLEAN, reason : Kinds \cup Ends \cup {None}]
      /\ kill' \in {<< >>} \cup {<<m>> : m \in Kinds \cup {None}}
  BY DEF Carried, SupCarries, KillCarries
<1>2. CASE SupFinish
  <2>1. finish(sup.reason) /\ sup.reason \in Kinds \cup Ends
    BY <1>2 DEF SupFinish, Typed, Carried, SupCarries
  <2>2. /\ nextId' = nextId
        /\ slot' \in [Ids -> {"unissued", "pending", "tombstoned", "answered"}]
        /\ terminal' \in Kinds \cup Ends \cup {None}
        /\ verdict' \in Kinds \cup {None}
        /\ box' \in [Ids -> Outcomes \cup {None}]
    BY <2>1, FinishType DEF Typed
  <2>3. UNCHANGED <<held, queueVars, callVars, pump, waiter, readerVars, exited, handle,
                    adapterVars>>
    BY <1>2 DEF SupFinish
  <2>4. Requests'
    BY <2>2, <2>3 DEF Typed, Requests
  <2>5. TypeOK'
    BY <1>1, <2>2, <2>3 DEF Typed, TypeOK, queueVars, callVars, readerVars, adapterVars
  <2> QED BY <2>4, <2>5
<1>3. CASE SupExit \/ SupDrain \/ SupJudge \/ SupKill \/ SupReap
  <2>1. UNCHANGED <<muxVars, verdictVars, queueVars, callVars, pump, waiterVars, readerVars,
                    handle, stdout, partial, forked, deaf>>
    BY <1>3 DEF SupExit, SupDrain, SupJudge, SupKill, SupReap, adapterVars
  <2>2. exited' \in BOOLEAN
    BY <1>3 DEF SupExit, SupDrain, SupJudge, SupKill, SupReap, Typed, TypeOK
  <2>3. child' \in {"running", "killed", "exited"} /\ asked' \subseteq Ids \X Calls
    BY <1>3 DEF SupExit, SupDrain, SupJudge, SupKill, SupReap, adapterVars, Typed, TypeOK
  <2>4. Requests'
    BY <2>1 DEF Typed, Requests, muxVars
  <2>5. TypeOK'
    BY <1>1, <2>1, <2>2, <2>3 DEF Typed, TypeOK, muxVars, verdictVars, queueVars, callVars,
       waiterVars, readerVars
  <2> QED BY <2>4, <2>5
<1> QED BY <1>2, <1>3 DEF Supervise

(* The steps of the handle. *)
HandleSteps ==
  HelloAccepted \/ HelloFailed \/ CloseBegins \/ CloseDeadline \/ CloseFinish \/ CloseEnds
    \/ Drop \/ Hold \/ Release

(* The handle keeps the types; what goes into the kill channel is legal. *)
LEMMA HandleType == ASSUME Typed, Carried', HandleSteps PROVE TypeOK' /\ Requests'
<1>1. kill' \in {<< >>} \cup {<<m>> : m \in Kinds \cup {None}}
  BY DEF Carried, KillCarries
<1> DEFINE Handles == {"hello", "failed", "open", "dropped", "closing", "held_open",
                       "eof_ignored", "finished", "closed"}
<1>2. CASE CloseFinish
  <2>1. \E x \in Kinds \cup Ends : finish(x)
    BY <1>2 DEF CloseFinish, Kinds
  <2>2. /\ nextId' = nextId
        /\ slot' \in [Ids -> {"unissued", "pending", "tombstoned", "answered"}]
        /\ terminal' \in Kinds \cup Ends \cup {None}
        /\ verdict' \in Kinds \cup {None}
        /\ box' \in [Ids -> Outcomes \cup {None}]
    BY <2>1, FinishType DEF Typed
  <2>3. UNCHANGED <<held, queueVars, callVars, pump, waiter, readerVars, supVars, adapterVars>>
    BY <1>2 DEF CloseFinish
  <2>4. handle' \in Handles
    BY <1>2 DEF CloseFinish
  <2>5. Requests'
    BY <2>2, <2>3 DEF Typed, Requests
  <2>6. TypeOK'
    BY <2>2, <2>3, <2>4 DEF Typed, TypeOK, queueVars, callVars, readerVars, supVars, adapterVars
  <2> QED BY <2>5, <2>6
<1>3. CASE ~ CloseFinish
  <2>1. UNCHANGED <<muxVars, verdict, queue, callVars, pump, waiterVars, readerVars, sup, exited,
                    adapterVars>>
    BY <1>3 DEF HandleSteps, HelloAccepted, HelloFailed, CloseBegins, CloseDeadline, CloseEnds,
       Drop, Hold, Release, verdictVars, queueVars, supVars
  <2>2. handle' \in Handles
    BY <1>3 DEF HandleSteps, HelloAccepted, HelloFailed, CloseBegins, CloseDeadline, CloseEnds,
       Drop, Hold, Release, Typed, TypeOK
  <2>3. held' \in BOOLEAN /\ closing' \in BOOLEAN
    BY <1>3 DEF HandleSteps, HelloAccepted, HelloFailed, CloseBegins, CloseDeadline, CloseEnds,
       Drop, Hold, Release, verdictVars, queueVars, Typed, TypeOK
  <2>4. permits' \in Nat
    <3>1. CASE HelloAccepted
      BY <3>1, ConnectionAssumption DEF HelloAccepted, Typed, TypeOK
    <3>2. CASE ~ HelloAccepted
      BY <1>3, <3>2 DEF HandleSteps, HelloFailed, CloseBegins, CloseDeadline, CloseEnds, Drop,
         Hold, Release, queueVars, Typed, TypeOK
    <3> QED BY <3>1, <3>2
  <2>5. Requests'
    BY <2>1 DEF Typed, Requests, muxVars
  <2>6. TypeOK'
    BY <1>1, <2>1, <2>2, <2>3, <2>4 DEF Typed, TypeOK, muxVars, callVars, waiterVars, readerVars,
       adapterVars
  <2> QED BY <2>5, <2>6
<1> QED BY <1>2, <1>3

(* A line joins the pipe. *)
LEMMA WriteType ==
  ASSUME TypeOK, NEW f \in Frames, Write(f)
  PROVE  stdout' \in Seq(Frames)
<1>1. stdout \in Seq(Frames) /\ (stdout' = stdout \/ stdout' = Append(stdout, f))
  BY DEF TypeOK, Write
<1> QED BY <1>1

(* The steps of the adapter. *)
LEMMA AdapterType == ASSUME Typed, Adapter PROVE TypeOK' /\ Requests'
<1>1. UNCHANGED hostVars
  BY DEF Adapter, Answer, Stray, BeginFrame, GoDeaf, Fork, Orphan, Exit
<1>2. child' \in {"running", "killed", "exited"} /\ asked' \subseteq Ids \X Calls
  BY DEF Adapter, Answer, Stray, BeginFrame, GoDeaf, Fork, Orphan, Exit, Typed, TypeOK
<1>3. partial' \in BOOLEAN /\ forked' \in BOOLEAN /\ deaf' \in BOOLEAN
  BY DEF Adapter, Answer, Stray, BeginFrame, GoDeaf, Fork, Orphan, Exit, Typed, TypeOK
<1>4. stdout' \in Seq(Frames)
  <2>1. CASE Answer
    <3>1. PICK q \in asked : Write([id |-> q[1], of |-> q[2]])
      BY <2>1 DEF Answer
    <3>2. q[1] \in 0..IdLimit /\ q[2] \in Calls
      BY ConnectionAssumption DEF Typed, TypeOK, Ids
    <3>3. [id |-> q[1], of |-> q[2]] \in Frames
      BY <3>2 DEF Frames
    <3> QED BY <3>1, <3>3, WriteType DEF Typed
  <2>2. CASE Stray
    <3>1. PICK i \in Strays : Write([id |-> i, of |-> None])
      BY <2>2 DEF Stray
    <3>2. [id |-> i, of |-> None] \in Frames
      BY ConnectionAssumption DEF Frames
    <3> QED BY <3>1, <3>2, WriteType DEF Typed
  <2>3. CASE Orphan
    <3>1. [id |-> None, of |-> None] \in Frames
      BY DEF Frames
    <3>2. Write([id |-> None, of |-> None]) \/ UNCHANGED stdout
      BY <2>3 DEF Orphan
    <3> QED BY <3>1, <3>2, WriteType DEF Typed, TypeOK
  <2>4. CASE BeginFrame \/ GoDeaf \/ Fork \/ Exit
    BY <2>4 DEF BeginFrame, GoDeaf, Fork, Exit, Typed, TypeOK
  <2> QED BY <2>1, <2>2, <2>3, <2>4 DEF Adapter
<1>5. Requests'
  BY <1>1 DEF hostVars, muxVars, Typed, Requests
<1>6. TypeOK'
  BY <1>1, <1>2, <1>3, <1>4 DEF hostVars, muxVars, verdictVars, queueVars, callVars, waiterVars,
     readerVars, supVars, Typed, TypeOK
<1> QED BY <1>5, <1>6

(* At the start everything is typed. *)
LEMMA TypedInit == Init => Typed
<1> SUFFICES ASSUME Init PROVE Typed
  OBVIOUS
<1>1. Requests
  BY DEF Init, Requests, Busy
<1>2. /\ nextId \in 0..IdLimit /\ IdLimit \in Nat
      /\ << >> \in Seq(Calls) /\ << >> \in Seq(Frames) /\ Len(queue) <= QueueCapacity
  BY ConnectionAssumption DEF Init
<1>3. TypeOK
  BY <1>2 DEF Init, TypeOK
<1> QED BY <1>1, <1>3, CarriedInit DEF Typed

(* A step keeps the types, what it carries being legal. *)
LEMMA TypedStep == ASSUME Typed, Carried', [Next]_vars PROVE Typed'
<1>1. CASE UNCHANGED vars
  BY <1>1 DEF vars, muxVars, verdictVars, queueVars, callVars, waiterVars, readerVars, supVars,
     adapterVars, Typed, TypeOK, Requests
<1>2. CASE Next
  BY <1>2, CallingType, WaiterType, PumpType, ReaderType, SuperviseType, HandleType, AdapterType
     DEF Next, Handle, HandleSteps, Typed
<1> QED BY <1>1, <1>2

(* The multiplexer, its tasks, the supervisor and the handle keep their types
   (MuxInner, its slots and the channels of mux.rs, supervise, AdapterHandle). *)
THEOREM TypeInvariant == Spec => [](TypeOK /\ Requests)
<1>1. Init => Typed
  BY TypedInit
<1>2. Typed /\ Carried' /\ [Next]_vars => Typed'
  BY TypedStep
<1>3. Typed => TypeOK /\ Requests
  BY DEF Typed
<1> QED BY <1>1, <1>2, <1>3, CarriedAlways, PTL DEF Spec

-----------------------------------------------------------------------------
(* The adapter was asked i for call c, and nothing it said of i, in the pipe
   or at the oneshot, was meant for another. *)
MeantFor(i, c) ==
  /\ \A q \in asked : q[1] = i => q[2] = c
  /\ \A k \in 1..Len(stdout) : stdout[k].id = i => stdout[k].of \in {c, None}
  /\ box[i] # None => box[i].of \in {c, None}

(* An id nobody has been asked yet. *)
Unasked(i) == i >= nextId \/ (pump.at = "write" /\ pump.id = i)

(* An id stands for one request, from the moment it goes out. *)
Attributed ==
  \A i \in Ids :
    /\ waiter[i] # None => MeantFor(i, waiter[i].req)
    /\ Unasked(i) => waiter[i] = None /\ MeantFor(i, None)

(* A result tells of the call's own reply, and of the one end there was. *)
Told(r) == r # None /\ r.is \in Kinds \cup Ends => r.is = terminal

Truthful ==
  /\ \A i \in Ids : Told(box[i])
  /\ \A c \in Calls : Told(result[c])
  /\ \A c \in Calls : result[c] # None => result[c].of \in {c, None}

(* A queued request is nowhere else. *)
Queued ==
  pump.at # "stopped" =>
    /\ \A k \in 1..Len(queue) : callpc[queue[k]] = "queued"
    /\ \A j, k \in 1..Len(queue) : queue[j] = queue[k] => j = k

(* What left the queue is not in it again. *)
Taken ==
  /\ pump.at \in Busy => callpc[pump.req] \in {"taken", "done"}
  /\ \A i \in Ids : waiter[i] # None => callpc[waiter[i].req] \in {"taken", "done"}

(* Once close has begun nobody borrows the handle. *)
Closes == {"closing", "held_open", "eof_ignored", "finished", "closed"}

Quiet ==
  /\ closing => handle \in Closes
  /\ handle \in Closes => \A c \in Calls : callpc[c] \in {"new", "done"}
  /\ pump.at = "stopped" => terminal # None \/ handle \in Closes

Answers == Attributed /\ Truthful /\ Queued /\ Taken /\ Quiet

(* What a step leaves of what an id was asked and answered: no waiter for it,
   and nothing in its name, that was not there before. *)
SameWaiters ==
  \A i \in Ids : waiter'[i] # None => waiter[i] # None /\ waiter'[i].req = waiter[i].req

SamePipe ==
  /\ asked' \subseteq asked
  /\ \A k \in 1..Len(stdout') :
       \/ stdout'[k].of = None
       \/ \E j \in 1..Len(stdout) : stdout'[k] = stdout[j]
       \/ \E q \in asked : stdout'[k] = [id |-> q[1], of |-> q[2]]

SameBoxes ==
  \A i \in Ids :
    \/ box'[i] \in {None, box[i]}
    \/ box'[i].of = None
    \/ \E j \in 1..Len(stdout) : stdout[j].id = i /\ box'[i].of = stdout[j].of

SameIds == \A i \in Ids : Unasked(i)' => Unasked(i)

(* Nothing said in an id's name changes its addressee. *)
LEMMA MeantForKeeps ==
  ASSUME SamePipe, SameBoxes, NEW i \in Ids, NEW c, MeantFor(i, c)
  PROVE  MeantFor(i, c)'
<1>1. \A q \in asked' : q[1] = i => q[2] = c
  BY DEF SamePipe, MeantFor
<1>2. ASSUME NEW k \in 1..Len(stdout'), stdout'[k].id = i
      PROVE  stdout'[k].of \in {c, None}
  <2>1. CASE \E j \in 1..Len(stdout) : stdout'[k] = stdout[j]
    BY <1>2, <2>1 DEF MeantFor
  <2>2. CASE \E q \in asked : stdout'[k] = [id |-> q[1], of |-> q[2]]
    BY <1>2, <2>2 DEF MeantFor
  <2> QED BY <1>2, <2>1, <2>2 DEF SamePipe
<1>3. box'[i] # None => box'[i].of \in {c, None}
  BY DEF SameBoxes, MeantFor
<1> QED BY <1>1, <1>2, <1>3 DEF MeantFor

(* A step that adds no waiter and no answer keeps the attribution. *)
LEMMA AttributedKeeps ==
  ASSUME Attributed, SameWaiters, SamePipe, SameBoxes, SameIds
  PROVE  Attributed'
<1>1. ASSUME NEW i \in Ids, waiter'[i] # None
      PROVE  MeantFor(i, waiter[i].req)'
  <2>1. PICK c : c = waiter[i].req /\ c = waiter'[i].req
    BY <1>1 DEF SameWaiters
  <2>2. MeantFor(i, c)
    BY <1>1, <2>1 DEF Attributed, SameWaiters
  <2>3. MeantFor(i, c)'
    BY <2>2, MeantForKeeps
  <2> QED BY <2>1, <2>3 DEF MeantFor
<1>2. ASSUME NEW i \in Ids, Unasked(i)'
      PROVE  waiter'[i] = None /\ MeantFor(i, None)'
  BY <1>2, MeantForKeeps DEF Attributed, SameIds, SameWaiters
<1> QED BY <1>1, <1>2 DEF Attributed

(* What is left alone, and what the end of a connection does. *)
LEMMA PipeUnchanged == ASSUME UNCHANGED <<asked, stdout>> PROVE SamePipe
BY DEF SamePipe

(* No id is issued: the unasked ones stay the unasked ones. *)
LEMMA IdsUnchanged ==
  ASSUME UNCHANGED nextId, pump'.at = "write" => UNCHANGED pump
  PROVE  SameIds
BY DEF SameIds, Unasked

(* The end of a connection answers nobody with a reply. *)
LEMMA FinishBoxes ==
  ASSUME NEW x, finish(x)
  PROVE  SameBoxes
<1>1. CASE terminal # None
  BY <1>1 DEF finish, SameBoxes
<1>2. CASE terminal = None
  <2>1. \A i \in Ids : box'[i] = IF slot[i] = "pending" THEN Outcome(x) ELSE box[i]
    BY <1>2 DEF finish
  <2>2. Outcome(x).of = None
    BY DEF Outcome
  <2> QED BY <2>1, <2>2 DEF SameBoxes
<1> QED BY <1>1, <1>2

(* A finish changes no id and no waiter. *)
LEMMA FinishIds == ASSUME NEW x, finish(x) PROVE UNCHANGED nextId
BY DEF finish, muxVars

(* The pump: an id is asked once, by the write that follows its issue. *)
LEMMA AttributedPump == ASSUME Typed, Attributed, Pump PROVE Attributed'
<1>1. CASE PumpRecv \/ PumpClose \/ PumpAdmit \/ PumpPermit \/ PumpRecheck \/ PumpKill
  <2>1. UNCHANGED <<nextId, waiter, box, asked, stdout>>
    BY <1>1 DEF PumpRecv, PumpClose, PumpAdmit, PumpPermit, PumpRecheck, PumpKill, muxVars,
       waiterVars, adapterVars
  <2>2. pump'.at # "write"
    BY <1>1 DEF PumpRecv, PumpClose, PumpAdmit, PumpPermit, PumpRecheck, PumpKill, PumpTo, AtPump,
       Typed, TypeOK
  <2> QED BY <2>1, <2>2, AttributedKeeps, PipeUnchanged, IdsUnchanged DEF SameWaiters, SameBoxes
<1>2. CASE PumpIssue
  <2>1. UNCHANGED <<waiter, box, asked, stdout>>
    BY <1>2 DEF PumpIssue, waiterVars, adapterVars
  <2>2. SameIds
    <3>1. CASE nextId = IdLimit
      <4>1. UNCHANGED nextId /\ pump'.at # "write"
        BY <1>2, <3>1, ConnectionAssumption DEF PumpIssue, PumpTo, muxVars, Typed, TypeOK
      <4> QED BY <4>1, IdsUnchanged
    <3>2. CASE nextId < IdLimit
      <4>1. nextId \in Int /\ nextId # IdLimit
        BY <3>2, ConnectionAssumption DEF Typed, TypeOK
      <4>2. nextId' = nextId + 1 /\ pump' = [pump EXCEPT !.at = "write", !.id = nextId]
        BY <1>2, <4>1 DEF PumpIssue
      <4>3. pump'.id = nextId
        BY <4>2 DEF Typed, TypeOK
      <4> QED BY <4>1, <4>2, <4>3 DEF SameIds, Unasked, Ids
    <3> QED BY <1>2, <3>1, <3>2 DEF PumpIssue
  <2> QED BY <2>1, <2>2, AttributedKeeps, PipeUnchanged DEF SameWaiters, SameBoxes
<1>3. CASE PumpWrite
  <2>p. PICK p, r : p = pump.id /\ r = pump.req
    OBVIOUS
  <2>1. /\ r \in Calls /\ p \in Ids /\ p < nextId
        /\ waiter \in [Ids -> [at : {"waiting", "elapsed"}, req : Calls] \cup {None}]
        /\ asked \subseteq Ids \X Calls /\ None \notin Calls
    BY <1>3, <2>p, ConnectionAssumption DEF PumpWrite, AtPump, Busy, Typed, Requests, TypeOK
  <2>2. UNCHANGED <<nextId, box, stdout>>
    BY <1>3 DEF PumpWrite, muxVars
  <2>3. asked' \subseteq asked \cup {<<p, r>>}
    BY <1>3, <2>p DEF PumpWrite
  <2>4. /\ waiter' = [waiter EXCEPT ![p] = [at |-> "waiting", req |-> r]]
        /\ pump.at = "write" /\ pump'.at # "write"
    BY <1>3, <2>p DEF PumpWrite, PumpTo, AtPump, Typed, TypeOK
  <2>5. waiter[p] = None /\ MeantFor(p, None)
    BY <2>1, <2>4, <2>p DEF Attributed, Unasked
  <2>6. MeantFor(p, r)'
    BY <2>1, <2>2, <2>3, <2>5 DEF MeantFor
  <2>7. ASSUME NEW i \in Ids, i # p, NEW c, MeantFor(i, c) PROVE MeantFor(i, c)'
    BY <2>7, <2>2, <2>3 DEF MeantFor
  <2>8. ASSUME NEW i \in Ids, waiter'[i] # None
        PROVE  MeantFor(i, waiter[i].req)'
    <3>1. CASE i = p
      <4>1. (waiter[i].req)' = r
        BY <2>1, <2>4, <3>1
      <4> QED BY <4>1, <2>6, <3>1 DEF MeantFor
    <3>2. CASE i # p
      <4>1. waiter'[i] = waiter[i] /\ MeantFor(i, waiter[i].req)
        BY <2>4, <2>1, <2>8, <3>2 DEF Attributed
      <4>2. PICK c : c = waiter[i].req
        OBVIOUS
      <4>3. MeantFor(i, c)'
        BY <4>1, <4>2, <2>7, <3>2
      <4> QED BY <4>1, <4>2, <4>3 DEF MeantFor
    <3> QED BY <3>1, <3>2
  <2>9. ASSUME NEW i \in Ids, Unasked(i)'
        PROVE  waiter'[i] = None /\ MeantFor(i, None)'
    <3>1. i >= nextId /\ i # p
      BY <2>9, <2>1, <2>2, <2>4 DEF Unasked, Ids, Typed, TypeOK
    <3>2. waiter[i] = None /\ MeantFor(i, None)
      BY <3>1 DEF Attributed, Unasked
    <3> QED BY <3>1, <3>2, <2>4, <2>7
  <2> QED BY <2>8, <2>9 DEF Attributed
<1>4. CASE PumpCut
  <2>1. UNCHANGED <<nextId, waiter, box, asked, stdout>>
    BY <1>4 DEF PumpCut, waiterVars, adapterVars
  <2>2. pump'.at # "write"
    BY <1>4 DEF PumpCut, PumpTo, Typed, TypeOK
  <2> QED BY <2>1, <2>2, AttributedKeeps, PipeUnchanged, IdsUnchanged DEF SameWaiters, SameBoxes
<1>5. CASE PumpFinish
  <2>1. UNCHANGED <<nextId, waiter, asked, stdout>> /\ SameBoxes
    BY <1>5, FinishIds, FinishBoxes DEF PumpFinish, adapterVars
  <2>2. pump'.at # "write"
    BY <1>5 DEF PumpFinish, PumpTo, Typed, TypeOK
  <2> QED BY <2>1, <2>2, AttributedKeeps, PipeUnchanged, IdsUnchanged DEF SameWaiters
<1> QED BY <1>1, <1>2, <1>3, <1>4, <1>5 DEF Pump

(* A waiter takes its own answer or gives it up. *)
LEMMA AttributedWaiter ==
  ASSUME Typed, Attributed, NEW i \in Ids, Waiter(i) PROVE Attributed'
<1>1. UNCHANGED <<nextId, pump, asked, stdout>>
  BY DEF Waiter, Delivered, Elapse, Expire, muxVars, adapterVars
<1>2. SameWaiters
  BY DEF Waiter, Delivered, Elapse, Expire, Waiting, WaiterDone, SameWaiters, Typed, TypeOK
<1>3. SameBoxes
  BY DEF Waiter, Delivered, Elapse, Expire, SameBoxes, Typed, TypeOK
<1> QED BY <1>1, <1>2, <1>3, AttributedKeeps, PipeUnchanged, IdsUnchanged

(* The reader hands a frame to the id it names. *)
LEMMA AttributedReader ==
  ASSUME Typed, Attributed, Reader \/ ReadError PROVE Attributed'
<1>1. UNCHANGED <<nextId, pump, waiter, asked>>
  BY DEF Reader, ReadError, ReadFrame, ReadEof, ReaderPublish, ReaderKill, muxVars, waiterVars,
     adapterVars
<1>2. CASE ReadFrame
  <2>1. stdout \in Seq(Frames) /\ stdout # << >> /\ stdout' = Tail(stdout)
    BY <1>2 DEF ReadFrame, Typed, TypeOK
  <2>2. SamePipe
    <3>1. \A k \in 1..Len(stdout') : k + 1 \in 1..Len(stdout) /\ stdout'[k] = stdout[k + 1]
      BY <2>1
    <3> QED BY <1>1, <3>1 DEF SamePipe
  <2>3. SameBoxes
    <3>1. 1 \in 1..Len(stdout) /\ Head(stdout) = stdout[1]
      BY <2>1
    <3>2. UNCHANGED box \/ box' = [box EXCEPT ![Head(stdout).id] =
                   IF slot[Head(stdout).id] = "pending"
                   THEN [is |-> "Reply", of |-> Head(stdout).of] ELSE @]
      BY <1>2 DEF ReadFrame
    <3>3. ASSUME NEW i \in Ids
          PROVE  box'[i] = box[i] \/ (stdout[1].id = i /\ box'[i].of = stdout[1].of)
      BY <3>1, <3>2 DEF Typed, TypeOK
    <3> QED BY <3>1, <3>3 DEF SameBoxes
  <2> QED BY <1>1, <2>2, <2>3, AttributedKeeps, IdsUnchanged DEF SameWaiters
<1>3. CASE ~ ReadFrame
  <2>1. UNCHANGED <<box, stdout>>
    BY <1>3 DEF Reader, ReadError, ReadEof, ReaderPublish, ReaderKill, waiterVars, adapterVars
  <2> QED BY <1>1, <2>1, AttributedKeeps, PipeUnchanged, IdsUnchanged DEF SameWaiters, SameBoxes
<1> QED BY <1>2, <1>3

(* The supervisor answers nobody. *)
LEMMA AttributedSupervise == ASSUME Typed, Attributed, Supervise PROVE Attributed'
<1>1. UNCHANGED <<nextId, pump, waiter>> /\ SameBoxes
  BY FinishBoxes, FinishIds DEF Supervise, SupExit, SupDrain, SupJudge, SupKill, SupReap, SupFinish,
     muxVars, waiterVars, SameBoxes
<1>2. SamePipe
  BY DEF Supervise, SupExit, SupDrain, SupJudge, SupKill, SupReap, SupFinish, adapterVars, SamePipe
<1> QED BY <1>1, <1>2, AttributedKeeps, IdsUnchanged DEF SameWaiters

(* The handle answers nobody. *)
LEMMA AttributedHandle == ASSUME Typed, Attributed, HandleSteps PROVE Attributed'
<1>1. UNCHANGED <<nextId, pump, waiter, asked, stdout>> /\ SameBoxes
  BY FinishBoxes, FinishIds DEF HandleSteps, HelloAccepted, HelloFailed, CloseBegins,
     CloseDeadline, CloseFinish, CloseEnds, Drop, Hold, Release, muxVars, waiterVars, adapterVars,
     SameBoxes
<1> QED BY <1>1, AttributedKeeps, PipeUnchanged, IdsUnchanged DEF SameWaiters

(* The adapter answers what it was asked; its strays are meant for nobody. *)
LEMMA AttributedAdapter == ASSUME Typed, Attributed, Adapter PROVE Attributed'
<1>1. UNCHANGED <<nextId, pump, waiter, box>>
  BY DEF Adapter, Answer, Stray, BeginFrame, GoDeaf, Fork, Orphan, Exit, hostVars, muxVars, waiterVars
<1>2. asked' \subseteq asked
  BY DEF Adapter, Answer, Stray, BeginFrame, GoDeaf, Fork, Orphan, Exit
<1>3. \/ UNCHANGED stdout
      \/ \E f : /\ stdout' = Append(stdout, f)
                /\ f.of = None \/ \E q \in asked : f = [id |-> q[1], of |-> q[2]]
  <2>1. CASE Answer
    BY <2>1 DEF Answer, Write
  <2>2. CASE Stray \/ Orphan
    <3>1. \A i : [id |-> i, of |-> None].of = None
      OBVIOUS
    <3> QED BY <2>2, <3>1 DEF Stray, Orphan, Write
  <2>3. CASE BeginFrame \/ GoDeaf \/ Fork \/ Exit
    BY <2>3 DEF BeginFrame, GoDeaf, Fork, Exit
  <2> QED BY <2>1, <2>2, <2>3 DEF Adapter
<1>4. SamePipe
  <2>1. CASE UNCHANGED stdout
    BY <1>2, <2>1 DEF SamePipe
  <2>2. ASSUME NEW f, stdout' = Append(stdout, f),
               f.of = None \/ \E q \in asked : f = [id |-> q[1], of |-> q[2]]
        PROVE  SamePipe
    <3>1. stdout \in Seq(Frames)
      BY DEF Typed, TypeOK
    <3>2. \A k \in 1..Len(stdout') : stdout'[k] = f \/ (k \in 1..Len(stdout) /\ stdout'[k] = stdout[k])
      BY <2>2, <3>1
    <3> QED BY <1>2, <2>2, <3>2 DEF SamePipe
  <2> QED BY <1>3, <2>1, <2>2
<1> QED BY <1>1, <1>4, AttributedKeeps, IdsUnchanged DEF SameWaiters, SameBoxes

(* Every step keeps the attribution. *)
LEMMA AttributedStep == ASSUME Typed, Attributed, [Next]_vars PROVE Attributed'
<1>1. CASE UNCHANGED vars \/ Calling
  <2>1. UNCHANGED <<nextId, pump, waiter, box, asked, stdout>>
    BY <1>1 DEF vars, Calling, StartCall, Enqueue, Abandoned, muxVars, waiterVars, adapterVars
  <2> QED BY <2>1, AttributedKeeps, PipeUnchanged, IdsUnchanged DEF SameWaiters, SameBoxes
<1> QED BY <1>1, AttributedPump, AttributedWaiter, AttributedReader, AttributedSupervise,
           AttributedHandle, AttributedAdapter DEF Next, Handle, HandleSteps, Calling

-----------------------------------------------------------------------------
(* A result a call may be given: its own reply, or an end that is the end. *)
Honest(c, r) == r.of \in {c, None} /\ (r.is \in Kinds \cup Ends => r.is = terminal')

SameResults == \A c \in Calls : result'[c] = result[c] \/ Honest(c, result'[c])

TrueBoxes ==
  \A i \in Ids : box'[i] \in {None, box[i]} \/ box'[i].is \in {"Reply", terminal'}

(* New results that are honest keep the results truthful. *)
LEMMA TruthfulKeeps ==
  ASSUME Truthful, terminal = None \/ UNCHANGED terminal, SameResults, TrueBoxes
  PROVE  Truthful'
<1>1. \A r : Told(r) => (r # None /\ r.is \in Kinds \cup Ends => r.is = terminal')
  BY ConnectionAssumption DEF Told
<1>2. \A i \in Ids : Told(box[i])'
  <2> SUFFICES ASSUME NEW i \in Ids PROVE Told(box[i])'
    OBVIOUS
  <2>1. "Reply" \notin Kinds \cup Ends
    BY DEF Kinds, Ends
  <2> QED BY <1>1, <2>1 DEF Truthful, TrueBoxes, Told
<1>3. \A c \in Calls : Told(result[c])' /\ (result'[c] # None => result'[c].of \in {c, None})
  BY <1>1 DEF Truthful, SameResults, Honest, Told
<1> QED BY <1>2, <1>3 DEF Truthful

(* Only the call that returns gets a result. *)
LEMMA RespondHonest ==
  ASSUME Typed, NEW c \in Calls, NEW r, Respond(c, r), Honest(c, r)
  PROVE  SameResults
BY DEF Respond, SameResults, Typed, TypeOK

(* What the host says of its own accord. *)
LEMMA OutcomeHonest ==
  ASSUME NEW c, NEW x, x \in {"Timeout", "IdsExhausted"} \/ x = terminal'
  PROVE  Honest(c, Outcome(x))
BY DEF Honest, Outcome, Kinds, Ends

(* The end of a connection tells every pending request what it ended for. *)
LEMMA FinishTells ==
  ASSUME NEW x, finish(x)
  PROVE  TrueBoxes /\ (terminal = None \/ UNCHANGED terminal)
<1>1. CASE terminal # None
  BY <1>1 DEF finish, TrueBoxes, muxVars
<1>2. CASE terminal = None
  <2>1. \A i \in Ids : box'[i] = IF slot[i] = "pending" THEN Outcome(x) ELSE box[i]
    BY <1>2 DEF finish
  <2>2. Outcome(x).is = x /\ terminal' = x
    BY <1>2 DEF Outcome, finish
  <2> QED BY <1>2, <2>1, <2>2 DEF TrueBoxes
<1> QED BY <1>1, <1>2

(* A call refused is told the reason there is: a pump that stopped has left one. *)
LEMMA TruthfulCalling ==
  ASSUME Typed, Truthful, Quiet, NEW c \in Calls, StartCall(c) \/ Enqueue(c) \/ Abandoned(c)
  PROVE  Truthful'
<1>1. UNCHANGED <<terminal, box>>
  BY DEF StartCall, Enqueue, Abandoned, muxVars, waiterVars
<1>2. SameResults
  <2>1. CASE StartCall(c) /\ terminal # None
    BY <1>1, <2>1, RespondHonest, OutcomeHonest DEF StartCall
  <2>2. CASE (StartCall(c) /\ terminal = None) \/ Enqueue(c)
    BY <2>2 DEF StartCall, Enqueue, SameResults
  <2>3. CASE Abandoned(c)
    <3>1. terminal # None
      BY <2>3 DEF Abandoned, Quiet
    <3> QED BY <1>1, <2>3, <3>1, RespondHonest, OutcomeHonest DEF Abandoned, terminal_error
  <2> QED BY <2>1, <2>2, <2>3
<1> QED BY <1>1, <1>2, TruthfulKeeps DEF TrueBoxes

(* The pump refuses with the terminal reason, or ends the connection. *)
LEMMA TruthfulPump == ASSUME Typed, Truthful, Pump PROVE Truthful'
<1>1. CASE PumpFinish
  BY <1>1, FinishTells, TruthfulKeeps DEF PumpFinish, callVars, SameResults
<1>2. CASE ~ PumpFinish
  <2>1. UNCHANGED <<terminal, box>>
    BY <1>2 DEF Pump, PumpRecv, PumpClose, PumpAdmit, PumpPermit, PumpRecheck, PumpIssue,
       PumpWrite, PumpCut, PumpKill, muxVars, waiterVars
  <2>2. \/ UNCHANGED result
        \/ /\ pump.at \in Busy
           /\ \/ Refuse
              \/ Respond(pump.req, Outcome("IdsExhausted"))
              \/ Respond(pump.req, Outcome("Timeout"))
    BY <1>2 DEF Pump, PumpRecv, PumpClose, PumpAdmit, PumpPermit, PumpRecheck, PumpIssue,
       PumpWrite, PumpCut, PumpKill, callVars, AtPump, Busy
  <2>3. SameResults
    <3>1. CASE UNCHANGED result
      BY <3>1 DEF SameResults
    <3>2. ASSUME pump.at \in Busy, NEW x, x \in {"Timeout", "IdsExhausted"} \/ x = terminal,
                 Respond(pump.req, Outcome(x))
          PROVE  SameResults
      BY <2>1, <3>2, RespondHonest, OutcomeHonest DEF Typed, Requests
    <3> QED BY <2>2, <3>1, <3>2 DEF Refuse
  <2> QED BY <2>1, <2>3, TruthfulKeeps DEF TrueBoxes
<1> QED BY <1>1, <1>2

(* A waiter returns what its oneshot holds. *)
LEMMA TruthfulWaiter ==
  ASSUME Typed, Truthful, Attributed, NEW i \in Ids, Waiter(i)
  PROVE  Truthful'
<1>1. UNCHANGED terminal
  BY DEF Waiter, Delivered, Elapse, Expire, muxVars
<1>2. TrueBoxes
  BY DEF Waiter, Delivered, Elapse, Expire, TrueBoxes, Typed, TypeOK
<1>3. waiter[i] # None => waiter[i].req \in Calls
  BY DEF Typed, TypeOK
<1>4. SameResults
  <2>1. CASE Delivered(i)
    <3>1. waiter[i] # None /\ box[i] # None /\ Respond(waiter[i].req, box[i])
      BY <2>1 DEF Delivered, Waiting, WaiterDone
    <3>2. Honest(waiter[i].req, box[i])
      BY <1>1, <3>1 DEF Attributed, MeantFor, Truthful, Told, Honest
    <3> QED BY <1>3, <3>1, <3>2, RespondHonest
  <2>2. CASE Elapse(i)
    BY <2>2 DEF Elapse, callVars, SameResults
  <2>3. CASE Expire(i)
    <3>1. waiter[i] # None /\ Respond(waiter[i].req, Outcome("Timeout"))
      BY <2>3 DEF Expire, Waiting, WaiterDone
    <3> QED BY <1>3, <3>1, RespondHonest, OutcomeHonest
  <2> QED BY <2>1, <2>2, <2>3 DEF Waiter
<1> QED BY <1>1, <1>2, <1>4, TruthfulKeeps

(* The reader delivers replies only. *)
LEMMA TruthfulReader == ASSUME Typed, Truthful, Reader \/ ReadError PROVE Truthful'
<1>1. UNCHANGED <<terminal, result>>
  BY DEF Reader, ReadError, ReadFrame, ReadEof, ReaderPublish, ReaderKill, muxVars, callVars
<1>2. TrueBoxes
  <2>1. CASE ReadFrame
    <3>1. UNCHANGED box \/ box' = [box EXCEPT ![Head(stdout).id] =
                   IF slot[Head(stdout).id] = "pending"
                   THEN [is |-> "Reply", of |-> Head(stdout).of] ELSE @]
      BY <2>1 DEF ReadFrame
    <3> QED BY <3>1 DEF TrueBoxes, Typed, TypeOK
  <2>2. CASE ~ ReadFrame
    BY <2>2 DEF Reader, ReadError, ReadEof, ReaderPublish, ReaderKill, waiterVars, TrueBoxes
  <2> QED BY <2>1, <2>2
<1> QED BY <1>1, <1>2, TruthfulKeeps DEF SameResults

(* The other tasks give no call a result. *)
LEMMA TruthfulElsewhere ==
  ASSUME Truthful, Supervise \/ HandleSteps \/ Adapter \/ UNCHANGED vars
  PROVE  Truthful'
<1>1. UNCHANGED result
  BY DEF Supervise, SupExit, SupDrain, SupJudge, SupKill, SupReap, SupFinish, HandleSteps,
     HelloAccepted, HelloFailed, CloseBegins, CloseDeadline, CloseFinish, CloseEnds, Drop, Hold,
     Release, Adapter, Answer, Stray, BeginFrame, GoDeaf, Fork, Orphan, Exit, vars, hostVars, callVars
<1>2. TrueBoxes /\ (terminal = None \/ UNCHANGED terminal)
  <2>1. CASE SupFinish \/ CloseFinish
    BY <2>1, FinishTells DEF SupFinish, CloseFinish
  <2>2. CASE ~ SupFinish /\ ~ CloseFinish
    BY <2>2 DEF Supervise, SupExit, SupDrain, SupJudge, SupKill, SupReap, HandleSteps,
       HelloAccepted, HelloFailed, CloseBegins, CloseDeadline, CloseEnds, Drop, Hold, Release,
       Adapter, Answer, Stray, BeginFrame, GoDeaf, Fork, Orphan, Exit, vars, hostVars, muxVars,
       waiterVars, TrueBoxes
  <2> QED BY <2>1, <2>2
<1> QED BY <1>1, <1>2, TruthfulKeeps DEF SameResults

-----------------------------------------------------------------------------
Order == Queued /\ Taken /\ Quiet

(* A request goes from the queue to the pump and on to its end; with the
   handle closed none starts. *)
Onward ==
  \A c \in Calls :
    /\ pump.at # "stopped" /\ callpc[c] = "queued" => callpc'[c] = "queued"
    /\ callpc[c] \in {"taken", "done"} => callpc'[c] \in {"taken", "done"}
    /\ handle \in Closes /\ callpc[c] \in {"new", "done"} => callpc'[c] \in {"new", "done"}

SamePump ==
  /\ pump'.at \in Busy => pump.at \in Busy /\ pump'.req = pump.req
  /\ pump'.at = "stopped" <=> pump.at = "stopped"

SameHandle ==
  /\ closing' => closing
  /\ handle' \in Closes <=> handle \in Closes
  /\ terminal # None => terminal' # None

(* The queue is as it was, and so are its calls. *)
LEMMA QueuedKeeps ==
  ASSUME Typed, Queued, UNCHANGED queue, Onward, pump'.at # "stopped" => pump.at # "stopped"
  PROVE  Queued'
<1>1. \A k \in 1..Len(queue) : queue[k] \in Calls
  BY DEF Typed, TypeOK
<1> QED BY <1>1 DEF Queued, Onward

(* What left the queue has not come back. *)
LEMMA TakenKeeps ==
  ASSUME Typed, Taken, Onward, SameWaiters, SamePump
  PROVE  Taken'
<1>1. /\ pump.at \in Busy => pump.req \in Calls
      /\ \A i \in Ids : waiter[i] # None => waiter[i].req \in Calls
  BY DEF Typed, TypeOK, Requests
<1> QED BY <1>1 DEF Taken, Onward, SameWaiters, SamePump

(* A closed handle stays quiet. *)
LEMMA QuietKeeps ==
  ASSUME Quiet, Onward, SameHandle, pump'.at = "stopped" => pump.at = "stopped"
  PROVE  Quiet'
BY DEF Quiet, Onward, SameHandle

(* A step that moves no request in or out of the queue. *)
LEMMA OrderKeeps ==
  ASSUME Typed, Order, UNCHANGED queue, Onward, SameWaiters, SamePump, SameHandle
  PROVE  Order'
BY QueuedKeeps, TakenKeeps, QuietKeeps DEF Order, SamePump

(* A call that is not in the queue may return. *)
LEMMA RespondOnward ==
  ASSUME Typed, NEW c \in Calls, NEW r, Respond(c, r),
         pump.at # "stopped" => callpc[c] # "queued"
  PROVE  Onward
BY DEF Respond, Onward, Typed, TypeOK

(* A call joins the queue once. *)
LEMMA OrderCalling ==
  ASSUME Typed, Order, NEW c \in Calls, StartCall(c) \/ Enqueue(c) \/ Abandoned(c)
  PROVE  Order'
<1>1. UNCHANGED <<closing, handle, terminal, pump, waiter>>
  BY DEF StartCall, Enqueue, Abandoned, muxVars, queueVars, waiterVars
<1>2. SameWaiters /\ SamePump /\ SameHandle
  BY <1>1 DEF SameWaiters, SamePump, SameHandle
<1>3. CASE StartCall(c)
  <2>1. CASE terminal # None
    BY <1>2, <1>3, <2>1, RespondOnward, OrderKeeps DEF StartCall, queueVars
  <2>2. CASE terminal = None
    <3>1. Onward
      BY <1>3, <2>2 DEF StartCall, Onward, Closes, Typed, TypeOK
    <3> QED BY <1>2, <1>3, <3>1, OrderKeeps DEF StartCall, queueVars
  <2> QED BY <2>1, <2>2
<1>4. CASE Enqueue(c)
  <2>1. callpc[c] = "sending" /\ callpc' = [callpc EXCEPT ![c] = "queued"] /\ queue' = Append(queue, c)
    BY <1>4 DEF Enqueue
  <2>2. handle \notin Closes
    BY <2>1 DEF Order, Quiet
  <2>3. Onward
    BY <2>1, <2>2 DEF Onward, Typed, TypeOK
  <2>4. Taken' /\ Quiet'
    BY <1>1, <1>2, <2>3, TakenKeeps, QuietKeeps DEF Order
  <2>5. Queued'
    <3> SUFFICES ASSUME pump.at # "stopped"
                 PROVE  /\ \A k \in 1..Len(queue') : callpc'[queue'[k]] = "queued"
                        /\ \A j, k \in 1..Len(queue') : queue'[j] = queue'[k] => j = k
      BY <1>1 DEF Queued
    <3>1. /\ Len(queue) \in Nat /\ Len(queue') = Len(queue) + 1
          /\ queue'[Len(queue) + 1] = c
          /\ \A k \in 1..Len(queue) : queue'[k] = queue[k] /\ queue[k] \in Calls
      BY <2>1 DEF Typed, TypeOK
    <3>2. \A k \in 1..Len(queue) : callpc[queue[k]] = "queued" /\ queue[k] # c
      BY <2>1 DEF Order, Queued
    <3>3. \A k \in 1..Len(queue) : callpc'[queue'[k]] = "queued" /\ queue'[k] # c
      BY <2>1, <3>1, <3>2 DEF Typed, TypeOK
    <3>4. callpc'[c] = "queued"
      BY <2>1 DEF Typed, TypeOK
    <3>5. \A k \in 1..Len(queue') : k \in 1..Len(queue) \/ k = Len(queue) + 1
      BY <3>1
    <3> QED BY <3>1, <3>3, <3>4, <3>5 DEF Order, Queued
  <2> QED BY <2>4, <2>5 DEF Order
<1>5. CASE Abandoned(c)
  BY <1>2, <1>5, RespondOnward, OrderKeeps DEF Abandoned, queueVars
<1> QED BY <1>3, <1>4, <1>5

(* The pump takes the head of the queue, or stops. *)
LEMMA OrderPump == ASSUME Typed, Order, Pump PROVE Order'
<1>1. CASE PumpRecv
  <2> DEFINE h == Head(queue)
  <2>1. /\ pump.at = "recv" /\ pump' = [at |-> "admit", req |-> h, id |-> None]
        /\ callpc' = [callpc EXCEPT ![h] = "taken"] /\ queue' = Tail(queue)
    BY <1>1 DEF PumpRecv, AtPump
  <2>2. UNCHANGED <<closing, handle, terminal, waiter>>
    BY <1>1 DEF PumpRecv, muxVars, waiterVars
  <2>3. /\ Len(queue) \in Nat \ {0} /\ Len(queue') = Len(queue) - 1 /\ h = queue[1]
        /\ \A k \in 1..Len(queue) : queue[k] \in Calls
        /\ \A k \in 1..Len(queue') : k + 1 \in 1..Len(queue) /\ queue'[k] = queue[k + 1]
    BY <1>1 DEF PumpRecv, Typed, TypeOK
  <2> HIDE DEF h
  <2>4. h \in Calls /\ callpc[h] = "queued" /\ \A k \in 1..Len(queue') : queue'[k] # h
    BY <2>1, <2>3 DEF Order, Queued
  <2>5. Queued'
    <3>1. \A k \in 1..Len(queue') : callpc'[queue'[k]] = "queued"
      BY <2>1, <2>3, <2>4 DEF Order, Queued, Typed, TypeOK
    <3>2. \A j, k \in 1..Len(queue') : queue'[j] = queue'[k] => j = k
      BY <2>1, <2>3 DEF Order, Queued
    <3> QED BY <3>1, <3>2 DEF Queued
  <2>6. Taken'
    <3>1. callpc'[h] = "taken" /\ \A c \in Calls : c # h => callpc'[c] = callpc[c]
      BY <2>1, <2>4 DEF Typed, TypeOK
    <3>2. \A i \in Ids : waiter[i] # None => waiter[i].req \in Calls
      BY DEF Typed, TypeOK
    <3>3. pump'.req = h
      BY <2>1
    <3> QED BY <2>2, <3>1, <3>2, <3>3 DEF Order, Taken
  <2>7. Quiet'
    <3>1. handle \notin Closes
      BY <2>4 DEF Order, Quiet
    <3>2. pump'.at # "stopped"
      BY <2>1
    <3> QED BY <2>2, <3>1, <3>2 DEF Order, Quiet
  <2> QED BY <2>5, <2>6, <2>7 DEF Order
<1>2. CASE PumpClose
  <2>1. UNCHANGED <<queue, callpc, waiter, handle, terminal>> /\ closing /\ ~ closing'
    BY <1>2 DEF PumpClose, callVars, waiterVars, muxVars
  <2>2. pump'.at = "stopped"
    BY <1>2 DEF PumpClose, PumpTo, Typed, TypeOK
  <2> QED BY <2>1, <2>2 DEF Order, Queued, Taken, Quiet, Busy
<1>3. CASE PumpFinish
  <2>1. UNCHANGED <<queue, callpc, waiter, handle, closing>>
    BY <1>3 DEF PumpFinish, callVars, queueVars
  <2>2. pump'.at = "stopped"
    BY <1>3 DEF PumpFinish, PumpTo, Typed, TypeOK
  <2>3. terminal' # None
    BY <1>3, ConnectionAssumption DEF PumpFinish, finish, muxVars, Ends
  <2> QED BY <2>1, <2>2, <2>3 DEF Order, Queued, Taken, Quiet, Busy
<1>4. CASE PumpWrite
  <2>1. UNCHANGED <<queue, callpc, closing, handle, terminal>> /\ pump.at = "write"
    BY <1>4 DEF PumpWrite, AtPump, callVars, queueVars, muxVars
  <2>2. pump'.at = "recv"
    BY <1>4 DEF PumpWrite, PumpTo, Typed, TypeOK
  <2>3. Onward
    BY <2>1 DEF Onward
  <2>4. Queued' /\ Quiet'
    BY <2>1, <2>2, <2>3, QueuedKeeps, QuietKeeps DEF Order, SameHandle
  <2>5. \A i \in Ids : waiter'[i] = waiter[i] \/ waiter'[i].req = pump.req
    BY <1>4 DEF PumpWrite, Typed, TypeOK
  <2> QED BY <2>1, <2>2, <2>4, <2>5 DEF Order, Taken, Busy
<1>5. CASE PumpAdmit \/ PumpPermit \/ PumpRecheck \/ PumpIssue \/ PumpCut \/ PumpKill
  <2>1. UNCHANGED <<queue, closing, handle, waiter, terminal>>
    BY <1>5 DEF PumpAdmit, PumpPermit, PumpRecheck, PumpIssue, PumpCut, PumpKill, muxVars, queueVars,
       waiterVars
  <2>2. SamePump
    BY <1>5 DEF PumpAdmit, PumpPermit, PumpRecheck, PumpIssue, PumpCut, PumpKill, PumpTo, AtPump,
       SamePump, Busy, Typed, TypeOK
  <2>3. Onward
    <3>1. UNCHANGED callpc \/ (pump.at \in Busy /\ \E r : Respond(pump.req, r))
      BY <1>5 DEF PumpAdmit, PumpPermit, PumpRecheck, PumpIssue, PumpCut, PumpKill, callVars,
         AtPump, Busy, Refuse
    <3>2. CASE UNCHANGED callpc
      BY <3>2 DEF Onward
    <3>3. ASSUME NEW r, pump.at \in Busy, Respond(pump.req, r) PROVE Onward
      BY <3>3, RespondOnward DEF Order, Taken, Typed, Requests
    <3> QED BY <3>1, <3>2, <3>3
  <2> QED BY <2>1, <2>2, <2>3, OrderKeeps DEF SameWaiters, SameHandle
<1> QED BY <1>1, <1>2, <1>3, <1>4, <1>5 DEF Pump

(* A waiter answers a request that left the queue. *)
LEMMA OrderWaiter == ASSUME Typed, Order, NEW i \in Ids, Waiter(i) PROVE Order'
<1>1. UNCHANGED <<queue, closing, handle, pump, terminal>>
  BY DEF Waiter, Delivered, Elapse, Expire, muxVars, queueVars
<1>2. SameWaiters
  BY DEF Waiter, Delivered, Elapse, Expire, Waiting, WaiterDone, SameWaiters, Typed, TypeOK
<1>3. Onward
  <2>1. CASE Elapse(i)
    BY <2>1 DEF Elapse, callVars, Onward
  <2>2. CASE Delivered(i) \/ Expire(i)
    <3>1. waiter[i] # None /\ \E r : Respond(waiter[i].req, r)
      BY <2>2 DEF Delivered, Expire, Waiting, WaiterDone
    <3>2. waiter[i].req \in Calls /\ callpc[waiter[i].req] # "queued"
      BY <3>1 DEF Order, Taken, Typed, TypeOK
    <3> QED BY <3>1, <3>2, RespondOnward
  <2> QED BY <2>1, <2>2 DEF Waiter
<1> QED BY <1>1, <1>2, <1>3, OrderKeeps DEF SamePump, SameHandle

(* The other tasks leave the requests alone. *)
LEMMA OrderElsewhere ==
  ASSUME Typed, Order,
         Reader \/ ReadError \/ Supervise \/ HandleSteps \/ Adapter \/ UNCHANGED vars
  PROVE  Order'
<1>1. UNCHANGED <<queue, callpc, pump, waiter>>
  BY DEF Reader, ReadError, ReadFrame, ReadEof, ReaderPublish, ReaderKill, Supervise, SupExit,
     SupDrain, SupJudge, SupKill, SupReap, SupFinish, HandleSteps, HelloAccepted, HelloFailed,
     CloseBegins, CloseDeadline, CloseFinish, CloseEnds, Drop, Hold, Release, Adapter, Answer, Stray,
     BeginFrame, GoDeaf, Fork, Orphan, Exit, vars, hostVars, callVars, queueVars, waiterVars
<1>2. SameWaiters /\ SamePump /\ Onward
  BY <1>1 DEF SameWaiters, SamePump, Onward
<1>3. CASE CloseBegins
  <2>1. /\ handle' = "closing" /\ UNCHANGED terminal /\ handle \notin Closes
        /\ \A c \in Calls : callpc[c] \in {"new", "done"}
    BY <1>3 DEF CloseBegins, Owned, muxVars, Closes
  <2> QED BY <1>1, <1>2, <2>1, QueuedKeeps, TakenKeeps DEF Order, Quiet, Closes
<1>4. CASE SupFinish \/ CloseFinish
  <2>1. UNCHANGED closing /\ (handle' \in Closes <=> handle \in Closes)
    BY <1>4 DEF SupFinish, CloseFinish, queueVars, Closes
  <2>2. terminal # None => terminal' # None
    BY <1>4, FinishTells DEF SupFinish, CloseFinish
  <2> QED BY <1>1, <1>2, <2>1, <2>2, OrderKeeps DEF SameHandle
<1>5. CASE ~ CloseBegins /\ ~ SupFinish /\ ~ CloseFinish
  <2>1. UNCHANGED <<closing, terminal>>
    BY <1>5 DEF Reader, ReadError, ReadFrame, ReadEof, ReaderPublish, ReaderKill, Supervise, SupExit,
     SupDrain, SupJudge, SupKill, SupReap, HandleSteps, HelloAccepted, HelloFailed, CloseDeadline,
     CloseEnds, Drop, Hold, Release, Adapter, Answer, Stray, BeginFrame, GoDeaf, Fork, Orphan, Exit,
     vars, hostVars, queueVars, muxVars
  <2>2. handle' \in Closes <=> handle \in Closes
    BY <1>5 DEF Reader, ReadError, ReadFrame, ReadEof, ReaderPublish, ReaderKill, Supervise, SupExit,
     SupDrain, SupJudge, SupKill, SupReap, HandleSteps, HelloAccepted, HelloFailed, CloseDeadline,
     CloseEnds, Drop, Hold, Release, Owned, Adapter, Answer, Stray, BeginFrame, GoDeaf, Fork, Orphan,
     Exit, vars, hostVars, Closes
  <2> QED BY <1>1, <1>2, <2>1, <2>2, OrderKeeps DEF SameHandle
<1> QED BY <1>3, <1>4, <1>5

-----------------------------------------------------------------------------
(* At the start nobody has asked. *)
LEMMA AnswersInit == Init => Answers
<1> SUFFICES ASSUME Init PROVE Answers
  OBVIOUS
<1>1. /\ waiter = [i \in Ids |-> None] /\ box = [i \in Ids |-> None] /\ asked = {} /\ stdout = << >>
      /\ pump.at = "recv" /\ queue = << >> /\ closing = FALSE /\ handle = "hello"
      /\ result = [c \in Calls |-> None]
  BY DEF Init
<1> QED BY <1>1 DEF Answers, Attributed, MeantFor, Truthful, Told, Queued, Taken, Quiet, Busy, Closes

(* Every step keeps the answers attributed, truthful and in order. *)
LEMMA AnswersStep == ASSUME Typed, Answers, [Next]_vars PROVE Answers'
<1>1. Attributed'
  BY AttributedStep DEF Answers
<1>2. Truthful'
  BY TruthfulCalling, TruthfulPump, TruthfulWaiter, TruthfulReader, TruthfulElsewhere
     DEF Answers, Next, Handle, HandleSteps
<1>3. Order'
  BY OrderCalling, OrderPump, OrderWaiter, OrderElsewhere DEF Answers, Order, Next, Handle, HandleSteps
<1> QED BY <1>1, <1>2, <1>3 DEF Answers, Order

(* The invariant behind the attribution of answers. *)
LEMMA AnswersAlways == Spec => [](Typed /\ Answers)
<1>1. Init => Typed /\ Answers
  BY TypedInit, AnswersInit
<1>2. Typed /\ Answers /\ Carried' /\ [Next]_vars => Typed' /\ Answers'
  BY TypedStep, AnswersStep
<1> QED BY <1>1, <1>2, CarriedAlways, PTL DEF Spec

(* No call is handed the answer meant for another, however late, repeated or
   unasked the adapter's replies are, and one told the connection ended is
   told the reason it ended for (Mux::issue and its never-reused ids,
   Mux::deliver, Mux::finish, Mux::terminal_error). *)
THEOREM AnswersAreAttributed == Spec => []NoCrossAttribution
<1>1. Answers => NoCrossAttribution
  BY DEF Answers, Truthful, Told, NoCrossAttribution
<1> QED BY <1>1, AnswersAlways, PTL

-----------------------------------------------------------------------------
(* The requests whose reply is awaited, and the pump's own permit. *)
Awaited == {i \in Ids : waiter[i] # None}

Hand == IF pump.at \in {"recheck", "issue", "write"} THEN 1 ELSE 0

Capacity == IF handle \in {"hello", "failed"} THEN 1 ELSE MaxInFlight

(* There are finitely many ids, hence waiters. *)
LEMMA AwaitedFinite == IsFiniteSet(Awaited) /\ Cardinality(Awaited) \in Nat
<1>1. IsFiniteSet(Ids)
  BY ConnectionAssumption, FS_Interval DEF Ids
<1> QED BY <1>1, FS_Subset, FS_CardinalityType DEF Awaited

(* A permit that moves between the semaphore and the hand. *)
LEMMA Moved ==
  ASSUME NEW p \in Int, NEW q \in Int, NEW h \in Int, NEW k \in Int, NEW n \in Int,
         q + k = p + h
  PROVE  q + (n + k) = p + (n + h)
OBVIOUS

(* A permit that only changes hands. *)
LEMMA PermitsKeep ==
  ASSUME Typed, PermitsAreConserved, Awaited' = Awaited,
         permits' + Hand' = permits + Hand, permits' \in Nat, Capacity' = Capacity
  PROVE  PermitsAreConserved'
<1>1. permits + (Cardinality(Awaited) + Hand) = Capacity
  BY DEF PermitsAreConserved, Awaited, Hand, Capacity
<1>2. Hand \in Int /\ Hand' \in Int /\ permits \in Int
  BY DEF Hand, Typed, TypeOK
<1>3. Cardinality(Awaited') = Cardinality(Awaited) /\ Cardinality(Awaited) \in Int
  BY AwaitedFinite
<1>4. permits' + (Cardinality(Awaited') + Hand') = Capacity'
  <2>1. permits' \in Int
    OBVIOUS
  <2>2. permits' + (Cardinality(Awaited) + Hand') = permits + (Cardinality(Awaited) + Hand)
    <3>1. PICK p, q, h, k, n : p = permits /\ q = permits' /\ h = Hand /\ k = Hand'
                               /\ n = Cardinality(Awaited)
      OBVIOUS
    <3>2. p \in Int /\ q \in Int /\ h \in Int /\ k \in Int /\ n \in Int /\ q + k = p + h
      BY <1>2, <1>3, <2>1, <3>1
    <3>3. q + (n + k) = p + (n + h)
      BY <3>2, Moved
    <3> QED BY <3>1, <3>3
  <2> QED BY <1>1, <1>3, <2>2
<1> QED BY <1>4 DEF PermitsAreConserved, Awaited, Hand, Capacity

(* The pump's permit goes back or to the waiter it starts. *)
LEMMA PermitsPump ==
  ASSUME Typed, Attributed, PermitsAreConserved, Pump, TypeOK' PROVE PermitsAreConserved'
<1>1. Capacity' = Capacity
  BY DEF Pump, PumpRecv, PumpClose, PumpAdmit, PumpPermit, PumpRecheck, PumpIssue, PumpWrite,
     PumpCut, PumpKill, PumpFinish, Capacity
<1>2. permits \in Int /\ permits' \in Nat
  BY DEF Typed, TypeOK
<1>3. CASE PumpWrite
  <2>1. /\ pump.id \in Ids /\ pump.at = "write" /\ pump'.at = "recv" /\ UNCHANGED permits
        /\ waiter' = [waiter EXCEPT ![pump.id] = [at |-> "waiting", req |-> pump.req]]
    BY <1>3 DEF PumpWrite, PumpTo, AtPump, queueVars, Typed, TypeOK, Requests
  <2>2. waiter[pump.id] = None
    BY <2>1 DEF Attributed, Unasked
  <2>3. Awaited' = Awaited \cup {pump.id} /\ pump.id \notin Awaited
    <3>1. [at |-> "waiting", req |-> pump.req] # None
      <4>1. pump.req \in Calls
        BY <2>1 DEF Busy, Typed, Requests
      <4> QED BY <4>1, ConnectionAssumption
    <3> QED BY <2>1, <2>2, <3>1 DEF Awaited, Typed, TypeOK
  <2>4. Cardinality(Awaited') = Cardinality(Awaited) + 1
    BY <2>3, AwaitedFinite, FS_AddElement
  <2>5. Hand = 1 /\ Hand' = 0
    BY <2>1 DEF Hand
  <2>6. permits + (Cardinality(Awaited) + Hand) = Capacity
    BY DEF PermitsAreConserved, Awaited, Hand, Capacity
  <2>7. permits' + (Cardinality(Awaited') + Hand') = Capacity'
    BY <1>1, <1>2, <2>1, <2>4, <2>5, <2>6, AwaitedFinite
  <2> QED BY <2>7 DEF PermitsAreConserved, Awaited, Hand, Capacity
<1>4. CASE ~ PumpWrite
  <2>1. Awaited' = Awaited
    BY <1>4 DEF Pump, PumpRecv, PumpClose, PumpAdmit, PumpPermit, PumpRecheck, PumpIssue, PumpCut,
       PumpKill, PumpFinish, waiterVars, Awaited
  <2>2. permits' + Hand' = permits + Hand
    <3>1. CASE PumpRecv \/ PumpClose \/ PumpAdmit \/ PumpKill \/ PumpFinish
      BY <3>1 DEF PumpRecv, PumpClose, PumpAdmit, PumpKill, PumpFinish, PumpTo, AtPump, queueVars,
         Hand, Typed, TypeOK
    <3>2. CASE PumpPermit \/ PumpRecheck \/ PumpCut
      BY <3>2 DEF PumpPermit, PumpRecheck, PumpCut, PumpTo, AtPump, Hand, Typed, TypeOK
    <3>3. CASE PumpIssue
      <4>1. /\ pump.at = "issue"
            /\ \/ permits' = permits + 1 /\ PumpTo("recv")
               \/ permits' = permits /\ pump' = [pump EXCEPT !.at = "write", !.id = nextId]
        BY <3>3 DEF PumpIssue, AtPump
      <4>2. \/ permits' = permits + 1 /\ pump'.at = "recv"
            \/ permits' = permits /\ pump'.at = "write"
        BY <4>1 DEF PumpTo, Typed, TypeOK
      <4> QED BY <1>2, <4>1, <4>2 DEF Hand
    <3> QED BY <1>4, <3>1, <3>2, <3>3 DEF Pump
  <2> QED BY <1>1, <1>2, <2>1, <2>2, PermitsKeep
<1> QED BY <1>3, <1>4

(* A waiter that ends gives its permit back. *)
LEMMA PermitsWaiter ==
  ASSUME Typed, PermitsAreConserved, NEW i \in Ids, Waiter(i), TypeOK' PROVE PermitsAreConserved'
<1>1. Capacity' = Capacity /\ Hand' = Hand
  BY DEF Waiter, Delivered, Elapse, Expire, Capacity, Hand
<1>2. permits \in Int /\ permits' \in Nat
  BY DEF Typed, TypeOK
<1>3. CASE Elapse(i)
  <2>1. Awaited' = Awaited /\ UNCHANGED permits
    <3>1. [waiter[i] EXCEPT !.at = "elapsed"] # None /\ waiter[i] # None
      <4>1. waiter[i] # None /\ waiter[i] \in [at : {"waiting", "elapsed"}, req : Calls]
        BY <1>3 DEF Elapse, Waiting, Typed, TypeOK
      <4>2. [waiter[i] EXCEPT !.at = "elapsed"] \in [at : {"waiting", "elapsed"}, req : Calls]
        BY <4>1
      <4> QED BY <4>1, <4>2, ConnectionAssumption
    <3>2. waiter' = [waiter EXCEPT ![i] = [waiter[i] EXCEPT !.at = "elapsed"]] /\ UNCHANGED permits
      BY <1>3 DEF Elapse, queueVars, Typed, TypeOK
    <3> QED BY <3>1, <3>2 DEF Awaited, Typed, TypeOK
  <2> QED BY <1>1, <1>2, <2>1, PermitsKeep
<1>4. CASE Delivered(i) \/ Expire(i)
  <2>1. waiter[i] # None /\ waiter' = [waiter EXCEPT ![i] = None] /\ permits' = permits + 1
    BY <1>4 DEF Delivered, Expire, Waiting, WaiterDone
  <2>2. Awaited' = Awaited \ {i} /\ i \in Awaited
    BY <2>1 DEF Awaited, Typed, TypeOK
  <2>3. Cardinality(Awaited') = Cardinality(Awaited) - 1
    BY <2>2, AwaitedFinite, FS_RemoveElement
  <2>4. permits + (Cardinality(Awaited) + Hand) = Capacity /\ Hand \in Int
    BY DEF PermitsAreConserved, Awaited, Hand, Capacity
  <2>5. permits' + (Cardinality(Awaited') + Hand') = Capacity'
    BY <1>1, <1>2, <2>1, <2>3, <2>4, AwaitedFinite
  <2> QED BY <2>5 DEF PermitsAreConserved, Awaited, Hand, Capacity
<1> QED BY <1>3, <1>4 DEF Waiter

(* Only the accepted hello adds permits. *)
LEMMA PermitsElsewhere ==
  ASSUME Typed, PermitsAreConserved,
         Calling \/ Reader \/ ReadError \/ Supervise \/ HandleSteps \/ Adapter \/ UNCHANGED vars
  PROVE  PermitsAreConserved'
<1>1. Awaited' = Awaited /\ Hand' = Hand
  BY DEF Calling, StartCall, Enqueue, Abandoned, Reader, ReadError, ReadFrame, ReadEof,
     ReaderPublish, ReaderKill, Supervise, SupExit, SupDrain, SupJudge, SupKill, SupReap, SupFinish,
     HandleSteps, HelloAccepted, HelloFailed, CloseBegins, CloseDeadline, CloseFinish, CloseEnds,
     Drop, Hold, Release, Adapter, Answer, Stray, BeginFrame, GoDeaf, Fork, Orphan, Exit, vars,
     hostVars, waiterVars, Awaited, Hand
<1>2. CASE HelloAccepted
  <2>1. /\ permits' = permits + (MaxInFlight - 1) /\ Capacity = 1 /\ Capacity' = MaxInFlight
        /\ permits \in Int /\ MaxInFlight \in Int
    BY <1>2, ConnectionAssumption DEF HelloAccepted, Capacity, Typed, TypeOK
  <2>2. permits + (Cardinality(Awaited) + Hand) = Capacity /\ Hand \in Int
    BY DEF PermitsAreConserved, Awaited, Hand, Capacity
  <2>3. permits' + (Cardinality(Awaited') + Hand') = Capacity'
    BY <1>1, <2>1, <2>2, AwaitedFinite
  <2> QED BY <2>3 DEF PermitsAreConserved, Awaited, Hand, Capacity
<1>3. CASE ~ HelloAccepted
  <2>1. UNCHANGED permits
    BY <1>3 DEF Calling, StartCall, Enqueue, Abandoned, Reader, ReadError, ReadFrame, ReadEof,
     ReaderPublish, ReaderKill, Supervise, SupExit, SupDrain, SupJudge, SupKill, SupReap, SupFinish,
     HandleSteps, HelloFailed, CloseBegins, CloseDeadline, CloseFinish, CloseEnds,
     Drop, Hold, Release, Adapter, Answer, Stray, BeginFrame, GoDeaf, Fork, Orphan, Exit, vars,
     hostVars, queueVars
  <2>2. Capacity' = Capacity
    BY <1>3 DEF Calling, StartCall, Enqueue, Abandoned, Reader, ReadError, ReadFrame, ReadEof,
     ReaderPublish, ReaderKill, Supervise, SupExit, SupDrain, SupJudge, SupKill, SupReap, SupFinish,
     HandleSteps, HelloFailed, CloseBegins, CloseDeadline, CloseFinish, CloseEnds,
     Drop, Hold, Release, Owned, Adapter, Answer, Stray, BeginFrame, GoDeaf, Fork, Orphan, Exit, vars,
     hostVars, Capacity
  <2> QED BY <1>1, <2>1, <2>2, PermitsKeep DEF Typed, TypeOK
<1> QED BY <1>2, <1>3

(* Every permit is free, in the pump's hand, or held by a waiter, whatever path
   a request leaves the multiplexer by; so no more requests await a reply than
   the adapter declared (the semaphore of Mux::start, its forgotten and
   returned permits, and raise_in_flight). *)
THEOREM PermitsAreNeverLost == Spec => []PermitsAreConserved
<1>1. Init => PermitsAreConserved
  <2> SUFFICES ASSUME Init PROVE PermitsAreConserved
    OBVIOUS
  <2>1. permits = 1 /\ pump.at = "recv" /\ handle = "hello" /\ {i \in Ids : waiter[i] # None} = {}
    BY DEF Init
  <2>2. Cardinality({i \in Ids : waiter[i] # None}) = 0
    BY <2>1, FS_EmptySet
  <2> QED BY <2>1, <2>2 DEF PermitsAreConserved
<1>2. Typed /\ Answers /\ Typed' /\ PermitsAreConserved /\ [Next]_vars => PermitsAreConserved'
  BY PermitsPump, PermitsWaiter, PermitsElsewhere
     DEF Answers, Typed, Next, Calling, Handle, HandleSteps
<1> QED BY <1>1, <1>2, AnswersAlways, PTL DEF Spec

-----------------------------------------------------------------------------
(* The reader was joined before the exit is judged. *)
Joined ==
  /\ sup.at \in {"watching", "draining", "reaping"} => ~ sup.drained
  /\ sup.drained /\ sup.at \in {"judging", "finishing"} => reader.at = "done"
  /\ sup.at = "finishing" /\ sup.reason = "Exited" => sup.drained

(* A verdict in a connection still up is on its way to the supervisor. *)
Reported ==
  /\ terminal = None /\ verdict # None /\ sup.at \in {"watching", "draining", "judging"} =>
       \/ reader.at = "kill"
       \/ reader.at = "done" /\ kill # << >> /\ kill # <<None>>
       \/ TornDown
  /\ terminal = None /\ kill = <<None>> => TornDown
  /\ handle = "finished" => terminal # None

(* An exit reported, or about to be, is one nothing was held against. *)
Clean ==
  /\ terminal = None /\ sup.at = "finishing" /\ sup.reason = "Exited" =>
       verdict = None \/ TornDown
  /\ ExitedMeansClean

Exits == Joined /\ Reported /\ Clean

(* A connection torn down stays so, and a reader that has returned. *)
LEMMA TornStays == ASSUME Typed, [Next]_vars, TornDown PROVE TornDown'
<1>1. pump.at \in {"kill", "finish", "stopped"} => pump'.at \in {"kill", "finish", "stopped"}
  <2>1. CASE Pump
    BY <2>1 DEF Pump, PumpRecv, PumpClose, PumpAdmit, PumpPermit, PumpRecheck, PumpIssue, PumpWrite,
       PumpCut, PumpKill, PumpFinish, PumpTo, AtPump, Typed, TypeOK
  <2>2. CASE ~ Pump
    <3>1. UNCHANGED pump
      BY <2>2 DEF Next, StartCall, Enqueue, Abandoned, Waiter, Delivered, Elapse, Expire, Reader,
         ReadError, ReadFrame, ReadEof, ReaderPublish, ReaderKill, Supervise, SupExit, SupDrain,
         SupJudge, SupKill, SupReap, SupFinish, Handle, HelloAccepted, HelloFailed, CloseBegins,
         CloseDeadline, CloseFinish, CloseEnds, Drop, Hold, Release, Adapter, Answer, Stray,
         BeginFrame, GoDeaf, Fork, Orphan, Exit, vars, hostVars
    <3> QED BY <3>1
  <2> QED BY <2>1, <2>2
<1>2. handle \in {"failed", "dropped"} => UNCHANGED handle
  <2>1. CASE HandleSteps
    BY <2>1 DEF HandleSteps, HelloAccepted, HelloFailed, CloseBegins, CloseDeadline, CloseFinish,
       CloseEnds, Drop, Hold, Release, Owned
  <2>2. CASE ~ HandleSteps
    BY <2>2 DEF Next, StartCall, Enqueue, Abandoned, Waiter, Delivered, Elapse, Expire, Pump,
       PumpRecv, PumpClose, PumpAdmit, PumpPermit, PumpRecheck, PumpIssue, PumpWrite, PumpCut,
       PumpKill, PumpFinish, Reader, ReadError, ReadFrame, ReadEof, ReaderPublish, ReaderKill,
       Supervise, SupExit, SupDrain, SupJudge, SupKill, SupReap, SupFinish, Handle, HandleSteps,
       Adapter, Answer, Stray, BeginFrame, GoDeaf, Fork, Orphan, Exit, vars, hostVars
  <2> QED BY <2>1, <2>2
<1> QED BY <1>1, <1>2 DEF TornDown

(* What is no step of the reader, the supervisor or the kill channel. *)
LEMMA ExitsKeeps ==
  ASSUME Exits, UNCHANGED <<terminal, verdict, sup, reader, kill>>, TornDown => TornDown',
         handle' = "finished" => handle = "finished"
  PROVE  Exits'
BY DEF Exits, Joined, Reported, Clean, ExitedMeansClean

(* The host asks for a kill when it tears the connection down; a close that
   asks comes after the end of the connection or of its supervisor. *)
LEMMA ExitsRequest ==
  ASSUME Typed, Exits, TornDown => TornDown', PumpKill \/ HelloFailed \/ CloseEnds \/ Drop
  PROVE  Exits'
<1>1. UNCHANGED <<terminal, verdict, sup, reader>> /\ try_send(None)
  BY DEF PumpKill, HelloFailed, CloseEnds, Drop, muxVars, verdictVars, readerVars
<1>2. handle' = "finished" => handle = "finished"
  BY DEF PumpKill, HelloFailed, CloseEnds, Drop
<1>3. TornDown' \/ terminal # None \/ UNCHANGED kill
  <2>1. CASE PumpKill
    BY <2>1 DEF PumpKill, PumpTo, TornDown, Typed, TypeOK
  <2>2. CASE HelloFailed \/ Drop
    BY <2>2 DEF HelloFailed, Drop, TornDown
  <2>3. CASE CloseEnds
    BY <1>1, <2>3 DEF CloseEnds, Exits, Reported, try_send
  <2> QED BY <2>1, <2>2, <2>3
<1>4. kill' = kill \/ kill = << >>
  BY <1>1 DEF try_send
<1> QED BY <1>1, <1>2, <1>3, <1>4 DEF Exits, Joined, Reported, Clean, ExitedMeansClean

(* The connection ends, for a reason that is not an exit or is a clean one. *)
LEMMA ExitsFinish ==
  ASSUME Typed, Exits, TornDown => TornDown', PumpFinish \/ CloseFinish \/ SupFinish
  PROVE  Exits'
<1>1. UNCHANGED reader /\ sup' \in {sup, [sup EXCEPT !.at = "done"]} /\ (sup' # sup => SupFinish)
  BY DEF PumpFinish, CloseFinish, SupFinish, readerVars, supVars
<1>2. terminal' # None
  <2>1. \E x \in Kinds \cup Ends : finish(x)
    BY DEF PumpFinish, CloseFinish, SupFinish, Typed, Carried, SupCarries, Kinds, Ends
  <2> QED BY <2>1, ConnectionAssumption DEF finish, muxVars
<1>3. Joined' /\ Reported'
  BY <1>1, <1>2 DEF Exits, Joined, Reported, Typed, Carried, SupCarries
<1>4. CASE terminal # None
  <2>1. UNCHANGED <<terminal, verdict>>
    BY <1>4 DEF PumpFinish, CloseFinish, SupFinish, finish, muxVars
  <2> QED BY <1>1, <1>2, <1>3, <2>1 DEF Exits, Clean, ExitedMeansClean
<1>5. CASE terminal = None /\ terminal' = "Exited"
  <2>1. SupFinish /\ sup.reason = "Exited"
    BY <1>5 DEF PumpFinish, CloseFinish, SupFinish, finish
  <2>2. UNCHANGED verdict
    BY <1>5, <2>1 DEF SupFinish, finish, Kinds
  <2>3. reader.at = "done" /\ (verdict = None \/ TornDown)
    BY <1>5, <2>1 DEF SupFinish, Exits, Joined, Clean
  <2> QED BY <1>1, <1>2, <1>3, <2>2, <2>3 DEF Exits, Clean, ExitedMeansClean
<1> QED BY <1>2, <1>3, <1>4, <1>5 DEF Exits, Clean, ExitedMeansClean

(* The reader judges before it returns, and tells the supervisor. *)
LEMMA ExitsReader ==
  ASSUME Typed, Exits, TornDown => TornDown', Reader \/ ReadError
  PROVE  Exits'
<1>1. UNCHANGED <<terminal, sup, handle>> /\ reader.at # "done"
  BY DEF Reader, ReadError, ReadFrame, ReadEof, ReaderPublish, ReaderKill, muxVars, supVars
<1>2. Joined' /\ Clean'
  BY <1>1 DEF Exits, Joined, Clean, ExitedMeansClean
<1>3. CASE ReaderPublish
  <2>1. UNCHANGED kill /\ reader'.at = "kill"
    BY <1>3 DEF ReaderPublish, supVars, Typed, TypeOK
  <2> QED BY <1>1, <1>2, <2>1 DEF Exits, Reported
<1>4. CASE ReaderKill
  <2>1. UNCHANGED verdict /\ reader'.at = "done" /\ try_send(reader.kind) /\ reader.kind \in Kinds
    BY <1>4 DEF ReaderKill, verdictVars, Typed, TypeOK, Carried, ReaderCarries
  <2>2. \/ kill' = <<reader.kind>> /\ kill = << >>
        \/ kill' = kill /\ (kill # << >> \/ sup.at = "done")
    BY <2>1 DEF try_send
  <2>3. reader.kind # None
    BY <2>1, ConnectionAssumption
  <2>4. <<reader.kind>> # << >> /\ <<reader.kind>> # <<None>>
    BY <2>3
  <2> QED BY <1>1, <1>2, <2>1, <2>2, <2>4 DEF Exits, Reported
<1>5. CASE ReadFrame \/ ReadEof \/ ReadError
  <2>1. UNCHANGED <<verdict, kill>> /\ reader.at = "reading"
    BY <1>5 DEF ReadFrame, ReadEof, ReadError, verdictVars, supVars
  <2> QED BY <1>1, <1>2, <2>1 DEF Exits, Reported
<1> QED BY <1>3, <1>4, <1>5 DEF Reader

(* The supervisor judges an exit with the reader joined and the channel read. *)
LEMMA ExitsSupervise ==
  ASSUME Typed, Exits, TornDown => TornDown',
         SupExit \/ SupDrain \/ SupJudge \/ SupKill \/ SupReap
  PROVE  Exits'
<1>1. UNCHANGED <<terminal, verdict, reader, handle>>
  BY DEF SupExit, SupDrain, SupJudge, SupKill, SupReap, muxVars, verdictVars, readerVars
<1>2. ExitedMeansClean'
  BY <1>1 DEF Exits, Clean, ExitedMeansClean
<1>3. kill' = kill \/ kill' # <<None>>
  <2>1. << >> # <<None>>
    OBVIOUS
  <2> QED BY <2>1 DEF SupExit, SupDrain, SupJudge, SupKill, SupReap
<1>4. CASE SupExit
  <2>1. sup'.at = "draining" /\ sup'.drained = sup.drained /\ sup.at = "watching" /\ UNCHANGED kill
    BY <1>4 DEF SupExit, Typed, TypeOK
  <2> QED BY <1>1, <1>2, <2>1 DEF Exits, Joined, Reported, Clean
<1>5. CASE SupDrain
  <2>1. /\ sup'.at = "judging" /\ sup.at = "draining" /\ UNCHANGED kill
        /\ sup'.drained => reader.at = "done"
    BY <1>5 DEF SupDrain, Typed, TypeOK
  <2> QED BY <1>1, <1>2, <2>1 DEF Exits, Joined, Reported, Clean
<1>6. CASE SupJudge
  <2>1. sup.at = "judging" /\ sup'.at = "finishing" /\ sup'.drained = sup.drained
    BY <1>6 DEF SupJudge, Typed, TypeOK
  <2>2. sup'.reason = "Exited" => sup.drained /\ (kill = << >> \/ kill = <<None>>)
    <3>1. kill # << >> /\ kill # <<None>> => Head(kill) \in Kinds
      BY KillHead DEF Typed, Carried
    <3>2. sup'.reason = IF kill # << >> /\ kill # <<None>> THEN Head(kill)
                        ELSE IF ~ sup.drained THEN "StdoutHeldOpen" ELSE "Exited"
      BY <1>6 DEF SupJudge, Typed, TypeOK
    <3> QED BY <3>1, <3>2 DEF Kinds
  <2>3. Joined'
    BY <1>1, <2>1, <2>2 DEF Exits, Joined
  <2>4. Reported'
    BY <1>1, <1>3, <2>1 DEF Exits, Reported
  <2>5. terminal' = None /\ sup'.reason = "Exited" => verdict' = None \/ TornDown'
    BY <1>1, <2>1, <2>2 DEF Exits, Joined, Reported
  <2> QED BY <1>2, <2>3, <2>4, <2>5 DEF Exits, Clean
<1>7. CASE SupKill
  <2>1. sup'.at = "reaping" /\ sup'.drained = sup.drained /\ sup.at = "watching"
    BY <1>7 DEF SupKill, Typed, TypeOK
  <2> QED BY <1>1, <1>2, <1>3, <2>1 DEF Exits, Joined, Reported, Clean
<1>8. CASE SupReap
  <2>1. /\ sup'.at \in {"done", "finishing"} /\ sup'.drained = sup.drained /\ sup.at = "reaping"
        /\ sup'.reason = sup.reason /\ sup.reason \in Kinds \cup {None}
    BY <1>8 DEF SupReap, Typed, TypeOK, Carried, SupCarries
  <2>2. sup'.reason # "Exited"
    BY <2>1, ConnectionAssumption DEF Kinds, Ends
  <2> QED BY <1>1, <1>2, <1>3, <2>1, <2>2 DEF Exits, Joined, Reported, Clean
<1> QED BY <1>4, <1>5, <1>6, <1>7, <1>8

(* No other step says anything of an exit. *)
LEMMA ExitsElsewhere ==
  ASSUME Typed, Exits, TornDown => TornDown',
         \/ Calling \/ Waiters \/ Adapter \/ UNCHANGED vars
         \/ PumpRecv \/ PumpClose \/ PumpAdmit \/ PumpPermit \/ PumpRecheck \/ PumpIssue
         \/ PumpWrite \/ PumpCut
         \/ HelloAccepted \/ CloseBegins \/ CloseDeadline \/ Hold \/ Release
  PROVE  Exits'
<1>1. UNCHANGED <<terminal, verdict, sup, reader, kill>>
  BY DEF Calling, StartCall, Enqueue, Abandoned, Waiters, Waiter, Delivered, Elapse, Expire, Adapter,
     Answer, Stray, BeginFrame, GoDeaf, Fork, Orphan, Exit, PumpRecv, PumpClose, PumpAdmit,
     PumpPermit, PumpRecheck, PumpIssue, PumpWrite, PumpCut, HelloAccepted, CloseBegins,
     CloseDeadline, Hold, Release, vars, hostVars, muxVars, verdictVars, supVars, readerVars
<1>2. handle' = "finished" => handle = "finished"
  BY DEF Calling, StartCall, Enqueue, Abandoned, Waiters, Waiter, Delivered, Elapse, Expire, Adapter,
     Answer, Stray, BeginFrame, GoDeaf, Fork, Orphan, Exit, PumpRecv, PumpClose, PumpAdmit,
     PumpPermit, PumpRecheck, PumpIssue, PumpWrite, PumpCut, HelloAccepted, CloseBegins,
     CloseDeadline, Hold, Release, vars, hostVars
<1> QED BY <1>1, <1>2, ExitsKeeps

(* An ordinary exit is reported only when the reader has returned and nothing
   it judged was a violation, unless the host was tearing the connection down:
   however the reader, the kill channel of capacity one and the supervisor's
   drain interleave (supervise, its try_recv, ReaderTask). *)
THEOREM ExitsAreClean == Spec => []ExitedMeansClean
<1>1. Init => Exits
  BY ConnectionAssumption DEF Init, Exits, Joined, Reported, Clean, ExitedMeansClean, Ends
<1>2. Typed /\ Exits /\ [Next]_vars => Exits'
  BY TornStays, ExitsRequest, ExitsFinish, ExitsReader, ExitsSupervise, ExitsElsewhere
     DEF Next, Pump, Supervise, Handle, Calling, Waiters
<1>3. Exits => ExitedMeansClean
  BY DEF Exits, Clean
<1> QED BY <1>1, <1>2, <1>3, AnswersAlways, PTL DEF Spec

-----------------------------------------------------------------------------
(* An adapter that keeps the contract, as slow and as deaf as it likes. *)
Contract == Strays = {} /\ Behaviours \subseteq {"partial", "deaf", "read_error"}

(* What needs an adapter, or a process, that breaks it. *)
Ordinary == ~ forked /\ handle \notin {"held_open", "eof_ignored", "finished"}

(* The hello is the only request until it is answered. *)
HelloAlone ==
  handle = "hello" =>
    /\ \A c \in Calls \ {Hello} : callpc[c] = "new"
    /\ nextId <= 1
    /\ \/ callpc[Hello] \in {"new", "sending", "queued"}
       \/ pump.at \in {"admit", "permit", "recheck", "issue"}
       => nextId = 0

(* The first reply there is answers the hello. *)
HelloSeen ==
  /\ handle \in {"hello", "failed"} \/ hello_done
  /\ \A i \in Ids : box[i] # None /\ box[i].is = "Reply" => hello_done
  /\ \A c \in Calls : result[c] # None /\ result[c].is = "Reply" => hello_done
  /\ \A c \in Calls : callpc[c] = "done" => result[c] # None

HelloFirst == HelloAlone /\ HelloSeen

(* The id was issued and may be answered yet. *)
Open(i) == i \in Ids /\ i < nextId /\ slot[i] # "answered"

(* Every id is asked once and answered once. *)
Once ==
  /\ \A q \in asked : Open(q[1])
  /\ \A q, p \in asked : q[1] = p[1] => q = p
  /\ \A q \in asked : \A k \in 1..Len(stdout) : stdout[k].id # q[1]
  /\ \A k \in 1..Len(stdout) : Open(stdout[k].id)
  /\ \A j, k \in 1..Len(stdout) : stdout[j].id = stdout[k].id => j = k
  /\ pump.at = "write" =>
       /\ Open(pump.id)
       /\ \A q \in asked : q[1] # pump.id
       /\ \A k \in 1..Len(stdout) : stdout[k].id # pump.id

(* Nobody has been told of a violation, nor has anything ended. *)
Calm ==
  /\ reader.at \in {"reading", "done"} /\ kill = << >> /\ sup.at = "watching"
  /\ child = "running" /\ terminal = None /\ verdict = None

Kept == Ordinary /\ HelloFirst /\ (TornDown \/ (Calm /\ Once))

(* What goes on while the connection is up. *)
Running ==
  \/ Calling \/ Waiters
  \/ PumpRecv \/ PumpAdmit \/ PumpPermit \/ PumpRecheck \/ PumpIssue \/ PumpWrite
  \/ ReadFrame \/ ReadError
  \/ HelloAccepted \/ CloseBegins \/ Hold \/ Release
  \/ Answer \/ BeginFrame \/ GoDeaf
  \/ UNCHANGED vars

(* With a contract kept and the connection up, nothing else can happen. *)
LEMMA CalmRuns ==
  ASSUME Contract, Typed, Ordinary, Calm, [Next]_vars, ~ TornDown, ~ TornDown'
  PROVE  Running
<1>1. /\ ~ PumpClose /\ ~ PumpCut /\ ~ PumpKill /\ ~ PumpFinish
  BY DEF PumpClose, PumpCut, PumpKill, PumpFinish, PumpTo, AtPump, TornDown, Typed, TypeOK
<1>2. ~ ReadEof /\ ~ ReaderPublish /\ ~ ReaderKill
  BY DEF Calm, ReadEof, ReaderPublish, ReaderKill
<1>3. ~ Supervise
  BY DEF Calm, Supervise, SupExit, SupDrain, SupJudge, SupKill, SupReap, SupFinish
<1>4. ~ HelloFailed /\ ~ Drop /\ ~ CloseFinish /\ ~ CloseEnds
  BY DEF HelloFailed, Drop, CloseFinish, CloseEnds, TornDown, Calm, Ordinary
<1>5. ~ CloseDeadline
  BY DEF CloseDeadline, Contract
<1>6. ~ Stray /\ ~ Fork /\ ~ Orphan /\ ~ Exit
  BY DEF Stray, Fork, Orphan, Exit, Contract, Ordinary, TornDown, AtPump
<1> QED BY <1>1, <1>2, <1>3, <1>4, <1>5, <1>6
        DEF Next, Calling, Waiters, Pump, Reader, Handle, Adapter, Running

(* What needs an adapter that breaks the contract never happens. *)
LEMMA OrdinaryStep == ASSUME Contract, Ordinary, [Next]_vars PROVE Ordinary'
<1>1. CASE Fork \/ CloseDeadline \/ CloseFinish \/ Orphan
  BY <1>1 DEF Fork, CloseDeadline, CloseFinish, Orphan, Contract, Ordinary
<1>2. CASE ~ (Fork \/ CloseDeadline \/ CloseFinish \/ Orphan)
  <2>1. UNCHANGED forked
    BY <1>2 DEF Next, StartCall, Enqueue, Abandoned, Waiter, Delivered, Elapse, Expire, Pump,
       PumpRecv, PumpClose, PumpAdmit, PumpPermit, PumpRecheck, PumpIssue, PumpWrite, PumpCut,
       PumpKill, PumpFinish, Reader, ReadError, ReadFrame, ReadEof, ReaderPublish, ReaderKill,
       Supervise, SupExit, SupDrain, SupJudge, SupKill, SupReap, SupFinish, Handle, HelloAccepted,
       HelloFailed, CloseBegins, CloseEnds, Drop, Hold, Release, Adapter, Answer, Stray, BeginFrame,
       GoDeaf, Exit, vars, adapterVars
  <2>2. handle' \notin {"held_open", "eof_ignored", "finished"}
    BY <1>2 DEF Next, StartCall, Enqueue, Abandoned, Waiter, Delivered, Elapse, Expire, Pump,
       PumpRecv, PumpClose, PumpAdmit, PumpPermit, PumpRecheck, PumpIssue, PumpWrite, PumpCut,
       PumpKill, PumpFinish, Reader, ReadError, ReadFrame, ReadEof, ReaderPublish, ReaderKill,
       Supervise, SupExit, SupDrain, SupJudge, SupKill, SupReap, SupFinish, Handle, HelloAccepted,
       HelloFailed, CloseBegins, CloseEnds, Drop, Hold, Release, Adapter, Answer, Stray, BeginFrame,
       GoDeaf, Exit, vars, hostVars, Ordinary
  <2> QED BY <2>1, <2>2 DEF Ordinary
<1> QED BY <1>1, <1>2

(* While the connection is up nothing calm is disturbed. *)
LEMMA CalmStep ==
  ASSUME Typed, Calm, Running, ReadFrame => UNCHANGED reader
  PROVE  Calm'
<1>1. UNCHANGED <<kill, sup, child, terminal, verdict>>
  BY DEF Running, Calling, StartCall, Enqueue, Abandoned, Waiters, Waiter, Delivered, Elapse, Expire,
     PumpRecv, PumpAdmit, PumpPermit, PumpRecheck, PumpIssue, PumpWrite, ReadFrame, ReadError,
     HelloAccepted, CloseBegins, Hold, Release, Answer, BeginFrame, GoDeaf, vars, hostVars,
     muxVars, verdictVars, supVars, adapterVars
<1>2. UNCHANGED reader \/ reader'.at = "done"
  BY DEF Running, Calling, StartCall, Enqueue, Abandoned, Waiters, Waiter, Delivered, Elapse, Expire,
     PumpRecv, PumpAdmit, PumpPermit, PumpRecheck, PumpIssue, PumpWrite, ReadError,
     HelloAccepted, CloseBegins, Hold, Release, Answer, BeginFrame, GoDeaf, vars, hostVars,
     readerVars, Typed, TypeOK
<1> QED BY <1>1, <1>2 DEF Calm

(* Nobody is asked or heard, and no answer is taken. *)
LEMMA OnceKeeps ==
  ASSUME Typed, Once, UNCHANGED <<asked, stdout>>, \A i \in Ids : Open(i) => Open(i)',
         pump'.at = "write" => UNCHANGED pump
  PROVE  Once'
<1>1. \A i : Open(i) => Open(i)'
  BY DEF Open
<1>2. pump'.at = "write" => Open(pump.id)'
  <2> SUFFICES ASSUME pump'.at = "write" PROVE Open(pump.id)'
    OBVIOUS
  <2>1. PICK i : i = pump.id
    OBVIOUS
  <2>2. Open(i)'
    BY <1>1, <2>1 DEF Once
  <2> QED BY <2>1, <2>2 DEF Open
<1>3. \A q \in asked' : Open(q[1])'
  <2> SUFFICES ASSUME NEW q \in asked' PROVE Open(q[1])'
    OBVIOUS
  <2> QED BY <1>1 DEF Once
<1>4. \A k \in 1..Len(stdout') : Open(stdout[k].id)'
  <2> SUFFICES ASSUME NEW k \in 1..Len(stdout') PROVE Open(stdout[k].id)'
    OBVIOUS
  <2>1. PICK i : i = stdout[k].id
    OBVIOUS
  <2>2. Open(i)'
    BY <1>1, <2>1 DEF Once
  <2> QED BY <2>1, <2>2 DEF Open
<1> QED BY <1>2, <1>3, <1>4 DEF Once

(* The first frame in the pipe answers an id that may be answered. *)
LEMMA FrameAccepted ==
  ASSUME Typed, HelloFirst, Once, handle # "failed", ReadFrame
  PROVE  /\ UNCHANGED reader
         /\ Open(Head(stdout).id) /\ slot' = [slot EXCEPT ![Head(stdout).id] =
                                               IF @ = "pending" THEN "answered" ELSE @]
<1> DEFINE f == Head(stdout)
<1>1. 1 \in 1..Len(stdout) /\ f = stdout[1]
  BY DEF ReadFrame, Typed, TypeOK
<1>2. Open(f.id) /\ f.id \in Ids /\ f.id < nextId /\ slot[f.id] # "answered"
  BY <1>1 DEF Once, Open
<1>3. f.id # None /\ f.id \in Int /\ nextId \in Int /\ f.id >= 0
  BY <1>2, ConnectionAssumption DEF Ids, Typed, TypeOK
<1>4. hello_done \/ f.id = 0
  BY <1>2, <1>3 DEF HelloFirst, HelloAlone, HelloSeen
<1>5. on_frame(f) = None
  BY <1>2, <1>3, <1>4 DEF on_frame, deliver
<1> QED BY <1>2, <1>5 DEF ReadFrame

(* Ids are asked and answered once while the connection is up. *)
LEMMA OnceStep ==
  ASSUME Typed, HelloFirst, Once, handle # "failed", Running
  PROVE  Once'
<1>1. CASE PumpIssue
  <2>1. UNCHANGED <<asked, stdout>> /\ pump.at = "issue"
    BY <1>1 DEF PumpIssue, AtPump, adapterVars
  <2>2. CASE nextId = IdLimit
    <3>1. UNCHANGED <<nextId, slot>> /\ pump'.at = "recv"
      BY <1>1, <2>2, ConnectionAssumption DEF PumpIssue, PumpTo, muxVars, Typed, TypeOK
    <3> QED BY <2>1, <3>1, OnceKeeps DEF Open
  <2>3. CASE nextId < IdLimit
    <3>1. PICK n : n = nextId
      OBVIOUS
    <3>2. n \in Ids /\ n \in Int /\ n # IdLimit
      BY <2>3, <3>1, ConnectionAssumption DEF Ids, Typed, TypeOK
    <3>3. /\ nextId' = n + 1 /\ slot' = [slot EXCEPT ![n] = "pending"]
          /\ pump' = [pump EXCEPT !.at = "write", !.id = n]
      BY <1>1, <3>1, <3>2 DEF PumpIssue
    <3>4. pump'.at = "write" /\ pump'.id = n /\ slot'[n] = "pending" /\ n < nextId'
      BY <3>2, <3>3 DEF Typed, TypeOK
    <3>5. \A i : Open(i) => Open(i)' /\ i # n
      <4> SUFFICES ASSUME NEW i, Open(i) PROVE Open(i)' /\ i # n
        OBVIOUS
      <4>1. i \in Ids /\ i \in Int /\ i < n /\ slot[i] # "answered"
        BY <3>1 DEF Open, Ids
      <4> QED BY <3>2, <3>3, <4>1 DEF Open, Typed, TypeOK
    <3>6. Open(n)'
      BY <3>2, <3>4 DEF Open
    <3>7. (Open(pump.id))'
      BY <3>4, <3>6 DEF Open
    <3>8. \A q \in asked' : Open(q[1])' /\ q[1] # n
      BY <2>1, <3>5 DEF Once
    <3>9. \A k \in 1..Len(stdout') : Open(stdout[k].id)' /\ stdout'[k].id # n
      <4> SUFFICES ASSUME NEW k \in 1..Len(stdout') PROVE Open(stdout[k].id)' /\ stdout'[k].id # n
        OBVIOUS
      <4>1. PICK i : i = stdout[k].id
        OBVIOUS
      <4>2. Open(i)' /\ i # n
        BY <2>1, <3>5, <4>1 DEF Once
      <4> QED BY <2>1, <4>1, <4>2 DEF Open
    <3> QED BY <2>1, <3>4, <3>7, <3>8, <3>9 DEF Once
  <2> QED BY <1>1, <2>2, <2>3 DEF PumpIssue
<1>2. CASE PumpWrite
  <2>1. PICK n, r : n = pump.id /\ r = pump.req
    OBVIOUS
  <2>2. /\ pump.at = "write" /\ pump'.at # "write" /\ UNCHANGED <<stdout, nextId, slot>>
        /\ asked' \subseteq asked \cup {<<n, r>>}
    BY <1>2, <2>1 DEF PumpWrite, PumpTo, AtPump, muxVars, Typed, TypeOK
  <2>3. /\ Open(n) /\ \A q \in asked : q[1] # n
        /\ \A k \in 1..Len(stdout) : stdout[k].id # n
    BY <2>1, <2>2 DEF Once
  <2>4. <<n, r>>[1] = n
    OBVIOUS
  <2>5. \A q \in asked' : Open(q[1]) /\ \A k \in 1..Len(stdout) : stdout[k].id # q[1]
    BY <2>2, <2>3, <2>4 DEF Once
  <2>6. \A q, p \in asked' : q[1] = p[1] => q = p
    <3>1. \A q \in asked' : q \in asked \/ q = <<n, r>>
      BY <2>2
    <3> QED BY <2>3, <2>4, <3>1 DEF Once
  <2>7. \A i : Open(i) => Open(i)'
    BY <2>2 DEF Open
  <2>8. \A q \in asked' : Open(q[1])'
    BY <2>5, <2>7
  <2>9. \A k \in 1..Len(stdout') : Open(stdout[k].id)'
    <3> SUFFICES ASSUME NEW k \in 1..Len(stdout') PROVE Open(stdout[k].id)'
      OBVIOUS
    <3> QED BY <2>2 DEF Open, Once
  <2> QED BY <2>2, <2>5, <2>6, <2>8, <2>9 DEF Once
<1>3. CASE ReadFrame
  <2>1. PICK n : n = Head(stdout).id
    OBVIOUS
  <2>2. Open(n) /\ slot' = [slot EXCEPT ![n] = IF @ = "pending" THEN "answered" ELSE @]
    BY <1>3, <2>1, FrameAccepted
  <2>3. UNCHANGED <<asked, pump, nextId>>
    BY <1>3 DEF ReadFrame
  <2>4. /\ Len(stdout) \in Nat \ {0} /\ Len(stdout') = Len(stdout) - 1 /\ n = stdout[1].id
        /\ \A k \in 1..Len(stdout') : k + 1 \in 1..Len(stdout) /\ stdout'[k] = stdout[k + 1]
    BY <1>3, <2>1 DEF ReadFrame, Typed, TypeOK
  <2>5. \A i : Open(i) /\ i # n => Open(i)'
    BY <2>2, <2>3 DEF Open, Typed, TypeOK
  <2>6. \A k \in 1..Len(stdout') : stdout'[k].id # n /\ Open(stdout'[k].id)
    BY <2>4 DEF Once
  <2>7. \A k \in 1..Len(stdout') : Open(stdout[k].id)'
    <3> SUFFICES ASSUME NEW k \in 1..Len(stdout') PROVE Open(stdout[k].id)'
      OBVIOUS
    <3>1. PICK i : i = stdout'[k].id
      OBVIOUS
    <3>2. Open(i)'
      BY <2>5, <2>6, <3>1
    <3> QED BY <3>1, <3>2 DEF Open
  <2>8. 1 \in 1..Len(stdout)
    BY <2>4
  <2>9. \A q \in asked' : Open(q[1])' /\ \A k \in 1..Len(stdout') : stdout'[k].id # q[1]
    BY <2>3, <2>4, <2>5, <2>8 DEF Once
  <2>10. \A j, k \in 1..Len(stdout') : stdout'[j].id = stdout'[k].id => j = k
    BY <2>4 DEF Once
  <2>11. pump'.at = "write" => /\ Open(pump.id)'
                               /\ \A q \in asked' : q[1] # pump'.id
                               /\ \A k \in 1..Len(stdout') : stdout'[k].id # pump'.id
    <3> SUFFICES ASSUME pump'.at = "write"
                 PROVE  /\ Open(pump.id)'
                        /\ \A q \in asked' : q[1] # pump'.id
                        /\ \A k \in 1..Len(stdout') : stdout'[k].id # pump'.id
      OBVIOUS
    <3>1. PICK i : i = pump.id
      OBVIOUS
    <3>2. Open(i) /\ i # n
      BY <2>3, <2>4, <2>8, <3>1 DEF Once
    <3>3. Open(pump.id)'
      BY <2>3, <2>5, <3>1, <3>2 DEF Open
    <3> QED BY <2>3, <2>4, <3>3 DEF Once
  <2> QED BY <2>3, <2>7, <2>9, <2>10, <2>11 DEF Once
<1>4. CASE Answer
  <2>1. PICK q \in asked : Write([id |-> q[1], of |-> q[2]]) /\ asked' = asked \ {q}
    BY <1>4 DEF Answer
  <2>2. UNCHANGED <<nextId, slot, pump>>
    BY <1>4 DEF Answer, hostVars, muxVars
  <2>3. \A i : Open(i) => Open(i)'
    BY <2>2 DEF Open
  <2>4. \A p \in asked' : p \in asked /\ p[1] # q[1] /\ Open(p[1])'
    BY <2>1, <2>3 DEF Once
  <2>5. CASE UNCHANGED stdout
    <3>1. \A k \in 1..Len(stdout') : Open(stdout[k].id)'
      <4> SUFFICES ASSUME NEW k \in 1..Len(stdout') PROVE Open(stdout[k].id)'
        OBVIOUS
      <4> QED BY <2>2, <2>5 DEF Open, Once
    <3>2. pump'.at = "write" => Open(pump.id)'
      BY <2>2 DEF Open, Once
    <3> QED BY <2>1, <2>2, <2>4, <2>5, <3>1, <3>2 DEF Once
  <2>6. CASE stdout' = Append(stdout, [id |-> q[1], of |-> q[2]])
    <3>1. PICK n : n = q[1]
      OBVIOUS
    <3>2. /\ Len(stdout) \in Nat /\ Len(stdout') = Len(stdout) + 1
          /\ stdout'[Len(stdout) + 1].id = n
          /\ \A k \in 1..Len(stdout) : stdout'[k] = stdout[k]
      BY <2>6, <3>1 DEF Typed, TypeOK
    <3>3. \A k \in 1..Len(stdout') : k \in 1..Len(stdout) \/ k = Len(stdout) + 1
      BY <3>2
    <3>4. Open(n) /\ \A k \in 1..Len(stdout) : stdout[k].id # n
      BY <3>1 DEF Once
    <3>5. \A k \in 1..Len(stdout') : Open(stdout[k].id)'
      <4> SUFFICES ASSUME NEW k \in 1..Len(stdout') PROVE Open(stdout[k].id)'
        OBVIOUS
      <4>1. PICK i : i = stdout'[k].id
        OBVIOUS
      <4>2. Open(i)
        BY <3>2, <3>3, <3>4, <4>1 DEF Once
      <4> QED BY <2>2, <4>1, <4>2 DEF Open
    <3>6. \A p \in asked' : \A k \in 1..Len(stdout') : stdout'[k].id # p[1]
      BY <2>4, <3>1, <3>2, <3>3 DEF Once
    <3>7. \A j, k \in 1..Len(stdout') : stdout'[j].id = stdout'[k].id => j = k
      BY <3>2, <3>3, <3>4 DEF Once
    <3>8. pump'.at = "write" => /\ Open(pump.id)'
                                /\ \A p \in asked' : p[1] # pump'.id
                                /\ \A k \in 1..Len(stdout') : stdout'[k].id # pump'.id
      <4>1. pump'.at = "write" => Open(pump.id)'
        BY <2>2 DEF Open, Once
      <4>2. pump.at = "write" => n # pump.id
        BY <3>1 DEF Once
      <4> QED BY <2>2, <2>4, <3>2, <3>3, <4>1, <4>2 DEF Once
    <3> QED BY <2>4, <3>5, <3>6, <3>7, <3>8 DEF Once
  <2> QED BY <2>1, <2>5, <2>6 DEF Write
<1>5. CASE ~ (PumpIssue \/ PumpWrite \/ ReadFrame \/ Answer)
  <2>1. UNCHANGED <<asked, stdout, nextId>>
    BY <1>5 DEF Running, Calling, StartCall, Enqueue, Abandoned, Waiters, Waiter, Delivered, Elapse,
       Expire, PumpRecv, PumpAdmit, PumpPermit, PumpRecheck, ReadError, HelloAccepted, CloseBegins,
       Hold, Release, BeginFrame, GoDeaf, vars, hostVars, muxVars, adapterVars
  <2>2. pump'.at = "write" => UNCHANGED pump
    BY <1>5 DEF Running, Calling, StartCall, Enqueue, Abandoned, Waiters, Waiter, Delivered, Elapse,
       Expire, PumpRecv, PumpAdmit, PumpPermit, PumpRecheck, PumpTo, AtPump, ReadError,
       HelloAccepted, CloseBegins, Hold, Release, BeginFrame, GoDeaf, vars, hostVars, Typed, TypeOK
  <2>3. \A i \in Ids : slot'[i] = slot[i] \/ slot'[i] = "tombstoned"
    BY <1>5 DEF Running, Calling, StartCall, Enqueue, Abandoned, Waiters, Waiter, Delivered, Elapse,
       Expire, tombstone, PumpRecv, PumpAdmit, PumpPermit, PumpRecheck, ReadError, HelloAccepted,
       CloseBegins, Hold, Release, BeginFrame, GoDeaf, vars, hostVars, muxVars, Typed, TypeOK
  <2> QED BY <2>1, <2>2, <2>3, OnceKeeps DEF Open
<1> QED BY <1>1, <1>2, <1>3, <1>4, <1>5

(* What a step gives a call, and puts into a oneshot: no reply before the
   hello's. *)
NewResults ==
  \A c \in Calls :
    \/ result'[c] = result[c] /\ (callpc'[c] = "done" => callpc[c] = "done")
    \/ result'[c] \in Outcomes /\ (result'[c].is = "Reply" => hello_done)

NewBoxes ==
  \A i \in Ids : box'[i] \in {None, box[i]} \/ (box'[i].is = "Reply" => hello_done')

(* A step that brings no reply before the hello's. *)
LEMMA SeenKeeps ==
  ASSUME HelloSeen, NewResults, NewBoxes, hello_done => hello_done',
         handle' \in {"hello", "failed"} \/ hello_done'
  PROVE  HelloSeen'
<1>1. None \notin Outcomes
  BY ConnectionAssumption
<1> QED BY <1>1 DEF HelloSeen, NewResults, NewBoxes

(* A call told an end is told no reply. *)
LEMMA NoReply ==
  ASSUME Typed, NEW c \in Calls, NEW x \in {"Timeout", "IdsExhausted"} \cup Ends \cup Kinds,
         Respond(c, Outcome(x))
  PROVE  NewResults
<1>1. Outcome(x) \in Outcomes /\ Outcome(x).is # "Reply"
  BY EndingIsOutcome DEF Outcome, Ends, Kinds
<1> QED BY <1>1 DEF Respond, NewResults, Typed, TypeOK

(* The end of a connection is no reply. *)
LEMMA FinishReplies == ASSUME NEW x \in Kinds \cup Ends, finish(x) PROVE NewBoxes
<1>1. \A i \in Ids : box'[i] = box[i] \/ box'[i] = Outcome(x)
  BY DEF finish
<1>2. Outcome(x).is # "Reply"
  BY DEF Outcome, Kinds, Ends
<1> QED BY <1>1, <1>2 DEF NewBoxes

(* The callers' steps bring no reply. *)
LEMMA SeenCalling == ASSUME Typed, HelloSeen, Calling PROVE HelloSeen'
<1>1. UNCHANGED <<box, hello_done, handle>>
  BY DEF Calling, StartCall, Enqueue, Abandoned, waiterVars, readerVars
<1>2. PICK c \in Calls : StartCall(c) \/ Enqueue(c) \/ Abandoned(c)
  BY DEF Calling
<1>3. NewResults
  <2>1. CASE StartCall(c) /\ terminal # None
    BY <2>1, NoReply DEF StartCall, Typed, TypeOK
  <2>2. CASE (StartCall(c) /\ terminal = None) \/ Enqueue(c)
    BY <2>2 DEF StartCall, Enqueue, NewResults, Typed, TypeOK
  <2>3. CASE Abandoned(c)
    <3>1. PICK x \in Ends \cup Kinds : terminal_error = Outcome(x)
      BY DEF terminal_error, Typed, TypeOK, Ends
    <3> QED BY <2>3, <3>1, NoReply DEF Abandoned
  <2> QED BY <1>2, <2>1, <2>2, <2>3
<1> QED BY <1>1, <1>3, SeenKeeps DEF NewBoxes, HelloSeen

(* The pump's steps bring no reply. *)
LEMMA SeenPump == ASSUME Typed, Taken, HelloSeen, Pump PROVE HelloSeen'
<1>1. UNCHANGED <<hello_done, handle>>
  BY DEF Pump, PumpRecv, PumpClose, PumpAdmit, PumpPermit, PumpRecheck, PumpIssue, PumpWrite,
     PumpCut, PumpKill, PumpFinish, readerVars
<1>2. NewBoxes
  <2>1. CASE PumpFinish
    BY <2>1, FinishReplies DEF PumpFinish, Ends
  <2>2. CASE ~ PumpFinish
    BY <2>2 DEF Pump, PumpRecv, PumpClose, PumpAdmit, PumpPermit, PumpRecheck, PumpIssue, PumpWrite,
       PumpCut, PumpKill, waiterVars, NewBoxes
  <2> QED BY <2>1, <2>2
<1>3. NewResults
  <2>1. CASE PumpRecv
    BY <2>1 DEF PumpRecv, NewResults, Typed, TypeOK
  <2>2. CASE ~ PumpRecv
    <3>1. \/ UNCHANGED <<callpc, result>>
          \/ /\ pump.at \in Busy
             /\ \/ Refuse
                \/ Respond(pump.req, Outcome("IdsExhausted"))
                \/ Respond(pump.req, Outcome("Timeout"))
      BY <2>2 DEF Pump, PumpClose, PumpAdmit, PumpPermit, PumpRecheck, PumpIssue, PumpWrite,
         PumpCut, PumpKill, PumpFinish, callVars, AtPump, Busy
    <3>2. (IF terminal # None THEN terminal ELSE "Timeout")
             \in {"Timeout", "IdsExhausted"} \cup Ends \cup Kinds
      BY DEF Typed, TypeOK
    <3>3. CASE UNCHANGED <<callpc, result>>
      BY <3>3 DEF NewResults
    <3>4. ASSUME pump.at \in Busy, NEW x \in {"Timeout", "IdsExhausted"} \cup Ends \cup Kinds,
                 Respond(pump.req, Outcome(x))
          PROVE  NewResults
      BY <3>4, NoReply DEF Typed, Requests
    <3> QED BY <3>1, <3>2, <3>3, <3>4 DEF Refuse
  <2> QED BY <2>1, <2>2
<1> QED BY <1>1, <1>2, <1>3, SeenKeeps DEF HelloSeen

(* A waiter returns a reply that was delivered. *)
LEMMA SeenWaiter == ASSUME Typed, HelloSeen, NEW i \in Ids, Waiter(i) PROVE HelloSeen'
<1>1. UNCHANGED <<hello_done, handle>>
  BY DEF Waiter, Delivered, Elapse, Expire, readerVars
<1>2. NewBoxes
  BY DEF Waiter, Delivered, Elapse, Expire, NewBoxes, Typed, TypeOK
<1>3. NewResults
  <2>1. CASE Delivered(i)
    <3>1. waiter[i] # None /\ box[i] # None /\ Respond(waiter[i].req, box[i])
      BY <2>1 DEF Delivered, Waiting, WaiterDone
    <3>2. waiter[i].req \in Calls /\ box[i] \in Outcomes /\ (box[i].is = "Reply" => hello_done)
      BY <3>1 DEF HelloSeen, Typed, TypeOK
    <3> QED BY <3>1, <3>2 DEF Respond, NewResults, Typed, TypeOK
  <2>2. CASE Elapse(i)
    BY <2>2 DEF Elapse, callVars, NewResults
  <2>3. CASE Expire(i)
    <3>1. waiter[i] # None /\ Respond(waiter[i].req, Outcome("Timeout"))
      BY <2>3 DEF Expire, Waiting, WaiterDone
    <3>2. waiter[i].req \in Calls
      BY <3>1 DEF Typed, TypeOK
    <3> QED BY <3>1, <3>2, NoReply
  <2> QED BY <2>1, <2>2, <2>3 DEF Waiter
<1> QED BY <1>1, <1>2, <1>3, SeenKeeps DEF HelloSeen

(* The first reply the reader accepts is the hello's. *)
LEMMA SeenReader == ASSUME Typed, HelloSeen, Reader \/ ReadError PROVE HelloSeen'
<1>1. UNCHANGED <<callpc, result, handle>> /\ (hello_done => hello_done')
  <2>1. UNCHANGED <<callpc, result, handle>>
    BY DEF Reader, ReadError, ReadFrame, ReadEof, ReaderPublish, ReaderKill, callVars
  <2>2. CASE ReadFrame
    <3>1. hello_done' = (hello_done \/ Head(stdout).id = 0)
      BY <2>2 DEF ReadFrame
    <3> QED BY <2>1, <3>1
  <2>3. CASE ~ ReadFrame
    BY <2>1, <2>3 DEF Reader, ReadError, ReadEof, ReaderPublish, ReaderKill, readerVars
  <2> QED BY <2>2, <2>3
<1>2. NewBoxes
  <2>1. CASE ReadFrame
    <3>1. CASE UNCHANGED box
      BY <3>1 DEF NewBoxes
    <3>2. CASE on_frame(Head(stdout)) = None
      <4>1. hello_done \/ Head(stdout).id = 0
        BY <3>2, ConnectionAssumption DEF on_frame, Kinds
      <4> QED BY <2>1, <4>1 DEF ReadFrame, NewBoxes
    <3> QED BY <2>1, <3>1, <3>2 DEF ReadFrame
  <2>2. CASE ~ ReadFrame
    BY <2>2 DEF Reader, ReadError, ReadEof, ReaderPublish, ReaderKill, waiterVars, NewBoxes
  <2> QED BY <2>1, <2>2
<1> QED BY <1>1, <1>2, SeenKeeps DEF NewResults, HelloSeen

(* The handle opens on the hello's reply. *)
LEMMA SeenHandle == ASSUME Typed, HelloSeen, HandleSteps PROVE HelloSeen'
<1>1. UNCHANGED <<callpc, result, hello_done>>
  BY DEF HandleSteps, HelloAccepted, HelloFailed, CloseBegins, CloseDeadline, CloseFinish, CloseEnds,
     Drop, Hold, Release, callVars, readerVars
<1>2. NewBoxes
  <2>1. CASE CloseFinish
    BY <2>1, FinishReplies DEF CloseFinish, Kinds
  <2>2. CASE ~ CloseFinish
    BY <2>2 DEF HandleSteps, HelloAccepted, HelloFailed, CloseBegins, CloseDeadline, CloseEnds, Drop,
       Hold, Release, waiterVars, NewBoxes
  <2> QED BY <2>1, <2>2
<1>3. handle' \in {"hello", "failed"} \/ hello_done'
  <2>1. CASE HelloAccepted
    BY <1>1, <2>1, ConnectionAssumption DEF HelloAccepted, HelloSeen
  <2>2. CASE ~ HelloAccepted
    BY <1>1, <2>2 DEF HandleSteps, HelloFailed, CloseBegins, CloseDeadline, CloseFinish, CloseEnds,
       Drop, Hold, Release, Owned, HelloSeen
  <2> QED BY <2>1, <2>2
<1> QED BY <1>1, <1>2, <1>3, SeenKeeps DEF NewResults

(* The supervisor and the adapter bring no reply. *)
LEMMA SeenElsewhere ==
  ASSUME Typed, HelloSeen, Supervise \/ Adapter \/ UNCHANGED vars PROVE HelloSeen'
<1>1. UNCHANGED <<callpc, result, hello_done, handle>>
  BY DEF Supervise, SupExit, SupDrain, SupJudge, SupKill, SupReap, SupFinish, Adapter, Answer, Stray,
     BeginFrame, GoDeaf, Fork, Orphan, Exit, vars, hostVars, callVars, readerVars
<1>2. NewBoxes
  <2>1. CASE SupFinish
    BY <2>1, FinishReplies DEF SupFinish, Typed, Carried, SupCarries
  <2>2. CASE ~ SupFinish
    BY <2>2 DEF Supervise, SupExit, SupDrain, SupJudge, SupKill, SupReap, Adapter, Answer, Stray,
       BeginFrame, GoDeaf, Fork, Orphan, Exit, vars, hostVars, waiterVars, NewBoxes
  <2> QED BY <2>1, <2>2
<1> QED BY <1>1, <1>2, SeenKeeps DEF NewResults, HelloSeen

(* Calls go on; none but the hello starts while the handle is the hello's. *)
Started ==
  \A c \in Calls :
    /\ callpc'[c] # callpc[c] => c = Hello \/ callpc[c] # "new"
    /\ callpc'[c] \in {"new", "sending", "queued"} => callpc[c] \in {"new", "sending", "queued"}

(* A step under which no request but the hello starts. *)
LEMMA AloneKeeps ==
  ASSUME HelloAlone, handle' = "hello" => handle = "hello" /\ Started, UNCHANGED nextId,
         pump'.at \in {"admit", "permit", "recheck", "issue"} =>
           pump.at \in {"admit", "permit", "recheck", "issue"} \/ (handle = "hello" => nextId = 0)
  PROVE  HelloAlone'
<1>1. Hello \in Calls
  BY ConnectionAssumption
<1> QED BY <1>1 DEF HelloAlone, Started

(* A call that returns had started. *)
LEMMA RespondStarted ==
  ASSUME Typed, NEW c \in Calls, NEW r, Respond(c, r), c = Hello \/ callpc[c] # "new"
  PROVE  Started
BY DEF Respond, Started, Typed, TypeOK

(* The callers wait for the handle. *)
LEMMA AloneCalling == ASSUME Typed, HelloAlone, Calling PROVE HelloAlone'
<1>1. UNCHANGED <<nextId, handle, pump>>
  BY DEF Calling, StartCall, Enqueue, Abandoned, muxVars
<1>2. PICK c \in Calls : StartCall(c) \/ Enqueue(c) \/ Abandoned(c)
  BY DEF Calling
<1>3. ASSUME handle = "hello" PROVE Started
  <2>1. CASE StartCall(c) /\ terminal # None
    BY <1>3, <2>1, RespondStarted DEF StartCall
  <2>2. CASE StartCall(c) /\ terminal = None
    BY <1>3, <2>2 DEF StartCall, Started, Typed, TypeOK
  <2>3. CASE Enqueue(c)
    BY <2>3 DEF Enqueue, Started, Typed, TypeOK
  <2>4. CASE Abandoned(c)
    BY <2>4, RespondStarted DEF Abandoned
  <2> QED BY <1>2, <2>1, <2>2, <2>3, <2>4
<1> QED BY <1>1, <1>3, AloneKeeps

(* The pump issues the hello its id, the first. *)
LEMMA AlonePump == ASSUME Typed, Order, HelloAlone, Pump PROVE HelloAlone'
<1>1. UNCHANGED handle
  BY DEF Pump, PumpRecv, PumpClose, PumpAdmit, PumpPermit, PumpRecheck, PumpIssue, PumpWrite,
     PumpCut, PumpKill, PumpFinish
<1>2. pump.at \in Busy => pump.req \in Calls /\ callpc[pump.req] \in {"taken", "done"}
  BY DEF Typed, Requests, Order, Taken
<1>3. CASE PumpRecv
  <2>1. /\ Head(queue) \in Calls /\ callpc[Head(queue)] = "queued"
        /\ callpc' = [callpc EXCEPT ![Head(queue)] = "taken"] /\ UNCHANGED nextId
    <3>1. queue # << >> /\ pump.at = "recv" /\ queue \in Seq(Calls) /\ UNCHANGED nextId
          /\ callpc' = [callpc EXCEPT ![Head(queue)] = "taken"]
      BY <1>3 DEF PumpRecv, AtPump, muxVars, Typed, TypeOK
    <3>2. Head(queue) = queue[1] /\ 1 \in 1..Len(queue) /\ queue[1] \in Calls
      BY <3>1
    <3> QED BY <3>1, <3>2 DEF Order, Queued
  <2>2. Started
    BY <2>1 DEF Started, Typed, TypeOK
  <2>3. handle = "hello" => nextId = 0
    BY <2>1 DEF HelloAlone
  <2> QED BY <1>1, <2>1, <2>2, <2>3, AloneKeeps
<1>4. CASE PumpIssue
  <2>1. pump.at = "issue" /\ pump.req \in Calls /\ callpc[pump.req] \in {"taken", "done"}
    BY <1>2, <1>4 DEF PumpIssue, AtPump, Busy
  <2>2. CASE nextId = IdLimit
    <3>1. UNCHANGED nextId /\ Respond(pump.req, Outcome("IdsExhausted")) /\ pump'.at = "recv"
      BY <1>4, <2>2, ConnectionAssumption DEF PumpIssue, PumpTo, muxVars, Typed, TypeOK
    <3>2. Started
      BY <2>1, <3>1, RespondStarted
    <3> QED BY <1>1, <3>1, <3>2, AloneKeeps
  <2>3. CASE nextId < IdLimit
    <3>1. nextId \in Int /\ nextId # IdLimit
      BY <2>3, ConnectionAssumption DEF Typed, TypeOK
    <3>2. /\ nextId' = nextId + 1 /\ UNCHANGED callpc
          /\ pump' = [pump EXCEPT !.at = "write", !.id = nextId]
      BY <1>4, <3>1 DEF PumpIssue, callVars
    <3>3. pump'.at = "write"
      BY <3>2 DEF Typed, TypeOK
    <3>4. handle = "hello" => nextId = 0 /\ pump.req = Hello
      BY <2>1 DEF HelloAlone
    <3>5. handle = "hello" => callpc[Hello] \in {"taken", "done"}
      BY <2>1, <3>4
    <3> QED BY <1>1, <3>2, <3>3, <3>4, <3>5 DEF HelloAlone
  <2> QED BY <1>4, <2>2, <2>3 DEF PumpIssue
<1>5. CASE ~ PumpRecv /\ ~ PumpIssue
  <2>1. UNCHANGED nextId
    BY <1>5, FinishIds DEF Pump, PumpClose, PumpAdmit, PumpPermit, PumpRecheck, PumpWrite, PumpCut,
       PumpKill, PumpFinish, muxVars
  <2>2. pump'.at \in {"admit", "permit", "recheck", "issue"}
          => pump.at \in {"admit", "permit", "recheck", "issue"}
    BY <1>5 DEF Pump, PumpClose, PumpAdmit, PumpPermit, PumpRecheck, PumpWrite, PumpCut, PumpKill,
       PumpFinish, PumpTo, AtPump, Typed, TypeOK
  <2>3. UNCHANGED callpc \/ (pump.at \in Busy /\ \E r : Respond(pump.req, r))
    BY <1>5 DEF Pump, PumpClose, PumpAdmit, PumpPermit, PumpRecheck, PumpWrite, PumpCut, PumpKill,
       PumpFinish, callVars, AtPump, Busy, Refuse
  <2>4. Started
    <3>1. CASE UNCHANGED callpc
      BY <3>1 DEF Started
    <3>2. ASSUME NEW r, pump.at \in Busy, Respond(pump.req, r) PROVE Started
      BY <1>2, <3>2, RespondStarted
    <3> QED BY <2>3, <3>1, <3>2
  <2> QED BY <1>1, <2>1, <2>2, <2>4, AloneKeeps
<1> QED BY <1>3, <1>4, <1>5

(* A waiter starts no request. *)
LEMMA AloneWaiter == ASSUME Typed, Order, HelloAlone, NEW i \in Ids, Waiter(i) PROVE HelloAlone'
<1>1. UNCHANGED <<nextId, handle, pump>>
  BY DEF Waiter, Delivered, Elapse, Expire, muxVars
<1>2. Started
  <2>1. CASE Elapse(i)
    BY <2>1 DEF Elapse, callVars, Started
  <2>2. CASE Delivered(i) \/ Expire(i)
    <3>1. waiter[i] # None /\ \E r : Respond(waiter[i].req, r)
      BY <2>2 DEF Delivered, Expire, Waiting, WaiterDone
    <3>2. waiter[i].req \in Calls /\ callpc[waiter[i].req] # "new"
      BY <3>1 DEF Order, Taken, Typed, TypeOK
    <3> QED BY <3>1, <3>2, RespondStarted
  <2> QED BY <2>1, <2>2 DEF Waiter
<1> QED BY <1>1, <1>2, AloneKeeps

(* The other tasks start no request. *)
LEMMA AloneElsewhere ==
  ASSUME HelloAlone, Reader \/ ReadError \/ Supervise \/ HandleSteps \/ Adapter \/ UNCHANGED vars
  PROVE  HelloAlone'
<1>1. UNCHANGED <<callpc, pump>> /\ (handle' = "hello" => handle = "hello")
  BY DEF Reader, ReadError, ReadFrame, ReadEof, ReaderPublish, ReaderKill, Supervise, SupExit,
     SupDrain, SupJudge, SupKill, SupReap, SupFinish, HandleSteps, HelloAccepted, HelloFailed,
     CloseBegins, CloseDeadline, CloseFinish, CloseEnds, Drop, Hold, Release, Adapter, Answer, Stray,
     BeginFrame, GoDeaf, Fork, Orphan, Exit, vars, hostVars, callVars
<1>2. UNCHANGED nextId
  BY FinishIds DEF Reader, ReadError, ReadFrame, ReadEof, ReaderPublish, ReaderKill, Supervise,
     SupExit, SupDrain, SupJudge, SupKill, SupReap, SupFinish, HandleSteps, HelloAccepted,
     HelloFailed, CloseBegins, CloseDeadline, CloseFinish, CloseEnds, Drop, Hold, Release, Adapter,
     Answer, Stray, BeginFrame, GoDeaf, Fork, Orphan, Exit, vars, hostVars, muxVars
<1> QED BY <1>1, <1>2, AloneKeeps DEF Started

(* Every step keeps the hello first. *)
LEMMA HelloFirstStep ==
  ASSUME Typed, Answers, HelloFirst, [Next]_vars PROVE HelloFirst'
<1>1. Order /\ Taken
  BY DEF Answers, Order
<1>2. HelloAlone'
  BY <1>1, AloneCalling, AlonePump, AloneWaiter, AloneElsewhere
     DEF HelloFirst, Next, Calling, Handle, HandleSteps
<1>3. HelloSeen'
  BY <1>1, SeenCalling, SeenPump, SeenWaiter, SeenReader, SeenHandle, SeenElsewhere
     DEF HelloFirst, Next, Calling, Handle, HandleSteps
<1> QED BY <1>2, <1>3 DEF HelloFirst

(* Every step keeps the peace with an adapter that keeps the contract. *)
LEMMA KeptStep ==
  ASSUME Contract, Typed, Answers, Kept, [Next]_vars PROVE Kept'
<1>1. Ordinary' /\ HelloFirst'
  BY OrdinaryStep, HelloFirstStep DEF Kept
<1>2. ASSUME ~ TornDown' PROVE Calm' /\ Once'
  <2>1. ~ TornDown /\ Calm /\ Once /\ handle # "failed"
    BY <1>2, TornStays DEF Kept, TornDown
  <2>2. Running
    BY <1>2, <2>1, CalmRuns DEF Kept
  <2>3. ReadFrame => UNCHANGED reader
    BY <2>1, FrameAccepted DEF Kept
  <2> QED BY <2>1, <2>2, <2>3, CalmStep, OnceStep DEF Kept
<1> QED BY <1>1, <1>2 DEF Kept

(* At the start nothing has happened. *)
LEMMA KeptInit == Init => Kept
<1> SUFFICES ASSUME Init PROVE Kept
  OBVIOUS
<1>1. Ordinary /\ Calm
  BY DEF Init, Ordinary, Calm
<1>2. HelloFirst
  BY ConnectionAssumption DEF Init, HelloFirst, HelloAlone, HelloSeen
<1>3. Once
  <2>1. asked = {} /\ stdout = << >> /\ pump.at = "recv"
    BY DEF Init
  <2> QED BY <2>1 DEF Once
<1> QED BY <1>1, <1>2, <1>3 DEF Kept

(* An adapter that writes nothing unasked and lives on until its stdin ends is
   charged with nothing, however late it answers and whatever timed out or was
   cut short meanwhile: a late answer finds its tombstone (Mux::deliver,
   Slot::Tombstoned). *)
THEOREM LateAnswersAreNotCharged ==
  ASSUME Contract PROVE Spec => []HonestIsNotCharged
<1>1. Init => Kept
  BY KeptInit
<1>2. Typed /\ Answers /\ Kept /\ [Next]_vars => Kept'
  BY KeptStep
<1>3. Kept => HonestIsNotCharged
  BY DEF Kept, Calm, HonestIsNotCharged
<1> QED BY <1>1, <1>2, <1>3, AnswersAlways, PTL DEF Spec
=============================================================================
