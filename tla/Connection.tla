----------------------------- MODULE Connection -----------------------------
(***************************************************************************)
(* One adapter connection of the host: the request multiplexer, its pump,   *)
(* reader and per-request waiter tasks, the supervisor that owns the child  *)
(* process, and the handle the callers hold (core/host/src/mux.rs,          *)
(* process.rs, lib.rs).  The tasks run on a multi-threaded runtime, so a    *)
(* step is what one task does under a lock or between two awaits.           *)
(*                                                                         *)
(* The adapter is the environment.  It answers what it was asked once, in   *)
(* any order and as late as it likes, or never.  It may also write replies  *)
(* nobody asked for, naming the ids in Strays, where None stands for a line *)
(* that is no reply envelope; what it may do besides is in Behaviours:      *)
(*   "partial"      is inside a frame, its LF still to come                 *)
(*   "deaf"         stops reading its stdin                                 *)
(*   "dies"         exits on its own                                        *)
(*   "ignores_eof"  does not exit when its stdin ends                       *)
(*   "forks"        leaves a process behind that holds its stdout; a reader *)
(*                  too starved to see it closed looks the same             *)
(*   "read_error"   (the operating system's) reading the pipe fails         *)
(*                                                                         *)
(* Time is abstract: a deadline may pass whenever the thing it bounds has   *)
(* not happened.  A reply is the pair of the id it names and the call the   *)
(* adapter meant it for.                                                    *)
(***************************************************************************)
EXTENDS Integers, Sequences, FiniteSets

CONSTANTS
  Calls,         \* the calls made on the handle
  Hello,         \* the first of them, made by spawn itself
  MaxInFlight,   \* what the hello reply declares, at least 1
  QueueCapacity, \* OUTBOUND_QUEUE_CAPACITY
  IdLimit,       \* u64::MAX: the counter's last value, never an id
  MaxFrames,     \* bound: frames unread in the stdout pipe
  Strays,        \* the ids the adapter may name unasked
  Behaviours,    \* what else it may do
  None

Ids == 0..IdLimit-1

(* ProtocolViolationKind; OversizeFrame and NonUtf8, the decoder's own, take
   the way of NotJson and stand under it. *)
Kinds == {"PreHelloOutput", "NotJson", "UnknownId", "DuplicateId",
          "UnterminatedFrame", "StdoutHeldOpen", "StdinEofIgnored"}

(* Terminal::Crashed with the code of a reaped child, and without one. *)
Ends == {"Exited", "Crashed"}

AllBehaviours == {"partial", "deaf", "dies", "ignores_eof", "forks", "read_error"}

(* What a call returns, or a oneshot carries: `of' only with a reply. *)
Outcomes == [is : {"Reply", "Timeout", "IdsExhausted"} \cup Ends \cup Kinds,
             of : Calls \cup {None}]

ASSUME ConnectionAssumption ==
  /\ Hello \in Calls
  /\ MaxInFlight \in Nat \ {0} /\ QueueCapacity \in Nat \ {0}
  /\ IdLimit \in Nat \ {0} /\ MaxFrames \in Nat
  /\ Behaviours \subseteq AllBehaviours /\ Strays \subseteq 0..IdLimit \cup {None}
  /\ None \notin Calls \cup Kinds \cup Ends \cup Int
  /\ None \notin Outcomes \cup [at : {"waiting", "elapsed"}, req : Calls]

VARIABLES
  nextId, slot, terminal,  \* MuxInner
  verdict, held,           \* the publication latch, and who holds it
  queue, permits, closing, \* the outbox, the semaphore, the Notify permit
  callpc, result,          \* each call and what it returned
  pump,                    \* the pump task: where, and for which request
  waiter, box,             \* each id's waiter task and its oneshot
  reader, hello_done,      \* the reader task, with the violation it judged
  sup, kill, exited,       \* supervise, its kill channel, the exited flag
  handle,                  \* the AdapterHandle
  child, asked, stdout, partial, forked, deaf  \* the adapter

muxVars     == <<nextId, slot, terminal>>
verdictVars == <<verdict, held>>
queueVars   == <<queue, permits, closing>>
callVars    == <<callpc, result>>
waiterVars  == <<waiter, box>>
readerVars  == <<reader, hello_done>>
supVars     == <<sup, kill, exited>>
adapterVars == <<child, asked, stdout, partial, forked, deaf>>

vars == <<muxVars, verdictVars, queueVars, callVars, pump, waiterVars,
          readerVars, supVars, handle, adapterVars>>

(* A line on stdout; one that is no reply envelope names no id. *)
Frames == [id : 0..IdLimit \cup {None}, of : Calls \cup {None}]

Outcome(what) == [is |-> what, of |-> None]

Init ==
  /\ nextId = 0 /\ slot = [i \in Ids |-> "unissued"] /\ terminal = None
  /\ verdict = None /\ held = FALSE
  /\ queue = << >> /\ permits = 1 /\ closing = FALSE
  /\ callpc = [c \in Calls |-> "new"] /\ result = [c \in Calls |-> None]
  /\ pump = [at |-> "recv", req |-> None, id |-> None]
  /\ waiter = [i \in Ids |-> None] /\ box = [i \in Ids |-> None]
  /\ reader = [at |-> "reading", kind |-> None] /\ hello_done = FALSE
  /\ sup = [at |-> "watching", drained |-> FALSE, reason |-> None]
  /\ kill = << >> /\ exited = FALSE
  /\ handle = "hello"
  /\ child = "running" /\ asked = {} /\ stdout = << >>
  /\ partial = FALSE /\ forked = FALSE /\ deaf = FALSE

-----------------------------------------------------------------------------
(***************************************************************************)
(* Shared operations.                                                       *)
(***************************************************************************)

(* Publishes without taking the verdict latch. *)
finish_unlatched(reason) ==
  IF terminal # None THEN UNCHANGED <<muxVars, verdict, box>>
  ELSE LET pending == {i \in Ids : slot[i] = "pending"}
       IN /\ terminal' = reason
          /\ verdict' = IF reason \in Kinds /\ verdict = None
                        THEN reason ELSE verdict
          /\ slot' = [i \in Ids |-> IF i \in pending THEN "answered" ELSE slot[i]]
          /\ box' = [i \in Ids |-> IF i \in pending THEN Outcome(reason) ELSE box[i]]
          /\ UNCHANGED nextId

(* Mux::finish: the first reason sticks, a violation among them publishes, and
   every pending call is resolved with it.  A violation waits for the verdict
   latch. *)
finish(reason) ==
  /\ reason \in Kinds => ~ held
  /\ IF terminal # None THEN UNCHANGED <<muxVars, verdict, box>>
     ELSE LET pending == {i \in Ids : slot[i] = "pending"}
          IN /\ terminal' = reason
             /\ verdict' = IF reason \in Kinds /\ verdict = None
                           THEN reason ELSE verdict
             /\ slot' = [i \in Ids |-> IF i \in pending THEN "answered" ELSE slot[i]]
             /\ box' = [i \in Ids |-> IF i \in pending THEN Outcome(reason) ELSE box[i]]
             /\ UNCHANGED nextId

(* Mux::terminal_error. *)
terminal_error == Outcome(IF terminal = None THEN "Crashed" ELSE terminal)

tombstone(s, i) == [s EXCEPT ![i] = IF @ = "pending" THEN "tombstoned" ELSE @]

(* try_send on the kill channel of capacity 1: dropped when it is full or the
   supervisor is gone. *)
try_send(msg) ==
  kill' = IF kill = << >> /\ sup.at # "done" THEN <<msg>> ELSE kill

(* responder.send: the call returns. *)
Respond(c, r) ==
  /\ callpc' = [callpc EXCEPT ![c] = "done"]
  /\ result' = [result EXCEPT ![c] = r]

-----------------------------------------------------------------------------
(***************************************************************************)
(* Mux::call.  Calls borrow the handle, so they are made while it is open;  *)
(* hello is spawn_impl's own.                                               *)
(***************************************************************************)
StartCall(c) ==
  /\ callpc[c] = "new"
  /\ handle = IF c = Hello THEN "hello" ELSE "open"
  /\ IF terminal # None THEN Respond(c, Outcome(terminal))
     ELSE callpc' = [callpc EXCEPT ![c] = "sending"] /\ UNCHANGED result
  /\ UNCHANGED <<muxVars, verdictVars, queueVars, pump, waiterVars, readerVars,
                 supVars, handle, adapterVars>>

(* The bounded queue has room. *)
Enqueue(c) ==
  /\ callpc[c] = "sending"
  /\ pump.at # "stopped"
  /\ Len(queue) < QueueCapacity
  /\ queue' = Append(queue, c)
  /\ callpc' = [callpc EXCEPT ![c] = "queued"]
  /\ UNCHANGED <<muxVars, verdictVars, permits, closing, result, pump, waiterVars,
                 readerVars, supVars, handle, adapterVars>>

(* The pump is gone, and the receiver or the responder with it. *)
Abandoned(c) ==
  /\ callpc[c] \in {"sending", "queued"}
  /\ pump.at = "stopped"
  /\ Respond(c, terminal_error)
  /\ UNCHANGED <<muxVars, verdictVars, queueVars, pump, waiterVars, readerVars,
                 supVars, handle, adapterVars>>

-----------------------------------------------------------------------------
(***************************************************************************)
(* The pump.  Serializing a request cannot fail here and the semaphore is   *)
(* never closed, so those early returns are left out.                       *)
(***************************************************************************)
AtPump(place) == pump.at = place

PumpTo(place) == pump' = [pump EXCEPT !.at = place]

PumpRecv ==
  /\ AtPump("recv")
  /\ queue # << >>
  /\ pump' = [at |-> "admit", req |-> Head(queue), id |-> None]
  /\ callpc' = [callpc EXCEPT ![Head(queue)] = "taken"]
  /\ queue' = Tail(queue)
  /\ UNCHANGED <<muxVars, verdictVars, permits, closing, result, waiterVars,
                 readerVars, supVars, handle, adapterVars>>

(* Biased: the close wins only over an empty queue.  The pump's return drops
   the child's stdin. *)
PumpClose ==
  /\ AtPump("recv")
  /\ queue = << >>
  /\ closing
  /\ closing' = FALSE
  /\ PumpTo("stopped")
  /\ UNCHANGED <<muxVars, verdictVars, queue, permits, callVars, waiterVars,
                 readerVars, supVars, handle, adapterVars>>

(* What the pump asks of a request before it takes a permit and again after:
   it is refused when the connection has ended or its deadline has passed. *)
Refuse == Respond(pump.req, Outcome(IF terminal # None THEN terminal ELSE "Timeout"))

PumpAdmit ==
  /\ AtPump("admit")
  /\ \/ Refuse /\ PumpTo("recv")
     \/ terminal = None /\ PumpTo("permit") /\ UNCHANGED callVars
  /\ UNCHANGED <<muxVars, verdictVars, queueVars, waiterVars, readerVars,
                 supVars, handle, adapterVars>>

PumpPermit ==
  /\ AtPump("permit")
  /\ permits > 0
  /\ permits' = permits - 1
  /\ PumpTo("recheck")
  /\ UNCHANGED <<muxVars, verdictVars, queue, closing, callVars, waiterVars,
                 readerVars, supVars, handle, adapterVars>>

PumpRecheck ==
  /\ AtPump("recheck")
  /\ \/ Refuse /\ permits' = permits + 1 /\ PumpTo("recv")
     \/ terminal = None /\ PumpTo("issue") /\ UNCHANGED <<callVars, permits>>
  /\ UNCHANGED <<muxVars, verdictVars, queue, closing, waiterVars, readerVars,
                 supVars, handle, adapterVars>>

(* The counter wraps: the last id goes to a second request. *)
PumpIssue_reusing ==
  /\ AtPump("issue")
  /\ LET i == IF nextId = IdLimit THEN nextId - 1 ELSE nextId
     IN /\ nextId' = i + 1
        /\ slot' = [slot EXCEPT ![i] = "pending"]
        /\ pump' = [pump EXCEPT !.at = "write", !.id = i]
  /\ UNCHANGED <<callVars, permits, terminal, verdictVars, queue, closing,
                 waiterVars, readerVars, supVars, handle, adapterVars>>

(* The counter runs one past its last value. *)
PumpIssue_past_the_end ==
  /\ AtPump("issue")
  /\ nextId' = nextId + 1
  /\ slot' = [slot EXCEPT ![nextId] = "pending"]
  /\ pump' = [pump EXCEPT !.at = "write", !.id = nextId]
  /\ UNCHANGED <<callVars, permits, terminal, verdictVars, queue, closing,
                 waiterVars, readerVars, supVars, handle, adapterVars>>

(* Mux::issue. *)
PumpIssue ==
  /\ AtPump("issue")
  /\ \/ /\ nextId = IdLimit
        /\ Respond(pump.req, Outcome("IdsExhausted"))
        /\ permits' = permits + 1
        /\ PumpTo("recv")
        /\ UNCHANGED muxVars
     \/ /\ nextId < IdLimit
        /\ nextId' = nextId + 1
        /\ slot' = [slot EXCEPT ![nextId] = "pending"]
        /\ pump' = [pump EXCEPT !.at = "write", !.id = nextId]
        /\ UNCHANGED <<callVars, permits, terminal>>
  /\ UNCHANGED <<verdictVars, queue, closing, waiterVars, readerVars, supVars,
                 handle, adapterVars>>

(* The frame is written, or the pipe is broken: either way the request waits
   in a task of its own. *)
PumpWrite ==
  /\ AtPump("write")
  /\ ~ deaf \/ child # "running"
  /\ asked' = IF child = "running" THEN asked \cup {<<pump.id, pump.req>>} ELSE asked
  /\ waiter' = [waiter EXCEPT ![pump.id] = [at |-> "waiting", req |-> pump.req]]
  /\ PumpTo("recv")
  /\ UNCHANGED <<muxVars, verdictVars, queueVars, callVars, box, readerVars,
                 supVars, handle, child, stdout, partial, forked, deaf>>

(* The write has no deadline. *)
PumpCut_unbounded ==
  /\ AtPump("write")
  /\ deaf
  /\ UNCHANGED vars

(* The deadline cuts the write short. *)
PumpCut ==
  /\ AtPump("write")
  /\ deaf
  /\ slot' = tombstone(slot, pump.id)
  /\ Respond(pump.req, Outcome("Timeout"))
  /\ permits' = permits + 1
  /\ PumpTo("kill")
  /\ UNCHANGED <<nextId, terminal, verdictVars, queue, closing, waiterVars,
                 readerVars, supVars, handle, adapterVars>>

PumpKill ==
  /\ AtPump("kill")
  /\ try_send(None)
  /\ PumpTo("finish")
  /\ UNCHANGED <<muxVars, verdictVars, queueVars, callVars, waiterVars,
                 readerVars, sup, exited, handle, adapterVars>>

PumpFinish ==
  /\ AtPump("finish")
  /\ finish("Crashed")
  /\ PumpTo("stopped")
  /\ UNCHANGED <<held, queueVars, callVars, waiter, readerVars, supVars, handle,
                 adapterVars>>

Pump ==
  \/ PumpRecv \/ PumpClose \/ PumpAdmit \/ PumpPermit \/ PumpRecheck
  \/ PumpIssue \/ PumpWrite \/ PumpCut \/ PumpKill \/ PumpFinish

-----------------------------------------------------------------------------
(***************************************************************************)
(* The waiter of an id: its reply, or its deadline.                         *)
(***************************************************************************)
Waiting(i, place) == waiter[i] # None /\ waiter[i].at = place

WaiterDone(i, r) ==
  /\ Respond(waiter[i].req, r)
  /\ waiter' = [waiter EXCEPT ![i] = None]
  /\ permits' = permits + 1

Delivered(i) ==
  /\ Waiting(i, "waiting")
  /\ box[i] # None
  /\ WaiterDone(i, box[i])
  /\ box' = [box EXCEPT ![i] = None]
  /\ UNCHANGED <<muxVars, verdictVars, queue, closing, pump, readerVars, supVars,
                 handle, adapterVars>>

(* The deadline is found to have passed; a reply may still get in before the
   tombstone, and is then answered to nobody. *)
Elapse(i) ==
  /\ Waiting(i, "waiting")
  /\ box[i] = None
  /\ waiter' = [waiter EXCEPT ![i].at = "elapsed"]
  /\ UNCHANGED <<muxVars, verdictVars, queueVars, callVars, pump, box, readerVars,
                 supVars, handle, adapterVars>>

Expire(i) ==
  /\ Waiting(i, "elapsed")
  /\ slot' = tombstone(slot, i)
  /\ WaiterDone(i, Outcome("Timeout"))
  /\ box' = [box EXCEPT ![i] = None]
  /\ UNCHANGED <<nextId, terminal, verdictVars, queue, closing, pump, readerVars,
                 supVars, handle, adapterVars>>

Waiter(i) == Delivered(i) \/ Elapse(i) \/ Expire(i)

-----------------------------------------------------------------------------
(***************************************************************************)
(* The reader.                                                              *)
(***************************************************************************)

(* A reply to a timed-out request is refused too. *)
deliver_strict(i) ==
  IF i >= nextId THEN "UnknownId"
  ELSE IF slot[i] \in {"answered", "tombstoned"} THEN "DuplicateId"
  ELSE None

(* Mux::deliver: the violation a reply to id i is, or None. *)
deliver(i) ==
  IF i >= nextId THEN "UnknownId"
  ELSE IF slot[i] = "answered" THEN "DuplicateId"
  ELSE None

(* Mux::on_frame: the violation a frame is; before the hello reply any cause
   is PreHelloOutput. *)
on_frame(f) ==
  IF f.id = None THEN (IF hello_done THEN "NotJson" ELSE "PreHelloOutput")
  ELSE IF ~ hello_done /\ f.id # 0 THEN "PreHelloOutput"
  ELSE deliver(f.id)

ReadFrame ==
  /\ reader.at = "reading"
  /\ stdout # << >>
  /\ stdout' = Tail(stdout)
  /\ LET f == Head(stdout)
     IN /\ hello_done' = (hello_done \/ f.id = 0)
        /\ \/ /\ on_frame(f) # None
              /\ reader' = [at |-> "publish", kind |-> on_frame(f)]
              /\ UNCHANGED <<slot, box>>
           \/ /\ on_frame(f) = None
              /\ slot' = [slot EXCEPT ![f.id] = IF @ = "pending" THEN "answered" ELSE @]
              /\ box' = [box EXCEPT ![f.id] =
                   IF slot[f.id] = "pending"
                   THEN [is |-> "Reply", of |-> f.of] ELSE @]
              /\ UNCHANGED reader
  /\ UNCHANGED <<nextId, terminal, verdictVars, queueVars, callVars, pump, waiter,
                 supVars, handle, child, asked, partial, forked, deaf>>

(* End of stream: an unfinished frame is a violation. *)
ReadEof ==
  /\ reader.at = "reading"
  /\ stdout = << >> /\ child # "running" /\ ~ forked
  /\ reader' =
       IF partial
       THEN [at |-> "publish",
             kind |-> IF hello_done THEN "UnterminatedFrame" ELSE "PreHelloOutput"]
       ELSE [reader EXCEPT !.at = "done"]
  /\ UNCHANGED <<muxVars, verdictVars, queueVars, callVars, pump, waiterVars,
                 hello_done, supVars, handle, adapterVars>>

(* A read error is not held against the adapter. *)
ReadError ==
  /\ reader.at = "reading"
  /\ "read_error" \in Behaviours
  /\ reader' = [reader EXCEPT !.at = "done"]
  /\ UNCHANGED <<muxVars, verdictVars, queueVars, callVars, pump, waiterVars,
                 hello_done, supVars, handle, adapterVars>>

(* Mux::record_violation, then the kill is requested. *)
ReaderPublish ==
  /\ reader.at = "publish"
  /\ ~ held
  /\ verdict' = IF verdict = None THEN reader.kind ELSE verdict
  /\ reader' = [reader EXCEPT !.at = "kill"]
  /\ UNCHANGED <<muxVars, held, queueVars, callVars, pump, waiterVars, hello_done,
                 supVars, handle, adapterVars>>

(* The verdict is published and nobody is told to kill. *)
ReaderKill_silent ==
  /\ reader.at = "kill"
  /\ reader' = [reader EXCEPT !.at = "done"]
  /\ UNCHANGED <<muxVars, verdictVars, queueVars, callVars, pump, waiterVars,
                 hello_done, supVars, handle, adapterVars>>

ReaderKill ==
  /\ reader.at = "kill"
  /\ try_send(reader.kind)
  /\ reader' = [reader EXCEPT !.at = "done"]
  /\ UNCHANGED <<muxVars, verdictVars, queueVars, callVars, pump, waiterVars,
                 hello_done, sup, exited, handle, adapterVars>>

Reader == ReadFrame \/ ReadEof \/ ReaderPublish \/ ReaderKill

-----------------------------------------------------------------------------
(***************************************************************************)
(* supervise: a natural exit races a kill request.                          *)
(***************************************************************************)
SupExit ==
  /\ sup.at = "watching"
  /\ child # "running"
  /\ exited' = TRUE
  /\ sup' = [sup EXCEPT !.at = "draining"]
  /\ UNCHANGED <<muxVars, verdictVars, queueVars, callVars, pump, waiterVars,
                 readerVars, kill, handle, adapterVars>>

(* The exit is reported without joining the reader. *)
SupDrain_not_waiting ==
  /\ sup.at = "draining"
  /\ sup' = [sup EXCEPT !.at = "judging", !.drained = TRUE]
  /\ UNCHANGED <<muxVars, verdictVars, queueVars, callVars, pump, waiterVars,
                 readerVars, kill, exited, handle, adapterVars>>

(* The reader is joined, or READER_DRAIN runs out first. *)
SupDrain ==
  /\ sup.at = "draining"
  /\ \/ reader.at = "done" /\ sup' = [sup EXCEPT !.at = "judging", !.drained = TRUE]
     \/ /\ reader.at # "done"
        /\ forked
        /\ sup' = [sup EXCEPT !.at = "judging", !.drained = FALSE]
  /\ UNCHANGED <<muxVars, verdictVars, queueVars, callVars, pump, waiterVars,
                 readerVars, kill, exited, handle, adapterVars>>

(* kill_rx.try_recv. *)
SupJudge ==
  /\ sup.at = "judging"
  /\ sup' = [sup EXCEPT !.at = "finishing", !.reason =
       IF kill # << >> /\ kill # <<None>> THEN Head(kill)
       ELSE IF ~ sup.drained THEN "StdoutHeldOpen"
       ELSE "Exited"]
  /\ kill' = << >>
  /\ UNCHANGED <<muxVars, verdictVars, queueVars, callVars, pump, waiterVars,
                 readerVars, exited, handle, adapterVars>>

SupKill ==
  /\ sup.at = "watching"
  /\ kill # << >>
  /\ child' = IF child = "running" THEN "killed" ELSE child
  /\ asked' = {}
  /\ sup' = [sup EXCEPT !.at = "reaping", !.reason = Head(kill)]
  /\ kill' = << >>
  /\ UNCHANGED <<muxVars, verdictVars, queueVars, callVars, pump, waiterVars,
                 readerVars, exited, handle, stdout, partial, forked, deaf>>

(* A kill without a kind reports nothing. *)
SupReap ==
  /\ sup.at = "reaping"
  /\ exited' = TRUE
  /\ sup' = [sup EXCEPT !.at = IF sup.reason = None THEN "done" ELSE "finishing"]
  /\ UNCHANGED <<muxVars, verdictVars, queueVars, callVars, pump, waiterVars,
                 readerVars, kill, handle, adapterVars>>

SupFinish ==
  /\ sup.at = "finishing"
  /\ finish(sup.reason)
  /\ sup' = [sup EXCEPT !.at = "done"]
  /\ UNCHANGED <<held, queueVars, callVars, pump, waiter, readerVars, kill, exited,
                 handle, adapterVars>>

Supervise == SupExit \/ SupDrain \/ SupJudge \/ SupKill \/ SupReap \/ SupFinish

-----------------------------------------------------------------------------
(***************************************************************************)
(* The handle.                                                              *)
(***************************************************************************)

(* Raises by what was declared, on top of the permit of the hello. *)
HelloAccepted_raising_all ==
  /\ handle = "hello"
  /\ callpc[Hello] = "done" /\ result[Hello].is = "Reply"
  /\ handle' = "open"
  /\ permits' = permits + MaxInFlight
  /\ UNCHANGED <<muxVars, verdictVars, queue, closing, callVars, pump, waiterVars,
                 readerVars, supVars, adapterVars>>

(* The hello reply is accepted. *)
HelloAccepted ==
  /\ handle = "hello"
  /\ callpc[Hello] = "done" /\ result[Hello].is = "Reply"
  /\ handle' = "open"
  /\ permits' = permits + (MaxInFlight - 1)
  /\ UNCHANGED <<muxVars, verdictVars, queue, closing, callVars, pump, waiterVars,
                 readerVars, supVars, adapterVars>>

(* It never came, it is an error or malformed, or it selects a protocol that
   was not offered. *)
HelloFailed ==
  /\ handle = "hello"
  /\ callpc[Hello] = "done"
  /\ handle' = "failed"
  /\ try_send(None)
  /\ UNCHANGED <<muxVars, verdictVars, queueVars, callVars, pump, waiterVars,
                 readerVars, sup, exited, adapterVars>>

(* No call borrows the handle. *)
Owned == handle = "open" /\ ~ held /\ \A c \in Calls : callpc[c] \in {"new", "done"}

(* AdapterHandle::close: begin_close, then the supervisor is joined under the
   deadline. *)
CloseBegins ==
  /\ Owned
  /\ handle' = "closing"
  /\ closing' = TRUE
  /\ UNCHANGED <<muxVars, verdictVars, queue, permits, callVars, pump, waiterVars,
                 readerVars, supVars, adapterVars>>

CloseDeadline ==
  /\ handle = "closing"
  /\ sup.at # "done"
  /\ Behaviours \cap {"ignores_eof", "forks"} # {}
  /\ handle' = IF exited THEN "held_open" ELSE "eof_ignored"
  /\ UNCHANGED <<muxVars, verdictVars, queueVars, callVars, pump, waiterVars,
                 readerVars, supVars, adapterVars>>

CloseFinish ==
  /\ handle \in {"held_open", "eof_ignored"}
  /\ finish(IF handle = "held_open" THEN "StdoutHeldOpen" ELSE "StdinEofIgnored")
  /\ handle' = "finished"
  /\ UNCHANGED <<held, queueVars, callVars, pump, waiter, readerVars, supVars,
                 adapterVars>>

(* close returns, and Drop runs. *)
CloseEnds ==
  /\ handle = "finished" \/ (handle = "closing" /\ sup.at = "done")
  /\ handle' = "closed"
  /\ try_send(None)
  /\ UNCHANGED <<muxVars, verdictVars, queueVars, callVars, pump, waiterVars,
                 readerVars, sup, exited, adapterVars>>

(* The handle is dropped without a close. *)
Drop ==
  /\ Owned
  /\ handle' = "dropped"
  /\ try_send(None)
  /\ UNCHANGED <<muxVars, verdictVars, queueVars, callVars, pump, waiterVars,
                 readerVars, sup, exited, adapterVars>>

(* with_contract_violation_held around a commit. *)
Hold ==
  /\ handle = "open" /\ ~ held
  /\ held' = TRUE
  /\ UNCHANGED <<muxVars, verdict, queueVars, callVars, pump, waiterVars,
                 readerVars, supVars, handle, adapterVars>>

Release ==
  /\ held
  /\ held' = FALSE
  /\ UNCHANGED <<muxVars, verdict, queueVars, callVars, pump, waiterVars,
                 readerVars, supVars, handle, adapterVars>>

Handle == HelloAccepted \/ HelloFailed \/ CloseDeadline \/ CloseFinish \/ CloseEnds

-----------------------------------------------------------------------------
(***************************************************************************)
(* The adapter.                                                             *)
(***************************************************************************)
hostVars == <<muxVars, verdictVars, queueVars, callVars, pump, waiterVars,
              readerVars, supVars, handle>>

(* A line into the pipe, which is closed once the reader has returned. *)
Write(f) ==
  IF reader.at = "done" THEN UNCHANGED stdout
  ELSE Len(stdout) < MaxFrames /\ stdout' = Append(stdout, f)

Answer ==
  /\ child = "running"
  /\ \E q \in asked :
       /\ Write([id |-> q[1], of |-> q[2]])
       /\ asked' = asked \ {q}
  /\ partial' = FALSE
  /\ UNCHANGED <<hostVars, child, forked, deaf>>

Stray ==
  /\ child = "running" /\ ~ partial
  /\ \E i \in Strays : Write([id |-> i, of |-> None])
  /\ UNCHANGED <<hostVars, child, asked, partial, forked, deaf>>

BeginFrame ==
  /\ child = "running" /\ "partial" \in Behaviours
  /\ asked # {} /\ ~ partial
  /\ partial' = TRUE
  /\ UNCHANGED <<hostVars, child, asked, stdout, forked, deaf>>

GoDeaf ==
  /\ child = "running" /\ "deaf" \in Behaviours /\ ~ deaf
  /\ deaf' = TRUE
  /\ UNCHANGED <<hostVars, child, asked, stdout, partial, forked>>

Fork ==
  /\ child = "running" /\ "forks" \in Behaviours /\ ~ forked
  /\ forked' = TRUE
  /\ UNCHANGED <<hostVars, child, asked, stdout, partial, deaf>>

(* The process left behind writes, or closes the stdout it inherited.  While
   the adapter runs its writes are indistinguishable from the adapter's own. *)
Orphan ==
  /\ forked /\ child # "running"
  /\ \/ Write([id |-> None, of |-> None]) /\ UNCHANGED forked
     \/ forked' = FALSE /\ UNCHANGED stdout
  /\ UNCHANGED <<hostVars, child, asked, partial, deaf>>

(* The adapter exits: it finished its frame and its stdin ended, or it died. *)
Exit ==
  /\ child = "running"
  /\ \/ pump.at = "stopped" /\ ~ partial /\ ~ deaf /\ "ignores_eof" \notin Behaviours
     \/ "dies" \in Behaviours
  /\ child' = "exited"
  /\ asked' = {}
  /\ UNCHANGED <<hostVars, stdout, partial, forked, deaf>>

Adapter == Answer \/ Stray \/ BeginFrame \/ GoDeaf \/ Fork \/ Orphan \/ Exit

-----------------------------------------------------------------------------
Next ==
  \/ \E c \in Calls : StartCall(c) \/ Enqueue(c) \/ Abandoned(c)
  \/ \E i \in Ids : Waiter(i)
  \/ Pump \/ Reader \/ ReadError \/ Supervise
  \/ Handle \/ CloseBegins \/ Drop \/ Hold \/ Release
  \/ Adapter

Spec == Init /\ [][Next]_vars

(* The tasks are scheduled and their timers fire: a deadline ends every wait
   that nothing else ends.  A commit under the latch returns, and a connection
   has finitely many of them, so a publisher that waits for the latch gets it.
   Nothing is assumed of the adapter, nor of the callers. *)
Fairness ==
  /\ \A c \in Calls : WF_vars(Enqueue(c) \/ Abandoned(c))
  /\ \A i \in Ids : WF_vars(Waiter(i))
  /\ WF_vars(Pump) /\ WF_vars(Reader) /\ WF_vars(Supervise)
  /\ WF_vars(Handle) /\ WF_vars(Release)
  /\ SF_vars(ReaderPublish) /\ SF_vars(SupFinish)

FairSpec == Spec /\ Fairness

-----------------------------------------------------------------------------
(***************************************************************************)
(* What the connection promises.                                            *)
(***************************************************************************)

(* Type correctness of the multiplexer, its tasks and the adapter. *)
TypeOK ==
  /\ nextId \in 0..IdLimit
  /\ slot \in [Ids -> {"unissued", "pending", "tombstoned", "answered"}]
  /\ terminal \in Kinds \cup Ends \cup {None}
  /\ verdict \in Kinds \cup {None} /\ held \in BOOLEAN
  /\ queue \in Seq(Calls) /\ Len(queue) <= QueueCapacity
  /\ permits \in Nat /\ closing \in BOOLEAN
  /\ callpc \in [Calls -> {"new", "sending", "queued", "taken", "done"}]
  /\ result \in [Calls -> Outcomes \cup {None}]
  /\ pump \in [at : {"recv", "admit", "permit", "recheck", "issue", "write",
                     "kill", "finish", "stopped"},
               req : Calls \cup {None}, id : Ids \cup {None}]
  /\ waiter \in [Ids -> [at : {"waiting", "elapsed"}, req : Calls] \cup {None}]
  /\ box \in [Ids -> Outcomes \cup {None}]
  /\ reader \in [at : {"reading", "publish", "kill", "done"}, kind : Kinds \cup {None}]
  /\ hello_done \in BOOLEAN
  /\ sup \in [at : {"watching", "draining", "judging", "reaping", "finishing", "done"},
              drained : BOOLEAN, reason : Kinds \cup Ends \cup {None}]
  /\ kill \in {<< >>} \cup {<<m>> : m \in Kinds \cup {None}}
  /\ exited \in BOOLEAN
  /\ handle \in {"hello", "failed", "open", "dropped", "closing", "held_open",
                 "eof_ignored", "finished", "closed"}
  /\ child \in {"running", "killed", "exited"}
  /\ asked \subseteq Ids \X Calls /\ stdout \in Seq(Frames)
  /\ partial \in BOOLEAN /\ forked \in BOOLEAN /\ deaf \in BOOLEAN

(* The verdict is what Verdict promises: first caught, never withdrawn, frozen
   while held, and published no later than the terminal reason carrying it. *)
V == INSTANCE Verdict WITH
  Kinds <- Kinds, Ends <- Ends, None <- None,
  verdict <- verdict, held <- held, terminal <- terminal

VerdictSpec == V!Spec

(* No call is ever handed the answer meant for another: the one failure the
   never-reuse rule of ids exists to make impossible.  One that is told the
   connection ended is told the reason it ended for; "gone, and nothing
   established why" never stands in for a reason. *)
NoCrossAttribution ==
  \A c \in Calls : result[c] # None =>
    /\ result[c].of \in {c, None}
    /\ result[c].is \in Kinds \cup Ends => result[c].is = terminal

(* Every permit is free, or held by the pump's request or by a waiter: none is
   lost by an early return, and no more requests wait for a reply than the
   adapter declared. *)
PermitsAreConserved ==
  LET holding == Cardinality({i \in Ids : waiter[i] # None})
                   + (IF pump.at \in {"recheck", "issue", "write"} THEN 1 ELSE 0)
  IN permits + holding = IF handle \in {"hello", "failed"} THEN 1 ELSE MaxInFlight

(* The host tears the connection down itself: the write was cut short or the
   handle is gone. *)
TornDown == pump.at \in {"kill", "finish", "stopped"} \/ handle \in {"failed", "dropped"}

(* An ordinary exit is reported only once everything the reader could read has
   been judged and nothing it judged was a violation, unless the host was
   tearing the connection down anyway. *)
ExitedMeansClean ==
  terminal = "Exited" => reader.at = "done" /\ (verdict = None \/ TornDown)

(* An adapter that keeps the contract is charged with nothing, however late its
   answers, for as long as the host has not torn the connection down. *)
HonestIsNotCharged == verdict # None => TornDown

(* A duplicate is a second answer: an adapter that answers each request at most
   once is never charged with one. *)
OneAnswerIsNoDuplicate == verdict # "DuplicateId"

(* Every call returns, whatever the adapter does or does not do: the one whose
   write is blocked, those queued behind it, and those that wait for room in the
   queue. *)
EveryCallReturns ==
  \A c \in Calls : callpc[c] # "new" ~> callpc[c] = "done"

(* An adapter caught breaking the contract is killed and the connection ends,
   even when the kill channel was full; no handle that is gone leaves its
   process behind; every close returns; and a connection that has ended, for
   whatever reason and at whatever moment of a call, strands no caller. *)
CaughtMeansEnded ==
  /\ verdict # None ~>
       /\ child # "running"
       /\ terminal # None \/ handle \in {"failed", "dropped", "closed"}
  /\ handle \in {"failed", "dropped", "closed"} ~> child # "running"
  /\ handle = "closing" ~> handle = "closed"
  /\ terminal # None ~> \A c \in Calls : callpc[c] \in {"new", "done"}
=============================================================================
