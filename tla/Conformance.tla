----------------------------- MODULE Conformance -----------------------------
(* The conformance suite (conformance/src): it executes an adapter against a fixture, judges *)
(* each execution on what crossed the wire, and compares executions: a crawl made twice, and *)
(* a crawl that is killed and resumed with one that is not.  One resource, one surface, and  *)
(* a clock that does not step back within a case.                                            *)
(*                                                                                           *)
(* The adapter under test plays the fixture, but for at most MaxFaults things it does wrong. *)
EXTENDS Naturals, FiniteSets, SequencesExt

CONSTANTS
  Fixtures,    \* the fixture files
  Records,     \* local ids
  Moneys,      \* amounts
  Notes,       \* whatever else is in an observation, and no fixture names
  Honest,      \* the one of Notes an adapter that derives its fields purely sends
  MaxFaults,
  MaxPages     \* MAX_PAGES

Absent == 0    \* no `page` in a request, no `next` in a reply

(* A HistoryObservation; a fixture's are within the cap and purely derived. *)
Observations == [id : Records, money : Moneys, state : {"active", "tombstoned"},
                 note : Notes, big : BOOLEAN]

(* The script of a fixture and its expect block. *)
FixtureFiles ==
  [history : Seq({o \in Observations : o.note = Honest /\ ~o.big}), balances : Seq(Moneys),
   ends : Seq(Nat), dies : Nat, resumable : {"exact", "batch_restart", "none"}, frames : Nat,
   live : SUBSET Records, forbidden : SUBSET Records, redelivered : SUBSET Records,
   omitted : SUBSET Records]

Ids(S) == {o.id : o \in S}

(* The financial content a fold has live: of each record the last observation, if active. *)
Live(fold) ==
  {fold[i] : i \in {i \in DOMAIN fold :
     /\ fold[i].state = "active"
     /\ \A j \in i + 1 .. Len(fold) : fold[j].id # fold[i].id}}

(* A fixture's page ends and the page it dies after are positions in its history.  What it   *)
(* says must be true of the history and of the cut: a record live where the killed run stops *)
(* is live in the end, and something is.  It can be read within the pages a drain asks for.  *)
Consistent(f) ==
  LET before == SubSeq(f.history, 1, f.dies)
      after  == SubSeq(f.history, f.dies + 1, Len(f.history))
  IN  /\ ToSet(f.ends) \subseteq 1 .. Len(f.history) /\ Cardinality(ToSet(f.ends)) =< MaxPages
      /\ f.ends[Len(f.ends)] = Len(f.history) /\ f.dies \in ToSet(f.ends) /\ after # <<>>
      /\ f.live = Ids(Live(f.history))
      /\ Live(before) # {} /\ Ids(Live(before)) \subseteq f.live
      /\ f.forbidden \subseteq IF f.resumable = "exact"
                               THEN Ids(ToSet(before)) \ Ids(ToSet(after)) ELSE {}
      /\ f.redelivered \subseteq Ids(ToSet(IF f.resumable = "exact" THEN after ELSE f.history))
      /\ f.frames >= Cardinality({e \in ToSet(f.ends) : f.resumable = "exact" => e > f.dies})
      /\ f.omitted \cap Ids(ToSet(f.history)) = {}

ASSUME ConformanceAssumption ==
  /\ Fixtures \subseteq FixtureFiles /\ \A f \in Fixtures : Consistent(f)
  /\ Honest \in Notes /\ MaxFaults \in Nat /\ MaxPages \in Nat \ {0}

VARIABLES
  fixture,
  case,      \* "crawl" or "interrupted"
  step,      \* where the driver is in an execution
  page,      \* the page of the next history.read
  pages,     \* how many were asked for
  exec,      \* the execution at hand
  across,    \* the paging state and the fold that span a kill and its resume
  judged,    \* the executions judged so far
  failures,  \* the assertions that failed
  faults     \* what the adapter has done wrong

vars == <<fixture, case, step, page, pages, exec, across, judged, failures, faults>>

(* `raw` is the transcript: every observation as it came over the wire. *)
NewExecution ==
  [asked |-> <<>>, raw |-> <<>>, balances |-> <<>>, history |-> <<>>, frames |-> 0,
   crashed |-> FALSE]

(* Resumption::new: a ResumeState from the start of history, and a fold. *)
NewResumption == [resumable |-> "unread", next |-> Absent, fold |-> <<>>]

Init ==
  /\ fixture \in Fixtures
  /\ case \in {"crawl", "interrupted"}
  /\ step = "spawn" /\ page = Absent /\ pages = 0
  /\ exec = NewExecution /\ across = NewResumption
  /\ judged = <<>> /\ failures = {} /\ faults = 0

Runs == IF case = "crawl" THEN <<"first", "second">> ELSE <<"full", "killed", "resumed">>

Run == Runs[Len(judged) + 1]

(* Only a kill and its resume share a Resumption, and only they may cut their history. *)
Truncated == Run \in {"killed", "resumed"}

Fails(assertions) == failures' = failures \union assertions

Goto(place) == step' = place

(* The adapter may do wrong so many times. *)
Wrong(n) == faults + n =< MaxFaults /\ faults' = faults + n

Asking(op) == exec' = [exec EXCEPT !.asked = Append(@, op)]

------------------------------------------------------------------------------
(* What is compared. *)

(* The fields an expected entry names, and those only. *)
Matches(emitted, declared) ==
  \A field \in DOMAIN declared : emitted[field] = declared[field]

(* A killed run is compared as if it had to emit everything. *)
Differs_whole(declared, emitted, truncated) ==
  \/ Len(emitted) # Len(declared)
  \/ \E i \in DOMAIN emitted : ~Matches(emitted[i], declared[i])

(* compare_sequence: equal, or for a truncated history a contiguous slice. *)
Differs(declared, emitted, truncated) ==
  \/ Len(emitted) > Len(declared)
  \/ ~truncated /\ Len(emitted) # Len(declared)
  \/ \A offset \in IF truncated THEN 0 .. Len(declared) - Len(emitted) ELSE {0} :
       \E i \in DOMAIN emitted : ~Matches(emitted[i], declared[offset + i])

If(condition, assertion) == IF condition THEN {assertion} ELSE {}

(* What the fold has live against what the fixture says is. *)
LiveFailures(fold) ==
  LET emitted == Ids(Live(fold))
  IN  IF fixture.live # {} /\ emitted = {} THEN {"A6"}
      ELSE If(~(emitted \subseteq fixture.live) \/ (~Truncated /\ emitted # fixture.live), "A2")

(* Over the cap, measured on the adapter's own bytes. *)
WireSizes(raw) == If(\E i \in DOMAIN raw : raw[i].big, "A10")

Declared == [i \in DOMAIN fixture.history |->
               [field \in DOMAIN fixture.history[i] \ {"note", "big"} |-> fixture.history[i][field]]]

(* assert_execution; a balance is owed in full by every execution. *)
Judgement ==
  WireSizes(exec.raw)
  \union If(exec.balances # fixture.balances, "A1")
  \union If(Differs(Declared, exec.history, Truncated), "A2")
  \union If(Ids(ToSet(exec.history)) \intersect fixture.omitted # {}, "A10")
  \union LiveFailures(IF Truncated THEN across.fold ELSE exec.history)

(* Everything a record's identity was given to, each with its place among them. *)
ByLocalId(history) ==
  {<<history[i], Cardinality({j \in 1 .. i : history[j].id = history[i].id})>> : i \in DOMAIN history}

(* A9: the same questions had the same answers. *)
Impure(first, second) ==
  \/ first.asked # second.asked
  \/ ByLocalId(first.history) # ByLocalId(second.history)

(* Only the identities of what is live. *)
Bracket_ids(full) == Ids(Live(across.fold)) # Ids(Live(full.history))

(* A5: what the kill and the resume left live is what one uninterrupted run did. *)
Bracket(full) == Live(across.fold) # Live(full.history)

(* run_pagination_family, once its three runs are done. *)
FamilyFailures ==
  LET full == judged[1]
      killed == judged[2]
      resumed == judged[3]
      emitted == Ids(ToSet(resumed.history))
  IN  If(~killed.crashed \/ resumed.crashed \/ Bracket(full)
           \/ fixture.forbidden \intersect emitted # {} \/ ~(fixture.redelivered \subseteq emitted)
           \/ resumed.frames > fixture.frames,
         "A5")

------------------------------------------------------------------------------
(* The adapter: what it should answer, and what it may. *)

End(from) == CHOOSE e \in ToSet(fixture.ends) :
  e > from /\ \A d \in ToSet(fixture.ends) : d > from => e =< d

(* A page of the fixture, from a cursor. *)
Scripted(from) ==
  IF from = Len(fixture.history) THEN [observations |-> <<>>, next |-> Absent]
  ELSE [observations |-> SubSeq(fixture.history, from + 1, End(from)),
        next |-> IF End(from) = Len(fixture.history) THEN Absent ELSE End(from)]

(* Another amount, another note, a body over the cap, or a record to be left out. *)
Variants ==
  LET sent == ToSet(fixture.history)
  IN  sent \union {[o EXCEPT !.money = m] : o \in sent, m \in Moneys}
           \union {[o EXCEPT !.note = n] : o \in sent, n \in Notes}
           \union {[o EXCEPT !.big = TRUE] : o \in sent}
           \union {[o EXCEPT !.id = i] : o \in sent, i \in fixture.omitted}

(* One observation lost, invented or altered. *)
Edits(s) ==
  {RemoveAt(s, i) : i \in DOMAIN s}
  \union {InsertAt(s, i, v) : i \in 1 .. Len(s) + 1, v \in Variants}
  \union {ReplaceAt(s, i, v) : i \in DOMAIN s, v \in Variants}

(* A page altered, a cursor not the one of the page, a page of another place. *)
Misplayed(from) ==
  LET right == Scripted(from)
      places == {Absent} \union ToSet(fixture.ends)
  IN  ({[right EXCEPT !.observations = s] : s \in Edits(right.observations)}
       \union {[right EXCEPT !.next = n] : n \in places}
       \union {Scripted(p) : p \in places}) \ {right}

(* A killed run of the fixture dies when it is asked for this page. *)
Dies == Run = "killed" /\ page = fixture.dies

------------------------------------------------------------------------------
(* run_crawl: one call at a time on one connection. *)

Same == UNCHANGED <<fixture, case, judged>>

Spawn ==
  /\ step = "spawn" /\ Goto("resources")
  /\ UNCHANGED <<page, pages, exec, across, failures, faults>> /\ Same

(* There is nothing to close, and still something to judge. *)
SpawnFails ==
  /\ step = "spawn" /\ Wrong(1) /\ Goto("judge")
  /\ Fails({"setup"})
  /\ UNCHANGED <<page, pages, exec, across>> /\ Same

ResourcesList ==
  /\ step = "resources" /\ Goto("balances")
  /\ Asking("resources")
  /\ UNCHANGED <<page, pages, across, failures, faults>> /\ Same

(* An error, or no resource at all. *)
ResourcesListFails ==
  /\ step = "resources" /\ Wrong(1) /\ Goto("close")
  /\ Asking("resources")
  /\ Fails({"setup"})
  /\ UNCHANGED <<page, pages, across>> /\ Same

(* A status nobody asked for is A7; what lacks or repeats one, the host refuses itself. *)
StatusCoverage(extra) == If(extra, "A7")

(* A truncated run asks on from the durable point of the run before. *)
ResumePoint == IF Truncated /\ across.resumable = "exact" THEN across.next ELSE Absent

BalancesRead ==
  /\ step = "balances" /\ Goto("history")
  /\ \E lines \in {fixture.balances, <<>>} \union {<<m>> : m \in Moneys}, extra \in BOOLEAN :
       /\ Wrong(IF lines = fixture.balances /\ ~extra THEN 0 ELSE 1)
       /\ exec' = [exec EXCEPT !.asked = Append(@, "balances"), !.balances = lines]
       /\ Fails(StatusCoverage(extra))
  /\ page' = ResumePoint /\ pages' = 0
  /\ UNCHANGED across /\ Same

BalancesReadFails ==
  /\ step = "balances" /\ Wrong(1) /\ Goto("history")
  /\ Asking("balances")
  /\ Fails({"A2"})
  /\ page' = ResumePoint /\ pages' = 0
  /\ UNCHANGED across /\ Same

Crashes(op) ==
  /\ exec' = [exec EXCEPT !.asked = Append(@, op), !.crashed = TRUE]
  /\ Goto("close")
  /\ Fails(If(Run # "killed", "A2"))
  /\ UNCHANGED <<page, pages, across>> /\ Same

BalancesReadDies == step = "balances" /\ Wrong(1) /\ Crashes("balances")

(* The first page of a read carries none. *)
HistoryOp == IF page = Absent THEN "history" ELSE "page"

HistoryReadDies ==
  /\ step = "history" /\ pages < MaxPages
  /\ Wrong(IF Dies THEN 0 ELSE 1) /\ Crashes(HistoryOp)

HistoryReadFails ==
  /\ step = "history" /\ pages < MaxPages
  /\ Wrong(1) /\ Goto("status")
  /\ Asking(HistoryOp)
  /\ Fails({"A2"})
  /\ UNCHANGED <<page, pages, across>> /\ Same

(* drop_oversized: the host leaves out what is over the cap. *)
Kept(observations) ==
  LET of[n \in 0 .. Len(observations)] ==
        IF n = 0 THEN <<>>
        ELSE IF observations[n].big THEN of[n - 1] ELSE Append(of[n - 1], observations[n])
  IN  of[Len(observations)]

(* ResumeState::record *)
Record(resumption, resumable, next) ==
  [resumption EXCEPT !.resumable = resumable,
                     !.next = IF resumable = "exact" THEN next ELSE @]

(* A page of drain_history: the ledger, both folds and the paging state. *)
HistoryRead ==
  /\ step = "history" /\ pages < MaxPages
  /\ \E reply \in {Scripted(page)} \union Misplayed(page), extra \in BOOLEAN :
       LET kept == Kept(reply.observations)
       IN  /\ Wrong((IF Dies THEN 1 ELSE 0) + (IF reply = Scripted(page) THEN 0 ELSE 1)
                      + (IF extra THEN 1 ELSE 0))
           /\ exec' = [exec EXCEPT !.asked = Append(@, HistoryOp),
                                   !.raw = @ \o reply.observations,
                                   !.history = @ \o kept, !.frames = @ + 1]
           /\ across' = IF Truncated
                        THEN [Record(across, fixture.resumable, reply.next) EXCEPT !.fold = @ \o kept]
                        ELSE across
           /\ page' = reply.next
           /\ Goto(IF reply.next = Absent THEN "status" ELSE "history")
           /\ Fails(StatusCoverage(extra))
  /\ pages' = pages + 1 /\ Same

TooManyPages ==
  /\ step = "history" /\ pages = MaxPages /\ Goto("status")
  /\ Fails({"setup"})
  /\ UNCHANGED <<page, pages, exec, across, faults>> /\ Same

StatusRead ==
  /\ step = "status" /\ Goto("close")
  /\ Asking("status")
  /\ \E failed \in BOOLEAN : Wrong(IF failed THEN 1 ELSE 0) /\ Fails(If(failed, "A7"))
  /\ UNCHANGED <<page, pages, across>> /\ Same

(* finish: the connection is closed, and how it ended is judged. *)
Close ==
  /\ step = "close" /\ Goto("judge")
  /\ \E violated \in BOOLEAN : Wrong(IF violated THEN 1 ELSE 0) /\ Fails(If(violated, "A11"))
  /\ UNCHANGED <<page, pages, exec, across>> /\ Same

(* No execution is looked at before it is judged. *)
Judge ==
  /\ step = "judge"
  /\ Goto(IF Len(judged) + 1 = Len(Runs) THEN "compare" ELSE "spawn")
  /\ Fails(Judgement)
  /\ judged' = Append(judged, exec)
  /\ exec' = NewExecution /\ page' = Absent /\ pages' = 0
  /\ UNCHANGED <<fixture, case, across, faults>>

(* case_crawl and run_pagination_family, after their last execution. *)
Compare ==
  /\ step = "compare" /\ Goto("done")
  /\ Fails(IF case = "crawl" THEN If(Impure(judged[1], judged[2]), "A9") ELSE FamilyFailures)
  /\ UNCHANGED <<page, pages, exec, across, faults>> /\ Same

Next ==
  \/ Spawn \/ SpawnFails \/ ResourcesList \/ ResourcesListFails
  \/ BalancesRead \/ BalancesReadFails \/ BalancesReadDies
  \/ HistoryRead \/ HistoryReadFails \/ HistoryReadDies \/ TooManyPages
  \/ StatusRead \/ Close \/ Judge \/ Compare

Spec == Init /\ [][Next]_vars

------------------------------------------------------------------------------
Steps == {"spawn", "resources", "balances", "history", "status", "close", "judge",
          "compare", "done"}

Assertions == {"setup", "A1", "A2", "A5", "A6", "A7", "A9", "A10", "A11"}

Questions == {"resources", "balances", "history", "page", "status"}

Executions ==
  [asked : Seq(Questions), raw : Seq(Observations), balances : Seq(Moneys),
   history : Seq(Observations), frames : Nat, crashed : BOOLEAN]

Resumptions ==
  [resumable : {"unread", "exact", "batch_restart", "none"}, next : Nat, fold : Seq(Observations)]

(* Type correctness; and an execution is judged for every run of a case, and no other, before *)
(* the runs are compared.                                                                     *)
TypeOK ==
  /\ fixture \in Fixtures /\ case \in {"crawl", "interrupted"} /\ step \in Steps
  /\ judged \in Seq(Executions) /\ Len(judged) =< Len(Runs)
  /\ step \in {"compare", "done"} <=> Len(judged) = Len(Runs)
  /\ page \in {Absent} \union ToSet(fixture.ends) /\ pages \in 0 .. MaxPages
  /\ exec \in Executions
  /\ across \in Resumptions /\ across.next \in {Absent} \union ToSet(fixture.ends)
  /\ failures \subseteq Assertions
  /\ faults \in 0 .. MaxFaults

Passed == step = "done" /\ failures = {}

(* An adapter that plays its fixture right is never failed, wherever it is killed and however *)
(* it resumes: "All three of those are contiguous slices, which is exactly what `Truncated`   *)
(* accepts" (runner.rs:255-256).                                                              *)
HonestPasses == faults = 0 => failures = {}

(* A case that passed is evidence, whatever the adapter did wrong on the way.  A crawl sent the *)
(* declared records, the same twice and field for field, those no fixture names included.  Of a *)
(* read that was killed and resumed nothing was lost or drifted: what the two runs sent leaves  *)
(* live what one whole run left.  Nothing over the cap was on the wire, and every balance was   *)
(* there.  No one run shows this: each is judged alone and on the named fields only.            *)
PassIsEarned ==
  Passed =>
    LET Sent(i) == judged[i].raw
    IN  /\ \A i \in DOMAIN judged :
             /\ judged[i].balances = fixture.balances
             /\ \A j \in DOMAIN Sent(i) : ~Sent(i)[j].big /\ Sent(i)[j].id \notin fixture.omitted
        /\ Len(Sent(1)) = Len(fixture.history)
        /\ \A i \in DOMAIN Sent(1) : Sent(1)[i] = [fixture.history[i] EXCEPT !.note = Sent(1)[i].note]
        /\ case = "crawl" => Sent(1) = Sent(2)
        /\ case = "interrupted" => Live(Sent(2) \o Sent(3)) = Live(Sent(1))
==============================================================================
