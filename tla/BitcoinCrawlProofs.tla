------------------------- MODULE BitcoinCrawlProofs -------------------------
(***************************************************************************)
(* Bitcoin implements Crawl, resource by resource: what a step does to one  *)
(* resource's crawl is of five kinds, and each is a step of the crawl or    *)
(* leaves it alone.  What has to be known of a state is that the cursor a   *)
(* host has, the page in flight to it and the snapshot that is kept for it  *)
(* are of one plan, and that a request carries the cursors of its hosts.    *)
(***************************************************************************)
EXTENDS BitcoinProofs

-----------------------------------------------------------------------------
(***************************************************************************)
(* The invariant.                                                           *)
(***************************************************************************)

(* An entry of a page is of a plan, of the snapshot that is kept unless it was the
   last of it. *)
CutFrom(r, txs, n) ==
  LET from == From(host[r].page)
  IN  /\ IsEntry(request.answers[r], Plan(txs, from), from, HighWater(txs, from), n)
      /\ crawls[r] = IF request.answers[r].next = None THEN None ELSE txs

(* A page in flight is cut of a plan, where the host's cursor says. *)
Cut(r) ==
  InFlight(r) =>
    /\ host[r].page \in {None} \union WireCursors
    /\ \E txs \in Snapshots : \E n \in 0..Len(Plan(txs, From(host[r].page))) : CutFrom(r, txs, n)

(* What a host has is not above the cursor it has. *)
Resumable(r) ==
  /\ host[r].asking /\ host[r].page = None => host[r].got = <<>>
  /\ host[r].page \in ForeignCursors => host[r].got = <<>>
  /\ host[r].page \in WireCursors =>
       \A k \in ToSet(host[r].got) : Confirmed(k) => ~Above(k, From(host[r].page))

(* A request is of hosts that ask, each from the page it has; a provider is asked only
   of a crawl that is not in hand. *)
Following ==
  at # "idle" =>
    /\ request.op = "history" /\ ~request.lost => \A r \in request.batch : host[r].asking
    /\ \A i \in 1..Len(request.queries) :
         request.queries[i].page = host[request.queries[i].resource].page
    /\ at = "fetch" => ~InHand

CrawlInv == Following /\ \A r \in Resources : Resumable(r) /\ Cut(r)

-----------------------------------------------------------------------------
(***************************************************************************)
(* What a step does to one resource's crawl.                                *)
(***************************************************************************)

(* Nothing of it changes. *)
Same(r) ==
  /\ host'[r] = host[r] /\ crawls'[r] = crawls[r]
  /\ InFlight(r)' <=> InFlight(r)
  /\ InFlight(r) => request'.answers[r] = request.answers[r]

(* A reply, a snapshot or a reader is gone. *)
Drops(r) ==
  /\ ~InFlight(r)'
  /\ host'[r] = host[r] \/ host'[r] = [host[r] EXCEPT !.asking = FALSE]
  /\ crawls'[r] = crawls[r] \/ crawls'[r] = None

(* Its reader begins. *)
Begins(r) ==
  /\ at = "idle" /\ at' = "idle" /\ ~host[r].asking /\ crawls' = crawls
  /\ \/ host'[r] = [Idle EXCEPT !.asking = TRUE]
     \/ \E c \in ForeignCursors : host'[r] = [Idle EXCEPT !.asking = TRUE, !.page = c]
     \/ host[r].page # None /\ host'[r] = [host[r] EXCEPT !.asking = TRUE]

(* A page of it is cut. *)
Serves(r) ==
  /\ at \in {"next", "fetch"} /\ request.queries # <<>> /\ Query.resource = r
  /\ request.op = "history" /\ host'[r] = host[r]
  /\ Query.page \in {None} \union WireCursors
  /\ \E txs \in Snapshots : Serve(txs) /\ (InHand => txs = crawls[r])

(* A page of it arrives. *)
Arrives(r) ==
  /\ InFlight(r) /\ at' = "idle" /\ crawls'[r] = crawls[r]
  /\ host'[r] = Followed(host[r], request.answers[r])

(* An entry pushed changes nothing of another resource, nor, when it is no page, of
   its own. *)
LEMMA PushSame ==
  ASSUME TypeOK, Asked, at \in {"next", "fetch"}, request.queries # <<>>, NEW entry \in Answers,
         NEW spent, NEW extra, NEW abandon,
         Push(entry, spent, extra, abandon), host' = host, NEW r \in Resources,
         crawls'[r] = crawls[r],
         r # Query.resource \/ entry.outcome # "fetched" \/ request.op # "history"
  PROVE  Same(r)
<1>1. /\ request'.answers = [request.answers EXCEPT ![Query.resource] = entry]
      /\ request'.op = request.op /\ request'.batch = request.batch
      /\ request'.failed = request.failed /\ request'.lost = request.lost
  BY PushAsked
<1>2. /\ request.answers \in [Resources -> {None} \union Answers] /\ Query.resource \in Resources
      /\ at' # "idle"
  BY QueryType DEF TypeOK, Requests, Push
<1>3. CASE r # Query.resource
  <2>1. request'.answers[r] = request.answers[r]
    BY <1>1, <1>2, <1>3
  <2> QED BY <1>1, <1>2, <2>1 DEF Same, InFlight
<1>4. CASE r = Query.resource
  <2>1. InFlight(r) => FALSE
    <3>1. ~request.failed => request.answers[r] = None
      <4> DEFINE q == request.queries
                 Q == [resource : Resources, page : {None} \union Pages]
      <4>1. q \in Seq(Q) /\ q # <<>>
        BY DEF TypeOK, Requests
      <4>2. Query = q[1] /\ 1 \in 1..Len(q)
        <5> HIDE DEF q, Q
        <5>1. Head(q) = q[1] /\ Len(q) \in Nat /\ Len(q) >= 1
          BY <4>1, HeadAndTail
        <5>2. 1 \in 1..Len(q)
          BY <5>1
        <5> QED BY <5>1, <5>2 DEF Query, q
      <4> QED BY <1>4, <4>2 DEF Asked
    <3> QED BY <3>1 DEF InFlight
  <2>2. request'.answers[r] = entry
    BY <1>1, <1>2, <1>4
  <2>3. ~InFlight(r)'
    BY <1>1, <1>4, <2>2 DEF InFlight
  <2> QED BY <2>1, <2>3 DEF Same
<1> QED BY <1>3, <1>4

(* A page served is of the resource of the query in hand. *)
LEMMA ServeSorts ==
  ASSUME TypeOK, Asked, at \in {"next", "fetch"}, request.queries # <<>>,
         Query.page \in {None} \union WireCursors,
         NEW txs \in Snapshots, Serve(txs), host' = host, NEW r \in Resources,
         r # Query.resource
  PROVE  Same(r)
<1> DEFINE from == From(Query.page)
           plan == Plan(txs, from)
<1>1. PICK n, page :
               /\ n \in 0..Len(plan)
               /\ IsPage(page, plan, from, HighWater(txs, from), request.budget, n)
               /\ [Status("fetched") EXCEPT !.observations = page.observations,
                                            !.degraded = page.degraded,
                                            !.next = page.next] \in Answers
               /\ Push([Status("fetched") EXCEPT !.observations = page.observations,
                                                 !.degraded = page.degraded,
                                                 !.next = page.next],
                       page.bytes, 0, FALSE)
               /\ crawls' = [crawls EXCEPT ![Query.resource] =
                               IF page.next = None THEN None ELSE txs]
  BY Served
<1> HIDE DEF plan, from
<1>2. crawls'[r] = crawls[r]
  BY <1>1 DEF TypeOK
<1> QED BY <1>1, <1>2, PushSame

(* The turns and the fetches, resource by resource. *)
LEMMA ProcessSorts ==
  ASSUME Typed, Asked, Following, Turn \/ Fetch, NEW r \in Resources
  PROVE  Same(r) \/ Drops(r) \/ Serves(r)
<1>1. /\ at \in {"next", "fetch"} /\ host' = host
  BY ProcessAnswers
<1>2. TypeOK /\ request.queries # <<>>
  BY <1>1 DEF Typed, Working
<1>3. CASE UNCHANGED <<request, crawls>> /\ at' = "fetch"
  BY <1>1, <1>3 DEF Same, InFlight
<1>4. CASE BadPage
  <2>1. request'.failed /\ crawls' = crawls
    BY <1>2, <1>4 DEF BadPage, TypeOK, Requests
  <2> QED BY <1>1, <2>1 DEF Drops, InFlight
<1>5. ASSUME NEW txs \in Snapshots, Serve(txs), InHand => txs = crawls[Query.resource],
             request.op = "history", Query.page \in {None} \union WireCursors
      PROVE  Same(r) \/ Serves(r)
  BY <1>1, <1>2, <1>5, ServeSorts DEF Serves
<1>6. ASSUME NEW status \in Statuses, Refuse(Classify(status), status), crawls' = crawls
      PROVE  Same(r)
  <2>1. Classify(status) \in {"rate_limited", "unavailable"}
    BY DEF Classify
  <2>2. /\ Status(Classify(status)) \in Answers
        /\ Status(Classify(status)).outcome # "fetched"
    BY <2>1, StatusType DEF Status
  <2> QED BY <1>1, <1>2, <1>6, <2>2, PushSame DEF Refuse
<1>7. CASE NotFetched
  <2>1. /\ Status("not_fetched") \in Answers /\ Status("not_fetched").outcome # "fetched"
    BY StatusType DEF Status
  <2> QED BY <1>1, <1>2, <1>7, <2>1, PushSame DEF NotFetched
<1>8. CASE ContinueCrawl
  <2>1. crawls[Query.resource] \in Snapshots
    <3>1. crawls \in [Resources -> {None} \union Snapshots] /\ Query.resource \in Resources
      BY <1>2, QueryType DEF TypeOK
    <3>2. crawls[Query.resource] # None
      BY <1>8 DEF ContinueCrawl, InHand
    <3> QED BY <3>1, <3>2
  <2>2. /\ Serve(crawls[Query.resource]) /\ Query.page \in {None} \union WireCursors
        /\ request.op = "history"
    BY <1>8 DEF ContinueCrawl, InHand, Pageable, Parses
  <2> QED BY <1>5, <2>1, <2>2
<1>9. CASE StartFetch \/ AddressChain
  BY <1>1, <1>3, <1>9 DEF StartFetch, AddressChain
<1>10. CASE PaginationStalled
  <2>1. Refuse(Classify("stuck"), "stuck") /\ "stuck" \in Statuses /\ crawls' = crawls
    BY <1>10 DEF PaginationStalled, Classify
  <2> QED BY <1>6, <2>1
<1>11. CASE AddressMempool
  <2>1. CASE Len(fetch.todo) > 1
    BY <1>1, <1>3, <1>11, <2>1 DEF AddressMempool
  <2>2. CASE ~(Len(fetch.todo) > 1)
    <3>1. Serve(Pending(fetch.txs, Head(fetch.todo))) /\ at = "fetch"
      BY <1>11, <2>2 DEF AddressMempool
    <3>2. Pending(fetch.txs, Head(fetch.todo)) \in Snapshots
      BY <1>2, PendingType DEF TypeOK, Fetches
    <3>3. request.op = "history" /\ Query.page \in {None} \union WireCursors
      BY <1>11, FetchType DEF AddressMempool, Typed, Working
    <3>4. ~InHand
      BY <3>1 DEF Following
    <3> QED BY <1>5, <3>1, <3>2, <3>3, <3>4
  <2> QED BY <2>1, <2>2
<1>12. CASE StatusRead
  <2>1. Push(Status("fetched"), 0, 0, FALSE) /\ crawls' = crawls /\ request.op # "history"
    BY <1>12 DEF StatusRead
  <2>2. Status("fetched") \in Answers
    BY StatusType
  <2> QED BY <1>1, <1>2, <2>1, <2>2, PushSame
<1>13. ASSUME NEW saved \in BOOLEAN, AddressStats(saved)
       PROVE  Same(r)
  <2> DEFINE figures == Plus(fetch.figures, Net(Head(fetch.todo)))
             entry == [Status("fetched") EXCEPT !.figures = figures]
  <2>1. CASE Len(fetch.todo) > 1
    BY <1>1, <1>3, <1>13, <2>1 DEF AddressStats, Same, InFlight
  <2>2. CASE ~(Len(fetch.todo) > 1)
    <3>1. Push(entry, 0, 0, FALSE) /\ crawls' = crawls /\ request.op # "history"
      BY <1>13, <2>2 DEF AddressStats
    <3>2. figures \in Nat \X Nat
      BY <1>2, NetType DEF TypeOK, Fetches
    <3>3. entry \in Answers
      <4>1. Status("fetched") \in Answers /\ figures \in Counts \X Counts
        BY <3>2, StatusType DEF Counts
      <4> HIDE DEF figures
      <4> QED BY <4>1 DEF Answers
    <3> HIDE DEF entry
    <3> QED BY <1>1, <1>2, <3>1, <3>3, PushSame
  <2> QED BY <2>1, <2>2
<1>14. ASSUME NEW status \in Statuses, FetchFails(status)
       PROVE  Same(r)
  BY <1>6, <1>14 DEF FetchFails
<1>15. ASSUME NEW status \in Statuses, BalanceUnavailable(status)
       PROVE  Same(r)
  <2> DEFINE cached == Load(Query.resource)
             entry == [Status("stale") EXCEPT !.figures = cached.figures, !.asOf = cached.asOf]
  <2>1. CASE cached = None
    <3>1. Refuse(Classify(status), status) /\ crawls' = crawls
      BY <1>15, <2>1 DEF BalanceUnavailable, Classify
    <3> QED BY <1>6, <3>1
  <2>2. CASE cached # None
    <3>1. cached \in CacheFiles
      BY <1>2, <2>2, QueryType, LoadType
    <3>2. Push(entry, 0, Evidence[status], FALSE) /\ crawls' = crawls /\ request.op # "history"
      BY <1>15, <2>2 DEF BalanceUnavailable
    <3> HIDE DEF cached
    <3>3. entry \in Answers
      <4>1. Status("stale") \in Answers /\ cached.figures \in Counts \X Counts /\ cached.asOf \in Nat
        BY <3>1, StatusType DEF CacheFiles
      <4> QED BY <4>1 DEF Answers
    <3> HIDE DEF entry
    <3> QED BY <1>1, <1>2, <3>2, <3>3, PushSame
  <2> QED BY <2>1, <2>2
<1> QED
  BY <1>4, <1>7, <1>8, <1>9, <1>10, <1>11, <1>12, <1>13, <1>14, <1>15 DEF Turn, Fetch

(* Every step, resource by resource. *)
LEMMA StepSorts ==
  ASSUME Typed, Asked, Following, [Next]_vars, NEW r \in Resources
  PROVE  Same(r) \/ Drops(r) \/ Begins(r) \/ Serves(r) \/ Arrives(r)
<1>1. TypeOK /\ host \in [Resources -> Readers] /\ request \in Requests
      /\ crawls \in [Resources -> {None} \union Snapshots]
  BY DEF Typed, TypeOK
<1>2. ASSUME NEW q \in Resources, BeginCrawl(q)
      PROVE  Same(r) \/ Begins(r)
  <2>1. CASE r # q
    <3>1. host'[r] = host[r]
      BY <1>1, <1>2, <2>1 DEF BeginCrawl
    <3> QED BY <1>2, <3>1 DEF BeginCrawl, Same, InFlight
  <2>2. CASE r = q
    BY <1>1, <1>2, <2>2 DEF BeginCrawl, Begins
  <2> QED BY <2>1, <2>2
<1>3. CASE Asks
  <2>1. /\ at = "idle" /\ request'.answers = [q \in Resources |-> None]
        /\ UNCHANGED <<host, crawls>>
    <3>1. PICK op \in duty, batch \in Seq(Resources), now \in Nat : Ask(op, batch, now)
      BY <1>3, AsksBatch
    <3> QED BY <3>1 DEF Ask, NoRequest
  <2>2. ~InFlight(r) /\ ~InFlight(r)'
    BY <2>1 DEF InFlight
  <2> QED BY <2>1, <2>2 DEF Same
<1>4. CASE Timeout
  <2>1. request'.lost
    BY <1>1, <1>4 DEF Timeout, Requests
  <2> QED BY <1>4, <2>1 DEF Timeout, Drops, InFlight
<1>5. CASE Turn \/ Fetch
  BY <1>5, ProcessSorts
<1>6. CASE WriteReply
  <2>1. ~InFlight(r)' /\ crawls' = crawls /\ at' = "idle"
    BY <1>6 DEF WriteReply, InFlight
  <2>2. CASE r \notin request.batch \/ request.op # "history" \/ request.lost
    <3>1. host'[r] = host[r]
      BY <1>6, <2>2 DEF WriteReply
    <3> QED BY <2>1, <3>1 DEF Drops
  <2>3. CASE /\ ~(r \notin request.batch \/ request.op # "history" \/ request.lost)
             /\ request.failed \/ request.bytes > MaxFrame
    <3>1. host'[r] = [host[r] EXCEPT !.asking = FALSE]
      BY <1>6, <2>3 DEF WriteReply
    <3> QED BY <2>1, <3>1 DEF Drops
  <2>4. CASE /\ ~(r \notin request.batch \/ request.op # "history" \/ request.lost)
             /\ ~(request.failed \/ request.bytes > MaxFrame)
    <3>1. host'[r] = Followed(host[r], request.answers[r])
      BY <1>6, <2>4 DEF WriteReply
    <3>2. CASE request.answers[r].outcome # "fetched"
      BY <2>1, <3>1, <3>2 DEF Followed, Drops
    <3>3. CASE request.answers[r].outcome = "fetched"
      <4>1. request.answers[r] # None
        BY <1>6, <2>4 DEF Asked, WriteReply
      <4>2. InFlight(r)
        BY <1>6, <2>4, <3>3, <4>1 DEF InFlight, WriteReply
      <4> QED BY <2>1, <3>1, <4>2 DEF Arrives
    <3> QED BY <3>2, <3>3
  <2> QED BY <2>2, <2>3, <2>4
<1>7. CASE Environment
  <2>1. CASE \E definition \in Definitions : Restart(definition)
    BY <2>1 DEF Restart, Drops, InFlight
  <2>2. CASE UNCHANGED <<host, crawls, at, request>>
    BY <2>2 DEF Same, InFlight
  <2> QED BY <1>7, <2>1, <2>2 DEF Environment, Broadcast, Evict, Mine, Reorg, Moved, Damage
<1>8. CASE UNCHANGED vars
  BY <1>8 DEF vars, Same, InFlight
<1> QED BY <1>2, <1>3, <1>4, <1>5, <1>6, <1>7, <1>8 DEF Next, Process

-----------------------------------------------------------------------------
(***************************************************************************)
(* A page, and what the cursor after it leaves.                             *)
(***************************************************************************)

(* What the cursor of a page leaves: what was not sent, and nothing confirmed that was. *)
Resumes(entry, txs, from, n) ==
  LET plan == Plan(txs, from)
      next == entry.next
  IN  /\ next \in WireCursors /\ From(next) \in Marks /\ ~Above(from, From(next))
      /\ \A k \in ToSet(entry.observations) : Confirmed(k) => ~Above(k, From(next))
      /\ \E m \in 0..n :
           /\ ToSet(entry.observations) = {k \in {plan[i] : i \in 1..m} : Deliverable(k)}
           /\ \A i \in (m + 1)..Len(plan) : plan[i] \in Due(txs, From(next))
           /\ \A k \in Due(txs, From(next)) :
                Confirmed(k) => \E i \in (m + 1)..Len(plan) : plan[i] = k

(* The cursor of a page that is not the last resumes the plan (Key::cursor, plan). *)
LEMMA CursorResumes ==
  ASSUME NEW txs \in Snapshots, NEW from \in Marks,
         NEW n \in 0..Len(Plan(txs, from)), NEW entry,
         IsEntry(entry, Plan(txs, from), from, HighWater(txs, from), n), entry.next # None
  PROVE  Resumes(entry, txs, from, n)
<1> DEFINE plan == Plan(txs, from)
           hw == HighWater(txs, from)
           sent == entry.observations
           next == entry.next
           front(j) == {plan[i] : i \in 1..j}
<1>1. /\ plan \in Seq(Keys) /\ Len(plan) \in Nat
      /\ \A i, j \in 1..Len(plan) : i < j => KeyBefore(plan[i], plan[j])
      /\ \A i \in 1..Len(plan) : plan[i] \in Due(txs, from)
      /\ \A k \in Due(txs, from) : \E i \in 1..Len(plan) : plan[i] = k
  <2>1. /\ plan \in Seq(Keys)
        /\ \A i, j \in 1..Len(plan) : i < j => KeyBefore(plan[i], plan[j])
        /\ ToSet(plan) = Due(txs, from)
    BY PlanSorts
  <2> HIDE DEF plan
  <2>2. /\ \A i \in 1..Len(plan) : plan[i] \in ToSet(plan)
        /\ \A x \in ToSet(plan) : \E i \in 1..Len(plan) : plan[i] = x
    BY <2>1, SetOfSequence
  <2> QED BY <2>1, <2>2
<1>2. /\ hw \in Floors /\ ~Above(from, hw)
      /\ \A k \in AllKeys(txs) : Confirmed(k) => ~Above(k, hw)
  BY HighWaterMark
<1>3. IsEntry(entry, plan, from, hw, n) /\ n \in 0..Len(plan)
  OBVIOUS
<1> HIDE DEF plan, hw
<1>4. /\ sent \in Seq(Keys) /\ next \in WireCursors
      /\ ToSet(sent) = {k \in front(n) : Deliverable(k)}
      /\ \A i, j \in 1..Len(sent) : i < j => KeyBefore(sent[i], sent[j])
      /\ sent # <<>> => Last(sent) \in ToSet(sent)
  <2>1. plan \in Seq(Keys) /\ hw \in Floors /\ n \in 0..Len(plan) /\ next # None
    BY <1>1, <1>2, <1>3
  <2>2. /\ entry.observations \in Seq(Keys) /\ entry.next \in {None} \union WireCursors
        /\ ToSet(entry.observations) = {k \in {plan[i] : i \in 1..n} : Deliverable(k)}
        /\ \A i, j \in 1..Len(entry.observations) :
             i < j => KeyBefore(entry.observations[i], entry.observations[j])
        /\ entry.observations # <<>> => Last(entry.observations) \in ToSet(entry.observations)
    BY <1>3, <2>1, PageType
  <2> QED BY <2>1, <2>2
<1>5. next = Encode(IF sent = <<>> THEN from ELSE CursorAfter(Last(sent), hw))
  BY <1>3 DEF IsEntry
<1>6. \A c \in Marks : Encode(c) \in WireCursors /\ From(Encode(c)) = c
  BY CursorText, ParseType
<1>7. \A k \in Due(txs, from) : k \in AllKeys(txs) /\ k \in Keys
  BY SnapshotKeys DEF Due
<1>8. from.height \in Nat /\ from.txid \in Nat /\ from.mempool \in Nat
      /\ [height |-> from.height, txid |-> from.txid] \in Floors
  <2>1. MaxHeight \in Nat /\ \A t \in Txids : t \in Nat
    BY BitcoinAssumption
  <2> QED BY <2>1 DEF Marks, Floors
<1>9. CASE sent = <<>>
  <2>1. From(next) = from
    BY <1>5, <1>6, <1>9
  <2>2. ToSet(sent) = {}
    BY <1>9 DEF ToSet
  <2>3. ~Above(from, from)
    BY <1>8 DEF Above
  <2>4. front(0) = {}
    OBVIOUS
  <2>5. 0 \in 0..n /\ 0 + 1 = 1
    BY <1>1, <1>3
  <2> HIDE DEF front
  <2>6. /\ ToSet(sent) = {k \in front(0) : Deliverable(k)}
        /\ \A i \in (0 + 1)..Len(plan) : plan[i] \in Due(txs, From(next))
        /\ \A k \in Due(txs, From(next)) :
             Confirmed(k) => \E i \in (0 + 1)..Len(plan) : plan[i] = k
    BY <1>1, <2>1, <2>2, <2>4, <2>5
  <2> QED BY <1>4, <2>1, <2>2, <2>3, <2>5, <2>6 DEF plan, front, Resumes
<1>10. CASE sent # <<>>
  <2> DEFINE last == Last(sent)
             mark == CursorAfter(last, hw)
  <2>1. last \in front(n) /\ Deliverable(last) /\ last \in Keys
    BY <1>1, <1>3, <1>4, <1>10
  <2>2. PICK m \in 1..n : plan[m] = last
    BY <2>1
  <2>3. m \in 1..Len(plan) /\ m \in 0..n /\ last \in Due(txs, from)
    BY <1>1, <1>3, <2>2
  <2>4. mark \in Marks /\ From(next) = mark
    BY <1>2, <1>5, <1>6, <1>10, <2>1, CursorAfterType
  <2>5. \A k \in ToSet(sent) : k = last \/ KeyBefore(k, last)
    <3> SUFFICES ASSUME NEW k \in ToSet(sent) PROVE k = last \/ KeyBefore(k, last)
      OBVIOUS
    <3> DEFINE s == sent
    <3>1. s \in Seq(Keys) /\ s # <<>> /\ k \in ToSet(s)
          /\ \A i, j \in 1..Len(s) : i < j => KeyBefore(s[i], s[j])
      BY <1>4, <1>10
    <3>2. last = s[Len(s)]
      BY DEF Last
    <3> HIDE DEF s, last
    <3>3. PICK i \in 1..Len(s) : s[i] = k
      BY <3>1, SetOfSequence
    <3>4. Len(s) \in Nat /\ Len(s) \in 1..Len(s) /\ (i = Len(s) \/ i < Len(s))
      BY <3>1, <3>3
    <3> QED BY <3>1, <3>2, <3>3, <3>4
  <2> HIDE DEF last, mark, sent, next
  <2>6. ToSet(sent) = {k \in front(m) : Deliverable(k)}
    <3>1. ASSUME NEW i \in 1..n, Deliverable(plan[i]) PROVE i \in 1..m
      <4>1. plan[i] \in ToSet(sent) /\ i \in 1..Len(plan) /\ plan[i] \in Keys
        BY <1>1, <1>3, <1>4, <3>1
      <4>2. plan[i] = last \/ KeyBefore(plan[i], last)
        BY <2>5, <4>1
      <4>3. m < i => KeyBefore(last, plan[i])
        BY <1>1, <2>2, <2>3, <4>1
      <4>4. ~(m < i)
        BY <2>1, <4>1, <4>2, <4>3, KeyOrder
      <4> QED BY <1>1, <2>3, <4>1, <4>4
    <3>2. {k \in front(m) : Deliverable(k)} \subseteq {k \in front(n) : Deliverable(k)}
      <4>1. \A i \in 1..m : i \in 1..n
        BY <1>1, <1>3, <2>2
      <4> QED BY <4>1
    <3>3. {k \in front(n) : Deliverable(k)} \subseteq {k \in front(m) : Deliverable(k)}
      BY <3>1
    <3> HIDE DEF front
    <3> QED BY <1>4, <3>2, <3>3
  <2>7. ASSUME NEW k \in Keys, KeyBefore(last, k), k \in Due(txs, from)
        PROVE  k \in Due(txs, mark)
    <3>1. k \in AllKeys(txs)
      BY <1>7, <2>7
    <3>2. CASE Confirmed(last)
      <4>1. mark = [height |-> last.height, txid |-> last.txid, mempool |-> 0]
        BY <3>2 DEF mark, CursorAfter
      <4>2. Confirmed(k) => Above(k, mark)
        BY <2>1, <2>7, <3>2, <4>1, KeyType DEF KeyBefore, Above, Confirmed, Pool
      <4>3. k.txid > mark.mempool
        BY <4>1, KeyType
      <4> QED BY <3>1, <4>2, <4>3 DEF Due
    <3>3. CASE ~Confirmed(last)
      <4>1. mark = [height |-> hw.height, txid |-> hw.txid, mempool |-> last.txid]
        BY <3>3 DEF mark, CursorAfter
      <4>2. ~Confirmed(k) /\ k.txid > last.txid
        BY <2>1, <2>7, <3>3, KeyType DEF KeyBefore, Confirmed, Pool
      <4> QED BY <3>1, <4>1, <4>2 DEF Due
    <3> QED BY <3>2, <3>3
  <2>8. \A i \in (m + 1)..Len(plan) : plan[i] \in Due(txs, From(next))
    <3> SUFFICES ASSUME NEW i \in (m + 1)..Len(plan) PROVE plan[i] \in Due(txs, From(next))
      OBVIOUS
    <3>1. i \in 1..Len(plan) /\ m < i
      BY <1>1, <2>3
    <3>2. KeyBefore(last, plan[i]) /\ plan[i] \in Due(txs, from)
      BY <1>1, <2>2, <2>3, <3>1
    <3>3. plan[i] \in Keys
      BY <1>7, <3>2
    <3> QED BY <2>4, <2>7, <3>2, <3>3
  <2>9. ~Above(from, mark) /\ [height |-> mark.height, txid |-> mark.txid] \in Floors
    <3>1. [height |-> mark.height, txid |-> mark.txid] \in Floors
      BY <2>4 DEF Marks, Floors
    <3>2. CASE Confirmed(last)
      <4>1. mark = [height |-> last.height, txid |-> last.txid, mempool |-> 0]
        BY <3>2 DEF mark, CursorAfter
      <4>2. Above(last, from)
        BY <2>3, <3>2 DEF Due
      <4> QED BY <1>8, <2>1, <3>1, <4>1, <4>2, KeyType DEF Above
    <3>3. CASE ~Confirmed(last)
      <4>1. mark = [height |-> hw.height, txid |-> hw.txid, mempool |-> last.txid]
        BY <3>3 DEF mark, CursorAfter
      <4> QED BY <1>2, <3>1, <4>1 DEF Above
    <3> QED BY <3>2, <3>3
  <2>10. ASSUME NEW k \in Due(txs, mark), Confirmed(k)
         PROVE  \E i \in (m + 1)..Len(plan) : plan[i] = k
    <3>1. k \in AllKeys(txs) /\ k \in Keys /\ Above(k, mark)
      <4>1. k \in AllKeys(txs) /\ Above(k, mark)
        BY <2>10 DEF Due
      <4> QED BY <4>1, SnapshotKeys
    <3>2. Confirmed(last)
      <4> SUFFICES ASSUME ~Confirmed(last) PROVE FALSE
        OBVIOUS
      <4>1. mark = [height |-> hw.height, txid |-> hw.txid, mempool |-> last.txid]
        BY DEF mark, CursorAfter
      <4>2. Above(k, hw)
        BY <3>1, <4>1 DEF Above
      <4> QED BY <1>2, <2>10, <3>1, <4>2
    <3>3. mark = [height |-> last.height, txid |-> last.txid, mempool |-> 0]
      BY <3>2 DEF mark, CursorAfter
    <3>4. Above(k, last) /\ KeyBefore(last, k)
      BY <2>1, <2>10, <3>1, <3>2, <3>3, KeyType DEF Above, KeyBefore, Confirmed, Pool
    <3>5. Above(last, from)
      BY <2>3, <3>2 DEF Due
    <3>6. Above(k, from)
      BY <1>8, <2>1, <3>1, <3>4, <3>5, KeyType DEF Above
    <3>7. k \in Due(txs, from)
      BY <2>10, <3>1, <3>6 DEF Due
    <3>8. PICK i \in 1..Len(plan) : plan[i] = k
      BY <1>1, <3>7
    <3>9. ~(i < m) /\ i # m
      BY <1>1, <2>1, <2>2, <2>3, <3>1, <3>4, <3>8, KeyOrder
    <3>10. i \in (m + 1)..Len(plan)
      BY <1>1, <2>3, <3>8, <3>9
    <3> QED BY <3>8, <3>10
  <2>11. ASSUME NEW k \in ToSet(sent), Confirmed(k)
         PROVE  ~Above(k, mark)
    <3>1. k \in front(n)
      BY <1>4, <2>11
    <3>2. k \in AllKeys(txs) /\ k \in Keys
      BY <1>1, <1>3, <1>7, <3>1
    <3>3. CASE Confirmed(last)
      <4>1. mark = [height |-> last.height, txid |-> last.txid, mempool |-> 0]
        BY <3>3 DEF mark, CursorAfter
      <4>2. k = last \/ KeyBefore(k, last)
        BY <2>5, <2>11
      <4> QED BY <2>1, <2>11, <3>2, <3>3, <4>1, <4>2, KeyType DEF Above, KeyBefore, Confirmed
    <3>4. CASE ~Confirmed(last)
      <4>1. mark = [height |-> hw.height, txid |-> hw.txid, mempool |-> last.txid]
        BY <3>4 DEF mark, CursorAfter
      <4>2. ~Above(k, hw)
        BY <1>2, <2>11, <3>2
      <4> QED BY <4>1, <4>2 DEF Above
    <3> QED BY <3>3, <3>4
  <2>12. \A k \in Due(txs, From(next)) :
           Confirmed(k) => \E i \in (m + 1)..Len(plan) : plan[i] = k
    BY <2>4, <2>10
  <2>13. /\ next \in WireCursors /\ From(next) \in Marks /\ ~Above(from, From(next))
         /\ \A k \in ToSet(sent) : Confirmed(k) => ~Above(k, From(next))
    BY <1>4, <2>4, <2>9, <2>11
  <2> HIDE DEF front
  <2> QED BY <2>3, <2>6, <2>8, <2>12, <2>13 DEF plan, front, sent, next, Resumes
<1> QED BY <1>9, <1>10

(* The end of two sequences joined is the second. *)
LEMMA EndOfJoined ==
  ASSUME NEW S, NEW s \in Seq(S), NEW t \in Seq(S)
  PROVE  SubSeq(s \o t, Len(s) + 1, Len(s \o t)) = t
<1>1. Len(s) \in Nat /\ Len(t) \in Nat /\ s \o t \in Seq(S) /\ Len(s \o t) = Len(s) + Len(t)
  BY ConcatProperties
<1>2. CASE Len(t) = 0
  <2>1. t = <<>>
    BY <1>2
  <2>2. SubSeq(s \o t, Len(s) + 1, Len(s \o t)) = <<>>
    BY <1>1, <1>2, SubSeqEmpty
  <2> QED BY <2>1, <2>2
<1>3. CASE Len(t) # 0
  <2>1. Len(s) + 1 \in Len(s) + 1 .. Len(s) + Len(t) /\ Len(s \o t) \in Len(s) + 1 .. Len(s) + Len(t)
    BY <1>1, <1>3
  <2>2. SubSeq(s \o t, Len(s) + 1, Len(s \o t))
          = SubSeq(t, Len(s) + 1 - Len(s), Len(s \o t) - Len(s))
    BY <2>1, SubSeqOfConcat2
  <2>3. Len(s) + 1 - Len(s) = 1 /\ Len(s \o t) - Len(s) = Len(t)
    BY <1>1
  <2>4. SubSeq(t, 1, Len(t)) = t
    BY SubSeqFull
  <2> QED BY <2>2, <2>3, <2>4
<1> QED BY <1>2, <1>3

(* What a part of a sequence holds. *)
LEMMA PartHolds ==
  ASSUME NEW S, NEW s \in Seq(S), NEW m \in 0..Len(s)
  PROVE  /\ {SubSeq(s, 1, m)[i] : i \in DOMAIN SubSeq(s, 1, m)} = {s[i] : i \in 1..m}
         /\ {SubSeq(s, m + 1, Len(s))[i] : i \in DOMAIN SubSeq(s, m + 1, Len(s))}
              = {s[i] : i \in (m + 1)..Len(s)}
<1>1. Len(s) \in Nat /\ m \in Nat /\ m <= Len(s)
  OBVIOUS
<1> DEFINE f == SubSeq(s, 1, m)
           r == SubSeq(s, m + 1, Len(s))
<1>2. DOMAIN f = 1..m /\ \A i \in 1..m : f[i] = s[i]
  <2>1. \A i \in 1..m : s[i] \in S
    BY <1>1
  <2>2. f \in Seq(S) /\ Len(f) = (IF 1 <= m THEN m - 1 + 1 ELSE 0)
        /\ \A i \in 1 .. m - 1 + 1 : f[i] = s[1 + i - 1]
    BY <1>1, <2>1, SubSeqProperties
  <2>3. Len(f) = m /\ m - 1 + 1 = m
    BY <1>1, <2>2
  <2>4. \A i \in 1..m : 1 + i - 1 = i
    BY <1>1
  <2> HIDE DEF f
  <2> QED BY <2>2, <2>3, <2>4
<1>3. DOMAIN r = 1..(Len(s) - m) /\ \A i \in 1..(Len(s) - m) : r[i] = s[m + i]
  <2>1. \A i \in (m + 1)..Len(s) : s[i] \in S
    BY <1>1
  <2>2. /\ r \in Seq(S) /\ Len(r) = (IF m + 1 <= Len(s) THEN Len(s) - (m + 1) + 1 ELSE 0)
        /\ \A i \in 1 .. Len(s) - (m + 1) + 1 : r[i] = s[m + 1 + i - 1]
    BY <1>1, <2>1, SubSeqProperties
  <2>3. Len(r) = Len(s) - m /\ Len(s) - (m + 1) + 1 = Len(s) - m
    BY <1>1, <2>2
  <2>4. \A i \in 1..(Len(s) - m) : m + 1 + i - 1 = m + i
    BY <1>1
  <2> HIDE DEF r
  <2> QED BY <2>2, <2>3, <2>4
<1> HIDE DEF f, r
<1>4. {r[i] : i \in 1..(Len(s) - m)} = {s[i] : i \in (m + 1)..Len(s)}
  <2>1. \A i \in 1..(Len(s) - m) : m + i \in (m + 1)..Len(s)
    BY <1>1
  <2>2. \A i \in (m + 1)..Len(s) : i - m \in 1..(Len(s) - m) /\ m + (i - m) = i
    BY <1>1
  <2>3. ASSUME NEW i \in 1..(Len(s) - m) PROVE r[i] \in {s[j] : j \in (m + 1)..Len(s)}
    <3>1. r[i] = s[m + i] /\ m + i \in (m + 1)..Len(s)
      BY <1>3, <2>1
    <3> QED BY <3>1
  <2>4. ASSUME NEW i \in (m + 1)..Len(s) PROVE s[i] \in {r[j] : j \in 1..(Len(s) - m)}
    <3>1. i - m \in 1..(Len(s) - m) /\ r[i - m] = s[m + (i - m)] /\ m + (i - m) = i
      BY <1>3, <2>2
    <3>2. r[i - m] = s[i]
      BY <3>1
    <3> QED BY <3>1, <3>2
  <2> QED BY <2>3, <2>4
<1> QED BY <1>2, <1>3, <1>4 DEF f, r

(* What was sent and what was reported of a whole plan are the plan. *)
LEMMA WholePlan ==
  ASSUME NEW txs \in Snapshots, NEW from \in Marks,
         NEW n \in 0..Len(Plan(txs, from)), NEW entry,
         IsEntry(entry, Plan(txs, from), from, HighWater(txs, from), n), entry.next = None
  PROVE  /\ n = Len(Plan(txs, from))
         /\ Sorted(ToSet(entry.observations) \union entry.degraded, KeyBefore) = Plan(txs, from)
<1> DEFINE plan == Plan(txs, from)
           hw == HighWater(txs, from)
           front == {plan[i] : i \in 1..n}
<1>1. plan \in Seq(Keys) /\ ToSet(plan) = Due(txs, from) /\ hw \in Floors
  BY PlanSorts, HighWaterMark
<1>2. IsEntry(entry, plan, from, hw, n) /\ n \in 0..Len(plan)
  OBVIOUS
<1>3. plan = Sorted(Due(txs, from), KeyBefore)
  BY DEF Plan
<1> HIDE DEF plan, hw
<1>4. /\ ToSet(entry.observations) = {k \in front : Deliverable(k)}
      /\ entry.observations # <<>> => Last(entry.observations) \in ToSet(entry.observations)
      /\ entry.observations \in Seq(Keys)
  BY <1>1, <1>2, PageType
<1>5. n = Len(plan)
  <2> SUFFICES ASSUME n # Len(plan) PROVE FALSE
    OBVIOUS
  <2>1. entry.next = Encode(IF entry.observations = <<>> THEN from
                            ELSE CursorAfter(Last(entry.observations), hw))
    BY <1>2 DEF IsEntry
  <2>2. entry.observations # <<>> => CursorAfter(Last(entry.observations), hw) \in Marks
    <3>1. entry.observations # <<>> => Last(entry.observations) \in Keys
      BY <1>4, SetOfSequence
    <3> QED BY <1>1, <3>1, CursorAfterType
  <2>3. entry.next \in WireCursors
    BY <2>1, <2>2, CursorText
  <2> QED BY <2>3, SentinelAssumption DEF Pages
<1>6. entry.degraded = {k \in front : ~Deliverable(k)}
  BY <1>2 DEF IsEntry
<1>7. front = ToSet(plan)
  BY <1>1, <1>5 DEF ToSet
<1>8. ToSet(entry.observations) \union entry.degraded = Due(txs, from)
  BY <1>1, <1>4, <1>6, <1>7
<1> QED BY <1>3, <1>5, <1>8 DEF plan

(* What a crawl in flight or in hand still holds is one plan. *)
Holds(r, txs) ==
  /\ txs \in Snapshots /\ host[r].page \in {None} \union WireCursors
  /\ Owed(r) = Plan(txs, From(host[r].page))

(* A crawl in flight or in hand has one, of the snapshot that is kept unless its last
   page is in flight. *)
LEMMA HeldPlan ==
  ASSUME TypeOK, NEW r \in Resources, Cut(r), InFlight(r) \/ InCrawl(r)
  PROVE  /\ \E txs : Holds(r, txs)
         /\ crawls[r] # None => Holds(r, crawls[r])
         /\ crawls[r] = None => InFlight(r) /\ request.answers[r].next = None
         /\ InFlight(r) /\ request.answers[r].next = None => crawls[r] = None
<1>1. crawls[r] \in {None} \union Snapshots
  BY DEF TypeOK
<1>2. CASE ~InFlight(r)
  <2>1. crawls[r] # None /\ host[r].page \in WireCursors /\ Owed(r) = Plan(crawls[r], From(host[r].page))
    BY <1>2 DEF InCrawl, Owed, Parses
  <2> QED BY <1>1, <1>2, <2>1 DEF Holds
<1>3. CASE InFlight(r)
  <2> DEFINE from == From(host[r].page)
             entry == request.answers[r]
  <2>1. PICK txs \in Snapshots : \E n \in 0..Len(Plan(txs, from)) : CutFrom(r, txs, n)
    BY <1>3 DEF Cut
  <2>2. PICK n \in 0..Len(Plan(txs, from)) : CutFrom(r, txs, n)
    BY <2>1
  <2>3. host[r].page \in {None} \union WireCursors /\ from \in Marks
    BY <1>3, FromType DEF Cut
  <2>4. /\ IsEntry(entry, Plan(txs, from), from, HighWater(txs, from), n)
        /\ crawls[r] = IF entry.next = None THEN None ELSE txs
    BY <2>2 DEF CutFrom
  <2>5. txs # None
    BY SentinelAssumption
  <2>6. CASE entry.next = None
    <3>1. Owed(r) = Sorted(ToSet(entry.observations) \union entry.degraded, KeyBefore)
      BY <1>3, <2>6 DEF Owed
    <3>2. Sorted(ToSet(entry.observations) \union entry.degraded, KeyBefore) = Plan(txs, from)
      <4> HIDE DEF entry, from
      <4> QED BY <2>2, <2>3, <2>4, <2>6, WholePlan
    <3> QED BY <1>3, <2>3, <2>4, <2>6, <3>1, <3>2 DEF Holds
  <2>7. CASE entry.next # None
    <3>1. Owed(r) = Plan(txs, from) /\ crawls[r] = txs
      BY <1>3, <2>4, <2>7 DEF Owed
    <3> QED BY <1>3, <2>3, <2>5, <2>7, <3>1 DEF Holds
  <2> QED BY <2>6, <2>7
<1> QED BY <1>2, <1>3

-----------------------------------------------------------------------------
(***************************************************************************)
(* Each kind of step is one of the crawl's.                                 *)
(***************************************************************************)

(* Nothing of it changes. *)
LEMMA SameStep ==
  ASSUME NEW r \in Resources, Same(r)
  PROVE  UNCHANGED (Followable(r)!vars)
<1>1. (InFlight(r)' <=> InFlight(r)) /\ (InCrawl(r)' <=> InCrawl(r))
  BY DEF Same, InCrawl
<1>2. Owed(r)' = Owed(r)
  BY <1>1 DEF Same, Owed
<1>3. (InFlight(r) \/ InCrawl(r))' = (InFlight(r) \/ InCrawl(r))
  BY <1>1
<1> QED BY <1>2, <1>3 DEF Same, Followable!vars

(* A loss. *)
LEMMA DropsStep ==
  ASSUME TypeOK, NEW r \in Resources, Cut(r), Drops(r)
  PROVE  [Followable(r)!Next]_(Followable(r)!vars)
<1> DEFINE held == InFlight(r) \/ InCrawl(r)
<1>1. /\ host'[r].page = host[r].page /\ host'[r].got = host[r].got /\ host'[r].told = host[r].told
      /\ host'[r].asking = host[r].asking \/ host'[r].asking = FALSE
  BY DEF Drops, TypeOK, Readers
<1>2. held' <=> InCrawl(r)'
  BY DEF Drops
<1>3. CASE InCrawl(r)'
  <2>1. crawls'[r] = crawls[r] /\ crawls[r] # None /\ host[r].page # None /\ Parses(host[r].page)
    BY <1>1, <1>3 DEF Drops, InCrawl
  <2>2. InCrawl(r)
    BY <2>1 DEF InCrawl
  <2>3. Holds(r, crawls[r])
    BY <2>1, <2>2, HeldPlan
  <2>4. Owed(r)' = Plan(crawls[r], From(host[r].page))
    BY <1>1, <1>3, <2>1 DEF Owed, Drops
  <2>5. held' = held /\ Owed(r)' = Owed(r)
    BY <1>2, <1>3, <2>2, <2>3, <2>4 DEF Holds
  <2>6. CASE host'[r].asking = host[r].asking
    BY <1>1, <2>5, <2>6 DEF Followable!vars
  <2>7. CASE host'[r].asking # host[r].asking
    <3>1. host[r].asking = TRUE /\ host'[r].asking = FALSE
      BY <1>1, <2>7 DEF TypeOK, Readers
    <3>2. Followable(r)!Stop
      BY <1>1, <2>5, <3>1 DEF Followable!Stop
    <3> QED BY <3>2 DEF Followable!Next
  <2> QED BY <2>6, <2>7
<1>4. CASE ~InCrawl(r)'
  <2>1. ~held' /\ Owed(r)' = <<>>
    BY <1>2, <1>4 DEF Owed, Drops
  <2>2. CASE host'[r].asking # host[r].asking
    <3>1. host[r].asking = TRUE /\ host'[r].asking = FALSE
      BY <1>1, <2>2 DEF TypeOK, Readers
    <3>2. Followable(r)!Stop
      BY <1>1, <2>1, <3>1 DEF Followable!Stop, Followable!Lost
    <3> QED BY <3>2 DEF Followable!Next
  <2>3. CASE host'[r].asking = host[r].asking /\ held
    <3>1. Followable(r)!Lose
      BY <1>1, <2>1, <2>3 DEF Followable!Lose, Followable!Lost
    <3> QED BY <3>1 DEF Followable!Next
  <2>4. CASE host'[r].asking = host[r].asking /\ ~held
    <3>1. Owed(r) = <<>>
      BY <2>4 DEF Owed
    <3>2. held' = held
      BY <2>1, <2>4
    <3> QED BY <1>1, <2>1, <2>4, <3>1, <3>2 DEF Followable!vars
  <2> QED BY <2>2, <2>3, <2>4
<1> QED BY <1>3, <1>4

(* A beginning. *)
LEMMA BeginsStep ==
  ASSUME TypeOK, NEW r \in Resources, Begins(r)
  PROVE  Followable(r)!Next
<1>1. ~InFlight(r) /\ ~InFlight(r)'
  BY DEF Begins, InFlight
<1>2. CASE host'[r] = [Idle EXCEPT !.asking = TRUE]
  <2>1. /\ host'[r].asking /\ host'[r].page = None /\ host'[r].got = <<>> /\ host'[r].told = {}
    BY <1>2 DEF Idle
  <2>2. ~InCrawl(r)'
    BY <2>1 DEF InCrawl
  <2>3. Owed(r)' = <<>>
    BY <1>1, <2>2 DEF Owed
  <2>4. Followable(r)!Begin
    BY <1>1, <2>1, <2>2, <2>3 DEF Followable!Begin, Begins
  <2> QED BY <2>4 DEF Followable!Next
<1>3. ASSUME NEW c \in ForeignCursors, host'[r] = [Idle EXCEPT !.asking = TRUE, !.page = c]
      PROVE  Followable(r)!Next
  <2>1. /\ host'[r].asking /\ host'[r].page = c /\ host'[r].got = <<>> /\ host'[r].told = {}
    BY <1>3 DEF Idle
  <2>2. ~InCrawl(r)'
    BY <2>1, SentinelAssumption DEF InCrawl, Parses
  <2>3. Owed(r)' = <<>>
    BY <1>1, <2>2 DEF Owed
  <2>4. Followable(r)!Begin
    BY <1>1, <2>1, <2>2, <2>3 DEF Followable!Begin, Begins
  <2> QED BY <2>4 DEF Followable!Next
<1>4. CASE host[r].page # None /\ host'[r] = [host[r] EXCEPT !.asking = TRUE]
  <2>1. /\ host'[r].asking /\ host'[r].page = host[r].page
        /\ host'[r].got = host[r].got /\ host'[r].told = host[r].told
    BY <1>4 DEF TypeOK, Readers
  <2>2. (InCrawl(r)' <=> InCrawl(r)) /\ crawls' = crawls
    BY <2>1 DEF InCrawl, Begins
  <2>3. Owed(r)' = Owed(r)
    BY <1>1, <2>1, <2>2 DEF Owed
  <2>4. (InFlight(r) \/ InCrawl(r))' = (InFlight(r) \/ InCrawl(r))
    BY <1>1, <2>2
  <2>5. Followable(r)!Begin
    BY <2>1, <2>3, <2>4 DEF Followable!Begin, Begins
  <2> QED BY <2>5 DEF Followable!Next
<1> QED BY <1>2, <1>3, <1>4 DEF Begins

(* A plan above what a reader has is fresh. *)
LEMMA FreshPlan ==
  ASSUME TypeOK, NEW r \in Resources, Resumable(r), NEW txs \in Snapshots,
         host[r].page \in {None} \union WireCursors,
         host[r].page = None => host[r].got = <<>>
  PROVE  Followable(r)!Fresh(Plan(txs, From(host[r].page)))
<1> DEFINE from == From(host[r].page)
           plan == Plan(txs, from)
           got == host[r].got
<1>1. from \in Marks
  BY FromType
<1>2. /\ plan \in Seq(Keys)
      /\ \A i, j \in 1..Len(plan) : i < j => KeyBefore(plan[i], plan[j])
      /\ ToSet(plan) = Due(txs, from)
  <2> HIDE DEF from
  <2> QED BY PlanSorts
<1>3. got \in Seq(Keys)
  BY DEF TypeOK, Readers
<1>4. \A k \in ToSet(got) : Confirmed(k) => ~Above(k, from)
  <2>1. CASE host[r].page = None
    <3>1. ToSet(got) = {}
      BY <2>1 DEF ToSet
    <3> QED BY <3>1
  <2>2. CASE host[r].page \in WireCursors
    BY <2>2 DEF Resumable
  <2> QED BY <2>1, <2>2
<1>5. from.height \in Nat /\ from.txid \in Nat
  <2>1. MaxHeight \in Nat /\ \A t \in Txids : t \in Nat
    BY BitcoinAssumption
  <2> HIDE DEF from
  <2> QED BY <1>1, <2>1 DEF Marks
<1> HIDE DEF from, got
<1>6. \A k \in Due(txs, from) : k \in Keys /\ (Confirmed(k) => Above(k, from))
  BY DueType DEF Due
<1> HIDE DEF plan
<1>7. DOMAIN plan = 1..Len(plan) /\ DOMAIN got = 1..Len(got)
  BY <1>2, <1>3
<1>8. ASSUME NEW i \in DOMAIN plan, NEW j \in DOMAIN got, Confirmed(plan[i]), Confirmed(got[j])
      PROVE  KeyBefore(got[j], plan[i])
  <2>1. got[j] \in ToSet(got) /\ got[j] \in Keys /\ plan[i] \in ToSet(plan)
    BY <1>2, <1>3, <1>7, SetOfSequence
  <2>2. ~Above(got[j], from) /\ Above(plan[i], from) /\ plan[i] \in Keys
    BY <1>2, <1>4, <1>6, <1>8, <2>1
  <2> QED BY <1>5, <1>8, <2>1, <2>2, KeyType DEF Above, KeyBefore, Confirmed
<1>9. Followable(r)!Fresh(plan)
  BY <1>2, <1>7, <1>8 DEF Followable!Fresh, Followable!Ordered, Followable!Members, got
<1> QED BY <1>9 DEF plan, from

(* What a page cut leaves in the reply, and of the snapshot. *)
ServedEntry(r, txs, n) ==
  LET from == From(host[r].page)
      entry == request'.answers[r]
  IN  /\ IsEntry(entry, Plan(txs, from), from, HighWater(txs, from), n)
      /\ entry # None /\ entry.outcome = "fetched"
      /\ crawls'[r] = IF entry.next = None THEN None ELSE txs
      /\ InCrawl(r) => txs = crawls[r]

(* A page is cut of the crawl its reader follows. *)
LEMMA ServesEntry ==
  ASSUME TypeOK, Asked, Following, NEW r \in Resources, Serves(r)
  PROVE  /\ host'[r] = host[r] /\ host[r].page \in {None} \union WireCursors
         /\ ~InFlight(r) /\ at' # "idle"
         /\ request'.op = "history" /\ request'.batch = request.batch
         /\ request'.failed = request.failed /\ request'.lost = request.lost
         /\ ~request.lost /\ r \in request.batch => host[r].asking
         /\ \E txs \in Snapshots : \E n \in 0..Len(Plan(txs, From(host[r].page))) :
              ServedEntry(r, txs, n)
<1> DEFINE q == request.queries
           Q == [resource : Resources, page : {None} \union Pages]
<1>1. q \in Seq(Q) /\ q # <<>>
  BY DEF TypeOK, Requests, Serves
<1>2. Query = q[1] /\ 1 \in 1..Len(q)
  <2> HIDE DEF q, Q
  <2>1. Head(q) = q[1] /\ Len(q) \in Nat /\ Len(q) >= 1
    BY <1>1, HeadAndTail
  <2>2. 1 \in 1..Len(q)
    BY <2>1
  <2> QED BY <2>1, <2>2 DEF Query, q
<1>3. Query.page = host[r].page /\ at # "idle"
  BY <1>2 DEF Serves, Following
<1>4. /\ host[r].page \in {None} \union WireCursors /\ host'[r] = host[r] /\ request.op = "history"
      /\ ~request.lost /\ r \in request.batch => host[r].asking
  BY <1>3 DEF Serves, Following
<1>5. ~InFlight(r)
  <2>1. request.failed \/ request.answers[r] = None \/ r \notin request.batch
    BY <1>2, <1>3 DEF Asked, Serves
  <2> QED BY <2>1 DEF InFlight
<1>6. PICK txs \in Snapshots : Serve(txs) /\ (InHand => txs = crawls[r])
  BY DEF Serves
<1>7. InHand <=> InCrawl(r)
  BY <1>3, <1>4, SentinelAssumption DEF InHand, InCrawl, Serves, Parses
<1> DEFINE from == From(Query.page)
           plan == Plan(txs, from)
           hw == HighWater(txs, from)
<1>8. PICK n, page :
               /\ n \in 0..Len(plan)
               /\ IsPage(page, plan, from, hw, request.budget, n)
               /\ [Status("fetched") EXCEPT !.observations = page.observations,
                                            !.degraded = page.degraded,
                                            !.next = page.next] \in Answers
               /\ Push([Status("fetched") EXCEPT !.observations = page.observations,
                                                 !.degraded = page.degraded,
                                                 !.next = page.next],
                       page.bytes, 0, FALSE)
               /\ crawls' = [crawls EXCEPT ![Query.resource] =
                               IF page.next = None THEN None ELSE txs]
  BY <1>1, <1>6, Served DEF Serves
<1> DEFINE entry == [Status("fetched") EXCEPT !.observations = page.observations,
                                              !.degraded = page.degraded,
                                              !.next = page.next]
<1>9. /\ entry.observations = page.observations /\ entry.degraded = page.degraded
      /\ entry.next = page.next /\ entry.outcome = "fetched"
  BY DEF Status
<1>10. entry \in Answers /\ entry # None
  BY <1>8, SentinelAssumption
<1>11. Push(entry, page.bytes, 0, FALSE)
  BY <1>8
<1> HIDE DEF entry, plan, from, hw
<1>12. /\ request'.answers = [request.answers EXCEPT ![Query.resource] = entry]
       /\ request'.op = request.op /\ request'.batch = request.batch
       /\ request'.failed = request.failed /\ request'.lost = request.lost
  BY <1>1, <1>10, <1>11, PushAsked DEF Serves
<1>13. request'.answers[r] = entry
  BY <1>12 DEF TypeOK, Requests, Serves
<1>14. IsEntry(entry, plan, from, hw, n)
  BY <1>8, <1>9 DEF IsPage, IsEntry
<1>15. crawls'[r] = IF entry.next = None THEN None ELSE txs
  BY <1>8, <1>9 DEF TypeOK, Serves
<1>16. ServedEntry(r, txs, n)
  BY <1>3, <1>6, <1>7, <1>9, <1>10, <1>13, <1>14, <1>15 DEF ServedEntry, plan, from, hw
<1>17. at' # "idle"
  BY <1>11 DEF Push
<1>18. n \in 0..Len(Plan(txs, From(host[r].page)))
  BY <1>3, <1>8 DEF plan, from
<1>19. \E t \in Snapshots : \E m \in 0..Len(Plan(t, From(host[r].page))) : ServedEntry(r, t, m)
  BY <1>16, <1>18
<1> QED BY <1>4, <1>5, <1>12, <1>17, <1>19

(* A page cut is of the plan held, or of a fresh one. *)
LEMMA ServesStep ==
  ASSUME TypeOK, Asked, Following, NEW r \in Resources, Resumable(r), Serves(r)
  PROVE  [Followable(r)!Next]_(Followable(r)!vars)
<1> DEFINE held == InFlight(r) \/ InCrawl(r)
           from == From(host[r].page)
<1>1. /\ host'[r] = host[r] /\ host[r].page \in {None} \union WireCursors
      /\ ~InFlight(r) /\ at' # "idle"
      /\ request'.op = "history" /\ request'.batch = request.batch
      /\ request'.failed = request.failed /\ request'.lost = request.lost
      /\ ~request.lost /\ r \in request.batch => host[r].asking
  BY ServesEntry
<1>2. PICK txs \in Snapshots : \E n \in 0..Len(Plan(txs, from)) : ServedEntry(r, txs, n)
  BY ServesEntry
<1>3. PICK n \in 0..Len(Plan(txs, from)) : ServedEntry(r, txs, n)
  BY <1>2
<1> DEFINE entry == request'.answers[r]
<1>4. /\ IsEntry(entry, Plan(txs, from), from, HighWater(txs, from), n)
      /\ entry # None /\ entry.outcome = "fetched"
      /\ crawls'[r] = IF entry.next = None THEN None ELSE txs
      /\ InCrawl(r) => txs = crawls[r]
  BY <1>3 DEF ServedEntry
<1>5. txs # None /\ from \in Marks
  BY <1>1, SentinelAssumption, FromType
<1>6. entry.next = None => Sorted(ToSet(entry.observations) \union entry.degraded, KeyBefore)
                             = Plan(txs, from)
  <2> HIDE DEF entry, from
  <2> QED BY <1>3, <1>4, <1>5, WholePlan
<1>7. held' => Owed(r)' = Plan(txs, from)
  <2>1. CASE InFlight(r)' /\ entry.next = None
    BY <1>6, <2>1 DEF Owed
  <2>2. CASE InFlight(r)' /\ entry.next # None
    BY <1>1, <1>4, <2>2 DEF Owed
  <2>3. CASE ~InFlight(r)' /\ InCrawl(r)'
    <3>1. crawls'[r] = txs
      BY <1>4, <2>3 DEF InCrawl
    <3> QED BY <1>1, <2>3, <3>1 DEF Owed
  <2> QED BY <2>1, <2>2, <2>3
<1>8. ~held' => Owed(r)' = <<>>
  BY DEF Owed
<1>9. held <=> InCrawl(r)
  BY <1>1
<1>10. InCrawl(r) => Owed(r) = Plan(txs, from)
  BY <1>1, <1>4 DEF Owed
<1>11. CASE held /\ held'
  BY <1>1, <1>7, <1>9, <1>10, <1>11 DEF Followable!vars
<1>12. CASE held /\ ~held'
  <2>1. Followable(r)!Lose
    BY <1>1, <1>8, <1>12 DEF Followable!Lose, Followable!Lost
  <2> QED BY <2>1 DEF Followable!Next
<1>13. CASE ~held /\ held'
  <2>1. host[r].page = None => host[r].got = <<>>
    <3> SUFFICES ASSUME host[r].page = None PROVE host[r].got = <<>>
      OBVIOUS
    <3>1. InFlight(r)'
      BY <1>1, <1>13 DEF InCrawl
    <3>2. host[r].asking
      BY <1>1, <3>1 DEF InFlight
    <3> QED BY <3>2 DEF Resumable
  <2>2. Followable(r)!Fresh(Plan(txs, from))
    BY <1>1, <2>1, FreshPlan
  <2>3. Followable(r)!Plan
    BY <1>1, <1>7, <1>13, <2>2 DEF Followable!Plan
  <2> QED BY <2>3 DEF Followable!Next
<1>14. CASE ~held /\ ~held'
  <2>1. Owed(r) = <<>>
    BY <1>14 DEF Owed
  <2>2. held' = held
    BY <1>14
  <2> QED BY <1>1, <1>8, <1>14, <2>1, <2>2 DEF Followable!vars
<1> QED BY <1>11, <1>12, <1>13, <1>14

(* A page sends what can be sent of the front of a plan, reports what cannot, and
   perhaps more that cannot. *)
SendsFront(plan, m, page, reported) ==
  /\ page \in Seq(Keys)
  /\ ToSet(page) = {k \in {plan[i] : i \in 1..m} : Deliverable(k)}
  /\ \A i, j \in 1..Len(page) : i < j => KeyBefore(page[i], page[j])
  /\ \A i \in 1..m : ~Deliverable(plan[i]) => plan[i] \in reported
  /\ \A k \in reported : ~Deliverable(k) /\ \E i \in 1..Len(plan) : plan[i] = k

(* What is left is the rest of the plan, and perhaps more that is not confirmed. *)
LeavesRest(plan, m, left) ==
  /\ left \in Seq(Keys)
  /\ \A i, j \in 1..Len(left) : i < j => KeyBefore(left[i], left[j])
  /\ \A i \in (m + 1)..Len(plan) : plan[i] \in ToSet(left)
  /\ \A k \in ToSet(left) : Confirmed(k) => \E i \in (m + 1)..Len(plan) : plan[i] = k

(* Such a page is a page of the crawl. *)
LEMMA FrontIsPage ==
  ASSUME TypeOK, NEW r \in Resources, NEW plan \in Seq(Keys), NEW m \in 0..Len(plan),
         NEW page, NEW reported,
         host[r].asking, InFlight(r) \/ InCrawl(r), Owed(r) = plan,
         host'[r].asking = (InFlight(r) \/ InCrawl(r))',
         host'[r].got = host[r].got \o page, host'[r].told = host[r].told \union reported,
         SendsFront(plan, m, page, reported), LeavesRest(plan, m, Owed(r)'),
         ~(InFlight(r) \/ InCrawl(r))' => Owed(r)' = <<>>
  PROVE  Followable(r)!Page
<1> DEFINE left == Owed(r)'
           front == {plan[i] : i \in 1..m}
           rest == {plan[i] : i \in (m + 1)..Len(plan)}
           held == InFlight(r) \/ InCrawl(r)
           got == host[r].got
<1>1. left \in Seq(Keys) /\ got \in Seq(Keys) /\ Len(plan) \in Nat /\ page \in Seq(Keys)
  BY DEF TypeOK, Readers, SendsFront, LeavesRest
<1>2. /\ {SubSeq(plan, 1, m)[i] : i \in DOMAIN SubSeq(plan, 1, m)} = front
      /\ {SubSeq(plan, m + 1, Len(plan))[i] : i \in DOMAIN SubSeq(plan, m + 1, Len(plan))} = rest
  <2>1. Keys = Keys /\ plan \in Seq(Keys) /\ m \in 0..Len(plan)
    OBVIOUS
  <2> HIDE DEF left, held, got
  <2> QED BY ONLY <2>1, PartHolds, Zenon DEF front, rest
<1>3. SubSeq(got \o page, Len(got) + 1, Len(got \o page)) = page
  BY <1>1, EndOfJoined
<1>4. ToSet(left) = {left[i] : i \in DOMAIN left} /\ ToSet(page) = {page[i] : i \in DOMAIN page}
      /\ DOMAIN page = 1..Len(page) /\ DOMAIN left = 1..Len(left) /\ DOMAIN plan = 1..Len(plan)
  BY <1>1 DEF ToSet
<1>5. \A i \in 1..m : i \in 1..Len(plan)
  BY <1>1
<1> DEFINE P(n) ==
             LET part == SubSeq(plan, 1, n)
                 tail == SubSeq(plan, n + 1, Len(plan))
                 omitted(s) == {k \in Followable(r)!Members(s) : ~Deliverable(k)}
             IN  /\ Followable(r)!Sends({k \in Followable(r)!Members(part) : Deliverable(k)})
                 /\ host[r].told \union omitted(part) \subseteq host'[r].told
                 /\ host'[r].told \subseteq host[r].told \union omitted(plan)
                 /\ Followable(r)!Ordered(left) /\ left \in Seq(Keys)
                 /\ Followable(r)!Members(tail) \subseteq Followable(r)!Members(left)
                 /\ \A k \in Followable(r)!Members(left) \ Followable(r)!Members(tail) : ~Confirmed(k)
<1>6. Followable(r)!Sends({k \in front : Deliverable(k)})
  <2>1. host'[r].got = got \o page
        /\ SubSeq(host'[r].got, Len(got) + 1, Len(host'[r].got)) = page
    BY <1>3
  <2>2. {page[i] : i \in DOMAIN page} = {k \in front : Deliverable(k)}
    BY <1>4 DEF SendsFront
  <2>3. \A i, j \in DOMAIN page : i < j => KeyBefore(page[i], page[j])
    BY <1>4 DEF SendsFront
  <2> DEFINE part == SubSeq(host'[r].got, Len(host[r].got) + 1, Len(host'[r].got))
             S == {k \in front : Deliverable(k)}
  <2>4. part = page
    BY <2>1
  <2> HIDE DEF front, part, S
  <2>5. host'[r].got = host[r].got \o part
    BY ONLY <2>1, <2>4 DEF got
  <2>6. Followable(r)!Members(part) = S
    BY ONLY <2>2, <2>4 DEF Followable!Members, S
  <2>7. Followable(r)!Ordered(part)
    BY ONLY <2>3, <2>4 DEF Followable!Ordered
  <2>8. Followable(r)!Sends(S)
    BY ONLY <2>5, <2>6, <2>7 DEF Followable!Sends, part
  <2> QED BY ONLY <2>8 DEF S
<1>7. /\ host[r].told \union {k \in front : ~Deliverable(k)} \subseteq host'[r].told
      /\ host'[r].told \subseteq host[r].told \union {k \in {plan[i] : i \in DOMAIN plan} : ~Deliverable(k)}
  <2>1. {k \in front : ~Deliverable(k)} \subseteq reported
    BY DEF SendsFront
  <2>2. \A k \in reported : ~Deliverable(k) /\ \E i \in 1..Len(plan) : plan[i] = k
    BY DEF SendsFront
  <2>3. host'[r].told = host[r].told \union reported
    OBVIOUS
  <2> HIDE DEF front, rest, left, held, got
  <2>4. reported \subseteq {k \in {plan[i] : i \in DOMAIN plan} : ~Deliverable(k)}
    BY ONLY <1>4, <2>2
  <2> QED BY ONLY <2>1, <2>3, <2>4
<1>8. \A i, j \in DOMAIN left : i < j => KeyBefore(left[i], left[j])
  BY <1>4 DEF LeavesRest
<1>9. rest \subseteq {left[i] : i \in DOMAIN left}
      /\ \A k \in {left[i] : i \in DOMAIN left} \ rest : ~Confirmed(k)
  <2>1. \A i \in (m + 1)..Len(plan) : plan[i] \in ToSet(left)
    BY DEF LeavesRest
  <2>2. \A k \in ToSet(left) : Confirmed(k) => \E i \in (m + 1)..Len(plan) : plan[i] = k
    BY DEF LeavesRest
  <2> HIDE DEF left
  <2> QED BY ONLY <1>4, <2>1, <2>2 DEF rest
<1>10. m \in 0..Len(plan) /\ P(m)
  <2> HIDE DEF front, rest, left
  <2>1. m \in 0..Len(plan)
    OBVIOUS
  <2>2. Followable(r)!Members(SubSeq(plan, 1, m)) = front
        /\ Followable(r)!Members(SubSeq(plan, m + 1, Len(plan))) = rest
        /\ Followable(r)!Members(left) = {left[i] : i \in DOMAIN left}
        /\ Followable(r)!Members(plan) = {plan[i] : i \in DOMAIN plan}
    BY <1>2 DEF Followable!Members
  <2>3. Followable(r)!Ordered(left)
    BY <1>8 DEF Followable!Ordered
  <2>4. P(m)
    BY <1>1, <1>6, <1>7, <1>9, <2>2, <2>3
  <2> QED BY <2>1, <2>4
<1>11. \E n \in 0..Len(plan) : P(n)
  <2> HIDE DEF P
  <2> QED BY <1>10
<1>12. host[r].asking /\ held /\ host'[r].asking = held' /\ (~held' => left = <<>>)
  OBVIOUS
<1> QED BY <1>11, <1>12 DEF Followable!Page

(* What a reader makes of the page that arrives. *)
LEMMA ArrivesReader ==
  ASSUME TypeOK, Asked, Following, NEW r \in Resources, Arrives(r)
  PROVE  /\ host[r].asking /\ ~InFlight(r)' /\ crawls'[r] = crawls[r]
         /\ host'[r].asking <=> request.answers[r].next # None
         /\ host'[r].asking \in BOOLEAN
         /\ host'[r].page = request.answers[r].next
         /\ host'[r].got = host[r].got \o request.answers[r].observations
         /\ host'[r].told = host[r].told \union request.answers[r].degraded
<1>1. host[r].asking
  BY DEF Arrives, InFlight, Following
<1>2. ~InFlight(r)' /\ crawls'[r] = crawls[r] /\ request.answers[r].outcome = "fetched"
      /\ host'[r] = Followed(host[r], request.answers[r])
  BY DEF Arrives, InFlight
<1>3. host'[r] = [asking |-> request.answers[r].next # None, page |-> request.answers[r].next,
                  got |-> host[r].got \o request.answers[r].observations,
                  told |-> host[r].told \union request.answers[r].degraded]
  BY <1>2 DEF Followed
<1> HIDE DEF Followed
<1>4. host'[r].asking = (request.answers[r].next # None)
  BY <1>3
<1>5. /\ host'[r].page = request.answers[r].next
      /\ host'[r].got = host[r].got \o request.answers[r].observations
      /\ host'[r].told = host[r].told \union request.answers[r].degraded
  <2> DEFINE g == host[r].got \o request.answers[r].observations
             t == host[r].told \union request.answers[r].degraded
  <2>1. host'[r] = [asking |-> request.answers[r].next # None, page |-> request.answers[r].next,
                    got |-> g, told |-> t]
    BY <1>3
  <2> HIDE DEF g, t
  <2>2. host'[r].page = request.answers[r].next /\ host'[r].got = g /\ host'[r].told = t
    BY ONLY <2>1
  <2> QED BY <2>2 DEF g, t
<1>6. (host'[r].asking <=> request.answers[r].next # None) /\ host'[r].asking \in BOOLEAN
  BY <1>4
<1> QED BY <1>1, <1>2, <1>5, <1>6

(* The last page arrives: the plan is sent. *)
LEMMA LastArrives ==
  ASSUME TypeOK, Asked, Following, NEW r \in Resources, Cut(r), Arrives(r),
         request.answers[r].next = None
  PROVE  Followable(r)!Page
<1> DEFINE from == From(host[r].page)
           entry == request.answers[r]
<1>1. /\ host[r].asking /\ ~InFlight(r)' /\ crawls'[r] = crawls[r]
      /\ host'[r].asking = FALSE /\ host'[r].page = None
      /\ host'[r].got = host[r].got \o entry.observations
      /\ host'[r].told = host[r].told \union entry.degraded
  BY ArrivesReader
<1>2. InFlight(r) /\ host[r].page \in {None} \union WireCursors /\ from \in Marks
  BY FromType DEF Arrives, Cut
<1>3. PICK txs \in Snapshots : \E n \in 0..Len(Plan(txs, from)) : CutFrom(r, txs, n)
  BY <1>2 DEF Cut
<1>4. PICK n \in 0..Len(Plan(txs, from)) : CutFrom(r, txs, n)
  BY <1>3
<1> DEFINE plan == Plan(txs, from)
           hw == HighWater(txs, from)
<1>5. IsEntry(entry, plan, from, hw, n) /\ crawls[r] = None
  BY <1>4 DEF CutFrom
<1>6. plan \in Seq(Keys) /\ hw \in Floors
  <2> HIDE DEF from
  <2> QED BY <1>2, PlanSorts, HighWaterMark
<1>7. n = Len(plan) /\ Sorted(ToSet(entry.observations) \union entry.degraded, KeyBefore) = plan
  <2>1. entry.next = None
    OBVIOUS
  <2> HIDE DEF entry, from
  <2> QED BY <1>2, <1>4, <1>5, <2>1, WholePlan
<1>8. Owed(r) = plan
  BY <1>2, <1>7 DEF Owed
<1>9. ~(InFlight(r) \/ InCrawl(r))' /\ Owed(r)' = <<>>
  BY <1>1 DEF InCrawl, Owed
<1>10. n \in 0..Len(plan)
  BY <1>4
<1>11. entry.degraded = {k \in {plan[i] : i \in 1..n} : ~Deliverable(k)}
  BY <1>5 DEF IsEntry
<1> HIDE DEF entry, plan, hw, from
<1>12. /\ entry.observations \in Seq(Keys)
       /\ ToSet(entry.observations) = {k \in {plan[i] : i \in 1..n} : Deliverable(k)}
       /\ \A i, j \in 1..Len(entry.observations) :
            i < j => KeyBefore(entry.observations[i], entry.observations[j])
  BY <1>2, <1>5, <1>6, <1>10, PageType
<1>13. /\ \A i \in 1..n : ~Deliverable(plan[i]) => plan[i] \in entry.degraded
       /\ \A k \in entry.degraded : ~Deliverable(k) /\ \E i \in 1..Len(plan) : plan[i] = k
  BY <1>7, <1>11
<1>14. SendsFront(plan, n, entry.observations, entry.degraded)
  BY <1>12, <1>13 DEF SendsFront
<1>15. LeavesRest(plan, n, <<>>)
  <2>1. Len(plan) \in Nat
    BY <1>6
  <2>2. (n + 1)..Len(plan) = {}
    BY <1>7, <2>1
  <2> QED BY <2>2 DEF LeavesRest, ToSet
<1>16. host'[r].asking = (InFlight(r) \/ InCrawl(r))'
  BY <1>1, <1>9
<1> QED BY <1>1, <1>2, <1>6, <1>8, <1>9, <1>10, <1>14, <1>15, <1>16, FrontIsPage

(* Another page arrives: what it does not send stays in the plan. *)
LEMMA AnotherArrives ==
  ASSUME TypeOK, Asked, Following, NEW r \in Resources, Cut(r), Arrives(r),
         request.answers[r].next # None
  PROVE  Followable(r)!Page
<1> DEFINE from == From(host[r].page)
           entry == request.answers[r]
           next == entry.next
<1>1. /\ host[r].asking /\ ~InFlight(r)' /\ crawls'[r] = crawls[r]
      /\ host'[r].asking = TRUE /\ host'[r].page = next
      /\ host'[r].got = host[r].got \o entry.observations
      /\ host'[r].told = host[r].told \union entry.degraded
  BY ArrivesReader
<1>2. InFlight(r) /\ host[r].page \in {None} \union WireCursors /\ from \in Marks
  BY FromType DEF Arrives, Cut
<1>3. PICK txs \in Snapshots : \E n \in 0..Len(Plan(txs, from)) : CutFrom(r, txs, n)
  BY <1>2 DEF Cut
<1>4. PICK n \in 0..Len(Plan(txs, from)) : CutFrom(r, txs, n)
  BY <1>3
<1> DEFINE plan == Plan(txs, from)
           hw == HighWater(txs, from)
           left == Plan(txs, From(next))
<1>5. IsEntry(entry, plan, from, hw, n) /\ crawls[r] = txs /\ txs # None
  BY <1>4, SentinelAssumption DEF CutFrom
<1>6. plan \in Seq(Keys) /\ hw \in Floors
  <2> HIDE DEF from
  <2> QED BY <1>2, PlanSorts, HighWaterMark
<1>7. n \in 0..Len(plan) /\ next # None
  BY <1>4
<1>8. /\ next \in WireCursors /\ From(next) \in Marks
      /\ \E m \in 0..n :
              /\ ToSet(entry.observations) = {k \in {plan[i] : i \in 1..m} : Deliverable(k)}
              /\ \A i \in (m + 1)..Len(plan) : plan[i] \in Due(txs, From(next))
              /\ \A k \in Due(txs, From(next)) :
                   Confirmed(k) => \E i \in (m + 1)..Len(plan) : plan[i] = k
  <2> HIDE DEF entry, from, hw
  <2>1. entry.next # None /\ IsEntry(entry, Plan(txs, from), from, HighWater(txs, from), n)
    BY <1>5, <1>7 DEF hw
  <2>2. n \in 0..Len(Plan(txs, from))
    OBVIOUS
  <2>3. Resumes(entry, txs, from, n)
    BY <1>2, <2>1, <2>2, CursorResumes
  <2> HIDE DEF left
  <2> QED BY <2>3 DEF Resumes
<1>9. /\ left \in Seq(Keys)
      /\ \A i, j \in 1..Len(left) : i < j => KeyBefore(left[i], left[j])
      /\ ToSet(left) = Due(txs, From(next))
  BY PlanSorts
<1>10. Owed(r) = plan
  BY <1>2, <1>5 DEF Owed
<1>11. InCrawl(r)' /\ Owed(r)' = left
  <2>1. InCrawl(r)'
    BY <1>1, <1>5, <1>8 DEF InCrawl, Parses
  <2> QED BY <1>1, <1>5, <2>1 DEF Owed
<1>12. entry.degraded = {k \in {plan[i] : i \in 1..n} : ~Deliverable(k)}
  BY <1>5 DEF IsEntry
<1> HIDE DEF entry, plan, hw, from, next, left
<1>13. /\ entry.observations \in Seq(Keys)
       /\ \A i, j \in 1..Len(entry.observations) :
            i < j => KeyBefore(entry.observations[i], entry.observations[j])
  BY <1>2, <1>5, <1>6, <1>7, PageType
<1>14. PICK m \in 0..n :
              /\ ToSet(entry.observations) = {k \in {plan[i] : i \in 1..m} : Deliverable(k)}
              /\ \A i \in (m + 1)..Len(plan) : plan[i] \in Due(txs, From(next))
              /\ \A k \in Due(txs, From(next)) :
                   Confirmed(k) => \E i \in (m + 1)..Len(plan) : plan[i] = k
  BY <1>8
<1>15. m \in 0..Len(plan) /\ (\A i \in 1..m : i \in 1..n) /\ (\A i \in 1..n : i \in 1..Len(plan))
  <2>1. Len(plan) \in Nat
    BY <1>6
  <2> QED BY <1>7, <2>1
<1>16. /\ \A i \in 1..m : ~Deliverable(plan[i]) => plan[i] \in entry.degraded
       /\ \A k \in entry.degraded : ~Deliverable(k) /\ \E i \in 1..Len(plan) : plan[i] = k
  BY <1>12, <1>15
<1>17. SendsFront(plan, m, entry.observations, entry.degraded)
  BY <1>13, <1>14, <1>16 DEF SendsFront
<1>18. LeavesRest(plan, m, left)
  BY <1>9, <1>14 DEF LeavesRest
<1>19. host'[r].asking = (InFlight(r) \/ InCrawl(r))'
  BY <1>1, <1>11
<1> QED BY <1>1, <1>2, <1>6, <1>10, <1>11, <1>15, <1>17, <1>18, <1>19, FrontIsPage

(* Every step of the process and of its world is one of each crawl, or none of it. *)
LEMMA StepFollowed ==
  ASSUME Typed, Asked, CrawlInv, [Next]_vars, NEW r \in Resources
  PROVE  [Followable(r)!Next]_(Followable(r)!vars)
<1>1. TypeOK /\ Following /\ Resumable(r) /\ Cut(r)
  BY DEF Typed, CrawlInv
<1>2. CASE Same(r)
  BY <1>2, SameStep
<1>3. CASE Drops(r)
  BY <1>1, <1>3, DropsStep
<1>4. CASE Begins(r)
  BY <1>1, <1>4, BeginsStep
<1>5. CASE Serves(r)
  BY <1>1, <1>5, ServesStep
<1>6. CASE Arrives(r)
  <2>1. Followable(r)!Page
    BY <1>1, <1>6, LastArrives, AnotherArrives
  <2> QED BY <2>1 DEF Followable!Next
<1> QED BY <1>1, <1>2, <1>3, <1>4, <1>5, <1>6, StepSorts

-----------------------------------------------------------------------------
(***************************************************************************)
(* The invariant is kept.                                                   *)
(***************************************************************************)

(* A page served is cut of a plan. *)
LEMMA CutKept ==
  ASSUME TypeOK, Asked, Following, NEW r \in Resources, Cut(r),
         Same(r) \/ Drops(r) \/ Begins(r) \/ Serves(r) \/ Arrives(r)
  PROVE  Cut(r)'
<1>1. CASE Same(r)
  <2>1. SUFFICES ASSUME InFlight(r)
                 PROVE  /\ host'[r].page \in {None} \union WireCursors
                        /\ \E txs \in Snapshots :
                             \E n \in 0..Len(Plan(txs, From(host'[r].page))) : CutFrom(r, txs, n)'
    BY <1>1 DEF Cut, Same
  <2>2. host'[r] = host[r] /\ crawls'[r] = crawls[r] /\ request'.answers[r] = request.answers[r]
    BY <1>1, <2>1 DEF Same
  <2>3. PICK txs \in Snapshots : \E n \in 0..Len(Plan(txs, From(host[r].page))) : CutFrom(r, txs, n)
    BY <2>1 DEF Cut
  <2>4. PICK n \in 0..Len(Plan(txs, From(host[r].page))) : CutFrom(r, txs, n)
    BY <2>3
  <2>5. CutFrom(r, txs, n)'
    BY <2>2, <2>4 DEF CutFrom
  <2>6. host[r].page \in {None} \union WireCursors
    BY <2>1 DEF Cut
  <2> QED BY <2>2, <2>5, <2>6
<1>2. CASE Serves(r)
  <2>1. PICK txs \in Snapshots :
               \E n \in 0..Len(Plan(txs, From(host[r].page))) : ServedEntry(r, txs, n)
    BY <1>2, ServesEntry
  <2>2. PICK n \in 0..Len(Plan(txs, From(host[r].page))) : ServedEntry(r, txs, n)
    BY <2>1
  <2>3. host'[r] = host[r] /\ host[r].page \in {None} \union WireCursors
    BY <1>2, ServesEntry
  <2>4. CutFrom(r, txs, n)'
    BY <2>2, <2>3 DEF CutFrom, ServedEntry
  <2>5. \E t \in Snapshots : \E m \in 0..Len(Plan(t, From(host'[r].page))) : CutFrom(r, t, m)'
    BY <2>2, <2>3, <2>4
  <2> QED BY <2>3, <2>5 DEF Cut
<1>3. CASE Drops(r) \/ Begins(r) \/ Arrives(r)
  <2>1. ~InFlight(r)'
    BY <1>3 DEF Drops, Begins, Arrives, InFlight
  <2> QED BY <2>1 DEF Cut
<1> QED BY <1>1, <1>2, <1>3

(* What a reader has is not above the cursor it has. *)
LEMMA ResumableKept ==
  ASSUME TypeOK, Asked, Following, NEW r \in Resources, Cut(r), Resumable(r),
         Same(r) \/ Drops(r) \/ Begins(r) \/ Serves(r) \/ Arrives(r)
  PROVE  Resumable(r)'
<1>1. None \notin WireCursors /\ None \notin ForeignCursors /\ ForeignCursors \intersect WireCursors = {}
  BY SentinelAssumption DEF Pages
<1>2. CASE Same(r) \/ Drops(r) \/ Serves(r)
  <2>1. /\ host'[r].page = host[r].page /\ host'[r].got = host[r].got
        /\ host'[r].asking = host[r].asking \/ host'[r].asking = FALSE
    BY <1>2 DEF Same, Drops, Serves, TypeOK, Readers
  <2> QED BY <2>1 DEF Resumable
<1>3. CASE Begins(r)
  <2>1. CASE host'[r] = [Idle EXCEPT !.asking = TRUE]
    <3>1. host'[r].page = None /\ host'[r].got = <<>>
      BY <2>1 DEF Idle
    <3> QED BY <1>1, <3>1 DEF Resumable
  <2>2. ASSUME NEW c \in ForeignCursors, host'[r] = [Idle EXCEPT !.asking = TRUE, !.page = c]
        PROVE  Resumable(r)'
    <3>1. host'[r].page = c /\ host'[r].got = <<>>
      BY <2>2 DEF Idle
    <3> QED BY <1>1, <3>1 DEF Resumable
  <2>3. CASE host[r].page # None /\ host'[r] = [host[r] EXCEPT !.asking = TRUE]
    <3>1. host'[r].page = host[r].page /\ host'[r].got = host[r].got
      BY <2>3 DEF TypeOK, Readers
    <3> QED BY <2>3, <3>1 DEF Resumable
  <2> QED BY <1>3, <2>1, <2>2, <2>3 DEF Begins
<1>4. CASE Arrives(r)
  <2> DEFINE entry == request.answers[r]
             next == entry.next
             from == From(host[r].page)
             got == host[r].got
  <2>1. /\ host[r].asking /\ (host'[r].asking <=> next # None)
        /\ host'[r].page = next /\ host'[r].got = got \o entry.observations
    BY <1>4, ArrivesReader
  <2>2. CASE next = None
    BY <1>1, <2>1, <2>2 DEF Resumable
  <2>3. CASE next # None
    <3>1. InFlight(r) /\ host[r].page \in {None} \union WireCursors /\ from \in Marks
      BY <1>4, FromType DEF Arrives, Cut
    <3>2. PICK txs \in Snapshots : \E n \in 0..Len(Plan(txs, from)) : CutFrom(r, txs, n)
      BY <3>1 DEF Cut
    <3>3. PICK n \in 0..Len(Plan(txs, from)) : CutFrom(r, txs, n)
      BY <3>2
    <3>4. IsEntry(entry, Plan(txs, from), from, HighWater(txs, from), n) /\ entry.next # None
      BY <2>3, <3>3 DEF CutFrom
    <3>5. Resumes(entry, txs, from, n)
      <4>1. n \in 0..Len(Plan(txs, from))
        OBVIOUS
      <4> HIDE DEF entry, from
      <4> QED BY <3>1, <3>4, <4>1, CursorResumes
    <3>6. /\ next \in WireCursors /\ From(next) \in Marks /\ ~Above(from, From(next))
          /\ \A k \in ToSet(entry.observations) : Confirmed(k) => ~Above(k, From(next))
      BY <3>5 DEF Resumes
    <3>7. \A k \in ToSet(got) : Confirmed(k) => ~Above(k, from)
      <4>1. CASE host[r].page = None
        <5>1. got = <<>>
          BY <2>1, <4>1 DEF Resumable
        <5> QED BY <5>1 DEF ToSet
      <4>2. CASE host[r].page \in WireCursors
        BY <4>2 DEF Resumable
      <4> QED BY <3>1, <4>1, <4>2
    <3>8. got \in Seq(Keys)
      BY DEF TypeOK, Readers
    <3>9. entry.observations \in Seq(Keys)
      <4>1. entry \in Answers
        BY <1>4 DEF Arrives, InFlight, TypeOK, Requests
      <4> QED BY <4>1 DEF Answers
    <3> DEFINE to == From(next)
    <3>10. ASSUME NEW k \in Keys, ~Above(k, from) PROVE ~Above(k, to)
      <4>1. \A c \in Marks : c.height \in Nat /\ c.txid \in Nat
        <5>1. MaxHeight \in Nat /\ \A t \in Txids : t \in Nat
          BY BitcoinAssumption
        <5> QED BY <5>1 DEF Marks
      <4>2. to.height \in Nat /\ to.txid \in Nat /\ from.height \in Nat /\ from.txid \in Nat
        BY <3>1, <3>6, <4>1
      <4> HIDE DEF to, from
      <4> QED BY <3>6, <3>10, <4>2, KeyType DEF Above, to
    <3>11. \A k \in ToSet(got \o entry.observations) : Confirmed(k) => ~Above(k, to)
      <4> SUFFICES ASSUME NEW k \in ToSet(got \o entry.observations), Confirmed(k)
                   PROVE  ~Above(k, to)
        OBVIOUS
      <4>1. k \in ToSet(got) \/ k \in ToSet(entry.observations)
        <5> DEFINE obs == entry.observations
        <5>1. /\ got \o obs \in Seq(Keys) /\ Len(got \o obs) = Len(got) + Len(obs)
              /\ \A i \in 1..(Len(got) + Len(obs)) :
                   (got \o obs)[i] = IF i <= Len(got) THEN got[i] ELSE obs[i - Len(got)]
          BY <3>8, <3>9, ConcatProperties
        <5> HIDE DEF obs
        <5>2. k \in ToSet(got \o obs)
          BY DEF obs
        <5> HIDE DEF got
        <5>3. PICK i \in 1..Len(got \o obs) : (got \o obs)[i] = k
          BY <5>1, <5>2, SetOfSequence
        <5>4. Len(got) \in Nat /\ Len(obs) \in Nat
          BY <3>8, <3>9 DEF obs
        <5>5. CASE i <= Len(got)
          <6>1. i \in 1..Len(got) /\ k = got[i]
            BY <5>1, <5>3, <5>4, <5>5
          <6> QED BY <3>8, <6>1, SetOfSequence
        <5>6. CASE ~(i <= Len(got))
          <6>1. i - Len(got) \in 1..Len(obs) /\ k = obs[i - Len(got)]
            BY <5>1, <5>3, <5>4, <5>6
          <6> QED BY <3>9, <6>1, SetOfSequence DEF obs
        <5> QED BY <5>5, <5>6 DEF obs
      <4>2. ToSet(got) \subseteq Keys
        BY <3>8, SetOfSequence
      <4> HIDE DEF got, entry, from
      <4> QED BY <3>6, <3>7, <3>10, <4>1, <4>2
    <3> HIDE DEF got, entry
    <3> QED BY <1>1, <2>1, <2>3, <3>6, <3>11 DEF Resumable
  <2> QED BY <2>2, <2>3
<1> QED BY <1>2, <1>3, <1>4

(* A request follows its host. *)
LEMMA FollowingKept ==
  ASSUME Typed, Asked, Following, [Next]_vars
  PROVE  Following'
<1>1. TypeOK /\ host \in [Resources -> Readers] /\ request \in Requests
  BY DEF Typed, TypeOK
<1>2. CASE at' = "idle"
  BY <1>2 DEF Following
<1>3. CASE UNCHANGED <<host, crawls, at, request>>
  BY <1>3 DEF Following, InHand, Query
<1>4. ASSUME NEW q \in Resources, BeginCrawl(q)
      PROVE  at' = "idle"
  BY <1>4 DEF BeginCrawl
<1>5. CASE Asks
  <2>1. PICK op \in duty, batch \in Seq(Resources), now \in Nat :
               /\ Ask(op, batch, now)
               /\ op = "history" => \A r \in ToSet(batch) : host[r].asking
    BY <1>5, AsksBatch
  <2> DEFINE qs == [i \in DOMAIN batch |-> [resource |-> batch[i], page |-> host[batch[i]].page]]
  <2>2. /\ request'.op = op /\ request'.batch = ToSet(batch) /\ request'.queries = qs
        /\ host' = host /\ at' # "fetch"
    BY <2>1 DEF Ask, NoRequest
  <2>3. DOMAIN qs = 1..Len(qs)
    <3>1. DOMAIN batch = 1..Len(batch) /\ Len(batch) \in Nat
      OBVIOUS
    <3>2. DOMAIN qs = 1..Len(batch)
      BY <3>1
    <3>3. Len(qs) = Len(batch)
      BY <3>1, <3>2
    <3> QED BY <3>2, <3>3
  <2>4. \A i \in DOMAIN qs : qs[i].page = host[qs[i].resource].page
    OBVIOUS
  <2> HIDE DEF qs
  <2>5. \A i \in 1..Len(request'.queries) :
          request'.queries[i].page = host'[request'.queries[i].resource].page
    BY <2>2, <2>3, <2>4
  <2>6. request'.op = "history" => \A r \in request'.batch : host'[r].asking
    BY <2>1, <2>2
  <2> QED BY <2>2, <2>5, <2>6 DEF Following
<1>6. CASE Timeout
  <2>1. /\ request' = [request EXCEPT !.lost = TRUE] /\ crawls' = crawls /\ at' = at /\ at # "idle"
        /\ \A r \in Resources : host'[r].page = host[r].page
    BY <1>1, <1>6 DEF Timeout, Readers
  <2>2. request'.lost /\ request'.queries = request.queries /\ request'.op = request.op
    BY <1>1, <2>1 DEF Requests
  <2>3. InHand' <=> InHand
    BY <2>1, <2>2 DEF InHand, Query
  <2>4. \A i \in 1..Len(request.queries) : request.queries[i].resource \in Resources
    <3> DEFINE q == request.queries
               Q == [resource : Resources, page : {None} \union Pages]
    <3>1. q \in Seq(Q)
      BY <1>1 DEF Requests
    <3>2. \A i \in 1..Len(q) : q[i] \in Q
      <4> HIDE DEF q, Q
      <4> QED BY <3>1
    <3> QED BY <3>2
  <2>5. \A i \in 1..Len(request'.queries) :
          request'.queries[i].page = host'[request'.queries[i].resource].page
    BY <2>1, <2>2, <2>4 DEF Following
  <2> QED BY <2>1, <2>2, <2>3, <2>5 DEF Following
<1>7. CASE Turn \/ Fetch
  <2>1. at \in {"next", "fetch"} /\ host' = host
    BY <1>7, ProcessAnswers
  <2>2. CASE UNCHANGED <<request, crawls>> /\ at' = "fetch"
    <3>1. ~InHand
      <4>1. CASE Fetch
        <5>1. at = "fetch"
          BY <4>1 DEF Fetch, AddressChain, PaginationStalled, AddressMempool, StatusRead,
                      AddressStats, FetchFails, BalanceUnavailable
        <5> QED BY <5>1 DEF Following
      <4>2. CASE Turn
        BY <2>2, <4>2 DEF Turn, BadPage, NotFetched, ContinueCrawl, StartFetch, Serve, Push
      <4> QED BY <1>7, <4>1, <4>2
    <3>2. ~InHand'
      BY <2>2, <3>1 DEF InHand, Query
    <3> QED BY <2>1, <2>2, <3>2 DEF Following
  <2>3. CASE BadPage
    <3>1. /\ request'.op = request.op /\ request'.batch = request.batch
          /\ request'.lost = request.lost /\ request'.queries = request.queries /\ at' = "reply"
      BY <1>1, <2>3 DEF BadPage, Requests
    <3> QED BY <2>1, <3>1 DEF Following
  <2>4. CASE Answered /\ request.queries # <<>>
    <3>1. PICK entry \in Answers, spent \in Nat, extra \in Nat, abandon \in BOOLEAN :
                 Push(entry, spent, extra, abandon)
      BY <2>4 DEF Answered
    <3>2. /\ request'.queries = Tail(request.queries)
          /\ request'.op = request.op /\ request'.batch = request.batch
          /\ request'.lost = request.lost
      BY <1>1, <2>1, <2>4, <3>1, PushAsked
    <3>3. at' # "fetch"
      BY <3>1 DEF Push
    <3>4. \A i \in 1..Len(request'.queries) :
            request'.queries[i].page = host[request'.queries[i].resource].page
      <4> DEFINE q == request.queries
                 Q == [resource : Resources, page : {None} \union Pages]
      <4>1. q \in Seq(Q) /\ q # <<>>
        BY <1>1, <2>4 DEF Requests
      <4>2. \A i \in 1..Len(q) : q[i].page = host[q[i].resource].page
        BY <2>1 DEF Following
      <4> HIDE DEF q, Q
      <4>3. \A i \in 1..Len(Tail(q)) : Tail(q)[i] = q[i + 1] /\ i + 1 \in 1..Len(q)
        BY <4>1, HeadAndTail
      <4>4. \A i \in 1..Len(Tail(q)) : Tail(q)[i].page = host[Tail(q)[i].resource].page
        BY <4>2, <4>3
      <4> QED BY <3>2, <4>4 DEF q
    <3> QED BY <2>1, <3>2, <3>3, <3>4 DEF Following
  <2> QED BY <1>7, <2>2, <2>3, <2>4, ProcessAnswers
<1>8. CASE Environment
  BY <1>2, <1>3, <1>8 DEF Environment, Broadcast, Evict, Mine, Reorg, Moved, Damage, Restart
<1>9. CASE WriteReply
  BY <1>2, <1>9 DEF WriteReply
<1>10. CASE UNCHANGED vars
  BY <1>3, <1>10 DEF vars
<1> QED BY <1>2, <1>4, <1>5, <1>6, <1>7, <1>8, <1>9, <1>10 DEF Next, Process

(* In every state what a host has, what is in flight to it and what is kept of its crawl
   are parts of one plan: the cursor a reply carries, the snapshot the process keeps for
   it and the records the host already has agree, through lost replies, restarts and
   whatever the chain does. *)
THEOREM SpecCrawlInv == Spec => []CrawlInv
<1>1. Init => CrawlInv
  <2> SUFFICES ASSUME Init PROVE CrawlInv
    OBVIOUS
  <2>1. at = "idle"
    BY DEF Init
  <2>2. ASSUME NEW r \in Resources PROVE Resumable(r) /\ Cut(r)
    <3>1. host[r].page = None /\ host[r].got = <<>>
      BY DEF Init, Idle
    <3>2. None \notin WireCursors
      BY SentinelAssumption DEF Pages
    <3> QED BY <2>1, <3>1, <3>2 DEF Resumable, Cut, InFlight
  <2> QED BY <2>1, <2>2 DEF CrawlInv, Following
<1>2. Typed /\ Asked /\ CrawlInv /\ [Next]_vars => CrawlInv'
  <2> SUFFICES ASSUME Typed, Asked, CrawlInv, [Next]_vars PROVE CrawlInv'
    OBVIOUS
  <2>1. TypeOK /\ Following
    BY DEF Typed, CrawlInv
  <2>2. Following'
    BY <2>1, FollowingKept
  <2>3. ASSUME NEW r \in Resources PROVE (Resumable(r) /\ Cut(r))'
    <3>1. Resumable(r) /\ Cut(r)
      BY DEF CrawlInv
    <3>2. Same(r) \/ Drops(r) \/ Begins(r) \/ Serves(r) \/ Arrives(r)
      BY <2>1, StepSorts
    <3> QED BY <2>1, <3>1, <3>2, CutKept, ResumableKept
  <2> QED BY <2>2, <2>3 DEF CrawlInv
<1> QED BY <1>1, <1>2, SpecTyped, PTL DEF Spec

(* The adapter implements the crawl that spec/observation.md promises, for each resource
   and with every number of wallets, transactions and bytes: its pages, lost or not, are
   the steps of one exact crawl. *)
THEOREM SpecCrawlSpec == Spec => CrawlSpec
<1>1. Init => \A r \in Resources : Followable(r)!Init
  <2> SUFFICES ASSUME Init, NEW r \in Resources PROVE Followable(r)!Init
    OBVIOUS
  <2>1. ~host[r].asking /\ host[r].got = <<>> /\ host[r].told = {} /\ host[r].page = None
    BY DEF Init, Idle
  <2>2. ~InFlight(r) /\ ~InCrawl(r)
    BY <2>1 DEF Init, InFlight, InCrawl
  <2> QED BY <2>1, <2>2 DEF Followable!Init, Owed
<1>2. Typed /\ Asked /\ CrawlInv /\ [Next]_vars
        => [\A r \in Resources : [Followable(r)!Next]_(Followable(r)!vars)]_vars
  BY StepFollowed
<1> QED BY <1>1, <1>2, SpecTyped, SpecCrawlInv, PTL DEF Spec, CrawlSpec

-----------------------------------------------------------------------------
(***************************************************************************)
(* What the crawl is for: nothing confirmed is sent twice.                  *)
(***************************************************************************)

(* What was sent and what is left, one after the other, repeat nothing confirmed. *)
OnceOf(sent, left) ==
  /\ sent \in Seq(Keys) /\ left \in Seq(Keys)
  /\ \A i, j \in 1..Len(sent) :
       i < j /\ Confirmed(sent[i]) /\ Confirmed(sent[j]) => KeyBefore(sent[i], sent[j])
  /\ \A i, j \in 1..Len(left) : i < j => KeyBefore(left[i], left[j])
  /\ \A k \in ToSet(left), l \in ToSet(sent) :
       Confirmed(k) /\ Confirmed(l) => KeyBefore(l, k)

Once(r) == OnceOf(host[r].got, Owed(r))

(* The front of what is left, sent, is sent once. *)
LEMMA FrontOnce ==
  ASSUME NEW sent, NEW left, OnceOf(sent, left), NEW n \in 0..Len(left),
         NEW page \in Seq(Keys), NEW rest \in Seq(Keys),
         ToSet(page) \subseteq {left[i] : i \in 1..n},
         \A i, j \in 1..Len(page) : i < j => KeyBefore(page[i], page[j]),
         \A i, j \in 1..Len(rest) : i < j => KeyBefore(rest[i], rest[j]),
         \A k \in ToSet(rest) : Confirmed(k) => \E i \in (n + 1)..Len(left) : left[i] = k
  PROVE  OnceOf(sent \o page, rest)
<1>1. sent \in Seq(Keys) /\ left \in Seq(Keys) /\ Len(left) \in Nat
      /\ Len(sent) \in Nat /\ Len(page) \in Nat
  BY DEF OnceOf
<1> DEFINE all == sent \o page
<1>2. /\ all \in Seq(Keys) /\ Len(all) = Len(sent) + Len(page)
      /\ \A i \in 1..Len(all) :
           \/ i \in 1..Len(sent) /\ all[i] = sent[i]
           \/ i \notin 1..Len(sent) /\ i - Len(sent) \in 1..Len(page) /\ all[i] = page[i - Len(sent)]
  <2>1. /\ all \in Seq(Keys) /\ Len(all) = Len(sent) + Len(page)
        /\ \A i \in 1..(Len(sent) + Len(page)) :
             all[i] = IF i <= Len(sent) THEN sent[i] ELSE page[i - Len(sent)]
    BY <1>1, ConcatProperties
  <2> HIDE DEF all
  <2>2. \A i \in 1..Len(all) :
          \/ i \in 1..Len(sent) /\ i <= Len(sent)
          \/ i \notin 1..Len(sent) /\ ~(i <= Len(sent)) /\ i - Len(sent) \in 1..Len(page)
    BY <1>1, <2>1
  <2> QED BY <2>1, <2>2
<1> HIDE DEF all
<1>3. \A x \in ToSet(all) : x \in ToSet(sent) \/ x \in ToSet(page)
  <2> SUFFICES ASSUME NEW x \in ToSet(all) PROVE x \in ToSet(sent) \/ x \in ToSet(page)
    OBVIOUS
  <2>1. PICK i \in 1..Len(all) : all[i] = x
    BY <1>2, SetOfSequence
  <2> QED BY <1>1, <1>2, <2>1, SetOfSequence
<1>4. \A x \in ToSet(page) : \E i \in 1..n : i \in 1..Len(left) /\ left[i] = x
  BY <1>1
<1>5. \A k \in ToSet(left), l \in ToSet(sent) :
        Confirmed(k) /\ Confirmed(l) => KeyBefore(l, k)
  BY DEF OnceOf
<1>6. \A i \in 1..Len(left) : left[i] \in ToSet(left)
  BY <1>1, SetOfSequence
<1>7. ASSUME NEW i \in 1..Len(all), NEW j \in 1..Len(all), i < j,
             Confirmed(all[i]), Confirmed(all[j])
      PROVE  KeyBefore(all[i], all[j])
  <2>1. CASE j \in 1..Len(sent)
    <3>1. i \in 1..Len(sent) /\ all[i] = sent[i] /\ all[j] = sent[j]
      BY <1>1, <1>2, <1>7, <2>1
    <3> QED BY <1>7, <2>1, <3>1 DEF OnceOf
  <2>2. CASE j \notin 1..Len(sent)
    <3>1. j - Len(sent) \in 1..Len(page) /\ all[j] = page[j - Len(sent)]
      BY <1>2, <2>2
    <3>2. CASE i \in 1..Len(sent)
      <4>1. all[i] \in ToSet(sent) /\ all[j] \in ToSet(page)
        BY <1>1, <1>2, <3>1, <3>2, SetOfSequence
      <4>2. all[j] \in ToSet(left)
        BY <1>4, <1>6, <4>1
      <4> QED BY <1>5, <1>7, <4>1, <4>2
    <3>3. CASE i \notin 1..Len(sent)
      <4>1. i - Len(sent) \in 1..Len(page) /\ all[i] = page[i - Len(sent)]
        BY <1>2, <3>3
      <4>2. i - Len(sent) < j - Len(sent)
        BY <1>1, <1>2, <1>7
      <4> QED BY <3>1, <4>1, <4>2
    <3> QED BY <3>2, <3>3
  <2> QED BY <2>1, <2>2
<1>8. ASSUME NEW k \in ToSet(rest), NEW l \in ToSet(all), Confirmed(k), Confirmed(l)
      PROVE  KeyBefore(l, k)
  <2>1. PICK i \in (n + 1)..Len(left) : left[i] = k
    BY <1>8
  <2>2. i \in 1..Len(left) /\ k \in ToSet(left)
    BY <1>1, <1>6, <2>1
  <2>3. CASE l \in ToSet(sent)
    BY <1>5, <1>8, <2>2, <2>3
  <2>4. CASE l \in ToSet(page)
    <3>1. PICK j \in 1..n : j \in 1..Len(left) /\ left[j] = l
      BY <1>4, <2>4
    <3>2. j < i
      BY <1>1, <2>1, <3>1
    <3> QED BY <2>1, <2>2, <3>1, <3>2 DEF OnceOf
  <2> QED BY <1>3, <2>3, <2>4
<1> QED BY <1>2, <1>7, <1>8 DEF OnceOf, all

(* Every step of the crawl sends once. *)
LEMMA OnceKept ==
  ASSUME TypeOK, TypeOK', NEW r \in Resources, Once(r),
         [Followable(r)!Next]_(Followable(r)!vars)
  PROVE  Once(r)'
<1> DEFINE sent == host[r].got
           left == Owed(r)
<1>1. sent \in Seq(Keys) /\ sent' \in Seq(Keys)
  BY DEF TypeOK, Readers
<1>2. OnceOf(sent, left)
  BY DEF Once
<1>3. CASE UNCHANGED <<sent, left>>
  BY <1>2, <1>3 DEF Once
<1>4. CASE left' = <<>> /\ sent' \in {sent, <<>>}
  <2>1. ToSet(left') = {} /\ Len(left') = 0 /\ left' \in Seq(Keys)
    BY <1>4 DEF ToSet
  <2>2. CASE sent' = <<>>
    <3>1. Len(sent') = 0
      BY <2>2
    <3> HIDE DEF sent, left
    <3>2. OnceOf(sent', left')
      BY <1>1, <2>1, <3>1 DEF OnceOf
    <3> QED BY <3>2 DEF Once, sent, left
  <2>3. CASE sent' = sent
    <3> HIDE DEF sent, left
    <3>1. OnceOf(sent', left')
      BY <1>1, <1>2, <2>1, <2>3 DEF OnceOf
    <3> QED BY <3>1 DEF Once, sent, left
  <2> QED BY <1>4, <2>2, <2>3
<1>5. CASE Followable(r)!Plan
  <2>1. Followable(r)!Fresh(left') /\ sent' = sent
    BY <1>5 DEF Followable!Plan
  <2> HIDE DEF sent, left
  <2>2. /\ left' \in Seq(Keys) /\ \A i, j \in DOMAIN left' : i < j => KeyBefore(left'[i], left'[j])
        /\ \A k \in {left'[i] : i \in DOMAIN left'}, l \in {sent[i] : i \in DOMAIN sent} :
             Confirmed(k) /\ Confirmed(l) => KeyBefore(l, k)
    BY <2>1 DEF Followable!Fresh, Followable!Ordered, Followable!Members, sent
  <2>3. DOMAIN left' = 1..Len(left') /\ ToSet(left') = {left'[i] : i \in DOMAIN left'}
        /\ ToSet(sent) = {sent[i] : i \in DOMAIN sent}
    BY <2>2 DEF ToSet
  <2>4. OnceOf(sent', left')
    BY <1>1, <1>2, <2>1, <2>2, <2>3 DEF OnceOf
  <2> QED BY <2>4 DEF Once, sent, left
<1>6. CASE Followable(r)!Page
  <2> DEFINE page == SubSeq(sent', Len(sent) + 1, Len(sent'))
  <2>1. PICK n \in 0..Len(left) :
          LET part == SubSeq(left, 1, n)
              rest == SubSeq(left, n + 1, Len(left))
          IN  /\ Followable(r)!Sends({k \in Followable(r)!Members(part) : Deliverable(k)})
              /\ Followable(r)!Ordered(left') /\ left' \in Seq(Keys)
              /\ \A k \in Followable(r)!Members(left') \ Followable(r)!Members(rest) : ~Confirmed(k)
    BY <1>6 DEF Followable!Page
  <2>2. left \in Seq(Keys)
    BY <1>2 DEF OnceOf
  <2>3. page \in Seq(Keys)
    <3> HIDE DEF sent, left
    <3>1. \A i \in (Len(sent) + 1)..Len(sent') : sent'[i] \in Keys
      BY <1>1
    <3> QED BY <1>1, <3>1, SubSeqProperties
  <2>4. /\ sent' = sent \o page
        /\ {page[i] : i \in DOMAIN page}
             = {k \in Followable(r)!Members(SubSeq(left, 1, n)) : Deliverable(k)}
        /\ \A i, j \in DOMAIN page : i < j => KeyBefore(page[i], page[j])
    BY <2>1 DEF Followable!Sends, Followable!Ordered, Followable!Members
  <2>5. /\ \A i, j \in DOMAIN left' : i < j => KeyBefore(left'[i], left'[j])
        /\ left' \in Seq(Keys)
        /\ \A k \in {left'[i] : i \in DOMAIN left'}
                      \ Followable(r)!Members(SubSeq(left, n + 1, Len(left))) : ~Confirmed(k)
    BY <2>1 DEF Followable!Ordered, Followable!Members
  <2> HIDE DEF sent, left, page
  <2>6. /\ Followable(r)!Members(SubSeq(left, 1, n)) = {left[i] : i \in 1..n}
        /\ Followable(r)!Members(SubSeq(left, n + 1, Len(left))) = {left[i] : i \in (n + 1)..Len(left)}
    BY <2>2, PartHolds DEF Followable!Members
  <2>7. /\ DOMAIN page = 1..Len(page) /\ ToSet(page) = {page[i] : i \in DOMAIN page}
        /\ DOMAIN left' = 1..Len(left') /\ ToSet(left') = {left'[i] : i \in DOMAIN left'}
    BY <2>3, <2>5 DEF ToSet
  <2>8. ToSet(page) \subseteq {left[i] : i \in 1..n}
    BY <2>4, <2>6, <2>7
  <2>9. \A k \in ToSet(left') : Confirmed(k) => \E i \in (n + 1)..Len(left) : left[i] = k
    BY <2>5, <2>6, <2>7
  <2>10. /\ \A i, j \in 1..Len(page) : i < j => KeyBefore(page[i], page[j])
         /\ \A i, j \in 1..Len(left') : i < j => KeyBefore(left'[i], left'[j])
    BY <2>4, <2>5, <2>7
  <2>11. OnceOf(sent', left')
    BY <1>2, <2>3, <2>4, <2>5, <2>8, <2>9, <2>10, FrontOnce
  <2> QED BY <2>11 DEF Once, sent, left
<1>7. CASE Followable(r)!Begin \/ Followable(r)!Lose \/ Followable(r)!Stop
  <2>1. UNCHANGED <<sent, left>> \/ (left' = <<>> /\ sent' \in {sent, <<>>})
    BY <1>7 DEF Followable!Begin, Followable!Lose, Followable!Stop, Followable!Lost
  <2> QED BY <1>3, <1>4, <2>1
<1>8. CASE UNCHANGED Followable(r)!vars
  <2>1. UNCHANGED <<sent, left>>
    BY <1>8 DEF Followable!vars
  <2> QED BY <1>3, <2>1
<1> QED BY <1>5, <1>6, <1>7, <1>8 DEF Followable!Next

(* No host is sent a confirmed record of one crawl twice, or out of order, across pages,
   lost replies, restarts and new plans (Crawl's ExactlyOnce, of every resource). *)
THEOREM SpecExactlyOnce == Spec => [](\A r \in Resources : Followable(r)!ExactlyOnce)
<1> DEFINE All == \A r \in Resources : Once(r)
<1>1. Init => All
  <2> SUFFICES ASSUME Init, NEW r \in Resources PROVE Once(r)
    OBVIOUS
  <2>1. host[r].got = <<>> /\ host[r].page = None
    BY DEF Init, Idle
  <2>2. Owed(r) = <<>>
    BY <2>1 DEF Init, Owed, InFlight, InCrawl
  <2>3. OnceOf(<<>>, <<>>)
    BY DEF OnceOf, ToSet
  <2> QED BY <2>1, <2>2, <2>3 DEF Once
<1>2. TypeOK /\ TypeOK' /\ Typed /\ Asked /\ CrawlInv /\ All /\ [Next]_vars => All'
  BY StepFollowed, OnceKept
<1>3. TypeOK /\ All => \A r \in Resources : Followable(r)!ExactlyOnce
  <2> SUFFICES ASSUME TypeOK, All, NEW r \in Resources PROVE Followable(r)!ExactlyOnce
    OBVIOUS
  <2>1. DOMAIN host[r].got = 1..Len(host[r].got)
    BY DEF TypeOK, Readers
  <2> QED BY <2>1 DEF Once, OnceOf, Followable!ExactlyOnce
<1> HIDE DEF All
<1> QED BY <1>1, <1>2, <1>3, SpecTypeOK, SpecTyped, SpecCrawlInv, PTL DEF Spec
=============================================================================
