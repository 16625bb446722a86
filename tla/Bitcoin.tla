------------------------------- MODULE Bitcoin -------------------------------
(* The Bitcoin adapter (adapters/bitcoin): one serial process that answers a host from *)
(* an Esplora deployment it does not control.  A step is what the process does between *)
(* two HTTP requests: the provider, the host's deadline and a crash come in between.   *)
EXTENDS Naturals, FiniteSets, SequencesExt

CONSTANTS
  Resources,        \* the resource ids a host names, numbers in the order of a batch
  Addresses,
  Definitions,      \* what a wallet file may say: address lists, empty if not configured
  Txids,            \* positive numbers, ordered as the texts are
  Touches,          \* the addresses a transaction pays or spends from
  MaxHeight,
  Heavy,            \* the bytes of a confirmed observation, its block hash included
  Lean,             \* the bytes without: unconfirmed, or truncated
  StatusBytes, PageBudget, MaxObservation, MaxFrame,
  LineBytes,        \* the bytes of the two balance lines of a wallet, null ones too
  ReportBytes,      \* the bytes that name one degraded record in a status entry
  ChainPage,        \* how many transactions a page of a chain listing holds
  Statuses,         \* what an HTTP request may come to
  Evidence,         \* the bytes of provider_detail beyond what is reserved for an entry
  ForeignCursors,   \* cursors another adapter issued, and the window request
  Duties,           \* sets of operations a host uses
  Starts,           \* where the transactions are at first
  MaxTime, MaxUses, MaxChanges, MaxFaults,
  Absent, None, Damaged

Pool == 0
Places == {Absent} \union 0 .. MaxHeight
Keys == [height : 0 .. MaxHeight, txid : Txids]
Snapshots == [Txids -> Places]
WireCursors == ((0 .. MaxHeight) \X ({0} \union Txids))
               \union ((0 .. MaxHeight) \X ({0} \union Txids) \X Txids)

(* What a cached file holds, what a page asks from, and what is answered. *)
Counts == {None} \union Nat
CacheFiles == [addresses : SUBSET Addresses, asOf : Nat, figures : Counts \X Counts]
Pages == WireCursors \union ForeignCursors
Operations == {"history", "balances", "status"}
Answers == [outcome : {"fetched", "stale", "rate_limited", "unavailable", "not_fetched"},
            observations : Seq(Keys), degraded : SUBSET Keys,
            next : {None} \union WireCursors,
            figures : {None} \union (Counts \X Counts), asOf : {None} \union Nat]

(* PageBudget is a page's share of a frame, and an observation at the cap fits in it. *)
ASSUME BitcoinAssumption ==
  /\ Resources \subseteq Nat /\ IsFiniteSet(Resources)
  /\ Txids \subseteq Nat \ {0} /\ IsFiniteSet(Txids)
  /\ MaxHeight \in Nat /\ ChainPage \in Nat \ {0}
  /\ Touches \in [Txids -> SUBSET Addresses]
  /\ Definitions \subseteq [Resources -> Seq(Addresses)]
  /\ Heavy \in [Txids -> Nat] /\ Lean \in [Txids -> Nat]
  /\ {StatusBytes, PageBudget, MaxObservation, MaxFrame} \subseteq Nat
  /\ LineBytes \in Nat /\ ReportBytes \in Nat
  /\ Evidence \in [Statuses -> Nat]
  /\ MaxObservation < PageBudget /\ PageBudget + StatusBytes =< MaxFrame
  /\ Starts \subseteq Snapshots /\ Absent \notin Nat
  /\ Duties \subseteq SUBSET Operations /\ MaxTime \in Nat

(* What is absent is no value, and a foreign page is none this adapter can read. *)
ASSUME SentinelAssumption ==
  /\ None \notin Keys \union Snapshots \union Pages
  /\ None \notin Answers /\ {None, Damaged} \intersect CacheFiles = {}
  /\ ForeignCursors \intersect WireCursors = {}

VARIABLES
  place,            \* the provider: where each transaction is
  wallets,          \* the wallet file this process loaded
  crawls,           \* per resource, the snapshot its pages are cut from
  cache,            \* per resource, the file under --state-dir
  at,               \* where the process is in its request loop
  request,          \* the request in hand
  fetch,            \* the reads of the provider it is in the middle of
  host,             \* per resource, the crawl the host follows
  duty,             \* what this host asks for
  read,             \* history: the balances read
  count             \* of each bounded thing, how many happened

vars == <<place, wallets, crawls, cache, at, request, fetch, host, duty, read, count>>

------------------------------------------------------------------------------
(* map.rs: keys, cursors, the plan of a sync and the cut of a page. *)

(* A set in its order. *)
Sorted(S, Before(_, _)) ==
  CHOOSE s \in [1 .. Cardinality(S) -> S] : \A i, j \in DOMAIN s : i < j => Before(s[i], s[j])

Confirmed(k) == k.height # Pool

(* The order of emission: confirmed by height and txid, then unconfirmed by txid. *)
KeyBefore(k, l) ==
  \/ Confirmed(k) /\ ~Confirmed(l)
  \/ Confirmed(k) = Confirmed(l) /\ k.height < l.height
  \/ k.height = l.height /\ k.txid < l.txid

(* A cursor travels as the fields of its text, "<height>:<txid>[:m:<mempool txid>]". *)
Encode(c) ==
  IF c.mempool = 0 THEN <<c.height, c.txid>> ELSE <<c.height, c.txid, c.mempool>>

Parses(s) == s \in WireCursors

Parse(s) == [height |-> s[1], txid |-> s[2],
             mempool |-> IF Len(s) = 3 THEN s[3] ELSE 0]

(* No page at all stands at the bottom. *)
From(page) == IF page = None THEN [height |-> 0, txid |-> 0, mempool |-> 0] ELSE Parse(page)

Above(k, mark) ==
  \/ k.height > mark.height
  \/ k.height = mark.height /\ k.txid > mark.txid

AllKeys(txs) == {[height |-> txs[t], txid |-> t] : t \in {u \in Txids : txs[u] # Absent}}

HighWater(txs, from) ==
  LET floor == [height |-> from.height, txid |-> from.txid]
      higher == {k \in AllKeys(txs) : Confirmed(k) /\ Above(k, floor)}
  IN  IF higher = {} THEN floor ELSE CHOOSE k \in higher : \A l \in higher : ~Above(l, k)

Due(txs, from) ==
  {k \in AllKeys(txs) : IF Confirmed(k) THEN Above(k, from) ELSE k.txid > from.mempool}

Plan(txs, from) == Sorted(Due(txs, from), KeyBefore)

(* Amid the unconfirmed, the cursor forgets how far the confirmed went. *)
CursorAfter_without_mark(k, highWater) ==
  IF Confirmed(k)
  THEN [height |-> k.height, txid |-> k.txid, mempool |-> 0]
  ELSE [height |-> 0, txid |-> 0, mempool |-> k.txid]

(* The cursor that resumes after an item: the confirmed mark is always in it. *)
CursorAfter(k, highWater) ==
  IF Confirmed(k)
  THEN [height |-> k.height, txid |-> k.txid, mempool |-> 0]
  ELSE [height |-> highWater.height, txid |-> highWater.txid, mempool |-> k.txid]

(* An observation over the cap loses its provider_extra, whose only unbounded field is *)
(* the block hash.                                                                     *)
Bytes(k) == IF Confirmed(k) /\ Heavy[k.txid] =< MaxObservation
            THEN Heavy[k.txid] ELSE Lean[k.txid]

Deliverable(k) == Bytes(k) =< MaxObservation

(* What no page can carry is withheld, not omitted. *)
Cost_withheld(k) == Bytes(k) + 1

(* With the comma that joins it; what is omitted costs nothing. *)
Cost(k) == IF Deliverable(k) THEN Bytes(k) + 1 ELSE 0

(* What the front of a plan costs, by its length. *)
Spent(plan) ==
  LET used[i \in 0 .. Len(plan)] == IF i = 0 THEN 0 ELSE used[i - 1] + Cost(plan[i])
  IN  used

(* One page: as much of the plan as the budget pays for; what no page can carry is *)
(* reported.                                                                       *)
CutPage(plan, from, highWater, budget) ==
  LET used == Spent(plan)
      n == Max({i \in DOMAIN used : used[i] =< budget})
      page == {plan[i] : i \in 1 .. n}
      emitted == Sorted({k \in page : Deliverable(k)}, KeyBefore)
  IN  [observations |-> emitted,
       degraded |-> {k \in page : ~Deliverable(k)},
       bytes |-> used[n],
       next |-> IF n = Len(plan) THEN None
                ELSE Encode(IF emitted = <<>> THEN from
                            ELSE CursorAfter(Last(emitted), highWater))]

------------------------------------------------------------------------------
(* main.rs: the budget of a reply and its entries. *)

(* The subtraction is not saturating. *)
Monus_plain(a, b) == a - b

(* saturating_sub *)
Monus(a, b) == IF a > b THEN a - b ELSE 0

(* A status entry: what it says, and what comes with it. *)
Status(outcome) ==
  [outcome |-> outcome, observations |-> <<>>, degraded |-> {}, next |-> None,
   figures |-> None, asOf |-> None]

NoRequest == [op |-> None, batch |-> {}, queries |-> <<>>, answers |-> [r \in Resources |-> None],
              abandoned |-> FALSE, budget |-> 0, bytes |-> 0, now |-> 0,
              failed |-> FALSE, lost |-> FALSE]

(* Of the transactions, those listed, or confirmed at one place, ever since this read *)
(* began, and those it was shown confirmed, are history.                              *)
NoFetch == [todo |-> <<>>, step |-> None, seen |-> None,
            txs |-> [t \in Txids |-> Absent], figures |-> <<0, 0>>,
            listed |-> {}, settled |-> {}, shown |-> {}, adrift |-> FALSE]

(* Each entry is charged when its turn comes. *)
Reserve_on_turn(n) == MaxFrame

(* Every requested resource's entry is paid for before any observation is. *)
Reserve(n) == Monus(MaxFrame, n * StatusBytes)

Query == Head(request.queries)

Known(r) == wallets[r] # <<>>

(* What is in a reply and charged to no budget: two balance lines for every wallet,       *)
(* whatever happened to its read, and the degraded records its entry names.               *)
Uncharged(entry) ==
  (IF request.op = "balances" /\ Known(Query.resource) THEN LineBytes ELSE 0)
  + ReportBytes * Cardinality(entry.degraded)

(* The entry of the query in hand; `spent` is its observations, `extra` its evidence. *)
Push(entry, spent, extra, abandon) ==
  /\ request' = [request EXCEPT
       !.queries = Tail(@),
       !.answers[Query.resource] = entry,
       !.abandoned = @ \/ abandon,
       !.budget = Monus(@, spent + extra),
       !.bytes = @ + spent + extra + Uncharged(entry)]
  /\ at' = IF Len(request.queries) = 1 THEN "reply" ELSE "next"
  /\ fetch' = NoFetch

(* A read that did not happen: no observation, no page. *)
Refuse(outcome, status) ==
  Push(Status(outcome), 0, Evidence[status], outcome = "rate_limited")

(* A page of the snapshot; the last one spends it. *)
Serve(txs) ==
  LET from == From(Query.page)
      share == IF request.budget < PageBudget THEN request.budget ELSE PageBudget
  IN  \E plan \in {Plan(txs, from)} :
      \E page \in {CutPage(plan, from, HighWater(txs, from), share)} :
        /\ Push([Status("fetched") EXCEPT !.observations = page.observations,
                                          !.degraded = page.degraded,
                                          !.next = page.next],
                page.bytes, 0, FALSE)
        /\ crawls' = [crawls EXCEPT ![Query.resource] =
                        IF page.next = None THEN None ELSE txs]

------------------------------------------------------------------------------
(* The host: it follows a crawl of each resource to its end, gives one up when a read *)
(* fails, and may resume it later from the cursor it has.                             *)

Idle == [asking |-> FALSE, page |-> None, got |-> <<>>, told |-> {}]

BeginCrawl(r) ==
  /\ "history" \in duty
  /\ at = "idle" /\ ~host[r].asking /\ count.uses < MaxUses
  /\ \/ host' = [host EXCEPT ![r] = [Idle EXCEPT !.asking = TRUE]]
     \/ \E c \in ForeignCursors :
          host' = [host EXCEPT ![r] = [Idle EXCEPT !.asking = TRUE, !.page = c]]
     \/ host[r].page # None /\ host' = [host EXCEPT ![r].asking = TRUE]
  /\ count' = [count EXCEPT !.uses = @ + 1]
  /\ UNCHANGED <<place, wallets, crawls, cache, at, request, fetch, duty, read>>

Earlier(q, r) == q < r

Batch(op) ==
  Sorted(IF op = "history" THEN {r \in Resources : host[r].asking} ELSE Resources, Earlier)

NoRepeats(batch) == Len(batch) = Cardinality(ToSet(batch))

(* A request is read from stdin; one that repeats a resource is refused as a whole.  Only *)
(* a read of history has a budget.                                                        *)
Ask(op, batch, now) ==
  /\ at = "idle" /\ op \in duty /\ batch # <<>>
  /\ op # "history" => count.uses < MaxUses
  /\ request' = [NoRequest EXCEPT
       !.op = op, !.batch = ToSet(batch), !.now = now,
       !.queries = [i \in DOMAIN batch |->
                      [resource |-> batch[i], page |-> host[batch[i]].page]],
       !.budget = IF op = "history" THEN Reserve(Len(batch)) ELSE 0,
       !.bytes = Len(batch) * StatusBytes,
       !.failed = ~NoRepeats(batch)]
  /\ at' = IF NoRepeats(batch) THEN "next" ELSE "reply"
  /\ count' = [count EXCEPT !.uses = IF op = "history" THEN @ ELSE @ + 1]
  /\ UNCHANGED <<place, wallets, crawls, cache, fetch, host, duty, read>>

(* The host's deadline passes: the reply will be dropped. *)
Timeout ==
  /\ at # "idle" /\ ~request.lost /\ count.faults < MaxFaults
  /\ request' = [request EXCEPT !.lost = TRUE]
  /\ host' = [r \in Resources |->
                IF r \in request.batch THEN [host[r] EXCEPT !.asking = FALSE] ELSE host[r]]
  /\ count' = [count EXCEPT !.faults = @ + 1]
  /\ UNCHANGED <<place, wallets, crawls, cache, at, fetch, duty, read>>

(* What the host makes of its resource's entry. *)
Followed(h, entry) ==
  IF entry.outcome # "fetched" THEN [h EXCEPT !.asking = FALSE]
  ELSE [asking |-> entry.next # None, page |-> entry.next,
        got |-> h.got \o entry.observations, told |-> h.told \union entry.degraded]

(* The only write to stdout: a reply over the frame limit goes out as an error. *)
WriteReply ==
  /\ at = "reply" /\ at' = "idle" /\ request' = NoRequest
  /\ host' = [r \in Resources |->
                IF r \notin request.batch \/ request.op # "history" \/ request.lost
                THEN host[r]
                ELSE IF request.failed \/ request.bytes > MaxFrame
                THEN [host[r] EXCEPT !.asking = FALSE]
                ELSE Followed(host[r], request.answers[r])]
  /\ UNCHANGED <<place, wallets, crawls, cache, fetch, duty, read, count>>

------------------------------------------------------------------------------
(* The turns of a request's loop that need no provider. *)

Unread == UNCHANGED <<place, wallets, cache, host, duty, read, count>>

Pageable == request.op = "history" => Query.page = None \/ Parses(Query.page)

(* A cursor this adapter did not issue, or a window, fails the whole request. *)
BadPage ==
  /\ at = "next" /\ ~Pageable
  /\ request' = [request EXCEPT !.failed = TRUE] /\ at' = "reply"
  /\ UNCHANGED <<crawls, fetch>> /\ Unread

(* No such wallet, or a provider that already said stop. *)
NotFetched ==
  /\ at = "next" /\ Pageable
  /\ ~Known(Query.resource) \/ request.abandoned
  /\ Push(Status("not_fetched"), 0, 0, FALSE)
  /\ UNCHANGED crawls /\ Unread

InHand == request.op = "history" /\ Query.page # None /\ crawls[Query.resource] # None

(* A cursor continues the crawl in hand. *)
ContinueCrawl ==
  /\ at = "next" /\ Pageable /\ Known(Query.resource) /\ ~request.abandoned /\ InHand
  /\ Serve(crawls[Query.resource])
  /\ Unread

(* Anything else asks the provider, address by address. *)
StartFetch ==
  /\ at = "next" /\ Pageable /\ Known(Query.resource) /\ ~request.abandoned /\ ~InHand
  /\ at' = "fetch"
  /\ fetch' = [NoFetch EXCEPT
       !.todo = wallets[Query.resource],
       !.step = IF request.op = "history" THEN "chain" ELSE "stats",
       !.listed = {t \in Txids : place[t] # Absent},
       !.settled = {t \in Txids : place[t] \notin {Absent, Pool}}]
  /\ UNCHANGED <<place, wallets, crawls, cache, request, host, duty, read, count>>

------------------------------------------------------------------------------
(* source.rs, wallet.rs: one HTTP request each, and what the sync makes of it. *)

(* The provider: what an address lists, newest first and after a mark. *)
Chain(a) == {k \in AllKeys(place) : a \in Touches[k.txid] /\ Confirmed(k)}

ChainAfter(a, mark) ==
  LET rest == {k \in Chain(a) : mark = None \/ Above(mark, k)}
  IN  {k \in rest : Cardinality({l \in rest : Above(l, k)}) < ChainPage}

(* Asked for what follows a transaction that has moved, it may go on from anywhere, begin *)
(* again, or have nothing.                                                                *)
GoesOnFrom(a, seen) == IF seen \in {None} \union Chain(a) THEN {seen} ELSE {None} \union Keys

Mempool(a) == {t \in Txids : a \in Touches[t] /\ place[t] = Pool}

(* 429 is the only refusal the host can act on; a 404, a body that does not parse and a *)
(* transport error are all no read.                                                     *)
Classify(status) == IF status = "http_429" THEN "rate_limited" ELSE "unavailable"

FetchFails(status) ==
  /\ at = "fetch" /\ status \notin {"ok", "stuck"}
  /\ fetch.step # "stats" \/ request.op = "status" \/ status = "http_429"
  /\ Refuse(Classify(status), status)
  /\ UNCHANGED crawls /\ Unread

(* A full page is taken for a short one. *)
Full_beyond(page) == Cardinality(page) > ChainPage

(* Only a full page has another behind it. *)
Full(page) == Cardinality(page) = ChainPage

(* One page of the confirmed listing; an empty or a short one ends it. *)
AddressChain ==
  /\ at = "fetch" /\ fetch.step = "chain"
  /\ \E mark \in GoesOnFrom(Head(fetch.todo), fetch.seen) :
     LET page == ChainAfter(Head(fetch.todo), mark)
     IN  fetch' = [fetch EXCEPT
              !.txs = [t \in Txids |-> IF \E k \in page : k.txid = t THEN place[t] ELSE @[t]],
              !.step = IF Full(page) THEN "chain" ELSE "mempool",
              !.seen = IF Full(page) THEN CHOOSE k \in page : \A l \in page : ~Above(k, l) ELSE None,
              !.shown = @ \union {k.txid : k \in page},
              !.adrift = @ \/ fetch.seen \notin {None} \union Chain(Head(fetch.todo))]
  /\ UNCHANGED <<place, wallets, crawls, cache, at, request, host, duty,
                 read, count>>

(* A provider that answers with the page it already gave is not read further. *)
PaginationStalled ==
  /\ at = "fetch" /\ fetch.step = "chain" /\ fetch.seen # None /\ "stuck" \in Statuses
  /\ Refuse("unavailable", "stuck")
  /\ UNCHANGED crawls /\ Unread

(* The last copy wins. *)
Pending_overwriting(txs, a) == [t \in Txids |-> IF t \in Mempool(a) THEN Pool ELSE txs[t]]

(* The unconfirmed listing; a copy already there wins, so a confirmed one does. *)
Pending(txs, a) == [t \in Txids |-> IF t \in Mempool(a) /\ txs[t] = Absent THEN Pool ELSE txs[t]]

AddressMempool ==
  /\ at = "fetch" /\ fetch.step = "mempool"
  /\ \E txs \in {Pending(fetch.txs, Head(fetch.todo))} :
       IF Len(fetch.todo) > 1
       THEN /\ fetch' = [fetch EXCEPT !.todo = Tail(@), !.step = "chain", !.txs = txs]
            /\ UNCHANGED <<at, request, crawls>>
       ELSE Serve(txs)
  /\ Unread

------------------------------------------------------------------------------
(* Balances, and the cache that makes a failed read stale instead of unavailable. *)

(* Funded minus spent, per address: confirmed and unconfirmed, never summed. *)
Net(a) == <<Cardinality(Chain(a)), Cardinality(Mempool(a))>>

Plus(f, g) == <<f[1] + g[1], f[2] + g[2]>>

(* The file is written whole or not at all, and a failure to write it is survived. *)
SaveBalances(r, figures, saved) ==
  IF saved
  THEN [cache EXCEPT ![r] = [addresses |-> ToSet(wallets[r]), asOf |-> request.now,
                             figures |-> figures]]
  ELSE cache

(* The counters of one address; the last of them makes the two figures. *)
AddressStats(saved) ==
  LET figures == Plus(fetch.figures, Net(Head(fetch.todo)))
      r == Query.resource
  IN  /\ at = "fetch" /\ fetch.step = "stats" /\ request.op = "balances"
      /\ IF Len(fetch.todo) > 1
         THEN /\ fetch' = [fetch EXCEPT !.todo = Tail(@), !.figures = figures]
              /\ UNCHANGED <<at, request, cache, read>>
         ELSE /\ Push([Status("fetched") EXCEPT !.figures = figures], 0, 0, FALSE)
              /\ cache' = SaveBalances(r, figures, saved)
              /\ read' = read \union {[resource |-> r, addresses |-> ToSet(wallets[r]),
                                      asOf |-> request.now, figures |-> figures]}
      /\ UNCHANGED <<place, wallets, crawls, host, duty, count>>

(* Whether the provider answers at all: of one address, and nothing is kept of it. *)
StatusRead ==
  /\ at = "fetch" /\ fetch.step = "stats" /\ request.op = "status"
  /\ Push(Status("fetched"), 0, 0, FALSE)
  /\ UNCHANGED crawls /\ Unread

(* What is there is of its schema, the instant among it; a figure may be missing, and is *)
(* then unknown.                                                                         *)
Decodes(r) == cache[r] \notin {None, Damaged}

(* Whose addresses they were is not asked. *)
Load_anyone(r) == IF Decodes(r) THEN cache[r] ELSE None

(* A file that is absent, damaged or another address set's is a first run. *)
Load(r) == IF Decodes(r) /\ cache[r].addresses = ToSet(wallets[r]) THEN cache[r] ELSE None

BalanceUnavailable(status) ==
  LET cached == Load(Query.resource)
  IN  /\ at = "fetch" /\ fetch.step = "stats" /\ request.op = "balances"
      /\ status \notin {"ok", "stuck", "http_429"}
      /\ IF cached = None THEN Refuse("unavailable", status)
         ELSE Push([Status("stale") EXCEPT !.figures = cached.figures, !.asOf = cached.asOf],
                   0, Evidence[status], FALSE)
      /\ UNCHANGED crawls /\ Unread

------------------------------------------------------------------------------
(* The world around the process. *)

Moved(p) ==
  /\ count.changes < MaxChanges
  /\ place' = p
  /\ fetch' = [fetch EXCEPT !.listed = {t \in @ : p[t] # Absent},
                            !.settled = {t \in @ : p[t] = place[t]}]
  /\ count' = [count EXCEPT !.changes = @ + 1]
  /\ UNCHANGED <<wallets, crawls, cache, at, request, host, duty, read>>

Broadcast(t) == place[t] = Absent /\ Moved([place EXCEPT ![t] = Pool])

Evict(t) == place[t] = Pool /\ Moved([place EXCEPT ![t] = Absent])

(* A block above every other takes some of the pool. *)
Mine(S, h) ==
  /\ S # {} /\ \A t \in S : place[t] = Pool
  /\ \A t \in Txids : place[t] # Absent => place[t] < h
  /\ Moved([t \in Txids |-> IF t \in S THEN h ELSE place[t]])

(* The top block is undone. *)
Reorg(h) ==
  /\ \E t \in Txids : place[t] = h
  /\ \A t \in Txids : place[t] # Absent => place[t] =< h
  /\ Moved([t \in Txids |-> IF place[t] = h THEN Pool ELSE place[t]])

(* A wallet that lists an address twice would count its money twice: with such a file no *)
(* process starts.                                                                       *)
Loads(definition) == \A r \in Resources : IsInjective(definition[r])

(* The process ends, at any point, and another is started with the wallet file of the day. *)
Restart(definition) ==
  /\ count.faults < MaxFaults /\ Loads(definition)
  /\ wallets' = definition
  /\ crawls' = [r \in Resources |-> None]
  /\ at' = "idle" /\ request' = NoRequest /\ fetch' = NoFetch
  /\ host' = [r \in Resources |-> [host[r] EXCEPT !.asking = FALSE]]
  /\ count' = [count EXCEPT !.faults = @ + 1]
  /\ UNCHANGED <<place, cache, duty, read>>

(* The cache file is torn, of an older schema or without its instant; or it has lost a *)
(* figure and nothing else.                                                            *)
Damage(r) ==
  /\ cache[r] \notin {None, Damaged} /\ count.faults < MaxFaults
  /\ \/ cache' = [cache EXCEPT ![r] = Damaged]
     \/ \E i \in {1, 2} : cache' = [cache EXCEPT ![r].figures[i] = None]
  /\ count' = [count EXCEPT !.faults = @ + 1]
  /\ UNCHANGED <<place, wallets, crawls, at, request, fetch, host, duty, read>>

------------------------------------------------------------------------------
Init ==
  /\ place \in Starts
  /\ wallets \in {d \in Definitions : Loads(d)}
  /\ crawls = [r \in Resources |-> None]
  /\ cache = [r \in Resources |-> None]
  /\ at = "idle" /\ request = NoRequest /\ fetch = NoFetch
  /\ host = [r \in Resources |-> Idle]
  /\ duty \in Duties
  /\ read = {}
  /\ count = [uses |-> 0, changes |-> 0, faults |-> 0]

(* A batch, or the same with its first resource named twice. *)
Asks ==
  \E op \in duty : \E now \in IF op = "balances" THEN 1 .. MaxTime ELSE {0} :
    LET batch == Batch(op)
    IN  /\ batch # <<>>
        /\ Ask(op, batch, now) \/ Ask(op, <<Head(batch)>> \o batch, now)

Turn == BadPage \/ NotFetched \/ ContinueCrawl \/ StartFetch

Fetch ==
  \/ AddressChain \/ PaginationStalled \/ AddressMempool
  \/ StatusRead \/ \E saved \in BOOLEAN : AddressStats(saved)
  \/ \E status \in Statuses : FetchFails(status) \/ BalanceUnavailable(status)

Process == Turn \/ Fetch \/ WriteReply

Environment ==
  \/ \E t \in Txids : Broadcast(t) \/ Evict(t)
  \/ \E S \in SUBSET Txids, h \in 1 .. MaxHeight : Mine(S, h)
  \/ \E h \in 1 .. MaxHeight : Reorg(h)
  \/ \E definition \in Definitions : Restart(definition)
  \/ \E r \in Resources : Damage(r)

Next ==
  \/ \E r \in Resources : BeginCrawl(r)
  \/ Asks \/ Timeout \/ Process \/ Environment

Spec == Init /\ [][Next]_vars

(* The process runs and every HTTP request has a deadline; a host that follows a crawl *)
(* asks on.  Nothing is assumed of the provider.                                       *)
FairSpec == Spec /\ WF_vars(Process) /\ WF_vars(Asks)

------------------------------------------------------------------------------
Requests ==
  [op : Operations \union {None}, batch : SUBSET Resources,
   queries : Seq([resource : Resources, page : {None} \union Pages]),
   answers : [Resources -> {None} \union Answers],
   abandoned : BOOLEAN, budget : Nat, bytes : Nat, now : Nat,
   failed : BOOLEAN, lost : BOOLEAN]

Fetches ==
  [todo : Seq(Addresses), step : {None, "chain", "mempool", "stats"},
   seen : {None} \union Keys, txs : Snapshots, figures : Nat \X Nat,
   listed : SUBSET Txids, settled : SUBSET Txids, shown : SUBSET Txids, adrift : BOOLEAN]

Readers == [asking : BOOLEAN, page : {None} \union Pages, got : Seq(Keys), told : SUBSET Keys]

Figures == [resource : Resources, addresses : SUBSET Addresses, asOf : Nat, figures : Nat \X Nat]

(* Every variable has its type. *)
TypeOK ==
  /\ place \in Snapshots
  /\ wallets \in Definitions
  /\ crawls \in [Resources -> {None} \union Snapshots]
  /\ cache \in [Resources -> {None, Damaged} \union CacheFiles]
  /\ at \in {"idle", "next", "fetch", "reply"}
  /\ request \in Requests
  /\ fetch \in Fetches
  /\ host \in [Resources -> Readers]
  /\ duty \subseteq Operations
  /\ read \subseteq Figures
  /\ count \in [uses : Nat, changes : Nat, faults : Nat]

(* The host of each resource is served an exact crawl: whatever pages, replies and       *)
(* processes are lost, and whatever the chain does meanwhile, its pages are one plan cut *)
(* where the cursor says, no confirmed record is sent twice, every record that fits is   *)
(* sent and every other is reported before the last page says the crawl is whole.        *)
InFlight(r) ==
  /\ at # "idle" /\ request.op = "history" /\ r \in request.batch
  /\ ~request.failed /\ ~request.lost
  /\ request.answers[r] # None /\ request.answers[r].outcome = "fetched"

InCrawl(r) == host[r].page # None /\ Parses(host[r].page) /\ crawls[r] # None

Owed(r) ==
  IF InFlight(r) /\ request.answers[r].next = None
  THEN Sorted(ToSet(request.answers[r].observations) \union request.answers[r].degraded, KeyBefore)
  ELSE IF InFlight(r) \/ InCrawl(r)
  THEN Plan(crawls[r], From(host[r].page))
  ELSE <<>>

Followable(r) == INSTANCE Crawl WITH
  Keys <- Keys, Before <- KeyBefore, Exact <- Confirmed, Fits <- Deliverable,
  open <- host[r].asking, held <- InFlight(r) \/ InCrawl(r),
  sent <- host[r].got, told <- host[r].told, left <- Owed(r)

CrawlSpec ==
  /\ \A r \in Resources : Followable(r)!Init
  /\ [][\A r \in Resources : [Followable(r)!Next]_(Followable(r)!vars)]_vars

(* A transaction that stayed confirmed at one height while its address was walked is in  *)
(* the sync at that height, however the listing is cut into pages and whatever is mined  *)
(* above it meanwhile (source.rs, address_chain): a sync that ends has not lost history.  *)
(* Nothing is claimed of a sync that asked for what follows a transaction that had moved: *)
(* what a provider makes of that is its own.                                              *)
SettledIsRead ==
  at = "fetch" /\ fetch.step = "mempool" /\ ~fetch.adrift =>
    \A t \in fetch.settled, a \in ToSet(wallets[Query.resource]) \ ToSet(Tail(fetch.todo)) :
      a \in Touches[t] => fetch.txs[t] = place[t]

(* "the confirmed copy wins, so a mid-sync confirmation is never recorded as pending" *)
(* (wallet.rs:152-153): over every address of the wallet and every move of the chain  *)
(* between two requests, what was once shown confirmed is not planned as unconfirmed. *)
ConfirmedWins ==
  at = "fetch" /\ fetch.step = "mempool" =>
    \A t \in fetch.shown : Pending(fetch.txs, Head(fetch.todo))[t] # Pool

(* A stale answer is a true statement about money: its figures were read, whole, of this *)
(* very set of addresses, at the instant it is dated, by this process or an earlier one   *)
(* (seen.rs rules 1 and 2), whatever became of the file or of the wallet since; one that  *)
(* the file has lost is unknown and never another's.                                      *)
StaleWasRead ==
  request.op = "balances" =>
    \A r \in request.batch :
      LET entry == request.answers[r]
      IN  entry # None /\ entry.outcome = "stale" =>
            \E f \in read :
              /\ f.resource = r /\ f.addresses = ToSet(wallets[r]) /\ f.asOf = entry.asOf
              /\ \A i \in {1, 2} : entry.figures[i] \in {None, f.figures[i]}

(* The degraded records the reply names, each under its resource. *)
Withheld ==
  UNION {{r} \X request.answers[r].degraded :
           r \in {q \in request.batch : request.answers[q] # None}}

(* A reply without provider evidence: every read in it happened, or was not tried. *)
NoEvidence ==
  /\ at = "reply" /\ ~request.failed
  /\ \A r \in request.batch : request.answers[r].outcome \in {"fetched", "not_fetched"}

(* A reply to history.read that carries no provider evidence fits one frame, however much *)
(* history the resources at the front of a batch have, unless its entries alone do not    *)
(* and nothing else is in it: an oversized frame is a connection killed (main.rs,         *)
(* Budget).  It fits but for the degraded records it names, which an entry is given after *)
(* it was charged (main.rs:683, 719) and no page counts (map.rs:705-709).                 *)
RepliesFit ==
  NoEvidence /\ request.op = "history" =>
    LET reported == ReportBytes * Cardinality(Withheld)
    IN  \/ request.bytes =< MaxFrame + reported
        \/ request.bytes = Cardinality(request.batch) * StatusBytes + reported

(* Every crawl a host follows ends: page after page it advances, with any batch, whatever *)
(* the provider does; a page that could afford nothing is followed by one that can.       *)
CrawlsEnd == \A r \in Resources : host[r].asking ~> ~host[r].asking

(* What the provider listed throughout a sync, confirmed or not, is in it: "one wallet's *)
(* whole current state" (wallet.rs:128), never a part of it.                             *)
SyncIsWhole ==
  at = "fetch" /\ fetch.step = "mempool" /\ Len(fetch.todo) = 1 =>
    \A t \in fetch.listed :
      Touches[t] \intersect ToSet(wallets[Query.resource]) # {}
        => Pending(fetch.txs, Head(fetch.todo))[t] # Absent
==============================================================================
