--------------------------- MODULE BalancesProofs ---------------------------
(* Theorems about Balances, for any adapters, resources, figures, processes
   and replies. *)
EXTENDS Balances, TLAPS, WellFoundedInduction

-----------------------------------------------------------------------------
(***************************************************************************)
(* Sequences.                                                               *)
(***************************************************************************)

(* What a reply appends to a table. *)
LEMMA Appended ==
  ASSUME NEW S, NEW s \in Seq(S), NEW t \in Seq(S)
  PROVE  /\ s \o t \in Seq(S)
         /\ Len(s \o t) = Len(s) + Len(t)
         /\ \A i \in 1..Len(s) : (s \o t)[i] = s[i]
         /\ \A i \in Len(s) + 1 .. Len(s \o t) :
              (s \o t)[i] = t[i - Len(s)] /\ i - Len(s) \in 1..Len(t)
OBVIOUS

(* A reply's lines, or its entries, are a sequence. *)
LEMMA BoundedSequence ==
  ASSUME NEW S, NEW n \in Nat, NEW s \in SeqsUpTo(S, n)
  PROVE  s \in Seq(S) /\ DOMAIN s = 1..Len(s) /\ Len(s) \in Nat
<1>1. PICK m \in 0..n : s \in [1..m -> S]
  BY DEF SeqsUpTo
<1> QED BY <1>1

(* Every stored row of a reply is well typed and carries the read and the
   provenance it was made from. *)
LEMMA RowType ==
  ASSUME NEW l \in WireLines, NEW statuses, NEW read \in Nat
  PROVE  /\ row_of(l, statuses, read) \in BalanceRows
         /\ row_of(l, statuses, read).read = read
         /\ row_of(l, statuses, read).says = l.says
         /\ row_of(l, statuses, read).resource = l.resource
<1>1. staleness_for(statuses, l.resource) \in {"Live", "Cached", "Unavailable"}
  <2>1. \A o : staleness_of(o) \in {"Live", "Cached", "Unavailable"}
    BY DEF staleness_of
  <2> QED BY <2>1 DEF staleness_for
<1> QED BY <1>1 DEF row_of, WireLines, BalanceRows

-----------------------------------------------------------------------------
(* A non-empty set of positions of a table has a last one, and Latest is it. *)
LEMMA LatestIsLast ==
  ASSUME NEW n \in Nat, NEW I \in SUBSET (1..n), I # {}
  PROVE  Latest(I) \in I /\ \A j \in I : j <= Latest(I)
<1> DEFINE T == {n - k : k \in I}
<1>1. T \subseteq Nat /\ T # {}
  <2>1. PICK k \in I : TRUE
    OBVIOUS
  <2>2. n - k \in T
    OBVIOUS
  <2> QED BY <2>2
<1>2. PICK t \in T : \A u \in T : ~ (<<u, t>> \in OpToRel(<, Nat))
  <2> HIDE DEF T
  <2> QED BY <1>1, NatLessThanWellFounded, WFMin
<1>3. PICK i \in I : t = n - i
  BY <1>2
<1>4. \A j \in I : j <= i
  <2> SUFFICES ASSUME NEW j \in I PROVE j <= i
    OBVIOUS
  <2>1. n - j \in T
    OBVIOUS
  <2>2. ~ (n - j < n - i)
    BY <2>1, <1>1, <1>2, <1>3 DEF OpToRel
  <2> QED BY <2>2
<1> QED BY <1>4 DEF Latest

-----------------------------------------------------------------------------
(***************************************************************************)
(* The inductive invariant.                                                 *)
(***************************************************************************)

(* No row is newer than the read that is current. *)
ReadsAreOpened ==
  \A a \in Adapters : \A i \in 1..Len(balance[a]) : balance[a][i].read <= balance_read[a]

(* One process at work, and only with the lock. *)
WorkerHoldsLock == \A h \in Hosts : host[h].at # "idle" => lock = h

(* What holds of a process at work: the adapters it refreshes are registered,
   no row is of the read it has opened, and the read it carries is the one
   that is current, on a connection that is the adapter's own, about resources
   the profile has rows of. *)
HostInv(h) ==
  /\ host[h].todo \subseteq registered
  /\ host[h].at \in {"registered", "spawning", "connected", "listing", "upserting",
                     "status", "reading", "sweeping"} => host[h].adapter \in registered
  /\ Unread(h) => \A i \in 1..Len(balance[host[h].adapter]) :
                     balance[host[h].adapter][i].read < balance_read[host[h].adapter]
  /\ host[h].at \in {"listing", "upserting", "status", "reading"} =>
       /\ host[h].read = balance_read[host[h].adapter]
       /\ host[h].announced = host[h].adapter
  /\ host[h].at \in {"upserting", "status", "reading"} =>
       \A r \in host[h].listed \ host[h].upserts : <<host[h].adapter, r>> \in resource
  /\ host[h].at \in {"status", "reading"} => host[h].upserts = {}

BalInv ==
  /\ ReadsAreOpened
  /\ WorkerHoldsLock
  /\ FiledUnderItsOwn
  /\ \A h \in Hosts : HostInv(h)

-----------------------------------------------------------------------------
(***************************************************************************)
(* Type correctness.                                                        *)
(***************************************************************************)

(* The initial state is well typed. *)
LEMMA InitType == Init => TypeOK
BY DEF Init, TypeOK, Idle, HostStates, Places

(* A process moves on without touching what it works on. *)
LEMMA Moves ==
  ASSUME TypeOK, NEW h \in Hosts, NEW place \in Places, Goto(h, place),
         place \notin {"idle", "next"} => host[h].adapter \in Adapters
  PROVE  /\ host' \in [Hosts -> HostStates]
         /\ \A k \in Hosts : host'[k].at \notin {"idle", "next"} =>
                                host'[k].adapter \in Adapters
<1>1. host \in [Hosts -> HostStates]
  BY DEF TypeOK
<1>2. [host[h] EXCEPT !.at = place] \in HostStates
  BY <1>1 DEF HostStates
<1> QED BY <1>1, <1>2 DEF TypeOK, Goto, HostStates

(* A process is given a new state. *)
LEMMA Becomes ==
  ASSUME TypeOK, NEW h \in Hosts, NEW s \in HostStates,
         host' = [host EXCEPT ![h] = s],
         s.at \notin {"idle", "next"} => s.adapter \in Adapters
  PROVE  /\ host' \in [Hosts -> HostStates]
         /\ \A k \in Hosts : host'[k].at \notin {"idle", "next"} =>
                                host'[k].adapter \in Adapters
BY DEF TypeOK

(* The idle state is a state. *)
LEMMA IdleType == Idle \in HostStates
BY DEF Idle, HostStates, Places

(* The steps of a connect, and those that begin or end a command. *)
LEMMA CommandType ==
  ASSUME TypeOK, NEW h \in Hosts,
         \/ BeginConnect(h) \/ upsert_adapter(h) \/ BeginRefresh(h)
         \/ End(h) \/ Crash(h)
  PROVE  TypeOK'
<1>1. CASE BeginConnect(h)
  <2>1. PICK a \in Adapters, listed \in SUBSET Resources :
          host' = [host EXCEPT ![h] = [Idle EXCEPT !.at = "connecting", !.adapter = a,
                                                   !.listed = listed, !.upserts = listed]]
    BY <1>1 DEF BeginConnect
  <2> DEFINE s == [Idle EXCEPT !.at = "connecting", !.adapter = a,
                               !.listed = listed, !.upserts = listed]
  <2>2. s \in HostStates /\ s.adapter \in Adapters
    BY DEF Idle, HostStates, Places
  <2> HIDE DEF s
  <2> QED BY <1>1, <2>1, <2>2, Becomes DEF s, TypeOK, BeginConnect, tables
<1>2. CASE upsert_adapter(h)
  <2>1. host[h].adapter \in Adapters
    BY <1>2 DEF TypeOK, upsert_adapter, At
  <2> QED BY <1>2, <2>1, Moves DEF TypeOK, upsert_adapter, Places
<1>3. CASE BeginRefresh(h)
  <2>1. PICK todo \in SUBSET Adapters :
          host' = [host EXCEPT ![h] = [Idle EXCEPT !.at = "next", !.todo = todo]]
    BY <1>3 DEF BeginRefresh, TypeOK
  <2> DEFINE s == [Idle EXCEPT !.at = "next", !.todo = todo]
  <2>2. s \in HostStates /\ s.at = "next"
    BY DEF Idle, HostStates, Places
  <2> HIDE DEF s
  <2> QED BY <1>3, <2>1, <2>2, Becomes DEF s, TypeOK, BeginRefresh, tables
<1>4. CASE Forget(h)
  <2>1. Idle.at = "idle"
    BY DEF Idle
  <2> QED BY <1>4, <2>1, IdleType, Becomes DEF TypeOK, Forget, tables
<1> QED BY <1>1, <1>2, <1>3, <1>4 DEF End, Crash

(* The steps of one adapter's refresh up to its balances. *)
LEMMA RefreshType ==
  ASSUME TypeOK, NEW h \in Hosts,
         \/ OpenRead(h) \/ SpawnFails(h) \/ Spawned(h) \/ EnterAdapter(h)
         \/ List(h) \/ upsert_resource(h) \/ Upserted(h) \/ StatusRead(h)
         \/ ReadFails(h) \/ AdapterFails(h) \/ Swept(h)
  PROVE  TypeOK'
<1>a. host[h] \in HostStates
  BY DEF TypeOK
<1>b. host[h].at \notin {"idle", "next"} => host[h].adapter \in Adapters
  BY DEF TypeOK
<1>1. CASE OpenRead(h)
  <2>1. PICK a \in Adapters :
          /\ balance_read' = [balance_read EXCEPT ![a] = @ + 1]
          /\ host' = [host EXCEPT ![h] = [Idle EXCEPT !.at = "spawning", !.adapter = a,
                                                      !.todo = host[h].todo \ {a}]]
    BY <1>1 DEF OpenRead
  <2> DEFINE s == [Idle EXCEPT !.at = "spawning", !.adapter = a,
                               !.todo = host[h].todo \ {a}]
  <2>2. s \in HostStates /\ s.adapter \in Adapters
    BY <1>a DEF Idle, HostStates, Places
  <2>3. balance_read' \in [Adapters -> Nat]
    BY <2>1 DEF TypeOK
  <2> HIDE DEF s
  <2> QED BY <1>1, <2>1, <2>2, <2>3, Becomes DEF s, TypeOK, OpenRead
<1>2. CASE EnterAdapter(h)
  <2>1. PICK announced \in Adapters :
          host' = [host EXCEPT ![h] =
            [host[h] EXCEPT !.read = balance_read[host[h].adapter] + 1,
                            !.announced = announced,
                            !.at = IF announced = host[h].adapter
                                   THEN "listing" ELSE "next"]]
    BY <1>2, <1>a DEF EnterAdapter
  <2> DEFINE s == [host[h] EXCEPT !.read = balance_read[host[h].adapter] + 1,
                                  !.announced = announced,
                                  !.at = IF announced = host[h].adapter
                                         THEN "listing" ELSE "next"]
  <2>2. host[h].adapter \in Adapters
    BY <1>2, <1>b DEF EnterAdapter, At
  <2>3. balance_read[host[h].adapter] + 1 \in Nat
    BY <2>2 DEF TypeOK
  <2>4. s \in HostStates /\ s.adapter \in Adapters
    BY <1>a, <2>2, <2>3 DEF HostStates, Places
  <2>5. balance_read' \in [Adapters -> Nat]
    BY <1>2, <2>2, <2>3 DEF TypeOK, EnterAdapter
  <2> HIDE DEF s
  <2> QED BY <1>2, <2>1, <2>4, <2>5, Becomes DEF s, TypeOK, EnterAdapter
<1>3. CASE List(h)
  <2>1. PICK listed \in SUBSET Resources :
          host' = [host EXCEPT ![h] = [host[h] EXCEPT !.listed = listed,
                                   !.upserts = listed, !.at = "upserting"]]
    BY <1>3, <1>a DEF List
  <2> DEFINE s == [host[h] EXCEPT !.listed = listed, !.upserts = listed,
                                  !.at = "upserting"]
  <2>2. s \in HostStates /\ s.adapter \in Adapters
    BY <1>3, <1>a, <1>b DEF List, At, HostStates, Places
  <2> HIDE DEF s
  <2> QED BY <1>3, <2>1, <2>2, Becomes DEF s, TypeOK, List, tables
<1>4. CASE upsert_resource(h)
  <2>1. host[h].adapter \in Adapters
    BY <1>4, <1>b DEF upsert_resource, At
  <2>2. PICK r \in Resources :
          /\ resource' = resource \cup {<<host[h].adapter, r>>}
          /\ host' = [host EXCEPT ![h] = [host[h] EXCEPT !.upserts = @ \ {r}]]
    BY <1>4, <1>a DEF upsert_resource, HostStates
  <2> DEFINE s == [host[h] EXCEPT !.upserts = @ \ {r}]
  <2>3. s \in HostStates /\ s.adapter \in Adapters
    BY <1>a, <2>1 DEF HostStates
  <2> HIDE DEF s
  <2>4. resource' \subseteq Adapters \X Resources
    BY <2>1, <2>2 DEF TypeOK
  <2>5. /\ host' \in [Hosts -> HostStates]
        /\ \A k \in Hosts : host'[k].at \notin {"idle", "next"} =>
                               host'[k].adapter \in Adapters
    BY <2>2, <2>3, Becomes DEF s
  <2> QED BY <1>4, <2>4, <2>5 DEF TypeOK, upsert_resource
<1>5. CASE StatusRead(h)
  <2>1. host[h].adapter \in Adapters
    BY <1>5, <1>b DEF StatusRead, At
  <2>2. reauth' \subseteq Adapters
    BY <1>5, <2>1 DEF StatusRead, TypeOK
  <2> QED BY <1>5, <2>1, <2>2, Moves DEF TypeOK, StatusRead, Places
<1>6. CASE SpawnFails(h) \/ AdapterFails(h) \/ Swept(h)
  BY <1>6, Moves DEF TypeOK, SpawnFails, AdapterFails, Swept, tables, Places
<1>7. CASE Spawned(h) \/ Upserted(h) \/ ReadFails(h)
  <2>1. host[h].adapter \in Adapters
    BY <1>7, <1>b DEF Spawned, Upserted, ReadFails, At
  <2> QED BY <1>7, <2>1, Moves DEF TypeOK, Spawned, Upserted, ReadFails, tables, Places
<1> QED BY <1>1, <1>2, <1>3, <1>4, <1>5, <1>6, <1>7

(* What a step that reads balances does, with the rows it appends. *)
LEMMA BalancesReadStep ==
  ASSUME TypeOK, NEW h \in Hosts, BalancesRead(h)
  PROVE  \E rows \in Seq(BalanceRows) :
           /\ \A i \in 1..Len(rows) :
                /\ rows[i].read = host[h].read
                /\ rows[i].says = host[h].announced
                /\ rows[i].resource \in host[h].listed
           /\ balance' = [balance EXCEPT ![host[h].adapter] = @ \o rows]
           /\ host[h].adapter \in Adapters
<1>1. PICK statuses \in SeqsUpTo(Entries, MaxEntries), lines \in SeqsUpTo(Lines, MaxLines) :
        /\ \A i \in DOMAIN lines : answers(host[h], lines[i])
        /\ balance' = [balance EXCEPT ![host[h].adapter] =
             @ \o [i \in DOMAIN lines |-> row_of(lines[i], statuses, host[h].read)]]
  BY DEF BalancesRead
<1> DEFINE rows == [i \in DOMAIN lines |-> row_of(lines[i], statuses, host[h].read)]
<1>2. lines \in Seq(Lines) /\ DOMAIN lines = 1..Len(lines) /\ Len(lines) \in Nat
  BY BoundedSequence, BalancesAssumption
<1>3. host[h].read \in Nat /\ host[h].adapter \in Adapters
  BY DEF TypeOK, BalancesRead, At, HostStates, Places
<1>4. \A i \in 1..Len(lines) : lines[i] \in WireLines
  BY <1>2, BalancesAssumption
<1>5. \A i \in 1..Len(lines) :
        /\ rows[i] \in BalanceRows
        /\ rows[i].read = host[h].read
        /\ rows[i].says = host[h].announced
        /\ rows[i].resource \in host[h].listed
  BY <1>1, <1>2, <1>3, <1>4, RowType DEF answers
<1>6. rows \in Seq(BalanceRows) /\ Len(rows) = Len(lines)
  BY <1>2, <1>5
<1> QED BY <1>1, <1>3, <1>5, <1>6

(* Reading balances. *)
LEMMA BalancesReadType ==
  ASSUME TypeOK, NEW h \in Hosts, BalancesRead(h) PROVE TypeOK'
<1>1. PICK rows \in Seq(BalanceRows) :
        /\ balance' = [balance EXCEPT ![host[h].adapter] = @ \o rows]
        /\ host[h].adapter \in Adapters
  BY BalancesReadStep
<1>2. balance[host[h].adapter] \o rows \in Seq(BalanceRows)
  BY <1>1, Appended DEF TypeOK
<1>3. balance' \in [Adapters -> Seq(BalanceRows)]
  BY <1>1, <1>2 DEF TypeOK
<1> QED BY <1>1, <1>3, Moves DEF TypeOK, BalancesRead, Places

(* Every step keeps the types. *)
LEMMA NextType == TypeOK /\ [Next]_vars => TypeOK'
<1> SUFFICES ASSUME TypeOK, [Next]_vars PROVE TypeOK'
  OBVIOUS
<1>1. CASE UNCHANGED vars
  BY <1>1 DEF TypeOK, vars
<1>2. ASSUME NEW h \in Hosts, BalancesRead(h) PROVE TypeOK'
  BY <1>2, BalancesReadType
<1> QED BY <1>1, <1>2, CommandType, RefreshType DEF Next

(* The tables of the profile and the processes at work on it are well typed,
   for any adapters, processes and replies: cmd_connect and refresh never store
   a line that is not one. *)
THEOREM TypeCorrect == Spec => []TypeOK
BY InitType, NextType, PTL DEF Spec

-----------------------------------------------------------------------------
(***************************************************************************)
(* The inductive invariant.                                                 *)
(***************************************************************************)

(* It holds of a new profile. *)
LEMMA InitBal == Init => BalInv
BY DEF Init, BalInv, ReadsAreOpened, WorkerHoldsLock, FiledUnderItsOwn, HostInv, Idle,
       Unread

(* A step of the process that has the lock, or takes it, and that stores no
   line: it is enough to look at that process. *)
LEMMA NothingStored ==
  ASSUME TypeOK, BalInv, NEW h \in Hosts, lock \in {h, None},
         NEW s, host' = [host EXCEPT ![h] = s],
         lock' = h \/ (lock' = None /\ s.at = "idle"),
         registered \subseteq registered', resource \subseteq resource',
         balance' = balance, balance_read' \in [Adapters -> Nat],
         \A a \in Adapters : balance_read[a] <= balance_read'[a],
         HostInv(h)'
  PROVE  BalInv'
<1>1. host \in [Hosts -> HostStates] /\ balance \in [Adapters -> Seq(BalanceRows)]
      /\ balance_read \in [Adapters -> Nat]
  BY DEF TypeOK
<1>2. \A k \in Hosts \ {h} : host[k].at = "idle" /\ host'[k] = host[k]
  BY <1>1, BalancesAssumption DEF BalInv, WorkerHoldsLock
<1>3. \A k \in Hosts \ {h} : HostInv(k)'
  BY <1>2 DEF BalInv, HostInv, Unread
<1>4. WorkerHoldsLock'
  BY <1>1, <1>2 DEF WorkerHoldsLock
<1>5. ReadsAreOpened'
  <2>1. \A a \in Adapters : \A i \in 1..Len(balance[a]) : balance[a][i].read \in Nat
    <3>1. \A a \in Adapters : \A i \in 1..Len(balance[a]) : balance[a][i] \in BalanceRows
      BY <1>1
    <3> QED BY <3>1 DEF BalanceRows
  <2> QED BY <1>1, <2>1 DEF BalInv, ReadsAreOpened
<1>6. FiledUnderItsOwn'
  BY DEF BalInv, FiledUnderItsOwn
<1> QED BY <1>3, <1>4, <1>5, <1>6 DEF BalInv

(* A process at work has the lock. *)
LEMMA AtWork ==
  ASSUME BalInv, NEW h \in Hosts, host[h].at # "idle" PROVE lock = h
BY DEF BalInv, WorkerHoldsLock

(* The steps of a connect, and those that begin or end a command. *)
LEMMA CommandBal ==
  ASSUME TypeOK, BalInv, NEW h \in Hosts,
         \/ BeginConnect(h) \/ upsert_adapter(h) \/ BeginRefresh(h)
         \/ End(h) \/ Crash(h)
  PROVE  BalInv'
<1>a. host \in [Hosts -> HostStates] /\ balance_read \in [Adapters -> Nat]
  BY DEF TypeOK
<1>b. HostInv(h)
  BY DEF BalInv
<1>1. CASE BeginConnect(h)
  <2>0. PICK a \in Adapters, listed \in SUBSET Resources :
          host' = [host EXCEPT ![h] = [Idle EXCEPT !.at = "connecting", !.adapter = a,
                                                   !.listed = listed, !.upserts = listed]]
    BY <1>1 DEF BeginConnect
  <2> DEFINE s == [Idle EXCEPT !.at = "connecting", !.adapter = a,
                               !.listed = listed, !.upserts = listed]
  <2>1. host' = [host EXCEPT ![h] = s] /\ s.at = "connecting" /\ s.todo = {}
    BY <2>0 DEF Idle
  <2> HIDE DEF s
  <2>2. HostInv(h)'
    BY <1>a, <2>1 DEF HostInv, Unread
  <2>3. /\ lock \in {h, None} /\ (lock' = h \/ (lock' = None /\ s.at = "idle"))
        /\ registered \subseteq registered' /\ resource \subseteq resource'
        /\ balance' = balance /\ balance_read' \in [Adapters -> Nat]
        /\ \A b \in Adapters : balance_read[b] <= balance_read'[b]
    <3>1. lock = None /\ lock' = h /\ UNCHANGED tables
      BY <1>1 DEF BeginConnect
    <3> QED BY <3>1, <1>a DEF tables
  <2> QED BY <2>1, <2>2, <2>3, NothingStored
<1>2. CASE upsert_adapter(h)
  <2> DEFINE s == [host[h] EXCEPT !.at = "registered"]
  <2>1. host' = [host EXCEPT ![h] = s]
    BY <1>2 DEF upsert_adapter, Goto
  <2>2. s.at = "registered" /\ s.todo = host[h].todo /\ s.adapter = host[h].adapter
    BY <1>a DEF HostStates
  <2> HIDE DEF s
  <2>3. HostInv(h)'
    BY <1>2, <1>a, <1>b, <2>1, <2>2 DEF HostInv, Unread, upsert_adapter
  <2>4. lock = h
    BY <1>2, AtWork DEF upsert_adapter, At
  <2>5. /\ lock \in {h, None} /\ (lock' = h \/ (lock' = None /\ s.at = "idle"))
        /\ registered \subseteq registered' /\ resource \subseteq resource'
        /\ balance' = balance /\ balance_read' \in [Adapters -> Nat]
        /\ \A b \in Adapters : balance_read[b] <= balance_read'[b]
    BY <1>2, <1>a, <2>4 DEF upsert_adapter
  <2> QED BY <2>1, <2>3, <2>5, NothingStored
<1>3. CASE BeginRefresh(h)
  <2>0. PICK todo \in SUBSET registered :
          host' = [host EXCEPT ![h] = [Idle EXCEPT !.at = "next", !.todo = todo]]
    BY <1>3 DEF BeginRefresh
  <2> DEFINE s == [Idle EXCEPT !.at = "next", !.todo = todo]
  <2>1. host' = [host EXCEPT ![h] = s] /\ s.at = "next" /\ s.todo \subseteq registered
    BY <2>0 DEF Idle
  <2> HIDE DEF s
  <2>2. HostInv(h)'
    BY <1>3, <1>a, <2>1 DEF HostInv, Unread, BeginRefresh, tables
  <2>3. /\ lock \in {h, None} /\ (lock' = h \/ (lock' = None /\ s.at = "idle"))
        /\ registered \subseteq registered' /\ resource \subseteq resource'
        /\ balance' = balance /\ balance_read' \in [Adapters -> Nat]
        /\ \A b \in Adapters : balance_read[b] <= balance_read'[b]
    <3>1. lock = None /\ lock' = h /\ UNCHANGED tables
      BY <1>3 DEF BeginRefresh
    <3> QED BY <3>1, <1>a DEF tables
  <2> QED BY <2>1, <2>2, <2>3, NothingStored
<1>4. CASE Forget(h) /\ ~ At(h, "idle")
  <2>1. Idle.at = "idle" /\ Idle.todo = {}
    BY DEF Idle
  <2>2. HostInv(h)'
    BY <1>4, <1>a, <2>1 DEF HostInv, Unread, Forget
  <2>3. lock = h
    BY <1>4, AtWork DEF At
  <2>4. /\ lock \in {h, None} /\ (lock' = h \/ (lock' = None /\ Idle.at = "idle"))
        /\ registered \subseteq registered' /\ resource \subseteq resource'
        /\ balance' = balance /\ balance_read' \in [Adapters -> Nat]
        /\ \A b \in Adapters : balance_read[b] <= balance_read'[b]
    BY <1>4, <1>a, <2>1, <2>3 DEF Forget, tables
  <2>5. host' = [host EXCEPT ![h] = Idle]
    BY <1>4 DEF Forget
  <2> QED BY <2>2, <2>4, <2>5, NothingStored
<1> QED BY <1>1, <1>2, <1>3, <1>4 DEF End, Crash, At

(* The steps of one adapter's refresh up to its balances. *)
LEMMA RefreshBal ==
  ASSUME TypeOK, BalInv, NEW h \in Hosts,
         \/ OpenRead(h) \/ SpawnFails(h) \/ Spawned(h) \/ EnterAdapter(h)
         \/ List(h) \/ upsert_resource(h) \/ Upserted(h) \/ StatusRead(h)
         \/ ReadFails(h) \/ AdapterFails(h) \/ Swept(h)
  PROVE  BalInv'
<1>a. /\ host \in [Hosts -> HostStates] /\ balance_read \in [Adapters -> Nat]
      /\ balance \in [Adapters -> Seq(BalanceRows)]
      /\ registered \subseteq Adapters
  BY DEF TypeOK
<1>b. HostInv(h)
  BY DEF BalInv
<1>c. lock = h
  BY AtWork DEF OpenRead, SpawnFails, Spawned, EnterAdapter, List, upsert_resource,
                Upserted, StatusRead, ReadFails, AdapterFails, Swept, At
<1>d. \A a \in Adapters : \A i \in 1..Len(balance[a]) : balance[a][i].read \in Nat
  <2>1. \A a \in Adapters : \A i \in 1..Len(balance[a]) : balance[a][i] \in BalanceRows
    BY <1>a
  <2> QED BY <2>1 DEF BalanceRows
<1>e. \A a \in Adapters : balance_read[a] <= balance_read[a]
  BY <1>a
<1>1. CASE OpenRead(h)
  <2>1. PICK a \in Adapters :
          /\ a \in host[h].todo
          /\ balance_read' = [balance_read EXCEPT ![a] = @ + 1]
          /\ host' = [host EXCEPT ![h] = [Idle EXCEPT !.at = "spawning", !.adapter = a,
                                                      !.todo = host[h].todo \ {a}]]
    BY <1>1 DEF OpenRead, IsFirst
  <2> DEFINE s == [Idle EXCEPT !.at = "spawning", !.adapter = a,
                               !.todo = host[h].todo \ {a}]
  <2>2. /\ host' = [host EXCEPT ![h] = s] /\ s.at = "spawning" /\ s.adapter = a
        /\ s.todo = host[h].todo \ {a}
    BY <2>1 DEF Idle
  <2> HIDE DEF s
  <2>3. UNCHANGED <<registered, resource, balance, lock>>
    BY <1>1 DEF OpenRead
  <2>4. balance_read' \in [Adapters -> Nat] /\ balance_read'[a] = balance_read[a] + 1
        /\ \A b \in Adapters : balance_read[b] <= balance_read'[b]
    BY <2>1, <1>a
  <2>5. \A i \in 1..Len(balance[a]) : balance[a][i].read < balance_read'[a]
    BY <2>4, <1>a, <1>d DEF BalInv, ReadsAreOpened
  <2>6. HostInv(h)'
    BY <1>a, <1>b, <2>1, <2>2, <2>3, <2>5 DEF HostInv, Unread
  <2> QED BY <1>c, <2>2, <2>3, <2>4, <2>6, NothingStored
<1>2. CASE EnterAdapter(h)
  <2>1. PICK announced \in Adapters :
          host' = [host EXCEPT ![h] =
            [host[h] EXCEPT !.read = balance_read[host[h].adapter] + 1,
                            !.announced = announced,
                            !.at = IF announced = host[h].adapter
                                   THEN "listing" ELSE "next"]]
    BY <1>2, <1>a DEF EnterAdapter
  <2> DEFINE s == [host[h] EXCEPT !.read = balance_read[host[h].adapter] + 1,
                                  !.announced = announced,
                                  !.at = IF announced = host[h].adapter
                                         THEN "listing" ELSE "next"]
  <2>2. /\ host' = [host EXCEPT ![h] = s] /\ s.adapter = host[h].adapter
        /\ s.at \in {"listing", "next"} /\ (s.at = "listing" => announced = s.adapter)
        /\ s.todo = host[h].todo /\ s.announced = announced
        /\ s.read = balance_read[host[h].adapter] + 1
    BY <2>1, <1>a DEF HostStates
  <2> HIDE DEF s
  <2>3. host[h].at = "connected" /\ UNCHANGED <<registered, resource, balance, lock>>
        /\ balance_read' = [balance_read EXCEPT ![host[h].adapter] = @ + 1]
    BY <1>2 DEF EnterAdapter, At
  <2>4. host[h].adapter \in registered /\ host[h].adapter \in Adapters
    BY <1>a, <1>b, <2>3 DEF HostInv
  <2>5. balance_read' \in [Adapters -> Nat]
        /\ balance_read'[host[h].adapter] = balance_read[host[h].adapter] + 1
        /\ \A b \in Adapters : balance_read[b] <= balance_read'[b]
    BY <2>3, <2>4, <1>a
  <2>6. \A i \in 1..Len(balance[host[h].adapter]) :
          balance[host[h].adapter][i].read < balance_read'[host[h].adapter]
    BY <2>4, <2>5, <1>a, <1>d DEF BalInv, ReadsAreOpened
  <2>7. HostInv(h)'
    BY <1>a, <1>b, <2>2, <2>3, <2>4, <2>5, <2>6 DEF HostInv, Unread
  <2> QED BY <1>c, <2>2, <2>3, <2>5, <2>7, NothingStored
<1>3. ASSUME NEW listed \in SUBSET Resources, At(h, "listing"), UNCHANGED <<tables, lock>>,
             host' = [host EXCEPT ![h] = [host[h] EXCEPT !.listed = listed,
                                      !.upserts = listed, !.at = "upserting"]]
      PROVE  BalInv'
  <2> DEFINE s == [host[h] EXCEPT !.listed = listed, !.upserts = listed,
                                  !.at = "upserting"]
  <2>1. /\ host' = [host EXCEPT ![h] = s] /\ s.at = "upserting"
        /\ s.adapter = host[h].adapter /\ s.todo = host[h].todo
        /\ s.read = host[h].read /\ s.announced = host[h].announced
        /\ s.listed = listed /\ s.upserts = listed
    BY <1>3, <1>a DEF HostStates
  <2> HIDE DEF s
  <2>2. UNCHANGED <<registered, balance_read, resource, balance, lock>>
    BY <1>3 DEF tables
  <2>3. HostInv(h)'
    BY <1>3, <1>a, <1>b, <2>1, <2>2 DEF HostInv, Unread, At
  <2> QED BY <1>a, <1>c, <1>e, <2>1, <2>2, <2>3, NothingStored
<1>4. CASE upsert_resource(h)
  <2>1. PICK r \in host[h].upserts :
          /\ resource' = resource \cup {<<host[h].adapter, r>>}
          /\ host' = [host EXCEPT ![h] = [host[h] EXCEPT !.upserts = @ \ {r}]]
    BY <1>4, <1>a DEF upsert_resource
  <2> DEFINE s == [host[h] EXCEPT !.upserts = @ \ {r}]
  <2>2. /\ host' = [host EXCEPT ![h] = s] /\ s.at = host[h].at
        /\ s.adapter = host[h].adapter /\ s.todo = host[h].todo
        /\ s.read = host[h].read /\ s.announced = host[h].announced
        /\ s.listed = host[h].listed /\ s.upserts = host[h].upserts \ {r}
    BY <2>1, <1>a DEF HostStates
  <2> HIDE DEF s
  <2>3. UNCHANGED <<registered, balance_read, balance, lock>>
    BY <1>4 DEF upsert_resource
  <2>4. HostInv(h)'
    BY <1>a, <1>b, <2>1, <2>2, <2>3 DEF HostInv, Unread
  <2> QED BY <1>a, <1>c, <1>e, <2>1, <2>2, <2>3, <2>4, NothingStored
<1>5. ASSUME NEW place \in Places, Goto(h, place),
             UNCHANGED <<registered, balance_read, resource, balance, lock>>,
             \/ place = "next"
             \/ At(h, "spawning") /\ place = "connected"
             \/ At(h, "upserting") /\ host[h].upserts = {} /\ place = "status"
             \/ At(h, "status") /\ place = "reading"
             \/ At(h, "reading") /\ place = "sweeping"
      PROVE  BalInv'
  <2> DEFINE s == [host[h] EXCEPT !.at = place]
  <2>1. /\ host' = [host EXCEPT ![h] = s] /\ s.at = place
        /\ s.adapter = host[h].adapter /\ s.todo = host[h].todo
        /\ s.read = host[h].read /\ s.announced = host[h].announced
        /\ s.listed = host[h].listed /\ s.upserts = host[h].upserts
    BY <1>5, <1>a DEF Goto, HostStates
  <2> HIDE DEF s
  <2>2. HostInv(h)'
    BY <1>5, <1>a, <1>b, <2>1 DEF HostInv, Unread, At
  <2> QED BY <1>5, <1>a, <1>c, <1>e, <2>1, <2>2, NothingStored
<1>6. CASE List(h)
  BY <1>3, <1>6, <1>a DEF List
<1>7. CASE SpawnFails(h) \/ Spawned(h) \/ Upserted(h)
  BY <1>5, <1>7 DEF SpawnFails, Spawned, Upserted, tables, Places
<1>8. CASE ReadFails(h) \/ AdapterFails(h) \/ Swept(h)
  BY <1>5, <1>8 DEF ReadFails, AdapterFails, Swept, tables, Places
<1>9. CASE StatusRead(h)
  <2>1. /\ At(h, "status") /\ Goto(h, "reading")
        /\ UNCHANGED <<registered, balance_read, resource, balance, lock>>
    BY <1>9 DEF StatusRead
  <2> QED BY <1>5, <2>1 DEF Places
<1> QED BY <1>1, <1>2, <1>4, <1>6, <1>7, <1>8, <1>9

(* Reading balances: each row of the reply is of the read that is current, of
   the adapter that owns the connection, about a resource that was listed and
   has a row. *)
LEMMA BalancesReadBal ==
  ASSUME TypeOK, BalInv, NEW h \in Hosts, BalancesRead(h) PROVE BalInv'
<1> DEFINE a == host[h].adapter
<1>a. /\ host \in [Hosts -> HostStates] /\ balance_read \in [Adapters -> Nat]
      /\ balance \in [Adapters -> Seq(BalanceRows)]
  BY DEF TypeOK
<1>1. PICK rows \in Seq(BalanceRows) :
        /\ \A i \in 1..Len(rows) :
             /\ rows[i].read = host[h].read
             /\ rows[i].says = host[h].announced
             /\ rows[i].resource \in host[h].listed
        /\ balance' = [balance EXCEPT ![a] = @ \o rows]
        /\ a \in Adapters
  BY BalancesReadStep
<1>2. /\ host[h].at = "reading" /\ lock = h
      /\ host' = [host EXCEPT ![h] = [host[h] EXCEPT !.at = "sweeping"]]
      /\ UNCHANGED <<registered, balance_read, resource, lock>>
  BY AtWork DEF BalancesRead, At, Goto
<1>3. /\ host[h].todo \subseteq registered /\ a \in registered
      /\ host[h].read = balance_read[a] /\ host[h].announced = a
      /\ \A r \in host[h].listed : <<a, r>> \in resource
  BY <1>2 DEF BalInv, HostInv
<1>4. /\ balance[a] \in Seq(BalanceRows) /\ balance'[a] = balance[a] \o rows
      /\ \A b \in Adapters \ {a} : balance'[b] = balance[b]
      /\ balance' \in [Adapters -> Seq(BalanceRows)]
  <2>1. balance[a] \o rows \in Seq(BalanceRows)
    BY <1>a, <1>1, Appended
  <2> QED BY <1>a, <1>1, <2>1
<1> HIDE DEF a
<1>5. /\ Len(balance'[a]) = Len(balance[a]) + Len(rows)
      /\ \A i \in 1..Len(balance[a]) : balance'[a][i] = balance[a][i]
      /\ \A i \in Len(balance[a]) + 1 .. Len(balance'[a]) :
           balance'[a][i] = rows[i - Len(balance[a])] /\ i - Len(balance[a]) \in 1..Len(rows)
  BY <1>1, <1>4, Appended
<1>6. /\ Len(balance[a]) \in Nat
      /\ \A i \in 1..Len(balance'[a]) :
           \/ i \in 1..Len(balance[a]) /\ balance'[a][i] = balance[a][i]
           \/ \E j \in 1..Len(rows) : balance'[a][i] = rows[j]
  <2>1. Len(balance[a]) \in Nat /\ Len(rows) \in Nat
    BY <1>1, <1>4
  <2>2. ASSUME NEW i \in 1..Len(balance'[a])
        PROVE  \/ i \in 1..Len(balance[a])
               \/ i \in Len(balance[a]) + 1 .. Len(balance'[a])
    BY <1>5, <2>1
  <2> QED BY <1>5, <2>1, <2>2
<1>7. ReadsAreOpened'
  <2>1. \A i \in 1..Len(balance'[a]) : balance'[a][i].read <= balance_read[a]
    <3>1. \A i \in 1..Len(balance[a]) : balance[a][i].read <= balance_read[a]
      BY <1>1 DEF BalInv, ReadsAreOpened
    <3>2. \A j \in 1..Len(rows) : rows[j].read <= balance_read[a]
      BY <1>a, <1>1, <1>3
    <3> QED BY <1>6, <3>1, <3>2
  <2> QED BY <1>2, <1>4, <2>1 DEF BalInv, ReadsAreOpened
<1>8. FiledUnderItsOwn'
  <2>1. \A i \in 1..Len(balance'[a]) :
          balance'[a][i].says = a /\ <<a, balance'[a][i].resource>> \in resource
    <3>1. \A i \in 1..Len(balance[a]) :
            balance[a][i].says = a /\ <<a, balance[a][i].resource>> \in resource
      BY <1>1, <1>4 DEF BalInv, FiledUnderItsOwn
    <3>2. \A j \in 1..Len(rows) :
            rows[j].says = a /\ <<a, rows[j].resource>> \in resource
      BY <1>1, <1>3
    <3> QED BY <1>6, <3>1, <3>2
  <2>2. DOMAIN balance'[a] = 1..Len(balance'[a])
    BY <1>1, <1>4
  <2>3. \A b \in Adapters \ {a} : \A i \in DOMAIN balance'[b] :
          /\ balance'[b][i].says = b /\ <<b, balance'[b][i].resource>> \in resource
          /\ b \in registered
    BY <1>4 DEF BalInv, FiledUnderItsOwn
  <2> QED BY <1>2, <1>3, <2>1, <2>2, <2>3 DEF FiledUnderItsOwn
<1>9. \A k \in Hosts \ {h} : host[k].at = "idle" /\ host'[k] = host[k]
  BY <1>a, <1>2 DEF BalInv, WorkerHoldsLock
<1>10. /\ host'[h].at = "sweeping" /\ host'[h].todo = host[h].todo
       /\ host'[h].adapter = a
  BY <1>a, <1>2 DEF a, HostStates
<1>11. WorkerHoldsLock'
  BY <1>2, <1>9 DEF WorkerHoldsLock
<1>12. \A k \in Hosts : HostInv(k)'
  BY <1>2, <1>3, <1>9, <1>10 DEF BalInv, HostInv, Unread
<1> QED BY <1>7, <1>8, <1>11, <1>12 DEF BalInv

(* Every step keeps the invariant. *)
LEMMA NextBal == TypeOK /\ BalInv /\ [Next]_vars => BalInv'
<1> SUFFICES ASSUME TypeOK, BalInv, [Next]_vars PROVE BalInv'
  OBVIOUS
<1>1. CASE UNCHANGED vars
  BY <1>1 DEF vars, BalInv, ReadsAreOpened, WorkerHoldsLock, FiledUnderItsOwn, HostInv,
              Unread
<1>2. ASSUME NEW h \in Hosts, BalancesRead(h) PROVE BalInv'
  BY <1>2, BalancesReadBal
<1> QED BY <1>1, <1>2, CommandBal, RefreshBal DEF Next

-----------------------------------------------------------------------------
(***************************************************************************)
(* What the profile promises of its figures.                                *)
(***************************************************************************)

(* A line that is current stands on a row of the read that is. *)
LEMMA CurrentIsOfTheRead ==
  ASSUME TypeOK, NEW a \in Adapters, NEW r, NEW c, Current(a, r, c)
  PROVE  \E i \in 1..Len(balance[a]) : balance[a][i].read = balance_read[a]
<1> DEFINE I == LineRows(a, r, c)
<1>1. balance[a] \in Seq(BalanceRows)
  BY DEF TypeOK
<1>2. Len(balance[a]) \in Nat /\ I \subseteq 1..Len(balance[a])
  BY <1>1 DEF LineRows
<1>3. I # {}
  BY DEF Current, Shown, balance_line
<1>4. Latest(I) \in I
  BY <1>2, <1>3, LatestIsLast
<1>5. from_latest_read(a, balance[a][Latest(I)])
  <2> HIDE DEF I
  <2>1. ~ from_latest_read(a, balance[a][Latest(I)]) =>
          balance_line(a, r, c).shows \in {"unavailable", "stale"}
    BY <1>3 DEF balance_line, I
  <2> QED BY <2>1 DEF Current, Shown
<1> QED BY <1>2, <1>4, <1>5 DEF from_latest_read

(* From the moment a refresh sets out to reach an adapter until it has read the
   balances no line of the adapter is current, whatever ends the refresh:
   open_balance_read comes before everything that can fail. *)
THEOREM UnreadNeverLive == Spec => []UnreadIsNotLive
<1>1. TypeOK /\ BalInv => UnreadIsNotLive
  <2> SUFFICES ASSUME TypeOK, BalInv, NEW h \in Hosts, Unread(h),
                      NEW r \in Resources, NEW c \in Categories,
                      Current(host[h].adapter, r, c)
               PROVE  FALSE
    BY DEF UnreadIsNotLive
  <2>1. host[h].adapter \in Adapters
    BY DEF TypeOK, Unread
  <2>2. \A i \in 1..Len(balance[host[h].adapter]) :
          balance[host[h].adapter][i].read < balance_read[host[h].adapter]
    BY DEF BalInv, HostInv
  <2>3. PICK i \in 1..Len(balance[host[h].adapter]) :
          balance[host[h].adapter][i].read = balance_read[host[h].adapter]
    BY <2>1, CurrentIsOfTheRead
  <2>4. balance_read[host[h].adapter] \in Nat
    BY <2>1 DEF TypeOK
  <2> QED BY <2>2, <2>3, <2>4
<1> QED BY <1>1, InitType, NextType, InitBal, NextBal, PTL DEF Spec

(* No figure is filed under an adapter that did not report it or for a resource
   without a row: refresh_adapter's check of the hello, and balances_read's of
   what a line says it is about, together. *)
THEOREM FiledUnderTheirOwn == Spec => []FiledUnderItsOwn
<1>1. BalInv => FiledUnderItsOwn
  BY DEF BalInv
<1> QED BY <1>1, InitType, NextType, InitBal, NextBal, PTL DEF Spec

-----------------------------------------------------------------------------
(***************************************************************************)
(* What becomes of a line.                                                  *)
(***************************************************************************)

(* balance_line, of a table and the read that is current: what it reads of the
   state is no more than that. *)
RowsOf(rows, r, c) == {i \in DOMAIN rows : rows[i].resource = r /\ rows[i].category = c}

Figures(rows, r, c) == {i \in RowsOf(rows, r, c) : rows[i].amount # None}

StandsOn(row, read) == row.read = read /\ row.staleness = "Live"

LineOf(rows, read, r, c) ==
  IF RowsOf(rows, r, c) = {} THEN [shows |-> "nothing", amount |-> None]
  ELSE LET row == rows[Latest(RowsOf(rows, r, c))]
       IN  IF StandsOn(row, read)
           THEN [shows |-> IF row.amount = None THEN "unknown" ELSE "live",
                 amount |-> row.amount]
           ELSE IF Figures(rows, r, c) = {} THEN [shows |-> "unavailable", amount |-> None]
           ELSE [shows |-> "stale", amount |-> rows[Latest(Figures(rows, r, c))].amount]

IsCurrent(line) == line.shows \in {"live", "unknown"}

(* The line of a resource and category is one of the table and the read. *)
LEMMA LineIsOf ==
  ASSUME NEW a, NEW r, NEW c
  PROVE  /\ balance_line(a, r, c) = LineOf(balance[a], balance_read[a], r, c)
         /\ balance_line(a, r, c)' = LineOf(balance'[a], balance_read'[a], r, c)
<1>1. balance_line(a, r, c) = LineOf(balance[a], balance_read[a], r, c)
  BY DEF balance_line, LineRows, from_latest_read, LineOf, RowsOf, Figures, StandsOn
<1>2. balance_line(a, r, c)' = LineOf(balance'[a], balance_read'[a], r, c)
  BY DEF balance_line, LineRows, from_latest_read, LineOf, RowsOf, Figures, StandsOn
<1> QED BY <1>1, <1>2

(* The positions of a line, and of its figures, are positions of the table. *)
LEMMA Positions ==
  ASSUME NEW rows \in Seq(BalanceRows), NEW r, NEW c
  PROVE  /\ Len(rows) \in Nat /\ DOMAIN rows = 1..Len(rows)
         /\ RowsOf(rows, r, c) \in SUBSET (1..Len(rows))
         /\ Figures(rows, r, c) \in SUBSET (1..Len(rows))
         /\ Figures(rows, r, c) \subseteq RowsOf(rows, r, c)
BY DEF RowsOf, Figures

(* The last position that has a figure is the last of all when that one has. *)
LEMMA LastFigure ==
  ASSUME NEW rows \in Seq(BalanceRows), NEW r, NEW c,
         RowsOf(rows, r, c) # {}, rows[Latest(RowsOf(rows, r, c))].amount # None
  PROVE  Figures(rows, r, c) # {}
         /\ Latest(Figures(rows, r, c)) = Latest(RowsOf(rows, r, c))
<1> DEFINE I == RowsOf(rows, r, c)
           F == Figures(rows, r, c)
<1>1. /\ Len(rows) \in Nat /\ I \in SUBSET (1..Len(rows)) /\ F \in SUBSET (1..Len(rows))
      /\ F \subseteq I
  BY Positions
<1>2. Latest(I) \in F
  <2>1. Latest(I) \in I
    BY <1>1, LatestIsLast
  <2> QED BY <2>1 DEF Figures
<1> HIDE DEF I, F
<1>3. Latest(I) \in I /\ \A j \in I : j <= Latest(I)
  BY <1>1, <1>2, LatestIsLast
<1>4. Latest(F) \in F /\ \A j \in F : j <= Latest(F)
  BY <1>1, <1>2, LatestIsLast
<1>5. Latest(I) <= Latest(F) /\ Latest(F) <= Latest(I)
  BY <1>1, <1>2, <1>3, <1>4
<1>6. Latest(I) \in 1..Len(rows) /\ Latest(F) \in 1..Len(rows)
  BY <1>1, <1>3, <1>4
<1> QED BY <1>2, <1>5, <1>6 DEF I, F

(* What a line shows: the last figure there is, unless the row it stands on is
   current and has none. *)
LEMMA LineShows ==
  ASSUME NEW rows \in Seq(BalanceRows), NEW read, NEW r, NEW c
  PROVE  /\ IsCurrent(LineOf(rows, read, r, c)) <=>
              /\ RowsOf(rows, r, c) # {}
              /\ StandsOn(rows[Latest(RowsOf(rows, r, c))], read)
         /\ LineOf(rows, read, r, c).amount # None =>
              /\ Figures(rows, r, c) # {}
              /\ LineOf(rows, read, r, c).amount = rows[Latest(Figures(rows, r, c))].amount
         /\ Figures(rows, r, c) # {} /\ ~ IsCurrent(LineOf(rows, read, r, c)) =>
              LineOf(rows, read, r, c).amount = rows[Latest(Figures(rows, r, c))].amount
         /\ LineOf(rows, read, r, c).shows = "unavailable" => Figures(rows, r, c) = {}
<1> DEFINE I == RowsOf(rows, r, c)
           F == Figures(rows, r, c)
           row == rows[Latest(I)]
           line == LineOf(rows, read, r, c)
<1>1. F \subseteq I
  BY Positions
<1>2. I # {} /\ row.amount # None => F # {} /\ rows[Latest(F)] = row
  BY LastFigure
<1>3. CASE I = {}
  <2>1. line = [shows |-> "nothing", amount |-> None]
    BY <1>3 DEF LineOf
  <2>2. line.shows = "nothing" /\ line.amount = None
    BY <2>1
  <2> QED BY <1>1, <1>3, <2>2 DEF IsCurrent
<1>4. CASE I # {} /\ StandsOn(row, read)
  <2>1. line = [shows |-> IF row.amount = None THEN "unknown" ELSE "live",
                amount |-> row.amount]
    BY <1>4 DEF LineOf
  <2>2. line.shows \in {"live", "unknown"} /\ line.amount = row.amount
    BY <2>1
  <2> QED BY <1>2, <1>4, <2>2 DEF IsCurrent
<1>5. CASE I # {} /\ ~ StandsOn(row, read) /\ F = {}
  <2>1. line = [shows |-> "unavailable", amount |-> None]
    BY <1>5 DEF LineOf
  <2>2. line.shows = "unavailable" /\ line.amount = None
    BY <2>1
  <2> QED BY <1>5, <2>2 DEF IsCurrent
<1>6. CASE I # {} /\ ~ StandsOn(row, read) /\ F # {}
  <2>1. line = [shows |-> "stale", amount |-> rows[Latest(F)].amount]
    BY <1>6 DEF LineOf
  <2>2. line.shows = "stale" /\ line.amount = rows[Latest(F)].amount
    BY <2>1
  <2> QED BY <1>6, <2>2 DEF IsCurrent
<1> QED BY <1>3, <1>4, <1>5, <1>6

(* Another read is opened: no line is current, and each shows the figure it
   showed. *)
LEMMA Reopened ==
  ASSUME NEW rows \in Seq(BalanceRows), NEW read, NEW opened, NEW r, NEW c,
         \A i \in 1..Len(rows) : rows[i].read # opened
  PROVE  /\ ~ IsCurrent(LineOf(rows, opened, r, c))
         /\ LineOf(rows, read, r, c).amount # None =>
              LineOf(rows, opened, r, c).amount = LineOf(rows, read, r, c).amount
<1>1. ~ IsCurrent(LineOf(rows, opened, r, c))
  <2>1. RowsOf(rows, r, c) # {} => Latest(RowsOf(rows, r, c)) \in 1..Len(rows)
    BY Positions, LatestIsLast
  <2> QED BY <2>1, LineShows DEF StandsOn
<1> QED BY <1>1, LineShows

(* A line of a table, and of what it becomes: as it was unless it was added to,
   and not unavailable when it had a figure. *)
Carried(rows, all, read, r, c) ==
  /\ \/ \E i \in Len(rows) + 1 .. Len(all) : all[i].resource = r /\ all[i].category = c
     \/ LineOf(all, read, r, c) = LineOf(rows, read, r, c)
  /\ LineOf(rows, read, r, c).amount # None => LineOf(all, read, r, c).shows # "unavailable"

(* A reply is stored: a line it does not carry is as it was, and one it carries
   is not unavailable when it had a figure. *)
LEMMA Extended ==
  ASSUME NEW rows \in Seq(BalanceRows), NEW new \in Seq(BalanceRows),
         NEW read, NEW r, NEW c
  PROVE  Carried(rows, rows \o new, read, r, c)
<1> DEFINE all == rows \o new
<1>1. /\ all \in Seq(BalanceRows) /\ Len(all) = Len(rows) + Len(new)
      /\ Len(rows) \in Nat /\ Len(new) \in Nat
      /\ DOMAIN all = 1..Len(all) /\ DOMAIN rows = 1..Len(rows)
      /\ \A i \in 1..Len(rows) : all[i] = rows[i]
  BY Appended
<1> HIDE DEF all
<1>2. 1..Len(rows) \subseteq 1..Len(all)
  BY <1>1
<1>3. RowsOf(rows, r, c) \subseteq RowsOf(all, r, c)
  BY <1>1, <1>2 DEF RowsOf
<1>4. Figures(rows, r, c) \subseteq Figures(all, r, c)
  BY <1>1, <1>3, Positions DEF Figures
<1>5. LineOf(rows, read, r, c).amount # None =>
        LineOf(all, read, r, c).shows # "unavailable"
  <2>1. LineOf(rows, read, r, c).amount # None => Figures(rows, r, c) # {}
    BY LineShows
  <2>2. LineOf(all, read, r, c).shows = "unavailable" => Figures(all, r, c) = {}
    BY <1>1, LineShows
  <2> QED BY <1>4, <2>1, <2>2
<1>6. ASSUME ~ \E i \in Len(rows) + 1 .. Len(all) :
                 all[i].resource = r /\ all[i].category = c
      PROVE  LineOf(all, read, r, c) = LineOf(rows, read, r, c)
  <2>1. \A i \in 1..Len(all) : i \in 1..Len(rows) \/ i \in Len(rows) + 1 .. Len(all)
    BY <1>1
  <2>2. RowsOf(all, r, c) = RowsOf(rows, r, c)
    BY <1>1, <1>3, <1>6, <2>1 DEF RowsOf
  <2>3. Figures(all, r, c) = Figures(rows, r, c)
    BY <1>1, <2>2, Positions DEF Figures
  <2>4. /\ RowsOf(rows, r, c) # {} =>
             all[Latest(RowsOf(rows, r, c))] = rows[Latest(RowsOf(rows, r, c))]
        /\ Figures(rows, r, c) # {} =>
             all[Latest(Figures(rows, r, c))] = rows[Latest(Figures(rows, r, c))]
    BY <1>1, Positions, LatestIsLast
  <2> QED BY <2>2, <2>3, <2>4 DEF LineOf
<1> QED BY <1>5, <1>6 DEF all, Carried

(* What a step does to the table and the read of an adapter: nothing, or it
   opens a read that no row is of, or it stores a reply. *)
Opens(a) == /\ balance'[a] = balance[a] /\ balance_read'[a] > balance_read[a]
            /\ \A i \in 1..Len(balance[a]) : balance[a][i].read # balance_read'[a]

Stores(a) == /\ balance_read'[a] = balance_read[a]
             /\ \E new \in Seq(BalanceRows) : balance'[a] = balance[a] \o new

Leaves(a) == balance'[a] = balance[a] /\ balance_read'[a] = balance_read[a]

(* The next read of an adapter is one no row is of. *)
LEMMA NextIsUnread ==
  ASSUME TypeOK, BalInv, NEW b \in Adapters, NEW a \in Adapters, balance' = balance,
         balance_read' = [balance_read EXCEPT ![b] = @ + 1]
  PROVE  Opens(a) \/ Leaves(a)
<1>1. /\ balance[a] \in Seq(BalanceRows) /\ balance_read \in [Adapters -> Nat]
      /\ balance_read[a] \in Nat
  BY DEF TypeOK
<1>2. \A i \in 1..Len(balance[a]) :
        balance[a][i].read \in Nat /\ balance[a][i].read <= balance_read[a]
  <2>1. \A i \in 1..Len(balance[a]) : balance[a][i] \in BalanceRows
    BY <1>1
  <2> QED BY <2>1 DEF BalanceRows, BalInv, ReadsAreOpened
<1>3. CASE a = b
  <2>1. balance_read'[a] = balance_read[a] + 1
    BY <1>1, <1>3
  <2> QED BY <1>1, <1>2, <2>1 DEF Opens
<1>4. CASE a # b
  BY <1>1, <1>4 DEF Leaves
<1> QED BY <1>3, <1>4

(* Every step is of one of these kinds, for every adapter. *)
LEMMA Kinds ==
  ASSUME TypeOK, BalInv, [Next]_vars, NEW a \in Adapters
  PROVE  Opens(a) \/ Stores(a) \/ Leaves(a)
<1>1. ASSUME UNCHANGED <<balance, balance_read>> PROVE Leaves(a)
  BY <1>1 DEF Leaves
<1>2. CASE UNCHANGED vars
  BY <1>1, <1>2 DEF vars
<1>3. ASSUME NEW h \in Hosts, OpenRead(h) PROVE Opens(a) \/ Leaves(a)
  BY <1>3, NextIsUnread DEF OpenRead
<1>4. ASSUME NEW h \in Hosts, EnterAdapter(h) PROVE Opens(a) \/ Leaves(a)
  <2>1. host[h].adapter \in Adapters
    BY <1>4 DEF TypeOK, EnterAdapter, At
  <2> QED BY <1>4, <2>1, NextIsUnread DEF EnterAdapter
<1>5. ASSUME NEW h \in Hosts, BalancesRead(h) PROVE Stores(a) \/ Leaves(a)
  <2>1. PICK new \in Seq(BalanceRows) :
          balance' = [balance EXCEPT ![host[h].adapter] = @ \o new]
    BY <1>5, BalancesReadStep
  <2>2. UNCHANGED balance_read /\ balance \in [Adapters -> Seq(BalanceRows)]
    BY <1>5 DEF BalancesRead, TypeOK
  <2>3. CASE a = host[h].adapter
    BY <2>1, <2>2, <2>3 DEF Stores
  <2>4. CASE a # host[h].adapter
    BY <2>1, <2>2, <2>4 DEF Leaves
  <2> QED BY <2>3, <2>4
<1>6. ASSUME NEW h \in Hosts,
             \/ BeginConnect(h) \/ upsert_adapter(h) \/ upsert_resource(h)
             \/ BeginRefresh(h) \/ SpawnFails(h) \/ Spawned(h) \/ List(h)
             \/ Upserted(h) \/ StatusRead(h) \/ ReadFails(h) \/ AdapterFails(h)
             \/ Swept(h) \/ End(h) \/ Crash(h)
      PROVE  Leaves(a)
  <2>1. UNCHANGED <<balance, balance_read>>
    BY <1>6 DEF BeginConnect, upsert_adapter, upsert_resource, BeginRefresh, SpawnFails,
                Spawned, List, Upserted, StatusRead, ReadFails, AdapterFails, Swept, End,
                Crash, Forget, tables
  <2> QED BY <1>1, <2>1
<1> QED BY <1>2, <1>3, <1>4, <1>5, <1>6 DEF Next

(* A line becomes current only with a reply that carries it, stops being current
   only when a read is opened or reports it, and loses its figure only to another
   or to an adapter that has just looked: open_balance_read and append_balance,
   the only writes balance_line reads, whatever fails between them. *)
THEOREM FreshnessFollows == Spec => FreshnessFollowsTheRead
<1> DEFINE Line(a, r, c) ==
             /\ balance_line(a, r, c).amount # None =>
                  \/ balance_line(a, r, c)'.amount = balance_line(a, r, c).amount
                  \/ Reported(a, r, c) /\ balance_line(a, r, c)'.shows # "unavailable"
             /\ ~ Current(a, r, c) /\ Current(a, r, c)' => Reported(a, r, c)
             /\ Current(a, r, c) /\ ~ Current(a, r, c)' =>
                  Reported(a, r, c) \/ balance_read'[a] > balance_read[a]
<1>1. ASSUME TypeOK, BalInv, [Next]_vars,
             NEW a \in Adapters, NEW r \in Resources, NEW c \in Categories
      PROVE  Line(a, r, c)
  <2> DEFINE old == LineOf(balance[a], balance_read[a], r, c)
             new == LineOf(balance'[a], balance_read'[a], r, c)
  <2>1. /\ balance_line(a, r, c) = old /\ balance_line(a, r, c)' = new
        /\ balance[a] \in Seq(BalanceRows)
    BY <1>1, LineIsOf DEF TypeOK
  <2>2. /\ Current(a, r, c) <=> IsCurrent(old)
        /\ Current(a, r, c)' <=> IsCurrent(new)
    BY <2>1 DEF Current, Shown, IsCurrent
  <2>3. CASE Leaves(a)
    <3>1. new = old
      BY <2>3 DEF Leaves
    <3> HIDE DEF old, new
    <3> QED BY <2>1, <2>2, <3>1
  <2>4. CASE Opens(a)
    <3>1. ~ IsCurrent(new) /\ (old.amount # None => new.amount = old.amount)
      BY <2>1, <2>4, Reopened DEF Opens
    <3>2. balance_read'[a] > balance_read[a]
      BY <2>4 DEF Opens
    <3> HIDE DEF old, new
    <3> QED BY <2>1, <2>2, <3>1, <3>2
  <2>5. CASE Stores(a)
    <3>1. PICK rows \in Seq(BalanceRows) : balance'[a] = balance[a] \o rows
      BY <2>5 DEF Stores
    <3>2. balance_read'[a] = balance_read[a]
      BY <2>5 DEF Stores
    <3>3. Carried(balance[a], balance[a] \o rows, balance_read[a], r, c)
      BY <2>1, Extended
    <3>4. Carried(balance[a], balance'[a], balance_read[a], r, c)
      BY <3>1, <3>3
    <3>5. /\ Reported(a, r, c) \/ new = old
          /\ old.amount # None => new.shows # "unavailable"
      BY <3>2, <3>4 DEF Carried, Reported
    <3> HIDE DEF old, new
    <3> QED BY <2>1, <2>2, <3>5
  <2> QED BY <1>1, <2>3, <2>4, <2>5, Kinds
<1>2. TypeOK /\ BalInv /\ [Next]_vars =>
        [\A a \in Adapters, r \in Resources, c \in Categories : Line(a, r, c)]_vars
  <2> HIDE DEF Line
  <2> QED BY <1>1
<1> QED BY <1>2, InitType, NextType, InitBal, NextBal, PTL DEF Spec, FreshnessFollowsTheRead
=============================================================================
