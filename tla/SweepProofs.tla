---------------------------- MODULE SweepProofs ----------------------------
(* Theorems about Sweep, for every value of its constants. *)
EXTENDS Sweep, TLAPS, SequenceTheorems, WellFoundedInduction

-----------------------------------------------------------------------------
(***************************************************************************)
(* The store's operations keep a database a database.                       *)
(***************************************************************************)

(* A non-empty set of naturals below a bound has a greatest member. *)
LEMMA BoundedMax ==
  ASSUME NEW n \in Nat, NEW S \in SUBSET (1..n), S # {}
  PROVE  \E m \in S : \A k \in S : k <= m
<1> DEFINE T == {n - k : k \in S}
<1>1. T \subseteq Nat /\ T # {}
  <2>1. \A k \in S : n - k \in Nat
    OBVIOUS
  <2>2. PICK k \in S : TRUE
    OBVIOUS
  <2>3. n - k \in T
    OBVIOUS
  <2> QED BY <2>1, <2>3
<1>2. PICK t \in T : \A u \in T : ~ (<<u, t>> \in OpToRel(<, Nat))
  <2> HIDE DEF T
  <2> QED BY <1>1, NatLessThanWellFounded, WFMin
<1>3. \A u \in T : ~ (u < t)
  BY <1>1, <1>2 DEF OpToRel
<1>4. PICK m \in S : t = n - m
  BY <1>2
<1>5. \A k \in S : k <= m
  <2> SUFFICES ASSUME NEW k \in S PROVE k <= m
    OBVIOUS
  <2>1. n - k \in T
    OBVIOUS
  <2>2. ~ (n - k < n - m)
    BY <2>1, <1>3, <1>4
  <2> QED BY <2>2
<1> QED BY <1>5

(* resumable_crawl names a crawl that is open and has a cursor. *)
LEMMA ResumableCrawlType ==
  ASSUME NEW d \in Databases, NEW r \in Resources, resumable_crawls(d, r) # {}
  PROVE  resumable_crawl(d, r) \in resumable_crawls(d, r)
<1>1. Len(d.crawl) \in Nat
  BY DEF Databases
<1>2. \E m \in resumable_crawls(d, r) : \A k \in resumable_crawls(d, r) : k <= m
  BY <1>1, BoundedMax DEF resumable_crawls
<1> QED BY <1>2 DEF resumable_crawl

(* The tables of a database, and a database with one table replaced. *)
LEMMA Tables ==
  ASSUME NEW d \in Databases
  PROVE  /\ d.chain \in Chains
         /\ d.retraction \subseteq Retractions
         /\ d.crawl \in Seq(CrawlRows)
         /\ d.resource \in [Resources -> ResourceRows]
         /\ \A t \in Chains : [d EXCEPT !.chain = t] \in Databases
         /\ \A t \in SUBSET Retractions : [d EXCEPT !.retraction = t] \in Databases
         /\ \A t \in Seq(CrawlRows) : [d EXCEPT !.crawl = t] \in Databases
         /\ \A t \in [Resources -> ResourceRows] : [d EXCEPT !.resource = t] \in Databases
         /\ \A t \in Derivations : [d EXCEPT !.derivation = t] \in Databases
         /\ \A t \in SUBSET Discrepancies : [d EXCEPT !.discrepancy = t] \in Databases
BY DEF Databases

(* open_crawl keeps a database well typed. *)
LEMMA OpenCrawlType ==
  ASSUME NEW d \in Databases, NEW r \in Resources, NEW start \in Cursors \cup {None},
         NEW derivation \in Derivations, NEW fingerprint \in Fingerprints
  PROVE  open_crawl(d, r, start, derivation, fingerprint) \in Databases
<1> DEFINE cleared == [i \in 1..Len(d.crawl) |->
              IF d.crawl[i].resource = r THEN [d.crawl[i] EXCEPT !.next = None]
                                         ELSE d.crawl[i]]
           row == [resource |-> r, start |-> start, next |-> start,
                   derivation |-> derivation, fingerprint |-> fingerprint,
                   drained |-> FALSE, complete |-> FALSE, reason |-> None]
<1>1. d.crawl \in Seq(CrawlRows)
  BY Tables
<1>2. \A i \in 1..Len(d.crawl) : d.crawl[i] \in CrawlRows
  BY <1>1
<1>3. cleared \in Seq(CrawlRows)
  BY <1>1, <1>2, IsASeq DEF CrawlRows
<1>4. row \in CrawlRows
  BY DEF CrawlRows
<1>5. Append(cleared, row) \in Seq(CrawlRows)
  BY <1>3, <1>4, AppendProperties
<1>6. open_crawl(d, r, start, derivation, fingerprint)
        = [d EXCEPT !.crawl = Append(cleared, row)]
  BY DEF open_crawl
<1> QED BY <1>5, <1>6, Tables

(* Replacing an element of a sequence, inside it or not. *)
LEMMA ReplaceType ==
  ASSUME NEW S, NEW s \in Seq(S), NEW c, NEW e,
         c \in 1..Len(s) => e \in S
  PROVE  [s EXCEPT ![c] = e] \in Seq(S)
<1>1. s \in [1..Len(s) -> S] /\ Len(s) \in Nat
  BY LenProperties
<1>2. [s EXCEPT ![c] = e] \in [1..Len(s) -> S]
  BY <1>1
<1> QED BY <1>1, <1>2

(* set_crawl_cursor keeps a database well typed. *)
LEMMA SetCursorType ==
  ASSUME NEW d \in Databases, NEW c \in Nat, NEW next \in Cursors \cup {None}
  PROVE  set_crawl_cursor(d, c, next) \in Databases
<1> DEFINE e == [d.crawl[c] EXCEPT !.next = next]
<1>1. d.crawl \in Seq(CrawlRows)
  BY Tables
<1>2. c \in 1..Len(d.crawl) => e \in CrawlRows
  <2> SUFFICES ASSUME c \in 1..Len(d.crawl) PROVE e \in CrawlRows
    OBVIOUS
  <2>1. d.crawl[c] \in CrawlRows
    BY <1>1
  <2> QED BY <2>1 DEF CrawlRows
<1>3. [d.crawl EXCEPT ![c] = e] \in Seq(CrawlRows)
  BY <1>1, <1>2, ReplaceType
<1>4. set_crawl_cursor(d, c, next) = [d EXCEPT !.crawl = [d.crawl EXCEPT ![c] = e]]
  BY DEF set_crawl_cursor, Databases
<1> QED BY <1>3, <1>4, Tables

(* finish_crawl keeps a database well typed. *)
LEMMA FinishCrawlType ==
  ASSUME NEW d \in Databases, NEW c \in Nat, NEW drained \in BOOLEAN,
         NEW complete \in BOOLEAN, NEW reason \in Disqualifications \cup {None}
  PROVE  finish_crawl(d, c, drained, complete, reason) \in Databases
<1> DEFINE e == [d.crawl[c] EXCEPT !.drained = drained, !.complete = complete,
                                   !.reason = reason,
                                   !.next = IF drained THEN None
                                            ELSE d.crawl[c].next]
<1>1. d.crawl \in Seq(CrawlRows)
  BY Tables
<1>2. c \in 1..Len(d.crawl) => e \in CrawlRows
  <2> SUFFICES ASSUME c \in 1..Len(d.crawl) PROVE e \in CrawlRows
    OBVIOUS
  <2>1. d.crawl[c] \in CrawlRows
    BY <1>1
  <2> QED BY <2>1 DEF CrawlRows
<1>3. [d.crawl EXCEPT ![c] = e] \in Seq(CrawlRows)
  BY <1>1, <1>2, ReplaceType
<1>4. finish_crawl(d, c, drained, complete, reason)
        = [d EXCEPT !.crawl = [d.crawl EXCEPT ![c] = e]]
  BY DEF finish_crawl, Databases
<1> HIDE DEF e
<1>5. [d EXCEPT !.crawl = [d.crawl EXCEPT ![c] = e]] \in Databases
  BY <1>3, Tables
<1> QED BY <1>4, <1>5

(* append_observation keeps a database well typed. *)
LEMMA AppendObservationType ==
  ASSUME NEW d \in Databases, NEW l \in LocalIds, NEW revision \in Nat,
         NEW o \in Observations, NEW received \in Times, NEW c \in Nat,
         NEW derivation \in Derivations, NEW fingerprint \in Fingerprints
  PROVE  append_observation(d, l, revision, o, received, c, derivation, fingerprint)
           \in Databases
<1> DEFINE row == [obs |-> o, received |-> received, revision |-> revision,
                   crawl |-> c, lastSeen |-> c,
                   derivation |-> derivation, fingerprint |-> fingerprint]
           t == [d.chain EXCEPT ![l] = Append(@, row)]
<1>1. d.chain \in Chains
  BY Tables
<1>2. row \in Rows
  BY DEF Rows
<1>3. t \in Chains
  BY <1>1, <1>2 DEF Chains
<1> QED BY <1>3, Tables DEF append_observation

(* stamp_seen keeps a database well typed. *)
LEMMA StampSeenType ==
  ASSUME NEW d \in Databases, NEW l \in LocalIds, NEW revision, NEW c \in Nat,
         NEW derivation \in Derivations, NEW fingerprint \in Fingerprints
  PROVE  stamp_seen(d, l, revision, c, derivation, fingerprint) \in Databases
<1> DEFINE stamped == [i \in 1..Len(d.chain[l]) |->
                         IF d.chain[l][i].revision = revision
                         THEN [d.chain[l][i] EXCEPT !.lastSeen = c,
                                                    !.derivation = derivation,
                                                    !.fingerprint = fingerprint]
                         ELSE d.chain[l][i]]
           t == [d.chain EXCEPT ![l] = stamped]
<1>1. d.chain \in Chains /\ d.chain[l] \in Seq(Rows)
  BY Tables DEF Chains
<1>2. \A i \in 1..Len(d.chain[l]) : d.chain[l][i] \in Rows
  BY <1>1
<1>3. stamped \in Seq(Rows)
  <2>1. \A i \in 1..Len(d.chain[l]) : stamped[i] \in Rows
    BY <1>2 DEF Rows
  <2>2. DOMAIN stamped = 1..Len(d.chain[l]) /\ Len(d.chain[l]) \in Nat
    BY <1>1
  <2>3. stamped = [i \in 1..Len(d.chain[l]) |-> stamped[i]]
    OBVIOUS
  <2> HIDE DEF stamped
  <2>4. stamped \in [1..Len(d.chain[l]) -> Rows]
    BY <2>1, <2>3
  <2> QED BY <2>2, <2>4
<1>4. t \in Chains
  BY <1>1, <1>3 DEF Chains
<1> QED BY <1>4, Tables DEF stamp_seen

(* The replay of a database is a fold. *)
LEMMA ReplayType ==
  ASSUME NEW d \in Databases
  PROVE  Replay(d) \in [LocalIds -> Seq(FoldEntries)]
<1> SUFFICES ASSUME NEW l \in LocalIds
             PROVE  Replay(d)[l] \in Seq(FoldEntries)
  BY DEF Replay
<1> DEFINE c == d.chain[l]
<1>1. c \in Seq(Rows) /\ Len(c) \in Nat
  BY Tables DEF Chains
<1>2. \A i \in 1..Len(c) : c[i] \in Rows
  BY <1>1
<1>3. \A i \in 1..Len(c) :
        [obs |-> c[i].obs, received |-> c[i].received] \in FoldEntries
  BY <1>2 DEF Rows, FoldEntries
<1>4. Replay(d)[l] = [i \in 1..Len(c) |-> [obs |-> c[i].obs, received |-> c[i].received]]
  BY DEF Replay
<1>5. Replay(d)[l] \in [1..Len(c) -> FoldEntries]
  BY <1>3, <1>4
<1> QED BY <1>1, <1>5

(* head_meta gives each record the rules of a row, or None. *)
LEMMA HeadMetaType ==
  ASSUME NEW d \in Databases
  PROVE  head_meta(d) \in [LocalIds -> Metas \cup {None}]
<1> SUFFICES ASSUME NEW l \in LocalIds
             PROVE  head_meta(d)[l] \in Metas \cup {None}
  BY DEF head_meta
<1> DEFINE Stored == {i \in 1..Len(d.chain[l]) :
                        d.chain[l][i].revision = head_revision(Replay(d)[l])}
           i == CHOOSE i \in Stored : TRUE
<1>1. d.chain[l] \in Seq(Rows)
  BY Tables DEF Chains
<1>2. CASE Stored # {}
  <2>1. i \in 1..Len(d.chain[l])
    BY <1>2
  <2> HIDE DEF i
  <2>2. d.chain[l][i] \in Rows
    BY <1>1, <2>1
  <2>3. [derivation |-> d.chain[l][i].derivation,
         fingerprint |-> d.chain[l][i].fingerprint] \in Metas
    BY <2>2 DEF Rows, Metas
  <2> QED BY <1>2, <2>3 DEF head_meta, i
<1>3. CASE Stored = {}
  BY <1>3 DEF head_meta
<1> QED BY <1>2, <1>3

(* The high-water map pairs records with revisions. *)
LEMMA HighWaterType ==
  ASSUME NEW d \in Databases
  PROVE  retraction_high_water(d) \subseteq LocalIds \X Nat
BY Tables DEF retraction_high_water, Retractions

(* What a sweep loads at its start is well typed. *)
LEMMA SnapshotType ==
  ASSUME NEW d \in Databases
  PROVE  load_snapshot(d) \in Snaps
BY ReplayType, HeadMetaType, HighWaterType DEF load_snapshot, Snaps

(* retraction_reason gives one of the three reasons. *)
LEMMA ReasonType ==
  ASSUME NEW m, NEW dv, NEW fp
  PROVE  retraction_reason(m, dv, fp) \in Reasons
BY DEF retraction_reason, Reasons

(* Noting discrepancies keeps a database well typed. *)
LEMMA NotedType ==
  ASSUME NEW d \in Databases, NEW r \in Resources, NEW kinds \in SUBSET Kinds,
         NEW c \in Nat
  PROVE  append_discrepancies(d, r, kinds, c) \in Databases
<1>1. {[resource |-> r, kind |-> k, crawl |-> c] : k \in kinds} \subseteq Discrepancies
  BY DEF Discrepancies
<1>2. d.discrepancy \subseteq Discrepancies
  BY DEF Databases
<1> QED BY <1>1, <1>2, Tables DEF append_discrepancies

(* derive_retractions keeps a database well typed. *)
LEMMA DeriveType ==
  ASSUME NEW d \in Databases, NEW c \in Conns, NEW s \in Sweeps, NEW sn \in Snaps
  PROVE  derive_retractions(d, c, s, sn) \in Databases
<1> DEFINE live   == live_set(sn.fold, retraction_high_water(d), s.resource)
           absent == live \ (s.observed \cup s.exempt)
           gone   == {l \in absent :
                        within_history(fold_head(sn.fold[l]).obs.at, s.historyStart)}
           why    == [l \in gone |->
                        retraction_reason(sn.meta[l], c.derivation, s.fingerprint)]
           kinds  == ({why[l] : l \in gone} \ {"absent_from_complete_sweep"})
                       \cup (IF gone # absent THEN {"history_start_exempt"} ELSE {})
           noted(k) == append_discrepancies(d, s.resource, k, s.crawl)
           rows == {[local |-> l, revision |-> highest_revision(sn.fold[l]),
                     reason |-> why[l], crawl |-> s.crawl] : l \in gone}
<1>1. s.resource \in Resources /\ s.crawl \in Nat /\ sn.fold \in [LocalIds -> Seq(FoldEntries)]
  BY DEF Sweeps, Snaps
<1>2. gone \subseteq LocalIds /\ kinds \subseteq Kinds
  <2>1. gone \subseteq LocalIds
    BY DEF live_set
  <2>2. \A l \in gone : why[l] \in Reasons
    <3> HIDE DEF gone
    <3> QED BY ReasonType
  <2> HIDE DEF gone, why
  <2> QED BY <2>1, <2>2 DEF Reasons, Kinds
<1>3. noted(kinds) \in Databases /\ noted({"vantage_changed"}) \in Databases
        /\ noted({"empty_sweep"}) \in Databases
  <2> HIDE DEF kinds
  <2>1. {"vantage_changed"} \in SUBSET Kinds /\ {"empty_sweep"} \in SUBSET Kinds
    BY DEF Kinds
  <2> QED BY <1>1, <1>2, <2>1, NotedType
<1>4. rows \subseteq Retractions
  <2> SUFFICES ASSUME NEW l \in gone
               PROVE  [local |-> l, revision |-> highest_revision(sn.fold[l]),
                       reason |-> why[l], crawl |-> s.crawl] \in Retractions
    OBVIOUS
  <2>1. l \in LocalIds /\ why[l] \in Reasons /\ highest_revision(sn.fold[l]) \in Nat
    <3>1. l \in LocalIds /\ highest_revision(sn.fold[l]) \in Nat
      BY <1>1, <1>2 DEF highest_revision
    <3> HIDE DEF gone
    <3>2. why[l] \in Reasons
      BY ReasonType
    <3> QED BY <3>1, <3>2
  <2> HIDE DEF gone, why
  <2> QED BY <1>1, <2>1 DEF Retractions
<1>5. append_retractions(noted(kinds), gone, sn.fold, why, s.crawl)
        = [noted(kinds) EXCEPT !.retraction = @ \cup rows]
  BY DEF append_retractions
<1>6. [noted(kinds) EXCEPT !.retraction = @ \cup rows] \in Databases
  <2> DEFINE n == noted(kinds)
  <2>1. n \in Databases /\ n.retraction \cup rows \in SUBSET Retractions
    BY <1>3, <1>4, Tables
  <2> HIDE DEF n, rows
  <2>2. [n EXCEPT !.retraction = n.retraction \cup rows] \in Databases
    BY <2>1, Tables
  <2> QED BY <2>2 DEF n
<1>7. derive_retractions(d, c, s, sn) =
        IF vantage_moved(d, s) THEN noted({"vantage_changed"})
        ELSE IF emptied(live, c, s) THEN noted({"empty_sweep"})
        ELSE append_retractions(noted(kinds), gone, sn.fold, why, s.crawl)
  BY DEF derive_retractions
<1> HIDE DEF live, kinds, gone, rows
<1> QED BY <1>3, <1>5, <1>6, <1>7

(* set_resource_definition keeps a database well typed. *)
LEMMA DefinitionType ==
  ASSUME NEW d \in Databases, NEW r \in Resources, NEW fp \in Fingerprints,
         NEW v \in Vantages \cup {None}
  PROVE  set_resource_definition(d, r, fp, v) \in Databases
<1> DEFINE row == [fingerprint |-> fp,
                   vantage |-> IF v = None THEN d.resource[r].vantage ELSE v]
<1>1. d.resource \in [Resources -> ResourceRows]
  BY Tables
<1>2. row \in ResourceRows
  BY <1>1 DEF ResourceRows
<1>3. [d.resource EXCEPT ![r] = row] \in [Resources -> ResourceRows]
  BY <1>1, <1>2
<1>4. set_resource_definition(d, r, fp, v) = [d EXCEPT !.resource = [d.resource EXCEPT ![r] = row]]
  BY DEF set_resource_definition
<1> QED BY <1>3, <1>4, Tables

(* What the last page commits is well typed. *)
LEMMA SettleType ==
  ASSUME NEW d \in Databases, NEW c \in Conns, NEW s \in Sweeps, NEW sn \in Snaps,
         NEW reason \in Disqualifications \cup {None}
  PROVE  settle(d, c, s, sn, reason) \in Databases
<1> DEFINE d1 == IF reason = None THEN derive_retractions(d, c, s, sn) ELSE d
           d2 == set_adapter_derivation(d1, c.derivation)
           v  == IF reason = None THEN s.vantage ELSE None
           d3 == set_resource_definition(d2, s.resource, s.fingerprint, v)
<1>1. /\ s.resource \in Resources /\ s.crawl \in Nat /\ c.derivation \in Derivations
      /\ s.fingerprint \in Fingerprints /\ v \in Vantages \cup {None}
  BY DEF Sweeps, Conns
<1>2. d1 \in Databases
  BY DeriveType
<1>3. d2 \in Databases
  BY <1>1, <1>2, Tables DEF set_adapter_derivation
<1>4. d3 \in Databases
  <2> HIDE DEF d2, v
  <2> QED BY <1>1, <1>3, DefinitionType
<1>5. settle(d, c, s, sn, reason)
        = finish_crawl(d3, s.crawl, s.page = "drained", reason = None, reason)
  BY DEF settle
<1> HIDE DEF d3
<1> QED BY <1>1, <1>4, <1>5, FinishCrawlType

-----------------------------------------------------------------------------
(***************************************************************************)
(* Type correctness.                                                        *)
(***************************************************************************)

(* The initial state is well typed. *)
LEMMA InitType == Init => TypeOK
<1>1. EmptyDatabase \in Databases
  BY DEF EmptyDatabase, Databases, Chains, ResourceRows
<1> QED BY <1>1 DEF Init, TypeOK, Phases, Sweeping, InTxn

(* A host that exits or dies leaves a well-typed state. *)
LEMMA ForgetType ==
  ASSUME TypeOK, NEW h \in Hosts, Forget(h) PROVE TypeOK'
BY DEF TypeOK, Forget, Phases, Sweeping, InTxn

(* Opening a connection keeps the state well typed. *)
LEMMA ConnectType ==
  ASSUME TypeOK, NEW h \in Hosts, Connect(h) PROVE TypeOK'
<1>1. conn'[h] \in Conns /\ conn' \in [Hosts -> Conns \cup {None}]
  <2>1. PICK dv \in Derivations, taint \in BalanceTaints, opts \in Options,
             n \in 0..MaxListed : \E listed \in [1..n -> Resources] :
               conn' = [conn EXCEPT ![h] = [derivation |-> dv, taint |-> taint,
                                            todo |-> listed, options |-> opts]]
    BY DEF Connect
  <2>2. PICK listed \in [1..n -> Resources] :
               conn' = [conn EXCEPT ![h] = [derivation |-> dv, taint |-> taint,
                                            todo |-> listed, options |-> opts]]
    BY <2>1
  <2>3. listed \in Seq(Resources)
    BY BoundsAssumption
  <2>4. [derivation |-> dv, taint |-> taint, todo |-> listed, options |-> opts] \in Conns
    BY <2>3, BoundsAssumption DEF Conns
  <2> QED BY <2>2, <2>4 DEF TypeOK
<1> QED BY <1>1 DEF TypeOK, Connect, Phases, Sweeping, InTxn

(* Publishing a violation keeps the state well typed. *)
LEMMA PublishType ==
  ASSUME TypeOK, NEW h \in Hosts, Publish(h) PROVE TypeOK'
BY DEF TypeOK, Publish, Sweeping, InTxn

(* Ending a sweep keeps the hosts well typed. *)
LEMMA EndSweepType ==
  ASSUME TypeOK, NEW h \in Hosts, EndSweep(h),
         db' \in Databases, lock' = lock, violated' = violated,
         conn' = conn \/ \E b \in BOOLEAN : conn' = [conn EXCEPT ![h].taint = b],
         pc[h] # "idle"
  PROVE  TypeOK'
<1>1. conn' \in [Hosts -> Conns \cup {None}]
        /\ \A k \in Hosts : pc[k] # "idle" => conn'[k] \in Conns
  <2>1. conn[h] \in Conns
    BY DEF TypeOK
  <2>2. \A b \in BOOLEAN : [conn[h] EXCEPT !.taint = b] \in Conns
    BY <2>1 DEF Conns
  <2> QED BY <2>1, <2>2 DEF TypeOK
<1> QED BY <1>1 DEF TypeOK, EndSweep, Phases, Sweeping, InTxn

(* resume_point gives a cursor or None. *)
LEMMA ResumePointType ==
  ASSUME NEW d \in Databases, NEW r \in Resources, NEW dv, NEW fp
  PROVE  resume_point(d, r, dv, fp) \in Cursors \cup {None}
<1>1. CASE resumable_crawls(d, r) # {}
  <2> DEFINE c == resumable_crawl(d, r)
  <2>1. c \in 1..Len(d.crawl)
    BY <1>1, ResumableCrawlType DEF resumable_crawls
  <2> HIDE DEF c
  <2>2. d.crawl[c] \in CrawlRows
    BY <2>1, Tables
  <2> QED BY <2>2 DEF CrawlRows, resume_point, c
<1>2. CASE resumable_crawls(d, r) = {}
  BY <1>2 DEF resume_point
<1> QED BY <1>1, <1>2

(* Starting a sweep keeps the state well typed. *)
LEMMA StartSweepType ==
  ASSUME TypeOK, NEW h \in Hosts, StartSweep(h) PROVE TypeOK'
<1>1. conn[h] \in Conns /\ db \in Databases
  BY DEF TypeOK, StartSweep
<1> DEFINE r == Head(conn[h].todo)
           dv == conn[h].derivation
<1>2. r \in Resources /\ Tail(conn[h].todo) \in Seq(Resources) /\ dv \in Derivations
  BY <1>1 DEF StartSweep, Conns
<1>3. PICK fp \in Fingerprints, v \in Vantages, hs \in HistoryStarts :
        LET st == IF conn[h].options.resume THEN resume_point(db, r, dv, fp) ELSE None
        IN /\ db' = open_crawl(db, r, st, dv, fp)
           /\ sweep' = [sweep EXCEPT ![h] =
                [resource |-> r, crawl |-> Len(db.crawl) + 1, fingerprint |-> fp,
                 vantage |-> v, historyStart |-> hs, start |-> st, pageNo |-> 0,
                 faults |-> {}, resumable |-> "unread", exactNext |-> None,
                 observed |-> {}, exempt |-> {},
                 page |-> "more", received |-> None, room |-> 0]]
  BY DEF StartSweep
<1> DEFINE st == IF conn[h].options.resume THEN resume_point(db, r, dv, fp) ELSE None
<1> HIDE DEF r, dv
<1>4. st \in Cursors \cup {None}
  BY <1>1, <1>2, ResumePointType
<1>5. db' \in Databases
  BY <1>1, <1>2, <1>3, <1>4, OpenCrawlType
<1>6. Len(db.crawl) + 1 \in Nat
  BY <1>1, Tables
<1>7. hs \in Times \cup {Unorderable, None}
  BY BoundsAssumption
<1> HIDE DEF st
<1>8. [resource |-> r, crawl |-> Len(db.crawl) + 1, fingerprint |-> fp,
       vantage |-> v, historyStart |-> hs, start |-> st, pageNo |-> 0,
       faults |-> {}, resumable |-> "unread", exactNext |-> None,
       observed |-> {}, exempt |-> {},
       page |-> "more", received |-> None, room |-> 0] \in Sweeps
  BY <1>2, <1>4, <1>6, <1>7 DEF Sweeps
<1>9. sweep'[h] \in Sweeps /\ sweep' \in [Hosts -> Sweeps \cup {None}]
  BY <1>3, <1>8 DEF TypeOK, st
<1>10. snap'[h] \in Snaps /\ snap' \in [Hosts -> Snaps \cup {None}]
  BY <1>1, SnapshotType DEF TypeOK, StartSweep
<1>11. conn' \in [Hosts -> Conns \cup {None}]
         /\ \A k \in Hosts : pc[k] # "idle" => conn'[k] \in Conns
  <2>1. [conn[h] EXCEPT !.todo = Tail(@)] \in Conns
    BY <1>1, <1>2 DEF Conns
  <2> QED BY <2>1 DEF TypeOK, StartSweep
<1>12. /\ pc' \in [Hosts -> Phases] /\ pc'[h] = "reading"
       /\ \A k \in Hosts \ {h} : pc'[k] = pc[k] /\ sweep'[k] = sweep[k] /\ snap'[k] = snap[k]
       /\ UNCHANGED <<lock, violated, txn>>
  BY <1>3 DEF TypeOK, StartSweep, Phases
<1>13. ASSUME NEW k \in Hosts
       PROVE  /\ pc'[k] # "idle" => conn'[k] \in Conns
              /\ Sweeping(k)' => sweep'[k] \in Sweeps /\ snap'[k] \in Snaps
              /\ InTxn(k)' => txn'[k] \in Databases /\ sweep'[k].received \in Times
  <2>1. CASE k = h
    BY <1>1, <1>9, <1>10, <1>11, <1>12, <2>1 DEF StartSweep, Sweeping, InTxn
  <2>2. CASE k # h
    BY <1>11, <1>12, <2>2 DEF TypeOK, Sweeping, InTxn
  <2> QED BY <2>1, <2>2
<1> QED BY <1>5, <1>9, <1>10, <1>11, <1>12, <1>13 DEF TypeOK

(* A read that failed. *)
LEMMA ReadFailsType ==
  ASSUME TypeOK, NEW h \in Hosts, ReadFails(h) PROVE TypeOK'
<1>1. db \in Databases /\ sweep[h] \in Sweeps /\ conn[h] \in Conns
  BY DEF TypeOK, ReadFails, Sweeping
<1>2. sweep[h].crawl \in Nat /\ "adapter_failed" \in Disqualifications \cup {None}
  BY <1>1 DEF Sweeps, Disqualifications
<1>3. db' \in Databases
  BY <1>1, <1>2, FinishCrawlType DEF ReadFails
<1>4. \E b \in BOOLEAN : conn' = [conn EXCEPT ![h].taint = b]
  <2>1. PICK broke \in BOOLEAN : conn' = [conn EXCEPT ![h].taint = @ \/ broke]
    BY DEF ReadFails
  <2> DEFINE b == conn[h].taint \/ broke
  <2>2. b \in BOOLEAN /\ conn' = [conn EXCEPT ![h].taint = b]
    BY <2>1
  <2> QED BY <2>2
<1> QED BY <1>3, <1>4, EndSweepType DEF ReadFails

(* The page limit. *)
LEMMA PageLimitType ==
  ASSUME TypeOK, NEW h \in Hosts, PageLimit(h) PROVE TypeOK'
<1>1. db \in Databases /\ sweep[h] \in Sweeps
  BY DEF TypeOK, PageLimit, Sweeping
<1>2. sweep[h].crawl \in Nat /\ "page_limit" \in Disqualifications \cup {None}
  BY <1>1 DEF Sweeps, Disqualifications
<1>3. db' \in Databases
  BY <1>1, <1>2, FinishCrawlType DEF PageLimit
<1> QED BY <1>3, EndSweepType DEF PageLimit

(* The commit of a sweep. *)
LEMMA CommitSweepType ==
  ASSUME TypeOK, NEW h \in Hosts, CommitSweep(h) PROVE TypeOK'
<1>1. db' \in Databases /\ conn[h] \in Conns /\ violated[h] \in BOOLEAN
  BY DEF TypeOK, CommitSweep, InTxn
<1>2. \E b \in BOOLEAN : conn' = [conn EXCEPT ![h].taint = b]
  <2> DEFINE b == conn[h].taint \/ violated[h]
  <2>1. b \in BOOLEAN /\ conn' = [conn EXCEPT ![h].taint = b]
    BY DEF CommitSweep
  <2> QED BY <2>1
<1> QED BY <1>1, <1>2, EndSweepType DEF CommitSweep

(* q is the sweep s, of the same resource, from the same start, in the same crawl,
   having observed the same records and forgotten no fault. *)
SameSweep(q, s) ==
  /\ q.resource = s.resource /\ q.start = s.start
  /\ q.crawl = s.crawl /\ q.fingerprint = s.fingerprint
  /\ q.observed = s.observed /\ s.faults \subseteq q.faults

(* A page: its status and its cursor. *)
LEMMA JudgePageType ==
  ASSUME NEW s \in Sweeps, NEW faults \in SUBSET PageFaults,
         NEW named \in SUBSET Degradable, NEW rs
  PROVE  /\ judge_page(s, faults, named, rs) \in Sweeps
         /\ SameSweep(judge_page(s, faults, named, rs), s)
<1>1. /\ s.faults \cup faults \cup (IF rs \in {"batch_restart", "none"}
                                    THEN {"inexact"} ELSE {}) \in SUBSET Faults
      /\ s.exempt \cup named \in SUBSET LocalIds
  BY BoundsAssumption DEF Sweeps, Faults
<1> DEFINE f == s.faults \cup faults \cup (IF rs \in {"batch_restart", "none"}
                                           THEN {"inexact"} ELSE {})
           x == s.exempt \cup named
<1>2. judge_page(s, faults, named, rs) = [s EXCEPT !.faults = f, !.exempt = x]
  BY DEF judge_page
<1> HIDE DEF f, x
<1>3. f \in SUBSET Faults /\ x \in SUBSET LocalIds /\ s.faults \subseteq f
  BY <1>1 DEF f, x
<1> QED BY <1>2, <1>3 DEF Sweeps, SameSweep

(* A page reply changes the sweep's page, its faults and its exemptions, and
   nothing of what the sweep has observed or of its crawl; no fault is forgotten. *)
LEMMA PageArrivesSweep ==
  ASSUME TypeOK, NEW h \in Hosts, PageArrives(h)
  PROVE  \E s \in Sweeps : /\ sweep' = [sweep EXCEPT ![h] = s]
                           /\ s.received \in Times
                           /\ SameSweep(s, sweep[h])
<1>1. sweep[h] \in Sweeps
  BY DEF TypeOK, PageArrives, Sweeping
<1>2. PICK faults \in SUBSET PageFaults, named \in SUBSET Degradable, at \in Times :
        LET Judged(rs) ==
              [judge_page(sweep[h], faults, named, rs)
                 EXCEPT !.received = at, !.room = PageCap]
        IN \/ \E rs \in Resumables, next \in Cursors \cup {None} :
                sweep' = [sweep EXCEPT ![h] =
                  [record(Judged(rs), rs, next)
                     EXCEPT !.page = IF next = None THEN "drained" ELSE "more"]]
           \/ sweep' = [sweep EXCEPT ![h] =
                [Judged("unread") EXCEPT !.page = "unpaged"]]
  BY DEF PageArrives
<1> DEFINE Judged(rs) ==
             [judge_page(sweep[h], faults, named, rs)
                EXCEPT !.received = at, !.room = PageCap]
           Paged(rs, next) ==
             [record(Judged(rs), rs, next)
                EXCEPT !.page = IF next = None THEN "drained" ELSE "more"]
           Unpaged == [Judged("unread") EXCEPT !.page = "unpaged"]
           Fits(s) == /\ s \in Sweeps /\ s.received \in Times
                      /\ SameSweep(s, sweep[h])
<1>3. ASSUME NEW rs PROVE Fits(Judged(rs))
  <2> DEFINE j == judge_page(sweep[h], faults, named, rs)
  <2>1. j \in Sweeps /\ SameSweep(j, sweep[h])
    BY <1>1, JudgePageType
  <2> HIDE DEF j
  <2>2. Fits([j EXCEPT !.received = at, !.room = PageCap])
    BY <2>1, BoundsAssumption DEF Sweeps, SameSweep
  <2> QED BY <2>2 DEF j
<1>4. ASSUME NEW rs \in Resumables, NEW next \in Cursors \cup {None}
      PROVE  Fits(Paged(rs, next))
  <2> DEFINE j == Judged(rs)
             q == record(j, rs, next)
  <2>1. Fits(j)
    BY <1>3
  <2> HIDE DEF j
  <2>2. rs \in {"exact", "batch_restart", "none", "unread"}
    BY BoundsAssumption
  <2>3. Fits(q)
    BY <2>1, <2>2 DEF record, Sweeps, SameSweep
  <2> HIDE DEF q
  <2>4. Fits([q EXCEPT !.page = IF next = None THEN "drained" ELSE "more"])
    BY <2>3 DEF Sweeps, SameSweep
  <2> QED BY <2>4 DEF j, q
<1>5. Fits(Unpaged)
  <2> DEFINE j == Judged("unread")
  <2>1. Fits(j)
    BY <1>3
  <2> HIDE DEF j
  <2>2. Fits([j EXCEPT !.page = "unpaged"])
    BY <2>1 DEF Sweeps, SameSweep
  <2> QED BY <2>2 DEF j
<1>6. \/ \E rs \in Resumables, next \in Cursors \cup {None} :
           sweep' = [sweep EXCEPT ![h] = Paged(rs, next)]
      \/ sweep' = [sweep EXCEPT ![h] = Unpaged]
  BY <1>2
<1> HIDE DEF Paged, Unpaged
<1> QED BY <1>4, <1>5, <1>6

(* The arrival of a page keeps the state well typed. *)
LEMMA PageArrivesType ==
  ASSUME TypeOK, NEW h \in Hosts, PageArrives(h) PROVE TypeOK'
<1>1. /\ sweep' \in [Hosts -> Sweeps \cup {None}]
      /\ \A k \in Hosts : Sweeping(k) => sweep'[k] \in Sweeps
      /\ sweep'[h].received \in Times
      /\ \A k \in Hosts \ {h} : sweep'[k] = sweep[k]
  BY PageArrivesSweep DEF TypeOK
<1>2. Sweeping(h) /\ db \in Databases
  BY DEF PageArrives, Sweeping, TypeOK
<1> QED BY <1>1, <1>2 DEF TypeOK, PageArrives, Phases, Sweeping, InTxn

(* One observation of a page: stamped or appended. *)
LEMMA IngestType ==
  ASSUME TypeOK, NEW h \in Hosts, NEW l \in LocalIds, NEW o \in Reportable,
         Ingest(h, l, o)
  PROVE  TypeOK'
<1> DEFINE s    == sweep[h]
           f    == snap[h].fold
           dv   == conn[h].derivation
           rev  == highest_revision(f[l]) + 1
           meta == [snap[h].meta EXCEPT ![l] =
                      [derivation |-> dv, fingerprint |-> s.fingerprint]]
<1>1. /\ s \in Sweeps /\ snap[h] \in Snaps /\ conn[h] \in Conns /\ txn[h] \in Databases
      /\ Sweeping(h) /\ InTxn(h)
  BY DEF TypeOK, Ingest, Sweeping, InTxn
<1>2. /\ dv \in Derivations /\ s.fingerprint \in Fingerprints /\ s.crawl \in Nat
      /\ s.room \in Nat /\ s.room > 0 /\ s.observed \subseteq LocalIds
    BY <1>1 DEF Conns, Sweeps, Ingest
<1>3. f \in [LocalIds -> Seq(FoldEntries)] /\ rev \in Nat /\ o \in Observations
  BY <1>1, BoundsAssumption DEF Snaps, highest_revision
<1>4. meta \in [LocalIds -> Metas \cup {None}]
  <2>1. [derivation |-> dv, fingerprint |-> s.fingerprint] \in Metas
    BY <1>2 DEF Metas
  <2>2. snap[h].meta \in [LocalIds -> Metas \cup {None}]
    BY <1>1 DEF Snaps
  <2> QED BY <2>1, <2>2
<1>5. sweep' = [sweep EXCEPT ![h] = [s EXCEPT !.observed = s.observed \cup {l},
                                              !.room = s.room - 1]]
  BY DEF Ingest, TypeOK
<1>6. [s EXCEPT !.observed = s.observed \cup {l}, !.room = s.room - 1] \in Sweeps
  <2> DEFINE ob == s.observed \cup {l}
             rm == s.room - 1
  <2>1. ob \in SUBSET LocalIds /\ rm \in Nat
    BY <1>2
  <2> HIDE DEF ob, rm
  <2>2. [s EXCEPT !.observed = ob, !.room = rm] \in Sweeps
    BY <1>1, <2>1 DEF Sweeps
  <2> QED BY <2>2 DEF ob, rm
<1>7. /\ sweep' \in [Hosts -> Sweeps \cup {None}]
      /\ \A k \in Hosts : Sweeping(k) => sweep'[k] \in Sweeps
      /\ sweep'[h].received = s.received
      /\ \A k \in Hosts \ {h} : sweep'[k] = sweep[k]
  <2>1. [s EXCEPT !.observed = s.observed \cup {l}, !.room = s.room - 1].received
          = s.received
    BY <1>1 DEF Sweeps
  <2> QED BY <1>5, <1>6, <2>1 DEF TypeOK
<1>8. \E d \in Databases : txn' = [txn EXCEPT ![h] = d]
  <2>1. stamp_seen(txn[h], l, head_revision(f[l]), s.crawl, dv, s.fingerprint)
          \in Databases
    BY <1>1, <1>2, StampSeenType
  <2>2. CASE already_known(snap[h], l, o)
    BY <2>1, <2>2 DEF Ingest
  <2>3. CASE ~ already_known(snap[h], l, o)
    <3>1. s.received \in Times
      BY <1>1 DEF TypeOK
    <3>2. append_observation(txn[h], l, rev, o, s.received, s.crawl, dv, s.fingerprint)
            \in Databases
      BY <1>1, <1>2, <1>3, <3>1, AppendObservationType
    <3> QED BY <2>3, <3>2 DEF Ingest
  <2> QED BY <2>2, <2>3
<1>9. \E q \in Snaps : snap' = [snap EXCEPT ![h] = q]
  <2> HIDE DEF meta
  <2>1. CASE already_known(snap[h], l, o)
    <3>1. [snap[h] EXCEPT !.meta = meta] \in Snaps
      BY <1>1, <1>4 DEF Snaps
    <3>2. snap' = [snap EXCEPT ![h] = [snap[h] EXCEPT !.meta = meta]]
      BY <2>1 DEF Ingest, meta, TypeOK
    <3> QED BY <3>1, <3>2
  <2>2. CASE ~ already_known(snap[h], l, o)
    <3> DEFINE g == fold_ingest(f, l, o, s.received)
    <3>1. g \in [LocalIds -> Seq(FoldEntries)]
      <4>1. [obs |-> o, received |-> s.received] \in FoldEntries
        BY <1>1, <1>3 DEF TypeOK, FoldEntries
      <4> QED BY <1>3, <4>1 DEF fold_ingest
    <3>2. snap' = [snap EXCEPT ![h] = [snap[h] EXCEPT !.meta = meta, !.fold = g]]
      BY <2>2 DEF Ingest, meta, TypeOK
    <3> HIDE DEF g
    <3>3. [snap[h] EXCEPT !.meta = meta, !.fold = g] \in Snaps
      BY <1>1, <1>4, <3>1 DEF Snaps
    <3> QED BY <3>2, <3>3
  <2> QED BY <2>1, <2>2
<1>10. /\ snap' \in [Hosts -> Snaps \cup {None}]
       /\ \A k \in Hosts : Sweeping(k) => snap'[k] \in Snaps
       /\ txn' \in [Hosts -> Databases \cup {None}]
       /\ \A k \in Hosts : InTxn(k) => txn'[k] \in Databases
  BY <1>8, <1>9 DEF TypeOK
<1> QED BY <1>1, <1>7, <1>10 DEF TypeOK, Ingest, Sweeping, InTxn

(* A page that is not the last. *)
LEMMA CommitPageType ==
  ASSUME TypeOK, NEW h \in Hosts, CommitPage(h) PROVE TypeOK'
<1> DEFINE s == sweep[h]
<1>1. s \in Sweeps /\ txn[h] \in Databases /\ Sweeping(h) /\ pc[h] # "idle"
  BY DEF TypeOK, CommitPage, Sweeping, InTxn
<1>2. next_request(s) \in Cursors \cup {None} /\ s.crawl \in Nat
  BY <1>1 DEF next_request, Sweeps
<1>3. db' \in Databases
  BY <1>1, <1>2, SetCursorType DEF CommitPage
<1>4. sweep' = [sweep EXCEPT ![h] =
        [s EXCEPT !.pageNo = s.pageNo + 1, !.received = None, !.room = 0]]
  BY DEF CommitPage, TypeOK
<1>5. [s EXCEPT !.pageNo = s.pageNo + 1, !.received = None, !.room = 0] \in Sweeps
  <2> DEFINE n == s.pageNo + 1
  <2>1. n \in Nat
    BY <1>1 DEF Sweeps
  <2> HIDE DEF n
  <2>2. [s EXCEPT !.pageNo = n, !.received = None, !.room = 0] \in Sweeps
    BY <1>1, <2>1 DEF Sweeps
  <2> QED BY <2>2 DEF n
<1>6. /\ sweep' \in [Hosts -> Sweeps \cup {None}]
      /\ \A k \in Hosts : Sweeping(k) => sweep'[k] \in Sweeps
      /\ \A k \in Hosts \ {h} : sweep'[k] = sweep[k]
  BY <1>4, <1>5 DEF TypeOK
<1> QED BY <1>1, <1>3, <1>6 DEF TypeOK, CommitPage, Phases, Sweeping, InTxn

(* The judgement of the last page. *)
LEMMA JudgeSweepType ==
  ASSUME TypeOK, NEW h \in Hosts, JudgeSweep(h) PROVE TypeOK'
<1> DEFINE reason == disqualifier(conn[h], sweep[h], violated[h])
<1>1. /\ sweep[h] \in Sweeps /\ snap[h] \in Snaps /\ conn[h] \in Conns
      /\ txn[h] \in Databases /\ Sweeping(h) /\ InTxn(h)
  BY DEF TypeOK, JudgeSweep, Sweeping, InTxn
<1>2. reason \in Disqualifications \cup {None}
  BY DEF disqualifier, Disqualifications
<1> HIDE DEF reason
<1>3. settle(txn[h], conn[h], sweep[h], snap[h], reason) \in Databases
  BY <1>1, <1>2, SettleType
<1>4. txn' = [txn EXCEPT ![h] = settle(txn[h], conn[h], sweep[h], snap[h], reason)]
  BY DEF JudgeSweep, reason
<1>5. /\ txn' \in [Hosts -> Databases \cup {None}]
      /\ \A k \in Hosts : InTxn(k) => txn'[k] \in Databases
  BY <1>3, <1>4 DEF TypeOK
<1> QED BY <1>1, <1>5 DEF TypeOK, JudgeSweep, Phases, Sweeping, InTxn

(* Every step of every host, and of no host. *)
LEMMA StepType == TypeOK /\ [Next]_vars => TypeOK'
<1> SUFFICES ASSUME TypeOK, [Next]_vars PROVE TypeOK'
  OBVIOUS
<1>1. ASSUME NEW h \in Hosts, Connect(h) PROVE TypeOK'
  BY <1>1, ConnectType
<1>2. ASSUME NEW h \in Hosts, Publish(h) PROVE TypeOK'
  BY <1>2, PublishType
<1>3. ASSUME NEW h \in Hosts, Crash(h) \/ Disconnect(h) PROVE TypeOK'
  BY <1>3, ForgetType DEF Crash, Disconnect
<1>4. ASSUME NEW h \in Hosts, StartSweep(h) PROVE TypeOK'
  BY <1>4, StartSweepType
<1>5. ASSUME NEW h \in Hosts, ReadFails(h) \/ PageLimit(h) PROVE TypeOK'
  BY <1>5, ReadFailsType, PageLimitType
<1>6. ASSUME NEW h \in Hosts, PageArrives(h) PROVE TypeOK'
  BY <1>6, PageArrivesType
<1>7. ASSUME NEW h \in Hosts, NEW l \in LocalIds, NEW o \in Reportable, Ingest(h, l, o)
      PROVE  TypeOK'
  BY <1>7, IngestType
<1>8. ASSUME NEW h \in Hosts, CommitPage(h) PROVE TypeOK'
  BY <1>8, CommitPageType
<1>9. ASSUME NEW h \in Hosts, JudgeSweep(h) PROVE TypeOK'
  BY <1>9, JudgeSweepType
<1>10. ASSUME NEW h \in Hosts, CommitSweep(h) PROVE TypeOK'
  BY <1>10, CommitSweepType
<1>11. CASE UNCHANGED vars
  BY <1>11 DEF vars, TypeOK, Sweeping, InTxn
<1> QED BY <1>1, <1>2, <1>3, <1>4, <1>5, <1>6, <1>7, <1>8, <1>9, <1>10, <1>11
        DEF Next, HostStep

(* Every reachable state is well typed: the store stays a store, and a host
   in the middle of a page has a page, a snapshot and a transaction, whatever
   the adapter sends and wherever the host dies. *)
THEOREM TypeCorrect == Spec => []TypeOK
BY InitType, StepType, PTL DEF Spec

-----------------------------------------------------------------------------
(***************************************************************************)
(* The writer lock keeps what a sweep loaded current, and the verdict lock  *)
(* keeps a caught connection from retracting, for every number of hosts,    *)
(* pages, records and crawls.  The history of a profile only grows, and     *)
(* what a sweep has observed is alive for as long as the sweep lasts.       *)
(***************************************************************************)

(* Which tables an operation leaves alone. *)

(* The crawl table's operations and the definition's write no observation
   and no retraction. *)
LEMMA CrawlOpsKeep ==
  ASSUME NEW d \in Databases
  PROVE  /\ \A r, st, dv, fp : /\ open_crawl(d, r, st, dv, fp).chain = d.chain
                               /\ open_crawl(d, r, st, dv, fp).retraction = d.retraction
         /\ \A c, n : /\ set_crawl_cursor(d, c, n).chain = d.chain
                      /\ set_crawl_cursor(d, c, n).retraction = d.retraction
         /\ \A c, x, y, z : /\ finish_crawl(d, c, x, y, z).chain = d.chain
                            /\ finish_crawl(d, c, x, y, z).retraction = d.retraction
         /\ \A dv : /\ set_adapter_derivation(d, dv).chain = d.chain
                    /\ set_adapter_derivation(d, dv).retraction = d.retraction
         /\ \A r, fp, v : /\ set_resource_definition(d, r, fp, v).chain = d.chain
                          /\ set_resource_definition(d, r, fp, v).retraction = d.retraction
BY DEF Databases, open_crawl, set_crawl_cursor, finish_crawl, set_adapter_derivation,
       set_resource_definition

(* Deriving retractions rewrites no observation. *)
LEMMA DeriveKeeps ==
  ASSUME NEW d \in Databases, NEW c, NEW s, NEW sn
  PROVE  derive_retractions(d, c, s, sn).chain = d.chain
BY DEF Databases, derive_retractions, append_retractions, append_discrepancies

(* The last page's transaction rewrites no observation after ingestion, and a
   disqualified sweep retracts nothing. *)
LEMMA SettleKeeps ==
  ASSUME NEW d \in Databases, NEW c \in Conns, NEW s \in Sweeps, NEW sn \in Snaps,
         NEW reason \in Disqualifications \cup {None}
  PROVE  /\ settle(d, c, s, sn, reason).chain = d.chain
         /\ reason # None => settle(d, c, s, sn, reason).retraction = d.retraction
<1> DEFINE d1 == IF reason = None THEN derive_retractions(d, c, s, sn) ELSE d
           d2 == set_adapter_derivation(d1, c.derivation)
           v  == IF reason = None THEN s.vantage ELSE None
           d3 == set_resource_definition(d2, s.resource, s.fingerprint, v)
<1>1. /\ s.resource \in Resources /\ c.derivation \in Derivations
      /\ s.fingerprint \in Fingerprints /\ v \in Vantages \cup {None}
  BY DEF Sweeps, Conns
<1>2. d1 \in Databases /\ d1.chain = d.chain /\ (reason # None => d1 = d)
  BY DeriveType, DeriveKeeps
<1> HIDE DEF d1
<1>3. d2 \in Databases /\ d2.chain = d1.chain /\ d2.retraction = d1.retraction
  BY <1>1, <1>2, Tables, CrawlOpsKeep DEF set_adapter_derivation
<1> HIDE DEF d2, v
<1>4. d3 \in Databases /\ d3.chain = d2.chain /\ d3.retraction = d2.retraction
  BY <1>1, <1>3, DefinitionType, CrawlOpsKeep
<1>5. settle(d, c, s, sn, reason)
        = finish_crawl(d3, s.crawl, s.page = "drained", reason = None, reason)
  BY DEF settle, d1, d2, v
<1> HIDE DEF d3
<1> QED BY <1>2, <1>3, <1>4, <1>5, CrawlOpsKeep

-----------------------------------------------------------------------------
(* The fold and the stored rows. *)

(* What the fold and the rules of a record's head depend on. *)
LEMMA ReplayIsOfChains ==
  ASSUME NEW d \in Databases, NEW e \in Databases, d.chain = e.chain
  PROVE  Replay(d) = Replay(e) /\ head_meta(d) = head_meta(e)
BY DEF Replay, head_meta

(* The rules of one record's head depend on that record's chain alone. *)
LEMMA HeadMetaIsLocal ==
  ASSUME NEW d \in Databases, NEW e \in Databases, NEW l \in LocalIds,
         d.chain[l] = e.chain[l]
  PROVE  head_meta(d)[l] = head_meta(e)[l]
<1>1. Replay(d)[l] = Replay(e)[l]
  BY DEF Replay
<1> QED BY <1>1 DEF head_meta

(* Replaying a store with one more row is ingesting one more observation:
   the fold in memory and the table on disk grow alike. *)
LEMMA ReplayOfAppend ==
  ASSUME NEW d \in Databases, NEW l \in LocalIds, NEW rev, NEW o, NEW at,
         NEW c, NEW dv, NEW fp
  PROVE  Replay(append_observation(d, l, rev, o, at, c, dv, fp))
           = fold_ingest(Replay(d), l, o, at)
<1> DEFINE e == append_observation(d, l, rev, o, at, c, dv, fp)
           row == [obs |-> o, received |-> at, revision |-> rev, crawl |-> c,
                   lastSeen |-> c, derivation |-> dv, fingerprint |-> fp]
           g == fold_ingest(Replay(d), l, o, at)
<1>1. d.chain \in [LocalIds -> Seq(Rows)]
  BY Tables DEF Chains
<1>2. e.chain = [d.chain EXCEPT ![l] = Append(@, row)]
  BY DEF append_observation, Databases
<1>3. g = [Replay(d) EXCEPT ![l] = Append(@, [obs |-> o, received |-> at])]
  BY DEF fold_ingest
<1>4. ASSUME NEW k \in LocalIds PROVE Replay(e)[k] = g[k]
  <2>1. CASE k # l
    BY <1>1, <1>2, <1>3, <2>1 DEF Replay
  <2>2. CASE k = l
    <3> DEFINE s == d.chain[l]
               n == Len(s)
               t == [i \in 1..n |-> [obs |-> s[i].obs, received |-> s[i].received]]
               x == Append(s, row)
               y == [i \in 1..Len(x) |-> [obs |-> x[i].obs, received |-> x[i].received]]
    <3>1. s \in Seq(Rows) /\ n \in Nat
      BY <1>1
    <3>2. Len(x) = n + 1 /\ (\A i \in 1..n : x[i] = s[i]) /\ x[n + 1] = row
      <4>1. s \in Seq(Rows \cup {row}) /\ row \in Rows \cup {row}
        BY <3>1
      <4> HIDE DEF s, row
      <4> QED BY <4>1, AppendProperties
    <3>3. Replay(e)[k] = y /\ g[k] = Append(t, [obs |-> o, received |-> at])
      BY <1>1, <1>2, <1>3, <2>2 DEF Replay
    <3>4. y = Append(t, [obs |-> o, received |-> at])
      <4> DEFINE z == [obs |-> o, received |-> at]
      <4>1. row.obs = o /\ row.received = at
        OBVIOUS
      <4>2. t \in Seq({t[i] : i \in 1..n} \cup {z}) /\ Len(t) = n
        BY <3>1
      <4>3. /\ Append(t, z) \in Seq({t[i] : i \in 1..n} \cup {z})
            /\ Len(Append(t, z)) = n + 1
            /\ \A i \in 1..n : Append(t, z)[i] = t[i]
            /\ Append(t, z)[n + 1] = z
        <5> HIDE DEF t, z, n
        <5> QED BY <4>2, <3>1, AppendProperties
      <4>4. \A i \in 1..n+1 : y[i] = Append(t, z)[i]
        <5> SUFFICES ASSUME NEW i \in 1..n+1 PROVE y[i] = Append(t, z)[i]
          OBVIOUS
        <5>1. CASE i \in 1..n
          <6>1. y[i] = [obs |-> s[i].obs, received |-> s[i].received]
            BY <3>2, <5>1
          <6> HIDE DEF x, row, s, z, y
          <6> QED BY <4>3, <5>1, <6>1
        <5>2. CASE i = n + 1
          <6>1. y[i] = [obs |-> row.obs, received |-> row.received]
            BY <3>2, <5>2
          <6> QED BY <4>1, <4>3, <5>2, <6>1
        <5> QED BY <3>1, <5>1, <5>2
      <4>5. y = [i \in 1..n+1 |-> y[i]]
        BY <3>2
      <4>6. Append(t, z) = [i \in 1..n+1 |-> Append(t, z)[i]]
        <5> DEFINE T == {t[i] : i \in 1..n} \cup {z}
                   w == Append(t, z)
        <5>1. w \in Seq(T) /\ Len(w) = n + 1
          BY <4>3
        <5> HIDE DEF T, w
        <5>2. w \in [1..Len(w) -> T]
          BY <5>1, LenProperties
        <5> QED BY <5>1, <5>2 DEF w
      <4> DEFINE w == Append(t, z)
      <4> HIDE DEF y, w
      <4>7. y = w
        BY <4>4, <4>5, <4>6 DEF w
      <4> QED BY <4>7 DEF w
    <3> QED BY <3>3, <3>4
  <2> QED BY <2>1, <2>2
<1>5. Replay(e) = [k \in LocalIds |-> Replay(e)[k]] /\ g = [k \in LocalIds |-> g[k]]
  BY <1>3 DEF Replay
<1> HIDE DEF e, g
<1> QED BY <1>4, <1>5 DEF e, g

(* Stamping a row leaves what the fold replays. *)
LEMMA ReplayOfStamp ==
  ASSUME NEW d \in Databases, NEW l \in LocalIds, NEW rev, NEW c, NEW dv, NEW fp
  PROVE  Replay(stamp_seen(d, l, rev, c, dv, fp)) = Replay(d)
<1> DEFINE e == stamp_seen(d, l, rev, c, dv, fp)
           stamped == [i \in 1..Len(d.chain[l]) |->
                         IF d.chain[l][i].revision = rev
                         THEN [d.chain[l][i] EXCEPT !.lastSeen = c,
                                                    !.derivation = dv,
                                                    !.fingerprint = fp]
                         ELSE d.chain[l][i]]
<1>1. d.chain \in [LocalIds -> Seq(Rows)]
  BY Tables DEF Chains
<1>2. e.chain = [d.chain EXCEPT ![l] = stamped]
  BY DEF stamp_seen, Databases
<1>3. Len(stamped) = Len(d.chain[l])
  BY <1>1
<1>4. \A i \in 1..Len(d.chain[l]) : stamped[i].obs = d.chain[l][i].obs
                                     /\ stamped[i].received = d.chain[l][i].received
  <2>1. \A i \in 1..Len(d.chain[l]) : d.chain[l][i] \in Rows
    BY <1>1
  <2> QED BY <2>1 DEF Rows
<1> HIDE DEF stamped, e
<1>5. \A k \in LocalIds : Replay(e)[k] = Replay(d)[k]
  BY <1>1, <1>2, <1>3, <1>4 DEF Replay
<1>6. Replay(e) = [k \in LocalIds |-> Replay(e)[k]] /\ Replay(d) = [k \in LocalIds |-> Replay(d)[k]]
  BY DEF Replay
<1> QED BY <1>5, <1>6 DEF e

-----------------------------------------------------------------------------
(***************************************************************************)
(* The inductive invariant.                                                 *)
(***************************************************************************)

(* Only the host holding the profile's lock is past Profile::lock. *)
WriterHoldsLock == \A h \in Hosts : pc[h] # "idle" => lock = h

(* What holds of one host.  A transaction still ingesting has retracted
   nothing; one that has retracted was judged on a clean connection. *)
HostInv(h) ==
  /\ Sweeping(h) => Current(h)
  /\ InTxn(h) => RevisionsOf(txn[h])
  /\ pc[h] = "ingesting" => txn[h].retraction = db.retraction
  /\ pc[h] = "committing" => \/ txn[h].retraction = db.retraction
                             \/ ~ violated[h] /\ ~ conn[h].taint /\ SawAll(h)

SweepInv ==
  /\ WriterHoldsLock
  /\ RevisionsOf(db)
  /\ \A h \in Hosts : HostInv(h)

(* One writer: while a host works, every other host is idle. *)
LEMMA OthersIdle ==
  ASSUME TypeOK, WriterHoldsLock, NEW h \in Hosts, pc[h] # "idle"
  PROVE  \A k \in Hosts \ {h} : pc[k] = "idle"
BY DEF WriterHoldsLock

(* A step of the host holding the lock keeps the lock and the other hosts
   idle, so the invariant need only be shown for that host. *)
LEMMA WriterStep ==
  ASSUME TypeOK, TypeOK', SweepInv, NEW h \in Hosts, pc[h] # "idle",
         lock' = lock, \A k \in Hosts \ {h} : pc'[k] = pc[k],
         RevisionsOf(db)', HostInv(h)'
  PROVE  SweepInv'
<1>1. \A k \in Hosts \ {h} : pc'[k] = "idle"
  BY OthersIdle DEF SweepInv
<1>2. WriterHoldsLock'
  BY <1>1 DEF WriterHoldsLock, SweepInv
<1>3. \A k \in Hosts \ {h} : HostInv(k)'
  BY <1>1 DEF HostInv, Sweeping, InTxn
<1> QED BY <1>2, <1>3 DEF SweepInv

(* Revisions in arrival order, restated for one chain. *)
LEMMA RevisionsOfChain ==
  ASSUME NEW d, NEW e, d.chain = e.chain, RevisionsOf(d) PROVE RevisionsOf(e)
BY DEF RevisionsOf

(* The first state. *)
LEMMA InitInv == Init => SweepInv
<1> SUFFICES ASSUME Init PROVE SweepInv
  OBVIOUS
<1>1. RevisionsOf(db)
  BY DEF Init, EmptyDatabase, RevisionsOf
<1> QED BY <1>1 DEF Init, SweepInv, WriterHoldsLock, HostInv, Sweeping, InTxn

(* Taking the lock. *)
LEMMA ConnectInv ==
  ASSUME TypeOK, SweepInv, NEW h \in Hosts, Connect(h) PROVE SweepInv'
<1>1. \A k \in Hosts : pc[k] = "idle"
  BY BoundsAssumption DEF SweepInv, WriterHoldsLock, Connect, LockFree
<1>2. pc' = [pc EXCEPT ![h] = "connected"] /\ lock' = h /\ db' = db
  BY DEF Connect
<1>3. \A k \in Hosts : pc'[k] = IF k = h THEN "connected" ELSE "idle"
  BY <1>1, <1>2 DEF TypeOK
<1>4. WriterHoldsLock'
  BY <1>2, <1>3 DEF WriterHoldsLock
<1>5. \A k \in Hosts : HostInv(k)'
  BY <1>3 DEF HostInv, Sweeping, InTxn
<1> QED BY <1>2, <1>4, <1>5 DEF SweepInv, RevisionsOf

(* Releasing it, by exit or by death. *)
LEMMA ForgetInv ==
  ASSUME TypeOK, SweepInv, NEW h \in Hosts, pc[h] # "idle", Forget(h)
  PROVE  SweepInv'
<1>1. \A k \in Hosts : pc'[k] = "idle"
  BY OthersIdle DEF SweepInv, Forget, TypeOK
<1> QED BY <1>1 DEF Forget, SweepInv, WriterHoldsLock, HostInv, Sweeping, InTxn, RevisionsOf

(* The reader thread publishing a violation: never inside the critical
   section of the commit. *)
LEMMA PublishInv ==
  ASSUME TypeOK, TypeOK', SweepInv, NEW h \in Hosts, Publish(h) PROVE SweepInv'
<1>1. pc' = pc /\ lock' = lock /\ db' = db /\ snap' = snap /\ txn' = txn /\ sweep' = sweep
  BY DEF Publish
<1>2. HostInv(h)'
  BY <1>1 DEF Publish, SweepInv, HostInv, Sweeping, InTxn, Current, View, RevisionsOf
<1>3. RevisionsOf(db)'
  BY <1>1 DEF SweepInv, RevisionsOf
<1> QED BY <1>1, <1>2, <1>3, WriterStep DEF Publish

(* Loading the snapshot. *)
LEMMA StartSweepInv ==
  ASSUME TypeOK, TypeOK', SweepInv, NEW h \in Hosts, StartSweep(h) PROVE SweepInv'
<1>1. db \in Databases /\ db' \in Databases
  BY DEF TypeOK
<1>2. db'.chain = db.chain /\ db'.retraction = db.retraction
  <2>1. PICK fp, st : db' = open_crawl(db, Head(conn[h].todo), st, conn[h].derivation, fp)
    BY DEF StartSweep
  <2> QED BY <1>1, <2>1, CrawlOpsKeep
<1>3. pc' = [pc EXCEPT ![h] = "reading"] /\ lock' = lock /\ pc'[h] = "reading"
  BY DEF StartSweep, TypeOK
<1>4. snap'[h] = load_snapshot(db)
  BY DEF StartSweep, TypeOK
<1>5. Replay(db') = Replay(db) /\ head_meta(db') = head_meta(db)
  BY <1>1, <1>2, ReplayIsOfChains
<1>6. Current(h)'
  BY <1>2, <1>3, <1>4, <1>5
     DEF Current, View, InTxn, load_snapshot, retraction_high_water
<1>7. RevisionsOf(db)'
  BY <1>2, RevisionsOfChain DEF SweepInv
<1>8. HostInv(h)'
  BY <1>3, <1>6 DEF HostInv, InTxn
<1> QED BY <1>3, <1>7, <1>8, WriterStep DEF StartSweep

(* A sweep that ends without its last page. *)
LEMMA EndSweepInv ==
  ASSUME TypeOK, TypeOK', SweepInv, NEW h \in Hosts, EndSweep(h), pc[h] # "idle",
         lock' = lock, RevisionsOf(db)'
  PROVE  SweepInv'
<1>1. pc'[h] = "connected" /\ \A k \in Hosts \ {h} : pc'[k] = pc[k]
  BY DEF EndSweep, TypeOK
<1>2. HostInv(h)'
  BY <1>1 DEF HostInv, Sweeping, InTxn
<1> QED BY <1>1, <1>2, WriterStep

(* A sweep that fails preserves the invariant. *)
LEMMA FailInv ==
  ASSUME TypeOK, TypeOK', SweepInv, NEW h \in Hosts, ReadFails(h) \/ PageLimit(h)
  PROVE  SweepInv'
<1>1. db \in Databases
  BY DEF TypeOK
<1>2. PICK z : db' = finish_crawl(db, sweep[h].crawl, FALSE, FALSE, z)
  BY DEF ReadFails, PageLimit
<1>3. db'.chain = db.chain
  BY <1>1, <1>2 DEF finish_crawl, Databases
<1>4. RevisionsOf(db)'
  BY <1>3, RevisionsOfChain DEF SweepInv
<1> QED BY <1>4, EndSweepInv DEF ReadFails, PageLimit

(* Opening a page's transaction. *)
LEMMA PageArrivesInv ==
  ASSUME TypeOK, TypeOK', SweepInv, NEW h \in Hosts, PageArrives(h) PROVE SweepInv'
<1>1. /\ pc[h] = "reading" /\ pc'[h] = "ingesting" /\ txn'[h] = db
      /\ db' = db /\ lock' = lock /\ snap' = snap
      /\ \A k \in Hosts \ {h} : pc'[k] = pc[k]
  BY DEF PageArrives, TypeOK
<1>2. sweep'[h].observed = sweep[h].observed
  BY PageArrivesSweep DEF TypeOK, SameSweep
<1>3. Current(h)
  BY <1>1 DEF SweepInv, HostInv, Sweeping
<1>4. Current(h)'
  BY <1>1, <1>2, <1>3 DEF Current, View, InTxn
<1>5. HostInv(h)'
  BY <1>1, <1>4 DEF HostInv, SweepInv, RevisionsOf
<1>6. RevisionsOf(db)'
  BY <1>1 DEF SweepInv, RevisionsOf
<1> QED BY <1>1, <1>5, <1>6, WriterStep

(* The rows of a chain keep their places as revisions. *)
LEMMA StampRevisions ==
  ASSUME NEW d \in Databases, NEW l \in LocalIds, NEW rev, NEW c, NEW dv, NEW fp,
         RevisionsOf(d)
  PROVE  /\ RevisionsOf(stamp_seen(d, l, rev, c, dv, fp))
         /\ stamp_seen(d, l, rev, c, dv, fp).retraction = d.retraction
         /\ \A k \in LocalIds \ {l} :
              stamp_seen(d, l, rev, c, dv, fp).chain[k] = d.chain[k]
<1> DEFINE e == stamp_seen(d, l, rev, c, dv, fp)
           stamped == [i \in 1..Len(d.chain[l]) |->
                         IF d.chain[l][i].revision = rev
                         THEN [d.chain[l][i] EXCEPT !.lastSeen = c,
                                                    !.derivation = dv,
                                                    !.fingerprint = fp]
                         ELSE d.chain[l][i]]
<1>1. d.chain \in [LocalIds -> Seq(Rows)]
  BY Tables DEF Chains
<1>2. e.chain = [d.chain EXCEPT ![l] = stamped] /\ e.retraction = d.retraction
  BY DEF stamp_seen, Databases
<1>3. Len(stamped) = Len(d.chain[l])
  BY <1>1
<1>4. \A i \in 1..Len(d.chain[l]) : stamped[i].revision = i
  <2>1. \A i \in 1..Len(d.chain[l]) : d.chain[l][i] \in Rows
    BY <1>1
  <2> QED BY <2>1 DEF Rows, RevisionsOf
<1> HIDE DEF stamped, e
<1>5. RevisionsOf(e)
  BY <1>1, <1>2, <1>3, <1>4 DEF RevisionsOf
<1> QED BY <1>1, <1>2, <1>5 DEF e

(* A new row's revision is the next place of its chain. *)
LEMMA AppendRevisions ==
  ASSUME NEW d \in Databases, NEW l \in LocalIds, NEW n \in Nat, NEW rev \in Nat,
         NEW o, NEW at, NEW c, NEW dv, NEW fp,
         RevisionsOf(d), n = Len(d.chain[l]), rev = n + 1
  PROVE  /\ RevisionsOf(append_observation(d, l, rev, o, at, c, dv, fp))
         /\ append_observation(d, l, rev, o, at, c, dv, fp).retraction = d.retraction
         /\ \A k \in LocalIds \ {l} :
              append_observation(d, l, rev, o, at, c, dv, fp).chain[k] = d.chain[k]
<1> DEFINE e == append_observation(d, l, rev, o, at, c, dv, fp)
           row == [obs |-> o, received |-> at, revision |-> rev, crawl |-> c,
                   lastSeen |-> c, derivation |-> dv, fingerprint |-> fp]
           s == d.chain[l]
           x == Append(s, row)
<1>1. d.chain \in [LocalIds -> Seq(Rows)]
  BY Tables DEF Chains
<1>2. e.chain = [d.chain EXCEPT ![l] = x] /\ e.retraction = d.retraction
  BY DEF append_observation, Databases
<1>3. s \in Seq(Rows \cup {row}) /\ row \in Rows \cup {row} /\ Len(s) \in Nat
  BY <1>1
<1>4. row.revision = Len(s) + 1
  OBVIOUS
<1>5. Len(x) = Len(s) + 1 /\ (\A i \in 1..Len(s) : x[i] = s[i]) /\ x[Len(s) + 1] = row
  <2> HIDE DEF s, row
  <2> QED BY <1>3, AppendProperties
<1>6. \A i \in 1..Len(x) : x[i].revision = i
  <2> HIDE DEF row, x
  <2> QED BY <1>3, <1>4, <1>5 DEF RevisionsOf
<1> HIDE DEF e, x
<1>7. RevisionsOf(e)
  BY <1>1, <1>2, <1>6 DEF RevisionsOf
<1> QED BY <1>1, <1>2, <1>7 DEF e

(* One observation: the fold in memory follows the rows in the transaction. *)
LEMMA IngestInv ==
  ASSUME TypeOK, TypeOK', SweepInv, NEW h \in Hosts, NEW l \in LocalIds,
         NEW o \in Reportable, Ingest(h, l, o)
  PROVE  SweepInv'
<1> DEFINE s    == sweep[h]
           f    == snap[h].fold
           dv   == conn[h].derivation
           rev  == highest_revision(f[l]) + 1
           meta == [snap[h].meta EXCEPT ![l] =
                      [derivation |-> dv, fingerprint |-> s.fingerprint]]
<1>1. /\ pc[h] = "ingesting" /\ pc' = pc /\ lock' = lock /\ db' = db
      /\ Sweeping(h) /\ InTxn(h)
  BY DEF Ingest, Sweeping, InTxn
<1>2. /\ Current(h) /\ RevisionsOf(txn[h]) /\ txn[h].retraction = db.retraction
      /\ txn[h] \in Databases /\ snap[h] \in Snaps /\ s \in Sweeps
      /\ txn'[h] \in Databases /\ snap'[h] \in Snaps
  BY <1>1 DEF SweepInv, HostInv, TypeOK, Sweeping, InTxn
<1>3. f = Replay(txn[h])
  BY <1>1, <1>2 DEF Current, View
<1>4. sweep'[h].observed = s.observed \cup {l}
  <2>1. sweep' = [sweep EXCEPT ![h].observed = @ \cup {l}, ![h].room = @ - 1]
    BY DEF Ingest
  <2>2. sweep \in [Hosts -> Sweeps \cup {None}]
    BY DEF TypeOK
  <2> QED BY <1>2, <2>1, <2>2 DEF Sweeps
<1>5. \A k \in LocalIds \ {l} : snap'[h].meta[k] = snap[h].meta[k]
  BY <1>2 DEF Ingest, TypeOK, Snaps
<1>6. snap'[h].buried = snap[h].buried
  BY <1>2 DEF Ingest, TypeOK, Snaps
<1>7. /\ snap'[h].fold = Replay(txn'[h])
      /\ RevisionsOf(txn'[h])
      /\ txn'[h].retraction = txn[h].retraction
      /\ \A k \in LocalIds \ {l} : txn'[h].chain[k] = txn[h].chain[k]
  <2>1. CASE already_known(snap[h], l, o)
    <3>1. txn'[h] = stamp_seen(txn[h], l, head_revision(f[l]), s.crawl, dv, s.fingerprint)
      BY <2>1 DEF Ingest, TypeOK
    <3>2. snap'[h].fold = f
      BY <1>2, <2>1 DEF Ingest, TypeOK, Snaps
    <3> QED BY <1>2, <1>3, <3>1, <3>2, ReplayOfStamp, StampRevisions
  <2>2. CASE ~ already_known(snap[h], l, o)
    <3>1. txn'[h] = append_observation(txn[h], l, rev, o, s.received, s.crawl, dv,
                                       s.fingerprint)
      BY <2>2 DEF Ingest, TypeOK
    <3>2. snap'[h].fold = fold_ingest(f, l, o, s.received)
      BY <1>2, <2>2 DEF Ingest, TypeOK, Snaps
    <3>3. rev = Len(txn[h].chain[l]) + 1
      <4>1. txn[h].chain[l] \in Seq(Rows)
        BY <1>2, Tables DEF Chains
      <4> QED BY <1>3, <4>1 DEF Replay, highest_revision
    <3> HIDE DEF rev
    <3>4. Replay(txn'[h]) = fold_ingest(Replay(txn[h]), l, o, s.received)
      BY <1>2, <3>1, ReplayOfAppend
    <3>5. /\ RevisionsOf(txn'[h])
          /\ txn'[h].retraction = txn[h].retraction
          /\ \A k \in LocalIds \ {l} : txn'[h].chain[k] = txn[h].chain[k]
      <4> DEFINE d == txn[h]
                 at == s.received
                 c == s.crawl
                 fp == s.fingerprint
                 n == Len(d.chain[l])
      <4>1. d \in Databases /\ RevisionsOf(d)
        BY <1>2
      <4>2. n \in Nat /\ rev \in Nat /\ rev = n + 1
        BY <1>2, <3>3, Tables DEF Chains
      <4> HIDE DEF d, at, c, fp, dv
      <4>3. /\ RevisionsOf(append_observation(d, l, rev, o, at, c, dv, fp))
            /\ append_observation(d, l, rev, o, at, c, dv, fp).retraction = d.retraction
            /\ \A k \in LocalIds \ {l} :
                 append_observation(d, l, rev, o, at, c, dv, fp).chain[k] = d.chain[k]
        BY <4>1, <4>2, AppendRevisions DEF n
      <4> QED BY <3>1, <4>3 DEF d, at, c, fp, dv
    <3> QED BY <1>3, <3>2, <3>4, <3>5
  <2> QED BY <2>1, <2>2
<1>8. \A k \in LocalIds \ {l} : head_meta(txn'[h])[k] = head_meta(txn[h])[k]
  BY <1>2, <1>7, HeadMetaIsLocal
<1>9. Current(h)'
  BY <1>1, <1>2, <1>4, <1>5, <1>6, <1>7, <1>8 DEF Current, View, InTxn
<1>10. HostInv(h)'
  BY <1>1, <1>2, <1>7, <1>9 DEF HostInv
<1>11. RevisionsOf(db)'
  BY <1>1 DEF SweepInv, RevisionsOf
<1> QED BY <1>1, <1>10, <1>11, WriterStep

(* Committing a page. *)
LEMMA CommitPageInv ==
  ASSUME TypeOK, TypeOK', SweepInv, NEW h \in Hosts, CommitPage(h) PROVE SweepInv'
<1>1. /\ pc[h] = "ingesting" /\ pc'[h] = "reading" /\ lock' = lock /\ snap' = snap
      /\ Sweeping(h) /\ InTxn(h)
      /\ \A k \in Hosts \ {h} : pc'[k] = pc[k]
  BY DEF CommitPage, Sweeping, InTxn, TypeOK
<1>2. /\ Current(h) /\ RevisionsOf(txn[h]) /\ txn[h].retraction = db.retraction
      /\ txn[h] \in Databases /\ sweep[h] \in Sweeps /\ db' \in Databases
  BY <1>1 DEF SweepInv, HostInv, TypeOK, Sweeping, InTxn
<1>3. db'.chain = txn[h].chain /\ db'.retraction = txn[h].retraction
  BY <1>2, CrawlOpsKeep DEF CommitPage
<1>4. sweep'[h].observed = sweep[h].observed
  BY <1>2 DEF CommitPage, TypeOK, Sweeps
<1>5. Replay(db') = Replay(txn[h]) /\ head_meta(db') = head_meta(txn[h])
  BY <1>2, <1>3, ReplayIsOfChains
<1>6. Current(h)'
  BY <1>1, <1>2, <1>3, <1>4, <1>5 DEF Current, View, InTxn, retraction_high_water
<1>7. RevisionsOf(db)'
  BY <1>2, <1>3, RevisionsOfChain
<1>8. HostInv(h)'
  BY <1>1, <1>6 DEF HostInv, InTxn
<1> QED BY <1>1, <1>7, <1>8, WriterStep

(* The judgement: a transaction that retracts was judged on a connection
   with neither a verdict nor an inherited violation. *)
LEMMA JudgeSweepInv ==
  ASSUME TypeOK, TypeOK', SweepInv, NEW h \in Hosts, JudgeSweep(h) PROVE SweepInv'
<1> DEFINE reason == disqualifier(conn[h], sweep[h], violated[h])
<1>1. /\ pc[h] = "ingesting" /\ pc'[h] = "committing" /\ lock' = lock /\ db' = db
      /\ snap' = snap /\ sweep' = sweep /\ conn' = conn /\ violated' = violated
      /\ Sweeping(h) /\ InTxn(h)
      /\ \A k \in Hosts \ {h} : pc'[k] = pc[k]
  BY DEF JudgeSweep, Sweeping, InTxn, TypeOK
<1>2. /\ Current(h) /\ RevisionsOf(txn[h]) /\ txn[h].retraction = db.retraction
      /\ txn[h] \in Databases /\ sweep[h] \in Sweeps /\ snap[h] \in Snaps
      /\ conn[h] \in Conns /\ txn'[h] \in Databases
  BY <1>1 DEF SweepInv, HostInv, TypeOK, Sweeping, InTxn
<1>3. reason \in Disqualifications \cup {None}
        /\ (reason = None => ~ violated[h] /\ ~ conn[h].taint /\ SawAll(h))
  <2>1. reason \in Disqualifications \cup {None}
    BY DEF disqualifier, Disqualifications
  <2>2. reason \notin Disqualifications => ~ (conn[h].taint \/ violated[h]) /\ SawAll(h)
    <3>1. sweep[h].faults \subseteq {"not_fetched", "anonymous", "foreign", "inexact"}
      BY <1>2 DEF Sweeps, Faults
    <3> QED BY <3>1 DEF disqualifier, Disqualifications, SawAll
  <2>3. None \notin Disqualifications
    BY ReasonAssumption
  <2> QED BY <2>1, <2>2, <2>3
<1> HIDE DEF reason
<1>4. txn'[h] = settle(txn[h], conn[h], sweep[h], snap[h], reason)
  BY DEF JudgeSweep, TypeOK, reason
<1>5. /\ txn'[h].chain = txn[h].chain
      /\ reason # None => txn'[h].retraction = txn[h].retraction
  BY <1>2, <1>3, <1>4, SettleKeeps
<1>6. Replay(txn'[h]) = Replay(txn[h]) /\ head_meta(txn'[h]) = head_meta(txn[h])
  BY <1>2, <1>5, ReplayIsOfChains
<1>7. Current(h)'
  BY <1>1, <1>2, <1>6 DEF Current, View, InTxn
<1>8. RevisionsOf(txn'[h])
  BY <1>2, <1>5, RevisionsOfChain
<1>9. HostInv(h)'
  BY <1>1, <1>2, <1>3, <1>5, <1>7, <1>8 DEF HostInv, SawAll
<1>10. RevisionsOf(db)'
  BY <1>1 DEF SweepInv, RevisionsOf
<1> QED BY <1>1, <1>9, <1>10, WriterStep

(* The commit of the last page. *)
LEMMA CommitSweepInv ==
  ASSUME TypeOK, TypeOK', SweepInv, NEW h \in Hosts, CommitSweep(h) PROVE SweepInv'
<1>1. RevisionsOf(txn[h]) /\ db' = txn[h]
  BY DEF SweepInv, HostInv, CommitSweep, InTxn
<1>2. RevisionsOf(db)'
  BY <1>1 DEF RevisionsOf
<1> QED BY <1>2, EndSweepInv DEF CommitSweep

(* Every step. *)
LEMMA StepInv == TypeOK /\ TypeOK' /\ SweepInv /\ [Next]_vars => SweepInv'
<1> SUFFICES ASSUME TypeOK, TypeOK', SweepInv, [Next]_vars PROVE SweepInv'
  OBVIOUS
<1>1. ASSUME NEW h \in Hosts, Connect(h) PROVE SweepInv'
  BY <1>1, ConnectInv
<1>2. ASSUME NEW h \in Hosts, Publish(h) PROVE SweepInv'
  BY <1>2, PublishInv
<1>3. ASSUME NEW h \in Hosts, Crash(h) \/ Disconnect(h) PROVE SweepInv'
  BY <1>3, ForgetInv DEF Crash, Disconnect
<1>4. ASSUME NEW h \in Hosts, StartSweep(h) PROVE SweepInv'
  BY <1>4, StartSweepInv
<1>5. ASSUME NEW h \in Hosts, ReadFails(h) \/ PageLimit(h) PROVE SweepInv'
  BY <1>5, FailInv
<1>6. ASSUME NEW h \in Hosts, PageArrives(h) PROVE SweepInv'
  BY <1>6, PageArrivesInv
<1>7. ASSUME NEW h \in Hosts, NEW l \in LocalIds, NEW o \in Reportable, Ingest(h, l, o)
      PROVE  SweepInv'
  BY <1>7, IngestInv
<1>8. ASSUME NEW h \in Hosts, CommitPage(h) PROVE SweepInv'
  BY <1>8, CommitPageInv
<1>9. ASSUME NEW h \in Hosts, JudgeSweep(h) PROVE SweepInv'
  BY <1>9, JudgeSweepInv
<1>10. ASSUME NEW h \in Hosts, CommitSweep(h) PROVE SweepInv'
  BY <1>10, CommitSweepInv
<1>11. CASE UNCHANGED vars
  BY <1>11 DEF vars, SweepInv, WriterHoldsLock, HostInv, Sweeping, InTxn, Current, View,
               RevisionsOf, SawAll
<1> QED BY <1>1, <1>2, <1>3, <1>4, <1>5, <1>6, <1>7, <1>8, <1>9, <1>10, <1>11
        DEF Next, HostStep

(* The inductive invariant holds in every reachable state. *)
THEOREM SweepInvariant == Spec => [](TypeOK /\ SweepInv)
<1>1. Init => TypeOK /\ SweepInv
  BY InitType, InitInv
<1>2. TypeOK /\ SweepInv /\ [Next]_vars => TypeOK' /\ SweepInv'
  BY StepType, StepInv
<1> QED BY <1>1, <1>2, PTL DEF Spec

(* What sweep_resource loaded before its first page is what the store holds
   at every later step of the sweep, however many hosts refresh the profile:
   Profile::lock is held across the whole refresh. *)
THEOREM SnapshotStaysCurrent == Spec => []SnapshotCurrent
<1>1. SweepInv => SnapshotCurrent
  BY DEF SweepInv, HostInv, SnapshotCurrent
<1> QED BY <1>1, SweepInvariant, PTL

(* Revisions handed out by ingest_page are the places of the rows in their
   chains, so (local_id, revision) never names two rows. *)
THEOREM RevisionsFollowArrival == Spec => []RevisionsAreArrivalOrder
<1>1. SweepInv => RevisionsAreArrivalOrder
  BY DEF SweepInv, RevisionsAreArrivalOrder
<1> QED BY <1>1, SweepInvariant, PTL

(* with_contract_violation_held: no retraction commits on a connection the
   reader had caught, or a sibling sweep had caught, before the commit, nor
   from a sweep of which any page had broken a condition of the gate. *)
THEOREM CaughtConnectionsNeverRetract == Spec => NoRetractionOnceViolated
<1> DEFINE Clean == Retracted # {} =>
             \A h \in Hosts : pc[h] = "committing" =>
               ~ violated[h] /\ ~ conn[h].taint /\ SawAll(h)
           Kept == \A h \in Hosts : Sweeping(h) /\ Sweeping(h)' =>
                     sweep[h].faults \subseteq sweep'[h].faults
<1>1. ASSUME TypeOK, SweepInv, [Next]_vars, Retracted # {} PROVE Clean
  <2> SUFFICES ASSUME NEW h \in Hosts, pc[h] = "committing"
               PROVE  ~ violated[h] /\ ~ conn[h].taint /\ SawAll(h)
    OBVIOUS
  <2>1. \A k \in Hosts \ {h} : pc[k] = "idle"
    BY <1>1, OthersIdle DEF SweepInv
  <2>2. db'.retraction # db.retraction
    BY <1>1 DEF Retracted
  <2>3. PICK k \in Hosts : Connect(k) \/ Publish(k) \/ Crash(k) \/ HostStep(k)
    BY <1>1, <2>2 DEF Next, vars
  <2>4. db' # db
    BY <2>2
  <2>5. k = h /\ CommitSweep(h)
    BY <2>1, <2>3, <2>4 DEF Connect, Publish, Crash, Forget, HostStep, StartSweep, ReadFails,
       PageLimit, PageArrives, Ingest, CommitPage, JudgeSweep, CommitSweep, Disconnect, LockFree
  <2>6. db'.retraction = txn[h].retraction
    BY <2>5 DEF CommitSweep
  <2> QED BY <1>1, <2>2, <2>6 DEF SweepInv, HostInv
<1>2. ASSUME TypeOK, [Next]_vars, NEW h \in Hosts, Sweeping(h), Sweeping(h)'
      PROVE  sweep[h].faults \subseteq sweep'[h].faults
  <2>1. sweep[h] \in Sweeps
    BY <1>2 DEF TypeOK
  <2>2. CASE sweep'[h] = sweep[h]
    BY <2>2
  <2>3. CASE sweep'[h] # sweep[h]
    <3>1. PICK k \in Hosts : Connect(k) \/ Publish(k) \/ Crash(k) \/ HostStep(k)
      BY <1>2, <2>3 DEF Next, vars
    <3>2. ~ (Connect(k) \/ Publish(k) \/ StartSweep(k) \/ JudgeSweep(k))
      <4>1. ~ Connect(k) /\ ~ Publish(k) /\ ~ JudgeSweep(k)
        BY <2>3 DEF Connect, Publish, JudgeSweep
      <4>2. ~ StartSweep(k)
        BY <1>2, <2>3 DEF StartSweep, TypeOK, Sweeping
      <4> QED BY <4>1, <4>2
    <3>3. ~ (Crash(k) \/ Disconnect(k) \/ ReadFails(k) \/ PageLimit(k) \/ CommitSweep(k))
      BY <1>2, <2>3 DEF Crash, Disconnect, Forget, ReadFails, PageLimit, CommitSweep, EndSweep,
         TypeOK, Sweeping
    <3>4. CASE PageArrives(k)
      <4>1. k = h
        BY <1>2, <2>3, <3>4 DEF PageArrives, TypeOK
      <4> QED BY <1>2, <3>4, <4>1, PageArrivesSweep DEF SameSweep, TypeOK
    <3>5. CASE CommitPage(k)
      BY <1>2, <2>1, <2>3, <3>5 DEF CommitPage, TypeOK, Sweeps
    <3>6. ASSUME NEW l \in LocalIds, NEW o \in Reportable, Ingest(k, l, o)
          PROVE  sweep[h].faults \subseteq sweep'[h].faults
      BY <1>2, <2>1, <2>3, <3>6 DEF Ingest, TypeOK, Sweeps
    <3> QED BY <3>1, <3>2, <3>3, <3>4, <3>5, <3>6 DEF HostStep
  <2> QED BY <2>2, <2>3
<1>3. TypeOK /\ SweepInv /\ [Next]_vars => [Clean /\ Kept]_vars
  BY <1>1, <1>2
<1> QED BY <1>3, SweepInvariant, PTL DEF Spec, NoRetractionOnceViolated

-----------------------------------------------------------------------------
(* What a database keeps of another. *)

(* e keeps the retractions, the discrepancies and every row's observation. *)
Stays(d, e) ==
  /\ d.retraction \subseteq e.retraction
  /\ d.discrepancy \subseteq e.discrepancy
  /\ \A l \in LocalIds :
       /\ Len(d.chain[l]) <= Len(e.chain[l])
       /\ \A i \in 1..Len(d.chain[l]) : /\ e.chain[l][i].obs = d.chain[l][i].obs
                                        /\ e.chain[l][i].received = d.chain[l][i].received

(* No retraction reaches past the chain it retracts. *)
Within(d) == \A t \in d.retraction : t.revision <= Len(d.chain[t.local])

(* The observed records of a host, none of them buried. *)
Unburied(h) ==
  \A l \in sweep[h].observed :
    ~ is_buried(retraction_high_water(View(h)), l, Len(View(h).chain[l]))

(* A chain has a length. *)
LEMMA ChainLengths ==
  ASSUME NEW d \in Databases, NEW l \in LocalIds
  PROVE  Len(d.chain[l]) \in Nat
<1>1. d.chain \in [LocalIds -> Seq(Rows)]
  BY Tables DEF Chains
<1> QED BY <1>1

(* A fold replays a chain entry by entry. *)
LEMMA ReplayLengths ==
  ASSUME NEW d \in Databases, NEW l \in LocalIds
  PROVE  Len(Replay(d)[l]) = Len(d.chain[l])
<1> DEFINE n == Len(d.chain[l])
           x == [i \in 1..n |-> [obs |-> d.chain[l][i].obs, received |-> d.chain[l][i].received]]
<1>1. Replay(d)[l] = x
  BY DEF Replay
<1>2. n \in Nat
  BY ChainLengths
<1> HIDE DEF n
<1>3. Len(x) = n
  BY <1>2
<1> QED BY <1>1, <1>3 DEF n

(* A retraction names a record and a revision. *)
LEMMA RetractionFields ==
  ASSUME NEW d \in Databases, NEW t \in d.retraction
  PROVE  t.local \in LocalIds /\ t.revision \in Nat
BY Tables DEF Retractions

(* What is kept from step to step is kept. *)
LEMMA StaysTransitive ==
  ASSUME NEW d \in Databases, NEW e \in Databases, NEW f \in Databases,
         Stays(d, e), Stays(e, f)
  PROVE  Stays(d, f)
<1>1. d.retraction \subseteq f.retraction /\ d.discrepancy \subseteq f.discrepancy
  BY DEF Stays
<1>2. ASSUME NEW l \in LocalIds
      PROVE  /\ Len(d.chain[l]) <= Len(f.chain[l])
             /\ \A i \in 1..Len(d.chain[l]) : /\ f.chain[l][i].obs = d.chain[l][i].obs
                                              /\ f.chain[l][i].received = d.chain[l][i].received
  <2>1. Len(d.chain[l]) \in Nat /\ Len(e.chain[l]) \in Nat /\ Len(f.chain[l]) \in Nat
    BY ChainLengths
  <2>2. Len(d.chain[l]) <= Len(e.chain[l]) /\ Len(e.chain[l]) <= Len(f.chain[l])
    BY DEF Stays
  <2>3. \A i \in 1..Len(d.chain[l]) : i \in 1..Len(e.chain[l])
    BY <2>1, <2>2
  <2>4. \A i \in 1..Len(d.chain[l]) : /\ e.chain[l][i].obs = d.chain[l][i].obs
                                      /\ e.chain[l][i].received = d.chain[l][i].received
    BY DEF Stays
  <2>5. \A i \in 1..Len(e.chain[l]) : /\ f.chain[l][i].obs = e.chain[l][i].obs
                                      /\ f.chain[l][i].received = e.chain[l][i].received
    BY DEF Stays
  <2> QED BY <2>1, <2>2, <2>3, <2>4, <2>5
<1> QED BY <1>1, <1>2 DEF Stays

(* Where the tables of a record do not change, nothing does. *)
LEMMA StaysSame ==
  ASSUME NEW d \in Databases, NEW e \in Databases,
         e.chain = d.chain, d.retraction \subseteq e.retraction,
         d.discrepancy \subseteq e.discrepancy
  PROVE  Stays(d, e)
BY ChainLengths DEF Stays

-----------------------------------------------------------------------------
(* The operations of the store. *)

(* A stamp moves no row. *)
LEMMA StampStays ==
  ASSUME NEW d \in Databases, NEW l \in LocalIds, NEW rev, NEW c, NEW dv, NEW fp
  PROVE  LET e == stamp_seen(d, l, rev, c, dv, fp)
         IN  /\ Stays(d, e) /\ (Within(d) => Within(e)) /\ e.retraction = d.retraction
             /\ \A k \in LocalIds : Len(e.chain[k]) = Len(d.chain[k])
<1> DEFINE e == stamp_seen(d, l, rev, c, dv, fp)
           stamped == [i \in 1..Len(d.chain[l]) |->
                         IF d.chain[l][i].revision = rev
                         THEN [d.chain[l][i] EXCEPT !.lastSeen = c,
                                                    !.derivation = dv,
                                                    !.fingerprint = fp]
                         ELSE d.chain[l][i]]
<1>1. d.chain \in [LocalIds -> Seq(Rows)]
  BY Tables DEF Chains
<1>2. /\ e.chain = [d.chain EXCEPT ![l] = stamped]
      /\ e.retraction = d.retraction /\ e.discrepancy = d.discrepancy
  BY DEF stamp_seen, Databases
<1>3. Len(stamped) = Len(d.chain[l])
  BY <1>1
<1>4. \A i \in 1..Len(d.chain[l]) : stamped[i].obs = d.chain[l][i].obs
                                     /\ stamped[i].received = d.chain[l][i].received
  <2>1. \A i \in 1..Len(d.chain[l]) : d.chain[l][i] \in Rows
    BY <1>1
  <2> QED BY <2>1 DEF Rows
<1> HIDE DEF stamped, e
<1>5. \A k \in LocalIds : Len(e.chain[k]) = Len(d.chain[k])
  BY <1>1, <1>2, <1>3
<1>6. Stays(d, e)
  BY <1>1, <1>2, <1>4, <1>5, ChainLengths DEF Stays
<1>7. Within(d) => Within(e)
  BY <1>2, <1>5, RetractionFields DEF Within
<1> QED BY <1>2, <1>5, <1>6, <1>7 DEF e

(* A new row goes to the end of its chain. *)
LEMMA AppendStays ==
  ASSUME NEW d \in Databases, NEW l \in LocalIds, NEW rev, NEW o, NEW at, NEW c,
         NEW dv, NEW fp
  PROVE  LET e == append_observation(d, l, rev, o, at, c, dv, fp)
         IN  /\ Stays(d, e) /\ (Within(d) => Within(e)) /\ e.retraction = d.retraction
             /\ Len(e.chain[l]) = Len(d.chain[l]) + 1
             /\ \A k \in LocalIds \ {l} : e.chain[k] = d.chain[k]
<1> DEFINE e == append_observation(d, l, rev, o, at, c, dv, fp)
           row == [obs |-> o, received |-> at, revision |-> rev, crawl |-> c,
                   lastSeen |-> c, derivation |-> dv, fingerprint |-> fp]
           s == d.chain[l]
           x == Append(s, row)
<1>1. d.chain \in [LocalIds -> Seq(Rows)]
  BY Tables DEF Chains
<1>2. /\ e.chain = [d.chain EXCEPT ![l] = x]
      /\ e.retraction = d.retraction /\ e.discrepancy = d.discrepancy
  BY DEF append_observation, Databases
<1>3. s \in Seq(Rows \cup {row}) /\ row \in Rows \cup {row} /\ Len(s) \in Nat
  BY <1>1
<1>4. Len(x) = Len(s) + 1 /\ \A i \in 1..Len(s) : x[i] = s[i]
  <2> HIDE DEF s, row
  <2> QED BY <1>3, AppendProperties
<1> HIDE DEF e, x
<1>5. e.chain[l] = x /\ \A k \in LocalIds \ {l} : e.chain[k] = d.chain[k]
  BY <1>1, <1>2
<1>6. ASSUME NEW k \in LocalIds PROVE Len(d.chain[k]) <= Len(e.chain[k])
  <2>1. Len(d.chain[k]) \in Nat
    BY ChainLengths
  <2>2. CASE k = l
    <3>1. Len(e.chain[k]) = Len(d.chain[k]) + 1
      BY <1>4, <1>5, <2>2
    <3> QED BY <2>1, <3>1
  <2>3. CASE k # l
    BY <1>5, <2>1, <2>3
  <2> QED BY <2>2, <2>3
<1>7. Stays(d, e)
  <2>1. \A k \in LocalIds : \A i \in 1..Len(d.chain[k]) : e.chain[k][i] = d.chain[k][i]
    BY <1>4, <1>5
  <2> QED BY <1>2, <1>6, <2>1 DEF Stays
<1>8. ASSUME Within(d), NEW t \in e.retraction PROVE t.revision <= Len(e.chain[t.local])
  <2>1. t.local \in LocalIds /\ t.revision \in Nat /\ t \in d.retraction
    BY <1>2, RetractionFields
  <2>2. t.revision <= Len(d.chain[t.local]) /\ Len(d.chain[t.local]) <= Len(e.chain[t.local])
    BY <1>6, <1>8, <2>1 DEF Within
  <2>3. Len(d.chain[t.local]) \in Nat /\ Len(e.chain[t.local]) \in Nat
    BY <1>3, <1>4, <1>5, <2>1, ChainLengths
  <2> QED BY <2>1, <2>2, <2>3
<1> QED BY <1>2, <1>4, <1>5, <1>7, <1>8 DEF e, Within

(* A sweep retracts records it did not observe, as far as its fold goes. *)
LEMMA DeriveStays ==
  ASSUME NEW d \in Databases, NEW c \in Conns, NEW s \in Sweeps, NEW sn \in Snaps
  PROVE  LET e == derive_retractions(d, c, s, sn)
         IN  /\ d.retraction \subseteq e.retraction /\ d.discrepancy \subseteq e.discrepancy
             /\ \A t \in e.retraction \ d.retraction :
                  /\ t.local \notin s.observed /\ t.crawl = s.crawl
                  /\ t.revision = Len(sn.fold[t.local]) /\ sn.fold[t.local] # << >>
                  /\ fold_head(sn.fold[t.local]).obs.state = "active"
                  /\ fold_head(sn.fold[t.local]).obs.resource = s.resource
<1> DEFINE live   == live_set(sn.fold, retraction_high_water(d), s.resource)
           absent == live \ (s.observed \cup s.exempt)
           gone   == {l \in absent :
                        within_history(fold_head(sn.fold[l]).obs.at, s.historyStart)}
           why    == [l \in gone |->
                        retraction_reason(sn.meta[l], c.derivation, s.fingerprint)]
           kinds  == ({why[l] : l \in gone} \ {"absent_from_complete_sweep"})
                       \cup (IF gone # absent THEN {"history_start_exempt"} ELSE {})
           noted(k) == append_discrepancies(d, s.resource, k, s.crawl)
           rows == {[local |-> l, revision |-> highest_revision(sn.fold[l]),
                     reason |-> why[l], crawl |-> s.crawl] : l \in gone}
<1>1. \A k : /\ noted(k).retraction = d.retraction
             /\ d.discrepancy \subseteq noted(k).discrepancy
             /\ [noted(k) EXCEPT !.retraction = @ \cup rows].retraction = d.retraction \cup rows
             /\ [noted(k) EXCEPT !.retraction = @ \cup rows].discrepancy = noted(k).discrepancy
  BY DEF append_discrepancies, Databases
<1>2. \A t \in rows : /\ t.local \notin s.observed /\ t.crawl = s.crawl
                     /\ t.revision = Len(sn.fold[t.local]) /\ sn.fold[t.local] # << >>
                     /\ fold_head(sn.fold[t.local]).obs.state = "active"
                     /\ fold_head(sn.fold[t.local]).obs.resource = s.resource
  <2>1. \A l \in gone : /\ l \notin s.observed /\ sn.fold[l] # << >>
                        /\ fold_head(sn.fold[l]).obs.state = "active"
                        /\ fold_head(sn.fold[l]).obs.resource = s.resource
    BY DEF live_set
  <2>2. \A t \in rows : /\ t.local \in gone /\ t.crawl = s.crawl
                        /\ t.revision = Len(sn.fold[t.local])
    <3> HIDE DEF gone, why
    <3> QED BY DEF highest_revision
  <2> HIDE DEF rows, gone
  <2> QED BY <2>1, <2>2
<1>3. append_retractions(noted(kinds), gone, sn.fold, why, s.crawl)
        = [noted(kinds) EXCEPT !.retraction = @ \cup rows]
  BY DEF append_retractions
<1>4. derive_retractions(d, c, s, sn) =
        IF vantage_moved(d, s) THEN noted({"vantage_changed"})
        ELSE IF emptied(live, c, s) THEN noted({"empty_sweep"})
        ELSE append_retractions(noted(kinds), gone, sn.fold, why, s.crawl)
  BY DEF derive_retractions
<1> HIDE DEF live, kinds, gone, rows, noted, why
<1> QED BY <1>1, <1>2, <1>3, <1>4

(* The rest of the last transaction adds to neither table. *)
LEMMA SettleTables ==
  ASSUME NEW d \in Databases, NEW c \in Conns, NEW s \in Sweeps, NEW sn \in Snaps,
         NEW reason \in Disqualifications \cup {None}
  PROVE  LET e == settle(d, c, s, sn, reason)
             n == IF reason = None THEN derive_retractions(d, c, s, sn) ELSE d
         IN  e.retraction = n.retraction /\ e.discrepancy = n.discrepancy
<1> DEFINE n == IF reason = None THEN derive_retractions(d, c, s, sn) ELSE d
           m == set_adapter_derivation(n, c.derivation)
           v == IF reason = None THEN s.vantage ELSE None
           q == set_resource_definition(m, s.resource, s.fingerprint, v)
<1>1. n \in Databases
  BY DeriveType
<1> HIDE DEF n
<1>2. m \in Databases /\ m.retraction = n.retraction /\ m.discrepancy = n.discrepancy
  <2>1. c.derivation \in Derivations
    BY DEF Conns
  <2> QED BY <1>1, <2>1, Tables DEF set_adapter_derivation, Databases
<1> HIDE DEF m, v
<1>3. q.retraction = m.retraction /\ q.discrepancy = m.discrepancy
  BY <1>2 DEF set_resource_definition, Databases
<1>4. q \in Databases
  <2>1. s.resource \in Resources /\ s.fingerprint \in Fingerprints /\ v \in Vantages \cup {None}
    BY DEF v, Sweeps
  <2> QED BY <1>2, <2>1, DefinitionType
<1>5. settle(d, c, s, sn, reason)
        = finish_crawl(q, s.crawl, s.page = "drained", reason = None, reason)
  BY DEF settle, n, m, v, q
<1> HIDE DEF q
<1>6. /\ settle(d, c, s, sn, reason).retraction = q.retraction
      /\ settle(d, c, s, sn, reason).discrepancy = q.discrepancy
  BY <1>4, <1>5 DEF finish_crawl, Databases
<1> QED BY <1>2, <1>3, <1>6 DEF n

(* The last page's transaction as a whole. *)
LEMMA SettleStays ==
  ASSUME NEW d \in Databases, NEW c \in Conns, NEW s \in Sweeps, NEW sn \in Snaps,
         NEW reason \in Disqualifications \cup {None}, sn.fold = Replay(d)
  PROVE  LET e == settle(d, c, s, sn, reason)
         IN  /\ Stays(d, e) /\ (Within(d) => Within(e)) /\ e.chain = d.chain
             /\ \A t \in e.retraction \ d.retraction :
                  /\ t.local \notin s.observed /\ t.crawl = s.crawl
                  /\ t.revision = Len(d.chain[t.local]) /\ t.revision # 0
                  /\ fold_head(Replay(d)[t.local]).obs.state = "active"
                  /\ fold_head(Replay(d)[t.local]).obs.resource = s.resource
<1> DEFINE e == settle(d, c, s, sn, reason)
           n == IF reason = None THEN derive_retractions(d, c, s, sn) ELSE d
<1>1. e \in Databases /\ e.chain = d.chain
  BY SettleType, SettleKeeps
<1>2. e.retraction = n.retraction /\ e.discrepancy = n.discrepancy
  BY SettleTables
<1>3. /\ d.retraction \subseteq n.retraction /\ d.discrepancy \subseteq n.discrepancy
      /\ \A t \in n.retraction \ d.retraction :
           /\ t.local \notin s.observed /\ t.crawl = s.crawl
           /\ t.revision = Len(sn.fold[t.local]) /\ sn.fold[t.local] # << >>
           /\ fold_head(sn.fold[t.local]).obs.state = "active"
           /\ fold_head(sn.fold[t.local]).obs.resource = s.resource
  BY DeriveStays
<1> HIDE DEF e, n
<1>4. Stays(d, e)
  BY <1>1, <1>2, <1>3, StaysSame
<1>5. \A l \in LocalIds : Len(sn.fold[l]) = Len(d.chain[l])
  BY ReplayLengths
<1>6. Within(d) => Within(e)
  <2> SUFFICES ASSUME Within(d), NEW t \in e.retraction PROVE t.revision <= Len(e.chain[t.local])
    BY DEF Within
  <2>1. t.local \in LocalIds /\ t.revision \in Nat
    BY <1>1, RetractionFields
  <2>2. CASE t \in d.retraction
    BY <1>1, <2>2 DEF Within
  <2>3. CASE t \notin d.retraction
    BY <1>1, <1>2, <1>3, <1>5, <2>1, <2>3
  <2> QED BY <2>2, <2>3
<1>7. ASSUME NEW t \in e.retraction \ d.retraction
      PROVE  /\ t.local \notin s.observed /\ t.crawl = s.crawl
             /\ t.revision = Len(d.chain[t.local]) /\ t.revision # 0
             /\ fold_head(Replay(d)[t.local]).obs.state = "active"
             /\ fold_head(Replay(d)[t.local]).obs.resource = s.resource
  <2>1. t.local \in LocalIds
    BY <1>1, RetractionFields
  <2>2. sn.fold[t.local] \in Seq(FoldEntries)
    BY <2>1 DEF Snaps
  <2>3. sn.fold[t.local] # << >> => Len(sn.fold[t.local]) # 0
    BY <2>2
  <2> QED BY <1>2, <1>3, <1>5, <2>1, <2>3
<1> QED BY <1>1, <1>4, <1>6, <1>7 DEF e

-----------------------------------------------------------------------------
(***************************************************************************)
(* The inductive invariant.  A transaction keeps what is committed, no      *)
(* retraction reaches past its chain, and what a host observed is alive.    *)
(***************************************************************************)
HostHistory(h) ==
  /\ InTxn(h) => Stays(db, txn[h]) /\ Within(txn[h])
  /\ Sweeping(h) => Unburied(h)

HistoryInv == Within(db) /\ \A h \in Hosts : HostHistory(h)

(* A step of the host at work need be looked at for that host alone. *)
LEMMA WriterHistory ==
  ASSUME TypeOK, SweepInv, NEW h \in Hosts, pc[h] # "idle",
         \A k \in Hosts \ {h} : pc'[k] = pc[k], Within(db)', HostHistory(h)'
  PROVE  HistoryInv'
<1>1. \A k \in Hosts \ {h} : pc'[k] = "idle"
  BY OthersIdle DEF SweepInv
<1>2. \A k \in Hosts \ {h} : HostHistory(k)'
  BY <1>1 DEF HostHistory, Sweeping, InTxn
<1> QED BY <1>2 DEF HistoryInv

(* An empty store has nothing to lose. *)
LEMMA InitHistory == Init => HistoryInv
BY DEF Init, EmptyDatabase, HistoryInv, HostHistory, Within, Sweeping, InTxn

(* Taking the lock, and letting it go by exit or by death. *)
LEMMA ConnectHistory ==
  ASSUME TypeOK, SweepInv, HistoryInv, NEW h \in Hosts, Connect(h) PROVE HistoryInv'
<1>1. \A k \in Hosts : pc[k] = "idle"
  BY BoundsAssumption DEF SweepInv, WriterHoldsLock, Connect, LockFree
<1>2. pc' = [pc EXCEPT ![h] = "connected"] /\ db' = db
  BY DEF Connect
<1>3. \A k \in Hosts : pc'[k] \in {"connected", "idle"}
  BY <1>1, <1>2 DEF TypeOK
<1>4. \A k \in Hosts : HostHistory(k)'
  BY <1>3 DEF HostHistory, Sweeping, InTxn
<1> QED BY <1>2, <1>4 DEF HistoryInv, Within

(* Exit and death leave what is committed. *)
LEMMA ForgetHistory ==
  ASSUME TypeOK, SweepInv, HistoryInv, NEW h \in Hosts, pc[h] # "idle", Forget(h)
  PROVE  HistoryInv'
<1>1. pc'[h] = "idle" /\ db' = db /\ \A k \in Hosts \ {h} : pc'[k] = pc[k]
  BY DEF Forget, TypeOK
<1>2. HostHistory(h)'
  BY <1>1 DEF HostHistory, Sweeping, InTxn
<1> QED BY <1>1, <1>2, WriterHistory DEF HistoryInv, Within

(* The reader thread touches no table. *)
LEMMA PublishHistory ==
  ASSUME TypeOK, SweepInv, HistoryInv, NEW h \in Hosts, Publish(h) PROVE HistoryInv'
BY DEF Publish, HistoryInv, HostHistory, Sweeping, InTxn, Within, Stays, Unburied, View

(* A sweep begins with nothing observed. *)
LEMMA StartSweepHistory ==
  ASSUME TypeOK, TypeOK', SweepInv, HistoryInv, NEW h \in Hosts, StartSweep(h)
  PROVE  HistoryInv'
<1>1. db \in Databases
  BY DEF TypeOK
<1>2. db'.chain = db.chain /\ db'.retraction = db.retraction
  <2>1. PICK fp, st : db' = open_crawl(db, Head(conn[h].todo), st, conn[h].derivation, fp)
    BY DEF StartSweep
  <2> QED BY <1>1, <2>1, CrawlOpsKeep
<1>3. pc[h] # "idle" /\ pc'[h] = "reading" /\ \A k \in Hosts \ {h} : pc'[k] = pc[k]
  BY DEF StartSweep, TypeOK
<1>4. sweep'[h].observed = {}
  BY DEF StartSweep, TypeOK
<1>5. HostHistory(h)'
  BY <1>3, <1>4 DEF HostHistory, InTxn, Unburied
<1>6. Within(db)'
  BY <1>2 DEF HistoryInv, Within
<1> QED BY <1>3, <1>5, <1>6, WriterHistory

(* A sweep that fails. *)
LEMMA FailHistory ==
  ASSUME TypeOK, TypeOK', SweepInv, HistoryInv, NEW h \in Hosts, ReadFails(h) \/ PageLimit(h)
  PROVE  HistoryInv'
<1>1. db \in Databases
  BY DEF TypeOK
<1>2. PICK z : db' = finish_crawl(db, sweep[h].crawl, FALSE, FALSE, z)
  BY DEF ReadFails, PageLimit
<1>3. db'.chain = db.chain /\ db'.retraction = db.retraction
  BY <1>1, <1>2 DEF finish_crawl, Databases
<1>4. pc[h] # "idle" /\ pc'[h] = "connected" /\ \A k \in Hosts \ {h} : pc'[k] = pc[k]
  BY DEF ReadFails, PageLimit, EndSweep, TypeOK
<1>5. HostHistory(h)'
  BY <1>4 DEF HostHistory, Sweeping, InTxn
<1>6. Within(db)'
  BY <1>3 DEF HistoryInv, Within
<1> QED BY <1>4, <1>5, <1>6, WriterHistory

(* A page's transaction opens on what is committed. *)
LEMMA PageArrivesHistory ==
  ASSUME TypeOK, TypeOK', SweepInv, HistoryInv, NEW h \in Hosts, PageArrives(h)
  PROVE  HistoryInv'
<1>1. /\ pc[h] = "reading" /\ pc'[h] = "ingesting" /\ txn'[h] = db /\ db' = db
      /\ \A k \in Hosts \ {h} : pc'[k] = pc[k]
  BY DEF PageArrives, TypeOK
<1>2. sweep'[h].observed = sweep[h].observed
  BY PageArrivesSweep DEF TypeOK, SameSweep
<1>3. Unburied(h)
  BY <1>1 DEF HistoryInv, HostHistory, Sweeping
<1>4. Unburied(h)'
  BY <1>1, <1>2, <1>3 DEF Unburied, View, InTxn
<1>5. Stays(db, db) /\ Within(db)
  BY StaysSame DEF TypeOK, HistoryInv
<1>6. HostHistory(h)'
  BY <1>1, <1>4, <1>5 DEF HostHistory, Stays, Within
<1>7. Within(db)'
  BY <1>1, <1>5 DEF Within
<1> QED BY <1>1, <1>6, <1>7, WriterHistory

(* One observation: a known one is not buried, and a new row lies above every
   retraction of its chain. *)
LEMMA IngestHistory ==
  ASSUME TypeOK, TypeOK', SweepInv, HistoryInv, NEW h \in Hosts, NEW l \in LocalIds,
         NEW o \in Reportable, Ingest(h, l, o)
  PROVE  HistoryInv'
<1> DEFINE s   == sweep[h]
           d   == txn[h]
           e   == txn'[h]
           f   == snap[h].fold
           dv  == conn[h].derivation
           rev == highest_revision(f[l]) + 1
<1>1. /\ pc[h] = "ingesting" /\ pc' = pc /\ db' = db /\ Sweeping(h) /\ InTxn(h)
      /\ Sweeping(h)' /\ InTxn(h)'
  BY DEF Ingest, Sweeping, InTxn
<1>2. /\ Current(h) /\ d.retraction = db.retraction /\ d \in Databases /\ e \in Databases
      /\ s \in Sweeps /\ conn[h] \in Conns /\ db \in Databases
  BY <1>1 DEF SweepInv, HostInv, TypeOK, Sweeping, InTxn
<1>3. /\ f = Replay(d) /\ snap[h].buried = retraction_high_water(d)
  BY <1>1, <1>2 DEF Current, View, retraction_high_water
<1>4. Stays(db, d) /\ Within(d) /\ Within(db) /\ Unburied(h)
  BY <1>1 DEF HistoryInv, HostHistory
<1>5. sweep'[h].observed = s.observed \cup {l}
  <2>1. sweep' = [sweep EXCEPT ![h].observed = @ \cup {l}, ![h].room = @ - 1]
    BY DEF Ingest
  <2>2. sweep \in [Hosts -> Sweeps \cup {None}]
    BY DEF TypeOK
  <2> QED BY <1>2, <2>1, <2>2 DEF Sweeps
<1>6. s.observed \subseteq LocalIds /\ s.crawl \in Nat /\ dv \in Derivations
        /\ s.fingerprint \in Fingerprints
  BY <1>2 DEF Sweeps, Conns
<1>7. /\ Stays(d, e) /\ Within(e) /\ e.retraction = d.retraction
      /\ \A k \in LocalIds \ {l} : Len(e.chain[k]) = Len(d.chain[k])
      /\ ~ is_buried(retraction_high_water(e), l, Len(e.chain[l]))
  <2>1. CASE already_known(snap[h], l, o)
    <3> DEFINE head == head_revision(f[l])
               fp   == s.fingerprint
               c    == s.crawl
    <3>1. e = stamp_seen(d, l, head, c, dv, fp)
      BY <2>1 DEF Ingest, TypeOK
    <3> HIDE DEF head, c, fp, dv, d, e
    <3>2. /\ Stays(d, e) /\ Within(e) /\ e.retraction = d.retraction
          /\ \A k \in LocalIds : Len(e.chain[k]) = Len(d.chain[k])
      BY <1>2, <1>4, <3>1, StampStays
    <3>3. ~ is_buried(retraction_high_water(d), l, Len(d.chain[l]))
      BY <1>2, <1>3, <2>1, ReplayLengths DEF already_known, highest_revision, f
    <3> QED BY <3>2, <3>3 DEF retraction_high_water
  <2>2. CASE ~ already_known(snap[h], l, o)
    <3>1. e = append_observation(d, l, rev, o, s.received, s.crawl, dv, s.fingerprint)
      BY <2>2 DEF Ingest, TypeOK
    <3> HIDE DEF rev
    <3>2. /\ Stays(d, e) /\ Within(e) /\ e.retraction = d.retraction
          /\ Len(e.chain[l]) = Len(d.chain[l]) + 1
          /\ \A k \in LocalIds \ {l} : e.chain[k] = d.chain[k]
      BY <1>2, <1>4, <3>1, AppendStays
    <3>3. ~ is_buried(retraction_high_water(e), l, Len(e.chain[l]))
      <4> SUFFICES ASSUME NEW t \in d.retraction, t.local = l, t.revision >= Len(d.chain[l]) + 1
                   PROVE  FALSE
        BY <3>2 DEF is_buried, retraction_high_water
      <4>1. t.revision <= Len(d.chain[l])
        BY <1>4 DEF Within
      <4>2. t.revision \in Nat /\ Len(d.chain[l]) \in Nat
        BY <1>2, RetractionFields, ChainLengths
      <4> QED BY <4>1, <4>2
    <3> QED BY <3>2, <3>3
  <2> QED BY <2>1, <2>2
<1>8. Unburied(h)'
  <2> SUFFICES ASSUME NEW k \in s.observed \cup {l}
               PROVE  ~ is_buried(retraction_high_water(e), k, Len(e.chain[k]))
    BY <1>1, <1>5 DEF Unburied, View
  <2>1. CASE k = l
    BY <1>7, <2>1
  <2>2. CASE k # l
    <3>1. ~ is_buried(retraction_high_water(d), k, Len(d.chain[k]))
      BY <1>1, <1>4, <2>2 DEF Unburied, View
    <3> QED BY <1>6, <1>7, <2>2, <3>1 DEF retraction_high_water
  <2> QED BY <2>1, <2>2
<1>9. Stays(db, e)
  BY <1>2, <1>4, <1>7, StaysTransitive
<1>10. HostHistory(h)'
  BY <1>1, <1>7, <1>8, <1>9 DEF HostHistory, Stays
<1>11. Within(db)'
  BY <1>1, <1>4 DEF Within
<1> QED BY <1>1, <1>10, <1>11, WriterHistory

(* A page commits what its transaction holds. *)
LEMMA CommitPageHistory ==
  ASSUME TypeOK, TypeOK', SweepInv, HistoryInv, NEW h \in Hosts, CommitPage(h)
  PROVE  HistoryInv' /\ Stays(db, db')
<1>1. /\ pc[h] = "ingesting" /\ pc'[h] = "reading" /\ Sweeping(h) /\ InTxn(h)
      /\ \A k \in Hosts \ {h} : pc'[k] = pc[k]
  BY DEF CommitPage, Sweeping, InTxn, TypeOK
<1>2. txn[h] \in Databases /\ db \in Databases /\ db' \in Databases /\ sweep[h] \in Sweeps
  BY <1>1 DEF TypeOK
<1>3. /\ db'.chain = txn[h].chain /\ db'.retraction = txn[h].retraction
      /\ db'.discrepancy = txn[h].discrepancy
  BY <1>2 DEF CommitPage, set_crawl_cursor, Databases
<1>4. Stays(db, txn[h]) /\ Within(txn[h]) /\ Unburied(h)
  BY <1>1 DEF HistoryInv, HostHistory
<1>5. sweep'[h].observed = sweep[h].observed
  BY <1>2 DEF CommitPage, TypeOK, Sweeps
<1>6. Unburied(h)'
  BY <1>1, <1>3, <1>4, <1>5 DEF Unburied, View, InTxn, retraction_high_water
<1>7. HostHistory(h)'
  BY <1>1, <1>6 DEF HostHistory, InTxn
<1>8. Within(db)' /\ Stays(db, db')
  BY <1>3, <1>4 DEF Within, Stays
<1> QED BY <1>1, <1>7, <1>8, WriterHistory

(* The judgement buries nothing the sweep observed. *)
LEMMA JudgeSweepHistory ==
  ASSUME TypeOK, TypeOK', SweepInv, HistoryInv, NEW h \in Hosts, JudgeSweep(h)
  PROVE  HistoryInv'
<1> DEFINE reason == disqualifier(conn[h], sweep[h], violated[h])
           d == txn[h]
           e == txn'[h]
<1>1. /\ pc[h] = "ingesting" /\ pc'[h] = "committing" /\ db' = db /\ sweep' = sweep
      /\ Sweeping(h) /\ InTxn(h) /\ \A k \in Hosts \ {h} : pc'[k] = pc[k]
  BY DEF JudgeSweep, Sweeping, InTxn, TypeOK
<1>2. /\ Current(h) /\ d \in Databases /\ e \in Databases /\ db \in Databases
      /\ sweep[h] \in Sweeps /\ snap[h] \in Snaps /\ conn[h] \in Conns
  BY <1>1 DEF SweepInv, HostInv, TypeOK, Sweeping, InTxn
<1>3. snap[h].fold = Replay(d)
  BY <1>1, <1>2 DEF Current, View
<1>4. reason \in Disqualifications \cup {None}
  BY DEF disqualifier, Disqualifications
<1>5. e = settle(d, conn[h], sweep[h], snap[h], reason)
  BY DEF JudgeSweep, TypeOK
<1> HIDE DEF reason
<1>6. Stays(db, d) /\ Within(d) /\ Within(db) /\ Unburied(h)
  BY <1>1 DEF HistoryInv, HostHistory
<1>7. /\ Stays(d, e) /\ Within(e) /\ e.chain = d.chain
      /\ \A t \in e.retraction \ d.retraction : t.local \notin sweep[h].observed
  BY <1>2, <1>3, <1>4, <1>5, <1>6, SettleStays
<1>8. Unburied(h)'
  <2> SUFFICES ASSUME NEW k \in sweep[h].observed, NEW t \in e.retraction,
                      t.local = k, t.revision >= Len(e.chain[k])
               PROVE  FALSE
    BY <1>1 DEF Unburied, View, InTxn, is_buried, retraction_high_water
  <2>1. t \in d.retraction
    BY <1>7
  <2>2. ~ is_buried(retraction_high_water(d), k, Len(d.chain[k]))
    BY <1>1, <1>6 DEF Unburied, View
  <2>3. <<t.local, t.revision>> \in retraction_high_water(d)
    BY <2>1 DEF retraction_high_water
  <2>4. t.revision >= Len(d.chain[k])
    BY <1>7
  <2> HIDE DEF d, e
  <2> QED BY <2>2, <2>3, <2>4 DEF is_buried
<1>9. HostHistory(h)'
  <2>1. Stays(db, e)
    BY <1>2, <1>6, <1>7, StaysTransitive
  <2> QED BY <1>1, <1>7, <1>8, <2>1 DEF HostHistory, Stays
<1>10. Within(db)'
  BY <1>1, <1>6 DEF Within
<1> QED BY <1>1, <1>9, <1>10, WriterHistory

(* The commit of the last page. *)
LEMMA CommitSweepHistory ==
  ASSUME TypeOK, TypeOK', SweepInv, HistoryInv, NEW h \in Hosts, CommitSweep(h)
  PROVE  HistoryInv' /\ Stays(db, db')
<1>1. /\ pc[h] = "committing" /\ pc'[h] = "connected" /\ db' = txn[h]
      /\ \A k \in Hosts \ {h} : pc'[k] = pc[k]
  BY DEF CommitSweep, EndSweep, TypeOK
<1>2. Stays(db, txn[h]) /\ Within(txn[h])
  BY <1>1 DEF HistoryInv, HostHistory, InTxn
<1>3. HostHistory(h)'
  BY <1>1 DEF HostHistory, Sweeping, InTxn
<1> QED BY <1>1, <1>2, <1>3, WriterHistory DEF Within

(* Every step keeps the invariant and what is committed. *)
LEMMA StepHistory ==
  TypeOK /\ TypeOK' /\ SweepInv /\ HistoryInv /\ [Next]_vars => HistoryInv' /\ Stays(db, db')
<1> SUFFICES ASSUME TypeOK, TypeOK', SweepInv, HistoryInv, [Next]_vars
             PROVE  HistoryInv' /\ Stays(db, db')
  OBVIOUS
<1>1. db \in Databases /\ db' \in Databases
  BY DEF TypeOK
<1>2. db' = db => Stays(db, db')
  BY <1>1, StaysSame
<1>3. ASSUME NEW h \in Hosts, Connect(h) PROVE HistoryInv' /\ db' = db
  BY <1>3, ConnectHistory DEF Connect
<1>4. ASSUME NEW h \in Hosts, Publish(h) PROVE HistoryInv' /\ db' = db
  BY <1>4, PublishHistory DEF Publish
<1>5. ASSUME NEW h \in Hosts, Crash(h) \/ Disconnect(h) PROVE HistoryInv' /\ db' = db
  BY <1>5, ForgetHistory DEF Crash, Disconnect, Forget
<1>6. ASSUME NEW h \in Hosts, StartSweep(h) PROVE HistoryInv' /\ Stays(db, db')
  <2>1. PICK r, fp, st : db' = open_crawl(db, r, st, conn[h].derivation, fp)
    BY <1>6 DEF StartSweep
  <2>2. /\ db'.chain = db.chain /\ db'.retraction = db.retraction
        /\ db'.discrepancy = db.discrepancy
    BY <1>1, <2>1 DEF open_crawl, Databases
  <2> QED BY <1>1, <1>6, <2>2, StaysSame, StartSweepHistory
<1>7. ASSUME NEW h \in Hosts, ReadFails(h) \/ PageLimit(h) PROVE HistoryInv' /\ Stays(db, db')
  <2>1. PICK z : db' = finish_crawl(db, sweep[h].crawl, FALSE, FALSE, z)
    BY <1>7 DEF ReadFails, PageLimit
  <2>2. /\ db'.chain = db.chain /\ db'.retraction = db.retraction
        /\ db'.discrepancy = db.discrepancy
    BY <1>1, <2>1 DEF finish_crawl, Databases
  <2> QED BY <1>1, <1>7, <2>2, StaysSame, FailHistory
<1>8. ASSUME NEW h \in Hosts, PageArrives(h) PROVE HistoryInv' /\ db' = db
  BY <1>8, PageArrivesHistory DEF PageArrives
<1>9. ASSUME NEW h \in Hosts, NEW l \in LocalIds, NEW o \in Reportable, Ingest(h, l, o)
      PROVE  HistoryInv' /\ db' = db
  BY <1>9, IngestHistory DEF Ingest
<1>10. ASSUME NEW h \in Hosts, CommitPage(h) PROVE HistoryInv' /\ Stays(db, db')
  BY <1>10, CommitPageHistory
<1>11. ASSUME NEW h \in Hosts, JudgeSweep(h) PROVE HistoryInv' /\ db' = db
  BY <1>11, JudgeSweepHistory DEF JudgeSweep
<1>12. ASSUME NEW h \in Hosts, CommitSweep(h) PROVE HistoryInv' /\ Stays(db, db')
  BY <1>12, CommitSweepHistory
<1>13. CASE UNCHANGED vars
  BY <1>2, <1>13 DEF vars, HistoryInv, HostHistory, Sweeping, InTxn, Within, Stays, Unburied, View
<1> QED BY <1>2, <1>3, <1>4, <1>5, <1>6, <1>7, <1>8, <1>9, <1>10, <1>11, <1>12, <1>13
        DEF Next, HostStep

(* The invariant holds in every behaviour, whatever crashes and whoever writes. *)
THEOREM HistoryInvariant == Spec => [](TypeOK /\ SweepInv /\ HistoryInv)
<1>1. Init => HistoryInv
  BY InitHistory
<1>2. TypeOK /\ TypeOK' /\ SweepInv /\ HistoryInv /\ [Next]_vars => HistoryInv'
  BY StepHistory
<1> QED BY <1>1, <1>2, SweepInvariant, PTL DEF Spec

(* Revival, for any number of sweeps and any clock: what a sweep has observed is
   buried by no retraction, earlier or its own. *)
THEOREM ObservedIsAlive == Spec => []ObservedNotBuried
<1>1. HistoryInv => ObservedNotBuried
  BY DEF HistoryInv, HostHistory, ObservedNotBuried, Unburied
<1> QED BY <1>1, HistoryInvariant, PTL

(* The store only appends: no step of any host takes back or rewrites a
   committed observation, retraction or discrepancy. *)
THEOREM HistoryOnlyGrows == Spec => HistoryIsAppendOnly
<1> DEFINE Kept ==
      /\ db.retraction \subseteq db'.retraction
      /\ db.discrepancy \subseteq db'.discrepancy
      /\ \A l \in LocalIds : \A i \in 1..Len(db.chain[l]) :
           /\ i <= Len(db'.chain[l])
           /\ db'.chain[l][i].obs = db.chain[l][i].obs
           /\ db'.chain[l][i].received = db.chain[l][i].received
<1>1. ASSUME TypeOK, TypeOK', Stays(db, db') PROVE Kept
  <2>1. \A l \in LocalIds : Len(db.chain[l]) \in Nat /\ Len(db'.chain[l]) \in Nat
    BY <1>1, ChainLengths DEF TypeOK
  <2> QED BY <1>1, <2>1 DEF Stays
<1>2. TypeOK /\ TypeOK' /\ SweepInv /\ HistoryInv /\ [Next]_vars => [Kept]_vars
  BY <1>1, StepHistory
<1> QED BY <1>2, HistoryInvariant, PTL DEF Spec, HistoryIsAppendOnly
=============================================================================
