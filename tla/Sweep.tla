------------------------------- MODULE Sweep -------------------------------
(***************************************************************************)
(* `sumer refresh': host processes sweep the resources of one adapter into  *)
(* the store (core/store/src/sweep.rs, refresh.rs, profile.rs).             *)
(*                                                                         *)
(* A host takes the profile lock, opens one connection, and sweeps each     *)
(* listed resource: it pages through the resource's history, each page a    *)
(* transaction of its own, and derives retractions in the transaction of    *)
(* the last one, but only when the sweep passes the nine conditions of the  *)
(* gate.  The adapter is unconstrained: it may report anything the wire     *)
(* allows, in any order, and break the contract at any moment.  A page is   *)
(* revealed one observation at a time, as ingest_page takes them.           *)
(***************************************************************************)
EXTENDS Store

CONSTANTS
  Hosts,         \* processes running `sumer refresh' on the profile
  Options,       \* the [resume, confirmEmpty] a user may pass to refresh
  BalanceTaints, \* whether balances.read may break the contract
  Reportable,    \* the observations the adapter may send
  HistoryStarts, \* what status.read may report: a timestamp or None
  PageFaults,    \* subset of {"not_fetched", "anonymous", "foreign"}
  Degradable,    \* records a status may name as degraded
  Resumables,    \* subset of {"exact", "batch_restart", "none"}
  MaxPages,      \* MAX_PAGES
  PageCap,       \* bound: observations on a page
  MaxListed,     \* bound: resources in one resources.list reply
  MaxCrawls      \* bound: sweeps in a behaviour

ASSUME BoundsAssumption ==
  /\ MaxPages \in Nat \ {0} /\ PageCap \in Nat
  /\ MaxListed \in Nat /\ MaxCrawls \in Nat
  /\ Options \subseteq [resume : BOOLEAN, confirmEmpty : BOOLEAN]
  /\ BalanceTaints \subseteq BOOLEAN
  /\ Reportable \subseteq Observations
  /\ PageFaults \subseteq {"not_fetched", "anonymous", "foreign"}
  /\ Degradable \subseteq LocalIds
  /\ Resumables \subseteq {"exact", "batch_restart", "none"}
  /\ HistoryStarts \subseteq Times \cup {Unorderable, None}
  /\ None \notin Hosts
  /\ None \notin [derivation : Derivations, fingerprint : Fingerprints]

VARIABLES
  db,       \* the committed database
  lock,     \* the host holding the profile's writer lock, or None
  pc,       \* where each host is
  conn,     \* a host's connection and the options of its refresh
  violated, \* the connection's verdict: the reader caught it lying
  sweep,    \* the locals of sweep_resource
  snap,     \* what the sweep loaded before its first page
  txn       \* the open transaction: a working copy of db

vars == <<db, lock, pc, conn, violated, sweep, snap, txn>>

(* `todo' are the listed resources still to sweep; `taint' is the
   connection_violation of refresh_adapter. *)
Conns ==
  [derivation : Derivations, taint : BOOLEAN, todo : Seq(Resources),
   options : [resume : BOOLEAN, confirmEmpty : BOOLEAN]]

Faults == {"not_fetched", "anonymous", "foreign", "inexact"}

(* `faults' are the gate conditions (4), (5), (6), (8) a page has broken;
   `resumable' and `exactNext' are the ResumeState; `page', `received' and
   `room' belong to the page being ingested. *)
Sweeps ==
  [resource : Resources, crawl : Nat, fingerprint : Fingerprints,
   vantage : Vantages, historyStart : Times \cup {Unorderable, None},
   start : Cursors \cup {None}, pageNo : Nat, faults : SUBSET Faults,
   resumable : {"exact", "batch_restart", "none", "unread"},
   exactNext : Cursors \cup {None},
   observed : SUBSET LocalIds, exempt : SUBSET LocalIds,
   page : {"more", "drained", "unpaged"},
   received : Times \cup {None}, room : Nat]

Metas == [derivation : Derivations, fingerprint : Fingerprints]

Snaps ==
  [fold   : [LocalIds -> Seq(FoldEntries)],
   meta   : [LocalIds -> Metas \cup {None}],
   buried : SUBSET (LocalIds \X Nat)]

Phases == {"idle", "connected", "reading", "ingesting", "committing"}

Init ==
  /\ db = EmptyDatabase
  /\ lock = None
  /\ pc = [h \in Hosts |-> "idle"]
  /\ conn = [h \in Hosts |-> None]
  /\ violated = [h \in Hosts |-> FALSE]
  /\ sweep = [h \in Hosts |-> None]
  /\ snap = [h \in Hosts |-> None]
  /\ txn = [h \in Hosts |-> None]

-----------------------------------------------------------------------------
(***************************************************************************)
(* The connection.                                                          *)
(***************************************************************************)

(* The lock is not taken. *)
LockFree_ignored == TRUE

(* Profile::lock: try_lock on the profile's lock file. *)
LockFree == lock = None

(* cmd_refresh and refresh_adapter up to the first sweep.  A balances.read
   that broke the contract taints the connection before any sweep. *)
Connect(h) ==
  /\ pc[h] = "idle"
  /\ LockFree
  /\ lock' = h
  /\ \E dv \in Derivations, taint \in BalanceTaints, opts \in Options,
        n \in 0..MaxListed : \E listed \in [1..n -> Resources] :
       /\ Len(db.crawl) + n <= MaxCrawls
       /\ conn' = [conn EXCEPT ![h] =
            [derivation |-> dv, taint |-> taint, todo |-> listed,
             options |-> opts]]
  /\ violated' = [violated EXCEPT ![h] = FALSE]
  /\ pc' = [pc EXCEPT ![h] = "connected"]
  /\ UNCHANGED <<db, sweep, snap, txn>>

(* Publishes without the verdict lock. *)
Publish_unlocked(h) ==
  /\ pc[h] # "idle"
  /\ ~ violated[h]
  /\ violated' = [violated EXCEPT ![h] = TRUE]
  /\ UNCHANGED <<db, lock, pc, conn, sweep, snap, txn>>

(* The reader thread publishes a violation it judged.  It needs the verdict
   lock, which the host holds in the commit's critical section. *)
Publish(h) ==
  /\ pc[h] \notin {"idle", "committing"}
  /\ ~ violated[h]
  /\ violated' = [violated EXCEPT ![h] = TRUE]
  /\ UNCHANGED <<db, lock, pc, conn, sweep, snap, txn>>

Forget(h) ==
  /\ pc' = [pc EXCEPT ![h] = "idle"]
  /\ lock' = IF lock = h THEN None ELSE lock
  /\ conn' = [conn EXCEPT ![h] = None]
  /\ violated' = [violated EXCEPT ![h] = FALSE]
  /\ sweep' = [sweep EXCEPT ![h] = None]
  /\ snap' = [snap EXCEPT ![h] = None]
  /\ txn' = [txn EXCEPT ![h] = None]
  /\ UNCHANGED db

(* Every listed resource has been swept: close, report, exit. *)
Disconnect(h) ==
  /\ pc[h] = "connected"
  /\ conn[h].todo = << >>
  /\ Forget(h)

(* The host dies, or a store error unwinds the refresh: an open transaction
   rolls back and the file lock is released. *)
Crash(h) == pc[h] # "idle" /\ Forget(h)

-----------------------------------------------------------------------------
(***************************************************************************)
(* One sweep.                                                               *)
(***************************************************************************)

(* Resumes across a change of the resource definition. *)
resume_point_any_definition(d, r, derivation, fingerprint) ==
  LET c == d.crawl[resumable_crawl(d, r)]
  IN IF resumable_crawls(d, r) # {} /\ c.derivation = derivation
     THEN c.next ELSE None

(* The cursor of the newest open crawl, dropped when the derivation or the
   resource definition has moved since it was written. *)
resume_point(d, r, derivation, fingerprint) ==
  LET c == d.crawl[resumable_crawl(d, r)]
  IN IF /\ resumable_crawls(d, r) # {}
        /\ c.derivation = derivation
        /\ c.fingerprint = fingerprint
     THEN c.next ELSE None

(* The rules of the last row inserted instead of the head. *)
head_meta_of_last_row(d) ==
  [l \in LocalIds |->
     IF d.chain[l] = << >> THEN None
     ELSE [derivation |-> d.chain[l][Len(d.chain[l])].derivation,
           fingerprint |-> d.chain[l][Len(d.chain[l])].fingerprint]]

(* Which rules produced each chain's head: the stored row whose revision is
   the revision the fold gives the head. *)
head_meta(d) ==
  LET f == Replay(d)
      Stored(l) == {i \in 1..Len(d.chain[l]) :
                      d.chain[l][i].revision = head_revision(f[l])}
  IN [l \in LocalIds |->
        IF f[l] # << >> /\ Stored(l) # {}
        THEN LET i == CHOOSE i \in Stored(l) : TRUE
             IN [derivation |-> d.chain[l][i].derivation,
                 fingerprint |-> d.chain[l][i].fingerprint]
        ELSE None]

load_snapshot(d) ==
  [fold |-> Replay(d), meta |-> head_meta(d), buried |-> retraction_high_water(d)]

StartSweep(h) ==
  /\ pc[h] = "connected"
  /\ conn[h].todo # << >>
  /\ \E fp \in Fingerprints, v \in Vantages, hs \in HistoryStarts :
       LET r  == Head(conn[h].todo)
           dv == conn[h].derivation
           st == IF conn[h].options.resume THEN resume_point(db, r, dv, fp) ELSE None
       IN /\ db' = open_crawl(db, r, st, dv, fp)
          /\ sweep' = [sweep EXCEPT ![h] =
               [resource |-> r, crawl |-> Len(db.crawl) + 1, fingerprint |-> fp,
                vantage |-> v, historyStart |-> hs, start |-> st, pageNo |-> 0,
                faults |-> {}, resumable |-> "unread", exactNext |-> None,
                observed |-> {}, exempt |-> {},
                page |-> "more", received |-> None, room |-> 0]]
  /\ snap' = [snap EXCEPT ![h] = load_snapshot(db)]
  /\ conn' = [conn EXCEPT ![h].todo = Tail(@)]
  /\ pc' = [pc EXCEPT ![h] = "reading"]
  /\ UNCHANGED <<lock, violated, txn>>

EndSweep(h) ==
  /\ sweep' = [sweep EXCEPT ![h] = None]
  /\ snap' = [snap EXCEPT ![h] = None]
  /\ txn' = [txn EXCEPT ![h] = None]
  /\ pc' = [pc EXCEPT ![h] = "connected"]

(* history_read failed.  `broke' is broke_the_contract: the sweeps that
   follow on this connection inherit it. *)
ReadFails(h) ==
  /\ pc[h] = "reading"
  /\ sweep[h].pageNo < MaxPages
  /\ db' = finish_crawl(db, sweep[h].crawl, FALSE, FALSE, "adapter_failed")
  /\ \E broke \in BOOLEAN :
       conn' = [conn EXCEPT ![h].taint = @ \/ broke]
  /\ EndSweep(h)
  /\ UNCHANGED <<lock, violated>>

(* The page loop ran out without draining. *)
PageLimit(h) ==
  /\ pc[h] = "reading"
  /\ sweep[h].pageNo = MaxPages
  /\ db' = finish_crawl(db, sweep[h].crawl, FALSE, FALSE, "page_limit")
  /\ EndSweep(h)
  /\ UNCHANGED <<lock, conn, violated>>

(* Only the last page's faults are kept. *)
judge_page_forgetting(s, faults, named, resumable) ==
  [s EXCEPT !.faults = faults \cup
                       (IF resumable \in {"batch_restart", "none"}
                        THEN {"inexact"} ELSE {}),
            !.exempt = @ \cup named]

(* judge_page: the sweep with a page's status folded in.  `faults' are the
   conditions the status broke, `named' the records it degraded by name,
   `resumable' the page reply's cursor kind. *)
judge_page(s, faults, named, resumable) ==
  [s EXCEPT !.faults = @ \cup faults \cup
                       (IF resumable \in {"batch_restart", "none"}
                        THEN {"inexact"} ELSE {}),
            !.exempt = @ \cup named]

(* ResumeState::record; a status without a page reply records nothing. *)
record(s, resumable, next) ==
  [s EXCEPT !.resumable = resumable,
            !.exactNext = IF resumable = "exact" THEN next ELSE @]

(* A page reply arrives and its transaction opens. *)
PageArrives(h) ==
  /\ pc[h] = "reading"
  /\ sweep[h].pageNo < MaxPages
  /\ \E faults \in SUBSET PageFaults, named \in SUBSET Degradable, at \in Times :
       LET Judged(rs) ==
             [judge_page(sweep[h], faults, named, rs)
                EXCEPT !.received = at, !.room = PageCap]
       IN \/ \E rs \in Resumables, next \in Cursors \cup {None} :
               sweep' = [sweep EXCEPT ![h] =
                 [record(Judged(rs), rs, next)
                    EXCEPT !.page = IF next = None THEN "drained" ELSE "more"]]
          \/ sweep' = [sweep EXCEPT ![h] =
               [Judged("unread") EXCEPT !.page = "unpaged"]]
  /\ txn' = [txn EXCEPT ![h] = db]
  /\ pc' = [pc EXCEPT ![h] = "ingesting"]
  /\ UNCHANGED <<db, lock, conn, violated, snap>>

(* Dedups against the head of a retracted record too. *)
already_known_or_retracted(sn, l, o) ==
  /\ sn.fold[l] # << >>
  /\ content_hash(fold_head(sn.fold[l]).obs) = content_hash(o)

(* The observation repeats the head of a chain no retraction buries. *)
already_known(sn, l, o) ==
  /\ sn.fold[l] # << >>
  /\ ~ is_buried(sn.buried, l, highest_revision(sn.fold[l]))
  /\ content_hash(fold_head(sn.fold[l]).obs) = content_hash(o)

(* One observation of ingest_page: stamped when it is already known, appended
   otherwise. *)
Ingest(h, l, o) ==
  LET s    == sweep[h]
      f    == snap[h].fold
      dv   == conn[h].derivation
      rev  == highest_revision(f[l]) + 1
      meta == [snap[h].meta EXCEPT ![l] =
                 [derivation |-> dv, fingerprint |-> s.fingerprint]]
  IN /\ pc[h] = "ingesting"
     /\ s.room > 0
     /\ o.resource = s.resource
     /\ sweep' = [sweep EXCEPT ![h].observed = @ \cup {l}, ![h].room = @ - 1]
     /\ \/ /\ already_known(snap[h], l, o)
           /\ txn' = [txn EXCEPT ![h] =
                stamp_seen(@, l, head_revision(f[l]), s.crawl, dv, s.fingerprint)]
           /\ snap' = [snap EXCEPT ![h].meta = meta]
        \/ /\ ~ already_known(snap[h], l, o)
           /\ txn' = [txn EXCEPT ![h] =
                append_observation(@, l, rev, o, s.received, s.crawl,
                                   dv, s.fingerprint)]
           /\ snap' = [snap EXCEPT ![h].meta = meta,
                         ![h].fold = fold_ingest(f, l, o, s.received)]
     /\ UNCHANGED <<db, lock, pc, conn, violated>>

(* ResumeState::next_request: the durable resume point. *)
next_request(s) == IF s.resumable = "exact" THEN s.exactNext ELSE s.start

(* Loses count of the pages. *)
CommitPage_uncounted(h) ==
  /\ pc[h] = "ingesting"
  /\ sweep[h].page = "more"
  /\ db' = set_crawl_cursor(txn[h], sweep[h].crawl, next_request(sweep[h]))
  /\ txn' = [txn EXCEPT ![h] = None]
  /\ sweep' = [sweep EXCEPT ![h].received = None, ![h].room = 0]
  /\ pc' = [pc EXCEPT ![h] = "reading"]
  /\ UNCHANGED <<lock, conn, violated, snap>>

(* A page that is not the last commits on its own, with its cursor. *)
CommitPage(h) ==
  /\ pc[h] = "ingesting"
  /\ sweep[h].page = "more"
  /\ db' = set_crawl_cursor(txn[h], sweep[h].crawl, next_request(sweep[h]))
  /\ txn' = [txn EXCEPT ![h] = None]
  /\ sweep' = [sweep EXCEPT ![h].pageNo = @ + 1, ![h].received = None, ![h].room = 0]
  /\ pc' = [pc EXCEPT ![h] = "reading"]
  /\ UNCHANGED <<lock, conn, violated, snap>>

-----------------------------------------------------------------------------
(***************************************************************************)
(* The last page: the gate, the retractions and the commit.                 *)
(***************************************************************************)

(* A resumed sweep passes for a whole one. *)
disqualifier_without_start(c, s, verdict) ==
  IF c.taint \/ verdict               THEN "connection_violation"
  ELSE IF s.page # "drained"          THEN "not_drained"
  ELSE IF s.faults # {}               THEN "foreign"
  ELSE IF c.derivation = EmptyDerivation THEN "no_derivation"
  ELSE None

(* Gate::disqualifier: the first condition that failed, or None. *)
disqualifier(c, s, verdict) ==
  IF c.taint \/ verdict               THEN "connection_violation"
  ELSE IF s.start # None              THEN "not_from_start_of_history"
  ELSE IF s.page # "drained"          THEN "not_drained"
  ELSE IF "not_fetched" \in s.faults  THEN "not_fetched"
  ELSE IF "anonymous" \in s.faults    THEN "anonymous"
  ELSE IF "inexact" \in s.faults      THEN "inexact"
  ELSE IF c.derivation = EmptyDerivation THEN "no_derivation"
  ELSE IF "foreign" \in s.faults      THEN "foreign"
  ELSE None

(* A record exactly at history_start counts as older. *)
within_history_strictly(at, historyStart) ==
  \/ historyStart = None
  \/ at # Unorderable /\ historyStart # Unorderable /\ at > historyStart

(* time::instant on both: a timestamp that cannot be ordered exempts. *)
within_history(at, historyStart) ==
  \/ historyStart = None
  \/ at # Unorderable /\ historyStart # Unorderable /\ at >= historyStart

retraction_reason(meta, derivation, fingerprint) ==
  IF meta # None /\ meta.derivation # derivation THEN "derivation_changed"
  ELSE IF meta # None /\ meta.fingerprint # fingerprint
       THEN "resource_definition_changed"
  ELSE "absent_from_complete_sweep"

vantage_moved(d, s) ==
  d.resource[s.resource].vantage \notin {None, s.vantage}

(* A sweep without observations against a non-empty live set. *)
emptied(live, c, s) == s.observed = {} /\ live # {} /\ ~ c.options.confirmEmpty

derive_retractions(d, c, s, sn) ==
  LET live   == live_set(sn.fold, retraction_high_water(d), s.resource)
      absent == live \ (s.observed \cup s.exempt)
      gone   == {l \in absent :
                   within_history(fold_head(sn.fold[l]).obs.at, s.historyStart)}
      why    == [l \in gone |->
                   retraction_reason(sn.meta[l], c.derivation, s.fingerprint)]
      kinds  == ({why[l] : l \in gone} \ {"absent_from_complete_sweep"})
                  \cup (IF gone # absent THEN {"history_start_exempt"} ELSE {})
      noted(k) == append_discrepancies(d, s.resource, k, s.crawl)
  IN IF vantage_moved(d, s) THEN noted({"vantage_changed"})
     ELSE IF emptied(live, c, s) THEN noted({"empty_sweep"})
     ELSE append_retractions(noted(kinds), gone, sn.fold, why, s.crawl)

(* Adopts the vantage whether or not the sweep reconciled it. *)
settle_adopting(d, c, s, sn, reason) ==
  LET derived == IF reason = None THEN derive_retractions(d, c, s, sn) ELSE d
  IN finish_crawl(
       set_resource_definition(
         set_adapter_derivation(derived, c.derivation),
         s.resource, s.fingerprint, s.vantage),
       s.crawl, s.page = "drained", reason = None, reason)

(* The database the last page's transaction commits. *)
settle(d, c, s, sn, reason) ==
  LET derived == IF reason = None THEN derive_retractions(d, c, s, sn) ELSE d
  IN finish_crawl(
       set_resource_definition(
         set_adapter_derivation(derived, c.derivation),
         s.resource, s.fingerprint, IF reason = None THEN s.vantage ELSE None),
       s.crawl, s.page = "drained", reason = None, reason)

(* with_contract_violation_held begins: the verdict is read and frozen, and
   everything but the commit happens in the transaction. *)
JudgeSweep(h) ==
  /\ pc[h] = "ingesting"
  /\ sweep[h].page # "more"
  /\ txn' = [txn EXCEPT ![h] =
       settle(@, conn[h], sweep[h], snap[h],
              disqualifier(conn[h], sweep[h], violated[h]))]
  /\ pc' = [pc EXCEPT ![h] = "committing"]
  /\ UNCHANGED <<db, lock, conn, violated, sweep, snap>>

(* The commit, and the verdict lock is released: the sweeps that follow
   inherit a violation that disqualified this one. *)
CommitSweep(h) ==
  /\ pc[h] = "committing"
  /\ db' = txn[h]
  /\ conn' = [conn EXCEPT ![h].taint = @ \/ violated[h]]
  /\ EndSweep(h)
  /\ UNCHANGED <<lock, violated>>

-----------------------------------------------------------------------------
HostStep(h) ==
  \/ StartSweep(h)
  \/ ReadFails(h)
  \/ PageLimit(h)
  \/ PageArrives(h)
  \/ \E l \in LocalIds, o \in Reportable : Ingest(h, l, o)
  \/ CommitPage(h)
  \/ JudgeSweep(h)
  \/ CommitSweep(h)
  \/ Disconnect(h)

Next ==
  \E h \in Hosts : Connect(h) \/ Publish(h) \/ Crash(h) \/ HostStep(h)

Spec == Init /\ [][Next]_vars

(* Every read has a deadline, so a host that lives keeps taking steps. *)
FairSpec == Spec /\ \A h \in Hosts : WF_vars(HostStep(h))

-----------------------------------------------------------------------------
(***************************************************************************)
(* What the store promises.                                                 *)
(***************************************************************************)
Sweeping(h) == pc[h] \in {"reading", "ingesting", "committing"}

InTxn(h) == pc[h] \in {"ingesting", "committing"}

(* The database as the host sees it: through its transaction if one is open. *)
View(h) == IF InTxn(h) THEN txn[h] ELSE db

(* Type correctness of the store and of every host's memory. *)
TypeOK ==
  /\ db \in Databases
  /\ lock \in Hosts \cup {None}
  /\ pc \in [Hosts -> Phases]
  /\ conn \in [Hosts -> Conns \cup {None}]
  /\ violated \in [Hosts -> BOOLEAN]
  /\ sweep \in [Hosts -> Sweeps \cup {None}]
  /\ snap \in [Hosts -> Snaps \cup {None}]
  /\ txn \in [Hosts -> Databases \cup {None}]
  /\ \A h \in Hosts :
       /\ pc[h] # "idle" => conn[h] \in Conns
       /\ Sweeping(h) => sweep[h] \in Sweeps /\ snap[h] \in Snaps
       /\ InTxn(h) => txn[h] \in Databases /\ sweep[h].received \in Times

RevisionsOf(d) ==
  \A l \in LocalIds : \A i \in 1..Len(d.chain[l]) : d.chain[l][i].revision = i

(* The chain a fold replays assigns each stored row the revision it was
   stored under, so (local_id, revision) names one row: what stamp_seen,
   stored_meta and the UNIQUE constraint of the observation table rely on. *)
RevisionsAreArrivalOrder == RevisionsOf(db)

Current(h) ==
  /\ snap[h].fold = Replay(View(h))
  /\ snap[h].buried = retraction_high_water(db)
  /\ \A l \in LocalIds \ sweep[h].observed :
       snap[h].meta[l] = head_meta(View(h))[l]

(* What a sweep loaded before its first page is still what the store holds
   when it is used, pages and awaits later: the fold is the replay of the
   store as the host sees it, the retractions that bury are the committed
   ones, and the rules of every record it has not observed are those stored
   for the chain's head.  Only the writer lock makes it so. *)
SnapshotCurrent == \A h \in Hosts : Sweeping(h) => Current(h)

(* The rules a sweep takes for a record are those on the stored row the fold
   calls the head, in whatever order the rows arrived, and a row carries those
   of the last crawl that saw it. *)
RulesAreTheHeads ==
  /\ \A l \in LocalIds : db.chain[l] # << >> =>
       LET row == db.chain[l][head_revision(Replay(db)[l])]
       IN head_meta(db)[l] = [derivation |-> row.derivation,
                              fingerprint |-> row.fingerprint]
  /\ \A l \in LocalIds : \A i \in 1..Len(db.chain[l]) :
       LET row == db.chain[l][i]
       IN /\ row.lastSeen \in row.crawl..Len(db.crawl)
          /\ row.derivation = db.crawl[row.lastSeen].derivation
          /\ row.fingerprint = db.crawl[row.lastSeen].fingerprint

(* A retraction is licensed by a sweep that began at the start of history and
   drained with no condition of the gate broken, and that did not see the
   record: no row of the record was written or stamped by it. *)
RetractionLicensed ==
  \A t \in db.retraction :
    /\ t.crawl \in 1..Len(db.crawl)
    /\ LET c == db.crawl[t.crawl]
       IN c.complete /\ c.drained /\ c.start = None /\ c.reason = None
    /\ \A i \in 1..Len(db.chain[t.local]) :
         t.crawl \notin {db.chain[t.local][i].crawl, db.chain[t.local][i].lastSeen}

(* A retraction buries what the host knew when it was derived and nothing it
   learned later: the rows up to its revision come from earlier crawls, the
   rows above it from later ones; and what it buries was live under the
   resource whose sweep licensed it. *)
RetractionCutsChain ==
  \A t \in db.retraction :
    LET head == fold_head(SubSeq(Replay(db)[t.local], 1, t.revision)).obs IN
    /\ t.revision \in 1..Len(db.chain[t.local])
    /\ head.state = "active" /\ head.resource = db.crawl[t.crawl].resource
    /\ \A i \in 1..Len(db.chain[t.local]) :
         IF i <= t.revision THEN db.chain[t.local][i].crawl < t.crawl
                            ELSE db.chain[t.local][i].crawl > t.crawl

(* Revival: a record a sweep has observed is buried by no retraction, however
   identical the re-emission and whatever the clock did. *)
ObservedNotBuried ==
  \A h \in Hosts : Sweeping(h) => \A l \in sweep[h].observed :
    ~ is_buried(retraction_high_water(View(h)), l, Len(View(h).chain[l]))

(* A resource has at most one resume point, that of its newest crawl, so a stale
   cursor never becomes eligible again; and a crawl resumed from a cursor
   continues an undrained crawl of the same resource, the same derivation and
   the same resource definition. *)
ResumesWhereItStopped ==
  /\ \A c \in 1..Len(db.crawl) : db.crawl[c].next # None =>
       /\ ~ db.crawl[c].drained
       /\ \A b \in c+1..Len(db.crawl) : db.crawl[b].resource # db.crawl[c].resource
  /\ \A c \in 1..Len(db.crawl) : db.crawl[c].start # None =>
       \E b \in 1..c-1 : /\ ~ db.crawl[b].drained
                         /\ db.crawl[b].resource = db.crawl[c].resource
                         /\ db.crawl[b].derivation = db.crawl[c].derivation
                         /\ db.crawl[b].fingerprint = db.crawl[c].fingerprint

Retracted == db'.retraction \ db.retraction

(* The sweep began at the start of history, drained, and read no page that broke
   a condition, under rules that name a derivation. *)
SawAll(h) ==
  /\ sweep[h].start = None /\ sweep[h].page = "drained" /\ sweep[h].faults = {}
  /\ conn[h].derivation # EmptyDerivation

(* No retraction becomes durable on a connection the host has caught breaking
   the contract, on this sweep's reads or any other, before the commit, nor from
   a sweep that did not see all of history, whatever the gate recorded of it:
   a condition that one page broke stays broken on every later one. *)
NoRetractionOnceViolated ==
  [][/\ Retracted # {} =>
          \A h \in Hosts : pc[h] = "committing" =>
            ~ violated[h] /\ ~ conn[h].taint /\ SawAll(h)
     /\ \A h \in Hosts : Sweeping(h) /\ Sweeping(h)' =>
          sweep[h].faults \subseteq sweep'[h].faults]_vars

Completes(c) == db'.crawl[c].complete /\ ~ db.crawl[c].complete

SeenBy(d, l, c) == \E i \in 1..Len(d.chain[l]) : d.chain[l][i].lastSeen = c

HeadAt(d, l) == fold_head(Replay(d)[l]).obs.at

(* The instant is not known to lie within the history the adapter reports. *)
BeforeHistory(at, start) ==
  start # None /\ (Unorderable \in {at, start} \/ at < start)

(* A complete sweep settles its resource in the step that commits it: unless a
   discrepancy exempts the whole sweep, what is left live under the resource
   was seen by the sweep, degraded by name, or lies before history_start. *)
CompleteSweepSettles ==
  [][\A h \in Hosts, c \in 1..Len(db.crawl) :
       (pc[h] = "committing" /\ Completes(c)
         /\ ~ \E x \in db'.discrepancy :
                x.crawl = c /\ x.kind \in {"vantage_changed", "empty_sweep"})
       => \A l \in live_records(db', db.crawl[c].resource) :
            \/ SeenBy(db', l, c)
            \/ l \in sweep[h].exempt
            \/ BeforeHistory(HeadAt(db', l), sweep[h].historyStart)]_vars

(* An exemption holds in the step that commits the sweep: a record the status
   named as degraded, or one the adapter's history does not provably reach
   back to, is not retracted, and neither is one the sweep itself saw; a sweep
   that saw nothing at all retracts only when the user confirmed it; and the
   vantage of a resource, once known, moves only with a sweep that records
   vantage_changed and retracts nothing, so that a disqualified sweep does not
   use the exemption up. *)
ExemptRecordsSurvive ==
  [][/\ \A h \in Hosts, t \in Retracted : pc[h] = "committing" =>
          /\ t.local \notin sweep[h].exempt
          /\ ~ SeenBy(db', t.local, t.crawl)
          /\ ~ BeforeHistory(HeadAt(db, t.local), sweep[h].historyStart)
          /\ \/ conn[h].options.confirmEmpty
             \/ \E l \in LocalIds : SeenBy(db', l, t.crawl)
     /\ \A r \in Resources :
          db.resource[r].vantage \notin {None, db'.resource[r].vantage} =>
            /\ Retracted = {}
            /\ \E x \in db'.discrepancy \ db.discrepancy :
                 x.resource = r /\ x.kind = "vantage_changed"]_vars

(* The newest crawl that wrote or stamped a row of the record. *)
LastSighting(d, l) ==
  CHOOSE c \in {d.chain[l][i].lastSeen : i \in 1..Len(d.chain[l])} :
    \A i \in 1..Len(d.chain[l]) : d.chain[l][i].lastSeen <= c

(* The reason of a retraction blames a software change exactly when the rules
   moved since the record was last seen. *)
BlameFollowsTheLastSighting ==
  [][\A t \in Retracted :
       LET seen == db'.crawl[LastSighting(db', t.local)]
           now  == db'.crawl[t.crawl]
       IN t.reason =
            IF seen.derivation # now.derivation THEN "derivation_changed"
            ELSE IF seen.fingerprint # now.fingerprint
                 THEN "resource_definition_changed"
            ELSE "absent_from_complete_sweep"]_vars

(* A record reported under two resources is live under whichever swept it
   last, when no report is a tombstone. *)
LastSweepOwnsTheRecord ==
  [][\A h \in Hosts : pc[h] = "committing" /\ pc'[h] = "connected" =>
       sweep[h].observed \subseteq live_records(db', sweep[h].resource)]_vars

(* History is append-only: no step drops or rewrites what a row says, and no
   retraction is withdrawn. *)
HistoryIsAppendOnly ==
  [][/\ db.retraction \subseteq db'.retraction
     /\ db.discrepancy \subseteq db'.discrepancy
     /\ \A l \in LocalIds : \A i \in 1..Len(db.chain[l]) :
          /\ i <= Len(db'.chain[l])
          /\ db'.chain[l][i].obs = db.chain[l][i].obs
          /\ db'.chain[l][i].received = db.chain[l][i].received]_vars

(* Every refresh ends, whatever cursors the adapter hands back. *)
RefreshEnds == \A h \in Hosts : pc[h] # "idle" ~> pc[h] = "idle"
=============================================================================
