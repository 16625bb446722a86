------------------------------- MODULE Store -------------------------------
(***************************************************************************)
(* The durable tables of one adapter in a sumer profile and the store and   *)
(* fold operations on them, as operators from a database value to a         *)
(* database value (core/store/src/store.rs, core/host/src/fold.rs).  A      *)
(* SQLite transaction is then a working copy of the database: the           *)
(* operations are applied to the copy and the commit installs it.           *)
(*                                                                         *)
(* Abstractions of data.  Ids, fingerprints and cursors are opaque tokens.  *)
(* `content' stands for every hashed field the host never interprets, so    *)
(* the content hash of an observation is the observation record itself      *)
(* (SHA-256 is taken to be injective).  `received_at' is stamped by the     *)
(* host in one format, so its text order is the order of its instants and   *)
(* a number stands for it; `surface' is compared bytewise, and a number     *)
(* stands for it too.  A NULL column is None.                               *)
(***************************************************************************)
EXTENDS Integers, Sequences

CONSTANTS
  LocalIds,        \* the records a provider can report
  Resources,       \* the resources (accounts, wallets) of the adapter
  Surfaces,        \* the provider surfaces, in bytewise order
  Contents,        \* everything else in an observation that is hashed
  Times,           \* instants: received_at, effective_at, history_start
  Derivations,     \* values of hello.local_id_derivation
  EmptyDerivation, \* the empty string, which hello may carry
  Fingerprints,    \* hashes of a resource definition
  Vantages,        \* values of ResourceDescriptor.provider_id
  Cursors,         \* page tokens
  Unorderable,     \* a timestamp time::instant cannot place
  None

ASSUME NumbersAssumption == Surfaces \subseteq Nat /\ Times \subseteq Nat

ASSUME SentinelAssumption ==
  /\ None \notin Vantages \cup Cursors \cup Fingerprints \cup Derivations
  /\ None # Unorderable
  /\ Unorderable \notin Times /\ None \notin Times

(* The hashed part of an observation, sumer_wire::Observation. *)
Observations ==
  [resource : Resources, surface : Surfaces, state : {"active", "tombstoned"},
   content : Contents, at : Times \cup {Unorderable}]

(* One row of the observation table; its local_id is its place in `chain'. *)
Rows ==
  [obs : Observations, received : Times, revision : Nat,
   crawl : Nat, lastSeen : Nat,
   derivation : Derivations, fingerprint : Fingerprints]

(* Why a crawl was not complete: the first gate condition that failed, a read
   that failed, or the page limit. *)
Disqualifications ==
  {"connection_violation", "not_from_start_of_history", "not_drained",
   "not_fetched", "anonymous", "inexact", "no_derivation", "foreign",
   "adapter_failed", "page_limit"}

ASSUME ReasonAssumption == None \notin Disqualifications

(* Why a record was retracted, and what a sweep notes besides. *)
Reasons == {"derivation_changed", "resource_definition_changed",
            "absent_from_complete_sweep"}

Kinds == {"derivation_changed", "resource_definition_changed",
          "vantage_changed", "empty_sweep", "history_start_exempt"}

(* One row of the crawl table; its crawl_id is its place in `crawl'. *)
CrawlRows ==
  [resource : Resources, start : Cursors \cup {None}, next : Cursors \cup {None},
   derivation : Derivations, fingerprint : Fingerprints,
   drained : BOOLEAN, complete : BOOLEAN, reason : Disqualifications \cup {None}]

Chains == [LocalIds -> Seq(Rows)]

Retractions == [local : LocalIds, revision : Nat, reason : Reasons, crawl : Nat]

ResourceRows == [fingerprint : Fingerprints \cup {None}, vantage : Vantages \cup {None}]

Discrepancies == [resource : Resources, kind : Kinds, crawl : Nat]

Databases ==
  [chain       : Chains,
   retraction  : SUBSET Retractions,
   crawl       : Seq(CrawlRows),
   resource    : [Resources -> ResourceRows],
   derivation  : Derivations \cup {None},
   discrepancy : SUBSET Discrepancies]

EmptyDatabase ==
  [chain       |-> [l \in LocalIds |-> << >>],
   retraction  |-> {},
   crawl       |-> << >>,
   resource    |-> [r \in Resources |-> [fingerprint |-> None, vantage |-> None]],
   derivation  |-> None,
   discrepancy |-> {}]

-----------------------------------------------------------------------------
(***************************************************************************)
(* The fold.  A fold chain holds what sumer_host::fold::Fold holds of an    *)
(* observation, in arrival order: the revision of an entry is its place,    *)
(* whether it arrived just now or was replayed from the store.              *)
(***************************************************************************)
FoldEntries == [obs : Observations, received : Times]

(* Replays the stored observations in stored order. *)
Replay(d) ==
  [l \in LocalIds |-> [i \in 1..Len(d.chain[l]) |->
     [obs |-> d.chain[l][i].obs, received |-> d.chain[l][i].received]]]

(* fold_order_key: (received_at, surface, arrival_index), ascending. *)
fold_order(c, i, j) ==
  \/ c[i].received < c[j].received
  \/ /\ c[i].received = c[j].received
     /\ \/ c[i].obs.surface < c[j].obs.surface
        \/ c[i].obs.surface = c[j].obs.surface /\ i <= j

(* The revision of the chain's head: the last entry in the total order. *)
head_revision(c) ==
  CHOOSE i \in 1..Len(c) : \A j \in 1..Len(c) : fold_order(c, j, i)

fold_head(c) == c[head_revision(c)]

highest_revision(c) == Len(c)

(* Dropped field: the hash as if the resource were not content. *)
content_hash_without_resource(o) ==
  [surface |-> o.surface, state |-> o.state, content |-> o.content, at |-> o.at]

(* Equal hashes are equal hashed fields. *)
content_hash(o) == o

fold_ingest(f, l, o, received) ==
  [f EXCEPT ![l] = Append(@, [obs |-> o, received |-> received])]

-----------------------------------------------------------------------------
(***************************************************************************)
(* Retractions and liveness.  The high-water map of the code answers one    *)
(* question, whether some retraction of the key reaches a revision; the set *)
(* of (key, revision) pairs answers the same one.                           *)
(***************************************************************************)
retraction_high_water(d) == {<<t.local, t.revision>> : t \in d.retraction}

is_buried(highWater, l, revision) ==
  \E w \in highWater : w[1] = l /\ w[2] >= revision

live_set(f, highWater, r) ==
  {l \in LocalIds :
     /\ f[l] # << >>
     /\ fold_head(f[l]).obs.state = "active"
     /\ fold_head(f[l]).obs.resource = r
     /\ ~ is_buried(highWater, l, highest_revision(f[l]))}

(* What `sumer history' shows of a resource. *)
live_records(d, r) == live_set(Replay(d), retraction_high_water(d), r)

(* Retracts at the revision of the head instead of the highest one. *)
append_retractions_at_head(d, ls, f, reasons, c) ==
  [d EXCEPT !.retraction = @ \cup
     {[local |-> l, revision |-> head_revision(f[l]),
       reason |-> reasons[l], crawl |-> c] : l \in ls}]

append_retractions(d, ls, f, reasons, c) ==
  [d EXCEPT !.retraction = @ \cup
     {[local |-> l, revision |-> highest_revision(f[l]),
       reason |-> reasons[l], crawl |-> c] : l \in ls}]

append_discrepancies(d, r, kinds, c) ==
  [d EXCEPT !.discrepancy = @ \cup
     {[resource |-> r, kind |-> k, crawl |-> c] : k \in kinds}]

-----------------------------------------------------------------------------
(* Observations. *)

(* Leaves last_seen_crawl to the first stamp. *)
append_observation_unseen(d, l, revision, o, received, c, derivation, fingerprint) ==
  [d EXCEPT !.chain[l] = Append(@,
     [obs |-> o, received |-> received, revision |-> revision,
      crawl |-> c, lastSeen |-> None,
      derivation |-> derivation, fingerprint |-> fingerprint])]

(* Replaces the record's row instead of appending to its chain. *)
append_observation_upsert(d, l, revision, o, received, c, derivation, fingerprint) ==
  [d EXCEPT !.chain[l] =
     << [obs |-> o, received |-> received, revision |-> revision,
         crawl |-> c, lastSeen |-> c,
         derivation |-> derivation, fingerprint |-> fingerprint] >>]

append_observation(d, l, revision, o, received, c, derivation, fingerprint) ==
  [d EXCEPT !.chain[l] = Append(@,
     [obs |-> o, received |-> received, revision |-> revision,
      crawl |-> c, lastSeen |-> c,
      derivation |-> derivation, fingerprint |-> fingerprint])]

(* Stamps the crawl and leaves the old rules on the row. *)
stamp_seen_crawl_only(d, l, revision, c, derivation, fingerprint) ==
  [d EXCEPT !.chain[l] =
     [i \in 1..Len(d.chain[l]) |->
        IF d.chain[l][i].revision = revision
        THEN [d.chain[l][i] EXCEPT !.lastSeen = c] ELSE d.chain[l][i]]]

stamp_seen(d, l, revision, c, derivation, fingerprint) ==
  [d EXCEPT !.chain[l] =
     [i \in 1..Len(d.chain[l]) |->
        IF d.chain[l][i].revision = revision
        THEN [d.chain[l][i] EXCEPT !.lastSeen = c,
                                   !.derivation = derivation,
                                   !.fingerprint = fingerprint]
        ELSE d.chain[l][i]]]

-----------------------------------------------------------------------------
(* Crawls. *)

open_crawl(d, r, start, derivation, fingerprint) ==
  [d EXCEPT !.crawl = Append(
     [i \in 1..Len(d.crawl) |->
        IF d.crawl[i].resource = r THEN [d.crawl[i] EXCEPT !.next = None]
                                   ELSE d.crawl[i]],
     [resource |-> r, start |-> start, next |-> start,
      derivation |-> derivation, fingerprint |-> fingerprint,
      drained |-> FALSE, complete |-> FALSE, reason |-> None])]

set_crawl_cursor(d, c, next) == [d EXCEPT !.crawl[c].next = next]

finish_crawl(d, c, drained, complete, reason) ==
  [d EXCEPT !.crawl[c] =
     [@ EXCEPT !.drained = drained, !.complete = complete, !.reason = reason,
               !.next = IF drained THEN None ELSE d.crawl[c].next]]

(* The crawls of r a --resume may continue; the newest of them is taken. *)
resumable_crawls(d, r) ==
  {c \in 1..Len(d.crawl) : /\ d.crawl[c].resource = r
                           /\ ~ d.crawl[c].drained
                           /\ d.crawl[c].next # None}

resumable_crawl(d, r) ==
  CHOOSE c \in resumable_crawls(d, r) : \A b \in resumable_crawls(d, r) : b <= c

set_resource_definition(d, r, fingerprint, vantage) ==
  [d EXCEPT !.resource[r] =
     [fingerprint |-> fingerprint,
      vantage |-> IF vantage = None THEN @.vantage ELSE vantage]]

set_adapter_derivation(d, derivation) == [d EXCEPT !.derivation = derivation]
=============================================================================
