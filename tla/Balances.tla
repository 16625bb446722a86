------------------------------ MODULE Balances ------------------------------
(***************************************************************************)
(* Balances and their freshness: `sumer connect' and `sumer refresh' over   *)
(* every connected adapter up to the sweeps, and what `sumer balances'      *)
(* shows of the stored lines (core/store/src/main.rs, refresh.rs, store.rs, *)
(* render.rs, and the typed reads of core/host/src/lib.rs).                 *)
(*                                                                         *)
(* A figure is shown as live when the row it stands on was written by the   *)
(* read that is current for its adapter.  A refresh opens a read before     *)
(* anything that can fail, so whatever ends it early leaves every line of   *)
(* the adapter stale; no path writes that fact down.  Every statement here  *)
(* commits on its own, but for the rows of one reply, and the process may   *)
(* die between any two.  `sumer balances' takes no lock and reads a         *)
(* resource's rows in one statement, at any moment.                         *)
(*                                                                         *)
(* An adapter_id is a number, for adapters are refreshed in its order.      *)
(* Dates, providers and the asset are left out: they are printed as stored. *)
(***************************************************************************)
EXTENDS Integers, Sequences

CONSTANTS
  Adapters,    \* adapter ids
  Resources,   \* resource ids, which two adapters may share
  Categories,  \* a provider's names of its lines
  Amounts,     \* figures
  Hosts,       \* processes run on the profile
  Lines,       \* the balances an adapter may put in a reply
  Entries,     \* the status entries it may put in one
  MaxLines,    \* bound: balances in a reply
  MaxEntries,  \* bound: status entries in a reply
  MaxReads,    \* bound: reads opened of each adapter
  None

(* ReadOutcome *)
Outcomes == {"fetched", "not_fetched", "stale", "rate_limited", "unavailable",
             "reauth_required", "revoked", "gone", "sca_required"}

(* BalanceWire: `says' is provenance.adapter_id. *)
WireLines == [resource : Resources, category : Categories,
              amount : Amounts \cup {None}, says : Adapters]

(* ResourceStatus *)
Statuses == [resource : Resources, outcome : Outcomes]

ASSUME BalancesAssumption ==
  /\ Adapters \subseteq Nat
  /\ None \notin Hosts \cup Amounts \cup Adapters
  /\ Lines \subseteq WireLines /\ Entries \subseteq Statuses
  /\ MaxLines \in Nat /\ MaxEntries \in Nat
  /\ MaxReads \in [Adapters -> Nat]

VARIABLES
  registered,   \* the adapter table
  reauth,       \* its needs_reauth column
  balance_read, \* its balance_read column
  resource,     \* the resource table
  balance,      \* the balance table of each adapter, by balance_id
  lock,         \* the host holding the profile's writer lock, or None
  host          \* where each process is

vars == <<registered, reauth, balance_read, resource, balance, lock, host>>

(* A stored line.  `says' is not stored: it is kept to state that no figure is
   filed under an adapter that did not report it. *)
BalanceRows == [resource : Resources, category : Categories,
                amount : Amounts \cup {None}, says : Adapters,
                staleness : {"Live", "Cached", "Unavailable"}, read : Nat]

(* `todo' are the adapters still to refresh, `adapter' the one at hand, `read'
   the id of its read, `announced' what the connection's hello said, `listed'
   the resources, `upserts' those still to be written. *)
Places == {"idle", "connecting", "registered", "next", "spawning", "connected",
           "listing", "upserting", "status", "reading", "sweeping"}

HostStates ==
  [at : Places, todo : SUBSET Adapters, adapter : Adapters \cup {None},
   announced : Adapters \cup {None}, read : Nat,
   listed : SUBSET Resources, upserts : SUBSET Resources]

Idle == [at |-> "idle", todo |-> {}, adapter |-> None, announced |-> None, read |-> 0,
         listed |-> {}, upserts |-> {}]

Init ==
  /\ registered = {} /\ reauth = {} /\ resource = {}
  /\ balance_read = [a \in Adapters |-> 0]
  /\ balance = [a \in Adapters |-> << >>]
  /\ lock = None
  /\ host = [h \in Hosts |-> Idle]

-----------------------------------------------------------------------------
(***************************************************************************)
(* Commands: the lock, the end of a run.                                    *)
(***************************************************************************)
At(h, place) == host[h].at = place

Goto(h, place) == host' = [host EXCEPT ![h].at = place]

tables == <<registered, reauth, balance_read, resource, balance>>

(* cmd_connect up to its first write: the adapter is spawned, asked and closed,
   and one that failed or broke the contract leaves nothing behind. *)
BeginConnect(h) ==
  /\ At(h, "idle") /\ lock = None
  /\ lock' = h
  /\ \E a \in Adapters, listed \in SUBSET Resources :
       host' = [host EXCEPT ![h] = [Idle EXCEPT !.at = "connecting", !.adapter = a,
                                                !.listed = listed, !.upserts = listed]]
  /\ UNCHANGED tables

(* upsert_adapter; a row that is there keeps its columns. *)
upsert_adapter(h) ==
  /\ At(h, "connecting")
  /\ registered' = registered \cup {host[h].adapter}
  /\ Goto(h, "registered")
  /\ UNCHANGED <<reauth, balance_read, resource, balance, lock>>

(* cmd_refresh and refresh: the adapters are loaded, one or all of them. *)
BeginRefresh(h) ==
  /\ At(h, "idle") /\ lock = None
  /\ registered # {}
  /\ lock' = h
  /\ \E todo \in {registered} \cup {registered \cap {a} : a \in Adapters} :
       /\ \A a \in todo : balance_read[a] + 2 <= MaxReads[a]
       /\ host' = [host EXCEPT ![h] = [Idle EXCEPT !.at = "next", !.todo = todo]]
  /\ UNCHANGED tables

Forget(h) ==
  /\ host' = [host EXCEPT ![h] = Idle]
  /\ lock' = None
  /\ UNCHANGED tables

(* The command is done. *)
End(h) ==
  /\ \/ At(h, "next") /\ host[h].todo = {}
     \/ At(h, "registered") /\ host[h].upserts = {}
  /\ Forget(h)

(* The process dies, or an error ends the command. *)
Crash(h) == ~ At(h, "idle") /\ Forget(h)

-----------------------------------------------------------------------------
(***************************************************************************)
(* One adapter of a refresh.                                                *)
(***************************************************************************)
(* SELECT ... ORDER BY adapter_id *)
IsFirst(a, todo) == a \in todo /\ \A b \in todo : a <= b

(* Leaves the opening to refresh_adapter, which runs once the spawn worked. *)
OpenRead_late(h) ==
  /\ At(h, "next")
  /\ \E a \in Adapters :
        /\ IsFirst(a, host[h].todo)
        /\ host' = [host EXCEPT ![h] = [Idle EXCEPT !.at = "spawning", !.adapter = a,
                                                    !.todo = host[h].todo \ {a}]]
  /\ UNCHANGED <<tables, lock>>

(* open_balance_read, before the spawn. *)
OpenRead(h) ==
  /\ At(h, "next")
  /\ \E a \in Adapters :
        /\ IsFirst(a, host[h].todo)
        /\ balance_read' = [balance_read EXCEPT ![a] = @ + 1]
        /\ host' = [host EXCEPT ![h] = [Idle EXCEPT !.at = "spawning", !.adapter = a,
                                                    !.todo = host[h].todo \ {a}]]
  /\ UNCHANGED <<registered, reauth, resource, balance, lock>>

(* Takes the opening back with the refresh that failed. *)
SpawnFails_undoing(h) ==
  /\ At(h, "spawning")
  /\ balance_read' = [balance_read EXCEPT ![host[h].adapter] = @ - 1]
  /\ Goto(h, "next")
  /\ UNCHANGED <<registered, reauth, resource, balance, lock>>

SpawnFails(h) ==
  /\ At(h, "spawning")
  /\ Goto(h, "next")
  /\ UNCHANGED <<tables, lock>>

Spawned(h) ==
  /\ At(h, "spawning")
  /\ Goto(h, "connected")
  /\ UNCHANGED <<tables, lock>>

(* Believes whatever connection it was given. *)
EnterAdapter_unchecked(h) ==
  /\ At(h, "connected")
  /\ LET a == host[h].adapter
     IN /\ balance_read' = [balance_read EXCEPT ![a] = @ + 1]
        /\ \E announced \in Adapters :
             host' = [host EXCEPT ![h].read = balance_read[a] + 1,
                                  ![h].announced = announced, ![h].at = "listing"]
  /\ UNCHANGED <<registered, reauth, resource, balance, lock>>

(* refresh_adapter opens a read of its own, and refuses a connection whose
   hello announces another adapter. *)
EnterAdapter(h) ==
  /\ At(h, "connected")
  /\ LET a == host[h].adapter
     IN /\ balance_read' = [balance_read EXCEPT ![a] = @ + 1]
        /\ \E announced \in Adapters :
             host' = [host EXCEPT ![h].read = balance_read[a] + 1, ![h].announced = announced,
                                  ![h].at = IF announced = a THEN "listing" ELSE "next"]
  /\ UNCHANGED <<registered, reauth, resource, balance, lock>>

(* resources.list *)
List(h) ==
  /\ At(h, "listing")
  /\ \E listed \in SUBSET Resources :
       host' = [host EXCEPT ![h].listed = listed, ![h].upserts = listed,
                            ![h].at = "upserting"]
  /\ UNCHANGED <<tables, lock>>

(* upsert_resource for each listed resource, of a connect or a refresh. *)
upsert_resource(h) ==
  /\ At(h, "registered") \/ At(h, "upserting")
  /\ \E r \in host[h].upserts :
       /\ resource' = resource \cup {<<host[h].adapter, r>>}
       /\ host' = [host EXCEPT ![h].upserts = @ \ {r}]
  /\ UNCHANGED <<registered, reauth, balance_read, balance, lock>>

Upserted(h) ==
  /\ At(h, "upserting") /\ host[h].upserts = {}
  /\ Goto(h, "status")
  /\ UNCHANGED <<tables, lock>>

-----------------------------------------------------------------------------
(***************************************************************************)
(* The typed reads.                                                         *)
(***************************************************************************)
SeqsUpTo(S, n) == UNION {[1..m -> S] : m \in 0..n}

(* Every requested resource has exactly one entry, and none has two. *)
check_status_coverage(requested, statuses) ==
  /\ \A i, j \in DOMAIN statuses :
       statuses[i].resource = statuses[j].resource => i = j
  /\ requested \subseteq {statuses[i].resource : i \in DOMAIN statuses}

staleness_of(outcome) ==
  CASE outcome = "stale" -> "Cached"
    [] outcome \in {"unavailable", "gone"} -> "Unavailable"
    [] OTHER -> "Live"

(* The staleness the resource of a line reported. *)
staleness_for(statuses, r) ==
  LET I == {i \in DOMAIN statuses : statuses[i].resource = r}
  IN IF I = {} THEN "Unavailable" ELSE staleness_of(statuses[CHOOSE i \in I : TRUE].outcome)

(* The line is about the connection's own adapter and about what was asked. *)
answers(run, line) == line.says = run.announced /\ line.resource \in run.listed

(* Balance::stamp and append_balance. *)
row_of(line, statuses, read) ==
  [resource |-> line.resource, category |-> line.category,
   amount |-> line.amount, says |-> line.says,
   staleness |-> staleness_for(statuses, line.resource), read |-> read]

(* status.read and needs_reauth. *)
StatusRead(h) ==
  /\ At(h, "status")
  /\ \E statuses \in SeqsUpTo(Entries, MaxEntries) :
       /\ check_status_coverage(host[h].listed, statuses)
       /\ reauth' =
            IF \E i \in DOMAIN statuses :
                 statuses[i].outcome \in {"reauth_required", "sca_required", "revoked"}
            THEN reauth \cup {host[h].adapter} ELSE reauth \ {host[h].adapter}
  /\ Goto(h, "reading")
  /\ UNCHANGED <<registered, balance_read, resource, balance, lock>>

(* balances.read failed, or its reply was refused as a whole. *)
ReadFails(h) ==
  /\ At(h, "reading")
  /\ Goto(h, "sweeping")
  /\ UNCHANGED <<tables, lock>>

(* balances.read: a reply that is accepted, and the transaction of its rows.
   Its lines over the size limit are judged like the others and then left out,
   so it is a reply without them. *)
BalancesRead(h) ==
  /\ At(h, "reading")
  /\ \E statuses \in SeqsUpTo(Entries, MaxEntries), lines \in SeqsUpTo(Lines, MaxLines) :
       LET a == host[h].adapter
       IN /\ check_status_coverage(host[h].listed, statuses)
          /\ \A i \in DOMAIN lines : answers(host[h], lines[i])
          /\ balance' = [balance EXCEPT ![a] =
               @ \o [i \in DOMAIN lines |-> row_of(lines[i], statuses, host[h].read)]]
  /\ Goto(h, "sweeping")
  /\ UNCHANGED <<registered, reauth, balance_read, resource, lock>>

(* An error leaves refresh_adapter, the connection's or the store's: what was
   committed stays, and the next adapter has its turn. *)
AdapterFails(h) ==
  /\ host[h].at \in {"connected", "listing", "upserting", "status", "reading"}
  /\ Goto(h, "next")
  /\ UNCHANGED <<tables, lock>>

(* The sweeps and the close, which touch no balance. *)
Swept(h) ==
  /\ At(h, "sweeping")
  /\ Goto(h, "next")
  /\ UNCHANGED <<tables, lock>>

-----------------------------------------------------------------------------
Next ==
  \E h \in Hosts :
    \/ BeginConnect(h) \/ upsert_adapter(h) \/ upsert_resource(h)
    \/ BeginRefresh(h) \/ OpenRead(h) \/ SpawnFails(h) \/ Spawned(h)
    \/ EnterAdapter(h) \/ List(h) \/ Upserted(h) \/ StatusRead(h)
    \/ ReadFails(h) \/ BalancesRead(h) \/ AdapterFails(h) \/ Swept(h)
    \/ End(h) \/ Crash(h)

Spec == Init /\ [][Next]_vars

-----------------------------------------------------------------------------
(***************************************************************************)
(* What `sumer balances' shows.                                             *)
(***************************************************************************)
LineRows(a, r, c) ==
  {i \in DOMAIN balance[a] : balance[a][i].resource = r /\ balance[a][i].category = c}

Latest(I) == CHOOSE i \in I : \A j \in I : j <= i

(* balance_history: the freshness join. *)
from_latest_read(a, row) == row.read = balance_read[a]

(* balance_line: the newest row when it is live or has a figure, else the last
   figure there ever was. *)
balance_line(a, r, c) ==
  LET I == LineRows(a, r, c)
      F == {i \in I : balance[a][i].amount # None}
  IN IF I = {} THEN [shows |-> "nothing", amount |-> None]
     ELSE LET row  == balance[a][Latest(I)]
              live == from_latest_read(a, row) /\ row.staleness = "Live"
          IN IF live
             THEN [shows |-> IF row.amount = None THEN "unknown" ELSE "live",
                   amount |-> row.amount]
             ELSE IF F = {} THEN [shows |-> "unavailable", amount |-> None]
             ELSE [shows |-> "stale", amount |-> balance[a][Latest(F)].amount]

-----------------------------------------------------------------------------
(***************************************************************************)
(* What the store promises of balances.                                     *)
(***************************************************************************)

(* Type correctness of the tables and the processes. *)
TypeOK ==
  /\ registered \subseteq Adapters /\ reauth \subseteq Adapters
  /\ resource \subseteq Adapters \X Resources
  /\ balance_read \in [Adapters -> Nat]
  /\ balance \in [Adapters -> Seq(BalanceRows)]
  /\ lock \in Hosts \cup {None}
  /\ host \in [Hosts -> HostStates]
  /\ \A h \in Hosts :
       /\ host[h].at \notin {"idle", "next"} => host[h].adapter \in Adapters

Shown(a, r, c) == balance_line(a, r, c).shows

Current(a, r, c) == Shown(a, r, c) \in {"live", "unknown"}

(* A refresh of the adapter has begun and has not read its balances. *)
Unread(h) == host[h].at \in {"spawning", "connected", "listing", "upserting",
                             "status", "reading"}

(* From the moment a refresh sets out to reach an adapter until it has read the
   balances, `sumer balances' calls no line of that adapter current; so a
   refresh that dies or fails on the way leaves none that is. *)
UnreadIsNotLive ==
  \A h \in Hosts : Unread(h) =>
    \A r \in Resources, c \in Categories : ~ Current(host[h].adapter, r, c)

Reported(a, r, c) ==
  \E i \in Len(balance[a]) + 1 .. Len(balance'[a]) :
    balance'[a][i].resource = r /\ balance'[a][i].category = c

(* A line becomes current only with a reply that carries it, and stops being
   current only when another read is opened or reports it: a failure after a
   read downgrades nothing, and none before it is ever undone.  A figure on the
   screen gives way to another figure, or to an adapter that has looked just
   now and does not know; no failure blanks it. *)
FreshnessFollowsTheRead ==
  [][\A a \in Adapters, r \in Resources, c \in Categories :
       /\ balance_line(a, r, c).amount # None =>
            \/ balance_line(a, r, c)'.amount = balance_line(a, r, c).amount
            \/ Reported(a, r, c) /\ balance_line(a, r, c)'.shows # "unavailable"
       /\ ~ Current(a, r, c) /\ Current(a, r, c)' => Reported(a, r, c)
       /\ Current(a, r, c) /\ ~ Current(a, r, c)' =>
            Reported(a, r, c) \/ balance_read'[a] > balance_read[a]]_vars

(* No figure is filed under an adapter that did not report it, nor for a
   resource the profile has no row of. *)
FiledUnderItsOwn ==
  \A a \in Adapters : \A i \in DOMAIN balance[a] :
    /\ balance[a][i].says = a
    /\ <<a, balance[a][i].resource>> \in resource
    /\ a \in registered
=============================================================================
