-------------------------- MODULE SweepCrawlProofs --------------------------
(***************************************************************************)
(* What a crawl row says of the sweep it stands for: where a sweep may      *)
(* resume, what licenses a retraction, and what a retraction buries, for    *)
(* every number of hosts, pages, records and crawls.                        *)
(*                                                                         *)
(* What the commit of a sweep does to its resource: a complete sweep        *)
(* settles it, an exemption holds, and the rules a record is judged by are  *)
(* those of its head, for every number of hosts, pages, records and crawls. *)
(*                                                                         *)
(* And what a clock that goes on adds: the head of a record is what the     *)
(* newest crawl that saw it reported, so a retraction blames what changed   *)
(* since, and a record belongs to the resource swept last.                  *)
(***************************************************************************)
EXTENDS SweepProofs

-----------------------------------------------------------------------------
(* What holds of a database, committed or about to be. *)

(* A cursor belongs to the newest crawl of its resource, which has not drained. *)
OneCursor(d) ==
  \A c \in 1..Len(d.crawl) : d.crawl[c].next # None =>
    /\ ~ d.crawl[c].drained
    /\ \A b \in c+1..Len(d.crawl) : d.crawl[b].resource # d.crawl[c].resource

(* A crawl that began at a cursor has the unfinished crawl it continues. *)
Continues(d) ==
  \A c \in 1..Len(d.crawl) : d.crawl[c].start # None =>
    \E b \in 1..c-1 : /\ ~ d.crawl[b].drained
                      /\ d.crawl[b].resource = d.crawl[c].resource
                      /\ d.crawl[b].derivation = d.crawl[c].derivation
                      /\ d.crawl[b].fingerprint = d.crawl[c].fingerprint

(* A retraction names a whole, clean crawl. *)
FromWhole(d) ==
  \A t \in d.retraction :
    /\ t.crawl \in 1..Len(d.crawl)
    /\ LET c == d.crawl[t.crawl]
       IN c.complete /\ c.drained /\ c.start = None /\ c.reason = None

(* That crawl did not see the record. *)
Unseen(d) ==
  \A t \in d.retraction : \A i \in 1..Len(d.chain[t.local]) :
    t.crawl \notin {d.chain[t.local][i].crawl, d.chain[t.local][i].lastSeen}

(* Rows are written and stamped by crawls that exist. *)
RowsHaveCrawls(d) ==
  \A l \in LocalIds : \A i \in 1..Len(d.chain[l]) :
    d.chain[l][i].crawl <= Len(d.crawl) /\ d.chain[l][i].lastSeen <= Len(d.crawl)

(* A retraction cuts its chain between earlier crawls and later ones. *)
Cuts(d) ==
  \A t \in d.retraction :
    /\ t.revision \in 1..Len(d.chain[t.local])
    /\ \A i \in 1..Len(d.chain[t.local]) :
         IF i <= t.revision THEN d.chain[t.local][i].crawl < t.crawl
                            ELSE d.chain[t.local][i].crawl > t.crawl

(* What it buries was live under the resource it was derived for. *)
BuriesLive(d) ==
  \A t \in d.retraction :
    LET head == fold_head(SubSeq(Replay(d)[t.local], 1, t.revision)).obs
    IN  head.state = "active" /\ head.resource = d.crawl[t.crawl].resource

CrawlsSound(d) == OneCursor(d) /\ Continues(d)
ChainsSound(d) == FromWhole(d) /\ Unseen(d) /\ RowsHaveCrawls(d) /\ Cuts(d) /\ BuriesLive(d)
Sound(d) == CrawlsSound(d) /\ ChainsSound(d)

(* The crawl table is a sequence of crawl rows. *)
LEMMA CrawlAt ==
  ASSUME NEW d \in Databases
  PROVE  /\ Len(d.crawl) \in Nat
         /\ \A c \in 1..Len(d.crawl) : d.crawl[c] \in CrawlRows
<1>1. d.crawl \in Seq(CrawlRows)
  BY Tables
<1> QED BY <1>1

(* A chain is a sequence of rows. *)
LEMMA RowAt ==
  ASSUME NEW d \in Databases, NEW l \in LocalIds, NEW i \in 1..Len(d.chain[l])
  PROVE  /\ d.chain[l][i] \in Rows
         /\ d.chain[l][i].crawl \in Nat /\ d.chain[l][i].lastSeen \in Nat
<1>1. d.chain \in [LocalIds -> Seq(Rows)]
  BY Tables DEF Chains
<1>2. d.chain[l][i] \in Rows
  BY <1>1
<1> QED BY <1>2 DEF Rows

(* A retraction names a record, a revision and a crawl. *)
LEMMA RetractionRow ==
  ASSUME NEW d \in Databases, NEW t \in d.retraction
  PROVE  t.local \in LocalIds /\ t.revision \in Nat /\ t.crawl \in Nat
BY Tables DEF Retractions

-----------------------------------------------------------------------------
(* Two databases whose crawls differ only in cursors. *)
SameCrawl(x, y) ==
  /\ x.resource = y.resource /\ x.start = y.start /\ x.derivation = y.derivation
  /\ x.fingerprint = y.fingerprint /\ x.drained = y.drained /\ x.complete = y.complete
  /\ x.reason = y.reason

(* Nothing that is said of chains depends on cursors, or on crawls to come. *)
LEMMA ChainsSurvive ==
  ASSUME NEW d \in Databases, NEW e \in Databases, ChainsSound(d),
         e.chain = d.chain, e.retraction = d.retraction, Len(d.crawl) <= Len(e.crawl),
         \A t \in d.retraction : SameCrawl(e.crawl[t.crawl], d.crawl[t.crawl])
  PROVE  ChainsSound(e)
<1>1. Len(d.crawl) \in Nat /\ Len(e.crawl) \in Nat
  BY CrawlAt
<1>2. FromWhole(e)
  BY <1>1 DEF ChainsSound, FromWhole, SameCrawl
<1>3. Unseen(e) /\ Cuts(e)
  BY DEF ChainsSound, Unseen, Cuts
<1>4. RowsHaveCrawls(e)
  BY <1>1, RowAt DEF ChainsSound, RowsHaveCrawls
<1>5. Replay(e) = Replay(d)
  BY ReplayIsOfChains
<1>6. BuriesLive(e)
  BY <1>5 DEF ChainsSound, BuriesLive, SameCrawl
<1> QED BY <1>2, <1>3, <1>4, <1>6 DEF ChainsSound

(* A sweep opens its crawl: at the start of history, or at the cursor of an
   unfinished crawl of its own definition. *)
LEMMA OpenSound ==
  ASSUME NEW d \in Databases, NEW r \in Resources, NEW st \in Cursors \cup {None},
         NEW dv \in Derivations, NEW fp \in Fingerprints, Sound(d),
         st # None => \E b \in 1..Len(d.crawl) :
                        /\ ~ d.crawl[b].drained /\ d.crawl[b].resource = r
                        /\ d.crawl[b].derivation = dv /\ d.crawl[b].fingerprint = fp
  PROVE  LET e == open_crawl(d, r, st, dv, fp)
         IN  /\ Sound(e) /\ e.chain = d.chain /\ e.retraction = d.retraction
             /\ Len(e.crawl) = Len(d.crawl) + 1
             /\ ~ e.crawl[Len(e.crawl)].drained
             /\ e.crawl[Len(e.crawl)].resource = r /\ e.crawl[Len(e.crawl)].start = st
             /\ e.crawl[Len(e.crawl)].derivation = dv /\ e.crawl[Len(e.crawl)].fingerprint = fp
             /\ \A c \in 1..Len(d.crawl) : SameCrawl(e.crawl[c], d.crawl[c])
<1> DEFINE e == open_crawl(d, r, st, dv, fp)
           n == Len(d.crawl)
           cleared == [i \in 1..n |-> IF d.crawl[i].resource = r
                                      THEN [d.crawl[i] EXCEPT !.next = None]
                                      ELSE d.crawl[i]]
           new == [resource |-> r, start |-> st, next |-> st, derivation |-> dv,
                   fingerprint |-> fp, drained |-> FALSE, complete |-> FALSE, reason |-> None]
<1>1. n \in Nat /\ \A c \in 1..n : d.crawl[c] \in CrawlRows
  BY CrawlAt
<1>2. e.crawl = Append(cleared, new) /\ e \in Databases
        /\ e.chain = d.chain /\ e.retraction = d.retraction
  BY OpenCrawlType DEF open_crawl, Databases
<1>3. \A c \in 1..n : /\ cleared[c] \in CrawlRows
                      /\ SameCrawl(cleared[c], d.crawl[c])
                      /\ cleared[c].next # None => /\ d.crawl[c].next # None
                                                   /\ d.crawl[c].resource # r
  BY <1>1 DEF CrawlRows, SameCrawl
<1>4. /\ Len(e.crawl) = n + 1 /\ e.crawl[n + 1] = new
      /\ \A c \in 1..n : e.crawl[c] = cleared[c]
  <2>1. cleared \in Seq(CrawlRows \cup {new}) /\ new \in CrawlRows \cup {new} /\ Len(cleared) = n
    <3> DEFINE T == CrawlRows \cup {new}
    <3>1. \A c \in 1..n : cleared[c] \in T
      BY <1>3
    <3>2. cleared \in [1..n -> T]
      <4>1. cleared = [i \in 1..n |-> cleared[i]]
        OBVIOUS
      <4> HIDE DEF cleared, T
      <4> QED BY <3>1, <4>1
    <3> HIDE DEF cleared, T, n
    <3>3. cleared \in Seq(T) /\ Len(cleared) = n
      BY <1>1, <3>2
    <3> QED BY <3>3 DEF T
  <2> HIDE DEF cleared, new, n, e
  <2> QED BY <1>2, <2>1, AppendProperties
<1>5. /\ new.resource = r /\ new.start = st /\ new.derivation = dv /\ new.fingerprint = fp
      /\ ~ new.drained /\ new.next = st
  OBVIOUS
<1> HIDE DEF cleared, new, e
<1>6. \A c \in 1..n : SameCrawl(e.crawl[c], d.crawl[c])
  BY <1>3, <1>4
<1>7. OneCursor(e)
  <2> SUFFICES ASSUME NEW c \in 1..n+1, e.crawl[c].next # None
               PROVE  /\ ~ e.crawl[c].drained
                      /\ \A b \in c+1..n+1 : e.crawl[b].resource # e.crawl[c].resource
    BY <1>4 DEF OneCursor
  <2>1. CASE c = n + 1
    BY <1>1, <1>4, <1>5, <2>1
  <2>2. CASE c \in 1..n
    <3>1. d.crawl[c].next # None /\ d.crawl[c].resource # r
      BY <1>3, <1>4, <2>2
    <3>2. /\ ~ d.crawl[c].drained
          /\ \A b \in c+1..n : d.crawl[b].resource # d.crawl[c].resource
      BY <2>2, <3>1 DEF Sound, CrawlsSound, OneCursor
    <3>3. ~ e.crawl[c].drained /\ e.crawl[c].resource = d.crawl[c].resource
      BY <1>6, <2>2, <3>2 DEF SameCrawl
    <3>4. ASSUME NEW b \in c+1..n+1 PROVE e.crawl[b].resource # d.crawl[c].resource
      <4>1. CASE b = n + 1
        BY <1>4, <1>5, <3>1, <4>1
      <4>2. CASE b # n + 1
        <5>1. b \in c+1..n /\ b \in 1..n
          BY <1>1, <2>2, <4>2
        <5> QED BY <1>6, <3>2, <5>1 DEF SameCrawl
      <4> QED BY <4>1, <4>2
    <3> QED BY <3>3, <3>4
  <2> QED BY <1>1, <2>1, <2>2
<1>8. Continues(e)
  <2> SUFFICES ASSUME NEW c \in 1..n+1, e.crawl[c].start # None
               PROVE  \E b \in 1..c-1 : /\ ~ e.crawl[b].drained
                                        /\ e.crawl[b].resource = e.crawl[c].resource
                                        /\ e.crawl[b].derivation = e.crawl[c].derivation
                                        /\ e.crawl[b].fingerprint = e.crawl[c].fingerprint
    BY <1>4 DEF Continues
  <2>1. CASE c = n + 1
    <3>1. PICK b \in 1..n : /\ ~ d.crawl[b].drained /\ d.crawl[b].resource = r
                            /\ d.crawl[b].derivation = dv /\ d.crawl[b].fingerprint = fp
      BY <1>4, <1>5, <2>1
    <3>2. b \in 1..c-1
      BY <1>1, <2>1
    <3> QED BY <1>4, <1>5, <1>6, <2>1, <3>1, <3>2 DEF SameCrawl
  <2>2. CASE c \in 1..n
    <3>1. SameCrawl(e.crawl[c], d.crawl[c])
      BY <1>6, <2>2
    <3>2. PICK b \in 1..c-1 : /\ ~ d.crawl[b].drained
                              /\ d.crawl[b].resource = d.crawl[c].resource
                              /\ d.crawl[b].derivation = d.crawl[c].derivation
                              /\ d.crawl[b].fingerprint = d.crawl[c].fingerprint
      BY <2>2, <3>1 DEF Sound, CrawlsSound, Continues, SameCrawl
    <3>3. SameCrawl(e.crawl[b], d.crawl[b])
      BY <1>1, <1>6, <2>2
    <3> QED BY <3>1, <3>2, <3>3 DEF SameCrawl
  <2> QED BY <1>1, <2>1, <2>2
<1>9. ChainsSound(e)
  <2>1. \A t \in d.retraction : SameCrawl(e.crawl[t.crawl], d.crawl[t.crawl])
    BY <1>6 DEF Sound, ChainsSound, FromWhole
  <2>2. Len(d.crawl) <= Len(e.crawl) /\ ChainsSound(d)
    BY <1>1, <1>4 DEF Sound
  <2> QED BY <1>2, <2>1, <2>2, ChainsSurvive
<1> QED BY <1>2, <1>4, <1>5, <1>6, <1>7, <1>8, <1>9 DEF Sound, CrawlsSound, e

-----------------------------------------------------------------------------
(* One row of the crawl table replaced: the last one, of a sweep at work. *)

(* The open crawl: the newest, and not drained. *)
Open(d, c) == c = Len(d.crawl) /\ c # 0 /\ ~ d.crawl[c].drained

(* No retraction is licensed by a crawl still open. *)
LEMMA OpenLicensesNothing ==
  ASSUME NEW d, NEW c, Open(d, c), FromWhole(d), NEW t \in d.retraction
  PROVE  t.crawl # c
BY DEF Open, FromWhole

(* e differs from d in the last row of its crawl table, if at all. *)
ButLast(d, e, c) ==
  /\ Len(e.crawl) = Len(d.crawl)
  /\ \A b \in 1..Len(d.crawl) : b # c => e.crawl[b] = d.crawl[b]
  /\ e.chain = d.chain /\ e.retraction = d.retraction

(* What is sound stays so when the row of the open crawl is replaced by one of the same
   sweep that has no cursor if it has drained. *)
LEMMA LastReplaced ==
  ASSUME NEW d \in Databases, NEW e \in Databases, NEW c, Sound(d), Open(d, c),
         ButLast(d, e, c),
         e.crawl[c].resource = d.crawl[c].resource, e.crawl[c].start = d.crawl[c].start,
         e.crawl[c].derivation = d.crawl[c].derivation,
         e.crawl[c].fingerprint = d.crawl[c].fingerprint,
         e.crawl[c].next # None => ~ e.crawl[c].drained
  PROVE  Sound(e)
<1> DEFINE n == Len(d.crawl)
<1>1. n \in Nat /\ c = n /\ c \in 1..n
  BY CrawlAt DEF Open
<1>2. Len(e.crawl) = n /\ \A b \in 1..n \ {c} : e.crawl[b] = d.crawl[b]
  BY DEF ButLast
<1>3. /\ \A b \in 1..n : /\ e.crawl[b].resource = d.crawl[b].resource
                         /\ e.crawl[b].start = d.crawl[b].start
                         /\ e.crawl[b].derivation = d.crawl[b].derivation
                         /\ e.crawl[b].fingerprint = d.crawl[b].fingerprint
  BY <1>2
<1> HIDE DEF n
<1>4. OneCursor(e)
  <2> SUFFICES ASSUME NEW b \in 1..n, e.crawl[b].next # None
               PROVE  /\ ~ e.crawl[b].drained
                      /\ \A a \in b+1..n : e.crawl[a].resource # e.crawl[b].resource
    BY <1>2 DEF OneCursor
  <2>1. CASE b = c
    BY <1>1, <1>2, <2>1
  <2>2. CASE b # c
    <3>1. /\ ~ d.crawl[b].drained
          /\ \A a \in b+1..n : d.crawl[a].resource # d.crawl[b].resource
      BY <1>2, <2>2 DEF Sound, CrawlsSound, OneCursor, n
    <3>2. \A a \in b+1..n : a \in 1..n
      BY <1>1
    <3> QED BY <1>2, <1>3, <2>2, <3>1, <3>2
  <2> QED BY <2>1, <2>2
<1>5. Continues(e)
  <2> SUFFICES ASSUME NEW b \in 1..n, e.crawl[b].start # None
               PROVE  \E a \in 1..b-1 : /\ ~ e.crawl[a].drained
                                        /\ e.crawl[a].resource = e.crawl[b].resource
                                        /\ e.crawl[a].derivation = e.crawl[b].derivation
                                        /\ e.crawl[a].fingerprint = e.crawl[b].fingerprint
    BY <1>2 DEF Continues
  <2>1. PICK a \in 1..b-1 : /\ ~ d.crawl[a].drained
                            /\ d.crawl[a].resource = d.crawl[b].resource
                            /\ d.crawl[a].derivation = d.crawl[b].derivation
                            /\ d.crawl[a].fingerprint = d.crawl[b].fingerprint
    BY <1>3 DEF Sound, CrawlsSound, Continues, n
  <2>2. a \in 1..n /\ a # c
    BY <1>1
  <2>3. e.crawl[a] = d.crawl[a]
    BY <1>2, <2>2
  <2> QED BY <1>3, <2>1, <2>3
<1>6. ChainsSound(e)
  <2>1. \A t \in d.retraction : t.crawl \in 1..n /\ t.crawl # c
    BY OpenLicensesNothing DEF Sound, ChainsSound, FromWhole, n
  <2>2. \A t \in d.retraction : SameCrawl(e.crawl[t.crawl], d.crawl[t.crawl])
    BY <1>2, <2>1 DEF SameCrawl
  <2>3. Len(d.crawl) <= Len(e.crawl) /\ ChainsSound(d)
    BY <1>1, <1>2 DEF Sound, n
  <2>4. e.chain = d.chain /\ e.retraction = d.retraction
    BY DEF ButLast
  <2> QED BY <2>2, <2>3, <2>4, ChainsSurvive
<1> QED BY <1>4, <1>5, <1>6 DEF Sound, CrawlsSound

(* A page commits its cursor. *)
LEMMA CursorSound ==
  ASSUME NEW d \in Databases, NEW c \in Nat, NEW next \in Cursors \cup {None},
         Sound(d), Open(d, c)
  PROVE  LET e == set_crawl_cursor(d, c, next)
         IN  /\ Sound(e) /\ Open(e, c) /\ Len(e.crawl) = Len(d.crawl)
             /\ e.crawl[c].resource = d.crawl[c].resource
             /\ e.crawl[c].start = d.crawl[c].start
             /\ ButLast(d, e, c)
             /\ e.crawl[c].derivation = d.crawl[c].derivation
             /\ e.crawl[c].fingerprint = d.crawl[c].fingerprint
<1> DEFINE e == set_crawl_cursor(d, c, next)
           row == [d.crawl[c] EXCEPT !.next = next]
<1>1. d.crawl[c] \in CrawlRows /\ d.crawl \in Seq(CrawlRows)
  BY CrawlAt, Tables DEF Open
<1>2. /\ row \in CrawlRows /\ row.resource = d.crawl[c].resource /\ row.start = d.crawl[c].start
      /\ row.derivation = d.crawl[c].derivation /\ row.fingerprint = d.crawl[c].fingerprint
      /\ ~ row.drained
  BY <1>1 DEF CrawlRows, Open
<1>3. /\ e \in Databases /\ e.crawl = [d.crawl EXCEPT ![c] = row]
      /\ e.chain = d.chain /\ e.retraction = d.retraction
  BY SetCursorType DEF set_crawl_cursor, Databases
<1> HIDE DEF e, row
<1>4. ButLast(d, e, c) /\ e.crawl[c] = row /\ Len(e.crawl) = Len(d.crawl)
  <2>1. c \in 1..Len(d.crawl)
    BY CrawlAt DEF Open
  <2> QED BY <1>1, <1>3, <2>1 DEF ButLast
<1>5. Sound(e)
  BY <1>2, <1>3, <1>4, LastReplaced
<1> QED BY <1>2, <1>4, <1>5 DEF Open, e

(* A sweep finishes its crawl. *)
LEMMA FinishSound ==
  ASSUME NEW d \in Databases, NEW c \in Nat, NEW drained \in BOOLEAN,
         NEW complete \in BOOLEAN, NEW reason \in Disqualifications \cup {None},
         Sound(d), Open(d, c)
  PROVE  LET e == finish_crawl(d, c, drained, complete, reason)
         IN  /\ Sound(e) /\ Len(e.crawl) = Len(d.crawl)
             /\ e.crawl[c].resource = d.crawl[c].resource
             /\ e.crawl[c].start = d.crawl[c].start /\ e.crawl[c].drained = drained
             /\ e.crawl[c].complete = complete /\ e.crawl[c].reason = reason
             /\ ButLast(d, e, c)
             /\ e.crawl[c].derivation = d.crawl[c].derivation
             /\ e.crawl[c].fingerprint = d.crawl[c].fingerprint
<1> DEFINE e == finish_crawl(d, c, drained, complete, reason)
           row == [d.crawl[c] EXCEPT !.drained = drained, !.complete = complete,
                                     !.reason = reason,
                                     !.next = IF drained THEN None ELSE d.crawl[c].next]
<1>1. d.crawl[c] \in CrawlRows /\ d.crawl \in Seq(CrawlRows)
  BY CrawlAt, Tables DEF Open
<1>2. /\ row \in CrawlRows /\ row.resource = d.crawl[c].resource /\ row.start = d.crawl[c].start
      /\ row.derivation = d.crawl[c].derivation /\ row.fingerprint = d.crawl[c].fingerprint
      /\ row.drained = drained /\ row.complete = complete /\ row.reason = reason
      /\ row.next # None => ~ row.drained
  BY <1>1 DEF CrawlRows
<1>3. /\ e \in Databases /\ e.crawl = [d.crawl EXCEPT ![c] = row]
      /\ e.chain = d.chain /\ e.retraction = d.retraction
  BY FinishCrawlType DEF finish_crawl, Databases
<1> HIDE DEF e, row
<1>4. ButLast(d, e, c) /\ e.crawl[c] = row /\ Len(e.crawl) = Len(d.crawl)
  <2>1. c \in 1..Len(d.crawl)
    BY CrawlAt DEF Open
  <2> QED BY <1>1, <1>3, <2>1 DEF ButLast
<1>5. Sound(e)
  BY <1>2, <1>3, <1>4, LastReplaced
<1> QED BY <1>2, <1>4, <1>5 DEF e

-----------------------------------------------------------------------------
(* Observations taken into the transaction of the open crawl. *)

(* No row outside ls carries crawl c. *)
Untouched(d, c, ls) ==
  \A l \in LocalIds \ ls : \A i \in 1..Len(d.chain[l]) :
    c \notin {d.chain[l][i].crawl, d.chain[l][i].lastSeen}

(* e has the rows of d, some of chain l stamped by c, and perhaps one more, of c,
   at the end of chain l. *)
Ingested(d, e, l, c) ==
  /\ e.crawl = d.crawl /\ e.retraction = d.retraction
  /\ \A k \in LocalIds \ {l} : e.chain[k] = d.chain[k]
  /\ Len(e.chain[l]) \in {Len(d.chain[l]), Len(d.chain[l]) + 1}
  /\ \A i \in 1..Len(d.chain[l]) : /\ e.chain[l][i].crawl = d.chain[l][i].crawl
                                   /\ e.chain[l][i].lastSeen \in {d.chain[l][i].lastSeen, c}
  /\ Len(e.chain[l]) = Len(d.chain[l]) + 1 =>
       LET row == e.chain[l][Len(e.chain[l])] IN row.crawl = c /\ row.lastSeen = c

(* Chains that agree as far as a revision replay alike as far as it. *)
LEMMA PrefixesReplayAlike ==
  ASSUME NEW d \in Databases, NEW e \in Databases, Stays(d, e), NEW l \in LocalIds,
         NEW n \in Nat, n <= Len(d.chain[l])
  PROVE  SubSeq(Replay(e)[l], 1, n) = SubSeq(Replay(d)[l], 1, n)
<1> DEFINE x == Replay(d)[l]
           y == Replay(e)[l]
<1>1. Len(d.chain[l]) \in Nat /\ Len(e.chain[l]) \in Nat
  BY ChainLengths
<1>2. n <= Len(e.chain[l])
  BY <1>1 DEF Stays
<1>3. \A i \in 1..n : y[i] = x[i]
  <2> SUFFICES ASSUME NEW i \in 1..n PROVE y[i] = x[i]
    OBVIOUS
  <2>1. i \in 1..Len(d.chain[l]) /\ i \in 1..Len(e.chain[l])
    BY <1>1, <1>2
  <2>2. e.chain[l][i].obs = d.chain[l][i].obs /\ e.chain[l][i].received = d.chain[l][i].received
    BY <2>1 DEF Stays
  <2> QED BY <2>1, <2>2 DEF Replay
<1> HIDE DEF x, y
<1>4. x \in Seq(FoldEntries) /\ y \in Seq(FoldEntries) /\ n <= Len(x) /\ n <= Len(y)
  BY <1>2, ReplayType, ReplayLengths DEF x, y
<1>5. SubSeq(y, 1, n) = SubSeq(x, 1, n)
  BY <1>3, <1>4
<1> QED BY <1>5 DEF x, y

(* Rows of an open crawl disturb no retraction: none was licensed by it, and each
   ends below a new row. *)
LEMMA IngestedSound ==
  ASSUME NEW d \in Databases, NEW e \in Databases, NEW l \in LocalIds, NEW c,
         Sound(d), Open(d, c), Stays(d, e), Ingested(d, e, l, c)
  PROVE  Sound(e)
<1>1. Len(d.crawl) \in Nat /\ c = Len(d.crawl) /\ e.crawl = d.crawl
        /\ e.retraction = d.retraction
  BY CrawlAt DEF Open, Ingested
<1>2. CrawlsSound(e)
  BY <1>1 DEF Sound, CrawlsSound, OneCursor, Continues
<1>3. FromWhole(e)
  BY <1>1 DEF Sound, ChainsSound, FromWhole
<1>4. ASSUME NEW t \in d.retraction
      PROVE  /\ t.local \in LocalIds /\ t.revision \in Nat
             /\ t.crawl \in 1..Len(d.crawl) /\ t.crawl # c
             /\ t.revision \in 1..Len(d.chain[t.local])
             /\ \A i \in 1..Len(d.chain[t.local]) :
                  /\ t.crawl \notin {d.chain[t.local][i].crawl, d.chain[t.local][i].lastSeen}
                  /\ IF i <= t.revision THEN d.chain[t.local][i].crawl < t.crawl
                                        ELSE d.chain[t.local][i].crawl > t.crawl
  BY RetractionRow, OpenLicensesNothing DEF Sound, ChainsSound, FromWhole, Cuts, Unseen
<1>5. ASSUME NEW k \in LocalIds, NEW i \in 1..Len(e.chain[k])
      PROVE  /\ Len(d.chain[k]) \in Nat
             /\ i \in 1..Len(d.chain[k]) =>
                  /\ e.chain[k][i].crawl = d.chain[k][i].crawl
                  /\ e.chain[k][i].lastSeen \in {d.chain[k][i].lastSeen, c}
             /\ i \notin 1..Len(d.chain[k]) =>
                  /\ i = Len(d.chain[k]) + 1
                  /\ e.chain[k][i].crawl = c /\ e.chain[k][i].lastSeen = c
  <2>1. Len(d.chain[k]) \in Nat /\ Len(e.chain[k]) \in Nat
    BY ChainLengths
  <2>2. CASE k # l
    BY <2>1, <2>2 DEF Ingested
  <2>3. CASE k = l
    BY <2>1, <2>3 DEF Ingested
  <2> QED BY <2>1, <2>2, <2>3
<1>6. ASSUME NEW k \in LocalIds PROVE Len(d.chain[k]) \in Nat /\ Len(d.chain[k]) <= Len(e.chain[k])
  BY ChainLengths DEF Stays
<1>7. Unseen(e)
  <2> SUFFICES ASSUME NEW t \in d.retraction, NEW i \in 1..Len(e.chain[t.local])
               PROVE  t.crawl # e.chain[t.local][i].crawl /\ t.crawl # e.chain[t.local][i].lastSeen
    BY <1>1 DEF Unseen
  <2>1. t.local \in LocalIds /\ t.crawl # c
    BY <1>4
  <2>2. CASE i \in 1..Len(d.chain[t.local])
    <3>1. /\ t.crawl # d.chain[t.local][i].crawl /\ t.crawl # d.chain[t.local][i].lastSeen
      BY <1>4, <2>2
    <3>2. /\ e.chain[t.local][i].crawl = d.chain[t.local][i].crawl
          /\ e.chain[t.local][i].lastSeen \in {d.chain[t.local][i].lastSeen, c}
      BY <1>5, <2>1, <2>2
    <3> QED BY <2>1, <3>1, <3>2
  <2>3. CASE i \notin 1..Len(d.chain[t.local])
    BY <1>5, <2>1, <2>3
  <2> QED BY <2>2, <2>3
<1>8. RowsHaveCrawls(e)
  <2> SUFFICES ASSUME NEW k \in LocalIds, NEW i \in 1..Len(e.chain[k])
               PROVE  e.chain[k][i].crawl <= c /\ e.chain[k][i].lastSeen <= c
    BY <1>1 DEF RowsHaveCrawls
  <2>1. CASE i \in 1..Len(d.chain[k])
    <3>1. d.chain[k][i].crawl <= c /\ d.chain[k][i].lastSeen <= c
      BY <1>1, <2>1 DEF RowsHaveCrawls, Sound, ChainsSound
    <3>2. /\ e.chain[k][i].crawl = d.chain[k][i].crawl
          /\ e.chain[k][i].lastSeen \in {d.chain[k][i].lastSeen, c}
      BY <1>5, <2>1
    <3> QED BY <1>1, <3>1, <3>2
  <2>2. CASE i \notin 1..Len(d.chain[k])
    <3>1. e.chain[k][i].crawl = c /\ e.chain[k][i].lastSeen = c
      BY <1>5, <2>2
    <3> QED BY <1>1, <3>1
  <2> QED BY <2>1, <2>2
<1>9. Cuts(e)
  <2> SUFFICES ASSUME NEW t \in d.retraction
               PROVE  /\ t.revision \in 1..Len(e.chain[t.local])
                      /\ \A i \in 1..Len(e.chain[t.local]) :
                           IF i <= t.revision THEN e.chain[t.local][i].crawl < t.crawl
                                              ELSE e.chain[t.local][i].crawl > t.crawl
    BY <1>1 DEF Cuts
  <2>1. t.revision \in 1..Len(e.chain[t.local])
    BY <1>4, <1>6, ChainLengths
  <2>2. ASSUME NEW i \in 1..Len(e.chain[t.local])
        PROVE  IF i <= t.revision THEN e.chain[t.local][i].crawl < t.crawl
                                  ELSE e.chain[t.local][i].crawl > t.crawl
    <3>1. CASE i \in 1..Len(d.chain[t.local])
      <4>1. IF i <= t.revision THEN d.chain[t.local][i].crawl < t.crawl
                               ELSE d.chain[t.local][i].crawl > t.crawl
        BY <1>4, <3>1
      <4>2. e.chain[t.local][i].crawl = d.chain[t.local][i].crawl
        BY <1>4, <1>5, <3>1
      <4> QED BY <4>1, <4>2
    <3>2. CASE i \notin 1..Len(d.chain[t.local])
      <4>1. i = Len(d.chain[t.local]) + 1 /\ e.chain[t.local][i].crawl = c
        BY <1>4, <1>5, <3>2
      <4>2. ~ (i <= t.revision) /\ c > t.crawl
        BY <1>1, <1>4, <1>6, <4>1
      <4> QED BY <4>1, <4>2
    <3> QED BY <3>1, <3>2
  <2> QED BY <2>1, <2>2
<1>10. BuriesLive(e)
  <2> SUFFICES ASSUME NEW t \in d.retraction
               PROVE  LET head == fold_head(SubSeq(Replay(e)[t.local], 1, t.revision)).obs
                      IN  head.state = "active" /\ head.resource = d.crawl[t.crawl].resource
    BY <1>1 DEF BuriesLive
  <2>1. SubSeq(Replay(e)[t.local], 1, t.revision) = SubSeq(Replay(d)[t.local], 1, t.revision)
    BY <1>4, PrefixesReplayAlike
  <2> QED BY <2>1 DEF Sound, ChainsSound, BuriesLive
<1> QED BY <1>2, <1>3, <1>7, <1>8, <1>9, <1>10 DEF Sound, ChainsSound

(* So the record alone is touched. *)
LEMMA IngestedUntouched ==
  ASSUME NEW d \in Databases, NEW e \in Databases, NEW l \in LocalIds, NEW c, NEW ls,
         Ingested(d, e, l, c), Untouched(d, c, ls)
  PROVE  Untouched(e, c, ls \cup {l})
BY DEF Ingested, Untouched

(* A repeated observation stamps the stored rows of its revision. *)
LEMMA StampIngested ==
  ASSUME NEW d \in Databases, NEW l \in LocalIds, NEW rev, NEW c, NEW dv, NEW fp
  PROVE  Ingested(d, stamp_seen(d, l, rev, c, dv, fp), l, c)
<1> DEFINE e == stamp_seen(d, l, rev, c, dv, fp)
           stamped == [i \in 1..Len(d.chain[l]) |->
                         IF d.chain[l][i].revision = rev
                         THEN [d.chain[l][i] EXCEPT !.lastSeen = c,
                                                    !.derivation = dv,
                                                    !.fingerprint = fp]
                         ELSE d.chain[l][i]]
<1>1. d.chain \in [LocalIds -> Seq(Rows)] /\ Len(d.chain[l]) \in Nat
  BY Tables DEF Chains
<1>2. e.chain = [d.chain EXCEPT ![l] = stamped]
        /\ e.crawl = d.crawl /\ e.retraction = d.retraction
  BY DEF stamp_seen, Databases
<1>3. Len(stamped) = Len(d.chain[l])
  BY <1>1
<1>4. ASSUME NEW i \in 1..Len(d.chain[l])
      PROVE  /\ stamped[i].crawl = d.chain[l][i].crawl
             /\ stamped[i].lastSeen \in {d.chain[l][i].lastSeen, c}
  <2>1. d.chain[l][i] \in Rows
    BY <1>1
  <2> QED BY <2>1 DEF Rows
<1> HIDE DEF stamped, e
<1>5. e.chain[l] = stamped /\ \A k \in LocalIds \ {l} : e.chain[k] = d.chain[k]
  BY <1>1, <1>2
<1>6. Len(d.chain[l]) # Len(d.chain[l]) + 1
  BY <1>1
<1> QED BY <1>2, <1>3, <1>4, <1>5, <1>6 DEF Ingested, e

(* A new observation goes to the end of its chain. *)
LEMMA AppendIngested ==
  ASSUME NEW d \in Databases, NEW l \in LocalIds, NEW rev, NEW o, NEW at, NEW c,
         NEW dv, NEW fp
  PROVE  Ingested(d, append_observation(d, l, rev, o, at, c, dv, fp), l, c)
<1> DEFINE e == append_observation(d, l, rev, o, at, c, dv, fp)
           row == [obs |-> o, received |-> at, revision |-> rev, crawl |-> c,
                   lastSeen |-> c, derivation |-> dv, fingerprint |-> fp]
           s == d.chain[l]
           x == Append(s, row)
<1>1. d.chain \in [LocalIds -> Seq(Rows)]
  BY Tables DEF Chains
<1>2. /\ e.chain = [d.chain EXCEPT ![l] = x]
      /\ e.crawl = d.crawl /\ e.retraction = d.retraction
  BY DEF append_observation, Databases
<1>3. s \in Seq(Rows \cup {row}) /\ row \in Rows \cup {row} /\ Len(s) \in Nat
  BY <1>1
<1>4. /\ Len(x) = Len(s) + 1 /\ x[Len(x)] = row
      /\ \A i \in 1..Len(s) : x[i] = s[i]
  <2> HIDE DEF s, row
  <2> QED BY <1>3, AppendProperties
<1>5. row.crawl = c /\ row.lastSeen = c
  OBVIOUS
<1> HIDE DEF e, x, row
<1>6. e.chain[l] = x /\ \A k \in LocalIds \ {l} : e.chain[k] = d.chain[k]
  BY <1>1, <1>2
<1> QED BY <1>2, <1>4, <1>5, <1>6 DEF Ingested, e

-----------------------------------------------------------------------------
(* The last page's transaction. *)

(* A sweep at work: its crawl is open, of its resource and from its start, and
   the rows it wrote or stamped are those of what it observed. *)
AtWork(d, s) ==
  /\ Open(d, s.crawl)
  /\ d.crawl[s.crawl].resource = s.resource
  /\ d.crawl[s.crawl].start = s.start
  /\ Untouched(d, s.crawl, s.observed)

(* The crawl table after it is that of finish_crawl alone. *)
LEMMA SettleCrawl ==
  ASSUME NEW d \in Databases, NEW c \in Conns, NEW s \in Sweeps, NEW sn \in Snaps,
         NEW reason \in Disqualifications \cup {None}
  PROVE  settle(d, c, s, sn, reason).crawl
           = finish_crawl(d, s.crawl, s.page = "drained", reason = None, reason).crawl
<1> DEFINE n == IF reason = None THEN derive_retractions(d, c, s, sn) ELSE d
           m == set_adapter_derivation(n, c.derivation)
           v == IF reason = None THEN s.vantage ELSE None
           q == set_resource_definition(m, s.resource, s.fingerprint, v)
<1>1. n \in Databases /\ n.crawl = d.crawl
  <2>1. derive_retractions(d, c, s, sn).crawl = d.crawl
    BY DEF Databases, derive_retractions, append_retractions, append_discrepancies
  <2> QED BY <2>1, DeriveType
<1> HIDE DEF n
<1>2. m \in Databases /\ m.crawl = n.crawl
  <2>1. c.derivation \in Derivations
    BY DEF Conns
  <2> QED BY <1>1, <2>1, Tables DEF set_adapter_derivation, Databases
<1> HIDE DEF m, v
<1>3. q.crawl = m.crawl
  BY <1>2 DEF set_resource_definition, Databases
<1>4. q \in Databases
  <2>1. s.resource \in Resources /\ s.fingerprint \in Fingerprints /\ v \in Vantages \cup {None}
    BY DEF v, Sweeps
  <2> QED BY <1>2, <2>1, DefinitionType
<1>5. settle(d, c, s, sn, reason)
        = finish_crawl(q, s.crawl, s.page = "drained", reason = None, reason)
  BY DEF settle, n, m, v, q
<1> HIDE DEF q
<1>6. q.crawl = d.crawl
  BY <1>1, <1>2, <1>3
<1> QED BY <1>4, <1>5, <1>6 DEF finish_crawl, Databases

(* A retraction is derived by a sweep no condition of the gate disqualifies, at the
   end of the chain of a record it has not seen. *)
LEMMA SettleSound ==
  ASSUME NEW d \in Databases, NEW c \in Conns, NEW s \in Sweeps, NEW sn \in Snaps,
         NEW reason \in Disqualifications \cup {None}, sn.fold = Replay(d),
         Sound(d), AtWork(d, s),
         reason = None => s.start = None /\ s.page = "drained"
  PROVE  Sound(settle(d, c, s, sn, reason))
<1> DEFINE e == settle(d, c, s, sn, reason)
           drained == s.page = "drained"
           complete == reason = None
           m == finish_crawl(d, s.crawl, drained, complete, reason)
           new == e.retraction \ d.retraction
<1>1. s.crawl \in Nat /\ s.observed \subseteq LocalIds /\ e \in Databases
  BY SettleType DEF Sweeps
<1>a. drained \in BOOLEAN /\ complete \in BOOLEAN
  OBVIOUS
<1>b. m.crawl = e.crawl
  BY SettleCrawl
<1>c. complete <=> reason = None
  OBVIOUS
<1>d. drained <=> s.page = "drained"
  OBVIOUS
<1> HIDE DEF drained, complete
<1>2. /\ m \in Databases /\ m.chain = d.chain /\ m.retraction = d.retraction
  BY <1>1, <1>a, FinishCrawlType DEF finish_crawl, Databases
<1>3. /\ Sound(m) /\ Len(m.crawl) = Len(d.crawl)
      /\ m.crawl[s.crawl].resource = s.resource /\ m.crawl[s.crawl].start = s.start
      /\ m.crawl[s.crawl].drained = drained
      /\ m.crawl[s.crawl].complete = complete
      /\ m.crawl[s.crawl].reason = reason
  BY <1>1, <1>a, FinishSound DEF AtWork
<1>4. e.crawl = m.crawl
  BY <1>b
<1>5. /\ e.chain = d.chain /\ d.retraction \subseteq e.retraction
      /\ \A t \in new : /\ t.local \notin s.observed /\ t.crawl = s.crawl
                        /\ t.revision = Len(d.chain[t.local]) /\ t.revision # 0
                        /\ fold_head(Replay(d)[t.local]).obs.state = "active"
                        /\ fold_head(Replay(d)[t.local]).obs.resource = s.resource
  BY SettleStays DEF Stays
<1>6. reason # None => new = {}
  BY SettleKeeps
<1> HIDE DEF e, m
<1>7. CrawlsSound(e)
  <2>1. CrawlsSound(m)
    BY <1>3 DEF Sound
  <2>2. OneCursor(e) <=> OneCursor(m)
    BY <1>4 DEF OneCursor
  <2>3. Continues(e) <=> Continues(m)
    BY <1>4 DEF Continues
  <2> QED BY <2>1, <2>2, <2>3 DEF CrawlsSound
<1>8. s.crawl \in 1..Len(d.crawl) /\ Len(d.crawl) \in Nat
  BY CrawlAt DEF AtWork, Open
<1>9. ASSUME NEW t \in new
      PROVE  /\ t.local \in LocalIds /\ t.local \notin s.observed /\ t.crawl = s.crawl
             /\ t.revision = Len(d.chain[t.local])
             /\ t.revision \in 1..Len(d.chain[t.local])
             /\ \A i \in 1..Len(d.chain[t.local]) :
                  /\ t.crawl \notin {d.chain[t.local][i].crawl, d.chain[t.local][i].lastSeen}
                  /\ i <= t.revision /\ d.chain[t.local][i].crawl < t.crawl
  <2>1. t.local \in LocalIds /\ t.local \notin s.observed /\ t.crawl = s.crawl
        /\ t.revision = Len(d.chain[t.local]) /\ t.revision # 0
    BY <1>1, <1>5, RetractionRow
  <2>2. Len(d.chain[t.local]) \in Nat
    BY <2>1, ChainLengths
  <2>3. ASSUME NEW i \in 1..Len(d.chain[t.local])
        PROVE  /\ t.crawl \notin {d.chain[t.local][i].crawl, d.chain[t.local][i].lastSeen}
               /\ d.chain[t.local][i].crawl < t.crawl
    <3>1. t.crawl \notin {d.chain[t.local][i].crawl, d.chain[t.local][i].lastSeen}
      BY <2>1 DEF AtWork, Untouched
    <3>2. d.chain[t.local][i].crawl \in Nat
      BY <2>1, RowAt
    <3>3. d.chain[t.local][i].crawl <= Len(d.crawl) /\ t.crawl = Len(d.crawl)
      BY <2>1 DEF Sound, ChainsSound, RowsHaveCrawls, AtWork, Open
    <3> QED BY <1>8, <3>1, <3>2, <3>3
  <2> QED BY <2>1, <2>2, <2>3
<1>10. ASSUME NEW t \in new
       PROVE  SubSeq(Replay(d)[t.local], 1, t.revision) = Replay(d)[t.local]
  <2>1. Replay(d)[t.local] \in Seq(FoldEntries) /\ t.revision = Len(Replay(d)[t.local])
    BY <1>9, ReplayType, ReplayLengths
  <2> QED BY <2>1, SubSeqFull
<1>11. /\ FromWhole(m) /\ Unseen(m) /\ RowsHaveCrawls(m) /\ Cuts(m) /\ BuriesLive(m)
  BY <1>3 DEF Sound, ChainsSound
<1>12. \A t \in e.retraction : t \in d.retraction \/ t \in new
  OBVIOUS
<1>13. FromWhole(e)
  <2>1. \A t \in d.retraction : t.crawl \in 1..Len(m.crawl) /\
          LET k == m.crawl[t.crawl]
          IN k.complete /\ k.drained /\ k.start = None /\ k.reason = None
    BY <1>2, <1>11 DEF FromWhole
  <2>2. \A t \in new : t.crawl \in 1..Len(m.crawl) /\
          LET k == m.crawl[t.crawl]
          IN k.complete /\ k.drained /\ k.start = None /\ k.reason = None
    BY <1>3, <1>6, <1>8, <1>9, <1>c, <1>d
  <2> QED BY <1>4, <1>12, <2>1, <2>2 DEF FromWhole
<1>14. Unseen(e)
  BY <1>2, <1>5, <1>9, <1>11, <1>12 DEF Unseen
<1>15. RowsHaveCrawls(e)
  BY <1>2, <1>4, <1>5, <1>11 DEF RowsHaveCrawls
<1>16. Cuts(e)
  BY <1>2, <1>5, <1>9, <1>11, <1>12 DEF Cuts
<1>17. BuriesLive(e)
  <2>1. Replay(e) = Replay(d) /\ Replay(m) = Replay(d)
    BY <1>1, <1>2, <1>5, ReplayIsOfChains
  <2>2. ASSUME NEW t \in new
        PROVE  LET head == fold_head(SubSeq(Replay(d)[t.local], 1, t.revision)).obs
               IN  head.state = "active" /\ head.resource = m.crawl[t.crawl].resource
    BY <1>3, <1>5, <1>9, <1>10
  <2>3. ASSUME NEW t \in d.retraction
        PROVE  LET head == fold_head(SubSeq(Replay(d)[t.local], 1, t.revision)).obs
               IN  head.state = "active" /\ head.resource = m.crawl[t.crawl].resource
    BY <1>2, <1>11, <2>1 DEF BuriesLive
  <2> QED BY <1>4, <1>12, <2>1, <2>2, <2>3 DEF BuriesLive
<1> QED BY <1>7, <1>13, <1>14, <1>15, <1>16, <1>17 DEF Sound, ChainsSound, e

-----------------------------------------------------------------------------
(***************************************************************************)
(* The inductive invariant.  What is committed is sound, so is what a       *)
(* transaction holds, and the crawl of a sweep at work is the newest one.   *)
(***************************************************************************)
HostCrawl(h) ==
  /\ pc[h] \in {"reading", "ingesting"} => AtWork(View(h), sweep[h])
  /\ InTxn(h) => Sound(txn[h])

CrawlInv == Sound(db) /\ \A h \in Hosts : HostCrawl(h)

(* A step of the host at work need be looked at for that host alone. *)
LEMMA WriterCrawl ==
  ASSUME TypeOK, SweepInv, NEW h \in Hosts, pc[h] # "idle",
         \A k \in Hosts \ {h} : pc'[k] = pc[k], Sound(db)', HostCrawl(h)'
  PROVE  CrawlInv'
<1>1. \A k \in Hosts \ {h} : pc'[k] = "idle"
  BY OthersIdle DEF SweepInv
<1>2. \A k \in Hosts \ {h} : HostCrawl(k)'
  BY <1>1 DEF HostCrawl, InTxn
<1> QED BY <1>2 DEF CrawlInv

(* An empty store has no crawl and no retraction. *)
LEMMA InitCrawl == Init => CrawlInv
<1> SUFFICES ASSUME Init PROVE CrawlInv
  OBVIOUS
<1>1. db.crawl = << >> /\ db.retraction = {} /\ \A l \in LocalIds : db.chain[l] = << >>
  BY DEF Init, EmptyDatabase
<1>2. CrawlsSound(db)
  BY <1>1 DEF CrawlsSound, OneCursor, Continues
<1>3. ChainsSound(db)
  BY <1>1 DEF ChainsSound, FromWhole, Unseen, RowsHaveCrawls, Cuts, BuriesLive
<1>4. \A h \in Hosts : HostCrawl(h)
  BY DEF Init, HostCrawl, InTxn
<1> QED BY <1>2, <1>3, <1>4 DEF CrawlInv, Sound

(* Taking the lock, and letting it go by exit or by death. *)
LEMMA ConnectCrawl ==
  ASSUME TypeOK, SweepInv, CrawlInv, NEW h \in Hosts, Connect(h) PROVE CrawlInv'
<1>1. \A k \in Hosts : pc[k] = "idle"
  BY BoundsAssumption DEF SweepInv, WriterHoldsLock, Connect, LockFree
<1>2. pc' = [pc EXCEPT ![h] = "connected"] /\ db' = db
  BY DEF Connect
<1>3. \A k \in Hosts : pc'[k] \in {"connected", "idle"}
  BY <1>1, <1>2 DEF TypeOK
<1>4. \A k \in Hosts : HostCrawl(k)'
  BY <1>3 DEF HostCrawl, InTxn
<1>5. Sound(db)'
  BY <1>2 DEF CrawlInv
<1> QED BY <1>4, <1>5 DEF CrawlInv

(* Exit and death leave what is committed. *)
LEMMA ForgetCrawl ==
  ASSUME TypeOK, SweepInv, CrawlInv, NEW h \in Hosts, pc[h] # "idle", Forget(h)
  PROVE  CrawlInv'
<1>1. pc'[h] = "idle" /\ db' = db /\ \A k \in Hosts \ {h} : pc'[k] = pc[k]
  BY DEF Forget, TypeOK
<1>2. HostCrawl(h)'
  BY <1>1 DEF HostCrawl, InTxn
<1>3. Sound(db)'
  BY <1>1 DEF CrawlInv
<1> QED BY <1>1, <1>2, <1>3, WriterCrawl

(* A resume point is the cursor of an unfinished crawl of the same definition. *)
LEMMA ResumePointContinues ==
  ASSUME NEW d \in Databases, NEW r \in Resources, NEW dv, NEW fp,
         resume_point(d, r, dv, fp) # None
  PROVE  \E b \in 1..Len(d.crawl) :
           /\ ~ d.crawl[b].drained /\ d.crawl[b].resource = r
           /\ d.crawl[b].derivation = dv /\ d.crawl[b].fingerprint = fp
<1> DEFINE b == resumable_crawl(d, r)
<1>1. resumable_crawls(d, r) # {} /\ d.crawl[b].derivation = dv /\ d.crawl[b].fingerprint = fp
  BY DEF resume_point
<1>2. b \in resumable_crawls(d, r)
  BY <1>1, ResumableCrawlType
<1> HIDE DEF b
<1> QED BY <1>1, <1>2 DEF resumable_crawls

(* A sweep begins: its crawl is the newest, and no row carries it. *)
LEMMA StartSweepCrawl ==
  ASSUME TypeOK, TypeOK', SweepInv, CrawlInv, NEW h \in Hosts, StartSweep(h)
  PROVE  CrawlInv'
<1>1. conn[h] \in Conns /\ db \in Databases /\ Sound(db)
  BY DEF TypeOK, StartSweep, CrawlInv
<1> DEFINE r == Head(conn[h].todo)
           dv == conn[h].derivation
<1>2. r \in Resources /\ dv \in Derivations
  BY <1>1 DEF StartSweep, Conns
<1>3. PICK fp \in Fingerprints, v \in Vantages, hs \in HistoryStarts :
        LET st == IF conn[h].options.resume THEN resume_point(db, r, dv, fp) ELSE None
        IN /\ db' = open_crawl(db, r, st, dv, fp)
           /\ sweep' = [sweep EXCEPT ![h] =
                [resource |-> r, crawl |-> Len(db.crawl) + 1, fingerprint |-> fp,
                 vantage |-> v, historyStart |-> hs, start |-> st, pageNo |-> 0,
                 faults |-> {}, resumable |-> "unread", exactNext |-> None,
                 observed |-> {}, exempt |-> {},
                 page |-> "more", received |-> None, room |-> 0]]
  BY DEF StartSweep
<1> DEFINE st == IF conn[h].options.resume THEN resume_point(db, r, dv, fp) ELSE None
<1>4. /\ db' = open_crawl(db, r, st, dv, fp)
      /\ sweep'[h].resource = r /\ sweep'[h].crawl = Len(db.crawl) + 1
      /\ sweep'[h].start = st /\ sweep'[h].observed = {}
  BY <1>3 DEF TypeOK
<1> HIDE DEF r, dv
<1>5. st \in Cursors \cup {None}
  BY <1>1, <1>2, ResumePointType
<1>6. st # None => \E b \in 1..Len(db.crawl) :
                     /\ ~ db.crawl[b].drained /\ db.crawl[b].resource = r
                     /\ db.crawl[b].derivation = dv /\ db.crawl[b].fingerprint = fp
  BY <1>1, <1>2, ResumePointContinues
<1> HIDE DEF st
<1>7. /\ Sound(db') /\ db'.chain = db.chain
      /\ Len(db'.crawl) = Len(db.crawl) + 1
      /\ ~ db'.crawl[Len(db'.crawl)].drained
      /\ db'.crawl[Len(db'.crawl)].resource = r /\ db'.crawl[Len(db'.crawl)].start = st
  BY <1>1, <1>2, <1>4, <1>5, <1>6, OpenSound
<1>8. pc[h] # "idle" /\ pc'[h] = "reading" /\ \A k \in Hosts \ {h} : pc'[k] = pc[k]
  BY DEF StartSweep, TypeOK
<1>9. Len(db.crawl) \in Nat
  BY <1>1, CrawlAt
<1>10. Open(db', sweep'[h].crawl)
  BY <1>4, <1>7, <1>9 DEF Open
<1>11. Untouched(db', sweep'[h].crawl, {})
  <2> SUFFICES ASSUME NEW l \in LocalIds, NEW i \in 1..Len(db.chain[l])
               PROVE  Len(db.crawl) + 1 \notin {db.chain[l][i].crawl, db.chain[l][i].lastSeen}
    BY <1>4, <1>7 DEF Untouched
  <2>1. db.chain[l][i].crawl \in Nat /\ db.chain[l][i].lastSeen \in Nat
    BY <1>1, RowAt
  <2>2. db.chain[l][i].crawl <= Len(db.crawl) /\ db.chain[l][i].lastSeen <= Len(db.crawl)
    BY <1>1 DEF Sound, ChainsSound, RowsHaveCrawls
  <2> QED BY <1>9, <2>1, <2>2
<1>12. AtWork(db', sweep'[h])
  BY <1>4, <1>7, <1>10, <1>11 DEF AtWork
<1>13. HostCrawl(h)'
  BY <1>8, <1>12 DEF HostCrawl, InTxn, View
<1>14. Sound(db)'
  BY <1>7 DEF Sound
<1> QED BY <1>8, <1>13, <1>14, WriterCrawl

(* The reader thread touches no table. *)
LEMMA PublishCrawl ==
  ASSUME TypeOK, SweepInv, CrawlInv, NEW h \in Hosts, Publish(h) PROVE CrawlInv'
<1>1. pc' = pc /\ db' = db /\ sweep' = sweep /\ txn' = txn
  BY DEF Publish
<1>2. Sound(db)'
  BY <1>1 DEF CrawlInv
<1>3. \A k \in Hosts : HostCrawl(k)'
  BY <1>1 DEF CrawlInv, HostCrawl, InTxn, View
<1> QED BY <1>2, <1>3 DEF CrawlInv

(* A sweep that fails leaves its crawl undrained. *)
LEMMA FailCrawl ==
  ASSUME TypeOK, TypeOK', SweepInv, CrawlInv, NEW h \in Hosts, ReadFails(h) \/ PageLimit(h)
  PROVE  CrawlInv'
<1>1. /\ db \in Databases /\ Sound(db) /\ pc[h] = "reading" /\ sweep[h] \in Sweeps
  BY DEF TypeOK, CrawlInv, ReadFails, PageLimit, Sweeping
<1>2. PICK z \in Disqualifications : db' = finish_crawl(db, sweep[h].crawl, FALSE, FALSE, z)
  BY DEF ReadFails, PageLimit, Disqualifications
<1>3. Open(db, sweep[h].crawl) /\ sweep[h].crawl \in Nat
  BY <1>1 DEF CrawlInv, HostCrawl, AtWork, View, InTxn, Sweeps
<1>4. Sound(db')
  BY <1>1, <1>2, <1>3, FinishSound
<1>5. pc[h] # "idle" /\ pc'[h] = "connected" /\ \A k \in Hosts \ {h} : pc'[k] = pc[k]
  BY DEF ReadFails, PageLimit, EndSweep, TypeOK
<1>6. HostCrawl(h)'
  BY <1>5 DEF HostCrawl, InTxn
<1>7. Sound(db)'
  BY <1>4
<1> QED BY <1>5, <1>6, <1>7, WriterCrawl

(* A page's transaction opens on what is committed. *)
LEMMA PageArrivesCrawl ==
  ASSUME TypeOK, TypeOK', SweepInv, CrawlInv, NEW h \in Hosts, PageArrives(h)
  PROVE  CrawlInv'
<1>1. /\ pc[h] = "reading" /\ pc'[h] = "ingesting" /\ txn'[h] = db /\ db' = db
      /\ \A k \in Hosts \ {h} : pc'[k] = pc[k]
  BY DEF PageArrives, TypeOK
<1>2. SameSweep(sweep'[h], sweep[h])
  BY PageArrivesSweep DEF TypeOK
<1>3. AtWork(db, sweep[h]) /\ Sound(db)
  BY <1>1 DEF CrawlInv, HostCrawl, View, InTxn
<1>4. AtWork(db, sweep'[h])
  BY <1>2, <1>3 DEF AtWork, SameSweep
<1>5. HostCrawl(h)'
  <2>1. AtWork(View(h), sweep[h])'
    BY <1>1, <1>4 DEF View, InTxn
  <2>2. Sound(txn[h])'
    BY <1>1, <1>3
  <2> QED BY <2>1, <2>2 DEF HostCrawl
<1>6. Sound(db)'
  BY <1>1, <1>3
<1> QED BY <1>1, <1>5, <1>6, WriterCrawl

(* One observation, stamped or appended by the open crawl. *)
LEMMA IngestCrawl ==
  ASSUME TypeOK, TypeOK', SweepInv, CrawlInv, NEW h \in Hosts, NEW l \in LocalIds,
         NEW o \in Reportable, Ingest(h, l, o)
  PROVE  CrawlInv'
<1> DEFINE s   == sweep[h]
           q   == sweep'[h]
           d   == txn[h]
           e   == txn'[h]
           f   == snap[h].fold
           dv  == conn[h].derivation
           rev == highest_revision(f[l]) + 1
<1>1. /\ pc[h] = "ingesting" /\ pc' = pc /\ db' = db /\ Sweeping(h) /\ InTxn(h)
  BY DEF Ingest, Sweeping, InTxn
<1>2. d \in Databases /\ e \in Databases /\ s \in Sweeps
  BY <1>1 DEF TypeOK, Sweeping, InTxn
<1>3. SameSweep(q, [s EXCEPT !.observed = s.observed \cup {l}]) /\ q.observed = s.observed \cup {l}
  <2>1. sweep' = [sweep EXCEPT ![h].observed = @ \cup {l}, ![h].room = @ - 1]
    BY DEF Ingest
  <2>2. sweep \in [Hosts -> Sweeps \cup {None}]
    BY DEF TypeOK
  <2> QED BY <1>2, <2>1, <2>2 DEF Sweeps, SameSweep
<1>4. q.crawl = s.crawl /\ q.resource = s.resource /\ q.start = s.start
  BY <1>2, <1>3 DEF SameSweep, Sweeps
<1>5. Sound(d) /\ AtWork(d, s)
  BY <1>1 DEF CrawlInv, HostCrawl, View
<1>6. Stays(d, e) /\ Ingested(d, e, l, s.crawl)
  <2>1. CASE already_known(snap[h], l, o)
    <3> DEFINE head == head_revision(f[l])
               fp   == s.fingerprint
               c    == s.crawl
    <3>1. e = stamp_seen(d, l, head, c, dv, fp)
      BY <2>1 DEF Ingest, TypeOK
    <3> HIDE DEF head, c, fp, dv, d, e
    <3>2. Stays(d, e) /\ Ingested(d, e, l, c)
      BY <1>2, <3>1, StampStays, StampIngested
    <3> QED BY <3>2 DEF c
  <2>2. CASE ~ already_known(snap[h], l, o)
    <3> DEFINE fp == s.fingerprint
               c  == s.crawl
               at == s.received
    <3>1. e = append_observation(d, l, rev, o, at, c, dv, fp)
      BY <2>2 DEF Ingest, TypeOK
    <3> HIDE DEF rev, at, c, fp, dv, d, e
    <3>2. Stays(d, e) /\ Ingested(d, e, l, c)
      BY <1>2, <3>1, AppendStays, AppendIngested
    <3> QED BY <3>2 DEF c
  <2> QED BY <2>1, <2>2
<1> HIDE DEF d, e, q, s
<1>7. Sound(e)
  BY <1>2, <1>5, <1>6, IngestedSound DEF AtWork
<1>8. Untouched(e, s.crawl, s.observed \cup {l})
  BY <1>2, <1>5, <1>6, IngestedUntouched DEF AtWork
<1>9. AtWork(e, q)
  BY <1>3, <1>4, <1>5, <1>6, <1>8 DEF AtWork, Open, Ingested
<1>10. HostCrawl(h)'
  <2>1. AtWork(View(h), sweep[h])'
    BY <1>1, <1>9 DEF View, InTxn, e, q
  <2>2. Sound(txn[h])'
    BY <1>7 DEF e
  <2> QED BY <2>1, <2>2 DEF HostCrawl
<1>11. Sound(db)'
  BY <1>1 DEF CrawlInv
<1> QED BY <1>1, <1>10, <1>11, WriterCrawl

(* A page commits what its transaction holds, with a cursor. *)
LEMMA CommitPageCrawl ==
  ASSUME TypeOK, TypeOK', SweepInv, CrawlInv, NEW h \in Hosts, CommitPage(h)
  PROVE  CrawlInv'
<1> DEFINE s == sweep[h]
           q == sweep'[h]
           d == txn[h]
           n == next_request(s)
<1>1. /\ pc[h] = "ingesting" /\ pc'[h] = "reading" /\ Sweeping(h) /\ InTxn(h)
      /\ \A k \in Hosts \ {h} : pc'[k] = pc[k]
  BY DEF CommitPage, Sweeping, InTxn, TypeOK
<1>2. d \in Databases /\ s \in Sweeps
  BY <1>1 DEF TypeOK
<1>3. n \in Cursors \cup {None} /\ s.crawl \in Nat
  BY <1>2 DEF next_request, Sweeps
<1>4. db' = set_crawl_cursor(d, s.crawl, n)
  BY DEF CommitPage
<1>5. SameSweep(q, s)
  BY <1>2 DEF CommitPage, TypeOK, Sweeps, SameSweep
<1>6. Sound(d) /\ AtWork(d, s)
  BY <1>1 DEF CrawlInv, HostCrawl, View
<1> HIDE DEF d, n, q, s
<1>7. /\ Sound(db') /\ Open(db', s.crawl)
      /\ db'.crawl[s.crawl].resource = d.crawl[s.crawl].resource
      /\ db'.crawl[s.crawl].start = d.crawl[s.crawl].start
  BY <1>2, <1>3, <1>4, <1>6, CursorSound DEF AtWork
<1>8. db'.chain = d.chain
  BY <1>2, <1>4 DEF set_crawl_cursor, Databases
<1>9. AtWork(db', q)
  BY <1>5, <1>6, <1>7, <1>8 DEF AtWork, SameSweep, Untouched
<1>10. HostCrawl(h)'
  BY <1>1, <1>9 DEF HostCrawl, View, InTxn, q
<1>11. Sound(db)'
  BY <1>7
<1> QED BY <1>1, <1>10, <1>11, WriterCrawl

(* The judgement: no condition broken means a whole sweep from the start. *)
LEMMA JudgeSweepCrawl ==
  ASSUME TypeOK, TypeOK', SweepInv, CrawlInv, NEW h \in Hosts, JudgeSweep(h)
  PROVE  CrawlInv'
<1> DEFINE reason == disqualifier(conn[h], sweep[h], violated[h])
           d == txn[h]
           e == txn'[h]
<1>1. /\ pc[h] = "ingesting" /\ pc'[h] = "committing" /\ db' = db
      /\ Sweeping(h) /\ InTxn(h) /\ \A k \in Hosts \ {h} : pc'[k] = pc[k]
  BY DEF JudgeSweep, Sweeping, InTxn, TypeOK
<1>2. /\ Current(h) /\ d \in Databases
      /\ sweep[h] \in Sweeps /\ snap[h] \in Snaps /\ conn[h] \in Conns
  BY <1>1 DEF SweepInv, HostInv, TypeOK, Sweeping, InTxn
<1>3. snap[h].fold = Replay(d)
  BY <1>1, <1>2 DEF Current, View
<1>4. reason \in Disqualifications \cup {None}
  BY DEF disqualifier, Disqualifications
<1>5. reason = None => sweep[h].start = None /\ sweep[h].page = "drained"
  BY ReasonAssumption DEF disqualifier, Disqualifications
<1>6. e = settle(d, conn[h], sweep[h], snap[h], reason)
  BY DEF JudgeSweep, TypeOK
<1>7. Sound(d) /\ AtWork(d, sweep[h])
  BY <1>1 DEF CrawlInv, HostCrawl, View
<1> HIDE DEF reason, d, e
<1>8. Sound(e)
  BY <1>2, <1>3, <1>4, <1>5, <1>6, <1>7, SettleSound
<1>9. HostCrawl(h)'
  <2>1. Sound(txn[h])'
    BY <1>8 DEF e
  <2> QED BY <1>1, <2>1 DEF HostCrawl
<1>10. Sound(db)'
  BY <1>1 DEF CrawlInv
<1> QED BY <1>1, <1>9, <1>10, WriterCrawl

(* The commit of the last page. *)
LEMMA CommitSweepCrawl ==
  ASSUME TypeOK, TypeOK', SweepInv, CrawlInv, NEW h \in Hosts, CommitSweep(h)
  PROVE  CrawlInv'
<1>1. /\ pc[h] = "committing" /\ pc'[h] = "connected" /\ db' = txn[h]
      /\ \A k \in Hosts \ {h} : pc'[k] = pc[k]
  BY DEF CommitSweep, EndSweep, TypeOK
<1>2. Sound(db)'
  BY <1>1 DEF CrawlInv, HostCrawl, InTxn
<1>3. HostCrawl(h)'
  BY <1>1 DEF HostCrawl, InTxn
<1> QED BY <1>1, <1>2, <1>3, WriterCrawl

(* Every step of every host, and of no host. *)
LEMMA StepCrawl ==
  TypeOK /\ TypeOK' /\ SweepInv /\ CrawlInv /\ [Next]_vars => CrawlInv'
<1> SUFFICES ASSUME TypeOK, TypeOK', SweepInv, CrawlInv, [Next]_vars PROVE CrawlInv'
  OBVIOUS
<1>1. ASSUME NEW h \in Hosts, Connect(h) PROVE CrawlInv'
  BY <1>1, ConnectCrawl
<1>2. ASSUME NEW h \in Hosts, Publish(h) PROVE CrawlInv'
  BY <1>2, PublishCrawl
<1>3. ASSUME NEW h \in Hosts, Crash(h) \/ Disconnect(h) PROVE CrawlInv'
  BY <1>3, ForgetCrawl DEF Crash, Disconnect
<1>4. ASSUME NEW h \in Hosts, StartSweep(h) PROVE CrawlInv'
  BY <1>4, StartSweepCrawl
<1>5. ASSUME NEW h \in Hosts, ReadFails(h) \/ PageLimit(h) PROVE CrawlInv'
  BY <1>5, FailCrawl
<1>6. ASSUME NEW h \in Hosts, PageArrives(h) PROVE CrawlInv'
  BY <1>6, PageArrivesCrawl
<1>7. ASSUME NEW h \in Hosts, NEW l \in LocalIds, NEW o \in Reportable, Ingest(h, l, o)
      PROVE  CrawlInv'
  BY <1>7, IngestCrawl
<1>8. ASSUME NEW h \in Hosts, CommitPage(h) PROVE CrawlInv'
  BY <1>8, CommitPageCrawl
<1>9. ASSUME NEW h \in Hosts, JudgeSweep(h) PROVE CrawlInv'
  BY <1>9, JudgeSweepCrawl
<1>10. ASSUME NEW h \in Hosts, CommitSweep(h) PROVE CrawlInv'
  BY <1>10, CommitSweepCrawl
<1>11. CASE UNCHANGED vars
  <2>1. pc' = pc /\ db' = db /\ sweep' = sweep /\ txn' = txn
    BY <1>11 DEF vars
  <2>2. Sound(db)'
    BY <2>1 DEF CrawlInv
  <2>3. \A k \in Hosts : HostCrawl(k)'
    BY <2>1 DEF CrawlInv, HostCrawl, InTxn, View
  <2> QED BY <2>2, <2>3 DEF CrawlInv
<1> QED BY <1>1, <1>2, <1>3, <1>4, <1>5, <1>6, <1>7, <1>8, <1>9, <1>10, <1>11 DEF Next, HostStep

(* The invariant holds in every behaviour, whatever crashes and whoever writes. *)
THEOREM CrawlInvariant == Spec => [](TypeOK /\ SweepInv /\ CrawlInv)
<1>1. Init => CrawlInv
  BY InitCrawl
<1>2. TypeOK /\ TypeOK' /\ SweepInv /\ CrawlInv /\ [Next]_vars => CrawlInv'
  BY StepCrawl
<1> QED BY <1>1, <1>2, SweepInvariant, PTL DEF Spec

(* A resource has one resume point at most, that of its newest crawl, and a crawl
   that began at a cursor continues an unfinished one of its own definition,
   through crashes, failures and page limits. *)
THEOREM ResumesAreContinuations == Spec => []ResumesWhereItStopped
<1>1. CrawlInv => ResumesWhereItStopped
  BY DEF CrawlInv, Sound, CrawlsSound, OneCursor, Continues, ResumesWhereItStopped
<1> QED BY <1>1, CrawlInvariant, PTL

(* Every retraction in the store was licensed by a whole, clean sweep from the
   start of history which did not see the record. *)
THEOREM RetractionsAreLicensed == Spec => []RetractionLicensed
<1>1. CrawlInv => RetractionLicensed
  BY DEF CrawlInv, Sound, ChainsSound, FromWhole, Unseen, RetractionLicensed
<1> QED BY <1>1, CrawlInvariant, PTL

(* Every retraction buries what was known of a live record when it was derived,
   and nothing that was learnt later. *)
THEOREM RetractionsCutChains == Spec => []RetractionCutsChain
<1>1. CrawlInv => RetractionCutsChain
  BY DEF CrawlInv, Sound, ChainsSound, Cuts, BuriesLive, RetractionCutsChain
<1> QED BY <1>1, CrawlInvariant, PTL

-----------------------------------------------------------------------------
(* The head of a chain. *)

(* fold_order is a total order of the entries of a chain. *)
LEMMA FoldOrderIsTotal ==
  ASSUME NEW c \in Seq(FoldEntries)
  PROVE  /\ \A i, j \in 1..Len(c) : fold_order(c, i, j) \/ fold_order(c, j, i)
         /\ \A i, j, k \in 1..Len(c) :
              fold_order(c, i, j) /\ fold_order(c, j, k) => fold_order(c, i, k)
<1>1. \A i \in 1..Len(c) : c[i].received \in Nat /\ c[i].obs.surface \in Nat
  <2> SUFFICES ASSUME NEW i \in 1..Len(c)
               PROVE  c[i].received \in Nat /\ c[i].obs.surface \in Nat
    OBVIOUS
  <2>1. c[i] \in FoldEntries
    OBVIOUS
  <2>2. c[i].received \in Times /\ c[i].obs.surface \in Surfaces
    BY <2>1 DEF FoldEntries, Observations
  <2> QED BY <2>2, NumbersAssumption
<1>2. Len(c) \in Nat
  OBVIOUS
<1> QED BY <1>1, <1>2 DEF fold_order

(* So a chain that is not empty has a head, the last entry in the order. *)
LEMMA HeadExists ==
  ASSUME NEW c \in Seq(FoldEntries), c # << >>
  PROVE  /\ head_revision(c) \in 1..Len(c)
         /\ \A j \in 1..Len(c) : fold_order(c, j, head_revision(c))
         /\ fold_head(c) \in FoldEntries
<1> DEFINE Last(n, m) == m \in 1..n /\ \A j \in 1..n : fold_order(c, j, m)
           T == {n \in 1..Len(c) : ~ \E m \in 1..n : Last(n, m)}
<1>1. Len(c) \in Nat /\ Len(c) # 0
  OBVIOUS
<1>2. T = {}
  <2> SUFFICES ASSUME T # {} PROVE FALSE
    OBVIOUS
  <2>1. T \subseteq Nat
    BY <1>1
  <2>2. PICK n \in T : \A k \in T : ~ (<<k, n>> \in OpToRel(<, Nat))
    <3> HIDE DEF T
    <3> QED BY <2>1, NatLessThanWellFounded, WFMin
  <2>3. n \in 1..Len(c) /\ \A k \in T : ~ (k < n)
    BY <2>1, <2>2 DEF OpToRel
  <2>4. CASE n = 1
    <3>1. Last(n, 1)
      BY <1>1, <2>4, FoldOrderIsTotal
    <3> QED BY <2>2, <2>4, <3>1
  <2>5. CASE n # 1
    <3>1. n - 1 \in 1..Len(c) /\ n - 1 < n
      BY <1>1, <2>3, <2>5
    <3>2. PICK m \in 1..n-1 : Last(n - 1, m)
      BY <2>3, <3>1
    <3>3. m \in 1..Len(c) /\ m \in 1..n /\ n \in 1..n
      BY <1>1, <2>3, <3>2
    <3>4. CASE fold_order(c, n, m)
      <4>1. Last(n, m)
        <5> SUFFICES ASSUME NEW j \in 1..n PROVE fold_order(c, j, m)
          BY <3>3
        <5>1. j = n \/ j \in 1..n-1
          BY <1>1, <2>3
        <5> QED BY <3>2, <3>4, <5>1
      <4> QED BY <2>2, <3>3, <4>1
    <3>5. CASE fold_order(c, m, n)
      <4>1. Last(n, n)
        <5> SUFFICES ASSUME NEW j \in 1..n PROVE fold_order(c, j, n)
          BY <3>3
        <5>1. j = n \/ (j \in 1..n-1 /\ j \in 1..Len(c))
          BY <1>1, <2>3
        <5>2. j \in 1..n-1 => fold_order(c, j, m)
          BY <3>2
        <5> QED BY <2>3, <3>3, <3>5, <5>1, <5>2, FoldOrderIsTotal
      <4> QED BY <2>2, <3>3, <4>1
    <3> QED BY <2>3, <3>3, <3>4, <3>5, FoldOrderIsTotal
  <2> QED BY <2>4, <2>5
<1>3. PICK m \in 1..Len(c) : Last(Len(c), m)
  <2>1. Len(c) \in 1..Len(c)
    BY <1>1
  <2>2. Len(c) \notin T
    <3> HIDE DEF T
    <3> QED BY <1>2
  <2> QED BY <2>1, <2>2
<1>4. /\ head_revision(c) \in 1..Len(c)
      /\ \A j \in 1..Len(c) : fold_order(c, j, head_revision(c))
  BY <1>3 DEF head_revision
<1>5. fold_head(c) \in FoldEntries
  BY <1>4 DEF fold_head
<1> QED BY <1>4, <1>5

-----------------------------------------------------------------------------
(* The rules on a row, the crawls of the discrepancies, and what was seen. *)

(* A row was last seen by a crawl no older than the one that wrote it, and carries
   the rules of that crawl. *)
RulesOfCrawl(d) ==
  \A l \in LocalIds : \A i \in 1..Len(d.chain[l]) :
    LET row == d.chain[l][i]
    IN /\ 1 <= row.crawl /\ row.crawl <= row.lastSeen /\ row.lastSeen <= Len(d.crawl)
       /\ row.derivation = d.crawl[row.lastSeen].derivation
       /\ row.fingerprint = d.crawl[row.lastSeen].fingerprint

(* A discrepancy was noted by a crawl that drained. *)
NotedByDrained(d) ==
  \A x \in d.discrepancy : x.crawl \in 1..Len(d.crawl) /\ d.crawl[x.crawl].drained

Noted(d) == RulesOfCrawl(d) /\ NotedByDrained(d)

(* Crawls to come, and cursors and outcomes of old ones, change neither. *)
LEMMA RulesSurvive ==
  ASSUME NEW d \in Databases, NEW e \in Databases, RulesOfCrawl(d),
         e.chain = d.chain, Len(d.crawl) <= Len(e.crawl),
         \A c \in 1..Len(d.crawl) : /\ e.crawl[c].derivation = d.crawl[c].derivation
                                    /\ e.crawl[c].fingerprint = d.crawl[c].fingerprint
  PROVE  RulesOfCrawl(e)
<1>1. Len(d.crawl) \in Nat /\ Len(e.crawl) \in Nat
  BY CrawlAt
<1> SUFFICES ASSUME NEW l \in LocalIds, NEW i \in 1..Len(d.chain[l])
             PROVE  LET row == d.chain[l][i]
                    IN /\ 1 <= row.crawl /\ row.crawl <= row.lastSeen
                       /\ row.lastSeen <= Len(e.crawl)
                       /\ row.derivation = e.crawl[row.lastSeen].derivation
                       /\ row.fingerprint = e.crawl[row.lastSeen].fingerprint
  BY DEF RulesOfCrawl
<1> DEFINE row == d.chain[l][i]
<1>2. /\ 1 <= row.crawl /\ row.crawl <= row.lastSeen /\ row.lastSeen <= Len(d.crawl)
      /\ row.derivation = d.crawl[row.lastSeen].derivation
      /\ row.fingerprint = d.crawl[row.lastSeen].fingerprint
  BY DEF RulesOfCrawl
<1>3. row.crawl \in Nat /\ row.lastSeen \in Nat
  BY RowAt
<1>4. row.lastSeen \in 1..Len(d.crawl) /\ row.lastSeen <= Len(e.crawl)
  BY <1>1, <1>2, <1>3
<1> QED BY <1>2, <1>4

(* Nor do they undo a drained crawl. *)
LEMMA NotedSurvives ==
  ASSUME NEW d \in Databases, NEW e \in Databases, NotedByDrained(d),
         e.discrepancy = d.discrepancy, Len(d.crawl) <= Len(e.crawl),
         \A c \in 1..Len(d.crawl) : d.crawl[c].drained => e.crawl[c].drained
  PROVE  NotedByDrained(e)
<1>1. Len(d.crawl) \in Nat /\ Len(e.crawl) \in Nat
  BY CrawlAt
<1> QED BY <1>1 DEF NotedByDrained

(* A sweep opens its crawl. *)
LEMMA OpenNoted ==
  ASSUME NEW d \in Databases, NEW e \in Databases, Noted(d),
         e.chain = d.chain, e.discrepancy = d.discrepancy,
         Len(e.crawl) = Len(d.crawl) + 1,
         \A c \in 1..Len(d.crawl) : SameCrawl(e.crawl[c], d.crawl[c])
  PROVE  Noted(e)
<1>1. Len(d.crawl) <= Len(e.crawl)
  BY CrawlAt
<1>2. RulesOfCrawl(e)
  BY <1>1, RulesSurvive DEF Noted, SameCrawl
<1>3. NotedByDrained(e)
  BY <1>1, NotedSurvives DEF Noted, SameCrawl
<1> QED BY <1>2, <1>3 DEF Noted

(* The row of the open crawl is replaced by one of the same rules. *)
LEMMA LastNoted ==
  ASSUME NEW d \in Databases, NEW e \in Databases, NEW c, Noted(d), Open(d, c),
         ButLast(d, e, c), e.discrepancy = d.discrepancy,
         e.crawl[c].derivation = d.crawl[c].derivation,
         e.crawl[c].fingerprint = d.crawl[c].fingerprint
  PROVE  Noted(e)
<1>1. Len(d.crawl) <= Len(e.crawl)
  BY CrawlAt DEF ButLast
<1>2. RulesOfCrawl(e)
  BY <1>1, RulesSurvive DEF Noted, ButLast
<1>3. NotedByDrained(e)
  BY <1>1, NotedSurvives DEF Noted, ButLast, Open
<1> QED BY <1>2, <1>3 DEF Noted

-----------------------------------------------------------------------------
(* Observations taken into the transaction of the open crawl. *)

(* Every record of ls has a row last seen by crawl c. *)
Seen(d, c, ls) == \A l \in ls : SeenBy(d, l, c)

(* The tables an observation does not touch, and the other chains. *)
Beside(d, e, ls) ==
  /\ e.crawl = d.crawl /\ e.resource = d.resource /\ e.discrepancy = d.discrepancy
  /\ e.retraction = d.retraction
  /\ \A l \in LocalIds \ ls : e.chain[l] = d.chain[l]

(* A stamp brings a row to the open crawl and its rules. *)
LEMMA StampNoted ==
  ASSUME NEW d \in Databases, NEW l \in LocalIds, NEW rev \in 1..Len(d.chain[l]), NEW c,
         NEW dv, NEW fp, RevisionsOf(d), Noted(d), RowsHaveCrawls(d), Open(d, c),
         d.crawl[c].derivation = dv, d.crawl[c].fingerprint = fp
  PROVE  LET e == stamp_seen(d, l, rev, c, dv, fp)
         IN  /\ Noted(e) /\ Beside(d, e, {l}) /\ SeenBy(e, l, c)
<1> DEFINE e == stamp_seen(d, l, rev, c, dv, fp)
           stamped == [i \in 1..Len(d.chain[l]) |->
                         IF d.chain[l][i].revision = rev
                         THEN [d.chain[l][i] EXCEPT !.lastSeen = c,
                                                    !.derivation = dv,
                                                    !.fingerprint = fp]
                         ELSE d.chain[l][i]]
<1>1. d.chain \in [LocalIds -> Seq(Rows)] /\ Len(d.chain[l]) \in Nat
  BY Tables DEF Chains
<1>2. /\ e.chain = [d.chain EXCEPT ![l] = stamped]
      /\ e.crawl = d.crawl /\ e.resource = d.resource /\ e.discrepancy = d.discrepancy
      /\ e.retraction = d.retraction
  BY DEF stamp_seen, Databases
<1>3. Len(stamped) = Len(d.chain[l])
  BY <1>1
<1>4. ASSUME NEW i \in 1..Len(d.chain[l])
      PROVE  /\ i # rev => stamped[i] = d.chain[l][i]
             /\ i = rev => /\ stamped[i].crawl = d.chain[l][i].crawl
                           /\ stamped[i].lastSeen = c
                           /\ stamped[i].derivation = dv /\ stamped[i].fingerprint = fp
  <2>1. d.chain[l][i] \in Rows /\ d.chain[l][i].revision = i
    BY <1>1 DEF RevisionsOf
  <2> QED BY <2>1 DEF Rows
<1> HIDE DEF stamped, e
<1>5. e.chain[l] = stamped /\ \A k \in LocalIds \ {l} : e.chain[k] = d.chain[k]
  BY <1>1, <1>2
<1>6. Beside(d, e, {l})
  BY <1>2, <1>5 DEF Beside
<1>7. SeenBy(e, l, c)
  BY <1>3, <1>4, <1>5 DEF SeenBy
<1>8. Len(d.crawl) \in Nat /\ c = Len(d.crawl) /\ c # 0
  BY CrawlAt DEF Open
<1>9. RulesOfCrawl(e)
  <2> SUFFICES ASSUME NEW k \in LocalIds, NEW i \in 1..Len(e.chain[k])
               PROVE  LET row == e.chain[k][i]
                      IN /\ 1 <= row.crawl /\ row.crawl <= row.lastSeen
                         /\ row.lastSeen <= Len(d.crawl)
                         /\ row.derivation = d.crawl[row.lastSeen].derivation
                         /\ row.fingerprint = d.crawl[row.lastSeen].fingerprint
    BY <1>2 DEF RulesOfCrawl
  <2>1. i \in 1..Len(d.chain[k])
    BY <1>3, <1>5
  <2>2. LET row == d.chain[k][i]
        IN /\ 1 <= row.crawl /\ row.crawl <= row.lastSeen /\ row.lastSeen <= Len(d.crawl)
           /\ row.derivation = d.crawl[row.lastSeen].derivation
           /\ row.fingerprint = d.crawl[row.lastSeen].fingerprint
           /\ row.crawl <= Len(d.crawl)
    BY <2>1 DEF Noted, RulesOfCrawl, RowsHaveCrawls
  <2>3. CASE k = l /\ i = rev
    BY <1>4, <1>5, <1>8, <2>1, <2>2, <2>3
  <2>4. CASE ~ (k = l /\ i = rev)
    <3>1. e.chain[k][i] = d.chain[k][i]
      BY <1>4, <1>5, <2>1, <2>4
    <3> QED BY <2>2, <3>1
  <2> QED BY <2>3, <2>4
<1>10. NotedByDrained(e)
  BY <1>2 DEF Noted, NotedByDrained
<1> QED BY <1>6, <1>7, <1>9, <1>10 DEF Noted, e

(* A new row is of the open crawl and its rules. *)
LEMMA AppendNoted ==
  ASSUME NEW d \in Databases, NEW l \in LocalIds, NEW rev, NEW o, NEW at, NEW c,
         NEW dv, NEW fp, Noted(d), Open(d, c),
         d.crawl[c].derivation = dv, d.crawl[c].fingerprint = fp
  PROVE  LET e == append_observation(d, l, rev, o, at, c, dv, fp)
         IN  /\ Noted(e) /\ Beside(d, e, {l}) /\ SeenBy(e, l, c)
<1> DEFINE e == append_observation(d, l, rev, o, at, c, dv, fp)
           row == [obs |-> o, received |-> at, revision |-> rev, crawl |-> c,
                   lastSeen |-> c, derivation |-> dv, fingerprint |-> fp]
           s == d.chain[l]
           x == Append(s, row)
<1>1. d.chain \in [LocalIds -> Seq(Rows)]
  BY Tables DEF Chains
<1>2. /\ e.chain = [d.chain EXCEPT ![l] = x]
      /\ e.crawl = d.crawl /\ e.resource = d.resource /\ e.discrepancy = d.discrepancy
      /\ e.retraction = d.retraction
  BY DEF append_observation, Databases
<1>3. s \in Seq(Rows \cup {row}) /\ row \in Rows \cup {row} /\ Len(s) \in Nat
  BY <1>1
<1>4. /\ Len(x) = Len(s) + 1 /\ x[Len(s) + 1] = row
      /\ \A i \in 1..Len(s) : x[i] = s[i]
  <2> HIDE DEF s, row
  <2> QED BY <1>3, AppendProperties
<1>5. row.crawl = c /\ row.lastSeen = c /\ row.derivation = dv /\ row.fingerprint = fp
  OBVIOUS
<1> HIDE DEF e, x, row
<1>6. e.chain[l] = x /\ \A k \in LocalIds \ {l} : e.chain[k] = d.chain[k]
  BY <1>1, <1>2
<1>7. Beside(d, e, {l})
  BY <1>2, <1>6 DEF Beside
<1>8. SeenBy(e, l, c)
  <2>1. Len(s) + 1 \in 1..Len(e.chain[l])
    BY <1>3, <1>4, <1>6
  <2> QED BY <1>4, <1>5, <1>6, <2>1 DEF SeenBy
<1>9. Len(d.crawl) \in Nat /\ c = Len(d.crawl) /\ c # 0
  BY CrawlAt DEF Open
<1>10. RulesOfCrawl(e)
  <2> SUFFICES ASSUME NEW k \in LocalIds, NEW i \in 1..Len(e.chain[k])
               PROVE  LET r == e.chain[k][i]
                      IN /\ 1 <= r.crawl /\ r.crawl <= r.lastSeen
                         /\ r.lastSeen <= Len(d.crawl)
                         /\ r.derivation = d.crawl[r.lastSeen].derivation
                         /\ r.fingerprint = d.crawl[r.lastSeen].fingerprint
    BY <1>2 DEF RulesOfCrawl
  <2>1. CASE k = l /\ i = Len(s) + 1
    <3>1. e.chain[k][i] = row
      BY <1>4, <1>6, <2>1
    <3>2. 1 <= c /\ c <= c /\ c <= Len(d.crawl)
      BY <1>9
    <3> QED BY <1>5, <3>1, <3>2
  <2>2. CASE ~ (k = l /\ i = Len(s) + 1)
    <3>1. i \in 1..Len(d.chain[k]) /\ e.chain[k][i] = d.chain[k][i]
      BY <1>3, <1>4, <1>6, <2>2
    <3> QED BY <3>1 DEF Noted, RulesOfCrawl
  <2> QED BY <2>1, <2>2
<1>11. NotedByDrained(e)
  BY <1>2 DEF Noted, NotedByDrained
<1> QED BY <1>7, <1>8, <1>10, <1>11 DEF Noted, e

(* What was seen stays seen. *)
LEMMA SeenOneMore ==
  ASSUME NEW d, NEW e, NEW l \in LocalIds, NEW c, NEW ls \in SUBSET LocalIds,
         Seen(d, c, ls), Beside(d, e, {l}), SeenBy(e, l, c)
  PROVE  Seen(e, c, ls \cup {l})
BY DEF Seen, Beside, SeenBy

-----------------------------------------------------------------------------
(* The last page's transaction. *)

Known(d, s, sn) == live_set(sn.fold, retraction_high_water(d), s.resource)

(* The live records the sweep neither saw nor exempts. *)
Gone(d, s, sn) ==
  {l \in Known(d, s, sn) \ (s.observed \cup s.exempt) :
     within_history(fold_head(sn.fold[l]).obs.at, s.historyStart)}

(* The sweep as a whole is exempt: the vantage moved, or it saw nothing. *)
Exempt(d, c, s, sn) == vantage_moved(d, s) \/ emptied(Known(d, s, sn), c, s)

Note(s, kind) == [resource |-> s.resource, kind |-> kind, crawl |-> s.crawl]

(* What deriving retractions does in each of its cases. *)
LEMMA DeriveOutcome ==
  ASSUME NEW d \in Databases, NEW c \in Conns, NEW s \in Sweeps, NEW sn \in Snaps
  PROVE  LET e == derive_retractions(d, c, s, sn)
         IN  /\ \A x \in e.discrepancy \ d.discrepancy : x.crawl = s.crawl
             /\ vantage_moved(d, s) => Note(s, "vantage_changed") \in e.discrepancy
             /\ ~ vantage_moved(d, s) /\ emptied(Known(d, s, sn), c, s)
                  => Note(s, "empty_sweep") \in e.discrepancy
             /\ Exempt(d, c, s, sn) => e.retraction = d.retraction
             /\ ~ Exempt(d, c, s, sn) =>
                  /\ \A t \in e.retraction \ d.retraction : t.local \in Gone(d, s, sn)
                  /\ \A l \in Gone(d, s, sn) :
                       <<l, Len(sn.fold[l])>> \in retraction_high_water(e)
<1> DEFINE live   == live_set(sn.fold, retraction_high_water(d), s.resource)
           absent == live \ (s.observed \cup s.exempt)
           gone   == {l \in absent :
                        within_history(fold_head(sn.fold[l]).obs.at, s.historyStart)}
           why    == [l \in gone |->
                        retraction_reason(sn.meta[l], c.derivation, s.fingerprint)]
           kinds  == ({why[l] : l \in gone} \ {"absent_from_complete_sweep"})
                       \cup (IF gone # absent THEN {"history_start_exempt"} ELSE {})
           noted(k) == append_discrepancies(d, s.resource, k, s.crawl)
           rows == {[local |-> l, revision |-> highest_revision(sn.fold[l]),
                     reason |-> why[l], crawl |-> s.crawl] : l \in gone}
           notes(k) == {[resource |-> s.resource, kind |-> x, crawl |-> s.crawl] : x \in k}
<1>1. /\ live = Known(d, s, sn) /\ gone = Gone(d, s, sn)
      /\ Exempt(d, c, s, sn) <=> vantage_moved(d, s) \/ emptied(live, c, s)
  BY DEF Known, Gone, Exempt
<1>2. \A k : /\ noted(k).retraction = d.retraction
             /\ noted(k).discrepancy = d.discrepancy \cup notes(k)
             /\ [noted(k) EXCEPT !.retraction = @ \cup rows].retraction = d.retraction \cup rows
             /\ [noted(k) EXCEPT !.retraction = @ \cup rows].discrepancy = noted(k).discrepancy
  BY DEF append_discrepancies, Databases
<1>3. \A k : \A x \in notes(k) : x.crawl = s.crawl
  OBVIOUS
<1>4. /\ \A t \in rows : t.local \in gone
      /\ \A l \in gone : \E t \in rows : t.local = l /\ t.revision = Len(sn.fold[l])
  <2> DEFINE row(l) == [local |-> l, revision |-> highest_revision(sn.fold[l]),
                        reason |-> why[l], crawl |-> s.crawl]
  <2> HIDE DEF gone, why
  <2>1. \A l : row(l).local = l /\ row(l).revision = Len(sn.fold[l])
    BY DEF highest_revision
  <2>2. rows = {row(l) : l \in gone}
    OBVIOUS
  <2> HIDE DEF rows, row
  <2> QED BY <2>1, <2>2
<1>5. /\ Note(s, "vantage_changed") \in notes({"vantage_changed"})
      /\ Note(s, "empty_sweep") \in notes({"empty_sweep"})
  BY DEF Note
<1>6. append_retractions(noted(kinds), gone, sn.fold, why, s.crawl)
        = [noted(kinds) EXCEPT !.retraction = @ \cup rows]
  BY DEF append_retractions
<1>7. derive_retractions(d, c, s, sn) =
        IF vantage_moved(d, s) THEN noted({"vantage_changed"})
        ELSE IF emptied(live, c, s) THEN noted({"empty_sweep"})
        ELSE append_retractions(noted(kinds), gone, sn.fold, why, s.crawl)
  BY DEF derive_retractions
<1> DEFINE e == derive_retractions(d, c, s, sn)
<1> HIDE DEF live, kinds, gone, rows, noted, why, notes, e
<1>8. CASE vantage_moved(d, s)
  <2>1. e.retraction = d.retraction /\ e.discrepancy = d.discrepancy \cup notes({"vantage_changed"})
    BY <1>2, <1>7, <1>8 DEF e
  <2> QED BY <1>1, <1>3, <1>5, <1>8, <2>1 DEF e
<1>9. CASE ~ vantage_moved(d, s) /\ emptied(live, c, s)
  <2>1. e.retraction = d.retraction /\ e.discrepancy = d.discrepancy \cup notes({"empty_sweep"})
    BY <1>2, <1>7, <1>9 DEF e
  <2> QED BY <1>1, <1>3, <1>5, <1>9, <2>1 DEF e
<1>10. CASE ~ vantage_moved(d, s) /\ ~ emptied(live, c, s)
  <2>1. e.retraction = d.retraction \cup rows /\ e.discrepancy = d.discrepancy \cup notes(kinds)
    BY <1>2, <1>6, <1>7, <1>10 DEF e
  <2>2. \A l \in gone : <<l, Len(sn.fold[l])>> \in retraction_high_water(e)
    BY <1>4, <2>1 DEF retraction_high_water
  <2> QED BY <1>1, <1>3, <1>4, <1>10, <2>1, <2>2 DEF e
<1> QED BY <1>8, <1>9, <1>10

(* The resource's definition is the sweep's; its vantage moves only with a sweep
   nothing disqualified. *)
LEMMA SettleResource ==
  ASSUME NEW d \in Databases, NEW c \in Conns, NEW s \in Sweeps, NEW sn \in Snaps,
         NEW reason \in Disqualifications \cup {None}
  PROVE  LET e == settle(d, c, s, sn, reason)
         IN  /\ \A r \in Resources \ {s.resource} : e.resource[r] = d.resource[r]
             /\ e.resource[s.resource].vantage =
                  IF reason = None THEN s.vantage ELSE d.resource[s.resource].vantage
<1> DEFINE n == IF reason = None THEN derive_retractions(d, c, s, sn) ELSE d
           m == set_adapter_derivation(n, c.derivation)
           v == IF reason = None THEN s.vantage ELSE None
           q == set_resource_definition(m, s.resource, s.fingerprint, v)
<1>1. n \in Databases /\ n.resource = d.resource
  <2>1. derive_retractions(d, c, s, sn).resource = d.resource
    BY DEF Databases, derive_retractions, append_retractions, append_discrepancies
  <2> QED BY <2>1, DeriveType
<1> HIDE DEF n
<1>2. m \in Databases /\ m.resource = n.resource
  <2>1. c.derivation \in Derivations
    BY DEF Conns
  <2> QED BY <1>1, <2>1, Tables DEF set_adapter_derivation, Databases
<1>3. /\ s.resource \in Resources /\ s.fingerprint \in Fingerprints
      /\ s.vantage \in Vantages /\ v \in Vantages \cup {None}
  BY DEF Sweeps
<1> HIDE DEF m
<1>4. /\ \A r \in Resources \ {s.resource} : q.resource[r] = m.resource[r]
      /\ q.resource[s.resource].vantage =
           IF v = None THEN m.resource[s.resource].vantage ELSE v
  <2>1. m.resource \in [Resources -> ResourceRows]
    BY <1>2, Tables
  <2>2. q.resource = [m.resource EXCEPT ![s.resource] =
          [fingerprint |-> s.fingerprint,
           vantage |-> IF v = None THEN @.vantage ELSE v]]
    <3> HIDE DEF v
    <3> QED BY <1>2 DEF set_resource_definition, Databases
  <2> HIDE DEF v, q
  <2> QED BY <1>3, <2>1, <2>2
<1>5. q \in Databases
  <2> HIDE DEF v
  <2> QED BY <1>2, <1>3, DefinitionType
<1>6. settle(d, c, s, sn, reason)
        = finish_crawl(q, s.crawl, s.page = "drained", reason = None, reason)
  BY DEF settle, n, m, v, q
<1>7. s.vantage # None
  BY <1>3, SentinelAssumption
<1>8. v = IF reason = None THEN s.vantage ELSE None
  OBVIOUS
<1> HIDE DEF q, v
<1>9. settle(d, c, s, sn, reason).resource = q.resource
  BY <1>5, <1>6 DEF finish_crawl, Databases
<1> QED BY <1>1, <1>2, <1>4, <1>7, <1>8, <1>9

(* What it notes is noted of a crawl that has drained. *)
LEMMA SettleNoted ==
  ASSUME NEW d \in Databases, NEW c \in Conns, NEW s \in Sweeps, NEW sn \in Snaps,
         NEW reason \in Disqualifications \cup {None},
         Sound(d), Noted(d), Open(d, s.crawl),
         reason = None => s.page = "drained"
  PROVE  LET e == settle(d, c, s, sn, reason)
         IN  /\ Noted(e) /\ ButLast(d, [e EXCEPT !.retraction = d.retraction], s.crawl)
             /\ e.crawl[s.crawl].complete => reason = None
<1> DEFINE e == settle(d, c, s, sn, reason)
           drained == s.page = "drained"
           complete == reason = None
           m == finish_crawl(d, s.crawl, drained, complete, reason)
<1>1. s.crawl \in Nat /\ e \in Databases /\ e.chain = d.chain
  BY SettleType, SettleKeeps DEF Sweeps
<1>2. drained \in BOOLEAN /\ complete \in BOOLEAN
  OBVIOUS
<1>3. e.crawl = m.crawl
  BY SettleCrawl
<1>4. (complete <=> reason = None) /\ (drained <=> s.page = "drained")
  OBVIOUS
<1> HIDE DEF drained, complete
<1>5. m \in Databases /\ m.chain = d.chain /\ m.discrepancy = d.discrepancy
  BY <1>1, <1>2, FinishCrawlType DEF finish_crawl, Databases
<1>6. /\ ButLast(d, m, s.crawl)
      /\ m.crawl[s.crawl].derivation = d.crawl[s.crawl].derivation
      /\ m.crawl[s.crawl].fingerprint = d.crawl[s.crawl].fingerprint
  BY <1>1, <1>2, FinishSound
<1>7. m.crawl[s.crawl].drained = drained /\ m.crawl[s.crawl].complete = complete
  BY <1>1, <1>2, FinishSound
<1> HIDE DEF m
<1>8. RulesOfCrawl(m) /\ NotedByDrained(m)
  BY <1>5, <1>6, LastNoted DEF Noted
<1>9. RulesOfCrawl(e)
  BY <1>1, <1>3, <1>5, <1>8 DEF RulesOfCrawl
<1>10. NotedByDrained(e)
  <2> SUFFICES ASSUME NEW x \in e.discrepancy
               PROVE  x.crawl \in 1..Len(m.crawl) /\ m.crawl[x.crawl].drained
    BY <1>3 DEF NotedByDrained
  <2>1. CASE x \in d.discrepancy
    BY <1>5, <1>8, <2>1 DEF NotedByDrained
  <2>2. CASE x \notin d.discrepancy
    <3>1. reason = None /\ x.crawl = s.crawl
      BY <2>2, SettleTables, DeriveOutcome
    <3>2. s.crawl \in 1..Len(m.crawl)
      BY <1>6, CrawlAt DEF ButLast, Open
    <3> QED BY <1>4, <1>7, <3>1, <3>2
  <2> QED BY <2>1, <2>2
<1>11. ButLast(d, [e EXCEPT !.retraction = d.retraction], s.crawl)
  <2>1. LET f == [e EXCEPT !.retraction = d.retraction]
        IN  f.crawl = e.crawl /\ f.chain = e.chain /\ f.retraction = d.retraction
    BY <1>1 DEF Databases
  <2> HIDE DEF e
  <2> QED BY <1>1, <1>3, <1>6, <2>1 DEF ButLast
<1>12. e.crawl[s.crawl].complete => reason = None
  BY <1>3, <1>4, <1>7
<1> QED BY <1>9, <1>10, <1>11, <1>12 DEF Noted, e

-----------------------------------------------------------------------------
(***************************************************************************)
(* The inductive invariant.  A sweep at work has written its rules on what  *)
(* it saw and touched nothing else; a sweep about to commit is the          *)
(* settlement of such a transaction, by the verdict that still stands.      *)
(***************************************************************************)
RulesAtWork(d, s, dv) ==
  /\ d.crawl[s.crawl].derivation = dv
  /\ d.crawl[s.crawl].fingerprint = s.fingerprint
  /\ Seen(d, s.crawl, s.observed)

Judged(d0, e, c, s, sn, verdict) ==
  \E d \in Databases :
    /\ e = settle(d, c, s, sn, disqualifier(c, s, verdict))
    /\ Beside(d0, d, s.observed)
    /\ sn.fold = Replay(d)
    /\ Sound(d) /\ Noted(d) /\ AtWork(d, s) /\ RulesAtWork(d, s, c.derivation)

HostSettle(h) ==
  /\ pc[h] \in {"reading", "ingesting"} =>
       RulesAtWork(View(h), sweep[h], conn[h].derivation)
  /\ pc[h] = "ingesting" => Noted(txn[h]) /\ Beside(db, txn[h], sweep[h].observed)
  /\ pc[h] = "committing" =>
       /\ Noted(txn[h])
       /\ Judged(db, txn[h], conn[h], sweep[h], snap[h], violated[h])

SettleInv == Noted(db) /\ \A h \in Hosts : HostSettle(h)

(* The invariants a step may rest on. *)
Before == TypeOK /\ SweepInv /\ CrawlInv /\ SettleInv

(* A step of the host at work need be looked at for that host alone. *)
LEMMA WriterSettle ==
  ASSUME TypeOK, SweepInv, NEW h \in Hosts, pc[h] # "idle",
         \A k \in Hosts \ {h} : pc'[k] = pc[k], Noted(db)', HostSettle(h)'
  PROVE  SettleInv'
<1>1. \A k \in Hosts \ {h} : pc'[k] = "idle"
  BY OthersIdle DEF SweepInv
<1>2. \A k \in Hosts \ {h} : HostSettle(k)'
  BY <1>1 DEF HostSettle
<1> QED BY <1>2 DEF SettleInv

(* An empty store has no row and no discrepancy. *)
LEMMA InitSettle == Init => SettleInv
<1> SUFFICES ASSUME Init PROVE SettleInv
  OBVIOUS
<1>1. db.discrepancy = {} /\ \A l \in LocalIds : db.chain[l] = << >>
  BY DEF Init, EmptyDatabase
<1>2. Noted(db)
  BY <1>1 DEF Noted, RulesOfCrawl, NotedByDrained
<1>3. \A h \in Hosts : HostSettle(h)
  BY DEF Init, HostSettle
<1> QED BY <1>2, <1>3 DEF SettleInv

(* Taking the lock. *)
LEMMA ConnectSettle ==
  ASSUME Before, NEW h \in Hosts, Connect(h) PROVE SettleInv'
<1>1. \A k \in Hosts : pc[k] = "idle"
  BY BoundsAssumption DEF Before, SweepInv, WriterHoldsLock, Connect, LockFree
<1>2. pc' = [pc EXCEPT ![h] = "connected"] /\ db' = db
  BY DEF Connect
<1>3. \A k \in Hosts : pc'[k] \in {"connected", "idle"}
  BY <1>1, <1>2 DEF Before, TypeOK
<1>4. \A k \in Hosts : HostSettle(k)'
  BY <1>3 DEF HostSettle
<1>5. Noted(db)'
  BY <1>2 DEF Before, SettleInv
<1> QED BY <1>4, <1>5 DEF SettleInv

(* Exit and death leave what is committed. *)
LEMMA ForgetSettle ==
  ASSUME Before, NEW h \in Hosts, pc[h] # "idle", Forget(h) PROVE SettleInv'
<1>1. pc'[h] = "idle" /\ db' = db /\ \A k \in Hosts \ {h} : pc'[k] = pc[k]
  BY DEF Forget, Before, TypeOK
<1>2. HostSettle(h)'
  BY <1>1 DEF HostSettle
<1>3. Noted(db)'
  BY <1>1 DEF Before, SettleInv
<1> QED BY <1>1, <1>2, <1>3, WriterSettle DEF Before

(* The reader thread publishes a violation, never between judgement and commit. *)
LEMMA PublishSettle ==
  ASSUME Before, NEW h \in Hosts, Publish(h) PROVE SettleInv'
<1>1. pc' = pc /\ db' = db /\ sweep' = sweep /\ txn' = txn /\ conn' = conn /\ snap' = snap
  BY DEF Publish
<1>2. \A k \in Hosts : pc[k] = "committing" => violated'[k] = violated[k]
  BY DEF Publish, Before, TypeOK
<1>3. Noted(db)'
  BY <1>1 DEF Before, SettleInv
<1>4. \A k \in Hosts : HostSettle(k)'
  BY <1>1, <1>2 DEF Before, SettleInv, HostSettle, InTxn, View
<1> QED BY <1>3, <1>4 DEF SettleInv

(* A sweep begins: it has seen nothing, by its own rules. *)
LEMMA StartSweepSettle ==
  ASSUME Before, TypeOK', NEW h \in Hosts, StartSweep(h) PROVE SettleInv'
<1>1. conn[h] \in Conns /\ db \in Databases /\ Sound(db) /\ Noted(db)
  BY DEF Before, TypeOK, StartSweep, CrawlInv, SettleInv
<1> DEFINE r == Head(conn[h].todo)
           dv == conn[h].derivation
<1>2. r \in Resources /\ dv \in Derivations
  BY <1>1 DEF StartSweep, Conns
<1>3. PICK fp \in Fingerprints, v \in Vantages, hs \in HistoryStarts :
        LET st == IF conn[h].options.resume THEN resume_point(db, r, dv, fp) ELSE None
        IN /\ db' = open_crawl(db, r, st, dv, fp)
           /\ sweep' = [sweep EXCEPT ![h] =
                [resource |-> r, crawl |-> Len(db.crawl) + 1, fingerprint |-> fp,
                 vantage |-> v, historyStart |-> hs, start |-> st, pageNo |-> 0,
                 faults |-> {}, resumable |-> "unread", exactNext |-> None,
                 observed |-> {}, exempt |-> {},
                 page |-> "more", received |-> None, room |-> 0]]
  BY DEF StartSweep
<1> DEFINE st == IF conn[h].options.resume THEN resume_point(db, r, dv, fp) ELSE None
<1>4. /\ db' = open_crawl(db, r, st, dv, fp)
      /\ sweep'[h].crawl = Len(db.crawl) + 1
      /\ sweep'[h].fingerprint = fp /\ sweep'[h].observed = {}
  BY <1>3 DEF Before, TypeOK
<1>5. conn'[h].derivation = dv
  BY <1>1 DEF StartSweep, Before, TypeOK, Conns
<1> HIDE DEF r, dv
<1>6. st \in Cursors \cup {None}
  BY <1>1, <1>2, ResumePointType
<1>7. st # None => \E b \in 1..Len(db.crawl) :
                     /\ ~ db.crawl[b].drained /\ db.crawl[b].resource = r
                     /\ db.crawl[b].derivation = dv /\ db.crawl[b].fingerprint = fp
  BY <1>1, <1>2, ResumePointContinues
<1> HIDE DEF st
<1>8. /\ db'.chain = db.chain
      /\ Len(db'.crawl) = Len(db.crawl) + 1
      /\ db'.crawl[Len(db'.crawl)].derivation = dv
      /\ db'.crawl[Len(db'.crawl)].fingerprint = fp
      /\ \A c \in 1..Len(db.crawl) : SameCrawl(db'.crawl[c], db.crawl[c])
  BY <1>1, <1>2, <1>4, <1>6, <1>7, OpenSound
<1>9. db'.discrepancy = db.discrepancy /\ db' \in Databases
  BY <1>1, <1>4 DEF open_crawl, Databases, TypeOK
<1>10. Noted(db')
  BY <1>1, <1>8, <1>9, OpenNoted
<1>11. pc[h] # "idle" /\ pc'[h] = "reading" /\ \A k \in Hosts \ {h} : pc'[k] = pc[k]
  BY DEF StartSweep, Before, TypeOK
<1>12. RulesAtWork(db', sweep'[h], conn'[h].derivation)
  BY <1>4, <1>5, <1>8 DEF RulesAtWork, Seen
<1>13. HostSettle(h)'
  BY <1>11, <1>12 DEF HostSettle, InTxn, View
<1>14. Noted(db)'
  BY <1>10
<1> QED BY <1>11, <1>13, <1>14, WriterSettle DEF Before

(* A sweep that fails. *)
LEMMA FailSettle ==
  ASSUME Before, TypeOK', NEW h \in Hosts, ReadFails(h) \/ PageLimit(h) PROVE SettleInv'
<1>1. /\ db \in Databases /\ db' \in Databases /\ Sound(db) /\ Noted(db)
      /\ pc[h] = "reading" /\ sweep[h] \in Sweeps
  BY DEF Before, TypeOK, CrawlInv, SettleInv, ReadFails, PageLimit, Sweeping
<1>2. PICK z \in Disqualifications : db' = finish_crawl(db, sweep[h].crawl, FALSE, FALSE, z)
  BY DEF ReadFails, PageLimit, Disqualifications
<1>3. Open(db, sweep[h].crawl) /\ sweep[h].crawl \in Nat
  BY <1>1 DEF Before, CrawlInv, HostCrawl, AtWork, View, InTxn, Sweeps
<1>4. /\ ButLast(db, db', sweep[h].crawl)
      /\ db'.crawl[sweep[h].crawl].derivation = db.crawl[sweep[h].crawl].derivation
      /\ db'.crawl[sweep[h].crawl].fingerprint = db.crawl[sweep[h].crawl].fingerprint
  <2> DEFINE c  == sweep[h].crawl
             no == FALSE
             e  == finish_crawl(db, c, no, no, z)
  <2>1. c \in Nat /\ Open(db, c) /\ db' = e /\ no \in BOOLEAN
    BY <1>2, <1>3
  <2> HIDE DEF c, no
  <2>2. /\ ButLast(db, e, c)
        /\ e.crawl[c].derivation = db.crawl[c].derivation
        /\ e.crawl[c].fingerprint = db.crawl[c].fingerprint
    BY <1>1, <2>1, FinishSound
  <2> HIDE DEF e
  <2>3. /\ ButLast(db, db', c)
        /\ db'.crawl[c].derivation = db.crawl[c].derivation
        /\ db'.crawl[c].fingerprint = db.crawl[c].fingerprint
    BY <2>1, <2>2
  <2> QED BY <2>3 DEF c
<1>5. db'.discrepancy = db.discrepancy
  BY <1>1, <1>2 DEF finish_crawl, Databases
<1>6. Noted(db')
  BY <1>1, <1>3, <1>4, <1>5, LastNoted
<1>7. pc[h] # "idle" /\ pc'[h] = "connected" /\ \A k \in Hosts \ {h} : pc'[k] = pc[k]
  BY DEF ReadFails, PageLimit, EndSweep, Before, TypeOK
<1>8. HostSettle(h)'
  BY <1>7 DEF HostSettle
<1>9. Noted(db)'
  BY <1>6
<1> QED BY <1>7, <1>8, <1>9, WriterSettle DEF Before

(* A page's transaction opens on what is committed. *)
LEMMA PageArrivesSettle ==
  ASSUME Before, TypeOK', NEW h \in Hosts, PageArrives(h) PROVE SettleInv'
<1>1. /\ pc[h] = "reading" /\ pc'[h] = "ingesting" /\ txn'[h] = db /\ db' = db /\ conn' = conn
      /\ \A k \in Hosts \ {h} : pc'[k] = pc[k]
  BY DEF PageArrives, Before, TypeOK
<1>2. SameSweep(sweep'[h], sweep[h])
  BY PageArrivesSweep DEF Before, TypeOK, SameSweep
<1>3. RulesAtWork(db, sweep[h], conn[h].derivation) /\ Noted(db)
  BY <1>1 DEF Before, SettleInv, HostSettle, View, InTxn
<1>4. RulesAtWork(db, sweep'[h], conn[h].derivation)
  BY <1>2, <1>3 DEF RulesAtWork, SameSweep
<1>5. HostSettle(h)'
  <2>1. RulesAtWork(View(h), sweep[h], conn[h].derivation)'
    BY <1>1, <1>4 DEF View, InTxn
  <2>2. Noted(txn[h])' /\ Beside(db, txn[h], sweep[h].observed)'
    BY <1>1, <1>3 DEF Beside
  <2> QED BY <1>1, <2>1, <2>2 DEF HostSettle
<1>6. Noted(db)'
  BY <1>1, <1>3
<1> QED BY <1>1, <1>5, <1>6, WriterSettle DEF Before

(* One observation: its row carries the open crawl and its rules. *)
LEMMA IngestSettle ==
  ASSUME Before, TypeOK', NEW h \in Hosts, NEW l \in LocalIds, NEW o \in Reportable,
         Ingest(h, l, o)
  PROVE  SettleInv'
<1> DEFINE s   == sweep[h]
           q   == sweep'[h]
           d   == txn[h]
           e   == txn'[h]
           f   == snap[h].fold
           dv  == conn[h].derivation
           rev == highest_revision(f[l]) + 1
           fp  == s.fingerprint
           c   == s.crawl
<1>1. /\ pc[h] = "ingesting" /\ pc' = pc /\ db' = db /\ conn' = conn
      /\ Sweeping(h) /\ InTxn(h)
  BY DEF Ingest, Sweeping, InTxn
<1>2. d \in Databases /\ e \in Databases /\ s \in Sweeps
  BY <1>1 DEF Before, TypeOK, Sweeping, InTxn
<1>3. SameSweep(q, [s EXCEPT !.observed = s.observed \cup {l}])
  <2>1. sweep' = [sweep EXCEPT ![h].observed = @ \cup {l}, ![h].room = @ - 1]
    BY DEF Ingest
  <2>2. sweep \in [Hosts -> Sweeps \cup {None}]
    BY DEF Before, TypeOK
  <2> QED BY <1>2, <2>1, <2>2 DEF Sweeps, SameSweep
<1>4. q.crawl = c /\ q.fingerprint = fp /\ q.observed = s.observed \cup {l}
  BY <1>2, <1>3 DEF SameSweep, Sweeps
<1>5. /\ Sound(d) /\ AtWork(d, s) /\ RevisionsOf(d) /\ f = Replay(d)
  BY <1>1 DEF Before, CrawlInv, HostCrawl, SweepInv, HostInv, Current, View
<1>6. /\ Noted(d) /\ Beside(db, d, s.observed)
      /\ d.crawl[c].derivation = dv /\ d.crawl[c].fingerprint = fp
      /\ Seen(d, c, s.observed)
  BY <1>1 DEF Before, SettleInv, HostSettle, RulesAtWork, View
<1>7. Open(d, c) /\ RowsHaveCrawls(d) /\ s.observed \subseteq LocalIds
  BY <1>2, <1>5 DEF AtWork, Sound, ChainsSound, Sweeps
<1>8. Noted(e) /\ Beside(d, e, {l}) /\ SeenBy(e, l, c)
  <2>1. CASE already_known(snap[h], l, o)
    <3> DEFINE head == head_revision(f[l])
    <3>1. e = stamp_seen(d, l, head, c, dv, fp)
      BY <2>1 DEF Ingest, Before, TypeOK
    <3>2. f[l] # << >>
      BY <2>1 DEF already_known
    <3>3. f[l] \in Seq(FoldEntries) /\ Len(f[l]) = Len(d.chain[l])
      BY <1>2, <1>5, ReplayType, ReplayLengths
    <3>4. head \in 1..Len(d.chain[l])
      <4> HIDE DEF f, d
      <4> QED BY <3>2, <3>3, HeadExists
    <3> HIDE DEF head, c, fp, dv, d, e
    <3> QED BY <1>2, <1>5, <1>6, <1>7, <3>1, <3>4, StampNoted
  <2>2. CASE ~ already_known(snap[h], l, o)
    <3> DEFINE at == s.received
    <3>1. e = append_observation(d, l, rev, o, at, c, dv, fp)
      BY <2>2 DEF Ingest, Before, TypeOK
    <3> HIDE DEF rev, at, c, fp, dv, d, e
    <3> QED BY <1>2, <1>6, <1>7, <3>1, AppendNoted
  <2> QED BY <2>1, <2>2
<1> HIDE DEF d, e, q, s, dv, fp, c
<1>9. Seen(e, c, q.observed)
  BY <1>4, <1>6, <1>7, <1>8, SeenOneMore
<1>10. Beside(db, e, q.observed)
  BY <1>4, <1>6, <1>8 DEF Beside
<1>11. RulesAtWork(e, q, dv)
  BY <1>4, <1>6, <1>8, <1>9 DEF RulesAtWork, Beside
<1>12. HostSettle(h)'
  <2>1. RulesAtWork(View(h), sweep[h], conn[h].derivation)'
    BY <1>1, <1>11 DEF View, InTxn, e, q, dv
  <2>2. Noted(txn[h])' /\ Beside(db, txn[h], sweep[h].observed)'
    BY <1>1, <1>8, <1>10 DEF e, q
  <2> QED BY <1>1, <2>1, <2>2 DEF HostSettle
<1>13. Noted(db)'
  BY <1>1 DEF Before, SettleInv
<1> QED BY <1>1, <1>12, <1>13, WriterSettle DEF Before

(* A page commits what its transaction holds, with a cursor. *)
LEMMA CommitPageSettle ==
  ASSUME Before, TypeOK', NEW h \in Hosts, CommitPage(h)
  PROVE  SettleInv' /\ db'.resource = db.resource
<1> DEFINE s  == sweep[h]
           q  == sweep'[h]
           d  == txn[h]
           c  == s.crawl
           n  == next_request(s)
           dv == conn[h].derivation
<1>1. /\ pc[h] = "ingesting" /\ pc'[h] = "reading" /\ Sweeping(h) /\ InTxn(h)
      /\ conn' = conn /\ \A k \in Hosts \ {h} : pc'[k] = pc[k]
  BY DEF CommitPage, Sweeping, InTxn, Before, TypeOK
<1>2. d \in Databases /\ s \in Sweeps /\ db' \in Databases
  BY <1>1 DEF Before, TypeOK
<1>3. n \in Cursors \cup {None} /\ c \in Nat
  BY <1>2 DEF next_request, Sweeps
<1>4. db' = set_crawl_cursor(d, c, n)
  BY DEF CommitPage
<1>5. SameSweep(q, s)
  BY <1>2 DEF CommitPage, Before, TypeOK, Sweeps, SameSweep
<1>6. Sound(d) /\ Open(d, c)
  BY <1>1 DEF Before, CrawlInv, HostCrawl, View, AtWork
<1>7. /\ Noted(d) /\ Beside(db, d, s.observed)
      /\ d.crawl[c].derivation = dv /\ d.crawl[c].fingerprint = s.fingerprint
      /\ Seen(d, c, s.observed)
  BY <1>1 DEF Before, SettleInv, HostSettle, RulesAtWork, View
<1>8. q.crawl = c /\ q.fingerprint = s.fingerprint /\ q.observed = s.observed
  BY <1>5 DEF SameSweep
<1> HIDE DEF d, n, q, c, s, dv
<1>9. /\ ButLast(d, db', c)
      /\ db'.crawl[c].derivation = d.crawl[c].derivation
      /\ db'.crawl[c].fingerprint = d.crawl[c].fingerprint
  <2> DEFINE e == set_crawl_cursor(d, c, n)
  <2>1. /\ ButLast(d, e, c)
        /\ e.crawl[c].derivation = d.crawl[c].derivation
        /\ e.crawl[c].fingerprint = d.crawl[c].fingerprint
    BY <1>2, <1>3, <1>6, CursorSound
  <2> HIDE DEF e
  <2>2. db' = e
    BY <1>4 DEF e
  <2> QED BY <2>1, <2>2
<1>10. db'.discrepancy = d.discrepancy /\ db'.resource = d.resource /\ db'.chain = d.chain
  BY <1>2, <1>4 DEF set_crawl_cursor, Databases
<1>11. Noted(db')
  BY <1>2, <1>6, <1>7, <1>9, <1>10, LastNoted
<1>12. RulesAtWork(db', q, dv)
  BY <1>7, <1>8, <1>9, <1>10 DEF RulesAtWork, Seen, SeenBy
<1>13. HostSettle(h)'
  BY <1>1, <1>12 DEF HostSettle, View, InTxn, q, dv
<1>14. Noted(db)'
  BY <1>11
<1>15. db'.resource = db.resource
  BY <1>7, <1>10 DEF Beside
<1> QED BY <1>1, <1>13, <1>14, <1>15, WriterSettle DEF Before

(* The judgement settles what the transaction holds. *)
LEMMA JudgeSweepSettle ==
  ASSUME Before, TypeOK', NEW h \in Hosts, JudgeSweep(h) PROVE SettleInv'
<1> DEFINE reason == disqualifier(conn[h], sweep[h], violated[h])
           c  == conn[h]
           s  == sweep[h]
           sn == snap[h]
           d  == txn[h]
           e  == txn'[h]
<1>1. /\ pc[h] = "ingesting" /\ pc'[h] = "committing" /\ db' = db
      /\ conn' = conn /\ sweep' = sweep /\ snap' = snap /\ violated' = violated
      /\ Sweeping(h) /\ InTxn(h) /\ \A k \in Hosts \ {h} : pc'[k] = pc[k]
  BY DEF JudgeSweep, Sweeping, InTxn, Before, TypeOK
<1>2. d \in Databases /\ s \in Sweeps /\ sn \in Snaps /\ c \in Conns
  BY <1>1 DEF Before, SweepInv, HostInv, TypeOK, Sweeping, InTxn
<1>3. sn.fold = Replay(d) /\ Sound(d) /\ AtWork(d, s)
  BY <1>1 DEF Before, SweepInv, HostInv, CrawlInv, HostCrawl, Current, View
<1>4. Noted(d) /\ Beside(db, d, s.observed) /\ RulesAtWork(d, s, c.derivation)
  BY <1>1 DEF Before, SettleInv, HostSettle, View
<1>5. reason \in Disqualifications \cup {None}
  BY DEF disqualifier, Disqualifications
<1>6. reason = None => s.page = "drained"
  BY ReasonAssumption DEF disqualifier, Disqualifications
<1>7. e = settle(d, c, s, sn, reason)
  BY DEF JudgeSweep, Before, TypeOK
<1>8. Noted(e)
  <2> HIDE DEF reason, c, s, sn, d, e
  <2> QED BY <1>2, <1>3, <1>4, <1>5, <1>6, <1>7, SettleNoted DEF AtWork
<1>9. Judged(db, e, c, s, sn, violated[h])
  <2> HIDE DEF c, s, sn, d, e
  <2> QED BY <1>2, <1>3, <1>4, <1>7 DEF Judged, reason, c, s
<1>10. HostSettle(h)'
  BY <1>1, <1>8, <1>9 DEF HostSettle, e, c, s, sn
<1>11. Noted(db)'
  BY <1>1 DEF Before, SettleInv
<1> QED BY <1>1, <1>10, <1>11, WriterSettle DEF Before

(* The commit of the last page installs it. *)
LEMMA CommitSweepSettle ==
  ASSUME Before, TypeOK', NEW h \in Hosts, CommitSweep(h) PROVE SettleInv'
<1>1. /\ pc[h] = "committing" /\ pc'[h] = "connected" /\ db' = txn[h]
      /\ \A k \in Hosts \ {h} : pc'[k] = pc[k]
  BY DEF CommitSweep, EndSweep, Before, TypeOK
<1>2. Noted(db)'
  BY <1>1 DEF Before, SettleInv, HostSettle
<1>3. HostSettle(h)'
  BY <1>1 DEF HostSettle
<1> QED BY <1>1, <1>2, <1>3, WriterSettle DEF Before

(* Every step of every host, and of no host. *)
LEMMA StepSettle == Before /\ TypeOK' /\ [Next]_vars => SettleInv'
<1> SUFFICES ASSUME Before, TypeOK', [Next]_vars PROVE SettleInv'
  OBVIOUS
<1>1. ASSUME NEW h \in Hosts, Connect(h) PROVE SettleInv'
  BY <1>1, ConnectSettle
<1>2. ASSUME NEW h \in Hosts, Publish(h) PROVE SettleInv'
  BY <1>2, PublishSettle
<1>3. ASSUME NEW h \in Hosts, Crash(h) \/ Disconnect(h) PROVE SettleInv'
  BY <1>3, ForgetSettle DEF Crash, Disconnect
<1>4. ASSUME NEW h \in Hosts, StartSweep(h) PROVE SettleInv'
  BY <1>4, StartSweepSettle
<1>5. ASSUME NEW h \in Hosts, ReadFails(h) \/ PageLimit(h) PROVE SettleInv'
  BY <1>5, FailSettle
<1>6. ASSUME NEW h \in Hosts, PageArrives(h) PROVE SettleInv'
  BY <1>6, PageArrivesSettle
<1>7. ASSUME NEW h \in Hosts, NEW l \in LocalIds, NEW o \in Reportable, Ingest(h, l, o)
      PROVE  SettleInv'
  BY <1>7, IngestSettle
<1>8. ASSUME NEW h \in Hosts, CommitPage(h) PROVE SettleInv'
  BY <1>8, CommitPageSettle
<1>9. ASSUME NEW h \in Hosts, JudgeSweep(h) PROVE SettleInv'
  BY <1>9, JudgeSweepSettle
<1>10. ASSUME NEW h \in Hosts, CommitSweep(h) PROVE SettleInv'
  BY <1>10, CommitSweepSettle
<1>11. CASE UNCHANGED vars
  <2>1. /\ pc' = pc /\ db' = db /\ sweep' = sweep /\ txn' = txn /\ conn' = conn
        /\ snap' = snap /\ violated' = violated
    BY <1>11 DEF vars
  <2>2. Noted(db)'
    BY <2>1 DEF Before, SettleInv
  <2>3. \A k \in Hosts : HostSettle(k)'
    BY <2>1 DEF Before, SettleInv, HostSettle, InTxn, View
  <2> QED BY <2>2, <2>3 DEF SettleInv
<1> QED BY <1>1, <1>2, <1>3, <1>4, <1>5, <1>6, <1>7, <1>8, <1>9, <1>10, <1>11 DEF Next, HostStep

(* The invariant holds in every behaviour, whatever crashes and whoever writes. *)
THEOREM SettleInvariant == Spec => []Before
<1>1. Init => SettleInv
  BY InitSettle
<1>2. TypeOK /\ TypeOK' /\ SweepInv /\ CrawlInv /\ SettleInv /\ [Next]_vars => SettleInv'
  BY StepSettle DEF Before
<1>3. TypeOK /\ SweepInv /\ CrawlInv /\ SettleInv <=> Before
  BY DEF Before
<1> QED BY <1>1, <1>2, <1>3, CrawlInvariant, PTL DEF Spec

-----------------------------------------------------------------------------
(* What the invariant says of rules, exemptions and settled resources. *)

(* The rules of a chain are read off the one row stored under its head's revision. *)
LEMMA HeadMetaIsTheHeads ==
  ASSUME NEW d \in Databases, NEW l \in LocalIds, RevisionsOf(d), d.chain[l] # << >>
  PROVE  LET row == d.chain[l][head_revision(Replay(d)[l])]
         IN  head_meta(d)[l] = [derivation |-> row.derivation, fingerprint |-> row.fingerprint]
<1> DEFINE f == Replay(d)
           m == head_revision(f[l])
           Stored(k) == {i \in 1..Len(d.chain[k]) :
                           d.chain[k][i].revision = head_revision(f[k])}
           rules(i) == [derivation |-> d.chain[l][i].derivation,
                        fingerprint |-> d.chain[l][i].fingerprint]
<1>1. f[l] \in Seq(FoldEntries) /\ Len(f[l]) = Len(d.chain[l])
  BY ReplayType, ReplayLengths
<1>2. d.chain[l] \in Seq(Rows)
  BY Tables DEF Chains
<1>3. f[l] # << >>
  BY <1>1, <1>2
<1>4. m \in 1..Len(d.chain[l])
  <2> HIDE DEF f
  <2> QED BY <1>1, <1>3, HeadExists
<1>5. Stored(l) = {m}
  BY <1>4 DEF RevisionsOf
<1>6. head_meta(d)[l] = IF f[l] # << >> /\ Stored(l) # {}
                        THEN rules(CHOOSE i \in Stored(l) : TRUE)
                        ELSE None
  BY DEF head_meta
<1>7. head_meta(d)[l] = rules(m)
  <2> HIDE DEF f, m, Stored, rules
  <2>1. (CHOOSE i \in {m} : TRUE) = m
    OBVIOUS
  <2> QED BY <1>3, <1>5, <1>6, <2>1
<1> QED BY <1>7

(* Whatever order the rows arrived in, a record is judged by the rules of the
   row the fold calls its head, and a row carries those of its last sighting. *)
THEOREM RulesFollowTheHeads == Spec => []RulesAreTheHeads
<1>1. ASSUME Before PROVE RulesAreTheHeads
  <2>1. db \in Databases /\ RevisionsOf(db) /\ RulesOfCrawl(db)
    BY <1>1 DEF Before, TypeOK, SweepInv, SettleInv, Noted
  <2>2. \A l \in LocalIds : db.chain[l] # << >> =>
          LET row == db.chain[l][head_revision(Replay(db)[l])]
          IN  head_meta(db)[l] = [derivation |-> row.derivation,
                                  fingerprint |-> row.fingerprint]
    BY <2>1, HeadMetaIsTheHeads
  <2>3. ASSUME NEW l \in LocalIds, NEW i \in 1..Len(db.chain[l])
        PROVE  LET row == db.chain[l][i]
               IN  /\ row.lastSeen \in row.crawl..Len(db.crawl)
                   /\ row.derivation = db.crawl[row.lastSeen].derivation
                   /\ row.fingerprint = db.crawl[row.lastSeen].fingerprint
    BY <2>1, RowAt, CrawlAt DEF RulesOfCrawl
  <2> QED BY <2>2, <2>3 DEF RulesAreTheHeads
<1>2. Before => RulesAreTheHeads
  BY <1>1
<1> QED BY <1>2, SettleInvariant, PTL

(* The head of a known record has an instant, or none that can be placed. *)
LEMMA HeadInstant ==
  ASSUME NEW d \in Databases, NEW l \in LocalIds, Replay(d)[l] # << >>
  PROVE  HeadAt(d, l) \in Times \cup {Unorderable}
<1>1. Replay(d)[l] \in Seq(FoldEntries)
  BY ReplayType
<1>2. fold_head(Replay(d)[l]) \in FoldEntries
  BY <1>1, HeadExists
<1> QED BY <1>2 DEF HeadAt, FoldEntries, Observations

(* What is not provably within history may lie before it, and only that. *)
LEMMA HistoryOrBefore ==
  ASSUME NEW at \in Times \cup {Unorderable},
         NEW start \in Times \cup {Unorderable, None}
  PROVE  BeforeHistory(at, start) <=> ~ within_history(at, start)
<1>1. CASE start = None
  BY <1>1 DEF BeforeHistory, within_history
<1>2. CASE start # None /\ Unorderable \in {at, start}
  BY <1>2 DEF BeforeHistory, within_history
<1>3. CASE start # None /\ Unorderable \notin {at, start}
  <2>1. at \in Nat /\ start \in Nat
    BY <1>3, NumbersAssumption
  <2> QED BY <1>3, <2>1 DEF BeforeHistory, within_history
<1> QED BY <1>1, <1>2, <1>3

(* The outcome of a settlement, in terms of the rules the gate works by. *)
LEMMA SettleOutcome ==
  ASSUME NEW d \in Databases, NEW c \in Conns, NEW s \in Sweeps, NEW sn \in Snaps,
         NEW reason \in Disqualifications \cup {None}, sn.fold = Replay(d)
  PROVE  LET e == settle(d, c, s, sn, reason)
         IN  /\ reason # None => e.retraction = d.retraction
             /\ reason = None =>
                  /\ vantage_moved(d, s) => Note(s, "vantage_changed") \in e.discrepancy
                  /\ ~ vantage_moved(d, s) /\ emptied(Known(d, s, sn), c, s)
                       => Note(s, "empty_sweep") \in e.discrepancy
                  /\ Exempt(d, c, s, sn) => e.retraction = d.retraction
                  /\ ~ Exempt(d, c, s, sn) =>
                       /\ \A t \in e.retraction \ d.retraction : t.local \in Gone(d, s, sn)
                       /\ \A l \in Gone(d, s, sn) :
                            <<l, Len(Replay(d)[l])>> \in retraction_high_water(e)
<1> DEFINE e == settle(d, c, s, sn, reason)
           n == derive_retractions(d, c, s, sn)
<1>1. reason # None => e.retraction = d.retraction
  BY SettleKeeps
<1>2. reason = None => e.retraction = n.retraction /\ e.discrepancy = n.discrepancy
  BY SettleTables
<1>3. reason = None => retraction_high_water(e) = retraction_high_water(n)
  <2> HIDE DEF e, n
  <2> QED BY <1>2 DEF retraction_high_water
<1>4. /\ vantage_moved(d, s) => Note(s, "vantage_changed") \in n.discrepancy
      /\ ~ vantage_moved(d, s) /\ emptied(Known(d, s, sn), c, s)
           => Note(s, "empty_sweep") \in n.discrepancy
      /\ Exempt(d, c, s, sn) => n.retraction = d.retraction
      /\ ~ Exempt(d, c, s, sn) =>
           /\ \A t \in n.retraction \ d.retraction : t.local \in Gone(d, s, sn)
           /\ \A l \in Gone(d, s, sn) : <<l, Len(sn.fold[l])>> \in retraction_high_water(n)
  BY DeriveOutcome
<1> HIDE DEF e, n
<1> QED BY <1>1, <1>2, <1>3, <1>4 DEF e

(* A live record the sweep knew of has a head within a chain that is not empty. *)
LEMMA GoneIsKnown ==
  ASSUME NEW d \in Databases, NEW s \in Sweeps, NEW sn \in Snaps, sn.fold = Replay(d),
         NEW l \in Gone(d, s, sn)
  PROVE  /\ l \in LocalIds /\ l \in Known(d, s, sn) /\ Replay(d)[l] # << >>
         /\ l \notin s.observed /\ l \notin s.exempt
         /\ ~ BeforeHistory(HeadAt(d, l), s.historyStart)
<1>1. l \in Known(d, s, sn) \ (s.observed \cup s.exempt)
  BY DEF Gone
<1>2. within_history(HeadAt(d, l), s.historyStart)
  BY DEF Gone, HeadAt
<1>3. l \in LocalIds /\ Replay(d)[l] # << >>
  BY <1>1 DEF Known, live_set
<1>4. s.historyStart \in Times \cup {Unorderable, None}
  BY DEF Sweeps
<1> QED BY <1>1, <1>2, <1>3, <1>4, HeadInstant, HistoryOrBefore

(* A record whose chain is what it was has the head it had. *)
LEMMA HeadsOutsideSurvive ==
  ASSUME NEW d, NEW e, NEW l \in LocalIds, e.chain[l] = d.chain[l]
  PROVE  HeadAt(e, l) = HeadAt(d, l)
<1>1. Replay(e)[l] = Replay(d)[l]
  BY DEF Replay
<1> QED BY <1>1 DEF HeadAt

(* What a settlement from d0 to e spares: the records the sweep s exempts, has seen or
   reads too little history for, and all of them when the vantage moves. *)
Spares(d0, e, c, s) ==
  /\ \A t \in e.retraction \ d0.retraction :
       /\ t.local \notin s.exempt
       /\ ~ SeenBy(e, t.local, t.crawl)
       /\ ~ BeforeHistory(HeadAt(d0, t.local), s.historyStart)
       /\ c.options.confirmEmpty \/ \E l \in LocalIds : SeenBy(e, l, t.crawl)
  /\ \A r \in Resources : d0.resource[r].vantage \notin {None, e.resource[r].vantage} =>
       /\ e.retraction = d0.retraction
       /\ \E x \in e.discrepancy \ d0.discrepancy :
            x.resource = r /\ x.kind = "vantage_changed"

(* What a settlement spares, of the database its page's transaction opened on. *)
LEMMA SettlementSpares ==
  ASSUME NEW d0 \in Databases, NEW d \in Databases, NEW e \in Databases, NEW c \in Conns,
         NEW s \in Sweeps, NEW sn \in Snaps, NEW reason \in Disqualifications \cup {None},
         e = settle(d, c, s, sn, reason), sn.fold = Replay(d), Unseen(e),
         AtWork(d, s), Noted(d), Beside(d0, d, s.observed), Seen(d, s.crawl, s.observed)
  PROVE  Spares(d0, e, c, s)
<1>1. /\ d.retraction = d0.retraction /\ d.resource = d0.resource
      /\ d.discrepancy = d0.discrepancy
      /\ \A l \in LocalIds \ s.observed : d.chain[l] = d0.chain[l]
  BY DEF Beside
<1>2. e.chain = d.chain
  BY SettleKeeps
<1>3. ASSUME NEW t \in e.retraction \ d0.retraction
      PROVE  /\ t.local \notin s.exempt
             /\ ~ SeenBy(e, t.local, t.crawl)
             /\ ~ BeforeHistory(HeadAt(d0, t.local), s.historyStart)
             /\ c.options.confirmEmpty \/ \E l \in LocalIds : SeenBy(e, l, t.crawl)
  <2>1. reason = None /\ ~ Exempt(d, c, s, sn) /\ t.local \in Gone(d, s, sn)
    BY <1>1, <1>3, SettleOutcome
  <2>2. /\ t.local \in LocalIds /\ t.local \in Known(d, s, sn)
        /\ t.local \notin s.observed /\ t.local \notin s.exempt
        /\ ~ BeforeHistory(HeadAt(d, t.local), s.historyStart)
    BY <2>1, GoneIsKnown
  <2>3. ~ SeenBy(e, t.local, t.crawl)
    BY <1>3 DEF Unseen, SeenBy
  <2>4. ~ BeforeHistory(HeadAt(d0, t.local), s.historyStart)
    BY <1>1, <2>2, HeadsOutsideSurvive
  <2>5. t.crawl = s.crawl
    BY <1>1, <1>3, SettleStays
  <2>6. ASSUME ~ c.options.confirmEmpty PROVE \E l \in LocalIds : SeenBy(e, l, t.crawl)
    <3>1. s.observed # {}
      BY <2>1, <2>2, <2>6 DEF Exempt, emptied
    <3>2. PICK l \in s.observed : TRUE
      BY <3>1
    <3>3. l \in LocalIds /\ SeenBy(d, l, s.crawl)
      BY <3>2 DEF Seen, Sweeps
    <3> QED BY <1>2, <2>5, <3>3 DEF SeenBy
  <2> QED BY <2>2, <2>3, <2>4, <2>6
<1>4. ASSUME NEW r \in Resources, d0.resource[r].vantage \notin {None, e.resource[r].vantage}
      PROVE  /\ e.retraction = d0.retraction
             /\ \E x \in e.discrepancy \ d0.discrepancy :
                  x.resource = r /\ x.kind = "vantage_changed"
  <2>1. /\ \A k \in Resources \ {s.resource} : e.resource[k] = d.resource[k]
        /\ e.resource[s.resource].vantage =
             IF reason = None THEN s.vantage ELSE d.resource[s.resource].vantage
    BY SettleResource
  <2>2. r = s.resource /\ reason = None /\ vantage_moved(d, s)
    BY <1>1, <1>4, <2>1 DEF vantage_moved
  <2>3. e.retraction = d.retraction /\ Note(s, "vantage_changed") \in e.discrepancy
    BY <2>2, SettleOutcome DEF Exempt
  <2>4. Note(s, "vantage_changed") \notin d.discrepancy
    BY DEF Note, Noted, NotedByDrained, AtWork, Open
  <2> QED BY <1>1, <2>2, <2>3, <2>4 DEF Note
<1> QED BY <1>3, <1>4 DEF Spares

(* What it leaves live, when no discrepancy exempts the sweep as a whole. *)
LEMMA SettlementLeaves ==
  ASSUME NEW d \in Databases, NEW e \in Databases, NEW c \in Conns,
         NEW s \in Sweeps, NEW sn \in Snaps,
         e = settle(d, c, s, sn, None), sn.fold = Replay(d),
         Seen(d, s.crawl, s.observed),
         ~ \E x \in e.discrepancy :
             x.crawl = s.crawl /\ x.kind \in {"vantage_changed", "empty_sweep"},
         NEW l \in live_records(e, s.resource)
  PROVE  \/ SeenBy(e, l, s.crawl)
         \/ l \in s.exempt
         \/ BeforeHistory(HeadAt(e, l), s.historyStart)
<1>1. e.chain = d.chain /\ Replay(e) = Replay(d)
  BY SettleKeeps, ReplayIsOfChains
<1>2. ~ Exempt(d, c, s, sn)
  <2>1. /\ Note(s, "vantage_changed") \notin e.discrepancy
        /\ Note(s, "empty_sweep") \notin e.discrepancy
    BY DEF Note
  <2> QED BY <2>1, SettleOutcome DEF Exempt
<1>3. /\ l \in LocalIds /\ Replay(d)[l] # << >>
      /\ fold_head(Replay(d)[l]).obs.state = "active"
      /\ fold_head(Replay(d)[l]).obs.resource = s.resource
      /\ ~ is_buried(retraction_high_water(e), l, Len(Replay(d)[l]))
  BY <1>1 DEF live_records, live_set, highest_revision
<1>4. retraction_high_water(d) \subseteq retraction_high_water(e)
  <2>1. d.retraction \subseteq e.retraction
    BY SettleStays DEF Stays
  <2> QED BY <2>1 DEF retraction_high_water
<1>5. l \in Known(d, s, sn)
  BY <1>3, <1>4 DEF Known, live_set, highest_revision, is_buried
<1>6. l \notin Gone(d, s, sn)
  <2> SUFFICES ASSUME l \in Gone(d, s, sn) PROVE FALSE
    OBVIOUS
  <2>1. <<l, Len(Replay(d)[l])>> \in retraction_high_water(e)
    BY <1>2, SettleOutcome
  <2>2. Len(Replay(d)[l]) \in Nat
    BY <1>3, ReplayLengths, ChainLengths
  <2> QED BY <1>3, <2>1, <2>2 DEF is_buried
<1>7. CASE l \in s.observed
  BY <1>1, <1>7 DEF Seen, SeenBy
<1>8. CASE l \notin s.observed /\ l \notin s.exempt
  <2>1. ~ within_history(HeadAt(d, l), s.historyStart)
    BY <1>5, <1>6, <1>8 DEF Gone, HeadAt
  <2>2. s.historyStart \in Times \cup {Unorderable, None}
    BY DEF Sweeps
  <2>3. BeforeHistory(HeadAt(d, l), s.historyStart)
    BY <1>3, <2>1, <2>2, HeadInstant, HistoryOrBefore
  <2> QED BY <1>1, <2>3 DEF HeadAt
<1> QED BY <1>7, <1>8

(* While a host is about to commit, no other step writes the store. *)
LEMMA CommitterAlone ==
  ASSUME Before, [Next]_vars, NEW h \in Hosts, pc[h] = "committing", db' # db
  PROVE  CommitSweep(h)
<1>1. \A k \in Hosts \ {h} : pc[k] = "idle"
  BY OthersIdle DEF Before, SweepInv
<1>2. PICK k \in Hosts : Connect(k) \/ Publish(k) \/ Crash(k) \/ HostStep(k)
  BY DEF Next, vars
<1> QED BY <1>1, <1>2 DEF Connect, Publish, Crash, Forget, HostStep, StartSweep, ReadFails,
       PageLimit, PageArrives, Ingest, CommitPage, JudgeSweep, CommitSweep, Disconnect, LockFree

(* Only the commit of a sweep retracts or touches a resource definition. *)
LEMMA OnlyTheCommitSettles ==
  ASSUME Before, TypeOK', [Next]_vars, \A h \in Hosts : ~ CommitSweep(h)
  PROVE  db'.retraction = db.retraction /\ db'.resource = db.resource
<1>1. db \in Databases
  BY DEF Before, TypeOK
<1>2. CASE db' = db
  BY <1>2
<1>3. CASE db' # db
  <2>1. PICK h \in Hosts : Connect(h) \/ Publish(h) \/ Crash(h) \/ HostStep(h)
    BY <1>3 DEF Next, vars
  <2>2. StartSweep(h) \/ ReadFails(h) \/ PageLimit(h) \/ CommitPage(h)
    BY <1>3, <2>1 DEF Connect, Publish, Crash, Forget, HostStep, PageArrives, Ingest,
       JudgeSweep, Disconnect
  <2>3. CASE StartSweep(h)
    BY <1>1, <2>3 DEF StartSweep, open_crawl, Databases
  <2>4. CASE ReadFails(h) \/ PageLimit(h)
    BY <1>1, <2>4 DEF ReadFails, PageLimit, finish_crawl, Databases
  <2>5. CASE CommitPage(h)
    <3>1. db'.resource = db.resource
      BY <2>5, CommitPageSettle
    <3>2. pc[h] = "ingesting" /\ txn[h] \in Databases
      BY <2>5 DEF CommitPage, Before, TypeOK, InTxn
    <3>3. txn[h].retraction = db.retraction
      BY <3>2 DEF Before, SweepInv, HostInv
    <3>4. db'.retraction = txn[h].retraction
      BY <2>5, <3>2, CrawlOpsKeep DEF CommitPage
    <3> QED BY <3>1, <3>3, <3>4
  <2> QED BY <2>2, <2>3, <2>4, <2>5
<1> QED BY <1>2, <1>3

(* A commit installs the settlement of a transaction of the committed database. *)
LEMMA CommitInstalls ==
  ASSUME Before, TypeOK', NEW h \in Hosts, CommitSweep(h)
  PROVE  /\ pc[h] = "committing" /\ Sound(db') /\ conn[h] \in Conns
         /\ sweep[h] \in Sweeps /\ snap[h] \in Snaps
         /\ db \in Databases /\ db' \in Databases
         /\ \E d \in Databases, reason \in Disqualifications \cup {None} :
              /\ db' = settle(d, conn[h], sweep[h], snap[h], reason)
              /\ snap[h].fold = Replay(d) /\ Sound(d) /\ Noted(d)
              /\ AtWork(d, sweep[h]) /\ Beside(db, d, sweep[h].observed)
              /\ Seen(d, sweep[h].crawl, sweep[h].observed)
              /\ reason = None => sweep[h].page = "drained"
<1>1. pc[h] = "committing" /\ db' = txn[h] /\ Sweeping(h) /\ InTxn(h)
  BY DEF CommitSweep, Sweeping, InTxn
<1>2. /\ Sound(db') /\ conn[h] \in Conns /\ sweep[h] \in Sweeps /\ snap[h] \in Snaps
      /\ db \in Databases /\ db' \in Databases
  BY <1>1 DEF Before, TypeOK, CrawlInv, HostCrawl
<1> DEFINE reason == disqualifier(conn[h], sweep[h], violated[h])
<1>3. reason \in Disqualifications \cup {None}
  BY DEF disqualifier, Disqualifications
<1>4. reason = None => sweep[h].page = "drained"
  BY ReasonAssumption DEF disqualifier, Disqualifications
<1>5. Judged(db, db', conn[h], sweep[h], snap[h], violated[h])
  BY <1>1 DEF Before, SettleInv, HostSettle
<1> QED BY <1>1, <1>2, <1>3, <1>4, <1>5 DEF Judged, RulesAtWork

(* An exemption holds: what the adapter disclaims, or reached no further back than,
   is not retracted, nor is anything by a sweep that saw nothing; and a vantage
   moves only with the discrepancy that says so. *)
THEOREM ExemptionsHold == Spec => ExemptRecordsSurvive
<1> DEFINE Spared == \A h \in Hosts, t \in Retracted : pc[h] = "committing" =>
             /\ t.local \notin sweep[h].exempt
             /\ ~ SeenBy(db', t.local, t.crawl)
             /\ ~ BeforeHistory(HeadAt(db, t.local), sweep[h].historyStart)
             /\ \/ conn[h].options.confirmEmpty
                \/ \E l \in LocalIds : SeenBy(db', l, t.crawl)
           Vantage == \A r \in Resources :
             db.resource[r].vantage \notin {None, db'.resource[r].vantage} =>
               /\ Retracted = {}
               /\ \E x \in db'.discrepancy \ db.discrepancy :
                    x.resource = r /\ x.kind = "vantage_changed"
<1>1. ASSUME Before, TypeOK', [Next]_vars PROVE Spared /\ Vantage
  <2>1. CASE \A h \in Hosts : ~ CommitSweep(h)
    BY <1>1, <2>1, OnlyTheCommitSettles DEF Retracted
  <2>2. CASE \E h \in Hosts : CommitSweep(h)
    <3>1. PICK h \in Hosts : CommitSweep(h)
      BY <2>2
    <3>2. /\ pc[h] = "committing" /\ Sound(db') /\ conn[h] \in Conns
          /\ sweep[h] \in Sweeps /\ snap[h] \in Snaps
          /\ db \in Databases /\ db' \in Databases
      BY <1>1, <3>1, CommitInstalls
    <3>3. PICK d \in Databases, reason \in Disqualifications \cup {None} :
            /\ db' = settle(d, conn[h], sweep[h], snap[h], reason)
            /\ snap[h].fold = Replay(d) /\ Noted(d)
            /\ AtWork(d, sweep[h]) /\ Beside(db, d, sweep[h].observed)
            /\ Seen(d, sweep[h].crawl, sweep[h].observed)
      BY <1>1, <3>1, CommitInstalls
    <3>4. Unseen(db')
      BY <3>2 DEF Sound, ChainsSound
    <3> DEFINE c  == conn[h]
               s  == sweep[h]
               sn == snap[h]
               e  == db'
    <3>5. Spares(db, e, c, s)
      <4>1. /\ e = settle(d, c, s, sn, reason) /\ sn.fold = Replay(d) /\ Unseen(e)
            /\ AtWork(d, s) /\ Noted(d) /\ Beside(db, d, s.observed)
            /\ Seen(d, s.crawl, s.observed) /\ db \in Databases /\ e \in Databases
            /\ c \in Conns /\ s \in Sweeps /\ sn \in Snaps
        BY <3>2, <3>3, <3>4
      <4> HIDE DEF c, s, sn, e
      <4> QED BY <4>1, SettlementSpares
    <3>6. \A k \in Hosts : pc[k] = "committing" => k = h
      BY <1>1, <3>2, OthersIdle DEF Before, SweepInv
    <3>7. Spared
      BY <3>5, <3>6 DEF Spares, Retracted
    <3>8. Vantage
      BY <3>5 DEF Spares, Retracted
    <3> QED BY <3>7, <3>8
  <2> QED BY <2>1, <2>2
<1>2. Before => TypeOK
  BY DEF Before
<1>3. Before /\ TypeOK' /\ [Next]_vars => [Spared /\ Vantage]_vars
  BY <1>1
<1> QED BY <1>2, <1>3, SettleInvariant, PTL DEF Spec, ExemptRecordsSurvive

(* A complete sweep settles its resource: what it leaves live it saw, or was told
   not to judge, unless a discrepancy exempts the sweep as a whole. *)
THEOREM CompleteSweepsSettle == Spec => CompleteSweepSettles
<1> DEFINE Settles == \A h \in Hosts, c \in 1..Len(db.crawl) :
             (pc[h] = "committing" /\ Completes(c)
               /\ ~ \E x \in db'.discrepancy :
                      x.crawl = c /\ x.kind \in {"vantage_changed", "empty_sweep"})
             => \A l \in live_records(db', db.crawl[c].resource) :
                  \/ SeenBy(db', l, c)
                  \/ l \in sweep[h].exempt
                  \/ BeforeHistory(HeadAt(db', l), sweep[h].historyStart)
<1>1. ASSUME Before, TypeOK', [Next]_vars PROVE Settles
  <2> SUFFICES ASSUME NEW h \in Hosts, NEW b \in 1..Len(db.crawl),
                      pc[h] = "committing", Completes(b),
                      ~ \E x \in db'.discrepancy :
                          x.crawl = b /\ x.kind \in {"vantage_changed", "empty_sweep"},
                      NEW l \in live_records(db', db.crawl[b].resource)
               PROVE  \/ SeenBy(db', l, b)
                      \/ l \in sweep[h].exempt
                      \/ BeforeHistory(HeadAt(db', l), sweep[h].historyStart)
    OBVIOUS
  <2>1. CommitSweep(h)
    BY <1>1, CommitterAlone DEF Completes
  <2>2. /\ conn[h] \in Conns /\ sweep[h] \in Sweeps /\ snap[h] \in Snaps
        /\ db \in Databases /\ db' \in Databases
    BY <1>1, <2>1, CommitInstalls
  <2>3. PICK d \in Databases, reason \in Disqualifications \cup {None} :
          /\ db' = settle(d, conn[h], sweep[h], snap[h], reason)
          /\ snap[h].fold = Replay(d) /\ Sound(d) /\ Noted(d)
          /\ AtWork(d, sweep[h]) /\ Beside(db, d, sweep[h].observed)
          /\ Seen(d, sweep[h].crawl, sweep[h].observed)
          /\ reason = None => sweep[h].page = "drained"
    BY <1>1, <2>1, CommitInstalls
  <2> DEFINE c  == conn[h]
             s  == sweep[h]
             sn == snap[h]
             e  == db'
  <2>4. /\ e = settle(d, c, s, sn, reason) /\ sn.fold = Replay(d)
        /\ Sound(d) /\ Noted(d) /\ AtWork(d, s) /\ Beside(db, d, s.observed)
        /\ Seen(d, s.crawl, s.observed) /\ db \in Databases /\ e \in Databases
        /\ c \in Conns /\ s \in Sweeps /\ sn \in Snaps
        /\ reason = None => s.page = "drained"
    BY <2>2, <2>3
  <2>5. /\ e.crawl[b].complete /\ ~ db.crawl[b].complete
        /\ l \in live_records(e, db.crawl[b].resource)
        /\ ~ \E x \in e.discrepancy :
               x.crawl = b /\ x.kind \in {"vantage_changed", "empty_sweep"}
    BY DEF Completes
  <2> HIDE DEF c, s, sn, e
  <2>6. /\ ButLast(d, [e EXCEPT !.retraction = d.retraction], s.crawl)
        /\ e.crawl[s.crawl].complete => reason = None
    BY <2>4, SettleNoted DEF AtWork
  <2>7. \A a \in 1..Len(d.crawl) : a # s.crawl => e.crawl[a] = d.crawl[a]
    BY <2>4, <2>6 DEF ButLast, Databases
  <2>8. d.crawl = db.crawl
    BY <2>4 DEF Beside
  <2>9. b = s.crawl /\ reason = None /\ db.crawl[b].resource = s.resource
    BY <2>4, <2>5, <2>6, <2>7, <2>8 DEF AtWork
  <2>10. \/ SeenBy(e, l, s.crawl)
         \/ l \in s.exempt
         \/ BeforeHistory(HeadAt(e, l), s.historyStart)
    BY <2>4, <2>5, <2>9, SettlementLeaves
  <2> QED BY <2>9, <2>10 DEF e, s
<1>2. Before => TypeOK
  BY DEF Before
<1>3. Before /\ TypeOK' /\ [Next]_vars => [Settles]_vars
  BY <1>1
<1> QED BY <1>2, <1>3, SettleInvariant, PTL DEF Spec, CompleteSweepSettles

-----------------------------------------------------------------------------
(***************************************************************************)
(* A clock that goes on.  `received' is the host's wall clock, which may go *)
(* back; whose report is a record's head, and whose rules it is judged by,  *)
(* then is the clock's word against the crawls'.  When the clock goes on    *)
(* the two agree, for every number of records, surfaces and crawls.         *)
(***************************************************************************)

(* A page of crawl c stamped `at' is after every row of d: none was received later,
   and one received at the same time is of the same crawl or there is one surface. *)
Later(d, at, c) ==
  \A l \in LocalIds : \A i \in 1..Len(d.chain[l]) :
    LET row == d.chain[l][i]
    IN  \/ row.received < at
        \/ row.received = at /\ (row.crawl = c \/ Surfaces = {row.obs.surface})

ClockStep ==
  \A h \in Hosts : pc[h] = "reading" /\ pc'[h] = "ingesting" =>
    Later(db, sweep'[h].received, sweep[h].crawl)

(* The clock of the host goes on from page to page. *)
ClockGoesOn == [][ClockStep]_vars

(* No report is a tombstone. *)
NoTombstones == \A o \in Reportable : o.state = "active"

(* The head of a chain is seen by the newest of the crawls that saw the chain. *)
HeadSeenLast(d) ==
  \A l \in LocalIds : \A i \in 1..Len(d.chain[l]) :
    d.chain[l][i].lastSeen <= d.chain[l][head_revision(Replay(d)[l])].lastSeen

(* A row says what was reported for the resource of the crawl that saw it last. *)
OfResource(d) ==
  \A l \in LocalIds : \A i \in 1..Len(d.chain[l]) :
    /\ d.chain[l][i].obs.resource = d.crawl[d.chain[l][i].lastSeen].resource
    /\ d.chain[l][i].obs \in Reportable

Sighted(d) == HeadSeenLast(d) /\ OfResource(d)

(* What is said of chains depends on nothing else in the store but the resources
   of the crawls. *)
LEMMA SightedSurvives ==
  ASSUME NEW d \in Databases, NEW e \in Databases, RulesOfCrawl(d), Sighted(d),
         e.chain = d.chain,
         \A c \in 1..Len(d.crawl) : e.crawl[c].resource = d.crawl[c].resource
  PROVE  Sighted(e)
<1>1. Replay(e) = Replay(d)
  BY ReplayIsOfChains
<1>2. HeadSeenLast(e)
  BY <1>1 DEF Sighted, HeadSeenLast
<1>3. OfResource(e)
  <2> SUFFICES ASSUME NEW l \in LocalIds, NEW i \in 1..Len(d.chain[l])
               PROVE  /\ d.chain[l][i].obs.resource = e.crawl[d.chain[l][i].lastSeen].resource
                      /\ d.chain[l][i].obs \in Reportable
    BY DEF OfResource
  <2> DEFINE row == d.chain[l][i]
  <2>1. /\ 1 <= row.crawl /\ row.crawl <= row.lastSeen /\ row.lastSeen <= Len(d.crawl)
        /\ row.crawl \in Nat /\ row.lastSeen \in Nat /\ Len(d.crawl) \in Nat
    BY RowAt, CrawlAt DEF RulesOfCrawl
  <2>2. row.obs.resource = d.crawl[row.lastSeen].resource /\ row.obs \in Reportable
    BY DEF Sighted, OfResource
  <2> HIDE DEF row
  <2>3. row.lastSeen \in 1..Len(d.crawl)
    BY <2>1
  <2>4. row.obs.resource = e.crawl[row.lastSeen].resource
    BY <2>2, <2>3
  <2> QED BY <2>2, <2>4 DEF row
<1> QED BY <1>2, <1>3 DEF Sighted

(* The rows after a stamp. *)
LEMMA StampRows ==
  ASSUME NEW d \in Databases, NEW l \in LocalIds, NEW rev, NEW c, NEW dv, NEW fp,
         RevisionsOf(d)
  PROVE  LET e == stamp_seen(d, l, rev, c, dv, fp)
         IN  /\ e.crawl = d.crawl
             /\ \A k \in LocalIds : Len(e.chain[k]) = Len(d.chain[k])
             /\ \A k \in LocalIds : \A i \in 1..Len(d.chain[k]) :
                  /\ e.chain[k][i].obs = d.chain[k][i].obs
                  /\ e.chain[k][i].received = d.chain[k][i].received
                  /\ e.chain[k][i].crawl = d.chain[k][i].crawl
                  /\ e.chain[k][i].lastSeen =
                       IF k = l /\ i = rev THEN c ELSE d.chain[k][i].lastSeen
<1> DEFINE e == stamp_seen(d, l, rev, c, dv, fp)
           stamped == [i \in 1..Len(d.chain[l]) |->
                         IF d.chain[l][i].revision = rev
                         THEN [d.chain[l][i] EXCEPT !.lastSeen = c,
                                                    !.derivation = dv,
                                                    !.fingerprint = fp]
                         ELSE d.chain[l][i]]
<1>1. d.chain \in [LocalIds -> Seq(Rows)] /\ Len(d.chain[l]) \in Nat
  BY Tables DEF Chains
<1>2. e.chain = [d.chain EXCEPT ![l] = stamped] /\ e.crawl = d.crawl
  BY DEF stamp_seen, Databases
<1>3. Len(stamped) = Len(d.chain[l])
  BY <1>1
<1>4. ASSUME NEW i \in 1..Len(d.chain[l])
      PROVE  /\ stamped[i].obs = d.chain[l][i].obs
             /\ stamped[i].received = d.chain[l][i].received
             /\ stamped[i].crawl = d.chain[l][i].crawl
             /\ stamped[i].lastSeen = IF i = rev THEN c ELSE d.chain[l][i].lastSeen
  <2>1. d.chain[l][i] \in Rows /\ d.chain[l][i].revision = i
    BY <1>1 DEF RevisionsOf
  <2>2. CASE i = rev
    BY <2>1, <2>2 DEF Rows
  <2>3. CASE i # rev
    BY <2>1, <2>3
  <2> QED BY <2>2, <2>3
<1> HIDE DEF stamped, e
<1>5. e.chain[l] = stamped /\ \A k \in LocalIds \ {l} : e.chain[k] = d.chain[k]
  BY <1>1, <1>2
<1>6. \A k \in LocalIds : Len(e.chain[k]) = Len(d.chain[k])
  BY <1>3, <1>5
<1>7. ASSUME NEW k \in LocalIds, NEW i \in 1..Len(d.chain[k])
      PROVE  /\ e.chain[k][i].obs = d.chain[k][i].obs
             /\ e.chain[k][i].received = d.chain[k][i].received
             /\ e.chain[k][i].crawl = d.chain[k][i].crawl
             /\ e.chain[k][i].lastSeen =
                  IF k = l /\ i = rev THEN c ELSE d.chain[k][i].lastSeen
  <2>1. CASE k = l
    BY <1>4, <1>5, <2>1
  <2>2. CASE k # l
    BY <1>5, <2>2
  <2> QED BY <2>1, <2>2
<1> QED BY <1>2, <1>6, <1>7 DEF e

(* The rows after a new one. *)
LEMMA AppendRows ==
  ASSUME NEW d \in Databases, NEW l \in LocalIds, NEW rev, NEW o, NEW at, NEW c,
         NEW dv, NEW fp
  PROVE  LET e == append_observation(d, l, rev, o, at, c, dv, fp)
             n == Len(d.chain[l]) + 1
         IN  /\ e.crawl = d.crawl
             /\ \A k \in LocalIds \ {l} : e.chain[k] = d.chain[k]
             /\ Len(e.chain[l]) = n
             /\ \A i \in 1..Len(d.chain[l]) : e.chain[l][i] = d.chain[l][i]
             /\ e.chain[l][n].obs = o /\ e.chain[l][n].received = at
             /\ e.chain[l][n].crawl = c /\ e.chain[l][n].lastSeen = c
<1> DEFINE e == append_observation(d, l, rev, o, at, c, dv, fp)
           row == [obs |-> o, received |-> at, revision |-> rev, crawl |-> c,
                   lastSeen |-> c, derivation |-> dv, fingerprint |-> fp]
           s == d.chain[l]
           x == Append(s, row)
<1>1. d.chain \in [LocalIds -> Seq(Rows)]
  BY Tables DEF Chains
<1>2. e.chain = [d.chain EXCEPT ![l] = x] /\ e.crawl = d.crawl
  BY DEF append_observation, Databases
<1>3. s \in Seq(Rows \cup {row}) /\ row \in Rows \cup {row} /\ Len(s) \in Nat
  BY <1>1
<1>4. /\ Len(x) = Len(s) + 1 /\ x[Len(s) + 1] = row
      /\ \A i \in 1..Len(s) : x[i] = s[i]
  <2> HIDE DEF s, row
  <2> QED BY <1>3, AppendProperties
<1>5. row.obs = o /\ row.received = at /\ row.crawl = c /\ row.lastSeen = c
  OBVIOUS
<1> HIDE DEF e, x, row
<1>6. e.chain[l] = x /\ \A k \in LocalIds \ {l} : e.chain[k] = d.chain[k]
  BY <1>1, <1>2
<1> QED BY <1>2, <1>4, <1>5, <1>6 DEF e

(* What a fold entry says. *)
LEMMA ReplayEntry ==
  ASSUME NEW d \in Databases, NEW l \in LocalIds, NEW i \in 1..Len(d.chain[l])
  PROVE  /\ Replay(d)[l][i].obs = d.chain[l][i].obs
         /\ Replay(d)[l][i].received = d.chain[l][i].received
BY DEF Replay

(* A chain that is not empty has its head among its rows. *)
LEMMA HeadRow ==
  ASSUME NEW d \in Databases, NEW l \in LocalIds, Len(d.chain[l]) # 0
  PROVE  /\ head_revision(Replay(d)[l]) \in 1..Len(d.chain[l])
         /\ fold_head(Replay(d)[l]).obs = d.chain[l][head_revision(Replay(d)[l])].obs
         /\ \A j \in 1..Len(d.chain[l]) :
              fold_order(Replay(d)[l], j, head_revision(Replay(d)[l]))
<1> DEFINE x == Replay(d)[l]
<1>1. x \in Seq(FoldEntries) /\ Len(x) = Len(d.chain[l])
  BY ReplayType, ReplayLengths
<1> HIDE DEF x
<1>2. x # << >>
  BY <1>1
<1>3. /\ head_revision(x) \in 1..Len(x)
      /\ \A j \in 1..Len(x) : fold_order(x, j, head_revision(x))
  BY <1>1, <1>2, HeadExists
<1>4. fold_head(x).obs = d.chain[l][head_revision(x)].obs
  BY <1>1, <1>3, ReplayEntry DEF fold_head, x
<1> QED BY <1>1, <1>3, <1>4 DEF x

(* A record reported again is seen, at its head, by the open crawl. *)
LEMMA StampSighted ==
  ASSUME NEW d \in Databases, NEW e \in Databases, NEW l \in LocalIds, NEW c, NEW dv,
         NEW fp, NEW at, NEW o, NEW rev, RevisionsOf(d), RulesOfCrawl(d), Sighted(d),
         Later(d, at, c), Open(d, c), o.resource = d.crawl[c].resource,
         Replay(d)[l] # << >>, rev = head_revision(Replay(d)[l]),
         fold_head(Replay(d)[l]).obs = o,
         e = stamp_seen(d, l, rev, c, dv, fp)
  PROVE  Sighted(e) /\ Later(e, at, c)
<1>1. /\ e.crawl = d.crawl
      /\ \A k \in LocalIds : Len(e.chain[k]) = Len(d.chain[k])
      /\ \A k \in LocalIds : \A i \in 1..Len(d.chain[k]) :
           /\ e.chain[k][i].obs = d.chain[k][i].obs
           /\ e.chain[k][i].received = d.chain[k][i].received
           /\ e.chain[k][i].crawl = d.chain[k][i].crawl
           /\ e.chain[k][i].lastSeen =
                IF k = l /\ i = rev THEN c ELSE d.chain[k][i].lastSeen
  BY StampRows
<1>2. Replay(e) = Replay(d)
  BY ReplayOfStamp
<1>3. Len(d.crawl) \in Nat /\ c = Len(d.crawl)
  BY CrawlAt DEF Open
<1>4. ASSUME NEW k \in LocalIds, NEW i \in 1..Len(d.chain[k])
      PROVE  d.chain[k][i].lastSeen <= c /\ d.chain[k][i].lastSeen \in Nat
  BY <1>3, RowAt DEF RulesOfCrawl
<1>5. HeadSeenLast(e)
  <2> SUFFICES ASSUME NEW k \in LocalIds, NEW i \in 1..Len(d.chain[k])
               PROVE  e.chain[k][i].lastSeen
                        <= e.chain[k][head_revision(Replay(d)[k])].lastSeen
    BY <1>1, <1>2 DEF HeadSeenLast
  <2> DEFINE m == head_revision(Replay(d)[k])
  <2>1. m \in 1..Len(d.chain[k])
    BY HeadRow, ChainLengths
  <2>2. d.chain[k][i].lastSeen <= d.chain[k][m].lastSeen
    BY DEF Sighted, HeadSeenLast
  <2>3. CASE k = l
    <3>1. e.chain[k][m].lastSeen = c
      BY <1>1, <2>1, <2>3
    <3>2. e.chain[k][i].lastSeen <= c
      BY <1>1, <1>3, <1>4
    <3> QED BY <3>1, <3>2
  <2>4. CASE k # l
    BY <1>1, <2>1, <2>2, <2>4
  <2> QED BY <2>3, <2>4
<1>6. OfResource(e)
  <2> SUFFICES ASSUME NEW k \in LocalIds, NEW i \in 1..Len(e.chain[k])
               PROVE  /\ e.chain[k][i].obs.resource = e.crawl[e.chain[k][i].lastSeen].resource
                      /\ e.chain[k][i].obs \in Reportable
    BY DEF OfResource
  <2>0. /\ i \in 1..Len(d.chain[k]) /\ e.crawl = d.crawl
        /\ e.chain[k][i].obs = d.chain[k][i].obs
        /\ e.chain[k][i].lastSeen = IF k = l /\ i = rev THEN c ELSE d.chain[k][i].lastSeen
    BY <1>1
  <2>1. /\ d.chain[k][i].obs.resource = d.crawl[d.chain[k][i].lastSeen].resource
        /\ d.chain[k][i].obs \in Reportable
    BY <2>0 DEF Sighted, OfResource
  <2>2. CASE k = l /\ i = rev
    <3>1. Len(d.chain[l]) # 0
      BY <2>0, <2>2, ChainLengths
    <3>2. d.chain[l][rev].obs = o
      BY <3>1, HeadRow
    <3> QED BY <2>0, <2>1, <2>2, <3>2
  <2>3. CASE ~ (k = l /\ i = rev)
    BY <2>0, <2>1, <2>3
  <2> QED BY <2>2, <2>3
<1>7. Later(e, at, c)
  BY <1>1 DEF Later
<1> QED BY <1>5, <1>6, <1>7 DEF Sighted

(* A report appended after every row of its chain is its head, unless one of the
   same crawl is. *)
LEMMA AppendSighted ==
  ASSUME NEW d \in Databases, NEW e \in Databases, NEW l \in LocalIds, NEW c, NEW dv,
         NEW fp, NEW at \in Times, NEW o \in Reportable, NEW rev,
         RulesOfCrawl(d), Sighted(d), Later(d, at, c), Open(d, c),
         o.resource = d.crawl[c].resource,
         e = append_observation(d, l, rev, o, at, c, dv, fp)
  PROVE  Sighted(e) /\ Later(e, at, c)
<1> DEFINE n == Len(d.chain[l]) + 1
<1>1. /\ e.crawl = d.crawl
      /\ \A k \in LocalIds \ {l} : e.chain[k] = d.chain[k]
      /\ Len(e.chain[l]) = n
      /\ \A i \in 1..Len(d.chain[l]) : e.chain[l][i] = d.chain[l][i]
      /\ e.chain[l][n].obs = o /\ e.chain[l][n].received = at
      /\ e.chain[l][n].crawl = c /\ e.chain[l][n].lastSeen = c
  BY AppendRows
<1>2. Len(d.chain[l]) \in Nat
  BY ChainLengths
<1>3. \A i \in 1..n : i \in 1..Len(d.chain[l]) \/ i = n
  BY <1>2
<1>4. Len(d.crawl) \in Nat /\ c = Len(d.crawl)
  BY CrawlAt DEF Open
<1>5. ASSUME NEW k \in LocalIds, NEW i \in 1..Len(d.chain[k])
      PROVE  /\ d.chain[k][i].lastSeen <= c /\ d.chain[k][i].lastSeen \in Nat
             /\ d.chain[k][i].crawl <= d.chain[k][i].lastSeen
             /\ d.chain[k][i].crawl \in Nat
  BY <1>4, RowAt DEF RulesOfCrawl
<1>6. at \in Nat /\ o.surface \in Surfaces /\ Surfaces \subseteq Nat
  BY BoundsAssumption, NumbersAssumption DEF Observations
<1>7. e.chain[l][head_revision(Replay(e)[l])].lastSeen = c
  <2> DEFINE x == Replay(e)[l]
             m == head_revision(x)
  <2>1. m \in 1..n /\ fold_order(x, n, m)
    BY <1>1, <1>2, HeadRow
  <2>2. CASE m = n
    BY <1>1, <2>2
  <2>3. CASE m \in 1..Len(d.chain[l])
    <3> DEFINE row == d.chain[l][m]
    <3>0. m \in 1..Len(e.chain[l]) /\ n \in 1..Len(e.chain[l]) /\ e.chain[l][m] = row
      BY <1>1, <1>2, <2>1, <2>3
    <3>1. x[m].obs = row.obs /\ x[m].received = row.received /\ e.chain[l][m] = row
      <4> HIDE DEF m, row, n
      <4> QED BY <3>0, ReplayEntry
    <3>2. x[n].obs = o /\ x[n].received = at
      <4> HIDE DEF m, row, n
      <4> QED BY <1>1, <3>0, ReplayEntry
    <3>3. row \in Rows
      BY <2>3, RowAt
    <3>4. row.obs.surface \in Nat /\ row.received \in Nat
      BY <1>6, <3>3, NumbersAssumption DEF Rows, Observations
    <3>5. \/ row.received < at
          \/ row.received = at /\ (row.crawl = c \/ Surfaces = {row.obs.surface})
      BY <2>3 DEF Later
    <3>6. \/ at < row.received
          \/ /\ at = row.received
             /\ \/ o.surface < row.obs.surface
                \/ o.surface = row.obs.surface /\ n <= m
      BY <2>1, <3>1, <3>2 DEF fold_order
    <3>7. /\ row.lastSeen <= c /\ row.lastSeen \in Nat /\ row.crawl <= row.lastSeen
          /\ row.crawl \in Nat
      BY <1>5, <2>3
    <3> HIDE DEF row, x, m
    <3>8. row.crawl = c
      BY <1>2, <1>6, <2>3, <3>4, <3>5, <3>6
    <3>9. row.lastSeen = c
      BY <1>4, <3>7, <3>8
    <3> QED BY <3>1, <3>9 DEF x, m
  <2> QED BY <1>3, <2>1, <2>2, <2>3
<1>8. HeadSeenLast(e)
  <2> SUFFICES ASSUME NEW k \in LocalIds, NEW i \in 1..Len(e.chain[k])
               PROVE  e.chain[k][i].lastSeen
                        <= e.chain[k][head_revision(Replay(e)[k])].lastSeen
    BY DEF HeadSeenLast
  <2>1. CASE k = l
    <3>1. e.chain[k][i].lastSeen <= c
      <4>1. CASE i = n
        BY <1>1, <1>4, <2>1, <4>1
      <4>2. CASE i \in 1..Len(d.chain[l])
        BY <1>1, <1>5, <2>1, <4>2
      <4> QED BY <1>1, <1>3, <2>1, <4>1, <4>2
    <3> QED BY <1>7, <2>1, <3>1
  <2>2. CASE k # l
    <3>1. e.chain[k] = d.chain[k]
      BY <1>1, <2>2
    <3>2. Replay(e)[k] = Replay(d)[k]
      BY <3>1 DEF Replay
    <3> QED BY <3>1, <3>2 DEF Sighted, HeadSeenLast
  <2> QED BY <2>1, <2>2
<1>9. OfResource(e)
  <2> SUFFICES ASSUME NEW k \in LocalIds, NEW i \in 1..Len(e.chain[k])
               PROVE  /\ e.chain[k][i].obs.resource = d.crawl[e.chain[k][i].lastSeen].resource
                      /\ e.chain[k][i].obs \in Reportable
    BY <1>1 DEF OfResource
  <2>1. CASE k = l /\ i = n
    BY <1>1, <2>1
  <2>2. CASE ~ (k = l /\ i = n)
    <3>1. i \in 1..Len(d.chain[k]) /\ e.chain[k][i] = d.chain[k][i]
      BY <1>1, <1>3, <2>2
    <3> QED BY <3>1 DEF Sighted, OfResource
  <2> QED BY <2>1, <2>2
<1>10. Later(e, at, c)
  <2> SUFFICES ASSUME NEW k \in LocalIds, NEW i \in 1..Len(e.chain[k])
               PROVE  LET row == e.chain[k][i]
                      IN  \/ row.received < at
                          \/ /\ row.received = at
                             /\ row.crawl = c \/ Surfaces = {row.obs.surface}
    BY DEF Later
  <2>1. CASE k = l /\ i = n
    BY <1>1, <2>1
  <2>2. CASE ~ (k = l /\ i = n)
    <3>1. i \in 1..Len(d.chain[k]) /\ e.chain[k][i] = d.chain[k][i]
      BY <1>1, <1>3, <2>2
    <3> QED BY <3>1 DEF Later
  <2> QED BY <2>1, <2>2
<1> QED BY <1>8, <1>9, <1>10 DEF Sighted

-----------------------------------------------------------------------------
(***************************************************************************)
(* The inductive invariant, under a clock that goes on.                     *)
(***************************************************************************)
HostSight(h) ==
  /\ pc[h] = "ingesting" =>
       Sighted(txn[h]) /\ Later(txn[h], sweep[h].received, sweep[h].crawl)
  /\ pc[h] = "committing" => Sighted(txn[h])

SightInv == Sighted(db) /\ \A h \in Hosts : HostSight(h)

(* A step of the host at work need be looked at for that host alone. *)
LEMMA WriterSight ==
  ASSUME Before, NEW h \in Hosts, pc[h] # "idle",
         \A k \in Hosts \ {h} : pc'[k] = pc[k], Sighted(db)', HostSight(h)'
  PROVE  SightInv'
<1>1. \A k \in Hosts \ {h} : pc'[k] = "idle"
  BY OthersIdle DEF Before, SweepInv
<1>2. \A k \in Hosts \ {h} : HostSight(k)'
  BY <1>1 DEF HostSight
<1> QED BY <1>2 DEF SightInv

(* An empty store has no row. *)
LEMMA InitSight == Init => SightInv
<1> SUFFICES ASSUME Init PROVE SightInv
  OBVIOUS
<1>1. \A l \in LocalIds : db.chain[l] = << >>
  BY DEF Init, EmptyDatabase
<1>2. Sighted(db)
  BY <1>1 DEF Sighted, HeadSeenLast, OfResource
<1>3. \A h \in Hosts : HostSight(h)
  BY DEF Init, HostSight
<1> QED BY <1>2, <1>3 DEF SightInv

(* Taking the lock. *)
LEMMA ConnectSight ==
  ASSUME Before, SightInv, NEW h \in Hosts, Connect(h) PROVE SightInv'
<1>1. \A k \in Hosts : pc[k] = "idle"
  BY BoundsAssumption DEF Before, SweepInv, WriterHoldsLock, Connect, LockFree
<1>2. pc' = [pc EXCEPT ![h] = "connected"] /\ db' = db
  BY DEF Connect
<1>3. \A k \in Hosts : pc'[k] \in {"connected", "idle"}
  BY <1>1, <1>2 DEF Before, TypeOK
<1>4. \A k \in Hosts : HostSight(k)'
  BY <1>3 DEF HostSight
<1>5. Sighted(db)'
  BY <1>2 DEF SightInv
<1> QED BY <1>4, <1>5 DEF SightInv

(* Exit and death leave what is committed. *)
LEMMA ForgetSight ==
  ASSUME Before, SightInv, NEW h \in Hosts, pc[h] # "idle", Forget(h) PROVE SightInv'
<1>1. pc'[h] = "idle" /\ db' = db /\ \A k \in Hosts \ {h} : pc'[k] = pc[k]
  BY DEF Forget, Before, TypeOK
<1>2. HostSight(h)'
  BY <1>1 DEF HostSight
<1>3. Sighted(db)'
  BY <1>1 DEF SightInv
<1> QED BY <1>1, <1>2, <1>3, WriterSight

(* A sweep begins: its crawl is added, and no row. *)
LEMMA StartSweepSight ==
  ASSUME Before, TypeOK', SightInv, NEW h \in Hosts, StartSweep(h) PROVE SightInv'
<1>1. /\ conn[h] \in Conns /\ db \in Databases /\ db' \in Databases
      /\ Sound(db) /\ RulesOfCrawl(db) /\ Sighted(db)
  BY DEF Before, TypeOK, StartSweep, CrawlInv, SettleInv, Noted, SightInv
<1> DEFINE r == Head(conn[h].todo)
           dv == conn[h].derivation
<1>2. r \in Resources /\ dv \in Derivations
  BY <1>1 DEF StartSweep, Conns
<1>3. PICK fp \in Fingerprints :
        db' = open_crawl(db, r, IF conn[h].options.resume THEN resume_point(db, r, dv, fp)
                                ELSE None, dv, fp)
  BY DEF StartSweep
<1> DEFINE st == IF conn[h].options.resume THEN resume_point(db, r, dv, fp) ELSE None
<1> HIDE DEF r, dv
<1>4. st \in Cursors \cup {None}
  BY <1>1, <1>2, <1>3, ResumePointType
<1>5. st # None => \E b \in 1..Len(db.crawl) :
                     /\ ~ db.crawl[b].drained /\ db.crawl[b].resource = r
                     /\ db.crawl[b].derivation = dv /\ db.crawl[b].fingerprint = fp
  BY <1>1, <1>2, <1>3, ResumePointContinues
<1>6. /\ db'.chain = db.chain
      /\ \A c \in 1..Len(db.crawl) : SameCrawl(db'.crawl[c], db.crawl[c])
  BY <1>1, <1>2, <1>3, <1>4, <1>5, OpenSound
<1>7. Sighted(db')
  BY <1>1, <1>6, SightedSurvives DEF SameCrawl
<1>8. pc[h] # "idle" /\ pc'[h] = "reading" /\ \A k \in Hosts \ {h} : pc'[k] = pc[k]
  BY DEF StartSweep, Before, TypeOK
<1>9. HostSight(h)'
  BY <1>8 DEF HostSight
<1>10. Sighted(db)'
  BY <1>7
<1> QED BY <1>8, <1>9, <1>10, WriterSight

(* The end of a crawl changes no row and no resource. *)
LEMMA FinishSighted ==
  ASSUME NEW d \in Databases, NEW e \in Databases, NEW c \in Nat, NEW drained \in BOOLEAN,
         NEW complete \in BOOLEAN, NEW reason \in Disqualifications \cup {None},
         Sound(d), Open(d, c), RulesOfCrawl(d), Sighted(d),
         e.chain = d.chain, e.crawl = finish_crawl(d, c, drained, complete, reason).crawl
  PROVE  Sighted(e)
<1> DEFINE m == finish_crawl(d, c, drained, complete, reason)
<1>1. ButLast(d, m, c) /\ m.crawl[c].resource = d.crawl[c].resource
  BY FinishSound
<1>2. \A b \in 1..Len(d.crawl) : m.crawl[b].resource = d.crawl[b].resource
  BY <1>1 DEF ButLast
<1> QED BY <1>2, SightedSurvives

(* A sweep that fails. *)
LEMMA FailSight ==
  ASSUME Before, TypeOK', SightInv, NEW h \in Hosts, ReadFails(h) \/ PageLimit(h)
  PROVE  SightInv'
<1>1. /\ db \in Databases /\ db' \in Databases /\ Sound(db) /\ RulesOfCrawl(db)
      /\ Sighted(db) /\ pc[h] = "reading" /\ sweep[h] \in Sweeps
  BY DEF Before, TypeOK, CrawlInv, SettleInv, SightInv, Noted, ReadFails, PageLimit, Sweeping
<1>2. PICK z \in Disqualifications : db' = finish_crawl(db, sweep[h].crawl, FALSE, FALSE, z)
  BY DEF ReadFails, PageLimit, Disqualifications
<1>3. Open(db, sweep[h].crawl) /\ sweep[h].crawl \in Nat
  BY <1>1 DEF Before, CrawlInv, HostCrawl, AtWork, View, InTxn, Sweeps
<1>4. db'.chain = db.chain
  BY <1>1, <1>2 DEF finish_crawl, Databases
<1>5. Sighted(db)'
  BY <1>1, <1>2, <1>3, <1>4, FinishSighted
<1>6. pc[h] # "idle" /\ pc'[h] = "connected" /\ \A k \in Hosts \ {h} : pc'[k] = pc[k]
  BY DEF ReadFails, PageLimit, EndSweep, Before, TypeOK
<1>7. HostSight(h)'
  BY <1>6 DEF HostSight
<1> QED BY <1>5, <1>6, <1>7, WriterSight

(* A page arrives after every row, because the clock went on. *)
LEMMA PageArrivesSight ==
  ASSUME Before, TypeOK', SightInv, ClockStep, NEW h \in Hosts, PageArrives(h)
  PROVE  SightInv'
<1>1. /\ pc[h] = "reading" /\ pc'[h] = "ingesting" /\ txn'[h] = db /\ db' = db
      /\ \A k \in Hosts \ {h} : pc'[k] = pc[k]
  BY DEF PageArrives, Before, TypeOK
<1>2. sweep'[h].crawl = sweep[h].crawl
  BY PageArrivesSweep DEF Before, TypeOK, SameSweep
<1>3. Later(db, sweep'[h].received, sweep'[h].crawl) /\ Sighted(db)
  BY <1>1, <1>2 DEF ClockStep, SightInv
<1>4. HostSight(h)'
  BY <1>1, <1>3 DEF HostSight
<1>5. Sighted(db)'
  BY <1>1, <1>3
<1> QED BY <1>1, <1>4, <1>5, WriterSight

(* One observation, stamped or appended. *)
LEMMA IngestSight ==
  ASSUME Before, TypeOK', SightInv, NEW h \in Hosts, NEW l \in LocalIds,
         NEW o \in Reportable, Ingest(h, l, o)
  PROVE  SightInv'
<1> DEFINE s   == sweep[h]
           d   == txn[h]
           e   == txn'[h]
           f   == snap[h].fold
           dv  == conn[h].derivation
           rev == highest_revision(f[l]) + 1
           fp  == s.fingerprint
           c   == s.crawl
           at  == s.received
<1>1. /\ pc[h] = "ingesting" /\ pc' = pc /\ db' = db /\ Sweeping(h) /\ InTxn(h)
  BY DEF Ingest, Sweeping, InTxn
<1>2. d \in Databases /\ e \in Databases /\ s \in Sweeps /\ at \in Times
  BY <1>1 DEF Before, TypeOK, Sweeping, InTxn
<1>3. sweep'[h].crawl = c /\ sweep'[h].received = at
  <2>1. sweep' = [sweep EXCEPT ![h].observed = @ \cup {l}, ![h].room = @ - 1]
    BY DEF Ingest
  <2>2. sweep \in [Hosts -> Sweeps \cup {None}]
    BY DEF Before, TypeOK
  <2> QED BY <1>2, <2>1, <2>2 DEF Sweeps
<1>4. /\ AtWork(d, s) /\ RevisionsOf(d) /\ f = Replay(d) /\ RulesOfCrawl(d)
      /\ Sighted(d) /\ Later(d, at, c)
  BY <1>1 DEF Before, CrawlInv, HostCrawl, SweepInv, HostInv, SettleInv, HostSettle, Noted,
     SightInv, HostSight, Current, View
<1>5. Open(d, c) /\ o.resource = d.crawl[c].resource
  BY <1>4 DEF AtWork, Ingest
<1>6. Sighted(e) /\ Later(e, at, c)
  <2>1. CASE already_known(snap[h], l, o)
    <3> DEFINE head == head_revision(f[l])
    <3>1. e = stamp_seen(d, l, head, c, dv, fp)
      BY <2>1 DEF Ingest, Before, TypeOK
    <3>2. f[l] # << >> /\ fold_head(f[l]).obs = o
      BY <2>1 DEF already_known, content_hash
    <3>3. Replay(d)[l] # << >> /\ fold_head(Replay(d)[l]).obs = o
            /\ head = head_revision(Replay(d)[l])
      BY <1>4, <3>2
    <3> HIDE DEF head, c, fp, dv, d, e, at, f
    <3> QED BY <1>2, <1>4, <1>5, <3>1, <3>3, StampSighted
  <2>2. CASE ~ already_known(snap[h], l, o)
    <3>1. e = append_observation(d, l, rev, o, at, c, dv, fp)
      BY <2>2 DEF Ingest, Before, TypeOK
    <3> HIDE DEF rev, at, c, fp, dv, d, e
    <3> QED BY <1>2, <1>4, <1>5, <3>1, AppendSighted
  <2> QED BY <2>1, <2>2
<1>7. HostSight(h)'
  BY <1>1, <1>3, <1>6 DEF HostSight
<1>8. Sighted(db)'
  BY <1>1 DEF SightInv
<1> QED BY <1>1, <1>7, <1>8, WriterSight

(* A page commits what its transaction holds, with a cursor. *)
LEMMA CommitPageSight ==
  ASSUME Before, TypeOK', SightInv, NEW h \in Hosts, CommitPage(h) PROVE SightInv'
<1> DEFINE s == sweep[h]
           d == txn[h]
           c == s.crawl
           n == next_request(s)
<1>1. /\ pc[h] = "ingesting" /\ pc'[h] = "reading" /\ Sweeping(h) /\ InTxn(h)
      /\ \A k \in Hosts \ {h} : pc'[k] = pc[k]
  BY DEF CommitPage, Sweeping, InTxn, Before, TypeOK
<1>2. d \in Databases /\ s \in Sweeps /\ db' \in Databases
  BY <1>1 DEF Before, TypeOK
<1>3. n \in Cursors \cup {None} /\ c \in Nat
  BY <1>2 DEF next_request, Sweeps
<1>4. db' = set_crawl_cursor(d, c, n)
  BY DEF CommitPage
<1>5. Sound(d) /\ Open(d, c) /\ RulesOfCrawl(d) /\ Sighted(d)
  BY <1>1 DEF Before, CrawlInv, HostCrawl, View, AtWork, SettleInv, HostSettle, Noted,
     SightInv, HostSight
<1> HIDE DEF d, n, s, c
<1>6. ButLast(d, db', c) /\ db'.crawl[c].resource = d.crawl[c].resource
  BY <1>2, <1>3, <1>4, <1>5, CursorSound
<1>7. \A b \in 1..Len(d.crawl) : db'.crawl[b].resource = d.crawl[b].resource
  BY <1>6 DEF ButLast
<1>8. db'.chain = d.chain
  BY <1>6 DEF ButLast
<1>9. Sighted(db')
  BY <1>2, <1>5, <1>7, <1>8, SightedSurvives
<1>10. HostSight(h)'
  BY <1>1 DEF HostSight
<1>11. Sighted(db)'
  BY <1>9
<1> QED BY <1>1, <1>10, <1>11, WriterSight

(* The judgement writes no row. *)
LEMMA JudgeSweepSight ==
  ASSUME Before, TypeOK', SightInv, NEW h \in Hosts, JudgeSweep(h) PROVE SightInv'
<1> DEFINE reason == disqualifier(conn[h], sweep[h], violated[h])
           c  == conn[h]
           s  == sweep[h]
           sn == snap[h]
           d  == txn[h]
           e  == txn'[h]
<1>1. /\ pc[h] = "ingesting" /\ pc'[h] = "committing" /\ db' = db
      /\ Sweeping(h) /\ InTxn(h) /\ \A k \in Hosts \ {h} : pc'[k] = pc[k]
  BY DEF JudgeSweep, Sweeping, InTxn, Before, TypeOK
<1>2. /\ d \in Databases /\ e \in Databases /\ s \in Sweeps /\ sn \in Snaps /\ c \in Conns
      /\ s.crawl \in Nat
  BY <1>1 DEF Before, TypeOK, Sweeping, InTxn, Sweeps
<1>3. Sound(d) /\ Open(d, s.crawl) /\ RulesOfCrawl(d) /\ Sighted(d)
  BY <1>1 DEF Before, CrawlInv, HostCrawl, View, AtWork, SettleInv, HostSettle, Noted,
     SightInv, HostSight
<1>4. reason \in Disqualifications \cup {None}
  BY DEF disqualifier, Disqualifications
<1>5. e = settle(d, c, s, sn, reason)
  BY DEF JudgeSweep, Before, TypeOK
<1>6. Sighted(e)
  <2> HIDE DEF reason, c, s, sn, d, e
  <2> DEFINE drained == s.page = "drained"
             complete == reason = None
  <2>1. /\ e.chain = d.chain
        /\ e.crawl = finish_crawl(d, s.crawl, drained, complete, reason).crawl
    BY <1>2, <1>4, <1>5, SettleKeeps, SettleCrawl
  <2>2. drained \in BOOLEAN /\ complete \in BOOLEAN
    OBVIOUS
  <2> HIDE DEF drained, complete
  <2> QED BY <1>2, <1>3, <1>4, <2>1, <2>2, FinishSighted
<1>7. HostSight(h)'
  BY <1>1, <1>6 DEF HostSight
<1>8. Sighted(db)'
  BY <1>1 DEF SightInv
<1> QED BY <1>1, <1>7, <1>8, WriterSight

(* The commit of the last page installs it. *)
LEMMA CommitSweepSight ==
  ASSUME Before, SightInv, NEW h \in Hosts, CommitSweep(h) PROVE SightInv'
<1>1. /\ pc[h] = "committing" /\ pc'[h] = "connected" /\ db' = txn[h]
      /\ \A k \in Hosts \ {h} : pc'[k] = pc[k]
  BY DEF CommitSweep, EndSweep, Before, TypeOK
<1>2. Sighted(db)'
  BY <1>1 DEF SightInv, HostSight
<1>3. HostSight(h)'
  BY <1>1 DEF HostSight
<1> QED BY <1>1, <1>2, <1>3, WriterSight

(* Every step of every host, and of no host, while the clock goes on. *)
LEMMA StepSight ==
  Before /\ TypeOK' /\ SightInv /\ [Next]_vars /\ [ClockStep]_vars => SightInv'
<1> SUFFICES ASSUME Before, TypeOK', SightInv, [Next]_vars, [ClockStep]_vars
             PROVE  SightInv'
  OBVIOUS
<1>1. ASSUME NEW h \in Hosts, Connect(h) PROVE SightInv'
  BY <1>1, ConnectSight
<1>2. ASSUME NEW h \in Hosts, Publish(h) PROVE SightInv'
  <2>1. pc' = pc /\ db' = db /\ sweep' = sweep /\ txn' = txn
    BY <1>2 DEF Publish
  <2> QED BY <2>1 DEF SightInv, HostSight
<1>3. ASSUME NEW h \in Hosts, Crash(h) \/ Disconnect(h) PROVE SightInv'
  BY <1>3, ForgetSight DEF Crash, Disconnect
<1>4. ASSUME NEW h \in Hosts, StartSweep(h) PROVE SightInv'
  BY <1>4, StartSweepSight
<1>5. ASSUME NEW h \in Hosts, ReadFails(h) \/ PageLimit(h) PROVE SightInv'
  BY <1>5, FailSight
<1>6. ASSUME NEW h \in Hosts, PageArrives(h) PROVE SightInv'
  <2>1. ClockStep
    <3>1. pc[h] = "reading" /\ pc'[h] = "ingesting"
      BY <1>6 DEF PageArrives, Before, TypeOK
    <3> QED BY <3>1 DEF vars
  <2> QED BY <1>6, <2>1, PageArrivesSight
<1>7. ASSUME NEW h \in Hosts, NEW l \in LocalIds, NEW o \in Reportable, Ingest(h, l, o)
      PROVE  SightInv'
  BY <1>7, IngestSight
<1>8. ASSUME NEW h \in Hosts, CommitPage(h) PROVE SightInv'
  BY <1>8, CommitPageSight
<1>9. ASSUME NEW h \in Hosts, JudgeSweep(h) PROVE SightInv'
  BY <1>9, JudgeSweepSight
<1>10. ASSUME NEW h \in Hosts, CommitSweep(h) PROVE SightInv'
  BY <1>10, CommitSweepSight
<1>11. CASE UNCHANGED vars
  <2>1. pc' = pc /\ db' = db /\ sweep' = sweep /\ txn' = txn
    BY <1>11 DEF vars
  <2> QED BY <2>1 DEF SightInv, HostSight
<1> QED BY <1>1, <1>2, <1>3, <1>4, <1>5, <1>6, <1>7, <1>8, <1>9, <1>10, <1>11 DEF Next, HostStep

(* While the clock goes on, the head of every record is what the newest crawl that
   saw the record reported. *)
THEOREM SightInvariant == Spec /\ ClockGoesOn => [](Before /\ SightInv)
<1>1. Init => SightInv
  BY InitSight
<1>2. Before /\ TypeOK' /\ SightInv /\ [Next]_vars /\ [ClockStep]_vars => SightInv'
  BY StepSight
<1>3. Before => TypeOK
  BY DEF Before
<1> QED BY <1>1, <1>2, <1>3, SettleInvariant, PTL DEF Spec, ClockGoesOn

-----------------------------------------------------------------------------
(* What the invariant says of blame and of ownership. *)

(* A new retraction gives the reason the rules the sweep took for the record give. *)
LEMMA DeriveReason ==
  ASSUME NEW d \in Databases, NEW c \in Conns, NEW s \in Sweeps, NEW sn \in Snaps,
         NEW reason \in Disqualifications \cup {None},
         NEW t \in settle(d, c, s, sn, reason).retraction \ d.retraction
  PROVE  /\ t.crawl = s.crawl
         /\ t.reason = retraction_reason(sn.meta[t.local], c.derivation, s.fingerprint)
<1> DEFINE live   == live_set(sn.fold, retraction_high_water(d), s.resource)
           absent == live \ (s.observed \cup s.exempt)
           gone   == {l \in absent :
                        within_history(fold_head(sn.fold[l]).obs.at, s.historyStart)}
           why    == [l \in gone |->
                        retraction_reason(sn.meta[l], c.derivation, s.fingerprint)]
           kinds  == ({why[l] : l \in gone} \ {"absent_from_complete_sweep"})
                       \cup (IF gone # absent THEN {"history_start_exempt"} ELSE {})
           noted(k) == append_discrepancies(d, s.resource, k, s.crawl)
           rows == {[local |-> l, revision |-> highest_revision(sn.fold[l]),
                     reason |-> why[l], crawl |-> s.crawl] : l \in gone}
           n == derive_retractions(d, c, s, sn)
<1>1. \A k : /\ noted(k).retraction = d.retraction
             /\ [noted(k) EXCEPT !.retraction = @ \cup rows].retraction = d.retraction \cup rows
  BY DEF append_discrepancies, Databases
<1>2. append_retractions(noted(kinds), gone, sn.fold, why, s.crawl)
        = [noted(kinds) EXCEPT !.retraction = @ \cup rows]
  BY DEF append_retractions
<1>3. n = IF vantage_moved(d, s) THEN noted({"vantage_changed"})
          ELSE IF emptied(live, c, s) THEN noted({"empty_sweep"})
          ELSE append_retractions(noted(kinds), gone, sn.fold, why, s.crawl)
  BY DEF derive_retractions
<1>4. \A r \in rows :
        /\ r.crawl = s.crawl
        /\ r.reason = retraction_reason(sn.meta[r.local], c.derivation, s.fingerprint)
  <2> HIDE DEF gone
  <2> QED OBVIOUS
<1> HIDE DEF live, kinds, gone, rows, noted, why, n
<1>5. n.retraction \subseteq d.retraction \cup rows
  <2>1. CASE vantage_moved(d, s)
    BY <1>1, <1>3, <2>1
  <2>2. CASE ~ vantage_moved(d, s) /\ emptied(live, c, s)
    BY <1>1, <1>3, <2>2
  <2>3. CASE ~ vantage_moved(d, s) /\ ~ emptied(live, c, s)
    <3>1. n = [noted(kinds) EXCEPT !.retraction = @ \cup rows]
      BY <1>2, <1>3, <2>3
    <3> QED BY <1>1, <3>1
  <2> QED BY <2>1, <2>2, <2>3
<1>6. settle(d, c, s, sn, reason).retraction = IF reason = None THEN n.retraction ELSE d.retraction
  BY SettleTables, SettleKeeps DEF n
<1>7. t \in rows
  BY <1>5, <1>6
<1> QED BY <1>4, <1>7

(* The newest crawl that saw a record is the one that saw its head. *)
LEMMA LastSightingIsTheHeads ==
  ASSUME NEW d \in Databases, NEW l \in LocalIds, HeadSeenLast(d), Len(d.chain[l]) # 0
  PROVE  LastSighting(d, l) = d.chain[l][head_revision(Replay(d)[l])].lastSeen
<1> DEFINE m == head_revision(Replay(d)[l])
           seen == {d.chain[l][i].lastSeen : i \in 1..Len(d.chain[l])}
           Newest(c) == \A i \in 1..Len(d.chain[l]) : d.chain[l][i].lastSeen <= c
<1>1. m \in 1..Len(d.chain[l])
  BY HeadRow
<1>2. \A i \in 1..Len(d.chain[l]) : d.chain[l][i].lastSeen \in Nat
  BY RowAt
<1>3. d.chain[l][m].lastSeen \in seen /\ Newest(d.chain[l][m].lastSeen)
  BY <1>1 DEF HeadSeenLast
<1>4. ASSUME NEW c \in seen, Newest(c) PROVE c = d.chain[l][m].lastSeen
  <2>1. PICK i \in 1..Len(d.chain[l]) : c = d.chain[l][i].lastSeen
    OBVIOUS
  <2>2. c <= d.chain[l][m].lastSeen /\ d.chain[l][m].lastSeen <= c
    BY <1>1, <1>3, <1>4, <2>1
  <2>3. c \in Nat /\ d.chain[l][m].lastSeen \in Nat
    BY <1>1, <1>2, <2>1
  <2> QED BY <2>2, <2>3
<1> HIDE DEF seen, Newest, m
<1>5. (CHOOSE c \in seen : Newest(c)) = d.chain[l][m].lastSeen
  BY <1>3, <1>4
<1>6. LastSighting(d, l) = CHOOSE c \in seen : Newest(c)
  BY DEF LastSighting, seen, Newest
<1> QED BY <1>5, <1>6 DEF m

(* The commit of a sweep installs the settlement of a transaction that carries the
   sweep's rules. *)
LEMMA CommitJudged ==
  ASSUME Before, TypeOK', NEW h \in Hosts, CommitSweep(h)
  PROVE  /\ conn[h] \in Conns /\ sweep[h] \in Sweeps /\ snap[h] \in Snaps
         /\ db' \in Databases /\ RevisionsOf(db') /\ RulesOfCrawl(db')
         /\ \A l \in LocalIds \ sweep[h].observed : snap[h].meta[l] = head_meta(db')[l]
         /\ \E d \in Databases, reason \in Disqualifications \cup {None} :
              /\ db' = settle(d, conn[h], sweep[h], snap[h], reason)
              /\ snap[h].fold = Replay(d) /\ d.retraction = db.retraction
              /\ Sound(d) /\ AtWork(d, sweep[h])
              /\ RulesAtWork(d, sweep[h], conn[h].derivation)
<1>1. pc[h] = "committing" /\ db' = txn[h] /\ Sweeping(h) /\ InTxn(h)
  BY DEF CommitSweep, Sweeping, InTxn
<1>2. /\ conn[h] \in Conns /\ sweep[h] \in Sweeps /\ snap[h] \in Snaps /\ db' \in Databases
      /\ RevisionsOf(db') /\ RulesOfCrawl(db')
  BY <1>1 DEF Before, TypeOK, SweepInv, HostInv, SettleInv, HostSettle, Noted
<1>3. \A l \in LocalIds \ sweep[h].observed : snap[h].meta[l] = head_meta(db')[l]
  BY <1>1 DEF Before, SweepInv, HostInv, Current, View
<1> DEFINE reason == disqualifier(conn[h], sweep[h], violated[h])
<1>4. reason \in Disqualifications \cup {None}
  BY DEF disqualifier, Disqualifications
<1>5. Judged(db, db', conn[h], sweep[h], snap[h], violated[h])
  BY <1>1 DEF Before, SettleInv, HostSettle
<1> QED BY <1>2, <1>3, <1>4, <1>5 DEF Judged, Beside

(* A record lost to a change of the software is not taken for one that vanished, and
   none that vanished for one lost to the software: the reason of a retraction is
   read off the rules the record was last seen by, whichever of its rows carries
   them, while the clock goes on. *)
THEOREM BlameIsRight == Spec /\ ClockGoesOn => BlameFollowsTheLastSighting
<1> DEFINE Blamed(t) ==
      LET seen == db'.crawl[LastSighting(db', t.local)]
          now  == db'.crawl[t.crawl]
      IN t.reason =
           IF seen.derivation # now.derivation THEN "derivation_changed"
           ELSE IF seen.fingerprint # now.fingerprint
                THEN "resource_definition_changed"
           ELSE "absent_from_complete_sweep"
           Right == \A t \in Retracted : Blamed(t)
<1>1. ASSUME Before, TypeOK', SightInv, SightInv', [Next]_vars PROVE Right
  <2>1. CASE \A h \in Hosts : ~ CommitSweep(h)
    BY <1>1, <2>1, OnlyTheCommitSettles DEF Retracted
  <2>2. CASE \E h \in Hosts : CommitSweep(h)
    <3> SUFFICES ASSUME NEW t \in Retracted PROVE Blamed(t)
      OBVIOUS
    <3>1. PICK h \in Hosts : CommitSweep(h)
      BY <2>2
    <3> DEFINE c  == conn[h]
               s  == sweep[h]
               sn == snap[h]
               e  == db'
               l  == t.local
               m  == head_revision(Replay(e)[l])
               row == e.chain[l][m]
    <3>2. /\ c \in Conns /\ s \in Sweeps /\ sn \in Snaps /\ e \in Databases
          /\ RevisionsOf(e) /\ RulesOfCrawl(e)
          /\ \A k \in LocalIds \ s.observed : sn.meta[k] = head_meta(e)[k]
      BY <1>1, <3>1, CommitJudged
    <3>3. PICK d \in Databases, reason \in Disqualifications \cup {None} :
            /\ e = settle(d, c, s, sn, reason)
            /\ sn.fold = Replay(d) /\ d.retraction = db.retraction
            /\ Sound(d) /\ AtWork(d, s) /\ RulesAtWork(d, s, c.derivation)
      BY <1>1, <3>1, CommitJudged
    <3>4. HeadSeenLast(e) /\ t \in e.retraction \ d.retraction
      BY <1>1, <3>3 DEF SightInv, Sighted, Retracted
    <3> HIDE DEF c, s, sn, e
    <3>5. /\ t.crawl = s.crawl
          /\ t.reason = retraction_reason(sn.meta[l], c.derivation, s.fingerprint)
      BY <3>2, <3>3, <3>4, DeriveReason
    <3>6. /\ e.chain = d.chain /\ l \notin s.observed /\ Len(e.chain[l]) # 0
      BY <3>2, <3>3, <3>4, SettleStays
    <3>7. l \in LocalIds
      BY <3>2, <3>4, RetractionRow
    <3>8. m \in 1..Len(e.chain[l]) /\ LastSighting(e, l) = row.lastSeen
      BY <3>2, <3>4, <3>6, <3>7, HeadRow, LastSightingIsTheHeads
    <3>9. /\ row.derivation = e.crawl[row.lastSeen].derivation
          /\ row.fingerprint = e.crawl[row.lastSeen].fingerprint
      BY <3>2, <3>7, <3>8 DEF RulesOfCrawl
    <3>10. row \in Rows
      BY <3>2, <3>7, <3>8, RowAt
    <3>11. e.chain[l] # << >>
      <4>1. e.chain[l] \in Seq(Rows)
        BY <3>2, <3>7, Tables DEF Chains
      <4> QED BY <3>6, <4>1
    <3>12. sn.meta[l] = [derivation |-> row.derivation, fingerprint |-> row.fingerprint]
      <4>1. head_meta(e)[l] = [derivation |-> row.derivation, fingerprint |-> row.fingerprint]
        BY <3>2, <3>7, <3>11, HeadMetaIsTheHeads
      <4> QED BY <3>2, <3>6, <3>7, <4>1
    <3>13. sn.meta[l] # None
      BY <3>10, <3>12, BoundsAssumption DEF Rows
    <3>14. /\ e.crawl[s.crawl].derivation = c.derivation
           /\ e.crawl[s.crawl].fingerprint = s.fingerprint
      <4> DEFINE drained == s.page = "drained"
                 complete == reason = None
                 f == finish_crawl(d, s.crawl, drained, complete, reason)
      <4>1. e.crawl = f.crawl /\ s.crawl \in Nat
        BY <3>2, <3>3, SettleCrawl DEF Sweeps
      <4>2. drained \in BOOLEAN /\ complete \in BOOLEAN
        OBVIOUS
      <4> HIDE DEF drained, complete
      <4>3. /\ f.crawl[s.crawl].derivation = d.crawl[s.crawl].derivation
            /\ f.crawl[s.crawl].fingerprint = d.crawl[s.crawl].fingerprint
        BY <3>3, <4>1, <4>2, FinishSound DEF AtWork
      <4> HIDE DEF f
      <4> QED BY <3>3, <4>1, <4>3 DEF RulesAtWork
    <3>15. t.reason =
             IF row.derivation # c.derivation THEN "derivation_changed"
             ELSE IF row.fingerprint # s.fingerprint THEN "resource_definition_changed"
             ELSE "absent_from_complete_sweep"
      <4> DEFINE meta == [derivation |-> row.derivation, fingerprint |-> row.fingerprint]
      <4>1. meta.derivation = row.derivation /\ meta.fingerprint = row.fingerprint
        OBVIOUS
      <4> HIDE DEF meta, row
      <4>2. sn.meta[l] = meta /\ meta # None
        BY <3>12, <3>13 DEF meta
      <4> QED BY <3>5, <4>1, <4>2 DEF retraction_reason
    <3> HIDE DEF row, l, m
    <3> QED BY <3>5, <3>8, <3>9, <3>14, <3>15 DEF e, l
  <2> QED BY <2>1, <2>2
<1>2. Before => TypeOK
  BY DEF Before
<1>3. Before /\ TypeOK' /\ SightInv /\ SightInv' /\ [Next]_vars => [Right]_vars
  BY <1>1
<1>4. BlameFollowsTheLastSighting <=> [][Right]_vars
  BY PTL DEF BlameFollowsTheLastSighting
<1> QED BY <1>2, <1>3, <1>4, SightInvariant, PTL DEF Spec

(* A record that two resources of a provider both report is live under the one
   swept last, and one any sweep has just seen is live at all, while the clock goes
   on and the provider tombstones nothing. *)
THEOREM LastSweepOwns ==
  NoTombstones => (Spec /\ ClockGoesOn => LastSweepOwnsTheRecord)
<1> SUFFICES ASSUME NoTombstones PROVE Spec /\ ClockGoesOn => LastSweepOwnsTheRecord
  OBVIOUS
<1> DEFINE Owns == \A h \in Hosts : pc[h] = "committing" /\ pc'[h] = "connected" =>
             sweep[h].observed \subseteq live_records(db', sweep[h].resource)
<1>1. ASSUME Before, TypeOK', SightInv', HistoryInv, [Next]_vars PROVE Owns
  <2> SUFFICES ASSUME NEW h \in Hosts, pc[h] = "committing", pc'[h] = "connected",
                      NEW l \in sweep[h].observed
               PROVE  l \in live_records(db', sweep[h].resource)
    OBVIOUS
  <2>1. CommitSweep(h)
    <3>1. PICK k \in Hosts : Connect(k) \/ Publish(k) \/ Crash(k) \/ HostStep(k)
      BY <1>1 DEF Next, vars
    <3>2. k = h
      <4>1. \A j \in Hosts \ {h} : pc[j] = "idle"
        BY <1>1, OthersIdle DEF Before, SweepInv
      <4>2. lock # None
        BY <1>1, BoundsAssumption DEF Before, SweepInv, WriterHoldsLock
      <4> QED BY <3>1, <4>1, <4>2 DEF Connect, LockFree, Publish, Crash, HostStep, StartSweep,
             ReadFails, PageLimit, PageArrives, Ingest, CommitPage, JudgeSweep, CommitSweep,
             Disconnect
    <3> QED BY <1>1, <3>1, <3>2 DEF Connect, Publish, Crash, Forget, HostStep, StartSweep,
           ReadFails, PageLimit, PageArrives, Ingest, CommitPage, JudgeSweep, CommitSweep,
           Disconnect, Before, TypeOK
  <2> DEFINE c  == conn[h]
             s  == sweep[h]
             sn == snap[h]
             e  == db'
             m  == head_revision(Replay(e)[l])
             row == e.chain[l][m]
  <2>2. /\ c \in Conns /\ s \in Sweeps /\ sn \in Snaps /\ e \in Databases /\ RulesOfCrawl(e)
        /\ l \in LocalIds
    BY <1>1, <2>1, CommitJudged DEF Sweeps
  <2>3. PICK d \in Databases, reason \in Disqualifications \cup {None} :
          /\ e = settle(d, c, s, sn, reason)
          /\ sn.fold = Replay(d) /\ Sound(d) /\ AtWork(d, s) /\ RulesAtWork(d, s, c.derivation)
    BY <1>1, <2>1, CommitJudged
  <2>4. HeadSeenLast(e) /\ OfResource(e)
    BY <1>1 DEF SightInv, Sighted
  <2>5. ~ is_buried(retraction_high_water(e), l, Len(e.chain[l]))
    <3>1. e = txn[h] /\ Sweeping(h) /\ InTxn(h)
      BY <2>1 DEF CommitSweep, Sweeping, InTxn
    <3> QED BY <1>1, <3>1 DEF HistoryInv, HostHistory, Unburied, View
  <2>6. l \in s.observed
    OBVIOUS
  <2> HIDE DEF c, s, sn, e
  <2>7. /\ e.chain = d.chain /\ Len(e.crawl) = Len(d.crawl)
        /\ e.crawl[s.crawl].resource = s.resource
    <3> DEFINE drained == s.page = "drained"
               complete == reason = None
               f == finish_crawl(d, s.crawl, drained, complete, reason)
    <3>1. e.crawl = f.crawl /\ s.crawl \in Nat /\ e.chain = d.chain
      BY <2>2, <2>3, SettleCrawl, SettleKeeps DEF Sweeps
    <3>2. drained \in BOOLEAN /\ complete \in BOOLEAN
      OBVIOUS
    <3> HIDE DEF drained, complete
    <3>3. f.crawl[s.crawl].resource = d.crawl[s.crawl].resource /\ Len(f.crawl) = Len(d.crawl)
      BY <2>3, <3>1, <3>2, FinishSound DEF AtWork
    <3> HIDE DEF f
    <3> QED BY <2>3, <3>1, <3>3 DEF AtWork
  <2>8. PICK i \in 1..Len(e.chain[l]) : e.chain[l][i].lastSeen = s.crawl
    BY <2>3, <2>6, <2>7 DEF RulesAtWork, Seen, SeenBy
  <2>9. Len(e.chain[l]) \in Nat /\ Len(e.chain[l]) # 0
    BY <2>2, <2>8, ChainLengths
  <2>10. m \in 1..Len(e.chain[l]) /\ fold_head(Replay(e)[l]).obs = row.obs
    BY <2>2, <2>9, HeadRow
  <2>11. row.lastSeen = s.crawl
    <3>1. s.crawl <= row.lastSeen
      BY <2>2, <2>4, <2>8 DEF HeadSeenLast
    <3>2. row.lastSeen \in Nat /\ row.lastSeen <= Len(e.crawl)
      BY <2>2, <2>10, RowAt DEF RulesOfCrawl
    <3>3. s.crawl = Len(e.crawl) /\ Len(e.crawl) \in Nat
      BY <2>3, <2>7, CrawlAt DEF AtWork, Open
    <3> QED BY <3>1, <3>2, <3>3
  <2>12. row.obs.resource = s.resource /\ row.obs.state = "active"
    BY <2>2, <2>4, <2>7, <2>10, <2>11 DEF OfResource, NoTombstones
  <2>13. Replay(e)[l] # << >> /\ Len(Replay(e)[l]) = Len(e.chain[l])
    <3>1. Replay(e)[l] \in Seq(FoldEntries) /\ Len(Replay(e)[l]) = Len(e.chain[l])
      BY <2>2, ReplayType, ReplayLengths
    <3> QED BY <2>9, <3>1
  <2>14. l \in live_records(e, s.resource)
    <3> HIDE DEF row, m
    <3> QED BY <2>2, <2>5, <2>10, <2>12, <2>13 DEF live_records, live_set, highest_revision
  <2> QED BY <2>14 DEF e, s
<1>2. Before => TypeOK
  BY DEF Before
<1>3. Before /\ TypeOK' /\ SightInv' /\ HistoryInv /\ [Next]_vars => [Owns]_vars
  BY <1>1
<1>4. LastSweepOwnsTheRecord <=> [][Owns]_vars
  BY PTL DEF LastSweepOwnsTheRecord
<1> QED BY <1>2, <1>3, <1>4, SightInvariant, HistoryInvariant, PTL DEF Spec
=============================================================================
