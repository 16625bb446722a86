-------------------------------- MODULE Crawl --------------------------------
(* What a paged read with cursor_resumable "exact" promises the host that follows it  *)
(* from a first page to the end (spec/observation.md 5 and 6): what was frozen when   *)
(* the crawl was planned, in the order of the keys, each once, and an account of each *)
(* record no page can carry.  The plan may be lost (the adapter is a process, a reply *)
(* may be lost); the next one holds nothing confirmed at or below what was sent.      *)
EXTENDS Naturals, Sequences

CONSTANTS Keys,              \* the positions of records
          Before(_, _),      \* their order
          Exact(_),          \* the keys that may not be sent again
          Fits(_)            \* the keys whose record a page can carry

VARIABLES open,              \* a reader follows the crawl
          held,              \* the plan it follows is still there
          sent,              \* what it was sent, in order
          told,              \* what it was told it cannot be sent
          left               \* what the plan still holds for it

vars == <<open, held, sent, told, left>>

Members(s) == {s[i] : i \in DOMAIN s}

Ordered(s) == \A i, j \in DOMAIN s : i < j => Before(s[i], s[j])

(* A plan for a reader that already has `sent`. *)
Fresh(plan) ==
  /\ plan \in Seq(Keys) /\ Ordered(plan)
  /\ \A k \in Members(plan), l \in Members(sent) : Exact(k) /\ Exact(l) => Before(l, k)

Init == ~open /\ ~held /\ sent = <<>> /\ told = {} /\ left = <<>>

(* A reader begins from the start, or goes on from where it stopped. *)
Begin ==
  /\ ~open /\ open'
  /\ \/ ~held' /\ sent' = <<>> /\ told' = {} /\ left' = <<>>
     \/ UNCHANGED <<held, sent, told, left>>

Plan == ~held /\ held' /\ Fresh(left') /\ UNCHANGED <<open, sent, told>>

Lost == ~held' /\ left' = <<>>

Lose == held /\ Lost /\ UNCHANGED <<open, sent, told>>

(* What is sent is what was, and these in their order. *)
Sends(S) ==
  LET page == SubSeq(sent', Len(sent) + 1, Len(sent'))
  IN  /\ sent' = sent \o page
      /\ Members(page) = S /\ Ordered(page)

(* A page is the front of the plan; what it must leave out is reported with it, and may *)
(* be reported again.  The page after which nothing is left ends the crawl.  A cursor   *)
(* may forget how far it was among the keys that are not exact, and find them again.    *)
Page ==
  /\ open /\ held
  /\ \E n \in 0 .. Len(left) :
       LET page == SubSeq(left, 1, n)
           rest == SubSeq(left, n + 1, Len(left))
           omitted(s) == {k \in Members(s) : ~Fits(k)}
       IN  /\ Sends({k \in Members(page) : Fits(k)})
           /\ told \union omitted(page) \subseteq told'
           /\ told' \subseteq told \union omitted(left)
           /\ Ordered(left') /\ left' \in Seq(Keys)
           /\ Members(rest) \subseteq Members(left')
           /\ \A k \in Members(left') \ Members(rest) : ~Exact(k)
  /\ open' = held'
  /\ ~held' => left' = <<>>

(* The reader stops before the end. *)
Stop == open /\ ~open' /\ UNCHANGED <<sent, told>> /\ (Lost \/ UNCHANGED <<held, left>>)

Next == Begin \/ Plan \/ Lose \/ Page \/ Stop

Spec == Init /\ [][Next]_vars

------------------------------------------------------------------------------
(* No record that may not be sent again is ever sent again, or after one it precedes: *)
(* what the exact cursor of spec/observation.md 5 is for, across every page and plan. *)
ExactlyOnce ==
  \A i, j \in DOMAIN sent :
    i < j /\ Exact(sent[i]) /\ Exact(sent[j]) => Before(sent[i], sent[j])
==============================================================================
