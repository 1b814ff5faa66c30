------------------------------- MODULE Ingest -------------------------------
(***************************************************************************)
(* First-party analytics: the public collector and the server-to-server    *)
(* confirmation (api/routes_tracking.py, services/analytics/ingest.py),    *)
(* and the figures read back from the rows (services/analytics/            *)
(* aggregation.py).  A request reads what exists, decides, and commits;    *)
(* only the unique indexes of the tables stand between two requests.       *)
(***************************************************************************)
EXTENDS Integers, FiniteSets

CONSTANTS
  Visit,      \* the session ids browsers have generated
  Test,       \* the visits that land on the diagnostic marker
  Views,      \* pageviews of one visit; the first one is the landing page
  Order,      \* external ids of conversions
  IGCaller,   \* requests served at once
  IGOps       \* bound: requests ever made

ASSUME IngestAssumption ==
  /\ Test \subseteq Visit /\ Views \in Nat \ {0} /\ IGOps \in Nat
  /\ "none" \notin Visit /\ "none" \notin Order

NoVisit == "none"
NoView == 0
NoOrder == "none"
Unvalued == 0
Amount == 1 .. 2

VARIABLES
  visit,      \* analytics_sessions: made, landed on the marker, page_view_count
  viewed,     \* analytics_pageviews: <<visit, n>>
  order,      \* analytics_conversions: made, its visit, value, verified
  event,        \* what each request has read
  igops,
  confirmed,  \* history: <<order, value>> of every committed confirmation
  crossed     \* history: visits two of whose batches were served at once

igVars == <<visit, viewed, order, event, igops, confirmed, crossed>>

IGIdle == [pc |-> "idle", kind |-> "batch", visit |-> NoVisit, view |-> NoView,
           order |-> NoOrder, value |-> Unvalued, seen |-> NoVisit, count |-> 0,
           dupe |-> FALSE, row |-> "none", linked |-> FALSE]

IGInit ==
  /\ visit = [s \in Visit |-> [made |-> FALSE, test |-> FALSE, views |-> 0]]
  /\ viewed = {}
  /\ order = [o \in Order |-> [made |-> FALSE, visit |-> NoVisit, value |-> Unvalued, verified |-> FALSE]]
  /\ event = [q \in IGCaller |-> IGIdle]
  /\ igops = 0 /\ confirmed = {} /\ crossed = {}

IGGo(q, r) == event' = [event EXCEPT ![q] = r]
IGStored == UNCHANGED <<visit, viewed, order, confirmed>>

-----------------------------------------------------------------------------
(* The requests.  A batch holds a pageview, a conversion, or one of each    *)
(* in the order of the tracker's queue.                                     *)

Overlaps(s) == \E q \in IGCaller : event[q].pc # "idle" /\ event[q].kind = "batch" /\ event[q].visit = s

Collect(q) ==
  /\ event[q].pc = "idle" /\ igops < IGOps /\ igops' = igops + 1
  /\ \E s \in Visit, n \in 0 .. Views, o \in Order \union {NoOrder}, v \in {Unvalued, 1} :
       /\ n # NoView \/ o # NoOrder
       /\ o = NoOrder => v = Unvalued
       /\ IGGo(q, [IGIdle EXCEPT !.pc = IF n = NoView THEN "order" ELSE "visit", !.visit = s,
                                 !.view = n, !.order = o, !.value = v])
       /\ crossed' = IF Overlaps(s) THEN crossed \union {s} ELSE crossed
  /\ IGStored

\* The customer's server, with the key of the site; the visit is optional.
Confirm(q) ==
  /\ event[q].pc = "idle" /\ igops < IGOps /\ igops' = igops + 1
  /\ \E s \in Visit \union {NoVisit}, o \in Order, v \in {Unvalued, 2} :
       IGGo(q, [IGIdle EXCEPT !.pc = "order", !.kind = "confirm", !.visit = s, !.order = o, !.value = v])
  /\ IGStored /\ UNCHANGED crossed

-----------------------------------------------------------------------------
(* What a request reads.                                                    *)

\* get_or_create_session
ReadVisit(q) ==
  LET s == event[q].visit IN
  /\ event[q].pc = "visit"
  /\ IGGo(q, [event[q] EXCEPT !.pc = "view", !.seen = IF visit[s].made THEN s ELSE NoVisit,
                            !.count = visit[s].views])
  /\ IGStored /\ UNCHANGED <<igops, crossed>>

\* record_pageview
ReadView(q) ==
  LET r == event[q] IN
  /\ r.pc = "view"
  /\ IGGo(q, [r EXCEPT !.pc = IF r.order = NoOrder THEN "commit" ELSE "order",
                       !.dupe = <<r.visit, r.view>> \in viewed])
  /\ IGStored /\ UNCHANGED <<igops, crossed>>

\* The visit of the conversion, which a pageview of the same batch has made,
\* and record_conversion's look at the row.
ReadOrder(q) ==
  LET r == event[q] IN
  /\ r.pc = "order"
  /\ IGGo(q, [r EXCEPT
       !.pc = "commit",
       !.linked = r.visit # NoVisit /\ (r.view # NoView \/ visit[r.visit].made),
       !.row = CASE ~ order[r.order].made -> "none"
                 [] order[r.order].verified -> "verified"
                 [] order[r.order].visit = NoVisit -> "unlinked"
                 [] OTHER -> "reported"])
  /\ IGStored /\ UNCHANGED <<igops, crossed>>

-----------------------------------------------------------------------------
(* The commit: everything the request adds and updates, or nothing.         *)

Adds(r) == [visit |-> r.view # NoView /\ r.seen = NoVisit,
            view |-> r.view # NoView /\ ~ r.dupe,
            order |-> r.order # NoOrder /\ r.row = "none"]

\* A row of its own that somebody has committed since: the unique index raises.
Clashes(r) ==
  \/ Adds(r).visit /\ visit[r.visit].made
  \/ Adds(r).view /\ <<r.visit, r.view>> \in viewed
  \/ Adds(r).order /\ order[r.order].made

Counted(r) == r.count + (IF r.dupe THEN 0 ELSE 1)

WriteVisit(r) ==
  IF r.view = NoView \/ (r.dupe /\ r.seen # NoVisit) THEN visit
  ELSE [visit EXCEPT ![r.visit] =
         [made |-> TRUE, views |-> Counted(r),
          test |-> IF Adds(r).visit THEN r.visit \in Test /\ r.view = 1 ELSE @.test]]

Upgrades(r) == r.kind = "confirm" /\ r.row \in {"unlinked", "reported"}

\* Wrong: whatever comes last is what the row says.
WriteOrderLast(r) ==
  IF r.order = NoOrder THEN order
  ELSE [order EXCEPT ![r.order] =
         [made |-> TRUE, visit |-> IF r.linked THEN r.visit ELSE @.visit,
          value |-> r.value, verified |-> r.kind = "confirm"]]
WriteOrder(r) ==
  IF Adds(r).order
  THEN [order EXCEPT ![r.order] = [made |-> TRUE, visit |-> IF r.linked THEN r.visit ELSE NoVisit,
                                   value |-> r.value, verified |-> r.kind = "confirm"]]
  ELSE IF Upgrades(r)
  THEN [order EXCEPT ![r.order] =
         [made |-> TRUE, verified |-> TRUE,
          value |-> IF r.value # Unvalued THEN r.value ELSE @.value,
          visit |-> IF r.linked /\ r.row = "unlinked" THEN r.visit ELSE @.visit]]
  ELSE order

Commit(q) ==
  LET r == event[q] IN
  /\ r.pc = "commit" /\ ~ Clashes(r)
  /\ visit' = WriteVisit(r)
  /\ viewed' = IF Adds(r).view THEN viewed \union {<<r.visit, r.view>>} ELSE viewed
  /\ order' = WriteOrder(r)
  /\ confirmed' = IF r.kind = "confirm" THEN confirmed \union {<<r.order, r.value>>} ELSE confirmed
  /\ IGGo(q, IGIdle) /\ UNCHANGED <<igops, crossed>>

\* The request answers 500, and the tracker has emptied its queue already.
Clash(q) ==
  /\ event[q].pc = "commit" /\ Clashes(event[q])
  /\ IGGo(q, IGIdle) /\ IGStored /\ UNCHANGED <<igops, crossed>>

\* The process of a request dies.
RequestDies(q) ==
  /\ event[q].pc # "idle"
  /\ IGGo(q, IGIdle) /\ IGStored /\ UNCHANGED <<igops, crossed>>

IGNext == \E q \in IGCaller :
  \/ Collect(q) \/ Confirm(q)
  \/ ReadVisit(q) \/ ReadView(q) \/ ReadOrder(q)
  \/ Commit(q) \/ Clash(q) \/ RequestDies(q)

IGSpec == IGInit /\ [][IGNext]_igVars

-----------------------------------------------------------------------------
(* The figures of the dashboard.                                            *)

Genuine(o) == order[o].visit = NoVisit \/ ~ visit[order[o].visit].test
ConfirmedOrders == {o \in Order : order[o].made /\ order[o].verified /\ Genuine(o)}

IGTypeOK ==
  /\ visit \in [Visit -> [made : BOOLEAN, test : BOOLEAN, views : 0 .. IGOps]]
  /\ viewed \subseteq Visit \X (1 .. Views)
  /\ order \in [Order -> [made : BOOLEAN, visit : Visit \union {NoVisit},
                          value : {Unvalued} \union Amount, verified : BOOLEAN]]
  /\ igops \in 0 .. IGOps /\ crossed \subseteq Visit

(***************************************************************************)
(* A beacon that arrives twice, or a batch that fails half-way, never      *)
(* inflates a visit: its page view count is the number of its pageview     *)
(* rows, and can only be less when two batches of the visit overlapped.    *)
(***************************************************************************)
ViewsCounted == \A s \in Visit :
  LET rows == Cardinality({w \in viewed : w[1] = s}) IN
  /\ visit[s].views <= rows
  /\ visit[s].views < rows => s \in crossed
  /\ rows > 0 => visit[s].made

(***************************************************************************)
(* A conversion the customer's server has confirmed stays confirmed, with  *)
(* a value that server gave whenever it gave one, whatever browsers report *)
(* before, after or meanwhile; nothing else is ever confirmed; and only a  *)
(* visit on the diagnostic marker keeps it out of the figures.             *)
(***************************************************************************)
ConfirmedStands == \A o \in Order :
  LET given == {c[2] : c \in {d \in confirmed : d[1] = o}} IN
  /\ order[o].verified <=> given # {}
  /\ (given # {} /\ Unvalued \notin given) => order[o].value \in given
  /\ order[o].verified /\ o \notin ConfirmedOrders => order[o].visit \in Test

\* Neither pageviews nor conversions are counted twice, lost or made up.
EventsSound == ViewsCounted /\ ConfirmedStands
=============================================================================
