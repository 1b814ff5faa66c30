------------------------------ MODULE Fetching ------------------------------
(***************************************************************************)
(* The pages of one bulk scan while they are fetched: the tasks of          *)
(* scanner/bulk.py (fetch_pages), the retries, redirects and deadlines of   *)
(* core/fetch.py inside each task, and execute_bulk_scan, which takes the   *)
(* results one by one in the order in which they settle.                    *)
(*                                                                         *)
(* Time passes in ticks, and not past a deadline that has come: the event   *)
(* loop runs what is due before it waits again.                             *)
(***************************************************************************)
EXTENDS Naturals, Sequences, FiniteSets

CONSTANTS
  Target,         \* pages of the list
  Concurrency,    \* bulk_concurrency
  BulkBudget,     \* bulk_total_budget_seconds
  PageTimeout,    \* bulk_page_timeout_seconds
  TotalTimeout,   \* fetch_total_timeout_seconds, of one attempt
  Retries,        \* fetch_retry_count
  Redirects,      \* fetch_max_redirects
  PageScores      \* scores a page can get

ASSUME FetchingAssumption ==
  /\ {Concurrency, PageTimeout, TotalTimeout} \subseteq Nat \ {0}
  /\ {BulkBudget, Retries, Redirects} \subseteq Nat
  /\ PageScores \subseteq Nat
  /\ IsFiniteSet(Target) /\ "none" \notin Target

VARIABLES
  fetchNow,
  task,     \* tasks: where each is, when it and its attempt began, its attempts and hops
  settled,  \* pages whose task has ended and is still to be taken, in that order
  bulk,     \* execute_bulk_scan: what it has added up
  asked     \* history: requests for each page, and those after a final answer

ftVars == <<fetchNow, task, settled, bulk, asked>>

Waiting == [pc |-> "waiting", began |-> 0, attempt |-> 0, since |-> 0, hops |-> 0, result |-> "none"]

FTInit ==
  /\ fetchNow = 0 /\ task = [p \in Target |-> Waiting] /\ settled = <<>>
  /\ bulk = [scored |-> 0, sum |-> 0, failed |-> 0, skipped |-> 0, best |-> "none", worst |-> "none", of |-> [p \in Target |-> 0]]
  /\ asked = [p \in Target |-> 0]

Underway == {p \in Target : task[p].pc \in {"page", "backoff", "extras"}}
Settle(p, result) == /\ task' = [task EXCEPT ![p].pc = "settled", ![p].result = result]
                     /\ settled' = Append(settled, p)
Request(p) == asked' = [asked EXCEPT ![p] = @ + 1]
Quietly == UNCHANGED asked

----------------------------------------------------------------------------
(* _one: the semaphore, the budget, and a fetch under the page's timeout.  *)

HasSlot(p) == task[p].pc = "waiting" /\ Cardinality(Underway) < Concurrency

\* Wrong: the budget is not looked at again.
StartAnyhow(p) ==
  /\ HasSlot(p)
  /\ task' = [task EXCEPT ![p] = [@ EXCEPT !.pc = "page", !.began = fetchNow,
                                           !.since = fetchNow, !.attempt = 1]]
  /\ UNCHANGED settled /\ Request(p)
  /\ UNCHANGED <<fetchNow, bulk>>

Start(p) ==
  /\ HasSlot(p)
  /\ IF fetchNow >= BulkBudget
       THEN Settle(p, "not attempted") /\ Quietly
       ELSE /\ task' = [task EXCEPT ![p] = [@ EXCEPT !.pc = "page", !.began = fetchNow,
                                                     !.since = fetchNow, !.attempt = 1]]
            /\ UNCHANGED settled /\ Request(p)
  /\ UNCHANGED <<fetchNow, bulk>>

\* The URL, or the target of a redirect, is not allowed any more; another error.
Refused(p) == /\ task[p].pc = "page" /\ Settle(p, "error") /\ Quietly
              /\ UNCHANGED <<fetchNow, bulk>>

\* _fetch_page: one more hop, and the hops are limited
Redirect(p) ==
  /\ task[p].pc = "page"
  /\ IF task[p].hops < Redirects
       THEN task' = [task EXCEPT ![p].hops = @ + 1] /\ UNCHANGED settled /\ Request(p)
       ELSE Settle(p, "error") /\ Quietly
  /\ UNCHANGED <<fetchNow, bulk>>

\* Any answer but 502, 503 and 504
Respond(p) == /\ task[p].pc = "page" /\ task' = [task EXCEPT ![p].pc = "extras"]
              /\ UNCHANGED <<fetchNow, settled, bulk, asked>>

\* _with_retry: a passing failure, or the deadline of the attempt
Transient(p) ==
  /\ task[p].pc = "page"
  /\ IF task[p].attempt <= Retries
       THEN task' = [task EXCEPT ![p].pc = "backoff", ![p].since = fetchNow] /\ UNCHANGED settled
       ELSE Settle(p, "error")
  /\ Quietly /\ UNCHANGED <<fetchNow, bulk>>
AttemptTimesOut(p) == fetchNow >= task[p].since + TotalTimeout /\ Transient(p)

\* The pause before an attempt is shorter than a tick or a tick long.
Again(p) ==
  /\ task[p].pc = "backoff"
  /\ task' = [task EXCEPT ![p] = [@ EXCEPT !.pc = "page", !.attempt = task[p].attempt + 1, !.since = fetchNow, !.hops = 0]]
  /\ Request(p) /\ UNCHANGED <<fetchNow, settled, bulk>>

\* robots.txt, llms.txt and the sitemap never raise.
Extras(p) == /\ task[p].pc = "extras" /\ Settle(p, "page") /\ Quietly
             /\ UNCHANGED <<fetchNow, bulk>>

PageTimesOut(p) ==
  /\ p \in Underway /\ fetchNow >= task[p].began + PageTimeout
  /\ Settle(p, "error") /\ Quietly /\ UNCHANGED <<fetchNow, bulk>>

----------------------------------------------------------------------------
(* execute_bulk_scan                                                       *)

Better(s) == bulk.best = "none" \/ s > bulk.of[bulk.best]
Worse(s) == bulk.worst = "none" \/ s < bulk.of[bulk.worst]

Consume ==
  /\ settled # <<>> /\ settled' = Tail(settled)
  /\ LET p == Head(settled) IN
     /\ task' = [task EXCEPT ![p].pc = "taken"]
     /\ \/ task[p].result = "not attempted" /\ bulk' = [bulk EXCEPT !.skipped = @ + 1]
        \* an error, or an answer that is not a page
        \/ task[p].result \in {"error", "page"} /\ bulk' = [bulk EXCEPT !.failed = @ + 1]
        \/ /\ task[p].result = "page"
           /\ \E s \in PageScores :
                bulk' = [bulk EXCEPT !.scored = @ + 1, !.sum = @ + s, !.of[p] = s,
                                     !.best = IF Better(s) THEN p ELSE @,
                                     !.worst = IF Worse(s) THEN p ELSE @]
  /\ UNCHANGED <<fetchNow, asked>>

Unsettled == {p \in Target : task[p].pc \notin {"settled", "taken"}}
Due == \/ \E p \in Target : HasSlot(p) \/ (task[p].pc = "backoff" /\ fetchNow > task[p].since)
       \/ \E p \in Underway : fetchNow >= task[p].began + PageTimeout
       \/ \E p \in Target : task[p].pc = "page" /\ fetchNow >= task[p].since + TotalTimeout

FetchTick == ~Due /\ Unsettled # {} /\ fetchNow' = fetchNow + 1 /\ UNCHANGED <<task, settled, bulk, asked>>

FTNext ==
  \/ \E p \in Target : \/ Start(p) \/ Refused(p) \/ Redirect(p) \/ Respond(p) \/ Transient(p)
                     \/ AttemptTimesOut(p) \/ Again(p) \/ Extras(p) \/ PageTimesOut(p)
  \/ Consume \/ FetchTick

FTSpec == FTInit /\ [][FTNext]_ftVars

----------------------------------------------------------------------------

(***************************************************************************)
(* The whole fetch is over by the budget and one page's timeout after it,   *)
(* however pages time out, retry and redirect (bulk.py:364-368).            *)
(***************************************************************************)
BudgetKept == Unsettled # {} => fetchNow <= BulkBudget + PageTimeout

(***************************************************************************)
(* A page is asked for no more often than the attempts and the redirects of *)
(* the settings allow, and no request is made for one that was given up.    *)
(***************************************************************************)
RequestsBounded ==
  \A p \in Target : /\ asked[p] <= (Retries + 1) * (Redirects + 1)
                  /\ task[p].result = "not attempted" => asked[p] = 0

(***************************************************************************)
(* Every page ends up in one of the sums, whichever order they settle in;   *)
(* the best and the worst page are pages that were scored, and the average  *)
(* lies between them (routes_scan.py:551-590).                              *)
(***************************************************************************)
PagesAccounted ==
  LET taken == {p \in Target : task[p].pc = "taken"}
      n == bulk.scored IN
  /\ n + bulk.failed + bulk.skipped = Cardinality(taken)
  /\ n > 0 => /\ {bulk.best, bulk.worst} \subseteq taken
              /\ bulk.of[bulk.worst] * n <= bulk.sum /\ bulk.sum <= bulk.of[bulk.best] * n

\* A bulk scan ends in time, asks within its limits, and loses no page (bulk.py, fetch.py).
FetchSound == BudgetKept /\ RequestsBounded /\ PagesAccounted
=============================================================================
