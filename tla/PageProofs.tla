----------------------------- MODULE PageProofs -----------------------------
(***************************************************************************)
(* What holds of the pages of a site, for any values of the constants: the *)
(* fetching of a bulk scan (Fetching), the findings of a crawl (Findings), *)
(* the page value runs (PageValue), the re-checks of the fixes (Fixes),    *)
(* the reports and their share links (Reports).                            *)
(***************************************************************************)
EXTENDS PageValue, Fixes, Reports, Fetching, Findings, SequenceTheorems,
        FiniteSetTheorems, WellFoundedInduction, TLAPS

(***************************************************************************)
(* The pages of a bulk scan (Fetching)                                     *)
(***************************************************************************)

\* The tasks of the pages, and the totals of the bulk
PageSteps == {"page", "backoff", "extras"}
PageTask == [pc : {"waiting", "settled", "taken"} \union PageSteps, began : Nat, attempt : Nat, since : Nat,
         hops : Nat, result : {"none", "not attempted", "error", "page"}]
Bulk == [scored : Nat, sum : Nat, failed : Nat, skipped : Nat, best : Target \union {"none"},
         worst : Target \union {"none"}, of : [Target -> Nat]]

\* The types
FetchTypes ==
  /\ fetchNow \in Nat
  /\ task \in [Target -> PageTask]
  /\ settled \in Seq(Target)
  /\ bulk \in Bulk
  /\ asked \in [Target -> Nat]

\* The requests of so many attempts
Requests(attempts) == attempts * (Redirects + 1)

\* What a task has spent of its budget and of its requests fits how far it is.
TaskOK(t, n) ==
  /\ t.pc = "waiting" => n = 0 /\ t.result = "none" /\ t.hops = 0
  /\ t.pc \in PageSteps => /\ t.result = "none" /\ t.began < BulkBudget
                       /\ t.attempt \in 1 .. Retries + 1 /\ t.hops <= Redirects
                       /\ n <= Requests(t.attempt - 1) + t.hops + 1
  /\ t.pc = "backoff" => t.attempt <= Retries
  /\ t.pc \in {"settled", "taken"} => t.result # "none"
  /\ n <= Requests(Retries + 1)
  /\ t.result = "not attempted" => n = 0

(***************************************************************************)
(* The inductive invariant of one page (core/fetch.py, _with_retry and     *)
(* _fetch_page; scanner/bulk.py, _one): a task begins before the budget    *)
(* ends, and its requests are at most those of the attempts before and one *)
(* for each redirect since.                                                *)
(***************************************************************************)
TasksInv == FetchTypes /\ BudgetKept /\ \A p \in Target : TaskOK(task[p], asked[p])

\* What the assumption says of the bounds
LEMMA FetchNats == /\ Concurrency \in Nat \ {0} /\ PageTimeout \in Nat \ {0} /\ TotalTimeout \in Nat \ {0}
                   /\ BulkBudget \in Nat /\ Retries \in Nat /\ Redirects \in Nat /\ PageScores \subseteq Nat
BY FetchingAssumption

\* One attempt more is one attempt's requests more.
LEMMA RequestsGrow ==
  /\ Requests(0) = 0 /\ \A a \in Nat : Requests(a) \in Nat
  /\ \A a \in Nat : Requests(a + 1) = Requests(a) + Redirects + 1
  /\ \A a \in 0 .. Retries : Requests(a + 1) <= Requests(Retries + 1)
<1>1. Redirects \in Nat /\ Retries \in Nat BY FetchNats
<1>2. Requests(0) = 0 BY <1>1 DEF Requests
<1>3. \A a \in Nat : Requests(a) \in Nat BY <1>1 DEF Requests
<1>4. \A a \in Nat : Requests(a + 1) = Requests(a) + Redirects + 1 BY <1>1 DEF Requests
<1>5. ASSUME NEW a \in 0 .. Retries PROVE Requests(a + 1) <= Requests(Retries + 1)
  <2> DEFINE k == Retries - a
  <2>1. k \in Nat /\ a \in Nat /\ Retries + 1 = (a + 1) + k BY <1>1
  <2>2. Requests(Retries + 1) = Requests(a + 1) + k * (Redirects + 1)
    <3> HIDE DEF k
    <3>1. ((a + 1) + k) * (Redirects + 1) = (a + 1) * (Redirects + 1) + k * (Redirects + 1) BY <1>1, <2>1
    <3> QED  BY <2>1, <3>1 DEF Requests
  <2>3. k * (Redirects + 1) \in Nat /\ Requests(a + 1) \in Nat
    <3> HIDE DEF k
    <3> QED  BY <1>1, <1>3, <2>1
  <2> QED  BY <2>2, <2>3
<1> QED  BY <1>2, <1>3, <1>4, <1>5

\* A task moves on: underway, or settled
Goes(p, t) ==
  /\ task' = [task EXCEPT ![p] = t] /\ task[p].pc \in {"waiting"} \union PageSteps
  /\ \/ t.pc \in PageSteps /\ settled' = settled
     \/ t.pc = "settled" /\ settled' = Append(settled, p)
  /\ asked' = asked \/ asked' = [asked EXCEPT ![p] = @ + 1]
  /\ TaskOK(t, asked'[p])
  /\ UNCHANGED <<fetchNow, bulk>>

\* The steps of one page
TaskStep(p) == Start(p) \/ Refused(p) \/ Redirect(p) \/ Respond(p) \/ Transient(p)
               \/ AttemptTimesOut(p) \/ Again(p) \/ Extras(p) \/ PageTimesOut(p)

\* The columns of a task
LEMMA TaskColumns ==
  /\ \A t \in PageTask : \A r \in {"not attempted", "error", "page"} : [t EXCEPT !.pc = "settled", !.result = r] \in PageTask
       /\ [t EXCEPT !.pc = "settled", !.result = r].pc = "settled" /\ [t EXCEPT !.pc = "settled", !.result = r].result = r
  /\ \A t \in PageTask : \A n \in Nat : [t EXCEPT !.pc = "page", !.began = n, !.since = n, !.attempt = 1] \in PageTask
  /\ \A t \in PageTask : \A n \in Nat : [t EXCEPT !.hops = n] \in PageTask
  /\ \A t \in PageTask : [t EXCEPT !.pc = "extras"] \in PageTask
  /\ \A t \in PageTask : [t EXCEPT !.pc = "taken"] \in PageTask
  /\ \A t \in PageTask : \A n \in Nat : [t EXCEPT !.pc = "backoff", !.since = n] \in PageTask
  /\ \A t \in PageTask : \A a, n \in Nat : [t EXCEPT !.pc = "page", !.attempt = a, !.since = n, !.hops = 0] \in PageTask
BY DEF PageTask, PageSteps

\* A task that settles is well typed and within its budget.
LEMMA SettleGoes ==
  ASSUME TasksInv, NEW p \in Target, NEW r \in {"not attempted", "error", "page"}, Settle(p, r),
         UNCHANGED <<fetchNow, bulk, asked>>, task[p].pc \in {"waiting"} \union PageSteps,
         r = "not attempted" => asked[p] = 0
  PROVE  \E t \in PageTask : Goes(p, t)
<1> DEFINE t == [task[p] EXCEPT !.pc = "settled", !.result = r]
<1>1. task[p] \in PageTask /\ TaskOK(task[p], asked[p]) BY DEF TasksInv, FetchTypes
<1>2. task' = [task EXCEPT ![p] = t] /\ settled' = Append(settled, p) BY DEF Settle
<1>3. t \in PageTask /\ t.pc = "settled" /\ t.result = r BY <1>1, TaskColumns
<1> HIDE DEF t
<1>4. TaskOK(t, asked[p]) BY <1>1, <1>3 DEF TaskOK, PageSteps
<1> QED  BY <1>2, <1>3, <1>4 DEF Goes

\* Every step of a page leads to a task within its budget.
LEMMA TasksGo == ASSUME TasksInv, NEW p \in Target, TaskStep(p) PROVE \E t \in PageTask : Goes(p, t)
<1>1. task[p] \in PageTask /\ TaskOK(task[p], asked[p]) /\ fetchNow \in Nat /\ asked[p] \in Nat /\ task[p].hops \in Nat
      /\ task[p].attempt \in Nat /\ asked \in [Target -> Nat]
  BY DEF TasksInv, FetchTypes, PageTask
<1> USE FetchNats
<1>2. CASE Start(p)
  <2>1. task[p].pc = "waiting" /\ UNCHANGED <<fetchNow, bulk>> BY <1>2 DEF Start, HasSlot
  <2>2. CASE fetchNow >= BulkBudget
    <3>1. Settle(p, "not attempted") /\ asked' = asked BY <1>2, <2>2 DEF Start, Quietly
    <3>2. asked[p] = 0 BY <1>1, <2>1 DEF TaskOK
    <3> QED  BY <2>1, <3>1, <3>2, SettleGoes
  <2>3. CASE ~ (fetchNow >= BulkBudget)
    <3> DEFINE t == [task[p] EXCEPT !.pc = "page", !.began = fetchNow, !.since = fetchNow, !.attempt = 1]
    <3>1. task' = [task EXCEPT ![p] = t] /\ settled' = settled /\ asked' = [asked EXCEPT ![p] = @ + 1]
      BY <1>2, <2>3 DEF Start, Request
    <3>2. t \in PageTask BY <1>1, TaskColumns
    <3>3. t.pc = "page" /\ t.began = fetchNow /\ t.attempt = 1 /\ t.hops = task[p].hops /\ t.result = task[p].result
      BY <1>1 DEF PageTask
    <3> HIDE DEF t
    <3>4. asked'[p] = 1 /\ t.hops = 0 /\ t.result = "none" BY <1>1, <2>1, <3>1, <3>3 DEF TaskOK
    <3>5. 1 <= Requests(Retries + 1) /\ Requests(0) = 0
      <4>1. Requests(0 + 1) = Requests(0) + Redirects + 1 /\ Requests(0 + 1) <= Requests(Retries + 1) /\ Requests(0) = 0
            /\ Requests(Retries + 1) \in Nat
        BY RequestsGrow
      <4> QED  BY <4>1
    <3>6. TaskOK(t, asked'[p])
      <4>1. 1 - 1 = 0 /\ fetchNow < BulkBudget BY <1>1, <2>3
      <4> QED  BY <3>3, <3>4, <3>5, <4>1 DEF TaskOK, PageSteps
    <3> QED  BY <2>1, <3>1, <3>2, <3>3, <3>6 DEF Goes, PageSteps
  <2> QED  BY <2>2, <2>3
<1>3. CASE Refused(p) BY <1>3, SettleGoes DEF Refused, Quietly, PageSteps
<1>4. CASE Redirect(p)
  <2>1. task[p].pc = "page" /\ UNCHANGED <<fetchNow, bulk>> BY <1>4 DEF Redirect
  <2>2. CASE task[p].hops < Redirects
    <3> DEFINE t == [task[p] EXCEPT !.hops = task[p].hops + 1]
    <3>1. task' = [task EXCEPT ![p] = t] /\ settled' = settled /\ asked' = [asked EXCEPT ![p] = @ + 1]
      BY <1>4, <2>2 DEF Redirect, Request
    <3>2. t \in PageTask
      <4>1. \A n \in Nat : [task[p] EXCEPT !.hops = n] \in PageTask BY <1>1, TaskColumns
      <4>2. task[p].hops + 1 \in Nat BY <1>1
      <4> QED  BY <4>1, <4>2
    <3>3. t.pc = "page" /\ t.began = task[p].began /\ t.attempt = task[p].attempt /\ t.hops = task[p].hops + 1 /\ t.result = task[p].result
      BY <1>1, <2>1 DEF PageTask
    <3> HIDE DEF t
    <3>4. asked'[p] = asked[p] + 1 BY <1>1, <3>1
    <3>5. /\ task[p].attempt \in 1 .. Retries + 1 /\ asked[p] <= Requests(task[p].attempt - 1) + task[p].hops + 1
          /\ task[p].result = "none" /\ task[p].began < BulkBudget
      BY <1>1, <2>1 DEF TaskOK, PageSteps
    <3>6. /\ Requests(task[p].attempt - 1) \in Nat /\ Requests(Retries + 1) \in Nat
          /\ Requests(task[p].attempt - 1) + Redirects + 1 <= Requests(Retries + 1)
      <4> DEFINE a == task[p].attempt - 1
      <4>1. a \in 0 .. Retries /\ a \in Nat BY <3>5
      <4> HIDE DEF a
      <4>2. Requests(a) \in Nat /\ Requests(a + 1) = Requests(a) + Redirects + 1 /\ Requests(a + 1) <= Requests(Retries + 1)
            /\ Requests(Retries + 1) \in Nat BY <4>1, RequestsGrow
      <4>3. Requests(a) + Redirects + 1 <= Requests(Retries + 1) BY <4>2
      <4> QED  BY <4>2, <4>3 DEF a
    <3>7. TaskOK(t, asked'[p])
      <4>1. asked[p] + 1 <= Requests(task[p].attempt - 1) + (task[p].hops + 1) + 1 BY <1>1, <3>5, <3>6
      <4>2. asked[p] + 1 <= Requests(Retries + 1) BY <1>1, <2>2, <3>5, <3>6
      <4>3. task[p].hops + 1 <= Redirects BY <1>1, <2>2
      <4> QED  BY <3>3, <3>4, <3>5, <4>1, <4>2, <4>3 DEF TaskOK, PageSteps
    <3> QED  BY <2>1, <3>1, <3>2, <3>3, <3>7 DEF Goes, PageSteps
  <2>3. CASE ~ (task[p].hops < Redirects) BY <1>4, <2>1, <2>3, SettleGoes DEF Redirect, Quietly, PageSteps
  <2> QED  BY <2>2, <2>3
<1>5. CASE Respond(p)
  <2> DEFINE t == [task[p] EXCEPT !.pc = "extras"]
  <2>1. task[p].pc = "page" /\ task' = [task EXCEPT ![p] = t] /\ UNCHANGED <<fetchNow, settled, bulk, asked>> BY <1>5 DEF Respond
  <2>2. t \in PageTask BY <1>1, TaskColumns
  <2>3. t.pc = "extras" /\ t.began = task[p].began /\ t.attempt = task[p].attempt /\ t.hops = task[p].hops /\ t.result = task[p].result
    BY <1>1 DEF PageTask
  <2> HIDE DEF t
  <2>4. TaskOK(t, asked[p]) BY <1>1, <2>1, <2>3 DEF TaskOK, PageSteps
  <2> QED  BY <2>1, <2>2, <2>3, <2>4 DEF Goes, PageSteps
<1>6. CASE Transient(p)
  <2>1. task[p].pc = "page" /\ UNCHANGED <<fetchNow, bulk, asked>> BY <1>6 DEF Transient, Quietly
  <2>2. CASE task[p].attempt <= Retries
    <3> DEFINE t == [task[p] EXCEPT !.pc = "backoff", !.since = fetchNow]
    <3>1. task' = [task EXCEPT ![p] = t] /\ settled' = settled BY <1>6, <2>2 DEF Transient
    <3>2. t \in PageTask BY <1>1, TaskColumns
    <3>3. t.pc = "backoff" /\ t.began = task[p].began /\ t.attempt = task[p].attempt /\ t.hops = task[p].hops /\ t.result = task[p].result
      BY <1>1 DEF PageTask
    <3> HIDE DEF t
    <3>4. TaskOK(t, asked[p]) BY <1>1, <2>1, <2>2, <3>3 DEF TaskOK, PageSteps
    <3> QED  BY <2>1, <3>1, <3>2, <3>3, <3>4 DEF Goes, PageSteps
  <2>3. CASE ~ (task[p].attempt <= Retries) BY <1>6, <2>1, <2>3, SettleGoes DEF Transient, PageSteps
  <2> QED  BY <2>2, <2>3
<1>7. CASE Again(p)
  <2> DEFINE t == [task[p] EXCEPT !.pc = "page", !.attempt = task[p].attempt + 1, !.since = fetchNow, !.hops = 0]
  <2>1. task[p].pc = "backoff" /\ task' = [task EXCEPT ![p] = t] /\ UNCHANGED <<fetchNow, settled, bulk>>
        /\ asked' = [asked EXCEPT ![p] = @ + 1]
    BY <1>7 DEF Again, Request
  <2>2. t \in PageTask
    <3>1. \A a, n \in Nat : [task[p] EXCEPT !.pc = "page", !.attempt = a, !.since = n, !.hops = 0] \in PageTask BY <1>1, TaskColumns
    <3>2. task[p].attempt + 1 \in Nat BY <1>1
    <3> QED  BY <1>1, <3>1, <3>2
  <2>3. t.pc = "page" /\ t.began = task[p].began /\ t.attempt = task[p].attempt + 1 /\ t.hops = 0 /\ t.result = task[p].result
    BY <1>1 DEF PageTask
  <2> HIDE DEF t
  <2>4. asked'[p] = asked[p] + 1 BY <1>1, <2>1
  <2>5. /\ task[p].attempt \in 1 .. Retries /\ asked[p] <= Requests(task[p].attempt - 1) + task[p].hops + 1
        /\ task[p].result = "none" /\ task[p].began < BulkBudget /\ task[p].hops <= Redirects
    <3>1. TaskOK(task[p], asked[p]) /\ task[p].pc \in PageSteps BY <1>1, <2>1 DEF PageSteps
    <3>2. task[p].attempt \in 1 .. Retries + 1 /\ task[p].attempt <= Retries BY <2>1, <3>1 DEF TaskOK
    <3>3. asked[p] <= Requests(task[p].attempt - 1) + task[p].hops + 1 /\ task[p].result = "none"
          /\ task[p].began < BulkBudget /\ task[p].hops <= Redirects
      BY <3>1 DEF TaskOK
    <3> QED  BY <3>2, <3>3
  <2> DEFINE a == task[p].attempt - 1
  <2>6. a \in 0 .. Retries /\ a \in Nat /\ a + 1 = task[p].attempt /\ a + 1 \in 0 .. Retries /\ a + 1 \in Nat BY <2>5
  <2>7. asked[p] <= Requests(a) + task[p].hops + 1 BY <2>5
  <2> HIDE DEF a
  <2>8. Requests(a) \in Nat /\ Requests(a + 1) \in Nat /\ Requests(a + 1) = Requests(a) + Redirects + 1 BY <2>6, RequestsGrow
  <2>9. Requests(a + 1) + Redirects + 1 <= Requests(Retries + 1) /\ Requests(Retries + 1) \in Nat
    <3>1. \A b \in 0 .. Retries : b \in Nat /\ Requests(b + 1) = Requests(b) + Redirects + 1 /\ Requests(b + 1) <= Requests(Retries + 1)
      BY RequestsGrow
    <3>2. Retries + 1 \in Nat => Requests(Retries + 1) \in Nat BY RequestsGrow
    <3> QED  BY <2>6, <3>1, <3>2
  <2>10. asked[p] + 1 <= Requests(a + 1) + 1 /\ asked[p] + 1 <= Requests(Retries + 1)
    BY <1>1, <2>5, <2>7, <2>8, <2>9
  <2>11. TaskOK(t, asked'[p])
    <3>1. t.attempt - 1 = a + 1 /\ t.attempt \in 1 .. Retries + 1 BY <2>3, <2>5, <2>6
    <3>2. asked'[p] <= Requests(t.attempt - 1) + t.hops + 1
      <4>1. Requests(a + 1) + 1 = Requests(a + 1) + 0 + 1 BY <2>8
      <4> QED  BY <2>3, <2>4, <2>10, <3>1, <4>1
    <3> QED  BY <2>3, <2>4, <2>5, <2>10, <3>1, <3>2 DEF TaskOK, PageSteps
  <2> QED  BY <2>1, <2>2, <2>3, <2>11 DEF Goes, PageSteps
<1>8. CASE Extras(p) BY <1>8, SettleGoes DEF Extras, Quietly, PageSteps
<1>9. CASE PageTimesOut(p) BY <1>9, SettleGoes DEF PageTimesOut, Quietly, PageSteps, Underway
<1> QED  BY <1>2, <1>3, <1>4, <1>5, <1>6, <1>7, <1>8, <1>9 DEF TaskStep, AttemptTimesOut

\* The queue: each page once, and its task is settled.
QueueInv ==
  /\ \A i \in 1 .. Len(settled) : task[settled[i]].pc = "settled"
  /\ \A i, j \in 1 .. Len(settled) : settled[i] = settled[j] => i = j

\* The pages whose result has been taken
Done == {p \in Target : task[p].pc = "taken"}
\* The totals are those of the pages taken: their sum lies between what the worst and the best of
\* them give.
SumInv ==
  /\ bulk.scored + bulk.failed + bulk.skipped = Cardinality(Done)
  /\ bulk.scored = 0 => bulk.best = "none" /\ bulk.worst = "none" /\ bulk.sum = 0
  /\ bulk.scored > 0 => /\ bulk.best \in Done /\ bulk.worst \in Done
                        /\ bulk.of[bulk.worst] * bulk.scored <= bulk.sum
                        /\ bulk.sum <= bulk.of[bulk.best] * bulk.scored

(***************************************************************************)
(* The inductive invariant of a bulk scan: the pages within their budgets, *)
(* the queue of results without one twice, and the totals of the results   *)
(* taken.                                                                  *)
(***************************************************************************)
FetchInv == TasksInv /\ QueueInv /\ SumInv

\* A step of a page keeps the budgets.
LEMMA GoesTasks == ASSUME TasksInv, NEW p \in Target, NEW t \in PageTask, Goes(p, t) PROVE TasksInv'
<1> USE DEF Goes
<1>1. task' \in [Target -> PageTask] /\ \A q \in Target : task'[q] = IF q = p THEN t ELSE task[q] BY DEF TasksInv, FetchTypes
<1>2. settled' \in Seq(Target)
  <2>1. settled \in Seq(Target) BY DEF TasksInv, FetchTypes
  <2>2. Append(settled, p) \in Seq(Target) BY <2>1, AppendProperties
  <2> QED  BY <2>1, <2>2
<1>3. asked' \in [Target -> Nat] /\ \A q \in Target : q # p => asked'[q] = asked[q] BY DEF TasksInv, FetchTypes
<1>4. FetchTypes' BY <1>1, <1>2, <1>3 DEF TasksInv, FetchTypes
<1>5. Unsettled' # {} => Unsettled # {}
  <2> SUFFICES ASSUME NEW q \in Target, task'[q].pc \notin {"settled", "taken"} PROVE q \in Unsettled BY DEF Unsettled
  <2>1. CASE q = p BY <2>1 DEF Unsettled, PageSteps
  <2>2. CASE q # p BY <1>1, <2>2 DEF Unsettled
  <2> QED  BY <2>1, <2>2
<1>6. BudgetKept' BY <1>5 DEF TasksInv, BudgetKept
<1>7. ASSUME NEW q \in Target PROVE TaskOK(task'[q], asked'[q])
  <2>1. CASE q = p BY <1>1, <2>1
  <2>2. CASE q # p BY <1>1, <1>3, <2>2 DEF TasksInv
  <2> QED  BY <2>1, <2>2
<1> QED  BY <1>4, <1>6, <1>7 DEF TasksInv

\* It keeps the queue.
LEMMA GoesQueue == ASSUME TasksInv, QueueInv, NEW p \in Target, NEW t \in PageTask, Goes(p, t) PROVE QueueInv'
<1>1. \A q \in Target : task'[q] = IF q = p THEN t ELSE task[q] BY DEF TasksInv, FetchTypes, Goes
<1>2. settled \in Seq(Target) /\ task[p].pc # "settled" BY DEF TasksInv, FetchTypes, Goes, PageSteps
<1>3. ASSUME NEW i \in 1 .. Len(settled) PROVE settled[i] \in Target /\ settled[i] # p /\ task'[settled[i]].pc = "settled"
  <2>1. settled[i] \in Target BY <1>2
  <2>2. task[settled[i]].pc = "settled" BY DEF QueueInv
  <2> QED  BY <1>1, <1>2, <2>1, <2>2
<1>4. CASE settled' = settled BY <1>3, <1>4 DEF QueueInv
<1>5. CASE settled' = Append(settled, p) /\ t.pc = "settled"
  <2>1. Len(settled') = Len(settled) + 1 /\ Len(settled) \in Nat BY <1>2, <1>5, AppendProperties, LenProperties
  <2>2. \A i \in 1 .. Len(settled) : settled'[i] = settled[i] BY <1>2, <1>5, AppendProperties
  <2>3. settled'[Len(settled) + 1] = p BY <1>2, <1>5, AppendProperties
  <2>4. \A i \in 1 .. Len(settled') : i \in 1 .. Len(settled) \/ i = Len(settled) + 1 BY <2>1
  <2>5. \A i \in 1 .. Len(settled') : task'[settled'[i]].pc = "settled" BY <1>1, <1>3, <1>5, <2>2, <2>3, <2>4
  <2>6. \A i, j \in 1 .. Len(settled') : settled'[i] = settled'[j] => i = j BY <1>3, <2>2, <2>3, <2>4 DEF QueueInv
  <2> QED  BY <2>5, <2>6 DEF QueueInv
<1> QED  BY <1>4, <1>5 DEF Goes

\* It keeps the totals.
LEMMA GoesSums == ASSUME TasksInv, SumInv, NEW p \in Target, NEW t \in PageTask, Goes(p, t) PROVE SumInv'
<1>1. \A q \in Target : task'[q] = IF q = p THEN t ELSE task[q] BY DEF TasksInv, FetchTypes, Goes
<1>2. task[p].pc # "taken" /\ t.pc # "taken" /\ bulk' = bulk BY DEF Goes, PageSteps
<1>3. Done' = Done BY <1>1, <1>2 DEF Done
<1> QED  BY <1>2, <1>3 DEF SumInv

\* Taking a result moves one page to those taken.
LEMMA Consumed ==
  ASSUME FetchInv, Consume
  PROVE  \E p \in Target :
           /\ p = settled[1] /\ settled # <<>> /\ settled' = Tail(settled) /\ task[p].pc = "settled"
           /\ task' = [task EXCEPT ![p] = [task[p] EXCEPT !.pc = "taken"]] /\ UNCHANGED <<fetchNow, asked>>
           /\ \/ bulk' = [bulk EXCEPT !.skipped = @ + 1]
              \/ bulk' = [bulk EXCEPT !.failed = @ + 1]
              \/ \E s \in PageScores :
                   bulk' = [bulk EXCEPT !.scored = @ + 1, !.sum = @ + s, !.of[p] = s,
                                        !.best = IF Better(s) THEN p ELSE @,
                                        !.worst = IF Worse(s) THEN p ELSE @]
<1>1. settled # <<>> /\ settled \in Seq(Target) BY DEF Consume, FetchInv, TasksInv, FetchTypes
<1>2. Head(settled) = settled[1] /\ 1 \in 1 .. Len(settled) BY <1>1
<1>3. settled[1] \in Target BY <1>1, <1>2
<1>4. task[settled[1]].pc = "settled" BY <1>2 DEF FetchInv, QueueInv
<1> QED  BY <1>1, <1>2, <1>3, <1>4 DEF Consume

\* Taking a result keeps the budgets.
LEMMA ConsumeTasks == ASSUME FetchInv, Consume PROVE TasksInv'
<1>1. PICK p \in Target : /\ settled # <<>> /\ settled' = Tail(settled) /\ task[p].pc = "settled"
                          /\ task' = [task EXCEPT ![p] = [task[p] EXCEPT !.pc = "taken"]] /\ UNCHANGED <<fetchNow, asked>>
  BY Consumed
<1>2. FetchTypes /\ task \in [Target -> PageTask] /\ settled \in Seq(Target) BY DEF FetchInv, TasksInv, FetchTypes
<1>3. [task[p] EXCEPT !.pc = "taken"] \in PageTask BY <1>2, TaskColumns
<1>4. task' \in [Target -> PageTask] /\ \A q \in Target : q # p => task'[q] = task[q] BY <1>1, <1>2, <1>3
<1>5. task'[p] = [task[p] EXCEPT !.pc = "taken"] BY <1>1, <1>2
<1>6. settled' \in Seq(Target) BY <1>1, <1>2, HeadTailProperties
<1>7. bulk' \in Bulk
  <2>1. bulk \in Bulk BY <1>2 DEF FetchTypes
  <2>2. CASE bulk' = [bulk EXCEPT !.skipped = @ + 1] BY <2>1, <2>2 DEF Bulk
  <2>3. CASE bulk' = [bulk EXCEPT !.failed = @ + 1] BY <2>1, <2>3 DEF Bulk
  <2>4. ASSUME NEW q \in Target, NEW s \in PageScores,
               bulk' = [bulk EXCEPT !.scored = @ + 1, !.sum = @ + s, !.of[q] = s, !.best = IF Better(s) THEN q ELSE @,
                                    !.worst = IF Worse(s) THEN q ELSE @]
        PROVE  bulk' \in Bulk
    <3>1. s \in Nat BY FetchNats
    <3> DEFINE b == IF Better(s) THEN q ELSE bulk.best
               w == IF Worse(s) THEN q ELSE bulk.worst
               of == [bulk.of EXCEPT ![q] = s]
    <3>2. b \in Target \union {"none"} /\ w \in Target \union {"none"} /\ of \in [Target -> Nat]
          /\ bulk.scored + 1 \in Nat /\ bulk.sum + s \in Nat
      BY <2>1, <3>1 DEF Bulk
    <3>3. bulk' = [bulk EXCEPT !.scored = bulk.scored + 1, !.sum = bulk.sum + s, !.of = of, !.best = b, !.worst = w]
      BY <2>1, <2>4 DEF Bulk
    <3> HIDE DEF b, w, of
    <3> QED  BY <2>1, <3>2, <3>3 DEF Bulk
  <2> QED  BY <2>2, <2>3, <2>4, Consumed
<1>8. FetchTypes' BY <1>1, <1>2, <1>4, <1>6, <1>7 DEF FetchTypes
<1>9. Unsettled' \subseteq Unsettled
  <2>1. task'[p].pc = "taken" BY <1>2, <1>5 DEF PageTask
  <2> QED  BY <1>4, <2>1 DEF Unsettled
<1>10. BudgetKept' BY <1>1, <1>9 DEF FetchInv, TasksInv, BudgetKept
<1>11. ASSUME NEW q \in Target PROVE TaskOK(task'[q], asked'[q])
  <2>1. TaskOK(task[q], asked[q]) BY DEF FetchInv, TasksInv
  <2>2. CASE q = p
    <3>1. task'[p].pc = "taken" /\ task'[p].result = task[p].result BY <1>2, <1>5 DEF PageTask
    <3>2. TaskOK(task[p], asked[p]) /\ asked' = asked BY <1>1, <2>1, <2>2
    <3>3. TaskOK(task'[p], asked[p]) BY <1>1, <3>1, <3>2 DEF TaskOK, PageSteps
    <3> QED  BY <2>2, <3>2, <3>3
  <2>3. CASE q # p BY <1>1, <1>4, <2>1, <2>3
  <2> QED  BY <2>2, <2>3
<1> QED  BY <1>8, <1>10, <1>11 DEF TasksInv

\* It keeps the queue.
LEMMA ConsumeQueue == ASSUME FetchInv, Consume PROVE QueueInv'
<1>1. PICK p \in Target : /\ p = settled[1] /\ settled # <<>> /\ settled' = Tail(settled)
                          /\ task' = [task EXCEPT ![p] = [task[p] EXCEPT !.pc = "taken"]]
  BY Consumed
<1>2. task \in [Target -> PageTask] /\ settled \in Seq(Target) BY DEF FetchInv, TasksInv, FetchTypes
<1>3. \A q \in Target : q # p => task'[q] = task[q] BY <1>1, <1>2
<1>4. Len(settled') = Len(settled) - 1 /\ Len(settled) \in Nat /\ Len(settled) >= 1
      /\ \A i \in 1 .. Len(settled') : settled'[i] = settled[i + 1]
  <2>1. Len(settled) \in Nat /\ Len(settled) # 0 BY <1>1, <1>2, EmptySeq, LenProperties
  <2> QED  BY <1>1, <1>2, <2>1
<1>5. ASSUME NEW i \in 1 .. Len(settled')
      PROVE  i + 1 \in 1 .. Len(settled) /\ settled'[i] = settled[i + 1] /\ task'[settled'[i]].pc = "settled"
  <2>1. i + 1 \in 1 .. Len(settled) /\ 1 \in 1 .. Len(settled) /\ i + 1 # 1 BY <1>4
  <2>2. settled'[i] = settled[i + 1] BY <1>4
  <2>3. settled[i + 1] \in Target BY <1>2, <2>1
  <2>4. task[settled[i + 1]].pc = "settled" /\ settled[i + 1] # p BY <1>1, <2>1 DEF FetchInv, QueueInv
  <2> QED  BY <1>3, <2>1, <2>2, <2>3, <2>4
<1>6. ASSUME NEW i \in 1 .. Len(settled'), NEW j \in 1 .. Len(settled'), settled'[i] = settled'[j] PROVE i = j
  <2>1. i + 1 = j + 1 BY <1>5, <1>6 DEF FetchInv, QueueInv
  <2> QED  BY <1>4, <2>1
<1> QED  BY <1>5, <1>6 DEF QueueInv

\* One page more adds its score to the sum and one to the count.
LEMMA Widening ==
  ASSUME NEW a \in Nat, NEW c \in Nat, NEW n \in Nat
  PROVE  a <= c => a * n <= c * n
<1> SUFFICES ASSUME a <= c PROVE a * n <= c * n OBVIOUS
<1> DEFINE d == c - a
<1>1. d \in Nat /\ c = a + d OBVIOUS
<1> HIDE DEF d
<1>2. (a + d) * n = a * n + d * n BY <1>1
<1>3. a * n \in Nat /\ d * n \in Nat BY <1>1
<1> QED  BY <1>1, <1>2, <1>3

\* The average of a sum of scores lies between the least and the greatest score.
LEMMA AverageBetween ==
  ASSUME NEW n \in Nat, NEW sum \in Nat, NEW s \in Nat, NEW a \in Nat, NEW c \in Nat
  PROVE  /\ sum <= a * n /\ a <= c /\ s <= c => sum + s <= c * (n + 1)
         /\ a * n <= sum /\ c <= a /\ c <= s => c * (n + 1) <= sum + s
<1>1. c * (n + 1) = c * n + c /\ c * n \in Nat /\ a * n \in Nat OBVIOUS
<1>2. a <= c => a * n <= c * n BY Widening
<1>3. c <= a => c * n <= a * n BY Widening
<1> QED  BY <1>1, <1>2, <1>3

\* Taking a result keeps the totals.
LEMMA ConsumeSums == ASSUME FetchInv, Consume PROVE SumInv'
<1>1. PICK p \in Target :
        /\ task[p].pc = "settled" /\ task' = [task EXCEPT ![p] = [task[p] EXCEPT !.pc = "taken"]]
        /\ \/ bulk' = [bulk EXCEPT !.skipped = @ + 1]
           \/ bulk' = [bulk EXCEPT !.failed = @ + 1]
           \/ \E s \in PageScores :
                bulk' = [bulk EXCEPT !.scored = @ + 1, !.sum = @ + s, !.of[p] = s,
                                     !.best = IF Better(s) THEN p ELSE @,
                                     !.worst = IF Worse(s) THEN p ELSE @]
  BY Consumed
<1>2. task \in [Target -> PageTask] /\ bulk \in Bulk /\ SumInv BY DEF FetchInv, TasksInv, FetchTypes
<1>3. task'[p].pc = "taken" /\ \A q \in Target : q # p => task'[q] = task[q] BY <1>1, <1>2 DEF PageTask
<1>4. p \notin Done /\ Done' = Done \union {p} BY <1>1, <1>3 DEF Done
<1>5. IsFiniteSet(Done) BY FetchingAssumption, FS_Subset DEF Done
<1>6. Cardinality(Done') = Cardinality(Done) + 1 /\ Cardinality(Done) \in Nat
  BY <1>4, <1>5, FS_AddElement, FS_CardinalityType
<1>7. /\ bulk.scored \in Nat /\ bulk.sum \in Nat /\ bulk.failed \in Nat /\ bulk.skipped \in Nat /\ bulk.of \in [Target -> Nat]
      /\ bulk.scored + bulk.failed + bulk.skipped = Cardinality(Done)
  BY <1>2 DEF Bulk, SumInv
<1>8. CASE bulk' = [bulk EXCEPT !.skipped = @ + 1] \/ bulk' = [bulk EXCEPT !.failed = @ + 1]
  <2>1. /\ bulk'.scored = bulk.scored /\ bulk'.sum = bulk.sum /\ bulk'.best = bulk.best /\ bulk'.worst = bulk.worst /\ bulk'.of = bulk.of
        /\ bulk'.failed + bulk'.skipped = bulk.failed + bulk.skipped + 1
    BY <1>2, <1>7, <1>8 DEF Bulk
  <2>2. bulk'.scored + bulk'.failed + bulk'.skipped = Cardinality(Done')
    <3>1. bulk'.failed \in Nat /\ bulk'.skipped \in Nat BY <1>2, <1>7, <1>8 DEF Bulk
    <3> HIDE DEF Done
    <3> QED  BY <1>6, <1>7, <2>1, <3>1
  <2>3. Done \subseteq Done' BY <1>4
  <2> QED  BY <1>2, <2>1, <2>2, <2>3 DEF SumInv
<1>9. ASSUME NEW s \in PageScores,
             bulk' = [bulk EXCEPT !.scored = @ + 1, !.sum = @ + s, !.of[p] = s,
                                  !.best = IF Better(s) THEN p ELSE @,
                                  !.worst = IF Worse(s) THEN p ELSE @]
      PROVE  SumInv'
  <2>0. s \in Nat BY FetchNats
  <2>1. /\ bulk'.scored = bulk.scored + 1 /\ bulk'.sum = bulk.sum + s /\ bulk'.failed = bulk.failed /\ bulk'.skipped = bulk.skipped
        /\ bulk'.best = (IF Better(s) THEN p ELSE bulk.best) /\ bulk'.worst = (IF Worse(s) THEN p ELSE bulk.worst)
    BY <1>2, <1>9 DEF Bulk
  <2>2. bulk'.of[p] = s /\ \A q \in Target : q # p => bulk'.of[q] = bulk.of[q] BY <1>2, <1>7, <1>9 DEF Bulk
  <2>3. bulk'.scored + bulk'.failed + bulk'.skipped = Cardinality(Done')
    <3> HIDE DEF Done
    <3> QED  BY <1>6, <1>7, <2>1
  <2>4. bulk'.scored # 0 /\ bulk'.scored > 0 BY <1>7, <2>1
  <2>5. CASE bulk.scored = 0
    <3>1. bulk.best = "none" /\ bulk.worst = "none" /\ bulk.sum = 0 BY <1>2, <2>5 DEF SumInv
    <3>2. bulk'.best = p /\ bulk'.worst = p /\ bulk'.sum = s /\ bulk'.scored = 1 BY <2>0, <2>1, <2>5, <3>1 DEF Better, Worse
    <3>3. s * 1 = s BY <2>0
    <3> QED  BY <1>4, <2>0, <2>2, <2>3, <2>4, <3>2, <3>3 DEF SumInv
  <2>6. CASE bulk.scored # 0
    <3>1. /\ bulk.best \in Done /\ bulk.worst \in Done
          /\ bulk.of[bulk.worst] * bulk.scored <= bulk.sum /\ bulk.sum <= bulk.of[bulk.best] * bulk.scored
      BY <1>2, <1>7, <2>6 DEF SumInv
    <3>2. /\ bulk.best \in Target /\ bulk.worst \in Target /\ bulk.best # p /\ bulk.worst # p
          /\ bulk.of[bulk.best] \in Nat /\ bulk.of[bulk.worst] \in Nat /\ bulk.best # "none" /\ bulk.worst # "none"
      BY <1>4, <1>7, <3>1, FetchingAssumption DEF Done
    <3>3. bulk'.best \in Done' /\ bulk.of[bulk.best] <= bulk'.of[bulk'.best] /\ s <= bulk'.of[bulk'.best] /\ bulk'.of[bulk'.best] \in Nat
      <4>1. CASE Better(s)
        <5>1. s > bulk.of[bulk.best] BY <3>2, <4>1 DEF Better
        <5> QED  BY <1>4, <2>0, <2>1, <2>2, <3>2, <4>1, <5>1
      <4>2. CASE ~ Better(s)
        <5>1. s <= bulk.of[bulk.best] BY <2>0, <3>2, <4>2 DEF Better
        <5> QED  BY <1>4, <2>0, <2>1, <2>2, <3>1, <3>2, <4>2, <5>1
      <4> QED  BY <4>1, <4>2
    <3>4. bulk'.worst \in Done' /\ bulk'.of[bulk'.worst] <= bulk.of[bulk.worst] /\ bulk'.of[bulk'.worst] <= s /\ bulk'.of[bulk'.worst] \in Nat
      <4>1. CASE Worse(s)
        <5>1. s < bulk.of[bulk.worst] BY <3>2, <4>1 DEF Worse
        <5> QED  BY <1>4, <2>0, <2>1, <2>2, <3>2, <4>1, <5>1
      <4>2. CASE ~ Worse(s)
        <5>1. bulk.of[bulk.worst] <= s BY <2>0, <3>2, <4>2 DEF Worse
        <5> QED  BY <1>4, <2>0, <2>1, <2>2, <3>1, <3>2, <4>2, <5>1
      <4> QED  BY <4>1, <4>2
    <3>5. bulk.sum + s <= bulk'.of[bulk'.best] * (bulk.scored + 1)
      BY <1>7, <2>0, <3>1, <3>2, <3>3, AverageBetween
    <3>6. bulk'.of[bulk'.worst] * (bulk.scored + 1) <= bulk.sum + s
      BY <1>7, <2>0, <3>1, <3>2, <3>4, AverageBetween
    <3> QED  BY <2>1, <2>3, <2>4, <3>3, <3>4, <3>5, <3>6 DEF SumInv
  <2> QED  BY <2>5, <2>6
<1> QED  BY <1>1, <1>8, <1>9

\* Time does not pass over the end of a task.
LEMMA TickWaits == ASSUME FetchInv, FetchTick PROVE fetchNow < BulkBudget + PageTimeout
<1>1. ~ Due /\ Unsettled # {} /\ fetchNow \in Nat /\ task \in [Target -> PageTask]
  BY DEF FetchTick, FetchInv, TasksInv, FetchTypes
<1>2. Underway # {}
  <2> SUFFICES ASSUME Underway = {} PROVE FALSE OBVIOUS
  <2>1. PICK p \in Target : task[p].pc \notin {"settled", "taken"} BY <1>1 DEF Unsettled
  <2>2. task[p].pc = "waiting" BY <1>1, <2>1 DEF Underway, PageTask, PageSteps
  <2>3. Cardinality(Underway) = 0 BY FS_EmptySet
  <2>4. HasSlot(p) BY <2>2, <2>3, FetchNats DEF HasSlot
  <2> QED  BY <1>1, <2>4 DEF Due
<1>3. PICK p \in Underway : TRUE BY <1>2
<1>4. ~ (fetchNow >= task[p].began + PageTimeout) BY <1>1, <1>3 DEF Due
<1>5. p \in Target /\ task[p].pc \in PageSteps /\ task[p].began \in Nat BY <1>1, <1>3 DEF Underway, PageSteps, PageTask
<1>6. task[p].began < BulkBudget BY <1>5 DEF FetchInv, TasksInv, TaskOK
<1> QED  BY <1>1, <1>4, <1>5, <1>6, FetchNats

\* Time keeps the invariant.
LEMMA TickKeeps == ASSUME FetchInv, FetchTick PROVE FetchInv'
<1>1. fetchNow' = fetchNow + 1 /\ UNCHANGED <<task, settled, bulk, asked>> BY DEF FetchTick
<1>2. fetchNow \in Nat BY DEF FetchInv, TasksInv, FetchTypes
<1>3. fetchNow + 1 <= BulkBudget + PageTimeout /\ fetchNow + 1 \in Nat BY <1>2, TickWaits, FetchNats
<1>4. FetchTypes' BY <1>1, <1>3 DEF FetchInv, TasksInv, FetchTypes
<1>5. BudgetKept' BY <1>1, <1>3 DEF BudgetKept
<1>6. TasksInv' BY <1>1, <1>4, <1>5 DEF FetchInv, TasksInv
<1>7. QueueInv' BY <1>1 DEF FetchInv, QueueInv
<1>8. SumInv' BY <1>1 DEF FetchInv, SumInv, Done
<1> QED  BY <1>6, <1>7, <1>8 DEF FetchInv

\* The invariant holds at the start.
LEMMA FetchInit == FTInit => FetchInv
<1> SUFFICES ASSUME FTInit PROVE FetchInv OBVIOUS
<1>1. fetchNow = 0 /\ task = [p \in Target |-> Waiting] /\ settled = <<>> /\ asked = [p \in Target |-> 0] BY DEF FTInit
<1>2. Waiting \in PageTask /\ Waiting.pc = "waiting" /\ Waiting.result = "none" /\ Waiting.hops = 0 BY DEF Waiting, PageTask, PageSteps
<1>3. /\ bulk.scored = 0 /\ bulk.failed = 0 /\ bulk.skipped = 0 /\ bulk.best = "none" /\ bulk.worst = "none" /\ bulk.sum = 0
      /\ bulk \in Bulk
  BY DEF FTInit, Bulk
<1>4. FetchTypes BY <1>1, <1>2, <1>3 DEF FetchTypes
<1>5. BudgetKept BY <1>1, FetchNats DEF BudgetKept
<1>6. Requests(Retries + 1) \in Nat /\ 0 <= Requests(Retries + 1)
  <2>1. Retries + 1 \in Nat BY FetchNats
  <2>2. Requests(Retries + 1) \in Nat BY <2>1, RequestsGrow
  <2> QED  BY <2>2
<1>7. \A p \in Target : TaskOK(task[p], asked[p]) BY <1>1, <1>2, <1>6 DEF TaskOK, PageSteps
<1>8. QueueInv
  <2>1. Len(settled) = 0 BY <1>1
  <2>2. 1 .. Len(settled) = {} BY <2>1
  <2> QED  BY <2>2 DEF QueueInv
<1>9. Done = {} /\ Cardinality({}) = 0 BY <1>1, <1>2, FS_EmptySet DEF Done
<1>10. SumInv BY <1>3, <1>9 DEF SumInv
<1> QED  BY <1>4, <1>5, <1>7, <1>8, <1>10 DEF FetchInv, TasksInv

\* Every step keeps it.
LEMMA FetchNext == FetchInv /\ [FTNext]_ftVars => FetchInv'
<1> SUFFICES ASSUME FetchInv, [FTNext]_ftVars PROVE FetchInv' OBVIOUS
<1>1. ASSUME NEW p \in Target, TaskStep(p) PROVE FetchInv'
  <2>1. TasksInv /\ QueueInv /\ SumInv BY DEF FetchInv
  <2>2. PICK t \in PageTask : Goes(p, t) BY <1>1, <2>1, TasksGo
  <2>3. TasksInv' BY <2>1, <2>2, GoesTasks
  <2>4. QueueInv' BY <2>1, <2>2, GoesQueue
  <2>5. SumInv' BY <2>1, <2>2, GoesSums
  <2> QED  BY <2>3, <2>4, <2>5 DEF FetchInv
<1>2. CASE Consume BY <1>2, ConsumeTasks, ConsumeQueue, ConsumeSums DEF FetchInv
<1>3. CASE FetchTick BY <1>3, TickKeeps
<1>4. CASE UNCHANGED ftVars
  BY <1>4 DEF ftVars, FetchInv, TasksInv, FetchTypes, BudgetKept, Unsettled, QueueInv, SumInv, Done
<1> QED  BY <1>1, <1>2, <1>3, <1>4 DEF FTNext, TaskStep

(***************************************************************************)
(* For any pages, scores, concurrency, retries and timeouts: a bulk scan   *)
(* has fetched everything by its budget and one page's timeout after it;   *)
(* no page is asked for more often than the attempts and redirects of the  *)
(* settings allow, and not at all if it was given up; each page taken is   *)
(* counted once, as scored, failed or skipped; and the average lies        *)
(* between the worst and the best score (scanner/bulk.py, fetch_pages and  *)
(* execute_bulk_scan; core/fetch.py).                                      *)
(***************************************************************************)
THEOREM Fetched == FTSpec => []FetchSound
<1>1. FetchInv => FetchSound
  <2> SUFFICES ASSUME FetchInv PROVE FetchSound OBVIOUS
  <2>1. BudgetKept BY DEF FetchInv, TasksInv
  <2>2. RequestsBounded BY DEF FetchInv, TasksInv, RequestsBounded, TaskOK, Requests
  <2>3. PagesAccounted
    <3>1. bulk.scored \in Nat BY DEF FetchInv, TasksInv, FetchTypes, Bulk
    <3> QED  BY <3>1 DEF FetchInv, SumInv, PagesAccounted, Done
  <2> QED  BY <2>1, <2>2, <2>3 DEF FetchSound
<1> QED  BY <1>1, FetchInit, FetchNext, PTL DEF FTSpec

----------------------------------------------------------------------------
(***************************************************************************)
(* The findings of a crawl (Findings)                                      *)
(***************************************************************************)

\* The rows of the findings
Real == [status : Decision, verified : Verdict, first : Nat, pages : SUBSET FNPage]
FRow == Real \union {NoFinding}

\* The types
FNTypes ==
  /\ fcrawl \in [no : Nat, phase : {"none", "analyzing", "preparing", "completed", "cancelled", "failed"}, engine : Nat]
  /\ found \in [RowId -> FRow]
  /\ shown \in [no : Nat, engine : Nat, rows : [RowId -> FRow]]
  /\ wish \in [Key -> Decision \union {"any"}]
  /\ seen \in [Key -> Decision \union {"any", "none"}]
  /\ since \in [Key -> Nat]
  /\ fnw \in [pc : {"idle", "mark", "carry", "advance"}, of : SUBSET Template]
  /\ fnfaults \in Nat /\ rules \in Nat

\* The row is a finding of the AI.
IsAi(r) == r[1][1] = "ai_representative"
\* The row is open, as it is when it is first found.
Opened(r) == found[r].status = "open" /\ found[r].first = fcrawl.no
\* A finding that shows what was decided when it was carried on last
Shows(r) ==
  IF r[1] \in Recurring
    THEN /\ seen[r[1]] \in {"none", "open", "fixed"} => found[r].status = "open"
         /\ seen[r[1]] \in {"in_progress", "wont_fix"} => found[r].status = seen[r[1]]
    ELSE Opened(r)

\* The rows that exist
Listed == {r \in RowId : found[r] # NoFinding}

\* While pages are analyzed nothing has been carried on.
Untouched == fcrawl.phase = "analyzing" => /\ \A k \in Key : seen[k] = "none"
                                           /\ \A r \in Listed : Opened(r)
\* The findings of the AI are as they were stored, or as an earlier attempt carried them on.
AiShows == fcrawl.phase = "preparing" => \A r \in Listed : IsAi(r) => Shows(r)
\* Before decisions are carried on, the findings of the rules are open.
Built == FNAt("preparing", "carry") => \A r \in Listed : ~ IsAi(r) => Opened(r)
\* After that, each shows the decision and the age of the crawl before.
CarriedOn == FNAt("preparing", "advance") =>
  /\ \A k \in Key : seen[k] # "none"
  /\ \A r \in Listed : Shows(r) /\ (r[1] \in Recurring => found[r].first = since[r[1]])

\* A finding of the rules lists exactly the pages that have the issue.
Det(t) == <<<<"deterministic", t>>, 1>>
Lists(of, t) == IF Affected(t) = {} THEN of[Det(t)] = NoFinding ELSE of[Det(t)].pages = Affected(t)
\* So it does before the crawl is completed,
BuiltExactly == (fcrawl.phase = "preparing" /\ fnw.pc \in {"carry", "advance"}) => \A t \in Template : Lists(found, t)
\* and when the crawl is completed, among what is shown.
ShownExactly == fcrawl.phase = "completed" => \A t \in Template : Lists(shown.rows, t)

\* The template is still to be analyzed.
Pending(k) == /\ fcrawl.phase = "analyzing" /\ k[2] \notin analyzed
              /\ ~ (fnw.pc = "mark" /\ k[2] \in fnw.of)
\* A key has one row, and one more for each fault; and one fewer before the AI has been asked.
Counted == \A k \in Key : /\ Cardinality(Rows(found, k)) <= 1 + fnfaults
                          /\ k[1] = "ai_representative" /\ Pending(k) => Cardinality(Rows(found, k)) <= fnfaults

(***************************************************************************)
(* The inductive invariant of the findings of a crawl                      *)
(* (url_intelligence/recommendations.py, build_deterministic_findings and  *)
(* carry_forward_status; ai_analysis.py, analyze_template): the findings   *)
(* of the rules are rebuilt whenever the preparation is begun again, those *)
(* of the AI are stored template by template, and each takes over the      *)
(* decision of the crawl before it.                                        *)
(***************************************************************************)
FnInv == /\ FNTypes /\ Untouched /\ AiShows /\ Built /\ CarriedOn /\ BuiltExactly /\ ShownExactly /\ Counted
         /\ DecisionsKept /\ AgeKept

\* What the assumption says of the bounds
LEMMA FindingsNats == VerifySample \in Nat \ {0} /\ FNCrawls \in Nat \ {0} /\ FNOps \in Nat /\ FNFaults \in Nat
BY FindingsAssumption

\* The row ids and their keys
LEMMA RowKeys ==
  /\ \A r \in RowId : /\ r[1] \in Key /\ r[2] \in 1 .. 1 + FNFaults /\ r = <<r[1], r[2]>> /\ (~ IsAi(r) => r[2] = 1 /\ r[1][1] = "deterministic")
                      /\ r[1] = <<r[1][1], r[1][2]>> /\ r[1][2] \in Template
  /\ \A t \in Template : Det(t) \in RowId /\ ~ IsAi(Det(t)) /\ Det(t)[1] = <<"deterministic", t>>
BY FindingsNats DEF RowId, Key, Basis, Det, IsAi

\* The rows of one key are no more than its copies.
LEMMA RowsFew ==
  /\ \A of : \A k \in Key : IsFiniteSet(Rows(of, k)) /\ Cardinality(Rows(of, k)) \in Nat
  /\ \A of : \A k \in Key : k[1] # "ai_representative" => Cardinality(Rows(of, k)) <= 1
<1>1. ASSUME NEW of, NEW k \in Key PROVE IsFiniteSet(Rows(of, k)) /\ Cardinality(Rows(of, k)) \in Nat
  <2> DEFINE S == {k} \X (1 .. 1 + FNFaults)
  <2>1. IsFiniteSet(1 .. 1 + FNFaults)
    <3>1. 1 \in Int /\ 1 + FNFaults \in Int BY FindingsNats
    <3> QED  BY <3>1, FS_Interval
  <2>2. IsFiniteSet(S) BY <2>1, FS_Singleton, FS_Product
  <2>3. Rows(of, k) \subseteq S BY RowKeys DEF Rows
  <2> QED  BY <2>2, <2>3, FS_Subset, FS_CardinalityType
<1>2. ASSUME NEW of, NEW k \in Key, k[1] # "ai_representative" PROVE Cardinality(Rows(of, k)) <= 1
  <2>1. Rows(of, k) \subseteq {<<k, 1>>}
    <3> SUFFICES ASSUME NEW r \in RowId, r[1] = k PROVE r = <<k, 1>> BY DEF Rows
    <3> QED  BY <1>2, RowKeys DEF IsAi
  <2>2. IsFiniteSet({<<k, 1>>}) /\ Cardinality({<<k, 1>>}) = 1 BY FS_Singleton
  <2> QED  BY <2>1, <2>2, FS_Subset
<1> QED  BY <1>1, <1>2

\* Equal tables have equal rows.
LEMMA SameRows ==
  ASSUME NEW a, NEW b, \A r \in RowId : a[r] # NoFinding <=> b[r] # NoFinding
  PROVE  (\A k \in Key : Rows(a, k) = Rows(b, k)) /\ Keys(a) = Keys(b)
<1>1. \A k \in Key : Rows(a, k) = Rows(b, k) BY DEF Rows
<1> QED  BY <1>1 DEF Keys

\* A row that exists is one of the rows of its key.
LEMMA KeyOfRow == \A of : \A r \in RowId : of[r] # NoFinding => r[1] \in Keys(of) /\ r \in Rows(of, r[1])
BY RowKeys DEF Keys, Rows

\* An empty table has none.
LEMMA NoRows == /\ \A r \in RowId : NoFindings[r] = NoFinding
                /\ NoFindings \in [RowId -> FRow]
                /\ \A k \in Key : Rows(NoFindings, k) = {} /\ Cardinality(Rows(NoFindings, k)) = 0
<1>1. \A r \in RowId : NoFindings[r] = NoFinding BY DEF NoFindings
<1>2. NoFindings \in [RowId -> FRow] BY DEF NoFindings, FRow
<1>3. \A k \in Key : Rows(NoFindings, k) = {} BY <1>1 DEF Rows
<1> QED  BY <1>1, <1>2, <1>3, FS_EmptySet

\* A row that exists has a decision and a verdict.
LEMMA RealRows ==
  /\ \A f \in Real : f # NoFinding
  /\ \A f \in Real : \A v \in Verdict : [f EXCEPT !.verified = v] \in Real /\ [f EXCEPT !.verified = v].status = f.status
       /\ [f EXCEPT !.verified = v].first = f.first /\ [f EXCEPT !.verified = v].pages = f.pages
  /\ \A f \in Real : \A d \in Decision : [f EXCEPT !.status = d] \in Real /\ [f EXCEPT !.status = d].status = d
       /\ [f EXCEPT !.status = d].first = f.first /\ [f EXCEPT !.status = d].pages = f.pages
<1>1. \A f \in Real : f.status \in Decision BY DEF Real
<1>2. NoFinding.status \notin Decision BY DEF NoFinding, Decision
<1> QED  BY <1>1, <1>2 DEF Real

\* What a finding takes over from the crawl before
LEMMA Inherits ==
  ASSUME NEW f \in Real, NEW p \in Real
  PROVE  /\ Inherited(f, p) \in Real /\ Inherited(f, p).first = p.first /\ Inherited(f, p).pages = f.pages
         /\ p.status \in {"in_progress", "wont_fix"} => Inherited(f, p).status = p.status
         /\ p.status = "fixed" => Inherited(f, p).status = "open"
         /\ p.status = "open" => Inherited(f, p).status = f.status
<1> DEFINE s == IF p.status \in {"in_progress", "wont_fix"} THEN p.status ELSE IF p.status = "fixed" THEN "open" ELSE f.status
           v == IF p.status = "fixed" THEN "unchanged" ELSE f.verified
<1>1. Inherited(f, p) = [f EXCEPT !.first = p.first, !.status = s, !.verified = v] BY DEF Inherited
<1>2. s \in Decision /\ v \in Verdict /\ p.first \in Nat BY DEF Real, Decision, Verdict
<1>4. Inherited(f, p) \in Real /\ Inherited(f, p).first = p.first /\ Inherited(f, p).pages = f.pages /\ Inherited(f, p).status = s
  <2> HIDE DEF s, v
  <2>1. [f EXCEPT !.first = p.first, !.status = s, !.verified = v] \in Real BY <1>2 DEF Real
  <2>2. [f EXCEPT !.first = p.first, !.status = s, !.verified = v].first = p.first BY DEF Real
  <2>3. [f EXCEPT !.first = p.first, !.status = s, !.verified = v].status = s BY DEF Real
  <2>4. [f EXCEPT !.first = p.first, !.status = s, !.verified = v].pages = f.pages BY DEF Real
  <2> QED  BY <1>1, <2>1, <2>2, <2>3, <2>4
<1> QED  BY <1>4

\* A finding is a row.
LEMMA FindingReal ==
  ASSUME FNTypes, NEW pages \in SUBSET FNPage
  PROVE  Finding(pages) \in Real /\ Finding(pages).status = "open" /\ Finding(pages).first = fcrawl.no /\ Finding(pages).pages = pages
BY DEF FNTypes, Finding, Real, Decision, Verdict

\* A row is one of the findings or none.
LEMMA RowReal == ASSUME FNTypes, NEW r \in RowId
                 PROVE  /\ found[r] # NoFinding => found[r] \in Real
                        /\ shown.rows[r] # NoFinding => shown.rows[r] \in Real
                        /\ shown.rows \in [RowId -> FRow]
BY DEF FNTypes, FRow

\* What is shown stays as it is while the next crawl goes on.
LEMMA ShownStays ==
  ASSUME FnInv, UNCHANGED <<shown, wish, since>>
  PROVE  DecisionsKept' /\ AgeKept'
<1>1. DecisionsKept' BY DEF FnInv, DecisionsKept
<1>2. AgeKept' BY DEF FnInv, AgeKept
<1> QED  BY <1>1, <1>2

\* A crawl that begins, or ends without being shown: there are no findings of its own.
LEMMA Cleared ==
  ASSUME FnInv, found' = NoFindings, seen' = [k \in Key |-> "none"], fcrawl'.phase \notin {"preparing", "completed"},
         UNCHANGED <<shown, rules, wish, since>>, FNTypes', fnfaults' \in Nat
  PROVE  FnInv'
<1>1. Listed' = {} BY NoRows DEF Listed
<1>2. Untouched' BY <1>1 DEF Untouched
<1>3. AiShows' /\ Built' /\ CarriedOn' /\ BuiltExactly' /\ ShownExactly'
  BY DEF AiShows, Built, CarriedOn, BuiltExactly, ShownExactly, FNAt
<1>4. Counted'
  <2> SUFFICES ASSUME NEW k \in Key PROVE Cardinality(Rows(found', k)) <= fnfaults' /\ Cardinality(Rows(found', k)) <= 1 + fnfaults'
    BY DEF Counted
  <2> QED  BY NoRows
<1> QED  BY <1>2, <1>3, <1>4, ShownStays DEF FnInv

\* A new crawl keeps the invariant.
LEMMA NextCrawls == ASSUME FnInv, NextCrawl PROVE FnInv'
<1>1. /\ fcrawl' = [no |-> fcrawl.no + 1, phase |-> "analyzing", engine |-> rules]
      /\ found' = NoFindings /\ fnw' = AtRest /\ seen' = [k \in Key |-> "none"]
      /\ UNCHANGED <<shown, rules, fnops, wish, since, fnfaults>>
  BY DEF NextCrawl, Unseen
<1>2. FNTypes BY DEF FnInv
<1>3. fcrawl.no + 1 \in Nat /\ rules \in Nat BY <1>2 DEF FNTypes
<1>4. fcrawl' \in [no : Nat, phase : {"none", "analyzing", "preparing", "completed", "cancelled", "failed"}, engine : Nat]
  BY <1>1, <1>3
<1>5. FNTypes' BY <1>1, <1>2, <1>4, NoRows DEF FNTypes, AtRest
<1>6. fcrawl'.phase = "analyzing" /\ fnfaults' \in Nat BY <1>1, <1>2 DEF FNTypes
<1> QED  BY <1>1, <1>5, <1>6, Cleared

\* Nobody has seen the findings of a crawl that is being analyzed.
LEMMA EndsUnseen ==
  ASSUME FnInv, NEW phase \in {"cancelled", "failed"}, EndUnseen(phase), fnfaults' \in Nat
  PROVE  FnInv'
<1>1. /\ fcrawl' = [fcrawl EXCEPT !.phase = phase]
      /\ found' = NoFindings /\ fnw' = AtRest /\ seen' = [k \in Key |-> "none"]
      /\ UNCHANGED <<shown, rules, fnops, wish, since>>
  BY DEF EndUnseen, Unseen
<1>2. FNTypes BY DEF FnInv
<1>3. fcrawl' \in [no : Nat, phase : {"none", "analyzing", "preparing", "completed", "cancelled", "failed"}, engine : Nat]
      /\ fcrawl'.phase = phase
  BY <1>1, <1>2 DEF FNTypes
<1>4. FNTypes' BY <1>1, <1>2, <1>3, NoRows DEF FNTypes, AtRest
<1> QED  BY <1>1, <1>3, <1>4, Cleared

\* Storing a finding of the AI keeps the invariant.
LEMMA StoresAi == ASSUME FnInv, NEW t \in Template, StoreAi(t) PROVE FnInv'
<1> DEFINE k == <<"ai_representative", t>>
           n == Cardinality(Rows(found, k)) + 1
           f == Finding(PagesOf(t))
<1>1. /\ fcrawl.phase = "analyzing" /\ fnw.pc = "idle" /\ t \notin analyzed
      /\ found' = [found EXCEPT ![<<k, n>>] = f] \/ found' = found
      /\ fnw' = [pc |-> "mark", of |-> {t}]
      /\ UNCHANGED <<fcrawl, site, analyzed, fnfaults, seen, shown, rules, fnops, wish, since>>
  BY DEF StoreAi, FNAt, Unseen
<1>2. FNTypes /\ found \in [RowId -> FRow] /\ fnfaults \in Nat BY DEF FnInv, FNTypes
<1>3. f \in Real /\ f.status = "open" /\ f.first = fcrawl.no
  <2>1. PagesOf(t) \in SUBSET FNPage BY DEF PagesOf, Crawled
  <2> QED  BY <1>2, <2>1, FindingReal
<1>4. k \in Key BY DEF Key, Basis
<1> HIDE DEF f
<1>5. \A r \in RowId : found'[r] = found[r] \/ (r = <<k, n>> /\ found'[r] = f)
  BY <1>1, <1>2
<1>6. found' \in [RowId -> FRow] BY <1>1, <1>2, <1>3 DEF FRow
<1>7. FNTypes' BY <1>1, <1>2, <1>6 DEF FNTypes
<1>8. Untouched'
  <2>1. \A r \in Listed' : found'[r].status = "open" /\ found'[r].first = fcrawl.no
    BY <1>1, <1>3, <1>5 DEF FnInv, Untouched, Listed, Opened
  <2>2. \A j \in Key : seen'[j] = "none" BY <1>1 DEF FnInv, Untouched
  <2> QED  BY <1>1, <2>1, <2>2 DEF Untouched, Opened
<1>9. AiShows' /\ Built' /\ CarriedOn' /\ BuiltExactly' /\ ShownExactly'
  BY <1>1 DEF AiShows, Built, CarriedOn, BuiltExactly, ShownExactly, FNAt
<1>10. Counted'
  <2> SUFFICES ASSUME NEW j \in Key
               PROVE  /\ Cardinality(Rows(found', j)) <= 1 + fnfaults'
                      /\ j[1] = "ai_representative" /\ Pending(j)' => Cardinality(Rows(found', j)) <= fnfaults'
    BY DEF Counted
  <2>1. CASE j = k
    <3>1. Pending(k) BY <1>1 DEF Pending
    <3>2. Cardinality(Rows(found, k)) <= fnfaults BY <1>4, <3>1 DEF FnInv, Counted
    <3>3. Rows(found', k) \subseteq Rows(found, k) \union {<<k, n>>} BY <1>5 DEF Rows
    <3>4. IsFiniteSet(Rows(found, k)) /\ Cardinality(Rows(found, k)) \in Nat BY <1>4, RowsFew
    <3>5. IsFiniteSet(Rows(found, k) \union {<<k, n>>})
          /\ Cardinality(Rows(found, k) \union {<<k, n>>}) <= Cardinality(Rows(found, k)) + 1
          /\ Cardinality(Rows(found, k) \union {<<k, n>>}) \in Nat
      <4> DEFINE R == Rows(found, k)
                 x == <<k, n>>
      <4> HIDE DEF k, n, R, x
      <4>1. IsFiniteSet(R) /\ Cardinality(R) \in Nat BY <3>4 DEF R
      <4>2. IsFiniteSet(R \union {x}) /\ Cardinality(R \union {x}) = (IF x \in R THEN Cardinality(R) ELSE Cardinality(R) + 1)
        BY <4>1, FS_AddElement
      <4>3. Cardinality(R \union {x}) <= Cardinality(R) + 1 /\ Cardinality(R \union {x}) \in Nat BY <4>1, <4>2
      <4> QED  BY <4>2, <4>3 DEF R, x
    <3>6. Cardinality(Rows(found', k)) <= Cardinality(Rows(found, k) \union {<<k, n>>}) /\ Cardinality(Rows(found', k)) \in Nat
      <4> HIDE DEF k, n
      <4> QED  BY <1>4, <3>3, <3>5, FS_Subset, RowsFew
    <3>7. ~ Pending(k)' BY <1>1 DEF Pending
    <3>8. Cardinality(Rows(found', k)) <= 1 + fnfaults
      <4> HIDE DEF k, n
      <4> QED  BY <1>2, <3>2, <3>4, <3>5, <3>6
    <3> QED  BY <1>1, <2>1, <3>7, <3>8
  <2>2. CASE j # k
    <3>1. Rows(found', j) = Rows(found, j)
      <4>1. \A r \in RowId : r[1] = j => found'[r] = found[r]
        <5> HIDE DEF k, n
        <5>1. <<k, n>>[1] = k OBVIOUS
        <5> QED  BY <1>5, <2>2, <5>1
      <4> QED  BY <4>1 DEF Rows
    <3>2. Pending(j)' => Pending(j) BY <1>1 DEF Pending
    <3> QED  BY <1>1, <3>1, <3>2 DEF FnInv, Counted
  <2> QED  BY <2>1, <2>2
<1> QED  BY <1>1, <1>7, <1>8, <1>9, <1>10, ShownStays DEF FnInv

\* So does marking its template.
LEMMA Marks == ASSUME FnInv, MarkAnalyzed PROVE FnInv'
<1>1. /\ fcrawl.phase = "analyzing" /\ fnw.pc = "mark" /\ analyzed' = analyzed \union fnw.of /\ fnw' = AtRest
      /\ UNCHANGED <<fcrawl, site, found, fnfaults, seen, shown, rules, fnops, wish, since>>
  BY DEF MarkAnalyzed, FNAt, Unseen
<1>2. FNTypes' BY <1>1 DEF FnInv, FNTypes, AtRest
<1>3. Untouched' BY <1>1 DEF FnInv, Untouched, Listed, Opened
<1>4. AiShows' /\ Built' /\ CarriedOn' /\ BuiltExactly' /\ ShownExactly'
  BY <1>1 DEF AiShows, Built, CarriedOn, BuiltExactly, ShownExactly, FNAt
<1>5. Counted'
  <2>1. \A k \in Key : Pending(k)' => Pending(k) BY <1>1 DEF Pending
  <2> QED  BY <1>1, <2>1 DEF FnInv, Counted
<1> QED  BY <1>1, <1>2, <1>3, <1>4, <1>5, ShownStays DEF FnInv

\* So does the end of the analysis.
LEMMA EndsAnalyzing == ASSUME FnInv, EndAnalyzing PROVE FnInv'
<1>1. /\ fcrawl.phase = "analyzing" /\ fnw.pc = "idle" /\ fcrawl' = [fcrawl EXCEPT !.phase = "preparing"]
      /\ UNCHANGED <<site, analyzed, found, fnw, fnfaults, seen, shown, rules, fnops, wish, since>>
  BY DEF EndAnalyzing, FNAt, Unseen
<1>2. fcrawl'.phase = "preparing" /\ fcrawl'.no = fcrawl.no /\ fcrawl'.engine = fcrawl.engine
      /\ fcrawl' \in [no : Nat, phase : {"none", "analyzing", "preparing", "completed", "cancelled", "failed"}, engine : Nat]
  BY <1>1 DEF FnInv, FNTypes
<1>3. FNTypes' BY <1>1, <1>2 DEF FnInv, FNTypes
<1>4. Untouched' /\ Built' /\ CarriedOn' /\ BuiltExactly' /\ ShownExactly'
  BY <1>1, <1>2 DEF Untouched, Built, CarriedOn, BuiltExactly, ShownExactly, FNAt
<1>5. AiShows'
  <2>1. ASSUME NEW r \in Listed' PROVE Shows(r)'
    <3>1. r \in Listed /\ r \in RowId BY <1>1, <2>1 DEF Listed
    <3>2. Opened(r) /\ seen[r[1]] = "none" BY <1>1, <3>1, RowKeys DEF FnInv, Untouched
    <3> QED  BY <1>1, <1>2, <3>2 DEF Shows, Opened
  <2> QED  BY <2>1 DEF AiShows
<1>6. Counted' BY <1>1, <1>2 DEF FnInv, Counted, Pending
<1> QED  BY <1>1, <1>3, <1>4, <1>5, <1>6, ShownStays DEF FnInv

\* Whether an issue is there again depends on which rows there are, not on what they say.
LEMMA SameRecurring ==
  ASSUME Keys(found') = Keys(found), Keys(shown'.rows) = Keys(shown.rows), fcrawl'.engine = fcrawl.engine, shown'.engine = shown.engine
  PROVE  Recurring' = Recurring
BY DEF Recurring, Comparable

\* Whether a finding recurs depends on its key.
LEMMA RecurringByKey ==
  ASSUME Keys(shown'.rows) = Keys(shown.rows), fcrawl'.engine = fcrawl.engine, shown'.engine = shown.engine,
         NEW k, k \in Keys(found') <=> k \in Keys(found)
  PROVE  k \in Recurring' <=> k \in Recurring
BY DEF Recurring, Comparable

\* Building the findings of the rules keeps the invariant.
LEMMA Builds == ASSUME FnInv, Build PROVE FnInv'
<1> DEFINE newRow(r) == IF r[1][1] # "deterministic" THEN found[r]
                     ELSE IF Affected(r[1][2]) # {} THEN Finding(Affected(r[1][2])) ELSE NoFinding
<1>1. /\ fcrawl.phase = "preparing" /\ fnw.pc = "idle" /\ found' = [r \in RowId |-> newRow(r)]
      /\ fnw' = [AtRest EXCEPT !.pc = "carry"]
      /\ UNCHANGED <<fcrawl, site, analyzed, fnfaults, seen, shown, rules, fnops, wish, since>>
  BY DEF Build, FNAt, Unseen
<1>2. FNTypes /\ found \in [RowId -> FRow] BY DEF FnInv, FNTypes
<1>3. \A t : Affected(t) \in SUBSET FNPage BY DEF Affected, PagesOf, Crawled
<1>4. \A r \in RowId : IsAi(r) => found'[r] = found[r] BY <1>1 DEF IsAi
<1>5. \A r \in RowId : ~ IsAi(r) => found'[r] = IF Affected(r[1][2]) # {} THEN Finding(Affected(r[1][2])) ELSE NoFinding
  BY <1>1, RowKeys DEF IsAi
<1>6. \A t : /\ Finding(Affected(t)) \in Real /\ Finding(Affected(t)).status = "open"
             /\ Finding(Affected(t)).first = fcrawl.no /\ Finding(Affected(t)).pages = Affected(t)
  BY <1>2, <1>3, FindingReal
<1>7. found' \in [RowId -> FRow]
  <2>1. \A r \in RowId : newRow(r) \in FRow BY <1>2, <1>6 DEF FRow
  <2> HIDE DEF newRow
  <2> QED  BY <1>1, <2>1
<1> HIDE DEF newRow
<1>8. fnw' \in [pc : {"idle", "mark", "carry", "advance"}, of : SUBSET Template] /\ fnw'.pc = "carry" BY <1>1 DEF AtRest
<1>9. FNTypes' BY <1>1, <1>2, <1>7, <1>8 DEF FNTypes
<1>10. Untouched' /\ CarriedOn' /\ ShownExactly' BY <1>1, <1>8 DEF Untouched, CarriedOn, ShownExactly, FNAt
<1>11. AiShows'
  <2>1. ASSUME NEW r \in Listed', IsAi(r) PROVE Shows(r)'
    <3>1. r \in RowId /\ found'[r] = found[r] /\ r \in Listed BY <1>4, <2>1 DEF Listed
    <3>2. Shows(r) BY <1>1, <2>1, <3>1 DEF FnInv, AiShows
    <3>3. r[1] \in Keys(found') /\ r[1] \in Keys(found) BY <2>1, <3>1, KeyOfRow DEF Listed
    <3>4. r[1] \in Recurring' <=> r[1] \in Recurring BY <1>1, <3>3, RecurringByKey
    <3> QED  BY <1>1, <3>1, <3>2, <3>4 DEF Shows, Opened
  <2> QED  BY <2>1 DEF AiShows, IsAi
<1>12. Built'
  <2>1. \A r \in Listed' : ~ IsAi(r) => found'[r].status = "open" /\ found'[r].first = fcrawl'.no
    BY <1>1, <1>5, <1>6 DEF Listed
  <2> QED  BY <2>1 DEF Built, Opened, IsAi
<1>13. BuiltExactly'
  <2>1. ASSUME NEW t \in Template PROVE Lists(found, t)'
    <3>1. found'[Det(t)] = IF Affected(t) # {} THEN Finding(Affected(t)) ELSE NoFinding
      <4>1. Det(t) \in RowId /\ ~ IsAi(Det(t)) /\ Det(t)[1][2] = t BY RowKeys DEF Det
      <4> QED  BY <1>5, <4>1
    <3>2. Affected(t)' = Affected(t) BY <1>1 DEF Affected, PagesOf, Crawled
    <3> QED  BY <1>6, <3>1, <3>2 DEF Lists
  <2> QED  BY <2>1 DEF BuiltExactly, Lists
<1>14. Counted'
  <2> SUFFICES ASSUME NEW k \in Key PROVE Cardinality(Rows(found', k)) <= 1 + fnfaults
    BY <1>1 DEF Counted, Pending
  <2>1. CASE k[1] = "ai_representative"
    <3>1. \A r \in RowId : r[1] = k => found'[r] = found[r] BY <1>4, <2>1 DEF IsAi
    <3>2. Rows(found', k) = Rows(found, k) BY <3>1 DEF Rows
    <3> QED  BY <3>2 DEF FnInv, Counted
  <2>2. CASE k[1] # "ai_representative"
    <3>1. Cardinality(Rows(found', k)) <= 1 /\ Cardinality(Rows(found', k)) \in Nat /\ fnfaults \in Nat
      BY <1>2, <2>2, RowsFew DEF FNTypes
    <3> QED  BY <3>1
  <2> QED  BY <2>1, <2>2
<1> QED  BY <1>1, <1>9, <1>10, <1>11, <1>12, <1>13, <1>14, ShownStays DEF FnInv

\* What one newRow inherits.
LEMMA CarriesRow ==
  ASSUME FnInv, FNAt("preparing", "carry"), NEW r \in RowId, found[r] # NoFinding, r[1] \in Recurring,
         NEW q \in Rows(shown.rows, r[1]), NEW after, NEW g,
         after = (IF r[1][1] = "deterministic" \/ seen[r[1]] \in {"none", wish[r[1]]} THEN wish[r[1]] ELSE "any"),
         g = Inherited(found[r], shown.rows[q])
  PROVE  /\ g \in Real /\ g.pages = found[r].pages /\ g.first = since[r[1]]
         /\ after \in {"none", "open", "fixed"} => g.status = "open"
         /\ after \in {"in_progress", "wont_fix"} => g.status = after
<1> DEFINE k == r[1]
<1>1. FNTypes /\ q \in RowId /\ q[1] = k /\ shown.rows[q] # NoFinding BY DEF FnInv, Rows
<1>2. k \in Key BY RowKeys
<1>3. wish[k] \in Decision \union {"any"} /\ seen[k] \in Decision \union {"any", "none"} BY <1>1, <1>2 DEF FNTypes
<1>4. found[r] \in Real /\ shown.rows[q] \in Real BY <1>1, RowReal
<1>5. g \in Real /\ g.pages = found[r].pages /\ g.first = shown.rows[q].first BY <1>4, Inherits
<1>6. shown.rows[q].first = since[k] BY <1>1 DEF FnInv, AgeKept
<1>7. after # "any" => shown.rows[q].status = wish[k] /\ after = wish[k] /\ wish[k] \in Decision
  <2>1. wish[k] # "any" => shown.rows[q].status = wish[k] BY <1>1 DEF FnInv, DecisionsKept
  <2> QED  BY <1>3, <2>1
<1>8. after = "open" => found[r].status = "open"
  <2> SUFFICES ASSUME after = "open" PROVE found[r].status = "open" OBVIOUS
  <2>1. r \in Listed BY DEF Listed
  <2>2. CASE ~ IsAi(r) BY <2>1, <2>2 DEF FnInv, Built, Opened
  <2>3. CASE IsAi(r)
    <3>1. Shows(r) BY <2>1, <2>3 DEF FnInv, AiShows, FNAt
    <3>2. seen[k] \in {"none", "open"} BY <1>7, <2>3 DEF IsAi
    <3> QED  BY <3>1, <3>2 DEF Shows
  <2> QED  BY <2>2, <2>3
<1>9. after \in {"none", "open", "fixed"} => g.status = "open"
  <2>1. CASE after = "none" BY <1>7, <2>1 DEF Decision
  <2>2. CASE after = "open" BY <1>4, <1>7, <1>8, <2>2, Inherits
  <2>3. CASE after = "fixed" BY <1>4, <1>7, <2>3, Inherits
  <2> QED  BY <2>1, <2>2, <2>3
<1>10. after \in {"in_progress", "wont_fix"} => g.status = after BY <1>4, <1>7, Inherits
<1> QED  BY <1>5, <1>6, <1>9, <1>10

\* So does carrying on the decisions.
LEMMA Carries == ASSUME FnInv, Carry PROVE FnInv'
<1>1. PICK source \in [Recurring -> RowId] :
      /\ FNAt("preparing", "carry")
      /\ \A k \in Recurring : source[k] \in Rows(shown.rows, k)
      /\ found' = [r \in RowId |->
           IF found[r] # NoFinding /\ r[1] \in Recurring
           THEN Inherited(found[r], shown.rows[source[r[1]]]) ELSE found[r]]
      /\ seen' = [k \in Key |->
           IF k[1] = "deterministic" \/ seen[k] \in {"none", wish[k]} THEN wish[k] ELSE "any"]
      /\ fnw' = [AtRest EXCEPT !.pc = "advance"]
      /\ UNCHANGED <<fcrawl, site, analyzed, fnfaults>> /\ Unseen
  BY DEF Carry
<1>2. UNCHANGED <<fcrawl, site, analyzed, fnfaults, shown, rules, fnops, wish, since>>
      /\ fcrawl.phase = "preparing" /\ fnw.pc = "carry"
  BY <1>1 DEF Unseen, FNAt
<1>3. FNTypes /\ found \in [RowId -> FRow] BY DEF FnInv, FNTypes
<1>4. fnw' \in [pc : {"idle", "mark", "carry", "advance"}, of : SUBSET Template] /\ fnw'.pc = "advance" BY <1>1 DEF AtRest
<1>5. \A k \in Key : seen'[k] \in Decision \union {"any"} /\ seen'[k] # "none"
  <2>1. \A k \in Key : wish[k] \in Decision \union {"any"} BY <1>3 DEF FNTypes
  <2> QED  BY <1>1, <2>1 DEF Decision
<1>6. ASSUME NEW r \in RowId, found[r] # NoFinding, r[1] \in Recurring
      PROVE  /\ found'[r] \in Real /\ found'[r].pages = found[r].pages /\ found'[r].first = since[r[1]]
             /\ seen'[r[1]] \in {"none", "open", "fixed"} => found'[r].status = "open"
             /\ seen'[r[1]] \in {"in_progress", "wont_fix"} => found'[r].status = seen'[r[1]]
  <2>1. source[r[1]] \in Rows(shown.rows, r[1]) BY <1>1, <1>6
  <2>2. found'[r] = Inherited(found[r], shown.rows[source[r[1]]]) BY <1>1, <1>6
  <2>3. seen'[r[1]] = (IF r[1][1] = "deterministic" \/ seen[r[1]] \in {"none", wish[r[1]]} THEN wish[r[1]] ELSE "any")
    BY <1>1, RowKeys
  <2> QED  BY <1>1, <1>6, <2>1, <2>2, <2>3, CarriesRow
<1>7. ASSUME NEW r \in RowId, ~ (found[r] # NoFinding /\ r[1] \in Recurring) PROVE found'[r] = found[r]
  BY <1>1, <1>7
<1>8. \A r \in RowId : found'[r] \in FRow BY <1>3, <1>6, <1>7 DEF FRow
<1>9. found' \in [RowId -> FRow] BY <1>1, <1>8
<1>10. \A r \in RowId : found'[r] # NoFinding <=> found[r] # NoFinding BY <1>6, <1>7, RealRows
<1>11. Recurring' = Recurring /\ Listed' = Listed
  <2>1. Keys(found') = Keys(found) BY <1>10, SameRows
  <2>2. Recurring' = Recurring BY <1>2, <2>1, SameRecurring
  <2> QED  BY <1>10, <2>2 DEF Listed
<1>12. FNTypes'
  <2>1. seen' \in [Key -> Decision \union {"any", "none"}] BY <1>1, <1>5
  <2> QED  BY <1>2, <1>3, <1>4, <1>9, <2>1 DEF FNTypes
<1>13. \A r \in Listed : Shows(r)' /\ (r[1] \in Recurring => found'[r].first = since[r[1]])
  <2> SUFFICES ASSUME NEW r \in Listed PROVE Shows(r)' /\ (r[1] \in Recurring => found'[r].first = since[r[1]]) OBVIOUS
  <2>1. r \in RowId /\ found[r] # NoFinding BY DEF Listed
  <2>2. CASE r[1] \in Recurring BY <1>6, <1>11, <2>1, <2>2 DEF Shows
  <2>3. CASE r[1] \notin Recurring
    <3>1. Opened(r)
      <4>1. CASE ~ IsAi(r) BY <1>1, <4>1 DEF FnInv, Built
      <4>2. CASE IsAi(r) BY <1>2, <2>3, <4>2 DEF FnInv, AiShows, Shows
      <4> QED  BY <4>1, <4>2
    <3>2. found'[r] = found[r] BY <1>7, <2>1, <2>3
    <3> QED  BY <1>2, <1>11, <2>3, <3>1, <3>2 DEF Shows, Opened
  <2> QED  BY <2>2, <2>3
<1>14. AiShows' BY <1>11, <1>13 DEF AiShows, IsAi
<1>15. CarriedOn' BY <1>2, <1>5, <1>11, <1>13 DEF CarriedOn
<1>16. Untouched' /\ Built' /\ ShownExactly' BY <1>2, <1>4 DEF Untouched, Built, ShownExactly, FNAt
<1>17. BuiltExactly'
  <2>1. ASSUME NEW t \in Template PROVE Lists(found, t)'
    <3>1. Lists(found, t) BY <1>2 DEF FnInv, BuiltExactly
    <3>2. Affected(t)' = Affected(t) BY <1>2 DEF Affected, PagesOf, Crawled
    <3>3. Det(t) \in RowId BY RowKeys
    <3>4. (found'[Det(t)] = NoFinding <=> found[Det(t)] = NoFinding) /\ found'[Det(t)].pages = found[Det(t)].pages
      BY <1>6, <1>7, <1>10, <3>3
    <3> QED  BY <3>1, <3>2, <3>4 DEF Lists
  <2> QED  BY <2>1 DEF BuiltExactly, Lists
<1>18. Counted'
  <2>1. \A k \in Key : Rows(found', k) = Rows(found, k) BY <1>10, SameRows
  <2>2. \A k \in Key : ~ Pending(k)' BY <1>2 DEF Pending
  <2> QED  BY <1>2, <2>1, <2>2 DEF FnInv, Counted
<1> QED  BY <1>2, <1>12, <1>14, <1>15, <1>16, <1>17, <1>18, ShownStays DEF FnInv

\* So does the completion of the crawl.
LEMMA Completes == ASSUME FnInv, Complete PROVE FnInv'
<1>1. /\ fcrawl.phase = "preparing" /\ fnw.pc = "advance"
      /\ fcrawl' = [fcrawl EXCEPT !.phase = "completed"] /\ fnw' = AtRest
      /\ shown' = [no |-> fcrawl.no, engine |-> fcrawl.engine, rows |-> found]
      /\ since' = [k \in Key |-> IF k \notin Keys(found) THEN 0
                                 ELSE IF k \in Recurring THEN since[k] ELSE fcrawl.no]
      /\ wish' = [k \in Key |-> IF k \in Recurring /\ seen[k] # "fixed" THEN seen[k] ELSE "open"]
      /\ UNCHANGED <<site, analyzed, found, rules, fnops, fnfaults, seen>>
  BY DEF Complete, FNAt
<1>2. FNTypes /\ found \in [RowId -> FRow] /\ fcrawl.no \in Nat /\ fcrawl.engine \in Nat BY DEF FnInv, FNTypes
<1>3. fcrawl' \in [no : Nat, phase : {"none", "analyzing", "preparing", "completed", "cancelled", "failed"}, engine : Nat]
      /\ fcrawl'.phase = "completed" /\ fnw'.pc = "idle" /\ fnw' \in [pc : {"idle", "mark", "carry", "advance"}, of : SUBSET Template]
  BY <1>1, <1>2 DEF FNTypes, AtRest
<1>4. shown' \in [no : Nat, engine : Nat, rows : [RowId -> FRow]] /\ shown'.rows = found BY <1>1, <1>2
<1>5. \A k \in Key : seen[k] # "none" /\ seen[k] \in Decision \union {"any"} BY <1>1, <1>2 DEF FnInv, CarriedOn, FNAt, FNTypes
<1>6. wish' \in [Key -> Decision \union {"any"}]
  <2>1. \A k \in Key : (IF k \in Recurring /\ seen[k] # "fixed" THEN seen[k] ELSE "open") \in Decision \union {"any"}
    BY <1>5 DEF Decision
  <2> QED  BY <1>1, <2>1
<1>7. since' \in [Key -> Nat]
  <2>1. \A k \in Key : since[k] \in Nat BY <1>2 DEF FNTypes
  <2> QED  BY <1>1, <1>2, <2>1
<1>8. FNTypes' BY <1>1, <1>2, <1>3, <1>4, <1>6, <1>7 DEF FNTypes
<1>9. Untouched' /\ AiShows' /\ Built' /\ CarriedOn' /\ BuiltExactly'
  BY <1>3 DEF Untouched, AiShows, Built, CarriedOn, BuiltExactly, FNAt
<1>10. ShownExactly'
  <2>1. ASSUME NEW t \in Template PROVE Lists(shown.rows, t)'
    <3>1. Lists(found, t) BY <1>1 DEF FnInv, BuiltExactly
    <3>2. Affected(t)' = Affected(t) BY <1>1 DEF Affected, PagesOf, Crawled
    <3> QED  BY <1>4, <3>1, <3>2 DEF Lists
  <2> QED  BY <2>1 DEF ShownExactly
<1>11. Counted'
  <2>1. \A k \in Key : ~ Pending(k)' BY <1>3 DEF Pending
  <2> QED  BY <1>1, <2>1 DEF FnInv, Counted
<1>12. \A r \in Listed : Shows(r) /\ (r[1] \in Recurring => found[r].first = since[r[1]])
  BY <1>1 DEF FnInv, CarriedOn, FNAt
<1>13. ASSUME NEW r \in RowId, found[r] # NoFinding
       PROVE  found[r].first = since'[r[1]] /\ (wish'[r[1]] # "any" => found[r].status = wish'[r[1]])
  <2>1. r[1] \in Key /\ r[1] \in Keys(found) /\ r \in Listed BY <1>13, RowKeys, KeyOfRow DEF Listed
  <2>2. Shows(r) BY <1>12, <2>1
  <2>3. CASE r[1] \in Recurring
    <3>1. since'[r[1]] = since[r[1]] BY <1>1, <2>1, <2>3
    <3>2. found[r].first = since[r[1]] BY <1>12, <2>1, <2>3
    <3>3. wish'[r[1]] = IF seen[r[1]] # "fixed" THEN seen[r[1]] ELSE "open" BY <1>1, <2>1, <2>3
    <3>4. seen[r[1]] \in {"open", "fixed", "in_progress", "wont_fix", "any"} BY <1>5, <2>1 DEF Decision
    <3>5. wish'[r[1]] # "any" => found[r].status = wish'[r[1]] BY <2>2, <2>3, <3>3, <3>4 DEF Shows
    <3> QED  BY <3>1, <3>2, <3>5
  <2>4. CASE r[1] \notin Recurring
    <3>1. since'[r[1]] = fcrawl.no /\ wish'[r[1]] = "open" BY <1>1, <2>1, <2>4
    <3> QED  BY <2>2, <2>4, <3>1 DEF Shows, Opened
  <2> QED  BY <2>3, <2>4
<1>14. DecisionsKept' BY <1>4, <1>13 DEF DecisionsKept
<1>15. AgeKept' BY <1>4, <1>13 DEF AgeKept
<1> QED  BY <1>8, <1>9, <1>10, <1>11, <1>14, <1>15 DEF FnInv

\* What owners do changes one newRow that is shown: what was decided, or its verdict.
LEMMA Owners ==
  ASSUME FnInv, NEW r \in RowId, shown.rows[r] # NoFinding, NEW g \in Real, shown' = [shown EXCEPT !.rows[r] = g],
         g.first = shown.rows[r].first, g.pages = shown.rows[r].pages, Uncrawled,
         wish' \in [Key -> Decision \union {"any"}], DecisionsKept'
  PROVE  FnInv'
<1>1. FNTypes /\ shown.rows \in [RowId -> FRow] BY DEF FnInv, FNTypes
<1>2. shown' \in [no : Nat, engine : Nat, rows : [RowId -> FRow]] /\ shown'.engine = shown.engine
      /\ shown'.rows[r] = g /\ \A q \in RowId : q # r => shown'.rows[q] = shown.rows[q]
  BY <1>1 DEF FNTypes, FRow
<1>3. UNCHANGED <<fcrawl, site, analyzed, found, fnw, rules, fnfaults, seen, since>> BY DEF Uncrawled
<1>4. \A q \in RowId : shown'.rows[q] # NoFinding <=> shown.rows[q] # NoFinding BY <1>2, RealRows
<1>5. Recurring' = Recurring
  <2>1. Keys(shown'.rows) = Keys(shown.rows) BY <1>4, SameRows
  <2>2. Keys(found') = Keys(found) BY <1>3
  <2> QED  BY <1>2, <1>3, <2>1, <2>2, SameRecurring
<1>6. FNTypes' BY <1>1, <1>2, <1>3 DEF FNTypes
<1>7. Untouched' BY <1>3 DEF FnInv, Untouched, Listed, Opened
<1>8. AiShows' BY <1>3, <1>5 DEF FnInv, AiShows, Listed, Shows, Opened, IsAi
<1>9. Built' BY <1>3 DEF FnInv, Built, Listed, Opened, FNAt, IsAi
<1>10. CarriedOn' BY <1>3, <1>5 DEF FnInv, CarriedOn, Listed, Shows, Opened, FNAt
<1>11. \A t : Affected(t)' = Affected(t) BY <1>3 DEF Affected, PagesOf, Crawled
<1>12. BuiltExactly' BY <1>3, <1>11 DEF FnInv, BuiltExactly, Lists
<1>13. ShownExactly'
  <2>1. ASSUME NEW t \in Template, Lists(shown.rows, t) PROVE Lists(shown.rows, t)'
    <3>1. Det(t) \in RowId BY RowKeys
    <3>2. (shown'.rows[Det(t)] = NoFinding <=> shown.rows[Det(t)] = NoFinding) /\ shown'.rows[Det(t)].pages = shown.rows[Det(t)].pages
      BY <1>2, <1>4, <3>1
    <3> QED  BY <1>11, <2>1, <3>2 DEF Lists
  <2> QED  BY <1>3, <2>1 DEF FnInv, ShownExactly
<1>14. Counted' BY <1>3 DEF FnInv, Counted, Pending
<1>15. AgeKept' BY <1>2, <1>3, <1>4 DEF FnInv, AgeKept
<1> QED  BY <1>6, <1>7, <1>8, <1>9, <1>10, <1>12, <1>13, <1>14, <1>15 DEF FnInv

\* So does a decision of a person.
LEMMA Decides == ASSUME FnInv, NEW r \in RowId, NEW d \in Decision, Decide(r, d) PROVE FnInv'
<1> DEFINE g == [shown.rows[r] EXCEPT !.status = d]
           k == r[1]
<1>1. /\ shown.rows[r] # NoFinding /\ Uncrawled /\ shown' = [shown EXCEPT !.rows[r] = g]
      /\ wish' = [wish EXCEPT ![k] = IF Cardinality(Rows(shown.rows, k)) = 1 THEN d ELSE "any"]
  BY DEF Decide
<1>2. FNTypes /\ shown.rows[r] \in Real /\ shown.rows \in [RowId -> FRow] BY <1>1, RowReal DEF FnInv
<1>3. g \in Real /\ g.status = d /\ g.first = shown.rows[r].first /\ g.pages = shown.rows[r].pages BY <1>2, RealRows
<1>4. k \in Key /\ wish \in [Key -> Decision \union {"any"}] BY <1>2, RowKeys DEF FNTypes
<1> HIDE DEF g, k
<1>5. wish' \in [Key -> Decision \union {"any"}] BY <1>1, <1>4
<1>6. shown'.rows[r] = g /\ \A q \in RowId : q # r => shown'.rows[q] = shown.rows[q] BY <1>1, <1>2 DEF FNTypes
<1>7. DecisionsKept'
  <2> SUFFICES ASSUME NEW q \in RowId, shown'.rows[q] # NoFinding, wish'[q[1]] # "any" PROVE shown'.rows[q].status = wish'[q[1]]
    BY DEF DecisionsKept
  <2>1. q[1] \in Key BY RowKeys
  <2>2. CASE q[1] # k
    <3>1. q # r /\ wish'[q[1]] = wish[q[1]] BY <1>1, <1>4, <2>1, <2>2 DEF k
    <3> QED  BY <1>6, <3>1 DEF FnInv, DecisionsKept
  <2>3. CASE q[1] = k
    <3>1. Cardinality(Rows(shown.rows, k)) = 1 /\ wish'[k] = d BY <1>1, <1>4, <2>3
    <3>2. shown.rows[q] # NoFinding BY <1>1, <1>6
    <3>3. q \in Rows(shown.rows, k) /\ r \in Rows(shown.rows, k) BY <1>1, <2>3, <3>2 DEF Rows, k
    <3>4. IsFiniteSet(Rows(shown.rows, k)) BY <1>4, RowsFew
    <3>5. q = r
      <4>1. \A S : IsFiniteSet(S) /\ Cardinality(S) = 1 => \E x : S = {x} BY FS_Singleton
      <4>2. PICK x : Rows(shown.rows, k) = {x} BY <3>1, <3>4, <4>1
      <4> QED  BY <3>3, <4>2
    <3> QED  BY <1>3, <1>6, <2>3, <3>1, <3>5
  <2> QED  BY <2>2, <2>3
<1> QED  BY <1>1, <1>3, <1>5, <1>7, Owners

\* So does a check of a fix.
LEMMA Verifies == ASSUME FnInv, NEW r \in RowId, Verify(r) PROVE FnInv'
<1>1. PICK v \in Verdict : shown' = [shown EXCEPT !.rows[r] = [shown.rows[r] EXCEPT !.verified = v]] BY DEF Verify
<1> DEFINE g == [shown.rows[r] EXCEPT !.verified = v]
<1>2. shown.rows[r] # NoFinding /\ Uncrawled /\ UNCHANGED wish BY DEF Verify
<1>3. FNTypes /\ shown.rows[r] \in Real /\ shown.rows \in [RowId -> FRow] BY <1>2, RowReal DEF FnInv
<1>4. g \in Real /\ g.status = shown.rows[r].status /\ g.first = shown.rows[r].first /\ g.pages = shown.rows[r].pages BY <1>3, RealRows
<1>5. shown' = [shown EXCEPT !.rows[r] = g] BY <1>1
<1> HIDE DEF g
<1>6. shown'.rows[r] = g /\ \A q \in RowId : q # r => shown'.rows[q] = shown.rows[q] BY <1>3, <1>5 DEF FNTypes
<1>7. DecisionsKept' BY <1>2, <1>4, <1>6 DEF FnInv, DecisionsKept
<1>8. wish' \in [Key -> Decision \union {"any"}] BY <1>2, <1>3 DEF FNTypes
<1> QED  BY <1>2, <1>4, <1>5, <1>7, <1>8, Owners

\* So does the death of a chunk.
LEMMA Dies == ASSUME FnInv, ChunkDies PROVE FnInv'
<1>1. /\ fcrawl.phase \in {"analyzing", "preparing"} /\ fnfaults' = fnfaults + 1 /\ fnw' = AtRest
      /\ UNCHANGED <<fcrawl, site, analyzed, found, seen, shown, rules, fnops, wish, since>>
  BY DEF ChunkDies, FNFault, Unseen, Unfinished
<1>2. FNTypes /\ fnfaults \in Nat BY DEF FnInv, FNTypes
<1>3. fnw' \in [pc : {"idle", "mark", "carry", "advance"}, of : SUBSET Template] /\ fnw'.pc = "idle" BY <1>1 DEF AtRest
<1>4. FNTypes' BY <1>1, <1>2, <1>3 DEF FNTypes
<1>5. Recurring' = Recurring BY <1>1 DEF Recurring, Comparable
<1>6. Untouched' BY <1>1 DEF FnInv, Untouched, Listed, Opened
<1>7. AiShows' BY <1>1, <1>5 DEF FnInv, AiShows, Listed, Shows, Opened, IsAi
<1>8. Built' /\ CarriedOn' /\ BuiltExactly' BY <1>3 DEF Built, CarriedOn, BuiltExactly, FNAt
<1>9. ShownExactly' BY <1>1 DEF ShownExactly
<1>10. Counted'
  <2>1. \A k \in Key : Cardinality(Rows(found, k)) <= 1 + fnfaults /\ Cardinality(Rows(found, k)) \in Nat
    BY RowsFew DEF FnInv, Counted
  <2>2. \A k \in Key : Cardinality(Rows(found', k)) <= fnfaults' /\ Cardinality(Rows(found', k)) <= 1 + fnfaults'
    BY <1>1, <1>2, <2>1
  <2> QED  BY <2>2 DEF Counted
<1> QED  BY <1>1, <1>4, <1>6, <1>7, <1>8, <1>9, <1>10, ShownStays DEF FnInv

\* So does a step that changes nothing.
LEMMA FindingsStutter ==
  ASSUME FnInv, UNCHANGED <<fcrawl, site, analyzed, found, shown, fnw, fnfaults, wish, seen, since>>, rules' \in Nat
  PROVE  FnInv'
<1>1. FNTypes' BY DEF FnInv, FNTypes
<1>2. Recurring' = Recurring BY DEF Recurring, Comparable
<1>3. Untouched' BY DEF FnInv, Untouched, Listed, Opened
<1>4. AiShows' BY <1>2 DEF FnInv, AiShows, Listed, Shows, Opened, IsAi
<1>5. Built' BY DEF FnInv, Built, Listed, Opened, FNAt, IsAi
<1>6. CarriedOn' BY <1>2 DEF FnInv, CarriedOn, Listed, Shows, Opened, FNAt
<1>7. BuiltExactly' /\ ShownExactly' BY DEF FnInv, BuiltExactly, ShownExactly, Lists, Affected, PagesOf, Crawled
<1>8. Counted' BY DEF FnInv, Counted, Pending
<1> QED  BY <1>1, <1>3, <1>4, <1>5, <1>6, <1>7, <1>8, ShownStays DEF FnInv

\* It holds at the start.
LEMMA FindingsInit == FNInit => FnInv
<1> SUFFICES ASSUME FNInit PROVE FnInv OBVIOUS
<1>1. fcrawl.phase = "none" /\ found = NoFindings /\ shown.rows = NoFindings /\ fnw = AtRest /\ fnfaults = 0 BY DEF FNInit
<1>2. FNTypes BY NoRows DEF FNInit, FNTypes, AtRest, Decision
<1>3. Untouched /\ AiShows /\ Built /\ CarriedOn /\ BuiltExactly /\ ShownExactly
  BY <1>1 DEF Untouched, AiShows, Built, CarriedOn, BuiltExactly, ShownExactly, FNAt
<1>4. Counted BY <1>1, NoRows DEF Counted
<1>5. DecisionsKept /\ AgeKept BY <1>1, NoRows DEF DecisionsKept, AgeKept
<1> QED  BY <1>2, <1>3, <1>4, <1>5 DEF FnInv

\* Every step keeps it.
LEMMA FindingsNext == FnInv /\ [FNNext]_fnVars => FnInv'
<1> SUFFICES ASSUME FnInv, [FNNext]_fnVars PROVE FnInv' OBVIOUS
<1>1. rules \in Nat /\ fnfaults \in Nat /\ fnfaults + 1 \in Nat BY DEF FnInv, FNTypes
<1>2. CASE CancelCrawl BY <1>1, <1>2, EndsUnseen DEF CancelCrawl
<1>3. CASE CrawlFails BY <1>1, <1>3, EndsUnseen DEF CrawlFails, FNFault
<1>4. CASE UpgradeEngine BY <1>4, FindingsStutter DEF UpgradeEngine
<1>5. CASE UNCHANGED fnVars BY <1>1, <1>5, FindingsStutter DEF fnVars
<1>6. CASE \E t \in Template : StoreAi(t) BY <1>6, StoresAi
<1>7. CASE \E r \in RowId : Verify(r) \/ \E d \in Decision : Decide(r, d) BY <1>7, Verifies, Decides
<1> QED
  BY <1>2, <1>3, <1>4, <1>5, <1>6, <1>7, NextCrawls, Marks, EndsAnalyzing, Builds, Carries, Completes, Dies DEF FNNext

(***************************************************************************)
(* For any templates, pages and crawls, and whatever chunk dies: a         *)
(* completed crawl lists exactly the pages that have an issue, under their *)
(* templates; what the AI says of a template is listed once, and once more *)
(* at most for each fault; as long as every completed crawl finds an       *)
(* issue, what its owner decided before it was carried on stands, but for  *)
(* a fix that is refuted; and an issue keeps the number of the crawl that  *)
(* found it first (recommendations.py, build_deterministic_findings and    *)
(* carry_forward_status; ai_analysis.py, analyze_template).                *)
(***************************************************************************)
THEOREM FindingsShown == FNSpec => []FindingsSound
<1>1. FnInv => FindingsSound
  <2> SUFFICES ASSUME FnInv PROVE FindingsSound OBVIOUS
  <2>1. ASSUME NEW t \in Template, fcrawl.phase = "completed" PROVE Lists(shown.rows, t)
    BY <2>1 DEF FnInv, ShownExactly
  <2>2. FindingsExact BY <2>1 DEF FnInv, FindingsExact, Counted, Lists, Det
  <2> QED  BY <2>2 DEF FnInv, FindingsSound
<1> QED  BY <1>1, FindingsInit, FindingsNext, PTL DEF FNSpec

----------------------------------------------------------------------------
(***************************************************************************)
(* Page value runs (PageValue)                                             *)
(***************************************************************************)

\* The steps of a worker and of a request, and the rows of the runs
PVSteps == {"idle", "load", "checkstart", "check", "start", "commit", "prepare", "analyze", "acommit", "complete", "continue", "giveup"}
AskSteps == {"idle", "create", "enqueue", "cut", "cancel"}
RunRec == [status : PVActive \union PVTerminal \union {"none"}, cursor : 0 .. Pages,
           analysis : AnalysisActive \union {"none", "completed", "failed", "cancelled"},
           rank : 0 .. AnalyzeLimit, total : 0 .. AnalyzeLimit]

\* What has a job, a worker or a request has been requested.
Known(r) ==
  run[r].status = "none" => /\ pvjob[r] = "none" /\ pvw[r].pc = "idle"
                            /\ \A q \in PVRequest : ask[q].pc \in {"enqueue", "cut", "cancel"} => ask[q].run # r
(***************************************************************************)
(* The types of the runs, their workers and the requests, stronger than    *)
(* PVTypeOK: the rank of an analysis never passes its total, and what a    *)
(* worker or a request has in hand has been requested.                     *)
(***************************************************************************)
PVTypes ==
  /\ run \in [Runs -> RunRec] /\ \A r \in Runs : run[r].rank <= run[r].total
  /\ score \in [Runs -> SUBSET Page] /\ handled \in [Runs -> SUBSET Page] /\ kept \in 0 .. MaxRuns
  /\ pvjob \in [Runs -> {"none", "queued", "running", "done"}]
  /\ pvfaults \in 0 .. PVFaults /\ pvcut \subseteq Runs
  /\ pvw \in [Runs -> [pc : PVSteps, batch : SUBSET Page]]
  /\ ask \in [PVRequest -> [pc : AskSteps, run : 0 .. MaxRuns]]
  /\ \A q \in PVRequest : ask[q].pc \in {"enqueue", "cut", "cancel"} => ask[q].run \in Runs
  /\ \A r \in Runs : pvw[r].pc \in {"check", "commit"} => pvw[r].batch = NextRows(r)
  /\ \A r \in Runs : Known(r)

\* The steps of one run and of one request
RunStep(r) == PVChunk(r) \/ Retry(r) \/ LastFailure(r) \/ DieBetween(r)
AskStep(q) == Find(q) \/ CreateRun(q) \/ EnqueueRun(q) \/ WriteCancel(q) \/ (\E r \in Runs : ReadCancel(q, r)) \/ AskDies(q)
\* Every step is one of a run or of a request.
LEMMA PVActs == PVNext <=> (\E r \in Runs : RunStep(r)) \/ (\E q \in PVRequest : AskStep(q))
BY DEF PVNext, PVRequests, RunStep, AskStep

\* The stronger types are those of the model.
LEMMA PVTyped == PVTypes => PVTypeOK
BY DEF PVTypes, PVTypeOK, RunRec

\* What the assumption says of the bounds
LEMMA PVNats == /\ Pages \in Nat \ {0} /\ MaxRuns \in Nat \ {0} /\ ChunkSize \in Nat \ {0} /\ AnalyzeLimit \in Nat \ {0}
                /\ 0 \in 0 .. Pages /\ 0 \in 0 .. AnalyzeLimit /\ 0 \in 0 .. MaxRuns /\ Runs \subseteq 0 .. MaxRuns /\ 0 \notin Runs
BY PageValueAssumption DEF Runs

\* The least of two numbers is the lesser
LEMMA LesserOfTwo == ASSUME NEW a \in Int, NEW b \in Int PROVE Min({a, b}) = IF a <= b THEN a ELSE b
<1>1. CASE a <= b
  <2>1. a \in {a, b} /\ \A y \in {a, b} : a <= y  BY <1>1
  <2>2. \A x \in {a, b} : (\A y \in {a, b} : x <= y) => x = a  BY <1>1
  <2> QED  BY <1>1, <2>1, <2>2 DEF Min
<1>2. CASE ~(a <= b)
  <2>1. b \in {a, b} /\ \A y \in {a, b} : b <= y  BY <1>2
  <2>2. \A x \in {a, b} : (\A y \in {a, b} : x <= y) => x = b  BY <1>2
  <2> QED  BY <1>2, <2>1, <2>2 DEF Min
<1> QED  BY <1>1, <1>2

\* The greatest number of an interval is its upper end.
LEMMA MaxOfInterval == ASSUME NEW a \in Int, NEW b \in Int, a <= b PROVE Max(a .. b) = b
<1>1. b \in a .. b /\ \A y \in a .. b : b >= y  OBVIOUS
<1>2. \A x \in a .. b : (\A y \in a .. b : x >= y) => x = b  OBVIOUS
<1> QED  BY <1>1, <1>2 DEF Max

\* The rows of a chunk are the next ones.
LEMMA NextRowsAre ==
  ASSUME PVTypes, NEW r \in Runs
  PROVE  /\ run[r].cursor \in 0 .. Pages
         /\ NextRows(r) = (run[r].cursor + 1) .. (IF run[r].cursor + ChunkSize <= Pages THEN run[r].cursor + ChunkSize ELSE Pages)
         /\ Cardinality(NextRows(r)) = IF run[r].cursor + ChunkSize <= Pages THEN ChunkSize ELSE Pages - run[r].cursor
<1> DEFINE c == run[r].cursor
           end == IF c + ChunkSize <= Pages THEN c + ChunkSize ELSE Pages
           S == {p \in Page : p > c}
<1>1. c \in 0 .. Pages /\ Pages \in Nat /\ ChunkSize \in Nat \ {0}  BY PVNats DEF PVTypes, RunRec
<1>2. ASSUME NEW p \in S PROVE Cardinality({q \in S : q <= p}) = p - c
  <2>1. {q \in S : q <= p} = (c + 1) .. p /\ p \in Int /\ c + 1 <= p  BY <1>1 DEF Page
  <2>2. c + 1 \in Int /\ c \in Int  BY <1>1
  <2>3. Cardinality((c + 1) .. p) = IF c + 1 > p THEN 0 ELSE p - (c + 1) + 1
    <3> HIDE DEF c
    <3> QED  BY <2>1, <2>2, FS_Interval
  <2>4. Cardinality((c + 1) .. p) = p - c
    <3> HIDE DEF c
    <3> QED  BY <2>1, <2>2, <2>3
  <2> QED  BY <2>1, <2>4
<1>3. NextRows(r) = {p \in S : p - c <= ChunkSize}  BY <1>2 DEF NextRows, First
<1>4. NextRows(r) = (c + 1) .. end  BY <1>1, <1>3 DEF Page
<1>5. Cardinality((c + 1) .. end) = end - c
  <2>1. CASE c + 1 <= end
    <3>1. c + 1 \in Int /\ end \in Int /\ c \in Int  BY <1>1
    <3> HIDE DEF c, end
    <3>2. Cardinality((c + 1) .. end) = IF c + 1 > end THEN 0 ELSE end - (c + 1) + 1  BY <3>1, FS_Interval
    <3> QED  BY <2>1, <3>1, <3>2
  <2>2. CASE ~(c + 1 <= end)
    <3>1. (c + 1) .. end = {} /\ end = c  BY <1>1, <2>2
    <3> QED  BY <1>1, <3>1, FS_EmptySet
  <2> QED  BY <2>1, <2>2
<1> QED  BY <1>1, <1>4, <1>5

\* The first pages of a run are some of those it was given.
LEMMA FirstOfAll ==
  ASSUME NEW S, IsFiniteSet(S), NEW n \in Nat
  PROVE  First(S, n) \subseteq First(S, IF n <= Cardinality(S) THEN n ELSE Cardinality(S))
<1>1. ASSUME NEW p \in S PROVE Cardinality({q \in S : q <= p}) \in Nat /\ Cardinality({q \in S : q <= p}) <= Cardinality(S)
  <2>1. {q \in S : q <= p} \subseteq S  OBVIOUS
  <2> QED  BY <2>1, FS_Subset, FS_CardinalityType
<1> QED  BY <1>1, FS_CardinalityType DEF First

\* A nonempty set of numbers has a least one.
Under == {p \in Nat \X Nat : p[1] < p[2]}
\* The order of the numbers is well founded.
LEMMA UnderIsWellFounded == IsWellFoundedOn(Under, Nat)
BY NatLessThanWellFounded DEF OpToRel, Under

\* So the page with the best rank of a nonempty set of pages is one of them.
LEMMA LeastPage == ASSUME NEW S \in SUBSET Page, S # {} PROVE Min(S) \in S
<1>0. S \subseteq Nat  BY PVNats DEF Page
<1>1. \E x \in S : \A y \in S : ~ (<<y, x>> \in Under)  BY <1>0, UnderIsWellFounded, WFMin, Zenon
<1>2. PICK x \in S : \A y \in S : ~ (<<y, x>> \in Under)  BY <1>1
<1>3. ASSUME NEW y \in S PROVE x <= y
  <2>1. x \in Nat /\ y \in Nat /\ <<y, x>> \notin Under  BY <1>0, <1>2
  <2>2. y < x => <<y, x>> \in Under  BY <2>1 DEF Under
  <2> QED  BY <2>1, <2>2
<1> QED  BY <1>3 DEF Min

\* What a chunk of the analysis takes is within what is left of it.
LEMMA PagesTaken ==
  ASSUME PVTypes, NEW r \in Runs
  PROVE  /\ Take(r) \in Nat /\ run[r].rank + Take(r) <= run[r].total
         /\ IsFiniteSet(Ranked(r)) /\ Cardinality(Ranked(r)) \in Nat /\ Ranked(r) \subseteq Page
<1>1. run[r] \in RunRec /\ run[r].rank <= run[r].total  BY DEF PVTypes
<1>2. run[r].rank \in Nat /\ run[r].total \in Nat /\ ChunkSize \in Nat  BY <1>1, PVNats DEF RunRec
<1>3. Take(r) = IF ChunkSize <= run[r].total - run[r].rank THEN ChunkSize ELSE run[r].total - run[r].rank
  BY <1>2, LesserOfTwo DEF Take
<1>4. IsFiniteSet(Page)  BY PVNats, FS_Interval, 1 \in Int, Pages \in Int DEF Page
<1>5. Ranked(r) \subseteq Page  BY DEF Ranked, PVTypes
<1> QED  BY <1>1, <1>2, <1>3, <1>4, <1>5, FS_Subset, FS_CardinalityType

\* The types hold at the start.
LEMMA PVInitTypes == PVInit => PVTypes
<1>1. NoRun \in RunRec /\ NoRun.rank <= NoRun.total  BY PVNats DEF NoRun, RunRec, PVActive, AnalysisActive
<1>2. PVIdle \in [pc : PVSteps, batch : SUBSET Page] /\ PVIdle.pc = "idle"  BY DEF PVIdle, PVSteps
<1>3. [pc |-> "idle", run |-> 0] \in [pc : AskSteps, run : 0 .. MaxRuns]  BY PVNats DEF AskSteps
<1>4. 0 \in 0 .. PVFaults  BY PageValueAssumption
<1> QED  BY <1>1, <1>2, <1>3, <1>4, PVNats DEF PVInit, PVTypes, Known

\* The rows of the runs stay well typed, action by action
LEMMA RunTyped == ASSUME PVTypes, PVNext PROVE run' \in [Runs -> RunRec] /\ \A r \in Runs : run'[r].rank <= run'[r].total
<1>0. /\ run \in [Runs -> RunRec] /\ \A r \in Runs : run[r].rank <= run[r].total
      /\ \A r \in Runs : pvw[r].batch \in SUBSET Page
  BY DEF PVTypes
<1>a. ASSUME NEW r \in Runs, NEW entry \in RunRec, entry.rank <= entry.total, run' = [run EXCEPT ![r] = entry]
      PROVE  run' \in [Runs -> RunRec] /\ \A s \in Runs : run'[s].rank <= run'[s].total
  BY <1>0, <1>a
<1>b. \A entry \in RunRec :
        /\ \A s \in PVActive \union PVTerminal : [entry EXCEPT !.status = s] \in RunRec /\ [entry EXCEPT !.status = s].rank = entry.rank /\ [entry EXCEPT !.status = s].total = entry.total
        /\ \A s \in AnalysisActive \union {"none", "completed", "failed", "cancelled"} : [entry EXCEPT !.analysis = s] \in RunRec /\ [entry EXCEPT !.analysis = s].rank = entry.rank /\ [entry EXCEPT !.analysis = s].total = entry.total
  BY DEF RunRec
<1>c. ASSUME NEW r \in Runs, NEW s \in {"failed", "cancelled"}, \/ run' = [run EXCEPT ![r] = [run[r] EXCEPT !.analysis = s]]
                                                                \/ run' = [run EXCEPT ![r] = [run[r] EXCEPT !.status = s]]
      PROVE  run' \in [Runs -> RunRec] /\ \A q \in Runs : run'[q].rank <= run'[q].total
  <2>1. s \in PVActive \union PVTerminal /\ s \in AnalysisActive \union {"none", "completed", "failed", "cancelled"}  BY DEF PVTerminal
  <2>2. CASE run' = [run EXCEPT ![r] = [run[r] EXCEPT !.analysis = s]]
    <3> DEFINE entry == [run[r] EXCEPT !.analysis = s]
    <3>1. entry \in RunRec /\ entry.rank = run[r].rank /\ entry.total = run[r].total  BY <1>0, <1>b, <2>1
    <3> HIDE DEF entry
    <3> QED  BY <1>0, <1>a, <2>2, <3>1 DEF entry
  <2>3. CASE run' = [run EXCEPT ![r] = [run[r] EXCEPT !.status = s]]
    <3> DEFINE entry == [run[r] EXCEPT !.status = s]
    <3>1. entry \in RunRec /\ entry.rank = run[r].rank /\ entry.total = run[r].total  BY <1>0, <1>b, <2>1
    <3> HIDE DEF entry
    <3> QED  BY <1>0, <1>a, <2>3, <3>1 DEF entry
  <2> QED  BY <1>c, <2>2, <2>3
<1>1. ASSUME NEW q \in PVRequest, CreateRun(q) PROVE run' \in [Runs -> RunRec] /\ \A s \in Runs : run'[s].rank <= run'[s].total
  <2>1. [NoRun EXCEPT !.status = "pending"] \in RunRec /\ [NoRun EXCEPT !.status = "pending"].rank <= [NoRun EXCEPT !.status = "pending"].total
    BY PVNats DEF NoRun, RunRec, PVActive, AnalysisActive
  <2> DEFINE new == [NoRun EXCEPT !.status = "pending"]
             over(s) == [run[s] EXCEPT !.analysis = "cancelled"]
  <2>2. \A s \in Runs : over(s) \in RunRec /\ over(s).rank = run[s].rank /\ over(s).total = run[s].total  BY <1>0, <1>b
  <2>3. PICK r \in Runs : run' = [s \in Runs |-> IF s = r THEN new ELSE IF run[s].analysis \in AnalysisActive THEN over(s) ELSE run[s]]
    BY <1>1 DEF CreateRun
  <2>4. new \in RunRec /\ new.rank <= new.total  BY <2>1
  <2> HIDE DEF new, over
  <2> QED  BY <1>0, <2>2, <2>3, <2>4
<1>2. ASSUME NEW q \in PVRequest, WriteCancel(q) PROVE run' \in [Runs -> RunRec] /\ \A s \in Runs : run'[s].rank <= run'[s].total
  <2> DEFINE r == ask[q].run
  <2>1. r \in Runs /\ run[r] \in RunRec  BY <1>0, <1>2 DEF WriteCancel, PVTypes
  <2>2. run' = [run EXCEPT ![r] = [run[r] EXCEPT !.analysis = "cancelled"]] \/ run' = [run EXCEPT ![r] = [run[r] EXCEPT !.status = "cancelled"]]
    BY <1>0, <1>2 DEF WriteCancel
  <2> QED  BY <1>c, <2>1, <2>2
<1>3. ASSUME NEW r \in Runs, CrawlGone(r) \/ GiveUpRun(r) PROVE run' \in [Runs -> RunRec] /\ \A s \in Runs : run'[s].rank <= run'[s].total
  <2>1. \/ run' = [run EXCEPT ![r] = [run[r] EXCEPT !.analysis = "failed"]] \/ run' = [run EXCEPT ![r] = [run[r] EXCEPT !.status = "failed"]]
        \/ run' = run
    BY <1>0, <1>3 DEF CrawlGone, GiveUpRun
  <2> QED  BY <1>0, <1>c, <2>1
<1>4. ASSUME NEW r \in Runs, StartRun(r) PROVE run' \in [Runs -> RunRec] /\ \A s \in Runs : run'[s].rank <= run'[s].total
  <2>1. run' = [run EXCEPT ![r] = [run[r] EXCEPT !.status = "running", !.cursor = 0]]  BY <1>0, <1>4 DEF StartRun
  <2>2. [run[r] EXCEPT !.status = "running", !.cursor = 0] \in RunRec  BY <1>0, PVNats DEF RunRec, PVActive
  <2> QED  BY <1>0, <1>a, <2>1, <2>2
<1>5. ASSUME NEW r \in Runs, CommitRun(r) PROVE run' \in [Runs -> RunRec] /\ \A s \in Runs : run'[s].rank <= run'[s].total
  <2> DEFINE end == IF pvw[r].batch = {} THEN run[r].cursor ELSE Max(pvw[r].batch)
             entry == [run[r] EXCEPT !.cursor = end]
  <2>1. end \in 0 .. Pages
    <3>1. pvw[r].batch = NextRows(r)  BY <1>5 DEF CommitRun, PVAt, PVTypes
    <3>2. CASE NextRows(r) # {}
      <4> DEFINE c == run[r].cursor
                 top == IF c + ChunkSize <= Pages THEN c + ChunkSize ELSE Pages
      <4>1. NextRows(r) = (c + 1) .. top /\ c \in 0 .. Pages  BY NextRowsAre
      <4>2. c \in Int /\ top \in Int /\ c + 1 <= top /\ top \in 0 .. Pages  BY <3>2, <4>1, PVNats
      <4>3. Max((c + 1) .. top) = top
        <5> HIDE DEF c, top
        <5> QED  BY <4>2, MaxOfInterval
      <4> QED  BY <3>1, <3>2, <4>1, <4>2, <4>3
    <3>3. CASE NextRows(r) = {}  BY <1>0, <3>1, <3>3 DEF RunRec
    <3> QED  BY <3>2, <3>3
  <2> HIDE DEF end
  <2>2. entry \in RunRec /\ entry.rank = run[r].rank /\ entry.total = run[r].total  BY <1>0, <2>1 DEF RunRec
  <2>3. [entry EXCEPT !.status = "completed", !.analysis = "pending"] \in RunRec  BY <2>2 DEF RunRec, PVTerminal, AnalysisActive
  <2>4. run' = [run EXCEPT ![r] = [entry EXCEPT !.status = "completed", !.analysis = "pending"]] \/ run' = [run EXCEPT ![r] = entry]
    BY <1>0, <1>5 DEF CommitRun, end
  <2>5. [entry EXCEPT !.status = "completed", !.analysis = "pending"].rank = entry.rank /\ [entry EXCEPT !.status = "completed", !.analysis = "pending"].total = entry.total
    BY <2>2 DEF RunRec
  <2> HIDE DEF entry
  <2> QED  BY <1>0, <1>a, <2>2, <2>3, <2>4, <2>5
<1>6. ASSUME NEW r \in Runs, Prepare(r) PROVE run' \in [Runs -> RunRec] /\ \A s \in Runs : run'[s].rank <= run'[s].total
  <2> DEFINE n == Min({AnalyzeLimit, Cardinality(Ranked(r))})
             entry == [run[r] EXCEPT !.analysis = "running", !.rank = 0, !.total = n]
  <2>1. n \in 0 .. AnalyzeLimit  BY PagesTaken, LesserOfTwo, PVNats
  <2> HIDE DEF n
  <2>2. entry \in RunRec /\ entry.rank = 0 /\ entry.total = n
    <3>1. \A x \in RunRec : \A k, m \in 0 .. AnalyzeLimit :
            /\ [x EXCEPT !.analysis = "running", !.rank = k, !.total = m] \in RunRec
            /\ [x EXCEPT !.analysis = "running", !.rank = k, !.total = m].rank = k
            /\ [x EXCEPT !.analysis = "running", !.rank = k, !.total = m].total = m
      BY DEF RunRec, AnalysisActive
    <3>2. run[r] \in RunRec /\ 0 \in 0 .. AnalyzeLimit  BY <1>0, PVNats
    <3>3. \A k, m \in 0 .. AnalyzeLimit :
            /\ [run[r] EXCEPT !.analysis = "running", !.rank = k, !.total = m] \in RunRec
            /\ [run[r] EXCEPT !.analysis = "running", !.rank = k, !.total = m].rank = k
            /\ [run[r] EXCEPT !.analysis = "running", !.rank = k, !.total = m].total = m
      BY <3>1, <3>2, Zenon
    <3>4. \A m \in 0 .. AnalyzeLimit :
            /\ [run[r] EXCEPT !.analysis = "running", !.rank = 0, !.total = m] \in RunRec
            /\ [run[r] EXCEPT !.analysis = "running", !.rank = 0, !.total = m].rank = 0
            /\ [run[r] EXCEPT !.analysis = "running", !.rank = 0, !.total = m].total = m
      BY <3>2, <3>3, Zenon
    <3> QED  BY <2>1, <3>4, Zenon
  <2>3. run' = [run EXCEPT ![r] = entry]  BY <1>0, <1>6 DEF Prepare, n
  <2> HIDE DEF entry
  <2>4. entry.rank <= entry.total  BY <2>1, <2>2, PVNats
  <2> QED  BY <1>a, <2>2, <2>3, <2>4
<1>7. ASSUME NEW r \in Runs, CommitAnalysis(r) PROVE run' \in [Runs -> RunRec] /\ \A s \in Runs : run'[s].rank <= run'[s].total
  <2> DEFINE n == Min({run[r].rank + Take(r), Cardinality(Ranked(r))})
  <2>1. n \in Nat /\ n <= run[r].total
    <3>1. run[r].rank \in Nat /\ run[r].total \in Nat  BY <1>0 DEF RunRec
    <3>2. run[r].rank + Take(r) \in Int /\ Cardinality(Ranked(r)) \in Int  BY <3>1, PagesTaken
    <3> QED  BY <3>1, <3>2, PagesTaken, LesserOfTwo
  <2> HIDE DEF n
  <2>2. \A a \in AnalysisActive \union {"none", "completed", "failed", "cancelled"} :
          /\ [run[r] EXCEPT !.rank = n, !.analysis = a] \in RunRec
          /\ [run[r] EXCEPT !.rank = n, !.analysis = a].rank <= [run[r] EXCEPT !.rank = n, !.analysis = a].total
    <3>1. \A x \in RunRec : \A k \in 0 .. AnalyzeLimit, a \in AnalysisActive \union {"none", "completed", "failed", "cancelled"} :
            /\ [x EXCEPT !.rank = k, !.analysis = a] \in RunRec
            /\ [x EXCEPT !.rank = k, !.analysis = a].rank = k
            /\ [x EXCEPT !.rank = k, !.analysis = a].total = x.total
      BY DEF RunRec
    <3>2. n \in 0 .. AnalyzeLimit
      <4>1. run[r].total \in 0 .. AnalyzeLimit  BY <1>0 DEF RunRec
      <4> QED  BY <2>1, <4>1, PVNats
    <3>3. ASSUME NEW a \in AnalysisActive \union {"none", "completed", "failed", "cancelled"}
          PROVE  /\ [run[r] EXCEPT !.rank = n, !.analysis = a] \in RunRec
                 /\ [run[r] EXCEPT !.rank = n, !.analysis = a].rank = n
                 /\ [run[r] EXCEPT !.rank = n, !.analysis = a].total = run[r].total
      <4>1. run[r] \in RunRec  BY <1>0
      <4> QED  BY <3>1, <3>2, <4>1, Zenon
    <3> QED  BY <2>1, <3>3
  <2>3. \E a \in AnalysisActive \union {"none", "completed", "failed", "cancelled"} : run' = [run EXCEPT ![r] = [run[r] EXCEPT !.rank = n, !.analysis = a]]
    <3>1. run[r].analysis \in AnalysisActive \union {"none", "completed", "failed", "cancelled"}  BY <1>0 DEF RunRec
    <3> QED  BY <1>0, <1>7, <3>1 DEF CommitAnalysis, n
  <2> QED  BY <1>a, <2>2, <2>3
<1>8. ASSUME NEW r \in Runs, RunStep(r) PROVE run' \in [Runs -> RunRec] /\ \A s \in Runs : run'[s].rank <= run'[s].total
  BY <1>0, <1>3, <1>4, <1>5, <1>6, <1>7, <1>8 DEF RunStep, PVChunk, ClaimRun, LoadRun, CheckRun, AnalyzePage, CheckAnalysis, CompleteRun, ContinueRun, Retry, LastFailure, DieBetween
<1>9. ASSUME NEW q \in PVRequest, AskStep(q) PROVE run' \in [Runs -> RunRec] /\ \A s \in Runs : run'[s].rank <= run'[s].total
  BY <1>0, <1>1, <1>2, <1>9 DEF AskStep, Find, EnqueueRun, ReadCancel, AskDies
<1> QED  BY <1>8, <1>9, PVActs

\* The worker of one run moves on, and no other.
WorkerGoes(r, pc, b) ==
  /\ pvw' = [pvw EXCEPT ![r] = [pc |-> pc, batch |-> b]]
  /\ (pc \in {"check", "commit"} => b = NextRows(r) /\ UNCHANGED run)
\* The workers stay well typed.
LEMMA WorkersTyped == ASSUME PVTypes, NEW r \in Runs, RunStep(r)
  PROVE  \E pc \in PVSteps, b \in SUBSET Page : WorkerGoes(r, pc, b)
<1>0. /\ pvw \in [Runs -> [pc : PVSteps, batch : SUBSET Page]] /\ pvw[r].batch \in SUBSET Page
      /\ pvw[r].pc \in {"check", "commit"} => pvw[r].batch = NextRows(r)
  BY DEF PVTypes
<1>a. ASSUME NEW pc \in PVSteps \ {"check", "commit"}, PVGo(r, pc, {}) PROVE \E c \in PVSteps, b \in SUBSET Page : WorkerGoes(r, c, b)
  <2>1. WorkerGoes(r, pc, {}) /\ {} \in SUBSET Page /\ pc \in PVSteps  BY <1>a DEF PVGo, WorkerGoes
  <2> QED  BY <2>1
<1>b. /\ {"idle", "load", "checkstart", "start", "prepare", "analyze", "acommit", "complete", "continue", "giveup"} \subseteq PVSteps \ {"check", "commit"}
      /\ {"check", "commit"} \subseteq PVSteps
  BY DEF PVSteps
<1>1. CASE ClaimRun(r)  BY <1>a, <1>b, <1>1 DEF ClaimRun
<1>2. CASE LoadRun(r)
  <2>1. NextRows(r) \in SUBSET Page  BY DEF NextRows, First
  <2>2. Slice(r) \in SUBSET Page  BY PagesTaken DEF Slice, First
  <2>3. \/ \E pc \in {"checkstart", "prepare", "complete"} : PVGo(r, pc, {})
        \/ PVGo(r, "check", NextRows(r)) /\ UNCHANGED run
        \/ PVGo(r, "analyze", Slice(r))
    BY <1>2 DEF LoadRun
  <2>4. CASE PVGo(r, "check", NextRows(r)) /\ UNCHANGED run  BY <1>b, <2>1, <2>4 DEF PVGo, WorkerGoes
  <2>5. CASE PVGo(r, "analyze", Slice(r))  BY <1>b, <2>2, <2>5 DEF PVGo, WorkerGoes
  <2> QED  BY <1>a, <1>b, <2>3, <2>4, <2>5
<1>3. CASE CrawlGone(r)  BY <1>a, <1>b, <1>3 DEF CrawlGone
<1>4. CASE CheckRun(r)
  <2>1. CASE PVAt(r, "check") /\ PVGo(r, "commit", pvw[r].batch)  BY <1>0, <1>b, <1>4, <2>1 DEF CheckRun, PVAt, PVGo, WorkerGoes
  <2> QED  BY <1>a, <1>b, <1>4, <2>1 DEF CheckRun
<1>5. CASE StartRun(r)  BY <1>a, <1>b, <1>5 DEF StartRun
<1>6. CASE CommitRun(r)  BY <1>a, <1>b, <1>6 DEF CommitRun
<1>7. CASE Prepare(r)  BY <1>a, <1>b, <1>7 DEF Prepare
<1>8. CASE AnalyzePage(r)
  <2>1. PICK p : PVGo(r, "analyze", pvw[r].batch \ {p})  BY <1>8 DEF AnalyzePage
  <2>2. pvw[r].batch \ {p} \in SUBSET Page  BY <1>0
  <2>3. WorkerGoes(r, "analyze", pvw[r].batch \ {p})  BY <2>1 DEF PVGo, WorkerGoes
  <2> QED  BY <1>b, <2>2, <2>3
<1>9. CASE CheckAnalysis(r)  BY <1>a, <1>b, <1>9 DEF CheckAnalysis
<1>10. CASE CommitAnalysis(r)  BY <1>a, <1>b, <1>10 DEF CommitAnalysis
<1>11. CASE CompleteRun(r)  BY <1>a, <1>b, <1>11 DEF CompleteRun
<1>12. CASE ContinueRun(r)  BY <1>a, <1>b, <1>12 DEF ContinueRun
<1>13. CASE GiveUpRun(r)  BY <1>a, <1>b, <1>13 DEF GiveUpRun
<1>14. CASE Retry(r) \/ LastFailure(r) \/ DieBetween(r)  BY <1>a, <1>b, <1>14 DEF Retry, LastFailure, DieBetween
<1> QED
  BY <1>1, <1>2, <1>3, <1>4, <1>5, <1>6, <1>7, <1>8, <1>9, <1>10, <1>11, <1>12, <1>13, <1>14 DEF RunStep, PVChunk

\* The requests stay well typed.
LEMMA RequestsTyped == ASSUME PVTypes, NEW q \in PVRequest, AskStep(q)
  PROVE  /\ \E pc \in AskSteps, r \in 0 .. MaxRuns :
              /\ ask' = [ask EXCEPT ![q] = [pc |-> pc, run |-> r]]
              /\ pc \in {"enqueue", "cut", "cancel"} => r \in Runs
         /\ pvw' = pvw
<1>b. {"idle", "create", "enqueue", "cut", "cancel"} \subseteq AskSteps /\ 0 \in 0 .. MaxRuns /\ Runs \subseteq 0 .. MaxRuns  BY PVNats DEF AskSteps
<1>1. CASE Find(q)  BY <1>b, <1>1 DEF Find
<1>2. CASE CreateRun(q)  BY <1>b, <1>2 DEF CreateRun
<1>3. CASE EnqueueRun(q)  BY <1>b, <1>3 DEF EnqueueRun
<1>4. CASE WriteCancel(q)  BY <1>b, <1>4 DEF WriteCancel
<1>5. ASSUME NEW r \in Runs, ReadCancel(q, r)
      PROVE  /\ \E pc \in AskSteps, s \in 0 .. MaxRuns :
                  /\ ask' = [ask EXCEPT ![q] = [pc |-> pc, run |-> s]]
                  /\ pc \in {"enqueue", "cut", "cancel"} => s \in Runs
             /\ pvw' = pvw
  BY <1>b, <1>5 DEF ReadCancel
<1>6. CASE AskDies(q)  BY <1>b, <1>6 DEF AskDies
<1> QED  BY <1>1, <1>2, <1>3, <1>4, <1>5, <1>6 DEF AskStep

\* The rest of the state stays well typed.
LEMMA RestTyped == ASSUME PVTypes, PVNext
  PROVE  /\ score' \in [Runs -> SUBSET Page] /\ handled' \in [Runs -> SUBSET Page] /\ kept' \in 0 .. MaxRuns
         /\ pvjob' \in [Runs -> {"none", "queued", "running", "done"}]
         /\ pvfaults' \in 0 .. PVFaults /\ pvcut' \subseteq Runs
<1>0. /\ score \in [Runs -> SUBSET Page] /\ handled \in [Runs -> SUBSET Page] /\ kept \in 0 .. MaxRuns
      /\ pvjob \in [Runs -> {"none", "queued", "running", "done"}]
      /\ pvfaults \in 0 .. PVFaults /\ pvcut \subseteq Runs /\ Runs \subseteq 0 .. MaxRuns
      /\ pvw \in [Runs -> [pc : PVSteps, batch : SUBSET Page]]
  BY PVNats DEF PVTypes
<1>a. \A r \in Runs : Enqueued(r) \in [Runs -> {"none", "queued", "running", "done"}]  BY <1>0 DEF Enqueued
<1>b. PVFault => pvfaults' \in 0 .. PVFaults  BY <1>0, PageValueAssumption DEF PVFault
<1> USE <1>0
<1>1. ASSUME NEW r \in Runs, RunStep(r)
      PROVE  /\ score' \in [Runs -> SUBSET Page] /\ handled' \in [Runs -> SUBSET Page] /\ kept' \in 0 .. MaxRuns
             /\ pvjob' \in [Runs -> {"none", "queued", "running", "done"}]
             /\ pvfaults' \in 0 .. PVFaults /\ pvcut' \subseteq Runs
  <2>1. CASE ClaimRun(r) \/ CompleteRun(r)  BY <2>1 DEF ClaimRun, CompleteRun
  <2>2. CASE LoadRun(r) \/ CrawlGone(r) \/ CheckRun(r) \/ StartRun(r) \/ Prepare(r)  BY <2>2 DEF LoadRun, CrawlGone, CheckRun, StartRun, Prepare
  <2>3. CASE CommitRun(r)
    <3>1. pvw[r].batch \in SUBSET Page  OBVIOUS
    <3> QED  BY <2>3, <3>1 DEF CommitRun
  <2>4. CASE AnalyzePage(r)
    <3>1. pvw[r].batch \in SUBSET Page /\ pvw[r].batch # {}  BY <2>4 DEF AnalyzePage
    <3>2. Min(pvw[r].batch) \in Page  BY <3>1, LeastPage
    <3> QED  BY <2>4, <3>2 DEF AnalyzePage
  <2>5. CASE CheckAnalysis(r) \/ CommitAnalysis(r) \/ GiveUpRun(r)  BY <2>5 DEF CheckAnalysis, CommitAnalysis, GiveUpRun
  <2>6. CASE ContinueRun(r)  BY <1>a, <2>6 DEF ContinueRun
  <2>7. CASE Retry(r) \/ LastFailure(r) \/ DieBetween(r)  BY <1>b, <2>7 DEF Retry, LastFailure, DieBetween
  <2> QED  BY <1>1, <2>1, <2>2, <2>3, <2>4, <2>5, <2>6, <2>7 DEF RunStep, PVChunk
<1>2. ASSUME NEW q \in PVRequest, AskStep(q)
      PROVE  /\ score' \in [Runs -> SUBSET Page] /\ handled' \in [Runs -> SUBSET Page] /\ kept' \in 0 .. MaxRuns
             /\ pvjob' \in [Runs -> {"none", "queued", "running", "done"}]
             /\ pvfaults' \in 0 .. PVFaults /\ pvcut' \subseteq Runs
  <2>1. CASE Find(q) \/ CreateRun(q)  BY <2>1 DEF Find, CreateRun
  <2>2. CASE EnqueueRun(q)  BY <1>a, <2>2 DEF EnqueueRun, PVTypes
  <2>3. CASE WriteCancel(q)  BY <2>3 DEF WriteCancel
  <2>4. CASE \E r \in Runs : ReadCancel(q, r)  BY <2>4 DEF ReadCancel
  <2>5. CASE AskDies(q)
    <3>1. ask[q].run \in Runs  BY <2>5 DEF AskDies, PVTypes
    <3> QED  BY <1>b, <2>5, <3>1 DEF AskDies
  <2> QED  BY <1>2, <2>1, <2>2, <2>3, <2>4, <2>5 DEF AskStep
<1> QED  BY <1>1, <1>2, PVActs

\* It stays so.
LEMMA KnownKept == ASSUME PVTypes, PVNext, NEW s \in Runs PROVE Known(s)'
<1>0. /\ run \in [Runs -> RunRec] /\ pvw \in [Runs -> [pc : PVSteps, batch : SUBSET Page]]
      /\ ask \in [PVRequest -> [pc : AskSteps, run : 0 .. MaxRuns]] /\ Known(s)
      /\ pvjob \in [Runs -> {"none", "queued", "running", "done"}]
  BY DEF PVTypes
<1>1. ASSUME NEW r \in Runs, RunStep(r) PROVE Known(s)'
  <2>1. pvw[r].pc # "idle" \/ pvjob[r] \in {"queued", "running"}
    BY <1>1 DEF RunStep, PVChunk, ClaimRun, LoadRun, CrawlGone, CheckRun, StartRun, CommitRun, Prepare, AnalyzePage, CheckAnalysis, CommitAnalysis, CompleteRun, ContinueRun, GiveUpRun, Retry, LastFailure, DieBetween, PVAt
  <2>2. run[r].status # "none"  BY <2>1 DEF PVTypes, Known
  <2>3. UNCHANGED ask
    BY <1>1 DEF RunStep, PVChunk, ClaimRun, LoadRun, CrawlGone, CheckRun, StartRun, CommitRun, Prepare, AnalyzePage, CheckAnalysis, CommitAnalysis, CompleteRun, ContinueRun, GiveUpRun, Retry, LastFailure, DieBetween
  <2>4. CASE s = r
    <3>1. run'[r].status # "none"
      <4>1. CASE CommitRun(r)  BY <1>0, <2>2, <4>1 DEF CommitRun, RunRec
      <4>2. CASE StartRun(r)  BY <1>0, <4>2 DEF StartRun, RunRec
      <4>3. CASE Prepare(r)  BY <1>0, <2>2, <4>3 DEF Prepare, RunRec
      <4>4. CASE CommitAnalysis(r)  BY <1>0, <2>2, <4>4 DEF CommitAnalysis, RunRec
      <4>5. CASE GiveUpRun(r) \/ CrawlGone(r)  BY <1>0, <2>2, <4>5 DEF GiveUpRun, CrawlGone, RunRec
      <4> QED  BY <1>1, <2>2, <4>1, <4>2, <4>3, <4>4, <4>5 DEF RunStep, PVChunk, ClaimRun, LoadRun, CheckRun, AnalyzePage, CheckAnalysis, CompleteRun, ContinueRun, Retry, LastFailure, DieBetween
    <3> QED  BY <2>4, <3>1 DEF Known
  <2>5. CASE s # r
    <3>1. run'[s] = run[s] /\ pvw'[s] = pvw[s] /\ pvjob'[s] = pvjob[s]
      BY <1>0, <1>1, <2>5 DEF RunStep, PVChunk, ClaimRun, LoadRun, CrawlGone, CheckRun, StartRun, CommitRun, Prepare, AnalyzePage, CheckAnalysis, CommitAnalysis, CompleteRun, ContinueRun, GiveUpRun, Retry, LastFailure, DieBetween, PVGo, Enqueued
    <3> QED  BY <1>0, <2>3, <3>1 DEF Known
  <2> QED  BY <2>4, <2>5
<1>2. ASSUME NEW q \in PVRequest, AskStep(q) PROVE Known(s)'
  <2>0. pvw' = pvw  BY <1>2, RequestsTyped
  <2>1. CASE Find(q) \/ AskDies(q)  BY <1>0, <2>0, <2>1 DEF Find, AskDies, Known
  <2>2. CASE CreateRun(q)
    <3>1. PICK r \in Runs :
            /\ run[r].status = "none"
            /\ run' = [p \in Runs |-> IF p = r THEN [NoRun EXCEPT !.status = "pending"]
                          ELSE IF run[p].analysis \in AnalysisActive THEN [run[p] EXCEPT !.analysis = "cancelled"] ELSE run[p]]
            /\ ask' = [ask EXCEPT ![q] = [pc |-> "enqueue", run |-> r]]
      BY <2>2 DEF CreateRun
    <3>2. run'[r].status = "pending"  BY <3>1 DEF NoRun
    <3>3. s # r => run'[s].status = run[s].status  BY <1>0, <3>1 DEF RunRec
    <3> QED  BY <1>0, <2>0, <2>2, <3>1, <3>2, <3>3 DEF CreateRun, Known
  <2>3. CASE EnqueueRun(q)
    <3>1. ask[q].run \in Runs /\ run[ask[q].run].status # "none"  BY <2>3 DEF EnqueueRun, PVTypes, Known
    <3> QED  BY <1>0, <2>0, <2>3, <3>1 DEF EnqueueRun, Known, Enqueued
  <2>4. CASE WriteCancel(q)
    <3>1. run'[s].status \in {run[s].status, "cancelled"}  BY <1>0, <2>4 DEF WriteCancel, RunRec
    <3> QED  BY <1>0, <2>0, <2>4, <3>1 DEF WriteCancel, Known
  <2>5. ASSUME NEW r \in Runs, ReadCancel(q, r) PROVE Known(s)'
    <3>1. run[r].status # "none"  BY <2>5 DEF ReadCancel, NeedsWork, PVActive
    <3> QED  BY <1>0, <2>0, <2>5, <3>1 DEF ReadCancel, Known
  <2> QED  BY <1>2, <2>1, <2>2, <2>3, <2>4, <2>5 DEF AskStep
<1> QED  BY <1>1, <1>2, PVActs

\* Every step keeps the types.
LEMMA PVTypesNext == ASSUME PVTypes, PVNext PROVE PVTypes'
<1>1. ASSUME NEW r \in Runs, RunStep(r) PROVE PVTypes'
  <2>1. PICK pc \in PVSteps, b \in SUBSET Page :
           /\ pvw' = [pvw EXCEPT ![r] = [pc |-> pc, batch |-> b]]
           /\ (pc \in {"check", "commit"} => b = NextRows(r) /\ UNCHANGED run)
    BY <1>1, WorkersTyped DEF WorkerGoes
  <2>2. pvw \in [Runs -> [pc : PVSteps, batch : SUBSET Page]]  BY DEF PVTypes
  <2>3. pvw' \in [Runs -> [pc : PVSteps, batch : SUBSET Page]]  BY <2>1, <2>2
  <2>4. UNCHANGED ask
    BY <1>1 DEF RunStep, PVChunk, ClaimRun, LoadRun, CrawlGone, CheckRun, StartRun, CommitRun, Prepare, AnalyzePage, CheckAnalysis, CommitAnalysis, CompleteRun, ContinueRun, GiveUpRun, Retry, LastFailure, DieBetween
  <2>5. \A s \in Runs \ {r} : run'[s] = run[s]
    BY <1>1 DEF PVTypes, RunStep, PVChunk, ClaimRun, LoadRun, CrawlGone, CheckRun, StartRun, CommitRun, Prepare, AnalyzePage, CheckAnalysis, CommitAnalysis, CompleteRun, ContinueRun, GiveUpRun, Retry, LastFailure, DieBetween
  <2>6. ASSUME NEW s \in Runs, pvw'[s].pc \in {"check", "commit"} PROVE pvw'[s].batch = NextRows(s)'
    <3>1. CASE s = r  BY <2>1, <2>2, <2>6, <3>1 DEF NextRows
    <3>2. CASE s # r
      <4>1. pvw'[s] = pvw[s] /\ run'[s] = run[s]  BY <2>1, <2>2, <2>5, <3>2
      <4>2. pvw[s].batch = NextRows(s)  BY <2>6, <4>1 DEF PVTypes
      <4> QED  BY <4>1, <4>2 DEF NextRows
    <3> QED  BY <3>1, <3>2
  <2>7. \A s \in Runs : Known(s)'  BY KnownKept
  <2> QED  BY <2>3, <2>4, <2>6, <2>7, RunTyped, RestTyped DEF PVTypes, Known
<1>2. ASSUME NEW q \in PVRequest, AskStep(q) PROVE PVTypes'
  <2>1. PICK pc \in AskSteps, r \in 0 .. MaxRuns :
              /\ ask' = [ask EXCEPT ![q] = [pc |-> pc, run |-> r]]
              /\ pc \in {"enqueue", "cut", "cancel"} => r \in Runs
    BY <1>2, RequestsTyped
  <2>2. ask \in [PVRequest -> [pc : AskSteps, run : 0 .. MaxRuns]] /\ \A p \in PVRequest : ask[p].pc \in {"enqueue", "cut", "cancel"} => ask[p].run \in Runs
    BY DEF PVTypes
  <2>3. ask' \in [PVRequest -> [pc : AskSteps, run : 0 .. MaxRuns]] /\ \A p \in PVRequest : ask'[p].pc \in {"enqueue", "cut", "cancel"} => ask'[p].run \in Runs
    BY <2>1, <2>2
  <2>4. pvw' = pvw  BY <1>2, RequestsTyped
  <2>5. \A s \in Runs : pvw[s].pc \in {"check", "commit"} => run'[s].cursor = run[s].cursor
    <3>1. ASSUME NEW s \in Runs, pvw[s].pc \in {"check", "commit"} PROVE run'[s].cursor = run[s].cursor
      <4>0. run \in [Runs -> RunRec]  BY DEF PVTypes
      <4>1. CASE CreateRun(q)
        <5>1. run[s].status # "none"  BY <3>1 DEF PVTypes, Known
        <5>2. \A entry \in RunRec : [entry EXCEPT !.analysis = "cancelled"].cursor = entry.cursor  BY DEF RunRec
        <5> QED  BY <4>0, <4>1, <5>1, <5>2 DEF CreateRun
      <4>2. CASE WriteCancel(q)  BY <4>0, <4>2 DEF WriteCancel, RunRec
      <4> QED  BY <1>2, <4>1, <4>2 DEF AskStep, Find, EnqueueRun, ReadCancel, AskDies
    <3> QED  BY <3>1
  <2>6. \A s \in Runs : pvw'[s].pc \in {"check", "commit"} => pvw'[s].batch = NextRows(s)'
    <3>1. ASSUME NEW s \in Runs, pvw'[s].pc \in {"check", "commit"} PROVE pvw'[s].batch = NextRows(s)'
      <4>1. pvw[s].batch = NextRows(s) /\ run'[s].cursor = run[s].cursor  BY <2>4, <2>5, <3>1 DEF PVTypes
      <4> QED  BY <2>4, <4>1 DEF NextRows
    <3> QED  BY <3>1
  <2>7. pvw' \in [Runs -> [pc : PVSteps, batch : SUBSET Page]]  BY <2>4 DEF PVTypes
  <2>8. \A s \in Runs : Known(s)'  BY KnownKept
  <2> QED  BY <2>3, <2>6, <2>7, <2>8, RunTyped, RestTyped DEF PVTypes, Known
<1> QED  BY <1>1, <1>2, PVActs

\* The steps of a worker between the end of a chunk and the queue's taking it on
Between == {"continue", "giveup"}
\* A request is about to put the run on the queue.
Asked(r) == \E q \in PVRequest : ask[q].pc = "enqueue" /\ ask[q].run = r
(***************************************************************************)
(* A run that is neither over nor cut off is in somebody's hands: a job of *)
(* the queue, the worker of its chunk, or the request that is about to     *)
(* enqueue it (monitoring/runner.py, _process_page_value_job;              *)
(* page_value.py, request_run).                                            *)
(***************************************************************************)
Carried(r) ==
  /\ pvw[r].pc \notin Between \union {"idle"} => pvjob[r] = "running"
  /\ NeedsWork(r) => pvjob[r] \in {"queued", "running"} \/ pvw[r].pc \in Between \/ Asked(r) \/ r \in pvcut
\* The inductive invariant of RunCarriedOn
CarryInv == PVTypes /\ \A r \in Runs : Carried(r)

\* Every step keeps every run in somebody's hands.
LEMMA CarryNext == ASSUME CarryInv, PVNext PROVE CarryInv'
<1>0. /\ run \in [Runs -> RunRec] /\ pvw \in [Runs -> [pc : PVSteps, batch : SUBSET Page]]
      /\ ask \in [PVRequest -> [pc : AskSteps, run : 0 .. MaxRuns]] /\ PVTypes
      /\ pvjob \in [Runs -> {"none", "queued", "running", "done"}]
  BY DEF CarryInv, PVTypes
<1>1. ASSUME NEW r \in Runs, RunStep(r), NEW s \in Runs PROVE Carried(s)'
  <2>1. UNCHANGED ask /\ pvcut \subseteq pvcut'
    BY <1>1 DEF RunStep, PVChunk, ClaimRun, LoadRun, CrawlGone, CheckRun, StartRun, CommitRun, Prepare, AnalyzePage, CheckAnalysis, CommitAnalysis, CompleteRun, ContinueRun, GiveUpRun, Retry, LastFailure, DieBetween
  <2>2. CASE s # r
    <3>1. run'[s] = run[s] /\ pvw'[s] = pvw[s] /\ pvjob'[s] = pvjob[s]
      BY <1>0, <1>1, <2>2 DEF RunStep, PVChunk, ClaimRun, LoadRun, CrawlGone, CheckRun, StartRun, CommitRun, Prepare, AnalyzePage, CheckAnalysis, CommitAnalysis, CompleteRun, ContinueRun, GiveUpRun, Retry, LastFailure, DieBetween, PVGo, Enqueued
    <3> QED  BY <2>1, <3>1 DEF CarryInv, Carried, NeedsWork, Asked
  <2>3. CASE s = r
    <3> SUFFICES Carried(r)'  BY <2>3
    <3> USE <1>0
    <3>0. Carried(r)  BY DEF CarryInv
    <3>a. ASSUME pvjob'[r] = "running" PROVE Carried(r)'  BY <3>a DEF Carried
    <3>1. CASE ClaimRun(r)  BY <3>a, <3>1 DEF ClaimRun
    <3>2. CASE \/ LoadRun(r) \/ CrawlGone(r) \/ CheckRun(r) \/ StartRun(r) \/ CommitRun(r) \/ Prepare(r)
               \/ AnalyzePage(r) \/ CheckAnalysis(r) \/ CommitAnalysis(r)
      <4>1. pvw[r].pc \notin Between \union {"idle"} /\ pvjob' = pvjob
        BY <3>2 DEF LoadRun, CrawlGone, CheckRun, StartRun, CommitRun, Prepare, AnalyzePage, CheckAnalysis, CommitAnalysis, PVAt, Between
      <4> QED  BY <3>0, <3>a, <4>1 DEF Carried
    <3>3. CASE CompleteRun(r) \/ LastFailure(r)
      <4>1. pvw'[r].pc \in Between  BY <3>3 DEF CompleteRun, LastFailure, PVGo, Between
      <4> QED  BY <4>1 DEF Carried
    <3>4. CASE ContinueRun(r)
      <4>1. pvw'[r].pc = "idle" /\ run' = run  BY <3>4 DEF ContinueRun, PVGo
      <4>2. CASE NeedsWork(r)
        <5>1. pvjob'[r] \in {"queued", "running"}  BY <3>4, <4>2 DEF ContinueRun, Enqueued
        <5> QED  BY <4>1, <5>1 DEF Carried
      <4>3. CASE ~NeedsWork(r)
        <5>1. ~NeedsWork(r)'  BY <4>1, <4>3 DEF NeedsWork
        <5> QED  BY <4>1, <5>1 DEF Carried
      <4> QED  BY <4>2, <4>3
    <3>5. CASE GiveUpRun(r)
      <4>1. pvw'[r].pc = "idle"  BY <3>5 DEF GiveUpRun, PVGo
      <4>2. run[r] \in RunRec  OBVIOUS
      <4>3. ~NeedsWork(r)'
        <5>1. CASE run[r].status = "completed" /\ run[r].analysis \in AnalysisActive
          <6>1. run'[r].analysis = "failed" /\ run'[r].status = "completed"  BY <3>5, <4>2, <5>1 DEF GiveUpRun, RunRec
          <6> QED  BY <6>1 DEF NeedsWork, PVActive, AnalysisActive
        <5>2. CASE ~(run[r].status = "completed" /\ run[r].analysis \in AnalysisActive) /\ run[r].status \in PVActive
          <6>1. run'[r].status = "failed"  BY <3>5, <4>2, <5>2 DEF GiveUpRun, RunRec
          <6> QED  BY <6>1 DEF NeedsWork, PVActive
        <5>3. CASE ~(run[r].status = "completed" /\ run[r].analysis \in AnalysisActive) /\ run[r].status \notin PVActive
          BY <3>5, <5>3 DEF GiveUpRun, NeedsWork
        <5> QED  BY <5>1, <5>2, <5>3
      <4> QED  BY <4>1, <4>3 DEF Carried
    <3>6. CASE Retry(r)
      <4>1. pvw'[r].pc = "idle" /\ pvjob'[r] = "queued"  BY <3>6 DEF Retry, PVGo
      <4> QED  BY <4>1 DEF Carried
    <3>7. CASE DieBetween(r)
      <4>1. pvw'[r].pc = "idle" /\ r \in pvcut'  BY <3>7 DEF DieBetween, PVGo
      <4> QED  BY <4>1 DEF Carried
    <3> QED  BY <1>1, <2>3, <3>1, <3>2, <3>3, <3>4, <3>5, <3>6, <3>7 DEF RunStep, PVChunk
  <2> QED  BY <2>2, <2>3
<1>2. ASSUME NEW q \in PVRequest, AskStep(q), NEW s \in Runs PROVE Carried(s)'
  <2>0. pvw' = pvw /\ Carried(s)  BY <1>0, <1>2, RequestsTyped DEF CarryInv
  <2>1. CASE Find(q)
    <3>1. Asked(s) => Asked(s)'  BY <1>0, <2>1 DEF Find, Asked
    <3> QED  BY <2>0, <2>1, <3>1 DEF Find, Carried, NeedsWork
  <2>2. CASE CreateRun(q)
    <3>1. PICK r \in Runs :
            /\ run' = [p \in Runs |-> IF p = r THEN [NoRun EXCEPT !.status = "pending"]
                          ELSE IF run[p].analysis \in AnalysisActive THEN [run[p] EXCEPT !.analysis = "cancelled"] ELSE run[p]]
            /\ ask' = [ask EXCEPT ![q] = [pc |-> "enqueue", run |-> r]]
      BY <2>2 DEF CreateRun
    <3>2. Asked(r)'  BY <1>0, <3>1 DEF Asked
    <3>3. Asked(s) => Asked(s)'  BY <1>0, <2>2, <3>1 DEF Asked, CreateRun
    <3>4. s # r /\ NeedsWork(s)' => NeedsWork(s)
      <4>1. \A entry \in RunRec : [entry EXCEPT !.analysis = "cancelled"].status = entry.status /\ [entry EXCEPT !.analysis = "cancelled"].analysis = "cancelled"  BY DEF RunRec
      <4> QED  BY <1>0, <3>1, <4>1 DEF NeedsWork, AnalysisActive
    <3> QED  BY <2>0, <2>2, <3>2, <3>3, <3>4 DEF CreateRun, Carried
  <2>3. CASE EnqueueRun(q)
    <3>1. pvjob'[ask[q].run] \in {"queued", "running"} /\ \A r \in Runs : pvjob[r] \in {"queued", "running"} => pvjob'[r] = pvjob[r]
      BY <1>0, <2>3 DEF EnqueueRun, Enqueued, PVTypes
    <3>2. Asked(s) => Asked(s)' \/ s = ask[q].run  BY <1>0, <2>3 DEF EnqueueRun, Asked
    <3> QED  BY <2>0, <2>3, <3>1, <3>2 DEF EnqueueRun, Carried, NeedsWork
  <2>4. CASE WriteCancel(q)
    <3>1. Asked(s) => Asked(s)'  BY <1>0, <2>4 DEF WriteCancel, Asked
    <3>2. NeedsWork(s)' => NeedsWork(s)
      <4>1. \A entry \in RunRec : /\ [entry EXCEPT !.analysis = "cancelled"].status = entry.status /\ [entry EXCEPT !.analysis = "cancelled"].analysis = "cancelled"
                                /\ [entry EXCEPT !.status = "cancelled"].status = "cancelled"
        BY DEF RunRec
      <4> DEFINE x == ask[q].run
      <4>2. x \in Runs /\ run[x] \in RunRec  BY <1>0, <2>4 DEF WriteCancel, PVTypes
      <4>3. \/ run' = [run EXCEPT ![x] = [run[x] EXCEPT !.analysis = "cancelled"]]
            \/ run' = [run EXCEPT ![x] = [run[x] EXCEPT !.status = "cancelled"]]
        BY <1>0, <2>4 DEF WriteCancel
      <4>4. CASE s = x
        <5>1. \/ run'[x].status = run[x].status /\ run'[x].analysis = "cancelled"
              \/ run'[x].status = "cancelled"
          BY <1>0, <4>1, <4>2, <4>3
        <5> QED  BY <4>4, <5>1 DEF NeedsWork, PVActive, AnalysisActive
      <4>5. CASE s # x  BY <1>0, <4>2, <4>3, <4>5 DEF NeedsWork
      <4> QED  BY <4>4, <4>5
    <3> QED  BY <2>0, <2>4, <3>1, <3>2 DEF WriteCancel, Carried
  <2>5. ASSUME NEW r \in Runs, ReadCancel(q, r) PROVE Carried(s)'
    <3>1. Asked(s) => Asked(s)'  BY <1>0, <2>5 DEF ReadCancel, Asked
    <3> QED  BY <2>0, <2>5, <3>1 DEF ReadCancel, Carried, NeedsWork
  <2>6. CASE AskDies(q)
    <3>1. Asked(s) => Asked(s)' \/ s \in pvcut'  BY <1>0, <2>6 DEF AskDies, Asked
    <3> QED  BY <2>0, <2>6, <3>1 DEF AskDies, Carried, NeedsWork
  <2> QED  BY <1>2, <2>1, <2>2, <2>3, <2>4, <2>5, <2>6 DEF AskStep
<1> QED  BY <1>0, <1>1, <1>2, PVActs, PVTypesNext DEF CarryInv

(***************************************************************************)
(* For any numbers of runs, pages and requests, and whatever dies in       *)
(* between: a page value run that has not ended is on the queue, in the    *)
(* hand of a worker, or in that of the request which creates it, unless    *)
(* the death between a commit and an enqueue that no code repairs has cut  *)
(* it off (monitoring/runner.py, _process_page_value_job;                  *)
(* monitoring/scheduler.py, enqueue_page_value_chunk).                     *)
(***************************************************************************)
THEOREM RunsCarriedOn == PVSpec => []RunCarriedOn
<1>1. PVInit => CarryInv
  <2>1. PVInit => \A r \in Runs : Carried(r)
    BY DEF PVInit, NoRun, PVIdle, Carried, NeedsWork, PVActive
  <2> QED  BY <2>1, PVInitTypes DEF CarryInv
<1>2. CarryInv /\ UNCHANGED pvVars => CarryInv'
  BY DEF CarryInv, pvVars, PVTypes, Known, NextRows, Carried, NeedsWork, Asked
<1>3. CarryInv => RunCarriedOn  BY DEF CarryInv, Carried, RunCarriedOn, Asked, Between
<1> QED  BY <1>1, <1>2, <1>3, CarryNext, PTL DEF PVSpec

\* The actions of a worker that leave the rows of the runs alone
Rests(r) == LoadRun(r) \/ CheckRun(r) \/ AnalyzePage(r) \/ CheckAnalysis(r) \/ ClaimRun(r) \/ CompleteRun(r)
            \/ ContinueRun(r) \/ Retry(r) \/ LastFailure(r) \/ DieBetween(r)

\* What each action does to the columns of its run
LEMMA RunColumns ==
  ASSUME PVTypes, NEW r \in Runs
  PROVE  /\ Rests(r) => run' = run
         /\ CrawlGone(r) => run'[r].status = "failed" /\ run'[r].analysis = run[r].analysis
         /\ StartRun(r) => run'[r].status = "running" /\ run'[r].cursor = 0 /\ run'[r].analysis = run[r].analysis
         /\ CommitRun(r) =>
              /\ run'[r].cursor = IF pvw[r].batch = {} THEN run[r].cursor ELSE Max(pvw[r].batch)
              /\ IF Cardinality(pvw[r].batch) < ChunkSize
                 THEN run'[r].status = "completed" /\ run'[r].analysis = "pending"
                 ELSE run'[r].status = run[r].status /\ run'[r].analysis = run[r].analysis
         /\ Prepare(r) => /\ run'[r].status = run[r].status /\ run'[r].analysis = "running" /\ run'[r].rank = 0
                          /\ run'[r].total = Min({AnalyzeLimit, Cardinality(Ranked(r))})
         /\ GiveUpRun(r) =>
              \/ run'[r] = run[r]
              \/ run[r].status = "completed" /\ run[r].analysis \in AnalysisActive /\ run'[r].status = "completed" /\ run'[r].analysis = "failed"
              \/ run[r].status \in PVActive /\ run'[r].status = "failed" /\ run'[r].analysis = run[r].analysis
<1>0. run \in [Runs -> RunRec]  BY DEF PVTypes
<1>1. Rests(r) => run' = run
  BY DEF Rests, LoadRun, CheckRun, AnalyzePage, CheckAnalysis, ClaimRun, CompleteRun, ContinueRun, Retry, LastFailure, DieBetween
<1>2. CrawlGone(r) => run'[r].status = "failed" /\ run'[r].analysis = run[r].analysis  BY <1>0 DEF CrawlGone, RunRec
<1>3. StartRun(r) => run'[r].status = "running" /\ run'[r].cursor = 0 /\ run'[r].analysis = run[r].analysis  BY <1>0 DEF StartRun, RunRec
<1>4. ASSUME CommitRun(r)
      PROVE  /\ run'[r].cursor = IF pvw[r].batch = {} THEN run[r].cursor ELSE Max(pvw[r].batch)
             /\ IF Cardinality(pvw[r].batch) < ChunkSize
                THEN run'[r].status = "completed" /\ run'[r].analysis = "pending"
                ELSE run'[r].status = run[r].status /\ run'[r].analysis = run[r].analysis
  BY <1>0, <1>4 DEF CommitRun, RunRec
<1>5. ASSUME Prepare(r)
      PROVE  /\ run'[r].status = run[r].status /\ run'[r].analysis = "running" /\ run'[r].rank = 0
             /\ run'[r].total = Min({AnalyzeLimit, Cardinality(Ranked(r))})
  BY <1>0, <1>5 DEF Prepare, RunRec
<1>6. ASSUME GiveUpRun(r)
      PROVE  \/ run'[r] = run[r]
             \/ run[r].status = "completed" /\ run[r].analysis \in AnalysisActive /\ run'[r].status = "completed" /\ run'[r].analysis = "failed"
             \/ run[r].status \in PVActive /\ run'[r].status = "failed" /\ run'[r].analysis = run[r].analysis
  BY <1>0, <1>6 DEF GiveUpRun, RunRec
<1> QED  BY <1>1, <1>2, <1>3, <1>4, <1>5, <1>6

\* What the commit of an analysis chunk does to them
LEMMA AnalysisColumns ==
  ASSUME PVTypes, NEW r \in Runs, CommitAnalysis(r)
  PROVE  LET reach == Min({run[r].rank + Take(r), Cardinality(Ranked(r))}) IN
         /\ run'[r].status = run[r].status /\ run'[r].rank = reach /\ run'[r].total = run[r].total
         /\ run'[r].analysis = IF reach >= run[r].total \/ reach - run[r].rank < Take(r) THEN "completed" ELSE run[r].analysis
<1>0. run \in [Runs -> RunRec]  BY DEF PVTypes
<1> DEFINE reach == Min({run[r].rank + Take(r), Cardinality(Ranked(r))})
           end == IF reach >= run[r].total \/ reach - run[r].rank < Take(r) THEN "completed" ELSE run[r].analysis
<1>1. run' = [run EXCEPT ![r].rank = reach, ![r].analysis = end]  BY <1>0 DEF CommitAnalysis
<1> HIDE DEF reach, end
<1>2. run'[r].status = run[r].status /\ run'[r].rank = reach /\ run'[r].total = run[r].total /\ run'[r].analysis = end
  BY <1>0, <1>1 DEF RunRec
<1> QED  BY <1>2 DEF reach, end

\* A step of one run leaves the rows and the workers of the others.
LEMMA Others ==
  ASSUME PVTypes, NEW r \in Runs, RunStep(r), NEW s \in Runs \ {r}
  PROVE  run'[s] = run[s] /\ pvw'[s] = pvw[s] /\ pvjob'[s] = pvjob[s] /\ handled'[s] = handled[s] /\ ask' = ask
BY DEF PVTypes, RunStep, PVChunk, ClaimRun, LoadRun, CrawlGone, CheckRun, StartRun, CommitRun, Prepare, AnalyzePage, CheckAnalysis, CommitAnalysis, CompleteRun, ContinueRun, GiveUpRun, Retry, LastFailure, DieBetween, PVGo, Enqueued

\* What a request does to a run: it is made, superseded or cancelled, or left alone.
LEMMA ByRequest ==
  ASSUME PVTypes, NEW q \in PVRequest, AskStep(q), NEW s \in Runs
  PROVE  /\ run'[s].cursor = run[s].cursor \/ run[s].status = "none"
         /\ \/ run'[s] = run[s]
            \/ run[s].status = "none" /\ run'[s].status = "pending" /\ run'[s].analysis = "none" /\ CreateRun(q)
            \/ /\ run'[s].status = run[s].status /\ run[s].analysis \in AnalysisActive /\ run'[s].analysis = "cancelled" /\ CreateRun(q)
            \/ /\ run'[s].status = run[s].status /\ run'[s].analysis = "cancelled"
               /\ ask[q].pc = "cut" /\ ask[q].run = s
            \/ run'[s].status = "cancelled" /\ run'[s].analysis = run[s].analysis /\ ask[q].pc = "cancel" /\ ask[q].run = s
<1>0. run \in [Runs -> RunRec]  BY DEF PVTypes
<1>1. \A entry \in RunRec : /\ [entry EXCEPT !.analysis = "cancelled"].status = entry.status /\ [entry EXCEPT !.analysis = "cancelled"].analysis = "cancelled"
                          /\ [entry EXCEPT !.analysis = "cancelled"].cursor = entry.cursor /\ [entry EXCEPT !.status = "cancelled"].cursor = entry.cursor
                          /\ [entry EXCEPT !.status = "cancelled"].status = "cancelled" /\ [entry EXCEPT !.status = "cancelled"].analysis = entry.analysis
  BY DEF RunRec
<1> DEFINE Way ==
         /\ run'[s].cursor = run[s].cursor \/ run[s].status = "none"
         /\ \/ run'[s] = run[s]
            \/ run[s].status = "none" /\ run'[s].status = "pending" /\ run'[s].analysis = "none" /\ CreateRun(q)
            \/ /\ run'[s].status = run[s].status /\ run[s].analysis \in AnalysisActive /\ run'[s].analysis = "cancelled" /\ CreateRun(q)
            \/ /\ run'[s].status = run[s].status /\ run'[s].analysis = "cancelled"
               /\ ask[q].pc = "cut" /\ ask[q].run = s
            \/ run'[s].status = "cancelled" /\ run'[s].analysis = run[s].analysis /\ ask[q].pc = "cancel" /\ ask[q].run = s
<1>2. CASE CreateRun(q)
  <2>1. PICK r \in Runs :
            /\ run[r].status = "none"
            /\ run' = [p \in Runs |-> IF p = r THEN [NoRun EXCEPT !.status = "pending"]
                          ELSE IF run[p].analysis \in AnalysisActive THEN [run[p] EXCEPT !.analysis = "cancelled"] ELSE run[p]]
    BY <1>2 DEF CreateRun
  <2>2. CASE s = r
    <3>1. run'[s].status = "pending" /\ run'[s].analysis = "none"  BY <2>1, <2>2 DEF NoRun
    <3> QED  BY <1>2, <2>1, <2>2, <3>1
  <2>3. CASE s # r /\ run[s].analysis \in AnalysisActive
    <3>1. run'[s] = [run[s] EXCEPT !.analysis = "cancelled"] /\ run[s] \in RunRec  BY <1>0, <2>1, <2>3
    <3>2. run'[s].cursor = run[s].cursor /\ run'[s].status = run[s].status /\ run'[s].analysis = "cancelled"  BY <1>1, <3>1
    <3> QED  BY <1>2, <2>3, <3>2
  <2>4. CASE s # r /\ run[s].analysis \notin AnalysisActive  BY <2>1, <2>4
  <2> QED  BY <2>2, <2>3, <2>4
<1>3. CASE WriteCancel(q)
  <2> DEFINE x == ask[q].run
  <2>1. x \in Runs /\ run[x] \in RunRec  BY <1>0, <1>3 DEF WriteCancel, PVTypes
  <2>2. \/ ask[q].pc = "cut" /\ run' = [run EXCEPT ![x] = [run[x] EXCEPT !.analysis = "cancelled"]]
        \/ ask[q].pc = "cancel" /\ run' = [run EXCEPT ![x] = [run[x] EXCEPT !.status = "cancelled"]]
    BY <1>0, <1>3 DEF WriteCancel
  <2>3. CASE s = x
    <3>1. CASE ask[q].pc = "cut" /\ run' = [run EXCEPT ![x] = [run[x] EXCEPT !.analysis = "cancelled"]]
      <4>1. run'[x].cursor = run[x].cursor /\ run'[x].status = run[x].status /\ run'[x].analysis = "cancelled"  BY <1>0, <1>1, <2>1, <3>1
      <4> QED  BY <2>3, <3>1, <4>1
    <3>2. CASE ask[q].pc = "cancel" /\ run' = [run EXCEPT ![x] = [run[x] EXCEPT !.status = "cancelled"]]
      <4>1. run'[x].cursor = run[x].cursor /\ run'[x].status = "cancelled" /\ run'[x].analysis = run[x].analysis  BY <1>0, <1>1, <2>1, <3>2
      <4> QED  BY <2>3, <3>2, <4>1
    <3> QED  BY <2>2, <3>1, <3>2
  <2>4. CASE s # x  BY <1>0, <2>1, <2>2, <2>4
  <2> QED  BY <2>3, <2>4
<1>4. CASE run' = run  BY <1>4
<1> QED  BY <1>2, <1>3, <1>4 DEF AskStep, Find, EnqueueRun, ReadCancel, AskDies

\* The steps of a worker that has looked whether the run was cancelled
Looked == {"start", "commit", "prepare", "acommit"}
\* A worker goes on only with a run that is still at the stage it loaded
InStep(r) ==
  /\ pvw[r].pc = "start" => run[r].status = "pending"
  /\ pvw[r].pc = "checkstart" => run[r].status \in {"pending", "cancelled"}
  /\ pvw[r].pc = "check" => run[r].status \in {"running", "cancelled"}
  /\ pvw[r].pc = "commit" => run[r].status = "running"
  /\ pvw[r].pc = "prepare" => run[r].status = "completed" /\ run[r].analysis = "pending"
  /\ pvw[r].pc = "analyze" => run[r].status = "completed" /\ run[r].analysis \in {"running", "cancelled"}
  /\ pvw[r].pc = "acommit" => run[r].status = "completed" /\ run[r].analysis = "running"
  /\ run[r].status \in PVActive \union {"none"} => run[r].analysis = "none"
\* What a request that is about to write has read still stands.
Asks(r) == \A q \in PVRequest : ask[q].run = r =>
  /\ ask[q].pc = "cancel" => run[r].status \in {"pending", "running", "cancelled"}
  /\ ask[q].pc = "cut" => run[r].status = "completed"
  /\ ask[q].pc \in {"cut", "cancel"} => pvw[r].pc \notin Looked
(***************************************************************************)
(* The inductive invariant of the ends of a run, while no cancellation is  *)
(* decided on a row that changes before it is written: the worker and the  *)
(* requests hold what the row still says.                                  *)
(***************************************************************************)
StepInv == PVTypes /\ \A r \in Runs : InStep(r) /\ Asks(r)

\* A step of a run keeps the invariant of that run.
LEMMA StepRun ==
  ASSUME "cancel" \in PVTimely, StepInv, NEW r \in Runs, RunStep(r)
  PROVE  InStep(r)' /\ Asks(r)'
<1>0. /\ run \in [Runs -> RunRec] /\ pvw \in [Runs -> [pc : PVSteps, batch : SUBSET Page]] /\ PVTypes
      /\ InStep(r) /\ Asks(r)
  BY DEF StepInv, PVTypes
<1>1. UNCHANGED ask
  BY DEF RunStep, PVChunk, ClaimRun, LoadRun, CrawlGone, CheckRun, StartRun, CommitRun, Prepare, AnalyzePage, CheckAnalysis, CommitAnalysis, CompleteRun, ContinueRun, GiveUpRun, Retry, LastFailure, DieBetween
<1>2. \A pc, b : PVGo(r, pc, b) => pvw'[r].pc = pc  BY <1>0 DEF PVGo
<1>a. ASSUME run'[r] = run[r], pvw'[r].pc \in {"idle", "load", "complete", "continue", "giveup"} PROVE InStep(r)' /\ Asks(r)'
  BY <1>0, <1>1, <1>a DEF InStep, Asks, Looked
<1>3. CASE ClaimRun(r) \/ CompleteRun(r) \/ ContinueRun(r) \/ Retry(r) \/ LastFailure(r) \/ DieBetween(r)
  BY <1>2, <1>3, <1>a DEF ClaimRun, CompleteRun, ContinueRun, Retry, LastFailure, DieBetween
<1>4. CASE LoadRun(r)
  <2>1. run' = run /\ \A q \in PVRequest : ~(ask[q].pc \in {"cut", "cancel"} /\ ask[q].run = r)  BY <1>4 DEF LoadRun, Settled
  <2>2. \/ run[r].status = "pending" /\ pvw'[r].pc = "checkstart"
        \/ run[r].status = "running" /\ pvw'[r].pc = "check"
        \/ run[r].status = "completed" /\ run[r].analysis = "pending" /\ pvw'[r].pc = "prepare"
        \/ run[r].status = "completed" /\ run[r].analysis = "running" /\ pvw'[r].pc = "analyze"
        \/ pvw'[r].pc = "complete"
    BY <1>2, <1>4 DEF LoadRun
  <2> QED  BY <1>0, <1>1, <2>1, <2>2 DEF InStep, Asks
<1>5. CASE CrawlGone(r)
  <2>1. pvw'[r].pc = "complete" /\ run'[r].status = "failed" /\ \A q \in PVRequest : ~(ask[q].pc \in {"cut", "cancel"} /\ ask[q].run = r)
    BY <1>0, <1>2, <1>5, RunColumns DEF CrawlGone, Settled
  <2> QED  BY <1>1, <2>1 DEF InStep, Asks, PVActive
<1>6. CASE CheckRun(r)
  <2>1. run' = run /\ \A q \in PVRequest : ~(ask[q].pc \in {"cut", "cancel"} /\ ask[q].run = r)  BY <1>6 DEF CheckRun, Settled
  <2>2. \/ pvw'[r].pc = "complete"
        \/ pvw[r].pc = "checkstart" /\ run[r].status # "cancelled" /\ pvw'[r].pc = "start"
        \/ pvw[r].pc = "check" /\ run[r].status # "cancelled" /\ pvw'[r].pc = "commit"
    BY <1>2, <1>6 DEF CheckRun, PVAt
  <2> QED  BY <1>0, <1>1, <2>1, <2>2 DEF InStep, Asks
<1>7. CASE StartRun(r)
  <2>1. pvw'[r].pc = "complete" /\ run'[r].status = "running" /\ run'[r].analysis = run[r].analysis /\ pvw[r].pc = "start"
    BY <1>0, <1>2, <1>7, RunColumns DEF StartRun, PVAt
  <2> QED  BY <1>0, <1>1, <2>1 DEF InStep, Asks, PVActive, Looked
<1>8. CASE CommitRun(r)
  <2>1. pvw'[r].pc = "complete" /\ pvw[r].pc = "commit"  BY <1>2, <1>8 DEF CommitRun, PVAt
  <2>2. \/ run'[r].status = "completed" /\ run'[r].analysis = "pending"
        \/ run'[r].status = run[r].status /\ run'[r].analysis = run[r].analysis
    BY <1>0, <1>8, RunColumns
  <2> QED  BY <1>0, <1>1, <2>1, <2>2 DEF InStep, Asks, PVActive, Looked
<1>9. CASE Prepare(r)
  <2>1. pvw'[r].pc = "complete" /\ pvw[r].pc = "prepare" /\ run'[r].status = run[r].status /\ run'[r].analysis = "running"
    BY <1>0, <1>2, <1>9, RunColumns DEF Prepare, PVAt
  <2> QED  BY <1>0, <1>1, <2>1 DEF InStep, Asks, PVActive, Looked
<1>10. CASE AnalyzePage(r)
  <2>1. pvw'[r].pc = "analyze" /\ pvw[r].pc = "analyze" /\ run' = run  BY <1>2, <1>10 DEF AnalyzePage, PVAt
  <2> QED  BY <1>0, <1>1, <2>1 DEF InStep, Asks, Looked
<1>11. CASE CheckAnalysis(r)
  <2>1. /\ run' = run /\ pvw[r].pc = "analyze" /\ \A q \in PVRequest : ~(ask[q].pc \in {"cut", "cancel"} /\ ask[q].run = r)
        /\ pvw'[r].pc = IF run[r].analysis = "cancelled" THEN "complete" ELSE "acommit"
    BY <1>2, <1>11 DEF CheckAnalysis, Settled, PVAt
  <2> QED  BY <1>0, <1>1, <2>1 DEF InStep, Asks
<1>12. CASE CommitAnalysis(r)
  <2>1. pvw'[r].pc = "complete" /\ pvw[r].pc = "acommit"  BY <1>2, <1>12 DEF CommitAnalysis, PVAt
  <2>2. run'[r].status = run[r].status  BY <1>0, <1>12, AnalysisColumns
  <2> QED  BY <1>0, <1>1, <2>1, <2>2 DEF InStep, Asks, PVActive, Looked
<1>13. CASE GiveUpRun(r)
  <2>1. pvw'[r].pc = "idle" /\ \A q \in PVRequest : ~(ask[q].pc \in {"cut", "cancel"} /\ ask[q].run = r)
    BY <1>2, <1>13 DEF GiveUpRun, Settled
  <2>2. \/ run'[r] = run[r] \/ run'[r].status \in {"completed", "failed"}  BY <1>0, <1>13, RunColumns
  <2> QED  BY <1>0, <1>1, <2>1, <2>2 DEF InStep, Asks, PVActive
<1> QED  BY <1>3, <1>4, <1>5, <1>6, <1>7, <1>8, <1>9, <1>10, <1>11, <1>12, <1>13 DEF RunStep, PVChunk

\* Every step keeps the workers in step with the rows.
LEMMA StepNext == ASSUME "cancel" \in PVTimely, StepInv, PVNext PROVE StepInv'
<1>0. /\ run \in [Runs -> RunRec] /\ pvw \in [Runs -> [pc : PVSteps, batch : SUBSET Page]] /\ PVTypes
      /\ ask \in [PVRequest -> [pc : AskSteps, run : 0 .. MaxRuns]]
  BY DEF StepInv, PVTypes
<1>1. ASSUME NEW r \in Runs, RunStep(r), NEW s \in Runs PROVE InStep(s)' /\ Asks(s)'
  <2>1. CASE s = r
    <3>1. InStep(r)' /\ Asks(r)'  BY <1>1, StepRun
    <3> QED  BY <2>1, <3>1
  <2>2. CASE s # r
    <3>1. run'[s] = run[s] /\ pvw'[s] = pvw[s] /\ ask' = ask  BY <1>0, <1>1, <2>2, Others
    <3> QED  BY <3>1 DEF StepInv, InStep, Asks
  <2> QED  BY <2>1, <2>2
<1>2. ASSUME NEW q \in PVRequest, AskStep(q), NEW s \in Runs PROVE InStep(s)' /\ Asks(s)'
  <2>0. pvw' = pvw /\ InStep(s) /\ Asks(s)  BY <1>0, <1>2, RequestsTyped DEF StepInv
  <2>1. CASE run'[s] = run[s]
    <3>1. InStep(s)'  BY <2>0, <2>1 DEF InStep
    <3>2. \A p \in PVRequest : ask'[p].pc \in {"cut", "cancel"} /\ ask'[p].run = s =>
             \/ ask[p] = ask'[p]
             \/ /\ NeedsWork(s) /\ pvw[s].pc \notin Looked
                /\ ask'[p].pc = IF run[s].status = "completed" THEN "cut" ELSE "cancel"
      <4>1. CASE Find(q) \/ CreateRun(q) \/ EnqueueRun(q) \/ WriteCancel(q) \/ AskDies(q)
        BY <1>0, <4>1 DEF Find, CreateRun, EnqueueRun, WriteCancel, AskDies
      <4>2. ASSUME NEW r \in Runs, ReadCancel(q, r)
            PROVE  \A p \in PVRequest : ask'[p].pc \in {"cut", "cancel"} /\ ask'[p].run = s =>
                     \/ ask[p] = ask'[p]
                     \/ /\ NeedsWork(s) /\ pvw[s].pc \notin Looked
                        /\ ask'[p].pc = IF run[s].status = "completed" THEN "cut" ELSE "cancel"
        BY <1>0, <4>2 DEF ReadCancel, Uncommitting, Looked
      <4> QED  BY <1>2, <4>1, <4>2 DEF AskStep
    <3>3. NeedsWork(s) => run[s].status \in {"pending", "running", "completed"}  BY DEF NeedsWork, PVActive
    <3> QED  BY <2>0, <2>1, <3>1, <3>2, <3>3 DEF Asks
  <2>2. CASE CreateRun(q)
    <3>1. pvw[s].pc \notin Looked  BY <2>2 DEF CreateRun, Uncommitting, Looked
    <3>2. \/ run'[s] = run[s]
          \/ run[s].status = "none" /\ run'[s].status = "pending" /\ run'[s].analysis = "none"
          \/ run'[s].status = run[s].status /\ run[s].analysis \in AnalysisActive /\ run'[s].analysis = "cancelled"
      BY <1>0, <1>2, <2>2, ByRequest DEF CreateRun
    <3>3. \A p \in PVRequest : ask'[p].pc \in {"cut", "cancel"} => ask'[p] = ask[p]  BY <1>0, <2>2 DEF CreateRun
    <3>4. Known(s)  BY <1>0 DEF PVTypes
    <3>5. CASE run[s].status = "none" /\ run'[s].status = "pending" /\ run'[s].analysis = "none"
      BY <2>0, <3>3, <3>4, <3>5 DEF InStep, Asks, Known, PVActive
    <3>6. CASE run'[s].status = run[s].status /\ run[s].analysis \in AnalysisActive /\ run'[s].analysis = "cancelled"
      BY <2>0, <3>1, <3>3, <3>6 DEF InStep, Asks, PVActive, AnalysisActive, Looked
    <3> QED  BY <2>1, <3>2, <3>5, <3>6
  <2>3. CASE WriteCancel(q) /\ ask[q].run = s /\ run'[s].analysis = "cancelled" /\ run'[s].status = run[s].status /\ ask[q].pc = "cut"
    <3>1. pvw[s].pc \notin Looked /\ run[s].status = "completed"  BY <2>0, <2>3 DEF Asks
    <3>2. \A p \in PVRequest : ask'[p].pc \in {"cut", "cancel"} => ask'[p] = ask[p]  BY <1>0, <2>3 DEF WriteCancel
    <3> QED  BY <2>0, <2>3, <3>1, <3>2 DEF InStep, Asks, Looked, PVActive
  <2>4. CASE WriteCancel(q) /\ ask[q].run = s /\ run'[s].analysis = run[s].analysis /\ run'[s].status = "cancelled" /\ ask[q].pc = "cancel"
    <3>1. pvw[s].pc \notin Looked /\ run[s].status \in {"pending", "running", "cancelled"}  BY <2>0, <2>4 DEF Asks
    <3>2. \A p \in PVRequest : ask'[p].pc \in {"cut", "cancel"} => ask'[p] = ask[p]  BY <1>0, <2>4 DEF WriteCancel
    <3>3. \A p \in PVRequest : ask[p].run = s => ask[p].pc # "cut"  BY <2>0, <3>1 DEF Asks
    <3> QED  BY <2>0, <2>4, <3>1, <3>2, <3>3 DEF InStep, Asks, Looked, PVActive
  <2>5. ask[q].pc \in {"cut", "cancel"} /\ run'[s] # run[s] => WriteCancel(q)
    BY <1>2 DEF AskStep, Find, CreateRun, EnqueueRun, ReadCancel, AskDies
  <2> QED  BY <1>0, <1>2, <2>1, <2>2, <2>3, <2>4, <2>5, ByRequest
<1> QED  BY <1>0, <1>1, <1>2, PVActs, PVTypesNext DEF StepInv

\* So they always are.
LEMMA StepAlways == ASSUME "cancel" \in PVTimely PROVE PVSpec => []StepInv
<1>1. PVInit => StepInv
  <2>1. PVInit => \A r \in Runs : InStep(r) /\ Asks(r)  BY DEF PVInit, NoRun, PVIdle, InStep, Asks
  <2> QED  BY <2>1, PVInitTypes DEF StepInv
<1>2. StepInv /\ UNCHANGED pvVars => StepInv'
  BY DEF StepInv, pvVars, PVTypes, Known, NextRows, InStep, Asks
<1> QED  BY <1>1, <1>2, StepNext, PTL DEF PVSpec

(***************************************************************************)
(* A page value run that is completed, failed or cancelled stays so, and   *)
(* an analysis that was cancelled stays cancelled, provided no worker      *)
(* commits between a look at a cancel and its use (page_value.py,          *)
(* cancel_run and _cancelled: nothing is locked between the two).          *)
(***************************************************************************)
THEOREM RunEnds == ASSUME "cancel" \in PVTimely PROVE PVSpec => RunStaysEnded
<1> DEFINE Stays == \A r \in Runs :
       /\ run[r].status \in PVTerminal => run'[r].status = run[r].status
       /\ run[r].analysis = "cancelled" => run'[r].analysis = "cancelled"
<1>1. ASSUME StepInv, NEW r \in Runs, RunStep(r) PROVE Stays
  <2>1. ASSUME NEW s \in Runs \ {r} PROVE run'[s] = run[s]  BY <1>1, Others DEF StepInv
  <2>2. /\ run[r].status \in PVTerminal => run'[r].status = run[r].status
        /\ run[r].analysis = "cancelled" => run'[r].analysis = "cancelled"
    <3>0. PVTypes /\ InStep(r)  BY <1>1 DEF StepInv
    <3>1. CASE Rests(r)  BY <3>0, <3>1, RunColumns
    <3>2. CASE CrawlGone(r)  BY <3>0, <3>2, RunColumns DEF CrawlGone, PVTerminal
    <3>3. CASE StartRun(r)  BY <3>0, <3>3, RunColumns DEF StartRun, PVAt, InStep, PVTerminal
    <3>4. CASE CommitRun(r)
      <4>1. run[r].status = "running" /\ run[r].analysis = "none"  BY <3>0, <3>4 DEF CommitRun, PVAt, InStep, PVActive
      <4> QED  BY <4>1 DEF PVTerminal
    <3>5. CASE Prepare(r)
      <4>1. run[r].analysis = "pending"  BY <3>0, <3>5 DEF Prepare, PVAt, InStep
      <4> QED  BY <3>0, <3>5, <4>1, RunColumns
    <3>6. CASE CommitAnalysis(r)
      <4>1. run[r].analysis = "running"  BY <3>0, <3>6 DEF CommitAnalysis, PVAt, InStep
      <4>2. run'[r].status = run[r].status  BY <3>0, <3>6, AnalysisColumns
      <4> QED  BY <4>1, <4>2
    <3>7. CASE GiveUpRun(r)  BY <3>0, <3>7, RunColumns DEF PVTerminal, PVActive, AnalysisActive
    <3> QED  BY <1>1, <3>1, <3>2, <3>3, <3>4, <3>5, <3>6, <3>7 DEF RunStep, PVChunk, Rests
  <2> QED  BY <2>1, <2>2
<1>2. ASSUME StepInv, NEW q \in PVRequest, AskStep(q) PROVE Stays
  <2>1. ASSUME NEW s \in Runs
        PROVE  /\ run[s].status \in PVTerminal => run'[s].status = run[s].status
               /\ run[s].analysis = "cancelled" => run'[s].analysis = "cancelled"
    <3>1. \/ run'[s] = run[s]
          \/ run[s].status = "none"
          \/ run'[s].status = run[s].status /\ run'[s].analysis = "cancelled"
          \/ run'[s].status = "cancelled" /\ run'[s].analysis = run[s].analysis /\ ask[q].pc = "cancel" /\ ask[q].run = s
      BY <1>2, ByRequest DEF StepInv
    <3>2. Asks(s) /\ InStep(s)  BY <1>2 DEF StepInv
    <3> QED  BY <3>1, <3>2 DEF Asks, InStep, PVTerminal, PVActive
  <2> QED  BY <2>1
<1>3. StepInv /\ [PVNext]_pvVars => Stays
  BY <1>1, <1>2, PVActs DEF pvVars
<1>4. StepInv /\ [PVNext]_pvVars => [Stays]_pvVars  BY <1>3
<1> QED  BY <1>4, StepAlways, PTL DEF PVSpec, RunStaysEnded

\* The pages whose analysis is worth a call: those that were fetched
Best == Page \ Unfetched
\* The scores of a run are those of the pages before its cursor, and of all once it is shown.
Whole(r) ==
  /\ run[r].status = "running" => score[r] = 1 .. run[r].cursor
  /\ kept = r => run[r].status = "completed" /\ score[r] = Page
\* The best pages of the run that is shown are analysed as far as its rank says.
Analysed(r) == kept = r =>
  /\ run[r].analysis = "running" => /\ run[r].total = Min({AnalyzeLimit, Cardinality(Best)})
                                    /\ First(Best, run[r].rank) \subseteq handled[r]
  /\ pvw[r].pc = "analyze" /\ run[r].analysis = "running" => First(Best, run[r].rank + Take(r)) \subseteq handled[r] \union pvw[r].batch
  /\ pvw[r].pc = "acommit" => First(Best, run[r].rank + Take(r)) \subseteq handled[r]
  /\ run[r].analysis = "completed" => First(Best, AnalyzeLimit) \subseteq handled[r]
(***************************************************************************)
(* The inductive invariant of RunIsWhole: the scores of a run reach to its *)
(* cursor, the analyses of the run that is shown to its rank, or to what   *)
(* its worker has in hand.                                                 *)
(***************************************************************************)
WholeInv == StepInv /\ \A r \in Runs : Whole(r) /\ Analysed(r)

\* These pages are finitely many.
LEMMA BestFinite == IsFiniteSet(Best) /\ Cardinality(Best) \in Nat
<1>1. IsFiniteSet(Page)  BY PVNats, FS_Interval, 1 \in Int, Pages \in Int DEF Page
<1> QED  BY <1>1, FS_Subset, FS_CardinalityType DEF Best

\* The first none of them are none.
LEMMA FirstNone == First(Best, 0) = {}
<1>1. ASSUME NEW p \in Best PROVE ~(Cardinality({q \in Best : q <= p}) <= 0)
  <2> DEFINE S == {q \in Best : q <= p}
  <2>1. p \in S  BY <1>1 DEF Best, Page
  <2>2. S \subseteq Best  OBVIOUS
  <2> HIDE DEF S
  <2>3. IsFiniteSet(S) /\ Cardinality(S) \in Nat /\ Cardinality(S) # 0  BY <2>1, <2>2, BestFinite, FS_Subset, FS_CardinalityType, FS_EmptySet
  <2> QED  BY <2>3 DEF S
<1> QED  BY <1>1 DEF First

\* More of them include fewer of them.
LEMMA FirstGrows == ASSUME NEW m \in Nat, NEW n \in Nat, m <= n PROVE First(Best, m) \subseteq First(Best, n)
<1>1. ASSUME NEW p \in Best PROVE Cardinality({q \in Best : q <= p}) \in Nat
  <2>1. {q \in Best : q <= p} \subseteq Best  OBVIOUS
  <2> QED  BY <2>1, BestFinite, FS_Subset, FS_CardinalityType
<1> QED  BY <1>1 DEF First

\* The rows of a chunk continue those before, and a short chunk is the last.
LEMMA ChunkScored ==
  ASSUME PVTypes, NEW r \in Runs, CommitRun(r), score[r] = 1 .. run[r].cursor
  PROVE  /\ score'[r] = 1 .. run'[r].cursor
         /\ Cardinality(pvw[r].batch) < ChunkSize => score'[r] = Page
<1> DEFINE c == run[r].cursor
           top == IF c + ChunkSize <= Pages THEN c + ChunkSize ELSE Pages
<1>1. pvw[r].batch = (c + 1) .. top /\ Cardinality(pvw[r].batch) = (IF c + ChunkSize <= Pages THEN ChunkSize ELSE Pages - c) /\ c \in 0 .. Pages
  <2>1. pvw[r].batch = NextRows(r)  BY DEF PVTypes, CommitRun, PVAt
  <2> QED  BY <2>1, NextRowsAre
<1>2. c \in Int /\ top \in Int /\ c <= top /\ 0 <= c /\ top <= Pages /\ Pages \in Nat /\ ChunkSize \in Nat \ {0}  BY <1>1, PVNats
<1>3. score'[r] = score[r] \union pvw[r].batch  BY DEF CommitRun, PVTypes
<1>4. run'[r].cursor = top
  <2>1. run'[r].cursor = IF pvw[r].batch = {} THEN c ELSE Max(pvw[r].batch)  BY RunColumns
  <2>2. CASE c + 1 <= top
    <3>1. c + 1 \in Int  BY <1>2
    <3>2. Max((c + 1) .. top) = top
      <4> HIDE DEF c, top
      <4> QED  BY <1>2, <2>2, <3>1, MaxOfInterval
    <3>3. pvw[r].batch # {}
      <4>1. (c + 1) .. top # {}
        <5> HIDE DEF c, top
        <5>1. c + 1 \in (c + 1) .. top  BY <1>2, <2>2
        <5> QED  BY <5>1
      <4> QED  BY <1>1, <4>1
    <3> QED  BY <1>1, <2>1, <3>2, <3>3
  <2>3. CASE ~(c + 1 <= top)
    <3>1. c = top /\ (c + 1) .. top = {}
      <4> HIDE DEF c, top
      <4> QED  BY <1>2, <2>3
    <3> QED  BY <1>1, <2>1, <3>1
  <2> QED  BY <2>2, <2>3
<1>5. score'[r] = 1 .. top
  <2>1. score'[r] = (1 .. c) \union ((c + 1) .. top)  BY <1>1, <1>3
  <2> HIDE DEF c, top
  <2> QED  BY <1>2, <2>1
<1>6. Cardinality(pvw[r].batch) < ChunkSize => top = Pages  BY <1>1, PVNats
<1> QED  BY <1>4, <1>5, <1>6 DEF Page

\* The chunk, the analysis and the end of a run keep its scores whole.
LEMMA WholeKept ==
  ASSUME "cancel" \in PVTimely, WholeInv, NEW r \in Runs, RunStep(r), NEW s \in Runs
  PROVE  Whole(s)'
<1>0. /\ PVTypes /\ InStep(r) /\ Whole(s) /\ Whole(r) /\ score \in [Runs -> SUBSET Page] /\ run \in [Runs -> RunRec]
  BY DEF WholeInv, StepInv, PVTypes
<1>1. CASE s # r
  <2>1. run'[s] = run[s]  BY <1>0, <1>1, Others
  <2>2. CASE CommitRun(r)
    <3>1. CASE Cardinality(pvw[r].batch) < ChunkSize
      <4>1. kept' = r /\ (run[s].status = "running" => score'[s] = score[s])  BY <1>0, <1>1, <2>2, <3>1 DEF CommitRun
      <4> QED  BY <1>0, <1>1, <2>1, <4>1 DEF Whole
    <3>2. CASE ~(Cardinality(pvw[r].batch) < ChunkSize)
      <4>1. kept' = kept /\ score'[s] = score[s]  BY <1>0, <1>1, <2>2, <3>2 DEF CommitRun
      <4> QED  BY <1>0, <2>1, <4>1 DEF Whole
    <3> QED  BY <3>1, <3>2
  <2>3. CASE StartRun(r)
    <3>1. kept' = kept /\ score'[s] = score[s]  BY <1>0, <1>1, <2>3 DEF StartRun
    <3> QED  BY <1>0, <2>1, <3>1 DEF Whole
  <2>4. CASE UNCHANGED <<score, kept>>  BY <1>0, <2>1, <2>4 DEF Whole
  <2> QED  BY <2>2, <2>3, <2>4
       DEF RunStep, PVChunk, ClaimRun, LoadRun, CrawlGone, CheckRun, Prepare, AnalyzePage, CheckAnalysis, CommitAnalysis, CompleteRun, ContinueRun, GiveUpRun, Retry, LastFailure, DieBetween
<1>2. CASE s = r
  <2> SUFFICES Whole(r)'  BY <1>2
  <2>1. CASE Rests(r)
    <3>1. run' = run /\ UNCHANGED <<score, kept>>
      BY <1>0, <2>1, RunColumns DEF Rests, LoadRun, CheckRun, AnalyzePage, CheckAnalysis, ClaimRun, CompleteRun, ContinueRun, Retry, LastFailure, DieBetween
    <3> QED  BY <1>0, <3>1 DEF Whole
  <2>2. CASE CrawlGone(r)
    <3>1. run[r].status = "pending" /\ run'[r].status = "failed" /\ UNCHANGED <<score, kept>>  BY <1>0, <2>2, RunColumns DEF CrawlGone
    <3> QED  BY <1>0, <3>1 DEF Whole
  <2>3. CASE StartRun(r)
    <3>1. /\ run[r].status = "pending" /\ run'[r].status = "running" /\ run'[r].cursor = 0 /\ score'[r] = {} /\ kept' = kept
      BY <1>0, <2>3, RunColumns DEF StartRun, PVAt, InStep
    <3>2. 1 .. 0 = {}  OBVIOUS
    <3> QED  BY <1>0, <3>1, <3>2 DEF Whole
  <2>4. CASE CommitRun(r)
    <3>1. run[r].status = "running" /\ score[r] = 1 .. run[r].cursor /\ kept # r  BY <1>0, <2>4 DEF CommitRun, PVAt, InStep, Whole
    <3>2. score'[r] = 1 .. run'[r].cursor /\ (Cardinality(pvw[r].batch) < ChunkSize => score'[r] = Page)  BY <1>0, <2>4, <3>1, ChunkScored
    <3>3. IF Cardinality(pvw[r].batch) < ChunkSize THEN run'[r].status = "completed" /\ kept' = r
          ELSE run'[r].status = run[r].status /\ kept' = kept
      BY <1>0, <2>4, RunColumns DEF CommitRun
    <3> QED  BY <3>1, <3>2, <3>3 DEF Whole
  <2>5. CASE Prepare(r)
    <3>1. run[r].status = "completed" /\ run'[r].status = run[r].status /\ UNCHANGED <<score, kept>>
      BY <1>0, <2>5, RunColumns DEF Prepare, PVAt, InStep
    <3> QED  BY <1>0, <3>1 DEF Whole
  <2>6. CASE CommitAnalysis(r)
    <3>1. run[r].status = "completed" /\ run'[r].status = run[r].status /\ UNCHANGED <<score, kept>>
      BY <1>0, <2>6, AnalysisColumns DEF CommitAnalysis, PVAt, InStep
    <3> QED  BY <1>0, <3>1 DEF Whole
  <2>7. CASE GiveUpRun(r)
    <3>1. UNCHANGED <<score, kept>>  BY <2>7 DEF GiveUpRun
    <3>2. \/ run'[r] = run[r]
          \/ run[r].status = "completed" /\ run'[r].status = "completed"
          \/ run[r].status \in PVActive /\ run'[r].status = "failed"
      BY <1>0, <2>7, RunColumns
    <3> QED  BY <1>0, <3>1, <3>2 DEF Whole, PVActive
  <2> QED  BY <2>1, <2>2, <2>3, <2>4, <2>5, <2>6, <2>7 DEF RunStep, PVChunk, Rests
<1> QED  BY <1>1, <1>2

\* They keep its analyses too.
LEMMA AnalysedKept ==
  ASSUME "cancel" \in PVTimely, WholeInv, NEW r \in Runs, RunStep(r), NEW s \in Runs
  PROVE  Analysed(s)'
<1>0. /\ PVTypes /\ InStep(r) /\ Whole(r) /\ Analysed(s) /\ Analysed(r) /\ run \in [Runs -> RunRec] /\ handled \in [Runs -> SUBSET Page]
      /\ pvw \in [Runs -> [pc : PVSteps, batch : SUBSET Page]]
  BY DEF WholeInv, StepInv, PVTypes
<1>a. \A pc, b : PVGo(r, pc, b) => pvw'[r].pc = pc /\ pvw'[r].batch = b  BY <1>0 DEF PVGo
<1>1. CASE s # r
  <2>1. run'[s] = run[s] /\ pvw'[s] = pvw[s] /\ handled'[s] = handled[s]  BY <1>0, <1>1, Others
  <2>2. kept' = s => kept = s
    BY <1>1 DEF RunStep, PVChunk, ClaimRun, LoadRun, CrawlGone, CheckRun, StartRun, CommitRun, Prepare, AnalyzePage, CheckAnalysis, CommitAnalysis, CompleteRun, ContinueRun, GiveUpRun, Retry, LastFailure, DieBetween
  <2> QED  BY <1>0, <2>1, <2>2 DEF Analysed, Take
<1>2. CASE s = r
  <2> SUFFICES ASSUME kept' = r PROVE Analysed(r)'  BY <1>2 DEF Analysed
  <2>a. ASSUME kept = r, run'[r] = run[r], handled'[r] = handled[r], pvw'[r].pc \notin {"analyze", "acommit"} PROVE Analysed(r)'
    BY <1>0, <2>a DEF Analysed, Take
  <2>b. kept = r => Ranked(r) = Best  BY <1>0 DEF Whole, Ranked, Best
  <2>c. /\ Take(r) \in Nat /\ run[r].rank \in Nat /\ run[r].total \in Nat /\ run[r].rank + Take(r) <= run[r].total
        /\ AnalyzeLimit \in Nat /\ Cardinality(Best) \in Nat
    BY <1>0, PagesTaken, PVNats, BestFinite DEF RunRec
  <2>1. CASE ClaimRun(r) \/ CheckRun(r) \/ CompleteRun(r) \/ ContinueRun(r) \/ Retry(r) \/ LastFailure(r) \/ DieBetween(r)
    BY <1>a, <2>1, <2>a DEF ClaimRun, CheckRun, CompleteRun, ContinueRun, Retry, LastFailure, DieBetween
  <2>2. CASE LoadRun(r)
    <3>1. run' = run /\ handled' = handled /\ kept' = kept  BY <2>2 DEF LoadRun
    <3>2. \/ pvw'[r].pc \notin {"analyze", "acommit"}
          \/ run[r].analysis = "running" /\ pvw'[r].pc = "analyze" /\ pvw'[r].batch = Slice(r)
      BY <1>a, <2>2 DEF LoadRun
    <3>3. CASE run[r].analysis = "running" /\ pvw'[r].pc = "analyze" /\ pvw'[r].batch = Slice(r)
      <4>1. Slice(r) = First(Best, run[r].rank + Take(r)) \ First(Best, run[r].rank)  BY <2>b, <3>1 DEF Slice, Take
      <4>2. First(Best, run[r].rank) \subseteq handled[r]  BY <1>0, <3>1, <3>3 DEF Analysed
      <4>3. First(Best, run[r].rank + Take(r)) \subseteq handled[r] \union Slice(r)  BY <4>1, <4>2
      <4>4. Take(r)' = Take(r)  BY <3>1 DEF Take
      <4> QED  BY <1>0, <3>1, <3>3, <4>3, <4>4 DEF Analysed
    <3> QED  BY <2>a, <3>1, <3>2, <3>3
  <2>3. CASE CrawlGone(r) \/ StartRun(r)
    <3>1. kept' = kept /\ run[r].status = "pending"  BY <1>0, <2>3 DEF CrawlGone, StartRun, PVAt, InStep
    <3> QED  BY <1>0, <3>1 DEF Whole
  <2>4. CASE CommitRun(r)
    <3>1. run[r].status = "running" /\ pvw'[r].pc = "complete"  BY <1>0, <1>a, <2>4 DEF CommitRun, PVAt, InStep
    <3>2. kept # r  BY <1>0, <3>1 DEF Whole
    <3>3. Cardinality(pvw[r].batch) < ChunkSize  BY <2>4, <3>2 DEF CommitRun
    <3>4. run'[r].analysis = "pending"  BY <1>0, <2>4, <3>3, RunColumns
    <3> QED  BY <3>1, <3>4 DEF Analysed
  <2>5. CASE Prepare(r)
    <3>1. /\ pvw'[r].pc = "complete" /\ run'[r].analysis = "running" /\ run'[r].rank = 0 /\ kept = r
          /\ run'[r].total = Min({AnalyzeLimit, Cardinality(Best)})
      <4>1. pvw'[r].pc = "complete" /\ kept = r  BY <1>a, <2>5 DEF Prepare
      <4>2. run'[r].analysis = "running" /\ run'[r].rank = 0 /\ run'[r].total = Min({AnalyzeLimit, Cardinality(Ranked(r))})
        BY <1>0, <2>5, RunColumns
      <4>3. Ranked(r) = Best  BY <2>b, <4>1
      <4> QED  BY <4>1, <4>2, <4>3
    <3>2. First(Best, run'[r].rank) = {}  BY <3>1, FirstNone
    <3> QED  BY <3>1, <3>2 DEF Analysed
  <2>6. CASE AnalyzePage(r)
    <3>1. PICK p : handled'[r] = handled[r] \union {p} /\ pvw'[r].pc = "analyze" /\ pvw'[r].batch = pvw[r].batch \ {p} /\ run' = run /\ kept = r
      BY <1>0, <1>a, <2>6 DEF AnalyzePage
    <3>2. pvw[r].pc = "analyze"  BY <2>6 DEF AnalyzePage, PVAt
    <3>3. Take(r)' = Take(r)  BY <3>1 DEF Take
    <3>4. handled[r] \subseteq handled'[r] /\ handled[r] \union pvw[r].batch \subseteq handled'[r] \union pvw'[r].batch  BY <3>1
    <3> QED  BY <1>0, <3>1, <3>2, <3>3, <3>4 DEF Analysed
  <2>7. CASE CheckAnalysis(r)
    <3>1. /\ run' = run /\ kept = r /\ handled' = handled /\ pvw[r].pc = "analyze" /\ pvw[r].batch = {}
          /\ pvw'[r].pc = IF run[r].analysis = "cancelled" THEN "complete" ELSE "acommit"
      BY <1>a, <2>7 DEF CheckAnalysis, PVAt
    <3>2. Take(r)' = Take(r)  BY <3>1 DEF Take
    <3>3. CASE run[r].analysis = "cancelled"  BY <2>a, <3>1, <3>3
    <3>4. CASE run[r].analysis # "cancelled"
      <4>1. run[r].analysis = "running"  BY <1>0, <3>1, <3>4 DEF InStep
      <4>2. First(Best, run[r].rank + Take(r)) \subseteq handled[r]  BY <1>0, <3>1, <4>1 DEF Analysed
      <4> QED  BY <1>0, <3>1, <3>2, <3>4, <4>1, <4>2 DEF Analysed
    <3> QED  BY <3>3, <3>4
  <2>8. CASE CommitAnalysis(r)
    <3> DEFINE reach == Min({run[r].rank + Take(r), Cardinality(Best)})
    <3>1. kept = r /\ handled' = handled /\ pvw[r].pc = "acommit" /\ pvw'[r].pc = "complete"  BY <1>a, <2>8 DEF CommitAnalysis, PVAt
    <3>2. /\ run'[r].rank = reach /\ run'[r].total = run[r].total
          /\ run'[r].analysis = IF reach >= run[r].total \/ reach - run[r].rank < Take(r) THEN "completed" ELSE run[r].analysis
      BY <1>0, <2>8, <2>b, <3>1, AnalysisColumns
    <3>3. /\ run[r].analysis = "running" /\ run[r].total = Min({AnalyzeLimit, Cardinality(Best)})
          /\ First(Best, run[r].rank + Take(r)) \subseteq handled[r]
      BY <1>0, <3>1 DEF InStep, Analysed
    <3>4. reach = run[r].rank + Take(r)
      <4>1. run[r].total = IF AnalyzeLimit <= Cardinality(Best) THEN AnalyzeLimit ELSE Cardinality(Best)  BY <2>c, <3>3, LesserOfTwo
      <4>2. run[r].rank + Take(r) \in Int /\ run[r].rank + Take(r) <= Cardinality(Best)  BY <2>c, <4>1
      <4> QED  BY <2>c, <4>2, LesserOfTwo
    <3> HIDE DEF reach
    <3>5. CASE reach >= run[r].total
      <4>1. reach = run[r].total  BY <2>c, <3>4, <3>5
      <4>2. run[r].total = IF AnalyzeLimit <= Cardinality(Best) THEN AnalyzeLimit ELSE Cardinality(Best)  BY <2>c, <3>3, LesserOfTwo
      <4>3. First(Best, AnalyzeLimit) \subseteq First(Best, reach)  BY <2>c, <4>1, <4>2, BestFinite, FirstOfAll
      <4>4. First(Best, AnalyzeLimit) \subseteq handled'[r] /\ run'[r].analysis = "completed"  BY <3>1, <3>2, <3>3, <3>4, <3>5, <4>3
      <4> QED  BY <3>1, <4>4 DEF Analysed
    <3>6. CASE ~(reach >= run[r].total)
      <4>1. ~(reach - run[r].rank < Take(r))  BY <2>c, <3>4
      <4>2. run'[r].analysis = "running" /\ First(Best, run'[r].rank) \subseteq handled'[r] /\ run'[r].total = Min({AnalyzeLimit, Cardinality(Best)})
        BY <3>1, <3>2, <3>3, <3>4, <3>6, <4>1
      <4> QED  BY <3>1, <4>2 DEF Analysed
    <3> QED  BY <3>5, <3>6
  <2>9. CASE GiveUpRun(r)
    <3>1. kept = r /\ handled' = handled /\ pvw'[r].pc = "idle"  BY <1>a, <2>9 DEF GiveUpRun
    <3>2. \/ run'[r] = run[r] \/ run'[r].analysis = "failed" \/ run[r].status \in PVActive
      BY <1>0, <2>9, RunColumns
    <3>3. run[r].status \notin PVActive  BY <1>0, <3>1 DEF Whole, PVActive
    <3> QED  BY <2>a, <3>1, <3>2, <3>3 DEF Analysed
  <2> QED  BY <2>1, <2>2, <2>3, <2>4, <2>5, <2>6, <2>7, <2>8, <2>9 DEF RunStep, PVChunk
<1> QED  BY <1>1, <1>2

\* So do the requests.
LEMMA WholeByRequest ==
  ASSUME "cancel" \in PVTimely, WholeInv, NEW q \in PVRequest, AskStep(q), NEW s \in Runs
  PROVE  Whole(s)' /\ Analysed(s)'
<1>0. PVTypes /\ InStep(s) /\ Asks(s) /\ Whole(s) /\ Analysed(s)  BY DEF WholeInv, StepInv
<1>1. pvw' = pvw /\ kept' = kept /\ handled' = handled /\ (score'[s] = score[s] \/ (WriteCancel(q) /\ ask[q].pc = "cancel" /\ ask[q].run = s))
  <2>1. pvw' = pvw  BY <1>0, RequestsTyped
  <2> QED  BY <1>0, <2>1 DEF AskStep, Find, CreateRun, EnqueueRun, WriteCancel, ReadCancel, AskDies, PVTypes
<1>2. CASE run'[s] = run[s] /\ ~(ask[q].pc = "cancel" /\ ask[q].run = s)
  BY <1>0, <1>1, <1>2 DEF Whole, Analysed, Take
<1>3. CASE run[s].status = "none" /\ run'[s].status = "pending"
  BY <1>0, <1>1, <1>3 DEF Whole, Analysed
<1>4. CASE /\ run'[s].status = run[s].status /\ run'[s].analysis = "cancelled" /\ run[s].status \notin PVActive
           /\ pvw[s].pc # "acommit" /\ ~(ask[q].pc = "cancel" /\ ask[q].run = s)
  BY <1>0, <1>1, <1>4 DEF Whole, Analysed, PVActive
<1>5. CASE ask[q].pc = "cancel" /\ ask[q].run = s
  <2>1. run[s].status \in {"pending", "running", "cancelled"}  BY <1>0, <1>5 DEF Asks
  <2>2. run'[s].status = "cancelled"
    <3>1. WriteCancel(q)  BY <1>5 DEF AskStep, Find, CreateRun, EnqueueRun, ReadCancel, AskDies
    <3> QED  BY <1>0, <1>5, <3>1 DEF WriteCancel, PVTypes, RunRec
  <2>3. kept # s  BY <1>0, <2>1 DEF Whole
  <2> QED  BY <1>1, <2>2, <2>3 DEF Whole, Analysed
<1>6. CASE run[s].analysis \in AnalysisActive /\ run'[s].status = run[s].status /\ run'[s].analysis = "cancelled" /\ CreateRun(q)
  <2>1. pvw[s].pc # "acommit"  BY <1>6 DEF CreateRun, Uncommitting
  <2>2. run[s].status \notin PVActive  BY <1>0, <1>6 DEF InStep, AnalysisActive
  <2>3. ask[q].pc # "cancel"  BY <1>6 DEF CreateRun
  <2> QED  BY <1>4, <1>6, <2>1, <2>2, <2>3
<1>7. CASE run'[s].status = run[s].status /\ run'[s].analysis = "cancelled" /\ ask[q].pc = "cut" /\ ask[q].run = s
  <2>1. pvw[s].pc # "acommit" /\ run[s].status \notin PVActive  BY <1>0, <1>7 DEF Asks, Looked, PVActive
  <2> QED  BY <1>4, <1>7, <2>1
<1> QED  BY <1>0, <1>2, <1>3, <1>5, <1>6, <1>7, ByRequest

\* So the scores of every run are always whole.
LEMMA WholeAlways == ASSUME "cancel" \in PVTimely PROVE PVSpec => []WholeInv
<1>1. PVInit => WholeInv
  <2>1. PVInit => StepInv
    <3>1. PVInit => \A r \in Runs : InStep(r) /\ Asks(r)  BY DEF PVInit, NoRun, PVIdle, InStep, Asks
    <3> QED  BY <3>1, PVInitTypes DEF StepInv
  <2>2. PVInit => \A r \in Runs : Whole(r) /\ Analysed(r)  BY PVNats DEF PVInit, NoRun, Whole, Analysed
  <2> QED  BY <2>1, <2>2 DEF WholeInv
<1>2. ASSUME WholeInv, UNCHANGED pvVars PROVE WholeInv'
  <2>1. StepInv'  BY <1>2 DEF WholeInv, StepInv, pvVars, PVTypes, Known, NextRows, InStep, Asks
  <2>2. ASSUME NEW r \in Runs PROVE Whole(r)' /\ Analysed(r)'  BY <1>2 DEF WholeInv, pvVars, Whole, Analysed, Take
  <2> QED  BY <2>1, <2>2 DEF WholeInv
<1>3. ASSUME WholeInv, PVNext PROVE WholeInv'
  <2>1. StepInv'  BY <1>3, StepNext DEF WholeInv
  <2>2. ASSUME NEW s \in Runs PROVE Whole(s)' /\ Analysed(s)'  BY <1>3, PVActs, WholeKept, AnalysedKept, WholeByRequest
  <2> QED  BY <2>1, <2>2 DEF WholeInv
<1> QED  BY <1>1, <1>2, <1>3, PTL DEF PVSpec

(***************************************************************************)
(* For any number of pages and any size of a chunk, with chunks that die,  *)
(* are retried and are carried on by another worker: the run that          *)
(* completed last has a score for every page of its crawl, and when its    *)
(* analysis is completed its best pages, up to the limit, have all been    *)
(* analysed (page_value.py, run_chunk and run_analysis_chunk).             *)
(***************************************************************************)
THEOREM RunsWhole == ASSUME "cancel" \in PVTimely PROVE PVSpec => []RunIsWhole
<1>1. ASSUME WholeInv PROVE RunIsWhole
  <2>1. kept \in 0 .. MaxRuns  BY <1>1 DEF WholeInv, StepInv, PVTypes
  <2>2. kept # 0 => kept \in Runs  BY <2>1, PVNats DEF Runs
  <2> QED  BY <1>1, <2>2 DEF WholeInv, Whole, Analysed, RunIsWhole, Best
<1> QED  BY <1>1, WholeAlways, PTL

(***************************************************************************)
(* All the promises of the page value runs together, under the same        *)
(* condition.                                                              *)
(***************************************************************************)
THEOREM Scoring == ASSUME "cancel" \in PVTimely PROVE PVSpec => []ScoringSound
<1>1. PVSpec => []RunIsWhole /\ []RunCarriedOn  BY RunsWhole, RunsCarriedOn
<1> QED  BY <1>1, PTL DEF ScoringSound

----------------------------------------------------------------------------
(***************************************************************************)
(* Re-checks of fixes (Fixes)                                              *)
(***************************************************************************)

\* The windows, the days and the rows
Period == {"before", "after"}
Window == [status : {"none", "pending", "complete", "unavailable"}, edge : Int]
Day == (0 .. FxHorizon) \union {Never}
RowRec == [status : ActionStatus, due : 0 .. Never, unable : 0 .. Backoffs + 1, failed : 0 .. SuppressAfter,
           checkedCrawl : Int, recheckedOn : Int, version : {1, 2},
           base : Looks \ {"none"}, started : Day, verifiedOn : Day, snapDue : 0 .. Never]

(***************************************************************************)
(* The types of the fix tracking, stronger than FxTypeOK: what a checker   *)
(* has loaded is a row, and a row's days are days.                         *)
(***************************************************************************)
FxTypes ==
  /\ method \in {"page_check", "site_crawl", "performance"}
  /\ row \in RowRec
  /\ crawl \in [no : Nat, synced : BOOLEAN]
  /\ snaps \in [Period -> Window]
  /\ fw \in [Checker -> [pc : {"idle", "look", "capture"}, old : RowRec \union {<<>>}, at : Nat]]
  /\ \A c \in Checker : Loading(c) => fw[c].old \in RowRec
  /\ today \in 0 .. FxHorizon /\ version \in {1, 2}
  /\ tries \in 0 .. Backoffs + 1 /\ again \in BOOLEAN

\* What the assumption says of the bounds
LEMMA FxNats == /\ Backoffs \in Nat \ {0} /\ SuppressAfter \in Nat \ {0} /\ DailyLimit \in Nat \ {0}
                /\ TrackDays \in Nat \ {0} /\ FxHorizon \in Nat
                /\ Later \in Nat /\ Never \in Nat /\ Later = FxHorizon + 1 /\ Never = FxHorizon + 2
BY FixesAssumption DEF Later, Never

\* The lesser of two numbers
LEMMA MinOfTwo == ASSUME NEW a \in Int, NEW b \in Int PROVE Min({a, b}) = IF a <= b THEN a ELSE b
<1> DEFINE m == IF a <= b THEN a ELSE b
<1>1. m \in {a, b} /\ \A y \in {a, b} : m <= y OBVIOUS
<1>2. \A x \in {a, b} : (\A y \in {a, b} : x <= y) => x = m OBVIOUS
<1>3. Min({a, b}) = CHOOSE x \in {a, b} : \A y \in {a, b} : x <= y BY DEF Min
<1>4. (CHOOSE x \in {a, b} : \A y \in {a, b} : x <= y) = m BY <1>1, <1>2
<1> QED  BY <1>3, <1>4

\* A day some days ahead is within the days of the model.
LEMMA InTyped == ASSUME FxTypes, NEW d \in Nat PROVE In(d) \in 0 .. Later
<1>1. today + d \in Nat /\ Later \in Nat BY FxNats DEF FxTypes
<1>2. In(d) = IF today + d <= Later THEN today + d ELSE Later BY <1>1, MinOfTwo DEF In
<1> QED  BY <1>1, <1>2

\* So is the day a row that could not be checked rests until.
LEMMA RestingTyped ==
  /\ Resting \in [pc : {"idle", "look", "capture"}, old : RowRec \union {<<>>}, at : Nat]
  /\ Resting.pc = "idle" /\ [Resting EXCEPT !.pc = "capture"].pc = "capture"
  /\ [Resting EXCEPT !.pc = "capture"] \in [pc : {"idle", "look", "capture"}, old : RowRec \union {<<>>}, at : Nat]
<1>1. \A o \in RowRec \union {<<>>} : \A a \in Nat : \A p \in {"idle", "look", "capture"} :
        [pc |-> p, old |-> o, at |-> a] \in [pc : {"idle", "look", "capture"}, old : RowRec \union {<<>>}, at : Nat]
  OBVIOUS
<1>2. <<>> \in RowRec \union {<<>>} OBVIOUS
<1>3. Resting = [pc |-> "idle", old |-> <<>>, at |-> 0] BY DEF Resting
<1>4. [Resting EXCEPT !.pc = "capture"] = [pc |-> "capture", old |-> <<>>, at |-> 0] BY <1>3
<1> QED  BY <1>1, <1>2, <1>3, <1>4

\* The types hold at the start.
LEMMA FxInitTypes == FxInit => FxTypes
<1> SUFFICES ASSUME FxInit PROVE FxTypes OBVIOUS
<1>1. snaps \in [Period -> Window] BY DEF FxInit, Period, Window, NoWindow
<1>2. row \in RowRec
  BY FxNats DEF FxInit, RowRec, ActionStatus, Undone, Looks, Day
<1>3. fw \in [Checker -> [pc : {"idle", "look", "capture"}, old : RowRec \union {<<>>}, at : Nat]]
  BY RestingTyped DEF FxInit
<1>4. \A c \in Checker : ~ Loading(c) BY RestingTyped DEF FxInit, Loading
<1>5. crawl \in [no : Nat, synced : BOOLEAN] BY DEF FxInit
<1>6. method \in {"page_check", "site_crawl", "performance"} BY FixesAssumption DEF FxInit
<1>7. again \in BOOLEAN BY DEF FxInit
<1>8. today \in 0 .. FxHorizon /\ version \in {1, 2} /\ tries \in 0 .. Backoffs + 1 BY FxNats DEF FxInit
<1> QED  BY <1>1, <1>2, <1>3, <1>4, <1>5, <1>6, <1>7, <1>8 DEF FxTypes

\* A row whose next capture alone is put off
Resched(r, s) == \E d \in 0 .. Never : s = [r EXCEPT !.snapDue = d]

\* A window that has been taken anew
Taken(r, p, w) ==
  /\ w.edge = Edge(r, p) /\ w.status \in {"none", "pending", "complete", "unavailable"}
  /\ p = "after" => r.verifiedOn # Never

\* What a capture may do to the row and to its windows
LEMMA Captures ==
  ASSUME FxTypes, NEW r \in RowRec, NEW P \in SUBSET Period, Capture(r, P)
  PROVE  /\ snaps' \in [Period -> Window]
         /\ Resched(r, row')
         /\ \A p \in Period : snaps'[p] = snaps[p] \/ Taken(r, p, snaps'[p])
<1>1. PICK new \in [Period -> {"pending", "complete", "unavailable"}] :
        /\ snaps' = Captured(r, P, new)
        /\ row' = [r EXCEPT !.snapDue = IF \E p \in P : snaps'[p].status = "pending" THEN In(1) ELSE Never]
  BY DEF Capture, Period
<1>2. (IF \E p \in P : snaps'[p].status = "pending" THEN In(1) ELSE Never) \in 0 .. Never
  BY InTyped, FxNats
<1>3. \A p \in Period : Edge(r, p) \in Int BY FxNats DEF RowRec, Edge, WorkStart, Day
<1>4. \A p \in Period : snaps'[p] = snaps[p] \/ Taken(r, p, snaps'[p])
  BY <1>1 DEF Captured, Taken, Period
<1>5. snaps' \in [Period -> Window]
  <2>1. \A p \in Period : [status |-> new[p], edge |-> Edge(r, p)] \in Window BY <1>3 DEF Window
  <2>2. \A p \in Period : (IF p \in P /\ snaps[p].status # "complete" /\ (p = "before" \/ r.verifiedOn # Never)
             THEN [status |-> new[p], edge |-> Edge(r, p)] ELSE snaps[p]) \in Window
    BY <2>1 DEF FxTypes
  <2> QED  BY <1>1, <2>2 DEF Captured, Period
<1>6. Resched(r, row') BY <1>1, <1>2 DEF Resched
<1> QED  BY <1>4, <1>5, <1>6

\* A row put off is still a row.
LEMMA RescheduledTyped == ASSUME NEW r \in RowRec, NEW s, Resched(r, s)
  PROVE s \in RowRec /\ \A f \in {"status", "due", "unable", "failed", "checkedCrawl", "recheckedOn",
                             "version", "base", "started", "verifiedOn"} : s[f] = r[f]
BY DEF Resched, RowRec

\* A change of the row and its windows that is well typed keeps the types.
LEMMA FixTyped == ASSUME FxTypes, NEW r \in RowRec, NEW P \in SUBSET Period,
    Capture(r, P) \/ (Resched(r, row') /\ UNCHANGED snaps)
  PROVE row' \in RowRec /\ snaps' \in [Period -> Window]
BY Captures, RescheduledTyped DEF FxTypes

\* Writing the day of the next capture puts the row off.
LEMMA PutOff == ASSUME NEW r \in RowRec, NEW d \in 0 .. Never PROVE Resched(r, [r EXCEPT !.snapDue = d])
BY DEF Resched
\* A row as it is counts as put off.
LEMMA AsItIs == ASSUME NEW r \in RowRec PROVE Resched(r, r)
<1>1. r = [r EXCEPT !.snapDue = r.snapDue] /\ r.snapDue \in 0 .. Never BY DEF RowRec
<1> QED  BY <1>1 DEF Resched

\* The columns of a row
LEMMA RowColumns ==
  /\ \A r \in RowRec : \A d \in 0 .. Never : [r EXCEPT !.due = d] \in RowRec
  /\ \A r \in RowRec : \A s \in Day : [r EXCEPT !.status = "in_progress", !.started = s] \in RowRec
  /\ \A r \in RowRec : \A s \in Day : \A d \in 0 .. Never :
        [r EXCEPT !.status = "ready_for_verification", !.started = s, !.unable = 0, !.failed = 0, !.due = d] \in RowRec
  /\ \A r \in RowRec : \A d \in 0 .. Never : [r EXCEPT !.status = "ignored", !.due = d, !.snapDue = d] \in RowRec
  /\ \A r \in RowRec : [r EXCEPT !.status = "reopened", !.failed = 0] \in RowRec
  /\ \A r \in RowRec : \A v \in {1, 2} : \A b \in Looks \ {"none"} : [r EXCEPT !.version = v, !.base = b] \in RowRec
  /\ \A r \in RowRec : \A u \in 0 .. Backoffs + 1 : \A d \in 0 .. Never : [r EXCEPT !.unable = u, !.due = d] \in RowRec
<1>1. 0 \in 0 .. SuppressAfter /\ 0 \in 0 .. Backoffs + 1 BY FxNats
<1>2. {"in_progress", "ready_for_verification", "ignored", "reopened"} \subseteq ActionStatus BY DEF ActionStatus, Undone
<1> HIDE DEF ActionStatus, Day, Looks
<1>3. \A r \in RowRec : \A d \in 0 .. Never : [r EXCEPT !.due = d] \in RowRec BY DEF RowRec
<1>4. \A r \in RowRec : \A s \in Day : [r EXCEPT !.status = "in_progress", !.started = s] \in RowRec BY <1>2 DEF RowRec
<1>5. \A r \in RowRec : \A s \in Day : \A d \in 0 .. Never :
        [r EXCEPT !.status = "ready_for_verification", !.started = s, !.unable = 0, !.failed = 0, !.due = d] \in RowRec
  BY <1>1, <1>2 DEF RowRec
<1>6. \A r \in RowRec : \A d \in 0 .. Never : [r EXCEPT !.status = "ignored", !.due = d, !.snapDue = d] \in RowRec
  BY <1>1, <1>2 DEF RowRec
<1>7. \A r \in RowRec : [r EXCEPT !.status = "reopened", !.failed = 0] \in RowRec BY <1>1, <1>2 DEF RowRec
<1>8. \A r \in RowRec : \A v \in {1, 2} : \A b \in Looks \ {"none"} : [r EXCEPT !.version = v, !.base = b] \in RowRec
  BY DEF RowRec
<1>9. \A r \in RowRec : \A u \in 0 .. Backoffs + 1 : \A d \in 0 .. Never : [r EXCEPT !.unable = u, !.due = d] \in RowRec
  BY DEF RowRec
<1> QED  BY <1>3, <1>4, <1>5, <1>6, <1>7, <1>8, <1>9

\* The days of the model
LEMMA Days == ASSUME FxTypes PROVE /\ today \in Day /\ today \in 0 .. Never /\ Never \in 0 .. Never
   /\ In(1) \in 0 .. Never /\ In(2) \in 0 .. Never /\ In(1) # Never /\ In(2) # Never /\ today # Never
   /\ \A r \in RowRec : StartOf(r) \in Day
<1>1. In(1) \in 0 .. Later /\ In(2) \in 0 .. Later BY InTyped
<1>2. today \in 0 .. FxHorizon BY DEF FxTypes
<1>3. \A r \in RowRec : r.started \in Day BY DEF RowRec
<1>4. today \in Day BY <1>2 DEF Day
<1>5. \A r \in RowRec : StartOf(r) \in Day BY <1>3, <1>4 DEF StartOf
<1> QED  BY <1>1, <1>2, <1>4, <1>5, FxNats

\* What a check makes of a row is a row.
LEMMA JudgedTyped == ASSUME FxTypes, NEW r \in RowRec, NEW sight \in Looks, NEW c \in Checker, NEW n \in Nat
  PROVE Judged(r, Outcome(r.base, sight), c, n) \in RowRec
<1> DEFINE result == Outcome(r.base, sight)
           st == NewStatus(r.status, result)
           un == IF result = "unable_to_verify" THEN Min({r.unable + 1, Backoffs + 1}) ELSE 0
           fa == IF result = "unable_to_verify" THEN r.failed
                   ELSE IF result = "not_fixed" THEN Min({r.failed + 1, SuppressAfter}) ELSE 0
           ve == IF result = "verified" /\ r.status # "verified" THEN today ELSE r.verifiedOn
           re == IF c = "recheck" THEN today ELSE -1
           s == [r EXCEPT !.status = st, !.unable = un, !.failed = fa, !.verifiedOn = ve, !.checkedCrawl = n, !.recheckedOn = re]
<1>1. result \in {"unable_to_verify", "verified", "partially_fixed", "not_fixed"} BY DEF Outcome
<1>2. st \in ActionStatus BY <1>1 DEF NewStatus, ActionStatus, Undone, RowRec
<1>3. r.unable \in 0 .. Backoffs + 1 /\ r.failed \in 0 .. SuppressAfter BY DEF RowRec
<1>4. un \in 0 .. Backoffs + 1
  <2>1. Min({r.unable + 1, Backoffs + 1}) = IF r.unable + 1 <= Backoffs + 1 THEN r.unable + 1 ELSE Backoffs + 1
    BY <1>3, MinOfTwo, FxNats
  <2> QED  BY <2>1, <1>3, FxNats
<1>5. fa \in 0 .. SuppressAfter
  <2>1. Min({r.failed + 1, SuppressAfter}) = IF r.failed + 1 <= SuppressAfter THEN r.failed + 1 ELSE SuppressAfter
    BY <1>3, MinOfTwo, FxNats
  <2> QED  BY <2>1, <1>3, FxNats
<1>6. ve \in Day BY Days DEF RowRec
<1>7. re \in Int BY DEF FxTypes
<1>8. s \in RowRec
  <2> HIDE DEF st, un, fa, ve, re, result
  <2>1. \A x \in RowRec : \A a \in ActionStatus : \A b \in 0 .. Backoffs + 1 : \A f \in 0 .. SuppressAfter :
          \A d \in Day : \A k, l \in Int :
          [x EXCEPT !.status = a, !.unable = b, !.failed = f, !.verifiedOn = d, !.checkedCrawl = k, !.recheckedOn = l] \in RowRec
    <3> HIDE DEF ActionStatus, Day, Looks
    <3> QED  BY DEF RowRec
  <2>2. n \in Int OBVIOUS
  <2> QED  BY <1>2, <1>4, <1>5, <1>6, <1>7, <2>1, <2>2
<1>9. NextCheck(s, result) \in 0 .. Never
  <2> HIDE DEF s, result
  <2> QED  BY Days DEF NextCheck
<1>10. [s EXCEPT !.due = NextCheck(s, result)] \in RowRec
  <2> HIDE DEF s, result
  <2> QED  BY <1>8, <1>9, RowColumns
<1>11. Judged(r, result, c, n) = [s EXCEPT !.due = NextCheck(s, result)] BY DEF Judged
<1> QED  BY <1>10, <1>11

\* So is what is written over a row that has changed since it was loaded.
LEMMA WrittenTyped == ASSUME FxTypes, NEW o \in RowRec, NEW n \in RowRec PROVE Written(o, n) \in RowRec
<1> DEFINE w == Written(o, n)
           Fields == {"status", "due", "unable", "failed", "checkedCrawl", "recheckedOn", "version",
                      "base", "started", "verifiedOn", "snapDue"}
<1>1. row \in RowRec BY DEF FxTypes
<1>2. DOMAIN row = Fields BY <1>1 DEF RowRec
<1>3. w = [f \in Fields |-> IF n[f] = o[f] THEN row[f] ELSE n[f]] BY <1>2 DEF Written
<1>4. \A f \in Fields : w[f] \in {row[f], n[f]} BY <1>3
<1> HIDE DEF w
<1> USE <1>1
<1> HIDE DEF ActionStatus, Day, Looks
<1>5. w.status \in ActionStatus BY <1>4 DEF RowRec
<1>6. w.due \in 0 .. Never /\ w.snapDue \in 0 .. Never BY <1>4 DEF RowRec
<1>7. w.unable \in 0 .. Backoffs + 1 /\ w.failed \in 0 .. SuppressAfter BY <1>4 DEF RowRec
<1>8. w.checkedCrawl \in Int /\ w.recheckedOn \in Int /\ w.version \in {1, 2} BY <1>4 DEF RowRec
<1>9. w.base \in Looks \ {"none"} BY <1>4 DEF RowRec
<1>10. w.started \in Day /\ w.verifiedOn \in Day BY <1>4 DEF RowRec
<1>11. w = [status |-> w.status, due |-> w.due, unable |-> w.unable, failed |-> w.failed,
            checkedCrawl |-> w.checkedCrawl, recheckedOn |-> w.recheckedOn, version |-> w.version,
            base |-> w.base, started |-> w.started, verifiedOn |-> w.verifiedOn, snapDue |-> w.snapDue]
  BY <1>3
<1> QED  BY <1>5, <1>6, <1>7, <1>8, <1>9, <1>10, <1>11 DEF RowRec, w

\* Over the row it was loaded from, a write writes the new row.
LEMMA WrittenFresh == ASSUME NEW n \in RowRec, row \in RowRec PROVE Written(row, n) = n
<1> DEFINE Fields == {"status", "due", "unable", "failed", "checkedCrawl", "recheckedOn", "version",
                      "base", "started", "verifiedOn", "snapDue"}
<1>1. DOMAIN row = Fields BY DEF RowRec
<1>2. n = [f \in Fields |-> n[f]] BY DEF RowRec
<1>3. Written(row, n) = [f \in Fields |-> n[f]] BY <1>1 DEF Written
<1> QED  BY <1>2, <1>3

\* The checkers, and what they have loaded
Checkers == [Checker -> [pc : {"idle", "look", "capture"}, old : RowRec \union {<<>>}, at : Nat]]
CheckersOK(f) == f \in Checkers /\ \A c \in Checker : f[c].pc = "look" => f[c].old \in RowRec

\* A checker that moves with a row in hand keeps the checkers well typed.
LEMMA CheckersMove ==
  ASSUME CheckersOK(fw), NEW c \in Checker
  PROVE  /\ CheckersOK([fw EXCEPT ![c] = Resting])
         /\ CheckersOK([fw EXCEPT ![c] = [Resting EXCEPT !.pc = "capture"]])
         /\ \A o \in RowRec : \A n \in Nat : CheckersOK([fw EXCEPT ![c] = [pc |-> "look", old |-> o, at |-> n]])
BY RestingTyped DEF CheckersOK, Checkers

\* The row and its windows are well typed.
FxRow == row \in RowRec /\ snaps \in [Period -> Window]

\* What people do keeps the row well typed.
LEMMA PeopleTyped == ASSUME FxTypes, People PROVE FxRow' /\ tries' \in 0 .. Backoffs + 1 /\ FxStill
<1>1. row \in RowRec /\ snaps \in [Period -> Window] /\ tries \in 0 .. Backoffs + 1
      /\ 0 \in 0 .. Backoffs + 1 /\ Backoffs + 1 \in 0 .. Backoffs + 1 BY FxNats DEF FxTypes
<1>2. {"before"} \in SUBSET Period BY DEF Period
<1>3. CASE StartWork
  <2> DEFINE r == [row EXCEPT !.status = "in_progress", !.started = StartOf(row)]
  <2>1. r \in RowRec BY <1>1, RowColumns, Days
  <2>2. Working(r) /\ tries' = tries /\ FxStill BY <1>3 DEF StartWork
  <2> HIDE DEF r
  <2>3. Capture(r, {"before"}) \/ (Resched(r, row') /\ UNCHANGED snaps) BY <2>1, <2>2, AsItIs DEF Working
  <2> QED  BY <1>1, <1>2, <2>1, <2>2, <2>3, FixTyped DEF FxRow
<1>4. CASE Claim
  <2> DEFINE due == IF method = "page_check" THEN today ELSE Never
             r == [row EXCEPT !.status = "ready_for_verification", !.started = StartOf(row),
                         !.unable = 0, !.failed = 0, !.due = due]
  <2>0. due \in 0 .. Never BY Days
  <2>2. Working(r) /\ tries' = 0 /\ FxStill BY <1>4 DEF Claim
  <2>1. r \in RowRec
    <3> HIDE DEF due
    <3> QED  BY <1>1, <2>0, RowColumns, Days
  <2> HIDE DEF r
  <2>3. Capture(r, {"before"}) \/ (Resched(r, row') /\ UNCHANGED snaps) BY <2>1, <2>2, AsItIs DEF Working
  <2> QED  BY <1>1, <1>2, <2>1, <2>2, <2>3, FixTyped DEF FxRow
<1>5. CASE AskRecheck BY <1>1, <1>5, RowColumns, Days DEF AskRecheck, FxRow
<1>6. CASE CancelRecheck BY <1>1, <1>6, RowColumns, Days DEF CancelRecheck, FxRow
<1>7. CASE Ignore BY <1>1, <1>7, RowColumns, Days DEF Ignore, FxRow
<1>8. CASE Reopen BY <1>1, <1>8, RowColumns, Days DEF Reopen, FxRow
<1> QED  BY <1>3, <1>4, <1>5, <1>6, <1>7, <1>8 DEF People

\* So do the captures of its windows.
LEMMA SnapshotsTyped ==
  ASSUME FxTypes, Capture(row, Period) \/ (row' = [row EXCEPT !.snapDue = In(1)] /\ UNCHANGED snaps)
  PROVE  FxRow'
<1>1. row \in RowRec /\ Period \in SUBSET Period BY DEF FxTypes
<1>2. Capture(row, Period) \/ (Resched(row, row') /\ UNCHANGED snaps) BY <1>1, PutOff, Days
<1> QED  BY <1>1, <1>2, FixTyped DEF FxRow

\* The tries stay within their bound.
LEMMA MoreTries == ASSUME NEW n \in 0 .. Backoffs + 1
  PROVE Min({n + 1, Backoffs + 1}) \in 0 .. Backoffs + 1 /\ Min({n + 1, Backoffs + 1}) = IF n <= Backoffs THEN n + 1 ELSE Backoffs + 1
<1>1. Min({n + 1, Backoffs + 1}) = IF n + 1 <= Backoffs + 1 THEN n + 1 ELSE Backoffs + 1 BY MinOfTwo, FxNats
<1> QED  BY <1>1, FxNats

\* Writing what a check has found keeps the types.
LEMMA ApplyTyped == ASSUME FxTypes, NEW c \in Checker, Apply(c) PROVE FxTypes'
<1>1. PICK sight \in Looks :
        LET old == fw[c].old
            result == Outcome(old.base, sight)
            new == Judged(old, result, c, fw[c].at)
            verified == new.status = "verified" /\ old.status # "verified" IN
        /\ fw[c].pc = "look"
        /\ row' = Written(old, new)
        /\ fw' = [fw EXCEPT ![c] = IF verified THEN [Resting EXCEPT !.pc = "capture"] ELSE Resting]
        /\ crawl' = IF c = "sync" THEN [crawl EXCEPT !.synced = TRUE] ELSE crawl
        /\ tries' = IF result = "unable_to_verify" THEN Min({tries + 1, Backoffs + 1}) ELSE tries
        /\ again' = (again \/ (verified /\ old.verifiedOn # Never))
        /\ UNCHANGED <<method, snaps, today, version>>
  BY DEF Apply
<1> DEFINE old == fw[c].old
           result == Outcome(old.base, sight)
           new == Judged(old, result, c, fw[c].at)
<1>2. old \in RowRec /\ fw[c].at \in Nat BY <1>1 DEF FxTypes, Loading
<1>3. new \in RowRec BY <1>2, JudgedTyped
<1>4. row' \in RowRec BY <1>1, <1>2, <1>3, WrittenTyped
<1>5. CheckersOK(fw) BY DEF FxTypes, CheckersOK, Checkers, Loading
<1>6. CheckersOK(fw') BY <1>1, <1>5, CheckersMove
<1>7. tries' \in 0 .. Backoffs + 1 BY <1>1, MoreTries DEF FxTypes
<1>8. crawl' \in [no : Nat, synced : BOOLEAN] BY <1>1 DEF FxTypes
<1>9. again' \in BOOLEAN BY <1>1 DEF FxTypes
<1>10. UNCHANGED <<method, snaps, today, version>> BY <1>1
<1> QED  BY <1>4, <1>6, <1>7, <1>8, <1>9, <1>10 DEF FxTypes, CheckersOK, Checkers, Loading

\* Every step keeps the types.
LEMMA FxTypesNext == ASSUME FxTypes, FxNext PROVE FxTypes'
<1>0. CheckersOK(fw) BY DEF FxTypes, CheckersOK, Checkers, Loading
<1>1. row \in RowRec /\ snaps \in [Period -> Window] /\ tries \in 0 .. Backoffs + 1 BY DEF FxTypes
<1>2. "recheck" \in Checker /\ "sync" \in Checker BY DEF Checker
<1>3. CASE People BY <1>3, PeopleTyped DEF FxTypes, FxRow, FxStill, Loading
<1>4. CASE Postpone BY <1>4, <1>1, RowColumns, Days DEF Postpone, FxStill, FxTypes, Loading
<1>5. CASE LoadDue
  <2>1. crawl.no \in Nat BY DEF FxTypes
  <2>2. CheckersOK(fw') BY <1>5, <1>0, <1>1, <1>2, <2>1, CheckersMove DEF LoadDue
  <2> QED  BY <1>5, <2>2 DEF LoadDue, FxTypes, CheckersOK, Checkers, Loading
<1>6. CASE DueSnapshots
  <2>1. FxRow' BY <1>6, SnapshotsTyped DEF DueSnapshots, Period
  <2> QED  BY <1>6, <2>1 DEF DueSnapshots, FxStill, FxTypes, Loading, FxRow
<1>7. CASE CheckRaises
  <2> DEFINE u == Min({row.unable + 1, Backoffs + 1})
  <2>1. row.unable \in 0 .. Backoffs + 1 BY <1>1 DEF RowRec
  <2>2. u \in 0 .. Backoffs + 1 BY <2>1, MoreTries
  <2>3. (IF u <= Backoffs THEN In(1) ELSE Never) \in 0 .. Never
    <3> HIDE DEF u
    <3> QED  BY Days
  <2>4. row' = [row EXCEPT !.unable = u, !.due = IF u <= Backoffs THEN In(1) ELSE Never] BY <1>7 DEF CheckRaises
  <2>5. row' \in RowRec
    <3> HIDE DEF u
    <3> QED  BY <1>1, <2>2, <2>3, <2>4, RowColumns
  <2>6. tries' \in 0 .. Backoffs + 1 BY <1>1, <1>7, MoreTries DEF CheckRaises
  <2>7. CheckersOK(fw') BY <1>7, <1>0, <1>2, CheckersMove DEF CheckRaises
  <2> QED  BY <1>7, <2>5, <2>6, <2>7 DEF CheckRaises, FxTypes, CheckersOK, Checkers, Loading
<1>8. CASE TakeCrawl BY <1>8 DEF TakeCrawl, FxTypes, Loading
<1>9. CASE SkipSync BY <1>9 DEF SkipSync, FxTypes, Loading
<1>10. CASE Rebaseline
  <2>1. PICK sight \in Looks \ {"none"} : row' = [row EXCEPT !.version = version, !.base = sight]
    BY <1>10 DEF Rebaseline
  <2>2. version \in {1, 2} BY DEF FxTypes
  <2>3. row' \in RowRec BY <2>1, <2>2, <1>1, RowColumns
  <2> QED  BY <1>10, <2>3 DEF Rebaseline, FxTypes, Loading
<1>11. CASE LoadForSync
  <2>1. crawl.no \in Nat BY DEF FxTypes
  <2>2. CheckersOK(fw') BY <1>11, <1>0, <1>1, <1>2, <2>1, CheckersMove DEF LoadForSync
  <2> QED  BY <1>11, <2>2 DEF LoadForSync, FxTypes, CheckersOK, Checkers, Loading
<1>12. CASE \E c \in Checker : Apply(c) BY <1>12, ApplyTyped
<1>13. ASSUME NEW c \in Checker, CaptureVerified(c) PROVE FxTypes'
  <2>1. FxRow' BY <1>13, SnapshotsTyped DEF CaptureVerified, Period
  <2>2. CheckersOK(fw') BY <1>13, <1>0, CheckersMove DEF CaptureVerified
  <2> QED  BY <1>13, <2>1, <2>2 DEF CaptureVerified, FxTypes, FxRow, CheckersOK, Checkers, Loading
<1>14. ASSUME NEW c \in Checker, CheckerDies(c) PROVE FxTypes'
  <2>1. CheckersOK(fw') BY <1>14, <1>0, CheckersMove DEF CheckerDies
  <2> QED  BY <1>14, <2>1 DEF CheckerDies, FxTypes, CheckersOK, Checkers, Loading
<1>15. CASE Upgrade BY <1>15 DEF Upgrade, FxTypes, Loading
<1>16. CASE NextDay BY <1>16, FxNats DEF NextDay, FxTypes, Loading
<1> QED  BY <1>3, <1>4, <1>5, <1>6, <1>7, <1>8, <1>9, <1>10, <1>11, <1>12, <1>13, <1>14, <1>15, <1>16
      DEF FxNext, Rechecks, Crawls

\* The stronger types are those of the model.
LEMMA FxTypeCorrect == FxTypes => FxTypeOK
BY DEF FxTypes, FxTypeOK, RowRec, Window, Period, Looks

\* What a checker has loaded is still the row, and not ignored.
LoadedStands == \A c \in Checker : Loading(c) => fw[c].old = row /\ row.status # "ignored"
\* One checker has it loaded.
OneHolds == \A c, d \in Checker : Loading(c) /\ Loading(d) => c = d
\* A recommendation that is ignored is not due.
KeptOut == row.status = "ignored" => row.due = Never
\* A row counts no more undecided checks than were made since its claim.
Tried == row.unable <= tries
\* The window after a fix is measured from a day it was verified on.
Measured == snaps.after.status = "complete" => row.verifiedOn # Never
(***************************************************************************)
(* The inductive invariant of the fix re-checks, while nothing is written  *)
(* to a row a checker has loaded: run_due_checks and sync_after_analysis   *)
(* (optimization.py) load the row, look at its page and write what they    *)
(* make of it.                                                             *)
(***************************************************************************)
FxInv == FxTypes /\ LoadedStands /\ OneHolds /\ KeptOut /\ Tried /\ ClaimIsChecked /\ ImpactClean /\ Measured

\* What a step keeps that neither decides nor measures anything
LEMMA RowKept ==
  ASSUME KeptOut, Tried, ClaimIsChecked, ImpactClean, Measured, UNCHANGED <<method, row, snaps, tries, again>>
  PROVE  (KeptOut /\ Tried /\ ClaimIsChecked /\ ImpactClean /\ Measured)'
BY DEF KeptOut, Tried, ClaimIsChecked, ImpactClean, Measured, WorkStart

\* The dates of the row: what was measured before stays before
LEMMA CleanKept ==
  ASSUME FxTypes, ImpactClean, Measured, NEW r \in RowRec, Resched(r, row'),
         WorkStart(row) <= WorkStart(r), row.verifiedOn = r.verifiedOn, again' = again,
         snaps' \in [Period -> Window],
         \A p \in Period : snaps'[p] = snaps[p] \/ Taken(r, p, snaps'[p])
  PROVE  (ImpactClean /\ Measured)'
<1>1. row' \in RowRec /\ row'.started = r.started /\ row'.verifiedOn = r.verifiedOn BY RescheduledTyped
<1>2. WorkStart(row') = WorkStart(r) BY <1>1 DEF WorkStart
<1>3. WorkStart(r) \in Int /\ WorkStart(row) \in Int /\ row.verifiedOn \in Int BY FxNats DEF FxTypes, RowRec, WorkStart, Day
<1>4. snaps.before.edge \in Int /\ snaps.after.edge \in Int BY DEF FxTypes, Window, Period
<1>5. snaps'.before.status = "complete" => snaps'.before.edge < WorkStart(r)
  <2>1. CASE snaps'["before"] = snaps["before"] BY <2>1, <1>3, <1>4 DEF ImpactClean
  <2>2. CASE Taken(r, "before", snaps'["before"]) BY <2>2, <1>3 DEF Taken, Edge
  <2> QED  BY <2>1, <2>2 DEF Period
<1>6. snaps'.after.status = "complete" => r.verifiedOn # Never /\ (~ again => snaps'.after.edge > r.verifiedOn)
  <2>1. CASE snaps'["after"] = snaps["after"] BY <2>1, <1>3, <1>4 DEF ImpactClean, Measured
  <2>2. CASE Taken(r, "after", snaps'["after"]) BY <2>2, <1>3 DEF Taken, Edge
  <2> QED  BY <2>1, <2>2 DEF Period
<1> QED  BY <1>1, <1>2, <1>5, <1>6 DEF ImpactClean, Measured

\* Windows as they are have been left or taken.
LEMMA SnapsAsTheyAre == ASSUME NEW r, UNCHANGED snaps PROVE \A p \in Period : snaps'[p] = snaps[p] \/ Taken(r, p, snaps'[p])
OBVIOUS

\* A commit of somebody who waits for the checks
LEMMA HeldIdle == ASSUME "load" \in FxTimely, Unloaded, UNCHANGED fw PROVE (LoadedStands /\ OneHolds)'
BY DEF Unloaded, LoadedStands, OneHolds, Loading

\* A step that leaves the windows and the claim alone keeps what was settled.
LEMMA SettledKept ==
  ASSUME FxTypes, ImpactClean, Measured, NEW r \in RowRec, NEW P \in SUBSET Period,
         Capture(r, P) \/ (Resched(r, row') /\ UNCHANGED snaps),
         WorkStart(row) <= WorkStart(r), row.verifiedOn = r.verifiedOn, again' = again
  PROVE  /\ (ImpactClean /\ Measured)' /\ row' \in RowRec
         /\ \A f \in {"status", "due", "unable"} : row'[f] = r[f]
<1>1. Resched(r, row') /\ snaps' \in [Period -> Window]
      /\ \A p \in Period : snaps'[p] = snaps[p] \/ Taken(r, p, snaps'[p])
  BY Captures, SnapsAsTheyAre DEF FxTypes
<1>2. row' \in RowRec /\ \A f \in {"status", "due", "unable"} : row'[f] = r[f] BY <1>1, RescheduledTyped
<1> QED  BY <1>1, <1>2, CleanKept

\* The work on a row whose start is the same starts on the same day.
LEMMA Started == ASSUME FxTypes, NEW r \in RowRec, r.started = StartOf(row) PROVE WorkStart(row) <= WorkStart(r)
<1>1. row.started \in Day /\ today \in Nat /\ today # Never BY FxNats DEF FxTypes, RowRec
<1>2. CASE row.started = Never BY <1>1, <1>2 DEF StartOf, WorkStart
<1>3. CASE row.started # Never BY <1>1, <1>3, FxNats DEF StartOf, WorkStart, Day
<1> QED  BY <1>2, <1>3

\* So it does when nothing happens to it.
LEMMA Undisturbed == ASSUME FxTypes PROVE WorkStart(row) <= WorkStart(row)
BY FxNats DEF FxTypes, RowRec, WorkStart, Day

\* What people do keeps the invariant.
LEMMA PeopleKeep == ASSUME "load" \in FxTimely, FxInv, People PROVE FxInv'
<1>0. FxTypes' BY FxTypesNext DEF FxInv, FxNext
<1>1. row \in RowRec /\ tries \in 0 .. Backoffs + 1 BY DEF FxInv, FxTypes
<1>2. (LoadedStands /\ OneHolds)'
  <2>1. Unloaded /\ FxStill BY DEF People, StartWork, Claim, AskRecheck, CancelRecheck, Ignore, Reopen, ByPerson
  <2> QED  BY <2>1, HeldIdle DEF FxStill
<1>3. {"before"} \in SUBSET Period BY DEF Period
<1>4. CASE StartWork
  <2> DEFINE r == [row EXCEPT !.status = "in_progress", !.started = StartOf(row)]
  <2>1. r \in RowRec BY <1>1, RowColumns, Days DEF FxInv
  <2>2. Working(r) /\ tries' = tries /\ FxStill BY <1>4 DEF StartWork
  <2>3. r.started = StartOf(row) /\ r.verifiedOn = row.verifiedOn /\ r.status = "in_progress" /\ r.unable = row.unable BY <1>1 DEF RowRec
  <2> HIDE DEF r
  <2>4. Capture(r, {"before"}) \/ (Resched(r, row') /\ UNCHANGED snaps) BY <2>1, <2>2, AsItIs DEF Working
  <2>5. (ImpactClean /\ Measured)' /\ row'.status = "in_progress" /\ row'.unable = row.unable
    BY <1>3, <2>1, <2>2, <2>3, <2>4, Started, SettledKept DEF FxInv, FxStill
  <2> QED  BY <1>0, <1>2, <2>2, <2>5 DEF FxInv, KeptOut, Tried, ClaimIsChecked
<1>5. CASE Claim
  <2> DEFINE due == IF method = "page_check" THEN today ELSE Never
             r == [row EXCEPT !.status = "ready_for_verification", !.started = StartOf(row),
                         !.unable = 0, !.failed = 0, !.due = due]
  <2>0. due \in 0 .. Never BY Days DEF FxInv
  <2>2. Working(r) /\ tries' = 0 /\ FxStill BY <1>5 DEF Claim
  <2>3. r \in RowRec /\ r.started = StartOf(row) /\ r.verifiedOn = row.verifiedOn
        /\ r.status = "ready_for_verification" /\ r.unable = 0 /\ r.due = due
    <3> HIDE DEF due
    <3>1. r \in RowRec BY <1>1, <2>0, RowColumns, Days DEF FxInv
    <3> QED  BY <3>1, <1>1 DEF RowRec
  <2> HIDE DEF r
  <2>4. Capture(r, {"before"}) \/ (Resched(r, row') /\ UNCHANGED snaps) BY <2>2, <2>3, AsItIs DEF Working
  <2>5. (ImpactClean /\ Measured)' /\ row'.status = "ready_for_verification" /\ row'.unable = 0 /\ row'.due = due
    BY <1>3, <2>2, <2>3, <2>4, Started, SettledKept DEF FxInv, FxStill
  <2>6. method = "page_check" => row'.due # Never BY <2>5, Days DEF FxInv
  <2>7. method' = method BY <2>2 DEF FxStill
  <2> QED  BY <1>0, <1>2, <2>2, <2>5, <2>6, <2>7 DEF FxInv, KeptOut, Tried, ClaimIsChecked
<1>6. CASE AskRecheck
  <2>1. row' = [row EXCEPT !.due = today] /\ UNCHANGED <<method, snaps, tries, again>> /\ row.status # "ignored"
    BY <1>6 DEF AskRecheck, FxStill
  <2>2. row'.due = today /\ row'.status = row.status /\ row'.unable = row.unable /\ row'.started = row.started
        /\ row'.verifiedOn = row.verifiedOn BY <1>1, <2>1 DEF RowRec
  <2>3. row'.due # Never BY <2>2, Days DEF FxInv
  <2>4. WorkStart(row') = WorkStart(row) BY <2>2 DEF WorkStart
  <2> QED  BY <1>0, <1>2, <2>1, <2>2, <2>3, <2>4 DEF FxInv, KeptOut, Tried, ClaimIsChecked, ImpactClean, Measured
<1>7. CASE CancelRecheck
  <2>1. row' = [row EXCEPT !.due = Never] /\ tries' = Backoffs + 1 /\ UNCHANGED <<method, snaps, again>>
    BY <1>7 DEF CancelRecheck, FxStill
  <2>2. row'.due = Never /\ row'.status = row.status /\ row'.unable = row.unable /\ row'.started = row.started
        /\ row'.verifiedOn = row.verifiedOn BY <1>1, <2>1 DEF RowRec
  <2>3. row.unable \in 0 .. Backoffs + 1 BY <1>1 DEF RowRec
  <2>4. WorkStart(row') = WorkStart(row) BY <2>2 DEF WorkStart
  <2>5. Tried' /\ ~ (tries' <= Backoffs) BY <2>1, <2>2, <2>3, FxNats DEF Tried
  <2> QED  BY <1>0, <1>2, <2>1, <2>2, <2>4, <2>5 DEF FxInv, KeptOut, ClaimIsChecked, ImpactClean, Measured
<1>8. CASE Ignore
  <2>1. row' = [row EXCEPT !.status = "ignored", !.due = Never, !.snapDue = Never]
        /\ UNCHANGED <<method, snaps, again, tries>> BY <1>8 DEF Ignore, FxStill
  <2>2. row'.due = Never /\ row'.status = "ignored" /\ row'.unable = row.unable /\ row'.started = row.started
        /\ row'.verifiedOn = row.verifiedOn BY <1>1, <2>1 DEF RowRec
  <2>4. WorkStart(row') = WorkStart(row) BY <2>2 DEF WorkStart
  <2> QED  BY <1>0, <1>2, <2>1, <2>2, <2>4 DEF FxInv, KeptOut, Tried, ClaimIsChecked, ImpactClean, Measured
<1>9. CASE Reopen
  <2>1. row' = [row EXCEPT !.status = "reopened", !.failed = 0] /\ UNCHANGED <<method, snaps, again, tries>>
    BY <1>9 DEF Reopen, FxStill
  <2>2. row'.status = "reopened" /\ row'.unable = row.unable /\ row'.started = row.started
        /\ row'.verifiedOn = row.verifiedOn BY <1>1, <2>1 DEF RowRec
  <2>4. WorkStart(row') = WorkStart(row) BY <2>2 DEF WorkStart
  <2> QED  BY <1>0, <1>2, <2>1, <2>2, <2>4 DEF FxInv, KeptOut, Tried, ClaimIsChecked, ImpactClean, Measured
<1> QED  BY <1>4, <1>5, <1>6, <1>7, <1>8, <1>9 DEF People

\* So do the captures.
LEMMA SnapshotsKeep ==
  ASSUME FxInv, again' = again, tries' = tries, method' = method,
         Capture(row, Period) \/ (row' = [row EXCEPT !.snapDue = In(1)] /\ UNCHANGED snaps)
  PROVE  (KeptOut /\ Tried /\ ClaimIsChecked /\ ImpactClean /\ Measured)'
<1>1. row \in RowRec /\ Period \in SUBSET Period BY DEF FxInv, FxTypes
<1>2. Capture(row, Period) \/ (Resched(row, row') /\ UNCHANGED snaps) BY <1>1, PutOff, Days DEF FxInv
<1>3. (ImpactClean /\ Measured)' /\ row'.status = row.status /\ row'.due = row.due /\ row'.unable = row.unable
  BY <1>1, <1>2, Undisturbed, SettledKept DEF FxInv
<1> QED  BY <1>3 DEF FxInv, KeptOut, Tried, ClaimIsChecked

\* What a checker concludes
LEMMA JudgedIs ==
  ASSUME FxTypes, NEW sight \in Looks, NEW c \in Checker, NEW n \in Nat
  PROVE  LET result == Outcome(row.base, sight)
             new == Judged(row, result, c, n) IN
         /\ new.status = NewStatus(row.status, result)
         /\ new.unable = IF result = "unable_to_verify" THEN Min({row.unable + 1, Backoffs + 1}) ELSE 0
         /\ new.started = row.started
         /\ new.verifiedOn = IF result = "verified" /\ row.status # "verified" THEN today ELSE row.verifiedOn
         /\ new.due = IF method # "page_check" \/ new.status = "ignored" THEN Never
                       ELSE IF result = "unable_to_verify" THEN (IF new.unable <= Backoffs THEN In(1) ELSE Never)
                       ELSE IF result = "verified" THEN (IF Watched THEN In(2) ELSE Never)
                       ELSE IF result = "partially_fixed" THEN In(1)
                       ELSE IF new.failed >= SuppressAfter THEN Never ELSE In(1)
<1> DEFINE result == Outcome(row.base, sight)
           st == NewStatus(row.status, result)
           un == IF result = "unable_to_verify" THEN Min({row.unable + 1, Backoffs + 1}) ELSE 0
           fa == IF result = "unable_to_verify" THEN row.failed
                   ELSE IF result = "not_fixed" THEN Min({row.failed + 1, SuppressAfter}) ELSE 0
           ve == IF result = "verified" /\ row.status # "verified" THEN today ELSE row.verifiedOn
           re == IF c = "recheck" THEN today ELSE -1
           s == [row EXCEPT !.status = st, !.unable = un, !.failed = fa, !.verifiedOn = ve, !.checkedCrawl = n, !.recheckedOn = re]
           new == Judged(row, result, c, n)
<1>1. row \in RowRec BY DEF FxTypes
<1>2. new = [s EXCEPT !.due = NextCheck(s, result)] BY DEF Judged
<1>3. s.status = st /\ s.unable = un /\ s.started = row.started /\ s.verifiedOn = ve
  <2> HIDE DEF st, un, fa, ve, re, result
  <2> QED  BY <1>1 DEF RowRec
<1>4. DOMAIN s = DOMAIN row /\ "due" \in DOMAIN row BY <1>1 DEF RowRec
<1>5. new.status = s.status /\ new.unable = s.unable /\ new.failed = s.failed /\ new.started = s.started
      /\ new.verifiedOn = s.verifiedOn /\ new.due = NextCheck(s, result)
  <2> HIDE DEF s, result
  <2> QED  BY <1>2, <1>4
<1>6. new.due = IF method # "page_check" \/ new.status = "ignored" THEN Never
                       ELSE IF result = "unable_to_verify" THEN (IF new.unable <= Backoffs THEN In(1) ELSE Never)
                       ELSE IF result = "verified" THEN (IF Watched THEN In(2) ELSE Never)
                       ELSE IF result = "partially_fixed" THEN In(1)
                       ELSE IF new.failed >= SuppressAfter THEN Never ELSE In(1)
  <2> HIDE DEF s, result, new
  <2> QED  BY <1>5 DEF NextCheck
<1> QED  BY <1>3, <1>5, <1>6

\* So does what a check writes.
LEMMA ApplyKeeps == ASSUME "load" \in FxTimely, FxInv, NEW c \in Checker, Apply(c) PROVE FxInv'
<1>0. FxTypes' BY FxTypesNext DEF FxInv, FxNext
<1>1. PICK sight \in Looks :
        LET old == fw[c].old
            result == Outcome(old.base, sight)
            new == Judged(old, result, c, fw[c].at)
            verified == new.status = "verified" /\ old.status # "verified" IN
        /\ fw[c].pc = "look"
        /\ row' = Written(old, new)
        /\ fw' = [fw EXCEPT ![c] = IF verified THEN [Resting EXCEPT !.pc = "capture"] ELSE Resting]
        /\ tries' = IF result = "unable_to_verify" THEN Min({tries + 1, Backoffs + 1}) ELSE tries
        /\ again' = (again \/ (verified /\ old.verifiedOn # Never))
        /\ UNCHANGED <<method, snaps, today, version>>
  BY DEF Apply
<1> DEFINE result == Outcome(row.base, sight)
           new == Judged(row, result, c, fw[c].at)
           verified == new.status = "verified" /\ row.status # "verified"
<1>2. fw[c].old = row /\ row \in RowRec /\ fw[c].at \in Nat /\ row.status # "ignored"
  BY <1>1 DEF FxInv, FxTypes, LoadedStands, Loading
<1>3. new \in RowRec BY <1>2, JudgedTyped DEF FxInv
<1>4. row' = new BY <1>1, <1>2, <1>3, WrittenFresh
<1>5. \A d \in Checker : fw'[d].pc # "look"
  <2>1. \A d \in Checker : d # c => fw'[d] = fw[d] /\ fw[d].pc # "look" BY <1>1 DEF FxInv, FxTypes, OneHolds, Loading
  <2>2. fw'[c].pc # "look" BY <1>1, RestingTyped DEF FxInv, FxTypes
  <2> QED  BY <2>1, <2>2
<1>6. (LoadedStands /\ OneHolds)' BY <1>5 DEF LoadedStands, OneHolds, Loading
<1>7. tries' = IF result = "unable_to_verify" THEN Min({tries + 1, Backoffs + 1}) ELSE tries BY <1>1, <1>2
<1>8. again' = (again \/ (verified /\ row.verifiedOn # Never)) BY <1>1, <1>2
<1>9. /\ row'.status = NewStatus(row.status, result)
      /\ row'.unable = IF result = "unable_to_verify" THEN Min({row.unable + 1, Backoffs + 1}) ELSE 0
      /\ row'.started = row.started
      /\ row'.verifiedOn = IF result = "verified" /\ row.status # "verified" THEN today ELSE row.verifiedOn
      /\ row'.due = IF method # "page_check" \/ row'.status = "ignored" THEN Never
                     ELSE IF result = "unable_to_verify" THEN (IF row'.unable <= Backoffs THEN In(1) ELSE Never)
                     ELSE IF result = "verified" THEN (IF Watched THEN In(2) ELSE Never)
                     ELSE IF result = "partially_fixed" THEN In(1)
                     ELSE IF row'.failed >= SuppressAfter THEN Never ELSE In(1)
  <2>1. FxTypes BY DEF FxInv
  <2> QED  BY <1>2, <1>4, <2>1, JudgedIs
<1>10. verified <=> row'.status = "verified" /\ row.status # "verified" BY <1>4
<1>11. UNCHANGED <<method, snaps>> BY <1>1
<1>12. result \in {"unable_to_verify", "verified", "partially_fixed", "not_fixed"} BY DEF Outcome
<1> HIDE DEF result, new, verified
<1>13. row.unable \in 0 .. Backoffs + 1 /\ tries \in 0 .. Backoffs + 1 /\ row.status \in ActionStatus
  BY <1>2 DEF FxInv, FxTypes, RowRec
<1>14. row'.status # "ignored" BY <1>2, <1>9, <1>12 DEF NewStatus
<1>15. Tried' BY <1>7, <1>9, <1>13, MoreTries, FxNats DEF FxInv, Tried
<1>16. ClaimIsChecked'
  <2> SUFFICES ASSUME row'.status = "ready_for_verification", method = "page_check", tries' <= Backoffs PROVE row'.due # Never
    BY <1>11 DEF ClaimIsChecked
  <2>1. result \in {"unable_to_verify", "partially_fixed"} \/ result = "not_fixed" BY <1>9, <1>12 DEF NewStatus
  <2>2. result # "not_fixed"
    <3> SUFFICES ASSUME result = "not_fixed" PROVE FALSE OBVIOUS
    <3> QED  BY <1>9 DEF NewStatus
  <2>3. In(1) # Never BY Days DEF FxInv
  <2>4. result = "unable_to_verify" => row'.unable <= Backoffs
    <3> SUFFICES ASSUME result = "unable_to_verify" PROVE row'.unable <= Backoffs OBVIOUS
    <3>1. tries' = Min({tries + 1, Backoffs + 1}) /\ row'.unable = Min({row.unable + 1, Backoffs + 1}) BY <1>7, <1>9
    <3> QED  BY <3>1, <1>13, MoreTries, FxNats DEF FxInv, Tried
  <2> QED  BY <2>1, <2>2, <2>3, <2>4, <1>9, <1>14
<1>17. (ImpactClean /\ Measured)'
  <2>1. WorkStart(row') = WorkStart(row) BY <1>9 DEF WorkStart
  <2>2. row'.verifiedOn # row.verifiedOn => verified
    BY <1>9, <1>10 DEF NewStatus
  <2>3. row.verifiedOn # Never => row'.verifiedOn # Never BY <1>9, Days DEF FxInv
  <2>4. snaps.after.status = "complete" => row.verifiedOn # Never BY DEF FxInv, Measured
  <2>5. snaps.after.status = "complete" /\ ~ again' => row'.verifiedOn = row.verifiedOn /\ ~ again
    BY <1>8, <2>2, <2>4 DEF FxInv, FxTypes
  <2> QED  BY <1>11, <2>1, <2>3, <2>4, <2>5 DEF FxInv, ImpactClean, Measured
<1> QED  BY <1>0, <1>6, <1>14, <1>15, <1>16, <1>17 DEF FxInv, KeptOut

\* Every step keeps the invariant.
LEMMA FxInvNext == ASSUME "load" \in FxTimely, FxInv, FxNext PROVE FxInv'
<1>0. FxTypes' BY FxTypesNext DEF FxInv
<1>1. row \in RowRec /\ tries \in 0 .. Backoffs + 1 /\ fw \in Checkers BY DEF FxInv, FxTypes, Checkers
<1>2. "recheck" \in Checker /\ "sync" \in Checker BY DEF Checker
<1>3. CASE People BY <1>3, PeopleKeep
<1>4. CASE Postpone
  <2>1. row' = [row EXCEPT !.due = In(1)] /\ UNCHANGED <<method, snaps, tries, again>> /\ row.status # "ignored" /\ Unloaded /\ UNCHANGED fw
    BY <1>4 DEF Postpone, FxStill, DueNow
  <2>2. row'.due = In(1) /\ row'.status = row.status /\ row'.unable = row.unable /\ row'.started = row.started
        /\ row'.verifiedOn = row.verifiedOn BY <1>1, <2>1 DEF RowRec
  <2>3. row'.due # Never BY <2>2, Days DEF FxInv
  <2>4. WorkStart(row') = WorkStart(row) BY <2>2 DEF WorkStart
  <2>5. (LoadedStands /\ OneHolds)' BY <2>1, HeldIdle
  <2> QED  BY <1>0, <2>1, <2>2, <2>3, <2>4, <2>5 DEF FxInv, KeptOut, Tried, ClaimIsChecked, ImpactClean, Measured
<1>5. CASE LoadDue
  <2>1. UNCHANGED <<method, row, snaps, tries, again>> /\ fw' = [fw EXCEPT !["recheck"] = [pc |-> "look", old |-> row, at |-> crawl.no]]
        /\ Unloaded /\ row.status # "ignored" BY <1>5 DEF LoadDue, DueNow
  <2>2. (LoadedStands /\ OneHolds)' BY <1>1, <1>2, <2>1 DEF Checkers, LoadedStands, OneHolds, Unloaded, Loading
  <2> QED  BY <1>0, <2>1, <2>2, RowKept DEF FxInv
<1>6. CASE DueSnapshots
  <2>1. (KeptOut /\ Tried /\ ClaimIsChecked /\ ImpactClean /\ Measured)'
    BY <1>6, SnapshotsKeep DEF DueSnapshots, Period, FxStill
  <2>2. (LoadedStands /\ OneHolds)' BY <1>6, HeldIdle DEF DueSnapshots, FxStill
  <2> QED  BY <1>0, <2>1, <2>2 DEF FxInv
<1>7. CASE CheckRaises
  <2> DEFINE u == Min({row.unable + 1, Backoffs + 1})
  <2>1. row' = [row EXCEPT !.unable = u, !.due = IF u <= Backoffs THEN In(1) ELSE Never]
        /\ tries' = Min({tries + 1, Backoffs + 1}) /\ fw' = [fw EXCEPT !["recheck"] = Resting]
        /\ UNCHANGED <<method, snaps, again>> /\ Loading("recheck")
    BY <1>7 DEF CheckRaises
  <2>2. row'.unable = u /\ row'.due = (IF u <= Backoffs THEN In(1) ELSE Never) /\ row'.status = row.status
        /\ row'.started = row.started /\ row'.verifiedOn = row.verifiedOn
    <3> HIDE DEF u
    <3> QED  BY <2>1, <1>1 DEF RowRec
  <2>3. row.unable \in 0 .. Backoffs + 1 /\ row.unable <= tries BY <1>1 DEF RowRec, FxInv, Tried
  <2>4. u <= tries' /\ (tries' <= Backoffs => u <= Backoffs) BY <2>1, <2>3, <1>1, MoreTries, FxNats
  <2>5. row.status # "ignored" BY <2>1, <1>2 DEF FxInv, LoadedStands
  <2>6. WorkStart(row') = WorkStart(row) BY <2>2 DEF WorkStart
  <2>7. (LoadedStands /\ OneHolds)' BY <1>1, <1>2, <2>1, RestingTyped DEF FxInv, Checkers, LoadedStands, OneHolds, Loading
  <2>8. In(1) # Never BY Days DEF FxInv
  <2> HIDE DEF u
  <2> QED  BY <1>0, <2>1, <2>2, <2>4, <2>5, <2>6, <2>7, <2>8 DEF FxInv, KeptOut, Tried, ClaimIsChecked, ImpactClean, Measured
<1>8. CASE TakeCrawl \/ SkipSync \/ Upgrade
  <2>1. UNCHANGED <<method, row, snaps, tries, again, fw>> BY <1>8 DEF TakeCrawl, SkipSync, Upgrade
  <2>2. (LoadedStands /\ OneHolds)' BY <2>1 DEF FxInv, LoadedStands, OneHolds, Loading
  <2> QED  BY <1>0, <2>1, <2>2, RowKept DEF FxInv
<1>10. CASE Rebaseline
  <2>1. PICK sight \in Looks \ {"none"} : row' = [row EXCEPT !.version = version, !.base = sight]
    BY <1>10 DEF Rebaseline
  <2>2. UNCHANGED <<method, snaps, tries, again, fw>> /\ Unloaded BY <1>10 DEF Rebaseline
  <2>3. row'.due = row.due /\ row'.status = row.status /\ row'.unable = row.unable /\ row'.started = row.started
        /\ row'.verifiedOn = row.verifiedOn BY <1>1, <2>1 DEF RowRec
  <2>4. WorkStart(row') = WorkStart(row) BY <2>3 DEF WorkStart
  <2>5. (LoadedStands /\ OneHolds)' BY <2>2, HeldIdle
  <2> QED  BY <1>0, <2>2, <2>3, <2>4, <2>5 DEF FxInv, KeptOut, Tried, ClaimIsChecked, ImpactClean, Measured
<1>11. CASE LoadForSync
  <2>1. UNCHANGED <<method, row, snaps, tries, again>> /\ fw' = [fw EXCEPT !["sync"] = [pc |-> "look", old |-> row, at |-> crawl.no]]
        /\ Unloaded /\ row.status # "ignored" BY <1>11 DEF LoadForSync, Passed
  <2>2. (LoadedStands /\ OneHolds)' BY <1>1, <1>2, <2>1 DEF Checkers, LoadedStands, OneHolds, Unloaded, Loading
  <2> QED  BY <1>0, <2>1, <2>2, RowKept DEF FxInv
<1>12. CASE \E c \in Checker : Apply(c) BY <1>12, ApplyKeeps
<1>13. ASSUME NEW c \in Checker, CaptureVerified(c) PROVE FxInv'
  <2>1. (KeptOut /\ Tried /\ ClaimIsChecked /\ ImpactClean /\ Measured)'
    BY <1>13, SnapshotsKeep DEF CaptureVerified, Period
  <2>2. (LoadedStands /\ OneHolds)' BY <1>1, <1>13, RestingTyped DEF CaptureVerified, Checkers, LoadedStands, OneHolds, Unloaded, Loading
  <2> QED  BY <1>0, <2>1, <2>2 DEF FxInv
<1>14. ASSUME NEW c \in Checker, CheckerDies(c) PROVE FxInv'
  <2>1. UNCHANGED <<method, row, snaps, tries, again>> BY <1>14 DEF CheckerDies
  <2>2. (LoadedStands /\ OneHolds)' BY <1>1, <1>14, RestingTyped DEF FxInv, CheckerDies, Checkers, LoadedStands, OneHolds, Loading
  <2> QED  BY <1>0, <2>1, <2>2, RowKept DEF FxInv
<1>16. CASE NextDay
  <2>1. UNCHANGED <<method, row, snaps, tries, again, fw>> BY <1>16 DEF NextDay
  <2>2. (LoadedStands /\ OneHolds)' BY <2>1 DEF FxInv, LoadedStands, OneHolds, Loading
  <2> QED  BY <1>0, <2>1, <2>2, RowKept DEF FxInv
<1> QED  BY <1>3, <1>4, <1>5, <1>6, <1>7, <1>8, <1>10, <1>11, <1>12, <1>13, <1>14, <1>16
      DEF FxNext, Rechecks, Crawls

\* It holds at the start.
LEMMA FxInvInit == FxInit => FxInv
<1> SUFFICES ASSUME FxInit PROVE FxInv OBVIOUS
<1>1. FxTypes BY FxInitTypes
<1>2. \A c \in Checker : ~ Loading(c) BY RestingTyped DEF FxInit, Loading
<1>3. snaps.before.status = "none" /\ snaps.after.status = "none" BY DEF FxInit, NoWindow
<1>4. row.status = "new" /\ row.unable = 0 /\ tries = 0 BY DEF FxInit
<1> QED  BY <1>1, <1>2, <1>3, <1>4 DEF FxInv, LoadedStands, OneHolds, KeptOut, Tried, ClaimIsChecked, ImpactClean, Measured

\* So it holds always.
LEMMA FxAlways == ASSUME "load" \in FxTimely PROVE FxSpec => []FxInv
<1>1. FxInv /\ [FxNext]_fxVars => FxInv'
  <2> SUFFICES ASSUME FxInv, UNCHANGED fxVars PROVE FxInv' BY FxInvNext
  <2>1. UNCHANGED <<method, row, crawl, snaps, fw, today, version, tries, again>> BY DEF fxVars
  <2> QED  BY <2>1, RowKept DEF FxInv, FxTypes, Loading, LoadedStands, OneHolds
<1> QED  BY <1>1, FxInvInit, PTL DEF FxSpec

(***************************************************************************)
(* The rows of recommended fixes, their windows and the checkers are well  *)
(* typed however the requests, the captures and the re-checks overlap.     *)
(***************************************************************************)
THEOREM FxTyped == FxSpec => []FxTypeOK
<1>1. FxTypes /\ [FxNext]_fxVars => FxTypes'
  <2> SUFFICES ASSUME FxTypes, UNCHANGED fxVars PROVE FxTypes' BY FxTypesNext
  <2>1. UNCHANGED <<method, row, crawl, snaps, fw, today, version, tries, again>> BY DEF fxVars
  <2> QED  BY <2>1 DEF FxTypes, Loading
<1> QED  BY <1>1, FxInitTypes, FxTypeCorrect, PTL DEF FxSpec

(***************************************************************************)
(* For any limits and backoffs: a claimed fix that a page check can decide *)
(* has a check scheduled until its owner cancels it or as many attempts as *)
(* there are backoffs decided nothing, and no window of its impact mixes   *)
(* days before and after the work, provided nobody writes the row between  *)
(* a checker's load and its write (optimization.py, apply_op and           *)
(* apply_result; fix_impact.py, capture).                                  *)
(***************************************************************************)
THEOREM FixesChecked == ASSUME "load" \in FxTimely PROVE FxSpec => []FixesSound
<1>1. FxInv => FixesSound BY DEF FxInv, FixesSound
<1> QED  BY <1>1, FxAlways, PTL

\* The captures leave the row's status and its due day alone.
LEMMA SnapshotsOut ==
  ASSUME FxTypes, Capture(row, Period) \/ (row' = [row EXCEPT !.snapDue = In(1)] /\ UNCHANGED snaps)
  PROVE  row'.status = row.status /\ row'.due = row.due
<1>1. row \in RowRec /\ Period \in SUBSET Period BY DEF FxTypes
<1>2. Capture(row, Period) \/ Resched(row, row') BY <1>1, PutOff, Days
<1>3. Resched(row, row') BY <1>1, <1>2, Captures
<1> QED  BY <1>1, <1>3, RescheduledTyped

(***************************************************************************)
(* A recommendation that is ignored stays ignored until a person takes it  *)
(* up again: no check that was under way brings it back or schedules       *)
(* another, provided nobody writes the row between a checker's load and    *)
(* its write (optimization.py, apply_op: ignore).                          *)
(***************************************************************************)
THEOREM IgnoredOut == ASSUME "load" \in FxTimely PROVE FxSpec => IgnoredStays
<1>1. FxInv /\ [FxNext]_fxVars => [(row.status = "ignored" /\ ~ Reopen) => row'.status = "ignored" /\ row'.due = row.due]_fxVars
  <2> SUFFICES ASSUME FxInv, FxNext, row.status = "ignored", ~ Reopen PROVE row'.status = "ignored" /\ row'.due = row.due
    OBVIOUS
  <2>1. row.due = Never /\ \A c \in Checker : ~ Loading(c) BY DEF FxInv, KeptOut, LoadedStands
  <2>2. ~ StartWork /\ ~ Claim /\ ~ AskRecheck /\ ~ CancelRecheck /\ ~ Ignore
    BY <2>1 DEF StartWork, Claim, AskRecheck, CancelRecheck, Ignore, Undone
  <2>3. ~ Postpone /\ ~ LoadDue /\ ~ Rebaseline /\ ~ LoadForSync /\ ~ CheckRaises /\ \A c \in Checker : ~ Apply(c)
    BY <2>1 DEF Postpone, LoadDue, DueNow, Rebaseline, LoadForSync, Passed, CheckRaises, Checker, Apply, Loading
  <2>4. DueSnapshots => row'.status = row.status /\ row'.due = row.due
    BY SnapshotsOut DEF DueSnapshots, Period, FxInv
  <2>5. ASSUME NEW c \in Checker, CaptureVerified(c) PROVE row'.status = row.status /\ row'.due = row.due
    BY <2>5, SnapshotsOut DEF CaptureVerified, Period, FxInv
  <2>6. TakeCrawl \/ SkipSync \/ Upgrade \/ NextDay \/ (\E c \in Checker : CheckerDies(c)) => row' = row
    BY DEF TakeCrawl, SkipSync, Upgrade, NextDay, CheckerDies
  <2> QED  BY <2>2, <2>3, <2>4, <2>5, <2>6 DEF FxNext, People, Rechecks, Crawls
<1> QED  BY <1>1, FxAlways, PTL DEF FxSpec, IgnoredStays

----------------------------------------------------------------------------
(***************************************************************************)
(* Reports and share links (Reports)                                       *)
(***************************************************************************)

\* The steps of a caller, and the rows
Pcs == {"idle", "build", "gate", "call", "store", "share"}
Narrations == {"none", "free", "paid"}
Tiers == {"free", "paid"}
ReportRow == [version : Nat, ai : Narrations]
ShareRow == [scan : RScan, live : BOOLEAN, tier : Tiers]
InWork == [pc : Pcs, scan : RScan \union {"none"}, row : Nat, ai : Narrations, tier : Tiers,
         narrate : BOOLEAN, forced : BOOLEAN]

(***************************************************************************)
(* The types of the reports, the share links and the requests in hand,     *)
(* stronger than the model's: what a caller has in hand names a scan.      *)
(***************************************************************************)
RPTypes ==
  /\ rscan \in [RScan -> {"running", "completed", "gone"}]
  /\ reports \in [RScan -> Seq(ReportRow)]
  /\ engine \in Nat
  /\ plan \in [pro : BOOLEAN, bought : SUBSET RScan]
  /\ used \in [month : Nat, today : Nat]
  /\ shares \in Seq(ShareRow)
  /\ rp \in [RPCaller -> InWork]
  /\ \A c \in RPCaller : rp[c].pc # "idle" => rp[c].scan \in RScan
  /\ told \in [plain : [RScan -> Nat], forced : [RScan -> Nat], free : Nat]

\* The steps of one caller, and of everything else
CallerStep(c) ==
  \/ BuildReport(c) \/ Gate(c) \/ Narrate(c) \/ StoreNarrative(c) \/ GiveUp(c) \/ CreateShare(c)
  \/ \E s \in RScan : View(c, s) \/ AskShare(c, s)
OtherStep ==
  \/ \E i \in DOMAIN shares : EndShare(i)
  \/ \E s \in RScan : CompleteRScan(s) \/ DeleteScan(s) \/ BuyReport(s)
  \/ Subscribe \/ NewPeriod \/ Deploy

\* Every step is one of a caller or of something else.
LEMMA RPActs == RPNext <=> (\E c \in RPCaller : CallerStep(c)) \/ OtherStep
BY DEF RPNext, CallerStep, OtherStep

\* A caller may be idle.
LEMMA IdleTyped == RPIdle \in InWork /\ RPIdle.pc = "idle"
BY DEF RPIdle, InWork, Pcs, Narrations, Tiers

\* The types hold at the start.
LEMMA RPInitTypes == RPInit => RPTypes
<1> SUFFICES ASSUME RPInit PROVE RPTypes OBVIOUS
<1>1. rp \in [RPCaller -> InWork] /\ \A c \in RPCaller : rp[c].pc = "idle" BY IdleTyped DEF RPInit
<1>2. reports \in [RScan -> Seq(ReportRow)] /\ shares \in Seq(ShareRow) BY DEF RPInit
<1>3. told \in [plain : [RScan -> Nat], forced : [RScan -> Nat], free : Nat] BY DEF RPInit
<1> QED  BY <1>1, <1>2, <1>3 DEF RPInit, RPTypes

\* The columns of what a caller has in hand
LEMMA BusyColumns ==
  /\ \A r \in InWork : \A p \in Pcs : \A n \in Nat : [r EXCEPT !.pc = p, !.row = n] \in InWork
  /\ \A r \in InWork : \A p \in Pcs : [r EXCEPT !.pc = p] \in InWork
  /\ \A r \in InWork : \A p \in Pcs : \A t \in Tiers : \A f \in BOOLEAN : [r EXCEPT !.pc = p, !.tier = t, !.forced = f] \in InWork
  /\ \A r \in InWork : \A p \in Pcs : \A s \in RScan : \A n \in Nat : \A w \in BOOLEAN : \A a \in Narrations :
       [r EXCEPT !.scan = s, !.row = n, !.narrate = w, !.ai = a, !.pc = p] \in InWork
  /\ \A r \in InWork : \A p \in Pcs : \A s \in RScan : \A t \in Tiers : [r EXCEPT !.pc = p, !.scan = s, !.tier = t] \in InWork
<1> HIDE DEF Pcs, Tiers, Narrations
<1>1. \A r \in InWork : \A p \in Pcs : \A n \in Nat : [r EXCEPT !.pc = p, !.row = n] \in InWork BY DEF InWork
<1>2. \A r \in InWork : \A p \in Pcs : [r EXCEPT !.pc = p] \in InWork BY DEF InWork
<1>3. \A r \in InWork : \A p \in Pcs : \A t \in Tiers : \A f \in BOOLEAN : [r EXCEPT !.pc = p, !.tier = t, !.forced = f] \in InWork
  BY DEF InWork
<1>4. \A r \in InWork : \A p \in Pcs : \A s \in RScan : \A n \in Nat : \A w \in BOOLEAN : \A a \in Narrations :
       [r EXCEPT !.scan = s, !.row = n, !.narrate = w, !.ai = a, !.pc = p] \in InWork BY DEF InWork
<1>5. \A r \in InWork : \A p \in Pcs : \A s \in RScan : \A t \in Tiers : [r EXCEPT !.pc = p, !.scan = s, !.tier = t] \in InWork
  BY DEF InWork
<1> QED  BY <1>1, <1>2, <1>3, <1>4, <1>5

\* What one of them holds in each
LEMMA BusyFields ==
  /\ \A r \in InWork : \A p, n : /\ [r EXCEPT !.pc = p, !.row = n].pc = p /\ [r EXCEPT !.pc = p, !.row = n].row = n
       /\ [r EXCEPT !.pc = p, !.row = n].scan = r.scan /\ [r EXCEPT !.pc = p, !.row = n].ai = r.ai
       /\ [r EXCEPT !.pc = p, !.row = n].tier = r.tier /\ [r EXCEPT !.pc = p, !.row = n].forced = r.forced
  /\ \A r \in InWork : \A p : /\ [r EXCEPT !.pc = p].pc = p /\ [r EXCEPT !.pc = p].row = r.row
       /\ [r EXCEPT !.pc = p].scan = r.scan /\ [r EXCEPT !.pc = p].ai = r.ai
       /\ [r EXCEPT !.pc = p].tier = r.tier /\ [r EXCEPT !.pc = p].forced = r.forced
  /\ \A r \in InWork : \A p, t, f : /\ [r EXCEPT !.pc = p, !.tier = t, !.forced = f].pc = p
       /\ [r EXCEPT !.pc = p, !.tier = t, !.forced = f].row = r.row
       /\ [r EXCEPT !.pc = p, !.tier = t, !.forced = f].scan = r.scan
       /\ [r EXCEPT !.pc = p, !.tier = t, !.forced = f].ai = r.ai
       /\ [r EXCEPT !.pc = p, !.tier = t, !.forced = f].tier = t
       /\ [r EXCEPT !.pc = p, !.tier = t, !.forced = f].forced = f
  /\ \A r \in InWork : \A p, s, t : /\ [r EXCEPT !.pc = p, !.scan = s, !.tier = t].pc = p
       /\ [r EXCEPT !.pc = p, !.scan = s, !.tier = t].scan = s
       /\ [r EXCEPT !.pc = p, !.scan = s, !.tier = t].tier = t
BY DEF InWork

\* The counts of what was told
ToldSet == [plain : [RScan -> Nat], forced : [RScan -> Nat], free : Nat]
\* They stay well typed, one more at a time.
LEMMA ToldColumns ==
  /\ \A t \in ToldSet : \A n \in Nat : [t EXCEPT !.free = n] \in ToldSet /\ [t EXCEPT !.free = n].free = n
       /\ [t EXCEPT !.free = n].plain = t.plain /\ [t EXCEPT !.free = n].forced = t.forced
  /\ \A t \in ToldSet : \A f \in [RScan -> Nat] : [t EXCEPT !.forced = f] \in ToldSet /\ [t EXCEPT !.forced = f].free = t.free
       /\ [t EXCEPT !.forced = f].plain = t.plain /\ [t EXCEPT !.forced = f].forced = f
  /\ \A t \in ToldSet : \A f \in [RScan -> Nat] : [t EXCEPT !.plain = f] \in ToldSet /\ [t EXCEPT !.plain = f].free = t.free
       /\ [t EXCEPT !.plain = f].plain = f /\ [t EXCEPT !.plain = f].forced = t.forced
BY DEF ToldSet

\* A link that is revoked is still a link.
LEMMA ShareColumns == \A x \in ShareRow : \A b \in BOOLEAN : [x EXCEPT !.live = b] \in ShareRow
  /\ [x EXCEPT !.live = b].live = b /\ [x EXCEPT !.live = b].scan = x.scan /\ [x EXCEPT !.live = b].tier = x.tier
BY DEF ShareRow

\* What storing a narrative adds to the history
LEMMA StoredTold ==
  ASSUME RPTypes, NEW c \in RPCaller, rp[c].scan \in RScan, StoreNarrative(c)
  PROVE  LET s == rp[c].scan IN
         /\ told' \in ToldSet /\ told'.free = told.free
         /\ \A x \in RScan : x # s => told'.plain[x] = told.plain[x] /\ told'.forced[x] = told.forced[x]
         /\ rp[c].forced => told'.plain[s] = told.plain[s] /\ told'.forced[s] = told.forced[s] + 1
         /\ ~ rp[c].forced => told'.plain[s] = told.plain[s] + 1 /\ told'.forced[s] = told.forced[s]
<1> DEFINE s == rp[c].scan
           f == [told.forced EXCEPT ![s] = @ + 1]
           p == [told.plain EXCEPT ![s] = @ + 1]
<1>1. told \in ToldSet /\ told.forced \in [RScan -> Nat] /\ told.plain \in [RScan -> Nat] BY DEF RPTypes, ToldSet
<1>2. f \in [RScan -> Nat] /\ f[s] = told.forced[s] + 1 /\ \A x \in RScan : x # s => f[x] = told.forced[x] BY <1>1
<1>3. p \in [RScan -> Nat] /\ p[s] = told.plain[s] + 1 /\ \A x \in RScan : x # s => p[x] = told.plain[x] BY <1>1
<1>4. told' = IF rp[c].forced THEN [told EXCEPT !.forced = f] ELSE [told EXCEPT !.plain = p] BY DEF StoreNarrative
<1> HIDE DEF f, p
<1> QED  BY <1>1, <1>2, <1>3, <1>4, ToldColumns

\* What a report may be stored over
LEMMA PersistedIs ==
  ASSUME RPTypes, NEW s \in RScan, NEW over \in Nat, NEW a \in Narrations
  PROVE  /\ Persisted(s, over, a) \in [RScan -> Seq(ReportRow)]
         /\ \A x \in RScan : x # s => Persisted(s, over, a)[x] = reports[x]
         /\ over = 0 => /\ Len(Persisted(s, over, a)[s]) = Len(reports[s]) + 1
                       /\ Persisted(s, over, a)[s][Len(reports[s]) + 1] = [version |-> engine, ai |-> a]
                       /\ \A i \in 1 .. Len(reports[s]) : Persisted(s, over, a)[s][i] = reports[s][i]
         /\ over \in 1 .. Len(reports[s]) =>
                       /\ Len(Persisted(s, over, a)[s]) = Len(reports[s])
                       /\ Persisted(s, over, a)[s][over] = [version |-> engine, ai |-> a]
                       /\ \A i \in 1 .. Len(reports[s]) : i # over => Persisted(s, over, a)[s][i] = reports[s][i]
         /\ over > Len(reports[s]) => Persisted(s, over, a) = reports
<1> DEFINE r == [version |-> engine, ai |-> a]
<1>1. r \in ReportRow BY DEF RPTypes, ReportRow
<1>2. reports[s] \in Seq(ReportRow) /\ Len(reports[s]) \in Nat /\ DOMAIN reports[s] = 1 .. Len(reports[s]) BY DEF RPTypes
<1> HIDE DEF r
<1>3. CASE over = 0
  <2>1. Persisted(s, over, a) = [reports EXCEPT ![s] = Append(reports[s], r)] BY <1>3 DEF Persisted, r
  <2>2. /\ Append(reports[s], r) \in Seq(ReportRow) /\ Len(Append(reports[s], r)) = Len(reports[s]) + 1
        /\ \A i \in 1 .. Len(reports[s]) : Append(reports[s], r)[i] = reports[s][i]
        /\ Append(reports[s], r)[Len(reports[s]) + 1] = r BY <1>1, <1>2, AppendProperties
  <2>3. Persisted(s, over, a)[s] = Append(reports[s], r) /\ \A x \in RScan : x # s => Persisted(s, over, a)[x] = reports[x]
    BY <2>1 DEF RPTypes
  <2>4. Persisted(s, over, a) \in [RScan -> Seq(ReportRow)] BY <2>1, <2>2 DEF RPTypes
  <2> QED  BY <1>2, <1>3, <2>2, <2>3, <2>4 DEF r
<1>4. CASE over \in 1 .. Len(reports[s])
  <2>1. Persisted(s, over, a) = [reports EXCEPT ![s] = [reports[s] EXCEPT ![over] = r]] BY <1>2, <1>4 DEF Persisted, r
  <2> DEFINE q == [reports[s] EXCEPT ![over] = r]
  <2>2. /\ q \in Seq(ReportRow) /\ Len(q) = Len(reports[s])
        /\ \A i \in 1 .. Len(reports[s]) : q[i] = IF i = over THEN r ELSE reports[s][i]
    BY <1>1, <1>2, <1>4, ExceptSeq
  <2> HIDE DEF q
  <2>3. Persisted(s, over, a)[s] = q /\ \A x \in RScan : x # s => Persisted(s, over, a)[x] = reports[x]
    BY <2>1 DEF RPTypes, q
  <2>4. Persisted(s, over, a) \in [RScan -> Seq(ReportRow)] BY <2>1, <2>2 DEF RPTypes, q
  <2> QED  BY <1>2, <1>4, <2>2, <2>3, <2>4 DEF r
<1>5. CASE over > Len(reports[s])
  <2>1. Persisted(s, over, a) = reports BY <1>2, <1>5 DEF Persisted
  <2>2. over # 0 /\ over \notin 1 .. Len(reports[s]) BY <1>2, <1>5
  <2>3. reports \in [RScan -> Seq(ReportRow)] BY DEF RPTypes
  <2>4. Persisted(s, over, a) \in [RScan -> Seq(ReportRow)] /\ \A x \in RScan : Persisted(s, over, a)[x] = reports[x] BY <2>1, <2>3
  <2> QED  BY <2>1, <2>2, <2>4
<1> QED  BY <1>2, <1>3, <1>4, <1>5

\* Storing the report of one scan leaves the others.
LEMMA PersistedElsewhere ==
  ASSUME RPTypes, NEW s \in RScan, NEW over \in Nat, NEW a \in Narrations, NEW x \in RScan, x # s
  PROVE  Persisted(s, over, a)[x] = reports[x]
BY DEF Persisted, RPTypes

\* A report stored over a row replaces it and no other.
LEMMA PersistedOver ==
  ASSUME RPTypes, NEW s \in RScan, NEW over \in Nat, NEW a \in Narrations, over \in 1 .. Len(reports[s])
  PROVE  /\ Len(Persisted(s, over, a)[s]) = Len(reports[s])
         /\ Persisted(s, over, a)[s][over] = [version |-> engine, ai |-> a]
         /\ \A i \in 1 .. Len(reports[s]) : i # over => Persisted(s, over, a)[s][i] = reports[s][i]
BY PersistedIs

\* The last report of a scan is a report.
LEMMA LastTyped == ASSUME RPTypes, NEW s \in RScan, Len(reports[s]) > 0 PROVE reports[s][Len(reports[s])] \in ReportRow
<1>1. reports[s] \in Seq(ReportRow) /\ Len(reports[s]) \in Nat BY DEF RPTypes
<1> QED  BY <1>1

\* What a step of a caller leaves behind
Moved(c, to) == rp' = [rp EXCEPT ![c] = to]
\* A caller that moves keeps the callers well typed.
LEMMA MovedTyped == ASSUME RPTypes, NEW c \in RPCaller, NEW to \in InWork, to.pc # "idle" => to.scan \in RScan, Moved(c, to)
  PROVE rp' \in [RPCaller -> InWork] /\ \A d \in RPCaller : rp'[d].pc # "idle" => rp'[d].scan \in RScan
BY DEF RPTypes, Moved

\* What a view may go on with
Viewed(c, s, to) ==
  /\ Moved(c, to) /\ rp[c].pc = "idle" /\ to.scan = s /\ to.row = Len(reports[s])
  /\ to.pc \in {"idle", "build", "gate"} /\ to.tier = "free" /\ to.forced = FALSE
  /\ LET n == Len(reports[s])
         hit == n > 0 /\ reports[s][n].version = engine IN
     /\ (hit <=> to.pc # "build")
     /\ to.ai = IF hit THEN reports[s][n].ai ELSE "none"

\* A view goes on with one of those.
LEMMA ViewMoves == ASSUME RPTypes, NEW c \in RPCaller, NEW s \in RScan, View(c, s)
  PROVE \E to \in InWork : Viewed(c, s, to)
<1> DEFINE n == Len(reports[s])
           hit == n > 0 /\ reports[s][n].version = engine
           ai == IF hit THEN reports[s][n].ai ELSE "none"
<1>1. PICK narrate \in BOOLEAN :
        Step(c, "idle", [RPIdle EXCEPT !.scan = s, !.row = n, !.narrate = narrate, !.ai = ai,
                          !.pc = IF ~hit THEN "build" ELSE IF narrate THEN "gate" ELSE "idle"])
  BY DEF View
<1> DEFINE pc == IF ~hit THEN "build" ELSE IF narrate THEN "gate" ELSE "idle"
           to == [RPIdle EXCEPT !.scan = s, !.row = n, !.narrate = narrate, !.ai = ai, !.pc = pc]
<1>2. n \in Nat /\ (hit => reports[s][n] \in ReportRow) BY LastTyped DEF RPTypes
<1>3. ai \in Narrations BY <1>2 DEF ReportRow, Narrations
<1>4. pc \in Pcs /\ pc \in {"idle", "build", "gate"} /\ (hit <=> pc # "build") BY DEF Pcs
<1>5. Moved(c, to) /\ rp[c].pc = "idle" BY <1>1 DEF Step, Moved
<1>6. to \in InWork /\ to.scan = s /\ to.row = n /\ to.ai = ai /\ to.pc = pc /\ to.tier = "free" /\ to.forced = FALSE
  <2> HIDE DEF n, ai, pc
  <2> QED  BY <1>2, <1>3, <1>4, IdleTyped, BusyColumns DEF RPIdle
<1> HIDE DEF to, pc, ai
<1>7. ai = IF hit THEN reports[s][n].ai ELSE "none" BY DEF ai
<1>8. Viewed(c, s, to) BY <1>4, <1>5, <1>6, <1>7 DEF Viewed
<1> QED  BY <1>6, <1>8

\* So does what passes the gate of the narratives.
LEMMA GateMoves == ASSUME RPTypes, NEW c \in RPCaller, Gate(c)
  PROVE /\ rp[c].pc = "gate"
        /\ \/ Moved(c, RPIdle)
           \/ \E tier \in Tiers : \E forced \in BOOLEAN :
                /\ Moved(c, [rp[c] EXCEPT !.pc = "call", !.tier = tier, !.forced = forced])
                /\ forced \/ rp[c].ai = "none" \/ (tier = "paid" /\ rp[c].ai = "free")
                /\ used.today < DailyAll /\ (tier = "free" => used.month < MonthlyFree)
<1> DEFINE tier == IF Unlocked(rp[c].scan) THEN "paid" ELSE "free"
           upgrade == tier = "paid" /\ rp[c].ai = "free"
<1>1. PICK forced, verified \in BOOLEAN :
       Step(c, "gate",
         IF (forced \/ rp[c].ai = "none" \/ upgrade) /\ Affordable(tier, verified)
           THEN [rp[c] EXCEPT !.pc = "call", !.tier = tier, !.forced = forced] ELSE RPIdle)
  BY DEF Gate
<1>2. tier \in Tiers BY DEF Tiers
<1> HIDE DEF tier
<1> QED  BY <1>1, <1>2 DEF Step, Moved, Affordable

\* A move of a caller keeps the types.
LEMMA MoveTyped == ASSUME RPTypes, NEW c \in RPCaller, rp[c].pc # "idle"
  PROVE /\ rp[c] \in InWork /\ rp[c].scan \in RScan
        /\ \A p \in Pcs : \A n \in Nat : [rp[c] EXCEPT !.pc = p, !.row = n] \in InWork
                                     /\ [rp[c] EXCEPT !.pc = p, !.row = n].scan = rp[c].scan
        /\ \A p \in Pcs : [rp[c] EXCEPT !.pc = p] \in InWork /\ [rp[c] EXCEPT !.pc = p].scan = rp[c].scan
        /\ \A t \in Tiers : \A f \in BOOLEAN :
             [rp[c] EXCEPT !.pc = "call", !.tier = t, !.forced = f] \in InWork
             /\ [rp[c] EXCEPT !.pc = "call", !.tier = t, !.forced = f].scan = rp[c].scan
<1>1. rp[c] \in InWork /\ rp[c].scan \in RScan BY DEF RPTypes
<1>2. "call" \in Pcs BY DEF Pcs
<1>3. \A p \in Pcs : \A n \in Nat : [rp[c] EXCEPT !.pc = p, !.row = n] \in InWork BY <1>1, BusyColumns
<1>4. \A p, n : [rp[c] EXCEPT !.pc = p, !.row = n].scan = rp[c].scan BY <1>1, BusyFields
<1>5. \A p \in Pcs : [rp[c] EXCEPT !.pc = p] \in InWork BY <1>1, BusyColumns
<1>6. \A p : [rp[c] EXCEPT !.pc = p].scan = rp[c].scan BY <1>1, BusyFields
<1>7. \A t \in Tiers : \A f \in BOOLEAN : [rp[c] EXCEPT !.pc = "call", !.tier = t, !.forced = f] \in InWork
  BY <1>1, <1>2, BusyColumns
<1>8. \A t, f : [rp[c] EXCEPT !.pc = "call", !.tier = t, !.forced = f].scan = rp[c].scan BY <1>1, BusyFields
<1> QED  BY <1>1, <1>3, <1>4, <1>5, <1>6, <1>7, <1>8

\* What holds of the rest of the state when only the callers and what a step names have changed
LEMMA CallerTyped == ASSUME RPTypes, NEW c \in RPCaller, CallerStep(c) PROVE RPTypes'
<1>1. CASE BuildReport(c)
  <2> DEFINE s == rp[c].scan
             over == IF rp[c].row = 0 THEN Len(reports[s]) + 1 ELSE rp[c].row
             pc == IF rp[c].narrate THEN "gate" ELSE "idle"
  <2>1. rp[c].pc = "build" /\ Moved(c, [rp[c] EXCEPT !.pc = pc, !.row = over])
        /\ reports' = Persisted(s, rp[c].row, "none") /\ UNCHANGED <<rscan, engine, plan, used, shares, rpops, told>>
    BY <1>1 DEF BuildReport, Step, Moved
  <2>2. rp[c] \in InWork /\ s \in RScan BY <2>1, MoveTyped
  <2>3. rp[c].row \in Nat BY <2>2 DEF InWork
  <2>4. Len(reports[s]) \in Nat BY <2>2 DEF RPTypes
  <2>5. over \in Nat /\ pc \in Pcs /\ "none" \in Narrations BY <2>3, <2>4 DEF Pcs, Narrations
  <2>6. reports' \in [RScan -> Seq(ReportRow)] BY <2>1, <2>2, <2>3, <2>5, PersistedIs
  <2> HIDE DEF over, pc
  <2>7. rp' \in [RPCaller -> InWork] /\ \A d \in RPCaller : rp'[d].pc # "idle" => rp'[d].scan \in RScan
    BY <2>1, <2>5, MoveTyped, MovedTyped
  <2> QED  BY <2>1, <2>6, <2>7 DEF RPTypes
<1>2. CASE Gate(c)
  <2>1. rp' \in [RPCaller -> InWork] /\ \A d \in RPCaller : rp'[d].pc # "idle" => rp'[d].scan \in RScan
    <3>1. rp[c].pc # "idle" BY <1>2, GateMoves
    <3>2. CASE Moved(c, RPIdle) BY <3>2, IdleTyped, MovedTyped
    <3>3. ASSUME NEW t \in Tiers, NEW f \in BOOLEAN, Moved(c, [rp[c] EXCEPT !.pc = "call", !.tier = t, !.forced = f])
          PROVE rp' \in [RPCaller -> InWork] /\ \A d \in RPCaller : rp'[d].pc # "idle" => rp'[d].scan \in RScan
      BY <3>1, <3>3, MoveTyped, MovedTyped
    <3> QED  BY <1>2, <3>2, <3>3, GateMoves
  <2> QED  BY <1>2, <2>1 DEF Gate, RPTypes
<1>3. CASE Narrate(c)
  <2>1. rp[c].pc = "call" /\ Moved(c, [rp[c] EXCEPT !.pc = "store"]) BY <1>3 DEF Narrate, Step, Moved
  <2>2. rp' \in [RPCaller -> InWork] /\ \A d \in RPCaller : rp'[d].pc # "idle" => rp'[d].scan \in RScan
    BY <2>1, MoveTyped, MovedTyped DEF Pcs
  <2>3. used' \in [month : Nat, today : Nat] BY <1>3 DEF Narrate, RPTypes
  <2>4. told' \in [plain : [RScan -> Nat], forced : [RScan -> Nat], free : Nat]
    <3>1. told \in ToldSet /\ told.free + 1 \in Nat BY DEF RPTypes, ToldSet
    <3>2. told' = told \/ told' = [told EXCEPT !.free = told.free + 1] BY <1>3 DEF Narrate
    <3>3. told' \in ToldSet BY <3>1, <3>2, ToldColumns
    <3> QED  BY <3>3 DEF ToldSet
  <2> QED  BY <1>3, <2>2, <2>3, <2>4 DEF Narrate, RPTypes
<1>4. CASE StoreNarrative(c)
  <2> DEFINE s == rp[c].scan
  <2>1. rp[c].pc = "store" /\ Moved(c, RPIdle) /\ reports' = Persisted(s, rp[c].row, rp[c].tier)
    BY <1>4 DEF StoreNarrative, Step, Moved
  <2>2. rp[c] \in InWork /\ s \in RScan BY <2>1, MoveTyped
  <2>3. rp' \in [RPCaller -> InWork] /\ \A d \in RPCaller : rp'[d].pc # "idle" => rp'[d].scan \in RScan
    BY <2>1, IdleTyped, MovedTyped
  <2>4. rp[c].row \in Nat /\ rp[c].tier \in Narrations BY <2>2 DEF InWork, Tiers, Narrations
  <2>5. reports' \in [RScan -> Seq(ReportRow)] BY <2>1, <2>2, <2>4, PersistedIs
  <2>6. told' \in [plain : [RScan -> Nat], forced : [RScan -> Nat], free : Nat]
    <3>1. told' \in ToldSet BY <1>4, <2>2, StoredTold DEF StoreNarrative
    <3> QED  BY <3>1 DEF ToldSet
  <2> QED  BY <1>4, <2>3, <2>5, <2>6 DEF StoreNarrative, RPTypes
<1>5. CASE GiveUp(c)
  <2>1. rp' \in [RPCaller -> InWork] /\ \A d \in RPCaller : rp'[d].pc # "idle" => rp'[d].scan \in RScan
    BY <1>5, IdleTyped, MovedTyped DEF GiveUp, Moved
  <2> QED  BY <1>5, <2>1 DEF GiveUp, RPTypes
<1>6. CASE CreateShare(c)
  <2>1. rp[c].pc = "share" /\ Moved(c, RPIdle) /\ shares' = Append(shares, [scan |-> rp[c].scan, live |-> TRUE, tier |-> rp[c].tier])
    BY <1>6 DEF CreateShare, Step, Moved
  <2>2. rp' \in [RPCaller -> InWork] /\ \A d \in RPCaller : rp'[d].pc # "idle" => rp'[d].scan \in RScan
    BY <2>1, IdleTyped, MovedTyped
  <2>3. [scan |-> rp[c].scan, live |-> TRUE, tier |-> rp[c].tier] \in ShareRow BY <2>1, MoveTyped DEF ShareRow, InWork
  <2>4. shares' \in Seq(ShareRow) BY <2>1, <2>3, AppendProperties DEF RPTypes
  <2> QED  BY <1>6, <2>2, <2>4 DEF CreateShare, RPTypes
<1>7. ASSUME NEW s \in RScan, View(c, s) PROVE RPTypes'
  <2>0. PICK to \in InWork : Viewed(c, s, to) BY <1>7, ViewMoves
  <2>1. Moved(c, to) /\ to.scan = s BY <2>0 DEF Viewed
  <2>2. rp' \in [RPCaller -> InWork] /\ \A d \in RPCaller : rp'[d].pc # "idle" => rp'[d].scan \in RScan
    BY <2>1, MovedTyped
  <2> QED  BY <1>7, <2>2 DEF View, RPTypes
<1>8. ASSUME NEW s \in RScan, AskShare(c, s) PROVE RPTypes'
  <2> DEFINE tier == IF plan.pro THEN "paid" ELSE "free"
  <2>1. Moved(c, [RPIdle EXCEPT !.pc = "share", !.scan = s, !.tier = tier]) BY <1>8 DEF AskShare, Step, Moved
  <2>2. tier \in Tiers /\ "share" \in Pcs BY DEF Tiers, Pcs
  <2> HIDE DEF tier
  <2>3. [RPIdle EXCEPT !.pc = "share", !.scan = s, !.tier = tier] \in InWork BY <2>2, IdleTyped, BusyColumns
  <2>5. [RPIdle EXCEPT !.pc = "share", !.scan = s, !.tier = tier].scan = s BY IdleTyped, BusyFields
  <2>4. rp' \in [RPCaller -> InWork] /\ \A d \in RPCaller : rp'[d].pc # "idle" => rp'[d].scan \in RScan
    BY <2>1, <2>3, <2>5, MovedTyped
  <2> QED  BY <1>8, <2>4 DEF AskShare, RPTypes
<1> QED  BY <1>1, <1>2, <1>3, <1>4, <1>5, <1>6, <1>7, <1>8 DEF CallerStep

\* So does everything that is not a caller's.
LEMMA OtherTyped == ASSUME RPTypes, OtherStep PROVE RPTypes'
<1>1. ASSUME NEW i \in DOMAIN shares, EndShare(i) PROVE RPTypes'
  <2>1. shares \in Seq(ShareRow) /\ i \in 1 .. Len(shares) BY <1>1 DEF RPTypes
  <2>0. shares[i] \in ShareRow BY <2>1
  <2>2. [shares[i] EXCEPT !.live = FALSE] \in ShareRow BY <2>0, ShareColumns
  <2>3. shares' = [shares EXCEPT ![i] = [shares[i] EXCEPT !.live = FALSE]] BY <1>1 DEF EndShare
  <2>4. shares' \in Seq(ShareRow) BY <2>1, <2>2, <2>3, ExceptSeq
  <2> QED  BY <1>1, <2>4 DEF EndShare, RPTypes
<1>2. ASSUME NEW s \in RScan, CompleteRScan(s) PROVE RPTypes' BY <1>2 DEF CompleteRScan, RPTypes
<1>3. ASSUME NEW s \in RScan, DeleteScan(s) PROVE RPTypes'
  <2>1. shares \in Seq(ShareRow) /\ Len(shares) \in Nat /\ DOMAIN shares = 1 .. Len(shares) BY DEF RPTypes
  <2>2. \A i \in 1 .. Len(shares) : [shares[i] EXCEPT !.live = @ /\ shares[i].scan # s] \in ShareRow
    <3> SUFFICES ASSUME NEW i \in 1 .. Len(shares) PROVE [shares[i] EXCEPT !.live = shares[i].live /\ shares[i].scan # s] \in ShareRow
      OBVIOUS
    <3>1. shares[i] \in ShareRow BY <2>1
    <3>2. (shares[i].live /\ shares[i].scan # s) \in BOOLEAN OBVIOUS
    <3> QED  BY <3>1, <3>2, ShareColumns
  <2>3. shares' = [i \in 1 .. Len(shares) |-> [shares[i] EXCEPT !.live = @ /\ shares[i].scan # s]] BY <1>3, <2>1 DEF DeleteScan
  <2>4. shares' \in Seq(ShareRow) BY <2>1, <2>2, <2>3
  <2>5. reports' \in [RScan -> Seq(ReportRow)] /\ rscan' \in [RScan -> {"running", "completed", "gone"}]
    BY <1>3 DEF DeleteScan, RPTypes
  <2> QED  BY <1>3, <2>4, <2>5 DEF DeleteScan, RPTypes
<1>4. ASSUME NEW s \in RScan, BuyReport(s) PROVE RPTypes' BY <1>4 DEF BuyReport, RPTypes
<1>5. CASE Subscribe BY <1>5 DEF Subscribe, RPTypes
<1>6. CASE NewPeriod
  <2>1. used' \in [month : Nat, today : Nat] BY <1>6 DEF NewPeriod, RPTypes
  <2>2. told' \in [plain : [RScan -> Nat], forced : [RScan -> Nat], free : Nat] BY <1>6 DEF NewPeriod, RPTypes
  <2> QED  BY <1>6, <2>1, <2>2 DEF NewPeriod, RPTypes
<1>7. CASE Deploy
  <2>1. rp' \in [RPCaller -> InWork] /\ \A d \in RPCaller : rp'[d].pc = "idle" BY <1>7, IdleTyped DEF Deploy
  <2>2. told' \in [plain : [RScan -> Nat], forced : [RScan -> Nat], free : Nat] BY <1>7 DEF Deploy, RPTypes
  <2>3. engine' \in Nat BY <1>7 DEF Deploy, RPTypes
  <2> QED  BY <1>7, <2>1, <2>2, <2>3 DEF Deploy, RPTypes
<1> QED  BY <1>1, <1>2, <1>3, <1>4, <1>5, <1>6, <1>7 DEF OtherStep

\* Every step keeps the types.
LEMMA RPTypesNext == ASSUME RPTypes, [RPNext]_rpVars PROVE RPTypes'
<1>1. CASE UNCHANGED rpVars BY <1>1 DEF rpVars, RPTypes
<1> QED  BY <1>1, RPActs, CallerTyped, OtherTyped

----------------------------------------------------------------------------

\* The callers, those in a call of the model provider, and those about to share
Callers == Cardinality(RPCaller)
InCall == {c \in RPCaller : rp[c].pc = "call"}
FreeCalls == {c \in RPCaller : rp[c].pc = "call" /\ rp[c].tier = "free"}
Sharers == {c \in RPCaller : rp[c].pc = "share" /\ rp[c].tier = "free"}
Linked == {i \in ActiveShares : shares[i].tier = "free"}

(***************************************************************************)
(* The inductive invariant of the caps: what has been told and the callers *)
(* that are in a call exceed a cap by no more than the other callers       *)
(* (reports/service.py, _ai_narrative, counts before the call and records  *)
(* after it).                                                              *)
(***************************************************************************)
CapInv ==
  /\ RPTypes
  /\ used.today + Cardinality(InCall) <= DailyAll + Callers - 1
  /\ told.free + Cardinality(FreeCalls) <= MonthlyFree + Callers - 1
  /\ told.free <= used.month
\* So do the links made without a plan and the requests about to add one.
LinkInv == Cardinality(Linked) + Cardinality(Sharers) <= FreeShares + Callers - 1

\* What the assumption says of the bounds
LEMMA Numbers == /\ Callers \in Nat /\ MonthlyFree \in Nat \ {0} /\ DailyAll \in Nat \ {0} /\ FreeShares \in Nat \ {0}
                 /\ \A S \in SUBSET RPCaller : IsFiniteSet(S) /\ Cardinality(S) \in Nat /\ Cardinality(S) <= Callers
                 /\ \A S, T \in SUBSET RPCaller : S \subseteq T => Cardinality(S) <= Cardinality(T)
                 /\ \A S, T \in SUBSET RPCaller : \A c \in T : S \subseteq T \ {c} => Cardinality(S) <= Cardinality(T) - 1
<1>1. IsFiniteSet(RPCaller) /\ Callers \in Nat BY ReportsAssumption, FS_CardinalityType DEF Callers
<1>2. \A S \in SUBSET RPCaller : IsFiniteSet(S) /\ Cardinality(S) \in Nat /\ Cardinality(S) <= Callers
  BY <1>1, FS_Subset, FS_CardinalityType DEF Callers
<1>3. \A S, T \in SUBSET RPCaller : S \subseteq T => Cardinality(S) <= Cardinality(T)
  BY <1>2, FS_Subset
<1>4. ASSUME NEW S \in SUBSET RPCaller, NEW T \in SUBSET RPCaller, NEW c \in T, S \subseteq T \ {c}
      PROVE Cardinality(S) <= Cardinality(T) - 1
  <2>1. IsFiniteSet(T \ {c}) /\ Cardinality(T \ {c}) = Cardinality(T) - 1 BY <1>2, FS_RemoveElement
  <2>2. T \ {c} \in SUBSET RPCaller OBVIOUS
  <2> QED  BY <1>3, <1>4, <2>1, <2>2
<1> QED  BY <1>1, <1>2, <1>3, <1>4, ReportsAssumption

\* A step that begins no call and changes no count
LEMMA CapQuiet ==
  ASSUME CapInv, RPTypes', used' = used, told'.free = told.free,
         InCall' \subseteq InCall, FreeCalls' \subseteq FreeCalls
  PROVE  CapInv'
<1>1. InCall \in SUBSET RPCaller /\ InCall' \in SUBSET RPCaller /\ FreeCalls \in SUBSET RPCaller /\ FreeCalls' \in SUBSET RPCaller
  BY DEF InCall, FreeCalls
<1>2. Cardinality(InCall') <= Cardinality(InCall) /\ Cardinality(FreeCalls') <= Cardinality(FreeCalls) BY <1>1, Numbers
<1>3. Cardinality(InCall) \in Nat /\ Cardinality(FreeCalls) \in Nat /\ Cardinality(InCall') \in Nat /\ Cardinality(FreeCalls') \in Nat
  BY <1>1, Numbers
<1>4. used.today \in Nat /\ told.free \in Nat /\ Callers \in Nat /\ DailyAll \in Nat /\ MonthlyFree \in Nat BY Numbers DEF CapInv, RPTypes
<1> HIDE DEF InCall, FreeCalls
<1>5. used'.today + Cardinality(InCall') <= DailyAll + Callers - 1 BY <1>2, <1>3, <1>4 DEF CapInv
<1>6. told'.free + Cardinality(FreeCalls') <= MonthlyFree + Callers - 1 BY <1>2, <1>3, <1>4 DEF CapInv
<1> QED  BY <1>5, <1>6 DEF CapInv

\* A caller that moves on to anything but a call
LEMMA NoCall == ASSUME RPTypes, NEW c \in RPCaller, NEW to \in InWork, Moved(c, to), to.pc # "call"
  PROVE InCall' \subseteq InCall \ {c} /\ FreeCalls' \subseteq FreeCalls \ {c}
BY DEF RPTypes, Moved, InCall, FreeCalls

\* Passing the gate keeps the caps.
LEMMA GateCaps == ASSUME CapInv, NEW c \in RPCaller, Gate(c) PROVE CapInv'
<1>0. RPTypes' BY CallerTyped DEF CapInv, CallerStep
<1>1. UNCHANGED <<used, told>> BY DEF Gate
<1>2. CASE Moved(c, RPIdle)
  <2>1. InCall' \subseteq InCall \ {c} /\ FreeCalls' \subseteq FreeCalls \ {c}
    BY <1>2, IdleTyped, NoCall DEF CapInv
  <2> QED  BY <1>0, <1>1, <2>1, CapQuiet
<1>3. ASSUME NEW tier \in Tiers, NEW forced \in BOOLEAN,
             Moved(c, [rp[c] EXCEPT !.pc = "call", !.tier = tier, !.forced = forced]),
             used.today < DailyAll, tier = "free" => used.month < MonthlyFree
      PROVE CapInv'
  <2>1. rp[c].pc = "gate" /\ rp[c] \in InWork BY GateMoves DEF CapInv, RPTypes
  <2>2. rp'[c].tier = tier /\ \A d \in RPCaller : d # c => rp'[d] = rp[d]
    BY <1>3, <2>1, BusyFields DEF CapInv, RPTypes, Moved
  <2>3. InCall' \in SUBSET RPCaller /\ FreeCalls' \in SUBSET RPCaller /\ FreeCalls \in SUBSET RPCaller BY DEF InCall, FreeCalls
  <2>4. tier # "free" => FreeCalls' \subseteq FreeCalls BY <2>2 DEF FreeCalls
  <2>5. Cardinality(InCall') \in Nat /\ Cardinality(InCall') <= Callers /\ Cardinality(FreeCalls') \in Nat
        /\ Cardinality(FreeCalls') <= Callers /\ Cardinality(FreeCalls) \in Nat BY <2>3, Numbers
  <2>6. tier # "free" => Cardinality(FreeCalls') <= Cardinality(FreeCalls) BY <2>3, <2>4, Numbers
  <2>7. used.today \in Nat /\ used.month \in Nat /\ told.free \in Nat /\ Callers \in Nat /\ DailyAll \in Nat /\ MonthlyFree \in Nat
    BY Numbers DEF CapInv, RPTypes
  <2>8. used.today + Cardinality(InCall') <= DailyAll + Callers - 1 BY <1>3, <2>5, <2>7
  <2>9. told.free + Cardinality(FreeCalls') <= MonthlyFree + Callers - 1
    <3>1. CASE tier = "free" BY <1>3, <2>5, <2>7, <3>1 DEF CapInv
    <3>2. CASE tier # "free" BY <2>5, <2>6, <2>7, <3>2 DEF CapInv
    <3> QED  BY <3>1, <3>2
  <2> QED  BY <1>0, <1>1, <2>8, <2>9 DEF CapInv
<1> QED  BY <1>2, <1>3, GateMoves DEF CapInv

\* So does a call that ends.
LEMMA NarrateCaps == ASSUME CapInv, NEW c \in RPCaller, Narrate(c) PROVE CapInv'
<1>0. RPTypes' BY CallerTyped DEF CapInv, CallerStep
<1>1. rp[c].pc = "call" /\ Moved(c, [rp[c] EXCEPT !.pc = "store"]) /\ rp[c] \in InWork BY DEF Narrate, Step, Moved, CapInv, RPTypes
<1>16. [rp[c] EXCEPT !.pc = "store"] \in InWork BY <1>1, BusyColumns DEF Pcs
<1>17. [rp[c] EXCEPT !.pc = "store"].pc = "store" BY <1>1, BusyFields
<1>2. [rp[c] EXCEPT !.pc = "store"] \in InWork /\ [rp[c] EXCEPT !.pc = "store"].pc # "call" BY <1>16, <1>17
<1>3. InCall' \subseteq InCall \ {c} /\ FreeCalls' \subseteq FreeCalls \ {c} BY <1>1, <1>2, NoCall DEF CapInv
<1>4. InCall \in SUBSET RPCaller /\ InCall' \in SUBSET RPCaller /\ FreeCalls \in SUBSET RPCaller /\ FreeCalls' \in SUBSET RPCaller
  BY DEF InCall, FreeCalls
<1>5. c \in InCall /\ (rp[c].tier = "free" => c \in FreeCalls) BY <1>1 DEF InCall, FreeCalls
<1>6. Cardinality(InCall') <= Cardinality(InCall) - 1 BY <1>3, <1>4, <1>5, Numbers
<1>7. Cardinality(FreeCalls') <= Cardinality(FreeCalls) BY <1>3, <1>4, Numbers
<1>8. rp[c].tier = "free" => Cardinality(FreeCalls') <= Cardinality(FreeCalls) - 1 BY <1>3, <1>4, <1>5, Numbers
<1>9. Cardinality(InCall) \in Nat /\ Cardinality(InCall') \in Nat /\ Cardinality(FreeCalls) \in Nat /\ Cardinality(FreeCalls') \in Nat
  BY <1>4, Numbers
<1>10. used'.today = used.today + 1 /\ used'.month = used.month + 1 BY DEF Narrate
<1>11. told'.free = IF rp[c].tier = "free" THEN told.free + 1 ELSE told.free
  <2>1. told \in ToldSet BY DEF CapInv, RPTypes, ToldSet
  <2>2. told.free + 1 \in Nat BY <2>1 DEF ToldSet
  <2> QED  BY <2>1, <2>2, ToldColumns DEF Narrate
<1>12. used.today \in Nat /\ used.month \in Nat /\ told.free \in Nat /\ Callers \in Nat /\ DailyAll \in Nat /\ MonthlyFree \in Nat
  BY Numbers DEF CapInv, RPTypes
<1> HIDE DEF InCall, FreeCalls
<1>13. used'.today + Cardinality(InCall') <= DailyAll + Callers - 1 BY <1>6, <1>9, <1>10, <1>12 DEF CapInv
<1>14. told'.free + Cardinality(FreeCalls') <= MonthlyFree + Callers - 1
  <2>1. CASE rp[c].tier = "free" BY <1>8, <1>9, <1>11, <1>12, <2>1 DEF CapInv
  <2>2. CASE rp[c].tier # "free" BY <1>7, <1>9, <1>11, <1>12, <2>2 DEF CapInv
  <2> QED  BY <2>1, <2>2
<1>15. told'.free <= used'.month BY <1>10, <1>11, <1>12 DEF CapInv
<1> QED  BY <1>0, <1>13, <1>14, <1>15 DEF CapInv

\* So does every step of a caller.
LEMMA CallerCaps == ASSUME CapInv, NEW c \in RPCaller, CallerStep(c) PROVE CapInv'
<1>0. RPTypes' /\ RPTypes BY CallerTyped DEF CapInv
<1>1. ASSUME NEW to \in InWork, Moved(c, to), to.pc # "call", used' = used, told'.free = told.free PROVE CapInv'
  <2>1. InCall' \subseteq InCall \ {c} /\ FreeCalls' \subseteq FreeCalls \ {c} BY <1>0, <1>1, NoCall
  <2> QED  BY <1>0, <1>1, <2>1, CapQuiet
<1>2. CASE BuildReport(c)
  <2> DEFINE over == IF rp[c].row = 0 THEN Len(reports[rp[c].scan]) + 1 ELSE rp[c].row
             pc == IF rp[c].narrate THEN "gate" ELSE "idle"
             to == [rp[c] EXCEPT !.pc = pc, !.row = over]
  <2>1. rp[c].pc = "build" /\ Moved(c, to) /\ UNCHANGED <<used, told>> BY <1>2 DEF BuildReport, Step, Moved
  <2>2. rp[c] \in InWork /\ rp[c].scan \in RScan BY <1>0, <2>1, MoveTyped
  <2>3. over \in Nat /\ pc \in Pcs /\ pc # "call" BY <1>0, <2>2 DEF InWork, Pcs, RPTypes
  <2>4. to \in InWork /\ to.pc = pc
    <3> HIDE DEF over, pc
    <3>1. to \in InWork BY <2>2, <2>3, BusyColumns
    <3>2. to.pc = pc BY <2>2, BusyFields
    <3> QED  BY <3>1, <3>2
  <2> HIDE DEF to, pc
  <2> QED  BY <1>1, <2>1, <2>3, <2>4
<1>3. CASE StoreNarrative(c)
  <2>1. rp[c].pc = "store" /\ Moved(c, RPIdle) /\ used' = used BY <1>3 DEF StoreNarrative, Step, Moved
  <2>2. told'.free = told.free BY <1>0, <1>3, <2>1, StoredTold DEF RPTypes
  <2> QED  BY <1>1, <2>1, <2>2, IdleTyped
<1>4. CASE GiveUp(c) BY <1>1, <1>4, IdleTyped DEF GiveUp, Moved
<1>5. CASE CreateShare(c) BY <1>1, <1>5, IdleTyped DEF CreateShare, Step, Moved
<1>6. ASSUME NEW s \in RScan, View(c, s) PROVE CapInv'
  <2>1. PICK to \in InWork : Viewed(c, s, to) BY <1>0, <1>6, ViewMoves
  <2>2. Moved(c, to) /\ to.pc # "call" BY <2>1 DEF Viewed
  <2>3. UNCHANGED <<used, told>> BY <1>6 DEF View
  <2> QED  BY <1>1, <2>2, <2>3
<1>7. ASSUME NEW s \in RScan, AskShare(c, s) PROVE CapInv'
  <2> DEFINE tier == IF plan.pro THEN "paid" ELSE "free"
             to == [RPIdle EXCEPT !.pc = "share", !.scan = s, !.tier = tier]
  <2>1. Moved(c, to) /\ UNCHANGED <<used, told>> BY <1>7 DEF AskShare, Step, Moved
  <2>2. tier \in Tiers /\ "share" \in Pcs BY DEF Tiers, Pcs
  <2>3. to \in InWork
    <3> HIDE DEF tier
    <3> QED  BY <2>2, IdleTyped, BusyColumns
  <2>4. to.pc = "share" BY IdleTyped, BusyFields
  <2> HIDE DEF to
  <2> QED  BY <1>1, <2>1, <2>3, <2>4
<1> QED  BY <1>2, <1>3, <1>4, <1>5, <1>6, <1>7, GateCaps, NarrateCaps DEF CallerStep

\* So does everything else.
LEMMA OtherCaps == ASSUME CapInv, OtherStep PROVE CapInv'
<1>0. RPTypes' /\ RPTypes BY OtherTyped DEF CapInv
<1>1. ASSUME UNCHANGED <<rp, used, told>> PROVE CapInv'
  <2>1. InCall' \subseteq InCall /\ FreeCalls' \subseteq FreeCalls BY <1>1 DEF InCall, FreeCalls
  <2> QED  BY <1>0, <1>1, <2>1, CapQuiet
<1>2. CASE NewPeriod
  <2>1. PICK month \in {0, used.month} :
       /\ used' = [month |-> month, today |-> 0]
       /\ told' = IF month = 0 THEN [told EXCEPT !.free = 0] ELSE told
    BY <1>2 DEF NewPeriod
  <2>2. InCall' = InCall /\ FreeCalls' = FreeCalls /\ InCall \in SUBSET RPCaller /\ FreeCalls \in SUBSET RPCaller
    BY <1>2 DEF NewPeriod, InCall, FreeCalls
  <2>3. Cardinality(InCall) \in Nat /\ Cardinality(FreeCalls) \in Nat /\ Cardinality(InCall) <= Callers /\ Cardinality(FreeCalls) <= Callers
    BY <2>2, Numbers
  <2>4. told'.free = IF month = 0 THEN 0 ELSE told.free
    <3>1. told \in ToldSet BY DEF CapInv, RPTypes, ToldSet
    <3> QED  BY <2>1, <3>1, ToldColumns
  <2>5. used.today \in Nat /\ used.month \in Nat /\ told.free \in Nat /\ Callers \in Nat /\ DailyAll \in Nat \ {0} /\ MonthlyFree \in Nat \ {0}
    BY Numbers DEF CapInv, RPTypes
  <2>6. used'.today = 0 /\ used'.month = month BY <2>1
  <2> HIDE DEF InCall, FreeCalls
  <2>7. used'.today + Cardinality(InCall) <= DailyAll + Callers - 1 BY <2>3, <2>5, <2>6
  <2>8. told'.free + Cardinality(FreeCalls) <= MonthlyFree + Callers - 1 BY <2>3, <2>4, <2>5 DEF CapInv
  <2>9. told'.free <= used'.month BY <2>1, <2>4, <2>5, <2>6 DEF CapInv
  <2> QED  BY <1>0, <2>2, <2>7, <2>8, <2>9 DEF CapInv
<1>3. CASE Deploy
  <2>1. InCall' = {} /\ FreeCalls' = {} /\ used' = used BY <1>3, IdleTyped DEF Deploy, InCall, FreeCalls
  <2>2. told'.free = told.free BY <1>3 DEF Deploy, CapInv, RPTypes
  <2> QED  BY <1>0, <2>1, <2>2, CapQuiet
<1> QED  BY <1>1, <1>2, <1>3 DEF OtherStep, EndShare, CompleteRScan, DeleteScan, BuyReport, Subscribe

\* The caps hold at the start.
LEMMA CapInit == RPInit => CapInv
<1> SUFFICES ASSUME RPInit PROVE CapInv OBVIOUS
<1>1. RPTypes BY RPInitTypes
<1>2. InCall = {} /\ FreeCalls = {} BY IdleTyped DEF RPInit, InCall, FreeCalls
<1>3. used.today = 0 /\ told.free = 0 /\ used.month = 0 BY DEF RPInit
<1> QED  BY <1>1, <1>2, <1>3, Numbers, FS_EmptySet DEF CapInv

\* Every step keeps the caps.
LEMMA CapNext == ASSUME CapInv, [RPNext]_rpVars PROVE CapInv'
<1>1. CASE UNCHANGED rpVars
  <2>1. InCall' \subseteq InCall /\ FreeCalls' \subseteq FreeCalls /\ UNCHANGED <<used, told>> BY <1>1 DEF rpVars, InCall, FreeCalls
  <2> QED  BY <2>1, CapQuiet, RPTypesNext DEF CapInv
<1> QED  BY <1>1, RPActs, CallerCaps, OtherCaps

(***************************************************************************)
(* However many views of reports overlap, the narratives of a day, and     *)
(* those of a month without a plan, exceed their limits by fewer than the  *)
(* callers: each counts before it calls and nothing is locked between the  *)
(* two (reports/service.py, _ai_narrative).                                *)
(***************************************************************************)
THEOREM Narratives == RPSpec => []NarrativesCapped
<1>1. CapInv => NarrativesCapped
  <2> SUFFICES ASSUME CapInv PROVE NarrativesCapped OBVIOUS
  <2>1. InCall \in SUBSET RPCaller /\ FreeCalls \in SUBSET RPCaller BY DEF InCall, FreeCalls
  <2>2. Cardinality(InCall) \in Nat /\ Cardinality(FreeCalls) \in Nat BY <2>1, Numbers
  <2>3. used.today \in Nat /\ told.free \in Nat /\ Callers \in Nat /\ DailyAll \in Nat /\ MonthlyFree \in Nat
    BY Numbers DEF CapInv, RPTypes
  <2>4. used.today <= DailyAll + Callers - 1 /\ told.free <= MonthlyFree + Callers - 1
    <3> HIDE DEF InCall, FreeCalls
    <3> QED  BY <2>2, <2>3 DEF CapInv
  <2>5. used.today <= DailyAll + (Callers - 1) /\ told.free <= MonthlyFree + (Callers - 1) BY <2>3, <2>4
  <2> QED  BY <2>5 DEF NarrativesCapped, Callers
<1> QED  BY <1>1, CapInit, CapNext, PTL DEF RPSpec

----------------------------------------------------------------------------

\* A caller is making a report.
Works(c) == rp[c].pc \in {"build", "gate", "call", "store"}
\* The narration of the last report of a scan
Newest(s) ==
  IF Len(reports[s]) > 0 /\ reports[s][Len(reports[s])].version = engine
    THEN reports[s][Len(reports[s])].ai ELSE "none"
\* A paid narration is worth more than a free one, and any more than none.
Worth(a) == IF a = "none" THEN 0 ELSE IF a = "free" THEN 1 ELSE 2

\* No two callers make the report of the same scan.
Aside == \A c, d \in RPCaller : c # d /\ Works(c) /\ Works(d) => rp[c].scan # rp[d].scan
\* No report is of a later engine than the one that runs.
VersionsKnown(s) == \A i \in 1 .. Len(reports[s]) : reports[s][i].version <= engine
\* The unforced narratives of a scan are worth no more than its newest report shows, but for those
\* a forced one replaced.
Rated(s) ==
  /\ told.plain[s] <= 2 + told.forced[s]
  /\ rscan[s] # "gone" => told.plain[s] <= Worth(Newest(s)) + told.forced[s]
\* What a caller has in hand is about the last report of its scan.
InHand(c) ==
  LET s == rp[c].scan IN
  Works(c) /\ rscan[s] # "gone" =>
    /\ rp[c].row = Len(reports[s]) /\ rp[c].ai = Newest(s)
    /\ rp[c].pc = "build" => rp[c].ai = "none"
    /\ rp[c].pc # "build" => rp[c].row > 0 /\ reports[s][Len(reports[s])].version = engine
    /\ rp[c].pc \in {"call", "store"} => rp[c].forced \/ rp[c].ai = "none" \/ (rp[c].tier = "paid" /\ rp[c].ai = "free")

(***************************************************************************)
(* The inductive invariant of NarratedOnce, while nobody opens a report    *)
(* another caller is making: one caller at a time is at work on a scan,    *)
(* what it has in hand is the newest report, and the narratives of a scan  *)
(* are accounted for by that report and by the forced ones                 *)
(* (reports/service.py, get_or_build_report).                              *)
(***************************************************************************)
OneInv ==
  /\ RPTypes /\ Aside
  /\ \A s \in RScan : VersionsKnown(s) /\ Rated(s)
  /\ \A c \in RPCaller : InHand(c)

\* What is said of a scan and of the caller at work on it stands as long as nothing touches them.
LEMMA ScanStands ==
  ASSUME OneInv, NEW s \in RScan, reports'[s] = reports[s], engine' = engine,
         told'.plain[s] = told.plain[s], told'.forced[s] = told.forced[s], rscan'[s] # "gone" => rscan[s] # "gone"
  PROVE  VersionsKnown(s)' /\ Rated(s)'
BY DEF OneInv, VersionsKnown, Rated, Newest

\* What another caller has in hand still stands.
LEMMA HandStands ==
  ASSUME OneInv, NEW d \in RPCaller, rp'[d] = rp[d], engine' = engine,
         LET s == rp[d].scan IN Works(d) => reports'[s] = reports[s] /\ (rscan'[s] # "gone" => rscan[s] # "gone")
  PROVE  InHand(d)'
BY DEF OneInv, InHand, Works, Newest

\* A caller that makes no report has nothing in hand.
LEMMA IdleHand == ASSUME NEW d \in RPCaller, ~ Works(d)' PROVE InHand(d)'
BY DEF InHand

\* A caller that goes no further
LEMMA AsideKept == ASSUME OneInv, NEW c \in RPCaller, \A d \in RPCaller : d # c => rp'[d] = rp[d],
    ~ Works(c)' \/ (Works(c) /\ rp'[c].scan = rp[c].scan) PROVE Aside'
BY DEF OneInv, Aside, Works

\* A step that leaves the reports alone leaves what the others hold.
LEMMA Leaves ==
  ASSUME OneInv, NEW c \in RPCaller, NEW to \in InWork, Moved(c, to), to.pc \notin {"build", "gate", "call", "store"},
         RPTypes', UNCHANGED <<rscan, reports, engine>>, told'.plain = told.plain, told'.forced = told.forced
  PROVE  OneInv'
<1>1. rp'[c] = to /\ \A d \in RPCaller : d # c => rp'[d] = rp[d] BY DEF OneInv, RPTypes, Moved
<1>2. ~ Works(c)' BY <1>1 DEF Works
<1>3. Aside' BY <1>1, <1>2, AsideKept
<1>4. \A s \in RScan : VersionsKnown(s)' /\ Rated(s)' BY ScanStands
<1>5. \A d \in RPCaller : InHand(d)'
  <2> SUFFICES ASSUME NEW d \in RPCaller PROVE InHand(d)' OBVIOUS
  <2>1. CASE d = c BY <1>2, <2>1, IdleHand
  <2>2. CASE d # c BY <1>1, <2>2, HandStands
  <2> QED  BY <2>1, <2>2
<1> QED  BY <1>3, <1>4, <1>5 DEF OneInv

\* Building a report keeps the invariant.
LEMMA BuildOnce == ASSUME OneInv, NEW c \in RPCaller, BuildReport(c) PROVE OneInv'
<1>0. RPTypes' /\ RPTypes BY CallerTyped DEF OneInv, CallerStep
<1>20. rp[c].pc = "build" BY DEF BuildReport, Step
<1>21. PICK s \in RScan : s = rp[c].scan BY <1>0, <1>20, MoveTyped
<1> DEFINE over == IF rp[c].row = 0 THEN Len(reports[s]) + 1 ELSE rp[c].row
           pc == IF rp[c].narrate THEN "gate" ELSE "idle"
           to == [rp[c] EXCEPT !.pc = pc, !.row = over]
<1>1. rp[c].pc = "build" /\ Moved(c, to) /\ reports' = Persisted(s, rp[c].row, "none")
      /\ UNCHANGED <<rscan, engine, told>>
  BY <1>21 DEF BuildReport, Step, Moved
<1>2. rp[c] \in InWork /\ s \in RScan /\ rp[c].row \in Nat /\ "none" \in Narrations
  BY <1>0, <1>1, MoveTyped DEF InWork, Narrations
<1>3. /\ to.pc = pc /\ to.row = over /\ to.scan = s /\ to.ai = rp[c].ai
  <2> HIDE DEF pc, over
  <2> QED  BY <1>2, <1>21, BusyFields
<1>4. rp'[c] = to /\ \A d \in RPCaller : d # c => rp'[d] = rp[d]
  <2> HIDE DEF to
  <2> QED  BY <1>0, <1>1 DEF RPTypes, Moved
<1> HIDE DEF to
<1>5. Works(c) /\ rp'[c].scan = s BY <1>1, <1>3, <1>4 DEF Works
<1>6. Aside' BY <1>4, <1>5, <1>21, AsideKept
<1>7. \A x \in RScan : x # s => reports'[x] = reports[x]
  <2>1. \A x \in RScan : x # s => Persisted(s, rp[c].row, "none")[x] = reports[x]
    <3> HIDE DEF RPTypes
    <3> QED  BY <1>0, <1>2, PersistedElsewhere
  <2> QED  BY <1>1, <2>1
<1>8. \A d \in RPCaller : d # c /\ Works(d) => rp[d].scan # s /\ rp[d].scan \in RScan
  BY <1>0, <1>5, <1>21 DEF OneInv, Aside, RPTypes, Works
<1>9. \A d \in RPCaller : d # c => InHand(d)'
  <2> SUFFICES ASSUME NEW d \in RPCaller, d # c PROVE InHand(d)' OBVIOUS
  <2>1. Works(d) => reports'[rp[d].scan] = reports[rp[d].scan] BY <1>7, <1>8
  <2> QED  BY <1>1, <1>4, <2>1, HandStands
<1>10. \A x \in RScan : x # s => VersionsKnown(x)' /\ Rated(x)' BY <1>1, <1>7, ScanStands
<1>11. reports[s] \in Seq(ReportRow) /\ Len(reports[s]) \in Nat /\ engine \in Nat BY <1>0, <1>2 DEF RPTypes
<1> DEFINE r == [version |-> engine, ai |-> "none"]
<1>12. r.version = engine /\ r.ai = "none" OBVIOUS
<1>13. /\ rp[c].row = 0 => /\ Len(reports'[s]) = Len(reports[s]) + 1 /\ reports'[s][Len(reports[s]) + 1] = r
                           /\ \A i \in 1 .. Len(reports[s]) : reports'[s][i] = reports[s][i]
       /\ rp[c].row \in 1 .. Len(reports[s]) => /\ Len(reports'[s]) = Len(reports[s]) /\ reports'[s][rp[c].row] = r
                           /\ \A i \in 1 .. Len(reports[s]) : i # rp[c].row => reports'[s][i] = reports[s][i]
       /\ rp[c].row > Len(reports[s]) => reports'[s] = reports[s]
  <2> DEFINE P == Persisted(s, rp[c].row, "none")
  <2>1. /\ rp[c].row = 0 => /\ Len(P[s]) = Len(reports[s]) + 1 /\ P[s][Len(reports[s]) + 1] = r
                            /\ \A i \in 1 .. Len(reports[s]) : P[s][i] = reports[s][i]
        /\ rp[c].row \in 1 .. Len(reports[s]) => /\ Len(P[s]) = Len(reports[s]) /\ P[s][rp[c].row] = r
                            /\ \A i \in 1 .. Len(reports[s]) : i # rp[c].row => P[s][i] = reports[s][i]
        /\ rp[c].row > Len(reports[s]) => P = reports
    <3>1. RPTypes BY <1>0
    <3>2. PICK n \in Nat : n = rp[c].row BY <1>2
    <3>3. s \in RScan /\ "none" \in Narrations BY <1>2
    <3>4. Persisted(s, n, "none") = P BY <3>2
    <3>5. /\ n = 0 => /\ Len(P[s]) = Len(reports[s]) + 1 /\ P[s][Len(reports[s]) + 1] = r
                      /\ \A i \in 1 .. Len(reports[s]) : P[s][i] = reports[s][i]
          /\ n \in 1 .. Len(reports[s]) => /\ Len(P[s]) = Len(reports[s]) /\ P[s][n] = r
                      /\ \A i \in 1 .. Len(reports[s]) : i # n => P[s][i] = reports[s][i]
          /\ n > Len(reports[s]) => P = reports
      <4> HIDE DEF P
      <4> QED  BY <3>1, <3>3, <3>4, PersistedIs
    <3> HIDE DEF P, r
    <3> QED  BY <3>2, <3>5
  <2>2. reports' = P BY <1>1
  <2> HIDE DEF P, r
  <2> QED  BY <2>1, <2>2
<1> HIDE DEF r
<1>14. VersionsKnown(s)'
  <2>1. VersionsKnown(s) BY <1>2 DEF OneInv
  <2> SUFFICES ASSUME NEW i \in 1 .. Len(reports'[s]) PROVE reports'[s][i].version <= engine BY <1>1 DEF VersionsKnown
  <2>2. CASE rp[c].row = 0 BY <2>1, <2>2, <1>11, <1>12, <1>13 DEF VersionsKnown
  <2>3. CASE rp[c].row \in 1 .. Len(reports[s]) BY <2>1, <2>3, <1>11, <1>12, <1>13 DEF VersionsKnown
  <2>4. CASE rp[c].row > Len(reports[s]) BY <2>1, <2>4, <1>11, <1>13 DEF VersionsKnown
  <2> QED  BY <2>2, <2>3, <2>4, <1>2, <1>11
<1>15. rscan[s] # "gone" => rp[c].row = Len(reports[s]) /\ rp[c].ai = Newest(s) BY <1>5, <1>21 DEF OneInv, InHand
<1>16. ASSUME rscan[s] # "gone"
       PROVE  Newest(s)' = "none" /\ over = Len(reports'[s]) /\ over > 0 /\ reports'[s][Len(reports'[s])].version = engine
  <2>1. rp[c].row = Len(reports[s]) BY <1>15, <1>16
  <2>2. Len(reports'[s]) > 0 /\ reports'[s][Len(reports'[s])] = r /\ over = Len(reports'[s])
    <3>1. CASE rp[c].row = 0 BY <2>1, <3>1, <1>11, <1>13
    <3>2. CASE rp[c].row # 0 BY <2>1, <3>2, <1>11, <1>13
    <3> QED  BY <3>1, <3>2
  <2> HIDE DEF over
  <2>3. engine' = engine BY <1>1
  <2> QED  BY <2>2, <2>3, <1>12 DEF Newest
<1>17. rscan[s] # "gone" => rp[c].ai = "none" BY <1>1, <1>5, <1>21 DEF OneInv, InHand
<1>18. Rated(s)'
  <2>1. Rated(s) BY <1>2 DEF OneInv
  <2>2. rscan[s] # "gone" => Newest(s)' = Newest(s) BY <1>15, <1>16, <1>17
  <2> QED  BY <1>1, <2>1, <2>2 DEF Rated
<1>19. InHand(c)'
  <2>1. rp'[c].scan = s /\ rp'[c].row = over /\ rp'[c].ai = rp[c].ai /\ rp'[c].pc \in {"gate", "idle"} BY <1>3, <1>4
  <2> SUFFICES ASSUME rp'[c].pc = "gate", rscan'[s] # "gone"
               PROVE /\ over = Len(reports'[s]) /\ rp[c].ai = Newest(s)' /\ over > 0
                     /\ reports'[s][Len(reports'[s])].version = engine'
    BY <2>1 DEF InHand, Works
  <2> QED  BY <1>1, <1>16, <1>17
<1> QED  BY <1>0, <1>6, <1>9, <1>10, <1>14, <1>18, <1>19 DEF OneInv

\* So does the gate.
LEMMA GateOnce == ASSUME OneInv, NEW c \in RPCaller, Gate(c) PROVE OneInv'
<1>0. RPTypes' /\ RPTypes BY CallerTyped DEF OneInv, CallerStep
<1>1. UNCHANGED <<rscan, reports, engine, told>> BY DEF Gate
<1>2. CASE Moved(c, RPIdle)
  <2>1. RPIdle.pc \notin {"build", "gate", "call", "store"} BY IdleTyped
  <2> QED  BY <1>0, <1>1, <1>2, <2>1, IdleTyped, Leaves
<1>3. ASSUME NEW tier \in Tiers, NEW forced \in BOOLEAN,
             Moved(c, [rp[c] EXCEPT !.pc = "call", !.tier = tier, !.forced = forced]),
             forced \/ rp[c].ai = "none" \/ (tier = "paid" /\ rp[c].ai = "free")
      PROVE OneInv'
  <2> DEFINE to == [rp[c] EXCEPT !.pc = "call", !.tier = tier, !.forced = forced]
  <2>1. rp[c].pc = "gate" /\ rp[c] \in InWork BY <1>0, GateMoves DEF RPTypes
  <2>2. /\ to.pc = "call" /\ to.row = rp[c].row /\ to.scan = rp[c].scan /\ to.ai = rp[c].ai /\ to.tier = tier
        /\ to.forced = forced BY <2>1, BusyFields
  <2> HIDE DEF to
  <2>3. rp'[c] = to /\ \A d \in RPCaller : d # c => rp'[d] = rp[d] BY <1>0, <1>3 DEF RPTypes, Moved, to
  <2>4. Aside' BY <2>1, <2>2, <2>3, AsideKept DEF Works
  <2>5. \A s \in RScan : VersionsKnown(s)' /\ Rated(s)' BY <1>1, ScanStands
  <2>6. \A d \in RPCaller : d # c => InHand(d)' BY <1>1, <2>3, HandStands
  <2>7. InHand(c)'
    <3>1. InHand(c) BY DEF OneInv
    <3>2. PICK s \in RScan : s = rp[c].scan BY <1>0, <2>1, MoveTyped
    <3>3. Newest(s)' = Newest(s) BY <1>1 DEF Newest
    <3>4. rp'[c].scan = s BY <2>2, <2>3, <3>2
    <3> QED  BY <1>1, <1>3, <2>1, <2>2, <2>3, <3>1, <3>2, <3>3, <3>4 DEF InHand, Works
  <2> QED  BY <1>0, <2>4, <2>5, <2>6, <2>7 DEF OneInv
<1> QED  BY <1>0, <1>2, <1>3, GateMoves

\* So does the call.
LEMMA NarrateOnce == ASSUME OneInv, NEW c \in RPCaller, Narrate(c) PROVE OneInv'
<1> DEFINE to == [rp[c] EXCEPT !.pc = "store"]
<1>0. RPTypes' /\ RPTypes BY CallerTyped DEF OneInv, CallerStep
<1>1. rp[c].pc = "call" /\ Moved(c, to) /\ UNCHANGED <<rscan, reports, engine>> BY DEF Narrate, Step, Moved
<1>2. rp[c] \in InWork BY <1>0 DEF RPTypes
<1>3. /\ to.pc = "store" /\ to.row = rp[c].row /\ to.scan = rp[c].scan /\ to.ai = rp[c].ai /\ to.tier = rp[c].tier
      /\ to.forced = rp[c].forced BY <1>2, BusyFields
<1> HIDE DEF to
<1>4. rp'[c] = to /\ \A d \in RPCaller : d # c => rp'[d] = rp[d] BY <1>0, <1>1 DEF RPTypes, Moved
<1>5. told'.plain = told.plain /\ told'.forced = told.forced
  <2>1. told \in ToldSet /\ told.free + 1 \in Nat BY <1>0 DEF RPTypes, ToldSet
  <2>2. told' = told \/ told' = [told EXCEPT !.free = told.free + 1] BY DEF Narrate
  <2>3. [told EXCEPT !.free = told.free + 1].plain = told.plain /\ [told EXCEPT !.free = told.free + 1].forced = told.forced
    BY <2>1, ToldColumns
  <2> QED  BY <2>2, <2>3
<1>6. Aside' BY <1>1, <1>3, <1>4, AsideKept DEF Works
<1>7. \A s \in RScan : VersionsKnown(s)' /\ Rated(s)' BY <1>1, <1>5, ScanStands
<1>8. \A d \in RPCaller : d # c => InHand(d)' BY <1>1, <1>4, HandStands
<1>9. InHand(c)'
  <2>1. InHand(c) BY DEF OneInv
  <2>2. PICK s \in RScan : s = rp[c].scan BY <1>0, <1>1, MoveTyped
  <2>3. Newest(s)' = Newest(s) BY <1>1 DEF Newest
  <2>4. rp'[c].scan = s BY <1>3, <1>4, <2>2
  <2> QED  BY <1>1, <1>3, <1>4, <2>1, <2>2, <2>3, <2>4 DEF InHand, Works
<1> QED  BY <1>0, <1>6, <1>7, <1>8, <1>9 DEF OneInv

\* So does storing the narrative.
LEMMA StoreOnce == ASSUME OneInv, NEW c \in RPCaller, StoreNarrative(c) PROVE OneInv'
<1>0. RPTypes' /\ RPTypes BY CallerTyped DEF OneInv, CallerStep
<1>20. rp[c].pc = "store" BY DEF StoreNarrative, Step
<1>21. PICK s \in RScan : s = rp[c].scan BY <1>0, <1>20, MoveTyped
<1>1. rp[c].pc = "store" /\ Moved(c, RPIdle) /\ reports' = Persisted(s, rp[c].row, rp[c].tier)
      /\ UNCHANGED <<rscan, engine>> /\ rscan[s] # "gone"
  BY <1>21 DEF StoreNarrative, Step, Moved
<1>2. rp[c] \in InWork /\ s \in RScan /\ rp[c].row \in Nat /\ rp[c].tier \in Tiers /\ rp[c].tier \in Narrations
  BY <1>0, <1>1, MoveTyped DEF InWork, Tiers, Narrations
<1>3. rp'[c] = RPIdle /\ \A d \in RPCaller : d # c => rp'[d] = rp[d] BY <1>0, <1>1 DEF RPTypes, Moved
<1>4. Works(c) /\ ~ Works(c)' BY <1>1, <1>3, IdleTyped DEF Works
<1>5. Aside' BY <1>3, <1>4, AsideKept
<1>6. /\ rp[c].row = Len(reports[s]) /\ rp[c].ai = Newest(s) /\ rp[c].row > 0
      /\ reports[s][Len(reports[s])].version = engine
      /\ rp[c].forced \/ rp[c].ai = "none" \/ (rp[c].tier = "paid" /\ rp[c].ai = "free")
  BY <1>1, <1>4, <1>21 DEF OneInv, InHand
<1>7. \A x \in RScan : x # s => reports'[x] = reports[x]
  <2>1. \A x \in RScan : x # s => Persisted(s, rp[c].row, rp[c].tier)[x] = reports[x]
    <3> HIDE DEF RPTypes
    <3> QED  BY <1>0, <1>2, PersistedElsewhere
  <2> QED  BY <1>1, <2>1
<1>8. Len(reports[s]) \in Nat /\ engine \in Nat BY <1>0, <1>2 DEF RPTypes
<1> DEFINE r == [version |-> engine, ai |-> rp[c].tier]
<1>9. /\ Len(reports'[s]) = Len(reports[s]) /\ reports'[s][Len(reports[s])] = r
      /\ \A i \in 1 .. Len(reports[s]) : i # Len(reports[s]) => reports'[s][i] = reports[s][i]
  <2> DEFINE q == Persisted(s, rp[c].row, rp[c].tier)
  <2>1. rp[c].row \in 1 .. Len(reports[s]) BY <1>2, <1>6, <1>8
  <2>2. /\ Len(q[s]) = Len(reports[s]) /\ q[s][rp[c].row] = r
        /\ \A i \in 1 .. Len(reports[s]) : i # rp[c].row => q[s][i] = reports[s][i]
    BY <1>0, <1>2, <2>1, PersistedOver DEF r
  <2> HIDE DEF q, r
  <2>3. reports' = q BY <1>1 DEF q
  <2> QED  BY <1>6, <2>2, <2>3
<1>10. r.version = engine /\ r.ai = rp[c].tier OBVIOUS
<1> HIDE DEF r
<1>11. Newest(s)' = rp[c].tier BY <1>1, <1>6, <1>9, <1>10 DEF Newest
<1>12. \A d \in RPCaller : InHand(d)'
  <2> SUFFICES ASSUME NEW d \in RPCaller PROVE InHand(d)' OBVIOUS
  <2>1. CASE d = c BY <1>4, <2>1, IdleHand
  <2>2. CASE d # c
    <3>1. Works(d) => rp[d].scan # s /\ rp[d].scan \in RScan BY <2>2, <1>0, <1>4, <1>21 DEF OneInv, Aside, RPTypes, Works
    <3>2. Works(d) => reports'[rp[d].scan] = reports[rp[d].scan] BY <1>7, <3>1
    <3> QED  BY <1>1, <1>3, <2>2, <3>2, HandStands
  <2> QED  BY <2>1, <2>2
<1>13. VersionsKnown(s)'
  <2> SUFFICES ASSUME NEW i \in 1 .. Len(reports'[s]) PROVE reports'[s][i].version <= engine BY <1>1 DEF VersionsKnown
  <2>1. VersionsKnown(s) BY <1>2 DEF OneInv
  <2> QED  BY <1>8, <1>9, <1>10, <2>1 DEF VersionsKnown
<1>14. told'.plain[s] + told.forced[s] + Worth(Newest(s)) <= told.plain[s] + told'.forced[s] + Worth(rp[c].tier)
       /\ told'.plain[s] \in Nat /\ told'.forced[s] \in Nat
  <2>1. told.plain[s] \in Nat /\ told.forced[s] \in Nat BY <1>0, <1>2 DEF RPTypes
  <2>2. CASE rp[c].forced
    <3>1. told'.plain[s] = told.plain[s] /\ told'.forced[s] = told.forced[s] + 1 BY <1>0, <1>2, <1>21, <2>2, StoredTold
    <3>2. Worth(rp[c].tier) \in 1 .. 2 BY <1>2 DEF Worth, Tiers
    <3>3. Worth(Newest(s)) \in 0 .. 2 BY DEF Worth
    <3>4. Worth(Newest(s)) <= Worth(rp[c].tier) + 1 BY <3>2, <3>3
    <3> QED  BY <2>1, <3>1, <3>2, <3>3, <3>4
  <2>3. CASE ~ rp[c].forced
    <3>1. told'.plain[s] = told.plain[s] + 1 /\ told'.forced[s] = told.forced[s] BY <1>0, <1>2, <1>21, <2>3, StoredTold
    <3>2. Worth(Newest(s)) + 1 <= Worth(rp[c].tier) /\ Worth(Newest(s)) \in Nat /\ Worth(rp[c].tier) \in Nat
      BY <1>2, <1>6, <2>3 DEF Worth, Tiers
    <3> QED  BY <2>1, <3>1, <3>2
  <2> QED  BY <2>2, <2>3
<1>15. Rated(s)'
  <2>1. told.plain[s] <= Worth(Newest(s)) + told.forced[s] BY <1>1, <1>2 DEF OneInv, Rated
  <2>2. told.plain[s] \in Nat /\ told.forced[s] \in Nat BY <1>0, <1>2 DEF RPTypes
  <2>3. Worth(Newest(s)) \in Nat /\ Worth(rp[c].tier) \in 0 .. 2 BY DEF Worth
  <2>4. told'.plain[s] <= Worth(rp[c].tier) + told'.forced[s] BY <1>14, <2>1, <2>2, <2>3
  <2>5. told'.plain[s] <= 2 + told'.forced[s] BY <1>14, <2>3, <2>4
  <2> QED  BY <1>11, <2>4, <2>5 DEF Rated
<1>16. \A x \in RScan : x # s => VersionsKnown(x)' /\ Rated(x)' BY <1>0, <1>1, <1>2, <1>7, <1>21, StoredTold, ScanStands
<1> QED  BY <1>0, <1>5, <1>12, <1>13, <1>15, <1>16 DEF OneInv

\* So does opening a report nobody else is making.
LEMMA ViewOnce == ASSUME "view" \in RPTimely, OneInv, NEW c \in RPCaller, NEW s \in RScan, View(c, s) PROVE OneInv'
<1>0. RPTypes' /\ RPTypes BY CallerTyped DEF OneInv, CallerStep
<1>1. PICK to \in InWork : Viewed(c, s, to) BY <1>0, ViewMoves
<1>2. UNCHANGED <<rscan, reports, engine, told>> /\ \A d \in RPCaller : rp[d].pc = "idle" \/ rp[d].scan # s BY DEF View
<1>3. rp'[c] = to /\ (\A d \in RPCaller : d # c => rp'[d] = rp[d]) /\ to.scan = s /\ to.row = Len(reports[s])
      /\ to.pc \in {"idle", "build", "gate"}
  BY <1>0, <1>1 DEF RPTypes, Moved, Viewed
<1>4. Aside' BY <1>2, <1>3 DEF OneInv, Aside, Works
<1>5. \A x \in RScan : VersionsKnown(x)' /\ Rated(x)' BY <1>2, ScanStands
<1>6. \A d \in RPCaller : d # c => InHand(d)' BY <1>2, <1>3, HandStands
<1>7. InHand(c)'
  <2>1. Len(reports[s]) \in Nat BY <1>0 DEF RPTypes
  <2>2. to.ai = Newest(s) /\ (to.pc # "build" => Len(reports[s]) > 0 /\ reports[s][Len(reports[s])].version = engine)
        /\ (to.pc = "build" => to.ai = "none")
    BY <1>1 DEF Viewed, Newest
  <2>3. Newest(s)' = Newest(s) BY <1>2 DEF Newest
  <2> QED  BY <1>2, <1>3, <2>1, <2>2, <2>3 DEF InHand, Works
<1> QED  BY <1>0, <1>4, <1>5, <1>6, <1>7 DEF OneInv

\* So does every step of a caller.
LEMMA CallerOnce == ASSUME "view" \in RPTimely, OneInv, NEW c \in RPCaller, CallerStep(c) PROVE OneInv'
<1>0. RPTypes' /\ RPTypes BY CallerTyped DEF OneInv
<1>1. RPIdle.pc \notin {"build", "gate", "call", "store"} BY IdleTyped
<1>2. CASE GiveUp(c) BY <1>0, <1>1, <1>2, IdleTyped, Leaves DEF GiveUp, Moved
<1>3. CASE CreateShare(c) BY <1>0, <1>1, <1>3, IdleTyped, Leaves DEF CreateShare, Step, Moved
<1>4. ASSUME NEW s \in RScan, AskShare(c, s) PROVE OneInv'
  <2> DEFINE tier == IF plan.pro THEN "paid" ELSE "free"
             to == [RPIdle EXCEPT !.pc = "share", !.scan = s, !.tier = tier]
  <2>1. Moved(c, to) /\ UNCHANGED <<rscan, reports, engine, told>> BY <1>4 DEF AskShare, Step, Moved
  <2>2. tier \in Tiers /\ "share" \in Pcs BY DEF Tiers, Pcs
  <2>3. to \in InWork
    <3> HIDE DEF tier
    <3> QED  BY <2>2, IdleTyped, BusyColumns
  <2>4. to.pc = "share" BY IdleTyped, BusyFields
  <2>5. to.pc \notin {"build", "gate", "call", "store"} BY <2>4
  <2> HIDE DEF to
  <2> QED  BY <1>0, <2>1, <2>3, <2>5, Leaves
<1> QED  BY <1>2, <1>3, <1>4, BuildOnce, GateOnce, NarrateOnce, StoreOnce, ViewOnce DEF CallerStep

\* So does everything else.
LEMMA OtherOnce == ASSUME OneInv, OtherStep PROVE OneInv'
<1>0. RPTypes' /\ RPTypes BY OtherTyped DEF OneInv
<1>1. ASSUME UNCHANGED <<rp, reports, engine>>, told'.plain = told.plain, told'.forced = told.forced,
             \A s \in RScan : rscan'[s] # "gone" => rscan[s] # "gone" PROVE OneInv'
  <2>1. Aside' BY <1>1 DEF OneInv, Aside, Works
  <2>2. \A s \in RScan : VersionsKnown(s)' /\ Rated(s)' BY <1>1, ScanStands
  <2>3. \A d \in RPCaller : Works(d) => rp[d].scan \in RScan BY <1>0 DEF RPTypes, Works
  <2>4. \A d \in RPCaller : InHand(d)' BY <1>1, <2>3, HandStands
  <2> QED  BY <1>0, <2>1, <2>2, <2>4 DEF OneInv
<1>2. ASSUME NEW s \in RScan, DeleteScan(s) PROVE OneInv'
  <2>1. /\ UNCHANGED <<rp, engine, told>> /\ rscan'[s] = "gone" /\ reports'[s] = <<>>
        /\ \A x \in RScan : x # s => rscan'[x] = rscan[x] /\ reports'[x] = reports[x]
    BY <1>0, <1>2 DEF DeleteScan, RPTypes
  <2>2. Aside' BY <2>1 DEF OneInv, Aside, Works
  <2>3. \A x \in RScan : VersionsKnown(x)' /\ Rated(x)'
    <3> SUFFICES ASSUME NEW x \in RScan PROVE VersionsKnown(x)' /\ Rated(x)' OBVIOUS
    <3>1. CASE x = s
      <4>1. VersionsKnown(x)' BY <2>1, <3>1 DEF VersionsKnown
      <4>2. Rated(x)' BY <2>1, <3>1 DEF Rated, OneInv
      <4> QED  BY <4>1, <4>2
    <3>2. CASE x # s BY <2>1, <3>2, ScanStands
    <3> QED  BY <3>1, <3>2
  <2>4. \A d \in RPCaller : InHand(d)'
    <3> SUFFICES ASSUME NEW d \in RPCaller PROVE InHand(d)' OBVIOUS
    <3>1. CASE ~ Works(d) BY <2>1, <3>1, IdleHand DEF Works
    <3>2. CASE Works(d) /\ rp[d].scan = s BY <2>1, <3>2 DEF InHand, Works
    <3>3. CASE Works(d) /\ rp[d].scan # s
      <4>1. rp[d].scan \in RScan BY <1>0, <3>3 DEF RPTypes, Works
      <4> QED  BY <2>1, <3>3, <4>1, HandStands
    <3> QED  BY <3>1, <3>2, <3>3
  <2> QED  BY <1>0, <2>2, <2>3, <2>4 DEF OneInv
<1>3. CASE Deploy
  <2>1. \A c \in RPCaller : rp'[c].pc = "idle" BY <1>3, IdleTyped DEF Deploy
  <2>2. \A c \in RPCaller : ~ Works(c)' BY <2>1 DEF Works
  <2>3. Aside' /\ \A c \in RPCaller : InHand(c)' BY <2>2, IdleHand DEF Aside
  <2>4. UNCHANGED <<rscan, reports>> /\ engine' = engine + 1 BY <1>3 DEF Deploy
  <2>5. \A s \in RScan : told'.plain[s] = 0 /\ told'.forced[s] = 0 BY <1>3 DEF Deploy, OneInv, RPTypes
  <2>6. ASSUME NEW s \in RScan PROVE VersionsKnown(s)' /\ Rated(s)'
    <3>1. VersionsKnown(s) /\ engine \in Nat /\ reports[s] \in Seq(ReportRow) /\ Len(reports[s]) \in Nat BY <1>0 DEF OneInv, RPTypes
    <3>2. \A i \in 1 .. Len(reports[s]) : reports[s][i].version \in Nat
      <4>1. \A i \in 1 .. Len(reports[s]) : reports[s][i] \in ReportRow BY <3>1
      <4> QED  BY <4>1 DEF ReportRow
    <3>3. VersionsKnown(s)' BY <2>4, <3>1, <3>2 DEF VersionsKnown
    <3>4. Worth(Newest(s)') \in Nat BY DEF Worth
    <3>5. Rated(s)' BY <2>4, <2>5, <3>4 DEF Rated
    <3> QED  BY <3>3, <3>5
  <2> QED  BY <1>0, <2>3, <2>6 DEF OneInv
<1>4. CASE NewPeriod
  <2>1. told'.plain = told.plain /\ told'.forced = told.forced
    <3>1. told \in ToldSet BY <1>0 DEF RPTypes, ToldSet
    <3>2. told' = told \/ told' = [told EXCEPT !.free = 0] BY <1>4 DEF NewPeriod
    <3>3. [told EXCEPT !.free = 0].plain = told.plain /\ [told EXCEPT !.free = 0].forced = told.forced BY <3>1, ToldColumns
    <3> QED  BY <3>2, <3>3
  <2> QED  BY <1>1, <1>4, <2>1 DEF NewPeriod
<1>5. ASSUME NEW s \in RScan, CompleteRScan(s) PROVE OneInv'
  <2>1. \A x \in RScan : rscan'[x] # "gone" => rscan[x] # "gone" BY <1>0, <1>5 DEF CompleteRScan, RPTypes
  <2> QED  BY <1>1, <1>5, <2>1 DEF CompleteRScan
<1> QED  BY <1>1, <1>2, <1>3, <1>4, <1>5 DEF OtherStep, EndShare, BuyReport, Subscribe

(***************************************************************************)
(* While a report is generated by one caller at a time, a scan is narrated *)
(* for a version of the engine once, a second time when a free narrative   *)
(* has been paid for, and once more only for each forced one               *)
(* (reports/service.py, get_or_build_report).                              *)
(***************************************************************************)
THEOREM NarrationsPaidOnce == ASSUME "view" \in RPTimely PROVE RPSpec => []NarratedOnce
<1>1. RPInit => OneInv
  <2> SUFFICES ASSUME RPInit PROVE OneInv OBVIOUS
  <2>1. RPTypes BY RPInitTypes
  <2>2. \A c \in RPCaller : ~ Works(c) BY IdleTyped DEF RPInit, Works
  <2>3. \A s \in RScan : VersionsKnown(s) BY DEF RPInit, VersionsKnown
  <2>4. ASSUME NEW s \in RScan PROVE Rated(s)
    <3>1. told.plain[s] = 0 /\ told.forced[s] = 0 BY DEF RPInit
    <3>2. Worth(Newest(s)) \in Nat BY DEF Worth
    <3> QED  BY <3>1, <3>2 DEF Rated
  <2> QED  BY <2>1, <2>2, <2>3, <2>4 DEF OneInv, Aside, InHand
<1>2. OneInv /\ [RPNext]_rpVars => OneInv'
  <2>1. ASSUME OneInv, UNCHANGED rpVars PROVE OneInv'
    <3>1. UNCHANGED <<rscan, reports, engine, rp, told>> BY <2>1 DEF rpVars
    <3>2. RPTypes' BY <2>1, RPTypesNext DEF OneInv
    <3> QED  BY <2>1, <3>1, <3>2 DEF OneInv, Aside, Works, VersionsKnown, Rated, InHand, Newest
  <2> QED  BY <2>1, RPActs, CallerOnce, OtherOnce
<1>3. OneInv => NarratedOnce BY DEF OneInv, Rated, NarratedOnce
<1> QED  BY <1>1, <1>2, <1>3, PTL DEF RPSpec

----------------------------------------------------------------------------

\* The inductive invariant of the share links
LinkedInv == RPTypes /\ LinkInv

\* The links are finitely many.
LEMMA LinksFinite ==
  ASSUME NEW n \in Nat
  PROVE  /\ \A S \in SUBSET (1 .. n) : IsFiniteSet(S) /\ Cardinality(S) \in Nat
         /\ \A S, T \in SUBSET (1 .. n) : S \subseteq T => Cardinality(S) <= Cardinality(T)
         /\ \A S, T \in SUBSET (1 .. n) : S \subseteq T \union {n} => Cardinality(S) <= Cardinality(T) + 1
<1>1. IsFiniteSet(1 .. n) BY FS_Interval
<1>2. \A S \in SUBSET (1 .. n) : IsFiniteSet(S) /\ Cardinality(S) \in Nat BY <1>1, FS_Subset, FS_CardinalityType
<1>3. ASSUME NEW S \in SUBSET (1 .. n), NEW T \in SUBSET (1 .. n), S \subseteq T \union {n} PROVE Cardinality(S) <= Cardinality(T) + 1
  <2>1. IsFiniteSet(T \union {n}) /\ Cardinality(T \union {n}) = IF n \in T THEN Cardinality(T) ELSE Cardinality(T) + 1
    BY <1>2, FS_AddElement
  <2>2. Cardinality(S) <= Cardinality(T \union {n}) /\ Cardinality(S) \in Nat /\ Cardinality(T) \in Nat
    BY <1>2, <1>3, <2>1, FS_Subset
  <2> QED  BY <2>1, <2>2
<1> QED  BY <1>2, <1>3, FS_Subset

\* They are rows of the table.
LEMMA LinkedAre == ASSUME RPTypes PROVE /\ Linked \in SUBSET (1 .. Len(shares)) /\ Len(shares) \in Nat
  /\ Linked = {i \in 1 .. Len(shares) : shares[i].live /\ shares[i].tier = "free"}
  /\ IsFiniteSet(Linked) /\ Cardinality(Linked) \in Nat
<1>1. Linked \in SUBSET (1 .. Len(shares)) /\ Len(shares) \in Nat
      /\ Linked = {i \in 1 .. Len(shares) : shares[i].live /\ shares[i].tier = "free"} BY DEF Linked, ActiveShares, RPTypes
<1> QED  BY <1>1, LinksFinite

\* Fewer links and fewer sharers keep the invariant.
LEMMA LinkQuiet == ASSUME LinkedInv, RPTypes', Linked' \subseteq Linked, Sharers' \subseteq Sharers PROVE LinkedInv'
<1>1. Cardinality(Linked') <= Cardinality(Linked) /\ Cardinality(Linked) \in Nat /\ Cardinality(Linked') \in Nat
  BY LinkedAre, FS_Subset, FS_CardinalityType DEF LinkedInv
<1>2. Sharers \in SUBSET RPCaller /\ Sharers' \in SUBSET RPCaller BY DEF Sharers
<1>3. Cardinality(Sharers') <= Cardinality(Sharers) /\ Cardinality(Sharers) \in Nat /\ Cardinality(Sharers') \in Nat
  BY <1>2, Numbers
<1> HIDE DEF Sharers, Linked
<1> QED  BY <1>1, <1>3, Numbers DEF LinkedInv, LinkInv

\* Every step of a caller keeps the links.
LEMMA CallerLinks == ASSUME LinkedInv, NEW c \in RPCaller, CallerStep(c) PROVE LinkedInv'
<1>0. RPTypes' /\ RPTypes BY CallerTyped DEF LinkedInv
<1>1. ASSUME rp'[c].pc # "share", \A d \in RPCaller : d # c => rp'[d] = rp[d], shares' = shares PROVE LinkedInv'
  <2>1. Linked' \subseteq Linked BY <1>1 DEF Linked, ActiveShares
  <2>2. Sharers' \subseteq Sharers BY <1>1 DEF Sharers
  <2> QED  BY <1>0, <2>1, <2>2, LinkQuiet
<1>2. ASSUME NEW to, Moved(c, to) PROVE rp'[c] = to /\ \A d \in RPCaller : d # c => rp'[d] = rp[d]
  BY <1>0, <1>2 DEF RPTypes, Moved
<1>3. CASE BuildReport(c) \/ Gate(c) \/ Narrate(c) \/ StoreNarrative(c) \/ GiveUp(c)
  <2>1. shares' = shares BY <1>3 DEF BuildReport, Gate, Narrate, StoreNarrative, GiveUp
  <2>2. \A d \in RPCaller : d # c => rp'[d] = rp[d]
    BY <1>0, <1>3 DEF BuildReport, Gate, Narrate, StoreNarrative, GiveUp, Step, RPTypes
  <2>3. rp[c] \in InWork BY <1>0 DEF RPTypes
  <2>4. CASE BuildReport(c)
    <3> DEFINE over == IF rp[c].row = 0 THEN Len(reports[rp[c].scan]) + 1 ELSE rp[c].row
               pc == IF rp[c].narrate THEN "gate" ELSE "idle"
    <3>1. Moved(c, [rp[c] EXCEPT !.pc = pc, !.row = over]) BY <2>4 DEF BuildReport, Step, Moved
    <3>2. pc # "share" OBVIOUS
    <3> HIDE DEF pc, over
    <3>3. [rp[c] EXCEPT !.pc = pc, !.row = over].pc = pc BY <2>3, BusyFields
    <3>4. rp'[c].pc = pc BY <1>2, <3>1, <3>3
    <3> QED  BY <1>1, <2>1, <2>2, <3>2, <3>4
  <2>5. CASE Gate(c)
    <3>1. CASE Moved(c, RPIdle) BY <1>1, <1>2, <2>1, <2>2, <3>1, IdleTyped
    <3>2. ASSUME NEW tier \in Tiers, NEW forced \in BOOLEAN, Moved(c, [rp[c] EXCEPT !.pc = "call", !.tier = tier, !.forced = forced])
          PROVE LinkedInv'
      <4>1. [rp[c] EXCEPT !.pc = "call", !.tier = tier, !.forced = forced].pc = "call" BY <2>3, BusyFields
      <4>2. rp'[c].pc = "call" BY <1>2, <3>2, <4>1
      <4> QED  BY <1>1, <2>1, <2>2, <4>2
    <3> QED  BY <1>0, <2>5, <3>1, <3>2, GateMoves
  <2>6. CASE Narrate(c)
    <3>1. [rp[c] EXCEPT !.pc = "store"].pc = "store" BY <2>3, BusyFields
    <3>2. rp'[c].pc = "store" BY <1>2, <2>6, <3>1 DEF Narrate, Step, Moved
    <3> QED  BY <1>1, <2>1, <2>2, <3>2
  <2>7. CASE StoreNarrative(c) \/ GiveUp(c)
    <3>1. Moved(c, RPIdle) BY <2>7 DEF StoreNarrative, GiveUp, Step, Moved
    <3>2. rp'[c].pc = "idle" BY <1>2, <3>1, IdleTyped
    <3> QED  BY <1>1, <2>1, <2>2, <3>2
  <2> QED  BY <1>1, <1>3, <2>1, <2>2, <2>4, <2>5, <2>6, <2>7
<1>4. ASSUME NEW s \in RScan, View(c, s) PROVE LinkedInv'
  <2>1. PICK to \in InWork : Viewed(c, s, to) BY <1>0, <1>4, ViewMoves
  <2> QED  BY <1>1, <1>2, <1>4, <2>1 DEF Viewed, View
<1>5. ASSUME NEW s \in RScan, AskShare(c, s) PROVE LinkedInv'
  <2> DEFINE tier == IF plan.pro THEN "paid" ELSE "free"
             to == [RPIdle EXCEPT !.pc = "share", !.scan = s, !.tier = tier]
  <2>1. Moved(c, to) /\ shares' = shares /\ (tier = "paid" \/ Cardinality(ActiveShares) < FreeShares)
    BY <1>5 DEF AskShare, Step, Moved
  <2>2. to.tier = tier BY IdleTyped, BusyFields
  <2>3. rp'[c].tier = tier /\ \A d \in RPCaller : d # c => rp'[d] = rp[d] BY <1>2, <2>1, <2>2
  <2>4. Linked' = Linked BY <2>1 DEF Linked, ActiveShares
  <2>5. CASE tier = "paid"
    <3>1. Sharers' \subseteq Sharers BY <2>3, <2>5 DEF Sharers
    <3> QED  BY <1>0, <2>4, <3>1, LinkQuiet
  <2>6. CASE tier # "paid"
    <3>1. ActiveShares \in SUBSET (1 .. Len(shares)) /\ Len(shares) \in Nat BY <1>0 DEF ActiveShares, RPTypes
    <3>2. Linked \subseteq ActiveShares BY DEF Linked
    <3>3. Cardinality(Linked) <= Cardinality(ActiveShares) /\ Cardinality(ActiveShares) \in Nat /\ Cardinality(Linked) \in Nat
      BY <1>0, <3>1, <3>2, LinksFinite, LinkedAre
    <3>4. Sharers' \in SUBSET RPCaller BY DEF Sharers
    <3>5. Cardinality(Sharers') <= Callers /\ Cardinality(Sharers') \in Nat BY <3>4, Numbers
    <3>6. Cardinality(ActiveShares) < FreeShares BY <2>1, <2>6
    <3> HIDE DEF Sharers, Linked, tier
    <3>7. Cardinality(Linked) + Cardinality(Sharers') <= FreeShares + Callers - 1 BY <3>3, <3>5, <3>6, Numbers
    <3> QED  BY <1>0, <2>4, <3>7 DEF LinkedInv, LinkInv
  <2> QED  BY <2>5, <2>6
<1>6. CASE CreateShare(c)
  <2> DEFINE e == [scan |-> rp[c].scan, live |-> TRUE, tier |-> rp[c].tier]
  <2>1. rp[c].pc = "share" /\ Moved(c, RPIdle) /\ shares' = Append(shares, e) BY <1>6 DEF CreateShare, Step, Moved
  <2>2. rp'[c].pc = "idle" /\ \A d \in RPCaller : d # c => rp'[d] = rp[d] BY <1>2, <2>1, IdleTyped
  <2>3. Sharers' \subseteq Sharers \ {c} BY <2>2 DEF Sharers
  <2>4. e \in ShareRow /\ e.tier = rp[c].tier BY <1>0, <2>1, MoveTyped DEF ShareRow, InWork
  <2>5. shares \in Seq(ShareRow) /\ Len(shares) \in Nat BY <1>0 DEF RPTypes
  <2> HIDE DEF e
  <2>6. /\ Len(shares') = Len(shares) + 1 /\ shares'[Len(shares) + 1] = e
        /\ \A i \in 1 .. Len(shares) : shares'[i] = shares[i] BY <2>1, <2>4, <2>5, AppendProperties
  <2> DEFINE n == Len(shares) + 1
  <2>7. Linked = {i \in 1 .. Len(shares) : shares[i].live /\ shares[i].tier = "free"} BY <1>0, LinkedAre
  <2>8. Linked' = {i \in 1 .. Len(shares') : shares'[i].live /\ shares'[i].tier = "free"}
    BY <1>0 DEF Linked, ActiveShares, RPTypes
  <2>9. Linked' \subseteq Linked \union {n} /\ (rp[c].tier # "free" => Linked' \subseteq Linked)
    BY <2>4, <2>5, <2>6, <2>7, <2>8
  <2>10. Linked \in SUBSET (1 .. n) /\ Linked' \in SUBSET (1 .. n) /\ n \in Nat BY <2>5, <2>6, <2>7, <2>8
  <2>11. Cardinality(Linked') <= Cardinality(Linked) + 1 /\ Cardinality(Linked) \in Nat /\ Cardinality(Linked') \in Nat
    BY <2>9, <2>10, LinksFinite
  <2>12. CASE rp[c].tier # "free"
    <3>1. Sharers' \subseteq Sharers BY <2>3
    <3> QED  BY <1>0, <2>9, <2>12, <3>1, LinkQuiet
  <2>13. CASE rp[c].tier = "free"
    <3>1. c \in Sharers /\ Sharers \in SUBSET RPCaller /\ Sharers' \in SUBSET RPCaller BY <2>1, <2>13 DEF Sharers
    <3>2. Cardinality(Sharers') <= Cardinality(Sharers) - 1 /\ Cardinality(Sharers) \in Nat /\ Cardinality(Sharers') \in Nat
      BY <2>3, <3>1, Numbers
    <3> HIDE DEF Sharers, Linked
    <3>3. Cardinality(Linked') + Cardinality(Sharers') <= FreeShares + Callers - 1
      BY <2>11, <3>2, Numbers DEF LinkedInv, LinkInv
    <3> QED  BY <1>0, <3>3 DEF LinkedInv, LinkInv
  <2> QED  BY <2>12, <2>13
<1> QED  BY <1>3, <1>4, <1>5, <1>6 DEF CallerStep

\* So does everything else.
LEMMA OtherLinks == ASSUME LinkedInv, OtherStep PROVE LinkedInv'
<1>0. RPTypes' /\ RPTypes BY OtherTyped DEF LinkedInv
<1>1. ASSUME UNCHANGED <<rp, shares>> PROVE LinkedInv'
  <2>1. Linked' \subseteq Linked /\ Sharers' \subseteq Sharers BY <1>1 DEF Linked, ActiveShares, Sharers
  <2> QED  BY <1>0, <2>1, LinkQuiet
<1>2. Linked = {i \in 1 .. Len(shares) : shares[i].live /\ shares[i].tier = "free"} BY <1>0, LinkedAre
<1>3. Linked' = {i \in 1 .. Len(shares') : shares'[i].live /\ shares'[i].tier = "free"}
  BY <1>0 DEF Linked, ActiveShares, RPTypes
<1>4. shares \in Seq(ShareRow) /\ Len(shares) \in Nat /\ DOMAIN shares = 1 .. Len(shares)
      /\ \A i \in 1 .. Len(shares) : shares[i] \in ShareRow BY <1>0 DEF RPTypes
<1>5. ASSUME NEW i \in DOMAIN shares, EndShare(i) PROVE LinkedInv'
  <2>1. shares' = [shares EXCEPT ![i] = [shares[i] EXCEPT !.live = FALSE]] /\ rp' = rp BY <1>5 DEF EndShare
  <2>2. [shares[i] EXCEPT !.live = FALSE] \in ShareRow /\ [shares[i] EXCEPT !.live = FALSE].live = FALSE BY <1>4, ShareColumns
  <2> DEFINE e == [shares[i] EXCEPT !.live = FALSE]
  <2> HIDE DEF e
  <2>3. Len(shares') = Len(shares) /\ \A j \in 1 .. Len(shares) : shares'[j] = IF j = i THEN e ELSE shares[j]
    BY <1>4, <2>1, <2>2, ExceptSeq DEF e
  <2>4. e.live = FALSE BY <2>2 DEF e
  <2>5. Linked' \subseteq Linked BY <1>2, <1>3, <1>4, <2>3, <2>4
  <2>6. Sharers' \subseteq Sharers BY <2>1 DEF Sharers
  <2> QED  BY <1>0, <2>5, <2>6, LinkQuiet
<1>6. ASSUME NEW s \in RScan, DeleteScan(s) PROVE LinkedInv'
  <2>1. shares' = [i \in 1 .. Len(shares) |-> [shares[i] EXCEPT !.live = @ /\ shares[i].scan # s]] /\ rp' = rp
    BY <1>4, <1>6 DEF DeleteScan
  <2>2. shares' \in Seq(ShareRow) BY <1>0 DEF RPTypes
  <2>3. Len(shares') = Len(shares) BY <1>4, <2>1, <2>2
  <2>4. \A i \in 1 .. Len(shares) : shares'[i].tier = shares[i].tier /\ (shares'[i].live => shares[i].live)
    <3> SUFFICES ASSUME NEW i \in 1 .. Len(shares) PROVE shares'[i].tier = shares[i].tier /\ (shares'[i].live => shares[i].live)
      OBVIOUS
    <3>1. shares[i] \in ShareRow /\ (shares[i].live /\ shares[i].scan # s) \in BOOLEAN BY <1>4
    <3>2. shares'[i] = [shares[i] EXCEPT !.live = shares[i].live /\ shares[i].scan # s] BY <2>1
    <3> QED  BY <3>1, <3>2, ShareColumns
  <2>5. Linked' \subseteq Linked BY <1>2, <1>3, <1>4, <2>3, <2>4
  <2>6. Sharers' \subseteq Sharers BY <2>1 DEF Sharers
  <2> QED  BY <1>0, <2>5, <2>6, LinkQuiet
<1>7. CASE Deploy
  <2>1. Linked' \subseteq Linked /\ Sharers' \subseteq Sharers BY <1>7, IdleTyped DEF Deploy, Linked, ActiveShares, Sharers
  <2> QED  BY <1>0, <2>1, LinkQuiet
<1> QED  BY <1>1, <1>5, <1>6, <1>7 DEF OtherStep, CompleteRScan, BuyReport, Subscribe, NewPeriod

\* So the links always exceed the limit by no more than the other callers.
LEMMA LinksAlways == RPSpec => []LinkedInv
<1>1. RPInit => LinkedInv
  <2> SUFFICES ASSUME RPInit PROVE LinkedInv OBVIOUS
  <2>1. RPTypes BY RPInitTypes
  <2>2. Sharers = {} /\ Linked = {} BY IdleTyped DEF RPInit, Sharers, Linked, ActiveShares
  <2> QED  BY <2>1, <2>2, Numbers, FS_EmptySet DEF LinkedInv, LinkInv
<1>2. LinkedInv /\ [RPNext]_rpVars => LinkedInv'
  <2>1. ASSUME LinkedInv, UNCHANGED rpVars PROVE LinkedInv'
    <3>1. Linked' \subseteq Linked /\ Sharers' \subseteq Sharers BY <2>1 DEF rpVars, Linked, ActiveShares, Sharers
    <3> QED  BY <2>1, <3>1, LinkQuiet, RPTypesNext DEF LinkedInv
  <2> QED  BY <2>1, RPActs, CallerLinks, OtherLinks
<1> QED  BY <1>1, <1>2, PTL DEF RPSpec

\* What is worked on, stored or linked is there for good, as long as nobody deletes it meanwhile.
Finished ==
  /\ \A c \in RPCaller : Works(c) => rscan[rp[c].scan] = "completed"
  /\ \A s \in RScan : reports[s] # <<>> => rscan[s] = "completed"

\* That stays so as long as nobody deletes it meanwhile.
LEMMA FinishedNext == ASSUME "delete" \in RPTimely, RPTypes, Finished, [RPNext]_rpVars PROVE Finished'
<1>1. \A c \in RPCaller : rp[c].pc # "idle" => rp[c].scan \in RScan BY DEF RPTypes
<1>2. ASSUME rscan' = rscan, reports' = reports,
             \A c \in RPCaller : Works(c)' => (Works(c) /\ rp'[c].scan = rp[c].scan) \/ rscan[rp'[c].scan] = "completed"
      PROVE Finished'
  BY <1>2 DEF Finished
<1>3. ASSUME NEW c \in RPCaller, BuildReport(c) \/ StoreNarrative(c) PROVE Finished'
  <2>1. Works(c) /\ rp[c].scan \in RScan /\ rscan' = rscan BY <1>1, <1>3 DEF BuildReport, StoreNarrative, Step, Works
  <2>2. rscan[rp[c].scan] = "completed" BY <2>1 DEF Finished
  <2>3. \A x \in RScan : x # rp[c].scan => reports'[x] = reports[x]
    BY <1>3, <2>1 DEF BuildReport, StoreNarrative, Persisted, RPTypes
  <2>4. \A d \in RPCaller : Works(d)' => Works(d) /\ rp'[d].scan = rp[d].scan
    <3> SUFFICES ASSUME NEW d \in RPCaller, Works(d)' PROVE Works(d) /\ rp'[d].scan = rp[d].scan OBVIOUS
    <3>1. CASE d # c BY <1>3, <3>1 DEF BuildReport, StoreNarrative, Step, RPTypes, Works
    <3>2. CASE d = c
      <4>1. rp[c] \in InWork BY DEF RPTypes
      <4>2. StoreNarrative(c) => rp'[c].pc = "idle" BY IdleTyped DEF StoreNarrative, Step, RPTypes
      <4>3. BuildReport(c) => rp'[c].scan = rp[c].scan BY <4>1, BusyFields DEF BuildReport, Step, RPTypes
      <4> QED  BY <1>3, <2>1, <3>2, <4>2, <4>3 DEF Works
    <3> QED  BY <3>1, <3>2
  <2> QED  BY <2>1, <2>2, <2>3, <2>4 DEF Finished
<1>4. ASSUME NEW c \in RPCaller, Gate(c) \/ Narrate(c) PROVE Finished'
  <2>1. rp[c] \in InWork /\ Works(c) /\ UNCHANGED <<rscan, reports>> BY <1>4 DEF RPTypes, Gate, Narrate, Step, Works
  <2>2. \A d \in RPCaller : d # c => rp'[d] = rp[d] BY <1>4 DEF Gate, Narrate, Step, RPTypes
  <2>3. rp'[c].pc = "idle" \/ rp'[c].scan = rp[c].scan
    <3>1. CASE Narrate(c) BY <2>1, <3>1, BusyFields DEF Narrate, Step, RPTypes
    <3>2. CASE Gate(c)
      <4>1. CASE Moved(c, RPIdle) BY <4>1, IdleTyped DEF Moved, RPTypes
      <4>2. ASSUME NEW tier \in Tiers, NEW forced \in BOOLEAN, Moved(c, [rp[c] EXCEPT !.pc = "call", !.tier = tier, !.forced = forced])
            PROVE rp'[c].scan = rp[c].scan
        BY <2>1, <4>2, BusyFields DEF Moved, RPTypes
      <4> QED  BY <3>2, <4>1, <4>2, GateMoves
    <3> QED  BY <1>4, <3>1, <3>2
  <2> QED  BY <1>2, <2>1, <2>2, <2>3 DEF Works
<1>5. ASSUME NEW c \in RPCaller, GiveUp(c) \/ CreateShare(c) PROVE Finished'
  <2>1. UNCHANGED <<rscan, reports>> /\ rp'[c].pc = "idle" /\ \A d \in RPCaller : d # c => rp'[d] = rp[d]
    BY <1>5, IdleTyped DEF GiveUp, CreateShare, Step, RPTypes
  <2> QED  BY <1>2, <2>1 DEF Works
<1>6. ASSUME NEW c \in RPCaller, NEW s \in RScan, View(c, s) PROVE Finished'
  <2>1. PICK to \in InWork : Viewed(c, s, to) BY <1>6, ViewMoves
  <2>2. UNCHANGED <<rscan, reports>> /\ rscan[s] = "completed" BY <1>6 DEF View
  <2>3. rp'[c].scan = s /\ \A d \in RPCaller : d # c => rp'[d] = rp[d] BY <2>1 DEF Viewed, Moved, RPTypes
  <2> QED  BY <1>2, <2>2, <2>3 DEF Works
<1>7. ASSUME NEW c \in RPCaller, NEW s \in RScan, AskShare(c, s) PROVE Finished'
  <2>1. UNCHANGED <<rscan, reports>> /\ \A d \in RPCaller : d # c => rp'[d] = rp[d] BY <1>7 DEF AskShare, Step, RPTypes
  <2>2. rp'[c].pc = "share" BY <1>7, IdleTyped, BusyFields DEF AskShare, Step, RPTypes
  <2> QED  BY <1>2, <2>1, <2>2 DEF Works
<1>8. ASSUME NEW s \in RScan, DeleteScan(s) PROVE Finished'
  <2>1. /\ rp' = rp /\ \A c \in RPCaller : rp[c].pc = "idle" \/ rp[c].scan # s
        /\ reports'[s] = <<>> /\ \A x \in RScan : x # s => rscan'[x] = rscan[x] /\ reports'[x] = reports[x]
    BY <1>8 DEF DeleteScan, RPTypes
  <2> QED  BY <1>1, <2>1 DEF Finished, Works
<1>9. ASSUME NEW s \in RScan, CompleteRScan(s) PROVE Finished'
  <2>1. UNCHANGED <<rp, reports>> /\ rscan'[s] = "completed" /\ \A x \in RScan : x # s => rscan'[x] = rscan[x]
    BY <1>9 DEF CompleteRScan, RPTypes
  <2> QED  BY <1>1, <2>1 DEF Finished, Works
<1>10. CASE Deploy
  <2>1. \A c \in RPCaller : rp'[c].pc = "idle" BY <1>10, IdleTyped DEF Deploy
  <2> QED  BY <1>10, <2>1 DEF Deploy, Finished, Works
<1>11. CASE (\E i \in DOMAIN shares : EndShare(i)) \/ (\E s \in RScan : BuyReport(s)) \/ Subscribe \/ NewPeriod \/ UNCHANGED rpVars
  <2>1. UNCHANGED <<rscan, reports, rp>> BY <1>11 DEF EndShare, BuyReport, Subscribe, NewPeriod, rpVars
  <2> QED  BY <1>2, <2>1 DEF Works
<1> QED  BY <1>3, <1>4, <1>5, <1>6, <1>7, <1>8, <1>9, <1>10, <1>11 DEF RPNext

(***************************************************************************)
(* Only the report of a completed scan is stored, no live link shows a     *)
(* scan that is gone, and the links made without a plan exceed their limit *)
(* by fewer than the callers, provided a scan is deleted while nobody      *)
(* works on it (routes_reports.py, create_report_share; reports/shares.py; *)
(* routes_admin.py, admin_delete_scan).                                    *)
(***************************************************************************)
THEOREM SharesSound == ASSUME "delete" \in RPTimely PROVE RPSpec => []SharedSoundly
<1>1. RPInit => Finished BY IdleTyped DEF RPInit, Finished, Works
<1>2. LinkedInv /\ Finished /\ [RPNext]_rpVars => Finished' BY FinishedNext DEF LinkedInv
<1>3. LinkedInv /\ Finished => SharedSoundly
  <2> SUFFICES ASSUME LinkedInv, Finished PROVE SharedSoundly OBVIOUS
  <2>1. \A i \in DOMAIN shares : shares[i] \in ShareRow BY DEF LinkedInv, RPTypes
  <2>2. \A i \in DOMAIN shares : Public(i) # "not found" => rscan[shares[i].scan] # "gone"
    BY <2>1 DEF Public, Finished, ShareRow
  <2>3. Sharers \in SUBSET RPCaller BY DEF Sharers
  <2>4. Cardinality(Sharers) \in Nat /\ Cardinality(Linked) \in Nat /\ Callers \in Nat /\ FreeShares \in Nat
    BY <2>3, Numbers, LinkedAre DEF LinkedInv
  <2>5. Cardinality(Linked) <= FreeShares + Callers - 1
    <3> HIDE DEF Sharers, Linked
    <3> QED  BY <2>4 DEF LinkedInv, LinkInv
  <2> QED  BY <2>2, <2>5 DEF SharedSoundly, Finished, Linked, Callers
<1> QED  BY <1>1, <1>2, <1>3, LinksAlways, PTL DEF RPSpec

(***************************************************************************)
(* All the promises of the reports together, under both conditions.        *)
(***************************************************************************)
THEOREM ReportsKept == ASSUME {"view", "delete"} \subseteq RPTimely PROVE RPSpec => []ReportsSound
<1>1. RPSpec => []NarrativesCapped BY Narratives
<1>2. RPSpec => []NarratedOnce BY NarrationsPaidOnce
<1>3. RPSpec => []SharedSoundly BY SharesSound
<1>4. NarrativesCapped /\ NarratedOnce /\ SharedSoundly => ReportsSound BY DEF ReportsSound
<1> QED  BY <1>1, <1>2, <1>3, <1>4, PTL
=============================================================================
