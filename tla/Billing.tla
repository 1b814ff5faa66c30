------------------------------ MODULE Billing ------------------------------
(***************************************************************************)
(* Webhook processing of billing/service.py for one organization: the      *)
(* event ledger that makes it idempotent, and the payments, subscriptions  *)
(* and invoices the events act on.                                         *)
(*                                                                         *)
(* The provider emits events, delivers each at least once and in any       *)
(* order, and delivers again until it gets a 2xx answer.  A delivery is    *)
(* handled by process_event in a thread of its own; every commit, and      *)
(* every read that a later commit relies on, is an action.  What an event  *)
(* is about may be missing from its payload: then the code finds no row.   *)
(*                                                                         *)
(* Not modelled: billing periods and cancel_at_period_end, on which no     *)
(* code acts, amounts, mails, and payments that only record a failure.     *)
(***************************************************************************)
EXTENDS Naturals, Sequences, FiniteSets, TLC

CONSTANTS
  Pro,        \* references of checkouts of the Pro plan
  Report,     \* references of checkouts of a one-time report
  Handler,    \* concurrent webhook requests
  MaxEvents,  \* bound of the model: events the provider emits
  MaxFaults   \* bound of the model: crashes and failing statements

ASSUME BillingAssumption ==
  /\ Pro \intersect Report = {}
  /\ IsFiniteSet(Handler)
  /\ MaxEvents \in Nat /\ MaxFaults \in Nat

VARIABLES
  payment,   \* the payments row of each checkout
  renewals,  \* how many renewal payments each event has added
  subs,      \* the subscriptions rows, oldest first
  invoices,  \* the invoices rows
  ledger,    \* the payment_events row of each event
  sent,      \* the events the provider has emitted
  acked,     \* those it has a 2xx answer for
  handler,   \* the webhook requests
  faults     \* how many faults have struck

vars == <<payment, renewals, subs, invoices, ledger, sent, acked, handler, faults>>

----------------------------------------------------------------------------

Checkout == Pro \union Report

\* Stripe's event types and the handlers they are mapped to: two raw types
\* mean a paid invoice, two an update of a subscription.
EventMap == [completed         |-> "checkout_completed",
             invoice_paid      |-> "invoice_paid",
             payment_succeeded |-> "invoice_paid",
             created           |-> "subscription_updated",
             updated           |-> "subscription_updated",
             deleted           |-> "subscription_cancelled",
             payment_failed    |-> "payment_failed",
             refunded          |-> "refund",
             dispute           |-> "chargeback",
             other             |-> "ignored"]

\* An event of a given type about a checkout or its subscription.  An id and
\* a payload are fixed when it is emitted: a redelivery is the same event.
Event == [type : DOMAIN EventMap, of : Checkout]
Handling(e) == EventMap[e.type]
Completed(c) == [type |-> "completed", of |-> c]
OfPayment(e) == e.type \in {"completed", "refunded", "dispute"}

SubStatus == {"active", "past_due", "canceled"}

NoEvent == [type |-> "none", of |-> "none"]

\* A request: where it is, its event, the subscription it loaded (0 for none)
\* with the status it saw, and the invoice number it drew
Request == [pc : {"idle", "record", "load", "pay", "find", "write", "count", "insert",
                  "finish", "respond"},
            event : Event \union {NoEvent}, row : Nat, saw : SubStatus, number : Nat]
Begun(e) == [pc |-> "record", event |-> e, row |-> 0, saw |-> "active", number |-> 0]
Resting == [pc |-> "idle", event |-> NoEvent, row |-> 0, saw |-> "active", number |-> 0]
Is(h, pc) == handler[h].pc = pc
Goto(h, pc) == handler' = [handler EXCEPT ![h] = IF pc = "idle" THEN Resting
                                                 ELSE [@ EXCEPT !.pc = pc]]
E(h) == handler[h].event

ActiveSubs == {n \in 1 .. Len(subs) : subs[n].status = "active"}
SubsOf(c) == {n \in 1 .. Len(subs) : subs[n].of = c}
Numbers == {i.number : i \in invoices}

Init ==
  /\ payment = [c \in Checkout |-> "none"]
  /\ renewals = [e \in Event |-> 0]
  /\ subs = <<>>
  /\ invoices = {}
  /\ ledger = [e \in Event |-> "absent"]
  /\ sent = {} /\ acked = {}
  /\ handler = [h \in Handler |-> Resting]
  /\ faults = 0

----------------------------------------------------------------------------
(* The user and the provider *)

CreateCheckout ==
  \E c \in Checkout :
    /\ payment[c] = "none"
    /\ c \in Pro => ActiveSubs = {}
    /\ Completed(c) \notin sent
    /\ payment' = [payment EXCEPT ![c] = "pending"]
    /\ UNCHANGED <<renewals, subs, invoices, ledger, sent, acked, handler, faults>>

\* A checkout is completed before anything else happens to it.  A completed
\* checkout that has no payment was not created here.
Emit ==
  \E e \in Event :
    /\ e \notin sent
    /\ Cardinality(sent) < MaxEvents
    /\ e.type # "completed" => Completed(e.of) \in sent
    /\ e.of \in Report => OfPayment(e)
    /\ sent' = sent \union {e}
    /\ UNCHANGED <<payment, renewals, subs, invoices, ledger, acked, handler, faults>>

----------------------------------------------------------------------------
(* process_event *)

\* A delivery arrives; one of an event that has been processed is a duplicate.
Deliver(h, e) ==
  /\ Is(h, "idle")
  /\ e \in sent \ acked
  /\ IF ledger[e] = "processed"
     THEN acked' = acked \union {e} /\ UNCHANGED handler
     ELSE handler' = [handler EXCEPT ![h] = Begun(e)] /\ UNCHANGED acked
  /\ UNCHANGED <<payment, renewals, subs, invoices, ledger, sent, faults>>

\* Wrong: the id is not unique, only looked up.
RecordBlind(h) ==
  /\ Is(h, "record")
  /\ ledger' = [ledger EXCEPT ![E(h)] = "recorded"]
  /\ Goto(h, "load")
  /\ UNCHANGED <<payment, renewals, subs, invoices, sent, acked, faults>>

\* The row is inserted, or the unique id is taken and the request answers 500.
Record(h) ==
  /\ Is(h, "record")
  /\ IF ledger[E(h)] = "absent"
     THEN ledger' = [ledger EXCEPT ![E(h)] = "recorded"] /\ Goto(h, "load")
     ELSE UNCHANGED ledger /\ Goto(h, "idle")
  /\ UNCHANGED <<payment, renewals, subs, invoices, sent, acked, faults>>

\* The event is marked as processed, and answered.
Finish(h) ==
  /\ Is(h, "finish")
  /\ ledger' = [ledger EXCEPT ![E(h)] = "processed"]
  /\ Goto(h, "respond")
  /\ UNCHANGED <<payment, renewals, subs, invoices, sent, acked, faults>>

Respond(h) ==
  /\ Is(h, "respond")
  /\ acked' = acked \union {E(h)}
  /\ Goto(h, "idle")
  /\ UNCHANGED <<payment, renewals, subs, invoices, ledger, sent, faults>>

\* The process dies, a statement fails or the answer is lost.  What is
\* committed stays, and the row of the event is not marked as processed.
Fail(h) ==
  /\ ~ Is(h, "idle")
  /\ faults < MaxFaults
  /\ faults' = faults + 1
  /\ Goto(h, "idle")
  /\ UNCHANGED <<payment, renewals, subs, invoices, ledger, sent, acked>>

----------------------------------------------------------------------------
(* The handlers.  Each begins by loading the row its event is about.       *)

Holding(h, n) == [pc |-> "write", event |-> E(h), row |-> n, saw |-> subs[n].status, number |-> 0]
Loaded(h, n) == handler' = [handler EXCEPT ![h] = Holding(h, n)]
NothingDone == UNCHANGED <<payment, renewals, subs, invoices, ledger, sent, acked, faults>>

\* Wrong: a checkout of an unknown reference returns quietly.
LoadCheckoutQuiet(h) ==
  /\ Is(h, "load") /\ Handling(E(h)) = "checkout_completed"
  /\ Goto(h, IF payment[E(h).of] \in {"none", "succeeded"} THEN "finish" ELSE "pay")
  /\ NothingDone

\* A completed checkout of an unknown reference raises.
LoadCheckout(h) ==
  LET status == payment[E(h).of] IN
  /\ Is(h, "load") /\ Handling(E(h)) = "checkout_completed"
  /\ Goto(h, CASE status = "none" -> "idle"
               [] status = "succeeded" -> "finish"
               [] OTHER -> "pay")
  /\ NothingDone

\* A refund or a dispute of a payment that is not found is ignored.
LoadPayment(h) ==
  /\ Is(h, "load") /\ Handling(E(h)) \in {"refund", "chargeback"}
  /\ \/ payment[E(h).of] # "none" /\ Goto(h, "pay")
     \/ Goto(h, "finish")
  /\ NothingDone

\* The subscription by its id at the provider; only updates, cancellations and
\* failures fall back to the active one of the organization they name.
LoadSub(h) ==
  /\ Is(h, "load")
  /\ Handling(E(h)) \in {"invoice_paid", "subscription_updated", "subscription_cancelled",
                         "payment_failed"}
  /\ \/ \E n \in SubsOf(E(h).of) : Loaded(h, n)
     \/ /\ Handling(E(h)) # "invoice_paid"
        /\ \E n \in ActiveSubs : Loaded(h, n)
     \/ Goto(h, "finish")
  /\ NothingDone

LoadNothing(h) ==
  /\ Is(h, "load") /\ Handling(E(h)) = "ignored"
  /\ Goto(h, "finish")
  /\ NothingDone

\* What a payment becomes is committed before anything else happens.  Only a
\* dispute goes on to the subscription whatever was paid.
Pay(h) ==
  LET handling == Handling(E(h)) IN
  /\ Is(h, "pay")
  /\ payment' = [payment EXCEPT ![E(h).of] =
                   CASE handling = "checkout_completed" -> "succeeded"
                     [] handling = "refund" -> "refunded"
                     [] handling = "chargeback" -> "disputed"]
  /\ Goto(h, IF E(h).of \in Pro \/ handling = "chargeback" THEN "find"
             ELSE IF handling = "checkout_completed" THEN "count"
             ELSE "finish")
  /\ UNCHANGED <<renewals, subs, invoices, ledger, sent, acked, faults>>

\* current_active_pro: any active row
Find(h) ==
  /\ Is(h, "find")
  /\ \/ \E n \in ActiveSubs : Loaded(h, n)
     \/ /\ ActiveSubs = {}
        /\ Goto(h, IF Handling(E(h)) = "checkout_completed" THEN "write" ELSE "finish")
  /\ NothingDone

\* A first subscription
Subscribe(h) ==
  /\ Is(h, "write") /\ handler[h].row = 0
  /\ subs' = Append(subs, [of |-> E(h).of, status |-> "active"])
  /\ Goto(h, "count")
  /\ UNCHANGED <<payment, renewals, invoices, ledger, sent, acked, faults>>

\* The status an event may set.  An update carries any status, or none.
NewStatus(h) ==
  LET handling == Handling(E(h)) IN
  CASE handling \in {"checkout_completed", "invoice_paid"} -> {"active"}
    [] handling = "payment_failed" -> {"past_due"}
    [] handling = "subscription_updated" -> SubStatus
    [] OTHER -> {"canceled"}

\* The session writes the status if it differs from the one it loaded.  A
\* renewal is paid in the same commit.
SetStatus(h) ==
  LET paid == Handling(E(h)) = "invoice_paid" IN
  /\ Is(h, "write") /\ handler[h].row # 0
  /\ \E status \in NewStatus(h) :
       subs' = IF status = handler[h].saw THEN subs
               ELSE [subs EXCEPT ![handler[h].row].status = status]
  /\ renewals' = [renewals EXCEPT ![E(h)] = IF paid THEN @ + 1 ELSE @]
  /\ Goto(h, IF paid \/ Handling(E(h)) = "checkout_completed" THEN "count" ELSE "finish")
  /\ UNCHANGED <<payment, invoices, ledger, sent, acked, faults>>

\* _create_invoice: the number is one more than the invoices there are ...
Count(h) ==
  /\ Is(h, "count")
  /\ handler' = [handler EXCEPT ![h] = [@ EXCEPT !.pc = "insert",
                                                !.number = Cardinality(invoices) + 1]]
  /\ NothingDone

\* Wrong: the number is not unique.
InsertBlind(h) ==
  /\ Is(h, "insert")
  /\ invoices' = invoices \union {[number |-> handler[h].number, event |-> E(h)]}
  /\ Goto(h, "finish")
  /\ UNCHANGED <<payment, renewals, subs, ledger, sent, acked, faults>>

\* ... and if another request has used it meanwhile, the handler raises.
Insert(h) ==
  /\ Is(h, "insert")
  /\ IF handler[h].number \in Numbers
     THEN UNCHANGED invoices /\ Goto(h, "idle")
     ELSE /\ invoices' = invoices \union {[number |-> handler[h].number, event |-> E(h)]}
          /\ Goto(h, "finish")
  /\ UNCHANGED <<payment, renewals, subs, ledger, sent, acked, faults>>

Load(h) == LoadCheckout(h) \/ LoadPayment(h) \/ LoadSub(h) \/ LoadNothing(h)
Apply(h) == Pay(h) \/ Find(h) \/ Subscribe(h) \/ SetStatus(h) \/ Count(h) \/ Insert(h)
Work(h) == Record(h) \/ Load(h) \/ Apply(h) \/ Finish(h) \/ Respond(h)

Next ==
  \/ CreateCheckout
  \/ Emit
  \/ \E h \in Handler : Work(h) \/ Fail(h) \/ (\E e \in Event : Deliver(h, e))

Spec == Init /\ [][Next]_vars

\* A request that has begun goes on, and an event is delivered again until it
\* is answered.  No user and no provider has to do anything.
FairSpec ==
  /\ Spec
  /\ \A h \in Handler : WF_vars(Work(h))
  /\ \A e \in Event : SF_vars(\E h \in Handler : Deliver(h, e))

----------------------------------------------------------------------------
(* Properties *)

TypeOK ==
  /\ payment \in [Checkout -> {"none", "pending", "succeeded", "refunded", "disputed"}]
  /\ renewals \in [Event -> Nat]
  /\ subs \in Seq([of : Pro, status : SubStatus])
  /\ IsFiniteSet(invoices)
  /\ invoices \subseteq [number : Nat, event : Event]
  /\ ledger \in [Event -> {"absent", "recorded", "processed"}]
  /\ sent \subseteq Event /\ acked \subseteq sent
  /\ handler \in [Handler -> Request]
  /\ \A h \in Handler : handler[h].row \in 0 .. Len(subs)
  /\ faults \in 0 .. MaxFaults

\* However often and however concurrently an event is delivered, it adds at
\* most one invoice, one renewal payment and one subscription.
AppliedOnce ==
  /\ \A e \in Event : renewals[e] <= 1
  /\ \A i, j \in invoices : i.event = j.event => i = j
  /\ \A m, n \in 1 .. Len(subs) : subs[m].of = subs[n].of => m = n

\* The invoice numbers are unique and without a gap, though they are drawn
\* from a count and used later.
InvoiceNumbers ==
  /\ Numbers = 1 .. Cardinality(invoices)
  /\ \A i, j \in invoices : i.number = j.number => i = j

\* A checkout whose event is marked as processed has been applied as a whole:
\* it is paid (or paid back since), invoiced, and a subscription exists.
Paid(c) == payment[c] \in {"succeeded", "refunded", "disputed"}
Invoiced(e) == \E i \in invoices : i.event = e
ProcessedApplied ==
  \A c \in Checkout :
    ledger[Completed(c)] = "processed" =>
      Paid(c) /\ Invoiced(Completed(c)) /\ (c \in Pro => subs # <<>>)

\* Violated: a paid checkout is applied in the end, since the provider delivers
\* its event again until it is answered.
PaidIsApplied ==
  \A c \in Checkout :
    (Completed(c) \in sent /\ payment[c] # "none")
      ~> (ledger[Completed(c)] = "processed")

\* Requests are interchangeable, so are the Pro checkouts.
Symmetry == Permutations(Handler) \union Permutations(Pro)
=============================================================================
