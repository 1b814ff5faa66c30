--------------------------- MODULE BillingProofs ---------------------------
(***************************************************************************)
(* Proofs about Billing, for any number of checkouts, events, concurrent   *)
(* requests and faults: an event is applied at most once, an event marked  *)
(* as processed has been applied as a whole, and the invoice numbers are   *)
(* those from 1 to the number of invoices.                                 *)
(***************************************************************************)
EXTENDS Billing, FiniteSetTheorems, SequenceTheorems, TLAPS

\* What a request knows at each of its steps: what it has passed is done, what
\* it is about to do for its event has not been done.
Attempting(r) == r.pc \notin {"idle", "record"}
Unpaid(e) == e.type = "completed" => payment[e.of] # "succeeded"
Unwritten(e) == renewals[e] = 0 /\ (e.type = "completed" => SubsOf(e.of) = {})
Sound(r) ==
  /\ r.pc # "idle" => r.event \in sent
  /\ Attempting(r) => ledger[r.event] # "absent"
  /\ r.pc = "pay" => OfPayment(r.event)
  /\ r.pc = "write" /\ r.row = 0 => r.event.type = "completed"
  /\ r.pc \in {"load", "pay"} => Unpaid(r.event)
  /\ r.pc \in {"load", "pay", "find", "write"} => Unwritten(r.event)
  /\ r.pc \in {"load", "pay", "find", "write", "count", "insert"} => ~ Invoiced(r.event)
  /\ r.pc = "insert" => r.number \in 1 .. Cardinality(invoices) + 1
  /\ Attempting(r) /\ r.event.type = "completed" =>
       /\ r.pc \in {"find", "write"} => r.event.of \in Pro
       /\ r.pc \notin {"load", "pay"} => Paid(r.event.of)
       /\ r.pc \in {"count", "insert", "finish", "respond"} /\ r.event.of \in Pro => subs # <<>>
       /\ r.pc \in {"finish", "respond"} => Invoiced(r.event)

\* Only one request ever attempts an event, and no row exists of an event that
\* nobody has attempted.
Exclusive ==
  \A g, h \in Handler :
    Attempting(handler[g]) /\ Attempting(handler[h]) /\ E(g) = E(h) => g = h
Untouched ==
  \A e \in Event : ledger[e] = "absent" => Unpaid(e) /\ Unwritten(e) /\ ~ Invoiced(e)

(***************************************************************************)
(* The inductive invariant: a request that has inserted the row of its     *)
(* event (process_event, billing/service.py:130-133) is the only one ever  *)
(* to attempt it, and each step of its handler finds the event's payment,  *)
(* subscription and invoice as the steps before have left them.            *)
(***************************************************************************)
IInv ==
  /\ TypeOK
  /\ \A h \in Handler : Sound(handler[h])
  /\ Exclusive /\ Untouched
  /\ AppliedOnce /\ InvoiceNumbers /\ ProcessedApplied

----------------------------------------------------------------------------
Data == <<payment, renewals, subs, invoices, ledger, sent>>

\* What Resting and a begun request are
LEMMA RequestTypes ==
  /\ Resting \in Request
  /\ \A e \in Event : Begun(e) \in Request
BY DEF Resting, Begun, Request, SubStatus

\* The invariant holds initially.
LEMMA InitInv == Init => IInv
<1> SUFFICES ASSUME Init PROVE IInv
  OBVIOUS
<1>1. TypeOK
  BY RequestTypes, FS_EmptySet, BillingAssumption DEF Init, TypeOK, Resting
<1>2. \A h \in Handler : Sound(handler[h])
  BY DEF Init, Sound, Resting, Attempting
<1>3. Exclusive
  BY DEF Init, Exclusive, Resting, Attempting
<1>4. Untouched
  BY DEF Init, Untouched, Unpaid, Unwritten, Invoiced, SubsOf, Event
<1>5. AppliedOnce
  BY DEF Init, AppliedOnce
<1>6. InvoiceNumbers
  BY FS_EmptySet DEF Init, InvoiceNumbers, Numbers
<1>7. ProcessedApplied
  BY DEF Init, ProcessedApplied, Event, Completed, EventMap
<1> QED BY <1>1, <1>2, <1>3, <1>4, <1>5, <1>6, <1>7 DEF IInv

\* A step of one request that changes no row keeps the invariant if the request
\* knows what it claims to and does not start to attempt an event.
LEMMA Moved ==
  ASSUME IInv, NEW h \in Handler, NEW r \in Request,
         handler' = [handler EXCEPT ![h] = r],
         UNCHANGED Data, acked' \subseteq sent, faults' \in 0 .. MaxFaults,
         r.row \in 0 .. Len(subs), Sound(r),
         Attempting(r) => Attempting(handler[h]) /\ r.event = E(h)
  PROVE  IInv'
<1>1. TypeOK'
  BY DEF IInv, TypeOK, Data
<1>2. (\A g \in Handler : Sound(handler[g]))'
  <2> SUFFICES ASSUME NEW g \in Handler PROVE Sound(handler'[g])
    BY DEF Sound, Unpaid, Unwritten, Invoiced, Paid, SubsOf, Data
  <2> QED BY DEF IInv, TypeOK
<1>3. Exclusive'
  BY DEF IInv, TypeOK, Exclusive, E
<1>4. Untouched'
  BY DEF IInv, Untouched, Unpaid, Unwritten, Invoiced, SubsOf, Data
<1>5. AppliedOnce' /\ InvoiceNumbers' /\ ProcessedApplied'
  BY DEF IInv, AppliedOnce, InvoiceNumbers, Numbers, ProcessedApplied, Paid, Invoiced, Data
<1> QED BY <1>1, <1>2, <1>3, <1>4, <1>5 DEF IInv

Step == {"load", "pay", "find", "write", "count", "insert", "finish", "respond"}

\* A request at rest has nothing to know.
LEMMA RestingSound == Sound(Resting)
BY DEF Sound, Resting, Attempting

\* Giving up keeps the invariant, whatever the request was at.
LEMMA GivesUp ==
  ASSUME IInv, NEW h \in Handler, Goto(h, "idle"), UNCHANGED Data,
         acked' \subseteq sent, faults' \in 0 .. MaxFaults
  PROVE  IInv'
<1>1. handler' = [handler EXCEPT ![h] = Resting]
  BY DEF Goto
<1>2. Resting.row \in 0 .. Len(subs) /\ ~ Attempting(Resting)
  BY DEF IInv, TypeOK, Resting, Attempting
<1> QED BY <1>1, <1>2, Moved, RequestTypes, RestingSound DEF Data

\* So does a next step of an attempt, if the request knows what it claims to.
LEMMA GoesOn ==
  ASSUME IInv, NEW h \in Handler, NEW pc \in Step, Goto(h, pc), UNCHANGED Data,
         Attempting(handler[h]), Sound([handler[h] EXCEPT !.pc = pc]),
         acked' \subseteq sent, faults' \in 0 .. MaxFaults
  PROVE  IInv'
<1> DEFINE r == [handler[h] EXCEPT !.pc = pc]
<1>1. handler' = [handler EXCEPT ![h] = r]
  BY DEF Goto, Step, IInv, TypeOK
<1>2. handler[h] \in Request /\ handler[h].row \in 0 .. Len(subs)
  BY DEF IInv, TypeOK
<1>3. r \in Request /\ r.row = handler[h].row /\ r.event = E(h)
  BY <1>2 DEF Request, Step, E
<1> QED BY <1>1, <1>2, <1>3, Moved

\* And the loading of a subscription row.
LEMMA Loads ==
  ASSUME IInv, NEW h \in Handler, NEW n \in 1 .. Len(subs), Loaded(h, n), NothingDone,
         Attempting(handler[h]), Sound(Holding(h, n))
  PROVE  IInv'
<1> DEFINE r == Holding(h, n)
<1>0. handler[h] \in Request /\ subs[n].status \in SubStatus
  <2>1. subs[n] \in [of : Pro, status : SubStatus]
    BY ElementOfSeq DEF IInv, TypeOK
  <2> QED BY <2>1 DEF IInv, TypeOK
<1>1. handler' = [handler EXCEPT ![h] = r]
  BY DEF Loaded
<1>2. r \in Request /\ r.row = n /\ r.event = E(h) /\ n \in 0 .. Len(subs)
  BY <1>0, LenProperties DEF Holding, Request, E, IInv, TypeOK
<1>3. Sound(r)
  OBVIOUS
<1>4. acked' \subseteq sent /\ faults' \in 0 .. MaxFaults
  BY DEF NothingDone, IInv, TypeOK
<1> QED BY <1>1, <1>2, <1>3, <1>4, Moved DEF NothingDone, Data

\* What every attempt knows of its event and of itself
LEMMA AttemptFacts ==
  ASSUME IInv, NEW h \in Handler
  PROVE  /\ handler[h] \in Request
         /\ Sound(handler[h])
         /\ Attempting(handler[h]) => E(h) \in Event /\ E(h).of \in Checkout
         /\ sent \subseteq Event /\ acked \subseteq sent /\ faults \in 0 .. MaxFaults
BY DEF IInv, TypeOK, Sound, E, Event, Attempting

----------------------------------------------------------------------------
(* The actions that change no payment, subscription, invoice or event *)

\* A delivery is a duplicate or a new request (Deliver).
LEMMA DeliverInv ==
  ASSUME IInv, NEW h \in Handler, NEW e \in Event, Deliver(h, e)
  PROVE  IInv'
<1> USE AttemptFacts
<1>1. CASE ledger[e] = "processed"
  <2>1. handler' = [handler EXCEPT ![h] = handler[h]]
    BY <1>1 DEF Deliver, IInv, TypeOK
  <2>2. handler[h].row \in 0 .. Len(subs)
    BY DEF IInv, TypeOK
  <2> QED BY <1>1, <2>1, <2>2, Moved DEF Deliver, Data, E
<1>2. CASE ledger[e] # "processed"
  <2>1. handler' = [handler EXCEPT ![h] = Begun(e)]
    BY <1>2 DEF Deliver
  <2>2. Sound(Begun(e)) /\ ~ Attempting(Begun(e)) /\ Begun(e).row \in 0 .. Len(subs)
    BY LenProperties DEF Deliver, Begun, Sound, Attempting, IInv, TypeOK
  <2> QED BY <1>2, <2>1, <2>2, Moved, RequestTypes DEF Deliver, Data
<1> QED BY <1>1, <1>2

\* The event is answered (Respond).
LEMMA RespondInv ==
  ASSUME IInv, NEW h \in Handler, Respond(h)
  PROVE  IInv'
<1>1. E(h) \in sent
  BY AttemptFacts DEF Sound, Respond, Is, E
<1> QED BY <1>1, AttemptFacts, GivesUp DEF Respond, Data

\* A fault (Fail)
LEMMA FailInv ==
  ASSUME IInv, NEW h \in Handler, Fail(h)
  PROVE  IInv'
<1>1. faults' \in 0 .. MaxFaults
  BY BillingAssumption, AttemptFacts DEF Fail
<1> QED BY <1>1, AttemptFacts, GivesUp DEF Fail, Data

\* Loading the payment of a completed checkout (LoadCheckout): it cannot be
\* succeeded already.
LEMMA LoadCheckoutInv ==
  ASSUME IInv, NEW h \in Handler, LoadCheckout(h)
  PROVE  IInv'
<1> USE AttemptFacts
<1>1. E(h).type = "completed" /\ handler[h].pc = "load" /\ Attempting(handler[h])
  BY DEF LoadCheckout, Is, Handling, EventMap, Event, Attempting
<1>2. payment[E(h).of] # "succeeded"
  BY <1>1 DEF Sound, Unpaid, E
<1>3. CASE payment[E(h).of] = "none"
  BY <1>3, GivesUp DEF LoadCheckout, NothingDone, Data
<1>4. CASE payment[E(h).of] # "none"
  <2>1. Goto(h, "pay")
    BY <1>2, <1>4 DEF LoadCheckout
  <2>2. Sound([handler[h] EXCEPT !.pc = "pay"])
    BY <1>1 DEF Sound, Request, Attempting, OfPayment, E
  <2> QED BY <1>1, <2>1, <2>2, GoesOn DEF LoadCheckout, NothingDone, Data, Step
<1> QED BY <1>3, <1>4

\* Loading the payment of a refund or a dispute (LoadPayment)
LEMMA LoadPaymentInv ==
  ASSUME IInv, NEW h \in Handler, LoadPayment(h)
  PROVE  IInv'
<1> USE AttemptFacts
<1>1. handler[h].pc = "load" /\ Attempting(handler[h]) /\ E(h) \in Event
  BY DEF LoadPayment, Is, Attempting
<1>2. E(h).type \in {"refunded", "dispute"}
  BY <1>1 DEF LoadPayment, Handling, EventMap, Event
<1>3. \A pc \in {"pay", "finish"} : Sound([handler[h] EXCEPT !.pc = pc])
  BY <1>1, <1>2 DEF Sound, Request, Attempting, OfPayment, Unpaid, E
<1>4. \E pc \in {"pay", "finish"} : Goto(h, pc)
  BY DEF LoadPayment
<1> QED BY <1>1, <1>3, <1>4, GoesOn DEF LoadPayment, NothingDone, Data, Step

\* Loading the subscription of an event (LoadSub)
LEMMA LoadSubInv ==
  ASSUME IInv, NEW h \in Handler, LoadSub(h)
  PROVE  IInv'
<1> USE AttemptFacts
<1>1. handler[h].pc = "load" /\ Attempting(handler[h]) /\ E(h) \in Event
  BY DEF LoadSub, Is, Attempting
<1>2. E(h).type # "completed"
  BY <1>1 DEF LoadSub, Handling, EventMap, Event
<1>3. CASE Goto(h, "finish")
  <2>1. Sound([handler[h] EXCEPT !.pc = "finish"])
    BY <1>1, <1>2 DEF Sound, Request, Attempting, E
  <2> QED BY <1>1, <1>3, <2>1, GoesOn DEF LoadSub, NothingDone, Data, Step
<1>4. CASE \E n \in 1 .. Len(subs) : Loaded(h, n)
  <2>1. PICK n \in 1 .. Len(subs) : Loaded(h, n)
    BY <1>4
  <2>2. n # 0
    BY LenProperties DEF IInv, TypeOK
  <2>3. Sound(Holding(h, n))
    BY <1>1, <1>2, <2>2 DEF Sound, Request, Attempting, E, Holding
  <2> QED BY <1>1, <2>1, <2>3, Loads DEF LoadSub
<1> QED BY <1>3, <1>4 DEF LoadSub, SubsOf, ActiveSubs

\* An event that has no handler (LoadNothing)
LEMMA LoadNothingInv ==
  ASSUME IInv, NEW h \in Handler, LoadNothing(h)
  PROVE  IInv'
<1> USE AttemptFacts
<1>1. handler[h].pc = "load" /\ Attempting(handler[h]) /\ E(h) \in Event
  BY DEF LoadNothing, Is, Attempting
<1>2. E(h).type # "completed"
  BY <1>1 DEF LoadNothing, Handling, EventMap, Event
<1>3. Sound([handler[h] EXCEPT !.pc = "finish"])
  BY <1>1, <1>2 DEF Sound, Request, Attempting, E
<1> QED BY <1>1, <1>3, GoesOn DEF LoadNothing, NothingDone, Data, Step

\* Looking for the active subscription (Find)
LEMMA FindInv ==
  ASSUME IInv, NEW h \in Handler, Find(h)
  PROVE  IInv'
<1> USE AttemptFacts
<1>1. handler[h].pc = "find" /\ Attempting(handler[h]) /\ E(h) \in Event
  BY DEF Find, Is, Attempting
<1>2. Handling(E(h)) = "checkout_completed" <=> E(h).type = "completed"
  BY <1>1 DEF Handling, EventMap, Event
<1>3. CASE \E n \in ActiveSubs : Loaded(h, n)
  <2>1. PICK n \in 1 .. Len(subs) : Loaded(h, n)
    BY <1>3 DEF ActiveSubs
  <2>2. n # 0
    BY LenProperties DEF IInv, TypeOK
  <2>3. Sound(Holding(h, n))
    BY <1>1, <2>2 DEF Sound, Request, Attempting, E, Holding
  <2> QED BY <1>1, <2>1, <2>3, Loads DEF Find
<1>4. CASE E(h).type = "completed" /\ Goto(h, "write")
  <2>1. Sound([handler[h] EXCEPT !.pc = "write"])
    BY <1>1, <1>4 DEF Sound, Request, Attempting, E
  <2> QED BY <1>1, <1>4, <2>1, GoesOn DEF Find, NothingDone, Data, Step
<1>5. CASE E(h).type # "completed" /\ Goto(h, "finish")
  <2>1. Sound([handler[h] EXCEPT !.pc = "finish"])
    BY <1>1, <1>5 DEF Sound, Request, Attempting, E
  <2> QED BY <1>1, <1>5, <2>1, GoesOn DEF Find, NothingDone, Data, Step
<1> QED BY <1>2, <1>3, <1>4, <1>5 DEF Find

\* Drawing an invoice number (Count)
LEMMA CountInv ==
  ASSUME IInv, NEW h \in Handler, Count(h)
  PROVE  IInv'
<1> USE AttemptFacts
<1> DEFINE n == Cardinality(invoices) + 1
           r == [handler[h] EXCEPT !.pc = "insert", !.number = n]
<1>1. handler[h].pc = "count" /\ Attempting(handler[h]) /\ E(h) \in Event
  BY DEF Count, Is, Attempting
<1>2. n \in Nat /\ n \in 1 .. n
  BY FS_CardinalityType DEF IInv, TypeOK
<1>3. r \in Request /\ r.row = handler[h].row /\ r.event = E(h) /\ r.pc = "insert" /\ r.number = n
  BY <1>2 DEF Request, E
<1>4. Sound(r)
  BY <1>1, <1>2, <1>3 DEF Sound, Attempting, E
<1>5. handler' = [handler EXCEPT ![h] = r]
  BY DEF Count
<1>6. r.row \in 0 .. Len(subs)
  BY <1>3 DEF IInv, TypeOK
<1> QED BY <1>1, <1>3, <1>4, <1>5, <1>6, Moved DEF Count, NothingDone, Data

----------------------------------------------------------------------------
(* The actions that change rows *)

\* The event that completes a checkout is determined by the checkout.
LEMMA TheCompletion ==
  ASSUME NEW e \in Event, e.type = "completed"
  PROVE  e = Completed(e.of) /\ e.of \in Checkout
BY DEF Event, Completed

\* A new payment is pending (CreateCheckout).
LEMMA CreateCheckoutInv ==
  ASSUME IInv, CreateCheckout
  PROVE  IInv'
<1>0. PICK c \in Checkout : /\ payment[c] = "none"
                            /\ payment' = [payment EXCEPT ![c] = "pending"]
  BY DEF CreateCheckout
<1>1. UNCHANGED <<renewals, subs, invoices, ledger, sent, acked, handler, faults>>
  BY DEF CreateCheckout
<1>2. /\ payment \in [Checkout -> {"none", "pending", "succeeded", "refunded", "disputed"}]
      /\ \A x \in Checkout : Paid(x) => Paid(x)'
      /\ \A e \in Event : Unpaid(e) => Unpaid(e)'
      /\ sent \subseteq Event
  BY <1>0, TheCompletion DEF IInv, TypeOK, Paid, Unpaid
<1>3. TypeOK'
  BY <1>0, <1>1 DEF IInv, TypeOK
<1>4. (\A h \in Handler : Sound(handler[h]))'
  <2> SUFFICES ASSUME NEW h \in Handler PROVE Sound(handler[h])'
    OBVIOUS
  <2>1. Sound(handler[h]) /\ handler[h] \in Request
    BY DEF IInv, TypeOK
  <2>2. handler[h].pc # "idle" => handler[h].event \in Event /\ handler[h].event.of \in Checkout
    BY <1>2, <2>1 DEF Sound, Event
  <2> QED BY <1>1, <1>2, <2>1, <2>2 DEF Sound, Attempting, Unwritten, Invoiced, SubsOf
<1>5. Exclusive' /\ Untouched'
  BY <1>1, <1>2 DEF IInv, Exclusive, Untouched, Unwritten, Invoiced, SubsOf, E
<1>6. AppliedOnce' /\ InvoiceNumbers' /\ ProcessedApplied'
  BY <1>1, <1>2 DEF IInv, AppliedOnce, InvoiceNumbers, Numbers, ProcessedApplied, Invoiced
<1> QED BY <1>3, <1>4, <1>5, <1>6 DEF IInv

\* The provider emits an event (Emit).
LEMMA EmitInv ==
  ASSUME IInv, Emit
  PROVE  IInv'
<1>1. UNCHANGED <<payment, renewals, subs, invoices, ledger, acked, handler, faults>>
  BY DEF Emit
<1>2. sent \subseteq sent' /\ sent' \subseteq Event
  BY DEF Emit, IInv, TypeOK
<1>3. TypeOK'
  BY <1>1, <1>2 DEF IInv, TypeOK
<1>4. (\A h \in Handler : Sound(handler[h]))'
  BY <1>1, <1>2 DEF IInv, Sound, Unpaid, Unwritten, Invoiced, Paid, SubsOf
<1>5. Exclusive' /\ Untouched'
  BY <1>1 DEF IInv, Exclusive, Untouched, Unpaid, Unwritten, Invoiced, SubsOf, E
<1>6. AppliedOnce' /\ InvoiceNumbers' /\ ProcessedApplied'
  BY <1>1 DEF IInv, AppliedOnce, InvoiceNumbers, Numbers, ProcessedApplied, Paid, Invoiced
<1> QED BY <1>3, <1>4, <1>5, <1>6 DEF IInv

\* What a change of a request's place does to the requests
LEMMA GotoEffect ==
  ASSUME IInv, NEW h \in Handler, NEW pc \in Step, Goto(h, pc)
  PROVE  /\ handler' \in [Handler -> Request]
         /\ \A g \in Handler : g # h => handler'[g] = handler[g]
         /\ \A g \in Handler : handler'[g].event = handler[g].event
                               /\ handler'[g].row = handler[g].row
                               /\ handler'[g].number = handler[g].number
         /\ handler'[h].pc = pc
<1> DEFINE r == [handler[h] EXCEPT !.pc = pc]
<1>1. handler' = [handler EXCEPT ![h] = r]
  BY DEF Goto, Step
<1>2. handler[h] \in Request /\ handler \in [Handler -> Request]
  BY DEF IInv, TypeOK
<1>3. r \in Request /\ r.row = handler[h].row /\ r.event = handler[h].event
      /\ r.number = handler[h].number /\ r.pc = pc
  BY <1>2 DEF Request, Step
<1> QED BY <1>1, <1>2, <1>3

\* The row of the event is inserted (Record): the attempt begins.
LEMMA RecordInv ==
  ASSUME IInv, NEW h \in Handler, Record(h)
  PROVE  IInv'
<1> USE AttemptFacts
<1> DEFINE e == handler[h].event
<1>1. handler[h].pc = "record" /\ e \in sent /\ e \in Event
  BY DEF Record, Is, Sound
<1>2. CASE ledger[e] # "absent"
  BY <1>2, GivesUp DEF Record, E, Data
<1>3. CASE ledger[e] = "absent"
  <2>1. /\ ledger' = [ledger EXCEPT ![e] = "recorded"]
        /\ Goto(h, "load")
        /\ UNCHANGED <<payment, renewals, subs, invoices, sent, acked, faults>>
    BY <1>3 DEF Record, E
  <2>2. /\ handler' \in [Handler -> Request]
        /\ \A g \in Handler : g # h => handler'[g] = handler[g]
        /\ handler'[h].event = e /\ handler'[h].row = handler[h].row /\ handler'[h].pc = "load"
    BY <2>1, GotoEffect DEF Step
  <2>3. TypeOK'
    BY <2>1, <2>2 DEF IInv, TypeOK
  <2>4. Unpaid(e) /\ Unwritten(e) /\ ~ Invoiced(e)
    BY <1>1, <1>3 DEF IInv, Untouched
  <2>5. (\A g \in Handler : Sound(handler[g]))'
    <3> SUFFICES ASSUME NEW g \in Handler PROVE Sound(handler[g])'
      OBVIOUS
    <3>1. ledger' \in [Event -> {"absent", "recorded", "processed"}]
          /\ \A x \in Event : ledger[x] # "absent" => ledger'[x] # "absent"
      BY <2>1 DEF IInv, TypeOK
    <3>2. CASE g = h
      BY <1>1, <2>1, <2>2, <2>4, <3>2
      DEF Sound, Attempting, Unpaid, Unwritten, Invoiced, SubsOf, IInv, TypeOK
    <3>3. CASE g # h
      <4>1. Attempting(handler[g]) => handler[g].event \in Event
        BY DEF E
      <4> QED BY <2>1, <2>2, <3>1, <3>3, <4>1
              DEF Sound, Unpaid, Unwritten, Invoiced, Paid, SubsOf
    <3> QED BY <3>2, <3>3
  <2>6. Exclusive'
    <3>1. \A g \in Handler : Attempting(handler[g]) => handler[g].event # e
      BY <1>3 DEF Sound
    <3> QED BY <2>2, <3>1 DEF IInv, Exclusive, E
  <2>7. Untouched'
    BY <2>1 DEF IInv, TypeOK, Untouched, Unpaid, Unwritten, Invoiced, SubsOf
  <2>8. AppliedOnce' /\ InvoiceNumbers'
    BY <2>1 DEF IInv, AppliedOnce, InvoiceNumbers, Numbers
  <2>9. ProcessedApplied'
    <3>1. \A x \in Event : ledger'[x] = "processed" => ledger[x] = "processed"
      BY <2>1 DEF IInv, TypeOK
    <3>2. \A c \in Checkout : Completed(c) \in Event
      BY DEF Completed, Event, EventMap
    <3> QED BY <2>1, <3>1, <3>2 DEF IInv, ProcessedApplied, Paid, Invoiced
  <2> QED BY <2>3, <2>5, <2>6, <2>7, <2>8, <2>9 DEF IInv
<1> QED BY <1>2, <1>3

\* A request that goes on within its attempt remains the only one at its event.
LEMMA StaysExclusive ==
  ASSUME IInv, NEW h \in Handler, NEW pc \in Step, Goto(h, pc), Attempting(handler[h])
  PROVE  Exclusive'
BY GotoEffect DEF IInv, Exclusive, E

\* The event is marked as processed (Finish): by then all of it is applied.
LEMMA FinishInv ==
  ASSUME IInv, NEW h \in Handler, Finish(h)
  PROVE  IInv'
<1> USE AttemptFacts
<1> DEFINE e == handler[h].event
<1>1. /\ handler[h].pc = "finish" /\ e \in sent /\ e \in Event
      /\ ledger' = [ledger EXCEPT ![e] = "processed"]
      /\ Goto(h, "respond")
      /\ UNCHANGED <<payment, renewals, subs, invoices, sent, acked, faults>>
  BY DEF Finish, Is, Sound, E
<1>2. /\ handler' \in [Handler -> Request]
      /\ \A g \in Handler : g # h => handler'[g] = handler[g]
      /\ handler'[h].event = e /\ handler'[h].row = handler[h].row /\ handler'[h].pc = "respond"
      /\ Attempting(handler[h])
  BY <1>1, GotoEffect DEF Step, Attempting
<1>3. TypeOK'
  BY <1>1, <1>2 DEF IInv, TypeOK
<1>4. (\A g \in Handler : Sound(handler[g]))'
  <2> SUFFICES ASSUME NEW g \in Handler PROVE Sound(handler[g])'
    OBVIOUS
  <2>1. \A x \in Event : ledger[x] # "absent" => ledger'[x] # "absent"
    BY <1>1 DEF IInv, TypeOK
  <2>2. Attempting(handler[g]) => handler[g].event \in Event
    BY DEF E
  <2>3. CASE g = h
    BY <1>1, <1>2, <2>1, <2>3 DEF Sound, Attempting, Paid, Invoiced
  <2>4. CASE g # h
    BY <1>1, <1>2, <2>1, <2>2, <2>4 DEF Sound, Unpaid, Unwritten, Invoiced, Paid, SubsOf
  <2> QED BY <2>3, <2>4
<1>5. Exclusive'
  BY <1>1, <1>2, StaysExclusive DEF Step
<1>6. Untouched'
  BY <1>1 DEF IInv, TypeOK, Untouched, Unpaid, Unwritten, Invoiced, SubsOf
<1>7. AppliedOnce' /\ InvoiceNumbers'
  BY <1>1 DEF IInv, AppliedOnce, InvoiceNumbers, Numbers
<1>8. ProcessedApplied'
  <2> SUFFICES ASSUME NEW c \in Checkout, ledger'[Completed(c)] = "processed"
               PROVE  Paid(c) /\ Invoiced(Completed(c)) /\ (c \in Pro => subs # <<>>)
    BY <1>1 DEF ProcessedApplied, Paid, Invoiced
  <2>1. CASE e = Completed(c)
    <3>1. e.type = "completed" /\ e.of = c
      BY <2>1 DEF Completed
    <3> QED BY <1>1, <1>2, <2>1, <3>1 DEF Sound
  <2>2. CASE e # Completed(c)
    <3>1. ledger[Completed(c)] = "processed"
      BY <1>1, <2>2 DEF Completed, Event, EventMap, IInv, TypeOK
    <3> QED BY <3>1 DEF IInv, ProcessedApplied
  <2> QED BY <2>1, <2>2
<1> QED BY <1>3, <1>4, <1>5, <1>6, <1>7, <1>8 DEF IInv

\* What a payment becomes (Pay)
LEMMA PayInv ==
  ASSUME IInv, NEW h \in Handler, Pay(h)
  PROVE  IInv'
<1> USE AttemptFacts
<1> DEFINE e == handler[h].event
           c == e.of
<1>1. /\ handler[h].pc = "pay" /\ Attempting(handler[h]) /\ e \in Event /\ c \in Checkout
      /\ OfPayment(e) /\ E(h) = e
      /\ UNCHANGED <<renewals, subs, invoices, ledger, sent, acked, faults>>
  BY DEF Pay, Is, Sound, E, Attempting
<1>0. \/ e.type = "completed" /\ Handling(e) = "checkout_completed"
      \/ e.type = "refunded" /\ Handling(e) = "refund"
      \/ e.type = "dispute" /\ Handling(e) = "chargeback"
  BY <1>1 DEF OfPayment, Handling, EventMap
<1>2. PICK status \in {"succeeded", "refunded", "disputed"} :
        /\ payment' = [payment EXCEPT ![c] = status]
        /\ status = "succeeded" => e.type = "completed"
  <2>1. CASE e.type = "completed"
    BY <1>0, <1>1, <2>1 DEF Pay
  <2>2. CASE e.type = "refunded"
    BY <1>0, <1>1, <2>2 DEF Pay
  <2>3. CASE e.type = "dispute"
    BY <1>0, <1>1, <2>3 DEF Pay
  <2> QED BY <1>0, <2>1, <2>2, <2>3
<1>3. PICK pc \in {"find", "count", "finish"} :
        /\ Goto(h, pc)
        /\ e.type = "completed" => pc = IF c \in Pro THEN "find" ELSE "count"
  <2>1. CASE c \in Pro \/ e.type = "dispute"
    BY <1>0, <1>1, <2>1 DEF Pay
  <2>2. CASE c \notin Pro /\ e.type = "completed"
    BY <1>0, <1>1, <2>2 DEF Pay
  <2>3. CASE c \notin Pro /\ e.type = "refunded"
    BY <1>0, <1>1, <2>3 DEF Pay
  <2> QED BY <1>0, <2>1, <2>2, <2>3
<1>4. /\ handler' \in [Handler -> Request]
      /\ \A g \in Handler : g # h => handler'[g] = handler[g]
      /\ handler'[h].event = e /\ handler'[h].row = handler[h].row /\ handler'[h].pc = pc
  BY <1>3, GotoEffect DEF Step
<1>5. /\ payment \in [Checkout -> {"none", "pending", "succeeded", "refunded", "disputed"}]
      /\ \A x \in Checkout : Paid(x) => Paid(x)'
      /\ payment'[c] \in {"succeeded", "refunded", "disputed"}
  BY <1>1, <1>2 DEF IInv, TypeOK, Paid
<1>6. \A x \in Event : x # e /\ Unpaid(x) => Unpaid(x)'
  <2> SUFFICES ASSUME NEW x \in Event, x # e, Unpaid(x), x.type = "completed"
               PROVE  payment'[x.of] # "succeeded"
    BY DEF Unpaid
  <2>1. x = Completed(x.of) /\ x.of \in Checkout
    BY TheCompletion
  <2>2. CASE x.of = c
    <3>1. e.type # "completed"
      BY <1>1, <2>1, <2>2, TheCompletion
    <3> QED BY <1>2, <1>5, <2>1, <2>2, <3>1
  <2>3. CASE x.of # c
    BY <1>2, <1>5, <2>1, <2>3 DEF Unpaid
  <2> QED BY <2>2, <2>3
<1>7. TypeOK'
  BY <1>1, <1>2, <1>4 DEF IInv, TypeOK
<1>8. (\A g \in Handler : Sound(handler[g]))'
  <2> SUFFICES ASSUME NEW g \in Handler PROVE Sound(handler[g])'
    OBVIOUS
  <2>1. CASE g = h
    BY <1>1, <1>3, <1>4, <1>5, <2>1 DEF Sound, Attempting, Paid, Unwritten, Invoiced, SubsOf
  <2>2. CASE g # h
    <3>1. Attempting(handler[g]) =>
            handler[g].event \in Event /\ handler[g].event # e /\ handler[g].event.of \in Checkout
      BY <1>1, <2>2 DEF E, IInv, Exclusive
    <3> QED BY <1>1, <1>4, <1>5, <1>6, <2>2, <3>1
            DEF Sound, Attempting, Unwritten, Invoiced, SubsOf
  <2> QED BY <2>1, <2>2
<1>9. Exclusive'
  BY <1>1, <1>3, StaysExclusive DEF Step
<1>10. Untouched'
  <2>1. ledger[e] # "absent"
    BY <1>1 DEF Sound
  <2> QED BY <1>1, <1>6, <2>1 DEF IInv, Untouched, Unwritten, Invoiced, SubsOf
<1>11. AppliedOnce' /\ InvoiceNumbers' /\ ProcessedApplied'
  BY <1>1, <1>5 DEF IInv, AppliedOnce, InvoiceNumbers, Numbers, ProcessedApplied, Invoiced
<1> QED BY <1>7, <1>8, <1>9, <1>10, <1>11 DEF IInv

\* A first subscription (Subscribe)
LEMMA SubscribeInv ==
  ASSUME IInv, NEW h \in Handler, Subscribe(h)
  PROVE  IInv'
<1> USE AttemptFacts
<1> DEFINE e == handler[h].event
           sub == [of |-> e.of, status |-> "active"]
<1>1. /\ handler[h].pc = "write" /\ Attempting(handler[h]) /\ e \in Event
      /\ e.type = "completed" /\ e.of \in Pro /\ E(h) = e
      /\ Goto(h, "count")
      /\ UNCHANGED <<payment, renewals, invoices, ledger, sent, acked, faults>>
  BY DEF Subscribe, Is, Sound, E, Attempting
<1>2. /\ handler' \in [Handler -> Request]
      /\ \A g \in Handler : g # h => handler'[g] = handler[g]
      /\ \A g \in Handler : handler'[g].row = handler[g].row
      /\ handler'[h].event = e /\ handler'[h].pc = "count"
  BY <1>1, GotoEffect DEF Step
<1>3. /\ subs \in Seq([of : Pro, status : SubStatus])
      /\ sub \in [of : Pro, status : SubStatus]
      /\ subs' = Append(subs, sub)
  BY <1>1 DEF IInv, TypeOK, Subscribe, SubStatus
<1>4. /\ subs' \in Seq([of : Pro, status : SubStatus])
      /\ subs' # <<>>
      /\ Len(subs) \in Nat /\ Len(subs') = Len(subs) + 1
      /\ \A n \in 1 .. Len(subs) : subs'[n] = subs[n]
      /\ subs'[Len(subs) + 1].of = e.of
  BY <1>3, AppendProperties, LenProperties, Z3
<1>5. \A n \in 1 .. Len(subs) : subs[n].of # e.of
  BY <1>1 DEF Sound, Unwritten, SubsOf
<1>6. \A x \in Event : x # e /\ Unwritten(x) => Unwritten(x)'
  <2> SUFFICES ASSUME NEW x \in Event, x # e, Unwritten(x), x.type = "completed",
                      NEW n \in 1 .. Len(subs'), subs'[n].of = x.of
               PROVE  FALSE
    BY <1>1 DEF Unwritten, SubsOf
  <2>1. x.of # e.of
    BY <1>1, TheCompletion
  <2>2. n \in 1 .. Len(subs)
    BY <1>4, <2>1
  <2> QED BY <1>4, <2>2 DEF Unwritten, SubsOf
<1>7. TypeOK'
  <2>1. \A g \in Handler : handler'[g].row \in 0 .. Len(subs')
    BY <1>2, <1>4 DEF IInv, TypeOK
  <2> QED BY <1>1, <1>2, <1>4, <2>1 DEF IInv, TypeOK
<1>8. (\A g \in Handler : Sound(handler[g]))'
  <2> SUFFICES ASSUME NEW g \in Handler PROVE Sound(handler[g])'
    OBVIOUS
  <2>1. CASE g = h
    BY <1>1, <1>2, <1>4, <2>1 DEF Sound, Attempting, Paid, Invoiced
  <2>2. CASE g # h
    <3>1. Attempting(handler[g]) => handler[g].event \in Event /\ handler[g].event # e
      BY <1>1, <2>2 DEF E, IInv, Exclusive
    <3> QED BY <1>1, <1>2, <1>4, <1>6, <2>2, <3>1 DEF Sound, Attempting, Unpaid, Invoiced, Paid
  <2> QED BY <2>1, <2>2
<1>9. Exclusive'
  BY <1>1, StaysExclusive DEF Step
<1>10. Untouched'
  <2>1. ledger[e] # "absent"
    BY <1>1 DEF Sound
  <2> QED BY <1>1, <1>6, <2>1 DEF IInv, Untouched, Unpaid, Invoiced
<1>11. AppliedOnce'
  <2>1. \A m, n \in 1 .. Len(subs') : subs'[m].of = subs'[n].of => m = n
    BY <1>4, <1>5 DEF IInv, AppliedOnce
  <2> QED BY <1>1, <2>1 DEF IInv, AppliedOnce
<1>12. InvoiceNumbers' /\ ProcessedApplied'
  BY <1>1, <1>4 DEF IInv, InvoiceNumbers, Numbers, ProcessedApplied, Invoiced, Paid
<1> QED BY <1>7, <1>8, <1>9, <1>10, <1>11, <1>12 DEF IInv

\* A changed status, and a renewal payment (SetStatus)
LEMMA SetStatusInv ==
  ASSUME IInv, NEW h \in Handler, SetStatus(h)
  PROVE  IInv'
<1> USE AttemptFacts
<1> DEFINE e == handler[h].event
           row == handler[h].row
<1>1. /\ handler[h].pc = "write" /\ Attempting(handler[h]) /\ e \in Event /\ E(h) = e
      /\ UNCHANGED <<payment, invoices, ledger, sent, acked, faults>>
  BY DEF SetStatus, Is, Sound, E, Attempting
<1>2. PICK pc \in {"count", "finish"} :
        /\ Goto(h, pc)
        /\ e.type = "completed" => pc = "count"
  BY <1>1 DEF SetStatus, Handling, EventMap
<1>3. /\ handler' \in [Handler -> Request]
      /\ \A g \in Handler : g # h => handler'[g] = handler[g]
      /\ \A g \in Handler : handler'[g].row = handler[g].row
      /\ handler'[h].event = e /\ handler'[h].pc = pc
  BY <1>2, GotoEffect DEF Step
<1>4. /\ subs \in Seq([of : Pro, status : SubStatus])
      /\ Len(subs) \in Nat /\ row \in 1 .. Len(subs)
  <2>1. subs \in Seq([of : Pro, status : SubStatus]) /\ row \in 0 .. Len(subs) /\ row # 0
    BY DEF IInv, TypeOK, SetStatus
  <2> QED BY <2>1, LenProperties
<1>5. /\ subs' \in Seq([of : Pro, status : SubStatus])
      /\ Len(subs') = Len(subs)
      /\ \A n \in 1 .. Len(subs) : subs'[n].of = subs[n].of
      /\ subs' # <<>>
  <2>0. subs # <<>>
    BY <1>4
  <2>1. PICK status \in NewStatus(h) :
          subs' = IF status = handler[h].saw THEN subs ELSE [subs EXCEPT ![row].status = status]
    BY DEF SetStatus
  <2>2. status \in SubStatus
    BY <2>1 DEF NewStatus, SubStatus
  <2>3. CASE subs' = subs
    BY <1>4, <2>0, <2>3
  <2>4. CASE subs' = [subs EXCEPT ![row].status = status]
    <3> DEFINE new == [subs[row] EXCEPT !.status = status]
    <3>1. subs[row] \in [of : Pro, status : SubStatus]
      BY <1>4, ElementOfSeq
    <3>2. new \in [of : Pro, status : SubStatus] /\ new.of = subs[row].of
      BY <2>2, <3>1
    <3>3. subs' = [subs EXCEPT ![row] = new]
      BY <2>4
    <3> HIDE DEF new
    <3>4. /\ subs' \in Seq([of : Pro, status : SubStatus])
          /\ Len(subs') = Len(subs)
          /\ \A n \in 1 .. Len(subs) : subs'[n] = IF n = row THEN new ELSE subs[n]
      BY <1>4, <3>2, <3>3, ExceptSeq, Z3
    <3> QED BY <1>4, <3>2, <3>4
  <2> QED BY <2>1, <2>3, <2>4
<1>6. /\ \A x \in Event : x # e => renewals'[x] = renewals[x]
      /\ renewals' \in [Event -> Nat] /\ renewals'[e] <= 1
  <2>1. renewals[e] = 0 /\ renewals \in [Event -> Nat]
    BY <1>1 DEF Sound, Unwritten, IInv, TypeOK
  <2>2. renewals' = [renewals EXCEPT ![e] = 1] \/ renewals' = [renewals EXCEPT ![e] = 0]
    <3>1. CASE Handling(e) = "invoice_paid"
      BY <1>1, <2>1, <3>1 DEF SetStatus
    <3>2. CASE Handling(e) # "invoice_paid"
      BY <1>1, <2>1, <3>2 DEF SetStatus
    <3> QED BY <3>1, <3>2
  <2> QED BY <1>1, <2>1, <2>2
<1>7. \A x \in Event : x # e /\ Unwritten(x) => Unwritten(x)'
  BY <1>5, <1>6 DEF Unwritten, SubsOf
<1>8. TypeOK'
  BY <1>1, <1>3, <1>5, <1>6 DEF IInv, TypeOK
<1>9. (\A g \in Handler : Sound(handler[g]))'
  <2> SUFFICES ASSUME NEW g \in Handler PROVE Sound(handler[g])'
    OBVIOUS
  <2>1. CASE g = h
    BY <1>1, <1>2, <1>3, <1>5, <2>1 DEF Sound, Attempting, Paid, Invoiced
  <2>2. CASE g # h
    <3>1. Attempting(handler[g]) => handler[g].event \in Event /\ handler[g].event # e
      BY <1>1, <2>2 DEF E, IInv, Exclusive
    <3> QED BY <1>1, <1>3, <1>5, <1>7, <2>2, <3>1 DEF Sound, Attempting, Unpaid, Invoiced, Paid
  <2> QED BY <2>1, <2>2
<1>10. Exclusive'
  BY <1>1, <1>2, StaysExclusive DEF Step
<1>11. Untouched'
  <2>1. ledger[e] # "absent"
    BY <1>1 DEF Sound
  <2> QED BY <1>1, <1>7, <2>1 DEF IInv, Untouched, Unpaid, Invoiced
<1>12. AppliedOnce'
  <2>1. \A x \in Event : renewals'[x] <= 1
    BY <1>6 DEF IInv, AppliedOnce
  <2>2. \A m, n \in 1 .. Len(subs') : subs'[m].of = subs'[n].of => m = n
    BY <1>5 DEF IInv, AppliedOnce
  <2> QED BY <1>1, <2>1, <2>2 DEF IInv, AppliedOnce
<1>13. InvoiceNumbers' /\ ProcessedApplied'
  BY <1>1, <1>5 DEF IInv, InvoiceNumbers, Numbers, ProcessedApplied, Invoiced, Paid
<1> QED BY <1>8, <1>9, <1>10, <1>11, <1>12, <1>13 DEF IInv

\* An invoice is numbered one more than the invoices there were: a number that
\* is still free is the next one (Insert).
LEMMA InsertInv ==
  ASSUME IInv, NEW h \in Handler, Insert(h)
  PROVE  IInv'
<1> USE AttemptFacts
<1> DEFINE e == handler[h].event
           n == handler[h].number
           i == [number |-> n, event |-> e]
<1>1. /\ handler[h].pc = "insert" /\ Attempting(handler[h]) /\ e \in Event /\ E(h) = e
      /\ UNCHANGED <<payment, renewals, subs, ledger, sent, acked, faults>>
  BY DEF Insert, Is, Sound, E, Attempting
<1>2. CASE n \in Numbers
  BY <1>1, <1>2, GivesUp DEF Insert, Data
<1>3. CASE n \notin Numbers
  <2>1. Goto(h, "finish") /\ invoices' = invoices \union {i}
    BY <1>1, <1>3 DEF Insert
  <2>2. /\ handler' \in [Handler -> Request]
        /\ \A g \in Handler : g # h => handler'[g] = handler[g]
        /\ handler'[h].row = handler[h].row
        /\ handler'[h].event = e /\ handler'[h].pc = "finish"
    BY <2>1, GotoEffect DEF Step
  <2> DEFINE k == Cardinality(invoices)
  <2>3. IsFiniteSet(invoices) /\ k \in Nat
    BY FS_CardinalityType DEF IInv, TypeOK
  <2>4. n = k + 1
    <3>1. n \in 1 .. k + 1 /\ Numbers = 1 .. k
      BY <1>1 DEF Sound, IInv, InvoiceNumbers
    <3> QED BY <1>3, <2>3, <3>1
  <2>5. i \notin invoices
    BY <1>3 DEF Numbers
  <2>6. IsFiniteSet(invoices') /\ Cardinality(invoices') = k + 1
    BY <2>1, <2>3, <2>5, FS_AddElement
  <2>7. \A x \in Event : (x # e /\ ~ Invoiced(x) => ~ Invoiced(x)') /\ (Invoiced(x) => Invoiced(x)')
    BY <2>1 DEF Invoiced
  <2>8. ~ Invoiced(e) /\ \E j \in invoices' : j.event = e
    <3>1. i \in invoices' /\ i.event = e
      BY <2>1
    <3>2. ~ Invoiced(e)
      BY <1>1 DEF Sound
    <3> QED BY <3>1, <3>2
  <2>9. TypeOK'
    <3>1. invoices' \subseteq [number : Nat, event : Event]
      BY <1>1, <2>1, <2>3, <2>4 DEF IInv, TypeOK
    <3> QED BY <1>1, <2>2, <2>6, <3>1 DEF IInv, TypeOK
  <2>10. (\A g \in Handler : Sound(handler[g]))'
    <3> SUFFICES ASSUME NEW g \in Handler PROVE Sound(handler[g])'
      OBVIOUS
    <3>1. CASE g = h
      BY <1>1, <2>2, <2>8, <3>1 DEF Sound, Attempting, Paid, Invoiced
    <3>2. CASE g # h
      <4>1. Attempting(handler[g]) => handler[g].event \in Event /\ handler[g].event # e
        BY <1>1, <3>2 DEF E, IInv, Exclusive
      <4>2. handler[g].pc = "insert" => handler[g].number \in 1 .. (k + 1) + 1
        BY <2>3 DEF Sound
      <4> QED BY <1>1, <2>2, <2>6, <2>7, <3>2, <4>1, <4>2
              DEF Sound, Attempting, Unpaid, Unwritten, SubsOf, Paid
    <3> QED BY <3>1, <3>2
  <2>11. Exclusive'
    BY <1>1, <2>1, StaysExclusive DEF Step
  <2>12. Untouched'
    <3>1. ledger[e] # "absent"
      BY <1>1 DEF Sound
    <3> QED BY <1>1, <2>7, <3>1 DEF IInv, Untouched, Unpaid, Unwritten, SubsOf
  <2>13. AppliedOnce'
    <3>1. \A j, l \in invoices' : j.event = l.event => j = l
      BY <2>1, <2>8 DEF IInv, AppliedOnce, Invoiced
    <3> QED BY <1>1, <3>1 DEF IInv, AppliedOnce
  <2>14. InvoiceNumbers'
    <3>1. Numbers' = Numbers \union {n}
      <4>1. i.number = n
        OBVIOUS
      <4> HIDE DEF i
      <4> QED BY <2>1, <4>1 DEF Numbers
    <3>2. Numbers = 1 .. k
      BY DEF IInv, InvoiceNumbers
    <3>3. Numbers' = 1 .. Cardinality(invoices')
      BY <2>3, <2>4, <2>6, <3>1, <3>2
    <3>4. \A j, l \in invoices' : j.number = l.number => j = l
      BY <1>3, <2>1 DEF IInv, InvoiceNumbers, Numbers
    <3> QED BY <3>3, <3>4 DEF InvoiceNumbers
  <2>15. ProcessedApplied'
    <3>1. \A c \in Checkout : Completed(c) \in Event
      BY DEF Completed, Event, EventMap
    <3> QED BY <1>1, <2>7, <3>1 DEF IInv, ProcessedApplied, Paid
  <2> QED BY <2>9, <2>10, <2>11, <2>12, <2>13, <2>14, <2>15 DEF IInv
<1> QED BY <1>2, <1>3

----------------------------------------------------------------------------
\* Every step keeps the invariant.
LEMMA NextInv == IInv /\ [Next]_vars => IInv'
<1> SUFFICES ASSUME IInv, [Next]_vars PROVE IInv'
  OBVIOUS
<1>1. CASE CreateCheckout \/ Emit
  BY <1>1, CreateCheckoutInv, EmitInv
<1>2. ASSUME NEW h \in Handler, Work(h) PROVE IInv'
  <2>1. CASE Record(h) \/ Finish(h) \/ Respond(h)
    BY <2>1, RecordInv, FinishInv, RespondInv
  <2>2. CASE Load(h)
    BY <2>2, LoadCheckoutInv, LoadPaymentInv, LoadSubInv, LoadNothingInv DEF Load
  <2>3. CASE Apply(h)
    BY <2>3, PayInv, FindInv, SubscribeInv, SetStatusInv, CountInv, InsertInv DEF Apply
  <2> QED BY <1>2, <2>1, <2>2, <2>3 DEF Work
<1>3. ASSUME NEW h \in Handler, Fail(h) \/ \E e \in Event : Deliver(h, e) PROVE IInv'
  BY <1>3, FailInv, DeliverInv
<1>4. CASE UNCHANGED vars
  BY <1>4 DEF vars, IInv, TypeOK, Sound, Exclusive, Untouched, Unpaid, Unwritten, Invoiced, Paid,
              SubsOf, AppliedOnce, InvoiceNumbers, Numbers, ProcessedApplied, E
<1> QED BY <1>1, <1>2, <1>3, <1>4 DEF Next

\* The inductive invariant of process_event (billing/service.py:121-151): each
\* event is attempted by one request, which finds its work undone.
THEOREM Consistent == Spec => []IInv
<1>1. Init => IInv
  BY InitInv
<1>2. IInv /\ [Next]_vars => IInv'
  BY NextInv
<1> QED BY <1>1, <1>2, PTL DEF Spec

\* Redelivered and concurrent webhooks add at most one invoice, one renewal
\* payment and one subscription per event (billing/service.py:1-5).
THEOREM NoDoubleApply == Spec => []AppliedOnce
<1>1. IInv => AppliedOnce
  BY DEF IInv
<1> QED BY <1>1, Consistent, PTL

\* Invoice numbers are 1 to the number of invoices, though _next_invoice_number
\* counts before another request inserts (billing/service.py:90-110).
THEOREM GaplessInvoices == Spec => []InvoiceNumbers
<1>1. IInv => InvoiceNumbers
  BY DEF IInv
<1> QED BY <1>1, Consistent, PTL

\* An event that is marked as processed, and so never retried, has been applied
\* as a whole (billing/service.py:125-143).
THEOREM WholeOrUnmarked == Spec => []ProcessedApplied
<1>1. IInv => ProcessedApplied
  BY DEF IInv
<1> QED BY <1>1, Consistent, PTL
=============================================================================
