------------------------------ MODULE Payment ------------------------------
(***************************************************************************)
(* The money of a booking: the price and the payment intent drawn up when  *)
(* a customer books, Stripe's webhook, the refund of a cancelled or failed *)
(* booking, and the waiting charge that is paid after the ride or deferred *)
(* to the next booking (customers.pending_pay_amount).                     *)
(*                                                                         *)
(* One customer and one vehicle.  Amounts are whole numbers: Fare is the   *)
(* price of a trip (module Pricing computes it), Fee the cancellation      *)
(* charge, Stop the waiting charge of a ride.  A process is a request, a   *)
(* delivery of the webhook or a cancelRefund that nobody waits for; each   *)
(* step is one awaited call.  Stripe is external: it charges, it refunds   *)
(* at most what it charged, and it delivers an event at least once.        *)
(*                                                                         *)
(* Left out: the drivers' documents (module Dispatch), the search that the *)
(* webhook starts (SearchLoop), the hand-over of the driver's next         *)
(* scheduled ride, tips and tolls (module Ride), messages.                 *)
(***************************************************************************)
EXTENDS Integers, Sequences, FiniteSets

CONSTANTS
    Bookings,
    Procs,           \* processes that can be under way at the same time
    Fare, Fee, Stop,
    MaxDeliveries,   \* bound: how often Stripe delivers one event
    MaxCancels,      \* bound: how often one booking is cancelled or fails
    None

ASSUME AmountsAssumption ==
    /\ Fare \in Nat /\ Fee \in Nat /\ Stop \in Nat
    /\ 0 < Fee /\ Fee < Fare /\ 0 < Stop
ASSUME BoundsAssumption == MaxDeliveries \in Nat \ {0} /\ MaxCancels \in Nat
ASSUME NoneAssumption == None \notin Bookings

VARIABLES
    booking,    \* Bookings -> the fields that the money depends on
    pending,    \* customers.pending_pay_amount
    intent,     \* Bookings -> kind of charge -> Stripe's payment intent
    payments,   \* Bookings -> its rows of the collection payments, in order
    earnings,   \* Bookings -> how many rows driverEarnings has for it
    proc,       \* Procs -> what each remembers
    cancels,    \* Bookings -> how often it was cancelled or failed
    cut,        \* history: bookings with a process when the server exited
    raced,      \* history: bookings whose row was to be changed before it was written
    late,       \* history: bookings cancelled once completed or before they were paid
    whole,      \* history: bookings a customer cancelled before they had a driver
    early       \* history: bookings priced before the debt of now arose

notes == <<cancels, cut, raced, late, whole, early>>
vars == <<booking, pending, intent, payments, earnings, proc, notes>>

-----------------------------------------------------------------------------
Kinds == {"trip", "stop"}
Debts == {0, Stop}
Charges == 0 .. Fare + Stop

BookingType ==
    [stage   : {"none", "open", "accepted", "completed", "cancelled", "failed"},
     type    : {"current", "schedule", "cancelled"},   \* booking_type
     driver  : BOOLEAN,
     total   : Charges \cup {Fare + 2 * Stop},         \* total_amount
     trip    : Charges,                                \* total_trip_amount
     pending : Debts,                                  \* pending_booking_amount
     stop    : Debts,                                  \* stop_charges
     paid    : BOOLEAN,                                \* payment_success, intent_id
     refund  : BOOLEAN,                                \* payment_status: refund
     done    : BOOLEAN]                                \* payment_confirmed

NewBooking ==
    [stage |-> "none", type |-> "current", driver |-> FALSE, total |-> 0,
     trip |-> 0, pending |-> 0, stop |-> 0, paid |-> FALSE, refund |-> FALSE,
     done |-> FALSE]

\* What Stripe knows of a charge, and how often it has sent the event.
IntentType ==
    [amount : Charges, type : {"current", "schedule"}, charged : BOOLEAN,
     refunded : Charges, sent : 0 .. MaxDeliveries]
NoIntent == [amount |-> 0, type |-> "current", charged |-> FALSE, refunded |-> 0,
             sent |-> 0]

RowType == [amount : Charges \cup {Fare + 2 * Stop}, refund : BOOLEAN]

ProcPCs == {"idle", "check", "insert", "intent",
            "paid", "reset", "row", "earning", "confirm", "settle",
            "recheck", "refund", "mark", "adjust", "flag", "markfirst", "refundall",
            "owe"}

ProcType ==
    [pc : ProcPCs, b : Bookings \cup {None}, kind : Kinds,
     type : {"current", "schedule"}, amount : Charges \cup {Fare + 2 * Stop},
     scope : {"customer", "failed"}, funded : BOOLEAN]

Idle == [pc |-> "idle", b |-> None, kind |-> "trip", type |-> "current",
         amount |-> 0, scope |-> "customer", funded |-> FALSE]

At(p, pc) == proc[p].pc = pc
Goto(p, pc) == proc' = [proc EXCEPT ![p].pc = pc]
End(p) == proc' = [proc EXCEPT ![p] = Idle]
Working(b) == {p \in Procs : proc[p].b = b}

Init ==
    /\ booking = [b \in Bookings |-> NewBooking]
    /\ pending = 0
    /\ intent = [b \in Bookings |-> [k \in Kinds |-> NoIntent]]
    /\ payments = [b \in Bookings |-> <<>>]
    /\ earnings = [b \in Bookings |-> 0]
    /\ proc = [p \in Procs |-> Idle]
    /\ cancels = [b \in Bookings |-> 0]
    /\ cut = {} /\ raced = {} /\ late = {} /\ early = {}
    /\ whole = {}

-----------------------------------------------------------------------------
(* Booking: create and schedule_booking.                                    *)

\* The customer's debt is read first, and goes into the price.
Create(p, b) ==
    /\ At(p, "idle") /\ booking[b].stage = "none" /\ Working(b) = {}
    /\ proc' = [proc EXCEPT ![p] = [Idle EXCEPT !.pc = "insert", !.b = b,
                                                !.amount = pending]]
    /\ UNCHANGED <<booking, pending, intent, payments, earnings, notes>>

Schedule(p, b) ==
    /\ At(p, "idle") /\ booking[b].stage = "none" /\ Working(b) = {}
    /\ proc' = [proc EXCEPT ![p] = [Idle EXCEPT !.pc = "check", !.b = b,
                                      !.type = "schedule", !.amount = pending]]
    /\ UNCHANGED <<booking, pending, intent, payments, earnings, notes>>

\* All bookings here are within an hour of each other: a paid and open one of
\* the customer is in the way of another.
InTheWay(c) ==
    /\ booking[c].type = "schedule" /\ booking[c].paid
    /\ booking[c].stage \in {"open", "accepted"}

ScheduleCheck(p) ==
    /\ At(p, "check")
    /\ IF \E c \in Bookings : InTheWay(c) THEN End(p) ELSE Goto(p, "insert")
    /\ UNCHANGED <<booking, pending, intent, payments, earnings, notes>>

\* Mutant: the debt is left out of the price.
InsertBookingFree(p) ==
    /\ At(p, "insert")
    /\ booking' = [booking EXCEPT ![proc[p].b] =
                     [NewBooking EXCEPT !.stage = "open", !.type = proc[p].type,
                        !.total = Fare, !.trip = Fare]]
    /\ early' = IF proc[p].amount = pending THEN early ELSE early \cup {proc[p].b}
    /\ proc' = [proc EXCEPT ![p].pc = "intent", ![p].amount = 0]
    /\ UNCHANGED <<pending, intent, payments, earnings, cancels, cut, raced, late, whole>>

InsertBooking(p) ==
    /\ At(p, "insert")
    /\ LET price == Fare + proc[p].amount IN
       booking' = [booking EXCEPT ![proc[p].b] =
                     [NewBooking EXCEPT !.stage = "open", !.type = proc[p].type,
                        !.total = price, !.trip = price, !.pending = proc[p].amount]]
    /\ early' = IF proc[p].amount = pending THEN early ELSE early \cup {proc[p].b}
    /\ Goto(p, "intent")
    /\ UNCHANGED <<pending, intent, payments, earnings, cancels, cut, raced, late, whole>>

CreateIntent(p) ==
    /\ At(p, "intent")
    /\ intent' = [intent EXCEPT ![proc[p].b]["trip"] =
                    [@ EXCEPT !.amount = Fare + proc[p].amount, !.type = proc[p].type]]
    /\ End(p)
    /\ UNCHANGED <<booking, pending, payments, earnings, notes>>

-----------------------------------------------------------------------------
(* Stripe, external: the customer pays; the event is delivered, again until *)
(* it is answered, and sometimes once more.                                 *)

Charge(b, k) ==
    /\ intent[b][k].amount > 0 /\ ~intent[b][k].charged
    /\ intent' = [intent EXCEPT ![b][k].charged = TRUE]
    /\ UNCHANGED <<booking, pending, payments, earnings, proc, notes>>

Refundable(b, amount) ==
    /\ intent[b]["trip"].charged /\ amount > 0
    /\ intent[b]["trip"].refunded + amount <= intent[b]["trip"].amount

\* Nobody catches a refused refund: the server exits and is started again; what
\* was under way is gone.
Exit ==
    /\ proc' = [p \in Procs |-> Idle]
    /\ cut' = cut \cup {proc[p].b : p \in {q \in Procs : ~At(q, "idle")}}

-----------------------------------------------------------------------------
(* The webhook.                                                             *)

\* The document is read first; what is read stays in the process.
Deliver(p, b, k) ==
    /\ At(p, "idle")
    /\ intent[b][k].charged /\ intent[b][k].sent < MaxDeliveries
    /\ intent' = [intent EXCEPT ![b][k].sent = @ + 1]
    /\ proc' = [proc EXCEPT ![p] =
                  [Idle EXCEPT !.pc = IF k = "trip" THEN "paid" ELSE "confirm",
                     !.b = b, !.kind = k, !.type = intent[b][k].type,
                     !.amount = booking[b].total]]
    /\ UNCHANGED <<booking, pending, payments, earnings, notes>>

\* booking_type create or current, and schedule_booking: only the first two
\* take the debt off the customer.
HookPaid(p) ==
    /\ At(p, "paid")
    /\ booking' = [booking EXCEPT ![proc[p].b].paid = TRUE]
    /\ Goto(p, IF proc[p].type = "schedule" THEN "row" ELSE "reset")
    /\ late' = IF booking[proc[p].b].stage = "open" THEN late
               ELSE late \cup {proc[p].b}
    /\ UNCHANGED <<pending, intent, payments, earnings, cancels, cut, raced, whole, early>>

HookReset(p) ==
    /\ At(p, "reset")
    /\ pending' = 0 /\ early' = {}
    /\ Goto(p, "row")
    /\ UNCHANGED <<booking, intent, payments, earnings, cancels, cut, raced, late, whole>>

\* payment_with_card: a row for every delivery, with the amount read at its start.
HookRow(p) ==
    /\ At(p, "row")
    /\ payments' = [payments EXCEPT ![proc[p].b] =
                      Append(@, [amount |-> proc[p].amount, refund |-> FALSE])]
    /\ Goto(p, "earning")
    /\ UNCHANGED <<booking, pending, intent, earnings, notes>>

HookEarning(p) ==
    /\ At(p, "earning")
    /\ earnings' = [earnings EXCEPT ![proc[p].b] = @ + 1]
    /\ End(p)
    /\ UNCHANGED <<booking, pending, intent, payments, notes>>

\* type additional_amount: the waiting charge is paid; the rows take the total.
HookConfirm(p) ==
    /\ At(p, "confirm")
    /\ booking' = [booking EXCEPT ![proc[p].b].done = TRUE]
    /\ Goto(p, "settle")
    /\ UNCHANGED <<pending, intent, payments, earnings, notes>>

\* updateOne writes the first row of the booking, if there is one.
Rewrite(rows, amount, refund) ==
    IF rows = <<>> THEN rows
    ELSE [rows EXCEPT ![1] = [amount |-> amount, refund |-> refund \/ @.refund]]

Unwritten(b) == raced' = IF payments[b] = <<>> THEN raced \cup {b} ELSE raced

HookSettle(p) ==
    /\ At(p, "settle")
    /\ payments' = [payments EXCEPT ![proc[p].b] = Rewrite(@, proc[p].amount, FALSE)]
    /\ Unwritten(proc[p].b)
    /\ End(p)
    /\ UNCHANGED <<booking, pending, intent, earnings, cancels, cut, late, whole, early>>

-----------------------------------------------------------------------------
(* The ride, as far as the money sees it.                                   *)

\* A driver is asked only for what the webhook has marked as paid; for a
\* booking of now once the webhook has written its rows and searches.
Accept(b) ==
    /\ booking[b].stage = "open" /\ booking[b].paid
    /\ booking[b].type = "schedule" \/ earnings[b] > 0
    /\ booking' = [booking EXCEPT ![b].stage = "accepted", ![b].driver = TRUE]
    /\ UNCHANGED <<pending, intent, payments, earnings, proc, notes>>

\* The waiting charge (module Ride) is in the total when the ride ends.
RideCompleted(b, stop) ==
    /\ booking[b].stage = "accepted"
    /\ booking' = [booking EXCEPT ![b].stage = "completed", ![b].stop = stop,
                                  ![b].total = booking[b].trip + stop]
    /\ UNCHANGED <<pending, intent, payments, earnings, proc, notes>>

-----------------------------------------------------------------------------
(* Cancelling, and cancelRefund.                                            *)

Open(b) == booking[b].stage = "open"
Closed(b) == booking[b].stage \in {"cancelled", "failed"}

\* Mutant: the cancellation charge is refunded too.
RefundJobAll(b, scope) ==
    LET driven == scope = "customer" /\ booking[b].driver IN
    [Idle EXCEPT
       !.pc = IF driven \/ scope = "failed" THEN "refund" ELSE "markfirst",
       !.b = b, !.scope = scope, !.funded = booking[b].paid,
       !.amount = booking[b].trip - booking[b].pending]

\* What cancelRefund is given: the scope and the document of now.
RefundJob(b, scope) ==
    LET driven == scope = "customer" /\ booking[b].driver
        price == booking[b].trip - booking[b].pending
    IN  [Idle EXCEPT
           !.pc = IF driven \/ scope = "failed" THEN "refund" ELSE "markfirst",
           !.b = b, !.scope = scope, !.funded = booking[b].paid,
           !.amount = IF driven THEN price - Fee ELSE price]

Cancel(b) ==
    /\ cancels[b] < MaxCancels
    /\ cancels' = [cancels EXCEPT ![b] = @ + 1]
    /\ late' = IF booking[b].paid /\ booking[b].stage \in {"open", "accepted"}
               THEN late ELSE late \cup {b}

\* booking_cancelled by the customer: whatever is not completed.
CustomerCancel(p, b) ==
    /\ At(p, "idle") /\ booking[b].stage \notin {"none", "completed"}
    /\ Cancel(b)
    /\ booking' = [booking EXCEPT ![b].stage = "cancelled", ![b].type = "cancelled"]
    /\ proc' = [proc EXCEPT ![p] = RefundJob(b, "customer")]
    /\ UNCHANGED <<pending, intent, payments, earnings, cut, raced, whole, early>>

\* cancel_request closes the booking whatever it was, frees the drivers, reads
\* it again, and refunds what had no status yet as a failed search.
CancelRequest(p, b) ==
    /\ At(p, "idle") /\ booking[b].stage # "none"
    /\ Cancel(b)
    /\ booking' = [booking EXCEPT ![b].stage = "cancelled", ![b].type = "cancelled"]
    /\ proc' = [proc EXCEPT ![p] =
                  [Idle EXCEPT !.pc = "recheck", !.b = b,
                     !.scope = IF Open(b) THEN "failed" ELSE "customer"]]
    /\ UNCHANGED <<pending, intent, payments, earnings, cut, raced, whole, early>>

\* Mutant: only what a driver had accepted is refunded.
CancelRecheckDriver(p) ==
    /\ At(p, "recheck")
    /\ proc' = [proc EXCEPT ![p] = IF proc[p].scope = "failed" THEN Idle
                                   ELSE RefundJob(proc[p].b, proc[p].scope)]
    /\ UNCHANGED <<booking, pending, intent, payments, earnings, notes>>

CancelRecheck(p) ==
    /\ At(p, "recheck")
    /\ proc' = [proc EXCEPT ![p] = RefundJob(proc[p].b, proc[p].scope)]
    /\ UNCHANGED <<booking, pending, intent, payments, earnings, notes>>

\* The search finds nobody: failed, and refunded.
SearchFailed(p, b) ==
    /\ At(p, "idle") /\ Open(b) /\ booking[b].paid
    /\ booking[b].type = "schedule" \/ earnings[b] > 0
    /\ Cancel(b)
    /\ booking' = [booking EXCEPT ![b].stage = "failed"]
    /\ proc' = [proc EXCEPT ![p] = RefundJob(b, "failed")]
    /\ UNCHANGED <<pending, intent, payments, earnings, cut, raced, whole, early>>

\* stripe.refunds.create; the server exits when it is refused.
Refund(p, amount, next) ==
    LET b == proc[p].b IN
    \/ /\ proc[p].funded /\ Refundable(b, amount)
       /\ intent' = [intent EXCEPT ![b]["trip"].refunded = @ + amount]
       /\ next
       /\ UNCHANGED cut
    \/ /\ ~(proc[p].funded /\ Refundable(b, amount))
       /\ Exit
       /\ UNCHANGED intent

RefundPart(p) ==
    /\ At(p, "refund")
    /\ Refund(p, proc[p].amount, Goto(p, "mark"))
    /\ UNCHANGED <<booking, pending, payments, earnings, cancels, raced, late, whole, early>>

\* Mutant: a search that failed is not marked.
RefundMarkCustomer(p) ==
    /\ At(p, "mark")
    /\ booking' = IF proc[p].scope = "failed" THEN booking
                  ELSE [booking EXCEPT ![proc[p].b].refund = TRUE]
    /\ Goto(p, IF proc[p].scope = "failed" THEN "flag" ELSE "adjust")
    /\ UNCHANGED <<pending, intent, payments, earnings, notes>>

RefundMark(p) ==
    /\ At(p, "mark")
    /\ booking' = [booking EXCEPT ![proc[p].b].refund = TRUE]
    /\ Goto(p, IF proc[p].scope = "failed" THEN "flag" ELSE "adjust")
    /\ UNCHANGED <<pending, intent, payments, earnings, notes>>

\* With a driver: the rows take the cancellation charge for the price.
RefundAdjust(p) ==
    /\ At(p, "adjust")
    /\ payments' = [payments EXCEPT ![proc[p].b] = Rewrite(@, Fee, TRUE)]
    /\ Unwritten(proc[p].b)
    /\ End(p)
    /\ UNCHANGED <<booking, pending, intent, earnings, cancels, cut, late, whole, early>>

RefundFlag(p) ==
    /\ At(p, "flag")
    /\ payments' = [payments EXCEPT ![proc[p].b] =
                      IF @ = <<>> THEN @ ELSE Rewrite(@, @[1].amount, TRUE)]
    /\ Unwritten(proc[p].b)
    /\ End(p)
    /\ UNCHANGED <<booking, pending, intent, earnings, cancels, cut, late, whole, early>>

\* Without a driver: marked first, then all that is left is refunded; the rows
\* of payments stay as they are.
RefundMarkFirst(p) ==
    /\ At(p, "markfirst")
    /\ booking' = [booking EXCEPT ![proc[p].b].refund = TRUE]
    /\ whole' = whole \cup {proc[p].b}
    /\ Goto(p, "refundall")
    /\ UNCHANGED <<pending, intent, payments, earnings, cancels, cut, raced, late, early>>

RefundAll(p) ==
    /\ At(p, "refundall")
    /\ LET i == intent[proc[p].b]["trip"] IN Refund(p, i.amount - i.refunded, End(p))
    /\ UNCHANGED <<booking, pending, payments, earnings, cancels, raced, late, whole, early>>

-----------------------------------------------------------------------------
(* make_payment_additional: pay the waiting charge now, or later.           *)

PayStop(b) ==
    /\ booking[b].stage = "completed" /\ booking[b].stop > 0
    /\ intent[b]["stop"].amount = 0
    /\ intent' = [intent EXCEPT ![b]["stop"].amount = booking[b].stop]
    /\ UNCHANGED <<booking, pending, payments, earnings, proc, notes>>

DeferStop(p, b) ==
    /\ At(p, "idle") /\ booking[b].stage = "completed" /\ ~booking[b].done
    /\ booking' = [booking EXCEPT ![b].done = TRUE]
    /\ proc' = [proc EXCEPT ![p] = [Idle EXCEPT !.pc = "owe", !.b = b,
                                       !.amount = booking[b].stop]]
    /\ UNCHANGED <<pending, intent, payments, earnings, notes>>

\* Mutant: the waiting charge is added to the debt.
OweStopMore(p) ==
    /\ At(p, "owe")
    /\ pending' = pending + proc[p].amount
    /\ early' = {b \in Bookings : booking[b].stage # "none"}
    /\ End(p)
    /\ UNCHANGED <<booking, intent, payments, earnings, cancels, cut, raced, late, whole>>

OweStop(p) ==
    /\ At(p, "owe")
    /\ pending' = proc[p].amount
    /\ early' = {b \in Bookings : booking[b].stage # "none"}
    /\ End(p)
    /\ UNCHANGED <<booking, intent, payments, earnings, cancels, cut, raced, late, whole>>

-----------------------------------------------------------------------------
Run(p) ==
    \/ ScheduleCheck(p) \/ InsertBooking(p) \/ CreateIntent(p)
    \/ HookPaid(p) \/ HookReset(p) \/ HookRow(p) \/ HookEarning(p)
    \/ HookConfirm(p) \/ HookSettle(p)
    \/ CancelRecheck(p) \/ RefundPart(p) \/ RefundMark(p) \/ RefundAdjust(p)
    \/ RefundFlag(p) \/ RefundMarkFirst(p) \/ RefundAll(p) \/ OweStop(p)

Next ==
    \/ \E p \in Procs :
          \/ Run(p)
          \/ \E b \in Bookings :
                \/ Create(p, b) \/ Schedule(p, b) \/ DeferStop(p, b)
                \/ CustomerCancel(p, b) \/ CancelRequest(p, b) \/ SearchFailed(p, b)
                \/ \E k \in Kinds : Deliver(p, b, k)
    \/ \E b \in Bookings :
          \/ Accept(b) \/ PayStop(b)
          \/ \E stop \in Debts : RideCompleted(b, stop)
          \/ \E k \in Kinds : Charge(b, k)

Spec == Init /\ [][Next]_vars
\* An awaited call returns; nothing obliges a customer, Stripe or a driver.
FairSpec == Spec /\ \A p \in Procs : WF_vars(Run(p))

-----------------------------------------------------------------------------
\* Every variable has the shape the schemas give it.
PaymentTypeOK ==
    /\ booking \in [Bookings -> BookingType]
    /\ pending \in Debts
    /\ intent \in [Bookings -> [Kinds -> IntentType]]
    /\ \A b \in Bookings : \A i \in DOMAIN payments[b] : payments[b][i] \in RowType
    /\ earnings \in [Bookings -> 0 .. MaxDeliveries]
    /\ proc \in [Procs -> ProcType]
    /\ cancels \in [Bookings -> 0 .. MaxCancels]
    /\ cut \cup raced \cup late \cup whole \cup early \subseteq Bookings

Kept(b) ==
    LET of(k) == IF intent[b][k].charged
                 THEN intent[b][k].amount - intent[b][k].refunded ELSE 0
    IN  of("trip") + of("stop")

\* Every event was heard once, nothing is under way, and nothing happened that
\* the code has no answer to: a second cancel, a cancel of what is completed or
\* not yet paid, a refund that overtakes the webhook, a server that exits.  A
\* cancel without a driver is left out too: it returns everything and leaves the
\* rows as they were.
Settled(b) ==
    /\ booking[b].paid /\ Working(b) = {} /\ cancels[b] <= 1
    /\ b \notin cut \cup raced \cup late \cup whole
    /\ \A k \in Kinds : intent[b][k].sent = IF intent[b][k].charged THEN 1 ELSE 0

\* The books agree with Stripe: the one row of a settled booking says what the
\* customer's card was charged less what was refunded.  A refund keeps the debt
\* of an earlier ride, which is not in the row, and what the row then says: the
\* cancellation charge when there was a driver, nothing when the search failed.
BooksBalance ==
    \A b \in Bookings : Settled(b) =>
        /\ Len(payments[b]) = 1 /\ earnings[b] = 1
        /\ LET row == payments[b][1] IN
           IF row.refund
           THEN Kept(b) = booking[b].pending + (IF booking[b].driver THEN row.amount ELSE 0)
           ELSE Kept(b) = row.amount

\* A booking is marked as refunded exactly when Stripe has refunded it, but for
\* the moment between the two calls, whichever comes first, and for a server
\* that exits there.
RefundMarkIsTrue ==
    \A b \in Bookings \ cut :
        LET between(pc) == \E p \in Working(b) : At(p, pc) IN
        /\ booking[b].refund => intent[b]["trip"].refunded > 0 \/ between("refundall")
        /\ intent[b]["trip"].refunded > 0 => booking[b].refund \/ between("mark")

\* The customer's debt is set to nothing only by a payment that carried it, but
\* for a booking priced before the debt arose, and for the end of another ride,
\* which overwrites it with its own waiting charge.
DebtIsBilled ==
    [][pending > 0 /\ pending' = 0 =>
         \E p \in Procs :
            \/ At(p, "reset") /\ (\/ booking[proc[p].b].pending = pending
                                  \/ proc[p].b \in early)
            \/ At(p, "owe")]_vars

\* A booking that was paid and is then cancelled or fails is refunded in the end,
\* unless the server exits while it is at work on it.
PaidCancelIsRefunded ==
    \A b \in Bookings :
        booking[b].paid /\ Closed(b) /\ b \notin late
            ~> intent[b]["trip"].refunded > 0 \/ b \in cut
=============================================================================
