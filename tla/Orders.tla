------------------------------- MODULE Orders -------------------------------
(***************************************************************************)
(* Bookings that are not made in the customer's app: taken and edited by   *)
(* dispatchers, or ordered on the web site, and the books kept of them:    *)
(* what an edit leaves to be paid, what the driver is to get and whether   *)
(* he has got it.  booking.service.ts.  A handler that awaits the database *)
(* more than once runs in a slot, one action per call; a price is a small  *)
(* number (Pricing has how it is made).                                    *)
(***************************************************************************)
EXTENDS Naturals, FiniteSets

CONSTANTS
  Orders,    \* the bookings that may be created, in order
  Guests,    \* the customers the web site may create, in order
  Numbers,   \* phone numbers
  Quotes,    \* what a price may come to
  Forms,     \* handlers under way at a time
  MaxForms,  \* bound: requests made
  LastSlot,  \* bound: hours that pass
  None

VARIABLES
  order,   \* the bookings
  guest,   \* the customers
  form,    \* the handlers under way
  filed,   \* requests made
  now,     \* hours passed
  last,    \* of each booking: the total its last edit replaced
  told,    \* of each booking: the payout its driver was told of last
  altered, \* bookings whose payout was changed after he was told
  crossed  \* phones two web orders of which overlapped

vars == <<order, guest, form, filed, now, last, told, altered, crossed>>

Methods == {"invoice", "card"}
NoOrder == [status |-> "none", by |-> None, customer |-> None, method |-> "card", total |-> 0,
            pay_by_customer |-> 0, pay_to_customer |-> 0, payment_success |-> FALSE,
            amount_for_driver |-> 0, pay_to_driver |-> "unpaid", schedule_date |-> 0]
NoSeen == [method |-> "card", total |-> 0]
NoEdit == [was |-> 0, method |-> "card", stale |-> TRUE]
Blank == [pc |-> "idle", id |-> None, phone |-> None, customer |-> None, quote |-> 0,
          given |-> 0, method |-> "card", income |-> 0, date |-> 0,
          seen |-> NoSeen, stale |-> FALSE]

Booked == {b \in Orders : order[b].status # "none"}
Live == {g \in Guests : guest[g].live}
Lowest(S) == CHOOSE x \in S : \A y \in S : x <= y
NextOrder == Lowest(Orders \ Booked)

File(f) == form[f].pc = "idle" /\ filed < MaxForms /\ filed' = filed + 1
Put(f, j) == form' = [form EXCEPT ![f] = j]
Step(f, pc) == Put(f, [form[f] EXCEPT !.pc = pc])

\* f is done with b: what others have read of it is not what it is now
Outdate(f, b) ==
  [x \in Forms |-> IF x = f THEN Blank
                   ELSE IF form[x].pc = "write" /\ form[x].id = b
                        THEN [form[x] EXCEPT !.stale = TRUE] ELSE form[x]]

\* a payout that is not what the driver was told of any more
Alter(b, amount) ==
  altered' = IF told[b] # None /\ amount # told[b] THEN altered \cup {b} ELSE altered

---------------------------------------------------------------------------
(* A dispatcher takes a booking: createBookingByDispatcher.                *)

\* schedule_bookingByDispatcher prices it; the dispatcher may have given a total and
\* what the driver is to get
ScheduleByDispatcher(f, quote, given, method, income) ==
  /\ File(f)
  /\ Put(f, [Blank EXCEPT !.pc = "store", !.quote = quote, !.given = given,
                          !.method = method, !.income = income])
  /\ UNCHANGED <<order, guest, now, last, told, altered, crossed>>

\* create_booking_schedule stores it at the price ...
StoreOrder(f) ==
  /\ form[f].pc = "store"
  /\ Booked # Orders
  /\ order' = [order EXCEPT ![NextOrder] =
                 [NoOrder EXCEPT !.status = "open", !.by = "dispatcher",
                    !.method = form[f].method, !.total = form[f].quote,
                    !.amount_for_driver = form[f].income]]
  /\ Put(f, IF form[f].given = 0 THEN Blank
            ELSE [form[f] EXCEPT !.pc = "given", !.id = NextOrder])
  /\ UNCHANGED <<guest, filed, now, last, told, altered, crossed>>

\* ... and saves the total that was given over it
SaveTotal(f) ==
  /\ form[f].pc = "given"
  /\ order' = [order EXCEPT ![form[f].id].total = form[f].given]
  /\ last' = [last EXCEPT ![form[f].id] = NoEdit]
  /\ form' = Outdate(f, form[f].id)
  /\ UNCHANGED <<guest, filed, now, told, altered, crossed>>

---------------------------------------------------------------------------
(* A dispatcher edits a booking, whatever its status.                      *)

\* update_schedule_bookingByDispatcher prices it anew; a total that is given counts
UpdateByDispatcher(f, b, quote, given, method, income) ==
  /\ b \in Booked
  /\ File(f)
  /\ Put(f, [Blank EXCEPT !.pc = "read", !.id = b, !.method = method, !.income = income,
                          !.quote = IF given = 0 THEN quote ELSE given])
  /\ UNCHANGED <<order, guest, now, last, told, altered, crossed>>

\* update_booking_schedule reads what it is about to replace ...
ReadPrevious(f) ==
  /\ form[f].pc = "read"
  /\ Put(f, [form[f] EXCEPT !.pc = "write", !.seen = [method |-> order[form[f].id].method,
                                                  total |-> order[form[f].id].total]])
  /\ UNCHANGED <<order, guest, filed, now, last, told, altered, crossed>>

\* Mutant: who has to pay and who gets back are confused
WriteUpdateSwapped(f) ==
  /\ form[f].pc = "write"
  /\ LET j == form[f]
         b == j.id
         old == order[b]
         dearer == j.seen.method = "invoice" /\ j.seen.total < j.quote
         cheaper == j.seen.method = "invoice" /\ j.seen.total > j.quote
         pay == IF j.income = 0 THEN old.amount_for_driver ELSE j.income
     IN  /\ order' = [order EXCEPT
              ![b].method = j.method, ![b].total = j.quote, ![b].amount_for_driver = pay,
              ![b].pay_to_customer = IF dearer THEN j.quote - j.seen.total ELSE @,
              ![b].pay_by_customer = IF cheaper THEN j.seen.total - j.quote ELSE @]
         /\ last' = [last EXCEPT ![b] = [was |-> old.total, method |-> old.method,
                                         stale |-> j.stale]]
         /\ Alter(b, pay)
         /\ form' = Outdate(f, b)
  /\ UNCHANGED <<guest, filed, now, told, crossed>>

\* ... and writes; what the customer of an invoice has still to pay, or to get back, is
\* the difference to the total that was read.  The other one of the two stays.
WriteUpdate(f) ==
  /\ form[f].pc = "write"
  /\ LET j == form[f]
         b == j.id
         old == order[b]
         dearer == j.seen.method = "invoice" /\ j.seen.total < j.quote
         cheaper == j.seen.method = "invoice" /\ j.seen.total > j.quote
         pay == IF j.income = 0 THEN old.amount_for_driver ELSE j.income
     IN  /\ order' = [order EXCEPT
              ![b].method = j.method, ![b].total = j.quote, ![b].amount_for_driver = pay,
              ![b].pay_by_customer = IF dearer THEN j.quote - j.seen.total ELSE @,
              ![b].pay_to_customer = IF cheaper THEN j.seen.total - j.quote ELSE @]
         /\ last' = [last EXCEPT ![b] = [was |-> old.total, method |-> old.method,
                                         stale |-> j.stale]]
         /\ Alter(b, pay)
         /\ form' = Outdate(f, b)
  /\ UNCHANGED <<guest, filed, now, told, crossed>>

\* updateDriverIncomeByDispatcher
UpdateDriverIncome(b, amount) ==
  /\ b \in Booked
  /\ filed < MaxForms /\ filed' = filed + 1
  /\ order' = [order EXCEPT ![b].amount_for_driver = amount]
  /\ Alter(b, amount)
  /\ UNCHANGED <<guest, form, now, last, told, crossed>>

---------------------------------------------------------------------------
(* The web site: createBookingBywebApp.                                    *)

\* a customer with this phone, verified or not, is looked for ...
OrderOnWeb(f, phone, quote, date) ==
  /\ File(f)
  /\ LET same == {g \in Live : phone \in {guest[g].phone, guest[g].temp_phone}}
         j == [Blank EXCEPT !.phone = phone, !.quote = quote, !.date = date]
     IN  IF same # {}
         THEN /\ Put(f, [j EXCEPT !.pc = "web", !.customer = Lowest(same)])
              /\ UNCHANGED crossed
         ELSE /\ Put(f, [j EXCEPT !.pc = "guest"])
              /\ crossed' = IF \E x \in Forms : form[x].pc = "guest" /\ form[x].phone = phone
                            THEN crossed \cup {phone} ELSE crossed
  /\ UNCHANGED <<order, guest, now, last, told, altered>>

\* ... and made when there is none, with the phone as one that waits to be verified
CreateGuest(f) ==
  /\ form[f].pc = "guest"
  /\ Live # Guests
  /\ LET g == Lowest(Guests \ Live)
     IN  /\ guest' = [guest EXCEPT ![g] = [live |-> TRUE, phone |-> None,
                                           temp_phone |-> form[f].phone]]
         /\ Put(f, [form[f] EXCEPT !.pc = "web", !.customer = g])
  /\ UNCHANGED <<order, filed, now, last, told, altered, crossed>>

\* schedule_bookingForWebApp and create_booking_schedule_for_web_app: the booking ...
StoreWebOrder(f) ==
  /\ form[f].pc = "web"
  /\ Booked # Orders
  /\ order' = [order EXCEPT ![NextOrder] =
                 [NoOrder EXCEPT !.status = "open", !.by = "web", !.total = form[f].quote,
                    !.customer = form[f].customer, !.schedule_date = form[f].date]]
  /\ Put(f, [form[f] EXCEPT !.pc = "income", !.id = NextOrder])
  /\ UNCHANGED <<guest, filed, now, last, told, altered, crossed>>

DriverShare(fee) == fee - (fee * 12) \div 100

\* ... what its driver is to get ...
WriteIncome(f) ==
  /\ form[f].pc = "income"
  /\ order' = [order EXCEPT ![form[f].id].amount_for_driver = DriverShare(form[f].quote)]
  /\ Alter(form[f].id, DriverShare(form[f].quote))
  /\ Step(f, "intent")
  /\ UNCHANGED <<guest, filed, now, last, told, crossed>>

\* ... and Stripe's intent.  Every customer has an id with Stripe by then.
WebIntent(f) ==
  /\ form[f].pc = "intent"
  /\ Put(f, Blank)
  /\ UNCHANGED <<order, guest, filed, now, last, told, altered, crossed>>

\* the webhook says that the customer has paid
WebPaid(b) ==
  /\ order[b].by = "web" /\ ~order[b].payment_success
  /\ \A f \in Forms : form[f].id # b \/ form[f].pc \notin {"income", "intent"}
  /\ order' = [order EXCEPT ![b].payment_success = TRUE]
  /\ UNCHANGED <<guest, form, filed, now, last, told, altered, crossed>>

\* a code sent to it verifies the phone of a guest, in auth.service
VerifyGuest(g) ==
  /\ g \in Live /\ guest[g].temp_phone # None
  /\ filed < MaxForms /\ filed' = filed + 1
  /\ guest' = [guest EXCEPT ![g].phone = guest[g].temp_phone, ![g].temp_phone = None]
  /\ UNCHANGED <<order, form, now, last, told, altered, crossed>>

---------------------------------------------------------------------------
(* The payout of the driver.                                               *)

\* updatePaymentStatusDriver, and the driver is told when it says paid
UpdatePaymentStatus(b, status) ==
  /\ b \in Booked
  /\ filed < MaxForms /\ filed' = filed + 1
  /\ order' = [order EXCEPT ![b].pay_to_driver = status]
  /\ IF status = "paid"
     THEN /\ told' = [told EXCEPT ![b] = order[b].amount_for_driver]
          /\ altered' = altered \ {b}
     ELSE UNCHANGED <<told, altered>>
  /\ UNCHANGED <<guest, form, now, last, crossed>>

\* Ride_Completed
CompleteOrder(b) ==
  /\ b \in Booked /\ order[b].status = "open"
  /\ order' = [order EXCEPT ![b].status = "completed"]
  /\ UNCHANGED <<guest, form, filed, now, last, told, altered, crossed>>

HourPasses ==
  /\ now < LastSlot
  /\ now' = now + 1
  /\ UNCHANGED <<order, guest, form, filed, last, told, altered, crossed>>

---------------------------------------------------------------------------
(* What is read off the books.                                             *)

\* payoutsPaidUnpaidList
Payouts(status) == {b \in Booked : order[b].status = "completed" /\ order[b].pay_to_driver = status}

\* CheckScheduleBooking: the first paid booking of the customer that is still to come,
\* and whether it is within the hour
Upcoming(g) == {b \in Booked : /\ order[b].customer = g /\ order[b].status = "open"
                              /\ order[b].payment_success
                              /\ order[b].schedule_date > now}
CanRequest(g) == IF Upcoming(g) = {} THEN TRUE
                 ELSE order[Lowest(Upcoming(g))].schedule_date > now + 1

---------------------------------------------------------------------------
Init ==
  /\ order = [b \in Orders |-> NoOrder]
  /\ guest = [g \in Guests |-> [live |-> FALSE, phone |-> None, temp_phone |-> None]]
  /\ form = [f \in Forms |-> Blank]
  /\ filed = 0 /\ now = 0
  /\ last = [b \in Orders |-> NoEdit]
  /\ told = [b \in Orders |-> None]
  /\ altered = {} /\ crossed = {}

DispatcherStep ==
  \E f \in Forms :
    \/ \E quote \in Quotes, given \in Quotes \cup {0}, method \in Methods, income \in {0, 1} :
         \/ ScheduleByDispatcher(f, quote, given, method, income)
         \/ \E b \in Orders : UpdateByDispatcher(f, b, quote, given, method, income)
    \/ StoreOrder(f) \/ SaveTotal(f) \/ ReadPrevious(f) \/ WriteUpdate(f)

WebStep ==
  \/ \E f \in Forms :
       \/ \E phone \in Numbers, quote \in Quotes, date \in 1 .. LastSlot :
            OrderOnWeb(f, phone, quote, date)
       \/ CreateGuest(f) \/ StoreWebOrder(f) \/ WriteIncome(f) \/ WebIntent(f)
  \/ \E b \in Orders : WebPaid(b)
  \/ \E g \in Guests : VerifyGuest(g)

BookStep ==
  \E b \in Orders :
    \/ \E amount \in Quotes : UpdateDriverIncome(b, amount)
    \/ \E status \in {"paid", "unpaid"} : UpdatePaymentStatus(b, status)
    \/ CompleteOrder(b)

Next == DispatcherStep \/ WebStep \/ BookStep \/ HourPasses

---------------------------------------------------------------------------
Sums == {0} \cup Quotes
OrderType ==
  [status : {"none", "open", "completed"}, by : {"dispatcher", "web", None},
   customer : Guests \cup {None}, method : Methods, total : Sums,
   pay_by_customer : Nat, pay_to_customer : Nat, payment_success : BOOLEAN,
   amount_for_driver : Nat, pay_to_driver : {"paid", "unpaid"},
   schedule_date : 0 .. LastSlot]

\* Bookings, customers and handlers have their types.
TypeOK ==
  /\ order \in [Orders -> OrderType]
  /\ guest \in [Guests -> [live : BOOLEAN, phone : Numbers \cup {None},
                           temp_phone : Numbers \cup {None}]]
  /\ \A f \in Forms :
       /\ form[f].pc \in {"idle", "store", "given", "read", "write", "guest", "web",
                          "income", "intent"}
       /\ form[f].id \in Orders \cup {None} /\ form[f].seen \in [method : Methods, total : Sums]
  /\ filed \in 0 .. MaxForms /\ now \in 0 .. LastSlot
  /\ told \in [Orders -> Nat \cup {None}] /\ altered \subseteq Orders /\ crossed \subseteq Numbers

\* What an edit leaves to be paid, or to be given back, is the difference to the total
\* it replaced, unless two edits of the invoice overlapped.
DifferenceIsLast ==
  \A b \in Orders :
    last[b].method = "invoice" /\ ~last[b].stale =>
      /\ order[b].total > last[b].was =>
           order[b].pay_by_customer = order[b].total - last[b].was
      /\ order[b].total < last[b].was =>
           order[b].pay_to_customer = last[b].was - order[b].total

\* The web site makes one customer of a phone, unless two orders of it overlapped.
OneGuest ==
  \A g, h \in Live :
    g # h /\ {guest[g].phone, guest[g].temp_phone} \cap {guest[h].phone, guest[h].temp_phone}
             # {None}
      => {guest[g].phone, guest[g].temp_phone, guest[h].phone, guest[h].temp_phone}
           \subseteq crossed \cup {None}

\* A completed booking in the list of paid ones is one whose driver was told of what he
\* gets, unless that was changed afterwards.
PaidAsTold ==
  \A b \in Payouts("paid") : told[b] = order[b].amount_for_driver \/ b \in altered

\* A customer is refused a ride only when a paid one of his is due within the hour, and
\* always then if it is the only one to come.
RefusedWhenDue ==
  \A g \in Guests :
    LET due == {b \in Upcoming(g) : order[b].schedule_date <= now + 1}
    IN  /\ ~CanRequest(g) => due # {}
        /\ due # {} /\ Cardinality(Upcoming(g)) = 1 => ~CanRequest(g)

OrdersHold == DifferenceIsLast /\ OneGuest /\ PaidAsTold /\ RefusedWhenDue
=============================================================================
