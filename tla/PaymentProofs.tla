--------------------------- MODULE PaymentProofs ---------------------------
(***************************************************************************)
(* Proofs about Payment, for any amounts, any set of bookings and          *)
(* processes, finite or not, and any bounds on deliveries and cancels: its *)
(* type invariant, that a debt is cleared by who carried it, that a refund *)
(* is marked when Stripe made it, and that the books agree with Stripe.    *)
(* About Pricing: that what is quoted is what is charged.                  *)
(***************************************************************************)
EXTENDS MCPayment, SumProofs, FiniteSetTheorems, TLAPS

Amounts == Charges \cup {Fare + 2 * Stop}

\* What works on a booking, by what it is about to do: a new booking, the trip's
\* webhook, the webhook of the waiting charge, and cancelRefund.
Doing(b, pcs) == {p \in Procs : proc[p].b = b /\ proc[p].pc \in pcs}
BookPCs == {"check", "insert", "intent"}
TripPCs == {"paid", "reset", "row", "earning"}
StopPCs == {"confirm", "settle"}
RefundPCs == {"recheck", "refund", "mark", "adjust", "flag", "markfirst", "refundall"}

\* Idle is to work on nothing; what was read as a debt is one.
ProcOK(r) ==
    /\ r \in ProcType
    /\ r.b = None <=> r.pc = "idle"
    /\ r.pc \in BookPCs \cup {"owe"} => r.amount \in Debts

ProcsOK ==
    /\ proc = [p \in Procs |-> proc[p]]
    /\ \A p \in Procs : ProcOK(proc[p])

\* The debt is the one part of a price that is not the fare.
PricesOK ==
    /\ booking \in [Bookings -> BookingType]
    /\ \A b \in Bookings :
          booking[b].stage # "none" => booking[b].trip = Fare + booking[b].pending

\* A second reading finds the booking that was cancelled.
RecheckOK ==
    \A p \in Procs : At(p, "recheck") => booking[proc[p].b].stage # "none"

MoneyOK ==
    /\ pending \in Debts
    /\ intent \in [Bookings -> [Kinds -> IntentType]]
    /\ payments \in [Bookings -> Seq(RowType)]

NotesOK ==
    /\ cancels \in [Bookings -> 0 .. MaxCancels]
    /\ cut \cup raced \cup late \cup whole \cup early \subseteq Bookings

\* Every row of driverEarnings, written or on its way, was an event of Stripe.
EarnOK(b) ==
    /\ IsFiniteSet(Doing(b, TripPCs))
    /\ earnings[b] + Cardinality(Doing(b, TripPCs)) <= intent[b]["trip"].sent
EarningsOK ==
    /\ earnings \in [Bookings -> Nat]
    /\ \A b \in Bookings : EarnOK(b)

TypeInv == PricesOK /\ MoneyOK /\ ProcsOK /\ RecheckOK /\ EarningsOK /\ NotesOK

-----------------------------------------------------------------------------
(* The processes.                                                           *)

LEMMA AmountsAreInts ==
  /\ Charges \subseteq Nat /\ Amounts \subseteq Nat /\ Debts \subseteq Charges
  /\ {Fare, Fare + Stop, Fare - Fee} \subseteq Charges /\ 0 \in Charges
  BY AmountsAssumption DEF Charges, Amounts, Debts

LEMMA IdleOK == ProcOK(Idle)
  BY AmountsAreInts DEF ProcOK, Idle, ProcType, ProcPCs, Kinds, BookPCs

LEMMA SetProc ==
  ASSUME ProcsOK, NEW p \in Procs, NEW r, ProcOK(r), proc' = [proc EXCEPT ![p] = r]
  PROVE  ProcsOK'
  <1>1. proc' = [q \in Procs |-> proc'[q]]
    BY DEF ProcsOK
  <1>2. \A q \in Procs : proc'[q] = IF q = p THEN r ELSE proc[q]
    BY DEF ProcsOK
  <1>3. \A q \in Procs : ProcOK(proc'[q])
    BY <1>2 DEF ProcsOK
  <1>. QED  BY <1>1, <1>3 DEF ProcsOK, ProcOK

LEMMA ExitOK == ASSUME Exit PROVE ProcsOK'
  BY IdleOK DEF Exit, ProcsOK, ProcOK

LEMMA DoingFewer ==
  ASSUME EarningsOK, UNCHANGED earnings, MoneyOK, MoneyOK',
         \A b \in Bookings : intent'[b]["trip"].sent = intent[b]["trip"].sent,
         \A b \in Bookings : Doing(b, TripPCs)' \subseteq Doing(b, TripPCs)
  PROVE  EarningsOK'
  <1>1. SUFFICES ASSUME NEW b \in Bookings PROVE EarnOK(b)'
    BY DEF EarningsOK
  <1>. DEFINE S == Doing(b, TripPCs)
              T == Doing(b, TripPCs)'
  <1>2. IsFiniteSet(S) /\ T \subseteq S /\ earnings[b] + Cardinality(S) <= intent[b]["trip"].sent
    BY DEF EarningsOK, EarnOK
  <1>3. earnings[b] \in Nat /\ intent[b]["trip"].sent \in Int
    BY DEF EarningsOK, MoneyOK, IntentType, Kinds
  <1>. HIDE DEF S, T
  <1>4. IsFiniteSet(T) /\ Cardinality(T) <= Cardinality(S)
        /\ Cardinality(S) \in Nat /\ Cardinality(T) \in Nat
    BY <1>2, FS_Subset, FS_CardinalityType
  <1>5. IsFiniteSet(T) /\ earnings[b] + Cardinality(T) <= intent[b]["trip"].sent
    BY <1>2, <1>3, <1>4
  <1>. QED  BY <1>5 DEF EarnOK, T

LEMMA StepEarn ==
  ASSUME EarningsOK, ProcsOK, MoneyOK, MoneyOK', UNCHANGED earnings,
         NEW p \in Procs, NEW r, proc' = [proc EXCEPT ![p] = r],
         r.pc \in TripPCs => proc[p].pc \in TripPCs /\ proc[p].b = r.b,
         \A b \in Bookings : intent'[b]["trip"].sent = intent[b]["trip"].sent
  PROVE  EarningsOK'
  <1>1. ASSUME NEW b \in Bookings PROVE Doing(b, TripPCs)' \subseteq Doing(b, TripPCs)
    <2>1. \A q \in Procs : proc'[q] = IF q = p THEN r ELSE proc[q]
      BY DEF ProcsOK
    <2>. QED  BY <2>1 DEF Doing, TripPCs
  <1>. QED  BY <1>1, DoingFewer

LEMMA ExitEarn ==
  ASSUME EarningsOK, MoneyOK, MoneyOK', UNCHANGED earnings, Exit,
         \A b \in Bookings : intent'[b]["trip"].sent = intent[b]["trip"].sent
  PROVE  EarningsOK'
  <1>1. \A b \in Bookings : Doing(b, TripPCs)' = {}
    BY DEF Exit, Doing, TripPCs, Idle
  <1>. QED  BY <1>1, DoingFewer

LEMMA SameEarn ==
  ASSUME EarningsOK, MoneyOK, MoneyOK', UNCHANGED <<earnings, proc>>,
         \A b \in Bookings : intent'[b]["trip"].sent = intent[b]["trip"].sent
  PROVE  EarningsOK'
  <1>1. \A b \in Bookings : Doing(b, TripPCs)' = Doing(b, TripPCs)
    BY DEF Doing
  <1>. QED  BY <1>1, DoingFewer

\* A second reading stays one as long as bookings do not go away.
LEMMA KeepRecheck ==
  ASSUME RecheckOK, ProcsOK, NEW p \in Procs, NEW r, proc' = [proc EXCEPT ![p] = r],
         \A b \in Bookings : booking[b].stage # "none" => booking'[b].stage # "none",
         r.pc = "recheck" => booking'[r.b].stage # "none"
  PROVE  RecheckOK'
  <1>1. \A q \in Procs : proc'[q] = IF q = p THEN r ELSE proc[q]
    BY DEF ProcsOK
  <1>2. \A q \in Procs : At(q, "recheck") => proc[q].b \in Bookings
    BY DEF ProcsOK, ProcOK, ProcType, At
  <1>. QED  BY <1>1, <1>2 DEF RecheckOK, At

-----------------------------------------------------------------------------
LEMMA InitType == Init => TypeInv
  <1>. SUFFICES ASSUME Init PROVE TypeInv
    OBVIOUS
  <1>0. 0 \in 0 .. MaxDeliveries /\ 0 \in 0 .. MaxCancels /\ 0 \in Debts
    BY BoundsAssumption DEF Debts
  <1>1. PricesOK
    <2>1. NewBooking \in BookingType /\ NewBooking.stage = "none"
      BY <1>0, AmountsAreInts DEF NewBooking, BookingType
    <2>. QED  BY <2>1 DEF Init, PricesOK
  <1>2. MoneyOK
    <2>1. NoIntent \in IntentType
      BY <1>0, AmountsAreInts DEF NoIntent, IntentType
    <2>. QED  BY <2>1, <1>0 DEF Init, MoneyOK
  <1>3. ProcsOK
    BY IdleOK DEF Init, ProcsOK
  <1>4. RecheckOK
    BY DEF Init, RecheckOK, At, Idle
  <1>5. EarningsOK
    <2>1. SUFFICES ASSUME NEW b \in Bookings PROVE EarnOK(b)
      BY DEF EarningsOK, Init
    <2>2. Doing(b, TripPCs) = {}
      BY DEF Init, Doing, Idle, TripPCs
    <2>3. earnings[b] = 0 /\ intent[b]["trip"].sent = 0
      BY DEF Init, NoIntent, Kinds
    <2>. QED  BY <2>2, <2>3, FS_EmptySet DEF EarnOK
  <1>6. NotesOK
    BY <1>0 DEF Init, NotesOK
  <1>. QED  BY <1>1, <1>2, <1>3, <1>4, <1>5, <1>6 DEF TypeInv

-----------------------------------------------------------------------------
(* What changes no money and no booking.                                    *)

LEMMA OnlyProc ==
  ASSUME TypeInv, NEW p \in Procs, NEW r, ProcOK(r), proc' = [proc EXCEPT ![p] = r],
         UNCHANGED <<booking, pending, intent, payments, earnings, notes>>,
         r.pc \in TripPCs => proc[p].pc \in TripPCs /\ proc[p].b = r.b,
         r.pc = "recheck" => booking[r.b].stage # "none"
  PROVE  TypeInv'
  <1>. USE DEF TypeInv
  <1>1. PricesOK' /\ MoneyOK' /\ NotesOK'
    BY DEF PricesOK, MoneyOK, NotesOK, notes
  <1>2. ProcsOK'
    BY SetProc
  <1>3. RecheckOK'
    BY KeepRecheck
  <1>4. EarningsOK'
    BY <1>1, StepEarn, UNCHANGED <<earnings, intent>>
  <1>. QED  BY <1>1, <1>2, <1>3, <1>4

LEMMA CreateType ==
  ASSUME TypeInv, NEW p \in Procs, NEW b \in Bookings, Create(p, b) \/ Schedule(p, b)
  PROVE  TypeInv'
  <1>1. pending \in Debts /\ Debts \subseteq Charges /\ b # None
    BY AmountsAreInts, NoneAssumption DEF TypeInv, MoneyOK
  <1>2. CASE Create(p, b)
    <2>. DEFINE r == [Idle EXCEPT !.pc = "insert", !.b = b, !.amount = pending]
    <2>1. ProcOK(r) /\ r.pc = "insert"
      BY <1>1, IdleOK DEF ProcOK, ProcType, ProcPCs, BookPCs, Idle
    <2>2. proc' = [proc EXCEPT ![p] = r]
      BY <1>2 DEF Create
    <2>. QED  BY <1>2, <2>1, <2>2, OnlyProc DEF Create, TripPCs
  <1>3. CASE Schedule(p, b)
    <2>. DEFINE r == [Idle EXCEPT !.pc = "check", !.b = b, !.type = "schedule",
                                  !.amount = pending]
    <2>1. ProcOK(r) /\ r.pc = "check"
      BY <1>1, IdleOK DEF ProcOK, ProcType, ProcPCs, BookPCs, Idle
    <2>2. proc' = [proc EXCEPT ![p] = r]
      BY <1>3 DEF Schedule
    <2>. QED  BY <1>3, <2>1, <2>2, OnlyProc DEF Schedule, TripPCs
  <1>. QED  BY <1>2, <1>3

LEMMA ScheduleCheckType ==
  ASSUME TypeInv, NEW p \in Procs, ScheduleCheck(p)
  PROVE  TypeInv'
  <1>1. ProcOK(proc[p])
    BY DEF TypeInv, ProcsOK
  <1>2. CASE End(p)
    <2>1. Idle.pc = "idle"
      BY DEF Idle
    <2>. QED  BY <1>2, <2>1, IdleOK, OnlyProc DEF ScheduleCheck, End, TripPCs
  <1>3. CASE Goto(p, "insert")
    <2>. DEFINE r == [proc[p] EXCEPT !.pc = "insert"]
    <2>1. ProcOK(r) /\ r.pc = "insert"
      BY <1>1 DEF ProcOK, ProcType, ProcPCs, BookPCs, ScheduleCheck, At
    <2>2. proc' = [proc EXCEPT ![p] = r]
      BY <1>3 DEF Goto
    <2>. QED  BY <2>1, <2>2, OnlyProc DEF ScheduleCheck, TripPCs
  <1>. QED  BY <1>2, <1>3 DEF ScheduleCheck

\* The refund of a booking that was made: its price without the debt.
LEMMA RefundJobOK ==
  ASSUME PricesOK, NEW b \in Bookings, booking[b].stage # "none",
         NEW scope \in {"customer", "failed"}
  PROVE  /\ ProcOK(RefundJob(b, scope))
         /\ RefundJob(b, scope).pc \in {"refund", "markfirst"}
         /\ RefundJob(b, scope).b = b
  <1>1. /\ booking[b].trip - booking[b].pending = Fare
        /\ booking[b].driver \in BOOLEAN /\ booking[b].paid \in BOOLEAN
    BY AmountsAssumption DEF PricesOK, BookingType, Debts
  <1>. DEFINE driven == scope = "customer" /\ booking[b].driver
              pc == IF driven \/ scope = "failed" THEN "refund" ELSE "markfirst"
              amount == IF driven THEN Fare - Fee ELSE Fare
              funded == booking[b].paid
  <1>2. RefundJob(b, scope) = [Idle EXCEPT !.pc = pc, !.b = b, !.scope = scope,
                                           !.funded = funded, !.amount = amount]
    BY <1>1 DEF RefundJob
  <1>3. pc \in {"refund", "markfirst"} /\ amount \in Charges /\ funded \in BOOLEAN /\ b # None
    BY <1>1, AmountsAreInts, NoneAssumption
  <1>. HIDE DEF pc, amount, funded, driven
  <1>4. ProcOK([Idle EXCEPT !.pc = pc, !.b = b, !.scope = scope, !.funded = funded,
                            !.amount = amount])
    BY <1>3, IdleOK DEF ProcOK, ProcType, ProcPCs, Idle, BookPCs
  <1>5. /\ RefundJob(b, scope).pc = pc /\ RefundJob(b, scope).b = b
    BY <1>2 DEF Idle
  <1>. QED  BY <1>2, <1>3, <1>4, <1>5

LEMMA CancelRecheckType ==
  ASSUME TypeInv, NEW p \in Procs, CancelRecheck(p)
  PROVE  TypeInv'
  <1>. DEFINE r == RefundJob(proc[p].b, proc[p].scope)
  <1>1. ProcOK(proc[p]) /\ proc[p].b \in Bookings /\ booking[proc[p].b].stage # "none"
        /\ proc[p].scope \in {"customer", "failed"}
    BY DEF TypeInv, ProcsOK, RecheckOK, CancelRecheck, At, ProcOK, ProcType
  <1>2. ProcOK(r) /\ r.pc \in {"refund", "markfirst"}
    BY <1>1, RefundJobOK DEF TypeInv
  <1>. HIDE DEF r
  <1>3. proc' = [proc EXCEPT ![p] = r]
    BY DEF CancelRecheck, r
  <1>. QED  BY <1>2, <1>3, OnlyProc DEF CancelRecheck, TripPCs

-----------------------------------------------------------------------------
(* What changes a booking.                                                  *)

\* A process that goes on with its booking, or is done with it.
Next1(p, r) ==
    /\ ProcOK(r)
    /\ proc' = [proc EXCEPT ![p] = r]
    /\ r.pc \in TripPCs => proc[p].pc \in TripPCs /\ proc[p].b = r.b

LEMMA BookStep ==
  ASSUME TypeInv, NEW p \in Procs, NEW r, Next1(p, r),
         NEW b \in Bookings, NEW d \in BookingType,
         booking[b].stage # "none" => d.stage # "none",
         d.stage # "none" => d.trip = Fare + d.pending,
         booking' = [booking EXCEPT ![b] = d],
         UNCHANGED <<pending, intent, payments, earnings>>, NotesOK',
         r.pc = "recheck" => booking'[r.b].stage # "none"
  PROVE  TypeInv'
  <1>. USE DEF TypeInv, Next1
  <1>1. \A c \in Bookings : booking'[c] = IF c = b THEN d ELSE booking[c]
    BY DEF PricesOK
  <1>2. booking' \in [Bookings -> BookingType]
    BY DEF PricesOK
  <1>3. PricesOK'
    BY <1>1, <1>2 DEF PricesOK
  <1>4. MoneyOK'
    BY DEF MoneyOK
  <1>5. ProcsOK'
    BY SetProc
  <1>6. RecheckOK'
    BY <1>1, KeepRecheck
  <1>7. EarningsOK'
    BY <1>4, StepEarn
  <1>. QED  BY <1>3, <1>4, <1>5, <1>6, <1>7

LEMMA GoOn ==
  ASSUME ProcsOK, NEW p \in Procs, NEW pc \in ProcPCs \ {"idle"}, ~At(p, "idle"),
         pc \in BookPCs \cup {"owe"} => proc[p].pc \in BookPCs,
         pc \in TripPCs => proc[p].pc \in TripPCs
  PROVE  LET r == [proc[p] EXCEPT !.pc = pc] IN
         Goto(p, pc) => Next1(p, r) /\ r.pc = pc /\ r.b = proc[p].b
  <1>. DEFINE r == [proc[p] EXCEPT !.pc = pc]
  <1>1. ProcOK(proc[p])
    BY DEF ProcsOK
  <1>2. ProcOK(r)
    BY <1>1 DEF ProcOK, ProcType, At
  <1>3. r.pc = pc /\ r.b = proc[p].b
    BY <1>1 DEF ProcOK, ProcType
  <1>4. Goto(p, pc) => proc' = [proc EXCEPT ![p] = r]
    BY DEF Goto
  <1>. HIDE DEF r
  <1>5. Goto(p, pc) => Next1(p, r) /\ r.pc = pc /\ r.b = proc[p].b
    BY <1>2, <1>3, <1>4 DEF Next1
  <1>. QED  BY <1>5 DEF r

LEMMA GiveUp ==
  ASSUME NEW p \in Procs, End(p)
  PROVE  Next1(p, Idle) /\ Idle.pc = "idle"
  BY IdleOK DEF End, Next1, Idle, TripPCs

\* A process at work has a booking.
LEMMA Busy ==
  ASSUME TypeInv, NEW p \in Procs, ~At(p, "idle")
  PROVE  proc[p].b \in Bookings /\ ProcOK(proc[p])
  BY DEF TypeInv, ProcsOK, ProcOK, ProcType, At

LEMMA InsertType ==
  ASSUME TypeInv, NEW p \in Procs, InsertBooking(p)
  PROVE  TypeInv'
  <1>1. proc[p].b \in Bookings /\ ProcOK(proc[p]) /\ proc[p].pc = "insert"
    BY Busy DEF InsertBooking, At
  <1>. DEFINE b == proc[p].b
              price == Fare + proc[p].amount
              d == [NewBooking EXCEPT !.stage = "open", !.type = proc[p].type,
                      !.total = price, !.trip = price, !.pending = proc[p].amount]
  <1>2. proc[p].amount \in Debts /\ proc[p].type \in {"current", "schedule"}
    BY <1>1 DEF ProcOK, BookPCs, ProcType
  <1>3. price \in Charges /\ 0 \in Debts
    BY <1>2, AmountsAssumption DEF Charges, Debts
  <1>. HIDE DEF price
  <1>4. d \in BookingType /\ d.stage # "none" /\ d.trip = price /\ d.pending = proc[p].amount
    BY <1>2, <1>3 DEF BookingType, NewBooking
  <1>5. d.trip = Fare + d.pending
    BY <1>4 DEF price
  <1>6. booking' = [booking EXCEPT ![b] = d]
    BY DEF InsertBooking, price
  <1>7. NotesOK'
    BY <1>1 DEF InsertBooking, TypeInv, NotesOK
  <1>8. Goto(p, "intent") /\ UNCHANGED <<pending, intent, payments, earnings>>
    BY DEF InsertBooking
  <1>. DEFINE r == [proc[p] EXCEPT !.pc = "intent"]
  <1>9. Next1(p, r) /\ r.pc = "intent"
    BY <1>1, <1>8, GoOn DEF TypeInv, ProcPCs, BookPCs, TripPCs, At
  <1>. HIDE DEF d, r, b
  <1>10. b \in Bookings
    BY <1>1 DEF b
  <1>. QED  BY <1>4, <1>5, <1>6, <1>7, <1>8, <1>9, <1>10, BookStep

\* A field of a booking that is no part of its price is set.
LEMMA FlagType ==
  ASSUME TypeInv, NEW b \in Bookings
  PROVE  LET d == booking[b] IN
         /\ \A x \in BOOLEAN :
               /\ [d EXCEPT !.paid = x] \in BookingType
               /\ [d EXCEPT !.refund = x] \in BookingType
               /\ [d EXCEPT !.done = x] \in BookingType
         /\ \A x : LET e == [d EXCEPT !.paid = x] IN
                  e.stage = d.stage /\ e.trip = d.trip /\ e.pending = d.pending
         /\ \A x : LET e == [d EXCEPT !.refund = x] IN
                  e.stage = d.stage /\ e.trip = d.trip /\ e.pending = d.pending
         /\ \A x : LET e == [d EXCEPT !.done = x] IN
                  e.stage = d.stage /\ e.trip = d.trip /\ e.pending = d.pending
  <1>1. booking[b] \in BookingType
    BY DEF TypeInv, PricesOK
  <1>. QED  BY <1>1 DEF BookingType

LEMMA HookPaidType ==
  ASSUME TypeInv, NEW p \in Procs, HookPaid(p)
  PROVE  TypeInv'
  <1>1. proc[p].b \in Bookings /\ ProcOK(proc[p]) /\ proc[p].pc = "paid"
    BY Busy DEF HookPaid, At
  <1>. DEFINE b == proc[p].b
              d == [booking[b] EXCEPT !.paid = TRUE]
              pc == IF proc[p].type = "schedule" THEN "row" ELSE "reset"
              r == [proc[p] EXCEPT !.pc = pc]
  <1>2. /\ d \in BookingType /\ d.stage = booking[b].stage
        /\ d.trip = booking[b].trip /\ d.pending = booking[b].pending
    BY <1>1, FlagType, TRUE \in BOOLEAN
  <1>3. d.stage # "none" => d.trip = Fare + d.pending
    BY <1>1, <1>2 DEF TypeInv, PricesOK
  <1>4. booking' = [booking EXCEPT ![b] = d]
    BY DEF HookPaid
  <1>5. NotesOK'
    BY <1>1 DEF HookPaid, TypeInv, NotesOK
  <1>6. Goto(p, pc) /\ UNCHANGED <<pending, intent, payments, earnings>>
    BY DEF HookPaid
  <1>7. pc \in {"row", "reset"}
    OBVIOUS
  <1>. HIDE DEF pc
  <1>8. Next1(p, r) /\ r.pc = pc
    BY <1>1, <1>6, <1>7, GoOn DEF TypeInv, ProcPCs, BookPCs, TripPCs, At
  <1>. HIDE DEF d, r, b
  <1>9. b \in Bookings
    BY <1>1 DEF b
  <1>. QED  BY <1>2, <1>3, <1>4, <1>5, <1>6, <1>7, <1>8, <1>9, BookStep

LEMMA HookConfirmType ==
  ASSUME TypeInv, NEW p \in Procs, HookConfirm(p)
  PROVE  TypeInv'
  <1>1. proc[p].b \in Bookings /\ ProcOK(proc[p]) /\ proc[p].pc = "confirm"
    BY Busy DEF HookConfirm, At
  <1>. DEFINE b == proc[p].b
              d == [booking[b] EXCEPT !.done = TRUE]
              r == [proc[p] EXCEPT !.pc = "settle"]
  <1>2. /\ d \in BookingType /\ d.stage = booking[b].stage
        /\ d.trip = booking[b].trip /\ d.pending = booking[b].pending
    BY <1>1, FlagType, TRUE \in BOOLEAN
  <1>3. d.stage # "none" => d.trip = Fare + d.pending
    BY <1>1, <1>2 DEF TypeInv, PricesOK
  <1>4. booking' = [booking EXCEPT ![b] = d]
    BY DEF HookConfirm
  <1>5. NotesOK'
    BY <1>1 DEF HookConfirm, TypeInv, NotesOK, notes
  <1>6. Goto(p, "settle") /\ UNCHANGED <<pending, intent, payments, earnings>>
    BY DEF HookConfirm
  <1>7. Next1(p, r) /\ r.pc = "settle"
    BY <1>1, <1>6, GoOn DEF TypeInv, ProcPCs, BookPCs, TripPCs, At
  <1>. HIDE DEF d, r, b
  <1>8. b \in Bookings
    BY <1>1 DEF b
  <1>. QED  BY <1>2, <1>3, <1>4, <1>5, <1>6, <1>7, <1>8, BookStep

LEMMA RefundMarkType ==
  ASSUME TypeInv, NEW p \in Procs, RefundMark(p) \/ RefundMarkFirst(p)
  PROVE  TypeInv'
  <1>1. /\ proc[p].b \in Bookings /\ ProcOK(proc[p])
        /\ proc[p].pc \in {"mark", "markfirst"}
    BY Busy DEF RefundMark, RefundMarkFirst, At
  <1>. DEFINE b == proc[p].b
              d == [booking[b] EXCEPT !.refund = TRUE]
              pc == IF RefundMarkFirst(p) THEN "refundall"
                    ELSE IF proc[p].scope = "failed" THEN "flag" ELSE "adjust"
              r == [proc[p] EXCEPT !.pc = pc]
  <1>2. /\ d \in BookingType /\ d.stage = booking[b].stage
        /\ d.trip = booking[b].trip /\ d.pending = booking[b].pending
    BY <1>1, FlagType, TRUE \in BOOLEAN
  <1>3. d.stage # "none" => d.trip = Fare + d.pending
    BY <1>1, <1>2 DEF TypeInv, PricesOK
  <1>4. booking' = [booking EXCEPT ![b] = d]
    BY DEF RefundMark, RefundMarkFirst
  <1>5. NotesOK'
    BY <1>1 DEF RefundMark, RefundMarkFirst, TypeInv, NotesOK, notes
  <1>6. Goto(p, pc) /\ UNCHANGED <<pending, intent, payments, earnings>>
    BY DEF RefundMark, RefundMarkFirst
  <1>7. pc \in {"flag", "adjust", "refundall"}
    OBVIOUS
  <1>. HIDE DEF pc
  <1>8. Next1(p, r) /\ r.pc = pc
    BY <1>1, <1>6, <1>7, GoOn DEF TypeInv, ProcPCs, BookPCs, TripPCs, At
  <1>. HIDE DEF d, r, b
  <1>9. b \in Bookings
    BY <1>1 DEF b
  <1>. QED  BY <1>2, <1>3, <1>4, <1>5, <1>6, <1>7, <1>8, <1>9, BookStep

LEMMA DeferStopType ==
  ASSUME TypeInv, NEW p \in Procs, NEW b \in Bookings, DeferStop(p, b)
  PROVE  TypeInv'
  <1>. DEFINE d == [booking[b] EXCEPT !.done = TRUE]
              amount == booking[b].stop
              r == [Idle EXCEPT !.pc = "owe", !.b = b, !.amount = amount]
  <1>1. booking[b] \in BookingType /\ amount \in Debts
    BY DEF TypeInv, PricesOK, BookingType
  <1>2. /\ d \in BookingType /\ d.stage = booking[b].stage
        /\ d.trip = booking[b].trip /\ d.pending = booking[b].pending
    BY FlagType, TRUE \in BOOLEAN
  <1>3. d.stage # "none" => d.trip = Fare + d.pending
    BY <1>2 DEF TypeInv, PricesOK
  <1>4. booking' = [booking EXCEPT ![b] = d] /\ proc' = [proc EXCEPT ![p] = r]
        /\ UNCHANGED <<pending, intent, payments, earnings>>
    BY DEF DeferStop
  <1>5. NotesOK'
    BY DEF DeferStop, TypeInv, NotesOK, notes
  <1>. HIDE DEF amount
  <1>6. ProcOK(r) /\ r.pc = "owe"
    BY <1>1, IdleOK, AmountsAreInts, NoneAssumption
       DEF ProcOK, ProcType, ProcPCs, Idle, BookPCs
  <1>7. Next1(p, r)
    BY <1>4, <1>6 DEF Next1, TripPCs
  <1>. HIDE DEF d, r
  <1>. QED  BY <1>2, <1>3, <1>4, <1>5, <1>6, <1>7, BookStep

LEMMA CancelNotes ==
  ASSUME TypeInv, NEW b \in Bookings, Cancel(b), UNCHANGED <<cut, raced, whole, early>>
  PROVE  NotesOK'
  <1>1. \A n \in 0 .. MaxCancels : n < MaxCancels => n + 1 \in 0 .. MaxCancels
    BY BoundsAssumption
  <1>. QED  BY <1>1 DEF Cancel, TypeInv, NotesOK

LEMMA CancelType ==
  ASSUME TypeInv, NEW p \in Procs, NEW b \in Bookings,
         CustomerCancel(p, b) \/ CancelRequest(p, b) \/ SearchFailed(p, b)
  PROVE  TypeInv'
  <1>. DEFINE d == [booking[b] EXCEPT !.stage = "cancelled", !.type = "cancelled"]
              e == [booking[b] EXCEPT !.stage = "failed"]
  <1>0. booking[b] \in BookingType
    BY DEF TypeInv, PricesOK
  <1>1. /\ d \in BookingType /\ d.stage = "cancelled"
        /\ d.trip = booking[b].trip /\ d.pending = booking[b].pending
    BY <1>0 DEF BookingType
  <1>2. /\ e \in BookingType /\ e.stage = "failed"
        /\ e.trip = booking[b].trip /\ e.pending = booking[b].pending
    BY <1>0 DEF BookingType
  <1>3. booking[b].stage # "none" => booking[b].trip = Fare + booking[b].pending
    BY DEF TypeInv, PricesOK
  <1>4. NotesOK'
    BY CancelNotes DEF CustomerCancel, CancelRequest, SearchFailed
  <1>5. UNCHANGED <<pending, intent, payments, earnings>>
    BY DEF CustomerCancel, CancelRequest, SearchFailed
  <1>6. CASE CustomerCancel(p, b)
    <2>. DEFINE r == RefundJob(b, "customer")
    <2>1. booking[b].stage # "none" /\ booking' = [booking EXCEPT ![b] = d]
          /\ proc' = [proc EXCEPT ![p] = r]
      BY <1>6 DEF CustomerCancel
    <2>2. ProcOK(r) /\ r.pc \in {"refund", "markfirst"}
      BY <2>1, RefundJobOK DEF TypeInv
    <2>. HIDE DEF r, d
    <2>3. Next1(p, r) /\ r.pc # "recheck"
      BY <2>1, <2>2 DEF Next1, TripPCs
    <2>. QED  BY <1>1, <1>3, <1>4, <1>5, <2>1, <2>3, BookStep
  <1>7. CASE CancelRequest(p, b)
    <2>. DEFINE scope == IF Open(b) THEN "failed" ELSE "customer"
                r == [Idle EXCEPT !.pc = "recheck", !.b = b, !.scope = scope]
    <2>1. booking[b].stage # "none" /\ booking' = [booking EXCEPT ![b] = d]
          /\ proc' = [proc EXCEPT ![p] = r]
      BY <1>7 DEF CancelRequest
    <2>2. scope \in {"failed", "customer"}
      OBVIOUS
    <2>. HIDE DEF scope
    <2>3. ProcOK(r) /\ r.pc = "recheck" /\ r.b = b
      BY <2>2, IdleOK, NoneAssumption DEF ProcOK, ProcType, ProcPCs, Idle, BookPCs
    <2>. HIDE DEF r, d
    <2>4. Next1(p, r)
      BY <2>1, <2>3 DEF Next1, TripPCs
    <2>5. booking'[r.b].stage # "none"
      BY <1>1, <2>1, <2>3 DEF TypeInv, PricesOK
    <2>. QED  BY <1>1, <1>3, <1>4, <1>5, <2>1, <2>4, <2>5, BookStep
  <1>8. CASE SearchFailed(p, b)
    <2>. DEFINE r == RefundJob(b, "failed")
    <2>1. booking[b].stage # "none" /\ booking' = [booking EXCEPT ![b] = e]
          /\ proc' = [proc EXCEPT ![p] = r]
      BY <1>8 DEF SearchFailed, Open
    <2>2. ProcOK(r) /\ r.pc \in {"refund", "markfirst"}
      BY <2>1, RefundJobOK DEF TypeInv
    <2>. HIDE DEF r, e
    <2>3. Next1(p, r) /\ r.pc # "recheck"
      BY <2>1, <2>2 DEF Next1, TripPCs
    <2>. QED  BY <1>2, <1>3, <1>4, <1>5, <2>1, <2>3, BookStep
  <1>. QED  BY <1>6, <1>7, <1>8

LEMMA RideType ==
  ASSUME TypeInv, NEW b \in Bookings,
         Accept(b) \/ \E stop \in Debts : RideCompleted(b, stop)
  PROVE  TypeInv'
  <1>0. booking[b] \in BookingType
    BY DEF TypeInv, PricesOK
  <1>1. \E d \in BookingType :
          /\ booking' = [booking EXCEPT ![b] = d] /\ d.stage # "none"
          /\ d.trip = booking[b].trip /\ d.pending = booking[b].pending
    <2>1. CASE Accept(b)
      <3>. DEFINE d == [booking[b] EXCEPT !.stage = "accepted", !.driver = TRUE]
      <3>1. /\ d \in BookingType /\ d.stage # "none"
            /\ d.trip = booking[b].trip /\ d.pending = booking[b].pending
        BY <1>0 DEF BookingType
      <3>. QED  BY <2>1, <3>1 DEF Accept
    <2>2. ASSUME NEW stop \in Debts, RideCompleted(b, stop)
          PROVE \E d \in BookingType :
                  /\ booking' = [booking EXCEPT ![b] = d] /\ d.stage # "none"
                  /\ d.trip = booking[b].trip /\ d.pending = booking[b].pending
      <3>. DEFINE total == booking[b].trip + stop
                  d == [booking[b] EXCEPT !.stage = "completed", !.stop = stop,
                                          !.total = total]
      <3>1. booking[b].trip = Fare + booking[b].pending /\ booking[b].pending \in Debts
        BY <2>2, <1>0 DEF RideCompleted, TypeInv, PricesOK, BookingType
      <3>2. total \in Amounts
        BY <3>1, AmountsAssumption DEF Amounts, Charges, Debts
      <3>3. booking' = [booking EXCEPT ![b] = d]
        BY <2>2 DEF RideCompleted
      <3>. HIDE DEF total
      <3>4. /\ d \in BookingType /\ d.stage # "none"
            /\ d.trip = booking[b].trip /\ d.pending = booking[b].pending
        BY <1>0, <3>2 DEF BookingType, Amounts
      <3>. QED  BY <3>3, <3>4
    <2>. QED  BY <2>1, <2>2
  <1>2. UNCHANGED <<pending, intent, payments, earnings, proc, notes>>
    BY DEF Accept, RideCompleted
  <1>3. booking[b].stage # "none"
    BY DEF Accept, RideCompleted
  <1>4. PricesOK'
    BY <1>1, <1>3 DEF TypeInv, PricesOK
  <1>5. \A c \in Bookings : booking[c].stage # "none" => booking'[c].stage # "none"
    BY <1>1 DEF TypeInv, PricesOK
  <1>6. MoneyOK' /\ ProcsOK' /\ NotesOK'
    BY <1>2 DEF TypeInv, MoneyOK, ProcsOK, ProcOK, NotesOK, notes
  <1>7. RecheckOK'
    <2>1. \A q \in Procs : At(q, "recheck") => proc[q].b \in Bookings
      BY DEF TypeInv, ProcsOK, ProcOK, ProcType, At
    <2>. QED  BY <1>2, <1>5, <2>1 DEF TypeInv, RecheckOK, At
  <1>8. EarningsOK'
    BY <1>2, <1>6, SameEarn DEF TypeInv
  <1>. QED  BY <1>4, <1>6, <1>7, <1>8 DEF TypeInv

-----------------------------------------------------------------------------
(* What changes money.                                                      *)

LEMMA MoneyStep ==
  ASSUME TypeInv, NEW p \in Procs, NEW r, Next1(p, r), MoneyOK',
         UNCHANGED <<booking, earnings>>, NotesOK', r.pc # "recheck",
         \A b \in Bookings : intent'[b]["trip"].sent = intent[b]["trip"].sent
  PROVE  TypeInv'
  <1>. USE DEF TypeInv, Next1
  <1>1. PricesOK'
    BY DEF PricesOK
  <1>2. ProcsOK'
    BY SetProc
  <1>3. RecheckOK'
    BY KeepRecheck
  <1>4. EarningsOK'
    BY StepEarn
  <1>. QED  BY <1>1, <1>2, <1>3, <1>4

\* The server exits, and nobody is at work.
LEMMA ExitType ==
  ASSUME TypeInv, Exit,
         UNCHANGED <<booking, pending, intent, payments, earnings, cancels,
                     raced, late, whole, early>>
  PROVE  TypeInv'
  <1>. USE DEF TypeInv
  <1>1. PricesOK' /\ MoneyOK'
    BY DEF PricesOK, MoneyOK
  <1>2. \A p \in Procs : ~At(p, "idle") => proc[p].b \in Bookings
    BY Busy
  <1>3. NotesOK'
    BY <1>2 DEF NotesOK, Exit
  <1>4. ProcsOK'
    BY ExitOK
  <1>5. RecheckOK'
    BY DEF Exit, RecheckOK, At, Idle
  <1>6. EarningsOK'
    BY <1>1, ExitEarn
  <1>. QED  BY <1>1, <1>3, <1>4, <1>5, <1>6

\* One payment intent is changed.
LEMMA IntentStep ==
  ASSUME TypeInv, NEW b \in Bookings, NEW k \in Kinds, NEW i \in IntentType,
         intent' = [intent EXCEPT ![b][k] = i]
  PROVE  /\ intent' \in [Bookings -> [Kinds -> IntentType]]
         /\ \A c \in Bookings, l \in Kinds :
               intent'[c][l] = IF c = b /\ l = k THEN i ELSE intent[c][l]
  BY DEF TypeInv, MoneyOK

LEMMA CreateIntentType ==
  ASSUME TypeInv, NEW p \in Procs, CreateIntent(p)
  PROVE  TypeInv'
  <1>1. proc[p].b \in Bookings /\ ProcOK(proc[p]) /\ proc[p].pc = "intent"
    BY Busy DEF CreateIntent, At
  <1>. DEFINE b == proc[p].b
              amount == Fare + proc[p].amount
              type == proc[p].type
              i == [intent[b]["trip"] EXCEPT !.amount = amount, !.type = type]
  <1>2. type \in {"current", "schedule"} /\ amount \in Charges
    BY <1>1, AmountsAssumption DEF ProcOK, ProcType, BookPCs, Charges, Debts
  <1>3. intent' = [intent EXCEPT ![b]["trip"] = i]
    BY DEF CreateIntent
  <1>. HIDE DEF amount, type
  <1>4. intent[b]["trip"] \in IntentType
    BY <1>1 DEF TypeInv, MoneyOK, Kinds
  <1>5. i \in IntentType /\ i.sent = intent[b]["trip"].sent
    BY <1>2, <1>4 DEF IntentType
  <1>6. Next1(p, Idle) /\ Idle.pc = "idle"
    BY GiveUp DEF CreateIntent
  <1>. HIDE DEF i, b
  <1>7. b \in Bookings /\ "trip" \in Kinds
    BY <1>1 DEF b, Kinds
  <1>8. /\ intent' \in [Bookings -> [Kinds -> IntentType]]
        /\ \A c \in Bookings, l \in Kinds :
               intent'[c][l] = IF c = b /\ l = "trip" THEN i ELSE intent[c][l]
    BY <1>3, <1>5, <1>7, IntentStep
  <1>9. MoneyOK' /\ NotesOK'
    BY <1>8 DEF CreateIntent, TypeInv, MoneyOK, NotesOK, notes
  <1>10. \A c \in Bookings : intent'[c]["trip"].sent = intent[c]["trip"].sent
    BY <1>5, <1>7, <1>8
  <1>. QED  BY <1>6, <1>9, <1>10, MoneyStep DEF CreateIntent

\* Stripe charges, or is asked for the waiting charge.
LEMMA IntentAlone ==
  ASSUME TypeInv, NEW b \in Bookings, NEW k \in Kinds, NEW i \in IntentType,
         intent' = [intent EXCEPT ![b][k] = i], i.sent = intent[b][k].sent,
         UNCHANGED <<booking, pending, payments, earnings, proc, notes>>
  PROVE  TypeInv'
  <1>1. /\ intent' \in [Bookings -> [Kinds -> IntentType]]
        /\ \A c \in Bookings, l \in Kinds :
               intent'[c][l] = IF c = b /\ l = k THEN i ELSE intent[c][l]
    BY IntentStep
  <1>2. PricesOK' /\ MoneyOK' /\ ProcsOK' /\ RecheckOK' /\ NotesOK'
    BY <1>1 DEF TypeInv, PricesOK, MoneyOK, ProcsOK, ProcOK, RecheckOK, At, NotesOK, notes
  <1>3. \A c \in Bookings : intent'[c]["trip"].sent = intent[c]["trip"].sent
    BY <1>1 DEF Kinds
  <1>4. EarningsOK'
    BY <1>2, <1>3, SameEarn DEF TypeInv
  <1>. QED  BY <1>2, <1>4 DEF TypeInv

LEMMA ChargeType ==
  ASSUME TypeInv, NEW b \in Bookings, NEW k \in Kinds, Charge(b, k)
  PROVE  TypeInv'
  <1>. DEFINE i == [intent[b][k] EXCEPT !.charged = TRUE]
  <1>1. intent[b][k] \in IntentType
    BY DEF TypeInv, MoneyOK
  <1>2. i \in IntentType /\ i.sent = intent[b][k].sent
    BY <1>1 DEF IntentType
  <1>3. intent' = [intent EXCEPT ![b][k] = i]
    BY DEF Charge
  <1>. HIDE DEF i
  <1>. QED  BY <1>2, <1>3, IntentAlone DEF Charge

LEMMA PayStopType ==
  ASSUME TypeInv, NEW b \in Bookings, PayStop(b)
  PROVE  TypeInv'
  <1>. DEFINE k == "stop"
              amount == booking[b].stop
              i == [intent[b][k] EXCEPT !.amount = amount]
  <1>1. intent[b][k] \in IntentType /\ k \in Kinds
    BY DEF TypeInv, MoneyOK, Kinds
  <1>2. amount \in Charges
    BY AmountsAreInts DEF TypeInv, PricesOK, BookingType
  <1>3. intent' = [intent EXCEPT ![b][k] = i]
    BY DEF PayStop
  <1>. HIDE DEF amount
  <1>4. i \in IntentType /\ i.sent = intent[b][k].sent
    BY <1>1, <1>2 DEF IntentType
  <1>. HIDE DEF i, k
  <1>5. UNCHANGED <<booking, pending, payments, earnings, proc, notes>>
    BY DEF PayStop
  <1>. QED  BY <1>1, <1>3, <1>4, <1>5, IntentAlone

LEMMA RefundPartType ==
  ASSUME TypeInv, NEW p \in Procs, RefundPart(p) \/ RefundAll(p)
  PROVE  TypeInv'
  <1>1. /\ proc[p].b \in Bookings /\ ProcOK(proc[p])
        /\ proc[p].pc \in {"refund", "refundall"}
    BY Busy DEF RefundPart, RefundAll, At
  <1>. DEFINE b == proc[p].b
              old == intent[b]["trip"]
              left == old.amount - old.refunded
              amount == IF RefundPart(p) THEN proc[p].amount ELSE left
              go == IF RefundPart(p) THEN Goto(p, "mark") ELSE End(p)
              sum == old.refunded + amount
              i == [old EXCEPT !.refunded = sum]
  <1>2. /\ UNCHANGED <<booking, pending, payments, earnings, cancels, raced, late, whole, early>>
        /\ \/ /\ Refundable(b, amount) /\ intent' = [intent EXCEPT ![b]["trip"] = i]
              /\ go /\ UNCHANGED cut
           \/ Exit /\ UNCHANGED intent
    BY DEF RefundPart, RefundAll, Refund
  <1>3. CASE Exit /\ UNCHANGED intent
    BY <1>2, <1>3, ExitType
  <1>4. CASE Refundable(b, amount) /\ intent' = [intent EXCEPT ![b]["trip"] = i]
             /\ go /\ UNCHANGED cut
    <2>1. old \in IntentType /\ "trip" \in Kinds
      BY <1>1 DEF TypeInv, MoneyOK, Kinds
    <2>2. amount \in Int /\ old.refunded \in Nat /\ old.amount \in Charges
      <3>1. proc[p].amount \in Nat
        BY <1>1, AmountsAreInts DEF ProcOK, ProcType, Amounts
      <3>. QED  BY <2>1, <3>1, AmountsAreInts DEF IntentType, Charges
    <2>3. sum \in Charges
      BY <1>4, <2>2, AmountsAssumption DEF Refundable, Charges
    <2>4. intent' = [intent EXCEPT ![b]["trip"] = i]
      BY <1>4
    <2>. HIDE DEF sum
    <2>5. i \in IntentType /\ i.sent = old.sent
      BY <2>1, <2>3 DEF IntentType
    <2>. HIDE DEF i
    <2>6. b \in Bookings
      BY <1>1
    <2>7. /\ intent' \in [Bookings -> [Kinds -> IntentType]]
          /\ \A c \in Bookings, l \in Kinds :
               intent'[c][l] = IF c = b /\ l = "trip" THEN i ELSE intent[c][l]
      BY <2>1, <2>4, <2>5, <2>6, IntentStep
    <2>8. \A c \in Bookings : intent'[c]["trip"].sent = intent[c]["trip"].sent
      BY <2>1, <2>5, <2>7
    <2>9. MoneyOK' /\ NotesOK'
      BY <1>2, <1>4, <2>7 DEF TypeInv, MoneyOK, NotesOK
    <2>10. \E r : Next1(p, r) /\ r.pc # "recheck"
      <3>1. CASE Goto(p, "mark")
        BY <1>1, <3>1, GoOn DEF TypeInv, ProcPCs, BookPCs, TripPCs, At
      <3>2. CASE End(p)
        BY <3>2, GiveUp
      <3>. QED  BY <1>4, <3>1, <3>2
    <2>. QED  BY <1>2, <2>8, <2>9, <2>10, MoneyStep
  <1>. QED  BY <1>2, <1>3, <1>4

\* updateOne keeps the rows rows.
LEMMA RewriteType ==
  ASSUME NEW rows \in Seq(RowType), NEW amount \in Amounts, NEW refund \in BOOLEAN
  PROVE  /\ Rewrite(rows, amount, refund) \in Seq(RowType)
         /\ Len(Rewrite(rows, amount, refund)) = Len(rows)
         /\ rows # <<>> =>
               /\ rows[1] \in RowType
               /\ Rewrite(rows, amount, refund)[1].amount = amount
               /\ Rewrite(rows, amount, refund)[1].refund <=> refund \/ rows[1].refund
  <1>1. CASE rows = <<>>
    BY <1>1 DEF Rewrite
  <1>2. CASE rows # <<>>
    <2>. DEFINE row == [amount |-> amount, refund |-> refund \/ rows[1].refund]
    <2>1. 1 \in 1 .. Len(rows) /\ rows[1] \in RowType
      BY <1>2
    <2>2. row \in RowType
      <3>1. (refund \/ rows[1].refund) \in BOOLEAN
        OBVIOUS
      <3>. QED  BY <3>1, <2>1 DEF RowType, Amounts
    <2>3. Rewrite(rows, amount, refund) = [rows EXCEPT ![1] = row]
      BY <1>2 DEF Rewrite
    <2>. HIDE DEF row
    <2>4. /\ [rows EXCEPT ![1] = row] \in Seq(RowType)
          /\ Len([rows EXCEPT ![1] = row]) = Len(rows)
          /\ [rows EXCEPT ![1] = row][1] = row
      BY <2>1, <2>2
    <2>5. row.amount = amount /\ (row.refund <=> refund \/ rows[1].refund)
      <3>. DEFINE x == refund \/ rows[1].refund
      <3>1. x \in BOOLEAN
        BY <2>1
      <3>2. row = [amount |-> amount, refund |-> x]
        BY DEF row
      <3>. HIDE DEF x
      <3>3. row.amount = amount /\ row.refund = x
        BY <3>2
      <3>. QED  BY <3>3 DEF x
    <2>. QED  BY <2>1, <2>3, <2>4, <2>5
  <1>. QED  BY <1>1, <1>2

\* What a process writes to the rows of its booking.
Rows(p, rows) ==
    IF At(p, "row") THEN Append(rows, [amount |-> proc[p].amount, refund |-> FALSE])
    ELSE IF At(p, "settle") THEN Rewrite(rows, proc[p].amount, FALSE)
    ELSE IF At(p, "adjust") THEN Rewrite(rows, Fee, TRUE)
    ELSE IF rows = <<>> THEN rows ELSE Rewrite(rows, rows[1].amount, TRUE)

LEMMA RowsType ==
  ASSUME TypeInv, NEW p \in Procs, ~At(p, "idle")
  PROVE  Rows(p, payments[proc[p].b]) \in Seq(RowType)
  <1>. DEFINE rows == payments[proc[p].b]
              amount == proc[p].amount
  <1>1. rows \in Seq(RowType) /\ amount \in Amounts /\ Fee \in Amounts
        /\ TRUE \in BOOLEAN /\ FALSE \in BOOLEAN
    BY Busy, AmountsAssumption DEF TypeInv, MoneyOK, ProcOK, ProcType, Amounts, Charges
  <1>. HIDE DEF rows, amount
  <1>2. Append(rows, [amount |-> amount, refund |-> FALSE]) \in Seq(RowType)
    BY <1>1 DEF RowType, Amounts
  <1>3. Rewrite(rows, amount, FALSE) \in Seq(RowType) /\ Rewrite(rows, Fee, TRUE) \in Seq(RowType)
    BY <1>1, RewriteType
  <1>4. rows # <<>> => Rewrite(rows, rows[1].amount, TRUE) \in Seq(RowType)
    <2>1. rows # <<>> => rows[1].amount \in Amounts
      <3>1. rows # <<>> => rows[1] \in RowType
        BY <1>1
      <3>. QED  BY <3>1 DEF RowType, Amounts
    <2>. QED  BY <1>1, <2>1, RewriteType
  <1>5. Rows(p, rows) \in Seq(RowType)
    BY <1>1, <1>2, <1>3, <1>4 DEF Rows, amount
  <1>. QED  BY <1>5 DEF rows

RowStep(p) ==
    /\ payments' = [payments EXCEPT ![proc[p].b] = Rows(p, @)]
    /\ raced' \in {raced, raced \cup {proc[p].b}}

LEMMA RowSteps ==
  ASSUME NEW p \in Procs, HookRow(p) \/ HookSettle(p) \/ RefundAdjust(p) \/ RefundFlag(p)
  PROVE  RowStep(p)
  BY DEF RowStep, Rows, HookRow, HookSettle, RefundAdjust, RefundFlag, Unwritten, At, notes

LEMMA RowsTypeOK ==
  ASSUME TypeInv, NEW p \in Procs,
         HookRow(p) \/ HookSettle(p) \/ RefundAdjust(p) \/ RefundFlag(p)
  PROVE  TypeInv'
  <1>1. /\ proc[p].b \in Bookings /\ ProcOK(proc[p])
        /\ proc[p].pc \in {"row", "settle", "adjust", "flag"}
    BY Busy DEF HookRow, HookSettle, RefundAdjust, RefundFlag, At
  <1>2. RowStep(p)
    BY RowSteps
  <1>. DEFINE rows == Rows(p, payments[proc[p].b])
  <1>3. rows \in Seq(RowType)
    BY <1>1, RowsType DEF At
  <1>4. payments' = [payments EXCEPT ![proc[p].b] = rows]
    BY <1>2 DEF RowStep
  <1>5. UNCHANGED <<booking, pending, intent, earnings, cancels, cut, late, whole, early>>
    BY DEF HookRow, HookSettle, RefundAdjust, RefundFlag, notes
  <1>. HIDE DEF rows
  <1>6. MoneyOK' /\ NotesOK'
    BY <1>1, <1>2, <1>3, <1>4, <1>5 DEF TypeInv, MoneyOK, NotesOK, RowStep
  <1>7. \E r : Next1(p, r) /\ r.pc # "recheck"
    <2>1. CASE HookRow(p)
      <3>1. Goto(p, "earning") /\ At(p, "row")
        BY <2>1 DEF HookRow
      <3>. QED  BY <3>1, GoOn DEF TypeInv, ProcPCs, BookPCs, TripPCs, At
    <2>2. CASE End(p)
      BY <2>2, GiveUp
    <2>. QED  BY <2>1, <2>2 DEF HookSettle, RefundAdjust, RefundFlag
  <1>. QED  BY <1>5, <1>6, <1>7, MoneyStep

LEMMA HookResetType ==
  ASSUME TypeInv, NEW p \in Procs, HookReset(p) \/ OweStop(p)
  PROVE  TypeInv'
  <1>1. /\ proc[p].b \in Bookings /\ ProcOK(proc[p]) /\ proc[p].pc \in {"reset", "owe"}
    BY Busy DEF HookReset, OweStop, At
  <1>2. pending' \in Debts
    BY <1>1 DEF HookReset, OweStop, ProcOK, Debts, At
  <1>3. UNCHANGED <<booking, intent, payments, earnings, cancels, cut, raced, late, whole>>
        /\ early' \subseteq Bookings
    BY DEF HookReset, OweStop
  <1>4. MoneyOK' /\ NotesOK'
    BY <1>2, <1>3 DEF TypeInv, MoneyOK, NotesOK
  <1>5. \E r : Next1(p, r) /\ r.pc # "recheck"
    <2>1. CASE HookReset(p)
      <3>1. Goto(p, "row") /\ At(p, "reset")
        BY <2>1 DEF HookReset
      <3>. QED  BY <3>1, GoOn DEF TypeInv, ProcPCs, BookPCs, TripPCs, At
    <2>2. CASE OweStop(p)
      BY <2>2, GiveUp DEF OweStop
    <2>. QED  BY <2>1, <2>2
  <1>. QED  BY <1>3, <1>4, <1>5, MoneyStep

\* Stripe delivers an event: one more of the trip's, and one more at work on it.
LEMMA DeliverType ==
  ASSUME TypeInv, NEW p \in Procs, NEW b \in Bookings, NEW k \in Kinds, Deliver(p, b, k)
  PROVE  TypeInv'
  <1>. DEFINE sent == intent[b][k].sent + 1
              i == [intent[b][k] EXCEPT !.sent = sent]
              pc == IF k = "trip" THEN "paid" ELSE "confirm"
              type == intent[b][k].type
              total == booking[b].total
              r == [Idle EXCEPT !.pc = pc, !.b = b, !.kind = k, !.type = type,
                                !.amount = total]
  <1>0. intent[b][k] \in IntentType /\ booking[b] \in BookingType
    BY DEF TypeInv, MoneyOK, PricesOK
  <1>1. sent \in 0 .. MaxDeliveries /\ intent[b][k].sent \in Nat
    BY <1>0, BoundsAssumption DEF Deliver, IntentType
  <1>2. type \in {"current", "schedule"} /\ total \in Amounts
    BY <1>0 DEF IntentType, BookingType, Amounts
  <1>3. intent' = [intent EXCEPT ![b][k] = i]
    BY DEF Deliver
  <1>4. proc' = [proc EXCEPT ![p] = r] /\ At(p, "idle")
    BY DEF Deliver
  <1>5. UNCHANGED <<booking, pending, payments, earnings, notes>>
    BY DEF Deliver
  <1>. HIDE DEF type, total, sent
  <1>6. i \in IntentType /\ i.sent = sent
    BY <1>0, <1>1 DEF IntentType
  <1>7. pc \in {"paid", "confirm"} /\ (pc = "paid" <=> k = "trip")
    OBVIOUS
  <1>. HIDE DEF i, pc
  <1>8. ProcOK(r) /\ r.pc = pc /\ r.b = b
    BY <1>2, <1>7, IdleOK, NoneAssumption
       DEF ProcOK, ProcType, ProcPCs, Idle, BookPCs, Amounts
  <1>. HIDE DEF r
  <1>9. /\ intent' \in [Bookings -> [Kinds -> IntentType]]
        /\ \A c \in Bookings, l \in Kinds :
              intent'[c][l] = IF c = b /\ l = k THEN i ELSE intent[c][l]
    BY <1>3, <1>6, IntentStep
  <1>10. PricesOK' /\ MoneyOK' /\ NotesOK'
    BY <1>5, <1>9 DEF TypeInv, PricesOK, MoneyOK, NotesOK, notes
  <1>11. ProcsOK'
    BY <1>4, <1>8, SetProc DEF TypeInv
  <1>12. RecheckOK'
    BY <1>4, <1>5, <1>7, <1>8, KeepRecheck DEF TypeInv
  <1>13. EarningsOK'
    <2>1. CASE k = "stop"
      <3>1. \A c \in Bookings : intent'[c]["trip"].sent = intent[c]["trip"].sent
        BY <1>9, <2>1 DEF Kinds
      <3>2. r.pc \notin TripPCs
        BY <1>7, <1>8, <2>1 DEF TripPCs
      <3>. QED  BY <1>4, <1>5, <1>10, <3>1, <3>2, StepEarn DEF TypeInv
    <2>2. CASE k = "trip"
      <3>1. SUFFICES ASSUME NEW c \in Bookings PROVE EarnOK(c)'
        BY <1>5 DEF TypeInv, EarningsOK
      <3>2. \A q \in Procs : proc'[q] = IF q = p THEN r ELSE proc[q]
        BY <1>4 DEF TypeInv, ProcsOK
      <3>3. EarnOK(c) /\ earnings[c] \in Nat
        BY DEF TypeInv, EarningsOK
      <3>. DEFINE S == Doing(c, TripPCs)
                  T == Doing(c, TripPCs)'
      <3>4. CASE c = b
        <4>1. p \notin S /\ T = S \cup {p}
          BY <1>4, <1>7, <1>8, <2>2, <3>2, <3>4 DEF Doing, TripPCs, At
        <4>2. intent'[c]["trip"].sent = intent[c]["trip"].sent + 1
          BY <1>6, <1>9, <2>2, <3>4 DEF sent
        <4>3. IsFiniteSet(S) /\ earnings[c] + Cardinality(S) <= intent[c]["trip"].sent
          BY <3>3 DEF EarnOK
        <4>. HIDE DEF S, T
        <4>4. IsFiniteSet(T) /\ Cardinality(T) = Cardinality(S) + 1 /\ Cardinality(S) \in Nat
          BY <4>1, <4>3, FS_AddElement, FS_CardinalityType
        <4>5. earnings[c] + Cardinality(T) <= intent'[c]["trip"].sent
          BY <1>1, <2>2, <3>3, <3>4, <4>2, <4>3, <4>4
        <4>. QED  BY <1>5, <4>4, <4>5 DEF EarnOK, T
      <3>5. CASE c # b
        <4>1. T = S
          BY <1>4, <1>8, <3>2, <3>5 DEF Doing, TripPCs, At
        <4>2. intent'[c]["trip"].sent = intent[c]["trip"].sent
          BY <1>9, <2>2, <3>5
        <4>. QED  BY <1>5, <3>3, <4>1, <4>2 DEF EarnOK
      <3>. QED  BY <3>4, <3>5
    <2>. QED  BY <2>1, <2>2 DEF Kinds
  <1>. QED  BY <1>10, <1>11, <1>12, <1>13 DEF TypeInv

\* A row of driverEarnings is written, and one fewer is on its way.
LEMMA HookEarningType ==
  ASSUME TypeInv, NEW p \in Procs, HookEarning(p)
  PROVE  TypeInv'
  <1>. DEFINE b == proc[p].b
  <1>1. b \in Bookings /\ proc[p].pc = "earning"
    BY Busy DEF HookEarning, At
  <1>. HIDE DEF b
  <1>2. proc' = [proc EXCEPT ![p] = Idle] /\ earnings' = [earnings EXCEPT ![b] = @ + 1]
    BY DEF HookEarning, End, b
  <1>3. UNCHANGED <<booking, pending, intent, payments, notes>>
    BY DEF HookEarning
  <1>4. PricesOK' /\ MoneyOK' /\ NotesOK'
    BY <1>3 DEF TypeInv, PricesOK, MoneyOK, NotesOK, notes
  <1>5. ProcsOK'
    BY <1>2, IdleOK, SetProc DEF TypeInv
  <1>6. RecheckOK'
    <2>1. Idle.pc # "recheck"
      BY DEF Idle
    <2>. QED  BY <1>2, <1>3, <2>1, KeepRecheck DEF TypeInv
  <1>7. \A q \in Procs : proc'[q] = IF q = p THEN Idle ELSE proc[q]
    BY <1>2 DEF TypeInv, ProcsOK
  <1>8. ASSUME NEW c \in Bookings PROVE EarnOK(c)'
    <2>1. EarnOK(c) /\ earnings[c] \in Nat /\ intent[c]["trip"].sent \in Nat
      BY DEF TypeInv, EarningsOK, MoneyOK, IntentType, Kinds
    <2>. DEFINE S == Doing(c, TripPCs)
                T == Doing(c, TripPCs)'
    <2>2. CASE c = b
      <3>1. p \in S /\ T = S \ {p}
        BY <1>1, <1>7, <2>2 DEF Doing, TripPCs, Idle, b
      <3>2. earnings'[c] = earnings[c] + 1
        BY <1>2, <2>2 DEF TypeInv, EarningsOK
      <3>3. IsFiniteSet(S) /\ earnings[c] + Cardinality(S) <= intent[c]["trip"].sent
        BY <2>1 DEF EarnOK
      <3>. HIDE DEF S, T
      <3>4. IsFiniteSet(T) /\ Cardinality(T) = Cardinality(S) - 1 /\ Cardinality(S) \in Nat
        BY <3>1, <3>3, FS_RemoveElement, FS_CardinalityType
      <3>5. earnings'[c] + Cardinality(T) <= intent[c]["trip"].sent
        BY <2>1, <3>2, <3>3, <3>4
      <3>. QED  BY <1>3, <3>4, <3>5 DEF EarnOK, T
    <2>3. CASE c # b
      <3>1. T = S
        BY <1>7, <2>3 DEF Doing, TripPCs, Idle, b
      <3>2. earnings'[c] = earnings[c]
        BY <1>2, <2>3 DEF TypeInv, EarningsOK
      <3>. QED  BY <1>3, <2>1, <3>1, <3>2 DEF EarnOK
    <2>. QED  BY <2>2, <2>3
  <1>9. EarningsOK'
    <2>1. earnings' \in [Bookings -> Nat]
      BY <1>1, <1>2 DEF TypeInv, EarningsOK
    <2>. QED  BY <1>8, <2>1 DEF EarningsOK
  <1>. QED  BY <1>4, <1>5, <1>6, <1>9 DEF TypeInv

-----------------------------------------------------------------------------
LEMMA StepType == TypeInv /\ [Next]_vars => TypeInv'
  <1>. SUFFICES ASSUME TypeInv, [Next]_vars PROVE TypeInv'
    OBVIOUS
  <1>1. ASSUME NEW p \in Procs, Run(p) PROVE TypeInv'
    BY <1>1, ScheduleCheckType, InsertType, CreateIntentType, HookPaidType, HookResetType,
       RowsTypeOK, HookEarningType, HookConfirmType, CancelRecheckType, RefundPartType,
       RefundMarkType DEF Run
  <1>2. ASSUME NEW p \in Procs, NEW b \in Bookings,
               \/ Create(p, b) \/ Schedule(p, b) \/ DeferStop(p, b)
               \/ CustomerCancel(p, b) \/ CancelRequest(p, b) \/ SearchFailed(p, b)
               \/ \E k \in Kinds : Deliver(p, b, k)
        PROVE TypeInv'
    BY <1>2, CreateType, DeferStopType, CancelType, DeliverType
  <1>3. ASSUME NEW b \in Bookings,
               \/ Accept(b) \/ PayStop(b)
               \/ \E stop \in Debts : RideCompleted(b, stop)
               \/ \E k \in Kinds : Charge(b, k)
        PROVE TypeInv'
    BY <1>3, RideType, PayStopType, ChargeType
  <1>4. CASE UNCHANGED vars
    BY <1>4 DEF vars, notes, TypeInv, PricesOK, MoneyOK, ProcsOK, ProcOK, RecheckOK, At,
                EarningsOK, EarnOK, Doing, NotesOK
  <1>. QED  BY <1>1, <1>2, <1>3, <1>4 DEF Next

LEMMA AlwaysTypeInv == Spec => []TypeInv
  BY InitType, StepType, PTL DEF Spec

\* Every row of driverEarnings was an event of Stripe, so there are no more of
\* them than events.
LEMMA TypeIsOK == TypeInv => PaymentTypeOK
  <1>. SUFFICES ASSUME TypeInv PROVE PaymentTypeOK
    OBVIOUS
  <1>1. ASSUME NEW b \in Bookings PROVE earnings[b] \in 0 .. MaxDeliveries
    <2>. DEFINE S == Doing(b, TripPCs)
    <2>1. IsFiniteSet(S) /\ earnings[b] + Cardinality(S) <= intent[b]["trip"].sent
          /\ earnings[b] \in Nat /\ intent[b]["trip"].sent \in 0 .. MaxDeliveries
      BY DEF TypeInv, EarningsOK, EarnOK, MoneyOK, IntentType, Kinds
    <2>. HIDE DEF S
    <2>2. Cardinality(S) \in Nat
      BY <2>1, FS_CardinalityType
    <2>. QED  BY <2>1, <2>2, BoundsAssumption
  <1>2. earnings \in [Bookings -> 0 .. MaxDeliveries]
    BY <1>1 DEF TypeInv, EarningsOK
  <1>3. \A b \in Bookings : \A i \in DOMAIN payments[b] : payments[b][i] \in RowType
    BY DEF TypeInv, MoneyOK
  <1>4. proc \in [Procs -> ProcType]
    BY DEF TypeInv, ProcsOK, ProcOK
  <1>. QED  BY <1>2, <1>3, <1>4 DEF PaymentTypeOK, TypeInv, PricesOK, MoneyOK, NotesOK

\* Every variable has the shape the schemas give it: no charge or refund is more
\* than the fare and the waiting charges of two rides, and driverEarnings has no
\* more rows of a booking than Stripe has sent events.
THEOREM PaymentTyped == Spec => []PaymentTypeOK
  BY AlwaysTypeInv, TypeIsOK, PTL

-----------------------------------------------------------------------------
(* What a step leaves alone: every booking but its own, as the booking, its *)
(* intents, its rows and those at work on it are concerned.                 *)

In(p, b, pcs) == proc[p].b = b /\ proc[p].pc \in pcs
Free(b, pcs) == \A p \in Procs : ~In(p, b, pcs)
One(b, pcs) == \A p, q \in Procs : In(p, b, pcs) /\ In(q, b, pcs) => p = q

Same(b) ==
    /\ booking'[b] = booking[b] /\ intent'[b] = intent[b] /\ payments'[b] = payments[b]
    /\ earnings'[b] = earnings[b] /\ cancels'[b] = cancels[b]
    /\ \A q \in Procs : proc[q].b = b \/ proc'[q].b = b => proc'[q] = proc[q]

LEMMA SameProcs ==
  ASSUME ProcsOK, NEW p \in Procs, NEW r, proc' = [proc EXCEPT ![p] = r],
         NEW b, proc[p].b # b, r.b # b
  PROVE  \A q \in Procs : proc[q].b = b \/ proc'[q].b = b => proc'[q] = proc[q]
  <1>1. \A q \in Procs : proc'[q] = IF q = p THEN r ELSE proc[q]
    BY DEF ProcsOK
  <1>. QED  BY <1>1

LEMMA GotoSame ==
  ASSUME ProcsOK, NEW p \in Procs, NEW pc, Goto(p, pc), NEW b, proc[p].b # b
  PROVE  \A q \in Procs : proc[q].b = b \/ proc'[q].b = b => proc'[q] = proc[q]
  <1>. DEFINE r == [proc[p] EXCEPT !.pc = pc]
  <1>1. r.b = proc[p].b
    BY DEF ProcsOK, ProcOK, ProcType
  <1>2. proc' = [proc EXCEPT ![p] = r]
    BY DEF Goto
  <1>. HIDE DEF r
  <1>. QED  BY <1>1, <1>2, SameProcs

LEMMA EndSame ==
  ASSUME ProcsOK, NEW p \in Procs, End(p), NEW b \in Bookings, proc[p].b # b
  PROVE  \A q \in Procs : proc[q].b = b \/ proc'[q].b = b => proc'[q] = proc[q]
  <1>1. Idle.b # b
    BY NoneAssumption DEF Idle
  <1>. QED  BY <1>1, SameProcs DEF End

\* When the server exits, nothing happens to a booking nobody is at work on.
LEMMA ExitSame ==
  ASSUME TypeInv, Exit, NEW b \in Bookings, b \notin cut'
  PROVE  /\ \A q \in Procs : proc[q].b # b
         /\ \A q \in Procs : proc[q].b = b \/ proc'[q].b = b => proc'[q] = proc[q]
  <1>1. \A q \in Procs : ~At(q, "idle") => proc[q].b \in cut'
    BY DEF Exit
  <1>2. \A q \in Procs : proc[q].b # b
    BY <1>1, NoneAssumption DEF TypeInv, ProcsOK, ProcOK, At
  <1>3. \A q \in Procs : proc'[q].b # b
    BY NoneAssumption DEF Exit, Idle
  <1>. QED  BY <1>2, <1>3

\* The server exits and leaves all of a booking but those at work on it.
Crash == Exit /\ UNCHANGED <<booking, intent, payments, earnings, cancels>>

LEMMA RunElsewhere ==
  ASSUME TypeInv, NEW p \in Procs, Run(p), NEW b \in Bookings, b # proc[p].b
  PROVE  Crash \/ Same(b)
  <1>. SUFFICES ASSUME ~Crash PROVE Same(b)
    OBVIOUS
  <1>. USE DEF TypeInv, PricesOK, MoneyOK, EarningsOK, NotesOK
  <1>1. \/ \E pc : Goto(p, pc)
        \/ End(p)
        \/ CancelRecheck(p)
    BY DEF Run, ScheduleCheck, InsertBooking, CreateIntent, HookPaid, HookReset, HookRow,
           HookEarning, HookConfirm, HookSettle, RefundPart, RefundMark, RefundAdjust,
           RefundFlag, RefundMarkFirst, RefundAll, OweStop, Refund, Crash
  <1>2. \A q \in Procs : proc[q].b = b \/ proc'[q].b = b => proc'[q] = proc[q]
    <2>1. CASE CancelRecheck(p)
      <3>. DEFINE r == RefundJob(proc[p].b, proc[p].scope)
      <3>1. proc[p].b \in Bookings /\ booking[proc[p].b].stage # "none"
            /\ proc[p].scope \in {"customer", "failed"}
        BY <2>1 DEF ProcsOK, RecheckOK, CancelRecheck, At, ProcOK, ProcType
      <3>2. r.b = proc[p].b
        BY <3>1, RefundJobOK
      <3>. HIDE DEF r
      <3>3. proc' = [proc EXCEPT ![p] = r]
        BY <2>1 DEF CancelRecheck, r
      <3>. QED  BY <3>2, <3>3, SameProcs
    <2>. QED  BY <1>1, <2>1, GotoSame, EndSame
  <1>3. booking'[b] = booking[b]
    BY DEF Run, ScheduleCheck, InsertBooking, CreateIntent, HookPaid, HookReset, HookRow,
           HookEarning, HookConfirm, HookSettle, CancelRecheck, RefundPart, RefundMark,
           RefundAdjust, RefundFlag, RefundMarkFirst, RefundAll, OweStop
  <1>4. intent'[b] = intent[b]
    BY DEF Run, ScheduleCheck, InsertBooking, CreateIntent, HookPaid, HookReset, HookRow,
           HookEarning, HookConfirm, HookSettle, CancelRecheck, RefundPart, RefundMark,
           RefundAdjust, RefundFlag, RefundMarkFirst, RefundAll, OweStop, Refund
  <1>5. payments'[b] = payments[b] /\ earnings'[b] = earnings[b]
    BY DEF Run, ScheduleCheck, InsertBooking, CreateIntent, HookPaid, HookReset, HookRow,
           HookEarning, HookConfirm, HookSettle, CancelRecheck, RefundPart, RefundMark,
           RefundAdjust, RefundFlag, RefundMarkFirst, RefundAll, OweStop
  <1>6. cancels' = cancels
    BY DEF Run, ScheduleCheck, InsertBooking, CreateIntent, HookPaid, HookReset, HookRow,
           HookEarning, HookConfirm, HookSettle, CancelRecheck, RefundPart, RefundMark,
           RefundAdjust, RefundFlag, RefundMarkFirst, RefundAll, OweStop, notes
  <1>. QED  BY <1>2, <1>3, <1>4, <1>5, <1>6 DEF Same

\* A customer, Stripe, an admin or the search begins something.
Begin(p, b) ==
    \/ Create(p, b) \/ Schedule(p, b) \/ DeferStop(p, b)
    \/ CustomerCancel(p, b) \/ CancelRequest(p, b) \/ SearchFailed(p, b)
    \/ \E k \in Kinds : Deliver(p, b, k)

LEMMA BeginElsewhere ==
  ASSUME TypeInv, NEW p \in Procs, NEW c \in Bookings, Begin(p, c),
         NEW b \in Bookings, b # c
  PROVE  Same(b)
  <1>. USE DEF TypeInv, PricesOK, MoneyOK, EarningsOK, NotesOK
  <1>1. proc[p].b # b
    BY NoneAssumption DEF Begin, Create, Schedule, DeferStop, CustomerCancel, CancelRequest,
          SearchFailed, Deliver, At, ProcsOK, ProcOK
  <1>2. \E r : proc' = [proc EXCEPT ![p] = r] /\ r.b = c
    <2>1. CASE CustomerCancel(p, c) \/ SearchFailed(p, c)
      <3>1. booking[c].stage # "none"
        BY <2>1 DEF CustomerCancel, SearchFailed, Open
      <3>. QED  BY <2>1, <3>1, RefundJobOK DEF CustomerCancel, SearchFailed
    <2>2. CASE Create(p, c)
      <3>. DEFINE r == [Idle EXCEPT !.pc = "insert", !.b = c, !.amount = pending]
      <3>1. r.b = c
        BY DEF Idle
      <3>2. proc' = [proc EXCEPT ![p] = r]
        BY <2>2 DEF Create
      <3>. QED  BY <3>1, <3>2
    <2>3. CASE Schedule(p, c)
      <3>. DEFINE r == [Idle EXCEPT !.pc = "check", !.b = c, !.type = "schedule",
                                    !.amount = pending]
      <3>1. r.b = c
        BY DEF Idle
      <3>2. proc' = [proc EXCEPT ![p] = r]
        BY <2>3 DEF Schedule
      <3>. QED  BY <3>1, <3>2
    <2>4. CASE DeferStop(p, c)
      <3>. DEFINE r == [Idle EXCEPT !.pc = "owe", !.b = c, !.amount = booking[c].stop]
      <3>1. r.b = c
        BY DEF Idle
      <3>2. proc' = [proc EXCEPT ![p] = r]
        BY <2>4 DEF DeferStop
      <3>. QED  BY <3>1, <3>2
    <2>5. CASE CancelRequest(p, c)
      <3>. DEFINE r == [Idle EXCEPT !.pc = "recheck", !.b = c,
                          !.scope = IF Open(c) THEN "failed" ELSE "customer"]
      <3>1. r.b = c
        BY DEF Idle
      <3>2. proc' = [proc EXCEPT ![p] = r]
        BY <2>5 DEF CancelRequest
      <3>. QED  BY <3>1, <3>2
    <2>6. ASSUME NEW k \in Kinds, Deliver(p, c, k)
          PROVE \E r : proc' = [proc EXCEPT ![p] = r] /\ r.b = c
      <3>. DEFINE r == [Idle EXCEPT !.pc = IF k = "trip" THEN "paid" ELSE "confirm", !.b = c,
                          !.kind = k, !.type = intent[c][k].type,
                          !.amount = booking[c].total]
      <3>1. r.b = c
        BY DEF Idle
      <3>2. proc' = [proc EXCEPT ![p] = r]
        BY <2>6 DEF Deliver
      <3>. QED  BY <3>1, <3>2
    <2>. QED  BY <2>1, <2>2, <2>3, <2>4, <2>5, <2>6 DEF Begin
  <1>3. \A q \in Procs : proc[q].b = b \/ proc'[q].b = b => proc'[q] = proc[q]
    BY <1>1, <1>2, SameProcs
  <1>4. /\ booking'[b] = booking[b] /\ intent'[b] = intent[b]
        /\ payments'[b] = payments[b] /\ earnings'[b] = earnings[b]
    BY DEF Begin, Create, Schedule, DeferStop, CustomerCancel, CancelRequest,
           SearchFailed, Deliver
  <1>5. cancels'[b] = cancels[b]
    BY DEF Begin, Create, Schedule, DeferStop, CustomerCancel, CancelRequest,
           SearchFailed, Deliver, Cancel, notes
  <1>. QED  BY <1>3, <1>4, <1>5 DEF Same

\* A driver accepts or completes; the customer pays.
Alone(b) ==
    \/ Accept(b) \/ PayStop(b)
    \/ \E stop \in Debts : RideCompleted(b, stop)
    \/ \E k \in Kinds : Charge(b, k)

LEMMA AloneElsewhere ==
  ASSUME TypeInv, NEW c \in Bookings, Alone(c), NEW b \in Bookings, b # c
  PROVE  Same(b)
  BY DEF TypeInv, PricesOK, MoneyOK, Alone, Accept, PayStop, RideCompleted, Charge, Same,
         notes

-----------------------------------------------------------------------------
(* How a booking comes about: one process checks, inserts it and draws up   *)
(* its intent, and until it is inserted nothing else knows of it.           *)

IntentOK(i) ==
    /\ i.amount = 0 => ~i.charged
    /\ ~i.charged => i.sent = 0 /\ i.refunded = 0

Unborn(b) ==
    /\ booking[b] = NewBooking /\ cancels[b] = 0 /\ earnings[b] = 0 /\ payments[b] = <<>>
    /\ \A k \in Kinds : intent[b][k] = NoIntent
    /\ \A p \in Procs : proc[p].b = b => proc[p].pc \in {"check", "insert"}

BornOK(b) ==
    /\ booking[b].stage = "none" => Unborn(b)
    /\ booking[b].stage # "none" => Free(b, {"check", "insert"})
    /\ One(b, {"check", "insert", "intent"})
    /\ \A p \in Procs : In(p, b, {"intent"}) =>
          proc[p].amount = booking[b].pending /\ intent[b]["trip"].amount = 0
    /\ \A k \in Kinds : IntentOK(intent[b][k])
    /\ intent[b]["trip"].amount \in {0, Fare + booking[b].pending}

BornInv == \A b \in Bookings : BornOK(b)

LEMMA BornSame ==
  ASSUME NEW b \in Bookings, Same(b), BornOK(b)
  PROVE  BornOK(b)'
  BY DEF Same, BornOK, Unborn, Free, One, In, IntentOK

LEMMA BornKept ==
  ASSUME NEW b \in Bookings, BornOK(b), booking[b].stage # "none", booking'[b].stage # "none",
         booking'[b].pending = booking[b].pending,
         intent'[b]["trip"].amount = intent[b]["trip"].amount,
         \A k \in Kinds : IntentOK(intent'[b][k]),
         \A q \in Procs : proc'[q].pc \in {"check", "insert", "intent"} => proc'[q] = proc[q]
  PROVE  BornOK(b)'
  BY DEF BornOK, Free, One, In, IntentOK

\* Whoever is at work on a booking without making it finds it made.
LEMMA BornMade ==
  ASSUME NEW b \in Bookings, BornOK(b)
  PROVE  /\ \A p \in Procs : proc[p].b = b /\ proc[p].pc \notin {"check", "insert"}
                => booking[b].stage # "none"
         /\ \A k \in Kinds : intent[b][k].charged => booking[b].stage # "none"
  BY DEF BornOK, Unborn, NoIntent

LEMMA InitBorn == Init => BornInv
  <1>. SUFFICES ASSUME Init, NEW b \in Bookings PROVE BornOK(b)
    BY DEF BornInv
  <1>1. booking[b] = NewBooking /\ booking[b].stage = "none" /\ booking[b].pending = 0
    BY DEF Init, NewBooking
  <1>2. \A p \in Procs : proc[p].b # b
    BY NoneAssumption DEF Init, Idle
  <1>3. \A k \in Kinds : intent[b][k] = NoIntent /\ IntentOK(intent[b][k])
    BY DEF Init, NoIntent, IntentOK
  <1>4. Unborn(b)
    BY <1>1, <1>2, <1>3 DEF Init, Unborn
  <1>5. intent[b]["trip"].amount = 0
    BY <1>3 DEF Kinds, NoIntent
  <1>. QED  BY <1>1, <1>2, <1>3, <1>4, <1>5 DEF BornOK, Free, One, In

\* What a booking's own steps do once it was made.
LEMMA RunBorn ==
  ASSUME TypeInv, BornInv, NEW p \in Procs, Run(p), NEW b \in Bookings, b = proc[p].b
  PROVE  BornOK(b)'
  <1>1. b \in Bookings /\ ProcOK(proc[p]) /\ ~At(p, "idle")
    <2>1. ~At(p, "idle")
      BY DEF Run, ScheduleCheck, InsertBooking, CreateIntent, HookPaid, HookReset, HookRow,
           HookEarning, HookConfirm, HookSettle, CancelRecheck, RefundPart, RefundMark,
           RefundAdjust, RefundFlag, RefundMarkFirst, RefundAll, OweStop, At
    <2>. QED  BY <2>1, Busy
  <1>2. BornOK(b)
    BY <1>1 DEF BornInv
  <1>3. CASE ScheduleCheck(p)
    <2>1. proc[p].pc = "check" /\ UNCHANGED <<booking, intent, payments, earnings, cancels>>
      BY <1>3 DEF ScheduleCheck, At, notes
    <2>2. \A q \in Procs : q # p => proc'[q] = proc[q]
      BY <1>3 DEF ScheduleCheck, End, Goto, TypeInv, ProcsOK
    <2>3. \/ proc'[p] = Idle
          \/ proc'[p].b = proc[p].b /\ proc'[p].pc = "insert"
      BY <1>1, <1>3 DEF ScheduleCheck, End, Goto, TypeInv, ProcsOK, ProcOK, ProcType
    <2>. QED  BY <1>1, <1>2, <2>1, <2>2, <2>3, NoneAssumption
              DEF BornOK, Unborn, Free, One, In, IntentOK, Idle
  <1>4. CASE InsertBooking(p)
    <2>1. proc[p].pc = "insert" /\ UNCHANGED <<intent, payments, earnings, cancels>>
      BY <1>4 DEF InsertBooking, At
    <2>2. /\ \A q \in Procs : q # p => proc'[q] = proc[q]
          /\ proc'[p].b = b /\ proc'[p].pc = "intent" /\ proc'[p].amount = proc[p].amount
      BY <1>1, <1>4 DEF InsertBooking, Goto, TypeInv, ProcsOK, ProcOK, ProcType
    <2>3. booking'[b].stage = "open" /\ booking'[b].pending = proc[p].amount
      BY <1>1, <1>4 DEF InsertBooking, NewBooking, TypeInv, PricesOK
    <2>4. booking[b].stage = "none" /\ \A k \in Kinds : intent[b][k] = NoIntent
      BY <1>1, <1>2, <2>1 DEF BornOK, Free, In, Unborn
    <2>5. intent[b]["trip"].amount = 0
      BY <2>4 DEF NoIntent, Kinds
    <2>. QED  BY <1>1, <1>2, <2>1, <2>2, <2>3, <2>4, <2>5
              DEF BornOK, Unborn, Free, One, In, IntentOK
  <1>5. CASE CreateIntent(p)
    <2>1. proc[p].pc = "intent" /\ UNCHANGED <<booking, payments, earnings, cancels>>
      BY <1>5 DEF CreateIntent, At, notes
    <2>2. /\ \A q \in Procs : q # p => proc'[q] = proc[q]
          /\ proc'[p].b = None
      BY <1>1, <1>5 DEF CreateIntent, End, TypeInv, ProcsOK, Idle
    <2>3. booking[b].stage # "none" /\ proc[p].amount = booking[b].pending
          /\ intent[b]["trip"].amount = 0 /\ IntentOK(intent[b]["trip"])
      BY <1>1, <1>2, <2>1, BornMade DEF BornOK, In, Kinds
    <2>4. /\ intent'[b]["trip"].amount = Fare + booking[b].pending
          /\ ~intent'[b]["trip"].charged
          /\ intent'[b]["trip"].sent = 0 /\ intent'[b]["trip"].refunded = 0
          /\ intent'[b]["stop"] = intent[b]["stop"]
      <3>. DEFINE i == [intent[b]["trip"] EXCEPT !.amount = Fare + proc[p].amount,
                                                 !.type = proc[p].type]
      <3>1. intent[b]["trip"] \in IntentType
        BY <1>1 DEF TypeInv, MoneyOK, Kinds
      <3>2. /\ i.amount = Fare + booking[b].pending /\ i.charged = intent[b]["trip"].charged
            /\ i.sent = intent[b]["trip"].sent /\ i.refunded = intent[b]["trip"].refunded
        BY <2>3, <3>1 DEF IntentType
      <3>3. intent' = [intent EXCEPT ![b]["trip"] = i]
        BY <1>5 DEF CreateIntent
      <3>. HIDE DEF i
      <3>4. intent'[b]["trip"] = i /\ intent'[b]["stop"] = intent[b]["stop"]
        BY <1>1, <3>3 DEF TypeInv, MoneyOK, Kinds
      <3>. QED  BY <2>3, <3>2, <3>4 DEF IntentOK
    <2>5. \A k \in Kinds : IntentOK(intent'[b][k])
      BY <1>2, <2>4 DEF BornOK, Kinds, IntentOK
    <2>6. \A q \in Procs : ~(proc'[q].b = b /\ proc'[q].pc \in {"check", "insert", "intent"})
      BY <1>1, <1>2, <2>1, <2>2, NoneAssumption DEF BornOK, One, In
    <2>. QED  BY <1>1, <2>1, <2>3, <2>4, <2>5, <2>6 DEF BornOK, Free, One, In, IntentOK
  <1>6. CASE ~(ScheduleCheck(p) \/ InsertBooking(p) \/ CreateIntent(p))
    <2>1. proc[p].pc \notin {"check", "insert"}
      BY <1>6 DEF Run, HookPaid, HookReset, HookRow,
           HookEarning, HookConfirm, HookSettle, CancelRecheck, RefundPart, RefundMark,
           RefundAdjust, RefundFlag, RefundMarkFirst, RefundAll, OweStop, At
    <2>2. booking[b].stage # "none"
      BY <1>1, <1>2, <2>1, BornMade
    <2>3. booking'[b].stage # "none" /\ booking'[b].pending = booking[b].pending
      <3>1. booking[b] \in BookingType
        BY <1>1 DEF TypeInv, PricesOK
      <3>2. \/ booking' = booking
            \/ booking' = [booking EXCEPT ![b].paid = TRUE]
            \/ booking' = [booking EXCEPT ![b].done = TRUE]
            \/ booking' = [booking EXCEPT ![b].refund = TRUE]
        BY <1>6 DEF Run, HookPaid, HookReset, HookRow,
           HookEarning, HookConfirm, HookSettle, CancelRecheck, RefundPart, RefundMark,
           RefundAdjust, RefundFlag, RefundMarkFirst, RefundAll, OweStop
      <3>. QED  BY <1>1, <2>2, <3>1, <3>2 DEF TypeInv, PricesOK, BookingType
    <2>4. /\ intent'[b]["trip"].amount = intent[b]["trip"].amount
          /\ \A k \in Kinds : IntentOK(intent'[b][k])
      <3>1. \/ intent' = intent
            \/ \E amount : /\ intent[b]["trip"].charged
                          /\ intent' = [intent EXCEPT ![b]["trip"].refunded = @ + amount]
        BY <1>6 DEF Run, HookPaid, HookReset, HookRow,
           HookEarning, HookConfirm, HookSettle, CancelRecheck, RefundPart, RefundMark,
           RefundAdjust, RefundFlag, RefundMarkFirst, RefundAll, OweStop, Refund, Refundable
      <3>2. intent[b]["trip"] \in IntentType /\ \A k \in Kinds : IntentOK(intent[b][k])
        BY <1>1, <1>2 DEF TypeInv, MoneyOK, Kinds, BornOK
      <3>3. CASE intent' = intent
        BY <3>2, <3>3
      <3>4. ASSUME NEW amount, intent[b]["trip"].charged,
                   intent' = [intent EXCEPT ![b]["trip"].refunded = @ + amount]
            PROVE  /\ intent'[b]["trip"].amount = intent[b]["trip"].amount
                   /\ \A k \in Kinds : IntentOK(intent'[b][k])
        <4>. DEFINE sum == intent[b]["trip"].refunded + amount
                    i == [intent[b]["trip"] EXCEPT !.refunded = sum]
        <4>1. intent' = [intent EXCEPT ![b]["trip"] = i]
          BY <3>4
        <4>. HIDE DEF sum
        <4>2. i.amount = intent[b]["trip"].amount /\ i.charged = intent[b]["trip"].charged
          BY <3>2 DEF IntentType
        <4>. HIDE DEF i
        <4>3. intent'[b]["trip"] = i /\ intent'[b]["stop"] = intent[b]["stop"]
          BY <1>1, <4>1 DEF TypeInv, MoneyOK, Kinds
        <4>. QED  BY <3>2, <3>4, <4>2, <4>3 DEF IntentOK, Kinds
      <3>. QED  BY <3>1, <3>3, <3>4
    <2>5. \A q \in Procs : proc'[q].pc \in {"check", "insert", "intent"} => proc'[q] = proc[q]
      <3>1. CASE Exit
        BY <3>1 DEF Exit, Idle
      <3>2. CASE End(p)
        BY <3>2 DEF End, Idle, TypeInv, ProcsOK
      <3>3. CASE CancelRecheck(p)
        <4>. DEFINE r == RefundJob(b, proc[p].scope)
        <4>1. r.pc \in {"refund", "markfirst"}
          BY <1>1, <2>2, RefundJobOK DEF TypeInv, ProcOK, ProcType
        <4>2. proc' = [proc EXCEPT ![p] = r]
          BY <3>3 DEF CancelRecheck
        <4>. HIDE DEF r
        <4>. QED  BY <4>1, <4>2 DEF TypeInv, ProcsOK
      <3>4. ASSUME NEW pc \in ProcPCs \ {"check", "insert", "intent"}, Goto(p, pc)
            PROVE \A q \in Procs :
                     proc'[q].pc \in {"check", "insert", "intent"} => proc'[q] = proc[q]
        BY <1>1, <3>4 DEF Goto, TypeInv, ProcsOK, ProcOK, ProcType
      <3>5. \/ Exit \/ End(p) \/ CancelRecheck(p)
            \/ \E pc \in ProcPCs \ {"check", "insert", "intent"} : Goto(p, pc)
        <4>1. {"row", "reset", "earning", "settle", "mark", "flag", "adjust", "refundall"}
                \subseteq ProcPCs \ {"check", "insert", "intent"}
          BY DEF ProcPCs
        <4>. QED  BY <1>6, <4>1 DEF Run, HookPaid, HookReset, HookRow,
           HookEarning, HookConfirm, HookSettle, RefundPart, RefundMark,
           RefundAdjust, RefundFlag, RefundMarkFirst, RefundAll, OweStop, Refund
      <3>. QED  BY <3>1, <3>2, <3>3, <3>4, <3>5
    <2>. QED  BY <1>2, <2>2, <2>3, <2>4, <2>5, BornKept
  <1>. QED  BY <1>3, <1>4, <1>5, <1>6

\* A request or a delivery makes a process of its own.
LEMMA BeginProc ==
  ASSUME TypeInv, NEW p \in Procs, NEW b \in Bookings, Begin(p, b)
  PROVE  /\ proc[p].pc = "idle" /\ proc[p].b = None /\ b # None
         /\ proc'[p].b = b /\ proc'[p].pc # "idle"
         /\ \A q \in Procs : q # p => proc'[q] = proc[q]
         /\ Create(p, b) \/ Schedule(p, b) <=> proc'[p].pc \in {"check", "insert"}
         /\ proc'[p].pc \in {"check", "insert", "owe", "refund", "markfirst", "recheck",
                             "paid", "confirm"}
  <1>. USE DEF TypeInv, ProcsOK
  <1>1. At(p, "idle") /\ \E r : proc' = [proc EXCEPT ![p] = r]
    BY DEF Begin, Create, Schedule, DeferStop, CustomerCancel, CancelRequest, SearchFailed,
           Deliver
  <1>2. /\ proc[p].pc = "idle" /\ proc[p].b = None /\ b # None
        /\ \A q \in Procs : q # p => proc'[q] = proc[q]
    BY <1>1, NoneAssumption DEF At, ProcOK
  <1>3. CASE Create(p, b)
    BY <1>2, <1>3 DEF Create, Idle
  <1>4. CASE Schedule(p, b)
    BY <1>2, <1>4 DEF Schedule, Idle
  <1>5. CASE ~(Create(p, b) \/ Schedule(p, b))
    <2>1. proc'[p].b = b /\ proc'[p].pc \in {"owe", "refund", "markfirst", "recheck",
                                              "paid", "confirm"}
      <3>1. CASE DeferStop(p, b)
        BY <3>1 DEF DeferStop, Idle
      <3>2. CASE CancelRequest(p, b)
        BY <3>2 DEF CancelRequest, Idle
      <3>3. CASE CustomerCancel(p, b)
        <4>. DEFINE r == RefundJob(b, "customer")
        <4>1. r.b = b /\ r.pc \in {"refund", "markfirst"}
          BY <3>3, RefundJobOK DEF CustomerCancel
        <4>. HIDE DEF r
        <4>. QED  BY <3>3, <4>1 DEF CustomerCancel, r
      <3>4. CASE SearchFailed(p, b)
        <4>. DEFINE r == RefundJob(b, "failed")
        <4>0. booking[b].stage # "none"
          BY <3>4 DEF SearchFailed, Open
        <4>1. r.b = b /\ r.pc \in {"refund", "markfirst"}
          BY <4>0, RefundJobOK
        <4>2. proc' = [proc EXCEPT ![p] = r]
          BY <3>4 DEF SearchFailed
        <4>. HIDE DEF r
        <4>. QED  BY <4>1, <4>2
      <3>5. ASSUME NEW k \in Kinds, Deliver(p, b, k)
            PROVE proc'[p].b = b /\ proc'[p].pc \in {"paid", "confirm"}
        BY <3>5 DEF Deliver, Idle
      <3>. QED  BY <1>5, <3>1, <3>2, <3>3, <3>4, <3>5 DEF Begin
    <2>. QED  BY <1>2, <1>5, <2>1
  <1>. QED  BY <1>3, <1>4, <1>5

LEMMA BeginBorn ==
  ASSUME TypeInv, BornInv, NEW p \in Procs, NEW b \in Bookings, Begin(p, b)
  PROVE  BornOK(b)'
  <1>0. BornOK(b)
    BY DEF BornInv
  <1>1. /\ proc[p].pc = "idle" /\ proc[p].b = None /\ b # None
        /\ proc'[p].b = b /\ proc'[p].pc # "idle"
        /\ \A q \in Procs : q # p => proc'[q] = proc[q]
    BY BeginProc
  <1>2. CASE Create(p, b) \/ Schedule(p, b)
    <2>1. proc'[p].pc \in {"check", "insert"}
      BY <1>2, BeginProc
    <2>2. /\ booking[b].stage = "none" /\ \A q \in Procs : proc[q].b # b
          /\ UNCHANGED <<booking, intent, payments, earnings, cancels>>
      BY <1>2 DEF Create, Schedule, Working, notes
    <2>. QED  BY <1>0, <1>1, <2>1, <2>2 DEF BornOK, Unborn, Free, One, In, IntentOK
  <1>3. CASE ~(Create(p, b) \/ Schedule(p, b))
    <2>1. \A q \in Procs : proc'[q].pc \in {"check", "insert", "intent"} => proc'[q] = proc[q]
      <3>1. proc'[p].pc \notin {"check", "insert", "intent"}
        BY <1>3, BeginProc
      <3>. QED  BY <1>1, <3>1
    <2>2. booking[b].stage # "none"
      <3>1. ASSUME NEW k \in Kinds, Deliver(p, b, k) PROVE booking[b].stage # "none"
        BY <1>0, <3>1, BornMade DEF Deliver
      <3>. QED  BY <1>3, <3>1 DEF Begin, DeferStop, CustomerCancel, CancelRequest,
                                  SearchFailed, Open
    <2>3. booking'[b].stage # "none" /\ booking'[b].pending = booking[b].pending
      <3>1. booking[b] \in BookingType
        BY DEF TypeInv, PricesOK
      <3>2. \/ booking' = booking
            \/ booking' = [booking EXCEPT ![b].done = TRUE]
            \/ booking' = [booking EXCEPT ![b].stage = "cancelled", ![b].type = "cancelled"]
            \/ booking' = [booking EXCEPT ![b].stage = "failed"]
        BY <1>3 DEF Begin, DeferStop, CustomerCancel, CancelRequest, SearchFailed, Deliver
      <3>. QED  BY <2>2, <3>1, <3>2 DEF TypeInv, PricesOK, BookingType
    <2>4. /\ intent'[b]["trip"].amount = intent[b]["trip"].amount
          /\ \A k \in Kinds : IntentOK(intent'[b][k])
      <3>1. \A k \in Kinds : intent[b][k] \in IntentType /\ IntentOK(intent[b][k])
        BY <1>0 DEF TypeInv, MoneyOK, BornOK
      <3>2. CASE intent' = intent
        BY <3>1, <3>2 DEF Kinds
      <3>3. ASSUME NEW k \in Kinds, Deliver(p, b, k)
            PROVE  /\ intent'[b]["trip"].amount = intent[b]["trip"].amount
                   /\ \A l \in Kinds : IntentOK(intent'[b][l])
        <4>. DEFINE sent == intent[b][k].sent + 1
                    i == [intent[b][k] EXCEPT !.sent = sent]
        <4>1. intent' = [intent EXCEPT ![b][k] = i] /\ intent[b][k].charged
          BY <3>3 DEF Deliver
        <4>. HIDE DEF sent
        <4>2. i.amount = intent[b][k].amount /\ i.charged = intent[b][k].charged
          BY <3>1 DEF IntentType
        <4>. HIDE DEF i
        <4>3. \A l \in Kinds : intent'[b][l] = IF l = k THEN i ELSE intent[b][l]
          BY <4>1 DEF TypeInv, MoneyOK
        <4>. QED  BY <3>1, <4>1, <4>2, <4>3 DEF IntentOK, Kinds
      <3>4. intent' = intent \/ \E k \in Kinds : Deliver(p, b, k)
        BY DEF Begin, Create, Schedule, DeferStop, CustomerCancel, CancelRequest, SearchFailed
      <3>. QED  BY <3>2, <3>3, <3>4
    <2>. QED  BY <1>0, <2>1, <2>2, <2>3, <2>4, BornKept
  <1>. QED  BY <1>2, <1>3

LEMMA AloneBorn ==
  ASSUME TypeInv, BornInv, NEW b \in Bookings, Alone(b)
  PROVE  BornOK(b)'
  <1>0. BornOK(b) /\ UNCHANGED proc
    BY DEF BornInv, Alone, Accept, PayStop, RideCompleted, Charge
  <1>1. \A k \in Kinds : intent[b][k] \in IntentType /\ IntentOK(intent[b][k])
    BY <1>0 DEF TypeInv, MoneyOK, BornOK
  <1>2. booking[b].stage # "none"
    <2>1. ASSUME NEW k \in Kinds, Charge(b, k) PROVE booking[b].stage # "none"
      <3>1. intent[b][k].amount # 0
        BY <1>1, <2>1 DEF Charge, IntentType, Charges
      <3>. QED  BY <1>0, <3>1 DEF BornOK, Unborn, NoIntent
    <2>. QED  BY <2>1 DEF Alone, Accept, PayStop, RideCompleted
  <1>3. booking'[b].stage # "none" /\ booking'[b].pending = booking[b].pending
    <2>1. booking[b] \in BookingType
      BY DEF TypeInv, PricesOK
    <2>2. \/ booking' = booking
          \/ booking' = [booking EXCEPT ![b].stage = "accepted", ![b].driver = TRUE]
          \/ \E stop, total : booking' = [booking EXCEPT ![b].stage = "completed",
                                             ![b].stop = stop, ![b].total = total]
      BY DEF Alone, Accept, PayStop, RideCompleted, Charge
    <2>3. ASSUME NEW stop, NEW total,
                 booking' = [booking EXCEPT ![b].stage = "completed", ![b].stop = stop,
                                            ![b].total = total]
          PROVE  booking'[b].stage # "none" /\ booking'[b].pending = booking[b].pending
      <3>. DEFINE d == [booking[b] EXCEPT !.stage = "completed", !.stop = stop,
                                          !.total = total]
      <3>1. d.stage = "completed" /\ d.pending = booking[b].pending
        BY <2>1 DEF BookingType
      <3>2. booking' = [booking EXCEPT ![b] = d]
        BY <2>3
      <3>. HIDE DEF d
      <3>. QED  BY <3>1, <3>2 DEF TypeInv, PricesOK
    <2>4. CASE booking' = [booking EXCEPT ![b].stage = "accepted", ![b].driver = TRUE]
      <3>. DEFINE d == [booking[b] EXCEPT !.stage = "accepted", !.driver = TRUE]
      <3>1. d.stage = "accepted" /\ d.pending = booking[b].pending
        BY <2>1 DEF BookingType
      <3>2. booking' = [booking EXCEPT ![b] = d]
        BY <2>4
      <3>. HIDE DEF d
      <3>. QED  BY <3>1, <3>2 DEF TypeInv, PricesOK
    <2>. QED  BY <1>2, <2>2, <2>3, <2>4
  <1>4. /\ intent'[b]["trip"].amount = intent[b]["trip"].amount
        /\ \A k \in Kinds : IntentOK(intent'[b][k])
    <2>1. CASE intent' = intent
      BY <1>1, <2>1 DEF Kinds
    <2>2. ASSUME NEW k \in Kinds, Charge(b, k)
          PROVE  /\ intent'[b]["trip"].amount = intent[b]["trip"].amount
                 /\ \A l \in Kinds : IntentOK(intent'[b][l])
      <3>. DEFINE i == [intent[b][k] EXCEPT !.charged = TRUE]
      <3>1. intent' = [intent EXCEPT ![b][k] = i] /\ intent[b][k].amount > 0
        BY <2>2 DEF Charge
      <3>2. i.amount = intent[b][k].amount /\ i.charged
        BY <1>1 DEF IntentType
      <3>. HIDE DEF i
      <3>3. \A l \in Kinds : intent'[b][l] = IF l = k THEN i ELSE intent[b][l]
        BY <3>1 DEF TypeInv, MoneyOK
      <3>4. i.amount # 0
        BY <1>1, <3>1, <3>2 DEF IntentType, Charges
      <3>. QED  BY <1>1, <3>2, <3>3, <3>4 DEF IntentOK, Kinds
    <2>3. CASE PayStop(b)
      <3>. DEFINE amount == booking[b].stop
                  i == [intent[b]["stop"] EXCEPT !.amount = amount]
      <3>1. intent' = [intent EXCEPT ![b]["stop"] = i] /\ intent[b]["stop"].amount = 0
        BY <2>3 DEF PayStop
      <3>2. intent[b]["stop"] \in IntentType /\ IntentOK(intent[b]["stop"])
        BY <1>1 DEF Kinds
      <3>. HIDE DEF amount
      <3>3. /\ i.charged = intent[b]["stop"].charged /\ i.sent = intent[b]["stop"].sent
            /\ i.refunded = intent[b]["stop"].refunded
        BY <3>2 DEF IntentType
      <3>. HIDE DEF i
      <3>4. intent'[b]["trip"] = intent[b]["trip"] /\ intent'[b]["stop"] = i
        BY <3>1 DEF TypeInv, MoneyOK, Kinds
      <3>. QED  BY <1>1, <3>1, <3>2, <3>3, <3>4 DEF IntentOK, Kinds
    <2>. QED  BY <2>1, <2>2, <2>3 DEF Alone, Accept, RideCompleted
  <1>. QED  BY <1>0, <1>2, <1>3, <1>4, BornKept

\* What is true of each booking by itself stays true when its own steps keep it
\* and those of other bookings leave it the same.
LEMMA NextCases ==
  ASSUME Next
  PROVE  \/ \E p \in Procs : Run(p)
         \/ \E p \in Procs, b \in Bookings : Begin(p, b)
         \/ \E b \in Bookings : Alone(b)
  BY DEF Next, Begin, Alone

LEMMA RunBusy ==
  ASSUME TypeInv, NEW p \in Procs, Run(p)
  PROVE  ~At(p, "idle") /\ proc[p].b \in Bookings /\ ProcOK(proc[p])
  <1>1. ~At(p, "idle")
    BY DEF Run, ScheduleCheck, InsertBooking, CreateIntent, HookPaid, HookReset, HookRow,
           HookEarning, HookConfirm, HookSettle, CancelRecheck, RefundPart, RefundMark,
           RefundAdjust, RefundFlag, RefundMarkFirst, RefundAll, OweStop, At
  <1>. QED  BY <1>1, Busy

LEMMA StepBorn == TypeInv /\ BornInv /\ [Next]_vars => BornInv'
  <1>. SUFFICES ASSUME TypeInv, BornInv, [Next]_vars, NEW b \in Bookings PROVE BornOK(b)'
    BY DEF BornInv
  <1>0. BornOK(b)
    BY DEF BornInv
  <1>1. ASSUME NEW p \in Procs, Run(p) PROVE BornOK(b)'
    <2>1. CASE b = proc[p].b
      BY <1>1, <2>1, RunBorn
    <2>2. CASE Crash
      <3>1. \A q \in Procs : proc'[q].b # b /\ proc'[q].pc = "idle"
        BY <2>2, NoneAssumption DEF Crash, Exit, Idle
      <3>. QED  BY <1>0, <2>2, <3>1 DEF Crash, BornOK, Unborn, Free, One, In, IntentOK
    <2>. QED  BY <1>0, <1>1, <2>1, <2>2, RunElsewhere, BornSame
  <1>2. ASSUME NEW p \in Procs, NEW c \in Bookings, Begin(p, c) PROVE BornOK(b)'
    BY <1>0, <1>2, BeginBorn, BeginElsewhere, BornSame
  <1>3. ASSUME NEW c \in Bookings, Alone(c) PROVE BornOK(b)'
    BY <1>0, <1>3, AloneBorn, AloneElsewhere, BornSame
  <1>4. CASE UNCHANGED vars
    BY <1>0, <1>4 DEF vars, notes, BornOK, Unborn, Free, One, In, IntentOK
  <1>. QED  BY <1>1, <1>2, <1>3, <1>4, NextCases

-----------------------------------------------------------------------------
(* The customer's debt.                                                     *)

\* Every booking that was made while there is a debt carries it, but for those
\* made before it arose.
DebtOK(b) ==
    pending > 0 /\ booking[b].stage # "none" => booking[b].pending = pending \/ b \in early

DebtInv == \A b \in Bookings : DebtOK(b)

LEMMA InitDebt == Init => DebtInv
  BY DEF Init, DebtInv, DebtOK

\* Who touches the debt, or a booking's part in it.
LEMMA DebtKept ==
  ASSUME TypeInv, DebtInv, UNCHANGED pending, early \subseteq early',
         \A b \in Bookings : booking'[b].stage # "none" =>
            booking[b].stage # "none" /\ booking'[b].pending = booking[b].pending
  PROVE  DebtInv'
  BY DEF DebtInv, DebtOK

LEMMA StepDebt == TypeInv /\ BornInv /\ DebtInv /\ [Next]_vars => DebtInv'
  <1>. SUFFICES ASSUME TypeInv, BornInv, DebtInv, [Next]_vars PROVE DebtInv'
    OBVIOUS
  <1>0. \A b \in Bookings : booking[b] \in BookingType
    BY DEF TypeInv, PricesOK
  <1>1. ASSUME NEW p \in Procs, Run(p) PROVE DebtInv'
    <2>0. proc[p].b \in Bookings /\ ~At(p, "idle")
      BY <1>1, RunBusy
    <2>1. CASE InsertBooking(p)
      <3>. DEFINE b == proc[p].b
      <3>1. booking'[b].pending = proc[p].amount
        BY <2>0, <2>1 DEF InsertBooking, NewBooking, TypeInv, PricesOK
      <3>2. \A c \in Bookings : c # b => booking'[c] = booking[c]
        BY <2>0, <2>1 DEF InsertBooking, TypeInv, PricesOK
      <3>3. /\ UNCHANGED pending
            /\ early' = IF proc[p].amount = pending THEN early ELSE early \cup {b}
        BY <2>1 DEF InsertBooking
      <3>. QED  BY <2>0, <3>1, <3>2, <3>3 DEF DebtInv, DebtOK
    <2>2. CASE HookReset(p)
      BY <2>2 DEF HookReset, DebtInv, DebtOK
    <2>3. CASE OweStop(p)
      BY <2>3 DEF OweStop, DebtInv, DebtOK
    <2>4. CASE ~(InsertBooking(p) \/ HookReset(p) \/ OweStop(p))
      <3>1. UNCHANGED <<pending, early>>
        BY <1>1, <2>4 DEF Run, ScheduleCheck, CreateIntent, HookPaid, HookRow,
           HookEarning, HookConfirm, HookSettle, CancelRecheck, RefundPart, RefundMark,
           RefundAdjust, RefundFlag, RefundMarkFirst, RefundAll, notes
      <3>2. \/ booking' = booking
            \/ booking' = [booking EXCEPT ![proc[p].b].paid = TRUE]
            \/ booking' = [booking EXCEPT ![proc[p].b].done = TRUE]
            \/ booking' = [booking EXCEPT ![proc[p].b].refund = TRUE]
        BY <1>1, <2>4 DEF Run, ScheduleCheck, CreateIntent, HookPaid, HookRow,
           HookEarning, HookConfirm, HookSettle, CancelRecheck, RefundPart, RefundMark,
           RefundAdjust, RefundFlag, RefundMarkFirst, RefundAll
      <3>3. \A b \in Bookings : /\ booking'[b].stage = booking[b].stage
                                /\ booking'[b].pending = booking[b].pending
        BY <1>0, <2>0, <3>2 DEF TypeInv, PricesOK, BookingType
      <3>. QED  BY <3>1, <3>3, DebtKept
    <2>. QED  BY <2>1, <2>2, <2>3, <2>4
  <1>2. ASSUME NEW p \in Procs, NEW c \in Bookings, Begin(p, c) PROVE DebtInv'
    <2>1. UNCHANGED <<pending, early>>
      BY <1>2 DEF Begin, Create, Schedule, DeferStop, CustomerCancel, CancelRequest,
                  SearchFailed, Deliver, notes
    <2>2. \/ booking' = booking
          \/ booking' = [booking EXCEPT ![c].done = TRUE]
          \/ /\ booking[c].stage # "none"
             /\ \/ booking' = [booking EXCEPT ![c].stage = "cancelled", ![c].type = "cancelled"]
                \/ booking' = [booking EXCEPT ![c].stage = "failed"]
      BY <1>2 DEF Begin, Create, Schedule, DeferStop, CustomerCancel, CancelRequest,
                  SearchFailed, Deliver, Open
    <2>3. \A b \in Bookings : booking'[b].stage # "none" =>
            booking[b].stage # "none" /\ booking'[b].pending = booking[b].pending
      BY <1>0, <2>2 DEF TypeInv, PricesOK, BookingType
    <2>. QED  BY <2>1, <2>3, DebtKept
  <1>3. ASSUME NEW c \in Bookings, Alone(c) PROVE DebtInv'
    <2>1. UNCHANGED <<pending, early>>
      BY <1>3 DEF Alone, Accept, PayStop, RideCompleted, Charge, notes
    <2>2. /\ booking'[c].pending = booking[c].pending
          /\ (booking'[c].stage # "none" => booking[c].stage # "none")
      <3>1. CASE Accept(c)
        BY <1>0, <1>3, <3>1 DEF Accept, TypeInv, PricesOK, BookingType
      <3>2. ASSUME NEW stop \in Debts, RideCompleted(c, stop)
            PROVE  /\ booking'[c].pending = booking[c].pending
                   /\ (booking'[c].stage # "none" => booking[c].stage # "none")
        <4>. DEFINE total == booking[c].trip + stop
                    d == [booking[c] EXCEPT !.stage = "completed", !.stop = stop,
                                            !.total = total]
        <4>1. booking' = [booking EXCEPT ![c] = d] /\ booking[c].stage # "none"
          BY <3>2 DEF RideCompleted
        <4>. HIDE DEF total
        <4>2. d.pending = booking[c].pending
          BY <1>0 DEF BookingType
        <4>. HIDE DEF d
        <4>3. booking'[c] = d
          BY <4>1 DEF TypeInv, PricesOK
        <4>. QED  BY <1>3, <4>1, <4>2, <4>3
      <3>3. CASE UNCHANGED booking
        BY <3>3
      <3>. QED  BY <1>3, <3>1, <3>2, <3>3 DEF Alone, PayStop, Charge
    <2>3. \A b \in Bookings : b # c => booking'[b] = booking[b]
      BY <1>3, AloneElsewhere DEF Same
    <2>. QED  BY <2>1, <2>2, <2>3, DebtKept
  <1>4. CASE UNCHANGED vars
    BY <1>4 DEF vars, notes, DebtInv, DebtOK
  <1>. QED  BY <1>1, <1>2, <1>3, <1>4, NextCases

\* The customer's debt is set to nothing only by a payment that carried it, by
\* that of a booking priced before it arose, or by the end of another ride.
THEOREM DebtBilled == Spec => DebtIsBilled
  <1>. DEFINE Q == pending > 0 /\ pending' = 0 =>
                \E p \in Procs :
                   \/ At(p, "reset") /\ (\/ booking[proc[p].b].pending = pending
                                         \/ proc[p].b \in early)
                   \/ At(p, "owe")
  <1>1. Init => DebtInv /\ BornInv /\ TypeInv
    BY InitDebt, InitBorn, InitType
  <1>2. TypeInv /\ BornInv /\ DebtInv /\ [Next]_vars => [Q]_vars
    <2>. SUFFICES ASSUME TypeInv, BornInv, DebtInv, [Next]_vars, pending > 0, pending' = 0
                  PROVE \E p \in Procs :
                          \/ At(p, "reset") /\ (\/ booking[proc[p].b].pending = pending
                                                \/ proc[p].b \in early)
                          \/ At(p, "owe")
      OBVIOUS
    <2>1. pending' # pending
      BY DEF TypeInv, MoneyOK, Debts
    <2>2. ASSUME NEW p \in Procs, NEW b \in Bookings, Begin(p, b) PROVE FALSE
      BY <2>1, <2>2 DEF Begin, Create, Schedule, DeferStop, CustomerCancel, CancelRequest,
                        SearchFailed, Deliver
    <2>3. ASSUME NEW b \in Bookings, Alone(b) PROVE FALSE
      BY <2>1, <2>3 DEF Alone, Accept, PayStop, RideCompleted, Charge
    <2>4. PICK p \in Procs : Run(p)
      BY <2>1, <2>2, <2>3, NextCases DEF vars
    <2>5. HookReset(p) \/ OweStop(p)
      BY <2>1, <2>4 DEF Run, ScheduleCheck, InsertBooking, CreateIntent, HookPaid, HookRow,
           HookEarning, HookConfirm, HookSettle, CancelRecheck, RefundPart, RefundMark,
           RefundAdjust, RefundFlag, RefundMarkFirst, RefundAll
    <2>6. CASE HookReset(p)
      <3>1. At(p, "reset") /\ proc[p].b \in Bookings
        BY <2>4, <2>6, RunBusy DEF HookReset
      <3>2. booking[proc[p].b].stage # "none"
        BY <3>1, BornMade DEF BornInv, At
      <3>. QED  BY <3>1, <3>2 DEF DebtInv, DebtOK
    <2>7. CASE OweStop(p)
      BY <2>7 DEF OweStop
    <2>. QED  BY <2>5, <2>6, <2>7
  <1>. QED  BY <1>1, <1>2, StepType, StepBorn, StepDebt, PTL DEF Spec, DebtIsBilled

-----------------------------------------------------------------------------
(* The mark of a refund.                                                    *)

Refunded(b) == intent[b]["trip"].refunded

MarkOK(b) ==
    /\ b \notin cut =>
          /\ booking[b].refund => Refunded(b) > 0 \/ ~Free(b, {"refundall"})
          /\ Refunded(b) > 0 => booking[b].refund \/ ~Free(b, {"mark"})
    /\ \A p \in Procs :
          /\ In(p, b, {"mark"}) => Refunded(b) > 0
          /\ In(p, b, {"refundall"}) => booking[b].refund

MarkInv == \A b \in Bookings : MarkOK(b)

LEMMA MarkKept ==
  ASSUME NEW b \in Bookings, MarkOK(b), cut \subseteq cut',
         booking'[b].refund = booking[b].refund,
         intent'[b]["trip"].refunded = intent[b]["trip"].refunded,
         \A q \in Procs :
            (proc[q].b = b /\ proc[q].pc \in {"mark", "refundall"})
              \/ (proc'[q].b = b /\ proc'[q].pc \in {"mark", "refundall"})
            => proc'[q].b = proc[q].b /\ proc'[q].pc = proc[q].pc
  PROVE  MarkOK(b)'
  <1>1. \A q \in Procs : (proc'[q].b = b /\ proc'[q].pc = "mark")
                          <=> (proc[q].b = b /\ proc[q].pc = "mark")
    OBVIOUS
  <1>2. \A q \in Procs : (proc'[q].b = b /\ proc'[q].pc = "refundall")
                          <=> (proc[q].b = b /\ proc[q].pc = "refundall")
    OBVIOUS
  <1>. QED  BY <1>1, <1>2 DEF MarkOK, Refunded, Free, In

LEMMA InitMark == Init => MarkInv
  <1>. SUFFICES ASSUME Init, NEW b \in Bookings PROVE MarkOK(b)
    BY DEF MarkInv
  <1>1. booking[b].refund = FALSE /\ Refunded(b) = 0
    BY DEF Init, NewBooking, NoIntent, Refunded, Kinds
  <1>2. \A p \in Procs : proc[p].pc = "idle"
    BY DEF Init, Idle
  <1>. QED  BY <1>1, <1>2 DEF MarkOK, In

LEMMA CutGrows ==
  ASSUME [Next]_vars
  PROVE  cut \subseteq cut'
  <1>1. ASSUME NEW p \in Procs, Run(p) PROVE cut \subseteq cut'
    BY <1>1 DEF Run, ScheduleCheck, InsertBooking, CreateIntent, HookPaid, HookReset, HookRow,
           HookEarning, HookConfirm, HookSettle, CancelRecheck, RefundPart, RefundMark,
           RefundAdjust, RefundFlag, RefundMarkFirst, RefundAll, OweStop, Refund, Exit, notes
  <1>2. ASSUME NEW p \in Procs, NEW c \in Bookings, Begin(p, c) PROVE cut \subseteq cut'
    BY <1>2 DEF Begin, Create, Schedule, DeferStop, CustomerCancel, CancelRequest,
                SearchFailed, Deliver, notes
  <1>3. ASSUME NEW c \in Bookings, Alone(c) PROVE cut \subseteq cut'
    BY <1>3 DEF Alone, Accept, PayStop, RideCompleted, Charge, notes
  <1>. QED  BY <1>1, <1>2, <1>3, NextCases DEF vars, notes

LEMMA MarkSame ==
  ASSUME NEW b \in Bookings, Same(b), MarkOK(b), cut \subseteq cut'
  PROVE  MarkOK(b)'
  BY MarkKept DEF Same

\* A server that exits ends what is between the two calls.
LEMMA MarkCrash ==
  ASSUME TypeInv, NEW b \in Bookings, Crash, MarkOK(b), cut \subseteq cut'
  PROVE  MarkOK(b)'
  <1>1. \A q \in Procs : proc'[q].b # b /\ proc'[q].pc = "idle"
    BY NoneAssumption DEF Crash, Exit, Idle
  <1>2. CASE b \in cut'
    BY <1>1, <1>2 DEF MarkOK, In
  <1>3. CASE b \notin cut'
    <2>1. \A q \in Procs : proc[q].b # b
      BY <1>3, ExitSame DEF Crash
    <2>. QED  BY <1>1, <1>3, <2>1 DEF Crash, MarkOK, Refunded, Free, In
  <1>. QED  BY <1>2, <1>3

LEMMA RunMark ==
  ASSUME TypeInv, BornInv, NEW p \in Procs, Run(p), NEW b \in Bookings, b = proc[p].b,
         MarkOK(b), cut \subseteq cut', ~Crash
  PROVE  MarkOK(b)'
  <1>0. /\ ProcOK(proc[p]) /\ BornOK(b) /\ booking[b] \in BookingType
        /\ intent[b]["trip"] \in IntentType /\ ~At(p, "idle")
    BY RunBusy DEF BornInv, TypeInv, PricesOK, MoneyOK, Kinds
  <1>1. CASE InsertBooking(p)
    <2>1. proc[p].pc = "insert" /\ intent' = intent
      BY <1>1 DEF InsertBooking, At
    <2>2. Unborn(b)
      BY <1>0, <2>1 DEF BornOK, Free, In
    <2>3. booking'[b].refund = FALSE /\ booking[b].refund = FALSE
      BY <1>1, <2>2 DEF InsertBooking, NewBooking, TypeInv, PricesOK, Unborn
    <2>4. /\ \A q \in Procs : q # p => proc'[q] = proc[q]
          /\ proc'[p].pc = "intent"
      BY <1>1 DEF InsertBooking, Goto, TypeInv, ProcsOK, ProcOK, ProcType
    <2>. QED  BY <2>1, <2>3, <2>4, MarkKept
  <1>2. CASE RefundPart(p) \/ RefundAll(p)
    <2>. DEFINE old == intent[b]["trip"]
                amount == IF RefundPart(p) THEN proc[p].amount ELSE old.amount - old.refunded
                sum == old.refunded + amount
                i == [old EXCEPT !.refunded = sum]
    <2>1. /\ Refundable(b, amount) /\ intent' = [intent EXCEPT ![b]["trip"] = i]
          /\ UNCHANGED booking
          /\ RefundPart(p) => Goto(p, "mark") /\ At(p, "refund")
          /\ ~RefundPart(p) => End(p) /\ At(p, "refundall")
      BY <1>2 DEF RefundPart, RefundAll, Refund, Crash
    <2>2. amount \in Int /\ old.refunded \in Nat
      BY <1>0, AmountsAreInts DEF ProcOK, ProcType, Amounts, IntentType, Charges
    <2>3. sum > 0
      BY <2>1, <2>2 DEF Refundable
    <2>. HIDE DEF amount, sum
    <2>4. i.refunded = sum
      BY <1>0 DEF IntentType
    <2>. HIDE DEF i
    <2>5. Refunded(b)' > 0
      BY <2>1, <2>3, <2>4 DEF Refunded, TypeInv, MoneyOK, Kinds
    <2>6. CASE RefundPart(p)
      <3>1. proc'[p].b = b /\ proc'[p].pc = "mark"
        BY <1>0, <2>1, <2>6 DEF Goto, TypeInv, ProcsOK, ProcOK, ProcType
      <3>2. \A q \in Procs : q # p => proc'[q] = proc[q]
        BY <2>1, <2>6 DEF Goto, TypeInv, ProcsOK
      <3>. QED  BY <2>1, <2>5, <3>1, <3>2 DEF MarkOK, Free, In
    <2>7. CASE ~RefundPart(p)
      <3>1. /\ \A q \in Procs : q # p => proc'[q] = proc[q]
            /\ proc[p].pc = "refundall"
        BY <2>1, <2>7 DEF End, TypeInv, ProcsOK, At
      <3>2. booking'[b].refund
        BY <2>1, <3>1 DEF MarkOK, In
      <3>3. proc'[p].pc = "idle"
        BY <2>1, <2>7 DEF End, TypeInv, ProcsOK, Idle
      <3>. QED  BY <2>5, <3>1, <3>2, <3>3 DEF MarkOK, Free, In
    <2>. QED  BY <2>6, <2>7
  <1>3. CASE RefundMark(p) \/ RefundMarkFirst(p)
    <2>1. /\ intent' = intent /\ proc[p].pc \in {"mark", "markfirst"}
          /\ RefundMark(p) => proc[p].pc = "mark"
      BY <1>3 DEF RefundMark, RefundMarkFirst, At
    <2>2. booking'[b].refund = TRUE
      BY <1>0, <1>3 DEF RefundMark, RefundMarkFirst, TypeInv, PricesOK, BookingType
    <2>3. /\ \A q \in Procs : q # p => proc'[q] = proc[q]
          /\ proc'[p].b = b
          /\ RefundMark(p) => proc'[p].pc \in {"flag", "adjust"}
          /\ ~RefundMark(p) => proc'[p].pc = "refundall"
      BY <1>0, <1>3 DEF RefundMark, RefundMarkFirst, Goto, TypeInv, ProcsOK, ProcOK, ProcType
    <2>4. ASSUME RefundMark(p) PROVE Refunded(b) > 0
      <3>1. proc[p].b = b /\ proc[p].pc = "mark"
        BY <2>1, <2>4
      <3>2. \A q \in Procs : proc[q].b = b /\ proc[q].pc = "mark" => Refunded(b) > 0
        BY DEF MarkOK, In
      <3>. QED  BY <3>1, <3>2
    <2>. QED  BY <2>1, <2>2, <2>3, <2>4 DEF MarkOK, Refunded, Free, In
  <1>4. CASE ~(InsertBooking(p) \/ RefundPart(p) \/ RefundAll(p) \/ RefundMark(p)
               \/ RefundMarkFirst(p))
    <2>1. intent'[b]["trip"].refunded = intent[b]["trip"].refunded
      <3>1. CASE CreateIntent(p)
        BY <1>0, <3>1 DEF CreateIntent, TypeInv, MoneyOK, IntentType, Kinds
      <3>2. CASE ~CreateIntent(p)
        <4>1. intent' = intent
          BY <1>4, <3>2 DEF Run, ScheduleCheck, HookPaid, HookReset, HookRow,
           HookEarning, HookConfirm, HookSettle, CancelRecheck, RefundAdjust, RefundFlag, OweStop
        <4>. QED  BY <4>1
      <3>. QED  BY <3>1, <3>2
    <2>2. booking'[b].refund = booking[b].refund
      <3>1. \/ booking' = booking
            \/ booking' = [booking EXCEPT ![b].paid = TRUE]
            \/ booking' = [booking EXCEPT ![b].done = TRUE]
        BY <1>4 DEF Run, ScheduleCheck, CreateIntent, HookPaid, HookReset, HookRow,
           HookEarning, HookConfirm, HookSettle, CancelRecheck, RefundAdjust, RefundFlag, OweStop
      <3>. QED  BY <1>0, <3>1 DEF TypeInv, PricesOK, BookingType
    <2>3. proc[p].pc \notin {"mark", "refundall"}
      BY <1>4 DEF Run, ScheduleCheck, CreateIntent, HookPaid, HookReset, HookRow,
           HookEarning, HookConfirm, HookSettle, CancelRecheck, RefundAdjust, RefundFlag,
           OweStop, At
    <2>4. /\ \A q \in Procs : q # p => proc'[q] = proc[q]
          /\ proc'[p].pc \notin {"mark", "refundall"}
      <3>1. CASE End(p)
        BY <3>1 DEF End, Idle, TypeInv, ProcsOK
      <3>2. CASE CancelRecheck(p)
        <4>. DEFINE r == RefundJob(b, proc[p].scope)
        <4>0. booking[b].stage # "none" /\ proc[p].scope \in {"customer", "failed"}
          BY <1>0, <3>2 DEF CancelRecheck, TypeInv, RecheckOK, ProcOK, ProcType
        <4>1. r.pc \in {"refund", "markfirst"}
          BY <4>0, RefundJobOK DEF TypeInv
        <4>2. proc' = [proc EXCEPT ![p] = r]
          BY <3>2 DEF CancelRecheck
        <4>. HIDE DEF r
        <4>. QED  BY <4>1, <4>2 DEF TypeInv, ProcsOK
      <3>3. ASSUME NEW pc \in ProcPCs \ {"mark", "refundall"}, Goto(p, pc)
            PROVE /\ \A q \in Procs : q # p => proc'[q] = proc[q]
                  /\ proc'[p].pc \notin {"mark", "refundall"}
        BY <1>0, <3>3 DEF Goto, TypeInv, ProcsOK, ProcOK, ProcType
      <3>4. \/ End(p) \/ CancelRecheck(p)
            \/ \E pc \in ProcPCs \ {"mark", "refundall"} : Goto(p, pc)
        <4>1. {"insert", "row", "reset", "earning", "settle"} \subseteq ProcPCs \ {"mark", "refundall"}
          BY DEF ProcPCs
        <4>. QED  BY <1>4, <4>1 DEF Run, ScheduleCheck, CreateIntent, HookPaid, HookReset, HookRow,
           HookEarning, HookConfirm, HookSettle, RefundAdjust, RefundFlag, OweStop
      <3>. QED  BY <3>1, <3>2, <3>3, <3>4
    <2>. QED  BY <2>1, <2>2, <2>3, <2>4, MarkKept
  <1>. QED  BY <1>1, <1>2, <1>3, <1>4

LEMMA BeginMark ==
  ASSUME TypeInv, NEW p \in Procs, NEW b \in Bookings, Begin(p, b),
         MarkOK(b), cut \subseteq cut'
  PROVE  MarkOK(b)'
  <1>1. /\ proc[p].pc = "idle" /\ proc'[p].pc \notin {"mark", "refundall"}
        /\ \A q \in Procs : q # p => proc'[q] = proc[q]
    BY BeginProc
  <1>2. booking'[b].refund = booking[b].refund
    <2>1. booking[b] \in BookingType
      BY DEF TypeInv, PricesOK
    <2>2. \/ booking' = booking
          \/ booking' = [booking EXCEPT ![b].done = TRUE]
          \/ booking' = [booking EXCEPT ![b].stage = "cancelled", ![b].type = "cancelled"]
          \/ booking' = [booking EXCEPT ![b].stage = "failed"]
      BY DEF Begin, Create, Schedule, DeferStop, CustomerCancel, CancelRequest,
             SearchFailed, Deliver
    <2>. QED  BY <2>1, <2>2 DEF TypeInv, PricesOK, BookingType
  <1>3. intent'[b]["trip"].refunded = intent[b]["trip"].refunded
    <2>1. ASSUME NEW k \in Kinds, Deliver(p, b, k)
          PROVE  intent'[b]["trip"].refunded = intent[b]["trip"].refunded
      BY <2>1 DEF Deliver, TypeInv, MoneyOK, IntentType, Kinds
    <2>2. UNCHANGED intent \/ \E k \in Kinds : Deliver(p, b, k)
      BY DEF Begin, Create, Schedule, DeferStop, CustomerCancel, CancelRequest, SearchFailed
    <2>. QED  BY <2>1, <2>2
  <1>. QED  BY <1>1, <1>2, <1>3, MarkKept

LEMMA AloneMark ==
  ASSUME TypeInv, NEW b \in Bookings, Alone(b), MarkOK(b), cut \subseteq cut'
  PROVE  MarkOK(b)'
  <1>0. booking[b] \in BookingType /\ \A k \in Kinds : intent[b][k] \in IntentType
    BY DEF TypeInv, PricesOK, MoneyOK
  <1>1. UNCHANGED proc
    BY DEF Alone, Accept, PayStop, RideCompleted, Charge
  <1>2. booking'[b].refund = booking[b].refund
    <2>1. CASE Accept(b)
      BY <1>0, <2>1 DEF Accept, TypeInv, PricesOK, BookingType
    <2>2. ASSUME NEW stop \in Debts, RideCompleted(b, stop)
          PROVE  booking'[b].refund = booking[b].refund
      <3>. DEFINE total == booking[b].trip + stop
                  d == [booking[b] EXCEPT !.stage = "completed", !.stop = stop,
                                          !.total = total]
      <3>1. booking' = [booking EXCEPT ![b] = d]
        BY <2>2 DEF RideCompleted
      <3>. HIDE DEF total
      <3>2. d.refund = booking[b].refund
        BY <1>0 DEF BookingType
      <3>. HIDE DEF d
      <3>. QED  BY <3>1, <3>2 DEF TypeInv, PricesOK
    <2>. QED  BY <2>1, <2>2 DEF Alone, PayStop, Charge
  <1>3. intent'[b]["trip"].refunded = intent[b]["trip"].refunded
    <2>1. ASSUME NEW k \in Kinds, Charge(b, k)
          PROVE  intent'[b]["trip"].refunded = intent[b]["trip"].refunded
      BY <1>0, <2>1 DEF Charge, TypeInv, MoneyOK, IntentType, Kinds
    <2>2. CASE PayStop(b)
      BY <2>2 DEF PayStop, TypeInv, MoneyOK, Kinds
    <2>. QED  BY <2>1, <2>2 DEF Alone, Accept, RideCompleted
  <1>. QED  BY <1>1, <1>2, <1>3, MarkKept

LEMMA StepMark == TypeInv /\ BornInv /\ MarkInv /\ [Next]_vars => MarkInv'
  <1>. SUFFICES ASSUME TypeInv, BornInv, MarkInv, [Next]_vars, NEW b \in Bookings
                PROVE MarkOK(b)'
    BY DEF MarkInv
  <1>0. MarkOK(b) /\ cut \subseteq cut'
    BY CutGrows DEF MarkInv
  <1>1. ASSUME NEW p \in Procs, Run(p) PROVE MarkOK(b)'
    BY <1>0, <1>1, RunMark, RunElsewhere, MarkCrash, MarkSame
  <1>2. ASSUME NEW p \in Procs, NEW c \in Bookings, Begin(p, c) PROVE MarkOK(b)'
    BY <1>0, <1>2, BeginMark, BeginElsewhere, MarkSame
  <1>3. ASSUME NEW c \in Bookings, Alone(c) PROVE MarkOK(b)'
    BY <1>0, <1>3, AloneMark, AloneElsewhere, MarkSame
  <1>4. CASE UNCHANGED vars
    BY <1>0, <1>4 DEF vars, notes, MarkOK, Refunded, Free, In
  <1>. QED  BY <1>1, <1>2, <1>3, <1>4, NextCases

\* A booking is marked as refunded exactly when Stripe has refunded it, but for
\* the moment between the two calls and for a server that exits there.
THEOREM MarkIsTrue == Spec => []RefundMarkIsTrue
  <1>1. MarkInv => RefundMarkIsTrue
    <2>1. \A b, pc : ~Free(b, {pc}) => \E p \in Working(b) : At(p, pc)
      BY DEF Free, In, Working, At
    <2>. QED  BY <2>1 DEF MarkInv, MarkOK, Refunded, RefundMarkIsTrue
  <1>. QED  BY <1>1, InitType, StepType, InitBorn, StepBorn, InitMark, StepMark, PTL DEF Spec

-----------------------------------------------------------------------------
(* The books of a booking to which nothing happens that the code has no     *)
(* answer to.                                                               *)

Good(b) ==
    /\ b \notin cut \cup raced \cup late \cup whole
    /\ cancels[b] <= 1
    /\ \A k \in Kinds : intent[b][k].sent <= 1

\* The one event of the trip marks it as paid and writes the two rows, in order.
TripOK(b) ==
    LET sent == intent[b]["trip"].sent IN
    /\ One(b, TripPCs)
    /\ sent = 0 =>
          /\ Free(b, TripPCs)
          /\ ~booking[b].paid /\ payments[b] = <<>> /\ earnings[b] = 0
    /\ \A p \in Procs : In(p, b, TripPCs) =>
          /\ proc[p].amount = booking[b].trip /\ earnings[b] = 0
          /\ booking[b].paid <=> proc[p].pc # "paid"
          /\ IF proc[p].pc = "earning" THEN Len(payments[b]) = 1 ELSE payments[b] = <<>>
    /\ sent = 1 /\ Free(b, TripPCs) =>
          booking[b].paid /\ earnings[b] = 1 /\ Len(payments[b]) = 1

\* What is not paid stays open; a ride has a driver; the waiting charge is known,
\* and paid, once the ride is over.
StageOK(b) ==
    LET d == booking[b]
        charge == intent[b]["stop"].amount
    IN  /\ ~d.paid => d.stage \in {"none", "open"}
        /\ d.stage \in {"none", "open"} => ~d.driver
        /\ d.stage \in {"accepted", "completed"} => d.driver
        /\ d.total = IF d.stage = "completed" THEN d.trip + d.stop ELSE d.trip
        /\ d.stage # "completed" => charge = 0
        /\ charge \in {0, d.stop}
        /\ d.stage \in {"cancelled", "failed"} <=> cancels[b] = 1

StopOK(b) ==
    /\ One(b, StopPCs)
    /\ intent[b]["stop"].sent = 0 => Free(b, StopPCs)
    /\ \A p \in Procs : In(p, b, StopPCs) => proc[p].amount = booking[b].total

\* The waiting charge is in the books; the refund is.
StopPaid(b) == intent[b]["stop"].sent = 1 /\ Free(b, StopPCs)
RefundDone(b) == cancels[b] = 1 /\ Free(b, RefundPCs)

JobAmount(b) == IF booking[b].driver THEN Fare - Fee ELSE Fare

\* One refund, of the right amount: without the charge when there is a driver.
RefundOK(b) ==
    /\ One(b, RefundPCs)
    /\ cancels[b] = 0 => Free(b, RefundPCs) /\ Refunded(b) = 0
    /\ \A p \in Procs : In(p, b, RefundPCs) =>
          /\ proc[p].pc # "refundall"
          /\ proc[p].pc \in {"recheck", "refund", "mark"} =>
                (proc[p].scope = "failed" <=> ~booking[b].driver)
          /\ proc[p].pc = "refund" => proc[p].amount = JobAmount(b)
          /\ proc[p].pc \in {"adjust", "flag"} => (proc[p].pc = "adjust" <=> booking[b].driver)
          /\ Refunded(b) = IF proc[p].pc \in {"mark", "adjust", "flag"}
                           THEN JobAmount(b) ELSE 0
    /\ RefundDone(b) => Refunded(b) = JobAmount(b) /\ payments[b] # <<>>
    /\ intent[b]["stop"].refunded = 0

RowOK(b) ==
    /\ StopPaid(b) => payments[b] # <<>>
    /\ payments[b] # <<>> =>
          /\ payments[b][1].refund <=> RefundDone(b)
          /\ RefundDone(b) /\ booking[b].driver => payments[b][1].amount = Fee
          /\ ~RefundDone(b) =>
                payments[b][1].amount = IF StopPaid(b) THEN booking[b].total
                                        ELSE booking[b].trip

BookOK(b) == TripOK(b) /\ StageOK(b) /\ StopOK(b) /\ RefundOK(b) /\ RowOK(b)

BookInv == \A b \in Bookings : Good(b) => BookOK(b)

\* Who is at work on a booking at one of these steps is so before and after.
Still(b, pcs) ==
    \A q \in Procs :
        (proc[q].b = b /\ proc[q].pc \in pcs) \/ (proc'[q].b = b /\ proc'[q].pc \in pcs)
            => proc'[q] = proc[q]

LEMMA TripKept ==
  ASSUME NEW b \in Bookings, TripOK(b), Still(b, TripPCs),
         booking'[b].paid = booking[b].paid, booking'[b].trip = booking[b].trip,
         payments'[b] = payments[b], earnings'[b] = earnings[b],
         intent'[b]["trip"].sent = intent[b]["trip"].sent
  PROVE  TripOK(b)'
  BY DEF TripOK, Still, TripPCs, One, Free, In

LEMMA StageKept ==
  ASSUME NEW b \in Bookings, StageOK(b),
         booking'[b].paid = booking[b].paid, booking'[b].trip = booking[b].trip,
         booking'[b].stage = booking[b].stage, booking'[b].driver = booking[b].driver,
         booking'[b].total = booking[b].total, booking'[b].stop = booking[b].stop,
         cancels'[b] = cancels[b], intent'[b]["stop"].amount = intent[b]["stop"].amount
  PROVE  StageOK(b)'
  BY DEF StageOK

LEMMA StopKept ==
  ASSUME NEW b \in Bookings, StopOK(b), Still(b, StopPCs),
         booking'[b].total = booking[b].total,
         intent'[b]["stop"].sent = intent[b]["stop"].sent
  PROVE  StopOK(b)'
  BY DEF StopOK, Still, StopPCs, One, Free, In

LEMMA FreeKept ==
  ASSUME NEW b \in Bookings
  PROVE  /\ Still(b, TripPCs) => (Free(b, TripPCs)' <=> Free(b, TripPCs))
         /\ Still(b, StopPCs) => (Free(b, StopPCs)' <=> Free(b, StopPCs))
         /\ Still(b, RefundPCs) => (Free(b, RefundPCs)' <=> Free(b, RefundPCs))
  <1>1. Still(b, TripPCs) => (Free(b, TripPCs)' <=> Free(b, TripPCs))
    BY DEF Still, TripPCs, Free, In
  <1>2. Still(b, StopPCs) => (Free(b, StopPCs)' <=> Free(b, StopPCs))
    BY DEF Still, StopPCs, Free, In
  <1>3. Still(b, RefundPCs) => (Free(b, RefundPCs)' <=> Free(b, RefundPCs))
    BY DEF Still, RefundPCs, Free, In
  <1>. QED  BY <1>1, <1>2, <1>3

LEMMA RefundKept ==
  ASSUME NEW b \in Bookings, RefundOK(b), Still(b, RefundPCs),
         booking'[b].driver = booking[b].driver, cancels'[b] = cancels[b],
         payments[b] # <<>> => payments'[b] # <<>>,
         intent'[b]["trip"].refunded = intent[b]["trip"].refunded,
         intent'[b]["stop"].refunded = intent[b]["stop"].refunded
  PROVE  RefundOK(b)'
  <1>1. Free(b, RefundPCs)' <=> Free(b, RefundPCs)
    BY FreeKept
  <1>2. JobAmount(b)' = JobAmount(b) /\ Refunded(b)' = Refunded(b)
    BY DEF JobAmount, Refunded
  <1>3. RefundDone(b)' => RefundDone(b)
    BY <1>1 DEF RefundDone
  <1>4. One(b, RefundPCs)'
    BY DEF RefundOK, Still, RefundPCs, One, In
  <1>5. \A p \in Procs : In(p, b, RefundPCs)' => In(p, b, RefundPCs) /\ proc'[p] = proc[p]
    BY DEF Still, RefundPCs, In
  <1>6. (\A p \in Procs : In(p, b, RefundPCs) =>
          /\ proc[p].pc # "refundall"
          /\ proc[p].pc \in {"recheck", "refund", "mark"} =>
                (proc[p].scope = "failed" <=> ~booking[b].driver)
          /\ proc[p].pc = "refund" => proc[p].amount = JobAmount(b)
          /\ proc[p].pc \in {"adjust", "flag"} => (proc[p].pc = "adjust" <=> booking[b].driver)
          /\ Refunded(b) = IF proc[p].pc \in {"mark", "adjust", "flag"}
                           THEN JobAmount(b) ELSE 0)'
    BY <1>2, <1>5 DEF RefundOK
  <1>7. /\ (cancels[b] = 0 => Free(b, RefundPCs) /\ Refunded(b) = 0)'
        /\ (RefundDone(b) => Refunded(b) = JobAmount(b) /\ payments[b] # <<>>)'
        /\ (intent[b]["stop"].refunded = 0)'
    BY <1>1, <1>2, <1>3 DEF RefundOK
  <1>. QED  BY <1>4, <1>6, <1>7 DEF RefundOK

LEMMA RowKept ==
  ASSUME NEW b \in Bookings, RowOK(b), Still(b, StopPCs), Still(b, RefundPCs),
         booking'[b].driver = booking[b].driver, booking'[b].total = booking[b].total,
         booking'[b].trip = booking[b].trip, cancels'[b] = cancels[b],
         payments'[b] = payments[b],
         intent'[b]["stop"].sent = intent[b]["stop"].sent
  PROVE  RowOK(b)'
  <1>1. (StopPaid(b)' <=> StopPaid(b)) /\ (RefundDone(b)' <=> RefundDone(b))
    BY FreeKept DEF StopPaid, RefundDone
  <1>. QED  BY <1>1 DEF RowOK

\* The parts of a booking and its intents that the books are about.
SameBooks(b) ==
    /\ booking'[b].paid = booking[b].paid /\ booking'[b].trip = booking[b].trip
    /\ booking'[b].stage = booking[b].stage /\ booking'[b].driver = booking[b].driver
    /\ booking'[b].total = booking[b].total /\ booking'[b].stop = booking[b].stop
SameIntents(b) ==
    /\ intent'[b]["stop"].amount = intent[b]["stop"].amount
    /\ intent'[b]["stop"].sent = intent[b]["stop"].sent
    /\ intent'[b]["trip"].sent = intent[b]["trip"].sent
    /\ intent'[b]["trip"].refunded = intent[b]["trip"].refunded
    /\ intent'[b]["stop"].refunded = intent[b]["stop"].refunded
SameRows(b) ==
    payments'[b] = payments[b] /\ earnings'[b] = earnings[b] /\ cancels'[b] = cancels[b]

LEMMA BookKept ==
  ASSUME NEW b \in Bookings, BookOK(b), SameBooks(b), SameIntents(b), SameRows(b),
         Still(b, TripPCs), Still(b, StopPCs), Still(b, RefundPCs)
  PROVE  BookOK(b)'
  <1>. USE DEF SameBooks, SameIntents, SameRows
  <1>1. TripOK(b)'
    BY TripKept DEF BookOK
  <1>2. StageOK(b)'
    BY StageKept DEF BookOK
  <1>3. StopOK(b)'
    BY StopKept DEF BookOK
  <1>4. RefundOK(b)'
    BY RefundKept DEF BookOK
  <1>5. RowOK(b)'
    BY RowKept DEF BookOK
  <1>. QED  BY <1>1, <1>2, <1>3, <1>4, <1>5 DEF BookOK

LEMMA BookSame ==
  ASSUME NEW b \in Bookings, Same(b), BookOK(b)
  PROVE  BookOK(b)'
  <1>1. Still(b, TripPCs) /\ Still(b, StopPCs) /\ Still(b, RefundPCs)
    BY DEF Same, Still
  <1>. QED  BY <1>1, BookKept DEF Same, SameBooks, SameIntents, SameRows

\* What is good was good before.
LEMMA GoodBefore ==
  ASSUME TypeInv, [Next]_vars, NEW b \in Bookings, Good(b)'
  PROVE  Good(b)
  <1>0. TypeInv'
    BY StepType
  <1>1. raced \subseteq raced' /\ late \subseteq late' /\ whole \subseteq whole'
    <2>1. ASSUME NEW p \in Procs, Run(p)
          PROVE  raced \subseteq raced' /\ late \subseteq late' /\ whole \subseteq whole'
      BY <2>1 DEF Run, ScheduleCheck, InsertBooking, CreateIntent, HookPaid, HookReset, HookRow,
           HookEarning, HookConfirm, HookSettle, CancelRecheck, RefundPart, RefundMark,
           RefundAdjust, RefundFlag, RefundMarkFirst, RefundAll, OweStop, Unwritten, notes
    <2>2. ASSUME NEW p \in Procs, NEW c \in Bookings, Begin(p, c)
          PROVE  raced \subseteq raced' /\ late \subseteq late' /\ whole \subseteq whole'
      BY <2>2 DEF Begin, Create, Schedule, DeferStop, CustomerCancel, CancelRequest,
                SearchFailed, Deliver, Cancel, notes
    <2>3. ASSUME NEW c \in Bookings, Alone(c) PROVE UNCHANGED notes
      BY <2>3 DEF Alone, Accept, PayStop, RideCompleted, Charge
    <2>. QED  BY <2>1, <2>2, <2>3, NextCases DEF vars, notes
  <1>2. cancels[b] <= cancels'[b]
    <2>0. cancels[b] \in Nat /\ cancels \in [Bookings -> 0 .. MaxCancels]
      BY BoundsAssumption DEF TypeInv, NotesOK
    <2>1. \/ cancels' = cancels
          \/ \E c \in Bookings : cancels' = [cancels EXCEPT ![c] = @ + 1]
      <3>1. ASSUME NEW p \in Procs, Run(p) PROVE cancels' = cancels
        BY <3>1 DEF Run, ScheduleCheck, InsertBooking, CreateIntent, HookPaid, HookReset, HookRow,
           HookEarning, HookConfirm, HookSettle, CancelRecheck, RefundPart, RefundMark,
           RefundAdjust, RefundFlag, RefundMarkFirst, RefundAll, OweStop, notes
      <3>2. ASSUME NEW p \in Procs, NEW c \in Bookings, Begin(p, c)
            PROVE cancels' = cancels \/ cancels' = [cancels EXCEPT ![c] = @ + 1]
        BY <3>2 DEF Begin, Create, Schedule, DeferStop, CustomerCancel, CancelRequest,
                SearchFailed, Deliver, Cancel, notes
      <3>3. ASSUME NEW c \in Bookings, Alone(c) PROVE cancels' = cancels
        BY <3>3 DEF Alone, Accept, PayStop, RideCompleted, Charge, notes
      <3>. QED  BY <3>1, <3>2, <3>3, NextCases DEF vars, notes
    <2>. QED  BY <2>0, <2>1
  <1>3. ASSUME NEW k \in Kinds PROVE intent[b][k].sent <= intent'[b][k].sent
    <2>0. /\ \A c \in Bookings, l \in Kinds : intent[c][l] \in IntentType
          /\ intent[b][k].sent \in Nat
      BY DEF TypeInv, MoneyOK, IntentType
    <2>1. ASSUME NEW p \in Procs, Run(p) PROVE intent'[b][k].sent = intent[b][k].sent
      <3>1. CASE CreateIntent(p)
        BY <2>0, <3>1 DEF CreateIntent, TypeInv, MoneyOK, IntentType
      <3>2. CASE RefundPart(p) \/ RefundAll(p)
        <4>1. \/ intent' = intent
              \/ \E amount : intent' = [intent EXCEPT ![proc[p].b]["trip"].refunded = @ + amount]
          BY <3>2 DEF RefundPart, RefundAll, Refund
        <4>2. ASSUME NEW amount, NEW c,
                     intent' = [intent EXCEPT ![c]["trip"].refunded = @ + amount]
              PROVE  intent'[b][k].sent = intent[b][k].sent
          <5>. DEFINE sum == intent[c]["trip"].refunded + amount
                      i == [intent[c]["trip"] EXCEPT !.refunded = sum]
          <5>1. intent' = [intent EXCEPT ![c]["trip"] = i]
            BY <4>2
          <5>. HIDE DEF sum
          <5>2. c = b /\ k = "trip" => i.sent = intent[b][k].sent
            BY <2>0 DEF IntentType
          <5>. HIDE DEF i
          <5>. QED  BY <5>1, <5>2 DEF TypeInv, MoneyOK
        <4>. QED  BY <4>1, <4>2
      <3>3. CASE ~(CreateIntent(p) \/ RefundPart(p) \/ RefundAll(p))
        <4>1. intent' = intent
          BY <2>1, <3>3 DEF Run, ScheduleCheck, InsertBooking, HookPaid, HookReset, HookRow,
           HookEarning, HookConfirm, HookSettle, CancelRecheck, RefundMark,
           RefundAdjust, RefundFlag, RefundMarkFirst, OweStop
        <4>. QED  BY <4>1
      <3>. QED  BY <3>1, <3>2, <3>3
    <2>2. ASSUME NEW p \in Procs, NEW c \in Bookings, Begin(p, c)
          PROVE  intent[b][k].sent <= intent'[b][k].sent
      <3>1. ASSUME NEW l \in Kinds, Deliver(p, c, l)
            PROVE  intent[b][k].sent <= intent'[b][k].sent
        <4>. DEFINE sent == intent[c][l].sent + 1
                    i == [intent[c][l] EXCEPT !.sent = sent]
        <4>1. intent' = [intent EXCEPT ![c][l] = i]
          BY <3>1 DEF Deliver
        <4>. HIDE DEF sent
        <4>2. i.sent = sent
          BY <2>0 DEF IntentType
        <4>. HIDE DEF i
        <4>3. intent'[b][k] = IF b = c /\ k = l THEN i ELSE intent[b][k]
          BY <4>1 DEF TypeInv, MoneyOK
        <4>. QED  BY <2>0, <4>2, <4>3 DEF sent
      <3>2. intent' = intent \/ \E l \in Kinds : Deliver(p, c, l)
        BY <2>2 DEF Begin, Create, Schedule, DeferStop, CustomerCancel, CancelRequest,
                    SearchFailed
      <3>. QED  BY <2>0, <3>1, <3>2
    <2>3. ASSUME NEW c \in Bookings, Alone(c) PROVE intent'[b][k].sent = intent[b][k].sent
      <3>1. ASSUME NEW l \in Kinds, Charge(c, l) PROVE intent'[b][k].sent = intent[b][k].sent
        BY <2>0, <3>1 DEF Charge, TypeInv, MoneyOK, IntentType
      <3>2. CASE PayStop(c)
        <4>. DEFINE amount == booking[c].stop
                    i == [intent[c]["stop"] EXCEPT !.amount = amount]
        <4>1. intent' = [intent EXCEPT ![c]["stop"] = i] /\ "stop" \in Kinds
          BY <3>2 DEF PayStop, Kinds
        <4>. HIDE DEF amount
        <4>2. i.sent = intent[c]["stop"].sent
          BY <2>0, <4>1 DEF IntentType
        <4>. HIDE DEF i
        <4>. QED  BY <4>1, <4>2 DEF TypeInv, MoneyOK
      <3>3. CASE intent' = intent
        BY <3>3
      <3>. QED  BY <2>3, <3>1, <3>2, <3>3 DEF Alone, Accept, RideCompleted
    <2>. QED  BY <2>0, <2>1, <2>2, <2>3, NextCases DEF vars
  <1>4. cancels[b] \in Nat /\ cancels'[b] \in Nat
        /\ \A k \in Kinds : intent[b][k].sent \in Nat /\ intent'[b][k].sent \in Nat
    BY <1>0, BoundsAssumption DEF TypeInv, NotesOK, MoneyOK, IntentType
  <1>. QED  BY <1>1, <1>2, <1>3, <1>4, CutGrows DEF Good

-----------------------------------------------------------------------------
(* What each step does to the books of its own booking.                     *)

LEMMA GotoProc ==
  ASSUME ProcsOK, NEW p \in Procs, NEW pc, Goto(p, pc)
  PROVE  /\ \A q \in Procs : q # p => proc'[q] = proc[q]
         /\ proc'[p].pc = pc /\ proc'[p].b = proc[p].b
         /\ proc'[p].amount = proc[p].amount /\ proc'[p].scope = proc[p].scope
         /\ proc'[p].type = proc[p].type
  BY DEF Goto, ProcsOK, ProcOK, ProcType

LEMMA EndProc ==
  ASSUME ProcsOK, NEW p \in Procs, End(p)
  PROVE  /\ \A q \in Procs : q # p => proc'[q] = proc[q]
         /\ proc'[p].pc = "idle" /\ proc'[p].b = None
  BY DEF End, ProcsOK, Idle

LEMMA FieldSet ==
  ASSUME TypeInv, NEW b \in Bookings
  PROVE  /\ booking' = booking \/ booking' = [booking EXCEPT ![b].done = TRUE]
              \/ booking' = [booking EXCEPT ![b].refund = TRUE] => SameBooks(b)
         /\ booking' = [booking EXCEPT ![b].paid = TRUE] =>
              /\ booking'[b].paid = TRUE /\ booking'[b].trip = booking[b].trip
              /\ booking'[b].stage = booking[b].stage /\ booking'[b].driver = booking[b].driver
              /\ booking'[b].total = booking[b].total /\ booking'[b].stop = booking[b].stop
  <1>1. booking[b] \in BookingType
    BY DEF TypeInv, PricesOK
  <1>. QED  BY <1>1 DEF SameBooks, TypeInv, PricesOK, BookingType

\* A step at places the books do not depend on.
LEMMA ElsewhereBook ==
  ASSUME TypeInv, NEW p \in Procs, NEW b \in Bookings, BookOK(b),
         ScheduleCheck(p) \/ CreateIntent(p) \/ OweStop(p)
  PROVE  proc[p].b = b => BookOK(b)'
  <1>. SUFFICES ASSUME proc[p].b = b PROVE BookOK(b)'
    OBVIOUS
  <1>1. /\ \A q \in Procs : q # p => proc'[q] = proc[q]
        /\ proc[p].pc \in {"check", "intent", "owe"}
        /\ proc'[p].pc \in {"idle", "insert"}
    BY GotoProc, EndProc DEF ScheduleCheck, CreateIntent, OweStop, At, TypeInv
  <1>2. Still(b, TripPCs) /\ Still(b, StopPCs) /\ Still(b, RefundPCs)
    BY <1>1 DEF Still, TripPCs, StopPCs, RefundPCs
  <1>3. booking' = booking /\ payments' = payments /\ earnings' = earnings /\ cancels' = cancels
    BY DEF ScheduleCheck, CreateIntent, OweStop, notes
  <1>4. SameIntents(b)
    <2>1. CASE CreateIntent(p)
      BY <2>1 DEF CreateIntent, SameIntents, TypeInv, MoneyOK, IntentType, Kinds
    <2>. QED  BY <2>1 DEF ScheduleCheck, OweStop, SameIntents
  <1>. QED  BY <1>2, <1>3, <1>4, BookKept DEF SameBooks, SameRows

LEMMA HookPaidBook ==
  ASSUME TypeInv, NEW p \in Procs, NEW b \in Bookings, b = proc[p].b,
         BookOK(b), Good(b)', HookPaid(p)
  PROVE  BookOK(b)'
  <1>. DEFINE pc == IF proc[p].type = "schedule" THEN "row" ELSE "reset"
  <1>1. /\ \A q \in Procs : q # p => proc'[q] = proc[q]
        /\ proc[p].pc = "paid" /\ proc'[p].pc \in {"row", "reset"}
        /\ proc'[p].b = b /\ proc'[p].amount = proc[p].amount
    <2>1. Goto(p, pc) /\ proc[p].pc = "paid" /\ pc \in {"row", "reset"}
      BY DEF HookPaid, At
    <2>. HIDE DEF pc
    <2>. QED  BY <2>1, GotoProc DEF TypeInv
  <1>2. /\ booking'[b].paid = TRUE /\ booking'[b].trip = booking[b].trip
        /\ booking'[b].stage = booking[b].stage /\ booking'[b].driver = booking[b].driver
        /\ booking'[b].total = booking[b].total /\ booking'[b].stop = booking[b].stop
    BY FieldSet DEF HookPaid
  <1>3. intent' = intent /\ payments' = payments /\ earnings' = earnings /\ cancels' = cancels
    BY DEF HookPaid
  <1>4. Still(b, StopPCs) /\ Still(b, RefundPCs)
    BY <1>1 DEF Still, StopPCs, RefundPCs
  <1>5. TripOK(b)'
    BY <1>1, <1>2, <1>3 DEF BookOK, TripOK, TripPCs, One, Free, In
  <1>6. StageOK(b)'
    BY <1>2, <1>3 DEF BookOK, StageOK
  <1>7. StopOK(b)'
    BY <1>2, <1>3, <1>4, StopKept DEF BookOK
  <1>8. RefundOK(b)'
    BY <1>2, <1>3, <1>4, RefundKept DEF BookOK
  <1>9. RowOK(b)'
    BY <1>2, <1>3, <1>4, RowKept DEF BookOK
  <1>. QED  BY <1>5, <1>6, <1>7, <1>8, <1>9 DEF BookOK

LEMMA HookResetBook ==
  ASSUME TypeInv, NEW p \in Procs, NEW b \in Bookings, b = proc[p].b,
         BookOK(b), HookReset(p)
  PROVE  BookOK(b)'
  <1>1. /\ \A q \in Procs : q # p => proc'[q] = proc[q]
        /\ proc[p].pc = "reset" /\ proc'[p].pc = "row"
        /\ proc'[p].b = b /\ proc'[p].amount = proc[p].amount
    BY GotoProc DEF HookReset, At, TypeInv
  <1>2. UNCHANGED <<booking, intent, payments, earnings, cancels>>
    BY DEF HookReset
  <1>3. Still(b, StopPCs) /\ Still(b, RefundPCs)
    BY <1>1 DEF Still, StopPCs, RefundPCs
  <1>4. TripOK(b)'
    BY <1>1, <1>2 DEF BookOK, TripOK, TripPCs, One, Free, In
  <1>5. StageOK(b)' /\ StopOK(b)' /\ RefundOK(b)' /\ RowOK(b)'
    BY <1>2, <1>3, StageKept, StopKept, RefundKept, RowKept DEF BookOK
  <1>. QED  BY <1>4, <1>5 DEF BookOK

\* The first row of a booking has the price of the trip, is not refunded, and is
\* the only one.
LEMMA HookRowBook ==
  ASSUME TypeInv, NEW p \in Procs, NEW b \in Bookings, b = proc[p].b,
         BookOK(b), HookRow(p)
  PROVE  BookOK(b)'
  <1>1. /\ \A q \in Procs : q # p => proc'[q] = proc[q]
        /\ proc[p].pc = "row" /\ proc'[p].pc = "earning"
        /\ proc'[p].b = b /\ proc'[p].amount = proc[p].amount
    BY GotoProc DEF HookRow, At, TypeInv
  <1>2. UNCHANGED <<booking, intent, earnings, cancels>>
    BY DEF HookRow, notes
  <1>3. Still(b, StopPCs) /\ Still(b, RefundPCs)
    BY <1>1 DEF Still, StopPCs, RefundPCs
  <1>4. payments[b] = <<>> /\ proc[p].amount = booking[b].trip
    BY <1>1 DEF BookOK, TripOK, TripPCs, In
  <1>5. /\ payments'[b] # <<>> /\ Len(payments'[b]) = 1
        /\ payments'[b][1] = [amount |-> proc[p].amount, refund |-> FALSE]
    <2>. DEFINE row == [amount |-> proc[p].amount, refund |-> FALSE]
    <2>1. payments'[b] = Append(<<>>, row)
      BY <1>4 DEF HookRow, TypeInv, MoneyOK
    <2>. HIDE DEF row
    <2>2. Append(<<>>, row) # <<>> /\ Len(Append(<<>>, row)) = 1 /\ Append(<<>>, row)[1] = row
      OBVIOUS
    <2>. QED  BY <2>1, <2>2 DEF row
  <1>6. TripOK(b)'
    BY <1>1, <1>2, <1>5 DEF BookOK, TripOK, TripPCs, One, Free, In
  <1>7. StageOK(b)' /\ StopOK(b)' /\ RefundOK(b)'
    BY <1>2, <1>3, <1>5, StageKept, StopKept, RefundKept DEF BookOK
  <1>8. RowOK(b)'
    <2>1. ~RefundDone(b) /\ ~StopPaid(b)
      BY <1>4 DEF BookOK, RefundOK, RowOK
    <2>2. ~RefundDone(b)' /\ ~StopPaid(b)'
      BY <1>2, <1>3, <2>1, FreeKept DEF RefundDone, StopPaid
    <2>3. payments'[b][1].refund = FALSE /\ payments'[b][1].amount = booking[b].trip
      BY <1>4, <1>5
    <2>. QED  BY <1>2, <2>2, <2>3 DEF RowOK
  <1>. QED  BY <1>6, <1>7, <1>8 DEF BookOK

LEMMA HookEarningBook ==
  ASSUME TypeInv, NEW p \in Procs, NEW b \in Bookings, b = proc[p].b,
         BookOK(b), HookEarning(p)
  PROVE  BookOK(b)'
  <1>1. /\ \A q \in Procs : q # p => proc'[q] = proc[q]
        /\ proc[p].pc = "earning" /\ proc'[p].pc = "idle" /\ proc'[p].b # b
    BY EndProc, NoneAssumption DEF HookEarning, At, TypeInv
  <1>2. UNCHANGED <<booking, intent, payments, cancels>>
    BY DEF HookEarning, notes
  <1>3. Still(b, StopPCs) /\ Still(b, RefundPCs)
    BY <1>1 DEF Still, StopPCs, RefundPCs
  <1>4. /\ earnings[b] = 0 /\ booking[b].paid /\ Len(payments[b]) = 1
        /\ intent[b]["trip"].sent # 0
    BY <1>1 DEF BookOK, TripOK, TripPCs, In, Free
  <1>5. earnings'[b] = 1
    BY <1>4 DEF HookEarning, TypeInv, EarningsOK
  <1>6. TripOK(b)'
    <2>1. \A q \in Procs : ~(proc'[q].b = b /\ proc'[q].pc \in TripPCs)
      BY <1>1 DEF BookOK, TripOK, TripPCs, One, In
    <2>. QED  BY <1>2, <1>4, <1>5, <2>1 DEF TripOK, TripPCs, One, Free, In
  <1>7. StageOK(b)' /\ StopOK(b)' /\ RefundOK(b)' /\ RowOK(b)'
    BY <1>2, <1>3, StageKept, StopKept, RefundKept, RowKept DEF BookOK
  <1>. QED  BY <1>6, <1>7 DEF BookOK

\* The waiting charge is paid: the one row takes the total of the ride.
LEMMA HookConfirmBook ==
  ASSUME TypeInv, NEW p \in Procs, NEW b \in Bookings, b = proc[p].b,
         BookOK(b), HookConfirm(p)
  PROVE  BookOK(b)'
  <1>1. /\ \A q \in Procs : q # p => proc'[q] = proc[q]
        /\ proc[p].pc = "confirm" /\ proc'[p].pc = "settle"
        /\ proc'[p].b = b /\ proc'[p].amount = proc[p].amount
    BY GotoProc DEF HookConfirm, At, TypeInv
  <1>2. UNCHANGED <<intent, payments, earnings, cancels>> /\ SameBooks(b)
    BY FieldSet DEF HookConfirm, notes
  <1>3. Still(b, TripPCs) /\ Still(b, RefundPCs)
    BY <1>1 DEF Still, TripPCs, RefundPCs
  <1>4. StopOK(b)'
    BY <1>1, <1>2 DEF BookOK, StopOK, StopPCs, One, Free, In, SameBooks
  <1>5. StageOK(b)' /\ TripOK(b)' /\ RefundOK(b)'
    BY <1>2, <1>3, StageKept, TripKept, RefundKept DEF BookOK, SameBooks
  <1>6. RowOK(b)'
    <2>1. (StopPaid(b)' <=> StopPaid(b)) /\ (RefundDone(b)' <=> RefundDone(b))
      <3>1. ~Free(b, StopPCs) /\ ~Free(b, StopPCs)'
        BY <1>1 DEF Free, In, StopPCs
      <3>. QED  BY <1>2, <1>3, <3>1, FreeKept DEF StopPaid, RefundDone
    <2>. QED  BY <1>2, <2>1 DEF BookOK, RowOK, SameBooks
  <1>. QED  BY <1>4, <1>5, <1>6 DEF BookOK

LEMMA HookSettleBook ==
  ASSUME TypeInv, NEW p \in Procs, NEW b \in Bookings, b = proc[p].b,
         BornOK(b), BookOK(b), Good(b), Good(b)', HookSettle(p)
  PROVE  BookOK(b)'
  <1>1. /\ \A q \in Procs : q # p => proc'[q] = proc[q]
        /\ proc[p].pc = "settle" /\ proc'[p].pc = "idle" /\ proc'[p].b # b
    BY EndProc, NoneAssumption DEF HookSettle, At, TypeInv
  <1>2. UNCHANGED <<booking, intent, earnings, cancels>>
    BY DEF HookSettle
  <1>3. Still(b, TripPCs) /\ Still(b, RefundPCs)
    BY <1>1 DEF Still, TripPCs, RefundPCs
  <1>4. payments[b] # <<>> /\ proc[p].amount = booking[b].total
    BY <1>1 DEF HookSettle, Unwritten, Good, BookOK, StopOK, StopPCs, In
  <1>5. /\ payments'[b] # <<>> /\ Len(payments'[b]) = Len(payments[b])
        /\ payments'[b][1].amount = booking[b].total
        /\ payments'[b][1].refund = payments[b][1].refund
    <2>. DEFINE rows == payments[b]
                amount == proc[p].amount
    <2>1. rows \in Seq(RowType) /\ amount \in Amounts /\ FALSE \in BOOLEAN
      BY DEF TypeInv, MoneyOK, ProcsOK, ProcOK, ProcType, Amounts
    <2>2. payments'[b] = Rewrite(rows, amount, FALSE)
      BY DEF HookSettle, TypeInv, MoneyOK
    <2>. HIDE DEF rows, amount
    <2>3. /\ Rewrite(rows, amount, FALSE) \in Seq(RowType)
          /\ Len(Rewrite(rows, amount, FALSE)) = Len(rows)
          /\ rows # <<>> =>
               /\ rows[1] \in RowType
               /\ Rewrite(rows, amount, FALSE)[1].amount = amount
               /\ Rewrite(rows, amount, FALSE)[1].refund <=> FALSE \/ rows[1].refund
      BY <2>1, RewriteType
    <2>4. rows # <<>>
      BY <1>4 DEF rows
    <2>5. Len(rows) # 0
      BY <2>1, <2>4
    <2>6. rows[1].refund \in BOOLEAN /\ Rewrite(rows, amount, FALSE)[1].refund \in BOOLEAN
      <3>1. \A t \in Seq(RowType) : Len(t) # 0 => t[1] \in RowType
        OBVIOUS
      <3>2. rows[1] \in RowType /\ Rewrite(rows, amount, FALSE)[1] \in RowType
        BY <2>3, <2>4, <2>5, <3>1
      <3>3. \A t \in RowType : t.refund \in BOOLEAN
        BY DEF RowType
      <3>. QED  BY <3>2, <3>3
    <2>7. Rewrite(rows, amount, FALSE) # <<>>
      BY <2>3, <2>5
    <2>8. /\ Rewrite(rows, amount, FALSE)[1].amount = amount
          /\ Rewrite(rows, amount, FALSE)[1].refund = rows[1].refund
      BY <2>3, <2>4, <2>6
    <2>9. amount = booking[b].total
      BY <1>4 DEF amount
    <2>10. /\ payments'[b] # <<>> /\ Len(payments'[b]) = Len(rows)
           /\ payments'[b][1].amount = booking[b].total
           /\ payments'[b][1].refund = rows[1].refund
      BY <2>2, <2>3, <2>7, <2>8, <2>9
    <2>. QED  BY <2>10 DEF rows
  <1>6. TripOK(b)'
    BY <1>1, <1>2, <1>3, <1>4, <1>5 DEF BookOK, TripOK, Still, TripPCs, One, Free, In
  <1>7. StageOK(b)' /\ RefundOK(b)'
    BY <1>2, <1>3, <1>5, StageKept, RefundKept DEF BookOK
  <1>8. Free(b, StopPCs)'
    BY <1>1 DEF BookOK, StopOK, StopPCs, One, Free, In
  <1>9. StopOK(b)'
    BY <1>8 DEF StopOK, StopPCs, One, Free, In
  <1>10. intent[b]["stop"].sent = 1 /\ cancels[b] # 1
    <2>1. intent[b]["stop"].sent # 0
      BY <1>1 DEF BookOK, StopOK, StopPCs, Free, In
    <2>2. intent[b]["stop"].sent \in Nat /\ intent[b]["stop"].sent <= 1
      BY DEF TypeInv, MoneyOK, IntentType, Kinds, Good
    <2>3. intent[b]["stop"].amount # 0
      BY <2>1 DEF BornOK, IntentOK, Kinds
    <2>. QED  BY <2>1, <2>2, <2>3 DEF BookOK, StageOK
  <1>11. RowOK(b)'
    <2>1. StopPaid(b)' /\ ~RefundDone(b) /\ ~RefundDone(b)'
      BY <1>2, <1>8, <1>10 DEF StopPaid, RefundDone
    <2>. QED  BY <1>2, <1>4, <1>5, <2>1 DEF BookOK, RowOK
  <1>. QED  BY <1>6, <1>7, <1>9, <1>11 DEF BookOK

\* The refund that is asked for: the fare, less the charge when there is a driver.
LEMMA RefundJobIs ==
  ASSUME TypeInv, NEW b \in Bookings, booking[b].stage # "none",
         NEW scope \in {"customer", "failed"}
  PROVE  LET job == RefundJob(b, scope)
             driven == scope = "customer" /\ booking[b].driver
         IN  /\ job.pc = IF driven \/ scope = "failed" THEN "refund" ELSE "markfirst"
             /\ job.amount = IF driven THEN Fare - Fee ELSE Fare
             /\ job.b = b /\ job.scope = scope
  <1>1. booking[b].trip - booking[b].pending = Fare
    BY AmountsAssumption DEF TypeInv, PricesOK, BookingType, Debts
  <1>. DEFINE driven == scope = "customer" /\ booking[b].driver
              pc == IF driven \/ scope = "failed" THEN "refund" ELSE "markfirst"
              amount == IF driven THEN Fare - Fee ELSE Fare
              funded == booking[b].paid
  <1>2. RefundJob(b, scope) = [Idle EXCEPT !.pc = pc, !.b = b, !.scope = scope,
                                           !.funded = funded, !.amount = amount]
    BY <1>1 DEF RefundJob
  <1>. HIDE DEF pc, amount, funded, driven
  <1>3. /\ RefundJob(b, scope).pc = pc /\ RefundJob(b, scope).amount = amount
        /\ RefundJob(b, scope).b = b /\ RefundJob(b, scope).scope = scope
    BY <1>2 DEF Idle
  <1>. QED  BY <1>3 DEF pc, amount, driven

\* Going on with a refund.
LEMMA RefundStep ==
  ASSUME TypeInv, NEW p \in Procs, NEW b \in Bookings, b = proc[p].b,
         BookOK(b), Good(b), proc[p].pc \in RefundPCs,
         \A q \in Procs : q # p => proc'[q] = proc[q],
         proc'[p].b = b, proc'[p].pc \in RefundPCs \ {"refundall"},
         SameBooks(b), SameRows(b),
         intent'[b]["stop"] = intent[b]["stop"],
         intent'[b]["trip"].sent = intent[b]["trip"].sent,
         proc'[p].pc \in {"recheck", "refund", "mark"} =>
            (proc'[p].scope = "failed" <=> ~booking[b].driver),
         proc'[p].pc = "refund" => proc'[p].amount = JobAmount(b),
         proc'[p].pc \in {"adjust", "flag"} => (proc'[p].pc = "adjust" <=> booking[b].driver),
         intent'[b]["trip"].refunded = IF proc'[p].pc \in {"mark", "adjust", "flag"}
                                       THEN JobAmount(b) ELSE 0
  PROVE  BookOK(b)'
  <1>1. Still(b, TripPCs) /\ Still(b, StopPCs)
    BY DEF Still, TripPCs, StopPCs, RefundPCs
  <1>2. TripOK(b)' /\ StageOK(b)' /\ StopOK(b)'
    BY <1>1, TripKept, StageKept, StopKept DEF BookOK, SameBooks, SameRows
  <1>3. JobAmount(b)' = JobAmount(b)
    BY DEF JobAmount, SameBooks
  <1>4. \A q \in Procs : proc'[q].b = b /\ proc'[q].pc \in RefundPCs => q = p
    BY DEF BookOK, RefundOK, RefundPCs, One, In
  <1>5. cancels[b] # 0
    BY DEF BookOK, RefundOK, RefundPCs, Free, In
  <1>6. ~RefundDone(b) /\ ~RefundDone(b)'
    BY DEF RefundDone, RefundPCs, Free, In
  <1>7. RefundOK(b)'
    <2>1. One(b, RefundPCs)'
      BY <1>4 DEF RefundPCs, One, In
    <2>2. (\A q \in Procs : In(q, b, RefundPCs) =>
          /\ proc[q].pc # "refundall"
          /\ proc[q].pc \in {"recheck", "refund", "mark"} =>
                (proc[q].scope = "failed" <=> ~booking[b].driver)
          /\ proc[q].pc = "refund" => proc[q].amount = JobAmount(b)
          /\ proc[q].pc \in {"adjust", "flag"} => (proc[q].pc = "adjust" <=> booking[b].driver)
          /\ Refunded(b) = IF proc[q].pc \in {"mark", "adjust", "flag"}
                           THEN JobAmount(b) ELSE 0)'
      BY <1>3, <1>4 DEF RefundPCs, In, Refunded, SameBooks
    <2>3. intent[b]["stop"].refunded = 0
      BY DEF BookOK, RefundOK
    <2>. QED  BY <1>5, <1>6, <2>1, <2>2, <2>3 DEF RefundOK, SameRows
  <1>8. RowOK(b)'
    <2>1. StopPaid(b)' <=> StopPaid(b)
      BY <1>1, FreeKept DEF StopPaid
    <2>. QED  BY <1>6, <2>1 DEF BookOK, RowOK, SameBooks, SameRows
  <1>. QED  BY <1>2, <1>7, <1>8 DEF BookOK

LEMMA RecheckBook ==
  ASSUME TypeInv, NEW p \in Procs, NEW b \in Bookings, b = proc[p].b,
         BookOK(b), Good(b), CancelRecheck(p)
  PROVE  BookOK(b)'
  <1>. DEFINE scope == proc[p].scope
              r == RefundJob(b, scope)
  <1>1. /\ proc[p].pc = "recheck" /\ scope \in {"customer", "failed"}
        /\ booking[b].stage # "none" /\ proc' = [proc EXCEPT ![p] = r]
    BY DEF CancelRecheck, TypeInv, RecheckOK, ProcsOK, ProcOK, ProcType, At
  <1>2. (scope = "failed" <=> ~booking[b].driver) /\ Refunded(b) = 0
    BY <1>1 DEF BookOK, RefundOK, RefundPCs, In
  <1>3. r.pc = "refund" /\ r.amount = JobAmount(b) /\ r.b = b /\ r.scope = scope
    BY <1>1, <1>2, RefundJobIs DEF JobAmount
  <1>. HIDE DEF r
  <1>4. /\ \A q \in Procs : q # p => proc'[q] = proc[q]
        /\ proc'[p] = r
    BY <1>1 DEF TypeInv, ProcsOK
  <1>5. UNCHANGED <<booking, intent, payments, earnings, cancels>>
    BY DEF CancelRecheck, notes
  <1>. QED  BY <1>1, <1>2, <1>3, <1>4, <1>5, RefundStep
            DEF RefundPCs, SameBooks, SameRows, Refunded

LEMMA RefundPartBook ==
  ASSUME TypeInv, NEW p \in Procs, NEW b \in Bookings, b = proc[p].b,
         BookOK(b), Good(b), RefundPart(p), ~Crash
  PROVE  BookOK(b)'
  <1>1. /\ proc[p].pc = "refund" /\ Goto(p, "mark")
        /\ intent' = [intent EXCEPT ![b]["trip"].refunded = @ + proc[p].amount]
        /\ UNCHANGED <<booking, payments, earnings, cancels>>
    BY DEF RefundPart, Refund, Crash, At
  <1>2. /\ \A q \in Procs : q # p => proc'[q] = proc[q]
        /\ proc'[p].pc = "mark" /\ proc'[p].b = b /\ proc'[p].scope = proc[p].scope
    BY <1>1, GotoProc DEF TypeInv
  <1>3. /\ Refunded(b) = 0 /\ proc[p].amount = JobAmount(b)
        /\ (proc[p].scope = "failed" <=> ~booking[b].driver)
    BY <1>1 DEF BookOK, RefundOK, RefundPCs, In
  <1>4. /\ intent'[b]["stop"] = intent[b]["stop"]
        /\ intent'[b]["trip"].sent = intent[b]["trip"].sent
        /\ intent'[b]["trip"].refunded = JobAmount(b)
    <2>. DEFINE sum == intent[b]["trip"].refunded + proc[p].amount
                i == [intent[b]["trip"] EXCEPT !.refunded = sum]
    <2>1. intent' = [intent EXCEPT ![b]["trip"] = i] /\ intent[b]["trip"] \in IntentType
      BY <1>1 DEF TypeInv, MoneyOK, Kinds
    <2>2. sum = JobAmount(b)
      BY <1>3, AmountsAssumption DEF Refunded, JobAmount
    <2>. HIDE DEF sum
    <2>3. i.refunded = sum /\ i.sent = intent[b]["trip"].sent
      BY <2>1 DEF IntentType
    <2>. HIDE DEF i
    <2>4. intent'[b]["stop"] = intent[b]["stop"] /\ intent'[b]["trip"] = i
      BY <2>1 DEF TypeInv, MoneyOK, Kinds
    <2>. QED  BY <2>2, <2>3, <2>4
  <1>. QED  BY <1>1, <1>2, <1>3, <1>4, RefundStep DEF RefundPCs, SameBooks, SameRows

LEMMA RefundMarkBook ==
  ASSUME TypeInv, NEW p \in Procs, NEW b \in Bookings, b = proc[p].b,
         BookOK(b), Good(b), RefundMark(p)
  PROVE  BookOK(b)'
  <1>. DEFINE pc == IF proc[p].scope = "failed" THEN "flag" ELSE "adjust"
  <1>1. proc[p].pc = "mark" /\ Goto(p, pc)
    BY DEF RefundMark, At
  <1>2. /\ Refunded(b) = JobAmount(b)
        /\ (proc[p].scope = "failed" <=> ~booking[b].driver)
    BY <1>1 DEF BookOK, RefundOK, RefundPCs, In
  <1>3. pc \in {"flag", "adjust"} /\ (pc = "adjust" <=> booking[b].driver)
    BY <1>2 DEF TypeInv, PricesOK, BookingType
  <1>. HIDE DEF pc
  <1>4. /\ \A q \in Procs : q # p => proc'[q] = proc[q]
        /\ proc'[p].pc = pc /\ proc'[p].b = b
    BY <1>1, GotoProc DEF TypeInv
  <1>5. UNCHANGED <<intent, payments, earnings, cancels>> /\ SameBooks(b)
    BY FieldSet DEF RefundMark, notes
  <1>. QED  BY <1>1, <1>2, <1>3, <1>4, <1>5, RefundStep DEF RefundPCs, SameRows, Refunded

\* The end of a refund: the first row says it was refunded, and with a driver it
\* has the charge.
LEMMA RefundEndBook ==
  ASSUME TypeInv, NEW p \in Procs, NEW b \in Bookings, b = proc[p].b,
         BookOK(b), Good(b), Good(b)', RefundAdjust(p) \/ RefundFlag(p)
  PROVE  BookOK(b)'
  <1>1. /\ \A q \in Procs : q # p => proc'[q] = proc[q]
        /\ proc[p].pc \in {"adjust", "flag"} /\ proc'[p].pc = "idle" /\ proc'[p].b # b
        /\ proc[p].pc = "adjust" <=> RefundAdjust(p)
    BY EndProc, NoneAssumption DEF RefundAdjust, RefundFlag, At, TypeInv
  <1>2. UNCHANGED <<booking, intent, earnings, cancels>>
    BY DEF RefundAdjust, RefundFlag
  <1>3. Still(b, TripPCs) /\ Still(b, StopPCs)
    BY <1>1 DEF Still, TripPCs, StopPCs
  <1>4. /\ Refunded(b) = JobAmount(b) /\ (proc[p].pc = "adjust" <=> booking[b].driver)
        /\ cancels[b] # 0
    BY <1>1 DEF BookOK, RefundOK, RefundPCs, In, Free
  <1>5. payments[b] # <<>>
    BY DEF RefundAdjust, RefundFlag, Unwritten, Good
  <1>6. /\ payments'[b] # <<>> /\ Len(payments'[b]) = Len(payments[b])
        /\ payments'[b][1].refund
        /\ RefundAdjust(p) => payments'[b][1].amount = Fee
    <2>. DEFINE rows == payments[b]
                amount == IF RefundAdjust(p) THEN Fee ELSE rows[1].amount
    <2>1. rows \in Seq(RowType) /\ rows # <<>> /\ TRUE \in BOOLEAN
      BY <1>5 DEF TypeInv, MoneyOK
    <2>2. payments'[b] = Rewrite(rows, amount, TRUE)
      BY <1>5 DEF RefundAdjust, RefundFlag, TypeInv, MoneyOK
    <2>3. amount \in Amounts
      <3>1. \A t \in Seq(RowType) : t # <<>> => t[1] \in RowType
        OBVIOUS
      <3>2. rows[1] \in RowType
        BY <2>1, <3>1
      <3>3. rows[1].amount \in Amounts /\ Fee \in Amounts
        BY <3>2, AmountsAssumption DEF RowType, Amounts, Charges
      <3>. QED  BY <3>3
    <2>4. RefundAdjust(p) => amount = Fee
      OBVIOUS
    <2>. HIDE DEF rows, amount
    <2>5. /\ Rewrite(rows, amount, TRUE) \in Seq(RowType)
          /\ Len(Rewrite(rows, amount, TRUE)) = Len(rows)
          /\ Rewrite(rows, amount, TRUE)[1].amount = amount
          /\ Rewrite(rows, amount, TRUE)[1].refund
      BY <2>1, <2>3, RewriteType
    <2>6. Rewrite(rows, amount, TRUE) # <<>>
      <3>1. Len(rows) # 0
        BY <2>1
      <3>2. Len(Rewrite(rows, amount, TRUE)) # 0
        BY <2>5, <3>1
      <3>3. \A t \in Seq(RowType) : Len(t) # 0 => t # <<>>
        OBVIOUS
      <3>. QED  BY <2>5, <3>2, <3>3
    <2>7. /\ payments'[b] # <<>> /\ Len(payments'[b]) = Len(rows)
          /\ payments'[b][1].refund
          /\ RefundAdjust(p) => payments'[b][1].amount = Fee
      BY <2>2, <2>4, <2>5, <2>6
    <2>. QED  BY <2>7 DEF rows
  <1>7. TripOK(b)'
    BY <1>2, <1>3, <1>5, <1>6 DEF BookOK, TripOK, Still, TripPCs, One, Free, In
  <1>8. StageOK(b)' /\ StopOK(b)'
    BY <1>2, <1>3, StageKept, StopKept DEF BookOK
  <1>9. Free(b, RefundPCs)'
    BY <1>1 DEF BookOK, RefundOK, RefundPCs, One, Free, In
  <1>10. cancels[b] = 1
    BY <1>4, BoundsAssumption DEF Good, TypeInv, NotesOK
  <1>11. RefundOK(b)'
    <2>1. intent[b]["stop"].refunded = 0
      BY DEF BookOK, RefundOK
    <2>2. (Refunded(b) = JobAmount(b))'
      BY <1>2, <1>4 DEF Refunded, JobAmount
    <2>. QED  BY <1>2, <1>6, <1>9, <1>10, <2>1, <2>2 DEF RefundOK, RefundPCs, One, Free, In
  <1>12. RowOK(b)'
    <2>1. RefundDone(b)'
      BY <1>2, <1>9, <1>10 DEF RefundDone
    <2>. QED  BY <1>1, <1>2, <1>4, <1>6, <2>1 DEF RowOK
  <1>. QED  BY <1>7, <1>8, <1>11, <1>12 DEF BookOK

-----------------------------------------------------------------------------
(* What begins on a booking, and what happens to it without a process.      *)

LEMMA InsertBook ==
  ASSUME TypeInv, NEW p \in Procs, NEW b \in Bookings, b = proc[p].b,
         BornOK(b), InsertBooking(p)
  PROVE  BookOK(b)'
  <1>1. proc[p].pc = "insert" /\ UNCHANGED <<intent, payments, earnings, cancels>>
    BY DEF InsertBooking, At
  <1>2. /\ \A q \in Procs : q # p => proc'[q] = proc[q]
        /\ proc'[p].pc = "intent" /\ proc'[p].b = b
    BY GotoProc DEF InsertBooking, TypeInv
  <1>3. /\ cancels[b] = 0 /\ earnings[b] = 0 /\ payments[b] = <<>>
        /\ \A k \in Kinds : intent[b][k] = NoIntent
        /\ \A q \in Procs : proc[q].b = b => proc[q].pc \in {"check", "insert"}
    BY <1>1 DEF BornOK, Free, In, Unborn
  <1>4. /\ intent[b]["trip"].sent = 0 /\ intent[b]["stop"].sent = 0
        /\ intent[b]["trip"].refunded = 0 /\ intent[b]["stop"].refunded = 0
        /\ intent[b]["stop"].amount = 0
    BY <1>3 DEF Kinds, NoIntent
  <1>5. /\ booking'[b].stage = "open" /\ booking'[b].driver = FALSE /\ booking'[b].paid = FALSE
        /\ booking'[b].total = booking'[b].trip
    <2>. DEFINE price == Fare + proc[p].amount
                d == [NewBooking EXCEPT !.stage = "open", !.type = proc[p].type,
                        !.total = price, !.trip = price, !.pending = proc[p].amount]
    <2>1. booking' = [booking EXCEPT ![b] = d]
      BY DEF InsertBooking
    <2>. HIDE DEF price
    <2>2. /\ d.stage = "open" /\ d.driver = FALSE /\ d.paid = FALSE /\ d.total = d.trip
      BY DEF NewBooking
    <2>. HIDE DEF d
    <2>3. booking'[b] = d
      BY <2>1 DEF TypeInv, PricesOK
    <2>. QED  BY <2>2, <2>3
  <1>6. \A q \in Procs : proc'[q].b = b => proc'[q].pc \in {"check", "insert", "intent"}
    BY <1>2, <1>3
  <1>7. Free(b, TripPCs)' /\ Free(b, StopPCs)' /\ Free(b, RefundPCs)'
    BY <1>6 DEF Free, In, TripPCs, StopPCs, RefundPCs
  <1>8. One(b, TripPCs)' /\ One(b, StopPCs)' /\ One(b, RefundPCs)'
    BY <1>6 DEF One, In, TripPCs, StopPCs, RefundPCs
  <1>9. TripOK(b)'
    BY <1>1, <1>3, <1>4, <1>5, <1>7, <1>8 DEF TripOK, Free
  <1>10. StageOK(b)'
    BY <1>1, <1>3, <1>4, <1>5 DEF StageOK
  <1>11. StopOK(b)'
    BY <1>7, <1>8 DEF StopOK, Free
  <1>12. RefundOK(b)'
    BY <1>1, <1>3, <1>4, <1>7, <1>8 DEF RefundOK, RefundDone, Refunded, Free
  <1>13. RowOK(b)'
    BY <1>1, <1>3, <1>4 DEF RowOK, StopPaid
  <1>. QED  BY <1>9, <1>10, <1>11, <1>12, <1>13 DEF BookOK

\* A cancel, or a search that fails, of a booking that is paid and not over.
LEMMA CancelBook ==
  ASSUME TypeInv, NEW p \in Procs, NEW b \in Bookings, BookOK(b), Good(b), Good(b)',
         CustomerCancel(p, b) \/ CancelRequest(p, b) \/ SearchFailed(p, b)
  PROVE  BookOK(b)'
  <1>1. /\ booking[b].paid /\ booking[b].stage \in {"open", "accepted"}
        /\ cancels' = [cancels EXCEPT ![b] = @ + 1]
    BY DEF CustomerCancel, CancelRequest, SearchFailed, Cancel, Good
  <1>2. UNCHANGED <<intent, payments, earnings>> /\ Begin(p, b)
    BY DEF CustomerCancel, CancelRequest, SearchFailed, Begin
  <1>3. /\ proc[p].pc = "idle" /\ proc[p].b # b /\ proc'[p].b = b
        /\ \A q \in Procs : q # p => proc'[q] = proc[q]
    BY <1>2, BeginProc
  <1>4. booking[b] \in BookingType
    BY DEF TypeInv, PricesOK
  <1>5. /\ booking'[b].stage \in {"cancelled", "failed"}
        /\ booking'[b].paid = booking[b].paid /\ booking'[b].trip = booking[b].trip
        /\ booking'[b].driver = booking[b].driver
        /\ booking'[b].total = booking[b].total /\ booking'[b].stop = booking[b].stop
    <2>1. \/ booking' = [booking EXCEPT ![b].stage = "cancelled", ![b].type = "cancelled"]
          \/ booking' = [booking EXCEPT ![b].stage = "failed"]
      BY DEF CustomerCancel, CancelRequest, SearchFailed
    <2>. QED  BY <1>4, <2>1 DEF TypeInv, PricesOK, BookingType
  <1>6. cancels[b] = 0 /\ cancels'[b] = 1
    <2>1. cancels[b] \in Nat /\ cancels'[b] = cancels[b] + 1
      BY <1>1, BoundsAssumption DEF TypeInv, NotesOK
    <2>. QED  BY <2>1 DEF Good
  <1>7. booking[b].driver <=> booking[b].stage = "accepted"
    BY <1>1 DEF BookOK, StageOK
  <1>8. /\ proc'[p].pc \in {"recheck", "refund", "markfirst"}
        /\ proc'[p].pc \in {"recheck", "refund"} =>
              (proc'[p].scope = "failed" <=> ~booking[b].driver)
        /\ proc'[p].pc = "refund" => proc'[p].amount = JobAmount(b)
    <2>1. CASE CustomerCancel(p, b)
      <3>. DEFINE r == RefundJob(b, "customer")
      <3>1. proc' = [proc EXCEPT ![p] = r]
        BY <2>1 DEF CustomerCancel
      <3>2. /\ r.pc = IF booking[b].driver THEN "refund" ELSE "markfirst"
            /\ r.amount = IF booking[b].driver THEN Fare - Fee ELSE Fare
            /\ r.scope = "customer"
        BY <1>1, RefundJobIs
      <3>. HIDE DEF r
      <3>3. proc'[p] = r
        BY <3>1 DEF TypeInv, ProcsOK
      <3>. QED  BY <3>2, <3>3 DEF JobAmount
    <2>2. CASE CancelRequest(p, b)
      <3>. DEFINE scope == IF Open(b) THEN "failed" ELSE "customer"
                  r == [Idle EXCEPT !.pc = "recheck", !.b = b, !.scope = scope]
      <3>1. proc' = [proc EXCEPT ![p] = r]
        BY <2>2 DEF CancelRequest
      <3>2. scope = "failed" <=> ~booking[b].driver
        BY <1>1, <1>7 DEF Open
      <3>. HIDE DEF scope
      <3>3. r.pc = "recheck" /\ r.scope = scope
        BY DEF Idle
      <3>. HIDE DEF r
      <3>4. proc'[p] = r
        BY <3>1 DEF TypeInv, ProcsOK
      <3>. QED  BY <3>2, <3>3, <3>4
    <2>3. CASE SearchFailed(p, b)
      <3>. DEFINE r == RefundJob(b, "failed")
      <3>1. proc' = [proc EXCEPT ![p] = r] /\ ~booking[b].driver
        BY <1>7, <2>3 DEF SearchFailed, Open
      <3>2. r.pc = "refund" /\ r.amount = Fare /\ r.scope = "failed"
        BY <1>1, RefundJobIs
      <3>. HIDE DEF r
      <3>3. proc'[p] = r
        BY <3>1 DEF TypeInv, ProcsOK
      <3>. QED  BY <3>1, <3>2, <3>3 DEF JobAmount
    <2>. QED  BY <2>1, <2>2, <2>3
  <1>9. Still(b, TripPCs) /\ Still(b, StopPCs)
    BY <1>3, <1>8 DEF Still, TripPCs, StopPCs
  <1>10. TripOK(b)'
    BY <1>2, <1>5, <1>9, TripKept DEF BookOK
  <1>11. StageOK(b)'
    BY <1>1, <1>2, <1>5, <1>6 DEF BookOK, StageOK
  <1>12. StopOK(b)'
    BY <1>2, <1>5, <1>9, StopKept DEF BookOK
  <1>13. /\ \A q \in Procs : proc'[q].b = b /\ proc'[q].pc \in RefundPCs => q = p
         /\ Refunded(b) = 0
    BY <1>3, <1>6 DEF BookOK, RefundOK, Free, In
  <1>14. ~RefundDone(b) /\ ~RefundDone(b)'
    BY <1>3, <1>6, <1>8 DEF RefundDone, RefundPCs, Free, In
  <1>15. RefundOK(b)'
    <2>1. One(b, RefundPCs)'
      BY <1>13 DEF RefundPCs, One, In
    <2>2. JobAmount(b)' = JobAmount(b) /\ Refunded(b)' = 0
      BY <1>2, <1>5, <1>13 DEF JobAmount, Refunded
    <2>3. (\A q \in Procs : In(q, b, RefundPCs) =>
          /\ proc[q].pc # "refundall"
          /\ proc[q].pc \in {"recheck", "refund", "mark"} =>
                (proc[q].scope = "failed" <=> ~booking[b].driver)
          /\ proc[q].pc = "refund" => proc[q].amount = JobAmount(b)
          /\ proc[q].pc \in {"adjust", "flag"} => (proc[q].pc = "adjust" <=> booking[b].driver)
          /\ Refunded(b) = IF proc[q].pc \in {"mark", "adjust", "flag"}
                           THEN JobAmount(b) ELSE 0)'
      BY <1>5, <1>8, <1>13, <2>2 DEF RefundPCs, In
    <2>4. (intent[b]["stop"].refunded = 0)'
      BY <1>2 DEF BookOK, RefundOK
    <2>. QED  BY <1>6, <1>14, <2>1, <2>3, <2>4 DEF RefundOK
  <1>16. RowOK(b)'
    <2>1. StopPaid(b)' <=> StopPaid(b)
      BY <1>2, <1>9, FreeKept DEF StopPaid
    <2>. QED  BY <1>2, <1>5, <1>14, <2>1 DEF BookOK, RowOK
  <1>. QED  BY <1>10, <1>11, <1>12, <1>15, <1>16 DEF BookOK

\* The event of the trip: nothing was written before, and the price it reads is
\* that of the trip.
LEMMA DeliverBook ==
  ASSUME TypeInv, NEW p \in Procs, NEW b \in Bookings, BornOK(b), BookOK(b), Good(b),
         Good(b)', NEW k \in Kinds, Deliver(p, b, k)
  PROVE  BookOK(b)'
  <1>. DEFINE sent == intent[b][k].sent + 1
              i == [intent[b][k] EXCEPT !.sent = sent]
  <1>1. /\ \A l \in Kinds : intent[b][l] \in IntentType
        /\ intent[b][k].charged /\ intent' = [intent EXCEPT ![b][k] = i]
        /\ UNCHANGED <<booking, payments, earnings, cancels>>
    BY DEF Deliver, TypeInv, MoneyOK, notes
  <1>2. intent[b][k].sent \in Nat
    BY <1>1 DEF IntentType
  <1>. HIDE DEF sent
  <1>3. i.sent = sent /\ i.amount = intent[b][k].amount /\ i.refunded = intent[b][k].refunded
    BY <1>1 DEF IntentType
  <1>. HIDE DEF i
  <1>4. \A l \in Kinds : intent'[b][l] = IF l = k THEN i ELSE intent[b][l]
    BY <1>1 DEF TypeInv, MoneyOK
  <1>5. intent[b][k].sent = 0 /\ intent'[b][k].sent = 1
    <2>1. intent'[b][k].sent = intent[b][k].sent + 1 /\ intent'[b][k].sent <= 1
      BY <1>3, <1>4 DEF sent, Good
    <2>. QED  BY <1>2, <2>1
  <1>6. /\ proc[p].pc = "idle" /\ proc[p].b # b /\ proc'[p].b = b
        /\ \A q \in Procs : q # p => proc'[q] = proc[q]
    <2>1. Begin(p, b)
      BY DEF Begin
    <2>. QED  BY <2>1, BeginProc
  <1>7. /\ proc'[p].pc = IF k = "trip" THEN "paid" ELSE "confirm"
        /\ proc'[p].amount = booking[b].total
    <2>. DEFINE pc == IF k = "trip" THEN "paid" ELSE "confirm"
                type == intent[b][k].type
                total == booking[b].total
                r == [Idle EXCEPT !.pc = pc, !.b = b, !.kind = k, !.type = type,
                                  !.amount = total]
    <2>1. proc' = [proc EXCEPT ![p] = r]
      BY DEF Deliver
    <2>. HIDE DEF pc, type, total
    <2>2. r.pc = pc /\ r.amount = total
      BY DEF Idle
    <2>. HIDE DEF r
    <2>3. proc'[p].pc = pc /\ proc'[p].amount = total
      BY <2>1, <2>2 DEF TypeInv, ProcsOK
    <2>. QED  BY <2>3 DEF pc, total
  <1>8. /\ intent'[b]["stop"].amount = intent[b]["stop"].amount
        /\ intent'[b]["trip"].refunded = intent[b]["trip"].refunded
        /\ intent'[b]["stop"].refunded = intent[b]["stop"].refunded
    BY <1>3, <1>4 DEF Kinds
  <1>9. StageOK(b)'
    BY <1>1, <1>8, StageKept DEF BookOK
  <1>10. Still(b, RefundPCs)
    BY <1>6, <1>7 DEF Still, RefundPCs
  <1>11. RefundOK(b)'
    BY <1>1, <1>8, <1>10, RefundKept DEF BookOK
  <1>12. CASE k = "trip"
    <2>1. intent'[b]["stop"] = intent[b]["stop"]
      BY <1>4, <1>12 DEF Kinds
    <2>2. Still(b, StopPCs)
      BY <1>6, <1>7, <1>12 DEF Still, StopPCs
    <2>3. /\ ~booking[b].paid /\ payments[b] = <<>> /\ earnings[b] = 0 /\ Free(b, TripPCs)
          /\ booking[b].total = booking[b].trip
      <3>1. /\ ~booking[b].paid /\ payments[b] = <<>> /\ earnings[b] = 0 /\ Free(b, TripPCs)
        BY <1>5, <1>12 DEF BookOK, TripOK
      <3>2. booking[b].total = booking[b].trip
        BY <3>1 DEF BookOK, StageOK
      <3>. QED  BY <3>1, <3>2
    <2>4. TripOK(b)'
      BY <1>1, <1>5, <1>6, <1>7, <1>12, <2>3 DEF TripOK, TripPCs, One, Free, In, TypeInv,
         PricesOK, BookingType
    <2>5. StopOK(b)' /\ RowOK(b)'
      BY <1>1, <1>10, <2>1, <2>2, StopKept, RowKept DEF BookOK
    <2>. QED  BY <1>9, <1>11, <2>4, <2>5 DEF BookOK
  <1>13. CASE k = "stop"
    <2>1. intent'[b]["trip"] = intent[b]["trip"]
      BY <1>4, <1>13 DEF Kinds
    <2>2. Still(b, TripPCs)
      BY <1>6, <1>7, <1>13 DEF Still, TripPCs
    <2>3. TripOK(b)'
      BY <1>1, <2>1, <2>2, TripKept DEF BookOK
    <2>4. Free(b, StopPCs)
      BY <1>5, <1>13 DEF BookOK, StopOK
    <2>5. StopOK(b)'
      BY <1>1, <1>5, <1>6, <1>7, <1>13, <2>4 DEF StopOK, StopPCs, One, Free, In
    <2>6. ~StopPaid(b) /\ ~StopPaid(b)'
      BY <1>5, <1>6, <1>7, <1>13 DEF StopPaid, StopPCs, Free, In
    <2>7. RefundDone(b)' <=> RefundDone(b)
      BY <1>1, <1>10, FreeKept DEF RefundDone
    <2>8. RowOK(b)'
      BY <1>1, <2>6, <2>7 DEF BookOK, RowOK
    <2>. QED  BY <1>9, <1>11, <2>3, <2>5, <2>8 DEF BookOK
  <1>. QED  BY <1>12, <1>13 DEF Kinds

\* Requests that do not touch the books.
LEMMA QuietBook ==
  ASSUME TypeInv, NEW p \in Procs, NEW b \in Bookings, BookOK(b),
         Create(p, b) \/ Schedule(p, b) \/ DeferStop(p, b)
  PROVE  BookOK(b)'
  <1>1. /\ proc[p].pc = "idle" /\ \A q \in Procs : q # p => proc'[q] = proc[q]
        /\ proc'[p].pc \in {"check", "insert", "owe"}
    <2>1. Begin(p, b)
      BY DEF Begin
    <2>2. CASE Create(p, b) \/ Schedule(p, b)
      BY <2>1, <2>2, BeginProc
    <2>3. CASE DeferStop(p, b)
      <3>1. proc'[p].pc = "owe"
        BY <2>3 DEF DeferStop, Idle, TypeInv, ProcsOK
      <3>. QED  BY <2>1, <3>1, BeginProc
    <2>. QED  BY <2>2, <2>3
  <1>2. Still(b, TripPCs) /\ Still(b, StopPCs) /\ Still(b, RefundPCs)
    BY <1>1 DEF Still, TripPCs, StopPCs, RefundPCs
  <1>3. UNCHANGED <<intent, payments, earnings, cancels>> /\ SameBooks(b)
    BY FieldSet DEF Create, Schedule, DeferStop, notes
  <1>. QED  BY <1>2, <1>3, BookKept DEF SameIntents, SameRows

LEMMA AloneBook ==
  ASSUME TypeInv, NEW b \in Bookings, BornOK(b), BookOK(b), Good(b), Alone(b)
  PROVE  BookOK(b)'
  <1>1. UNCHANGED <<payments, earnings, proc, cancels>>
    BY DEF Alone, Accept, PayStop, RideCompleted, Charge, notes
  <1>2. Still(b, TripPCs) /\ Still(b, StopPCs) /\ Still(b, RefundPCs)
    BY <1>1 DEF Still
  <1>3. booking[b] \in BookingType /\ \A k \in Kinds : intent[b][k] \in IntentType
    BY DEF TypeInv, PricesOK, MoneyOK
  <1>4. ASSUME NEW k \in Kinds, Charge(b, k) PROVE BookOK(b)'
    <2>1. booking' = booking /\ SameIntents(b)
      BY <1>3, <1>4 DEF Charge, SameIntents, TypeInv, MoneyOK, IntentType, Kinds
    <2>. QED  BY <1>1, <1>2, <2>1, BookKept DEF SameBooks, SameRows
  <1>5. CASE PayStop(b)
    <2>1. booking' = booking /\ booking[b].stage = "completed"
      BY <1>5 DEF PayStop
    <2>2. /\ intent'[b]["stop"].amount = booking[b].stop
          /\ intent'[b]["stop"].sent = intent[b]["stop"].sent
          /\ intent'[b]["stop"].refunded = intent[b]["stop"].refunded
          /\ intent'[b]["trip"] = intent[b]["trip"]
      <3>. DEFINE amount == booking[b].stop
                  i == [intent[b]["stop"] EXCEPT !.amount = amount]
      <3>1. intent' = [intent EXCEPT ![b]["stop"] = i] /\ intent[b]["stop"] \in IntentType
        BY <1>3, <1>5 DEF PayStop, Kinds
      <3>. HIDE DEF amount
      <3>2. /\ i.amount = amount /\ i.sent = intent[b]["stop"].sent
            /\ i.refunded = intent[b]["stop"].refunded
        BY <3>1 DEF IntentType
      <3>. HIDE DEF i
      <3>3. intent'[b]["stop"] = i /\ intent'[b]["trip"] = intent[b]["trip"]
        BY <3>1 DEF TypeInv, MoneyOK, Kinds
      <3>. QED  BY <3>2, <3>3 DEF amount
    <2>3. StageOK(b)'
      BY <1>1, <2>1, <2>2 DEF BookOK, StageOK
    <2>4. TripOK(b)' /\ StopOK(b)' /\ RefundOK(b)' /\ RowOK(b)'
      BY <1>1, <1>2, <2>1, <2>2, TripKept, StopKept, RefundKept, RowKept DEF BookOK
    <2>. QED  BY <2>3, <2>4 DEF BookOK
  <1>6. CASE Accept(b)
    <2>1. /\ booking[b].stage = "open" /\ booking[b].paid /\ intent' = intent
          /\ booking'[b].stage = "accepted" /\ booking'[b].driver = TRUE
          /\ booking'[b].paid = booking[b].paid /\ booking'[b].trip = booking[b].trip
          /\ booking'[b].total = booking[b].total /\ booking'[b].stop = booking[b].stop
      <3>. DEFINE d == [booking[b] EXCEPT !.stage = "accepted", !.driver = TRUE]
      <3>1. booking' = [booking EXCEPT ![b] = d] /\ booking[b].stage = "open"
            /\ booking[b].paid /\ intent' = intent
        BY <1>6 DEF Accept
      <3>2. /\ d.stage = "accepted" /\ d.driver = TRUE /\ d.paid = booking[b].paid
            /\ d.trip = booking[b].trip /\ d.total = booking[b].total
            /\ d.stop = booking[b].stop
        BY <1>3 DEF BookingType
      <3>. HIDE DEF d
      <3>3. booking'[b] = d
        BY <3>1 DEF TypeInv, PricesOK
      <3>. QED  BY <3>1, <3>2, <3>3
    <2>2. cancels[b] = 0
      <3>1. cancels[b] \in Nat /\ cancels[b] <= 1 /\ cancels[b] # 1
        BY <2>1, BoundsAssumption DEF BookOK, StageOK, Good, TypeInv, NotesOK
      <3>. QED  BY <3>1
    <2>3. StageOK(b)'
      BY <1>1, <2>1 DEF BookOK, StageOK
    <2>4. TripOK(b)' /\ StopOK(b)'
      BY <1>1, <1>2, <2>1, TripKept, StopKept DEF BookOK
    <2>5. Free(b, RefundPCs) /\ Refunded(b) = 0 /\ intent[b]["stop"].refunded = 0
      BY <2>2 DEF BookOK, RefundOK
    <2>6. Free(b, RefundPCs)' /\ ~RefundDone(b) /\ ~RefundDone(b)'
      BY <1>1, <1>2, <2>2, <2>5, FreeKept DEF RefundDone
    <2>7. RefundOK(b)'
      BY <1>1, <2>1, <2>5, <2>6 DEF RefundOK, Refunded, RefundPCs, One, Free, In
    <2>8. RowOK(b)'
      <3>1. StopPaid(b)' <=> StopPaid(b)
        BY <1>2, <2>1, FreeKept DEF StopPaid
      <3>. QED  BY <1>1, <2>1, <2>6, <3>1 DEF BookOK, RowOK
    <2>. QED  BY <2>3, <2>4, <2>7, <2>8 DEF BookOK
  <1>7. ASSUME NEW stop \in Debts, RideCompleted(b, stop) PROVE BookOK(b)'
    <2>1. /\ booking[b].stage = "accepted" /\ intent' = intent
          /\ booking'[b].stage = "completed" /\ booking'[b].driver = booking[b].driver
          /\ booking'[b].paid = booking[b].paid /\ booking'[b].trip = booking[b].trip
          /\ booking'[b].total = booking[b].trip + stop /\ booking'[b].stop = stop
      <3>. DEFINE total == booking[b].trip + stop
                  d == [booking[b] EXCEPT !.stage = "completed", !.stop = stop,
                                          !.total = total]
      <3>1. booking' = [booking EXCEPT ![b] = d] /\ booking[b].stage = "accepted"
            /\ intent' = intent
        BY <1>7 DEF RideCompleted
      <3>. HIDE DEF total
      <3>2. /\ d.stage = "completed" /\ d.driver = booking[b].driver
            /\ d.paid = booking[b].paid /\ d.trip = booking[b].trip
            /\ d.total = total /\ d.stop = stop
        BY <1>3 DEF BookingType
      <3>. HIDE DEF d
      <3>3. booking'[b] = d
        BY <3>1 DEF TypeInv, PricesOK
      <3>. QED  BY <3>1, <3>2, <3>3 DEF total
    <2>2. intent[b]["stop"].amount = 0
      BY <2>1 DEF BookOK, StageOK
    <2>3. intent[b]["stop"].sent = 0
      BY <2>2 DEF BornOK, IntentOK, Kinds
    <2>4. Free(b, StopPCs)
      BY <2>3 DEF BookOK, StopOK
    <2>5. Free(b, StopPCs)'
      BY <1>2, <2>4, FreeKept
    <2>6. StageOK(b)'
      BY <1>1, <2>1, <2>2 DEF BookOK, StageOK
    <2>7. TripOK(b)' /\ RefundOK(b)'
      BY <1>1, <1>2, <2>1, TripKept, RefundKept DEF BookOK
    <2>8. StopOK(b)'
      BY <2>5 DEF StopOK, StopPCs, One, Free, In
    <2>9. RowOK(b)'
      <3>1. ~StopPaid(b) /\ ~StopPaid(b)' /\ (RefundDone(b)' <=> RefundDone(b))
        BY <1>1, <1>2, <2>1, <2>3, FreeKept DEF StopPaid, RefundDone
      <3>. QED  BY <1>1, <2>1, <3>1 DEF BookOK, RowOK
    <2>. QED  BY <2>6, <2>7, <2>8, <2>9 DEF BookOK
  <1>. QED  BY <1>4, <1>5, <1>6, <1>7 DEF Alone

-----------------------------------------------------------------------------
LEMMA RunBook ==
  ASSUME TypeInv, BornInv, NEW p \in Procs, Run(p), NEW b \in Bookings, b = proc[p].b,
         BookOK(b), Good(b), Good(b)'
  PROVE  BookOK(b)'
  <1>1. ~Crash
    <2>1. ~At(p, "idle")
      BY RunBusy
    <2>. QED  BY <2>1 DEF Crash, Exit, Good
  <1>2. BornOK(b)
    BY DEF BornInv
  <1>3. ASSUME RefundMarkFirst(p) PROVE FALSE
    BY <1>3 DEF RefundMarkFirst, Good
  <1>4. ASSUME RefundAll(p) PROVE FALSE
    BY <1>4 DEF RefundAll, At, BookOK, RefundOK, RefundPCs, In
  <1>5. CASE InsertBooking(p)
    BY <1>2, <1>5, InsertBook
  <1>6. CASE ScheduleCheck(p) \/ CreateIntent(p) \/ OweStop(p)
    BY <1>6, ElsewhereBook
  <1>7. CASE HookPaid(p) \/ HookReset(p) \/ HookRow(p) \/ HookEarning(p)
    BY <1>7, HookPaidBook, HookResetBook, HookRowBook, HookEarningBook
  <1>8. CASE HookConfirm(p) \/ HookSettle(p)
    BY <1>2, <1>8, HookConfirmBook, HookSettleBook
  <1>9. CASE CancelRecheck(p) \/ RefundPart(p) \/ RefundMark(p)
    BY <1>1, <1>9, RecheckBook, RefundPartBook, RefundMarkBook
  <1>10. CASE RefundAdjust(p) \/ RefundFlag(p)
    BY <1>10, RefundEndBook
  <1>. QED  BY <1>3, <1>4, <1>5, <1>6, <1>7, <1>8, <1>9, <1>10 DEF Run

LEMMA BeginBook ==
  ASSUME TypeInv, BornInv, NEW p \in Procs, NEW b \in Bookings, Begin(p, b),
         BookOK(b), Good(b), Good(b)'
  PROVE  BookOK(b)'
  <1>1. BornOK(b)
    BY DEF BornInv
  <1>2. ASSUME NEW k \in Kinds, Deliver(p, b, k) PROVE BookOK(b)'
    BY <1>1, <1>2, DeliverBook
  <1>. QED  BY <1>2, QuietBook, CancelBook DEF Begin

LEMMA InitBook == Init => BookInv
  <1>. SUFFICES ASSUME Init, NEW b \in Bookings PROVE BookOK(b)
    BY DEF BookInv
  <1>1. \A p \in Procs : proc[p].pc = "idle"
    BY DEF Init, Idle
  <1>2. /\ booking[b].stage = "none" /\ ~booking[b].paid /\ ~booking[b].driver
        /\ booking[b].total = booking[b].trip
    BY DEF Init, NewBooking
  <1>3. /\ \A k \in Kinds : intent[b][k] = NoIntent
        /\ payments[b] = <<>> /\ earnings[b] = 0 /\ cancels[b] = 0
    BY DEF Init
  <1>4. /\ intent[b]["trip"].sent = 0 /\ intent[b]["stop"].sent = 0
        /\ intent[b]["trip"].refunded = 0 /\ intent[b]["stop"].refunded = 0
        /\ intent[b]["stop"].amount = 0
    BY <1>3 DEF Kinds, NoIntent
  <1>5. /\ Free(b, TripPCs) /\ Free(b, StopPCs) /\ Free(b, RefundPCs)
        /\ One(b, TripPCs) /\ One(b, StopPCs) /\ One(b, RefundPCs)
    BY <1>1 DEF Free, One, In, TripPCs, StopPCs, RefundPCs
  <1>6. TripOK(b) /\ StageOK(b) /\ StopOK(b)
    BY <1>2, <1>3, <1>4, <1>5 DEF TripOK, StageOK, StopOK, Free
  <1>7. RefundOK(b) /\ RowOK(b)
    BY <1>3, <1>4, <1>5 DEF RefundOK, RowOK, RefundDone, StopPaid, Refunded, Free
  <1>. QED  BY <1>6, <1>7 DEF BookOK

LEMMA StepBook == TypeInv /\ BornInv /\ BookInv /\ [Next]_vars => BookInv'
  <1>. SUFFICES ASSUME TypeInv, BornInv, BookInv, [Next]_vars, NEW b \in Bookings, Good(b)'
                PROVE BookOK(b)'
    BY DEF BookInv
  <1>0. Good(b) /\ BookOK(b)
    BY GoodBefore DEF BookInv
  <1>1. ASSUME NEW p \in Procs, Run(p) PROVE BookOK(b)'
    <2>1. CASE b = proc[p].b
      BY <1>0, <1>1, <2>1, RunBook
    <2>2. CASE Crash
      <3>1. b \notin cut'
        BY DEF Good
      <3>2. \A q \in Procs : proc[q].b = b \/ proc'[q].b = b => proc'[q] = proc[q]
        BY <2>2, <3>1, ExitSame DEF Crash
      <3>3. Same(b)
        BY <2>2, <3>2 DEF Crash, Same
      <3>. QED  BY <1>0, <3>3, BookSame
    <2>. QED  BY <1>0, <1>1, <2>1, <2>2, RunElsewhere, BookSame
  <1>2. ASSUME NEW p \in Procs, NEW c \in Bookings, Begin(p, c) PROVE BookOK(b)'
    BY <1>0, <1>2, BeginBook, BeginElsewhere, BookSame
  <1>3. ASSUME NEW c \in Bookings, Alone(c) PROVE BookOK(b)'
    <2>1. CASE c = b
      BY <1>0, <1>3, <2>1, AloneBook DEF BornInv
    <2>2. CASE c # b
      BY <1>0, <1>3, <2>2, AloneElsewhere, BookSame
    <2>. QED  BY <2>1, <2>2
  <1>4. CASE UNCHANGED vars
    <2>1. Same(b)
      BY <1>4 DEF vars, notes, Same
    <2>. QED  BY <1>0, <2>1, BookSame
  <1>. QED  BY <1>1, <1>2, <1>3, <1>4, NextCases

\* What Stripe keeps of a settled booking is what its one row says.
LEMMA BooksAreTrue == TypeInv /\ BornInv /\ BookInv => BooksBalance
  <1>. SUFFICES ASSUME TypeInv, BornInv, BookInv, NEW b \in Bookings, Settled(b)
                PROVE  /\ Len(payments[b]) = 1 /\ earnings[b] = 1
                       /\ LET row == payments[b][1] IN
                          IF row.refund
                          THEN Kept(b) = booking[b].pending
                                           + (IF booking[b].driver THEN row.amount ELSE 0)
                          ELSE Kept(b) = row.amount
    BY DEF BooksBalance
  <1>. DEFINE t == intent[b]["trip"]
              s == intent[b]["stop"]
              d == booking[b]
              row == payments[b][1]
  <1>1. /\ d.paid /\ cancels[b] <= 1 /\ cancels[b] \in Nat
        /\ \A p \in Procs : proc[p].b # b
        /\ b \notin cut \cup raced \cup late \cup whole
        /\ t.sent = (IF t.charged THEN 1 ELSE 0) /\ s.sent = (IF s.charged THEN 1 ELSE 0)
        /\ \A k \in Kinds : intent[b][k].sent = 0 \/ intent[b][k].sent = 1
    BY BoundsAssumption DEF Settled, Working, TypeInv, NotesOK, Kinds
  <1>2. Good(b)
    BY <1>1 DEF Good
  <1>3. BookOK(b) /\ BornOK(b)
    BY <1>2 DEF BookInv, BornInv
  <1>4. Free(b, TripPCs) /\ Free(b, StopPCs) /\ Free(b, RefundPCs)
    BY <1>1 DEF Free, In
  <1>5. t.sent = 1 /\ t.charged
    BY <1>1, <1>3 DEF BookOK, TripOK
  <1>6. Len(payments[b]) = 1 /\ earnings[b] = 1
    BY <1>3, <1>4, <1>5 DEF BookOK, TripOK
  <1>7. payments[b] # <<>>
    <2>1. \A r \in Seq(RowType) : Len(r) = 1 => r # <<>>
      OBVIOUS
    <2>2. payments[b] \in Seq(RowType)
      BY DEF TypeInv, MoneyOK
    <2>. QED  BY <1>6, <2>1, <2>2
  <1>8. /\ d.stage # "none" /\ d.trip = Fare + d.pending
        /\ t.amount = Fare + d.pending
    <2>1. d.stage # "none"
      BY <1>3, <1>5, BornMade DEF Kinds
    <2>2. t.amount # 0
      BY <1>3, <1>5 DEF BornOK, IntentOK, Kinds
    <2>. QED  BY <1>3, <2>1, <2>2 DEF BornOK, TypeInv, PricesOK
  <1>9. d.pending \in Int /\ d.stop \in Int /\ Fare \in Int /\ Fee \in Int
    BY AmountsAssumption DEF TypeInv, PricesOK, BookingType, Debts
  <1>10. Kept(b) = (t.amount - t.refunded) + (IF s.charged THEN s.amount - s.refunded ELSE 0)
    BY <1>5 DEF Kept
  <1>11. s.refunded = 0
    BY <1>3 DEF BookOK, RefundOK
  <1>12. CASE row.refund
    <2>1. RefundDone(b)
      BY <1>3, <1>7, <1>12 DEF BookOK, RowOK
    <2>2. t.refunded = (IF d.driver THEN Fare - Fee ELSE Fare)
      BY <1>3, <2>1 DEF BookOK, RefundOK, Refunded, JobAmount
    <2>3. d.driver => row.amount = Fee
      BY <1>3, <1>7, <2>1 DEF BookOK, RowOK
    <2>4. ~s.charged
      <3>1. d.stage # "completed"
        BY <1>3, <2>1 DEF BookOK, StageOK, RefundDone
      <3>2. s.amount = 0
        BY <1>3, <3>1 DEF BookOK, StageOK
      <3>. QED  BY <1>3, <3>2 DEF BornOK, IntentOK, Kinds
    <2>5. Kept(b) = t.amount - t.refunded
      <3>1. t.amount - t.refunded \in Int
        BY <1>8, <1>9, <2>2
      <3>. QED  BY <1>10, <2>4, <3>1
    <2>6. Kept(b) = d.pending + (IF d.driver THEN row.amount ELSE 0)
      BY <1>8, <1>9, <2>2, <2>3, <2>5
    <2>. QED  BY <1>6, <1>12, <2>6
  <1>13. CASE ~row.refund
    <2>1. ~RefundDone(b)
      BY <1>3, <1>7, <1>13 DEF BookOK, RowOK
    <2>2. cancels[b] = 0
      BY <1>1, <1>4, <2>1 DEF RefundDone
    <2>3. t.refunded = 0
      BY <1>3, <2>2 DEF BookOK, RefundOK, Refunded
    <2>4. row.amount = IF StopPaid(b) THEN d.total ELSE d.trip
      BY <1>3, <1>7, <2>1 DEF BookOK, RowOK
    <2>5. CASE s.charged
      <3>1. StopPaid(b) /\ s.amount # 0
        BY <1>1, <1>3, <1>4, <2>5 DEF StopPaid, BornOK, IntentOK, Kinds
      <3>2. s.amount = d.stop /\ d.total = d.trip + d.stop
        BY <1>3, <3>1 DEF BookOK, StageOK
      <3>. QED  BY <1>6, <1>8, <1>9, <1>10, <1>11, <1>13, <2>3, <2>4, <2>5, <3>1, <3>2
    <2>6. CASE ~s.charged
      <3>1. ~StopPaid(b)
        BY <1>1, <2>6 DEF StopPaid
      <3>. QED  BY <1>6, <1>8, <1>9, <1>10, <1>13, <2>3, <2>4, <2>6, <3>1
    <2>. QED  BY <2>5, <2>6
  <1>. QED  BY <1>12, <1>13

\* The one row of a settled booking says what the customer's card was charged less
\* what was refunded, and its driver has one row of earnings.
THEOREM BooksAreBalanced == Spec => []BooksBalance
  BY InitType, StepType, InitBorn, StepBorn, InitBook, StepBook, BooksAreTrue, PTL DEF Spec

-----------------------------------------------------------------------------
(* A refund that is due is under way: the safety half of                    *)
(* PaidCancelIsRefunded, whose other half is the fairness of each step.     *)

DuePCs == {"recheck", "refund", "markfirst", "refundall"}

Due(b) == booking[b].paid /\ Closed(b) /\ b \notin late \cup cut /\ Refunded(b) = 0

DueOK(b) == Due(b) => ~Free(b, DuePCs)

DueInv == \A b \in Bookings : DueOK(b)

\* Whoever is owed a refund has it, or a process is on its way to it.
RefundUnderWay ==
    \A b \in Bookings :
        booking[b].paid /\ Closed(b) /\ b \notin late =>
            \/ intent[b]["trip"].refunded > 0 \/ b \in cut
            \/ \E p \in Working(b) : proc[p].pc \in DuePCs

LEMMA LateGrows ==
  ASSUME [Next]_vars
  PROVE  late \subseteq late'
  <1>1. ASSUME NEW p \in Procs, Run(p) PROVE late \subseteq late'
    BY <1>1 DEF Run, ScheduleCheck, InsertBooking, CreateIntent, HookPaid, HookReset, HookRow,
           HookEarning, HookConfirm, HookSettle, CancelRecheck, RefundPart, RefundMark,
           RefundAdjust, RefundFlag, RefundMarkFirst, RefundAll, OweStop, notes
  <1>2. ASSUME NEW p \in Procs, NEW c \in Bookings, Begin(p, c) PROVE late \subseteq late'
    BY <1>2 DEF Begin, Create, Schedule, DeferStop, CustomerCancel, CancelRequest,
                SearchFailed, Deliver, Cancel, notes
  <1>3. ASSUME NEW c \in Bookings, Alone(c) PROVE late \subseteq late'
    BY <1>3 DEF Alone, Accept, PayStop, RideCompleted, Charge, notes
  <1>. QED  BY <1>1, <1>2, <1>3, NextCases DEF vars, notes

\* A booking that was due already keeps who is at work on it.
LEMMA DueKept ==
  ASSUME NEW b \in Bookings, DueOK(b), Due(b)' => Due(b),
         \A q \in Procs : In(q, b, DuePCs) => In(q, b, DuePCs)'
  PROVE  DueOK(b)'
  BY DEF DueOK, Free

LEMMA DueSame ==
  ASSUME NEW b \in Bookings, Same(b), DueOK(b), cut \subseteq cut', late \subseteq late'
  PROVE  DueOK(b)'
  <1>1. Due(b)' => Due(b)
    BY DEF Due, Closed, Refunded, Same
  <1>2. \A q \in Procs : In(q, b, DuePCs) => In(q, b, DuePCs)'
    BY DEF In, Same
  <1>. QED  BY <1>1, <1>2, DueKept

\* The exit of the server puts in cut whatever somebody was at work on.
LEMMA DueCrash ==
  ASSUME TypeInv, NEW b \in Bookings, Crash, DueOK(b), cut \subseteq cut', late \subseteq late'
  PROVE  DueOK(b)'
  <1>1. CASE b \in cut'
    BY <1>1 DEF DueOK, Due
  <1>2. CASE b \notin cut'
    <2>1. \A q \in Procs : proc[q].b # b
      BY <1>2, ExitSame DEF Crash
    <2>2. Due(b)' => Due(b)
      BY DEF Due, Closed, Refunded, Crash
    <2>. QED  BY <2>1, <2>2 DEF DueOK, Free, In
  <1>. QED  BY <1>1, <1>2

LEMMA RunDue ==
  ASSUME TypeInv, BornInv, NEW p \in Procs, Run(p), NEW b \in Bookings, b = proc[p].b,
         DueOK(b), cut \subseteq cut', late \subseteq late', ~Crash
  PROVE  DueOK(b)'
  <1>0. /\ ProcOK(proc[p]) /\ BornOK(b) /\ booking[b] \in BookingType
        /\ intent[b]["trip"] \in IntentType /\ ~At(p, "idle")
    BY RunBusy DEF BornInv, TypeInv, PricesOK, MoneyOK, Kinds
  <1>1. CASE InsertBooking(p)
    <2>1. booking'[b].stage = "open"
      BY <1>1 DEF InsertBooking, NewBooking, TypeInv, PricesOK
    <2>. QED  BY <2>1 DEF DueOK, Due, Closed
  <1>2. CASE RefundPart(p) \/ RefundAll(p)
    <2>. DEFINE old == intent[b]["trip"]
                amount == IF RefundPart(p) THEN proc[p].amount ELSE old.amount - old.refunded
                sum == old.refunded + amount
                i == [old EXCEPT !.refunded = sum]
    <2>1. Refundable(b, amount) /\ intent' = [intent EXCEPT ![b]["trip"] = i]
      BY <1>2 DEF RefundPart, RefundAll, Refund, Crash
    <2>2. amount \in Int /\ old.refunded \in Nat
      BY <1>0, AmountsAreInts DEF ProcOK, ProcType, Amounts, IntentType, Charges
    <2>3. sum > 0
      BY <2>1, <2>2 DEF Refundable
    <2>. HIDE DEF amount, sum
    <2>4. i.refunded = sum
      BY <1>0 DEF IntentType
    <2>. HIDE DEF i
    <2>5. Refunded(b)' > 0
      BY <2>1, <2>3, <2>4 DEF Refunded, TypeInv, MoneyOK, Kinds
    <2>. QED  BY <2>5 DEF DueOK, Due
  <1>3. CASE HookPaid(p)
    <2>1. /\ booking' = [booking EXCEPT ![b].paid = TRUE]
          /\ booking[b].stage # "open" => b \in late'
      BY <1>3 DEF HookPaid
    <2>2. booking'[b].stage = booking[b].stage
      BY <1>0, <2>1 DEF TypeInv, PricesOK, BookingType
    <2>. QED  BY <2>1, <2>2 DEF DueOK, Due, Closed
  <1>4. CASE RefundMarkFirst(p)
    <2>1. /\ \A q \in Procs : q # p => proc'[q] = proc[q]
          /\ proc'[p].b = b /\ proc'[p].pc = "refundall"
      BY <1>4, GotoProc DEF RefundMarkFirst, TypeInv
    <2>2. In(p, b, DuePCs)'
      BY <2>1 DEF In, DuePCs
    <2>. QED  BY <2>2 DEF DueOK, Free
  <1>5. CASE CancelRecheck(p)
    <2>. DEFINE r == RefundJob(b, proc[p].scope)
    <2>0. booking[b].stage # "none" /\ proc[p].scope \in {"customer", "failed"}
      BY <1>0, <1>5 DEF CancelRecheck, TypeInv, RecheckOK, ProcOK, ProcType
    <2>1. r.b = b /\ r.pc \in {"refund", "markfirst"}
      BY <2>0, RefundJobOK DEF TypeInv
    <2>2. proc' = [proc EXCEPT ![p] = r]
      BY <1>5 DEF CancelRecheck
    <2>. HIDE DEF r
    <2>3. In(p, b, DuePCs)'
      BY <2>1, <2>2 DEF TypeInv, ProcsOK, In, DuePCs
    <2>. QED  BY <2>3 DEF DueOK, Free
  <1>6. CASE ~(InsertBooking(p) \/ RefundPart(p) \/ RefundAll(p) \/ HookPaid(p)
               \/ RefundMarkFirst(p) \/ CancelRecheck(p))
    <2>1. proc[p].pc \notin DuePCs
      BY <1>6 DEF Run, ScheduleCheck, CreateIntent, HookReset, HookRow,
           HookEarning, HookConfirm, HookSettle, RefundMark, RefundAdjust, RefundFlag,
           OweStop, At, DuePCs
    <2>2. \A q \in Procs : q # p => proc'[q] = proc[q]
      <3>1. End(p) \/ \E pc : Goto(p, pc)
        BY <1>6 DEF Run, ScheduleCheck, CreateIntent, HookReset, HookRow,
           HookEarning, HookConfirm, HookSettle, RefundMark, RefundAdjust, RefundFlag, OweStop
      <3>. QED  BY <3>1, GotoProc, EndProc DEF TypeInv
    <2>3. Refunded(b)' = Refunded(b)
      <3>1. CASE CreateIntent(p)
        BY <1>0, <3>1 DEF CreateIntent, TypeInv, MoneyOK, IntentType, Kinds, Refunded
      <3>2. CASE ~CreateIntent(p)
        <4>1. intent' = intent
          BY <1>6, <3>2 DEF Run, ScheduleCheck, HookReset, HookRow,
           HookEarning, HookConfirm, HookSettle, RefundMark, RefundAdjust, RefundFlag, OweStop
        <4>. QED  BY <4>1 DEF Refunded
      <3>. QED  BY <3>1, <3>2
    <2>4. booking'[b].paid = booking[b].paid /\ booking'[b].stage = booking[b].stage
      <3>1. \/ booking' = booking
            \/ booking' = [booking EXCEPT ![b].refund = TRUE]
            \/ booking' = [booking EXCEPT ![b].done = TRUE]
        BY <1>6 DEF Run, ScheduleCheck, CreateIntent, HookReset, HookRow,
           HookEarning, HookConfirm, HookSettle, RefundMark, RefundAdjust, RefundFlag, OweStop
      <3>. QED  BY <1>0, <3>1 DEF TypeInv, PricesOK, BookingType
    <2>5. Due(b)' => Due(b)
      BY <2>3, <2>4 DEF Due, Closed
    <2>6. \A q \in Procs : In(q, b, DuePCs) => In(q, b, DuePCs)'
      BY <2>1, <2>2 DEF In
    <2>. QED  BY <2>5, <2>6, DueKept
  <1>. QED  BY <1>1, <1>2, <1>3, <1>4, <1>5, <1>6

\* What closes a booking goes on to its refund, or is late.
LEMMA BeginDue ==
  ASSUME TypeInv, NEW p \in Procs, NEW b \in Bookings, Begin(p, b),
         DueOK(b), cut \subseteq cut', late \subseteq late'
  PROVE  DueOK(b)'
  <1>1. /\ proc[p].pc = "idle" /\ proc'[p].b = b
        /\ \A q \in Procs : q # p => proc'[q] = proc[q]
    BY BeginProc
  <1>2. CASE CustomerCancel(p, b) \/ CancelRequest(p, b) \/ SearchFailed(p, b)
    <2>1. proc'[p].pc \in DuePCs
      <3>1. CASE CancelRequest(p, b)
        BY <3>1 DEF CancelRequest, Idle, TypeInv, ProcsOK, DuePCs
      <3>2. ASSUME NEW scope \in {"customer", "failed"}, booking[b].stage # "none",
                   proc' = [proc EXCEPT ![p] = RefundJob(b, scope)]
            PROVE  proc'[p].pc \in DuePCs
        <4>. DEFINE r == RefundJob(b, scope)
        <4>1. r.pc \in {"refund", "markfirst"}
          BY <3>2, RefundJobOK DEF TypeInv
        <4>2. proc' = [proc EXCEPT ![p] = r]
          BY <3>2
        <4>. HIDE DEF r
        <4>. QED  BY <4>1, <4>2 DEF TypeInv, ProcsOK, DuePCs
      <3>. QED  BY <1>2, <3>1, <3>2 DEF CustomerCancel, SearchFailed, Open
    <2>2. In(p, b, DuePCs)'
      BY <1>1, <2>1 DEF In
    <2>. QED  BY <2>2 DEF DueOK, Free
  <1>3. CASE ~(CustomerCancel(p, b) \/ CancelRequest(p, b) \/ SearchFailed(p, b))
    <2>1. booking'[b].paid = booking[b].paid /\ booking'[b].stage = booking[b].stage
      <3>1. booking[b] \in BookingType
        BY DEF TypeInv, PricesOK
      <3>2. booking' = booking \/ booking' = [booking EXCEPT ![b].done = TRUE]
        BY <1>3 DEF Begin, Create, Schedule, DeferStop, Deliver
      <3>. QED  BY <3>1, <3>2 DEF TypeInv, PricesOK, BookingType
    <2>2. Refunded(b)' = Refunded(b)
      <3>1. ASSUME NEW k \in Kinds, Deliver(p, b, k)
            PROVE  intent'[b]["trip"].refunded = intent[b]["trip"].refunded
        BY <3>1 DEF Deliver, TypeInv, MoneyOK, IntentType, Kinds
      <3>2. UNCHANGED intent \/ \E k \in Kinds : Deliver(p, b, k)
        BY <1>3 DEF Begin, Create, Schedule, DeferStop
      <3>. QED  BY <3>1, <3>2 DEF Refunded
    <2>3. Due(b)' => Due(b)
      BY <2>1, <2>2 DEF Due, Closed
    <2>4. \A q \in Procs : In(q, b, DuePCs) => In(q, b, DuePCs)'
      BY <1>1 DEF In, DuePCs
    <2>. QED  BY <2>3, <2>4, DueKept
  <1>. QED  BY <1>2, <1>3

LEMMA AloneDue ==
  ASSUME TypeInv, NEW b \in Bookings, Alone(b), DueOK(b),
         cut \subseteq cut', late \subseteq late'
  PROVE  DueOK(b)'
  <1>0. booking[b] \in BookingType /\ \A k \in Kinds : intent[b][k] \in IntentType
    BY DEF TypeInv, PricesOK, MoneyOK
  <1>1. UNCHANGED proc
    BY DEF Alone, Accept, PayStop, RideCompleted, Charge
  <1>2. CASE Accept(b)
    <2>1. booking'[b].stage = "accepted"
      BY <1>0, <1>2 DEF Accept, TypeInv, PricesOK, BookingType
    <2>. QED  BY <2>1 DEF DueOK, Due, Closed
  <1>3. ASSUME NEW stop \in Debts, RideCompleted(b, stop) PROVE DueOK(b)'
    <2>. DEFINE total == booking[b].trip + stop
                d == [booking[b] EXCEPT !.stage = "completed", !.stop = stop, !.total = total]
    <2>1. booking' = [booking EXCEPT ![b] = d]
      BY <1>3 DEF RideCompleted
    <2>. HIDE DEF total
    <2>2. d.stage = "completed"
      BY <1>0 DEF BookingType
    <2>. HIDE DEF d
    <2>3. booking'[b].stage = "completed"
      BY <2>1, <2>2 DEF TypeInv, PricesOK
    <2>. QED  BY <2>3 DEF DueOK, Due, Closed
  <1>4. CASE ~(Accept(b) \/ \E stop \in Debts : RideCompleted(b, stop))
    <2>1. UNCHANGED booking
      BY <1>4 DEF Alone, PayStop, Charge
    <2>2. Refunded(b)' = Refunded(b)
      <3>1. ASSUME NEW k \in Kinds, Charge(b, k) PROVE Refunded(b)' = Refunded(b)
        BY <1>0, <3>1 DEF Charge, TypeInv, MoneyOK, IntentType, Kinds, Refunded
      <3>2. CASE PayStop(b)
        BY <3>2 DEF PayStop, TypeInv, MoneyOK, Kinds, Refunded
      <3>. QED  BY <1>4, <3>1, <3>2 DEF Alone
    <2>3. Due(b)' => Due(b)
      BY <2>1, <2>2 DEF Due, Closed
    <2>. QED  BY <1>1, <2>3, DueKept DEF In
  <1>. QED  BY <1>2, <1>3, <1>4

LEMMA InitDue == Init => DueInv
  BY DEF Init, NewBooking, DueInv, DueOK, Due

LEMMA StepDue == TypeInv /\ BornInv /\ DueInv /\ [Next]_vars => DueInv'
  <1>. SUFFICES ASSUME TypeInv, BornInv, DueInv, [Next]_vars, NEW b \in Bookings
                PROVE DueOK(b)'
    BY DEF DueInv
  <1>0. DueOK(b) /\ cut \subseteq cut' /\ late \subseteq late'
    BY CutGrows, LateGrows DEF DueInv
  <1>1. ASSUME NEW p \in Procs, Run(p) PROVE DueOK(b)'
    BY <1>0, <1>1, RunDue, RunElsewhere, DueCrash, DueSame
  <1>2. ASSUME NEW p \in Procs, NEW c \in Bookings, Begin(p, c) PROVE DueOK(b)'
    BY <1>0, <1>2, BeginDue, BeginElsewhere, DueSame
  <1>3. ASSUME NEW c \in Bookings, Alone(c) PROVE DueOK(b)'
    BY <1>0, <1>3, AloneDue, AloneElsewhere, DueSame
  <1>4. CASE UNCHANGED vars
    BY <1>0, <1>4 DEF vars, notes, DueOK, Due, Closed, Refunded, Free, In
  <1>. QED  BY <1>1, <1>2, <1>3, <1>4, NextCases

\* A paid booking that is cancelled or fails has been refunded, or somebody is at
\* work on its refund, or the server exited while at work on it.
THEOREM RefundsAreUnderWay == Spec => []RefundUnderWay
  <1>1. TypeInv /\ DueInv => RefundUnderWay
    <2>. SUFFICES ASSUME TypeInv, DueInv, NEW b \in Bookings, booking[b].paid, Closed(b),
                         b \notin late \cup cut, ~(intent[b]["trip"].refunded > 0)
                  PROVE  \E p \in Working(b) : proc[p].pc \in DuePCs
      BY DEF RefundUnderWay
    <2>1. Refunded(b) = 0
      <3>1. Refunded(b) \in Nat
        BY AmountsAreInts DEF Refunded, TypeInv, MoneyOK, IntentType, Kinds, Charges
      <3>. QED  BY <3>1 DEF Refunded
    <2>2. ~Free(b, DuePCs)
      BY <2>1 DEF DueInv, DueOK, Due
    <2>. QED  BY <2>2 DEF Free, In, Working
  <1>. QED  BY <1>1, InitType, StepType, InitBorn, StepBorn, InitDue, StepDue, PTL DEF Spec

-----------------------------------------------------------------------------
(* Pricing: quotes, charges, coupons and tolls.                             *)

\* For a route of any number of stops the toll is no less than that of its legs, and it is
\* the toll of the one leg of a route without stops (calculateTotalTollCharges).
THEOREM TollsCover ==
  ASSUME NEW price, Len(price) \in Nat, DOMAIN price = 1 .. Len(price),
         \A i, j \in 1 .. Len(price) : price[i][j] \in Nat
  PROVE  TollCoversLegs(price)
  <1>1. PICK n \in Nat : n = Len(price) /\ DOMAIN price = 1 .. n
    OBVIOUS
  <1>2. PICK rows : rows = [i \in 1 .. n |-> SumTo(price[i], n)]
    OBVIOUS
  <1>3. PICK legs : legs = [i \in 1 .. n |-> price[i][i]]
    OBVIOUS
  <1>4. \A i \in 1 .. n : rows[i] \in Int /\ legs[i] \in Int /\ legs[i] <= rows[i]
    <2>. SUFFICES ASSUME NEW i \in 1 .. n
                  PROVE  rows[i] \in Int /\ legs[i] \in Int /\ legs[i] <= rows[i]
      OBVIOUS
    <2>1. \A j \in 1 .. n : price[i][j] \in Nat
      BY <1>1
    <2>2. SumTo(price[i], n) \in Nat /\ price[i][i] <= SumTo(price[i], n)
      BY <2>1, SumNat, SumCovers
    <2>3. rows[i] = SumTo(price[i], n) /\ legs[i] = price[i][i]
      BY <1>2, <1>3
    <2>4. price[i][i] \in Nat
      BY <2>1
    <2>. QED  BY <2>2, <2>3, <2>4
  <1>5. SumTo(legs, n) <= SumTo(rows, n) /\ SumTo(legs, n) \in Int /\ SumTo(rows, n) \in Int
    BY <1>4, SumMonotone, SumInt
  <1>6. ASSUME n = 1 PROVE SumTo(rows, n) = SumTo(legs, n)
    <2>1. rows[1] \in Int /\ legs[1] \in Int /\ price[1][1] \in Int
      BY <1>1, <1>4, <1>6
    <2>2. SumTo(rows, 1) = rows[1] /\ SumTo(legs, 1) = legs[1] /\ SumTo(price[1], 1) = price[1][1]
      BY <2>1, SumOne
    <2>3. rows[1] = SumTo(price[1], 1) /\ legs[1] = price[1][1]
      BY <1>2, <1>3, <1>6
    <2>. QED  BY <1>6, <2>2, <2>3
  <1>7. TollCharges(price) = SumTo(rows, n)
    BY <1>1, <1>2 DEF TollCharges
  <1>8. SumTo([i \in DOMAIN price |-> price[i][i]], Len(price)) = SumTo(legs, n)
    BY <1>1, <1>3
  <1>. QED  BY <1>1, <1>5, <1>6, <1>7, <1>8 DEF TollCoversLegs

LEMMA TollIsNat ==
  ASSUME NEW price, Len(price) \in Nat, DOMAIN price = 1 .. Len(price),
         \A i, j \in 1 .. Len(price) : price[i][j] \in Nat
  PROVE  TollCharges(price) \in Nat
  <1>1. PICK n \in Nat : n = Len(price)
    OBVIOUS
  <1>2. PICK rows : rows = [i \in 1 .. n |-> SumTo(price[i], n)]
    OBVIOUS
  <1>3. \A i \in 1 .. n : rows[i] \in Nat
    BY <1>1, <1>2, SumNat
  <1>4. TollCharges(price) = SumTo(rows, n)
    BY <1>1, <1>2 DEF TollCharges
  <1>. QED  BY <1>3, <1>4, SumNat

LEMMA ScaleMonotone == ASSUME NEW a \in Int, NEW b \in Int, NEW r \in Nat, a <= b PROVE a * r <= b * r
  OBVIOUS

LEMMA PercentMonotone ==
  ASSUME NEW a \in Int, NEW b \in Int, NEW r \in Nat, a <= b
  PROVE  Percent(a, r) <= Percent(b, r) /\ Percent(a, r) \in Int /\ Percent(b, r) \in Int
  <1>1. PICK x \in Int, y \in Int : x = a * r /\ y = b * r /\ x <= y
    BY ScaleMonotone
  <1>2. (x + 50) \div 100 <= (y + 50) \div 100
    BY <1>1
  <1>. QED  BY <1>1, <1>2 DEF Percent

\* Requests, vehicles and configurations have numbers of the kind the schemas give them.
RequestOK(request) ==
    /\ request.distance \in Nat /\ request.wheelchairs \in Nat /\ request.seats \in Nat
    /\ request.capsules \in Nat /\ request.far \in BOOLEAN /\ request.airport_toll \in BOOLEAN
VehicleOK(vehicle) ==
    /\ DOMAIN vehicle.bands = 1 .. Len(vehicle.bands)
    /\ \A i \in DOMAIN vehicle.bands : vehicle.bands[i].price \in Nat
    /\ vehicle.base_fare \in Nat /\ vehicle.wheelchair \in Nat /\ vehicle.seat \in Nat
    /\ vehicle.capsule \in Nat /\ vehicle.surcharge \in Nat
ConfigOK(config) == config.tax \in Nat /\ config.gov_levy \in Nat /\ config.airport_toll \in Nat
CouponOK(coupon) == coupon.percent \in Nat /\ coupon.most \in Nat

LEMMA SurchargedMonotone ==
  ASSUME NEW a \in Int, NEW b \in Int, NEW vehicle, NEW factor \in {0, vehicle.surcharge},
         vehicle.surcharge \in Nat, a <= b
  PROVE  /\ Surcharged(a, vehicle, factor) <= Surcharged(b, vehicle, factor)
         /\ Surcharged(a, vehicle, factor) \in Int /\ Surcharged(b, vehicle, factor) \in Int
  <1>1. PICK s \in Nat : s = vehicle.surcharge
    OBVIOUS
  <1>2. PICK x \in Int, y \in Int : x = a * s /\ y = b * s /\ x <= y
    BY ScaleMonotone
  <1>3. x \div 100 <= y \div 100 /\ x \div 100 \in Int /\ y \div 100 \in Int
    BY <1>2
  <1>. QED  BY <1>1, <1>2, <1>3 DEF Surcharged

\* A higher price stays higher once it is surcharged.
LEMMA SurchargedStrict ==
  ASSUME NEW a \in Int, NEW b \in Int, NEW vehicle, NEW factor \in {0, vehicle.surcharge},
         vehicle.surcharge \in Nat, a < b
  PROVE  Surcharged(a, vehicle, factor) < Surcharged(b, vehicle, factor)
  <1>1. PICK s \in Nat : s = vehicle.surcharge
    OBVIOUS
  <1>2. CASE factor > 100
    <2>1. factor = s /\ s > 100
      BY <1>1, <1>2
    <2>2. PICK x \in Int, y \in Int : x = a * s /\ y = b * s
      BY <1>1
    <2>3. x + s <= y
      <3>1. (a + 1) * s <= b * s
        BY ScaleMonotone
      <3>2. (a + 1) * s = a * s + s
        OBVIOUS
      <3>. QED  BY <2>2, <3>1, <3>2
    <2>4. x + 100 <= y
      BY <2>1, <2>2, <2>3
    <2>5. x \div 100 < y \div 100
      BY <2>2, <2>4
    <2>. QED  BY <1>1, <1>2, <2>2, <2>5 DEF Surcharged
  <1>3. CASE ~(factor > 100)
    BY <1>3 DEF Surcharged
  <1>. QED  BY <1>2, <1>3

LEMMA DistancePriceNat ==
  ASSUME NEW distance, NEW vehicle, VehicleOK(vehicle)
  PROVE  DistancePrice(distance, vehicle.bands) \in Nat
  <1>1. PICK in : in = {i \in DOMAIN vehicle.bands : InBand(distance, vehicle.bands[i])}
    OBVIOUS
  <1>2. in \subseteq Nat /\ in \subseteq DOMAIN vehicle.bands
    BY <1>1 DEF VehicleOK
  <1>3. CASE in = {}
    BY <1>1, <1>3 DEF DistancePrice
  <1>4. CASE in # {}
    <2>1. PICK first : first = CHOOSE i \in in : \A j \in in : i <= j
      OBVIOUS
    <2>2. first \in in
      BY <1>2, <1>4, <2>1, NatMin
    <2>3. DistancePrice(distance, vehicle.bands) = vehicle.bands[first].price
      BY <1>1, <1>4, <2>1 DEF DistancePrice
    <2>. QED  BY <1>2, <2>2, <2>3 DEF VehicleOK
  <1>. QED  BY <1>3, <1>4

\* The additional fee is one part of a price, and base all the others.
WithoutFee(base, request, vehicle, toll) ==
    \A fee \in Nat : TripPrice(request, vehicle, toll, fee) = base + fee

LEMMA TripPriceIs ==
  ASSUME NEW request, NEW vehicle, RequestOK(request), VehicleOK(vehicle), NEW toll \in Nat
  PROVE  \E base \in Nat : WithoutFee(base, request, vehicle, toll)
  <1>1. PICK a \in Nat : a = vehicle.wheelchair * request.wheelchairs
    BY DEF RequestOK, VehicleOK
  <1>2. PICK b \in Nat : b = vehicle.seat * request.seats
    BY DEF RequestOK, VehicleOK
  <1>3. PICK c \in Nat : c = vehicle.capsule * request.capsules
    BY DEF RequestOK, VehicleOK
  <1>4. PICK d \in Nat : d = request.distance * DistancePrice(request.distance, vehicle.bands)
    <2>1. \A m, n \in Nat : m * n \in Nat
      OBVIOUS
    <2>. QED  BY <2>1, DistancePriceNat DEF RequestOK
  <1>5. PICK fare \in Nat : fare = vehicle.base_fare
    BY DEF VehicleOK
  <1>6. PICK base \in Nat : base = a + b + c + d + fare + toll
    OBVIOUS
  <1>7. ASSUME NEW fee \in Nat PROVE TripPrice(request, vehicle, toll, fee) = base + fee
    <2>1. TripPrice(request, vehicle, toll, fee) = a + b + c + d + fare + fee + toll
      BY <1>1, <1>2, <1>3, <1>4, <1>5 DEF TripPrice, Addons
    <2>. QED  BY <1>6, <2>1
  <1>. QED  BY <1>7 DEF WithoutFee

LEMMA DiscountIs ==
  ASSUME NEW coupon, CouponOK(coupon), NEW price \in Nat
  PROVE  CouponDiscount(coupon, price) \in Nat /\ CouponDiscount(coupon, price) <= coupon.most
  <1>1. PICK x \in Nat : x = price * coupon.percent
    BY DEF CouponOK
  <1>2. x \div 100 \in Nat
    BY <1>1
  <1>. QED  BY <1>1, <1>2 DEF CouponDiscount, CouponOK

\* What is charged for a surcharged price of x.
Charged(x, config, request) ==
    x + Percent(x, config.tax) + config.gov_levy
      + (IF request.airport_toll THEN config.airport_toll ELSE 0)

LEMMA ChargedMonotone ==
  ASSUME NEW x \in Int, NEW y \in Int, x <= y, NEW config, ConfigOK(config),
         NEW request, RequestOK(request)
  PROVE  /\ Charged(x, config, request) \in Int /\ Charged(y, config, request) \in Int
         /\ Charged(x, config, request) <= Charged(y, config, request)
         /\ x < y => Charged(x, config, request) < Charged(y, config, request)
  <1>1. PICK p \in Int, q \in Int :
          p = Percent(x, config.tax) /\ q = Percent(y, config.tax) /\ p <= q
    BY PercentMonotone DEF ConfigOK
  <1>2. PICK t \in Int : t = IF request.airport_toll THEN config.airport_toll ELSE 0
    BY DEF ConfigOK, RequestOK
  <1>3. PICK g \in Int : g = config.gov_levy
    BY DEF ConfigOK
  <1>4. Charged(x, config, request) = x + p + g + t /\ Charged(y, config, request) = y + q + g + t
    BY <1>1, <1>2, <1>3 DEF Charged
  <1>. QED  BY <1>1, <1>4

\* What customers are charged is what the apps quoted, for any trip, vehicle, configuration,
\* debt and coupon.
THEOREM QuoteHolds ==
  ASSUME NEW request, RequestOK(request), NEW vehicle, VehicleOK(vehicle),
         NEW config, ConfigOK(config), NEW coupon, CouponOK(coupon),
         NEW toll \in Nat, NEW owed \in Nat, NEW factor \in {0, vehicle.surcharge}
  PROVE  QuoteIsCharged(request, vehicle, config, factor, toll, owed, coupon)
  <1>0. vehicle.surcharge \in Nat /\ config.tax \in Nat
    BY DEF VehicleOK, ConfigOK
  <1>1. PICK base \in Nat : WithoutFee(base, request, vehicle, toll)
    BY TripPriceIs
  <1>2. PICK fee \in Nat : fee = AdditionalFee(request) /\ fee = IF request.far THEN 2500 ELSE 0
    BY DEF AdditionalFee, FarFee, RequestOK
  <1>3. PICK off \in Nat : off = CouponDiscount(coupon, base + fee) /\ off <= coupon.most
    BY DiscountIs
  <1>4. PICK most \in Nat : most = coupon.most
    BY DEF CouponOK
  <1>. DEFINE Full(x) == Surcharged(x, vehicle, factor)
  <1>. DEFINE Cost(x) == Charged(Full(x), config, request)
  <1>. DEFINE Pays(debt, discount) ==
         CalculatePricingAtPay(request, vehicle, config, factor, toll, AdditionalFee(request),
                               debt, discount)
  <1>5. \A x \in Int : Full(x) \in Int /\ Cost(x) \in Int
    <2>. SUFFICES ASSUME NEW x \in Int PROVE Full(x) \in Int /\ Cost(x) \in Int
      OBVIOUS
    <2>1. Full(x) \in Int
      <3>1. x <= x
        OBVIOUS
      <3>. QED  BY <1>0, <3>1, SurchargedMonotone
    <2>. QED  BY <2>1, ChargedMonotone
  <1>6. ASSUME NEW x \in Int, NEW y \in Int, x <= y
        PROVE  Cost(x) <= Cost(y) /\ (x < y => Cost(x) < Cost(y))
    <2>1. Full(x) <= Full(y) /\ (x < y => Full(x) < Full(y))
      BY <1>6, SurchargedMonotone, SurchargedStrict DEF VehicleOK
    <2>2. Full(x) \in Int /\ Full(y) \in Int
      BY <1>5
    <2>. HIDE DEF Full
    <2>. QED  BY <2>1, <2>2, ChargedMonotone
  <1>7. ASSUME NEW debt \in Nat, NEW discount \in Nat
        PROVE  Pays(debt, discount) = Cost(base + fee - discount) + debt
    <2>1. PICK x \in Int : x = Full(base + fee - discount)
      BY <1>5
    <2>2. PICK p \in Int : p = Percent(x, config.tax)
      <3>1. x <= x
        OBVIOUS
      <3>. QED  BY <1>0, <3>1, PercentMonotone
    <2>3. PICK t \in Int : t = IF request.airport_toll THEN config.airport_toll ELSE 0
      BY DEF ConfigOK, RequestOK
    <2>4. PICK g \in Int : g = config.gov_levy
      BY DEF ConfigOK
    <2>5. TripPrice(request, vehicle, toll, AdditionalFee(request)) = base + fee
      BY <1>1, <1>2 DEF WithoutFee
    <2>6. Pays(debt, discount) = x + debt + p + g + t
      BY <2>1, <2>2, <2>3, <2>4, <2>5 DEF CalculatePricingAtPay
    <2>7. Cost(base + fee - discount) = x + p + g + t
      BY <2>1, <2>2, <2>3, <2>4 DEF Charged
    <2>. QED  BY <2>6, <2>7
  <1>8. ASSUME NEW debt \in Nat, NEW f \in Nat
        PROVE  Sum(CalculatePricing(request, vehicle, config, factor, toll, f, debt))
                 = Cost(base + f) + debt
    <2>1. PICK x \in Int : x = Full(base + f)
      BY <1>5
    <2>2. PICK p \in Int : p = Percent(x, config.tax)
      <3>1. x <= x
        OBVIOUS
      <3>. QED  BY <1>0, <3>1, PercentMonotone
    <2>3. PICK t \in Int : t = IF request.airport_toll THEN config.airport_toll ELSE 0
      BY DEF ConfigOK, RequestOK
    <2>4. PICK g \in Int : g = config.gov_levy
      BY DEF ConfigOK
    <2>5. TripPrice(request, vehicle, toll, f) = base + f
      BY <1>1 DEF WithoutFee
    <2>6. CalculatePricing(request, vehicle, config, factor, toll, f, debt) =
            [base_fee |-> base + f + debt, surcharge_amount |-> x - (base + f), tax |-> p,
             airport_toll |-> t, gov_levy |-> g]
      BY <2>1, <2>2, <2>3, <2>4, <2>5 DEF CalculatePricing
    <2>7. Sum(CalculatePricing(request, vehicle, config, factor, toll, f, debt))
            = (base + f + debt) + (x - (base + f)) + p + t + g
      BY <2>6 DEF Sum
    <2>8. Cost(base + f) = x + p + g + t
      BY <2>1, <2>2, <2>3, <2>4 DEF Charged
    <2>. QED  BY <2>7, <2>8
  <1>. HIDE DEF Cost, Pays
  <1>9. Pays(0, 0) = Sum(WebQuote(request, vehicle, config, factor, toll))
    <2>1. Pays(0, 0) = Cost(base + fee - 0) + 0
      BY <1>7
    <2>2. Sum(WebQuote(request, vehicle, config, factor, toll)) = Cost(base + fee) + 0
      BY <1>2, <1>8 DEF WebQuote
    <2>. QED  BY <2>1, <2>2
  <1>10. Pays(owed, 0) = Cost(base + fee) + owed
    <2>1. Pays(owed, 0) = Cost(base + fee - 0) + owed
      BY <1>7
    <2>. QED  BY <2>1
  <1>11. Sum(AppQuote(request, vehicle, config, factor, toll, owed)) = Cost(base) + owed
    <2>1. Sum(AppQuote(request, vehicle, config, factor, toll, owed)) = Cost(base + 0) + owed
      BY <1>8 DEF AppQuote
    <2>. QED  BY <2>1
  <1>12. IF request.far
         THEN Pays(owed, 0) > Sum(AppQuote(request, vehicle, config, factor, toll, owed))
         ELSE Pays(owed, 0) = Sum(AppQuote(request, vehicle, config, factor, toll, owed))
    <2>1. CASE request.far
      <3>1. base < base + fee
        BY <1>2, <2>1
      <3>2. Cost(base) < Cost(base + fee)
        BY <1>6, <3>1
      <3>3. Cost(base) \in Int /\ Cost(base + fee) \in Int
        BY <1>5
      <3>. QED  BY <1>10, <1>11, <2>1, <3>2, <3>3
    <2>2. CASE ~request.far
      <3>1. base + fee = base
        BY <1>2, <2>2
      <3>. QED  BY <1>10, <1>11, <2>2, <3>1
    <2>. QED  BY <2>1, <2>2
  <1>13. /\ Pays(owed, off) <= Pays(owed, 0)
         /\ Pays(owed, off) >= Pays(owed, most)
    <2>1. /\ Pays(owed, off) = Cost(base + fee - off) + owed
          /\ Pays(owed, most) = Cost(base + fee - most) + owed
      BY <1>7
    <2>2. /\ base + fee - off \in Int /\ base + fee - most \in Int /\ base + fee \in Int
          /\ base + fee - most <= base + fee - off /\ base + fee - off <= base + fee
      BY <1>3, <1>4
    <2>3. Cost(base + fee - most) <= Cost(base + fee - off) /\ Cost(base + fee - off) <= Cost(base + fee)
      BY <1>6, <2>2
    <2>4. Cost(base + fee - most) \in Int /\ Cost(base + fee - off) \in Int /\ Cost(base + fee) \in Int
      BY <1>5, <2>2
    <2>. QED  BY <1>10, <2>1, <2>3, <2>4
  <1>14. TripPrice(request, vehicle, toll, AdditionalFee(request)) = base + fee
    BY <1>1, <1>2 DEF WithoutFee
  <1>. QED  BY <1>3, <1>4, <1>9, <1>12, <1>13, <1>14 DEF QuoteIsCharged, Pays

\* The vehicle and the configuration of the runs are such ones, and so are their trips.
LEMMA TripsOK ==
  ASSUME NEW t \in Trips
  PROVE  /\ RequestOK(t.request) /\ CouponOK(t.coupon) /\ t.debt \in Nat
         /\ Len(t.toll) \in Nat /\ DOMAIN t.toll = 1 .. Len(t.toll)
         /\ \A i, j \in 1 .. Len(t.toll) : t.toll[i][j] \in Nat
         /\ SurchargeFactor(t.windows, t.time, Vehicle) \in {0, Vehicle.surcharge}
  <1>1. t.request \in [distance : {2, 5, 7}, wheelchairs : {0, 1}, seats : {0, 1},
                       capsules : {0, 2}, far : BOOLEAN, airport_toll : BOOLEAN]
    BY DEF Trips
  <1>2. RequestOK(t.request)
    BY <1>1 DEF RequestOK
  <1>3. t.coupon \in {[percent |-> 10, most |-> 50], [percent |-> 20, most |-> 5000]}
    BY DEF Trips
  <1>4. CouponOK(t.coupon)
    BY <1>3 DEF CouponOK
  <1>5. t.debt \in Nat /\ t.toll \in {<<<<0>>>>, <<<<250>>>>, <<<<250, 400>>, <<0, 100>>>>}
    BY DEF Trips
  <1>6. /\ Len(t.toll) \in Nat /\ DOMAIN t.toll = 1 .. Len(t.toll)
        /\ \A i, j \in 1 .. Len(t.toll) : t.toll[i][j] \in Nat
    <2>1. CASE t.toll = <<<<0>>>>
      BY <2>1
    <2>2. CASE t.toll = <<<<250>>>>
      BY <2>2
    <2>3. CASE t.toll = <<<<250, 400>>, <<0, 100>>>>
      BY <2>3
    <2>. QED  BY <1>5, <2>1, <2>2, <2>3
  <1>7. SurchargeFactor(t.windows, t.time, Vehicle) \in {0, Vehicle.surcharge}
    BY DEF SurchargeFactor
  <1>. QED  BY <1>2, <1>4, <1>5, <1>6, <1>7

LEMMA DocumentsOK == VehicleOK(Vehicle) /\ ConfigOK(Config)
  <1>1. /\ Vehicle.bands = <<[from |-> 0, to |-> 5, price |-> 300], [from |-> 5, to |-> 0, price |-> 200]>>
        /\ Vehicle.base_fare = 400 /\ Vehicle.wheelchair = 700 /\ Vehicle.seat = 500
        /\ Vehicle.capsule = 600 /\ Vehicle.surcharge = 150
    BY DEF Vehicle
  <1>2. /\ DOMAIN Vehicle.bands = 1 .. Len(Vehicle.bands)
        /\ \A i \in DOMAIN Vehicle.bands : Vehicle.bands[i].price \in Nat
    BY <1>1
  <1>. QED  BY <1>1, <1>2 DEF VehicleOK, ConfigOK, Config

\* What the customers' app and the web form are quoted is what the payment intent charges -
\* for a pickup far from the airport the app's customers pay more -, a coupon takes off no
\* more than its most, and the toll covers that of the legs.
THEOREM PricesAreQuoted == WorldSpec => []PricesAgree
  <1>. DEFINE Priced == world = "price" => trip \in Trips
  <1>1. WorldInit => Priced
    BY DEF WorldInit
  <1>2. Priced /\ [WorldNext]_WorldVars => Priced'
    BY DEF WorldNext, WorldVars
  <1>3. Priced => PricesAgree
    <2>. SUFFICES ASSUME trip \in Trips PROVE PricesAgree
      BY DEF PricesAgree
    <2>1. PICK toll \in Nat : toll = TollCharges(trip.toll)
      BY TripsOK, TollIsNat
    <2>2. PICK factor : factor = SurchargeFactor(trip.windows, trip.time, Vehicle)
      OBVIOUS
    <2>3. factor \in {0, Vehicle.surcharge}
      BY <2>2, TripsOK
    <2>4. RequestOK(trip.request) /\ CouponOK(trip.coupon) /\ trip.debt \in Nat
      BY TripsOK
    <2>5. QuoteIsCharged(trip.request, Vehicle, Config, factor, toll, trip.debt, trip.coupon)
      BY <2>3, <2>4, DocumentsOK, QuoteHolds
    <2>6. TollCoversLegs(trip.toll)
      BY TripsOK, TollsCover
    <2>. QED  BY <2>1, <2>2, <2>5, <2>6 DEF PricesAgree
  <1>. HIDE DEF Priced
  <1>. QED  BY <1>1, <1>2, <1>3, PTL DEF WorldSpec
=============================================================================
