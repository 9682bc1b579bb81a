-------------------------------- MODULE Ride --------------------------------
(***************************************************************************)
(* A ride under way: RideStatus, the waiting charges that WaitingChargeCron *)
(* adds every 30 seconds, tips, a change of stops and Ride_Completed, all  *)
(* of which read the booking, and write total_amount, in calls of their    *)
(* own.                                                                    *)
(*                                                                         *)
(* One scheduled booking, its time come, that a driver has taken.  Time is  *)
(* in whole minutes.  A process is a tick of the cron or a request.  Fare  *)
(* is the price at payment, Rate and Tax what a minute of waiting costs.   *)
(*                                                                         *)
(* Left out: the driver's document (module Dispatch), gst and the driver's *)
(* share, messages; the OTP of start_ride is right.                        *)
(***************************************************************************)
EXTENDS Listings, Integers, Sequences

CONSTANTS
    Procs,
    Fare, Rate, Tax,
    PickupFree, StopFree,   \* minutes that are waited for nothing
    MaxTime,                \* bound: minutes
    MaxRequests,            \* bound: requests but the steps of the ride
    None

Waits == {"reached_at_pickup", "reached_at_stop_1", "reached_at_stop_2"}
Statuses == Waits \cup {"start_ride", "started_from_Stop_1", "started_from_Stop_2",
                        "ride_completed"}
Times == 0 .. MaxTime

ASSUME RideAssumption ==
    /\ Fare \in Nat /\ Rate \in Nat \ {0} /\ Tax \in Nat
    /\ PickupFree \in Nat /\ StopFree \in Nat /\ MaxTime \in Nat /\ MaxRequests \in Nat
ASSUME NoTimeAssumption == None \notin Statuses /\ None \notin Times

VARIABLES
    booking,
    clock,
    proc,
    requests,   \* how many requests there were
    tokens,     \* both parties have a session with a push token
    extra,      \* history: tips and the toll that were asked for
    causes      \* history: why total_amount may be something else

history == <<extra, causes>>
vars == <<booking, clock, proc, requests, tokens, history>>

-----------------------------------------------------------------------------
Stops == {"reached_at_stop_1", "reached_at_stop_2"}
Tips == {0, 1}
Toll == 1
NewPrice == Fare + 1

BookingType ==
    [stage  : Open \cup {"accepted", "completed", "cancelled"},   \* booking_status
     status : Statuses \cup {None},                             \* ride_status
     driver : BOOLEAN,
     total  : Int,                                              \* total_amount
     trip   : {Fare},                                           \* total_trip_amount
     stop   : Int,                                              \* stop_charges
     tip    : Tips,                                             \* tip_driver
     last   : [Stops -> 0 .. MaxTime + 1],     \* last_stop_charges_mins and of stop 2
     at     : [Waits -> Times \cup {None}],    \* arrived_...
     told   : SUBSET Waits]                    \* is_..._charge_noti_send

Taken ==
    [stage |-> "accepted", status |-> None, driver |-> TRUE, total |-> Fare,
     trip |-> Fare, stop |-> 0, tip |-> 0, last |-> [s \in Stops |-> 0],
     at |-> [w \in Waits |-> None], told |-> {}]

\* seen is what a tick found in each of its three lists.
Idle == [pc |-> "idle", doc |-> None, amount |-> 0, to |-> None,
         seen |-> [w \in Waits |-> None], now |-> 0]

At(p, pc) == proc[p].pc = pc
Goto(p, pc) == proc' = [proc EXCEPT ![p].pc = pc]
End(p) == proc' = [proc EXCEPT ![p] = Idle]

Init ==
    /\ booking = Taken /\ clock = 0 /\ requests = 0 /\ extra = 0 /\ causes = {}
    /\ proc = [p \in Procs |-> Idle]
    /\ tokens \in BOOLEAN

-----------------------------------------------------------------------------
\* What was read is no longer what is there.
Money(b) == <<b.total, b.stop, b.last, b.tip>>
Amounts == [total |-> booking.total, stop |-> booking.stop, last |-> booking.last,
            tip |-> booking.tip]
Because(cause, holds) == causes' = IF holds THEN causes \cup {cause} ELSE causes
Overlap(doc) == Because("overlap", Money(doc) # Money(booking))

Read(p, pc, amount) ==
    /\ At(p, "idle") /\ requests < MaxRequests
    /\ requests' = requests + 1
    /\ proc' = [proc EXCEPT ![p] = [Idle EXCEPT !.pc = pc, !.doc = Amounts,
                                                !.amount = amount]]
    /\ UNCHANGED <<booking, clock, tokens, history>>

-----------------------------------------------------------------------------
(* The steps of the ride.                                                   *)

\* What the driver's app offers: the next step, stops can be left out, and the
\* step he took last, once more when its answer was lost.
Later(status) ==
    CASE status = None -> {"reached_at_pickup"}
      [] status = "reached_at_pickup" -> {"start_ride"}
      [] status = "start_ride" -> Stops \cup {"ride_completed"}
      [] status = "reached_at_stop_1" -> {"started_from_Stop_1"}
      [] status = "started_from_Stop_1" -> {"reached_at_stop_2", "ride_completed"}
      [] status = "reached_at_stop_2" -> {"started_from_Stop_2"}
      [] status = "started_from_Stop_2" -> {"ride_completed"}
      [] OTHER -> {}

RideStatus(p, s) ==
    /\ At(p, "idle") /\ booking.stage = "accepted"
    /\ \/ s \in Later(booking.status) /\ UNCHANGED requests
       \/ /\ s = booking.status /\ requests < MaxRequests
          /\ requests' = requests + 1
    /\ proc' = [proc EXCEPT ![p] = [Idle EXCEPT !.pc = "status", !.to = s]]
    /\ UNCHANGED <<booking, clock, tokens, history>>

\* By _id alone, whatever has become of the booking.
WriteStatus(p) ==
    /\ At(p, "status")
    /\ LET s == proc[p].to IN
       booking' = [booking EXCEPT !.status = s,
                     !.at = IF s \in Waits THEN [@ EXCEPT ![s] = clock] ELSE @]
    /\ End(p)
    /\ UNCHANGED <<clock, requests, tokens, history>>

\* booking_cancelled: the driver gives the booking back and another takes it, or
\* the customer cancels.
DriverCancel ==
    /\ booking.stage = "accepted" /\ requests < MaxRequests
    /\ requests' = requests + 1
    /\ booking' = [booking EXCEPT !.stage = "none", !.status = None, !.driver = FALSE,
                                  !.at["reached_at_pickup"] = None]
    /\ UNCHANGED <<clock, proc, tokens, history>>

\* A driver who was asked declines a booking that nobody has.
Decline ==
    /\ booking.stage \in Open
    /\ booking' = [booking EXCEPT !.stage = "request"]
    /\ UNCHANGED <<clock, proc, requests, tokens, history>>

Accept ==
    /\ booking.stage \in Open
    /\ booking' = [booking EXCEPT !.stage = "accepted", !.driver = TRUE]
    /\ UNCHANGED <<clock, proc, requests, tokens, history>>

CustomerCancel ==
    /\ booking.stage \in Open \cup {"accepted"} /\ requests < MaxRequests
    /\ requests' = requests + 1
    /\ booking' = [booking EXCEPT !.stage = "cancelled"]
    /\ UNCHANGED <<clock, proc, tokens, history>>

\* Ride_Completed looks at no status: the app asks for it when the ride is on, and
\* again when the answer was lost.
RideCompleted(p) ==
    /\ booking.stage = "completed" \/ booking.status \notin Waits \cup {None}
    /\ Read(p, "complete", Toll)

WriteCompleted(p) ==
    /\ At(p, "complete")
    /\ booking' = [booking EXCEPT !.stage = "completed", !.status = "ride_completed",
                                  !.total = proc[p].doc.total + proc[p].amount]
    /\ extra' = extra + proc[p].amount
    /\ Overlap(proc[p].doc)
    /\ End(p)
    /\ UNCHANGED <<clock, requests, tokens>>

-----------------------------------------------------------------------------
(* Tips and stops.                                                          *)

AddTip(p) == Read(p, "tip", 1)

WriteTip(p) ==
    /\ At(p, "tip")
    /\ LET doc == proc[p].doc IN
       IF proc[p].amount > doc.total THEN UNCHANGED <<booking, history>>
       ELSE /\ booking' = [booking EXCEPT !.total = doc.total + proc[p].amount]
            /\ extra' = extra + proc[p].amount
            /\ Overlap(doc)
    /\ End(p)
    /\ UNCHANGED <<clock, requests, tokens>>

\* The other way to tip has a field of its own.
UpdateBookingInfo(p, tip) == Read(p, "info", tip)

WriteInfo(p) ==
    /\ At(p, "info")
    /\ LET doc == proc[p].doc IN
       /\ booking' = [booking EXCEPT !.tip = proc[p].amount,
                        !.total = doc.total - doc.tip + proc[p].amount]
       /\ extra' = extra - doc.tip + proc[p].amount
       /\ Overlap(doc)
    /\ End(p)
    /\ UNCHANGED <<clock, requests, tokens>>

\* update: the stops are others, and so is the price; total_trip_amount stays.
Update(p) == booking.stage \in Open \cup {"accepted"} /\ Read(p, "update", NewPrice)

WriteUpdate(p) ==
    /\ At(p, "update")
    /\ booking' = [booking EXCEPT !.total = proc[p].amount]
    /\ Because("repriced", TRUE)
    /\ End(p)
    /\ UNCHANGED <<clock, requests, tokens, extra>>

-----------------------------------------------------------------------------
(* WaitingChargeCron.                                                       *)

ListOf(w) == CASE w = "reached_at_pickup" -> "list" [] w = "reached_at_stop_1" -> "list1"
               [] w = "reached_at_stop_2" -> "list2"
\* The first place, in the order of the lists, that the booking was found at.
FirstOf(seen) ==
    CASE seen["reached_at_pickup"] # None -> "reached_at_pickup"
      [] seen["reached_at_stop_1"] # None -> "reached_at_stop_1"
      [] seen["reached_at_stop_2"] # None -> "reached_at_stop_2"
      [] OTHER -> "idle"
AfterList(w, seen) ==
    CASE w = "reached_at_pickup" -> "list1" [] w = "reached_at_stop_1" -> "list2"
      [] w = "reached_at_stop_2" -> FirstOf(seen)
Continue(p, w) ==
    LET seen == [proc[p].seen EXCEPT ![w] = None] IN
    proc' = [proc EXCEPT ![p] = [Idle EXCEPT !.pc = FirstOf(seen), !.seen = seen]]

\* Mutant: the first list, too, has closed bookings.
InListClosed(w) == booking.status = w

\* The first list asks for accepted bookings, the others only for ride_status.
InList(w) == booking.status = w /\ (w = "reached_at_pickup" => booking.stage = "accepted")

TickStart(p) ==
    /\ At(p, "idle")
    /\ Goto(p, "list")
    /\ UNCHANGED <<booking, clock, requests, tokens, history>>

TickList(p, w) ==
    /\ At(p, ListOf(w))
    /\ LET doc == [total |-> booking.total, stop |-> booking.stop, last |-> booking.last,
                   tip |-> booking.tip, trip |-> booking.trip, stage |-> booking.stage,
                   driver |-> booking.driver, at |-> booking.at[w], told |-> w \in booking.told]
           seen == [proc[p].seen EXCEPT ![w] = IF InList(w) THEN doc ELSE None]
       IN  proc' = [proc EXCEPT ![p].pc = AfterList(w, seen), ![p].seen = seen]
    /\ UNCHANGED <<booking, clock, requests, tokens, history>>

Free(w) == IF w = "reached_at_pickup" THEN PickupFree ELSE StopFree
Due(p, w) ==
    LET doc == proc[p].seen[w] IN
    IF doc = None THEN FALSE
    ELSE doc.at # None /\ clock - doc.at >= Free(w)

TickSkip(p, w) ==
    /\ At(p, w) /\ ~Due(p, w)
    /\ Continue(p, w)
    /\ UNCHANGED <<booking, clock, requests, tokens, history>>

\* Mutant: the mark is written once both were told.
TickTellLast(p, w) ==
    /\ At(p, w) /\ Due(p, w)
    /\ IF proc[p].seen[w].told THEN UNCHANGED booking
       ELSE booking' = IF tokens THEN [booking EXCEPT !.told = @ \cup {w}] ELSE booking
    /\ IF proc[p].seen[w].told \/ tokens
       THEN proc' = [proc EXCEPT ![p].pc = "charge", ![p].to = w, ![p].now = clock]
       ELSE End(p)
    /\ UNCHANGED <<clock, requests, tokens, history>>

\* The first time both are told.  The mark is written first; without a session or a
\* driver its token is read of null, and the exception ends the tick.
TickTell(p, w) ==
    /\ At(p, w) /\ Due(p, w)
    /\ LET told == proc[p].seen[w].told IN
       /\ booking' = IF told THEN booking ELSE [booking EXCEPT !.told = @ \cup {w}]
       /\ IF told \/ (tokens /\ proc[p].seen[w].driver)
          THEN proc' = [proc EXCEPT ![p].pc = "charge", ![p].to = w, ![p].now = clock]
          ELSE End(p)
    /\ UNCHANGED <<clock, requests, tokens, history>>

\* Waiting for the passenger: the whole charge, on top of total_trip_amount.  Then
\* both sockets get the booking; with no driver there any more, an exception.
ChargePickup(p) ==
    /\ At(p, "charge") /\ proc[p].to = "reached_at_pickup"
    /\ LET doc == proc[p].seen[proc[p].to]
           minutes == proc[p].now - doc.at - PickupFree + 1
           stop == minutes * (Rate + Tax)
       IN  booking' = [booking EXCEPT !.stop = stop, !.total = doc.trip + stop]
    /\ Because("overwritten", extra # 0 \/ \E s \in Stops : booking.last[s] # 0)
    /\ IF booking.driver THEN Continue(p, proc[p].to) ELSE End(p)
    /\ UNCHANGED <<clock, requests, tokens, extra>>

\* Mutant: the tax of the minutes charged already is added again.
ChargeStopTaxed(p, s) ==
    /\ At(p, "charge") /\ proc[p].to = s
    /\ LET doc == proc[p].seen[s]
           minutes == proc[p].now - doc.at - StopFree + 1
           more == minutes - doc.last[s]
       IN  /\ booking' = [booking EXCEPT !.stop = doc.stop + more * Rate,
                            !.total = doc.total + more * Rate + minutes * Tax,
                            !.last[s] = minutes]
           /\ Overlap(doc)
    /\ Continue(p, s)
    /\ UNCHANGED <<clock, requests, tokens, extra>>

\* Mutant: the free minutes are added.
ChargeStopFree(p, s) ==
    /\ At(p, "charge") /\ proc[p].to = s
    /\ LET doc == proc[p].seen[s]
           minutes == proc[p].now - doc.at + StopFree + 1
           more == minutes - doc.last[s]
       IN  /\ booking' = [booking EXCEPT !.stop = doc.stop + more * Rate,
                            !.total = doc.total + more * (Rate + Tax), !.last[s] = minutes]
           /\ Overlap(doc)
    /\ Continue(p, s)
    /\ UNCHANGED <<clock, requests, tokens, extra>>

\* Waiting at a stop: the minutes since the last charge.  stop_charges is without
\* tax, total_amount with it.
ChargeStop(p, s) ==
    /\ At(p, "charge") /\ proc[p].to = s
    /\ LET doc == proc[p].seen[s]
           minutes == proc[p].now - doc.at - StopFree + 1
           more == minutes - doc.last[s]
       IN  /\ booking' = [booking EXCEPT !.stop = doc.stop + more * Rate,
                            !.total = doc.total + more * (Rate + Tax), !.last[s] = minutes]
           /\ Overlap(doc)
    /\ Continue(p, s)
    /\ UNCHANGED <<clock, requests, tokens, extra>>

\* One place after the other; a tick that an exception ends misses the rest.
startRideAfter5minCharge(p) ==
    LET w == "reached_at_pickup" IN TickSkip(p, w) \/ TickTell(p, w) \/ ChargePickup(p)
stop1After3minCharge(p) ==
    LET w == "reached_at_stop_1" IN TickSkip(p, w) \/ TickTell(p, w) \/ ChargeStop(p, w)
stop2After3minCharge(p) ==
    LET w == "reached_at_stop_2" IN TickSkip(p, w) \/ TickTell(p, w) \/ ChargeStop(p, w)

-----------------------------------------------------------------------------
TimePasses ==
    /\ clock < MaxTime
    /\ clock' = clock + 1
    /\ UNCHANGED <<booking, proc, requests, tokens, history>>

Run(p) ==
    \/ WriteStatus(p) \/ WriteCompleted(p) \/ WriteTip(p) \/ WriteInfo(p) \/ WriteUpdate(p)
    \/ \E w \in Waits : TickList(p, w)
    \/ startRideAfter5minCharge(p) \/ stop1After3minCharge(p) \/ stop2After3minCharge(p)

Tick == \E p \in Procs : TickStart(p)

Next ==
    \/ TimePasses \/ Tick \/ DriverCancel \/ Decline \/ Accept \/ CustomerCancel
    \/ \E p \in Procs :
          \/ Run(p)
          \/ \E s \in Statuses : RideStatus(p, s)
          \/ RideCompleted(p) \/ Update(p) \/ AddTip(p)
          \/ \E tip \in Tips : UpdateBookingInfo(p, tip)

Spec == Init /\ [][Next]_vars

\* The cron starts a tick again and again, and an awaited call returns.
FairSpec == Spec /\ WF_vars(Tick) /\ \A p \in Procs : WF_vars(Run(p))

-----------------------------------------------------------------------------
\* No tick takes a stop to have been waited at for longer than the clock has run.
RideTypeOK ==
    /\ booking \in BookingType
    /\ clock \in Times /\ requests \in 0 .. MaxRequests /\ tokens \in BOOLEAN
    /\ causes \subseteq {"overlap", "overwritten", "repriced"}

\* The total of a booking is its price, the waiting charge with its tax, and the
\* tips and tolls that were added, unless one of three things happened: a write
\* was computed from a document that had changed since it was read, the pickup
\* charge replaced a total that had more in it than the price, or the stops were
\* changed.
MoneyAddsUp ==
    causes = {} =>
        booking.total = booking.trip + booking.stop + extra
            + Tax * (booking.last["reached_at_stop_1"] + booking.last["reached_at_stop_2"])

\* A booking that is cancelled or completed while the car waits for its passenger
\* is charged only by a tick that had listed it before.  (At a stop it is charged
\* for ever, because those lists do not ask for booking_status.)
OnlyRidesAreCharged ==
    [][/\ booking.stage \in {"cancelled", "completed"} /\ booking'.stop > booking.stop
       => \E p \in Procs : /\ At(p, "charge")
                           /\ \/ proc[p].to \in Stops
                              \/ proc[p].seen[proc[p].to].stage = "accepted"]_vars

Waited ==
    LET since == booking.at["reached_at_pickup"] IN
    /\ booking.status = "reached_at_pickup" /\ booking.stage = "accepted"
    /\ IF since = None THEN FALSE ELSE clock - since >= PickupFree

\* A car that waits at the pickup for longer than is free is charged for in the
\* end, also when a party cannot be told, unless the ride goes on or ends or the
\* driver says again that he has arrived.
WaitIsBilled == Waited ~> booking.stop > 0 \/ ~Waited

\* The booking as the lists see it: the customer paid for it in the app, and its
\* date is today.
Listed ==
    [stage |-> booking.stage,
     status |-> IF booking.status = None THEN "none" ELSE booking.status,
     type |-> IF booking.stage = "cancelled" THEN "cancelled" ELSE "schedule",
     when |-> "today", paid |-> TRUE, driver |-> booking.driver,
     dispatcher |-> FALSE, company |-> FALSE]

\* RideStatus said ride_completed and Ride_Completed was not called, or it was
\* called of a booking that the driver had given back.
Lost ==
    \/ booking.stage = "accepted" /\ booking.status = "ride_completed"
    \/ booking.stage = "completed" /\ ~booking.driver

\* At every moment of a ride exactly one of the dispatcher's tabs has the booking,
\* the bookings that wait for a driver being one of them, unless it is lost; the driver
\* who has it and the admin find it in one list each; and so does the customer, in the
\* list and in its count, until a driver declines it: then he finds it nowhere until
\* somebody accepts it.
ListedOnce ==
    /\ Cardinality({tab \in Tabs : ScheduledTab(Listed, tab)})
         + (IF WaitingForDriver(Listed) THEN 1 ELSE 0) = IF Lost THEN 0 ELSE 1
    /\ Cardinality({list \in {"current", "past"} : CustomerList(Listed, list)})
         = IF booking.stage = "request" THEN 0 ELSE 1
    /\ \A list \in {"current", "past"} :
          CustomerList(Listed, list) <=> CustomerCount(Listed, list)
    /\ booking.driver =>
           /\ Cardinality({list \in {"current", "past"} : DriverList(Listed, list)}) = 1
           /\ \A list \in {"current", "past"} :
                 DriverList(Listed, list) <=> DriverCount(Listed, list)
    /\ WaitingForDriver(Listed) => "waiting_for_driver" \in Dashboard(Listed)
    /\ booking.stage \notin Open =>
           Cardinality({list \in Closed \cup {"accepted"} : AdminList(Listed, list)}) = 1
=============================================================================
