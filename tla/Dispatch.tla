------------------------------ MODULE Dispatch ------------------------------
(***************************************************************************)
(* Who drives which booking: the booking and driver documents, and every   *)
(* HTTP handler, search loop and cron task of BookingService that assigns, *)
(* offers, releases, cancels, fails or completes a ride.                   *)
(*                                                                         *)
(* A handler of this service is a chain of awaited database calls.  Each   *)
(* call is atomic on ONE document and nothing is atomic across two, so an  *)
(* action below is one database call, and call[c] holds what a handler in  *)
(* flight remembers between two of them: the step it is at (pc) and the    *)
(* values it read.  Any number of handlers may interleave; the set Calls   *)
(* bounds how many do at the same time.                                    *)
(*                                                                         *)
(* Left out: money, notifications, the activity log, the customer document *)
(* and the dates.  Where a handler decides by a date, or by a field that   *)
(* is left out, both outcomes are allowed.                                 *)
(***************************************************************************)
EXTENDS Naturals, FiniteSets

CONSTANTS
    Bookings,    \* booking documents
    Scheduled,   \* those with a schedule_date
    Drivers,     \* driver documents
    Calls,       \* handlers, loops and cron tasks that can be in flight
    Actors,      \* who is active: drivers, customers, dispatchers, searches, cron
    None         \* null: no driver, no booking

ASSUME ScheduledAssumption == Scheduled \subseteq Bookings
ASSUME NoneAssumption == None \notin Bookings \cup Drivers

VARIABLES
    booking,     \* Bookings -> status, driver and the two exclusion lists
    driver,      \* Drivers  -> ride_status, current_booking and the offer
    call,        \* Calls    -> what a handler in flight remembers
    won,         \* history: the drivers whose accept of a booking succeeded
    reassigned   \* history: the bookings that assignADriver has saved

docs == <<booking, driver>>
history == <<won, reassigned>>
vars == <<booking, driver, call, won, reassigned>>

-----------------------------------------------------------------------------
(* The documents.  booking_status null is "none"; "ongoing" is declared by  *)
(* the schema and assigned nowhere.                                         *)

Statuses == {"none", "request", "accepted", "completed", "cancelled", "failed"}

\* booking_status not in [failed, completed, cancelled, ongoing, accepted].
Open(status) == status \in {"none", "request"}

BookingType ==
    [status    : Statuses,
     driver    : Drivers \cup {None},
     cancelled : SUBSET Drivers,      \* cancelled_driver_ids
     notified  : SUBSET Drivers]      \* booking_notifications.driver_ids

DriverType ==
    [ride    : {"free", "busy"},          \* ride_status
     current : Bookings \cup {None},      \* current_booking
     offered : BOOLEAN,                   \* currently_send_ride_request
     offer   : Bookings \cup {None}]      \* currently_send_ride_request_id

NewBooking == [status |-> "none", driver |-> None, cancelled |-> {}, notified |-> {}]
FreeDriver == [ride |-> "free", current |-> None, offered |-> FALSE, offer |-> None]

\* Mutants: an update that leaves the flag set, one that mixes up two fields.
ClearOfferIdOnly(r) == [r EXCEPT !.offer = None]
OfferInFlag(r, b) == [r EXCEPT !.offered = b, !.offer = b]

\* currently_send_ride_request and its booking id are cleared, and set, together.
ClearOffer(r) == [r EXCEPT !.offered = FALSE, !.offer = None]
OfferOf(r, b) == [r EXCEPT !.offered = TRUE, !.offer = b]

-----------------------------------------------------------------------------
(* Calls in flight.  b, d: the booking and the driver the call is about;    *)
(* st, drv, skip: booking_status, driver_id and cancelled_driver_ids as     *)
(* they were when the call read the booking.                                *)

DriverPCs ==    \* steps of a call that is about one driver
    {"accept.driver", "accept.clear", "decline.read", "decline.write",
     "dcancel.driver", "dcancel.booking", "complete.driver",
     "assign.unassign", "assign.save",
     "offer.flag", "search.flag", "search.listed", "search.poll"}

BookingPCs ==   \* steps of a call that is about a booking alone
    {"ccancel.close", "ccancel.offers", "crequest.offers", "crequest.check",
     "crequest.both", "crequest.release", "dispatcher.offers",
     "dispatcher.driver", "search.pick", "search.unflag",
     "expire.fail", "expire.clear", "handover.check", "handover.write",
     "refund"}

IdleCall == [pc |-> "idle", b |-> None, d |-> None,
             st |-> "none", drv |-> None, skip |-> {}]

CallType ==
    {IdleCall}
    \cup [pc : DriverPCs, b : Bookings, d : Drivers,
          st : Statuses, drv : Drivers \cup {None}, skip : SUBSET Drivers]
    \cup [pc : BookingPCs, b : Bookings, d : {None},
          st : Statuses, drv : Drivers \cup {None}, skip : SUBSET Drivers]

At(c, pc) == call[c].pc = pc
Idle(c) == call[c] = IdleCall

\* A call at pc about booking b and driver d that remembers nothing it read.
Step(pc, b, d) ==
    [pc |-> pc, b |-> b, d |-> d, st |-> "none", drv |-> None, skip |-> {}]

Begin(c, pc, b, d) == call' = [call EXCEPT ![c] = Step(pc, b, d)]
Goto(c, pc) == call' = [call EXCEPT ![c].pc = pc]
End(c) == call' = [call EXCEPT ![c] = IdleCall]

\* A call that goes on with the driver_id it has just read or written.
Remember(c, pc, drv) ==
    call' = [call EXCEPT ![c] = [Step(pc, call[c].b, call[c].d) EXCEPT !.drv = drv]]

\* cancelRefund is the last thing such a call does that changes a document.
EndWithRefund(c) == Goto(c, "refund")

\* Mutant: the reset forgets ride_status.
ResetKeepsBusy(d) ==
    driver' = [x \in Drivers |->
                IF x = d THEN [FreeDriver EXCEPT !.ride = driver[x].ride] ELSE driver[x]]

\* drivers.updateOne({ _id: d }, ...): null matches no document.
ResetDriver(d) == driver' = [x \in Drivers |-> IF x = d THEN FreeDriver ELSE driver[x]]
ResetDrivers(S) == driver' = [x \in Drivers |-> IF x \in S THEN FreeDriver ELSE driver[x]]

OfferedOn(b) == {x \in Drivers : driver[x].offer = b}

-----------------------------------------------------------------------------
Init ==
    /\ booking = [b \in Bookings |-> NewBooking]
    /\ driver = [d \in Drivers |-> FreeDriver]
    /\ call = [c \in Calls |-> IdleCall]
    /\ won = [b \in Bookings |-> {}]
    /\ reassigned = {}

-----------------------------------------------------------------------------
(* accept_booking.  The first write is a compare-and-set on the booking; a  *)
(* driver it does not match is told the ride is taken and changes nothing.  *)
(* Whether the driver is free, online or was ever offered b is not checked. *)

\* Mutant: the filter without its status condition.
AcceptMatchesNoDriver(b) == booking[b].driver = None

AcceptMatches(b) ==
    /\ booking[b].status \notin {"accepted", "cancelled", "failed"}
    /\ booking[b].driver = None

AcceptBooking(c, b, d) ==
    /\ Idle(c)
    /\ AcceptMatches(b)
    /\ booking' = [booking EXCEPT ![b].status = "accepted", ![b].driver = d]
    /\ won' = [won EXCEPT ![b] = @ \cup {d}]
    /\ Begin(c, "accept.driver", b, d)
    /\ UNCHANGED <<driver, reassigned>>

AcceptDriver(c) ==
    /\ At(c, "accept.driver")
    /\ driver' = [driver EXCEPT ![call[c].d] =
                    [ride |-> "busy", current |-> call[c].b,
                     offered |-> FALSE, offer |-> None]]
    /\ Goto(c, "accept.clear")
    /\ UNCHANGED <<booking, history>>

\* Every other driver still holding an offer of the booking loses it.
AcceptClear(c) ==
    /\ At(c, "accept.clear")
    /\ driver' = [x \in Drivers |->
                    IF driver[x].offer = call[c].b /\ x # call[c].d
                    THEN ClearOffer(driver[x]) ELSE driver[x]]
    /\ End(c)
    /\ UNCHANGED <<booking, history>>

-----------------------------------------------------------------------------
(* decline_booking.  It clears whatever offer the driver holds, reads the   *)
(* booking if it is open, and then writes back, by _id alone, a status and  *)
(* a driver computed from what it read.                                     *)

DeclineBooking(c, b, d) ==
    /\ Idle(c)
    /\ driver' = [driver EXCEPT ![d] = ClearOffer(@)]
    /\ Begin(c, "decline.read", b, d)
    /\ UNCHANGED <<booking, history>>

DeclineRead(c) ==
    LET b == call[c].b
    IN  /\ At(c, "decline.read")
        /\ IF Open(booking[b].status)
           THEN Remember(c, "decline.write", booking[b].driver)
           ELSE End(c)
        /\ UNCHANGED <<docs, history>>

\* Mutant: a booking without a driver is written back to the one who declined.
DeclinedKeepsDecliner(read, d) == IF read = None THEN d ELSE read

DeclinedDriver(read, d) == IF read = d THEN None ELSE read

DeclineWrite(c) ==
    LET b == call[c].b
    IN  /\ At(c, "decline.write")
        /\ booking' = [booking EXCEPT
                ![b].status = "request",
                ![b].driver = DeclinedDriver(call[c].drv, call[c].d)]
        /\ End(c)
        /\ UNCHANGED <<driver, history>>

-----------------------------------------------------------------------------
(* booking_cancelled by a driver: one whose accept of b once succeeded, and *)
(* whose app may show the ride after it was taken from him.  The driver     *)
(* freed is the one the booking had when it was read.                       *)

DriverCancel(c, b, d) ==
    /\ Idle(c)
    /\ d \in won[b]
    /\ booking[b].status # "completed"
    /\ call' = [call EXCEPT ![c] =
                  [Step("dcancel.driver", b, d) EXCEPT !.drv = booking[b].driver]]
    /\ UNCHANGED <<docs, history>>

DriverCancelFree(c) ==
    /\ At(c, "dcancel.driver")
    /\ ResetDriver(call[c].drv)
    /\ Goto(c, "dcancel.booking")
    /\ UNCHANGED <<booking, history>>

\* Mutant: the scheduled branch without its driver_id: null.
ReopenedWithDriver(b, d) ==
    IF b \in Scheduled
    THEN [booking[b] EXCEPT !.status = "none"]
    ELSE [booking[b] EXCEPT !.status = "none", !.cancelled = @ \cup {d}]

\* A scheduled booking is given back; an immediate one keeps its driver_id and
\* excludes the driver who cancelled from the search that starts again.
ReopenedByDriver(b, d) ==
    IF b \in Scheduled
    THEN [booking[b] EXCEPT !.status = "none", !.driver = None]
    ELSE [booking[b] EXCEPT !.status = "none", !.cancelled = @ \cup {d}]

DriverCancelBooking(c) ==
    LET b == call[c].b
    IN  /\ At(c, "dcancel.booking")
        /\ booking' = [booking EXCEPT ![b] = ReopenedByDriver(b, call[c].d)]
        /\ End(c)
        /\ UNCHANGED <<driver, history>>

-----------------------------------------------------------------------------
(* booking_cancelled by the customer (or staff).  Completed is looked at    *)
(* when the booking is read, the status is written later.                   *)

CustomerCancel(c, b) ==
    /\ Idle(c)
    /\ booking[b].status # "completed"
    /\ Begin(c, "ccancel.close", b, None)
    /\ UNCHANGED <<docs, history>>

CustomerCancelClose(c) ==
    LET b == call[c].b
    IN  /\ At(c, "ccancel.close")
        /\ booking' = [booking EXCEPT ![b].status = "cancelled"]
        /\ Remember(c, "ccancel.offers", booking[b].driver)
        /\ UNCHANGED <<driver, history>>

\* updateOne: of the drivers holding an offer of b, one is reset.
CustomerCancelOffer(c) ==
    LET offered == OfferedOn(call[c].b)
    IN  /\ At(c, "ccancel.offers")
        /\ \/ offered = {} /\ UNCHANGED driver
           \/ \E d \in offered : ResetDriver(d)
        /\ EndWithRefund(c)
        /\ UNCHANGED <<booking, history>>

-----------------------------------------------------------------------------
(* cancel_request: the customer withdraws the request, whatever its status. *)

CancelRequest(c, b) ==
    /\ Idle(c)
    /\ booking' = [booking EXCEPT ![b].status = "cancelled"]
    /\ Begin(c, "crequest.offers", b, None)
    /\ UNCHANGED <<driver, history>>

CancelRequestOffers(c) ==
    /\ At(c, "crequest.offers")
    /\ ResetDrivers(OfferedOn(call[c].b))
    /\ Goto(c, "crequest.check")
    /\ UNCHANGED <<booking, history>>

\* check_driver_accept_the_req: the refund starts here and is not awaited.
CancelRequestCheck(c) ==
    LET drv == booking[call[c].b].driver
    IN  /\ At(c, "crequest.check")
        /\ Remember(c, IF drv = None THEN "refund" ELSE "crequest.both", drv)
        /\ UNCHANGED <<docs, history>>

\* The handler frees the driver before or after the refund does.
CancelRequestRelease(c) ==
    /\ \/ At(c, "crequest.both") /\ EndWithRefund(c)
       \/ At(c, "crequest.release") /\ End(c)
    /\ ResetDriver(call[c].drv)
    /\ UNCHANGED <<booking, history>>

-----------------------------------------------------------------------------
(* cancelRefund, as far as it touches a driver: the driver of the document  *)
(* it was given becomes free once the refund went through.  It does nothing *)
(* for an invoiced booking, for other scopes, or when Stripe refuses.       *)

RefundFrees(drv) ==
    driver' = [x \in Drivers |->
                IF x = drv THEN [driver[x] EXCEPT !.ride = "free"] ELSE driver[x]]

CancelRefund(c) ==
    /\ \/ At(c, "refund") /\ End(c)
       \/ At(c, "crequest.both") /\ Goto(c, "crequest.release")
    /\ RefundFrees(call[c].drv) \/ UNCHANGED driver
    /\ UNCHANGED <<booking, history>>

-----------------------------------------------------------------------------
(* cancel_ride_by_dispatcher: no status is looked at.                       *)

DispatcherCancel(c, b) ==
    /\ Idle(c)
    /\ booking' = [booking EXCEPT ![b].status = "cancelled"]
    /\ call' = [call EXCEPT ![c] =
                  [Step("dispatcher.offers", b, None) EXCEPT !.drv = booking[b].driver]]
    /\ UNCHANGED <<driver, history>>

DispatcherCancelOffers(c) ==
    LET b == call[c].b
    IN  /\ At(c, "dispatcher.offers")
        /\ ResetDrivers({x \in Drivers : driver[x].offer = b \/ driver[x].current = b})
        /\ Goto(c, "dispatcher.driver")
        /\ UNCHANGED <<booking, history>>

DispatcherCancelDriver(c) ==
    /\ At(c, "dispatcher.driver")
    /\ ResetDriver(call[c].drv)
    /\ End(c)
    /\ UNCHANGED <<booking, history>>

-----------------------------------------------------------------------------
(* assignADriver: the booking is loaded as a document, d is sent an offer   *)
(* without waiting (a call o of its own), the driver the document had loses *)
(* its current_booking, and the document is saved.  save() writes the paths *)
(* that were changed and nothing else.  Immediate bookings never get here:  *)
(* without a schedule_date the query for the driver's other rides throws.   *)

AssignADriver(c, o, b, d) ==
    /\ c # o /\ Idle(c) /\ Idle(o)
    /\ b \in Scheduled
    /\ call' = [call EXCEPT
         ![c] = [Step(IF booking[b].driver = None THEN "assign.save"
                                                  ELSE "assign.unassign", b, d)
                 EXCEPT !.st = booking[b].status, !.drv = booking[b].driver],
         ![o] = IF d \in booking[b].cancelled THEN @ ELSE Step("offer.flag", b, d)]
    /\ UNCHANGED <<docs, history>>

\* updateOne({ current_booking: b }): ride_status is left as it is.
AssignUnassign(c) ==
    LET holders == {x \in Drivers : driver[x].current = call[c].b}
    IN  /\ At(c, "assign.unassign")
        /\ \/ holders = {} /\ UNCHANGED driver
           \/ \E x \in holders : driver' = [driver EXCEPT ![x].current = None]
        /\ Goto(c, "assign.save")
        /\ UNCHANGED <<booking, history>>

SavedByAssign(b, st, drv) ==
    [booking[b] EXCEPT
        !.driver = IF drv = None THEN @ ELSE None,
        !.status = IF st = "request" THEN @ ELSE "request"]

AssignSave(c) ==
    LET b == call[c].b
    IN  /\ At(c, "assign.save")
        /\ booking' = [booking EXCEPT ![b] = SavedByAssign(b, call[c].st, call[c].drv)]
        /\ reassigned' = reassigned \cup {b}
        /\ End(c)
        /\ UNCHANGED <<driver, won>>

-----------------------------------------------------------------------------
(* Ride_Completed (no status is looked at; "curent_booking" is no field of  *)
(* the driver, so current_booking stays), recived_payment and the admin's   *)
(* freeDrivers, which updates the driver documents one by one.              *)

RideCompleted(c, b, d) ==
    /\ Idle(c)
    /\ d \in won[b]
    /\ booking' = [booking EXCEPT ![b].status = "completed"]
    /\ Begin(c, "complete.driver", b, d)
    /\ UNCHANGED <<driver, history>>

RideCompletedDriver(c) ==
    /\ At(c, "complete.driver")
    /\ driver' = [driver EXCEPT ![call[c].d] = [ClearOffer(@) EXCEPT !.ride = "free"]]
    /\ End(c)
    /\ UNCHANGED <<booking, history>>

RecivedPayment(b, d) ==
    /\ d \in won[b]
    /\ driver' = [driver EXCEPT ![d].current = None, ![d].ride = "free"]
    /\ UNCHANGED <<booking, call, history>>

FreeDrivers(d) ==
    /\ driver' = [driver EXCEPT ![d] = FreeDriver]
    /\ UNCHANGED <<booking, call, history>>

-----------------------------------------------------------------------------
(* send_push_to_nearest_drivers with find_drivers_under_5km_radius: read an *)
(* open booking; pick a free driver that was not asked before; push, then   *)
(* flag the driver, list it, and poll for an answer for thirty seconds.  A  *)
(* round that found nobody in time fails the booking by _id alone.          *)

SearchRead(c, b) ==
    /\ Idle(c)
    /\ Open(booking[b].status)
    /\ call' = [call EXCEPT ![c] =
                  [Step("search.pick", b, None) EXCEPT !.skip = booking[b].cancelled]]
    /\ UNCHANGED <<docs, history>>

SearchPick(c, d) ==
    LET b == call[c].b
    IN  /\ At(c, "search.pick")
        /\ d \notin call[c].skip \cup booking[b].notified
        /\ driver[d].ride = "free" /\ ~driver[d].offered
        /\ Begin(c, "search.flag", b, d)
        /\ UNCHANGED <<docs, history>>

SearchFlag(c) ==
    /\ At(c, "search.flag")
    /\ driver' = [driver EXCEPT ![call[c].d] = OfferOf(@, call[c].b)]
    /\ Goto(c, "search.listed")
    /\ UNCHANGED <<booking, history>>

\* A driver without a session is listed too, and never flagged.
SearchList(c) ==
    LET b == call[c].b
    IN  /\ \/ At(c, "search.listed") /\ Goto(c, "search.poll")
           \/ At(c, "search.flag") /\ End(c)
        /\ booking' = [booking EXCEPT ![b].notified = @ \cup {call[c].d}]
        /\ UNCHANGED <<driver, history>>

\* Answered or out of polls: the offer the driver now holds is cleared.
SearchPolled(c) ==
    /\ At(c, "search.poll")
    /\ driver' = [driver EXCEPT ![call[c].d] = ClearOffer(@)]
    /\ End(c)
    /\ UNCHANGED <<booking, history>>

SearchSeesCancel(c) ==
    /\ At(c, "search.poll")
    /\ booking[call[c].b].status = "cancelled"
    /\ End(c)
    /\ UNCHANGED <<docs, history>>

SearchFail(c) ==
    LET b == call[c].b
    IN  /\ At(c, "search.pick")
        /\ booking' = [booking EXCEPT ![b].status = "failed"]
        /\ Remember(c, "search.unflag", booking[b].driver)
        /\ UNCHANGED <<driver, history>>

\* The flag is cleared, the booking id beside it is not.
SearchUnflag(c) ==
    /\ At(c, "search.unflag")
    /\ driver' = [x \in Drivers |->
                    IF driver[x].offer = call[c].b
                    THEN [driver[x] EXCEPT !.offered = FALSE] ELSE driver[x]]
    /\ EndWithRefund(c)
    /\ UNCHANGED <<booking, history>>

-----------------------------------------------------------------------------
(* sent_broadcast_request: every driver without an offer, busy or not, is   *)
(* pushed and flagged, each in a task of its own; the booking is not read.  *)

Broadcast(c, b, d) ==
    /\ Idle(c)
    /\ ~driver[d].offered
    /\ Begin(c, "offer.flag", b, d)
    /\ UNCHANGED <<docs, history>>

OfferFlag(c) ==
    /\ At(c, "offer.flag")
    /\ driver' = [driver EXCEPT ![call[c].d] = OfferOf(@, call[c].b)]
    /\ End(c)
    /\ UNCHANGED <<booking, history>>

-----------------------------------------------------------------------------
(* scheduled_Booking_noti works on two lists it read at the start of the    *)
(* tick: open bookings it fails once their time has passed (broadcasting),  *)
(* and accepted ones it hands to their driver, if he is free.               *)

ExpireRead(c, b) ==
    /\ Idle(c)
    /\ b \in Scheduled /\ Open(booking[b].status) /\ booking[b].driver = None
    /\ Begin(c, "expire.fail", b, None)
    /\ UNCHANGED <<docs, history>>

ExpireFail(c) ==
    LET b == call[c].b
    IN  /\ At(c, "expire.fail")
        /\ booking' = [booking EXCEPT ![b].status = "failed"]
        /\ Remember(c, "expire.clear", booking[b].driver)
        /\ UNCHANGED <<driver, history>>

ExpireClear(c) ==
    /\ At(c, "expire.clear")
    /\ driver' = [x \in Drivers |->
                    IF driver[x].offer = call[c].b
                    THEN ClearOffer(driver[x]) ELSE driver[x]]
    /\ EndWithRefund(c)
    /\ UNCHANGED <<booking, history>>

HandOverRead(c, b) ==
    /\ Idle(c)
    /\ b \in Scheduled /\ booking[b].status = "accepted"
    /\ call' = [call EXCEPT ![c] =
                  [Step("handover.check", b, None) EXCEPT !.drv = booking[b].driver]]
    /\ UNCHANGED <<docs, history>>

HandOverCheck(c) ==
    LET drv == call[c].drv
    IN  /\ At(c, "handover.check")
        /\ IF drv \in Drivers /\ driver[drv].ride = "free"
           THEN Goto(c, "handover.write") ELSE End(c)
        /\ UNCHANGED <<docs, history>>

HandOverWrite(c) ==
    /\ At(c, "handover.write")
    /\ driver' = [driver EXCEPT ![call[c].drv].current = call[c].b,
                                ![call[c].drv].ride = "busy"]
    /\ End(c)
    /\ UNCHANGED <<booking, history>>

-----------------------------------------------------------------------------
\* A request, loop or tick of an active party starts, ...
Start(c, b) ==
    \/ /\ "driver" \in Actors
       /\ \E d \in Drivers :
            AcceptBooking(c, b, d) \/ DeclineBooking(c, b, d)
            \/ DriverCancel(c, b, d) \/ RideCompleted(c, b, d)
    \/ /\ "customer" \in Actors
       /\ CustomerCancel(c, b) \/ CancelRequest(c, b)
    \/ /\ "dispatcher" \in Actors
       /\ \/ DispatcherCancel(c, b)
          \/ \E d \in Drivers : Broadcast(c, b, d)
          \/ \E d \in Drivers, o \in Calls : AssignADriver(c, o, b, d)
    \/ "search" \in Actors /\ SearchRead(c, b)
    \/ /\ "cron" \in Actors
       /\ \/ ExpireRead(c, b) \/ HandOverRead(c, b)
          \/ \E d \in Drivers : Broadcast(c, b, d)

\* ... one in flight goes on, ...
Continue(c) ==
    \/ AcceptDriver(c) \/ AcceptClear(c)
    \/ DeclineRead(c) \/ DeclineWrite(c)
    \/ DriverCancelFree(c) \/ DriverCancelBooking(c)
    \/ CustomerCancelClose(c) \/ CustomerCancelOffer(c)
    \/ CancelRequestOffers(c) \/ CancelRequestCheck(c) \/ CancelRequestRelease(c)
    \/ CancelRefund(c)
    \/ DispatcherCancelOffers(c) \/ DispatcherCancelDriver(c)
    \/ AssignUnassign(c) \/ AssignSave(c)
    \/ RideCompletedDriver(c)
    \/ (\E d \in Drivers : SearchPick(c, d))
    \/ SearchFlag(c) \/ SearchList(c) \/ SearchPolled(c) \/ SearchSeesCancel(c)
    \/ SearchFail(c) \/ SearchUnflag(c)
    \/ OfferFlag(c)
    \/ ExpireFail(c) \/ ExpireClear(c)
    \/ HandOverCheck(c) \/ HandOverWrite(c)

\* ... or a handler of a single write runs.
Next ==
    \/ \E c \in Calls : Continue(c) \/ \E b \in Bookings : Start(c, b)
    \/ "driver" \in Actors /\ \E b \in Bookings, d \in Drivers : RecivedPayment(b, d)
    \/ "dispatcher" \in Actors /\ \E d \in Drivers : FreeDrivers(d)

Spec == Init /\ [][Next]_vars

-----------------------------------------------------------------------------
TypeOK ==
    /\ booking \in [Bookings -> BookingType]
    /\ driver \in [Drivers -> DriverType]
    /\ call \in [Calls -> CallType]
    /\ won \in [Bookings -> SUBSET Drivers]
    /\ reassigned \subseteq Bookings

\* The booking and the driver documents only name drivers who won the booking:
\* nothing but a successful accept puts a driver on a ride, and no stale value
\* written back (decline, hand-over) names anybody else.
OnlyWinners ==
    /\ \A b \in Bookings : booking[b].driver \in won[b] \cup {None}
    /\ \A d \in Drivers :
          driver[d].current # None => d \in won[driver[d].current]

\* As long as no dispatcher's save has touched a booking, its status and its
\* driver agree, however the handlers interleave: accepted means there is a
\* driver, and an open scheduled booking has none, so that an accept can match.
StatusAgreesWithDriver ==
    \A b \in Bookings \ reassigned :
        /\ booking[b].status = "accepted" => booking[b].driver # None
        /\ b \in Scheduled /\ Open(booking[b].status) => booking[b].driver = None

\* A driver with the offered flag set can be found by the booking he is offered:
\* cancel, accept and expiry clear an offer by its booking id, and the search
\* never picks a driver whose flag is set.
FlagHasBooking ==
    \A d \in Drivers : driver[d].offered => driver[d].offer # None

\* Busy without a current booking: the driver's app shows no ride to finish and
\* the search does not pick him.
Stranded(r) == r.ride = "busy" /\ r.current = None

\* Of all the handlers that take a ride from a driver, only a dispatcher's
\* reassignment leaves him stranded.
StrandedOnlyByAssign ==
    [][\A d \in Drivers :
          Stranded(driver[d]) \/ ~Stranded(driver'[d])
          \/ \E c \in Calls : At(c, "assign.unassign") /\ call'[c].pc = "assign.save"]_vars

-----------------------------------------------------------------------------
(* The lifecycle each booking document goes through.                        *)

Phase(status) ==
    CASE Open(status)          -> "open"
      [] status = "accepted"   -> "held"
      [] status = "completed"  -> "completed"
      [] OTHER                 -> "dead"

LifecycleOf(r) ==
    [phase |-> Phase(r.status),
     by |-> IF r.status = "accepted" THEN r.driver ELSE None]

Lifecycle == INSTANCE RideLifecycle WITH ride <- [b \in Bookings |-> LifecycleOf(booking[b])]

\* However the handlers interleave, a booking is taken only when nobody holds
\* it and it is not cancelled or failed, and never passes directly from driver
\* to driver.
ImplementsLifecycle == Lifecycle!Spec

-----------------------------------------------------------------------------
(* What messages and comments of the code promise, and the code does not do.*)

Quiet == \A c \in Calls : Idle(c)

\* "We are currently looking for another driver to assist you" (the message to
\* the customer of a driver's cancel): an open booking can be accepted.
SearchedIsAcceptable ==
    Quiet => \A b \in Bookings : Open(booking[b].status) => AcceptMatches(b)

\* "Booking already completed cannot cancelled!" (booking_cancelled).
CompletedNotCancelled ==
    [][\A b \in Bookings :
          booking[b].status = "completed" => booking'[b].status # "cancelled"]_vars

\* "If a driver had accepted the booking, reset their state"
\* (cancel_ride_by_dispatcher).
CancelResetsDriver ==
    Quiet => \A d \in Drivers :
        driver[d].ride = "busy" /\ driver[d].current # None
            => booking[driver[d].current].status # "cancelled"
=============================================================================
