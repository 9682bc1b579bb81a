------------------------------ MODULE Listings ------------------------------
(***************************************************************************)
(* The lists of bookings that customers, drivers, dispatchers and admins   *)
(* see: which bookings a query finds.                                      *)
(*                                                                         *)
(* A booking is a record: stage is booking_status ("none": null, as it is  *)
(* made and as a driver's cancel leaves it; "request" is what a decline    *)
(* writes), status ride_status, type booking_type, when is schedule_date   *)
(* ("none", "past": a day before today, "today", "later"), paid is         *)
(* payment_success; driver, dispatcher and company are whether one is set. *)
(*                                                                         *)
(* Left out: whose booking it is (the lists of a party ask for its id),    *)
(* pages, order, search, and the fields that are shown.                    *)
(***************************************************************************)
EXTENDS FiniteSets

Open == {"none", "request"}
Closed == {"cancelled", "completed", "failed"}
Driving == {"start_ride", "reached_at_stop_1", "started_from_Stop_1",
            "reached_at_stop_2", "started_from_Stop_2"}

PaidOrDispatched(b) == b.paid \/ b.dispatcher

-----------------------------------------------------------------------------
(* booking_listing, for a customer and for a driver.  For the customer the *)
(* count under the list, and the past, leave out what a dispatcher made;   *)
(* the driver's count has open bookings that the list has not.  No list of *)
(* either asks for the status 'request'.                                   *)

CustomerList(b, list) ==
    CASE list = "current" -> b.stage \in {"accepted", "none"} /\ PaidOrDispatched(b)
      [] list = "past" -> b.stage \in Closed /\ b.paid

CustomerCount(b, list) ==
    /\ b.stage \in IF list = "current" THEN {"accepted", "none"} ELSE Closed
    /\ b.paid

DriverList(b, list) ==
    /\ b.driver /\ PaidOrDispatched(b)
    /\ b.stage \in IF list = "current" THEN {"accepted"} ELSE Closed

DriverCount(b, list) ==
    /\ b.driver /\ PaidOrDispatched(b)
    /\ b.stage \in IF list = "current" THEN {"accepted", "none"} ELSE Closed

-----------------------------------------------------------------------------
(* The dispatcher's tabs.                                                  *)

Tabs == {"upcoming", "ongoing", "completed", "cancelled"}

\* Mutant: the list of statuses stops at the first stop.
ScheduledTabOneStop(b, tab) ==
    /\ b.when # "none"
    /\ CASE tab = "upcoming" -> /\ b.stage \in Open \cup {"accepted"} /\ b.driver
                                /\ b.status \in {"none", "reached_at_pickup"}
         [] tab = "ongoing" -> /\ b.stage = "accepted" /\ b.driver
                               /\ b.status \in Driving \ {"reached_at_stop_2",
                                                          "started_from_Stop_2"}
         [] tab = "completed" -> b.stage = "completed" /\ b.driver
         [] tab = "cancelled" -> b.stage \in {"cancelled", "failed"}

\* buildScheduledBookingQuery.
ScheduledTab(b, tab) ==
    /\ b.when # "none"
    /\ CASE tab = "upcoming" -> /\ b.stage \in Open \cup {"accepted"} /\ b.driver
                                /\ b.status \in {"none", "reached_at_pickup"}
         [] tab = "ongoing" -> /\ b.stage \in {"accepted", "ongoing"} /\ b.driver
                               /\ b.status \in Driving
         [] tab = "completed" -> b.stage = "completed" /\ b.driver
         [] tab = "cancelled" -> b.stage \in {"cancelled", "failed"}

WaitingForDriver(b) ==
    /\ b.stage \in Open /\ ~b.driver
    /\ b.when \in {"today", "later"}
    /\ b.type \in {"schedule", "current", "scheduled_draft"}
    /\ PaidOrDispatched(b) \/ b.company

\* dispatcherBookingList, of the bookings he made himself: nothing is ever ongoing.
DispatcherList(b, list) ==
    /\ b.dispatcher
    /\ b.stage \in CASE list = "upcoming" -> {"accepted"} \cup Open
                     [] list = "completed" -> {"completed"}
                     [] list = "ongoing" -> {"ongoing"}

-----------------------------------------------------------------------------
(* The admin's list and the dispatcher's dashboard.                        *)

AdminList(b, list) ==
    IF list = "scheduled" THEN b.type = "schedule" ELSE b.stage = list

\* Each is also counted for the week and the month in which it was made.
Dashboard(b) ==
    {box \in {"request", "waiting_for_driver", "schedule_assign_to_driver"} :
        CASE box = "request" -> b.stage \in {"accepted"} \cup Open
          [] box = "waiting_for_driver" -> ~b.driver
          [] box = "schedule_assign_to_driver" -> b.when # "none" /\ b.driver}
=============================================================================
