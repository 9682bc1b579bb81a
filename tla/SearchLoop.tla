----------------------------- MODULE SearchLoop -----------------------------
(***************************************************************************)
(* The search for a driver of ONE immediate booking, in detail:            *)
(* send_push_to_nearest_drivers, the loop that asks one driver after the   *)
(* other, and find_drivers_under_5km_radius, the loop inside it that       *)
(* finds the next one.  Dispatch lets a search pick, ask and fail at any   *)
(* moment; here a search has its rounds, its polls and its three minutes,  *)
(* lives in memory only, and more than one can run for the same booking:   *)
(* a driver's cancel starts another, and so does each delivery of the      *)
(* payment webhook.                                                        *)
(*                                                                         *)
(* An action is one database call, as in Dispatch.  The drivers are those  *)
(* within 7 km with a matching vehicle; their order by distance changes    *)
(* from round to round and is left open.                                   *)
(***************************************************************************)
EXTENDS Naturals, FiniteSets, Sequences

CONSTANTS
    Drivers,   \* approved drivers who can answer the booking
    Near,      \* those of them the search finds in range
    Loops,     \* searches that can be started for the booking
    Polls,     \* how often a search looks for an answer (30 in the code)
    Actors,    \* what happens besides: "customer" and "driver" cancel, "switch"
    MaxRequests,  \* bound: requests of drivers
    None       \* null

ASSUME NearAssumption == Near \subseteq Drivers
ASSUME PollsAssumption == Polls \in Nat \ {0}
ASSUME RequestsAssumption == MaxRequests \in Nat
ASSUME NoDriverAssumption == None \notin Drivers

VARIABLES
    booking,   \* the booking document: status, driver_id, cancelled_driver_ids
    lists,     \* the booking_notifications documents, oldest first
    driver,    \* Drivers -> free, flagged and the first answer on record
    loop,      \* Loops   -> a search and what it remembers
    handler,   \* Drivers -> the driver's request in flight
    requests,  \* how many requests the drivers have made
    cancel,    \* the customer's cancel: not yet, between its writes, done
    lost       \* history: what may have dropped the booking from the search

vars == <<booking, lists, driver, loop, handler, requests, cancel, lost>>

-----------------------------------------------------------------------------
Statuses == {"none", "request", "accepted", "cancelled", "failed"}

\* booking_status not in [failed, completed, cancelled, ongoing, accepted].
Open(status) == status \in {"none", "request"}

DriverType ==
    [free   : BOOLEAN,     \* online, ride_status free
     flag   : BOOLEAN,     \* currently_send_ride_request
     answer : {"none", "accepted", "decline"}]  \* first declined_bookings document

LoopPCs == {"new", "read", "listed", "scan", "flag", "list", "create", "push",
            "poll", "check", "clear.go", "clear.end", "unflag", "reject", "ended"}

\* d: the driver being asked; skip: drivers this round leaves out; todo: those
\* it has not looked at; late: the three minutes have passed.
LoopType ==
    [pc : LoopPCs, d : Drivers \cup {None}, skip : SUBSET Drivers,
     todo : SUBSET Near, flagged : BOOLEAN, resp : {"none", "accepted", "decline"},
     polls : 0..Polls, late : BOOLEAN, asked : SUBSET Drivers]

NewLoop == [pc |-> "new", d |-> None, skip |-> {}, todo |-> {}, flagged |-> FALSE,
            resp |-> "none", polls |-> 0, late |-> FALSE, asked |-> {}]

HandlerPCs == {"idle", "accept.driver", "accept.record", "accept.clear",
               "decline.clear", "decline.read", "decline.write",
               "dcancel.write", "dcancel.search"}

IdleHandler == [pc |-> "idle", drv |-> None]

TypeOK ==
    /\ booking \in [status : Statuses, driver : Drivers \cup {None},
                    cancelled : SUBSET Drivers]
    /\ lists \in Seq(SUBSET Drivers)
    /\ driver \in [Drivers -> DriverType]
    /\ loop \in [Loops -> LoopType]
    /\ handler \in [Drivers -> [pc : HandlerPCs, drv : Drivers \cup {None}]]
    /\ requests \in 0..MaxRequests
    /\ cancel \in {"none", "offer", "done"}
    /\ lost \subseteq {"decline", "cancel", "again", "restart", "late"}

Init ==
    /\ booking = [status |-> "none", driver |-> None, cancelled |-> {}]
    /\ lists = <<>>
    /\ driver \in [Drivers -> [free : BOOLEAN, flag : {FALSE}, answer : {"none"}]]
    /\ loop = [l \in Loops |-> NewLoop]
    /\ handler = [d \in Drivers |-> IdleHandler]
    /\ requests = 0
    /\ cancel = "none"
    /\ lost = {}

-----------------------------------------------------------------------------
At(l, pc) == loop[l].pc = pc
Goto(l, pc) == loop' = [loop EXCEPT ![l].pc = pc]

\* Mutant: each round has three minutes of its own.
NextRoundNewLimit(l) ==
    loop' = [loop EXCEPT ![l] = [NewLoop EXCEPT !.pc = "read", !.asked = loop[l].asked]]

\* What a round leaves behind is not used by the next one.
NextRound(l) ==
    loop' = [loop EXCEPT ![l] = [NewLoop EXCEPT !.pc = "read", !.late = loop[l].late,
                                                !.asked = loop[l].asked]]
EndSearch(l) == loop' = [loop EXCEPT ![l] = [NewLoop EXCEPT !.pc = "ended"]]

\* Mutant: the list of drivers already asked is not added to the query.
SkipOnlyCancelled(l) == loop[l].skip

\* Only the first list is looked at.
SkipWithListed(l) == loop[l].skip \cup (IF lists = <<>> THEN {} ELSE lists[1])

\* A paid booking (ready_now_schedule_booking, each delivery of the webhook)
\* starts a search, whatever the booking's status is by then.
StartSearch(l) ==
    /\ At(l, "new")
    /\ Goto(l, "read")
    /\ UNCHANGED <<booking, lists, driver, handler, requests, cancel, lost>>

\* Three minutes after updated_at; each search has a copy of its own.
TimePasses(l) ==
    /\ loop[l].pc \notin {"new", "ended"} /\ ~loop[l].late
    /\ loop' = [loop EXCEPT ![l].late = TRUE]
    /\ UNCHANGED <<booking, lists, driver, handler, requests, cancel, lost>>

SearchRead(l) ==
    /\ At(l, "read")
    /\ IF Open(booking.status)
       THEN loop' = [loop EXCEPT ![l].pc = "listed", ![l].skip = booking.cancelled]
       ELSE EndSearch(l)
    /\ UNCHANGED <<booking, lists, driver, handler, requests, cancel, lost>>

SearchListed(l) ==
    /\ At(l, "listed")
    /\ loop' = [loop EXCEPT ![l].pc = "scan", ![l].skip = SkipWithListed(l),
                            ![l].todo = Near]
    /\ UNCHANGED <<booking, lists, driver, handler, requests, cancel, lost>>

Available(d) == driver[d].free /\ ~driver[d].flag

\* The next driver in range is asked, or passed over; the time is looked at
\* after a driver was passed over, and only then.
SearchAsk(l, d) ==
    /\ At(l, "scan") /\ d \in loop[l].todo
    /\ d \notin loop[l].skip /\ Available(d)
    /\ loop' = [loop EXCEPT ![l].pc = "flag", ![l].d = d,
                            ![l].asked = @ \cup {d}, ![l].todo = {}, ![l].skip = {}]
    /\ UNCHANGED <<booking, lists, driver, handler, requests, cancel, lost>>

SearchPassOver(l, d) ==
    /\ At(l, "scan") /\ d \in loop[l].todo
    /\ d \in loop[l].skip \/ ~Available(d)
    /\ ~loop[l].late
    /\ loop' = [loop EXCEPT ![l].todo = @ \ {d}]
    /\ UNCHANGED <<booking, lists, driver, handler, requests, cancel, lost>>

\* Nobody was asked in this round; the next one begins a second later.
SearchAgain(l) ==
    /\ At(l, "scan") /\ loop[l].todo = {}
    /\ NextRound(l)
    /\ UNCHANGED <<booking, lists, driver, handler, requests, cancel, lost>>

-----------------------------------------------------------------------------
(* Asking: the driver is flagged if he has a session, and listed.  Finding  *)
(* the list and pushing onto it, or creating it, are two calls.             *)

SearchFlag(l) ==
    /\ At(l, "flag")
    /\ \/ /\ driver' = [driver EXCEPT ![loop[l].d].flag = TRUE]
          /\ loop' = [loop EXCEPT ![l].pc = "list", ![l].flagged = TRUE]
       \/ Goto(l, "list") /\ UNCHANGED driver
    /\ UNCHANGED <<booking, lists, handler, requests, cancel, lost>>

SearchFindList(l) ==
    /\ At(l, "list")
    /\ Goto(l, IF lists = <<>> THEN "create" ELSE "push")
    /\ UNCHANGED <<booking, lists, driver, handler, requests, cancel, lost>>

\* Mutant: the test for a session the wrong way round.
AfterListSwapped(l) == IF loop[l].flagged THEN NextRound(l) ELSE Goto(l, "poll")

\* A driver without a session is listed and not waited for.
AfterList(l) == IF loop[l].flagged THEN Goto(l, "poll") ELSE NextRound(l)

SearchCreateList(l) ==
    /\ At(l, "create")
    /\ lists' = Append(lists, {loop[l].d})
    /\ AfterList(l)
    /\ UNCHANGED <<booking, driver, handler, requests, cancel, lost>>

SearchPush(l) ==
    /\ At(l, "push")
    /\ lists' = [lists EXCEPT ![1] = @ \cup {loop[l].d}]
    /\ AfterList(l)
    /\ UNCHANGED <<booking, driver, handler, requests, cancel, lost>>

-----------------------------------------------------------------------------
(* Waiting: once a second the answer is read, then the booking.             *)

PollAnswer(l) ==
    /\ At(l, "poll")
    /\ loop' = [loop EXCEPT ![l].pc = "check", ![l].resp = driver[loop[l].d].answer,
                            ![l].polls = @ + 1]
    /\ UNCHANGED <<booking, lists, driver, handler, requests, cancel, lost>>

\* Mutant: one poll too many.
AfterPollOneMore(l) ==
    CASE loop[l].resp = "accepted" -> "clear.end"
      [] loop[l].resp = "decline" \/ loop[l].polls > Polls -> "clear.go"
      [] OTHER -> "poll"

\* Mutant: a decline ends the search.
DeclineEnds(l) ==
    CASE loop[l].resp \in {"accepted", "decline"} -> "clear.end"
      [] loop[l].polls = Polls -> "clear.go"
      [] OTHER -> "poll"

\* An accept ends the search; a decline, or no answer in time, and it goes on.
AfterPoll(l) ==
    CASE loop[l].resp = "accepted" -> "clear.end"
      [] loop[l].resp = "decline" \/ loop[l].polls = Polls -> "clear.go"
      [] OTHER -> "poll"

\* The search of a cancelled booking ends without clearing the driver's flag.
PollBooking(l) ==
    /\ At(l, "check")
    /\ IF booking.status = "cancelled" THEN EndSearch(l) ELSE Goto(l, AfterPoll(l))
    /\ UNCHANGED <<booking, lists, driver, handler, requests, cancel, lost>>

SearchClear(l) ==
    /\ \/ At(l, "clear.go") /\ NextRound(l)
       \/ At(l, "clear.end") /\ EndSearch(l)
    /\ driver' = [driver EXCEPT ![loop[l].d].flag = FALSE]
    /\ UNCHANGED <<booking, lists, handler, requests, cancel, lost>>

-----------------------------------------------------------------------------
(* Failing: the booking by _id alone, then the offers by its id, and the    *)
(* error rejects a promise that only the webhook waits for.                 *)

SearchFail(l) ==
    /\ At(l, "scan") /\ loop[l].late
    /\ \E d \in loop[l].todo : d \in loop[l].skip \/ ~Available(d)
    /\ booking' = [booking EXCEPT !.status = "failed"]
    /\ Goto(l, "unflag")
    /\ UNCHANGED <<lists, driver, handler, requests, cancel, lost>>

SearchUnflag(l) ==
    /\ At(l, "unflag")
    /\ driver' = [d \in Drivers |-> [driver[d] EXCEPT !.flag = FALSE]]
    /\ Goto(l, "reject")
    /\ UNCHANGED <<booking, lists, handler, requests, cancel, lost>>

SearchReject(l) ==
    /\ At(l, "reject")
    /\ EndSearch(l)
    /\ UNCHANGED <<booking, lists, driver, handler, requests, cancel, lost>>

\* Nothing handles a rejection nobody waits for: from its version 15 on Node.js
\* exits, with every search and every request that is in flight.
SearchExits(l) ==
    /\ At(l, "reject")
    /\ loop' = [m \in Loops |-> IF At(m, "new") THEN loop[m]
                                ELSE [NewLoop EXCEPT !.pc = "ended"]]
    /\ handler' = [d \in Drivers |-> IdleHandler]
    /\ cancel' = IF cancel = "offer" THEN "done" ELSE cancel
    /\ lost' = lost \cup {"restart"}
    /\ UNCHANGED <<booking, lists, driver, requests>>

-----------------------------------------------------------------------------
(* accept_booking: the booking, the driver, the answer, the other offers.   *)

Request == requests < MaxRequests /\ requests' = requests + 1

Accept(d) ==
    /\ handler[d] = IdleHandler /\ Request
    /\ booking.status \notin {"accepted", "cancelled", "failed"}
    /\ booking.driver = None
    /\ booking' = [booking EXCEPT !.status = "accepted", !.driver = d]
    /\ handler' = [handler EXCEPT ![d].pc = "accept.driver"]
    /\ UNCHANGED <<lists, driver, loop, cancel, lost>>

AcceptDriver(d) ==
    /\ handler[d].pc = "accept.driver"
    /\ driver' = [driver EXCEPT ![d].free = FALSE, ![d].flag = FALSE]
    /\ handler' = [handler EXCEPT ![d].pc = "accept.record"]
    /\ UNCHANGED <<booking, lists, loop, requests, cancel, lost>>

\* A second answer is stored too, but the search finds the first one.
Record(d, ans) == [driver[d] EXCEPT !.answer = IF @ = "none" THEN ans ELSE @]

AcceptRecord(d) ==
    /\ handler[d].pc = "accept.record"
    /\ driver' = [driver EXCEPT ![d] = Record(d, "accepted")]
    /\ handler' = [handler EXCEPT ![d].pc = "accept.clear"]
    /\ UNCHANGED <<booking, lists, loop, requests, cancel, lost>>

AcceptClear(d) ==
    /\ handler[d].pc = "accept.clear"
    /\ driver' = [x \in Drivers |-> IF x = d THEN driver[x]
                                             ELSE [driver[x] EXCEPT !.flag = FALSE]]
    /\ handler' = [handler EXCEPT ![d] = IdleHandler]
    /\ UNCHANGED <<booking, lists, loop, requests, cancel, lost>>

-----------------------------------------------------------------------------
(* decline_booking: the answer, the flag, then a status and a driver        *)
(* computed from what it read, written by _id alone.                        *)

Decline(d) ==
    /\ handler[d] = IdleHandler /\ Request
    /\ driver' = [driver EXCEPT ![d] = Record(d, "decline")]
    /\ handler' = [handler EXCEPT ![d].pc = "decline.clear"]
    /\ UNCHANGED <<booking, lists, loop, cancel, lost>>

DeclineClear(d) ==
    /\ handler[d].pc = "decline.clear"
    /\ driver' = [driver EXCEPT ![d].flag = FALSE]
    /\ handler' = [handler EXCEPT ![d].pc = "decline.read"]
    /\ UNCHANGED <<booking, lists, loop, requests, cancel, lost>>

DeclineRead(d) ==
    /\ handler[d].pc = "decline.read"
    /\ handler' = [handler EXCEPT ![d] =
                     IF Open(booking.status)
                     THEN [pc |-> "decline.write", drv |-> booking.driver]
                     ELSE IdleHandler]
    /\ UNCHANGED <<booking, lists, driver, loop, requests, cancel, lost>>

DeclineWrite(d) ==
    /\ handler[d].pc = "decline.write"
    /\ booking' = [booking EXCEPT
            !.status = "request",
            !.driver = IF handler[d].drv = d THEN None ELSE handler[d].drv]
    /\ handler' = [handler EXCEPT ![d] = IdleHandler]
    /\ lost' = IF Open(booking.status) THEN lost ELSE lost \cup {"decline"}
    /\ UNCHANGED <<lists, driver, loop, requests, cancel>>

-----------------------------------------------------------------------------
(* booking_cancelled by the driver of the immediate booking, who keeps      *)
(* driver_id; within thirty minutes of the accept another search starts.    *)

DriverCancel(d) ==
    /\ "driver" \in Actors
    /\ handler[d] = IdleHandler /\ Request /\ booking.driver = d
    /\ driver' = [driver EXCEPT ![d].free = TRUE, ![d].flag = FALSE]
    /\ handler' = [handler EXCEPT ![d].pc = "dcancel.write"]
    /\ UNCHANGED <<booking, lists, loop, cancel, lost>>

DriverCancelWrite(d) ==
    /\ handler[d].pc = "dcancel.write"
    /\ booking' = [booking EXCEPT !.status = "none", !.cancelled = @ \cup {d}]
    /\ handler' = [handler EXCEPT ![d].pc = "dcancel.search"]
    /\ lost' = IF Open(booking.status) \/ booking.driver = d THEN lost
               ELSE lost \cup {"again"}
    /\ UNCHANGED <<lists, driver, loop, requests, cancel>>

DriverCancelSearch(d) ==
    /\ handler[d].pc = "dcancel.search"
    /\ \/ (\E l \in Loops : At(l, "new") /\ Goto(l, "read")) /\ UNCHANGED lost
       \/ lost' = lost \cup {"late"} /\ UNCHANGED loop
    /\ handler' = [handler EXCEPT ![d] = IdleHandler]
    /\ UNCHANGED <<booking, lists, driver, requests, cancel>>

-----------------------------------------------------------------------------
(* booking_cancelled by the customer: the booking, then ONE driver who      *)
(* holds an offer of it.                                                    *)

CustomerCancel ==
    /\ "customer" \in Actors
    /\ cancel = "none"
    /\ booking' = [booking EXCEPT !.status = "cancelled"]
    /\ cancel' = "offer"
    /\ lost' = lost \cup {"cancel"}
    /\ UNCHANGED <<lists, driver, loop, handler, requests>>

CustomerCancelOffer ==
    LET offered == {d \in Drivers : driver[d].flag}
    IN  /\ cancel = "offer"
        /\ \/ offered = {} /\ UNCHANGED driver
           \/ \E d \in offered :
                driver' = [driver EXCEPT ![d].free = TRUE, ![d].flag = FALSE]
        /\ cancel' = "done"
        /\ UNCHANGED <<booking, lists, loop, handler, requests, lost>>

\* Other rides, going online and offline.
DriverSwitches(d) ==
    /\ "switch" \in Actors
    /\ handler[d] = IdleHandler /\ booking.driver # d
    /\ driver' = [driver EXCEPT ![d].free = ~@]
    /\ UNCHANGED <<booking, lists, loop, handler, requests, cancel, lost>>

-----------------------------------------------------------------------------
LoopStep(l) ==
    \/ SearchRead(l) \/ SearchListed(l) \/ SearchAgain(l)
    \/ (\E d \in Near : SearchAsk(l, d) \/ SearchPassOver(l, d))
    \/ SearchFlag(l) \/ SearchFindList(l) \/ SearchCreateList(l) \/ SearchPush(l)
    \/ PollAnswer(l) \/ PollBooking(l) \/ SearchClear(l)
    \/ SearchFail(l) \/ SearchUnflag(l) \/ SearchReject(l) \/ SearchExits(l)

HandlerStep(d) ==
    \/ AcceptDriver(d) \/ AcceptRecord(d) \/ AcceptClear(d)
    \/ DeclineClear(d) \/ DeclineRead(d) \/ DeclineWrite(d)
    \/ DriverCancelWrite(d) \/ DriverCancelSearch(d)

Next ==
    \/ \E l \in Loops : StartSearch(l) \/ TimePasses(l) \/ LoopStep(l)
    \/ \E d \in Drivers : \/ Accept(d) \/ Decline(d) \/ DriverCancel(d)
                          \/ DriverSwitches(d) \/ HandlerStep(d)
    \/ CustomerCancel \/ CustomerCancelOffer

Spec == Init /\ [][Next]_vars

\* A search is driven by timers and database calls that return, and the clock
\* runs.  Nothing is assumed of drivers and customers.
FairSpec ==
    Spec /\ \A l \in Loops : WF_vars(LoopStep(l)) /\ WF_vars(TimePasses(l))

-----------------------------------------------------------------------------
Searching(l) == loop[l].pc \notin {"new", "clear.end", "unflag", "reject", "ended"}

\* An open booking is being searched for.  What can leave it open with nobody
\* looking is a decline written over an accept or a failure, a cancel (reopened
\* by the driver), a driver's cancel of a ride that is another's by then, an exit,
\* and a driver's cancel after the thirty minutes.
OpenIsSearched ==
    Open(booking.status) /\ lost = {} =>
        \/ \A l \in Loops : At(l, "new")
        \/ \E l \in Loops : Searching(l)
        \/ \E d \in Drivers : handler[d].pc = "dcancel.search"

Watches(l, d) ==
    /\ loop[l].d = d /\ loop[l].flagged
    /\ loop[l].pc \in {"list", "create", "push", "poll", "check",
                       "clear.go", "clear.end"}

\* A flagged driver gets no other offer, so a search that is going to clear the
\* flag must be watching him; a search that sees the booking cancelled and an
\* exit are what leaves him flagged.
OfferWatched ==
    \A d \in Drivers : driver[d].flag =>
        (\E l \in Loops : Watches(l, d)) \/ lost \cap {"cancel", "restart"} # {}

\* As long as two searches have not each created a list, no search asks the same
\* driver twice.
AskedOnce ==
    [][\A l \in Loops : At(l, "scan") /\ loop'[l].pc = "flag" =>
          loop'[l].d \notin loop[l].asked \/ Len(lists) > 1]_vars

\* Every search comes to an end, if a driver stays in range.
SearchEnds == \A l \in Loops : At(l, "read") ~> At(l, "ended")

\* No driver stays flagged, unless the customer cancels or the server exits.
OfferEnds ==
    \A d \in Drivers :
        driver[d].flag ~> ~driver[d].flag \/ lost \cap {"cancel", "restart"} # {}

=============================================================================
