----------------------------- MODULE Scheduler -----------------------------
(***************************************************************************)
(* The cron task that runs every 30 seconds over the scheduled bookings,   *)
(* and the loop that asks the drivers within 7 km one by one.              *)
(*                                                                         *)
(* A tick reads the open scheduled bookings and the accepted ones, handles *)
(* the first one after the other, then hands the others over.  Nothing     *)
(* waits for a tick: the next one starts while it runs, and a tick that    *)
(* meets a booking 30 minutes before its time runs the 7 km loop for five  *)
(* minutes before it goes on with lists read at its start.  A dispatcher   *)
(* may start the same loop by hand (autoAssignRequest).                    *)
(*                                                                         *)
(* now counts units of five minutes, the length of the loop; one unit is   *)
(* ten ticks.  Left out: payments (every booking here is paid), messages,  *)
(* the offer flags of drivers (module Dispatch has them), is_ride_started. *)
(***************************************************************************)
EXTENDS Naturals, FiniteSets

CONSTANTS
    Bookings,    \* scheduled bookings, all for the time Due
    Drivers,
    Ticks,       \* ticks of the cron task that can run at the same time
    Requests,    \* dispatchers' requests that can run at the same time
    Due,         \* schedule_date, in units of five minutes
    Times,       \* bound: the moments the clock shows
    MaxEvents,   \* bound: how many requests, takes (but the first), customer's
                 \* cancels, errors and crashes
    None

ASSUME DueAssumption ==
    Due \in Nat /\ 0 \in Times /\ Times \subseteq Nat /\ MaxEvents \in Nat
ASSUME JobsAssumption == Ticks \cap Requests = {} /\ None \notin Bookings \cup Drivers

VARIABLES
    now,       \* the clock
    booking,   \* Bookings -> the fields the scheduler reads and writes
    free,      \* the drivers whose ride_status is free
    job,       \* Ticks and Requests -> what each remembers
    events,    \* bound: how many of them there were
    missed,    \* history: bookings whose last hand-over met a busy driver or a crash
    raced,     \* history: bookings whose mark two jobs checked before both set it
    stuck,     \* history: bookings whose mark a crash or an error has left
    expired,   \* history: Bookings -> how often a tick failed and refunded it
    stale      \* history: bookings whose status changed while on a tick's list

vars == <<now, booking, free, job, events, missed, raced, stuck, expired, stale>>
notes == <<missed, raced, stuck, expired, stale>>

Jobs == Ticks \cup Requests

-----------------------------------------------------------------------------
(* The windows, in units before Due: 30, 25 and 15 minutes.                 *)

SevenKm == now + 6 = Due
BroadcastTime == now + 5 >= Due /\ now < Due
HandOverTime == now + 3 >= Due /\ now <= Due
ScheduleTime == now = Due
TooLate == now > Due

BookingType ==
    [status   : {"open", "accepted", "failed", "cancelled"},
     driver   : Drivers \cup {None},
     type     : {"schedule", "current", "cancelled"},   \* booking_type
     seven    : BOOLEAN,                   \* is_broadcast_7_km
     looping  : BOOLEAN,                   \* is_currently_broadcasting
     sent25   : BOOLEAN,                   \* is_broadcast
     told     : BOOLEAN,                   \* sent_dispatch_noti
     asked    : SUBSET Drivers]            \* broadcasted_driver_ids

NewBooking ==
    [status |-> "open", driver |-> None, type |-> "schedule", seven |-> FALSE,
     looping |-> FALSE, sent25 |-> FALSE, told |-> FALSE, asked |-> {}]

(* What a job remembers: the booking at hand and its driver; the lists read *)
(* at the start of a tick, and which of the listed were being broadcast;    *)
(* when its loop began.                                                     *)

JobPCs == {"idle", "listed", "next", "fail", "current", "mark", "loop", "ask",
           "unmark", "sent25", "tell", "look", "busy", "type"}

LoopPCs == {"loop", "ask", "unmark"}

JobType ==
    [pc : JobPCs, b : Bookings \cup {None}, d : Drivers \cup {None},
     open : SUBSET Bookings, looping : SUBSET Bookings,
     taken : [Bookings -> Drivers \cup {None}], start : Nat]

Nobody == [b \in Bookings |-> None]
IdleJob == [pc |-> "idle", b |-> None, d |-> None, open |-> {}, looping |-> {},
            taken |-> Nobody, start |-> 0]

At(j, pc) == job[j].pc = pc
Goto(j, pc) == job' = [job EXCEPT ![j].pc = pc]
End(j) == job' = [job EXCEPT ![j] = IdleJob]
Listing(b) == {t \in Ticks : b \in job[t].open \/ job[t].b = b}
Taken(j) == {b \in Bookings : job[j].taken[b] # None}

OneEvent == events < MaxEvents /\ events' = events + 1

Init ==
    /\ now = 0
    /\ booking = [b \in Bookings |-> NewBooking]
    /\ free = Drivers
    /\ job = [j \in Jobs |-> IdleJob]
    /\ events = 0
    /\ missed = {} /\ raced = {} /\ stuck = {} /\ stale = {}
    /\ expired = [b \in Bookings |-> 0]

-----------------------------------------------------------------------------
(* The tick.                                                                *)

\* Mutants: the query leaves out what was broadcast; it finds failed bookings again.
ListedUnsent(b) ==
    /\ booking[b].status = "open" /\ booking[b].driver = None
    /\ booking[b].type = "schedule" /\ ~booking[b].sent25
ListedFailed(b) ==
    /\ booking[b].status \in {"open", "failed"} /\ booking[b].driver = None
    /\ booking[b].type = "schedule"

\* The first query: open, scheduled, without a driver.
Listed(b) ==
    /\ booking[b].status = "open" /\ booking[b].driver = None
    /\ booking[b].type = "schedule"

TickStart(t) ==
    /\ At(t, "idle")
    /\ job' = [job EXCEPT ![t] =
                 [IdleJob EXCEPT !.pc = "listed",
                    !.open = {b \in Bookings : Listed(b)},
                    !.looping = {b \in Bookings : Listed(b) /\ booking[b].looping}]]
    /\ UNCHANGED <<now, booking, free, events, notes>>

\* The second query: accepted, whatever the type.  Which of them are to be
\* handed over is decided by the time and the mark of now, when their turn comes.
TickListAccepted(t) ==
    /\ At(t, "listed")
    /\ job' = [job EXCEPT ![t].pc = "next",
                 ![t].taken = [b \in Bookings |->
                     IF /\ booking[b].status = "accepted"
                        /\ HandOverTime /\ ~booking[b].told
                     THEN booking[b].driver ELSE None]]
    /\ UNCHANGED <<now, booking, free, events, notes>>

\* broadcasting(b): the time, the mark of the list and is_broadcast of now.
StepFor(t, b) ==
    CASE TooLate                            -> "fail"
      [] ScheduleTime                       -> "current"
      [] SevenKm /\ ~booking[b].seven /\ b \notin job[t].looping -> "mark"
      [] BroadcastTime /\ ~booking[b].sent25 -> "sent25"
      [] OTHER                              -> "next"

\* History: somebody has checked the mark and not set it yet.
AboutToMark(b) == \E i \in Jobs : job[i].b = b /\ job[i].pc = "mark"

TickBooking(t, b) ==
    /\ At(t, "next")
    /\ b \in job[t].open
    /\ job' = [job EXCEPT ![t].open = @ \ {b}, ![t].looping = @ \ {b},
                          ![t].pc = StepFor(t, b),
                          ![t].b = IF StepFor(t, b) = "next" THEN None ELSE b]
    /\ raced' = IF StepFor(t, b) = "mark" /\ (booking[b].looping \/ AboutToMark(b))
                THEN raced \cup {b} ELSE raced
    /\ UNCHANGED <<now, booking, free, events, missed, stuck, expired, stale>>

\* History: the status of b changes under the ticks that have listed it.
Outdates(b, readers) == stale' = IF readers = {} THEN stale ELSE stale \cup {b}

\* Failed and refunded, whatever it has become since the list was read; then
\* an exception ends the tick, and with it everything still on its lists.
TickFail(t) ==
    /\ At(t, "fail")
    /\ booking' = [booking EXCEPT ![job[t].b].status = "failed"]
    /\ expired' = [expired EXCEPT ![job[t].b] = IF @ = 0 THEN 1 ELSE 2]
    /\ Outdates(job[t].b, Listing(job[t].b) \ {t})
    /\ End(t)
    /\ UNCHANGED <<now, free, events, missed, raced, stuck>>

NextBooking(t) == job' = [job EXCEPT ![t].pc = "next", ![t].b = None, ![t].d = None]

\* At its time the booking is broadcast and becomes a current one.
TickCurrent(t) ==
    /\ At(t, "current")
    /\ booking' = [booking EXCEPT ![job[t].b].type = "current"]
    /\ NextBooking(t)
    /\ UNCHANGED <<now, free, events, notes>>

TickBroadcast(t) ==
    /\ At(t, "sent25")
    /\ booking' = [booking EXCEPT ![job[t].b].sent25 = TRUE]
    /\ NextBooking(t)
    /\ UNCHANGED <<now, free, events, notes>>

\* The hand-over marks the booking first and looks at its driver then.
TickTell(t, b) ==
    /\ At(t, "next")
    /\ job[t].open = {}
    /\ b \in Taken(t)
    /\ booking' = [booking EXCEPT ![b].told = TRUE]
    /\ job' = [job EXCEPT ![t].taken[b] = None, ![t].pc = "look",
                          ![t].b = b, ![t].d = job[t].taken[b]]
    /\ UNCHANGED <<now, free, events, notes>>

TickLook(t) ==
    /\ At(t, "look")
    /\ IF job[t].d \in free
       THEN Goto(t, "busy") /\ UNCHANGED missed
       ELSE NextBooking(t) /\ missed' = missed \cup {job[t].b}
    /\ UNCHANGED <<now, booking, free, events, raced, stuck, expired, stale>>

TickBusy(t) ==
    /\ At(t, "busy")
    /\ free' = free \ {job[t].d}
    /\ Goto(t, "type")
    /\ UNCHANGED <<now, booking, events, notes>>

TickType(t) ==
    /\ At(t, "type")
    /\ booking' = [booking EXCEPT ![job[t].b].type = "current"]
    /\ NextBooking(t)
    /\ UNCHANGED <<now, free, events, notes>>

TickEnds(t) ==
    /\ At(t, "next")
    /\ job[t].open = {} /\ Taken(t) = {}
    /\ End(t)
    /\ UNCHANGED <<now, booking, free, events, notes>>

-----------------------------------------------------------------------------
(* The 7 km loop, in a tick or in a request.                                *)

\* Mutant: the mark is not looked at.
AutoAssignAlways(r, b) ==
    /\ At(r, "idle")
    /\ OneEvent
    /\ job' = [job EXCEPT ![r] = [IdleJob EXCEPT !.pc = "mark", !.b = b]]
    /\ raced' = IF AboutToMark(b) THEN raced \cup {b} ELSE raced
    /\ UNCHANGED <<now, booking, free, missed, stuck, expired, stale>>

\* autoAssignRequest looks at the mark, and at nothing else of the booking.
AutoAssign(r, b) ==
    /\ At(r, "idle")
    /\ OneEvent
    /\ ~booking[b].looping
    /\ job' = [job EXCEPT ![r] = [IdleJob EXCEPT !.pc = "mark", !.b = b]]
    /\ raced' = IF AboutToMark(b) THEN raced \cup {b} ELSE raced
    /\ UNCHANGED <<now, booking, free, missed, stuck, expired, stale>>

\* Mutant: the list of those asked is emptied to a list of null.
MarkedNull(r, byTick) ==
    [r EXCEPT !.looping = TRUE, !.asked = {None}, !.seven = @ \/ byTick]

\* The mark, by tick or request; only the tick's sets is_broadcast_7_km.
Marked(r, byTick) ==
    [r EXCEPT !.looping = TRUE, !.asked = {}, !.seven = @ \/ byTick]

Mark(j) ==
    LET b == job[j].b
    IN  /\ At(j, "mark")
        /\ booking' = [booking EXCEPT ![b] = Marked(@, j \in Ticks)]
        /\ job' = [job EXCEPT ![j].pc = "loop", ![j].start = now]
        /\ UNCHANGED <<now, free, events, notes>>

\* Five minutes have passed; they end in the unit after the one they began in,
\* and the last moment of the clock stands for all later ones.
TimeIsUp(j) == now > job[j].start \/ \A n \in Times : n <= now

\* fetchDrivers: those in range (all of Drivers here) who were not asked before.
Candidates(b) == Drivers \ booking[b].asked

\* One round.  The projection of the query leaves booking_status out, so that
\* only a driver_id stops the asking, and only for 30 seconds.
LoopRound(j, d) ==
    LET b == job[j].b
    IN  /\ At(j, "loop")
        /\ now <= job[j].start + 1
        /\ booking[b].driver = None
        /\ d \in Candidates(b)
        /\ job' = [job EXCEPT ![j].pc = "ask", ![j].d = d]
        /\ UNCHANGED <<now, booking, free, events, notes>>

LoopAsk(j) ==
    /\ At(j, "ask")
    /\ booking' = [booking EXCEPT ![job[j].b].asked = @ \cup {job[j].d}]
    /\ job' = [job EXCEPT ![j].pc = "loop", ![j].d = None]
    /\ UNCHANGED <<now, free, events, notes>>

LoopOver(j) ==
    /\ At(j, "loop")
    /\ TimeIsUp(j)
    /\ Goto(j, "unmark")
    /\ UNCHANGED <<now, booking, free, events, notes>>

\* Mutant: only a tick takes the mark away.
UnmarkInTick(j) ==
    /\ At(j, "unmark")
    /\ booking' = [booking EXCEPT ![job[j].b].looping = @ /\ j \notin Ticks]
    /\ IF j \in Ticks
       THEN job' = [job EXCEPT ![j].pc = "next", ![j].b = None, ![j].start = 0]
       ELSE End(j)
    /\ UNCHANGED <<now, free, events, notes>>

Unmark(j) ==
    /\ At(j, "unmark")
    /\ booking' = [booking EXCEPT ![job[j].b].looping = FALSE]
    /\ IF j \in Ticks
       THEN job' = [job EXCEPT ![j].pc = "next", ![j].b = None, ![j].start = 0]
       ELSE End(j)
    /\ UNCHANGED <<now, free, events, notes>>

\* An error in the loop, a failed database call: the request unmarks in its catch,
\* the tick passes it on and ends.
LoopError(j) ==
    /\ j \in Ticks /\ At(j, "loop")
    /\ OneEvent
    /\ stuck' = stuck \cup {job[j].b}
    /\ End(j)
    /\ UNCHANGED <<now, booking, free, missed, raced, expired, stale>>

-----------------------------------------------------------------------------
(* Everybody else.                                                          *)

\* Bound: a booking taken before anything was done for it does not count as an event.
Undisturbed(b) == booking[b] = NewBooking /\ \A j \in Jobs : At(j, "idle")

\* A driver accepts, and is busy at once; or a dispatcher assigns him, and he is not.
Take(b, d) ==
    /\ IF Undisturbed(b) THEN UNCHANGED events ELSE OneEvent
    /\ booking[b].status = "open" /\ booking[b].driver = None
    /\ booking' = [booking EXCEPT ![b].status = "accepted", ![b].driver = d]
    /\ \E busy \in BOOLEAN : free' = IF busy THEN free \ {d} ELSE free
    /\ Outdates(b, Listing(b))
    /\ UNCHANGED <<now, job, missed, raced, stuck, expired>>

\* Mutant: who takes the ride next is not told.
DriverCancelKeepsTold(b) ==
    /\ booking[b].driver # None
    /\ free' = free \cup {booking[b].driver}
    /\ booking' = [booking EXCEPT ![b].status = "open", ![b].driver = None,
                                  ![b].type = "schedule"]
    /\ missed' = missed \ {b}
    /\ Outdates(b, Listing(b))
    /\ UNCHANGED <<now, job, events, raced, stuck, expired>>

\* booking_cancelled by its driver opens it again, whatever else has become of it,
\* takes the driver away and puts it back on the list of the ticks, as if it had never
\* been handed over.  (Near its time drivers are asked once more, which changes nothing
\* here.)
DriverCancel(b) ==
    /\ booking[b].driver # None
    /\ free' = free \cup {booking[b].driver}
    /\ booking' = [booking EXCEPT ![b].status = "open", ![b].driver = None,
                                  ![b].type = "schedule", ![b].told = FALSE]
    /\ missed' = missed \ {b}
    /\ Outdates(b, Listing(b))
    /\ UNCHANGED <<now, job, events, raced, stuck, expired>>

\* A driver who was asked declines a booking that nobody has.  (Over an accept: Dispatch.)
Decline(b) ==
    /\ booking[b].status = "open"
    /\ booking' = [booking EXCEPT ![b].told = FALSE]
    /\ missed' = missed \ {b}
    /\ UNCHANGED <<now, free, job, events, raced, stuck, expired, stale>>

\* booking_cancelled by the customer, who may cancel an accepted ride too.
CustomerCancel(b) ==
    /\ OneEvent
    /\ booking[b].status \in {"open", "accepted"}
    /\ booking' = [booking EXCEPT ![b].status = "cancelled", ![b].type = "cancelled"]
    /\ free' = free \cup ({booking[b].driver} \cap Drivers)
    /\ Outdates(b, Listing(b))
    /\ UNCHANGED <<now, job, missed, raced, stuck, expired>>

\* The server stops: nothing that ran goes on, and no document is repaired.
Crash ==
    /\ OneEvent
    /\ stuck' = stuck \cup {b \in Bookings : booking[b].looping}
    /\ missed' = missed \cup {job[t].b : t \in {x \in Ticks : job[x].pc \in {"look", "busy", "type"}}}
    /\ job' = [j \in Jobs |-> IdleJob]
    /\ UNCHANGED <<now, booking, free, raced, expired, stale>>

TimePasses ==
    /\ now' \in Times
    /\ now' > now
    /\ \A n \in Times : n > now => n >= now'
    /\ UNCHANGED <<booking, free, job, events, notes>>

-----------------------------------------------------------------------------
TickStep(t) ==
    \/ TickStart(t) \/ TickListAccepted(t) \/ TickFail(t) \/ TickCurrent(t)
    \/ TickBroadcast(t) \/ TickLook(t) \/ TickBusy(t) \/ TickType(t) \/ TickEnds(t)
    \/ \E b \in Bookings : TickBooking(t, b) \/ TickTell(t, b)

LoopStep(j) ==
    \/ Mark(j) \/ LoopAsk(j) \/ LoopOver(j) \/ Unmark(j)
    \/ \E d \in Drivers : LoopRound(j, d)

Next ==
    \/ TimePasses
    \/ \E t \in Ticks : TickStep(t)
    \/ \E j \in Jobs : LoopStep(j) \/ LoopError(j)
    \/ \E r \in Requests, b \in Bookings : AutoAssign(r, b)
    \/ \E b \in Bookings : CustomerCancel(b) \/ DriverCancel(b) \/ Decline(b)
    \/ \E b \in Bookings, d \in Drivers : Take(b, d)
    \/ Crash

Spec == Init /\ [][Next]_vars

\* The clock runs, the cron task starts a tick every 30 seconds, and what a tick
\* or a loop waits for is a timer or a database call that returns; that one of them
\* goes on is all that is assumed.
FairSpec ==
    /\ Spec
    /\ WF_vars(TimePasses)
    /\ WF_vars((\E t \in Ticks : TickStep(t)) \/ (\E j \in Jobs : LoopStep(j)))

-----------------------------------------------------------------------------
TypeOK ==
    /\ now \in Times
    /\ booking \in [Bookings -> BookingType]
    /\ free \subseteq Drivers
    /\ job \in [Jobs -> JobType]
    /\ events \in 0..MaxEvents
    /\ missed \subseteq Bookings /\ raced \subseteq Bookings /\ stuck \subseteq Bookings
    /\ expired \in [Bookings -> 0..2] /\ stale \subseteq Bookings

\* The loops that run on b, from their mark to its removal.
LoopsOn(b) == {j \in Jobs : job[j].b = b /\ job[j].pc \in LoopPCs}

\* A booking marked as being broadcast is being broadcast: the mark, which makes
\* autoAssignRequest refuse, is not left behind but by a crash or an error.
MarkedIsLooped ==
    \A b \in Bookings : booking[b].looping => LoopsOn(b) # {} \/ b \in stuck

\* Two loops never ask for the same booking at the same time, unless the second
\* checked the mark before the first had set it: a tick reads it with its lists.
OneLoop == \A b \in Bookings : Cardinality(LoopsOn(b)) <= 1 \/ b \in raced \cup stuck

\* sent_dispatch_noti is set before the hand-over and keeps every later tick from
\* it: the booking is handed over (or cancelled since), is about to be, or met a busy
\* driver or a crash.  A driver's cancel takes the mark away with the type, so that
\* who takes the ride next is told in his turn.
ToldIsHandedOver ==
    \A b \in Bookings : booking[b].told =>
        \/ booking[b].type # "schedule"
        \/ \E t \in Ticks : job[t].b = b /\ job[t].pc \in {"look", "busy", "type"}
        \/ b \in missed

\* A tick fails and refunds a booking once; again only if it changed, was failed
\* by another tick or taken and given back, while a tick had it on its list.
RefundedOnce == \A b \in Bookings : expired[b] <= 1 \/ b \in stale

\* An open booking of type schedule does not stay one: it is taken, cancelled, failed
\* by a tick, or became a current one at its time, although ticks wait for loops and
\* work on lists they read before.  What a driver gives back after its time is failed.
\* (An open booking of type current is on no list any more, and may stay open for ever.)
ScheduledIsSettled ==
    \A b \in Bookings :
        []<>(booking[b].status # "open" \/ booking[b].type # "schedule")

=============================================================================
