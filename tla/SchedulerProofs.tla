-------------------------- MODULE SchedulerProofs --------------------------
(***************************************************************************)
(* Proofs about Scheduler, for any bookings, drivers, overlapping ticks    *)
(* and requests, any times and any number of events: its type invariant,   *)
(* the four safety invariants of the cron task and the 7 km loop, and that *)
(* its bookings go through the lifecycle of RideLifecycle.                 *)
(***************************************************************************)
EXTENDS Scheduler, FiniteSetTheorems, TLAPS

(* The steps at which a job is about a booking, and those about a driver.   *)
BookingPCs == JobPCs \ {"idle", "listed", "next"}
DriverPCs == {"ask", "look", "busy"}
HandOverPCs == {"look", "busy", "type"}

\* A job at work on a booking, or on a driver, knows which.
JobOK(r) ==
    /\ r \in JobType
    /\ r.pc \in BookingPCs => r.b \in Bookings
    /\ r.pc \in DriverPCs => r.d \in Drivers

JobsOK ==
    /\ job = [j \in Jobs |-> job[j]]
    /\ \A j \in Jobs : JobOK(job[j])

\* The parts of TypeOK that are not about the jobs.
DocsOK ==
    /\ now \in Times
    /\ booking \in [Bookings -> BookingType]
    /\ free \subseteq Drivers
    /\ events \in 0..MaxEvents

HistoryOK ==
    /\ missed \subseteq Bookings /\ raced \subseteq Bookings /\ stuck \subseteq Bookings
    /\ expired \in [Bookings -> 0..2] /\ stale \subseteq Bookings

TypeInv == DocsOK /\ HistoryOK /\ JobsOK

LEMMA TypeInvSuffices == TypeInv => TypeOK
    BY DEF TypeInv, DocsOK, HistoryOK, JobsOK, JobOK, TypeOK

-----------------------------------------------------------------------------
(* What a step does to the jobs.                                            *)

\* Job j goes on with the record r, and the others as they are.
Moves(j, r) == job' = [job EXCEPT ![j] = r]

\* Every step moves one job, or none, or is a crash.
LEMMA MovesJob ==
    ASSUME JobsOK, NEW j \in Jobs, NEW r, JobOK(r), Moves(j, r)
    PROVE  /\ JobsOK'
           /\ job'[j] = r
           /\ \A i \in Jobs \ {j} : job'[i] = job[i]
<1>1. \A i \in Jobs : job'[i] = IF i = j THEN r ELSE job[i]
    BY DEF JobsOK, Moves
<1>2. job' = [i \in Jobs |-> job'[i]]
    BY DEF JobsOK, Moves
<1> QED BY <1>1, <1>2 DEF JobsOK, JobOK

\* A job that has nothing to do is a sound one.
LEMMA IdleOK == JobOK(IdleJob)
<1>1. Nobody \in [Bookings -> Drivers \cup {None}]
    BY DEF Nobody
<1> QED BY <1>1 DEF JobOK, IdleJob, JobType, JobPCs, BookingPCs, DriverPCs

LEMMA InitType == Init => TypeInv
<1> SUFFICES ASSUME Init PROVE TypeInv
    OBVIOUS
<1>1. DocsOK
    <2>1. NewBooking \in BookingType
        BY DEF NewBooking, BookingType
    <2> QED BY <2>1, DueAssumption DEF DocsOK, Init
<1>2. HistoryOK
    BY DEF HistoryOK, Init
<1>3. JobsOK
    BY IdleOK DEF JobsOK, Init
<1> QED BY <1>1, <1>2, <1>3 DEF TypeInv

\* What a driver's cancel makes of a booking.
GivenBack(r) ==
    [r EXCEPT !.status = "open", !.driver = None, !.type = "schedule", !.told = FALSE]

LEMMA DriverGivesBack ==
    ASSUME NEW b \in Bookings, DriverCancel(b)
    PROVE  booking' = [booking EXCEPT ![b] = GivenBack(booking[b])]
BY DEF DriverCancel, GivenBack

\* The ways a step changes a booking keep its type.
LEMMA BookingUpdates ==
    ASSUME NEW r \in BookingType
    PROVE  /\ [r EXCEPT !.status = "failed"] \in BookingType
           /\ [r EXCEPT !.status = "cancelled", !.type = "cancelled"] \in BookingType
           /\ GivenBack(r) \in BookingType
           /\ \A d \in Drivers : [r EXCEPT !.status = "accepted", !.driver = d] \in BookingType
           /\ [r EXCEPT !.type = "current"] \in BookingType
           /\ [r EXCEPT !.sent25 = TRUE] \in BookingType
           /\ [r EXCEPT !.told = TRUE] \in BookingType
           /\ [r EXCEPT !.told = FALSE] \in BookingType
           /\ [r EXCEPT !.looping = FALSE] \in BookingType
           /\ \A d \in Drivers : [r EXCEPT !.asked = r.asked \cup {d}] \in BookingType
           /\ Marked(r, TRUE) \in BookingType /\ Marked(r, FALSE) \in BookingType
<1>1. \A x \in BOOLEAN : /\ [r EXCEPT !.sent25 = x] \in BookingType
                         /\ [r EXCEPT !.told = x] \in BookingType
                         /\ [r EXCEPT !.looping = x] \in BookingType
    BY DEF BookingType
<1>2. \A x \in BOOLEAN : Marked(r, x) \in BookingType
    <2> TAKE x \in BOOLEAN
    <2>1. (r.seven \/ x) \in BOOLEAN /\ TRUE \in BOOLEAN /\ {} \in SUBSET Drivers
        OBVIOUS
    <2>2. \A y, z \in BOOLEAN, a \in SUBSET Drivers :
              [r EXCEPT !.looping = y, !.asked = a, !.seven = z] \in BookingType
        BY DEF BookingType
    <2> QED BY <2>1, <2>2 DEF Marked
<1>3. TRUE \in BOOLEAN /\ FALSE \in BOOLEAN
    OBVIOUS
<1>4. /\ [r EXCEPT !.status = "failed"] \in BookingType
      /\ [r EXCEPT !.status = "cancelled", !.type = "cancelled"] \in BookingType
      /\ \A d \in Drivers : [r EXCEPT !.status = "accepted", !.driver = d] \in BookingType
      /\ [r EXCEPT !.type = "current"] \in BookingType
      /\ \A d \in Drivers : [r EXCEPT !.asked = r.asked \cup {d}] \in BookingType
    BY DEF BookingType
<1>5. Marked(r, TRUE) \in BookingType /\ Marked(r, FALSE) \in BookingType
    BY <1>2, <1>3
<1>6. /\ [r EXCEPT !.sent25 = TRUE] \in BookingType
      /\ [r EXCEPT !.told = TRUE] \in BookingType
      /\ [r EXCEPT !.told = FALSE] \in BookingType
      /\ [r EXCEPT !.looping = FALSE] \in BookingType
    BY <1>1, <1>3
<1>7. GivenBack(r) \in BookingType
    <2>1. \A x \in BOOLEAN :
              [r EXCEPT !.status = "open", !.driver = None, !.type = "schedule", !.told = x]
                  \in BookingType
        BY DEF BookingType
    <2> QED BY <1>3, <2>1 DEF GivenBack
<1> QED BY <1>4, <1>5, <1>6, <1>7

\* The steps of a tick change at most one booking.
LEMMA TickDocs ==
    ASSUME TypeInv, NEW t \in Ticks, TickStep(t)
    PROVE  DocsOK' /\ HistoryOK'
<1>1. JobOK(job[t])
    BY DEF TypeInv, JobsOK, Jobs
<1> DEFINE b == job[t].b
<1>2. booking \in [Bookings -> BookingType] /\ expired \in [Bookings -> 0..2]
    BY DEF TypeInv, DocsOK, HistoryOK
<1>3. CASE \/ TickStart(t) \/ TickListAccepted(t) \/ TickEnds(t)
    BY <1>3 DEF TickStart, TickListAccepted, TickEnds, notes, TypeInv, DocsOK, HistoryOK
<1>4. CASE TickFail(t)
    <2>1. b \in Bookings
        BY <1>1, <1>4 DEF TickFail, At, JobOK, BookingPCs, JobPCs
    <2>2. [booking[b] EXCEPT !.status = "failed"] \in BookingType
        BY <1>2, <2>1, BookingUpdates
    <2>3. booking' \in [Bookings -> BookingType]
        BY <1>2, <1>4, <2>1, <2>2 DEF TickFail
    <2>4. expired' \in [Bookings -> 0..2]
        <3>1. expired' = [expired EXCEPT ![b] = IF expired[b] = 0 THEN 1 ELSE 2]
            BY <1>4 DEF TickFail
        <3> QED BY <1>2, <2>1, <3>1
    <2> QED BY <1>4, <2>1, <2>3, <2>4 DEF TickFail, Outdates, TypeInv, DocsOK, HistoryOK
<1>5. CASE TickCurrent(t) \/ TickType(t)
    <2>1. b \in Bookings
        BY <1>1, <1>5 DEF TickCurrent, TickType, At, JobOK, BookingPCs, JobPCs
    <2>2. [booking[b] EXCEPT !.type = "current"] \in BookingType
        BY <1>2, <2>1, BookingUpdates
    <2>3. booking' \in [Bookings -> BookingType]
        BY <1>2, <1>5, <2>1, <2>2 DEF TickCurrent, TickType
    <2> QED BY <1>5, <2>3 DEF TickCurrent, TickType, notes, TypeInv, DocsOK, HistoryOK
<1>6. CASE TickBroadcast(t)
    <2>1. b \in Bookings
        BY <1>1, <1>6 DEF TickBroadcast, At, JobOK, BookingPCs, JobPCs
    <2>2. [booking[b] EXCEPT !.sent25 = TRUE] \in BookingType
        BY <1>2, <2>1, BookingUpdates
    <2>3. booking' \in [Bookings -> BookingType]
        BY <1>2, <1>6, <2>1, <2>2 DEF TickBroadcast
    <2> QED BY <1>6, <2>3 DEF TickBroadcast, notes, TypeInv, DocsOK, HistoryOK
<1>7. CASE TickLook(t)
    <2>1. b \in Bookings
        BY <1>1, <1>7 DEF TickLook, At, JobOK, BookingPCs, JobPCs
    <2> QED BY <1>7, <2>1 DEF TickLook, TypeInv, DocsOK, HistoryOK
<1>8. CASE TickBusy(t)
    BY <1>8 DEF TickBusy, notes, TypeInv, DocsOK, HistoryOK
<1>9. ASSUME NEW c \in Bookings, TickBooking(t, c) PROVE DocsOK' /\ HistoryOK'
    BY <1>9 DEF TickBooking, TypeInv, DocsOK, HistoryOK
<1>10. ASSUME NEW c \in Bookings, TickTell(t, c) PROVE DocsOK' /\ HistoryOK'
    <2>1. [booking[c] EXCEPT !.told = TRUE] \in BookingType
        BY <1>2, BookingUpdates
    <2>2. booking' \in [Bookings -> BookingType]
        BY <1>2, <1>10, <2>1 DEF TickTell
    <2> QED BY <1>10, <2>2 DEF TickTell, notes, TypeInv, DocsOK, HistoryOK
<1> QED BY <1>3, <1>4, <1>5, <1>6, <1>7, <1>8, <1>9, <1>10 DEF TickStep

\* So does a round of the loop.
LEMMA LoopDocs ==
    ASSUME TypeInv, NEW j \in Jobs, LoopStep(j) \/ LoopError(j)
    PROVE  DocsOK' /\ HistoryOK'
<1>1. JobOK(job[j])
    BY DEF TypeInv, JobsOK
<1> DEFINE b == job[j].b
<1>2. booking \in [Bookings -> BookingType]
    BY DEF TypeInv, DocsOK
<1>3. job[j].pc \in LoopPCs \cup {"mark"} => b \in Bookings
    BY <1>1 DEF JobOK, BookingPCs, JobPCs, LoopPCs
<1>4. CASE Mark(j)
    <2>1. b \in Bookings
        BY <1>3, <1>4 DEF Mark, At
    <2>2. Marked(booking[b], j \in Ticks) \in BookingType
        <3>1. booking[b] \in BookingType /\ (j \in Ticks) \in BOOLEAN
            BY <1>2, <2>1
        <3> QED BY <3>1, BookingUpdates
    <2>3. booking' \in [Bookings -> BookingType]
        BY <1>2, <1>4, <2>1, <2>2 DEF Mark
    <2> QED BY <1>4, <2>3 DEF Mark, notes, TypeInv, DocsOK, HistoryOK
<1>5. CASE LoopAsk(j)
    <2>1. b \in Bookings /\ job[j].d \in Drivers
        BY <1>1, <1>3, <1>5 DEF LoopAsk, At, LoopPCs, JobOK, DriverPCs
    <2>2. [booking[b] EXCEPT !.asked = @ \cup {job[j].d}] \in BookingType
        BY <1>2, <2>1, BookingUpdates
    <2>3. booking' = [booking EXCEPT ![b] = [booking[b] EXCEPT !.asked = @ \cup {job[j].d}]]
        BY <1>5 DEF LoopAsk
    <2>4. booking' \in [Bookings -> BookingType]
        BY <1>2, <2>1, <2>2, <2>3
    <2> QED BY <1>5, <2>4 DEF LoopAsk, notes, TypeInv, DocsOK, HistoryOK
<1>6. CASE Unmark(j)
    <2>1. b \in Bookings
        BY <1>3, <1>6 DEF Unmark, At, LoopPCs
    <2>2. [booking[b] EXCEPT !.looping = FALSE] \in BookingType
        BY <1>2, <2>1, BookingUpdates
    <2>3. booking' \in [Bookings -> BookingType]
        BY <1>2, <1>6, <2>1, <2>2 DEF Unmark
    <2> QED BY <1>6, <2>3 DEF Unmark, notes, TypeInv, DocsOK, HistoryOK
<1>7. CASE LoopOver(j) \/ \E d \in Drivers : LoopRound(j, d)
    BY <1>7 DEF LoopOver, LoopRound, notes, TypeInv, DocsOK, HistoryOK
<1>8. CASE LoopError(j)
    <2>1. b \in Bookings
        BY <1>3, <1>8 DEF LoopError, At, LoopPCs
    <2> QED BY <1>8, <2>1, DueAssumption DEF LoopError, OneEvent, TypeInv, DocsOK, HistoryOK
<1> QED BY <1>4, <1>5, <1>6, <1>7, <1>8 DEF LoopStep

\* A tick goes on with a sound record, and no other job moves.
LEMMA TickJobs ==
    ASSUME TypeInv, NEW t \in Ticks, TickStep(t)
    PROVE  JobsOK' /\ \A i \in Jobs \ {t} : job'[i] = job[i]
<1>0. t \in Jobs /\ JobsOK
    BY DEF TypeInv, Jobs
<1>1. JobOK(job[t]) /\ job[t] \in JobType
    BY <1>0 DEF JobsOK, JobOK
<1>2. booking \in [Bookings -> BookingType] /\ now \in Nat
    BY DueAssumption DEF TypeInv, DocsOK
<1> SUFFICES \E r : JobOK(r) /\ Moves(t, r)
    BY <1>0, MovesJob
<1> USE DEF JobOK, JobType, BookingPCs, DriverPCs, JobPCs
<1>3. CASE TickFail(t) \/ TickEnds(t)
    BY <1>3, IdleOK DEF TickFail, TickEnds, End, Moves
<1>4. CASE TickStart(t)
    <2> DEFINE r == [IdleJob EXCEPT !.pc = "listed",
                        !.open = {b \in Bookings : Listed(b)},
                        !.looping = {b \in Bookings : Listed(b) /\ booking[b].looping}]
    <2>1. JobOK(r)
        BY IdleOK
    <2> QED BY <1>4, <2>1 DEF TickStart, Moves
<1>5. CASE TickListAccepted(t)
    <2> DEFINE taken == [b \in Bookings |-> IF /\ booking[b].status = "accepted"
                                               /\ HandOverTime /\ ~booking[b].told
                                            THEN booking[b].driver ELSE None]
               r == [job[t] EXCEPT !.pc = "next", !.taken = taken]
    <2>1. taken \in [Bookings -> Drivers \cup {None}]
        BY <1>2 DEF BookingType
    <2>2. JobOK(r)
        BY <1>1, <2>1
    <2>3. Moves(t, r)
        BY <1>5 DEF TickListAccepted, Moves
    <2> QED BY <2>2, <2>3
<1>6. CASE TickCurrent(t) \/ TickBroadcast(t) \/ TickType(t)
    <2> DEFINE r == [job[t] EXCEPT !.pc = "next", !.b = None, !.d = None]
    <2>1. JobOK(r)
        BY <1>1
    <2>2. Moves(t, r)
        BY <1>6 DEF TickCurrent, TickBroadcast, TickType, NextBooking, Moves
    <2> QED BY <2>1, <2>2
<1>7. CASE TickLook(t)
    <2> DEFINE r == [job[t] EXCEPT !.pc = "next", !.b = None, !.d = None]
               q == [job[t] EXCEPT !.pc = "busy"]
    <2>1. JobOK(r) /\ JobOK(q)
        BY <1>1, <1>7 DEF TickLook, At
    <2>2. Moves(t, r) \/ Moves(t, q)
        BY <1>7 DEF TickLook, NextBooking, Goto, Moves
    <2> QED BY <2>1, <2>2
<1>8. CASE TickBusy(t)
    <2> DEFINE q == [job[t] EXCEPT !.pc = "type"]
    <2>1. JobOK(q)
        BY <1>1, <1>8 DEF TickBusy, At
    <2> QED BY <1>8, <2>1 DEF TickBusy, Goto, Moves
<1>9. ASSUME NEW c \in Bookings, TickBooking(t, c) PROVE \E r : JobOK(r) /\ Moves(t, r)
    <2> DEFINE pc == StepFor(t, c)
               r == [job[t] EXCEPT !.open = @ \ {c}, !.looping = @ \ {c}, !.pc = pc,
                                   !.b = IF pc = "next" THEN None ELSE c]
    <2>1. pc \in {"fail", "current", "mark", "sent25", "next"}
        BY DEF StepFor
    <2>2. JobOK(r)
        BY <1>1, <2>1
    <2>3. Moves(t, r)
        BY <1>9 DEF TickBooking, Moves
    <2> QED BY <2>2, <2>3
<1>10. ASSUME NEW c \in Bookings, TickTell(t, c) PROVE \E r : JobOK(r) /\ Moves(t, r)
    <2> DEFINE r == [job[t] EXCEPT !.taken[c] = None, !.pc = "look", !.b = c,
                                   !.d = job[t].taken[c]]
    <2>1. job[t].taken[c] \in Drivers
        BY <1>1, <1>10 DEF TickTell, Taken
    <2>2. [job[t].taken EXCEPT ![c] = None] \in [Bookings -> Drivers \cup {None}]
        BY <1>1
    <2>3. r = [job[t] EXCEPT !.taken = [job[t].taken EXCEPT ![c] = None], !.pc = "look",
                             !.b = c, !.d = job[t].taken[c]]
        OBVIOUS
    <2>4. JobOK(r)
        BY <1>1, <2>1, <2>2, <2>3
    <2>5. Moves(t, r)
        BY <1>10 DEF TickTell, Moves
    <2> QED BY <2>4, <2>5
<1> QED BY <1>3, <1>4, <1>5, <1>6, <1>7, <1>8, <1>9, <1>10 DEF TickStep

\* So does a loop.
LEMMA LoopJobs ==
    ASSUME TypeInv, NEW j \in Jobs, LoopStep(j) \/ LoopError(j)
    PROVE  JobsOK' /\ \A i \in Jobs \ {j} : job'[i] = job[i]
<1>0. JobsOK /\ now \in Nat
    BY DueAssumption DEF TypeInv, DocsOK
<1>1. JobOK(job[j])
    BY <1>0 DEF JobsOK
<1> SUFFICES \E r : JobOK(r) /\ Moves(j, r)
    BY <1>0, MovesJob
<1> USE DEF JobOK, JobType, BookingPCs, DriverPCs, JobPCs
<1>2. CASE Mark(j)
    <2> DEFINE r == [job[j] EXCEPT !.pc = "loop", !.start = now]
    <2>1. JobOK(r)
        BY <1>0, <1>1, <1>2 DEF Mark, At
    <2>2. job' = [job EXCEPT ![j].pc = "loop", ![j].start = now]
        BY <1>2 DEF Mark
    <2>3. Moves(j, r)
        BY <1>0, <2>2 DEF Moves, JobsOK
    <2> QED BY <2>1, <2>3
<1>3. CASE LoopAsk(j)
    <2> DEFINE r == [job[j] EXCEPT !.pc = "loop", !.d = None]
    <2>1. JobOK(r)
        BY <1>1, <1>3 DEF LoopAsk, At
    <2>2. Moves(j, r)
        BY <1>3 DEF LoopAsk, Moves
    <2> QED BY <2>1, <2>2
<1>4. CASE LoopOver(j)
    <2> DEFINE r == [job[j] EXCEPT !.pc = "unmark"]
    <2>1. JobOK(r)
        BY <1>1, <1>4 DEF LoopOver, At
    <2> QED BY <1>4, <2>1 DEF LoopOver, Goto, Moves
<1>5. CASE Unmark(j)
    <2> DEFINE r == [job[j] EXCEPT !.pc = "next", !.b = None, !.start = 0]
    <2>1. JobOK(r)
        BY <1>1
    <2>2. Moves(j, r) \/ Moves(j, IdleJob)
        BY <1>5 DEF Unmark, End, Moves
    <2> QED BY <2>1, <2>2, IdleOK
<1>6. CASE LoopError(j)
    BY <1>6, IdleOK DEF LoopError, End, Moves
<1>7. ASSUME NEW d \in Drivers, LoopRound(j, d) PROVE \E r : JobOK(r) /\ Moves(j, r)
    <2> DEFINE r == [job[j] EXCEPT !.pc = "ask", !.d = d]
    <2>1. JobOK(r)
        BY <1>1, <1>7 DEF LoopRound, At
    <2>2. Moves(j, r)
        BY <1>7 DEF LoopRound, Moves
    <2> QED BY <2>1, <2>2
<1> QED BY <1>2, <1>3, <1>4, <1>5, <1>6, <1>7 DEF LoopStep

\* Drivers, customers, dispatchers, the clock and a crash.
LEMMA OthersType ==
    ASSUME TypeInv,
           \/ TimePasses \/ Crash
           \/ \E r \in Requests, b \in Bookings : AutoAssign(r, b)
           \/ \E b \in Bookings : CustomerCancel(b) \/ DriverCancel(b) \/ Decline(b)
           \/ \E b \in Bookings, d \in Drivers : Take(b, d)
    PROVE  TypeInv'
<1>1. booking \in [Bookings -> BookingType] /\ free \subseteq Drivers /\ events \in Nat
    BY DueAssumption DEF TypeInv, DocsOK
<1>2. OneEvent => events' \in 0..MaxEvents
    BY <1>1, DueAssumption DEF OneEvent
<1>3. UNCHANGED job => JobsOK'
    BY DEF TypeInv, JobsOK, JobOK
<1>4. CASE TimePasses
    BY <1>3, <1>4 DEF TimePasses, notes, TypeInv, DocsOK, HistoryOK
<1>5. CASE Crash
    <2>1. JobsOK'
        BY <1>5, IdleOK DEF Crash, JobsOK
    <2>2. {b \in Bookings : booking[b].looping} \subseteq Bookings
        OBVIOUS
    <2>3. {job[t].b : t \in {x \in Ticks : job[x].pc \in {"look", "busy", "type"}}} \subseteq Bookings
        BY DEF TypeInv, JobsOK, JobOK, BookingPCs, JobPCs, Jobs
    <2> QED BY <1>2, <1>5, <2>1, <2>2, <2>3 DEF Crash, TypeInv, DocsOK, HistoryOK
<1>6. ASSUME NEW r \in Requests, NEW b \in Bookings, AutoAssign(r, b) PROVE TypeInv'
    <2> DEFINE q == [IdleJob EXCEPT !.pc = "mark", !.b = b]
    <2>1. JobOK(q)
        BY IdleOK DEF JobOK, JobType, BookingPCs, DriverPCs, JobPCs
    <2>2. r \in Jobs /\ Moves(r, q) /\ JobsOK
        BY <1>6 DEF AutoAssign, Moves, Jobs, TypeInv
    <2>3. JobsOK'
        BY <2>1, <2>2, MovesJob
    <2> QED BY <1>2, <1>6, <2>3 DEF AutoAssign, TypeInv, DocsOK, HistoryOK
<1>7. ASSUME NEW b \in Bookings, CustomerCancel(b) PROVE TypeInv'
    <2>1. [booking[b] EXCEPT !.status = "cancelled", !.type = "cancelled"] \in BookingType
        BY <1>1, BookingUpdates
    <2>3. booking' = [booking EXCEPT ![b] =
                        [booking[b] EXCEPT !.status = "cancelled", !.type = "cancelled"]]
        BY <1>7 DEF CustomerCancel
    <2>2. booking' \in [Bookings -> BookingType]
        BY <1>1, <2>1, <2>3
    <2> QED BY <1>1, <1>2, <1>3, <1>7, <2>2
            DEF CustomerCancel, Outdates, TypeInv, DocsOK, HistoryOK
<1>8. ASSUME NEW b \in Bookings, DriverCancel(b) PROVE TypeInv'
    <2>1. GivenBack(booking[b]) \in BookingType
        BY <1>1, BookingUpdates
    <2>2. booking' = [booking EXCEPT ![b] = GivenBack(booking[b])]
        BY <1>8, DriverGivesBack
    <2>3. booking' \in [Bookings -> BookingType]
        BY <1>1, <2>1, <2>2
    <2>4. free' \subseteq Drivers
        BY <1>1, <1>8 DEF DriverCancel, BookingType
    <2> QED BY <1>3, <1>8, <2>3, <2>4
            DEF DriverCancel, Outdates, TypeInv, DocsOK, HistoryOK
<1>9. ASSUME NEW b \in Bookings, NEW d \in Drivers, Take(b, d) PROVE TypeInv'
    <2>1. [booking[b] EXCEPT !.status = "accepted", !.driver = d] \in BookingType
        BY <1>1, BookingUpdates
    <2>2. booking' = [booking EXCEPT ![b] =
                        [booking[b] EXCEPT !.status = "accepted", !.driver = d]]
        BY <1>9 DEF Take
    <2>3. booking' \in [Bookings -> BookingType]
        BY <1>1, <2>1, <2>2
    <2>4. free' \subseteq Drivers
        BY <1>1, <1>9 DEF Take
    <2>5. events' \in 0..MaxEvents
        BY <1>2, <1>9 DEF Take, TypeInv, DocsOK
    <2> QED BY <1>3, <1>9, <2>3, <2>4, <2>5
            DEF Take, Outdates, TypeInv, DocsOK, HistoryOK
<1>10. ASSUME NEW b \in Bookings, Decline(b) PROVE TypeInv'
    <2>1. [booking[b] EXCEPT !.told = FALSE] \in BookingType
        BY <1>1, BookingUpdates
    <2>2. booking' \in [Bookings -> BookingType]
        BY <1>1, <1>10, <2>1 DEF Decline
    <2> QED BY <1>3, <1>10, <2>2 DEF Decline, TypeInv, DocsOK, HistoryOK
<1> QED BY <1>4, <1>5, <1>6, <1>7, <1>8, <1>9, <1>10

LEMMA NextType == TypeInv /\ [Next]_vars => TypeInv'
<1> SUFFICES ASSUME TypeInv, [Next]_vars PROVE TypeInv'
    OBVIOUS
<1>1. ASSUME NEW t \in Ticks, TickStep(t) PROVE TypeInv'
    BY <1>1, TickDocs, TickJobs DEF TypeInv
<1>2. ASSUME NEW j \in Jobs, LoopStep(j) \/ LoopError(j) PROVE TypeInv'
    BY <1>2, LoopDocs, LoopJobs DEF TypeInv
<1>3. CASE UNCHANGED vars
    BY <1>3 DEF vars, TypeInv, DocsOK, HistoryOK, JobsOK, JobOK
<1> QED BY <1>1, <1>2, <1>3, OthersType DEF Next

LEMMA AlwaysTypeInv == Spec => []TypeInv
    BY InitType, NextType, PTL DEF Spec

\* Every document, and everything a tick or a request remembers, keeps its type.
THEOREM SchedulerTyped == Spec => []TypeOK
    BY AlwaysTypeInv, TypeInvSuffices, PTL

-----------------------------------------------------------------------------
(* The mark.  What a step has to do with it: which jobs loop for a booking, *)
(* which are about to, and the mark itself.                                 *)

AtWork(b) == {j \in Jobs : job[j].b = b /\ job[j].pc \in LoopPCs \cup {"mark"}}

Quiet ==
    /\ \A b \in Bookings : /\ LoopsOn(b)' = LoopsOn(b) /\ AtWork(b)' = AtWork(b)
                           /\ booking'[b].looping = booking[b].looping
    /\ UNCHANGED <<raced, stuck>>

\* A step of one job that is at work on the same booking after it, or on none
\* before and after, changes neither set.
LEMMA StaysAtWork ==
    ASSUME NEW j \in Jobs, \A i \in Jobs \ {j} : job'[i] = job[i],
           job'[j].pc \in LoopPCs <=> job[j].pc \in LoopPCs,
           job'[j].pc = "mark" <=> job[j].pc = "mark",
           job[j].pc \in LoopPCs \cup {"mark"} => job'[j].b = job[j].b,
           NEW b \in Bookings
    PROVE  LoopsOn(b)' = LoopsOn(b) /\ AtWork(b)' = AtWork(b)
<1>1. \A i \in Jobs : (i \in LoopsOn(b)' <=> i \in LoopsOn(b)) /\ (i \in AtWork(b)' <=> i \in AtWork(b))
    BY DEF LoopsOn, AtWork
<1> QED BY <1>1 DEF LoopsOn, AtWork

\* A tick that takes no booking from its list is quiet.
LEMMA TickQuiet ==
    ASSUME TypeInv, NEW t \in Ticks, TickStep(t),
           ~ \E b \in Bookings : TickBooking(t, b)
    PROVE  Quiet
<1>1. t \in Jobs /\ JobOK(job[t]) /\ booking \in [Bookings -> BookingType]
    BY DEF TypeInv, JobsOK, DocsOK, Jobs
<1>2. \A i \in Jobs \ {t} : job'[i] = job[i]
    BY TickJobs
<1>3. /\ job[t].pc \in {"idle", "listed", "next", "fail", "current", "sent25"} \cup HandOverPCs
      /\ job'[t].pc \in {"idle", "listed", "next", "look", "busy", "type"}
    <2> USE DEF TypeInv, JobsOK, JobOK, JobType, HandOverPCs, At
    <2>1. CASE TickFail(t) \/ TickEnds(t)
        BY <1>1, <2>1 DEF TickFail, TickEnds, End, IdleJob
    <2>5. CASE TickStart(t)
        BY <1>1, <2>5 DEF TickStart, IdleJob
    <2>6. CASE TickListAccepted(t)
        BY <1>1, <2>6 DEF TickListAccepted
    <2>2. CASE TickCurrent(t) \/ TickBroadcast(t) \/ TickType(t)
        BY <1>1, <2>2 DEF TickCurrent, TickBroadcast, TickType, NextBooking
    <2>3. CASE TickLook(t) \/ TickBusy(t)
        BY <1>1, <2>3 DEF TickLook, TickBusy, NextBooking, Goto
    <2>4. CASE \E b \in Bookings : TickTell(t, b)
        BY <1>1, <2>4 DEF TickTell
    <2> QED BY <2>1, <2>2, <2>3, <2>4, <2>5, <2>6 DEF TickStep
<1>4. \A b \in Bookings : booking'[b].looping = booking[b].looping
    <2>1. CASE \/ TickStart(t) \/ TickListAccepted(t) \/ TickEnds(t) \/ TickLook(t) \/ TickBusy(t)
        BY <2>1 DEF TickStart, TickListAccepted, TickEnds, TickLook, TickBusy
    <2>2. CASE TickFail(t) \/ TickCurrent(t) \/ TickBroadcast(t) \/ TickType(t)
        BY <1>1, <2>2 DEF TickFail, TickCurrent, TickBroadcast, TickType, BookingType
    <2>3. CASE \E b \in Bookings : TickTell(t, b)
        BY <1>1, <2>3 DEF TickTell, BookingType
    <2> QED BY <2>1, <2>2, <2>3 DEF TickStep
<1>5. UNCHANGED <<raced, stuck>>
    BY DEF TickStep, TickStart, TickListAccepted, TickEnds, TickLook, TickBusy, TickFail,
           TickCurrent, TickBroadcast, TickType, TickTell, notes
<1> QED BY <1>1, <1>2, <1>3, <1>4, <1>5, StaysAtWork DEF Quiet, LoopPCs, HandOverPCs

\* So is a loop between its mark and its removal.
LEMMA LoopQuiet ==
    ASSUME TypeInv, NEW j \in Jobs,
           LoopAsk(j) \/ LoopOver(j) \/ \E d \in Drivers : LoopRound(j, d)
    PROVE  Quiet
<1>1. JobOK(job[j]) /\ booking \in [Bookings -> BookingType]
    BY DEF TypeInv, JobsOK, DocsOK
<1>2. \A i \in Jobs \ {j} : job'[i] = job[i]
    BY LoopJobs DEF LoopStep
<1>3. job[j].pc \in LoopPCs /\ job'[j].pc \in LoopPCs /\ job'[j].b = job[j].b
    <2> USE DEF TypeInv, JobsOK, JobOK, JobType, LoopPCs, At
    <2>1. CASE LoopAsk(j)
        BY <1>1, <2>1 DEF LoopAsk
    <2>2. CASE LoopOver(j)
        BY <1>1, <2>2 DEF LoopOver, Goto
    <2>3. ASSUME NEW d \in Drivers, LoopRound(j, d)
          PROVE  job[j].pc \in LoopPCs /\ job'[j].pc \in LoopPCs /\ job'[j].b = job[j].b
        BY <1>1, <2>3 DEF LoopRound
    <2> QED BY <2>1, <2>2, <2>3
<1>4. \A b \in Bookings : booking'[b].looping = booking[b].looping
    <2>1. CASE LoopAsk(j)
        BY <1>1, <2>1 DEF LoopAsk, BookingType
    <2> QED BY <2>1 DEF LoopOver, LoopRound
<1>5. UNCHANGED <<raced, stuck>>
    BY DEF LoopAsk, LoopOver, LoopRound, notes
<1> QED BY <1>2, <1>3, <1>4, <1>5, StaysAtWork DEF Quiet, LoopPCs

\* Drivers, customers and the clock leave the mark alone.
LEMMA OthersQuiet ==
    ASSUME TypeInv,
           \/ TimePasses
           \/ \E b \in Bookings : CustomerCancel(b) \/ DriverCancel(b) \/ Decline(b)
           \/ \E b \in Bookings, d \in Drivers : Take(b, d)
    PROVE  Quiet
<1>1. booking \in [Bookings -> BookingType]
    BY DEF TypeInv, DocsOK
<1>2. UNCHANGED <<job, raced, stuck>>
    BY DEF TimePasses, CustomerCancel, DriverCancel, Decline, Take, notes
<1>3. \A b \in Bookings : booking'[b].looping = booking[b].looping
    <2>1. CASE TimePasses
        BY <2>1 DEF TimePasses
    <2>2. CASE \E b \in Bookings : CustomerCancel(b) \/ Decline(b)
        BY <1>1, <2>2 DEF CustomerCancel, Decline, BookingType
    <2>3. ASSUME NEW b \in Bookings, DriverCancel(b), NEW c \in Bookings
          PROVE  booking'[c].looping = booking[c].looping
        <3>1. booking' = [booking EXCEPT ![b] = GivenBack(booking[b])]
            BY <2>3, DriverGivesBack
        <3> QED BY <1>1, <3>1 DEF GivenBack, BookingType
    <2>4. ASSUME NEW b \in Bookings, NEW d \in Drivers, Take(b, d), NEW c \in Bookings
          PROVE  booking'[c].looping = booking[c].looping
        <3>1. booking' = [booking EXCEPT ![b] =
                            [booking[b] EXCEPT !.status = "accepted", !.driver = d]]
            BY <2>4 DEF Take
        <3> QED BY <1>1, <3>1 DEF BookingType
    <2> QED BY <2>1, <2>2, <2>3, <2>4
<1> QED BY <1>2, <1>3 DEF Quiet, LoopsOn, AtWork

\* What is left are the steps that start a loop or end one.
LEMMA QuietSteps ==
    ASSUME TypeInv, [Next]_vars
    PROVE  \/ Quiet
           \/ \E t \in Ticks, b \in Bookings : TickBooking(t, b)
           \/ \E r \in Requests, b \in Bookings : AutoAssign(r, b)
           \/ \E j \in Jobs : Mark(j) \/ Unmark(j) \/ LoopError(j)
           \/ Crash
<1>1. CASE UNCHANGED vars
    BY <1>1 DEF vars, Quiet, LoopsOn, AtWork
<1>2. CASE \E t \in Ticks : TickStep(t)
    BY <1>2, TickQuiet
<1>3. CASE \E j \in Jobs : LoopStep(j) \/ LoopError(j)
    BY <1>3, LoopQuiet DEF LoopStep
<1> QED BY <1>1, <1>2, <1>3, OthersQuiet DEF Next

\* What those steps do.
LEMMA TickBookingMark ==
    ASSUME TypeInv, NEW t \in Ticks, NEW b \in Bookings, TickBooking(t, b)
    PROVE  /\ \A c \in Bookings : /\ LoopsOn(c)' = LoopsOn(c)
                                  /\ AtWork(c)' = AtWork(c) \/ c = b
           /\ AtWork(b)' = AtWork(b)
                 \/ /\ AtWork(b)' = AtWork(b) \cup {t}
                    /\ b \in raced' \/ (~booking[b].looping /\ ~AboutToMark(b))
           /\ booking' = booking /\ stuck' = stuck /\ raced \subseteq raced'
<1>1. t \in Jobs /\ JobOK(job[t])
    BY DEF TypeInv, JobsOK, Jobs
<1>2. \A i \in Jobs \ {t} : job'[i] = job[i]
    BY TickJobs DEF TickStep
<1>3. /\ job[t].pc = "next" /\ job'[t].pc = StepFor(t, b)
      /\ StepFor(t, b) # "next" => job'[t].b = b
    BY <1>1 DEF TickBooking, TypeInv, JobsOK, JobOK, JobType, At
<1>4. StepFor(t, b) \in {"fail", "current", "mark", "sent25", "next"}
    BY DEF StepFor
<1>5. \A c \in Bookings, i \in Jobs : /\ i \in LoopsOn(c)' <=> i \in LoopsOn(c)
                                      /\ i \in AtWork(c)' <=> \/ i \in AtWork(c)
                                                              \/ i = t /\ c = b /\ StepFor(t, b) = "mark"
    BY <1>1, <1>2, <1>3, <1>4 DEF LoopsOn, AtWork, LoopPCs
<1>6. \A c \in Bookings : LoopsOn(c)' = LoopsOn(c) /\ (AtWork(c)' = AtWork(c) \/ c = b)
    BY <1>5 DEF LoopsOn, AtWork
<1>7. AtWork(b)' = IF StepFor(t, b) = "mark" THEN AtWork(b) \cup {t} ELSE AtWork(b)
    BY <1>1, <1>5 DEF AtWork
<1>8. /\ StepFor(t, b) = "mark" => b \in raced' \/ (~booking[b].looping /\ ~AboutToMark(b))
      /\ booking' = booking /\ stuck' = stuck /\ raced \subseteq raced'
    BY DEF TickBooking
<1> QED BY <1>6, <1>7, <1>8

LEMMA AutoAssignMark ==
    ASSUME TypeInv, NEW r \in Requests, NEW b \in Bookings, AutoAssign(r, b)
    PROVE  /\ \A c \in Bookings : LoopsOn(c)' = LoopsOn(c) /\ (AtWork(c)' = AtWork(c) \/ c = b)
           /\ AtWork(b)' = AtWork(b) \cup {r}
           /\ b \in raced' \/ ~AboutToMark(b)
           /\ ~booking[b].looping
           /\ booking' = booking /\ stuck' = stuck /\ raced \subseteq raced'
<1>1. r \in Jobs /\ job[r].pc = "idle"
    BY DEF AutoAssign, At, Jobs
<1>2. job'[r].pc = "mark" /\ job'[r].b = b /\ \A i \in Jobs \ {r} : job'[i] = job[i]
    BY <1>1 DEF AutoAssign, IdleJob, TypeInv, JobsOK
<1>3. \A c \in Bookings, i \in Jobs : /\ i \in LoopsOn(c)' <=> i \in LoopsOn(c)
                                      /\ i \in AtWork(c)' <=> i \in AtWork(c) \/ (i = r /\ c = b)
    BY <1>1, <1>2 DEF LoopsOn, AtWork, LoopPCs
<1>4. \A c \in Bookings : LoopsOn(c)' = LoopsOn(c) /\ (AtWork(c)' = AtWork(c) \/ c = b)
    BY <1>3 DEF LoopsOn, AtWork
<1>5. AtWork(b)' = AtWork(b) \cup {r}
    BY <1>1, <1>3 DEF AtWork
<1> QED BY <1>4, <1>5 DEF AutoAssign

LEMMA MarkMark ==
    ASSUME TypeInv, NEW j \in Jobs, Mark(j)
    PROVE  /\ job[j].b \in Bookings /\ j \in AtWork(job[j].b)
           /\ \A c \in Bookings :
                 /\ AtWork(c)' = AtWork(c)
                 /\ LoopsOn(c)' = IF c = job[j].b THEN LoopsOn(c) \cup {j} ELSE LoopsOn(c)
                 /\ booking'[c].looping = (c = job[j].b \/ booking[c].looping)
           /\ UNCHANGED <<raced, stuck>>
<1>1. JobOK(job[j]) /\ booking \in [Bookings -> BookingType]
    BY DEF TypeInv, JobsOK, DocsOK
<1>2. \A i \in Jobs \ {j} : job'[i] = job[i]
    BY LoopJobs DEF LoopStep
<1>3. /\ job[j].pc = "mark" /\ job[j].b \in Bookings
      /\ job'[j].pc = "loop" /\ job'[j].b = job[j].b
    BY <1>1 DEF Mark, At, TypeInv, JobsOK, JobOK, JobType, BookingPCs, JobPCs
<1>4. \A c \in Bookings, i \in Jobs :
         /\ i \in AtWork(c)' <=> i \in AtWork(c)
         /\ i \in LoopsOn(c)' <=> i \in LoopsOn(c) \/ (i = j /\ c = job[j].b)
    BY <1>2, <1>3 DEF LoopsOn, AtWork, LoopPCs
<1>5. \A c \in Bookings :
         /\ AtWork(c)' = AtWork(c)
         /\ LoopsOn(c)' = IF c = job[j].b THEN LoopsOn(c) \cup {j} ELSE LoopsOn(c)
    BY <1>4 DEF LoopsOn, AtWork
<1>6. \A c \in Bookings : booking'[c].looping = (c = job[j].b \/ booking[c].looping)
    <2> TAKE c \in Bookings
    <2>1. booking'[c] = IF c = job[j].b THEN Marked(booking[c], j \in Ticks) ELSE booking[c]
        BY <1>1, <1>3 DEF Mark
    <2>2. \A x : Marked(booking[c], x).looping = TRUE
        BY <1>1 DEF Marked, BookingType
    <2>3. booking[c].looping \in BOOLEAN
        BY <1>1 DEF BookingType
    <2>4. CASE c = job[j].b
        BY <2>1, <2>2, <2>4
    <2>5. CASE c # job[j].b
        BY <2>1, <2>3, <2>5
    <2> QED BY <2>4, <2>5
<1> QED BY <1>3, <1>5, <1>6 DEF Mark, notes, AtWork

LEMMA UnmarkMark ==
    ASSUME TypeInv, NEW j \in Jobs, Unmark(j) \/ LoopError(j)
    PROVE  /\ job[j].b \in Bookings /\ j \in LoopsOn(job[j].b)
           /\ \A c \in Bookings :
                 /\ AtWork(c)' = AtWork(c) \ {j} /\ LoopsOn(c)' = LoopsOn(c) \ {j}
                 /\ c # job[j].b => booking'[c].looping = booking[c].looping
           /\ raced' = raced
           /\ \/ ~booking'[job[j].b].looping /\ stuck' = stuck
              \/ booking' = booking /\ stuck' = stuck \cup {job[j].b}
<1>1. JobOK(job[j]) /\ booking \in [Bookings -> BookingType]
    BY DEF TypeInv, JobsOK, DocsOK
<1>2. \A i \in Jobs \ {j} : job'[i] = job[i]
    BY LoopJobs DEF LoopStep
<1>3. /\ job[j].pc \in LoopPCs /\ job[j].b \in Bookings
      /\ job'[j].pc \in {"next", "idle"}
    <2> USE DEF At, TypeInv, JobsOK, JobOK, JobType, BookingPCs, JobPCs, LoopPCs
    <2>1. CASE Unmark(j)
        BY <1>1, <2>1 DEF Unmark, End, IdleJob
    <2>2. CASE LoopError(j)
        BY <1>1, <2>2 DEF LoopError, End, IdleJob
    <2> QED BY <2>1, <2>2
<1>4. \A c \in Bookings, i \in Jobs :
         /\ i \in AtWork(c)' <=> i \in AtWork(c) /\ i # j
         /\ i \in LoopsOn(c)' <=> i \in LoopsOn(c) /\ i # j
    BY <1>2, <1>3 DEF LoopsOn, AtWork, LoopPCs
<1>5. \A c \in Bookings : AtWork(c)' = AtWork(c) \ {j} /\ LoopsOn(c)' = LoopsOn(c) \ {j}
    BY <1>4 DEF LoopsOn, AtWork
<1>6. CASE Unmark(j)
    <2>1. \A c \in Bookings :
             booking'[c] = IF c = job[j].b THEN [booking[c] EXCEPT !.looping = FALSE]
                           ELSE booking[c]
        BY <1>1, <1>3, <1>6 DEF Unmark
    <2>2. /\ \A c \in Bookings : c # job[j].b => booking'[c].looping = booking[c].looping
          /\ ~booking'[job[j].b].looping
        BY <1>1, <1>3, <2>1 DEF BookingType
    <2> QED BY <1>3, <1>5, <1>6, <2>2 DEF Unmark, notes, LoopsOn
<1>7. CASE LoopError(j)
    BY <1>3, <1>5, <1>7 DEF LoopError, LoopsOn
<1> QED BY <1>6, <1>7

LEMMA CrashMark ==
    ASSUME Crash
    PROVE  /\ \A c \in Bookings : AtWork(c)' = {} /\ LoopsOn(c)' = {}
           /\ booking' = booking /\ raced' = raced
           /\ stuck \subseteq stuck' /\ {b \in Bookings : booking[b].looping} \subseteq stuck'
    BY DEF Crash, AtWork, LoopsOn, IdleJob, LoopPCs

-----------------------------------------------------------------------------
\* A booking marked as being broadcast is being broadcast, or a crash or an error
\* has left the mark.
THEOREM MarksAreLoops == Spec => []MarkedIsLooped
<1>1. Init => MarkedIsLooped
    BY DEF Init, MarkedIsLooped, NewBooking
<1>2. TypeInv /\ MarkedIsLooped /\ [Next]_vars => MarkedIsLooped'
    <2> SUFFICES ASSUME TypeInv, MarkedIsLooped, [Next]_vars, NEW c \in Bookings
                 PROVE  booking'[c].looping => LoopsOn(c)' # {} \/ c \in stuck'
        BY DEF MarkedIsLooped
    <2>0. booking[c].looping => LoopsOn(c) # {} \/ c \in stuck
        BY DEF MarkedIsLooped
    <2>1. CASE Quiet
        BY <2>0, <2>1 DEF Quiet
    <2>2. ASSUME NEW t \in Ticks, NEW b \in Bookings, TickBooking(t, b)
          PROVE  booking'[c].looping => LoopsOn(c)' # {} \/ c \in stuck'
        BY <2>0, <2>2, TickBookingMark
    <2>3. ASSUME NEW r \in Requests, NEW b \in Bookings, AutoAssign(r, b)
          PROVE  booking'[c].looping => LoopsOn(c)' # {} \/ c \in stuck'
        BY <2>0, <2>3, AutoAssignMark
    <2>4. ASSUME NEW j \in Jobs, Mark(j)
          PROVE  booking'[c].looping => LoopsOn(c)' # {} \/ c \in stuck'
        BY <2>0, <2>4, MarkMark
    <2>5. ASSUME NEW j \in Jobs, Unmark(j) \/ LoopError(j)
          PROVE  booking'[c].looping => LoopsOn(c)' # {} \/ c \in stuck'
        <3>1. CASE c = job[j].b
            BY <2>5, <3>1, UnmarkMark
        <3>2. CASE c # job[j].b
            BY <2>0, <2>5, <3>2, UnmarkMark DEF LoopsOn
        <3> QED BY <3>1, <3>2
    <2>6. CASE Crash
        BY <2>0, <2>6, CrashMark
    <2> QED BY <2>1, <2>2, <2>3, <2>4, <2>5, <2>6, QuietSteps
<1>3. Spec => []TypeInv
    BY InitType, NextType, PTL DEF Spec
<1> QED BY <1>1, <1>2, <1>3, PTL DEF Spec

(* One loop.  A booking nobody raced for, and that no crash or error has    *)
(* left marked, has at most one job that loops for it or is about to, and   *)
(* is marked while one loops: whoever looks at the mark then stays away.    *)

Lone(b) ==
    /\ \A i, j \in AtWork(b) : i = j
    /\ LoopsOn(b) # {} => booking[b].looping

LoneInv == \A b \in Bookings \ (raced \cup stuck) : Lone(b)

LEMMA LoneSuffices == LoneInv => OneLoop
<1> SUFFICES ASSUME LoneInv, NEW b \in Bookings, b \notin raced \cup stuck
             PROVE  Cardinality(LoopsOn(b)) <= 1
    BY DEF OneLoop
<1>1. LoopsOn(b) \subseteq AtWork(b) /\ \A i, j \in AtWork(b) : i = j
    BY DEF LoneInv, Lone, LoopsOn, AtWork
<1>2. LoopsOn(b) = {} \/ \E j : LoopsOn(b) = {j}
    BY <1>1
<1>3. CASE LoopsOn(b) = {}
    BY <1>3, FS_EmptySet
<1>4. ASSUME NEW j, LoopsOn(b) = {j} PROVE Cardinality(LoopsOn(b)) <= 1
    BY <1>4, FS_Singleton
<1> QED BY <1>2, <1>3, <1>4

\* Two loops never ask for the same booking at the same time, unless the second
\* looked at the mark before the first had set it, or a crash or an error left it.
THEOREM LoopsAreLone == Spec => []OneLoop
<1>1. Init => LoneInv
    BY DEF Init, LoneInv, Lone, AtWork, LoopsOn, IdleJob, LoopPCs
<1>2. TypeInv /\ LoneInv /\ [Next]_vars => LoneInv'
    <2> SUFFICES ASSUME TypeInv, LoneInv, [Next]_vars,
                        NEW c \in Bookings, c \notin raced' \cup stuck'
                 PROVE  Lone(c)'
        BY DEF LoneInv
    <2>0. c \notin raced \cup stuck => Lone(c)
        BY DEF LoneInv
    <2>1. CASE Quiet
        BY <2>0, <2>1 DEF Quiet, Lone
    <2>2. ASSUME NEW t \in Ticks, NEW b \in Bookings, TickBooking(t, b) PROVE Lone(c)'
        <3>1. /\ LoopsOn(c)' = LoopsOn(c) /\ (AtWork(c)' = AtWork(c) \/ c = b)
              /\ booking' = booking /\ c \notin raced \cup stuck
            BY <2>2, TickBookingMark
        <3>2. CASE AtWork(c)' = AtWork(c)
            BY <2>0, <3>1, <3>2 DEF Lone
        <3>3. CASE c = b /\ AtWork(c)' # AtWork(c)
            <4>1. AtWork(c)' = AtWork(c) \cup {t} /\ ~booking[c].looping /\ ~AboutToMark(c)
                BY <2>2, <3>3, TickBookingMark
            <4>2. AtWork(c) = {}
                BY <2>0, <3>1, <4>1 DEF Lone, AboutToMark, AtWork, LoopsOn
            <4> QED BY <2>0, <3>1, <4>1, <4>2 DEF Lone
        <3> QED BY <3>1, <3>2, <3>3
    <2>3. ASSUME NEW r \in Requests, NEW b \in Bookings, AutoAssign(r, b) PROVE Lone(c)'
        <3>1. /\ LoopsOn(c)' = LoopsOn(c) /\ (AtWork(c)' = AtWork(c) \/ c = b)
              /\ booking' = booking /\ c \notin raced \cup stuck
            BY <2>3, AutoAssignMark
        <3>2. CASE c # b
            BY <2>0, <3>1, <3>2 DEF Lone
        <3>3. CASE c = b
            <4>1. AtWork(c)' = AtWork(c) \cup {r} /\ ~booking[c].looping /\ ~AboutToMark(c)
                BY <2>3, <3>3, AutoAssignMark
            <4>2. AtWork(c) = {}
                BY <2>0, <3>1, <4>1 DEF Lone, AboutToMark, AtWork, LoopsOn
            <4> QED BY <2>0, <3>1, <4>1, <4>2 DEF Lone
        <3> QED BY <3>2, <3>3
    <2>4. ASSUME NEW j \in Jobs, Mark(j) PROVE Lone(c)'
        <3>1. AtWork(c)' = AtWork(c) /\ c \notin raced \cup stuck
            BY <2>4, MarkMark
        <3>2. LoopsOn(c)' # {} => booking'[c].looping
            BY <2>0, <2>4, <3>1, MarkMark DEF Lone
        <3> QED BY <2>0, <3>1, <3>2 DEF Lone
    <2>5. ASSUME NEW j \in Jobs, Unmark(j) \/ LoopError(j) PROVE Lone(c)'
        <3>1. /\ AtWork(c)' = AtWork(c) \ {j} /\ LoopsOn(c)' = LoopsOn(c) \ {j}
              /\ c \notin raced \cup stuck
            BY <2>5, UnmarkMark
        <3>2. LoopsOn(c)' # {} => booking'[c].looping
            <4>1. CASE c = job[j].b
                <5>1. j \in LoopsOn(c)
                    BY <2>5, <4>1, UnmarkMark
                <5>2. LoopsOn(c) \subseteq AtWork(c)
                    BY DEF LoopsOn, AtWork
                <5> QED BY <2>0, <3>1, <5>1, <5>2 DEF Lone
            <4>2. CASE c # job[j].b
                BY <2>0, <2>5, <3>1, <4>2, UnmarkMark DEF Lone
            <4> QED BY <4>1, <4>2
        <3> QED BY <2>0, <3>1, <3>2 DEF Lone
    <2>6. CASE Crash
        BY <2>6, CrashMark DEF Lone
    <2> QED BY <2>1, <2>2, <2>3, <2>4, <2>5, <2>6, QuietSteps
<1> QED BY <1>1, <1>2, LoneSuffices, AlwaysTypeInv, PTL DEF Spec

-----------------------------------------------------------------------------
(* The hand-over.                                                           *)

HandingOver(b) == \E t \in Ticks : job[t].b = b /\ job[t].pc \in HandOverPCs

\* A step that tells of no booking, puts none back on the list of the scheduled ones or
\* forgets that it was missed, and ends no hand-over, keeps the promise.
LEMMA KeepsTold ==
    ASSUME ToldIsHandedOver,
           \A b \in Bookings : booking'[b].told =>
               /\ booking[b].told
               /\ booking[b].type # "schedule" => booking'[b].type # "schedule"
               /\ b \in missed => b \in missed'
               /\ HandingOver(b) => HandingOver(b)' \/ b \in missed'
                                    \/ booking'[b].type # "schedule"
    PROVE  ToldIsHandedOver'
    BY DEF ToldIsHandedOver, HandingOver, HandOverPCs

\* The hand-overs of the other jobs go on when one job moves.
LEMMA KeepsHandingOver ==
    ASSUME NEW j \in Jobs, \A i \in Jobs \ {j} : job'[i] = job[i],
           job[j].pc \notin HandOverPCs \/ (job'[j].pc \in HandOverPCs /\ job'[j].b = job[j].b),
           NEW b \in Bookings, HandingOver(b)
    PROVE  HandingOver(b)'
<1>1. PICK t \in Ticks : job[t].b = b /\ job[t].pc \in HandOverPCs
    BY DEF HandingOver
<1>2. t \in Jobs
    BY DEF Jobs
<1>3. job'[t].b = b /\ job'[t].pc \in HandOverPCs
    BY <1>1, <1>2
<1> QED BY <1>3 DEF HandingOver

LEMMA TickTold ==
    ASSUME TypeInv, ToldIsHandedOver, NEW t \in Ticks, TickStep(t)
    PROVE  ToldIsHandedOver'
<1>1. t \in Jobs /\ JobOK(job[t]) /\ booking \in [Bookings -> BookingType]
    BY DEF TypeInv, JobsOK, DocsOK, Jobs
<1>2. \A i \in Jobs \ {t} : job'[i] = job[i]
    BY TickJobs
<1> DEFINE b == job[t].b
<1>3. CASE TickStart(t) \/ TickListAccepted(t) \/ TickEnds(t) \/ \E c \in Bookings : TickBooking(t, c)
    <2>1. UNCHANGED <<booking, missed>> /\ job[t].pc \notin HandOverPCs
        BY <1>3 DEF TickStart, TickListAccepted, TickEnds, TickBooking, notes, At, HandOverPCs
    <2> QED BY <1>1, <1>2, <2>1, KeepsTold, KeepsHandingOver
<1>4. CASE TickFail(t) \/ TickBroadcast(t) \/ TickCurrent(t)
    <2>1. UNCHANGED missed /\ job[t].pc \notin HandOverPCs
        BY <1>4 DEF TickFail, TickBroadcast, TickCurrent, notes, At, HandOverPCs
    <2>2. \A c \in Bookings : /\ booking'[c].told => booking[c].told
                              /\ booking[c].type # "schedule" => booking'[c].type # "schedule"
        BY <1>1, <1>4 DEF TickFail, TickBroadcast, TickCurrent, BookingType
    <2> QED BY <1>1, <1>2, <2>1, <2>2, KeepsTold, KeepsHandingOver
<1>5. ASSUME NEW c \in Bookings, TickTell(t, c) PROVE ToldIsHandedOver'
    <2>1. UNCHANGED missed /\ job[t].pc \notin HandOverPCs
        BY <1>5 DEF TickTell, notes, At, HandOverPCs
    <2>2. \A x \in Bookings : /\ x # c => (booking'[x].told => booking[x].told)
                              /\ booking[x].type # "schedule" => booking'[x].type # "schedule"
        BY <1>1, <1>5 DEF TickTell, BookingType
    <2>3. job'[t].b = c /\ job'[t].pc = "look"
        BY <1>1, <1>5 DEF TickTell, TypeInv, JobsOK, JobOK, JobType
    <2>4. \A x \in Bookings : HandingOver(x) => HandingOver(x)'
        BY <1>1, <1>2, <2>1, KeepsHandingOver
    <2>5. HandingOver(c)'
        BY <2>3 DEF HandingOver, HandOverPCs
    <2> QED BY <2>1, <2>2, <2>4, <2>5 DEF ToldIsHandedOver, HandingOver, HandOverPCs
<1>6. CASE TickLook(t)
    <2>1. booking' = booking /\ missed \subseteq missed'
        BY <1>6 DEF TickLook
    <2>2. CASE job[t].d \in free
        <3>1. job[t].pc = "look" /\ job'[t].pc = "busy" /\ job'[t].b = b
            BY <1>1, <1>6, <2>2 DEF TickLook, Goto, At, TypeInv, JobsOK, JobOK, JobType
        <3> QED BY <1>1, <1>2, <2>1, <3>1, KeepsTold, KeepsHandingOver DEF HandOverPCs
    <2>3. CASE job[t].d \notin free
        <3>1. b \in missed'
            BY <1>6, <2>3 DEF TickLook
        <3>2. \A c \in Bookings : HandingOver(c) => HandingOver(c)' \/ c = b
            BY <1>2 DEF HandingOver, Jobs
        <3> QED BY <2>1, <3>1, <3>2, KeepsTold
    <2> QED BY <2>2, <2>3
<1>7. CASE TickBusy(t)
    <2>1. UNCHANGED <<booking, missed>>
        BY <1>7 DEF TickBusy, notes
    <2>2. job[t].pc = "busy" /\ job'[t].pc = "type" /\ job'[t].b = b
        BY <1>1, <1>7 DEF TickBusy, Goto, At, TypeInv, JobsOK, JobOK, JobType
    <2> QED BY <1>1, <1>2, <2>1, <2>2, KeepsTold, KeepsHandingOver DEF HandOverPCs
<1>8. CASE TickType(t)
    <2>1. b \in Bookings
        BY <1>1, <1>8 DEF TickType, At, JobOK, BookingPCs, JobPCs
    <2>2. /\ UNCHANGED missed /\ booking'[b].type = "current"
          /\ \A c \in Bookings : /\ booking'[c].told => booking[c].told
                                 /\ booking[c].type # "schedule" => booking'[c].type # "schedule"
        BY <1>1, <1>8, <2>1 DEF TickType, notes, BookingType
    <2>3. \A c \in Bookings : HandingOver(c) => HandingOver(c)' \/ c = b
        BY <1>2 DEF HandingOver, Jobs
    <2> QED BY <2>2, <2>3, KeepsTold
<1> QED BY <1>3, <1>4, <1>5, <1>6, <1>7, <1>8 DEF TickStep

\* A booking that the hand-over has told of becomes a current one, unless its driver was
\* busy or the server stopped in between; it is told of anew when its driver gave it back.
THEOREM ToldAreHandedOver == Spec => []ToldIsHandedOver
<1>1. Init => ToldIsHandedOver
    BY DEF Init, ToldIsHandedOver, NewBooking
<1>2. TypeInv /\ ToldIsHandedOver /\ [Next]_vars => ToldIsHandedOver'
    <2> SUFFICES ASSUME TypeInv, ToldIsHandedOver, [Next]_vars PROVE ToldIsHandedOver'
        OBVIOUS
    <2>0. booking \in [Bookings -> BookingType]
        BY DEF TypeInv, DocsOK
    <2>1. ASSUME NEW j \in Jobs, LoopStep(j) \/ LoopError(j) PROVE ToldIsHandedOver'
        <3>1. JobOK(job[j]) /\ \A i \in Jobs \ {j} : job'[i] = job[i]
            BY <2>1, LoopJobs DEF TypeInv, JobsOK
        <3>2. job[j].pc \notin HandOverPCs /\ missed' = missed
            BY <2>1 DEF LoopStep, LoopError, Mark, LoopRound, LoopAsk, LoopOver, Unmark,
                        At, HandOverPCs, notes
        <3>3. \A b \in Bookings : booking'[b].told = booking[b].told
                                  /\ booking'[b].type = booking[b].type
            <4>1. CASE Mark(j)
                BY <2>0, <4>1 DEF Mark, Marked, BookingType
            <4>2. CASE LoopAsk(j)
                BY <2>0, <4>2 DEF LoopAsk, BookingType
            <4>3. CASE Unmark(j)
                BY <2>0, <4>3 DEF Unmark, BookingType
            <4>4. CASE UNCHANGED booking
                BY <4>4
            <4> QED BY <2>1, <4>1, <4>2, <4>3, <4>4 DEF LoopStep, LoopError, LoopOver, LoopRound
        <3> QED BY <3>1, <3>2, <3>3, KeepsTold, KeepsHandingOver
    <2>2. ASSUME NEW r \in Requests, NEW b \in Bookings, AutoAssign(r, b)
          PROVE  ToldIsHandedOver'
        <3>1. /\ r \in Jobs /\ job[r].pc \notin HandOverPCs /\ UNCHANGED <<booking, missed>>
              /\ \A i \in Jobs \ {r} : job'[i] = job[i]
            BY <2>2 DEF AutoAssign, At, Jobs, HandOverPCs, TypeInv, JobsOK
        <3> QED BY <3>1, KeepsTold, KeepsHandingOver
    <2>3. CASE TimePasses \/ UNCHANGED vars
        <3>1. UNCHANGED <<booking, job, missed>>
            BY <2>3 DEF vars, TimePasses, notes
        <3> QED BY <3>1, KeepsTold DEF HandingOver
    <2>5. ASSUME NEW b \in Bookings, DriverCancel(b) \/ Decline(b) PROVE ToldIsHandedOver'
        <3>1. UNCHANGED job /\ missed' = missed \ {b}
            BY <2>5 DEF DriverCancel, Decline
        <3>2. PICK r : booking' = [booking EXCEPT ![b] = r] /\ ~r.told
            <4>1. CASE DriverCancel(b)
                <5>1. ~GivenBack(booking[b]).told
                    BY <2>0 DEF GivenBack, BookingType
                <5> QED BY <4>1, <5>1, DriverGivesBack
            <4>2. CASE Decline(b)
                <5>1. ~[booking[b] EXCEPT !.told = FALSE].told
                    BY <2>0 DEF BookingType
                <5> QED BY <4>2, <5>1 DEF Decline
            <4> QED BY <2>5, <4>1, <4>2
        <3>3. ~booking'[b].told /\ \A c \in Bookings \ {b} : booking'[c] = booking[c]
            BY <2>0, <3>2
        <3> QED BY <3>1, <3>3, KeepsTold DEF HandingOver
    <2>6. ASSUME NEW b \in Bookings, CustomerCancel(b) PROVE ToldIsHandedOver'
        <3>1. UNCHANGED <<job, missed>>
            BY <2>6 DEF CustomerCancel
        <3>2. booking' = [booking EXCEPT ![b] =
                            [booking[b] EXCEPT !.status = "cancelled", !.type = "cancelled"]]
            BY <2>6 DEF CustomerCancel
        <3>3. \A c \in Bookings : /\ booking'[c].told = booking[c].told
                                  /\ booking'[c].type \in {booking[c].type, "cancelled"}
            BY <2>0, <3>2 DEF BookingType
        <3> QED BY <3>1, <3>3, KeepsTold DEF HandingOver
    <2>7. ASSUME NEW b \in Bookings, NEW d \in Drivers, Take(b, d) PROVE ToldIsHandedOver'
        <3>1. UNCHANGED <<job, missed>>
            BY <2>7 DEF Take
        <3>2. booking' = [booking EXCEPT ![b] =
                            [booking[b] EXCEPT !.status = "accepted", !.driver = d]]
            BY <2>7 DEF Take
        <3>3. \A c \in Bookings : /\ booking'[c].told = booking[c].told
                                  /\ booking'[c].type = booking[c].type
            BY <2>0, <3>2 DEF BookingType
        <3> QED BY <3>1, <3>3, KeepsTold DEF HandingOver
    <2>4. CASE Crash
        <3>1. \A b \in Bookings : HandingOver(b) => b \in missed'
            BY <2>4 DEF Crash, HandingOver, HandOverPCs
        <3> QED BY <2>4, <3>1, KeepsTold DEF Crash
    <2> QED BY <2>1, <2>2, <2>3, <2>4, <2>5, <2>6, <2>7, TickTold DEF Next
<1> QED BY <1>1, <1>2, AlwaysTypeInv, PTL DEF Spec

-----------------------------------------------------------------------------
(* Failing.  A booking whose status did not change while a tick had it on   *)
(* its list is open, without a driver and never failed before as long as    *)
(* one has it there; and once failed it stays so, with no driver who could  *)
(* give it back.                                                            *)

OnList(b) == {t \in Ticks : b \in job[t].open \/ (job[t].b = b /\ job[t].pc = "fail")}

Once(b) ==
    /\ expired[b] \in {0, 1}
    /\ OnList(b) # {} => /\ booking[b].status = "open" /\ booking[b].driver = None
                         /\ expired[b] = 0
    /\ expired[b] = 1 => booking[b].status = "failed" /\ booking[b].driver = None

OnceInv == \A b \in Bookings \ stale : Once(b)

LEMMA OnceSuffices == OnceInv => RefundedOnce
    BY DEF OnceInv, Once, RefundedOnce

\* A step that puts b on no list and leaves its status, driver and history alone.
SameState(b) ==
    /\ booking'[b].status = booking[b].status /\ booking'[b].driver = booking[b].driver
    /\ expired'[b] = expired[b]

LEMMA KeepsOnce ==
    ASSUME OnceInv, stale \subseteq stale', NEW b \in Bookings \ stale',
           SameState(b), OnList(b)' \subseteq OnList(b)
    PROVE  Once(b)'
    BY DEF OnceInv, Once, SameState

\* A job that lists nothing more, and is about to fail only what it has listed.
LEMMA ListShrinks ==
    ASSUME NEW j \in Jobs, \A i \in Jobs \ {j} : job'[i] = job[i],
           job'[j].open \subseteq job[j].open,
           job'[j].pc = "fail" => job'[j].b \in job[j].open,
           NEW b \in Bookings
    PROVE  OnList(b)' \subseteq OnList(b)
    BY DEF OnList, Jobs

\* The writes of a tick, but for a failure, and those of a loop leave status and
\* driver alone.
LEMMA TickSameState ==
    ASSUME TypeInv, NEW t \in Ticks, TickStep(t), ~TickFail(t), NEW b \in Bookings
    PROVE  SameState(b) /\ stale' = stale
<1>1. booking \in [Bookings -> BookingType]
    BY DEF TypeInv, DocsOK
<1>2. CASE \/ TickStart(t) \/ TickListAccepted(t) \/ TickEnds(t) \/ TickLook(t) \/ TickBusy(t)
           \/ \E c \in Bookings : TickBooking(t, c)
    BY <1>2 DEF TickStart, TickListAccepted, TickEnds, TickLook, TickBusy, TickBooking,
                notes, SameState
<1>3. CASE TickCurrent(t) \/ TickBroadcast(t) \/ TickType(t)
    BY <1>1, <1>3 DEF TickCurrent, TickBroadcast, TickType, notes, SameState, BookingType
<1>4. CASE \E c \in Bookings : TickTell(t, c)
    BY <1>1, <1>4 DEF TickTell, notes, SameState, BookingType
<1> QED BY <1>2, <1>3, <1>4 DEF TickStep

LEMMA LoopSameState ==
    ASSUME TypeInv, NEW j \in Jobs, LoopStep(j) \/ LoopError(j), NEW b \in Bookings
    PROVE  SameState(b) /\ stale' = stale
<1>1. booking \in [Bookings -> BookingType]
    BY DEF TypeInv, DocsOK
<1>2. CASE Mark(j)
    BY <1>1, <1>2 DEF Mark, Marked, notes, SameState, BookingType
<1>3. CASE LoopAsk(j)
    BY <1>1, <1>3 DEF LoopAsk, notes, SameState, BookingType
<1>4. CASE Unmark(j)
    BY <1>1, <1>4 DEF Unmark, notes, SameState, BookingType
<1>5. CASE LoopError(j) \/ LoopOver(j) \/ \E d \in Drivers : LoopRound(j, d)
    BY <1>5 DEF LoopError, LoopOver, LoopRound, notes, SameState
<1> QED BY <1>2, <1>3, <1>4, <1>5 DEF LoopStep

LEMMA TickOnce ==
    ASSUME TypeInv, OnceInv, NEW t \in Ticks, TickStep(t)
    PROVE  OnceInv'
<1>1. t \in Jobs /\ JobOK(job[t]) /\ booking \in [Bookings -> BookingType]
      /\ expired \in [Bookings -> 0..2]
    BY DEF TypeInv, JobsOK, DocsOK, HistoryOK, Jobs
<1>2. \A i \in Jobs \ {t} : job'[i] = job[i]
    BY TickJobs
<1>3. ASSUME ~TickFail(t), ~TickStart(t) PROVE OnceInv'
    <2> USE DEF TypeInv, JobsOK, JobOK, JobType, At
    <2>1. CASE TickListAccepted(t)
        <3>1. job'[t].open = job[t].open /\ job'[t].pc = "next"
            BY <1>1, <2>1 DEF TickListAccepted
        <3> QED BY <1>1, <1>2, <1>3, <3>1, ListShrinks, TickSameState, KeepsOnce DEF OnceInv
    <2>2. CASE TickCurrent(t) \/ TickBroadcast(t) \/ TickType(t)
        <3>1. job'[t].open = job[t].open /\ job'[t].pc = "next"
            BY <1>1, <2>2 DEF TickCurrent, TickBroadcast, TickType, NextBooking
        <3> QED BY <1>1, <1>2, <1>3, <3>1, ListShrinks, TickSameState, KeepsOnce DEF OnceInv
    <2>3. CASE TickLook(t) \/ TickBusy(t)
        <3>1. job'[t].open = job[t].open /\ job'[t].pc # "fail"
            BY <1>1, <2>3 DEF TickLook, TickBusy, NextBooking, Goto
        <3> QED BY <1>1, <1>2, <1>3, <3>1, ListShrinks, TickSameState, KeepsOnce DEF OnceInv
    <2>4. CASE TickEnds(t)
        <3>1. job'[t].open = {} /\ job'[t].pc = "idle"
            BY <1>1, <2>4 DEF TickEnds, End, IdleJob
        <3> QED BY <1>1, <1>2, <1>3, <3>1, ListShrinks, TickSameState, KeepsOnce DEF OnceInv
    <2>5. ASSUME NEW c \in Bookings, TickBooking(t, c) PROVE OnceInv'
        <3>1. /\ job'[t].open \subseteq job[t].open /\ job'[t].pc = StepFor(t, c)
              /\ c \in job[t].open
              /\ StepFor(t, c) # "next" => job'[t].b = c
            BY <1>1, <2>5 DEF TickBooking
        <3> QED BY <1>1, <1>2, <1>3, <3>1, ListShrinks, TickSameState, KeepsOnce DEF OnceInv
    <2>6. ASSUME NEW c \in Bookings, TickTell(t, c) PROVE OnceInv'
        <3>1. job'[t].open = job[t].open /\ job'[t].pc = "look"
            BY <1>1, <2>6 DEF TickTell
        <3> QED BY <1>1, <1>2, <1>3, <3>1, ListShrinks, TickSameState, KeepsOnce DEF OnceInv
    <2> QED BY <1>3, <2>1, <2>2, <2>3, <2>4, <2>5, <2>6 DEF TickStep
<1>4. CASE TickStart(t)
    <2> SUFFICES ASSUME NEW b \in Bookings \ stale' PROVE Once(b)'
        BY DEF OnceInv
    <2>1. SameState(b) /\ stale' = stale
        BY <1>4, TickSameState DEF TickStart, TickFail, At
    <2>2. job'[t].open = {c \in Bookings : Listed(c)} /\ job'[t].pc = "listed"
        BY <1>1, <1>4 DEF TickStart, TypeInv, JobsOK, IdleJob
    <2>3. CASE Listed(b)
        BY <2>1, <2>3 DEF OnceInv, Once, SameState, Listed
    <2>4. CASE ~Listed(b)
        <3>1. OnList(b)' \subseteq OnList(b)
            BY <1>2, <2>2, <2>4 DEF OnList, Jobs
        <3> QED BY <2>1, <3>1, KeepsOnce
    <2> QED BY <2>3, <2>4
<1>5. CASE TickFail(t)
    <2> SUFFICES ASSUME NEW b \in Bookings \ stale' PROVE Once(b)'
        BY DEF OnceInv
    <2>1. job[t].pc = "fail" /\ job[t].b \in Bookings /\ b \notin stale
        BY <1>1, <1>5 DEF TickFail, At, JobOK, BookingPCs, JobPCs, Outdates
    <2>2. job'[t].open = {} /\ job'[t].pc = "idle"
        BY <1>1, <1>5 DEF TickFail, End, IdleJob, TypeInv, JobsOK
    <2>3. CASE b = job[t].b
        <3>1. Listing(b) \ {t} = {}
            BY <1>5, <2>3 DEF TickFail, Outdates
        <3>2. OnList(b)' = {}
            BY <1>2, <2>2, <3>1 DEF OnList, Listing, Jobs
        <3>3. t \in OnList(b)
            BY <2>1, <2>3 DEF OnList
        <3>4. expired[b] = 0 /\ booking[b].driver = None
            BY <2>1, <3>3 DEF OnceInv, Once
        <3>5. booking'[b].status = "failed" /\ booking'[b].driver = None
            BY <1>1, <1>5, <2>3, <3>4 DEF TickFail, BookingType
        <3>6. expired'[b] = 1
            BY <1>1, <1>5, <2>3, <3>4 DEF TickFail
        <3> QED BY <3>2, <3>5, <3>6 DEF Once
    <2>4. CASE b # job[t].b
        <3>1. SameState(b)
            BY <1>1, <1>5, <2>1, <2>4 DEF TickFail, SameState
        <3>2. stale \subseteq stale' /\ OnList(b)' \subseteq OnList(b)
            BY <1>1, <1>2, <1>5, <2>2, ListShrinks DEF TickFail, Outdates
        <3> QED BY <3>1, <3>2, KeepsOnce
    <2> QED BY <2>3, <2>4
<1> QED BY <1>3, <1>4, <1>5

\* Taking, giving back and cancelling a booking.
LEMMA TakenOnce ==
    ASSUME TypeInv, OnceInv,
           \/ \E b \in Bookings : CustomerCancel(b) \/ DriverCancel(b) \/ Decline(b)
           \/ \E b \in Bookings, d \in Drivers : Take(b, d)
    PROVE  OnceInv'
<1>1. booking \in [Bookings -> BookingType]
    BY DEF TypeInv, DocsOK
<1>2. UNCHANGED <<job, expired>>
    BY DEF CustomerCancel, DriverCancel, Decline, Take
<1>3. \A b \in Bookings : OnList(b)' = OnList(b) /\ OnList(b) \subseteq Listing(b)
    BY <1>2 DEF OnList, Listing
<1> SUFFICES ASSUME NEW b \in Bookings \ stale' PROVE Once(b)'
    BY DEF OnceInv
<1>4. b \notin stale /\ stale \subseteq stale' /\ Once(b)
    BY DEF CustomerCancel, DriverCancel, Decline, Take, Outdates, OnceInv
<1>5. ASSUME booking'[b].status = booking[b].status, booking'[b].driver = booking[b].driver
      PROVE  Once(b)'
    BY <1>2, <1>3, <1>4, <1>5, KeepsOnce DEF SameState
<1>6. ASSUME NEW c \in Bookings, CustomerCancel(c) PROVE Once(b)'
    <2>1. CASE b = c
        <3>1. Listing(b) = {} /\ booking[b].status \in {"open", "accepted"}
            BY <1>6, <2>1, <1>4 DEF CustomerCancel, Outdates
        <3> QED BY <1>2, <1>3, <1>4, <3>1 DEF Once
    <2>2. CASE b # c
        BY <1>1, <1>5, <1>6, <2>2 DEF CustomerCancel
    <2> QED BY <2>1, <2>2
<1>7. ASSUME NEW c \in Bookings, DriverCancel(c) PROVE Once(b)'
    <2>1. CASE b = c
        <3>1. Listing(b) = {} /\ booking[b].driver # None
            BY <1>7, <2>1, <1>4 DEF DriverCancel, Outdates
        <3> QED BY <1>2, <1>3, <1>4, <3>1 DEF Once
    <2>2. CASE b # c
        BY <1>1, <1>5, <1>7, <2>2 DEF DriverCancel
    <2> QED BY <2>1, <2>2
<1>8. ASSUME NEW c \in Bookings, NEW d \in Drivers, Take(c, d) PROVE Once(b)'
    <2>1. CASE b = c
        <3>1. Listing(b) = {} /\ booking[b].status = "open"
            BY <1>8, <2>1, <1>4 DEF Take, Outdates
        <3> QED BY <1>2, <1>3, <1>4, <3>1 DEF Once
    <2>2. CASE b # c
        BY <1>1, <1>5, <1>8, <2>2 DEF Take
    <2> QED BY <2>1, <2>2
<1>9. ASSUME NEW c \in Bookings, Decline(c) PROVE Once(b)'
    BY <1>1, <1>5, <1>9 DEF Decline, BookingType
<1> QED BY <1>6, <1>7, <1>8, <1>9

\* A tick fails and refunds a booking once, unless its status changed while a tick
\* had it on its list.
THEOREM RefundsAreSingle == Spec => []RefundedOnce
<1>1. Init => OnceInv
    BY DEF Init, OnceInv, Once, OnList, IdleJob, Jobs
<1>2. TypeInv /\ OnceInv /\ [Next]_vars => OnceInv'
    <2> SUFFICES ASSUME TypeInv, OnceInv, [Next]_vars PROVE OnceInv'
        OBVIOUS
    <2>1. ASSUME NEW j \in Jobs, LoopStep(j) \/ LoopError(j) PROVE OnceInv'
        <3>1. JobOK(job[j]) /\ \A i \in Jobs \ {j} : job'[i] = job[i]
            BY <2>1, LoopJobs DEF TypeInv, JobsOK
        <3>2. job'[j].open \in {job[j].open, {}} /\ job'[j].pc # "fail"
            <4> USE DEF TypeInv, JobsOK, JobOK, JobType
            <4>1. CASE Mark(j) \/ LoopAsk(j)
                BY <3>1, <4>1 DEF Mark, LoopAsk
            <4>2. CASE LoopOver(j)
                BY <3>1, <4>2 DEF LoopOver, Goto
            <4>3. CASE Unmark(j) \/ LoopError(j)
                BY <3>1, <4>3 DEF Unmark, LoopError, End, IdleJob
            <4>4. ASSUME NEW d \in Drivers, LoopRound(j, d)
                  PROVE  job'[j].open \in {job[j].open, {}} /\ job'[j].pc # "fail"
                BY <3>1, <4>4 DEF LoopRound
            <4> QED BY <2>1, <4>1, <4>2, <4>3, <4>4 DEF LoopStep
        <3>3. \A b \in Bookings : OnList(b)' \subseteq OnList(b)
            BY <3>1, <3>2, ListShrinks
        <3> QED BY <2>1, <3>3, LoopSameState, KeepsOnce DEF OnceInv
    <2>2. ASSUME NEW r \in Requests, NEW b \in Bookings, AutoAssign(r, b) PROVE OnceInv'
        <3>1. /\ r \in Jobs /\ job'[r].open = {} /\ job'[r].pc = "mark"
              /\ \A i \in Jobs \ {r} : job'[i] = job[i]
              /\ UNCHANGED <<booking, expired, stale>>
            BY <2>2 DEF AutoAssign, Jobs, TypeInv, JobsOK, IdleJob
        <3> QED BY <3>1, ListShrinks, KeepsOnce DEF OnceInv, SameState
    <2>3. CASE TimePasses \/ UNCHANGED vars
        <3>1. UNCHANGED <<booking, expired, stale, job>>
            BY <2>3 DEF TimePasses, vars, notes
        <3> QED BY <3>1 DEF OnceInv, Once, OnList
    <2>4. CASE Crash
        <3>1. \A b \in Bookings : OnList(b)' = {}
            BY <2>4 DEF Crash, OnList, IdleJob, Jobs
        <3> QED BY <2>4, <3>1, KeepsOnce DEF Crash, OnceInv, SameState
    <2> QED BY <2>1, <2>2, <2>3, <2>4, TickOnce, TakenOnce DEF Next
<1> QED BY <1>1, <1>2, OnceSuffices, AlwaysTypeInv, PTL DEF Spec

-----------------------------------------------------------------------------
(* The lifecycle: every booking of Scheduler goes through that of           *)
(* RideLifecycle, as those of Dispatch do.                                  *)

PhaseOf(status) ==
    CASE status = "open"      -> "open"
      [] status = "accepted"  -> "held"
      [] OTHER                -> "dead"

RideOf(r) == [phase |-> PhaseOf(r.status),
              by |-> IF r.status = "accepted" THEN r.driver ELSE None]

Lifecycle == INSTANCE RideLifecycle WITH ride <- [b \in Bookings |-> RideOf(booking[b])]

\* Ticks that overlap, loops, takes and cancels take every booking from phase to phase as
\* the lifecycle allows.
ImplementsLifecycle == Lifecycle!Spec

Rides == [b \in Bookings |-> RideOf(booking[b])]

LEMMA RideValues ==
    ASSUME NEW r \in BookingType
    PROVE  /\ r.status = "open" => RideOf(r) = [phase |-> "open", by |-> None]
           /\ r.status = "accepted" => RideOf(r) = [phase |-> "held", by |-> r.driver]
           /\ r.status \in {"failed", "cancelled"}
                => RideOf(r) = [phase |-> "dead", by |-> None]
           /\ r.status \in {"open", "accepted", "failed", "cancelled"}
BY DEF BookingType, RideOf, PhaseOf

\* What a step may do to one document: it leaves status and driver alone, a driver takes
\* an open one, or it leaves the booking open or dead.
RideMove(new, old) ==
    \/ new.status = old.status /\ new.driver = old.driver
    \/ old.status = "open" /\ new.status = "accepted" /\ new.driver \in Drivers
    \/ new.status \in {"open", "failed", "cancelled"}

OneRideMoves ==
    \E b \in Bookings : /\ RideMove(booking'[b], booking[b])
                        /\ \A x \in Bookings \ {b} : booking'[x] = booking[x]

\* A tick or a loop writes marks, or fails the booking.
LEMMA JobMoves ==
    ASSUME TypeInv, NEW j \in Jobs, (j \in Ticks /\ TickStep(j)) \/ LoopStep(j) \/ LoopError(j)
    PROVE  UNCHANGED booking \/ OneRideMoves
<1>1. booking \in [Bookings -> BookingType] /\ JobOK(job[j])
    BY DEF TypeInv, DocsOK, JobsOK
<1>2. CASE /\ j \in Ticks
           /\ TickFail(j) \/ TickCurrent(j) \/ TickBroadcast(j) \/ TickType(j)
    <2>1. job[j].b \in Bookings
        BY <1>1, <1>2
           DEF TickFail, TickCurrent, TickBroadcast, TickType, At, JobOK, BookingPCs, JobPCs
    <2>2. /\ RideMove(booking'[job[j].b], booking[job[j].b])
          /\ \A x \in Bookings \ {job[j].b} : booking'[x] = booking[x]
        BY <1>1, <1>2, <2>1
           DEF TickFail, TickCurrent, TickBroadcast, TickType, BookingType, RideMove
    <2> QED BY <2>1, <2>2 DEF OneRideMoves
<1>3. ASSUME j \in Ticks, NEW b \in Bookings, TickTell(j, b) PROVE OneRideMoves
    <2>1. /\ RideMove(booking'[b], booking[b])
          /\ \A x \in Bookings \ {b} : booking'[x] = booking[x]
        BY <1>1, <1>3 DEF TickTell, BookingType, RideMove
    <2> QED BY <2>1 DEF OneRideMoves
<1>4. CASE Mark(j) \/ LoopAsk(j) \/ Unmark(j)
    <2>. DEFINE c == job[j].b
    <2>1. c \in Bookings /\ booking[c] \in BookingType
        BY <1>1, <1>4 DEF Mark, LoopAsk, Unmark, At, JobOK, BookingPCs, JobPCs
    <2>2. /\ booking'[c].status = booking[c].status /\ booking'[c].driver = booking[c].driver
          /\ \A x \in Bookings \ {c} : booking'[x] = booking[x]
        <3>1. CASE Mark(j)
            <4>1. /\ Marked(booking[c], j \in Ticks).status = booking[c].status
                  /\ Marked(booking[c], j \in Ticks).driver = booking[c].driver
                BY <2>1 DEF Marked, BookingType
            <4>2. booking' = [booking EXCEPT ![c] = Marked(booking[c], j \in Ticks)]
                BY <3>1 DEF Mark
            <4> QED BY <1>1, <2>1, <4>1, <4>2
        <3>2. CASE LoopAsk(j) \/ Unmark(j)
            BY <1>1, <2>1, <3>2 DEF LoopAsk, Unmark, BookingType
        <3> QED BY <1>4, <3>1, <3>2
    <2> QED BY <2>1, <2>2 DEF OneRideMoves, RideMove
<1>5. CASE /\ j \in Ticks
           /\ \/ TickStart(j) \/ TickListAccepted(j) \/ TickLook(j) \/ TickBusy(j) \/ TickEnds(j)
              \/ \E b \in Bookings : TickBooking(j, b)
    BY <1>5 DEF TickStart, TickListAccepted, TickLook, TickBusy, TickEnds, TickBooking
<1>6. CASE LoopOver(j) \/ (\E d \in Drivers : LoopRound(j, d)) \/ LoopError(j)
    BY <1>6 DEF LoopOver, LoopRound, LoopError
<1> QED BY <1>2, <1>3, <1>4, <1>5, <1>6 DEF TickStep, LoopStep

\* Drivers, customers, dispatchers, the clock and a crash.
LEMMA OtherMoves ==
    ASSUME TypeInv,
           \/ \E r \in Requests, b \in Bookings : AutoAssign(r, b)
           \/ \E b \in Bookings : DriverCancel(b) \/ CustomerCancel(b) \/ Decline(b)
           \/ \E b \in Bookings, d \in Drivers : Take(b, d)
           \/ Crash \/ TimePasses
    PROVE  UNCHANGED booking \/ OneRideMoves
<1>1. booking \in [Bookings -> BookingType]
    BY DEF TypeInv, DocsOK
<1>2. ASSUME NEW b \in Bookings, DriverCancel(b) \/ CustomerCancel(b) \/ Decline(b)
      PROVE  OneRideMoves
    <2>1. /\ RideMove(booking'[b], booking[b])
          /\ \A x \in Bookings \ {b} : booking'[x] = booking[x]
        <3>1. CASE DriverCancel(b)
            <4>1. GivenBack(booking[b]).status = "open"
                BY <1>1 DEF GivenBack, BookingType
            <4> QED BY <1>1, <3>1, <4>1, DriverGivesBack DEF RideMove
        <3>2. CASE CustomerCancel(b) \/ Decline(b)
            BY <1>1, <3>2 DEF CustomerCancel, Decline, BookingType, RideMove
        <3> QED BY <1>2, <3>1, <3>2
    <2> QED BY <2>1 DEF OneRideMoves
<1>3. ASSUME NEW b \in Bookings, NEW d \in Drivers, Take(b, d) PROVE OneRideMoves
    <2>1. /\ RideMove(booking'[b], booking[b])
          /\ \A x \in Bookings \ {b} : booking'[x] = booking[x]
        BY <1>1, <1>3 DEF Take, BookingType, RideMove
    <2> QED BY <2>1 DEF OneRideMoves
<1> QED BY <1>2, <1>3 DEF AutoAssign, Crash, TimePasses

\* Such a move of a document is a step of the lifecycle, or changes nothing in it.
LEMMA MovesAreSteps ==
    ASSUME booking \in [Bookings -> BookingType], booking' \in [Bookings -> BookingType],
           OneRideMoves
    PROVE  [Lifecycle!Next]_([b \in Bookings |-> RideOf(booking[b])])
<1>1. PICK b \in Bookings : /\ RideMove(booking'[b], booking[b])
                            /\ \A x \in Bookings \ {b} : booking'[x] = booking[x]
    BY DEF OneRideMoves
<1> DEFINE old == booking[b]
           new == booking'[b]
<1>2. old \in BookingType /\ new \in BookingType
    OBVIOUS
<1>3. Rides' = [Rides EXCEPT ![b] = RideOf(new)] /\ Rides[b] = RideOf(old)
    BY <1>1 DEF Rides, RideOf
<1>4. CASE new.status = old.status /\ new.driver = old.driver
    <2>1. RideOf(new) = RideOf(old)
        BY <1>4 DEF RideOf
    <2> QED BY <1>3, <2>1 DEF Rides
<1>5. CASE old.status = "open" /\ new.status = "accepted" /\ new.driver \in Drivers
    <2>1. Rides[b].phase = "open" /\ RideOf(new) = [phase |-> "held", by |-> new.driver]
        BY <1>2, <1>3, <1>5, RideValues
    <2>2. Lifecycle!Take(b, new.driver)
        BY <1>3, <2>1 DEF Lifecycle!Take, Rides
    <2> QED BY <1>5, <2>2 DEF Lifecycle!Next
<1>6. CASE new.status = "open"
    <2>1. RideOf(new) = [phase |-> "open", by |-> None]
        BY <1>2, <1>6, RideValues
    <2>2. CASE old.status = "open"
        <3>1. RideOf(new) = RideOf(old)
            BY <1>2, <2>1, <2>2, RideValues
        <3> QED BY <1>3, <3>1 DEF Rides
    <2>3. CASE old.status = "accepted"
        <3>1. Rides[b].phase = "held"
            BY <1>2, <1>3, <2>3, RideValues
        <3>2. Lifecycle!Release(b)
            BY <1>3, <2>1, <3>1 DEF Lifecycle!Release, Lifecycle!In, Rides
        <3> QED BY <3>2 DEF Lifecycle!Next
    <2>4. CASE old.status \in {"failed", "cancelled"}
        <3>1. Rides[b].phase = "dead"
            BY <1>2, <1>3, <2>4, RideValues
        <3>2. Lifecycle!Reopen(b)
            BY <1>3, <2>1, <3>1 DEF Lifecycle!Reopen, Lifecycle!In, Rides
        <3> QED BY <3>2 DEF Lifecycle!Next
    <2> QED BY <1>2, <2>2, <2>3, <2>4, RideValues
<1>7. CASE new.status \in {"failed", "cancelled"}
    <2>1. RideOf(new) = [phase |-> "dead", by |-> None]
        BY <1>2, <1>7, RideValues
    <2>2. Lifecycle!Kill(b)
        BY <1>3, <2>1 DEF Lifecycle!Kill, Lifecycle!In, Rides
    <2> QED BY <2>2 DEF Lifecycle!Next
<1> QED BY <1>1, <1>4, <1>5, <1>6, <1>7 DEF RideMove

\* Scheduler implements RideLifecycle: however ticks overlap and stop, a booking is taken
\* only while it is open and never passes from one driver to another directly.
THEOREM SchedulerRefinesLifecycle == Spec => ImplementsLifecycle
<1>1. Init => Lifecycle!Init
    BY DEF Init, NewBooking, Lifecycle!Init, Lifecycle!In, RideOf, PhaseOf
<1>2. TypeInv /\ TypeInv' /\ [Next]_vars
        => [Lifecycle!Next]_([b \in Bookings |-> RideOf(booking[b])])
    <2> SUFFICES ASSUME TypeInv, TypeInv', [Next]_vars
                 PROVE  [Lifecycle!Next]_([b \in Bookings |-> RideOf(booking[b])])
        OBVIOUS
    <2>1. UNCHANGED booking \/ OneRideMoves
        BY JobMoves, OtherMoves DEF Next, vars, Jobs
    <2>2. CASE UNCHANGED booking
        BY <2>2
    <2>3. CASE OneRideMoves
        BY <2>3, MovesAreSteps DEF TypeInv, DocsOK
    <2> QED BY <2>1, <2>2, <2>3
<1> QED BY <1>1, <1>2, InitType, NextType, PTL DEF Spec, ImplementsLifecycle, Lifecycle!Spec
=============================================================================
