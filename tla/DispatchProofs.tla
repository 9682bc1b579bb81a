--------------------------- MODULE DispatchProofs ---------------------------
(***************************************************************************)
(* Proofs about Dispatch, for every set of bookings, drivers and calls and *)
(* every choice of active parties: its types, who may be offered a ride,   *)
(* that an offer can always be found by its booking, that the status of a  *)
(* booking agrees with its driver, and that the handlers, whatever they    *)
(* interleave, take every booking through the lifecycle of RideLifecycle.  *)
(***************************************************************************)
EXTENDS Dispatch, TLAPS

CallOK == call \in [Calls -> CallType]

-----------------------------------------------------------------------------
(* The operators that move a call keep it well typed.                       *)

\* What a call in flight knows about the booking and the driver it is about.
LEMMA CallFields ==
    ASSUME CallOK, NEW c \in Calls
    PROVE  /\ call[c].pc \in DriverPCs => call[c].b \in Bookings /\ call[c].d \in Drivers
           /\ call[c].pc \in BookingPCs => call[c].b \in Bookings /\ call[c].d = None
           /\ call[c].drv \in Drivers \cup {None}
           /\ call[c].skip \subseteq Drivers
           /\ call[c].pc \in DriverPCs \cup BookingPCs \cup {"idle"}
    BY DEF CallOK, CallType, IdleCall, DriverPCs, BookingPCs

\* A call about one driver takes a step of its kind.
LEMMA StepDriver ==
    ASSUME NEW b \in Bookings, NEW d \in Drivers, NEW pc \in DriverPCs,
           NEW st \in Statuses, NEW drv \in Drivers \cup {None}, NEW skip \in SUBSET Drivers
    PROVE  /\ Step(pc, b, d) \in CallType
           /\ [Step(pc, b, d) EXCEPT !.drv = drv] \in CallType
           /\ [Step(pc, b, d) EXCEPT !.st = st, !.drv = drv] \in CallType
    BY DEF Step, CallType, Statuses

\* A call about a booking takes a step of its kind.
LEMMA StepBooking ==
    ASSUME NEW b \in Bookings, NEW pc \in BookingPCs,
           NEW drv \in Drivers \cup {None}, NEW skip \in SUBSET Drivers
    PROVE  /\ Step(pc, b, None) \in CallType
           /\ [Step(pc, b, None) EXCEPT !.drv = drv] \in CallType
           /\ [Step(pc, b, None) EXCEPT !.skip = skip] \in CallType
    BY DEF Step, CallType, Statuses

\* A call ends, or moves to another step of its kind.
LEMMA MoveCall ==
    ASSUME CallOK, NEW c \in Calls, NEW pc
    PROVE  /\ End(c) => CallOK'
           /\ call[c].pc \in DriverPCs /\ pc \in DriverPCs /\ Goto(c, pc) => CallOK'
           /\ call[c].pc \in BookingPCs /\ pc \in BookingPCs /\ Goto(c, pc) => CallOK'
<1>1. End(c) => CallOK'
    BY DEF End, CallOK, CallType
<1>2. ASSUME call[c].pc \in DriverPCs, pc \in DriverPCs, Goto(c, pc) PROVE CallOK'
    <2>1. call[c] \in [pc : DriverPCs, b : Bookings, d : Drivers, st : Statuses,
                       drv : Drivers \cup {None}, skip : SUBSET Drivers]
        BY <1>2 DEF CallOK, CallType, DriverPCs, BookingPCs, IdleCall
    <2>2. [call[c] EXCEPT !.pc = pc] \in CallType
        BY <2>1, <1>2 DEF CallType
    <2> QED BY <2>2, <1>2 DEF Goto, CallOK
<1>3. ASSUME call[c].pc \in BookingPCs, pc \in BookingPCs, Goto(c, pc) PROVE CallOK'
    <2>1. call[c] \in [pc : BookingPCs, b : Bookings, d : {None}, st : Statuses,
                       drv : Drivers \cup {None}, skip : SUBSET Drivers]
        BY <1>3 DEF CallOK, CallType, DriverPCs, BookingPCs, IdleCall
    <2>2. [call[c] EXCEPT !.pc = pc] \in CallType
        BY <2>1, <1>3 DEF CallType
    <2> QED BY <2>2, <1>3 DEF Goto, CallOK
<1> QED BY <1>1, <1>2, <1>3

\* A call begins, or goes on remembering the driver it read.
LEMMA StoreCall ==
    ASSUME CallOK, NEW c \in Calls, NEW r \in CallType, call' = [call EXCEPT ![c] = r]
    PROVE  CallOK'
    BY DEF CallOK

-----------------------------------------------------------------------------
(* Type correctness.                                                        *)

\* The ways a handler changes the driver documents keep their type.
LEMMA DriverUpdates ==
    ASSUME NEW r \in DriverType, NEW b \in Bookings
    PROVE  /\ FreeDriver \in DriverType
           /\ ClearOffer(r) \in DriverType
           /\ OfferOf(r, b) \in DriverType
           /\ [r EXCEPT !.offered = FALSE] \in DriverType
           /\ [r EXCEPT !.current = None] \in DriverType
           /\ [r EXCEPT !.ride = "free"] \in DriverType
           /\ [r EXCEPT !.current = None, !.ride = "free"] \in DriverType
           /\ [r EXCEPT !.current = b, !.ride = "busy"] \in DriverType
           /\ [ClearOffer(r) EXCEPT !.ride = "free"] \in DriverType
    BY DEF DriverType, FreeDriver, ClearOffer, OfferOf

\* So do the two ways a handler rewrites a booking document as a whole.
LEMMA BookingUpdates ==
    ASSUME TypeOK, NEW b \in Bookings, NEW d \in Drivers, NEW st, NEW drv
    PROVE  /\ ReopenedByDriver(b, d) \in BookingType
           /\ SavedByAssign(b, st, drv) \in BookingType
<1> DEFINE r == booking[b]
<1>1. r \in BookingType
    BY DEF TypeOK
<1>2. /\ [r EXCEPT !.status = "none", !.driver = None] \in BookingType
      /\ [r EXCEPT !.status = "none", !.cancelled = r.cancelled \cup {d}] \in BookingType
    BY <1>1 DEF BookingType, Statuses
<1>3. \A v \in Drivers \cup {None}, w \in Statuses :
         [r EXCEPT !.driver = v, !.status = w] \in BookingType
    BY <1>1 DEF BookingType
<1>4. ReopenedByDriver(b, d) \in BookingType
    BY <1>2 DEF ReopenedByDriver
<1>5. /\ (IF drv = None THEN r.driver ELSE None) \in Drivers \cup {None}
      /\ (IF st = "request" THEN r.status ELSE "request") \in Statuses
    BY <1>1 DEF BookingType, Statuses
<1>6. SavedByAssign(b, st, drv) \in BookingType
    BY <1>3, <1>5 DEF SavedByAssign
<1> QED BY <1>4, <1>6

\* A write of a booking's status, alone or with its driver.
LEMMA StatusWrites ==
    ASSUME TypeOK, NEW b \in Bookings, NEW s \in Statuses, NEW v \in Drivers \cup {None}
    PROVE  /\ [booking EXCEPT ![b].status = s] \in [Bookings -> BookingType]
           /\ [booking EXCEPT ![b].status = s, ![b].driver = v] \in [Bookings -> BookingType]
<1>1. booking[b] \in BookingType
    BY DEF TypeOK
<1>2. /\ [booking[b] EXCEPT !.status = s] \in BookingType
      /\ [booking[b] EXCEPT !.status = s, !.driver = v] \in BookingType
    BY <1>1 DEF BookingType
<1>3. /\ [booking EXCEPT ![b] = [booking[b] EXCEPT !.status = s]] \in [Bookings -> BookingType]
      /\ [booking EXCEPT ![b] = [booking[b] EXCEPT !.status = s, !.driver = v]]
            \in [Bookings -> BookingType]
    BY <1>2 DEF TypeOK
<1> QED BY <1>3

\* A request, loop or tick that starts leaves every document well typed.
LEMMA StartType ==
    ASSUME TypeOK, NEW c \in Calls, NEW b \in Bookings, Start(c, b)
    PROVE  TypeOK'
<1> USE DEF TypeOK
<1>1. ASSUME NEW d \in Drivers, AcceptBooking(c, b, d) PROVE TypeOK'
    <2>1. CallOK'
        BY <1>1, StoreCall, StepDriver DEF AcceptBooking, Begin, CallOK, DriverPCs, Statuses
    <2>2. booking' \in [Bookings -> BookingType]
        BY <1>1, StatusWrites DEF AcceptBooking, Statuses
    <2>3. won' \in [Bookings -> SUBSET Drivers]
        BY <1>1 DEF AcceptBooking
    <2> QED BY <1>1, <2>1, <2>2, <2>3 DEF AcceptBooking, CallOK
<1>2. ASSUME NEW d \in Drivers, DeclineBooking(c, b, d) PROVE TypeOK'
    <2>1. CallOK'
        BY <1>2, StoreCall, StepDriver DEF DeclineBooking, Begin, CallOK, DriverPCs, Statuses
    <2> QED BY <1>2, <2>1, DriverUpdates DEF DeclineBooking, CallOK, history
<1>3. ASSUME NEW d \in Drivers, DriverCancel(c, b, d) PROVE TypeOK'
    <2>1. booking[b].driver \in Drivers \cup {None}
        BY DEF BookingType
    <2>2. CallOK'
        BY <1>3, <2>1, StoreCall, StepDriver DEF DriverCancel, CallOK, DriverPCs, Statuses
    <2> QED BY <1>3, <2>2 DEF DriverCancel, CallOK, docs, history
<1>4. ASSUME NEW d \in Drivers, RideCompleted(c, b, d) PROVE TypeOK'
    <2>1. CallOK'
        BY <1>4, StoreCall, StepDriver DEF RideCompleted, Begin, CallOK, DriverPCs, Statuses
    <2> QED BY <1>4, <2>1, StatusWrites DEF RideCompleted, CallOK, Statuses, history
<1>5. ASSUME NEW d \in Drivers, Broadcast(c, b, d) PROVE TypeOK'
    <2>1. CallOK'
        BY <1>5, StoreCall, StepDriver DEF Broadcast, Begin, CallOK, DriverPCs, Statuses
    <2> QED BY <1>5, <2>1 DEF Broadcast, CallOK, docs, history
<1>6. ASSUME NEW d \in Drivers, NEW o \in Calls, AssignADriver(c, o, b, d) PROVE TypeOK'
    <2>1. /\ booking[b].driver \in Drivers \cup {None}
          /\ booking[b].status \in Statuses
        BY DEF BookingType
    <2>2. \A pc \in {"assign.save", "assign.unassign"} :
             [Step(pc, b, d) EXCEPT !.st = booking[b].status, !.drv = booking[b].driver]
                 \in CallType
        BY <2>1, StepDriver DEF DriverPCs
    <2>3. Step("offer.flag", b, d) \in CallType
        BY StepDriver DEF DriverPCs, Statuses
    <2>4. call[o] \in CallType
        OBVIOUS
    <2>5. CallOK'
        BY <1>6, <2>2, <2>3, <2>4 DEF AssignADriver, CallOK
    <2> QED BY <1>6, <2>5 DEF AssignADriver, CallOK, docs, history
<1>7. ASSUME CustomerCancel(c, b) PROVE TypeOK'
    <2>1. CallOK'
        BY <1>7, StoreCall, StepBooking DEF CustomerCancel, Begin, CallOK, BookingPCs
    <2> QED BY <1>7, <2>1 DEF CustomerCancel, CallOK, docs, history
<1>8. ASSUME CancelRequest(c, b) PROVE TypeOK'
    <2>1. CallOK'
        BY <1>8, StoreCall, StepBooking DEF CancelRequest, Begin, CallOK, BookingPCs
    <2> QED BY <1>8, <2>1, StatusWrites DEF CancelRequest, CallOK, Statuses, history
<1>9. ASSUME DispatcherCancel(c, b) PROVE TypeOK'
    <2>1. booking[b].driver \in Drivers \cup {None}
        BY DEF BookingType
    <2>2. CallOK'
        BY <1>9, <2>1, StoreCall, StepBooking DEF DispatcherCancel, CallOK, BookingPCs
    <2> QED BY <1>9, <2>2, StatusWrites DEF DispatcherCancel, CallOK, Statuses, history
<1>10. ASSUME SearchRead(c, b) PROVE TypeOK'
    <2>1. booking[b].cancelled \in SUBSET Drivers
        BY DEF BookingType
    <2>2. CallOK'
        BY <1>10, <2>1, StoreCall, StepBooking DEF SearchRead, CallOK, BookingPCs
    <2> QED BY <1>10, <2>2 DEF SearchRead, CallOK, docs, history
<1>11. ASSUME ExpireRead(c, b) PROVE TypeOK'
    <2>1. CallOK'
        BY <1>11, StoreCall, StepBooking DEF ExpireRead, Begin, CallOK, BookingPCs
    <2> QED BY <1>11, <2>1 DEF ExpireRead, CallOK, docs, history
<1>12. ASSUME HandOverRead(c, b) PROVE TypeOK'
    <2>1. booking[b].driver \in Drivers \cup {None}
        BY DEF BookingType
    <2>2. CallOK'
        BY <1>12, <2>1, StoreCall, StepBooking DEF HandOverRead, CallOK, BookingPCs
    <2> QED BY <1>12, <2>2 DEF HandOverRead, CallOK, docs, history
<1> QED BY <1>1, <1>2, <1>3, <1>4, <1>5, <1>6, <1>7, <1>8, <1>9, <1>10, <1>11, <1>12
        DEF Start

\* A handler in flight that takes its next step leaves every document well typed.
LEMMA ContinueType ==
    ASSUME TypeOK, NEW c \in Calls, Continue(c)
    PROVE  TypeOK'
<1> USE DEF TypeOK
<1>0. CallOK
    BY DEF CallOK
<1>1. ASSUME AcceptDriver(c) PROVE TypeOK'
    <2>1. call[c].b \in Bookings /\ call[c].d \in Drivers
        BY <1>1, <1>0, CallFields DEF AcceptDriver, At, DriverPCs
    <2>2. CallOK'
        BY <1>1, <2>1, <1>0, MoveCall DEF AcceptDriver, At, DriverPCs
    <2> QED BY <1>1, <2>1, <2>2 DEF AcceptDriver, CallOK, DriverType, history
<1>2. ASSUME AcceptClear(c) PROVE TypeOK'
    <2>1. call[c].b \in Bookings /\ call[c].d \in Drivers
        BY <1>2, <1>0, CallFields DEF AcceptClear, At, DriverPCs
    <2>2. CallOK'
        BY <1>2, <2>1, <1>0, MoveCall DEF AcceptClear, At, DriverPCs
    <2> QED BY <1>2, <2>1, <2>2, DriverUpdates DEF AcceptClear, CallOK, history
<1>3. ASSUME DeclineRead(c) PROVE TypeOK'
    <2>1. call[c].b \in Bookings /\ call[c].d \in Drivers
        BY <1>3, <1>0, CallFields DEF DeclineRead, At, DriverPCs
    <2>2. booking[call[c].b].driver \in Drivers \cup {None}
        BY <2>1 DEF BookingType
    <2>3. CallOK'
        <3>0. "decline.write" \in DriverPCs /\ "none" \in Statuses
            BY DEF DriverPCs, Statuses
        <3>1. [Step("decline.write", call[c].b, call[c].d)
                 EXCEPT !.drv = booking[call[c].b].driver] \in CallType
            BY <2>1, <2>2, <3>0, StepDriver
        <3>2. CASE End(c)
            BY <1>0, <3>2, MoveCall
        <3>3. CASE Remember(c, "decline.write", booking[call[c].b].driver)
            BY <1>0, <3>1, <3>3, StoreCall DEF Remember
        <3> QED BY <1>3, <3>2, <3>3 DEF DeclineRead
    <2> QED BY <1>3, <2>3 DEF DeclineRead, CallOK, docs, history
<1>4. ASSUME DeclineWrite(c) PROVE TypeOK'
    <2>1. call[c].b \in Bookings /\ call[c].drv \in Drivers \cup {None}
        BY <1>4, <1>0, CallFields DEF DeclineWrite, At, DriverPCs
    <2>2. CallOK'
        BY <1>4, <1>0, MoveCall DEF DeclineWrite
    <2>3. DeclinedDriver(call[c].drv, call[c].d) \in Drivers \cup {None}
        BY <2>1 DEF DeclinedDriver
    <2> QED BY <1>4, <2>1, <2>2, <2>3, StatusWrites DEF DeclineWrite, CallOK, Statuses, history
<1>5. ASSUME DriverCancelFree(c) PROVE TypeOK'
    <2>1. call[c].b \in Bookings /\ call[c].d \in Drivers
        BY <1>5, <1>0, CallFields DEF DriverCancelFree, At, DriverPCs
    <2>2. CallOK'
        BY <1>5, <2>1, <1>0, MoveCall DEF DriverCancelFree, At, DriverPCs
    <2> QED BY <1>5, <2>1, <2>2, DriverUpdates DEF DriverCancelFree, CallOK, ResetDriver, history
<1>6. ASSUME DriverCancelBooking(c) PROVE TypeOK'
    <2>1. call[c].b \in Bookings /\ call[c].d \in Drivers
        BY <1>6, <1>0, CallFields DEF DriverCancelBooking, At, DriverPCs
    <2>2. CallOK'
        BY <1>6, <1>0, MoveCall DEF DriverCancelBooking
    <2>3. ReopenedByDriver(call[c].b, call[c].d) \in BookingType
        BY <2>1, BookingUpdates
    <2> QED BY <1>6, <2>1, <2>2, <2>3 DEF DriverCancelBooking, CallOK, history
<1>7. ASSUME CustomerCancelClose(c) PROVE TypeOK'
    <2>1. call[c].b \in Bookings /\ call[c].d = None /\ call[c].drv \in Drivers \cup {None}
        BY <1>7, <1>0, CallFields DEF CustomerCancelClose, At, BookingPCs
    <2>2. booking[call[c].b].driver \in Drivers \cup {None}
        BY <2>1 DEF BookingType
    <2>3. CallOK'
        BY <1>7, <2>1, <2>2, <1>0, StoreCall, StepBooking DEF CustomerCancelClose, At, BookingPCs, Remember
    <2> QED BY <1>7, <2>1, <2>3, StatusWrites DEF CustomerCancelClose, CallOK, Statuses, history
<1>8. ASSUME CustomerCancelOffer(c) PROVE TypeOK'
    <2>1. call[c].b \in Bookings /\ call[c].d = None /\ call[c].drv \in Drivers \cup {None}
        BY <1>8, <1>0, CallFields DEF CustomerCancelOffer, At, BookingPCs
    <2>2. CallOK'
        BY <1>8, <2>1, <1>0, MoveCall DEF CustomerCancelOffer, At, BookingPCs, EndWithRefund
    <2> QED BY <1>8, <2>1, <2>2, DriverUpdates DEF CustomerCancelOffer, CallOK, ResetDriver, history
<1>9. ASSUME CancelRequestOffers(c) PROVE TypeOK'
    <2>1. call[c].b \in Bookings /\ call[c].d = None /\ call[c].drv \in Drivers \cup {None}
        BY <1>9, <1>0, CallFields DEF CancelRequestOffers, At, BookingPCs
    <2>2. CallOK'
        BY <1>9, <2>1, <1>0, MoveCall DEF CancelRequestOffers, At, BookingPCs
    <2> QED BY <1>9, <2>1, <2>2, DriverUpdates DEF CancelRequestOffers, CallOK, ResetDrivers, history
<1>10. ASSUME CancelRequestCheck(c) PROVE TypeOK'
    <2>1. call[c].b \in Bookings /\ call[c].d = None /\ call[c].drv \in Drivers \cup {None}
        BY <1>10, <1>0, CallFields DEF CancelRequestCheck, At, BookingPCs
    <2>2. booking[call[c].b].driver \in Drivers \cup {None}
        BY <2>1 DEF BookingType
    <2>3. CallOK'
        <3>1. \A pc \in {"refund", "crequest.both"} :
                 [Step(pc, call[c].b, None) EXCEPT !.drv = booking[call[c].b].driver] \in CallType
            BY <2>1, <2>2, StepBooking DEF BookingPCs
        <3> QED BY <1>10, <2>1, <3>1, <1>0, StoreCall DEF CancelRequestCheck, Remember
    <2> QED BY <1>10, <2>1, <2>3 DEF CancelRequestCheck, CallOK, docs, history
<1>11. ASSUME CancelRequestRelease(c) PROVE TypeOK'
    <2>1. call[c].b \in Bookings /\ call[c].d = None /\ call[c].drv \in Drivers \cup {None}
        BY <1>11, <1>0, CallFields DEF CancelRequestRelease, At, BookingPCs
    <2>2. CallOK'
        BY <1>11, <2>1, <1>0, MoveCall DEF CancelRequestRelease, At, BookingPCs, EndWithRefund
    <2> QED BY <1>11, <2>1, <2>2, DriverUpdates DEF CancelRequestRelease, CallOK, ResetDriver, history
<1>12. ASSUME CancelRefund(c) PROVE TypeOK'
    <2>1. call[c].b \in Bookings /\ call[c].d = None /\ call[c].drv \in Drivers \cup {None}
        BY <1>12, <1>0, CallFields DEF CancelRefund, At, BookingPCs
    <2>2. CallOK'
        BY <1>12, <2>1, <1>0, MoveCall DEF CancelRefund, At, BookingPCs
    <2>3. \A x \in Drivers : [driver[x] EXCEPT !.ride = "free"] \in DriverType
        BY <2>1, DriverUpdates
    <2>4. driver' \in [Drivers -> DriverType]
        BY <1>12, <2>3 DEF CancelRefund, RefundFrees
    <2> QED BY <1>12, <2>2, <2>4 DEF CancelRefund, CallOK, history
<1>13. ASSUME DispatcherCancelOffers(c) PROVE TypeOK'
    <2>1. call[c].b \in Bookings /\ call[c].d = None /\ call[c].drv \in Drivers \cup {None}
        BY <1>13, <1>0, CallFields DEF DispatcherCancelOffers, At, BookingPCs
    <2>2. CallOK'
        BY <1>13, <2>1, <1>0, MoveCall DEF DispatcherCancelOffers, At, BookingPCs
    <2> QED BY <1>13, <2>1, <2>2, DriverUpdates DEF DispatcherCancelOffers, CallOK, ResetDrivers, history
<1>14. ASSUME DispatcherCancelDriver(c) PROVE TypeOK'
    <2>1. call[c].b \in Bookings /\ call[c].d = None /\ call[c].drv \in Drivers \cup {None}
        BY <1>14, <1>0, CallFields DEF DispatcherCancelDriver, At, BookingPCs
    <2>2. CallOK'
        BY <1>14, <2>1, <1>0, MoveCall DEF DispatcherCancelDriver, At, BookingPCs
    <2> QED BY <1>14, <2>1, <2>2, DriverUpdates DEF DispatcherCancelDriver, CallOK, ResetDriver, history
<1>15. ASSUME AssignUnassign(c) PROVE TypeOK'
    <2>1. call[c].b \in Bookings /\ call[c].d \in Drivers
        BY <1>15, <1>0, CallFields DEF AssignUnassign, At, DriverPCs
    <2>2. CallOK'
        BY <1>15, <2>1, <1>0, MoveCall DEF AssignUnassign, At, DriverPCs
    <2>3. \A x \in Drivers : [driver[x] EXCEPT !.current = None] \in DriverType
        BY <2>1, DriverUpdates
    <2>4. driver' \in [Drivers -> DriverType]
        BY <1>15, <2>3 DEF AssignUnassign
    <2> QED BY <1>15, <2>2, <2>4 DEF AssignUnassign, CallOK, history
<1>16. ASSUME AssignSave(c) PROVE TypeOK'
    <2>1. call[c].b \in Bookings /\ call[c].d \in Drivers
        BY <1>16, <1>0, CallFields DEF AssignSave, At, DriverPCs
    <2>2. CallOK'
        BY <1>16, <1>0, MoveCall DEF AssignSave
    <2>3. SavedByAssign(call[c].b, call[c].st, call[c].drv) \in BookingType
        BY <2>1, BookingUpdates
    <2> QED BY <1>16, <2>1, <2>2, <2>3 DEF AssignSave, CallOK
<1>17. ASSUME RideCompletedDriver(c) PROVE TypeOK'
    <2>1. call[c].b \in Bookings /\ call[c].d \in Drivers
        BY <1>17, <1>0, CallFields DEF RideCompletedDriver, At, DriverPCs
    <2>2. CallOK'
        BY <1>17, <2>1, <1>0, MoveCall DEF RideCompletedDriver, At, DriverPCs
    <2> QED BY <1>17, <2>1, <2>2, DriverUpdates DEF RideCompletedDriver, CallOK, history
<1>18. ASSUME NEW d \in Drivers, SearchPick(c, d) PROVE TypeOK'
    <2>1. call[c].b \in Bookings
        BY <1>18, <1>0, CallFields DEF SearchPick, At, BookingPCs
    <2>2. CallOK'
        BY <1>18, <2>1, <1>0, StoreCall, StepDriver DEF SearchPick, Begin, DriverPCs, Statuses
    <2> QED BY <1>18, <2>2 DEF SearchPick, CallOK, docs, history
<1>19. ASSUME SearchFlag(c) PROVE TypeOK'
    <2>1. call[c].b \in Bookings /\ call[c].d \in Drivers
        BY <1>19, <1>0, CallFields DEF SearchFlag, At, DriverPCs
    <2>2. CallOK'
        BY <1>19, <2>1, <1>0, MoveCall DEF SearchFlag, At, DriverPCs
    <2> QED BY <1>19, <2>1, <2>2, DriverUpdates DEF SearchFlag, CallOK, history
<1>20. ASSUME SearchList(c) PROVE TypeOK'
    <2>1. call[c].b \in Bookings /\ call[c].d \in Drivers
        BY <1>20, <1>0, CallFields DEF SearchList, At, DriverPCs
    <2>2. CallOK'
        BY <1>20, <2>1, <1>0, MoveCall DEF SearchList, At, DriverPCs
    <2>3. booking[call[c].b] \in BookingType
        BY <2>1
    <2>4. [booking[call[c].b] EXCEPT !.notified = @ \cup {call[c].d}] \in BookingType
        BY <2>1, <2>3 DEF BookingType
    <2>5. booking' \in [Bookings -> BookingType]
        BY <1>20, <2>4 DEF SearchList
    <2> QED BY <1>20, <2>2, <2>5 DEF SearchList, CallOK, history
<1>21. ASSUME SearchPolled(c) PROVE TypeOK'
    <2>1. call[c].b \in Bookings /\ call[c].d \in Drivers
        BY <1>21, <1>0, CallFields DEF SearchPolled, At, DriverPCs
    <2>2. CallOK'
        BY <1>21, <2>1, <1>0, MoveCall DEF SearchPolled, At, DriverPCs
    <2> QED BY <1>21, <2>1, <2>2, DriverUpdates DEF SearchPolled, CallOK, history
<1>22. ASSUME SearchSeesCancel(c) PROVE TypeOK'
    <2>1. call[c].b \in Bookings /\ call[c].d \in Drivers
        BY <1>22, <1>0, CallFields DEF SearchSeesCancel, At, DriverPCs
    <2>2. CallOK'
        BY <1>22, <2>1, <1>0, MoveCall DEF SearchSeesCancel, At, DriverPCs
    <2> QED BY <1>22, <2>1, <2>2 DEF SearchSeesCancel, CallOK, docs, history
<1>23. ASSUME SearchFail(c) PROVE TypeOK'
    <2>1. call[c].b \in Bookings /\ call[c].d = None /\ call[c].drv \in Drivers \cup {None}
        BY <1>23, <1>0, CallFields DEF SearchFail, At, BookingPCs
    <2>2. booking[call[c].b].driver \in Drivers \cup {None}
        BY <2>1 DEF BookingType
    <2>3. CallOK'
        BY <1>23, <2>1, <2>2, <1>0, StoreCall, StepBooking DEF SearchFail, At, BookingPCs, Remember
    <2> QED BY <1>23, <2>1, <2>3, StatusWrites DEF SearchFail, CallOK, Statuses, history
<1>24. ASSUME SearchUnflag(c) PROVE TypeOK'
    <2>1. call[c].b \in Bookings /\ call[c].d = None /\ call[c].drv \in Drivers \cup {None}
        BY <1>24, <1>0, CallFields DEF SearchUnflag, At, BookingPCs
    <2>2. CallOK'
        BY <1>24, <2>1, <1>0, MoveCall DEF SearchUnflag, At, BookingPCs, EndWithRefund
    <2> QED BY <1>24, <2>1, <2>2, DriverUpdates DEF SearchUnflag, CallOK, history
<1>25. ASSUME OfferFlag(c) PROVE TypeOK'
    <2>1. call[c].b \in Bookings /\ call[c].d \in Drivers
        BY <1>25, <1>0, CallFields DEF OfferFlag, At, DriverPCs
    <2>2. CallOK'
        BY <1>25, <2>1, <1>0, MoveCall DEF OfferFlag, At, DriverPCs
    <2> QED BY <1>25, <2>1, <2>2, DriverUpdates DEF OfferFlag, CallOK, history
<1>26. ASSUME ExpireFail(c) PROVE TypeOK'
    <2>1. call[c].b \in Bookings /\ call[c].d = None /\ call[c].drv \in Drivers \cup {None}
        BY <1>26, <1>0, CallFields DEF ExpireFail, At, BookingPCs
    <2>2. booking[call[c].b].driver \in Drivers \cup {None}
        BY <2>1 DEF BookingType
    <2>3. CallOK'
        BY <1>26, <2>1, <2>2, <1>0, StoreCall, StepBooking DEF ExpireFail, At, BookingPCs, Remember
    <2> QED BY <1>26, <2>1, <2>3, StatusWrites DEF ExpireFail, CallOK, Statuses, history
<1>27. ASSUME ExpireClear(c) PROVE TypeOK'
    <2>1. call[c].b \in Bookings /\ call[c].d = None /\ call[c].drv \in Drivers \cup {None}
        BY <1>27, <1>0, CallFields DEF ExpireClear, At, BookingPCs
    <2>2. CallOK'
        BY <1>27, <2>1, <1>0, MoveCall DEF ExpireClear, At, BookingPCs, EndWithRefund
    <2> QED BY <1>27, <2>1, <2>2, DriverUpdates DEF ExpireClear, CallOK, history
<1>28. ASSUME HandOverCheck(c) PROVE TypeOK'
    <2>1. call[c].b \in Bookings /\ call[c].d = None /\ call[c].drv \in Drivers \cup {None}
        BY <1>28, <1>0, CallFields DEF HandOverCheck, At, BookingPCs
    <2>2. CallOK'
        BY <1>28, <2>1, <1>0, MoveCall DEF HandOverCheck, At, BookingPCs
    <2> QED BY <1>28, <2>1, <2>2 DEF HandOverCheck, CallOK, docs, history
<1>29. ASSUME HandOverWrite(c) PROVE TypeOK'
    <2>1. call[c].b \in Bookings /\ call[c].d = None /\ call[c].drv \in Drivers \cup {None}
        BY <1>29, <1>0, CallFields DEF HandOverWrite, At, BookingPCs
    <2>2. CallOK'
        BY <1>29, <2>1, <1>0, MoveCall DEF HandOverWrite, At, BookingPCs
    <2> QED BY <1>29, <2>1, <2>2, DriverUpdates DEF HandOverWrite, CallOK, history
<1> QED BY <1>1, <1>2, <1>3, <1>4, <1>5, <1>6, <1>7, <1>8, <1>9, <1>10, <1>11, <1>12,
           <1>13, <1>14, <1>15, <1>16, <1>17, <1>18, <1>19, <1>20, <1>21, <1>22,
           <1>23, <1>24, <1>25, <1>26, <1>27, <1>28, <1>29
        DEF Continue

\* TypeOK is inductive.
LEMMA NextType ==
    ASSUME TypeOK, [Next]_vars
    PROVE  TypeOK'
<1>1. ASSUME NEW b \in Bookings, NEW d \in Drivers, RecivedPayment(b, d) PROVE TypeOK'
    BY <1>1, DriverUpdates DEF RecivedPayment, TypeOK, history
<1>2. ASSUME NEW d \in Drivers, FreeDrivers(d) PROVE TypeOK'
    <2>1. FreeDriver \in DriverType
        BY DEF FreeDriver, DriverType
    <2> QED BY <1>2, <2>1 DEF FreeDrivers, TypeOK, history
<1>3. ASSUME UNCHANGED vars PROVE TypeOK'
    BY <1>3 DEF vars, TypeOK
<1> QED BY <1>1, <1>2, <1>3, StartType, ContinueType DEF Next

\* Every document and every call in flight keeps its type, whatever the sizes of
\* the sets and whoever is active.
THEOREM TypeCorrect == Spec => []TypeOK
<1>1. Init => TypeOK
    BY DEF Init, TypeOK, NewBooking, BookingType, Statuses, FreeDriver, DriverType, CallType
<1>2. TypeOK /\ [Next]_vars => TypeOK'
    BY NextType
<1> QED BY <1>1, <1>2, PTL DEF Spec

-----------------------------------------------------------------------------
(* Only winners.  OnlyWinners speaks of the documents; a stale value can    *)
(* come back into a document from a call in flight, so the invariant has to *)
(* say the same of what the calls remember.                                 *)

WinnerCall(r) ==
    r.b \in Bookings =>
        /\ r.drv \in won[r.b] \cup {None}
        /\ r.pc = "accept.driver" => r.d \in won[r.b]
        /\ r.pc = "handover.write" => r.drv # None

CallWinners == \A c \in Calls : WinnerCall(call[c])

Winners == TypeOK /\ OnlyWinners /\ CallWinners

\* A step that puts no driver on a booking, or no booking on a driver.
KeepsDriver == \A b \in Bookings : booking'[b].driver \in {booking[b].driver, None}
KeepsCurrent == \A d \in Drivers : driver'[d].current \in {driver[d].current, None}

\* Such a step names nobody new in the documents.
LEMMA KeepsOnlyWinners ==
    ASSUME TypeOK, OnlyWinners, UNCHANGED won, KeepsDriver, KeepsCurrent
    PROVE  OnlyWinners'
    BY DEF OnlyWinners, KeepsDriver, KeepsCurrent, TypeOK

\* A call that is replaced by one that remembers a winner, or nobody.
LEMMA StoreWinner ==
    ASSUME TypeOK, CallWinners, UNCHANGED won, NEW c \in Calls, NEW r,
           WinnerCall(r), call' = [call EXCEPT ![c] = r]
    PROVE  CallWinners'
    BY DEF TypeOK, CallWinners, WinnerCall

\* A call that ends, or moves to a step that does not rely on a winner.
LEMMA MoveWinner ==
    ASSUME TypeOK, CallWinners, UNCHANGED won, NEW c \in Calls, NEW pc,
           pc \notin {"accept.driver", "handover.write"}, End(c) \/ Goto(c, pc)
    PROVE  CallWinners'
<1>1. CASE End(c)
    <2>1. WinnerCall(IdleCall)
        BY NoneAssumption DEF WinnerCall, IdleCall
    <2> QED BY <1>1, <2>1, StoreWinner DEF End
<1>2. CASE Goto(c, pc)
    <2>1. WinnerCall([call[c] EXCEPT !.pc = pc])
        BY CallFields DEF WinnerCall, CallWinners, TypeOK, CallType, IdleCall
    <2> QED BY <1>2, <2>1, StoreWinner DEF Goto
<1> QED BY <1>1, <1>2

\* A call that begins, or goes on, remembering the driver of its booking.
LEMMA RememberWinner ==
    ASSUME OnlyWinners, NEW b \in Bookings, NEW d, NEW pc, NEW st, NEW skip,
           pc \notin {"accept.driver", "handover.write"}
    PROVE  /\ WinnerCall(Step(pc, b, d))
           /\ WinnerCall([Step(pc, b, d) EXCEPT !.drv = booking[b].driver])
           /\ WinnerCall([Step(pc, b, d) EXCEPT !.st = st, !.drv = booking[b].driver])
           /\ WinnerCall([Step(pc, b, d) EXCEPT !.skip = skip])
    BY DEF OnlyWinners, WinnerCall, Step

\* An accept makes the driver a winner before it remembers him.
LEMMA AcceptWinners ==
    ASSUME Winners, NEW c \in Calls, NEW b \in Bookings, NEW d \in Drivers,
           AcceptBooking(c, b, d)
    PROVE  OnlyWinners' /\ CallWinners'
<1>1. /\ won' \in [Bookings -> SUBSET Drivers]
      /\ d \in won'[b]
      /\ \A x \in Bookings : won[x] \subseteq won'[x]
    BY DEF Winners, TypeOK, AcceptBooking
<1>2. OnlyWinners'
    <2>1. \A x \in Bookings : booking'[x].driver \in {booking[x].driver} \cup (IF x = b THEN {d} ELSE {})
        BY DEF Winners, TypeOK, BookingType, AcceptBooking
    <2>2. \A x \in Bookings : booking'[x].driver \in won'[x] \cup {None}
        BY <1>1, <2>1 DEF Winners, OnlyWinners
    <2>3. \A x \in Drivers : driver[x].current # None => driver[x].current \in Bookings
        BY DEF Winners, TypeOK, DriverType
    <2>4. \A x \in Drivers : driver'[x].current # None => x \in won'[driver'[x].current]
        BY <1>1, <2>3 DEF Winners, OnlyWinners, AcceptBooking
    <2> QED BY <2>2, <2>4 DEF OnlyWinners
<1>3. CallWinners'
    <2>1. \A x \in Calls \ {c} : call'[x] = call[x]
        BY DEF Winners, TypeOK, AcceptBooking, Begin
    <2>2. call'[c] = Step("accept.driver", b, d)
        BY DEF Winners, TypeOK, AcceptBooking, Begin
    <2>3. WinnerCall(call[c])' 
        BY <1>1, <2>2 DEF WinnerCall, Step
    <2>4. ASSUME NEW x \in Calls \ {c} PROVE WinnerCall(call[x])'
        BY <1>1, <2>1 DEF Winners, CallWinners, WinnerCall
    <2> QED BY <2>3, <2>4 DEF CallWinners
<1> QED BY <1>2, <1>3

\* Whatever else starts puts nobody on a ride and remembers the booking's driver.
LEMMA StartWinners ==
    ASSUME Winners, NEW c \in Calls, NEW b \in Bookings, Start(c, b)
    PROVE  OnlyWinners' /\ CallWinners'
<1> USE DEF Winners
<1>1. ASSUME NEW d \in Drivers, DeclineBooking(c, b, d) PROVE OnlyWinners' /\ CallWinners'
    <2>1. KeepsDriver /\ KeepsCurrent
        BY <1>1 DEF DeclineBooking, KeepsDriver, KeepsCurrent, ClearOffer, TypeOK, DriverType
    <2>2. CallWinners'
        BY <1>1, RememberWinner, StoreWinner DEF DeclineBooking, Begin, history
    <2> QED BY <1>1, <2>1, <2>2, KeepsOnlyWinners DEF DeclineBooking, history
<1>2. ASSUME NEW d \in Drivers, DriverCancel(c, b, d) PROVE OnlyWinners' /\ CallWinners'
    <2>1. KeepsDriver /\ KeepsCurrent
        BY <1>2 DEF DriverCancel, KeepsDriver, KeepsCurrent, docs
    <2>2. CallWinners'
        BY <1>2, RememberWinner, StoreWinner DEF DriverCancel, history
    <2> QED BY <1>2, <2>1, <2>2, KeepsOnlyWinners DEF DriverCancel, history
<1>3. ASSUME NEW d \in Drivers, RideCompleted(c, b, d) PROVE OnlyWinners' /\ CallWinners'
    <2>1. KeepsDriver /\ KeepsCurrent
        BY <1>3 DEF RideCompleted, KeepsDriver, KeepsCurrent, TypeOK, BookingType
    <2>2. CallWinners'
        BY <1>3, RememberWinner, StoreWinner DEF RideCompleted, Begin, history
    <2> QED BY <1>3, <2>1, <2>2, KeepsOnlyWinners DEF RideCompleted, history
<1>4. ASSUME NEW d \in Drivers, Broadcast(c, b, d) PROVE OnlyWinners' /\ CallWinners'
    <2>1. KeepsDriver /\ KeepsCurrent
        BY <1>4 DEF Broadcast, KeepsDriver, KeepsCurrent, docs
    <2>2. CallWinners'
        BY <1>4, RememberWinner, StoreWinner DEF Broadcast, Begin, history
    <2> QED BY <1>4, <2>1, <2>2, KeepsOnlyWinners DEF Broadcast, history
<1>5. ASSUME NEW d \in Drivers, NEW o \in Calls, AssignADriver(c, o, b, d)
      PROVE  OnlyWinners' /\ CallWinners'
    <2>1. KeepsDriver /\ KeepsCurrent
        BY <1>5 DEF AssignADriver, KeepsDriver, KeepsCurrent, docs
    <2> DEFINE saving(pc) == [Step(pc, b, d) EXCEPT !.st = booking[b].status,
                                                    !.drv = booking[b].driver]
    <2>2. \A x \in Calls : call'[x] \in {call[x], saving("assign.save"),
                                         saving("assign.unassign"), Step("offer.flag", b, d)}
        BY <1>5 DEF AssignADriver, TypeOK
    <2>3. /\ WinnerCall(saving("assign.save")) /\ WinnerCall(saving("assign.unassign"))
          /\ WinnerCall(Step("offer.flag", b, d))
        BY RememberWinner
    <2>4. UNCHANGED won
        BY <1>5 DEF AssignADriver, history
    <2> HIDE DEF saving
    <2>5. CallWinners'
        BY <2>2, <2>3, <2>4 DEF CallWinners, WinnerCall
    <2> QED BY <2>1, <2>4, <2>5, KeepsOnlyWinners
<1>6. ASSUME CustomerCancel(c, b) PROVE OnlyWinners' /\ CallWinners'
    <2>1. KeepsDriver /\ KeepsCurrent
        BY <1>6 DEF CustomerCancel, KeepsDriver, KeepsCurrent, docs
    <2>2. CallWinners'
        BY <1>6, RememberWinner, StoreWinner DEF CustomerCancel, Begin, history
    <2> QED BY <1>6, <2>1, <2>2, KeepsOnlyWinners DEF CustomerCancel, history
<1>7. ASSUME CancelRequest(c, b) PROVE OnlyWinners' /\ CallWinners'
    <2>1. KeepsDriver /\ KeepsCurrent
        BY <1>7 DEF CancelRequest, KeepsDriver, KeepsCurrent, TypeOK, BookingType
    <2>2. CallWinners'
        BY <1>7, RememberWinner, StoreWinner DEF CancelRequest, Begin, history
    <2> QED BY <1>7, <2>1, <2>2, KeepsOnlyWinners DEF CancelRequest, history
<1>8. ASSUME DispatcherCancel(c, b) PROVE OnlyWinners' /\ CallWinners'
    <2>1. KeepsDriver /\ KeepsCurrent
        BY <1>8 DEF DispatcherCancel, KeepsDriver, KeepsCurrent, TypeOK, BookingType
    <2>2. CallWinners'
        BY <1>8, RememberWinner, StoreWinner DEF DispatcherCancel, history
    <2> QED BY <1>8, <2>1, <2>2, KeepsOnlyWinners DEF DispatcherCancel, history
<1>9. ASSUME SearchRead(c, b) PROVE OnlyWinners' /\ CallWinners'
    <2>1. KeepsDriver /\ KeepsCurrent
        BY <1>9 DEF SearchRead, KeepsDriver, KeepsCurrent, docs
    <2>2. CallWinners'
        BY <1>9, RememberWinner, StoreWinner DEF SearchRead, history
    <2> QED BY <1>9, <2>1, <2>2, KeepsOnlyWinners DEF SearchRead, history
<1>10. ASSUME ExpireRead(c, b) PROVE OnlyWinners' /\ CallWinners'
    <2>1. KeepsDriver /\ KeepsCurrent
        BY <1>10 DEF ExpireRead, KeepsDriver, KeepsCurrent, docs
    <2>2. CallWinners'
        BY <1>10, RememberWinner, StoreWinner DEF ExpireRead, Begin, history
    <2> QED BY <1>10, <2>1, <2>2, KeepsOnlyWinners DEF ExpireRead, history
<1>11. ASSUME HandOverRead(c, b) PROVE OnlyWinners' /\ CallWinners'
    <2>1. KeepsDriver /\ KeepsCurrent
        BY <1>11 DEF HandOverRead, KeepsDriver, KeepsCurrent, docs
    <2>2. CallWinners'
        BY <1>11, RememberWinner, StoreWinner DEF HandOverRead, history
    <2> QED BY <1>11, <2>1, <2>2, KeepsOnlyWinners DEF HandOverRead, history
<1> QED BY AcceptWinners, <1>1, <1>2, <1>3, <1>4, <1>5, <1>6, <1>7, <1>8, <1>9, <1>10, <1>11
        DEF Start

\* What a call in flight does to the calls: only the hand-over's check leads to a
\* step that relies on a driver, and it has just seen that there is one.
LEMMA ContinueCallWinners ==
    ASSUME Winners, NEW c \in Calls, Continue(c)
    PROVE  CallWinners'
<1> USE DEF Winners
<1>1. UNCHANGED won
    BY DEF Continue, history, AcceptDriver, AcceptClear, DeclineRead, DeclineWrite,
           DriverCancelFree, DriverCancelBooking, CustomerCancelClose, CustomerCancelOffer,
           CancelRequestOffers, CancelRequestCheck, CancelRequestRelease, CancelRefund,
           DispatcherCancelOffers, DispatcherCancelDriver, AssignUnassign, AssignSave,
           RideCompletedDriver, SearchPick, SearchFlag, SearchList, SearchPolled,
           SearchSeesCancel, SearchFail, SearchUnflag, OfferFlag, ExpireFail, ExpireClear,
           HandOverCheck, HandOverWrite
<1>2. CASE \/ AcceptDriver(c) \/ AcceptClear(c) \/ DeclineWrite(c) \/ DriverCancelFree(c)
           \/ DriverCancelBooking(c) \/ CustomerCancelOffer(c) \/ CancelRequestOffers(c)
           \/ CancelRequestRelease(c) \/ CancelRefund(c) \/ DispatcherCancelOffers(c)
           \/ DispatcherCancelDriver(c) \/ AssignUnassign(c) \/ AssignSave(c)
           \/ RideCompletedDriver(c) \/ SearchFlag(c) \/ SearchList(c) \/ SearchPolled(c)
           \/ SearchSeesCancel(c) \/ SearchUnflag(c) \/ OfferFlag(c) \/ ExpireClear(c)
           \/ HandOverWrite(c)
    <2> DEFINE Moves == \E pc : /\ pc \notin {"accept.driver", "handover.write"}
                                /\ End(c) \/ Goto(c, pc)
    <2>0. ASSUME NEW pc \in {"accept.clear", "dcancel.booking", "crequest.check", "crequest.release",
                             "dispatcher.driver", "assign.save", "search.listed",
                             "search.poll", "refund"},
                 Goto(c, pc)
          PROVE  Moves
        BY <2>0
    <2>1. CASE \/ AcceptClear(c) \/ DeclineWrite(c) \/ DriverCancelBooking(c)
               \/ DispatcherCancelDriver(c) \/ AssignSave(c) \/ RideCompletedDriver(c)
               \/ SearchPolled(c) \/ SearchSeesCancel(c) \/ OfferFlag(c) \/ HandOverWrite(c)
        <3>1. End(c)
            BY <2>1 DEF AcceptClear, DeclineWrite, DriverCancelBooking, DispatcherCancelDriver,
                 AssignSave, RideCompletedDriver, SearchPolled, SearchSeesCancel, OfferFlag,
                 HandOverWrite
        <3> QED BY <1>1, <3>1, "idle" \notin {"accept.driver", "handover.write"}, MoveWinner
    <2>2. CASE \/ AcceptDriver(c) \/ DriverCancelFree(c) \/ CustomerCancelOffer(c)
               \/ CancelRequestOffers(c) \/ DispatcherCancelOffers(c) \/ AssignUnassign(c)
               \/ SearchFlag(c) \/ SearchUnflag(c) \/ ExpireClear(c)
        <3>1. Moves
            BY <2>0, <2>2 DEF EndWithRefund, AcceptDriver, DriverCancelFree, CustomerCancelOffer,
                 CancelRequestOffers, DispatcherCancelOffers, AssignUnassign, SearchFlag,
                 SearchUnflag, ExpireClear
        <3> QED BY <1>1, <3>1, MoveWinner
    <2>3. CASE CancelRequestRelease(c) \/ CancelRefund(c) \/ SearchList(c)
        <3>1. Moves
            BY <2>0, <2>3 DEF EndWithRefund, CancelRequestRelease, CancelRefund, SearchList
        <3> QED BY <1>1, <3>1, MoveWinner
    <2> QED BY <1>2, <2>1, <2>2, <2>3
<1>3. CASE DeclineRead(c)
    <2>1. call[c].b \in Bookings
        BY <1>3, CallFields DEF DeclineRead, At, DriverPCs, TypeOK, CallOK
    <2>2. ASSUME End(c) PROVE CallWinners'
        BY <1>1, <2>2, "idle" \notin {"accept.driver", "handover.write"}, MoveWinner
    <2>3. ASSUME Remember(c, "decline.write", booking[call[c].b].driver) PROVE CallWinners'
        BY <1>1, <2>1, <2>3, RememberWinner, StoreWinner DEF Remember
    <2> QED BY <1>3, <2>2, <2>3 DEF DeclineRead
<1>4. CASE \/ CustomerCancelClose(c) \/ CancelRequestCheck(c) \/ SearchFail(c) \/ ExpireFail(c)
    <2>1. call[c].b \in Bookings
        BY <1>4, CallFields DEF At, BookingPCs, TypeOK, CallOK,
             CustomerCancelClose, CancelRequestCheck, SearchFail, ExpireFail
    <2>2. PICK pc : /\ pc \notin {"accept.driver", "handover.write"}
                    /\ Remember(c, pc, booking[call[c].b].driver)
        BY <1>4 DEF CustomerCancelClose, CancelRequestCheck, SearchFail, ExpireFail
    <2> DEFINE r == [Step(pc, call[c].b, call[c].d) EXCEPT !.drv = booking[call[c].b].driver]
    <2>3. WinnerCall(r)
        BY <2>1, <2>2, RememberWinner
    <2> QED BY <1>1, <2>2, <2>3, StoreWinner DEF Remember
<1>5. ASSUME NEW d \in Drivers, SearchPick(c, d) PROVE CallWinners'
    <2>1. call[c].b \in Bookings
        BY <1>5, CallFields DEF SearchPick, At, BookingPCs, TypeOK, CallOK
    <2> QED BY <1>1, <1>5, <2>1, RememberWinner, StoreWinner DEF SearchPick, Begin
<1>6. CASE HandOverCheck(c)
    <2>1. ASSUME End(c) PROVE CallWinners'
        BY <1>1, <2>1, "idle" \notin {"accept.driver", "handover.write"}, MoveWinner
    <2>2. ASSUME call[c].drv \in Drivers, Goto(c, "handover.write") PROVE CallWinners'
        <3>1. call[c].drv # None
            BY <2>2, NoneAssumption
        <3>2. WinnerCall([call[c] EXCEPT !.pc = "handover.write"])
            BY <3>1, CallFields DEF WinnerCall, CallWinners, TypeOK, CallType, IdleCall
        <3> QED BY <1>1, <2>2, <3>2, StoreWinner DEF Goto
    <2> QED BY <1>6, <2>1, <2>2 DEF HandOverCheck
<1> QED BY <1>2, <1>3, <1>4, <1>5, <1>6 DEF Continue

\* Updates of a driver document that leave current_booking alone.
LEMMA CurrentKept ==
    ASSUME NEW r \in DriverType, NEW b
    PROVE  /\ ClearOffer(r).current = r.current
           /\ OfferOf(r, b).current = r.current
           /\ [r EXCEPT !.offered = FALSE].current = r.current
           /\ [ClearOffer(r) EXCEPT !.ride = "free"].current = r.current
           /\ [r EXCEPT !.current = None].current = None
    BY DEF DriverType, ClearOffer, OfferOf

\* No step of a call in flight puts a new driver on a booking, except that an
\* accept's second step and a hand-over name the booking they are about.
LEMMA ContinueOnlyWinners ==
    ASSUME Winners, NEW c \in Calls, Continue(c)
    PROVE  OnlyWinners'
<1> USE DEF Winners
<1>1. CASE AcceptDriver(c)
    <2>1. call[c].b \in Bookings /\ call[c].d \in won[call[c].b]
        BY <1>1, CallFields DEF AcceptDriver, At, DriverPCs, TypeOK, CallOK, CallWinners, WinnerCall
    <2> QED BY <1>1, <2>1 DEF AcceptDriver, OnlyWinners, history, TypeOK
<1>2. CASE HandOverWrite(c)
    <2>1. call[c].b \in Bookings /\ call[c].drv \in won[call[c].b]
        BY <1>2, CallFields DEF HandOverWrite, At, BookingPCs, TypeOK, CallOK, CallWinners, WinnerCall
    <2>2. \A d \in Drivers : driver'[d].current =
                IF d = call[c].drv THEN call[c].b ELSE driver[d].current
        BY <1>2 DEF HandOverWrite, TypeOK, DriverType
    <2> QED BY <1>2, <2>1, <2>2 DEF HandOverWrite, OnlyWinners, history
<1>3. CASE DeclineWrite(c)
    <2>1. call[c].b \in Bookings /\ call[c].drv \in won[call[c].b] \cup {None}
        BY <1>3, CallFields DEF DeclineWrite, At, DriverPCs, TypeOK, CallOK, CallWinners, WinnerCall
    <2>2. \A b \in Bookings : booking'[b].driver \in
                {booking[b].driver, None} \cup (IF b = call[c].b THEN {call[c].drv} ELSE {})
        BY <1>3, <2>1 DEF DeclineWrite, DeclinedDriver, TypeOK, BookingType
    <2>3. UNCHANGED <<driver, won>>
        BY <1>3 DEF DeclineWrite, history
    <2>4. \A b \in Bookings : booking'[b].driver \in won[b] \cup {None}
        BY <2>1, <2>2 DEF OnlyWinners
    <2> QED BY <2>3, <2>4 DEF OnlyWinners
<1>4. CASE \/ DriverCancelBooking(c) \/ CustomerCancelClose(c) \/ AssignSave(c)
           \/ SearchList(c) \/ SearchFail(c) \/ ExpireFail(c)
    <2> DEFINE b == call[c].b
    <2>0. /\ booking[b] \in BookingType \/ b \notin Bookings
          /\ \A x \in Bookings : x # b => booking'[x] = booking[x]
        BY <1>4 DEF TypeOK, DriverCancelBooking, CustomerCancelClose, AssignSave, SearchList,
             SearchFail, ExpireFail
    <2>1. KeepsDriver
        <3>1. CASE DriverCancelBooking(c)
            BY <1>4, <2>0, <3>1 DEF KeepsDriver, TypeOK, BookingType, DriverCancelBooking,
                                    ReopenedByDriver
        <3>2. CASE AssignSave(c)
            BY <1>4, <2>0, <3>2 DEF KeepsDriver, TypeOK, BookingType, AssignSave, SavedByAssign
        <3>3. CASE SearchList(c)
            BY <1>4, <2>0, <3>3 DEF KeepsDriver, TypeOK, BookingType, SearchList
        <3>4. CASE CustomerCancelClose(c) \/ SearchFail(c) \/ ExpireFail(c)
            BY <1>4, <2>0, <3>4 DEF KeepsDriver, TypeOK, BookingType, CustomerCancelClose,
                                    SearchFail, ExpireFail
        <3> QED BY <1>4, <3>1, <3>2, <3>3, <3>4
    <2>2. UNCHANGED <<driver, won>>
        BY <1>4 DEF DriverCancelBooking, CustomerCancelClose, AssignSave, SearchList,
             SearchFail, ExpireFail, history
    <2> QED BY <2>1, <2>2, KeepsOnlyWinners DEF KeepsCurrent
<1>5. CASE \/ DeclineRead(c) \/ CancelRequestCheck(c) \/ SearchSeesCancel(c) \/ HandOverCheck(c)
           \/ \E d \in Drivers : SearchPick(c, d)
    <2>1. UNCHANGED <<booking, driver, won>>
        BY <1>5 DEF DeclineRead, CancelRequestCheck, SearchSeesCancel, HandOverCheck,
             SearchPick, docs, history
    <2> QED BY <2>1, KeepsOnlyWinners DEF KeepsCurrent, KeepsDriver
<1>6. CASE \/ AcceptClear(c) \/ DriverCancelFree(c) \/ CustomerCancelOffer(c)
           \/ CancelRequestOffers(c) \/ CancelRequestRelease(c) \/ CancelRefund(c)
           \/ DispatcherCancelOffers(c) \/ DispatcherCancelDriver(c) \/ AssignUnassign(c)
           \/ RideCompletedDriver(c) \/ SearchFlag(c) \/ SearchPolled(c) \/ SearchUnflag(c)
           \/ OfferFlag(c) \/ ExpireClear(c)
    <2>1. KeepsCurrent
        <3>1. CASE \/ DriverCancelFree(c) \/ CustomerCancelOffer(c) \/ CancelRequestOffers(c)
                   \/ CancelRequestRelease(c) \/ DispatcherCancelOffers(c)
                   \/ DispatcherCancelDriver(c)
            BY <3>1 DEF KeepsCurrent, FreeDriver, ResetDriver, ResetDrivers, DriverCancelFree,
                 CustomerCancelOffer, CancelRequestOffers, CancelRequestRelease,
                 DispatcherCancelOffers, DispatcherCancelDriver
        <3>2. CASE CancelRefund(c)
            BY <3>2 DEF KeepsCurrent, RefundFrees, CancelRefund, TypeOK, DriverType
        <3>0. \A x \in Drivers :
                /\ ClearOffer(driver[x]).current = driver[x].current
                /\ OfferOf(driver[x], call[c].b).current = driver[x].current
            BY CurrentKept DEF TypeOK
        <3>3. CASE AcceptClear(c) \/ SearchUnflag(c) \/ ExpireClear(c)
            <4>1. CASE AcceptClear(c)
                BY <4>1, <3>0 DEF KeepsCurrent, AcceptClear
            <4>2. CASE ExpireClear(c)
                BY <4>2, <3>0 DEF KeepsCurrent, ExpireClear
            <4>3. CASE SearchUnflag(c)
                BY <4>3 DEF KeepsCurrent, SearchUnflag, TypeOK, DriverType
            <4> QED BY <3>3, <4>1, <4>2, <4>3
        <3>4. CASE \/ RideCompletedDriver(c) \/ SearchFlag(c) \/ SearchPolled(c) \/ OfferFlag(c)
                   \/ AssignUnassign(c)
            <4>1. CASE SearchPolled(c)
                BY <4>1, <3>0 DEF KeepsCurrent, SearchPolled, TypeOK
            <4>2. CASE SearchFlag(c) \/ OfferFlag(c)
                BY <4>2, <3>0 DEF KeepsCurrent, SearchFlag, OfferFlag, TypeOK
            <4>3. CASE RideCompletedDriver(c)
                BY <4>3 DEF KeepsCurrent, RideCompletedDriver, TypeOK, DriverType, ClearOffer
            <4>4. CASE AssignUnassign(c)
                BY <4>4 DEF KeepsCurrent, AssignUnassign, TypeOK, DriverType
            <4> QED BY <3>4, <4>1, <4>2, <4>3, <4>4
        <3> QED BY <1>6, <3>1, <3>2, <3>3, <3>4
    <2>2. UNCHANGED <<booking, won>>
        BY <1>6 DEF history, AcceptClear, DriverCancelFree, CustomerCancelOffer,
             CancelRequestOffers, CancelRequestRelease, CancelRefund, DispatcherCancelOffers,
             DispatcherCancelDriver, AssignUnassign, RideCompletedDriver, SearchFlag,
             SearchPolled, SearchUnflag, OfferFlag, ExpireClear
    <2> QED BY <2>1, <2>2, KeepsOnlyWinners DEF KeepsDriver
<1> QED BY <1>1, <1>2, <1>3, <1>4, <1>5, <1>6 DEF Continue

\* Winners is inductive.
LEMMA NextWinners ==
    ASSUME Winners, [Next]_vars
    PROVE  Winners'
<1>1. TypeOK'
    BY NextType DEF Winners
<1>2. ASSUME NEW b \in Bookings, NEW d \in Drivers, RecivedPayment(b, d)
      PROVE  OnlyWinners' /\ CallWinners'
    <2>1. KeepsDriver /\ KeepsCurrent
        BY <1>2 DEF Winners, RecivedPayment, KeepsDriver, KeepsCurrent, TypeOK, DriverType
    <2>2. UNCHANGED <<won, call>>
        BY <1>2 DEF RecivedPayment, history
    <2> QED BY <2>1, <2>2, KeepsOnlyWinners DEF Winners, CallWinners, WinnerCall
<1>3. ASSUME NEW d \in Drivers, FreeDrivers(d) PROVE OnlyWinners' /\ CallWinners'
    <2>1. KeepsDriver /\ KeepsCurrent
        BY <1>3 DEF Winners, FreeDrivers, FreeDriver, KeepsDriver, KeepsCurrent, TypeOK
    <2>2. UNCHANGED <<won, call>>
        BY <1>3 DEF FreeDrivers, history
    <2> QED BY <2>1, <2>2, KeepsOnlyWinners DEF Winners, CallWinners, WinnerCall
<1>4. ASSUME UNCHANGED vars PROVE OnlyWinners' /\ CallWinners'
    BY <1>4 DEF Winners, vars, OnlyWinners, CallWinners, WinnerCall
<1>5. OnlyWinners' /\ CallWinners'
    BY <1>2, <1>3, <1>4, StartWinners, ContinueOnlyWinners, ContinueCallWinners DEF Next
<1> QED BY <1>1, <1>5 DEF Winners

\* Whatever handlers interleave and however stale what they write back, booking
\* and driver documents never name a driver for a ride he did not accept.
THEOREM WinnersOnly == Spec => []OnlyWinners
<1>1. Init => Winners
    <2>1. Init => TypeOK
        BY DEF Init, TypeOK, NewBooking, BookingType, Statuses, FreeDriver, DriverType, CallType
    <2>2. Init => OnlyWinners /\ CallWinners
        BY NoneAssumption DEF Init, OnlyWinners, CallWinners, WinnerCall, NewBooking,
                              FreeDriver, IdleCall
    <2> QED BY <2>1, <2>2 DEF Winners
<1>2. Winners /\ [Next]_vars => Winners'
    BY NextWinners
<1>3. Winners => OnlyWinners
    BY DEF Winners
<1> QED BY <1>1, <1>2, <1>3, PTL DEF Spec

-----------------------------------------------------------------------------
(* Offers.  FlagHasBooking is inductive together with TypeOK: each way of   *)
(* changing a driver document clears the flag, sets flag and booking        *)
(* together, or leaves both alone.                                          *)

\* What a step may do to the offer a driver holds.
OfferMove(new, old) ==
    \/ ~new.offered
    \/ new.offer \in Bookings
    \/ new.offered = old.offered /\ new.offer = old.offer

OffersMove == \A x \in Drivers : OfferMove(driver'[x], driver[x])

\* The move is enough.
LEMMA MovedFlags ==
    ASSUME TypeOK, FlagHasBooking, OffersMove
    PROVE  FlagHasBooking'
    BY NoneAssumption DEF TypeOK, FlagHasBooking, OffersMove, OfferMove

\* A handler that starts moves offers only by a decline.
LEMMA StartOffers ==
    ASSUME TypeOK, NEW c \in Calls, NEW b \in Bookings, Start(c, b)
    PROVE  OffersMove
<1>1. ASSUME NEW d \in Drivers, DeclineBooking(c, b, d) PROVE OffersMove
    <2>1. \A x \in Drivers : driver'[x] = driver[x] \/ driver'[x] = ClearOffer(driver[x])
        BY <1>1 DEF DeclineBooking, TypeOK
    <2>2. \A x \in Drivers : ~ClearOffer(driver[x]).offered
        BY DEF ClearOffer, TypeOK, DriverType
    <2> QED BY <2>1, <2>2 DEF OffersMove, OfferMove
<1>2. ASSUME UNCHANGED driver PROVE OffersMove
    BY <1>2 DEF OffersMove, OfferMove
<1>3. (\E d \in Drivers : DeclineBooking(c, b, d)) \/ UNCHANGED driver
    BY DEF Start, AcceptBooking, DriverCancel, RideCompleted, CustomerCancel, CancelRequest,
           DispatcherCancel, Broadcast, AssignADriver, SearchRead, ExpireRead, HandOverRead, docs
<1> QED BY <1>1, <1>2, <1>3

\* So does every step of a call in flight.
LEMMA ContinueOffers ==
    ASSUME TypeOK, NEW c \in Calls, Continue(c)
    PROVE  OffersMove
<1> DEFINE b == call[c].b
<1>0. CallOK
    BY DEF TypeOK, CallOK
<1>1. CASE \/ DeclineRead(c) \/ DeclineWrite(c) \/ DriverCancelBooking(c)
           \/ CustomerCancelClose(c) \/ CancelRequestCheck(c) \/ AssignSave(c)
           \/ (\E d \in Drivers : SearchPick(c, d)) \/ SearchList(c) \/ SearchSeesCancel(c)
           \/ SearchFail(c) \/ ExpireFail(c) \/ HandOverCheck(c)
    <2>1. UNCHANGED driver
        BY <1>1 DEF DeclineRead, DeclineWrite, DriverCancelBooking, CustomerCancelClose,
             CancelRequestCheck, AssignSave, SearchPick, SearchList, SearchSeesCancel,
             SearchFail, ExpireFail, HandOverCheck, docs
    <2> QED BY <2>1 DEF OffersMove, OfferMove
<1>2. CASE AcceptDriver(c)
    <2>1. \A x \in Drivers : driver'[x] = driver[x] \/ ~driver'[x].offered
        BY <1>2 DEF AcceptDriver, TypeOK
    <2> QED BY <2>1 DEF OffersMove, OfferMove
<1>3. CASE \/ DriverCancelFree(c) \/ CustomerCancelOffer(c) \/ CancelRequestOffers(c)
           \/ CancelRequestRelease(c) \/ DispatcherCancelOffers(c) \/ DispatcherCancelDriver(c)
    <2>1. \A x \in Drivers : driver'[x] = driver[x] \/ driver'[x] = FreeDriver
        BY <1>3 DEF DriverCancelFree, CustomerCancelOffer, CancelRequestOffers,
             CancelRequestRelease, DispatcherCancelOffers, DispatcherCancelDriver,
             ResetDriver, ResetDrivers
    <2>2. ~FreeDriver.offered
        BY DEF FreeDriver
    <2> QED BY <2>1, <2>2 DEF OffersMove, OfferMove
<1>4. CASE AcceptClear(c) \/ ExpireClear(c) \/ SearchPolled(c)
    <2>1. \A x \in Drivers : driver'[x] = driver[x] \/ driver'[x] = ClearOffer(driver[x])
        BY <1>4 DEF AcceptClear, ExpireClear, SearchPolled, TypeOK
    <2>2. \A x \in Drivers : ~ClearOffer(driver[x]).offered
        BY DEF ClearOffer, TypeOK, DriverType
    <2> QED BY <2>1, <2>2 DEF OffersMove, OfferMove
<1>5. CASE SearchFlag(c) \/ OfferFlag(c)
    <2>1. b \in Bookings
        BY <1>5, <1>0, CallFields DEF SearchFlag, OfferFlag, At, DriverPCs
    <2>2. \A x \in Drivers : driver'[x] = driver[x] \/ driver'[x] = OfferOf(driver[x], b)
        BY <1>5 DEF SearchFlag, OfferFlag, TypeOK
    <2>3. \A x \in Drivers : OfferOf(driver[x], b).offer = b
        BY DEF OfferOf, TypeOK, DriverType
    <2> QED BY <2>1, <2>2, <2>3 DEF OffersMove, OfferMove
<1>6. CASE SearchUnflag(c)
    <2>1. \A x \in Drivers : driver'[x] = driver[x] \/ ~driver'[x].offered
        BY <1>6 DEF SearchUnflag, TypeOK, DriverType
    <2> QED BY <2>1 DEF OffersMove, OfferMove
<1>7. CASE CancelRefund(c) \/ AssignUnassign(c) \/ HandOverWrite(c)
    <2>1. \A x \in Drivers : /\ driver'[x].offered = driver[x].offered
                             /\ driver'[x].offer = driver[x].offer
        <3>1. CASE CancelRefund(c)
            BY <3>1 DEF CancelRefund, RefundFrees, TypeOK, DriverType
        <3>2. CASE AssignUnassign(c)
            BY <3>2 DEF AssignUnassign, TypeOK, DriverType
        <3>3. CASE HandOverWrite(c)
            BY <3>3 DEF HandOverWrite, TypeOK, DriverType
        <3> QED BY <1>7, <3>1, <3>2, <3>3
    <2> QED BY <2>1 DEF OffersMove, OfferMove
<1>8. CASE RideCompletedDriver(c)
    <2>1. \A x \in Drivers : driver'[x] = driver[x] \/ ~driver'[x].offered
        BY <1>8 DEF RideCompletedDriver, ClearOffer, TypeOK, DriverType
    <2> QED BY <2>1 DEF OffersMove, OfferMove
<1> QED BY <1>1, <1>2, <1>3, <1>4, <1>5, <1>6, <1>7, <1>8 DEF Continue

\* A driver whose offered flag is set can be found by the booking he is offered,
\* whatever accepts, cancels, searches and expiries interleave.
THEOREM OffersFindable == Spec => []FlagHasBooking
<1>1. Init => FlagHasBooking
    BY DEF Init, FlagHasBooking, FreeDriver
<1>2. TypeOK /\ FlagHasBooking /\ [Next]_vars => FlagHasBooking'
    <2> SUFFICES ASSUME TypeOK, FlagHasBooking, [Next]_vars PROVE FlagHasBooking'
        OBVIOUS
    <2>1. ASSUME NEW b \in Bookings, NEW d \in Drivers, RecivedPayment(b, d) PROVE OffersMove
        BY <2>1 DEF RecivedPayment, OffersMove, OfferMove, TypeOK, DriverType
    <2>2. ASSUME NEW d \in Drivers, FreeDrivers(d) PROVE OffersMove
        BY <2>2 DEF FreeDrivers, FreeDriver, OffersMove, OfferMove, TypeOK
    <2>3. ASSUME UNCHANGED vars PROVE OffersMove
        BY <2>3 DEF vars, OffersMove, OfferMove
    <2> QED BY <2>1, <2>2, <2>3, StartOffers, ContinueOffers, MovedFlags DEF Next
<1> QED BY <1>1, <1>2, TypeCorrect, PTL DEF Spec
-----------------------------------------------------------------------------
(* Status and driver.  What can break their agreement is a decline that     *)
(* writes back the driver it read, so the invariant says of the declines in *)
(* flight what it says of the booking: about a scheduled booking that no    *)
(* dispatcher has saved, they remember nobody.                              *)

Agrees(b) ==
    /\ booking[b].status = "accepted" => booking[b].driver # None
    /\ b \in Scheduled /\ Open(booking[b].status) => booking[b].driver = None

DeclineAgrees(r) ==
    r.pc = "decline.write" /\ r.b \in Scheduled \ reassigned => r.drv = None

StatusInv ==
    /\ \A b \in Bookings \ reassigned : Agrees(b)
    /\ \A c \in Calls : DeclineAgrees(call[c])

\* A step that leaves status and driver of a booking alone, or closes it.
Closes(new, old) ==
    \/ new.status = old.status /\ new.driver = old.driver
    \/ new.status \in {"completed", "cancelled", "failed"}

\* Such a step keeps the agreement.
LEMMA ClosingAgrees ==
    ASSUME StatusInv, reassigned \subseteq reassigned',
           \A b \in Bookings : Closes(booking'[b], booking[b])
    PROVE  (\A b \in Bookings \ reassigned : Agrees(b))'
    BY DEF StatusInv, Agrees, Closes, Open

\* A call that is not a decline about to write remembers nothing that matters.
LEMMA CallsAgree ==
    ASSUME TypeOK, StatusInv, reassigned \subseteq reassigned',
           \A c \in Calls : call'[c] = call[c] \/ call'[c].pc # "decline.write"
    PROVE  \A c \in Calls : DeclineAgrees(call[c])'
    BY DEF StatusInv, DeclineAgrees

\* No handler starts at a decline's write, and reassigned only grows.
LEMMA StartCalls ==
    ASSUME TypeOK, NEW c \in Calls, NEW b \in Bookings, Start(c, b)
    PROVE  /\ \A x \in Calls : call'[x] = call[x] \/ call'[x].pc # "decline.write"
           /\ UNCHANGED reassigned
<1>1. UNCHANGED reassigned
    BY DEF Start, AcceptBooking, DeclineBooking, DriverCancel, RideCompleted, CustomerCancel,
           CancelRequest, DispatcherCancel, Broadcast, AssignADriver, SearchRead, ExpireRead,
           HandOverRead, history
<1>2. \A pc, v : Step(pc, b, v).pc = pc
    BY DEF Step
<1>3. ASSUME NEW d \in Drivers,
             AcceptBooking(c, b, d) \/ DeclineBooking(c, b, d) \/ RideCompleted(c, b, d)
             \/ Broadcast(c, b, d)
      PROVE  \A x \in Calls : call'[x] = call[x] \/ call'[x].pc # "decline.write"
    BY <1>2, <1>3 DEF AcceptBooking, DeclineBooking, RideCompleted, Broadcast, Begin, TypeOK
<1>4. ASSUME CustomerCancel(c, b) \/ CancelRequest(c, b) \/ ExpireRead(c, b)
      PROVE  \A x \in Calls : call'[x] = call[x] \/ call'[x].pc # "decline.write"
    BY <1>2, <1>4 DEF CustomerCancel, CancelRequest, ExpireRead, Begin, TypeOK
<1>5. ASSUME \/ DispatcherCancel(c, b) \/ SearchRead(c, b) \/ HandOverRead(c, b)
             \/ \E d \in Drivers : DriverCancel(c, b, d)
      PROVE  \A x \in Calls : call'[x] = call[x] \/ call'[x].pc # "decline.write"
    BY <1>5 DEF DispatcherCancel, SearchRead, HandOverRead, DriverCancel, Step, TypeOK
<1>6. ASSUME NEW d \in Drivers, NEW o \in Calls, AssignADriver(c, o, b, d)
      PROVE  \A x \in Calls : call'[x] = call[x] \/ call'[x].pc # "decline.write"
    <2>1. \A x \in Calls : \/ call'[x] = call[x]
                           \/ call'[x] = Step("offer.flag", b, d)
                           \/ call'[x].pc \in {"assign.save", "assign.unassign"}
        BY <1>6 DEF AssignADriver, Step, TypeOK
    <2> QED BY <2>1, <1>2
<1> QED BY <1>1, <1>3, <1>4, <1>5, <1>6 DEF Start

\* What starts leaves a booking's status and driver alone, closes it, or is an
\* accept, which sets both.
LEMMA StartStatus ==
    ASSUME TypeOK, StatusInv, NEW c \in Calls, NEW b \in Bookings, Start(c, b)
    PROVE  StatusInv'
<1>1. \A x \in Calls : DeclineAgrees(call[x])'
    BY StartCalls, CallsAgree
<1>2. ASSUME NEW d \in Drivers, AcceptBooking(c, b, d)
      PROVE  (\A x \in Bookings \ reassigned : Agrees(x))'
    <2>1. /\ booking'[b].status = "accepted" /\ booking'[b].driver = d
          /\ \A x \in Bookings : x # b => booking'[x] = booking[x]
        BY <1>2 DEF AcceptBooking, TypeOK, BookingType
    <2>2. d # None
        BY NoneAssumption
    <2> QED BY <2>1, <2>2, StartCalls DEF StatusInv, Agrees, Open
<1>3. ASSUME \/ \E d \in Drivers : \/ DeclineBooking(c, b, d) \/ DriverCancel(c, b, d)
                                   \/ Broadcast(c, b, d)
                                   \/ \E o \in Calls : AssignADriver(c, o, b, d)
             \/ CustomerCancel(c, b) \/ SearchRead(c, b) \/ ExpireRead(c, b)
             \/ HandOverRead(c, b)
      PROVE  \A x \in Bookings : Closes(booking'[x], booking[x])
    <2>1. UNCHANGED booking
        BY <1>3 DEF DeclineBooking, DriverCancel, Broadcast, AssignADriver, CustomerCancel,
             SearchRead, ExpireRead, HandOverRead, docs
    <2> QED BY <2>1 DEF Closes
<1>4. ASSUME \/ \E d \in Drivers : RideCompleted(c, b, d)
             \/ CancelRequest(c, b) \/ DispatcherCancel(c, b)
      PROVE  \A x \in Bookings : Closes(booking'[x], booking[x])
    BY <1>4 DEF RideCompleted, CancelRequest, DispatcherCancel, Closes, TypeOK, BookingType
<1>5. (\A x \in Bookings \ reassigned : Agrees(x))'
    BY <1>2, <1>3, <1>4, StartCalls, ClosingAgrees DEF Start
<1> QED BY <1>1, <1>5 DEF StatusInv

\* Only DeclineRead leads to a decline's write, and it has just read the driver.
LEMMA ContinueCalls ==
    ASSUME TypeOK, StatusInv, NEW c \in Calls, Continue(c), reassigned \subseteq reassigned'
    PROVE  \A x \in Calls : DeclineAgrees(call[x])'
<1> DEFINE Others == \A x \in Calls : call'[x] = call[x] \/ call'[x].pc # "decline.write"
<1>0. CallOK
    BY DEF TypeOK, CallOK
<1>1. CASE DeclineRead(c)
    <2>1. call[c].b \in Bookings
        BY <1>1, <1>0, CallFields DEF DeclineRead, At, DriverPCs
    <2>2. CASE End(c)
        <3>1. Others
            BY <2>2 DEF End, IdleCall, TypeOK
        <3> QED BY <3>1, CallsAgree
    <2>3. CASE /\ Open(booking[call[c].b].status)
               /\ Remember(c, "decline.write", booking[call[c].b].driver)
        <3>1. UNCHANGED <<booking, reassigned>>
            BY <1>1 DEF DeclineRead, docs, history
        <3>2. /\ call'[c].b = call[c].b
              /\ call'[c].drv = booking[call[c].b].driver
              /\ \A x \in Calls : x # c => call'[x] = call[x]
            BY <2>3 DEF Remember, Step, TypeOK
        <3>3. DeclineAgrees(call[c])'
            BY <2>1, <2>3, <3>1, <3>2 DEF StatusInv, Agrees, DeclineAgrees
        <3>4. \A x \in Calls : x # c => DeclineAgrees(call[x])'
            BY <3>1, <3>2 DEF StatusInv, DeclineAgrees
        <3> QED BY <3>3, <3>4
    <2> QED BY <1>1, <2>2, <2>3 DEF DeclineRead
<1>2. ASSUME End(c) PROVE Others
    BY <1>2 DEF End, IdleCall, TypeOK
<1>3. ASSUME NEW pc, pc # "decline.write", Goto(c, pc) PROVE Others
    BY <1>3 DEF Goto, TypeOK, CallType, IdleCall
<1>4. ASSUME NEW pc, NEW drv, pc # "decline.write", Remember(c, pc, drv) PROVE Others
    BY <1>4 DEF Remember, Step, TypeOK
<1>5. ASSUME NEW d \in Drivers, SearchPick(c, d) PROVE Others
    BY <1>5 DEF SearchPick, Begin, Step, TypeOK
<1>6. CASE \/ AcceptClear(c) \/ DeclineWrite(c) \/ DriverCancelBooking(c)
           \/ DispatcherCancelDriver(c) \/ AssignSave(c) \/ RideCompletedDriver(c)
           \/ SearchPolled(c) \/ SearchSeesCancel(c) \/ OfferFlag(c) \/ HandOverWrite(c)
    <2>1. End(c)
        BY <1>6 DEF AcceptClear, DeclineWrite, DriverCancelBooking, DispatcherCancelDriver,
             AssignSave, RideCompletedDriver, SearchPolled, SearchSeesCancel, OfferFlag,
             HandOverWrite
    <2> QED BY <2>1, <1>2, CallsAgree
<1>7. CASE \/ AcceptDriver(c) \/ DriverCancelFree(c) \/ CustomerCancelOffer(c)
           \/ CancelRequestOffers(c) \/ DispatcherCancelOffers(c) \/ AssignUnassign(c)
           \/ SearchFlag(c) \/ SearchUnflag(c) \/ ExpireClear(c)
    <2>1. \E pc \in {"accept.clear", "dcancel.booking", "refund", "crequest.check",
                     "dispatcher.driver", "assign.save", "search.listed"} : Goto(c, pc)
        BY <1>7 DEF EndWithRefund, AcceptDriver, DriverCancelFree, CustomerCancelOffer,
             CancelRequestOffers, DispatcherCancelOffers, AssignUnassign, SearchFlag,
             SearchUnflag, ExpireClear
    <2> QED BY <2>1, <1>3, CallsAgree
<1>8. CASE CancelRequestRelease(c) \/ CancelRefund(c) \/ SearchList(c) \/ HandOverCheck(c)
    <2>1. \/ End(c)
          \/ \E pc \in {"refund", "crequest.release", "search.poll", "handover.write"} : Goto(c, pc)
        BY <1>8 DEF EndWithRefund, CancelRequestRelease, CancelRefund, SearchList, HandOverCheck
    <2> QED BY <2>1, <1>2, <1>3, CallsAgree
<1>9. CASE CustomerCancelClose(c) \/ CancelRequestCheck(c) \/ SearchFail(c) \/ ExpireFail(c)
    <2>1. \E pc \in {"ccancel.offers", "refund", "crequest.both", "search.unflag", "expire.clear"} :
             \E drv : Remember(c, pc, drv)
        BY <1>9 DEF CustomerCancelClose, CancelRequestCheck, SearchFail, ExpireFail
    <2> QED BY <2>1, <1>4, CallsAgree
<1> QED BY <1>1, <1>5, <1>6, <1>7, <1>8, <1>9, CallsAgree DEF Continue

\* A step of a call in flight leaves a booking's status and driver alone, closes
\* it, or is one of three: a decline's write, a driver's cancel, a dispatcher's save.
LEMMA ContinueStatus ==
    ASSUME TypeOK, StatusInv, NEW c \in Calls, Continue(c)
    PROVE  StatusInv'
<1>0. CallOK
    BY DEF TypeOK, CallOK
<1>1. CASE DeclineWrite(c)
    <2>1. PICK b \in Bookings : b = call[c].b
        BY <1>1, <1>0, CallFields DEF DeclineWrite, At, DriverPCs
    <2>2. /\ booking'[b].status = "request"
          /\ booking'[b].driver = DeclinedDriver(call[c].drv, call[c].d)
          /\ \A x \in Bookings : x # b => booking'[x] = booking[x]
          /\ UNCHANGED reassigned
        BY <1>1, <2>1 DEF DeclineWrite, TypeOK, BookingType, history
    <2>3. b \in Scheduled \ reassigned => call[c].drv = None
        BY <1>1, <2>1 DEF StatusInv, DeclineAgrees, DeclineWrite, At
    <2>4. Agrees(b)' \/ b \in reassigned
        BY <2>2, <2>3 DEF Agrees, DeclinedDriver
    <2>5. (\A x \in Bookings \ reassigned : Agrees(x))'
        BY <2>2, <2>4 DEF StatusInv, Agrees
    <2> QED BY <2>2, <2>5, ContinueCalls DEF StatusInv
<1>2. CASE DriverCancelBooking(c)
    <2>1. PICK b \in Bookings : b = call[c].b
        BY <1>2, <1>0, CallFields DEF DriverCancelBooking, At, DriverPCs
    <2>2. /\ booking'[b] = ReopenedByDriver(b, call[c].d)
          /\ \A x \in Bookings : x # b => booking'[x] = booking[x]
          /\ UNCHANGED reassigned
        BY <1>2, <2>1 DEF DriverCancelBooking, TypeOK, history
    <2>3. /\ booking'[b].status = "none"
          /\ b \in Scheduled => booking'[b].driver = None
        BY <2>1, <2>2 DEF ReopenedByDriver, TypeOK, BookingType
    <2>4. Agrees(b)'
        BY <2>3 DEF Agrees
    <2>5. (\A x \in Bookings \ reassigned : Agrees(x))'
        BY <2>2, <2>4 DEF StatusInv, Agrees
    <2> QED BY <2>2, <2>5, ContinueCalls DEF StatusInv
<1>3. CASE AssignSave(c)
    <2>1. PICK b \in Bookings : b = call[c].b
        BY <1>3, <1>0, CallFields DEF AssignSave, At, DriverPCs
    <2>2. /\ \A x \in Bookings : x # b => booking'[x] = booking[x]
          /\ reassigned' = reassigned \cup {b}
        BY <1>3, <2>1 DEF AssignSave, TypeOK
    <2>3. (\A x \in Bookings \ reassigned : Agrees(x))'
        BY <2>2 DEF StatusInv, Agrees
    <2> QED BY <2>2, <2>3, ContinueCalls DEF StatusInv
<1>4. CASE CustomerCancelClose(c) \/ SearchFail(c) \/ ExpireFail(c)
    <2>1. /\ UNCHANGED reassigned
          /\ \A x \in Bookings : \/ booking'[x] = booking[x]
                                 \/ booking'[x].status \in {"cancelled", "failed"}
        BY <1>4 DEF CustomerCancelClose, SearchFail, ExpireFail, TypeOK, BookingType, history
    <2> QED BY <2>1, ClosingAgrees, ContinueCalls DEF StatusInv, Closes
<1>5. CASE SearchList(c)
    <2>1. UNCHANGED reassigned
        BY <1>5 DEF SearchList, history
    <2>2. \A x \in Bookings : Closes(booking'[x], booking[x])
        BY <1>5 DEF SearchList, Closes, TypeOK, BookingType
    <2> QED BY <2>1, <2>2, ClosingAgrees, ContinueCalls DEF StatusInv
<1>6. CASE \/ AcceptDriver(c) \/ AcceptClear(c) \/ DeclineRead(c) \/ DriverCancelFree(c)
           \/ CustomerCancelOffer(c) \/ CancelRequestOffers(c) \/ CancelRequestCheck(c)
           \/ CancelRequestRelease(c) \/ CancelRefund(c) \/ DispatcherCancelOffers(c)
           \/ DispatcherCancelDriver(c) \/ AssignUnassign(c) \/ RideCompletedDriver(c)
           \/ (\E d \in Drivers : SearchPick(c, d)) \/ SearchFlag(c) \/ SearchPolled(c)
           \/ SearchSeesCancel(c) \/ SearchUnflag(c) \/ OfferFlag(c) \/ ExpireClear(c)
           \/ HandOverCheck(c) \/ HandOverWrite(c)
    <2>1. UNCHANGED <<booking, reassigned>>
        BY <1>6 DEF docs, history, AcceptDriver, AcceptClear, DeclineRead, DriverCancelFree,
             CustomerCancelOffer, CancelRequestOffers, CancelRequestCheck,
             CancelRequestRelease, CancelRefund, DispatcherCancelOffers,
             DispatcherCancelDriver, AssignUnassign, RideCompletedDriver, SearchPick,
             SearchFlag, SearchPolled, SearchSeesCancel, SearchUnflag, OfferFlag,
             ExpireClear, HandOverCheck, HandOverWrite
    <2> QED BY <2>1, ClosingAgrees, ContinueCalls DEF StatusInv, Closes
<1> QED BY <1>1, <1>2, <1>3, <1>4, <1>5, <1>6 DEF Continue

\* As long as no dispatcher's save has touched it, an accepted booking has a
\* driver and an open scheduled booking has none, so that an accept can match it.
THEOREM StatusSound == Spec => []StatusAgreesWithDriver
<1>1. Init => StatusInv
    BY DEF Init, StatusInv, Agrees, DeclineAgrees, NewBooking, IdleCall
<1>2. TypeOK /\ StatusInv /\ [Next]_vars => StatusInv'
    <2> SUFFICES ASSUME TypeOK, StatusInv, [Next]_vars PROVE StatusInv'
        OBVIOUS
    <2>1. ASSUME \/ \E b \in Bookings, d \in Drivers : RecivedPayment(b, d)
                 \/ \E d \in Drivers : FreeDrivers(d)
                 \/ UNCHANGED vars
          PROVE  StatusInv'
        <3>1. UNCHANGED <<booking, call, reassigned>>
            BY <2>1 DEF RecivedPayment, FreeDrivers, vars, history
        <3> QED BY <3>1 DEF StatusInv, Agrees, DeclineAgrees
    <2> QED BY <2>1, StartStatus, ContinueStatus DEF Next
<1>3. StatusInv => StatusAgreesWithDriver
    BY DEF StatusInv, Agrees, StatusAgreesWithDriver
<1> QED BY <1>1, <1>2, <1>3, TypeCorrect, PTL DEF Spec

-----------------------------------------------------------------------------
(* Stranded drivers.                                                        *)

\* A change of a driver document that strands nobody.
StrandsNot(new, old) ==
    \/ new.ride = "free"
    \/ new.current \in Bookings
    \/ new.ride = old.ride /\ new.current = old.current

StrandsNobody == \A x \in Drivers : StrandsNot(driver'[x], driver[x])

\* Such a change leaves nobody stranded who was not.
LEMMA NobodyStranded ==
    ASSUME TypeOK, StrandsNobody, NEW x \in Drivers
    PROVE  Stranded(driver[x]) \/ ~Stranded(driver'[x])
    BY NoneAssumption DEF TypeOK, StrandsNobody, StrandsNot, Stranded

\* Nothing that starts touches a driver, but for the offer a decline clears.
LEMMA StartStrandsNobody ==
    ASSUME TypeOK, NEW c \in Calls, NEW b \in Bookings, Start(c, b)
    PROVE  StrandsNobody
<1>1. ASSUME NEW d \in Drivers, DeclineBooking(c, b, d) PROVE StrandsNobody
    BY <1>1 DEF DeclineBooking, ClearOffer, StrandsNobody, StrandsNot, TypeOK, DriverType
<1>2. ASSUME UNCHANGED driver PROVE StrandsNobody
    BY <1>2 DEF StrandsNobody, StrandsNot
<1>3. (\E d \in Drivers : DeclineBooking(c, b, d)) \/ UNCHANGED driver
    BY DEF Start, AcceptBooking, DriverCancel, RideCompleted, CustomerCancel, CancelRequest,
           DispatcherCancel, Broadcast, AssignADriver, SearchRead, ExpireRead, HandOverRead, docs
<1> QED BY <1>1, <1>2, <1>3

\* Of the steps of a call in flight, only assignADriver's takes the booking from a
\* driver and leaves him busy.
LEMMA ContinueStrandsNobody ==
    ASSUME TypeOK, NEW c \in Calls, Continue(c), ~AssignUnassign(c)
    PROVE  StrandsNobody
<1>0. CallOK
    BY DEF TypeOK, CallOK
<1>1. CASE \/ DeclineRead(c) \/ DeclineWrite(c) \/ DriverCancelBooking(c)
           \/ CustomerCancelClose(c) \/ CancelRequestCheck(c) \/ AssignSave(c)
           \/ (\E d \in Drivers : SearchPick(c, d)) \/ SearchList(c) \/ SearchSeesCancel(c)
           \/ SearchFail(c) \/ ExpireFail(c) \/ HandOverCheck(c)
    <2>1. UNCHANGED driver
        BY <1>1 DEF DeclineRead, DeclineWrite, DriverCancelBooking, CustomerCancelClose,
             CancelRequestCheck, AssignSave, SearchPick, SearchList, SearchSeesCancel,
             SearchFail, ExpireFail, HandOverCheck, docs
    <2> QED BY <2>1 DEF StrandsNobody, StrandsNot
<1>2. CASE AcceptDriver(c) \/ HandOverWrite(c)
    <2>1. call[c].b \in Bookings
        BY <1>2, <1>0, CallFields DEF AcceptDriver, HandOverWrite, At, DriverPCs, BookingPCs
    <2>2. \A x \in Drivers : driver'[x] = driver[x] \/ driver'[x].current = call[c].b
        <3>1. CASE AcceptDriver(c)
            BY <3>1 DEF AcceptDriver, TypeOK
        <3>2. CASE HandOverWrite(c)
            BY <3>2 DEF HandOverWrite, TypeOK, DriverType
        <3> QED BY <1>2, <3>1, <3>2
    <2> QED BY <2>1, <2>2 DEF StrandsNobody, StrandsNot
<1>3. CASE \/ DriverCancelFree(c) \/ CustomerCancelOffer(c) \/ CancelRequestOffers(c)
           \/ CancelRequestRelease(c) \/ DispatcherCancelOffers(c) \/ DispatcherCancelDriver(c)
    <2>1. \A x \in Drivers : driver'[x] = driver[x] \/ driver'[x] = FreeDriver
        BY <1>3 DEF DriverCancelFree, CustomerCancelOffer, CancelRequestOffers,
             CancelRequestRelease, DispatcherCancelOffers, DispatcherCancelDriver,
             ResetDriver, ResetDrivers
    <2>2. FreeDriver.ride = "free"
        BY DEF FreeDriver
    <2> QED BY <2>1, <2>2 DEF StrandsNobody, StrandsNot
<1>4. CASE \/ AcceptClear(c) \/ ExpireClear(c) \/ SearchPolled(c) \/ SearchFlag(c)
           \/ OfferFlag(c) \/ SearchUnflag(c)
    <2>1. \A x \in Drivers : driver[x] \in DriverType
        BY DEF TypeOK
    <2>2. CASE AcceptClear(c) \/ ExpireClear(c) \/ SearchPolled(c)
        <3>1. \A x \in Drivers : driver'[x] = driver[x] \/ driver'[x] = ClearOffer(driver[x])
            BY <2>2 DEF AcceptClear, ExpireClear, SearchPolled, TypeOK
        <3> QED BY <2>1, <3>1 DEF StrandsNobody, StrandsNot, ClearOffer, DriverType
    <2>3. CASE SearchFlag(c) \/ OfferFlag(c)
        <3>1. \A x \in Drivers : driver'[x] = driver[x] \/ driver'[x] = OfferOf(driver[x], call[c].b)
            BY <2>3 DEF SearchFlag, OfferFlag, TypeOK
        <3> QED BY <2>1, <3>1 DEF StrandsNobody, StrandsNot, OfferOf, DriverType
    <2>4. CASE SearchUnflag(c)
        BY <2>1, <2>4 DEF SearchUnflag, StrandsNobody, StrandsNot, DriverType
    <2> QED BY <1>4, <2>2, <2>3, <2>4
<1>5. CASE CancelRefund(c) \/ RideCompletedDriver(c)
    <2>1. \A x \in Drivers : driver'[x] = driver[x] \/ driver'[x].ride = "free"
        <3>1. CASE CancelRefund(c)
            BY <3>1 DEF CancelRefund, RefundFrees, TypeOK, DriverType
        <3>2. CASE RideCompletedDriver(c)
            BY <3>2 DEF RideCompletedDriver, ClearOffer, TypeOK, DriverType
        <3> QED BY <1>5, <3>1, <3>2
    <2> QED BY <2>1 DEF StrandsNobody, StrandsNot
<1> QED BY <1>1, <1>2, <1>3, <1>4, <1>5 DEF Continue

\* A driver is left busy without a ride by assignADriver and by no other handler.
THEOREM StrandedByAssign == Spec => StrandedOnlyByAssign
<1>1. TypeOK /\ [Next]_vars =>
        [\A d \in Drivers :
            Stranded(driver[d]) \/ ~Stranded(driver'[d])
            \/ \E c \in Calls : At(c, "assign.unassign") /\ call'[c].pc = "assign.save"]_vars
    <2> DEFINE Excused == \A x \in Drivers :
            \/ Stranded(driver[x]) \/ ~Stranded(driver'[x])
            \/ \E c \in Calls : At(c, "assign.unassign") /\ call'[c].pc = "assign.save"
    <2> SUFFICES ASSUME TypeOK, Next PROVE Excused
        OBVIOUS
    <2>1. ASSUME NEW c \in Calls, AssignUnassign(c) PROVE Excused
        <3>1. At(c, "assign.unassign") /\ call'[c].pc = "assign.save"
            BY <2>1 DEF AssignUnassign, Goto, TypeOK, CallType, IdleCall
        <3> QED BY <3>1
    <2>2. ASSUME NEW b \in Bookings, NEW d \in Drivers, RecivedPayment(b, d) PROVE StrandsNobody
        BY <2>2 DEF RecivedPayment, StrandsNobody, StrandsNot, TypeOK, DriverType
    <2>3. ASSUME NEW d \in Drivers, FreeDrivers(d) PROVE StrandsNobody
        BY <2>3 DEF FreeDrivers, FreeDriver, StrandsNobody, StrandsNot, TypeOK
    <2>4. StrandsNobody \/ \E c \in Calls : AssignUnassign(c)
        BY <2>2, <2>3, StartStrandsNobody, ContinueStrandsNobody DEF Next
    <2>5. ASSUME StrandsNobody PROVE Excused
        <3>1. \A x \in Drivers : Stranded(driver[x]) \/ ~Stranded(driver'[x])
            BY <2>5, NobodyStranded
        <3> QED BY <3>1
    <2> QED BY <2>1, <2>4, <2>5
<1> QED BY <1>1, TypeCorrect, PTL DEF Spec, StrandedOnlyByAssign

-----------------------------------------------------------------------------
(* The lifecycle: Dispatch implements RideLifecycle.                        *)

\* "ongoing" is declared by the schema and never assigned.
NeverOngoing == \A b \in Bookings : booking[b].status # "ongoing"

Ride == [b \in Bookings |-> LifecycleOf(booking[b])]

\* What may become of one booking document in a step: only an accept that
\* matched it makes it accepted; the other writes reopen it, close it, or remove
\* its driver.
RideMove(new, old) ==
    \/ new.status = old.status /\ new.driver = old.driver
    \/ /\ old.status \in {"none", "request", "completed"}
       /\ new.status = "accepted" /\ new.driver \in Drivers
    \/ new.status \in {"none", "request", "completed", "cancelled", "failed"}
    \/ new.status = old.status /\ new.driver = None

OneRideMoves ==
    \E b \in Bookings :
        /\ RideMove(booking'[b], booking[b])
        /\ \A x \in Bookings \ {b} : booking'[x] = booking[x]

\* The lifecycle of a document with a given status.
LEMMA LifecycleValues ==
    ASSUME NEW r \in BookingType, r.status # "ongoing"
    PROVE  /\ r.status \in {"none", "request"} =>
                LifecycleOf(r) = [phase |-> "open", by |-> None]
           /\ r.status = "accepted" =>
                LifecycleOf(r) = [phase |-> "held", by |-> r.driver]
           /\ r.status = "completed" =>
                LifecycleOf(r) = [phase |-> "completed", by |-> None]
           /\ r.status \in {"cancelled", "failed"} =>
                LifecycleOf(r) = [phase |-> "dead", by |-> None]
           /\ r.status \in {"none", "request", "accepted", "completed", "cancelled", "failed"}
<1>1. r.status \in {"none", "request", "accepted", "completed", "cancelled", "failed"}
    BY DEF BookingType, Statuses
<1> QED BY <1>1 DEF LifecycleOf, Phase, Open

\* Such a move of the document is a step of the lifecycle, or changes nothing in it.
LEMMA RideMoves ==
    ASSUME TypeOK, TypeOK', NeverOngoing, NeverOngoing', OneRideMoves
    PROVE  [Lifecycle!Next]_([b \in Bookings |-> LifecycleOf(booking[b])])
<1>1. PICK b \in Bookings : /\ RideMove(booking'[b], booking[b])
                            /\ \A x \in Bookings \ {b} : booking'[x] = booking[x]
    BY DEF OneRideMoves
<1> DEFINE old == booking[b]
           new == booking'[b]
<1>2. /\ old \in BookingType /\ old.status # "ongoing"
      /\ new \in BookingType /\ new.status # "ongoing"
    BY DEF TypeOK, NeverOngoing
<1>3. Ride' = [Ride EXCEPT ![b] = LifecycleOf(new)]
    BY <1>1 DEF Ride, LifecycleOf
<1>4. Ride[b] = LifecycleOf(old)
    BY DEF Ride
<1>5. CASE new.status = old.status /\ new.driver = old.driver
    <2>1. LifecycleOf(new) = LifecycleOf(old)
        BY <1>5 DEF LifecycleOf
    <2> QED BY <1>3, <1>4, <2>1 DEF Ride
<1>6. CASE /\ old.status \in {"none", "request", "completed"}
           /\ new.status = "accepted" /\ new.driver \in Drivers
    <2>1. Ride[b].phase \in {"open", "completed"}
        BY <1>2, <1>4, <1>6, LifecycleValues
    <2>2. LifecycleOf(new) = [phase |-> "held", by |-> new.driver]
        BY <1>2, <1>6, LifecycleValues
    <2>3. Lifecycle!Take(b, new.driver)
        BY <1>3, <2>1, <2>2 DEF Lifecycle!Take, Ride
    <2> QED BY <1>6, <2>3 DEF Lifecycle!Next
<1>7. CASE new.status \in {"none", "request"}
    <2>1. LifecycleOf(new) = [phase |-> "open", by |-> None]
        BY <1>2, <1>7, LifecycleValues
    <2>2. CASE old.status \in {"none", "request"}
        <3>1. LifecycleOf(new) = LifecycleOf(old)
            BY <1>2, <2>1, <2>2, LifecycleValues
        <3> QED BY <1>3, <1>4, <3>1 DEF Ride
    <2>3. CASE old.status = "accepted"
        <3>1. Ride[b].phase = "held"
            BY <1>2, <1>4, <2>3, LifecycleValues
        <3>2. Lifecycle!Release(b)
            BY <1>3, <2>1, <3>1 DEF Lifecycle!Release, Lifecycle!In, Ride
        <3> QED BY <3>2 DEF Lifecycle!Next
    <2>4. CASE old.status \in {"completed", "cancelled", "failed"}
        <3>1. Ride[b].phase \in {"completed", "dead"}
            BY <1>2, <1>4, <2>4, LifecycleValues
        <3>2. Lifecycle!Reopen(b)
            BY <1>3, <2>1, <3>1 DEF Lifecycle!Reopen, Lifecycle!In, Ride
        <3> QED BY <3>2 DEF Lifecycle!Next
    <2> QED BY <1>2, <2>2, <2>3, <2>4, LifecycleValues
<1>8. CASE new.status = "completed"
    <2>1. Lifecycle!Finish(b)
        BY <1>2, <1>3, <1>8, LifecycleValues DEF Lifecycle!Finish, Lifecycle!In, Ride
    <2> QED BY <2>1 DEF Lifecycle!Next
<1>9. CASE new.status \in {"cancelled", "failed"}
    <2>1. Lifecycle!Kill(b)
        BY <1>2, <1>3, <1>9, LifecycleValues DEF Lifecycle!Kill, Lifecycle!In, Ride
    <2> QED BY <2>1 DEF Lifecycle!Next
<1>10. CASE new.status = old.status /\ new.driver = None /\ old.status = "accepted"
    <2>1. Ride[b].phase = "held"
        BY <1>2, <1>4, <1>10, LifecycleValues
    <2>2. LifecycleOf(new) = [phase |-> "held", by |-> None]
        BY <1>2, <1>10, LifecycleValues
    <2>3. Lifecycle!Orphan(b)
        BY <1>3, <2>1, <2>2 DEF Lifecycle!Orphan, Lifecycle!In, Ride
    <2> QED BY <2>3 DEF Lifecycle!Next
<1> QED BY <1>1, <1>2, <1>5, <1>6, <1>7, <1>8, <1>9, <1>10, LifecycleValues DEF RideMove

\* A handler that starts moves its booking, or none.
LEMMA StartMoves ==
    ASSUME TypeOK, NeverOngoing, NEW c \in Calls, NEW b \in Bookings, Start(c, b)
    PROVE  UNCHANGED booking \/ OneRideMoves
<1>1. ASSUME NEW d \in Drivers, AcceptBooking(c, b, d) PROVE OneRideMoves
    <2>1. booking[b].status \in {"none", "request", "completed"}
        BY <1>1 DEF AcceptBooking, AcceptMatches, NeverOngoing, TypeOK, BookingType, Statuses
    <2>2. /\ booking'[b].status = "accepted" /\ booking'[b].driver = d
          /\ \A x \in Bookings \ {b} : booking'[x] = booking[x]
        BY <1>1 DEF AcceptBooking, TypeOK, BookingType
    <2> QED BY <2>1, <2>2 DEF OneRideMoves, RideMove
<1>2. ASSUME \/ \E d \in Drivers : RideCompleted(c, b, d)
             \/ CancelRequest(c, b) \/ DispatcherCancel(c, b)
      PROVE  OneRideMoves
    <2>1. /\ booking'[b].status \in {"completed", "cancelled"}
          /\ \A x \in Bookings \ {b} : booking'[x] = booking[x]
        BY <1>2 DEF RideCompleted, CancelRequest, DispatcherCancel, TypeOK, BookingType
    <2> QED BY <2>1 DEF OneRideMoves, RideMove
<1>3. ASSUME \/ \E d \in Drivers : \/ DeclineBooking(c, b, d) \/ DriverCancel(c, b, d)
                                   \/ Broadcast(c, b, d)
                                   \/ \E o \in Calls : AssignADriver(c, o, b, d)
             \/ CustomerCancel(c, b) \/ SearchRead(c, b) \/ ExpireRead(c, b)
             \/ HandOverRead(c, b)
      PROVE  UNCHANGED booking
    BY <1>3 DEF DeclineBooking, DriverCancel, Broadcast, AssignADriver, CustomerCancel,
         SearchRead, ExpireRead, HandOverRead, docs
<1> QED BY <1>1, <1>2, <1>3 DEF Start

\* So does a step of a call in flight.
LEMMA ContinueMoves ==
    ASSUME TypeOK, NEW c \in Calls, Continue(c)
    PROVE  UNCHANGED booking \/ OneRideMoves
<1>0. CallOK
    BY DEF TypeOK, CallOK
<1>1. CASE DeclineWrite(c) \/ DriverCancelBooking(c)
    <2>1. PICK b \in Bookings : b = call[c].b
        BY <1>1, <1>0, CallFields DEF DeclineWrite, DriverCancelBooking, At, DriverPCs
    <2>2. /\ booking'[b].status \in {"none", "request"}
          /\ \A x \in Bookings \ {b} : booking'[x] = booking[x]
        <3>1. CASE DeclineWrite(c)
            BY <2>1, <3>1 DEF DeclineWrite, TypeOK, BookingType
        <3>2. CASE DriverCancelBooking(c)
            BY <2>1, <3>2 DEF DriverCancelBooking, ReopenedByDriver, TypeOK, BookingType
        <3> QED BY <1>1, <3>1, <3>2
    <2> QED BY <2>2 DEF OneRideMoves, RideMove
<1>2. CASE AssignSave(c)
    <2>1. PICK b \in Bookings : b = call[c].b
        BY <1>2, <1>0, CallFields DEF AssignSave, At, DriverPCs
    <2>2. /\ booking'[b] = SavedByAssign(b, call[c].st, call[c].drv)
          /\ \A x \in Bookings \ {b} : booking'[x] = booking[x]
        BY <1>2, <2>1 DEF AssignSave, TypeOK
    <2>3. /\ booking'[b].status \in {booking[b].status, "request"}
          /\ booking'[b].driver \in {booking[b].driver, None}
        BY <2>1, <2>2 DEF SavedByAssign, TypeOK, BookingType
    <2> QED BY <2>2, <2>3 DEF OneRideMoves, RideMove
<1>3. CASE CustomerCancelClose(c) \/ SearchFail(c) \/ ExpireFail(c)
    <2>1. PICK b \in Bookings : b = call[c].b
        BY <1>3, <1>0, CallFields DEF CustomerCancelClose, SearchFail, ExpireFail, At, BookingPCs
    <2>2. /\ booking'[b].status \in {"cancelled", "failed"}
          /\ \A x \in Bookings \ {b} : booking'[x] = booking[x]
        BY <1>3, <2>1 DEF CustomerCancelClose, SearchFail, ExpireFail, TypeOK, BookingType
    <2> QED BY <2>2 DEF OneRideMoves, RideMove
<1>4. CASE SearchList(c)
    <2>1. PICK b \in Bookings : b = call[c].b
        BY <1>4, <1>0, CallFields DEF SearchList, At, DriverPCs
    <2>2. /\ booking'[b].status = booking[b].status /\ booking'[b].driver = booking[b].driver
          /\ \A x \in Bookings \ {b} : booking'[x] = booking[x]
        BY <1>4, <2>1 DEF SearchList, TypeOK, BookingType
    <2> QED BY <2>2 DEF OneRideMoves, RideMove
<1>5. CASE \/ AcceptDriver(c) \/ AcceptClear(c) \/ DeclineRead(c) \/ DriverCancelFree(c)
           \/ CustomerCancelOffer(c) \/ CancelRequestOffers(c) \/ CancelRequestCheck(c)
           \/ CancelRequestRelease(c) \/ CancelRefund(c) \/ DispatcherCancelOffers(c)
           \/ DispatcherCancelDriver(c) \/ AssignUnassign(c) \/ RideCompletedDriver(c)
           \/ (\E d \in Drivers : SearchPick(c, d)) \/ SearchFlag(c) \/ SearchPolled(c)
           \/ SearchSeesCancel(c) \/ SearchUnflag(c) \/ OfferFlag(c) \/ ExpireClear(c)
           \/ HandOverCheck(c) \/ HandOverWrite(c)
    <2>1. UNCHANGED booking
        BY <1>5 DEF docs, AcceptDriver, AcceptClear, DeclineRead, DriverCancelFree,
             CustomerCancelOffer, CancelRequestOffers, CancelRequestCheck,
             CancelRequestRelease, CancelRefund, DispatcherCancelOffers,
             DispatcherCancelDriver, AssignUnassign, RideCompletedDriver, SearchPick,
             SearchFlag, SearchPolled, SearchSeesCancel, SearchUnflag, OfferFlag,
             ExpireClear, HandOverCheck, HandOverWrite
    <2> QED BY <2>1
<1> QED BY <1>1, <1>2, <1>3, <1>4, <1>5 DEF Continue

\* Every step of the handlers moves one booking or none.
LEMMA NextMoves ==
    ASSUME TypeOK, NeverOngoing, [Next]_vars
    PROVE  UNCHANGED booking \/ OneRideMoves
<1>1. ASSUME \/ \E b \in Bookings, d \in Drivers : RecivedPayment(b, d)
             \/ \E d \in Drivers : FreeDrivers(d)
             \/ UNCHANGED vars
      PROVE  UNCHANGED booking
    BY <1>1 DEF RecivedPayment, FreeDrivers, vars
<1> QED BY <1>1, StartMoves, ContinueMoves DEF Next

\* However the handlers interleave, a booking is taken only when nobody holds it
\* and it is not dead, and never passes from one driver to another directly.
THEOREM RefinesLifecycle == Spec => ImplementsLifecycle
<1>1. Init => TypeOK /\ NeverOngoing /\ Lifecycle!Init
    BY DEF Init, TypeOK, NeverOngoing, NewBooking, BookingType, Statuses, FreeDriver, DriverType,
           CallType, Lifecycle!Init, Lifecycle!In, LifecycleOf, Phase, Open
<1>2. TypeOK /\ NeverOngoing /\ [Next]_vars => TypeOK' /\ NeverOngoing'
    <2> SUFFICES ASSUME TypeOK, NeverOngoing, [Next]_vars PROVE TypeOK' /\ NeverOngoing'
        OBVIOUS
    <2>1. NeverOngoing'
        BY NextMoves DEF OneRideMoves, RideMove, NeverOngoing
    <2> QED BY <2>1, NextType
<1>3. TypeOK /\ NeverOngoing /\ TypeOK' /\ NeverOngoing' /\ [Next]_vars
        => [Lifecycle!Next]_([b \in Bookings |-> LifecycleOf(booking[b])])
    <2> SUFFICES ASSUME TypeOK, NeverOngoing, TypeOK', NeverOngoing', [Next]_vars
                 PROVE  [Lifecycle!Next]_([b \in Bookings |-> LifecycleOf(booking[b])])
        OBVIOUS
    <2>1. CASE UNCHANGED booking
        BY <2>1
    <2>2. CASE OneRideMoves
        BY <2>2, RideMoves
    <2> QED BY <2>1, <2>2, NextMoves
<1> QED BY <1>1, <1>2, <1>3, PTL DEF Spec, ImplementsLifecycle, Lifecycle!Spec
=============================================================================
