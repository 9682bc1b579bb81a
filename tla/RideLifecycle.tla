--------------------------- MODULE RideLifecycle ---------------------------
(***************************************************************************)
(* What the booking document promises about who drives it, with no handler *)
(* in sight.  A ride is open, held by one driver, completed, or dead       *)
(* (cancelled or failed).  Only a ride nobody holds can be taken; a held   *)
(* ride never passes from one driver to another directly; and a dead ride  *)
(* has to be reopened before anybody can take it.                          *)
(***************************************************************************)
CONSTANTS Bookings, Drivers, None

VARIABLE ride   \* Bookings -> phase, and the driver who holds it

Phases == {"open", "held", "completed", "dead"}

RideType == [phase : Phases, by : Drivers \cup {None}]

In(phase) == [phase |-> phase, by |-> None]

Init == ride = [b \in Bookings |-> In("open")]

\* A completed ride that lost its driver can still be taken: the accept
\* excludes accepted, cancelled and failed bookings only.
Take(b, d) ==
    /\ ride[b].phase \in {"open", "completed"}
    /\ ride' = [ride EXCEPT ![b] = [phase |-> "held", by |-> d]]

Release(b) ==
    /\ ride[b].phase = "held"
    /\ ride' = [ride EXCEPT ![b] = In("open")]

\* The driver is removed and the ride stays held: a dispatcher's late save.
Orphan(b) ==
    /\ ride[b].phase = "held"
    /\ ride' = [ride EXCEPT ![b] = In("held")]

Finish(b) == ride' = [ride EXCEPT ![b] = In("completed")]

Kill(b) == ride' = [ride EXCEPT ![b] = In("dead")]

\* Stale writes reopen a ride whatever became of it meanwhile.
Reopen(b) ==
    /\ ride[b].phase \in {"completed", "dead"}
    /\ ride' = [ride EXCEPT ![b] = In("open")]

Next == \E b \in Bookings :
    \/ \E d \in Drivers : Take(b, d)
    \/ Release(b) \/ Orphan(b) \/ Finish(b) \/ Kill(b) \/ Reopen(b)

Spec == Init /\ [][Next]_ride
=============================================================================
