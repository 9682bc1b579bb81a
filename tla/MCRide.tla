------------------------------- MODULE MCRide -------------------------------
(***************************************************************************)
(* Ride for TLC.  The first state chooses what is looked at: the wait at   *)
(* the pickup or the waits at the stops, each with two overlapping ticks   *)
(* or with one request, or two requests of a ride alone.                   *)
(***************************************************************************)
EXTENDS Ride

VARIABLE world

WorldInit ==
    \/ world \in {"pickup", "requests"} /\ Init
    \/ /\ world = "stops"
       /\ booking = [Taken EXCEPT !.status = "start_ride", !.at["reached_at_pickup"] = 0]
       /\ clock = 0 /\ requests = 0 /\ extra = 0 /\ causes = {} /\ tokens = TRUE
       /\ proc = [p \in Procs |-> Idle]

Ticking == {p \in Procs : proc[p].pc \notin {"idle", "status", "complete", "tip", "info",
                                             "update"}}
BothStops == \A s \in Stops : booking.at[s] # None

WorldNext ==
    /\ Next /\ UNCHANGED world
    /\ world # "requests" => requests' <= 1
    /\ Cardinality(Ticking') <= 1 \/ (requests' = 0 /\ ~(BothStops'))
    /\ world = "stops" => requests' = 0 \/ ~(BothStops')
    /\ world = "pickup" => \A p \in Procs : proc'[p].to \notin Stops
    /\ world = "requests" => Ticking' = {} /\ clock' = 0

WorldVars == <<vars, world>>
WorldSpec ==
    /\ WorldInit /\ [][WorldNext]_WorldVars
    /\ WF_WorldVars(Tick /\ WorldNext)
    /\ \A p \in Procs : WF_WorldVars(Run(p) /\ WorldNext)
=============================================================================
