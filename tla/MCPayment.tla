----------------------------- MODULE MCPayment -----------------------------
(***************************************************************************)
(* Payment and Pricing for TLC.  The first state chooses what is looked    *)
(* at: two bookings of the customer, each event delivered once and at most *)
(* one cancel; one booking, with events delivered twice and two cancels;   *)
(* or the price of one trip, where nothing moves.                          *)
(***************************************************************************)
EXTENDS Payment, Pricing, Functions

VARIABLES
    world,    \* what is looked at
    trip      \* the trip that is priced

Vehicle ==
    [bands |-> <<[from |-> 0, to |-> 5, price |-> 300], [from |-> 5, to |-> 0, price |-> 200]>>,
     base_fare |-> 400, wheelchair |-> 700, seat |-> 500, capsule |-> 600,
     surcharge |-> 150]
Config == [tax |-> 10, gov_levy |-> 132, airport_toll |-> 545]

Trips ==
    [request : [distance : {2, 5, 7}, wheelchairs : {0, 1}, seats : {0, 1}, capsules : {0, 2},
                far : BOOLEAN, airport_toll : BOOLEAN],
     toll : {<<<<0>>>>, <<<<250>>>>, <<<<250, 400>>, <<0, 100>>>>},
     windows : {<<>>, <<[start |-> 9, end |-> 11]>>}, time : {9, 12}, debt : {0, 200},
     coupon : {[percent |-> 10, most |-> 50], [percent |-> 20, most |-> 5000]}]
NoTrip == CHOOSE t \in Trips : TRUE

First == CHOOSE b \in Bookings : TRUE

Total(f) == FoldFunction(+, 0, f)

WorldInit ==
    /\ Init
    /\ \/ world \in {"two", "one"} /\ trip = NoTrip
       \/ world = "price" /\ trip \in Trips

WorldNext ==
    /\ world # "price" /\ Next /\ UNCHANGED <<world, trip>>
    /\ world = "two" => /\ Total(cancels') <= 1
                        /\ \A b \in Bookings, k \in Kinds : intent'[b][k].sent <= 1
    /\ world = "one" => \A b \in Bookings \ {First}, p \in Procs : proc'[p].b # b

WorldVars == <<vars, world, trip>>
WorldSpec ==
    /\ WorldInit /\ [][WorldNext]_WorldVars
    /\ \A p \in Procs : WF_WorldVars(world # "price" /\ Run(p) /\ UNCHANGED <<world, trip>>)

\* What the apps are quoted is what is charged, and tolls cover the legs.
PricesAgree ==
    world = "price" =>
    LET factor == SurchargeFactor(trip.windows, trip.time, Vehicle)
        toll == TollCharges(trip.toll)
    IN  /\ QuoteIsCharged(trip.request, Vehicle, Config, factor, toll, trip.debt, trip.coupon)
        /\ TollCoversLegs(trip.toll)
=============================================================================
