---------------------------- MODULE DriverAccount ----------------------------
(***************************************************************************)
(* The account of one driver, driver.service.ts: his vehicles, the         *)
(* requests they make to the administration, its decisions, the switches   *)
(* that keep him from driving and the lists that read them.  A request     *)
(* that awaits the database more than once runs in a slot, one action per  *)
(* write, so that the driver's requests and the administration's           *)
(* decisions interleave.                                                   *)
(***************************************************************************)
EXTENDS Naturals, FiniteSets

CONSTANTS
  Vehicles,     \* the vehicle details the driver may create
  Slots,        \* requests under way at a time
  MaxChanges,   \* bound: requests made
  None

VARIABLES
  driver,   \* his document
  garage,   \* his vehicle details
  request,  \* the requests under way
  changes,  \* requests made
  mixed,    \* two requests about vehicles or approval overlapped
  bare      \* accepted with no vehicle requested or active

vars == <<driver, garage, request, changes, mixed, bare>>

Papers == {"insurance", "registration"}
NoVehicle == [status |-> "none", details |-> FALSE, dates |-> [x \in Papers |-> "none"]]
Quiet == [pc |-> "idle", vehicle |-> None, was |-> FALSE, due |-> None]

Owned == {v \in Vehicles : garage[v].status # "none"}
With(status) == {v \in Vehicles : garage[v].status = status}
Status(v, s) == garage' = [garage EXCEPT ![v].status = s]

\* updateMany on the other vehicles of the driver
OthersOff(v) == garage' = [w \in Vehicles |->
  IF w \in Owned \ {v} THEN [garage[w] EXCEPT !.status = "deactivate"] ELSE garage[w]]

Count == changes < MaxChanges /\ changes' = changes + 1
Busy == \E r \in Slots : request[r].pc \notin {"idle", "dates"}
Begin(r) == request[r].pc = "idle" /\ Count /\ mixed' = (mixed \/ Busy)
Step(r, pc) == request[r].pc = pc
Goto(r, pc) == request' = [request EXCEPT ![r].pc = pc]
End(r) == request' = [request EXCEPT ![r] = Quiet]

\* approval is asked for: the driver waits offline
Ask(d, update) == [d EXCEPT !.approved = None, !.update = update, !.online = FALSE]

---------------------------------------------------------------------------
(* Requests of the driver.                                                 *)

\* set_vehicle_details: the driver is read ...
AddVehicle(r, v) ==
  /\ v \notin Owned
  /\ \A s \in Slots : request[s].vehicle # v
  /\ Begin(r)
  /\ request' = [request EXCEPT ![r] = [Quiet EXCEPT !.pc = "add", !.vehicle = v,
                                          !.was = (driver.approved = TRUE)]]
  /\ UNCHANGED <<driver, garage, bare>>

\* ... his vehicles are put out of use ...
AddOthers(r) ==
  /\ Step(r, "add")
  /\ OthersOff(None)
  /\ Goto(r, "create")
  /\ UNCHANGED <<driver, changes, mixed, bare>>

\* ... the new one is created ...
AddCreate(r) ==
  /\ Step(r, "create")
  /\ Status(request[r].vehicle, "requested")
  /\ Goto(r, "added")
  /\ UNCHANGED <<driver, changes, mixed, bare>>

\* ... and approval is asked for, as an update if he was approved when he was read
AddDriver(r) ==
  /\ Step(r, "added")
  /\ driver' = [Ask(driver, request[r].was) EXCEPT !.set_up = @ \cup {"vehicle", "documents"}]
  /\ End(r)
  /\ UNCHANGED <<garage, changes, mixed, bare>>

\* edit_vehicle_details: the other vehicles are put out of use ...
EditVehicle(r, v) ==
  /\ v \in Owned
  /\ Begin(r)
  /\ OthersOff(v)
  /\ request' = [request EXCEPT ![r] = [Quiet EXCEPT !.pc = "edit", !.vehicle = v]]
  /\ UNCHANGED <<driver, bare>>

\* ... this one is requested ...
EditRequest(r) ==
  /\ Step(r, "edit")
  /\ Status(request[r].vehicle, "requested")
  /\ Goto(r, "edited")
  /\ UNCHANGED <<driver, changes, mixed, bare>>

\* ... and approval is asked for
EditDriver(r) ==
  /\ Step(r, "edited")
  /\ driver' = Ask(driver, TRUE)
  /\ End(r)
  /\ UNCHANGED <<garage, changes, mixed, bare>>

\* MakeVehicleActive: the driver is read ...
MakeActive(r, v) ==
  /\ v \in Owned
  /\ Begin(r)
  /\ request' = [request EXCEPT ![r] = [Quiet EXCEPT !.pc = "make", !.vehicle = v,
                                          !.due = driver.doc_expiry_type]]
  /\ UNCHANGED <<driver, garage, bare>>

MakeRequest(r) ==
  /\ Step(r, "make")
  /\ Status(request[r].vehicle, "requested")
  /\ Goto(r, "made")
  /\ UNCHANGED <<driver, changes, mixed, bare>>

MakeOthers(r) ==
  /\ Step(r, "made")
  /\ OthersOff(request[r].vehicle)
  /\ Goto(r, "ask")
  /\ UNCHANGED <<driver, changes, mixed, bare>>

\* ... and approval is asked for; another vehicle's papers no longer matter
MakeDriver(r) ==
  /\ Step(r, "ask")
  /\ driver' = [Ask(driver, TRUE) EXCEPT !.doc_expiry_type =
                  CASE request[r].due = "docs_expired" -> "licence_expired"
                    [] request[r].due = "vehicle_docs_expired" -> None
                    [] OTHER -> @]
  /\ End(r)
  /\ UNCHANGED <<garage, changes, mixed, bare>>

\* edit_licence: the driver stays online
EditLicence(r) ==
  /\ Begin(r)
  /\ driver' = [driver EXCEPT !.approved = None, !.update = TRUE]
  /\ UNCHANGED <<garage, request, bare>>

\* set_document_details: the first documents of a vehicle
SetDocuments(v) ==
  /\ v \in Owned /\ ~garage[v].details
  /\ Count
  /\ garage' = [garage EXCEPT ![v].details = TRUE]
  /\ driver' = [driver EXCEPT !.set_up = @ \cup {"documents"}]
  /\ UNCHANGED <<request, mixed, bare>>

\* go_online: what has expired keeps him offline; nothing ever sets pending_submit_cash
GoOnline(to) ==
  /\ driver.online # to
  /\ to => driver.doc_expiry_type = None
  /\ Count
  /\ driver' = [driver EXCEPT !.online = to]
  /\ UNCHANGED <<garage, request, mixed, bare>>

---------------------------------------------------------------------------
(* Decisions and switches of the administration.                           *)

\* UpdateDriverRequests, accept: refused when the licence has run out
Accept(r) ==
  /\ driver.licence # "past"
  /\ Begin(r)
  /\ bare' = (With("requested") \cup With("active") = {})
  /\ request' = [request EXCEPT ![r] = [Quiet EXCEPT !.pc = "accept"]]
  /\ UNCHANGED <<driver, garage>>

\* updateOne: a requested vehicle, if there is one, becomes s
TakeRequested(s) ==
  IF With("requested") = {} THEN UNCHANGED garage
  ELSE \E v \in With("requested") : Status(v, s)

\* Mutant: the vehicle that was asked for stays requested
AcceptVehicleForgotten(r) ==
  /\ Step(r, "accept")
  /\ Goto(r, "expiry")
  /\ UNCHANGED <<driver, garage, changes, mixed, bare>>

AcceptVehicle(r) ==
  /\ Step(r, "accept")
  /\ TakeRequested("active")
  /\ Goto(r, "expiry")
  /\ UNCHANGED <<driver, changes, mixed, bare>>

AcceptExpiry(r) ==
  /\ Step(r, "expiry")
  /\ driver' = [driver EXCEPT !.doc_expiry_type = None]
  /\ Goto(r, "accepted")
  /\ UNCHANGED <<garage, changes, mixed, bare>>

AcceptDriver(r) ==
  /\ Step(r, "accepted")
  /\ driver' = [driver EXCEPT !.approved = TRUE, !.update = FALSE, !.active = TRUE]
  /\ End(r)
  /\ UNCHANGED <<garage, changes, mixed, bare>>

\* UpdateDriverRequests, decline: the vehicle is put out of use before a missing
\* reason is refused
Decline(r, reason) ==
  /\ Begin(r)
  /\ TakeRequested("deactive")
  /\ IF reason THEN request' = [request EXCEPT ![r] = [Quiet EXCEPT !.pc = "decline"]]
     ELSE UNCHANGED request
  /\ UNCHANGED <<driver, bare>>

DeclineExpiry(r) ==
  /\ Step(r, "decline")
  /\ driver' = [driver EXCEPT !.doc_expiry_type = None]
  /\ Goto(r, "declined")
  /\ UNCHANGED <<garage, changes, mixed, bare>>

DeclineDriver(r) ==
  /\ Step(r, "declined")
  /\ driver' = [driver EXCEPT !.approved = FALSE, !.update = FALSE]
  /\ End(r)
  /\ UNCHANGED <<garage, changes, mixed, bare>>

\* update_driver_active_deactive
SwitchActive(to) ==
  /\ driver.active # to
  /\ Count
  /\ driver' = [driver EXCEPT !.active = to]
  /\ UNCHANGED <<garage, request, mixed, bare>>

\* SetExpiryDate: the dates of a vehicle ...
SetExpiryDate(r, v) ==
  /\ v \in Owned /\ request[r].pc = "idle" /\ Count
  /\ garage' = [garage EXCEPT ![v].dates = [x \in Papers |-> "valid"]]
  /\ Goto(r, "dates")
  /\ UNCHANGED <<driver, mixed, bare>>

\* ... and of the licence
SetLicenceDate(r) ==
  /\ Step(r, "dates")
  /\ driver' = [driver EXCEPT !.licence = "valid"]
  /\ End(r)
  /\ UNCHANGED <<garage, changes, mixed, bare>>

\* time: what was valid has expired
DatesPass ==
  /\ driver.licence = "valid"
  /\ driver' = [driver EXCEPT !.licence = "past"]
  /\ garage' = [v \in Vehicles |-> [garage[v] EXCEPT !.dates =
                  [x \in Papers |-> IF @[x] = "valid" THEN "past" ELSE @[x]]]]
  /\ UNCHANGED <<request, changes, mixed, bare>>

ExpiryType(gone) ==
  CASE gone = {"licence", "insurance", "registration"} -> "docs_expired"
    [] gone = {"insurance", "registration"} -> "vehicle_docs_expired"
    [] gone = {"licence", "insurance"} -> "licence_insurance_expired"
    [] gone = {"licence", "registration"} -> "licence_registration_expired"
    [] gone = {"insurance"} -> "insurance_expired"
    [] gone = {"registration"} -> "registration_expired"
    [] gone = {"licence"} -> "licence_expired"

\* what has expired when driver and vehicle are read; a date that is null has
Gone(v) == {x \in Papers : v # None /\ garage[v].dates[x] # "valid"}
             \cup {x \in {"licence"} : driver.licence # "valid"}

\* check_Expiry_date, every midnight: it asks for a driver who is approved and has an
\* update waiting
CheckExpiry ==
  /\ Count
  /\ LET v == IF With("active") = {} THEN None ELSE CHOOSE w \in With("active") : TRUE
         gone == Gone(v)
     IN  IF driver.active /\ driver.approved = TRUE /\ driver.update /\ gone # {}
         THEN /\ driver' = [driver EXCEPT !.active = FALSE, !.approved = FALSE,
                              !.online = FALSE, !.doc_expiry_type = ExpiryType(gone),
                              !.licence = IF "licence" \in gone THEN "none" ELSE @]
              /\ garage' = [w \in Vehicles |-> IF w # v THEN garage[w] ELSE
                              [garage[w] EXCEPT !.dates =
                                [x \in Papers |-> IF x \in gone THEN "none" ELSE @[x]]]]
         ELSE UNCHANGED <<driver, garage>>
  /\ UNCHANGED <<request, mixed, bare>>

---------------------------------------------------------------------------
(* The lists that read the document.  Each is the condition on the account *)
(* that its query makes; where the driver is and what he drives is left    *)
(* out.                                                                    *)

Set_up == {"profile", "vehicle", "documents"}

\* _driverRequestmatch, _UpdatedDocsRequestmatch and _driverRequestRejectmatch: the
\* requests the administration is shown
PendingList == driver.approved = None /\ driver.set_up = Set_up /\ ~driver.update
UpdatedList == driver.approved = None /\ driver.update
RejectedList == driver.active /\ driver.approved = FALSE /\ driver.set_up = Set_up

\* dashboard: an update that waits is counted, a driver who is working
UpdatesCounted == driver.approved = None /\ driver.update
WorkingCounted == driver.approved = TRUE /\ driver.online

Cleared == driver.active /\ driver.approved = TRUE

\* the customer's map, the quote of a ride and the dispatcher's lists of drivers
NearMe == driver.online /\ Cleared
QuoteVehicles == IF driver.online /\ Cleared THEN With("active") ELSE {}
AvailableNow == driver.online /\ Cleared
ForBooking == Cleared /\ With("active") # {}
ForDispatcher == Cleared /\ driver.doc_expiry_type = None
Assignable == Cleared /\ driver.doc_expiry_type = None
ForChat == Cleared /\ driver.doc_expiry_type = None

Offered == NearMe \/ QuoteVehicles # {} \/ AvailableNow \/ ForBooking
             \/ ForDispatcher \/ Assignable \/ ForChat

---------------------------------------------------------------------------
Init ==
  /\ driver = [approved |-> None, update |-> FALSE, active |-> TRUE, online |-> FALSE,
               set_up |-> {"profile"}, doc_expiry_type |-> None, licence |-> "none"]
  /\ garage = [v \in Vehicles |-> NoVehicle]
  /\ request = [r \in Slots |-> Quiet]
  /\ changes = 0 /\ mixed = FALSE /\ bare = FALSE

DriverStep(r) ==
  \/ \E v \in Vehicles : AddVehicle(r, v) \/ EditVehicle(r, v) \/ MakeActive(r, v)
  \/ AddOthers(r) \/ AddCreate(r) \/ AddDriver(r) \/ EditRequest(r) \/ EditDriver(r)
  \/ MakeRequest(r) \/ MakeOthers(r) \/ MakeDriver(r) \/ EditLicence(r)

DecisionStep(r) ==
  \/ Accept(r) \/ AcceptVehicle(r) \/ AcceptExpiry(r) \/ AcceptDriver(r)
  \/ \E reason \in BOOLEAN : Decline(r, reason)
  \/ DeclineExpiry(r) \/ DeclineDriver(r)
  \/ \E v \in Vehicles : SetExpiryDate(r, v)
  \/ SetLicenceDate(r)

Next ==
  \/ \E r \in Slots : DriverStep(r) \/ DecisionStep(r)
  \/ \E v \in Vehicles : SetDocuments(v)
  \/ \E to \in BOOLEAN : GoOnline(to) \/ SwitchActive(to)
  \/ DatesPass \/ CheckExpiry

---------------------------------------------------------------------------
Expiries == {"docs_expired", "vehicle_docs_expired", "licence_insurance_expired",
             "licence_registration_expired", "insurance_expired",
             "registration_expired", "licence_expired"}
Dates == {"none", "valid", "past"}

\* The document, the vehicles and the requests have their types.
TypeOK ==
  /\ driver \in [approved : BOOLEAN \cup {None}, update : BOOLEAN, active : BOOLEAN,
                 online : BOOLEAN, set_up : SUBSET Set_up,
                 doc_expiry_type : Expiries \cup {None}, licence : Dates]
  /\ garage \in [Vehicles ->
       [status : {"none", "requested", "active", "deactivate", "deactive"},
        details : BOOLEAN, dates : [Papers -> Dates]]]
  /\ request \in [Slots ->
       [pc : {"idle", "add", "create", "added", "edit", "edited", "make", "made", "ask",
              "accept", "expiry", "accepted", "decline", "declined", "dates"},
        vehicle : Vehicles \cup {None}, was : BOOLEAN, due : Expiries \cup {None}]]
  /\ changes \in 0 .. MaxChanges /\ mixed \in BOOLEAN /\ bare \in BOOLEAN

\* Who may be offered a ride has one vehicle in use and nothing that waits for a
\* decision, once his requests and the decisions on them have not overlapped and he was
\* not accepted without a vehicle (after a decline has put it out of use).
OfferedDrives ==
  Offered /\ ~mixed /\ ~Busy /\ ~bare
    => /\ Cardinality(With("active")) = 1
       /\ With("requested") = {}
       /\ ~driver.update

\* A vehicle that waits for a decision is in one of the lists of requests.
RequestIsSeen ==
  With("requested") # {} /\ ~mixed /\ ~Busy
    => (PendingList \/ UpdatedList) /\ Cardinality(With("requested")) = 1

ApprovedDrives == OfferedDrives /\ RequestIsSeen
=============================================================================
