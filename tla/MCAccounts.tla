----------------------------- MODULE MCAccounts -----------------------------
(***************************************************************************)
(* Accounts and sessions, a driver's account, chats and their messages,    *)
(* offers, the bookings of dispatchers and of the web site, reviews and    *)
(* records for TLC.  They do not share state here, so the first state      *)
(* chooses which of them moves.                                            *)
(***************************************************************************)
EXTENDS Naturals, FiniteSets, Sequences, TLC

CONSTANTS
    Users, Devices, Phones, Emails, Corporate, MaxRequests,
    Vehicles, Slots, MaxChanges,
    Driver, Customer, Staff, Connections, Threads, MaxEvents,
    Coupons, Codes, Customers, Periods, Vehicle_types, Desks, MaxOffers, LastHour,
    Orders, Guests, Numbers, Quotes, Forms, MaxForms, LastSlot,
    Rides, Rates, Ids, Keys, Capitals, Dials, Taken, Clerks, MaxCalls,
    Other, Messages, Tasks, MaxSocketEvents,
    None

VARIABLES
    scope, account, sessions, job, token, block, asked, contested, doubled, late,
    driver, garage, request, changes, mixed, bare,
    connection, support, attached, thread, events, orphaned, twice,
    coupon, shown, pricing, period, desk, hour, made, seen, blind, raced, edited,
    order, guest, form, filed, now, last, told, altered, crossed,
    reviews, rated, rating, record, card_added, clerk, calls, counted, overtaken, raced_r,
    edited_r,
    kind, message, socket, alive, looking, seen_m, task, emitted, missed, closed,
    world

ASSUME SessionAssumption ==
    Users \subseteq Nat /\ None \notin Nat \cup Phones \cup Emails /\ MaxRequests \in Nat
ASSUME MessagesAssumption ==
    Driver # Other /\ None \notin {Driver, Other} /\ MaxSocketEvents \in Nat
ASSUME DriverAssumption == None \notin BOOLEAN \cup Vehicles /\ MaxChanges \in Nat
ASSUME ChatAssumption ==
    /\ Driver # Customer /\ Staff \cap {Driver, Customer} = {}
    /\ None \notin Staff \cup {Driver, Customer} \cup Connections
    /\ Connections \subseteq Nat /\ MaxEvents \in Nat
ASSUME OrdersAssumption ==
    /\ Orders \cup Guests \cup Quotes \subseteq Nat /\ None \notin Nat \cup Numbers
    /\ IsFiniteSet(Orders) /\ MaxForms \in Nat /\ LastSlot \in Nat
ASSUME OffersAssumption ==
    Coupons \cup Periods \subseteq Nat /\ LastHour \in Nat /\ MaxOffers \in Nat
ASSUME RecordsAssumption ==
    /\ Keys \cap Dials = {} /\ None \notin Keys \cup Dials /\ MaxCalls \in Nat
    /\ Rates \subseteq Nat
    /\ None \notin {"driver", "customer", "company", "complaint", "card", "vehicle", "address"}

S == INSTANCE Session
D == INSTANCE DriverAccount
C == INSTANCE Chat
O == INSTANCE Offers
B == INSTANCE Orders
R == INSTANCE Records WITH raced <- raced_r, edited <- edited_r
M == INSTANCE Messages WITH seen <- seen_m

Worlds == {"sessions", "driver", "chat", "coupons", "surcharges", "dispatcher", "web",
           "reviews", "registry", "messages"}

WorldInit ==
    /\ S!Init /\ D!Init /\ C!Init /\ O!Init /\ B!Init /\ R!Init /\ M!Init
    /\ world \in Worlds
    /\ scope = "driver" => world = "sessions"
    /\ kind # "ride" => world = "messages"

StillSession ==
    UNCHANGED <<scope, account, sessions, job, token, block, asked, contested, doubled, late>>
StillDriver == UNCHANGED <<driver, garage, request, changes, mixed, bare>>
StillChat ==
    UNCHANGED <<connection, support, attached, thread, events, orphaned, twice>>
StillOffers ==
    UNCHANGED <<coupon, shown, pricing, period, desk, hour, made, seen, blind, raced, edited>>
StillOrders ==
    UNCHANGED <<order, guest, form, filed, now, last, told, altered, crossed>>
StillRecords ==
    UNCHANGED <<reviews, rated, rating, record, card_added, clerk, calls, counted,
                overtaken, raced_r, edited_r>>
StillMessages ==
    UNCHANGED <<kind, message, socket, alive, looking, seen_m, task, emitted, missed, closed>>

\* a dispatcher takes one booking and edits it; the web site takes them all; coupons need
\* no day to end
WorldNext ==
    /\ UNCHANGED world
    /\ \/ /\ world = "sessions" /\ S!Next
          /\ StillDriver /\ StillChat /\ StillOffers /\ StillOrders /\ StillRecords
          /\ StillMessages
       \/ /\ world = "driver" /\ D!Next
          /\ StillSession /\ StillChat /\ StillOffers /\ StillOrders /\ StillRecords
          /\ StillMessages
       \/ /\ world = "chat" /\ C!Next
          /\ StillSession /\ StillDriver /\ StillOffers /\ StillOrders /\ StillRecords
          /\ StillMessages
       \/ /\ world = "coupons" /\ (O!CouponStep \/ O!TimePasses)
          /\ hour' <= 1
          /\ StillSession /\ StillDriver /\ StillChat /\ StillOrders /\ StillRecords
          /\ StillMessages
       \/ /\ world = "surcharges" /\ (O!PeriodStep \/ O!TimePasses)
          /\ StillSession /\ StillDriver /\ StillChat /\ StillOrders /\ StillRecords
          /\ StillMessages
       \/ /\ world = "dispatcher" /\ (B!DispatcherStep \/ B!BookStep)
          /\ Cardinality(B!Booked') <= 1
          /\ StillSession /\ StillDriver /\ StillChat /\ StillOffers /\ StillRecords
          /\ StillMessages
       \/ /\ world = "web" /\ (B!WebStep \/ B!BookStep \/ B!HourPasses)
          /\ StillSession /\ StillDriver /\ StillChat /\ StillOffers /\ StillRecords
          /\ StillMessages
       \/ /\ world = "reviews" /\ R!ReviewStep
          /\ StillSession /\ StillDriver /\ StillChat /\ StillOffers /\ StillOrders
          /\ StillMessages
       \/ /\ world = "registry" /\ R!RegistryStep
          /\ StillSession /\ StillDriver /\ StillChat /\ StillOffers /\ StillOrders
          /\ StillMessages
       \/ /\ world = "messages" /\ M!Next
          /\ StillSession /\ StillDriver /\ StillChat /\ StillOffers /\ StillOrders
          /\ StillRecords

WorldVars ==
    <<S!vars, D!vars, C!vars, O!vars, B!vars, R!vars, M!vars, world>>

WorldSpec == WorldInit /\ [][WorldNext]_WorldVars

\* devices, handlers and requests under way are named alike
Symmetry == Permutations(Devices \cup Slots \cup Threads \cup Desks \cup Forms \cup Clerks
                             \cup Tasks)

\* The types of the one that moves; the others are in their first state.
AccountsTypeOK ==
    CASE world = "sessions" -> S!TypeOK
      [] world = "driver" -> D!TypeOK
      [] world = "chat" -> C!TypeOK
      [] world \in {"coupons", "surcharges"} -> O!TypeOK
      [] world \in {"dispatcher", "web"} -> B!TypeOK
      [] world \in {"reviews", "registry"} -> R!TypeOK
      [] world = "messages" -> M!TypeOK

\* Session: one account for a phone or an e-mail.
OneAccount == S!OneAccount
\* Session: one device at a time, and none for who is blocked.
SessionsHold == S!SessionsHold
\* DriverAccount: who may be offered a ride has one approved vehicle.
ApprovedDrives == D!ApprovedDrives
\* Chat: references to chats are to open ones, and a booking has one.
ChatsHold == C!LinksAreOpen /\ C!OneRoom
\* Offers: one-time coupons and surcharge periods.
OffersHold == O!OffersHold
\* Orders: the books of dispatchers' and web bookings.
OrdersHold == B!OrdersHold
\* Records: ratings, and what is looked for before it is created.
RecordsHold == R!RecordsHold
\* Messages: what is marked as read has been sent, and who looks has all of it.
MessagesHold == M!MessagesHold
=============================================================================
