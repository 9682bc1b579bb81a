------------------------------- MODULE Offers -------------------------------
(***************************************************************************)
(* Coupons and surcharge periods: coupon.service.ts, surcharge.service.ts  *)
(* and the coupon part of booking.service.ts.  The administration's        *)
(* requests that read before they write run in slots, one action per       *)
(* database call; a customer holds the coupons he has been shown and       *)
(* prices a booking with one of them, or with one he names without having  *)
(* been shown it.  Amounts are left out (Pricing has the price); the day   *)
(* has two half days.                                                      *)
(***************************************************************************)
EXTENDS Naturals, FiniteSets, Sequences

CONSTANTS
  Coupons,     \* the coupons that may be created, in order
  Codes,       \* their codes
  Customers,
  Periods,     \* the surcharge records that may be created, in order
  Vehicle_types,
  Desks,       \* requests of the administration under way at a time
  MaxOffers,   \* bound: requests made
  LastHour,    \* bound: half days that pass
  None

VARIABLES
  coupon,   \* the coupons collection
  shown,    \* coupons each customer's app holds
  pricing,  \* the booking each customer is making
  period,   \* the surcharge dates
  desk,     \* the administration's requests
  hour,     \* half days passed
  made,     \* requests made
  seen,     \* who had been shown a coupon when it was first used
  blind,    \* customers with the coupons they named without having been shown them
  raced,    \* codes, dates and vehicles two creates of which overlapped
  edited    \* coupons and periods edited

vars == <<coupon, shown, pricing, period, desk, hour, made, seen, blind, raced, edited>>

Day(h) == h \div 2
Kinds == {"one-time", "in-app"}
Spans == {s \in (0 .. 1) \X (1 .. 2) : s[1] < s[2]}

NoCoupon == [status |-> "none", code |-> None, type |-> "in-app", expired |-> FALSE,
             used_by |-> <<>>]
NoPeriod == [live |-> FALSE, used |-> FALSE, type |-> "date_time", date |-> 0,
             span |-> <<0, 1>>, vehicle |-> None]
Quiet == [pc |-> "idle", new |-> NoPeriod, code |-> None, type |-> "in-app", left |-> {}]

LiveCoupons == {c \in Coupons : coupon[c].status \in {"active", "deactive"}}
LivePeriods == {p \in Periods : period[p].live}
Least(S) == CHOOSE x \in S : \A y \in S : x <= y

Ask == made < MaxOffers /\ made' = made + 1
Start(a) == desk[a].pc = "idle" /\ Ask
Turn(a, j) == desk' = [desk EXCEPT ![a] = j]

---------------------------------------------------------------------------
(* Coupons, as the administration keeps them.                              *)

\* create: a code that is taken is refused ...
CreateCoupon(a, code, type) ==
  /\ Start(a)
  /\ IF \E c \in LiveCoupons : coupon[c].code = code
     THEN UNCHANGED <<desk, raced>>
     ELSE /\ Turn(a, [Quiet EXCEPT !.pc = "coupon", !.code = code, !.type = type])
          /\ raced' = IF \E b \in Desks : desk[b].pc = "coupon" /\ desk[b].code = code
                      THEN raced \cup {code} ELSE raced
  /\ UNCHANGED <<coupon, shown, pricing, period, hour, seen, blind, edited>>

\* ... and a free one is stored
StoreCoupon(a) ==
  /\ desk[a].pc = "coupon"
  /\ \E c \in Coupons : coupon[c].status = "none"
  /\ coupon' = [coupon EXCEPT ![Least({c \in Coupons : coupon[c].status = "none"})] =
                  [NoCoupon EXCEPT !.status = "active", !.code = desk[a].code,
                                   !.type = desk[a].type]]
  /\ Turn(a, Quiet)
  /\ UNCHANGED <<shown, pricing, period, hour, made, seen, blind, raced, edited>>

\* update: the code, which is not looked for, the type and the validity; the status stays
\* what it is
EditCoupon(c, type, code) ==
  /\ c \in LiveCoupons
  /\ Ask
  /\ coupon' = [coupon EXCEPT ![c].code = code, ![c].type = type, ![c].expired = FALSE]
  /\ edited' = edited \cup {c}
  /\ UNCHANGED <<shown, pricing, period, desk, hour, seen, blind, raced>>

RemoveCoupon(c) ==
  /\ c \in LiveCoupons
  /\ Ask
  /\ coupon' = [coupon EXCEPT ![c].status = "removed"]
  /\ UNCHANGED <<shown, pricing, period, desk, hour, seen, blind, raced, edited>>

\* update_status
SwitchCoupon(c) ==
  /\ c \in LiveCoupons
  /\ Ask
  /\ coupon' = [coupon EXCEPT ![c].status = IF @ = "active" THEN "deactive" ELSE "active"]
  /\ UNCHANGED <<shown, pricing, period, desk, hour, seen, blind, raced, edited>>

\* findAll reads every coupon first ...
ListCoupons(a) ==
  /\ Start(a)
  /\ Turn(a, [Quiet EXCEPT !.pc = "lapse", !.left = {c \in LiveCoupons : coupon[c].expired}])
  /\ UNCHANGED <<coupon, shown, pricing, period, hour, seen, blind, raced, edited>>

\* ... and takes those it saw expired out of use, one by one, before it lists
LapseCoupon(a) ==
  /\ desk[a].pc = "lapse"
  /\ IF desk[a].left = {}
     THEN Turn(a, Quiet) /\ UNCHANGED coupon
     ELSE LET c == Least(desk[a].left)
          IN  /\ coupon' = IF c \in LiveCoupons THEN [coupon EXCEPT ![c].status = "deactive"]
                           ELSE coupon
              /\ Turn(a, [desk[a] EXCEPT !.left = @ \ {c}])
  /\ UNCHANGED <<shown, pricing, period, hour, made, seen, blind, raced, edited>>

\* Mutant: used coupons stay in the tab of those to share
SharedAny == {c \in LiveCoupons : coupon[c].type = "one-time"}

\* the tabs of the list: which of them a coupon is in
AvailableInPhone == {c \in LiveCoupons : coupon[c].type = "in-app"}
Shared == {c \in LiveCoupons : coupon[c].type = "one-time" /\ coupon[c].used_by = <<>>}
SharedUsed == {c \in LiveCoupons : coupon[c].type = "one-time" /\ coupon[c].used_by # <<>>}

---------------------------------------------------------------------------
(* Coupons, as customers use them.                                         *)

Show(u, c) == shown' = [shown EXCEPT ![u] = @ \cup {c}]

\* available_coupons: those of the app that are in use and not expired.  Which of them
\* the amount of the booking is enough for is left open.
Available_coupons(u, c) ==
  /\ coupon[c].status = "active" /\ coupon[c].type = "in-app" /\ ~coupon[c].expired
  /\ Ask
  /\ Show(u, c)
  /\ UNCHANGED <<coupon, pricing, period, desk, hour, seen, blind, raced, edited>>

\* ApplyPromoCode: a one-time coupon nobody has used, expired or not
ApplyPromoCode(u, code) ==
  /\ Ask
  /\ LET found == {c \in LiveCoupons : /\ coupon[c].code = code
                                       /\ coupon[c].type = "one-time"
                                       /\ coupon[c].used_by = <<>>}
     IN  /\ found # {}
         /\ coupon[Least(found)].status = "active"
         /\ Show(u, Least(found))
  /\ UNCHANGED <<coupon, pricing, period, desk, hour, seen, blind, raced, edited>>

\* calculate_coupon_discount, while a booking is priced, or priced again by update, finds
\* the coupon the request names, whatever its status and whoever was shown it.  Of one that
\* was removed it reads the type of nothing and throws.
CalculateDiscount(u, c) ==
  /\ coupon[c].status # "none"
  /\ pricing[u] = None
  /\ Ask
  /\ IF c \in LiveCoupons /\ coupon[c].type = "one-time"
     THEN /\ pricing' = [pricing EXCEPT ![u] = c]
          /\ blind' = IF c \in shown[u] THEN blind ELSE blind \cup {<<u, c>>}
     ELSE UNCHANGED <<pricing, blind>>
  /\ UNCHANGED <<coupon, shown, period, desk, hour, seen, raced, edited>>

\* A one-time coupon remembers who used it, if it still exists
PushUsedBy(u) ==
  /\ pricing[u] # None
  /\ LET c == pricing[u]
     IN  IF c \in LiveCoupons
         THEN /\ coupon' = [coupon EXCEPT ![c].used_by = Append(@, u)]
              /\ seen' = IF coupon[c].used_by = <<>>
                         THEN [seen EXCEPT ![c] = {x \in Customers : c \in shown[x]}] ELSE seen
         ELSE UNCHANGED <<coupon, seen>>
  /\ pricing' = [pricing EXCEPT ![u] = None]
  /\ UNCHANGED <<shown, period, desk, hour, made, blind, raced, edited>>

---------------------------------------------------------------------------
(* Surcharge dates.                                                        *)

Overlap(s, t) == s[1] < t[2] /\ t[1] < s[2]

\* the records create looks for before it stores a new one
Clashes(new) ==
  {p \in LivePeriods :
     /\ period[p].type = new.type
     /\ IF new.type = "date_time"
        THEN period[p].date = new.date /\ Overlap(period[p].span, new.span)
        ELSE period[p].vehicle = new.vehicle}

\* what two creates may both find free
Subject(new) == IF new.type = "date_time" THEN new.date ELSE new.vehicle

\* Mutant: a period is refused when it lies inside another one only
CreatePeriodInside(a, new) ==
  /\ Start(a)
  /\ IF \E p \in Clashes(new) : \/ new.type # "date_time"
                                \/ /\ period[p].span[1] < new.span[1]
                                   /\ new.span[2] < period[p].span[2]
     THEN UNCHANGED <<desk, raced>>
     ELSE /\ Turn(a, [Quiet EXCEPT !.pc = "period", !.new = new])
          /\ raced' = IF \E b \in Desks : /\ desk[b].pc = "period"
                                          /\ Subject(desk[b].new) = Subject(new)
                      THEN raced \cup {Subject(new)} ELSE raced
  /\ UNCHANGED <<coupon, shown, pricing, period, hour, seen, blind, edited>>

\* create: a period that overlaps one of the same date, or a second record of a vehicle
\* type, is refused ...
CreatePeriod(a, new) ==
  /\ Start(a)
  /\ IF Clashes(new) # {}
     THEN UNCHANGED <<desk, raced>>
     ELSE /\ Turn(a, [Quiet EXCEPT !.pc = "period", !.new = new])
          /\ raced' = IF \E b \in Desks : /\ desk[b].pc = "period"
                                          /\ Subject(desk[b].new) = Subject(new)
                      THEN raced \cup {Subject(new)} ELSE raced
  /\ UNCHANGED <<coupon, shown, pricing, period, hour, seen, blind, edited>>

\* ... and any other is stored
StorePeriod(a) ==
  /\ desk[a].pc = "period"
  /\ \E p \in Periods : ~period[p].used
  /\ period' = [period EXCEPT ![Least({p \in Periods : ~period[p].used})] =
                  [desk[a].new EXCEPT !.live = TRUE, !.used = TRUE]]
  /\ Turn(a, Quiet)
  /\ UNCHANGED <<coupon, shown, pricing, hour, made, seen, blind, raced, edited>>

\* update: nothing is looked for
EditPeriod(p, new) ==
  /\ p \in LivePeriods /\ period[p].type = new.type
  /\ Ask
  /\ period' = [period EXCEPT ![p] = [new EXCEPT !.live = TRUE, !.used = TRUE]]
  /\ edited' = edited \cup {p}
  /\ UNCHANGED <<coupon, shown, pricing, desk, hour, seen, blind, raced>>

RemovePeriod(p) ==
  /\ p \in LivePeriods
  /\ Ask
  /\ period' = [period EXCEPT ![p] = [NoPeriod EXCEPT !.used = TRUE]]
  /\ UNCHANGED <<coupon, shown, pricing, desk, hour, seen, blind, raced, edited>>

\* a dated record whose day or whose end has passed
Past(p) == /\ period[p].type = "date_time"
           /\ \/ period[p].date < Day(hour)
              \/ 2 * period[p].date + period[p].span[2] <= hour

\* findAll of the dated records reads them all first ...
ListPeriods(a) ==
  /\ Start(a)
  /\ Turn(a, [Quiet EXCEPT !.pc = "prune", !.left = {p \in LivePeriods : Past(p)}])
  /\ UNCHANGED <<coupon, shown, pricing, period, hour, seen, blind, raced, edited>>

\* ... and deletes those it saw past, whatever they are by now
PrunePeriod(a) ==
  /\ desk[a].pc = "prune"
  /\ IF desk[a].left = {}
     THEN Turn(a, Quiet) /\ UNCHANGED period
     ELSE LET p == Least(desk[a].left)
          IN  /\ period' = [period EXCEPT ![p] = [NoPeriod EXCEPT !.used = TRUE]]
              /\ Turn(a, [desk[a] EXCEPT !.left = @ \ {p}])
  /\ UNCHANGED <<coupon, shown, pricing, hour, made, seen, blind, raced, edited>>

---------------------------------------------------------------------------
\* half a day passes; any coupon may run out
TimePasses ==
  /\ hour < LastHour
  /\ hour' = hour + 1
  /\ \E out \in SUBSET LiveCoupons :
       coupon' = [c \in Coupons |-> IF c \in out THEN [coupon[c] EXCEPT !.expired = TRUE]
                                    ELSE coupon[c]]
  /\ UNCHANGED <<shown, pricing, period, desk, made, seen, blind, raced, edited>>

Dated == {[NoPeriod EXCEPT !.date = when[1], !.span = when[2]] :
             when \in (0 .. Day(LastHour)) \X Spans}
ForVehicles == {[NoPeriod EXCEPT !.type = "driver_availabilty", !.vehicle = v] :
                  v \in Vehicle_types}

Init ==
  /\ coupon = [c \in Coupons |-> NoCoupon]
  /\ shown = [u \in Customers |-> {}]
  /\ pricing = [u \in Customers |-> None]
  /\ period = [p \in Periods |-> NoPeriod]
  /\ desk = [a \in Desks |-> Quiet]
  /\ hour = 0 /\ made = 0
  /\ seen = [c \in Coupons |-> {}]
  /\ blind = {} /\ raced = {} /\ edited = {}

CouponStep ==
  \/ \E a \in Desks : \/ \E code \in Codes, type \in Kinds : CreateCoupon(a, code, type)
                      \/ StoreCoupon(a) \/ ListCoupons(a) \/ LapseCoupon(a)
  \/ \E c \in Coupons : \/ \E code \in Codes, type \in Kinds : EditCoupon(c, type, code)
                        \/ RemoveCoupon(c) \/ SwitchCoupon(c)
  \/ \E u \in Customers : \/ \E c \in Coupons : Available_coupons(u, c) \/ CalculateDiscount(u, c)
                          \/ \E code \in Codes : ApplyPromoCode(u, code)
                          \/ PushUsedBy(u)

PeriodStep ==
  \/ \E a \in Desks : \/ \E new \in Dated \cup ForVehicles : CreatePeriod(a, new)
                      \/ StorePeriod(a) \/ ListPeriods(a) \/ PrunePeriod(a)
  \/ \E p \in Periods : \/ \E new \in Dated \cup ForVehicles : EditPeriod(p, new)
                        \/ RemovePeriod(p)

Next == CouponStep \/ PeriodStep \/ TimePasses

---------------------------------------------------------------------------
PeriodType ==
  [live : BOOLEAN, used : BOOLEAN, type : {"date_time", "driver_availabilty"},
   date : 0 .. Day(LastHour), span : Spans, vehicle : Vehicle_types \cup {None}]

\* Coupons, periods and requests have their types, and a coupon is in one tab.
TypeOK ==
  /\ \A c \in Coupons :
       /\ coupon[c].status \in {"none", "active", "deactive", "removed"}
       /\ coupon[c].code \in Codes \cup {None} /\ coupon[c].type \in Kinds
       /\ coupon[c].used_by \in Seq(Customers)
  /\ shown \in [Customers -> SUBSET Coupons]
  /\ pricing \in [Customers -> Coupons \cup {None}]
  /\ period \in [Periods -> PeriodType]
  /\ \A a \in Desks : /\ desk[a].pc \in {"idle", "coupon", "lapse", "period", "prune"}
                      /\ desk[a].new \in PeriodType
                      /\ desk[a].left \subseteq Coupons \cup Periods
  /\ hour \in 0 .. LastHour /\ made \in 0 .. MaxOffers
  /\ seen \in [Coupons -> SUBSET Customers] /\ blind \subseteq Customers \X Coupons
  /\ \A c \in LiveCoupons :
       Cardinality({t \in {AvailableInPhone, Shared, SharedUsed} : c \in t}) = 1

\* A one-time coupon is used, after its first use, by those only who had been shown it
\* before, or who named it without having been shown it; no code is on two coupons, unless
\* they were created at the same time or one of them was edited.
CouponOnce ==
  /\ \A c \in LiveCoupons \ edited : \A i \in DOMAIN coupon[c].used_by :
       LET u == coupon[c].used_by[i] IN u \in seen[c] \/ <<u, c>> \in blind
  /\ \A c, d \in LiveCoupons \ edited :
       c # d /\ coupon[c].code = coupon[d].code => coupon[c].code \in raced

\* No two periods of a date overlap, and no vehicle type has two records, unless they
\* were created at the same time or one of them was edited.
SurchargesApart ==
  \A p, q \in LivePeriods \ edited :
    p # q /\ q \in Clashes(period[p]) => Subject(period[p]) \in raced

OffersHold == CouponOnce /\ SurchargesApart
=============================================================================
