------------------------------ MODULE Pricing ------------------------------
(***************************************************************************)
(* The price of a trip: what the apps are quoted (calculatePricing), what  *)
(* the payment intent charges (calculatePricingAtPay), coupons, surcharge  *)
(* windows and tolls.  Pure: the documents a function reads are its        *)
(* arguments.                                                              *)
(*                                                                         *)
(* Amounts are cents, factors and percentages are whole per cent; toFixed  *)
(* rounds to the nearest cent.  A request is [distance, wheelchairs,       *)
(* seats, capsules, far, airport_toll]: far says that the pickup is more   *)
(* than 30 km from the airport.                                            *)
(***************************************************************************)
EXTENDS Integers, Sequences, Sums

\* vehicle: [bands, base_fare, wheelchair, seat, capsule, surcharge]
\* config:  [tax, gov_levy, airport_toll]

Percent(amount, rate) == (amount * rate + 50) \div 100

\* additional_fee: a pickup far from the airport costs 25 more.
FarFee == 2500
AdditionalFee(request) == IF request.far THEN FarFee ELSE 0

\* The first band with the distance strictly inside; a band without an upper end
\* has 0.  A distance on the border of two bands is in neither, and costs nothing.
InBand(distance, band) ==
    distance > band.from /\ (band.to = 0 \/ distance < band.to)

DistancePrice(distance, bands) ==
    LET in == {i \in DOMAIN bands : InBand(distance, bands[i])}
        first == CHOOSE i \in in : \A j \in in : i <= j
    IN  IF in = {} THEN 0 ELSE bands[first].price

Addons(request, vehicle) ==
    vehicle.wheelchair * request.wheelchairs
        + vehicle.seat * request.seats + vehicle.capsule * request.capsules

TripPrice(request, vehicle, toll, fee) ==
    Addons(request, vehicle)
        + request.distance * DistancePrice(request.distance, vehicle.bands)
        + vehicle.base_fare + fee + toll

\* check_surcharge_date looks at one record of the day, and takes it when the
\* time is between its ends; no factor otherwise.
SurchargeFactor(windows, time, vehicle) ==
    IF /\ windows # <<>>
       /\ windows[1].start <= time /\ time <= windows[1].end
    THEN vehicle.surcharge ELSE 0

Surcharged(price, vehicle, factor) ==
    IF factor > 100 THEN (price * vehicle.surcharge) \div 100 ELSE price

\* calculatePricing: the parts that an app shows, one vehicle of the list.
CalculatePricing(request, vehicle, config, factor, toll, fee, pending) ==
    LET price == TripPrice(request, vehicle, toll, fee)
        full == Surcharged(price, vehicle, factor)
    IN  [base_fee         |-> price + pending,
         surcharge_amount |-> full - price,
         tax              |-> Percent(full, config.tax),
         airport_toll     |-> IF request.airport_toll THEN config.airport_toll ELSE 0,
         gov_levy         |-> config.gov_levy]

Sum(quote) ==
    quote.base_fee + quote.surcharge_amount + quote.tax + quote.airport_toll
        + quote.gov_levy

\* The customers' app is quoted with a distance from the airport that is fixed in
\* the code, the web form with the distance of the pickup.
AppQuote(request, vehicle, config, factor, toll, pending) ==
    CalculatePricing(request, vehicle, config, factor, toll, 0, pending)
WebQuote(request, vehicle, config, factor, toll) ==
    CalculatePricing(request, vehicle, config, factor, toll, AdditionalFee(request), 0)

-----------------------------------------------------------------------------
(* What is charged: coupons are [percent, most].                            *)

CouponDiscount(coupon, price) ==
    LET percent == (price * coupon.percent) \div 100
    IN  IF percent > coupon.most THEN coupon.most ELSE percent

\* Mutant: the debt is surcharged and taxed with the trip.
CalculatePricingAtPayTaxed(request, vehicle, config, factor, toll, fee, pending, discount) ==
    LET full == Surcharged(TripPrice(request, vehicle, toll, fee) + pending - discount,
                           vehicle, factor)
    IN  full + Percent(full, config.tax) + config.gov_levy
          + (IF request.airport_toll THEN config.airport_toll ELSE 0)

\* calculatePricingAtPay: the discount comes before surcharge and tax, the debt after.
CalculatePricingAtPay(request, vehicle, config, factor, toll, fee, pending, discount) ==
    LET full == Surcharged(TripPrice(request, vehicle, toll, fee) - discount,
                           vehicle, factor)
    IN  full + pending + Percent(full, config.tax) + config.gov_levy
          + (IF request.airport_toll THEN config.airport_toll ELSE 0)

-----------------------------------------------------------------------------
\* The toll of a route: the answer of the routes API has a price for every origin
\* and every destination, and all of them are added.  price[i][j] is the toll
\* from point i to point j + 1.
TollCharges(price) ==
    LET n == Len(price)
    IN  SumTo([i \in 1 .. n |-> SumTo(price[i], n)], n)

-----------------------------------------------------------------------------
\* What a customer is charged is what was quoted: for the web form always, in the
\* app but for a pickup far from the airport, whose fee the app does not quote.  A
\* coupon takes something off, never more than its most.
QuoteIsCharged(request, vehicle, config, factor, toll, pending, coupon) ==
    LET charge(debt, discount) ==
            CalculatePricingAtPay(request, vehicle, config, factor, toll,
                                  AdditionalFee(request), debt, discount)
        price == TripPrice(request, vehicle, toll, AdditionalFee(request))
        app == Sum(AppQuote(request, vehicle, config, factor, toll, pending))
        off == charge(pending, CouponDiscount(coupon, price))
    IN  /\ charge(0, 0) = Sum(WebQuote(request, vehicle, config, factor, toll))
        /\ IF request.far THEN charge(pending, 0) > app ELSE charge(pending, 0) = app
        /\ off <= charge(pending, 0) /\ off >= charge(pending, coupon.most)

\* The toll is that of the one leg of a route without stops, and no less than that
\* of the legs with stops.
TollCoversLegs(price) ==
    LET legs == SumTo([i \in DOMAIN price |-> price[i][i]], Len(price))
    IN  TollCharges(price) >= legs /\ (Len(price) = 1 => TollCharges(price) = legs)
=============================================================================
