# A verification of the TiptoPride backend in TLA+

The backend (`src/`, NestJS over MongoDB) takes ride and parcel bookings, finds
drivers for them, follows the ride, and moves the money. This directory models
who drives what (dispatch, search, scheduler), what it costs and what becomes of
the money (pricing, payment, refund, waiting charges), and the accounts, chats,
offers and records around it. Paths below are under `src/src/`.

## 1. Inventory

### How the system runs

One Node process (several may run against the same database) serves HTTP and
socket.io, runs three cron jobs (`cronjob/cronjob.service.ts`: the scheduler and
the waiting charges every 30 seconds, document expiry once a day), and keeps
loops alive that outlive the request that started them (driver search, repeated
broadcast, refunds). All state that matters is in MongoDB documents. A handler
is a chain of `await`ed database calls; MongoDB makes each call atomic on one
document, nothing makes two calls atomic, there are no transactions, and cron
ticks are not awaited by the framework. Every property below is therefore about
interleavings of database calls.

### Components

| Component | State it keeps | Operations that change it | Correct when | Model |
|---|---|---|---|---|
| Ride dispatch (`booking/booking.service.ts`) | booking: `booking_status`, `driver_id`, `cancelled_driver_ids`; driver: `ride_status`, `current_booking`, `currently_send_ride_request(_id)` | accept, decline, booking_cancelled, cancel_request, cancel_ride_by_dispatcher, assignADriver, Ride_Completed, recived_payment, freeDrivers | one driver at a time, who accepted; status and driver agree; nobody is left busy with nothing | `Dispatch`, `RideLifecycle` |
| Driver search (`send_push_to_nearest_drivers`, `find_drivers_under_5km_radius`) | `booking_notifications`, offer fields | offer one driver after the other, 30 s each, until 3 min have passed | ends; asks nobody twice; offers are withdrawn | `SearchLoop`, and as one party among all in `Dispatch` |
| Scheduler (`scheduled_Booking_noti`, `broadcasting`, `autoAssignRequest`, 7 km loop) | `booking_type`, `sent_dispatch_noti`, `is_currently_broadcasting` | broadcast, expire, hand over at schedule time | each once, whatever ticks overlap | `Scheduler`, and races over the booking in `Dispatch` |
| Refund (`cancelRefund`) | `payment_status`, `refund_amount`, payments, earnings | refund a cancelled or failed booking | once, and recorded if and only if Stripe did it | `Payment`; the driver's part in `Dispatch` |
| Payment and webhook (`payment/payment.service.ts`) | payments, `payment_success`, `pending_pay_amount` | payment_with_card, webhook, make_payment_additional | the books agree with Stripe; no debt is lost | `Payment` |
| Pricing, coupons, surcharges (`booking/`, `coupon/`, `surcharge/`) | coupons, surcharge periods | calculatePricing, ApplyPromoCode, create, update, expire | what is quoted is charged; a coupon is used as often as its type says; periods are disjoint | `Pricing`, `Offers` |
| Waiting charges (`WaitingChargeCron` and three charge functions) | `stop_charges`, `total_amount` | increments per tick | the total is the sum of its parts; nothing is charged for a ride that is over | `Ride` |
| Ride progress (`RideStatus`, `Ride_Completed`, tips, `update`) | `ride_status` of the booking, times | arrive, start, stops, complete | the booking is in one list of everybody at every step | `Ride`, `Listings` |
| Booking creation (`create`, `schedule_booking*`, dispatchers, web site) | booking | create, confirm, edit, invoice | no two rides of a customer within an hour; an edit leaves the right difference | `Payment`, `Orders` |
| Driver payouts | `amount_for_driver`, `pay_to_driver` | share, edit, mark as paid | a driver is told what he is paid | `Orders` |
| Sessions (`auth/`) | sessions, codes, tokens | sign-up, sign-in, change of contact, block, delete | one account per contact, one device per account, nobody who is blocked | `Session` |
| Driver account (`driver/`, `admin/`) | online, vehicles, papers, approval | requests, decisions, expiry | who is offered a ride has one approved vehicle | `DriverAccount` |
| Chat (`chat/`) | connections, messages, `socket_id` | open, support, take, close, send, read | links are to open chats; what is marked as read was sent | `Chat`, `Messages` |
| Reviews and ratings, companies, complaints, cards, vehicle prices, IP addresses | one document each, and a rating in the profile | create after looking for a duplicate, update, remove | no duplicates; the profile shows the rating of the reviews | `Records` |
| Wallet, staff, FAQ, pages, contact, configuration, notification, common, db | one document each, or output only | create, read, update, delete | - | not modelled, see section 6 |

The components meet in the documents: dispatch, search, scheduler, waiting charges
and refund write `bookings` and `drivers` independently of each other and know of
each other only through what they read there. Search and refund are started without
being awaited by the handler that needs them.

### What is hard here

`PROJECT.json` lists each hazard at its line. In groups:

- values read before an `await` and written back after it (decline, assignADriver,
  cancel of a completed ride, expiry from the tick's list, the hand-over, every
  writer of `total_amount`);
- two documents that have to agree and are written in two calls (accept, cancel,
  approval of a driver and his vehicle, a chat and the user who refers to it);
- loops that outlive a change of the booking (search, repeated broadcast);
- cron ticks that overlap;
- calls to Stripe between two database writes, deliveries of a webhook twice;
- a look-up in one call and a create in another (accounts, coupons, surcharge
  periods, customers of the web site, companies, cards).

There are no unit tests of these paths in the repository.

## 2. The modules

| Module | What it is |
|---|---|
| `RideLifecycle` | Abstract: what one booking promises about who holds it. Open, held by one driver, completed, dead. |
| `Dispatch` | The booking and driver documents and every handler, loop and cron task that assigns, offers, releases, cancels, fails or completes a ride, one action per database call. |
| `SearchLoop` | The search for a driver of one immediate booking in detail: rounds, polls, the three minutes, the list of drivers asked, several searches at once, the exit of the server. |
| `Scheduler` | The cron task over the scheduled bookings and the loop that asks the drivers within 7 km, against a clock. |
| `Payment` | A customer's bookings and their money: price, intent, webhook, refund, deferred waiting charge; Stripe is external. |
| `Pricing` | The price of a trip, coupons and tolls, as operators. |
| `Listings` | Which bookings the lists of customer, driver, dispatcher and admin find, as operators. |
| `Ride` | A ride under way: its steps, the waiting charges, tips, a change of stops, completion. Extends `Listings`. |
| `Session` | Accounts of customers or of drivers, their phones and e-mails, and sessions. |
| `DriverAccount` | One driver's vehicles and papers, the requests he makes and the decisions on them, and the lists that select drivers. |
| `Chat`, `Messages` | Who a chat belongs to and what refers to it; the messages of one chat and the sockets. |
| `Offers` | Coupons and surcharge periods. |
| `Orders` | Bookings of dispatchers and of the web site, their invoices, and the payout of the driver. |
| `Records` | Reviews and ratings; records that are looked for before they are created. |
| `MCDispatch`, `MCSearchLoop`, `MCScheduler` | Instances for TLC, with symmetry where it is used. |
| `MCPayment`, `MCRide`, `MCAccounts` | Instances whose first state chooses what is looked at (`world`): two bookings, one booking or a price; the pickup, the stops or requests; one of the ten parts of the accounts. |
| `Sums` | The total a loop over a list adds up, for `Pricing` and `Records`. |
| `SumProofs` | Lemmas: least elements of sets of numbers, and the totals of `Sums` for lists of any length. |
| `DispatchProofs` | Proofs about `Dispatch`: types, that documents name only winners, offers, status and driver, stranded drivers, and that it implements `RideLifecycle`. |
| `SearchLoopProofs` | Proofs about `SearchLoop`: types, watched offers, nobody asked twice, open bookings searched for, and that it implements `RideLifecycle`. |
| `SchedulerProofs` | Proofs about `Scheduler`: types, marks and loops, the hand-over, one refund, and that it implements `RideLifecycle`. |
| `RideProofs` | Proofs about `Ride`: types, the total, who is charged, one list for every step. |
| `PaymentProofs` | Proofs about `Payment` and `Pricing`: types, the debt, the mark of a refund, the books, refunds that are due, tolls, quotes and prices. |
| `AccountsProofs` | Proofs about `Session`, `DriverAccount`, `Chat` and `Messages`, as `MCAccounts` puts them together. |
| `BooksProofs` | The same about `Orders`, `Records` and `Offers`, and the types of all parts of `MCAccounts`. |

In all of them an action is one awaited database call (or what a handler does
between two of them), a process (`call`, `loop`, `job`, `proc`, `request`, `thread`,
`desk`, `form`, `clerk`, `task`) remembers what its handler has read, and history
variables, which no action reads, say what has happened that excuses a property.

### How Dispatch corresponds to the code

*State.* `booking[b]` has the four fields that decide who drives: `status`
(`booking_status`, null is `"none"`), `driver` (`driver_id`), `cancelled`
(`cancelled_driver_ids`) and `notified` (`booking_notifications.driver_ids`).
`driver[d]` has `ride` (`ride_status`), `current` (`current_booking`), `offered`
and `offer` (`currently_send_ride_request` and its `_id`). `call[c]` is a handler
in flight: its next step and the values it read. `won` and `reassigned` are
history variables; no action reads `reassigned`, and `won` is read as "this
driver's app shows the ride".

*Actions.* The first action of a handler (`AcceptBooking`, `DeclineBooking`,
`DriverCancel`, ...) needs an idle `c`; the following ones are found by `pc`.

| Handler | Actions in order |
|---|---|
| `accept_booking` | `AcceptBooking` (the compare-and-set), `AcceptDriver`, `AcceptClear` |
| `decline_booking` | `DeclineBooking`, `DeclineRead`, `DeclineWrite` |
| `booking_cancelled`, driver | `DriverCancel` (reads), `DriverCancelFree`, `DriverCancelBooking` |
| `booking_cancelled`, customer | `CustomerCancel` (reads), `CustomerCancelClose`, `CustomerCancelOffer`, `CancelRefund` |
| `cancel_request` | `CancelRequest`, `CancelRequestOffers`, `CancelRequestCheck`, then `CancelRequestRelease` and `CancelRefund` in either order |
| `cancel_ride_by_dispatcher` | `DispatcherCancel`, `DispatcherCancelOffers`, `DispatcherCancelDriver` |
| `assignADriver` | `AssignADriver` (reads, and starts an offer in a call of its own), `AssignUnassign`, `AssignSave` |
| `Ride_Completed` | `RideCompleted`, `RideCompletedDriver` |
| `recived_payment`, `freeDrivers` | `RecivedPayment`, `FreeDrivers` (one write each) |
| driver search | `SearchRead`, `SearchPick`, `SearchFlag`, `SearchList`, `SearchPolled` or `SearchSeesCancel`; or `SearchFail`, `SearchUnflag`, `CancelRefund` |
| `sent_broadcast_request` | `Broadcast`, `OfferFlag`, for each driver in a call of its own |
| `scheduled_Booking_noti`, `broadcasting` | `ExpireRead`, `ExpireFail`, `ExpireClear`, `CancelRefund`; `HandOverRead`, `HandOverCheck`, `HandOverWrite` |

*Abstractions.* Money, messages, the activity log and the customer document are
left out. Time is left out: where the code decides by a date, by distance, or by
a field that is not modelled, both outcomes are allowed, so a search may fail at
any moment and a tick may find a booking due at any moment. The steps of one call
are the writes and the reads whose value is used later; reads of other documents
are not steps. A driver can accept or decline any booking (the code does not
check that it was offered to him), and can cancel or complete those his accept
has won.

### How SearchLoop corresponds to the code

`Dispatch` lets a search pick, ask and fail at any moment. `SearchLoop` has one
booking and says when. `loop[l]` is one call of `send_push_to_nearest_drivers`:

| Code | Actions in order |
|---|---|
| `ready_now_schedule_booking`, `webhook` | `StartSearch` |
| `find_drivers_under_5km_radius` | `SearchRead`, `SearchListed`, then for each driver in range `SearchAsk` or `SearchPassOver` or (late) `SearchFail`, `SearchUnflag`, `SearchReject` or `SearchExits`; `SearchAgain` a second later |
| asking | `SearchFlag` (or not, without a session), `SearchFindList`, `SearchCreateList` or `SearchPush` |
| the poll | `PollAnswer`, `PollBooking`, `SearchClear` |
| `accept_booking` | `Accept`, `AcceptDriver`, `AcceptRecord`, `AcceptClear` |
| `decline_booking` | `Decline`, `DeclineClear`, `DeclineRead`, `DeclineWrite` |
| `booking_cancelled`, driver | `DriverCancel`, `DriverCancelWrite`, `DriverCancelSearch` |
| `booking_cancelled`, customer | `CustomerCancel`, `CustomerCancelOffer` |

*State.* `lists` are the `booking_notifications` documents, of which only the first
is ever read; `driver[d].answer` is the first `declined_bookings` document of the
driver; `driver[d].free` stands for online and `ride_status` free, and changes by
`DriverSwitches` when other rides and shifts do; a flag is an offer of this
booking. `late` is the search's own deadline, three minutes after the
`updated_at` it was started with; the clock may pass it at any moment.
`lost` is a history variable: what has happened that can drop the booking.

*The exit.* A search that fails rejects a promise; `ready_now_schedule_booking` and
`booking_cancelled` do not wait for it, the webhook does. The repository has no
handler of unhandled rejections and names no version of Node.js (its types are
those of version 20, which exits), so both outcomes are allowed. An exit ends all
searches and requests where they stand.

### How Scheduler corresponds to the code

`booking[b]` has `booking_status`, `driver_id`, `booking_type` and the marks
`is_broadcast_7_km`, `is_currently_broadcasting`, `is_broadcast`,
`sent_dispatch_noti`, `broadcasted_driver_ids`. `now` counts units of five minutes,
the length of the 7 km loop; the windows of the code are 30, 25 and 15 minutes.
`job[t]` has the lists a tick reads at its start and works on to its end.

| Code | Actions |
|---|---|
| `scheduled_Booking_noti` | `TickStart` (open bookings), `TickListAccepted`, then per booking `TickBooking` or `TickTell`, and `TickEnds` |
| `broadcasting` | `TickBooking` with `StepFor` choosing by time: `TickFail` (refund), `TickCurrent`, `TickBroadcast`, or the 7 km loop |
| hand-over | `TickTell` (sets `sent_dispatch_noti`), `TickLook` (is the driver busy), `TickBusy`, `TickType` |
| 7 km loop | `Mark`, `LoopRound`, `LoopAsk`, `LoopOver`, `Unmark`; `LoopError` when a call throws |
| `autoAssignRequest` | `AutoAssign`, then the same loop |
| others | `Take`, `DriverCancel`, `Decline`, `CustomerCancel` (one step each; their races are in `Dispatch`), `Crash`, `TimePasses` |

A driver's cancel makes the booking a scheduled one again and takes `sent_dispatch_noti`
back, so that the ticks find it as if nothing had happened to it: whoever takes it next
is handed over, and if nobody does it fails at its time, also after a hand-over had made
it a current one. A decline takes `sent_dispatch_noti` back as well.

Copying the coordinates into `location`, payments, messages and offer flags are left
out. A server that exits starts again with empty `job`s: the repository's `start:prod`
starts one process and names no supervisor, so that restart is an assumption.

### How Payment and Pricing correspond to the code

| Code | Actions of `Payment` in order |
|---|---|
| `create`, `schedule_booking` | `Create` or `Schedule`, `ScheduleCheck` (a ride within the hour), `InsertBooking`, `CreateIntent` |
| Stripe (external) | `Charge`, and `Deliver` at least once per charge |
| `webhook` | `HookPaid`, `HookReset` (the debt), `HookRow`, `HookEarning`, `HookConfirm`; of a waiting charge `HookSettle` |
| `booking_cancelled`, `cancel_request`, a search that fails | `CustomerCancel`, `CancelRequest` and `CancelRecheck`, `SearchFailed` |
| `cancelRefund` | with a driver and not in time `RefundPart`, `RefundMark`, `RefundAdjust`, `RefundFlag`; without one `RefundMarkFirst`, `RefundAll`; `Refund` is the call to Stripe, which refuses what was refunded already: the rejected promise exits the server |
| `make_payment_additional`, paying later | `PayStop`; `DeferStop`, `OweStop` |
| drivers | `Accept`, `RideCompleted` |

Amounts are whole numbers. `RideCompleted` is exact for a wait at the pickup. Facts
that the model keeps and a reader may not expect: deferring a waiting charge
overwrites an older debt, also with nothing; `schedule_booking` never clears the
debt it has billed; a cancel without a driver refunds the carried debt with the
fare.

`Pricing` takes the documents a function reads as arguments, in cents and whole per
cent. A distance on the border of two bands is in neither and costs nothing per
km; the app is quoted without the fee of 25 for pickups far from the airport;
`check_surcharge_date` looks at the first record of the day only; `toll_charges`
adds the tolls of every origin to every destination.

### How Ride and Listings correspond to the code

One scheduled booking a driver has taken. `booking` has the status, `total_amount`,
`total_trip_amount`, `stop_charges`, `tip_driver`, the minutes charged and the times
of arrival; `clock` is in minutes.

| Code | Actions |
|---|---|
| `RideStatus` | `RideStatus` (the check), `WriteStatus` (by `_id` alone) |
| `Ride_Completed`, `add_tip`, `updateBookingInfo`, `update` | `RideCompleted`, `AddTip`, `UpdateBookingInfo`, `Update` read; `WriteCompleted`, `WriteTip`, `WriteInfo`, `WriteUpdate` write what was computed from it |
| `WaitingChargeCron` | `TickStart`, `TickList` three times, then per place `TickSkip`, or `TickTell` and `ChargePickup` or `ChargeStop` |
| `booking_cancelled`, `decline_booking`, `accept_booking` | `DriverCancel`, `CustomerCancel`, `Decline`, `Accept` |

`tokens` says whether both parties have a session with a push token: without, the
charge functions read a field of null after having written that both were told, and
the tick ends there. `tip_amount` is not in the schema, so MongoDB drops it. `gst`
(which grows by the whole tax at every tick) and the driver's share are left out.

`Listings` is the condition of each query on one booking: `booking_listing` for
customer and driver with the counts below them, the dispatcher's tabs
(`buildScheduledBookingQuery`), `waitingForDriver`, `dispatcherBookingList`, the
admin's list and the dashboard. `Ride` asks it at every moment of a ride. An open
booking has the status null, or `request` once a driver has declined it
(booking.service.ts 2958); the customer's queries ask for accepted or null (3763, 3778),
so that a declined booking is in none of his lists until somebody accepts it. A
booking whose driver's app has sent `ride_completed` by `RideStatus` and not
called `Ride_Completed` is in no tab (`Lost`).

### How Session corresponds to the code

`account[u]` is a document of the collection chosen by `scope`, with what it is
found by (`phone`, `email`), the contact that waits to be verified (`temp`), the
codes that are out, and `is_block`; `sessions` is the sessions collection. `token[d]`
are the signed tokens a device has been given, each with the phone its code was for
and, of a new driver's form, the e-mail.

| Code | Actions |
|---|---|
| `continue_with_phone`, `verify_phone` | `ContinueWithPhone`, `VerifyPhone`, `FindTempPhone`, `TakePhone` |
| sign-in | `LoginDelete` or `ForgetDevice`, `CreateAccount`, `CreateSession` |
| social logins | `LoginWithGoogle`, `LoginWithApple` (a driver's keeps his other sessions) |
| a customer becomes a driver | `BecomeDriver`, `UpdateDriver` |
| profile | `EditProfile`, `KeepAside`, `VerifyEdit`, `WriteContact` |
| others | `DeleteAccount`, `LogOut`, `UpdateFcmToken`, `ResendOtp`; `Lapse` (a token after five minutes) |
| administration | `BlockSessions`, `BlockMark`, `Unblock`, `Deactivate` |

A code is typed correctly. No collection knows the token it is in, so it can be
presented any number of times until it lapses, and `verify_phone` asks nobody whether
the account was blocked in the meantime: whoever is blocked while such a token is out
can still come in (`late`). Nor does it ask whether the e-mail of a driver's form has
been taken (`contested`). Known and kept: deleting an
account leaves its sessions; a change of phone verified after a sign-in took that
phone writes null; the path by a temporary phone does not ask about the block.
`continue_with_phone` does not ask whether an account is deleted, so that a change of
phone which is verified after the account was deleted can stand before the account
of a blocked driver with that phone, and let him in. `late` has the accounts to which
that, a token still good at the block, or an overlap with the block has happened.

### How DriverAccount corresponds to the code

`driver` is the document of one driver (`is_approved`, `is_doc_update`, `is_active`,
online, what is set up, `doc_expiry_type`, licence), `garage` his vehicle details.

| Code | Actions |
|---|---|
| `set_vehicle_details` | `AddVehicle`, `AddOthers`, `AddCreate`, `AddDriver` |
| `edit_vehicle_detail` | `EditVehicle`, `EditRequest`, `EditDriver` |
| `MakeVehicleActive` | `MakeActive`, `MakeRequest`, `MakeOthers`, `MakeDriver` (its two driver writes as one) |
| `edit_licence`, `set_document_details`, `go_online` | `EditLicence`, `SetDocuments`, `GoOnline` |
| `UpdateDriverRequests` | `Accept`, `AcceptVehicle`, `AcceptExpiry`, `AcceptDriver`; `Decline`, `DeclineExpiry`, `DeclineDriver` |
| others | `SwitchActive`, `SetExpiryDate`, `SetLicenceDate`, `DatesPass`, `CheckExpiry` |
| queries | `PendingList`, `UpdatedList`, `RejectedList`, the dashboard's counts, `NearMe`, `QuoteVehicles`, `AvailableNow`, `ForBooking`, `ForDispatcher`, `Assignable`, `ForChat` |

The nightly expiry asks for an approved driver with an update waiting, and every
writer of `is_doc_update: true` takes the approval away: in the model, as in the
code, it finds nobody. A decline writes `deactive`, which is not in the enum.
An approved driver who is deactivated is in none of the lists of requests.

### How Chat and Messages correspond to the code

`Chat`: `connection` is the collection of that name, `support` and `attached` what
users and the booking refer to. `OpenRoom`, `CreateRoom` (a booking's chat);
`ChatSupport`, `InjectWithRef` (a user's call for support); `StaffFind`, `StaffTake`,
`StaffPair`, `StaffCreate`, `StaffLink` (a dispatcher answers or opens a chat);
`SendSupport` (a message changes who waits for whom); `CloseChat`, `CloseUnbook`,
`CloseUnlink`, `CloseSave`. A user whose chat a dispatcher opened is its
`initiated_by` by his scope, at which `close_chat` throws at its end.

`Messages`: one chat of a driver with a customer (`ride`) or a dispatcher (`help`,
`desk`). `Connect` and `Disconnect` are the gateway's; `socket` is `socket_id`,
which a disconnect leaves. `SendMessage`, `ChatSupport`, then `UpdateChat`,
`StoreMessage`, `Emit` (to the socket that was read before); `GetAllMessages`,
`MarkAllMsg`, `ShowAll`; `ReadMessages`. `CloseChat` is the write of `close_chat` that
`Chat` has no part in: it marks every message of the connection as read, those without a
receiver too (chat.service.ts 640). The chat may go on after it, for whoever has it open.
Pushes and `UnreadMessage` are left out.

### How Offers, Orders and Records correspond to the code

`Offers`: `CreateCoupon` and `StoreCoupon`, `EditCoupon`, `SwitchCoupon`,
`RemoveCoupon`; `ListCoupons` and `LapseCoupon` (the list puts what it saw expired
out of use, one by one); `Available_coupons`, `ApplyPromoCode`, `CalculateDiscount`,
`PushUsedBy` (a booking is priced with a coupon, which uses it, paid or not);
`CreatePeriod` and `StorePeriod`, `EditPeriod`, `RemovePeriod`, `ListPeriods` and
`PrunePeriod`. An edit can change everything of a coupon, its code too, and looks for no
other with it. `CalculateDiscount` takes the coupon the request names, also when a
booking is priced again by `update`: who was shown a one-time coupon before its first use
can still use it, and so can who names it without having been shown it (`blind`).
`ApplyPromoCode` does not ask for `valid_upto`.

`Orders`: `ScheduleByDispatcher`, `StoreOrder`, `SaveTotal`; `UpdateByDispatcher`,
`ReadPrevious`, `WriteUpdate`; `UpdateDriverIncome`, `UpdatePaymentStatus`,
`CompleteOrder`; `OrderOnWeb`, `CreateGuest`, `StoreWebOrder`, `WriteIncome`,
`WebIntent`, `WebPaid`, `VerifyGuest`; `CanRequest` is `CheckScheduleBooking`, which
looks at the first booking to come only. `pay_by_customer` and `pay_to_customer`
both stay set after edits in both directions, so the property is about the last.

`Records`: `CreateReview`, `MarkRated`, `ReadReviews`, `WriteRating`, and `Overall`
of the list, which averages the page it shows; for the others `Seek` and `Store`
(a company's e-mail, then its number; a booking's complaint; a card; a vehicle's
price; an address) and `Update`, `Erase`. A company's e-mail is looked for in lower
case and stored as given, so one with capitals (`Capitals`) is never found again;
updates ask for no duplicate; `is_card_added` stays after the last card is removed.

## 3. What is checked

| Run | Question | Result |
|---|---|---|
| `scheduled` | Scheduled booking; driver, customer, dispatcher and cron active. | 468,363 states, holds |
| `immediate` | Immediate booking; driver, customer and search active (`OnlyWinners`, `ImplementsLifecycle`). | 676,705 states, holds |
| `reopened` | Can an open booking be accepted? | violated, see findings |
| `completed` | Does a completed booking stay out of cancelled? | violated, see findings |
| `cancelled` | Once all handlers are done, is nobody busy on a cancelled booking? | violated, see findings |
| `search_one` | One search, two polls, two drivers who make two requests, a customer who cancels: does the search end, and the offers? | 299,469 states, holds |
| `search_two` | Two searches, one poll, two requests of drivers: is an open booking searched for, an offer watched, nobody asked twice? | 2,345,818 states, holds |
| `search_nobody` | Does a search end with nobody in range? | violated, see findings |
| `scheduler` | A scheduled booking from 30 minutes before its time to after it, two overlapping ticks, a dispatcher's request; a take, declines, the driver's cancels, and one more take, cancel, error or crash. | 341,014 states, holds |
| `payment` | Two bookings of a customer; one booking with events delivered twice and two cancels; the price of a trip. | 276,003 states, holds |
| `ride` | A wait at the pickup or at the stops with two overlapping ticks or with a request; two requests of a ride. | 451,719 states, holds |
| `accounts` | Sessions, a driver's account, chats, messages, coupons, surcharges, bookings of dispatchers and of the web site, reviews, records: each with handlers that overlap. | 962,167 states, holds |

The properties of the passing runs. Of `Dispatch`:

- `OnlyWinners`: a booking or a driver document names a driver for a ride only if
  his accept of it succeeded. Stale write-backs are what could break it.
- `StatusAgreesWithDriver`: accepted means there is a driver, and an open
  scheduled booking has none, so that an accept can match it, until a dispatcher's
  save has touched the booking. (The save may open the booking without removing a
  driver who accepted after it was read.)
- `FlagHasBooking`: a flagged driver can be found by the booking he is offered.
  The converse fails: a failed search clears the flag and leaves the id.
- `StrandedOnlyByAssign`: of all handlers that take a ride from a driver, only
  assignADriver leaves him busy without a ride.
- `ImplementsLifecycle`: `Dispatch` implements `RideLifecycle` under
  `LifecycleOf`. Read the other way, `RideLifecycle` is the strongest lifecycle
  the code keeps: a dead ride can be reopened (stale writes), a held one can lose
  its driver (`Orphan`), a completed one be taken again, but a ride never passes
  from driver to driver directly and a dead one is never taken.

Of `SearchLoop`:

- `OpenIsSearched`: an open booking is being searched for. `lost` lists the exceptions:
  a decline written over another driver's accept or over a failure, a cancelled
  booking its driver reopens, a driver's second cancel of a ride that is another's
  by then, an exit, a driver's cancel after thirty minutes.
- `OfferWatched`: a flagged driver, who gets no other offer, is watched by a search
  that is going to clear his flag. Exceptions: a search that sees the cancel
  leaves the flag it set, and an exit leaves them all.
- `AskedOnce`: no search asks a driver twice, as long as there is one list. (Two
  searches that each find no list each create one, and the second is not read.)
- `SearchEnds`, `OfferEnds`: every search ends if a driver stays in range, and every
  flag is cleared, with the exceptions of `OfferWatched`.

Of `Scheduler`:

- `MarkedIsLooped`: a booking marked as being broadcast is being broadcast, so that
  `autoAssignRequest` does not refuse for nothing, but for a crash or an error.
- `OneLoop`: two loops never ask for one booking, unless the second had checked the
  mark before the first set it.
- `ToldIsHandedOver`: `sent_dispatch_noti` keeps later ticks from the hand-over, and
  is set before it: whoever has it is handed over, is about to be, or met a
  busy driver or a crash (`missed`). A driver's cancel and a decline take it back, and
  with it the exception: the next driver is told anew.
- `RefundedOnce`: a tick fails and refunds a booking once, unless it changed while
  it was on a tick's list.
- `ScheduledIsSettled`: after its time a booking does not stay open and scheduled. It
  says nothing of one that a tick has made a current one: no later tick finds it, and
  it may stay open for ever, neither failed nor refunded (a hazard, in `PROJECT.json`).

Of `Payment` and `Pricing`:

- `BooksBalance`: the one payment row of a settled booking says what the card was
  charged less what was refunded. `Settled` names what the code has no answer to:
  a second cancel, a cancel of what is completed or not yet paid, a refund that
  overtakes the webhook, an exit.
- `RefundMarkIsTrue`: marked as refunded exactly when Stripe refunded it.
- `PricesAgree`: what is quoted is charged (but for the far pickup in the app), a
  coupon takes off no more than its most, tolls cover the legs.
- `DebtIsBilled`: a debt vanishes only by a payment that carried it.
- `PaidCancelIsRefunded`: a paid booking that is cancelled or fails is refunded in
  the end, unless the server exits while at work on it.

Of `Ride` and `Listings`:

- `MoneyAddsUp`: `total_amount` is the price, the waiting with its tax, tips and
  tolls, unless a write was computed from an old document, the pickup charge
  replaced a total with more in it, or the stops changed.
- `ListedOnce`: at every step the booking is in one tab of the dispatcher and in one
  list of the driver and the admin; in one of the customer, and in the count of it, but
  after a decline, when it is in none until the next accept.
- `OnlyRidesAreCharged`: at the pickup, nothing is charged after a cancel or
  completion but by a tick that had listed it before. (The stop lists do not ask
  for `booking_status`, so there it is charged for ever.)
- `WaitIsBilled`: a wait at the pickup is charged in the end, also when a party
  cannot be told.

Of the run `accounts`, where each part has one or two properties, with the
overlaps that excuse them named in history variables:

- `OneAccount`: a phone or an e-mail finds one account. `SessionsHold`: one device at
  a time, and none for who is blocked, unless a code for his phone was out by then.
- `ApprovedDrives`: who is offered a ride has one active vehicle and nothing
  waiting for a decision; a requested vehicle is in a list of requests.
- `ChatsHold`: users and the booking refer to open chats; a booking has one.
- `MessagesHold`: what is marked as read was sent to its receiver, unless a dispatcher
  marked it by closing the chat, and who looks at a chat has all of it.
- `OffersHold`: a one-time coupon is used after its first use only by those who had
  been shown it before or named it unseen; no code twice but by an edit; surcharge
  periods do not overlap.
- `OrdersHold`: what an edit leaves to be paid or given back is the difference to the
  total it replaced; the web site makes one customer of a phone; a paid driver
  was told the amount; a ride is refused when one is due within the hour.
- `RecordsHold`: the profile shows the rating of its reviews; no key twice; a
  customer with a card is marked so.

Each has a mutant of the code that breaks it.

*Bounds.* `Dispatch` runs use one booking `trip`, two drivers and two handlers in
flight. One booking is enough for races over a booking, which is what the
properties are about; two drivers are what a lost or stolen ride needs; two
handlers at once, each of which can be at any step, give every pairwise
interleaving, and sequences of any length of such pairs. What one booking cannot
show is a driver between two rides. In `SearchLoop` two drivers let one be asked
while the other answers; two searches are what a second list needs; one poll or two
instead of thirty, since a poll that finds no answer changes nothing but the
counter; `MaxRequests` bounds the requests of drivers (an accept and a decline, or
an accept and a cancel, or two of one driver), and the customer cancels once. A
search is started once, so a driver's cancel that finds none left counts as one
after thirty minutes.

`Scheduler` has one booking, one driver and two ticks (overlaps are pairwise), a
clock that shows the moments 30 and 15 minutes before, at and after the time,
and one event that disturbs (`MaxEvents`), beside declines, the driver's cancels and the
first take, if nothing was done for the booking before (`Undisturbed`): enough for a
ride that is handed over, given back, and taken, failed or left again. `Payment` has two processes; with two bookings, which
the carried debt needs, one delivery each and one cancel in all (`Total` of
`MCPayment`), with one booking two of each (`MaxCancels` is per booking).
`Ride` has two processes and three moments, so that a wait is free, charged, and
charged again. In `accounts` two handlers overlap at every awaited call; two
vehicles, coupons, connections or records are what "one of them" needs, three
accounts what a deleted, a live and a new holder of a phone need; the number of
requests (`MaxRequests` 5, `MaxChanges` 5, `MaxEvents` 3, `MaxOffers` 5, `MaxForms` 3,
`MaxCalls` 4, `MaxSocketEvents` 5) lets each property's longest story happen, as
its mutant shows. Coupons run while one half day passes, in which each may run out;
surcharge periods while two do. The parts share no state, so the first state chooses one, and `WorldSpec` moves it alone.
Symmetry is over handlers only.

*Fairness.* `Dispatch` and `accounts` assume none and state no liveness. `FairSpec` of
`SearchLoop` assumes weak fairness of each search's next step, which is a timer or
a database call that returns, and of the clock; nothing of drivers or customers.
`FairSpec` of `Scheduler` assumes it of the clock and that some tick or loop goes on;
`Payment` of each process's next step, nothing of Stripe or the customer; `Ride` of
each process's next step and of the start of ticks.

*Deadlock* is checked for `Dispatch`, where requests may always arrive. In the other
models everything stops once the bounds are reached, so it is not.

### Findings

1. `reopened`: an immediate booking its driver cancels is searched for again but
   keeps `driver_id`, which the accept's filter excludes (booking.service.ts
   2483 against 3938-3952). Nobody can take it.
2. `completed`: a completed ride can be cancelled and refunded, against the
   message of booking.service.ts:3881.
3. `cancelled`: a dispatcher's cancel between the two writes of an accept leaves
   the driver busy on the cancelled booking, against the comment at 10296.

4. `search_nobody`: the three minutes are looked at only inside the loop over the
   drivers in range (booking.service.ts 4426, 4469), against the limit declared at
   4287. With nobody in range the search goes on for ever. (With somebody in
   range it can fail too early instead: late, the first driver passed over
   fails the booking, whether or not the next one is free.)

## 4. What is proved

About `Dispatch`, for any sets of bookings, drivers and handlers, and any set of active parties,
from `ScheduledAssumption` and `NoneAssumption` (null is no booking and no driver):

- `TypeCorrect`: `Spec => []TypeOK`. `TypeOK` is inductive. `StepDriver`,
  `StepBooking`, `MoveCall`, `StoreCall` say what each way of starting, moving
  and ending a call keeps; `StartType` and `ContinueType` have one step per action.
- `WinnersOnly`: `Spec => []OnlyWinners`. `OnlyWinners` is not inductive: a decline
  or a hand-over writes a remembered driver into a document. `Winners` adds
  `CallWinners`: the driver a call remembers has won the call's booking, an
  accept's own driver has too, and a hand-over about to write remembers somebody.
  Steps that put nobody new into a document are collected in `KeepsOnlyWinners`;
  what remains are the accept, the decline's write and the hand-over.

- `OffersFindable`: `Spec => []FlagHasBooking`. Inductive with `TypeOK`: every change
  of a driver document is an `OfferMove`, which clears the flag, names a booking, or
  leaves both alone.
- `StatusSound`: `Spec => []StatusAgreesWithDriver`. `StatusInv` adds what the declines
  in flight remember (`DeclineAgrees`): about a scheduled booking no dispatcher has
  saved, nobody. Without that a decline could write an old driver back into an open
  booking. The steps that matter are the accept, the decline's read and write, the
  driver's cancel and the dispatcher's save.
- `StrandedByAssign`: `Spec => StrandedOnlyByAssign`, an action property: every other
  step is a `StrandsNot` change of each driver.
- `RefinesLifecycle`: `Spec => ImplementsLifecycle`. Every step moves one booking or
  none (`NextMoves`), and every `RideMove` of a document is a step of the lifecycle or
  a stutter (`RideMoves`). It needs one fact more than `TypeOK`: that `ongoing` is
  assigned nowhere (`NeverOngoing`).

So every property of the passing runs of `Dispatch` is also a theorem.

About `SearchLoop`, for any drivers, searches, polls and number of requests, from
its assumptions (the drivers in range are drivers, there is at least one poll, null
is no driver):

- `SearchTypeCorrect`: `Spec => []TypeOK`. `TypeInv` adds `LoopOK`: a search that asks
  knows whom, has polled zero times before it polls, and fewer than `Polls` times
  when it is about to. `SetLoop` and `MoveLoop` say what giving a search a new
  record, or another step, keeps.
- `OffersWatched`: `Spec => []OfferWatched`. Inductive with `TypeInv` and that a
  cancelled booking was cancelled by the customer. `KeepWatch` reduces a step to:
  it flags nobody, and who stays flagged keeps his watchers. What remains are the
  step that flags, the poll that sees the cancel, and the exit.

- `NobodyAskedTwice`: `Spec => AskedOnce`, an action property. `AskedInv`: while there is
  at most one list, whom a search has asked is in it (`Listed`), but for the driver it
  is just asking; and a search that chooses skips whom it has asked. A search that
  pushes to a list knows that there is one.
- `OpenSearched`: `Spec => []OpenIsSearched`. Two invariants, both while `lost` is empty.
  `AnswersInv`: an accept that is under way is by who holds the booking, and one that
  is recorded by who holds it or has cancelled it. `SearchedInv`: of the searches for an
  open booking one is `Healthy`: no recorded accept can end it. The polls ask for the
  first record of a driver, so without `AnswersInv` the search would stop at an old
  accept. The proof showed that `lost` missed a case, which takes three drivers and
  more requests than the run has: a driver cancels twice, the second write comes when
  a decline has taken him off and another has accepted. `DriverCancelWrite` names it now.

- `SearchRefinesLifecycle`: `Spec => Lifecycle!Spec`, with the one booking for
  `Bookings`. `BookingMoves` is what a step may do to the document: nothing, an accept
  of an open one, or anything that leaves it open or dead; `MovesAreSteps` finds the
  step of the lifecycle for each.

About `Scheduler`, for any bookings, drivers, ticks, requests, times and number of
events:

- `SchedulerTyped`: `Spec => []TypeOK`. `TypeInv` adds `JobOK`: a job that is about a
  booking, or a driver, has one. `MovesJob` says what giving a job a new record keeps.
- `MarksAreLoops`: `MarkedIsLooped` is inductive with the types.
- `LoopsAreLone`: `Spec => []OneLoop`. `OneLoop` counts loops and is not inductive. `Lone`
  adds who has checked the mark and not set it yet (`AtWork`): they are one at most, but
  for the bookings of `raced` and `stuck`, and whoever loops has the booking marked.
- `ToldAreHandedOver`: `ToldIsHandedOver` is inductive with the types, as `missed` names
  every way out of the hand-over; what takes the mark back takes the booking out of
  `missed` too.
- `RefundsAreSingle`: `Spec => []RefundedOnce`. `Once` says what a tick's list remembers: a
  booking on it that has not changed is open, without a driver, and not failed yet;
  one that was failed once stays so.
- `SchedulerRefinesLifecycle`: `Spec => Lifecycle!Spec`. A tick or a loop writes marks or
  fails one booking (`JobMoves`), the others take, cancel or reopen one
  (`OtherMoves`). So the two detailed models, each with steps the other leaves out,
  and `Dispatch` keep one promise about who holds a booking.

About `Ride`, for any fare, rate, tax, free minutes, and any processes, from
`RideAssumption` and `NoTimeAssumption` (null is no status and no time):

- `RideTyped`: `Spec => []RideTypeOK`. `ProcOK` adds that a tick at a place has found the
  booking in that list, that the list of the pickup has accepted bookings only, and
  that one about to charge has waited long enough by what it has read.
- `ChargedWhileRiding`: `Spec => OnlyRidesAreCharged`, an action property: every other
  step leaves `stop_charges` alone or finds the ride accepted.
- `TotalAddsUp`: `MoneyAddsUp` is inductive with the types: each writer that keeps the
  sum, and each that does not, is either one of `causes` or was computed from what is
  still there.
- `RideListedOnce`: `Spec => []ListedOnce`. `StageInv`: accepted is with, open (null or
  `request`) without a driver. The lists are then a case distinction over the two
  statuses.

About `Payment`, for any amounts, any bookings and processes, finite or not, and any
bounds on deliveries and cancels:

- `PaymentTyped`: `Spec => []PaymentTypeOK`. `TypeInv` has six parts; beside the types, a
  price is the fare and the debt it carries (`PricesOK`), and the rows of earnings,
  written or under way, are no more than Stripe's events (`EarningsOK`).
- `DebtBilled`: `Spec => DebtIsBilled`, an action property. `DebtInv`: while there is a debt
  every booking carries it or was made before it arose. It needs `BornInv`: a booking
  that is not made yet has no intent, no row and nobody but its creator at work.
- `MarkIsTrue`: `Spec => []RefundMarkIsTrue`. `MarkInv` adds what the two steps between
  the calls know: at `mark` Stripe has refunded, at `refundall` the mark is set.
- `BooksAreBalanced`: `Spec => []BooksBalance`. `BookInv` follows a `Good` booking, to which
  nothing happens that the code has no answer to: the trip's one event and its rows
  (`TripOK`), its stages (`StageOK`), the waiting charge (`StopOK`), the one refund and
  its amount (`RefundOK`), and what the row says at each of these moments (`RowOK`).
  `GoodBefore`: a booking that is good was good before; `ElsewhereBook`: steps about
  other bookings leave it alone. What remains is one lemma per action.
- `RefundsAreUnderWay`: `Spec => []RefundUnderWay`, the safety half of
  `PaidCancelIsRefunded`: a paid booking that is cancelled or fails has been refunded,
  or a process is on its way to the refund, or the server exited while at work on it.
  What is left to fairness is that such a process goes on. `DueInv` is inductive with
  the types and `BornInv`.

About `Pricing`, for any prices of tolls and any documents whose amounts are natural
numbers:

- `TollsCover`: the toll of a route of any number of stops is no less than that of its
  legs, and it is theirs when there is one leg.
- `QuoteHolds`: `QuoteIsCharged`, for any bands, add-ons, tax, levy, toll, debt and coupon,
  with or without the vehicle's surcharge: the web is quoted what is charged, the app
  as well unless the pickup is far, when it is quoted less, and a coupon takes off no
  more than its most.
- `PricesAreQuoted`: `WorldSpec => []PricesAgree`, from both, for whatever `Trips` has.

About `MCAccounts`, for any sets of users, devices, vehicles, chats, messages, orders,
coupons, periods, records and handlers, finite or not (but the orders, which are
counted), and any bounds on requests. Its assumptions say that null is none of the
values, that users, connections, bookings, coupons and the like are numbered (`find`
takes the first, and `NatMin` gives it), and that parties of a chat differ. Every
theorem is about `WorldSpec`, the specification TLC runs; `SessionStep`, `DriverStepIs`
and their like reduce a step of it to one of the part or to a stutter.

- `ContactsFindOne`: `WorldSpec => []OneAccount`, and `BlockedStayOut`:
  `WorldSpec => []SessionsHold`, from one invariant, `SessionInv`. `OwnerInv`: a phone or
  e-mail that is not contested is held, kept aside, being changed to, or being signed
  up with, by one account or one device. `EntryInv`: one device signs in to an account at
  a time, and by then its sessions are gone. `NoWayIn`: who is blocked has no session, no
  request, nothing waiting to become his phone, and no code for his phone is out or can be
  asked for; that needs that no deleted account has it. It holds from the moment of the
  block but for the accounts of `late`, since nothing later takes a token back.
- `DriversDrive`: `WorldSpec => []ApprovedDrives`. `AccountInv`, unless two requests
  overlapped (`mixed`): one vehicle at most is in use or waits (`OneUsed`), what each
  step of a request can count on (`RequestHolds`), and that what waits is asked for
  in the driver's document once no request is at work (`Decided`).
- `ChatsAreLinked`: `WorldSpec => []ChatsHold`. `ChatInv`: what a user or the booking refers
  to is open, given up by an exception (`orphaned`), or about to be forgotten by a
  handler that is closing it (`Clears`, `Unbooks`); who opens the booking's chat is
  alone and has found none (`RoomHolds`).
- `MessagesSent`: `WorldSpec => []MessagesHold`. `HadInv`: who is marked as having read, or
  looks, has had every message, is about to (`Coming`: it is in a list under way to
  him), or it went to a socket he had left (`missed`); marks that closing the chat has
  made (`closed`) say nothing.
- `BooksAreKept`: `WorldSpec => []OrdersHold`. `OrdersInv`: a handler about to write has the
  method and total of its booking in hand, unless they changed (`FormHolds`); what the
  last edit left (`EditHolds`); what the paid driver was told (`PayoutHolds`); a number
  has one customer, or one order looking for him (`GuestsHold`).
- `RecordsAreFound`: `WorldSpec => []RecordsHold`. `ReviewsInv`: the rating is the average of
  as many of the first reviews as were counted, and the count is complete or a handler
  that has read them all is about to write (`RatingHolds`). `RegistryInv`: requests about
  to create a record know of no other with what they have looked for so far (`Checked`),
  nor of each other.
- `RatingsAreMeans`: if every rate is a number of `low .. high`, so is every rating that
  is written, counted in tenths (`WorldSpec => []RatingsIn(low, high)`). `Rated`: a
  rating is none or the average of some reviews; `ReadSome`: what a handler has read
  is not empty, so that nothing is divided by zero.
- `OffersAreKept`: `WorldSpec => []OffersHold`. `UsesHold`: whoever is pricing with a
  coupon, or has used it, was shown it or has named it unseen, and once used it is not
  shown again. `CodesHold` and `PeriodsHold`: two coupons or periods
  clash, stored or in requests under way, only if they are in `raced`, or edited.

- `AccountsTyped`: `WorldSpec => []AccountsTypeOK`, the types of all ten parts. Those of
  eight are parts of the invariants above; `OffersTypeInv` and the types of ratings,
  which come from `RatingsAreMeans`, are added.

So every safety property of the passing runs, invariant or action property, is also a
theorem.

*Sums and lists.* The provers cannot instantiate an induction theorem, so what a loop
over a list adds up is proved in `SumProofs` by the least counterexample: were there a
length for which a claim fails, there would be a least one (`NatMin`), and the totals
of one element less can be continued (`SumsExist`, `SumsAgree`, `SumNext`). That is why
`Pricing` and `Records` write their loops with `SumTo` and not with a fold. Two more
assumptions on constants carry these proofs: `Rates \subseteq Nat` (stars are whole
numbers) and `MaxOffers \in Nat`.

Changes of the models that the proofs asked for: the fourth case of `lost` above;
`total` and `stop` of `Ride` are integers, since nothing bounds them for every value
of the constants; `MaxCancels` of `Payment` is per booking; in `Session`, `WriteContact`
adds to `late` the blocked accounts that its write lets in, which takes more requests
than the run has.

Only model-checked: all liveness (`SearchEnds`, `OfferEnds`, `ScheduledIsSettled`,
`PaidCancelIsRefunded`, `WaitIsBilled`), which under fairness is out of the prover's
reach; of two of them the safety half is proved (`OffersWatched` for `OfferEnds`,
`RefundsAreUnderWay` for `PaidCancelIsRefunded`). The findings are TLC's. No module has
a recursive operator; `SumTo` is a recursive function.

## 5. Plan

Done: `Dispatch` with its refinement, `SearchLoop`, `Scheduler`, `Payment` and `Pricing`,
`Ride` and `Listings`, `Session`, `DriverAccount`, `Chat` and `Messages`, `Offers`,
`Orders`, `Records`; proofs of every safety property of the runs, and that `Dispatch`,
`SearchLoop` and `Scheduler` implement `RideLifecycle`.

To come: two bookings of one driver in `Dispatch`. Its theorems hold for any number of
bookings; what only a run shows, that each mutant is found and how large the states
become, is for one.

## 6. Not modelled

- The wallet: nothing that is called credits one (`Add_money_to_wallet` is not), so
  `payment_with_wallet` passes only for a total of nothing. Payment in cash, bank
  accounts, which are handed to Stripe, and the reports of earnings and payouts with
  their export, which change nothing. (`driverEarning` groups before it reads
  `$amount_for_driver`, so that its page shows 0.)
- `availableRides`, the dispatcher's quote, multiplies the distance by the array of
  price bands, which is not a number; `CheckCoupon` reads a status.
- Staff and the admin's login: `email` has a unique index, so that nothing hangs on
  two steps; notifications and e-mail, whose results nobody reads; FAQ, pages,
  contact, configuration: single writes of one document. The reply to a complaint
  and the switch of a vehicle price are single writes too.
- `UnreadMessage` and `leave-connection` (which user looks at which chat), pushes.
- Wiring (`db`, modules, guards but the session guard), data transfer objects,
  controllers, texts of mails, uploads.
- Code nobody calls: `find_drivers_under_5km_radius_old`,
  `sent_broadcast_request_under_7_km____`, `sent_broadcast_request_`,
  `continue_with_phone_old`, `verify_phone_old`, `scheduledBookingList_old`,
  `transferMoney`, `payountCalculation`, `calculate_booking_amount`, `Ride_Completed_`,
  `driverPendingPaymentUpdate`, `check_stop_time`, `check_pickup_to_start_ride_time`,
  `findDriversInSameCity`, `createConnectionWithDispatcher`.
