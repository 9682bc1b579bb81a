SPECIFICATION WorldSpec
CONSTANTS
    Bookings = {b1, b2}
    Procs = {p1, p2}
    Fare = 10
    Fee = 3
    Stop = 2
    MaxDeliveries = 2
    MaxCancels = 2
    None = None
INVARIANTS PaymentTypeOK BooksBalance RefundMarkIsTrue PricesAgree
PROPERTIES DebtIsBilled PaidCancelIsRefunded
CHECK_DEADLOCK FALSE
