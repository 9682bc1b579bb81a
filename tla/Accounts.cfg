SPECIFICATION WorldSpec
CONSTANTS
    Users = {1, 2, 3}
    Devices = {p1, p2}
    Phones = {n1, c1}
    Emails = {e1}
    Corporate = {c1}
    MaxRequests = 5
    Vehicles = {v1, v2}
    Slots = {p1, p2}
    MaxChanges = 5
    Driver = driver1
    Customer = customer1
    Staff = {u1, u2}
    Connections = {1, 2}
    Threads = {p1, p2}
    MaxEvents = 3
    Coupons = {1, 2}
    Codes = {k1, k2}
    Customers = {u1, u2}
    Periods = {3, 4}
    Vehicle_types = {x1}
    Desks = {p1, p2}
    MaxOffers = 5
    LastHour = 2
    Orders = {1, 2}
    Guests = {11, 12}
    Numbers = {n1}
    Quotes = {25, 50}
    Forms = {p1, p2}
    MaxForms = 3
    LastSlot = 2
    Rides = {1, 2}
    Rates = {2, 5}
    Ids = {1, 2}
    Keys = {k1, k2}
    Capitals = {k2}
    Dials = {d1, d2}
    Taken = {d2}
    Clerks = {p1, p2}
    MaxCalls = 4
    Other = other1
    Messages = {1, 2}
    Tasks = {p1, p2}
    MaxSocketEvents = 5
    None = None
SYMMETRY Symmetry
INVARIANTS AccountsTypeOK OneAccount SessionsHold ApprovedDrives ChatsHold OffersHold OrdersHold RecordsHold MessagesHold
CHECK_DEADLOCK FALSE
