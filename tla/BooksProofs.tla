---------------------------- MODULE BooksProofs -----------------------------
(***************************************************************************)
(* Proofs about the books that MCAccounts puts side by side: the payments, *)
(* invoices and drafts of dispatchers' and web bookings (Orders), the      *)
(* ratings and the records looked for before they are created (Records),   *)
(* and the coupons and surcharge periods (Offers).  With AccountsProofs it *)
(* gives the types of all of MCAccounts.  Every theorem is about WorldSpec,*)
(* the specification TLC runs.                                             *)
(***************************************************************************)
EXTENDS AccountsProofs

-----------------------------------------------------------------------------
(* Orders: the books.                                                      *)

SeenType == [method : B!Methods, total : B!Sums]
EditType == [was : B!Sums, method : B!Methods, stale : BOOLEAN]
GuestType == [live : BOOLEAN, phone : Numbers \cup {None}, temp_phone : Numbers \cup {None}]
FormType ==
    [pc : {"idle", "store", "given", "read", "write", "guest", "web", "income", "intent"},
     id : Orders \cup {None}, phone : Numbers \cup {None}, customer : Guests \cup {None},
     quote : B!Sums, given : B!Sums, method : B!Methods, income : Nat, date : 0 .. LastSlot,
     seen : SeenType, stale : BOOLEAN]

OrdersType ==
    /\ order \in [Orders -> B!OrderType] /\ guest \in [Guests -> GuestType]
    /\ form \in [Forms -> FormType]
    /\ filed \in 0 .. MaxForms /\ now \in 0 .. LastSlot
    /\ last \in [Orders -> EditType] /\ told \in [Orders -> Nat \cup {None}]
    /\ altered \subseteq Orders /\ crossed \subseteq Numbers

LEMMA OrdersTyped == OrdersType => B!TypeOK
  <1>. SUFFICES ASSUME OrdersType PROVE B!TypeOK
    OBVIOUS
  <1>1. ASSUME NEW f \in Forms
        PROVE  /\ form[f].pc \in {"idle", "store", "given", "read", "write", "guest", "web",
                                  "income", "intent"}
               /\ form[f].id \in Orders \cup {None} /\ form[f].seen \in SeenType
    BY DEF OrdersType, FormType
  <1>. QED  BY <1>1 DEF OrdersType, B!TypeOK, GuestType, SeenType

LEMMA LowestIs ==
  ASSUME NEW X, X \subseteq Nat, X # {}
  PROVE  B!Lowest(X) \in X /\ \A y \in X : B!Lowest(X) <= y
  BY NatMin DEF B!Lowest

LEMMA NextOrderIs ==
  ASSUME OrdersType, B!Booked # Orders
  PROVE  B!NextOrder \in Orders /\ B!NextOrder \notin B!Booked
  <1>1. Orders \ B!Booked \subseteq Nat /\ Orders \ B!Booked # {}
    BY OrdersAssumption DEF B!Booked
  <1>. QED  BY <1>1, LowestIs DEF B!NextOrder

LEMMA FirstOrders ==
  /\ B!NoOrder \in B!OrderType /\ B!Blank \in FormType /\ B!NoEdit \in EditType
  /\ B!Blank.pc = "idle"
  BY OrdersAssumption
     DEF B!NoOrder, B!OrderType, B!Blank, FormType, B!NoSeen, SeenType, B!NoEdit, EditType,
         B!Methods, B!Sums

LEMMA OrdersTypeInit == B!Init => OrdersType
  <1>. SUFFICES ASSUME B!Init PROVE OrdersType
    OBVIOUS
  <1>1. 0 \in 0 .. MaxForms /\ 0 \in 0 .. LastSlot
    BY OrdersAssumption
  <1>2. guest \in [Guests -> GuestType]
    BY DEF B!Init, GuestType
  <1>. QED  BY <1>1, <1>2, FirstOrders DEF B!Init, OrdersType

\* What the driver of a web order is to get.
LEMMA ShareIs == ASSUME NEW fee \in Nat PROVE B!DriverShare(fee) \in Nat
  BY DEF B!DriverShare

LEMMA PutType ==
  ASSUME OrdersType, NEW f \in Forms, NEW q \in FormType, B!Put(f, q)
  PROVE  /\ form' \in [Forms -> FormType]
         /\ form'[f] = q /\ \A x \in Forms \ {f} : form'[x] = form[x]
  BY DEF OrdersType, B!Put

LEMMA OutdateType ==
  ASSUME OrdersType, NEW f \in Forms, NEW b, form' = B!Outdate(f, b)
  PROVE  /\ form' \in [Forms -> FormType]
         /\ form'[f] = B!Blank
         /\ \A x \in Forms \ {f} :
              /\ form'[x].pc = form[x].pc /\ form'[x].id = form[x].id
              /\ form'[x].phone = form[x].phone /\ form'[x].seen = form[x].seen
              /\ form[x].pc = "write" /\ form[x].id = b => form'[x].stale
              /\ ~(form[x].pc = "write" /\ form[x].id = b) => form'[x] = form[x]
  <1>. DEFINE new(x) == [form[x] EXCEPT !.stale = TRUE]
  <1>1. form \in [Forms -> FormType]
    BY DEF OrdersType
  <1>2. ASSUME NEW x \in Forms
        PROVE  /\ new(x) \in FormType /\ new(x).stale /\ new(x).pc = form[x].pc
               /\ new(x).id = form[x].id /\ new(x).phone = form[x].phone
               /\ new(x).seen = form[x].seen
    BY <1>1 DEF FormType
  <1>3. form' = [x \in Forms |-> IF x = f THEN B!Blank
                   ELSE IF form[x].pc = "write" /\ form[x].id = b THEN new(x) ELSE form[x]]
    BY DEF B!Outdate
  <1>. HIDE DEF new
  <1>. QED  BY <1>1, <1>2, <1>3, FirstOrders

\* The one order a step is about.
OneOrder(b) == \A x \in Orders \ {b} : order'[x] = order[x]

LEMMA OrderPut ==
  ASSUME OrdersType, NEW b \in Orders, NEW k \in B!OrderType, order' = [order EXCEPT ![b] = k]
  PROVE  order' \in [Orders -> B!OrderType] /\ order'[b] = k /\ OneOrder(b)
  BY DEF OrdersType, OneOrder

\* What write puts in the book.
Written(j, old) ==
    [old EXCEPT
       !.method = j.method, !.total = j.quote,
       !.amount_for_driver = IF j.income = 0 THEN @ ELSE j.income,
       !.pay_by_customer = IF j.seen.method = "invoice" /\ j.seen.total < j.quote
                           THEN j.quote - j.seen.total ELSE @,
       !.pay_to_customer = IF j.seen.method = "invoice" /\ j.seen.total > j.quote
                           THEN j.seen.total - j.quote ELSE @]

LEMMA WrittenType ==
  ASSUME NEW j \in FormType, NEW old \in B!OrderType
  PROVE  /\ Written(j, old) \in B!OrderType
         /\ Written(j, old).status = old.status
         /\ Written(j, old).pay_to_driver = old.pay_to_driver
         /\ Written(j, old).method = j.method /\ Written(j, old).total = j.quote
         /\ Written(j, old).amount_for_driver = IF j.income = 0 THEN old.amount_for_driver
                                                ELSE j.income
         /\ Written(j, old).pay_by_customer =
               IF j.seen.method = "invoice" /\ j.seen.total < j.quote
               THEN j.quote - j.seen.total ELSE old.pay_by_customer
         /\ Written(j, old).pay_to_customer =
               IF j.seen.method = "invoice" /\ j.seen.total > j.quote
               THEN j.seen.total - j.quote ELSE old.pay_to_customer
  <1>. DEFINE a == IF j.income = 0 THEN old.amount_for_driver ELSE j.income
              d == IF j.seen.method = "invoice" /\ j.seen.total < j.quote
                   THEN j.quote - j.seen.total ELSE old.pay_by_customer
              c == IF j.seen.method = "invoice" /\ j.seen.total > j.quote
                   THEN j.seen.total - j.quote ELSE old.pay_to_customer
  <1>1. /\ j.method \in B!Methods /\ j.quote \in B!Sums /\ j.income \in Nat
        /\ j.seen.total \in B!Sums
    BY DEF FormType, SeenType
  <1>2. B!Sums \subseteq Nat
    BY OrdersAssumption DEF B!Sums
  <1>3. old.amount_for_driver \in Nat /\ old.pay_by_customer \in Nat /\ old.pay_to_customer \in Nat
    BY DEF B!OrderType
  <1>4. a \in Nat /\ d \in Nat /\ c \in Nat
    <2>1. j.quote \in Nat /\ j.seen.total \in Nat
      BY <1>1, <1>2
    <2>2. \A m, n \in Nat : (m < n => n - m \in Nat) /\ (m > n => m - n \in Nat)
      OBVIOUS
    <2>. QED  BY <1>1, <1>3, <2>1, <2>2
  <1>5. Written(j, old) = [old EXCEPT !.method = j.method, !.total = j.quote,
                             !.amount_for_driver = a, !.pay_by_customer = d, !.pay_to_customer = c]
    BY DEF Written, B!OrderType
  <1>. HIDE DEF a, d, c
  <1>6. /\ Written(j, old) \in B!OrderType
        /\ Written(j, old).status = old.status
        /\ Written(j, old).pay_to_driver = old.pay_to_driver
        /\ Written(j, old).method = j.method /\ Written(j, old).total = j.quote
        /\ Written(j, old).amount_for_driver = a
        /\ Written(j, old).pay_by_customer = d /\ Written(j, old).pay_to_customer = c
    BY <1>1, <1>4, <1>5 DEF B!OrderType
  <1>. QED  BY <1>6 DEF a, d, c

LEMMA WriteIs ==
  ASSUME OrdersType, NEW f \in Forms, B!WriteUpdate(f), form[f].id \in Orders
  PROVE  order' = [order EXCEPT ![form[f].id] = Written(form[f], order[form[f].id])]
  <1>1. order \in [Orders -> B!OrderType] /\ order[form[f].id] \in B!OrderType
    BY DEF OrdersType
  <1>. DEFINE j == form[f]
              old == order[form[f].id]
  <1>2. PICK a, d, c :
          /\ a = IF j.income = 0 THEN old.amount_for_driver ELSE j.income
          /\ d = IF j.seen.method = "invoice" /\ j.seen.total < j.quote
                 THEN j.quote - j.seen.total ELSE old.pay_by_customer
          /\ c = IF j.seen.method = "invoice" /\ j.seen.total > j.quote
                 THEN j.seen.total - j.quote ELSE old.pay_to_customer
    OBVIOUS
  <1>3. Written(j, old) = [old EXCEPT !.method = j.method, !.total = j.quote,
                             !.amount_for_driver = a, !.pay_by_customer = d, !.pay_to_customer = c]
    BY <1>1, <1>2 DEF Written, B!OrderType
  <1>. DEFINE b == form[f].id
              q1 == [order EXCEPT ![b].method = j.method]
              q2 == [q1 EXCEPT ![b].total = j.quote]
              q3 == [q2 EXCEPT ![b].amount_for_driver = a]
              q4 == [q3 EXCEPT ![b].pay_by_customer = d]
              q5 == [q4 EXCEPT ![b].pay_to_customer = c]
  <1>4. order' = q5
    BY <1>1, <1>2 DEF B!WriteUpdate, B!OrderType
  <1>. QED  BY <1>1, <1>3, <1>4 DEF B!OrderType

\* A booking that is made.
LEMMA StoredIs ==
  ASSUME OrdersType, NEW f \in Forms, B!StoreOrder(f) \/ B!StoreWebOrder(f)
  PROVE  \E k \in B!OrderType :
            /\ order' = [order EXCEPT ![B!NextOrder] = k]
            /\ k.status = "open" /\ k.pay_to_driver = "unpaid"
  <1>0. form[f] \in FormType
    BY DEF OrdersType
  <1>1. CASE B!StoreOrder(f)
    <2>1. PICK k : k = [B!NoOrder EXCEPT !.status = "open", !.by = "dispatcher",
                    !.method = form[f].method, !.total = form[f].quote,
                    !.amount_for_driver = form[f].income]
      OBVIOUS
    <2>2. form[f].method \in B!Methods /\ form[f].quote \in B!Sums /\ form[f].income \in Nat
      BY <1>0 DEF FormType
    <2>3. k \in B!OrderType
      BY <2>1, <2>2, FirstOrders DEF B!OrderType
    <2>4. k.status = "open" /\ k.pay_to_driver = "unpaid"
      BY <2>1 DEF B!NoOrder
    <2>. QED  BY <1>1, <2>1, <2>3, <2>4 DEF B!StoreOrder
  <1>2. CASE B!StoreWebOrder(f)
    <2>1. PICK k : k = [B!NoOrder EXCEPT !.status = "open", !.by = "web", !.total = form[f].quote,
                    !.customer = form[f].customer, !.schedule_date = form[f].date]
      OBVIOUS
    <2>2. k \in B!OrderType /\ k.status = "open" /\ k.pay_to_driver = "unpaid"
      BY <1>0, <2>1, OrdersAssumption
         DEF B!NoOrder, B!OrderType, FormType, B!Methods, B!Sums
    <2>. QED  BY <1>2, <2>1, <2>2 DEF B!StoreWebOrder
  <1>. QED  BY <1>1, <1>2

\* The handlers go on with a booking they have made or read.
FormHolds(j) ==
    /\ j.pc \in {"given", "read", "write", "income"} => j.id \in B!Booked
    /\ j.pc = "write" /\ ~j.stale => /\ j.seen.method = order[j.id].method
                                     /\ j.seen.total = order[j.id].total
    /\ j.pc = "guest" => j.phone \in Numbers

\* What the last edit of an invoice left to be paid or given back.
EditHolds(b) ==
    /\ b \notin B!Booked => last[b].method = "card"
    /\ last[b].method = "invoice" /\ ~last[b].stale =>
         /\ order[b].total > last[b].was =>
              order[b].pay_by_customer = order[b].total - last[b].was
         /\ order[b].total < last[b].was =>
              order[b].pay_to_customer = last[b].was - order[b].total

\* What the driver who was paid was told.
PayoutHolds(b) ==
    order[b].pay_to_driver = "paid" =>
        told[b] # None /\ (told[b] = order[b].amount_for_driver \/ b \in altered)

LEMMA OrderTypeStep ==
  ASSUME OrdersType, [B!Next]_(B!vars), \A f \in Forms : FormHolds(form[f])
  PROVE  order' \in [Orders -> B!OrderType]
  <1>0. order \in [Orders -> B!OrderType] /\ form \in [Forms -> FormType]
    BY DEF OrdersType
  <1>1. ASSUME NEW f \in Forms, B!StoreOrder(f) \/ B!StoreWebOrder(f)
        PROVE  order' \in [Orders -> B!OrderType]
    BY <1>0, <1>1, StoredIs
  <1>2. ASSUME NEW f \in Forms, B!SaveTotal(f) PROVE order' \in [Orders -> B!OrderType]
    <2>1. PICK v \in B!Sums : v = form[f].given
      BY <1>0 DEF FormType
    <2>2. PICK b \in Orders : b = form[f].id
      BY <1>2 DEF B!SaveTotal, FormHolds, B!Booked
    <2>3. order' = [order EXCEPT ![b].total = v]
      BY <1>2, <2>1, <2>2 DEF B!SaveTotal
    <2>. QED  BY <1>0, <2>3 DEF B!OrderType
  <1>3. ASSUME NEW f \in Forms, B!WriteUpdate(f) PROVE order' \in [Orders -> B!OrderType]
    <2>1. form[f].id \in Orders /\ form[f] \in FormType
      BY <1>0, <1>3 DEF B!WriteUpdate, FormHolds, B!Booked
    <2>2. Written(form[f], order[form[f].id]) \in B!OrderType
      BY <1>0, <2>1, WrittenType
    <2>. QED  BY <1>0, <1>3, <2>1, <2>2, WriteIs
  <1>4. ASSUME NEW b \in Orders, NEW v \in Nat, order' = [order EXCEPT ![b].amount_for_driver = v]
        PROVE  order' \in [Orders -> B!OrderType]
    BY <1>0, <1>4 DEF B!OrderType
  <1>5. ASSUME NEW f \in Forms, B!WriteIncome(f) PROVE order' \in [Orders -> B!OrderType]
    <2>1. form[f].quote \in Nat
      BY <1>0, OrdersAssumption DEF FormType, B!Sums
    <2>2. form[f].id \in Orders
      BY <1>0, <1>5 DEF B!WriteIncome, FormHolds, B!Booked
    <2>. QED  BY <1>4, <1>5, <2>1, <2>2, ShareIs DEF B!WriteIncome
  <1>6. ASSUME NEW b \in Orders, NEW amount \in Quotes, B!UpdateDriverIncome(b, amount)
        PROVE  order' \in [Orders -> B!OrderType]
    BY <1>4, <1>6, OrdersAssumption DEF B!UpdateDriverIncome
  <1>7. ASSUME NEW b \in Orders, NEW status \in {"paid", "unpaid"}, B!UpdatePaymentStatus(b, status)
        PROVE  order' \in [Orders -> B!OrderType]
    BY <1>0, <1>7 DEF B!UpdatePaymentStatus, B!OrderType
  <1>8. ASSUME NEW b \in Orders, B!CompleteOrder(b) \/ B!WebPaid(b)
        PROVE  order' \in [Orders -> B!OrderType]
    <2>1. CASE order' = [order EXCEPT ![b].status = "completed"]
      BY <1>0, <2>1 DEF B!OrderType
    <2>2. CASE order' = [order EXCEPT ![b].payment_success = TRUE]
      <3>1. PICK v \in BOOLEAN : v = TRUE
        OBVIOUS
      <3>2. order' = [order EXCEPT ![b].payment_success = v]
        BY <2>2, <3>1
      <3>. QED  BY <1>0, <3>2 DEF B!OrderType
    <2>. QED  BY <1>8, <2>1, <2>2 DEF B!CompleteOrder, B!WebPaid
  <1>9. CASE UNCHANGED order
    BY <1>0, <1>9
  <1>. QED
    BY <1>1, <1>2, <1>3, <1>5, <1>6, <1>7, <1>8, <1>9
       DEF B!Next, B!vars, B!DispatcherStep, B!WebStep, B!BookStep, B!HourPasses,
           B!ScheduleByDispatcher, B!UpdateByDispatcher, B!ReadPrevious, B!OrderOnWeb,
           B!CreateGuest, B!WebIntent, B!VerifyGuest

LEMMA SameGuest ==
  ASSUME OrdersType, NEW phone
  PROVE  LET same == {g \in B!Live : phone \in {guest[g].phone, guest[g].temp_phone}}
         IN  same # {} => B!Lowest(same) \in Guests
  <1>. DEFINE same == {g \in B!Live : phone \in {guest[g].phone, guest[g].temp_phone}}
  <1>1. same \subseteq Guests /\ same \subseteq Nat
    BY OrdersAssumption DEF B!Live
  <1>. HIDE DEF same
  <1>2. same # {} => B!Lowest(same) \in Guests
    BY <1>1, LowestIs
  <1>. QED  BY <1>2 DEF same

LEMMA FormTypeStep ==
  ASSUME OrdersType, [B!Next]_(B!vars), \A f \in Forms : FormHolds(form[f])
  PROVE  form' \in [Forms -> FormType]
  <1>0. /\ order \in [Orders -> B!OrderType] /\ form \in [Forms -> FormType]
        /\ B!Blank \in FormType
    BY FirstOrders DEF OrdersType
  <1>1. ASSUME NEW f \in Forms, NEW quote \in Quotes, NEW given \in Quotes \cup {0},
               NEW method \in B!Methods, NEW income \in {0, 1},
               B!ScheduleByDispatcher(f, quote, given, method, income)
        PROVE  form' \in [Forms -> FormType]
    <2>1. PICK q : q = [B!Blank EXCEPT !.pc = "store", !.quote = quote, !.given = given,
                                       !.method = method, !.income = income]
      OBVIOUS
    <2>2. quote \in B!Sums /\ given \in B!Sums /\ income \in Nat
      BY DEF B!Sums
    <2>3. q \in FormType
      BY <1>0, <2>1, <2>2 DEF FormType
    <2>. QED  BY <1>1, <2>1, <2>3, PutType DEF B!ScheduleByDispatcher
  <1>2. ASSUME NEW f \in Forms, NEW quote \in Quotes, NEW given \in Quotes \cup {0},
               NEW method \in B!Methods, NEW income \in {0, 1}, NEW b \in Orders,
               B!UpdateByDispatcher(f, b, quote, given, method, income)
        PROVE  form' \in [Forms -> FormType]
    <2>1. PICK v \in B!Sums : v = IF given = 0 THEN quote ELSE given
      BY DEF B!Sums
    <2>2. PICK q : q = [B!Blank EXCEPT !.pc = "read", !.id = b, !.method = method,
                                       !.income = income, !.quote = v]
      OBVIOUS
    <2>. HIDE DEF B!Methods
    <2>3. q \in FormType
      <3>1. income \in Nat
        OBVIOUS
      <3>. QED  BY <1>0, <2>2, <3>1 DEF FormType
    <2>. QED  BY <1>2, <2>1, <2>2, <2>3, PutType DEF B!UpdateByDispatcher
  <1>3. ASSUME NEW f \in Forms, B!StoreOrder(f) PROVE form' \in [Forms -> FormType]
    <2>1. B!NextOrder \in Orders
      BY <1>3, NextOrderIs DEF B!StoreOrder
    <2>2. [form[f] EXCEPT !.pc = "given", !.id = B!NextOrder] \in FormType
      BY <1>0, <2>1 DEF FormType
    <2>. QED  BY <1>0, <1>3, <2>2, PutType DEF B!StoreOrder
  <1>4. ASSUME NEW f \in Forms, B!SaveTotal(f) \/ B!WriteUpdate(f)
        PROVE  form' \in [Forms -> FormType]
    BY <1>4, OutdateType DEF B!SaveTotal, B!WriteUpdate
  <1>5. ASSUME NEW f \in Forms, B!ReadPrevious(f) PROVE form' \in [Forms -> FormType]
    <2>1. PICK s : s = [method |-> order[form[f].id].method, total |-> order[form[f].id].total]
      OBVIOUS
    <2>2. PICK q : q = [form[f] EXCEPT !.pc = "write", !.seen = s]
      OBVIOUS
    <2>3. form[f].id \in Orders
      BY <1>5 DEF B!ReadPrevious, FormHolds, B!Booked
    <2>4. s \in SeenType
      BY <1>0, <2>1, <2>3 DEF B!OrderType, SeenType
    <2>5. q \in FormType
      BY <1>0, <2>2, <2>4 DEF FormType
    <2>. QED  BY <1>5, <2>1, <2>2, <2>5, PutType DEF B!ReadPrevious
  <1>6. ASSUME NEW f \in Forms, NEW phone \in Numbers, NEW quote \in Quotes,
               NEW date \in 1 .. LastSlot, B!OrderOnWeb(f, phone, quote, date)
        PROVE  form' \in [Forms -> FormType]
    <2>1. PICK j : j = [B!Blank EXCEPT !.phone = phone, !.quote = quote, !.date = date]
      OBVIOUS
    <2>2. j \in FormType
      <3>1. date \in 0 .. LastSlot
        BY OrdersAssumption
      <3>. QED  BY <1>0, <2>1, <3>1 DEF FormType, B!Sums
    <2>3. PICK same : same = {g \in B!Live : phone \in {guest[g].phone, guest[g].temp_phone}}
      OBVIOUS
    <2>4. same # {} => B!Lowest(same) \in Guests
      BY <2>3, SameGuest
    <2>5. \/ B!Put(f, [j EXCEPT !.pc = "web", !.customer = B!Lowest(same)]) /\ same # {}
          \/ B!Put(f, [j EXCEPT !.pc = "guest"])
      BY <1>6, <2>1, <2>3 DEF B!OrderOnWeb
    <2>6. /\ same # {} => [j EXCEPT !.pc = "web", !.customer = B!Lowest(same)] \in FormType
          /\ [j EXCEPT !.pc = "guest"] \in FormType
      BY <2>2, <2>4 DEF FormType
    <2>. QED  BY <2>5, <2>6, PutType
  <1>7. ASSUME NEW f \in Forms, B!CreateGuest(f) PROVE form' \in [Forms -> FormType]
    <2>1. B!Lowest(Guests \ B!Live) \in Guests
      BY <1>7, LowestIs, OrdersAssumption DEF B!CreateGuest, B!Live
    <2>2. \A g \in Guests : [form[f] EXCEPT !.pc = "web", !.customer = g] \in FormType
      BY <1>0 DEF FormType
    <2>. QED  BY <1>7, <2>1, <2>2, PutType DEF B!CreateGuest
  <1>8. ASSUME NEW f \in Forms, B!StoreWebOrder(f) PROVE form' \in [Forms -> FormType]
    <2>1. B!NextOrder \in Orders
      BY <1>8, NextOrderIs DEF B!StoreWebOrder
    <2>2. [form[f] EXCEPT !.pc = "income", !.id = B!NextOrder] \in FormType
      BY <1>0, <2>1 DEF FormType
    <2>. QED  BY <1>8, <2>2, PutType DEF B!StoreWebOrder
  <1>9. ASSUME NEW f \in Forms, B!WriteIncome(f) \/ B!WebIntent(f)
        PROVE  form' \in [Forms -> FormType]
    <2>1. [form[f] EXCEPT !.pc = "intent"] \in FormType
      BY <1>0 DEF FormType
    <2>. QED  BY <1>0, <1>9, <2>1, PutType DEF B!WriteIncome, B!WebIntent, B!Step
  <1>10. CASE UNCHANGED form
    BY <1>0, <1>10
  <1>. QED
    BY <1>1, <1>2, <1>3, <1>4, <1>5, <1>6, <1>7, <1>8, <1>9, <1>10
       DEF B!Next, B!vars, B!DispatcherStep, B!WebStep, B!BookStep, B!HourPasses,
           B!UpdateDriverIncome, B!UpdatePaymentStatus, B!CompleteOrder, B!WebPaid,
           B!VerifyGuest

\* What a dispatcher's request leaves alone.
LEMMA DispatcherLeaves ==
  ASSUME B!DispatcherStep
  PROVE  /\ UNCHANGED <<guest, now, told, crossed>>
         /\ filed' = filed \/ (filed < MaxForms /\ filed' = filed + 1)
         /\ UNCHANGED <<last, altered>> \/ \E f \in Forms : B!SaveTotal(f) \/ B!WriteUpdate(f)
  <1>. DEFINE Goal ==
         /\ UNCHANGED <<guest, now, told, crossed>>
         /\ filed' = filed \/ (filed < MaxForms /\ filed' = filed + 1)
         /\ UNCHANGED <<last, altered>> \/ \E f \in Forms : B!SaveTotal(f) \/ B!WriteUpdate(f)
  <1>1. ASSUME NEW f \in Forms, NEW quote, NEW given, NEW method, NEW income,
               \/ B!ScheduleByDispatcher(f, quote, given, method, income)
               \/ \E b \in Orders : B!UpdateByDispatcher(f, b, quote, given, method, income)
        PROVE  Goal
    BY <1>1 DEF B!ScheduleByDispatcher, B!UpdateByDispatcher, B!File
  <1>2. ASSUME NEW f \in Forms, B!StoreOrder(f) \/ B!ReadPrevious(f) PROVE Goal
    BY <1>2 DEF B!StoreOrder, B!ReadPrevious
  <1>3. ASSUME NEW f \in Forms, B!SaveTotal(f) PROVE Goal
    BY <1>3 DEF B!SaveTotal
  <1>4. ASSUME NEW f \in Forms, B!WriteUpdate(f) PROVE Goal
    BY <1>4 DEF B!WriteUpdate
  <1>. HIDE DEF Goal
  <1>5. Goal
    BY <1>1, <1>2, <1>3, <1>4 DEF B!DispatcherStep
  <1>. QED  BY <1>5 DEF Goal

LEMMA OrdersTypeStep ==
  ASSUME OrdersType, [B!Next]_(B!vars), \A f \in Forms : FormHolds(form[f])
  PROVE  OrdersType'
  <1>1. order' \in [Orders -> B!OrderType] /\ form' \in [Forms -> FormType]
    BY OrderTypeStep, FormTypeStep
  <1>2. /\ form \in [Forms -> FormType] /\ guest \in [Guests -> GuestType]
        /\ order \in [Orders -> B!OrderType]
        /\ last \in [Orders -> EditType] /\ told \in [Orders -> Nat \cup {None}]
    BY DEF OrdersType
  <1>3. guest' \in [Guests -> GuestType]
    <2>1. ASSUME NEW f \in Forms, B!CreateGuest(f) PROVE guest' \in [Guests -> GuestType]
      <3>1. form[f].phone \in Numbers \cup {None}
        BY <1>2 DEF FormType
      <3>2. [live |-> TRUE, phone |-> None, temp_phone |-> form[f].phone] \in GuestType
        BY <3>1 DEF GuestType
      <3>. QED  BY <1>2, <2>1, <3>2 DEF B!CreateGuest
    <2>2. ASSUME NEW g \in Guests, B!VerifyGuest(g) PROVE guest' \in [Guests -> GuestType]
      BY <1>2, <2>2 DEF B!VerifyGuest, GuestType
    <2>3. CASE UNCHANGED guest
      BY <1>2, <2>3
    <2>4. ASSUME B!WebStep PROVE guest' \in [Guests -> GuestType]
      BY <2>1, <2>2, <2>3, <2>4
         DEF B!WebStep, B!OrderOnWeb, B!StoreWebOrder, B!WriteIncome, B!WebIntent, B!WebPaid
    <2>. QED
      BY <2>3, <2>4, DispatcherLeaves
         DEF B!Next, B!vars, B!BookStep, B!HourPasses, B!UpdateDriverIncome,
             B!UpdatePaymentStatus, B!CompleteOrder
  <1>4. filed' \in 0 .. MaxForms /\ now' \in 0 .. LastSlot
    <2>. DEFINE Goal == /\ filed' = filed \/ (filed < MaxForms /\ filed' = filed + 1)
                        /\ now' = now \/ (now < LastSlot /\ now' = now + 1)
    <2>10. ASSUME B!DispatcherStep PROVE Goal
      BY <2>10, DispatcherLeaves
    <2>11. ASSUME B!WebStep PROVE Goal
      BY <2>11 DEF B!File, B!WebStep, B!OrderOnWeb, B!CreateGuest, B!StoreWebOrder, B!WriteIncome,
           B!WebIntent, B!WebPaid, B!VerifyGuest
    <2>12. ASSUME B!BookStep PROVE Goal
      BY <2>12 DEF B!File, B!BookStep, B!UpdateDriverIncome, B!UpdatePaymentStatus, B!CompleteOrder
    <2>13. ASSUME B!HourPasses \/ UNCHANGED B!vars PROVE Goal
      BY <2>13 DEF B!File, B!HourPasses, B!vars
    <2>1. Goal
      BY <2>10, <2>11, <2>12, <2>13 DEF B!Next
    <2>2. filed \in 0 .. MaxForms /\ now \in 0 .. LastSlot
      BY DEF OrdersType
    <2>. QED  BY <2>1, <2>2, OrdersAssumption
  <1>5. last' \in [Orders -> EditType]
    <2>1. ASSUME NEW f \in Forms, B!WriteUpdate(f) PROVE last' \in [Orders -> EditType]
      <3>1. form[f].id \in Orders /\ form[f].stale \in BOOLEAN
        BY <1>2, <2>1 DEF B!WriteUpdate, FormHolds, B!Booked, FormType
      <3>2. order[form[f].id].total \in B!Sums /\ order[form[f].id].method \in B!Methods
        BY <1>2, <3>1 DEF B!OrderType
      <3>3. [was |-> order[form[f].id].total, method |-> order[form[f].id].method,
             stale |-> form[f].stale] \in EditType
        BY <3>1, <3>2 DEF EditType
      <3>. QED  BY <1>2, <2>1, <3>3 DEF B!WriteUpdate
    <2>2. ASSUME NEW f \in Forms, B!SaveTotal(f) PROVE last' \in [Orders -> EditType]
      BY <1>2, <2>2, FirstOrders DEF B!SaveTotal
    <2>10. ASSUME B!DispatcherStep PROVE last' \in [Orders -> EditType]
      BY <1>2, <2>1, <2>2, <2>10, DispatcherLeaves
    <2>11. ASSUME B!WebStep PROVE last' \in [Orders -> EditType]
      BY <1>2, <2>1, <2>2, <2>11 DEF B!WebStep, B!OrderOnWeb, B!CreateGuest, B!StoreWebOrder, B!WriteIncome,
           B!WebIntent, B!WebPaid, B!VerifyGuest
    <2>12. ASSUME B!BookStep PROVE last' \in [Orders -> EditType]
      BY <1>2, <2>1, <2>2, <2>12 DEF B!BookStep, B!UpdateDriverIncome, B!UpdatePaymentStatus, B!CompleteOrder
    <2>13. ASSUME B!HourPasses \/ UNCHANGED B!vars PROVE last' \in [Orders -> EditType]
      BY <1>2, <2>1, <2>2, <2>13 DEF B!HourPasses, B!vars
    <2>. QED  BY <2>10, <2>11, <2>12, <2>13 DEF B!Next
  <1>6. told' \in [Orders -> Nat \cup {None}]
    <2>1. ASSUME NEW b \in Orders, NEW status, B!UpdatePaymentStatus(b, status)
          PROVE  told' \in [Orders -> Nat \cup {None}]
      BY <1>2, <2>1 DEF B!UpdatePaymentStatus, B!OrderType
    <2>10. ASSUME B!DispatcherStep PROVE told' \in [Orders -> Nat \cup {None}]
      BY <1>2, <2>1, <2>10, DispatcherLeaves
    <2>11. ASSUME B!WebStep PROVE told' \in [Orders -> Nat \cup {None}]
      BY <1>2, <2>1, <2>11 DEF B!WebStep, B!OrderOnWeb, B!CreateGuest, B!StoreWebOrder, B!WriteIncome,
           B!WebIntent, B!WebPaid, B!VerifyGuest
    <2>12. ASSUME B!BookStep PROVE told' \in [Orders -> Nat \cup {None}]
      BY <1>2, <2>1, <2>12 DEF B!BookStep, B!UpdateDriverIncome, B!CompleteOrder
    <2>13. ASSUME B!HourPasses \/ UNCHANGED B!vars PROVE told' \in [Orders -> Nat \cup {None}]
      BY <1>2, <2>1, <2>13 DEF B!HourPasses, B!vars
    <2>. QED  BY <2>10, <2>11, <2>12, <2>13 DEF B!Next
  <1>7. altered' \subseteq Orders
    <2>1. ASSUME NEW f \in Forms, B!WriteUpdate(f) \/ B!WriteIncome(f)
          PROVE  \E b \in Orders : \E amount : B!Alter(b, amount)
      BY <2>1 DEF B!WriteUpdate, B!WriteIncome, FormHolds, B!Booked
    <2>. DEFINE Goal == \/ altered' \subseteq altered
                        \/ \E b \in Orders : \E amount : B!Alter(b, amount)
    <2>10. ASSUME B!DispatcherStep PROVE Goal
      <3>1. ASSUME NEW f \in Forms, B!SaveTotal(f) PROVE UNCHANGED altered
        BY <3>1 DEF B!SaveTotal
      <3>. QED  BY <2>1, <2>10, <3>1, DispatcherLeaves
    <2>11. ASSUME B!WebStep PROVE Goal
      BY <2>1, <2>11 DEF B!WebStep, B!OrderOnWeb, B!CreateGuest, B!StoreWebOrder, 
           B!WebIntent, B!WebPaid, B!VerifyGuest
    <2>12. ASSUME B!BookStep PROVE Goal
      BY <2>1, <2>12 DEF B!BookStep, B!UpdateDriverIncome, B!UpdatePaymentStatus, B!CompleteOrder
    <2>13. ASSUME B!HourPasses \/ UNCHANGED B!vars PROVE Goal
      BY <2>1, <2>13 DEF B!HourPasses, B!vars
    <2>. HIDE DEF Goal
    <2>2. Goal
      BY <2>10, <2>11, <2>12, <2>13 DEF B!Next
    <2>. QED  BY <2>2 DEF OrdersType, B!Alter, Goal
  <1>8. crossed' \subseteq Numbers
    <2>. DEFINE Goal == crossed' = crossed \/ \E phone \in Numbers : crossed' = crossed \cup {phone}
    <2>10. ASSUME B!DispatcherStep PROVE Goal
      BY <2>10, DispatcherLeaves
    <2>11. ASSUME B!WebStep PROVE Goal
      BY <2>11 DEF B!WebStep, B!OrderOnWeb, B!CreateGuest, B!StoreWebOrder, B!WriteIncome,
           B!WebIntent, B!WebPaid, B!VerifyGuest
    <2>12. ASSUME B!BookStep PROVE Goal
      BY <2>12 DEF B!BookStep, B!UpdateDriverIncome, B!UpdatePaymentStatus, B!CompleteOrder
    <2>13. ASSUME B!HourPasses \/ UNCHANGED B!vars PROVE Goal
      BY <2>13 DEF B!HourPasses, B!vars
    <2>. HIDE DEF Goal
    <2>1. Goal
      BY <2>10, <2>11, <2>12, <2>13 DEF B!Next
    <2>. QED  BY <2>1 DEF OrdersType, Goal
  <1>. QED  BY <1>1, <1>3, <1>4, <1>5, <1>6, <1>7, <1>8 DEF OrdersType

\* What a step does to one booking.
Untouched(b) ==
    order'[b] = order[b] /\ last'[b] = last[b] /\ told'[b] = told[b]
    /\ (b \in altered => b \in altered')

Repaid(b) ==
    \E amount \in Nat :
       /\ order'[b] = [order[b] EXCEPT !.amount_for_driver = amount]
       /\ B!Alter(b, amount) /\ last'[b] = last[b] /\ told'[b] = told[b]

LEMMA BookMoves ==
  ASSUME OrdersType, [B!Next]_(B!vars), \A f \in Forms : FormHolds(form[f]), NEW b \in Orders
  PROVE  \/ Untouched(b)
         \/ /\ b \notin B!Booked /\ last' = last
            /\ order'[b].status = "open" /\ order'[b].pay_to_driver = "unpaid"
         \/ \E f \in Forms : b = form[f].id /\ (B!SaveTotal(f) \/ B!WriteUpdate(f))
         \/ Repaid(b)
         \/ \E status \in {"paid", "unpaid"} : B!UpdatePaymentStatus(b, status)
         \/ B!CompleteOrder(b) \/ B!WebPaid(b)
  <1>. DEFINE Goal ==
         \/ Untouched(b)
         \/ /\ b \notin B!Booked /\ last' = last
            /\ order'[b].status = "open" /\ order'[b].pay_to_driver = "unpaid"
         \/ \E f \in Forms : b = form[f].id /\ (B!SaveTotal(f) \/ B!WriteUpdate(f))
         \/ Repaid(b)
         \/ \E status \in {"paid", "unpaid"} : B!UpdatePaymentStatus(b, status)
         \/ B!CompleteOrder(b) \/ B!WebPaid(b)
  <1>0. /\ order \in [Orders -> B!OrderType] /\ form \in [Forms -> FormType]
        /\ last \in [Orders -> EditType] /\ told \in [Orders -> Nat \cup {None}]
    BY DEF OrdersType
  <1>1. ASSUME UNCHANGED <<order, last, told, altered>> PROVE Goal
    BY <1>1 DEF Untouched
  <1>2. ASSUME NEW f \in Forms, B!StoreOrder(f) \/ B!StoreWebOrder(f) PROVE Goal
    <2>1. PICK k \in B!OrderType :
            /\ order' = [order EXCEPT ![B!NextOrder] = k]
            /\ k.status = "open" /\ k.pay_to_driver = "unpaid"
      BY <1>2, StoredIs
    <2>2. B!NextOrder \in Orders /\ B!NextOrder \notin B!Booked
      BY <1>2, NextOrderIs DEF B!StoreOrder, B!StoreWebOrder
    <2>3. UNCHANGED <<last, told, altered>>
      BY <1>2 DEF B!StoreOrder, B!StoreWebOrder
    <2>4. order'[B!NextOrder] = k /\ OneOrder(B!NextOrder)
      BY <2>1, <2>2, OrderPut
    <2>. QED  BY <2>1, <2>2, <2>3, <2>4 DEF Untouched, OneOrder
  <1>3. ASSUME NEW f \in Forms, B!SaveTotal(f) \/ B!WriteUpdate(f) PROVE Goal
    <2>1. CASE b = form[f].id
      BY <1>3, <2>1
    <2>2. ASSUME b # form[f].id, B!SaveTotal(f) PROVE Untouched(b)
      BY <1>0, <2>2 DEF B!SaveTotal, Untouched
    <2>3. ASSUME b # form[f].id, B!WriteUpdate(f) PROVE Untouched(b)
      <3>1. form[f].id \in Orders
        BY <2>3 DEF B!WriteUpdate, FormHolds, B!Booked
      <3>2. order' = [order EXCEPT ![form[f].id] = Written(form[f], order[form[f].id])]
        BY <2>3, <3>1, WriteIs
      <3>3. order'[b] = order[b]
        BY <1>0, <2>3, <3>2
      <3>4. last'[b] = last[b] /\ told' = told /\ altered \subseteq altered'
        BY <1>0, <2>3 DEF B!WriteUpdate, B!Alter
      <3>. QED  BY <3>3, <3>4 DEF Untouched
    <2>. QED  BY <1>3, <2>1, <2>2, <2>3
  <1>4. ASSUME NEW c \in Orders, NEW amount \in Nat, UNCHANGED <<last, told>>,
               order' = [order EXCEPT ![c].amount_for_driver = amount], B!Alter(c, amount)
        PROVE  Goal
    <2>1. CASE c = b
      BY <1>0, <1>4, <2>1 DEF Repaid
    <2>2. CASE c # b
      BY <1>0, <1>4, <2>2 DEF Untouched, B!Alter
    <2>. QED  BY <2>1, <2>2
  <1>5. ASSUME NEW f \in Forms, B!WriteIncome(f) PROVE Goal
    <2>1. form[f].quote \in Nat
      BY <1>0, OrdersAssumption DEF FormType, B!Sums
    <2>2. form[f].id \in Orders
      BY <1>5 DEF B!WriteIncome, FormHolds, B!Booked
    <2>3. B!DriverShare(form[f].quote) \in Nat
      BY <2>1, ShareIs
    <2>. HIDE DEF Goal
    <2>. QED  BY <1>4, <1>5, <2>2, <2>3 DEF B!WriteIncome
  <1>6. ASSUME NEW c \in Orders, NEW amount \in Quotes, B!UpdateDriverIncome(c, amount) PROVE Goal
    <2>1. amount \in Nat
      BY OrdersAssumption
    <2>. HIDE DEF Goal
    <2>. QED  BY <1>4, <1>6, <2>1 DEF B!UpdateDriverIncome
  <1>7. ASSUME NEW c \in Orders, NEW status \in {"paid", "unpaid"}, B!UpdatePaymentStatus(c, status)
        PROVE  Goal
    <2>1. CASE c = b
      BY <1>7, <2>1
    <2>2. CASE c # b
      <3>1. order'[b] = order[b] /\ last' = last
        BY <1>0, <1>7, <2>2 DEF B!UpdatePaymentStatus
      <3>2. told'[b] = told[b] /\ (b \in altered => b \in altered')
        BY <1>0, <1>7, <2>2 DEF B!UpdatePaymentStatus
      <3>. QED  BY <3>1, <3>2 DEF Untouched
    <2>. QED  BY <2>1, <2>2
  <1>8. ASSUME NEW c \in Orders, B!CompleteOrder(c) \/ B!WebPaid(c) PROVE Goal
    <2>1. CASE c = b
      BY <1>8, <2>1
    <2>2. CASE c # b
      BY <1>0, <1>8, <2>2 DEF B!CompleteOrder, B!WebPaid, Untouched
    <2>. QED  BY <2>1, <2>2
  <1>. HIDE DEF Goal
  <1>9. Goal
    BY <1>1, <1>2, <1>3, <1>5, <1>6, <1>7, <1>8
       DEF B!Next, B!vars, B!DispatcherStep, B!WebStep, B!BookStep, B!HourPasses,
           B!ScheduleByDispatcher, B!UpdateByDispatcher, B!ReadPrevious, B!OrderOnWeb,
           B!CreateGuest, B!WebIntent, B!VerifyGuest
  <1>. QED  BY <1>9 DEF Goal

\* The driver is told what he gets until it is changed.
LEMMA PayoutStep ==
  ASSUME OrdersType, [B!Next]_(B!vars), \A f \in Forms : FormHolds(form[f]),
         NEW b \in Orders, PayoutHolds(b)
  PROVE  PayoutHolds(b)'
  <1>0. /\ order \in [Orders -> B!OrderType] /\ form \in [Forms -> FormType]
        /\ told \in [Orders -> Nat \cup {None}] /\ order[b] \in B!OrderType
    BY DEF OrdersType
  <1>1. CASE Untouched(b)
    BY <1>1 DEF PayoutHolds, Untouched
  <1>2. CASE order'[b].pay_to_driver = "unpaid"
    BY <1>2 DEF PayoutHolds
  <1>3. ASSUME NEW amount, B!Alter(b, amount), told'[b] = told[b],
               order'[b].pay_to_driver = order[b].pay_to_driver,
               order'[b].amount_for_driver = amount
        PROVE  PayoutHolds(b)'
    BY <1>3 DEF PayoutHolds, B!Alter
  <1>4. CASE Repaid(b)
    BY <1>0, <1>3, <1>4 DEF Repaid, B!OrderType
  <1>5. ASSUME NEW f \in Forms, b = form[f].id, B!WriteUpdate(f) PROVE PayoutHolds(b)'
    <2>1. order'[b] = Written(form[f], order[b])
      BY <1>0, <1>5, WriteIs
    <2>2. form[f] \in FormType
      BY <1>0
    <2>3. /\ order'[b].pay_to_driver = order[b].pay_to_driver
          /\ order'[b].amount_for_driver = IF form[f].income = 0 THEN order[b].amount_for_driver
                                           ELSE form[f].income
      BY <1>0, <2>1, <2>2, WrittenType
    <2>4. /\ B!Alter(b, IF form[f].income = 0 THEN order[b].amount_for_driver
                        ELSE form[f].income)
          /\ told' = told
      BY <1>5 DEF B!WriteUpdate
    <2>. QED  BY <1>3, <2>3, <2>4
  <1>6. ASSUME NEW f \in Forms, b = form[f].id, B!SaveTotal(f) PROVE PayoutHolds(b)'
    <2>1. /\ order' = [order EXCEPT ![b].total = form[f].given]
          /\ UNCHANGED <<told, altered>>
      BY <1>6 DEF B!SaveTotal
    <2>2. /\ order'[b].pay_to_driver = order[b].pay_to_driver
          /\ order'[b].amount_for_driver = order[b].amount_for_driver
      BY <1>0, <2>1 DEF B!OrderType
    <2>. QED  BY <2>1, <2>2 DEF PayoutHolds
  <1>7. ASSUME NEW status \in {"paid", "unpaid"}, B!UpdatePaymentStatus(b, status)
        PROVE  PayoutHolds(b)'
    <2>1. /\ order'[b].pay_to_driver = status
          /\ order'[b].amount_for_driver = order[b].amount_for_driver
          /\ order[b].amount_for_driver \in Nat
      BY <1>0, <1>7 DEF B!UpdatePaymentStatus, B!OrderType
    <2>2. status = "paid" => told'[b] = order[b].amount_for_driver
      BY <1>0, <1>7 DEF B!UpdatePaymentStatus
    <2>. QED  BY <2>1, <2>2, OrdersAssumption DEF PayoutHolds
  <1>8. ASSUME B!CompleteOrder(b) \/ B!WebPaid(b) PROVE PayoutHolds(b)'
    <2>1. /\ order'[b].pay_to_driver = order[b].pay_to_driver
          /\ order'[b].amount_for_driver = order[b].amount_for_driver
      BY <1>0, <1>8 DEF B!CompleteOrder, B!WebPaid, B!OrderType
    <2>2. UNCHANGED <<told, altered>>
      BY <1>8 DEF B!CompleteOrder, B!WebPaid
    <2>. QED  BY <2>1, <2>2 DEF PayoutHolds
  <1>. QED  BY <1>1, <1>2, <1>4, <1>5, <1>6, <1>7, <1>8, BookMoves

\* What is not an edit leaves alone what the edit left.
LEMMA EditKept ==
  ASSUME NEW b \in Orders, EditHolds(b), last'[b] = last[b],
         b \in B!Booked => b \in B!Booked',
         order'[b].total = order[b].total,
         order'[b].pay_by_customer = order[b].pay_by_customer,
         order'[b].pay_to_customer = order[b].pay_to_customer
  PROVE  EditHolds(b)'
  BY DEF EditHolds

LEMMA EditStep ==
  ASSUME OrdersType, [B!Next]_(B!vars), \A f \in Forms : FormHolds(form[f]),
         NEW b \in Orders, EditHolds(b)
  PROVE  EditHolds(b)'
  <1>0. /\ order \in [Orders -> B!OrderType] /\ form \in [Forms -> FormType]
        /\ last \in [Orders -> EditType] /\ order[b] \in B!OrderType
    BY DEF OrdersType
  <1>1. CASE Untouched(b)
    BY <1>1, EditKept DEF Untouched, B!Booked
  <1>2. ASSUME b \notin B!Booked, last' = last PROVE EditHolds(b)'
    <2>1. last'[b].method = "card"
      BY <1>2 DEF EditHolds
    <2>. QED  BY <2>1 DEF EditHolds
  <1>3. CASE Repaid(b)
    <2>1. PICK amount : order'[b] = [order[b] EXCEPT !.amount_for_driver = amount]
      BY <1>3 DEF Repaid
    <2>2. /\ order'[b].status = order[b].status /\ order'[b].total = order[b].total
          /\ order'[b].pay_by_customer = order[b].pay_by_customer
          /\ order'[b].pay_to_customer = order[b].pay_to_customer
      BY <1>0, <2>1 DEF B!OrderType
    <2>. QED  BY <1>3, <2>2, EditKept DEF Repaid, B!Booked
  <1>4. ASSUME NEW status \in {"paid", "unpaid"},
               B!UpdatePaymentStatus(b, status) \/ B!CompleteOrder(b) \/ B!WebPaid(b)
        PROVE  EditHolds(b)'
    <2>1. /\ order'[b].status \in {order[b].status, "completed"}
          /\ order'[b].total = order[b].total
          /\ order'[b].pay_by_customer = order[b].pay_by_customer
          /\ order'[b].pay_to_customer = order[b].pay_to_customer
      BY <1>0, <1>4 DEF B!UpdatePaymentStatus, B!CompleteOrder, B!WebPaid, B!OrderType
    <2>2. last' = last
      BY <1>4 DEF B!UpdatePaymentStatus, B!CompleteOrder, B!WebPaid
    <2>3. b \in B!Booked => b \in B!Booked'
      BY <2>1 DEF B!Booked
    <2>. QED  BY <2>1, <2>2, <2>3, EditKept
  <1>5. ASSUME NEW f \in Forms, b = form[f].id, B!SaveTotal(f) PROVE EditHolds(b)'
    <2>1. last'[b] = B!NoEdit
      BY <1>0, <1>5 DEF B!SaveTotal
    <2>. QED  BY <2>1 DEF EditHolds, B!NoEdit
  <1>6. ASSUME NEW f \in Forms, b = form[f].id, B!WriteUpdate(f) PROVE EditHolds(b)'
    <2>1. PICK j \in FormType : j = form[f]
      BY <1>0
    <2>2. order'[b] = Written(j, order[b])
      BY <1>0, <1>6, <2>1, WriteIs
    <2>3. /\ order'[b].status = order[b].status /\ order'[b].total = j.quote
          /\ order'[b].pay_by_customer =
               IF j.seen.method = "invoice" /\ j.seen.total < j.quote
               THEN j.quote - j.seen.total ELSE order[b].pay_by_customer
          /\ order'[b].pay_to_customer =
               IF j.seen.method = "invoice" /\ j.seen.total > j.quote
               THEN j.seen.total - j.quote ELSE order[b].pay_to_customer
      BY <1>0, <2>2, WrittenType
    <2>4. last'[b] = [was |-> order[b].total, method |-> order[b].method, stale |-> j.stale]
      BY <1>0, <1>6, <2>1 DEF B!WriteUpdate
    <2>5. last'[b].was = order[b].total /\ last'[b].method = order[b].method
          /\ last'[b].stale = j.stale
      BY <2>4
    <2>6. b \in B!Booked /\ j.pc = "write" /\ FormHolds(j)
      BY <1>6, <2>1 DEF FormHolds, B!WriteUpdate
    <2>7. ~j.stale => j.seen.method = order[b].method /\ j.seen.total = order[b].total
      BY <1>6, <2>1, <2>6 DEF FormHolds
    <2>8. b \in B!Booked'
      BY <2>3, <2>6 DEF B!Booked
    <2>9. j.quote \in Nat /\ j.seen.total \in Nat
      BY OrdersAssumption DEF FormType, SeenType, B!Sums
    <2>. QED  BY <2>3, <2>5, <2>7, <2>8 DEF EditHolds
  <1>. QED  BY <1>1, <1>2, <1>3, <1>4, <1>5, <1>6, BookMoves

\* A dispatcher's write is about one booking, which stays.
LEMMA WritesOne ==
  ASSUME OrdersType, NEW f \in Forms, FormHolds(form[f]), B!SaveTotal(f) \/ B!WriteUpdate(f)
  PROVE  /\ form[f].id \in B!Booked /\ OneOrder(form[f].id)
         /\ order'[form[f].id].status = order[form[f].id].status
         /\ form' = B!Outdate(f, form[f].id)
  <1>0. order \in [Orders -> B!OrderType] /\ form[f] \in FormType
    BY DEF OrdersType
  <1>1. form[f].id \in B!Booked /\ form[f].id \in Orders
    BY DEF FormHolds, B!SaveTotal, B!WriteUpdate, B!Booked
  <1>2. CASE B!SaveTotal(f)
    <2>1. PICK b, v : b = form[f].id /\ v = form[f].given
      OBVIOUS
    <2>2. order' = [order EXCEPT ![b].total = v]
      BY <1>2, <2>1 DEF B!SaveTotal
    <2>3. OneOrder(b) /\ order'[b].status = order[b].status
      BY <1>0, <1>1, <2>1, <2>2 DEF OneOrder, B!OrderType
    <2>. QED  BY <1>1, <1>2, <2>1, <2>3 DEF B!SaveTotal
  <1>3. CASE B!WriteUpdate(f)
    <2>1. PICK b, k : b = form[f].id /\ k = Written(form[f], order[b])
      OBVIOUS
    <2>2. order' = [order EXCEPT ![b] = k]
      BY <1>1, <1>3, <2>1, WriteIs
    <2>3. k.status = order[b].status
      BY <1>0, <1>1, <2>1, WrittenType
    <2>4. OneOrder(b) /\ order'[b] = k
      BY <1>0, <1>1, <2>1, <2>2 DEF OneOrder
    <2>. QED  BY <1>1, <1>3, <2>1, <2>3, <2>4 DEF B!WriteUpdate
  <1>. QED  BY <1>2, <1>3

LEMMA BookedKept ==
  ASSUME OrdersType, [B!Next]_(B!vars), \A f \in Forms : FormHolds(form[f]), NEW b \in B!Booked,
         \A f \in Forms : ~(B!SaveTotal(f) \/ B!WriteUpdate(f))
  PROVE  /\ b \in B!Booked'
         /\ order'[b].total = order[b].total /\ order'[b].method = order[b].method
  <1>0. order[b] \in B!OrderType /\ b \in Orders /\ order[b].status # "none"
        /\ order \in [Orders -> B!OrderType]
    BY DEF OrdersType, B!Booked
  <1>1. CASE Untouched(b)
    BY <1>0, <1>1 DEF Untouched, B!Booked
  <1>2. CASE Repaid(b)
    BY <1>0, <1>2 DEF Repaid, B!Booked, B!OrderType
  <1>3. ASSUME NEW status \in {"paid", "unpaid"},
               B!UpdatePaymentStatus(b, status) \/ B!CompleteOrder(b) \/ B!WebPaid(b)
        PROVE  /\ order'[b].status # "none"
               /\ order'[b].total = order[b].total /\ order'[b].method = order[b].method
    BY <1>0, <1>3 DEF B!UpdatePaymentStatus, B!CompleteOrder, B!WebPaid, B!OrderType
  <1>. QED  BY <1>0, <1>1, <1>2, <1>3, BookMoves DEF B!Booked

\* A handler that moves goes on with a booking there is.
LEMMA FormMoves ==
  ASSUME OrdersType, [B!Next]_(B!vars), \A f \in Forms : FormHolds(form[f]),
         \A f \in Forms : ~(B!SaveTotal(f) \/ B!WriteUpdate(f)), NEW x \in Forms
  PROVE  form'[x] = form[x] \/ FormHolds(form[x])'
  <1>. DEFINE Goal == form'[x] = form[x] \/ FormHolds(form[x])'
  <1>0. /\ order \in [Orders -> B!OrderType] /\ form \in [Forms -> FormType]
        /\ B!Blank \in FormType
    BY FirstOrders DEF OrdersType
  <1>1. ASSUME NEW f \in Forms, NEW q, B!Put(f, q), FormHolds(q)' PROVE Goal
    BY <1>0, <1>1 DEF B!Put, FormHolds
  <1>2. ASSUME NEW q, q.pc \in {"idle", "store", "web", "intent"} PROVE FormHolds(q)'
    BY <1>2 DEF FormHolds
  <1>3. ASSUME NEW f \in Forms, NEW quote, NEW given, NEW method, NEW income,
               B!ScheduleByDispatcher(f, quote, given, method, income)
        PROVE  Goal
    <2>1. PICK q : q = [B!Blank EXCEPT !.pc = "store", !.quote = quote, !.given = given,
                                       !.method = method, !.income = income]
      OBVIOUS
    <2>2. q.pc = "store" /\ B!Put(f, q)
      BY <1>3, <2>1 DEF B!Blank, B!ScheduleByDispatcher
    <2>. QED  BY <1>1, <1>2, <2>2
  <1>4. ASSUME NEW f \in Forms, NEW quote, NEW given, NEW method, NEW income, NEW b \in Orders,
               B!UpdateByDispatcher(f, b, quote, given, method, income)
        PROVE  Goal
    <2>1. PICK q : q = [B!Blank EXCEPT !.pc = "read", !.id = b, !.method = method,
                            !.income = income, !.quote = IF given = 0 THEN quote ELSE given]
      OBVIOUS
    <2>2. q.pc = "read" /\ q.id = b
      BY <2>1 DEF B!Blank
    <2>3. B!Put(f, q) /\ b \in B!Booked /\ order' = order
      BY <1>4, <2>1 DEF B!UpdateByDispatcher
    <2>4. FormHolds(q)'
      BY <2>2, <2>3 DEF FormHolds, B!Booked
    <2>. QED  BY <1>1, <2>3, <2>4
  <1>5. ASSUME NEW f \in Forms, B!StoreOrder(f) \/ B!StoreWebOrder(f)
        PROVE  B!NextOrder \in B!Booked'
    <2>1. B!NextOrder \in Orders
      BY <1>5, NextOrderIs DEF B!StoreOrder, B!StoreWebOrder
    <2>2. PICK k : order' = [order EXCEPT ![B!NextOrder] = k] /\ k.status = "open"
      BY <1>5, StoredIs
    <2>. QED  BY <1>0, <2>1, <2>2 DEF B!Booked
  <1>6. ASSUME NEW f \in Forms, B!StoreOrder(f) PROVE Goal
    <2>1. PICK n, q : n = B!NextOrder /\ q = [form[f] EXCEPT !.pc = "given", !.id = n]
      OBVIOUS
    <2>2. q.pc = "given" /\ q.id = n
      BY <1>0, <2>1 DEF FormType
    <2>3. n \in B!Booked'
      BY <1>5, <1>6, <2>1
    <2>4. FormHolds(q)'
      BY <2>2, <2>3 DEF FormHolds
    <2>5. FormHolds(B!Blank)'
      BY <1>2, FirstOrders
    <2>6. B!Put(f, B!Blank) \/ B!Put(f, q)
      BY <1>6, <2>1 DEF B!StoreOrder
    <2>7. CASE B!Put(f, B!Blank)
      <3>1. PICK z : z = B!Blank
        OBVIOUS
      <3>2. FormHolds(z)'
        BY <1>2, <3>1, FirstOrders
      <3>. QED  BY <1>1, <2>7, <3>1, <3>2
    <2>. QED  BY <1>1, <2>4, <2>6, <2>7
  <1>7. ASSUME NEW f \in Forms, B!StoreWebOrder(f) PROVE Goal
    <2>1. PICK n, q : n = B!NextOrder /\ q = [form[f] EXCEPT !.pc = "income", !.id = n]
      OBVIOUS
    <2>2. q.pc = "income" /\ q.id = n
      BY <1>0, <2>1 DEF FormType
    <2>3. n \in B!Booked'
      BY <1>5, <1>7, <2>1
    <2>4. FormHolds(q)'
      BY <2>2, <2>3 DEF FormHolds
    <2>. QED  BY <1>1, <1>7, <2>1, <2>4 DEF B!StoreWebOrder
  <1>8. ASSUME NEW f \in Forms, B!ReadPrevious(f) PROVE Goal
    <2>1. PICK s : s = [method |-> order[form[f].id].method, total |-> order[form[f].id].total]
      OBVIOUS
    <2>2. PICK q : q = [form[f] EXCEPT !.pc = "write", !.seen = s]
      OBVIOUS
    <2>3. q.pc = "write" /\ q.seen = s /\ q.id = form[f].id
      BY <1>0, <2>2 DEF FormType
    <2>4. form[f].id \in B!Booked /\ order' = order
      BY <1>8 DEF B!ReadPrevious, FormHolds
    <2>5. s.method = order[q.id].method /\ s.total = order[q.id].total
      BY <2>1, <2>3
    <2>6. FormHolds(q)'
      BY <2>3, <2>4, <2>5 DEF FormHolds, B!Booked
    <2>. QED  BY <1>1, <1>8, <2>1, <2>2, <2>6 DEF B!ReadPrevious
  <1>9. ASSUME NEW f \in Forms, NEW phone \in Numbers, NEW quote, NEW date,
               B!OrderOnWeb(f, phone, quote, date)
        PROVE  Goal
    <2>1. PICK j : j = [B!Blank EXCEPT !.phone = phone, !.quote = quote, !.date = date]
      OBVIOUS
    <2>2. PICK c : c = B!Lowest({g \in B!Live : phone \in {guest[g].phone, guest[g].temp_phone}})
      OBVIOUS
    <2>3. PICK q, r : /\ q = [j EXCEPT !.pc = "web", !.customer = c]
                      /\ r = [j EXCEPT !.pc = "guest"]
      OBVIOUS
    <2>4. q.pc = "web" /\ r.pc = "guest" /\ r.phone = phone
      BY <2>1, <2>3 DEF B!Blank
    <2>5. B!Put(f, q) \/ B!Put(f, r)
      BY <1>9, <2>1, <2>2, <2>3 DEF B!OrderOnWeb
    <2>6. FormHolds(r)'
      BY <2>4 DEF FormHolds
    <2>. QED  BY <1>1, <1>2, <2>4, <2>5, <2>6
  <1>10. ASSUME NEW f \in Forms, B!CreateGuest(f) PROVE Goal
    <2>1. PICK g, q : /\ g = B!Lowest(Guests \ B!Live)
                      /\ q = [form[f] EXCEPT !.pc = "web", !.customer = g]
      OBVIOUS
    <2>2. q.pc = "web"
      BY <1>0, <2>1 DEF FormType
    <2>3. B!Put(f, q)
      BY <1>10, <2>1 DEF B!CreateGuest
    <2>. QED  BY <1>1, <1>2, <2>2, <2>3
  <1>11. ASSUME NEW f \in Forms, B!WriteIncome(f) PROVE Goal
    <2>1. PICK q : q = [form[f] EXCEPT !.pc = "intent"]
      OBVIOUS
    <2>2. q.pc = "intent"
      BY <1>0, <2>1 DEF FormType
    <2>3. B!Put(f, q)
      BY <1>11, <2>1 DEF B!WriteIncome, B!Step
    <2>. QED  BY <1>1, <1>2, <2>2, <2>3
  <1>12. ASSUME NEW f \in Forms, B!WebIntent(f) PROVE Goal
    <2>1. PICK q : q = B!Blank
      OBVIOUS
    <2>2. q.pc = "idle"
      BY <2>1, FirstOrders
    <2>. QED  BY <1>1, <1>2, <1>12, <2>1, <2>2 DEF B!WebIntent
  <1>13. ASSUME UNCHANGED form PROVE Goal
    BY <1>13
  <1>. HIDE DEF Goal
  <1>14. ASSUME B!DispatcherStep PROVE Goal
    BY <1>3, <1>4, <1>6, <1>8, <1>14 DEF B!DispatcherStep
  <1>15. ASSUME B!WebStep PROVE Goal
    BY <1>7, <1>9, <1>10, <1>11, <1>12, <1>13, <1>15 DEF B!WebStep, B!WebPaid, B!VerifyGuest
  <1>16. Goal
    BY <1>13, <1>14, <1>15
       DEF B!Next, B!vars, B!BookStep, B!HourPasses, B!UpdateDriverIncome,
           B!UpdatePaymentStatus, B!CompleteOrder
  <1>. QED  BY <1>16 DEF Goal

LEMMA FormsStep ==
  ASSUME OrdersType, [B!Next]_(B!vars), \A f \in Forms : FormHolds(form[f]), NEW x \in Forms
  PROVE  FormHolds(form[x])'
  <1>0. FormHolds(form[x]) /\ form \in [Forms -> FormType]
    BY DEF OrdersType
  <1>1. ASSUME \A f \in Forms : ~(B!SaveTotal(f) \/ B!WriteUpdate(f)) PROVE FormHolds(form[x])'
    <2>1. ASSUME form'[x] = form[x] PROVE FormHolds(form[x])'
      <3>1. form[x].id \in B!Booked => /\ form[x].id \in B!Booked'
                                       /\ order'[form[x].id].total = order[form[x].id].total
                                       /\ order'[form[x].id].method = order[form[x].id].method
        BY <1>1, BookedKept
      <3>. QED  BY <1>0, <2>1, <3>1 DEF FormHolds
    <2>. QED  BY <1>1, <2>1, FormMoves
  <1>2. ASSUME NEW f \in Forms, B!SaveTotal(f) \/ B!WriteUpdate(f) PROVE FormHolds(form[x])'
    <2>1. PICK b : b = form[f].id
      OBVIOUS
    <2>2. /\ b \in B!Booked /\ OneOrder(b) /\ order'[b].status = order[b].status
          /\ form' = B!Outdate(f, b)
      BY <1>2, <2>1, WritesOne
    <2>3. CASE x = f
      <3>1. form'[x].pc = "idle"
        BY <2>2, <2>3, OutdateType, FirstOrders
      <3>. QED  BY <3>1 DEF FormHolds
    <2>4. CASE x # f
      <3>1. /\ form'[x].pc = form[x].pc /\ form'[x].id = form[x].id
            /\ form'[x].phone = form[x].phone /\ form'[x].seen = form[x].seen
            /\ form[x].pc = "write" /\ form[x].id = b => form'[x].stale
            /\ ~(form[x].pc = "write" /\ form[x].id = b) => form'[x] = form[x]
        BY <2>2, <2>4, OutdateType
      <3>2. form[x].id \in B!Booked => form[x].id \in B!Booked'
        BY <2>2 DEF OneOrder, B!Booked
      <3>3. form[x].id \in B!Booked /\ form[x].id # b => order'[form[x].id] = order[form[x].id]
        BY <2>2 DEF OneOrder, B!Booked
      <3>. QED  BY <1>0, <3>1, <3>2, <3>3 DEF FormHolds
    <2>. QED  BY <2>3, <2>4
  <1>. QED  BY <1>1, <1>2

\* The number of a customer of the web site: verified, or waiting to be.
Number(g) == IF guest[g].phone = None THEN guest[g].temp_phone ELSE guest[g].phone

\* A number is one customer's, and is looked for by one order, unless two overlapped.
GuestsHold ==
    /\ \A g \in B!Live : {guest[g].phone, guest[g].temp_phone} = {None, Number(g)}
                         /\ Number(g) \in Numbers
    /\ \A g, h \in B!Live : g # h /\ Number(g) = Number(h) => Number(g) \in crossed
    /\ \A x \in Forms : form[x].pc = "guest" =>
         \/ form[x].phone \in crossed
         \/ /\ \A g \in B!Live : Number(g) # form[x].phone
            /\ \A y \in Forms : form[y].pc = "guest" /\ form[y].phone = form[x].phone => y = x

LEMMA CrossedGrows == ASSUME [B!Next]_(B!vars) PROVE crossed \subseteq crossed'
  <1>1. ASSUME B!WebStep PROVE crossed \subseteq crossed'
    BY <1>1 DEF B!WebStep, B!OrderOnWeb, B!CreateGuest, B!StoreWebOrder, B!WriteIncome,
                B!WebIntent, B!WebPaid, B!VerifyGuest
  <1>. QED
    BY <1>1, DispatcherLeaves
       DEF B!Next, B!vars, B!BookStep, B!HourPasses, B!UpdateDriverIncome,
           B!UpdatePaymentStatus, B!CompleteOrder

\* A step that makes no customer looks for none, or goes on looking.
LEMMA GuestMoves ==
  ASSUME OrdersType, [B!Next]_(B!vars)
  PROVE  \/ \E f \in Forms : B!CreateGuest(f)
         \/ \E g \in Guests : B!VerifyGuest(g)
         \/ \E f \in Forms, phone \in Numbers : \E quote, date : B!OrderOnWeb(f, phone, quote, date)
         \/ /\ UNCHANGED <<guest, crossed>>
            /\ \A x \in Forms : form'[x].pc = "guest" =>
                                  form[x].pc = "guest" /\ form'[x].phone = form[x].phone
  <1>. DEFINE Goal ==
         \/ \E f \in Forms : B!CreateGuest(f)
         \/ \E g \in Guests : B!VerifyGuest(g)
         \/ \E f \in Forms, phone \in Numbers : \E quote, date : B!OrderOnWeb(f, phone, quote, date)
         \/ /\ UNCHANGED <<guest, crossed>>
            /\ \A x \in Forms : form'[x].pc = "guest" =>
                                  form[x].pc = "guest" /\ form'[x].phone = form[x].phone
  <1>0. form \in [Forms -> FormType] /\ B!Blank.pc = "idle"
    BY FirstOrders DEF OrdersType
  <1>1. ASSUME NEW f \in Forms, NEW q, B!Put(f, q), q.pc # "guest", UNCHANGED <<guest, crossed>>
        PROVE  Goal
    BY <1>0, <1>1 DEF B!Put
  <1>2. ASSUME NEW f \in Forms, B!SaveTotal(f) \/ B!WriteUpdate(f) PROVE Goal
    <2>1. PICK b : b = form[f].id
      OBVIOUS
    <2>2. form' = B!Outdate(f, b) /\ UNCHANGED <<guest, crossed>>
      BY <1>2, <2>1 DEF B!SaveTotal, B!WriteUpdate
    <2>3. /\ form'[f].pc = "idle"
          /\ \A x \in Forms \ {f} : form'[x].pc = form[x].pc /\ form'[x].phone = form[x].phone
      BY <1>0, <2>2, OutdateType
    <2>. QED  BY <2>2, <2>3
  <1>3. ASSUME NEW f \in Forms, NEW quote, NEW given, NEW method, NEW income,
               B!ScheduleByDispatcher(f, quote, given, method, income)
        PROVE  Goal
    <2>1. PICK q : q = [B!Blank EXCEPT !.pc = "store", !.quote = quote, !.given = given,
                                       !.method = method, !.income = income]
      OBVIOUS
    <2>2. q.pc = "store"
      BY <2>1 DEF B!Blank
    <2>. HIDE DEF Goal
    <2>. QED  BY <1>1, <1>3, <2>1, <2>2 DEF B!ScheduleByDispatcher
  <1>4. ASSUME NEW f \in Forms, NEW quote, NEW given, NEW method, NEW income, NEW b \in Orders,
               B!UpdateByDispatcher(f, b, quote, given, method, income)
        PROVE  Goal
    <2>1. PICK q : q = [B!Blank EXCEPT !.pc = "read", !.id = b, !.method = method,
                            !.income = income, !.quote = IF given = 0 THEN quote ELSE given]
      OBVIOUS
    <2>2. q.pc = "read"
      BY <2>1 DEF B!Blank
    <2>. HIDE DEF Goal
    <2>. QED  BY <1>1, <1>4, <2>1, <2>2 DEF B!UpdateByDispatcher
  <1>5. ASSUME NEW f \in Forms, B!StoreOrder(f) \/ B!StoreWebOrder(f) \/ B!ReadPrevious(f)
                                  \/ B!WriteIncome(f) \/ B!WebIntent(f)
        PROVE  Goal
    <2>1. PICK n, s : /\ n = B!NextOrder
                      /\ s = [method |-> order[form[f].id].method, total |-> order[form[f].id].total]
      OBVIOUS
    <2>2. PICK q1, q2, q3, q4, q5 :
            /\ q1 = [form[f] EXCEPT !.pc = "given", !.id = n]
            /\ q2 = [form[f] EXCEPT !.pc = "income", !.id = n]
            /\ q3 = [form[f] EXCEPT !.pc = "write", !.seen = s]
            /\ q4 = [form[f] EXCEPT !.pc = "intent"]
            /\ q5 = B!Blank
      OBVIOUS
    <2>3. q1.pc = "given" /\ q2.pc = "income" /\ q3.pc = "write" /\ q4.pc = "intent" /\ q5.pc = "idle"
      BY <1>0, <2>2 DEF FormType
    <2>4. CASE B!StoreOrder(f)
      <3>1. (B!Put(f, q5) \/ B!Put(f, q1)) /\ UNCHANGED <<guest, crossed>>
        BY <2>1, <2>2, <2>4 DEF B!StoreOrder
      <3>. HIDE DEF Goal
      <3>. QED  BY <1>1, <2>3, <3>1
    <2>5. CASE B!StoreWebOrder(f) \/ B!ReadPrevious(f) \/ B!WriteIncome(f) \/ B!WebIntent(f)
      <3>1. /\ B!Put(f, q2) \/ B!Put(f, q3) \/ B!Put(f, q4) \/ B!Put(f, q5)
            /\ UNCHANGED <<guest, crossed>>
        BY <2>1, <2>2, <2>5
           DEF B!StoreWebOrder, B!ReadPrevious, B!WriteIncome, B!WebIntent, B!Step
      <3>. HIDE DEF Goal
      <3>. QED  BY <1>1, <2>3, <3>1
    <2>. HIDE DEF Goal
    <2>. QED  BY <1>5, <2>4, <2>5
  <1>6. ASSUME UNCHANGED <<form, guest, crossed>> PROVE Goal
    BY <1>6
  <1>7. ASSUME NEW f \in Forms, NEW phone \in Numbers, NEW quote, NEW date,
               B!OrderOnWeb(f, phone, quote, date)
        PROVE  Goal
    BY <1>7
  <1>8. ASSUME NEW f \in Forms, B!CreateGuest(f) PROVE Goal
    BY <1>8
  <1>9. ASSUME NEW g \in Guests, B!VerifyGuest(g) PROVE Goal
    BY <1>9
  <1>. HIDE DEF Goal
  <1>10. ASSUME B!DispatcherStep PROVE Goal
    BY <1>2, <1>3, <1>4, <1>5, <1>10 DEF B!DispatcherStep
  <1>11. ASSUME B!WebStep PROVE Goal
    BY <1>5, <1>6, <1>7, <1>8, <1>9, <1>11 DEF B!WebStep, B!WebPaid
  <1>12. Goal
    BY <1>6, <1>10, <1>11
       DEF B!Next, B!vars, B!BookStep, B!HourPasses, B!UpdateDriverIncome,
           B!UpdatePaymentStatus, B!CompleteOrder
  <1>. QED  BY <1>12 DEF Goal

LEMMA GuestsStep ==
  ASSUME OrdersType, [B!Next]_(B!vars), \A f \in Forms : FormHolds(form[f]), GuestsHold
  PROVE  GuestsHold'
  <1>0. /\ guest \in [Guests -> GuestType] /\ form \in [Forms -> FormType] /\ None \notin Numbers
        /\ B!Blank.pc = "idle" /\ B!Blank \in FormType
    BY OrdersAssumption, FirstOrders DEF OrdersType
  <1>1. ASSUME UNCHANGED <<guest, crossed>>,
               \A x \in Forms : form'[x].pc = "guest" =>
                                  form[x].pc = "guest" /\ form'[x].phone = form[x].phone
        PROVE  GuestsHold'
    <2>1. B!Live' = B!Live /\ \A g \in B!Live : Number(g)' = Number(g)
      BY <1>1 DEF B!Live, Number
    <2>. QED  BY <1>1, <2>1 DEF GuestsHold
  <1>2. ASSUME NEW f \in Forms, B!CreateGuest(f) PROVE GuestsHold'
    <2>1. PICK g \in Guests \ B!Live : g = B!Lowest(Guests \ B!Live)
      BY <1>2, LowestIs, OrdersAssumption DEF B!CreateGuest, B!Live
    <2>2. PICK p \in Numbers : p = form[f].phone
      BY <1>2 DEF FormHolds, B!CreateGuest
    <2>3. PICK q, r : /\ q = [live |-> TRUE, phone |-> None, temp_phone |-> p]
                      /\ r = [form[f] EXCEPT !.pc = "web", !.customer = g]
      OBVIOUS
    <2>4. /\ guest' = [guest EXCEPT ![g] = q] /\ form' = [form EXCEPT ![f] = r]
          /\ form[f].pc = "guest" /\ crossed' = crossed
      BY <1>2, <2>1, <2>2, <2>3 DEF B!CreateGuest, B!Put
    <2>5. q.live /\ q.phone = None /\ q.temp_phone = p /\ r.pc = "web"
      BY <1>0, <2>3 DEF FormType
    <2>6. B!Live' = B!Live \cup {g} /\ Number(g)' = p
      BY <1>0, <2>4, <2>5 DEF B!Live, Number
    <2>7. \A h \in B!Live : guest'[h] = guest[h] /\ Number(h)' = Number(h)
      BY <1>0, <2>1, <2>4 DEF B!Live, Number
    <2>8. \A x \in Forms : form'[x].pc = "guest" =>
             x # f /\ form'[x] = form[x] /\ form[x].pc = "guest"
      BY <1>0, <2>4, <2>5
    <2>9. p \in crossed \/ (/\ \A h \in B!Live : Number(h) # p
                            /\ \A y \in Forms : form[y].pc = "guest" /\ form[y].phone = p => y = f)
      BY <2>2, <2>4 DEF GuestsHold
    <2>10. (\A h \in B!Live : {guest[h].phone, guest[h].temp_phone} = {None, Number(h)}
                             /\ Number(h) \in Numbers)'
      <3>1. {guest'[g].phone, guest'[g].temp_phone} = {None, p}
        BY <1>0, <2>4, <2>5
      <3>. QED  BY <2>2, <2>6, <2>7, <3>1 DEF GuestsHold
    <2>11. (\A h, i \in B!Live : h # i /\ Number(h) = Number(i) => Number(h) \in crossed)'
      BY <2>1, <2>4, <2>6, <2>7, <2>9 DEF GuestsHold
    <2>12. (\A x \in Forms : form[x].pc = "guest" =>
         \/ form[x].phone \in crossed
         \/ /\ \A h \in B!Live : Number(h) # form[x].phone
            /\ \A y \in Forms : form[y].pc = "guest" /\ form[y].phone = form[x].phone => y = x)'
      BY <2>4, <2>6, <2>7, <2>8, <2>9 DEF GuestsHold
    <2>. QED  BY <2>10, <2>11, <2>12 DEF GuestsHold
  <1>3. ASSUME NEW g \in Guests, B!VerifyGuest(g) PROVE GuestsHold'
    <2>1. /\ g \in B!Live /\ guest[g].temp_phone # None
          /\ guest' = [guest EXCEPT ![g].phone = guest[g].temp_phone, ![g].temp_phone = None]
          /\ UNCHANGED <<form, crossed>>
      BY <1>3 DEF B!VerifyGuest
    <2>2. guest[g].phone = None \/ guest[g].temp_phone = guest[g].phone
      BY <1>0, <2>1 DEF GuestsHold, Number
    <2>3. /\ guest'[g].live = guest[g].live /\ guest'[g].phone = guest[g].temp_phone
          /\ guest'[g].temp_phone = None
          /\ \A h \in Guests \ {g} : guest'[h] = guest[h]
      BY <1>0, <2>1 DEF GuestType
    <2>4. B!Live' = B!Live
      BY <2>3 DEF B!Live
    <2>5. \A h \in B!Live : Number(h)' = Number(h)
                           /\ {guest'[h].phone, guest'[h].temp_phone} = {None, Number(h)}
      <3>1. Number(g)' = guest[g].temp_phone /\ Number(g) = guest[g].temp_phone
        BY <2>1, <2>2, <2>3 DEF Number
      <3>2. {guest'[g].phone, guest'[g].temp_phone} = {None, Number(g)}
        BY <2>3, <3>1
      <3>3. ASSUME NEW h \in B!Live, h # g
            PROVE  /\ Number(h)' = Number(h)
                   /\ {guest'[h].phone, guest'[h].temp_phone} = {None, Number(h)}
        <4>1. guest'[h] = guest[h]
          BY <2>3, <3>3 DEF B!Live
        <4>. QED  BY <4>1 DEF Number, GuestsHold
      <3>. QED  BY <3>1, <3>2, <3>3
    <2>6. (\A h \in B!Live : {guest[h].phone, guest[h].temp_phone} = {None, Number(h)}
                             /\ Number(h) \in Numbers)'
      BY <2>4, <2>5 DEF GuestsHold
    <2>7. (\A h, i \in B!Live : h # i /\ Number(h) = Number(i) => Number(h) \in crossed)'
      BY <2>1, <2>4, <2>5 DEF GuestsHold
    <2>8. (\A x \in Forms : form[x].pc = "guest" =>
         \/ form[x].phone \in crossed
         \/ /\ \A h \in B!Live : Number(h) # form[x].phone
            /\ \A y \in Forms : form[y].pc = "guest" /\ form[y].phone = form[x].phone => y = x)'
      BY <2>1, <2>4, <2>5 DEF GuestsHold
    <2>. QED  BY <2>6, <2>7, <2>8 DEF GuestsHold
  <1>4. ASSUME NEW f \in Forms, NEW phone \in Numbers, NEW quote, NEW date,
               B!OrderOnWeb(f, phone, quote, date)
        PROVE  GuestsHold'
    <2>1. PICK same : same = {g \in B!Live : phone \in {guest[g].phone, guest[g].temp_phone}}
      OBVIOUS
    <2>2. PICK j : j = [B!Blank EXCEPT !.phone = phone, !.quote = quote, !.date = date]
      OBVIOUS
    <2>3. PICK q, r : /\ q = [j EXCEPT !.pc = "web", !.customer = B!Lowest(same)]
                      /\ r = [j EXCEPT !.pc = "guest"]
      OBVIOUS
    <2>4. q.pc = "web" /\ r.pc = "guest" /\ r.phone = phone
      BY <2>2, <2>3 DEF B!Blank
    <2>5. CASE same # {}
      <3>1. B!Put(f, q) /\ UNCHANGED <<guest, crossed>>
        BY <1>4, <2>1, <2>2, <2>3, <2>5 DEF B!OrderOnWeb
      <3>2. \A x \in Forms : form'[x].pc = "guest" =>
                               form[x].pc = "guest" /\ form'[x].phone = form[x].phone
        BY <1>0, <2>4, <3>1 DEF B!Put
      <3>. QED  BY <1>1, <3>1, <3>2
    <2>6. CASE same = {}
      <3>1. /\ B!Put(f, r) /\ UNCHANGED guest /\ form[f].pc = "idle"
            /\ crossed' = IF \E x \in Forms : form[x].pc = "guest" /\ form[x].phone = phone
                          THEN crossed \cup {phone} ELSE crossed
        BY <1>4, <2>1, <2>2, <2>3, <2>6 DEF B!OrderOnWeb, B!File
      <3>2. form'[f] = r /\ \A x \in Forms \ {f} : form'[x] = form[x]
        BY <1>0, <3>1 DEF B!Put
      <3>3. \A g \in B!Live : Number(g) # phone
        BY <2>1, <2>6 DEF GuestsHold
      <3>4. B!Live' = B!Live /\ \A g \in B!Live : Number(g)' = Number(g)
        BY <3>1 DEF B!Live, Number
      <3>5. crossed \subseteq crossed'
        BY <3>1
      <3>6. (\A g \in B!Live : {guest[g].phone, guest[g].temp_phone} = {None, Number(g)}
                               /\ Number(g) \in Numbers)'
        BY <3>1, <3>4 DEF GuestsHold
      <3>7. (\A g, h \in B!Live : g # h /\ Number(g) = Number(h) => Number(g) \in crossed)'
        BY <3>4, <3>5 DEF GuestsHold
      <3>8. ASSUME NEW x \in Forms, form'[x].pc = "guest", form'[x].phone \notin crossed'
            PROVE  /\ \A g \in B!Live' : Number(g)' # form'[x].phone
                   /\ \A y \in Forms : form'[y].pc = "guest" /\ form'[y].phone = form'[x].phone
                                          => y = x
        <4>1. CASE x = f
          <5>1. form'[x].phone = phone
            BY <2>4, <3>2, <4>1
          <5>2. \A y \in Forms : ~(form[y].pc = "guest" /\ form[y].phone = phone)
            BY <3>1, <3>8, <5>1
          <5>. QED  BY <3>2, <3>3, <3>4, <4>1, <5>1, <5>2
        <4>2. CASE x # f
          <5>1. form[x].pc = "guest" /\ form'[x].phone = form[x].phone
                /\ form[x].phone \notin crossed
            BY <3>2, <3>5, <3>8, <4>2
          <5>2. form[x].phone # phone
            BY <3>1, <3>8, <5>1
          <5>3. /\ \A g \in B!Live : Number(g) # form[x].phone
                /\ \A y \in Forms : form[y].pc = "guest" /\ form[y].phone = form[x].phone => y = x
            BY <5>1 DEF GuestsHold
          <5>. QED  BY <2>4, <3>2, <3>4, <5>1, <5>2, <5>3
        <4>. QED  BY <4>1, <4>2
      <3>. QED  BY <3>6, <3>7, <3>8 DEF GuestsHold
    <2>. QED  BY <2>5, <2>6
  <1>. QED  BY <1>1, <1>2, <1>3, <1>4, GuestMoves

OrdersInv ==
    /\ OrdersType
    /\ \A f \in Forms : FormHolds(form[f])
    /\ \A b \in Orders : EditHolds(b) /\ PayoutHolds(b)
    /\ GuestsHold

LEMMA OrdersInit == WorldInit => OrdersInv
  <1>. SUFFICES ASSUME B!Init PROVE OrdersInv
    BY DEF WorldInit
  <1>1. \A f \in Forms : form[f].pc = "idle"
    BY FirstOrders DEF B!Init
  <1>2. \A b \in Orders : last[b].method = "card" /\ order[b].pay_to_driver = "unpaid"
    BY DEF B!Init, B!NoEdit, B!NoOrder
  <1>3. B!Live = {}
    BY DEF B!Init, B!Live
  <1>4. OrdersType
    BY OrdersTypeInit
  <1>. QED
    BY <1>1, <1>2, <1>3, <1>4 DEF OrdersInv, FormHolds, EditHolds, PayoutHolds, GuestsHold

LEMMA OrdersStepIs == [WorldNext]_WorldVars => [B!Next]_(B!vars)
  BY DEF WorldNext, WorldVars, StillOrders, B!vars, B!Next

LEMMA OrdersStep == OrdersInv /\ [B!Next]_(B!vars) => OrdersInv'
  <1>. SUFFICES ASSUME OrdersInv, [B!Next]_(B!vars) PROVE OrdersInv'
    OBVIOUS
  <1>0. /\ OrdersType /\ \A f \in Forms : FormHolds(form[f])
        /\ \A b \in Orders : EditHolds(b) /\ PayoutHolds(b)
        /\ GuestsHold
    BY DEF OrdersInv
  <1>1. OrdersType'
    BY <1>0, OrdersTypeStep
  <1>2. (\A f \in Forms : FormHolds(form[f]))'
    BY <1>0, FormsStep
  <1>3. \A b \in Orders : EditHolds(b)' /\ PayoutHolds(b)'
    BY <1>0, EditStep, PayoutStep
  <1>4. GuestsHold'
    BY <1>0, GuestsStep
  <1>. QED  BY <1>1, <1>2, <1>3, <1>4 DEF OrdersInv

\* FiniteSets seen from the instance.
LEMMA OrdersCardinality == \A X : B!Cardinality(X) = Cardinality(X)
  BY DEF B!Cardinality, Cardinality

\* The one booking that is looked at is one that is to come.
LEMMA RefusalHolds == ASSUME OrdersType PROVE B!RefusedWhenDue
  <1>. SUFFICES ASSUME NEW g \in Guests
                PROVE  LET due == {b \in B!Upcoming(g) : order[b].schedule_date <= now + 1}
                       IN  /\ ~B!CanRequest(g) => due # {}
                           /\ due # {} /\ B!Cardinality(B!Upcoming(g)) = 1 => ~B!CanRequest(g)
    BY DEF B!RefusedWhenDue
  <1>. DEFINE up == B!Upcoming(g)
              due == {b \in up : order[b].schedule_date <= now + 1}
  <1>1. up \subseteq Orders /\ up \subseteq Nat
    BY OrdersAssumption DEF B!Upcoming, B!Booked
  <1>2. now \in Nat /\ \A b \in up : order[b].schedule_date \in Nat
    BY <1>1, OrdersAssumption DEF OrdersType, B!OrderType
  <1>3. B!CanRequest(g) <=> (up # {} => order[B!Lowest(up)].schedule_date > now + 1)
    BY DEF B!CanRequest
  <1>4. up # {} => B!Lowest(up) \in up
    BY <1>1, LowestIs
  <1>. HIDE DEF up
  <1>5. ~B!CanRequest(g) => due # {}
    <2>. SUFFICES ASSUME ~B!CanRequest(g) PROVE due # {}
      OBVIOUS
    <2>1. up # {} /\ ~(order[B!Lowest(up)].schedule_date > now + 1)
      BY <1>3
    <2>2. PICK b \in up : b = B!Lowest(up)
      BY <1>4, <2>1
    <2>3. order[b].schedule_date <= now + 1
      BY <1>2, <2>1, <2>2
    <2>. QED  BY <2>2, <2>3
  <1>6. due # {} /\ Cardinality(up) = 1 => ~B!CanRequest(g)
    <2>. SUFFICES ASSUME NEW b \in due, Cardinality(up) = 1 PROVE ~B!CanRequest(g)
      OBVIOUS
    <2>1. PICK d : up = {d}
      BY <1>1, FS_Singleton, FS_Subset, OrdersAssumption
    <2>2. b \in up /\ order[b].schedule_date <= now + 1
      OBVIOUS
    <2>3. B!Lowest(up) = b
      BY <1>4, <2>1, <2>2
    <2>. QED  BY <1>2, <1>3, <2>2, <2>3
  <1>. QED  BY <1>5, <1>6, OrdersCardinality DEF up

LEMMA OrdersDone == OrdersInv => OrdersHold
  <1>. SUFFICES ASSUME OrdersInv PROVE OrdersHold
    OBVIOUS
  <1>1. B!DifferenceIsLast
    BY DEF OrdersInv, EditHolds, B!DifferenceIsLast
  <1>2. B!OneGuest
    <2>. SUFFICES ASSUME NEW g \in B!Live, NEW h \in B!Live, g # h,
                         {guest[g].phone, guest[g].temp_phone}
                            \cap {guest[h].phone, guest[h].temp_phone} # {None}
                  PROVE  {guest[g].phone, guest[g].temp_phone, guest[h].phone, guest[h].temp_phone}
                            \subseteq crossed \cup {None}
      BY DEF B!OneGuest
    <2>1. /\ {guest[g].phone, guest[g].temp_phone} = {None, Number(g)}
          /\ {guest[h].phone, guest[h].temp_phone} = {None, Number(h)}
          /\ Number(g) = Number(h) => Number(g) \in crossed
      BY DEF OrdersInv, GuestsHold
    <2>2. Number(g) = Number(h)
      BY <2>1
    <2>. QED  BY <2>1, <2>2
  <1>3. B!PaidAsTold
    BY DEF OrdersInv, PayoutHolds, B!PaidAsTold, B!Payouts, B!Booked
  <1>4. B!RefusedWhenDue
    BY RefusalHolds DEF OrdersInv
  <1>. QED  BY <1>1, <1>2, <1>3, <1>4 DEF OrdersHold, B!OrdersHold

\* Orders: what an edit leaves to be paid, what the driver of a paid booking was told, one
\* customer for a phone, and who is refused a ride (booking.service.ts).
THEOREM BooksAreKept == WorldSpec => []OrdersHold
  <1>1. OrdersInv /\ [WorldNext]_WorldVars => OrdersInv'
    BY OrdersStepIs, OrdersStep
  <1>. QED  BY <1>1, OrdersInit, OrdersDone, PTL DEF WorldSpec

-----------------------------------------------------------------------------
(* Records: reviews, and what is looked for before it is created.          *)

ClerkType ==
    [pc : {"idle", "mark", "read", "write", "phone", "flag", "store"},
     party : R!Parties \cup {None}, ride : Rides \cup {None}, kind : R!Kinds \cup {None},
     key : Keys \cup {None}, phone : Dials \cup {None}, read : Seq(R!Review)]
RecordType == [kind : R!Kinds \cup {None}, key : Keys \cup {None}, phone : Dials \cup {None}]

RecordsType ==
    /\ reviews \in [R!Parties -> Seq(R!Review)] /\ rated \in [Rides -> [R!Parties -> BOOLEAN]]
    /\ rating = [p \in R!Parties |-> rating[p]]
    /\ record \in [Ids -> RecordType] /\ card_added \in BOOLEAN
    /\ clerk \in [Clerks -> ClerkType] /\ calls \in 0 .. MaxCalls
    /\ counted \in [R!Parties -> Nat] /\ overtaken \subseteq R!Parties
    /\ edited_r \subseteq R!Live

LEMMA FreeIs == R!Free \in ClerkType /\ R!Free.pc = "idle" /\ R!Free.party = None /\ R!Free.kind = None
  BY DEF R!Free, ClerkType

LEMMA RecordsTypeInit == R!Init => RecordsType
  <1>. SUFFICES ASSUME R!Init PROVE RecordsType
    OBVIOUS
  <1>1. clerk \in [Clerks -> ClerkType]
    BY FreeIs DEF R!Init
  <1>2. calls \in 0 .. MaxCalls
    BY RecordsAssumption DEF R!Init
  <1>3. record \in [Ids -> RecordType]
    BY DEF R!Init, R!NoRecord, RecordType
  <1>4. /\ reviews \in [R!Parties -> Seq(R!Review)] /\ rated \in [Rides -> [R!Parties -> BOOLEAN]]
        /\ counted \in [R!Parties -> Nat]
    BY DEF R!Init
  <1>5. rating = [p \in R!Parties |-> rating[p]]
    BY DEF R!Init
  <1>. QED  BY <1>1, <1>2, <1>3, <1>4, <1>5 DEF R!Init, RecordsType

\* What a review adds.
LEMMA AppendIs ==
  ASSUME NEW X, NEW s \in Seq(X), NEW e \in X
  PROVE  /\ Append(s, e) \in Seq(X) /\ Len(Append(s, e)) = Len(s) + 1 /\ Append(s, e) # <<>>
         /\ Append(s, e)[Len(s) + 1] = e
         /\ \A i \in 1 .. Len(s) : Append(s, e)[i] = s[i]
  OBVIOUS

LEMMA SameSeq ==
  ASSUME NEW X, NEW s \in Seq(X), NEW t \in Seq(X), Len(s) = Len(t),
         \A i \in 1 .. Len(s) : s[i] = t[i]
  PROVE  s = t
  OBVIOUS

\* s is how t began.
Begins(s, t) == Len(s) <= Len(t) /\ \A i \in 1 .. Len(s) : s[i] = t[i]

LEMMA BeginsAppend ==
  ASSUME NEW X, NEW s \in Seq(X), NEW t \in Seq(X), NEW e \in X, Begins(s, t)
  PROVE  Begins(s, Append(t, e))
  <1>1. Len(s) \in Nat /\ Len(t) \in Nat /\ Len(s) <= Len(t)
    BY DEF Begins
  <1>2. Len(Append(t, e)) = Len(t) + 1 /\ \A i \in 1 .. Len(t) : Append(t, e)[i] = t[i]
    BY AppendIs
  <1>. QED  BY <1>1, <1>2 DEF Begins

\* The page that holds all the reviews is all of them.
LEMMA WholePage ==
  ASSUME RecordsType, NEW p \in R!Parties
  PROVE  R!Page(p, Len(reviews[p])) = reviews[p]
  <1>1. reviews[p] \in Seq(R!Review)
    BY DEF RecordsType
  <1>2. R!Page(p, Len(reviews[p])) = SubSeq(reviews[p], 1, Len(reviews[p]))
    BY <1>1 DEF R!Page
  <1>3. \A t \in Seq(R!Review) : SubSeq(t, 1, Len(t)) = t
    OBVIOUS
  <1>. QED  BY <1>1, <1>2, <1>3

LEMMA TurnIs ==
  ASSUME RecordsType, NEW k \in Clerks, NEW q \in ClerkType, R!Turn(k, q)
  PROVE  /\ clerk' \in [Clerks -> ClerkType]
         /\ clerk'[k] = q /\ \A j \in Clerks \ {k} : clerk'[j] = clerk[j]
  BY DEF RecordsType, R!Turn

LEMMA ClerkGoesTo ==
  ASSUME RecordsType, NEW k \in Clerks,
         NEW pc \in {"idle", "mark", "read", "write", "phone", "flag", "store"}, R!Goto(k, pc)
  PROVE  /\ clerk' \in [Clerks -> ClerkType]
         /\ clerk'[k] = [clerk[k] EXCEPT !.pc = pc]
         /\ clerk'[k].pc = pc /\ clerk'[k].party = clerk[k].party /\ clerk'[k].ride = clerk[k].ride
         /\ clerk'[k].kind = clerk[k].kind /\ clerk'[k].key = clerk[k].key
         /\ clerk'[k].phone = clerk[k].phone /\ clerk'[k].read = clerk[k].read
         /\ \A j \in Clerks \ {k} : clerk'[j] = clerk[j]
  <1>1. clerk \in [Clerks -> ClerkType] /\ clerk[k] \in ClerkType
    BY DEF RecordsType
  <1>2. PICK q : q = [clerk[k] EXCEPT !.pc = pc]
    OBVIOUS
  <1>3. /\ q \in ClerkType /\ q.pc = pc /\ q.party = clerk[k].party /\ q.ride = clerk[k].ride
        /\ q.kind = clerk[k].kind /\ q.key = clerk[k].key /\ q.phone = clerk[k].phone
        /\ q.read = clerk[k].read
    BY <1>1, <1>2 DEF ClerkType
  <1>4. clerk' = [clerk EXCEPT ![k] = q]
    BY <1>1, <1>2 DEF R!Goto
  <1>. QED  BY <1>1, <1>2, <1>3, <1>4

Reviewing == {"mark", "read", "write"}
Seeking == {"phone", "flag", "store"}

\* What the requests of one kind leave alone of the others.
ReviewsStay ==
    /\ UNCHANGED <<reviews, rated, rating, counted, overtaken>>
    /\ \A k \in Clerks : clerk'[k] = clerk[k]
                         \/ (clerk[k].pc \notin Reviewing /\ clerk'[k].pc \notin Reviewing)

RegistryStays ==
    /\ UNCHANGED <<record, card_added, raced_r, edited_r>>
    /\ \A k \in Clerks : clerk'[k] = clerk[k]
                         \/ (clerk[k].pc \notin Seeking /\ clerk'[k].pc \notin Seeking)

\* Somebody's request to create a record.
Creates(k, what, key, phone, pc) ==
    /\ k \in Clerks /\ what \in R!Kinds /\ key \in Keys /\ phone \in Dials \cup {None}
    /\ clerk[k].pc = "idle"
    /\ R!Seek(k, what, key, phone, pc)
    /\ UNCHANGED <<reviews, rated, rating, record, card_added, counted, overtaken, edited_r>>
    /\ what # "company" => ~R!Found(what, key)
    /\ what = "company" => ~R!Found(what, R!Lower(key))
    /\ pc = IF what = "company" THEN "phone" ELSE IF what = "card" THEN "flag" ELSE "store"
    /\ phone # None => what = "company"

\* The steps of the registry.
RegistryMoves ==
    \/ UNCHANGED <<reviews, rated, rating, record, card_added, clerk, counted, overtaken,
                   raced_r, edited_r>>
    \/ \E k, what, key, phone, pc : Creates(k, what, key, phone, pc)
    \/ \E k \in Clerks : R!CompanyNumber(k) \/ R!CardAdded(k) \/ R!Store(k)
    \/ \E what \in R!Kinds, r \in Ids, key \in Keys, phone \in Dials \cup {None} :
          R!Update(what, r, key, phone)
    \/ \E what \in R!Kinds, r \in Ids : R!Erase(what, r)

LEMMA RegistryStepIs == R!RegistryStep => RegistryMoves
  <1>. DEFINE Moves == RegistryMoves
  <1>1. ASSUME NEW k \in Clerks, NEW email \in Keys, NEW phone \in Dials,
               R!CreateCompany(k, email, phone)
        PROVE  Moves
    <2>1. R!Create(k, "company", email, phone,
                   {R!Lower(email), phone} \cap Taken # {} \/ R!Found("company", R!Lower(email)),
                   "phone")
      BY <1>1 DEF R!CreateCompany
    <2>2. \/ UNCHANGED <<reviews, rated, rating, record, card_added, clerk, counted, overtaken,
                         raced_r, edited_r>>
          \/ Creates(k, "company", email, phone, "phone")
      BY <2>1 DEF R!Create, Creates, R!Start, R!Kinds
    <2>. QED  BY <2>2 DEF RegistryMoves
  <1>2. ASSUME NEW k \in Clerks, NEW key \in Keys, NEW what \in R!Kinds \ {"company"}, NEW pc,
               pc = IF what = "card" THEN "flag" ELSE "store",
               R!Create(k, what, key, None, R!Found(what, key), pc)
        PROVE  Moves
    <2>1. \/ UNCHANGED <<reviews, rated, rating, record, card_added, clerk, counted, overtaken,
                         raced_r, edited_r>>
          \/ Creates(k, what, key, None, pc)
      BY <1>2 DEF R!Create, Creates, R!Start
    <2>. QED  BY <2>1 DEF RegistryMoves
  <1>3. ASSUME NEW k \in Clerks, NEW key \in Keys,
               \/ R!CreateComplaint(k, key) \/ R!CreateCard(k, key)
               \/ R!CreateVehicle(k, key) \/ R!CreateAddress(k, key)
        PROVE  Moves
    <2>. HIDE DEF Moves
    <2>. QED
      BY <1>2, <1>3
         DEF R!CreateComplaint, R!CreateCard, R!CreateVehicle, R!CreateAddress, R!Kinds
  <1>4. ASSUME NEW k \in Clerks, R!CompanyNumber(k) \/ R!CardAdded(k) \/ R!Store(k) PROVE Moves
    BY <1>4 DEF RegistryMoves
  <1>5. ASSUME NEW r \in Ids, NEW key \in Keys,
               \/ \E phone \in Dials : R!UpdateCompany(r, key, phone)
               \/ R!UpdateCard(r, key) \/ R!UpdateVehicle(r, key) \/ R!UpdateAddress(r, key)
        PROVE  Moves
    <2>1. \E what \in R!Kinds, phone \in Dials \cup {None} : R!Update(what, r, key, phone)
      BY <1>5 DEF R!UpdateCompany, R!UpdateCard, R!UpdateVehicle, R!UpdateAddress, R!Kinds
    <2>. QED  BY <2>1 DEF RegistryMoves
  <1>6. ASSUME NEW r \in Ids, R!RemoveCompany(r) \/ R!RemoveCard(r) \/ R!RemoveVehicle(r)
                              \/ R!RemoveAddress(r)
        PROVE  Moves
    <2>1. \E what \in R!Kinds : R!Erase(what, r)
      BY <1>6 DEF R!RemoveCompany, R!RemoveCard, R!RemoveVehicle, R!RemoveAddress, R!Kinds
    <2>. QED  BY <2>1 DEF RegistryMoves
  <1>. HIDE DEF Moves
  <1>7. R!RegistryStep => Moves
    BY <1>1, <1>3, <1>4, <1>5, <1>6 DEF R!RegistryStep
  <1>. QED  BY <1>7 DEF Moves

LEMMA SeekIs ==
  ASSUME RecordsType, NEW k, NEW what, NEW key, NEW phone, NEW pc, Creates(k, what, key, phone, pc)
  PROVE  /\ k \in Clerks /\ clerk' \in [Clerks -> ClerkType] /\ pc \in Seeking
         /\ clerk'[k].pc = pc /\ clerk'[k].kind = what /\ clerk'[k].key = key
         /\ clerk'[k].phone = phone /\ \A j \in Clerks \ {k} : clerk'[j] = clerk[j]
  <1>1. PICK q : q = [R!Free EXCEPT !.pc = pc, !.kind = what, !.key = key, !.phone = phone]
    OBVIOUS
  <1>2. pc \in Seeking
    BY DEF Creates, Seeking
  <1>3. q \in ClerkType /\ q.pc = pc /\ q.kind = what /\ q.key = key /\ q.phone = phone
    BY <1>1, <1>2, FreeIs DEF ClerkType, Seeking, Creates
  <1>4. R!Turn(k, q) /\ k \in Clerks
    BY <1>1 DEF Creates, R!Seek
  <1>. QED  BY <1>2, <1>3, <1>4, TurnIs

\* The registry leaves the reviews alone.
LEMMA RegistryLeaves == ASSUME RecordsType, RegistryMoves PROVE ReviewsStay
  <1>1. CASE UNCHANGED <<reviews, rated, rating, record, card_added, clerk, counted, overtaken,
                         raced_r, edited_r>>
    BY <1>1 DEF ReviewsStay
  <1>2. ASSUME NEW k, NEW what, NEW key, NEW phone, NEW pc, Creates(k, what, key, phone, pc)
        PROVE  ReviewsStay
    <2>1. clerk[k].pc \notin Reviewing /\ pc \notin Reviewing
      BY <1>2, SeekIs DEF Creates, Reviewing, Seeking
    <2>2. /\ k \in Clerks /\ clerk'[k].pc = pc
          /\ \A j \in Clerks \ {k} : clerk'[j] = clerk[j]
      BY <1>2, SeekIs
    <2>. QED  BY <1>2, <2>1, <2>2 DEF Creates, ReviewsStay
  <1>3. ASSUME NEW k \in Clerks, R!CompanyNumber(k) \/ R!CardAdded(k) \/ R!Store(k) PROVE ReviewsStay
    <2>1. clerk[k].pc \notin Reviewing /\ UNCHANGED <<reviews, rated, rating, counted, overtaken>>
      BY <1>3 DEF R!CompanyNumber, R!CardAdded, R!Store, Reviewing
    <2>2. R!Turn(k, R!Free) \/ R!Goto(k, "store")
      BY <1>3 DEF R!CompanyNumber, R!CardAdded, R!Store
    <2>3. /\ clerk'[k].pc \notin Reviewing
          /\ \A j \in Clerks \ {k} : clerk'[j] = clerk[j]
      BY <2>2, TurnIs, ClerkGoesTo, FreeIs DEF Reviewing
    <2>. QED  BY <2>1, <2>3 DEF ReviewsStay
  <1>4. ASSUME NEW what \in R!Kinds, NEW r \in Ids,
               \/ \E key \in Keys, phone \in Dials \cup {None} : R!Update(what, r, key, phone)
               \/ R!Erase(what, r)
        PROVE  ReviewsStay
    BY <1>4 DEF R!Update, R!Erase, ReviewsStay
  <1>. QED  BY <1>1, <1>2, <1>3, <1>4 DEF RegistryMoves

\* A review that is made.
LEMMA CreateReviewIs ==
  ASSUME RecordsType, NEW k \in Clerks, NEW b \in Rides, NEW p \in R!Parties, NEW rate \in Rates,
         R!CreateReview(k, b, p, rate)
  PROVE  /\ clerk[k].pc = "idle" /\ clerk' \in [Clerks -> ClerkType]
         /\ clerk'[k].pc = "mark" /\ clerk'[k].party = p /\ clerk'[k].ride = b
         /\ \A j \in Clerks \ {k} : clerk'[j] = clerk[j]
         /\ reviews' \in [R!Parties -> Seq(R!Review)]
         /\ \A q \in R!Parties \ {p} : reviews'[q] = reviews[q]
         /\ \E e \in R!Review : e.ride = b /\ reviews'[p] = Append(reviews[p], e)
  <1>0. reviews \in [R!Parties -> Seq(R!Review)]
    BY DEF RecordsType
  <1>1. PICK q : q = [R!Free EXCEPT !.pc = "mark", !.party = p, !.ride = b]
    OBVIOUS
  <1>2. q \in ClerkType /\ q.pc = "mark" /\ q.party = p /\ q.ride = b
    BY <1>1, FreeIs DEF ClerkType
  <1>3. R!Turn(k, q) /\ clerk[k].pc = "idle"
    BY <1>1 DEF R!CreateReview, R!Start
  <1>4. PICK e \in R!Review : e = [ride |-> b, rate |-> rate]
    BY DEF R!Review
  <1>5. e.ride = b /\ Append(reviews[p], e) \in Seq(R!Review)
    BY <1>0, <1>4, AppendIs
  <1>6. reviews' = [reviews EXCEPT ![p] = Append(reviews[p], e)]
    BY <1>0, <1>4 DEF R!CreateReview
  <1>7. /\ reviews' \in [R!Parties -> Seq(R!Review)] /\ reviews'[p] = Append(reviews[p], e)
        /\ \A x \in R!Parties \ {p} : reviews'[x] = reviews[x]
    BY <1>0, <1>5, <1>6
  <1>. QED  BY <1>2, <1>3, <1>5, <1>7, TurnIs

\* Reading the reviews.
LEMMA ReadIs ==
  ASSUME RecordsType, NEW k \in Clerks, R!ReadReviews(k), clerk[k].party \in R!Parties
  PROVE  /\ clerk[k].pc = "read" /\ clerk' \in [Clerks -> ClerkType]
         /\ clerk'[k].pc = "write" /\ clerk'[k].party = clerk[k].party
         /\ clerk'[k].read = reviews[clerk[k].party]
         /\ \A j \in Clerks \ {k} : clerk'[j] = clerk[j]
  <1>0. clerk[k] \in ClerkType /\ reviews[clerk[k].party] \in Seq(R!Review)
    BY DEF RecordsType
  <1>1. PICK s \in Seq(R!Review) : s = reviews[clerk[k].party]
    BY <1>0
  <1>2. PICK q : q = [clerk[k] EXCEPT !.pc = "write", !.read = s]
    OBVIOUS
  <1>3. q \in ClerkType /\ q.pc = "write" /\ q.party = clerk[k].party /\ q.read = s
    BY <1>0, <1>2 DEF ClerkType
  <1>4. R!Turn(k, q) /\ clerk[k].pc = "read"
    BY <1>1, <1>2 DEF R!ReadReviews
  <1>. QED  BY <1>1, <1>3, <1>4, TurnIs

\* The reviews leave the registry alone.
LEMMA ReviewsLeave ==
  ASSUME RecordsType, R!ReviewStep, \A k \in Clerks : clerk[k].pc \in Reviewing => clerk[k].party \in R!Parties
  PROVE  RegistryStays
  <1>1. ASSUME NEW k \in Clerks, NEW b \in Rides, NEW p \in R!Parties, NEW rate \in Rates,
               R!CreateReview(k, b, p, rate)
        PROVE  RegistryStays
    <2>1. clerk[k].pc \notin Seeking /\ clerk'[k].pc \notin Seeking
          /\ \A j \in Clerks \ {k} : clerk'[j] = clerk[j]
      BY <1>1, CreateReviewIs DEF Seeking
    <2>. QED  BY <1>1, <2>1 DEF R!CreateReview, RegistryStays
  <1>2. ASSUME NEW k \in Clerks, R!MarkRated(k) PROVE RegistryStays
    <2>1. clerk[k].pc = "mark" /\ R!Goto(k, "read")
      BY <1>2 DEF R!MarkRated
    <2>2. clerk'[k].pc = "read" /\ \A j \in Clerks \ {k} : clerk'[j] = clerk[j]
      BY <2>1, ClerkGoesTo
    <2>. QED  BY <1>2, <2>1, <2>2 DEF R!MarkRated, RegistryStays, Seeking
  <1>3. ASSUME NEW k \in Clerks, R!ReadReviews(k) PROVE RegistryStays
    <2>1. clerk[k].pc = "read" /\ clerk[k].party \in R!Parties
      BY <1>3 DEF R!ReadReviews, Reviewing
    <2>2. clerk'[k].pc = "write" /\ \A j \in Clerks \ {k} : clerk'[j] = clerk[j]
      BY <1>3, <2>1, ReadIs
    <2>. QED  BY <1>3, <2>1, <2>2 DEF R!ReadReviews, RegistryStays, Seeking
  <1>4. ASSUME NEW k \in Clerks, R!WriteRating(k) PROVE RegistryStays
    <2>1. clerk[k].pc = "write" /\ R!Turn(k, R!Free)
      BY <1>4 DEF R!WriteRating
    <2>2. clerk'[k].pc = "idle" /\ \A j \in Clerks \ {k} : clerk'[j] = clerk[j]
      BY <2>1, TurnIs, FreeIs
    <2>. QED  BY <1>4, <2>1, <2>2 DEF R!WriteRating, RegistryStays, Seeking
  <1>. QED  BY <1>1, <1>2, <1>3, <1>4 DEF R!ReviewStep

---------------------------------------------------------------------------

ReviewOf(b, p) == \E i \in 1 .. Len(reviews[p]) : reviews[p][i].ride = b

\* The handler of a review knows whose it is, and has read reviews that are still there.
ReviewerHolds(c) ==
    /\ c.pc \in Reviewing => c.party \in R!Parties
    /\ c.pc = "mark" => c.ride \in Rides /\ ReviewOf(c.ride, c.party)
    /\ c.pc = "write" => Begins(c.read, reviews[c.party])

Marks(k, b, p) == clerk[k].pc = "mark" /\ clerk[k].party = p /\ clerk[k].ride = b

\* What is reviewed is marked, or about to be.
MarksHold(p) ==
    \A b \in Rides :
       /\ rated[b][p] => ReviewOf(b, p)
       /\ ReviewOf(b, p) => rated[b][p] \/ \E k \in Clerks : Marks(k, b, p)

\* k has still to write a rating that counts every review there is.
Counts(k, p) ==
    /\ clerk[k].party = p
    /\ \/ clerk[k].pc \in {"mark", "read"}
       \/ clerk[k].pc = "write" /\ Len(clerk[k].read) = Len(reviews[p])

RatingHolds(p) ==
    /\ counted[p] <= Len(reviews[p])
    /\ Len(reviews[p]) > 0 =>
         counted[p] = Len(reviews[p]) \/ \E k \in Clerks : Counts(k, p)
    /\ p \notin overtaken /\ counted[p] > 0 =>
         \E rs \in Seq(R!Review) : /\ Len(rs) = counted[p] /\ Begins(rs, reviews[p])
                                   /\ rating[p] = R!Average(rs)

ReviewsInv ==
    /\ \A k \in Clerks : ReviewerHolds(clerk[k])
    /\ \A p \in R!Parties : MarksHold(p) /\ RatingHolds(p)

LEMMA ReviewsKept == ASSUME RecordsType, ReviewsInv, ReviewsStay PROVE ReviewsInv'
  <1>1. \A b \in Rides, p \in R!Parties : ReviewOf(b, p)' <=> ReviewOf(b, p)
    BY DEF ReviewsStay, ReviewOf
  <1>2. ASSUME NEW k \in Clerks PROVE ReviewerHolds(clerk[k])'
    <2>1. CASE clerk'[k] = clerk[k]
      BY <1>1, <2>1 DEF ReviewsInv, ReviewerHolds, ReviewsStay, Reviewing
    <2>2. CASE clerk'[k].pc \notin Reviewing
      BY <2>2 DEF ReviewerHolds, Reviewing
    <2>. QED  BY <2>1, <2>2 DEF ReviewsStay
  <1>3. ASSUME NEW p \in R!Parties PROVE MarksHold(p)'
    <2>1. \A k \in Clerks, b \in Rides : Marks(k, b, p) => Marks(k, b, p)'
      BY DEF ReviewsStay, Marks, Reviewing
    <2>2. MarksHold(p) /\ rated' = rated
      BY DEF ReviewsInv, ReviewsStay
    <2>. QED  BY <1>1, <2>1, <2>2 DEF MarksHold
  <1>4. ASSUME NEW p \in R!Parties PROVE RatingHolds(p)'
    <2>1. \A k \in Clerks : Counts(k, p) => Counts(k, p)'
      BY DEF ReviewsStay, Counts, Reviewing
    <2>2. RatingHolds(p) /\ UNCHANGED <<reviews, rating, counted, overtaken>>
      BY DEF ReviewsInv, ReviewsStay
    <2>. QED  BY <2>1, <2>2 DEF RatingHolds
  <1>. QED  BY <1>2, <1>3, <1>4 DEF ReviewsInv

\* A review is added to those of one party.
LEMMA ReviewAdded ==
  ASSUME RecordsType, ReviewsInv, NEW k \in Clerks, NEW b \in Rides, NEW p \in R!Parties,
         NEW rate \in Rates, R!CreateReview(k, b, p, rate)
  PROVE  ReviewsInv'
  <1>0. /\ reviews \in [R!Parties -> Seq(R!Review)] /\ clerk \in [Clerks -> ClerkType]
        /\ counted \in [R!Parties -> Nat] /\ UNCHANGED <<rated, rating, counted, overtaken>>
    BY DEF RecordsType, R!CreateReview
  <1>1. /\ clerk[k].pc = "idle"
        /\ clerk'[k].pc = "mark" /\ clerk'[k].party = p /\ clerk'[k].ride = b
        /\ \A j \in Clerks \ {k} : clerk'[j] = clerk[j]
        /\ \A q \in R!Parties \ {p} : reviews'[q] = reviews[q]
    BY CreateReviewIs
  <1>2. PICK e \in R!Review : e.ride = b /\ reviews'[p] = Append(reviews[p], e)
    BY CreateReviewIs
  <1>3. /\ Len(reviews[p]) \in Nat /\ Len(reviews'[p]) = Len(reviews[p]) + 1
        /\ reviews'[p][Len(reviews[p]) + 1] = e
        /\ \A i \in 1 .. Len(reviews[p]) : reviews'[p][i] = reviews[p][i]
    BY <1>0, <1>2, AppendIs
  <1>4. ReviewOf(b, p)'
    BY <1>2, <1>3 DEF ReviewOf
  <1>5. \A a \in Rides, q \in R!Parties : ReviewOf(a, q) => ReviewOf(a, q)'
    BY <1>1, <1>3 DEF ReviewOf
  <1>6. \A a \in Rides, q \in R!Parties : ReviewOf(a, q)' => ReviewOf(a, q) \/ (a = b /\ q = p)
    <2>. SUFFICES ASSUME NEW a \in Rides, NEW q \in R!Parties, ReviewOf(a, q)', ~ReviewOf(a, q)
                  PROVE  a = b /\ q = p
      OBVIOUS
    <2>1. q = p
      BY <1>1 DEF ReviewOf
    <2>2. PICK i \in 1 .. Len(reviews'[p]) : reviews'[p][i].ride = a
      BY <2>1 DEF ReviewOf
    <2>3. i \notin 1 .. Len(reviews[p])
      BY <1>3, <2>1, <2>2 DEF ReviewOf
    <2>4. i = Len(reviews[p]) + 1
      BY <1>3, <2>2, <2>3
    <2>. QED  BY <1>2, <1>3, <2>1, <2>2, <2>4
  <1>7. ASSUME NEW j \in Clerks PROVE ReviewerHolds(clerk[j])'
    <2>1. CASE j = k
      BY <1>1, <1>4, <2>1 DEF ReviewerHolds, Reviewing
    <2>2. CASE j # k
      <3>1. clerk'[j] = clerk[j] /\ ReviewerHolds(clerk[j])
        BY <1>1, <2>2 DEF ReviewsInv
      <3>2. ASSUME clerk[j].pc = "write" PROVE Begins(clerk[j].read, reviews'[clerk[j].party])
        <4>1. Begins(clerk[j].read, reviews[clerk[j].party]) /\ clerk[j].party \in R!Parties
          BY <3>1, <3>2 DEF ReviewerHolds, Reviewing
        <4>2. clerk[j].read \in Seq(R!Review)
          BY <1>0 DEF ClerkType
        <4>3. CASE clerk[j].party = p
          BY <1>0, <1>2, <4>1, <4>2, <4>3, BeginsAppend
        <4>4. CASE clerk[j].party # p
          BY <1>1, <4>1, <4>4
        <4>. QED  BY <4>3, <4>4
      <3>3. clerk[j].pc = "mark" => clerk[j].party \in R!Parties
        BY <3>1 DEF ReviewerHolds, Reviewing
      <3>. QED  BY <1>5, <3>1, <3>2, <3>3 DEF ReviewerHolds
    <2>. QED  BY <2>1, <2>2
  <1>8. ASSUME NEW q \in R!Parties PROVE MarksHold(q)'
    <2>1. \A j \in Clerks, a \in Rides : Marks(j, a, q) => Marks(j, a, q)'
      BY <1>1 DEF Marks
    <2>2. Marks(k, b, p)'
      BY <1>1 DEF Marks
    <2>3. MarksHold(q) /\ rated' = rated
      BY <1>0 DEF ReviewsInv
    <2>. QED  BY <1>5, <1>6, <2>1, <2>2, <2>3 DEF MarksHold
  <1>9. ASSUME NEW q \in R!Parties PROVE RatingHolds(q)'
    <2>0. RatingHolds(q)
      BY DEF ReviewsInv
    <2>1. CASE q # p
      <3>1. \A j \in Clerks : Counts(j, q) => Counts(j, q)'
        BY <1>1, <2>1 DEF Counts
      <3>. QED  BY <1>0, <1>1, <2>0, <2>1, <3>1 DEF RatingHolds
    <2>2. CASE q = p
      <3>1. Counts(k, p)'
        BY <1>1 DEF Counts
      <3>2. counted'[p] = counted[p] /\ counted[p] \in Nat /\ counted[p] <= Len(reviews[p])
            /\ rating'[p] = rating[p] /\ overtaken' = overtaken
        BY <1>0, <2>0, <2>2 DEF RatingHolds
      <3>3. counted'[p] <= Len(reviews'[p])
        BY <1>3, <3>2
      <3>4. ASSUME p \notin overtaken, counted[p] > 0
            PROVE  \E rs \in Seq(R!Review) : /\ Len(rs) = counted[p] /\ Begins(rs, reviews'[p])
                                             /\ rating[p] = R!Average(rs)
        <4>1. PICK rs \in Seq(R!Review) : /\ Len(rs) = counted[p] /\ Begins(rs, reviews[p])
                                          /\ rating[p] = R!Average(rs)
          BY <2>0, <2>2, <3>4 DEF RatingHolds
        <4>2. Begins(rs, reviews'[p])
          BY <1>0, <1>2, <4>1, BeginsAppend
        <4>. QED  BY <4>1, <4>2
      <3>. QED  BY <2>2, <3>1, <3>2, <3>3, <3>4 DEF RatingHolds
    <2>. QED  BY <2>1, <2>2
  <1>. QED  BY <1>7, <1>8, <1>9 DEF ReviewsInv

\* The booking is marked.
LEMMA ReviewMarked ==
  ASSUME RecordsType, ReviewsInv, NEW k \in Clerks, R!MarkRated(k)
  PROVE  ReviewsInv'
  <1>0. /\ UNCHANGED <<reviews, rating, counted, overtaken>> /\ ReviewerHolds(clerk[k])
        /\ clerk[k].pc = "mark" /\ R!Goto(k, "read") /\ rated \in [Rides -> [R!Parties -> BOOLEAN]]
    BY DEF R!MarkRated, ReviewsInv, RecordsType
  <1>1. /\ clerk'[k].pc = "read" /\ clerk'[k].party = clerk[k].party
        /\ \A j \in Clerks \ {k} : clerk'[j] = clerk[j]
    BY <1>0, ClerkGoesTo
  <1>2. PICK p \in R!Parties, b \in Rides :
          p = clerk[k].party /\ b = clerk[k].ride /\ ReviewOf(b, p)
    BY <1>0 DEF ReviewerHolds, Reviewing
  <1>3. rated' = [rated EXCEPT ![b][p] = TRUE]
    BY <1>2 DEF R!MarkRated
  <1>4. \A a \in Rides, q \in R!Parties : rated'[a][q] <=> rated[a][q] \/ (a = b /\ q = p)
    BY <1>0, <1>3
  <1>5. \A a \in Rides, q \in R!Parties : ReviewOf(a, q)' <=> ReviewOf(a, q)
    BY <1>0 DEF ReviewOf
  <1>6. ASSUME NEW j \in Clerks PROVE ReviewerHolds(clerk[j])'
    <2>1. CASE j = k
      BY <1>1, <1>2, <2>1 DEF ReviewerHolds, Reviewing
    <2>2. CASE j # k
      BY <1>0, <1>1, <1>5, <2>2 DEF ReviewerHolds, ReviewsInv, Reviewing
    <2>. QED  BY <2>1, <2>2
  <1>7. ASSUME NEW q \in R!Parties PROVE MarksHold(q)'
    <2>1. \A j \in Clerks, a \in Rides : Marks(j, a, q) => Marks(j, a, q)' \/ (a = b /\ q = p)
      BY <1>1, <1>2 DEF Marks
    <2>2. MarksHold(q)
      BY DEF ReviewsInv
    <2>. QED  BY <1>2, <1>4, <1>5, <2>1, <2>2 DEF MarksHold
  <1>8. ASSUME NEW q \in R!Parties PROVE RatingHolds(q)'
    <2>1. \A j \in Clerks : Counts(j, q) => Counts(j, q)'
      BY <1>0, <1>1 DEF Counts
    <2>2. RatingHolds(q)
      BY DEF ReviewsInv
    <2>. QED  BY <1>0, <2>1, <2>2 DEF RatingHolds
  <1>. QED  BY <1>6, <1>7, <1>8 DEF ReviewsInv

\* The reviews are read.
LEMMA ReviewsRead ==
  ASSUME RecordsType, ReviewsInv, NEW k \in Clerks, R!ReadReviews(k)
  PROVE  ReviewsInv'
  <1>0. /\ UNCHANGED <<reviews, rated, rating, counted, overtaken>> /\ ReviewerHolds(clerk[k])
        /\ clerk[k].pc = "read" /\ reviews \in [R!Parties -> Seq(R!Review)]
    BY DEF R!ReadReviews, ReviewsInv, RecordsType
  <1>1. PICK p \in R!Parties : p = clerk[k].party
    BY <1>0 DEF ReviewerHolds, Reviewing
  <1>2. /\ clerk'[k].pc = "write" /\ clerk'[k].party = p /\ clerk'[k].read = reviews[p]
        /\ \A j \in Clerks \ {k} : clerk'[j] = clerk[j]
    BY <1>1, ReadIs
  <1>3. Begins(reviews[p], reviews[p])
    BY <1>0 DEF Begins
  <1>4. \A a \in Rides, q \in R!Parties : ReviewOf(a, q)' <=> ReviewOf(a, q)
    BY <1>0 DEF ReviewOf
  <1>5. ASSUME NEW j \in Clerks PROVE ReviewerHolds(clerk[j])'
    <2>1. CASE j = k
      BY <1>0, <1>2, <1>3, <2>1 DEF ReviewerHolds, Reviewing
    <2>2. CASE j # k
      BY <1>0, <1>2, <1>4, <2>2 DEF ReviewerHolds, ReviewsInv, Reviewing
    <2>. QED  BY <2>1, <2>2
  <1>6. ASSUME NEW q \in R!Parties PROVE MarksHold(q)'
    <2>1. \A j \in Clerks, a \in Rides : Marks(j, a, q) => Marks(j, a, q)'
      BY <1>0, <1>2 DEF Marks
    <2>2. MarksHold(q)
      BY DEF ReviewsInv
    <2>. QED  BY <1>0, <1>4, <2>1, <2>2 DEF MarksHold
  <1>7. ASSUME NEW q \in R!Parties PROVE RatingHolds(q)'
    <2>1. \A j \in Clerks : Counts(j, q) => Counts(j, q)'
      BY <1>0, <1>1, <1>2 DEF Counts
    <2>2. RatingHolds(q)
      BY DEF ReviewsInv
    <2>. QED  BY <1>0, <2>1, <2>2 DEF RatingHolds
  <1>. QED  BY <1>5, <1>6, <1>7 DEF ReviewsInv

\* The rating is written.
LEMMA RatingWritten ==
  ASSUME RecordsType, ReviewsInv, NEW k \in Clerks, R!WriteRating(k)
  PROVE  ReviewsInv'
  <1>0. /\ UNCHANGED <<reviews, rated>> /\ ReviewerHolds(clerk[k])
        /\ clerk[k].pc = "write" /\ R!Turn(k, R!Free)
        /\ reviews \in [R!Parties -> Seq(R!Review)] /\ clerk[k] \in ClerkType
        /\ counted \in [R!Parties -> Nat] /\ rating = [q \in R!Parties |-> rating[q]]
    BY DEF R!WriteRating, ReviewsInv, RecordsType
  <1>1. PICK p \in R!Parties, s \in Seq(R!Review) :
          p = clerk[k].party /\ s = clerk[k].read /\ Begins(s, reviews[p])
    BY <1>0 DEF ReviewerHolds, Reviewing, ClerkType
  <1>2. clerk'[k].pc = "idle" /\ \A j \in Clerks \ {k} : clerk'[j] = clerk[j]
    BY <1>0, TurnIs, FreeIs
  <1>3. /\ rating' = [rating EXCEPT ![p] = R!Average(s)]
        /\ counted' = [counted EXCEPT ![p] = IF Len(s) > counted[p] THEN Len(s) ELSE counted[p]]
        /\ overtaken' = IF Len(s) < counted[p] THEN overtaken \cup {p} ELSE overtaken \ {p}
    BY <1>1 DEF R!WriteRating
  <1>4. /\ rating'[p] = R!Average(s)
        /\ counted'[p] = IF Len(s) > counted[p] THEN Len(s) ELSE counted[p]
        /\ \A q \in R!Parties \ {p} : rating'[q] = rating[q] /\ counted'[q] = counted[q]
                                      /\ (q \in overtaken' <=> q \in overtaken)
        /\ p \in overtaken' <=> Len(s) < counted[p]
    BY <1>0, <1>3
  <1>5. \A a \in Rides, q \in R!Parties : ReviewOf(a, q)' <=> ReviewOf(a, q)
    BY <1>0 DEF ReviewOf
  <1>6. ASSUME NEW j \in Clerks PROVE ReviewerHolds(clerk[j])'
    <2>1. CASE j = k
      BY <1>2, <2>1 DEF ReviewerHolds, Reviewing
    <2>2. CASE j # k
      BY <1>0, <1>2, <1>5, <2>2 DEF ReviewerHolds, ReviewsInv, Reviewing
    <2>. QED  BY <2>1, <2>2
  <1>7. ASSUME NEW q \in R!Parties PROVE MarksHold(q)'
    <2>1. \A j \in Clerks, a \in Rides : Marks(j, a, q) => Marks(j, a, q)'
      BY <1>0, <1>2 DEF Marks
    <2>2. MarksHold(q)
      BY DEF ReviewsInv
    <2>. QED  BY <1>0, <1>5, <2>1, <2>2 DEF MarksHold
  <1>8. ASSUME NEW q \in R!Parties PROVE RatingHolds(q)'
    <2>0. RatingHolds(q)
      BY DEF ReviewsInv
    <2>1. \A j \in Clerks \ {k} : Counts(j, q) => Counts(j, q)'
      BY <1>0, <1>2 DEF Counts
    <2>2. CASE q # p
      <3>1. \A j \in Clerks : Counts(j, q) => Counts(j, q)'
        BY <1>1, <2>1, <2>2 DEF Counts
      <3>. QED  BY <1>0, <1>4, <2>0, <2>2, <3>1 DEF RatingHolds
    <2>3. CASE q = p
      <3>1. /\ Len(s) \in Nat /\ counted[p] \in Nat /\ Len(reviews[p]) \in Nat
            /\ Len(s) <= Len(reviews[p]) /\ counted[p] <= Len(reviews[p])
        BY <1>0, <1>1, <2>0, <2>3 DEF RatingHolds, Begins
      <3>2. counted'[p] <= Len(reviews[p])
        BY <1>4, <3>1
      <3>3. ASSUME Len(reviews[p]) > 0
            PROVE  counted'[p] = Len(reviews[p]) \/ \E j \in Clerks : Counts(j, p)'
        <4>1. CASE counted[p] = Len(reviews[p])
          BY <1>4, <3>1, <4>1
        <4>2. CASE Counts(k, p)
          <5>1. Len(s) = Len(reviews[p])
            BY <1>0, <1>1, <4>2 DEF Counts
          <5>. QED  BY <1>4, <3>1, <5>1
        <4>. QED  BY <2>0, <2>1, <2>3, <3>3, <4>1, <4>2 DEF RatingHolds
      <3>4. ASSUME p \notin overtaken'
            PROVE  Len(s) = counted'[p] /\ rating'[p] = R!Average(s)
        BY <1>4, <3>1, <3>4
      <3>. QED  BY <1>0, <1>1, <2>3, <3>2, <3>3, <3>4 DEF RatingHolds
    <2>. QED  BY <2>2, <2>3
  <1>. QED  BY <1>6, <1>7, <1>8 DEF ReviewsInv

LEMMA ReviewsStep ==
  ASSUME RecordsType, ReviewsInv, [R!Next]_(R!vars)
  PROVE  ReviewsInv'
  <1>1. CASE R!ReviewStep
    BY <1>1, ReviewAdded, ReviewMarked, ReviewsRead, RatingWritten DEF R!ReviewStep
  <1>2. CASE R!RegistryStep
    BY <1>2, RegistryStepIs, RegistryLeaves, ReviewsKept
  <1>3. CASE UNCHANGED R!vars
    <2>1. ReviewsStay
      BY <1>3 DEF R!vars, ReviewsStay
    <2>. QED  BY <2>1, ReviewsKept
  <1>. QED  BY <1>1, <1>2, <1>3 DEF R!Next

---------------------------------------------------------------------------

Capital == {"company"} \X Capitals
SoughtOf(r) == R!Sought(record[r].kind, record[r].key, record[r].phone)
SoughtBy(c) == R!Sought(c.kind, c.key, c.phone)

\* What has been looked for so far: a company's number is, after its e-mail.
Checked(c) == IF c.pc = "phone" THEN {<<c.kind, c.key>>} ELSE SoughtBy(c)

Plain == R!Live \ edited_r

\* A request about to create a record knows of no other, among those that were not edited.
SeekerHolds(c) ==
    c.pc \in Seeking =>
       /\ c.kind \in R!Kinds /\ c.key \in Keys
       /\ c.pc = "phone" => c.kind = "company"
       /\ \A r \in Plain : record[r].kind = c.kind => Checked(c) \cap SoughtOf(r) \subseteq raced_r \cup Capital
       /\ c.kind = "card" /\ c.pc = "store" => card_added

RegistryInv ==
    /\ \A k \in Clerks : SeekerHolds(clerk[k])
    /\ \A k, j \in Clerks :
         k # j /\ {clerk[k].pc, clerk[j].pc} \subseteq Seeking /\ clerk[k].kind = clerk[j].kind =>
            SoughtBy(clerk[k]) \cap SoughtBy(clerk[j]) \subseteq raced_r
    /\ \A r, q \in Plain : r # q /\ record[r].kind = record[q].kind =>
          SoughtOf(r) \cap SoughtOf(q) \subseteq raced_r \cup Capital
    /\ R!Of("card") # {} => card_added

LEMMA RegistryInit == R!Init => RegistryInv /\ ReviewsInv
  <1>. SUFFICES ASSUME R!Init PROVE RegistryInv /\ ReviewsInv
    OBVIOUS
  <1>1. \A k \in Clerks : clerk[k].pc = "idle"
    BY FreeIs DEF R!Init
  <1>2. R!Live = {} /\ R!Of("card") = {} /\ Plain = {}
    BY DEF R!Init, R!NoRecord, R!Live, R!Of, Plain
  <1>3. RegistryInv
    BY <1>1, <1>2 DEF RegistryInv, SeekerHolds, Seeking
  <1>4. \A p \in R!Parties : Len(reviews[p]) = 0 /\ counted[p] = 0
    BY DEF R!Init
  <1>5. \A p \in R!Parties, b \in Rides : ~rated[b][p] /\ ~ReviewOf(b, p)
    BY <1>4 DEF R!Init, ReviewOf
  <1>6. ReviewsInv
    BY <1>1, <1>4, <1>5 DEF ReviewsInv, ReviewerHolds, Reviewing, MarksHold, RatingHolds
  <1>. QED  BY <1>3, <1>6

\* What a record and a request have in common is a key or a number.
LEMMA CommonIs ==
  ASSUME RecordsType, NEW r \in R!Live, NEW key \in Keys, NEW phone \in Dials \cup {None}
  PROVE  /\ <<record[r].kind, key>> \in SoughtOf(r) => record[r].key = key
         /\ phone # None /\ <<record[r].kind, phone>> \in SoughtOf(r) => record[r].phone = phone
  <1>1. record[r].key \in Keys \cup {None} /\ record[r].phone \in Dials \cup {None}
    BY DEF RecordsType, RecordType, R!Live
  <1>2. key # None /\ key \notin Dials /\ (phone # None => phone \notin Keys)
    BY RecordsAssumption
  <1>. QED  BY <1>1, <1>2 DEF SoughtOf, R!Sought

LEMMA SeekersKept ==
  ASSUME RegistryInv, RegistryStays
  PROVE  RegistryInv'
  <1>1. /\ R!Live' = R!Live /\ Plain' = Plain /\ raced_r' = raced_r /\ card_added' = card_added
        /\ R!Of("card")' = R!Of("card") /\ record' = record
        /\ \A r \in Ids : SoughtOf(r)' = SoughtOf(r)
    BY DEF RegistryStays, R!Live, Plain, R!Of, SoughtOf
  <1>2. \A k \in Clerks : clerk'[k].pc \in Seeking => clerk'[k] = clerk[k]
    BY DEF RegistryStays
  <1>3. Plain \subseteq Ids
    BY DEF Plain, R!Live
  <1>4. (\A k \in Clerks : SeekerHolds(clerk[k]))'
    BY <1>1, <1>2, <1>3 DEF SeekerHolds, RegistryInv, Checked, SoughtBy
  <1>5. (\A k, j \in Clerks :
         k # j /\ {clerk[k].pc, clerk[j].pc} \subseteq Seeking /\ clerk[k].kind = clerk[j].kind =>
            SoughtBy(clerk[k]) \cap SoughtBy(clerk[j]) \subseteq raced_r)'
    <2>. SUFFICES ASSUME NEW k \in Clerks, NEW j \in Clerks, k # j,
                         clerk'[k].pc \in Seeking, clerk'[j].pc \in Seeking,
                         clerk'[k].kind = clerk'[j].kind
                  PROVE  SoughtBy(clerk'[k]) \cap SoughtBy(clerk'[j]) \subseteq raced_r'
      BY DEF SoughtBy
    <2>1. clerk'[k] = clerk[k] /\ clerk'[j] = clerk[j]
      BY <1>2
    <2>. QED  BY <1>1, <2>1 DEF RegistryInv
  <1>6. (\A r, q \in Plain : r # q /\ record[r].kind = record[q].kind =>
          SoughtOf(r) \cap SoughtOf(q) \subseteq raced_r \cup Capital)'
    BY <1>1, <1>3 DEF RegistryInv
  <1>. QED  BY <1>1, <1>4, <1>5, <1>6 DEF RegistryInv

\* A request starts, and has found no other record.
LEMMA RequestStarts ==
  ASSUME RecordsType, RegistryInv, NEW k, NEW what, NEW key, NEW phone, NEW pc,
         Creates(k, what, key, phone, pc)
  PROVE  RegistryInv'
  <1>0. /\ what \in R!Kinds /\ key \in Keys /\ phone \in Dials \cup {None}
        /\ UNCHANGED <<record, card_added, edited_r>>
        /\ raced_r' = raced_r \cup R!Overlap(what, key, phone)
    BY DEF Creates, R!Seek
  <1>1. /\ k \in Clerks /\ pc \in Seeking
        /\ clerk'[k].pc = pc /\ clerk'[k].kind = what /\ clerk'[k].key = key
        /\ clerk'[k].phone = phone /\ \A j \in Clerks \ {k} : clerk'[j] = clerk[j]
    BY SeekIs
  <1>2. /\ R!Live' = R!Live /\ Plain' = Plain /\ R!Of("card")' = R!Of("card")
        /\ \A r \in Ids : SoughtOf(r)' = SoughtOf(r)
        /\ raced_r \subseteq raced_r' /\ Plain \subseteq Ids /\ Plain \subseteq R!Live
    BY <1>0 DEF R!Live, Plain, R!Of, SoughtOf
  <1>3. pc = IF what = "company" THEN "phone" ELSE IF what = "card" THEN "flag" ELSE "store"
    BY DEF Creates
  <1>4. ASSUME NEW r \in Plain, record[r].kind = what
        PROVE  <<what, key>> \in SoughtOf(r) => <<what, key>> \in Capital
    <2>. SUFFICES ASSUME <<what, key>> \in SoughtOf(r), key \notin Capitals \/ what # "company"
                  PROVE  FALSE
      BY DEF Capital
    <2>1. r \in R!Live /\ record[r].key = key
      BY <1>0, <1>2, <1>4, CommonIs
    <2>2. R!Found(what, key)
      BY <1>4, <2>1 DEF R!Found, R!Of
    <2>3. what = "company" /\ R!Lower(key) = key
      BY <2>2 DEF Creates, R!Lower
    <2>. QED  BY <2>2, <2>3 DEF Creates
  <1>5. Checked(clerk'[k]) \subseteq {<<what, key>>}
    <2>1. CASE what = "company"
      BY <1>1, <1>3, <2>1 DEF Checked
    <2>2. CASE what # "company"
      <3>1. phone = None
        BY <2>2 DEF Creates
      <3>2. clerk'[k].pc # "phone"
        BY <1>1, <1>3, <2>2
      <3>. QED  BY <1>1, <3>1, <3>2 DEF Checked, SoughtBy, R!Sought
    <2>. QED  BY <2>1, <2>2
  <1>6. SeekerHolds(clerk[k])'
    <2>1. \A r \in Plain : record[r].kind = what =>
             Checked(clerk'[k]) \cap SoughtOf(r) \subseteq raced_r' \cup Capital
      BY <1>4, <1>5
    <2>2. Checked(clerk[k])' = Checked(clerk'[k])
      BY DEF Checked, SoughtBy
    <2>3. pc = "phone" => what = "company"
      BY <1>3
    <2>4. ~(what = "card" /\ pc = "store")
      BY <1>3
    <2>5. \A r \in Plain' : record'[r].kind = what =>
             Checked(clerk[k])' \cap SoughtOf(r)' \subseteq raced_r' \cup Capital
      BY <1>0, <1>2, <2>1, <2>2
    <2>. QED  BY <1>0, <1>1, <2>3, <2>4, <2>5 DEF SeekerHolds
  <1>7. ASSUME NEW j \in Clerks \ {k} PROVE SeekerHolds(clerk[j])'
    <2>1. SeekerHolds(clerk[j]) /\ clerk'[j] = clerk[j]
      BY <1>1 DEF RegistryInv
    <2>. QED  BY <1>0, <1>2, <2>1 DEF SeekerHolds, Checked, SoughtBy
  <1>8. ASSUME NEW j \in Clerks \ {k}, clerk[j].kind = what
        PROVE  SoughtBy(clerk'[k]) \cap SoughtBy(clerk[j]) \subseteq raced_r'
    <2>1. SoughtBy(clerk'[k]) = R!Sought(what, key, phone)
      BY <1>1 DEF SoughtBy
    <2>2. R!Sought(what, key, phone) \cap SoughtBy(clerk[j]) \subseteq R!Overlap(what, key, phone)
      BY <1>8 DEF R!Overlap, SoughtBy
    <2>. QED  BY <1>0, <2>1, <2>2
  <1>9. ASSUME NEW i \in Clerks, NEW j \in Clerks, i # j,
               clerk'[i].pc \in Seeking, clerk'[j].pc \in Seeking, clerk'[i].kind = clerk'[j].kind
        PROVE  SoughtBy(clerk'[i]) \cap SoughtBy(clerk'[j]) \subseteq raced_r'
    <2>1. CASE i = k
      BY <1>1, <1>8, <1>9, <2>1
    <2>2. CASE j = k
      BY <1>1, <1>8, <1>9, <2>2
    <2>3. CASE i # k /\ j # k
      <3>1. clerk'[i] = clerk[i] /\ clerk'[j] = clerk[j]
        BY <1>1, <2>3
      <3>. QED  BY <1>2, <1>9, <3>1 DEF RegistryInv
    <2>. QED  BY <2>1, <2>2, <2>3
  <1>10. (\A i, j \in Clerks :
         i # j /\ {clerk[i].pc, clerk[j].pc} \subseteq Seeking /\ clerk[i].kind = clerk[j].kind =>
            SoughtBy(clerk[i]) \cap SoughtBy(clerk[j]) \subseteq raced_r)'
    BY <1>9 DEF SoughtBy
  <1>11. (\A r, q \in Plain : r # q /\ record[r].kind = record[q].kind =>
          SoughtOf(r) \cap SoughtOf(q) \subseteq raced_r \cup Capital)'
    BY <1>0, <1>2 DEF RegistryInv
  <1>12. (R!Of("card") # {} => card_added)'
    BY <1>0, <1>2 DEF RegistryInv
  <1>. QED  BY <1>6, <1>7, <1>10, <1>11, <1>12 DEF RegistryInv

\* A request that goes on, or ends, looks for what it looked for.
GoesOn(k) ==
    /\ clerk[k].pc \in Seeking
    /\ \A j \in Clerks \ {k} : clerk'[j] = clerk[j]
    /\ clerk'[k].pc \in Seeking => /\ clerk'[k].kind = clerk[k].kind /\ clerk'[k].key = clerk[k].key
                                   /\ clerk'[k].phone = clerk[k].phone

LEMMA PairsKept ==
  ASSUME RegistryInv, UNCHANGED raced_r, NEW k \in Clerks, GoesOn(k)
  PROVE  (\A i, j \in Clerks :
         i # j /\ {clerk[i].pc, clerk[j].pc} \subseteq Seeking /\ clerk[i].kind = clerk[j].kind =>
            SoughtBy(clerk[i]) \cap SoughtBy(clerk[j]) \subseteq raced_r)'
  <1>1. \A i \in Clerks : clerk'[i].pc \in Seeking =>
           /\ clerk[i].pc \in Seeking /\ clerk'[i].kind = clerk[i].kind
           /\ SoughtBy(clerk'[i]) = SoughtBy(clerk[i])
    BY DEF GoesOn, SoughtBy
  <1>2. ASSUME NEW i \in Clerks, NEW j \in Clerks, i # j,
               clerk'[i].pc \in Seeking, clerk'[j].pc \in Seeking, clerk'[i].kind = clerk'[j].kind
        PROVE  SoughtBy(clerk'[i]) \cap SoughtBy(clerk'[j]) \subseteq raced_r'
    <2>1. SoughtBy(clerk[i]) \cap SoughtBy(clerk[j]) \subseteq raced_r
      BY <1>1, <1>2 DEF RegistryInv
    <2>. QED  BY <1>1, <1>2, <2>1
  <1>. QED  BY <1>2 DEF SoughtBy

\* The number of a company is looked for, or the customer is marked.
LEMMA RequestGoesOn ==
  ASSUME RecordsType, RegistryInv, NEW k \in Clerks, R!CompanyNumber(k) \/ R!CardAdded(k)
  PROVE  RegistryInv'
  <1>0. /\ UNCHANGED <<record, raced_r, edited_r>> /\ SeekerHolds(clerk[k]) /\ clerk[k] \in ClerkType
        /\ clerk[k].pc \in {"phone", "flag"} /\ (card_added => card_added')
        /\ clerk[k].pc = "flag" => card_added'
    BY DEF R!CompanyNumber, R!CardAdded, RegistryInv, RecordsType
  <1>2. /\ \A j \in Clerks \ {k} : clerk'[j] = clerk[j]
        /\ \/ clerk'[k].pc = "idle"
           \/ /\ clerk'[k].pc = "store" /\ clerk'[k].kind = clerk[k].kind
              /\ clerk'[k].key = clerk[k].key /\ clerk'[k].phone = clerk[k].phone
    BY TurnIs, ClerkGoesTo, FreeIs DEF R!CompanyNumber, R!CardAdded
  <1>3. GoesOn(k)
    BY <1>0, <1>2 DEF GoesOn, Seeking
  <1>4. /\ R!Live' = R!Live /\ Plain' = Plain /\ R!Of("card")' = R!Of("card")
        /\ \A r \in Ids : SoughtOf(r)' = SoughtOf(r)
        /\ Plain \subseteq Ids /\ Plain \subseteq R!Live
    BY <1>0 DEF R!Live, Plain, R!Of, SoughtOf
  <1>5. ASSUME NEW j \in Clerks \ {k} PROVE SeekerHolds(clerk[j])'
    <2>1. SeekerHolds(clerk[j]) /\ clerk'[j] = clerk[j]
      BY <1>2 DEF RegistryInv
    <2>. QED  BY <1>0, <1>4, <2>1 DEF SeekerHolds, Checked, SoughtBy
  <1>6. SeekerHolds(clerk[k])'
    <2>1. CASE clerk'[k].pc = "idle"
      BY <2>1 DEF SeekerHolds, Seeking
    <2>2. CASE clerk'[k].pc = "store"
      <3>1. clerk'[k].kind = clerk[k].kind /\ clerk'[k].key = clerk[k].key
            /\ clerk'[k].phone = clerk[k].phone
        BY <1>2, <2>2
      <3>2. ASSUME NEW r \in Plain, record[r].kind = clerk[k].kind
            PROVE  SoughtBy(clerk[k]) \cap SoughtOf(r) \subseteq raced_r \cup Capital
        <4>1. CASE clerk[k].pc = "flag"
          BY <1>0, <3>2, <4>1 DEF SeekerHolds, Seeking, Checked
        <4>2. CASE clerk[k].pc = "phone"
          <5>1. clerk[k].kind = "company" /\ clerk[k].phone \in Dials \cup {None}
            BY <1>0, <4>2 DEF SeekerHolds, Seeking, ClerkType
          <5>2. R!CompanyNumber(k) /\ ~R!Turn(k, R!Free)
            <6>1. ~R!Turn(k, R!Free)
              BY <2>2, TurnIs, FreeIs
            <6>. QED  BY <4>2, <6>1 DEF R!CardAdded
          <5>3. record[r].phone # clerk[k].phone
            BY <1>4, <3>2, <5>1, <5>2 DEF R!CompanyNumber, R!Of
          <5>4. <<clerk[k].kind, clerk[k].phone>> \notin SoughtOf(r) \/ clerk[k].phone = None
            BY <1>4, <3>2, <5>1, <5>3, CommonIs, RecordsAssumption, <1>0 DEF SeekerHolds, Seeking
          <5>5. {<<clerk[k].kind, clerk[k].key>>} \cap SoughtOf(r) \subseteq raced_r \cup Capital
            BY <1>0, <3>2, <4>2 DEF SeekerHolds, Seeking, Checked
          <5>. QED  BY <5>4, <5>5 DEF SoughtBy, R!Sought
        <4>. QED  BY <1>0, <4>1, <4>2
      <3>3. SoughtBy(clerk'[k]) = SoughtBy(clerk[k])
        BY <3>1 DEF SoughtBy
      <3>4. \A r \in Plain' : record'[r].kind = clerk'[k].kind =>
               SoughtBy(clerk'[k]) \cap SoughtOf(r)' \subseteq raced_r' \cup Capital
        BY <1>0, <1>4, <3>1, <3>2, <3>3
      <3>5. Checked(clerk[k])' = SoughtBy(clerk'[k])
        BY <2>2 DEF Checked, SoughtBy
      <3>6. clerk[k].kind \in R!Kinds /\ clerk[k].key \in Keys
            /\ (clerk[k].pc = "phone" => clerk[k].kind = "company")
        BY <1>0 DEF SeekerHolds, Seeking
      <3>7. clerk[k].kind = "card" => card_added'
        BY <1>0, <3>6
      <3>. QED  BY <2>2, <3>1, <3>4, <3>5, <3>6, <3>7 DEF SeekerHolds
    <2>. QED  BY <1>2, <2>1, <2>2
  <1>7. (\A r, q \in Plain : r # q /\ record[r].kind = record[q].kind =>
          SoughtOf(r) \cap SoughtOf(q) \subseteq raced_r \cup Capital)'
    BY <1>0, <1>4 DEF RegistryInv
  <1>8. (R!Of("card") # {} => card_added)'
    BY <1>0, <1>4 DEF RegistryInv
  <1>. QED  BY <1>0, <1>3, <1>5, <1>6, <1>7, <1>8, PairsKept DEF RegistryInv

\* A record is created.
LEMMA StoreIs ==
  ASSUME RecordsType, NEW k \in Clerks, R!Store(k)
  PROVE  \E r \in Ids \ R!Live :
            /\ record' \in [Ids -> RecordType]
            /\ record'[r].kind = clerk[k].kind /\ record'[r].key = clerk[k].key
            /\ record'[r].phone = clerk[k].phone
            /\ \A q \in Ids \ {r} : record'[q] = record[q]
            /\ edited_r' = edited_r \ {r}
  <1>0. record \in [Ids -> RecordType] /\ clerk[k] \in ClerkType
    BY DEF RecordsType
  <1>1. PICK z \in RecordType : /\ z.kind = clerk[k].kind /\ z.key = clerk[k].key
                                /\ z.phone = clerk[k].phone
                                /\ z = [kind |-> clerk[k].kind, key |-> clerk[k].key,
                                        phone |-> clerk[k].phone]
    BY <1>0 DEF ClerkType, RecordType
  <1>2. PICK r \in Ids \ R!Live : record' = [record EXCEPT ![r] = z] /\ edited_r' = edited_r \ {r}
    BY <1>1 DEF R!Store
  <1>. QED  BY <1>0, <1>1, <1>2

LEMMA RecordStored ==
  ASSUME RecordsType, RegistryInv, NEW k \in Clerks, R!Store(k)
  PROVE  RegistryInv'
  <1>0. /\ UNCHANGED <<raced_r, card_added>> /\ SeekerHolds(clerk[k])
        /\ clerk[k].pc = "store" /\ R!Turn(k, R!Free) /\ edited_r \subseteq R!Live
    BY DEF R!Store, RegistryInv, RecordsType
  <1>1. PICK r \in Ids \ R!Live :
            /\ record'[r].kind = clerk[k].kind /\ record'[r].key = clerk[k].key
            /\ record'[r].phone = clerk[k].phone
            /\ \A q \in Ids \ {r} : record'[q] = record[q]
            /\ edited_r' = edited_r \ {r}
    BY StoreIs
  <1>2. clerk'[k].pc = "idle" /\ \A j \in Clerks \ {k} : clerk'[j] = clerk[j]
    BY <1>0, TurnIs, FreeIs
  <1>3. GoesOn(k)
    BY <1>0, <1>2 DEF GoesOn, Seeking
  <1>4. clerk[k].kind \in R!Kinds /\ clerk[k].kind # None
    BY <1>0, RecordsAssumption DEF SeekerHolds, Seeking, R!Kinds
  <1>5. /\ R!Live' = R!Live \cup {r} /\ Plain' = Plain \cup {r}
        /\ SoughtOf(r)' = SoughtBy(clerk[k])
        /\ \A q \in Plain : q \in Ids /\ q # r /\ record'[q] = record[q] /\ SoughtOf(q)' = SoughtOf(q)
    BY <1>0, <1>1, <1>4 DEF R!Live, Plain, SoughtOf, SoughtBy
  <1>6. \A q \in Plain : record[q].kind = clerk[k].kind =>
           SoughtBy(clerk[k]) \cap SoughtOf(q) \subseteq raced_r \cup Capital
    BY <1>0 DEF SeekerHolds, Seeking, Checked
  <1>7. ASSUME NEW j \in Clerks PROVE SeekerHolds(clerk[j])'
    <2>1. CASE j = k
      BY <1>2, <2>1 DEF SeekerHolds, Seeking
    <2>2. ASSUME j # k, clerk[j].pc \in Seeking PROVE SeekerHolds(clerk[j])'
      <3>1. SeekerHolds(clerk[j]) /\ clerk'[j] = clerk[j]
        BY <1>2, <2>2 DEF RegistryInv
      <3>2. Checked(clerk[j])' = Checked(clerk[j])
        BY <3>1 DEF Checked, SoughtBy
      <3>3. Checked(clerk[j]) \subseteq SoughtBy(clerk[j])
        <4>1. clerk[j].key # None
          BY <2>2, <3>1, RecordsAssumption DEF SeekerHolds
        <4>. QED  BY <4>1 DEF Checked, SoughtBy, R!Sought
      <3>4. clerk[j].kind = clerk[k].kind =>
               SoughtBy(clerk[j]) \cap SoughtBy(clerk[k]) \subseteq raced_r
        BY <1>0, <2>2 DEF RegistryInv, Seeking
      <3>5. \A q \in Plain : record[q].kind = clerk[j].kind =>
               Checked(clerk[j]) \cap SoughtOf(q) \subseteq raced_r \cup Capital
        BY <2>2, <3>1 DEF SeekerHolds
      <3>6. \A q \in Plain' : record'[q].kind = clerk[j].kind =>
               Checked(clerk[j]) \cap SoughtOf(q)' \subseteq raced_r \cup Capital
        BY <1>1, <1>5, <3>3, <3>4, <3>5
      <3>. QED  BY <1>0, <3>1, <3>2, <3>6 DEF SeekerHolds
    <2>3. ASSUME j # k, clerk[j].pc \notin Seeking PROVE SeekerHolds(clerk[j])'
      BY <1>2, <2>3 DEF SeekerHolds
    <2>. QED  BY <2>1, <2>2, <2>3
  <1>8. (\A p, q \in Plain : p # q /\ record[p].kind = record[q].kind =>
          SoughtOf(p) \cap SoughtOf(q) \subseteq raced_r \cup Capital)'
    <2>. SUFFICES ASSUME NEW p \in Plain', NEW q \in Plain', p # q, record'[p].kind = record'[q].kind
                  PROVE  SoughtOf(p)' \cap SoughtOf(q)' \subseteq raced_r' \cup Capital
      OBVIOUS
    <2>1. CASE p = r
      <3>1. q \in Plain /\ record[q].kind = clerk[k].kind /\ SoughtOf(q)' = SoughtOf(q)
        BY <1>1, <1>5, <2>1
      <3>. QED  BY <1>0, <1>5, <1>6, <2>1, <3>1
    <2>2. CASE q = r
      <3>1. p \in Plain /\ record[p].kind = clerk[k].kind /\ SoughtOf(p)' = SoughtOf(p)
        BY <1>1, <1>5, <2>2
      <3>. QED  BY <1>0, <1>5, <1>6, <2>2, <3>1
    <2>3. CASE p # r /\ q # r
      <3>1. /\ p \in Plain /\ q \in Plain /\ record[p].kind = record[q].kind
            /\ SoughtOf(p)' = SoughtOf(p) /\ SoughtOf(q)' = SoughtOf(q)
        BY <1>5, <2>3
      <3>. QED  BY <1>0, <3>1 DEF RegistryInv
    <2>. QED  BY <2>1, <2>2, <2>3
  <1>9. (R!Of("card") # {} => card_added)'
    <2>1. clerk[k].kind = "card" => card_added
      BY <1>0 DEF SeekerHolds, Seeking
    <2>2. \A q \in R!Of("card")' : q = r \/ q \in R!Of("card")
      BY <1>1, <1>5 DEF R!Of, R!Live
    <2>. QED  BY <1>0, <1>1, <2>1, <2>2 DEF RegistryInv, R!Of
  <1>. QED  BY <1>0, <1>3, <1>7, <1>8, <1>9, PairsKept DEF RegistryInv

\* Records are left, as they were or not at all.
LEMMA FewerPlain ==
  ASSUME RegistryInv, UNCHANGED <<clerk, raced_r, card_added>>, Plain' \subseteq Plain,
         \A q \in Plain' : record'[q] = record[q], R!Of("card")' \subseteq R!Of("card")
  PROVE  RegistryInv'
  <1>1. \A q \in Plain' : q \in Plain /\ record'[q].kind = record[q].kind /\ SoughtOf(q)' = SoughtOf(q)
    BY DEF SoughtOf
  <1>2. ASSUME NEW k \in Clerks PROVE SeekerHolds(clerk[k])'
    <2>1. SeekerHolds(clerk[k])
      BY DEF RegistryInv
    <2>. QED  BY <1>1, <2>1 DEF SeekerHolds, Checked, SoughtBy
  <1>3. (\A k, j \in Clerks :
         k # j /\ {clerk[k].pc, clerk[j].pc} \subseteq Seeking /\ clerk[k].kind = clerk[j].kind =>
            SoughtBy(clerk[k]) \cap SoughtBy(clerk[j]) \subseteq raced_r)'
    BY DEF RegistryInv, SoughtBy
  <1>4. (\A r, q \in Plain : r # q /\ record[r].kind = record[q].kind =>
          SoughtOf(r) \cap SoughtOf(q) \subseteq raced_r \cup Capital)'
    <2>. SUFFICES ASSUME NEW r \in Plain', NEW q \in Plain', r # q, record'[r].kind = record'[q].kind
                  PROVE  SoughtOf(r)' \cap SoughtOf(q)' \subseteq raced_r' \cup Capital
      OBVIOUS
    <2>1. SoughtOf(r) \cap SoughtOf(q) \subseteq raced_r \cup Capital
      BY <1>1 DEF RegistryInv
    <2>. QED  BY <1>1, <2>1
  <1>5. (R!Of("card") # {} => card_added)'
    BY DEF RegistryInv
  <1>. QED  BY <1>2, <1>3, <1>4, <1>5 DEF RegistryInv

LEMMA UpdateIs ==
  ASSUME RecordsType, NEW what \in R!Kinds, NEW r \in Ids, NEW key \in Keys,
         NEW phone \in Dials \cup {None}, R!Update(what, r, key, phone)
  PROVE  /\ record' \in [Ids -> RecordType] /\ record'[r].kind = record[r].kind
         /\ \A q \in Ids \ {r} : record'[q] = record[q]
         /\ r \in R!Live /\ R!Live' = R!Live /\ Plain' = Plain \ {r}
         /\ R!Of("card")' = R!Of("card")
  <1>0. record \in [Ids -> RecordType] /\ record[r] \in RecordType /\ r \in R!Live
    BY DEF RecordsType, R!Update, R!Of
  <1>1. PICK z : z = [record[r] EXCEPT !.key = key, !.phone = phone]
    OBVIOUS
  <1>2. z \in RecordType /\ z.kind = record[r].kind
    BY <1>0, <1>1 DEF RecordType
  <1>3. record' = [record EXCEPT ![r] = z]
    <2>1. record' = [record EXCEPT ![r].key = key, ![r].phone = phone]
      BY DEF R!Update
    <2>. QED  BY <1>0, <1>1, <2>1 DEF RecordType
  <1>4. /\ record' \in [Ids -> RecordType] /\ record'[r].kind = record[r].kind
        /\ \A q \in Ids \ {r} : record'[q] = record[q]
    BY <1>0, <1>2, <1>3
  <1>5. \A q \in Ids : record'[q].kind = record[q].kind
    BY <1>4
  <1>6. R!Live' = R!Live /\ R!Of("card")' = R!Of("card")
    BY <1>5 DEF R!Live, R!Of
  <1>7. Plain' = Plain \ {r}
    BY <1>6 DEF Plain, R!Update
  <1>. QED  BY <1>0, <1>4, <1>6, <1>7

LEMMA EraseIs ==
  ASSUME RecordsType, NEW what \in R!Kinds, NEW r \in Ids, R!Erase(what, r)
  PROVE  /\ record' \in [Ids -> RecordType]
         /\ \A q \in Ids \ {r} : record'[q] = record[q]
         /\ R!Live' = R!Live \ {r} /\ Plain' = Plain \ {r}
         /\ R!Of("card")' \subseteq R!Of("card")
  <1>0. record \in [Ids -> RecordType]
    BY DEF RecordsType
  <1>1. R!NoRecord \in RecordType /\ R!NoRecord.kind = None
    BY DEF R!NoRecord, RecordType
  <1>2. /\ record' \in [Ids -> RecordType] /\ record'[r].kind = None
        /\ \A q \in Ids \ {r} : record'[q] = record[q]
    BY <1>0, <1>1 DEF R!Erase
  <1>3. R!Live' = R!Live \ {r}
    BY <1>2 DEF R!Live
  <1>4. Plain' = Plain \ {r}
    BY <1>3 DEF Plain, R!Erase
  <1>5. R!Of("card")' \subseteq R!Of("card")
    <2>1. \A q \in R!Live' : q \in R!Live /\ record'[q] = record[q]
      BY <1>2, <1>3 DEF R!Live
    <2>. QED  BY <2>1 DEF R!Of
  <1>. QED  BY <1>2, <1>3, <1>4, <1>5

\* A record is edited, or deleted.
LEMMA RecordEdited ==
  ASSUME RecordsType, RegistryInv, NEW what \in R!Kinds, NEW r \in Ids, NEW key \in Keys,
         NEW phone \in Dials \cup {None}, R!Update(what, r, key, phone)
  PROVE  RegistryInv'
  <1>1. UNCHANGED <<clerk, raced_r, card_added>>
    BY DEF R!Update
  <1>2. Plain' \subseteq Plain /\ (\A q \in Plain' : record'[q] = record[q])
    BY UpdateIs DEF Plain, R!Live
  <1>3. R!Of("card")' \subseteq R!Of("card")
    BY UpdateIs
  <1>. QED  BY <1>1, <1>2, <1>3, FewerPlain

LEMMA RecordErased ==
  ASSUME RecordsType, RegistryInv, NEW what \in R!Kinds, NEW r \in Ids, R!Erase(what, r)
  PROVE  RegistryInv'
  <1>1. UNCHANGED <<clerk, raced_r, card_added>>
    BY DEF R!Erase
  <1>2. Plain' \subseteq Plain /\ (\A q \in Plain' : record'[q] = record[q])
    BY EraseIs DEF Plain, R!Live
  <1>3. R!Of("card")' \subseteq R!Of("card")
    BY EraseIs
  <1>. QED  BY <1>1, <1>2, <1>3, FewerPlain

LEMMA RegistryKeeps ==
  ASSUME RecordsType, ReviewsInv, RegistryInv, [R!Next]_(R!vars)
  PROVE  RegistryInv'
  <1>1. CASE R!ReviewStep
    <2>1. \A k \in Clerks : clerk[k].pc \in Reviewing => clerk[k].party \in R!Parties
      BY DEF ReviewsInv, ReviewerHolds
    <2>2. RegistryStays
      BY <1>1, <2>1, ReviewsLeave
    <2>. QED  BY <2>2, SeekersKept
  <1>2. ASSUME RegistryMoves PROVE RegistryInv'
    <2>1. CASE UNCHANGED <<reviews, rated, rating, record, card_added, clerk, counted, overtaken,
                           raced_r, edited_r>>
      <3>1. RegistryStays
        BY <2>1 DEF RegistryStays
      <3>. QED  BY <3>1, SeekersKept
    <2>2. CASE \E k, what, key, phone, pc : Creates(k, what, key, phone, pc)
      BY <2>2, RequestStarts
    <2>3. CASE \E k \in Clerks : R!CompanyNumber(k) \/ R!CardAdded(k) \/ R!Store(k)
      BY <2>3, RequestGoesOn, RecordStored
    <2>4. CASE \E what \in R!Kinds, r \in Ids, key \in Keys, phone \in Dials \cup {None} :
                  R!Update(what, r, key, phone)
      BY <2>4, RecordEdited
    <2>5. CASE \E what \in R!Kinds, r \in Ids : R!Erase(what, r)
      BY <2>5, RecordErased
    <2>. QED  BY <1>2, <2>1, <2>2, <2>3, <2>4, <2>5 DEF RegistryMoves
  <1>3. CASE R!RegistryStep
    BY <1>2, <1>3, RegistryStepIs
  <1>4. CASE UNCHANGED R!vars
    <2>1. RegistryStays
      BY <1>4 DEF R!vars, RegistryStays
    <2>. QED  BY <2>1, SeekersKept
  <1>. QED  BY <1>1, <1>3, <1>4 DEF R!Next

---------------------------------------------------------------------------
(* The types, step by step.                                                *)

ReviewsType ==
    /\ reviews \in [R!Parties -> Seq(R!Review)] /\ rated \in [Rides -> [R!Parties -> BOOLEAN]]
    /\ rating = [p \in R!Parties |-> rating[p]]
    /\ counted \in [R!Parties -> Nat] /\ overtaken \subseteq R!Parties

RegistryType ==
    /\ record \in [Ids -> RecordType] /\ card_added \in BOOLEAN /\ edited_r \subseteq R!Live

ClerksType == clerk \in [Clerks -> ClerkType]

LEMMA ReviewsTyped ==
  ASSUME RecordsType, ReviewsInv, R!ReviewStep
  PROVE  ReviewsType' /\ RegistryType' /\ ClerksType'
  <1>1. RegistryType'
    <2>1. UNCHANGED <<record, card_added, edited_r>>
      BY DEF R!ReviewStep, R!CreateReview, R!MarkRated, R!ReadReviews, R!WriteRating
    <2>. QED  BY <2>1 DEF RecordsType, RegistryType, R!Live
  <1>2. ASSUME NEW k \in Clerks, NEW b \in Rides, NEW p \in R!Parties, NEW rate \in Rates,
               R!CreateReview(k, b, p, rate)
        PROVE  ReviewsType' /\ ClerksType'
    <2>1. reviews' \in [R!Parties -> Seq(R!Review)] /\ ClerksType'
      BY <1>2, CreateReviewIs DEF ClerksType
    <2>2. UNCHANGED <<rated, rating, counted, overtaken>>
      BY <1>2 DEF R!CreateReview
    <2>. QED  BY <2>1, <2>2 DEF RecordsType, ReviewsType
  <1>3. ASSUME NEW k \in Clerks, R!MarkRated(k) PROVE ReviewsType' /\ ClerksType'
    <2>1. R!Goto(k, "read") /\ UNCHANGED <<reviews, rating, counted, overtaken>>
      BY <1>3 DEF R!MarkRated
    <2>2. ClerksType'
      BY <2>1, ClerkGoesTo DEF ClerksType
    <2>3. ReviewerHolds(clerk[k]) /\ clerk[k].pc = "mark"
      BY <1>3 DEF ReviewsInv, R!MarkRated
    <2>4. PICK b \in Rides, p \in R!Parties : b = clerk[k].ride /\ p = clerk[k].party
      BY <2>3 DEF ReviewerHolds, Reviewing
    <2>5. rated' = [rated EXCEPT ![b][p] = TRUE]
      BY <1>3, <2>4 DEF R!MarkRated
    <2>6. rated' \in [Rides -> [R!Parties -> BOOLEAN]]
      BY <2>5 DEF RecordsType
    <2>. QED  BY <2>1, <2>2, <2>6 DEF RecordsType, ReviewsType
  <1>4. ASSUME NEW k \in Clerks, R!ReadReviews(k) PROVE ReviewsType' /\ ClerksType'
    <2>1. UNCHANGED <<reviews, rated, rating, counted, overtaken>>
      BY <1>4 DEF R!ReadReviews
    <2>2. clerk[k].party \in R!Parties
      BY <1>4 DEF R!ReadReviews, ReviewsInv, ReviewerHolds, Reviewing
    <2>3. ClerksType'
      BY <1>4, <2>2, ReadIs DEF ClerksType
    <2>. QED  BY <2>1, <2>3 DEF RecordsType, ReviewsType
  <1>5. ASSUME NEW k \in Clerks, R!WriteRating(k) PROVE ReviewsType' /\ ClerksType'
    <2>1. R!Turn(k, R!Free) /\ UNCHANGED <<reviews, rated>> /\ clerk[k].pc = "write"
      BY <1>5 DEF R!WriteRating
    <2>2. ClerksType'
      BY <2>1, TurnIs, FreeIs DEF ClerksType
    <2>3. PICK p \in R!Parties : p = clerk[k].party
      BY <2>1 DEF ReviewsInv, ReviewerHolds, Reviewing
    <2>4. PICK s \in Seq(R!Review) : s = clerk[k].read
      BY DEF RecordsType, ClerkType
    <2>5. Len(s) \in Nat /\ rating = [q \in R!Parties |-> rating[q]]
          /\ counted \in [R!Parties -> Nat] /\ overtaken \subseteq R!Parties
      BY DEF RecordsType
    <2>6. /\ rating' = [rating EXCEPT ![p] = R!Average(s)]
          /\ counted' = [counted EXCEPT ![p] = IF Len(s) > counted[p] THEN Len(s) ELSE counted[p]]
          /\ overtaken' = IF Len(s) < counted[p] THEN overtaken \cup {p} ELSE overtaken \ {p}
      BY <1>5, <2>3, <2>4 DEF R!WriteRating
    <2>7. rating' = [q \in R!Parties |-> rating'[q]]
      BY <2>5, <2>6
    <2>8. counted' \in [R!Parties -> Nat] /\ overtaken' \subseteq R!Parties
      BY <2>5, <2>6
    <2>. QED  BY <2>1, <2>2, <2>7, <2>8 DEF RecordsType, ReviewsType
  <1>. QED  BY <1>1, <1>2, <1>3, <1>4, <1>5 DEF R!ReviewStep

LEMMA RegistryTyped ==
  ASSUME RecordsType, RegistryInv, RegistryMoves
  PROVE  ReviewsType' /\ RegistryType' /\ ClerksType'
  <1>1. ReviewsType'
    <2>1. UNCHANGED <<reviews, rated, rating, counted, overtaken>>
      BY RegistryLeaves DEF ReviewsStay
    <2>. QED  BY <2>1 DEF RecordsType, ReviewsType
  <1>2. CASE UNCHANGED <<reviews, rated, rating, record, card_added, clerk, counted, overtaken,
                         raced_r, edited_r>>
    BY <1>1, <1>2 DEF RecordsType, RegistryType, ClerksType, R!Live
  <1>3. ASSUME NEW k, NEW what, NEW key, NEW phone, NEW pc, Creates(k, what, key, phone, pc)
        PROVE  RegistryType' /\ ClerksType'
    <2>1. ClerksType'
      BY <1>3, SeekIs DEF ClerksType
    <2>2. UNCHANGED <<record, card_added, edited_r>>
      BY <1>3 DEF Creates
    <2>. QED  BY <2>1, <2>2 DEF RecordsType, RegistryType, R!Live
  <1>4. ASSUME NEW k \in Clerks, R!CompanyNumber(k) \/ R!CardAdded(k)
        PROVE  RegistryType' /\ ClerksType'
    <2>1. ClerksType'
      BY <1>4, TurnIs, ClerkGoesTo, FreeIs DEF ClerksType, R!CompanyNumber, R!CardAdded
    <2>2. UNCHANGED <<record, edited_r>> /\ (card_added' = card_added \/ card_added' = TRUE)
      BY <1>4 DEF R!CompanyNumber, R!CardAdded
    <2>. QED  BY <2>1, <2>2 DEF RecordsType, RegistryType, R!Live
  <1>5. ASSUME NEW k \in Clerks, R!Store(k) PROVE RegistryType' /\ ClerksType'
    <2>0. clerk[k].kind # None
      BY <1>5, RecordsAssumption DEF RegistryInv, SeekerHolds, Seeking, R!Store, R!Kinds
    <2>1. ClerksType'
      BY <1>5, TurnIs, FreeIs DEF ClerksType, R!Store
    <2>2. PICK r \in Ids \ R!Live :
            /\ record' \in [Ids -> RecordType] /\ record'[r].kind = clerk[k].kind
            /\ \A q \in Ids \ {r} : record'[q] = record[q]
            /\ edited_r' = edited_r \ {r}
      BY <1>5, StoreIs
    <2>3. edited_r' \subseteq R!Live'
      BY <2>0, <2>2 DEF RecordsType, R!Live
    <2>4. card_added' = card_added
      BY <1>5 DEF R!Store
    <2>. QED  BY <2>1, <2>2, <2>3, <2>4 DEF RecordsType, RegistryType
  <1>6. ASSUME NEW what \in R!Kinds, NEW r \in Ids, NEW key \in Keys,
               NEW phone \in Dials \cup {None}, R!Update(what, r, key, phone)
        PROVE  RegistryType' /\ ClerksType'
    <2>1. UNCHANGED <<clerk, card_added>> /\ edited_r' = edited_r \cup {r}
      BY <1>6 DEF R!Update
    <2>2. record' \in [Ids -> RecordType] /\ r \in R!Live /\ R!Live' = R!Live
      BY <1>6, UpdateIs
    <2>. QED  BY <2>1, <2>2 DEF RecordsType, RegistryType, ClerksType
  <1>7. ASSUME NEW what \in R!Kinds, NEW r \in Ids, R!Erase(what, r)
        PROVE  RegistryType' /\ ClerksType'
    <2>1. UNCHANGED <<clerk, card_added>> /\ edited_r' = edited_r \ {r}
      BY <1>7 DEF R!Erase
    <2>2. record' \in [Ids -> RecordType] /\ R!Live' = R!Live \ {r}
      BY <1>7, EraseIs
    <2>. QED  BY <2>1, <2>2 DEF RecordsType, RegistryType, ClerksType
  <1>. QED  BY <1>1, <1>2, <1>3, <1>4, <1>5, <1>6, <1>7 DEF RegistryMoves

LEMMA RecordsTypeStep ==
  ASSUME RecordsType, ReviewsInv, RegistryInv, [R!Next]_(R!vars)
  PROVE  RecordsType'
  <1>1. calls' \in 0 .. MaxCalls
    <2>1. calls' = calls \/ R!Ask
      BY DEF R!Next, R!vars, R!ReviewStep, R!CreateReview, R!MarkRated, R!ReadReviews,
             R!WriteRating, R!RegistryStep, R!CreateCompany, R!CreateComplaint, R!CreateCard,
             R!CreateVehicle, R!CreateAddress, R!Create, R!Start, R!CompanyNumber, R!CardAdded,
             R!Store, R!UpdateCompany, R!UpdateCard, R!UpdateVehicle, R!UpdateAddress, R!Update,
             R!RemoveCompany, R!RemoveCard, R!RemoveVehicle, R!RemoveAddress, R!Erase
    <2>. QED  BY <2>1, RecordsAssumption DEF RecordsType, R!Ask
  <1>2. ReviewsType' /\ RegistryType' /\ ClerksType'
    <2>1. CASE UNCHANGED R!vars
      BY <2>1 DEF R!vars, RecordsType, ReviewsType, RegistryType, ClerksType, R!Live
    <2>. QED  BY <2>1, ReviewsTyped, RegistryTyped, RegistryStepIs DEF R!Next
  <1>. QED  BY <1>1, <1>2 DEF RecordsType, ReviewsType, RegistryType, ClerksType

---------------------------------------------------------------------------

LEMMA RatingsDone == ASSUME RecordsType, ReviewsInv PROVE R!RatingsHold
  <1>. SUFFICES ASSUME NEW p \in R!Parties, R!Settled(p), reviews[p] # <<>>
                PROVE  /\ \A b \in Rides :
                             rated[b][p] <=> \E i \in DOMAIN reviews[p] : reviews[p][i].ride = b
                       /\ p \notin overtaken => rating[p] = R!Overall(p, Len(reviews[p]))
    BY DEF R!RatingsHold
  <1>0. reviews[p] \in Seq(R!Review) /\ Len(reviews[p]) > 0 /\ Len(reviews[p]) \in Nat
        /\ DOMAIN reviews[p] = 1 .. Len(reviews[p])
    BY DEF RecordsType
  <1>1. MarksHold(p) /\ RatingHolds(p)
    BY DEF ReviewsInv
  <1>2. /\ \A k \in Clerks, b \in Rides : ~Marks(k, b, p)
        /\ \A k \in Clerks : ~Counts(k, p)
    BY DEF R!Settled, Marks, Counts
  <1>3. ASSUME NEW b \in Rides
        PROVE  rated[b][p] <=> \E i \in DOMAIN reviews[p] : reviews[p][i].ride = b
    BY <1>0, <1>1, <1>2 DEF MarksHold, ReviewOf
  <1>4. ASSUME p \notin overtaken PROVE rating[p] = R!Overall(p, Len(reviews[p]))
    <2>1. counted[p] = Len(reviews[p])
      BY <1>0, <1>1, <1>2 DEF RatingHolds
    <2>2. PICK rs \in Seq(R!Review) : /\ Len(rs) = Len(reviews[p]) /\ Begins(rs, reviews[p])
                                      /\ rating[p] = R!Average(rs)
      BY <1>0, <1>1, <1>4, <2>1 DEF RatingHolds
    <2>3. rs = reviews[p]
      BY <1>0, <2>2, SameSeq DEF Begins
    <2>4. R!Page(p, Len(reviews[p])) = reviews[p]
      BY WholePage
    <2>. QED  BY <2>2, <2>3, <2>4 DEF R!Overall
  <1>. QED  BY <1>3, <1>4

LEMMA KeysDone == ASSUME RegistryInv PROVE R!KeysHold /\ R!CardsMarked
  <1>1. R!CardsMarked
    BY DEF RegistryInv, R!CardsMarked
  <1>2. ASSUME NEW r \in R!Live, NEW q \in R!Live, r # q, record[r].kind = record[q].kind,
               {r, q} \cap edited_r = {}
        PROVE  SoughtOf(r) \cap SoughtOf(q) \subseteq raced_r \cup Capital
    BY <1>2 DEF RegistryInv, Plain
  <1>. QED  BY <1>1, <1>2 DEF R!KeysHold, SoughtOf, Capital

LEMMA RecordsStepIs == [WorldNext]_WorldVars => [R!Next]_(R!vars)
  <1>1. ASSUME WorldNext PROVE [R!Next]_(R!vars)
    BY <1>1 DEF WorldNext, StillRecords, R!vars, R!Next
  <1>. QED  BY <1>1 DEF WorldVars

\* Records: when no review of someone is under way, what is reviewed is marked and his
\* rating is that of all his reviews, unless a handler that had read fewer was the last to
\* write; two records have the same key only if their creates overlapped, one was edited or
\* the key has capital letters; and who has a card is marked as having one - for any number
\* of handlers, reviews and records.
THEOREM RecordsAreFound == WorldSpec => []RecordsHold
  <1>1. WorldInit => RecordsType /\ ReviewsInv /\ RegistryInv
    BY RecordsTypeInit, RegistryInit DEF WorldInit
  <1>2. RecordsType /\ ReviewsInv /\ RegistryInv /\ [WorldNext]_WorldVars
          => RecordsType' /\ ReviewsInv' /\ RegistryInv'
    BY RecordsStepIs, RecordsTypeStep, ReviewsStep, RegistryKeeps
  <1>3. RecordsType /\ ReviewsInv /\ RegistryInv => RecordsHold
    BY RatingsDone, KeysDone DEF RecordsHold, R!RecordsHold
  <1>. QED  BY <1>1, <1>2, <1>3, PTL DEF WorldSpec

\* Whoever is to write a rating has read a review.
ReadSome ==
    \A k \in Clerks :
       /\ clerk[k].pc = "read" => Len(reviews[clerk[k].party]) > 0
       /\ clerk[k].pc = "write" => Len(clerk[k].read) > 0

\* A rating is none yet, or the mean of some reviews.
Mean(n) == \E s \in Seq(R!Review) : Len(s) > 0 /\ n = R!Average(s)
Rated == \A p \in R!Parties : rating[p] = 0 \/ Mean(rating[p])

LEMMA ReadSomeStep ==
  ASSUME RecordsType, ReviewsInv, ReadSome, [R!Next]_(R!vars)
  PROVE  ReadSome'
  <1>0. /\ reviews \in [R!Parties -> Seq(R!Review)] /\ clerk \in [Clerks -> ClerkType]
        /\ \A k \in Clerks : clerk[k].pc \in Reviewing => clerk[k].party \in R!Parties
    BY DEF RecordsType, ReviewsInv, ReviewerHolds
  <1>1. ASSUME NEW k \in Clerks, NEW b \in Rides, NEW p \in R!Parties, NEW rate \in Rates,
               R!CreateReview(k, b, p, rate)
        PROVE  ReadSome'
    <2>1. /\ clerk'[k].pc = "mark" /\ \A j \in Clerks \ {k} : clerk'[j] = clerk[j]
          /\ \A q \in R!Parties \ {p} : reviews'[q] = reviews[q]
      BY <1>1, CreateReviewIs
    <2>2. PICK e \in R!Review : reviews'[p] = Append(reviews[p], e)
      BY <1>1, CreateReviewIs
    <2>3. Len(reviews[p]) \in Nat /\ Len(reviews'[p]) = Len(reviews[p]) + 1
      BY <1>0, <2>2, AppendIs
    <2>4. \A q \in R!Parties : Len(reviews[q]) > 0 => Len(reviews'[q]) > 0
      BY <2>1, <2>3
    <2>. QED  BY <1>0, <2>1, <2>4 DEF ReadSome, Reviewing
  <1>2. ASSUME NEW k \in Clerks, R!MarkRated(k) PROVE ReadSome'
    <2>1. R!Goto(k, "read") /\ UNCHANGED reviews /\ clerk[k].pc = "mark"
      BY <1>2 DEF R!MarkRated
    <2>2. /\ clerk'[k].pc = "read" /\ clerk'[k].party = clerk[k].party
          /\ \A j \in Clerks \ {k} : clerk'[j] = clerk[j]
      BY <2>1, ClerkGoesTo
    <2>3. ReviewOf(clerk[k].ride, clerk[k].party)
      BY <2>1 DEF ReviewsInv, ReviewerHolds
    <2>4. Len(reviews[clerk[k].party]) > 0
      BY <1>0, <2>1, <2>3 DEF ReviewOf, Reviewing
    <2>. QED  BY <2>1, <2>2, <2>4 DEF ReadSome
  <1>3. ASSUME NEW k \in Clerks, R!ReadReviews(k) PROVE ReadSome'
    <2>1. clerk[k].pc = "read" /\ UNCHANGED reviews /\ clerk[k].party \in R!Parties
      BY <1>0, <1>3 DEF R!ReadReviews, Reviewing
    <2>2. /\ clerk'[k].pc = "write" /\ clerk'[k].read = reviews[clerk[k].party]
          /\ \A j \in Clerks \ {k} : clerk'[j] = clerk[j]
      BY <1>3, <2>1, ReadIs
    <2>. QED  BY <2>1, <2>2 DEF ReadSome
  <1>4. ASSUME NEW k \in Clerks, R!WriteRating(k) PROVE ReadSome'
    <2>1. R!Turn(k, R!Free) /\ UNCHANGED reviews
      BY <1>4 DEF R!WriteRating
    <2>2. clerk'[k].pc = "idle" /\ \A j \in Clerks \ {k} : clerk'[j] = clerk[j]
      BY <2>1, TurnIs, FreeIs
    <2>. QED  BY <2>1, <2>2 DEF ReadSome
  <1>5. ASSUME ReviewsStay PROVE ReadSome'
    BY <1>5 DEF ReviewsStay, ReadSome, Reviewing
  <1>6. CASE R!RegistryStep
    BY <1>5, <1>6, RegistryStepIs, RegistryLeaves
  <1>7. CASE UNCHANGED R!vars
    BY <1>5, <1>7 DEF R!vars, ReviewsStay
  <1>. QED  BY <1>1, <1>2, <1>3, <1>4, <1>6, <1>7 DEF R!Next, R!ReviewStep

LEMMA RatedStep ==
  ASSUME RecordsType, ReviewsInv, ReadSome, Rated, [R!Next]_(R!vars)
  PROVE  Rated'
  <1>1. ASSUME NEW k \in Clerks, R!WriteRating(k) PROVE Rated'
    <2>1. PICK p \in R!Parties, s \in Seq(R!Review) : p = clerk[k].party /\ s = clerk[k].read
      BY <1>1 DEF R!WriteRating, ReviewsInv, ReviewerHolds, Reviewing, RecordsType, ClerkType
    <2>2. rating' = [rating EXCEPT ![p] = R!Average(s)] /\ Len(s) > 0
      BY <1>1, <2>1 DEF R!WriteRating, ReadSome
    <2>3. rating = [q \in R!Parties |-> rating[q]]
      BY DEF RecordsType
    <2>4. rating'[p] = R!Average(s) /\ \A q \in R!Parties \ {p} : rating'[q] = rating[q]
      BY <2>2, <2>3
    <2>5. Mean(rating'[p])
      BY <2>2, <2>4 DEF Mean
    <2>. QED  BY <2>4, <2>5 DEF Rated
  <1>2. ASSUME UNCHANGED rating PROVE Rated'
    BY <1>2 DEF Rated
  <1>3. CASE R!ReviewStep
    BY <1>1, <1>2, <1>3 DEF R!ReviewStep, R!CreateReview, R!MarkRated, R!ReadReviews
  <1>4. CASE R!RegistryStep
    BY <1>2, <1>4, RegistryStepIs, RegistryLeaves DEF ReviewsStay
  <1>5. CASE UNCHANGED R!vars
    BY <1>2, <1>5 DEF R!vars
  <1>. QED  BY <1>3, <1>4, <1>5 DEF R!Next

LEMMA RateIs ==
  ASSUME NEW s \in Seq(R!Review), NEW i \in 1 .. Len(s)
  PROVE  s[i].rate \in Rates /\ s[i].rate \in Nat /\ s[i].rate \in Int
  <1>1. s[i] \in R!Review
    OBVIOUS
  <1>2. \A r \in R!Review : r.rate \in Rates
    BY DEF R!Review
  <1>3. s[i].rate \in Rates
    BY <1>1, <1>2
  <1>4. Rates \subseteq Nat
    BY RecordsAssumption
  <1>5. s[i].rate \in Nat
    BY <1>3, <1>4
  <1>. QED  BY <1>3, <1>5

\* The mean of numbers, rounded to tenths, lies between ten times the least of them and
\* ten times the greatest.
LEMMA AverageBetween ==
  ASSUME NEW low \in Nat, NEW high \in Nat, NEW s \in Seq(R!Review), Len(s) > 0,
         \A r \in Rates : low <= r /\ r <= high
  PROVE  R!Average(s) \in 10 * low .. 10 * high
  <1>1. PICK n \in Nat : n = Len(s) /\ n > 0
    OBVIOUS
  <1>2. PICK f : f = [i \in DOMAIN s |-> s[i].rate]
    OBVIOUS
  <1>3. \A i \in 1 .. n : f[i] \in Int /\ low <= f[i] /\ f[i] <= high
    <2>1. \A i \in 1 .. n : s[i] \in R!Review /\ f[i] = s[i].rate
      BY <1>1, <1>2
    <2>2. \A i \in 1 .. n : f[i] \in Rates /\ f[i] \in Int
      BY <1>1, <2>1, RateIs
    <2>. QED  BY <2>2
  <1>4. PICK t \in Int : t = R!Total(s) /\ low * n <= t /\ t <= high * n
    <2>1. low * n <= SumTo(f, n) /\ SumTo(f, n) <= high * n
      BY <1>3, SumBetween
    <2>2. SumTo(f, n) \in Int
      BY <1>3, SumInt
    <2>3. R!Total(s) = SumTo(f, n)
      BY <1>1, <1>2 DEF R!Total, R!SumTo, SumTo
    <2>. QED  BY <2>1, <2>2, <2>3
  <1>5. R!Average(s) = (20 * t + n) \div (2 * n)
    BY <1>1, <1>4 DEF R!Average
  <1>6. PICK m \in Nat : m = 2 * n /\ m > 0
    BY <1>1
  <1>7. (10 * low) * m <= 20 * t + n /\ 20 * t + n < (10 * high + 1) * m
    BY <1>1, <1>4, <1>6
  <1>8. 20 * t + n \in Int /\ 10 * low \in Int /\ 10 * high \in Int
    BY <1>1, <1>4
  <1>9. (20 * t + n) \div m \in Int
    BY <1>6, <1>8
  <1>. QED  BY <1>5, <1>6, <1>7, <1>8, <1>9, QuotientAtLeast, QuotientAtMost

LEMMA AverageNat == ASSUME NEW s \in Seq(R!Review), Len(s) > 0 PROVE R!Average(s) \in Nat
  <1>1. PICK n \in Nat : n = Len(s) /\ n > 0
    OBVIOUS
  <1>2. PICK f : f = [i \in DOMAIN s |-> s[i].rate]
    OBVIOUS
  <1>3. \A i \in 1 .. n : f[i] \in Nat
    <2>1. \A i \in 1 .. n : s[i] \in R!Review /\ f[i] = s[i].rate
      BY <1>1, <1>2
    <2>. QED  BY <1>1, <2>1, RateIs
  <1>4. PICK t \in Nat : t = R!Total(s)
    <2>1. SumTo(f, n) \in Nat
      BY <1>3, SumNat
    <2>2. R!Total(s) = SumTo(f, n)
      BY <1>1, <1>2 DEF R!Total, R!SumTo, SumTo
    <2>. QED  BY <2>1, <2>2
  <1>5. R!Average(s) = (20 * t + n) \div (2 * n)
    BY <1>1, <1>4 DEF R!Average
  <1>6. 2 * n \in Nat /\ 2 * n > 0 /\ 20 * t + n \in Nat
    BY <1>1
  <1>7. \A a \in Nat, m \in Nat : m > 0 => a \div m \in Nat
    OBVIOUS
  <1>. QED  BY <1>5, <1>6, <1>7

LEMMA RatedInit == R!Init => ReadSome /\ Rated
  BY FreeIs DEF R!Init, ReadSome, Rated

RatedInv == RecordsType /\ ReviewsInv /\ RegistryInv /\ ReadSome /\ Rated

LEMMA RatedAlways == WorldSpec => []RatedInv
  <1>1. WorldInit => RatedInv
    BY RecordsTypeInit, RegistryInit, RatedInit DEF WorldInit, RatedInv
  <1>2. RatedInv /\ [WorldNext]_WorldVars => RatedInv'
    BY RecordsStepIs, RecordsTypeStep, ReviewsStep, RegistryKeeps, ReadSomeStep, RatedStep
       DEF RatedInv
  <1>. QED  BY <1>1, <1>2, PTL DEF WorldSpec

RatingsIn(low, high) ==
    \A p \in {"driver", "customer"} : rating[p] = 0 \/ rating[p] \in 10 * low .. 10 * high

\* Records: when every rate is a number of low .. high, so is every rating that was written,
\* whatever reviews a handler has read (update_rating; ratings count in tenths).
THEOREM RatingsAreMeans ==
  ASSUME NEW low \in Nat, NEW high \in Nat, \A r \in Rates : low <= r /\ r <= high
  PROVE  WorldSpec => []RatingsIn(low, high)
  <1>1. RatedInv => RatingsIn(low, high)
    BY AverageBetween DEF RatedInv, Rated, Mean, RatingsIn, R!Parties
  <1>. QED  BY <1>1, RatedAlways, PTL

LEMMA RecordsTyped == RatedInv => R!TypeOK
  <1>. SUFFICES ASSUME RatedInv PROVE R!TypeOK
    OBVIOUS
  <1>1. rating \in [R!Parties -> Nat]
    <2>1. \A p \in R!Parties : rating[p] \in Nat
      BY AverageNat DEF RatedInv, Rated, Mean
    <2>. QED  BY <2>1 DEF RatedInv, RecordsType
  <1>. QED  BY <1>1 DEF RatedInv, RecordsType, RecordType, ClerkType, R!TypeOK

-----------------------------------------------------------------------------
(* Offers: coupons and surcharge periods.                                  *)

CouponType ==
    [status : {"none", "active", "deactive", "removed"}, code : Codes \cup {None},
     type : O!Kinds, expired : BOOLEAN, used_by : Seq(Customers)]
DeskType ==
    [pc : {"idle", "coupon", "lapse", "period", "prune"}, new : O!PeriodType,
     code : Codes \cup {None}, type : O!Kinds, left : SUBSET (Coupons \cup Periods)]

OffersType ==
    /\ coupon \in [Coupons -> CouponType] /\ shown \in [Customers -> SUBSET Coupons]
    /\ pricing \in [Customers -> Coupons \cup {None}]
    /\ period \in [Periods -> O!PeriodType] /\ desk \in [Desks -> DeskType]
    /\ seen \in [Coupons -> SUBSET Customers] /\ blind \subseteq Customers \X Coupons

LEMMA NoOfferIs ==
  /\ O!NoCoupon \in CouponType /\ O!NoCoupon.status = "none" /\ O!NoCoupon.used_by = <<>>
  /\ O!NoPeriod \in O!PeriodType /\ ~O!NoPeriod.live /\ ~O!NoPeriod.used
  /\ O!Quiet \in DeskType /\ O!Quiet.pc = "idle"
  <1>0. 0 \in 0 .. O!Day(LastHour) /\ <<0, 1>> \in O!Spans
    BY OffersAssumption DEF O!Day, O!Spans
  <1>1. O!NoCoupon \in CouponType /\ O!NoCoupon.status = "none" /\ O!NoCoupon.used_by = <<>>
    BY DEF O!NoCoupon, CouponType, O!Kinds
  <1>2. O!NoPeriod \in O!PeriodType /\ ~O!NoPeriod.live /\ ~O!NoPeriod.used
    BY <1>0 DEF O!NoPeriod, O!PeriodType
  <1>3. O!Quiet \in DeskType /\ O!Quiet.pc = "idle"
    BY <1>2 DEF O!Quiet, DeskType, O!Kinds
  <1>. QED  BY <1>1, <1>2, <1>3

LEMMA NewPeriodIs == ASSUME NEW n \in O!Dated \cup O!ForVehicles PROVE n \in O!PeriodType
  <1>1. O!NoPeriod \in O!PeriodType
    BY NoOfferIs
  <1>2. ASSUME NEW d \in 0 .. O!Day(LastHour), NEW s \in O!Spans
        PROVE  [O!NoPeriod EXCEPT !.date = d, !.span = s] \in O!PeriodType
    BY <1>1 DEF O!PeriodType
  <1>3. ASSUME NEW v \in Vehicle_types
        PROVE  [O!NoPeriod EXCEPT !.type = "driver_availabilty", !.vehicle = v] \in O!PeriodType
    BY <1>1 DEF O!PeriodType
  <1>4. CASE n \in O!Dated
    <2>1. PICK when \in (0 .. O!Day(LastHour)) \X O!Spans :
            n = [O!NoPeriod EXCEPT !.date = when[1], !.span = when[2]]
      BY <1>4 DEF O!Dated
    <2>. QED  BY <1>2, <2>1
  <1>5. CASE n \in O!ForVehicles
    BY <1>3, <1>5 DEF O!ForVehicles
  <1>. QED  BY <1>4, <1>5

LEMMA DeskIs ==
  ASSUME OffersType, NEW a \in Desks, NEW j \in DeskType, O!Turn(a, j)
  PROVE  /\ desk' \in [Desks -> DeskType] /\ desk'[a] = j
         /\ \A b \in Desks \ {a} : desk'[b] = desk[b]
  BY DEF OffersType, O!Turn

LEMMA LeastIs ==
  ASSUME NEW T, T \subseteq Nat, T # {}
  PROVE  O!Least(T) \in T
  BY NatMin DEF O!Least

---------------------------------------------------------------------------

\* A coupon that was used is one-time and is held by those only who had been shown it, and a
\* booking that is priced with it belongs to one of them, or to one who named it blindly.
UsesHold ==
    /\ \A u \in Customers :
          pricing[u] # None => /\ pricing[u] \in shown[u] \/ <<u, pricing[u]>> \in blind
                               /\ coupon[pricing[u]].status # "none"
    /\ \A u \in Customers : \A c \in shown[u] : coupon[c].status # "none"
    /\ \A c \in O!LiveCoupons \ edited :
          /\ \A i \in DOMAIN coupon[c].used_by :
                coupon[c].used_by[i] \in seen[c] \/ <<coupon[c].used_by[i], c>> \in blind
          /\ coupon[c].used_by # <<>> =>
               /\ coupon[c].type = "one-time"
               /\ \A x \in Customers : c \in shown[x] => x \in seen[c]
          /\ \A u \in Customers : pricing[u] # None /\ pricing[u] = c => coupon[c].type = "one-time"

\* Coupons go, and are edited; the others stay what they are.
UsesStay ==
    /\ UNCHANGED <<shown, pricing, seen, blind>>
    /\ \A c \in Coupons : coupon[c].status # "none" => coupon'[c].status # "none"
    /\ \A c \in O!LiveCoupons' \ edited' :
          c \in O!LiveCoupons \ edited /\ coupon'[c].type = coupon[c].type
          /\ coupon'[c].used_by = coupon[c].used_by

LEMMA UsesKept == ASSUME OffersType, UsesHold, UsesStay PROVE UsesHold'
  <1>1. \A u \in Customers : shown[u] \subseteq Coupons
    BY DEF OffersType
  <1>2. ASSUME NEW c \in O!LiveCoupons' \ edited'
        PROVE  /\ \A i \in DOMAIN coupon'[c].used_by :
                     coupon'[c].used_by[i] \in seen'[c] \/ <<coupon'[c].used_by[i], c>> \in blind'
               /\ coupon'[c].used_by # <<>> =>
                    /\ coupon'[c].type = "one-time"
                    /\ \A x \in Customers : c \in shown'[x] => x \in seen'[c]
               /\ \A u \in Customers : pricing'[u] # None /\ pricing'[u] = c => coupon'[c].type = "one-time"
    BY <1>2 DEF UsesHold, UsesStay
  <1>3. \A u \in Customers : pricing'[u] # None =>
           /\ pricing'[u] \in shown'[u] \/ <<u, pricing'[u]>> \in blind'
           /\ coupon'[pricing'[u]].status # "none"
    BY DEF UsesHold, UsesStay, OffersType
  <1>4. \A u \in Customers : \A c \in shown'[u] : coupon'[c].status # "none"
    BY <1>1 DEF UsesHold, UsesStay
  <1>. QED  BY <1>2, <1>3, <1>4 DEF UsesHold

\* No code is on two coupons, or on one and in the request for another.
CodesHold ==
    /\ \A c, d \in O!LiveCoupons \ edited :
          c # d /\ coupon[c].code = coupon[d].code => coupon[c].code \in raced
    /\ \A a \in Desks : desk[a].pc = "coupon" =>
          \A c \in O!LiveCoupons \ edited : coupon[c].code = desk[a].code => desk[a].code \in raced
    /\ \A a, b \in Desks :
          a # b /\ desk[a].pc = "coupon" /\ desk[b].pc = "coupon" /\ desk[a].code = desk[b].code
            => desk[a].code \in raced

CodesStay ==
    /\ raced \subseteq raced'
    /\ \A c \in O!LiveCoupons' \ edited' :
          c \in O!LiveCoupons \ edited /\ coupon'[c].code = coupon[c].code
    /\ \A a \in Desks : desk'[a].pc = "coupon" => desk[a].pc = "coupon" /\ desk'[a].code = desk[a].code

LEMMA CodesKept == ASSUME CodesHold, CodesStay PROVE CodesHold'
  <1>1. ASSUME NEW c \in O!LiveCoupons' \ edited', NEW d \in O!LiveCoupons' \ edited', c # d,
               coupon'[c].code = coupon'[d].code
        PROVE  coupon'[c].code \in raced'
    BY <1>1 DEF CodesHold, CodesStay
  <1>2. ASSUME NEW a \in Desks, desk'[a].pc = "coupon", NEW c \in O!LiveCoupons' \ edited',
               coupon'[c].code = desk'[a].code
        PROVE  desk'[a].code \in raced'
    BY <1>2 DEF CodesHold, CodesStay
  <1>3. ASSUME NEW a \in Desks, NEW b \in Desks, a # b, desk'[a].pc = "coupon",
               desk'[b].pc = "coupon", desk'[a].code = desk'[b].code
        PROVE  desk'[a].code \in raced'
    BY <1>3 DEF CodesHold, CodesStay
  <1>. QED  BY <1>1, <1>2, <1>3 DEF CodesHold

\* What create looks for: two periods of a date that overlap, or two of a vehicle type.
Clash(x, y) ==
    /\ x.type = y.type
    /\ IF x.type = "date_time" THEN x.date = y.date /\ O!Overlap(x.span, y.span)
       ELSE x.vehicle = y.vehicle

LEMMA ClashIs ==
  /\ \A n : O!Clashes(n) = {p \in O!LivePeriods : Clash(period[p], n)}
  /\ \A x, y : Clash(x, y) <=> Clash(y, x)
  /\ \A x, y : Clash(x, y) => O!Subject(x) = O!Subject(y)
  <1>1. \A n : O!Clashes(n) = {p \in O!LivePeriods : Clash(period[p], n)}
    BY DEF O!Clashes, Clash
  <1>2. \A x, y : Clash(x, y) <=> Clash(y, x)
    BY DEF Clash, O!Overlap
  <1>3. \A x, y : Clash(x, y) => O!Subject(x) = O!Subject(y)
    BY DEF Clash, O!Subject
  <1>. QED  BY <1>1, <1>2, <1>3

Unedited == O!LivePeriods \ edited

PeriodsHold ==
    /\ \A p, q \in Unedited : p # q /\ Clash(period[p], period[q]) => O!Subject(period[p]) \in raced
    /\ \A a \in Desks : desk[a].pc = "period" =>
          \A q \in Unedited : Clash(period[q], desk[a].new) => O!Subject(desk[a].new) \in raced
    /\ \A a, b \in Desks :
          a # b /\ desk[a].pc = "period" /\ desk[b].pc = "period"
            /\ O!Subject(desk[a].new) = O!Subject(desk[b].new) => O!Subject(desk[a].new) \in raced
    /\ \A p \in Periods : period[p].live => period[p].used

PeriodsStay ==
    /\ raced \subseteq raced'
    /\ \A p \in Unedited' : p \in Unedited /\ period'[p] = period[p]
    /\ \A p \in Periods : period'[p].live => period'[p].used
    /\ \A a \in Desks : desk'[a].pc = "period" => desk[a].pc = "period" /\ desk'[a].new = desk[a].new

LEMMA PeriodsKept == ASSUME PeriodsHold, PeriodsStay PROVE PeriodsHold'
  <1>1. ASSUME NEW p \in Unedited', NEW q \in Unedited', p # q, Clash(period'[p], period'[q])
        PROVE  O!Subject(period'[p]) \in raced'
    <2>1. p \in Unedited /\ q \in Unedited /\ period'[p] = period[p] /\ period'[q] = period[q]
      BY DEF PeriodsStay
    <2>. QED  BY <1>1, <2>1 DEF PeriodsHold, PeriodsStay
  <1>2. ASSUME NEW a \in Desks, desk'[a].pc = "period", NEW q \in Unedited',
               Clash(period'[q], desk'[a].new)
        PROVE  O!Subject(desk'[a].new) \in raced'
    <2>1. q \in Unedited /\ period'[q] = period[q] /\ desk[a].pc = "period" /\ desk'[a].new = desk[a].new
      BY <1>2 DEF PeriodsStay
    <2>. QED  BY <1>2, <2>1 DEF PeriodsHold, PeriodsStay
  <1>3. ASSUME NEW a \in Desks, NEW b \in Desks, a # b, desk'[a].pc = "period", desk'[b].pc = "period",
               O!Subject(desk'[a].new) = O!Subject(desk'[b].new)
        PROVE  O!Subject(desk'[a].new) \in raced'
    <2>1. /\ desk[a].pc = "period" /\ desk'[a].new = desk[a].new
          /\ desk[b].pc = "period" /\ desk'[b].new = desk[b].new
      BY <1>3 DEF PeriodsStay
    <2>. QED  BY <1>3, <2>1 DEF PeriodsHold, PeriodsStay
  <1>4. (\A a \in Desks : desk[a].pc = "period" =>
          \A q \in Unedited : Clash(period[q], desk[a].new) => O!Subject(desk[a].new) \in raced)'
    BY <1>2 DEF Clash, O!Subject
  <1>5. (\A p, q \in Unedited : p # q /\ Clash(period[p], period[q]) => O!Subject(period[p]) \in raced)'
    BY <1>1 DEF Clash, O!Subject
  <1>6. (\A a, b \in Desks :
          a # b /\ desk[a].pc = "period" /\ desk[b].pc = "period"
            /\ O!Subject(desk[a].new) = O!Subject(desk[b].new) => O!Subject(desk[a].new) \in raced)'
    BY <1>3 DEF O!Subject
  <1>7. (\A p \in Periods : period[p].live => period[p].used)'
    BY DEF PeriodsStay
  <1>. QED  BY <1>4, <1>5, <1>6, <1>7 DEF PeriodsHold

OffersInv == UsesHold /\ CodesHold /\ PeriodsHold

LEMMA OffersInit == O!Init => OffersType /\ OffersInv
  <1>. SUFFICES ASSUME O!Init PROVE OffersType /\ OffersInv
    OBVIOUS
  <1>1. OffersType
    BY NoOfferIs DEF O!Init, OffersType
  <1>2. /\ O!LiveCoupons = {} /\ O!LivePeriods = {} /\ \A a \in Desks : desk[a].pc = "idle"
        /\ \A p \in Periods : ~period[p].live
    BY NoOfferIs DEF O!Init, O!LiveCoupons, O!LivePeriods
  <1>3. UsesHold
    BY <1>2 DEF UsesHold, O!Init
  <1>4. CodesHold
    BY <1>2 DEF CodesHold
  <1>5. PeriodsHold
    BY <1>2 DEF PeriodsHold, Unedited
  <1>. QED  BY <1>1, <1>3, <1>4, <1>5 DEF OffersInv

\* What leaves the coupons, the periods or the requests alone.
CouponsStay == UNCHANGED <<coupon, shown, pricing, seen, blind>>

LEMMA CouponsAlone ==
  ASSUME CouponsStay, edited \subseteq edited', raced \subseteq raced'
  PROVE  /\ UsesStay
         /\ (\A a \in Desks : desk'[a].pc = "coupon" => desk[a].pc = "coupon" /\ desk'[a].code = desk[a].code)
               => CodesStay
  BY DEF CouponsStay, UsesStay, CodesStay, O!LiveCoupons

LEMMA PeriodsAlone ==
  ASSUME PeriodsHold, UNCHANGED period, edited \subseteq edited', raced \subseteq raced',
         \A a \in Desks : desk'[a].pc = "period" => desk[a].pc = "period" /\ desk'[a].new = desk[a].new
  PROVE  PeriodsHold'
  <1>1. PeriodsStay
    BY DEF PeriodsStay, PeriodsHold, Unedited, O!LivePeriods
  <1>. QED  BY <1>1, PeriodsKept

\* One desk turns to j, which is no request to create a coupon.
LEMMA DeskGoesOn ==
  ASSUME OffersType, NEW a \in Desks, NEW j \in DeskType, O!Turn(a, j)
  PROVE  /\ j.pc # "coupon" =>
               \A b \in Desks : desk'[b].pc = "coupon" => desk[b].pc = "coupon" /\ desk'[b].code = desk[b].code
         /\ j.pc # "period" =>
               \A b \in Desks : desk'[b].pc = "period" => desk[b].pc = "period" /\ desk'[b].new = desk[b].new
  BY DeskIs

\* What has to be shown of the periods, conjunct by conjunct.
LEMMA PeriodsHoldThen ==
  ASSUME \A p, q \in Unedited' : p # q /\ Clash(period'[p], period'[q]) => O!Subject(period'[p]) \in raced',
         \A a \in Desks : desk'[a].pc = "period" =>
            \A q \in Unedited' : Clash(period'[q], desk'[a].new) => O!Subject(desk'[a].new) \in raced',
         \A a, b \in Desks :
            a # b /\ desk'[a].pc = "period" /\ desk'[b].pc = "period"
              /\ O!Subject(desk'[a].new) = O!Subject(desk'[b].new) => O!Subject(desk'[a].new) \in raced',
         \A p \in Periods : period'[p].live => period'[p].used
  PROVE  PeriodsHold'
  BY DEF PeriodsHold, Clash, O!Subject, O!Overlap

LEMMA Appended ==
  ASSUME NEW X, NEW s \in Seq(X), NEW u \in X
  PROVE  /\ Append(s, u) \in Seq(X) /\ Append(s, u) # <<>>
         /\ \A i \in DOMAIN Append(s, u) :
               Append(s, u)[i] = u \/ (i \in DOMAIN s /\ Append(s, u)[i] = s[i])
  OBVIOUS

---------------------------------------------------------------------------
(* The requests about coupons.                                             *)

LEMMA CouponAsked ==
  ASSUME OffersType, OffersInv, NEW a \in Desks, NEW code \in Codes, NEW type \in O!Kinds,
         O!CreateCoupon(a, code, type)
  PROVE  OffersType' /\ OffersInv'
  <1>0. UNCHANGED <<coupon, shown, pricing, period, seen, blind, edited>>
        /\ UsesHold /\ CodesHold /\ PeriodsHold /\ UNCHANGED O!LiveCoupons /\ desk[a].pc = "idle" /\ desk \in [Desks -> DeskType]
    BY DEF O!CreateCoupon, OffersInv, O!LiveCoupons, O!Start, OffersType
  <1>1. CASE UNCHANGED <<desk, raced>>
    <2>1. CouponsStay
      BY <1>0 DEF CouponsStay
    <2>2. UsesHold' /\ CodesHold'
      BY <1>0, <1>1, <2>1, CouponsAlone, UsesKept, CodesKept
    <2>3. PeriodsHold'
      BY <1>0, <1>1, PeriodsAlone
    <2>. QED  BY <1>0, <1>1, <2>2, <2>3 DEF OffersType, OffersInv
  <1>2. CASE ~UNCHANGED <<desk, raced>>
    <2>1. /\ ~\E c \in O!LiveCoupons : coupon[c].code = code
          /\ O!Turn(a, [O!Quiet EXCEPT !.pc = "coupon", !.code = code, !.type = type])
          /\ raced' = IF \E b \in Desks : desk[b].pc = "coupon" /\ desk[b].code = code
                      THEN raced \cup {code} ELSE raced
      BY <1>2 DEF O!CreateCoupon
    <2>2. PICK j : j = [O!Quiet EXCEPT !.pc = "coupon", !.code = code, !.type = type]
      OBVIOUS
    <2>3. j \in DeskType /\ j.pc = "coupon" /\ j.code = code
      BY <2>2, NoOfferIs DEF DeskType
    <2>4. O!Turn(a, j)
      BY <2>1, <2>2
    <2>5. desk' \in [Desks -> DeskType] /\ desk'[a] = j /\ \A b \in Desks \ {a} : desk'[b] = desk[b]
      BY <2>3, <2>4, DeskIs
    <2>6. raced \subseteq raced' /\ edited \subseteq edited'
          /\ \A b \in Desks : desk[b].pc = "coupon" /\ desk[b].code = code => code \in raced'
      BY <1>0, <2>1
    <2>7. CouponsStay
      BY <1>0 DEF CouponsStay
    <2>8. UsesHold'
      BY <1>0, <2>6, <2>7, CouponsAlone, UsesKept
    <2>9. PeriodsHold'
      BY <1>0, <2>3, <2>4, <2>6, DeskGoesOn, PeriodsAlone
    <2>10. CodesHold'
      <3>1. ASSUME NEW c \in O!LiveCoupons' \ edited', NEW d \in O!LiveCoupons' \ edited', c # d,
                   coupon'[c].code = coupon'[d].code
            PROVE  coupon'[c].code \in raced'
        BY <1>0, <2>6, <3>1 DEF CodesHold
      <3>2. ASSUME NEW b \in Desks, desk'[b].pc = "coupon", NEW c \in O!LiveCoupons' \ edited',
                   coupon'[c].code = desk'[b].code
            PROVE  desk'[b].code \in raced'
        BY <1>0, <2>1, <2>3, <2>5, <2>6, <3>2 DEF CodesHold
      <3>3. ASSUME NEW b \in Desks, NEW d \in Desks, b # d, desk'[b].pc = "coupon",
                   desk'[d].pc = "coupon", desk'[b].code = desk'[d].code
            PROVE  desk'[b].code \in raced'
        BY <1>0, <2>3, <2>5, <2>6, <3>3 DEF CodesHold
      <3>. QED  BY <3>1, <3>2, <3>3 DEF CodesHold
    <2>11. OffersType'
      BY <1>0, <2>5 DEF OffersType
    <2>. QED  BY <2>8, <2>9, <2>10, <2>11 DEF OffersInv
  <1>. QED  BY <1>1, <1>2

\* The coupon that is stored is a new one.
LEMMA CouponStored ==
  ASSUME OffersType, OffersInv, NEW a \in Desks, O!StoreCoupon(a)
  PROVE  OffersType' /\ OffersInv'
  <1>0. /\ UNCHANGED <<shown, pricing, period, seen, blind, raced, edited>>
        /\ UsesHold /\ CodesHold /\ PeriodsHold /\ desk[a].pc = "coupon" /\ desk[a] \in DeskType /\ O!Turn(a, O!Quiet)
        /\ desk \in [Desks -> DeskType] /\ coupon \in [Coupons -> CouponType]
    BY DEF O!StoreCoupon, OffersInv, OffersType
  <1>1. PICK n \in Coupons : n = O!Least({c \in Coupons : coupon[c].status = "none"})
                            /\ coupon[n].status = "none"
    <2>1. {c \in Coupons : coupon[c].status = "none"} \subseteq Nat
          /\ {c \in Coupons : coupon[c].status = "none"} # {}
      BY OffersAssumption DEF O!StoreCoupon
    <2>. QED  BY <2>1, LeastIs
  <1>2. PICK z : z = [O!NoCoupon EXCEPT !.status = "active", !.code = desk[a].code, !.type = desk[a].type]
    OBVIOUS
  <1>3. z \in CouponType /\ z.status = "active" /\ z.code = desk[a].code /\ z.used_by = <<>>
    BY <1>0, <1>2, NoOfferIs DEF CouponType, DeskType
  <1>4. coupon' = [coupon EXCEPT ![n] = z]
    BY <1>1, <1>2 DEF O!StoreCoupon
  <1>5. /\ coupon' \in [Coupons -> CouponType] /\ coupon'[n] = z
        /\ \A c \in Coupons \ {n} : coupon'[c] = coupon[c]
    BY <1>0, <1>3, <1>4
  <1>6. n \notin O!LiveCoupons /\ O!LiveCoupons' = O!LiveCoupons \cup {n}
        /\ \A c \in O!LiveCoupons : c \in Coupons \ {n} /\ coupon'[c] = coupon[c]
    BY <1>1, <1>3, <1>5 DEF O!LiveCoupons
  <1>7. /\ desk' \in [Desks -> DeskType] /\ desk'[a].pc = "idle"
        /\ \A b \in Desks \ {a} : desk'[b] = desk[b]
    BY <1>0, NoOfferIs, DeskIs
  <1>8. UsesHold'
    <2>1. \A u \in Customers : n \notin shown[u] /\ shown[u] \subseteq Coupons
      BY <1>1 DEF UsesHold, OffersInv, OffersType
    <2>2. \A u \in Customers : pricing'[u] # None =>
             /\ pricing'[u] \in shown'[u] \/ <<u, pricing'[u]>> \in blind'
             /\ coupon'[pricing'[u]].status # "none" /\ pricing'[u] # n
      BY <1>0, <1>1, <1>5, <2>1 DEF UsesHold, OffersType
    <2>3. \A u \in Customers : \A c \in shown'[u] : coupon'[c].status # "none"
      BY <1>0, <1>5, <2>1 DEF UsesHold
    <2>4. ASSUME NEW c \in O!LiveCoupons' \ edited'
          PROVE  /\ \A i \in DOMAIN coupon'[c].used_by :
                       coupon'[c].used_by[i] \in seen'[c] \/ <<coupon'[c].used_by[i], c>> \in blind'
                 /\ coupon'[c].used_by # <<>> =>
                      /\ coupon'[c].type = "one-time"
                      /\ \A x \in Customers : c \in shown'[x] => x \in seen'[c]
                 /\ \A u \in Customers : pricing'[u] # None /\ pricing'[u] = c => coupon'[c].type = "one-time"
      <3>1. CASE c = n
        <4>1. coupon'[c].used_by = <<>> /\ DOMAIN coupon'[c].used_by = {}
          BY <1>3, <1>5, <3>1
        <4>2. \A u \in Customers : ~(pricing'[u] # None /\ pricing'[u] = c)
          BY <2>2, <3>1
        <4>. QED  BY <4>1, <4>2
      <3>2. CASE c # n
        <4>1. c \in O!LiveCoupons \ edited /\ coupon'[c] = coupon[c]
          BY <1>0, <1>6, <3>2
        <4>. QED  BY <1>0, <4>1 DEF UsesHold
      <3>. QED  BY <3>1, <3>2
    <2>. QED  BY <2>2, <2>3, <2>4 DEF UsesHold
  <1>9. CodesHold'
    <2>0. ASSUME NEW c \in O!LiveCoupons \ edited, coupon[c].code = desk[a].code PROVE desk[a].code \in raced
      BY <1>0, <2>0 DEF CodesHold
    <2>1. ASSUME NEW c \in O!LiveCoupons' \ edited', NEW d \in O!LiveCoupons' \ edited', c # d,
                 coupon'[c].code = coupon'[d].code
          PROVE  coupon'[c].code \in raced'
      <3>1. CASE c = n
        BY <1>0, <1>3, <1>5, <1>6, <2>0, <2>1, <3>1
      <3>2. CASE d = n
        BY <1>0, <1>3, <1>5, <1>6, <2>0, <2>1, <3>2
      <3>3. CASE c # n /\ d # n
        BY <1>0, <1>6, <2>1, <3>3 DEF CodesHold
      <3>. QED  BY <3>1, <3>2, <3>3
    <2>2. ASSUME NEW b \in Desks, desk'[b].pc = "coupon", NEW c \in O!LiveCoupons' \ edited',
                 coupon'[c].code = desk'[b].code
          PROVE  desk'[b].code \in raced'
      <3>1. b # a /\ desk'[b] = desk[b]
        BY <1>7, <2>2
      <3>2. CASE c = n
        BY <1>0, <1>3, <1>5, <2>2, <3>1, <3>2 DEF CodesHold
      <3>3. CASE c # n
        BY <1>0, <1>6, <2>2, <3>1, <3>3 DEF CodesHold
      <3>. QED  BY <3>2, <3>3
    <2>3. ASSUME NEW b \in Desks, NEW d \in Desks, b # d, desk'[b].pc = "coupon",
                 desk'[d].pc = "coupon", desk'[b].code = desk'[d].code
          PROVE  desk'[b].code \in raced'
      <3>1. b # a /\ desk'[b] = desk[b] /\ d # a /\ desk'[d] = desk[d]
        BY <1>7, <2>3
      <3>. QED  BY <1>0, <2>3, <3>1 DEF CodesHold
    <2>. QED  BY <2>1, <2>2, <2>3 DEF CodesHold
  <1>10. PeriodsHold'
    BY <1>0, NoOfferIs, DeskGoesOn, PeriodsAlone
  <1>11. OffersType'
    BY <1>0, <1>5, <1>7 DEF OffersType
  <1>. QED  BY <1>8, <1>9, <1>10, <1>11 DEF OffersInv

\* Coupons are edited, switched, taken out of use or removed; requests go on to something
\* else than a coupon to create.
LEMMA CouponsChanged ==
  ASSUME OffersType, OffersInv, coupon' \in [Coupons -> CouponType],
         desk' \in [Desks -> DeskType], UNCHANGED <<shown, pricing, period, seen, blind, raced>>,
         edited \subseteq edited',
         \A c \in Coupons : /\ coupon[c].status # "none" => coupon'[c].status # "none"
                            /\ c \in O!LiveCoupons' => c \in O!LiveCoupons
                            /\ (coupon'[c].code = coupon[c].code \/ c \in edited')
                            /\ coupon'[c].used_by = coupon[c].used_by
                            /\ (coupon'[c].type = coupon[c].type \/ c \in edited'),
         \A b \in Desks : /\ desk'[b].pc = "coupon" => desk[b].pc = "coupon" /\ desk'[b].code = desk[b].code
                          /\ desk'[b].pc = "period" => desk[b].pc = "period" /\ desk'[b].new = desk[b].new
  PROVE  OffersType' /\ OffersInv'
  <1>1. O!LiveCoupons' \subseteq Coupons
    BY DEF O!LiveCoupons
  <1>2. UsesStay
    <2>1. ASSUME NEW c \in O!LiveCoupons' \ edited'
          PROVE  c \in O!LiveCoupons \ edited /\ coupon'[c].type = coupon[c].type
                 /\ coupon'[c].used_by = coupon[c].used_by
      BY <1>1
    <2>. QED  BY <2>1 DEF UsesStay
  <1>3. CodesStay
    <2>1. \A c \in O!LiveCoupons' \ edited' :
            c \in O!LiveCoupons \ edited /\ coupon'[c].code = coupon[c].code
      BY <1>1
    <2>. QED  BY <2>1 DEF CodesStay
  <1>4. PeriodsHold'
    BY PeriodsAlone DEF OffersInv
  <1>5. OffersType'
    BY DEF OffersType
  <1>. QED  BY <1>2, <1>3, <1>4, <1>5, UsesKept, CodesKept DEF OffersInv

\* One coupon becomes z.
LEMMA CouponChanged ==
  ASSUME OffersType, OffersInv, NEW c \in O!LiveCoupons, NEW z \in CouponType,
         coupon' = [coupon EXCEPT ![c] = z], z.status # "none",
         z.code = coupon[c].code \/ c \in edited', z.used_by = coupon[c].used_by,
         z.type = coupon[c].type \/ c \in edited',
         desk' \in [Desks -> DeskType], UNCHANGED <<shown, pricing, period, seen, blind, raced>>,
         edited \subseteq edited',
         \A b \in Desks : /\ desk'[b].pc = "coupon" => desk[b].pc = "coupon" /\ desk'[b].code = desk[b].code
                          /\ desk'[b].pc = "period" => desk[b].pc = "period" /\ desk'[b].new = desk[b].new
  PROVE  OffersType' /\ OffersInv'
  <1>1. coupon \in [Coupons -> CouponType] /\ c \in Coupons
    BY DEF OffersType, O!LiveCoupons
  <1>2. /\ coupon' \in [Coupons -> CouponType] /\ coupon'[c] = z
        /\ \A d \in Coupons \ {c} : coupon'[d] = coupon[d]
    BY <1>1
  <1>3. \A d \in Coupons : /\ coupon[d].status # "none" => coupon'[d].status # "none"
                           /\ coupon'[d].code = coupon[d].code \/ d \in edited'
                           /\ coupon'[d].used_by = coupon[d].used_by
                           /\ coupon'[d].type = coupon[d].type \/ d \in edited'
    BY <1>2
  <1>4. \A d \in Coupons : d \in O!LiveCoupons' => d \in O!LiveCoupons
    BY <1>2 DEF O!LiveCoupons
  <1>. QED  BY <1>2, <1>3, <1>4, CouponsChanged

LEMMA CouponEdited ==
  ASSUME OffersType, OffersInv, NEW c \in Coupons, NEW type \in O!Kinds,
         NEW code \in Codes, O!EditCoupon(c, type, code)
  PROVE  OffersType' /\ OffersInv'
  <1>0. coupon[c] \in CouponType /\ coupon \in [Coupons -> CouponType] /\ c \in O!LiveCoupons
    BY DEF O!EditCoupon, OffersType
  <1>1. PICK z : z = [coupon[c] EXCEPT !.code = code, !.type = type, !.expired = FALSE]
    OBVIOUS
  <1>2. z \in CouponType /\ z.status = coupon[c].status /\ z.used_by = coupon[c].used_by
    BY <1>0, <1>1 DEF CouponType
  <1>3. coupon' = [coupon EXCEPT ![c] = z]
    BY <1>0, <1>1 DEF O!EditCoupon, CouponType
  <1>4. UNCHANGED <<shown, pricing, period, desk, seen, blind, raced>> /\ edited' = edited \cup {c}
        /\ desk \in [Desks -> DeskType] /\ z.status # "none"
    BY <1>0, <1>2 DEF O!EditCoupon, OffersType, O!LiveCoupons
  <1>. QED  BY <1>0, <1>2, <1>3, <1>4, CouponChanged

LEMMA CouponSwitched ==
  ASSUME OffersType, OffersInv, NEW c \in Coupons, O!RemoveCoupon(c) \/ O!SwitchCoupon(c)
  PROVE  OffersType' /\ OffersInv'
  <1>0. coupon[c] \in CouponType /\ coupon \in [Coupons -> CouponType] /\ c \in O!LiveCoupons
        /\ UNCHANGED <<shown, pricing, period, desk, seen, blind, raced, edited>>
        /\ desk \in [Desks -> DeskType]
    BY DEF O!RemoveCoupon, O!SwitchCoupon, OffersType
  <1>1. PICK st \in {"active", "deactive", "removed"} : coupon' = [coupon EXCEPT ![c].status = st]
    BY DEF O!RemoveCoupon, O!SwitchCoupon
  <1>2. PICK z : z = [coupon[c] EXCEPT !.status = st]
    OBVIOUS
  <1>3. /\ z \in CouponType /\ z.status = st /\ z.code = coupon[c].code /\ z.type = coupon[c].type
        /\ z.used_by = coupon[c].used_by
    BY <1>0, <1>2 DEF CouponType
  <1>4. coupon' = [coupon EXCEPT ![c] = z]
    BY <1>0, <1>1, <1>2
  <1>. QED  BY <1>0, <1>3, <1>4, CouponChanged

LEMMA CouponsListed ==
  ASSUME OffersType, OffersInv, NEW a \in Desks, O!ListCoupons(a)
  PROVE  OffersType' /\ OffersInv'
  <1>0. UNCHANGED <<coupon, shown, pricing, period, seen, blind, raced, edited>>
        /\ coupon \in [Coupons -> CouponType] /\ O!LiveCoupons' = O!LiveCoupons
    BY DEF O!ListCoupons, OffersType, O!LiveCoupons
  <1>1. PICK L \in SUBSET Coupons : L = {c \in O!LiveCoupons : coupon[c].expired}
    BY DEF O!LiveCoupons
  <1>2. PICK j : j = [O!Quiet EXCEPT !.pc = "lapse", !.left = L]
    OBVIOUS
  <1>3. j \in DeskType /\ j.pc = "lapse"
    BY <1>2, NoOfferIs DEF DeskType
  <1>4. O!Turn(a, j)
    BY <1>1, <1>2 DEF O!ListCoupons
  <1>. QED  BY <1>0, <1>3, <1>4, DeskIs, DeskGoesOn, CouponsChanged

LEMMA CouponLapsed ==
  ASSUME OffersType, OffersInv, NEW a \in Desks, O!LapseCoupon(a)
  PROVE  OffersType' /\ OffersInv'
  <1>0. UNCHANGED <<shown, pricing, period, seen, blind, raced, edited>> /\ desk[a] \in DeskType
        /\ coupon \in [Coupons -> CouponType] /\ desk[a].pc = "lapse"
    BY DEF O!LapseCoupon, OffersType
  <1>1. CASE desk[a].left = {}
    <2>1. O!Turn(a, O!Quiet) /\ UNCHANGED coupon /\ O!LiveCoupons' = O!LiveCoupons
      BY <1>1 DEF O!LapseCoupon, O!LiveCoupons
    <2>. QED  BY <1>0, <2>1, NoOfferIs, DeskIs, DeskGoesOn, CouponsChanged
  <1>2. CASE desk[a].left # {}
    <2>1. PICK c : c = O!Least(desk[a].left)
      OBVIOUS
    <2>2. PICK j : j = [desk[a] EXCEPT !.left = @ \ {c}]
      OBVIOUS
    <2>3. j \in DeskType /\ j.pc = "lapse"
      BY <1>0, <2>2 DEF DeskType
    <2>4. /\ O!Turn(a, j)
          /\ coupon' = IF c \in O!LiveCoupons THEN [coupon EXCEPT ![c].status = "deactive"] ELSE coupon
      BY <1>2, <2>1, <2>2 DEF O!LapseCoupon
    <2>5. /\ desk' \in [Desks -> DeskType]
          /\ \A b \in Desks : /\ desk'[b].pc = "coupon" => desk[b].pc = "coupon" /\ desk'[b].code = desk[b].code
                              /\ desk'[b].pc = "period" => desk[b].pc = "period" /\ desk'[b].new = desk[b].new
      BY <2>3, <2>4, DeskIs, DeskGoesOn
    <2>6. CASE c \in O!LiveCoupons
      <3>0. c \in Coupons /\ coupon[c] \in CouponType
        BY <1>0, <2>6 DEF O!LiveCoupons
      <3>1. PICK z : z = [coupon[c] EXCEPT !.status = "deactive"]
        OBVIOUS
      <3>2. /\ z \in CouponType /\ z.status = "deactive" /\ z.code = coupon[c].code
            /\ z.type = coupon[c].type /\ z.used_by = coupon[c].used_by
        BY <3>0, <3>1 DEF CouponType
      <3>3. coupon' = [coupon EXCEPT ![c] = z]
        BY <1>0, <2>4, <2>6, <3>0, <3>1
      <3>. QED  BY <1>0, <2>5, <2>6, <3>2, <3>3, CouponChanged
    <2>7. CASE c \notin O!LiveCoupons
      <3>1. UNCHANGED coupon /\ O!LiveCoupons' = O!LiveCoupons
        BY <2>4, <2>7 DEF O!LiveCoupons
      <3>. QED  BY <1>0, <2>5, <3>1, CouponsChanged
    <2>. QED  BY <2>6, <2>7
  <1>. QED  BY <1>1, <1>2

LEMMA CouponsRunOut ==
  ASSUME OffersType, OffersInv, O!TimePasses
  PROVE  OffersType' /\ OffersInv'
  <1>0. UNCHANGED <<shown, pricing, period, desk, seen, blind, raced, edited>>
        /\ coupon \in [Coupons -> CouponType] /\ desk \in [Desks -> DeskType]
    BY DEF O!TimePasses, OffersType
  <1>1. PICK out \in SUBSET O!LiveCoupons :
          coupon' = [c \in Coupons |-> IF c \in out THEN [coupon[c] EXCEPT !.expired = TRUE]
                                      ELSE coupon[c]]
    BY DEF O!TimePasses
  <1>2. PICK yes \in BOOLEAN : yes = TRUE
    OBVIOUS
  <1>3. ASSUME NEW c \in Coupons
        PROVE  /\ coupon'[c] \in CouponType /\ coupon'[c].status = coupon[c].status
               /\ coupon'[c].code = coupon[c].code /\ coupon'[c].type = coupon[c].type
               /\ coupon'[c].used_by = coupon[c].used_by
    <2>1. PICK z : z = [coupon[c] EXCEPT !.expired = yes]
      OBVIOUS
    <2>2. /\ z \in CouponType /\ z.status = coupon[c].status
          /\ z.code = coupon[c].code /\ z.type = coupon[c].type /\ z.used_by = coupon[c].used_by
      BY <1>0, <2>1 DEF CouponType
    <2>3. coupon'[c] = z \/ coupon'[c] = coupon[c]
      BY <1>1, <1>2, <2>1
    <2>. QED  BY <1>0, <2>2, <2>3
  <1>4. coupon' \in [Coupons -> CouponType]
    BY <1>1, <1>3
  <1>5. O!LiveCoupons' = O!LiveCoupons
    BY <1>3 DEF O!LiveCoupons
  <1>. QED  BY <1>0, <1>3, <1>4, <1>5, CouponsChanged

---------------------------------------------------------------------------
(* Coupons as customers use them.                                          *)

\* A coupon is shown: it is one of the app, or nobody has used it.
LEMMA CouponShown ==
  ASSUME OffersType, OffersInv, NEW u \in Customers, NEW c \in O!LiveCoupons,
         coupon[c].type = "in-app" \/ coupon[c].used_by = <<>>, O!Show(u, c),
         UNCHANGED <<coupon, pricing, period, desk, seen, blind, raced, edited>>
  PROVE  OffersType' /\ OffersInv'
  <1>0. UsesHold /\ CodesHold /\ PeriodsHold /\ c \in Coupons /\ coupon[c].status # "none"
        /\ shown \in [Customers -> SUBSET Coupons]
    BY DEF OffersInv, O!LiveCoupons, OffersType
  <1>1. /\ shown' \in [Customers -> SUBSET Coupons] /\ shown'[u] = shown[u] \cup {c}
        /\ \A x \in Customers \ {u} : shown'[x] = shown[x]
    BY <1>0 DEF O!Show
  <1>2. O!LiveCoupons' = O!LiveCoupons
    BY DEF O!LiveCoupons
  <1>3. CodesHold'
    <2>1. CodesStay
      BY <1>2 DEF CodesStay
    <2>. QED  BY <1>0, <2>1, CodesKept
  <1>4. PeriodsHold'
    BY <1>0, PeriodsAlone
  <1>5. UsesHold'
    <2>1. ASSUME NEW d \in O!LiveCoupons' \ edited'
          PROVE  /\ \A i \in DOMAIN coupon'[d].used_by :
                       coupon'[d].used_by[i] \in seen'[d] \/ <<coupon'[d].used_by[i], d>> \in blind'
                 /\ coupon'[d].used_by # <<>> =>
                      /\ coupon'[d].type = "one-time"
                      /\ \A x \in Customers : d \in shown'[x] => x \in seen'[d]
                 /\ \A x \in Customers : pricing'[x] # None /\ pricing'[x] = d => coupon'[d].type = "one-time"
      BY <1>0, <1>1, <1>2 DEF UsesHold
    <2>2. \A x \in Customers : pricing'[x] # None =>
             /\ pricing'[x] \in shown'[x] \/ <<x, pricing'[x]>> \in blind'
             /\ coupon'[pricing'[x]].status # "none"
      BY <1>0, <1>1 DEF UsesHold
    <2>3. \A x \in Customers : \A d \in shown'[x] : coupon'[d].status # "none"
      BY <1>0, <1>1 DEF UsesHold
    <2>. QED  BY <2>1, <2>2, <2>3 DEF UsesHold
  <1>6. OffersType'
    BY <1>1 DEF OffersType
  <1>. QED  BY <1>3, <1>4, <1>5, <1>6 DEF OffersInv

LEMMA CouponOffered ==
  ASSUME OffersType, OffersInv, NEW u \in Customers,
         \/ \E c \in Coupons : O!Available_coupons(u, c)
         \/ \E code \in Codes : O!ApplyPromoCode(u, code)
  PROVE  OffersType' /\ OffersInv'
  <1>1. ASSUME NEW c \in Coupons, O!Available_coupons(u, c) PROVE OffersType' /\ OffersInv'
    <2>1. /\ c \in O!LiveCoupons /\ coupon[c].type = "in-app" /\ O!Show(u, c)
          /\ UNCHANGED <<coupon, pricing, period, desk, seen, blind, raced, edited>>
      BY <1>1 DEF O!Available_coupons, O!LiveCoupons
    <2>. QED  BY <2>1, CouponShown
  <1>2. ASSUME NEW code \in Codes, O!ApplyPromoCode(u, code) PROVE OffersType' /\ OffersInv'
    <2>1. PICK F : F = {c \in O!LiveCoupons : /\ coupon[c].code = code
                                              /\ coupon[c].type = "one-time"
                                              /\ coupon[c].used_by = <<>>}
      OBVIOUS
    <2>2. F # {} /\ O!Show(u, O!Least(F))
          /\ UNCHANGED <<coupon, pricing, period, desk, seen, blind, raced, edited>>
      BY <1>2, <2>1 DEF O!ApplyPromoCode
    <2>3. F \subseteq Nat
      BY <2>1, OffersAssumption DEF O!LiveCoupons
    <2>4. PICK c \in F : c = O!Least(F)
      BY <2>2, <2>3, LeastIs
    <2>5. c \in O!LiveCoupons /\ coupon[c].used_by = <<>> /\ O!Show(u, c)
      BY <2>1, <2>2, <2>4
    <2>. QED  BY <2>2, <2>5, CouponShown
  <1>. QED  BY <1>1, <1>2

LEMMA CouponPriced ==
  ASSUME OffersType, OffersInv, NEW u \in Customers, NEW c \in Coupons, O!CalculateDiscount(u, c)
  PROVE  OffersType' /\ OffersInv'
  <1>0. /\ UNCHANGED <<coupon, shown, period, desk, seen, raced, edited>>
        /\ UsesHold /\ CodesHold /\ PeriodsHold /\ coupon[c].status # "none"
        /\ pricing \in [Customers -> Coupons \cup {None}] /\ blind \subseteq Customers \X Coupons
    BY DEF O!CalculateDiscount, OffersInv, OffersType
  <1>1. \/ pricing' = pricing /\ blind' = blind
        \/ /\ coupon[c].type = "one-time" /\ pricing' = [pricing EXCEPT ![u] = c]
           /\ blind' = IF c \in shown[u] THEN blind ELSE blind \cup {<<u, c>>}
    BY DEF O!CalculateDiscount
  <1>2. /\ pricing' \in [Customers -> Coupons \cup {None}]
        /\ blind \subseteq blind' /\ blind' \subseteq Customers \X Coupons
        /\ \A x \in Customers :
              \/ pricing'[x] = pricing[x]
              \/ /\ x = u /\ pricing'[x] = c /\ coupon[c].type = "one-time"
                 /\ c \in shown[x] \/ <<x, c>> \in blind'
    BY <1>0, <1>1
  <1>3. O!LiveCoupons' = O!LiveCoupons
    BY <1>0 DEF O!LiveCoupons
  <1>4. CodesHold'
    <2>1. CodesStay
      BY <1>0, <1>3 DEF CodesStay
    <2>. QED  BY <1>0, <2>1, CodesKept
  <1>5. PeriodsHold'
    BY <1>0, PeriodsAlone
  <1>6. UsesHold'
    <2>1. ASSUME NEW d \in O!LiveCoupons' \ edited'
          PROVE  /\ \A i \in DOMAIN coupon'[d].used_by :
                       coupon'[d].used_by[i] \in seen'[d] \/ <<coupon'[d].used_by[i], d>> \in blind'
                 /\ coupon'[d].used_by # <<>> =>
                      /\ coupon'[d].type = "one-time"
                      /\ \A x \in Customers : d \in shown'[x] => x \in seen'[d]
                 /\ \A x \in Customers : pricing'[x] # None /\ pricing'[x] = d => coupon'[d].type = "one-time"
      BY <1>0, <1>2, <1>3 DEF UsesHold
    <2>2. \A x \in Customers : pricing'[x] # None =>
             /\ pricing'[x] \in shown'[x] \/ <<x, pricing'[x]>> \in blind'
             /\ coupon'[pricing'[x]].status # "none"
      BY <1>0, <1>2 DEF UsesHold
    <2>3. \A x \in Customers : \A d \in shown'[x] : coupon'[d].status # "none"
      BY <1>0 DEF UsesHold
    <2>. QED  BY <2>1, <2>2, <2>3 DEF UsesHold
  <1>7. OffersType'
    BY <1>0, <1>2 DEF OffersType
  <1>. QED  BY <1>4, <1>5, <1>6, <1>7 DEF OffersInv

\* A coupon is used by somebody who had been shown it, or who named it blindly.
LEMMA CouponUsed ==
  ASSUME OffersType, OffersInv, NEW u \in Customers, O!PushUsedBy(u)
  PROVE  OffersType' /\ OffersInv'
  <1>0. /\ UNCHANGED <<shown, period, desk, blind, raced, edited>>
        /\ UsesHold /\ CodesHold /\ PeriodsHold /\ pricing[u] # None
        /\ coupon \in [Coupons -> CouponType] /\ shown \in [Customers -> SUBSET Coupons]
        /\ seen \in [Coupons -> SUBSET Customers] /\ pricing \in [Customers -> Coupons \cup {None}]
        /\ pricing' = [pricing EXCEPT ![u] = None]
    BY DEF O!PushUsedBy, OffersInv, OffersType
  <1>1. PICK c \in Coupons : c = pricing[u] /\ (c \in shown[u] \/ <<u, c>> \in blind)
    BY <1>0 DEF UsesHold
  <1>2. /\ pricing' \in [Customers -> Coupons \cup {None}]
        /\ \A x \in Customers : pricing'[x] # None => pricing'[x] = pricing[x] /\ x # u
    BY <1>0
  <1>3. PeriodsHold'
    BY <1>0, PeriodsAlone
  <1>4. CASE c \notin O!LiveCoupons
    <2>1. UNCHANGED <<coupon, seen>> /\ O!LiveCoupons' = O!LiveCoupons
      BY <1>1, <1>4 DEF O!PushUsedBy, O!LiveCoupons
    <2>2. CodesHold'
      <3>1. CodesStay
        BY <1>0, <2>1 DEF CodesStay
      <3>. QED  BY <1>0, <3>1, CodesKept
    <2>3. UsesHold'
      <3>1. \A x \in Customers : pricing'[x] # None =>
               /\ pricing'[x] \in shown'[x] \/ <<x, pricing'[x]>> \in blind'
               /\ coupon'[pricing'[x]].status # "none"
        BY <1>0, <1>2, <2>1 DEF UsesHold
      <3>2. ASSUME NEW d \in O!LiveCoupons' \ edited'
            PROVE  /\ \A i \in DOMAIN coupon'[d].used_by :
                         coupon'[d].used_by[i] \in seen'[d] \/ <<coupon'[d].used_by[i], d>> \in blind'
                   /\ coupon'[d].used_by # <<>> =>
                        /\ coupon'[d].type = "one-time"
                        /\ \A x \in Customers : d \in shown'[x] => x \in seen'[d]
                   /\ \A x \in Customers : pricing'[x] # None /\ pricing'[x] = d => coupon'[d].type = "one-time"
        BY <1>0, <1>2, <2>1 DEF UsesHold
      <3>3. \A x \in Customers : \A d \in shown'[x] : coupon'[d].status # "none"
        BY <1>0, <2>1 DEF UsesHold
      <3>. QED  BY <3>1, <3>2, <3>3 DEF UsesHold
    <2>4. OffersType'
      BY <1>0, <1>2, <2>1 DEF OffersType
    <2>. QED  BY <1>3, <2>2, <2>3, <2>4 DEF OffersInv
  <1>5. CASE c \in O!LiveCoupons
    <2>1. PICK s \in Seq(Customers), t \in Seq(Customers) : s = coupon[c].used_by /\ t = Append(s, u)
      <3>1. coupon[c].used_by \in Seq(Customers)
        BY <1>0 DEF CouponType
      <3>. QED  BY <3>1, Appended
    <2>2. /\ t # <<>> /\ \A i \in DOMAIN t : t[i] = u \/ (i \in DOMAIN s /\ t[i] = s[i])
      BY <2>1, Appended
    <2>3. PICK z : z = [coupon[c] EXCEPT !.used_by = t]
      OBVIOUS
    <2>4. /\ z \in CouponType /\ z.status = coupon[c].status /\ z.code = coupon[c].code
          /\ z.type = coupon[c].type /\ z.used_by = t
      BY <1>0, <2>3 DEF CouponType
    <2>5. coupon' = [coupon EXCEPT ![c] = z]
      BY <1>0, <1>1, <1>5, <2>1, <2>3 DEF O!PushUsedBy
    <2>6. /\ coupon' \in [Coupons -> CouponType] /\ coupon'[c] = z
          /\ \A d \in Coupons \ {c} : coupon'[d] = coupon[d]
      BY <1>0, <2>4, <2>5
    <2>7. O!LiveCoupons' = O!LiveCoupons /\ O!LiveCoupons \subseteq Coupons
      BY <2>4, <2>6 DEF O!LiveCoupons
    <2>8. seen' = IF s = <<>> THEN [seen EXCEPT ![c] = {x \in Customers : c \in shown[x]}] ELSE seen
      BY <1>1, <1>5, <2>1 DEF O!PushUsedBy
    <2>9. /\ seen' \in [Coupons -> SUBSET Customers]
          /\ s = <<>> => seen'[c] = {x \in Customers : c \in shown[x]}
          /\ s # <<>> => seen'[c] = seen[c]
          /\ \A d \in Coupons \ {c} : seen'[d] = seen[d]
      BY <1>0, <2>8
    <2>10. CodesHold'
      <3>1. CodesStay
        BY <1>0, <2>4, <2>6, <2>7 DEF CodesStay
      <3>. QED  BY <1>0, <3>1, CodesKept
    <2>11. ASSUME c \notin edited
           PROVE  /\ \A i \in DOMAIN t : t[i] \in seen'[c] \/ <<t[i], c>> \in blind
                  /\ z.type = "one-time"
                  /\ \A x \in Customers : c \in shown[x] => x \in seen'[c]
      <3>1. coupon[c].type = "one-time"
            /\ \A i \in DOMAIN s : s[i] \in seen[c] \/ <<s[i], c>> \in blind
        BY <1>0, <1>1, <1>5, <2>1, <2>11 DEF UsesHold
      <3>2. \A x \in Customers : c \in shown[x] => x \in seen'[c]
        BY <1>0, <1>5, <2>1, <2>9, <2>11 DEF UsesHold
      <3>3. \A i \in DOMAIN t : t[i] \in seen'[c] \/ <<t[i], c>> \in blind
        <4>1. CASE s = <<>>
          BY <1>1, <2>2, <3>2, <4>1
        <4>2. CASE s # <<>>
          BY <1>1, <2>2, <2>9, <3>1, <3>2, <4>2
        <4>. QED  BY <4>1, <4>2
      <3>. QED  BY <2>4, <3>1, <3>2, <3>3
    <2>12. ASSUME NEW d \in O!LiveCoupons' \ edited'
           PROVE  /\ \A i \in DOMAIN coupon'[d].used_by :
                        coupon'[d].used_by[i] \in seen'[d] \/ <<coupon'[d].used_by[i], d>> \in blind'
                  /\ coupon'[d].used_by # <<>> =>
                       /\ coupon'[d].type = "one-time"
                       /\ \A x \in Customers : d \in shown'[x] => x \in seen'[d]
                  /\ \A x \in Customers : pricing'[x] # None /\ pricing'[x] = d => coupon'[d].type = "one-time"
      <3>1. CASE d = c
        BY <1>0, <2>4, <2>6, <2>11, <3>1
      <3>2. CASE d # c
        <4>1. d \in O!LiveCoupons \ edited /\ coupon'[d] = coupon[d] /\ seen'[d] = seen[d]
          BY <1>0, <2>6, <2>7, <2>9, <3>2
        <4>. QED  BY <1>0, <1>2, <4>1 DEF UsesHold
      <3>. QED  BY <3>1, <3>2
    <2>13. \A x \in Customers : pricing'[x] # None =>
              /\ pricing'[x] \in shown'[x] \/ <<x, pricing'[x]>> \in blind'
              /\ coupon'[pricing'[x]].status # "none"
      <3>1. ASSUME NEW x \in Customers, pricing'[x] # None
            PROVE  /\ pricing[x] \in shown[x] \/ <<x, pricing[x]>> \in blind
                   /\ coupon[pricing[x]].status # "none"
                   /\ pricing'[x] = pricing[x] /\ pricing'[x] \in Coupons
        BY <1>0, <1>2, <3>1 DEF UsesHold
      <3>2. \A d \in Coupons : coupon[d].status # "none" => coupon'[d].status # "none"
        BY <2>4, <2>6
      <3>. QED  BY <1>0, <3>1, <3>2
    <2>14. \A x \in Customers : \A d \in shown'[x] : coupon'[d].status # "none"
      BY <1>0, <2>4, <2>6 DEF UsesHold
    <2>15. OffersType'
      BY <1>0, <1>2, <2>6, <2>9 DEF OffersType
    <2>16. UsesHold'
      BY <2>12, <2>13, <2>14 DEF UsesHold
    <2>. QED  BY <1>3, <2>10, <2>15, <2>16 DEF OffersInv
  <1>. QED  BY <1>4, <1>5

---------------------------------------------------------------------------
(* The requests about surcharge periods.                                   *)

\* What leaves the coupons and the requests for them alone.
LEMMA CouponsRest ==
  ASSUME OffersType, OffersInv, CouponsStay, edited \subseteq edited', raced \subseteq raced',
         desk' \in [Desks -> DeskType], period' \in [Periods -> O!PeriodType], PeriodsHold',
         \A b \in Desks : desk'[b].pc = "coupon" => desk[b].pc = "coupon" /\ desk'[b].code = desk[b].code
  PROVE  OffersType' /\ OffersInv'
  <1>1. UsesHold'
    BY CouponsAlone, UsesKept DEF OffersInv
  <1>2. CodesHold'
    BY CouponsAlone, CodesKept DEF OffersInv
  <1>3. OffersType'
    BY DEF OffersType, CouponsStay
  <1>. QED  BY <1>1, <1>2, <1>3 DEF OffersInv

LEMMA PeriodAsked ==
  ASSUME OffersType, OffersInv, NEW a \in Desks, NEW n \in O!Dated \cup O!ForVehicles,
         O!CreatePeriod(a, n)
  PROVE  OffersType' /\ OffersInv'
  <1>0. /\ UNCHANGED <<coupon, shown, pricing, period, seen, blind, edited>> /\ PeriodsHold
        /\ desk[a].pc = "idle" /\ desk \in [Desks -> DeskType] /\ period \in [Periods -> O!PeriodType]
        /\ CouponsStay /\ n \in O!PeriodType
    BY NewPeriodIs DEF O!CreatePeriod, OffersInv, O!Start, OffersType, CouponsStay
  <1>1. CASE UNCHANGED <<desk, raced>>
    <2>1. PeriodsHold'
      BY <1>0, <1>1, PeriodsAlone
    <2>. QED  BY <1>0, <1>1, <2>1, CouponsRest
  <1>2. CASE ~UNCHANGED <<desk, raced>>
    <2>1. /\ O!Clashes(n) = {}
          /\ O!Turn(a, [O!Quiet EXCEPT !.pc = "period", !.new = n])
          /\ raced' = IF \E b \in Desks : /\ desk[b].pc = "period"
                                          /\ O!Subject(desk[b].new) = O!Subject(n)
                      THEN raced \cup {O!Subject(n)} ELSE raced
      BY <1>2 DEF O!CreatePeriod
    <2>2. PICK j : j = [O!Quiet EXCEPT !.pc = "period", !.new = n]
      OBVIOUS
    <2>3. j \in DeskType /\ j.pc = "period" /\ j.new = n
      BY <1>0, <2>2, NoOfferIs DEF DeskType
    <2>4. O!Turn(a, j)
      BY <2>1, <2>2
    <2>5. desk' \in [Desks -> DeskType] /\ desk'[a] = j /\ \A b \in Desks \ {a} : desk'[b] = desk[b]
      BY <2>3, <2>4, DeskIs
    <2>6. raced \subseteq raced'
          /\ \A b \in Desks : desk[b].pc = "period" /\ O!Subject(desk[b].new) = O!Subject(n)
                                => O!Subject(n) \in raced'
      BY <2>1
    <2>7. /\ Unedited' = Unedited /\ Unedited \subseteq O!LivePeriods
          /\ \A q \in O!LivePeriods : ~Clash(period[q], n)
      BY <1>0, <2>1, ClashIs DEF Unedited, O!LivePeriods
    <2>8. ASSUME NEW p \in Unedited', NEW q \in Unedited', p # q, Clash(period'[p], period'[q])
          PROVE  O!Subject(period'[p]) \in raced'
      BY <1>0, <2>6, <2>7, <2>8 DEF PeriodsHold
    <2>9. ASSUME NEW b \in Desks, desk'[b].pc = "period", NEW q \in Unedited',
                 Clash(period'[q], desk'[b].new)
          PROVE  O!Subject(desk'[b].new) \in raced'
      BY <1>0, <2>3, <2>5, <2>6, <2>7, <2>9 DEF PeriodsHold
    <2>10. ASSUME NEW b \in Desks, NEW d \in Desks, b # d, desk'[b].pc = "period", desk'[d].pc = "period",
                  O!Subject(desk'[b].new) = O!Subject(desk'[d].new)
           PROVE  O!Subject(desk'[b].new) \in raced'
      BY <1>0, <2>3, <2>5, <2>6, <2>10 DEF PeriodsHold
    <2>11. \A p \in Periods : period'[p].live => period'[p].used
      BY <1>0 DEF PeriodsHold
    <2>12. PeriodsHold'
      BY <2>8, <2>9, <2>10, <2>11, PeriodsHoldThen
    <2>. QED  BY <1>0, <2>3, <2>5, <2>6, <2>12, CouponsRest
  <1>. QED  BY <1>1, <1>2

\* The period that is stored is a new one.
LEMMA PeriodStored ==
  ASSUME OffersType, OffersInv, NEW a \in Desks, O!StorePeriod(a)
  PROVE  OffersType' /\ OffersInv'
  <1>0. /\ UNCHANGED <<coupon, shown, pricing, seen, blind, raced, edited>> /\ PeriodsHold
        /\ desk[a].pc = "period" /\ O!Turn(a, O!Quiet) /\ desk[a] \in DeskType
        /\ period \in [Periods -> O!PeriodType] /\ CouponsStay
    BY DEF O!StorePeriod, OffersInv, OffersType, CouponsStay
  <1>1. PICK r \in Periods : r = O!Least({p \in Periods : ~period[p].used}) /\ ~period[r].used
    <2>1. {p \in Periods : ~period[p].used} \subseteq Nat /\ {p \in Periods : ~period[p].used} # {}
      BY OffersAssumption DEF O!StorePeriod
    <2>. QED  BY <2>1, LeastIs
  <1>2. PICK yes \in BOOLEAN : yes = TRUE
    OBVIOUS
  <1>3. PICK z : z = [desk[a].new EXCEPT !.live = yes, !.used = yes]
    OBVIOUS
  <1>4. /\ z \in O!PeriodType /\ z.live /\ z.used /\ z.type = desk[a].new.type
        /\ z.date = desk[a].new.date /\ z.span = desk[a].new.span /\ z.vehicle = desk[a].new.vehicle
    BY <1>0, <1>2, <1>3 DEF DeskType, O!PeriodType
  <1>5. period' = [period EXCEPT ![r] = z]
    BY <1>1, <1>2, <1>3 DEF O!StorePeriod
  <1>6. /\ period' \in [Periods -> O!PeriodType] /\ period'[r] = z
        /\ \A p \in Periods \ {r} : period'[p] = period[p]
    BY <1>0, <1>4, <1>5
  <1>7. /\ desk' \in [Desks -> DeskType] /\ desk'[a].pc = "idle"
        /\ \A b \in Desks \ {a} : desk'[b] = desk[b]
    BY <1>0, NoOfferIs, DeskIs
  <1>8. r \notin O!LivePeriods /\ O!LivePeriods' = O!LivePeriods \cup {r}
    BY <1>0, <1>1, <1>4, <1>6 DEF O!LivePeriods, PeriodsHold
  <1>9. \A p \in Unedited' : p = r \/ (p \in Unedited /\ p # r /\ period'[p] = period[p])
    BY <1>0, <1>6, <1>8 DEF Unedited, O!LivePeriods
  <1>10. \A x : (Clash(x, z) <=> Clash(x, desk[a].new)) /\ (Clash(z, x) <=> Clash(x, desk[a].new))
         /\ O!Subject(z) = O!Subject(desk[a].new)
    <2>1. \A x : Clash(x, z) <=> Clash(x, desk[a].new)
      BY <1>4 DEF Clash
    <2>2. O!Subject(z) = O!Subject(desk[a].new)
      BY <1>4 DEF O!Subject
    <2>. QED  BY <2>1, <2>2, ClashIs
  <1>11. ASSUME NEW q \in Unedited, Clash(period[q], desk[a].new) PROVE O!Subject(desk[a].new) \in raced
    BY <1>0, <1>11 DEF PeriodsHold
  <1>12. ASSUME NEW p \in Unedited', NEW q \in Unedited', p # q, Clash(period'[p], period'[q])
         PROVE  O!Subject(period'[p]) \in raced'
    <2>1. CASE p = r
      <3>1. q \in Unedited /\ period'[q] = period[q] /\ period'[p] = z
        BY <1>6, <1>9, <1>12, <2>1
      <3>2. Clash(period[q], desk[a].new)
        BY <1>10, <1>12, <3>1
      <3>. QED  BY <1>0, <1>10, <1>11, <3>1, <3>2
    <2>2. CASE q = r
      <3>1. p \in Unedited /\ period'[p] = period[p] /\ period'[q] = z
        BY <1>6, <1>9, <1>12, <2>2
      <3>2. Clash(period[p], desk[a].new)
        BY <1>10, <1>12, <3>1
      <3>3. O!Subject(period[p]) = O!Subject(desk[a].new)
        BY <3>2, ClashIs
      <3>. QED  BY <1>0, <1>11, <3>1, <3>2, <3>3
    <2>3. CASE p # r /\ q # r
      <3>1. p \in Unedited /\ period'[p] = period[p] /\ q \in Unedited /\ period'[q] = period[q]
        BY <1>9, <2>3
      <3>. QED  BY <1>0, <1>12, <3>1 DEF PeriodsHold
    <2>. QED  BY <2>1, <2>2, <2>3
  <1>13. ASSUME NEW b \in Desks, desk'[b].pc = "period", NEW q \in Unedited',
                Clash(period'[q], desk'[b].new)
         PROVE  O!Subject(desk'[b].new) \in raced'
    <2>1. b # a /\ desk'[b] = desk[b]
      BY <1>7, <1>13
    <2>2. CASE q = r
      <3>1. Clash(desk[b].new, desk[a].new)
        BY <1>6, <1>10, <1>13, <2>1, <2>2, ClashIs
      <3>2. O!Subject(desk[b].new) = O!Subject(desk[a].new)
        BY <3>1, ClashIs
      <3>. QED  BY <1>0, <1>13, <2>1, <3>2 DEF PeriodsHold
    <2>3. CASE q # r
      <3>1. q \in Unedited /\ period'[q] = period[q]
        BY <1>9, <2>3
      <3>. QED  BY <1>0, <1>13, <2>1, <3>1 DEF PeriodsHold
    <2>. QED  BY <2>2, <2>3
  <1>14. ASSUME NEW b \in Desks, NEW d \in Desks, b # d, desk'[b].pc = "period", desk'[d].pc = "period",
                O!Subject(desk'[b].new) = O!Subject(desk'[d].new)
         PROVE  O!Subject(desk'[b].new) \in raced'
    <2>1. b # a /\ d # a /\ desk'[b] = desk[b] /\ desk'[d] = desk[d]
      BY <1>7, <1>14
    <2>. QED  BY <1>0, <1>14, <2>1 DEF PeriodsHold
  <1>15. \A p \in Periods : period'[p].live => period'[p].used
    BY <1>0, <1>4, <1>6 DEF PeriodsHold
  <1>16. PeriodsHold'
    BY <1>12, <1>13, <1>14, <1>15, PeriodsHoldThen
  <1>17. \A b \in Desks : desk'[b].pc = "coupon" => desk[b].pc = "coupon" /\ desk'[b].code = desk[b].code
    BY <1>7
  <1>. QED  BY <1>0, <1>6, <1>7, <1>16, <1>17, CouponsRest

\* One period is edited or deleted, or none.
LEMMA PeriodChanged ==
  ASSUME OffersType, OffersInv, NEW p, CouponsStay, raced' = raced,
         UNCHANGED period \/ \E z \in O!PeriodType :
            /\ z.used /\ period' = [period EXCEPT ![p] = z] /\ (z.live => p \in edited'),
         edited \subseteq edited', desk' \in [Desks -> DeskType],
         \A b \in Desks : desk'[b].pc = "coupon" => desk[b].pc = "coupon" /\ desk'[b].code = desk[b].code,
         \A b \in Desks : desk'[b].pc = "period" => desk[b].pc = "period" /\ desk'[b].new = desk[b].new
  PROVE  OffersType' /\ OffersInv'
  <1>0. period \in [Periods -> O!PeriodType] /\ PeriodsHold
    BY DEF OffersType, OffersInv
  <1>1. CASE UNCHANGED period
    <2>1. PeriodsHold'
      BY <1>0, <1>1, PeriodsAlone
    <2>. QED  BY <1>0, <1>1, <2>1, CouponsRest
  <1>2. ASSUME NEW z \in O!PeriodType, z.used, period' = [period EXCEPT ![p] = z],
               z.live => p \in edited'
        PROVE  OffersType' /\ OffersInv'
    <2>1. /\ period' \in [Periods -> O!PeriodType]
          /\ \A q \in Periods : (q # p /\ period'[q] = period[q]) \/ (q = p /\ period'[q] = z)
      BY <1>0, <1>2
    <2>2. \A q \in Unedited' : q \in Periods /\ q # p /\ period'[q] = period[q]
      BY <1>2, <2>1 DEF Unedited, O!LivePeriods
    <2>3. \A q \in Unedited' : q \in Unedited
      BY <2>2 DEF Unedited, O!LivePeriods
    <2>4. \A q \in Periods : period'[q].live => period'[q].used
      BY <1>0, <1>2, <2>1 DEF PeriodsHold
    <2>5. PeriodsStay
      BY <2>2, <2>3, <2>4 DEF PeriodsStay
    <2>. QED  BY <1>0, <2>1, <2>5, PeriodsKept, CouponsRest
  <1>. QED  BY <1>1, <1>2

LEMMA PeriodEdited ==
  ASSUME OffersType, OffersInv, NEW p \in Periods, NEW n \in O!Dated \cup O!ForVehicles,
         O!EditPeriod(p, n)
  PROVE  OffersType' /\ OffersInv'
  <1>1. PICK yes \in BOOLEAN : yes = TRUE
    OBVIOUS
  <1>2. PICK z : z = [n EXCEPT !.live = yes, !.used = yes]
    OBVIOUS
  <1>3. z \in O!PeriodType /\ z.used
    BY <1>1, <1>2, NewPeriodIs DEF O!PeriodType
  <1>4. period' = [period EXCEPT ![p] = z] /\ edited' = edited \cup {p}
        /\ UNCHANGED <<desk, raced>> /\ CouponsStay
    BY <1>1, <1>2 DEF O!EditPeriod, CouponsStay
  <1>5. desk' \in [Desks -> DeskType]
    BY <1>4 DEF OffersType
  <1>. QED  BY <1>3, <1>4, <1>5, PeriodChanged

LEMMA DeletedIs ==
  \E z \in O!PeriodType : z.used /\ ~z.live /\ z = [O!NoPeriod EXCEPT !.used = TRUE]
  <1>1. PICK yes \in BOOLEAN : yes = TRUE
    OBVIOUS
  <1>2. PICK z : z = [O!NoPeriod EXCEPT !.used = yes]
    OBVIOUS
  <1>3. z \in O!PeriodType /\ z.used /\ ~z.live
    BY <1>1, <1>2, NoOfferIs DEF O!PeriodType
  <1>. QED  BY <1>1, <1>2, <1>3

LEMMA PeriodRemoved ==
  ASSUME OffersType, OffersInv, NEW p \in Periods, O!RemovePeriod(p)
  PROVE  OffersType' /\ OffersInv'
  <1>1. PICK z \in O!PeriodType : z.used /\ ~z.live /\ z = [O!NoPeriod EXCEPT !.used = TRUE]
    BY DeletedIs
  <1>2. period' = [period EXCEPT ![p] = z] /\ UNCHANGED <<desk, raced, edited>> /\ CouponsStay
    BY <1>1 DEF O!RemovePeriod, CouponsStay
  <1>3. desk' \in [Desks -> DeskType]
    BY <1>2 DEF OffersType
  <1>. QED  BY <1>1, <1>2, <1>3, PeriodChanged

LEMMA PeriodsListed ==
  ASSUME OffersType, OffersInv, NEW a \in Desks, O!ListPeriods(a)
  PROVE  OffersType' /\ OffersInv'
  <1>0. UNCHANGED <<period, raced, edited>> /\ CouponsStay
    BY DEF O!ListPeriods, CouponsStay
  <1>1. PICK L \in SUBSET Periods : L = {p \in O!LivePeriods : O!Past(p)}
    BY DEF O!LivePeriods
  <1>2. PICK j : j = [O!Quiet EXCEPT !.pc = "prune", !.left = L]
    OBVIOUS
  <1>3. j \in DeskType /\ j.pc = "prune"
    BY <1>2, NoOfferIs DEF DeskType
  <1>4. O!Turn(a, j)
    BY <1>1, <1>2 DEF O!ListPeriods
  <1>. QED  BY <1>0, <1>3, <1>4, DeskIs, DeskGoesOn, PeriodChanged

LEMMA PeriodPruned ==
  ASSUME OffersType, OffersInv, NEW a \in Desks, O!PrunePeriod(a)
  PROVE  OffersType' /\ OffersInv'
  <1>0. UNCHANGED <<raced, edited>> /\ CouponsStay /\ desk[a] \in DeskType /\ desk[a].pc = "prune"
    BY DEF O!PrunePeriod, CouponsStay, OffersType
  <1>1. CASE desk[a].left = {}
    <2>1. O!Turn(a, O!Quiet) /\ UNCHANGED period
      BY <1>1 DEF O!PrunePeriod
    <2>. QED  BY <1>0, <2>1, NoOfferIs, DeskIs, DeskGoesOn, PeriodChanged
  <1>2. CASE desk[a].left # {}
    <2>1. PICK p : p = O!Least(desk[a].left)
      OBVIOUS
    <2>2. PICK j : j = [desk[a] EXCEPT !.left = @ \ {p}]
      OBVIOUS
    <2>3. j \in DeskType /\ j.pc = "prune"
      BY <1>0, <2>2 DEF DeskType
    <2>4. PICK z \in O!PeriodType : z.used /\ ~z.live /\ z = [O!NoPeriod EXCEPT !.used = TRUE]
      BY DeletedIs
    <2>5. O!Turn(a, j) /\ period' = [period EXCEPT ![p] = z]
      BY <1>2, <2>1, <2>2, <2>4 DEF O!PrunePeriod
    <2>. QED  BY <1>0, <2>3, <2>4, <2>5, DeskIs, DeskGoesOn, PeriodChanged
  <1>. QED  BY <1>1, <1>2

---------------------------------------------------------------------------

LEMMA OffersStep == ASSUME OffersType, OffersInv, [O!Next]_(O!vars) PROVE OffersType' /\ OffersInv'
  <1>1. CASE O!CouponStep
    BY <1>1, CouponAsked, CouponStored, CouponEdited, CouponSwitched, CouponsListed, CouponLapsed,
       CouponOffered, CouponPriced, CouponUsed DEF O!CouponStep
  <1>2. CASE O!PeriodStep
    BY <1>2, PeriodAsked, PeriodStored, PeriodEdited, PeriodRemoved, PeriodsListed, PeriodPruned
       DEF O!PeriodStep
  <1>3. CASE O!TimePasses
    BY <1>3, CouponsRunOut
  <1>4. CASE UNCHANGED O!vars
    <2>1. UNCHANGED <<coupon, shown, pricing, period, desk, seen, blind, raced, edited>>
      BY <1>4 DEF O!vars
    <2>2. CouponsStay /\ desk' \in [Desks -> DeskType]
      BY <2>1 DEF CouponsStay, OffersType
    <2>. QED  BY <2>1, <2>2, PeriodChanged
  <1>. QED  BY <1>1, <1>2, <1>3, <1>4 DEF O!Next

LEMMA OffersDone == ASSUME OffersInv PROVE O!OffersHold
  <1>1. O!CouponOnce
    BY DEF OffersInv, UsesHold, CodesHold, O!CouponOnce
  <1>2. ASSUME NEW p \in Unedited, NEW q \in Unedited, p # q, q \in O!Clashes(period[p])
        PROVE  O!Subject(period[p]) \in raced
    <2>1. Clash(period[p], period[q])
      BY <1>2, ClashIs
    <2>. QED  BY <1>2, <2>1 DEF OffersInv, PeriodsHold
  <1>3. O!SurchargesApart
    BY <1>2 DEF O!SurchargesApart, Unedited
  <1>. QED  BY <1>1, <1>3 DEF O!OffersHold

LEMMA OffersStepIs == [WorldNext]_WorldVars => [O!Next]_(O!vars)
  <1>1. ASSUME WorldNext PROVE [O!Next]_(O!vars)
    BY <1>1 DEF WorldNext, StillOffers, O!vars, O!Next
  <1>. QED  BY <1>1 DEF WorldVars

\* Offers: a one-time coupon that was not edited is used, after its first use, by those only
\* who had been shown it before or who named it without that; two coupons have one code, and
\* two surcharge periods clash, only if their creates overlapped or one of them was edited -
\* for any number of requests.
THEOREM OffersAreKept == WorldSpec => []OffersHold
  <1>1. WorldInit => OffersType /\ OffersInv
    BY OffersInit DEF WorldInit
  <1>2. OffersType /\ OffersInv /\ [WorldNext]_WorldVars => OffersType' /\ OffersInv'
    BY OffersStepIs, OffersStep
  <1>3. OffersType /\ OffersInv => OffersHold
    BY OffersDone DEF OffersHold
  <1>. QED  BY <1>1, <1>2, <1>3, PTL DEF WorldSpec

OffersTypeInv == OffersType /\ OffersInv /\ hour \in 0 .. LastHour /\ made \in 0 .. MaxOffers

LEMMA OneTab ==
  ASSUME OffersType, NEW c \in O!LiveCoupons
  PROVE  O!Cardinality({t \in {O!AvailableInPhone, O!Shared, O!SharedUsed} : c \in t}) = 1
  <1>1. PICK T : T = {t \in {O!AvailableInPhone, O!Shared, O!SharedUsed} : c \in t}
    OBVIOUS
  <1>2. c \in Coupons /\ coupon[c].type \in O!Kinds
    BY DEF O!LiveCoupons, OffersType, CouponType
  <1>3. /\ c \in O!AvailableInPhone <=> coupon[c].type = "in-app"
        /\ c \in O!Shared <=> coupon[c].type = "one-time" /\ coupon[c].used_by = <<>>
        /\ c \in O!SharedUsed <=> coupon[c].type = "one-time" /\ coupon[c].used_by # <<>>
    BY DEF O!AvailableInPhone, O!Shared, O!SharedUsed
  <1>4. \E t : T = {t}
    <2>1. CASE coupon[c].type = "in-app"
      <3>1. T = {O!AvailableInPhone}
        BY <1>1, <1>3, <2>1
      <3>. QED  BY <3>1
    <2>2. CASE coupon[c].type = "one-time" /\ coupon[c].used_by = <<>>
      <3>1. T = {O!Shared}
        BY <1>1, <1>3, <2>2
      <3>. QED  BY <3>1
    <2>3. CASE coupon[c].type = "one-time" /\ coupon[c].used_by # <<>>
      <3>1. T = {O!SharedUsed}
        BY <1>1, <1>3, <2>3
      <3>. QED  BY <3>1
    <2>. QED  BY <1>2, <2>1, <2>2, <2>3 DEF O!Kinds
  <1>5. O!Cardinality(T) = Cardinality(T)
    BY DEF O!Cardinality, Cardinality
  <1>6. Cardinality(T) = 1
    BY <1>4, FS_Singleton
  <1>. QED  BY <1>1, <1>5, <1>6

LEMMA OffersTyped == OffersTypeInv => O!TypeOK
  <1>. SUFFICES ASSUME OffersTypeInv PROVE O!TypeOK
    OBVIOUS
  <1>1. \A c \in Coupons : coupon[c] \in CouponType
    BY DEF OffersTypeInv, OffersType
  <1>2. \A a \in Desks : desk[a] \in DeskType
    BY DEF OffersTypeInv, OffersType
  <1>3. \A c \in O!LiveCoupons :
          O!Cardinality({t \in {O!AvailableInPhone, O!Shared, O!SharedUsed} : c \in t}) = 1
    BY OneTab DEF OffersTypeInv
  <1>. QED  BY <1>1, <1>2, <1>3 DEF OffersTypeInv, OffersType, CouponType, DeskType, O!TypeOK

LEMMA OffersClock ==
  ASSUME hour \in 0 .. LastHour, made \in 0 .. MaxOffers, [O!Next]_(O!vars)
  PROVE  hour' \in 0 .. LastHour /\ made' \in 0 .. MaxOffers
  <1>0. LastHour \in Nat /\ MaxOffers \in Nat
    BY OffersAssumption
  <1>1. UNCHANGED hour \/ (hour < LastHour /\ hour' = hour + 1)
    BY DEF O!Next, O!vars, O!CouponStep, O!PeriodStep, O!TimePasses, O!CreateCoupon, O!StoreCoupon,
           O!ListCoupons, O!LapseCoupon, O!EditCoupon, O!RemoveCoupon, O!SwitchCoupon,
           O!Available_coupons, O!CalculateDiscount, O!ApplyPromoCode, O!PushUsedBy,
           O!CreatePeriod, O!StorePeriod, O!ListPeriods, O!PrunePeriod, O!EditPeriod, O!RemovePeriod
  <1>2. UNCHANGED made \/ (made < MaxOffers /\ made' = made + 1)
    BY DEF O!Next, O!vars, O!CouponStep, O!PeriodStep, O!TimePasses, O!CreateCoupon, O!StoreCoupon,
           O!ListCoupons, O!LapseCoupon, O!EditCoupon, O!RemoveCoupon, O!SwitchCoupon,
           O!Available_coupons, O!CalculateDiscount, O!ApplyPromoCode, O!PushUsedBy,
           O!CreatePeriod, O!StorePeriod, O!ListPeriods, O!PrunePeriod, O!EditPeriod, O!RemovePeriod,
           O!Start, O!Ask
  <1>. QED  BY <1>0, <1>1, <1>2

LEMMA OffersTypeAlways == WorldSpec => []OffersTypeInv
  <1>1. WorldInit => OffersTypeInv
    BY OffersInit, OffersAssumption DEF WorldInit, OffersTypeInv, O!Init
  <1>2. OffersTypeInv /\ [WorldNext]_WorldVars => OffersTypeInv'
    BY OffersStepIs, OffersStep, OffersClock DEF OffersTypeInv
  <1>. QED  BY <1>1, <1>2, PTL DEF WorldSpec

-----------------------------------------------------------------------------
(* The types of everything MCAccounts puts side by side.                   *)

\* The sessions, accounts, chats, coupons, bookings, reviews and messages keep the shapes
\* their schemas give them, and a coupon is in one tab of the list.
THEOREM AccountsTyped == WorldSpec => []AccountsTypeOK
  <1>1. SessionInv /\ D!TypeOK /\ C!TypeOK /\ OffersTypeInv /\ OrdersInv /\ RatedInv
          /\ MessagesType /\ world \in Worlds => AccountsTypeOK
    BY OffersTyped, OrdersTyped, RecordsTyped
       DEF AccountsTypeOK, Worlds, SessionInv, MessagesType, OrdersInv
  <1>2. WorldSpec => []SessionInv
    BY SessionInit, SessionStep, SessionInvStep, PTL DEF WorldSpec
  <1>3. WorldSpec => []D!TypeOK
    BY DriverTypeInit, DriverStepIs, DriverTypeStep, PTL DEF WorldSpec
  <1>4. WorldSpec => []C!TypeOK
    BY ChatTypeInit, ChatStepIs, ChatTypeStep, PTL DEF WorldSpec
  <1>5. WorldSpec => []OrdersInv
    <2>1. OrdersInv /\ [WorldNext]_WorldVars => OrdersInv'
      BY OrdersStepIs, OrdersStep
    <2>. QED  BY <2>1, OrdersInit, PTL DEF WorldSpec
  <1>6. WorldSpec => []MessagesType
    <2>1. WorldInit => MessagesType
      BY MessagesInit
    <2>. QED  BY <2>1, MessagesStep, MessagesTypeStep, PTL DEF WorldSpec
  <1>7. WorldSpec => [](world \in Worlds)
    <2>1. WorldInit => world \in Worlds
      BY DEF WorldInit
    <2>2. world \in Worlds /\ [WorldNext]_WorldVars => (world \in Worlds)'
      BY DEF WorldNext, WorldVars
    <2>. QED  BY <2>1, <2>2, PTL DEF WorldSpec
  <1>. QED  BY <1>1, <1>2, <1>3, <1>4, <1>5, <1>6, <1>7, OffersTypeAlways, RatedAlways, PTL
=============================================================================
