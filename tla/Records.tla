------------------------------ MODULE Records ------------------------------
(***************************************************************************)
(* Reviews (review.service.ts) and the records that are looked for before  *)
(* they are created: companies, complaints, cards, vehicle prices and IP   *)
(* addresses.  Requests run in handlers, one action per database call.     *)
(* The reviews are those of one driver and one customer; the cards are     *)
(* those of one customer.                                                  *)
(***************************************************************************)
EXTENDS Naturals, FiniteSets, Sequences, Sums

CONSTANTS
  Rides,      \* bookings that are reviewed
  Rates,      \* the rates a review may give
  Ids,        \* the records that may be created, in order
  Keys,       \* what a record is looked for by
  Capitals,   \* keys that are e-mails with capital letters in them
  Dials,      \* phone numbers of companies
  Taken,      \* contacts customers and drivers have
  Clerks,     \* handlers
  MaxCalls,   \* bound: requests made
  None

VARIABLES
  reviews,    \* the reviews of the driver and of the customer, oldest first
  rated,      \* by booking and party: rate_by_customer (of the driver), rate_by_driver
  rating,     \* ratings of the two documents, in tenths
  record,     \* the records
  card_added, \* is_card_added of the customer
  clerk,      \* the handlers
  calls,      \* requests made
  counted,    \* the most reviews that made up a rating that was written
  overtaken,  \* parties a rating of fewer reviews was written for last
  raced,      \* what two creates that overlapped looked for
  edited      \* records whose key was edited

vars == <<reviews, rated, rating, record, card_added, clerk, calls, counted,
          overtaken, raced, edited>>

Parties == {"driver", "customer"}
Kinds == {"company", "complaint", "card", "vehicle", "address"}

NoRecord == [kind |-> None, key |-> None, phone |-> None]
Free == [pc |-> "idle", party |-> None, ride |-> None, kind |-> None, key |-> None,
         phone |-> None, read |-> <<>>]

Ask == calls < MaxCalls /\ calls' = calls + 1
Start(k) == clerk[k].pc = "idle" /\ Ask
Turn(k, j) == clerk' = [clerk EXCEPT ![k] = j]
Goto(k, pc) == clerk' = [clerk EXCEPT ![k].pc = pc]

---------------------------------------------------------------------------
(* Reviews.                                                                *)

Total(rs) == SumTo([i \in DOMAIN rs |-> rs[i].rate], Len(rs))

\* the mean with one decimal, as toFixed(1) rounds it
Average(rs) == (20 * Total(rs) + Len(rs)) \div (2 * Len(rs))

\* findAll, first page: the rating it shows is that of the reviews on the page
Page(p, limit) ==
  LET n == Len(reviews[p]) IN SubSeq(reviews[p], IF limit < n THEN n - limit + 1 ELSE 1, n)
Overall(p, limit) == IF reviews[p] = <<>> THEN None ELSE Average(Page(p, limit))

\* create: who took part may review a booking again and again
CreateReview(k, b, p, rate) ==
  /\ Start(k)
  /\ reviews' = [reviews EXCEPT ![p] = Append(@, [ride |-> b, rate |-> rate])]
  /\ Turn(k, [Free EXCEPT !.pc = "mark", !.party = p, !.ride = b])
  /\ UNCHANGED <<rated, rating, record, card_added, counted, overtaken, raced, edited>>

MarkRated(k) ==
  /\ clerk[k].pc = "mark"
  /\ rated' = [rated EXCEPT ![clerk[k].ride][clerk[k].party] = TRUE]
  /\ Goto(k, "read")
  /\ UNCHANGED <<reviews, rating, record, card_added, calls, counted, overtaken, raced, edited>>

\* Mutant: only a page of the reviews is read, as for the list
ReadPage(k) ==
  /\ clerk[k].pc = "read"
  /\ Turn(k, [clerk[k] EXCEPT !.pc = "write", !.read = Page(clerk[k].party, 1)])
  /\ UNCHANGED <<reviews, rated, rating, record, card_added, calls, counted, overtaken,
                 raced, edited>>

\* update_rating reads every review of the party ...
ReadReviews(k) ==
  /\ clerk[k].pc = "read"
  /\ Turn(k, [clerk[k] EXCEPT !.pc = "write", !.read = reviews[clerk[k].party]])
  /\ UNCHANGED <<reviews, rated, rating, record, card_added, calls, counted, overtaken,
                 raced, edited>>

\* ... and writes their mean, whatever has been written meanwhile
WriteRating(k) ==
  /\ clerk[k].pc = "write"
  /\ LET p == clerk[k].party
         n == Len(clerk[k].read)
     IN  /\ rating' = [rating EXCEPT ![p] = Average(clerk[k].read)]
         /\ counted' = [counted EXCEPT ![p] = IF n > @ THEN n ELSE @]
         /\ overtaken' = IF n < counted[p] THEN overtaken \cup {p} ELSE overtaken \ {p}
  /\ Turn(k, Free)
  /\ UNCHANGED <<reviews, rated, record, card_added, calls, raced, edited>>

ReviewStep ==
  \E k \in Clerks :
    \/ \E b \in Rides, p \in Parties, rate \in Rates : CreateReview(k, b, p, rate)
    \/ MarkRated(k)
    \/ ReadReviews(k)
    \/ WriteRating(k)

---------------------------------------------------------------------------
(* Records that are looked for and then created.                           *)

Live == {r \in Ids : record[r].kind # None}
Of(kind) == {r \in Live : record[r].kind = kind}
Found(kind, key) == \E r \in Of(kind) : record[r].key = key

\* what a create looks for, of those under way and of this one
Sought(kind, key, phone) == {<<kind, key>>, <<kind, phone>>} \ {<<kind, None>>}
Overlap(kind, key, phone) ==
  UNION {Sought(kind, key, phone) \cap Sought(clerk[j].kind, clerk[j].key, clerk[j].phone) :
           j \in {c \in Clerks : clerk[c].kind = kind}}

Seek(k, kind, key, phone, pc) ==
  /\ Turn(k, [Free EXCEPT !.pc = pc, !.kind = kind, !.key = key, !.phone = phone])
  /\ raced' = raced \cup Overlap(kind, key, phone)

Create(k, kind, key, phone, refused, pc) ==
  /\ Start(k)
  /\ IF refused THEN UNCHANGED <<clerk, raced>> ELSE Seek(k, kind, key, phone, pc)
  /\ UNCHANGED <<reviews, rated, rating, record, card_added, counted, overtaken, edited>>

\* company: contacts of customers, of drivers and then e-mails of companies; the e-mail
\* is looked for in lower case, and stored as it was given ...
Lower(email) == IF email \in Capitals THEN CHOOSE k \in Keys \ Capitals : TRUE ELSE email
CreateCompany(k, email, phone) ==
  Create(k, "company", email, phone,
         {Lower(email), phone} \cap Taken # {} \/ Found("company", Lower(email)), "phone")

\* ... and then their numbers
CompanyNumber(k) ==
  /\ clerk[k].pc = "phone"
  /\ IF \E r \in Of("company") : record[r].phone = clerk[k].phone
     THEN Turn(k, Free) ELSE Goto(k, "store")
  /\ UNCHANGED <<reviews, rated, rating, record, card_added, calls, counted, overtaken,
                 raced, edited>>

\* complaint: one for a booking
CreateComplaint(k, booking) ==
  Create(k, "complaint", booking, None, Found("complaint", booking), "store")

\* card: one with this number is updated in place, its number stays
CreateCard(k, card_no) ==
  Create(k, "card", card_no, None, Found("card", card_no), "flag")

CardAdded(k) ==
  /\ clerk[k].pc = "flag"
  /\ card_added' = TRUE
  /\ Goto(k, "store")
  /\ UNCHANGED <<reviews, rated, rating, record, calls, counted, overtaken, raced, edited>>

\* vehicle prices: one record for a vehicle type
CreateVehicle(k, vehicle_id) ==
  Create(k, "vehicle", vehicle_id, None, Found("vehicle", vehicle_id), "store")

\* IP address: the trimmed address
CreateAddress(k, address) ==
  Create(k, "address", address, None, Found("address", address), "store")

\* the last call of each of them
Store(k) ==
  /\ clerk[k].pc = "store"
  /\ \E r \in Ids \ Live :
       /\ \A q \in Ids \ Live : r <= q
       /\ record' = [record EXCEPT ![r] = [kind |-> clerk[k].kind, key |-> clerk[k].key,
                                           phone |-> clerk[k].phone]]
       /\ edited' = edited \ {r}
  /\ Turn(k, Free)
  /\ UNCHANGED <<reviews, rated, rating, card_added, calls, counted, overtaken, raced>>

\* an update asks for no other record
Update(kind, r, key, phone) ==
  /\ r \in Of(kind)
  /\ Ask
  /\ record' = [record EXCEPT ![r].key = key, ![r].phone = phone]
  /\ edited' = edited \cup {r}
  /\ UNCHANGED <<reviews, rated, rating, card_added, clerk, counted, overtaken, raced>>

UpdateCompany(r, email, phone) == Update("company", r, email, phone)
UpdateCard(r, card_no) == Update("card", r, card_no, None)
UpdateVehicle(r, vehicle_id) == Update("vehicle", r, vehicle_id, None)
UpdateAddress(r, address) == Update("address", r, address, None)

Erase(kind, r) ==
  /\ r \in Of(kind)
  /\ Ask
  /\ record' = [record EXCEPT ![r] = NoRecord]
  /\ edited' = edited \ {r}
  /\ UNCHANGED <<reviews, rated, rating, card_added, clerk, counted, overtaken, raced>>

RemoveCompany(r) == Erase("company", r)
\* the customer's is_card_added stays
RemoveCard(r) == Erase("card", r)
RemoveVehicle(r) == Erase("vehicle", r)
RemoveAddress(r) == Erase("address", r)

RegistryStep ==
  \/ \E k \in Clerks :
       \/ \E email \in Keys, phone \in Dials : CreateCompany(k, email, phone)
       \/ \E key \in Keys :
            \/ CreateComplaint(k, key)
            \/ CreateCard(k, key)
            \/ CreateVehicle(k, key)
            \/ CreateAddress(k, key)
       \/ CompanyNumber(k)
       \/ CardAdded(k)
       \/ Store(k)
  \/ \E r \in Ids :
       \/ \E key \in Keys :
            \/ \E phone \in Dials : UpdateCompany(r, key, phone)
            \/ UpdateCard(r, key)
            \/ UpdateVehicle(r, key)
            \/ UpdateAddress(r, key)
       \/ RemoveCompany(r)
       \/ RemoveCard(r)
       \/ RemoveVehicle(r)
       \/ RemoveAddress(r)

---------------------------------------------------------------------------
Init ==
  /\ reviews = [p \in Parties |-> <<>>]
  /\ rated = [b \in Rides |-> [p \in Parties |-> FALSE]]
  /\ rating = [p \in Parties |-> 0]
  /\ record = [r \in Ids |-> NoRecord]
  /\ card_added = FALSE
  /\ clerk = [k \in Clerks |-> Free]
  /\ calls = 0
  /\ counted = [p \in Parties |-> 0]
  /\ overtaken = {}
  /\ raced = {}
  /\ edited = {}

Next == ReviewStep \/ RegistryStep

Spec == Init /\ [][Next]_vars

---------------------------------------------------------------------------
Review == [ride : Rides, rate : Rates]

\* The types of the state.
TypeOK ==
  /\ \A p \in Parties : reviews[p] \in Seq(Review)
  /\ rated \in [Rides -> [Parties -> BOOLEAN]]
  /\ rating \in [Parties -> Nat]
  /\ record \in [Ids -> [kind : Kinds \cup {None}, key : Keys \cup {None},
                         phone : Dials \cup {None}]]
  /\ card_added \in BOOLEAN
  /\ \A k \in Clerks : clerk[k].pc \in {"idle", "mark", "read", "write", "phone", "flag", "store"}
  /\ calls \in 0 .. MaxCalls
  /\ counted \in [Parties -> Nat]
  /\ overtaken \subseteq Parties
  /\ edited \subseteq Live

Settled(p) == \A k \in Clerks : clerk[k].party # p

\* When no review of someone is under way, every booking reviewed is marked so and
\* no other is, and the rating of his profile is the one the list of all his reviews
\* shows - unless a handler that had read fewer reviews was the last to write.
RatingsHold ==
  \A p \in Parties : Settled(p) /\ reviews[p] # <<>> =>
    /\ \A b \in Rides :
         rated[b][p] <=> \E i \in DOMAIN reviews[p] : reviews[p][i].ride = b
    /\ p \notin overtaken => rating[p] = Overall(p, Len(reviews[p]))

\* Two records of a kind have the same key, or two companies the same number, only if
\* their creates overlapped or one of them was edited - or the key is an e-mail with
\* capital letters, which is never found again.
KeysHold ==
  \A r, q \in Live : r # q /\ record[r].kind = record[q].kind =>
    LET common == Sought(record[r].kind, record[r].key, record[r].phone)
                    \cap Sought(record[q].kind, record[q].key, record[q].phone)
    IN  \/ common \subseteq raced \cup ({"company"} \X Capitals)
        \/ {r, q} \cap edited # {}

\* A customer with a card is marked as having one.
CardsMarked == Of("card") # {} => card_added

RecordsHold == RatingsHold /\ KeysHold /\ CardsMarked
=============================================================================
