----------------------------- MODULE RideProofs -----------------------------
(***************************************************************************)
(* Proofs about Ride, for any fare, charges, free minutes and number of    *)
(* ticks and requests in flight: its type invariant, that the total adds   *)
(* up, that only a tick that had listed a ride charges it once it is over, *)
(* and that every moment of a ride is in one list of everybody.            *)
(***************************************************************************)
EXTENDS Ride, FiniteSetTheorems, TLAPS

\* What a request read, what a tick found in a list, and what each remembers.
LastType == [Stops -> 0 .. MaxTime + 1]
AmountsType == [total : Int, stop : Int, last : LastType, tip : Tips]
StageType == Open \cup {"accepted", "completed", "cancelled"}
DocType ==
    [total : Int, stop : Int, last : LastType, tip : Tips, trip : {Fare},
     stage : StageType, driver : BOOLEAN, at : Times \cup {None}, told : BOOLEAN]
WritePCs == {"complete", "tip", "info", "update"}
PCs == Waits \cup WritePCs \cup {"idle", "status", "list", "list1", "list2", "charge"}
ProcType ==
    [pc : PCs, doc : AmountsType \cup {None}, amount : Int,
     to : Statuses \cup {None}, seen : [Waits -> DocType \cup {None}], now : Times]

\* A write has what it was computed from; a tick that looks at a place found the
\* booking there, and one that charges has seen a time of arrival long enough ago;
\* the list of the pickup has accepted bookings only.
ProcOK(r) ==
    /\ r \in ProcType
    /\ r.pc = "status" => r.to \in Statuses
    /\ r.pc \in WritePCs => r.doc \in AmountsType
    /\ r.pc = "info" => r.amount \in Tips
    /\ r.pc \in Waits => r.seen[r.pc] \in DocType \ {None}
    /\ r.pc = "charge" =>
          /\ r.to \in Waits /\ r.seen[r.to] \in DocType \ {None}
          /\ r.seen[r.to].at \in Times /\ r.now - r.seen[r.to].at >= Free(r.to)
    /\ r.seen["reached_at_pickup"] # None =>
          r.seen["reached_at_pickup"].stage = "accepted"

ProcsOK ==
    /\ proc = [p \in Procs |-> proc[p]]
    /\ \A p \in Procs : ProcOK(proc[p])

TypeInv == RideTypeOK /\ ProcsOK /\ extra \in Int

-----------------------------------------------------------------------------
(* The processes.                                                           *)

LEMMA FreeType == \A w : Free(w) \in Nat
  BY RideAssumption DEF Free

LEMMA SetProc ==
  ASSUME ProcsOK, NEW p \in Procs, NEW r, ProcOK(r), proc' = [proc EXCEPT ![p] = r]
  PROVE  ProcsOK'
  <1>1. proc' = [q \in Procs |-> proc'[q]]
    BY DEF ProcsOK
  <1>2. \A q \in Procs : proc'[q] = IF q = p THEN r ELSE proc[q]
    BY DEF ProcsOK
  <1>3. \A q \in Procs : ProcOK(proc'[q])
    BY <1>2 DEF ProcsOK
  <1>. QED  BY <1>1, <1>3 DEF ProcsOK, ProcOK

LEMMA KeepProcs ==
  ASSUME ProcsOK, UNCHANGED proc
  PROVE  ProcsOK'
  BY DEF ProcsOK, ProcOK

LEMMA IdleOK == ProcOK(Idle)
  <1>1. 0 \in Times /\ [w \in Waits |-> None] \in [Waits -> DocType \cup {None}]
    BY RideAssumption DEF Times
  <1>2. Idle \in ProcType
    BY <1>1 DEF Idle, ProcType, PCs
  <1>. QED  BY <1>2 DEF ProcOK, Idle, WritePCs, Waits

LEMMA EndOK ==
  ASSUME ProcsOK, NEW p \in Procs, End(p)
  PROVE  ProcsOK'
  BY IdleOK, SetProc DEF End

LEMMA FirstFound ==
  ASSUME NEW seen \in [Waits -> DocType \cup {None}]
  PROVE  /\ FirstOf(seen) \in Waits \cup {"idle"}
         /\ FirstOf(seen) \in Waits => seen[FirstOf(seen)] \in DocType \ {None}
  BY DEF FirstOf, Waits

LEMMA ContinueOK ==
  ASSUME ProcsOK, NEW p \in Procs, NEW w \in Waits, Continue(p, w)
  PROVE  ProcsOK'
  <1>. DEFINE seen == [proc[p].seen EXCEPT ![w] = None]
              r == [Idle EXCEPT !.pc = FirstOf(seen), !.seen = seen]
  <1>1. ProcOK(proc[p]) /\ proc[p] \in ProcType
    BY DEF ProcsOK, ProcOK
  <1>2. seen \in [Waits -> DocType \cup {None}]
    BY <1>1 DEF ProcType
  <1>3. \A v \in Waits : seen[v] # None => seen[v] = proc[p].seen[v]
    BY <1>1 DEF ProcType
  <1>4. /\ FirstOf(seen) \in Waits \cup {"idle"}
        /\ FirstOf(seen) \in Waits => seen[FirstOf(seen)] \in DocType \ {None}
    BY <1>2, FirstFound
  <1>5. "reached_at_pickup" \in Waits
    BY DEF Waits
  <1>. HIDE DEF seen
  <1>6. r \in ProcType
    BY <1>2, <1>4, IdleOK DEF ProcOK, ProcType, PCs, Idle
  <1>7. r.pc = FirstOf(seen) /\ r.seen = seen
    BY DEF Idle
  <1>8. ProcOK(r)
    BY <1>1, <1>3, <1>4, <1>5, <1>6, <1>7 DEF ProcOK, WritePCs, Waits
  <1>9. proc' = [proc EXCEPT ![p] = r]
    BY DEF Continue, seen
  <1>. QED  BY <1>8, <1>9, SetProc

-----------------------------------------------------------------------------
LEMMA InitType == Init => TypeInv
  <1>. SUFFICES ASSUME Init PROVE TypeInv
    OBVIOUS
  <1>1. ProcsOK
    BY IdleOK DEF Init, ProcsOK
  <1>2. 0 \in Times /\ 0 \in 0 .. MaxRequests /\ 0 \in 0 .. MaxTime + 1
    BY RideAssumption DEF Times
  <1>3. Fare \in Int
    BY RideAssumption
  <1>4. Taken \in BookingType
    BY <1>2, <1>3 DEF Taken, BookingType, Tips
  <1>. QED  BY <1>1, <1>2, <1>4 DEF Init, TypeInv, RideTypeOK

LEMMA AmountsOK == RideTypeOK => Amounts \in AmountsType
  BY DEF RideTypeOK, BookingType, Amounts, AmountsType, LastType

LEMMA ReadType ==
  ASSUME TypeInv, NEW p \in Procs, NEW pc \in WritePCs, NEW amount \in Int,
         Read(p, pc, amount), pc = "info" => amount \in Tips
  PROVE  TypeInv'
  <1>. DEFINE r == [Idle EXCEPT !.pc = pc, !.doc = Amounts, !.amount = amount]
  <1>1. Amounts \in AmountsType
    BY AmountsOK DEF TypeInv
  <1>2. r \in ProcType
    BY <1>1, IdleOK DEF ProcOK, ProcType, PCs, Idle
  <1>3. r.pc = pc /\ r.doc = Amounts /\ r.amount = amount /\ r.seen = Idle.seen
    BY DEF Idle
  <1>4. ProcOK(r)
    BY <1>1, <1>2, <1>3, IdleOK DEF ProcOK, WritePCs, Waits
  <1>5. ProcsOK'
    BY <1>4, SetProc DEF Read, TypeInv
  <1>6. requests' \in 0 .. MaxRequests
    BY RideAssumption DEF Read, TypeInv, RideTypeOK
  <1>. QED  BY <1>5, <1>6 DEF Read, TypeInv, RideTypeOK, history

LEMMA RequestType ==
  ASSUME TypeInv, NEW p \in Procs,
         \/ RideCompleted(p) \/ Update(p) \/ AddTip(p)
         \/ \E tip \in Tips : UpdateBookingInfo(p, tip)
  PROVE  TypeInv'
  <1>1. Toll \in Int /\ NewPrice \in Int /\ 1 \in Int /\ \A tip \in Tips : tip \in Int
    BY RideAssumption DEF Toll, NewPrice, Tips
  <1>2. {"complete", "tip", "info", "update"} = WritePCs
    BY DEF WritePCs
  <1>3. CASE RideCompleted(p) \/ Update(p) \/ AddTip(p)
    BY <1>1, <1>2, <1>3, ReadType DEF RideCompleted, Update, AddTip
  <1>4. ASSUME NEW tip \in Tips, UpdateBookingInfo(p, tip)
        PROVE  TypeInv'
    BY <1>1, <1>2, <1>4, ReadType DEF UpdateBookingInfo
  <1>. QED  BY <1>3, <1>4

LEMMA StatusType ==
  ASSUME TypeInv, NEW p \in Procs, NEW s \in Statuses, RideStatus(p, s)
  PROVE  TypeInv'
  <1>. DEFINE r == [Idle EXCEPT !.pc = "status", !.to = s]
  <1>1. r \in ProcType
    BY IdleOK DEF ProcOK, ProcType, PCs, Idle
  <1>2. ProcOK(r)
    BY <1>1, IdleOK DEF ProcOK, Idle, WritePCs, Waits
  <1>3. ProcsOK'
    BY <1>2, SetProc DEF RideStatus, TypeInv
  <1>4. requests' \in 0 .. MaxRequests
    BY RideAssumption DEF RideStatus, TypeInv, RideTypeOK
  <1>. QED  BY <1>3, <1>4 DEF RideStatus, TypeInv, RideTypeOK, history

\* What the steps of a ride and its charges do to the booking's document.
LEMMA BookingUpdates ==
  ASSUME booking \in BookingType
  PROVE  /\ \A x \in Int : [booking EXCEPT !.total = x] \in BookingType
         /\ \A x \in Int, y \in Tips :
               [booking EXCEPT !.tip = y, !.total = x] \in BookingType
         /\ \A x \in Int, y \in Int :
               [booking EXCEPT !.stop = y, !.total = x] \in BookingType
         /\ \A x \in Int, y \in Int, last \in LastType :
               [booking EXCEPT !.stop = y, !.total = x, !.last = last] \in BookingType
         /\ \A s \in Statuses, at \in [Waits -> Times \cup {None}] :
               [booking EXCEPT !.status = s, !.at = at] \in BookingType
         /\ \A x \in Int : [booking EXCEPT !.stage = "completed",
                               !.status = "ride_completed", !.total = x] \in BookingType
         /\ \A w \in Waits : [booking EXCEPT !.told = @ \cup {w}] \in BookingType
         /\ [booking EXCEPT !.stage = "cancelled"] \in BookingType
         /\ [booking EXCEPT !.stage = "request"] \in BookingType
  BY DEF BookingType, LastType, Statuses, Open

\* Taking a ride and giving it back.
LEMMA GiveAndTake ==
  ASSUME booking \in BookingType
  PROVE  /\ [booking EXCEPT !.stage = "accepted", !.driver = TRUE] \in BookingType
         /\ \A at \in [Waits -> Times \cup {None}] :
               [booking EXCEPT !.stage = "none", !.status = None, !.driver = FALSE,
                               !.at = at] \in BookingType
  <1>1. \A x \in BOOLEAN :
           [booking EXCEPT !.stage = "accepted", !.driver = x] \in BookingType
    BY DEF BookingType
  <1>2. \A x \in BOOLEAN, at \in [Waits -> Times \cup {None}] :
           [booking EXCEPT !.stage = "none", !.status = None, !.driver = x, !.at = at]
              \in BookingType
    BY DEF BookingType, Open
  <1>3. TRUE \in BOOLEAN /\ FALSE \in BOOLEAN
    OBVIOUS
  <1>. QED  BY <1>1, <1>2, <1>3

LEMMA CancelType ==
  ASSUME TypeInv, DriverCancel \/ Decline \/ Accept \/ CustomerCancel \/ TimePasses
  PROVE  TypeInv'
  <1>1. booking \in BookingType
    BY DEF TypeInv, RideTypeOK
  <1>2. booking' \in BookingType
    <2>1. CASE DriverCancel
      <3>. DEFINE at == [booking.at EXCEPT !["reached_at_pickup"] = None]
      <3>1. at \in [Waits -> Times \cup {None}]
        BY <1>1 DEF BookingType
      <3>2. booking' = [booking EXCEPT !.stage = "none", !.status = None,
                                       !.driver = FALSE, !.at = at]
        BY <1>1, <2>1 DEF DriverCancel, BookingType
      <3>. QED  BY <1>1, <3>1, <3>2, GiveAndTake
    <2>2. CASE Accept
      BY <1>1, <2>2, GiveAndTake DEF Accept
    <2>3. CASE CustomerCancel
      BY <1>1, <2>3, BookingUpdates DEF CustomerCancel
    <2>4. CASE TimePasses
      BY <1>1, <2>4 DEF TimePasses
    <2>5. CASE Decline
      BY <1>1, <2>5, BookingUpdates DEF Decline
    <2>. QED  BY <2>1, <2>2, <2>3, <2>4, <2>5
  <1>3. requests' \in 0 .. MaxRequests /\ clock' \in Times
    BY RideAssumption
       DEF DriverCancel, Decline, Accept, CustomerCancel, TimePasses, TypeInv, RideTypeOK,
           Times
  <1>4. UNCHANGED <<proc, tokens, history>>
    BY DEF DriverCancel, Decline, Accept, CustomerCancel, TimePasses
  <1>. QED  BY <1>2, <1>3, <1>4, KeepProcs DEF TypeInv, RideTypeOK, history

LEMMA WriteType ==
  ASSUME TypeInv, NEW p \in Procs,
         \/ WriteStatus(p) \/ WriteCompleted(p) \/ WriteTip(p) \/ WriteInfo(p)
         \/ WriteUpdate(p)
  PROVE  TypeInv'
  <1>1. booking \in BookingType /\ extra \in Int
    BY DEF TypeInv, RideTypeOK
  <1>2. ProcOK(proc[p]) /\ proc[p].amount \in Int
    BY DEF TypeInv, ProcsOK, ProcOK, ProcType
  <1>3. ProcsOK'
    BY EndOK DEF TypeInv, WriteStatus, WriteCompleted, WriteTip, WriteInfo, WriteUpdate
  <1>4. CASE WriteStatus(p)
    <2>. DEFINE s == proc[p].to
                at == IF s \in Waits THEN [booking.at EXCEPT ![s] = clock] ELSE booking.at
    <2>1. s \in Statuses
      BY <1>2, <1>4 DEF WriteStatus, At, ProcOK
    <2>2. at \in [Waits -> Times \cup {None}]
      BY <1>1 DEF BookingType, TypeInv, RideTypeOK
    <2>3. booking' = [booking EXCEPT !.status = s, !.at = at]
      BY <1>1, <1>4 DEF WriteStatus, BookingType
    <2>4. booking' \in BookingType
      <3>. HIDE DEF s, at
      <3>. QED  BY <1>1, <2>1, <2>2, <2>3, BookingUpdates
    <2>. QED  BY <1>3, <1>4, <2>4 DEF WriteStatus, TypeInv, RideTypeOK, history
  <1>5. ASSUME At(p, "complete") \/ At(p, "tip") \/ At(p, "info") \/ At(p, "update")
        PROVE  /\ proc[p].doc.total \in Int /\ proc[p].doc.tip \in Tips
               /\ proc[p].doc.tip \in Int
    BY <1>2, <1>5 DEF At, ProcOK, WritePCs, AmountsType, Tips
  <1>6. CASE WriteCompleted(p)
    <2>. DEFINE total == proc[p].doc.total + proc[p].amount
    <2>0. total \in Int
      BY <1>2, <1>5, <1>6 DEF WriteCompleted
    <2>1. booking' \in BookingType
      <3>1. booking' = [booking EXCEPT !.stage = "completed", !.status = "ride_completed",
                                       !.total = total]
        BY <1>6 DEF WriteCompleted
      <3>. HIDE DEF total
      <3>. QED  BY <1>1, <2>0, <3>1, BookingUpdates
    <2>2. extra' \in Int
      BY <1>1, <1>2, <1>6 DEF WriteCompleted
    <2>. QED  BY <1>3, <1>6, <2>1, <2>2
              DEF WriteCompleted, TypeInv, RideTypeOK, Overlap, Because
  <1>7. CASE WriteTip(p)
    <2>. DEFINE total == proc[p].doc.total + proc[p].amount
    <2>0. total \in Int
      BY <1>2, <1>5, <1>7 DEF WriteTip
    <2>1. booking' \in BookingType /\ extra' \in Int
      <3>1. /\ booking' = booking \/ booking' = [booking EXCEPT !.total = total]
            /\ extra' = extra \/ extra' = extra + proc[p].amount
        BY <1>7 DEF WriteTip, history
      <3>. HIDE DEF total
      <3>2. booking' \in BookingType
        BY <1>1, <2>0, <3>1, BookingUpdates
      <3>3. extra + proc[p].amount \in Int
        BY <1>1, <1>2
      <3>. QED  BY <1>1, <3>1, <3>2, <3>3
    <2>2. causes' \subseteq causes \cup {"overlap"}
      BY <1>7 DEF WriteTip, Overlap, Because, history
    <2>. QED  BY <1>3, <1>7, <2>1, <2>2 DEF WriteTip, TypeInv, RideTypeOK
  <1>8. CASE WriteInfo(p)
    <2>1. proc[p].amount \in Tips
      BY <1>2, <1>8 DEF WriteInfo, At, ProcOK
    <2>2. booking' \in BookingType
      <3>. DEFINE total == proc[p].doc.total - proc[p].doc.tip + proc[p].amount
      <3>1. total \in Int
        BY <1>2, <1>5, <1>8 DEF WriteInfo
      <3>2. booking' = [booking EXCEPT !.tip = proc[p].amount, !.total = total]
        BY <1>8 DEF WriteInfo
      <3>. HIDE DEF total
      <3>. QED  BY <1>1, <2>1, <3>1, <3>2, BookingUpdates
    <2>3. extra' \in Int
      BY <1>1, <1>2, <1>5, <1>8 DEF WriteInfo
    <2>. QED  BY <1>3, <1>8, <2>2, <2>3
              DEF WriteInfo, TypeInv, RideTypeOK, Overlap, Because
  <1>9. CASE WriteUpdate(p)
    <2>1. booking' \in BookingType
      BY <1>1, <1>2, <1>9, BookingUpdates DEF WriteUpdate
    <2>. QED  BY <1>1, <1>3, <1>9, <2>1 DEF WriteUpdate, TypeInv, RideTypeOK, Because
  <1>. QED  BY <1>4, <1>6, <1>7, <1>8, <1>9

-----------------------------------------------------------------------------
(* The ticks.                                                               *)

LEMMA ListType ==
  ASSUME TypeInv, NEW p \in Procs,
         TickStart(p) \/ \E w \in Waits : TickList(p, w)
  PROVE  TypeInv'
  <1>1. ProcOK(proc[p]) /\ proc[p] \in ProcType /\ booking \in BookingType
    BY DEF TypeInv, ProcsOK, ProcOK, RideTypeOK
  <1>2. CASE TickStart(p)
    <2>. DEFINE r == [proc[p] EXCEPT !.pc = "list"]
    <2>1. ProcOK(r)
      BY <1>1 DEF ProcOK, ProcType, PCs, WritePCs, Waits
    <2>2. proc' = [proc EXCEPT ![p] = r]
      BY <1>2 DEF TickStart, Goto
    <2>. QED  BY <1>2, <2>1, <2>2, SetProc DEF TickStart, TypeInv, RideTypeOK, history
  <1>3. ASSUME NEW w \in Waits, TickList(p, w)
        PROVE  TypeInv'
    <2>. DEFINE Doc(x) ==
                  [total |-> booking.total, stop |-> booking.stop, last |-> booking.last,
                   tip |-> booking.tip, trip |-> booking.trip, stage |-> booking.stage,
                   driver |-> booking.driver, at |-> booking.at[w], told |-> x]
                doc == Doc(w \in booking.told)
                found == IF InList(w) THEN doc ELSE None
                seen == [proc[p].seen EXCEPT ![w] = found]
                r == [proc[p] EXCEPT !.pc = AfterList(w, seen), !.seen = seen]
    <2>1. doc \in DocType
      <3>1. \A x \in BOOLEAN : Doc(x) \in DocType
        BY <1>1 DEF BookingType, DocType, LastType, StageType
      <3>2. (w \in booking.told) \in BOOLEAN
        OBVIOUS
      <3>. HIDE DEF Doc
      <3>. QED  BY <3>1, <3>2
    <2>2. w = "reached_at_pickup" /\ found # None => found.stage = "accepted"
      BY DEF InList
    <2>3. found \in DocType \cup {None}
      <3>. HIDE DEF doc
      <3>. QED  BY <2>1
    <2>4. /\ seen \in [Waits -> DocType \cup {None}]
          /\ \A v \in Waits : seen[v] = IF v = w THEN found ELSE proc[p].seen[v]
      <3>. HIDE DEF found
      <3>. QED  BY <1>1, <2>3 DEF ProcType
    <2>5. proc' = [proc EXCEPT ![p] = r]
      BY <1>3 DEF TickList
    <2>. HIDE DEF found, seen
    <2>6. /\ AfterList(w, seen) \in Waits \cup {"list1", "list2", "idle"}
          /\ AfterList(w, seen) \in Waits => seen[AfterList(w, seen)] \in DocType \ {None}
      BY <2>4, FirstFound DEF AfterList, Waits
    <2>7. r \in ProcType /\ r.pc = AfterList(w, seen) /\ r.seen = seen
      BY <1>1, <2>4, <2>6 DEF ProcType, PCs
    <2>8. "reached_at_pickup" \in Waits
      BY DEF Waits
    <2>9. r.seen["reached_at_pickup"] # None =>
             r.seen["reached_at_pickup"].stage = "accepted"
      BY <1>1, <2>2, <2>4, <2>7, <2>8 DEF ProcOK
    <2>10. ProcOK(r)
      <3>. HIDE DEF r
      <3>. QED  BY <2>6, <2>7, <2>9 DEF ProcOK, WritePCs, Waits
    <2>11. ProcsOK'
      <3>. HIDE DEF r
      <3>. QED  BY <2>5, <2>10, SetProc DEF TypeInv
    <2>. QED  BY <1>3, <2>11 DEF TickList, TypeInv, RideTypeOK, history
  <1>. QED  BY <1>2, <1>3

LEMMA TellType ==
  ASSUME TypeInv, NEW p \in Procs, NEW w \in Waits, TickSkip(p, w) \/ TickTell(p, w)
  PROVE  TypeInv'
  <1>1. ProcOK(proc[p]) /\ proc[p] \in ProcType /\ booking \in BookingType
    BY DEF TypeInv, ProcsOK, ProcOK, RideTypeOK
  <1>2. CASE TickSkip(p, w)
    BY <1>2, ContinueOK DEF TickSkip, TypeInv, RideTypeOK, history
  <1>3. CASE TickTell(p, w)
    <2>. DEFINE r == [proc[p] EXCEPT !.pc = "charge", !.to = w, !.now = clock]
    <2>1. booking' \in BookingType
      BY <1>1, <1>3, BookingUpdates DEF TickTell
    <2>2. ProcsOK'
      <3>1. CASE End(p)
        BY <3>1, EndOK DEF TypeInv
      <3>2. CASE proc' = [proc EXCEPT ![p].pc = "charge", ![p].to = w, ![p].now = clock]
        <4>1. clock \in Times /\ w \in Statuses
          BY DEF TypeInv, RideTypeOK, Statuses
        <4>2. /\ proc[p].seen[w] \in DocType \ {None} /\ proc[p].seen[w].at \in Times
              /\ clock - proc[p].seen[w].at >= Free(w)
          BY <1>1, <1>3 DEF TickTell, Due, ProcType, At, ProcOK, DocType
        <4>3. r \in ProcType
          BY <1>1, <4>1 DEF ProcType, PCs
        <4>4. r.pc = "charge" /\ r.to = w /\ r.now = clock /\ r.seen = proc[p].seen
          BY <1>1 DEF ProcType
        <4>5. ProcOK(r)
          <5>. HIDE DEF r
          <5>. QED  BY <1>1, <4>2, <4>3, <4>4 DEF ProcOK, WritePCs, Waits
        <4>6. proc' = [proc EXCEPT ![p] = r]
          BY <3>2
        <4>. QED  BY <4>5, <4>6, SetProc DEF TypeInv
      <3>. QED  BY <1>3, <3>1, <3>2 DEF TickTell
    <2>. QED  BY <1>3, <2>1, <2>2 DEF TickTell, TypeInv, RideTypeOK, history
  <1>. QED  BY <1>2, <1>3

\* The minutes a charge is for: at least one, and no more than have passed.
LEMMA Minutes ==
  ASSUME TypeInv, NEW p \in Procs, At(p, "charge"), NEW s \in Waits, proc[p].to = s
  PROVE  /\ proc[p].seen[s] \in DocType
         /\ proc[p].now \in Int /\ proc[p].seen[s].at \in Int /\ Free(s) \in Nat
         /\ proc[p].now - proc[p].seen[s].at - Free(s) + 1 \in 0 .. MaxTime + 1
  <1>1. ProcOK(proc[p]) /\ proc[p] \in ProcType
    BY DEF TypeInv, ProcsOK, ProcOK
  <1>2. proc[p].now \in Times /\ proc[p].seen[s].at \in Times
    BY <1>1 DEF ProcOK, ProcType, At
  <1>. QED  BY <1>1, <1>2, FreeType, RideAssumption DEF ProcOK, At, Times

LEMMA Products == \A x \in Int : x * Rate \in Int /\ x * Tax \in Int /\ x * (Rate + Tax) \in Int
  BY RideAssumption

LEMMA ChargeType ==
  ASSUME TypeInv, NEW p \in Procs,
         ChargePickup(p) \/ \E s \in Stops : ChargeStop(p, s)
  PROVE  TypeInv'
  <1>1. ProcOK(proc[p]) /\ proc[p] \in ProcType /\ booking \in BookingType
    BY DEF TypeInv, ProcsOK, ProcOK, RideTypeOK
  <1>2. CASE ChargePickup(p)
    <2>. DEFINE w == "reached_at_pickup"
                doc == proc[p].seen[w]
                minutes == proc[p].now - doc.at - PickupFree + 1
                stop == minutes * (Rate + Tax)
                total == doc.trip + stop
    <2>1. w \in Waits /\ At(p, "charge") /\ proc[p].to = w
      BY <1>2 DEF ChargePickup, Waits
    <2>2. minutes \in Int /\ doc \in DocType
      BY <2>1, Minutes, RideAssumption DEF Free
    <2>3. stop \in Int
      <3>. HIDE DEF minutes
      <3>. QED  BY <2>2, Products
    <2>4. total \in Int
      <3>1. doc.trip \in Int
        BY <2>2, RideAssumption DEF DocType
      <3>. HIDE DEF stop
      <3>. QED  BY <2>3, <3>1
    <2>5. booking' = [booking EXCEPT !.stop = stop, !.total = total]
      BY <1>2 DEF ChargePickup
    <2>6. booking' \in BookingType
      <3>. HIDE DEF stop, total
      <3>. QED  BY <1>1, <2>3, <2>4, <2>5, BookingUpdates
    <2>7. ProcsOK'
      BY <1>2, <2>1, ContinueOK, EndOK DEF ChargePickup, TypeInv
    <2>8. causes' \subseteq causes \cup {"overwritten"}
      BY <1>2 DEF ChargePickup, Because
    <2>. QED  BY <1>2, <2>6, <2>7, <2>8 DEF ChargePickup, TypeInv, RideTypeOK
  <1>3. ASSUME NEW s \in Stops, ChargeStop(p, s)
        PROVE  TypeInv'
    <2>. DEFINE doc == proc[p].seen[s]
                minutes == proc[p].now - doc.at - StopFree + 1
                more == minutes - doc.last[s]
                stop == doc.stop + more * Rate
                total == doc.total + more * (Rate + Tax)
                last == [booking.last EXCEPT ![s] = minutes]
    <2>1. s \in Waits /\ At(p, "charge") /\ proc[p].to = s
      BY <1>3 DEF ChargeStop, Waits, Stops
    <2>2. minutes \in 0 .. MaxTime + 1 /\ doc \in DocType
      BY <2>1, Minutes DEF Free, Stops
    <2>3. doc.last[s] \in Int /\ doc.stop \in Int /\ doc.total \in Int
      BY <2>2 DEF DocType, LastType
    <2>4. more \in Int
      <3>1. minutes \in Int
        BY <2>2
      <3>. HIDE DEF minutes
      <3>. QED  BY <2>3, <3>1
    <2>5. stop \in Int /\ total \in Int
      <3>. HIDE DEF more
      <3>. QED  BY <2>3, <2>4, Products
    <2>6. last \in LastType
      <3>. HIDE DEF minutes
      <3>. QED  BY <1>1, <2>2 DEF BookingType, LastType
    <2>7. booking' = [booking EXCEPT !.stop = stop, !.total = total, !.last = last]
      BY <1>1, <1>3 DEF ChargeStop, BookingType
    <2>8. booking' \in BookingType
      <3>. HIDE DEF stop, total, last
      <3>. QED  BY <1>1, <2>5, <2>6, <2>7, BookingUpdates
    <2>9. ProcsOK'
      BY <1>3, <2>1, ContinueOK DEF ChargeStop, TypeInv
    <2>10. causes' \subseteq causes \cup {"overlap"}
      BY <1>3 DEF ChargeStop, Overlap, Because
    <2>. QED  BY <1>3, <2>8, <2>9, <2>10 DEF ChargeStop, TypeInv, RideTypeOK
  <1>. QED  BY <1>2, <1>3

LEMMA NextType == TypeInv /\ [Next]_vars => TypeInv'
  <1>. SUFFICES ASSUME TypeInv, [Next]_vars PROVE TypeInv'
    OBVIOUS
  <1>1. CASE UNCHANGED vars
    BY <1>1, KeepProcs DEF vars, history, TypeInv, RideTypeOK
  <1>2. CASE TimePasses \/ DriverCancel \/ Decline \/ Accept \/ CustomerCancel
    BY <1>2, CancelType
  <1>3. CASE Tick
    BY <1>3, ListType DEF Tick
  <1>4. ASSUME NEW p \in Procs, Run(p)
        PROVE  TypeInv'
    <2>1. "reached_at_pickup" \in Waits /\ Stops \subseteq Waits
          /\ "reached_at_stop_1" \in Stops /\ "reached_at_stop_2" \in Stops
      BY DEF Waits, Stops
    <2>. QED  BY <1>4, <2>1, WriteType, ListType, TellType, ChargeType
              DEF Run, startRideAfter5minCharge, stop1After3minCharge, stop2After3minCharge
  <1>5. ASSUME NEW p \in Procs,
               \/ \E s \in Statuses : RideStatus(p, s)
               \/ RideCompleted(p) \/ Update(p) \/ AddTip(p)
               \/ \E tip \in Tips : UpdateBookingInfo(p, tip)
        PROVE  TypeInv'
    BY <1>5, RequestType, StatusType
  <1>. QED  BY <1>1, <1>2, <1>3, <1>4, <1>5 DEF Next

LEMMA AlwaysTypeInv == Spec => []TypeInv
  BY InitType, NextType, PTL DEF Spec

\* The booking keeps its type however ticks and requests overlap, and no stop is
\* ever charged for more minutes than the clock has run.
THEOREM RideTyped == Spec => []RideTypeOK
  <1>1. TypeInv => RideTypeOK
    BY DEF TypeInv
  <1>. QED  BY <1>1, AlwaysTypeInv, PTL

-----------------------------------------------------------------------------
(* OnlyRidesAreCharged: only the charges write stop_charges, and the list   *)
(* of the pickup has accepted bookings only.                                *)

Charges(p) == ChargePickup(p) \/ \E s \in Stops : ChargeStop(p, s)
Writes(p) == WriteCompleted(p) \/ WriteTip(p) \/ WriteInfo(p) \/ WriteUpdate(p)

\* The parts of the booking that are money.
SameMoney ==
    /\ booking'.total = booking.total /\ booking'.stop = booking.stop
    /\ booking'.last = booking.last /\ booking'.tip = booking.tip
    /\ UNCHANGED history

\* What is neither a write of an amount nor a charge leaves the money alone.
LEMMA MoneyStays ==
  ASSUME TypeInv, [Next]_vars, \A p \in Procs : ~Writes(p) /\ ~Charges(p)
  PROVE  SameMoney
  <1>1. booking \in BookingType
    BY DEF TypeInv, RideTypeOK
  <1>2. CASE DriverCancel \/ Decline \/ Accept \/ CustomerCancel
    BY <1>1, <1>2 DEF DriverCancel, Decline, Accept, CustomerCancel, BookingType,
                        SameMoney
  <1>3. CASE UNCHANGED vars \/ TimePasses \/ Tick
    BY <1>3 DEF vars, TimePasses, Tick, TickStart, SameMoney
  <1>4. ASSUME NEW p \in Procs, WriteStatus(p)
        PROVE  SameMoney
    BY <1>1, <1>4 DEF WriteStatus, BookingType, SameMoney
  <1>5. ASSUME NEW p \in Procs, NEW w \in Waits,
               TickList(p, w) \/ TickSkip(p, w) \/ TickTell(p, w)
        PROVE  SameMoney
    BY <1>1, <1>5 DEF TickList, TickSkip, TickTell, BookingType, SameMoney
  <1>6. ASSUME NEW p \in Procs,
               \/ \E s \in Statuses : RideStatus(p, s)
               \/ RideCompleted(p) \/ Update(p) \/ AddTip(p)
               \/ \E tip \in Tips : UpdateBookingInfo(p, tip)
        PROVE  SameMoney
    BY <1>6 DEF RideStatus, RideCompleted, Update, AddTip, UpdateBookingInfo, Read,
                SameMoney
  <1>7. "reached_at_pickup" \in Waits /\ Stops \subseteq Waits
        /\ "reached_at_stop_1" \in Stops /\ "reached_at_stop_2" \in Stops
    BY DEF Waits, Stops
  <1>. QED  BY <1>2, <1>3, <1>4, <1>5, <1>6, <1>7
            DEF Next, Run, startRideAfter5minCharge, stop1After3minCharge,
                stop2After3minCharge, Writes, Charges

\* Once a ride is cancelled or completed, nothing adds to its waiting charge but a
\* tick that listed it while it was accepted, or one that charges a stop.
THEOREM ChargedWhileRiding == Spec => OnlyRidesAreCharged
  <1>1. ASSUME TypeInv, [Next]_vars
        PROVE  [/\ booking.stage \in {"cancelled", "completed"}
                /\ booking'.stop > booking.stop
                => \E p \in Procs : /\ At(p, "charge")
                                    /\ \/ proc[p].to \in Stops
                                       \/ proc[p].seen[proc[p].to].stage = "accepted"]_vars
    <2>1. booking \in BookingType /\ booking' \in BookingType
      BY <1>1, NextType DEF TypeInv, RideTypeOK
    <2>2. ASSUME NEW p \in Procs, Writes(p)
          PROVE  booking'.stop = booking.stop
      BY <2>1, <2>2 DEF Writes, WriteCompleted, WriteTip, WriteInfo, WriteUpdate,
                        BookingType
    <2>3. booking'.stop > booking.stop => booking'.stop # booking.stop
      BY <2>1 DEF BookingType
    <2>4. SUFFICES ASSUME booking'.stop # booking.stop
                   PROVE  \E p \in Procs :
                             /\ At(p, "charge")
                             /\ \/ proc[p].to \in Stops
                                \/ proc[p].seen[proc[p].to].stage = "accepted"
      BY <2>3
    <2>5. PICK p \in Procs : Charges(p)
      BY <1>1, <2>2, <2>4, MoneyStays DEF SameMoney
    <2>6. ProcOK(proc[p]) /\ At(p, "charge")
      BY <1>1, <2>5 DEF Charges, ChargePickup, ChargeStop, TypeInv, ProcsOK
    <2>7. CASE ChargePickup(p)
      <3>1. proc[p].to = "reached_at_pickup" /\ "reached_at_pickup" \in Waits
        BY <2>7 DEF ChargePickup, Waits
      <3>2. proc[p].seen["reached_at_pickup"] # None
        BY <2>6, <3>1 DEF ProcOK, At
      <3>. QED  BY <2>6, <3>1, <3>2 DEF ProcOK
    <2>8. ASSUME NEW s \in Stops, ChargeStop(p, s)
          PROVE  proc[p].to \in Stops
      BY <2>8 DEF ChargeStop
    <2>. QED  BY <2>5, <2>6, <2>7, <2>8 DEF Charges
  <1>. QED  BY <1>1, AlwaysTypeInv, PTL DEF Spec, OnlyRidesAreCharged

-----------------------------------------------------------------------------
(* MoneyAddsUp.  It is inductive beside the types: a write that overlaps no *)
(* other was computed from the amounts that are there, and what it adds is  *)
(* what the history, or stop_charges and the charged minutes, get as well.  *)

Sum(b, more) == b.trip + b.stop + more
                   + Tax * (b.last["reached_at_stop_1"] + b.last["reached_at_stop_2"])

\* The two terms of a minute's price.
LEMMA Distribute ==
  \A x \in Int, y \in Int, z \in Int : x * (y + z) = x * y + x * z
  OBVIOUS

LEMMA LastInt ==
  ASSUME NEW last \in LastType
  PROVE  last["reached_at_stop_1"] \in Int /\ last["reached_at_stop_2"] \in Int
  BY RideAssumption DEF LastType, Stops

LEMMA CausesGrow == TypeInv /\ [Next]_vars /\ causes' = {} => causes = {}
  <1>. SUFFICES ASSUME TypeInv, [Next]_vars, causes' = {} PROVE causes = {}
    OBVIOUS
  <1>1. ASSUME NEW p \in Procs, Writes(p) \/ Charges(p)
        PROVE  causes \subseteq causes'
    BY <1>1 DEF Writes, Charges, WriteCompleted, WriteTip, WriteInfo, WriteUpdate,
                ChargePickup, ChargeStop, Overlap, Because, history
  <1>. QED  BY <1>1, MoneyStays DEF SameMoney, history

\* A write that overlaps no other finds the amounts it had read.
LEMMA NoOverlap ==
  ASSUME NEW doc, Overlap(doc), causes' = {}
  PROVE  /\ doc.total = booking.total /\ doc.stop = booking.stop
         /\ doc.last = booking.last /\ doc.tip = booking.tip
  BY DEF Overlap, Because, Money

LEMMA WriteMoney ==
  ASSUME TypeInv, MoneyAddsUp, NEW p \in Procs, Writes(p), causes' = {}, causes = {}
  PROVE  booking'.total = Sum(booking', extra')
  <1>1. booking \in BookingType /\ extra \in Int
    BY DEF TypeInv, RideTypeOK
  <1>2. booking.total = Sum(booking, extra)
    BY DEF MoneyAddsUp, Sum
  <1>3. ~WriteUpdate(p)
    BY DEF WriteUpdate, Because
  <1>. DEFINE tax == Tax * (booking.last["reached_at_stop_1"]
                               + booking.last["reached_at_stop_2"])
  <1>4. /\ tax \in Int /\ booking.trip \in Int /\ booking.stop \in Int
        /\ booking.total \in Int
    <2>1. booking.last \in LastType
      BY <1>1 DEF BookingType, LastType
    <2>2. booking.last["reached_at_stop_1"] + booking.last["reached_at_stop_2"] \in Int
      BY <2>1, LastInt
    <2>3. \A x \in Int : Tax * x \in Int
      BY RideAssumption
    <2>. QED  BY <1>1, <2>2, <2>3, RideAssumption DEF BookingType
  <1>5. proc[p].amount \in Int
    BY DEF TypeInv, ProcsOK, ProcOK, ProcType
  <1>6. /\ booking'.trip = booking.trip /\ booking'.stop = booking.stop
        /\ booking'.last = booking.last
    BY <1>1, <1>3 DEF Writes, WriteCompleted, WriteTip, WriteInfo, BookingType
  <1>7. Sum(booking', extra') = booking.trip + booking.stop + extra' + tax
    BY <1>6 DEF Sum
  <1>8. booking.total = booking.trip + booking.stop + extra + tax
    BY <1>2 DEF Sum
  <1>. HIDE DEF tax
  <1>9. CASE WriteCompleted(p)
    <2>1. /\ booking'.total = booking.total + proc[p].amount
          /\ extra' = extra + proc[p].amount
      BY <1>1, <1>9, NoOverlap DEF WriteCompleted, BookingType
    <2>. QED  BY <1>1, <1>4, <1>5, <1>7, <1>8, <2>1
  <1>10. CASE WriteTip(p)
    <2>1. \/ UNCHANGED <<booking, extra>>
          \/ /\ booking'.total = booking.total + proc[p].amount
             /\ extra' = extra + proc[p].amount
      BY <1>1, <1>10, NoOverlap DEF WriteTip, BookingType, history
    <2>. QED  BY <1>1, <1>4, <1>5, <1>7, <1>8, <2>1
  <1>11. CASE WriteInfo(p)
    <2>1. /\ booking'.total = booking.total - booking.tip + proc[p].amount
          /\ extra' = extra - booking.tip + proc[p].amount
      BY <1>1, <1>11, NoOverlap DEF WriteInfo, BookingType
    <2>2. booking.tip \in Int
      BY <1>1 DEF BookingType, Tips
    <2>. QED  BY <1>1, <1>4, <1>5, <1>7, <1>8, <2>1, <2>2
  <1>. QED  BY <1>3, <1>9, <1>10, <1>11 DEF Writes

\* Nothing else was charged: the pickup's charge, tax and all, is stop_charges.
LEMMA PickupMoney ==
  ASSUME TypeInv, NEW p \in Procs, ChargePickup(p), causes' = {}
  PROVE  booking'.total = Sum(booking', extra')
  <1>. DEFINE doc == proc[p].seen["reached_at_pickup"]
              minutes == proc[p].now - doc.at - PickupFree + 1
              stop == minutes * (Rate + Tax)
  <1>1. booking \in BookingType
    BY DEF TypeInv, RideTypeOK
  <1>2. "reached_at_pickup" \in Waits /\ At(p, "charge") /\ proc[p].to = "reached_at_pickup"
    BY DEF ChargePickup, Waits
  <1>3. minutes \in Int /\ doc \in DocType
    BY <1>2, Minutes, RideAssumption DEF Free
  <1>4. stop \in Int
    <2>. HIDE DEF minutes
    <2>. QED  BY <1>3, Products
  <1>5. booking' = [booking EXCEPT !.stop = stop, !.total = doc.trip + stop]
    BY DEF ChargePickup
  <1>6. doc.trip = Fare /\ booking.trip = Fare /\ Fare \in Int
    BY <1>1, <1>3, RideAssumption DEF DocType, BookingType
  <1>7. /\ extra' = 0
        /\ booking.last["reached_at_stop_1"] = 0 /\ booking.last["reached_at_stop_2"] = 0
    BY DEF ChargePickup, Because, Stops
  <1>. HIDE DEF stop, doc
  <1>8. /\ booking'.total = Fare + stop /\ booking'.stop = stop /\ booking'.trip = Fare
        /\ booking'.last = booking.last
    BY <1>1, <1>5, <1>6 DEF BookingType
  <1>9. Sum(booking', extra') = Fare + stop + 0 + Tax * 0
    BY <1>7, <1>8 DEF Sum
  <1>10. Tax * 0 = 0
    BY RideAssumption
  <1>. QED  BY <1>4, <1>6, <1>8, <1>9, <1>10

\* The minutes since the last charge: their rate in stop_charges, their tax with
\* the minutes on record.
LEMMA StopMoney ==
  ASSUME TypeInv, MoneyAddsUp, NEW p \in Procs, NEW s \in Stops, ChargeStop(p, s),
         causes' = {}, causes = {}
  PROVE  booking'.total = Sum(booking', extra')
  <1>. DEFINE doc == proc[p].seen[s]
              minutes == proc[p].now - doc.at - StopFree + 1
              more == minutes - doc.last[s]
              last == [booking.last EXCEPT ![s] = minutes]
              L1 == booking.last["reached_at_stop_1"]
              L2 == booking.last["reached_at_stop_2"]
  <1>1. booking \in BookingType /\ extra \in Int
    BY DEF TypeInv, RideTypeOK
  <1>2. s \in Waits /\ At(p, "charge") /\ proc[p].to = s
    BY DEF ChargeStop, Waits, Stops
  <1>3. minutes \in Int /\ doc \in DocType
    <2>1. minutes \in 0 .. MaxTime + 1 /\ doc \in DocType
      BY <1>2, Minutes DEF Free, Stops
    <2>. HIDE DEF minutes
    <2>. QED  BY <2>1
  <1>4. /\ doc.total = booking.total /\ doc.stop = booking.stop
        /\ doc.last = booking.last
    BY NoOverlap DEF ChargeStop
  <1>5. /\ L1 \in Int /\ L2 \in Int /\ booking.last \in LastType
        /\ booking.trip \in Int /\ booking.stop \in Int /\ booking.total \in Int
    <2>1. booking.last \in LastType
      BY <1>1 DEF BookingType, LastType
    <2>. QED  BY <1>1, <2>1, LastInt, RideAssumption DEF BookingType
  <1>6. booking' = [booking EXCEPT !.stop = doc.stop + more * Rate,
                       !.total = doc.total + more * (Rate + Tax), !.last = last]
    BY <1>1 DEF ChargeStop, BookingType
  <1>7. extra' = extra
    BY DEF ChargeStop
  <1>8. booking.total = booking.trip + booking.stop + extra + Tax * (L1 + L2)
    BY DEF MoneyAddsUp
  <1>. HIDE DEF minutes, doc
  <1>9. last["reached_at_stop_1"] + last["reached_at_stop_2"] = L1 + L2 + more
    BY <1>3, <1>4, <1>5 DEF Stops, LastType
  <1>10. more \in Int
    <2>1. doc.last[s] \in Int
      BY <1>4, <1>5, LastInt DEF Stops
    <2>. QED  BY <1>3, <2>1
  <1>. HIDE DEF more, last, L1, L2
  <1>11. /\ booking'.total = booking.total + more * (Rate + Tax)
         /\ booking'.stop = booking.stop + more * Rate
         /\ booking'.trip = booking.trip /\ booking'.last = last
    BY <1>1, <1>4, <1>6 DEF BookingType
  <1>12. Sum(booking', extra') =
            booking.trip + (booking.stop + more * Rate) + extra + Tax * (L1 + L2 + more)
    BY <1>7, <1>9, <1>11 DEF Sum
  <1>13. /\ more * (Rate + Tax) = more * Rate + more * Tax
         /\ Tax * ((L1 + L2) + more) = Tax * (L1 + L2) + Tax * more
         /\ Tax * more = more * Tax
    BY <1>5, <1>10, Distribute, RideAssumption
  <1>14. more * Rate \in Int /\ more * Tax \in Int /\ Tax * (L1 + L2) \in Int
    BY <1>5, <1>10, RideAssumption
  <1>. QED  BY <1>1, <1>5, <1>8, <1>11, <1>12, <1>13, <1>14

LEMMA NextMoney == TypeInv /\ MoneyAddsUp /\ [Next]_vars => MoneyAddsUp'
  <1>. SUFFICES ASSUME TypeInv, MoneyAddsUp, [Next]_vars, causes' = {}
                PROVE  booking'.total = Sum(booking', extra')
    BY DEF MoneyAddsUp, Sum
  <1>1. causes = {}
    BY CausesGrow
  <1>2. booking \in BookingType /\ booking' \in BookingType
    BY NextType DEF TypeInv, RideTypeOK
  <1>3. ASSUME \A p \in Procs : ~Writes(p) /\ ~Charges(p)
        PROVE  booking'.total = Sum(booking', extra')
    <2>1. SameMoney
      BY <1>3, MoneyStays
    <2>2. booking'.trip = booking.trip
      BY <1>2 DEF BookingType
    <2>. QED  BY <1>1, <2>1, <2>2 DEF SameMoney, MoneyAddsUp, Sum, history
  <1>4. ASSUME NEW p \in Procs, Writes(p) \/ Charges(p)
        PROVE  booking'.total = Sum(booking', extra')
    BY <1>1, <1>4, WriteMoney, PickupMoney, StopMoney DEF Charges
  <1>. QED  BY <1>3, <1>4

\* Whatever ticks, tips and completions overlap or not: the total is the price, the
\* waiting charge with its tax, tips and tolls, unless one of the causes came about.
THEOREM TotalAddsUp == Spec => []MoneyAddsUp
  <1>1. Init => MoneyAddsUp
    BY RideAssumption DEF Init, Taken, MoneyAddsUp, Stops
  <1>2. TypeInv /\ MoneyAddsUp /\ [Next]_vars => MoneyAddsUp'
    BY NextMoney
  <1>. QED  BY <1>1, <1>2, AlwaysTypeInv, PTL DEF Spec

-----------------------------------------------------------------------------
(* ListedOnce.  It needs that an accepted booking has a driver and an open  *)
(* one has none: what accept and cancel write together, and nothing else    *)
(* writes.                                                                  *)

StageInv ==
    /\ booking.stage = "accepted" => booking.driver = TRUE
    /\ booking.stage \in Open => booking.driver = FALSE

LEMMA NextStage == TypeInv /\ StageInv /\ [Next]_vars => StageInv'
  <1>. SUFFICES ASSUME TypeInv, StageInv, [Next]_vars PROVE StageInv'
    OBVIOUS
  <1>1. booking \in BookingType
    BY DEF TypeInv, RideTypeOK
  <1>. DEFINE Same == booking'.stage = booking.stage /\ booking'.driver = booking.driver
  <1>2. Same => StageInv'
    BY DEF StageInv
  <1>3. CASE UNCHANGED vars \/ TimePasses \/ Tick
    BY <1>2, <1>3 DEF vars, TimePasses, Tick, TickStart
  <1>4. CASE DriverCancel \/ Decline \/ Accept \/ CustomerCancel
    BY <1>1, <1>4 DEF DriverCancel, Decline, Accept, CustomerCancel, BookingType,
                        StageInv, Open
  <1>5. ASSUME NEW p \in Procs, WriteStatus(p) \/ Writes(p)
        PROVE  StageInv'
    <2>1. CASE WriteCompleted(p)
      BY <1>1, <2>1 DEF WriteCompleted, BookingType, StageInv, Open
    <2>. QED  BY <1>1, <1>2, <1>5, <2>1
              DEF Writes, WriteStatus, WriteTip, WriteInfo, WriteUpdate, BookingType
  <1>6. ASSUME NEW p \in Procs, NEW w \in Waits,
               TickList(p, w) \/ TickSkip(p, w) \/ TickTell(p, w)
        PROVE  StageInv'
    BY <1>1, <1>2, <1>6 DEF TickList, TickSkip, TickTell, BookingType
  <1>7. ASSUME NEW p \in Procs, Charges(p)
        PROVE  StageInv'
    BY <1>1, <1>2, <1>7 DEF Charges, ChargePickup, ChargeStop, BookingType
  <1>8. ASSUME NEW p \in Procs,
               \/ \E s \in Statuses : RideStatus(p, s)
               \/ RideCompleted(p) \/ Update(p) \/ AddTip(p)
               \/ \E tip \in Tips : UpdateBookingInfo(p, tip)
        PROVE  StageInv'
    BY <1>2, <1>8 DEF RideStatus, RideCompleted, Update, AddTip, UpdateBookingInfo, Read
  <1>9. "reached_at_pickup" \in Waits /\ Stops \subseteq Waits
        /\ "reached_at_stop_1" \in Stops /\ "reached_at_stop_2" \in Stops
    BY DEF Waits, Stops
  <1>. QED  BY <1>3, <1>4, <1>5, <1>6, <1>7, <1>8, <1>9
            DEF Next, Run, startRideAfter5minCharge, stop1After3minCharge,
                stop2After3minCharge, Writes, Charges

LEMMA Counts ==
  /\ Cardinality({}) = 0
  /\ \A x : Cardinality({x}) = 1
  BY FS_EmptySet, FS_Singleton

\* The dispatcher's tabs: which of them has the booking.
LEMMA TabsOf ==
  ASSUME TypeInv, StageInv
  PROVE  Cardinality({tab \in Tabs : ScheduledTab(Listed, tab)})
            + (IF WaitingForDriver(Listed) THEN 1 ELSE 0) = IF Lost THEN 0 ELSE 1
  <1>. DEFINE S == {tab \in Tabs : ScheduledTab(Listed, tab)}
  <1>1. /\ booking.stage \in StageType /\ booking.status \in Statuses \cup {None}
        /\ booking.driver \in BOOLEAN
    BY DEF TypeInv, RideTypeOK, BookingType, StageType
  <1>2. /\ Listed.stage = booking.stage /\ Listed.driver = booking.driver
        /\ Listed.status = IF booking.status = None THEN "none" ELSE booking.status
        /\ Listed.when = "today" /\ Listed.paid = TRUE
        /\ Listed.type = IF booking.stage = "cancelled" THEN "cancelled" ELSE "schedule"
    BY DEF Listed
  <1>3. /\ ScheduledTab(Listed, "upcoming") <=>
             /\ booking.stage \in Open \cup {"accepted"} /\ booking.driver
             /\ Listed.status \in {"none", "reached_at_pickup"}
        /\ ScheduledTab(Listed, "ongoing") <=>
             /\ booking.stage \in {"accepted", "ongoing"} /\ booking.driver
             /\ Listed.status \in Driving
        /\ ScheduledTab(Listed, "completed") <=>
             booking.stage = "completed" /\ booking.driver
        /\ ScheduledTab(Listed, "cancelled") <=>
             booking.stage \in {"cancelled", "failed"}
    BY <1>2 DEF ScheduledTab
  <1>4. WaitingForDriver(Listed) <=> booking.stage \in Open /\ ~booking.driver
    BY <1>2 DEF WaitingForDriver, PaidOrDispatched, Open
  <1>0. SUFFICES Cardinality(S) + (IF WaitingForDriver(Listed) THEN 1 ELSE 0)
                    = IF Lost THEN 0 ELSE 1
    OBVIOUS
  <1>5. \A tab : tab \in S <=> tab \in Tabs /\ ScheduledTab(Listed, tab)
    OBVIOUS
  <1>6. Tabs = {"upcoming", "ongoing", "completed", "cancelled"}
    BY DEF Tabs
  <1>. HIDE DEF S
  <1>7. CASE booking.stage \in Open
    <2>1. S = {}
      BY <1>3, <1>5, <1>6, <1>7 DEF StageInv, Open
    <2>2. Cardinality(S) = 0
      BY <2>1, Counts
    <2>. QED  BY <1>4, <1>7, <2>2 DEF Lost, StageInv, Open
  <1>8. CASE booking.stage = "accepted"
    <2>1. CASE Listed.status \in {"none", "reached_at_pickup"}
      <3>1. S = {"upcoming"}
        BY <1>3, <1>5, <1>6, <1>8, <2>1 DEF StageInv, Driving
      <3>2. ~Lost
        BY <1>2, <1>8, <2>1, NoTimeAssumption DEF Lost, Statuses
      <3>3. Cardinality(S) = 1
        BY <3>1, Counts
      <3>. QED  BY <1>4, <1>8, <3>2, <3>3 DEF Open
    <2>2. CASE Listed.status \in Driving
      <3>1. S = {"ongoing"}
        BY <1>3, <1>5, <1>6, <1>8, <2>2 DEF StageInv, Driving
      <3>2. ~Lost
        BY <1>2, <1>8, <2>2, NoTimeAssumption DEF Lost, Statuses, Driving
      <3>3. Cardinality(S) = 1
        BY <3>1, Counts
      <3>. QED  BY <1>4, <1>8, <3>2, <3>3 DEF Open
    <2>3. CASE Listed.status = "ride_completed"
      <3>1. S = {}
        BY <1>3, <1>5, <1>6, <1>8, <2>3 DEF Driving
      <3>2. Lost
        BY <1>2, <1>8, <2>3 DEF Lost
      <3>3. Cardinality(S) = 0
        BY <3>1, Counts
      <3>. QED  BY <1>4, <1>8, <3>2, <3>3 DEF Open
    <2>. QED  BY <1>1, <1>2, <2>1, <2>2, <2>3 DEF Statuses, Waits, Driving
  <1>9. CASE booking.stage = "completed"
    <2>1. CASE booking.driver
      <3>1. S = {"completed"}
        BY <1>3, <1>5, <1>6, <1>9, <2>1 DEF Open
      <3>2. Cardinality(S) = 1
        BY <3>1, Counts
      <3>. QED  BY <1>4, <1>9, <2>1, <3>2 DEF Lost, Open
    <2>2. CASE ~booking.driver
      <3>1. S = {}
        BY <1>3, <1>5, <1>6, <1>9, <2>2
      <3>2. Cardinality(S) = 0
        BY <3>1, Counts
      <3>. QED  BY <1>4, <1>9, <2>2, <3>2 DEF Lost, Open
    <2>. QED  BY <2>1, <2>2
  <1>10. CASE booking.stage = "cancelled"
    <2>1. S = {"cancelled"}
      BY <1>3, <1>5, <1>6, <1>10 DEF Open
    <2>2. Cardinality(S) = 1
      BY <2>1, Counts
    <2>. QED  BY <1>4, <1>10, <2>2 DEF Lost, Open
  <1>. QED  BY <1>1, <1>7, <1>8, <1>9, <1>10 DEF StageType

\* The customer's and the driver's lists.
LEMMA PartiesOf ==
  ASSUME TypeInv, StageInv
  PROVE  /\ Cardinality({list \in {"current", "past"} : CustomerList(Listed, list)})
              = IF booking.stage = "request" THEN 0 ELSE 1
         /\ \A list \in {"current", "past"} :
              CustomerList(Listed, list) <=> CustomerCount(Listed, list)
         /\ booking.driver =>
              /\ Cardinality({list \in {"current", "past"} : DriverList(Listed, list)}) = 1
              /\ \A list \in {"current", "past"} :
                    DriverList(Listed, list) <=> DriverCount(Listed, list)
  <1>. DEFINE C == {list \in {"current", "past"} : CustomerList(Listed, list)}
              D == {list \in {"current", "past"} : DriverList(Listed, list)}
  <1>1. booking.stage \in StageType /\ booking.driver \in BOOLEAN
    BY DEF TypeInv, RideTypeOK, BookingType, StageType
  <1>2. /\ Listed.stage = booking.stage /\ Listed.driver = booking.driver
        /\ PaidOrDispatched(Listed) /\ Listed.paid = TRUE
    BY DEF Listed, PaidOrDispatched
  <1>3. /\ CustomerList(Listed, "current") <=> booking.stage \in {"accepted", "none"}
        /\ CustomerList(Listed, "past") <=> booking.stage \in Closed
        /\ DriverList(Listed, "current") <=> booking.driver /\ booking.stage = "accepted"
        /\ DriverList(Listed, "past") <=> booking.driver /\ booking.stage \in Closed
        /\ DriverCount(Listed, "current") <=>
              booking.driver /\ booking.stage \in {"accepted", "none"}
        /\ DriverCount(Listed, "past") <=> booking.driver /\ booking.stage \in Closed
    BY <1>2 DEF CustomerList, DriverList, DriverCount
  <1>4. /\ \A list : list \in C <=>
              list \in {"current", "past"} /\ CustomerList(Listed, list)
        /\ \A list : list \in D <=> list \in {"current", "past"} /\ DriverList(Listed, list)
    OBVIOUS
  <1>. HIDE DEF C, D
  <1>5. /\ booking.stage = "request" => C = {}
        /\ booking.stage # "request" => C = {"current"} \/ C = {"past"}
    BY <1>1, <1>3, <1>4 DEF StageType, Open, Closed
  <1>6. booking.driver => D = {"current"} \/ D = {"past"}
    BY <1>1, <1>3, <1>4 DEF StageType, Open, StageInv, Closed
  <1>7. booking.driver => \A list \in {"current", "past"} :
                             DriverList(Listed, list) <=> DriverCount(Listed, list)
    BY <1>1, <1>3 DEF StageInv, Open
  <1>8. \A list \in {"current", "past"} :
           CustomerList(Listed, list) <=> CustomerCount(Listed, list)
    BY <1>2, <1>3 DEF CustomerCount
  <1>. QED  BY <1>5, <1>6, <1>7, <1>8, Counts DEF C, D

\* The dashboard and the admin's lists.
LEMMA AdminOf ==
  ASSUME TypeInv, StageInv
  PROVE  /\ WaitingForDriver(Listed) => "waiting_for_driver" \in Dashboard(Listed)
         /\ booking.stage \notin Open =>
              Cardinality({list \in Closed \cup {"accepted"} : AdminList(Listed, list)}) = 1
  <1>. DEFINE A == {list \in Closed \cup {"accepted"} : AdminList(Listed, list)}
  <1>1. booking.stage \in StageType /\ Listed.stage = booking.stage
    BY DEF TypeInv, RideTypeOK, BookingType, StageType, Listed
  <1>2. WaitingForDriver(Listed) => "waiting_for_driver" \in Dashboard(Listed)
    BY DEF WaitingForDriver, Dashboard
  <1>3. \A list : list \in A <=>
           list \in {"cancelled", "completed", "failed", "accepted"} /\ booking.stage = list
    BY <1>1 DEF AdminList, Closed
  <1>. HIDE DEF A
  <1>4. booking.stage \notin Open => A = {booking.stage}
    BY <1>1, <1>3 DEF StageType, Open
  <1>. QED  BY <1>2, <1>4, Counts DEF A

\* At every moment of a ride, in whatever order its steps, cancels and completion
\* come, one list of each party has it, unless it is lost in the two known ways; but the
\* customer has none from a driver's decline to the next accept.
THEOREM RideListedOnce == Spec => []ListedOnce
  <1>1. Init => StageInv
    BY DEF Init, Taken, StageInv, Open
  <1>2. TypeInv /\ StageInv /\ [Next]_vars => StageInv'
    BY NextStage
  <1>3. TypeInv /\ StageInv => ListedOnce
    BY TabsOf, PartiesOf, AdminOf DEF ListedOnce
  <1>. QED  BY <1>1, <1>2, <1>3, AlwaysTypeInv, PTL DEF Spec
=============================================================================
