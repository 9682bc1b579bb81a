-------------------------- MODULE SearchLoopProofs --------------------------
(***************************************************************************)
(* Proofs about SearchLoop, for any drivers, any number of searches and    *)
(* any number of polls: its type invariant, that a flagged driver is       *)
(* watched by the search that is going to clear his flag, that an open     *)
(* booking is being searched for, that no search asks a driver twice, and  *)
(* that the booking goes through the lifecycle of RideLifecycle.           *)
(***************************************************************************)
EXTENDS SearchLoop, TLAPS

\* The steps at which a search is about a driver, and those before it polls.
AskPCs == {"flag", "list", "create", "push", "poll", "check", "clear.go", "clear.end"}
BeforePoll == {"new", "read", "listed", "scan", "flag", "list", "create", "push"}

\* A search that asks somebody knows whom, and one about to poll has polls left.
LoopOK(r) ==
    /\ r \in LoopType
    /\ r.pc \in AskPCs => r.d \in Drivers
    /\ r.pc \in BeforePoll => r.polls = 0
    /\ r.pc = "poll" => r.polls < Polls

LoopsOK ==
    /\ loop = [l \in Loops |-> loop[l]]
    /\ \A l \in Loops : LoopOK(loop[l])

BookingType == [status : Statuses, driver : Drivers \cup {None},
                cancelled : SUBSET Drivers]
HandlerType == [pc : HandlerPCs, drv : Drivers \cup {None}]

\* The parts of TypeOK that are not about the searches.
DocsOK ==
    /\ booking \in BookingType
    /\ lists \in Seq(SUBSET Drivers)
    /\ driver \in [Drivers -> DriverType]
    /\ handler \in [Drivers -> HandlerType]
    /\ requests \in 0..MaxRequests
    /\ cancel \in {"none", "offer", "done"}
    /\ lost \subseteq {"decline", "cancel", "again", "restart", "late"}

TypeInv == DocsOK /\ LoopsOK

LEMMA TypeInvSuffices == TypeInv => TypeOK
  BY DEF TypeInv, DocsOK, LoopsOK, LoopOK, TypeOK, BookingType, HandlerType

-----------------------------------------------------------------------------
\* A step that gives one search a new record keeps the others.
LEMMA SetLoop ==
  ASSUME LoopsOK, NEW l \in Loops, NEW r, LoopOK(r),
         loop' = [loop EXCEPT ![l] = r]
  PROVE  LoopsOK'
  <1>1. loop' = [m \in Loops |-> loop'[m]]
    BY DEF LoopsOK
  <1>2. \A m \in Loops : loop'[m] = IF m = l THEN r ELSE loop[m]
    BY DEF LoopsOK
  <1>. QED  BY <1>1, <1>2 DEF LoopsOK, LoopOK

\* The fresh records a search goes on with, or ends with.
LEMMA FreshLoops ==
  ASSUME LoopsOK, NEW l \in Loops
  PROVE  /\ LoopOK(NewLoop)
         /\ LoopOK([NewLoop EXCEPT !.pc = "ended"])
         /\ LoopOK([NewLoop EXCEPT !.pc = "read", !.late = loop[l].late,
                                   !.asked = loop[l].asked])
  <1>1. 0 \in 0..Polls
    BY PollsAssumption
  <1>2. NewLoop \in LoopType
    BY <1>1 DEF LoopType, NewLoop, LoopPCs
  <1>3. loop[l].late \in BOOLEAN /\ loop[l].asked \in SUBSET Drivers
    BY DEF LoopsOK, LoopOK, LoopType
  <1>4. LoopOK(NewLoop)
    BY <1>2 DEF LoopOK, NewLoop, AskPCs
  <1>5. LoopOK([NewLoop EXCEPT !.pc = "ended"])
    BY <1>1 DEF LoopOK, NewLoop, LoopType, LoopPCs, AskPCs, BeforePoll
  <1>6. LoopOK([NewLoop EXCEPT !.pc = "read", !.late = loop[l].late,
                               !.asked = loop[l].asked])
    BY <1>1, <1>3 DEF LoopOK, NewLoop, LoopType, LoopPCs, AskPCs, BeforePoll
  <1>. QED  BY <1>4, <1>5, <1>6

LEMMA Fresh ==
  ASSUME LoopsOK, NEW l \in Loops, NextRound(l) \/ EndSearch(l)
  PROVE  LoopsOK'
  BY FreshLoops, SetLoop DEF NextRound, EndSearch

\* A search that moves from pc to another step that asks nothing more of it.
LEMMA MoveLoop ==
  ASSUME LoopsOK, NEW l \in Loops, NEW pc \in LoopPCs, Goto(l, pc),
         pc \in AskPCs => loop[l].pc \in AskPCs,
         pc \in BeforePoll => loop[l].pc \in BeforePoll,
         pc = "poll" => loop[l].polls < Polls
  PROVE  LoopsOK'
  <1>. DEFINE r == [loop[l] EXCEPT !.pc = pc]
  <1>1. loop[l] \in LoopType /\ LoopOK(loop[l])
    BY DEF LoopsOK, LoopOK
  <1>2. LoopOK(r)
    BY <1>1 DEF LoopOK, LoopType
  <1>3. loop' = [loop EXCEPT ![l] = r]
    BY DEF Goto
  <1>. QED  BY <1>2, <1>3, SetLoop

-----------------------------------------------------------------------------
LEMMA InitType == Init => TypeInv
  <1>. SUFFICES ASSUME Init PROVE TypeInv
    OBVIOUS
  <1>1. LoopsOK
    <2>1. \A l \in Loops : loop[l] = NewLoop
      BY DEF Init
    <2>2. \A l \in Loops : LoopOK(loop[l])
      <3>. TAKE l \in Loops
      <3>1. 0 \in 0..Polls /\ NewLoop \in LoopType
        BY PollsAssumption DEF LoopType, NewLoop, LoopPCs
      <3>. QED  BY <2>1, <3>1 DEF LoopOK, NewLoop, AskPCs
    <2>3. loop = [l \in Loops |-> loop[l]]
      BY DEF Init
    <2>. QED  BY <2>2, <2>3 DEF LoopsOK
  <1>2. DocsOK
    <2>1. driver \in [Drivers -> DriverType]
      BY DEF Init, DriverType
    <2>2. handler \in [Drivers -> HandlerType] /\ booking \in BookingType
      BY DEF Init, HandlerType, HandlerPCs, IdleHandler, BookingType, Statuses
    <2>3. lists \in Seq(SUBSET Drivers) /\ requests \in 0..MaxRequests
      BY RequestsAssumption DEF Init
    <2>. QED  BY <2>1, <2>2, <2>3 DEF Init, DocsOK
  <1>. QED  BY <1>1, <1>2 DEF TypeInv

-----------------------------------------------------------------------------
\* A search changes its own record, and at most one document beside it.
LEMMA RoundType ==
  ASSUME TypeInv, NEW l \in Loops,
         \/ StartSearch(l) \/ TimePasses(l) \/ SearchRead(l) \/ SearchListed(l)
         \/ SearchAgain(l) \/ \E d \in Near : SearchAsk(l, d) \/ SearchPassOver(l, d)
  PROVE  TypeInv'
  <1>. USE DEF TypeInv
  <1>1. DocsOK'
    BY DEF DocsOK, StartSearch, TimePasses, SearchRead, SearchListed, SearchAgain,
           SearchAsk, SearchPassOver
  <1>2. LoopOK(loop[l]) /\ loop[l] \in LoopType
    BY DEF LoopsOK, LoopOK
  <1>3. CASE StartSearch(l)
    BY <1>1, <1>3, MoveLoop DEF StartSearch, At, LoopPCs, AskPCs, BeforePoll
  <1>4. CASE TimePasses(l)
    <2>. DEFINE r == [loop[l] EXCEPT !.late = TRUE]
    <2>1. LoopOK(r)
      BY <1>2 DEF LoopOK, LoopType
    <2>2. loop' = [loop EXCEPT ![l] = r]
      BY <1>4 DEF TimePasses
    <2>. QED  BY <1>1, <2>1, <2>2, SetLoop
  <1>5. CASE SearchRead(l)
    <2>1. CASE Open(booking.status)
      <3>. DEFINE r == [loop[l] EXCEPT !.pc = "listed", !.skip = booking.cancelled]
      <3>1. booking.cancelled \in SUBSET Drivers
        BY DEF DocsOK, BookingType
      <3>2. LoopOK(r)
        BY <1>2, <1>5, <3>1
           DEF SearchRead, At, LoopOK, LoopType, LoopPCs, AskPCs, BeforePoll
      <3>3. loop' = [loop EXCEPT ![l] = r]
        BY <1>5, <2>1 DEF SearchRead
      <3>. QED  BY <1>1, <3>2, <3>3, SetLoop
    <2>2. CASE ~Open(booking.status)
      BY <1>1, <1>5, <2>2, Fresh DEF SearchRead
    <2>. QED  BY <2>1, <2>2
  <1>6. CASE SearchListed(l)
    <2>. DEFINE r == [loop[l] EXCEPT !.pc = "scan", !.skip = SkipWithListed(l),
                                     !.todo = Near]
    <2>1. SkipWithListed(l) \in SUBSET Drivers
      <3>1. loop[l].skip \in SUBSET Drivers
        BY <1>2 DEF LoopType
      <3>2. lists # <<>> => lists[1] \in SUBSET Drivers
        BY DEF DocsOK
      <3>. QED  BY <3>1, <3>2 DEF SkipWithListed
    <2>2. LoopOK(r)
      BY <1>2, <1>6, <2>1
         DEF SearchListed, At, LoopOK, LoopType, LoopPCs, AskPCs, BeforePoll
    <2>3. loop' = [loop EXCEPT ![l] = r]
      BY <1>6 DEF SearchListed
    <2>. QED  BY <1>1, <2>2, <2>3, SetLoop
  <1>7. CASE SearchAgain(l)
    BY <1>1, <1>7, Fresh DEF SearchAgain
  <1>8. ASSUME NEW d \in Near, SearchAsk(l, d)
        PROVE  TypeInv'
    <2>. DEFINE r == [loop[l] EXCEPT !.pc = "flag", !.d = d, !.asked = @ \cup {d},
                                     !.todo = {}, !.skip = {}]
    <2>1. LoopOK(r)
      BY <1>2, <1>8, NearAssumption
         DEF SearchAsk, At, LoopOK, LoopType, LoopPCs, AskPCs, BeforePoll
    <2>2. loop' = [loop EXCEPT ![l] = r]
      BY <1>8 DEF SearchAsk
    <2>. QED  BY <1>1, <2>1, <2>2, SetLoop
  <1>9. ASSUME NEW d \in Near, SearchPassOver(l, d)
        PROVE  TypeInv'
    <2>. DEFINE r == [loop[l] EXCEPT !.todo = @ \ {d}]
    <2>1. LoopOK(r)
      BY <1>2 DEF LoopOK, LoopType
    <2>2. loop' = [loop EXCEPT ![l] = r]
      BY <1>9 DEF SearchPassOver
    <2>. QED  BY <1>1, <2>1, <2>2, SetLoop
  <1>. QED  BY <1>3, <1>4, <1>5, <1>6, <1>7, <1>8, <1>9

\* Changing one driver's flag, or clearing all, keeps the type.
LEMMA FlagType ==
  ASSUME DocsOK, NEW d \in Drivers, NEW b \in BOOLEAN
  PROVE  /\ [driver EXCEPT ![d].flag = b] \in [Drivers -> DriverType]
         /\ [x \in Drivers |-> [driver[x] EXCEPT !.flag = FALSE]]
              \in [Drivers -> DriverType]
  BY DEF DocsOK, DriverType

LEMMA AskType ==
  ASSUME TypeInv, NEW l \in Loops,
         \/ SearchFlag(l) \/ SearchFindList(l) \/ SearchCreateList(l)
         \/ SearchPush(l) \/ PollAnswer(l)
  PROVE  TypeInv'
  <1>. USE DEF TypeInv
  <1>1. LoopOK(loop[l]) /\ loop[l] \in LoopType
    BY DEF LoopsOK, LoopOK
  <1>2. loop[l].pc \in AskPCs => loop[l].d \in Drivers
    BY <1>1 DEF LoopOK
  <1>3. CASE SearchFlag(l)
    <2>1. loop[l].d \in Drivers
      BY <1>2, <1>3 DEF SearchFlag, At, AskPCs
    <2>2. driver' \in [Drivers -> DriverType]
      <3>1. [driver EXCEPT ![loop[l].d].flag = TRUE] \in [Drivers -> DriverType]
        BY <2>1, FlagType
      <3>2. driver \in [Drivers -> DriverType]
        BY DEF DocsOK
      <3>. QED  BY <1>3, <3>1, <3>2 DEF SearchFlag
    <2>3. DocsOK'
      BY <1>3, <2>2 DEF SearchFlag, DocsOK
    <2>4. CASE Goto(l, "list")
      BY <1>3, <2>3, <2>4, MoveLoop
         DEF SearchFlag, At, LoopPCs, AskPCs, BeforePoll
    <2>5. CASE loop' = [loop EXCEPT ![l].pc = "list", ![l].flagged = TRUE]
      <3>. DEFINE r == [loop[l] EXCEPT !.pc = "list", !.flagged = TRUE]
      <3>1. LoopOK(r)
        BY <1>1, <1>3
           DEF SearchFlag, At, LoopOK, LoopType, LoopPCs, AskPCs, BeforePoll
      <3>2. loop' = [loop EXCEPT ![l] = r]
        BY <2>5
      <3>. QED  BY <2>3, <3>1, <3>2, SetLoop
    <2>. QED  BY <1>3, <2>4, <2>5 DEF SearchFlag
  <1>4. CASE SearchFindList(l)
    <2>1. DocsOK'
      BY <1>4 DEF SearchFindList, DocsOK
    <2>2. CASE lists = <<>>
      BY <1>4, <2>1, <2>2, MoveLoop
         DEF SearchFindList, At, LoopPCs, AskPCs, BeforePoll
    <2>3. CASE lists # <<>>
      BY <1>4, <2>1, <2>3, MoveLoop
         DEF SearchFindList, At, LoopPCs, AskPCs, BeforePoll
    <2>. QED  BY <2>2, <2>3
  <1>5. ASSUME AfterList(l), loop[l].pc \in {"create", "push"}
        PROVE  LoopsOK'
    <2>1. CASE loop[l].flagged
      <3>1. Goto(l, "poll")
        BY <1>5, <2>1 DEF AfterList
      <3>2. loop[l].polls < Polls
        BY <1>1, <1>5, PollsAssumption DEF LoopOK, BeforePoll
      <3>. QED  BY <1>5, <3>1, <3>2, MoveLoop DEF LoopPCs, AskPCs, BeforePoll
    <2>2. CASE ~loop[l].flagged
      BY <1>5, <2>2, Fresh DEF AfterList
    <2>. QED  BY <2>1, <2>2
  <1>6. CASE SearchCreateList(l)
    <2>1. {loop[l].d} \in SUBSET Drivers
      BY <1>2, <1>6 DEF SearchCreateList, At, AskPCs
    <2>2. lists' \in Seq(SUBSET Drivers)
      BY <1>6, <2>1 DEF SearchCreateList, DocsOK
    <2>3. DocsOK'
      BY <1>6, <2>2 DEF SearchCreateList, DocsOK
    <2>. QED  BY <1>5, <1>6, <2>3 DEF SearchCreateList, At
  <1>7. CASE SearchPush(l)
    <2>1. {loop[l].d} \in SUBSET Drivers
      BY <1>2, <1>7 DEF SearchPush, At, AskPCs
    <2>2. lists \in [1..Len(lists) -> SUBSET Drivers] /\ Len(lists) \in Nat
      BY DEF DocsOK
    <2>3. lists' \in [1..Len(lists) -> SUBSET Drivers]
      BY <1>7, <2>1, <2>2 DEF SearchPush
    <2>4. lists' \in Seq(SUBSET Drivers)
      BY <2>2, <2>3
    <2>5. DocsOK'
      BY <1>7, <2>4 DEF SearchPush, DocsOK
    <2>. QED  BY <1>5, <1>7, <2>5 DEF SearchPush, At
  <1>8. CASE PollAnswer(l)
    <2>. DEFINE r == [loop[l] EXCEPT !.pc = "check",
                                     !.resp = driver[loop[l].d].answer,
                                     !.polls = @ + 1]
    <2>1. loop[l].d \in Drivers /\ loop[l].polls < Polls
      BY <1>1, <1>2, <1>8 DEF PollAnswer, At, AskPCs, LoopOK
    <2>2. driver[loop[l].d].answer \in {"none", "accepted", "decline"}
      BY <2>1 DEF DocsOK, DriverType
    <2>3. loop[l].polls + 1 \in 0..Polls
      BY <1>1, <2>1, PollsAssumption DEF LoopType
    <2>4. LoopOK(r)
      BY <1>1, <2>1, <2>2, <2>3 DEF LoopOK, LoopType, LoopPCs, BeforePoll
    <2>5. loop' = [loop EXCEPT ![l] = r]
      BY <1>8 DEF PollAnswer
    <2>6. DocsOK'
      BY <1>8 DEF PollAnswer, DocsOK
    <2>. QED  BY <2>4, <2>5, <2>6, SetLoop
  <1>. QED  BY <1>3, <1>4, <1>6, <1>7, <1>8

LEMMA EndType ==
  ASSUME TypeInv, NEW l \in Loops,
         \/ PollBooking(l) \/ SearchClear(l) \/ SearchFail(l) \/ SearchUnflag(l)
         \/ SearchReject(l) \/ SearchExits(l)
  PROVE  TypeInv'
  <1>. USE DEF TypeInv
  <1>1. LoopOK(loop[l]) /\ loop[l] \in LoopType
    BY DEF LoopsOK, LoopOK
  <1>2. loop[l].pc \in AskPCs => loop[l].d \in Drivers
    BY <1>1 DEF LoopOK
  <1>3. CASE PollBooking(l)
    <2>1. DocsOK'
      BY <1>3 DEF PollBooking, DocsOK
    <2>2. CASE EndSearch(l)
      BY <2>1, <2>2, Fresh
    <2>3. CASE Goto(l, AfterPoll(l))
      <3>1. AfterPoll(l) \in {"clear.end", "clear.go", "poll"}
        BY DEF AfterPoll
      <3>2. AfterPoll(l) = "poll" => loop[l].polls < Polls
        BY <1>1, PollsAssumption DEF AfterPoll, LoopType
      <3>3. loop[l].pc \in AskPCs
        BY <1>3 DEF PollBooking, At, AskPCs
      <3>4. AfterPoll(l) \in LoopPCs /\ AfterPoll(l) \notin BeforePoll
        BY <3>1 DEF LoopPCs, BeforePoll
      <3>. QED  BY <2>1, <2>3, <3>2, <3>3, <3>4, MoveLoop
    <2>. QED  BY <1>3, <2>2, <2>3 DEF PollBooking
  <1>4. CASE SearchClear(l)
    <2>1. loop[l].d \in Drivers
      BY <1>2, <1>4 DEF SearchClear, At, AskPCs
    <2>2. driver' \in [Drivers -> DriverType]
      BY <1>4, <2>1, FlagType DEF SearchClear
    <2>3. DocsOK'
      BY <1>4, <2>2 DEF SearchClear, DocsOK
    <2>. QED  BY <1>4, <2>3, Fresh DEF SearchClear
  <1>5. CASE SearchFail(l)
    <2>1. booking' \in BookingType
      BY <1>5 DEF SearchFail, DocsOK, BookingType, Statuses
    <2>2. DocsOK'
      BY <1>5, <2>1 DEF SearchFail, DocsOK
    <2>. QED  BY <1>5, <2>2, MoveLoop DEF SearchFail, At, LoopPCs, AskPCs, BeforePoll
  <1>6. CASE SearchUnflag(l)
    <2>1. driver' \in [Drivers -> DriverType]
      BY <1>6 DEF SearchUnflag, DocsOK, DriverType
    <2>2. DocsOK'
      BY <1>6, <2>1 DEF SearchUnflag, DocsOK
    <2>. QED  BY <1>6, <2>2, MoveLoop DEF SearchUnflag, At, LoopPCs, AskPCs, BeforePoll
  <1>7. CASE SearchReject(l)
    <2>1. DocsOK'
      BY <1>7 DEF SearchReject, DocsOK
    <2>. QED  BY <1>7, <2>1, Fresh DEF SearchReject
  <1>8. CASE SearchExits(l)
    <2>1. \A m \in Loops : LoopOK(loop'[m])
      <3>. TAKE m \in Loops
      <3>1. loop'[m] = loop[m] \/ loop'[m] = [NewLoop EXCEPT !.pc = "ended"]
        BY <1>8 DEF SearchExits
      <3>. QED  BY <3>1, FreshLoops DEF LoopsOK
    <2>2. LoopsOK'
      BY <1>8, <2>1 DEF SearchExits, LoopsOK, LoopOK
    <2>3. handler' \in [Drivers -> HandlerType]
      BY <1>8 DEF SearchExits, HandlerType, HandlerPCs, IdleHandler
    <2>4. DocsOK'
      BY <1>8, <2>3 DEF SearchExits, DocsOK
    <2>. QED  BY <2>2, <2>4
  <1>. QED  BY <1>3, <1>4, <1>5, <1>6, <1>7, <1>8

-----------------------------------------------------------------------------
\* Requests change documents; a driver's cancel may start a search.
LEMMA KeepLoops ==
  ASSUME LoopsOK, UNCHANGED loop
  PROVE  LoopsOK'
  BY DEF LoopsOK, LoopOK

LEMMA HandlerSet ==
  ASSUME DocsOK, NEW d \in Drivers
  PROVE  /\ \A pc \in HandlerPCs :
              [handler EXCEPT ![d].pc = pc] \in [Drivers -> HandlerType]
         /\ [handler EXCEPT ![d] = IdleHandler] \in [Drivers -> HandlerType]
  BY DEF DocsOK, HandlerType, HandlerPCs, IdleHandler

LEMMA RequestType ==
  ASSUME TypeInv, NEW d \in Drivers,
         \/ Accept(d) \/ Decline(d) \/ DriverCancel(d) \/ DriverSwitches(d)
         \/ HandlerStep(d)
  PROVE  TypeInv'
  <1>. USE DEF TypeInv
  <1>0. Request => requests' \in 0..MaxRequests
    BY RequestsAssumption DEF Request, DocsOK
  <1>1. \A a \in {"accepted", "decline"} : Record(d, a) \in DriverType
    BY DEF Record, DocsOK, DriverType
  <1>2. \A f \in BOOLEAN, g \in BOOLEAN :
           [driver EXCEPT ![d].free = f, ![d].flag = g] \in [Drivers -> DriverType]
    <2>. TAKE f \in BOOLEAN, g \in BOOLEAN
    <2>1. driver \in [Drivers -> DriverType] /\ driver[d] \in DriverType
      BY DEF DocsOK
    <2>2. [driver[d] EXCEPT !.free = f, !.flag = g] \in DriverType
      BY <2>1 DEF DriverType
    <2>. QED  BY <2>1, <2>2
  <1>3. CASE Accept(d)
    <2>1. booking' \in BookingType
      BY <1>3 DEF Accept, DocsOK, BookingType, Statuses
    <2>2. handler' \in [Drivers -> HandlerType]
      BY <1>3, HandlerSet DEF Accept, HandlerPCs
    <2>3. DocsOK'
      BY <1>0, <1>3, <2>1, <2>2 DEF Accept, DocsOK
    <2>. QED  BY <1>3, <2>3, KeepLoops DEF Accept
  <1>4. CASE Decline(d)
    <2>1. driver' \in [Drivers -> DriverType]
      BY <1>1, <1>4 DEF Decline, DocsOK
    <2>2. handler' \in [Drivers -> HandlerType]
      BY <1>4, HandlerSet DEF Decline, HandlerPCs
    <2>3. DocsOK'
      BY <1>0, <1>4, <2>1, <2>2 DEF Decline, DocsOK
    <2>. QED  BY <1>4, <2>3, KeepLoops DEF Decline
  <1>5. CASE DriverCancel(d)
    <2>1. driver' \in [Drivers -> DriverType]
      BY <1>2, <1>5 DEF DriverCancel
    <2>2. handler' \in [Drivers -> HandlerType]
      BY <1>5, HandlerSet DEF DriverCancel, HandlerPCs
    <2>3. DocsOK'
      BY <1>0, <1>5, <2>1, <2>2 DEF DriverCancel, DocsOK
    <2>. QED  BY <1>5, <2>3, KeepLoops DEF DriverCancel
  <1>6. CASE DriverSwitches(d)
    <2>1. driver' \in [Drivers -> DriverType]
      BY <1>6 DEF DriverSwitches, DocsOK, DriverType
    <2>2. DocsOK'
      BY <1>6, <2>1 DEF DriverSwitches, DocsOK
    <2>. QED  BY <1>6, <2>2, KeepLoops DEF DriverSwitches
  <1>7. CASE AcceptDriver(d)
    <2>1. driver' \in [Drivers -> DriverType]
      BY <1>2, <1>7 DEF AcceptDriver
    <2>2. handler' \in [Drivers -> HandlerType]
      BY <1>7, HandlerSet DEF AcceptDriver, HandlerPCs
    <2>3. DocsOK'
      BY <1>7, <2>1, <2>2 DEF AcceptDriver, DocsOK
    <2>. QED  BY <1>7, <2>3, KeepLoops DEF AcceptDriver
  <1>8. CASE AcceptRecord(d)
    <2>1. driver' \in [Drivers -> DriverType]
      BY <1>1, <1>8 DEF AcceptRecord, DocsOK
    <2>2. handler' \in [Drivers -> HandlerType]
      BY <1>8, HandlerSet DEF AcceptRecord, HandlerPCs
    <2>3. DocsOK'
      BY <1>8, <2>1, <2>2 DEF AcceptRecord, DocsOK
    <2>. QED  BY <1>8, <2>3, KeepLoops DEF AcceptRecord
  <1>9. CASE AcceptClear(d)
    <2>1. driver' \in [Drivers -> DriverType]
      BY <1>9 DEF AcceptClear, DocsOK, DriverType
    <2>2. handler' \in [Drivers -> HandlerType]
      BY <1>9, HandlerSet DEF AcceptClear
    <2>3. DocsOK'
      BY <1>9, <2>1, <2>2 DEF AcceptClear, DocsOK
    <2>. QED  BY <1>9, <2>3, KeepLoops DEF AcceptClear
  <1>10. CASE DeclineClear(d)
    <2>1. driver' \in [Drivers -> DriverType]
      BY <1>10, FlagType DEF DeclineClear
    <2>2. handler' \in [Drivers -> HandlerType]
      BY <1>10, HandlerSet DEF DeclineClear, HandlerPCs
    <2>3. DocsOK'
      BY <1>10, <2>1, <2>2 DEF DeclineClear, DocsOK
    <2>. QED  BY <1>10, <2>3, KeepLoops DEF DeclineClear
  <1>11. CASE DeclineRead(d)
    <2>1. booking.driver \in Drivers \cup {None}
      BY DEF DocsOK, BookingType
    <2>2. handler' \in [Drivers -> HandlerType]
      BY <1>11, <2>1 DEF DeclineRead, DocsOK, HandlerType, HandlerPCs, IdleHandler
    <2>3. DocsOK'
      BY <1>11, <2>2 DEF DeclineRead, DocsOK
    <2>. QED  BY <1>11, <2>3, KeepLoops DEF DeclineRead
  <1>12. CASE DeclineWrite(d)
    <2>1. handler[d].drv \in Drivers \cup {None}
      BY DEF DocsOK, HandlerType
    <2>2. booking' \in BookingType
      BY <1>12, <2>1 DEF DeclineWrite, DocsOK, BookingType, Statuses
    <2>3. handler' \in [Drivers -> HandlerType]
      BY <1>12, HandlerSet DEF DeclineWrite
    <2>4. DocsOK'
      BY <1>12, <2>2, <2>3 DEF DeclineWrite, DocsOK
    <2>. QED  BY <1>12, <2>4, KeepLoops DEF DeclineWrite
  <1>13. CASE DriverCancelWrite(d)
    <2>1. booking' \in BookingType
      BY <1>13 DEF DriverCancelWrite, DocsOK, BookingType, Statuses
    <2>2. handler' \in [Drivers -> HandlerType]
      BY <1>13, HandlerSet DEF DriverCancelWrite, HandlerPCs
    <2>3. DocsOK'
      BY <1>13, <2>1, <2>2 DEF DriverCancelWrite, DocsOK
    <2>. QED  BY <1>13, <2>3, KeepLoops DEF DriverCancelWrite
  <1>14. CASE DriverCancelSearch(d)
    <2>1. handler' \in [Drivers -> HandlerType]
      BY <1>14, HandlerSet DEF DriverCancelSearch
    <2>2. DocsOK'
      BY <1>14, <2>1 DEF DriverCancelSearch, DocsOK
    <2>3. ASSUME NEW l \in Loops, At(l, "new"), Goto(l, "read")
          PROVE  LoopsOK'
      BY <2>3, MoveLoop DEF At, LoopPCs, AskPCs, BeforePoll
    <2>. QED  BY <1>14, <2>2, <2>3, KeepLoops DEF DriverCancelSearch
  <1>. QED  BY <1>3, <1>4, <1>5, <1>6, <1>7, <1>8, <1>9, <1>10, <1>11, <1>12, <1>13,
               <1>14 DEF HandlerStep

LEMMA CustomerType ==
  ASSUME TypeInv, CustomerCancel \/ CustomerCancelOffer
  PROVE  TypeInv'
  <1>. USE DEF TypeInv
  <1>1. CASE CustomerCancel
    <2>1. booking' \in BookingType
      BY <1>1 DEF CustomerCancel, DocsOK, BookingType, Statuses
    <2>2. DocsOK'
      BY <1>1, <2>1 DEF CustomerCancel, DocsOK
    <2>. QED  BY <1>1, <2>2, KeepLoops DEF CustomerCancel
  <1>2. CASE CustomerCancelOffer
    <2>. DEFINE Reset(d) == [driver EXCEPT ![d].free = TRUE, ![d].flag = FALSE]
    <2>0. driver \in [Drivers -> DriverType]
      BY DEF DocsOK
    <2>1. driver' \in [Drivers -> DriverType]
      <3>1. \A d \in Drivers : Reset(d) \in [Drivers -> DriverType]
        BY <2>0 DEF DriverType
      <3>2. driver' = driver \/ \E d \in Drivers : driver' = Reset(d)
        BY <1>2 DEF CustomerCancelOffer
      <3>. QED  BY <2>0, <3>1, <3>2
    <2>2. DocsOK'
      BY <1>2, <2>1 DEF CustomerCancelOffer, DocsOK
    <2>. QED  BY <1>2, <2>2, KeepLoops DEF CustomerCancelOffer
  <1>. QED  BY <1>1, <1>2

LEMMA NextType == TypeInv /\ [Next]_vars => TypeInv'
  <1>. SUFFICES ASSUME TypeInv, [Next]_vars PROVE TypeInv'
    OBVIOUS
  <1>1. CASE UNCHANGED vars
    BY <1>1, KeepLoops DEF vars, TypeInv, DocsOK
  <1>2. ASSUME NEW l \in Loops, StartSearch(l) \/ TimePasses(l) \/ LoopStep(l)
        PROVE  TypeInv'
    BY <1>2, RoundType, AskType, EndType DEF LoopStep
  <1>3. ASSUME NEW d \in Drivers,
               \/ Accept(d) \/ Decline(d) \/ DriverCancel(d) \/ DriverSwitches(d)
               \/ HandlerStep(d)
        PROVE  TypeInv'
    BY <1>3, RequestType
  <1>. QED  BY <1>1, <1>2, <1>3, CustomerType DEF Next

\* Every document, and everything a search or a request remembers, keeps its
\* type, and no search polls more often than it may.
THEOREM SearchTypeCorrect == Spec => []TypeOK
  <1>1. Spec => []TypeInv
    BY InitType, NextType, PTL DEF Spec
  <1>. QED  BY <1>1, TypeInvSuffices, PTL

-----------------------------------------------------------------------------
(* OfferWatched.  It is inductive with one fact more: a cancelled booking,  *)
(* at whose sight a search ends without clearing the flag, was cancelled by *)
(* the customer.                                                            *)

OffersInv ==
    /\ OfferWatched
    /\ booking.status = "cancelled" => "cancel" \in lost

\* A step that flags nobody keeps OfferWatched if whoever is still flagged keeps
\* the searches that watch him.
LEMMA KeepWatch ==
  ASSUME OfferWatched, lost \subseteq lost',
         \A d \in Drivers : driver'[d].flag => driver[d].flag,
         \A d \in Drivers, l \in Loops :
            driver'[d].flag /\ Watches(l, d) => Watches(l, d)'
  PROVE  OfferWatched'
  BY DEF OfferWatched

WatchPCs == {"list", "create", "push", "poll", "check", "clear.go", "clear.end"}

\* A search that was watching nobody, or that moves on while watching.
LEMMA OneLoop ==
  ASSUME TypeInv, OfferWatched, NEW l \in Loops, UNCHANGED lost,
         \A m \in Loops \ {l} : loop'[m] = loop[m],
         \A d \in Drivers : driver'[d].flag => driver[d].flag,
         \/ loop[l].pc \notin WatchPCs
         \/ /\ loop'[l].pc \in WatchPCs
            /\ loop'[l].d = loop[l].d /\ loop'[l].flagged = loop[l].flagged
  PROVE  OfferWatched'
  <1>1. \A d \in Drivers, m \in Loops : Watches(m, d) => Watches(m, d)'
    BY DEF Watches, WatchPCs
  <1>. QED  BY <1>1, KeepWatch

\* What assigning one search's record does to its fields and to the others.
LEMMA OthersStay ==
  ASSUME TypeInv, NEW l \in Loops
  PROVE  /\ NextRound(l) \/ EndSearch(l) =>
              \A m \in Loops \ {l} : loop'[m] = loop[m]
         /\ \A pc \in LoopPCs : Goto(l, pc) =>
              /\ \A m \in Loops \ {l} : loop'[m] = loop[m]
              /\ loop'[l].pc = pc
              /\ loop'[l].d = loop[l].d /\ loop'[l].flagged = loop[l].flagged
  <1>1. loop = [m \in Loops |-> loop[m]] /\ loop[l] \in LoopType
    BY DEF TypeInv, LoopsOK, LoopOK
  <1>. QED  BY <1>1 DEF NextRound, EndSearch, Goto, LoopType

LEMMA RoundWatched ==
  ASSUME TypeInv, OffersInv, NEW l \in Loops,
         \/ StartSearch(l) \/ TimePasses(l) \/ SearchRead(l) \/ SearchListed(l)
         \/ SearchAgain(l) \/ \E d \in Near : SearchAsk(l, d) \/ SearchPassOver(l, d)
  PROVE  OffersInv'
  <1>1. loop = [m \in Loops |-> loop[m]] /\ loop[l] \in LoopType
    BY DEF TypeInv, LoopsOK, LoopOK
  <1>2. UNCHANGED <<booking, driver, lost>>
    BY DEF StartSearch, TimePasses, SearchRead, SearchListed, SearchAgain, SearchAsk,
           SearchPassOver
  <1>3. \A m \in Loops \ {l} : loop'[m] = loop[m]
    BY <1>1 DEF StartSearch, TimePasses, SearchRead, SearchListed, SearchAgain,
                SearchAsk, SearchPassOver, Goto, NextRound, EndSearch
  <1>4. loop[l].pc \notin WatchPCs \/ TimePasses(l)
    BY DEF WatchPCs, StartSearch, SearchRead, SearchListed, SearchAgain, SearchAsk,
           SearchPassOver, At
  <1>5. TimePasses(l) => /\ loop'[l].pc = loop[l].pc
                         /\ loop'[l].d = loop[l].d
                         /\ loop'[l].flagged = loop[l].flagged
    BY <1>1 DEF TimePasses, LoopType
  <1>6. OfferWatched'
    BY <1>2, <1>3, <1>4, <1>5, OneLoop DEF OffersInv
  <1>. QED  BY <1>2, <1>6 DEF OffersInv

LEMMA AskWatched ==
  ASSUME TypeInv, OffersInv, NEW l \in Loops,
         \/ SearchFlag(l) \/ SearchFindList(l) \/ SearchCreateList(l)
         \/ SearchPush(l) \/ PollAnswer(l)
  PROVE  OffersInv'
  <1>1. loop = [m \in Loops |-> loop[m]] /\ loop[l] \in LoopType
    BY DEF TypeInv, LoopsOK, LoopOK
  <1>2. driver \in [Drivers -> DriverType]
    BY DEF TypeInv, DocsOK
  <1>3. UNCHANGED <<booking, lost>>
    BY DEF SearchFlag, SearchFindList, SearchCreateList, SearchPush, PollAnswer
  <1>4. CASE SearchFlag(l)
    <2>1. \A m \in Loops \ {l} : loop'[m] = loop[m]
      BY <1>1, <1>4 DEF SearchFlag, Goto
    <2>2. loop[l].pc \notin WatchPCs
      BY <1>4 DEF SearchFlag, At, WatchPCs
    <2>3. CASE UNCHANGED driver
      BY <1>3, <2>1, <2>2, <2>3, OneLoop DEF OffersInv
    <2>4. CASE /\ driver' = [driver EXCEPT ![loop[l].d].flag = TRUE]
               /\ loop' = [loop EXCEPT ![l].pc = "list", ![l].flagged = TRUE]
      <3>1. \A d \in Drivers : d # loop[l].d => driver'[d] = driver[d]
        BY <1>2, <2>4
      <3>2. Watches(l, loop[l].d)'
        BY <1>1, <2>4 DEF Watches, LoopType
      <3>3. \A d \in Drivers, m \in Loops : Watches(m, d) => Watches(m, d)'
        BY <2>1, <2>2 DEF Watches, WatchPCs
      <3>4. loop'[l].d = loop[l].d
        BY <1>1, <2>4 DEF LoopType
      <3>. QED  BY <1>3, <3>1, <3>2, <3>3, <3>4 DEF OffersInv, OfferWatched
    <2>. QED  BY <1>4, <2>3, <2>4 DEF SearchFlag
  <1>5. CASE SearchFindList(l)
    BY <1>1, <1>3, <1>5, OneLoop
       DEF SearchFindList, At, Goto, WatchPCs, OffersInv, LoopType
  <1>6. ASSUME UNCHANGED driver, AfterList(l), loop[l].pc \in {"create", "push"}
        PROVE  OffersInv'
    <2>1. CASE loop[l].flagged
      BY <1>1, <1>3, <1>6, <2>1, OneLoop DEF AfterList, Goto, WatchPCs, OffersInv, LoopType
    <2>2. CASE ~loop[l].flagged
      <3>1. \A m \in Loops \ {l} : loop'[m] = loop[m]
        BY <1>6, <2>2, OthersStay DEF AfterList
      <3>2. \A d \in Drivers, m \in Loops : Watches(m, d) => Watches(m, d)'
        BY <2>2, <3>1 DEF Watches
      <3>. QED  BY <1>3, <1>6, <3>2, KeepWatch DEF OffersInv
    <2>. QED  BY <2>1, <2>2
  <1>7. CASE SearchCreateList(l) \/ SearchPush(l)
    BY <1>6, <1>7 DEF SearchCreateList, SearchPush, At
  <1>8. CASE PollAnswer(l)
    BY <1>1, <1>3, <1>8, OneLoop DEF PollAnswer, At, WatchPCs, OffersInv, LoopType
  <1>. QED  BY <1>4, <1>5, <1>7, <1>8

LEMMA EndWatched ==
  ASSUME TypeInv, OffersInv, NEW l \in Loops,
         \/ PollBooking(l) \/ SearchClear(l) \/ SearchFail(l) \/ SearchUnflag(l)
         \/ SearchReject(l) \/ SearchExits(l)
  PROVE  OffersInv'
  <1>1. driver \in [Drivers -> DriverType] /\ booking \in BookingType
    BY DEF TypeInv, DocsOK
  <1>2. CASE PollBooking(l)
    <2>1. UNCHANGED <<booking, driver, lost>>
      BY <1>2 DEF PollBooking
    <2>2. CASE booking.status = "cancelled"
      BY <2>1, <2>2 DEF OffersInv, OfferWatched
    <2>3. CASE booking.status # "cancelled"
      <3>1. AfterPoll(l) \in LoopPCs /\ AfterPoll(l) \in WatchPCs
        BY DEF AfterPoll, LoopPCs, WatchPCs
      <3>2. Goto(l, AfterPoll(l))
        BY <1>2, <2>3 DEF PollBooking
      <3>3. OfferWatched'
        BY <2>1, <3>1, <3>2, OthersStay, OneLoop DEF OffersInv
      <3>. QED  BY <2>1, <3>3 DEF OffersInv
    <2>. QED  BY <2>2, <2>3
  <1>3. CASE SearchClear(l)
    <2>1. \A m \in Loops \ {l} : loop'[m] = loop[m]
      BY <1>3, OthersStay DEF SearchClear
    <2>2. \A d \in Drivers : driver'[d].flag => driver[d].flag /\ d # loop[l].d
      BY <1>1, <1>3 DEF SearchClear, DriverType
    <2>3. \A d \in Drivers, m \in Loops :
             driver'[d].flag /\ Watches(m, d) => Watches(m, d)'
      BY <2>1, <2>2 DEF Watches
    <2>. QED  BY <1>3, <2>2, <2>3, KeepWatch DEF SearchClear, OffersInv
  <1>4. CASE SearchFail(l)
    <2>1. /\ \A m \in Loops \ {l} : loop'[m] = loop[m]
          /\ loop[l].pc \notin WatchPCs
      BY <1>4, OthersStay DEF SearchFail, At, WatchPCs, LoopPCs
    <2>2. OfferWatched'
      BY <1>4, <2>1, OneLoop DEF SearchFail, OffersInv
    <2>3. booking'.status = "failed"
      BY <1>1, <1>4 DEF SearchFail, BookingType
    <2>. QED  BY <2>2, <2>3 DEF OffersInv
  <1>5. CASE SearchUnflag(l)
    <2>1. \A d \in Drivers : ~driver'[d].flag
      BY <1>1, <1>5 DEF SearchUnflag, DriverType
    <2>. QED  BY <1>5, <2>1 DEF SearchUnflag, OffersInv, OfferWatched
  <1>6. CASE SearchReject(l)
    <2>1. /\ \A m \in Loops \ {l} : loop'[m] = loop[m]
          /\ loop[l].pc \notin WatchPCs
      BY <1>6, OthersStay DEF SearchReject, At, WatchPCs
    <2>. QED  BY <1>6, <2>1, OneLoop DEF SearchReject, OffersInv
  <1>7. CASE SearchExits(l)
    BY <1>7 DEF SearchExits, OffersInv, OfferWatched
  <1>. QED  BY <1>2, <1>3, <1>4, <1>5, <1>6, <1>7

\* Requests flag nobody, and touch no search but one they start.
LEMMA RequestWatched ==
  ASSUME TypeInv, OffersInv, NEW d \in Drivers,
         \/ Accept(d) \/ Decline(d) \/ DriverCancel(d) \/ DriverSwitches(d)
         \/ HandlerStep(d)
  PROVE  OffersInv'
  <1>1. driver \in [Drivers -> DriverType] /\ booking \in BookingType
    BY DEF TypeInv, DocsOK
  <1>2. lost \subseteq lost'
    BY DEF Accept, Decline, DriverCancel, DriverSwitches, HandlerStep, AcceptDriver,
           AcceptRecord, AcceptClear, DeclineClear, DeclineRead, DeclineWrite,
           DriverCancelWrite, DriverCancelSearch
  <1>3. booking' = booking \/ booking'.status \in {"accepted", "request", "none"}
    BY <1>1 DEF Accept, Decline, DriverCancel, DriverSwitches, HandlerStep,
           AcceptDriver, AcceptRecord, AcceptClear, DeclineClear, DeclineRead,
           DeclineWrite, DriverCancelWrite, DriverCancelSearch, BookingType
  <1>4. \A x \in Drivers : driver'[x].flag => driver[x].flag
    <2>1. CASE UNCHANGED driver
      BY <2>1
    <2>2. \A a \in {"accepted", "decline"} : Record(d, a).flag = driver[d].flag
      BY <1>1 DEF Record, DriverType
    <2>3. CASE Decline(d) \/ AcceptRecord(d)
      BY <1>1, <2>2, <2>3 DEF Decline, AcceptRecord
    <2>4. CASE DriverCancel(d) \/ AcceptDriver(d)
      BY <1>1, <2>4 DEF DriverCancel, AcceptDriver, DriverType
    <2>5. CASE DeclineClear(d) \/ DriverSwitches(d)
      BY <1>1, <2>5 DEF DeclineClear, DriverSwitches, DriverType
    <2>6. CASE AcceptClear(d)
      BY <1>1, <2>6 DEF AcceptClear, DriverType
    <2>. QED  BY <2>1, <2>3, <2>4, <2>5, <2>6
              DEF HandlerStep, Accept, DeclineRead, DeclineWrite, DriverCancelWrite,
                  DriverCancelSearch
  <1>5. \A x \in Drivers, l \in Loops : Watches(l, x) => Watches(l, x)'
    <2>1. CASE UNCHANGED loop
      BY <2>1 DEF Watches
    <2>2. ASSUME NEW m \in Loops, At(m, "new"), Goto(m, "read")
          PROVE  \A x \in Drivers, l \in Loops : Watches(l, x) => Watches(l, x)'
      <3>1. \A l \in Loops \ {m} : loop'[l] = loop[l]
        BY <2>2, OthersStay DEF LoopPCs
      <3>. QED  BY <2>2, <3>1 DEF Watches, At
    <2>. QED  BY <2>1, <2>2
              DEF Accept, Decline, DriverCancel, DriverSwitches, HandlerStep,
                  AcceptDriver, AcceptRecord, AcceptClear, DeclineClear, DeclineRead,
                  DeclineWrite, DriverCancelWrite, DriverCancelSearch
  <1>6. OfferWatched'
    BY <1>2, <1>4, <1>5, KeepWatch DEF OffersInv
  <1>. QED  BY <1>2, <1>3, <1>6 DEF OffersInv

LEMMA CustomerWatched ==
  ASSUME TypeInv, OffersInv, CustomerCancel \/ CustomerCancelOffer
  PROVE  OffersInv'
  <1>1. CASE CustomerCancel
    BY <1>1 DEF CustomerCancel, OffersInv, OfferWatched
  <1>2. CASE CustomerCancelOffer
    <2>. DEFINE Reset(d) == [driver EXCEPT ![d].free = TRUE, ![d].flag = FALSE]
    <2>1. \A d \in Drivers, x \in Drivers : Reset(d)[x].flag => driver[x].flag
      BY DEF TypeInv, DocsOK, DriverType
    <2>2. driver' = driver \/ \E d \in Drivers : driver' = Reset(d)
      BY <1>2 DEF CustomerCancelOffer
    <2>3. \A x \in Drivers : driver'[x].flag => driver[x].flag
      BY <2>1, <2>2
    <2>4. \A x \in Drivers, l \in Loops : Watches(l, x) => Watches(l, x)'
      BY <1>2 DEF CustomerCancelOffer, Watches
    <2>. QED  BY <1>2, <2>3, <2>4, KeepWatch DEF CustomerCancelOffer, OffersInv
  <1>. QED  BY <1>1, <1>2

LEMMA NextWatched == TypeInv /\ OffersInv /\ [Next]_vars => OffersInv'
  <1>. SUFFICES ASSUME TypeInv, OffersInv, [Next]_vars PROVE OffersInv'
    OBVIOUS
  <1>1. CASE UNCHANGED vars
    BY <1>1 DEF vars, OffersInv, OfferWatched, Watches
  <1>2. ASSUME NEW l \in Loops, StartSearch(l) \/ TimePasses(l) \/ LoopStep(l)
        PROVE  OffersInv'
    BY <1>2, RoundWatched, AskWatched, EndWatched DEF LoopStep
  <1>3. ASSUME NEW d \in Drivers,
               \/ Accept(d) \/ Decline(d) \/ DriverCancel(d) \/ DriverSwitches(d)
               \/ HandlerStep(d)
        PROVE  OffersInv'
    BY <1>3, RequestWatched
  <1>. QED  BY <1>1, <1>2, <1>3, CustomerWatched DEF Next

LEMMA InitWatched == Init => OffersInv
  <1>. SUFFICES ASSUME Init PROVE OffersInv
    OBVIOUS
  <1>1. \A d \in Drivers : driver[d].flag = FALSE
    BY DEF Init
  <1>. QED  BY <1>1 DEF Init, OffersInv, OfferWatched

\* However many searches run and requests come in: a driver who is flagged, and
\* so gets no other offer, is watched by a search that will clear his flag, unless
\* the customer cancelled or the server exited.
THEOREM OffersWatched == Spec => []OfferWatched
  <1>1. Spec => [](TypeInv /\ OffersInv)
    <2>1. Init => TypeInv /\ OffersInv
      BY InitType, InitWatched
    <2>2. TypeInv /\ OffersInv /\ [Next]_vars => (TypeInv /\ OffersInv)'
      BY NextType, NextWatched
    <2>. QED  BY <2>1, <2>2, PTL DEF Spec
  <1>2. OffersInv => OfferWatched
    BY DEF OffersInv
  <1>. QED  BY <1>1, <1>2, PTL

-----------------------------------------------------------------------------
(* AskedOnce.  While there is one list at most, everybody a search has      *)
(* asked is on it, but the one it is about to put there; so the round that  *)
(* has read the list leaves them all out.                                   *)

Listed == IF lists = <<>> THEN {} ELSE lists[1]

AskedOK(r) ==
    /\ r.pc = "new" => r.asked = {}
    /\ r.pc \in {"read", "listed", "scan", "poll", "check", "clear.go"} =>
          r.asked \subseteq Listed
    /\ r.pc = "scan" => r.asked \subseteq r.skip
    /\ r.pc \in {"flag", "list", "create", "push"} => r.asked \ {r.d} \subseteq Listed
    /\ r.pc = "push" => lists # <<>>

AskedInv == Len(lists) <= 1 => \A l \in Loops : AskedOK(loop[l])

\* A list that has grown, or been created as the only one, keeps what was listed.
LEMMA ListsGrow ==
  ASSUME TypeInv, [Next]_vars
  PROVE  /\ Len(lists) <= Len(lists')
         /\ Len(lists') <= 1 => Listed \subseteq Listed'
         /\ lists # <<>> => lists' # <<>>
  <1>1. lists \in Seq(SUBSET Drivers)
    BY DEF TypeInv, DocsOK
  <1>2. ASSUME NEW x \in SUBSET Drivers, lists' = Append(lists, x)
        PROVE  /\ Len(lists) <= Len(lists')
               /\ Len(lists') <= 1 => Listed \subseteq Listed'
               /\ lists # <<>> => lists' # <<>>
    BY <1>1, <1>2 DEF Listed
  <1>3. ASSUME NEW x \in SUBSET Drivers, lists' = [lists EXCEPT ![1] = @ \cup x]
        PROVE  /\ Len(lists) <= Len(lists')
               /\ Len(lists') <= 1 => Listed \subseteq Listed'
               /\ lists # <<>> => lists' # <<>>
    BY <1>1, <1>3 DEF Listed
  <1>4. CASE UNCHANGED lists
    BY <1>1, <1>4 DEF Listed
  <1>5. ASSUME NEW l \in Loops, SearchCreateList(l) \/ SearchPush(l)
        PROVE  {loop[l].d} \in SUBSET Drivers
    BY <1>5 DEF SearchCreateList, SearchPush, At, TypeInv, LoopsOK, LoopOK, AskPCs
  <1>6. \/ UNCHANGED lists
        \/ \E l \in Loops : SearchCreateList(l) \/ SearchPush(l)
    <2>1. ASSUME NEW d \in Drivers,
                 \/ Accept(d) \/ Decline(d) \/ DriverCancel(d) \/ DriverSwitches(d)
                 \/ HandlerStep(d)
          PROVE  UNCHANGED lists
      BY <2>1 DEF Accept, Decline, DriverCancel, DriverSwitches, HandlerStep,
                  AcceptDriver, AcceptRecord, AcceptClear, DeclineClear, DeclineRead,
                  DeclineWrite, DriverCancelWrite, DriverCancelSearch
    <2>2. ASSUME NEW l \in Loops, StartSearch(l) \/ TimePasses(l) \/ LoopStep(l)
          PROVE  UNCHANGED lists \/ SearchCreateList(l) \/ SearchPush(l)
      BY <2>2 DEF StartSearch, TimePasses, LoopStep, SearchRead, SearchListed,
                  SearchAgain, SearchAsk, SearchPassOver, SearchFlag, SearchFindList,
                  PollAnswer, PollBooking, SearchClear, SearchFail, SearchUnflag,
                  SearchReject, SearchExits
    <2>3. CustomerCancel \/ CustomerCancelOffer \/ UNCHANGED vars => UNCHANGED lists
      BY DEF CustomerCancel, CustomerCancelOffer, vars
    <2>. QED  BY <2>1, <2>2, <2>3 DEF Next
  <1>. QED  BY <1>2, <1>3, <1>4, <1>5, <1>6 DEF SearchCreateList, SearchPush

\* What a search is left with, and what it goes on with, as far as it was asked.
LEMMA FreshAsked ==
  ASSUME TypeInv, NEW l \in Loops
  PROVE  /\ EndSearch(l) => AskedOK(loop[l])'
         /\ NextRound(l) /\ loop[l].asked \subseteq Listed' => AskedOK(loop[l])'
  <1>1. loop = [m \in Loops |-> loop[m]] /\ loop[l] \in LoopType
    BY DEF TypeInv, LoopsOK, LoopOK
  <1>2. EndSearch(l) => loop'[l].pc = "ended"
    BY <1>1 DEF EndSearch, NewLoop
  <1>3. NextRound(l) => loop'[l].pc = "read" /\ loop'[l].asked = loop[l].asked
    BY <1>1 DEF NextRound, NewLoop
  <1>. QED  BY <1>2, <1>3 DEF AskedOK

\* What the steps of a search do to what it knows of whom it asked.
LEMMA RoundAsked ==
  ASSUME TypeInv, NEW l \in Loops, AskedOK(loop[l]), UNCHANGED lists,
         \/ StartSearch(l) \/ TimePasses(l) \/ SearchRead(l) \/ SearchListed(l)
         \/ SearchAgain(l) \/ \E d \in Near : SearchAsk(l, d) \/ SearchPassOver(l, d)
  PROVE  AskedOK(loop[l])'
  <1>1. loop = [m \in Loops |-> loop[m]] /\ loop[l] \in LoopType
    BY DEF TypeInv, LoopsOK, LoopOK
  <1>2. Listed' = Listed /\ (lists' # <<>>) = (lists # <<>>)
    BY DEF Listed
  <1>3. CASE StartSearch(l)
    <2>1. loop'[l].pc = "read" /\ loop'[l].asked = {}
      BY <1>1, <1>3 DEF StartSearch, At, Goto, LoopType, AskedOK
    <2>. QED  BY <2>1 DEF AskedOK
  <1>4. CASE TimePasses(l)
    <2>1. /\ loop'[l].pc = loop[l].pc /\ loop'[l].asked = loop[l].asked
          /\ loop'[l].skip = loop[l].skip /\ loop'[l].d = loop[l].d
      BY <1>1, <1>4 DEF TimePasses, LoopType
    <2>. QED  BY <1>2, <2>1 DEF AskedOK
  <1>5. CASE SearchRead(l)
    <2>1. CASE Open(booking.status)
      <3>1. loop'[l].pc = "listed" /\ loop'[l].asked = loop[l].asked
        BY <1>1, <1>5, <2>1 DEF SearchRead, LoopType
      <3>. QED  BY <1>2, <1>5, <3>1 DEF AskedOK, SearchRead, At
    <2>2. CASE ~Open(booking.status)
      BY <1>5, <2>2, FreshAsked DEF SearchRead
    <2>. QED  BY <2>1, <2>2
  <1>6. CASE SearchListed(l)
    <2>1. /\ loop'[l].pc = "scan" /\ loop'[l].asked = loop[l].asked
          /\ loop'[l].skip = loop[l].skip \cup Listed
      BY <1>1, <1>6 DEF SearchListed, LoopType, SkipWithListed, Listed
    <2>. QED  BY <1>2, <1>6, <2>1 DEF AskedOK, SearchListed, At
  <1>7. CASE SearchAgain(l)
    BY <1>2, <1>7, FreshAsked DEF SearchAgain, AskedOK, At
  <1>8. ASSUME NEW d \in Near, SearchAsk(l, d)
        PROVE  AskedOK(loop[l])'
    <2>1. /\ loop'[l].pc = "flag" /\ loop'[l].asked = loop[l].asked \cup {d}
          /\ loop'[l].d = d
      BY <1>1, <1>8 DEF SearchAsk, LoopType
    <2>. QED  BY <1>2, <1>8, <2>1 DEF AskedOK, SearchAsk, At
  <1>9. ASSUME NEW d \in Near, SearchPassOver(l, d)
        PROVE  AskedOK(loop[l])'
    <2>1. /\ loop'[l].pc = "scan" /\ loop'[l].asked = loop[l].asked
          /\ loop'[l].skip = loop[l].skip
      BY <1>1, <1>9 DEF SearchPassOver, LoopType, At
    <2>. QED  BY <1>2, <1>9, <2>1 DEF AskedOK, SearchPassOver, At
  <1>. QED  BY <1>3, <1>4, <1>5, <1>6, <1>7, <1>8, <1>9

LEMMA AskAsked ==
  ASSUME TypeInv, NEW l \in Loops, AskedOK(loop[l]), Len(lists') <= 1,
         \/ SearchFlag(l) \/ SearchFindList(l) \/ SearchCreateList(l)
         \/ SearchPush(l) \/ PollAnswer(l)
  PROVE  AskedOK(loop[l])'
  <1>1. loop = [m \in Loops |-> loop[m]] /\ loop[l] \in LoopType
    BY DEF TypeInv, LoopsOK, LoopOK
  <1>2. lists \in Seq(SUBSET Drivers)
    BY DEF TypeInv, DocsOK
  <1>3. UNCHANGED lists => Listed' = Listed
    BY DEF Listed
  <1>4. CASE SearchFlag(l)
    <2>1. /\ loop'[l].pc = "list" /\ loop'[l].asked = loop[l].asked
          /\ loop'[l].d = loop[l].d
      BY <1>1, <1>4 DEF SearchFlag, Goto, LoopType
    <2>. QED  BY <1>3, <1>4, <2>1 DEF AskedOK, SearchFlag, At
  <1>5. CASE SearchFindList(l)
    <2>1. /\ loop'[l].pc = IF lists = <<>> THEN "create" ELSE "push"
          /\ loop'[l].asked = loop[l].asked /\ loop'[l].d = loop[l].d
      BY <1>1, <1>5 DEF SearchFindList, Goto, LoopType
    <2>. QED  BY <1>3, <1>5, <2>1 DEF AskedOK, SearchFindList, At
  <1>6. ASSUME AfterList(l), loop[l].asked \subseteq Listed'
        PROVE  AskedOK(loop[l])'
    <2>1. Goto(l, "poll") => loop'[l].pc = "poll" /\ loop'[l].asked = loop[l].asked
      BY <1>1 DEF Goto, LoopType
    <2>. QED  BY <1>6, <2>1, FreshAsked DEF AfterList, AskedOK
  <1>7. CASE SearchCreateList(l)
    <2>1. lists = <<>> /\ Listed' = {loop[l].d}
      <3>1. loop[l].d \in Drivers
        BY <1>7 DEF SearchCreateList, At, TypeInv, LoopsOK, LoopOK, AskPCs
      <3>. QED  BY <1>2, <1>7, <3>1 DEF SearchCreateList, Listed
    <2>. QED  BY <1>6, <1>7, <2>1 DEF AskedOK, SearchCreateList, At, Listed
  <1>8. CASE SearchPush(l)
    <2>1. lists # <<>>
      BY <1>8 DEF SearchPush, At, AskedOK
    <2>2. Listed' = Listed \cup {loop[l].d}
      BY <1>2, <1>8, <2>1 DEF SearchPush, Listed
    <2>. QED  BY <1>6, <1>8, <2>2 DEF AskedOK, SearchPush, At
  <1>9. CASE PollAnswer(l)
    <2>1. loop'[l].pc = "check" /\ loop'[l].asked = loop[l].asked
      BY <1>1, <1>9 DEF PollAnswer, LoopType
    <2>. QED  BY <1>3, <1>9, <2>1 DEF AskedOK, PollAnswer, At
  <1>. QED  BY <1>4, <1>5, <1>7, <1>8, <1>9

LEMMA EndAsked ==
  ASSUME TypeInv, NEW l \in Loops, AskedOK(loop[l]), UNCHANGED lists,
         \/ PollBooking(l) \/ SearchClear(l) \/ SearchFail(l) \/ SearchUnflag(l)
         \/ SearchReject(l)
  PROVE  AskedOK(loop[l])'
  <1>1. loop = [m \in Loops |-> loop[m]] /\ loop[l] \in LoopType
    BY DEF TypeInv, LoopsOK, LoopOK
  <1>2. Listed' = Listed
    BY DEF Listed
  <1>3. \A pc \in LoopPCs : Goto(l, pc) =>
           loop'[l].pc = pc /\ loop'[l].asked = loop[l].asked
    BY <1>1 DEF Goto, LoopType
  <1>4. CASE PollBooking(l)
    <2>1. AfterPoll(l) \in {"clear.go", "clear.end", "poll"} /\ AfterPoll(l) \in LoopPCs
      BY DEF AfterPoll, LoopPCs
    <2>2. CASE Goto(l, AfterPoll(l))
      <3>1. loop'[l].pc = AfterPoll(l) /\ loop'[l].asked = loop[l].asked
        BY <1>3, <2>1, <2>2
      <3>. QED  BY <1>2, <1>4, <2>1, <3>1 DEF PollBooking, At, AskedOK
    <2>. QED  BY <1>4, <2>2, FreshAsked DEF PollBooking
  <1>5. CASE SearchClear(l)
    BY <1>2, <1>5, FreshAsked DEF SearchClear, At, AskedOK
  <1>6. CASE SearchFail(l) \/ SearchUnflag(l)
    <2>1. loop'[l].pc \in {"unflag", "reject"}
      BY <1>3, <1>6 DEF SearchFail, SearchUnflag, LoopPCs
    <2>. QED  BY <2>1 DEF AskedOK
  <1>7. CASE SearchReject(l)
    BY <1>7, FreshAsked DEF SearchReject
  <1>. QED  BY <1>4, <1>5, <1>6, <1>7

\* A step changes the record of one search, unless the server exits; a request or
\* a driver's cancel at most starts one.
OneLoopStep(l) ==
    \/ StartSearch(l) \/ TimePasses(l) \/ SearchRead(l) \/ SearchListed(l)
    \/ SearchAgain(l) \/ \E d \in Near : SearchAsk(l, d) \/ SearchPassOver(l, d)
    \/ SearchFlag(l) \/ SearchFindList(l) \/ SearchCreateList(l) \/ SearchPush(l)
    \/ PollAnswer(l) \/ PollBooking(l) \/ SearchClear(l) \/ SearchFail(l)
    \/ SearchUnflag(l) \/ SearchReject(l)

LEMMA OtherLoops ==
  ASSUME TypeInv, NEW l \in Loops, OneLoopStep(l)
  PROVE  \A m \in Loops \ {l} : loop'[m] = loop[m]
  <1>1. loop = [m \in Loops |-> loop[m]]
    BY DEF TypeInv, LoopsOK
  <1>2. \A r : loop' = [loop EXCEPT ![l] = r] =>
           \A m \in Loops \ {l} : loop'[m] = loop[m]
    BY <1>1
  <1>3. \A pc : Goto(l, pc) => \A m \in Loops \ {l} : loop'[m] = loop[m]
    BY <1>2 DEF Goto
  <1>4. NextRound(l) \/ EndSearch(l) => \A m \in Loops \ {l} : loop'[m] = loop[m]
    BY <1>2 DEF NextRound, EndSearch
  <1>5. CASE StartSearch(l) \/ TimePasses(l) \/ SearchRead(l) \/ SearchListed(l)
    BY <1>2, <1>3, <1>4, <1>5 DEF StartSearch, TimePasses, SearchRead, SearchListed
  <1>6. CASE SearchAgain(l) \/ \E d \in Near : SearchAsk(l, d) \/ SearchPassOver(l, d)
    BY <1>2, <1>4, <1>6 DEF SearchAgain, SearchAsk, SearchPassOver
  <1>7. CASE SearchFlag(l) \/ SearchFindList(l) \/ PollAnswer(l) \/ PollBooking(l)
    BY <1>2, <1>3, <1>4, <1>7 DEF SearchFlag, SearchFindList, PollAnswer, PollBooking
  <1>8. CASE SearchCreateList(l) \/ SearchPush(l)
    BY <1>3, <1>4, <1>8 DEF SearchCreateList, SearchPush, AfterList
  <1>9. CASE SearchClear(l) \/ SearchFail(l) \/ SearchUnflag(l) \/ SearchReject(l)
    BY <1>3, <1>4, <1>9 DEF SearchClear, SearchFail, SearchUnflag, SearchReject
  <1>. QED  BY <1>5, <1>6, <1>7, <1>8, <1>9 DEF OneLoopStep

\* What is not a search's own step leaves the searches alone, or starts one.
LEMMA NoLoopStep ==
  ASSUME TypeInv,
         \/ UNCHANGED vars \/ CustomerCancel \/ CustomerCancelOffer
         \/ \E d \in Drivers : \/ Accept(d) \/ Decline(d) \/ DriverCancel(d)
                               \/ DriverSwitches(d) \/ HandlerStep(d)
  PROVE  \A l \in Loops : loop'[l] = loop[l] \/ (At(l, "new") /\ Goto(l, "read"))
  <1>1. ASSUME NEW d \in Drivers, DriverCancelSearch(d)
        PROVE  \A l \in Loops : loop'[l] = loop[l] \/ (At(l, "new") /\ Goto(l, "read"))
    <2>1. ASSUME NEW l \in Loops, At(l, "new"), Goto(l, "read")
          PROVE  \A m \in Loops : loop'[m] = loop[m] \/ (At(m, "new") /\ Goto(m, "read"))
      <3>1. \A m \in Loops \ {l} : loop'[m] = loop[m]
        BY <2>1, OthersStay DEF LoopPCs
      <3>. QED  BY <2>1, <3>1
    <2>2. UNCHANGED loop \/ \E l \in Loops : At(l, "new") /\ Goto(l, "read")
      BY <1>1 DEF DriverCancelSearch
    <2>. QED  BY <2>1, <2>2
  <1>2. ASSUME NEW d \in Drivers,
               \/ Accept(d) \/ Decline(d) \/ DriverCancel(d) \/ DriverSwitches(d)
               \/ HandlerStep(d) /\ ~DriverCancelSearch(d)
        PROVE  UNCHANGED loop
    BY <1>2 DEF Accept, Decline, DriverCancel, DriverSwitches, HandlerStep,
                AcceptDriver, AcceptRecord, AcceptClear, DeclineClear, DeclineRead,
                DeclineWrite, DriverCancelWrite
  <1>3. UNCHANGED vars \/ CustomerCancel \/ CustomerCancelOffer => UNCHANGED loop
    BY DEF vars, CustomerCancel, CustomerCancelOffer
  <1>4. UNCHANGED loop =>
           \A l \in Loops : loop'[l] = loop[l] \/ (At(l, "new") /\ Goto(l, "read"))
    OBVIOUS
  <1>5. ASSUME NEW d \in Drivers,
               \/ Accept(d) \/ Decline(d) \/ DriverCancel(d) \/ DriverSwitches(d)
               \/ HandlerStep(d)
        PROVE  \A l \in Loops : loop'[l] = loop[l] \/ (At(l, "new") /\ Goto(l, "read"))
    BY <1>1, <1>2, <1>4, <1>5
  <1>. QED  BY <1>3, <1>4, <1>5

LEMMA NextAsked == TypeInv /\ AskedInv /\ [Next]_vars => AskedInv'
  <1>. SUFFICES ASSUME TypeInv, AskedInv, [Next]_vars, Len(lists') <= 1, NEW l \in Loops
                PROVE  AskedOK(loop[l])'
    BY DEF AskedInv
  <1>1. loop = [m \in Loops |-> loop[m]] /\ loop[l] \in LoopType
    BY DEF TypeInv, LoopsOK, LoopOK
  <1>2. AskedOK(loop[l]) /\ Listed \subseteq Listed' /\ (lists # <<>> => lists' # <<>>)
    <2>1. lists \in Seq(SUBSET Drivers)
      BY DEF TypeInv, DocsOK
    <2>2. Len(lists) <= Len(lists') /\ Len(lists) \in Nat
      BY <2>1, ListsGrow
    <2>3. lists' \in Seq(SUBSET Drivers)
      BY NextType DEF TypeInv, DocsOK
    <2>4. Len(lists) <= 1
      BY <2>2, <2>3
    <2>. QED  BY <2>4, ListsGrow DEF AskedInv
  <1>3. loop'[l] = loop[l] => AskedOK(loop[l])'
    BY <1>2 DEF AskedOK
  <1>4. ASSUME NEW m \in Loops, OneLoopStep(m)
        PROVE  AskedOK(loop[l])'
    <2>1. CASE m = l
      <3>1. SearchCreateList(l) \/ SearchPush(l) \/ UNCHANGED lists
        BY <1>4, <2>1
           DEF OneLoopStep, StartSearch, TimePasses, SearchRead, SearchListed,
               SearchAgain, SearchAsk, SearchPassOver, SearchFlag, SearchFindList,
               PollAnswer, PollBooking, SearchClear, SearchFail, SearchUnflag,
               SearchReject
      <3>. QED  BY <1>2, <1>4, <2>1, <3>1, RoundAsked, AskAsked, EndAsked DEF OneLoopStep
    <2>2. CASE m # l
      BY <1>3, <1>4, <2>2, OtherLoops
    <2>. QED  BY <2>1, <2>2
  <1>5. ASSUME NEW m \in Loops, SearchExits(m)
        PROVE  AskedOK(loop[l])'
    <2>1. loop'[l] = loop[l] \/ loop'[l].pc = "ended"
      BY <1>5 DEF SearchExits, NewLoop
    <2>. QED  BY <1>3, <2>1 DEF AskedOK
  <1>6. CASE loop'[l] = loop[l] \/ (At(l, "new") /\ Goto(l, "read"))
    <2>1. At(l, "new") /\ Goto(l, "read") => loop'[l].pc = "read" /\ loop'[l].asked = {}
      BY <1>1, <1>2 DEF At, Goto, LoopType, AskedOK
    <2>. QED  BY <1>3, <1>6, <2>1 DEF AskedOK
  <1>. QED  BY <1>4, <1>5, <1>6, NoLoopStep DEF Next, LoopStep, OneLoopStep

LEMMA InitAsked == Init => AskedInv
  BY DEF Init, AskedInv, AskedOK, NewLoop

\* Only asking takes a search from its scan to a driver's flag.
LEMMA AskingStep ==
  ASSUME TypeInv, [Next]_vars, NEW l \in Loops, At(l, "scan"), loop'[l].pc = "flag"
  PROVE  \E d \in Near : SearchAsk(l, d)
  <1>1. loop = [m \in Loops |-> loop[m]] /\ loop[l] \in LoopType
    BY DEF TypeInv, LoopsOK, LoopOK
  <1>2. loop'[l] # loop[l]
    BY DEF At
  <1>3. ASSUME NEW m \in Loops, SearchExits(m)
        PROVE  FALSE
    BY <1>2, <1>3 DEF SearchExits, NewLoop
  <1>4. ASSUME NEW m \in Loops, OneLoopStep(m)
        PROVE  \E d \in Near : SearchAsk(l, d)
    <2>1. m = l
      BY <1>2, <1>4, OtherLoops
    <2>2. TimePasses(l) \/ (\E d \in Near : SearchPassOver(l, d)) => loop'[l].pc = "scan"
      BY <1>1 DEF TimePasses, SearchPassOver, LoopType, At
    <2>3. SearchAgain(l) => loop'[l].pc = "read"
      BY <1>1 DEF SearchAgain, NextRound, NewLoop
    <2>4. SearchFail(l) => loop'[l].pc = "unflag"
      BY <1>1 DEF SearchFail, Goto, LoopType
    <2>. QED  BY <1>4, <2>1, <2>2, <2>3, <2>4
              DEF OneLoopStep, At, StartSearch, SearchRead, SearchListed, SearchFlag,
                  SearchFindList, SearchCreateList, SearchPush, PollAnswer, PollBooking,
                  SearchClear, SearchUnflag, SearchReject
  <1>5. ~(At(l, "new") /\ Goto(l, "read"))
    BY DEF At
  <1>. QED  BY <1>2, <1>3, <1>4, <1>5, NoLoopStep DEF Next, LoopStep, OneLoopStep

\* As long as no two searches have each made a list of their own, no search ever
\* asks a driver it has asked before, in whatever round and however many run.
THEOREM NobodyAskedTwice == Spec => AskedOnce
  <1>1. Spec => [](TypeInv /\ AskedInv)
    <2>1. Init => TypeInv /\ AskedInv
      BY InitType, InitAsked
    <2>2. TypeInv /\ AskedInv /\ [Next]_vars => (TypeInv /\ AskedInv)'
      BY NextType, NextAsked
    <2>. QED  BY <2>1, <2>2, PTL DEF Spec
  <1>2. ASSUME TypeInv, AskedInv, [Next]_vars
        PROVE  [\A l \in Loops : At(l, "scan") /\ loop'[l].pc = "flag" =>
                   loop'[l].d \notin loop[l].asked \/ Len(lists) > 1]_vars
    <2>. SUFFICES ASSUME NEW l \in Loops, At(l, "scan"), loop'[l].pc = "flag"
                  PROVE  loop'[l].d \notin loop[l].asked \/ Len(lists) > 1
      OBVIOUS
    <2>1. PICK d \in Near : SearchAsk(l, d)
      BY <1>2, AskingStep
    <2>2. loop'[l].d = d
      BY <1>2, <2>1 DEF SearchAsk, TypeInv, LoopsOK, LoopOK, LoopType
    <2>3. lists \in Seq(SUBSET Drivers)
      BY <1>2 DEF TypeInv, DocsOK
    <2>. QED  BY <1>2, <2>1, <2>2, <2>3 DEF SearchAsk, AskedInv, AskedOK, At
  <1>. QED  BY <1>1, <1>2, PTL DEF Spec, AskedOnce

-----------------------------------------------------------------------------
(* OpenIsSearched.  As long as nothing is lost, whoever accepted has the    *)
(* booking or gave it back; so while the booking is open, a search that     *)
(* goes on leaves out everybody whose answer is an accept, and no answer    *)
(* ends it.                                                                 *)

AcceptPCs == {"accept.driver", "accept.record", "accept.clear"}
AcceptedBy(d) == driver[d].answer = "accepted"
Holds(d) == booking.driver = d /\ booking.status \in {"accepted", "failed"}

AnswersOK ==
    /\ booking.status # "cancelled"
    /\ \A d \in Drivers : handler[d].pc \in AcceptPCs => Holds(d)
    /\ \A d \in Drivers : AcceptedBy(d) => d \in booking.cancelled \/ Holds(d)

AnswersInv == lost = {} => AnswersOK

\* A search that no recorded accept can end.
Healthy(l) ==
    \/ loop[l].pc = "read"
    \/ /\ loop[l].pc \in {"listed", "scan"}
       /\ \A d \in Drivers : AcceptedBy(d) => d \in loop[l].skip
    \/ /\ loop[l].pc \in {"flag", "list", "create", "push", "poll", "check", "clear.go"}
       /\ ~AcceptedBy(loop[l].d)
       /\ loop[l].pc = "check" => loop[l].resp # "accepted"

SearchedFor ==
    \/ \A l \in Loops : At(l, "new")
    \/ \E l \in Loops : Healthy(l)
    \/ \E d \in Drivers : handler[d].pc = "dcancel.search"

SearchedInv == lost = {} /\ Open(booking.status) => SearchedFor

LEMMA LostGrows == [Next]_vars => lost \subseteq lost'
  <1>1. ASSUME NEW d \in Drivers,
               \/ Accept(d) \/ Decline(d) \/ DriverCancel(d) \/ DriverSwitches(d)
               \/ HandlerStep(d)
        PROVE  lost \subseteq lost'
    BY <1>1 DEF Accept, Decline, DriverCancel, DriverSwitches, HandlerStep,
                AcceptDriver, AcceptRecord, AcceptClear, DeclineClear, DeclineRead,
                DeclineWrite, DriverCancelWrite, DriverCancelSearch
  <1>2. ASSUME NEW l \in Loops, OneLoopStep(l)
        PROVE  UNCHANGED lost
    BY <1>2 DEF OneLoopStep, StartSearch, TimePasses, SearchRead, SearchListed,
                SearchAgain, SearchAsk, SearchPassOver, SearchFlag, SearchFindList,
                SearchCreateList, SearchPush, PollAnswer, PollBooking, SearchClear,
                SearchFail, SearchUnflag, SearchReject
  <1>3. ASSUME NEW l \in Loops, SearchExits(l)
        PROVE  lost \subseteq lost'
    BY <1>3 DEF SearchExits
  <1>4. CustomerCancel \/ CustomerCancelOffer \/ UNCHANGED vars => lost \subseteq lost'
    BY DEF CustomerCancel, CustomerCancelOffer, vars
  <1>. QED  BY <1>1, <1>2, <1>3, <1>4 DEF Next, LoopStep, OneLoopStep

\* A search answers for nobody, accepts for nobody, and changes the booking only
\* by failing it.
LEMMA LoopAnswers ==
  ASSUME TypeInv, NEW l \in Loops, OneLoopStep(l)
  PROVE  /\ \A d \in Drivers : driver'[d].answer = driver[d].answer
         /\ UNCHANGED handler
         /\ UNCHANGED booking \/ SearchFail(l)
  <1>1. driver \in [Drivers -> DriverType]
    BY DEF TypeInv, DocsOK
  <1>2. ASSUME NEW d \in Drivers, NEW b \in BOOLEAN,
               driver' = [driver EXCEPT ![d].flag = b]
        PROVE  \A x \in Drivers : driver'[x].answer = driver[x].answer
    BY <1>1, <1>2 DEF DriverType
  <1>3. SearchFlag(l) \/ SearchClear(l) => loop[l].d \in Drivers
    BY DEF SearchFlag, SearchClear, At, TypeInv, LoopsOK, LoopOK, AskPCs
  <1>4. CASE SearchFlag(l)
    BY <1>2, <1>3, <1>4 DEF SearchFlag
  <1>5. CASE SearchClear(l)
    BY <1>2, <1>3, <1>5 DEF SearchClear
  <1>6. CASE SearchUnflag(l)
    BY <1>1, <1>6 DEF SearchUnflag, DriverType
  <1>7. CASE SearchFail(l)
    BY <1>7 DEF SearchFail
  <1>. QED  BY <1>4, <1>5, <1>6, <1>7
            DEF OneLoopStep, StartSearch, TimePasses, SearchRead, SearchListed,
                SearchAgain, SearchAsk, SearchPassOver, SearchFindList,
                SearchCreateList, SearchPush, PollAnswer, PollBooking, SearchReject

\* A request moves its own driver's handler, and records its own driver's answer.
LEMMA RequestAnswers ==
  ASSUME TypeInv, NEW d \in Drivers,
         \/ Accept(d) \/ Decline(d) \/ DriverCancel(d) \/ DriverSwitches(d)
         \/ HandlerStep(d)
  PROVE  /\ \A x \in Drivers \ {d} : handler'[x] = handler[x]
         /\ \A x \in Drivers : \/ driver'[x].answer = driver[x].answer
                               \/ driver'[x].answer = "decline"
                               \/ x = d /\ AcceptRecord(d)
         /\ UNCHANGED booking \/ Accept(d) \/ DeclineWrite(d) \/ DriverCancelWrite(d)
         /\ handler'[d].pc \in AcceptPCs =>
               Accept(d) \/ (handler[d].pc \in AcceptPCs /\ UNCHANGED booking)
  <1>1. driver \in [Drivers -> DriverType] /\ handler \in [Drivers -> HandlerType]
    BY DEF TypeInv, DocsOK
  <1>2. \A x \in Drivers \ {d} : handler'[x] = handler[x]
    <2>1. \A r : handler' = [handler EXCEPT ![d] = r] =>
             \A x \in Drivers \ {d} : handler'[x] = handler[x]
      BY <1>1
    <2>. QED  BY <2>1
      DEF Accept, Decline, DriverCancel, DriverSwitches, HandlerStep, AcceptDriver,
          AcceptRecord, AcceptClear, DeclineClear, DeclineRead, DeclineWrite,
          DriverCancelWrite, DriverCancelSearch
  <1>3. \A x \in Drivers : \/ driver'[x].answer = driver[x].answer
                           \/ driver'[x].answer = "decline"
                           \/ x = d /\ AcceptRecord(d)
    <2>1. CASE Decline(d) \/ AcceptRecord(d)
      BY <1>1, <2>1 DEF Decline, AcceptRecord, Record, DriverType
    <2>2. CASE DriverCancel(d) \/ AcceptDriver(d)
      BY <1>1, <2>2 DEF DriverCancel, AcceptDriver, DriverType
    <2>3. CASE DeclineClear(d) \/ DriverSwitches(d)
      BY <1>1, <2>3 DEF DeclineClear, DriverSwitches, DriverType
    <2>4. CASE AcceptClear(d)
      BY <1>1, <2>4 DEF AcceptClear, DriverType
    <2>5. Accept(d) \/ DeclineRead(d) \/ DeclineWrite(d) \/ DriverCancelWrite(d)
             \/ DriverCancelSearch(d) => UNCHANGED driver
      BY DEF Accept, DeclineRead, DeclineWrite, DriverCancelWrite, DriverCancelSearch
    <2>. QED  BY <2>1, <2>2, <2>3, <2>4, <2>5 DEF HandlerStep
  <1>4. UNCHANGED booking \/ Accept(d) \/ DeclineWrite(d) \/ DriverCancelWrite(d)
    BY DEF Decline, DriverCancel, DriverSwitches, HandlerStep, AcceptDriver,
           AcceptRecord, AcceptClear, DeclineClear, DeclineRead, DriverCancelSearch
  <1>5. ASSUME handler'[d].pc \in AcceptPCs
        PROVE  Accept(d) \/ (handler[d].pc \in AcceptPCs /\ UNCHANGED booking)
    <2>1. DriverSwitches(d) => handler[d].pc \in AcceptPCs /\ UNCHANGED booking
      BY <1>5 DEF DriverSwitches
    <2>2. AcceptDriver(d) \/ AcceptRecord(d) \/ AcceptClear(d) =>
             handler[d].pc \in AcceptPCs /\ UNCHANGED booking
      BY DEF AcceptDriver, AcceptRecord, AcceptClear, AcceptPCs
    <2>3. ~(DeclineClear(d) \/ DeclineRead(d) \/ DeclineWrite(d) \/ Decline(d)
              \/ DriverCancel(d) \/ DriverCancelWrite(d) \/ DriverCancelSearch(d))
      BY <1>1, <1>5
         DEF DeclineClear, DeclineRead, DeclineWrite, Decline, DriverCancel, IdleHandler,
             DriverCancelWrite, DriverCancelSearch, AcceptPCs, HandlerType
    <2>. QED  BY <2>1, <2>2, <2>3 DEF HandlerStep
  <1>. QED  BY <1>2, <1>3, <1>4, <1>5

LEMMA OfferAnswers ==
  ASSUME TypeInv, CustomerCancelOffer
  PROVE  \A x \in Drivers : driver'[x].answer = driver[x].answer
  <1>. DEFINE Reset(d) == [driver EXCEPT ![d].free = TRUE, ![d].flag = FALSE]
  <1>1. \A d \in Drivers, x \in Drivers : Reset(d)[x].answer = driver[x].answer
    BY DEF TypeInv, DocsOK, DriverType
  <1>2. driver' = driver \/ \E d \in Drivers : driver' = Reset(d)
    BY DEF CustomerCancelOffer
  <1>3. ASSUME NEW d \in Drivers, driver' = Reset(d)
        PROVE  \A x \in Drivers : driver'[x].answer = driver[x].answer
    BY <1>1, <1>3
  <1>4. CASE UNCHANGED driver
    BY <1>4
  <1>. QED  BY <1>2, <1>3, <1>4

LEMMA NextAnswers == TypeInv /\ AnswersInv /\ [Next]_vars => AnswersInv'
  <1>. SUFFICES ASSUME TypeInv, AnswersInv, [Next]_vars, lost' = {}
                PROVE  AnswersOK'
    BY DEF AnswersInv
  <1>1. AnswersOK /\ lost = {}
    BY LostGrows DEF AnswersInv
  <1>2. booking \in BookingType
    BY DEF TypeInv, DocsOK
  <1>3. CASE UNCHANGED <<booking, handler, driver>>
    BY <1>1, <1>3 DEF AnswersOK, Holds, AcceptedBy
  <1>4. ASSUME NEW l \in Loops, OneLoopStep(l)
        PROVE  AnswersOK'
    <2>1. /\ \A d \in Drivers : driver'[d].answer = driver[d].answer
          /\ UNCHANGED handler
          /\ UNCHANGED booking \/ SearchFail(l)
      BY <1>4, LoopAnswers
    <2>2. SearchFail(l) => booking' = [booking EXCEPT !.status = "failed"]
      BY DEF SearchFail
    <2>3. /\ booking'.driver = booking.driver /\ booking'.cancelled = booking.cancelled
          /\ booking'.status \in {booking.status, "failed"}
      BY <1>2, <2>1, <2>2 DEF BookingType
    <2>. QED  BY <1>1, <2>1, <2>3 DEF AnswersOK, Holds, AcceptedBy
  <1>5. ASSUME NEW l \in Loops, SearchExits(l)
        PROVE  AnswersOK'
    BY <1>5 DEF SearchExits
  <1>6. CASE CustomerCancel \/ CustomerCancelOffer
    <2>1. ~CustomerCancel
      BY DEF CustomerCancel
    <2>2. \A d \in Drivers : driver'[d].answer = driver[d].answer
      BY <1>6, <2>1, OfferAnswers
    <2>3. UNCHANGED <<booking, handler>>
      BY <1>6, <2>1 DEF CustomerCancelOffer
    <2>. QED  BY <1>1, <2>2, <2>3 DEF AnswersOK, Holds, AcceptedBy
  <1>7. ASSUME NEW d \in Drivers,
               \/ Accept(d) \/ Decline(d) \/ DriverCancel(d) \/ DriverSwitches(d)
               \/ HandlerStep(d)
        PROVE  AnswersOK'
    <2>1. /\ \A x \in Drivers \ {d} : handler'[x] = handler[x]
          /\ \A x \in Drivers : \/ driver'[x].answer = driver[x].answer
                                \/ driver'[x].answer = "decline"
                                \/ x = d /\ AcceptRecord(d)
          /\ UNCHANGED booking \/ Accept(d) \/ DeclineWrite(d) \/ DriverCancelWrite(d)
          /\ handler'[d].pc \in AcceptPCs =>
                Accept(d) \/ (handler[d].pc \in AcceptPCs /\ UNCHANGED booking)
      BY <1>7, RequestAnswers
    <2>2. AcceptRecord(d) => Holds(d)
      BY <1>1 DEF AcceptRecord, AnswersOK, AcceptPCs
    <2>3. \A x \in Drivers : AcceptedBy(x)' => x \in booking.cancelled \/ Holds(x)
      BY <1>1, <2>1, <2>2 DEF AnswersOK, AcceptedBy
    <2>4. CASE UNCHANGED booking
      <3>1. Accept(d) => Holds(d)
        BY <1>2, <2>4 DEF Accept, Holds, BookingType
      <3>2. \A x \in Drivers : handler'[x].pc \in AcceptPCs => Holds(x)
        BY <1>1, <2>1, <3>1 DEF AnswersOK
      <3>. QED  BY <1>1, <2>3, <2>4, <3>2 DEF AnswersOK, Holds
    <2>5. CASE Accept(d)
      <3>1. /\ booking'.driver = d /\ booking'.status = "accepted"
            /\ booking'.cancelled = booking.cancelled
        BY <1>2, <2>5 DEF Accept, BookingType
      <3>2. \A x \in Drivers : ~Holds(x)
        BY <2>5, NoDriverAssumption DEF Accept, Holds
      <3>3. \A x \in Drivers \ {d} : handler'[x].pc \notin AcceptPCs
        BY <1>1, <2>1, <3>2 DEF AnswersOK
      <3>. QED  BY <2>3, <3>1, <3>2, <3>3 DEF AnswersOK, Holds
    <2>6. CASE DeclineWrite(d)
      <3>1. Open(booking.status)
        BY <2>6 DEF DeclineWrite
      <3>2. booking'.status = "request" /\ booking'.cancelled = booking.cancelled
        BY <1>2, <2>6 DEF DeclineWrite, BookingType
      <3>3. \A x \in Drivers : ~Holds(x)
        BY <3>1 DEF Holds, Open
      <3>4. ~Accept(d)
        BY <2>6 DEF DeclineWrite, Accept, IdleHandler
      <3>5. \A x \in Drivers : handler'[x].pc \notin AcceptPCs
        BY <1>1, <2>1, <3>3, <3>4 DEF AnswersOK
      <3>. QED  BY <2>3, <3>2, <3>3, <3>5 DEF AnswersOK
    <2>7. CASE DriverCancelWrite(d)
      <3>1. Open(booking.status) \/ booking.driver = d
        BY <2>7 DEF DriverCancelWrite
      <3>2. booking'.status = "none" /\ booking'.cancelled = booking.cancelled \cup {d}
        BY <1>2, <2>7 DEF DriverCancelWrite, BookingType
      <3>3. \A x \in Drivers \ {d} : ~Holds(x)
        BY <3>1 DEF Holds, Open
      <3>4. handler'[d].pc \notin AcceptPCs
        BY <2>1, <2>7 DEF DriverCancelWrite, Accept, IdleHandler, AcceptPCs
      <3>5. \A x \in Drivers : handler'[x].pc \notin AcceptPCs
        BY <1>1, <2>1, <3>3, <3>4 DEF AnswersOK
      <3>. QED  BY <2>3, <3>2, <3>3, <3>5 DEF AnswersOK
    <2>. QED  BY <2>1, <2>4, <2>5, <2>6, <2>7
  <1>8. UNCHANGED vars => UNCHANGED <<booking, handler, driver>>
    BY DEF vars
  <1>. QED  BY <1>3, <1>4, <1>5, <1>6, <1>7, <1>8 DEF Next, LoopStep, OneLoopStep

\* While the booking is open, a search that no accept can end goes on: it looks
\* the booking up again, or asks somebody who has not accepted.
LEMMA HealthyStays ==
  ASSUME TypeInv, AnswersOK, NEW l \in Loops, OneLoopStep(l), Healthy(l),
         Open(booking.status), ~SearchFail(l)
  PROVE  Healthy(l)'
  <1>1. loop = [m \in Loops |-> loop[m]] /\ loop[l] \in LoopType
    BY DEF TypeInv, LoopsOK, LoopOK
  <1>2. \A d \in Drivers : AcceptedBy(d)' = AcceptedBy(d)
    BY LoopAnswers DEF AcceptedBy
  <1>3. \A d \in Drivers : AcceptedBy(d) => d \in booking.cancelled
    BY DEF AnswersOK, Holds, Open
  <1>4. NextRound(l) => Healthy(l)'
    BY <1>1 DEF NextRound, NewLoop, Healthy
  <1>5. loop[l].pc \in AskPCs => loop[l].d \in Drivers
    BY DEF TypeInv, LoopsOK, LoopOK
  <1>6. \A pc \in LoopPCs : Goto(l, pc) =>
           /\ loop'[l].pc = pc /\ loop'[l].d = loop[l].d
           /\ loop'[l].resp = loop[l].resp
    BY <1>1 DEF Goto, LoopType
  <1>7. ASSUME loop[l].pc \in {"flag", "list", "create", "push", "check"},
               NEW pc \in {"list", "create", "push", "poll", "clear.go"}, Goto(l, pc)
        PROVE  Healthy(l)'
    <2>1. pc \in LoopPCs /\ loop[l].pc \in AskPCs
      BY <1>7 DEF LoopPCs, AskPCs
    <2>2. loop'[l].pc = pc /\ loop'[l].d = loop[l].d /\ loop'[l].resp = loop[l].resp
      BY <1>6, <1>7, <2>1
    <2>. QED  BY <1>2, <1>5, <1>7, <2>1, <2>2 DEF Healthy
  <1>8. CASE TimePasses(l)
    <2>1. /\ loop'[l].pc = loop[l].pc /\ loop'[l].skip = loop[l].skip
          /\ loop'[l].d = loop[l].d /\ loop'[l].resp = loop[l].resp
      BY <1>1, <1>8 DEF TimePasses, LoopType
    <2>. QED  BY <1>2, <1>5, <2>1 DEF Healthy, AskPCs
  <1>9. CASE SearchRead(l)
    <2>1. loop'[l].pc = "listed" /\ loop'[l].skip = booking.cancelled
      BY <1>1, <1>9 DEF SearchRead, LoopType
    <2>. QED  BY <1>2, <1>3, <2>1 DEF Healthy
  <1>10. CASE SearchListed(l)
    <2>1. loop'[l].pc = "scan" /\ loop[l].skip \subseteq loop'[l].skip
      BY <1>1, <1>10 DEF SearchListed, SkipWithListed, LoopType
    <2>. QED  BY <1>2, <1>10, <2>1 DEF Healthy, SearchListed, At
  <1>11. ASSUME NEW d \in Near, SearchPassOver(l, d)
         PROVE  Healthy(l)'
    <2>1. loop'[l].pc = "scan" /\ loop'[l].skip = loop[l].skip
      BY <1>1, <1>11 DEF SearchPassOver, At, LoopType
    <2>. QED  BY <1>2, <1>11, <2>1 DEF Healthy, SearchPassOver, At
  <1>12. ASSUME NEW d \in Near, SearchAsk(l, d)
         PROVE  Healthy(l)'
    <2>1. loop'[l].pc = "flag" /\ loop'[l].d = d
      BY <1>1, <1>12 DEF SearchAsk, LoopType
    <2>2. d \in Drivers /\ ~AcceptedBy(d)
      BY <1>12, NearAssumption DEF Healthy, SearchAsk, At
    <2>. QED  BY <1>2, <2>1, <2>2 DEF Healthy
  <1>13. CASE SearchFlag(l)
    <2>1. /\ loop'[l].pc = "list" /\ loop'[l].d = loop[l].d
      BY <1>1, <1>13 DEF SearchFlag, Goto, LoopType
    <2>. QED  BY <1>2, <1>5, <1>13, <2>1 DEF Healthy, SearchFlag, At, AskPCs
  <1>14. CASE SearchFindList(l)
    BY <1>7, <1>14 DEF SearchFindList, At
  <1>15. CASE SearchCreateList(l) \/ SearchPush(l)
    BY <1>4, <1>7, <1>15 DEF SearchCreateList, SearchPush, AfterList, At
  <1>16. CASE PollAnswer(l)
    <2>1. /\ loop'[l].pc = "check" /\ loop'[l].d = loop[l].d
          /\ loop'[l].resp = driver[loop[l].d].answer
      BY <1>1, <1>16 DEF PollAnswer, LoopType
    <2>2. ~AcceptedBy(loop[l].d) /\ loop[l].d \in Drivers
      BY <1>5, <1>16 DEF PollAnswer, At, Healthy, AskPCs
    <2>. QED  BY <1>2, <2>1, <2>2 DEF Healthy, AcceptedBy
  <1>17. CASE PollBooking(l)
    <2>1. AfterPoll(l) \in {"poll", "clear.go"}
      BY <1>17 DEF PollBooking, At, Healthy, AfterPoll
    <2>2. Goto(l, AfterPoll(l))
      BY <1>17 DEF PollBooking, Open
    <2>. QED  BY <1>7, <1>17, <2>1, <2>2 DEF PollBooking, At
  <1>18. CASE SearchAgain(l) \/ SearchClear(l)
    <2>1. ~At(l, "clear.end")
      BY DEF At, Healthy
    <2>. QED  BY <1>4, <1>18, <2>1 DEF SearchAgain, SearchClear
  <1>19. ~(StartSearch(l) \/ SearchUnflag(l) \/ SearchReject(l))
    BY DEF Healthy, StartSearch, SearchUnflag, SearchReject, At
  <1>. QED  BY <1>8, <1>9, <1>10, <1>11, <1>12, <1>13, <1>14, <1>15, <1>16, <1>17,
               <1>18, <1>19 DEF OneLoopStep

LEMMA NextSearched ==
  TypeInv /\ AnswersInv /\ SearchedInv /\ [Next]_vars => SearchedInv'
  <1>. SUFFICES ASSUME TypeInv, AnswersInv, SearchedInv, [Next]_vars, lost' = {},
                       Open(booking.status)'
                PROVE  SearchedFor'
    BY DEF SearchedInv
  <1>1. AnswersOK /\ lost = {}
    BY LostGrows DEF AnswersInv
  <1>2. booking \in BookingType /\ handler \in [Drivers -> HandlerType]
    BY DEF TypeInv, DocsOK
  <1>3. ASSUME NEW d \in Drivers, DriverCancelWrite(d)
        PROVE  SearchedFor'
    <2>1. handler'[d].pc = "dcancel.search"
      BY <1>2, <1>3 DEF DriverCancelWrite, HandlerType
    <2>. QED  BY <2>1 DEF SearchedFor
  <1>4. ASSUME NEW d \in Drivers,
               \/ Accept(d) \/ Decline(d) \/ DriverCancel(d) \/ DriverSwitches(d)
               \/ HandlerStep(d)
        PROVE  SearchedFor'
    <2>1. ~Accept(d)
      BY <1>2 DEF Accept, Open, BookingType
    <2>2. CASE DriverCancelWrite(d)
      BY <1>3, <2>2
    <2>3. CASE DriverCancelSearch(d)
      <3>1. PICK l \in Loops : At(l, "new") /\ Goto(l, "read")
        BY <2>3 DEF DriverCancelSearch
      <3>2. loop'[l].pc = "read"
        BY <3>1, OthersStay DEF LoopPCs
      <3>. QED  BY <3>2 DEF SearchedFor, Healthy
    <2>4. CASE ~DriverCancelWrite(d) /\ ~DriverCancelSearch(d)
      <3>1. Open(booking.status)
        <4>1. UNCHANGED booking \/ DeclineWrite(d)
          BY <1>4, <2>1, <2>4, RequestAnswers
        <4>. QED  BY <1>1, <4>1 DEF DeclineWrite
      <3>2. \A x \in Drivers : AcceptedBy(x)' => AcceptedBy(x)
        <4>1. ~AcceptRecord(d)
          BY <1>1, <3>1 DEF AcceptRecord, AnswersOK, AcceptPCs, Holds, Open
        <4>2. \A x \in Drivers : \/ driver'[x].answer = driver[x].answer
                                 \/ driver'[x].answer = "decline"
                                 \/ x = d /\ AcceptRecord(d)
          BY <1>4, RequestAnswers
        <4>. QED  BY <4>1, <4>2 DEF AcceptedBy
      <3>3. UNCHANGED loop
        BY <1>4, <2>4
           DEF Accept, Decline, DriverCancel, DriverSwitches, HandlerStep, AcceptDriver,
               AcceptRecord, AcceptClear, DeclineClear, DeclineRead, DeclineWrite
      <3>4. \A l \in Loops : Healthy(l) => Healthy(l)'
        <4>1. \A l \in Loops : loop[l].pc \in AskPCs => loop[l].d \in Drivers
          BY DEF TypeInv, LoopsOK, LoopOK
        <4>. QED  BY <3>2, <3>3, <4>1 DEF Healthy, AskPCs
      <3>5. handler[d].pc # "dcancel.search"
        BY <1>4, <2>4
           DEF Accept, Decline, DriverCancel, DriverSwitches, HandlerStep, AcceptDriver,
               AcceptRecord, AcceptClear, DeclineClear, DeclineRead, DeclineWrite,
               IdleHandler
      <3>6. \A x \in Drivers \ {d} : handler'[x] = handler[x]
        BY <1>4, RequestAnswers
      <3>. QED  BY <1>1, <3>1, <3>3, <3>4, <3>5, <3>6 DEF SearchedInv, SearchedFor, At
    <2>. QED  BY <2>2, <2>3, <2>4
  <1>5. ASSUME NEW l \in Loops, OneLoopStep(l)
        PROVE  SearchedFor'
    <2>1. ~SearchFail(l)
      BY <1>2 DEF SearchFail, Open, BookingType
    <2>2. UNCHANGED <<booking, handler>> /\ \A x \in Drivers : AcceptedBy(x)' = AcceptedBy(x)
      BY <1>5, <2>1, LoopAnswers DEF AcceptedBy
    <2>3. SearchedFor
      BY <1>1, <2>2 DEF SearchedInv
    <2>4. CASE \A m \in Loops : At(m, "new")
      <3>1. StartSearch(l) \/ TimePasses(l)
        BY <1>5, <2>4
           DEF OneLoopStep, At, SearchRead, SearchListed, SearchAgain, SearchAsk,
               SearchPassOver, SearchFlag, SearchFindList, SearchCreateList, SearchPush,
               PollAnswer, PollBooking, SearchClear, SearchFail, SearchUnflag,
               SearchReject
      <3>2. StartSearch(l)
        BY <2>4, <3>1 DEF TimePasses, At
      <3>3. loop'[l].pc = "read"
        BY <3>2, OthersStay DEF StartSearch, LoopPCs
      <3>. QED  BY <3>3 DEF SearchedFor, Healthy
    <2>5. ASSUME NEW m \in Loops, Healthy(m)
          PROVE  Healthy(m)'
      <3>1. CASE m = l
        BY <1>1, <1>5, <2>1, <2>2, <2>5, <3>1, HealthyStays
      <3>2. CASE m # l
        <4>1. loop'[m] = loop[m]
          BY <1>5, <3>2, OtherLoops
        <4>2. loop[m].pc \in AskPCs => loop[m].d \in Drivers
          BY DEF TypeInv, LoopsOK, LoopOK
        <4>. QED  BY <2>2, <2>5, <4>1, <4>2 DEF Healthy, AskPCs
      <3>. QED  BY <3>1, <3>2
    <2>. QED  BY <2>2, <2>3, <2>4, <2>5 DEF SearchedFor
  <1>6. CASE CustomerCancel \/ CustomerCancelOffer
    <2>1. CustomerCancelOffer
      BY <1>6 DEF CustomerCancel
    <2>2. \A d \in Drivers : driver'[d].answer = driver[d].answer
      BY <2>1, OfferAnswers
    <2>3. UNCHANGED <<booking, handler, loop>>
      BY <2>1 DEF CustomerCancelOffer
    <2>4. \A l \in Loops : loop[l].pc \in AskPCs => loop[l].d \in Drivers
      BY DEF TypeInv, LoopsOK, LoopOK
    <2>. QED  BY <1>1, <2>2, <2>3, <2>4
              DEF SearchedInv, SearchedFor, Healthy, AcceptedBy, At, AskPCs
  <1>7. ASSUME NEW l \in Loops, SearchExits(l)
        PROVE  FALSE
    BY <1>7 DEF SearchExits
  <1>8. UNCHANGED vars => SearchedFor'
    BY <1>1 DEF vars, SearchedInv, SearchedFor, Healthy, AcceptedBy, At
  <1>. QED  BY <1>4, <1>5, <1>6, <1>7, <1>8 DEF Next, LoopStep, OneLoopStep

LEMMA InitSearched == Init => AnswersInv /\ SearchedInv
  <1>. SUFFICES ASSUME Init PROVE AnswersInv /\ SearchedInv
    OBVIOUS
  <1>1. \A d \in Drivers : driver[d].answer = "none" /\ handler[d].pc = "idle"
    BY DEF Init, IdleHandler
  <1>2. \A l \in Loops : At(l, "new")
    BY DEF Init, At, NewLoop
  <1>3. booking.status = "none"
    BY DEF Init
  <1>. QED  BY <1>1, <1>2, <1>3
            DEF AnswersInv, AnswersOK, AcceptPCs, AcceptedBy, SearchedInv, SearchedFor

\* A booking that is still open is being searched for, whatever the drivers answer
\* and however many searches run, unless one of the causes in lost has come about.
THEOREM OpenSearched == Spec => []OpenIsSearched
  <1>1. Init => TypeInv /\ AnswersInv /\ SearchedInv
    BY InitType, InitSearched
  <1>2. TypeInv /\ AnswersInv /\ SearchedInv /\ [Next]_vars =>
           (TypeInv /\ AnswersInv /\ SearchedInv)'
    BY NextType, NextAnswers, NextSearched
  <1>3. SearchedInv => OpenIsSearched
    BY DEF SearchedInv, OpenIsSearched, SearchedFor, Healthy, Searching
  <1>. QED  BY <1>1, <1>2, <1>3, PTL DEF Spec

-----------------------------------------------------------------------------
(* The lifecycle: the one booking of SearchLoop goes through that of        *)
(* RideLifecycle, as those of Dispatch do.                                  *)

PhaseOf(status) ==
    CASE Open(status)         -> "open"
      [] status = "accepted"  -> "held"
      [] OTHER                -> "dead"

RideOf(r) == [phase |-> PhaseOf(r.status),
              by |-> IF r.status = "accepted" THEN r.driver ELSE None]

Lifecycle == INSTANCE RideLifecycle
    WITH Bookings <- {"booking"}, ride <- [b \in {"booking"} |-> RideOf(booking)]

\* Searches, answers, cancels and an exit take the booking from phase to phase as the
\* lifecycle allows.
ImplementsLifecycle == Lifecycle!Spec

LEMMA RideValues ==
  ASSUME NEW r \in BookingType
  PROVE  /\ r.status \in {"none", "request"} => RideOf(r) = [phase |-> "open", by |-> None]
         /\ r.status = "accepted" => RideOf(r) = [phase |-> "held", by |-> r.driver]
         /\ r.status \in {"cancelled", "failed"} => RideOf(r) = [phase |-> "dead", by |-> None]
         /\ r.status \in {"none", "request", "accepted", "cancelled", "failed"}
  BY DEF BookingType, Statuses, RideOf, PhaseOf, Open

\* What a step may do to the document: nothing to status and driver of a booking that is
\* held, an accept of one that is open, or any step that leaves it open or dead.
BookingMoves ==
    \/ booking' = booking
    \/ /\ booking.status \in {"none", "request"}
       /\ booking'.status = "accepted" /\ booking'.driver \in Drivers
    \/ booking'.status \in {"none", "request", "cancelled", "failed"}

LEMMA StepMoves ==
  ASSUME TypeInv, [Next]_vars
  PROVE  BookingMoves
  <1>0. booking \in BookingType
    BY DEF TypeInv, DocsOK
  <1>1. CASE UNCHANGED vars
    BY <1>1 DEF vars, BookingMoves
  <1>2. ASSUME NEW l \in Loops, StartSearch(l) \/ TimePasses(l) \/ LoopStep(l)
        PROVE  BookingMoves
    <2>1. CASE SearchFail(l)
      BY <1>0, <2>1 DEF SearchFail, BookingType, BookingMoves
    <2>2. CASE ~SearchFail(l)
      <3>1. booking' = booking
        BY <1>2, <2>2 DEF StartSearch, TimePasses, LoopStep, SearchRead, SearchListed,
           SearchAgain, SearchAsk, SearchPassOver, SearchFlag, SearchFindList,
           SearchCreateList, SearchPush, PollAnswer, PollBooking, SearchClear,
           SearchUnflag, SearchReject, SearchExits
      <3>. QED  BY <3>1 DEF BookingMoves
    <2>. QED  BY <2>1, <2>2
  <1>3. ASSUME NEW d \in Drivers,
               \/ Accept(d) \/ Decline(d) \/ DriverCancel(d) \/ DriverSwitches(d)
               \/ HandlerStep(d)
        PROVE  BookingMoves
    <2>1. CASE Accept(d)
      BY <1>0, <2>1 DEF Accept, BookingType, Statuses, BookingMoves
    <2>2. CASE DeclineWrite(d) \/ DriverCancelWrite(d)
      BY <1>0, <2>2 DEF DeclineWrite, DriverCancelWrite, BookingType, BookingMoves
    <2>3. CASE ~(Accept(d) \/ DeclineWrite(d) \/ DriverCancelWrite(d))
      <3>1. booking' = booking
        BY <1>3, <2>3 DEF Decline, DriverCancel, DriverSwitches, HandlerStep, AcceptDriver,
           AcceptRecord, AcceptClear, DeclineClear, DeclineRead, DriverCancelSearch
      <3>. QED  BY <3>1 DEF BookingMoves
    <2>. QED  BY <2>1, <2>2, <2>3
  <1>4. CASE CustomerCancel \/ CustomerCancelOffer
    BY <1>0, <1>4 DEF CustomerCancel, CustomerCancelOffer, BookingType, BookingMoves
  <1>. QED  BY <1>1, <1>2, <1>3, <1>4 DEF Next

LEMMA MovesAreSteps ==
  ASSUME booking \in BookingType, booking' \in BookingType, BookingMoves
  PROVE  [Lifecycle!Next]_([b \in {"booking"} |-> RideOf(booking)])
  <1>. DEFINE ride == [b \in {"booking"} |-> RideOf(booking)]
              old == RideOf(booking)
              new == RideOf(booking')
  <1>0. ride["booking"] = old /\ ride' = [ride EXCEPT !["booking"] = new] /\ "booking" \in {"booking"}
    BY DEF RideOf
  <1>1. CASE booking' = booking
    BY <1>1
  <1>2. CASE /\ booking.status \in {"none", "request"}
             /\ booking'.status = "accepted" /\ booking'.driver \in Drivers
    <2>1. old.phase = "open" /\ new = [phase |-> "held", by |-> booking'.driver]
      BY <1>2, RideValues
    <2>2. Lifecycle!Take("booking", booking'.driver)
      BY <1>0, <2>1 DEF Lifecycle!Take
    <2>. QED  BY <1>0, <1>2, <2>2 DEF Lifecycle!Next
  <1>3. CASE booking'.status \in {"none", "request"}
    <2>1. new = [phase |-> "open", by |-> None]
      BY <1>3, RideValues
    <2>2. CASE booking.status \in {"none", "request"}
      <3>1. old = new
        BY <2>1, <2>2, RideValues
      <3>. QED  BY <1>0, <3>1
    <2>3. CASE booking.status = "accepted"
      <3>1. old.phase = "held"
        BY <2>3, RideValues
      <3>2. Lifecycle!Release("booking")
        BY <1>0, <2>1, <3>1 DEF Lifecycle!Release, Lifecycle!In
      <3>. QED  BY <1>0, <3>2 DEF Lifecycle!Next
    <2>4. CASE booking.status \in {"cancelled", "failed"}
      <3>1. old.phase = "dead"
        BY <2>4, RideValues
      <3>2. Lifecycle!Reopen("booking")
        BY <1>0, <2>1, <3>1 DEF Lifecycle!Reopen, Lifecycle!In
      <3>. QED  BY <1>0, <3>2 DEF Lifecycle!Next
    <2>. QED  BY <2>2, <2>3, <2>4, RideValues
  <1>4. CASE booking'.status \in {"cancelled", "failed"}
    <2>1. new = [phase |-> "dead", by |-> None]
      BY <1>4, RideValues
    <2>2. Lifecycle!Kill("booking")
      BY <1>0, <2>1 DEF Lifecycle!Kill, Lifecycle!In
    <2>. QED  BY <1>0, <2>2 DEF Lifecycle!Next
  <1>. QED  BY <1>1, <1>2, <1>3, <1>4 DEF BookingMoves

\* SearchLoop implements RideLifecycle: however searches and answers overlap, the booking
\* is taken only while it is open and never passes from one driver to another directly.
THEOREM SearchRefinesLifecycle == Spec => ImplementsLifecycle
  <1>1. Init => Lifecycle!Init
    BY DEF Init, Lifecycle!Init, Lifecycle!In, RideOf, PhaseOf, Open
  <1>2. TypeInv /\ TypeInv' /\ [Next]_vars
          => [Lifecycle!Next]_([b \in {"booking"} |-> RideOf(booking)])
    BY StepMoves, MovesAreSteps DEF TypeInv, DocsOK
  <1>. QED  BY <1>1, <1>2, InitType, NextType, PTL DEF Spec, ImplementsLifecycle, Lifecycle!Spec
=============================================================================
