------------------------------ MODULE Messages ------------------------------
(***************************************************************************)
(* The messages of one chat: chat.gateway.ts and chat.service.ts.  A       *)
(* driver writes with a customer (kind ride) or with a dispatcher, who     *)
(* answers his call for support (help) or opened the chat himself, without *)
(* a booking (desk); messages to and from dispatchers are of type support. *)
(* Who a chat belongs to is in Chat.  A user document has one socket_id,   *)
(* that of his last connection; handlers read it before they write and use *)
(* it afterwards, one action per database call.  Push notifications and    *)
(* the counts of unread messages are left out.                             *)
(***************************************************************************)
EXTENDS Naturals, FiniteSets

CONSTANTS
  Driver, Other,  \* the two who write; Other is a customer or a dispatcher
  Messages,       \* bound: the messages that may be stored, in order
  Tasks,          \* handlers under way at a time
  MaxSocketEvents, \* bound: events the sockets bring
  None

VARIABLES
  kind,      \* what chat it is
  message,   \* the chats collection
  socket,    \* socket_id of each user, 0 before his first connection
  alive,     \* users whose last socket is connected
  looking,   \* users whose app has loaded the chat on that socket
  seen,      \* messages each user's apps have been sent
  task,      \* the handlers
  emitted,   \* events handled
  missed,    \* messages that went to a socket their receiver had left
  closed     \* messages close_chat marked as read

vars == <<kind, message, socket, alive, looking, seen, task, emitted, missed, closed>>

Members == {Driver, Other}
Kinds == {"ride", "help", "desk"}
NoMessage == [sender |-> None, receiver |-> None, read |-> FALSE]
Done == [pc |-> "idle", user |-> None, receiver |-> None, to |-> 0, list |-> {}]

Stored == {m \in Messages : message[m].sender # None}
To(u) == {m \in Stored : message[m].receiver = u}

Event(k) == task[k].pc = "idle" /\ emitted < MaxSocketEvents /\ emitted' = emitted + 1
Turn(k, j) == task' = [task EXCEPT ![k] = j]
Goto(k, pc) == task' = [task EXCEPT ![k].pc = pc]

---------------------------------------------------------------------------
\* handleConnection: the new socket takes the place of the one before
Connect(u) ==
  /\ emitted < MaxSocketEvents /\ emitted' = emitted + 1
  /\ socket' = [socket EXCEPT ![u] = @ + 1]
  /\ alive' = alive \cup {u}
  /\ looking' = looking \ {u}
  /\ UNCHANGED <<kind, message, seen, task, missed, closed>>

\* handleDisconnect leaves the user document alone
Disconnect(u) ==
  /\ u \in alive
  /\ alive' = alive \ {u}
  /\ looking' = looking \ {u}
  /\ UNCHANGED <<kind, message, socket, seen, task, emitted, missed, closed>>

---------------------------------------------------------------------------
\* chat_support reads the dispatchers' sockets, and the message has no receiver yet
ChatSupport(k) ==
  /\ Event(k)
  /\ kind = "help" /\ Driver \in alive
  /\ Stored = {} /\ \A j \in Tasks : task[j].pc = "idle"
  /\ Turn(k, [Done EXCEPT !.pc = "store", !.user = Driver, !.to = socket[Other]])
  /\ UNCHANGED <<kind, message, socket, alive, looking, seen, missed, closed>>

\* send-message reads the receiver, who need not be known to a driver for support ...
SendMessage(k, u, r) ==
  /\ Event(k)
  /\ u \in alive /\ r # u
  /\ r = None => kind = "help" /\ u = Driver
  /\ kind = "help" => Stored # {}
  /\ Turn(k, [Done EXCEPT !.pc = IF kind = "ride" THEN "store" ELSE "claim",
                          !.user = u, !.receiver = r,
                          !.to = IF r = None THEN 0 ELSE socket[r]])
  /\ UNCHANGED <<kind, message, socket, alive, looking, seen, missed, closed>>

\* ... for support, whoever writes takes the messages that have no receiver ...
UpdateChat(k) ==
  /\ task[k].pc = "claim"
  /\ message' = [m \in Messages |->
                   IF m \in To(None) THEN [message[m] EXCEPT !.receiver = task[k].user]
                   ELSE message[m]]
  /\ Goto(k, "store")
  /\ UNCHANGED <<kind, socket, alive, looking, seen, emitted, missed, closed>>

\* ... and the message is stored
StoreMessage(k) ==
  /\ task[k].pc = "store"
  /\ \E m \in Messages \ Stored :
       /\ \A n \in Messages \ Stored : m <= n
       /\ message' = [message EXCEPT ![m] =
                        [NoMessage EXCEPT !.sender = task[k].user,
                                          !.receiver = task[k].receiver]]
       /\ seen' = [seen EXCEPT ![task[k].user] = @ \cup {m}]
       /\ Turn(k, [task[k] EXCEPT !.pc = "emit", !.list = {m}])
  /\ UNCHANGED <<kind, socket, alive, looking, emitted, missed, closed>>

\* What the task sends reaches the socket that was read, if its user is still there.
Reaches(u, to) == u \in alive /\ to = socket[u]

Deliver(k, u, to) ==
  /\ seen' = IF Reaches(u, to) THEN [seen EXCEPT ![u] = @ \cup task[k].list] ELSE seen
  /\ missed' = IF Reaches(u, to) \/ socket[u] = 0 THEN missed
               ELSE missed \cup (task[k].list \ seen[u])
  /\ Turn(k, Done)

\* at the end it is sent to the receiver; a support message to the dispatchers, whose
\* sockets are read again unless it opened the chat
Emit(k) ==
  /\ task[k].pc = "emit"
  /\ LET u == IF task[k].user = Driver THEN Other ELSE Driver
         again == kind # "ride" /\ u = Other /\ ~(kind = "help" /\ task[k].list = {1})
     IN  Deliver(k, u, IF again THEN socket[u] ELSE task[k].to)
  /\ UNCHANGED <<kind, message, socket, alive, looking, emitted, closed>>

---------------------------------------------------------------------------
\* Mutant: the messages that are read are not listed again
GetUnreadMessages(k, u) ==
  /\ Event(k)
  /\ u \in alive
  /\ Turn(k, [Done EXCEPT !.pc = "mark", !.user = u, !.to = socket[u],
                          !.list = {m \in Stored : ~message[m].read}])
  /\ UNCHANGED <<kind, message, socket, alive, looking, seen, missed, closed>>

\* getAllMessages reads the user and every message ...
GetAllMessages(k, u) ==
  /\ Event(k)
  /\ u \in alive
  /\ Turn(k, [Done EXCEPT !.pc = "mark", !.user = u, !.to = socket[u], !.list = Stored])
  /\ UNCHANGED <<kind, message, socket, alive, looking, seen, missed, closed>>

\* the messages for a user are marked as read
Read(u) ==
  message' = [m \in Messages |->
                IF m \in To(u) THEN [message[m] EXCEPT !.read = TRUE] ELSE message[m]]

\* ... marks those there are by now ...
MarkAllMsg(k) ==
  /\ task[k].pc = "mark"
  /\ Read(task[k].user)
  /\ Goto(k, "show")
  /\ UNCHANGED <<kind, socket, alive, looking, seen, emitted, missed, closed>>

\* ... and sends those it has read to the socket it has read
ShowAll(k) ==
  /\ task[k].pc = "show"
  /\ Deliver(k, task[k].user, task[k].to)
  /\ looking' = IF Reaches(task[k].user, task[k].to)
                THEN looking \cup {task[k].user} ELSE looking
  /\ UNCHANGED <<kind, message, socket, alive, emitted, closed>>

\* ReadMessages, of an app that shows the chat
ReadMessages(u) ==
  /\ u \in looking
  /\ emitted < MaxSocketEvents /\ emitted' = emitted + 1
  /\ Read(u)
  /\ UNCHANGED <<kind, socket, alive, looking, seen, task, missed, closed>>

\* close_chat, by a dispatcher: every message there is by now is marked, whoever it is
\* for.  What else it writes is in Chat; the chat may go on.
CloseChat ==
  /\ emitted < MaxSocketEvents /\ emitted' = emitted + 1
  /\ message' = [m \in Messages |->
                   IF m \in Stored THEN [message[m] EXCEPT !.read = TRUE] ELSE message[m]]
  /\ closed' = closed \cup {m \in Stored : ~message[m].read}
  /\ UNCHANGED <<kind, socket, alive, looking, seen, task, missed>>

---------------------------------------------------------------------------
Init ==
  /\ kind \in Kinds
  /\ message = [m \in Messages |-> NoMessage]
  /\ socket = [u \in Members |-> 0]
  /\ alive = {} /\ looking = {}
  /\ seen = [u \in Members |-> {}]
  /\ task = [k \in Tasks |-> Done]
  /\ emitted = 0 /\ missed = {} /\ closed = {}

Next ==
  \/ \E u \in Members : Connect(u) \/ Disconnect(u) \/ ReadMessages(u)
  \/ \E k \in Tasks :
       \/ ChatSupport(k)
       \/ \E u \in Members, r \in Members \cup {None} : SendMessage(k, u, r)
       \/ UpdateChat(k) \/ StoreMessage(k) \/ Emit(k)
       \/ \E u \in Members : GetAllMessages(k, u)
       \/ MarkAllMsg(k) \/ ShowAll(k)
  \/ CloseChat

Spec == Init /\ [][Next]_vars

---------------------------------------------------------------------------
\* The types of the state.
TypeOK ==
  /\ kind \in Kinds
  /\ message \in [Messages -> [sender : Members \cup {None}, receiver : Members \cup {None},
                               read : BOOLEAN]]
  /\ socket \in [Members -> Nat]
  /\ looking \subseteq alive /\ alive \subseteq Members
  /\ seen \in [Members -> SUBSET Messages]
  /\ \A k \in Tasks : task[k].pc \in {"idle", "claim", "store", "emit", "mark", "show"}
  /\ emitted \in 0 .. MaxSocketEvents
  /\ missed \subseteq Messages /\ closed \subseteq Messages

UnderWay(m) == \E k \in Tasks : m \in task[k].list

\* A message that is marked as read has been sent to an app of its receiver, or is about
\* to be - unless he had left the socket that was read before it was stored or listed, or
\* a dispatcher marked it, closing the chat.
ReadIsSeen ==
  \A m \in Stored \ closed : message[m].read =>
    /\ message[m].receiver \in Members
    /\ m \in seen[message[m].receiver] \/ m \in missed \/ UnderWay(m)

\* Who looks at the chat has been sent every message of it, or is about to be - unless
\* he had left the socket it was sent to.
LookingIsComplete ==
  \A u \in looking : \A m \in Stored :
    m \in seen[u] \/ m \in missed \/ UnderWay(m)

MessagesHold == ReadIsSeen /\ LookingIsComplete
=============================================================================
