-------------------------------- MODULE Chat --------------------------------
(***************************************************************************)
(* Chats: chat.service.ts and its gateway.  One booking with its customer  *)
(* and driver, and the staff who answer support messages.  A handler that  *)
(* awaits the database between the read of a connection and a write that   *)
(* depends on it runs in a slot, one action per write.  The messages are   *)
(* in Messages, and with them the mark that they are read, which           *)
(* close_chat writes as well; the room a user looks at (connection_id) is  *)
(* left out.                                                               *)
(***************************************************************************)
EXTENDS Naturals, FiniteSets

CONSTANTS
  Driver, Customer, \* the two users of the booking
  Staff,            \* dispatchers
  Connections,      \* bound: the connections that may be created, in order
  Threads,          \* handlers under way at a time
  MaxEvents,        \* bound: socket events
  None

VARIABLES
  connection, \* the connections collection
  support,    \* support_connection of each user
  attached,   \* connection_driver and connection_customer of the booking
  thread,     \* the handlers under way
  events,     \* socket events handled
  orphaned,       \* connections closed while a handler held them
  twice       \* two openings of the booking's chat overlapped

vars == <<connection, support, attached, thread, events, orphaned, twice>>

Riders == {Driver, Customer}
NoConnection == [state |-> "none", sender |-> None, receiver |-> None, booking |-> FALSE,
                 chat_type |-> "support", initiated_by |-> None]
Rest == [pc |-> "idle", who |-> None, user |-> None, found |-> None, booking |-> FALSE,
         seen |-> NoConnection, clears |-> FALSE]

OpenOnes == {c \in Connections : connection[c].state = "open"}
Parties(c) == {connection[c].sender, connection[c].receiver}
First(S) == IF S = {} THEN None ELSE CHOOSE c \in S : \A d \in S : c <= d
Unused == {c \in Connections : connection[c].state = "none"}

Create(c, sender, receiver, booking, type, by) ==
  connection' = [connection EXCEPT ![c] =
    [state |-> "open", sender |-> sender, receiver |-> receiver, booking |-> booking,
     chat_type |-> type, initiated_by |-> by]]

Begin(t) == /\ thread[t].pc = "idle"
            /\ events < MaxEvents /\ events' = events + 1
At(t, pc) == thread[t].pc = pc
Goto(t, j) == thread' = [thread EXCEPT ![t] = j]
End(t) == Goto(t, Rest)

---------------------------------------------------------------------------
(* The booking's own chat.                                                 *)

Peer(u) == IF u = Driver THEN Customer ELSE Driver
Rooms == {c \in OpenOnes : Riders \subseteq Parties(c) /\ connection[c].booking}

\* create-connection of a rider: an open connection of the two is looked for ...
OpenRoom(t, u) ==
  /\ Begin(t)
  /\ IF Rooms # {}
     THEN UNCHANGED <<thread, twice>>
     ELSE /\ Goto(t, [Rest EXCEPT !.pc = "room", !.user = u])
          /\ twice' = (twice \/ \E s \in Threads : At(s, "room"))
  /\ UNCHANGED <<connection, support, attached, orphaned>>

\* ... and one is created when there was none
CreateRoom(t) ==
  /\ At(t, "room")
  /\ Unused # {}
  /\ Create(First(Unused), thread[t].user, Peer(thread[t].user), TRUE, "booking",
            thread[t].user)
  /\ End(t)
  /\ UNCHANGED <<support, attached, events, orphaned, twice>>

---------------------------------------------------------------------------
(* Support.                                                                *)

\* chat_support: the receiver is not known, the id that is looked for instead is a new
\* one, and a connection is created for every message ...
ChatSupport(t, u, booking) ==
  /\ Begin(t)
  /\ Unused # {}
  /\ LET c == First(Unused)
     IN  /\ Create(c, u, None, booking, "support", u)
         /\ Goto(t, [Rest EXCEPT !.pc = "inject", !.user = u, !.found = c,
                                 !.booking = booking])
  /\ UNCHANGED <<support, attached, orphaned, twice>>

\* ... and, when the message is stored and sent, the booking or the user refers to it
InjectWithRef(t) ==
  /\ At(t, "inject")
  /\ LET u == thread[t].user
         c == thread[t].found
     IN  IF thread[t].booking
         THEN attached' = [attached EXCEPT ![u] = c] /\ UNCHANGED support
         ELSE support' = [support EXCEPT ![u] = c] /\ UNCHANGED attached
  /\ End(t)
  /\ UNCHANGED <<connection, events, orphaned, twice>>

\* create-connection of staff: a support connection of the user nobody has answered ...
StaffFind(t, s, u, booking) ==
  /\ Begin(t)
  /\ LET c == First({x \in OpenOnes : /\ connection[x].sender = u
                                      /\ connection[x].receiver = None})
         j == [Rest EXCEPT !.who = s, !.user = u, !.found = c, !.booking = booking]
     IN  Goto(t, [j EXCEPT !.pc = IF c = None THEN "pair" ELSE "take"])
  /\ UNCHANGED <<connection, support, attached, orphaned, twice>>

\* ... is answered from now on
StaffTake(t) ==
  /\ At(t, "take")
  /\ connection' = [connection EXCEPT ![thread[t].found].receiver = thread[t].who]
  /\ End(t)
  /\ UNCHANGED <<support, attached, events, orphaned, twice>>

\* ... or else the open one of the two is looked for ...
StaffPair(t) ==
  /\ At(t, "pair")
  /\ LET c == First({x \in OpenOnes : /\ {thread[t].who, thread[t].user} \subseteq Parties(x)
                                      /\ thread[t].booking => connection[x].booking})
     IN  Goto(t, [thread[t] EXCEPT !.pc = IF c = None THEN "create" ELSE "link", !.found = c])
  /\ UNCHANGED <<connection, support, attached, events, orphaned, twice>>

\* ... or created, as if the user had opened it ...
StaffCreate(t) ==
  /\ At(t, "create")
  /\ Unused # {}
  /\ LET c == First(Unused)
     IN  /\ Create(c, thread[t].who, thread[t].user, thread[t].booking, "booking",
                   thread[t].user)
         /\ Goto(t, [thread[t] EXCEPT !.pc = "link", !.found = c])
  /\ UNCHANGED <<support, attached, events, orphaned, twice>>

\* ... and a driver refers to it
StaffLink(t) ==
  /\ At(t, "link")
  /\ support' = IF thread[t].user = Driver
                THEN [support EXCEPT ![Driver] = thread[t].found] ELSE support
  /\ End(t)
  /\ UNCHANGED <<connection, attached, events, orphaned, twice>>

\* send-message of type support: whoever writes becomes the receiver, closed or not
SendSupport(x, c) ==
  /\ events < MaxEvents /\ events' = events + 1
  /\ connection[c].state # "none"
  /\ ~(Riders \subseteq Parties(c))
  /\ x \in Staff \/ x \in Parties(c)
  /\ connection' = [connection EXCEPT ![c].receiver = x]
  /\ UNCHANGED <<support, attached, thread, orphaned, twice>>

---------------------------------------------------------------------------
(* close_chat, by a dispatcher.                                            *)

\* the user the history is mailed to
SendTo(k) == IF k.initiated_by \in {k.sender} \cap Riders THEN k.sender ELSE None

\* the connection is closed, and its user is read ...
CloseChat(t, s, c) ==
  /\ Begin(t)
  /\ c \in OpenOnes
  /\ connection' = [connection EXCEPT ![c].state = "closed"]
  /\ LET to == SendTo(connection[c])
     IN  Goto(t, [Rest EXCEPT !.pc = "unbook", !.who = s, !.user = to,
                    !.seen = connection[c],
                    !.clears = (to # None /\ support[to] # None)])
  /\ orphaned' = IF \E r \in Threads \ {t} : thread[r].pc \in {"inject", "link"} /\ thread[r].found = c
             THEN orphaned \cup {c} ELSE orphaned
  /\ UNCHANGED <<support, attached, twice>>

\* ... the booking forgets it ...
CloseUnbook(t) ==
  /\ At(t, "unbook")
  /\ attached' = IF thread[t].seen.booking /\ thread[t].seen.initiated_by \in Riders
                 THEN [attached EXCEPT ![thread[t].seen.initiated_by] = None] ELSE attached
  /\ Goto(t, [thread[t] EXCEPT !.pc = "unlink"])
  /\ UNCHANGED <<connection, support, events, orphaned, twice>>

\* Mutant: the dispatcher is always taken for the receiver
CloseUnlinkSender(t) ==
  /\ At(t, "unlink")
  /\ support' = IF thread[t].seen.sender \in Riders
                THEN [support EXCEPT ![thread[t].seen.sender] = None] ELSE support
  /\ Goto(t, [thread[t] EXCEPT !.pc = "save"])
  /\ UNCHANGED <<connection, attached, events, orphaned, twice>>

\* ... so does the party who is not the dispatcher ...
CloseUnlink(t) ==
  /\ At(t, "unlink")
  /\ LET k == thread[t].seen
         u == IF k.receiver = thread[t].who THEN k.sender ELSE k.receiver
     IN  support' = IF u \in Riders THEN [support EXCEPT ![u] = None] ELSE support
  /\ Goto(t, [thread[t] EXCEPT !.pc = "save"])
  /\ UNCHANGED <<connection, attached, events, orphaned, twice>>

\* ... and the user who was read, unless there was none: then the handler throws here
CloseSave(t) ==
  /\ At(t, "save")
  /\ support' = IF thread[t].clears THEN [support EXCEPT ![thread[t].user] = None] ELSE support
  /\ End(t)
  /\ UNCHANGED <<connection, attached, events, orphaned, twice>>

---------------------------------------------------------------------------
Init ==
  /\ connection = [c \in Connections |-> NoConnection]
  /\ support = [u \in Riders |-> None]
  /\ attached = [u \in Riders |-> None]
  /\ thread = [t \in Threads |-> Rest]
  /\ events = 0 /\ orphaned = {} /\ twice = FALSE

Handler(t) ==
  \/ \E u \in Riders : OpenRoom(t, u)
  \/ CreateRoom(t)
  \/ \E u \in Riders, b \in BOOLEAN : ChatSupport(t, u, b)
  \/ InjectWithRef(t)
  \/ \E s \in Staff, u \in Riders, b \in BOOLEAN : StaffFind(t, s, u, b)
  \/ StaffTake(t) \/ StaffPair(t) \/ StaffCreate(t) \/ StaffLink(t)
  \/ \E s \in Staff, c \in Connections : CloseChat(t, s, c)
  \/ CloseUnbook(t) \/ CloseUnlink(t) \/ CloseSave(t)

Next ==
  \/ \E t \in Threads : Handler(t)
  \/ \E x \in Staff \cup Riders, c \in Connections : SendSupport(x, c)

---------------------------------------------------------------------------
Links == Connections \cup {None}
Documents == [state : {"none", "open", "closed"}, sender : Staff \cup Riders \cup {None},
              receiver : Staff \cup Riders \cup {None}, booking : BOOLEAN,
              chat_type : {"support", "booking"}, initiated_by : Riders \cup {None}]

\* Every document and handler has its type.
TypeOK ==
  /\ connection \in [Connections -> Documents]
  /\ support \in [Riders -> Links] /\ attached \in [Riders -> Links]
  /\ thread \in [Threads ->
       [pc : {"idle", "room", "inject", "take", "pair", "create", "link", "unbook",
              "unlink", "save"},
        who : Staff \cup {None}, user : Riders \cup {None}, found : Links,
        booking : BOOLEAN, seen : Documents, clears : BOOLEAN]]
  /\ events \in 0 .. MaxEvents /\ orphaned \subseteq Connections /\ twice \in BOOLEAN

Closing == {"unbook", "unlink", "save"}

\* A user or the booking refers to an open connection, once close_chat has come to its
\* end: unless a handler was about to refer to it when it was closed, or a dispatcher's
\* message had put the dispatcher in the place of the user.
LinksAreOpen ==
  /\ \A u \in Riders :
       LET c == support[u]
       IN  c # None => \/ c \in OpenOnes \/ c \in orphaned
                       \/ u \notin Parties(c)
                       \/ \E t \in Threads : thread[t].pc \in Closing
  /\ \A u \in Riders :
       LET c == attached[u]
       IN  c # None => \/ c \in OpenOnes \/ c \in orphaned
                       \/ \E t \in Threads : thread[t].pc = "unbook"

\* The booking's customer and driver share one open connection, unless both opened it at
\* the same time.
OneRoom == ~twice => Cardinality(Rooms) <= 1
=============================================================================
