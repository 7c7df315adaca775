------------------------------- MODULE Presence -------------------------------
(***************************************************************************)
(* Who is connected, and who a message reaches: the part of BookingGateway,  *)
(* GatewayFactory and LocationGateway that keeps sockets, rooms and the list *)
(* of clients, with the pushes of NotificationsService.                      *)
(*                                                                         *)
(* Rooms and the map driverSockets live in the memory of the process; the     *)
(* hash connected_clients lives in Redis, written through one connection,     *)
(* whose commands run in the order of their calls; the device tokens are     *)
(* rows of the database.  What the last step sent is kept until the next.    *)
(* A driver has two ids, of his user and of his profile, and so two rooms     *)
(* of the same prefix: messages go to the first, his app joins the second.    *)
(***************************************************************************)
EXTENDS Sequences, Naturals

CONSTANTS
  Sockets,      \* socket ids; every connection gets a new one
  Drivers,      \* users who are drivers
  Customers,    \* users who are customers
  Bookings,
  NoUser,       \* a socket that authenticated as nobody
  NoSocket,     \* a driver without an entry in driverSockets
  Asked,        \* the kinds of the rooms clients ask to join, and whose
  MaxLag        \* bound on the calls of Redis that have not run

Users == Drivers \cup Customers

ASSUME UsersAssumption == NoUser \notin Users /\ Drivers \cap Customers = {}
ASSUME SocketsAssumption == NoSocket \notin Sockets
ASSUME MaxLagAssumption == MaxLag \in Nat

Room(kind, id) == [kind |-> kind, id |-> id]
Personal(u) == Room(IF u \in Drivers THEN "driver" ELSE "customer", u)
Profile(d) == Room("profile", d)
Tracking(d) == Room("tracking", d)
BookingRoom(b) == Room("booking", b)

Rooms ==
  {Personal(u) : u \in Users} \cup {Profile(d) : d \in Drivers}
    \cup {Tracking(d) : d \in Drivers} \cup {BookingRoom(b) : b \in Bookings}

\* The rooms a client may ask for, by any of joinRoom (with a userType as declared),
\* joinDriverRoom, trackDriver and goOnline: none of them looks at who it is.
AskedRooms == {r \in Rooms : r.kind # "booking" /\ <<r.kind, r.id>> \in Asked}

\* driver_<id>, of whichever of his ids a driver names: IMPLEMENTATION_SUMMARY.md:241
\* lets his app join the room of the user, goOnline and goOffline act on either.
DriverRooms == {r \in AskedRooms : r.kind \in {"driver", "profile"}}

Commands == {"hset", "hdel"} \X Sockets
EventNames == {"none", "bookingRequest", "bookingCancelled", "bookingAccepted", "bookingTimeout"}
Messages ==
  [event : EventNames, user : Users \cup {NoUser}, described : BOOLEAN,
   sockets : SUBSET Sockets, push : BOOLEAN]
Nothing == [event |-> "none", user |-> NoUser, described |-> FALSE, sockets |-> {}, push |-> FALSE]

VARIABLES
  conn,           \* per socket: "new" (not yet used), "on" or "gone"
  who,            \* client.data: the user of a socket
  rooms,          \* per socket, the rooms it is in
  driverSockets,  \* per driver, his socket
  commands,       \* calls of the Redis connection that have not run
  listed,         \* the hash connected_clients
  registered,     \* users with a device token
  sent,           \* what the last step sent to a user
  lost,           \* history: sockets whose end no disconnect handler saw
  left            \* history: sockets whose client asked to leave its own room

presenceVars ==
  <<conn, who, rooms, driverSockets, commands, listed, registered, sent, lost, left>>

TypeOK ==
  /\ conn \in [Sockets -> {"new", "on", "gone"}]
  /\ who \in [Sockets -> Users \cup {NoUser}]
  /\ rooms \in [Sockets -> SUBSET Rooms]
  /\ driverSockets \in [Drivers -> Sockets \cup {NoSocket}]
  /\ commands \in Seq(Commands)
  /\ listed \in SUBSET Sockets
  /\ registered \in SUBSET Users
  /\ sent \in Messages
  /\ lost \in SUBSET Sockets
  /\ left \in SUBSET Sockets

Init ==
  /\ conn = [s \in Sockets |-> "new"]
  /\ who = [s \in Sockets |-> NoUser]
  /\ rooms = [s \in Sockets |-> {}]
  /\ driverSockets = [d \in Drivers |-> NoSocket]
  /\ commands = <<>>
  /\ listed = {}
  /\ registered = {}
  /\ sent = Nothing
  /\ lost = {}
  /\ left = {}

----------------------------------------------------------------------------
Live(s) == conn[s] = "on"

\* The sockets server.to(room) reaches.
In(r) == {s \in Sockets : r \in rooms[s]}

\* `described` tells whether the booking of the message has all that the text of its
\* push is made of: cargo requirements, a price and both coordinates.
Sending(event, u, described, sockets, push) ==
  sent' = [event |-> event, user |-> u, described |-> described, sockets |-> sockets, push |-> push]
SendsNothing == sent' = Nothing

\* A device is sent to when its owner has registered a token; what becomes of the
\* push at the provider is logged and ignored.
HasToken(u) == u \in registered

\* Calls of Redis, as long as not too many are outstanding.
Issue(new) ==
  /\ Len(commands \o new) <= MaxLag
  /\ commands' = commands \o new

Enter(s) ==
  /\ conn[s] = "new"
  /\ conn' = [conn EXCEPT ![s] = "on"]
  /\ Issue(<<<<"hset", s>>>>)
  /\ SendsNothing
  /\ UNCHANGED <<listed, registered, lost, left>>

----------------------------------------------------------------------------
\* Bugs this code could have had: each stands in for the definition of the
\* same parameters in a mutation of a run, and is used nowhere else.

\* The mapping is kept while the driver has another socket.
Untrack_Last(s) ==
  driverSockets' = [d \in Drivers |->
    IF who[s] = d /\ \A t \in Sockets \ {s} : who[t] = d => ~Live(t)
    THEN NoSocket ELSE driverSockets[d]]

\* The room of a booking is emptied of the sockets and of all their rooms.
RemoveBookingRoom_LeavesAll(b) ==
  /\ rooms' = [s \in Sockets |-> IF BookingRoom(b) \in rooms[s] THEN {} ELSE rooms[s]]
  /\ SendsNothing
  /\ UNCHANGED <<conn, who, driverSockets, commands, listed, registered, lost, left>>

\* The commands go through a pool of connections.
RunCommand_AnyOrder ==
  \E i \in 1..Len(commands) :
    /\ listed' = IF commands[i][1] = "hset" THEN listed \cup {commands[i][2]}
                 ELSE listed \ {commands[i][2]}
    /\ commands' = SubSeq(commands, 1, i - 1) \o SubSeq(commands, i + 1, Len(commands))
    /\ SendsNothing
    /\ UNCHANGED <<conn, who, rooms, driverSockets, registered, lost, left>>

\* The request goes to the socket the driver is tracked by.
Reached_Tracked(u) ==
  IF u \in Drivers THEN {driverSockets[u]} ELSE In(Personal(u))

\* As before, but only where there is one.
Reached_TrackedOnly(u) ==
  IF u \in Drivers THEN {driverSockets[u]} \cap Sockets ELSE In(Personal(u))

----------------------------------------------------------------------------
\* Connections.

\* handleConnection with a valid token: the client joins its room, and a driver's
\* socket replaces the one he was tracked by.
ConnectWithToken(s, u) ==
  /\ Enter(s)
  /\ who' = [who EXCEPT ![s] = u]
  /\ rooms' = [rooms EXCEPT ![s] = {Personal(u)}]
  /\ driverSockets' = [d \in Drivers |-> IF d = u THEN s ELSE driverSockets[d]]

\* Without a token the client stays, as nobody.
ConnectWithoutToken(s) ==
  /\ Enter(s)
  /\ UNCHANGED <<who, rooms, driverSockets>>

\* An invalid token: the client is disconnected while its connection is being
\* handled, before or after the framework listens for the end of it.
RefuseToken(s) ==
  /\ conn[s] = "new"
  /\ conn' = [conn EXCEPT ![s] = "gone"]
  /\ \/ /\ Issue(<<<<"hset", s>>>>)
        /\ lost' = lost \cup {s}
     \/ /\ Issue(<<<<"hset", s>>, <<"hdel", s>>>>)
        /\ UNCHANGED lost
  /\ SendsNothing
  /\ UNCHANGED <<who, rooms, driverSockets, listed, registered, left>>

\* driverSockets.delete(userId), whichever socket the driver is tracked by.
Untrack(s) ==
  driverSockets' = [d \in Drivers |-> IF who[s] = d THEN NoSocket ELSE driverSockets[d]]

\* Every gateway's handleDisconnect: the socket has left its rooms.
Disconnect(s) ==
  /\ Live(s)
  /\ conn' = [conn EXCEPT ![s] = "gone"]
  /\ rooms' = [rooms EXCEPT ![s] = {}]
  /\ who' = [who EXCEPT ![s] = NoUser]
  /\ left' = left \ {s}
  /\ Untrack(s)
  /\ Issue(<<<<"hdel", s>>>>)
  /\ SendsNothing
  /\ UNCHANGED <<listed, registered, lost>>

\* Redis runs the oldest call.
RunCommand ==
  /\ commands # <<>>
  /\ LET s == Head(commands)[2]
     IN listed' = IF Head(commands)[1] = "hset" THEN listed \cup {s} ELSE listed \ {s}
  /\ commands' = Tail(commands)
  /\ SendsNothing
  /\ UNCHANGED <<conn, who, rooms, driverSockets, registered, lost, left>>

\* The process dies, with its calls of Redis that have not run; a new one starts
\* with nothing but what Redis and the database hold.
Die ==
  /\ conn' = [s \in Sockets |-> IF Live(s) THEN "gone" ELSE conn[s]]
  /\ lost' = lost \cup {s \in Sockets : Live(s) \/ \E i \in 1..Len(commands) : commands[i][2] = s}
  /\ rooms' = [s \in Sockets |-> {}]
  /\ driverSockets' = [d \in Drivers |-> NoSocket]
  /\ who' = [s \in Sockets |-> NoUser]
  /\ left' = {}
  /\ commands' = <<>>
  /\ SendsNothing
  /\ UNCHANGED <<listed, registered>>

----------------------------------------------------------------------------
\* Rooms.

ChangesRooms == SendsNothing /\ UNCHANGED <<conn, who, driverSockets, commands, listed, registered, lost>>

JoinRoom(s, r) ==
  /\ Live(s)
  /\ rooms' = [rooms EXCEPT ![s] = @ \cup {r}]
  /\ left' = IF r = Personal(who[s]) THEN left \ {s} ELSE left
  /\ ChangesRooms

\* goOnline and goOffline move the client in and out of the room of the id it
\* names; what they do to the status is in DriverSearch.
GoOnline(s, r) == JoinRoom(s, r)

GoOffline(s, r) ==
  /\ Live(s)
  /\ rooms' = [rooms EXCEPT ![s] = @ \ {r}]
  /\ left' = IF r = Personal(who[s]) THEN left \cup {s} ELSE left
  /\ ChangesRooms

\* When a booking is accepted or has timed out.
RemoveBookingRoom(b) ==
  /\ rooms' = [s \in Sockets |-> rooms[s] \ {BookingRoom(b)}]
  /\ UNCHANGED left
  /\ ChangesRooms

----------------------------------------------------------------------------
\* Messages to users.

Reached(u) == In(Personal(u))

SendsOnly == UNCHANGED <<conn, who, driverSockets, commands, listed, registered, lost, left>>

\* sendBatchRequest, for one driver: his tracked socket enters the room of the
\* booking if it is still there, the request goes to his own room, and a push to
\* his device, unless its text cannot be made: a booking without cargo requirements,
\* price or coordinates makes sendBookingRequest throw.  The token is read after an
\* await; nothing in between undoes it.
OfferBooking(d, b, described) ==
  /\ LET t == driverSockets[d]
     IN rooms' = [s \in Sockets |->
          IF s = t /\ Live(s) THEN rooms[s] \cup {BookingRoom(b)} ELSE rooms[s]]
  /\ Sending("bookingRequest", d, described, Reached(d), HasToken(d) /\ described)
  /\ SendsOnly

\* Another driver was faster, or nobody was: the driver's room is told.  The push
\* looks for a profile under the id of the user, and finds none.
CancelRequest(d) ==
  /\ Sending("bookingCancelled", d, FALSE, Reached(d), FALSE)
  /\ SendsOnly /\ UNCHANGED rooms

\* notifyCustomerBookingAccepted: a push.  The gateway's bookingAccepted over the
\* socket is for an acceptance that returns, which none does (BookingAllocation).
TellAccepted(c) ==
  /\ Sending("bookingAccepted", c, FALSE, {}, HasToken(c))
  /\ SendsOnly /\ UNCHANGED rooms

\* notifyCustomerBookingTimeout: a push, and nothing over the socket.
TellTimeout(c) ==
  /\ Sending("bookingTimeout", c, FALSE, {}, HasToken(c))
  /\ SendsOnly /\ UNCHANGED rooms

\* A token takes the place of the one before.
Registers(u) ==
  /\ registered' = registered \cup {u}
  /\ SendsNothing
  /\ UNCHANGED <<conn, who, rooms, driverSockets, commands, listed, lost, left>>

\* POST notifications/register-token, which sends drivers to the other route.
RegisterToken(c) == Registers(c)

\* PATCH drivers/me/fcm-token.
RegisterFcmToken(d) == Registers(d)

\* Nothing here changes: a handler of another gateway runs.
Elsewhere ==
  /\ SendsNothing
  /\ UNCHANGED <<conn, who, rooms, driverSockets, commands, listed, registered, lost, left>>

\* DELETE notifications/unregister-token: the only column of the update is
\* undefined and is left out of the statement, so the token stays.
ClearToken(c) == Elsewhere

----------------------------------------------------------------------------
Asks(s) ==
  \/ \E r \in AskedRooms : JoinRoom(s, r)
  \/ \E r \in DriverRooms : GoOnline(s, r) \/ GoOffline(s, r)

Notify ==
  \/ \E d \in Drivers, b \in Bookings, described \in BOOLEAN : OfferBooking(d, b, described)
  \/ \E d \in Drivers : CancelRequest(d)
  \/ \E c \in Customers : TellAccepted(c) \/ TellTimeout(c)

Next ==
  \/ \E s \in Sockets : \/ \E u \in Users : ConnectWithToken(s, u)
                        \/ ConnectWithoutToken(s) \/ RefuseToken(s)
                        \/ Disconnect(s) \/ Asks(s)
  \/ RunCommand \/ Die \/ Notify
  \/ \E b \in Bookings : RemoveBookingRoom(b)
  \/ \E d \in Drivers : RegisterFcmToken(d)
  \/ \E c \in Customers : RegisterToken(c) \/ ClearToken(c)
  \/ Elsewhere

Spec == Init /\ [][Next]_presenceVars

----------------------------------------------------------------------------
\* Properties.

\* A driver is never tracked by a socket that has gone or is another's, in
\* whatever order his old and new sockets come and go: addDriverToBookingRoom
\* can only put a socket of that driver into the room.
TrackedIsLive ==
  \A d \in Drivers : driverSockets[d] # NoSocket =>
    Live(driverSockets[d]) /\ who[driverSockets[d]] = d

\* Whoever authenticated stays in the room his messages go to as long as he is
\* connected, unless his own last word on that room was goOffline: no step of
\* another, and no end of a booking, takes him out; a socket that has gone is in no
\* room; and only a driver's socket is ever in the room of a booking.
RoomsHold ==
  \A s \in Sockets :
    /\ ~Live(s) => rooms[s] = {}
    /\ Live(s) /\ who[s] # NoUser /\ s \notin left => Personal(who[s]) \in rooms[s]
    /\ \A b \in Bookings : BookingRoom(b) \in rooms[s] => who[s] \in Drivers

\* When Redis has caught up, connected_clients has everybody who is connected, and
\* nobody who has left but those whose leaving no handler could see.
ListedAtRest ==
  commands = <<>> =>
    /\ \A s \in Sockets : Live(s) => s \in listed
    /\ \A s \in listed : Live(s) \/ s \in lost

\* A booking request reaches every connection of the driver that did not ask to
\* leave his room, also those he is no longer tracked by, and so does the message
\* that the request is off; a device is sent to just when its owner has registered
\* one, for a request if the booking has all that the text is made of.
MessageReaches ==
  /\ sent.event \in {"bookingRequest", "bookingCancelled"} =>
       \A s \in Sockets : Live(s) /\ who[s] = sent.user /\ s \notin left => s \in sent.sockets
  /\ \/ sent.event = "bookingRequest" /\ sent.described
     \/ sent.event \in {"bookingAccepted", "bookingTimeout"}
     => (sent.push <=> sent.user \in registered)

\* "FCM push notification to offline/backgrounded drivers"
\* (IMPLEMENTATION_SUMMARY.md:48): a driver who is offered a booking and has
\* registered a device gets the request over a socket or as a push.
OfferArrives ==
  sent.event = "bookingRequest" /\ sent.user \in registered =>
    sent.push \/ sent.sockets # {}
=============================================================================
