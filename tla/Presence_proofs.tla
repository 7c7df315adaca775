---------------------------- MODULE Presence_proofs ----------------------------
(***************************************************************************)
(* Proofs about Presence, for any number of sockets, drivers, customers,     *)
(* bookings and outstanding calls of Redis.                                  *)
(***************************************************************************)
EXTENDS Presence, SequenceTheorems, TLAPS

----------------------------------------------------------------------------
\* Rooms.

\* Two users share no room of their own, and neither is the room of a booking.
LEMMA PersonalRooms ==
  ASSUME NEW u \in Users
  PROVE  /\ Personal(u) \in Rooms
         /\ \A v \in Users : Personal(u) = Personal(v) => u = v
         /\ \A b : Personal(u) # BookingRoom(b)
BY DEF Personal, Room, Rooms, BookingRoom, Profile

\* What a client asks to join is a room, and not of a booking.
LEMMA AskedAreRooms ==
  /\ \A r \in AskedRooms : r \in Rooms /\ \A b : r # BookingRoom(b)
  /\ DriverRooms \subseteq AskedRooms
  /\ \A b \in Bookings : BookingRoom(b) \in Rooms
<1>1. ASSUME NEW r \in AskedRooms PROVE r \in Rooms /\ \A b : r # BookingRoom(b)
    <2>1. r \in Rooms /\ r.kind # "booking"
        BY DEF AskedRooms
    <2>2. \A b : BookingRoom(b).kind = "booking"
        BY DEF BookingRoom, Room
    <2> QED BY <2>1, <2>2
<1>2. DriverRooms \subseteq AskedRooms
    BY DEF DriverRooms
<1>3. \A b \in Bookings : BookingRoom(b) \in Rooms
    BY DEF Rooms
<1> QED BY <1>1, <1>2, <1>3

----------------------------------------------------------------------------
\* Types.

LEMMA InitTypes == Init => TypeOK
BY DEF Init, TypeOK, Messages, Nothing, EventNames

\* The last step sent nothing, or a message.
LEMMA NothingTypes == SendsNothing => sent' \in Messages
BY DEF SendsNothing, Nothing, Messages, EventNames

LEMMA SendingTypes ==
  ASSUME NEW u \in Users, NEW e \in EventNames, NEW described \in BOOLEAN,
         NEW sockets \in SUBSET Sockets, NEW push \in BOOLEAN,
         Sending(e, u, described, sockets, push)
  PROVE  sent' \in Messages
BY DEF Sending, Messages

\* The calls of Redis are a sequence of commands.
LEMMA IssueTypes ==
  ASSUME commands \in Seq(Commands), NEW new \in Seq(Commands), Issue(new)
  PROVE  commands' \in Seq(Commands)
BY ConcatProperties DEF Issue

LEMMA OneOrTwo ==
  ASSUME NEW s \in Sockets
  PROVE  /\ <<<<"hset", s>>>> \in Seq(Commands)
         /\ <<<<"hdel", s>>>> \in Seq(Commands)
         /\ <<<<"hset", s>>, <<"hdel", s>>>> \in Seq(Commands)
BY DEF Commands

\* Nothing but the rooms changes.
LEMMA RoomsTypes ==
  ASSUME TypeOK, ChangesRooms, rooms' \in [Sockets -> SUBSET Rooms], left' \in SUBSET Sockets
  PROVE  TypeOK'
BY NothingTypes DEF TypeOK, ChangesRooms

\* A message is sent, and the rooms keep their type.
LEMMA MessageTypes ==
  ASSUME TypeOK, SendsOnly, rooms' \in [Sockets -> SUBSET Rooms], sent' \in Messages
  PROVE  TypeOK'
BY DEF TypeOK, SendsOnly

LEMMA ReachedTypes == \A u : Reached(u) \in SUBSET Sockets /\ HasToken(u) \in BOOLEAN
BY DEF Reached, In, HasToken

LEMMA NextTypes == TypeOK /\ [Next]_presenceVars => TypeOK'
<1> SUFFICES ASSUME TypeOK, [Next]_presenceVars PROVE TypeOK'
    OBVIOUS
<1>1. ASSUME NEW s \in Sockets, Enter(s)
      PROVE  /\ conn' \in [Sockets -> {"new", "on", "gone"}]
             /\ commands' \in Seq(Commands) /\ sent' \in Messages
             /\ UNCHANGED <<listed, registered, lost, left>>
    BY <1>1, IssueTypes, OneOrTwo, NothingTypes DEF Enter, TypeOK
<1>2. ASSUME NEW s \in Sockets, NEW u \in Users, ConnectWithToken(s, u) PROVE TypeOK'
    <2>1. Enter(s)
        BY <1>2 DEF ConnectWithToken
    <2>2. rooms' \in [Sockets -> SUBSET Rooms]
        BY <1>2, PersonalRooms DEF ConnectWithToken, TypeOK
    <2>3. /\ who' \in [Sockets -> Users \cup {NoUser}]
          /\ driverSockets' \in [Drivers -> Sockets \cup {NoSocket}]
        BY <1>2 DEF ConnectWithToken, TypeOK
    <2> QED BY <1>1, <2>1, <2>2, <2>3 DEF TypeOK
<1>3. ASSUME NEW s \in Sockets, ConnectWithoutToken(s) PROVE TypeOK'
    BY <1>1, <1>3 DEF ConnectWithoutToken, TypeOK
<1>4. ASSUME NEW s \in Sockets, RefuseToken(s) PROVE TypeOK'
    <2>1. commands' \in Seq(Commands)
        BY <1>4, IssueTypes, OneOrTwo DEF RefuseToken, TypeOK
    <2>2. lost' \in SUBSET Sockets
        BY <1>4 DEF RefuseToken, TypeOK
    <2> QED BY <1>4, <2>1, <2>2, NothingTypes DEF RefuseToken, TypeOK
<1>5. ASSUME NEW s \in Sockets, Disconnect(s) PROVE TypeOK'
    <2>1. commands' \in Seq(Commands)
        BY <1>5, IssueTypes, OneOrTwo DEF Disconnect, TypeOK
    <2>2. driverSockets' \in [Drivers -> Sockets \cup {NoSocket}]
        BY <1>5 DEF Disconnect, Untrack, TypeOK
    <2> QED BY <1>5, <2>1, <2>2, NothingTypes DEF Disconnect, TypeOK
<1>6. ASSUME NEW s \in Sockets, Asks(s) PROVE TypeOK'
    <2>1. ASSUME NEW r \in Rooms, JoinRoom(s, r) PROVE TypeOK'
        BY <2>1, RoomsTypes DEF JoinRoom, TypeOK
    <2>2. ASSUME NEW r \in Rooms, GoOffline(s, r) PROVE TypeOK'
        BY <2>2, RoomsTypes DEF GoOffline, TypeOK
    <2> QED BY <1>6, <2>1, <2>2, AskedAreRooms DEF Asks, GoOnline
<1>7. CASE RunCommand
    <2>1. commands # <<>> /\ commands \in Seq(Commands)
        BY <1>7 DEF RunCommand, TypeOK
    <2>2. Tail(commands) \in Seq(Commands) /\ Head(commands) \in Commands
        BY <2>1, HeadTailProperties
    <2>3. Head(commands)[2] \in Sockets
        BY <2>2 DEF Commands
    <2>4. commands' \in Seq(Commands) /\ listed' \in SUBSET Sockets
        BY <1>7, <2>2, <2>3 DEF RunCommand, TypeOK
    <2> QED BY <1>7, <2>4, NothingTypes DEF RunCommand, TypeOK
<1>8. CASE Die
    <2>1. /\ conn' \in [Sockets -> {"new", "on", "gone"}]
          /\ commands' \in Seq(Commands)
          /\ lost' \in SUBSET Sockets
        BY <1>8 DEF Die, TypeOK
    <2> QED BY <1>8, <2>1, NothingTypes DEF Die, TypeOK
<1>9. CASE Notify
    <2>1. ASSUME NEW d \in Drivers, NEW b \in Bookings, NEW described \in BOOLEAN,
                 OfferBooking(d, b, described)
          PROVE  TypeOK'
        <3>1. rooms' \in [Sockets -> SUBSET Rooms]
            BY <2>1, AskedAreRooms DEF OfferBooking, TypeOK
        <3>2. sent' \in Messages
            BY <2>1, SendingTypes, ReachedTypes DEF OfferBooking, EventNames, Users
        <3> QED BY <2>1, <3>1, <3>2, MessageTypes DEF OfferBooking
    <2>2. ASSUME NEW d \in Drivers, CancelRequest(d) PROVE TypeOK'
        <3>1. sent' \in Messages
            BY <2>2, SendingTypes, ReachedTypes DEF CancelRequest, EventNames, Users
        <3> QED BY <2>2, <3>1, MessageTypes DEF CancelRequest, TypeOK
    <2>3. ASSUME NEW c \in Customers, TellAccepted(c) PROVE TypeOK'
        <3>1. sent' \in Messages
            BY <2>3, SendingTypes, ReachedTypes DEF TellAccepted, EventNames, Users
        <3> QED BY <2>3, <3>1, MessageTypes DEF TellAccepted, TypeOK
    <2>4. ASSUME NEW c \in Customers, TellTimeout(c) PROVE TypeOK'
        <3>1. sent' \in Messages
            BY <2>4, SendingTypes, ReachedTypes DEF TellTimeout, EventNames, Users
        <3> QED BY <2>4, <3>1, MessageTypes DEF TellTimeout, TypeOK
    <2> QED BY <1>9, <2>1, <2>2, <2>3, <2>4 DEF Notify
<1>10. ASSUME NEW b \in Bookings, RemoveBookingRoom(b) PROVE TypeOK'
    BY <1>10, RoomsTypes DEF RemoveBookingRoom, TypeOK
<1>11. ASSUME NEW u \in Users, Registers(u) PROVE TypeOK'
    BY <1>11, NothingTypes DEF Registers, TypeOK
<1>12. CASE Elsewhere
    BY <1>12, NothingTypes DEF Elsewhere, TypeOK
<1>13. CASE UNCHANGED presenceVars
    BY <1>13 DEF presenceVars, TypeOK
<1> QED
    BY <1>2, <1>3, <1>4, <1>5, <1>6, <1>7, <1>8, <1>9, <1>10, <1>11, <1>12, <1>13
    DEF Next, RegisterToken, RegisterFcmToken, ClearToken, Users

\* TypeOK of Presence: the maps are keyed by sockets and drivers and hold them, the
\* calls of Redis name sockets, and what is sent is a message to a user.
THEOREM PresenceTyped == Spec => []TypeOK
BY InitTypes, NextTypes, PTL DEF Spec

----------------------------------------------------------------------------
\* Sockets and rooms.

\* A socket that is not connected is nobody's.
OnlyLiveIsSomeone == \A s \in Sockets : ~Live(s) => who[s] = NoUser

RoomsInv == TypeOK /\ OnlyLiveIsSomeone /\ TrackedIsLive /\ RoomsHold

\* Neither who is connected, nor how drivers are tracked, changes.
LEMMA TrackedStays ==
  ASSUME RoomsInv, UNCHANGED <<conn, who, driverSockets>>
  PROVE  OnlyLiveIsSomeone' /\ TrackedIsLive'
BY DEF RoomsInv, OnlyLiveIsSomeone, TrackedIsLive, Live

\* Rooms are joined and left, but whoever has not left his own stays in it, and that
\* of a booking is joined by drivers only.
LEMMA RoomsStay ==
  ASSUME RoomsInv, UNCHANGED <<conn, who, driverSockets>>,
         \A s \in Sockets :
           /\ ~Live(s) => rooms'[s] = {}
           /\ s \in left \ left' => Personal(who[s]) \in rooms'[s]
           /\ Personal(who[s]) \in rooms[s] \ rooms'[s] => s \in left'
           /\ \A b \in Bookings : BookingRoom(b) \in rooms'[s] =>
                BookingRoom(b) \in rooms[s] \/ who[s] \in Drivers
  PROVE  OnlyLiveIsSomeone' /\ TrackedIsLive' /\ RoomsHold'
<1>1. \A s \in Sockets : who[s] # NoUser => who[s] \in Users
    BY DEF RoomsInv, TypeOK
<1>2. RoomsHold
    BY DEF RoomsInv
<1>3. RoomsHold'
    BY <1>1, <1>2 DEF RoomsHold, Live
<1> QED BY <1>3, TrackedStays

LEMMA InitRooms == Init => RoomsInv
BY InitTypes DEF Init, RoomsInv, OnlyLiveIsSomeone, TrackedIsLive, RoomsHold, Live

LEMMA NextRooms == RoomsInv /\ [Next]_presenceVars => RoomsInv'
<1> SUFFICES ASSUME RoomsInv, [Next]_presenceVars
             PROVE  OnlyLiveIsSomeone' /\ TrackedIsLive' /\ RoomsHold'
    BY NextTypes DEF RoomsInv
<1> DEFINE Goal == OnlyLiveIsSomeone' /\ TrackedIsLive' /\ RoomsHold'
<1>0. TypeOK /\ OnlyLiveIsSomeone /\ TrackedIsLive /\ RoomsHold
    BY DEF RoomsInv
<1>1. CASE UNCHANGED <<conn, who, rooms, driverSockets, left>>
    BY <1>0, <1>1 DEF OnlyLiveIsSomeone, TrackedIsLive, RoomsHold, Live
<1>2. ASSUME NEW s \in Sockets, NEW u \in Users, ConnectWithToken(s, u) PROVE Goal
    <2>1. /\ conn[s] = "new"
          /\ conn' = [conn EXCEPT ![s] = "on"]
          /\ who' = [who EXCEPT ![s] = u]
          /\ rooms' = [rooms EXCEPT ![s] = {Personal(u)}]
          /\ driverSockets' = [d \in Drivers |-> IF d = u THEN s ELSE driverSockets[d]]
          /\ UNCHANGED left
        BY <1>2 DEF ConnectWithToken, Enter
    <2>2. OnlyLiveIsSomeone'
        BY <1>0, <2>1 DEF OnlyLiveIsSomeone, Live, TypeOK
    <2>3. TrackedIsLive'
        BY <1>0, <2>1 DEF TrackedIsLive, Live, TypeOK
    <2>4. RoomsHold'
        BY <1>0, <2>1, PersonalRooms DEF RoomsHold, Live, TypeOK
    <2> QED BY <2>2, <2>3, <2>4
<1>3. ASSUME NEW s \in Sockets, ConnectWithoutToken(s) PROVE Goal
    <2>1. /\ conn[s] = "new"
          /\ conn' = [conn EXCEPT ![s] = "on"]
          /\ UNCHANGED <<who, rooms, driverSockets, left>>
        BY <1>3 DEF ConnectWithoutToken, Enter
    <2>2. who[s] = NoUser /\ ~Live(s)
        BY <1>0, <2>1 DEF OnlyLiveIsSomeone, Live
    <2> QED BY <1>0, <2>1, <2>2 DEF OnlyLiveIsSomeone, TrackedIsLive, RoomsHold, Live, TypeOK
<1>4. ASSUME NEW s \in Sockets, RefuseToken(s) PROVE Goal
    <2>1. /\ conn[s] = "new"
          /\ conn' = [conn EXCEPT ![s] = "gone"]
          /\ UNCHANGED <<who, rooms, driverSockets, left>>
        BY <1>4 DEF RefuseToken
    <2>2. \A t \in Sockets : Live(t) <=> Live(t)'
        BY <1>0, <2>1 DEF Live, TypeOK
    <2>3. OnlyLiveIsSomeone' /\ RoomsHold'
        BY <1>0, <2>1, <2>2 DEF OnlyLiveIsSomeone, RoomsHold, Live
    <2>4. \A d \in Drivers : driverSockets[d] # s
        BY <1>0, <2>1, SocketsAssumption DEF TrackedIsLive, Live
    <2>5. TrackedIsLive'
        BY <1>0, <2>1, <2>4 DEF TrackedIsLive, Live, TypeOK
    <2> QED BY <2>3, <2>5
<1>5. ASSUME NEW s \in Sockets, Disconnect(s) PROVE Goal
    <2>1. /\ conn' = [conn EXCEPT ![s] = "gone"]
          /\ rooms' = [rooms EXCEPT ![s] = {}]
          /\ who' = [who EXCEPT ![s] = NoUser]
          /\ driverSockets' = [d \in Drivers |-> IF who[s] = d THEN NoSocket ELSE driverSockets[d]]
          /\ left' = left \ {s}
        BY <1>5 DEF Disconnect, Untrack
    <2>2. OnlyLiveIsSomeone'
        BY <1>0, <2>1 DEF OnlyLiveIsSomeone, Live, TypeOK
    <2>3. TrackedIsLive'
        BY <1>0, <2>1 DEF TrackedIsLive, Live, TypeOK
    <2>4. RoomsHold'
        BY <1>0, <2>1 DEF RoomsHold, Live, TypeOK
    <2> QED BY <2>2, <2>3, <2>4
<1>6. CASE Die
    <2>1. \A s \in Sockets : conn'[s] # "on" /\ who'[s] = NoUser /\ rooms'[s] = {}
        BY <1>6 DEF Die, Live
    <2>2. \A d \in Drivers : driverSockets'[d] = NoSocket
        BY <1>6 DEF Die
    <2> QED BY <2>1, <2>2 DEF OnlyLiveIsSomeone, TrackedIsLive, RoomsHold, Live
<1>7. ASSUME NEW s \in Sockets, Asks(s) PROVE Goal
    <2>1. ASSUME NEW r, \A b : r # BookingRoom(b), JoinRoom(s, r) PROVE Goal
        <3>1. /\ Live(s) /\ rooms' = [rooms EXCEPT ![s] = @ \cup {r}]
              /\ left' = IF r = Personal(who[s]) THEN left \ {s} ELSE left
            BY <2>1 DEF JoinRoom
        <3>2. \A t \in Sockets : rooms'[t] = IF t = s THEN rooms[s] \cup {r} ELSE rooms[t]
            BY <1>0, <3>1 DEF TypeOK
        <3>3. UNCHANGED <<conn, who, driverSockets>>
            BY <2>1 DEF JoinRoom, ChangesRooms
        <3>4. \A t \in Sockets : ~Live(t) => rooms'[t] = {}
            BY <1>0, <3>1, <3>2 DEF RoomsHold
        <3> QED BY <2>1, <3>1, <3>2, <3>3, <3>4, RoomsStay
    <2>2. ASSUME NEW r, GoOffline(s, r) PROVE Goal
        <3>1. /\ Live(s) /\ rooms' = [rooms EXCEPT ![s] = @ \ {r}]
              /\ left' = IF r = Personal(who[s]) THEN left \cup {s} ELSE left
            BY <2>2 DEF GoOffline
        <3>2. \A t \in Sockets : rooms'[t] = IF t = s THEN rooms[s] \ {r} ELSE rooms[t]
            BY <1>0, <3>1 DEF TypeOK
        <3>3. UNCHANGED <<conn, who, driverSockets>>
            BY <2>2 DEF GoOffline, ChangesRooms
        <3>4. \A t \in Sockets : ~Live(t) => rooms'[t] = {}
            BY <1>0, <3>1, <3>2 DEF RoomsHold
        <3> QED BY <3>1, <3>2, <3>3, <3>4, RoomsStay
    <2> QED BY <1>7, <2>1, <2>2, AskedAreRooms DEF Asks, GoOnline
<1>8. CASE Notify
    <2>1. ASSUME NEW d \in Drivers, NEW b \in Bookings, NEW described \in BOOLEAN,
                 OfferBooking(d, b, described)
          PROVE  Goal
        <3> DEFINE t == driverSockets[d]
        <3>1. \A s \in Sockets : rooms'[s] =
                IF s = t /\ Live(s) THEN rooms[s] \cup {BookingRoom(b)} ELSE rooms[s]
            BY <2>1 DEF OfferBooking
        <3>2. t \in Sockets => who[t] = d
            BY <1>0, SocketsAssumption DEF TrackedIsLive
        <3>3. UNCHANGED <<conn, who, driverSockets, left>>
            BY <2>1 DEF OfferBooking, SendsOnly
        <3>4. \A s \in Sockets : ~Live(s) => rooms'[s] = {}
            BY <1>0, <3>1 DEF RoomsHold
        <3>5. \A s \in Sockets : \A a \in Bookings : BookingRoom(a) \in rooms'[s] =>
                BookingRoom(a) \in rooms[s] \/ who[s] \in Drivers
            BY <3>1, <3>2
        <3>6. \A s \in Sockets : rooms[s] \subseteq rooms'[s]
            BY <3>1
        <3> QED BY <3>3, <3>4, <3>5, <3>6, RoomsStay
    <2>2. ASSUME NEW d \in Drivers, CancelRequest(d) PROVE Goal
        BY <1>1, <2>2 DEF CancelRequest, SendsOnly
    <2>3. ASSUME NEW c \in Customers, TellAccepted(c) \/ TellTimeout(c) PROVE Goal
        BY <1>1, <2>3 DEF TellAccepted, TellTimeout, SendsOnly
    <2> QED BY <1>8, <2>1, <2>2, <2>3 DEF Notify
<1>9. ASSUME NEW b \in Bookings, RemoveBookingRoom(b) PROVE Goal
    <2>1. \A s \in Sockets : rooms'[s] = rooms[s] \ {BookingRoom(b)}
        BY <1>9 DEF RemoveBookingRoom
    <2>2. UNCHANGED <<conn, who, driverSockets, left>>
        BY <1>9 DEF RemoveBookingRoom, ChangesRooms
    <2>3. \A s \in Sockets : ~Live(s) => rooms'[s] = {}
        BY <1>0, <2>1 DEF RoomsHold
    <2>4. \A u, a : Personal(u) # BookingRoom(a)
        BY DEF Personal, BookingRoom, Room
    <2> QED BY <2>1, <2>2, <2>3, <2>4, RoomsStay
<1>10. CASE RunCommand
    BY <1>1, <1>10 DEF RunCommand
<1>11. ASSUME NEW u \in Users, Registers(u) PROVE Goal
    BY <1>1, <1>11 DEF Registers
<1>12. CASE Elsewhere
    BY <1>1, <1>12 DEF Elsewhere
<1>13. CASE UNCHANGED presenceVars
    BY <1>1, <1>13 DEF presenceVars
<1> QED
    BY <1>2, <1>3, <1>4, <1>5, <1>6, <1>7, <1>8, <1>9, <1>10, <1>11, <1>12, <1>13
    DEF Next, RegisterToken, RegisterFcmToken, ClearToken, Users

\* TrackedIsLive, in whatever order any number of sockets of any number of drivers
\* come and go, and through crashes of the process.
THEOREM DriversAreTrackedLive == Spec => []TrackedIsLive
<1>1. RoomsInv => TrackedIsLive
    BY DEF RoomsInv
<1> QED BY <1>1, InitRooms, NextRooms, PTL DEF Spec

\* RoomsHold: whatever clients ask for and whatever bookings come to their end,
\* nobody leaves the room his messages go to but who asked to leave it himself.
THEOREM PersonalRoomsHold == Spec => []RoomsHold
<1>1. RoomsInv => RoomsHold
    BY DEF RoomsInv
<1> QED BY <1>1, InitRooms, NextRooms, PTL DEF Spec

----------------------------------------------------------------------------
\* Messages.

LEMMA NothingReaches == SendsNothing => MessageReaches'
BY DEF SendsNothing, Nothing, MessageReaches

\* Whoever is connected as a user, and has not left his room, is reached in it.
LEMMA EveryoneIsReached ==
  ASSUME RoomsInv, NEW u \in Users
  PROVE  \A s \in Sockets : Live(s) /\ who[s] = u /\ s \notin left => s \in Reached(u)
<1>1. u # NoUser
    BY UsersAssumption
<1> QED BY <1>1 DEF RoomsInv, RoomsHold, Reached, In

\* A message to the room of a user, with a push if its text can be made.
LEMMA SentReaches ==
  ASSUME RoomsInv, NEW u \in Users, NEW e \in {"bookingRequest", "bookingCancelled"},
         NEW described, NEW push, SendsOnly, Sending(e, u, described, Reached(u), push),
         e = "bookingRequest" /\ described => (push <=> HasToken(u))
  PROVE  MessageReaches'
<1>1. sent' = [event |-> e, user |-> u, described |-> described, sockets |-> Reached(u),
               push |-> push]
    BY DEF Sending
<1>2. UNCHANGED <<conn, who, registered, left>>
    BY DEF SendsOnly
<1>3. \A s \in Sockets :
        Live(s)' /\ who'[s] = sent'.user /\ s \notin left' => s \in sent'.sockets
    BY <1>1, <1>2, EveryoneIsReached DEF Live
<1>4. sent'.event = e /\ sent'.described = described /\ sent'.push = push /\ sent'.user = u
    BY <1>1
<1>5. \/ sent'.event = "bookingRequest" /\ sent'.described
      \/ sent'.event \in {"bookingAccepted", "bookingTimeout"}
      => (sent'.push <=> sent'.user \in registered')
    BY <1>2, <1>4 DEF HasToken
<1> QED BY <1>3, <1>5 DEF MessageReaches

\* A push to a customer.
LEMMA PushReaches ==
  ASSUME NEW c, NEW e \in {"bookingAccepted", "bookingTimeout"}, SendsOnly,
         Sending(e, c, FALSE, {}, HasToken(c))
  PROVE  MessageReaches'
<1>1. sent' = [event |-> e, user |-> c, described |-> FALSE, sockets |-> {},
               push |-> c \in registered]
    BY DEF Sending, HasToken
<1>2. UNCHANGED registered
    BY DEF SendsOnly
<1> QED BY <1>1, <1>2 DEF MessageReaches

LEMMA NextReaches == RoomsInv /\ MessageReaches /\ [Next]_presenceVars => MessageReaches'
<1> SUFFICES ASSUME RoomsInv, MessageReaches, [Next]_presenceVars PROVE MessageReaches'
    OBVIOUS
<1>1. CASE SendsNothing
    BY <1>1, NothingReaches
<1>2. ASSUME NEW s \in Sockets, Asks(s) PROVE SendsNothing
    BY <1>2 DEF Asks, GoOnline, GoOffline, JoinRoom, ChangesRooms
<1>3. ASSUME NEW s \in Sockets, NEW u \in Users,
             ConnectWithToken(s, u) \/ ConnectWithoutToken(s) \/ RefuseToken(s) \/ Disconnect(s)
      PROVE  SendsNothing
    BY <1>3 DEF ConnectWithToken, ConnectWithoutToken, RefuseToken, Disconnect, Enter
<1>4. ASSUME NEW s \in Sockets, ConnectWithoutToken(s) \/ RefuseToken(s) \/ Disconnect(s)
      PROVE  SendsNothing
    BY <1>4 DEF ConnectWithoutToken, RefuseToken, Disconnect, Enter
<1>5. ASSUME NEW b \in Bookings, RemoveBookingRoom(b) PROVE SendsNothing
    BY <1>5 DEF RemoveBookingRoom, ChangesRooms
<1>6. ASSUME NEW u \in Users, Registers(u) PROVE SendsNothing
    BY <1>6 DEF Registers
<1>7. CASE RunCommand \/ Die \/ Elsewhere
    BY <1>1, <1>7 DEF RunCommand, Die, Elsewhere
<1>8. CASE Notify
    <2>1. ASSUME NEW d \in Drivers, NEW b \in Bookings, NEW described \in BOOLEAN,
                 OfferBooking(d, b, described)
          PROVE  MessageReaches'
        <3>1. /\ SendsOnly /\ d \in Users
              /\ Sending("bookingRequest", d, described, Reached(d), HasToken(d) /\ described)
            BY <2>1 DEF OfferBooking, Users
        <3> QED BY <3>1, SentReaches
    <2>2. ASSUME NEW d \in Drivers, CancelRequest(d) PROVE MessageReaches'
        BY <2>2, SentReaches DEF CancelRequest, Users
    <2>3. ASSUME NEW c \in Customers, TellAccepted(c) PROVE MessageReaches'
        BY <2>3, PushReaches DEF TellAccepted
    <2>4. ASSUME NEW c \in Customers, TellTimeout(c) PROVE MessageReaches'
        BY <2>4, PushReaches DEF TellTimeout
    <2> QED BY <1>8, <2>1, <2>2, <2>3, <2>4 DEF Notify
<1>9. CASE UNCHANGED presenceVars
    BY <1>9 DEF presenceVars, MessageReaches, Live
<1> QED
    BY <1>1, <1>2, <1>3, <1>4, <1>5, <1>6, <1>7, <1>8, <1>9
    DEF Next, RegisterToken, RegisterFcmToken, ClearToken, Users

\* MessageReaches, for every message of every booking to every driver and customer.
THEOREM MessagesReach == Spec => []MessageReaches
<1>1. Init => MessageReaches
    BY DEF Init, Nothing, MessageReaches
<1> QED BY <1>1, InitRooms, NextRooms, NextReaches, PTL DEF Spec

----------------------------------------------------------------------------
\* The list of clients.

Sets(s) == <<"hset", s>>
Dels(s) == <<"hdel", s>>

\* A call that has not run is among q.
Queued(q, c) == \E i \in 1..Len(q) : q[i] = c

\* A deletion is among q with no entry after it.
EndsDeleted(q, s) ==
  \E i \in 1..Len(q) : q[i] = Dels(s) /\ \A j \in 1..Len(q) : j > i => q[j] # Sets(s)

\* Where a socket stands between its connection and the list, once q has run.
Settled(s, state, q, list, missed) ==
  /\ state = "new" => s \notin list /\ ~Queued(q, Sets(s)) /\ ~Queued(q, Dels(s))
  /\ state = "on" => ~Queued(q, Dels(s)) /\ (s \in list \/ Queued(q, Sets(s)))
  /\ state = "gone" /\ s \notin missed =>
       EndsDeleted(q, s) \/ (s \notin list /\ ~Queued(q, Sets(s)))

ListInv == \A s \in Sockets : Settled(s, conn[s], commands, listed, lost)

LEMMA TwoCommands ==
  ASSUME NEW s \in Sockets, NEW t \in Sockets
  PROVE  Sets(s) # Dels(t) /\ (Sets(s) = Sets(t) => s = t) /\ (Dels(s) = Dels(t) => s = t)
BY DEF Sets, Dels

\* A call that is issued comes after the others.
LEMMA QueueGrows ==
  ASSUME NEW q \in Seq(Commands), NEW c \in Commands
  PROVE  /\ q \o <<c>> \in Seq(Commands)
         /\ \A x : Queued(q \o <<c>>, x) <=> Queued(q, x) \/ x = c
         /\ \A s \in Sockets : c = Dels(s) => EndsDeleted(q \o <<c>>, s)
         /\ \A s \in Sockets : c # Sets(s) /\ EndsDeleted(q, s) => EndsDeleted(q \o <<c>>, s)
<1> DEFINE r == q \o <<c>>
<1>1. /\ r \in Seq(Commands)
      /\ Len(r) = Len(q) + 1 /\ Len(q) \in Nat
      /\ \A i \in 1..Len(q) : r[i] = q[i]
      /\ r[Len(q) + 1] = c
    OBVIOUS
<1> HIDE DEF r
<1>2. \A i \in 1..Len(r) : i \in 1..Len(q) \/ i = Len(q) + 1
    BY <1>1
<1>3. \A i \in 1..Len(q) : i \in 1..Len(r)
    BY <1>1
<1>4. Len(q) + 1 \in 1..Len(r)
    BY <1>1
<1>5. \A x : Queued(r, x) <=> Queued(q, x) \/ x = c
    BY <1>1, <1>2, <1>3, <1>4 DEF Queued
<1>6. ASSUME NEW s \in Sockets, c = Dels(s) PROVE EndsDeleted(r, s)
    BY <1>1, <1>4, <1>6 DEF EndsDeleted
<1>7. ASSUME NEW s \in Sockets, c # Sets(s), EndsDeleted(q, s) PROVE EndsDeleted(r, s)
    BY <1>1, <1>2, <1>3, <1>7 DEF EndsDeleted
<1> QED BY <1>1, <1>5, <1>6, <1>7 DEF r

\* The oldest call has run.
LEMMA QueueShrinks ==
  ASSUME NEW q \in Seq(Commands), q # <<>>
  PROVE  /\ Head(q) \in Commands /\ Queued(q, Head(q))
         /\ \A x : Queued(q, x) <=> Queued(Tail(q), x) \/ x = Head(q)
         /\ \A s \in Sockets : EndsDeleted(q, s) =>
              \/ EndsDeleted(Tail(q), s)
              \/ (Head(q) = Dels(s) /\ ~Queued(Tail(q), Sets(s)))
<1> DEFINE r == Tail(q)
<1>1. /\ Len(q) \in Nat /\ Len(q) > 0 /\ Len(r) = Len(q) - 1
      /\ \A i \in 1..Len(r) : r[i] = q[i + 1]
      /\ Head(q) = q[1] /\ Head(q) \in Commands
    BY HeadTailProperties
<1> HIDE DEF r
<1>2. \A i \in 1..Len(r) : i + 1 \in 1..Len(q)
    BY <1>1
<1>3. \A i \in 1..Len(q) : i = 1 \/ (i - 1 \in 1..Len(r) /\ r[i - 1] = q[i])
    BY <1>1
<1>4. 1 \in 1..Len(q)
    BY <1>1
<1>5. \A x : Queued(q, x) <=> Queued(r, x) \/ x = Head(q)
    BY <1>1, <1>2, <1>3, <1>4 DEF Queued
<1>6. ASSUME NEW s \in Sockets, EndsDeleted(q, s)
      PROVE  EndsDeleted(r, s) \/ (Head(q) = Dels(s) /\ ~Queued(r, Sets(s)))
    <2>1. PICK i \in 1..Len(q) : q[i] = Dels(s) /\ \A j \in 1..Len(q) : j > i => q[j] # Sets(s)
        BY <1>6 DEF EndsDeleted
    <2>2. CASE i = 1
        <3>1. \A j \in 1..Len(r) : r[j] # Sets(s)
            BY <1>1, <1>2, <2>1, <2>2
        <3> QED BY <1>1, <2>1, <2>2, <3>1 DEF Queued
    <2>3. CASE i # 1
        <3>1. i - 1 \in 1..Len(r) /\ r[i - 1] = Dels(s)
            BY <1>3, <2>1, <2>3
        <3>2. \A j \in 1..Len(r) : j > i - 1 => r[j] # Sets(s)
            BY <1>1, <1>2, <2>1
        <3> QED BY <3>1, <3>2 DEF EndsDeleted
    <2> QED BY <2>2, <2>3
<1> QED BY <1>1, <1>4, <1>5, <1>6 DEF r, Queued

LEMMA CommandTypes == \A s \in Sockets : Sets(s) \in Commands /\ Dels(s) \in Commands
BY DEF Sets, Dels, Commands

\* Other sockets than the one a call is about stay as they are.
LEMMA OthersSettled ==
  ASSUME NEW q \in Seq(Commands), NEW s \in Sockets, NEW t \in Sockets, s # t,
         NEW c \in {Sets(t), Dels(t)}, NEW state, NEW list, NEW missed,
         Settled(s, state, q, list, missed)
  PROVE  Settled(s, state, q \o <<c>>, list, missed)
<1>1. c \in Commands /\ c # Sets(s) /\ c # Dels(s)
    BY CommandTypes, TwoCommands
<1> QED BY <1>1, QueueGrows DEF Settled

LEMMA AppendTwo ==
  ASSUME NEW q \in Seq(Commands), NEW c \in Commands, NEW d \in Commands
  PROVE  q \o <<c, d>> = (q \o <<c>>) \o <<d>>
<1>1. <<c>> \in Seq(Commands) /\ <<d>> \in Seq(Commands)
    OBVIOUS
<1>2. <<c, d>> = <<c>> \o <<d>>
    <2>1. /\ <<c, d>> \in Seq(Commands) /\ Len(<<c, d>>) = 2
          /\ <<c, d>>[1] = c /\ <<c, d>>[2] = d
        OBVIOUS
    <2>2. /\ <<c>> \o <<d>> \in Seq(Commands) /\ Len(<<c>> \o <<d>>) = 2
          /\ (<<c>> \o <<d>>)[1] = c /\ (<<c>> \o <<d>>)[2] = d
        BY <1>1, ConcatProperties
    <2>3. \A i \in 1..2 : i = 1 \/ i = 2
        OBVIOUS
    <2>4. \A i \in 1..2 : <<c, d>>[i] = (<<c>> \o <<d>>)[i]
        BY <2>1, <2>2, <2>3
    <2> QED BY <2>1, <2>2, <2>4, SeqEqual
<1>3. (q \o <<c>>) \o <<d>> = q \o (<<c>> \o <<d>>)
    BY <1>1, ConcatAssociative
<1> QED BY <1>2, <1>3

LEMMA NextListed == TypeOK /\ ListInv /\ [Next]_presenceVars => ListInv'
<1> SUFFICES ASSUME TypeOK, ListInv, [Next]_presenceVars PROVE ListInv'
    OBVIOUS
<1>0. commands \in Seq(Commands) /\ \A s \in Sockets : conn[s] \in {"new", "on", "gone"}
    BY DEF TypeOK
<1>1. CASE UNCHANGED <<conn, commands, listed, lost>>
    BY <1>1 DEF ListInv
<1>2. ASSUME NEW s \in Sockets, Enter(s) PROVE ListInv'
    <2>1. /\ conn[s] = "new"
          /\ \A t \in Sockets : conn'[t] = IF t = s THEN "on" ELSE conn[t]
          /\ commands' = commands \o <<Sets(s)>>
          /\ UNCHANGED <<listed, lost>>
        BY <1>2 DEF Enter, Issue, Sets, TypeOK
    <2>2. Settled(s, "on", commands', listed, lost)
        <3>1. Settled(s, "new", commands, listed, lost)
            BY <2>1 DEF ListInv
        <3>2. ~Queued(commands', Dels(s)) /\ Queued(commands', Sets(s))
            BY <1>0, <2>1, <3>1, QueueGrows, CommandTypes, TwoCommands DEF Settled
        <3> QED BY <3>2 DEF Settled
    <2>3. \A t \in Sockets : t # s => Settled(t, conn[t], commands', listed, lost)
        BY <1>0, <2>1, OthersSettled DEF ListInv
    <2> QED BY <2>1, <2>2, <2>3 DEF ListInv
<1>3. ASSUME NEW s \in Sockets, RefuseToken(s) PROVE ListInv'
    <2>1. /\ conn[s] = "new"
          /\ \A t \in Sockets : conn'[t] = IF t = s THEN "gone" ELSE conn[t]
          /\ UNCHANGED listed
        BY <1>3 DEF RefuseToken, TypeOK
    <2> DEFINE q == commands \o <<Sets(s)>>
    <2>2. q \in Seq(Commands) /\ \A t \in Sockets : t # s => Settled(t, conn[t], q, listed, lost)
        BY <1>0, OthersSettled, QueueGrows, CommandTypes DEF ListInv
    <2> HIDE DEF q
    <2>3. CASE commands' = q /\ lost' = lost \cup {s}
        BY <2>1, <2>2, <2>3 DEF ListInv, Settled
    <2>4. CASE commands' = q \o <<Dels(s)>> /\ lost' = lost
        <3>1. EndsDeleted(commands', s)
            BY <2>2, <2>4, QueueGrows, CommandTypes
        <3>2. \A t \in Sockets : t # s => Settled(t, conn[t], commands', listed, lost)
            BY <2>2, <2>4, OthersSettled
        <3> QED BY <2>1, <2>4, <3>1, <3>2 DEF ListInv, Settled
    <2>5. \/ commands' = q /\ lost' = lost \cup {s}
          \/ commands' = q \o <<Dels(s)>> /\ lost' = lost
        <3>1. commands \o <<Sets(s), Dels(s)>> = q \o <<Dels(s)>>
            BY <1>0, CommandTypes, AppendTwo DEF q
        <3> QED BY <1>3, <3>1 DEF RefuseToken, Issue, Sets, Dels, q
    <2> QED BY <2>3, <2>4, <2>5
<1>4. ASSUME NEW s \in Sockets, Disconnect(s) PROVE ListInv'
    <2>1. /\ \A t \in Sockets : conn'[t] = IF t = s THEN "gone" ELSE conn[t]
          /\ commands' = commands \o <<Dels(s)>>
          /\ UNCHANGED <<listed, lost>>
        BY <1>4 DEF Disconnect, Issue, Dels, TypeOK
    <2>2. EndsDeleted(commands', s)
        BY <1>0, <2>1, QueueGrows, CommandTypes
    <2>3. \A t \in Sockets : t # s => Settled(t, conn[t], commands', listed, lost)
        BY <1>0, <2>1, OthersSettled DEF ListInv
    <2> QED BY <2>1, <2>2, <2>3 DEF ListInv, Settled
<1>5. CASE RunCommand
    <2> DEFINE t == Head(commands)[2]
    <2>1. /\ commands # <<>> /\ commands' = Tail(commands)
          /\ UNCHANGED <<conn, lost>>
          /\ listed' = IF Head(commands)[1] = "hset" THEN listed \cup {t} ELSE listed \ {t}
        BY <1>5 DEF RunCommand
    <2>2. Head(commands) \in Commands
        BY <1>0, <2>1, QueueShrinks
    <2>3. t \in Sockets /\ (Head(commands) = Sets(t) \/ Head(commands) = Dels(t))
        BY <2>2 DEF Commands, Sets, Dels
    <2>4. ASSUME NEW s \in Sockets PROVE Settled(s, conn[s], commands', listed', lost)
        <3>1. Settled(s, conn[s], commands, listed, lost)
            BY DEF ListInv
        <3>2. /\ \A x : Queued(commands, x) <=> Queued(commands', x) \/ x = Head(commands)
              /\ EndsDeleted(commands, s) =>
                   EndsDeleted(commands', s) \/ (Head(commands) = Dels(s) /\ ~Queued(commands', Sets(s)))
            BY <1>0, <2>1, QueueShrinks
        <3>3. CASE s # t
            <4>1. (s \in listed' <=> s \in listed) /\ Head(commands) # Sets(s) /\ Head(commands) # Dels(s)
                BY <2>1, <2>3, <3>3, TwoCommands
            <4> QED BY <3>1, <3>2, <4>1 DEF Settled
        <3>4. CASE s = t /\ Head(commands) = Sets(s)
            <4>1. s \in listed'
                BY <2>1, <3>4 DEF Sets
            <4>2. Head(commands) # Dels(s)
                BY <3>4, TwoCommands
            <4> QED BY <3>1, <3>2, <3>4, <4>1, <4>2 DEF Settled
        <3>5. CASE s = t /\ Head(commands) = Dels(s)
            <4>1. s \notin listed'
                BY <2>1, <3>5 DEF Dels
            <4>2. Head(commands) # Sets(s)
                BY <3>5, TwoCommands
            <4> QED BY <3>1, <3>2, <3>5, <4>1, <4>2 DEF Settled
        <3> QED BY <2>3, <3>3, <3>4, <3>5
    <2> QED BY <2>1, <2>4 DEF ListInv
<1>6. CASE Die
    <2>1. /\ commands' = <<>> /\ UNCHANGED listed
          /\ \A s \in Sockets : conn'[s] = IF conn[s] = "on" THEN "gone" ELSE conn[s]
          /\ lost' = lost \cup {s \in Sockets :
                 conn[s] = "on" \/ \E i \in 1..Len(commands) : commands[i][2] = s}
        BY <1>6 DEF Die, Live
    <2>2. \A x : ~Queued(commands', x)
        BY <2>1 DEF Queued
    <2>3. ASSUME NEW s \in Sockets PROVE Settled(s, conn'[s], commands', listed, lost')
        <3>1. Settled(s, conn[s], commands, listed, lost)
            BY DEF ListInv
        <3>2. CASE conn[s] = "new"
            BY <2>1, <2>2, <3>1, <3>2 DEF Settled
        <3>3. CASE conn[s] = "on"
            BY <2>1, <3>3 DEF Settled
        <3>4. CASE conn[s] = "gone" /\ s \notin lost'
            <4>1. \A i \in 1..Len(commands) : commands[i] # Dels(s)
                BY <2>1, <3>4 DEF Dels
            <4>2. ~EndsDeleted(commands, s) /\ s \notin lost
                BY <2>1, <3>4, <4>1 DEF EndsDeleted
            <4> QED BY <2>1, <2>2, <3>1, <3>4, <4>2 DEF Settled
        <3>5. CASE conn[s] = "gone" /\ s \in lost'
            BY <2>1, <3>5 DEF Settled
        <3> QED BY <1>0, <3>2, <3>3, <3>4, <3>5
    <2> QED BY <2>1, <2>3 DEF ListInv
<1>7. ASSUME NEW s \in Sockets, Asks(s) PROVE ListInv'
    BY <1>1, <1>7 DEF Asks, GoOnline, GoOffline, JoinRoom, ChangesRooms
<1>8. CASE Notify
    BY <1>1, <1>8 DEF Notify, OfferBooking, CancelRequest, TellAccepted, TellTimeout, SendsOnly
<1>9. ASSUME NEW b \in Bookings, RemoveBookingRoom(b) PROVE ListInv'
    BY <1>1, <1>9 DEF RemoveBookingRoom, ChangesRooms
<1>10. ASSUME NEW u \in Users, Registers(u) PROVE ListInv'
    BY <1>1, <1>10 DEF Registers
<1>11. CASE Elsewhere \/ UNCHANGED presenceVars
    BY <1>1, <1>11 DEF Elsewhere, presenceVars
<1> QED
    BY <1>2, <1>3, <1>4, <1>5, <1>6, <1>7, <1>8, <1>9, <1>10, <1>11
    DEF Next, ConnectWithToken, ConnectWithoutToken, RegisterToken, RegisterFcmToken,
        ClearToken, Users

\* ListedAtRest, however many calls of Redis are outstanding and whenever the process
\* dies: it rests on where each socket stands between its connection and the list.
THEOREM ListCatchesUp == Spec => []ListedAtRest
<1>1. Init => ListInv
    <2> SUFFICES ASSUME Init, NEW s \in Sockets PROVE Settled(s, conn[s], commands, listed, lost)
        BY DEF ListInv
    <2>1. conn[s] = "new" /\ listed = {} /\ commands = <<>>
        BY DEF Init
    <2>2. \A x : ~Queued(commands, x)
        BY <2>1 DEF Queued
    <2> QED BY <2>1, <2>2 DEF Settled
<1>2. TypeOK /\ ListInv => ListedAtRest
    <2> SUFFICES ASSUME TypeOK, ListInv, commands = <<>>, NEW s \in Sockets
                 PROVE  (Live(s) => s \in listed) /\ (s \in listed => Live(s) \/ s \in lost)
        BY DEF ListedAtRest, TypeOK
    <2>1. ~Queued(commands, Sets(s)) /\ ~EndsDeleted(commands, s)
        BY DEF Queued, EndsDeleted
    <2>2. conn[s] \in {"new", "on", "gone"}
        BY DEF TypeOK
    <2> QED BY <2>1, <2>2 DEF ListInv, Settled, Live
<1> QED BY <1>1, <1>2, InitTypes, NextTypes, NextListed, PTL DEF Spec

=============================================================================
