------------------------------- MODULE Realtime -------------------------------
(***************************************************************************)
(* The sockets of one process: every connection and every end of one goes    *)
(* through the handlers of Presence and of AudioCalls, in one turn of the     *)
(* event loop; every other handler belongs to one of them.                   *)
(***************************************************************************)
EXTENDS Presence

CONSTANTS Candidates, Contacts  \* of AudioCalls

VARIABLES activeCalls, events   \* of AudioCalls, which shares conn

Calls == INSTANCE AudioCalls

vars == <<presenceVars, activeCalls, events>>

ProcessInit == Init /\ Calls!Init

----------------------------------------------------------------------------
\* A bug this code could have had: it stands in for the definition of the same
\* parameters in a mutation of a run, and is used nowhere else.

\* The calls are not told of the end of a socket.
SocketEnds_KeepsCalls(s) == Disconnect(s) /\ UNCHANGED <<activeCalls, events>>

----------------------------------------------------------------------------
SocketOpens(s) ==
  \/ \E u \in Users : ConnectWithToken(s, u) /\ Calls!Connect(s)
  \/ ConnectWithoutToken(s) /\ Calls!Connect(s)
  \/ RefuseToken(s) /\ Calls!Refuse(s)

\* handleDisconnect of the three gateways.
SocketEnds(s) == Disconnect(s) /\ Calls!HandleDisconnect(s)

ProcessDies == Die /\ Calls!Die

\* A handler of BookingGateway or LocationGateway, a message of the allocation, the
\* registration of a token, or, in no handler's turn, a call that Redis runs.
PresenceActs ==
  /\ \/ RunCommand \/ Notify
     \/ \E s \in Sockets : Asks(s)
     \/ \E b \in Bookings : RemoveBookingRoom(b)
     \/ \E d \in Drivers : RegisterFcmToken(d)
     \/ \E c \in Customers : RegisterToken(c) \/ ClearToken(c)
  /\ Calls!Elsewhere

\* A handler of AudioCallGateway.
CallsAct == \E s, t \in Sockets : Calls!Signal(s, t) /\ Elsewhere

ProcessNext ==
  \/ \E s \in Sockets : SocketOpens(s) \/ SocketEnds(s)
  \/ ProcessDies \/ PresenceActs \/ CallsAct

ProcessSpec == ProcessInit /\ [][ProcessNext]_vars

----------------------------------------------------------------------------
\* Properties, with those of Presence.

\* Every variable has its type.
ProcessTypeOK == TypeOK /\ Calls!TypeOK

\* Those of AudioCalls, of the process as a whole.
CandidatesMatch == Calls!CandidatesMatch
ChangeIsTold == Calls!ChangeIsTold

\* What the gateways do together is, seen from each, a behaviour of its own
\* specification, though the framework runs the handlers of all of them for one
\* end of a socket.
GatewaysAgree == Spec /\ Calls!Spec
=============================================================================
