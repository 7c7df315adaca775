------------------------------ MODULE AudioCalls ------------------------------
(***************************************************************************)
(* Signalling of audio calls: AudioCallGateway and its table activeCalls,   *)
(* kept in the memory of the process and keyed by the sorted pair of the    *)
(* two socket ids.  The gateway's handlers never await, so each is a step.  *)
(*                                                                         *)
(* A description (offer, answer) is not told apart from another; an ICE      *)
(* candidate is, by who gathered it.  What a step emits is kept until the   *)
(* next one, in `events`: server.to(id) reaches the socket of that id if it *)
(* is connected, and nobody otherwise.                                      *)
(***************************************************************************)
CONSTANTS
  Sockets,     \* socket ids; every connection gets a new one
  Candidates,  \* the ICE candidates a client gathers
  Contacts     \* who may ask for a call with whom: pairs <<from, to>>

Ice == Sockets \X Candidates
Sessions ==
  [caller : Sockets, callee : Sockets, status : {"pending", "accepted"},
   callerIce : SUBSET Ice, calleeIce : SUBSET Ice]

\* No session under a key.
NoCall == [status |-> "none"]

VARIABLES
  conn,         \* per socket: "new" (not yet used), "on" or "gone"
  activeCalls,  \* the session of each pair
  events        \* what the last step emitted

callVars == <<conn, activeCalls, events>>

\* getCallId: the two ids sorted and joined, so the order does not matter.
CallId(s, t) == {s, t}
CallIds == {CallId(s, t) : s \in Sockets, t \in Sockets}

EventNames ==
  {"incomingCall", "callAnswered", "callRejected", "callEnded",
   "newIceCandidate", "existingIceCandidates"}
Events == [to : Sockets, event : EventNames, from : Sockets, ice : SUBSET Ice]

TypeOK ==
  /\ conn \in [Sockets -> {"new", "on", "gone"}]
  /\ activeCalls \in [CallIds -> Sessions \cup {NoCall}]
  /\ events \in SUBSET Events

Init ==
  /\ conn = [s \in Sockets |-> "new"]
  /\ activeCalls = [k \in CallIds |-> NoCall]
  /\ events = {}

----------------------------------------------------------------------------
Emit(to, event, from) == {[to |-> to, event |-> event, from |-> from, ice |-> {}]}

\* The stored candidates, sent at once; nothing is sent when there are none.
Replay(to, from, ice) ==
  {e \in {[to |-> to, event |-> "existingIceCandidates", from |-> from, ice |-> ice]} :
     ice # {}}

Remove(k) == activeCalls' = [activeCalls EXCEPT ![k] = NoCall]

\* The calls a socket takes part in.
CallsOf(s) == {k \in CallIds : s \in k /\ activeCalls[k] # NoCall}

\* A client that is connected asks something about its call with another, whose id
\* it knows from the list of clients: it may have gone in the meantime.
Asks(s, t) == <<s, t>> \in Contacts /\ conn[s] = "on" /\ conn[t] # "new"

NewSession(s, t) ==
  [caller |-> s, callee |-> t, status |-> "pending", callerIce |-> {}, calleeIce |-> {}]

----------------------------------------------------------------------------
\* Bugs this code could have had: each stands in for the definition of the
\* same parameters in a mutation of a run, and is used nowhere else.

\* A session that exists is reused for the new call.
CallUser_ReusesSession(s, t) ==
  /\ Asks(s, t)
  /\ activeCalls' = [activeCalls EXCEPT ![CallId(s, t)] =
       IF @ = NoCall THEN NewSession(s, t)
       ELSE [@ EXCEPT !.caller = s, !.callee = t, !.status = "pending"]]
  /\ events' = Emit(t, "incomingCall", s)
  /\ UNCHANGED conn

\* A disconnect tells the callee, whoever has gone.
HandleDisconnect_TellsCallee(s) ==
  /\ conn[s] = "on"
  /\ conn' = [conn EXCEPT ![s] = "gone"]
  /\ \/ CallsOf(s) = {} /\ events' = {} /\ UNCHANGED activeCalls
     \/ \E k \in CallsOf(s) :
          Remove(k) /\ events' = Emit(activeCalls[k].callee, "callEnded", s)

----------------------------------------------------------------------------
\* The handlers.

Connect(s) ==
  /\ conn[s] = "new"
  /\ conn' = [conn EXCEPT ![s] = "on"]
  /\ events' = {}
  /\ UNCHANGED activeCalls

\* The token of a connection is refused while it is being handled, before it can ask
\* anything.
Refuse(s) ==
  /\ conn[s] = "new"
  /\ conn' = [conn EXCEPT ![s] = "gone"]
  /\ events' = {}
  /\ UNCHANGED activeCalls

\* callUser: whatever session the pair had is replaced, candidates and all; the
\* callee is not looked for.
CallUser(s, t) ==
  /\ Asks(s, t)
  /\ activeCalls' = [activeCalls EXCEPT ![CallId(s, t)] = NewSession(s, t)]
  /\ events' = Emit(t, "incomingCall", s)
  /\ UNCHANGED conn

\* answerCall: any party may answer; without a session the client gets an error.
AnswerCall(s, t) ==
  /\ Asks(s, t)
  /\ LET call == activeCalls[CallId(s, t)]
     IN \/ call = NoCall /\ events' = {} /\ UNCHANGED activeCalls
        \/ /\ call # NoCall
           /\ activeCalls' = [activeCalls EXCEPT ![CallId(s, t)].status = "accepted"]
           /\ events' = Replay(s, t, call.callerIce) \cup Emit(t, "callAnswered", s)
                          \cup Replay(t, s, call.calleeIce)
  /\ UNCHANGED conn

RejectCall(s, t) ==
  /\ Asks(s, t)
  /\ Remove(CallId(s, t))
  /\ events' = Emit(t, "callRejected", s)
  /\ UNCHANGED conn

EndCall(s, t) ==
  /\ Asks(s, t)
  /\ Remove(CallId(s, t))
  /\ events' = Emit(t, "callEnded", s)
  /\ UNCHANGED conn

\* iceCandidate: stored if there is a session, forwarded in any case.
IceCandidate(s, t, c) ==
  /\ Asks(s, t)
  /\ LET call == activeCalls[CallId(s, t)]
     IN \/ call = NoCall /\ UNCHANGED activeCalls
        \/ /\ call # NoCall /\ s = call.caller
           /\ activeCalls' = [activeCalls EXCEPT ![CallId(s, t)].callerIce = @ \cup {<<s, c>>}]
        \/ /\ call # NoCall /\ s # call.caller
           /\ activeCalls' = [activeCalls EXCEPT ![CallId(s, t)].calleeIce = @ \cup {<<s, c>>}]
  /\ events' = Emit(t, "newIceCandidate", s)
  /\ UNCHANGED conn

Peer(call, s) == IF call.caller = s THEN call.callee ELSE call.caller

\* findCallBySocketId returns the first call of the socket in the table, and only
\* that one is ended.  The order of the table is not kept: it may be any.
HandleDisconnect(s) ==
  /\ conn[s] = "on"
  /\ conn' = [conn EXCEPT ![s] = "gone"]
  /\ \/ CallsOf(s) = {} /\ events' = {} /\ UNCHANGED activeCalls
     \/ \E k \in CallsOf(s) :
          Remove(k) /\ events' = Emit(Peer(activeCalls[k], s), "callEnded", s)

\* The process dies: its connections break and the table is lost.
Die ==
  /\ conn' = [s \in Sockets |-> IF conn[s] = "on" THEN "gone" ELSE conn[s]]
  /\ activeCalls' = [k \in CallIds |-> NoCall]
  /\ events' = {}

\* Nothing here changes: a handler of another gateway runs.
Elsewhere == events' = {} /\ UNCHANGED <<conn, activeCalls>>

Signal(s, t) ==
  \/ CallUser(s, t) \/ AnswerCall(s, t) \/ RejectCall(s, t) \/ EndCall(s, t)
  \/ \E c \in Candidates : IceCandidate(s, t, c)

Next ==
  \/ \E s \in Sockets : Connect(s) \/ Refuse(s) \/ HandleDisconnect(s)
  \/ \E s, t \in Sockets : Signal(s, t)
  \/ Die \/ Elsewhere

Spec == Init /\ [][Next]_callVars

----------------------------------------------------------------------------
\* Properties.

\* The candidates kept for the caller are the caller's and those kept for the
\* callee the callee's, also when the two have called each other at once and one
\* session replaced the other: what is replayed to a party that answers is never
\* a candidate of an earlier call with the roles exchanged.
CandidatesMatch ==
  \A k \in CallIds : activeCalls[k] # NoCall =>
    LET call == activeCalls[k] IN
      /\ k = CallId(call.caller, call.callee)
      /\ \A i \in call.callerIce : i[1] = call.caller
      /\ \A i \in call.calleeIce : i[1] = call.callee

\* What the two parties of a call need to agree on.
View(k) ==
  IF activeCalls[k] = NoCall THEN <<>> ELSE <<activeCalls[k].caller, activeCalls[k].status>>

Told(q, by) == \E e \in events : e.to = q /\ e.from = by

Leaves(s) == conn[s] = "on" /\ conn'[s] = "gone"

\* Nobody is left in a call that the other has changed: whenever a call begins,
\* is answered, changes hands or ends, by a request or by a disconnect, the step
\* that does it sends an event from the party that caused it, which is the one
\* that goes if one goes, to the other if he is still there.
ChangeIsTold ==
  [][\A k \in CallIds : View(k)' # View(k) =>
       \E by \in k :
         /\ (\E s \in k : Leaves(s)) => Leaves(by)
         /\ \A q \in k \ {by} : conn'[q] = "on" => Told(q, by)']_callVars

\* "Handle client disconnect - clean up any active calls"
\* (audio-call.gateway.ts:213): no call of a socket outlives it.
DisconnectClearsCalls ==
  [][\A s \in Sockets : conn[s] = "on" /\ conn'[s] = "gone" => CallsOf(s)' = {}]_callVars

=============================================================================
