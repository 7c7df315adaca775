---------------------------- MODULE Realtime_proofs ----------------------------
(***************************************************************************)
(* Proofs about Realtime: the process implements the specification of each   *)
(* of its gateways, and so has their properties.                             *)
(***************************************************************************)
EXTENDS Realtime, Presence_proofs

\* The theorems of AudioCalls, for the connections of Presence.
CallsProved == INSTANCE AudioCalls_proofs

----------------------------------------------------------------------------
LEMMA PresenceImplemented == ProcessInit /\ [][ProcessNext]_vars => Spec
<1>1. ProcessInit => Init
    BY DEF ProcessInit
<1>2. [ProcessNext]_vars => [Next]_presenceVars
    <2> SUFFICES ASSUME ProcessNext PROVE Next
        BY DEF vars
    <2>1. ASSUME NEW s \in Sockets, SocketOpens(s) \/ SocketEnds(s) PROVE Next
        BY <2>1 DEF SocketOpens, SocketEnds, Next
    <2>2. CASE ProcessDies
        BY <2>2 DEF ProcessDies, Next
    <2>3. CASE PresenceActs
        BY <2>3 DEF PresenceActs, Next
    <2>4. CASE CallsAct
        BY <2>4 DEF CallsAct, Next
    <2> QED BY <2>1, <2>2, <2>3, <2>4 DEF ProcessNext
<1> QED BY <1>1, <1>2, PTL DEF Spec

LEMMA CallsImplemented == ProcessInit /\ [][ProcessNext]_vars => Calls!Spec
<1>1. ProcessInit => Calls!Init
    BY DEF ProcessInit
<1>2. [ProcessNext]_vars => [Calls!Next]_(Calls!callVars)
    <2>1. UNCHANGED vars => UNCHANGED Calls!callVars
        BY DEF vars, presenceVars, Calls!callVars
    <2> SUFFICES ASSUME ProcessNext PROVE Calls!Next
        BY <2>1
    <2>2. ASSUME NEW s \in Sockets, SocketOpens(s) \/ SocketEnds(s) PROVE Calls!Next
        BY <2>2 DEF SocketOpens, SocketEnds, Calls!Next
    <2>3. CASE ProcessDies
        BY <2>3 DEF ProcessDies, Calls!Next
    <2>4. CASE PresenceActs
        BY <2>4 DEF PresenceActs, Calls!Next
    <2>5. CASE CallsAct
        BY <2>5 DEF CallsAct, Calls!Next
    <2> QED BY <2>2, <2>3, <2>4, <2>5 DEF ProcessNext
<1> QED BY <1>1, <1>2, PTL DEF Calls!Spec

\* GatewaysAgree: one process that runs every gateway's handler at each connection
\* and at each end of one implements the specification of each gateway.
THEOREM ProcessImplementsGateways == ProcessSpec => GatewaysAgree
BY PresenceImplemented, CallsImplemented DEF ProcessSpec, GatewaysAgree

\* The two instances of AudioCalls are the same.
LEMMA CallsAreCalls == Calls!Spec => CallsProved!Spec
<1>1. Calls!Init => CallsProved!Init
    BY DEF Calls!Init, Calls!CallIds, Calls!CallId, Calls!NoCall,
        CallsProved!Init, CallsProved!CallIds, CallsProved!CallId, CallsProved!NoCall
<1>2. [Calls!Next]_(Calls!callVars) => [CallsProved!Next]_(CallsProved!callVars)
    <2>1. ASSUME NEW s \in Sockets,
                 Calls!Connect(s) \/ Calls!Refuse(s) \/ Calls!HandleDisconnect(s)
          PROVE  CallsProved!Connect(s) \/ CallsProved!Refuse(s) \/ CallsProved!HandleDisconnect(s)
        BY <2>1 DEF
            Calls!Connect, Calls!Refuse, Calls!HandleDisconnect, Calls!CallsOf,
            Calls!Peer, Calls!Remove, Calls!Emit, Calls!CallIds, Calls!CallId,
            Calls!NoCall, CallsProved!Connect, CallsProved!Refuse,
            CallsProved!HandleDisconnect, CallsProved!CallsOf, CallsProved!Peer,
            CallsProved!Remove, CallsProved!Emit, CallsProved!CallIds,
            CallsProved!CallId, CallsProved!NoCall
    <2>2. ASSUME NEW s \in Sockets, NEW t \in Sockets, Calls!CallUser(s, t)
          PROVE  CallsProved!CallUser(s, t)
        BY <2>2 DEF
            Calls!CallUser, Calls!NewSession, Calls!Emit, Calls!CallId, Calls!Asks,
            CallsProved!CallUser, CallsProved!NewSession, CallsProved!Emit,
            CallsProved!CallId, CallsProved!Asks
    <2>3. ASSUME NEW s \in Sockets, NEW t \in Sockets, Calls!AnswerCall(s, t)
          PROVE  CallsProved!AnswerCall(s, t)
        BY <2>3 DEF
            Calls!AnswerCall, Calls!Replay, Calls!Emit, Calls!CallId, Calls!Asks,
            Calls!NoCall, CallsProved!AnswerCall, CallsProved!Replay, CallsProved!Emit,
            CallsProved!CallId, CallsProved!Asks, CallsProved!NoCall
    <2>4. ASSUME NEW s \in Sockets, NEW t \in Sockets, Calls!RejectCall(s, t)
          PROVE  CallsProved!RejectCall(s, t)
        BY <2>4 DEF
            Calls!RejectCall, Calls!Remove, Calls!Emit, Calls!CallId, Calls!Asks,
            Calls!NoCall, CallsProved!RejectCall, CallsProved!Remove, CallsProved!Emit,
            CallsProved!CallId, CallsProved!Asks, CallsProved!NoCall
    <2>5. ASSUME NEW s \in Sockets, NEW t \in Sockets, Calls!EndCall(s, t)
          PROVE  CallsProved!EndCall(s, t)
        BY <2>5 DEF
            Calls!EndCall, Calls!Remove, Calls!Emit, Calls!CallId, Calls!Asks,
            Calls!NoCall, CallsProved!EndCall, CallsProved!Remove, CallsProved!Emit,
            CallsProved!CallId, CallsProved!Asks, CallsProved!NoCall
    <2>6. ASSUME NEW s \in Sockets, NEW t \in Sockets, NEW c \in Candidates,
                 Calls!IceCandidate(s, t, c)
          PROVE  CallsProved!IceCandidate(s, t, c)
        BY <2>6 DEF
            Calls!IceCandidate, Calls!Emit, Calls!CallId, Calls!Asks, Calls!NoCall,
            CallsProved!IceCandidate, CallsProved!Emit, CallsProved!CallId,
            CallsProved!Asks, CallsProved!NoCall
    <2>7. ASSUME NEW s \in Sockets, NEW t \in Sockets, Calls!Signal(s, t)
          PROVE  CallsProved!Signal(s, t)
        BY <2>2, <2>3, <2>4, <2>5, <2>6, <2>7 DEF Calls!Signal, CallsProved!Signal
    <2>8. Calls!Die \/ Calls!Elsewhere => CallsProved!Die \/ CallsProved!Elsewhere
        BY DEF
            Calls!Die, Calls!Elsewhere, Calls!CallIds, Calls!CallId, Calls!NoCall,
            CallsProved!Die, CallsProved!Elsewhere, CallsProved!CallIds,
            CallsProved!CallId, CallsProved!NoCall
    <2>9. UNCHANGED Calls!callVars => UNCHANGED CallsProved!callVars
        BY DEF Calls!callVars, CallsProved!callVars
    <2> QED BY <2>1, <2>7, <2>8, <2>9 DEF Calls!Next, CallsProved!Next
<1> QED BY <1>1, <1>2, PTL DEF Calls!Spec, CallsProved!Spec

\* CandidatesMatch of the process as a whole: no gateway's handler mixes up the
\* candidates of the parties of a call.
THEOREM CandidatesOfTheProcess == ProcessSpec => []CandidatesMatch
<1>1. CallsProved!CandidatesMatch => CandidatesMatch
    BY DEF CandidatesMatch,
        Calls!CandidatesMatch, Calls!CallIds, Calls!CallId, Calls!NoCall,
        CallsProved!CandidatesMatch, CallsProved!CallIds, CallsProved!CallId,
        CallsProved!NoCall
<1> QED
    BY <1>1, CallsAreCalls, ProcessImplementsGateways,
       CallsProved!CandidatesAreOfTheirParty, PTL DEF GatewaysAgree

\* ChangeIsTold of the process as a whole: however a call changes, the other party
\* is told in that step.
THEOREM ChangesOfTheProcess == ProcessSpec => ChangeIsTold
<1>1. CallsProved!ChangeIsTold => ChangeIsTold
    BY DEF ChangeIsTold,
        Calls!ChangeIsTold, Calls!View, Calls!Told, Calls!Leaves, Calls!CallIds,
        Calls!CallId, Calls!NoCall, Calls!callVars, CallsProved!ChangeIsTold,
        CallsProved!View, CallsProved!Told, CallsProved!Leaves, CallsProved!CallIds,
        CallsProved!CallId, CallsProved!NoCall, CallsProved!callVars
<1> QED
    BY <1>1, CallsAreCalls, ProcessImplementsGateways, CallsProved!NobodyLeftInCall, PTL
    DEF GatewaysAgree

\* ProcessTypeOK: every variable of the process has its type.
THEOREM ProcessTyped == ProcessSpec => []ProcessTypeOK
<1>1. CallsProved!TypeOK => Calls!TypeOK
    BY DEF
        Calls!TypeOK, Calls!CallIds, Calls!CallId, Calls!NoCall, Calls!Sessions,
        Calls!Ice, Calls!Events, Calls!EventNames, CallsProved!TypeOK,
        CallsProved!CallIds, CallsProved!CallId, CallsProved!NoCall,
        CallsProved!Sessions, CallsProved!Ice, CallsProved!Events,
        CallsProved!EventNames
<1>2. TypeOK /\ CallsProved!TypeOK => ProcessTypeOK
    BY <1>1 DEF ProcessTypeOK
<1> QED
    BY <1>2, CallsAreCalls, ProcessImplementsGateways, PresenceTyped,
       CallsProved!CallsTyped, PTL DEF GatewaysAgree

\* What Presence promises of connections, rooms, the list and messages holds of the
\* process that also signals calls.
THEOREM PresenceOfTheProcess ==
  ProcessSpec => [](TrackedIsLive /\ RoomsHold /\ ListedAtRest /\ MessageReaches)
BY ProcessImplementsGateways, DriversAreTrackedLive, PersonalRoomsHold, ListCatchesUp,
   MessagesReach, PTL DEF GatewaysAgree

=============================================================================
