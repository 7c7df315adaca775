--------------------------- MODULE AudioCalls_proofs ---------------------------
(***************************************************************************)
(* Proofs about AudioCalls, for any number of sockets and candidates.        *)
(***************************************************************************)
EXTENDS AudioCalls, TLAPS

\* A session is never taken for the absence of one.
LEMMA NoCallIsNone == NoCall \notin Sessions
BY DEF NoCall, Sessions

\* What is needed of a type, here and there: a session of the table.
LEMMA SessionInTable ==
  ASSUME TypeOK, NEW k \in CallIds, activeCalls[k] # NoCall
  PROVE  activeCalls[k] \in Sessions
BY DEF TypeOK

\* A pair of sockets has a key.
LEMMA CallIdTypes ==
  ASSUME NEW s \in Sockets, NEW t \in Sockets
  PROVE  CallId(s, t) \in CallIds
BY DEF CallIds

\* An event of its type.
LEMMA EmitTypes ==
  ASSUME NEW s \in Sockets, NEW t \in Sockets, NEW e \in EventNames
  PROVE  Emit(s, e, t) \subseteq Events
BY DEF Emit, Events

LEMMA ReplayTypes ==
  ASSUME NEW s \in Sockets, NEW t \in Sockets, NEW ice \in SUBSET Ice
  PROVE  Replay(s, t, ice) \subseteq Events
BY DEF Replay, Events, EventNames

----------------------------------------------------------------------------
LEMMA InitTypes == Init => TypeOK
BY DEF Init, TypeOK

LEMMA NextTypes == TypeOK /\ [Next]_callVars => TypeOK'
<1> SUFFICES ASSUME TypeOK, [Next]_callVars PROVE TypeOK'
    OBVIOUS
<1> USE DEF TypeOK
<1>1. ASSUME NEW s \in Sockets, Connect(s) PROVE TypeOK'
    BY <1>1 DEF Connect
<1>2. ASSUME NEW s \in Sockets, Refuse(s) PROVE TypeOK'
    BY <1>2 DEF Refuse
<1>3. ASSUME NEW s \in Sockets, HandleDisconnect(s) PROVE TypeOK'
    <2>1. conn' \in [Sockets -> {"new", "on", "gone"}]
        BY <1>3 DEF HandleDisconnect
    <2>2. CASE CallsOf(s) = {} /\ events' = {} /\ UNCHANGED activeCalls
        BY <2>1, <2>2
    <2>3. ASSUME NEW k \in CallsOf(s), Remove(k),
                 events' = Emit(Peer(activeCalls[k], s), "callEnded", s)
          PROVE  TypeOK'
        <3>1. k \in CallIds /\ activeCalls[k] \in Sessions
            BY SessionInTable DEF CallsOf
        <3>2. Peer(activeCalls[k], s) \in Sockets
            BY <3>1 DEF Peer, Sessions
        <3>3. events' \subseteq Events
            BY <2>3, <3>2, EmitTypes DEF EventNames
        <3>4. activeCalls' \in [CallIds -> Sessions \cup {NoCall}]
            BY <2>3 DEF Remove
        <3> QED BY <2>1, <3>3, <3>4
    <2> QED BY <1>3, <2>2, <2>3 DEF HandleDisconnect
<1>4. ASSUME NEW s \in Sockets, NEW t \in Sockets, Signal(s, t) PROVE TypeOK'
    <2>0. CallId(s, t) \in CallIds
        BY CallIdTypes
    <2>1. CASE CallUser(s, t)
        <3>1. NewSession(s, t) \in Sessions
            BY DEF NewSession, Sessions
        <3>2. events' \subseteq Events
            BY <2>1, EmitTypes DEF CallUser, EventNames
        <3> QED BY <2>1, <2>0, <3>1, <3>2 DEF CallUser
    <2>2. CASE AnswerCall(s, t)
        <3> DEFINE call == activeCalls[CallId(s, t)]
        <3>1. CASE call = NoCall
            BY <2>2, <3>1 DEF AnswerCall
        <3>2. CASE call # NoCall
            <4>1. call \in Sessions
                BY <3>2, <2>0, SessionInTable
            <4>2. [call EXCEPT !.status = "accepted"] \in Sessions
                BY <4>1 DEF Sessions
            <4>3. activeCalls' = [activeCalls EXCEPT ![CallId(s, t)] = [call EXCEPT !.status = "accepted"]]
                BY <2>2, <3>2 DEF AnswerCall
            <4>4. call.callerIce \in SUBSET Ice /\ call.calleeIce \in SUBSET Ice
                BY <4>1 DEF Sessions
            <4>5. events' \subseteq Events
                <5>1. events' = Replay(s, t, call.callerIce) \cup Emit(t, "callAnswered", s)
                                  \cup Replay(t, s, call.calleeIce)
                    BY <2>2, <3>2 DEF AnswerCall
                <5>2. Replay(s, t, call.callerIce) \subseteq Events
                    BY <4>4, ReplayTypes
                <5>3. Replay(t, s, call.calleeIce) \subseteq Events
                    BY <4>4, ReplayTypes
                <5>4. Emit(t, "callAnswered", s) \subseteq Events
                    BY EmitTypes DEF EventNames
                <5> QED BY <5>1, <5>2, <5>3, <5>4
            <4>6. conn' = conn
                BY <2>2 DEF AnswerCall
            <4> QED BY <2>0, <4>2, <4>3, <4>5, <4>6
        <3> QED BY <3>1, <3>2
    <2>3. CASE RejectCall(s, t)
        <3>1. events' \subseteq Events
            BY <2>3, EmitTypes DEF RejectCall, EventNames
        <3> QED BY <2>3, <2>0, <3>1 DEF RejectCall, Remove
    <2>4. CASE EndCall(s, t)
        <3>1. events' \subseteq Events
            BY <2>4, EmitTypes DEF EndCall, EventNames
        <3> QED BY <2>4, <2>0, <3>1 DEF EndCall, Remove
    <2>5. ASSUME NEW c \in Candidates, IceCandidate(s, t, c) PROVE TypeOK'
        <3> DEFINE call == activeCalls[CallId(s, t)]
        <3>1. events' \subseteq Events
            BY <2>5, EmitTypes DEF IceCandidate, EventNames
        <3>2. conn' = conn
            BY <2>5 DEF IceCandidate
        <3>3. CASE call = NoCall
            BY <2>5, <3>1, <3>2, <3>3 DEF IceCandidate
        <3>4. CASE call # NoCall
            <4>1. call \in Sessions /\ <<s, c>> \in Ice
                BY <3>4, <2>0, SessionInTable DEF Ice
            <4>2. [call EXCEPT !.callerIce = call.callerIce \cup {<<s, c>>}] \in Sessions
                BY <4>1 DEF Sessions
            <4>3. [call EXCEPT !.calleeIce = call.calleeIce \cup {<<s, c>>}] \in Sessions
                BY <4>1 DEF Sessions
            <4>4. \E n \in Sessions : activeCalls' = [activeCalls EXCEPT ![CallId(s, t)] = n]
                BY <2>5, <3>4, <4>2, <4>3 DEF IceCandidate
            <4> QED BY <2>0, <3>1, <3>2, <4>4
        <3> QED BY <3>3, <3>4
    <2> QED BY <1>4, <2>1, <2>2, <2>3, <2>4, <2>5 DEF Signal
<1>5. CASE Die
    BY <1>5 DEF Die
<1>6. CASE Elsewhere
    BY <1>6 DEF Elsewhere
<1>7. CASE UNCHANGED callVars
    BY <1>7 DEF callVars
<1> QED BY <1>1, <1>2, <1>3, <1>4, <1>5, <1>6, <1>7 DEF Next

\* TypeOK of AudioCalls: the table holds sessions under keys of pairs, and what is
\* emitted is an event of the gateway.
THEOREM CallsTyped == Spec => []TypeOK
BY InitTypes, NextTypes, PTL DEF Spec

----------------------------------------------------------------------------
\* The session of one key, as CandidatesMatch says of all.
Fits(k, call) ==
  /\ k = CallId(call.caller, call.callee)
  /\ \A i \in call.callerIce : i[1] = call.caller
  /\ \A i \in call.calleeIce : i[1] = call.callee

LEMMA MatchIsFits ==
  CandidatesMatch <=> \A k \in CallIds : activeCalls[k] # NoCall => Fits(k, activeCalls[k])
BY DEF CandidatesMatch, Fits

\* A step that changes one session, to one that fits its key, keeps all of them.
LEMMA OneChanges ==
  ASSUME TypeOK, CandidatesMatch, NEW k \in CallIds, NEW n,
         activeCalls' = [activeCalls EXCEPT ![k] = n],
         n # NoCall => Fits(k, n)
  PROVE  CandidatesMatch'
<1>1. \A j \in CallIds : activeCalls'[j] = IF j = k THEN n ELSE activeCalls[j]
    BY DEF TypeOK
<1>2. \A j \in CallIds : activeCalls'[j] # NoCall => Fits(j, activeCalls'[j])
    BY <1>1, MatchIsFits
<1> QED BY <1>2 DEF CandidatesMatch, Fits

LEMMA NextMatches == TypeOK /\ CandidatesMatch /\ [Next]_callVars => CandidatesMatch'
<1> SUFFICES ASSUME TypeOK, CandidatesMatch, [Next]_callVars PROVE CandidatesMatch'
    OBVIOUS
<1>1. CASE UNCHANGED activeCalls
    BY <1>1 DEF CandidatesMatch
<1>2. ASSUME NEW s \in Sockets, HandleDisconnect(s) PROVE CandidatesMatch'
    <2>1. ASSUME NEW k \in CallsOf(s), Remove(k) PROVE CandidatesMatch'
        BY <2>1, OneChanges DEF CallsOf, Remove
    <2> QED BY <1>1, <1>2, <2>1 DEF HandleDisconnect
<1>3. ASSUME NEW s \in Sockets, NEW t \in Sockets, Signal(s, t) PROVE CandidatesMatch'
    <2> DEFINE k == CallId(s, t)
               call == activeCalls[k]
    <2>0. k \in CallIds
        BY CallIdTypes
    <2>1. CASE CallUser(s, t)
        <3>1. Fits(k, NewSession(s, t))
            BY DEF Fits, NewSession
        <3> QED BY <2>0, <2>1, <3>1, OneChanges DEF CallUser
    <2>2. CASE AnswerCall(s, t)
        <3>1. CASE call = NoCall
            BY <1>1, <2>2, <3>1 DEF AnswerCall
        <3>2. CASE call # NoCall
            <4> DEFINE n == [call EXCEPT !.status = "accepted"]
            <4>1. call \in Sessions /\ Fits(k, call)
                BY <2>0, <3>2, SessionInTable, MatchIsFits
            <4>2. Fits(k, n)
                BY <4>1 DEF Fits, Sessions
            <4>3. activeCalls' = [activeCalls EXCEPT ![k] = n]
                BY <2>2, <3>2 DEF AnswerCall
            <4> HIDE DEF n, k
            <4> QED BY <2>0, <4>2, <4>3, OneChanges
        <3> QED BY <3>1, <3>2
    <2>3. CASE RejectCall(s, t) \/ EndCall(s, t)
        BY <2>0, <2>3, OneChanges DEF RejectCall, EndCall, Remove
    <2>4. ASSUME NEW c \in Candidates, IceCandidate(s, t, c) PROVE CandidatesMatch'
        <3>1. CASE call = NoCall
            BY <1>1, <2>4, <3>1 DEF IceCandidate
        <3>2. CASE call # NoCall
            <4> DEFINE n == IF s = call.caller
                            THEN [call EXCEPT !.callerIce = @ \cup {<<s, c>>}]
                            ELSE [call EXCEPT !.calleeIce = @ \cup {<<s, c>>}]
            <4>1. call \in Sessions /\ Fits(k, call)
                BY <2>0, <3>2, SessionInTable, MatchIsFits
            <4>2. s # call.caller => s = call.callee
                BY <4>1 DEF Fits, CallId
            <4>3. Fits(k, n)
                BY <4>1, <4>2 DEF Fits, Sessions
            <4>4. activeCalls' = [activeCalls EXCEPT ![k] = n]
                BY <2>4, <3>2 DEF IceCandidate
            <4> HIDE DEF n, k
            <4> QED BY <2>0, <4>3, <4>4, OneChanges
        <3> QED BY <3>1, <3>2
    <2> QED BY <1>3, <2>1, <2>2, <2>3, <2>4 DEF Signal
<1>4. CASE Die
    <2>1. \A k \in CallIds : activeCalls'[k] = NoCall
        BY <1>4 DEF Die
    <2> QED BY <2>1 DEF CandidatesMatch
<1> QED BY <1>1, <1>2, <1>3, <1>4 DEF Next, Connect, Refuse, Elsewhere, callVars

\* CandidatesMatch, for any number of sockets that call one another in any order.
THEOREM CandidatesAreOfTheirParty == Spec => []CandidatesMatch
<1>1. Init => CandidatesMatch
    BY DEF Init, CandidatesMatch
<1> QED BY <1>1, InitTypes, NextTypes, NextMatches, PTL DEF Spec

----------------------------------------------------------------------------
\* The step that ChangeIsTold allows.
ChangeToldStep ==
  \A k \in CallIds : View(k)' # View(k) =>
    \E by \in k :
      /\ (\E s \in k : Leaves(s)) => Leaves(by)
      /\ \A q \in k \ {by} : conn'[q] = "on" => Told(q, by)'

\* Whoever is emitted to is told.
LEMMA EmitTells ==
  ASSUME NEW q, NEW name, NEW by, Emit(q, name, by) \subseteq events'
  PROVE  Told(q, by)'
<1> DEFINE e == [to |-> q, event |-> name, from |-> by, ice |-> {}]
<1>1. e \in events'
    BY DEF Emit
<1>2. e.to = q /\ e.from = by
    OBVIOUS
<1> QED BY <1>1, <1>2 DEF Told

\* A request changes the call of its two parties only, and tells the other.
LEMMA RequestIsTold ==
  ASSUME TypeOK, NEW s \in Sockets, NEW t \in Sockets, Signal(s, t)
  PROVE  ChangeToldStep
<1> DEFINE k == CallId(s, t)
<1>0. k \in CallIds /\ UNCHANGED conn
    BY CallIdTypes DEF Signal, CallUser, AnswerCall, RejectCall, EndCall, IceCandidate
<1>1. \A j \in CallIds : j # k => activeCalls'[j] = activeCalls[j]
    BY DEF TypeOK, Signal, CallUser, AnswerCall, RejectCall, EndCall, IceCandidate, Remove
<1>2. \A j \in CallIds : j # k => View(j)' = View(j)
    BY <1>1 DEF View
<1>3. View(k)' # View(k) => Told(t, s)'
    <2>1. CASE CallUser(s, t) \/ RejectCall(s, t) \/ EndCall(s, t)
        <3>1. \/ events' = Emit(t, "incomingCall", s)
              \/ events' = Emit(t, "callRejected", s)
              \/ events' = Emit(t, "callEnded", s)
            BY <2>1 DEF CallUser, RejectCall, EndCall
        <3> QED BY <3>1, EmitTells
    <2>2. CASE AnswerCall(s, t)
        <3>1. CASE activeCalls[k] = NoCall
            BY <2>2, <3>1 DEF AnswerCall, View
        <3>2. CASE activeCalls[k] # NoCall
            <4>1. Emit(t, "callAnswered", s) \subseteq events'
                BY <2>2, <3>2 DEF AnswerCall
            <4> QED BY <4>1, EmitTells
        <3> QED BY <3>1, <3>2
    <2>3. ASSUME NEW c \in Candidates, IceCandidate(s, t, c) PROVE Told(t, s)'
        BY <2>3, EmitTells DEF IceCandidate
    <2> QED BY <2>1, <2>2, <2>3 DEF Signal
<1>4. \A q \in k \ {s} : q = t
    BY DEF CallId
<1>5. s \in k
    BY DEF CallId
<1>6. \A j : ~Leaves(j)
    BY <1>0 DEF Leaves
<1> HIDE DEF k
<1> QED BY <1>0, <1>2, <1>3, <1>4, <1>5, <1>6 DEF ChangeToldStep

\* Whoever disconnects ends one call, and tells the other party of it.
LEMMA EndIsTold ==
  ASSUME TypeOK, CandidatesMatch, NEW s \in Sockets, HandleDisconnect(s)
  PROVE  ChangeToldStep
<1>1. Leaves(s)
    BY DEF HandleDisconnect, Leaves, TypeOK
<1>2. \A j : Leaves(j) /\ j \in Sockets => j = s
    BY DEF HandleDisconnect, Leaves, TypeOK
<1>3. CASE UNCHANGED activeCalls
    BY <1>3 DEF ChangeToldStep, View
<1>4. ASSUME NEW k \in CallsOf(s), Remove(k),
             events' = Emit(Peer(activeCalls[k], s), "callEnded", s)
      PROVE  ChangeToldStep
    <2> DEFINE call == activeCalls[k]
    <2>1. k \in CallIds /\ s \in k /\ call # NoCall
        BY DEF CallsOf
    <2>2. k = {call.caller, call.callee}
        BY <2>1 DEF CandidatesMatch, CallId
    <2>3. \A q \in k \ {s} : q = Peer(call, s)
        BY <2>1, <2>2 DEF Peer
    <2>4. \A q \in k \ {s} : Told(q, s)'
        BY <1>4, <2>3, EmitTells
    <2>5. \A j \in CallIds : j # k => View(j)' = View(j)
        BY <1>4 DEF Remove, View, TypeOK
    <2> QED BY <1>1, <2>1, <2>4, <2>5 DEF ChangeToldStep
<1> QED BY <1>3, <1>4 DEF HandleDisconnect

\* When the process dies there is nobody left to be told.
LEMMA DeathIsTold ==
  ASSUME TypeOK, Die
  PROVE  ChangeToldStep
<1>1. \A q \in Sockets : conn'[q] # "on"
    BY DEF Die, TypeOK
<1>2. ASSUME NEW k \in CallIds
      PROVE  \E by \in k : /\ (\E s \in k : Leaves(s)) => Leaves(by)
                           /\ \A q \in k \ {by} : conn'[q] = "on" => Told(q, by)'
    <2>1. k \subseteq Sockets /\ k # {}
        BY DEF CallIds, CallId
    <2>2. PICK by \in k : (\E s \in k : Leaves(s)) => Leaves(by)
        BY <2>1
    <2>3. \A q \in k \ {by} : conn'[q] # "on"
        BY <1>1, <2>1
    <2> QED BY <2>2, <2>3
<1> QED BY <1>2 DEF ChangeToldStep

LEMMA NextTells == TypeOK /\ CandidatesMatch /\ [Next]_callVars => [ChangeToldStep]_callVars
<1> SUFFICES ASSUME TypeOK, CandidatesMatch, Next PROVE ChangeToldStep
    OBVIOUS
<1>1. CASE UNCHANGED activeCalls
    BY <1>1 DEF ChangeToldStep, View
<1> QED BY <1>1, RequestIsTold, EndIsTold, DeathIsTold DEF Next, Connect, Refuse, Elsewhere

\* ChangeIsTold, for any number of sockets, calls and disconnects.
THEOREM NobodyLeftInCall == Spec => ChangeIsTold
<1>1. Init => CandidatesMatch
    BY DEF Init, CandidatesMatch
<1>2. TypeOK /\ CandidatesMatch /\ [Next]_callVars
        => [\A k \in CallIds : View(k)' # View(k) =>
              \E by \in k :
                /\ (\E s \in k : Leaves(s)) => Leaves(by)
                /\ \A q \in k \ {by} : conn'[q] = "on" => Told(q, by)']_callVars
    BY NextTells DEF ChangeToldStep
<1> QED BY <1>1, <1>2, InitTypes, NextTypes, NextMatches, PTL DEF Spec, ChangeIsTold
=============================================================================
