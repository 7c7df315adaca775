------------------------------ MODULE Chat_proofs ------------------------------
(***************************************************************************)
(* Machine-checked proofs about Chat, for any number of messages, clients, *)
(* instances and faults and any routing of clients to instances.           *)
(***************************************************************************)
EXTENDS Chat, SequenceTheorems, WellFoundedInduction, TLAPS

----------------------------------------------------------------------------
\* Types.

\* A set of naturals up to N that is not empty has a largest element.
LEMMA Largest ==
  ASSUME NEW N \in Nat, NEW S \in SUBSET (0..N), S # {}
  PROVE  \E x \in S : \A y \in S : y <= x
<1> DEFINE R == {r \in Nat \X Nat : r[1] < r[2]}
           T == {N - x : x \in S}
<1>1. IsWellFoundedOn(R, Nat)
  BY NatLessThanWellFounded DEF OpToRel
<1>2. T \subseteq Nat
  <2>1. ASSUME NEW x \in S PROVE N - x \in Nat
    OBVIOUS
  <2> QED BY <2>1
<1>3. T # {}
  <2>1. PICK x \in S : TRUE
    OBVIOUS
  <2>2. N - x \in T
    BY <2>1
  <2> QED BY <2>2
<1>4. PICK t \in T : \A u \in T : <<u, t>> \notin R
  <2> HIDE DEF R, T
  <2> QED BY <1>1, <1>2, <1>3, WFMin
<1>5. PICK x \in S : t = N - x
  OBVIOUS
<1>6. ASSUME NEW y \in S PROVE y <= x
  <2>1. <<N - y, t>> \notin R /\ N - y \in Nat /\ t \in Nat
    BY <1>4
  <2> QED BY <2>1, <1>5
<1> QED BY <1>6

\* The timestamp a client catches up from is one of the database's.
LEMMA LatestIsTime ==
  ASSUME TypeOK, NEW c \in Clients
  PROVE  Latest(c) \in 0..(MaxTime + 1)
<1>0. /\ seen[c] \subseteq Messages /\ sentAt \in [Messages -> 0..(MaxTime + 1)]
      /\ MaxTime + 1 \in Nat
  BY NumbersAssumption DEF TypeOK
<1>1. CASE seen[c] = {}
  BY <1>0, <1>1 DEF Latest
<1>2. CASE seen[c] # {}
  <2> DEFINE S == {sentAt[m] : m \in seen[c]}
             last == CHOOSE m \in seen[c] : \A n \in seen[c] : sentAt[n] <= sentAt[m]
  <2>1. S \in SUBSET (0..(MaxTime + 1)) /\ S # {}
    BY <1>0, <1>2
  <2>2. PICK x \in S : \A y \in S : y <= x
    <3> HIDE DEF S
    <3> QED BY <1>0, <2>1, Largest
  <2>3. \E m \in seen[c] : \A n \in seen[c] : sentAt[n] <= sentAt[m]
    BY <2>2
  <2>4. last \in seen[c]
    BY <2>3
  <2> QED BY <1>0, <1>2, <2>4 DEF Latest
<1> QED BY <1>1, <1>2

\* Every step keeps the types.
LEMMA TypeStep == TypeOK /\ [Next]_vars => TypeOK'
<1> SUFFICES ASSUME TypeOK, [Next]_vars PROVE TypeOK'
  OBVIOUS
<1> USE NumbersAssumption, AuthorAssumption, AwayAssumption, RoutesAssumption DEF TypeOK
<1>0. Stored \subseteq Messages
  BY DEF Stored
<1>1. CASE Tick
  BY <1>1 DEF Tick, rowVars, clientVars
<1>2. ASSUME NEW m \in Messages, BeginSave(m) PROVE TypeOK'
  BY <1>2 DEF BeginSave, rowVars, clientVars
<1>3. ASSUME NEW m \in Messages, CommitSave(m) \/ PublishFails(m) PROVE TypeOK'
  <2>1. faults' \in 0..MaxFaults
    BY <1>3 DEF CommitSave, PublishFails, Fault
  <2> QED BY <1>3, <2>1 DEF CommitSave, PublishFails, rowVars, clientVars
<1>4. ASSUME NEW m \in Messages, Publish(m) PROVE TypeOK'
  <2>1. \A i \in Instances : Append(channel[i], m) \in Seq(Messages)
    BY AppendProperties
  <2> QED BY <1>4, <2>1 DEF Publish, rowVars, clientVars
<1>5. ASSUME NEW i \in Instances, HandleChannel(i) PROVE TypeOK'
  <2>1. Head(channel[i]) \in Messages /\ Tail(channel[i]) \in Seq(Messages)
    BY <1>5, HeadTailProperties DEF HandleChannel
  <2>2. \A c \in Clients : Append(live[c], Head(channel[i])) \in Seq(Messages)
    BY <2>1, AppendProperties
  <2> QED BY <1>5, <2>1, <2>2 DEF HandleChannel, rowVars
<1>6. ASSUME NEW c \in Clients, NEW i \in Instances, JoinChat(c, i) PROVE TypeOK'
  BY <1>6 DEF JoinChat, rowVars
<1>7. ASSUME NEW c \in Clients, LeaveChat(c) PROVE TypeOK'
  BY <1>7, EmptySeq DEF LeaveChat, rowVars
<1>8. ASSUME NEW c \in Clients, SyncMessages(c) PROVE TypeOK'
  BY <1>0, <1>8, LatestIsTime DEF SyncMessages, rowVars
<1>9. ASSUME NEW c \in Clients, GetMessages(c) PROVE TypeOK'
  BY <1>0, <1>9 DEF GetMessages, LatestPages, rowVars
<1>10. ASSUME NEW i \in Instances, LoseSubscription(i) \/ Resubscribe(i) PROVE TypeOK'
  <2>1. CASE LoseSubscription(i)
    <3>1. <<>> \in Seq(Messages)
      BY EmptySeq
    <3>2. since' \in [Clients -> (0..(MaxTime + 1)) \cup {Never}] /\ faults' \in 0..MaxFaults
      BY <2>1 DEF LoseSubscription, Interrupt, Fault
    <3> QED BY <2>1, <3>1, <3>2 DEF LoseSubscription, rowVars
  <2>2. CASE Resubscribe(i)
    BY <2>2 DEF Resubscribe, rowVars, clientVars
  <2> QED BY <1>10, <2>1, <2>2
<1>11. ASSUME NEW i \in Instances, Crash(i) PROVE TypeOK'
  BY <1>11, EmptySeq DEF Crash, Interrupt, Fault, rowVars
<1>12. CASE UNCHANGED vars
  BY <1>12 DEF vars
<1> QED
  BY <1>1, <1>2, <1>3, <1>4, <1>5, <1>6, <1>7, <1>8, <1>9, <1>10, <1>11, <1>12
     DEF Next, Send, Follow, Serve

\* Every variable keeps its type; a catch-up always starts from a time of the database.
THEOREM ChatTyped == Spec => []TypeOK
<1>1. Init => TypeOK
  BY NumbersAssumption, EmptySeq DEF Init, TypeOK
<1> QED BY <1>1, TypeStep, PTL DEF Spec

----------------------------------------------------------------------------
\* What a client misses.

\* Who has caught up listens: his instance has had its subscription ever since.
Listening == \A c \in Clients : CaughtUp(c) => at[c] \in subscribed

\* A step after which everybody has what he had, and nobody is caught up or a message
\* published who was not, misses nothing new.
LEMMA MissedQuietStep ==
  ASSUME TypeOK, OnlyOvertakenMissed, sentAt' = sentAt,
         \A c \in Clients : seen[c] \subseteq seen'[c],
         \A m \in Messages : pc'[m] = "published" => pc[m] = "published",
         \A c \in Clients : CaughtUp(c)' =>
           since'[c] = since[c] /\ at'[c] = at[c] /\ channel'[at[c]] = channel[at[c]]
  PROVE  OnlyOvertakenMissed'
<1> SUFFICES ASSUME NEW c \in Clients, NEW m \in Messages, CaughtUp(c)', pc'[m] = "published",
                    m \notin seen'[c], m \notin Elements(channel'[at'[c]])
             PROVE  sentAt'[m] <= since'[c]
  BY DEF OnlyOvertakenMissed
<1>1. CaughtUp(c) /\ pc[m] = "published" /\ m \notin seen[c] /\ m \notin Elements(channel[at[c]])
  BY DEF CaughtUp
<1> QED BY <1>1 DEF OnlyOvertakenMissed

\* The step of the invariant.
LEMMA MissedStep ==
  ASSUME TypeOK, Listening, OnlyOvertakenMissed, [Next]_vars
  PROVE  Listening' /\ OnlyOvertakenMissed'
<1> USE NumbersAssumption, AwayAssumption
<1>0. /\ seen \in [Clients -> SUBSET Messages] /\ subscribed \subseteq Instances
      /\ at \in [Clients -> Instances \cup {Away}] /\ channel \in [Instances -> Seq(Messages)]
      /\ since \in [Clients -> (0..(MaxTime + 1)) \cup {Never}]
      /\ pc \in [Messages -> {"unsent", "begun", "saved", "published", "unpublished", "failed"}]
      /\ sentAt \in [Messages -> 0..(MaxTime + 1)]
      /\ \A c \in Clients : CaughtUp(c) => at[c] \in subscribed /\ at[c] # Away
  BY DEF TypeOK, Listening
<1>1. CASE UNCHANGED vars \/ Tick
  <2>1. UNCHANGED <<pc, sentAt, channel, subscribed, at, seen, since>>
    BY <1>1 DEF vars, Tick, rowVars, clientVars
  <2> QED BY <2>1, MissedQuietStep DEF Listening, CaughtUp
<1>2. ASSUME NEW m \in Messages, BeginSave(m) PROVE Listening' /\ OnlyOvertakenMissed'
  <2>1. UNCHANGED <<channel, subscribed, at, seen, since>>
    BY <1>2 DEF BeginSave, clientVars
  <2>2. \A n \in Messages : pc'[n] = "published" => pc[n] = "published" /\ sentAt'[n] = sentAt[n]
    BY <1>0, <1>2 DEF BeginSave
  <2> QED BY <1>0, <2>1, <2>2 DEF Listening, CaughtUp, OnlyOvertakenMissed
<1>3. ASSUME NEW m \in Messages, CommitSave(m) \/ PublishFails(m)
      PROVE  Listening' /\ OnlyOvertakenMissed'
  <2>1. UNCHANGED <<sentAt, channel, subscribed, at, seen, since>>
    BY <1>3 DEF CommitSave, PublishFails, rowVars, clientVars
  <2>2. \A n \in Messages : pc'[n] = "published" => pc[n] = "published"
    BY <1>0, <1>3 DEF CommitSave, PublishFails
  <2> QED BY <2>1, <2>2, MissedQuietStep DEF Listening, CaughtUp
<1>4. ASSUME NEW m \in Messages, Publish(m) PROVE Listening' /\ OnlyOvertakenMissed'
  <2>1. UNCHANGED <<sentAt, subscribed, at, seen, since>>
    BY <1>4 DEF Publish, rowVars, clientVars
  <2>2. ASSUME NEW i \in subscribed
        PROVE  Elements(channel'[i]) = Elements(channel[i]) \cup {m}
    <3>1. channel'[i] = Append(channel[i], m) /\ channel[i] \in Seq(Messages)
      BY <1>0, <1>4, <2>2 DEF Publish
    <3>2. /\ Len(channel'[i]) = Len(channel[i]) + 1 /\ Len(channel[i]) \in Nat
          /\ \A n \in 1..Len(channel[i]) : channel'[i][n] = channel[i][n]
          /\ channel'[i][Len(channel[i]) + 1] = m
      BY <3>1, AppendProperties, LenProperties
    <3> QED BY <3>2 DEF Elements
  <2>3. \A n \in Messages \ {m} : pc'[n] = pc[n]
    BY <1>0, <1>4 DEF Publish
  <2>4. ASSUME NEW c \in Clients, NEW n \in Messages, CaughtUp(c), pc'[n] = "published",
               n \notin seen[c], n \notin Elements(channel'[at[c]])
        PROVE  sentAt[n] <= since[c]
    <3>1. n # m /\ n \notin Elements(channel[at[c]])
      BY <1>0, <2>2, <2>4
    <3> QED BY <2>3, <2>4, <3>1 DEF OnlyOvertakenMissed
  <2> QED BY <2>1, <2>4 DEF Listening, CaughtUp, OnlyOvertakenMissed
<1>5. ASSUME NEW i \in Instances, HandleChannel(i) PROVE Listening' /\ OnlyOvertakenMissed'
  <2>1. UNCHANGED <<pc, sentAt, subscribed, at, since>>
    BY <1>5 DEF HandleChannel, rowVars
  <2> DEFINE m == Head(channel[i])
  <2>2. Elements(channel[i]) \subseteq Elements(channel'[i]) \cup {m}
    <3>1. channel'[i] = Tail(channel[i]) /\ channel[i] \in Seq(Messages) /\ channel[i] # <<>>
      BY <1>0, <1>5 DEF HandleChannel
    <3>2. /\ Len(channel'[i]) = Len(channel[i]) - 1 /\ Len(channel[i]) \in Nat
          /\ \A n \in 1..Len(channel'[i]) : channel'[i][n] = channel[i][n + 1]
      BY <3>1, HeadTailProperties, LenProperties
    <3>3. channel[i][1] = m
      BY <3>1
    <3>4. ASSUME NEW n \in 1..Len(channel[i])
          PROVE  channel[i][n] \in Elements(channel'[i]) \cup {m}
      <4>1. CASE n = 1
        BY <3>3, <4>1
      <4>2. CASE n # 1
        <5>1. n - 1 \in 1..Len(channel'[i]) /\ channel[i][n] = channel'[i][n - 1]
          BY <3>2, <4>2
        <5> QED BY <5>1 DEF Elements
      <4> QED BY <4>1, <4>2
    <3> QED BY <3>4 DEF Elements
  <2>3. \A c \in Clients : seen'[c] = IF at[c] = i THEN seen[c] \cup {m} ELSE seen[c]
    BY <1>5 DEF HandleChannel
  <2>4. \A j \in Instances \ {i} : channel'[j] = channel[j]
    BY <1>0, <1>5 DEF HandleChannel
  <2>5. ASSUME NEW c \in Clients, NEW n \in Messages, CaughtUp(c), pc[n] = "published",
               n \notin seen'[c], n \notin Elements(channel'[at[c]])
        PROVE  sentAt[n] <= since[c]
    <3> HIDE DEF m
    <3>1. n \notin seen[c] /\ n \notin Elements(channel[at[c]])
      BY <1>0, <2>2, <2>3, <2>4, <2>5
    <3> QED BY <2>5, <3>1 DEF OnlyOvertakenMissed
  <2> QED BY <2>1, <2>5 DEF Listening, CaughtUp, OnlyOvertakenMissed
<1>6. ASSUME NEW c \in Clients, NEW i \in Instances, JoinChat(c, i)
      PROVE  Listening' /\ OnlyOvertakenMissed'
  <2>1. UNCHANGED <<pc, sentAt, channel, subscribed, seen, since>> /\ ~CaughtUp(c)
    BY <1>0, <1>6 DEF JoinChat, rowVars
  <2>2. \A d \in Clients \ {c} : at'[d] = at[d]
    BY <1>0, <1>6 DEF JoinChat
  <2> QED BY <1>0, <2>1, <2>2, MissedQuietStep DEF Listening, CaughtUp
<1>7. ASSUME NEW c \in Clients, LeaveChat(c) PROVE Listening' /\ OnlyOvertakenMissed'
  <2>1. UNCHANGED <<pc, sentAt, channel, subscribed, seen>> /\ since'[c] = Never
    BY <1>0, <1>7 DEF LeaveChat, rowVars
  <2>2. \A d \in Clients \ {c} : at'[d] = at[d] /\ since'[d] = since[d]
    BY <1>0, <1>7 DEF LeaveChat
  <2> QED BY <1>0, <2>1, <2>2, MissedQuietStep DEF Listening, CaughtUp
<1>8. ASSUME NEW c \in Clients, SyncMessages(c) PROVE Listening' /\ OnlyOvertakenMissed'
  <2>1. UNCHANGED <<pc, sentAt, channel, subscribed, at>>
    BY <1>8 DEF SyncMessages, rowVars
  <2>2. /\ seen'[c] = seen[c] \cup {m \in Stored : sentAt[m] > Floor(Latest(c))}
        /\ \A d \in Clients \ {c} : seen'[d] = seen[d] /\ since'[d] = since[d]
    BY <1>0, <1>8 DEF SyncMessages
  <2>3. CASE at[c] \notin subscribed
    <3>1. since' = since
      BY <1>8, <2>3 DEF SyncMessages
    <3> QED BY <1>0, <2>1, <2>2, <3>1, MissedQuietStep DEF Listening, CaughtUp
  <2>4. CASE at[c] \in subscribed
    <3>1. since'[c] = Latest(c)
      BY <1>0, <1>8, <2>4 DEF SyncMessages
    <3>2. Latest(c) \in Nat /\ Floor(Latest(c)) \in Int /\ Floor(Latest(c)) <= Latest(c)
      BY LatestIsTime DEF Floor
    <3>3. ASSUME NEW n \in Messages, pc[n] = "published", n \notin seen'[c]
          PROVE  sentAt[n] <= since'[c]
      <4>1. n \in Stored
        BY <3>3 DEF Stored
      <4>2. ~(sentAt[n] > Floor(Latest(c))) /\ sentAt[n] \in Nat
        BY <1>0, <2>2, <3>3, <4>1
      <4> QED BY <3>1, <3>2, <4>2
    <3>4. Listening'
      BY <1>0, <2>1, <2>2, <2>4 DEF Listening, CaughtUp
    <3> QED BY <2>1, <2>2, <3>3, <3>4 DEF OnlyOvertakenMissed, CaughtUp
  <2> QED BY <2>3, <2>4
<1>9. ASSUME NEW c \in Clients, GetMessages(c) PROVE Listening' /\ OnlyOvertakenMissed'
  <2>1. UNCHANGED <<pc, sentAt, channel, subscribed, at, since>>
    BY <1>9 DEF GetMessages, rowVars
  <2>2. \A d \in Clients : seen[d] \subseteq seen'[d]
    BY <1>0, <1>9 DEF GetMessages
  <2> QED BY <2>1, <2>2, MissedQuietStep DEF Listening, CaughtUp
<1>10. ASSUME NEW i \in Instances, LoseSubscription(i) \/ Crash(i)
       PROVE  Listening' /\ OnlyOvertakenMissed'
  <2>1. /\ UNCHANGED <<sentAt, seen>> /\ subscribed \ {i} \subseteq subscribed'
        /\ channel' = [channel EXCEPT ![i] = <<>>]
        /\ \A d \in Clients : since'[d] = IF at[d] = i THEN Never ELSE since[d]
        /\ \A d \in Clients : at[d] # i => at'[d] = at[d]
    BY <1>10 DEF LoseSubscription, Crash, Interrupt, rowVars
  <2>2. \A n \in Messages : pc'[n] = "published" => pc[n] = "published"
    BY <1>0, <1>10 DEF LoseSubscription, Crash
  <2>3. \A d \in Clients : CaughtUp(d)' => at[d] # i /\ CaughtUp(d) /\ at'[d] = at[d]
                                           /\ since'[d] = since[d]
    BY <2>1 DEF CaughtUp
  <2>4. \A d \in Clients : CaughtUp(d)' => channel'[at[d]] = channel[at[d]]
    BY <1>0, <2>1, <2>3
  <2>5. Listening'
    BY <1>0, <2>1, <2>3 DEF Listening
  <2> QED BY <2>1, <2>2, <2>3, <2>4, <2>5, MissedQuietStep
<1>11. ASSUME NEW i \in Instances, Resubscribe(i) PROVE Listening' /\ OnlyOvertakenMissed'
  <2>1. UNCHANGED <<pc, sentAt, channel, at, seen, since>> /\ subscribed \subseteq subscribed'
    BY <1>11 DEF Resubscribe, rowVars, clientVars
  <2> QED BY <2>1, MissedQuietStep DEF Listening, CaughtUp
<1> QED
  BY <1>1, <1>2, <1>3, <1>4, <1>5, <1>6, <1>7, <1>8, <1>9, <1>10, <1>11
     DEF Next, Send, Follow, Serve

\* A client that has caught up in the room misses no published message but those
\* overtaken in the database by the one it caught up from, whatever faults happen to
\* other instances: it listens before it asks, and cutting its timestamp only makes
\* the answer larger.
THEOREM OnlyOvertaken == Spec => []OnlyOvertakenMissed
<1>1. Init => Listening /\ OnlyOvertakenMissed
  BY DEF Init, Listening, OnlyOvertakenMissed, CaughtUp
<1>2. TypeOK /\ Listening /\ OnlyOvertakenMissed /\ [Next]_vars
        => (Listening /\ OnlyOvertakenMissed)'
  BY MissedStep
<1> QED BY <1>1, <1>2, ChatTyped, PTL DEF Spec

----------------------------------------------------------------------------
\* The order of what clients get.

\* What s and t have in common stands in the same order in both, and once in each.
Agree(s, t) ==
  \A i, j \in 1..Len(s), k, l \in 1..Len(t) :
    i < j /\ s[i] = t[k] /\ s[j] = t[l] => k < l

\* What client c has got live and what its instance has still to hand it.
Stream(c) == IF at[c] = Away THEN <<>> ELSE live[c] \o channel[at[c]]

Streams == {Stream(c) : c \in Clients} \cup {channel[i] : i \in Instances}

Published(s) == \A n \in 1..Len(s) : pc[s[n]] = "published"

\* Redis gives all instances the messages in one order.
OrderInv ==
  /\ \A c \in Clients : at[c] = Away => live[c] = <<>>
  /\ \A s \in Streams : Published(s)
  /\ \A s, t \in Streams : Agree(s, t)

\* s is a stretch of t.
Within(s, t) ==
  \E o \in Nat : \A n \in 1..Len(s) : n + o \in 1..Len(t) /\ s[n] = t[n + o]

\* Streams are sequences of messages.
LEMMA StreamType ==
  ASSUME TypeOK
  PROVE  (\A c \in Clients : Stream(c) \in Seq(Messages)) /\ Streams \subseteq Seq(Messages)
<1>1. ASSUME NEW c \in Clients PROVE Stream(c) \in Seq(Messages)
  <2>1. CASE at[c] = Away
    BY <2>1, EmptySeq DEF Stream
  <2>2. CASE at[c] # Away
    <3>1. live[c] \in Seq(Messages) /\ channel[at[c]] \in Seq(Messages)
      BY <2>2 DEF TypeOK
    <3> QED BY <2>2, <3>1, ConcatProperties DEF Stream
  <2> QED BY <2>1, <2>2
<1> QED BY <1>1 DEF Streams, TypeOK

\* So they are after a step.
LEMMA StreamTypeNext == TypeOK' => (Streams \subseteq Seq(Messages))'
<1>1. TypeOK => Streams \subseteq Seq(Messages)
  BY StreamType
<1> QED BY <1>1, PTL

\* Stretches agree where the whole does.
LEMMA AgreeWithin ==
  ASSUME NEW s \in Seq(Messages), NEW t \in Seq(Messages),
         NEW v \in Seq(Messages), NEW w \in Seq(Messages),
         Within(v, s), Within(w, t), Agree(s, t)
  PROVE  Agree(v, w)
<1>0. Len(s) \in Nat /\ Len(t) \in Nat /\ Len(v) \in Nat /\ Len(w) \in Nat
  BY LenProperties
<1>1. PICK o \in Nat : \A n \in 1..Len(v) : n + o \in 1..Len(s) /\ v[n] = s[n + o]
  BY DEF Within
<1>2. PICK q \in Nat : \A n \in 1..Len(w) : n + q \in 1..Len(t) /\ w[n] = t[n + q]
  BY DEF Within
<1> SUFFICES ASSUME NEW i \in 1..Len(v), NEW j \in 1..Len(v), NEW k \in 1..Len(w),
                    NEW l \in 1..Len(w), i < j, v[i] = w[k], v[j] = w[l]
             PROVE  k < l
  BY DEF Agree
<1>3. i + o \in 1..Len(s) /\ j + o \in 1..Len(s) /\ v[i] = s[i + o] /\ v[j] = s[j + o]
  BY <1>1
<1>4. k + q \in 1..Len(t) /\ l + q \in 1..Len(t) /\ w[k] = t[k + q] /\ w[l] = t[l + q]
  BY <1>2
<1>5. i + o < j + o
  BY <1>0
<1>6. s[i + o] = t[k + q] /\ s[j + o] = t[l + q]
  BY <1>3, <1>4
<1>7. k + q < l + q
  BY <1>3, <1>4, <1>5, <1>6 DEF Agree
<1> QED BY <1>0, <1>7

\* A message that is new to both may be appended to either.
LEMMA AgreeAppend ==
  ASSUME NEW s \in Seq(Messages), NEW t \in Seq(Messages), NEW m \in Messages, Agree(s, t),
         \A n \in 1..Len(s) : s[n] # m, \A n \in 1..Len(t) : t[n] # m,
         NEW v, v = s \/ v = Append(s, m), NEW w, w = t \/ w = Append(t, m)
  PROVE  Agree(v, w)
<1>0. Len(s) \in Nat /\ Len(t) \in Nat
  BY LenProperties
<1>1. /\ \A n \in 1..Len(s) : v[n] = s[n]
      /\ Len(v) = Len(s) \/ (Len(v) = Len(s) + 1 /\ v[Len(s) + 1] = m)
  BY AppendProperties
<1>2. /\ \A n \in 1..Len(t) : w[n] = t[n]
      /\ Len(w) = Len(t) \/ (Len(w) = Len(t) + 1 /\ w[Len(t) + 1] = m)
  BY AppendProperties
<1> SUFFICES ASSUME NEW i \in 1..Len(v), NEW j \in 1..Len(v), NEW k \in 1..Len(w),
                    NEW l \in 1..Len(w), i < j, v[i] = w[k], v[j] = w[l]
             PROVE  k < l
  BY DEF Agree
<1>3. i \in 1..Len(s) /\ v[i] = s[i]
  BY <1>0, <1>1
<1>4. k \in 1..Len(t) /\ w[k] = t[k]
  <2>1. v[i] # m
    BY <1>3
  <2> QED BY <1>0, <1>2, <2>1
<1>5. CASE j \in 1..Len(s)
  <2>1. l \in 1..Len(t) /\ w[l] = t[l]
    <3>1. v[j] # m
      BY <1>1, <1>5
    <3> QED BY <1>0, <1>2, <3>1
  <2> QED BY <1>1, <1>3, <1>4, <1>5, <2>1 DEF Agree
<1>6. CASE j \notin 1..Len(s)
  <2>1. v[j] = m
    BY <1>0, <1>1, <1>6
  <2>2. l \notin 1..Len(t)
    BY <1>2, <2>1
  <2> QED BY <1>0, <1>2, <1>4, <2>2
<1> QED BY <1>5, <1>6

\* A step that only shortens streams.
LEMMA OrderShorter ==
  ASSUME TypeOK, TypeOK', OrderInv,
         \A m \in Messages : pc[m] = "published" => pc'[m] = "published",
         \A c \in Clients : at'[c] = Away => live'[c] = <<>>,
         \A v \in Streams' : \E s \in Streams : Within(v, s)
  PROVE  OrderInv'
<1>0. Streams \subseteq Seq(Messages) /\ Streams' \subseteq Seq(Messages)
  BY StreamType, StreamTypeNext
<1>1. ASSUME NEW v \in Streams', NEW w \in Streams' PROVE Agree(v, w)
  <2>1. PICK s \in Streams : Within(v, s)
    OBVIOUS
  <2>2. PICK t \in Streams : Within(w, t)
    OBVIOUS
  <2>3. Agree(s, t)
    BY DEF OrderInv
  <2> QED BY <1>0, <2>1, <2>2, <2>3, AgreeWithin
<1>2. ASSUME NEW v \in Streams', NEW n \in 1..Len(v) PROVE pc'[v[n]] = "published"
  <2>1. PICK s \in Streams : Within(v, s)
    OBVIOUS
  <2>2. PICK k \in 1..Len(s) : v[n] = s[k]
    BY <2>1 DEF Within
  <2>3. pc[s[k]] = "published" /\ s[k] \in Messages
    BY <1>0, ElementOfSeq DEF OrderInv, Published
  <2> QED BY <2>2, <2>3
<1> QED BY <1>1, <1>2 DEF OrderInv, Published

\* A stream is a stretch of itself, and so is what a message is taken off.
LEMMA WithinSelf ==
  ASSUME NEW s \in Seq(Messages)
  PROVE  Within(s, s) /\ (s # <<>> => Within(Tail(s), s))
<1>0. Len(s) \in Nat
  BY LenProperties
<1>1. Within(s, s)
  <2>1. \A n \in 1..Len(s) : n + 0 \in 1..Len(s) /\ s[n] = s[n + 0]
    BY <1>0
  <2> QED BY <2>1 DEF Within
<1>2. ASSUME s # <<>> PROVE Within(Tail(s), s)
  <2>1. Len(Tail(s)) = Len(s) - 1 /\ \A n \in 1..Len(Tail(s)) : Tail(s)[n] = s[n + 1]
    BY <1>2, HeadTailProperties
  <2>2. \A n \in 1..Len(Tail(s)) : n + 1 \in 1..Len(s) /\ Tail(s)[n] = s[n + 1]
    BY <1>0, <2>1
  <2> QED BY <2>2 DEF Within
<1> QED BY <1>1, <1>2

\* The beginning of a stream is a stretch of it, the empty one too.
LEMMA WithinFront ==
  ASSUME NEW s \in Seq(Messages), NEW t \in Seq(Messages)
  PROVE  Within(s, s \o t) /\ Within(<<>>, s) /\ Within(s \o <<>>, s \o t)
<1>0. Len(s) \in Nat /\ Len(t) \in Nat
  BY LenProperties
<1>1. Within(s, s \o t)
  <2>1. \A n \in 1..Len(s) : n + 0 \in 1..Len(s \o t) /\ s[n] = (s \o t)[n + 0]
    BY <1>0, ConcatProperties
  <2> QED BY <2>1 DEF Within
<1>2. Within(<<>>, s)
  <2>1. Len(<<>>) = 0
    OBVIOUS
  <2>2. \A n \in 1..Len(<<>>) : n + 0 \in 1..Len(s) /\ <<>>[n] = s[n + 0]
    BY <2>1
  <2> QED BY <2>2 DEF Within
<1>3. s \o <<>> = s
  BY ConcatEmptySeq
<1> QED BY <1>1, <1>2, <1>3

\* Handing the first message on leaves a stream as it is.
LEMMA HandOn ==
  ASSUME NEW s \in Seq(Messages), NEW t \in Seq(Messages), t # <<>>
  PROVE  Append(s, Head(t)) \o Tail(t) = s \o t
<1>1. Head(t) \in Messages /\ Tail(t) \in Seq(Messages) /\ t = <<Head(t)>> \o Tail(t)
  BY HeadTailProperties
<1>2. Append(s, Head(t)) = s \o <<Head(t)>> /\ <<Head(t)>> \in Seq(Messages)
  BY <1>1, AppendIsConcat
<1> QED BY <1>1, <1>2, ConcatAssociative

\* A publication is appended at the end of a stream.
LEMMA PutBehind ==
  ASSUME NEW s \in Seq(Messages), NEW t \in Seq(Messages), NEW m \in Messages
  PROVE  s \o Append(t, m) = Append(s \o t, m)
<1>1. Append(t, m) = t \o <<m>> /\ Append(s \o t, m) = (s \o t) \o <<m>> /\ <<m>> \in Seq(Messages)
  BY AppendIsConcat, ConcatProperties
<1> QED BY <1>1, ConcatAssociative

\* A publication appends the message to some streams, and it is in none yet.
LEMMA OrderPublish ==
  ASSUME TypeOK, TypeOK', OrderInv, NEW m \in Messages, Publish(m)
  PROVE  OrderInv'
<1>9. Streams \subseteq Seq(Messages) /\ Streams' \subseteq Seq(Messages)
  BY StreamType, StreamTypeNext
<1>0. /\ Streams \subseteq Seq(Messages) /\ Streams' \subseteq Seq(Messages)
      /\ pc[m] = "saved" /\ pc' = [pc EXCEPT ![m] = "published"]
      /\ pc \in [Messages -> {"unsent", "begun", "saved", "published", "unpublished", "failed"}]
      /\ live' = live /\ at' = at
      /\ \A c \in Clients : at[c] # Away => at[c] \in Instances
      /\ \A i \in Instances : channel[i] \in Seq(Messages)
      /\ \A c \in Clients : live[c] \in Seq(Messages)
  BY <1>9 DEF Publish, clientVars, TypeOK
<1>1. ASSUME NEW i \in Instances
      PROVE  channel'[i] = channel[i] \/ channel'[i] = Append(channel[i], m)
  BY DEF Publish
<1>2. ASSUME NEW c \in Clients
      PROVE  Stream(c)' = Stream(c) \/ Stream(c)' = Append(Stream(c), m)
  <2>1. CASE at[c] = Away
    BY <1>0, <2>1 DEF Stream
  <2>2. CASE at[c] # Away
    <3>1. Stream(c)' = live[c] \o channel'[at[c]] /\ Stream(c) = live[c] \o channel[at[c]]
      BY <1>0, <2>2 DEF Stream
    <3> QED BY <1>0, <1>1, <2>2, <3>1, PutBehind
  <2> QED BY <2>1, <2>2
<1>3. ASSUME NEW v \in Streams' PROVE \E s \in Streams : v = s \/ v = Append(s, m)
  <2>1. ASSUME NEW c \in Clients, v = Stream(c)' PROVE \E s \in Streams : v = s \/ v = Append(s, m)
    BY <1>2, <2>1 DEF Streams
  <2>2. ASSUME NEW i \in Instances, v = channel'[i]
        PROVE  \E s \in Streams : v = s \/ v = Append(s, m)
    BY <1>1, <2>2 DEF Streams
  <2> QED BY <2>1, <2>2 DEF Streams
<1>4. ASSUME NEW s \in Streams, NEW n \in 1..Len(s) PROVE s[n] # m
  BY <1>0 DEF OrderInv, Published
<1>5. ASSUME NEW v \in Streams', NEW w \in Streams' PROVE Agree(v, w)
  <2>1. PICK s \in Streams : v = s \/ v = Append(s, m)
    BY <1>3
  <2>2. PICK t \in Streams : w = t \/ w = Append(t, m)
    BY <1>3
  <2>3. Agree(s, t) /\ s \in Seq(Messages) /\ t \in Seq(Messages)
    BY <1>0 DEF OrderInv
  <2> QED BY <1>4, <2>1, <2>2, <2>3, AgreeAppend
<1>6. ASSUME NEW v \in Streams', NEW n \in 1..Len(v) PROVE pc'[v[n]] = "published"
  <2>1. PICK s \in Streams : v = s \/ v = Append(s, m)
    BY <1>3
  <2>2. s \in Seq(Messages) /\ Len(s) \in Nat
    BY <1>0, LenProperties
  <2>3. (n \in 1..Len(s) /\ v[n] = s[n]) \/ v[n] = m
    BY <2>1, <2>2, AppendProperties
  <2>4. CASE n \in 1..Len(s) /\ v[n] = s[n]
    <3>1. pc[s[n]] = "published" /\ s[n] \in Messages
      BY <2>2, <2>4, ElementOfSeq DEF OrderInv, Published
    <3> QED BY <1>0, <2>4, <3>1
  <2> QED BY <1>0, <2>3, <2>4
<1> QED BY <1>0, <1>5, <1>6 DEF OrderInv, Published

\* Every other step at most shortens streams.
LEMMA OrderStep ==
  ASSUME TypeOK, TypeOK', OrderInv, [Next]_vars
  PROVE  OrderInv'
<1>0. /\ \A c \in Clients : at[c] # Away => at[c] \in Instances
      /\ \A i \in Instances : channel[i] \in Seq(Messages)
      /\ \A c \in Clients : live[c] \in Seq(Messages)
      /\ at \in [Clients -> Instances \cup {Away}] /\ live \in [Clients -> Seq(Messages)]
      /\ channel \in [Instances -> Seq(Messages)] /\ Away \notin Instances
      /\ pc \in [Messages -> {"unsent", "begun", "saved", "published", "unpublished", "failed"}]
      /\ \A c \in Clients : Stream(c) \in Seq(Messages)
      /\ \A c \in Clients : at[c] = Away => live[c] = <<>>
  BY AwayAssumption, StreamType DEF TypeOK, OrderInv
<1>1. ASSUME \A m \in Messages : pc[m] = "published" => pc'[m] = "published",
             \A c \in Clients : at'[c] = Away => live'[c] = <<>>,
             \A c \in Clients : \E s \in Streams : Within(Stream(c)', s),
             \A i \in Instances : \E s \in Streams : Within(channel'[i], s)
      PROVE  OrderInv'
  <2>1. \A v \in Streams' : \E s \in Streams : Within(v, s)
    BY <1>1 DEF Streams
  <2> QED BY <1>1, <2>1, OrderShorter
<1>2. ASSUME NEW c \in Clients, Stream(c)' = Stream(c)
      PROVE  \E s \in Streams : Within(Stream(c)', s)
  BY <1>0, <1>2, WithinSelf DEF Streams
<1>3. ASSUME NEW i \in Instances, channel'[i] = channel[i]
      PROVE  \E s \in Streams : Within(channel'[i], s)
  BY <1>0, <1>3, WithinSelf DEF Streams
<1>4. ASSUME UNCHANGED <<at, live, channel>>,
             \A m \in Messages : pc[m] = "published" => pc'[m] = "published"
      PROVE  OrderInv'
  <2>1. \A c \in Clients : Stream(c)' = Stream(c)
    BY <1>4 DEF Stream
  <2> QED BY <1>0, <1>1, <1>2, <1>3, <1>4, <2>1
<1>5. CASE UNCHANGED vars \/ Tick
  BY <1>4, <1>5 DEF vars, Tick, clientVars
<1>6. ASSUME NEW m \in Messages, BeginSave(m) \/ CommitSave(m) \/ PublishFails(m)
      PROVE  OrderInv'
  BY <1>0, <1>4, <1>6 DEF BeginSave, CommitSave, PublishFails, clientVars
<1>7. ASSUME NEW c \in Clients, SyncMessages(c) \/ GetMessages(c) PROVE OrderInv'
  BY <1>4, <1>7 DEF SyncMessages, GetMessages
<1>8. ASSUME NEW i \in Instances, Resubscribe(i) PROVE OrderInv'
  BY <1>4, <1>8 DEF Resubscribe, clientVars
<1>9. ASSUME NEW i \in Instances, HandleChannel(i) PROVE OrderInv'
  <2>1. /\ channel[i] # <<>> /\ channel' = [channel EXCEPT ![i] = Tail(@)]
        /\ pc' = pc /\ at' = at
        /\ \A c \in Clients : live'[c] =
             IF at[c] = i THEN Append(live[c], Head(channel[i])) ELSE live[c]
    BY <1>9 DEF HandleChannel
  <2>2. ASSUME NEW c \in Clients PROVE Stream(c)' = Stream(c)
    <3>1. CASE at[c] = i
      <4>1. Stream(c)' = Append(live[c], Head(channel[i])) \o Tail(channel[i])
        BY <1>0, <2>1, <3>1 DEF Stream
      <4> QED BY <1>0, <2>1, <3>1, <4>1, HandOn DEF Stream
    <3>2. CASE at[c] # i
      BY <1>0, <2>1, <3>2 DEF Stream
    <3> QED BY <3>1, <3>2
  <2>3. ASSUME NEW j \in Instances PROVE \E s \in Streams : Within(channel'[j], s)
    <3>1. CASE j = i
      <4>1. Within(channel'[i], channel[i]) /\ channel[i] \in Streams
        BY <1>0, <2>1, WithinSelf DEF Streams
      <4> QED BY <3>1, <4>1
    <3>2. CASE j # i
      BY <1>0, <1>3, <2>1, <3>2
    <3> QED BY <3>1, <3>2
  <2>4. \A c \in Clients : at'[c] = Away => live'[c] = <<>>
    BY <1>0, <2>1
  <2> QED BY <1>1, <1>2, <2>1, <2>2, <2>3, <2>4
<1>10. ASSUME NEW c \in Clients, NEW i \in Instances, JoinChat(c, i) PROVE OrderInv'
  <2>1. /\ at[c] = Away /\ at' = [at EXCEPT ![c] = i]
        /\ pc' = pc /\ channel' = channel /\ live' = live
    BY <1>10 DEF JoinChat, rowVars
  <2>2. ASSUME NEW d \in Clients PROVE \E s \in Streams : Within(Stream(d)', s)
    <3>1. CASE d = c
      <4>1. Stream(c)' = channel[i]
        <5>1. Stream(c)' = <<>> \o channel[i]
          BY <1>0, <2>1 DEF Stream
        <5> QED BY <1>0, <5>1, ConcatEmptySeq
      <4> QED BY <1>0, <3>1, <4>1, WithinSelf DEF Streams
    <3>2. CASE d # c
      <4>1. Stream(d)' = Stream(d)
        BY <1>0, <2>1, <3>2 DEF Stream
      <4> QED BY <1>2, <4>1
    <3> QED BY <3>1, <3>2
  <2> QED BY <1>0, <1>1, <1>3, <2>1, <2>2
<1>11. ASSUME NEW c \in Clients, LeaveChat(c) PROVE OrderInv'
  <2>1. /\ at' = [at EXCEPT ![c] = Away] /\ live' = [live EXCEPT ![c] = <<>>]
        /\ pc' = pc /\ channel' = channel
    BY <1>11 DEF LeaveChat, rowVars
  <2>2. ASSUME NEW d \in Clients PROVE \E s \in Streams : Within(Stream(d)', s)
    <3>1. CASE d = c
      <4>1. Stream(c)' = <<>>
        BY <1>0, <2>1 DEF Stream
      <4> QED BY <1>0, <3>1, <4>1, WithinFront DEF Streams
    <3>2. CASE d # c
      <4>1. Stream(d)' = Stream(d)
        BY <1>0, <2>1, <3>2 DEF Stream
      <4> QED BY <1>2, <4>1
    <3> QED BY <3>1, <3>2
  <2> QED BY <1>0, <1>1, <1>3, <2>1, <2>2
<1>12. ASSUME NEW i \in Instances, LoseSubscription(i) \/ Crash(i) PROVE OrderInv'
  <2>1. /\ channel' = [channel EXCEPT ![i] = <<>>]
        /\ \A d \in Clients : at[d] # i => at'[d] = at[d] /\ live'[d] = live[d]
        /\ \A d \in Clients : at[d] = i =>
             (at'[d] = Away /\ live'[d] = <<>>) \/ (at'[d] = i /\ live'[d] = live[d])
    BY <1>0, <1>12 DEF LoseSubscription, Crash
  <2>2. \A m \in Messages : pc[m] = "published" => pc'[m] = "published"
    BY <1>0, <1>12 DEF LoseSubscription, Crash
  <2>3. ASSUME NEW d \in Clients PROVE \E s \in Streams : Within(Stream(d)', s)
    <3>1. CASE at[d] # i
      <4>1. Stream(d)' = Stream(d)
        BY <1>0, <2>1, <3>1 DEF Stream
      <4> QED BY <1>2, <4>1
    <3>2. CASE at[d] = i /\ at'[d] = Away
      <4>1. Stream(d)' = <<>>
        BY <3>2 DEF Stream
      <4> QED BY <1>0, <4>1, WithinFront DEF Streams
    <3>3. CASE at[d] = i /\ at'[d] # Away
      <4>1. Stream(d)' = live[d] \o <<>> /\ Stream(d) = live[d] \o channel[i]
        BY <1>0, <2>1, <3>3 DEF Stream
      <4>2. Within(Stream(d)', Stream(d)) /\ Stream(d) \in Streams
        BY <1>0, <4>1, WithinFront DEF Streams
      <4> QED BY <4>2
    <3> QED BY <3>1, <3>2, <3>3
  <2>4. ASSUME NEW j \in Instances PROVE \E s \in Streams : Within(channel'[j], s)
    <3>1. CASE j = i
      <4>1. channel'[j] = <<>> /\ channel[j] \in Streams
        BY <1>0, <2>1, <3>1 DEF Streams
      <4> QED BY <1>0, <4>1, WithinFront
    <3>2. CASE j # i
      BY <1>0, <1>3, <2>1, <3>2
    <3> QED BY <3>1, <3>2
  <2>5. \A d \in Clients : at'[d] = Away => live'[d] = <<>>
    BY <1>0, <2>1
  <2> QED BY <1>1, <2>2, <2>3, <2>4, <2>5
<1> QED
  BY <1>5, <1>6, <1>7, <1>8, <1>9, <1>10, <1>11, <1>12, OrderPublish
     DEF Next, Send, Follow, Serve

\* Clients that stay get the messages live in one order and none twice, on whatever
\* instances they are and whichever of these fail and come back: all they get are
\* stretches of the one order in which Redis took the publications.
THEOREM LiveInOneOrder == Spec => []SameOrder
<1>1. Init => OrderInv
  <2> SUFFICES ASSUME Init PROVE OrderInv
    OBVIOUS
  <2>1. \A s \in Streams : Len(s) = 0
    BY DEF Init, Streams, Stream
  <2> QED BY <2>1 DEF Init, OrderInv, Published, Agree
<1>2. TypeOK /\ TypeOK' /\ OrderInv /\ [Next]_vars => OrderInv'
  BY OrderStep
<1>3. TypeOK /\ OrderInv => SameOrder
  <2> SUFFICES ASSUME TypeOK, OrderInv, NEW c \in Clients, NEW d \in Clients
               PROVE  Agree(live[c], live[d])
    BY DEF SameOrder, Agree
  <2>1. ASSUME NEW e \in Clients PROVE Within(live[e], Stream(e)) /\ Stream(e) \in Streams
    <3>1. CASE at[e] = Away
      BY <3>1, EmptySeq, WithinFront DEF OrderInv, Stream, Streams
    <3>2. CASE at[e] # Away
      <4>1. live[e] \in Seq(Messages) /\ channel[at[e]] \in Seq(Messages)
        BY <3>2 DEF TypeOK
      <4> QED BY <3>2, <4>1, WithinFront DEF Stream, Streams
    <3> QED BY <3>1, <3>2
  <2>2. Agree(Stream(c), Stream(d))
    BY <2>1 DEF OrderInv
  <2>3. live[c] \in Seq(Messages) /\ live[d] \in Seq(Messages)
    BY DEF TypeOK
  <2> QED BY <2>1, <2>2, <2>3, StreamType, AgreeWithin
<1> QED BY <1>1, <1>2, <1>3, ChatTyped, PTL DEF Spec

=============================================================================
