--------------------------------- MODULE Chat ---------------------------------
(***************************************************************************)
(* One conversation: ChatGateway and ChatService on several instances of the *)
(* server.  A message is inserted in a transaction that stamps it when it     *)
(* begins, then published on the channel chat-messages of Redis; every         *)
(* instance takes the channel's messages in order and emits each to those of  *)
(* its clients that joined the chat.  A client that comes back asks for what   *)
(* was sent after the latest message it has.  Receipts are in Receipts.        *)
(*                                                                         *)
(* Time counts microseconds, the unit of the database; a client's timestamps  *)
(* are cut to Grain of them, a millisecond.                                  *)
(***************************************************************************)
EXTENDS Naturals, Sequences, FiniteSets

CONSTANTS
  Messages,
  Clients,
  Author,      \* who sends each message
  Instances,   \* the server's processes
  Routes,      \* which instances a client's connection may reach: pairs of the two
  Away,        \* "at no instance"
  Never,       \* "has not caught up"
  Grain,       \* units of the database's clock to a millisecond
  Limit,       \* messages a page of the history holds
  MaxTime,     \* bound on the clock
  MaxFaults    \* bound on rejected publications, lost subscriptions and crashes

ASSUME AuthorAssumption == Author \in [Messages -> Clients]
ASSUME AwayAssumption == Away \notin Instances /\ Never \notin Nat
ASSUME RoutesAssumption == Routes \subseteq Clients \X Instances
ASSUME NumbersAssumption ==
  Grain \in Nat \ {0} /\ Limit \in Nat \ {0} /\ MaxTime \in Nat /\ MaxFaults \in Nat

VARIABLES
  time,
  pc,          \* per message, where its sendMessage is
  via,         \* per message, the instance that handles it
  sentAt,      \* per message, the column of that name
  channel,     \* per instance, what Redis has sent it and it has not handled
  subscribed,  \* the instances with a subscription
  at,          \* per client, the instance where it is in the room of the chat
  seen,        \* per client, the messages it has
  live,        \* per client, those it got as newMessage since it joined, in order
  since,       \* history: per client, the sentAt it last caught up from in the room,
               \*   if its instance has not lost its subscription since
  faults       \* how many faults have happened

vars == <<time, pc, via, sentAt, channel, subscribed, at, seen, live,
          since, faults>>
clientVars == <<at, seen, live, since>>
rowVars == <<via, sentAt>>

TypeOK ==
  /\ time \in 1..(MaxTime + 1)
  /\ pc \in [Messages -> {"unsent", "begun", "saved", "published", "unpublished", "failed"}]
  /\ via \in [Messages -> Instances \cup {Away}]
  /\ sentAt \in [Messages -> 0..(MaxTime + 1)]
  /\ channel \in [Instances -> Seq(Messages)]
  /\ subscribed \in SUBSET Instances
  /\ at \in [Clients -> Instances \cup {Away}]
  /\ seen \in [Clients -> SUBSET Messages]
  /\ live \in [Clients -> Seq(Messages)]
  /\ since \in [Clients -> (0..(MaxTime + 1)) \cup {Never}]
  /\ faults \in 0..MaxFaults

Init ==
  /\ time = 1
  /\ pc = [m \in Messages |-> "unsent"]
  /\ via = [m \in Messages |-> Away]
  /\ sentAt = [m \in Messages |-> 0]
  /\ channel = [i \in Instances |-> <<>>]
  /\ subscribed = Instances
  /\ at = [c \in Clients |-> Away]
  /\ seen = [c \in Clients |-> {}]
  /\ live = [c \in Clients |-> <<>>]
  /\ since = [c \in Clients |-> Never]
  /\ faults = 0

----------------------------------------------------------------------------
\* The rows a query can return: those whose insertion has committed.
Stored == {m \in Messages : pc[m] \in {"saved", "published", "unpublished"}}

\* The latest sentAt a client knows of, or a time before them all.
Latest(c) ==
  IF seen[c] = {} THEN 0
  ELSE sentAt[CHOOSE m \in seen[c] : \A n \in seen[c] : sentAt[n] <= sentAt[m]]

CaughtUp(c) == since[c] # Never

\* The clients of an instance have to catch up anew.
Interrupt(i) == since' = [c \in Clients |-> IF at[c] = i THEN Never ELSE since[c]]

Fault == faults < MaxFaults /\ faults' = faults + 1

----------------------------------------------------------------------------
\* Bugs this code could have had: each stands in for the definition of the
\* same parameters in a mutation of a run, and is used nowhere else.

\* The clients of the instance get the message at once, and the others by Redis.
Publish_LocalFirst(m) ==
  /\ pc[m] = "saved"
  /\ pc' = [pc EXCEPT ![m] = "published"]
  /\ channel' = [i \in Instances |->
       IF i \in subscribed \ {via[m]} THEN Append(channel[i], m) ELSE channel[i]]
  /\ seen' = [c \in Clients |-> IF at[c] = via[m] THEN seen[c] \cup {m} ELSE seen[c]]
  /\ live' = [c \in Clients |-> IF at[c] = via[m] THEN Append(live[c], m) ELSE live[c]]
  /\ UNCHANGED <<time, rowVars, subscribed, at, since, faults>>

\* Only the instance that handled the message hears of it.
Publish_OneInstance(m) ==
  /\ pc[m] = "saved"
  /\ pc' = [pc EXCEPT ![m] = "published"]
  /\ channel' = [i \in Instances |->
       IF i \in subscribed \cap {via[m]} THEN Append(channel[i], m) ELSE channel[i]]
  /\ UNCHANGED <<time, rowVars, subscribed, clientVars, faults>>

\* The timestamp is rounded up.
Floor_Up(t) == t + ((Grain - (t % Grain)) % Grain)

\* A message is stamped by a clock that is ahead.
BeginSave_SkewedClock(m) ==
  /\ pc[m] = "unsent" /\ at[Author[m]] # Away
  /\ pc' = [pc EXCEPT ![m] = "begun"]
  /\ via' = [via EXCEPT ![m] = at[Author[m]]]
  /\ sentAt' = [sentAt EXCEPT ![m] = time + 1]
  /\ UNCHANGED <<time, channel, subscribed, clientVars, faults>>

----------------------------------------------------------------------------
\* sendMessage.

Tick ==
  /\ time <= MaxTime
  /\ time' = time + 1
  /\ UNCHANGED <<pc, rowVars, channel, subscribed, clientVars, faults>>

\* saveMessage: the transaction starts, and with it the value of now().
BeginSave(m) ==
  /\ pc[m] = "unsent" /\ at[Author[m]] # Away
  /\ pc' = [pc EXCEPT ![m] = "begun"]
  /\ via' = [via EXCEPT ![m] = at[Author[m]]]
  /\ sentAt' = [sentAt EXCEPT ![m] = time]
  /\ UNCHANGED <<time, channel, subscribed, clientVars, faults>>

CommitSave(m) ==
  /\ pc[m] = "begun"
  /\ pc' = [pc EXCEPT ![m] = "saved"]
  /\ UNCHANGED <<time, rowVars, channel, subscribed, clientVars, faults>>

\* The publication, which every subscribed instance gets.
Publish(m) ==
  /\ pc[m] = "saved"
  /\ pc' = [pc EXCEPT ![m] = "published"]
  /\ channel' = [i \in Instances |->
       IF i \in subscribed THEN Append(channel[i], m) ELSE channel[i]]
  /\ UNCHANGED <<time, rowVars, subscribed, clientVars, faults>>

\* Redis refuses it: the handler throws, the message stays saved.
PublishFails(m) ==
  /\ pc[m] = "saved" /\ Fault
  /\ pc' = [pc EXCEPT ![m] = "unpublished"]
  /\ UNCHANGED <<time, rowVars, channel, subscribed, clientVars>>

\* The handler of the channel: newMessage to the room, the author included.
HandleChannel(i) ==
  /\ channel[i] # <<>>
  /\ LET m == Head(channel[i]) IN
       /\ seen' = [c \in Clients |-> IF at[c] = i THEN seen[c] \cup {m} ELSE seen[c]]
       /\ live' = [c \in Clients |-> IF at[c] = i THEN Append(live[c], m) ELSE live[c]]
  /\ channel' = [channel EXCEPT ![i] = Tail(@)]
  /\ UNCHANGED <<time, pc, rowVars, subscribed, at, since, faults>>

----------------------------------------------------------------------------
\* Clients come, catch up and go.

JoinChat(c, i) ==
  /\ at[c] = Away /\ <<c, i>> \in Routes
  /\ at' = [at EXCEPT ![c] = i]
  /\ UNCHANGED <<time, pc, rowVars, channel, subscribed, seen, live, since, faults>>

\* leaveChat, or the end of the socket; a sendMessage in flight goes on.
LeaveChat(c) ==
  /\ at[c] # Away
  /\ at' = [at EXCEPT ![c] = Away]
  /\ live' = [live EXCEPT ![c] = <<>>]
  /\ since' = [since EXCEPT ![c] = Never]
  /\ UNCHANGED <<time, pc, rowVars, channel, subscribed, seen, faults>>

\* toISOString keeps milliseconds.
Floor(t) == t - (t % Grain)

\* syncMessages, getMessagesSince: MoreThan compares with the cut timestamp.
SyncMessages(c) ==
  /\ at[c] # Away
  /\ since' = IF at[c] \in subscribed THEN [since EXCEPT ![c] = Latest(c)] ELSE since
  /\ seen' = [seen EXCEPT ![c] = @ \cup {m \in Stored : sentAt[m] > Floor(Latest(c))}]
  /\ UNCHANGED <<time, pc, rowVars, channel, subscribed, at, live, faults>>

\* The latest messages; which of two sent at the same time, is open.
LatestPages ==
  {page \in SUBSET Stored :
     /\ Cardinality(page) = (IF Cardinality(Stored) < Limit THEN Cardinality(Stored) ELSE Limit)
     /\ \A m \in page, n \in Stored \ page : sentAt[n] <= sentAt[m]}

\* getMessages.
GetMessages(c) ==
  /\ at[c] # Away
  /\ \E page \in LatestPages : seen' = [seen EXCEPT ![c] = @ \cup page]
  /\ UNCHANGED <<time, pc, rowVars, channel, subscribed, at, live, since, faults>>

----------------------------------------------------------------------------
\* Faults.

\* The connection of an instance's subscription breaks; Redis keeps nothing for it.
LoseSubscription(i) ==
  /\ i \in subscribed /\ Fault
  /\ subscribed' = subscribed \ {i}
  /\ channel' = [channel EXCEPT ![i] = <<>>]
  /\ Interrupt(i)
  /\ UNCHANGED <<time, pc, rowVars, at, seen, live>>

Resubscribe(i) ==
  /\ i \notin subscribed
  /\ subscribed' = subscribed \cup {i}
  /\ UNCHANGED <<time, pc, rowVars, channel, clientVars, faults>>

\* An instance dies and is restarted: its clients are cut off, its calls end where
\* they are, a transaction that has begun commits or does not.
Crash(i) ==
  /\ Fault
  /\ \E survives \in SUBSET {m \in Messages : pc[m] = "begun" /\ via[m] = i} :
       pc' = [m \in Messages |->
         IF via[m] = i /\ (pc[m] = "saved" \/ m \in survives) THEN "unpublished"
         ELSE IF via[m] = i /\ pc[m] = "begun" THEN "failed"
         ELSE pc[m]]
  /\ channel' = [channel EXCEPT ![i] = <<>>]
  /\ at' = [c \in Clients |-> IF at[c] = i THEN Away ELSE at[c]]
  /\ live' = [c \in Clients |-> IF at[c] = i THEN <<>> ELSE live[c]]
  /\ Interrupt(i)
  /\ UNCHANGED <<time, rowVars, subscribed, seen>>

----------------------------------------------------------------------------
Send(m) == BeginSave(m) \/ CommitSave(m) \/ Publish(m) \/ PublishFails(m)

Follow(c) ==
  \/ \E i \in Instances : JoinChat(c, i)
  \/ LeaveChat(c) \/ SyncMessages(c) \/ GetMessages(c)

Serve(i) == HandleChannel(i) \/ LoseSubscription(i) \/ Resubscribe(i) \/ Crash(i)

Next ==
  \/ Tick
  \/ \E m \in Messages : Send(m)
  \/ \E c \in Clients : Follow(c)
  \/ \E i \in Instances : Serve(i)

Spec == Init /\ [][Next]_vars

\* The server goes on with the calls it has taken and with what Redis sends it.
FairSpec ==
  /\ Spec
  /\ \A m \in Messages : WF_vars(CommitSave(m)) /\ WF_vars(Publish(m) \/ PublishFails(m))
  /\ \A i \in Instances : WF_vars(HandleChannel(i))

----------------------------------------------------------------------------
\* Properties.

Elements(s) == {s[j] : j \in 1..Len(s)}

\* A client that has caught up in the room has every published message that its
\* instance is not still to handle, but for those stamped no later than the latest
\* message it caught up from: their transaction began before that one's, and
\* committed after it.  No interleaving of joining, catching up, publication and
\* delivery, no cutting of timestamps, and no fault elsewhere makes it miss another.
OnlyOvertakenMissed ==
  \A c \in Clients, m \in Messages :
    CaughtUp(c) /\ pc[m] = "published" /\ m \notin seen[c] /\ m \notin Elements(channel[at[c]])
      => sentAt[m] <= since[c]

\* While they stay in the room, clients get the messages live in the same order, on
\* whatever instances they are, the author too, and none of them twice.
SameOrder ==
  \A c, d \in Clients : \A i, j \in 1..Len(live[c]), k, l \in 1..Len(live[d]) :
    i < j /\ live[c][i] = live[d][k] /\ live[c][j] = live[d][l] => k < l

\* A saved message reaches every client that has caught up and stays in the room,
\* unless Redis refuses it or the instance that took it dies.
SentIsReceived ==
  \A m \in Messages, c \in Clients :
    pc[m] = "saved" /\ CaughtUp(c) ~> m \in seen[c] \/ ~CaughtUp(c) \/ pc[m] = "unpublished"
=============================================================================
