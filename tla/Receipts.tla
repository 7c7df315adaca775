------------------------------- MODULE Receipts -------------------------------
(***************************************************************************)
(* Receipts of messages: markDelivered and markRead of ChatGateway.  Each is    *)
(* one UPDATE of the database, by whatever connection of the pool is free, and  *)
(* then an event to the others in the room of the chat, of the same instance:   *)
(* two calls of a client may overtake each other.  Neither handler looks at who *)
(* asks, nor whether there are such messages.                                  *)
(***************************************************************************)
EXTENDS Naturals, FiniteSets

CONSTANTS
  Messages,   \* messages, whoever wrote them
  Unknown,    \* ids of no message
  Clients,
  Instances,
  MaxMarks    \* bound on the calls in flight at once

Ids == Messages \cup Unknown
Kinds == {"delivered", "read"}
Marks ==
  [by : Clients, kind : Kinds, msgs : SUBSET Ids, via : Instances, updated : BOOLEAN]

VARIABLES
  status,   \* per message, the column of that name
  stamped,  \* per message, which of deliveredAt and readAt are set
  room,     \* per instance, the clients in the room of the chat
  marks,    \* calls in flight
  told      \* receipts that some client got

receiptVars == <<status, stamped, room, marks, told>>

TypeOK ==
  /\ status \in [Messages -> {"SENT", "DELIVERED", "READ"}]
  /\ stamped \in [Messages -> SUBSET Kinds]
  /\ room \in [Instances -> SUBSET Clients]
  /\ marks \in SUBSET Marks
  /\ told \in SUBSET (Kinds \X Ids)

Init ==
  /\ status = [m \in Messages |-> "SENT"]
  /\ stamped = [m \in Messages |-> {}]
  /\ room = [i \in Instances |-> {}]
  /\ marks = {}
  /\ told = {}

\* The others in the room, if any, get the event with all the ids it was asked with.
Tell(k) == told' = IF room[k.via] \subseteq {k.by} THEN told ELSE told \cup ({k.kind} \X k.msgs)

----------------------------------------------------------------------------
\* Bugs this code could have had: each stands in for the definition of the same
\* parameters in a mutation of a run, and is used nowhere else.

\* The event's word for a receipt is written to the column of the status.
Update_KindAsStatus(k) ==
  /\ ~k.updated
  /\ status' = [m \in Messages |-> IF m \in k.msgs THEN k.kind ELSE status[m]]
  /\ stamped' = [m \in Messages |->
       IF m \in k.msgs THEN stamped[m] \cup {k.kind} ELSE stamped[m]]
  /\ marks' = (marks \ {k}) \cup {[k EXCEPT !.updated = TRUE]}
  /\ UNCHANGED <<room, told>>

\* The others are told without waiting for the update.
Emit_AtOnce(k) ==
  /\ Tell(k)
  /\ marks' = marks \ {k}
  /\ UNCHANGED <<status, stamped, room>>

----------------------------------------------------------------------------
\* joinChat, and leaveChat or the end of the socket.
Join(c, i) == room' = [room EXCEPT ![i] = @ \cup {c}] /\ UNCHANGED <<status, stamped, marks, told>>
Leave(c, i) == room' = [room EXCEPT ![i] = @ \ {c}] /\ UNCHANGED <<status, stamped, marks, told>>

\* A client says that it got, or that it read, the messages of these ids.  An empty
\* list is refused by the database layer, as an update without a criterion.
Ask(c, kind, msgs, i) ==
  /\ msgs # {}
  /\ Cardinality(marks) < MaxMarks
  /\ marks' = marks \cup
       {[by |-> c, kind |-> kind, msgs |-> msgs, via |-> i, updated |-> FALSE]}
  /\ UNCHANGED <<status, stamped, room, told>>

\* markAsDelivered, markAsRead: one UPDATE, whatever the status was.
Update(k) ==
  /\ ~k.updated
  /\ status' = [m \in Messages |->
       IF m \in k.msgs THEN IF k.kind = "read" THEN "READ" ELSE "DELIVERED" ELSE status[m]]
  /\ stamped' = [m \in Messages |->
       IF m \in k.msgs THEN stamped[m] \cup {k.kind} ELSE stamped[m]]
  /\ marks' = (marks \ {k}) \cup {[k EXCEPT !.updated = TRUE]}
  /\ UNCHANGED <<room, told>>

\* The update fails: the handler throws, and nobody is told.
UpdateFails(k) ==
  /\ ~k.updated
  /\ marks' = marks \ {k}
  /\ UNCHANGED <<status, stamped, room, told>>

\* messageDelivered, messagesRead.
Emit(k) ==
  /\ k.updated
  /\ Tell(k)
  /\ marks' = marks \ {k}
  /\ UNCHANGED <<status, stamped, room>>

Next ==
  \/ \E c \in Clients, i \in Instances :
       \/ Join(c, i) \/ Leave(c, i)
       \/ \E kind \in Kinds, msgs \in SUBSET Ids : Ask(c, kind, msgs, i)
  \/ \E k \in marks : Update(k) \/ UpdateFails(k) \/ Emit(k)

Spec == Init /\ [][Next]_receiptVars

----------------------------------------------------------------------------
\* Properties.

\* Whoever is told that a message was delivered or read, if there is such a message,
\* finds it so in the database; and a message is unread exactly as long as it has no receipt, in
\* whatever order receipts overtake one another: getUnreadCount, which counts SENT,
\* never misses one nor counts one that was read.
ReceiptsTrue ==
  /\ \A r \in told : r[2] \in Messages => r[1] \in stamped[r[2]]
  /\ \A m \in Messages : stamped[m] = {} <=> status[m] = "SENT"
=============================================================================
