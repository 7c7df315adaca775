---------------------------- MODULE Records_proofs ----------------------------
(***************************************************************************)
(* Machine-checked proofs about Receipts, Payments and Earnings, for any number *)
(* of messages, clients, bookings, earnings and calls; together they are       *)
(* Records, whose theorems follow from theirs.                                *)
(***************************************************************************)
EXTENDS Records, TLAPS

----------------------------------------------------------------------------
\* Receipts.

\* Handlers that have updated the rows stand for receipts that are there.
ReceiptInv ==
  /\ Marking!TypeOK
  /\ Marking!ReceiptsTrue
  /\ \A k \in marks : k.updated => \A m \in k.msgs \cap Messages : k.kind \in stamped[m]

\* Before the first call there is no receipt.
LEMMA ReceiptInit == Marking!Init => ReceiptInv
BY DEF Marking!Init, ReceiptInv, Marking!TypeOK, Marking!ReceiptsTrue, Marking!Kinds

\* No call, failure or end of a connection makes a receipt untrue.
LEMMA ReceiptStep == ReceiptInv /\ [Marking!Next]_(Marking!receiptVars) => ReceiptInv'
<1> SUFFICES ASSUME ReceiptInv, [Marking!Next]_(Marking!receiptVars) PROVE ReceiptInv'
  OBVIOUS
<1> USE DEF ReceiptInv, Marking!TypeOK, Marking!ReceiptsTrue
<1>1. ASSUME NEW c \in Clients, NEW i \in Instances, Marking!Join(c, i) \/ Marking!Leave(c, i)
      PROVE  ReceiptInv'
  <2>1. UNCHANGED <<status, stamped, marks, told>>
    BY <1>1 DEF Marking!Join, Marking!Leave
  <2>2. room' \in [Instances -> SUBSET Clients]
    BY <1>1 DEF Marking!Join, Marking!Leave
  <2> QED BY <2>1, <2>2
<1>2. ASSUME NEW c \in Clients, NEW i \in Instances, NEW kind \in Marking!Kinds,
             NEW msgs \in SUBSET Marking!Ids, Marking!Ask(c, kind, msgs, i)
      PROVE  ReceiptInv'
  <2> DEFINE k == [by |-> c, kind |-> kind, msgs |-> msgs, via |-> i, updated |-> FALSE]
  <2>1. k \in Marking!Marks /\ ~k.updated
    BY DEF Marking!Marks
  <2>2. marks' = marks \cup {k} /\ UNCHANGED <<status, stamped, room, told>>
    BY <1>2 DEF Marking!Ask
  <2> HIDE DEF k
  <2> QED BY <2>1, <2>2
<1>3. ASSUME NEW k \in marks, Marking!Update(k) PROVE ReceiptInv'
  <2> DEFINE u == [k EXCEPT !.updated = TRUE]
  <2>1. /\ k \in Marking!Marks /\ u \in Marking!Marks
        /\ u.kind = k.kind /\ u.msgs = k.msgs /\ k.kind \in Marking!Kinds
    <3>1. k \in Marking!Marks
      OBVIOUS
    <3> QED BY <3>1 DEF Marking!Marks
  <2>2. /\ marks' = (marks \ {k}) \cup {u} /\ UNCHANGED <<room, told>>
        /\ status' = [m \in Messages |->
             IF m \in k.msgs THEN IF k.kind = "read" THEN "READ" ELSE "DELIVERED" ELSE status[m]]
        /\ stamped' = [m \in Messages |->
             IF m \in k.msgs THEN stamped[m] \cup {k.kind} ELSE stamped[m]]
    BY <1>3 DEF Marking!Update
  <2> HIDE DEF u
  <2>3. Marking!TypeOK'
    BY <2>1, <2>2
  <2>4. \A m \in Messages : /\ stamped[m] \subseteq stamped'[m]
                            /\ m \in k.msgs => k.kind \in stamped'[m] /\ status'[m] # "SENT"
                            /\ m \notin k.msgs =>
                                 stamped'[m] = stamped[m] /\ status'[m] = status[m]
    BY <2>2
  <2>5. Marking!ReceiptsTrue'
    <3>1. \A r \in told' : r[2] \in Messages => r[1] \in stamped'[r[2]]
      BY <2>2, <2>4
    <3>2. \A m \in Messages : stamped'[m] = {} <=> status'[m] = "SENT"
      BY <2>4
    <3> QED BY <3>1, <3>2
  <2>6. \A j \in marks' : j.updated => \A m \in j.msgs \cap Messages : j.kind \in stamped'[m]
    BY <2>1, <2>2, <2>4
  <2> QED BY <2>3, <2>5, <2>6
<1>4. ASSUME NEW k \in marks, Marking!UpdateFails(k) PROVE ReceiptInv'
  BY <1>4 DEF Marking!UpdateFails
<1>5. ASSUME NEW k \in marks, Marking!Emit(k) PROVE ReceiptInv'
  <2>1. k \in Marking!Marks /\ k.updated
    BY <1>5 DEF Marking!Emit
  <2>2. /\ told' \subseteq told \cup ({k.kind} \X k.msgs)
        /\ marks' = marks \ {k} /\ UNCHANGED <<status, stamped, room>>
    BY <1>5 DEF Marking!Emit, Marking!Tell
  <2>3. k.kind \in Marking!Kinds /\ k.msgs \in SUBSET Marking!Ids
    BY <2>1 DEF Marking!Marks
  <2>4. told' \in SUBSET (Marking!Kinds \X Marking!Ids)
    BY <2>2, <2>3
  <2>5. \A r \in told' : r[2] \in Messages => r[1] \in stamped[r[2]]
    BY <2>1, <2>2
  <2> QED BY <2>2, <2>4, <2>5
<1>6. CASE UNCHANGED Marking!receiptVars
  BY <1>6 DEF Marking!receiptVars
<1> QED BY <1>1, <1>2, <1>3, <1>4, <1>5, <1>6 DEF Marking!Next

\* Whoever is told that a message was delivered or read finds it so, and a message is
\* counted as unread exactly as long as it has no receipt, however receipts overtake
\* one another.
THEOREM ReceiptsAreTrue == Marking!Spec => []ReceiptsTrue
<1>1. ReceiptInv => ReceiptsTrue
  BY DEF ReceiptInv, ReceiptsTrue
<1> QED BY <1>1, ReceiptInit, ReceiptStep, PTL DEF Marking!Spec

----------------------------------------------------------------------------
\* Payments.

\* A call that has not begun has found nothing; one that has, a single row that stays.
PaymentInv ==
  /\ Charging!TypeOK
  /\ Charging!ReferencesHold
  /\ \A k \in Calls : paymentPc[k] = "idle" => subject[k] = {}
  /\ \A k \in Calls : \A b, c \in subject[k] : b = c
  /\ \A k \in Calls : \A b \in subject[k] : payment[b] # Charging!NoPayment

\* Before the first call there is no payment.
LEMMA PaymentInit == Charging!Init => PaymentInv
BY DEF Charging!Init, PaymentInv, Charging!TypeOK, Charging!ReferencesHold

\* No call changes the reference of a payment or takes it back.
LEMMA PaymentStep == PaymentInv /\ [Charging!Next]_(Charging!paymentVars) => PaymentInv'
<1> SUFFICES ASSUME PaymentInv, [Charging!Next]_(Charging!paymentVars) PROVE PaymentInv'
  OBVIOUS
<1> USE DEF PaymentInv, Charging!TypeOK, Charging!ReferencesHold, Charging!Answer
<1>1. ASSUME NEW k \in Calls, NEW b \in Bookings, Charging!InitiatePayment(k, b) PROVE PaymentInv'
  <2> DEFINE r == [reference |-> k, status |-> "PENDING"]
  <2>1. r \in Charging!Rows /\ r # Charging!NoPayment
    BY DEF Charging!Rows, Charging!NoPayment
  <2>2. paymentPc[k] = "idle" /\ subject' = subject
    BY <1>1 DEF Charging!InitiatePayment
  <2>3. CASE /\ payment[b] = Charging!NoPayment
             /\ payment' = [payment EXCEPT ![b] = r]
             /\ handedOut' = handedOut \cup {<<k, b>>}
             /\ paymentPc' = [paymentPc EXCEPT ![k] = "done"]
    <3>1. r.reference = k
      OBVIOUS
    <3> HIDE DEF r
    <3> QED BY <2>1, <2>2, <2>3, <3>1
  <2>4. CASE /\ payment' = payment /\ handedOut' = handedOut
             /\ paymentPc' = [paymentPc EXCEPT ![k] = "failed"]
    BY <2>2, <2>4
  <2> QED BY <1>1, <2>3, <2>4 DEF Charging!InitiatePayment
<1>2. ASSUME NEW k \in Calls, NEW found \in SUBSET Bookings, Charging!FindAmong(k, found),
             \A b \in found : payment[b] # Charging!NoPayment
      PROVE  PaymentInv'
  <2>1. CASE /\ \E b \in found : subject' = [subject EXCEPT ![k] = {b}]
             /\ paymentPc' = [paymentPc EXCEPT ![k] = "found"]
             /\ UNCHANGED <<payment, handedOut>>
    <3>1. PICK b \in found : subject' = [subject EXCEPT ![k] = {b}]
      BY <2>1
    <3>2. b \in Bookings /\ payment[b] # Charging!NoPayment
      BY <1>2
    <3> QED BY <2>1, <3>1, <3>2
  <2>2. CASE /\ paymentPc' = [paymentPc EXCEPT ![k] = "failed"]
             /\ UNCHANGED <<payment, handedOut, subject>>
    BY <2>2
  <2> QED BY <1>2, <2>1, <2>2 DEF Charging!FindAmong
<1>3. ASSUME NEW k \in Calls, Charging!SavePayment(k) PROVE PaymentInv'
  <2>1. PICK b \in subject[k] : payment' = [payment EXCEPT ![b].status = "SUCCESS"]
    BY <1>3 DEF Charging!SavePayment
  <2>2. paymentPc' = [paymentPc EXCEPT ![k] = "done"] /\ UNCHANGED <<subject, handedOut>>
    BY <1>3 DEF Charging!SavePayment
  <2>3. b \in Bookings /\ payment[b] \in Charging!Rows
    BY DEF Charging!NoPayment
  <2>4. /\ payment'[b] \in Charging!Rows /\ payment'[b].status = "SUCCESS"
        /\ payment'[b].reference = payment[b].reference
        /\ payment'[b] # Charging!NoPayment
    BY <2>1, <2>3 DEF Charging!Rows, Charging!NoPayment
  <2>5. \A c \in Bookings : c # b => payment'[c] = payment[c]
    BY <2>1
  <2>6. payment' \in [Bookings -> Charging!Rows \cup {Charging!NoPayment}]
    BY <2>1, <2>3, <2>4, <2>5
  <2>7. Charging!TypeOK'
    BY <2>2, <2>6
  <2>8. \A c \in Bookings : /\ payment[c] # Charging!NoPayment =>
                                /\ payment'[c] # Charging!NoPayment
                                /\ payment'[c].reference = payment[c].reference
                            /\ payment[c].status = "SUCCESS" => payment'[c].status = "SUCCESS"
    BY <2>4, <2>5
  <2>9. Charging!ReferencesHold'
    <3>1. \A h \in handedOut : payment'[h[2]] # Charging!NoPayment
                              /\ payment'[h[2]].reference = h[1]
      BY <2>8
    <3>2. \A j \in Calls : paymentPc'[j] = "done" =>
            \A c \in subject[j] : payment'[c].status = "SUCCESS"
      <4> SUFFICES ASSUME NEW j \in Calls, paymentPc'[j] = "done", NEW c \in subject[j]
                   PROVE  payment'[c].status = "SUCCESS"
        OBVIOUS
      <4>1. CASE j = k
        BY <2>4, <4>1
      <4>2. CASE j # k
        BY <2>2, <2>8, <4>2
      <4> QED BY <4>1, <4>2
    <3> QED BY <2>2, <3>1, <3>2
  <2> QED BY <2>2, <2>7, <2>8, <2>9
<1>4. ASSUME NEW k \in Calls, NEW r \in Calls,
             Charging!FindPayment(k, r) \/ Charging!FindAnyPayment(k)
      PROVE  PaymentInv'
  <2> DEFINE any == {b \in Bookings : payment[b] # Charging!NoPayment}
  <2>1. Charging!FindAmong(k, Charging!Referred(r)) \/ Charging!FindAmong(k, any)
    BY <1>4 DEF Charging!FindPayment, Charging!FindAnyPayment
  <2>2. Charging!Referred(r) \in SUBSET any /\ any \in SUBSET Bookings
    BY DEF Charging!Referred
  <2> HIDE DEF any
  <2>3. \A b \in any : payment[b] # Charging!NoPayment
    BY DEF any
  <2> QED BY <1>2, <2>1, <2>2, <2>3
<1>5. ASSUME NEW k \in Calls, Charging!Fails(k) PROVE PaymentInv'
  BY <1>5 DEF Charging!Fails
<1>6. CASE UNCHANGED Charging!paymentVars
  BY <1>6 DEF Charging!paymentVars
<1> QED BY <1>1, <1>3, <1>4, <1>5, <1>6 DEF Charging!Next

\* A reference that was given to a client stays that of its booking's payment, and a
\* verification that was answered has left its payment paid.
THEOREM ReferencesStay == Charging!Spec => []ReferencesHold
<1>1. PaymentInv => ReferencesHold
  BY DEF PaymentInv, ReferencesHold
<1> QED BY <1>1, PaymentInit, PaymentStep, PTL DEF Charging!Spec

----------------------------------------------------------------------------
\* Earnings.

\* A call that is under way, and two calls for one earning.
Active(k) == earningPc[k] \in {"loaded", "saving"}
SameEarning(j, k) == request[j].id = request[k].id

\* Another call accounts for what call k answered, or will answer, being lost.
Excused(k) ==
  \E j \in Calls \ {k} :
    j \in since[k] /\ earningPc[j] = "done" /\ (k \in since[j] \/ Paying!Replaces(j, k))

\* Whatever call j writes, what was asked of k stays.
Respects(j, k) ==
  /\ request[k].op # "remove" /\ request[j].op # "remove"
  /\ \A c \in request[k].sets : entity[j][c] = Paying!Value(k, request[k], c)

\* Calls that have begun know what they were asked, and hold a row in which it is set.
EntityInv ==
  \A k \in Calls :
    /\ earningPc[k] # "idle" => request[k] \in Paying!Requests
    /\ Active(k) =>
         /\ entity[k] \in Paying!Rows
         /\ \A c \in request[k].sets : entity[k][c] = Paying!Value(k, request[k], c)
    /\ earningPc[k] = "saving" => request[k].op # "remove"

\* Two calls that are under way for one earning have met.
MetInv ==
  \A j, k \in Calls : j # k /\ Active(j) /\ Active(k) /\ SameEarning(j, k) => j \in since[k]

\* The columns that an update will leave alone are as the call wants them, unless one
\* that it met has written since.
SavingInv ==
  \A k \in Calls : earningPc[k] = "saving" /\ k \notin inserts =>
    \/ Excused(k)
    \/ LET r == row[request[k].id]
       IN r # Paying!NoRow /\ \A c \in Paying!Columns \ columns[k] : r[c] = entity[k][c]

\* What a call has answered holds, and whoever could undo it has met it, or began later
\* and replaces it or respects it; or else it is accounted for.
AnsweredInv ==
  \A k \in Calls : earningPc[k] = "done" =>
    \/ Excused(k)
    \/ /\ Paying!Holds(k)
       /\ \A j \in Calls \ {k} : Active(j) /\ SameEarning(j, k) =>
            j \in since[k] /\ (k \in since[j] \/ Paying!Replaces(j, k) \/ Respects(j, k))

EarningInv ==
  Paying!TypeOK /\ EntityInv /\ MetInv /\ SavingInv /\ AnsweredInv

\* Before the first call there is nothing to lose.
LEMMA EarningInit == Paying!Init => EarningInv
BY DEF Paying!Init, EarningInv, Paying!TypeOK, EntityInv, MetInv, SavingInv, AnsweredInv, Active,
       Paying!Operations

\* What an active call was asked, typed.
LEMMA ActiveTypes ==
  ASSUME EarningInv, NEW k \in Calls, earningPc[k] # "idle"
  PROVE  /\ request[k] \in Paying!Requests /\ request[k].id \in Earnings
         /\ request[k].sets \in SUBSET Paying!Columns
<1>1. request[k] \in Paying!Requests
  BY DEF EarningInv, EntityInv
<1> QED BY <1>1 DEF Paying!Requests

\* A row is not the absence of one.
LEMMA RowIsThere == \A r \in Paying!Rows : r # Paying!NoRow
<1> SUFFICES ASSUME NEW r \in Paying!Rows, r = Paying!NoRow PROVE FALSE
  OBVIOUS
<1>1. r["status"] \in Paying!Values /\ r["status"] = "none"
  BY DEF Paying!Rows, Paying!NoRow, Paying!Columns
<1> QED BY <1>1, AbsenceAssumption DEF Paying!Values, Paying!Statuses

\* What a call sets is a value.
LEMMA ValueTypes ==
  ASSUME NEW k \in Calls, NEW q \in Paying!Requests, NEW c
  PROVE  Paying!Value(k, q, c) \in Paying!Values
BY DEF Paying!Value, Paying!Values, Paying!Requests

\* A call that is accounted for stays so, as answers are not taken back.
LEMMA ExcusedStays ==
  ASSUME NEW k \in Calls, Excused(k), since[k] \subseteq since'[k], request'[k] = request[k],
         \A j \in Calls : earningPc[j] = "done" =>
           earningPc'[j] = "done" /\ request'[j] = request[j] /\ since[j] \subseteq since'[j]
  PROVE  Excused(k)'
<1>1. PICK j \in Calls \ {k} :
        j \in since[k] /\ earningPc[j] = "done" /\ (k \in since[j] \/ Paying!Replaces(j, k))
  BY DEF Excused
<1>2. Paying!Replaces(j, k) => Paying!Replaces(j, k)'
  BY <1>1 DEF Paying!Replaces
<1> QED BY <1>1, <1>2 DEF Excused

\* A step that leaves every row some call is about as it is, begins nothing and
\* answers nothing.
LEMMA EarningQuietStep ==
  ASSUME EarningInv, Paying!TypeOK', UNCHANGED <<request, entity, since>>,
         \A k \in Calls : earningPc[k] # "idle" => row'[request[k].id] = row[request[k].id],
         \A k \in Calls : /\ earningPc'[k] # "idle" => earningPc[k] # "idle"
                          /\ Active(k)' => Active(k)
                          /\ earningPc'[k] = "done" <=> earningPc[k] = "done",
         \A k \in Calls : earningPc'[k] = "saving" => request[k].op # "remove",
         \A k \in Calls : earningPc'[k] = "saving" /\ k \notin inserts' =>
           \/ earningPc[k] = "saving" /\ k \notin inserts /\ columns'[k] = columns[k]
           \/ LET r == row[request[k].id]
              IN r # Paying!NoRow /\ \A c \in Paying!Columns \ columns'[k] : r[c] = entity[k][c]
  PROVE  EarningInv'
<1> USE DEF EarningInv
<1>1. \A k \in Calls : Excused(k) => Excused(k)'
  BY ExcusedStays
<1>2. EntityInv'
  BY DEF EntityInv, Paying!Value
<1>3. MetInv'
  BY DEF MetInv, SameEarning
<1>4. SavingInv'
  <2> SUFFICES ASSUME NEW k \in Calls, earningPc'[k] = "saving", k \notin inserts', ~Excused(k)'
               PROVE  LET r == row'[request'[k].id]
                      IN /\ r # Paying!NoRow
                         /\ \A c \in Paying!Columns \ columns'[k] : r[c] = entity'[k][c]
    BY DEF SavingInv
  <2>1. row'[request[k].id] = row[request[k].id] /\ ~Excused(k)
    BY <1>1
  <2> QED BY <2>1 DEF SavingInv
<1>5. AnsweredInv'
  <2> SUFFICES ASSUME NEW k \in Calls, earningPc'[k] = "done", ~Excused(k)'
               PROVE  /\ Paying!Holds(k)'
                      /\ \A j \in Calls \ {k} : Active(j)' /\ SameEarning(j, k)' =>
                           j \in since'[k] /\ (k \in since'[j] \/ Paying!Replaces(j, k)' \/ Respects(j, k)')
    BY DEF AnsweredInv
  <2>1. row'[request[k].id] = row[request[k].id] /\ ~Excused(k) /\ earningPc[k] = "done"
    BY <1>1
  <2>2. Paying!Holds(k)'
    BY <2>1 DEF AnsweredInv, Paying!Holds, Paying!Value
  <2>3. ASSUME NEW j \in Calls \ {k}, Active(j)', SameEarning(j, k)'
        PROVE  j \in since'[k] /\ (k \in since'[j] \/ Paying!Replaces(j, k)' \/ Respects(j, k)')
    <3>1. Active(j) /\ SameEarning(j, k)
      BY <2>3 DEF SameEarning
    <3>2. j \in since[k] /\ (k \in since[j] \/ Paying!Replaces(j, k) \/ Respects(j, k))
      BY <2>1, <3>1 DEF AnsweredInv
    <3> QED BY <3>2 DEF Paying!Replaces, Respects, Paying!Value
  <2> QED BY <2>2, <2>3
<1> QED BY <1>2, <1>3, <1>4, <1>5

\* A step in which an active call writes what it was asked and is done.
LEMMA EarningWriteStep ==
  ASSUME EarningInv, Paying!TypeOK', NEW k \in Calls, Active(k),
         earningPc' = [earningPc EXCEPT ![k] = "done"],
         UNCHANGED <<request, entity, columns, inserts, since>>,
         \A e \in Earnings \ {request[k].id} : row'[e] = row[e],
         Excused(k) \/ Paying!Holds(k)',
         \A j \in Calls \ {k} :
           earningPc[j] = "done" /\ Respects(k, j) /\ Paying!Holds(j) /\ SameEarning(k, j)
             => Paying!Holds(j)'
  PROVE  EarningInv'
<1> USE DEF EarningInv
<1>1. \A j \in Calls : Excused(j) => Excused(j)'
  BY ExcusedStays
<1>2. earningPc'[k] = "done" /\ ~Active(k)'
  BY DEF Active, Paying!TypeOK
<1>3. \A j \in Calls \ {k} : earningPc'[j] = earningPc[j] /\ (Active(j)' <=> Active(j))
  BY DEF Active, Paying!TypeOK
<1>4. EntityInv'
  BY <1>2, <1>3 DEF EntityInv, Paying!Value, Active
<1>5. MetInv'
  BY <1>2, <1>3 DEF MetInv, SameEarning
<1>6. ASSUME NEW j \in Calls \ {k}, k \in since[j], j \in since[k] \/ Paying!Replaces(k, j)
      PROVE  Excused(j)'
  BY <1>2, <1>6 DEF Excused, Paying!Replaces
<1>7. ASSUME NEW j \in Calls, earningPc[j] # "idle", ~SameEarning(k, j)
      PROVE  row'[request[j].id] = row[request[j].id]
  BY <1>7, ActiveTypes DEF SameEarning
<1>8. SavingInv'
  <2> SUFFICES ASSUME NEW j \in Calls, earningPc'[j] = "saving", j \notin inserts, ~Excused(j)'
               PROVE  LET r == row'[request[j].id]
                      IN /\ r # Paying!NoRow
                         /\ \A c \in Paying!Columns \ columns[j] : r[c] = entity[j][c]
    BY DEF SavingInv
  <2>1. j # k /\ earningPc[j] = "saving" /\ Active(j) /\ ~Excused(j)
    BY <1>1, <1>2, <1>3 DEF Active
  <2>2. ~SameEarning(k, j)
    BY <1>6, <2>1 DEF MetInv, SameEarning
  <2>3. row'[request[j].id] = row[request[j].id]
    BY <1>7, <2>1, <2>2
  <2> QED BY <2>1, <2>3 DEF SavingInv
<1>9. AnsweredInv'
  <2> SUFFICES ASSUME NEW j \in Calls, earningPc'[j] = "done", ~Excused(j)'
               PROVE  /\ Paying!Holds(j)'
                      /\ \A i \in Calls \ {j} : Active(i)' /\ SameEarning(i, j)' =>
                           i \in since'[j] /\ (j \in since'[i] \/ Paying!Replaces(i, j)' \/ Respects(i, j)')
    BY DEF AnsweredInv
  <2>1. CASE j = k
    <3>1. Paying!Holds(k)'
      BY <1>1, <2>1
    <3>2. ASSUME NEW i \in Calls \ {k}, Active(i)', SameEarning(i, k)' PROVE i \in since'[k] /\ k \in since'[i]
      BY <1>3, <3>2 DEF MetInv, SameEarning
    <3> QED BY <2>1, <3>1, <3>2
  <2>2. CASE j # k
    <3>1. earningPc[j] = "done" /\ ~Excused(j)
      BY <1>1, <1>3, <2>2
    <3>2. /\ Paying!Holds(j)
          /\ \A i \in Calls \ {j} : Active(i) /\ SameEarning(i, j) =>
               i \in since[j] /\ (j \in since[i] \/ Paying!Replaces(i, j) \/ Respects(i, j))
      BY <3>1 DEF AnsweredInv
    <3>3. Paying!Holds(j)'
      <4>1. CASE SameEarning(k, j)
        <5>1. Respects(k, j)
          BY <1>6, <2>2, <3>2, <4>1
        <5> QED BY <2>2, <3>1, <3>2, <4>1, <5>1
      <4>2. CASE ~SameEarning(k, j)
        BY <1>7, <3>1, <3>2, <4>2 DEF Paying!Holds, Paying!Value
      <4> QED BY <4>1, <4>2
    <3>4. ASSUME NEW i \in Calls \ {j}, Active(i)', SameEarning(i, j)'
          PROVE  i \in since'[j] /\ (j \in since'[i] \/ Paying!Replaces(i, j)' \/ Respects(i, j)')
      <4>1. Active(i) /\ SameEarning(i, j)
        BY <1>2, <1>3, <3>4 DEF SameEarning
      <4>2. i \in since[j] /\ (j \in since[i] \/ Paying!Replaces(i, j) \/ Respects(i, j))
        BY <3>2, <4>1
      <4> QED BY <4>2 DEF Paying!Replaces, Respects, Paying!Value
    <3> QED BY <3>3, <3>4
  <2> QED BY <2>1, <2>2
<1> QED BY <1>4, <1>5, <1>8, <1>9

\* A new earning is one that no call is about.
LEMMA CreateStep ==
  ASSUME EarningInv, NEW e \in Earnings, NEW s \in Given, Paying!Create(e, s)
  PROVE  EarningInv'
<1> DEFINE r == [c \in Paying!Columns |-> IF c = "status" THEN s ELSE Created]
<1>1. r \in Paying!Rows
  BY GivenAssumption DEF Paying!Rows, Paying!Values
<1>2. /\ row' = [row EXCEPT ![e] = r] /\ Paying!About(e) = {}
      /\ UNCHANGED <<earningPc, request, entity, columns, inserts, since>>
  BY DEF Paying!Create
<1> HIDE DEF r
<1>3. Paying!TypeOK'
  BY <1>1, <1>2 DEF EarningInv, Paying!TypeOK
<1>4. \A k \in Calls : earningPc[k] # "idle" => row'[request[k].id] = row[request[k].id]
  BY <1>2, ActiveTypes DEF Paying!About, EarningInv, Paying!TypeOK
<1>5. \A k \in Calls : earningPc[k] = "saving" => request[k].op # "remove"
  BY DEF EarningInv, EntityInv
<1> QED BY <1>2, <1>3, <1>4, <1>5, EarningQuietStep DEF Active

\* A call that begins meets those under way for the earning.
LEMMA FindOneStep ==
  ASSUME EarningInv, NEW k \in Calls, NEW q \in Paying!Requests, Paying!FindOne(k, q)
  PROVE  EarningInv'
<1> USE DEF EarningInv
<1>1. /\ earningPc[k] = "idle" /\ Paying!Asked(q)
      /\ request' = [request EXCEPT ![k] = q] /\ UNCHANGED <<row, columns, inserts>>
  BY DEF Paying!FindOne
<1>2. q.id \in Earnings /\ q.sets \in SUBSET Paying!Columns /\ q.op \in Paying!Operations
  BY DEF Paying!Requests
<1>3. request'[k] = q /\ \A j \in Calls \ {k} : request'[j] = request[j]
  BY <1>1 DEF Paying!TypeOK
<1>4. CASE /\ row[q.id] = Paying!NoRow
           /\ earningPc' = [earningPc EXCEPT ![k] = "failed"] /\ UNCHANGED <<entity, since>>
  <2>1. earningPc'[k] = "failed" /\ \A j \in Calls \ {k} : earningPc'[j] = earningPc[j]
    BY <1>4 DEF Paying!TypeOK
  <2>2. Paying!TypeOK'
    BY <1>1, <1>4 DEF Paying!TypeOK
  <2>3. \A j \in Calls \ {k} : Excused(j) => Excused(j)'
    BY <1>1, <1>3, <1>4, <2>1, ExcusedStays
  <2>4. ~Active(k)' /\ \A j \in Calls \ {k} : Active(j)' <=> Active(j)
    BY <2>1 DEF Active
  <2>5. EntityInv'
    BY <1>3, <1>4, <2>1, <2>4 DEF EntityInv, Paying!Value
  <2>6. MetInv'
    BY <1>3, <1>4, <2>4 DEF MetInv, SameEarning
  <2>7. SavingInv'
    BY <1>1, <1>3, <1>4, <2>1, <2>3 DEF SavingInv
  <2>8. AnsweredInv'
    <3> SUFFICES ASSUME NEW j \in Calls, earningPc'[j] = "done", ~Excused(j)'
                 PROVE  /\ Paying!Holds(j)'
                        /\ \A i \in Calls \ {j} : Active(i)' /\ SameEarning(i, j)' =>
                             i \in since'[j] /\ (j \in since'[i] \/ Paying!Replaces(i, j)' \/ Respects(i, j)')
      BY DEF AnsweredInv
    <3>1. j # k /\ earningPc[j] = "done" /\ ~Excused(j)
      BY <2>1, <2>3
    <3>2. Paying!Holds(j)'
      BY <1>1, <1>3, <3>1 DEF AnsweredInv, Paying!Holds, Paying!Value
    <3>3. ASSUME NEW i \in Calls \ {j}, Active(i)', SameEarning(i, j)'
          PROVE  i \in since'[j] /\ (j \in since'[i] \/ Paying!Replaces(i, j)' \/ Respects(i, j)')
      <4>1. i # k /\ Active(i) /\ SameEarning(i, j)
        BY <1>3, <2>4, <3>1, <3>3 DEF SameEarning
      <4>2. i \in since[j] /\ (j \in since[i] \/ Paying!Replaces(i, j) \/ Respects(i, j))
        BY <3>1, <4>1 DEF AnsweredInv
      <4> QED BY <1>3, <1>4, <3>1, <4>1, <4>2 DEF Paying!Replaces, Respects, Paying!Value
    <3> QED BY <3>2, <3>3
  <2> QED BY <2>2, <2>5, <2>6, <2>7, <2>8
<1>5. CASE /\ row[q.id] # Paying!NoRow
           /\ earningPc' = [earningPc EXCEPT ![k] = "loaded"]
           /\ entity' = [entity EXCEPT ![k] = Paying!Assigned(k, q, row[q.id])]
           /\ since' = [j \in Calls |->
                IF j = k THEN Paying!Running(q.id)
                ELSE IF j \in Paying!About(q.id) /\ earningPc[j] # "failed"
                     THEN since[j] \cup {k} ELSE since[j]]
  <2> DEFINE E == Paying!Assigned(k, q, row[q.id])
             R == Paying!Running(q.id)
  <2>1. earningPc'[k] = "loaded" /\ \A j \in Calls \ {k} : earningPc'[j] = earningPc[j]
    BY <1>5 DEF Paying!TypeOK
  <2>2. E \in Paying!Rows /\ \A c \in q.sets : E[c] = Paying!Value(k, q, c)
    <3>1. row[q.id] \in Paying!Rows
      BY <1>2, <1>5 DEF Paying!TypeOK
    <3>2. \A c \in Paying!Columns : row[q.id][c] \in Paying!Values
      BY <3>1 DEF Paying!Rows
    <3>3. \A c \in Paying!Columns : Paying!Value(k, q, c) \in Paying!Values
      BY ValueTypes
    <3> QED BY <1>2, <3>2, <3>3 DEF Paying!Assigned, Paying!Rows
  <2>3. \A c \in Paying!Columns \ q.sets : E[c] = row[q.id][c]
    BY DEF Paying!Assigned
  <2>4. R \in SUBSET Calls /\ \A j \in Calls : j \in R <=> Active(j) /\ request[j].id = q.id
    BY DEF Paying!Running, Paying!About, Active
  <2>5. entity'[k] = E /\ \A j \in Calls \ {k} : entity'[j] = entity[j]
    BY <1>5 DEF Paying!TypeOK
  <2> HIDE DEF E, R
  <2>6. /\ since'[k] = R
        /\ \A j \in Calls \ {k} :
             since'[j] = IF request[j].id = q.id /\ earningPc[j] # "failed"
                         THEN since[j] \cup {k} ELSE since[j]
    BY <1>5 DEF R, Paying!About
  <2>7. Paying!TypeOK'
    <3>1. earningPc' \in [Calls -> {"idle", "loaded", "saving", "done", "failed"}]
      BY <1>5 DEF Paying!TypeOK
    <3>2. request' \in [Calls -> Paying!Requests \cup {Paying!NoRequest}]
      BY <1>1 DEF Paying!TypeOK
    <3>3. entity' \in [Calls -> Paying!Rows \cup {Paying!NoRow}]
      BY <1>5, <2>2 DEF Paying!TypeOK, E
    <3>4. since' \in [Calls -> SUBSET Calls]
      BY <1>5, <2>4 DEF Paying!TypeOK, R
    <3> QED BY <1>1, <3>1, <3>2, <3>3, <3>4 DEF Paying!TypeOK
  <2>8. \A j \in Calls \ {k} : Excused(j) => Excused(j)'
    BY <1>1, <1>3, <2>1, <2>6, ExcusedStays
  <2>9. Active(k)' /\ \A j \in Calls \ {k} : Active(j)' <=> Active(j)
    BY <2>1 DEF Active
  <2>10. EntityInv'
    BY <1>3, <2>1, <2>2, <2>5, <2>9 DEF EntityInv, Paying!Value
  <2>11. MetInv'
    <3> SUFFICES ASSUME NEW i \in Calls, NEW j \in Calls, i # j, Active(i)', Active(j)',
                        SameEarning(i, j)'
                 PROVE  i \in since'[j]
      BY DEF MetInv
    <3>1. CASE i = k
      BY <1>3, <2>6, <2>9, <3>1 DEF SameEarning, Active
    <3>2. CASE j = k
      BY <1>3, <2>4, <2>6, <2>9, <3>2 DEF SameEarning
    <3>3. CASE i # k /\ j # k
      BY <1>3, <2>6, <2>9, <3>3 DEF SameEarning, MetInv
    <3> QED BY <3>1, <3>2, <3>3
  <2>12. SavingInv'
    BY <1>1, <1>3, <2>1, <2>5, <2>8 DEF SavingInv
  <2>13. AnsweredInv'
    <3> SUFFICES ASSUME NEW j \in Calls, earningPc'[j] = "done", ~Excused(j)'
                 PROVE  /\ Paying!Holds(j)'
                        /\ \A i \in Calls \ {j} : Active(i)' /\ SameEarning(i, j)' =>
                             i \in since'[j] /\ (j \in since'[i] \/ Paying!Replaces(i, j)' \/ Respects(i, j)')
      BY DEF AnsweredInv
    <3>1. j # k /\ earningPc[j] = "done" /\ ~Excused(j)
      BY <2>1, <2>8
    <3>2. Paying!Holds(j) /\ Paying!Holds(j)'
      BY <1>1, <1>3, <3>1 DEF AnsweredInv, Paying!Holds, Paying!Value
    <3>3. ASSUME NEW i \in Calls \ {j, k}, Active(i)', SameEarning(i, j)'
          PROVE  i \in since'[j] /\ (j \in since'[i] \/ Paying!Replaces(i, j)' \/ Respects(i, j)')
      <4>1. Active(i) /\ SameEarning(i, j)
        BY <1>3, <2>9, <3>1, <3>3 DEF SameEarning
      <4>2. i \in since[j] /\ (j \in since[i] \/ Paying!Replaces(i, j) \/ Respects(i, j))
        BY <3>1, <3>3, <4>1 DEF AnsweredInv
      <4> QED BY <1>3, <2>5, <2>6, <3>1, <3>3, <4>2
            DEF Paying!Replaces, Respects, Paying!Value
    <3>4. ASSUME SameEarning(k, j)'
          PROVE  k \in since'[j] /\ (Paying!Replaces(k, j)' \/ Respects(k, j)')
      <4>1. q.id = request[j].id
        BY <1>3, <3>1, <3>4 DEF SameEarning
      <4>2. k \in since'[j]
        BY <2>6, <3>1, <4>1
      <4> SUFFICES ASSUME ~Paying!Replaces(k, j)' PROVE Respects(k, j)'
        BY <4>2
      <4>3. q.op # "remove" /\ q.sets \cap request[j].sets = {}
        BY <1>3, <3>1, <4>1 DEF Paying!Replaces
      <4>4. /\ request[j].op # "remove"
            /\ \A c \in request[j].sets : row[q.id][c] = Paying!Value(j, request[j], c)
        BY <1>5, <3>2, <4>1 DEF Paying!Holds
      <4>5. request[j].sets \in SUBSET Paying!Columns
        BY <3>1, ActiveTypes
      <4> QED BY <1>3, <2>3, <2>5, <3>1, <4>3, <4>4, <4>5 DEF Respects, Paying!Value
    <3> QED BY <3>2, <3>3, <3>4
  <2> QED BY <2>7, <2>10, <2>11, <2>12, <2>13
<1> QED BY <1>4, <1>5 DEF Paying!FindOne, Paying!Goes

\* The SELECT of a save fixes what it will leave alone.
LEMMA ReloadStep ==
  ASSUME EarningInv, NEW k \in Calls, Paying!Reload(k)
  PROVE  EarningInv'
<1> DEFINE r == row[request[k].id]
           C == {c \in Paying!Columns : r[c] # entity[k][c]}
<1>1. /\ earningPc[k] = "loaded" /\ request[k].op # "remove"
      /\ earningPc' = [earningPc EXCEPT ![k] = "saving"]
      /\ UNCHANGED <<row, request, entity, since>>
  BY DEF Paying!Reload, Paying!Goes
<1>2. \/ r = Paying!NoRow /\ inserts' = inserts \cup {k} /\ UNCHANGED columns
      \/ r # Paying!NoRow /\ columns' = [columns EXCEPT ![k] = C] /\ UNCHANGED inserts
  BY DEF Paying!Reload
<1>3. C \in SUBSET Paying!Columns /\ \A c \in Paying!Columns \ C : r[c] = entity[k][c]
  OBVIOUS
<1> HIDE DEF C
<1>4. Paying!TypeOK'
  BY <1>1, <1>2, <1>3 DEF EarningInv, Paying!TypeOK
<1>5. earningPc'[k] = "saving" /\ \A j \in Calls \ {k} : earningPc'[j] = earningPc[j]
  BY <1>1 DEF EarningInv, Paying!TypeOK
<1>6. \A j \in Calls : earningPc'[j] = "saving" => request[j].op # "remove"
  BY <1>1, <1>5 DEF EarningInv, EntityInv
<1>7. ASSUME NEW j \in Calls, earningPc'[j] = "saving", j \notin inserts'
      PROVE  \/ earningPc[j] = "saving" /\ j \notin inserts /\ columns'[j] = columns[j]
             \/ LET s == row[request[j].id]
                IN s # Paying!NoRow /\ \A c \in Paying!Columns \ columns'[j] : s[c] = entity[j][c]
  <2>1. CASE j = k
    BY <1>2, <1>3, <1>7, <2>1 DEF EarningInv, Paying!TypeOK
  <2>2. CASE j # k
    BY <1>2, <1>5, <1>7, <2>2 DEF EarningInv, Paying!TypeOK
  <2> QED BY <2>1, <2>2
<1>8. \A j \in Calls : /\ earningPc'[j] # "idle" => earningPc[j] # "idle"
                       /\ Active(j)' => Active(j)
                       /\ earningPc'[j] = "done" <=> earningPc[j] = "done"
  BY <1>1, <1>5 DEF Active
<1> QED BY <1>1, <1>4, <1>6, <1>7, <1>8, EarningQuietStep

\* A statement that fails changes no row.
LEMMA FailStep ==
  ASSUME EarningInv, NEW k \in Calls, Active(k),
         earningPc' = [earningPc EXCEPT ![k] = "failed"],
         UNCHANGED <<row, request, entity, columns, inserts, since>>
  PROVE  EarningInv'
<1>1. Paying!TypeOK'
  BY DEF EarningInv, Paying!TypeOK
<1>2. earningPc'[k] = "failed" /\ \A j \in Calls \ {k} : earningPc'[j] = earningPc[j]
  BY DEF EarningInv, Paying!TypeOK
<1>3. \A j \in Calls : earningPc'[j] = "saving" => request[j].op # "remove"
  BY <1>2 DEF EarningInv, EntityInv
<1>4. \A j \in Calls : /\ earningPc'[j] # "idle" => earningPc[j] # "idle"
                       /\ Active(j)' => Active(j)
                       /\ earningPc'[j] = "done" <=> earningPc[j] = "done"
  BY <1>2 DEF Active
<1>5. \A j \in Calls : earningPc'[j] = "saving" => earningPc[j] = "saving"
  BY <1>2
<1> QED BY <1>1, <1>3, <1>4, <1>5, EarningQuietStep

\* The UPDATE makes the row what its call wants, unless one that it met has answered since.
LEMMA WriteColumnsStep ==
  ASSUME EarningInv, NEW k \in Calls, Paying!WriteColumns(k)
  PROVE  EarningInv'
<1> DEFINE e == request[k].id
           New(r) == [c \in Paying!Columns |-> IF c \in columns[k] THEN entity[k][c] ELSE r[c]]
<1> USE DEF EarningInv
<1>1. /\ earningPc[k] = "saving" /\ k \notin inserts /\ Active(k)
      /\ earningPc' = [earningPc EXCEPT ![k] = "done"]
      /\ UNCHANGED <<request, entity, columns, inserts, since>>
      /\ row' = [f \in Earnings |->
           IF f = e /\ row[f] # Paying!NoRow THEN New(row[f]) ELSE row[f]]
  BY DEF Paying!WriteColumns, Paying!Goes, Active
<1>2. e \in Earnings /\ request[k].sets \in SUBSET Paying!Columns /\ request[k].op # "remove"
  BY <1>1, ActiveTypes DEF EntityInv
<1>3. entity[k] \in Paying!Rows
  BY <1>1 DEF EntityInv
<1>4. \A r \in Paying!Rows : New(r) \in Paying!Rows
  BY <1>3 DEF Paying!Rows
<1> HIDE DEF e
<1>5. row'[e] = (IF row[e] # Paying!NoRow THEN New(row[e]) ELSE row[e])
      /\ \A f \in Earnings \ {e} : row'[f] = row[f]
  BY <1>1, <1>2
<1>6. row' \in [Earnings -> Paying!Rows \cup {Paying!NoRow}]
  <2> HIDE DEF New
  <2> QED BY <1>1, <1>4 DEF Paying!TypeOK
<1>7. Paying!TypeOK'
  BY <1>1, <1>6 DEF Paying!TypeOK
<1>8. Excused(k) \/ Paying!Holds(k)'
  <2> SUFFICES ASSUME ~Excused(k) PROVE Paying!Holds(k)'
    OBVIOUS
  <2>1. row[e] # Paying!NoRow /\ \A c \in Paying!Columns \ columns[k] : row[e][c] = entity[k][c]
    BY <1>1 DEF SavingInv, e
  <2>2. row'[e] = New(row[e]) /\ New(row[e]) \in Paying!Rows
    BY <1>2, <1>4, <1>5, <2>1 DEF Paying!TypeOK
  <2>3. \A c \in request[k].sets : row'[e][c] = Paying!Value(k, request[k], c)
    BY <1>1, <1>2, <2>1, <2>2 DEF EntityInv
  <2>4. row'[e] # Paying!NoRow
    BY <2>2, RowIsThere
  <2> QED BY <1>1, <1>2, <2>3, <2>4 DEF Paying!Holds, Paying!Value, e
<1>9. ASSUME NEW j \in Calls \ {k}, earningPc[j] = "done",
             Respects(k, j), Paying!Holds(j), SameEarning(k, j)
      PROVE  Paying!Holds(j)'
  <2>1. request[j].id = e /\ request[j].op # "remove"
    BY <1>9 DEF SameEarning, Respects, e
  <2>2. /\ row[e] # Paying!NoRow
        /\ \A c \in request[j].sets : row[e][c] = Paying!Value(j, request[j], c)
    BY <1>9, <2>1 DEF Paying!Holds
  <2>3. row'[e] = New(row[e]) /\ row'[e] # Paying!NoRow
    BY <1>2, <1>4, <1>5, <2>2, RowIsThere DEF Paying!TypeOK
  <2>4. request[j].sets \in SUBSET Paying!Columns
    BY <1>9, ActiveTypes
  <2>5. \A c \in request[j].sets : row'[e][c] = Paying!Value(j, request[j], c)
    BY <1>9, <2>2, <2>3, <2>4 DEF Respects
  <2> QED BY <1>1, <2>1, <2>3, <2>5 DEF Paying!Holds, Paying!Value
<1> QED BY <1>1, <1>5, <1>7, <1>8, <1>9, EarningWriteStep DEF e

\* So does the INSERT of an entity whose row has gone.
LEMMA InsertRowStep ==
  ASSUME EarningInv, NEW k \in Calls, Paying!InsertRow(k)
  PROVE  EarningInv'
<1> USE DEF EarningInv
<1> DEFINE e == request[k].id
<1>1. earningPc[k] = "saving" /\ Active(k) /\ UNCHANGED <<request, entity, columns, inserts, since>>
  BY DEF Paying!InsertRow, Active
<1>2. e \in Earnings /\ request[k].sets \in SUBSET Paying!Columns /\ request[k].op # "remove"
  BY <1>1, ActiveTypes DEF EntityInv
<1>3. /\ entity[k] \in Paying!Rows
      /\ \A c \in request[k].sets : entity[k][c] = Paying!Value(k, request[k], c)
  BY <1>1 DEF EntityInv
<1>4. CASE /\ row[e] = Paying!NoRow /\ row' = [row EXCEPT ![e] = entity[k]]
           /\ earningPc' = [earningPc EXCEPT ![k] = "done"]
  <2>1. row'[e] = entity[k] /\ \A f \in Earnings \ {e} : row'[f] = row[f]
    BY <1>2, <1>4 DEF Paying!TypeOK
  <2>2. Paying!TypeOK'
    BY <1>1, <1>3, <1>4 DEF Paying!TypeOK
  <2>3. Paying!Holds(k)'
    BY <1>1, <1>2, <1>3, <2>1, RowIsThere DEF Paying!Holds, Paying!Value
  <2>4. \A j \in Calls \ {k} : ~(Respects(k, j) /\ Paying!Holds(j) /\ SameEarning(k, j))
    BY <1>4 DEF Respects, Paying!Holds, SameEarning
  <2> HIDE DEF e
  <2> QED BY <1>1, <1>4, <2>1, <2>2, <2>3, <2>4, EarningWriteStep DEF e
<1>5. CASE earningPc' = [earningPc EXCEPT ![k] = "failed"] /\ UNCHANGED row
  BY <1>1, <1>5, FailStep
<1> QED BY <1>4, <1>5 DEF Paying!InsertRow, Paying!Goes

\* The DELETE leaves what a removal wants.
LEMMA DeleteStep ==
  ASSUME EarningInv, NEW k \in Calls, Paying!Delete(k)
  PROVE  EarningInv'
<1> USE DEF EarningInv
<1> DEFINE e == request[k].id
<1>1. /\ earningPc[k] = "loaded" /\ Active(k) /\ request[k].op = "remove"
      /\ row' = [row EXCEPT ![e] = Paying!NoRow]
      /\ earningPc' = [earningPc EXCEPT ![k] = "done"]
      /\ UNCHANGED <<request, entity, columns, inserts, since>>
  BY DEF Paying!Delete, Paying!Goes, Active
<1>2. e \in Earnings
  BY <1>1, ActiveTypes
<1>3. row'[e] = Paying!NoRow /\ \A f \in Earnings \ {e} : row'[f] = row[f]
  BY <1>1, <1>2 DEF Paying!TypeOK
<1>4. Paying!TypeOK'
  BY <1>1 DEF Paying!TypeOK
<1>5. Paying!Holds(k)'
  BY <1>1, <1>3 DEF Paying!Holds
<1>6. \A j \in Calls : ~Respects(k, j)
  BY <1>1 DEF Respects
<1> QED BY <1>1, <1>3, <1>4, <1>5, <1>6, EarningWriteStep

\* Every step of the earnings is one of these.
LEMMA EarningStep == EarningInv /\ [Paying!Next]_(Paying!earningVars) => EarningInv'
<1> SUFFICES ASSUME EarningInv, [Paying!Next]_(Paying!earningVars) PROVE EarningInv'
  OBVIOUS
<1>1. ASSUME NEW e \in Earnings, NEW s \in Given, Paying!Create(e, s) PROVE EarningInv'
  BY <1>1, CreateStep
<1>2. ASSUME NEW k \in Calls, NEW q \in Paying!Requests, Paying!FindOne(k, q) PROVE EarningInv'
  BY <1>2, FindOneStep
<1>3. ASSUME NEW k \in Calls, Paying!Reload(k) PROVE EarningInv'
  BY <1>3, ReloadStep
<1>4. ASSUME NEW k \in Calls, Paying!WriteColumns(k) PROVE EarningInv'
  BY <1>4, WriteColumnsStep
<1>5. ASSUME NEW k \in Calls, Paying!InsertRow(k) PROVE EarningInv'
  BY <1>5, InsertRowStep
<1>6. ASSUME NEW k \in Calls, Paying!Delete(k) PROVE EarningInv'
  BY <1>6, DeleteStep
<1>7. ASSUME NEW k \in Calls, Paying!Fail(k) PROVE EarningInv'
  BY <1>7, FailStep DEF Paying!Fail, Paying!Goes, Active
<1>8. CASE UNCHANGED Paying!earningVars
  BY <1>8 DEF Paying!earningVars, EarningInv, Paying!TypeOK, EntityInv, MetInv, SavingInv,
              AnsweredInv, Active, SameEarning, Excused, Respects, Paying!Replaces, Paying!Holds,
              Paying!Value
<1> QED BY <1>1, <1>2, <1>3, <1>4, <1>5, <1>6, <1>7, <1>8 DEF Paying!Next

\* What a call has answered is lost only to one that overlapped it, set the same columns
\* or removed the earning.
THEOREM AnsweredUnlessOverlapped == Paying!Spec => []LostOnlyToOverlap
<1>1. EarningInv => LostOnlyToOverlap
  BY DEF EarningInv, AnsweredInv, Excused, LostOnlyToOverlap, Paying!LostOnlyToOverlap
<1> QED BY <1>1, EarningInit, EarningStep, PTL DEF Paying!Spec

----------------------------------------------------------------------------
\* The three together.

\* Records is a behaviour of each component.
THEOREM RecordsAreTheirs == Spec => Marking!Spec /\ Charging!Spec /\ Paying!Spec
<1>1. Init => Marking!Init /\ Charging!Init /\ Paying!Init
  BY DEF Init
<1>2. [Next]_vars => [Marking!Next]_(Marking!receiptVars)
  BY DEF Next, vars, receiptVars, paymentVars, earningVars, Marking!receiptVars
<1>3. [Next]_vars => [Charging!Next]_(Charging!paymentVars)
  BY DEF Next, vars, receiptVars, paymentVars, earningVars, Charging!paymentVars
<1>4. [Next]_vars => [Paying!Next]_(Paying!earningVars)
  BY DEF Next, vars, receiptVars, paymentVars, earningVars, Paying!earningVars
<1> QED BY <1>1, <1>2, <1>3, <1>4, PTL DEF Spec, Marking!Spec, Charging!Spec, Paying!Spec

\* Every variable of the three keeps its type.
THEOREM RecordsTyped == Spec => []TypeOK
<1>1. Marking!Spec => []Marking!TypeOK
  <2>1. ReceiptInv => Marking!TypeOK
    BY DEF ReceiptInv
  <2> QED BY <2>1, ReceiptInit, ReceiptStep, PTL DEF Marking!Spec
<1>2. Charging!Spec => []Charging!TypeOK
  <2>1. PaymentInv => Charging!TypeOK
    BY DEF PaymentInv
  <2> QED BY <2>1, PaymentInit, PaymentStep, PTL DEF Charging!Spec
<1>3. Paying!Spec => []Paying!TypeOK
  <2>1. EarningInv => Paying!TypeOK
    BY DEF EarningInv
  <2> QED BY <2>1, EarningInit, EarningStep, PTL DEF Paying!Spec
<1> QED BY <1>1, <1>2, <1>3, RecordsAreTheirs, PTL DEF TypeOK

\* What is proved of each component holds when their calls interleave freely.
THEOREM RecordsHold == Spec => [](ReceiptsTrue /\ ReferencesHold /\ LostOnlyToOverlap)
BY RecordsAreTheirs, ReceiptsAreTrue, ReferencesStay, AnsweredUnlessOverlapped, PTL
=============================================================================
