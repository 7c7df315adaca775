------------------------------- MODULE Earnings -------------------------------
(***************************************************************************)
(* DriverEarningsService: calls that load an earning, change it and save it.  *)
(* TypeORM's save loads the row once more and writes the columns in which it   *)
(* differs from what it was given, or inserts all of it if the row has gone;   *)
(* nothing keeps other calls out between these statements.                    *)
(*                                                                         *)
(* A value is named by the call that set it; the columns of a payout, which   *)
(* are set together, are one, and the amounts and the notes are another.      *)
(***************************************************************************)
CONSTANTS
  Earnings,  \* ids
  Calls,     \* calls of the service
  Created,   \* the value a row was created with
  Given      \* the statuses that creations and updates ask for

Statuses == {"PENDING", "PROCESSED", "PAID", "DISPUTED", "CANCELLED"}
Columns == {"status", "payout", "details"}
Values == Statuses \cup Calls \cup {Created}
Rows == [Columns -> Values]
Operations == {"markAsPaid", "update", "remove"}

\* A request sets some columns of one earning.
Requests == [op : Operations, id : Earnings, sets : SUBSET Columns, status : Statuses]

NoRow == [c \in Columns |-> "none"]
NoRequest == [op |-> "none", id |-> "none"]

VARIABLES
  row,      \* the table
  pc,       \* per call
  request,  \* per call, what was asked
  entity,   \* per call, the object in memory
  columns,  \* per call, the columns save is about to update
  inserts,  \* the calls whose save is about to insert
  since     \* history: per call, those under way when it began, and those begun later

earningVars == <<row, pc, request, entity, columns, inserts, since>>

TypeOK ==
  /\ row \in [Earnings -> Rows \cup {NoRow}]
  /\ pc \in [Calls -> {"idle", "loaded", "saving", "done", "failed"}]
  /\ request \in [Calls -> Requests \cup {NoRequest}]
  /\ entity \in [Calls -> Rows \cup {NoRow}]
  /\ columns \in [Calls -> SUBSET Columns]
  /\ inserts \in SUBSET Calls
  /\ since \in [Calls -> SUBSET Calls]

Init ==
  /\ row = [e \in Earnings |-> NoRow]
  /\ pc = [k \in Calls |-> "idle"]
  /\ request = [k \in Calls |-> NoRequest]
  /\ entity = [k \in Calls |-> NoRow]
  /\ columns = [k \in Calls |-> {}]
  /\ inserts = {}
  /\ since = [k \in Calls |-> {}]

----------------------------------------------------------------------------
Value(k, q, c) == IF c = "status" THEN q.status ELSE k

\* What the calls ask for; the status of a request that sets none is a filler.
Asked(q) ==
  \/ q.op = "markAsPaid" /\ q.sets = {"status", "payout"} /\ q.status = "PAID"
  \/ /\ q.op = "update" /\ q.sets # {}
     /\ IF "status" \in q.sets THEN q.status \in Given ELSE q.status = "PENDING"
  \/ q.op = "remove" /\ q.sets = {} /\ q.status = "PENDING"

\* Calls that have been asked about an earning; an id is not given a second time.
About(e) == {k \in Calls : request[k].id = e}
Running(e) == {k \in About(e) : pc[k] \in {"loaded", "saving"}}

Goes(k, to) == pc' = [pc EXCEPT ![k] = to]

----------------------------------------------------------------------------
\* Bugs this code could have had: each stands in for the definition of the
\* same parameters in a mutation of a run, and is used nowhere else.

\* The status of an earning is set as well when only its payout is.
Assigned_DefaultStatus(k, q, r) ==
  [c \in Columns |-> IF c \in q.sets THEN Value(k, q, c)
                     ELSE IF c = "status" /\ q.op = "update" THEN "PENDING" ELSE r[c]]

----------------------------------------------------------------------------
\* Object.assign, or the four assignments of markAsPaid.
Assigned(k, q, r) == [c \in Columns |-> IF c \in q.sets THEN Value(k, q, c) ELSE r[c]]

\* create: any status may be given.
Create(e, status) ==
  /\ row[e] = NoRow /\ About(e) = {}
  /\ row' = [row EXCEPT ![e] = [c \in Columns |-> IF c = "status" THEN status ELSE Created]]
  /\ UNCHANGED <<pc, request, entity, columns, inserts, since>>

\* findOne: the call throws if there is no such earning.
FindOne(k, q) ==
  /\ pc[k] = "idle" /\ Asked(q)
  /\ request' = [request EXCEPT ![k] = q]
  /\ \/ row[q.id] = NoRow /\ Goes(k, "failed") /\ UNCHANGED <<entity, since>>
     \/ /\ row[q.id] # NoRow
        /\ Goes(k, "loaded")
        /\ entity' = [entity EXCEPT ![k] = Assigned(k, q, row[q.id])]
        /\ since' = [j \in Calls |->
             IF j = k THEN Running(q.id)
             ELSE IF j \in About(q.id) /\ pc[j] # "failed" THEN since[j] \cup {k} ELSE since[j]]
  /\ UNCHANGED <<row, columns, inserts>>

\* save loads the row: what differs is to be written, all of it if the row is gone.
Reload(k) ==
  /\ pc[k] = "loaded" /\ request[k].op # "remove"
  /\ LET r == row[request[k].id]
     IN \/ r = NoRow /\ inserts' = inserts \cup {k} /\ UNCHANGED columns
        \/ /\ r # NoRow
           /\ columns' = [columns EXCEPT ![k] = {c \in Columns : r[c] # entity[k][c]}]
           /\ UNCHANGED inserts
  /\ Goes(k, "saving")
  /\ UNCHANGED <<row, request, entity, since>>

\* The UPDATE, of one row or of none if it has gone since.
WriteColumns(k) ==
  /\ pc[k] = "saving" /\ k \notin inserts
  /\ row' = [e \in Earnings |->
       IF e = request[k].id /\ row[e] # NoRow
       THEN [c \in Columns |-> IF c \in columns[k] THEN entity[k][c] ELSE row[e][c]]
       ELSE row[e]]
  /\ Goes(k, "done")
  /\ UNCHANGED <<request, entity, columns, inserts, since>>

\* The INSERT, which fails if another call has inserted the row again.
InsertRow(k) ==
  /\ pc[k] = "saving" /\ k \in inserts
  /\ LET e == request[k].id
     IN \/ row[e] = NoRow /\ row' = [row EXCEPT ![e] = entity[k]] /\ Goes(k, "done")
        \/ row[e] # NoRow /\ Goes(k, "failed") /\ UNCHANGED row
  /\ UNCHANGED <<request, entity, columns, inserts, since>>

\* remove: the DELETE by id.
Delete(k) ==
  /\ pc[k] = "loaded" /\ request[k].op = "remove"
  /\ row' = [row EXCEPT ![request[k].id] = NoRow]
  /\ Goes(k, "done")
  /\ UNCHANGED <<request, entity, columns, inserts, since>>

\* A statement fails or the process dies.
Fail(k) ==
  /\ pc[k] \in {"loaded", "saving"}
  /\ Goes(k, "failed")
  /\ UNCHANGED <<row, request, entity, columns, inserts, since>>

Next ==
  \/ \E e \in Earnings, status \in Given : Create(e, status)
  \/ \E k \in Calls : \/ \E q \in Requests : FindOne(k, q)
                      \/ Reload(k) \/ WriteColumns(k) \/ InsertRow(k) \/ Delete(k) \/ Fail(k)

Spec == Init /\ [][Next]_earningVars

----------------------------------------------------------------------------
\* Properties.

\* What a call was asked for is there.
Holds(k) ==
  LET q == request[k] IN
    IF q.op = "remove" THEN row[q.id] = NoRow
    ELSE row[q.id] # NoRow /\ \A c \in q.sets : row[q.id][c] = Value(k, q, c)

\* What another call was asked for takes the place of it.
Replaces(j, k) ==
  /\ request[j].id = request[k].id
  /\ request[j].op = "remove" \/ request[j].sets \cap request[k].sets # {}

\* What a call has answered is lost only to a call that was under way at the same
\* time, or to a later one that set the same columns or removed the earning: a payout
\* that was recorded is not undone by a change of the notes that began after it, and
\* an earning that was removed does not come back.
LostOnlyToOverlap ==
  \A k \in Calls : pc[k] = "done" =>
    Holds(k) \/ \E j \in since[k] \ {k} : pc[j] = "done" /\ (k \in since[j] \/ Replaces(j, k))
=============================================================================
