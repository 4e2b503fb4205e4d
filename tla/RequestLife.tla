---------------------------- MODULE RequestLife ----------------------------
(***************************************************************************)
(* What the service promises about one capacity request, whoever calls:    *)
(* its status, its holds and its dedications change together, in one step, *)
(* along the transitions of domain.ValidateTransition, and a customer has  *)
(* at most one request per idempotency key.  No counters, no clock, no     *)
(* processes.                                                              *)
(***************************************************************************)
CONSTANTS ReqIds, Customers, Keys, Bodies, Kinds,
          Lines,   \* Lines[b]: the kinds the body b asks for
          None

VARIABLES
  row,         \* row[id]: status of the request and what it was made for
  hold,        \* hold[id][k]: status of its hold on kind k
  dedication   \* dedication[id][k]: dedications made for that hold

life == <<row, hold, dedication>>

NoRow == [status |-> "NONE", cust |-> None, key |-> None, body |-> None]

Init ==
  /\ row = [id \in ReqIds |-> NoRow]
  /\ hold = [id \in ReqIds |-> [k \in Kinds |-> "NONE"]]
  /\ dedication = [id \in ReqIds |-> [k \in Kinds |-> 0]]

SetHolds(id, b, s) ==
  hold' = [hold EXCEPT ![id] = [k \in Kinds |-> IF k \in Lines[b] THEN s ELSE "NONE"]]

\* The key is free for this customer and the id is new.
Fresh(id, c, key) ==
  /\ row[id] = NoRow
  /\ \A i \in ReqIds : ~(row[i].cust = c /\ row[i].key = key /\ row[i] # NoRow)

Reserve(id, c, key, b) ==
  /\ Fresh(id, c, key)
  /\ row' = [row EXCEPT ![id] = [status |-> "RESERVED", cust |-> c, key |-> key, body |-> b]]
  /\ SetHolds(id, b, "ACTIVE")
  /\ UNCHANGED dedication

Reject(id, c, key, b) ==
  /\ Fresh(id, c, key)
  /\ row' = [row EXCEPT ![id] = [status |-> "REJECTED", cust |-> c, key |-> key, body |-> b]]
  /\ UNCHANGED <<hold, dedication>>

Confirm(id) ==
  /\ row[id].status = "RESERVED"
  /\ row' = [row EXCEPT ![id].status = "COMPLETED"]
  /\ SetHolds(id, row[id].body, "DEDICATED")
  /\ dedication' = [dedication EXCEPT ![id] =
       [k \in Kinds |-> IF k \in Lines[row[id].body] THEN 1 ELSE 0]]

Cancel(id) ==
  /\ row[id].status = "RESERVED"
  /\ row' = [row EXCEPT ![id].status = "CANCELLED"]
  /\ SetHolds(id, row[id].body, "RELEASED")
  /\ UNCHANGED dedication

Expire(id) ==
  /\ row[id].status = "RESERVED"
  /\ row' = [row EXCEPT ![id].status = "EXPIRED"]
  /\ SetHolds(id, row[id].body, "EXPIRED")
  /\ UNCHANGED dedication

Next ==
  \E id \in ReqIds :
    \/ \E c \in Customers, key \in Keys, b \in Bodies :
          Reserve(id, c, key, b) \/ Reject(id, c, key, b)
    \/ Confirm(id) \/ Cancel(id) \/ Expire(id)

Spec == Init /\ [][Next]_life
=============================================================================
