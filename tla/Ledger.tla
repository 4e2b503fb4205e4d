------------------------------- MODULE Ledger -------------------------------
(***************************************************************************)
(* RequestLife with the books kept exactly: every reservation fits when it *)
(* is made, and pool and quota counters move with the status of a request, *)
(* by the amounts of its plan, and never otherwise.  The service keeps     *)
(* them so only while no two calls on one request overlap.                 *)
(***************************************************************************)
EXTENDS RequestLife, Integers

CONSTANTS Plan, Effective, Limit

VARIABLES reserved, dedicated, used

books == <<reserved, dedicated, used>>

LedgerInit ==
  /\ Init
  /\ reserved = [k \in Kinds |-> 0]
  /\ dedicated = [k \in Kinds |-> 0]
  /\ used = [c \in Customers |-> [k \in Kinds |-> 0]]

Shift(counter, b, sign) == [k \in Kinds |-> counter[k] + sign * Plan[b][k]]
ShiftUsed(c, b, sign) == used' = [used EXCEPT ![c] = Shift(used[c], b, sign)]

Admit(id, c, key, b) ==
  /\ Reserve(id, c, key, b)
  /\ \A k \in Kinds : Plan[b][k] > 0 =>
       /\ reserved[k] + dedicated[k] + Plan[b][k] <= Effective[k]
       /\ used[c][k] + Plan[b][k] <= Limit[c][k]
  /\ reserved' = Shift(reserved, b, 1)
  /\ ShiftUsed(c, b, 1)
  /\ UNCHANGED dedicated

Dedicate(id) ==
  /\ Confirm(id)
  /\ reserved' = Shift(reserved, row[id].body, -1)
  /\ dedicated' = Shift(dedicated, row[id].body, 1)
  /\ UNCHANGED used

GiveBack(id) ==
  /\ Cancel(id) \/ Expire(id)
  /\ reserved' = Shift(reserved, row[id].body, -1)
  /\ ShiftUsed(row[id].cust, row[id].body, -1)
  /\ UNCHANGED dedicated

LedgerNext ==
  \E id \in ReqIds :
    \/ \E c \in Customers, key \in Keys, b \in Bodies :
          \/ Admit(id, c, key, b)
          \/ Reject(id, c, key, b) /\ UNCHANGED books
    \/ Dedicate(id) \/ GiveBack(id)

LedgerSpec == LedgerInit /\ [][LedgerNext]_<<life, books>>
=============================================================================
