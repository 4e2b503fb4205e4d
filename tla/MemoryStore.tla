---------------------------- MODULE MemoryStore ----------------------------
(***************************************************************************)
(* The service over the in-process fakes of internal/repository/memory, as *)
(* the unit tests drive it: one call after the other.  The maps of the     *)
(* fakes are the tables of Repository and most of their methods are its    *)
(* statements; what differs is here.  Tx.WithinTx is its function and      *)
(* nothing else, so what a failing call has written stays; requests are    *)
(* found by the joined string of customer and key; a sweep meets its       *)
(* requests in the order of a Go map.                                      *)
(***************************************************************************)
EXTENDS CapacityAccounting

CONSTANTS
  PoolId,         \* PoolId[k]: the id of the pool of kind k
  TTL, MaxExtensions, Wall, MaxActive,   \* as in CapacityService
  IdemKey,        \* IdemKey[c][key]: customerID + ":" + key
  MaxTime         \* bound: the tests' Clock stops here

ASSUME PoolIdAssumption == /\ PoolId \in [Kinds -> Nat]
                           /\ \A j, k \in Kinds : PoolId[j] = PoolId[k] => j = k
ASSUME TTLAssumption == TTL \in Nat

VARIABLES
  clock,   \* Clock.now
  sweep    \* the ids ExpireDue has yet to visit; a call begins when it is {}

mvars == <<db, clock, sweep>>

MemoryInit == RepositoryInit /\ clock = 0 /\ sweep = {}

\* No call is in progress.
Between == sweep = {}

\* idemIndex and requests are only written together.
FindByIndex(c, key) ==
  {id \in ReqIds : Exists(id) /\ IdemKey[request[id].cust][request[id].key] = IdemKey[c][key]}

-----------------------------------------------------------------------------
(* CreateRequest. *)

Admitted(c, key) ==
  /\ Between
  /\ FindByIndex(c, key) = {}
  /\ MaxActive > 0 => CountActiveHoldsByCustomer(c) < MaxActive

PoolShort(b, k) == Available(k) < Plan[b][k]
QuotaShort(c, b, k) == Limit[c][k] - used[c][k] < Plan[b][k]

\* The lines at which the loop of reserveWithinTx would stop.
Short(c, b) == {k \in PlanKinds(b) : PoolShort(b, k) \/ QuotaShort(c, b, k)}

\* The loop takes the lines in the order of their pools' ids.
LinesBefore(b, k) == {j \in PlanKinds(b) : PoolId[j] < PoolId[k]}

\* The amounts of the body b on the kinds S, 0 on the others.
Part(b, S) == [k \in Kinds |-> IF k \in S THEN Plan[b][k] ELSE 0]

CreateReservedInMemory(id, c, key, b) ==
  /\ Admitted(c, key) /\ ~Exists(id)
  /\ Short(c, b) = {}
  /\ TryReserve(Plan[b])
  /\ EnsureAndTryConsume(c, Plan[b])
  /\ CreateReserved(id, c, key, b, clock, clock + TTL)
  /\ UNCHANGED <<dedicated, dedication, clock, sweep>>

\* Mutant: a rejection takes back every line of the plan, taken or not.
CreateRejectedReleasingAll(id, c, key, b) ==
  \E k \in Short(c, b) :
    LET notTaken == PlanKinds(b) \ LinesBefore(b, k)
    IN /\ Admitted(c, key) /\ ~Exists(id)
       /\ LinesBefore(b, k) \cap Short(c, b) = {}
       /\ ReleaseReserved(Plan[b], notTaken)
       /\ ReleaseQuota(c, Plan[b], notTaken)
       /\ InsertRejected(id, c, key, b, clock)
       /\ insertEvent(id, "rejected")
       /\ UNCHANGED <<dedicated, hold, dedication, clock, sweep>>

\* The line of kind k is the first to fall short: what the lines before it took,
\* and its own pool if it is the quota that is short, stays taken, and the
\* request is stored as rejected.
CreateRejectedInMemory(id, c, key, b) ==
  \E k \in Short(c, b) :
    LET before == LinesBefore(b, k)
        pools == IF PoolShort(b, k) THEN before ELSE before \cup {k}
    IN /\ Admitted(c, key) /\ ~Exists(id)
       /\ before \cap Short(c, b) = {}
       /\ TryReserve(Part(b, pools))
       /\ EnsureAndTryConsume(c, Part(b, before))
       /\ InsertRejected(id, c, key, b, clock)
       /\ insertEvent(id, "rejected")
       /\ UNCHANGED <<dedicated, hold, dedication, clock, sweep>>

-----------------------------------------------------------------------------
(* Confirm, Cancel, Extend, ExpireDue. *)

Unexpired(id) == request[id].status = "RESERVED" /\ request[id].exp > clock

Confirm(id) ==
  /\ Between /\ Unexpired(id)
  /\ LET S == ListActiveHolds(id) IN
       /\ MoveReservedToDedicated(PlanOf(id), S)
       /\ UpdateHoldStatus(id, S, "DEDICATED")
       /\ InsertDedications(id, S)
  /\ SetStatus(id, "COMPLETED")
  /\ insertEvent(id, "confirmed")
  /\ UNCHANGED <<used, clock, sweep>>

\* releaseReserved.
Release(id, to, s, t) ==
  LET S == ListActiveHolds(id) IN
  /\ ReleaseReserved(PlanOf(id), S)
  /\ ReleaseQuota(request[id].cust, PlanOf(id), S)
  /\ UpdateHoldStatus(id, S, to)
  /\ markTerminal(id, s, t)
  /\ UNCHANGED <<dedicated, dedication, clock>>

Cancel(id) ==
  /\ Between /\ request[id].status = "RESERVED"
  /\ Release(id, "RELEASED", "CANCELLED", "cancelled")
  /\ UNCHANGED sweep

Extend(id) ==
  LET newExp == request[id].exp + TTL IN
  /\ Between /\ Unexpired(id)
  /\ request[id].ext < MaxExtensions
  /\ request[id].created + Wall >= newExp
  /\ ExtendRow(id, newExp, request[id].ext + 1)
  /\ insertEvent(id, "extended")
  /\ UNCHANGED <<reserved, dedicated, used, hold, dedication, clock, sweep>>

\* ListExpiredIDs stops at the limit wherever the map's order has taken it.
ExpireDueList ==
  /\ Between
  /\ \E ids \in SUBSET Due(clock) :
       /\ ids # {}
       /\ Cardinality(ids) <= BatchSize
       /\ Cardinality(ids) < BatchSize => ids = Due(clock)
       /\ sweep' = ids
  /\ UNCHANGED <<db, clock>>

ExpireDueNext(id) ==
  /\ id \in sweep
  /\ Release(id, "EXPIRED", "EXPIRED", "expired")
  /\ sweep' = sweep \ {id}

Advance ==
  /\ Between /\ clock < MaxTime
  /\ clock' = clock + 1
  /\ UNCHANGED <<db, sweep>>

MemoryNext ==
  \/ \E id \in ReqIds, c \in Customers, key \in Keys, b \in Bodies :
        CreateReservedInMemory(id, c, key, b) \/ CreateRejectedInMemory(id, c, key, b)
  \/ \E id \in ReqIds : Confirm(id) \/ Cancel(id) \/ Extend(id) \/ ExpireDueNext(id)
  \/ ExpireDueList
  \/ Advance

MemorySpec == MemoryInit /\ [][MemoryNext]_mvars

-----------------------------------------------------------------------------
\* Amounts taken by rejected calls are never given back, so the counters may
\* overstate what is held; they never understate it, and no test over the fakes
\* can see capacity granted that is not there.
CountersCoverHolds ==
  /\ \A k \in Kinds : /\ HeldActive(k) <= reserved[k]
                      /\ HeldDedicated(k) = dedicated[k]
                      /\ reserved[k] + dedicated[k] <= Effective[k]
  /\ \A c \in Customers, k \in Kinds : HeldBy(c, k) <= used[c][k]
=============================================================================
