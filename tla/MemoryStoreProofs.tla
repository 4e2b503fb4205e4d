------------------------- MODULE MemoryStoreProofs -------------------------
(***************************************************************************)
(* Proofs about MemoryStore, for any pools, quotas, bodies and customers   *)
(* and any finite number of requests.                                      *)
(***************************************************************************)
EXTENDS MemoryStore, RepositoryProofs

\* The tables and the clock have their types, and a sweep visits rows that are
\* there.
MemoryTypeOK ==
  /\ RepositoryTypeOK
  /\ clock \in Nat
  /\ sweep \in SUBSET ReqIds
  /\ \A id \in sweep : Exists(id)

\* What is inductive: only a request that exists has holds, so that a new id
\* begins with none.
MemoryInv == MemoryTypeOK /\ HoldersExist /\ CountersCoverHolds


-----------------------------------------------------------------------------
(* Types, and who has holds.                                                *)


\* The types of the counters and rows after a step, and the rows that are there.
Shaped == RepositoryTypeOK /\ HoldersExist

\* A create that fits: all of its lines are taken and held.
LEMMA ReservedShape ==
  ASSUME Shaped, clock \in Nat, NEW id \in ReqIds, NEW c \in Customers, NEW key \in Keys,
         NEW b \in Bodies, CreateReservedInMemory(id, c, key, b)
  PROVE  Shaped' /\ \A i \in ReqIds : Exists(i) => Exists(i)'
<1> DEFINE row == [status |-> "RESERVED", cust |-> c, key |-> key, body |-> b,
                   created |-> clock, exp |-> clock + TTL, ext |-> 0]
           holds == [k \in Kinds |-> IF k \in PlanKinds(b) THEN "ACTIVE" ELSE "NONE"]
<1> USE DEF Shaped
<1>1. row \in Row /\ row.status = "RESERVED"
  BY TTLAssumption DEF Row, RequestStatus
<1>2. request' = [request EXCEPT ![id] = row] /\ hold' = [hold EXCEPT ![id] = holds]
  BY DEF CreateReservedInMemory, CreateReserved
<1>3. holds \in [Kinds -> HoldStatus \cup {"NONE"}]
  BY DEF HoldStatus
<1> HIDE DEF row, holds
<1>4. /\ request' \in [ReqIds -> Row \cup {NoRow}] /\ request'[id] = row
      /\ \A i \in ReqIds : i # id => request'[i] = request[i]
  BY <1>1, <1>2, InsertedRow
<1>5. /\ hold' \in [ReqIds -> [Kinds -> HoldStatus \cup {"NONE"}]]
      /\ \A i \in ReqIds : i # id => hold'[i] = hold[i]
  BY <1>2, <1>3 DEF RepositoryTypeOK
<1>6. event' \in [ReqIds -> [EventType -> Nat]]
  BY InsertedEvent DEF CreateReservedInMemory, CreateReserved, EventType
<1>7. /\ reserved' \in [Kinds -> Nat] /\ used' \in [Customers -> [Kinds -> Nat]]
      /\ dedicated' \in [Kinds -> Nat] /\ dedication' \in [ReqIds -> [Kinds -> Nat]]
  BY PlanAssumption
  DEF CreateReservedInMemory, TryReserve, EnsureAndTryConsume, RepositoryTypeOK
<1>8. \A i \in ReqIds : Exists(i) => Exists(i)'
  BY <1>1, <1>4 DEF Exists
<1>9. HoldersExist'
  BY <1>1, <1>4, <1>5 DEF HoldersExist, Exists
<1> QED BY <1>4, <1>5, <1>6, <1>7, <1>8, <1>9 DEF RepositoryTypeOK

\* A create that is rejected: some of its lines are taken, and none is held.
LEMMA RejectedShape ==
  ASSUME Shaped, clock \in Nat, NEW id \in ReqIds, NEW c \in Customers, NEW key \in Keys,
         NEW b \in Bodies, CreateRejectedInMemory(id, c, key, b)
  PROVE  Shaped' /\ \A i \in ReqIds : Exists(i) => Exists(i)'
<1> DEFINE row == [status |-> "REJECTED", cust |-> c, key |-> key, body |-> b,
                   created |-> clock, exp |-> 0, ext |-> 0]
<1> USE DEF Shaped
<1>1. row \in Row /\ row.status = "REJECTED"
  BY DEF Row, RequestStatus
<1>2. request' = [request EXCEPT ![id] = row] /\ UNCHANGED <<hold, dedicated, dedication>>
  BY DEF CreateRejectedInMemory, InsertRejected
<1> HIDE DEF row
<1>3. /\ request' \in [ReqIds -> Row \cup {NoRow}] /\ request'[id] = row
      /\ \A i \in ReqIds : i # id => request'[i] = request[i]
  BY <1>1, <1>2, InsertedRow
<1>4. event' \in [ReqIds -> [EventType -> Nat]]
  BY InsertedEvent DEF CreateRejectedInMemory, EventType
<1>5. PICK pools, before : /\ TryReserve(Part(b, pools))
                           /\ EnsureAndTryConsume(c, Part(b, before))
  BY DEF CreateRejectedInMemory
<1>6. \A S : Part(b, S) \in [Kinds -> Nat]
  BY PlanAssumption DEF Part
<1>7. reserved' \in [Kinds -> Nat] /\ used' \in [Customers -> [Kinds -> Nat]]
  BY <1>5, <1>6 DEF TryReserve, EnsureAndTryConsume, RepositoryTypeOK
<1>8. \A i \in ReqIds : Exists(i) => Exists(i)'
  BY <1>1, <1>3 DEF Exists
<1>9. HoldersExist'
  BY <1>2, <1>8 DEF HoldersExist
<1> QED BY <1>2, <1>3, <1>4, <1>7, <1>8, <1>9 DEF RepositoryTypeOK

\* A confirm moves the holds of one request and completes it.
LEMMA ConfirmedShape ==
  ASSUME Shaped, NEW id \in ReqIds, Confirm(id)
  PROVE  /\ Shaped' /\ \A i \in ReqIds : Exists(i) => Exists(i)'
         /\ request'[id].cust = request[id].cust /\ request'[id].body = request[id].body
         /\ \A k \in Kinds : hold'[id][k] = IF hold[id][k] = "ACTIVE" THEN "DEDICATED"
                                                                      ELSE hold[id][k]
         /\ \A i \in ReqIds : i # id => request'[i] = request[i] /\ hold'[i] = hold[i]
<1> DEFINE S == ListActiveHolds(id)
<1> USE DEF Shaped
<1>1. /\ Exists(id) /\ SetStatus(id, "COMPLETED") /\ insertEvent(id, "confirmed")
      /\ UpdateHoldStatus(id, S, "DEDICATED") /\ InsertDedications(id, S)
      /\ MoveReservedToDedicated(PlanOf(id), S) /\ UNCHANGED used
  BY DEF Confirm, Unexpired, Exists
<1>2. PlanOf(id) \in [Kinds -> Nat]
  BY <1>1, RowComplete
<1>3. /\ request' \in [ReqIds -> Row \cup {NoRow}] /\ request'[id].status = "COMPLETED"
      /\ request'[id].cust = request[id].cust /\ request'[id].body = request[id].body
      /\ \A i \in ReqIds : i # id => request'[i] = request[i]
  BY <1>1, SetStatusRow DEF RequestStatus
<1>4. /\ hold' \in [ReqIds -> [Kinds -> HoldStatus \cup {"NONE"}]]
      /\ \A k \in Kinds :
           hold'[id][k] = IF k \in S /\ hold[id][k] = "ACTIVE" THEN "DEDICATED" ELSE hold[id][k]
      /\ \A i \in ReqIds : i # id => hold'[i] = hold[i]
  BY <1>1, UpdatedHolds DEF HoldStatus
<1>5. \A k \in Kinds : k \in S <=> hold[id][k] = "ACTIVE"
  BY DEF ListActiveHolds
<1>6. event' \in [ReqIds -> [EventType -> Nat]]
  BY <1>1, InsertedEvent DEF EventType
<1> HIDE DEF S
<1>7. reserved' \in [Kinds -> Nat] /\ dedicated' \in [Kinds -> Nat]
  BY <1>1, <1>2 DEF MoveReservedToDedicated, RepositoryTypeOK
<1>8. dedication' \in [ReqIds -> [Kinds -> Nat]]
  BY <1>1 DEF InsertDedications, RepositoryTypeOK
<1>9. \A i \in ReqIds : Exists(i) => Exists(i)'
  BY <1>3 DEF Exists
<1>10. HoldersExist'
  BY <1>3, <1>4 DEF HoldersExist, Exists
<1> QED BY <1>1, <1>3, <1>4, <1>5, <1>6, <1>7, <1>8, <1>9, <1>10 DEF RepositoryTypeOK

\* A release moves the holds of one request and ends it if it was a reservation.
LEMMA ReleasedShape ==
  ASSUME Shaped, NEW id \in ReqIds, Exists(id), NEW to \in {"RELEASED", "EXPIRED"},
         NEW s \in {"CANCELLED", "EXPIRED"}, NEW t \in EventType, Release(id, to, s, t)
  PROVE  /\ Shaped' /\ \A i \in ReqIds : Exists(i) => Exists(i)'
         /\ request'[id].cust = request[id].cust /\ request'[id].body = request[id].body
         /\ \A k \in Kinds : hold'[id][k] = IF hold[id][k] = "ACTIVE" THEN to ELSE hold[id][k]
         /\ \A i \in ReqIds : i # id => request'[i] = request[i] /\ hold'[i] = hold[i]
<1> DEFINE S == ListActiveHolds(id)
<1> USE DEF Shaped
<1>1. /\ UpdateHoldStatus(id, S, to) /\ markTerminal(id, s, t)
      /\ ReleaseReserved(PlanOf(id), S) /\ ReleaseQuota(request[id].cust, PlanOf(id), S)
      /\ UNCHANGED <<dedicated, dedication>>
  BY DEF Release
<1>2. PlanOf(id) \in [Kinds -> Nat] /\ request[id].cust \in Customers
  BY RowComplete DEF Row
<1>3. /\ request' \in [ReqIds -> Row \cup {NoRow}] /\ request'[id].status # "NONE"
      /\ request'[id].cust = request[id].cust /\ request'[id].body = request[id].body
      /\ \A i \in ReqIds : i # id => request'[i] = request[i]
      /\ event' \in [ReqIds -> [EventType -> Nat]]
  <2>1. CASE request[id].status = "RESERVED"
    <3>1. SetStatus(id, s) /\ insertEvent(id, t)
      BY <1>1, <2>1 DEF markTerminal
    <3>2. s \in RequestStatus /\ s # "NONE"
      BY DEF RequestStatus
    <3> QED BY <3>1, <3>2, SetStatusRow, InsertedEvent
  <2>2. CASE request[id].status # "RESERVED"
    BY <1>1, <2>2 DEF markTerminal, Exists, RepositoryTypeOK
  <2> QED BY <2>1, <2>2
<1>4. /\ hold' \in [ReqIds -> [Kinds -> HoldStatus \cup {"NONE"}]]
      /\ \A k \in Kinds :
           hold'[id][k] = IF k \in S /\ hold[id][k] = "ACTIVE" THEN to ELSE hold[id][k]
      /\ \A i \in ReqIds : i # id => hold'[i] = hold[i]
  BY <1>1, UpdatedHolds DEF HoldStatus
<1>5. \A k \in Kinds : k \in S <=> hold[id][k] = "ACTIVE"
  BY DEF ListActiveHolds
<1> HIDE DEF S
<1>6. reserved' \in [Kinds -> Nat]
  BY <1>1, <1>2 DEF ReleaseReserved, RepositoryTypeOK
<1>7. used' \in [Customers -> [Kinds -> Nat]]
  BY <1>1, <1>2 DEF ReleaseQuota, RepositoryTypeOK
<1>8. \A i \in ReqIds : Exists(i) => Exists(i)'
  BY <1>3 DEF Exists
<1>9. HoldersExist'
  BY <1>3, <1>4 DEF HoldersExist, Exists
<1> QED BY <1>1, <1>3, <1>4, <1>5, <1>6, <1>7, <1>8, <1>9 DEF RepositoryTypeOK

\* An extension writes one row and no hold.
LEMMA ExtendedShape ==
  ASSUME Shaped, NEW id \in ReqIds, Extend(id)
  PROVE  /\ Shaped' /\ \A i \in ReqIds : Exists(i) => Exists(i)'
         /\ request'[id].cust = request[id].cust /\ request'[id].body = request[id].body
         /\ UNCHANGED hold
         /\ \A i \in ReqIds : i # id => request'[i] = request[i] /\ hold'[i] = hold[i]
<1> USE DEF Shaped
<1>1. /\ request[id].status = "RESERVED" /\ Exists(id)
      /\ ExtendRow(id, request[id].exp + TTL, request[id].ext + 1)
      /\ insertEvent(id, "extended")
      /\ UNCHANGED <<reserved, dedicated, used, hold, dedication>>
  BY DEF Extend, Unexpired, Exists
<1>2. request[id].exp + TTL \in Nat /\ request[id].ext + 1 \in Nat
  BY <1>1, RowComplete, TTLAssumption DEF Row
<1>3. /\ request' \in [ReqIds -> Row \cup {NoRow}]
      /\ request'[id].status = request[id].status
      /\ request'[id].cust = request[id].cust /\ request'[id].body = request[id].body
      /\ \A i \in ReqIds : i # id => request'[i] = request[i]
  BY <1>1, <1>2, ExtendedRow
<1>4. event' \in [ReqIds -> [EventType -> Nat]]
  BY <1>1, InsertedEvent DEF EventType
<1>5. \A i \in ReqIds : Exists(i) => Exists(i)'
  BY <1>3 DEF Exists
<1>6. HoldersExist'
  BY <1>1, <1>5 DEF HoldersExist
<1> QED BY <1>1, <1>3, <1>4, <1>5, <1>6 DEF RepositoryTypeOK

-----------------------------------------------------------------------------
(* The counters cover the holds.                                            *)

\* One pool and one customer's quota of it count at least what is held.
Covers(k, c) ==
  /\ HeldActive(k) <= reserved[k] /\ HeldDedicated(k) = dedicated[k]
  /\ reserved[k] + dedicated[k] <= Effective[k]
  /\ c \in Customers => HeldBy(c, k) <= used[c][k]

\* CountersCoverHolds says so of every pair.
LEMMA CoversEverywhere == CountersCoverHolds <=> \A k \in Kinds, c \in Payers : Covers(k, c)
  BY DEF CountersCoverHolds, Covers, Payers

\* A create that fits takes what it will hold.
LEMMA ReservedCovers ==
  ASSUME IsFiniteSet(ReqIds), Shaped, clock \in Nat, NEW id \in ReqIds, NEW d \in Customers,
         NEW key \in Keys, NEW b \in Bodies, CreateReservedInMemory(id, d, key, b),
         NEW k \in Kinds, NEW c \in Payers, Covers(k, c)
  PROVE  Covers(k, c)'
<1> DEFINE a == Plan[b][k]
<1>1. a \in Nat /\ reserved[k] \in Nat /\ dedicated[k] \in Nat /\ Effective[k] \in Nat
      /\ (c \in Customers => used[c][k] \in Nat)
  BY PlanAssumption, EffectiveAssumption DEF Shaped, RepositoryTypeOK
<1>2. hold[id][k] = "NONE"
  BY DEF CreateReservedInMemory, Shaped, HoldersExist
<1>3. /\ hold'[id][k] = IF a > 0 THEN "ACTIVE" ELSE "NONE"
      /\ request'[id].body = b /\ request'[id].cust = d
      /\ \A i \in ReqIds : i # id => request'[i] = request[i] /\ hold'[i] = hold[i]
  BY DEF CreateReservedInMemory, CreateReserved, PlanKinds, Shaped, RepositoryTypeOK
<1>4. Shaped'
  BY ReservedShape
<1>5. /\ HeldActive(k) \in Nat /\ HeldActive(k)' \in Nat
      /\ HeldDedicated(k) \in Nat /\ HeldDedicated(k)' \in Nat
      /\ HeldBy(c, k) \in Nat /\ HeldBy(c, k)' \in Nat
      /\ HeldActive(k)' + 0 = HeldActive(k) + (IF a > 0 THEN a ELSE 0)
      /\ HeldDedicated(k)' + 0 = HeldDedicated(k) + 0
      /\ HeldBy(c, k)' + 0 = HeldBy(c, k) + (IF d = c /\ a > 0 THEN a ELSE 0)
  BY <1>2, <1>3, <1>4, HeldChanges DEF Shaped
<1>6. /\ TryReserve(Plan[b]) /\ EnsureAndTryConsume(d, Plan[b]) /\ UNCHANGED dedicated
      /\ Short(d, b) = {}
  BY DEF CreateReservedInMemory
<1>7. /\ reserved'[k] = reserved[k] + a
      /\ c \in Customers => used'[c][k] = IF c = d THEN used[c][k] + a ELSE used[c][k]
  BY <1>6, PoolReserved, QuotaConsumed DEF Shaped
<1>8. a > 0 => a <= Effective[k] - dedicated[k] - reserved[k]
  BY <1>1, <1>6 DEF Short, PoolShort, Available, PlanKinds
<1> HIDE DEF a
<1> QED BY <1>1, <1>5, <1>6, <1>7, <1>8 DEF Covers

\* A rejected create holds nothing, and every line it took did fit.
LEMMA RejectedCovers ==
  ASSUME IsFiniteSet(ReqIds), Shaped, clock \in Nat, NEW id \in ReqIds, NEW d \in Customers,
         NEW key \in Keys, NEW b \in Bodies, CreateRejectedInMemory(id, d, key, b),
         NEW k \in Kinds, NEW c \in Payers, Covers(k, c)
  PROVE  Covers(k, c)'
<1>1. Plan[b][k] \in Nat /\ reserved[k] \in Nat /\ dedicated[k] \in Nat /\ Effective[k] \in Nat
      /\ (c \in Customers => used[c][k] \in Nat)
  BY PlanAssumption, EffectiveAssumption DEF Shaped, RepositoryTypeOK
<1>2. hold[id][k] = "NONE" /\ UNCHANGED <<hold, dedicated>>
  BY DEF CreateRejectedInMemory, Shaped, HoldersExist
<1>3. \A i \in ReqIds : i # id => request'[i] = request[i] /\ hold'[i] = hold[i]
  BY <1>2 DEF CreateRejectedInMemory, InsertRejected, Shaped, RepositoryTypeOK
<1>4. Shaped'
  BY RejectedShape
<1>5. /\ HeldActive(k) \in Nat /\ HeldActive(k)' \in Nat
      /\ HeldDedicated(k) \in Nat /\ HeldDedicated(k)' \in Nat
      /\ HeldBy(c, k) \in Nat /\ HeldBy(c, k)' \in Nat
      /\ HeldActive(k)' + 0 = HeldActive(k) + 0
      /\ HeldDedicated(k)' + 0 = HeldDedicated(k) + 0
      /\ HeldBy(c, k)' + 0 = HeldBy(c, k) + 0
  BY <1>2, <1>3, <1>4, HeldChanges DEF Shaped
<1>6. PICK j \in Short(d, b) :
        LET before == LinesBefore(b, j)
            pools == IF PoolShort(b, j) THEN before ELSE before \cup {j}
        IN /\ before \cap Short(d, b) = {}
           /\ TryReserve(Part(b, pools))
           /\ EnsureAndTryConsume(d, Part(b, before))
  BY DEF CreateRejectedInMemory
<1> DEFINE before == LinesBefore(b, j)
           pools == IF PoolShort(b, j) THEN before ELSE before \cup {j}
           a == Part(b, pools)[k]
           q == Part(b, before)[k]
<1>7. a \in Nat /\ q \in Nat
  BY <1>1 DEF Part
<1>8. a > 0 => a <= Effective[k] - dedicated[k] - reserved[k]
  <2>1. SUFFICES ASSUME a > 0
                 PROVE  a <= Effective[k] - dedicated[k] - reserved[k]
    OBVIOUS
  <2>2. k \in pools /\ a = Plan[b][k]
    BY <2>1 DEF Part
  <2>3. ~PoolShort(b, k)
    <3>1. CASE k \in before
      BY <1>6, <3>1 DEF Short, LinesBefore
    <3>2. CASE k \notin before
      BY <2>2, <3>2
    <3> QED BY <3>1, <3>2
  <2> QED BY <1>1, <2>2, <2>3 DEF PoolShort, Available
<1>9. /\ reserved'[k] = reserved[k] + a
      /\ c \in Customers => used'[c][k] = IF c = d THEN used[c][k] + q ELSE used[c][k]
  BY <1>6, PoolReserved, QuotaConsumed DEF Shaped
<1> HIDE DEF a, q, before, pools
<1> QED BY <1>1, <1>2, <1>5, <1>7, <1>8, <1>9 DEF Covers

\* The pool counter is long enough for a hold that is active, so a confirm moves
\* exactly what the hold stands for.
LEMMA ConfirmedCovers ==
  ASSUME IsFiniteSet(ReqIds), Shaped, NEW id \in ReqIds, Confirm(id),
         NEW k \in Kinds, NEW c \in Payers, Covers(k, c)
  PROVE  Covers(k, c)'
<1> DEFINE a == Plan[request[id].body][k]
           h == hold[id][k]
           j == hold'[id][k]
           both == {"ACTIVE", "DEDICATED"}
<1>1. Exists(id)
  BY DEF Confirm, Unexpired, Exists
<1>2. /\ a \in Nat /\ reserved[k] \in Nat /\ dedicated[k] \in Nat /\ Effective[k] \in Nat
      /\ (c \in Customers => used[c][k] \in Nat)
  BY <1>1, RowComplete, EffectiveAssumption DEF Shaped, RepositoryTypeOK, PlanOf
<1>3. /\ Shaped' /\ request'[id].cust = request[id].cust
      /\ request'[id].body = request[id].body
      /\ j = IF h = "ACTIVE" THEN "DEDICATED" ELSE h
      /\ \A i \in ReqIds : i # id => request'[i] = request[i] /\ hold'[i] = hold[i]
  BY ConfirmedShape
<1>4. /\ HeldActive(k) \in Nat /\ HeldActive(k)' \in Nat
      /\ HeldDedicated(k) \in Nat /\ HeldDedicated(k)' \in Nat
      /\ HeldBy(c, k) \in Nat /\ HeldBy(c, k)' \in Nat
      /\ HeldActive(k)' + (IF h = "ACTIVE" THEN a ELSE 0)
           = HeldActive(k) + (IF j = "ACTIVE" THEN a ELSE 0)
      /\ HeldDedicated(k)' + (IF h = "DEDICATED" THEN a ELSE 0)
           = HeldDedicated(k) + (IF j = "DEDICATED" THEN a ELSE 0)
      /\ HeldBy(c, k)' + (IF request[id].cust = c /\ h \in both THEN a ELSE 0)
           = HeldBy(c, k) + (IF request[id].cust = c /\ j \in both THEN a ELSE 0)
      /\ h = "ACTIVE" => a <= HeldActive(k)
  BY <1>3, HeldChanges DEF Shaped
<1>5. MoveReservedToDedicated(PlanOf(id), ListActiveHolds(id)) /\ UNCHANGED used
  BY DEF Confirm
<1>6. PlanOf(id)[k] = a /\ (k \in ListActiveHolds(id) <=> h = "ACTIVE")
  BY DEF PlanOf, ListActiveHolds
<1>7. IF h = "ACTIVE" /\ reserved[k] >= a
      THEN reserved'[k] = reserved[k] - a /\ dedicated'[k] = dedicated[k] + a
      ELSE reserved'[k] = reserved[k] /\ dedicated'[k] = dedicated[k]
  BY <1>5, <1>6, PoolMoved
<1> HIDE DEF a, h, j
<1>8. CASE h = "ACTIVE"
  <2>1. j = "DEDICATED" /\ reserved[k] >= a
    BY <1>2, <1>3, <1>4, <1>8 DEF Covers
  <2> QED BY <1>2, <1>4, <1>5, <1>7, <1>8, <2>1 DEF Covers
<1>9. CASE h # "ACTIVE"
  <2>1. j = h
    BY <1>3, <1>9
  <2> QED BY <1>2, <1>4, <1>5, <1>7, <1>9, <2>1 DEF Covers
<1> QED BY <1>8, <1>9

\* A release takes off no more than the holds it ends stand for.
LEMMA ReleasedCovers ==
  ASSUME IsFiniteSet(ReqIds), Shaped, NEW id \in ReqIds, Exists(id),
         NEW to \in {"RELEASED", "EXPIRED"}, NEW s \in {"CANCELLED", "EXPIRED"},
         NEW t \in EventType, Release(id, to, s, t),
         NEW k \in Kinds, NEW c \in Payers, Covers(k, c)
  PROVE  Covers(k, c)'
<1> DEFINE a == Plan[request[id].body][k]
           d == request[id].cust
           h == hold[id][k]
           j == hold'[id][k]
           both == {"ACTIVE", "DEDICATED"}
<1>1. /\ a \in Nat /\ reserved[k] \in Nat /\ dedicated[k] \in Nat /\ Effective[k] \in Nat
      /\ (c \in Customers => used[c][k] \in Nat) /\ d \in Customers
  BY RowComplete, EffectiveAssumption DEF Shaped, RepositoryTypeOK, PlanOf, Row
<1>2. /\ Shaped' /\ request'[id].cust = request[id].cust
      /\ request'[id].body = request[id].body
      /\ j = IF h = "ACTIVE" THEN to ELSE h
      /\ \A i \in ReqIds : i # id => request'[i] = request[i] /\ hold'[i] = hold[i]
  BY ReleasedShape
<1>3. /\ HeldActive(k) \in Nat /\ HeldActive(k)' \in Nat
      /\ HeldDedicated(k) \in Nat /\ HeldDedicated(k)' \in Nat
      /\ HeldBy(c, k) \in Nat /\ HeldBy(c, k)' \in Nat
      /\ HeldActive(k)' + (IF h = "ACTIVE" THEN a ELSE 0)
           = HeldActive(k) + (IF j = "ACTIVE" THEN a ELSE 0)
      /\ HeldDedicated(k)' + (IF h = "DEDICATED" THEN a ELSE 0)
           = HeldDedicated(k) + (IF j = "DEDICATED" THEN a ELSE 0)
      /\ HeldBy(c, k)' + (IF d = c /\ h \in both THEN a ELSE 0)
           = HeldBy(c, k) + (IF d = c /\ j \in both THEN a ELSE 0)
      /\ h = "ACTIVE" => a <= HeldActive(k)
  BY <1>2, HeldChanges DEF Shaped
<1>4. /\ ReleaseReserved(PlanOf(id), ListActiveHolds(id))
      /\ ReleaseQuota(d, PlanOf(id), ListActiveHolds(id)) /\ UNCHANGED dedicated
  BY DEF Release
<1>5. PlanOf(id)[k] = a /\ (k \in ListActiveHolds(id) <=> h = "ACTIVE")
  BY DEF PlanOf, ListActiveHolds
<1>6. reserved'[k] = IF h = "ACTIVE" /\ reserved[k] >= a THEN reserved[k] - a ELSE reserved[k]
  BY <1>4, <1>5, PoolReleased
<1>7. c \in Customers =>
        used'[c][k] = IF c = d /\ h = "ACTIVE"
                      THEN IF used[c][k] >= a THEN used[c][k] - a ELSE 0
                      ELSE used[c][k]
  BY <1>1, <1>4, <1>5, QuotaReleased DEF Shaped
<1> HIDE DEF a, d, h, j
<1>8. CASE h = "ACTIVE"
  <2>1. j \notin both /\ j # "ACTIVE" /\ j # "DEDICATED"
    BY <1>2, <1>8
  <2> QED BY <1>1, <1>3, <1>4, <1>6, <1>7, <1>8, <2>1 DEF Covers
<1>9. CASE h # "ACTIVE"
  <2>1. j = h
    BY <1>2, <1>9
  <2> QED BY <1>1, <1>3, <1>4, <1>6, <1>7, <1>9, <2>1 DEF Covers
<1> QED BY <1>8, <1>9

\* An extension moves no hold and no counter.
LEMMA ExtendedCovers ==
  ASSUME IsFiniteSet(ReqIds), Shaped, NEW id \in ReqIds, Extend(id),
         NEW k \in Kinds, NEW c \in Payers, Covers(k, c)
  PROVE  Covers(k, c)'
<1> DEFINE a == Plan[request[id].body][k]
           h == hold[id][k]
           both == {"ACTIVE", "DEDICATED"}
<1>1. a \in Nat
  BY RowComplete DEF Extend, Unexpired, Exists, Shaped, PlanOf
<1>2. /\ Shaped' /\ request'[id].cust = request[id].cust
      /\ request'[id].body = request[id].body /\ UNCHANGED hold
      /\ \A i \in ReqIds : i # id => request'[i] = request[i] /\ hold'[i] = hold[i]
  BY ExtendedShape
<1>3. /\ HeldActive(k) \in Nat /\ HeldActive(k)' \in Nat
      /\ HeldDedicated(k) \in Nat /\ HeldDedicated(k)' \in Nat
      /\ HeldBy(c, k) \in Nat /\ HeldBy(c, k)' \in Nat
      /\ HeldActive(k)' + (IF h = "ACTIVE" THEN a ELSE 0)
           = HeldActive(k) + (IF h = "ACTIVE" THEN a ELSE 0)
      /\ HeldDedicated(k)' + (IF h = "DEDICATED" THEN a ELSE 0)
           = HeldDedicated(k) + (IF h = "DEDICATED" THEN a ELSE 0)
      /\ HeldBy(c, k)' + (IF request[id].cust = c /\ h \in both THEN a ELSE 0)
           = HeldBy(c, k) + (IF request[id].cust = c /\ h \in both THEN a ELSE 0)
  BY <1>2, HeldChanges DEF Shaped
<1> HIDE DEF a, h
<1>4. /\ HeldActive(k)' = HeldActive(k) /\ HeldDedicated(k)' = HeldDedicated(k)
      /\ HeldBy(c, k)' = HeldBy(c, k)
  BY <1>1, <1>3
<1>5. UNCHANGED <<reserved, dedicated, used>>
  BY DEF Extend
<1> QED BY <1>4, <1>5 DEF Covers

-----------------------------------------------------------------------------
(* Every step.                                                              *)

\* What a step has to keep, given what it does to the rows.
LEMMA StepKeeps ==
  ASSUME MemoryInv, Shaped', clock' \in Nat, sweep' \in SUBSET sweep,
         \A i \in ReqIds : Exists(i) => Exists(i)',
         \A k \in Kinds, c \in Payers : Covers(k, c)'
  PROVE  MemoryInv'
<1>1. MemoryTypeOK' /\ HoldersExist'
  BY DEF MemoryInv, MemoryTypeOK, Shaped
<1>2. CountersCoverHolds'
  BY DEF CountersCoverHolds, Covers, Payers
<1> QED BY <1>1, <1>2 DEF MemoryInv

\* A release, by Cancel or by a sweep.
LEMMA ReleaseKeeps ==
  ASSUME IsFiniteSet(ReqIds), MemoryInv, NEW id \in ReqIds, Exists(id),
         NEW to \in {"RELEASED", "EXPIRED"}, NEW s \in {"CANCELLED", "EXPIRED"},
         NEW t \in EventType, Release(id, to, s, t), sweep' \in SUBSET sweep
  PROVE  MemoryInv'
<1>1. Shaped /\ clock \in Nat /\ \A k \in Kinds, c \in Payers : Covers(k, c)
  BY CoversEverywhere DEF MemoryInv, MemoryTypeOK, Shaped
<1>2. Shaped' /\ \A i \in ReqIds : Exists(i) => Exists(i)'
  BY <1>1, ReleasedShape
<1>3. \A k \in Kinds, c \in Payers : Covers(k, c)'
  BY <1>1, ReleasedCovers
<1>4. UNCHANGED clock
  BY DEF Release
<1> QED BY <1>1, <1>2, <1>3, <1>4, StepKeeps

\* MemoryInv is inductive.
LEMMA MemoryStep ==
  ASSUME IsFiniteSet(ReqIds)
  PROVE  MemoryInv /\ [MemoryNext]_mvars => MemoryInv'
<1> SUFFICES ASSUME MemoryInv, [MemoryNext]_mvars
             PROVE  MemoryInv'
  OBVIOUS
<1>1. /\ Shaped /\ clock \in Nat /\ sweep \in SUBSET ReqIds /\ \A id \in sweep : Exists(id)
      /\ \A k \in Kinds, c \in Payers : Covers(k, c)
  BY CoversEverywhere DEF MemoryInv, MemoryTypeOK, Shaped
<1>2. ASSUME NEW id \in ReqIds, NEW d \in Customers, NEW key \in Keys, NEW b \in Bodies,
             CreateReservedInMemory(id, d, key, b)
      PROVE  MemoryInv'
  <2>1. Shaped' /\ \A i \in ReqIds : Exists(i) => Exists(i)'
    BY <1>1, <1>2, ReservedShape
  <2>2. \A k \in Kinds, c \in Payers : Covers(k, c)'
    BY <1>1, <1>2, ReservedCovers
  <2>3. UNCHANGED <<clock, sweep>>
    BY <1>2 DEF CreateReservedInMemory
  <2> QED BY <1>1, <2>1, <2>2, <2>3, StepKeeps
<1>3. ASSUME NEW id \in ReqIds, NEW d \in Customers, NEW key \in Keys, NEW b \in Bodies,
             CreateRejectedInMemory(id, d, key, b)
      PROVE  MemoryInv'
  <2>1. Shaped' /\ \A i \in ReqIds : Exists(i) => Exists(i)'
    BY <1>1, <1>3, RejectedShape
  <2>2. \A k \in Kinds, c \in Payers : Covers(k, c)'
    BY <1>1, <1>3, RejectedCovers
  <2>3. UNCHANGED <<clock, sweep>>
    BY <1>3 DEF CreateRejectedInMemory
  <2> QED BY <1>1, <2>1, <2>2, <2>3, StepKeeps
<1>4. ASSUME NEW id \in ReqIds, Confirm(id)
      PROVE  MemoryInv'
  <2>1. Shaped' /\ \A i \in ReqIds : Exists(i) => Exists(i)'
    BY <1>1, <1>4, ConfirmedShape
  <2>2. \A k \in Kinds, c \in Payers : Covers(k, c)'
    BY <1>1, <1>4, ConfirmedCovers
  <2>3. UNCHANGED <<clock, sweep>>
    BY <1>4 DEF Confirm
  <2> QED BY <1>1, <2>1, <2>2, <2>3, StepKeeps
<1>5. ASSUME NEW id \in ReqIds, Cancel(id)
      PROVE  MemoryInv'
  <2>1. Exists(id) /\ Release(id, "RELEASED", "CANCELLED", "cancelled") /\ UNCHANGED sweep
    BY <1>5 DEF Cancel, Exists
  <2>2. "cancelled" \in EventType
    BY DEF EventType
  <2> QED BY <2>1, <2>2, ReleaseKeeps
<1>6. ASSUME NEW id \in ReqIds, ExpireDueNext(id)
      PROVE  MemoryInv'
  <2>1. /\ Exists(id) /\ Release(id, "EXPIRED", "EXPIRED", "expired")
        /\ sweep' \in SUBSET sweep
    BY <1>1, <1>6 DEF ExpireDueNext
  <2>2. "expired" \in EventType
    BY DEF EventType
  <2> QED BY <2>1, <2>2, ReleaseKeeps
<1>7. ASSUME NEW id \in ReqIds, Extend(id)
      PROVE  MemoryInv'
  <2>1. Shaped' /\ \A i \in ReqIds : Exists(i) => Exists(i)'
    BY <1>1, <1>7, ExtendedShape
  <2>2. \A k \in Kinds, c \in Payers : Covers(k, c)'
    BY <1>1, <1>7, ExtendedCovers
  <2>3. UNCHANGED <<clock, sweep>>
    BY <1>7 DEF Extend
  <2> QED BY <1>1, <2>1, <2>2, <2>3, StepKeeps
<1>8. ASSUME UNCHANGED db, clock' \in Nat, sweep' \in SUBSET ReqIds,
             \A id \in sweep' : request[id].status # "NONE"
      PROVE  MemoryInv'
  <2>1. MemoryTypeOK' /\ HoldersExist'
    BY <1>8 DEF MemoryInv, MemoryTypeOK, RepositoryTypeOK, HoldersExist, Exists, db
  <2>2. \A k \in Kinds, c \in Payers : Covers(k, c)'
    BY <1>1, <1>8, HeldUntouched DEF Covers, db
  <2>3. CountersCoverHolds'
    BY <2>2 DEF CountersCoverHolds, Covers, Payers
  <2> QED BY <2>1, <2>3 DEF MemoryInv
<1>9. CASE ExpireDueList
  BY <1>1, <1>8, <1>9 DEF ExpireDueList, Due
<1>10. CASE Advance
  BY <1>1, <1>8, <1>10 DEF Advance, Exists
<1>11. CASE UNCHANGED mvars
  BY <1>1, <1>8, <1>11 DEF mvars, Exists
<1> QED BY <1>2, <1>3, <1>4, <1>5, <1>6, <1>7, <1>9, <1>10, <1>11 DEF MemoryNext

\* Over the fakes of the tests too no pool is promised beyond its capacity, what
\* is dedicated is counted exactly, and pools and quotas count at least what is
\* held, although nothing a failing create has written is rolled back.
THEOREM FakesCoverHolds ==
  ASSUME IsFiniteSet(ReqIds)
  PROVE  MemorySpec => []CountersCoverHolds
<1>1. ASSUME MemoryInit
      PROVE  MemoryInv
  <2>1. MemoryTypeOK /\ HoldersExist
    BY <1>1 DEF MemoryInit, RepositoryInit, MemoryTypeOK, RepositoryTypeOK, HoldersExist
  <2>2. ASSUME NEW k \in Kinds, NEW c \in Payers
        PROVE  HeldActive(k) = 0 /\ HeldDedicated(k) = 0 /\ HeldBy(c, k) = 0
    BY <1>1, NothingHeld DEF MemoryInit
  <2>3. /\ \A k \in Kinds : reserved[k] = 0 /\ dedicated[k] = 0
        /\ \A k \in Kinds, c \in Customers : used[c][k] = 0
    BY <1>1 DEF MemoryInit, RepositoryInit
  <2>4. ASSUME NEW k \in Kinds, NEW c \in Payers
        PROVE  Covers(k, c)
    BY <2>2, <2>3, EffectiveAssumption DEF Covers
  <2> QED BY <2>1, <2>4, CoversEverywhere DEF MemoryInv
<1>2. MemoryInv => CountersCoverHolds
  BY DEF MemoryInv
<1> QED BY <1>1, <1>2, MemoryStep, PTL DEF MemorySpec
=============================================================================
