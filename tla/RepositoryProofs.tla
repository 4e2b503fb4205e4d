-------------------------- MODULE RepositoryProofs --------------------------
(***************************************************************************)
(* What the statements of Repository write, and what they leave alone, and *)
(* what happens to a sum when one amount joins it or leaves it: the lemmas *)
(* that the proofs about the service, about its transactions and about the *)
(* fakes of the tests use.                                                 *)
(***************************************************************************)
EXTENDS CapacityAccounting, FiniteSetTheorems, TLAPS

-----------------------------------------------------------------------------
(* The rows of capacity_requests: what each statement writes.               *)

\* A row that exists is complete.
LEMMA RowComplete ==
  ASSUME RepositoryTypeOK, NEW id \in ReqIds, Exists(id)
  PROVE  request[id] \in Row /\ PlanOf(id) \in [Kinds -> Nat]
  BY PlanAssumption DEF RepositoryTypeOK, Exists, Row, NoRow, PlanOf

\* SetStatus changes the status of one row and nothing else.
LEMMA SetStatusRow ==
  ASSUME RepositoryTypeOK, NEW id \in ReqIds, Exists(id), NEW s \in RequestStatus,
         SetStatus(id, s)
  PROVE  /\ request' \in [ReqIds -> Row \cup {NoRow}]
         /\ request'[id].status = s
         /\ request'[id].cust = request[id].cust /\ request'[id].key = request[id].key
         /\ request'[id].body = request[id].body
         /\ request'[id].created = request[id].created
         /\ request'[id].exp = request[id].exp /\ request'[id].ext = request[id].ext
         /\ \A i \in ReqIds : i # id => request'[i] = request[i]
<1>1. request[id] \in Row
  BY RowComplete
<1> DEFINE new == [request[id] EXCEPT !.status = s]
<1>2. /\ new \in Row /\ new.status = s
      /\ new.cust = request[id].cust /\ new.key = request[id].key
      /\ new.body = request[id].body /\ new.created = request[id].created
      /\ new.exp = request[id].exp /\ new.ext = request[id].ext
  BY <1>1 DEF Row
<1>3. request' = [request EXCEPT ![id] = new]
  BY DEF SetStatus
<1> HIDE DEF new
<1> QED BY <1>2, <1>3 DEF RepositoryTypeOK

\* ExtendRow changes the expiry and the count of one row and nothing else.
LEMMA ExtendedRow ==
  ASSUME RepositoryTypeOK, NEW id \in ReqIds, Exists(id),
         NEW exp \in Nat, NEW ext \in Nat, ExtendRow(id, exp, ext)
  PROVE  /\ request' \in [ReqIds -> Row \cup {NoRow}]
         /\ request'[id].exp = exp /\ request'[id].ext = ext
         /\ request'[id].status = request[id].status
         /\ request'[id].cust = request[id].cust /\ request'[id].key = request[id].key
         /\ request'[id].body = request[id].body
         /\ request'[id].created = request[id].created
         /\ \A i \in ReqIds : i # id => request'[i] = request[i]
<1>1. request[id] \in Row
  BY RowComplete
<1> DEFINE new == [status |-> request[id].status, cust |-> request[id].cust,
                   key |-> request[id].key, body |-> request[id].body,
                   created |-> request[id].created, exp |-> exp, ext |-> ext]
<1>2. new \in Row
  BY <1>1 DEF Row
<1>3. request' = [request EXCEPT ![id] = new]
  BY DEF ExtendRow
<1> QED BY <1>2, <1>3 DEF RepositoryTypeOK

\* A new row.
LEMMA InsertedRow ==
  ASSUME RepositoryTypeOK, NEW id \in ReqIds, NEW row \in Row,
         request' = [request EXCEPT ![id] = row]
  PROVE  /\ request' \in [ReqIds -> Row \cup {NoRow}]
         /\ request'[id] = row
         /\ \A i \in ReqIds : i # id => request'[i] = request[i]
  BY DEF RepositoryTypeOK

\* insertEvent counts one event of one request and nothing else.
LEMMA InsertedEvent ==
  ASSUME RepositoryTypeOK, NEW id \in ReqIds, NEW t \in EventType, insertEvent(id, t)
  PROVE  /\ event' \in [ReqIds -> [EventType -> Nat]]
         /\ event'[id][t] = event[id][t] + 1
         /\ \A u \in EventType : u # t => event'[id][u] = event[id][u]
         /\ \A i \in ReqIds : i # id => event'[i] = event[i]
  BY DEF RepositoryTypeOK, insertEvent

\* UpdateHoldStatus moves the holds on the pools S that are still ACTIVE.
LEMMA UpdatedHolds ==
  ASSUME RepositoryTypeOK, NEW id \in ReqIds, NEW S, NEW to \in HoldStatus,
         UpdateHoldStatus(id, S, to)
  PROVE  /\ hold' \in [ReqIds -> [Kinds -> HoldStatus \cup {"NONE"}]]
         /\ \A k \in Kinds :
              hold'[id][k] = IF k \in S /\ hold[id][k] = "ACTIVE" THEN to ELSE hold[id][k]
         /\ \A i \in ReqIds : i # id => hold'[i] = hold[i]
  BY DEF RepositoryTypeOK, UpdateHoldStatus

-----------------------------------------------------------------------------
(* The counters: what each statement writes, kind by kind.                  *)

\* TryReserve adds the amount of the plan.
LEMMA PoolReserved ==
  ASSUME NEW a, TryReserve(a), NEW k \in Kinds
  PROVE  reserved'[k] = reserved[k] + a[k]
  BY DEF TryReserve

\* ReleaseReserved takes the amount off where the counter is large enough.
LEMMA PoolReleased ==
  ASSUME NEW a, NEW S, ReleaseReserved(a, S), NEW k \in Kinds
  PROVE  reserved'[k] = IF k \in S /\ reserved[k] >= a[k] THEN reserved[k] - a[k]
                                                          ELSE reserved[k]
  BY DEF ReleaseReserved

\* MoveReservedToDedicated moves the amount, or neither counter.
LEMMA PoolMoved ==
  ASSUME NEW a, NEW S, MoveReservedToDedicated(a, S), NEW k \in Kinds
  PROVE  IF k \in S /\ reserved[k] >= a[k]
         THEN reserved'[k] = reserved[k] - a[k] /\ dedicated'[k] = dedicated[k] + a[k]
         ELSE reserved'[k] = reserved[k] /\ dedicated'[k] = dedicated[k]
  BY DEF MoveReservedToDedicated

\* EnsureAndTryConsume adds the amount to the counter of one customer.
LEMMA QuotaConsumed ==
  ASSUME RepositoryTypeOK, NEW c \in Customers, NEW a, EnsureAndTryConsume(c, a),
         NEW d \in Customers, NEW k \in Kinds
  PROVE  used'[d][k] = IF d = c THEN used[d][k] + a[k] ELSE used[d][k]
  BY DEF EnsureAndTryConsume, RepositoryTypeOK

\* ReleaseQuota takes the amount off one customer's counter, down to 0.
LEMMA QuotaReleased ==
  ASSUME RepositoryTypeOK, NEW c \in Customers, NEW a, NEW S, ReleaseQuota(c, a, S),
         NEW d \in Customers, NEW k \in Kinds
  PROVE  used'[d][k] = IF d = c /\ k \in S
                       THEN IF used[d][k] >= a[k] THEN used[d][k] - a[k] ELSE 0
                       ELSE used[d][k]
  BY DEF ReleaseQuota, RepositoryTypeOK

-----------------------------------------------------------------------------
(* Sums.                                                                    *)

\* There are finitely many units, so they can be counted.
LEMMA UnitsFinite ==
  ASSUME NEW f, NEW S, IsFiniteSet(S), \A x \in S : f[x] \in Nat
  PROVE  IsFiniteSet(Units(f, S))
<1> DEFINE U == {{x} \X (1 .. f[x]) : x \in S}
           u == [x \in S |-> {x} \X (1 .. f[x])]
<1>1. u \in Surjection(S, U)
  BY DEF Surjection
<1> HIDE DEF u
<1>2. IsFiniteSet(U)
  BY <1>1, FS_Surjection
<1>3. ASSUME NEW T \in U PROVE IsFiniteSet(T)
  <2>1. PICK x \in S : T = {x} \X (1 .. f[x])
    OBVIOUS
  <2>2. IsFiniteSet(1 .. f[x])
    BY FS_Interval
  <2>3. IsFiniteSet({x})
    BY FS_Singleton
  <2> QED BY <2>1, <2>2, <2>3, FS_Product
<1> HIDE DEF U
<1>4. IsFiniteSet(UNION U)
  BY <1>2, <1>3, FS_UNION
<1> QED BY <1>4 DEF Units, U

\* A sum of natural numbers is one.
LEMMA TotalType ==
  ASSUME NEW f, NEW S, IsFiniteSet(S), \A x \in S : f[x] \in Nat
  PROVE  Total(f, S) \in Nat
  BY UnitsFinite, FS_CardinalityType DEF Total

\* Nothing sums up to 0.
LEMMA TotalEmpty ==
  ASSUME NEW f
  PROVE  Total(f, {}) = 0
<1>1. Units(f, {}) = {}
  BY DEF Units
<1> QED BY <1>1, FS_EmptySet DEF Total

\* A sum depends on nothing but the amounts it adds up.
LEMMA TotalSame ==
  ASSUME NEW f, NEW g, NEW S, \A x \in S : f[x] = g[x]
  PROVE  Total(f, S) = Total(g, S)
<1>1. Units(f, S) = Units(g, S)
  BY DEF Units
<1> QED BY <1>1 DEF Total

\* One more amount in the sum.
LEMMA TotalJoin ==
  ASSUME NEW f, NEW S, IsFiniteSet(S), NEW x, x \notin S,
         \A y \in S \cup {x} : f[y] \in Nat
  PROVE  Total(f, S \cup {x}) = Total(f, S) + f[x]
<1> DEFINE T == {x} \X (1 .. f[x])
<1>1. Units(f, S \cup {x}) = Units(f, S) \cup T
  BY DEF Units
<1>2. Units(f, S) \cap T = {}
  BY DEF Units
<1>3. IsFiniteSet(T) /\ Cardinality(T) = f[x]
  <2>1. f[x] \in Nat
    OBVIOUS
  <2>2. IsFiniteSet(1 .. f[x]) /\ Cardinality(1 .. f[x]) = f[x]
    BY <2>1, FS_Interval
  <2>3. IsFiniteSet({x}) /\ Cardinality({x}) = 1
    BY FS_Singleton
  <2>4. Cardinality({x} \X (1 .. f[x])) = Cardinality({x}) * Cardinality(1 .. f[x])
        /\ IsFiniteSet({x} \X (1 .. f[x]))
    BY <2>2, <2>3, FS_Product, Zenon
  <2>5. Cardinality(T) = 1 * f[x] /\ IsFiniteSet(T)
    BY <2>2, <2>3, <2>4, Zenon
  <2>6. 1 * f[x] = f[x]
    BY <2>1
  <2> QED BY <2>5, <2>6, Zenon
<1>4. IsFiniteSet(Units(f, S))
  BY UnitsFinite
<1> HIDE DEF T
<1>5. Cardinality(Units(f, S) \cup T) = Cardinality(Units(f, S)) + Cardinality(T) - Cardinality({})
  BY <1>2, <1>3, <1>4, FS_Union
<1>6. Cardinality({}) = 0 /\ Cardinality(Units(f, S)) \in Nat
  BY <1>4, FS_EmptySet, FS_CardinalityType
<1>7. f[x] \in Nat
  OBVIOUS
<1> QED
  <2>1. Total(f, S \cup {x}) = Cardinality(Units(f, S)) + f[x] - 0
    BY <1>1, <1>3, <1>5, <1>6, Zenon DEF Total
  <2> QED BY <2>1, <1>6, <1>7 DEF Total

\* Two sums that differ at most in the amount of x.  The one that counts x is
\* at least that amount.
LEMMA TotalMove ==
  ASSUME NEW f, NEW g, NEW S, NEW T, IsFiniteSet(S), NEW x, S \ {x} = T \ {x},
         \A y \in S \ {x} : g[y] = f[y],
         \A y \in S : f[y] \in Nat, \A y \in T : g[y] \in Nat
  PROVE  /\ Total(f, S) \in Nat /\ Total(g, T) \in Nat
         /\ Total(g, T) + (IF x \in S THEN f[x] ELSE 0)
              = Total(f, S) + (IF x \in T THEN g[x] ELSE 0)
         /\ x \in S => f[x] <= Total(f, S)
<1> DEFINE R == S \ {x}
<1>1. IsFiniteSet(R) /\ x \notin R
  BY FS_Difference
<1>2. R = T \ {x}
  OBVIOUS
<1>3. Total(g, R) = Total(f, R)
  BY TotalSame
<1>4. Total(f, R) \in Nat
  BY <1>1, TotalType
<1>5. IF x \in S THEN Total(f, S) = Total(f, R) + f[x] ELSE Total(f, S) = Total(f, R)
  <2>1. CASE x \in S
    <3>1. S = R \cup {x}
      BY <2>1
    <3>2. \A y \in R \cup {x} : f[y] \in Nat
      BY <2>1
    <3> HIDE DEF R
    <3>3. Total(f, R \cup {x}) = Total(f, R) + f[x]
      BY <1>1, <3>2, TotalJoin
    <3> QED BY <2>1, <3>1, <3>3
  <2>2. CASE x \notin S
    <3>1. S = R
      BY <2>2
    <3> QED BY <2>2, <3>1
  <2> QED BY <2>1, <2>2
<1>6. IF x \in T THEN Total(g, T) = Total(g, R) + g[x] ELSE Total(g, T) = Total(g, R)
  <2>1. CASE x \in T
    <3>1. T = R \cup {x}
      BY <2>1
    <3>2. \A y \in R \cup {x} : g[y] \in Nat
      BY <2>1
    <3> HIDE DEF R
    <3>3. Total(g, R \cup {x}) = Total(g, R) + g[x]
      BY <1>1, <3>2, TotalJoin
    <3> QED BY <2>1, <3>1, <3>3
  <2>2. CASE x \notin T
    <3>1. T = R
      BY <2>2
    <3> QED BY <2>2, <3>1
  <2> QED BY <2>1, <2>2
<1>7. (x \in S => f[x] \in Nat) /\ (x \in T => g[x] \in Nat)
  OBVIOUS
<1> HIDE DEF R
<1> QED BY <1>3, <1>4, <1>5, <1>6, <1>7

\* The amounts held of kind k by the requests I, before and after a step that
\* writes one request: only the share of that request can change.
LEMMA HeldMoves ==
  ASSUME IsFiniteSet(ReqIds), NEW k \in Kinds, NEW st, NEW id \in ReqIds,
         NEW I \in SUBSET ReqIds, NEW J \in SUBSET ReqIds, I \ {id} = J \ {id},
         \A i \in ReqIds : i # id => request'[i] = request[i] /\ hold'[i] = hold[i],
         \A i \in ReqIds : hold[i][k] \in st => Plan[request[i].body][k] \in Nat,
         \A i \in ReqIds : hold'[i][k] \in st => Plan[request'[i].body][k] \in Nat
  PROVE  LET old == Held(k, I, st)
             new == Total(LineAmounts(k)', {i \in J : hold'[i][k] \in st})
             was == id \in I /\ hold[id][k] \in st
             is == id \in J /\ hold'[id][k] \in st
         IN /\ old \in Nat /\ new \in Nat
            /\ new + (IF was THEN Plan[request[id].body][k] ELSE 0)
                 = old + (IF is THEN Plan[request'[id].body][k] ELSE 0)
            /\ was => Plan[request[id].body][k] <= old
<1> DEFINE f == LineAmounts(k)
           g == LineAmounts(k)'
           S == Holders(k, I, st)
           T == {i \in J : hold'[i][k] \in st}
<1>1. /\ \A i \in ReqIds : f[i] = Plan[request[i].body][k]
      /\ \A i \in ReqIds : g[i] = Plan[request'[i].body][k]
  BY DEF LineAmounts, PlanOf
<1>2. S \in SUBSET ReqIds /\ T \in SUBSET ReqIds
  BY DEF Holders
<1>3. IsFiniteSet(S)
  BY <1>2, FS_Subset
<1>4. S \ {id} = T \ {id}
  BY DEF Holders
<1>5. /\ \A i \in S : f[i] \in Nat
      /\ \A i \in T : g[i] \in Nat
      /\ \A i \in S \ {id} : g[i] = f[i]
  BY <1>1, <1>2 DEF Holders
<1>6. /\ id \in S <=> id \in I /\ hold[id][k] \in st
      /\ id \in T <=> id \in J /\ hold'[id][k] \in st
  BY DEF Holders
<1>7. Held(k, I, st) = Total(f, S)
  BY DEF Held
<1> HIDE DEF f, g, S, T
<1>8. /\ Total(f, S) \in Nat /\ Total(g, T) \in Nat
      /\ Total(g, T) + (IF id \in S THEN f[id] ELSE 0)
           = Total(f, S) + (IF id \in T THEN g[id] ELSE 0)
      /\ id \in S => f[id] <= Total(f, S)
  BY <1>3, <1>4, <1>5, TotalMove
<1> QED BY <1>1, <1>6, <1>7, <1>8 DEF g, T

\* Only a request that exists has holds.
HoldersExist == \A id \in ReqIds, k \in Kinds : hold[id][k] # "NONE" => Exists(id)

\* Whose requests the sums are taken over: a customer's, or nobody's, so that
\* what is said of the pools does not depend on there being a customer.
Payers == Customers \cup {None}

\* HeldMoves for all requests and for those of one customer.
LEMMA HeldChange ==
  ASSUME IsFiniteSet(ReqIds), RepositoryTypeOK, RepositoryTypeOK', HoldersExist,
         HoldersExist', NEW id \in ReqIds, NEW k \in Kinds, NEW c \in Payers,
         NEW st \in SUBSET HoldStatus,
         \A i \in ReqIds : i # id => request'[i] = request[i] /\ hold'[i] = hold[i]
  PROVE  LET was == hold[id][k] \in st
             is == hold'[id][k] \in st
             a == Plan[request[id].body][k]
             b == Plan[request'[id].body][k]
         IN /\ Held(k, ReqIds, st) \in Nat /\ Held(k, ReqIds, st)' \in Nat
            /\ Held(k, ReqIds, st)' + (IF was THEN a ELSE 0)
                 = Held(k, ReqIds, st) + (IF is THEN b ELSE 0)
            /\ was => a <= Held(k, ReqIds, st)
            /\ Held(k, RequestsOf(c), st) \in Nat /\ Held(k, RequestsOf(c), st)' \in Nat
            /\ Held(k, RequestsOf(c), st)'
                 + (IF request[id].cust = c /\ was THEN a ELSE 0)
                 = Held(k, RequestsOf(c), st)
                 + (IF request'[id].cust = c /\ is THEN b ELSE 0)
            /\ request[id].cust = c /\ was => a <= Held(k, RequestsOf(c), st)
<1>1. ASSUME NEW i \in ReqIds, hold[i][k] \in st
      PROVE  Plan[request[i].body][k] \in Nat
  <2>1. request[i].status # "NONE"
    BY <1>1 DEF HoldersExist, Exists, HoldStatus
  <2>2. request[i].body \in Bodies
    BY <2>1 DEF RepositoryTypeOK, Row, NoRow
  <2> QED BY <2>2, PlanAssumption
<1>2. ASSUME NEW i \in ReqIds, hold'[i][k] \in st
      PROVE  Plan[request'[i].body][k] \in Nat
  <2>1. request'[i].status # "NONE"
    BY <1>2 DEF HoldersExist, Exists, HoldStatus
  <2>2. request'[i].body \in Bodies
    BY <2>1 DEF RepositoryTypeOK, Row, NoRow
  <2> QED BY <2>2, PlanAssumption
<1> DEFINE I == RequestsOf(c)
           J == {i \in ReqIds : request'[i].cust = c}
<1>3. /\ I \in SUBSET ReqIds /\ J \in SUBSET ReqIds /\ I \ {id} = J \ {id}
      /\ id \in I <=> request[id].cust = c
      /\ id \in J <=> request'[id].cust = c
  BY DEF RequestsOf
<1>4. /\ Held(k, ReqIds, st)' = Total(LineAmounts(k)', {i \in ReqIds : hold'[i][k] \in st})
      /\ Held(k, RequestsOf(c), st)' = Total(LineAmounts(k)', {i \in J : hold'[i][k] \in st})
  BY DEF Held, Holders, RequestsOf
<1> DEFINE all == Total(LineAmounts(k)', {i \in ReqIds : hold'[i][k] \in st})
           own == Total(LineAmounts(k)', {i \in J : hold'[i][k] \in st})
<1>5. /\ Held(k, ReqIds, st) \in Nat /\ all \in Nat
      /\ all + (IF hold[id][k] \in st THEN Plan[request[id].body][k] ELSE 0)
           = Held(k, ReqIds, st) + (IF hold'[id][k] \in st THEN Plan[request'[id].body][k] ELSE 0)
      /\ hold[id][k] \in st => Plan[request[id].body][k] <= Held(k, ReqIds, st)
  <2> DEFINE R == ReqIds
  <2>1. R \in SUBSET ReqIds /\ R \ {id} = R \ {id} /\ id \in R
    OBVIOUS
  <2> HIDE DEF R
  <2>2. LET old == Held(k, R, st)
            new == Total(LineAmounts(k)', {i \in R : hold'[i][k] \in st})
            was == id \in R /\ hold[id][k] \in st
            is == id \in R /\ hold'[id][k] \in st
        IN /\ old \in Nat /\ new \in Nat
           /\ new + (IF was THEN Plan[request[id].body][k] ELSE 0)
                = old + (IF is THEN Plan[request'[id].body][k] ELSE 0)
           /\ was => Plan[request[id].body][k] <= old
    BY <1>1, <1>2, <2>1, HeldMoves
  <2> QED BY <2>1, <2>2 DEF R
<1>6. /\ Held(k, I, st) \in Nat /\ own \in Nat
      /\ own + (IF id \in I /\ hold[id][k] \in st THEN Plan[request[id].body][k] ELSE 0)
           = Held(k, I, st)
             + (IF id \in J /\ hold'[id][k] \in st THEN Plan[request'[id].body][k] ELSE 0)
      /\ id \in I /\ hold[id][k] \in st => Plan[request[id].body][k] <= Held(k, I, st)
  <2> HIDE DEF I, J
  <2> QED BY <1>1, <1>2, <1>3, HeldMoves
<1> HIDE DEF all, own, J
<1> QED BY <1>3, <1>4, <1>5, <1>6 DEF all, own

\* The three sums that the counters stand for are natural numbers.
LEMMA HeldNat ==
  ASSUME IsFiniteSet(ReqIds), RepositoryTypeOK, HoldersExist, NEW k \in Kinds,
         NEW c \in Payers
  PROVE  HeldActive(k) \in Nat /\ HeldDedicated(k) \in Nat /\ HeldBy(c, k) \in Nat
<1>1. ASSUME NEW I \in SUBSET ReqIds, NEW st \in SUBSET HoldStatus
      PROVE  Held(k, I, st) \in Nat
  <2>1. ASSUME NEW i \in Holders(k, I, st)
        PROVE  LineAmounts(k)[i] \in Nat
    <3>1. i \in ReqIds /\ hold[i][k] # "NONE"
      BY <2>1 DEF Holders, HoldStatus
    <3>2. PlanOf(i) \in [Kinds -> Nat]
      BY <3>1, RowComplete DEF HoldersExist
    <3> QED BY <3>1, <3>2 DEF LineAmounts
  <2>2. IsFiniteSet(Holders(k, I, st))
    BY FS_Subset DEF Holders
  <2> QED BY <2>1, <2>2, TotalType DEF Held
<1>2. RequestsOf(c) \in SUBSET ReqIds /\ ReqIds \in SUBSET ReqIds
  BY DEF RequestsOf
<1>3. {"ACTIVE"} \in SUBSET HoldStatus /\ {"DEDICATED"} \in SUBSET HoldStatus
      /\ {"ACTIVE", "DEDICATED"} \in SUBSET HoldStatus
  BY DEF HoldStatus
<1> QED BY <1>1, <1>2, <1>3 DEF HeldActive, HeldDedicated, HeldBy

\* HeldChange for the three of them.
LEMMA HeldChanges ==
  ASSUME IsFiniteSet(ReqIds), RepositoryTypeOK, RepositoryTypeOK', HoldersExist,
         HoldersExist', NEW id \in ReqIds, NEW k \in Kinds, NEW c \in Payers,
         \A i \in ReqIds : i # id => request'[i] = request[i] /\ hold'[i] = hold[i]
  PROVE  LET h == hold[id][k]
             j == hold'[id][k]
             a == Plan[request[id].body][k]
             b == Plan[request'[id].body][k]
             both == {"ACTIVE", "DEDICATED"}
         IN /\ HeldActive(k) \in Nat /\ HeldActive(k)' \in Nat
            /\ HeldDedicated(k) \in Nat /\ HeldDedicated(k)' \in Nat
            /\ HeldBy(c, k) \in Nat /\ HeldBy(c, k)' \in Nat
            /\ HeldActive(k)' + (IF h = "ACTIVE" THEN a ELSE 0)
                 = HeldActive(k) + (IF j = "ACTIVE" THEN b ELSE 0)
            /\ HeldDedicated(k)' + (IF h = "DEDICATED" THEN a ELSE 0)
                 = HeldDedicated(k) + (IF j = "DEDICATED" THEN b ELSE 0)
            /\ HeldBy(c, k)' + (IF request[id].cust = c /\ h \in both THEN a ELSE 0)
                 = HeldBy(c, k) + (IF request'[id].cust = c /\ j \in both THEN b ELSE 0)
            /\ h = "ACTIVE" => a <= HeldActive(k)
            /\ request[id].cust = c /\ h \in both => a <= HeldBy(c, k)
<1>1. {"ACTIVE"} \in SUBSET HoldStatus /\ {"DEDICATED"} \in SUBSET HoldStatus
      /\ {"ACTIVE", "DEDICATED"} \in SUBSET HoldStatus
  BY DEF HoldStatus
<1>2. LET h == hold[id][k]
          j == hold'[id][k]
          a == Plan[request[id].body][k]
          b == Plan[request'[id].body][k]
      IN /\ HeldActive(k) \in Nat /\ HeldActive(k)' \in Nat
         /\ HeldActive(k)' + (IF h = "ACTIVE" THEN a ELSE 0)
              = HeldActive(k) + (IF j = "ACTIVE" THEN b ELSE 0)
         /\ h = "ACTIVE" => a <= HeldActive(k)
  BY <1>1, HeldChange DEF HeldActive
<1>3. LET h == hold[id][k]
          j == hold'[id][k]
          a == Plan[request[id].body][k]
          b == Plan[request'[id].body][k]
      IN /\ HeldDedicated(k) \in Nat /\ HeldDedicated(k)' \in Nat
         /\ HeldDedicated(k)' + (IF h = "DEDICATED" THEN a ELSE 0)
              = HeldDedicated(k) + (IF j = "DEDICATED" THEN b ELSE 0)
  BY <1>1, HeldChange DEF HeldDedicated
<1>4. LET h == hold[id][k]
          j == hold'[id][k]
          a == Plan[request[id].body][k]
          b == Plan[request'[id].body][k]
          both == {"ACTIVE", "DEDICATED"}
      IN /\ HeldBy(c, k) \in Nat /\ HeldBy(c, k)' \in Nat
         /\ HeldBy(c, k)' + (IF request[id].cust = c /\ h \in both THEN a ELSE 0)
              = HeldBy(c, k) + (IF request'[id].cust = c /\ j \in both THEN b ELSE 0)
         /\ request[id].cust = c /\ h \in both => a <= HeldBy(c, k)
  BY <1>1, HeldChange DEF HeldBy
<1> QED BY <1>2, <1>3, <1>4

\* Where no row and no hold is written the sums stay as they are.
LEMMA HeldUntouched ==
  ASSUME UNCHANGED <<request, hold>>, NEW k, NEW c \in Payers
  PROVE  /\ HeldActive(k)' = HeldActive(k) /\ HeldDedicated(k)' = HeldDedicated(k)
         /\ HeldBy(c, k)' = HeldBy(c, k)
  BY DEF HeldActive, HeldDedicated, HeldBy, Held, Holders, LineAmounts, PlanOf, RequestsOf

\* At the start nothing is held and nothing counted.
LEMMA NothingHeld ==
  ASSUME RepositoryInit, NEW k \in Kinds, NEW c \in Payers
  PROVE  HeldActive(k) = 0 /\ HeldDedicated(k) = 0 /\ HeldBy(c, k) = 0
<1>1. \A id \in ReqIds : hold[id][k] = "NONE"
  BY DEF RepositoryInit
<1>2. /\ Holders(k, ReqIds, {"ACTIVE"}) = {} /\ Holders(k, ReqIds, {"DEDICATED"}) = {}
      /\ Holders(k, RequestsOf(c), {"ACTIVE", "DEDICATED"}) = {}
  BY <1>1 DEF Holders, RequestsOf
<1> QED BY <1>2, TotalEmpty DEF HeldActive, HeldDedicated, HeldBy, Held
=============================================================================
