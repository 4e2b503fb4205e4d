------------------------- MODULE TxStatementsProofs -------------------------
(***************************************************************************)
(* The transactions of the service statement by statement, for any numbers *)
(* of transactions, requests, pools and customers.                         *)
(***************************************************************************)
EXTENDS TxStatements, RepositoryProofs, WellFoundedInduction

-----------------------------------------------------------------------------
(* Rows, and the order of the pools. *)

\* Locks of different tables, or of different rows of one, are different locks.
LEMMA RowsDiffer ==
  /\ \A k, j : PoolRow(k) = PoolRow(j) => k = j
  /\ \A c, k, d, j : QuotaRow(c, k) = QuotaRow(d, j) => c = d /\ k = j
  /\ \A i, k, j, l : HoldRow(i, k) = HoldRow(j, l) => i = j /\ k = l
  /\ \A i, j : RequestRow(i) = RequestRow(j) => i = j
  /\ \A c, k, d, j : KeyRow(c, k) = KeyRow(d, j) => c = d /\ k = j
  /\ \A k, c, j : PoolRow(k) # QuotaRow(c, j) /\ PoolRow(k) # HoldRow(c, j)
                    /\ PoolRow(k) # KeyRow(c, j)
  /\ \A k, i : PoolRow(k) # RequestRow(i)
  /\ \A c, k, d, j : /\ QuotaRow(c, k) # HoldRow(d, j) /\ QuotaRow(c, k) # KeyRow(d, j)
                     /\ HoldRow(c, k) # KeyRow(d, j)
  /\ \A c, k, i : /\ QuotaRow(c, k) # RequestRow(i) /\ HoldRow(c, k) # RequestRow(i)
                  /\ KeyRow(c, k) # RequestRow(i)
  BY DEF PoolRow, QuotaRow, HoldRow, RequestRow, KeyRow

\* A nonempty set of naturals has a smallest element.
LEMMA Smallest ==
  ASSUME NEW T \in SUBSET Nat, T # {}
  PROVE  \E n \in T : \A m \in T : n <= m
<1> DEFINE R == {ss \in Nat \X Nat : ss[1] < ss[2]}
<1>1. IsWellFoundedOn(R, Nat)
  BY NatLessThanWellFounded DEF OpToRel
<1>2. \A m, n \in Nat : <<m, n>> \in R <=> m < n
  OBVIOUS
<1> HIDE DEF R
<1>3. PICK n \in T : \A m \in T : ~(<<m, n>> \in R)
  BY <1>1, WFMin
<1>4. ASSUME NEW m \in T PROVE n <= m
  <2>1. m \in Nat /\ n \in Nat /\ ~(<<m, n>> \in R)
    BY <1>3
  <2>2. ~(m < n)
    BY <1>2, <2>1
  <2> QED BY <2>1, <2>2
<1> QED BY <1>4

\* Every kind has a place in the order of pool ids, and one of its own.
LEMMA PoolIds ==
  /\ \A k \in Kinds : PoolId(k) \in 1 .. Len(PoolOrder)
  /\ \A k, j \in Kinds : PoolId(k) = PoolId(j) => k = j
<1>1. ASSUME NEW k \in Kinds
      PROVE  PoolId(k) \in DOMAIN PoolOrder /\ PoolOrder[PoolId(k)] = k
  BY PoolOrderAssumption DEF PoolId
<1>2. DOMAIN PoolOrder = 1 .. Len(PoolOrder)
  BY PoolOrderAssumption
<1> QED BY <1>1, <1>2

\* A nonempty set of kinds has a first one by pool id.
LEMMA FirstByPoolId ==
  ASSUME NEW L \in SUBSET Kinds, L # {}
  PROVE  LET first == CHOOSE k \in L : \A j \in L : PoolId(k) <= PoolId(j) IN
         first \in L /\ \A j \in L : PoolId(first) <= PoolId(j)
<1> DEFINE T == {PoolId(k) : k \in L}
<1>1. T \in SUBSET Nat /\ T # {}
  BY PoolIds, PoolOrderAssumption
<1>2. PICK n \in T : \A m \in T : n <= m
  BY <1>1, Smallest
<1>3. \E k \in L : \A j \in L : PoolId(k) <= PoolId(j)
  BY <1>2
<1> QED BY <1>3

\* The kind a transaction is at: the first, by pool id, of those it has left.
LEMMA KindIsFirst ==
  ASSUME NEW p, tx[p].left \in SUBSET Kinds, tx[p].left # {}
  PROVE  /\ Kind(p) \in tx[p].left
         /\ \A j \in tx[p].left : PoolId(Kind(p)) <= PoolId(j)
  BY FirstByPoolId DEF Kind

-----------------------------------------------------------------------------
(* Types. *)

Looping == {"pool", "quota", "hold"}

\* A transaction has kinds left exactly while it is in its loop over them.
Txs == {t \in Transaction : t.next \in Looping <=> t.left # {}}

CommittedTypeOK ==
  /\ committed.reserved \in [Kinds -> Nat]
  /\ committed.dedicated \in [Kinds -> Nat]
  /\ committed.used \in [Customers -> [Kinds -> Nat]]
  /\ committed.request \in [ReqIds -> Row \cup {NoRow}]
  /\ committed.hold \in [ReqIds -> [Kinds -> HoldStatus \cup {"NONE"}]]
  /\ committed.dedication \in [ReqIds -> [Kinds -> Nat]]
  /\ committed.event \in [ReqIds -> [EventType -> Nat]]

TxTypeOK ==
  /\ RepositoryTypeOK
  /\ CommittedTypeOK
  /\ owner \in [Lockable -> Procs \cup {None}]
  /\ tx \in [Procs -> Txs \cup {None}]

\* What a statement leaves alone of its transaction, and of all others.
SameTx(p) ==
  /\ tx' \in [Procs -> Txs \cup {None}] /\ tx'[p] \in Txs
  /\ tx'[p].op = tx[p].op /\ tx'[p].id = tx[p].id /\ tx'[p].cust = tx[p].cust
  /\ tx'[p].key = tx[p].key /\ tx'[p].body = tx[p].body
  /\ \A q \in Procs : q # p => tx'[q] = tx[q]

\* A transaction goes on to another statement on the same kind.
LEMMA ThenTx ==
  ASSUME TxTypeOK, NEW p \in Procs, tx[p] \in Txs,
         NEW next \in Looping \cup {"list", "request", "commit"},
         next \in Looping <=> tx[p].left # {}, Then(p, next)
  PROVE  /\ SameTx(p) /\ tx'[p].next = next /\ tx'[p].left = tx[p].left
         /\ tx'[p].snap = tx[p].snap
<1> DEFINE t == [tx[p] EXCEPT !.next = next]
<1>1. /\ t \in Txs /\ t.op = tx[p].op /\ t.id = tx[p].id /\ t.cust = tx[p].cust
      /\ t.key = tx[p].key /\ t.body = tx[p].body /\ t.next = next /\ t.left = tx[p].left
      /\ t.snap = tx[p].snap
  BY DEF Txs, Transaction, Looping
<1>2. tx' = [tx EXCEPT ![p] = t]
  BY DEF Then
<1> HIDE DEF t
<1> QED BY <1>1, <1>2 DEF SameTx, TxTypeOK

\* A transaction goes on to its next kind, or leaves its loop.
LEMMA NextKindTx ==
  ASSUME TxTypeOK, NEW p \in Procs, tx[p] \in Txs, ThenNextKind(p)
  PROVE  /\ SameTx(p) /\ tx'[p].left = tx[p].left \ {Kind(p)}
         /\ tx'[p].next = First(tx'[p].left) /\ tx'[p].snap = tx[p].snap
<1> DEFINE rest == tx[p].left \ {Kind(p)}
           t == [tx[p] EXCEPT !.left = rest, !.next = First(rest)]
<1>1. /\ t \in Txs /\ t.op = tx[p].op /\ t.id = tx[p].id /\ t.cust = tx[p].cust
      /\ t.key = tx[p].key /\ t.body = tx[p].body /\ t.next = First(rest) /\ t.left = rest
      /\ t.snap = tx[p].snap
  BY DEF Txs, Transaction, First, Looping
<1>2. tx' = [tx EXCEPT ![p] = t]
  BY DEF ThenNextKind
<1> HIDE DEF t
<1> QED BY <1>1, <1>2 DEF SameTx, TxTypeOK

\* The list of holds.
LEMMA ListTx ==
  ASSUME TxTypeOK, NEW p \in Procs, ListActiveHoldsInOrder(p)
  PROVE  LET S == {k \in Kinds : committed.hold[tx[p].id][k] = "ACTIVE"} IN
         /\ tx[p] \in Txs /\ tx[p].next = "list"
         /\ SameTx(p) /\ tx'[p].snap = S /\ tx'[p].left = S /\ tx'[p].next = First(S)
<1> DEFINE S == {k \in Kinds : committed.hold[tx[p].id][k] = "ACTIVE"}
           t == [tx[p] EXCEPT !.snap = S, !.left = S, !.next = First(S)]
<1>0. tx[p] \in Txs /\ tx[p].next = "list"
  BY DEF ListActiveHoldsInOrder, TxTypeOK
<1>1. /\ t \in Txs /\ t.op = tx[p].op /\ t.id = tx[p].id /\ t.cust = tx[p].cust
      /\ t.key = tx[p].key /\ t.body = tx[p].body /\ t.next = First(S) /\ t.left = S
      /\ t.snap = S
  BY <1>0 DEF Txs, Transaction, First, Looping
<1>2. tx' = [tx EXCEPT ![p] = t]
  BY DEF ListActiveHoldsInOrder
<1> HIDE DEF t
<1> QED BY <1>0, <1>1, <1>2 DEF SameTx, TxTypeOK

\* A transaction opens with a state of its own.
LEMMA BegunTx ==
  ASSUME TxTypeOK, NEW p \in Procs, NEW t \in Txs, tx' = [tx EXCEPT ![p] = t]
  PROVE  /\ tx' \in [Procs -> Txs \cup {None}] /\ tx'[p] = t
         /\ \A q \in Procs : q # p => tx'[q] = tx[q]
  BY DEF TxTypeOK

\* A transaction ends and gives up its locks.
LEMMA EndedTx ==
  ASSUME TxTypeOK, NEW p \in Procs, EndTx(p)
  PROVE  /\ tx' \in [Procs -> Txs \cup {None}] /\ tx'[p] = None
         /\ \A q \in Procs : q # p => tx'[q] = tx[q]
         /\ owner' \in [Lockable -> Procs \cup {None}]
         /\ \A row \in Lockable : owner'[row] = IF owner[row] = p THEN None ELSE owner[row]
  BY DEF TxTypeOK, EndTx, Mine

\* One row is locked.
LEMMA TakenRow ==
  ASSUME TxTypeOK, NEW p \in Procs, NEW row \in Lockable, Take(p, row)
  PROVE  /\ owner' \in [Lockable -> Procs \cup {None}] /\ owner'[row] = p
         /\ \A r \in Lockable : r # row => owner'[r] = owner[r]
  BY DEF TxTypeOK, Take

\* Every row has a lock.
LEMMA LockableRows ==
  /\ \A k \in Kinds : PoolRow(k) \in Lockable
  /\ \A c \in Customers, k \in Kinds : QuotaRow(c, k) \in Lockable
  /\ \A id \in ReqIds, k \in Kinds : HoldRow(id, k) \in Lockable
  /\ \A id \in ReqIds : RequestRow(id) \in Lockable
  /\ \A c \in Customers, key \in Keys : KeyRow(c, key) \in Lockable
  BY DEF Lockable

\* A transaction in its loop is at a kind it has left.
LEMMA AtKind ==
  ASSUME TxTypeOK, NEW p \in Procs, tx[p] # None, tx[p].next \in Looping
  PROVE  /\ tx[p] \in Txs /\ Kind(p) \in Kinds /\ Kind(p) \in tx[p].left
         /\ tx[p].cust \in Customers /\ tx[p].id \in ReqIds /\ tx[p].key \in Keys
         /\ Amounts(p) \in [Kinds -> Nat]
         /\ \A j \in tx[p].left : PoolId(Kind(p)) <= PoolId(j)
<1>1. tx[p] \in Txs
  BY DEF TxTypeOK
<1>2. /\ tx[p].left \in SUBSET Kinds /\ tx[p].left # {} /\ tx[p].body \in Bodies
      /\ tx[p].cust \in Customers /\ tx[p].id \in ReqIds /\ tx[p].key \in Keys
  BY <1>1 DEF Txs, Transaction
<1>3. Amounts(p) \in [Kinds -> Nat]
  BY <1>2, PlanAssumption DEF Amounts
<1> QED BY <1>1, <1>2, <1>3, KindIsFirst


\* A commit publishes the rows of its transaction and no other.
LEMMA Committed ==
  ASSUME TxTypeOK, NEW p \in Procs, Commit(p)
  PROVE  /\ CommittedTypeOK'
         /\ \A k \in Kinds :
              /\ committed'.reserved[k] =
                   IF Mine(p, PoolRow(k)) THEN reserved[k] ELSE committed.reserved[k]
              /\ committed'.dedicated[k] =
                   IF Mine(p, PoolRow(k)) THEN dedicated[k] ELSE committed.dedicated[k]
         /\ \A c \in Customers, k \in Kinds :
              committed'.used[c][k] =
                IF Mine(p, QuotaRow(c, k)) THEN used[c][k] ELSE committed.used[c][k]
         /\ \A id \in ReqIds, k \in Kinds :
              committed'.hold[id][k] =
                IF Mine(p, HoldRow(id, k)) THEN hold[id][k] ELSE committed.hold[id][k]
         /\ \A id \in ReqIds :
              /\ committed'.request[id] =
                   IF Mine(p, RequestRow(id)) THEN request[id] ELSE committed.request[id]
              /\ committed'.dedication[id] =
                   IF Mine(p, RequestRow(id)) THEN dedication[id] ELSE committed.dedication[id]
<1> DEFINE M == Merge(p, Tables, committed)
<1>1. committed' = M
  BY DEF Commit
<1>2. /\ M.reserved = [k \in Kinds |->
           IF Mine(p, PoolRow(k)) THEN reserved[k] ELSE committed.reserved[k]]
      /\ M.dedicated = [k \in Kinds |->
           IF Mine(p, PoolRow(k)) THEN dedicated[k] ELSE committed.dedicated[k]]
      /\ M.used = [c \in Customers |-> [k \in Kinds |->
           IF Mine(p, QuotaRow(c, k)) THEN used[c][k] ELSE committed.used[c][k]]]
      /\ M.hold = [id \in ReqIds |-> [k \in Kinds |->
           IF Mine(p, HoldRow(id, k)) THEN hold[id][k] ELSE committed.hold[id][k]]]
  BY DEF Merge, Tables
<1>3. /\ M.request = [id \in ReqIds |->
           IF Mine(p, RequestRow(id)) THEN request[id] ELSE committed.request[id]]
      /\ M.dedication = [id \in ReqIds |->
           IF Mine(p, RequestRow(id)) THEN dedication[id] ELSE committed.dedication[id]]
      /\ M.event = [id \in ReqIds |->
           IF Mine(p, RequestRow(id)) THEN event[id] ELSE committed.event[id]]
  BY DEF Merge, Tables
<1> HIDE DEF M
<1>4. /\ M.reserved \in [Kinds -> Nat] /\ M.dedicated \in [Kinds -> Nat]
      /\ M.used \in [Customers -> [Kinds -> Nat]]
  BY <1>2 DEF TxTypeOK, RepositoryTypeOK, CommittedTypeOK
<1>5. M.hold \in [ReqIds -> [Kinds -> HoldStatus \cup {"NONE"}]]
  BY <1>2 DEF TxTypeOK, RepositoryTypeOK, CommittedTypeOK
<1>6. /\ M.request \in [ReqIds -> Row \cup {NoRow}] /\ M.dedication \in [ReqIds -> [Kinds -> Nat]]
      /\ M.event \in [ReqIds -> [EventType -> Nat]]
  BY <1>3 DEF TxTypeOK, RepositoryTypeOK, CommittedTypeOK
<1>7. CommittedTypeOK'
  BY <1>1, <1>4, <1>5, <1>6 DEF CommittedTypeOK
<1> QED BY <1>1, <1>2, <1>3, <1>7

\* A rollback restores the rows of its transaction and no other.
LEMMA RolledBack ==
  ASSUME TxTypeOK, NEW p \in Procs, Rollback(p)
  PROVE  /\ RepositoryTypeOK'
         /\ \A k \in Kinds :
              /\ reserved'[k] =
                   IF Mine(p, PoolRow(k)) THEN committed.reserved[k] ELSE reserved[k]
              /\ dedicated'[k] =
                   IF Mine(p, PoolRow(k)) THEN committed.dedicated[k] ELSE dedicated[k]
         /\ \A c \in Customers, k \in Kinds :
              used'[c][k] =
                IF Mine(p, QuotaRow(c, k)) THEN committed.used[c][k] ELSE used[c][k]
         /\ \A id \in ReqIds, k \in Kinds :
              hold'[id][k] =
                IF Mine(p, HoldRow(id, k)) THEN committed.hold[id][k] ELSE hold[id][k]
         /\ \A id \in ReqIds :
              /\ request'[id] =
                   IF Mine(p, RequestRow(id)) THEN committed.request[id] ELSE request[id]
              /\ dedication'[id] =
                   IF Mine(p, RequestRow(id)) THEN committed.dedication[id] ELSE dedication[id]
<1>1. /\ reserved' = [k \in Kinds |->
           IF Mine(p, PoolRow(k)) THEN committed.reserved[k] ELSE reserved[k]]
      /\ dedicated' = [k \in Kinds |->
           IF Mine(p, PoolRow(k)) THEN committed.dedicated[k] ELSE dedicated[k]]
      /\ used' = [c \in Customers |-> [k \in Kinds |->
           IF Mine(p, QuotaRow(c, k)) THEN committed.used[c][k] ELSE used[c][k]]]
      /\ hold' = [id \in ReqIds |-> [k \in Kinds |->
           IF Mine(p, HoldRow(id, k)) THEN committed.hold[id][k] ELSE hold[id][k]]]
  BY DEF Rollback, Merge, Tables
<1>2. /\ request' = [id \in ReqIds |->
           IF Mine(p, RequestRow(id)) THEN committed.request[id] ELSE request[id]]
      /\ dedication' = [id \in ReqIds |->
           IF Mine(p, RequestRow(id)) THEN committed.dedication[id] ELSE dedication[id]]
      /\ event' = [id \in ReqIds |->
           IF Mine(p, RequestRow(id)) THEN committed.event[id] ELSE event[id]]
  BY DEF Rollback, Merge, Tables
<1>3. /\ reserved' \in [Kinds -> Nat] /\ dedicated' \in [Kinds -> Nat]
      /\ used' \in [Customers -> [Kinds -> Nat]]
  BY <1>1 DEF TxTypeOK, RepositoryTypeOK, CommittedTypeOK
<1>4. hold' \in [ReqIds -> [Kinds -> HoldStatus \cup {"NONE"}]]
  BY <1>1 DEF TxTypeOK, RepositoryTypeOK, CommittedTypeOK
<1>5. /\ request' \in [ReqIds -> Row \cup {NoRow}] /\ dedication' \in [ReqIds -> [Kinds -> Nat]]
      /\ event' \in [ReqIds -> [EventType -> Nat]]
  BY <1>2 DEF TxTypeOK, RepositoryTypeOK, CommittedTypeOK
<1> QED BY <1>1, <1>2, <1>3, <1>4, <1>5 DEF RepositoryTypeOK

\* The transactions that open, and what they open with.
LEMMA BegunReserve ==
  ASSUME TxTypeOK, NEW p \in Procs, NEW id \in ReqIds, NEW c \in Customers, NEW key \in Keys,
         NEW b \in Bodies, BeginReserve(p, id, c, key, b)
  PROVE  /\ tx' \in [Procs -> Txs \cup {None}] /\ tx'[p] \in Txs
         /\ tx'[p].op = "reserve" /\ tx'[p].id = id /\ tx'[p].cust = c /\ tx'[p].key = key
         /\ tx'[p].body = b /\ tx'[p].left = PlanKinds(b) /\ tx'[p].snap = PlanKinds(b)
         /\ tx'[p].next = First(PlanKinds(b))
         /\ \A q \in Procs : q # p => tx'[q] = tx[q]
<1> DEFINE t == [op |-> "reserve", id |-> id, cust |-> c, key |-> key, body |-> b,
                 left |-> PlanKinds(b), snap |-> PlanKinds(b), next |-> First(PlanKinds(b))]
<1>1. t \in Txs
  BY DEF Txs, Transaction, First, Looping, PlanKinds
<1>2. tx' = [tx EXCEPT ![p] = t]
  BY DEF BeginReserve
<1>3. /\ tx' \in [Procs -> Txs \cup {None}] /\ tx'[p] = t
      /\ \A q \in Procs : q # p => tx'[q] = tx[q]
  BY <1>1, <1>2, BegunTx
<1> QED BY <1>1, <1>3

\* A transaction that ends a request starts from the committed row.
LEMMA BegunEnding ==
  ASSUME TxTypeOK, NEW p \in Procs, NEW id \in ReqIds, NEW op \in Ending, Begin(p, op, id)
  PROVE  /\ tx' \in [Procs -> Txs \cup {None}] /\ tx'[p] \in Txs
         /\ tx'[p].op = op /\ tx'[p].id = id /\ tx'[p].next = "list"
         /\ tx'[p].cust = committed.request[id].cust /\ tx'[p].key = committed.request[id].key
         /\ tx'[p].body = committed.request[id].body /\ tx'[p].left = {} /\ tx'[p].snap = {}
         /\ \A q \in Procs : q # p => tx'[q] = tx[q]
<1> DEFINE r == committed.request[id]
           t == [op |-> op, id |-> id, cust |-> r.cust, key |-> r.key, body |-> r.body,
                 left |-> {}, snap |-> {}, next |-> "list"]
<1>1. r \in Row
  BY DEF Begin, TxTypeOK, CommittedTypeOK, NoRow
<1>2. t \in Txs
  BY <1>1 DEF Txs, Transaction, Looping, Row
<1>3. tx' = [tx EXCEPT ![p] = t]
  BY DEF Begin
<1>4. /\ tx' \in [Procs -> Txs \cup {None}] /\ tx'[p] = t
      /\ \A q \in Procs : q # p => tx'[q] = tx[q]
  BY <1>2, <1>3, BegunTx
<1> QED BY <1>2, <1>4


-----------------------------------------------------------------------------
(* What each statement does. *)

\* The statements on pools.  A reserve adds what is available, a release takes
\* off, a confirm moves.
LEMMA PoolStatement ==
  ASSUME TxTypeOK, NEW p \in Procs, ReservePool(p) \/ PoolOf(p) \/ PoolSkip(p)
  PROVE  /\ TxTypeOK'
         /\ tx[p] # None /\ tx[p] \in Txs /\ tx[p].next = "pool" /\ SameTx(p)
         /\ tx'[p].left = tx[p].left /\ tx'[p].snap = tx[p].snap
         /\ tx'[p].next = "quota" \/ (tx'[p].next = "hold" /\ tx[p].op \in Ending)
         /\ UNCHANGED <<used, request, hold, dedication, event, committed>>
         /\ \/ UNCHANGED owner
            \/ ~Locked(p, PoolRow(Kind(p))) /\ Take(p, PoolRow(Kind(p)))
         /\ \A j \in Kinds : \/ reserved'[j] + dedicated'[j] <= reserved[j] + dedicated[j]
                             \/ reserved'[j] + dedicated'[j] <= Effective[j]
<1>1. /\ tx[p] # None /\ tx[p].next = "pool"
      /\ UNCHANGED <<used, request, hold, dedication, event, committed>>
      /\ \/ UNCHANGED owner
         \/ ~Locked(p, PoolRow(Kind(p))) /\ Take(p, PoolRow(Kind(p)))
  BY DEF ReservePool, PoolOf, PoolSkip, At, db
<1>2. /\ tx[p] \in Txs /\ Kind(p) \in Kinds /\ Amounts(p) \in [Kinds -> Nat]
  BY <1>1, AtKind DEF Looping
<1>3. Then(p, "quota") \/ (Then(p, "hold") /\ tx[p].op \in Ending)
  BY DEF ReservePool, PoolOf, PoolSkip
<1>4. /\ SameTx(p) /\ tx'[p].left = tx[p].left /\ tx'[p].snap = tx[p].snap
      /\ tx'[p].next = "quota" \/ (tx'[p].next = "hold" /\ tx[p].op \in Ending)
  <2>1. "quota" \in Looping /\ "hold" \in Looping /\ tx[p].left # {}
    BY <1>1, <1>2 DEF Txs, Transaction, Looping
  <2> QED BY <1>2, <1>3, <2>1, ThenTx
<1>5. owner' \in [Lockable -> Procs \cup {None}]
  BY <1>1, <1>2, TakenRow, LockableRows DEF TxTypeOK
<1>6. /\ reserved' \in [Kinds -> Nat] /\ dedicated' \in [Kinds -> Nat]
      /\ \A j \in Kinds : \/ reserved'[j] + dedicated'[j] <= reserved[j] + dedicated[j]
                          \/ reserved'[j] + dedicated'[j] <= Effective[j]
  <2> DEFINE k == Kind(p)
             a == Amounts(p)
  <2>0. /\ reserved \in [Kinds -> Nat] /\ dedicated \in [Kinds -> Nat]
        /\ a \in [Kinds -> Nat] /\ k \in Kinds /\ Effective \in [Kinds -> Nat]
    BY <1>2, EffectiveAssumption DEF TxTypeOK, RepositoryTypeOK
  <2>1. CASE ReservePool(p)
    <3>1. /\ Effective[k] - dedicated[k] - reserved[k] >= a[k] /\ UNCHANGED dedicated
          /\ reserved' = [j \in Kinds |-> reserved[j] + Only(a, k)[j]]
      BY <2>1 DEF ReservePool, TryReserve, Available
    <3>2. \A j \in Kinds : reserved'[j] = reserved[j] + (IF j = k THEN a[j] ELSE 0)
      BY <3>1 DEF Only
    <3>3. reserved' \in [Kinds -> Nat]
      BY <2>0, <3>1 DEF Only
    <3> HIDE DEF a, k
    <3> QED BY <2>0, <3>1, <3>2, <3>3
  <2>2. CASE PoolOf(p) /\ tx[p].op = "confirm"
    <3>1. /\ reserved' = [j \in Kinds |-> IF j \in {i \in {k} : reserved[i] >= a[i]}
                                          THEN reserved[j] - a[j] ELSE reserved[j]]
          /\ dedicated' = [j \in Kinds |-> IF j \in {i \in {k} : reserved[i] >= a[i]}
                                           THEN dedicated[j] + a[j] ELSE dedicated[j]]
      BY <2>2 DEF PoolOf, MoveReservedToDedicated
    <3> HIDE DEF a, k
    <3>2. reserved' \in [Kinds -> Nat] /\ dedicated' \in [Kinds -> Nat]
      BY <2>0, <3>1
    <3>3. \A j \in Kinds : reserved'[j] + dedicated'[j] <= reserved[j] + dedicated[j]
      BY <2>0, <3>1
    <3> QED BY <3>2, <3>3
  <2>3. CASE PoolOf(p) /\ tx[p].op # "confirm"
    <3>1. /\ reserved' = [j \in Kinds |-> IF j \in {k} /\ reserved[j] >= a[j]
                                          THEN reserved[j] - a[j] ELSE reserved[j]]
          /\ UNCHANGED dedicated
      BY <2>3 DEF PoolOf, ReleaseReserved
    <3> HIDE DEF a, k
    <3>2. reserved' \in [Kinds -> Nat]
      BY <2>0, <3>1
    <3>3. \A j \in Kinds : reserved'[j] <= reserved[j]
      BY <2>0, <3>1
    <3> QED BY <2>0, <3>1, <3>2, <3>3
  <2>4. CASE PoolSkip(p)
    BY <2>0, <2>4 DEF PoolSkip, db
  <2> QED BY <2>1, <2>2, <2>3, <2>4
<1>7. TxTypeOK'
  <2>1. RepositoryTypeOK'
    BY <1>1, <1>6 DEF TxTypeOK, RepositoryTypeOK
  <2>2. CommittedTypeOK'
    BY <1>1 DEF TxTypeOK, CommittedTypeOK
  <2> QED BY <1>4, <1>5, <2>1, <2>2 DEF TxTypeOK, SameTx
<1> QED BY <1>1, <1>2, <1>4, <1>6, <1>7

\* The statements on quotas.
LEMMA QuotaStatement ==
  ASSUME TxTypeOK, NEW p \in Procs, ReserveQuota(p) \/ QuotaOf(p)
  PROVE  /\ TxTypeOK'
         /\ tx[p] # None /\ tx[p] \in Txs /\ tx[p].next = "quota" /\ SameTx(p)
         /\ tx'[p].snap = tx[p].snap
         /\ \/ tx'[p].left = tx[p].left /\ tx'[p].next = "hold" /\ tx[p].op \in Ending
            \/ /\ tx'[p].left = tx[p].left \ {Kind(p)} /\ tx'[p].next = First(tx'[p].left)
               /\ tx[p].op = "reserve"
         /\ UNCHANGED <<reserved, dedicated, request, hold, dedication, event, committed>>
         /\ ~Locked(p, QuotaRow(tx[p].cust, Kind(p)))
         /\ Take(p, QuotaRow(tx[p].cust, Kind(p)))
         /\ \A c \in Customers, j \in Kinds : used'[c][j] <= used[c][j] \/ used'[c][j] <= Limit[c][j]
<1>1. /\ tx[p] # None /\ tx[p].next = "quota"
      /\ UNCHANGED <<reserved, dedicated, request, hold, dedication, event, committed>>
      /\ ~Locked(p, QuotaRow(tx[p].cust, Kind(p)))
      /\ Take(p, QuotaRow(tx[p].cust, Kind(p)))
  BY DEF ReserveQuota, QuotaOf, At
<1>2. /\ tx[p] \in Txs /\ Kind(p) \in Kinds /\ tx[p].cust \in Customers
      /\ Amounts(p) \in [Kinds -> Nat]
  BY <1>1, AtKind DEF Looping
<1>3. /\ SameTx(p) /\ tx'[p].snap = tx[p].snap
      /\ \/ tx'[p].left = tx[p].left /\ tx'[p].next = "hold" /\ tx[p].op \in Ending
         \/ /\ tx'[p].left = tx[p].left \ {Kind(p)} /\ tx'[p].next = First(tx'[p].left)
            /\ tx[p].op = "reserve"
  <2>1. CASE ReserveQuota(p)
    BY <1>2, <2>1, NextKindTx DEF ReserveQuota, At
  <2>2. CASE QuotaOf(p)
    <3>1. "hold" \in Looping /\ tx[p].left # {} /\ Then(p, "hold") /\ tx[p].op \in Ending
      BY <1>1, <1>2, <2>2 DEF Txs, Transaction, Looping, QuotaOf, Ending
    <3> QED BY <1>2, <3>1, ThenTx
  <2> QED BY <2>1, <2>2
<1>4. owner' \in [Lockable -> Procs \cup {None}]
  BY <1>1, <1>2, TakenRow, LockableRows
<1>5. /\ used' \in [Customers -> [Kinds -> Nat]]
      /\ \A c \in Customers, j \in Kinds : used'[c][j] <= used[c][j] \/ used'[c][j] <= Limit[c][j]
  <2> DEFINE k == Kind(p)
             a == Amounts(p)
             d == tx[p].cust
  <2>0. /\ used \in [Customers -> [Kinds -> Nat]] /\ a \in [Kinds -> Nat] /\ k \in Kinds
        /\ d \in Customers /\ Limit \in [Customers -> [Kinds -> Nat]]
    BY <1>2, LimitAssumption DEF TxTypeOK, RepositoryTypeOK
  <2>1. CASE ReserveQuota(p)
    <3>1. /\ Limit[d][k] - used[d][k] >= a[k]
          /\ used' = [used EXCEPT ![d] = [j \in Kinds |-> used[d][j] + Only(a, k)[j]]]
      BY <2>1 DEF ReserveQuota, EnsureAndTryConsume
    <3>2. \A j \in Kinds : Only(a, k)[j] = IF j = k THEN a[j] ELSE 0
      BY DEF Only
    <3> HIDE DEF a, k, d
    <3>3. used' \in [Customers -> [Kinds -> Nat]]
      BY <2>0, <3>1, <3>2
    <3>4. /\ \A j \in Kinds : used'[d][j] = used[d][j] + (IF j = k THEN a[j] ELSE 0)
          /\ \A c \in Customers : c # d => used'[c] = used[c]
      BY <2>0, <3>1, <3>2
    <3>5. \A j \in Kinds : used'[d][j] <= used[d][j] \/ used'[d][j] <= Limit[d][j]
      BY <2>0, <3>1, <3>4
    <3>6. \A c \in Customers, j \in Kinds : c # d => used'[c][j] <= used[c][j]
      BY <2>0, <3>4
    <3> QED BY <3>3, <3>5, <3>6
  <2>2. CASE QuotaOf(p)
    <3>1. used' = [used EXCEPT ![d] =
             [j \in Kinds |-> IF j \notin {k} THEN used[d][j]
                              ELSE IF used[d][j] >= a[j] THEN used[d][j] - a[j]
                              ELSE 0]]
      BY <2>2 DEF QuotaOf, ReleaseQuota
    <3> HIDE DEF a, k, d
    <3>2. used' \in [Customers -> [Kinds -> Nat]]
      BY <2>0, <3>1
    <3>3. /\ \A j \in Kinds : used'[d][j] <= used[d][j]
          /\ \A c \in Customers : c # d => used'[c] = used[c]
      BY <2>0, <3>1
    <3>4. \A c \in Customers, j \in Kinds : used'[c][j] <= used[c][j]
      BY <2>0, <3>3
    <3> QED BY <3>2, <3>4
  <2> QED BY <2>1, <2>2
<1>6. TxTypeOK'
  <2>1. RepositoryTypeOK'
    BY <1>1, <1>5 DEF TxTypeOK, RepositoryTypeOK
  <2>2. CommittedTypeOK'
    BY <1>1 DEF TxTypeOK, CommittedTypeOK
  <2> QED BY <1>3, <1>4, <2>1, <2>2 DEF TxTypeOK, SameTx
<1> QED BY <1>1, <1>2, <1>3, <1>5, <1>6


\* The statements on holds.
LEMMA HoldStatement ==
  ASSUME TxTypeOK, NEW p \in Procs, HoldOf(p) \/ HoldSkip(p)
  PROVE  /\ TxTypeOK'
         /\ tx[p] # None /\ tx[p] \in Txs /\ tx[p].op \in Ending /\ tx[p].next = "hold" /\ SameTx(p)
         /\ tx'[p].snap = tx[p].snap /\ tx'[p].left = tx[p].left \ {Kind(p)}
         /\ tx'[p].next = First(tx'[p].left)
         /\ UNCHANGED <<reserved, dedicated, used, request, dedication, event, committed>>
         /\ LET k == Kind(p)  id == tx[p].id IN
            /\ HoldOf(p) =>
                 /\ ~Locked(p, HoldRow(id, k)) /\ Take(p, HoldRow(id, k))
                 /\ hold[id][k] = "ACTIVE" /\ hold'[id][k] = HoldTo[tx[p].op]
                 /\ \A i \in ReqIds, j \in Kinds : i # id \/ j # k => hold'[i][j] = hold[i][j]
            /\ HoldSkip(p) =>
                 /\ UNCHANGED <<hold, owner>> /\ tx[p].op # "confirm"
                 /\ committed.hold[id][k] # "ACTIVE"
<1> DEFINE k == Kind(p)
           id == tx[p].id
<1>1. /\ tx[p] # None /\ tx[p].next = "hold" /\ tx[p].op \in Ending /\ ThenNextKind(p)
      /\ UNCHANGED <<reserved, dedicated, used, request, dedication, event, committed>>
  BY DEF HoldOf, HoldSkip, db
<1>2. tx[p] \in Txs /\ k \in Kinds /\ id \in ReqIds
  BY <1>1, AtKind DEF Looping
<1>3. /\ SameTx(p) /\ tx'[p].snap = tx[p].snap /\ tx'[p].left = tx[p].left \ {k}
      /\ tx'[p].next = First(tx'[p].left)
  BY <1>1, <1>2, NextKindTx
<1>4. HoldTo[tx[p].op] \in HoldStatus
  BY <1>1 DEF HoldTo, HoldStatus, Ending
<1>5. ASSUME HoldOf(p)
      PROVE  /\ TxTypeOK' /\ ~Locked(p, HoldRow(id, k)) /\ Take(p, HoldRow(id, k))
             /\ hold[id][k] = "ACTIVE" /\ hold'[id][k] = HoldTo[tx[p].op]
             /\ \A i \in ReqIds, j \in Kinds : i # id \/ j # k => hold'[i][j] = hold[i][j]
  <2>1. /\ ~Locked(p, HoldRow(id, k)) /\ Take(p, HoldRow(id, k)) /\ hold[id][k] = "ACTIVE"
        /\ UpdateHoldStatus(id, {k}, HoldTo[tx[p].op])
    BY <1>5 DEF HoldOf
  <2> HIDE DEF k, id
  <2>2. /\ hold' \in [ReqIds -> [Kinds -> HoldStatus \cup {"NONE"}]]
        /\ \A j \in Kinds : hold'[id][j] = IF j \in {k} /\ hold[id][j] = "ACTIVE"
                                           THEN HoldTo[tx[p].op] ELSE hold[id][j]
        /\ \A i \in ReqIds : i # id => hold'[i] = hold[i]
    BY <1>2, <1>4, <2>1, UpdatedHolds DEF TxTypeOK
  <2>3. /\ hold'[id][k] = HoldTo[tx[p].op]
        /\ \A i \in ReqIds, j \in Kinds : i # id \/ j # k => hold'[i][j] = hold[i][j]
    BY <1>2, <2>1, <2>2
  <2>4. owner' \in [Lockable -> Procs \cup {None}]
    BY <1>2, <2>1, TakenRow, LockableRows
  <2>5. TxTypeOK'
    <3>1. RepositoryTypeOK'
      BY <1>1, <2>2 DEF TxTypeOK, RepositoryTypeOK
    <3>2. CommittedTypeOK'
      BY <1>1 DEF TxTypeOK, CommittedTypeOK
    <3> QED BY <1>3, <2>4, <3>1, <3>2 DEF TxTypeOK, SameTx
  <2> QED BY <2>1, <2>3, <2>5
<1>6. ASSUME HoldSkip(p)
      PROVE  /\ TxTypeOK' /\ UNCHANGED <<hold, owner>> /\ tx[p].op # "confirm"
             /\ committed.hold[id][k] # "ACTIVE"
  <2>1. /\ UNCHANGED <<hold, owner>> /\ tx[p].op # "confirm" /\ committed.hold[id][k] # "ACTIVE"
    BY <1>6 DEF HoldSkip, db
  <2>2. TxTypeOK'
    <3>1. RepositoryTypeOK' /\ CommittedTypeOK'
      BY <1>1, <2>1 DEF TxTypeOK, RepositoryTypeOK, CommittedTypeOK
    <3> QED BY <1>3, <2>1, <3>1 DEF TxTypeOK, SameTx
  <2> QED BY <2>1, <2>2
<1> QED BY <1>1, <1>2, <1>3, <1>5, <1>6

\* The rows that the INSERT of a reservation locks.
Inserted(t) == {KeyRow(t.cust, t.key), RequestRow(t.id)} \cup {HoldRow(t.id, k) : k \in Kinds}

\* The INSERT of a reservation.
LEMMA InsertStatement ==
  ASSUME TxTypeOK, NEW p \in Procs, ReserveInsert(p)
  PROVE  LET t == tx[p] IN
         /\ TxTypeOK'
         /\ tx[p] # None /\ t \in Txs /\ t.op = "reserve" /\ t.next = "request" /\ SameTx(p)
         /\ tx'[p].next = "commit" /\ tx'[p].left = t.left /\ tx'[p].snap = t.snap
         /\ ~Locked(p, KeyRow(t.cust, t.key)) /\ FindByIdempotency(t.cust, t.key) = {}
         /\ UNCHANGED <<reserved, dedicated, used, dedication, committed>>
         /\ request'[t.id].status = "RESERVED" /\ request'[t.id].cust = t.cust
         /\ request'[t.id].key = t.key /\ request'[t.id].body = t.body
         /\ \A i \in ReqIds : i # t.id => request'[i] = request[i] /\ hold'[i] = hold[i]
         /\ \A k \in Kinds : hold'[t.id][k] = IF k \in PlanKinds(t.body) THEN "ACTIVE" ELSE "NONE"
         /\ \A row \in Lockable : owner'[row] = IF row \in Inserted(t) THEN p ELSE owner[row]
<1> DEFINE t == tx[p]
           row == [status |-> "RESERVED", cust |-> t.cust, key |-> t.key, body |-> t.body,
                   created |-> 0, exp |-> 0, ext |-> 0]
<1>1. /\ tx[p] # None /\ t.op = "reserve" /\ t.next = "request" /\ Then(p, "commit")
      /\ ~Locked(p, KeyRow(t.cust, t.key)) /\ FindByIdempotency(t.cust, t.key) = {}
      /\ UNCHANGED <<reserved, dedicated, used, dedication, committed>>
      /\ request' = [request EXCEPT ![t.id] = row]
      /\ hold' = [hold EXCEPT ![t.id] =
           [k \in Kinds |-> IF k \in PlanKinds(t.body) THEN "ACTIVE" ELSE "NONE"]]
      /\ insertEvent(t.id, "reserved")
      /\ owner' = [r \in Lockable |-> IF r \in Inserted(t) THEN p ELSE owner[r]]
  BY DEF ReserveInsert, At, CreateReserved, Inserted
<1>2. /\ t \in Txs /\ t.id \in ReqIds /\ t.cust \in Customers /\ t.key \in Keys
      /\ t.body \in Bodies /\ t.left = {}
  BY <1>1 DEF TxTypeOK, Txs, Transaction, Looping
<1>3. /\ SameTx(p) /\ tx'[p].next = "commit" /\ tx'[p].left = t.left /\ tx'[p].snap = t.snap
  BY <1>1, <1>2, ThenTx DEF Looping
<1>4. row \in Row /\ row.status = "RESERVED" /\ row.cust = t.cust /\ row.key = t.key
        /\ row.body = t.body
  BY <1>2 DEF Row, RequestStatus
<1> HIDE DEF row, t
<1>5. /\ request' \in [ReqIds -> Row \cup {NoRow}] /\ request'[t.id] = row
      /\ \A i \in ReqIds : i # t.id => request'[i] = request[i]
  BY <1>1, <1>2, <1>4, InsertedRow DEF TxTypeOK
<1>6. event' \in [ReqIds -> [EventType -> Nat]]
  BY <1>1, <1>2, InsertedEvent DEF TxTypeOK, EventType
<1>7. /\ hold' \in [ReqIds -> [Kinds -> HoldStatus \cup {"NONE"}]]
      /\ \A k \in Kinds : hold'[t.id][k] = IF k \in PlanKinds(t.body) THEN "ACTIVE" ELSE "NONE"
      /\ \A i \in ReqIds : i # t.id => hold'[i] = hold[i]
  BY <1>1, <1>2 DEF TxTypeOK, RepositoryTypeOK, HoldStatus
<1>8. TxTypeOK'
  <2>1. RepositoryTypeOK'
    BY <1>1, <1>5, <1>6, <1>7 DEF TxTypeOK, RepositoryTypeOK
  <2>2. CommittedTypeOK'
    BY <1>1 DEF TxTypeOK, CommittedTypeOK
  <2>3. owner' \in [Lockable -> Procs \cup {None}]
    BY <1>1 DEF TxTypeOK
  <2> QED BY <1>3, <2>1, <2>2, <2>3 DEF TxTypeOK, SameTx
<1>9. \A r \in Lockable : owner'[r] = IF r \in Inserted(t) THEN p ELSE owner[r]
  BY <1>1
<1> QED BY <1>1, <1>2, <1>3, <1>4, <1>5, <1>7, <1>8, <1>9 DEF t

\* The UPDATE of the request that ends it.
LEMMA RequestStatement ==
  ASSUME TxTypeOK, NEW p \in Procs, RequestOf(p)
  PROVE  LET t == tx[p] IN
         /\ TxTypeOK'
         /\ tx[p] # None /\ t \in Txs /\ t.op \in Ending /\ t.next = "request" /\ SameTx(p)
         /\ tx'[p].next = "commit" /\ tx'[p].left = t.left /\ tx'[p].snap = t.snap
         /\ ~Locked(p, RequestRow(t.id)) /\ Take(p, RequestRow(t.id))
         /\ UNCHANGED <<reserved, dedicated, used, hold, committed>>
         /\ request[t.id].status = "RESERVED" /\ request'[t.id].status = StatusTo[t.op]
         /\ request'[t.id].cust = request[t.id].cust /\ request'[t.id].key = request[t.id].key
         /\ request'[t.id].body = request[t.id].body
         /\ \A i \in ReqIds : i # t.id => request'[i] = request[i] /\ dedication'[i] = dedication[i]
         /\ \A k \in Kinds : dedication'[t.id][k] = IF t.op = "confirm" /\ k \in t.snap
                                                    THEN dedication[t.id][k] + 1
                                                    ELSE dedication[t.id][k]
<1> DEFINE t == tx[p]
<1>1. /\ tx[p] # None /\ t.op \in Ending /\ t.next = "request" /\ Then(p, "commit")
      /\ ~Locked(p, RequestRow(t.id)) /\ Take(p, RequestRow(t.id))
      /\ UNCHANGED <<reserved, dedicated, used, hold, committed>>
      /\ request[t.id].status = "RESERVED"
      /\ SetStatus(t.id, StatusTo[t.op]) /\ insertEvent(t.id, EventTo[t.op])
      /\ IF t.op = "confirm" THEN InsertDedications(t.id, t.snap) ELSE UNCHANGED dedication
  BY DEF RequestOf, markTerminal
<1>2. t \in Txs /\ t.id \in ReqIds /\ t.left = {}
  BY <1>1 DEF TxTypeOK, Txs, Transaction, Looping
<1>3. /\ SameTx(p) /\ tx'[p].next = "commit" /\ tx'[p].left = t.left /\ tx'[p].snap = t.snap
  BY <1>1, <1>2, ThenTx DEF Looping
<1>4. StatusTo[t.op] \in RequestStatus /\ EventTo[t.op] \in EventType
  BY <1>1 DEF StatusTo, EventTo, Ending, RequestStatus, EventType
<1> HIDE DEF t
<1>5. /\ request' \in [ReqIds -> Row \cup {NoRow}] /\ request'[t.id].status = StatusTo[t.op]
      /\ request'[t.id].cust = request[t.id].cust /\ request'[t.id].key = request[t.id].key
      /\ request'[t.id].body = request[t.id].body
      /\ \A i \in ReqIds : i # t.id => request'[i] = request[i]
  <2>1. Exists(t.id)
    BY <1>1 DEF Exists
  <2> QED BY <1>1, <1>2, <1>4, <2>1, SetStatusRow DEF TxTypeOK
<1>6. event' \in [ReqIds -> [EventType -> Nat]]
  BY <1>1, <1>2, <1>4, InsertedEvent DEF TxTypeOK
<1>7. /\ dedication' \in [ReqIds -> [Kinds -> Nat]]
      /\ \A i \in ReqIds : i # t.id => dedication'[i] = dedication[i]
      /\ \A k \in Kinds : dedication'[t.id][k] = IF t.op = "confirm" /\ k \in t.snap
                                                 THEN dedication[t.id][k] + 1
                                                 ELSE dedication[t.id][k]
  <2>0. dedication \in [ReqIds -> [Kinds -> Nat]]
    BY DEF TxTypeOK, RepositoryTypeOK
  <2>1. CASE t.op = "confirm"
    BY <1>1, <1>2, <2>0, <2>1 DEF InsertDedications
  <2>2. CASE t.op # "confirm"
    BY <1>1, <1>2, <2>0, <2>2
  <2> QED BY <2>1, <2>2
<1>8. TxTypeOK'
  <2>1. RepositoryTypeOK'
    BY <1>1, <1>5, <1>6, <1>7 DEF TxTypeOK, RepositoryTypeOK
  <2>2. CommittedTypeOK'
    BY <1>1 DEF TxTypeOK, CommittedTypeOK
  <2>3. owner' \in [Lockable -> Procs \cup {None}]
    BY <1>1, <1>2, TakenRow, LockableRows
  <2> QED BY <1>3, <2>1, <2>2, <2>3 DEF TxTypeOK, SameTx
<1> QED BY <1>1, <1>2, <1>3, <1>5, <1>7, <1>8 DEF t

\* A release that finds its request ended already goes on to commit.
LEMMA SkipStatement ==
  ASSUME TxTypeOK, NEW p \in Procs, RequestSkip(p)
  PROVE  /\ TxTypeOK'
         /\ tx[p] # None /\ tx[p] \in Txs /\ tx[p].op \in Ending \ {"confirm"}
         /\ tx[p].next = "request" /\ SameTx(p)
         /\ tx'[p].next = "commit" /\ tx'[p].left = tx[p].left /\ tx'[p].snap = tx[p].snap
         /\ committed.request[tx[p].id].status # "RESERVED"
         /\ UNCHANGED <<db, committed, owner>>
<1>1. /\ tx[p] # None /\ tx[p].op \in Ending \ {"confirm"} /\ tx[p].next = "request"
      /\ committed.request[tx[p].id].status # "RESERVED" /\ Then(p, "commit")
      /\ UNCHANGED <<db, committed, owner>>
  BY DEF RequestSkip
<1>2. tx[p] \in Txs /\ tx[p].left = {}
  BY <1>1 DEF TxTypeOK, Txs, Transaction, Looping
<1>3. /\ SameTx(p) /\ tx'[p].next = "commit" /\ tx'[p].left = tx[p].left /\ tx'[p].snap = tx[p].snap
  BY <1>1, <1>2, ThenTx DEF Looping
<1>4. RepositoryTypeOK' /\ CommittedTypeOK'
  BY <1>1 DEF TxTypeOK, RepositoryTypeOK, CommittedTypeOK, db
<1> QED BY <1>1, <1>2, <1>3, <1>4 DEF TxTypeOK, SameTx


\* An open transaction is a transaction.
LEMMA OpenTx ==
  ASSUME TxTypeOK, NEW p \in Procs
  PROVE  tx[p] # None <=> tx[p] \in Txs
  BY NoTxAssumption DEF TxTypeOK, Txs

\* Every step is well typed.
LEMMA TxTypeStep == TxTypeOK /\ [TxNext]_tvars => TxTypeOK'
<1> SUFFICES ASSUME TxTypeOK, [TxNext]_tvars PROVE TxTypeOK'
  OBVIOUS
<1>1. ASSUME NEW p \in Procs, UNCHANGED <<db, committed, owner>>,
             tx' \in [Procs -> Txs \cup {None}]
      PROVE  TxTypeOK'
  <2>1. RepositoryTypeOK' /\ CommittedTypeOK'
    BY <1>1 DEF TxTypeOK, RepositoryTypeOK, CommittedTypeOK, db
  <2> QED BY <1>1, <2>1 DEF TxTypeOK
<1>2. ASSUME NEW p \in Procs, NEW id \in ReqIds, NEW c \in Customers, NEW key \in Keys,
             NEW b \in Bodies, BeginReserve(p, id, c, key, b)
      PROVE  TxTypeOK'
  BY <1>1, <1>2, BegunReserve DEF BeginReserve
<1>3. ASSUME NEW p \in Procs, NEW id \in ReqIds, NEW op \in Ending, Begin(p, op, id)
      PROVE  TxTypeOK'
  BY <1>1, <1>3, BegunEnding DEF Begin
<1>4. ASSUME NEW p \in Procs, ListActiveHoldsInOrder(p)
      PROVE  TxTypeOK'
  BY <1>1, <1>4, ListTx DEF ListActiveHoldsInOrder, SameTx
<1>5. ASSUME NEW p \in Procs, Commit(p)
      PROVE  TxTypeOK'
  <2>1. CommittedTypeOK' /\ UNCHANGED db /\ EndTx(p)
    BY <1>5, Committed DEF Commit
  <2>2. RepositoryTypeOK'
    BY <2>1 DEF TxTypeOK, RepositoryTypeOK, db
  <2> QED BY <2>1, <2>2, EndedTx DEF TxTypeOK
<1>6. ASSUME NEW p \in Procs, Rollback(p)
      PROVE  TxTypeOK'
  <2>1. RepositoryTypeOK' /\ UNCHANGED committed /\ EndTx(p)
    BY <1>6, RolledBack DEF Rollback
  <2>2. CommittedTypeOK'
    BY <2>1 DEF TxTypeOK, CommittedTypeOK
  <2> QED BY <2>1, <2>2, EndedTx DEF TxTypeOK
<1>7. CASE UNCHANGED tvars
  BY <1>7 DEF tvars, db, TxTypeOK, RepositoryTypeOK, CommittedTypeOK
<1> QED BY <1>2, <1>3, <1>4, <1>5, <1>6, <1>7, PoolStatement, QuotaStatement, HoldStatement,
  InsertStatement, RequestStatement, SkipStatement DEF TxNext, Statement

\* The tables and the transactions start empty.
LEMMA TxTypeInit == TxInit => TxTypeOK
<1> SUFFICES ASSUME TxInit PROVE TxTypeOK
  OBVIOUS
<1>1. RepositoryTypeOK
  BY DEF TxInit, RepositoryInit, RepositoryTypeOK
<1>2. CommittedTypeOK
  BY <1>1 DEF TxInit, Tables, CommittedTypeOK, RepositoryTypeOK
<1> QED BY <1>1, <1>2 DEF TxInit, TxTypeOK

\* TxTypeOK holds at first, and every statement keeps it.
LEMMA TxTypes == TxSpec => []TxTypeOK
  BY TxTypeInit, TxTypeStep, PTL DEF TxSpec

-----------------------------------------------------------------------------
(* No pool and no quota is oversold, statement by statement. *)

\* A commit or a rollback takes both counters of a pool from the same version,
\* and a statement is evaluated on the latest version of its row.
LEMMA NotOversoldStep == TxTypeOK /\ NeverOversold /\ [TxNext]_tvars => NeverOversold'
<1> SUFFICES ASSUME TxTypeOK, NeverOversold, [TxNext]_tvars PROVE NeverOversold'
  OBVIOUS
<1>0. /\ reserved \in [Kinds -> Nat] /\ dedicated \in [Kinds -> Nat]
      /\ used \in [Customers -> [Kinds -> Nat]] /\ Effective \in [Kinds -> Nat]
      /\ Limit \in [Customers -> [Kinds -> Nat]]
      /\ reserved' \in [Kinds -> Nat] /\ dedicated' \in [Kinds -> Nat]
      /\ used' \in [Customers -> [Kinds -> Nat]]
  BY TxTypeStep, EffectiveAssumption, LimitAssumption DEF TxTypeOK, RepositoryTypeOK
<1>1. ASSUME UNCHANGED <<reserved, dedicated, used, committed>>
      PROVE  NeverOversold'
  BY <1>1 DEF NeverOversold
<1>2. ASSUME NEW p \in Procs, ReservePool(p) \/ PoolOf(p) \/ PoolSkip(p)
      PROVE  NeverOversold'
  <2>1. /\ UNCHANGED <<used, committed>>
        /\ \A j \in Kinds : \/ reserved'[j] + dedicated'[j] <= reserved[j] + dedicated[j]
                            \/ reserved'[j] + dedicated'[j] <= Effective[j]
    BY <1>2, PoolStatement
  <2>2. \A j \in Kinds : reserved'[j] + dedicated'[j] <= Effective[j]
    BY <1>0, <2>1 DEF NeverOversold
  <2> QED BY <2>1, <2>2 DEF NeverOversold
<1>3. ASSUME NEW p \in Procs, ReserveQuota(p) \/ QuotaOf(p)
      PROVE  NeverOversold'
  <2>1. /\ UNCHANGED <<reserved, dedicated, committed>>
        /\ \A c \in Customers, j \in Kinds : used'[c][j] <= used[c][j] \/ used'[c][j] <= Limit[c][j]
    BY <1>3, QuotaStatement
  <2>2. \A c \in Customers, j \in Kinds : used'[c][j] <= Limit[c][j]
    BY <1>0, <2>1 DEF NeverOversold
  <2> QED BY <2>1, <2>2 DEF NeverOversold
<1>4. ASSUME NEW p \in Procs, Commit(p)
      PROVE  NeverOversold'
  <2>1. UNCHANGED <<reserved, dedicated, used>>
    BY <1>4 DEF Commit, db
  <2>2. \A k \in Kinds : committed'.reserved[k] + committed'.dedicated[k] <= Effective[k]
    BY <1>4, Committed DEF NeverOversold
  <2>3. \A c \in Customers, k \in Kinds : committed'.used[c][k] <= Limit[c][k]
    BY <1>4, Committed DEF NeverOversold
  <2> QED BY <2>1, <2>2, <2>3 DEF NeverOversold
<1>5. ASSUME NEW p \in Procs, Rollback(p)
      PROVE  NeverOversold'
  <2>1. UNCHANGED committed
    BY <1>5 DEF Rollback
  <2>2. \A k \in Kinds : reserved'[k] + dedicated'[k] <= Effective[k]
    BY <1>5, RolledBack DEF NeverOversold
  <2>3. \A c \in Customers, k \in Kinds : used'[c][k] <= Limit[c][k]
    BY <1>5, RolledBack DEF NeverOversold
  <2> QED BY <2>1, <2>2, <2>3 DEF NeverOversold
<1>6. ASSUME NEW p \in Procs, ListActiveHoldsInOrder(p) \/ RequestSkip(p) \/ HoldOf(p)
               \/ HoldSkip(p) \/ ReserveInsert(p) \/ RequestOf(p)
      PROVE  NeverOversold'
  BY <1>1, <1>6 DEF ListActiveHoldsInOrder, RequestSkip, HoldOf, HoldSkip, ReserveInsert,
    RequestOf, db
<1>7. ASSUME NEW p \in Procs, NEW id \in ReqIds,
             \/ \E c \in Customers, key \in Keys, b \in Bodies : BeginReserve(p, id, c, key, b)
             \/ \E op \in Ending : Begin(p, op, id)
      PROVE  NeverOversold'
  BY <1>1, <1>7 DEF BeginReserve, Begin, db
<1>8. CASE UNCHANGED tvars
  BY <1>1, <1>8 DEF tvars, db
<1> QED BY <1>2, <1>3, <1>4, <1>5, <1>6, <1>7, <1>8 DEF TxNext, Statement

\* Whatever statements of whatever transactions come between, no pool and no
\* quota is promised beyond its limit, committed or not.
THEOREM StatementsNeverOversell == TxSpec => []NeverOversold
<1>1. TxInit => NeverOversold
  BY EffectiveAssumption, LimitAssumption DEF TxInit, RepositoryInit, Tables, NeverOversold
<1> QED BY <1>1, NotOversoldStep, TxTypes, PTL DEF TxSpec


-----------------------------------------------------------------------------
(* No deadlock. *)

Top == 3 * Len(PoolOrder) + 3

\* How far the transaction of p has come: the pools in the order of their ids,
\* the quota and the hold of a kind after its pool, then the request.
Rank(p) ==
  LET t == tx[p]  n == 3 * PoolId(Kind(p)) IN
  IF t = None THEN 0
  ELSE CASE t.next = "list" -> 0
         [] t.next = "pool" -> n
         [] t.next = "quota" -> n + 1
         [] t.next = "hold" -> n + 2
         [] t.next = "request" -> Top
         [] t.next = "commit" -> Top + 1

\* A transaction that has come as far as n has passed the row.
Passed(row, n) ==
  \/ \E k \in Kinds : row = PoolRow(k) /\ 3 * PoolId(k) < n
  \/ \E c \in Customers, k \in Kinds : row = QuotaRow(c, k) /\ 3 * PoolId(k) + 1 < n
  \/ \E id \in ReqIds, k \in Kinds : row = HoldRow(id, k) /\ 3 * PoolId(k) + 2 < n
  \/ Top < n

\* A transaction holds locks only of rows it has passed.
LocksBehind ==
  \A row \in Lockable : owner[row] # None =>
    tx[owner[row]] # None /\ Passed(row, Rank(owner[row]))

\* The rank of an open transaction, by the table of its next statement.
LEMMA Ranks ==
  ASSUME TxTypeOK, NEW p \in Procs
  PROVE  /\ Rank(p) \in 0 .. (Top + 1) /\ Top \in Nat
         /\ tx[p] # None =>
              /\ tx[p].next \in Looping =>
                   /\ Kind(p) \in Kinds /\ PoolId(Kind(p)) \in 1 .. Len(PoolOrder)
                   /\ Rank(p) = 3 * PoolId(Kind(p)) + (CASE tx[p].next = "pool" -> 0
                                                         [] tx[p].next = "quota" -> 1
                                                         [] tx[p].next = "hold" -> 2)
              /\ tx[p].next = "list" => Rank(p) = 0
              /\ tx[p].next = "request" => Rank(p) = Top
              /\ tx[p].next = "commit" => Rank(p) = Top + 1
<1>1. Top \in Nat /\ Len(PoolOrder) \in Nat /\ Top = 3 * Len(PoolOrder) + 3
  BY PoolOrderAssumption DEF Top
<1>2. CASE tx[p] = None
  BY <1>1, <1>2 DEF Rank
<1>3. CASE tx[p] # None
  <2>1. tx[p].next \in Looping \cup {"list", "request", "commit"}
    BY <1>3 DEF TxTypeOK, Txs, Transaction, Looping
  <2>2. CASE tx[p].next \in Looping
    <3>1. Kind(p) \in Kinds /\ PoolId(Kind(p)) \in 1 .. Len(PoolOrder)
      BY <1>3, <2>2, AtKind, PoolIds
    <3> QED BY <1>1, <1>3, <2>2, <3>1 DEF Rank, Looping
  <2>3. CASE tx[p].next \notin Looping
    BY <1>1, <1>3, <2>1, <2>3 DEF Rank, Looping
  <2> QED BY <2>2, <2>3
<1> QED BY <1>2, <1>3

\* Going on to the next kind, or out of the loop, is going on.
LEMMA NextKindFurther ==
  ASSUME TxTypeOK, TxTypeOK', NEW p \in Procs, tx[p] # None, tx[p].next \in Looping,
         SameTx(p), tx'[p].left = tx[p].left \ {Kind(p)}, tx'[p].next = First(tx'[p].left)
  PROVE  Rank(p)' \in Nat /\ 3 * PoolId(Kind(p)) + 2 < Rank(p)'
<1> DEFINE n == PoolId(Kind(p))
<1>1. /\ Kind(p) \in Kinds /\ n \in 1 .. Len(PoolOrder)
      /\ tx[p].left \in SUBSET Kinds /\ \A j \in tx[p].left : n <= PoolId(j)
  BY AtKind, PoolIds DEF Txs, Transaction
<1>2. tx'[p] \in Txs /\ tx'[p] # None
  BY NoTxAssumption DEF SameTx, Txs
<1>3. Len(PoolOrder) \in Nat
  BY PoolOrderAssumption
<1>4. CASE tx'[p].left = {}
  <2>1. Rank(p)' = Top
    BY <1>2, <1>4 DEF Rank, First
  <2> QED BY <1>1, <1>3, <2>1 DEF Top
<1>5. CASE tx'[p].left # {}
  <2>1. Rank(p)' = 3 * PoolId(Kind(p)')
    BY <1>2, <1>5 DEF Rank, First, PoolId
  <2>2. Kind(p)' \in tx'[p].left
    BY <1>1, <1>5, FirstByPoolId DEF Kind, PoolId
  <2>3. /\ Kind(p)' \in Kinds /\ Kind(p)' # Kind(p) /\ n <= PoolId(Kind(p)')
    BY <1>1, <2>2
  <2>4. PoolId(Kind(p)') \in 1 .. Len(PoolOrder) /\ PoolId(Kind(p)') # n
    BY <1>1, <2>3, PoolIds
  <2> QED BY <1>1, <1>3, <2>1, <2>3, <2>4
<1> QED BY <1>4, <1>5

\* A statement that goes on, and locks at most rows it has then passed.
LEMMA LocksBehindKept ==
  ASSUME TxTypeOK, LocksBehind, NEW p \in Procs, SameTx(p), TxTypeOK', tx[p] # None,
         Rank(p)' \in Nat, Rank(p) <= Rank(p)',
         \A row \in Lockable : \/ owner'[row] = owner[row]
                               \/ owner'[row] = p /\ Passed(row, Rank(p)')
  PROVE  LocksBehind'
<1> SUFFICES ASSUME NEW row \in Lockable, owner'[row] # None
             PROVE  tx'[owner'[row]] # None /\ Passed(row, Rank(owner[row])')
  BY DEF LocksBehind, Passed, PoolId, Lockable, PoolRow, QuotaRow, HoldRow, RequestRow, KeyRow, Top
<1>1. tx'[p] # None
  BY NoTxAssumption DEF SameTx, Txs
<1>2. owner'[row] \in Procs
  BY DEF TxTypeOK
<1>3. CASE owner'[row] # p
  <2> DEFINE q == owner[row]
  <2>1. owner'[row] = q /\ q \in Procs /\ q # p
    BY <1>2, <1>3
  <2>2. tx[q] # None /\ Passed(row, Rank(q))
    BY <2>1 DEF LocksBehind
  <2>3. tx'[q] = tx[q]
    BY <2>1 DEF SameTx
  <2>4. Rank(q)' = Rank(q)
    BY <2>1, <2>3 DEF Rank, Kind, PoolId, Top
  <2> QED BY <2>1, <2>2, <2>3, <2>4
<1>4. CASE owner'[row] = p
  <2>1. Rank(owner[row])' = Rank(p)'
    BY <1>4
  <2>2. CASE Passed(row, Rank(p)')
    BY <1>1, <1>4, <2>1, <2>2
  <2>3. CASE owner[row] = p
    <3>1. Passed(row, Rank(p))
      BY <2>3 DEF LocksBehind
    <3>2. Rank(p) \in Nat /\ Rank(p)' \in Nat /\ Top \in Nat
      BY Ranks
    <3>3. Passed(row, Rank(p)')
      BY <3>1, <3>2, PoolIds DEF Passed
    <3> QED BY <1>1, <1>4, <2>1, <3>3
  <2> QED BY <1>4, <2>2, <2>3
<1> QED BY <1>3, <1>4


\* Every step keeps the locks behind.
LEMMA LocksBehindStep == TxTypeOK /\ LocksBehind /\ [TxNext]_tvars => LocksBehind'
<1> SUFFICES ASSUME TxTypeOK, LocksBehind, [TxNext]_tvars PROVE LocksBehind'
  OBVIOUS
<1>0. /\ TxTypeOK' /\ Top \in Nat /\ \A p \in Procs : Rank(p) \in 0 .. (Top + 1)
      /\ Len(PoolOrder) \in Nat
  BY TxTypeStep, Ranks, PoolOrderAssumption DEF Top
<1>1. ASSUME NEW p \in Procs, tx[p] = None, UNCHANGED owner,
             \A q \in Procs : q # p => tx'[q] = tx[q]
      PROVE  LocksBehind'
  <2> SUFFICES ASSUME NEW row \in Lockable, owner'[row] # None
               PROVE  tx'[owner'[row]] # None /\ Passed(row, Rank(owner[row])')
    BY DEF LocksBehind, Passed, PoolId, Lockable, PoolRow, QuotaRow, HoldRow, RequestRow, KeyRow, Top
  <2> DEFINE q == owner[row]
  <2>1. owner'[row] = q /\ q \in Procs /\ tx[q] # None /\ Passed(row, Rank(q))
    BY <1>1 DEF LocksBehind, TxTypeOK
  <2>2. tx'[q] = tx[q]
    BY <1>1, <2>1
  <2>3. Rank(q)' = Rank(q)
    BY <2>1, <2>2 DEF Rank, Kind, PoolId, Top
  <2> QED BY <2>1, <2>2, <2>3
<1>2. ASSUME NEW p \in Procs, EndTx(p)
      PROVE  LocksBehind'
  <2> SUFFICES ASSUME NEW row \in Lockable, owner'[row] # None
               PROVE  tx'[owner'[row]] # None /\ Passed(row, Rank(owner[row])')
    BY DEF LocksBehind, Passed, PoolId, Lockable, PoolRow, QuotaRow, HoldRow, RequestRow, KeyRow, Top
  <2> DEFINE q == owner[row]
  <2>1. owner'[row] = q /\ q # p /\ q \in Procs /\ tx'[q] = tx[q]
    BY <1>2, EndedTx DEF TxTypeOK
  <2>2. tx[q] # None /\ Passed(row, Rank(q))
    BY <2>1 DEF LocksBehind
  <2>3. Rank(q)' = Rank(q)
    BY <2>1 DEF Rank, Kind, PoolId, Top
  <2> QED BY <2>1, <2>2, <2>3
<1>3. ASSUME NEW p \in Procs, ListActiveHoldsInOrder(p)
      PROVE  LocksBehind'
  <2>1. tx[p] # None /\ tx[p] \in Txs /\ tx[p].next = "list" /\ SameTx(p) /\ UNCHANGED owner
    BY <1>3, ListTx DEF ListActiveHoldsInOrder
  <2>2. Rank(p) = 0
    BY <2>1, Ranks
  <2>3. \A row \in Lockable : owner[row] # p
    BY <1>0, <2>1, <2>2, PoolIds, NoProcAssumption DEF LocksBehind, Passed
  <2> SUFFICES ASSUME NEW row \in Lockable, owner'[row] # None
               PROVE  tx'[owner'[row]] # None /\ Passed(row, Rank(owner[row])')
    BY DEF LocksBehind, Passed, PoolId, Lockable, PoolRow, QuotaRow, HoldRow, RequestRow, KeyRow, Top
  <2> DEFINE q == owner[row]
  <2>4. owner'[row] = q /\ q # p /\ q \in Procs /\ tx'[q] = tx[q]
    BY <2>1, <2>3 DEF TxTypeOK, SameTx
  <2>5. tx[q] # None /\ Passed(row, Rank(q))
    BY <2>4 DEF LocksBehind
  <2>6. Rank(q)' = Rank(q)
    BY <2>4 DEF Rank, Kind, PoolId, Top
  <2> QED BY <2>4, <2>5, <2>6
<1>4. ASSUME NEW p \in Procs, tx[p] # None, tx[p].next \in Looping, SameTx(p),
             tx'[p].left = tx[p].left, tx'[p].next \in Looping
      PROVE  /\ Kind(p)' = Kind(p) /\ Kind(p) \in Kinds
             /\ PoolId(Kind(p)) \in 1 .. Len(PoolOrder)
             /\ tx'[p].next = "quota" => Rank(p)' = 3 * PoolId(Kind(p)) + 1
             /\ tx'[p].next = "hold" => Rank(p)' = 3 * PoolId(Kind(p)) + 2
  <2>1. Kind(p)' = Kind(p)
    BY <1>4 DEF Kind, PoolId
  <2>2. Kind(p) \in Kinds /\ PoolId(Kind(p)) \in 1 .. Len(PoolOrder)
    BY <1>4, Ranks
  <2>3. tx'[p] # None
    BY <1>4, NoTxAssumption DEF SameTx, Txs
  <2> QED BY <1>4, <2>1, <2>2, <2>3 DEF Rank, PoolId, Looping
<1>5. ASSUME NEW p \in Procs, ReservePool(p) \/ PoolOf(p) \/ PoolSkip(p)
      PROVE  LocksBehind'
  <2>1. /\ tx[p] # None /\ tx[p].next = "pool" /\ SameTx(p) /\ tx'[p].left = tx[p].left
        /\ tx'[p].next = "quota" \/ tx'[p].next = "hold"
        /\ UNCHANGED owner \/ Take(p, PoolRow(Kind(p)))
    BY <1>5, PoolStatement
  <2>2. /\ Kind(p) \in Kinds /\ PoolId(Kind(p)) \in 1 .. Len(PoolOrder)
        /\ Rank(p) = 3 * PoolId(Kind(p))
    BY <2>1, Ranks DEF Looping
  <2>3. Rank(p)' \in Nat /\ Rank(p) < Rank(p)'
    BY <1>0, <1>4, <2>1, <2>2 DEF Looping
  <2>4. Passed(PoolRow(Kind(p)), Rank(p)')
    BY <2>2, <2>3 DEF Passed
  <2>5. \A row \in Lockable : \/ owner'[row] = owner[row]
                              \/ owner'[row] = p /\ Passed(row, Rank(p)')
    BY <2>1, <2>2, <2>4, TakenRow, LockableRows
  <2>6. Rank(p) <= Rank(p)'
    BY <1>0, <2>2, <2>3
  <2> QED BY <1>0, <2>1, <2>3, <2>5, <2>6, LocksBehindKept
<1>6. ASSUME NEW p \in Procs, ReserveQuota(p) \/ QuotaOf(p)
      PROVE  LocksBehind'
  <2>1. /\ tx[p] # None /\ tx[p].next = "quota" /\ SameTx(p) /\ tx[p].cust \in Customers
        /\ \/ tx'[p].left = tx[p].left /\ tx'[p].next = "hold"
           \/ /\ tx'[p].left = tx[p].left \ {Kind(p)} /\ tx'[p].next = First(tx'[p].left)
        /\ Take(p, QuotaRow(tx[p].cust, Kind(p)))
    BY <1>6, QuotaStatement DEF Txs, Transaction
  <2>2. /\ Kind(p) \in Kinds /\ PoolId(Kind(p)) \in 1 .. Len(PoolOrder)
        /\ Rank(p) = 3 * PoolId(Kind(p)) + 1
    BY <2>1, Ranks DEF Looping
  <2>3. Rank(p)' \in Nat /\ Rank(p) < Rank(p)'
    <3>1. CASE tx'[p].left = tx[p].left /\ tx'[p].next = "hold"
      BY <1>0, <1>4, <2>1, <2>2, <3>1 DEF Looping
    <3>2. CASE tx'[p].left = tx[p].left \ {Kind(p)} /\ tx'[p].next = First(tx'[p].left)
      <4>1. 3 * PoolId(Kind(p)) + 2 < Rank(p)' /\ Rank(p)' \in Nat
        BY <1>0, <2>1, <3>2, NextKindFurther DEF Looping
      <4> QED BY <1>0, <2>2, <4>1
    <3> QED BY <2>1, <3>1, <3>2
  <2>4. Passed(QuotaRow(tx[p].cust, Kind(p)), Rank(p)')
    BY <2>1, <2>2, <2>3 DEF Passed
  <2>5. \A row \in Lockable : \/ owner'[row] = owner[row]
                              \/ owner'[row] = p /\ Passed(row, Rank(p)')
    BY <2>1, <2>2, <2>4, TakenRow, LockableRows
  <2>6. Rank(p) <= Rank(p)'
    BY <1>0, <2>2, <2>3
  <2> QED BY <1>0, <2>1, <2>3, <2>5, <2>6, LocksBehindKept
<1>7. ASSUME NEW p \in Procs, HoldOf(p) \/ HoldSkip(p)
      PROVE  LocksBehind'
  <2>1. /\ tx[p] # None /\ tx[p].next = "hold" /\ SameTx(p) /\ tx[p].id \in ReqIds
        /\ tx'[p].left = tx[p].left \ {Kind(p)} /\ tx'[p].next = First(tx'[p].left)
        /\ UNCHANGED owner \/ Take(p, HoldRow(tx[p].id, Kind(p)))
    BY <1>7, HoldStatement DEF Txs, Transaction
  <2>2. /\ Kind(p) \in Kinds /\ PoolId(Kind(p)) \in 1 .. Len(PoolOrder)
        /\ Rank(p) = 3 * PoolId(Kind(p)) + 2
    BY <2>1, Ranks DEF Looping
  <2>3. Rank(p)' \in Nat /\ Rank(p) < Rank(p)'
    BY <1>0, <2>1, <2>2, NextKindFurther DEF Looping
  <2>4. Passed(HoldRow(tx[p].id, Kind(p)), Rank(p)')
    BY <2>1, <2>2, <2>3 DEF Passed
  <2>5. \A row \in Lockable : \/ owner'[row] = owner[row]
                              \/ owner'[row] = p /\ Passed(row, Rank(p)')
    BY <2>1, <2>2, <2>4, TakenRow, LockableRows
  <2>6. Rank(p) <= Rank(p)'
    BY <1>0, <2>2, <2>3
  <2> QED BY <1>0, <2>1, <2>3, <2>5, <2>6, LocksBehindKept
<1>8. ASSUME NEW p \in Procs, ReserveInsert(p) \/ RequestOf(p) \/ RequestSkip(p)
      PROVE  LocksBehind'
  <2>1. tx[p] # None /\ SameTx(p) /\ tx'[p].next = "commit"
    BY <1>8, InsertStatement, RequestStatement, SkipStatement
  <2>2. \A row \in Lockable : owner'[row] = owner[row] \/ owner'[row] = p
    <3>1. CASE ReserveInsert(p)
      BY <3>1, InsertStatement
    <3>2. CASE RequestOf(p)
      <4>1. tx[p].id \in ReqIds /\ Take(p, RequestRow(tx[p].id))
        BY <3>2, RequestStatement DEF Txs, Transaction
      <4> QED BY <4>1, TakenRow, LockableRows
    <3>3. CASE RequestSkip(p)
      BY <3>3 DEF RequestSkip
    <3> QED BY <1>8, <3>1, <3>2, <3>3
  <2>3. Rank(p)' = Top + 1
    <3>1. tx'[p] # None
      BY <2>1, NoTxAssumption DEF SameTx, Txs
    <3> QED BY <2>1, <3>1 DEF Rank, Top
  <2>4. Rank(p)' \in Nat /\ Rank(p) <= Rank(p)' /\ Top < Rank(p)'
    BY <1>0, <2>3
  <2>5. \A row \in Lockable : Passed(row, Rank(p)')
    BY <2>4 DEF Passed
  <2> QED BY <1>0, <2>1, <2>2, <2>4, <2>5, LocksBehindKept
<1>9. ASSUME NEW p \in Procs, NEW id \in ReqIds,
             \/ \E c \in Customers, key \in Keys, b \in Bodies : BeginReserve(p, id, c, key, b)
             \/ \E op \in Ending : Begin(p, op, id)
      PROVE  LocksBehind'
  <2>1. tx[p] = None /\ UNCHANGED owner /\ \A q \in Procs : q # p => tx'[q] = tx[q]
    BY <1>9, BegunReserve, BegunEnding DEF BeginReserve, Begin
  <2> QED BY <1>1, <2>1
<1>10. CASE UNCHANGED tvars
  <2>1. tx' = tx /\ owner' = owner
    BY <1>10 DEF tvars
  <2> QED BY <2>1 DEF LocksBehind, Rank, Kind
<1>11. ASSUME NEW p \in Procs, Commit(p) \/ Rollback(p)
       PROVE  LocksBehind'
  BY <1>2, <1>11 DEF Commit, Rollback
<1> QED BY <1>3, <1>5, <1>6, <1>7, <1>8, <1>9, <1>10, <1>11 DEF TxNext, Statement

\* A transaction waits only for one that has come further.
LEMMA WaitsForFurther ==
  ASSUME TxTypeOK, LocksBehind, NEW p \in Procs, NEW q \in Procs, WaitsFor(p, q)
  PROVE  Rank(p) < Rank(q)
<1>1. /\ tx[p] # None /\ tx[p].next \notin {"list", "commit"} /\ owner[Needs(p)] = q
  BY DEF WaitsFor
<1>2. /\ tx[p] \in Txs /\ tx[p].next \in Looping \cup {"request"}
      /\ tx[p].cust \in Customers /\ tx[p].id \in ReqIds /\ tx[p].key \in Keys
  BY <1>1 DEF TxTypeOK, Txs, Transaction, Looping
<1>3. q # None
  BY NoProcAssumption
<1>4. \A row \in Lockable : owner[row] = q => Passed(row, Rank(q))
  BY <1>3 DEF LocksBehind
<1>5. Rank(q) \in 0 .. (Top + 1) /\ Top \in Nat
  BY Ranks
<1>6. CASE tx[p].next = "request"
  <2>1. \/ Needs(p) = KeyRow(tx[p].cust, tx[p].key) \/ Needs(p) = RequestRow(tx[p].id)
    BY <1>6 DEF Needs
  <2>2. Needs(p) \in Lockable /\ Passed(Needs(p), Rank(q))
    BY <1>1, <1>2, <1>4, <2>1, LockableRows
  <2>3. Top < Rank(q)
    BY <2>1, <2>2, RowsDiffer DEF Passed
  <2> QED BY <1>1, <1>6, <2>3, Ranks
<1>7. CASE tx[p].next \in Looping
  <2> DEFINE k == Kind(p)
  <2>0. k \in Kinds /\ PoolId(k) \in 1 .. Len(PoolOrder) /\ Len(PoolOrder) \in Nat
    BY <1>1, <1>7, Ranks, PoolOrderAssumption
  <2>1. CASE tx[p].next = "pool"
    <3>1. Needs(p) = PoolRow(k) /\ PoolRow(k) \in Lockable
      BY <2>0, <2>1, LockableRows DEF Needs
    <3>2. Rank(p) = 3 * PoolId(k)
      BY <1>1, <1>7, <2>1, Ranks
    <3>3. 3 * PoolId(k) < Rank(q)
      <4>1. Passed(PoolRow(k), Rank(q))
        BY <1>1, <1>4, <3>1
      <4> HIDE DEF k
      <4> QED BY <1>5, <2>0, <4>1, RowsDiffer DEF Passed, Top
    <3> QED BY <3>2, <3>3
  <2>2. CASE tx[p].next = "quota"
    <3>1. Needs(p) = QuotaRow(tx[p].cust, k) /\ QuotaRow(tx[p].cust, k) \in Lockable
      BY <1>2, <2>0, <2>2, LockableRows DEF Needs
    <3>2. Rank(p) = 3 * PoolId(k) + 1
      BY <1>1, <1>7, <2>2, Ranks
    <3>3. 3 * PoolId(k) + 1 < Rank(q)
      <4>1. Passed(QuotaRow(tx[p].cust, k), Rank(q))
        BY <1>1, <1>4, <3>1
      <4> HIDE DEF k
      <4> QED BY <1>5, <2>0, <4>1, RowsDiffer DEF Passed, Top
    <3> QED BY <3>2, <3>3
  <2>3. CASE tx[p].next = "hold"
    <3>1. Needs(p) = HoldRow(tx[p].id, k) /\ HoldRow(tx[p].id, k) \in Lockable
      BY <1>2, <2>0, <2>3, LockableRows DEF Needs
    <3>2. Rank(p) = 3 * PoolId(k) + 2
      BY <1>1, <1>7, <2>3, Ranks
    <3>3. 3 * PoolId(k) + 2 < Rank(q)
      <4>1. Passed(HoldRow(tx[p].id, k), Rank(q))
        BY <1>1, <1>4, <3>1
      <4> HIDE DEF k
      <4> QED BY <1>5, <2>0, <4>1, RowsDiffer DEF Passed, Top
    <3> QED BY <3>2, <3>3
  <2> QED BY <1>7, <2>1, <2>2, <2>3 DEF Looping
<1> QED BY <1>2, <1>6, <1>7

\* Among any transactions the one that has come furthest waits for none of them.
LEMMA FurthestWaitsForNone == TxTypeOK /\ LocksBehind => NoDeadlock
<1> SUFFICES ASSUME TxTypeOK, LocksBehind, NEW S \in SUBSET Procs, S # {}
             PROVE  \E p \in S : \A q \in S : ~WaitsFor(p, q)
  BY DEF NoDeadlock
<1> DEFINE T == {Top + 1 - Rank(p) : p \in S}
<1>1. /\ Top \in Nat /\ \A p \in S : Rank(p) \in 0 .. (Top + 1)
  BY Ranks
<1>2. T \in SUBSET Nat /\ T # {}
  BY <1>1
<1>3. PICK n \in T : \A m \in T : n <= m
  BY <1>2, Smallest
<1>4. PICK p \in S : n = Top + 1 - Rank(p)
  BY <1>3
<1>5. ASSUME NEW q \in S PROVE Rank(q) <= Rank(p)
  <2>1. Top + 1 - Rank(q) \in T
    OBVIOUS
  <2> HIDE DEF T
  <2> QED BY <1>1, <1>3, <1>4, <2>1
<1>6. \A q \in S : ~WaitsFor(p, q)
  BY <1>1, <1>5, WaitsForFurther
<1> QED BY <1>6

\* No set of transactions ever wait for one another, however many transactions,
\* pools and requests there are: nothing is left to Postgres' deadlock detector.
THEOREM StatementsNeverDeadlock == TxSpec => []NoDeadlock
<1>1. TxInit => LocksBehind
  BY DEF TxInit, LocksBehind
<1> QED BY <1>1, LocksBehindStep, FurthestWaitsForNone, TxTypes, PTL DEF TxSpec


-----------------------------------------------------------------------------
(* What transactions commit is RequestLife. *)

\* A row that nobody has locked is committed.
Clean ==
  \A id \in ReqIds :
    /\ owner[RequestRow(id)] = None =>
         request[id] = committed.request[id] /\ dedication[id] = committed.dedication[id]
    /\ \A k \in Kinds : owner[HoldRow(id, k)] = None => hold[id][k] = committed.hold[id][k]

\* The committed holds and dedications of a request follow its status.
CommittedFollow ==
  \A id \in ReqIds :
    LET r == committed.request[id] IN
    /\ r.status \in {"NONE", "RESERVED"} => \A k \in Kinds : committed.dedication[id][k] = 0
    /\ \A k \in Kinds :
         /\ committed.hold[id][k] = "ACTIVE" <=> r.status = "RESERVED" /\ k \in PlanKinds(r.body)
         /\ r.status = "RESERVED" /\ k \notin PlanKinds(r.body) => committed.hold[id][k] = "NONE"

\* A hold is locked by the INSERT of its request, or by an UPDATE that found it
\* ACTIVE and is behind its transaction.
OwnHolds ==
  \A p \in Procs, id \in ReqIds, k \in Kinds : owner[HoldRow(id, k)] = p =>
    /\ tx[p] # None /\ tx[p].id = id
    /\ tx[p].op = "reserve" => tx[p].next = "commit"
    /\ tx[p].op \in Ending =>
         /\ k \in tx[p].snap \ tx[p].left /\ hold[id][k] = HoldTo[tx[p].op]
         /\ committed.hold[id][k] = "ACTIVE"

\* A request is locked by its INSERT, or by the last UPDATE of a transaction that
\* found it RESERVED.
OwnRequests ==
  \A p \in Procs, id \in ReqIds : owner[RequestRow(id)] = p =>
    LET t == tx[p]  r == committed.request[id] IN
    /\ t # None /\ t.id = id /\ t.next = "commit"
    /\ t.op \in Ending =>
         /\ r.status = "RESERVED" /\ request[id].status = StatusTo[t.op]
         /\ request[id].cust = r.cust /\ request[id].key = r.key /\ request[id].body = r.body
         /\ \A k \in Kinds : dedication[id][k] = IF t.op = "confirm" /\ k \in t.snap THEN 1 ELSE 0

\* The id of a reservation is its own, and once it has inserted its rows its key
\* is too.
Reserving(p) ==
  LET t == tx[p] IN
  /\ committed.request[t.id] = NoRow /\ t.next # "list"
  /\ \A q \in Procs : q # p /\ tx[q] # None => tx[q].id # t.id
  /\ t.next = "commit" =>
       /\ owner[RequestRow(t.id)] = p /\ owner[KeyRow(t.cust, t.key)] = p
       /\ request[t.id].status = "RESERVED" /\ request[t.id].cust = t.cust
       /\ request[t.id].key = t.key /\ request[t.id].body = t.body
       /\ \A k \in Kinds : /\ owner[HoldRow(t.id, k)] = p
                           /\ hold[t.id][k] = IF k \in PlanKinds(t.body) THEN "ACTIVE" ELSE "NONE"
                           /\ dedication[t.id][k] = 0
       /\ \A i \in ReqIds : committed.request[i] # NoRow =>
            ~(committed.request[i].cust = t.cust /\ committed.request[i].key = t.key)

\* While the request a transaction ends is still RESERVED the transaction has
\* listed all its holds and locked those behind it; at the end it has locked the
\* request too, or, in a release, found it ended.
Terminating(p) ==
  LET t == tx[p]  r == committed.request[t.id] IN
  /\ r # NoRow /\ t.left \subseteq t.snap
  /\ t.next = "list" => t.snap = {}
  /\ t.next # "list" /\ r.status = "RESERVED" =>
       /\ t.snap = PlanKinds(r.body)
       /\ \A k \in t.snap \ t.left : owner[HoldRow(t.id, k)] = p
  /\ t.next = "commit" =>
       owner[RequestRow(t.id)] = p \/ (t.op # "confirm" /\ r.status # "RESERVED")

InFlight ==
  \A p \in Procs : tx[p] # None =>
    (tx[p].op = "reserve" => Reserving(p)) /\ (tx[p].op \in Ending => Terminating(p))

TxInv == Clean /\ CommittedFollow /\ OwnHolds /\ OwnRequests /\ InFlight

\* The parts of an open transaction.
LEMMA TxParts ==
  ASSUME TxTypeOK, NEW p \in Procs, tx[p] # None
  PROVE  /\ tx[p] \in Txs /\ tx[p].id \in ReqIds /\ tx[p].cust \in Customers /\ tx[p].key \in Keys
         /\ tx[p].body \in Bodies /\ tx[p].left \in SUBSET Kinds /\ tx[p].snap \in SUBSET Kinds
         /\ tx[p].op = "reserve" \/ tx[p].op \in Ending
         /\ ~(tx[p].op = "reserve" /\ tx[p].op \in Ending)
         /\ tx[p].next \in Looping \cup {"list", "request", "commit"}
         /\ tx[p].next \in Looping <=> tx[p].left # {}
  BY DEF TxTypeOK, Txs, Transaction, Looping, Ending

\* A step that writes no request and no hold, and locks none.
LEMMA QuietStep ==
  ASSUME TxTypeOK, TxInv, NEW p \in Procs, UNCHANGED <<request, hold, dedication, committed>>,
         \A id \in ReqIds : owner'[RequestRow(id)] = owner[RequestRow(id)],
         \A id \in ReqIds, k \in Kinds : owner'[HoldRow(id, k)] = owner[HoldRow(id, k)],
         \A c \in Customers, key \in Keys : owner'[KeyRow(c, key)] = owner[KeyRow(c, key)],
         \A q \in Procs : q # p => tx'[q] = tx[q],
         \A q \in Procs : q # p /\ tx[q] # None /\ tx[q].op = "reserve" => tx'[p].id # tx[q].id,
         \A id \in ReqIds : owner[RequestRow(id)] # p,
         \A id \in ReqIds, k \in Kinds : owner[HoldRow(id, k)] = p =>
           /\ tx'[p] # None /\ tx'[p].id = tx[p].id /\ tx'[p].op = tx[p].op
           /\ tx'[p].op \in Ending /\ k \in tx'[p].snap \ tx'[p].left,
         tx'[p] # None,
         tx'[p].op = "reserve" => Reserving(p)',
         tx'[p].op \in Ending => Terminating(p)'
  PROVE  TxInv'
<1>1. Clean' /\ CommittedFollow'
  BY DEF TxInv, Clean, CommittedFollow
<1>2. OwnHolds'
  <2> SUFFICES ASSUME NEW q \in Procs, NEW id \in ReqIds, NEW k \in Kinds, owner[HoldRow(id, k)] = q
               PROVE  /\ tx'[q] # None /\ tx'[q].id = id
                      /\ tx'[q].op = "reserve" => tx'[q].next = "commit"
                      /\ tx'[q].op \in Ending =>
                           /\ k \in tx'[q].snap \ tx'[q].left /\ hold[id][k] = HoldTo[tx'[q].op]
                           /\ committed.hold[id][k] = "ACTIVE"
    BY DEF OwnHolds
  <2>1. /\ tx[q] # None /\ tx[q].id = id
        /\ tx[q].op = "reserve" => tx[q].next = "commit"
        /\ tx[q].op \in Ending =>
             /\ k \in tx[q].snap \ tx[q].left /\ hold[id][k] = HoldTo[tx[q].op]
             /\ committed.hold[id][k] = "ACTIVE"
    BY DEF TxInv, OwnHolds
  <2>2. CASE q # p
    BY <2>1, <2>2
  <2>3. CASE q = p
    BY <2>1, <2>3 DEF Ending
  <2> QED BY <2>2, <2>3
<1>3. OwnRequests'
  BY DEF TxInv, OwnRequests
<1>4. ASSUME NEW q \in Procs, tx'[q] # None, tx'[q].op = "reserve"
      PROVE  Reserving(q)'
  <2>1. CASE q = p
    BY <1>4, <2>1
  <2>2. CASE q # p
    <3>1. /\ tx'[q] = tx[q] /\ tx[q] # None /\ tx[q].id \in ReqIds /\ tx[q].cust \in Customers
          /\ tx[q].key \in Keys /\ Reserving(q)
      BY <1>4, <2>2, TxParts DEF TxInv, InFlight
    <3>2. \A r \in Procs : r # q /\ tx'[r] # None => tx'[r].id # tx[q].id
      BY <1>4, <2>2, <3>1 DEF Reserving
    <3> QED BY <3>1, <3>2 DEF Reserving
  <2> QED BY <2>1, <2>2
<1>5. ASSUME NEW q \in Procs, tx'[q] # None, tx'[q].op \in Ending
      PROVE  Terminating(q)'
  <2>1. CASE q = p
    BY <1>5, <2>1
  <2>2. CASE q # p
    <3>1. tx'[q] = tx[q] /\ tx[q].id \in ReqIds /\ Terminating(q) /\ tx[q].snap \in SUBSET Kinds
      BY <1>5, <2>2, TxParts DEF TxInv, InFlight
    <3> QED BY <3>1 DEF Terminating
  <2> QED BY <2>1, <2>2
<1> QED BY <1>1, <1>2, <1>3, <1>4, <1>5 DEF TxInv, InFlight

\* The statements on pools and quotas.
LEMMA CounterStatements ==
  ASSUME TxTypeOK, TxInv, NEW p \in Procs,
         ReservePool(p) \/ PoolOf(p) \/ PoolSkip(p) \/ ReserveQuota(p) \/ QuotaOf(p)
  PROVE  TxInv'
<1>1. /\ tx[p] # None /\ tx[p].next \in {"pool", "quota"} /\ SameTx(p) /\ tx'[p].snap = tx[p].snap
      /\ tx'[p].left = tx[p].left \/ (tx'[p].left = tx[p].left \ {Kind(p)} /\ tx[p].op = "reserve")
      /\ tx'[p].next \notin {"list", "commit"}
      /\ UNCHANGED <<request, hold, dedication, committed>>
  BY PoolStatement, QuotaStatement DEF First
<1>2. /\ tx[p] \in Txs /\ tx[p].id \in ReqIds /\ Kind(p) \in Kinds /\ tx[p].cust \in Customers
      /\ tx[p].op = "reserve" \/ tx[p].op \in Ending
  BY <1>1, AtKind, TxParts DEF Looping
<1>3. /\ \A id \in ReqIds : owner'[RequestRow(id)] = owner[RequestRow(id)]
      /\ \A id \in ReqIds, k \in Kinds : owner'[HoldRow(id, k)] = owner[HoldRow(id, k)]
      /\ \A c \in Customers, key \in Keys : owner'[KeyRow(c, key)] = owner[KeyRow(c, key)]
  <2>1. \/ UNCHANGED owner \/ Take(p, PoolRow(Kind(p))) \/ Take(p, QuotaRow(tx[p].cust, Kind(p)))
    BY PoolStatement, QuotaStatement
  <2>2. \/ UNCHANGED owner
        \/ \A row \in Lockable : row # PoolRow(Kind(p)) => owner'[row] = owner[row]
        \/ \A row \in Lockable : row # QuotaRow(tx[p].cust, Kind(p)) => owner'[row] = owner[row]
    BY <1>2, <2>1, TakenRow, LockableRows
  <2> QED BY <2>2, LockableRows, RowsDiffer
<1>4. /\ tx'[p] # None /\ \A q \in Procs : q # p => tx'[q] = tx[q]
      /\ tx'[p].id = tx[p].id /\ tx'[p].op = tx[p].op
  BY <1>1, NoTxAssumption DEF SameTx, Txs
<1>5. \A q \in Procs : q # p /\ tx[q] # None /\ tx[q].op = "reserve" => tx'[p].id # tx[q].id
  BY <1>1, <1>4 DEF TxInv, InFlight, Reserving
<1>6. \A id \in ReqIds : owner[RequestRow(id)] # p
  BY <1>1 DEF TxInv, OwnRequests
<1>7. ASSUME NEW id \in ReqIds, NEW k \in Kinds, owner[HoldRow(id, k)] = p
      PROVE  tx'[p].op \in Ending /\ k \in tx'[p].snap \ tx'[p].left
  <2>1. tx[p].op # "reserve"
    BY <1>1, <1>7 DEF TxInv, OwnHolds
  <2> QED BY <1>1, <1>2, <1>4, <1>7, <2>1 DEF TxInv, OwnHolds
<1>8. tx'[p].op = "reserve" => Reserving(p)'
  <2> SUFFICES ASSUME tx[p].op = "reserve" PROVE Reserving(p)'
    BY <1>4
  <2>1. Reserving(p)
    BY <1>1 DEF TxInv, InFlight
  <2>2. committed'.request[tx'[p].id] = NoRow /\ tx'[p].next \notin {"list", "commit"}
    BY <1>1, <1>4, <2>1 DEF Reserving
  <2>3. \A q \in Procs : q # p /\ tx'[q] # None => tx'[q].id # tx'[p].id
    BY <1>4, <2>1 DEF Reserving
  <2> QED BY <2>2, <2>3 DEF Reserving
<1>9. tx'[p].op \in Ending => Terminating(p)'
  <2> SUFFICES ASSUME tx[p].op \in Ending PROVE Terminating(p)'
    BY <1>4
  <2>1. Terminating(p) /\ tx'[p].left = tx[p].left /\ tx[p].snap \in SUBSET Kinds
    BY <1>1, TxParts DEF TxInv, InFlight
  <2> QED BY <1>1, <1>2, <1>3, <1>4, <2>1 DEF Terminating
<1> QED BY <1>1, <1>3, <1>4, <1>5, <1>6, <1>7, <1>8, <1>9, QuietStep


\* The other steps that write no request and no hold.
LEMMA ListKeeps ==
  ASSUME TxTypeOK, TxInv, NEW p \in Procs, ListActiveHoldsInOrder(p)
  PROVE  TxInv'
<1> DEFINE S == {k \in Kinds : committed.hold[tx[p].id][k] = "ACTIVE"}
           r == committed.request[tx[p].id]
<1>1. /\ tx[p] # None /\ tx[p].next = "list" /\ SameTx(p) /\ tx'[p].snap = S /\ tx'[p].left = S
      /\ tx'[p].next \in {"request", "pool"} /\ UNCHANGED <<request, hold, dedication, committed, owner>>
  BY ListTx DEF ListActiveHoldsInOrder, First, db
<1>2. tx[p].id \in ReqIds /\ tx[p].op \in Ending /\ Terminating(p)
  BY <1>1, TxParts DEF TxInv, InFlight, Reserving
<1>3. /\ tx'[p] # None /\ \A q \in Procs : q # p => tx'[q] = tx[q]
      /\ tx'[p].id = tx[p].id /\ tx'[p].op = tx[p].op
  BY <1>1, NoTxAssumption DEF SameTx, Txs
<1>4. \A q \in Procs : q # p /\ tx[q] # None /\ tx[q].op = "reserve" => tx'[p].id # tx[q].id
  BY <1>1, <1>3 DEF TxInv, InFlight, Reserving
<1>5. \A id \in ReqIds : owner[RequestRow(id)] # p
  BY <1>1 DEF TxInv, OwnRequests
<1>6. \A id \in ReqIds, k \in Kinds : owner[HoldRow(id, k)] # p
  BY <1>1, <1>2 DEF TxInv, OwnHolds, Terminating
<1>7. Terminating(p)'
  <2>1. r # NoRow /\ committed'.request[tx'[p].id] = r
    BY <1>1, <1>2, <1>3 DEF Terminating
  <2>2. r.status = "RESERVED" => S = PlanKinds(r.body)
    BY <1>2 DEF TxInv, CommittedFollow, PlanKinds
  <2> HIDE DEF S, r
  <2> QED BY <1>1, <2>1, <2>2 DEF Terminating
<1>8. tx'[p].op # "reserve"
  BY <1>2, <1>3 DEF Ending
<1> QED BY <1>1, <1>3, <1>4, <1>5, <1>6, <1>7, <1>8, QuietStep

\* A hold another transaction has ended is passed over.
LEMMA HoldSkipKeeps ==
  ASSUME TxTypeOK, TxInv, NEW p \in Procs, HoldSkip(p)
  PROVE  TxInv'
<1> DEFINE r == committed.request[tx[p].id]
<1>1. /\ tx[p] # None /\ tx[p].next = "hold" /\ SameTx(p) /\ tx'[p].snap = tx[p].snap
      /\ tx'[p].left = tx[p].left \ {Kind(p)} /\ tx[p].op \in Ending
      /\ tx'[p].next \in {"request", "pool"} /\ UNCHANGED <<request, hold, dedication, committed, owner>>
      /\ committed.hold[tx[p].id][Kind(p)] # "ACTIVE"
  BY HoldStatement DEF First
<1>2. /\ tx[p].id \in ReqIds /\ Kind(p) \in Kinds /\ Kind(p) \in tx[p].left /\ Terminating(p)
      /\ tx[p].snap \in SUBSET Kinds
  BY <1>1, TxParts, AtKind DEF TxInv, InFlight, Looping
<1>3. /\ tx'[p] # None /\ \A q \in Procs : q # p => tx'[q] = tx[q]
      /\ tx'[p].id = tx[p].id /\ tx'[p].op = tx[p].op
  BY <1>1, NoTxAssumption DEF SameTx, Txs
<1>4. \A q \in Procs : q # p /\ tx[q] # None /\ tx[q].op = "reserve" => tx'[p].id # tx[q].id
  BY <1>1, <1>3 DEF TxInv, InFlight, Reserving
<1>5. \A id \in ReqIds : owner[RequestRow(id)] # p
  BY <1>1 DEF TxInv, OwnRequests
<1>6. \A id \in ReqIds, k \in Kinds : owner[HoldRow(id, k)] = p =>
        tx'[p].op \in Ending /\ k \in tx'[p].snap \ tx'[p].left
  BY <1>1, <1>3 DEF TxInv, OwnHolds
<1>7. Terminating(p)'
  <2>1. /\ r # NoRow /\ committed'.request[tx'[p].id] = r /\ tx'[p].left \subseteq tx'[p].snap
    BY <1>1, <1>2, <1>3 DEF Terminating
  <2>2. r.status # "RESERVED"
    BY <1>1, <1>2 DEF TxInv, CommittedFollow, Terminating
  <2> HIDE DEF r
  <2> QED BY <1>1, <2>1, <2>2 DEF Terminating
<1>8. tx'[p].op # "reserve"
  BY <1>1, <1>3 DEF Ending
<1> QED BY <1>1, <1>3, <1>4, <1>5, <1>6, <1>7, <1>8, QuietStep

\* A release whose request has ended passes its row over.
LEMMA RequestSkipKeeps ==
  ASSUME TxTypeOK, TxInv, NEW p \in Procs, RequestSkip(p)
  PROVE  TxInv'
<1> DEFINE r == committed.request[tx[p].id]
<1>1. /\ tx[p] # None /\ tx[p].next = "request" /\ SameTx(p) /\ tx'[p].snap = tx[p].snap
      /\ tx'[p].left = tx[p].left /\ tx[p].op \in Ending /\ tx[p].op # "confirm"
      /\ tx'[p].next = "commit" /\ UNCHANGED <<request, hold, dedication, committed, owner>>
      /\ r.status # "RESERVED"
  BY SkipStatement DEF db
<1>2. tx[p].id \in ReqIds /\ Terminating(p)
  BY <1>1, TxParts DEF TxInv, InFlight
<1>3. /\ tx'[p] # None /\ \A q \in Procs : q # p => tx'[q] = tx[q]
      /\ tx'[p].id = tx[p].id /\ tx'[p].op = tx[p].op
  BY <1>1, NoTxAssumption DEF SameTx, Txs
<1>4. \A q \in Procs : q # p /\ tx[q] # None /\ tx[q].op = "reserve" => tx'[p].id # tx[q].id
  BY <1>1, <1>3 DEF TxInv, InFlight, Reserving
<1>5. \A id \in ReqIds : owner[RequestRow(id)] # p
  BY <1>1 DEF TxInv, OwnRequests
<1>6. \A id \in ReqIds, k \in Kinds : owner[HoldRow(id, k)] = p =>
        tx'[p].op \in Ending /\ k \in tx'[p].snap \ tx'[p].left
  BY <1>1, <1>3 DEF TxInv, OwnHolds
<1>7. Terminating(p)'
  <2>1. /\ r # NoRow /\ committed'.request[tx'[p].id] = r /\ tx'[p].left \subseteq tx'[p].snap
    BY <1>1, <1>2, <1>3 DEF Terminating
  <2> HIDE DEF r
  <2> QED BY <1>1, <1>3, <2>1 DEF Terminating
<1>8. tx'[p].op # "reserve"
  BY <1>1, <1>3 DEF Ending
<1> QED BY <1>1, <1>3, <1>4, <1>5, <1>6, <1>7, <1>8, QuietStep

\* A reservation begins with an id nobody has.
LEMMA BeginReserveKeeps ==
  ASSUME TxTypeOK, TxInv, NEW p \in Procs, NEW id \in ReqIds, NEW c \in Customers, NEW key \in Keys,
         NEW b \in Bodies, BeginReserve(p, id, c, key, b)
  PROVE  TxInv'
<1>1. /\ tx[p] = None /\ tx'[p] \in Txs /\ tx'[p].op = "reserve" /\ tx'[p].id = id
      /\ tx'[p].next \in {"request", "pool"} /\ \A q \in Procs : q # p => tx'[q] = tx[q]
      /\ UNCHANGED <<request, hold, dedication, committed, owner>>
      /\ committed.request[id] = NoRow /\ \A q \in Procs : tx[q] # None => tx[q].id # id
  BY BegunReserve DEF BeginReserve, First, db
<1>2. tx'[p] # None
  BY <1>1, NoTxAssumption DEF Txs
<1>3. /\ \A i \in ReqIds : owner[RequestRow(i)] # p
      /\ \A i \in ReqIds, k \in Kinds : owner[HoldRow(i, k)] # p
  BY <1>1 DEF TxInv, OwnRequests, OwnHolds
<1>4. Reserving(p)'
  BY <1>1 DEF Reserving
<1>5. tx'[p].op \notin Ending
  BY <1>1 DEF Ending
<1> QED BY <1>1, <1>2, <1>3, <1>4, <1>5, QuietStep

\* A transaction that ends a request begins with nothing locked.
LEMMA BeginKeeps ==
  ASSUME TxTypeOK, TxInv, NEW p \in Procs, NEW id \in ReqIds, NEW op \in Ending, Begin(p, op, id)
  PROVE  TxInv'
<1>1. /\ tx[p] = None /\ tx'[p] \in Txs /\ tx'[p].op = op /\ tx'[p].id = id
      /\ tx'[p].next = "list" /\ \A q \in Procs : q # p => tx'[q] = tx[q]
      /\ tx'[p].left = {} /\ tx'[p].snap = {}
      /\ UNCHANGED <<request, hold, dedication, committed, owner>>
      /\ committed.request[id].status = "RESERVED"
  BY BegunEnding DEF Begin, db
<1>2. tx'[p] # None /\ committed.request[id] # NoRow
  BY <1>1, NoTxAssumption DEF Txs, NoRow
<1>3. /\ \A i \in ReqIds : owner[RequestRow(i)] # p
      /\ \A i \in ReqIds, k \in Kinds : owner[HoldRow(i, k)] # p
  BY <1>1 DEF TxInv, OwnRequests, OwnHolds
<1>4. Terminating(p)'
  BY <1>1, <1>2 DEF Terminating
<1>5. tx'[p].op # "reserve"
  BY <1>1 DEF Ending
<1>6. \A q \in Procs : q # p /\ tx[q] # None /\ tx[q].op = "reserve" => tx'[p].id # tx[q].id
  BY <1>1, <1>2 DEF TxInv, InFlight, Reserving
<1> QED BY <1>1, <1>2, <1>3, <1>4, <1>5, <1>6, QuietStep


\* The UPDATE of an ACTIVE hold.
LEMMA HoldOfKeeps ==
  ASSUME TxTypeOK, TxInv, NEW p \in Procs, HoldOf(p)
  PROVE  TxInv'
<1> DEFINE id == tx[p].id
           k == Kind(p)
           r == committed.request[id]
<1>1. /\ tx[p] # None /\ tx[p].next = "hold" /\ SameTx(p) /\ tx'[p].snap = tx[p].snap
      /\ tx'[p].left = tx[p].left \ {k} /\ tx[p].op \in Ending
      /\ tx'[p].next \in {"request", "pool"} /\ UNCHANGED <<request, dedication, committed>>
      /\ ~Locked(p, HoldRow(id, k)) /\ Take(p, HoldRow(id, k)) /\ hold[id][k] = "ACTIVE"
      /\ hold'[id][k] = HoldTo[tx[p].op]
      /\ \A i \in ReqIds, j \in Kinds : i # id \/ j # k => hold'[i][j] = hold[i][j]
  BY HoldStatement DEF First
<1>2. /\ id \in ReqIds /\ k \in Kinds /\ k \in tx[p].left /\ Terminating(p)
      /\ tx[p].snap \in SUBSET Kinds /\ k \in tx[p].snap
  BY <1>1, TxParts, AtKind DEF TxInv, InFlight, Looping, Terminating
<1>3. /\ tx'[p] # None /\ \A q \in Procs : q # p => tx'[q] = tx[q]
      /\ tx'[p].id = id /\ tx'[p].op = tx[p].op
  BY <1>1, NoTxAssumption DEF SameTx, Txs
<1>4. /\ owner'[HoldRow(id, k)] = p
      /\ \A row \in Lockable : row # HoldRow(id, k) => owner'[row] = owner[row]
  BY <1>1, <1>2, TakenRow, LockableRows
<1>5. /\ \A i \in ReqIds : owner'[RequestRow(i)] = owner[RequestRow(i)]
      /\ \A c \in Customers, key \in Keys : owner'[KeyRow(c, key)] = owner[KeyRow(c, key)]
      /\ \A i \in ReqIds, j \in Kinds :
           i # id \/ j # k => owner'[HoldRow(i, j)] = owner[HoldRow(i, j)]
  BY <1>4, LockableRows, RowsDiffer
<1>6. owner[HoldRow(id, k)] = None /\ committed.hold[id][k] = "ACTIVE"
  <2>1. owner[HoldRow(id, k)] # p
    BY <1>1, <1>2 DEF TxInv, OwnHolds
  <2> QED BY <1>1, <1>2, <2>1 DEF Locked, TxInv, Clean
<1>7. p # None
  BY NoProcAssumption
<1>8. Clean' /\ CommittedFollow'
  <2>1. CommittedFollow'
    BY <1>1 DEF TxInv, CommittedFollow
  <2>2. ASSUME NEW i \in ReqIds, NEW j \in Kinds, owner'[HoldRow(i, j)] = None
        PROVE  hold'[i][j] = committed'.hold[i][j]
    <3>1. i # id \/ j # k
      BY <1>4, <1>7, <2>2
    <3> QED BY <1>1, <1>5, <2>2, <3>1 DEF TxInv, Clean
  <2> QED BY <1>1, <1>5, <2>1, <2>2 DEF TxInv, Clean
<1> HIDE DEF id, k, r
<1>9. OwnHolds'
  <2> SUFFICES ASSUME NEW q \in Procs, NEW i \in ReqIds, NEW j \in Kinds, owner'[HoldRow(i, j)] = q
               PROVE  /\ tx'[q] # None /\ tx'[q].id = i
                      /\ tx'[q].op = "reserve" => tx'[q].next = "commit"
                      /\ tx'[q].op \in Ending =>
                           /\ j \in tx'[q].snap \ tx'[q].left /\ hold'[i][j] = HoldTo[tx'[q].op]
                           /\ committed'.hold[i][j] = "ACTIVE"
    BY DEF OwnHolds
  <2>1. CASE i = id /\ j = k
    BY <1>1, <1>2, <1>3, <1>4, <1>6, <2>1 DEF Ending
  <2>2. CASE i # id \/ j # k
    <3>1. owner[HoldRow(i, j)] = q /\ hold'[i][j] = hold[i][j]
      BY <1>1, <1>5, <2>2
    <3>2. /\ tx[q] # None /\ tx[q].id = i
          /\ tx[q].op = "reserve" => tx[q].next = "commit"
          /\ tx[q].op \in Ending =>
               /\ j \in tx[q].snap \ tx[q].left /\ hold[i][j] = HoldTo[tx[q].op]
               /\ committed.hold[i][j] = "ACTIVE"
      BY <3>1 DEF TxInv, OwnHolds
    <3>3. CASE q # p
      BY <1>1, <1>3, <3>1, <3>2, <3>3
    <3>4. CASE q = p
      BY <1>1, <1>3, <3>1, <3>2, <3>4 DEF Ending, id
    <3> QED BY <3>3, <3>4
  <2> QED BY <2>1, <2>2
<1>10. OwnRequests'
  <2>1. \A i \in ReqIds : owner[RequestRow(i)] # p
    BY <1>1 DEF TxInv, OwnRequests
  <2> QED BY <1>1, <1>3, <1>5, <2>1 DEF TxInv, OwnRequests
<1>11. ASSUME NEW q \in Procs, tx'[q] # None, tx'[q].op = "reserve"
       PROVE  Reserving(q)'
  <2>1. q # p
    BY <1>1, <1>3, <1>11 DEF Ending
  <2>2. /\ tx'[q] = tx[q] /\ tx[q] # None /\ tx[q].id \in ReqIds /\ tx[q].cust \in Customers
        /\ tx[q].key \in Keys /\ Reserving(q)
    BY <1>3, <1>11, <2>1, TxParts DEF TxInv, InFlight
  <2>3. tx[q].id # id
    BY <1>1, <2>1, <2>2 DEF Reserving, id
  <2>4. \A s \in Procs : s # q /\ tx'[s] # None => tx'[s].id # tx[q].id
    BY <1>3, <2>2, <2>3 DEF Reserving
  <2> QED BY <1>1, <1>5, <2>2, <2>3, <2>4 DEF Reserving
<1>12. ASSUME NEW q \in Procs, tx'[q] # None, tx'[q].op \in Ending
       PROVE  Terminating(q)'
  <2>1. CASE q = p
    <3>1. \A j \in tx[p].snap \ tx[p].left : owner[HoldRow(id, j)] = p => owner'[HoldRow(id, j)] = p
      BY <1>2, <1>4, <1>5
    <3>2. /\ committed'.request[tx'[p].id] = r /\ r # NoRow /\ tx'[p].left \subseteq tx'[p].snap
          /\ r.status = "RESERVED" => tx'[p].snap = PlanKinds(r.body)
      BY <1>1, <1>2, <1>3 DEF Terminating, id, r
    <3>3. r.status = "RESERVED" => \A j \in tx'[p].snap \ tx'[p].left : owner'[HoldRow(id, j)] = p
      BY <1>1, <1>2, <1>4, <3>1 DEF Terminating, id, r
    <3> QED BY <1>1, <1>3, <2>1, <3>2, <3>3 DEF Terminating
  <2>2. CASE q # p
    <3>1. tx'[q] = tx[q] /\ tx[q].id \in ReqIds /\ Terminating(q) /\ tx[q].snap \in SUBSET Kinds
      BY <1>3, <1>12, <2>2, TxParts DEF TxInv, InFlight
    <3>2. \A j \in Kinds : owner[HoldRow(tx[q].id, j)] = q => owner'[HoldRow(tx[q].id, j)] = q
      BY <1>5, <1>6, <3>1, NoProcAssumption
    <3> QED BY <1>1, <1>5, <3>1, <3>2 DEF Terminating
  <2> QED BY <2>1, <2>2
<1> QED BY <1>8, <1>9, <1>10, <1>11, <1>12 DEF TxInv, InFlight

\* The INSERT of a reservation.
LEMMA InsertKeeps ==
  ASSUME TxTypeOK, TxInv, NEW p \in Procs, ReserveInsert(p)
  PROVE  TxInv'
<1> DEFINE id == tx[p].id
           t == tx[p]
<1>1. /\ t # None /\ t.op = "reserve" /\ t.next = "request" /\ SameTx(p)
      /\ tx'[p].next = "commit" /\ UNCHANGED <<dedication, committed>>
      /\ ~Locked(p, KeyRow(t.cust, t.key)) /\ FindByIdempotency(t.cust, t.key) = {}
      /\ request'[id].status = "RESERVED" /\ request'[id].cust = t.cust
      /\ request'[id].key = t.key /\ request'[id].body = t.body
      /\ \A i \in ReqIds : i # id => request'[i] = request[i] /\ hold'[i] = hold[i]
      /\ \A k \in Kinds : hold'[id][k] = IF k \in PlanKinds(t.body) THEN "ACTIVE" ELSE "NONE"
      /\ \A row \in Lockable : owner'[row] = IF row \in Inserted(t) THEN p ELSE owner[row]
  BY InsertStatement
<1>2. /\ id \in ReqIds /\ t.cust \in Customers /\ t.key \in Keys /\ t.body \in Bodies /\ Reserving(p)
  BY <1>1, TxParts DEF TxInv, InFlight
<1>3. /\ tx'[p] # None /\ \A q \in Procs : q # p => tx'[q] = tx[q]
      /\ tx'[p].id = id /\ tx'[p].op = "reserve" /\ tx'[p].cust = t.cust /\ tx'[p].key = t.key
      /\ tx'[p].body = t.body
  BY <1>1, NoTxAssumption DEF SameTx, Txs
<1>4. p # None /\ \A q \in Procs : q # p /\ tx[q] # None => tx[q].id # id
  BY <1>2, NoProcAssumption DEF Reserving
<1>5. /\ owner'[RequestRow(id)] = p /\ \A k \in Kinds : owner'[HoldRow(id, k)] = p
      /\ owner'[KeyRow(t.cust, t.key)] = p
      /\ \A i \in ReqIds : i # id => owner'[RequestRow(i)] = owner[RequestRow(i)]
      /\ \A i \in ReqIds, k \in Kinds : i # id => owner'[HoldRow(i, k)] = owner[HoldRow(i, k)]
      /\ \A c \in Customers, key \in Keys :
           c # t.cust \/ key # t.key => owner'[KeyRow(c, key)] = owner[KeyRow(c, key)]
  <2> HIDE DEF t, id
  <2>1. /\ KeyRow(t.cust, t.key) \in Inserted(t) /\ RequestRow(t.id) \in Inserted(t)
        /\ \A k \in Kinds : HoldRow(t.id, k) \in Inserted(t)
    BY DEF Inserted
  <2>2. /\ \A i : i # t.id => RequestRow(i) \notin Inserted(t)
        /\ \A i, k : i # t.id => HoldRow(i, k) \notin Inserted(t)
        /\ \A c, key : c # t.cust \/ key # t.key => KeyRow(c, key) \notin Inserted(t)
    BY RowsDiffer DEF Inserted
  <2>3. id = t.id
    BY DEF id, t
  <2> QED BY <1>1, <1>2, <2>1, <2>2, <2>3, LockableRows
<1>6. owner[RequestRow(id)] = None
  <2>1. \A q \in Procs : owner[RequestRow(id)] # q
    BY <1>1, <1>2, <1>4 DEF TxInv, OwnRequests
  <2> QED BY <1>2, <2>1, LockableRows DEF TxTypeOK
<1>7. \A k \in Kinds : dedication[id][k] = 0
  BY <1>2, <1>6 DEF TxInv, Clean, CommittedFollow, Reserving, NoRow
<1>8. \A i \in ReqIds : committed.request[i] # NoRow =>
        ~(committed.request[i].cust = t.cust /\ committed.request[i].key = t.key)
  <2> SUFFICES ASSUME NEW i \in ReqIds, committed.request[i] # NoRow
               PROVE  ~(committed.request[i].cust = t.cust /\ committed.request[i].key = t.key)
    OBVIOUS
  <2>0. committed.request[i] \in Row /\ request[i] \in Row \cup {NoRow}
    BY DEF TxTypeOK, CommittedTypeOK, RepositoryTypeOK
  <2>1. /\ request[i].cust = committed.request[i].cust /\ request[i].key = committed.request[i].key
        /\ request[i].status # "NONE"
    <3>1. CASE owner[RequestRow(i)] = None
      <4>1. request[i] = committed.request[i]
        BY <3>1 DEF TxInv, Clean
      <4> QED BY <2>0, <4>1 DEF Row, RequestStatus
    <3>2. CASE owner[RequestRow(i)] # None
      <4>1. PICK q \in Procs : owner[RequestRow(i)] = q
        BY <3>2, LockableRows DEF TxTypeOK
      <4>2. tx[q] # None /\ tx[q].id = i
        BY <4>1 DEF TxInv, OwnRequests
      <4>3. tx[q].op \in Ending
        BY <4>2, TxParts DEF TxInv, InFlight, Reserving
      <4>4. /\ request[i].cust = committed.request[i].cust
            /\ request[i].key = committed.request[i].key /\ request[i].status = StatusTo[tx[q].op]
        BY <4>1, <4>3 DEF TxInv, OwnRequests
      <4> QED BY <4>3, <4>4 DEF StatusTo, Ending
    <3> QED BY <3>1, <3>2
  <2> QED BY <1>1, <2>1 DEF FindByIdempotency, Exists
<1>9. Reserving(p)'
  <2>1. \A q \in Procs : q # p /\ tx'[q] # None => tx'[q].id # id
    BY <1>3, <1>4
  <2>2. committed'.request[id] = NoRow
    BY <1>1, <1>2 DEF Reserving
  <2> HIDE DEF id, t
  <2> QED BY <1>1, <1>3, <1>5, <1>7, <1>8, <2>1, <2>2 DEF Reserving
<1>10. Clean' /\ CommittedFollow'
  <2>1. CommittedFollow'
    BY <1>1 DEF TxInv, CommittedFollow
  <2>2. Clean'
    BY <1>1, <1>4, <1>5 DEF TxInv, Clean
  <2> QED BY <2>1, <2>2
<1>11. OwnHolds'
  <2> SUFFICES ASSUME NEW q \in Procs, NEW i \in ReqIds, NEW j \in Kinds, owner'[HoldRow(i, j)] = q
               PROVE  /\ tx'[q] # None /\ tx'[q].id = i
                      /\ tx'[q].op = "reserve" => tx'[q].next = "commit"
                      /\ tx'[q].op \in Ending =>
                           /\ j \in tx'[q].snap \ tx'[q].left /\ hold'[i][j] = HoldTo[tx'[q].op]
                           /\ committed'.hold[i][j] = "ACTIVE"
    BY DEF OwnHolds
  <2>1. CASE i = id
    BY <1>1, <1>3, <1>5, <2>1 DEF Ending
  <2>2. CASE i # id
    <3>1. owner[HoldRow(i, j)] = q /\ hold'[i][j] = hold[i][j]
      BY <1>1, <1>5, <2>2
    <3>2. tx[q] # None /\ tx[q].id = i /\ q # p
      BY <2>2, <3>1 DEF TxInv, OwnHolds
    <3> QED BY <1>1, <1>3, <3>1, <3>2 DEF TxInv, OwnHolds
  <2> QED BY <2>1, <2>2
<1>12. OwnRequests'
  <2> SUFFICES ASSUME NEW q \in Procs, NEW i \in ReqIds, owner'[RequestRow(i)] = q
               PROVE  LET u == tx'[q]  r == committed'.request[i] IN
                      /\ u # None /\ u.id = i /\ u.next = "commit"
                      /\ u.op \in Ending =>
                           /\ r.status = "RESERVED" /\ request'[i].status = StatusTo[u.op]
                           /\ request'[i].cust = r.cust /\ request'[i].key = r.key
                           /\ request'[i].body = r.body
                           /\ \A k \in Kinds : dedication'[i][k] =
                                IF u.op = "confirm" /\ k \in u.snap THEN 1 ELSE 0
    BY DEF OwnRequests
  <2>1. CASE i = id
    BY <1>1, <1>3, <1>5, <2>1 DEF Ending
  <2>2. CASE i # id
    <3>1. owner[RequestRow(i)] = q /\ request'[i] = request[i]
      BY <1>1, <1>5, <2>2
    <3>2. tx[q] # None /\ tx[q].id = i /\ q # p
      BY <2>2, <3>1 DEF TxInv, OwnRequests
    <3> QED BY <1>1, <1>3, <3>1, <3>2 DEF TxInv, OwnRequests
  <2> QED BY <2>1, <2>2
<1>13. ASSUME NEW q \in Procs, q # p, tx'[q] # None, tx'[q].op = "reserve"
       PROVE  Reserving(q)'
  <2>1. /\ tx'[q] = tx[q] /\ tx[q] # None /\ tx[q].id \in ReqIds /\ tx[q].cust \in Customers
        /\ tx[q].key \in Keys /\ Reserving(q) /\ tx[q].id # id
    BY <1>3, <1>4, <1>13, TxParts DEF TxInv, InFlight
  <2>2. \A s \in Procs : s # q /\ tx'[s] # None => tx'[s].id # tx[q].id
    BY <1>3, <2>1 DEF Reserving
  <2>3. owner[KeyRow(tx[q].cust, tx[q].key)] = q => owner'[KeyRow(tx[q].cust, tx[q].key)] = q
    BY <1>1, <1>5, <1>13, <2>1, NoProcAssumption DEF Locked
  <2> HIDE DEF id, t
  <2> QED BY <1>1, <1>5, <2>1, <2>2, <2>3 DEF Reserving
<1>14. ASSUME NEW q \in Procs, tx'[q] # None, tx'[q].op \in Ending
       PROVE  Terminating(q)'
  <2>1. q # p
    BY <1>3, <1>14 DEF Ending
  <2>2. /\ tx'[q] = tx[q] /\ tx[q].id \in ReqIds /\ Terminating(q) /\ tx[q].snap \in SUBSET Kinds
        /\ tx[q].id # id
    BY <1>3, <1>4, <1>14, <2>1, TxParts DEF TxInv, InFlight
  <2> QED BY <1>1, <1>5, <2>2 DEF Terminating
<1> QED BY <1>9, <1>10, <1>11, <1>12, <1>13, <1>14 DEF TxInv, InFlight


\* The UPDATE that ends a request.
LEMMA RequestOfKeeps ==
  ASSUME TxTypeOK, TxInv, NEW p \in Procs, RequestOf(p)
  PROVE  TxInv'
<1> DEFINE id == tx[p].id
           t == tx[p]
           r == committed.request[id]
<1>1. /\ t # None /\ t.op \in Ending /\ t.next = "request" /\ SameTx(p)
      /\ tx'[p].next = "commit" /\ tx'[p].left = t.left /\ tx'[p].snap = t.snap
      /\ UNCHANGED <<hold, committed>>
      /\ ~Locked(p, RequestRow(id)) /\ Take(p, RequestRow(id))
      /\ request[id].status = "RESERVED" /\ request'[id].status = StatusTo[t.op]
      /\ request'[id].cust = request[id].cust /\ request'[id].key = request[id].key
      /\ request'[id].body = request[id].body
      /\ \A i \in ReqIds : i # id => request'[i] = request[i] /\ dedication'[i] = dedication[i]
      /\ \A k \in Kinds : dedication'[id][k] = IF t.op = "confirm" /\ k \in t.snap
                                               THEN dedication[id][k] + 1 ELSE dedication[id][k]
  BY RequestStatement
<1>2. id \in ReqIds /\ Terminating(p) /\ t.snap \in SUBSET Kinds
  BY <1>1, TxParts DEF TxInv, InFlight
<1>3. /\ tx'[p] # None /\ \A q \in Procs : q # p => tx'[q] = tx[q]
      /\ tx'[p].id = id /\ tx'[p].op = t.op
  BY <1>1, NoTxAssumption DEF SameTx, Txs
<1>4. /\ owner'[RequestRow(id)] = p
      /\ \A i \in ReqIds : i # id => owner'[RequestRow(i)] = owner[RequestRow(i)]
      /\ \A i \in ReqIds, k \in Kinds : owner'[HoldRow(i, k)] = owner[HoldRow(i, k)]
      /\ \A c \in Customers, key \in Keys : owner'[KeyRow(c, key)] = owner[KeyRow(c, key)]
  <2>1. /\ owner'[RequestRow(id)] = p
        /\ \A row \in Lockable : row # RequestRow(id) => owner'[row] = owner[row]
    BY <1>1, <1>2, TakenRow, LockableRows
  <2> QED BY <2>1, LockableRows, RowsDiffer
<1>5. owner[RequestRow(id)] = None
  <2>1. owner[RequestRow(id)] # p
    BY <1>1, <1>2 DEF TxInv, OwnRequests
  <2> QED BY <1>1, <2>1 DEF Locked
<1>6. r = request[id] /\ \A k \in Kinds : dedication[id][k] = 0
  BY <1>1, <1>2, <1>5 DEF TxInv, Clean, CommittedFollow
<1>7. p # None
  BY NoProcAssumption
<1>8. \A k \in Kinds : dedication'[id][k] = IF t.op = "confirm" /\ k \in t.snap THEN 1 ELSE 0
  BY <1>1, <1>6
<1>9. Clean' /\ CommittedFollow'
  <2>1. CommittedFollow'
    BY <1>1 DEF TxInv, CommittedFollow
  <2>2. Clean'
    BY <1>1, <1>4, <1>7 DEF TxInv, Clean
  <2> QED BY <2>1, <2>2
<1> HIDE DEF id, t, r
<1>10. OwnHolds'
  <2> SUFFICES ASSUME NEW q \in Procs, NEW i \in ReqIds, NEW j \in Kinds, owner[HoldRow(i, j)] = q
               PROVE  /\ tx'[q] # None /\ tx'[q].id = i
                      /\ tx'[q].op = "reserve" => tx'[q].next = "commit"
                      /\ tx'[q].op \in Ending =>
                           /\ j \in tx'[q].snap \ tx'[q].left /\ hold[i][j] = HoldTo[tx'[q].op]
                           /\ committed.hold[i][j] = "ACTIVE"
    BY <1>1, <1>4 DEF OwnHolds
  <2>1. CASE q # p
    BY <1>3, <2>1 DEF TxInv, OwnHolds
  <2>2. CASE q = p
    BY <1>1, <1>3, <2>2 DEF TxInv, OwnHolds, id, t
  <2> QED BY <2>1, <2>2
<1>11. OwnRequests'
  <2> SUFFICES ASSUME NEW q \in Procs, NEW i \in ReqIds, owner'[RequestRow(i)] = q
               PROVE  LET u == tx'[q]  s == committed'.request[i] IN
                      /\ u # None /\ u.id = i /\ u.next = "commit"
                      /\ u.op \in Ending =>
                           /\ s.status = "RESERVED" /\ request'[i].status = StatusTo[u.op]
                           /\ request'[i].cust = s.cust /\ request'[i].key = s.key
                           /\ request'[i].body = s.body
                           /\ \A k \in Kinds : dedication'[i][k] =
                                IF u.op = "confirm" /\ k \in u.snap THEN 1 ELSE 0
    BY DEF OwnRequests
  <2>1. CASE i = id
    <3>1. q = p /\ committed'.request[id] = r
      BY <1>1, <1>4, <2>1 DEF r
    <3> QED BY <1>1, <1>3, <1>6, <1>8, <2>1, <3>1
  <2>2. CASE i # id
    <3>1. owner[RequestRow(i)] = q /\ request'[i] = request[i] /\ dedication'[i] = dedication[i]
      BY <1>1, <1>4, <2>2
    <3>2. tx[q] # None /\ tx[q].id = i /\ q # p
      BY <2>2, <3>1 DEF TxInv, OwnRequests, id
    <3> QED BY <1>1, <1>3, <3>1, <3>2 DEF TxInv, OwnRequests
  <2> QED BY <2>1, <2>2
<1>12. ASSUME NEW q \in Procs, tx'[q] # None, tx'[q].op = "reserve"
       PROVE  Reserving(q)'
  <2>1. q # p
    BY <1>1, <1>3, <1>12 DEF Ending
  <2>2. /\ tx'[q] = tx[q] /\ tx[q] # None /\ tx[q].id \in ReqIds /\ tx[q].cust \in Customers
        /\ tx[q].key \in Keys /\ Reserving(q)
    BY <1>3, <1>12, <2>1, TxParts DEF TxInv, InFlight
  <2>3. tx[q].id # id
    BY <1>1, <2>1, <2>2 DEF Reserving, id, t
  <2>4. \A s \in Procs : s # q /\ tx'[s] # None => tx'[s].id # tx[q].id
    BY <1>3, <2>2, <2>3 DEF Reserving
  <2> QED BY <1>1, <1>4, <2>2, <2>3, <2>4 DEF Reserving
<1>13. ASSUME NEW q \in Procs, tx'[q] # None, tx'[q].op \in Ending
       PROVE  Terminating(q)'
  <2>1. CASE q = p
    <3>1. /\ committed'.request[tx'[p].id] = r /\ r # NoRow /\ tx'[p].left \subseteq tx'[p].snap
          /\ r.status = "RESERVED" => tx'[p].snap = PlanKinds(r.body)
      BY <1>1, <1>2, <1>3 DEF Terminating, id, r, t
    <3>2. r.status = "RESERVED" => \A j \in tx'[p].snap \ tx'[p].left : owner'[HoldRow(id, j)] = p
      BY <1>1, <1>2, <1>4 DEF Terminating, id, r, t
    <3> QED BY <1>1, <1>3, <1>4, <2>1, <3>1, <3>2 DEF Terminating
  <2>2. CASE q # p
    <3>1. tx'[q] = tx[q] /\ tx[q].id \in ReqIds /\ Terminating(q) /\ tx[q].snap \in SUBSET Kinds
      BY <1>3, <1>13, <2>2, TxParts DEF TxInv, InFlight
    <3>2. owner[RequestRow(tx[q].id)] = q => owner'[RequestRow(tx[q].id)] = q
      BY <1>4, <1>5, <3>1, NoProcAssumption
    <3> QED BY <1>1, <1>4, <3>1, <3>2 DEF Terminating
  <2> QED BY <2>1, <2>2
<1> QED BY <1>9, <1>10, <1>11, <1>12, <1>13 DEF TxInv, InFlight


\* What a commit publishes: a whole reservation, the whole end of a request that
\* was RESERVED, or nothing.
LEMMA CommitPublishes ==
  ASSUME TxTypeOK, TxInv, NEW p \in Procs, Commit(p)
  PROVE  LET t == tx[p]  id == tx[p].id  r == committed.request[tx[p].id] IN
         /\ tx[p] # None /\ id \in ReqIds
         /\ \A i \in ReqIds : i # id =>
              /\ committed'.request[i] = committed.request[i]
              /\ committed'.dedication[i] = committed.dedication[i]
              /\ \A k \in Kinds : committed'.hold[i][k] = committed.hold[i][k]
         /\ \/ /\ t.op = "reserve" /\ Reserving(p) /\ t.next = "commit"
               /\ committed'.request[id] = request[id]
               /\ \A k \in Kinds : /\ committed'.hold[id][k] = hold[id][k]
                                   /\ committed'.dedication[id][k] = 0
                                   /\ committed.dedication[id][k] = 0
            \/ /\ t.op \in Ending /\ r.status = "RESERVED"
               /\ committed'.request[id] = request[id]
               /\ request[id].status = StatusTo[t.op] /\ request[id].cust = r.cust
               /\ request[id].key = r.key /\ request[id].body = r.body
               /\ \A k \in Kinds :
                    /\ committed'.hold[id][k] = IF k \in PlanKinds(r.body) THEN HoldTo[t.op]
                                                                           ELSE "NONE"
                    /\ committed'.dedication[id][k] =
                         IF t.op = "confirm" /\ k \in PlanKinds(r.body) THEN 1 ELSE 0
                    /\ committed.dedication[id][k] = 0
            \/ /\ t.op \in Ending /\ committed'.request[id] = r
               /\ committed'.dedication[id] = committed.dedication[id]
               /\ \A k \in Kinds : committed'.hold[id][k] = committed.hold[id][k]
<1> DEFINE t == tx[p]
           id == tx[p].id
           r == committed.request[tx[p].id]
<1>1. t # None /\ t.next = "commit"
  BY DEF Commit
<1>2. id \in ReqIds /\ (t.op = "reserve" \/ t.op \in Ending)
  BY <1>1, TxParts
<1>3. /\ \A i \in ReqIds : i # id => ~Mine(p, RequestRow(i))
      /\ \A i \in ReqIds, k \in Kinds : i # id => ~Mine(p, HoldRow(i, k))
  BY DEF TxInv, OwnRequests, OwnHolds, Mine
<1>4. \A i \in ReqIds : i # id =>
        /\ committed'.request[i] = committed.request[i]
        /\ committed'.dedication[i] = committed.dedication[i]
        /\ \A k \in Kinds : committed'.hold[i][k] = committed.hold[i][k]
  BY <1>3, Committed
<1>5. /\ committed'.request[id] = IF Mine(p, RequestRow(id)) THEN request[id] ELSE r
      /\ committed'.dedication[id] =
           IF Mine(p, RequestRow(id)) THEN dedication[id] ELSE committed.dedication[id]
      /\ \A k \in Kinds : committed'.hold[id][k] =
           IF Mine(p, HoldRow(id, k)) THEN hold[id][k] ELSE committed.hold[id][k]
  BY <1>2, Committed
<1>6. CASE t.op = "reserve"
  <2>1. Reserving(p)
    BY <1>1, <1>6 DEF TxInv, InFlight
  <2>2. Mine(p, RequestRow(id)) /\ \A k \in Kinds : Mine(p, HoldRow(id, k)) /\ dedication[id][k] = 0
    BY <1>1, <2>1 DEF Reserving, Mine
  <2>3. \A k \in Kinds : committed.dedication[id][k] = 0
    BY <1>2, <2>1 DEF TxInv, CommittedFollow, Reserving, NoRow
  <2> HIDE DEF t, id, r
  <2>4. /\ committed'.request[id] = request[id]
        /\ \A k \in Kinds : /\ committed'.hold[id][k] = hold[id][k]
                            /\ committed'.dedication[id][k] = 0
    BY <1>5, <2>2
  <2> USE DEF t, id, r
  <2> QED BY <1>1, <1>2, <1>4, <1>6, <2>1, <2>3, <2>4
<1>7. CASE t.op \in Ending
  <2>1. /\ Terminating(p) /\ t.left = {} /\ t.snap \in SUBSET Kinds
    BY <1>1, <1>7, TxParts DEF TxInv, InFlight, Looping
  <2>2. CASE owner[RequestRow(id)] = p
    <3>1. /\ r.status = "RESERVED" /\ request[id].status = StatusTo[t.op]
          /\ request[id].cust = r.cust /\ request[id].key = r.key /\ request[id].body = r.body
          /\ \A k \in Kinds : dedication[id][k] = IF t.op = "confirm" /\ k \in t.snap THEN 1 ELSE 0
      BY <1>2, <1>7, <2>2 DEF TxInv, OwnRequests
    <3>2. t.snap = PlanKinds(r.body) /\ \A k \in t.snap : owner[HoldRow(id, k)] = p
      BY <1>1, <2>1, <3>1 DEF Terminating
    <3>3. ASSUME NEW k \in Kinds
          PROVE  /\ committed.dedication[id][k] = 0
                 /\ committed'.hold[id][k] = IF k \in PlanKinds(r.body) THEN HoldTo[t.op] ELSE "NONE"
      <4>1. committed.dedication[id][k] = 0
        BY <1>2, <3>1 DEF TxInv, CommittedFollow
      <4>2. CASE k \in t.snap
        <5>1. hold[id][k] = HoldTo[t.op] /\ Mine(p, HoldRow(id, k))
          BY <1>2, <1>7, <3>2, <4>2 DEF TxInv, OwnHolds, Mine
        <5> QED BY <1>5, <3>2, <4>1, <4>2, <5>1
      <4>3. CASE k \notin t.snap
        <5>1. ~Mine(p, HoldRow(id, k))
          BY <1>2, <1>7, <4>3 DEF TxInv, OwnHolds, Mine
        <5>2. committed.hold[id][k] = "NONE"
          BY <1>2, <3>1, <3>2, <4>3 DEF TxInv, CommittedFollow
        <5> QED BY <1>5, <3>2, <4>1, <4>3, <5>1, <5>2
      <4> QED BY <4>2, <4>3
    <3>4. committed'.request[id] = request[id] /\ committed'.dedication[id] = dedication[id]
      BY <1>5, <2>2 DEF Mine
    <3> HIDE DEF t, id, r
    <3>5. \A k \in Kinds : committed'.dedication[id][k] =
            IF t.op = "confirm" /\ k \in PlanKinds(r.body) THEN 1 ELSE 0
      BY <3>1, <3>2, <3>4
    <3> USE DEF t, id, r
    <3> QED BY <1>1, <1>2, <1>4, <1>7, <3>1, <3>3, <3>4, <3>5
  <2>3. CASE owner[RequestRow(id)] # p
    <3>1. r.status # "RESERVED" /\ ~Mine(p, RequestRow(id))
      BY <1>1, <2>1, <2>3 DEF Terminating, Mine
    <3>2. \A k \in Kinds : ~Mine(p, HoldRow(id, k))
      BY <1>2, <1>7, <3>1 DEF TxInv, OwnHolds, CommittedFollow, Mine
    <3> QED BY <1>1, <1>2, <1>4, <1>5, <1>7, <3>1, <3>2
  <2> QED BY <2>2, <2>3
<1> QED BY <1>2, <1>6, <1>7

\* A transaction ends: what its rows have become is what is committed.
LEMMA CommitKeeps ==
  ASSUME TxTypeOK, TxInv, NEW p \in Procs, Commit(p)
  PROVE  TxInv'
<1> DEFINE id == tx[p].id
           t == tx[p]
           r == committed.request[tx[p].id]
           New == committed'.request[id]
<1>0. /\ tx'[p] = None /\ \A q \in Procs : q # p => tx'[q] = tx[q]
      /\ \A row \in Lockable : owner'[row] = IF owner[row] = p THEN None ELSE owner[row]
      /\ UNCHANGED <<request, hold, dedication>> /\ tx[p] # None /\ id \in ReqIds
  BY EndedTx, TxParts DEF Commit, db
<1>1. p # None
  BY NoProcAssumption
<1>2. \A i \in ReqIds : i # id =>
        /\ committed'.request[i] = committed.request[i]
        /\ committed'.dedication[i] = committed.dedication[i]
        /\ \A k \in Kinds : committed'.hold[i][k] = committed.hold[i][k]
  BY CommitPublishes
<1>3. Clean'
  <2> SUFFICES ASSUME NEW i \in ReqIds
               PROVE  /\ owner'[RequestRow(i)] = None =>
                           /\ request'[i] = committed'.request[i]
                           /\ dedication'[i] = committed'.dedication[i]
                      /\ \A k \in Kinds :
                           owner'[HoldRow(i, k)] = None => hold'[i][k] = committed'.hold[i][k]
    BY DEF Clean
  <2>1. /\ RequestRow(i) \in Lockable /\ \A k \in Kinds : HoldRow(i, k) \in Lockable
    BY LockableRows
  <2>2. /\ Mine(p, RequestRow(i)) \/ owner[RequestRow(i)] = None \/ owner'[RequestRow(i)] # None
        /\ \A k \in Kinds :
             Mine(p, HoldRow(i, k)) \/ owner[HoldRow(i, k)] = None \/ owner'[HoldRow(i, k)] # None
    BY <1>0, <2>1 DEF Mine
  <2> QED BY <1>0, <2>2, Committed DEF TxInv, Clean
<1>4. CommittedFollow'
  <2> DEFINE Follow(i) ==
        LET s == committed'.request[i] IN
        /\ s.status \in {"NONE", "RESERVED"} => \A k \in Kinds : committed'.dedication[i][k] = 0
        /\ \A k \in Kinds :
             /\ committed'.hold[i][k] = "ACTIVE" <=> s.status = "RESERVED" /\ k \in PlanKinds(s.body)
             /\ s.status = "RESERVED" /\ k \notin PlanKinds(s.body) => committed'.hold[i][k] = "NONE"
  <2>1. ASSUME NEW i \in ReqIds, i # id PROVE Follow(i)
    BY <1>2, <2>1 DEF TxInv, CommittedFollow
  <2>2. Follow(id)
    <3>1. CASE /\ t.op = "reserve" /\ Reserving(p) /\ t.next = "commit"
               /\ New = request[id]
               /\ \A k \in Kinds : /\ committed'.hold[id][k] = hold[id][k]
                                   /\ committed'.dedication[id][k] = 0
      <4>1. /\ New.status = "RESERVED" /\ New.body = t.body
            /\ \A k \in Kinds : committed'.hold[id][k] =
                 IF k \in PlanKinds(t.body) THEN "ACTIVE" ELSE "NONE"
        BY <3>1 DEF Reserving
      <4> HIDE DEF t, id
      <4> QED BY <3>1, <4>1
    <3>2. CASE /\ t.op \in Ending /\ New = request[id] /\ request[id].status = StatusTo[t.op]
               /\ \A k \in Kinds : committed'.hold[id][k] =
                    IF k \in PlanKinds(r.body) THEN HoldTo[t.op] ELSE "NONE"
      <4>1. /\ New.status \notin {"NONE", "RESERVED"}
            /\ HoldTo[t.op] # "ACTIVE"
        BY <3>2 DEF StatusTo, HoldTo, Ending
      <4> HIDE DEF t, id, r
      <4> QED BY <3>2, <4>1
    <3>3. CASE /\ committed'.request[id] = r /\ committed'.dedication[id] = committed.dedication[id]
               /\ \A k \in Kinds : committed'.hold[id][k] = committed.hold[id][k]
      BY <1>0, <3>3 DEF TxInv, CommittedFollow
    <3> HIDE DEF Follow
    <3> QED BY <3>1, <3>2, <3>3, CommitPublishes
  <2> HIDE DEF Follow
  <2>3. \A i \in ReqIds : Follow(i)
    BY <2>1, <2>2
  <2> QED BY <2>3 DEF CommittedFollow, Follow
\* Rows of other transactions are not published.
<1>5. /\ \A row \in Lockable : owner'[row] # p
      /\ \A q \in Procs, row \in Lockable : owner'[row] = q => owner[row] = q
      /\ \A q \in Procs, row \in Lockable : q # p /\ owner[row] = q => owner'[row] = q
  BY <1>0, <1>1, NoProcAssumption
<1>6. OwnHolds'
  <2> SUFFICES ASSUME NEW q \in Procs, NEW i \in ReqIds, NEW j \in Kinds, owner'[HoldRow(i, j)] = q
               PROVE  /\ tx'[q] # None /\ tx'[q].id = i
                      /\ tx'[q].op = "reserve" => tx'[q].next = "commit"
                      /\ tx'[q].op \in Ending =>
                           /\ j \in tx'[q].snap \ tx'[q].left /\ hold'[i][j] = HoldTo[tx'[q].op]
                           /\ committed'.hold[i][j] = "ACTIVE"
    BY DEF OwnHolds
  <2>1. q # p /\ owner[HoldRow(i, j)] = q /\ ~Mine(p, HoldRow(i, j)) /\ tx'[q] = tx[q]
    BY <1>0, <1>5, LockableRows DEF Mine
  <2>2. committed'.hold[i][j] = committed.hold[i][j]
    BY <2>1, Committed
  <2> QED BY <1>0, <2>1, <2>2 DEF TxInv, OwnHolds
<1>7. OwnRequests'
  <2> SUFFICES ASSUME NEW q \in Procs, NEW i \in ReqIds, owner'[RequestRow(i)] = q
               PROVE  LET u == tx'[q]  s == committed'.request[i] IN
                      /\ u # None /\ u.id = i /\ u.next = "commit"
                      /\ u.op \in Ending =>
                           /\ s.status = "RESERVED" /\ request'[i].status = StatusTo[u.op]
                           /\ request'[i].cust = s.cust /\ request'[i].key = s.key
                           /\ request'[i].body = s.body
                           /\ \A k \in Kinds : dedication'[i][k] =
                                IF u.op = "confirm" /\ k \in u.snap THEN 1 ELSE 0
    BY DEF OwnRequests
  <2>1. q # p /\ owner[RequestRow(i)] = q /\ ~Mine(p, RequestRow(i)) /\ tx'[q] = tx[q]
    BY <1>0, <1>5, LockableRows DEF Mine
  <2>2. committed'.request[i] = committed.request[i]
    BY <2>1, Committed
  <2> QED BY <1>0, <2>1, <2>2 DEF TxInv, OwnRequests
<1>8. ASSUME NEW q \in Procs, tx'[q] # None, tx'[q].op = "reserve"
      PROVE  Reserving(q)'
  <2>1. q # p /\ tx'[q] = tx[q] /\ tx[q] # None
    BY <1>0, <1>8
  <2>2. /\ tx[q].id \in ReqIds /\ tx[q].cust \in Customers /\ tx[q].key \in Keys /\ Reserving(q)
    BY <1>8, <2>1, TxParts DEF TxInv, InFlight
  <2>3. tx[q].id # id
    BY <1>0, <2>1, <2>2 DEF Reserving
  <2>4. /\ committed'.request[tx[q].id] = NoRow /\ tx'[q].next # "list"
        /\ \A s \in Procs : s # q /\ tx'[s] # None => tx'[s].id # tx[q].id
    BY <1>0, <1>2, <2>1, <2>2, <2>3 DEF Reserving
  <2>5. ASSUME tx[q].next = "commit"
        PROVE  /\ owner'[RequestRow(tx[q].id)] = q /\ owner'[KeyRow(tx[q].cust, tx[q].key)] = q
               /\ \A k \in Kinds : owner'[HoldRow(tx[q].id, k)] = q
    BY <1>5, <2>1, <2>2, <2>5, LockableRows DEF Reserving
  <2>6. ASSUME tx[q].next = "commit", NEW i \in ReqIds, committed'.request[i] # NoRow
        PROVE  ~(committed'.request[i].cust = tx[q].cust /\ committed'.request[i].key = tx[q].key)
    <3>1. CASE i # id
      BY <1>2, <2>2, <2>6, <3>1 DEF Reserving
    <3>2. CASE i = id
      <4>1. CASE t.op = "reserve" /\ Reserving(p) /\ t.next = "commit" /\ New = request[id]
        <5>1. /\ New.cust = t.cust /\ New.key = t.key /\ owner[KeyRow(t.cust, t.key)] = p
          BY <4>1 DEF Reserving
        <5>2. owner[KeyRow(tx[q].cust, tx[q].key)] = q
          BY <2>2, <2>6 DEF Reserving
        <5> QED BY <2>1, <3>2, <5>1, <5>2
      <4>2. CASE /\ r.status = "RESERVED" /\ New = request[id]
                 /\ request[id].cust = r.cust /\ request[id].key = r.key
        <5>1. r # NoRow
          BY <4>2 DEF NoRow
        <5> QED BY <1>0, <2>2, <2>6, <3>2, <4>2, <5>1 DEF Reserving
      <4>3. CASE New = r
        BY <1>0, <2>2, <2>6, <3>2, <4>3 DEF Reserving
      <4> QED BY <4>1, <4>2, <4>3, CommitPublishes
    <3> QED BY <3>1, <3>2
  <2> QED BY <1>0, <2>1, <2>2, <2>4, <2>5, <2>6 DEF Reserving
<1>9. ASSUME NEW q \in Procs, tx'[q] # None, tx'[q].op \in Ending
      PROVE  Terminating(q)'
  <2>1. q # p /\ tx'[q] = tx[q] /\ tx[q] # None
    BY <1>0, <1>9
  <2>2. tx[q].id \in ReqIds /\ Terminating(q) /\ tx[q].snap \in SUBSET Kinds
    BY <1>9, <2>1, TxParts DEF TxInv, InFlight
  <2> DEFINE s == committed.request[tx[q].id]
             u == committed'.request[tx[q].id]
  <2>3. u = s \/ (u.status \notin {"NONE", "RESERVED"} /\ s.status = "RESERVED")
    <3>1. CASE tx[q].id # id
      BY <1>2, <2>2, <3>1
    <3>2. CASE tx[q].id = id
      <4>1. t.op # "reserve"
        BY <1>0, <2>1, <3>2 DEF TxInv, InFlight, Reserving
      <4>2. CASE /\ t.op \in Ending /\ r.status = "RESERVED" /\ New = request[id]
                 /\ request[id].status = StatusTo[t.op]
        BY <3>2, <4>2 DEF StatusTo, Ending
      <4>3. CASE New = r
        BY <3>2, <4>3
      <4> QED BY <4>1, <4>2, <4>3, CommitPublishes
    <3> QED BY <3>1, <3>2
  <2>4. u # NoRow
    BY <2>2, <2>3 DEF Terminating, NoRow
  <2>5. /\ \A k \in Kinds : owner[HoldRow(tx[q].id, k)] = q => owner'[HoldRow(tx[q].id, k)] = q
        /\ owner[RequestRow(tx[q].id)] = q => owner'[RequestRow(tx[q].id)] = q
    BY <1>5, <2>1, <2>2, LockableRows
  <2> HIDE DEF u
  <2>6. /\ tx[q].left \subseteq tx[q].snap
        /\ tx[q].next = "list" => tx[q].snap = {}
        /\ tx[q].next # "list" /\ u.status = "RESERVED" =>
             /\ tx[q].snap = PlanKinds(u.body)
             /\ \A k \in tx[q].snap \ tx[q].left : owner'[HoldRow(tx[q].id, k)] = q
        /\ tx[q].next = "commit" =>
             owner'[RequestRow(tx[q].id)] = q \/ (tx[q].op # "confirm" /\ u.status # "RESERVED")
    BY <2>2, <2>3, <2>5 DEF Terminating
  <2> QED BY <2>1, <2>4, <2>6 DEF Terminating, u
<1> QED BY <1>3, <1>4, <1>6, <1>7, <1>8, <1>9 DEF TxInv, InFlight


\* A rollback leaves what is committed alone and restores it on the rows of its
\* transaction.
LEMMA RollbackKeeps ==
  ASSUME TxTypeOK, TxInv, NEW p \in Procs, Rollback(p)
  PROVE  TxInv'
<1>0. /\ tx'[p] = None /\ \A q \in Procs : q # p => tx'[q] = tx[q]
      /\ \A row \in Lockable : owner'[row] = IF owner[row] = p THEN None ELSE owner[row]
      /\ UNCHANGED committed
  BY EndedTx DEF Rollback
<1>1. /\ \A row \in Lockable : owner'[row] # p
      /\ \A q \in Procs, row \in Lockable : owner'[row] = q => owner[row] = q
      /\ \A q \in Procs, row \in Lockable : q # p /\ owner[row] = q => owner'[row] = q
  BY <1>0, NoProcAssumption
<1>2. ASSUME NEW q \in Procs, q # p
      PROVE  /\ \A i \in ReqIds : owner[RequestRow(i)] = q =>
                  /\ request'[i] = request[i] /\ dedication'[i] = dedication[i]
                  /\ owner'[RequestRow(i)] = q
             /\ \A i \in ReqIds, k \in Kinds : owner[HoldRow(i, k)] = q =>
                  hold'[i][k] = hold[i][k] /\ owner'[HoldRow(i, k)] = q
             /\ \A c \in Customers, key \in Keys : owner[KeyRow(c, key)] = q =>
                  owner'[KeyRow(c, key)] = q
  BY <1>1, <1>2, RolledBack, LockableRows DEF Mine
<1>3. Clean'
  <2> SUFFICES ASSUME NEW i \in ReqIds
               PROVE  /\ owner'[RequestRow(i)] = None =>
                           /\ request'[i] = committed'.request[i]
                           /\ dedication'[i] = committed'.dedication[i]
                      /\ \A k \in Kinds :
                           owner'[HoldRow(i, k)] = None => hold'[i][k] = committed'.hold[i][k]
    BY DEF Clean
  <2>1. /\ RequestRow(i) \in Lockable /\ \A k \in Kinds : HoldRow(i, k) \in Lockable
    BY LockableRows
  <2>2. /\ Mine(p, RequestRow(i)) \/ owner[RequestRow(i)] = None \/ owner'[RequestRow(i)] # None
        /\ \A k \in Kinds :
             Mine(p, HoldRow(i, k)) \/ owner[HoldRow(i, k)] = None \/ owner'[HoldRow(i, k)] # None
    BY <1>0, <2>1 DEF Mine
  <2> QED BY <1>0, <2>2, RolledBack DEF TxInv, Clean
<1>4. CommittedFollow'
  BY <1>0 DEF TxInv, CommittedFollow
<1>5. OwnHolds'
  <2> SUFFICES ASSUME NEW q \in Procs, NEW i \in ReqIds, NEW j \in Kinds, owner'[HoldRow(i, j)] = q
               PROVE  /\ tx'[q] # None /\ tx'[q].id = i
                      /\ tx'[q].op = "reserve" => tx'[q].next = "commit"
                      /\ tx'[q].op \in Ending =>
                           /\ j \in tx'[q].snap \ tx'[q].left /\ hold'[i][j] = HoldTo[tx'[q].op]
                           /\ committed'.hold[i][j] = "ACTIVE"
    BY DEF OwnHolds
  <2>1. q # p /\ owner[HoldRow(i, j)] = q /\ hold'[i][j] = hold[i][j] /\ tx'[q] = tx[q]
    BY <1>0, <1>1, <1>2, LockableRows
  <2> QED BY <1>0, <2>1 DEF TxInv, OwnHolds
<1>6. OwnRequests'
  <2> SUFFICES ASSUME NEW q \in Procs, NEW i \in ReqIds, owner'[RequestRow(i)] = q
               PROVE  LET u == tx'[q]  s == committed'.request[i] IN
                      /\ u # None /\ u.id = i /\ u.next = "commit"
                      /\ u.op \in Ending =>
                           /\ s.status = "RESERVED" /\ request'[i].status = StatusTo[u.op]
                           /\ request'[i].cust = s.cust /\ request'[i].key = s.key
                           /\ request'[i].body = s.body
                           /\ \A k \in Kinds : dedication'[i][k] =
                                IF u.op = "confirm" /\ k \in u.snap THEN 1 ELSE 0
    BY DEF OwnRequests
  <2>1. /\ q # p /\ owner[RequestRow(i)] = q /\ request'[i] = request[i]
        /\ dedication'[i] = dedication[i] /\ tx'[q] = tx[q]
    BY <1>0, <1>1, <1>2, LockableRows
  <2> QED BY <1>0, <2>1 DEF TxInv, OwnRequests
<1>7. ASSUME NEW q \in Procs, tx'[q] # None, tx'[q].op = "reserve"
      PROVE  Reserving(q)'
  <2>1. q # p /\ tx'[q] = tx[q] /\ tx[q] # None
    BY <1>0, <1>7
  <2>2. /\ tx[q].id \in ReqIds /\ tx[q].cust \in Customers /\ tx[q].key \in Keys /\ Reserving(q)
    BY <1>7, <2>1, TxParts DEF TxInv, InFlight
  <2>3. \A s \in Procs : s # q /\ tx'[s] # None => tx'[s].id # tx[q].id
    BY <1>0, <2>2 DEF Reserving
  <2> QED BY <1>0, <1>2, <2>1, <2>2, <2>3 DEF Reserving
<1>8. ASSUME NEW q \in Procs, tx'[q] # None, tx'[q].op \in Ending
      PROVE  Terminating(q)'
  <2>1. q # p /\ tx'[q] = tx[q] /\ tx[q] # None
    BY <1>0, <1>8
  <2>2. tx[q].id \in ReqIds /\ Terminating(q) /\ tx[q].snap \in SUBSET Kinds
    BY <1>8, <2>1, TxParts DEF TxInv, InFlight
  <2> QED BY <1>0, <1>2, <2>1, <2>2 DEF Terminating
<1> QED BY <1>3, <1>4, <1>5, <1>6, <1>7, <1>8 DEF TxInv, InFlight

\* Every step keeps the transactions in hand.
LEMMA TxInvStep == TxTypeOK /\ TxInv /\ [TxNext]_tvars => TxInv'
<1> SUFFICES ASSUME TxTypeOK, TxInv, [TxNext]_tvars PROVE TxInv'
  OBVIOUS
<1>1. CASE UNCHANGED tvars
  BY <1>1 DEF tvars, db, TxInv, Clean, CommittedFollow, OwnHolds, OwnRequests, InFlight, Reserving,
    Terminating
<1> QED BY <1>1, CounterStatements, ListKeeps, HoldSkipKeeps, RequestSkipKeeps, BeginReserveKeeps,
  BeginKeeps, HoldOfKeeps, InsertKeeps, RequestOfKeeps, CommitKeeps, RollbackKeeps
  DEF TxNext, Statement

\* There is nothing in hand at first.
LEMMA TxInvInit == TxInit => TxInv
<1> SUFFICES ASSUME TxInit PROVE TxInv
  OBVIOUS
<1>1. /\ \A id \in ReqIds : /\ request[id] = NoRow /\ \A k \in Kinds : hold[id][k] = "NONE"
                            /\ \A k \in Kinds : dedication[id][k] = 0
      /\ committed.request = request /\ committed.hold = hold /\ committed.dedication = dedication
      /\ \A row \in Lockable : owner[row] = None
      /\ \A p \in Procs : tx[p] = None
  BY DEF TxInit, RepositoryInit, Tables
<1>2. CommittedFollow
  BY <1>1 DEF CommittedFollow, NoRow
<1>3. OwnHolds /\ OwnRequests
  BY <1>1, LockableRows, NoProcAssumption DEF OwnHolds, OwnRequests
<1> QED BY <1>1, <1>2, <1>3 DEF TxInv, Clean, InFlight

\* A commit that changes the status of one committed row, seen abstractly.
LEMMA CommittedRowsExcept ==
  ASSUME NEW id \in ReqIds, NEW new,
         \A i \in ReqIds : i # id => committed'.request[i] = committed.request[i],
         RowOf(committed'.request[id]) = new
  PROVE  CommittedRows' = [CommittedRows EXCEPT ![id] = new]
  BY DEF CommittedRows, RowOf

\* A commit is one abstract step, or none.
LEMMA CommitRefines ==
  ASSUME TxTypeOK, TxInv, NEW p \in Procs, Commit(p)
  PROVE  Life!Next \/ UNCHANGED Life!life
<1> DEFINE id == tx[p].id
           t == tx[p]
           r == committed.request[tx[p].id]
           New == committed'.request[id]
           H == committed.hold
           D == committed.dedication
<1>0. /\ t # None /\ id \in ReqIds /\ t.cust \in Customers /\ t.key \in Keys /\ t.body \in Bodies
  BY TxParts DEF Commit
<1>1. /\ \A i \in ReqIds : i # id =>
           /\ committed'.request[i] = committed.request[i]
           /\ committed'.dedication[i] = D[i]
           /\ \A k \in Kinds : committed'.hold[i][k] = H[i][k]
  BY CommitPublishes
<1>2. /\ H \in [ReqIds -> [Kinds -> HoldStatus \cup {"NONE"}]] /\ D \in [ReqIds -> [Kinds -> Nat]]
      /\ committed'.hold \in [ReqIds -> [Kinds -> HoldStatus \cup {"NONE"}]]
      /\ committed'.dedication \in [ReqIds -> [Kinds -> Nat]]
      /\ committed.request \in [ReqIds -> Row \cup {NoRow}]
      /\ committed'.request \in [ReqIds -> Row \cup {NoRow}]
  BY Committed DEF TxTypeOK, CommittedTypeOK
<1>3. ASSUME NEW b \in Bodies, NEW s,
             \A k \in Kinds : committed'.hold[id][k] = IF k \in PlanKinds(b) THEN s ELSE "NONE"
      PROVE  Life!SetHolds(id, b, s)
  <2> HIDE DEF id
  <2>1. committed'.hold[id] = [k \in Kinds |-> IF k \in LinesOf[b] THEN s ELSE "NONE"]
    BY <1>0, <1>2, <1>3 DEF LinesOf
  <2>2. \A i \in ReqIds : i # id => committed'.hold[i] = H[i]
    BY <1>1, <1>2
  <2>3. committed'.hold = [H EXCEPT ![id] = committed'.hold[id]]
    BY <1>0, <1>2, <2>2
  <2> QED BY <2>1, <2>3 DEF Life!SetHolds
<1>4. CASE /\ t.op = "reserve" /\ Reserving(p) /\ t.next = "commit" /\ New = request[id]
           /\ \A k \in Kinds : /\ committed'.hold[id][k] = hold[id][k]
                               /\ committed'.dedication[id][k] = 0
                               /\ D[id][k] = 0
  <2>1. /\ New.status = "RESERVED" /\ New.cust = t.cust /\ New.key = t.key /\ New.body = t.body
        /\ \A k \in Kinds : committed'.hold[id][k] =
             IF k \in PlanKinds(t.body) THEN "ACTIVE" ELSE "NONE"
        /\ r = NoRow
        /\ \A i \in ReqIds : committed.request[i] # NoRow =>
             ~(committed.request[i].cust = t.cust /\ committed.request[i].key = t.key)
    BY <1>4 DEF Reserving
  <2> DEFINE row == [status |-> "RESERVED", cust |-> t.cust, key |-> t.key, body |-> t.body]
  <2>2. RowOf(New) = row
    BY <2>1 DEF RowOf
  <2>3. CommittedRows' = [CommittedRows EXCEPT ![id] = row]
    BY <1>0, <1>1, <2>2, CommittedRowsExcept
  <2>4. Life!SetHolds(id, t.body, "ACTIVE")
    BY <1>0, <1>3, <2>1
  <2>5. UNCHANGED committed.dedication
    <3>1. \A i \in ReqIds : \A k \in Kinds : committed'.dedication[i][k] = D[i][k]
      BY <1>1, <1>4
    <3> QED BY <1>2, <3>1
  <2>6. Life!Fresh(id, t.cust, t.key)
    <3>1. CommittedRows[id] = Life!NoRow
      BY <1>0, <2>1 DEF CommittedRows, RowOf, NoRow, Life!NoRow
    <3>2. ASSUME NEW i \in ReqIds, CommittedRows[i].cust = t.cust, CommittedRows[i].key = t.key,
                 CommittedRows[i] # Life!NoRow
          PROVE  FALSE
      <4>1. CommittedRows[i] = RowOf(committed.request[i])
        BY DEF CommittedRows
      <4>2. committed.request[i] # NoRow
        BY <3>2, <4>1 DEF RowOf, NoRow, Life!NoRow
      <4>3. committed.request[i].cust = t.cust /\ committed.request[i].key = t.key
        BY <3>2, <4>1 DEF RowOf
      <4> QED BY <2>1, <4>2, <4>3
    <3> QED BY <3>1, <3>2 DEF Life!Fresh
  <2> HIDE DEF t, id
  <2>7. Life!Reserve(id, t.cust, t.key, t.body)
    BY <2>3, <2>4, <2>5, <2>6 DEF Life!Reserve
  <2> QED BY <1>0, <2>7 DEF Life!Next
<1>5. CASE /\ t.op \in Ending /\ r.status = "RESERVED" /\ New = request[id]
           /\ request[id].status = StatusTo[t.op] /\ request[id].cust = r.cust
           /\ request[id].key = r.key /\ request[id].body = r.body
           /\ \A k \in Kinds :
                /\ committed'.hold[id][k] = IF k \in PlanKinds(r.body) THEN HoldTo[t.op] ELSE "NONE"
                /\ committed'.dedication[id][k] =
                     IF t.op = "confirm" /\ k \in PlanKinds(r.body) THEN 1 ELSE 0
                /\ D[id][k] = 0
  <2>1. r.body \in Bodies
    <3>1. r \in Row
      BY <1>0, <1>2, <1>5 DEF NoRow
    <3> QED BY <3>1 DEF Row
  <2>2. CommittedRows[id] = RowOf(r)
    BY <1>0 DEF CommittedRows
  <2>3. /\ CommittedRows[id].status = "RESERVED" /\ CommittedRows[id].body = r.body
    BY <1>5, <2>2 DEF RowOf
  <2>4. CommittedRows' = [CommittedRows EXCEPT ![id].status = StatusTo[t.op]]
    <3>1. RowOf(New) = [RowOf(r) EXCEPT !.status = StatusTo[t.op]]
      BY <1>5 DEF RowOf
    <3>2. CommittedRows' = [CommittedRows EXCEPT ![id] = RowOf(New)]
      BY <1>0, <1>1, CommittedRowsExcept
    <3> QED BY <2>2, <3>1, <3>2
  <2>5. Life!SetHolds(id, r.body, HoldTo[t.op])
    BY <1>3, <1>5, <2>1
  <2>6. CASE t.op = "confirm"
    <3>1. committed'.dedication = [D EXCEPT ![id] =
            [k \in Kinds |-> IF k \in LinesOf[r.body] THEN 1 ELSE 0]]
      <4>1. committed'.dedication[id] = [k \in Kinds |-> IF k \in LinesOf[r.body] THEN 1 ELSE 0]
        BY <1>0, <1>2, <1>5, <2>1, <2>6 DEF LinesOf
      <4>2. committed'.dedication = [D EXCEPT ![id] = committed'.dedication[id]]
        BY <1>0, <1>1, <1>2
      <4> QED BY <4>1, <4>2
    <3>2. Life!SetHolds(id, r.body, "DEDICATED")
          /\ CommittedRows' = [CommittedRows EXCEPT ![id].status = "COMPLETED"]
      BY <2>4, <2>5, <2>6 DEF HoldTo, StatusTo
    <3> HIDE DEF id, r
    <3>3. Life!Confirm(id)
      BY <2>3, <3>1, <3>2 DEF Life!Confirm
    <3> QED BY <1>0, <3>3 DEF Life!Next
  <2>7. CASE t.op # "confirm"
    <3>1. UNCHANGED committed.dedication
      <4>1. \A i \in ReqIds : \A k \in Kinds : committed'.dedication[i][k] = D[i][k]
        BY <1>1, <1>5, <2>7
      <4> QED BY <1>2, <4>1
    <3>2. CASE t.op = "cancel"
      <4>1. Life!SetHolds(id, r.body, "RELEASED")
            /\ CommittedRows' = [CommittedRows EXCEPT ![id].status = "CANCELLED"]
        BY <2>4, <2>5, <3>2 DEF HoldTo, StatusTo
      <4> HIDE DEF id, r
      <4>2. Life!Cancel(id)
        BY <2>3, <3>1, <4>1 DEF Life!Cancel
      <4> QED BY <1>0, <4>2 DEF Life!Next
    <3>3. CASE t.op = "expire"
      <4>1. Life!SetHolds(id, r.body, "EXPIRED")
            /\ CommittedRows' = [CommittedRows EXCEPT ![id].status = "EXPIRED"]
        BY <2>4, <2>5, <3>3 DEF HoldTo, StatusTo
      <4> HIDE DEF id, r
      <4>2. Life!Expire(id)
        BY <2>3, <3>1, <4>1 DEF Life!Expire
      <4> QED BY <1>0, <4>2 DEF Life!Next
    <3> QED BY <1>5, <2>7, <3>2, <3>3 DEF Ending
  <2> QED BY <2>6, <2>7
<1>6. CASE /\ New = r /\ committed'.dedication[id] = D[id]
           /\ \A k \in Kinds : committed'.hold[id][k] = H[id][k]
  <2>0. \A i \in ReqIds : committed'.request[i] = committed.request[i] /\ committed'.dedication[i] = D[i]
    BY <1>1, <1>6
  <2>1. committed'.request = committed.request
    BY <1>2, <2>0
  <2>2. committed'.dedication = D
    BY <1>2, <2>0
  <2>3. committed'.hold = H
    <3>1. \A i \in ReqIds : \A k \in Kinds : committed'.hold[i][k] = H[i][k]
      BY <1>1, <1>6
    <3> QED BY <1>2, <3>1
  <2> QED BY <2>1, <2>2, <2>3 DEF Life!life, CommittedRows
<1> QED BY <1>4, <1>5, <1>6, CommitPublishes

\* However the statements of transactions interleave, what they commit is one
\* whole reservation, confirmation, cancellation or expiry at a time, and never a
\* second request under a key: READ COMMITTED and the conditional UPDATEs are
\* enough, although the holds were listed without a lock.
THEOREM StatementsImplementLife == TxSpec => TransactionsImplementRequestLife
<1>1. TxInit => Life!Init
  BY DEF TxInit, RepositoryInit, Tables, Life!Init, Life!NoRow, NoRow, CommittedRows, RowOf
<1>2. TxTypeOK /\ TxInv /\ [TxNext]_tvars => [Life!Next]_(Life!life)
  <2> SUFFICES ASSUME TxTypeOK, TxInv, [TxNext]_tvars
               PROVE  Life!Next \/ UNCHANGED Life!life
    OBVIOUS
  <2>1. UNCHANGED committed => UNCHANGED Life!life
    BY DEF Life!life, CommittedRows
  <2>2. ASSUME NEW p \in Procs, Statement(p), ~Commit(p) PROVE UNCHANGED committed
    BY <2>2, PoolStatement, QuotaStatement, HoldStatement, InsertStatement, RequestStatement
    DEF Statement, ListActiveHoldsInOrder, RequestSkip
  <2>3. ASSUME NEW p \in Procs, NEW id \in ReqIds,
               \/ \E c \in Customers, key \in Keys, b \in Bodies : BeginReserve(p, id, c, key, b)
               \/ \E op \in Ending : Begin(p, op, id)
        PROVE  UNCHANGED committed
    BY <2>3 DEF BeginReserve, Begin
  <2>4. ASSUME NEW p \in Procs, Rollback(p) PROVE UNCHANGED committed
    BY <2>4 DEF Rollback
  <2>5. CASE UNCHANGED tvars
    BY <2>1, <2>5 DEF tvars
  <2> QED BY <2>1, <2>2, <2>3, <2>4, <2>5, CommitRefines DEF TxNext
<1>3. TxSpec => []TxInv
  BY TxInvInit, TxInvStep, TxTypes, PTL DEF TxSpec
<1> QED BY <1>1, <1>2, <1>3, TxTypes, PTL
  DEF TxSpec, TransactionsImplementRequestLife, Life!Spec
=============================================================================
