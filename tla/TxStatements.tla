---------------------------- MODULE TxStatements ----------------------------
(***************************************************************************)
(* The transactions of the service statement by statement, under the row   *)
(* locks of Postgres at READ COMMITTED.  CapacityService takes all that a  *)
(* transaction does after its first read as one step; here other           *)
(* transactions run between any two statements.                            *)
(*                                                                         *)
(* The variables of Repository hold the latest version of every row,       *)
(* committed or not, and committed the last committed one.  A row changed  *)
(* by a transaction is locked by it until it ends.  An UPDATE looks for    *)
(* its row in the committed version: if its WHERE fails there it updates   *)
(* nothing and does not wait; if it holds it waits for the row's lock and  *)
(* is then evaluated again.                                                *)
(*                                                                         *)
(* There is no clock here: any RESERVED request may be confirmed,          *)
(* cancelled or expired.  Extend and CreateRejected open no transaction    *)
(* and are in CapacityService only.                                        *)
(***************************************************************************)
EXTENDS Repository, Sequences

CONSTANTS
  Procs,       \* goroutines in a transaction: workers and sweepers
  PoolOrder    \* the kinds in the order of their pools' ids

\* The transactions that end a request.
Ending == {"confirm", "cancel", "expire"}

\* A transaction: what it is for, the kinds it still has to go through, those it
\* began with, and the table of its next statement.
Transaction ==
  [op : {"reserve"} \cup Ending, id : ReqIds, cust : Customers, key : Keys, body : Bodies,
   left : SUBSET Kinds, snap : SUBSET Kinds,
   next : {"list", "pool", "quota", "hold", "request", "commit"}]

ASSUME NoProcAssumption == None \notin Procs
ASSUME NoTxAssumption == None \notin Transaction
ASSUME PoolOrderAssumption ==
  /\ PoolOrder \in Seq(Kinds)
  /\ \A k \in Kinds : \E n \in DOMAIN PoolOrder : PoolOrder[n] = k

VARIABLES
  committed,   \* the tables as every transaction but their writer sees them
  owner,       \* owner[row]: the transaction that holds the row's lock, or None
  tx           \* tx[p]: the transaction p is in, or None

tvars == <<db, committed, owner, tx>>

PoolRow(k) == <<"pool", k>>
QuotaRow(c, k) == <<"quota", c, k>>
HoldRow(id, k) == <<"hold", id, k>>
RequestRow(id) == <<"request", id>>
KeyRow(c, key) == <<"key", c, key>>   \* an entry of the unique index

Lockable == {PoolRow(k) : k \in Kinds} \cup {QuotaRow(c, k) : c \in Customers, k \in Kinds}
              \cup {HoldRow(id, k) : id \in ReqIds, k \in Kinds}
              \cup {RequestRow(id) : id \in ReqIds}
              \cup {KeyRow(c, key) : c \in Customers, key \in Keys}

Tables == [reserved |-> reserved, dedicated |-> dedicated, used |-> used, request |-> request,
           hold |-> hold, dedication |-> dedication, event |-> event]

TxInit ==
  /\ RepositoryInit
  /\ committed = Tables
  /\ owner = [row \in Lockable |-> None]
  /\ tx = [p \in Procs |-> None]

-----------------------------------------------------------------------------
(* Rows and locks. *)

Mine(p, row) == owner[row] = p
Locked(p, row) == owner[row] \notin {None, p}
Take(p, row) == owner' = [owner EXCEPT ![row] = p]

At(p, op, next) == tx[p] # None /\ tx[p].op = op /\ tx[p].next = next
Then(p, next) == tx' = [tx EXCEPT ![p].next = next]

\* Where the pool of k comes in the order of pool ids.
PoolId(k) == CHOOSE n \in DOMAIN PoolOrder : PoolOrder[n] = k

\* Mutant: holds come in the order they were written, not by pool_id.
KindUnsorted(p) ==
  CHOOSE k \in tx[p].left : \A j \in tx[p].left :
    IF tx[p].op = "reserve" THEN PoolId(k) <= PoolId(j) ELSE PoolId(j) <= PoolId(k)

\* The kind whose rows the transaction is at: reserveWithinTx goes through its
\* plan, and Confirm and releaseReserved through the holds, by pool id.
Kind(p) == CHOOSE k \in tx[p].left : \A j \in tx[p].left : PoolId(k) <= PoolId(j)

\* What a loop over the kinds of S does first.
First(S) == IF S = {} THEN "request" ELSE "pool"

ThenNextKind(p) ==
  LET rest == tx[p].left \ {Kind(p)}
  IN tx' = [tx EXCEPT ![p].left = rest, ![p].next = First(rest)]

Amounts(p) == Plan[tx[p].body]

\* The amounts of a plan on one kind.
Only(a, k) == [j \in Kinds |-> IF j = k THEN a[j] ELSE 0]

\* The tables of from on the rows that p holds, of to on the others.
Merge(p, from, to) ==
  [reserved |-> [k \in Kinds |-> IF Mine(p, PoolRow(k)) THEN from.reserved[k] ELSE to.reserved[k]],
   dedicated |-> [k \in Kinds |-> IF Mine(p, PoolRow(k)) THEN from.dedicated[k] ELSE to.dedicated[k]],
   used |-> [c \in Customers |-> [k \in Kinds |->
     IF Mine(p, QuotaRow(c, k)) THEN from.used[c][k] ELSE to.used[c][k]]],
   hold |-> [id \in ReqIds |-> [k \in Kinds |->
     IF Mine(p, HoldRow(id, k)) THEN from.hold[id][k] ELSE to.hold[id][k]]],
   request |-> [id \in ReqIds |->
     IF Mine(p, RequestRow(id)) THEN from.request[id] ELSE to.request[id]],
   dedication |-> [id \in ReqIds |->
     IF Mine(p, RequestRow(id)) THEN from.dedication[id] ELSE to.dedication[id]],
   event |-> [id \in ReqIds |->
     IF Mine(p, RequestRow(id)) THEN from.event[id] ELSE to.event[id]]]

EndTx(p) ==
  /\ owner' = [row \in Lockable |-> IF Mine(p, row) THEN None ELSE owner[row]]
  /\ tx' = [tx EXCEPT ![p] = None]

Commit(p) ==
  /\ tx[p] # None /\ tx[p].next = "commit"
  /\ committed' = Merge(p, Tables, committed)
  /\ EndTx(p)
  /\ UNCHANGED db

\* Any error, rejection, lost race or timeout, and the death of the process.
Rollback(p) ==
  /\ tx[p] # None
  /\ LET back == Merge(p, committed, Tables) IN
       /\ reserved' = back.reserved /\ dedicated' = back.dedicated /\ used' = back.used
       /\ request' = back.request /\ hold' = back.hold
       /\ dedication' = back.dedication /\ event' = back.event
  /\ EndTx(p)
  /\ UNCHANGED committed

-----------------------------------------------------------------------------
(* Opening. *)

BeginReserve(p, id, c, key, b) ==
  /\ tx[p] = None
  /\ committed.request[id] = NoRow
  /\ \A q \in Procs : tx[q] # None => tx[q].id # id
  /\ tx' = [tx EXCEPT ![p] = [op |-> "reserve", id |-> id, cust |-> c, key |-> key, body |-> b,
                              left |-> PlanKinds(b), snap |-> PlanKinds(b),
                              next |-> First(PlanKinds(b))]]
  /\ UNCHANGED <<db, committed, owner>>

\* Confirm, Cancel or ExpireDue found the request RESERVED before the transaction.
Begin(p, op, id) ==
  LET r == committed.request[id] IN
  /\ tx[p] = None
  /\ r.status = "RESERVED"
  /\ tx' = [tx EXCEPT ![p] = [op |-> op, id |-> id, cust |-> r.cust, key |-> r.key, body |-> r.body,
                              left |-> {}, snap |-> {}, next |-> "list"]]
  /\ UNCHANGED <<db, committed, owner>>

\* The SELECT locks nothing.
ListActiveHoldsInOrder(p) ==
  LET S == {k \in Kinds : committed.hold[tx[p].id][k] = "ACTIVE"} IN
  /\ tx[p] # None /\ tx[p].next = "list"
  /\ tx' = [tx EXCEPT ![p].snap = S, ![p].left = S, ![p].next = First(S)]
  /\ UNCHANGED <<db, committed, owner>>

-----------------------------------------------------------------------------
(* Statements of reserveWithinTx.  One that updates no row is a rejection,   *)
(* and the transaction can only roll back.                                   *)

ReservePool(p) ==
  LET k == Kind(p) IN
  /\ At(p, "reserve", "pool")
  /\ ~Locked(p, PoolRow(k))
  /\ Available(k) >= Amounts(p)[k]
  /\ TryReserve(Only(Amounts(p), k))
  /\ Take(p, PoolRow(k))
  /\ Then(p, "quota")
  /\ UNCHANGED <<dedicated, used, request, hold, dedication, event, committed>>

ReserveQuota(p) ==
  LET k == Kind(p)  c == tx[p].cust IN
  /\ At(p, "reserve", "quota")
  /\ ~Locked(p, QuotaRow(c, k))
  /\ Limit[c][k] - used[c][k] >= Amounts(p)[k]
  /\ EnsureAndTryConsume(c, Only(Amounts(p), k))
  /\ Take(p, QuotaRow(c, k))
  /\ ThenNextKind(p)
  /\ UNCHANGED <<reserved, dedicated, request, hold, dedication, event, committed>>

\* The INSERT waits for an uncommitted entry of its key and fails on a committed
\* one; the rows it inserts are seen by nobody else before the commit.
ReserveInsert(p) ==
  LET t == tx[p] IN
  /\ At(p, "reserve", "request")
  /\ ~Locked(p, KeyRow(t.cust, t.key))
  /\ FindByIdempotency(t.cust, t.key) = {}
  /\ CreateReserved(t.id, t.cust, t.key, t.body, 0, 0)
  /\ owner' = [row \in Lockable |->
       IF row \in {KeyRow(t.cust, t.key), RequestRow(t.id)} \cup {HoldRow(t.id, k) : k \in Kinds}
       THEN p ELSE owner[row]]
  /\ Then(p, "commit")
  /\ UNCHANGED <<reserved, dedicated, used, dedication, committed>>

-----------------------------------------------------------------------------
(* Statements of Confirm and of releaseReserved, hold by hold. *)

\* The WHERE of the pool's UPDATE, in the committed version and in the latest.
CoversCommitted(p) == committed.reserved[Kind(p)] >= Amounts(p)[Kind(p)]

\* An UPDATE that waited for the row and then no longer matches keeps its lock.
PoolOf(p) ==
  LET k == Kind(p) IN
  /\ tx[p] # None /\ tx[p].op \in Ending /\ tx[p].next = "pool"
  /\ ~Locked(p, PoolRow(k))
  /\ IF tx[p].op = "confirm"
     THEN MoveReservedToDedicated(Amounts(p), {k})
     ELSE ReleaseReserved(Amounts(p), {k}) /\ UNCHANGED dedicated
  /\ Take(p, PoolRow(k)) \/ (reserved[k] < Amounts(p)[k] /\ UNCHANGED owner)
  /\ Then(p, IF tx[p].op = "confirm" THEN "hold" ELSE "quota")
  /\ UNCHANGED <<used, request, hold, dedication, event, committed>>

\* The pool is locked by another transaction, but does not match anyway.
PoolSkip(p) ==
  /\ tx[p] # None /\ tx[p].op \in Ending /\ tx[p].next = "pool"
  /\ Locked(p, PoolRow(Kind(p))) /\ ~CoversCommitted(p)
  /\ Then(p, IF tx[p].op = "confirm" THEN "hold" ELSE "quota")
  /\ UNCHANGED <<db, committed, owner>>

QuotaOf(p) ==
  LET k == Kind(p)  c == tx[p].cust IN
  /\ tx[p] # None /\ tx[p].op \in {"cancel", "expire"} /\ tx[p].next = "quota"
  /\ ~Locked(p, QuotaRow(c, k))
  /\ ReleaseQuota(c, Amounts(p), {k})
  /\ Take(p, QuotaRow(c, k))
  /\ Then(p, "hold")
  /\ UNCHANGED <<reserved, dedicated, request, hold, dedication, event, committed>>

HoldTo == [confirm |-> "DEDICATED", cancel |-> "RELEASED", expire |-> "EXPIRED"]

HoldOf(p) ==
  LET k == Kind(p)  id == tx[p].id IN
  /\ tx[p] # None /\ tx[p].op \in Ending /\ tx[p].next = "hold"
  /\ ~Locked(p, HoldRow(id, k))
  /\ hold[id][k] = "ACTIVE"
  /\ UpdateHoldStatus(id, {k}, HoldTo[tx[p].op])
  /\ Take(p, HoldRow(id, k))
  /\ ThenNextKind(p)
  /\ UNCHANGED <<reserved, dedicated, used, request, dedication, event, committed>>

\* No ACTIVE hold: a release goes on; Confirm has lost its race and rolls back.
HoldSkip(p) ==
  LET k == Kind(p)  id == tx[p].id IN
  /\ tx[p] # None /\ tx[p].op \in Ending \ {"confirm"} /\ tx[p].next = "hold"
  /\ committed.hold[id][k] # "ACTIVE"
  /\ ThenNextKind(p)
  /\ UNCHANGED <<db, committed, owner>>

StatusTo == [confirm |-> "COMPLETED", cancel |-> "CANCELLED", expire |-> "EXPIRED"]
EventTo == [confirm |-> "confirmed", cancel |-> "cancelled", expire |-> "expired"]

\* Mutant: the UPDATE without AND status = 'RESERVED'.
RequestOfUnguarded(p) ==
  LET id == tx[p].id  op == tx[p].op IN
  /\ tx[p] # None /\ tx[p].op \in Ending /\ tx[p].next = "request"
  /\ ~Locked(p, RequestRow(id))
  /\ SetStatus(id, StatusTo[op]) /\ insertEvent(id, EventTo[op])
  /\ IF op = "confirm" THEN InsertDedications(id, tx[p].snap) ELSE UNCHANGED dedication
  /\ Take(p, RequestRow(id))
  /\ Then(p, "commit")
  /\ UNCHANGED <<reserved, dedicated, used, hold, committed>>

RequestOf(p) ==
  LET id == tx[p].id  op == tx[p].op IN
  /\ tx[p] # None /\ tx[p].op \in Ending /\ tx[p].next = "request"
  /\ ~Locked(p, RequestRow(id))
  /\ request[id].status = "RESERVED"
  /\ markTerminal(id, StatusTo[op], EventTo[op])
  /\ IF op = "confirm" THEN InsertDedications(id, tx[p].snap) ELSE UNCHANGED dedication
  /\ Take(p, RequestRow(id))
  /\ Then(p, "commit")
  /\ UNCHANGED <<reserved, dedicated, used, hold, committed>>

\* The row is RESERVED no more: a release commits what it has done all the same.
RequestSkip(p) ==
  /\ tx[p] # None /\ tx[p].op \in Ending \ {"confirm"} /\ tx[p].next = "request"
  /\ committed.request[tx[p].id].status # "RESERVED"
  /\ Then(p, "commit")
  /\ UNCHANGED <<db, committed, owner>>

-----------------------------------------------------------------------------
Statement(p) ==
  \/ ListActiveHoldsInOrder(p)
  \/ ReservePool(p) \/ ReserveQuota(p) \/ ReserveInsert(p)
  \/ PoolOf(p) \/ PoolSkip(p) \/ QuotaOf(p) \/ HoldOf(p) \/ HoldSkip(p)
  \/ RequestOf(p) \/ RequestSkip(p)
  \/ Commit(p)

TxNext ==
  \E p \in Procs :
    \/ \E id \in ReqIds : \/ \E c \in Customers, key \in Keys, b \in Bodies :
                               BeginReserve(p, id, c, key, b)
                          \/ \E op \in Ending : Begin(p, op, id)
    \/ Statement(p)
    \/ Rollback(p)

TxSpec == TxInit /\ [][TxNext]_tvars

-----------------------------------------------------------------------------
\* The row whose lock p needs for its next statement.
Needs(p) ==
  LET t == tx[p] IN
  CASE t.next = "pool" -> PoolRow(Kind(p))
    [] t.next = "quota" -> QuotaRow(t.cust, Kind(p))
    [] t.next = "hold" -> HoldRow(t.id, Kind(p))
    [] t.next = "request" -> IF t.op = "reserve" THEN KeyRow(t.cust, t.key) ELSE RequestRow(t.id)

\* Its statement finds that row in the committed version: it waits for the lock.
Finds(p) ==
  LET t == tx[p] IN
  CASE t.next = "pool" /\ t.op = "reserve" ->
         Effective[Kind(p)] - committed.dedicated[Kind(p)] - committed.reserved[Kind(p)]
           >= Amounts(p)[Kind(p)]
    [] t.next = "pool" -> CoversCommitted(p)
    [] t.next = "quota" /\ t.op = "reserve" ->
         Limit[t.cust][Kind(p)] - committed.used[t.cust][Kind(p)] >= Amounts(p)[Kind(p)]
    [] t.next = "hold" -> committed.hold[t.id][Kind(p)] = "ACTIVE"
    [] t.next = "request" /\ t.op # "reserve" -> committed.request[t.id].status = "RESERVED"
    [] OTHER -> TRUE

WaitsFor(p, q) ==
  /\ tx[p] # None /\ tx[p].next \notin {"list", "commit"}
  /\ q # p /\ owner[Needs(p)] = q
  /\ Finds(p)

\* No set of transactions all wait for one another: pools are locked in the order
\* of their ids, and quota and hold of a kind only after its pool, so nothing
\* ever has to wait for deadlock_timeout.
NoDeadlock ==
  \A S \in (SUBSET Procs) \ {{}} : \E p \in S : \A q \in S : ~WaitsFor(p, q)

\* No pool and no quota is promised beyond its limit, in the versions still to be
\* committed as in the committed ones.
NeverOversold ==
  /\ \A k \in Kinds :
       /\ reserved[k] + dedicated[k] <= Effective[k]
       /\ committed.reserved[k] + committed.dedicated[k] <= Effective[k]
  /\ \A c \in Customers, k \in Kinds :
       used[c][k] <= Limit[c][k] /\ committed.used[c][k] <= Limit[c][k]

RowOf(r) == [status |-> r.status, cust |-> r.cust, key |-> r.key, body |-> r.body]
CommittedRows == [id \in ReqIds |-> RowOf(committed.request[id])]
LinesOf == [b \in Bodies |-> PlanKinds(b)]

Life == INSTANCE RequestLife WITH
  row <- CommittedRows, hold <- committed.hold, dedication <- committed.dedication,
  Lines <- LinesOf

\* What transactions commit, statement by statement and in any interleaving, is
\* still one whole reservation, confirmation, cancellation or expiry at a time.
TransactionsImplementRequestLife == Life!Spec
=============================================================================
