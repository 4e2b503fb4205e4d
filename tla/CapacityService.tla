-------------------------- MODULE CapacityService --------------------------
(***************************************************************************)
(* The capacity service (internal/service/capacity.go) over the Postgres   *)
(* tables of Repository, the Redis idempotency store and the sweeper lock. *)
(*                                                                         *)
(* A worker is a goroutine serving one HTTP call; a sweeper is the loop of *)
(* one sweeper instance.  Each carries the local variables of the call it  *)
(* is in.  Between two steps of a process any other process may run.       *)
(*                                                                         *)
(* What is one step: a read outside a transaction; the SELECT of the       *)
(* active holds that opens a confirm, cancel or expire transaction (READ   *)
(* COMMITTED takes no lock for it); the rest of that transaction, whose    *)
(* UPDATEs lock every row they touch until COMMIT; each autocommitted      *)
(* write of the calls that open no transaction.                            *)
(***************************************************************************)
EXTENDS Repository

CONSTANTS
  Workers,          \* goroutines of the HTTP server
  Sweepers,         \* sweeper instances
  TTL,              \* ReserveTTL
  MaxExtensions,    \* MaxExtensions
  Wall,             \* MaxReserveWallTime
  MaxActive,        \* MaxActiveHoldsPerCustomer, 0 when there is no cap
  IdemKey,          \* IdemKey[c][key]: what idemKey makes of the two strings
  RedisConfigured,  \* FALSE: the idempotency store is ports.NoopIdempotency
  Calls,            \* the calls clients make: "create", "confirm", ...
  Horizon,          \* bound: reservations are stamped up to this instant
  ExtendBound       \* bound: Extend starts with fewer "extended" events

ASSUME ProcAssumption == Workers \cap Sweepers = {}
ASSUME TimeAssumption == /\ TTL \in Nat \ {0} /\ MaxExtensions \in Nat
                         /\ Wall \in Nat /\ MaxActive \in Nat
                         /\ Horizon \in Nat /\ ExtendBound \in Nat
ASSUME NoSweeperAssumption == None \notin Workers \cup Sweepers

VARIABLES
  idem,      \* Redis: idem[r] is the request id stored under key r, or None
  answered,  \* the answers CreateRequest has returned
  lock,      \* holder of the advisory lock sweeperLockKey, or None
  clock,     \* ports.Clock
  pc,        \* pc[p]: the next step of process p
  loc,       \* loc[p]: the local variables of the call p is in
  batch      \* batch[s]: the ids ExpireDue of sweeper s has yet to visit

proc == <<pc, loc, batch>>
vars == <<db, idem, answered, lock, clock, proc>>

Procs == Workers \cup Sweepers

\* The clock stops once every reservation that can exist is past its expiry.
MaxTime == Horizon + (1 + MaxExtensions) * TTL + 1

\* "idempotency:%s:%s": two pairs share an entry when the strings hold colons.
idemKey(c, key) == IdemKey[c][key]
RedisKeys == {idemKey(c, key) : c \in Customers, key \in Keys}

Input == [cust : Customers, key : Keys, body : Bodies]
NoInput == [cust |-> None, key |-> None, body |-> None]
NoExtension == [exp |-> 0, count |-> 0]

\* in: CreateInput;  id: the request at hand;  now: the clock as read;
\* snap: the holds as read;  ext: the newExp and count Extend computed.
NoLocals == [in |-> NoInput, id |-> None, now |-> 0, snap |-> {},
             ext |-> NoExtension]

AdmitPC == {"limit", "plan", "reserve", "reject", "rejectReplay", "replay"}
CreatedPC == {"rejectDetail", "record"}
LifecyclePC == {"confirm", "confirmTx", "release", "releaseTx", "extend",
                "extendEvent"}
SweepPC == {"list", "sweep"}
PC == {"idle"} \cup AdmitPC \cup CreatedPC \cup LifecyclePC \cup SweepPC

Init ==
  /\ RepositoryInit
  /\ idem = [r \in RedisKeys |-> None]
  /\ answered = {}
  /\ lock = None
  /\ clock = 0
  /\ pc = [p \in Procs |-> "idle"]
  /\ loc = [p \in Procs |-> NoLocals]
  /\ batch = [s \in Sweepers |-> {}]

-----------------------------------------------------------------------------
(* Steps of a process. *)

At(p, label) == pc[p] = label
Goto(p, label) == pc' = [pc EXCEPT ![p] = label] /\ UNCHANGED <<loc, batch>>
GotoWith(p, label, id) == /\ pc' = [pc EXCEPT ![p] = label]
                          /\ loc' = [loc EXCEPT ![p].id = id]
                          /\ UNCHANGED batch
Return(p) == /\ pc' = [pc EXCEPT ![p] = "idle"]
             /\ loc' = [loc EXCEPT ![p] = NoLocals]

\* A worker is free to serve a call that clients make.
Serves(w, call) == At(w, "idle") /\ call \in Calls

IdemGet(c, key) == idem[idemKey(c, key)]

\* idem.Set: the error of a Redis that is down is dropped.
IdemSet(c, key, id) ==
  \/ RedisConfigured /\ idem' = [idem EXCEPT ![idemKey(c, key)] = id]
  \/ UNCHANGED idem

Answer(c, key, b, id) ==
  answered' = answered \cup {[cust |-> c, key |-> key, body |-> b, id |-> id]}

-----------------------------------------------------------------------------
(* CreateRequest. *)

\* Mutant: the stored body is not compared with the one of the call.
matchIdempotentBodyNever(id, b) == TRUE

\* The stored body_hash against the call's.  A row from before migration 000003
\* has none and matches any body (RequestPlan); every row here was created by
\* this program and has one.
matchIdempotentBody(id, b) == request[id].body = b

\* checkIdempotentReplay, answered through the id that Redis holds.
ReplayFromRedis(w, c, key, b) ==
  /\ Serves(w, "create")
  /\ IdemGet(c, key) # None
  /\ Exists(IdemGet(c, key))
  /\ matchIdempotentBody(IdemGet(c, key), b)
  /\ Answer(c, key, b, IdemGet(c, key))
  /\ UNCHANGED <<db, idem, lock, clock, proc>>

\* checkIdempotentReplay, answered from capacity_requests.
ReplayFromDB(w, c, key, b) ==
  /\ Serves(w, "create")
  /\ \E id \in FindByIdempotency(c, key) :
        /\ matchIdempotentBody(id, b)
        /\ IdemSet(c, key, id)
        /\ Answer(c, key, b, id)
  /\ UNCHANGED <<db, lock, clock, proc>>

\* checkIdempotentReplay finds nothing: the call is a new request.
CreateAdmit(w, c, key, b) ==
  /\ Serves(w, "create")
  /\ FindByIdempotency(c, key) = {}
  /\ pc' = [pc EXCEPT ![w] = "limit"]
  /\ loc' = [loc EXCEPT ![w].in = [cust |-> c, key |-> key, body |-> b]]
  /\ UNCHANGED <<db, idem, answered, lock, clock, batch>>

\* Mutant: n > limit.
enforceActiveHoldsLimitInclusive(w) ==
  /\ At(w, "limit")
  /\ MaxActive > 0 => CountActiveHoldsByCustomer(loc[w].in.cust) <= MaxActive
  /\ Goto(w, "plan")
  /\ UNCHANGED <<db, idem, answered, lock, clock>>

enforceActiveHoldsLimit(w) ==
  /\ At(w, "limit")
  /\ MaxActive > 0 => CountActiveHoldsByCustomer(loc[w].in.cust) < MaxActive
  /\ Goto(w, "plan")
  /\ UNCHANGED <<db, idem, answered, lock, clock>>

\* The plan reads only rows the program never writes; then the clock is read.
buildReservationPlan(w) ==
  /\ At(w, "plan")
  /\ clock <= Horizon
  /\ pc' = [pc EXCEPT ![w] = "reserve"]
  /\ loc' = [loc EXCEPT ![w].now = clock]
  /\ UNCHANGED <<db, idem, answered, lock, clock, batch>>

Fits(in) == PoolsFit(Plan[in.body]) /\ QuotaFits(in.cust, Plan[in.body])

Duplicates(in) == FindByIdempotency(in.cust, in.key)

\* reserveWithinTx commits.
reserveWithinTx(w, id) ==
  LET in == loc[w].in  now == loc[w].now IN
  /\ At(w, "reserve")
  /\ Fits(loc[w].in)
  /\ Duplicates(loc[w].in) = {} /\ ~Exists(id)
  /\ TryReserve(Plan[in.body])
  /\ EnsureAndTryConsume(in.cust, Plan[in.body])
  /\ CreateReserved(id, in.cust, in.key, in.body, now, now + TTL)
  /\ GotoWith(w, "record", id)
  /\ UNCHANGED <<dedicated, dedication, idem, answered, lock, clock>>

\* Its INSERT meets the unique index on (customer_id, idempotency_key).
ReserveDuplicate(w) ==
  /\ At(w, "reserve")
  /\ Fits(loc[w].in)
  /\ Duplicates(loc[w].in) # {}
  /\ Goto(w, "replay")
  /\ UNCHANGED <<db, idem, answered, lock, clock>>

\* errRejected: a pool or the quota falls short and everything rolls back.
ReserveReject(w) ==
  /\ At(w, "reserve")
  /\ ~Fits(loc[w].in)
  /\ Goto(w, "reject")
  /\ UNCHANGED <<db, idem, answered, lock, clock>>

\* persistRejected runs in no transaction: first the row ...
persistRejected(w, id) ==
  LET in == loc[w].in IN
  /\ At(w, "reject")
  /\ Duplicates(loc[w].in) = {} /\ ~Exists(id)
  /\ InsertRejected(id, in.cust, in.key, in.body, loc[w].now)
  /\ GotoWith(w, "rejectDetail", id)
  /\ UNCHANGED <<reserved, dedicated, used, hold, dedication, event,
                 idem, answered, lock, clock>>

\* ... then its lines and the event.
PersistRejectedDetail(w) ==
  /\ At(w, "rejectDetail")
  /\ insertEvent(loc[w].id, "rejected")
  /\ Goto(w, "record")
  /\ UNCHANGED <<reserved, dedicated, used, request, hold, dedication,
                 idem, answered, lock, clock>>

PersistRejectedDuplicate(w) ==
  /\ At(w, "reject")
  /\ Duplicates(loc[w].in) # {}
  /\ Goto(w, "rejectReplay")
  /\ UNCHANGED <<db, idem, answered, lock, clock>>

\* replayAfterDuplicate, whose answer CreateRequest returns as it is ...
replayAfterDuplicate(w) ==
  /\ At(w, "replay")
  /\ \E id \in Duplicates(loc[w].in) :
        /\ matchIdempotentBody(id, loc[w].in.body)
        /\ Answer(loc[w].in.cust, loc[w].in.key, loc[w].in.body, id)
  /\ Return(w)
  /\ UNCHANGED <<db, idem, lock, clock, batch>>

\* ... or, called from persistRejected, hands to recordOutcome.
RejectedReplay(w) ==
  /\ At(w, "rejectReplay")
  /\ \E id \in Duplicates(loc[w].in) :
        /\ matchIdempotentBody(id, loc[w].in.body)
        /\ GotoWith(w, "record", id)
  /\ UNCHANGED <<db, idem, answered, lock, clock>>

recordOutcome(w) ==
  LET in == loc[w].in IN
  /\ At(w, "record")
  /\ IdemSet(in.cust, in.key, loc[w].id)
  /\ Answer(in.cust, in.key, in.body, loc[w].id)
  /\ Return(w)
  /\ UNCHANGED <<db, lock, clock, batch>>

-----------------------------------------------------------------------------
(* Confirm, Cancel, Extend. *)

ConfirmGet(w, id) ==
  /\ Serves(w, "confirm")
  /\ request[id].status = "RESERVED"
  /\ request[id].exp > clock
  /\ GotoWith(w, "confirm", id)
  /\ UNCHANGED <<db, idem, answered, lock, clock>>

\* Cancel looks at the status only: a reservation past its expiry qualifies.
CancelGet(w, id) ==
  /\ Serves(w, "cancel")
  /\ request[id].status = "RESERVED"
  /\ GotoWith(w, "release", id)
  /\ UNCHANGED <<db, idem, answered, lock, clock>>

\* The transaction opens and reads the active holds, without locking them.
\* The lines releaseReserved also reads never change.
ListHolds(p) ==
  /\ pc[p] \in {"confirm", "release"}
  /\ pc' = [pc EXCEPT ![p] = IF pc[p] = "confirm" THEN "confirmTx" ELSE "releaseTx"]
  /\ loc' = [loc EXCEPT ![p].snap = ListActiveHolds(loc[p].id)]
  /\ UNCHANGED <<db, idem, answered, lock, clock, batch>>

\* Mutant: a hold that already moved is not an error.
ConfirmCommitUnchecked(w) ==
  LET id == loc[w].id  S == loc[w].snap IN
  /\ At(w, "confirmTx")
  /\ MoveReservedToDedicated(PlanOf(id), S)
  /\ UpdateHoldStatus(id, S, "DEDICATED")
  /\ SetStatus(id, "COMPLETED")
  /\ InsertDedications(id, S)
  /\ insertEvent(id, "confirmed")
  /\ Return(w)
  /\ UNCHANGED <<used, idem, answered, lock, clock, batch>>

\* The transaction commits only if every hold it read was still ACTIVE and the
\* row still RESERVED; otherwise Confirm returns a conflict (ReturnError).
ConfirmCommit(w) ==
  LET id == loc[w].id  S == loc[w].snap IN
  /\ At(w, "confirmTx")
  /\ S \subseteq ListActiveHolds(id)
  /\ request[id].status = "RESERVED"
  /\ MoveReservedToDedicated(PlanOf(id), S)
  /\ UpdateHoldStatus(id, S, "DEDICATED")
  /\ SetStatus(id, "COMPLETED")
  /\ InsertDedications(id, S)
  /\ insertEvent(id, "confirmed")
  /\ Return(w)
  /\ UNCHANGED <<used, idem, answered, lock, clock, batch>>

\* releaseReserved after its reads.  It releases the pool and the quota for
\* every hold it read, whether or not UpdateHoldStatus and markTerminal find
\* something to update: both results are dropped.
releaseReserved(p) ==
  LET id == loc[p].id  S == loc[p].snap  expire == p \in Sweepers IN
  /\ At(p, "releaseTx")
  /\ ReleaseReserved(PlanOf(id), S)
  /\ ReleaseQuota(request[id].cust, PlanOf(id), S)
  /\ UpdateHoldStatus(id, S, IF expire THEN "EXPIRED" ELSE "RELEASED")
  /\ markTerminal(id, IF expire THEN "EXPIRED" ELSE "CANCELLED",
                      IF expire THEN "expired" ELSE "cancelled")
  /\ pc' = [pc EXCEPT ![p] = IF expire THEN "sweep" ELSE "idle"]
  /\ loc' = [loc EXCEPT ![p] = NoLocals]
  /\ UNCHANGED <<dedicated, dedication, idem, answered, lock, clock, batch>>

\* The new expiry and the new count are computed from the row read here.
ExtendGet(w, id) ==
  LET newExp == request[id].exp + TTL IN
  /\ Serves(w, "extend")
  /\ event[id]["extended"] < ExtendBound
  /\ request[id].status = "RESERVED"
  /\ request[id].exp > clock
  /\ request[id].ext < MaxExtensions
  /\ request[id].created + Wall >= newExp
  /\ pc' = [pc EXCEPT ![w] = "extend"]
  /\ loc' = [loc EXCEPT ![w] =
       [in |-> NoInput, id |-> id, now |-> 0, snap |-> {},
        ext |-> [exp |-> newExp, count |-> request[id].ext + 1]]]
  /\ UNCHANGED <<db, idem, answered, lock, clock, batch>>

\* Extend opens no transaction: the UPDATE and the event commit separately.
ExtendUpdate(w) ==
  LET id == loc[w].id IN
  /\ At(w, "extend")
  /\ request[id].status = "RESERVED"
  /\ ExtendRow(id, loc[w].ext.exp, loc[w].ext.count)
  /\ Goto(w, "extendEvent")
  /\ UNCHANGED <<reserved, dedicated, used, hold, dedication, event,
                 idem, answered, lock, clock>>

ExtendEvent(w) ==
  /\ At(w, "extendEvent")
  /\ insertEvent(loc[w].id, "extended")
  /\ Return(w)
  /\ UNCHANGED <<reserved, dedicated, used, request, hold, dedication,
                 idem, answered, lock, clock, batch>>

\* Every other way out of a call: the cap on active holds is reached, the body
\* differs, the transaction lost its race or met an error and rolled back, the
\* client went away, the server died.  What has been committed stays.
ReturnError(w) ==
  /\ ~At(w, "idle")
  /\ Return(w)
  /\ UNCHANGED <<db, idem, answered, lock, clock, batch>>

-----------------------------------------------------------------------------
(* ExpireDue, run by every sweeper instance on its ticker. *)

\* pg_try_advisory_lock on a connection of its own, and its release.  How the
\* connections behave is in SweeperLock.
TryLock(s) == lock = None /\ lock' = s
Unlock(s) == lock' = IF lock = s THEN None ELSE lock

SweepLock(s) ==
  /\ At(s, "idle")
  /\ TryLock(s)
  /\ pc' = [pc EXCEPT ![s] = "list"]
  /\ loc' = [loc EXCEPT ![s].now = clock]
  /\ UNCHANGED <<db, idem, answered, clock, batch>>

SweepList(s) ==
  /\ At(s, "list")
  /\ \E ids \in ListExpiredIDs(loc[s].now) : batch' = [batch EXCEPT ![s] = ids]
  /\ pc' = [pc EXCEPT ![s] = "sweep"]
  /\ loc' = [loc EXCEPT ![s] = NoLocals]
  /\ UNCHANGED <<db, idem, answered, lock, clock>>

\* The batch is walked in the order of expires_at; here in any order.  The row
\* is fetched again, but neither its status nor its expiry is looked at.
SweepNext(s, id) ==
  /\ At(s, "sweep")
  /\ id \in batch[s]
  /\ batch' = [batch EXCEPT ![s] = batch[s] \ {id}]
  /\ pc' = [pc EXCEPT ![s] = "release"]
  /\ loc' = [loc EXCEPT ![s].id = id]
  /\ UNCHANGED <<db, idem, answered, lock, clock>>

\* Fetching or releasing one request failed: the loop goes on with the next.
SweepFail(s) ==
  /\ pc[s] \in {"release", "releaseTx"}
  /\ pc' = [pc EXCEPT ![s] = "sweep"]
  /\ loc' = [loc EXCEPT ![s] = NoLocals]
  /\ UNCHANGED <<db, idem, answered, lock, clock, batch>>

\* Mutant: the deferred Unlock is missing.
SweepEndKeepsLock(s) ==
  /\ At(s, "sweep")
  /\ batch[s] = {}
  /\ Return(s)
  /\ UNCHANGED <<db, idem, answered, lock, clock, batch>>

SweepEnd(s) ==
  /\ At(s, "sweep")
  /\ batch[s] = {}
  /\ Unlock(s)
  /\ Return(s)
  /\ UNCHANGED <<db, idem, answered, clock, batch>>

\* The list failed, or the process died: its session ends and frees the lock.
SweepCrash(s) ==
  /\ ~At(s, "idle")
  /\ Unlock(s)
  /\ Return(s)
  /\ batch' = [batch EXCEPT ![s] = {}]
  /\ UNCHANGED <<db, idem, answered, clock>>

\* The session that holds the lock ends under the sweep, which goes on.
SweepSessionLost(s) ==
  /\ ~At(s, "idle")
  /\ lock = s
  /\ lock' = None
  /\ UNCHANGED <<db, idem, answered, clock, proc>>

-----------------------------------------------------------------------------
(* The environment. *)

\* The Redis entry's TTL (twice ReserveTTL) ran out, or Redis lost it.
RedisForget(r) ==
  /\ idem[r] # None
  /\ idem' = [idem EXCEPT ![r] = None]
  /\ UNCHANGED <<db, answered, lock, clock, proc>>

Tick ==
  /\ clock < MaxTime
  /\ clock' = clock + 1
  /\ UNCHANGED <<db, idem, answered, lock, proc>>

Create(w) ==
  \/ \E c \in Customers, key \in Keys, b \in Bodies :
        \/ ReplayFromRedis(w, c, key, b)
        \/ ReplayFromDB(w, c, key, b)
        \/ CreateAdmit(w, c, key, b)
  \/ enforceActiveHoldsLimit(w)
  \/ buildReservationPlan(w)
  \/ \E id \in ReqIds : reserveWithinTx(w, id) \/ persistRejected(w, id)
  \/ ReserveDuplicate(w)
  \/ ReserveReject(w)
  \/ PersistRejectedDetail(w)
  \/ PersistRejectedDuplicate(w)
  \/ replayAfterDuplicate(w)
  \/ RejectedReplay(w)
  \/ recordOutcome(w)

Lifecycle(w) ==
  \/ \E id \in ReqIds : ConfirmGet(w, id) \/ CancelGet(w, id) \/ ExtendGet(w, id)
  \/ ListHolds(w)
  \/ ConfirmCommit(w)
  \/ releaseReserved(w)
  \/ ExtendUpdate(w)
  \/ ExtendEvent(w)

ExpireDue(s) ==
  \/ SweepLock(s)
  \/ SweepList(s)
  \/ \E id \in ReqIds : SweepNext(s, id)
  \/ ListHolds(s)
  \/ releaseReserved(s)
  \/ SweepFail(s)
  \/ SweepEnd(s)
  \/ SweepCrash(s)
  \/ SweepSessionLost(s)

Next ==
  \/ \E w \in Workers : Create(w) \/ Lifecycle(w) \/ ReturnError(w)
  \/ \E s \in Sweepers : ExpireDue(s)
  \/ \E r \in RedisKeys : RedisForget(r)
  \/ Tick

Spec == Init /\ [][Next]_vars

\* Time passes, the ticker keeps calling ExpireDue, and a sweep that can
\* proceed again and again (crashes and failures in between) sometimes does.
Fairness ==
  /\ WF_vars(Tick)
  /\ WF_vars(\E s \in Sweepers : SweepLock(s))
  /\ \A s \in Sweepers : /\ SF_vars(SweepList(s))
                         /\ SF_vars(\E id \in ReqIds : SweepNext(s, id))
                         /\ SF_vars(ListHolds(s))
                         /\ SF_vars(releaseReserved(s))
                         /\ WF_vars(SweepEnd(s))

FairSpec == Spec /\ Fairness

\* At most one process is in a call on a request, or expiring it.  The code does
\* not see to it: it is a hypothesis about who calls when.
NoOverlap ==
  \A p, q \in Procs :
    pc[p] \in LifecyclePC /\ pc[q] \in LifecyclePC /\ loc[p].id = loc[q].id => p = q

\* The behaviours in which no two calls on one request overlap.
ExclusiveSpec == Init /\ [][Next /\ NoOverlap']_vars

-----------------------------------------------------------------------------
(* What the service promises. *)

Locals == [in : Input \cup {NoInput}, id : ReqIds \cup {None}, now : Nat,
           snap : SUBSET Kinds, ext : [exp : Nat, count : Nat]]

\* The locals a call has set by the time its next step reads them.
LocalsOK(p) ==
  /\ pc[p] \in AdmitPC \cup CreatedPC => loc[p].in \in Input
  /\ pc[p] \in CreatedPC \cup LifecyclePC => loc[p].id \in ReqIds /\ Exists(loc[p].id)

\* Every counter column stays a natural number (the CHECKs of the migration),
\* every row is complete, and no step reads a local its call has not set or a
\* row that does not exist.
TypeOK ==
  /\ RepositoryTypeOK
  /\ idem \in [RedisKeys -> ReqIds \cup {None}]
  /\ answered \subseteq [cust : Customers, key : Keys, body : Bodies, id : ReqIds]
  /\ lock \in Sweepers \cup {None}
  /\ clock \in Nat
  /\ pc \in [Procs -> PC]
  /\ loc \in [Procs -> Locals]
  /\ batch \in [Sweepers -> SUBSET ReqIds]
  /\ \A p \in Procs : LocalsOK(p)
  /\ \A s \in Sweepers : \A id \in batch[s] : Exists(id)

\* No pool's counters promise more than its effective capacity and no quota
\* counter passes its limit, however creates, confirms, cancels and sweeps
\* interleave: the conditional UPDATEs of TryReserve and TryConsume.
CapacityNeverOversold ==
  /\ \A k \in Kinds : reserved[k] + dedicated[k] <= Effective[k]
  /\ \A c \in Customers, k \in Kinds : used[c][k] <= Limit[c][k]

HoldStatusOf == [RESERVED |-> "ACTIVE", COMPLETED |-> "DEDICATED",
                 CANCELLED |-> "RELEASED", EXPIRED |-> "EXPIRED"]

\* The holds of a request are where its status says, one dedication exists for
\* each dedicated hold and for no other, and a rejected request holds nothing,
\* although confirm, cancel and sweeper decide from holds they read unlocked.
HoldsFollowRequest ==
  \A id \in ReqIds, k \in Kinds :
    /\ hold[id][k] =
         IF request[id].status \in DOMAIN HoldStatusOf /\ k \in PlanKinds(request[id].body)
         THEN HoldStatusOf[request[id].status] ELSE "NONE"
    /\ dedication[id][k] = IF hold[id][k] = "DEDICATED" THEN 1 ELSE 0

EventOf == [COMPLETED |-> "confirmed", CANCELLED |-> "cancelled",
            EXPIRED |-> "expired"]

\* The transitions that calls compete for are audited with their transaction: a
\* request has its reserved event exactly once if it ever reserved, exactly one
\* event for being confirmed, cancelled or expired if it was, and none for an
\* end it lost the race to.  A rejection is audited at most once and nothing
\* else is audited as one; CreateRejected inserts its event after its row and
\* in no transaction, so the row of a rejection may be left without it.  Events
\* of extensions are not counted here: Extend writes them apart from its UPDATE.
AuditFollowsRequest ==
  \A id \in ReqIds :
    /\ event[id]["reserved"] = IF request[id].status \in DOMAIN HoldStatusOf THEN 1 ELSE 0
    /\ \A s \in DOMAIN EventOf :
         event[id][EventOf[s]] = IF request[id].status = s THEN 1 ELSE 0
    /\ event[id]["rejected"] <= IF request[id].status = "REJECTED" THEN 1 ELSE 0

\* One request per customer and idempotency key, whichever of Redis, the read
\* before the transaction or the unique index notices the repeat; every answer
\* given for a key names that customer's request for it and was given for the
\* body it stores.
OneRequestPerKey ==
  /\ \A i, j \in ReqIds :
       Exists(i) /\ Exists(j) /\ request[i].cust = request[j].cust
         /\ request[i].key = request[j].key => i = j
  /\ \A a \in answered : /\ request[a.id].cust = a.cust
                         /\ request[a.id].key = a.key
                         /\ request[a.id].body = a.body

\* expires_at and extension_count never drift apart, the count stays within
\* MaxExtensions and an extended expiry within MaxReserveWallTime, although two
\* Extends of the same request may both write what they computed earlier.
ExpiryFollowsExtensions ==
  \A id \in ReqIds :
    request[id].status \in DOMAIN HoldStatusOf =>
      /\ request[id].exp = request[id].created + (1 + request[id].ext) * TTL
      /\ request[id].ext <= MaxExtensions
      /\ request[id].ext > 0 => request[id].exp <= request[id].created + Wall

\* No request is expired before a whole TTL has passed since its creation.
ExpiredWasDue ==
  \A id \in ReqIds :
    request[id].status = "EXPIRED" => request[id].created + TTL < clock

\* The cap is checked before the transaction, so workers that pass it together
\* overshoot it; by no more than one reservation per other worker.
ActiveHoldsOvershootBounded ==
  MaxActive > 0 => \A c \in Customers :
    CountActiveHoldsByCustomer(c) <= MaxActive + Cardinality(Workers) - 1

Transitions == {<<"NONE", "RESERVED">>, <<"NONE", "REJECTED">>,
                <<"RESERVED", "COMPLETED">>, <<"RESERVED", "CANCELLED">>,
                <<"RESERVED", "EXPIRED">>}

\* A request only makes the transitions of ValidateTransition, a terminal one
\* never changes again, and no step rewrites whose request it is or for what.
TerminalIsFinal ==
  [][\A id \in ReqIds :
       /\ request'[id].status # request[id].status =>
            <<request[id].status, request'[id].status>> \in Transitions
       /\ request[id].status \in RequestStatus \ {"RESERVED"} =>
            request'[id] = request[id]
       /\ Exists(id) => /\ request'[id].cust = request[id].cust
                        /\ request'[id].key = request[id].key
                        /\ request'[id].body = request[id].body
                        /\ request'[id].created = request[id].created]_vars

\* Every reservation ends: confirmed, cancelled or picked up by a sweeper,
\* whatever sweeps crash or fail in between.
ReservationsEnd ==
  \A id \in ReqIds :
    request[id].status = "RESERVED" ~> request[id].status # "RESERVED"

-----------------------------------------------------------------------------
\* An Extend never shortens a reservation.
ExpiryNeverMovesBack ==
  [][\A id \in ReqIds : Exists(id) => request'[id].exp >= request[id].exp]_vars

=============================================================================
