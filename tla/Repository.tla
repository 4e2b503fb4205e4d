----------------------------- MODULE Repository -----------------------------
(***************************************************************************)
(* The Postgres adapter (internal/repository/postgres) and the tables of   *)
(* migrations/: the committed rows, and each SQL statement the service     *)
(* issues as an operator on them.                                          *)
(*                                                                         *)
(* A resource kind names its pool (resource_pools.kind is UNIQUE).  A body *)
(* names a validated create request; Plan gives the amount it asks of each *)
(* kind, 0 for the kinds it leaves out.  The request_lines, holds and      *)
(* dedications of a request all carry the amounts of its plan, so they     *)
(* need no amount column here.                                             *)
(*                                                                         *)
(* total and oversubscribe_factor are never written by the program:        *)
(* Effective is FLOOR(total * oversubscribe_factor).  A customer without a *)
(* customer_quotas row behaves as one with the default limit and nothing   *)
(* used, so Limit is total and row creation needs no state.                *)
(***************************************************************************)
EXTENDS Integers, FiniteSets

CONSTANTS
  ReqIds,      \* identifiers uuid.New() may hand out
  Customers,   \* customer_id
  Keys,        \* idempotency_key
  Bodies,      \* create requests that passed validation, up to body_hash
  Kinds,       \* resource kinds
  Plan,        \* Plan[b][k]: amount of kind k the body b resolves to
  Effective,   \* Effective[k]: capacity of the pool of kind k
  Limit,       \* Limit[c][k]: quota of customer c
  BatchSize,   \* expireBatchSize
  None         \* NULL

ASSUME PlanAssumption == Plan \in [Bodies -> [Kinds -> Nat]]
ASSUME EffectiveAssumption == Effective \in [Kinds -> Nat]
ASSUME LimitAssumption == Limit \in [Customers -> [Kinds -> Nat]]
ASSUME BatchAssumption == BatchSize \in Nat \ {0}
ASSUME NoneAssumption == None \notin ReqIds

VARIABLES
  reserved,    \* resource_pools.reserved_amount
  dedicated,   \* resource_pools.dedicated_amount
  used,        \* customer_quotas.used_amount
  request,     \* capacity_requests
  hold,        \* holds: hold[id][k] is the status of the hold on pool k
  dedication,  \* dedications: how many rows point at hold <<id, k>>
  event        \* request_events: how many rows of each type

db == <<reserved, dedicated, used, request, hold, dedication, event>>

RequestStatus == {"RESERVED", "REJECTED", "COMPLETED", "CANCELLED", "EXPIRED"}
HoldStatus == {"ACTIVE", "RELEASED", "DEDICATED", "EXPIRED"}
\* "created" is declared but never written.
EventType == {"reserved", "rejected", "confirmed", "cancelled", "expired",
              "extended"}

\* NoRow stands for an id without a row.  expires_at is 0 where it is NULL.
NoRow == [status |-> "NONE", cust |-> None, key |-> None, body |-> None,
          created |-> 0, exp |-> 0, ext |-> 0]

Row == [status : RequestStatus, cust : Customers, key : Keys, body : Bodies,
        created : Nat, exp : Nat, ext : Nat]

RepositoryTypeOK ==
  /\ reserved \in [Kinds -> Nat]
  /\ dedicated \in [Kinds -> Nat]
  /\ used \in [Customers -> [Kinds -> Nat]]
  /\ request \in [ReqIds -> Row \cup {NoRow}]
  /\ hold \in [ReqIds -> [Kinds -> HoldStatus \cup {"NONE"}]]
  /\ dedication \in [ReqIds -> [Kinds -> Nat]]
  /\ event \in [ReqIds -> [EventType -> Nat]]

RepositoryInit ==
  /\ reserved = [k \in Kinds |-> 0]
  /\ dedicated = [k \in Kinds |-> 0]
  /\ used = [c \in Customers |-> [k \in Kinds |-> 0]]
  /\ request = [id \in ReqIds |-> NoRow]
  /\ hold = [id \in ReqIds |-> [k \in Kinds |-> "NONE"]]
  /\ dedication = [id \in ReqIds |-> [k \in Kinds |-> 0]]
  /\ event = [id \in ReqIds |-> [t \in EventType |-> 0]]

\* Get finds a row.  No row is ever deleted.
Exists(id) == request[id].status # "NONE"
PlanKinds(b) == {k \in Kinds : Plan[b][k] > 0}
PlanOf(id) == Plan[request[id].body]

-----------------------------------------------------------------------------
(* Reads.  Each sees committed rows. *)

FindByIdempotency(c, key) ==
  {id \in ReqIds : Exists(id) /\ request[id].cust = c /\ request[id].key = key}

\* Mutant: the SELECT without AND status = 'ACTIVE'.
ListActiveHoldsAnyStatus(id) == {k \in Kinds : hold[id][k] # "NONE"}

ListActiveHolds(id) == {k \in Kinds : hold[id][k] = "ACTIVE"}

CountActiveHoldsByCustomer(c) ==
  Cardinality({id \in ReqIds : /\ request[id].cust = c
                               /\ request[id].status = "RESERVED"
                               /\ ListActiveHolds(id) # {}})

\* Mutant: lists a request at the instant it expires.
DueEarly(now) ==
  {id \in ReqIds : request[id].status = "RESERVED" /\ request[id].exp <= now}

\* expires_at < now: at the very instant of expiry nothing is listed yet.
Due(now) ==
  {id \in ReqIds : request[id].status = "RESERVED" /\ request[id].exp < now}

\* The batches ORDER BY expires_at LIMIT BatchSize may return: rows with equal
\* expires_at come in any order.
ListExpiredIDs(now) ==
  {S \in SUBSET Due(now) :
     /\ Cardinality(S) <= BatchSize
     /\ Cardinality(S) < BatchSize => S = Due(now)
     /\ \A i \in S, j \in Due(now) \ S : request[i].exp <= request[j].exp}

-----------------------------------------------------------------------------
(* Pools.  One conditional UPDATE per line; the lines of a plan are on      *)
(* different rows, so a transaction's updates are pointwise.                *)

\* Mutant: reads "how much is reserved" and forgets what is dedicated.
AvailableIgnoringDedicated(k) == Effective[k] - reserved[k]

Available(k) == Effective[k] - dedicated[k] - reserved[k]

\* TryReserve finds a row to update for every line of the plan.
PoolsFit(a) == \A k \in Kinds : a[k] > 0 => Available(k) >= a[k]

TryReserve(a) == reserved' = [k \in Kinds |-> reserved[k] + a[k]]

\* Mutant: the UPDATE without its "reserved_amount >= $2".
ReleaseReservedUnguarded(a, S) ==
  reserved' = [k \in Kinds |-> IF k \in S THEN reserved[k] - a[k] ELSE reserved[k]]

\* WHERE reserved_amount >= $2: no row, and no error, when it is smaller.
ReleaseReserved(a, S) ==
  reserved' = [k \in Kinds |-> IF k \in S /\ reserved[k] >= a[k]
                               THEN reserved[k] - a[k] ELSE reserved[k]]

\* Mutant: the UPDATE sets dedicated_amount only.
MoveReservedToDedicatedKeepingReserved(a, S) ==
  /\ dedicated' = [k \in Kinds |-> IF k \in S /\ reserved[k] >= a[k]
                                   THEN dedicated[k] + a[k] ELSE dedicated[k]]
  /\ UNCHANGED reserved

MoveReservedToDedicated(a, S) ==
  LET moved == {k \in S : reserved[k] >= a[k]}
  IN /\ reserved' = [k \in Kinds |-> IF k \in moved THEN reserved[k] - a[k]
                                                    ELSE reserved[k]]
     /\ dedicated' = [k \in Kinds |-> IF k \in moved THEN dedicated[k] + a[k]
                                                     ELSE dedicated[k]]

-----------------------------------------------------------------------------
(* Quotas. *)

QuotaFits(c, a) == \A k \in Kinds : a[k] > 0 => Limit[c][k] - used[c][k] >= a[k]

EnsureAndTryConsume(c, a) ==
  used' = [used EXCEPT ![c] = [k \in Kinds |-> used[c][k] + a[k]]]

\* Mutant: guarded as the pools' UPDATE is, WHERE used_amount >= $3.
ReleaseQuotaGuarded(c, a, S) ==
  used' = [used EXCEPT ![c] =
             [k \in Kinds |-> IF k \in S /\ used[c][k] >= a[k]
                              THEN used[c][k] - a[k] ELSE used[c][k]]]

\* GREATEST(used_amount - $3, 0)
ReleaseQuota(c, a, S) ==
  used' = [used EXCEPT ![c] =
             [k \in Kinds |-> IF k \notin S THEN used[c][k]
                              ELSE IF used[c][k] >= a[k] THEN used[c][k] - a[k]
                              ELSE 0]]

-----------------------------------------------------------------------------
(* Requests. *)

insertEvent(id, t) == event' = [event EXCEPT ![id][t] = @ + 1]

CreateReserved(id, c, key, b, now, exp) ==
  /\ request' = [request EXCEPT ![id] =
       [status |-> "RESERVED", cust |-> c, key |-> key, body |-> b,
        created |-> now, exp |-> exp, ext |-> 0]]
  /\ hold' = [hold EXCEPT ![id] =
       [k \in Kinds |-> IF k \in PlanKinds(b) THEN "ACTIVE" ELSE "NONE"]]
  /\ insertEvent(id, "reserved")

\* The first of CreateRejected's statements; the lines and the event follow.
InsertRejected(id, c, key, b, now) ==
  request' = [request EXCEPT ![id] =
       [status |-> "REJECTED", cust |-> c, key |-> key, body |-> b,
        created |-> now, exp |-> 0, ext |-> 0]]

\* WHERE id = $1 AND status = 'ACTIVE', for the holds on the pools S.
UpdateHoldStatus(id, S, to) ==
  hold' = [hold EXCEPT ![id] =
    [k \in Kinds |-> IF k \in S /\ hold[id][k] = "ACTIVE" THEN to ELSE hold[id][k]]]

InsertDedications(id, S) ==
  dedication' = [dedication EXCEPT ![id] =
    [k \in Kinds |-> IF k \in S THEN dedication[id][k] + 1 ELSE dedication[id][k]]]

SetStatus(id, s) == request' = [request EXCEPT ![id].status = s]

\* Mutant: the UPDATE without AND status = 'RESERVED'.
markTerminalUnguarded(id, s, t) == SetStatus(id, s) /\ insertEvent(id, t)

\* Mutant: the event is written whether or not a row was updated.
markTerminalAlwaysAudits(id, s, t) ==
  /\ IF request[id].status = "RESERVED" THEN SetStatus(id, s)
                                        ELSE UNCHANGED request
  /\ insertEvent(id, t)

\* No row, no event and no error when another transition came first.
markTerminal(id, s, t) ==
  IF request[id].status = "RESERVED"
  THEN SetStatus(id, s) /\ insertEvent(id, t)
  ELSE UNCHANGED <<request, event>>

\* Mutant: the statement counts from the row, not from what Extend read.
ExtendRowIncrementing(id, exp, ext) ==
  request' = [request EXCEPT ![id].exp = exp, ![id].ext = @ + 1]

\* Extend's UPDATE, when it finds the row still RESERVED.
ExtendRow(id, exp, ext) ==
  LET r == request[id] IN
  request' = [request EXCEPT ![id] =
       [status |-> r.status, cust |-> r.cust, key |-> r.key, body |-> r.body,
        created |-> r.created, exp |-> exp, ext |-> ext]]

=============================================================================
