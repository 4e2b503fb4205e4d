--------------------------- MODULE CapacityCache ---------------------------
(***************************************************************************)
(* The Redis cache of GET /v1/capacity: ListCapacity fills it, the writers *)
(* of internal/service/capacity.go invalidate it after their commit, Redis *)
(* may fail at any call without anyone noticing (DegradingCache), and an   *)
(* entry lives for CapacityCacheTTL.                                       *)
(*                                                                         *)
(* What a view shows is abstracted to stale: how many ticks ago the first  *)
(* commit it does not include was, None if it lacks none.  What the        *)
(* commits write is in CapacityService.  A ListCapacity call lasts at most *)
(* Lag ticks after its first read.                                         *)
(***************************************************************************)
EXTENDS Integers, Sequences

CONSTANTS
  Customers,   \* customer_id; a customer also names its cache key "cust:<id>"
  Readers,     \* goroutines in ListCapacity
  Writers,     \* goroutines in CreateRequest, Confirm, Cancel, and sweepers
  CacheTTL,    \* CapacityCacheTTL
  Lag,         \* bound: ticks a ListCapacity call lasts after its first read
  None

ASSUME CacheAssumption == CacheTTL \in Nat \ {0} /\ Lag \in Nat

VARIABLES
  cache,    \* cache[key]: the entry under "capacity:<key>", or None
  reader,   \* reader[r]: the call in progress and its view, or None
  writer    \* writer[w]: the keys it has yet to invalidate, after "sweep" while its
            \* sweep goes on, or None

vars == <<cache, reader, writer>>

CacheKeys == {"all"} \cup Customers

\* cacheKey of ListCapacity.
cacheKey(c) == IF c = None THEN "all" ELSE c

Init ==
  /\ cache = [key \in CacheKeys |-> None]
  /\ reader = [r \in Readers |-> None]
  /\ writer = [w \in Writers |-> None]

-----------------------------------------------------------------------------
(* ListCapacity.  A hit changes nothing: it answers with the entry.  A call  *)
(* begins with a miss, or with an error that DegradingCache turns into one.  *)

\* pools.List, the first read: from here on the view may lack commits.
PoolsList(r, c) ==
  /\ reader[r] = None
  /\ reader' = [reader EXCEPT ![r] =
       [key |-> cacheKey(c), age |-> 0, stale |-> None,
        next |-> IF c = None THEN "set" ELSE "quotas"]]
  /\ UNCHANGED <<cache, writer>>

\* quotas.ListByCustomer, a statement of its own.
QuotasList(r) ==
  /\ reader[r] # None /\ reader[r].next = "quotas"
  /\ reader' = [reader EXCEPT ![r].next = "set"]
  /\ UNCHANGED <<cache, writer>>

QuotasListFails(r) ==
  /\ reader[r] # None /\ reader[r].next = "quotas"
  /\ reader' = [reader EXCEPT ![r] = None]
  /\ UNCHANGED <<cache, writer>>

Return(r) ==
  /\ reader[r] # None /\ reader[r].next = "set"
  /\ reader' = [reader EXCEPT ![r] = None]
  /\ UNCHANGED writer

\* Mutant: stored for twice the lifetime, as an idempotency entry is.
SetCapacityTwiceTTL(r) ==
  /\ Return(r)
  /\ cache' = [cache EXCEPT ![reader[r].key] =
                 [left |-> 2 * CacheTTL, stale |-> reader[r].stale]]

\* Mutant: stored with a ttl of 0.
SetCapacityForGood(r) ==
  /\ Return(r)
  /\ cache' = [cache EXCEPT ![reader[r].key] =
                 [left |-> 0, stale |-> reader[r].stale]]

\* The view is stored whatever happened to its key since it was read ...
SetCapacity(r) ==
  /\ Return(r)
  /\ cache' = [cache EXCEPT ![reader[r].key] =
                 [left |-> CacheTTL, stale |-> reader[r].stale]]

\* ... unless Redis fails, and is returned all the same.
SetCapacityFails(r) == Return(r) /\ UNCHANGED cache

-----------------------------------------------------------------------------
(* Writers: CreateRequest and its recordOutcome, Confirm, Cancel, ExpireDue. *)

Since(s) == IF s = None THEN 0 ELSE s

\* A commit: every view in the cache or read before it lacks it, whatever its key.
Lacking ==
  /\ cache' = [key \in CacheKeys |->
       IF cache[key] = None THEN None ELSE [cache[key] EXCEPT !.stale = Since(@)]]
  /\ reader' = [r \in Readers |->
       IF reader[r] = None THEN None ELSE [reader[r] EXCEPT !.stale = Since(@)]]

\* A create that reserved: recordOutcome is to drop both keys.
CommitCreate(w, c) ==
  /\ writer[w] = None
  /\ Lacking
  /\ writer' = [writer EXCEPT ![w] = <<"all", c>>]

\* A create that was rejected wrote no counter and drops both keys too.
RejectCreate(w, c) ==
  /\ writer[w] = None
  /\ writer' = [writer EXCEPT ![w] = <<"all", c>>]
  /\ UNCHANGED <<cache, reader>>

\* Confirm or Cancel: only the key of all customers is to be dropped.
CommitRelease(w) ==
  /\ writer[w] = None
  /\ Lacking
  /\ writer' = [writer EXCEPT ![w] = <<"all">>]

\* ExpireDue commits request by request and drops the key once, at the end.
SweepCommit(w) ==
  /\ writer[w] \in {None, <<"sweep", "all">>}
  /\ Lacking
  /\ writer' = [writer EXCEPT ![w] = <<"sweep", "all">>]

SweepDone(w) ==
  /\ writer[w] = <<"sweep", "all">>
  /\ writer' = [writer EXCEPT ![w] = <<"all">>]
  /\ UNCHANGED <<cache, reader>>

Invalidating(w) == writer[w] # None /\ Head(writer[w]) # "sweep"

Rest(todo) == IF Len(todo) = 1 THEN None ELSE Tail(todo)

\* InvalidateCapacity deletes the next key; a view being built under it stays
\* and may be stored afterwards.
InvalidateCapacity(w) ==
  /\ Invalidating(w)
  /\ cache' = [cache EXCEPT ![Head(writer[w])] = None]
  /\ writer' = [writer EXCEPT ![w] = Rest(@)]
  /\ UNCHANGED reader

\* Redis fails; DegradingCache drops the error.
InvalidateFails(w) ==
  /\ Invalidating(w)
  /\ writer' = [writer EXCEPT ![w] = Rest(@)]
  /\ UNCHANGED <<cache, reader>>

\* The process dies between the commit and the invalidation.
WriterDies(w) ==
  /\ writer[w] # None
  /\ writer' = [writer EXCEPT ![w] = None]
  /\ UNCHANGED <<cache, reader>>

-----------------------------------------------------------------------------
(* Redis and time. *)

Evict(key) ==
  /\ cache[key] # None
  /\ cache' = [cache EXCEPT ![key] = None]
  /\ UNCHANGED <<reader, writer>>

\* stale is counted up to the bound that StalenessBounded excludes.
Older(s) == IF s \in {None, CacheTTL + Lag} THEN s ELSE s + 1

\* left: the ticks an entry has to live; a ttl of 0 is no expiry to go-redis.
Tick ==
  /\ \A r \in Readers : reader[r] # None => reader[r].age < Lag
  /\ cache' = [key \in CacheKeys |->
       CASE cache[key] = None \/ cache[key].left = 1 -> None
         [] OTHER -> [left |-> IF cache[key].left = 0 THEN 0 ELSE cache[key].left - 1,
                      stale |-> Older(cache[key].stale)]]
  /\ reader' = [r \in Readers |->
       IF reader[r] = None THEN None
       ELSE [reader[r] EXCEPT !.age = @ + 1, !.stale = Older(@)]]
  /\ UNCHANGED writer

Read(r) == \/ QuotasList(r) \/ QuotasListFails(r)
           \/ SetCapacity(r) \/ SetCapacityFails(r)

Next ==
  \/ \E r \in Readers, c \in Customers \cup {None} : PoolsList(r, c)
  \/ \E r \in Readers : Read(r)
  \/ \E w \in Writers, c \in Customers : CommitCreate(w, c) \/ RejectCreate(w, c)
  \/ \E w \in Writers :
       \/ CommitRelease(w) \/ SweepCommit(w) \/ SweepDone(w)
       \/ InvalidateCapacity(w) \/ InvalidateFails(w) \/ WriterDies(w)
  \/ \E key \in CacheKeys : Evict(key)
  \/ Tick

Spec == Init /\ [][Next]_vars

\* Time passes and a ListCapacity call in progress gets on: its statements and
\* Redis calls return.  Nothing is asked of the writers, nor of Redis.
FairSpec == Spec /\ WF_vars(Tick) /\ \A r \in Readers : WF_vars(Read(r))

-----------------------------------------------------------------------------
\* No view that can be served is out of date for longer than the lifetime of an
\* entry and the time it took to build, whatever Redis and the writers failed
\* to do, and whatever commits leave the key of a customer alone.
StalenessBounded ==
  /\ \A key \in CacheKeys : cache[key] # None =>
       cache[key].stale \in {None} \cup 0..(CacheTTL + Lag - 1)
  /\ \A r \in Readers : reader[r] # None =>
       reader[r].stale \in {None} \cup 0..Lag

\* Once writers are done for good, every entry that stays is up to date, however
\* many invalidations were lost or overtaken by a view built before them.
QuietCacheIsFresh ==
  <>[](\A w \in Writers : writer[w] = None) =>
  <>[](\A key \in CacheKeys : cache[key] # None => cache[key].stale = None)
=============================================================================
