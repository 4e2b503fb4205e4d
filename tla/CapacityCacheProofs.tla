------------------------ MODULE CapacityCacheProofs ------------------------
(***************************************************************************)
(* How far out of date a view of the capacity cache may be, for any        *)
(* numbers of customers, readers and writers and any lifetimes.            *)
(***************************************************************************)
EXTENDS CapacityCache, TLAPS

Staleness == Nat \cup {None}
Entry == [left : 1 .. CacheTTL, stale : Staleness]
Call == [key : CacheKeys, age : 0 .. Lag, stale : Staleness, next : {"quotas", "set"}]

\* A view lacks no commit older than n.
AtMost(stale, n) == stale # None => stale <= n

\* A view being built is no older than its call, and a view in the cache gets
\* older as its entry has less time to live.
CacheInv ==
  /\ cache \in [CacheKeys -> Entry \cup {None}]
  /\ reader \in [Readers -> Call \cup {None}]
  /\ \A key \in CacheKeys : cache[key] # None =>
       AtMost(cache[key].stale, CacheTTL + Lag - cache[key].left)
  /\ \A r \in Readers : reader[r] # None => AtMost(reader[r].stale, reader[r].age)

-----------------------------------------------------------------------------
(* The steps. *)

\* A view that lacked no commit begins to lack one now; the others stay as they are.
LEMMA SinceKeeps ==
  ASSUME NEW s \in Staleness, NEW n \in Nat, AtMost(s, n)
  PROVE  Since(s) \in Staleness /\ AtMost(Since(s), n)
  BY DEF Staleness, AtMost, Since

\* A tick makes a view at most one tick older.
LEMMA OlderKeeps ==
  ASSUME NEW s \in Staleness, NEW n \in Nat, AtMost(s, n)
  PROVE  Older(s) \in Staleness /\ AtMost(Older(s), n + 1)
  BY DEF Staleness, AtMost, Older

\* The bound on the view of an entry is a number.
LEMMA Bounds ==
  /\ \A e \in Entry : CacheTTL + Lag - e.left \in Nat /\ e.stale \in Staleness
  /\ \A c \in Call : c.age \in Nat /\ c.stale \in Staleness
  BY CacheAssumption DEF Entry, Call

\* A commit makes no view older than it was.
LEMMA LackingKeeps ==
  ASSUME CacheInv, Lacking
  PROVE  CacheInv'
<1>1. ASSUME NEW key \in CacheKeys, cache[key] # None
      PROVE  cache'[key] \in Entry /\ AtMost(cache'[key].stale, CacheTTL + Lag - cache'[key].left)
  <2> DEFINE e == cache[key]
             d == [e EXCEPT !.stale = Since(e.stale)]
  <2>1. e \in Entry /\ AtMost(e.stale, CacheTTL + Lag - e.left) /\ cache'[key] = d
    BY <1>1 DEF CacheInv, Lacking
  <2>2. Since(e.stale) \in Staleness /\ AtMost(Since(e.stale), CacheTTL + Lag - e.left)
    BY <2>1, Bounds, SinceKeeps
  <2>3. d \in Entry /\ d.left = e.left /\ d.stale = Since(e.stale)
    BY <2>1, <2>2 DEF Entry
  <2> HIDE DEF d, e
  <2> QED BY <2>1, <2>2, <2>3
<1>2. ASSUME NEW r \in Readers, reader[r] # None
      PROVE  reader'[r] \in Call /\ AtMost(reader'[r].stale, reader'[r].age)
  <2> DEFINE c == reader[r]
             d == [c EXCEPT !.stale = Since(c.stale)]
  <2>1. c \in Call /\ AtMost(c.stale, c.age) /\ reader'[r] = d
    BY <1>2 DEF CacheInv, Lacking
  <2>2. Since(c.stale) \in Staleness /\ AtMost(Since(c.stale), c.age)
    BY <2>1, Bounds, SinceKeeps
  <2>3. d \in Call /\ d.age = c.age /\ d.stale = Since(c.stale)
    BY <2>1, <2>2 DEF Call
  <2> HIDE DEF d, c
  <2> QED BY <2>1, <2>2, <2>3
<1>3. /\ \A key \in CacheKeys : cache[key] = None => cache'[key] = None
      /\ \A r \in Readers : reader[r] = None => reader'[r] = None
      /\ cache' = [key \in CacheKeys |-> cache'[key]] /\ reader' = [r \in Readers |-> reader'[r]]
  BY DEF Lacking
<1>4. cache' \in [CacheKeys -> Entry \cup {None}] /\ reader' \in [Readers -> Call \cup {None}]
  BY <1>1, <1>2, <1>3
<1> QED BY <1>1, <1>2, <1>3, <1>4 DEF CacheInv

\* Entries that are dropped, and calls that go on with the view they have.
LEMMA DroppedKeeps ==
  ASSUME CacheInv, cache' \in [CacheKeys -> Entry \cup {None}],
         \A key \in CacheKeys : cache'[key] # None => cache'[key] = cache[key],
         UNCHANGED reader
  PROVE  CacheInv'
  BY DEF CacheInv

\* The steps of the writers: a commit, or invalidations that come to pass or not.
LEMMA WritersKeep ==
  ASSUME CacheInv, NEW w \in Writers,
         \/ \E c \in Customers : CommitCreate(w, c) \/ RejectCreate(w, c)
         \/ CommitRelease(w) \/ SweepCommit(w) \/ SweepDone(w)
         \/ InvalidateCapacity(w) \/ InvalidateFails(w) \/ WriterDies(w)
  PROVE  CacheInv'
<1>1. CASE Lacking
  BY <1>1, LackingKeeps
<1>2. CASE UNCHANGED <<cache, reader>>
  BY <1>2 DEF CacheInv
<1>3. CASE InvalidateCapacity(w)
  <2>1. /\ cache' \in [CacheKeys -> Entry \cup {None}] /\ UNCHANGED reader
        /\ \A key \in CacheKeys : cache'[key] # None => cache'[key] = cache[key]
    BY <1>3 DEF CacheInv, InvalidateCapacity
  <2> QED BY <2>1, DroppedKeeps
<1> QED BY <1>1, <1>2, <1>3 DEF CommitCreate, RejectCreate, CommitRelease, SweepCommit, SweepDone,
          InvalidateFails, WriterDies

\* The steps of the readers: a view begins with no commit lacking, and what is
\* stored is at most Lag old.
LEMMA ReadersKeep ==
  ASSUME CacheInv, NEW r \in Readers,
         (\E c \in Customers \cup {None} : PoolsList(r, c)) \/ Read(r)
  PROVE  CacheInv'
<1>0. cache \in [CacheKeys -> Entry \cup {None}] /\ reader \in [Readers -> Call \cup {None}]
  BY DEF CacheInv
<1>1. ASSUME UNCHANGED cache, NEW c \in Call \cup {None}, reader' = [reader EXCEPT ![r] = c],
             c # None => AtMost(c.stale, c.age)
      PROVE  CacheInv'
  <2>1. /\ reader' \in [Readers -> Call \cup {None}] /\ reader'[r] = c
        /\ \A x \in Readers : x # r => reader'[x] = reader[x]
    BY <1>0, <1>1
  <2> QED BY <1>1, <2>1 DEF CacheInv
<1>2. ASSUME NEW c \in Customers \cup {None}, PoolsList(r, c) PROVE CacheInv'
  <2> DEFINE call == [key |-> cacheKey(c), age |-> 0, stale |-> None,
                      next |-> IF c = None THEN "set" ELSE "quotas"]
  <2>1. UNCHANGED cache /\ reader' = [reader EXCEPT ![r] = call]
    BY <1>2 DEF PoolsList
  <2>2. cacheKey(c) \in CacheKeys /\ 0 \in 0 .. Lag /\ None \in Staleness
    BY CacheAssumption DEF cacheKey, CacheKeys, Staleness
  <2>3. call \in Call /\ AtMost(call.stale, call.age)
    BY <2>2 DEF Call, AtMost
  <2> HIDE DEF call
  <2> QED BY <1>1, <2>1, <2>3
<1>3. CASE QuotasList(r)
  <2> DEFINE c == reader[r]
             d == [c EXCEPT !.next = "set"]
  <2>1. UNCHANGED cache /\ reader' = [reader EXCEPT ![r] = d] /\ c # None
    BY <1>3 DEF QuotasList
  <2>2. c \in Call /\ AtMost(c.stale, c.age)
    BY <1>0, <2>1 DEF CacheInv
  <2>3. d \in Call /\ d.stale = c.stale /\ d.age = c.age
    BY <2>2 DEF Call
  <2> HIDE DEF c, d
  <2> QED BY <1>1, <2>1, <2>2, <2>3
<1>4. CASE QuotasListFails(r)
  BY <1>1, <1>4 DEF QuotasListFails
<1>5. CASE SetCapacityFails(r)
  BY <1>1, <1>5 DEF SetCapacityFails, Return
<1>6. CASE SetCapacity(r)
  <2> DEFINE c == reader[r]
             e == [left |-> CacheTTL, stale |-> c.stale]
  <2>1. /\ c # None /\ reader' = [reader EXCEPT ![r] = None]
        /\ cache' = [cache EXCEPT ![c.key] = e]
    BY <1>6 DEF SetCapacity, Return
  <2>2. c \in Call /\ AtMost(c.stale, c.age)
    BY <1>0, <2>1 DEF CacheInv
  <2>3. /\ c.key \in CacheKeys /\ c.age \in 0 .. Lag /\ c.stale \in Staleness
        /\ e \in Entry /\ e.stale = c.stale /\ e.left = CacheTTL
    BY <2>2, CacheAssumption DEF Call, Entry
  <2>4. AtMost(e.stale, CacheTTL + Lag - e.left)
    <3>1. CacheTTL + Lag - e.left = Lag
      BY <2>3, CacheAssumption
    <3> QED BY <2>2, <2>3, <3>1, CacheAssumption DEF AtMost, Staleness
  <2> HIDE DEF e, c
  <2>5. /\ cache' \in [CacheKeys -> Entry \cup {None}] /\ cache'[c.key] = e
        /\ \A k \in CacheKeys : k # c.key => cache'[k] = cache[k]
    BY <1>0, <2>1, <2>3
  <2>6. /\ reader' \in [Readers -> Call \cup {None}]
        /\ \A x \in Readers : reader'[x] # None => reader'[x] = reader[x]
    BY <1>0, <2>1
  <2>7. \A k \in CacheKeys : cache'[k] # None =>
          AtMost(cache'[k].stale, CacheTTL + Lag - cache'[k].left)
    BY <2>4, <2>5 DEF CacheInv
  <2>8. \A x \in Readers : reader'[x] # None => AtMost(reader'[x].stale, reader'[x].age)
    BY <2>6 DEF CacheInv
  <2> QED BY <2>5, <2>6, <2>7, <2>8 DEF CacheInv
<1> QED BY <1>2, <1>3, <1>4, <1>5, <1>6 DEF Read

\* Redis may drop an entry at any time.
LEMMA EvictKeeps ==
  ASSUME CacheInv, NEW key \in CacheKeys, Evict(key)
  PROVE  CacheInv'
<1>1. /\ cache' \in [CacheKeys -> Entry \cup {None}] /\ UNCHANGED reader
      /\ \A k \in CacheKeys : cache'[k] # None => cache'[k] = cache[k]
  BY DEF CacheInv, Evict
<1> QED BY <1>1, DroppedKeeps

\* As views get older, calls do and entries have less time to live.
LEMMA TickKeeps ==
  ASSUME CacheInv, Tick
  PROVE  CacheInv'
<1>1. ASSUME NEW key \in CacheKeys
      PROVE  \/ cache'[key] = None
             \/ /\ cache'[key] \in Entry
                /\ AtMost(cache'[key].stale, CacheTTL + Lag - cache'[key].left)
  <2> DEFINE e == cache[key]
             d == [left |-> e.left - 1, stale |-> Older(e.stale)]
  <2>1. CASE e = None \/ e.left = 1
    BY <2>1 DEF Tick
  <2>2. CASE ~(e = None \/ e.left = 1)
    <3>1. e \in Entry /\ AtMost(e.stale, CacheTTL + Lag - e.left)
      BY <2>2 DEF CacheInv
    <3>2. e.left \in 1 .. CacheTTL
      BY <3>1 DEF Entry
    <3>3. e.left - 1 \in 1 .. CacheTTL /\ e.left # 0
          /\ CacheTTL + Lag - (e.left - 1) = (CacheTTL + Lag - e.left) + 1
      BY <2>2, <3>2, CacheAssumption
    <3>4. Older(e.stale) \in Staleness /\ AtMost(Older(e.stale), CacheTTL + Lag - (e.left - 1))
      BY <3>1, <3>3, Bounds, OlderKeeps
    <3>5. cache'[key] = d
      BY <2>2, <3>3 DEF Tick
    <3>6. d \in Entry /\ d.left = e.left - 1 /\ d.stale = Older(e.stale)
      BY <3>3, <3>4 DEF Entry
    <3> HIDE DEF d, e
    <3> QED BY <3>4, <3>5, <3>6
  <2> QED BY <2>1, <2>2
<1>2. ASSUME NEW r \in Readers
      PROVE  \/ reader'[r] = None
             \/ reader'[r] \in Call /\ AtMost(reader'[r].stale, reader'[r].age)
  <2> DEFINE c == reader[r]
             d == [c EXCEPT !.age = c.age + 1, !.stale = Older(c.stale)]
  <2>1. CASE c = None
    BY <2>1 DEF Tick
  <2>2. CASE c # None
    <3>1. c \in Call /\ AtMost(c.stale, c.age) /\ c.age < Lag
      BY <2>2 DEF CacheInv, Tick
    <3>2. c.age \in Nat /\ c.age + 1 \in 0 .. Lag
      BY <3>1, CacheAssumption DEF Call
    <3>3. Older(c.stale) \in Staleness /\ AtMost(Older(c.stale), c.age + 1)
      BY <3>1, <3>2, Bounds, OlderKeeps
    <3>4. reader'[r] = d
      BY <2>2 DEF Tick
    <3>5. d \in Call /\ d.age = c.age + 1 /\ d.stale = Older(c.stale)
      BY <3>1, <3>2, <3>3 DEF Call
    <3> HIDE DEF d, c
    <3> QED BY <3>3, <3>4, <3>5
  <2> QED BY <2>1, <2>2
<1>3. cache' \in [CacheKeys -> Entry \cup {None}]
  <2>1. cache' = [key \in CacheKeys |-> cache'[key]]
    BY DEF Tick
  <2> QED BY <1>1, <2>1
<1>4. reader' \in [Readers -> Call \cup {None}]
  <2>1. reader' = [r \in Readers |-> reader'[r]]
    BY DEF Tick
  <2> QED BY <1>2, <2>1
<1> QED BY <1>1, <1>2, <1>3, <1>4 DEF CacheInv

-----------------------------------------------------------------------------
(* The theorem. *)

\* CacheInv holds at first, and every step keeps it.
LEMMA CacheAlways == Spec => []CacheInv
<1>1. Init => CacheInv
  BY DEF Init, CacheInv
<1>2. CacheInv /\ [Next]_vars => CacheInv'
  <2> SUFFICES ASSUME CacheInv, [Next]_vars PROVE CacheInv'
    OBVIOUS
  <2>1. CASE UNCHANGED vars
    BY <2>1 DEF vars, CacheInv
  <2>2. CASE Next
    BY <2>2, ReadersKeep, WritersKeep, EvictKeeps, TickKeeps DEF Next
  <2> QED BY <2>1, <2>2
<1> QED BY <1>1, <1>2, PTL DEF Spec

\* No view that ListCapacity can serve lacks a commit older than the lifetime of
\* an entry and the time it took to build the view, for any number of readers
\* and writers, whatever SetCapacity and InvalidateCapacity failed to do and
\* whatever was stored after an invalidation had overtaken it.
THEOREM StaleForAWhile == Spec => []StalenessBounded
<1>1. CacheInv => StalenessBounded
  <2> SUFFICES ASSUME CacheInv PROVE StalenessBounded
    OBVIOUS
  <2>1. ASSUME NEW key \in CacheKeys, cache[key] # None
        PROVE  cache[key].stale \in {None} \cup 0..(CacheTTL + Lag - 1)
    <3> DEFINE e == cache[key]
               s == e.stale
    <3>1. e.left \in 1 .. CacheTTL /\ s \in Staleness /\ AtMost(s, CacheTTL + Lag - e.left)
      BY <2>1 DEF CacheInv, Entry
    <3> HIDE DEF s, e
    <3>2. s \in {None} \cup 0..(CacheTTL + Lag - 1)
      BY <3>1, CacheAssumption DEF AtMost, Staleness
    <3> QED BY <3>2 DEF s, e
  <2>2. ASSUME NEW r \in Readers, reader[r] # None
        PROVE  reader[r].stale \in {None} \cup 0..Lag
    <3> DEFINE c == reader[r]
               s == c.stale
    <3>1. c.age \in 0 .. Lag /\ s \in Staleness /\ AtMost(s, c.age)
      BY <2>2 DEF CacheInv, Call
    <3> HIDE DEF s, c
    <3>2. s \in {None} \cup 0..Lag
      BY <3>1, CacheAssumption DEF AtMost, Staleness
    <3> QED BY <3>2 DEF s, c
  <2> QED BY <2>1, <2>2 DEF StalenessBounded
<1> QED BY <1>1, CacheAlways, PTL
=============================================================================
