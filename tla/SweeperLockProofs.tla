-------------------------- MODULE SweeperLockProofs --------------------------
(***************************************************************************)
(* The sweeper's advisory lock, for any number of instances and sessions   *)
(* and any size of the pools.                                              *)
(***************************************************************************)
EXTENDS SweeperLock, FiniteSetTheorems, TLAPS

\* A connection is in one pool only, in use or in reserve, and no pool grows
\* past its size.
PoolsOK ==
  /\ idle \in [Instances -> SUBSET Backends]
  /\ taken \in [Instances -> SUBSET Backends]
  /\ open \subseteq Backends
  /\ \A i \in Instances :
       /\ IsFiniteSet(Pooled(i)) /\ Cardinality(Pooled(i)) <= PoolSize
       /\ idle[i] \cap taken[i] = {}
       /\ \A j \in Instances \ {i} : Pooled(i) \cap Pooled(j) = {}

\* Which connections an instance has in use at each point of a sweep.
PhasesOK ==
  /\ pc \in [Instances -> {"idle", "try", "list", "sweep"}]
  /\ conn \in [Instances -> Backends \cup {None}]
  /\ work \in [Instances -> Backends \cup {None}]
  /\ \A i \in Instances :
       /\ taken[i] = {conn[i], work[i]} \ {None}
       /\ pc[i] = "idle" <=> conn[i] = None
       /\ work[i] # None => Sweeping(i) /\ work[i] # conn[i]

\* The lock is that of every live session under which a sweep runs.
LockOK ==
  /\ holder \in open \cup {None}
  /\ depth \in 0 .. MaxDepth /\ (depth = 0 <=> holder = None)
  /\ \A i \in Instances : Sweeping(i) /\ conn[i] \in open => holder = conn[i]

\* A session that may take the lock again has taken it less than MaxDepth times.
DepthRoom ==
  \A i \in Instances :
    holder # None /\ (holder \in idle[i] \/ (pc[i] = "try" /\ conn[i] = holder))
      => depth < MaxDepth

\* While an instance sweeps, no connection of its pool but l.conn has the lock.
OwnLock == \A i \in Instances : Sweeping(i) /\ holder \in Pooled(i) => holder = conn[i]

LockInv == PoolsOK /\ PhasesOK /\ LockOK /\ DepthRoom /\ OwnLock

\* The invariant says more than TypeOK does.
LEMMA LockInvTypes == LockInv => TypeOK
  BY DEF LockInv, PoolsOK, PhasesOK, LockOK, TypeOK, Pooled

\* Two live sweepers would both hold the lock, each through its own connection.
LEMMA LockInvOneSweeper == LockInv => OneLiveSweeper
<1> SUFFICES ASSUME LockInv, NEW i \in Instances, NEW j \in Instances, i # j,
                    Sweeping(i), Sweeping(j), {conn[i], conn[j]} \subseteq open
             PROVE  FALSE
  BY DEF OneLiveSweeper
<1>1. conn[i] = conn[j]
  BY DEF LockInv, LockOK
<1>2. conn[i] # None /\ conn[i] \in taken[i] /\ conn[j] \in taken[j]
  BY <1>1 DEF LockInv, PhasesOK, Sweeping
<1> QED BY <1>1, <1>2 DEF LockInv, PoolsOK, Pooled


-----------------------------------------------------------------------------
(* The pools. *)

\* Pools that only lose connections stay in order.
LEMMA PoolsShrink ==
  ASSUME PoolsOK, open' \subseteq Backends,
         idle' \in [Instances -> SUBSET Backends], taken' \in [Instances -> SUBSET Backends],
         \A j \in Instances : /\ idle'[j] \cup taken'[j] \subseteq Pooled(j)
                              /\ idle'[j] \cap taken'[j] = {}
  PROVE  PoolsOK'
<1> SUFFICES ASSUME NEW j \in Instances
             PROVE  /\ IsFiniteSet(Pooled(j)') /\ Cardinality(Pooled(j)') <= PoolSize
                    /\ \A l \in Instances \ {j} : Pooled(j)' \cap Pooled(l)' = {}
  BY DEF PoolsOK
<1>1. Pooled(j)' \subseteq Pooled(j)
  BY DEF Pooled
<1>2. IsFiniteSet(Pooled(j)) /\ Cardinality(Pooled(j)) <= PoolSize
  BY DEF PoolsOK
<1>3. /\ IsFiniteSet(Pooled(j)') /\ Cardinality(Pooled(j)') <= Cardinality(Pooled(j))
      /\ Cardinality(Pooled(j)) \in Nat /\ Cardinality(Pooled(j)') \in Nat
  BY <1>1, <1>2, FS_Subset, FS_CardinalityType
<1>4. Cardinality(Pooled(j)') <= PoolSize
  BY <1>2, <1>3, PoolAssumption
<1>5. \A l \in Instances \ {j} : Pooled(j)' \cap Pooled(l)' = {}
  BY <1>1 DEF PoolsOK, Pooled
<1> QED BY <1>3, <1>4, <1>5

\* Acquire hands out a connection that nobody else uses; a session it opens was
\* not there before.
LEMMA Acquired ==
  ASSUME PoolsOK, NEW i \in Instances, NEW s \in Backends, Acquire(i, s)
  PROVE  /\ PoolsOK'
         /\ s \notin taken[i] /\ \A j \in Instances \ {i} : s \notin Pooled(j)
         /\ taken' = [taken EXCEPT ![i] = @ \cup {s}]
         /\ \A j \in Instances : idle'[j] \subseteq idle[j]
         /\ \/ s \in idle[i] /\ open' = open
            \/ s \notin open /\ open' = open \cup {s}
<1>1. CASE s \in idle[i] /\ idle' = [idle EXCEPT ![i] = @ \ {s}] /\ UNCHANGED open
  <2>1. taken' = [taken EXCEPT ![i] = @ \cup {s}]
    BY DEF Acquire
  <2>2. s \notin taken[i] /\ \A j \in Instances \ {i} : s \notin Pooled(j)
    BY <1>1 DEF PoolsOK, Pooled
  <2>3. idle' \in [Instances -> SUBSET Backends] /\ taken' \in [Instances -> SUBSET Backends]
    BY <1>1, <2>1 DEF PoolsOK
  <2>4. \A j \in Instances : /\ idle'[j] \cup taken'[j] \subseteq Pooled(j)
                             /\ idle'[j] \cap taken'[j] = {}
    BY <1>1, <2>1, <2>2 DEF PoolsOK, Pooled
  <2>5. PoolsOK'
    BY <1>1, <2>3, <2>4, PoolsShrink DEF PoolsOK
  <2>6. \A j \in Instances : idle'[j] \subseteq idle[j]
    BY <1>1 DEF PoolsOK
  <2> QED BY <1>1, <2>1, <2>2, <2>5, <2>6
<1>2. CASE /\ idle[i] = {} /\ Cardinality(Pooled(i)) < PoolSize
           /\ Unused # {} /\ s = CHOOSE u \in Unused : TRUE
           /\ open' = open \cup {s} /\ UNCHANGED idle
  <2>1. taken' = [taken EXCEPT ![i] = @ \cup {s}]
    BY DEF Acquire
  <2>2. s \in Unused
    BY <1>2
  <2>3. s \notin open /\ \A j \in Instances : s \notin Pooled(j)
    BY <2>2 DEF Unused
  <2>4. Pooled(i)' = Pooled(i) \cup {s} /\ \A j \in Instances \ {i} : Pooled(j)' = Pooled(j)
    BY <1>2, <2>1 DEF PoolsOK, Pooled
  <2>5. IsFiniteSet(Pooled(i)') /\ Cardinality(Pooled(i)') <= PoolSize
    <3>1. IsFiniteSet(Pooled(i)) /\ s \notin Pooled(i)
      BY <2>3 DEF PoolsOK
    <3>2. /\ IsFiniteSet(Pooled(i) \cup {s})
          /\ Cardinality(Pooled(i) \cup {s}) = Cardinality(Pooled(i)) + 1
      BY <3>1, FS_AddElement
    <3>3. Cardinality(Pooled(i)) \in Nat
      BY <3>1, FS_CardinalityType
    <3> QED BY <1>2, <2>4, <3>2, <3>3, PoolAssumption
  <2>6. PoolsOK'
    <3>1. /\ idle' \in [Instances -> SUBSET Backends] /\ taken' \in [Instances -> SUBSET Backends]
          /\ open' \subseteq Backends
      BY <1>2, <2>1 DEF PoolsOK
    <3>2. \A j \in Instances : idle'[j] \cap taken'[j] = {}
      BY <1>2, <2>1, <2>3 DEF PoolsOK, Pooled
    <3>3. \A j \in Instances : \A l \in Instances \ {j} : Pooled(j)' \cap Pooled(l)' = {}
      <4> SUFFICES ASSUME NEW j \in Instances, NEW l \in Instances \ {j}
                   PROVE  Pooled(j)' \cap Pooled(l)' = {}
        OBVIOUS
      <4>1. Pooled(j) \cap Pooled(l) = {} /\ s \notin Pooled(j) /\ s \notin Pooled(l)
        BY <2>3 DEF PoolsOK
      <4> QED BY <2>4, <4>1
    <3>4. \A j \in Instances : IsFiniteSet(Pooled(j)') /\ Cardinality(Pooled(j)') <= PoolSize
      BY <2>4, <2>5 DEF PoolsOK
    <3> QED BY <3>1, <3>2, <3>3, <3>4 DEF PoolsOK
  <2> QED BY <1>2, <2>1, <2>3, <2>6 DEF Pooled
<1> QED BY <1>1, <1>2 DEF Acquire

\* Giving a connection back, to the pool or not at all.
LEMMA GivenBack ==
  ASSUME PoolsOK, NEW i \in Instances, NEW s \in taken[i], UNCHANGED open,
         Release(i, s) \/ Discard(i, s)
  PROVE  /\ PoolsOK'
         /\ taken' = [taken EXCEPT ![i] = @ \ {s}]
         /\ \A j \in Instances : idle'[j] \subseteq idle[j] \cup {s}
         /\ \A j \in Instances \ {i} : idle'[j] = idle[j]
<1>1. taken' = [taken EXCEPT ![i] = @ \ {s}]
  BY DEF Release, Discard
<1>2. s \in Backends
  BY DEF PoolsOK
<1>3. idle' = [idle EXCEPT ![i] = @ \cup {s}] \/ idle' = idle
  BY DEF Release, Discard
<1>4. idle' \in [Instances -> SUBSET Backends] /\ taken' \in [Instances -> SUBSET Backends]
  BY <1>1, <1>2, <1>3 DEF PoolsOK
<1>5. /\ \A j \in Instances : idle'[j] \subseteq idle[j] \cup {s}
      /\ \A j \in Instances \ {i} : idle'[j] = idle[j]
  BY <1>3 DEF PoolsOK
<1>6. \A j \in Instances : /\ idle'[j] \cup taken'[j] \subseteq Pooled(j)
                           /\ idle'[j] \cap taken'[j] = {}
  <2>1. /\ taken'[i] = taken[i] \ {s} /\ idle'[i] \subseteq idle[i] \cup {s}
        /\ idle[i] \cap taken[i] = {}
    BY <1>1, <1>5 DEF PoolsOK
  <2>2. \A j \in Instances \ {i} : /\ taken'[j] = taken[j] /\ idle'[j] = idle[j]
                                   /\ idle[j] \cap taken[j] = {}
    BY <1>1, <1>5 DEF PoolsOK
  <2> QED BY <2>1, <2>2 DEF Pooled
<1>7. PoolsOK'
  BY <1>4, <1>6, PoolsShrink DEF PoolsOK
<1> QED BY <1>1, <1>5, <1>7


-----------------------------------------------------------------------------
(* The steps. *)

Phase == {"idle", "try", "list", "sweep"}

\* One instance moves on, and has in use the connections its new phase needs.
LEMMA PhaseMoves ==
  ASSUME PhasesOK, NEW i \in Instances,
         pc' \in [Instances -> Phase], conn' \in [Instances -> Backends \cup {None}],
         work' \in [Instances -> Backends \cup {None}],
         \A j \in Instances \ {i} : /\ pc'[j] = pc[j] /\ conn'[j] = conn[j]
                                    /\ work'[j] = work[j] /\ taken'[j] = taken[j],
         taken'[i] = {conn'[i], work'[i]} \ {None}, pc'[i] = "idle" <=> conn'[i] = None,
         work'[i] # None => pc'[i] \in {"list", "sweep"} /\ work'[i] # conn'[i]
  PROVE  PhasesOK'
  BY DEF PhasesOK, Sweeping, Phase

\* TryLock takes a connection under no lock of its own, or one left on it by an
\* unlock that failed.
LEMMA TryLockStep ==
  ASSUME LockInv, NEW i \in Instances, TryLock(i)
  PROVE  LockInv'
<1>1. PICK s \in Backends : Acquire(i, s) /\ conn' = [conn EXCEPT ![i] = s]
  BY DEF TryLock
<1>2. /\ PoolsOK'
      /\ s \notin taken[i] /\ \A j \in Instances \ {i} : s \notin Pooled(j)
      /\ taken' = [taken EXCEPT ![i] = @ \cup {s}]
      /\ \A j \in Instances : idle'[j] \subseteq idle[j]
      /\ \/ s \in idle[i] /\ open' = open
         \/ s \notin open /\ open' = open \cup {s}
  BY <1>1, Acquired DEF LockInv
<1>3. /\ pc[i] = "idle" /\ conn[i] = None /\ pc' = [pc EXCEPT ![i] = "try"]
      /\ UNCHANGED <<work, holder, depth>>
  BY DEF TryLock
<1>4. work[i] = None /\ taken[i] = {} /\ taken'[i] = {s} /\ s # None
  BY <1>2, <1>3, NoBackendAssumption DEF LockInv, PhasesOK, PoolsOK, Sweeping
<1>5. PhasesOK'
  <2>1. /\ pc' \in [Instances -> Phase] /\ conn' \in [Instances -> Backends \cup {None}]
        /\ work' \in [Instances -> Backends \cup {None}]
        /\ pc'[i] = "try" /\ conn'[i] = s /\ work'[i] = None
    BY <1>1, <1>3, <1>4 DEF LockInv, PhasesOK, Phase
  <2>2. \A j \in Instances \ {i} : /\ pc'[j] = pc[j] /\ conn'[j] = conn[j]
                                   /\ work'[j] = work[j] /\ taken'[j] = taken[j]
    BY <1>1, <1>2, <1>3 DEF LockInv, PhasesOK, PoolsOK
  <2> QED BY <1>4, <2>1, <2>2, PhaseMoves DEF LockInv
<1>6. LockOK'
  <2>1. \A j \in Instances : Sweeping(j)' => /\ Sweeping(j) /\ conn'[j] = conn[j]
                                             /\ conn[j] # s
    <3> SUFFICES ASSUME NEW j \in Instances, Sweeping(j)'
                 PROVE  Sweeping(j) /\ conn'[j] = conn[j] /\ conn[j] # s
      OBVIOUS
    <3>1. j # i /\ Sweeping(j) /\ conn'[j] = conn[j]
      BY <1>1, <1>3 DEF LockInv, PhasesOK, Sweeping
    <3>2. conn[j] \in taken[j]
      BY <3>1 DEF LockInv, PhasesOK, Sweeping
    <3> QED BY <1>2, <3>1, <3>2 DEF Pooled
  <2> QED BY <1>2, <1>3, <2>1 DEF LockInv, LockOK
<1>7. DepthRoom'
  <2> SUFFICES ASSUME NEW j \in Instances, holder # None,
                      holder \in idle'[j] \/ (pc'[j] = "try" /\ conn'[j] = holder)
               PROVE  depth < MaxDepth
    BY <1>3 DEF DepthRoom
  <2>1. CASE holder \in idle'[j]
    BY <1>2, <2>1 DEF LockInv, DepthRoom
  <2>2. CASE j = i /\ holder = s
    BY <1>2, <2>2 DEF LockInv, LockOK, DepthRoom
  <2>3. CASE j # i /\ pc[j] = "try" /\ conn[j] = holder
    BY <2>3 DEF LockInv, DepthRoom
  <2> QED BY <1>1, <1>3, <2>1, <2>2, <2>3 DEF LockInv, PhasesOK
<1>8. OwnLock'
  <2> SUFFICES ASSUME NEW j \in Instances, Sweeping(j)', holder' \in Pooled(j)'
               PROVE  holder' = conn'[j]
    BY DEF OwnLock
  <2>1. j # i /\ Sweeping(j) /\ conn'[j] = conn[j]
    BY <1>1, <1>3 DEF LockInv, PhasesOK, Sweeping
  <2>2. Pooled(j)' \subseteq Pooled(j)
    BY <1>2, <2>1 DEF LockInv, PoolsOK, Pooled
  <2> QED BY <1>3, <2>1, <2>2 DEF LockInv, OwnLock
<1> QED BY <1>2, <1>5, <1>6, <1>7, <1>8 DEF LockInv

\* The server answers true: the lock becomes that of the session asked through.
LEMMA TryLockTrueStep ==
  ASSUME LockInv, NEW i \in Instances, TryLockTrue(i)
  PROVE  LockInv'
<1>1. /\ pc[i] = "try" /\ conn[i] \in open /\ holder \in {None, conn[i]}
      /\ holder' = conn[i] /\ depth' = depth + 1 /\ pc' = [pc EXCEPT ![i] = "list"]
      /\ UNCHANGED <<conn, work, idle, taken, open>>
  BY DEF TryLockTrue
<1>2. /\ conn[i] # None /\ conn[i] \in taken[i] /\ taken[i] = {conn[i], work[i]} \ {None}
      /\ work[i] = None
  BY <1>1 DEF LockInv, PhasesOK, Sweeping
<1>3. PoolsOK'
  BY <1>1 DEF LockInv, PoolsOK, Pooled
<1>4. PhasesOK'
  <2>1. /\ pc' \in [Instances -> Phase] /\ pc'[i] = "list"
        /\ \A j \in Instances \ {i} : pc'[j] = pc[j]
    BY <1>1 DEF LockInv, PhasesOK, Phase
  <2> QED BY <1>1, <1>2, <2>1, PhaseMoves DEF LockInv, PhasesOK
<1>5. depth < MaxDepth
  <2>1. CASE holder = None
    BY <2>1, PoolAssumption DEF LockInv, LockOK
  <2>2. CASE holder # None
    BY <1>1, <2>2 DEF LockInv, DepthRoom
  <2> QED BY <2>1, <2>2
<1>6. \A j \in Instances \ {i} : conn[i] \notin Pooled(j)
  BY <1>2 DEF LockInv, PoolsOK, Pooled
<1>7. LockOK'
  <2>1. depth' \in 0 .. MaxDepth /\ (depth' = 0 <=> holder' = None) /\ holder' \in open'
    BY <1>1, <1>2, <1>5, PoolAssumption DEF LockInv, LockOK
  <2>2. ASSUME NEW j \in Instances, Sweeping(j)', conn'[j] \in open'
        PROVE  holder' = conn'[j]
    <3>1. CASE j = i
      BY <1>1, <3>1
    <3>2. CASE j # i
      <4>1. Sweeping(j) /\ conn[j] \in open
        BY <1>1, <2>2, <3>2 DEF LockInv, PhasesOK, Sweeping
      <4>2. holder = conn[j] /\ conn[j] # None /\ conn[j] \in taken[j]
        BY <4>1 DEF LockInv, LockOK, PhasesOK, Sweeping
      <4> QED BY <1>1, <1>6, <3>2, <4>2 DEF Pooled
    <3> QED BY <3>1, <3>2
  <2> QED BY <2>1, <2>2 DEF LockOK
<1>8. DepthRoom'
  <2> SUFFICES ASSUME NEW j \in Instances, conn[i] \in idle[j] \/ (pc'[j] = "try" /\ conn[j] = conn[i])
               PROVE  FALSE
    BY <1>1 DEF DepthRoom
  <2>1. CASE j = i
    BY <1>1, <1>2, <2>1 DEF LockInv, PhasesOK, PoolsOK
  <2>2. CASE j # i
    <3>1. conn[i] \notin idle[j] /\ conn[i] \notin taken[j]
      BY <1>6, <2>2 DEF Pooled
    <3> QED BY <1>2, <2>2, <3>1 DEF LockInv, PhasesOK
  <2> QED BY <2>1, <2>2
<1>9. OwnLock'
  BY <1>1, <1>6 DEF OwnLock, Pooled
<1> QED BY <1>3, <1>4, <1>7, <1>8, <1>9 DEF LockInv


\* A connection in use is in nobody else's hands.
LEMMA OwnConn ==
  ASSUME LockInv, NEW i \in Instances, conn[i] # None
  PROVE  /\ conn[i] \in taken[i] /\ conn[i] \in Backends
         /\ \A j \in Instances : conn[i] \notin idle[j]
         /\ \A j \in Instances : conn[j] = conn[i] => j = i
<1>1. conn[i] \in taken[i] /\ conn[i] \in Backends
  BY DEF LockInv, PhasesOK
<1>2. \A j \in Instances \ {i} : conn[i] \notin idle[j] /\ conn[i] \notin taken[j]
  BY <1>1 DEF LockInv, PoolsOK, Pooled
<1>3. conn[i] \notin idle[i]
  BY <1>1 DEF LockInv, PoolsOK
<1>4. \A j \in Instances : conn[j] = conn[i] => conn[i] \in taken[j]
  BY DEF LockInv, PhasesOK
<1> QED BY <1>1, <1>2, <1>3, <1>4

\* TryLock and Unlock end with the connection given back and l.conn nil.
LEMMA Returned ==
  ASSUME LockInv, NEW i \in Instances, conn[i] # None, work[i] = None,
         Release(i, conn[i]) \/ Discard(i, conn[i]),
         conn' = [conn EXCEPT ![i] = None], pc' = [pc EXCEPT ![i] = "idle"],
         UNCHANGED <<work, open>>
  PROVE  /\ PoolsOK' /\ PhasesOK'
         /\ \A j \in Instances : idle'[j] \subseteq idle[j] \cup {conn[i]}
         /\ \A j \in Instances : pc'[j] # "idle" =>
              pc'[j] = pc[j] /\ conn'[j] = conn[j] /\ conn[j] # conn[i] /\ conn[j] # None
              /\ Pooled(j)' = Pooled(j) /\ conn[i] \notin Pooled(j)
<1>1. conn[i] \in taken[i]
  BY OwnConn
<1>2. /\ PoolsOK' /\ taken' = [taken EXCEPT ![i] = @ \ {conn[i]}]
      /\ \A j \in Instances : idle'[j] \subseteq idle[j] \cup {conn[i]}
      /\ \A j \in Instances \ {i} : idle'[j] = idle[j]
  BY <1>1, GivenBack DEF LockInv
<1>3. taken'[i] = {} /\ \A j \in Instances \ {i} : taken'[j] = taken[j]
  BY <1>2 DEF LockInv, PoolsOK, PhasesOK
<1>4. /\ pc' \in [Instances -> Phase] /\ conn' \in [Instances -> Backends \cup {None}]
      /\ pc'[i] = "idle" /\ conn'[i] = None
      /\ \A j \in Instances \ {i} : pc'[j] = pc[j] /\ conn'[j] = conn[j]
  BY DEF LockInv, PhasesOK, Phase
<1>5. work'[i] = None /\ \A j \in Instances : work'[j] = work[j]
  OBVIOUS
<1>6. PhasesOK'
  BY <1>3, <1>4, <1>5, PhaseMoves DEF LockInv, PhasesOK
<1>7. \A j \in Instances : pc'[j] # "idle" =>
        pc'[j] = pc[j] /\ conn'[j] = conn[j] /\ conn[j] # conn[i] /\ conn[j] # None
              /\ Pooled(j)' = Pooled(j) /\ conn[i] \notin Pooled(j)
  <2> SUFFICES ASSUME NEW j \in Instances, pc'[j] # "idle"
               PROVE  pc'[j] = pc[j] /\ conn'[j] = conn[j] /\ conn[j] # conn[i] /\ conn[j] # None
                        /\ Pooled(j)' = Pooled(j) /\ conn[i] \notin Pooled(j)
    OBVIOUS
  <2>1. j # i /\ pc'[j] = pc[j] /\ conn'[j] = conn[j]
    BY <1>4
  <2>2. conn[j] # conn[i] /\ conn[j] # None
    BY <2>1, OwnConn DEF LockInv, PhasesOK
  <2>3. Pooled(j)' = Pooled(j)
    BY <1>2, <1>3, <2>1 DEF Pooled
  <2>4. conn[i] \notin Pooled(j)
    BY <1>1, <2>1 DEF LockInv, PoolsOK, Pooled
  <2> QED BY <2>1, <2>2, <2>3, <2>4
<1> QED BY <1>2, <1>6, <1>7

\* The server answers false: nothing changes but the connection given back.
LEMMA TryLockFalseStep ==
  ASSUME LockInv, NEW i \in Instances, TryLockFalse(i)
  PROVE  LockInv'
<1>1. /\ pc[i] = "try" /\ conn[i] \in open /\ holder \notin {None, conn[i]}
      /\ Release(i, conn[i]) /\ conn' = [conn EXCEPT ![i] = None]
      /\ pc' = [pc EXCEPT ![i] = "idle"] /\ UNCHANGED <<work, open, holder, depth>>
  BY DEF TryLockFalse
<1>2. conn[i] # None /\ work[i] = None
  BY <1>1 DEF LockInv, PhasesOK, Sweeping
<1>3. /\ PoolsOK' /\ PhasesOK'
      /\ \A j \in Instances : idle'[j] \subseteq idle[j] \cup {conn[i]}
      /\ \A j \in Instances : pc'[j] # "idle" =>
           pc'[j] = pc[j] /\ conn'[j] = conn[j] /\ conn[j] # conn[i] /\ conn[j] # None
              /\ Pooled(j)' = Pooled(j) /\ conn[i] \notin Pooled(j)
  BY <1>1, <1>2, Returned
<1>4. LockOK'
  BY <1>1, <1>3 DEF LockInv, LockOK, Sweeping
<1>5. DepthRoom'
  BY <1>1, <1>3 DEF LockInv, DepthRoom
<1>6. OwnLock'
  BY <1>1, <1>3 DEF LockInv, OwnLock, Sweeping
<1> QED BY <1>3, <1>4, <1>5, <1>6 DEF LockInv

\* The query fails, with the lock taken or not: no sweep starts.
LEMMA TryLockErrorStep ==
  ASSUME LockInv, NEW i \in Instances, TryLockError(i)
  PROVE  LockInv'
<1>1. /\ pc[i] = "try" /\ conn' = [conn EXCEPT ![i] = None]
      /\ pc' = [pc EXCEPT ![i] = "idle"] /\ UNCHANGED <<work, open>>
      /\ \/ (Release(i, conn[i]) \/ Discard(i, conn[i])) /\ UNCHANGED <<holder, depth>>
         \/ /\ conn[i] \in open /\ holder = None
            /\ Discard(i, conn[i]) /\ holder' = conn[i] /\ depth' = 1
  BY DEF TryLockError, GiveBack
<1>2. conn[i] # None /\ work[i] = None
  BY <1>1 DEF LockInv, PhasesOK, Sweeping
<1>3. /\ PoolsOK' /\ PhasesOK'
      /\ \A j \in Instances : idle'[j] \subseteq idle[j] \cup {conn[i]}
      /\ \A j \in Instances : pc'[j] # "idle" =>
           pc'[j] = pc[j] /\ conn'[j] = conn[j] /\ conn[j] # conn[i] /\ conn[j] # None
              /\ Pooled(j)' = Pooled(j) /\ conn[i] \notin Pooled(j)
  BY <1>1, <1>2, Returned
<1>4. CASE UNCHANGED <<holder, depth>>
  <2>1. LockOK'
    BY <1>1, <1>3, <1>4 DEF LockInv, LockOK, Sweeping
  <2>2. DepthRoom'
    BY <1>1, <1>3, <1>4 DEF LockInv, DepthRoom
  <2>3. OwnLock'
    BY <1>1, <1>3, <1>4 DEF LockInv, OwnLock, Sweeping
  <2> QED BY <1>3, <2>1, <2>2, <2>3 DEF LockInv
<1>5. CASE conn[i] \in open /\ holder = None /\ Discard(i, conn[i]) /\ holder' = conn[i] /\ depth' = 1
  <2>1. \A j \in Instances : Sweeping(j)' => conn'[j] \notin open'
    BY <1>1, <1>3, <1>5 DEF LockInv, LockOK, Sweeping
  <2>2. LockOK'
    BY <1>1, <1>2, <1>5, <2>1, PoolAssumption DEF LockOK
  <2>3. \A j \in Instances : conn[i] \notin idle'[j]
    BY <1>2, <1>5, OwnConn DEF Discard
  <2>4. DepthRoom'
    BY <1>3, <1>5, <2>3 DEF DepthRoom
  <2>5. OwnLock'
    BY <1>3, <1>5 DEF OwnLock, Sweeping
  <2> QED BY <1>3, <2>2, <2>4, <2>5 DEF LockInv
<1> QED BY <1>1, <1>4, <1>5

\* Unlock gives up the lock, or one level of it.
LEMMA UnlockStep ==
  ASSUME LockInv, NEW i \in Instances, Unlock(i)
  PROVE  LockInv'
<1>1. /\ pc[i] = "sweep" /\ work[i] = None /\ conn' = [conn EXCEPT ![i] = None]
      /\ pc' = [pc EXCEPT ![i] = "idle"] /\ UNCHANGED <<work, open>>
      /\ conn[i] \in open /\ Release(i, conn[i])
      /\ holder' = (IF depth = 1 THEN None ELSE holder) /\ depth' = depth - 1
  BY DEF Unlock, UnlockReturns
<1>2. conn[i] # None /\ holder = conn[i]
  BY <1>1 DEF LockInv, PhasesOK, LockOK, Sweeping
<1>3. /\ PoolsOK' /\ PhasesOK'
      /\ \A j \in Instances : pc'[j] # "idle" =>
           pc'[j] = pc[j] /\ conn'[j] = conn[j] /\ conn[j] # conn[i] /\ conn[j] # None
              /\ Pooled(j)' = Pooled(j) /\ conn[i] \notin Pooled(j)
  BY <1>1, <1>2, Returned
<1>4. depth \in 1 .. MaxDepth
  BY <1>2, PoolAssumption DEF LockInv, LockOK
<1>5. depth' \in 0 .. MaxDepth /\ (depth' = 0 <=> holder' = None) /\ depth' < MaxDepth
  BY <1>1, <1>2, <1>4, PoolAssumption
<1>6. LockOK'
  <2>1. \A j \in Instances : Sweeping(j)' => conn'[j] \notin open'
    BY <1>1, <1>2, <1>3 DEF LockInv, LockOK, Sweeping
  <2>2. holder' \in open' \cup {None}
    BY <1>1 DEF LockInv, LockOK
  <2> QED BY <1>5, <2>1, <2>2 DEF LockOK
<1>7. DepthRoom'
  BY <1>5 DEF DepthRoom
<1>8. OwnLock'
  <2>1. holder' \in {None, conn[i]} /\ \A j \in Instances : None \notin Pooled(j)
    BY <1>1, <1>2, NoBackendAssumption DEF LockInv, PoolsOK, Pooled
  <2> QED BY <1>3, <2>1 DEF OwnLock, Sweeping
<1> QED BY <1>3, <1>6, <1>7, <1>8 DEF LockInv

\* Unlock fails: the connection goes back to the pool, perhaps with the lock.
LEMMA UnlockErrorStep ==
  ASSUME LockInv, NEW i \in Instances, UnlockError(i)
  PROVE  LockInv'
<1>1. /\ pc[i] = "sweep" /\ work[i] = None /\ conn' = [conn EXCEPT ![i] = None]
      /\ pc' = [pc EXCEPT ![i] = "idle"] /\ UNCHANGED <<work, open>>
      /\ Release(i, conn[i]) \/ Discard(i, conn[i])
      /\ holder = conn[i] => depth < MaxDepth
      /\ UNCHANGED <<holder, depth>>
  BY DEF UnlockError, UnlockReturns, GiveBack
<1>2. conn[i] # None
  BY <1>1 DEF LockInv, PhasesOK
<1>3. /\ PoolsOK' /\ PhasesOK'
      /\ \A j \in Instances : idle'[j] \subseteq idle[j] \cup {conn[i]}
      /\ \A j \in Instances : pc'[j] # "idle" =>
           pc'[j] = pc[j] /\ conn'[j] = conn[j] /\ conn[j] # conn[i] /\ conn[j] # None
              /\ Pooled(j)' = Pooled(j) /\ conn[i] \notin Pooled(j)
  BY <1>1, <1>2, Returned
<1>4. LockOK'
  BY <1>1, <1>3 DEF LockInv, LockOK, Sweeping
<1>5. DepthRoom'
  BY <1>1, <1>3 DEF LockInv, DepthRoom
<1>6. OwnLock'
  BY <1>1, <1>3 DEF LockInv, OwnLock, Sweeping
<1> QED BY <1>3, <1>4, <1>5, <1>6 DEF LockInv

\* The statements of a sweep run on a connection of their own.
LEMMA StatementStep ==
  ASSUME LockInv, NEW i \in Instances, SweepAcquire(i) \/ SweepRelease(i)
  PROVE  LockInv'
<1>1. CASE SweepAcquire(i)
  <2>1. /\ Sweeping(i) /\ work[i] = None /\ UNCHANGED <<pc, conn, holder, depth>>
    BY <1>1 DEF SweepAcquire, Sweeping
  <2>2. PICK s \in Backends : Acquire(i, s) /\ work' = [work EXCEPT ![i] = s]
    BY <1>1 DEF SweepAcquire
  <2>3. /\ PoolsOK'
        /\ s \notin taken[i] /\ \A j \in Instances \ {i} : s \notin Pooled(j)
        /\ taken' = [taken EXCEPT ![i] = @ \cup {s}]
        /\ \A j \in Instances : idle'[j] \subseteq idle[j]
        /\ \/ s \in idle[i] /\ open' = open
           \/ s \notin open /\ open' = open \cup {s}
    BY <2>2, Acquired DEF LockInv
  <2>4. conn[i] # None /\ taken[i] = {conn[i]} /\ s # None
    BY <2>1, NoBackendAssumption DEF LockInv, PhasesOK, Sweeping
  <2>5. PhasesOK'
    <3>1. /\ taken'[i] = {conn[i], s} /\ \A j \in Instances \ {i} : taken'[j] = taken[j]
      BY <2>3, <2>4 DEF LockInv, PoolsOK
    <3>2. /\ work' \in [Instances -> Backends \cup {None}] /\ work'[i] = s
          /\ \A j \in Instances \ {i} : work'[j] = work[j]
      BY <2>2 DEF LockInv, PhasesOK
    <3>3. taken'[i] = {conn'[i], work'[i]} \ {None} /\ work'[i] # conn'[i]
      BY <2>1, <2>3, <2>4, <3>1, <3>2
    <3> QED BY <2>1, <2>4, <3>1, <3>2, <3>3, PhaseMoves DEF LockInv, PhasesOK, Sweeping, Phase
  <2>6. LockOK'
    <3>1. ASSUME NEW j \in Instances, conn[j] # None
          PROVE  conn[j] # s
      BY <2>3, <3>1, OwnConn DEF Pooled
    <3>2. \A j \in Instances : Sweeping(j)' => Sweeping(j) /\ conn[j] # None
      BY <2>1 DEF LockInv, PhasesOK, Sweeping
    <3> QED BY <2>1, <2>3, <3>1, <3>2 DEF LockInv, LockOK
  <2>7. DepthRoom'
    BY <2>1, <2>3 DEF LockInv, DepthRoom
  <2>8. OwnLock'
    <3> SUFFICES ASSUME NEW j \in Instances, Sweeping(j), holder \in Pooled(j)'
                 PROVE  holder = conn[j]
      BY <2>1 DEF OwnLock, Sweeping
    <3>1. CASE s \in idle[i]
      <4>1. Pooled(j)' \subseteq Pooled(j)
        BY <2>3, <3>1 DEF LockInv, PoolsOK, Pooled
      <4> QED BY <4>1 DEF LockInv, OwnLock
    <3>2. CASE s \notin open
      <4>1. Pooled(j)' \subseteq Pooled(j) \cup {s}
        BY <2>3 DEF LockInv, PoolsOK, Pooled
      <4>2. holder # s
        BY <2>4, <3>2 DEF LockInv, LockOK
      <4> QED BY <4>1, <4>2 DEF LockInv, OwnLock
    <3> QED BY <2>3, <3>1, <3>2
  <2> QED BY <2>3, <2>5, <2>6, <2>7, <2>8 DEF LockInv
<1>2. CASE SweepRelease(i)
  <2>1. /\ work[i] # None /\ (Release(i, work[i]) \/ Discard(i, work[i]))
        /\ work' = [work EXCEPT ![i] = None] /\ pc' = [pc EXCEPT ![i] = "sweep"]
        /\ UNCHANGED <<conn, open, holder, depth>>
    BY <1>2 DEF SweepRelease, GiveBack
  <2>2. /\ Sweeping(i) /\ work[i] # conn[i] /\ work[i] \in taken[i]
        /\ taken[i] = {conn[i], work[i]} \ {None}
    BY <2>1 DEF LockInv, PhasesOK
  <2>3. /\ PoolsOK' /\ taken' = [taken EXCEPT ![i] = @ \ {work[i]}]
        /\ \A j \in Instances : idle'[j] \subseteq idle[j] \cup {work[i]}
    BY <2>1, <2>2, GivenBack DEF LockInv
  <2>4. PhasesOK'
    <3>1. /\ taken'[i] = taken[i] \ {work[i]} /\ \A j \in Instances \ {i} : taken'[j] = taken[j]
      BY <2>3 DEF LockInv, PoolsOK
    <3>2. /\ work' \in [Instances -> Backends \cup {None}] /\ pc' \in [Instances -> Phase]
          /\ work'[i] = None /\ pc'[i] = "sweep"
          /\ \A j \in Instances \ {i} : work'[j] = work[j] /\ pc'[j] = pc[j]
      BY <2>1 DEF LockInv, PhasesOK, Phase
    <3>3. conn[i] # None
      BY <2>2 DEF LockInv, PhasesOK, Sweeping
    <3>4. taken'[i] = {conn'[i], work'[i]} \ {None}
      BY <2>1, <2>2, <3>1, <3>2, <3>3
    <3> QED BY <2>1, <3>1, <3>2, <3>3, <3>4, PhaseMoves DEF LockInv, PhasesOK
  <2>5. \A j \in Instances : (Sweeping(j)' <=> Sweeping(j)) /\ (pc'[j] = "try" <=> pc[j] = "try")
    BY <2>1, <2>2 DEF LockInv, PhasesOK, Sweeping
  <2>6. LockOK'
    BY <2>1, <2>5 DEF LockInv, LockOK
  <2>7. holder # work[i]
    <3>1. work[i] \in Pooled(i)
      BY <2>2 DEF Pooled
    <3> QED BY <2>2, <3>1 DEF LockInv, OwnLock
  <2>8. DepthRoom'
    <3> SUFFICES ASSUME NEW j \in Instances, holder # None,
                        holder \in idle'[j] \/ (pc'[j] = "try" /\ conn'[j] = holder)
                 PROVE  depth < MaxDepth
      BY <2>1 DEF DepthRoom
    <3>1. holder \in idle[j] \/ (pc[j] = "try" /\ conn[j] = holder)
      BY <2>1, <2>3, <2>5, <2>7
    <3> QED BY <3>1 DEF LockInv, DepthRoom
  <2>9. OwnLock'
    <3>1. \A j \in Instances : Pooled(j)' \subseteq Pooled(j) \cup {work[i]}
      BY <2>3 DEF LockInv, PoolsOK, Pooled
    <3> QED BY <2>1, <2>5, <2>7, <3>1 DEF LockInv, OwnLock
  <2> QED BY <2>3, <2>4, <2>6, <2>8, <2>9 DEF LockInv
<1> QED BY <1>1, <1>2


\* A session that ends takes the lock with it if it was its own.
LEMMA SessionEnds ==
  ASSUME LockInv, NEW s \in Backends, EndSession(s), UNCHANGED <<pc, conn, work, taken>>,
         PoolsOK', \A j \in Instances : idle'[j] \subseteq idle[j]
  PROVE  LockInv'
<1>1. /\ open' = open \ {s} /\ holder' = (IF holder = s THEN None ELSE holder)
      /\ depth' = IF holder = s THEN 0 ELSE depth
  BY DEF EndSession
<1>2. PhasesOK'
  BY DEF LockInv, PhasesOK, Sweeping
<1>3. s # None /\ \A j \in Instances : None \notin Pooled(j)'
  BY NoBackendAssumption DEF PoolsOK, Pooled
<1>4. LockOK'
  <2>1. /\ holder' \in open' \cup {None} /\ depth' \in 0 .. MaxDepth
        /\ (depth' = 0 <=> holder' = None)
    BY <1>1, <1>3, PoolAssumption DEF LockInv, LockOK
  <2>2. \A j \in Instances : Sweeping(j)' /\ conn'[j] \in open' => holder' = conn'[j]
    BY <1>1 DEF LockInv, LockOK, Sweeping
  <2> QED BY <2>1, <2>2 DEF LockOK
<1>5. CASE holder' = None
  <2>1. DepthRoom' /\ OwnLock'
    BY <1>3, <1>5 DEF DepthRoom, OwnLock
  <2> QED BY <1>2, <1>4, <2>1 DEF LockInv
<1>6. CASE holder' = holder /\ depth' = depth
  <2>1. DepthRoom'
    BY <1>6 DEF LockInv, DepthRoom
  <2>2. OwnLock'
    BY <1>6 DEF LockInv, OwnLock, Pooled, Sweeping
  <2> QED BY <1>2, <1>4, <2>1, <2>2 DEF LockInv
<1> QED BY <1>1, <1>5, <1>6

\* The server ends a session.
LEMMA BackendEndsStep ==
  ASSUME LockInv, NEW s \in Backends, BackendEnds(s)
  PROVE  LockInv'
<1>1. EndSession(s) /\ UNCHANGED <<pc, conn, work, idle, taken>> /\ open' \subseteq open
  BY DEF BackendEnds, EndSession
<1>2. PoolsOK'
  BY <1>1 DEF LockInv, PoolsOK, Pooled
<1> QED BY <1>1, <1>2, SessionEnds

\* The pool retires a connection.
LEMMA RecycleStep ==
  ASSUME LockInv, NEW i \in Instances, NEW s \in Backends, Recycle(i, s)
  PROVE  LockInv'
<1>1. /\ idle' = [idle EXCEPT ![i] = @ \ {s}] /\ EndSession(s)
      /\ UNCHANGED <<pc, conn, work, taken>> /\ open' \subseteq open
  BY DEF Recycle, EndSession
<1>2. idle' \in [Instances -> SUBSET Backends] /\ \A j \in Instances : idle'[j] \subseteq idle[j]
  BY <1>1 DEF LockInv, PoolsOK
<1>3. PoolsOK'
  <2>1. \A j \in Instances : /\ idle'[j] \cup taken'[j] \subseteq Pooled(j)
                             /\ idle'[j] \cap taken'[j] = {}
    BY <1>1, <1>2 DEF LockInv, PoolsOK, Pooled
  <2>2. open' \subseteq Backends /\ taken' \in [Instances -> SUBSET Backends]
    BY <1>1 DEF LockInv, PoolsOK
  <2> QED BY <1>2, <2>1, <2>2, PoolsShrink DEF LockInv
<1> QED BY <1>1, <1>2, <1>3, SessionEnds

\* A process that dies leaves its sessions, and perhaps the lock, to the server.
LEMMA CrashStep ==
  ASSUME LockInv, NEW i \in Instances, Crash(i)
  PROVE  LockInv'
<1>1. /\ pc' = [pc EXCEPT ![i] = "idle"] /\ conn' = [conn EXCEPT ![i] = None]
      /\ work' = [work EXCEPT ![i] = None] /\ idle' = [idle EXCEPT ![i] = {}]
      /\ taken' = [taken EXCEPT ![i] = {}] /\ UNCHANGED <<open, holder, depth>>
  BY DEF Crash
<1>2. /\ pc' \in [Instances -> Phase] /\ conn' \in [Instances -> Backends \cup {None}]
      /\ work' \in [Instances -> Backends \cup {None}]
      /\ pc'[i] = "idle" /\ conn'[i] = None /\ work'[i] = None
      /\ \A j \in Instances \ {i} : pc'[j] = pc[j] /\ conn'[j] = conn[j] /\ work'[j] = work[j]
  BY <1>1 DEF LockInv, PhasesOK, Phase
<1>3. /\ idle' \in [Instances -> SUBSET Backends] /\ taken' \in [Instances -> SUBSET Backends]
      /\ idle'[i] = {} /\ taken'[i] = {}
      /\ \A j \in Instances \ {i} : idle'[j] = idle[j] /\ taken'[j] = taken[j]
  BY <1>1 DEF LockInv, PoolsOK
<1>4. PoolsOK'
  <2>1. \A j \in Instances : /\ idle'[j] \cup taken'[j] \subseteq Pooled(j)
                             /\ idle'[j] \cap taken'[j] = {}
    BY <1>3 DEF LockInv, PoolsOK, Pooled
  <2> QED BY <1>1, <1>3, <2>1, PoolsShrink DEF LockInv, PoolsOK
<1>5. PhasesOK'
  BY <1>2, <1>3, PhaseMoves DEF LockInv
<1>6. LockOK'
  BY <1>1, <1>2 DEF LockInv, LockOK, Sweeping
<1>7. DepthRoom'
  BY <1>1, <1>2, <1>3 DEF LockInv, DepthRoom
<1>8. OwnLock'
  <2>1. \A j \in Instances : Sweeping(j)' =>
          Sweeping(j) /\ conn'[j] = conn[j] /\ Pooled(j)' = Pooled(j)
    BY <1>2, <1>3 DEF Sweeping, Pooled
  <2> QED BY <1>1, <2>1 DEF LockInv, OwnLock
<1> QED BY <1>4, <1>5, <1>6, <1>7, <1>8 DEF LockInv

\* The pools start empty and the lock free.
LEMMA LockInit == Init => LockInv
<1> SUFFICES ASSUME Init PROVE LockInv
  OBVIOUS
<1>1. PoolsOK
  <2>1. \A i \in Instances : Pooled(i) = {}
    BY DEF Init, Pooled
  <2>2. \A i \in Instances : IsFiniteSet(Pooled(i)) /\ Cardinality(Pooled(i)) <= PoolSize
    BY <2>1, FS_EmptySet, PoolAssumption
  <2> QED BY <2>1, <2>2 DEF Init, PoolsOK
<1>2. PhasesOK /\ LockOK /\ DepthRoom /\ OwnLock
  BY PoolAssumption, NoBackendAssumption DEF Init, PhasesOK, LockOK, DepthRoom, OwnLock, Sweeping
<1> QED BY <1>1, <1>2 DEF LockInv

\* Every step of every instance, of the pools and of the server keeps LockInv.
LEMMA LockStep == LockInv /\ [Next]_vars => LockInv'
<1> SUFFICES ASSUME LockInv, [Next]_vars PROVE LockInv'
  OBVIOUS
<1>1. ASSUME NEW i \in Instances, Sweep(i) \/ Crash(i)
      PROVE  LockInv'
  BY <1>1, TryLockStep, TryLockTrueStep, TryLockFalseStep, TryLockErrorStep, StatementStep,
    UnlockStep, UnlockErrorStep, CrashStep DEF Sweep
<1>2. ASSUME NEW s \in Backends, BackendEnds(s)
      PROVE  LockInv'
  BY <1>2, BackendEndsStep
<1>3. ASSUME NEW i \in Instances, NEW s \in Backends, Recycle(i, s)
      PROVE  LockInv'
  BY <1>3, RecycleStep
<1>4. CASE UNCHANGED vars
  BY <1>4 DEF vars, LockInv, PoolsOK, PhasesOK, LockOK, DepthRoom, OwnLock, Pooled, Sweeping
<1> QED BY <1>1, <1>2, <1>3, <1>4 DEF Next

\* LockInv holds at first, and every step keeps it.
LEMMA LockAlways == Spec => []LockInv
  BY LockInit, LockStep, PTL DEF Spec

\* The pools, the connections in use and the lock fit together.
THEOREM LockTypes == Spec => []TypeOK
  BY LockAlways, LockInvTypes, PTL

\* Two instances never sweep under live sessions at once, whatever fails, is
\* recycled or crashes: a lock that a failed unlock leaves on a pooled
\* connection is only ever taken again through that connection.
THEOREM OneSweeper == Spec => []OneLiveSweeper
  BY LockAlways, LockInvOneSweeper, PTL
=============================================================================
