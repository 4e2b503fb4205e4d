---------------------------- MODULE SweeperLock ----------------------------
(***************************************************************************)
(* The sweeper's advisory lock (internal/repository/postgres/locker.go)    *)
(* over the connections it is taken through: every sweeper instance has a  *)
(* pgx pool; a pooled connection stands for one backend session of the     *)
(* Postgres server; the advisory lock belongs to a session, stacks when    *)
(* that session takes it again and ends with it.                           *)
(*                                                                         *)
(* The pool and the server are external: they are modelled from how TryLock*)
(* and Unlock use them.  One goroutine per instance calls ExpireDue, so    *)
(* the mutex of Locker is never contended.                                 *)
(***************************************************************************)
EXTENDS Integers, FiniteSets

CONSTANTS
  Instances,   \* sweeper instances
  Backends,    \* session slots of the server (max_connections)
  PoolSize,    \* connections a pool may open (pool_max_conns)
  MaxDepth,    \* bound: how often one session stacks the lock
  None

ASSUME PoolAssumption == PoolSize \in Nat \ {0} /\ MaxDepth \in Nat \ {0}
ASSUME NoBackendAssumption == None \notin Backends

VARIABLES
  pc,      \* pc[i]: "idle", "try" (TryLock has a connection), "list", "sweep"
  conn,    \* conn[i]: the connection TryLock acquired, then l.conn
  work,    \* work[i]: the connection of the statement the sweep is running
  idle,    \* idle[i]: connections the pool of i holds in reserve
  taken,   \* taken[i]: connections acquired from it and not yet released
  open,    \* backend sessions alive on the server
  holder,  \* the session that holds the advisory lock, or None
  depth    \* how often it has taken it

vars == <<pc, conn, work, idle, taken, open, holder, depth>>

Init ==
  /\ pc = [i \in Instances |-> "idle"]
  /\ conn = [i \in Instances |-> None]
  /\ work = [i \in Instances |-> None]
  /\ idle = [i \in Instances |-> {}]
  /\ taken = [i \in Instances |-> {}]
  /\ open = {}
  /\ holder = None
  /\ depth = 0

Pooled(i) == idle[i] \cup taken[i]
Unused == Backends \ (open \cup UNION {Pooled(i) : i \in Instances})

-----------------------------------------------------------------------------
(* The pool. *)

\* Pool.Acquire: a connection in reserve, perhaps one whose session has ended
\* meanwhile, or a new one while the pool may open more.  With neither it waits.
Acquire(i, s) ==
  /\ \/ /\ s \in idle[i]
        /\ idle' = [idle EXCEPT ![i] = @ \ {s}]
        /\ UNCHANGED open
     \/ /\ idle[i] = {} /\ Cardinality(Pooled(i)) < PoolSize
        /\ Unused # {} /\ s = CHOOSE u \in Unused : TRUE
        /\ open' = open \cup {s}
        /\ UNCHANGED idle
  /\ taken' = [taken EXCEPT ![i] = @ \cup {s}]

\* Conn.Release puts a connection back in reserve, or drops one known to be
\* broken.
Release(i, s) == /\ idle' = [idle EXCEPT ![i] = @ \cup {s}]
                 /\ taken' = [taken EXCEPT ![i] = @ \ {s}]
Discard(i, s) == taken' = [taken EXCEPT ![i] = @ \ {s}] /\ UNCHANGED idle

\* A statement that fails leaves the connection usable (statement_timeout) or
\* broken; on a session that has ended it always breaks.
GiveBack(i, s) == (s \in open /\ Release(i, s)) \/ Discard(i, s)

EndSession(s) ==
  /\ open' = open \ {s}
  /\ holder' = IF holder = s THEN None ELSE holder
  /\ depth' = IF holder = s THEN 0 ELSE depth

-----------------------------------------------------------------------------
(* Locker. *)

TryLock(i) ==
  /\ pc[i] = "idle" /\ conn[i] = None
  /\ \E s \in Backends : Acquire(i, s) /\ conn' = [conn EXCEPT ![i] = s]
  /\ pc' = [pc EXCEPT ![i] = "try"]
  /\ UNCHANGED <<work, holder, depth>>

\* Mutant: the answer is not looked at.
TryLockAssumed(i) ==
  /\ pc[i] = "try" /\ conn[i] \in open
  /\ holder' = conn[i]
  /\ depth' = 1
  /\ pc' = [pc EXCEPT ![i] = "list"]
  /\ UNCHANGED <<conn, work, idle, taken, open>>

\* pg_try_advisory_lock answers true: also to the session that has it already.
TryLockTrue(i) ==
  /\ pc[i] = "try" /\ conn[i] \in open
  /\ holder \in {None, conn[i]}
  /\ holder' = conn[i]
  /\ depth' = depth + 1
  /\ pc' = [pc EXCEPT ![i] = "list"]
  /\ UNCHANGED <<conn, work, idle, taken, open>>

\* Mutant: the connection is not released when the answer is false.
TryLockFalseLeaks(i) ==
  /\ pc[i] = "try" /\ conn[i] \in open
  /\ holder \notin {None, conn[i]}
  /\ conn' = [conn EXCEPT ![i] = None]
  /\ pc' = [pc EXCEPT ![i] = "idle"]
  /\ UNCHANGED <<work, idle, taken, open, holder, depth>>

TryLockFalse(i) ==
  /\ pc[i] = "try" /\ conn[i] \in open
  /\ holder \notin {None, conn[i]}
  /\ Release(i, conn[i])
  /\ conn' = [conn EXCEPT ![i] = None]
  /\ pc' = [pc EXCEPT ![i] = "idle"]
  /\ UNCHANGED <<work, open, holder, depth>>

\* The query fails.  A connection that breaks may have taken the lock first.
TryLockError(i) ==
  /\ pc[i] = "try"
  /\ \/ GiveBack(i, conn[i]) /\ UNCHANGED <<holder, depth>>
     \/ /\ conn[i] \in open /\ holder = None
        /\ Discard(i, conn[i]) /\ holder' = conn[i] /\ depth' = 1
  /\ conn' = [conn EXCEPT ![i] = None]
  /\ pc' = [pc EXCEPT ![i] = "idle"]
  /\ UNCHANGED <<work, open>>

\* A statement or transaction of ExpireDue, on a connection of its own: the one
\* of ListExpiredIDs always, those of the requests it found after that.
SweepAcquire(i) ==
  /\ pc[i] \in {"list", "sweep"} /\ work[i] = None
  /\ \E s \in Backends : Acquire(i, s) /\ work' = [work EXCEPT ![i] = s]
  /\ UNCHANGED <<pc, conn, holder, depth>>

SweepRelease(i) ==
  /\ work[i] # None
  /\ GiveBack(i, work[i])
  /\ work' = [work EXCEPT ![i] = None]
  /\ pc' = [pc EXCEPT ![i] = "sweep"]
  /\ UNCHANGED <<conn, open, holder, depth>>

UnlockReturns(i) ==
  /\ pc[i] = "sweep" /\ work[i] = None
  /\ conn' = [conn EXCEPT ![i] = None]
  /\ pc' = [pc EXCEPT ![i] = "idle"]
  /\ UNCHANGED <<work, open>>

\* Mutant: l.conn is not set back to nil.
UnlockKeepsConn(i) ==
  /\ pc[i] = "sweep" /\ work[i] = None
  /\ conn[i] \in open
  /\ Release(i, conn[i])
  /\ holder' = IF depth = 1 THEN None ELSE holder
  /\ depth' = depth - 1
  /\ pc' = [pc EXCEPT ![i] = "idle"]
  /\ UNCHANGED <<conn, work, open>>

Unlock(i) ==
  /\ UnlockReturns(i)
  /\ conn[i] \in open
  /\ Release(i, conn[i])
  /\ holder' = IF depth = 1 THEN None ELSE holder
  /\ depth' = depth - 1

\* pg_advisory_unlock fails.  Unlock releases the connection all the same.
UnlockError(i) ==
  /\ UnlockReturns(i)
  /\ GiveBack(i, conn[i])
  /\ holder = conn[i] => depth < MaxDepth
  /\ UNCHANGED <<holder, depth>>

-----------------------------------------------------------------------------
(* The server, the network and the processes. *)

Abandoned(s) == s \in open /\ \A i \in Instances : s \notin Pooled(i)

\* A session ends: killed, timed out, or its client is gone.  One that ends in
\* a pool without the lock shows as the failing statement GiveBack allows for.
BackendEnds(s) ==
  /\ s \in open
  /\ s = holder \/ Abandoned(s)
  /\ EndSession(s)
  /\ UNCHANGED <<pc, conn, work, idle, taken>>

\* MaxConnLifetime: the pool closes a connection it holds in reserve.
Recycle(i, s) ==
  /\ s \in idle[i]
  /\ idle' = [idle EXCEPT ![i] = @ \ {s}]
  /\ EndSession(s)
  /\ UNCHANGED <<pc, conn, work, taken>>

\* The sweeper process dies; its sessions end when the server notices.
Crash(i) ==
  /\ Pooled(i) # {}
  /\ pc' = [pc EXCEPT ![i] = "idle"]
  /\ conn' = [conn EXCEPT ![i] = None]
  /\ work' = [work EXCEPT ![i] = None]
  /\ idle' = [idle EXCEPT ![i] = {}]
  /\ taken' = [taken EXCEPT ![i] = {}]
  /\ UNCHANGED <<open, holder, depth>>

Sweep(i) ==
  \/ TryLock(i) \/ TryLockTrue(i) \/ TryLockFalse(i) \/ TryLockError(i)
  \/ SweepAcquire(i) \/ SweepRelease(i)
  \/ Unlock(i) \/ UnlockError(i)

Next ==
  \/ \E i \in Instances : Sweep(i) \/ Crash(i)
  \/ \E s \in Backends : BackendEnds(s)
  \/ \E i \in Instances, s \in Backends : Recycle(i, s)

Spec == Init /\ [][Next]_vars

\* The ticker keeps calling, a call that waits for a connection gets one when
\* there is one, statements do not fail for ever, the server notices clients
\* that are gone, and the pool retires connections, a locked one included.
Fairness ==
  /\ \A i \in Instances :
       /\ SF_vars(TryLock(i) \/ SweepAcquire(i))
       /\ SF_vars(TryLockTrue(i))
       /\ SF_vars(Unlock(i) \/ UnlockError(i))
       /\ WF_vars(TryLockFalse(i) \/ TryLockError(i) \/ SweepRelease(i))
  /\ WF_vars(\E s \in Backends : Abandoned(s) /\ BackendEnds(s))
  /\ WF_vars(\E s \in Backends : s = holder /\ Abandoned(s) /\ BackendEnds(s))
  /\ SF_vars(\E i \in Instances, s \in Backends : s = holder /\ Recycle(i, s))

FairSpec == Spec /\ Fairness

-----------------------------------------------------------------------------
Sweeping(i) == pc[i] \in {"list", "sweep"}

\* The lock is held by a live session if at all, a connection is in use or in
\* reserve and in one pool only, and no pool grows past its size.
TypeOK ==
  /\ pc \in [Instances -> {"idle", "try", "list", "sweep"}]
  /\ conn \in [Instances -> Backends \cup {None}]
  /\ work \in [Instances -> Backends \cup {None}]
  /\ open \subseteq Backends
  /\ holder \in open \cup {None}
  /\ depth \in 0 .. MaxDepth /\ (depth = 0) = (holder = None)
  /\ \A i \in Instances :
       /\ Pooled(i) \subseteq Backends /\ Cardinality(Pooled(i)) <= PoolSize
       /\ idle[i] \cap taken[i] = {}
       /\ taken[i] = {conn[i], work[i]} \ {None}
       /\ \A j \in Instances \ {i} : Pooled(i) \cap Pooled(j) = {}

\* Two instances sweep at once only when the session of one of them, and with
\* it the lock, has ended under the sweep (ExpireDue does not notice).
OneLiveSweeper ==
  \A i, j \in Instances :
    i # j /\ Sweeping(i) /\ Sweeping(j) => ~({conn[i], conn[j]} \subseteq open)

\* A sweep always ends: the connection the locker pins for its whole length
\* leaves one for its statements.
SweepsEnd == \A i \in Instances : Sweeping(i) ~> ~Sweeping(i)

\* The service never stops sweeping: no failed unlock, dead session or crash
\* keeps the lock from every instance for ever.
SweepsGoOn == []<>(\E i \in Instances : Sweeping(i))
=============================================================================
