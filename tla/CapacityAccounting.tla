------------------------- MODULE CapacityAccounting -------------------------
(***************************************************************************)
(* The counters of pools and quotas against the holds they count: sums     *)
(* over the rows of holds.                                                 *)
(***************************************************************************)
EXTENDS Repository

\* The amounts of S one unit at a time: n units of x are <<x, 1>> .. <<x, n>>.
Units(amount, S) == UNION {{x} \X (1 .. amount[x]) : x \in S}

\* The sum of amount[x] over S: how many units there are.  Counting needs no
\* recursion, so that the sum can be proved about.
Total(amount, S) == Cardinality(Units(amount, S))

RequestsOf(c) == {id \in ReqIds : request[id].cust = c}

\* The total amount of kind k under the holds with these statuses.
Holders(k, ids, statuses) == {id \in ids : hold[id][k] \in statuses}
LineAmounts(k) == [id \in ReqIds |-> PlanOf(id)[k]]
Held(k, ids, statuses) == Total(LineAmounts(k), Holders(k, ids, statuses))

\* What is reserved and what is dedicated of a pool, and what counts against a
\* quota: a hold counts there until it is released or expired, so a dedicated
\* one keeps counting.
HeldActive(k) == Held(k, ReqIds, {"ACTIVE"})
HeldDedicated(k) == Held(k, ReqIds, {"DEDICATED"})
HeldBy(c, k) == Held(k, RequestsOf(c), {"ACTIVE", "DEDICATED"})

\* Each counter is exactly the sum of the holds it stands for.
CountersMatchHolds ==
  /\ \A k \in Kinds : reserved[k] = HeldActive(k) /\ dedicated[k] = HeldDedicated(k)
  /\ \A c \in Customers, k \in Kinds : used[c][k] = HeldBy(c, k)

\* However calls overlap, a quota never counts more than its customer holds and
\* a pool never counts more as dedicated than is: releasing a quota is clamped
\* at zero, never skipped, so no customer loses quota for good.
NothingOvercounted ==
  /\ \A k \in Kinds : dedicated[k] <= HeldDedicated(k)
  /\ \A c \in Customers, k \in Kinds : used[c][k] <= HeldBy(c, k)

\* What customers hold of a pool, reserved or dedicated, fits in it.
HeldWithinCapacity ==
  \A k \in Kinds : HeldActive(k) + HeldDedicated(k) <= Effective[k]
=============================================================================
