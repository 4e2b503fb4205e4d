----------------------- MODULE CapacityServiceProofs -----------------------
(***************************************************************************)
(* Proofs about CapacityService, for any numbers of workers, sweepers,     *)
(* customers, keys, bodies, kinds and requests, and any time parameters;   *)
(* and that it implements RequestLife and, where calls do not overlap,     *)
(* Ledger.                                                                 *)
(***************************************************************************)
EXTENDS CapacityRefinement, RepositoryProofs

-----------------------------------------------------------------------------
(* The local variables of a process: what an assignment to one of them      *)
(* leaves alone.                                                            *)

\* Assigning id.
LEMMA SetId ==
  ASSUME loc \in [Procs -> Locals], NEW p \in Procs, NEW id \in ReqIds \cup {None},
         loc' = [loc EXCEPT ![p].id = id]
  PROVE  /\ loc' \in [Procs -> Locals]
         /\ loc'[p].id = id /\ loc'[p].in = loc[p].in /\ loc'[p].now = loc[p].now
         /\ loc'[p].snap = loc[p].snap
         /\ \A q \in Procs : q # p => loc'[q] = loc[q]
  BY DEF Locals

\* Assigning in.
LEMMA SetIn ==
  ASSUME loc \in [Procs -> Locals], NEW p \in Procs, NEW in \in Input,
         loc' = [loc EXCEPT ![p].in = in]
  PROVE  /\ loc' \in [Procs -> Locals]
         /\ loc'[p].in = in
         /\ \A q \in Procs : q # p => loc'[q] = loc[q]
  BY DEF Locals

\* Assigning now.
LEMMA SetNow ==
  ASSUME loc \in [Procs -> Locals], NEW p \in Procs, NEW now \in Nat,
         loc' = [loc EXCEPT ![p].now = now]
  PROVE  /\ loc' \in [Procs -> Locals]
         /\ loc'[p].now = now /\ loc'[p].in = loc[p].in
         /\ \A q \in Procs : q # p => loc'[q] = loc[q]
  BY DEF Locals

\* Assigning snap.
LEMMA SetSnap ==
  ASSUME loc \in [Procs -> Locals], NEW p \in Procs, NEW S \in SUBSET Kinds,
         loc' = [loc EXCEPT ![p].snap = S]
  PROVE  /\ loc' \in [Procs -> Locals]
         /\ loc'[p].snap = S /\ loc'[p].id = loc[p].id
         /\ \A q \in Procs : q # p => loc'[q] = loc[q]
  BY DEF Locals

\* Clearing all of them when a call returns.
LEMMA ClearLocals ==
  ASSUME loc \in [Procs -> Locals], NEW p \in Procs,
         loc' = [loc EXCEPT ![p] = NoLocals]
  PROVE  /\ loc' \in [Procs -> Locals]
         /\ \A q \in Procs : q # p => loc'[q] = loc[q]
  BY DEF Locals, NoLocals, NoInput, NoExtension

-----------------------------------------------------------------------------
(* Type correctness. *)

\* The migrated, empty database and idle processes are well typed.
LEMMA TypeInit == Init => TypeOK
<1> SUFFICES ASSUME Init PROVE TypeOK
  OBVIOUS
<1>1. NoLocals \in Locals
  BY DEF NoLocals, Locals, NoInput, NoExtension
<1>2. RepositoryTypeOK
  BY DEF Init, RepositoryInit, RepositoryTypeOK
<1>3. \A p \in Procs : LocalsOK(p)
  BY DEF Init, LocalsOK, AdmitPC, CreatedPC, LifecyclePC
<1> QED BY <1>1, <1>2, <1>3 DEF Init, TypeOK, PC

\* What a step that changes no table and at most one process has to show.
LEMMA LocalStep ==
  ASSUME TypeOK, NEW p \in Procs, NEW label \in PC,
         UNCHANGED <<db, batch>>, pc' = [pc EXCEPT ![p] = label],
         idem' \in [RedisKeys -> ReqIds \cup {None}],
         answered' \subseteq [cust : Customers, key : Keys, body : Bodies, id : ReqIds],
         lock' \in Sweepers \cup {None}, clock' \in Nat,
         loc' \in [Procs -> Locals],
         \A q \in Procs : q # p => loc'[q] = loc[q],
         label \in AdmitPC \cup CreatedPC => loc'[p].in \in Input,
         label \in CreatedPC \cup LifecyclePC => 
           loc'[p].id \in ReqIds /\ request'[loc'[p].id].status # "NONE"
  PROVE  TypeOK'
<1>1. \A i \in ReqIds : Exists(i)' = Exists(i)
  BY DEF Exists, db
<1>2. \A q \in Procs : LocalsOK(q)'
  <2> TAKE q \in Procs
  <2>1. CASE q = p
    BY <2>1 DEF LocalsOK, TypeOK, Exists
  <2>2. CASE q # p
    BY <1>1, <2>2 DEF LocalsOK, TypeOK
  <2> QED BY <2>1, <2>2
<1>3. RepositoryTypeOK'
  BY DEF TypeOK, RepositoryTypeOK, db
<1>4. \A s \in Sweepers : \A id \in batch'[s] : Exists(id)'
  BY <1>1 DEF TypeOK
<1> QED BY <1>2, <1>3, <1>4 DEF TypeOK

\* What a step that writes tables and ends or moves one process has to show.
LEMMA TableStep ==
  ASSUME TypeOK, NEW p \in Procs, NEW label \in PC,
         RepositoryTypeOK', \A i \in ReqIds : Exists(i) => Exists(i)',
         UNCHANGED <<idem, answered, lock, clock, batch>>,
         pc' = [pc EXCEPT ![p] = label],
         loc' \in [Procs -> Locals],
         \A q \in Procs : q # p => loc'[q] = loc[q],
         label \in AdmitPC \cup CreatedPC => loc'[p].in \in Input,
         label \in CreatedPC \cup LifecyclePC => 
           loc'[p].id \in ReqIds /\ request'[loc'[p].id].status # "NONE"
  PROVE  TypeOK'
<1>1. \A q \in Procs : LocalsOK(q)'
  <2> TAKE q \in Procs
  <2>1. CASE q = p
    BY <2>1 DEF LocalsOK, TypeOK, Exists
  <2>2. CASE q # p
    BY <2>2 DEF LocalsOK, TypeOK
  <2> QED BY <2>1, <2>2
<1>2. \A s \in Sweepers : \A id \in batch'[s] : Exists(id)'
  BY DEF TypeOK
<1> QED BY <1>1, <1>2 DEF TypeOK

\* The steps of CreateRequest.
LEMMA TypeCreate ==
  ASSUME TypeOK, NEW w \in Workers, Create(w)
  PROVE  TypeOK'
<1> w \in Procs /\ loc[w] \in Locals /\ LocalsOK(w)
  BY DEF TypeOK, Procs
<1> USE DEF At
<1>1. ASSUME NEW c \in Customers, NEW key \in Keys, NEW b \in Bodies,
             ReplayFromRedis(w, c, key, b)
      PROVE  TypeOK'
  <2>1. IdemGet(c, key) \in ReqIds
    BY <1>1 DEF ReplayFromRedis, IdemGet, RedisKeys, TypeOK
  <2>2. answered' \subseteq [cust : Customers, key : Keys, body : Bodies, id : ReqIds]
    BY <1>1, <2>1 DEF ReplayFromRedis, Answer, TypeOK
  <2> QED BY <1>1, <2>2 DEF ReplayFromRedis, TypeOK, RepositoryTypeOK, LocalsOK, Exists, db, proc
<1>2. ASSUME NEW c \in Customers, NEW key \in Keys, NEW b \in Bodies,
             ReplayFromDB(w, c, key, b)
      PROVE  TypeOK'
  <2>1. PICK id \in ReqIds : IdemSet(c, key, id) /\ Answer(c, key, b, id)
    BY <1>2 DEF ReplayFromDB, FindByIdempotency
  <2>2. idem' \in [RedisKeys -> ReqIds \cup {None}]
    BY <2>1 DEF IdemSet, RedisKeys, TypeOK
  <2>3. answered' \subseteq [cust : Customers, key : Keys, body : Bodies, id : ReqIds]
    BY <2>1 DEF Answer, TypeOK
  <2> QED BY <1>2, <2>2, <2>3 DEF ReplayFromDB, TypeOK, RepositoryTypeOK, LocalsOK, Exists, db, proc
<1>3. ASSUME NEW c \in Customers, NEW key \in Keys, NEW b \in Bodies,
             CreateAdmit(w, c, key, b)
      PROVE  TypeOK'
  <2>1. [cust |-> c, key |-> key, body |-> b] \in Input
    BY DEF Input
  <2> QED BY <1>3, <2>1, SetIn, LocalStep
    DEF CreateAdmit, TypeOK, PC, AdmitPC, CreatedPC, LifecyclePC
<1>4. ASSUME \/ enforceActiveHoldsLimit(w) \/ ReserveDuplicate(w) \/ ReserveReject(w)
             \/ PersistRejectedDuplicate(w)
      PROVE  TypeOK'
  <2>1. PICK label \in {"plan", "replay", "reject", "rejectReplay"} :
          /\ Goto(w, label) /\ UNCHANGED <<db, idem, answered, lock, clock>>
          /\ pc[w] \in AdmitPC
    BY <1>4 DEF enforceActiveHoldsLimit, ReserveDuplicate, ReserveReject,
                PersistRejectedDuplicate, AdmitPC
  <2> QED BY <2>1, LocalStep
    DEF Goto, TypeOK, LocalsOK, PC, AdmitPC, CreatedPC, LifecyclePC
<1>5. CASE buildReservationPlan(w)
  BY <1>5, SetNow, LocalStep
    DEF buildReservationPlan, TypeOK, LocalsOK, PC, AdmitPC, CreatedPC, LifecyclePC
<1>6. ASSUME NEW id \in ReqIds, reserveWithinTx(w, id)
      PROVE  TypeOK'
  <2> DEFINE in == loc[w].in
             now == loc[w].now
             row == [status |-> "RESERVED", cust |-> in.cust, key |-> in.key,
                     body |-> in.body, created |-> now, exp |-> now + TTL, ext |-> 0]
  <2>1. in \in Input /\ now \in Nat
    BY <1>6 DEF reserveWithinTx, LocalsOK, AdmitPC, Locals
  <2>2. in.cust \in Customers /\ Plan[in.body] \in [Kinds -> Nat]
    BY <2>1, PlanAssumption DEF Input
  <2>3. row \in Row
    BY <2>1, TimeAssumption DEF Row, RequestStatus, Input
  <2>4. /\ request' \in [ReqIds -> Row \cup {NoRow}] /\ request'[id] = row
        /\ \A i \in ReqIds : i # id => request'[i] = request[i]
    <3>1. request' = [request EXCEPT ![id] = row]
      BY <1>6 DEF reserveWithinTx, CreateReserved
    <3> HIDE DEF row
    <3> QED BY <2>3, <3>1, InsertedRow DEF TypeOK
  <2>5. reserved' \in [Kinds -> Nat]
    BY <1>6, <2>2 DEF reserveWithinTx, TryReserve, TypeOK, RepositoryTypeOK
  <2>6. used' \in [Customers -> [Kinds -> Nat]]
    BY <1>6, <2>2 DEF reserveWithinTx, EnsureAndTryConsume, TypeOK, RepositoryTypeOK
  <2>7. hold' \in [ReqIds -> [Kinds -> HoldStatus \cup {"NONE"}]]
    BY <1>6 DEF reserveWithinTx, CreateReserved, TypeOK, RepositoryTypeOK, HoldStatus
  <2>8. event' \in [ReqIds -> [EventType -> Nat]]
    BY <1>6, InsertedEvent DEF reserveWithinTx, CreateReserved, TypeOK, EventType
  <2>9. RepositoryTypeOK'
    BY <1>6, <2>4, <2>5, <2>6, <2>7, <2>8 DEF reserveWithinTx, TypeOK, RepositoryTypeOK
  <2>10. /\ loc' \in [Procs -> Locals] /\ loc'[w].id = id /\ loc'[w].in = in
         /\ \A q \in Procs : q # w => loc'[q] = loc[q]
         /\ pc' = [pc EXCEPT ![w] = "record"]
    BY <1>6, SetId DEF reserveWithinTx, GotoWith, TypeOK
  <2>11. \A i \in ReqIds : Exists(i) => Exists(i)'
    BY <2>4 DEF Exists
  <2>12. request'[loc'[w].id].status # "NONE" /\ loc'[w].id \in ReqIds
    BY <2>4, <2>10
  <2>13. UNCHANGED <<idem, answered, lock, clock, batch>>
    BY <1>6 DEF reserveWithinTx, GotoWith
  <2> HIDE DEF in
  <2> QED BY <2>1, <2>9, <2>10, <2>11, <2>12, <2>13, TableStep DEF PC, CreatedPC
<1>7. ASSUME NEW id \in ReqIds, persistRejected(w, id)
      PROVE  TypeOK'
  <2> DEFINE in == loc[w].in
             row == [status |-> "REJECTED", cust |-> in.cust, key |-> in.key,
                     body |-> in.body, created |-> loc[w].now, exp |-> 0, ext |-> 0]
  <2>1. in \in Input /\ loc[w].now \in Nat
    BY <1>7 DEF persistRejected, LocalsOK, AdmitPC, Locals
  <2>2. row \in Row
    BY <2>1 DEF Row, RequestStatus, Input
  <2>3. /\ request' \in [ReqIds -> Row \cup {NoRow}] /\ request'[id] = row
        /\ \A i \in ReqIds : i # id => request'[i] = request[i]
    <3>1. request' = [request EXCEPT ![id] = row]
      BY <1>7 DEF persistRejected, InsertRejected
    <3> HIDE DEF row
    <3> QED BY <2>2, <3>1, InsertedRow DEF TypeOK
  <2>4. RepositoryTypeOK'
    BY <1>7, <2>3 DEF persistRejected, TypeOK, RepositoryTypeOK
  <2>5. /\ loc' \in [Procs -> Locals] /\ loc'[w].id = id /\ loc'[w].in = in
        /\ \A q \in Procs : q # w => loc'[q] = loc[q]
        /\ pc' = [pc EXCEPT ![w] = "rejectDetail"]
    BY <1>7, SetId DEF persistRejected, GotoWith, TypeOK
  <2>6. \A i \in ReqIds : Exists(i) => Exists(i)'
    BY <2>3 DEF Exists
  <2>7. request'[loc'[w].id].status # "NONE" /\ loc'[w].id \in ReqIds
    BY <2>3, <2>5
  <2>8. UNCHANGED <<idem, answered, lock, clock, batch>>
    BY <1>7 DEF persistRejected, GotoWith
  <2> HIDE DEF in
  <2> QED BY <2>1, <2>4, <2>5, <2>6, <2>7, <2>8, TableStep DEF PC, CreatedPC
<1>8. CASE PersistRejectedDetail(w)
  <2>1. loc[w].id \in ReqIds /\ Exists(loc[w].id) /\ loc[w].in \in Input
    BY <1>8 DEF PersistRejectedDetail, LocalsOK, CreatedPC
  <2>2. event' \in [ReqIds -> [EventType -> Nat]]
    BY <1>8, <2>1, InsertedEvent DEF PersistRejectedDetail, TypeOK, EventType
  <2>3. RepositoryTypeOK'
    BY <1>8, <2>2 DEF PersistRejectedDetail, TypeOK, RepositoryTypeOK
  <2> QED BY <1>8, <2>1, <2>3, TableStep
    DEF PersistRejectedDetail, Goto, TypeOK, Exists, PC, AdmitPC, CreatedPC, LifecyclePC
<1>9. CASE replayAfterDuplicate(w)
  <2>1. loc[w].in \in Input
    BY <1>9 DEF replayAfterDuplicate, LocalsOK, AdmitPC
  <2>2. answered' \subseteq [cust : Customers, key : Keys, body : Bodies, id : ReqIds]
    BY <1>9, <2>1 DEF replayAfterDuplicate, Answer, Duplicates, FindByIdempotency, TypeOK, Input
  <2> QED BY <1>9, <2>2, ClearLocals, LocalStep
    DEF replayAfterDuplicate, Return, TypeOK, PC, AdmitPC, CreatedPC, LifecyclePC
<1>10. CASE RejectedReplay(w)
  <2>1. PICK id \in ReqIds : Exists(id) /\ GotoWith(w, "record", id)
    BY <1>10 DEF RejectedReplay, Duplicates, FindByIdempotency
  <2>2. loc[w].in \in Input
    BY <1>10 DEF RejectedReplay, LocalsOK, AdmitPC
  <2>3. /\ loc' \in [Procs -> Locals] /\ loc'[w].id = id /\ loc'[w].in = loc[w].in
        /\ \A q \in Procs : q # w => loc'[q] = loc[q]
    BY <2>1, SetId DEF GotoWith, TypeOK
  <2> QED BY <1>10, <2>1, <2>2, <2>3, LocalStep
    DEF RejectedReplay, GotoWith, TypeOK, Exists, db, PC, AdmitPC, CreatedPC, LifecyclePC
<1>11. CASE recordOutcome(w)
  <2>1. loc[w].in \in Input /\ loc[w].id \in ReqIds
    BY <1>11 DEF recordOutcome, LocalsOK, CreatedPC
  <2>2. idem' \in [RedisKeys -> ReqIds \cup {None}]
    BY <1>11, <2>1 DEF recordOutcome, IdemSet, RedisKeys, TypeOK, Input
  <2>3. answered' \subseteq [cust : Customers, key : Keys, body : Bodies, id : ReqIds]
    BY <1>11, <2>1 DEF recordOutcome, Answer, TypeOK, Input
  <2> QED BY <1>11, <2>2, <2>3, ClearLocals, LocalStep
    DEF recordOutcome, Return, TypeOK, PC, AdmitPC, CreatedPC, LifecyclePC
<1> QED BY <1>1, <1>2, <1>3, <1>4, <1>5, <1>6, <1>7, <1>8, <1>9, <1>10, <1>11 DEF Create

\* The SELECT of the active holds, by a worker or a sweeper.
LEMMA TypeListHolds ==
  ASSUME TypeOK, NEW p \in Procs, ListHolds(p)
  PROVE  TypeOK'
<1>1. loc[p].id \in ReqIds /\ Exists(loc[p].id)
  BY DEF ListHolds, TypeOK, LocalsOK, LifecyclePC
<1>2. ListActiveHolds(loc[p].id) \in SUBSET Kinds
  BY DEF ListActiveHolds
<1>3. PICK label \in {"confirmTx", "releaseTx"} : pc' = [pc EXCEPT ![p] = label]
  BY DEF ListHolds
<1>4. /\ loc' \in [Procs -> Locals] /\ loc'[p].id = loc[p].id
      /\ \A q \in Procs : q # p => loc'[q] = loc[q]
  BY <1>2, SetSnap DEF ListHolds, TypeOK
<1>5. /\ label \in PC /\ label \notin AdmitPC \cup CreatedPC
      /\ loc'[p].id \in ReqIds /\ request'[loc'[p].id].status # "NONE"
  BY <1>1, <1>4 DEF ListHolds, Exists, db, PC, AdmitPC, CreatedPC, LifecyclePC
<1> QED BY <1>3, <1>4, <1>5, LocalStep DEF ListHolds, TypeOK

\* What a transaction that ends a reservation is handed.
LEMMA HeldRequest ==
  ASSUME TypeOK, NEW p \in Procs, pc[p] \in LifecyclePC
  PROVE  /\ loc[p].id \in ReqIds /\ Exists(loc[p].id)
         /\ request[loc[p].id] \in Row /\ PlanOf(loc[p].id) \in [Kinds -> Nat]
         /\ loc[p].snap \in SUBSET Kinds
<1>1. loc[p].id \in ReqIds /\ Exists(loc[p].id) /\ loc[p].snap \in SUBSET Kinds
  BY DEF TypeOK, LocalsOK, Locals
<1> QED BY <1>1, RowComplete DEF TypeOK

\* The commit of a release, by a worker or a sweeper.
LEMMA TypeRelease ==
  ASSUME TypeOK, NEW p \in Procs, releaseReserved(p)
  PROVE  TypeOK'
<1> DEFINE id == loc[p].id
           S == loc[p].snap
           s == IF p \in Sweepers THEN "EXPIRED" ELSE "CANCELLED"
           t == IF p \in Sweepers THEN "expired" ELSE "cancelled"
           a == PlanOf(id)
<1>1. /\ id \in ReqIds /\ Exists(id) /\ request[id] \in Row
      /\ a \in [Kinds -> Nat] /\ S \in SUBSET Kinds
  BY HeldRequest DEF releaseReserved, At, LifecyclePC
<1>2. reserved' \in [Kinds -> Nat]
  BY <1>1 DEF releaseReserved, ReleaseReserved, TypeOK, RepositoryTypeOK
<1>3. used' \in [Customers -> [Kinds -> Nat]]
  <2>1. request[id].cust \in Customers
    BY <1>1 DEF Row
  <2>2. \A c \in Customers : [k \in Kinds |-> IF k \notin S THEN used[c][k]
            ELSE IF used[c][k] >= a[k] THEN used[c][k] - a[k] ELSE 0] \in [Kinds -> Nat]
    BY <1>1 DEF TypeOK, RepositoryTypeOK
  <2> HIDE DEF id, S, a
  <2>3. ReleaseQuota(request[id].cust, a, S)
    BY DEF releaseReserved, id, a, S
  <2> QED BY <2>1, <2>2, <2>3 DEF ReleaseQuota, TypeOK, RepositoryTypeOK
<1>4. hold' \in [ReqIds -> [Kinds -> HoldStatus \cup {"NONE"}]]
  BY <1>1 DEF releaseReserved, UpdateHoldStatus, HoldStatus, TypeOK, RepositoryTypeOK
<1>5. /\ request' \in [ReqIds -> Row \cup {NoRow}]
      /\ \A i \in ReqIds : Exists(i) => Exists(i)'
      /\ event' \in [ReqIds -> [EventType -> Nat]]
  <2>1. CASE request[id].status = "RESERVED"
    <3>1. SetStatus(id, s) /\ insertEvent(id, t)
      BY <2>1 DEF releaseReserved, markTerminal
    <3>2. s \in RequestStatus /\ t \in EventType
      BY DEF RequestStatus, EventType
    <3> HIDE DEF id, s, t
    <3>3. /\ request' \in [ReqIds -> Row \cup {NoRow}]
          /\ request'[id].status = s
          /\ \A i \in ReqIds : i # id => request'[i] = request[i]
      BY <1>1, <3>1, <3>2, SetStatusRow DEF TypeOK
    <3> QED BY <1>1, <3>1, <3>2, <3>3, InsertedEvent DEF TypeOK, Exists, RequestStatus
  <2>2. CASE request[id].status # "RESERVED"
    BY <2>2 DEF releaseReserved, markTerminal, TypeOK, RepositoryTypeOK, Exists
  <2> QED BY <2>1, <2>2
<1>6. RepositoryTypeOK'
  BY <1>2, <1>3, <1>4, <1>5 DEF releaseReserved, TypeOK, RepositoryTypeOK
<1>7. PICK label \in {"sweep", "idle"} : pc' = [pc EXCEPT ![p] = label]
  BY DEF releaseReserved
<1>8. loc' \in [Procs -> Locals] /\ \A q \in Procs : q # p => loc'[q] = loc[q]
  BY ClearLocals DEF releaseReserved, TypeOK
<1> QED BY <1>5, <1>6, <1>7, <1>8, TableStep
  DEF releaseReserved, PC, AdmitPC, CreatedPC, LifecyclePC, SweepPC

\* The steps of Confirm, Cancel and Extend.
LEMMA TypeLifecycle ==
  ASSUME TypeOK, NEW w \in Workers, Lifecycle(w) \/ ReturnError(w)
  PROVE  TypeOK'
<1> w \in Procs /\ loc[w] \in Locals
  BY DEF TypeOK, Procs
<1> USE DEF At
<1>1. ASSUME NEW id \in ReqIds, ConfirmGet(w, id) \/ CancelGet(w, id)
      PROVE  TypeOK'
  <2>1. PICK label \in {"confirm", "release"} :
          /\ GotoWith(w, label, id) /\ UNCHANGED <<db, idem, answered, lock, clock>>
          /\ request[id].status = "RESERVED"
    BY <1>1 DEF ConfirmGet, CancelGet
  <2>2. /\ loc' \in [Procs -> Locals] /\ loc'[w].id = id
        /\ \A q \in Procs : q # w => loc'[q] = loc[q]
    BY <2>1, SetId DEF GotoWith, TypeOK
  <2> QED BY <2>1, <2>2, LocalStep
    DEF GotoWith, TypeOK, db, PC, AdmitPC, CreatedPC, LifecyclePC
<1>2. ASSUME NEW id \in ReqIds, ExtendGet(w, id)
      PROVE  TypeOK'
  <2> DEFINE l == [in |-> NoInput, id |-> id, now |-> 0, snap |-> {},
                   ext |-> [exp |-> request[id].exp + TTL, count |-> request[id].ext + 1]]
  <2>1. request[id].status = "RESERVED" /\ request[id] \in Row
    BY <1>2, RowComplete DEF ExtendGet, TypeOK, Exists
  <2>2. l \in Locals
    BY <2>1, TimeAssumption DEF Locals, Row
  <2>3. loc' = [loc EXCEPT ![w] = l] /\ l.id = id
    BY <1>2 DEF ExtendGet
  <2> HIDE DEF l
  <2>4. /\ loc' \in [Procs -> Locals] /\ loc'[w].id = id
        /\ \A q \in Procs : q # w => loc'[q] = loc[q]
    BY <2>2, <2>3 DEF TypeOK
  <2> QED BY <1>2, <2>1, <2>4, LocalStep
    DEF ExtendGet, TypeOK, db, PC, AdmitPC, CreatedPC, LifecyclePC
<1>3. CASE ListHolds(w)
  BY <1>3, TypeListHolds
<1>4. CASE ConfirmCommit(w)
  <2> DEFINE id == loc[w].id
             S == loc[w].snap
  <2>1. /\ id \in ReqIds /\ Exists(id) /\ S \in SUBSET Kinds
        /\ PlanOf(id) \in [Kinds -> Nat]
    BY <1>4, HeldRequest DEF ConfirmCommit, LifecyclePC
  <2>2. reserved' \in [Kinds -> Nat] /\ dedicated' \in [Kinds -> Nat]
    BY <1>4, <2>1 DEF ConfirmCommit, MoveReservedToDedicated, TypeOK, RepositoryTypeOK
  <2>3. hold' \in [ReqIds -> [Kinds -> HoldStatus \cup {"NONE"}]]
    BY <1>4, <2>1 DEF ConfirmCommit, UpdateHoldStatus, HoldStatus, TypeOK, RepositoryTypeOK
  <2>4. dedication' \in [ReqIds -> [Kinds -> Nat]]
    BY <1>4, <2>1 DEF ConfirmCommit, InsertDedications, TypeOK, RepositoryTypeOK
  <2>5. event' \in [ReqIds -> [EventType -> Nat]]
    BY <1>4, <2>1, InsertedEvent DEF ConfirmCommit, TypeOK, EventType
  <2>6. /\ request' \in [ReqIds -> Row \cup {NoRow}]
        /\ request'[id].status = "COMPLETED"
        /\ \A i \in ReqIds : i # id => request'[i] = request[i]
    BY <1>4, <2>1, SetStatusRow DEF ConfirmCommit, TypeOK, RequestStatus
  <2>7. RepositoryTypeOK'
    BY <1>4, <2>2, <2>3, <2>4, <2>5, <2>6 DEF ConfirmCommit, TypeOK, RepositoryTypeOK
  <2>8. \A i \in ReqIds : Exists(i) => Exists(i)'
    BY <2>6 DEF Exists
  <2> QED BY <1>4, <2>7, <2>8, ClearLocals, TableStep
    DEF ConfirmCommit, Return, TypeOK, PC, AdmitPC, CreatedPC, LifecyclePC
<1>5. CASE releaseReserved(w)
  BY <1>5, TypeRelease
<1>6. CASE ExtendUpdate(w)
  <2> DEFINE id == loc[w].id
  <2>1. /\ id \in ReqIds /\ Exists(id)
        /\ loc[w].ext.exp \in Nat /\ loc[w].ext.count \in Nat
    BY <1>6, HeldRequest DEF ExtendUpdate, LifecyclePC, Locals
  <2>2. /\ request' \in [ReqIds -> Row \cup {NoRow}]
        /\ request'[id].status = request[id].status
        /\ \A i \in ReqIds : i # id => request'[i] = request[i]
    BY <1>6, <2>1, ExtendedRow DEF ExtendUpdate, TypeOK
  <2>3. RepositoryTypeOK' /\ \A i \in ReqIds : Exists(i) => Exists(i)'
    BY <1>6, <2>2 DEF ExtendUpdate, TypeOK, RepositoryTypeOK, Exists
  <2> QED BY <1>6, <2>1, <2>2, <2>3, TableStep
    DEF ExtendUpdate, Goto, TypeOK, Exists, PC, AdmitPC, CreatedPC, LifecyclePC
<1>7. CASE ExtendEvent(w)
  <2>1. loc[w].id \in ReqIds
    BY <1>7, HeldRequest DEF ExtendEvent, LifecyclePC
  <2>2. event' \in [ReqIds -> [EventType -> Nat]]
    BY <1>7, <2>1, InsertedEvent DEF ExtendEvent, TypeOK, EventType
  <2>3. RepositoryTypeOK' /\ \A i \in ReqIds : Exists(i) => Exists(i)'
    BY <1>7, <2>2 DEF ExtendEvent, TypeOK, RepositoryTypeOK, Exists
  <2> QED BY <1>7, <2>3, ClearLocals, TableStep
    DEF ExtendEvent, Return, TypeOK, PC, AdmitPC, CreatedPC, LifecyclePC
<1>8. CASE ReturnError(w)
  BY <1>8, ClearLocals, LocalStep
    DEF ReturnError, Return, TypeOK, PC, AdmitPC, CreatedPC, LifecyclePC
<1> QED BY <1>1, <1>2, <1>3, <1>4, <1>5, <1>6, <1>7, <1>8 DEF Lifecycle

\* The steps of ExpireDue.
LEMMA TypeExpireDue ==
  ASSUME TypeOK, NEW s \in Sweepers, ExpireDue(s)
  PROVE  TypeOK'
<1> s \in Procs /\ loc[s] \in Locals
  BY DEF TypeOK, Procs
<1> USE DEF At
<1>1. CASE SweepLock(s)
  BY <1>1, SetNow, LocalStep
    DEF SweepLock, TryLock, TypeOK, PC, AdmitPC, CreatedPC, LifecyclePC, SweepPC
<1>2. CASE SweepList(s)
  <2>1. PICK ids \in SUBSET ReqIds : /\ \A id \in ids : Exists(id)
                                     /\ batch' = [batch EXCEPT ![s] = ids]
    BY <1>2 DEF SweepList, ListExpiredIDs, Due, Exists
  <2>2. /\ batch' \in [Sweepers -> SUBSET ReqIds]
        /\ \A r \in Sweepers : \A id \in batch'[r] : Exists(id)
    BY <2>1 DEF TypeOK
  <2>3. loc' \in [Procs -> Locals] /\ \A q \in Procs : q # s => loc'[q] = loc[q]
    BY <1>2, ClearLocals DEF SweepList, TypeOK
  <2>4. \A q \in Procs : LocalsOK(q)'
    BY <1>2, <2>3 DEF SweepList, TypeOK, LocalsOK, Exists, db, AdmitPC, CreatedPC, LifecyclePC
  <2> QED BY <1>2, <2>2, <2>3, <2>4
    DEF SweepList, TypeOK, RepositoryTypeOK, Exists, db, PC, SweepPC
<1>3. ASSUME NEW id \in ReqIds, SweepNext(s, id)
      PROVE  TypeOK'
  <2>1. /\ batch' \in [Sweepers -> SUBSET ReqIds]
        /\ \A r \in Sweepers : \A i \in batch'[r] : Exists(i)
        /\ Exists(id)
    BY <1>3 DEF SweepNext, TypeOK
  <2>2. /\ loc' \in [Procs -> Locals] /\ loc'[s].id = id
        /\ \A q \in Procs : q # s => loc'[q] = loc[q]
    BY <1>3, SetId DEF SweepNext, TypeOK
  <2>3. \A q \in Procs : LocalsOK(q)'
    BY <1>3, <2>1, <2>2 DEF SweepNext, TypeOK, LocalsOK, Exists, db, AdmitPC, CreatedPC, LifecyclePC
  <2> QED BY <1>3, <2>1, <2>2, <2>3
    DEF SweepNext, TypeOK, RepositoryTypeOK, Exists, db, PC, LifecyclePC
<1>4. CASE ListHolds(s)
  BY <1>4, TypeListHolds
<1>5. CASE releaseReserved(s)
  BY <1>5, TypeRelease
<1>6. CASE SweepFail(s)
  BY <1>6, ClearLocals, LocalStep
    DEF SweepFail, TypeOK, PC, AdmitPC, CreatedPC, LifecyclePC, SweepPC
<1>7. CASE SweepEnd(s)
  BY <1>7, ClearLocals, LocalStep
    DEF SweepEnd, Unlock, Return, TypeOK, PC, AdmitPC, CreatedPC, LifecyclePC, SweepPC
<1>8. CASE SweepCrash(s)
  <2>1. /\ batch' \in [Sweepers -> SUBSET ReqIds]
        /\ \A r \in Sweepers : \A i \in batch'[r] : Exists(i)
    BY <1>8 DEF SweepCrash, TypeOK
  <2>2. loc' \in [Procs -> Locals] /\ \A q \in Procs : q # s => loc'[q] = loc[q]
    BY <1>8, ClearLocals DEF SweepCrash, Return, TypeOK
  <2>3. \A q \in Procs : LocalsOK(q)'
    BY <1>8, <2>2 DEF SweepCrash, Return, TypeOK, LocalsOK, Exists, db, AdmitPC, CreatedPC, LifecyclePC
  <2> QED BY <1>8, <2>1, <2>2, <2>3
    DEF SweepCrash, Unlock, Return, TypeOK, RepositoryTypeOK, Exists, db, PC
<1>9. CASE SweepSessionLost(s)
  BY <1>9 DEF SweepSessionLost, TypeOK, RepositoryTypeOK, LocalsOK, Exists, db, proc
<1> QED BY <1>1, <1>2, <1>3, <1>4, <1>5, <1>6, <1>7, <1>8, <1>9 DEF ExpireDue

\* Every step, of a worker, a sweeper or the environment, keeps TypeOK.
LEMMA TypeStep == TypeOK /\ [Next]_vars => TypeOK'
<1> SUFFICES ASSUME TypeOK, [Next]_vars PROVE TypeOK'
  OBVIOUS
<1>1. ASSUME NEW w \in Workers, Create(w) \/ Lifecycle(w) \/ ReturnError(w)
      PROVE  TypeOK'
  BY <1>1, TypeCreate, TypeLifecycle
<1>2. ASSUME NEW s \in Sweepers, ExpireDue(s)
      PROVE  TypeOK'
  BY <1>2, TypeExpireDue
<1>3. ASSUME NEW r \in RedisKeys, RedisForget(r)
      PROVE  TypeOK'
  BY <1>3 DEF RedisForget, TypeOK, RepositoryTypeOK, LocalsOK, Exists, db, proc
<1>4. CASE Tick
  BY <1>4 DEF Tick, TypeOK, RepositoryTypeOK, LocalsOK, Exists, db, proc
<1>5. CASE UNCHANGED vars
  BY <1>5 DEF vars, TypeOK, RepositoryTypeOK, LocalsOK, Exists, db, proc
<1> QED BY <1>1, <1>2, <1>3, <1>4, <1>5 DEF Next

\* The counters stay natural numbers, rows stay complete and every local a
\* step reads has been set, in every run of the service.
THEOREM TypeCorrect == Spec => []TypeOK
<1>1. Init => TypeOK
  BY TypeInit
<1>2. TypeOK /\ [Next]_vars => TypeOK'
  BY TypeStep
<1> QED BY <1>1, <1>2, PTL DEF Spec


-----------------------------------------------------------------------------
(* Which steps write the tables, and what they do to the rows.              *)

\* Every step that changes a table is one of seven.
LEMMA TableSteps ==
  ASSUME [Next]_vars
  PROVE  \/ UNCHANGED db
         \/ \E w \in Workers, id \in ReqIds : reserveWithinTx(w, id)
         \/ \E w \in Workers, id \in ReqIds : persistRejected(w, id)
         \/ \E w \in Workers : PersistRejectedDetail(w)
         \/ \E w \in Workers : ConfirmCommit(w)
         \/ \E w \in Workers : ExtendUpdate(w)
         \/ \E w \in Workers : ExtendEvent(w)
         \/ \E p \in Procs : releaseReserved(p)
<1>1. ASSUME NEW w \in Workers, Create(w), ~UNCHANGED db
      PROVE  \/ \E id \in ReqIds : reserveWithinTx(w, id) \/ persistRejected(w, id)
             \/ PersistRejectedDetail(w)
  BY <1>1 DEF Create, ReplayFromRedis, ReplayFromDB, CreateAdmit, enforceActiveHoldsLimit,
       buildReservationPlan, ReserveDuplicate, ReserveReject, PersistRejectedDuplicate,
       replayAfterDuplicate, RejectedReplay, recordOutcome
<1>2. ASSUME NEW w \in Workers, Lifecycle(w) \/ ReturnError(w), ~UNCHANGED db
      PROVE  ConfirmCommit(w) \/ ExtendUpdate(w) \/ ExtendEvent(w) \/ releaseReserved(w)
  BY <1>2 DEF Lifecycle, ReturnError, ConfirmGet, CancelGet, ExtendGet, ListHolds
<1>3. ASSUME NEW s \in Sweepers, ExpireDue(s), ~UNCHANGED db
      PROVE  releaseReserved(s)
  BY <1>3 DEF ExpireDue, SweepLock, SweepList, SweepNext, ListHolds, SweepFail, SweepEnd,
       SweepCrash, SweepSessionLost
<1>4. ASSUME NEW r \in RedisKeys, RedisForget(r)
      PROVE  UNCHANGED db
  BY <1>4 DEF RedisForget
<1>5. Tick => UNCHANGED db
  BY DEF Tick
<1>6. UNCHANGED vars => UNCHANGED db
  BY DEF vars
<1> QED BY <1>1, <1>2, <1>3, <1>4, <1>5, <1>6 DEF Next, Procs

\* The row a committing reserve or a rejection inserts.
LEMMA NewRow ==
  ASSUME TypeOK, NEW w \in Workers, NEW id \in ReqIds,
         reserveWithinTx(w, id) \/ persistRejected(w, id)
  PROVE  /\ request[id] = NoRow
         /\ loc[w].in \in Input /\ loc[w].now \in Nat
         /\ request'[id].cust = loc[w].in.cust /\ request'[id].key = loc[w].in.key
         /\ request'[id].body = loc[w].in.body /\ request'[id].created = loc[w].now
         /\ request'[id].ext = 0
         /\ reserveWithinTx(w, id) =>
              request'[id].status = "RESERVED" /\ request'[id].exp = loc[w].now + TTL
         /\ persistRejected(w, id) => request'[id].status = "REJECTED"
         /\ \A i \in ReqIds : i # id => request'[i] = request[i]
<1>1. request[id] = NoRow
  BY DEF reserveWithinTx, persistRejected, Exists, TypeOK, RepositoryTypeOK, Row, RequestStatus
<1>2. w \in Procs /\ pc[w] \in AdmitPC
  BY DEF reserveWithinTx, persistRejected, At, AdmitPC, Procs
<1>3. loc[w].in \in Input /\ loc[w].now \in Nat
  BY <1>2 DEF TypeOK, LocalsOK, Locals
<1>4. CASE reserveWithinTx(w, id)
  <2>1. ~persistRejected(w, id)
    BY <1>4 DEF reserveWithinTx, persistRejected, At
  <2> DEFINE row == [status |-> "RESERVED", cust |-> loc[w].in.cust, key |-> loc[w].in.key,
                     body |-> loc[w].in.body, created |-> loc[w].now,
                     exp |-> loc[w].now + TTL, ext |-> 0]
  <2>2. request' = [request EXCEPT ![id] = row]
    BY <1>4 DEF reserveWithinTx, CreateReserved
  <2>3. request'[id] = row /\ \A i \in ReqIds : i # id => request'[i] = request[i]
    BY <2>2 DEF TypeOK, RepositoryTypeOK
  <2> QED BY <1>1, <1>3, <2>1, <2>3
<1>5. CASE persistRejected(w, id)
  <2>1. ~reserveWithinTx(w, id)
    BY <1>5 DEF reserveWithinTx, persistRejected, At
  <2> DEFINE row == [status |-> "REJECTED", cust |-> loc[w].in.cust, key |-> loc[w].in.key,
                     body |-> loc[w].in.body, created |-> loc[w].now,
                     exp |-> 0, ext |-> 0]
  <2>2. request' = [request EXCEPT ![id] = row]
    BY <1>5 DEF persistRejected, InsertRejected
  <2>3. request'[id] = row /\ \A i \in ReqIds : i # id => request'[i] = request[i]
    BY <2>2 DEF TypeOK, RepositoryTypeOK
  <2> QED BY <1>1, <1>3, <2>1, <2>3
<1> QED BY <1>4, <1>5

\* The row a confirm completes.
LEMMA CompletedRow ==
  ASSUME TypeOK, NEW w \in Workers, ConfirmCommit(w)
  PROVE  LET id == loc[w].id IN
         /\ id \in ReqIds /\ request[id].status = "RESERVED"
         /\ request'[id].status = "COMPLETED"
         /\ request'[id].cust = request[id].cust /\ request'[id].key = request[id].key
         /\ request'[id].body = request[id].body
         /\ request'[id].created = request[id].created
         /\ request'[id].exp = request[id].exp /\ request'[id].ext = request[id].ext
         /\ \A i \in ReqIds : i # id => request'[i] = request[i]
<1>1. w \in Procs /\ pc[w] \in LifecyclePC
  BY DEF ConfirmCommit, At, LifecyclePC, Procs
<1>2. loc[w].id \in ReqIds /\ Exists(loc[w].id)
  BY <1>1, HeldRequest
<1> QED BY <1>2, SetStatusRow DEF ConfirmCommit, TypeOK, RequestStatus

\* The row a release ends, if it still was a reservation.
LEMMA ReleasedRow ==
  ASSUME TypeOK, NEW p \in Procs, releaseReserved(p)
  PROVE  LET id == loc[p].id IN
         /\ id \in ReqIds /\ Exists(id)
         /\ request[id].status = "RESERVED" =>
              /\ request'[id].status = IF p \in Sweepers THEN "EXPIRED" ELSE "CANCELLED"
              /\ insertEvent(id, IF p \in Sweepers THEN "expired" ELSE "cancelled")
         /\ request[id].status # "RESERVED" => UNCHANGED <<request, event>>
         /\ request'[id].cust = request[id].cust /\ request'[id].key = request[id].key
         /\ request'[id].body = request[id].body
         /\ request'[id].created = request[id].created
         /\ request'[id].exp = request[id].exp /\ request'[id].ext = request[id].ext
         /\ \A i \in ReqIds : i # id => request'[i] = request[i]
<1> DEFINE id == loc[p].id
           s == IF p \in Sweepers THEN "EXPIRED" ELSE "CANCELLED"
<1>1. id \in ReqIds /\ Exists(id)
  BY HeldRequest DEF releaseReserved, At, LifecyclePC
<1>2. CASE request[id].status = "RESERVED"
  <2>1. SetStatus(id, s) /\ insertEvent(id, IF p \in Sweepers THEN "expired" ELSE "cancelled")
    BY <1>2 DEF releaseReserved, markTerminal
  <2>2. s \in RequestStatus
    BY DEF RequestStatus
  <2> HIDE DEF s
  <2>3. /\ request'[id].status = s
        /\ request'[id].cust = request[id].cust /\ request'[id].key = request[id].key
        /\ request'[id].body = request[id].body
        /\ request'[id].created = request[id].created
        /\ request'[id].exp = request[id].exp /\ request'[id].ext = request[id].ext
        /\ \A i \in ReqIds : i # id => request'[i] = request[i]
    BY <1>1, <2>1, <2>2, SetStatusRow DEF TypeOK
  <2> QED BY <1>1, <1>2, <2>1, <2>3 DEF s
<1>3. CASE request[id].status # "RESERVED"
  BY <1>1, <1>3 DEF releaseReserved, markTerminal
<1> QED BY <1>2, <1>3

\* The row an extension writes.
LEMMA ExtensionRow ==
  ASSUME TypeOK, NEW w \in Workers, ExtendUpdate(w)
  PROVE  LET id == loc[w].id IN
         /\ id \in ReqIds /\ request[id].status = "RESERVED"
         /\ request'[id].status = "RESERVED"
         /\ request'[id].cust = request[id].cust /\ request'[id].key = request[id].key
         /\ request'[id].body = request[id].body
         /\ request'[id].created = request[id].created
         /\ request'[id].exp = loc[w].ext.exp /\ request'[id].ext = loc[w].ext.count
         /\ \A i \in ReqIds : i # id => request'[i] = request[i]
<1>1. w \in Procs /\ pc[w] \in LifecyclePC
  BY DEF ExtendUpdate, At, LifecyclePC, Procs
<1>2. /\ loc[w].id \in ReqIds /\ Exists(loc[w].id)
      /\ loc[w].ext.exp \in Nat /\ loc[w].ext.count \in Nat
  BY <1>1, HeldRequest DEF TypeOK, Locals
<1> QED BY <1>2, ExtendedRow DEF ExtendUpdate, TypeOK

-----------------------------------------------------------------------------
(* Capacity and quota. *)

\* No step passes a limit: reserving checks it in the UPDATE, confirming keeps
\* the sum, releasing lowers it.
LEMMA OversoldStep == TypeOK /\ CapacityNeverOversold /\ [Next]_vars => CapacityNeverOversold'
<1> SUFFICES ASSUME TypeOK, CapacityNeverOversold, [Next]_vars
             PROVE  CapacityNeverOversold'
  OBVIOUS
<1> USE EffectiveAssumption, LimitAssumption
<1>1. CASE UNCHANGED <<reserved, dedicated, used>>
  BY <1>1 DEF CapacityNeverOversold
<1>2. ASSUME NEW w \in Workers, NEW id \in ReqIds, reserveWithinTx(w, id)
      PROVE  CapacityNeverOversold'
  <2> DEFINE c == loc[w].in.cust
             a == Plan[loc[w].in.body]
  <2>1. c \in Customers /\ a \in [Kinds -> Nat]
    BY <1>2, NewRow, PlanAssumption DEF Input
  <2>2. PoolsFit(a) /\ QuotaFits(c, a) /\ TryReserve(a) /\ EnsureAndTryConsume(c, a)
    BY <1>2 DEF reserveWithinTx, Fits
  <2>3. UNCHANGED dedicated
    BY <1>2 DEF reserveWithinTx
  <2> HIDE DEF c, a
  <2>4. \A k \in Kinds : reserved'[k] + dedicated'[k] <= Effective[k]
    <3> TAKE k \in Kinds
    <3>1. /\ a[k] \in Nat /\ reserved[k] \in Nat /\ dedicated[k] \in Nat /\ Effective[k] \in Nat
          /\ reserved[k] + dedicated[k] <= Effective[k]
      BY <2>1 DEF CapacityNeverOversold, TypeOK, RepositoryTypeOK
    <3>2. a[k] > 0 => Effective[k] - dedicated[k] - reserved[k] >= a[k]
      BY <2>2 DEF PoolsFit, Available
    <3>3. reserved'[k] = reserved[k] + a[k] /\ dedicated'[k] = dedicated[k]
      BY <2>2, <2>3 DEF TryReserve
    <3> QED BY <3>1, <3>2, <3>3
  <2>5. \A d \in Customers, k \in Kinds : used'[d][k] <= Limit[d][k]
    <3> TAKE d \in Customers, k \in Kinds
    <3>1. /\ a[k] \in Nat /\ used[d][k] \in Nat /\ Limit[d][k] \in Nat
          /\ used[d][k] <= Limit[d][k]
      BY <2>1 DEF CapacityNeverOversold, TypeOK, RepositoryTypeOK
    <3>2. CASE d = c
      <4>1. a[k] > 0 => Limit[c][k] - used[c][k] >= a[k]
        BY <2>2 DEF QuotaFits
      <4>2. used'[c][k] = used[c][k] + a[k]
        BY <2>1, <2>2 DEF EnsureAndTryConsume, TypeOK, RepositoryTypeOK
      <4> QED BY <3>1, <3>2, <4>1, <4>2
    <3>3. CASE d # c
      BY <2>1, <2>2, <3>1, <3>3 DEF EnsureAndTryConsume, TypeOK, RepositoryTypeOK
    <3> QED BY <3>2, <3>3
  <2> QED BY <2>4, <2>5 DEF CapacityNeverOversold
<1>3. ASSUME NEW w \in Workers, ConfirmCommit(w)
      PROVE  CapacityNeverOversold'
  <2> DEFINE a == PlanOf(loc[w].id)
             S == loc[w].snap
  <2>1. a \in [Kinds -> Nat] /\ MoveReservedToDedicated(a, S) /\ UNCHANGED used
    BY <1>3, HeldRequest DEF ConfirmCommit, At, LifecyclePC, Procs
  <2> HIDE DEF a, S
  <2>2. \A k \in Kinds : reserved'[k] + dedicated'[k] = reserved[k] + dedicated[k]
    BY <2>1 DEF MoveReservedToDedicated, TypeOK, RepositoryTypeOK
  <2> QED BY <2>1, <2>2 DEF CapacityNeverOversold
<1>4. ASSUME NEW p \in Procs, releaseReserved(p)
      PROVE  CapacityNeverOversold'
  <2> DEFINE a == PlanOf(loc[p].id)
             S == loc[p].snap
             c == request[loc[p].id].cust
  <2>1. /\ a \in [Kinds -> Nat] /\ c \in Customers /\ UNCHANGED dedicated
        /\ ReleaseReserved(a, S) /\ ReleaseQuota(c, a, S)
    BY <1>4, HeldRequest DEF releaseReserved, At, LifecyclePC, Row
  <2> HIDE DEF a, S, c
  <2>2. \A k \in Kinds : reserved'[k] <= reserved[k] /\ reserved'[k] \in Nat
    BY <2>1 DEF ReleaseReserved, TypeOK, RepositoryTypeOK
  <2>3. \A d \in Customers, k \in Kinds : used'[d][k] <= used[d][k] /\ used'[d][k] \in Nat
    BY <2>1 DEF ReleaseQuota, TypeOK, RepositoryTypeOK
  <2> QED BY <2>1, <2>2, <2>3 DEF CapacityNeverOversold, TypeOK, RepositoryTypeOK
<1> QED BY <1>1, <1>2, <1>3, <1>4, TableSteps
  DEF persistRejected, PersistRejectedDetail, ExtendUpdate, ExtendEvent, db

\* No interleaving of creates, confirms, cancels and sweeps pushes a pool's
\* counters past its capacity or a quota's counter past its limit.
THEOREM NeverOversold == Spec => []CapacityNeverOversold
<1>1. Init => CapacityNeverOversold
  BY EffectiveAssumption, LimitAssumption DEF Init, RepositoryInit, CapacityNeverOversold
<1> QED BY <1>1, OversoldStep, TypeCorrect, PTL DEF Spec

-----------------------------------------------------------------------------
(* Status transitions. *)

\* What TerminalIsFinal asks of a step.
Final ==
  \A id \in ReqIds :
    /\ request'[id].status # request[id].status =>
         <<request[id].status, request'[id].status>> \in Transitions
    /\ request[id].status \in RequestStatus \ {"RESERVED"} => request'[id] = request[id]
    /\ Exists(id) => /\ request'[id].cust = request[id].cust
                     /\ request'[id].key = request[id].key
                     /\ request'[id].body = request[id].body
                     /\ request'[id].created = request[id].created

\* Every step obeys Final: the writes to a request are guarded by RESERVED.
LEMMA FinalStep == TypeOK /\ [Next]_vars => Final
<1> SUFFICES ASSUME TypeOK, [Next]_vars, NEW id \in ReqIds
             PROVE  /\ request'[id].status # request[id].status =>
                         <<request[id].status, request'[id].status>> \in Transitions
                    /\ request[id].status \in RequestStatus \ {"RESERVED"} =>
                         request'[id] = request[id]
                    /\ Exists(id) => /\ request'[id].cust = request[id].cust
                                     /\ request'[id].key = request[id].key
                                     /\ request'[id].body = request[id].body
                                     /\ request'[id].created = request[id].created
  BY DEF Final
<1> DEFINE Goal == /\ request'[id].status # request[id].status =>
                        <<request[id].status, request'[id].status>> \in Transitions
                   /\ request[id].status \in RequestStatus \ {"RESERVED"} =>
                        request'[id] = request[id]
                   /\ Exists(id) => /\ request'[id].cust = request[id].cust
                                    /\ request'[id].key = request[id].key
                                    /\ request'[id].body = request[id].body
                                    /\ request'[id].created = request[id].created
<1>1. CASE request'[id] = request[id]
  BY <1>1
<1>2. ASSUME NEW w \in Workers, NEW i \in ReqIds,
             reserveWithinTx(w, i) \/ persistRejected(w, i)
      PROVE  Goal
  <2>1. CASE i = id
    <3>1. /\ request[id].status = "NONE"
          /\ request'[id].status = "RESERVED" \/ request'[id].status = "REJECTED"
      BY <1>2, <2>1, NewRow DEF NoRow
    <3> QED BY <3>1 DEF Transitions, Exists, RequestStatus
  <2>2. CASE i # id
    BY <1>1, <1>2, <2>2, NewRow
  <2> QED BY <2>1, <2>2
<1>3. ASSUME NEW w \in Workers, ConfirmCommit(w)
      PROVE  Goal
  <2>1. CASE loc[w].id = id
    BY <1>3, <2>1, CompletedRow DEF Transitions
  <2>2. CASE loc[w].id # id
    BY <1>1, <1>3, <2>2, CompletedRow
  <2> QED BY <2>1, <2>2
<1>4. ASSUME NEW p \in Procs, releaseReserved(p)
      PROVE  Goal
  <2>1. CASE loc[p].id = id /\ request[id].status = "RESERVED"
    BY <1>4, <2>1, ReleasedRow DEF Transitions
  <2>2. CASE loc[p].id # id \/ request[id].status # "RESERVED"
    BY <1>1, <1>4, <2>2, ReleasedRow
  <2> QED BY <2>1, <2>2
<1>5. ASSUME NEW w \in Workers, ExtendUpdate(w)
      PROVE  Goal
  <2>1. CASE loc[w].id = id
    BY <1>5, <2>1, ExtensionRow
  <2>2. CASE loc[w].id # id
    BY <1>1, <1>5, <2>2, ExtensionRow
  <2> QED BY <2>1, <2>2
<1>6. UNCHANGED request => Goal
  BY <1>1
<1> HIDE DEF Goal
<1>7. Goal
  BY <1>2, <1>3, <1>4, <1>5, <1>6, TableSteps
    DEF PersistRejectedDetail, ExtendEvent, db
<1> QED BY <1>7 DEF Goal

\* However confirm, cancel, extend and sweeper race, a request only makes the
\* documented transitions, a terminal row is never written again, and no row
\* changes its customer, key, body or creation time.
THEOREM Finality == Spec => TerminalIsFinal
<1>1. TypeOK /\ [Next]_vars => [Final]_vars
  BY FinalStep
<1> QED BY <1>1, TypeCorrect, PTL DEF Spec, TerminalIsFinal, Final

-----------------------------------------------------------------------------
(* Holds.  The transaction that ends a reservation works from holds it read *)
(* earlier; what makes that safe is that a request which is still RESERVED  *)
(* has the holds it had then.                                               *)

TxPC == {"confirmTx", "releaseTx"}

\* A step moves at most one process, and only ListHolds moves one to the
\* writing part of its transaction.
LEMMA OneMoves ==
  ASSUME TypeOK, [Next]_vars
  PROVE  \/ UNCHANGED <<pc, loc>>
         \/ \E q \in Procs : ListHolds(q)
         \/ \E q \in Procs, label \in PC \ TxPC :
              /\ pc' = [pc EXCEPT ![q] = label]
              /\ \A p \in Procs : p # q => loc'[p] = loc[p]
<1> DEFINE Moves(q) == \E label \in PC \ TxPC :
                         /\ pc' = [pc EXCEPT ![q] = label]
                         /\ \A p \in Procs : p # q => loc'[p] = loc[p]
<1> USE DEF TypeOK, PC, AdmitPC, CreatedPC, LifecyclePC, SweepPC, TxPC
<1>1. ASSUME NEW w \in Workers, Create(w)
      PROVE  UNCHANGED <<pc, loc>> \/ Moves(w)
  <2>1. ASSUME NEW c \in Customers, NEW key \in Keys, NEW b \in Bodies,
               ReplayFromRedis(w, c, key, b) \/ ReplayFromDB(w, c, key, b)
        PROVE  UNCHANGED <<pc, loc>>
    BY <2>1 DEF ReplayFromRedis, ReplayFromDB, proc
  <2>2. ASSUME NEW c \in Customers, NEW key \in Keys, NEW b \in Bodies,
               CreateAdmit(w, c, key, b)
        PROVE  Moves(w)
    BY <2>2 DEF CreateAdmit
  <2>3. CASE \/ enforceActiveHoldsLimit(w) \/ ReserveDuplicate(w) \/ ReserveReject(w)
             \/ PersistRejectedDetail(w) \/ PersistRejectedDuplicate(w)
    BY <2>3 DEF enforceActiveHoldsLimit, ReserveDuplicate, ReserveReject,
                PersistRejectedDetail, PersistRejectedDuplicate, Goto
  <2>4. CASE buildReservationPlan(w)
    BY <2>4 DEF buildReservationPlan
  <2>5. ASSUME NEW id \in ReqIds, reserveWithinTx(w, id) \/ persistRejected(w, id)
        PROVE  Moves(w)
    BY <2>5 DEF reserveWithinTx, persistRejected, GotoWith
  <2>6. CASE replayAfterDuplicate(w) \/ recordOutcome(w)
    BY <2>6 DEF replayAfterDuplicate, recordOutcome, Return
  <2>7. CASE RejectedReplay(w)
    BY <2>7 DEF RejectedReplay, GotoWith
  <2> QED BY <1>1, <2>1, <2>2, <2>3, <2>4, <2>5, <2>6, <2>7 DEF Create
<1>2. ASSUME NEW w \in Workers, Lifecycle(w) \/ ReturnError(w)
      PROVE  ListHolds(w) \/ Moves(w)
  <2>1. ASSUME NEW id \in ReqIds, ConfirmGet(w, id) \/ CancelGet(w, id)
        PROVE  Moves(w)
    BY <2>1 DEF ConfirmGet, CancelGet, GotoWith
  <2>2. ASSUME NEW id \in ReqIds, ExtendGet(w, id)
        PROVE  Moves(w)
    BY <2>2 DEF ExtendGet
  <2>3. CASE ConfirmCommit(w) \/ ExtendEvent(w) \/ ReturnError(w)
    BY <2>3 DEF ConfirmCommit, ExtendEvent, ReturnError, Return
  <2>4. CASE releaseReserved(w)
    BY <2>4 DEF releaseReserved
  <2>5. CASE ExtendUpdate(w)
    BY <2>5 DEF ExtendUpdate, Goto
  <2> QED BY <1>2, <2>1, <2>2, <2>3, <2>4, <2>5 DEF Lifecycle
<1>3. ASSUME NEW s \in Sweepers, ExpireDue(s)
      PROVE  ListHolds(s) \/ Moves(s) \/ UNCHANGED <<pc, loc>>
  <2>1. CASE SweepLock(s) \/ SweepList(s) \/ SweepFail(s) \/ releaseReserved(s)
    BY <2>1 DEF SweepLock, SweepList, SweepFail, releaseReserved
  <2>2. ASSUME NEW id \in ReqIds, SweepNext(s, id)
        PROVE  Moves(s)
    BY <2>2 DEF SweepNext
  <2>3. CASE SweepEnd(s) \/ SweepCrash(s)
    BY <2>3 DEF SweepEnd, SweepCrash, Return
  <2>4. CASE SweepSessionLost(s)
    BY <2>4 DEF SweepSessionLost, proc
  <2> QED BY <1>3, <2>1, <2>2, <2>3, <2>4 DEF ExpireDue
<1>4. ASSUME NEW r \in RedisKeys, RedisForget(r)
      PROVE  UNCHANGED <<pc, loc>>
  BY <1>4 DEF RedisForget, proc
<1>5. Tick \/ UNCHANGED vars => UNCHANGED <<pc, loc>>
  BY DEF Tick, vars, proc
<1> HIDE DEF Moves
<1>6. \/ UNCHANGED <<pc, loc>>
      \/ \E q \in Procs : ListHolds(q) \/ Moves(q)
  BY <1>1, <1>2, <1>3, <1>4, <1>5 DEF Next, Procs
<1> QED BY <1>6 DEF Moves

\* The holds a process has read are those of the plan, as long as the request
\* is still RESERVED.
SnapsMatch ==
  \A p \in Procs :
    pc[p] \in TxPC /\ request[loc[p].id].status = "RESERVED" =>
      loc[p].snap = PlanKinds(request[loc[p].id].body)

\* A snapshot stays the full plan until the request leaves RESERVED.
LEMMA SnapsStep == TypeOK /\ HoldsFollowRequest /\ SnapsMatch /\ [Next]_vars => SnapsMatch'
<1> SUFFICES ASSUME TypeOK, HoldsFollowRequest, SnapsMatch, [Next]_vars,
                    NEW p \in Procs, pc'[p] \in TxPC,
                    request'[loc'[p].id].status = "RESERVED"
             PROVE  loc'[p].snap = PlanKinds(request'[loc'[p].id].body)
  BY DEF SnapsMatch, PlanKinds
<1>1. CASE pc[p] \in TxPC /\ loc'[p] = loc[p]
  <2> DEFINE id == loc[p].id
  <2>1. id \in ReqIds /\ Exists(id)
    BY <1>1, HeldRequest DEF TxPC, LifecyclePC
  <2>2. request[id].status = "RESERVED" /\ request'[id].body = request[id].body
    BY <1>1, <2>1, FinalStep DEF Final, Transitions, Exists
  <2> QED BY <1>1, <2>2 DEF SnapsMatch
<1>2. ASSUME ListHolds(p)
      PROVE  loc'[p].snap = PlanKinds(request'[loc'[p].id].body)
  <2> DEFINE id == loc[p].id
  <2>1. id \in ReqIds /\ Exists(id) /\ request[id] \in Row
    BY <1>2, HeldRequest DEF ListHolds, LifecyclePC
  <2>2. loc'[p].snap = ListActiveHolds(id) /\ loc'[p].id = id /\ UNCHANGED request
    <3>1. ListActiveHolds(id) \in SUBSET Kinds
      BY DEF ListActiveHolds
    <3> QED BY <1>2, <3>1, SetSnap DEF ListHolds, TypeOK, db
  <2>3. request[id].status = "RESERVED"
    BY <2>2
  <2>4. ListActiveHolds(id) = PlanKinds(request[id].body)
    BY <2>1, <2>3 DEF HoldsFollowRequest, HoldStatusOf, ListActiveHolds, PlanKinds
  <2> QED BY <2>2, <2>4
<1>3. ASSUME NEW q \in Procs, ListHolds(q), q # p
      PROVE  pc[p] \in TxPC /\ loc'[p] = loc[p]
  BY <1>3 DEF ListHolds, TypeOK
<1>4. ASSUME NEW q \in Procs, NEW label \in PC \ TxPC, pc' = [pc EXCEPT ![q] = label],
             \A r \in Procs : r # q => loc'[r] = loc[r]
      PROVE  pc[p] \in TxPC /\ loc'[p] = loc[p]
  BY <1>4 DEF TypeOK
<1> QED BY <1>1, <1>2, <1>3, <1>4, OneMoves

\* Every step moves holds and dedications together with the request's status.
LEMMA HoldsStep ==
  TypeOK /\ HoldsFollowRequest /\ SnapsMatch /\ [Next]_vars => HoldsFollowRequest'
<1> SUFFICES ASSUME TypeOK, HoldsFollowRequest, SnapsMatch, [Next]_vars,
                    NEW i \in ReqIds, NEW k \in Kinds
             PROVE  /\ hold'[i][k] =
                         IF request'[i].status \in DOMAIN HoldStatusOf
                              /\ k \in PlanKinds(request'[i].body)
                         THEN HoldStatusOf[request'[i].status] ELSE "NONE"
                    /\ dedication'[i][k] = IF hold'[i][k] = "DEDICATED" THEN 1 ELSE 0
  BY DEF HoldsFollowRequest, PlanKinds
<1> DEFINE Goal == /\ hold'[i][k] =
                        IF request'[i].status \in DOMAIN HoldStatusOf
                             /\ k \in PlanKinds(request'[i].body)
                        THEN HoldStatusOf[request'[i].status] ELSE "NONE"
                   /\ dedication'[i][k] = IF hold'[i][k] = "DEDICATED" THEN 1 ELSE 0
<1>0. /\ hold[i][k] = IF request[i].status \in DOMAIN HoldStatusOf
                           /\ k \in PlanKinds(request[i].body)
                      THEN HoldStatusOf[request[i].status] ELSE "NONE"
      /\ dedication[i][k] = IF hold[i][k] = "DEDICATED" THEN 1 ELSE 0
  BY DEF HoldsFollowRequest
<1>1. CASE /\ hold'[i][k] = hold[i][k] /\ dedication'[i][k] = dedication[i][k]
           /\ request'[i].status = request[i].status /\ request'[i].body = request[i].body
  BY <1>0, <1>1
<1>2. ASSUME NEW w \in Workers, NEW id \in ReqIds, reserveWithinTx(w, id)
      PROVE  Goal
  <2>1. CASE i = id
    <3>1. /\ request[i].status = "NONE" /\ request'[i].status = "RESERVED"
          /\ request'[i].body = loc[w].in.body
      BY <1>2, <2>1, NewRow DEF NoRow
    <3>2. hold'[i][k] = IF k \in PlanKinds(loc[w].in.body) THEN "ACTIVE" ELSE "NONE"
      BY <1>2, <2>1 DEF reserveWithinTx, CreateReserved, TypeOK, RepositoryTypeOK
    <3>3. dedication'[i][k] = 0
      BY <1>0, <1>2, <3>1 DEF reserveWithinTx, HoldStatusOf
    <3> QED BY <3>1, <3>2, <3>3 DEF HoldStatusOf
  <2>2. CASE i # id
    <3>1. hold'[i][k] = hold[i][k] /\ dedication'[i][k] = dedication[i][k]
      BY <1>2, <2>2 DEF reserveWithinTx, CreateReserved, TypeOK, RepositoryTypeOK
    <3> QED BY <1>1, <1>2, <2>2, <3>1, NewRow
  <2> QED BY <2>1, <2>2
<1>3. ASSUME NEW w \in Workers, NEW id \in ReqIds, persistRejected(w, id)
      PROVE  Goal
  <2>1. hold'[i][k] = hold[i][k] /\ dedication'[i][k] = dedication[i][k]
    BY <1>3 DEF persistRejected
  <2>2. CASE i = id
    <3>1. request[i].status = "NONE" /\ request'[i].status = "REJECTED"
      BY <1>3, <2>2, NewRow DEF NoRow
    <3> QED BY <1>0, <2>1, <3>1 DEF HoldStatusOf
  <2>3. CASE i # id
    BY <1>1, <1>3, <2>1, <2>3, NewRow
  <2> QED BY <2>2, <2>3
<1>4. ASSUME NEW w \in Workers, ConfirmCommit(w)
      PROVE  Goal
  <2> DEFINE id == loc[w].id
             S == loc[w].snap
  <2>1. /\ id \in ReqIds /\ request[id].status = "RESERVED"
        /\ request'[id].status = "COMPLETED" /\ request'[id].body = request[id].body
        /\ \A j \in ReqIds : j # id => request'[j] = request[j]
    BY <1>4, CompletedRow
  <2>2. S = PlanKinds(request[id].body)
    BY <1>4, <2>1 DEF SnapsMatch, ConfirmCommit, At, TxPC, Procs
  <2>3. /\ \A j \in Kinds : hold'[id][j] =
              IF j \in S /\ hold[id][j] = "ACTIVE" THEN "DEDICATED" ELSE hold[id][j]
        /\ \A j \in ReqIds : j # id => hold'[j] = hold[j]
    BY <1>4, <2>1, UpdatedHolds DEF ConfirmCommit, TypeOK, HoldStatus
  <2>4. /\ \A j \in Kinds : dedication'[id][j] =
              IF j \in S THEN dedication[id][j] + 1 ELSE dedication[id][j]
        /\ \A j \in ReqIds : j # id => dedication'[j] = dedication[j]
    BY <1>4, <2>1 DEF ConfirmCommit, InsertDedications, TypeOK, RepositoryTypeOK
  <2>5. CASE i = id
    BY <1>0, <2>1, <2>2, <2>3, <2>4, <2>5 DEF HoldStatusOf
  <2>6. CASE i # id
    BY <1>1, <2>1, <2>3, <2>4, <2>6
  <2> QED BY <2>5, <2>6
<1>5. ASSUME NEW p \in Procs, releaseReserved(p)
      PROVE  Goal
  <2> DEFINE id == loc[p].id
             S == loc[p].snap
             to == IF p \in Sweepers THEN "EXPIRED" ELSE "RELEASED"
  <2>1. /\ id \in ReqIds
        /\ request[id].status = "RESERVED" =>
             request'[id].status = IF p \in Sweepers THEN "EXPIRED" ELSE "CANCELLED"
        /\ request[id].status # "RESERVED" => UNCHANGED request
        /\ request'[id].body = request[id].body
        /\ \A j \in ReqIds : j # id => request'[j] = request[j]
    BY <1>5, ReleasedRow
  <2>2. request[id].status = "RESERVED" => S = PlanKinds(request[id].body)
    BY <1>5 DEF SnapsMatch, releaseReserved, At, TxPC
  <2>3. UpdateHoldStatus(id, S, to) /\ to \in HoldStatus /\ UNCHANGED dedication
    BY <1>5 DEF releaseReserved, HoldStatus
  <2>4. /\ \A j \in Kinds : hold'[id][j] =
              IF j \in S /\ hold[id][j] = "ACTIVE" THEN to ELSE hold[id][j]
        /\ \A j \in ReqIds : j # id => hold'[j] = hold[j]
    BY <2>1, <2>3, UpdatedHolds DEF TypeOK
  <2>5. CASE i = id /\ request[id].status = "RESERVED"
    BY <1>0, <2>1, <2>2, <2>3, <2>4, <2>5 DEF HoldStatusOf
  <2>6. CASE i = id /\ request[id].status # "RESERVED"
    <3>1. hold[i][k] # "ACTIVE"
      BY <1>0, <2>6 DEF HoldStatusOf
    <3> QED BY <1>1, <2>1, <2>3, <2>4, <2>6, <3>1
  <2>7. CASE i # id
    BY <1>1, <2>1, <2>3, <2>4, <2>7
  <2> QED BY <2>5, <2>6, <2>7
<1>6. ASSUME NEW w \in Workers, ExtendUpdate(w)
      PROVE  Goal
  <2>1. hold'[i][k] = hold[i][k] /\ dedication'[i][k] = dedication[i][k]
    BY <1>6 DEF ExtendUpdate
  <2> QED BY <1>1, <1>6, <2>1, ExtensionRow
<1>7. UNCHANGED <<request, hold, dedication>> => Goal
  BY <1>1
<1> HIDE DEF Goal
<1>8. Goal
  BY <1>2, <1>3, <1>4, <1>5, <1>6, <1>7, TableSteps
    DEF PersistRejectedDetail, ExtendEvent, db
<1> QED BY <1>8 DEF Goal

\* Holds and snapshots are right together: neither is inductive alone.
LEMMA HoldsAndSnaps == Spec => [](HoldsFollowRequest /\ SnapsMatch)
<1>1. Init => HoldsFollowRequest /\ SnapsMatch
  BY DEF Init, RepositoryInit, NoRow, HoldsFollowRequest, HoldStatusOf, SnapsMatch, TxPC
<1>2. TypeOK /\ HoldsFollowRequest /\ SnapsMatch /\ [Next]_vars
        => HoldsFollowRequest' /\ SnapsMatch'
  BY HoldsStep, SnapsStep
<1> QED BY <1>1, <1>2, TypeCorrect, PTL DEF Spec

\* Holds and dedications are where the status of their request says, although
\* the transactions that move them read the holds without locking them.
THEOREM HoldsFollow == Spec => []HoldsFollowRequest
BY HoldsAndSnaps, PTL

-----------------------------------------------------------------------------
(* The rows as RequestLife sees them. *)

\* A step that writes one request changes one abstract row.
LEMMA RowsExcept ==
  ASSUME NEW id \in ReqIds, \A i \in ReqIds : i # id => request'[i] = request[i]
  PROVE  Rows' = [Rows EXCEPT ![id] = RowOf(request'[id])]
  BY DEF Rows, RowOf

\* An id without a row maps to the abstract NoRow, and only such an id.
LEMMA RowsNoRow ==
  ASSUME TypeOK, NEW id \in ReqIds
  PROVE  /\ Rows[id] = RowOf(request[id])
         /\ Rows[id] = Life!NoRow <=> ~Exists(id)
<1>1. Rows[id] = RowOf(request[id])
  BY DEF Rows
<1>2. CASE request[id] = NoRow
  BY <1>1, <1>2 DEF RowOf, NoRow, Life!NoRow, Exists
<1>3. CASE request[id] \in Row
  BY <1>1, <1>3 DEF RowOf, Row, RequestStatus, Life!NoRow, Exists
<1> QED BY <1>1, <1>2, <1>3 DEF TypeOK, RepositoryTypeOK

\* The unique index: an insert that commits found the key free.
LEMMA FreshKey ==
  ASSUME TypeOK, NEW id \in ReqIds, NEW in \in Input, ~Exists(id), Duplicates(in) = {}
  PROVE  Life!Fresh(id, in.cust, in.key)
<1>1. Rows[id] = Life!NoRow
  BY RowsNoRow
<1>2. ASSUME NEW i \in ReqIds, Rows[i].cust = in.cust, Rows[i].key = in.key,
             Rows[i] # Life!NoRow
      PROVE  FALSE
  <2>1. Exists(i) /\ request[i].cust = in.cust /\ request[i].key = in.key
    <3>1. Rows[i] = RowOf(request[i]) /\ Exists(i)
      BY <1>2, RowsNoRow
    <3> QED BY <1>2, <3>1 DEF RowOf
  <2> QED BY <2>1 DEF Duplicates, FindByIdempotency
<1> QED BY <1>1, <1>2 DEF Life!Fresh

-----------------------------------------------------------------------------
(* The steps. *)

\* A process about to end a reservation that is still RESERVED has read
\* exactly the holds of its plan, all of them still ACTIVE.
LEMMA FullSnap ==
  ASSUME TypeOK, HoldsFollowRequest, SnapsMatch, NEW p \in Procs, pc[p] \in TxPC,
         request[loc[p].id].status = "RESERVED"
  PROVE  LET id == loc[p].id IN
         /\ id \in ReqIds /\ request[id].body \in Bodies
         /\ loc[p].snap = LinesOf[request[id].body]
         /\ \A k \in Kinds : hold[id][k] = IF k \in loc[p].snap THEN "ACTIVE" ELSE "NONE"
         /\ \A k \in Kinds : dedication[id][k] = 0
<1> DEFINE id == loc[p].id
<1>1. id \in ReqIds /\ request[id].body \in Bodies
  BY HeldRequest DEF TxPC, LifecyclePC, Row
<1>2. loc[p].snap = PlanKinds(request[id].body)
  BY DEF SnapsMatch
<1>3. ASSUME NEW k \in Kinds
      PROVE  /\ hold[id][k] = IF k \in loc[p].snap THEN "ACTIVE" ELSE "NONE"
             /\ dedication[id][k] = 0
  BY <1>1, <1>2 DEF HoldsFollowRequest, HoldStatusOf
<1> QED BY <1>1, <1>2, <1>3 DEF LinesOf

\* UpdateHoldStatus with a full snapshot is the abstract SetHolds.
LEMMA HoldsSet ==
  ASSUME TypeOK, NEW id \in ReqIds, NEW b \in Bodies, NEW to,
         \A k \in Kinds : hold[id][k] = IF k \in LinesOf[b] THEN "ACTIVE" ELSE "NONE",
         UpdateHoldStatus(id, LinesOf[b], to)
  PROVE  Life!SetHolds(id, b, to)
<1>1. [k \in Kinds |-> IF k \in LinesOf[b] /\ hold[id][k] = "ACTIVE" THEN to ELSE hold[id][k]]
        = [k \in Kinds |-> IF k \in LinesOf[b] THEN to ELSE "NONE"]
  OBVIOUS
<1> QED BY <1>1 DEF UpdateHoldStatus, Life!SetHolds

\* reserveWithinTx is the abstract Reserve.
LEMMA ReserveRefines ==
  ASSUME TypeOK, NEW w \in Workers, NEW id \in ReqIds, reserveWithinTx(w, id)
  PROVE  LET in == loc[w].in IN
         /\ in.cust \in Customers /\ in.key \in Keys /\ in.body \in Bodies
         /\ Life!Reserve(id, in.cust, in.key, in.body)
<1> DEFINE in == loc[w].in
<1>1. in \in Input /\ ~Exists(id) /\ Duplicates(in) = {}
  BY NewRow DEF reserveWithinTx
<1>2. in.cust \in Customers /\ in.key \in Keys /\ in.body \in Bodies
  BY <1>1 DEF Input
<1>3. Life!Fresh(id, in.cust, in.key)
  BY <1>1, FreshKey
<1>4. RowOf(request'[id]) = [status |-> "RESERVED", cust |-> in.cust, key |-> in.key, body |-> in.body]
  BY NewRow DEF RowOf
<1>5. Rows' = [Rows EXCEPT ![id] = RowOf(request'[id])]
  BY NewRow, RowsExcept
<1>6. Life!SetHolds(id, in.body, "ACTIVE")
  BY <1>2 DEF reserveWithinTx, CreateReserved, Life!SetHolds, LinesOf
<1>7. UNCHANGED dedication
  BY DEF reserveWithinTx
<1> HIDE DEF in
<1>8. Life!Reserve(id, in.cust, in.key, in.body)
  BY <1>3, <1>4, <1>5, <1>6, <1>7 DEF Life!Reserve
<1> QED BY <1>2, <1>8 DEF in

\* The first statement of persistRejected is the abstract Reject.
LEMMA RejectRefines ==
  ASSUME TypeOK, NEW w \in Workers, NEW id \in ReqIds, persistRejected(w, id)
  PROVE  LET in == loc[w].in IN
         /\ in.cust \in Customers /\ in.key \in Keys /\ in.body \in Bodies
         /\ Life!Reject(id, in.cust, in.key, in.body)
<1> DEFINE in == loc[w].in
<1>1. in \in Input /\ ~Exists(id) /\ Duplicates(in) = {}
  BY NewRow DEF persistRejected
<1>2. in.cust \in Customers /\ in.key \in Keys /\ in.body \in Bodies
  BY <1>1 DEF Input
<1>3. Life!Fresh(id, in.cust, in.key)
  BY <1>1, FreshKey
<1>4. RowOf(request'[id]) = [status |-> "REJECTED", cust |-> in.cust, key |-> in.key, body |-> in.body]
  BY NewRow DEF RowOf
<1>5. Rows' = [Rows EXCEPT ![id] = RowOf(request'[id])]
  BY NewRow, RowsExcept
<1>6. UNCHANGED <<hold, dedication>>
  BY DEF persistRejected
<1> HIDE DEF in
<1>7. Life!Reject(id, in.cust, in.key, in.body)
  BY <1>3, <1>4, <1>5, <1>6 DEF Life!Reject
<1> QED BY <1>2, <1>7 DEF in

\* A commit that only changes the status of a row, seen abstractly.
LEMMA StatusRefines ==
  ASSUME TypeOK, NEW id \in ReqIds, NEW s, request'[id].status = s,
         request'[id].cust = request[id].cust, request'[id].key = request[id].key,
         request'[id].body = request[id].body,
         \A i \in ReqIds : i # id => request'[i] = request[i]
  PROVE  Rows' = [Rows EXCEPT ![id].status = s]
<1>1. RowOf(request'[id]) = [RowOf(request[id]) EXCEPT !.status = s]
  BY DEF RowOf
<1>2. Rows[id] = RowOf(request[id])
  BY RowsNoRow
<1>3. Rows' = [Rows EXCEPT ![id] = RowOf(request'[id])]
  BY RowsExcept
<1> QED BY <1>1, <1>2, <1>3

\* The committing confirm is the abstract Confirm.
LEMMA ConfirmRefines ==
  ASSUME TypeOK, HoldsFollowRequest, SnapsMatch, NEW w \in Workers, ConfirmCommit(w)
  PROVE  loc[w].id \in ReqIds /\ Life!Confirm(loc[w].id)
<1> DEFINE id == loc[w].id
           b == request[id].body
<1>1. w \in Procs /\ pc[w] \in TxPC /\ request[id].status = "RESERVED"
  BY DEF ConfirmCommit, At, TxPC, Procs
<1>2. /\ id \in ReqIds /\ b \in Bodies /\ loc[w].snap = LinesOf[b]
      /\ \A k \in Kinds : hold[id][k] = IF k \in LinesOf[b] THEN "ACTIVE" ELSE "NONE"
      /\ \A k \in Kinds : dedication[id][k] = 0
  BY <1>1, FullSnap
<1>3. Rows[id].status = "RESERVED" /\ Rows[id].body = b
  BY <1>1, <1>2 DEF Rows, RowOf
<1>4. Rows' = [Rows EXCEPT ![id].status = "COMPLETED"]
  BY <1>2, CompletedRow, StatusRefines
<1>5. UpdateHoldStatus(id, LinesOf[b], "DEDICATED") /\ InsertDedications(id, LinesOf[b])
  BY <1>2 DEF ConfirmCommit
<1> HIDE DEF b, id
<1>6. Life!SetHolds(id, b, "DEDICATED")
  BY <1>2, <1>5, HoldsSet
<1>7. [k \in Kinds |-> IF k \in LinesOf[b] THEN dedication[id][k] + 1 ELSE dedication[id][k]]
        = [k \in Kinds |-> IF k \in LinesOf[b] THEN 1 ELSE 0]
  BY <1>2
<1>8. Life!Confirm(id)
  BY <1>3, <1>4, <1>5, <1>6, <1>7 DEF Life!Confirm, InsertDedications
<1> QED BY <1>2, <1>8 DEF id

\* A release that comes after another transition writes no row and no hold.
LEMMA LateRelease ==
  ASSUME TypeOK, HoldsFollowRequest, NEW p \in Procs, releaseReserved(p),
         request[loc[p].id].status # "RESERVED"
  PROVE  UNCHANGED <<request, hold>>
<1> DEFINE id == loc[p].id
           to == IF p \in Sweepers THEN "EXPIRED" ELSE "RELEASED"
<1>1. id \in ReqIds /\ UNCHANGED request
  BY ReleasedRow
<1>2. \A k \in Kinds : hold[id][k] # "ACTIVE"
  BY <1>1 DEF HoldsFollowRequest, HoldStatusOf
<1>3. hold[id] \in [Kinds -> HoldStatus \cup {"NONE"}] /\ hold = [hold EXCEPT ![id] = hold[id]]
  BY <1>1 DEF TypeOK, RepositoryTypeOK
<1>4. UpdateHoldStatus(id, loc[p].snap, to)
  BY DEF releaseReserved
<1>5. [k \in Kinds |-> IF k \in loc[p].snap /\ hold[id][k] = "ACTIVE" THEN to ELSE hold[id][k]]
        = hold[id]
  BY <1>2, <1>3
<1> QED BY <1>1, <1>3, <1>4, <1>5 DEF UpdateHoldStatus

\* The committing release is the abstract Cancel, of a worker, or Expire, of a
\* sweeper; when another transition came first it changes no row and no hold.
LEMMA ReleaseRefines ==
  ASSUME TypeOK, HoldsFollowRequest, SnapsMatch, NEW p \in Procs, releaseReserved(p)
  PROVE  /\ loc[p].id \in ReqIds
         /\ IF request[loc[p].id].status = "RESERVED"
            THEN Life!Cancel(loc[p].id) \/ Life!Expire(loc[p].id)
            ELSE UNCHANGED Life!life
<1> DEFINE id == loc[p].id
           b == request[id].body
<1>1. id \in ReqIds /\ pc[p] \in TxPC
  BY ReleasedRow DEF releaseReserved, At, TxPC
<1>2. UpdateHoldStatus(id, loc[p].snap, IF p \in Sweepers THEN "EXPIRED" ELSE "RELEASED")
  BY DEF releaseReserved
<1>3. UNCHANGED dedication
  BY DEF releaseReserved
<1>4. CASE request[id].status = "RESERVED"
  <2>1. /\ b \in Bodies /\ loc[p].snap = LinesOf[b]
        /\ \A k \in Kinds : hold[id][k] = IF k \in LinesOf[b] THEN "ACTIVE" ELSE "NONE"
    BY <1>1, <1>4, FullSnap
  <2>2. Rows[id].status = "RESERVED" /\ Rows[id].body = b
    BY <1>1, <1>4 DEF Rows, RowOf
  <2>3. /\ request'[id].status = IF p \in Sweepers THEN "EXPIRED" ELSE "CANCELLED"
        /\ request'[id].cust = request[id].cust /\ request'[id].key = request[id].key
        /\ request'[id].body = request[id].body
        /\ \A i \in ReqIds : i # id => request'[i] = request[i]
    BY <1>4, ReleasedRow
  <2> HIDE DEF b, id
  <2>4. CASE p \in Sweepers
    <3>1. Rows' = [Rows EXCEPT ![id].status = "EXPIRED"]
      BY <1>1, <2>3, <2>4, StatusRefines
    <3>2. Life!SetHolds(id, b, "EXPIRED")
      BY <1>1, <1>2, <2>1, <2>4, HoldsSet
    <3>3. Life!Expire(id)
      BY <1>3, <2>2, <3>1, <3>2 DEF Life!Expire
    <3> QED BY <1>1, <1>4, <3>3 DEF id
  <2>5. CASE p \notin Sweepers
    <3>1. Rows' = [Rows EXCEPT ![id].status = "CANCELLED"]
      BY <1>1, <2>3, <2>5, StatusRefines
    <3>2. Life!SetHolds(id, b, "RELEASED")
      BY <1>1, <1>2, <2>1, <2>5, HoldsSet
    <3>3. Life!Cancel(id)
      BY <1>3, <2>2, <3>1, <3>2 DEF Life!Cancel
    <3> QED BY <1>1, <1>4, <3>3 DEF id
  <2> QED BY <2>4, <2>5
<1>5. CASE request[id].status # "RESERVED"
  BY <1>1, <1>3, <1>5, LateRelease DEF Life!life, Rows
<1> QED BY <1>4, <1>5

\* An extension changes nothing RequestLife can see.
LEMMA ExtendRefines ==
  ASSUME TypeOK, NEW w \in Workers, ExtendUpdate(w)
  PROVE  UNCHANGED Life!life
<1>1. \A i \in ReqIds : RowOf(request'[i]) = RowOf(request[i])
  BY ExtensionRow DEF RowOf
<1>2. UNCHANGED Rows
  BY <1>1 DEF Rows
<1> QED BY <1>2 DEF Life!life, ExtendUpdate

\* Seen through its rows, holds and dedications the service is RequestLife:
\* every step reserves, rejects, confirms, cancels or expires one request
\* completely, or changes nothing.
THEOREM LifeRefinement == Spec => ImplementsRequestLife
<1>1. Init => Life!Init
  BY DEF Init, RepositoryInit, Life!Init, Life!NoRow, NoRow, Rows, RowOf
<1>2. TypeOK /\ HoldsFollowRequest /\ SnapsMatch /\ [Next]_vars => [Life!Next]_(Life!life)
  <2> SUFFICES ASSUME TypeOK, HoldsFollowRequest, SnapsMatch, [Next]_vars
               PROVE  Life!Next \/ UNCHANGED Life!life
    OBVIOUS
  <2>1. UNCHANGED <<request, hold, dedication>> => UNCHANGED Life!life
    BY DEF Life!life, Rows
  <2>2. ASSUME NEW w \in Workers, NEW id \in ReqIds,
               reserveWithinTx(w, id) \/ persistRejected(w, id)
        PROVE  Life!Next
    BY <2>2, ReserveRefines, RejectRefines DEF Life!Next
  <2>3. ASSUME NEW w \in Workers, ConfirmCommit(w)
        PROVE  Life!Next
    BY <2>3, ConfirmRefines DEF Life!Next
  <2>4. ASSUME NEW p \in Procs, releaseReserved(p)
        PROVE  Life!Next \/ UNCHANGED Life!life
    BY <2>4, ReleaseRefines DEF Life!Next
  <2> QED BY <2>1, <2>2, <2>3, <2>4, TableSteps, ExtendRefines
    DEF PersistRejectedDetail, ExtendEvent, db
<1> QED BY <1>1, <1>2, TypeCorrect, HoldsAndSnaps, PTL
  DEF Spec, ImplementsRequestLife, Life!Spec

-----------------------------------------------------------------------------
(* Who moves a process, and from where it comes to each of its steps. *)

\* A step of a worker leaves the position and the locals of every other process
\* alone.
LEMMA WorkerMovesAlone ==
  ASSUME TypeOK, NEW w \in Workers, NEW p \in Procs, p # w,
         Create(w) \/ Lifecycle(w) \/ ReturnError(w)
  PROVE  pc'[p] = pc[p] /\ loc'[p] = loc[p]
<1> USE DEF TypeOK
<1>1. CASE Create(w)
  <2>1. ASSUME NEW c \in Customers, NEW key \in Keys, NEW b \in Bodies,
               \/ ReplayFromRedis(w, c, key, b) \/ ReplayFromDB(w, c, key, b)
               \/ CreateAdmit(w, c, key, b)
        PROVE  pc'[p] = pc[p] /\ loc'[p] = loc[p]
    BY <2>1 DEF ReplayFromRedis, ReplayFromDB, CreateAdmit, proc
  <2>2. CASE \/ enforceActiveHoldsLimit(w) \/ ReserveDuplicate(w) \/ ReserveReject(w)
             \/ PersistRejectedDetail(w) \/ PersistRejectedDuplicate(w)
    BY <2>2 DEF enforceActiveHoldsLimit, ReserveDuplicate, ReserveReject,
                PersistRejectedDetail, PersistRejectedDuplicate, Goto
  <2>3. CASE buildReservationPlan(w)
    BY <2>3 DEF buildReservationPlan
  <2>4. ASSUME NEW id \in ReqIds, reserveWithinTx(w, id) \/ persistRejected(w, id)
        PROVE  pc'[p] = pc[p] /\ loc'[p] = loc[p]
    BY <2>4 DEF reserveWithinTx, persistRejected, GotoWith
  <2>5. CASE replayAfterDuplicate(w) \/ recordOutcome(w)
    BY <2>5 DEF replayAfterDuplicate, recordOutcome, Return
  <2>6. CASE RejectedReplay(w)
    BY <2>6 DEF RejectedReplay, GotoWith
  <2> QED BY <1>1, <2>1, <2>2, <2>3, <2>4, <2>5, <2>6 DEF Create
<1>2. CASE Lifecycle(w) \/ ReturnError(w)
  <2>1. ASSUME NEW id \in ReqIds, ConfirmGet(w, id) \/ CancelGet(w, id) \/ ExtendGet(w, id)
        PROVE  pc'[p] = pc[p] /\ loc'[p] = loc[p]
    BY <2>1 DEF ConfirmGet, CancelGet, ExtendGet, GotoWith
  <2>2. CASE ConfirmCommit(w) \/ ExtendEvent(w) \/ ReturnError(w)
    BY <2>2 DEF ConfirmCommit, ExtendEvent, ReturnError, Return
  <2>3. CASE ListHolds(w) \/ releaseReserved(w) \/ ExtendUpdate(w)
    BY <2>3 DEF ListHolds, releaseReserved, ExtendUpdate, Goto
  <2> QED BY <1>2, <2>1, <2>2, <2>3 DEF Lifecycle
<1> QED BY <1>1, <1>2

\* So does a step of a sweeper.
LEMMA SweeperMovesAlone ==
  ASSUME TypeOK, NEW s \in Sweepers, NEW p \in Procs, p # s, ExpireDue(s)
  PROVE  pc'[p] = pc[p] /\ loc'[p] = loc[p]
<1> USE DEF TypeOK
<1>1. ASSUME NEW id \in ReqIds, SweepNext(s, id)
      PROVE  pc'[p] = pc[p] /\ loc'[p] = loc[p]
  BY <1>1 DEF SweepNext
<1>2. CASE \/ SweepLock(s) \/ SweepList(s) \/ ListHolds(s) \/ releaseReserved(s)
           \/ SweepFail(s) \/ SweepSessionLost(s)
  BY <1>2 DEF SweepLock, SweepList, ListHolds, releaseReserved, SweepFail,
              SweepSessionLost, proc
<1>3. CASE SweepEnd(s) \/ SweepCrash(s)
  BY <1>3 DEF SweepEnd, SweepCrash, Return
<1> QED BY <1>1, <1>2, <1>3 DEF ExpireDue

\* A process that moves does so by a step of its own.
LEMMA OthersStay ==
  ASSUME TypeOK, [Next]_vars, NEW p \in Procs
  PROVE  \/ pc'[p] = pc[p] /\ loc'[p] = loc[p]
         \/ p \in Workers /\ (Create(p) \/ Lifecycle(p) \/ ReturnError(p))
         \/ p \in Sweepers /\ ExpireDue(p)
<1>1. ASSUME NEW r \in RedisKeys, RedisForget(r)
      PROVE  pc'[p] = pc[p] /\ loc'[p] = loc[p]
  BY <1>1 DEF RedisForget, proc
<1>2. Tick \/ UNCHANGED vars => pc'[p] = pc[p] /\ loc'[p] = loc[p]
  BY DEF Tick, vars, proc
<1> QED BY <1>1, <1>2, WorkerMovesAlone, SweeperMovesAlone DEF Next

\* A process that moves moves by one of the steps that lead where it is then.
LEMMA Arrivals ==
  ASSUME TypeOK, [Next]_vars, NEW p \in Procs, ~(pc'[p] = pc[p] /\ loc'[p] = loc[p])
  PROVE  /\ pc'[p] = "plan" => p \in Workers /\ enforceActiveHoldsLimit(p)
         /\ pc'[p] = "reserve" => p \in Workers /\ buildReservationPlan(p)
         /\ pc'[p] = "reject" => p \in Workers /\ ReserveReject(p)
         /\ pc'[p] = "rejectDetail" => p \in Workers /\ \E id \in ReqIds : persistRejected(p, id)
         /\ pc'[p] = "record" =>
              /\ p \in Workers
              /\ \/ \E id \in ReqIds : reserveWithinTx(p, id)
                 \/ PersistRejectedDetail(p) \/ RejectedReplay(p)
         /\ pc'[p] = "confirm" => p \in Workers /\ \E id \in ReqIds : ConfirmGet(p, id)
         /\ pc'[p] = "release" =>
              \E id \in ReqIds : \/ p \in Workers /\ CancelGet(p, id)
                                 \/ p \in Sweepers /\ SweepNext(p, id)
         /\ pc'[p] \in TxPC => ListHolds(p)
         /\ pc'[p] = "extend" => p \in Workers /\ \E id \in ReqIds : ExtendGet(p, id)
         /\ pc'[p] = "extendEvent" => p \in Workers /\ ExtendUpdate(p)
         /\ pc'[p] = "list" => p \in Sweepers /\ SweepLock(p)
<1> DEFINE Goal ==
         /\ pc'[p] = "plan" => p \in Workers /\ enforceActiveHoldsLimit(p)
         /\ pc'[p] = "reserve" => p \in Workers /\ buildReservationPlan(p)
         /\ pc'[p] = "reject" => p \in Workers /\ ReserveReject(p)
         /\ pc'[p] = "rejectDetail" => p \in Workers /\ \E id \in ReqIds : persistRejected(p, id)
         /\ pc'[p] = "record" =>
              /\ p \in Workers
              /\ \/ \E id \in ReqIds : reserveWithinTx(p, id)
                 \/ PersistRejectedDetail(p) \/ RejectedReplay(p)
         /\ pc'[p] = "confirm" => p \in Workers /\ \E id \in ReqIds : ConfirmGet(p, id)
         /\ pc'[p] = "release" =>
              \E id \in ReqIds : \/ p \in Workers /\ CancelGet(p, id)
                                 \/ p \in Sweepers /\ SweepNext(p, id)
         /\ pc'[p] \in TxPC => ListHolds(p)
         /\ pc'[p] = "extend" => p \in Workers /\ \E id \in ReqIds : ExtendGet(p, id)
         /\ pc'[p] = "extendEvent" => p \in Workers /\ ExtendUpdate(p)
         /\ pc'[p] = "list" => p \in Sweepers /\ SweepLock(p)
<1> SUFFICES Goal
  OBVIOUS
<1>1. p \in DOMAIN pc
  BY DEF TypeOK
<1>2. CASE p \in Workers /\ Create(p)
  <2>1. ASSUME NEW c \in Customers, NEW key \in Keys, NEW b \in Bodies,
               ReplayFromRedis(p, c, key, b) \/ ReplayFromDB(p, c, key, b)
        PROVE  FALSE
    BY <2>1 DEF ReplayFromRedis, ReplayFromDB, proc
  <2>2. ASSUME NEW c \in Customers, NEW key \in Keys, NEW b \in Bodies,
               CreateAdmit(p, c, key, b)
        PROVE  Goal
    <3>1. pc'[p] = "limit"
      BY <1>1, <2>2 DEF CreateAdmit
    <3> QED BY <1>2, <3>1 DEF TxPC
  <2>3. CASE enforceActiveHoldsLimit(p)
    <3>1. pc'[p] = "plan"
      BY <1>1, <2>3 DEF enforceActiveHoldsLimit, Goto
    <3> QED BY <1>2, <2>3, <3>1 DEF TxPC
  <2>4. CASE buildReservationPlan(p)
    <3>1. pc'[p] = "reserve"
      BY <1>1, <2>4 DEF buildReservationPlan
    <3> QED BY <1>2, <2>4, <3>1 DEF TxPC
  <2>5. CASE ReserveReject(p)
    <3>1. pc'[p] = "reject"
      BY <1>1, <2>5 DEF ReserveReject, Goto
    <3> QED BY <1>2, <2>5, <3>1 DEF TxPC
  <2>6. CASE ReserveDuplicate(p) \/ PersistRejectedDuplicate(p)
    <3>1. pc'[p] \in {"replay", "rejectReplay"}
      BY <1>1, <2>6 DEF ReserveDuplicate, PersistRejectedDuplicate, Goto
    <3> QED BY <1>2, <3>1 DEF TxPC
  <2>7. CASE PersistRejectedDetail(p) \/ RejectedReplay(p)
    <3>1. pc'[p] = "record"
      BY <1>1, <2>7 DEF PersistRejectedDetail, RejectedReplay, Goto, GotoWith
    <3> QED BY <1>2, <2>7, <3>1 DEF TxPC
  <2>8. ASSUME NEW id \in ReqIds, reserveWithinTx(p, id)
        PROVE  Goal
    <3>1. pc'[p] = "record"
      BY <1>1, <2>8 DEF reserveWithinTx, GotoWith
    <3> QED BY <1>2, <2>8, <3>1 DEF TxPC
  <2>9. ASSUME NEW id \in ReqIds, persistRejected(p, id)
        PROVE  Goal
    <3>1. pc'[p] = "rejectDetail"
      BY <1>1, <2>9 DEF persistRejected, GotoWith
    <3> QED BY <1>2, <2>9, <3>1 DEF TxPC
  <2>10. CASE replayAfterDuplicate(p) \/ recordOutcome(p)
    <3>1. pc'[p] = "idle"
      BY <1>1, <2>10 DEF replayAfterDuplicate, recordOutcome, Return
    <3> QED BY <1>2, <3>1 DEF TxPC
  <2> HIDE DEF Goal
  <2> QED BY <1>2, <2>1, <2>2, <2>3, <2>4, <2>5, <2>6, <2>7, <2>8, <2>9, <2>10 DEF Create
<1>3. CASE p \in Workers /\ (Lifecycle(p) \/ ReturnError(p))
  <2>1. ASSUME NEW id \in ReqIds, ConfirmGet(p, id)
        PROVE  Goal
    <3>1. pc'[p] = "confirm"
      BY <1>1, <2>1 DEF ConfirmGet, GotoWith
    <3> QED BY <1>3, <2>1, <3>1 DEF TxPC
  <2>2. ASSUME NEW id \in ReqIds, CancelGet(p, id)
        PROVE  Goal
    <3>1. pc'[p] = "release"
      BY <1>1, <2>2 DEF CancelGet, GotoWith
    <3> QED BY <1>3, <2>2, <3>1 DEF TxPC
  <2>3. ASSUME NEW id \in ReqIds, ExtendGet(p, id)
        PROVE  Goal
    <3>1. pc'[p] = "extend"
      BY <1>1, <2>3 DEF ExtendGet
    <3> QED BY <1>3, <2>3, <3>1 DEF TxPC
  <2>4. CASE ListHolds(p)
    <3>1. pc'[p] \in TxPC
      BY <1>1, <2>4 DEF ListHolds, TxPC
    <3> QED BY <1>3, <2>4, <3>1 DEF TxPC
  <2>5. CASE ConfirmCommit(p) \/ ExtendEvent(p) \/ ReturnError(p)
    <3>1. pc'[p] = "idle"
      BY <1>1, <2>5 DEF ConfirmCommit, ExtendEvent, ReturnError, Return
    <3> QED BY <1>3, <3>1 DEF TxPC
  <2>6. CASE releaseReserved(p)
    <3>1. pc'[p] \in {"idle", "sweep"}
      BY <1>1, <2>6 DEF releaseReserved
    <3> QED BY <1>3, <3>1 DEF TxPC
  <2>7. CASE ExtendUpdate(p)
    <3>1. pc'[p] = "extendEvent"
      BY <1>1, <2>7 DEF ExtendUpdate, Goto
    <3> QED BY <1>3, <2>7, <3>1 DEF TxPC
  <2> HIDE DEF Goal
  <2> QED BY <1>3, <2>1, <2>2, <2>3, <2>4, <2>5, <2>6, <2>7 DEF Lifecycle
<1>4. CASE p \in Sweepers /\ ExpireDue(p)
  <2>1. CASE SweepLock(p)
    <3>1. pc'[p] = "list"
      BY <1>1, <2>1 DEF SweepLock
    <3> QED BY <1>4, <2>1, <3>1 DEF TxPC
  <2>2. CASE SweepList(p) \/ SweepFail(p) \/ releaseReserved(p)
    <3>1. pc'[p] \in {"sweep", "idle"}
      BY <1>1, <2>2 DEF SweepList, SweepFail, releaseReserved
    <3> QED BY <1>4, <3>1 DEF TxPC
  <2>3. ASSUME NEW id \in ReqIds, SweepNext(p, id)
        PROVE  Goal
    <3>1. pc'[p] = "release"
      BY <1>1, <2>3 DEF SweepNext
    <3> QED BY <1>4, <2>3, <3>1 DEF TxPC
  <2>4. CASE ListHolds(p)
    <3>1. pc'[p] \in TxPC
      BY <1>1, <2>4 DEF ListHolds, TxPC
    <3> QED BY <1>4, <2>4, <3>1 DEF TxPC
  <2>5. CASE SweepEnd(p) \/ SweepCrash(p)
    <3>1. pc'[p] = "idle"
      BY <1>1, <2>5 DEF SweepEnd, SweepCrash, Return
    <3> QED BY <1>4, <3>1 DEF TxPC
  <2>6. CASE SweepSessionLost(p)
    BY <2>6 DEF SweepSessionLost, proc
  <2> HIDE DEF Goal
  <2> QED BY <1>4, <2>1, <2>2, <2>3, <2>4, <2>5, <2>6 DEF ExpireDue
<1> HIDE DEF Goal
<1> QED BY <1>2, <1>3, <1>4, OthersStay

-----------------------------------------------------------------------------
(* The audit trail.  persistRejected writes the row and the event in two    *)
(* statements; the event is written once because only the call that made    *)
(* the row is at the second one.                                            *)

\* A call between the two statements is the only one there for its request,
\* which is rejected and not yet audited.
RejectsPending ==
  \A p \in Procs : pc[p] = "rejectDetail" =>
    /\ request[loc[p].id].status = "REJECTED"
    /\ event[loc[p].id]["rejected"] = 0
    /\ \A q \in Procs : pc[q] = "rejectDetail" /\ loc[q].id = loc[p].id => q = p

\* The events of a request in the form the steps below establish.
AuditOf(r, e) ==
  /\ e["reserved"] = IF r.status \in DOMAIN HoldStatusOf THEN 1 ELSE 0
  /\ e["confirmed"] = IF r.status = "COMPLETED" THEN 1 ELSE 0
  /\ e["cancelled"] = IF r.status = "CANCELLED" THEN 1 ELSE 0
  /\ e["expired"] = IF r.status = "EXPIRED" THEN 1 ELSE 0
  /\ e["rejected"] <= IF r.status = "REJECTED" THEN 1 ELSE 0

\* Each terminal status is audited by the event of its own name.
LEMMA AuditParts ==
  /\ AuditFollowsRequest <=> \A id \in ReqIds : AuditOf(request[id], event[id])
  /\ AuditFollowsRequest' <=> \A id \in ReqIds : AuditOf(request'[id], event'[id])
<1>1. /\ DOMAIN EventOf = {"COMPLETED", "CANCELLED", "EXPIRED"}
      /\ EventOf["COMPLETED"] = "confirmed" /\ EventOf["CANCELLED"] = "cancelled"
      /\ EventOf["EXPIRED"] = "expired"
  BY DEF EventOf
<1>2. AuditFollowsRequest <=> \A id \in ReqIds : AuditOf(request[id], event[id])
  BY <1>1 DEF AuditFollowsRequest, AuditOf
<1>3. AuditFollowsRequest' <=> \A id \in ReqIds : AuditOf(request'[id], event'[id])
  BY <1>1 DEF AuditFollowsRequest, AuditOf
<1> QED BY <1>2, <1>3

\* Only PersistRejectedDetail writes a "rejected" event.
LEMMA RejectedEvents ==
  ASSUME TypeOK, [Next]_vars, NEW i \in ReqIds
  PROVE  \/ event'[i]["rejected"] = event[i]["rejected"]
         \/ \E w \in Workers : PersistRejectedDetail(w) /\ loc[w].id = i
<1> DEFINE Same == event'[i]["rejected"] = event[i]["rejected"]
<1>1. ASSUME NEW id \in ReqIds, NEW t \in EventType, t # "rejected", insertEvent(id, t)
      PROVE  Same
  BY <1>1, InsertedEvent DEF TypeOK, EventType
<1>2. ASSUME NEW w \in Workers, PersistRejectedDetail(w), loc[w].id # i
      PROVE  Same
  <2>1. loc[w].id \in ReqIds
    BY <1>2 DEF PersistRejectedDetail, At, CreatedPC, TypeOK, LocalsOK, Procs
  <2> QED BY <1>2, <2>1, InsertedEvent DEF PersistRejectedDetail, TypeOK, EventType
<1>3. ASSUME NEW w \in Workers, NEW id \in ReqIds, reserveWithinTx(w, id)
      PROVE  Same
  BY <1>1, <1>3 DEF reserveWithinTx, CreateReserved, EventType
<1>4. ASSUME NEW w \in Workers, ConfirmCommit(w)
      PROVE  Same
  BY <1>1, <1>4, CompletedRow DEF ConfirmCommit, EventType
<1>5. ASSUME NEW w \in Workers, ExtendEvent(w)
      PROVE  Same
  <2>1. loc[w].id \in ReqIds
    BY <1>5, HeldRequest DEF ExtendEvent, At, LifecyclePC, Procs
  <2> QED BY <1>1, <1>5, <2>1 DEF ExtendEvent, EventType
<1>6. ASSUME NEW p \in Procs, releaseReserved(p)
      PROVE  Same
  BY <1>1, <1>6, ReleasedRow DEF EventType
<1> QED BY <1>2, <1>3, <1>4, <1>5, <1>6, TableSteps
  DEF persistRejected, ExtendUpdate, db

\* The claim about the calls between the two statements is kept.
LEMMA PendingStep ==
  TypeOK /\ AuditFollowsRequest /\ RejectsPending /\ [Next]_vars => RejectsPending'
<1> SUFFICES ASSUME TypeOK, AuditFollowsRequest, RejectsPending, [Next]_vars,
                    NEW p \in Procs, pc'[p] = "rejectDetail"
             PROVE  /\ request'[loc'[p].id].status = "REJECTED"
                    /\ event'[loc'[p].id]["rejected"] = 0
                    /\ \A q \in Procs :
                         pc'[q] = "rejectDetail" /\ loc'[q].id = loc'[p].id => q = p
  BY DEF RejectsPending
<1>1. ASSUME NEW q \in Procs, pc[q] = "rejectDetail"
      PROVE  loc[q].id \in ReqIds /\ Exists(loc[q].id)
  BY <1>1 DEF TypeOK, LocalsOK, CreatedPC
<1>2. ASSUME NEW q \in Procs, pc'[q] = "rejectDetail", ~(pc'[q] = pc[q] /\ loc'[q] = loc[q])
      PROVE  \E id \in ReqIds :
               /\ persistRejected(q, id) /\ ~Exists(id) /\ loc'[q].id = id
               /\ \A r \in Procs : r # q => pc'[r] = pc[r] /\ loc'[r] = loc[r]
  <2>1. PICK id \in ReqIds : persistRejected(q, id)
    BY <1>2, Arrivals
  <2> QED BY <2>1, SetId DEF persistRejected, GotoWith, TypeOK
<1>3. CASE pc'[p] = pc[p] /\ loc'[p] = loc[p]
  <2> DEFINE id == loc[p].id
  <2>1. /\ id \in ReqIds /\ Exists(id) /\ request[id].status = "REJECTED"
        /\ event[id]["rejected"] = 0
    BY <1>1, <1>3 DEF RejectsPending
  <2>2. request'[id].status = "REJECTED"
    BY <2>1, FinalStep DEF Final, RequestStatus
  <2>3. ASSUME NEW w \in Workers, PersistRejectedDetail(w), loc[w].id = id
        PROVE  FALSE
    <3>1. w \in Procs /\ pc[w] = "rejectDetail" /\ pc'[w] = "record"
      BY <2>3 DEF PersistRejectedDetail, At, Goto, Procs, TypeOK
    <3>2. w = p
      BY <1>3, <2>3, <3>1 DEF RejectsPending
    <3> QED BY <3>1, <3>2
  <2>4. event'[id]["rejected"] = 0
    BY <2>1, <2>3, RejectedEvents
  <2>5. ASSUME NEW q \in Procs, pc'[q] = "rejectDetail", loc'[q].id = id
        PROVE  q = p
    <3>1. pc'[q] = pc[q] /\ loc'[q] = loc[q]
      BY <1>2, <2>1, <2>5
    <3> QED BY <1>3, <2>5, <3>1 DEF RejectsPending
  <2> QED BY <1>3, <2>2, <2>4, <2>5
<1>4. CASE ~(pc'[p] = pc[p] /\ loc'[p] = loc[p])
  <2>1. PICK id \in ReqIds :
          /\ persistRejected(p, id) /\ ~Exists(id) /\ loc'[p].id = id
          /\ \A r \in Procs : r # p => pc'[r] = pc[r] /\ loc'[r] = loc[r]
    BY <1>2, <1>4
  <2>2. p \in Workers
    BY <1>4, Arrivals
  <2>3. request'[id].status = "REJECTED" /\ request[id].status = "NONE"
    BY <2>1, <2>2, NewRow DEF NoRow
  <2>4. event[id]["rejected"] = 0
    <3>1. event[id]["rejected"] \in Nat
      BY DEF TypeOK, RepositoryTypeOK, EventType
    <3>2. event[id]["rejected"] <= 0
      BY <2>3, AuditParts DEF AuditOf
    <3> QED BY <3>1, <3>2
  <2>5. UNCHANGED event
    BY <2>1 DEF persistRejected
  <2>6. ASSUME NEW q \in Procs, pc'[q] = "rejectDetail", loc'[q].id = id, q # p
        PROVE  FALSE
    BY <1>1, <2>1, <2>6
  <2> QED BY <2>1, <2>3, <2>4, <2>5, <2>6
<1> QED BY <1>3, <1>4

\* Every step writes the event of the transition it makes and no other.
LEMMA AuditStep ==
  TypeOK /\ AuditFollowsRequest /\ RejectsPending /\ [Next]_vars => AuditFollowsRequest'
<1> SUFFICES ASSUME TypeOK, AuditFollowsRequest, RejectsPending, [Next]_vars, NEW i \in ReqIds
             PROVE  AuditOf(request'[i], event'[i])
  BY AuditParts
<1> DEFINE Goal == AuditOf(request'[i], event'[i])
<1>0. AuditOf(request[i], event[i]) /\ event[i] \in [EventType -> Nat]
  BY AuditParts DEF TypeOK, RepositoryTypeOK
<1>1. CASE request'[i].status = request[i].status /\ event'[i] = event[i]
  BY <1>0, <1>1 DEF AuditOf
<1>2. ASSUME NEW id \in ReqIds, NEW t \in EventType, insertEvent(id, t)
      PROVE  /\ event'[id][t] = event[id][t] + 1
             /\ \A u \in EventType : u # t => event'[id][u] = event[id][u]
             /\ \A j \in ReqIds : j # id => event'[j] = event[j]
  BY <1>2, InsertedEvent DEF TypeOK
<1>3. ASSUME NEW w \in Workers, NEW id \in ReqIds, reserveWithinTx(w, id)
      PROVE  Goal
  <2>1. insertEvent(id, "reserved") /\ "reserved" \in EventType
    BY <1>3 DEF reserveWithinTx, CreateReserved, EventType
  <2>2. CASE i = id
    <3>1. request[i].status = "NONE" /\ request'[i].status = "RESERVED"
      BY <1>3, <2>2, NewRow DEF NoRow
    <3> QED BY <1>0, <1>2, <2>1, <2>2, <3>1 DEF AuditOf, HoldStatusOf, EventType
  <2>3. CASE i # id
    BY <1>1, <1>2, <1>3, <2>1, <2>3, NewRow
  <2> QED BY <2>2, <2>3
<1>4. ASSUME NEW w \in Workers, NEW id \in ReqIds, persistRejected(w, id)
      PROVE  Goal
  <2>1. UNCHANGED event
    BY <1>4 DEF persistRejected
  <2>2. CASE i = id
    <3>1. request[i].status = "NONE" /\ request'[i].status = "REJECTED"
      BY <1>4, <2>2, NewRow DEF NoRow
    <3> QED BY <1>0, <2>1, <3>1 DEF AuditOf, HoldStatusOf, EventType
  <2>3. CASE i # id
    BY <1>1, <1>4, <2>1, <2>3, NewRow
  <2> QED BY <2>2, <2>3
<1>5. ASSUME NEW w \in Workers, PersistRejectedDetail(w)
      PROVE  Goal
  <2>1. /\ loc[w].id \in ReqIds /\ request[loc[w].id].status = "REJECTED"
        /\ event[loc[w].id]["rejected"] = 0
    BY <1>5 DEF PersistRejectedDetail, At, RejectsPending, CreatedPC, TypeOK, LocalsOK, Procs
  <2>2. insertEvent(loc[w].id, "rejected") /\ "rejected" \in EventType /\ UNCHANGED request
    BY <1>5 DEF PersistRejectedDetail, EventType
  <2>3. CASE i = loc[w].id
    BY <1>0, <1>2, <2>1, <2>2, <2>3 DEF AuditOf, HoldStatusOf, EventType
  <2>4. CASE i # loc[w].id
    BY <1>1, <1>2, <2>1, <2>2, <2>4
  <2> QED BY <2>3, <2>4
<1>6. ASSUME NEW w \in Workers, ConfirmCommit(w)
      PROVE  Goal
  <2>1. insertEvent(loc[w].id, "confirmed") /\ "confirmed" \in EventType
    BY <1>6 DEF ConfirmCommit, EventType
  <2>2. CASE i = loc[w].id
    <3>1. request[i].status = "RESERVED" /\ request'[i].status = "COMPLETED"
      BY <1>6, <2>2, CompletedRow
    <3> QED BY <1>0, <1>2, <2>1, <2>2, <3>1 DEF AuditOf, HoldStatusOf, EventType
  <2>3. CASE i # loc[w].id
    BY <1>1, <1>2, <1>6, <2>1, <2>3, CompletedRow
  <2> QED BY <2>2, <2>3
<1>7. ASSUME NEW p \in Procs, releaseReserved(p)
      PROVE  Goal
  <2> DEFINE t == IF p \in Sweepers THEN "expired" ELSE "cancelled"
  <2>1. t \in EventType /\ loc[p].id \in ReqIds
    BY <1>7, ReleasedRow DEF EventType
  <2>2. CASE request[loc[p].id].status # "RESERVED"
    BY <1>1, <1>7, <2>2, ReleasedRow
  <2>3. CASE request[loc[p].id].status = "RESERVED" /\ i # loc[p].id
    <3>1. insertEvent(loc[p].id, t) /\ request'[i] = request[i]
      BY <1>7, <2>3, ReleasedRow
    <3> QED BY <1>1, <1>2, <2>1, <2>3, <3>1
  <2>4. CASE request[i].status = "RESERVED" /\ i = loc[p].id /\ p \in Sweepers
    <3>1. insertEvent(i, "expired") /\ request'[i].status = "EXPIRED"
      BY <1>7, <2>4, ReleasedRow
    <3> QED BY <1>0, <1>2, <2>1, <2>4, <3>1 DEF AuditOf, HoldStatusOf, EventType
  <2>5. CASE request[i].status = "RESERVED" /\ i = loc[p].id /\ p \notin Sweepers
    <3>1. insertEvent(i, "cancelled") /\ request'[i].status = "CANCELLED"
      BY <1>7, <2>5, ReleasedRow
    <3> QED BY <1>0, <1>2, <2>1, <2>5, <3>1 DEF AuditOf, HoldStatusOf, EventType
  <2> QED BY <2>2, <2>3, <2>4, <2>5
<1>8. ASSUME NEW w \in Workers, ExtendUpdate(w)
      PROVE  Goal
  BY <1>1, <1>8, ExtensionRow DEF ExtendUpdate
<1>9. ASSUME NEW w \in Workers, ExtendEvent(w)
      PROVE  Goal
  <2>1. /\ loc[w].id \in ReqIds /\ insertEvent(loc[w].id, "extended")
        /\ "extended" \in EventType /\ UNCHANGED request
    BY <1>9, HeldRequest DEF ExtendEvent, At, LifecyclePC, Procs, EventType
  <2>2. CASE i = loc[w].id
    BY <1>0, <1>2, <2>1, <2>2 DEF AuditOf, EventType
  <2>3. CASE i # loc[w].id
    BY <1>1, <1>2, <2>1, <2>3
  <2> QED BY <2>2, <2>3
<1>10. UNCHANGED db => Goal
  BY <1>1 DEF db
<1> HIDE DEF Goal
<1>11. Goal
  BY <1>3, <1>4, <1>5, <1>6, <1>7, <1>8, <1>9, <1>10, TableSteps
<1> QED BY <1>11 DEF Goal

\* The audit trail holds one event for each transition a request has made and
\* none for a transition it lost the race to.
THEOREM AuditFollows == Spec => []AuditFollowsRequest
<1>1. Init => AuditFollowsRequest /\ RejectsPending
  <2> SUFFICES ASSUME Init PROVE AuditFollowsRequest /\ RejectsPending
    OBVIOUS
  <2>1. \A id \in ReqIds : AuditOf(request[id], event[id])
    BY DEF Init, RepositoryInit, NoRow, AuditOf, HoldStatusOf, EventType
  <2>2. RejectsPending
    BY DEF Init, RejectsPending
  <2> QED BY <2>1, <2>2, AuditParts
<1>2. TypeOK /\ AuditFollowsRequest /\ RejectsPending /\ [Next]_vars
        => AuditFollowsRequest' /\ RejectsPending'
  BY AuditStep, PendingStep
<1> QED BY <1>1, <1>2, TypeCorrect, PTL DEF Spec

-----------------------------------------------------------------------------
(* Expiry.  Extend computes from a row it read earlier and may overwrite    *)
(* another extension; what it writes still fits the row, because created_at *)
(* never changes and every expiry is a whole number of TTLs after it.       *)

\* One extension more is one TTL more.
LEMMA OneTTLMore == \A n, t \in Nat : (1 + (n + 1)) * t = (1 + n) * t + t
  OBVIOUS

\* The first TTL is included in every expiry.
LEMMA AtLeastOneTTL == \A n, t \in Nat : (1 + n) * t >= t
<1> SUFFICES ASSUME NEW n \in Nat, NEW t \in Nat PROVE (1 + n) * t >= t
  OBVIOUS
<1>1. (1 + n) * t = t + n * t /\ n * t >= 0
  OBVIOUS
<1> QED BY <1>1

\* The expiry and the count an Extend is about to write fit the row.
ExtensionsComputed ==
  \A p \in Procs : pc[p] = "extend" =>
    /\ loc[p].ext.exp = request[loc[p].id].created + (1 + loc[p].ext.count) * TTL
    /\ loc[p].ext.count <= MaxExtensions
    /\ loc[p].ext.exp <= request[loc[p].id].created + Wall

\* What Extend computes is right when it reads the row and stays right.
LEMMA ExtensionsStep ==
  TypeOK /\ ExpiryFollowsExtensions /\ ExtensionsComputed /\ [Next]_vars => ExtensionsComputed'
<1> SUFFICES ASSUME TypeOK, ExpiryFollowsExtensions, ExtensionsComputed, [Next]_vars,
                    NEW p \in Procs, pc'[p] = "extend"
             PROVE  /\ loc'[p].ext.exp =
                         request'[loc'[p].id].created + (1 + loc'[p].ext.count) * TTL
                    /\ loc'[p].ext.count <= MaxExtensions
                    /\ loc'[p].ext.exp <= request'[loc'[p].id].created + Wall
  BY DEF ExtensionsComputed
<1>1. CASE pc'[p] = pc[p] /\ loc'[p] = loc[p]
  <2>1. loc[p].id \in ReqIds /\ Exists(loc[p].id)
    BY <1>1, HeldRequest DEF LifecyclePC
  <2>2. request'[loc[p].id].created = request[loc[p].id].created
    BY <2>1, FinalStep DEF Final
  <2> QED BY <1>1, <2>2 DEF ExtensionsComputed
<1>2. CASE ~(pc'[p] = pc[p] /\ loc'[p] = loc[p])
  <2>1. PICK id \in ReqIds : ExtendGet(p, id)
    BY <1>2, Arrivals
  <2> DEFINE r == request[id]
  <2>2. r.status = "RESERVED" /\ r.ext < MaxExtensions /\ r.created + Wall >= r.exp + TTL
    BY <2>1 DEF ExtendGet
  <2>3. r \in Row
    BY <2>2, RowComplete DEF TypeOK, Exists
  <2>4. /\ loc'[p].id = id /\ loc'[p].ext.exp = r.exp + TTL /\ loc'[p].ext.count = r.ext + 1
        /\ UNCHANGED request
    BY <2>1 DEF ExtendGet, TypeOK, db
  <2>5. r.created \in Nat /\ r.exp \in Nat /\ r.ext \in Nat /\ TTL \in Nat
        /\ MaxExtensions \in Nat /\ Wall \in Nat
    BY <2>3, TimeAssumption DEF Row
  <2>6. r.exp = r.created + (1 + r.ext) * TTL
    BY <2>2 DEF ExpiryFollowsExtensions, HoldStatusOf
  <2>7. (1 + (r.ext + 1)) * TTL = (1 + r.ext) * TTL + TTL
    BY <2>5, OneTTLMore
  <2>8. (1 + r.ext) * TTL \in Nat
    BY <2>5
  <2> HIDE DEF r
  <2>9. r.exp + TTL = r.created + (1 + (r.ext + 1)) * TTL
    BY <2>5, <2>6, <2>7, <2>8
  <2> QED BY <2>2, <2>4, <2>5, <2>9 DEF r
<1> QED BY <1>1, <1>2

\* Every write keeps a row's expiry and count in step.
LEMMA ExpiryStep ==
  TypeOK /\ ExpiryFollowsExtensions /\ ExtensionsComputed /\ [Next]_vars
    => ExpiryFollowsExtensions'
<1> SUFFICES ASSUME TypeOK, ExpiryFollowsExtensions, ExtensionsComputed, [Next]_vars,
                    NEW i \in ReqIds, request'[i].status \in DOMAIN HoldStatusOf
             PROVE  /\ request'[i].exp = request'[i].created + (1 + request'[i].ext) * TTL
                    /\ request'[i].ext <= MaxExtensions
                    /\ request'[i].ext > 0 => request'[i].exp <= request'[i].created + Wall
  BY DEF ExpiryFollowsExtensions
<1> DEFINE Goal == /\ request'[i].exp = request'[i].created + (1 + request'[i].ext) * TTL
                   /\ request'[i].ext <= MaxExtensions
                   /\ request'[i].ext > 0 => request'[i].exp <= request'[i].created + Wall
<1>1. CASE /\ request[i].status \in DOMAIN HoldStatusOf
           /\ request'[i].exp = request[i].exp /\ request'[i].ext = request[i].ext
           /\ request'[i].created = request[i].created
  BY <1>1 DEF ExpiryFollowsExtensions
<1>2. ASSUME NEW w \in Workers, NEW id \in ReqIds,
             reserveWithinTx(w, id) \/ persistRejected(w, id)
      PROVE  Goal
  <2>1. CASE i = id
    <3>1. reserveWithinTx(w, id)
      BY <1>2, <2>1, NewRow DEF HoldStatusOf
    <3>2. /\ request'[i].exp = request'[i].created + TTL /\ request'[i].ext = 0
      BY <2>1, <3>1, NewRow
    <3>3. (1 + 0) * TTL = TTL /\ MaxExtensions \in Nat
      BY TimeAssumption
    <3> QED BY <3>2, <3>3
  <2>2. CASE i # id
    BY <1>1, <1>2, <2>2, NewRow
  <2> QED BY <2>1, <2>2
<1>3. ASSUME NEW w \in Workers, ConfirmCommit(w)
      PROVE  Goal
  <2>1. request'[i] = request[i] \/ i = loc[w].id
    BY <1>3, CompletedRow
  <2> QED BY <1>1, <1>3, <2>1, CompletedRow DEF HoldStatusOf
<1>4. ASSUME NEW p \in Procs, releaseReserved(p)
      PROVE  Goal
  <2>1. CASE i = loc[p].id /\ request[i].status = "RESERVED"
    BY <1>1, <1>4, <2>1, ReleasedRow DEF HoldStatusOf
  <2>2. CASE i # loc[p].id \/ request[i].status # "RESERVED"
    BY <1>1, <1>4, <2>2, ReleasedRow
  <2> QED BY <2>1, <2>2
<1>5. ASSUME NEW w \in Workers, ExtendUpdate(w)
      PROVE  Goal
  <2>1. CASE i = loc[w].id
    <3>1. /\ request'[i].exp = loc[w].ext.exp /\ request'[i].ext = loc[w].ext.count
          /\ request'[i].created = request[i].created
      BY <1>5, <2>1, ExtensionRow
    <3>2. /\ loc[w].ext.exp = request[i].created + (1 + loc[w].ext.count) * TTL
          /\ loc[w].ext.count <= MaxExtensions
          /\ loc[w].ext.exp <= request[i].created + Wall
      BY <1>5, <2>1 DEF ExtendUpdate, At, ExtensionsComputed, Procs
    <3> QED BY <3>1, <3>2
  <2>2. CASE i # loc[w].id
    BY <1>1, <1>5, <2>2, ExtensionRow
  <2> QED BY <2>1, <2>2
<1>6. UNCHANGED request => Goal
  BY <1>1
<1> HIDE DEF Goal
<1>7. Goal
  BY <1>2, <1>3, <1>4, <1>5, <1>6, TableSteps DEF PersistRejectedDetail, ExtendEvent, db
<1> QED BY <1>7 DEF Goal

\* Neither is inductive alone.
LEMMA ExpiryAndExtensions == Spec => [](ExpiryFollowsExtensions /\ ExtensionsComputed)
<1>1. Init => ExpiryFollowsExtensions /\ ExtensionsComputed
  BY DEF Init, RepositoryInit, NoRow, ExpiryFollowsExtensions, HoldStatusOf, ExtensionsComputed
<1>2. TypeOK /\ ExpiryFollowsExtensions /\ ExtensionsComputed /\ [Next]_vars
        => ExpiryFollowsExtensions' /\ ExtensionsComputed'
  BY ExpiryStep, ExtensionsStep
<1> QED BY <1>1, <1>2, TypeCorrect, PTL DEF Spec

\* Racing Extends may overwrite each other, but expires_at, extension_count and
\* created_at always agree and the limits on both hold.
THEOREM ExpiryFollows == Spec => []ExpiryFollowsExtensions
BY ExpiryAndExtensions, PTL

\* What a sweep has listed, and what it is about to release, was due.
SweepsDue ==
  \A s \in Sweepers :
    /\ pc[s] = "list" => loc[s].now <= clock
    /\ \A id \in batch[s] : request[id].created + TTL < clock
    /\ pc[s] \in {"release", "releaseTx"} => request[loc[s].id].created + TTL < clock

\* The clock does not run backwards, and only a tick moves it.
LEMMA ClockStep == TypeOK /\ [Next]_vars => clock' \in Nat /\ clock <= clock'
<1> SUFFICES ASSUME TypeOK, [Next]_vars PROVE clock' \in Nat /\ clock <= clock'
  OBVIOUS
<1>1. UNCHANGED clock => clock' \in Nat /\ clock <= clock'
  BY DEF TypeOK
<1>2. Tick => clock' \in Nat /\ clock <= clock'
  BY DEF Tick, TypeOK
<1>3. ASSUME NEW w \in Workers, Create(w)
      PROVE  UNCHANGED clock
  BY <1>3 DEF Create, ReplayFromRedis, ReplayFromDB, CreateAdmit, enforceActiveHoldsLimit,
    buildReservationPlan, reserveWithinTx, ReserveDuplicate, ReserveReject, persistRejected,
    PersistRejectedDetail, PersistRejectedDuplicate, replayAfterDuplicate, RejectedReplay,
    recordOutcome
<1>4. ASSUME NEW w \in Workers, Lifecycle(w) \/ ReturnError(w)
      PROVE  UNCHANGED clock
  BY <1>4 DEF Lifecycle, ReturnError, ConfirmGet, CancelGet, ExtendGet, ListHolds,
    ConfirmCommit, releaseReserved, ExtendUpdate, ExtendEvent
<1>5. ASSUME NEW s \in Sweepers, ExpireDue(s)
      PROVE  UNCHANGED clock
  BY <1>5 DEF ExpireDue, SweepLock, SweepList, SweepNext, ListHolds, releaseReserved,
    SweepFail, SweepEnd, SweepCrash, SweepSessionLost
<1>6. ASSUME NEW r \in RedisKeys, RedisForget(r)
      PROVE  UNCHANGED clock
  BY <1>6 DEF RedisForget
<1>7. UNCHANGED vars => UNCHANGED clock
  BY DEF vars
<1> QED BY <1>1, <1>2, <1>3, <1>4, <1>5, <1>6, <1>7 DEF Next

\* A batch grows only by listing, and only with what is due.
LEMMA BatchStep ==
  ASSUME TypeOK, [Next]_vars, NEW s \in Sweepers, NEW id \in batch'[s], id \notin batch[s]
  PROVE  SweepList(s) /\ id \in Due(loc[s].now)
<1>1. ASSUME NEW w \in Workers, Create(w) \/ Lifecycle(w) \/ ReturnError(w)
      PROVE  UNCHANGED batch
  <2>1. CASE Create(w)
    BY <2>1 DEF Create, ReplayFromRedis, ReplayFromDB, CreateAdmit, enforceActiveHoldsLimit,
      buildReservationPlan, reserveWithinTx, ReserveDuplicate, ReserveReject, persistRejected,
      PersistRejectedDetail, PersistRejectedDuplicate, replayAfterDuplicate, RejectedReplay,
      recordOutcome, Goto, GotoWith, proc
  <2>2. CASE Lifecycle(w) \/ ReturnError(w)
    BY <2>2 DEF Lifecycle, ReturnError, ConfirmGet, CancelGet, ExtendGet, ListHolds,
      ConfirmCommit, releaseReserved, ExtendUpdate, ExtendEvent, Goto, GotoWith
  <2> QED BY <1>1, <2>1, <2>2
<1>2. ASSUME NEW r \in Sweepers, ExpireDue(r)
      PROVE  r = s /\ SweepList(r)
  <2>1. CASE \/ SweepLock(r) \/ ListHolds(r) \/ releaseReserved(r) \/ SweepFail(r)
             \/ SweepEnd(r) \/ SweepSessionLost(r)
    BY <2>1 DEF SweepLock, ListHolds, releaseReserved, SweepFail, SweepEnd, SweepSessionLost, proc
  <2>2. ASSUME NEW i \in ReqIds, SweepNext(r, i)
        PROVE  FALSE
    BY <2>2 DEF SweepNext, TypeOK
  <2>3. CASE SweepCrash(r)
    BY <2>3 DEF SweepCrash, TypeOK
  <2>4. CASE SweepList(r)
    BY <2>4 DEF SweepList, TypeOK
  <2> QED BY <1>2, <2>1, <2>2, <2>3, <2>4 DEF ExpireDue
<1>3. ASSUME NEW r \in RedisKeys, RedisForget(r)
      PROVE  UNCHANGED batch
  BY <1>3 DEF RedisForget, proc
<1>4. Tick \/ UNCHANGED vars => UNCHANGED batch
  BY DEF Tick, vars, proc
<1>5. SweepList(s)
  BY <1>1, <1>2, <1>3, <1>4 DEF Next
<1> QED BY <1>5 DEF SweepList, ListExpiredIDs, TypeOK

\* What a sweep holds stays due.
LEMMA DueStep ==
  TypeOK /\ ExpiryFollowsExtensions /\ SweepsDue /\ [Next]_vars => SweepsDue'
<1> SUFFICES ASSUME TypeOK, ExpiryFollowsExtensions, SweepsDue, [Next]_vars, NEW s \in Sweepers
             PROVE  /\ pc'[s] = "list" => loc'[s].now <= clock'
                    /\ \A id \in batch'[s] : request'[id].created + TTL < clock'
                    /\ pc'[s] \in {"release", "releaseTx"} =>
                         request'[loc'[s].id].created + TTL < clock'
  BY DEF SweepsDue
<1>1. s \in Procs /\ TTL \in Nat /\ clock \in Nat /\ clock' \in Nat /\ clock <= clock'
  BY TimeAssumption, ClockStep DEF Procs, TypeOK
<1>2. ASSUME NEW id \in ReqIds, Exists(id), request[id].created + TTL < clock
      PROVE  request'[id].created + TTL < clock'
  <2>1. request'[id].created = request[id].created /\ request[id].created \in Nat
    BY <1>2, FinalStep, RowComplete DEF Final, TypeOK, Row
  <2> QED BY <1>1, <1>2, <2>1
<1>3. ASSUME pc'[s] = "list"
      PROVE  loc'[s].now <= clock'
  <2>1. CASE pc'[s] = pc[s] /\ loc'[s] = loc[s]
    <3>1. loc[s].now \in Nat /\ loc[s].now <= clock
      BY <1>1, <1>3, <2>1 DEF SweepsDue, TypeOK, Locals
    <3> QED BY <1>1, <2>1, <3>1
  <2>2. CASE ~(pc'[s] = pc[s] /\ loc'[s] = loc[s])
    <3>1. SweepLock(s)
      BY <1>1, <1>3, <2>2, Arrivals
    <3>2. loc'[s].now = clock
      BY <1>1, <3>1, SetNow DEF SweepLock, TypeOK
    <3> QED BY <1>1, <3>2
  <2> QED BY <2>1, <2>2
<1>4. ASSUME NEW id \in batch'[s]
      PROVE  request'[id].created + TTL < clock'
  <2>1. CASE id \in batch[s]
    <3>1. id \in ReqIds /\ Exists(id) /\ request[id].created + TTL < clock
      BY <2>1 DEF TypeOK, SweepsDue
    <3> QED BY <1>2, <3>1
  <2>2. CASE id \notin batch[s]
    <3>1. SweepList(s) /\ id \in Due(loc[s].now)
      BY <2>2, BatchStep
    <3>2. id \in ReqIds /\ request[id].status = "RESERVED" /\ request[id].exp < loc[s].now
      BY <3>1 DEF Due
    <3>3. loc[s].now \in Nat /\ loc[s].now <= clock
      BY <1>1, <3>1 DEF SweepList, At, SweepsDue, TypeOK, Locals
    <3>4. request[id] \in Row /\ Exists(id)
      BY <3>2, RowComplete DEF TypeOK, Exists
    <3>5. request[id].exp = request[id].created + (1 + request[id].ext) * TTL
      BY <3>2 DEF ExpiryFollowsExtensions, HoldStatusOf
    <3>6. /\ request[id].created \in Nat /\ request[id].exp \in Nat /\ request[id].ext \in Nat
      BY <3>4 DEF Row
    <3>7. (1 + request[id].ext) * TTL >= TTL /\ (1 + request[id].ext) * TTL \in Nat
      BY <1>1, <3>6, AtLeastOneTTL
    <3>8. request[id].created + TTL < clock
      BY <1>1, <3>2, <3>3, <3>5, <3>6, <3>7
    <3> QED BY <1>2, <3>2, <3>4, <3>8
  <2> QED BY <2>1, <2>2
<1>5. ASSUME pc'[s] \in {"release", "releaseTx"}
      PROVE  request'[loc'[s].id].created + TTL < clock'
  <2>1. CASE pc'[s] = pc[s] /\ loc'[s] = loc[s]
    <3>1. loc[s].id \in ReqIds /\ Exists(loc[s].id) /\ request[loc[s].id].created + TTL < clock
      BY <1>1, <1>5, <2>1, HeldRequest DEF SweepsDue, LifecyclePC
    <3> QED BY <1>2, <2>1, <3>1
  <2>2. CASE pc'[s] = "release" /\ ~(pc'[s] = pc[s] /\ loc'[s] = loc[s])
    <3>1. PICK id \in ReqIds : SweepNext(s, id)
      BY <1>1, <2>2, Arrivals, ProcAssumption
    <3>2. loc'[s].id = id /\ id \in batch[s]
      BY <1>1, <3>1, SetId DEF SweepNext, TypeOK
    <3>3. Exists(id) /\ request[id].created + TTL < clock
      BY <3>2 DEF TypeOK, SweepsDue
    <3> QED BY <1>2, <3>2, <3>3
  <2>3. CASE pc'[s] = "releaseTx" /\ ~(pc'[s] = pc[s] /\ loc'[s] = loc[s])
    <3>1. ListHolds(s)
      BY <1>1, <2>3, Arrivals DEF TxPC
    <3>2. ListActiveHolds(loc[s].id) \in SUBSET Kinds
      BY DEF ListActiveHolds
    <3>3. loc'[s].id = loc[s].id /\ pc[s] = "release"
      BY <1>1, <2>3, <3>1, <3>2, SetSnap DEF ListHolds, TypeOK
    <3>4. loc[s].id \in ReqIds /\ Exists(loc[s].id) /\ request[loc[s].id].created + TTL < clock
      BY <1>1, <3>3, HeldRequest DEF SweepsDue, LifecyclePC
    <3> QED BY <1>2, <3>3, <3>4
  <2> QED BY <1>5, <2>1, <2>2, <2>3
<1> QED BY <1>3, <1>4, <1>5

\* Only a sweeper expires a request, and it holds only what was due.
LEMMA ExpiredStep ==
  TypeOK /\ SweepsDue /\ ExpiredWasDue /\ [Next]_vars => ExpiredWasDue'
<1> SUFFICES ASSUME TypeOK, SweepsDue, ExpiredWasDue, [Next]_vars,
                    NEW i \in ReqIds, request'[i].status = "EXPIRED"
             PROVE  request'[i].created + TTL < clock'
  BY DEF ExpiredWasDue
<1>1. TTL \in Nat /\ clock \in Nat /\ clock' \in Nat /\ clock <= clock'
  BY TimeAssumption, ClockStep DEF TypeOK
<1>2. ASSUME Exists(i), request[i].created + TTL < clock
      PROVE  request'[i].created + TTL < clock'
  <2>1. request'[i].created = request[i].created /\ request[i].created \in Nat
    BY <1>2, FinalStep, RowComplete DEF Final, TypeOK, Row
  <2> QED BY <1>1, <1>2, <2>1
<1>3. CASE request[i].status = "EXPIRED"
  BY <1>2, <1>3 DEF ExpiredWasDue, Exists
<1>4. CASE request[i].status # "EXPIRED"
  <2>1. \E p \in Procs : releaseReserved(p)
    <3>1. ASSUME NEW w \in Workers, NEW id \in ReqIds,
                 reserveWithinTx(w, id) \/ persistRejected(w, id)
          PROVE  FALSE
      <4>1. request'[i] = request[i] \/ request'[i].status \in {"RESERVED", "REJECTED"}
        BY <3>1, NewRow
      <4> QED BY <1>4, <4>1
    <3>2. ASSUME NEW w \in Workers, ConfirmCommit(w)
          PROVE  FALSE
      <4>1. request'[i] = request[i] \/ request'[i].status = "COMPLETED"
        BY <3>2, CompletedRow
      <4> QED BY <1>4, <4>1
    <3>3. ASSUME NEW w \in Workers, ExtendUpdate(w)
          PROVE  FALSE
      <4>1. request'[i] = request[i] \/ request'[i].status = "RESERVED"
        BY <3>3, ExtensionRow
      <4> QED BY <1>4, <4>1
    <3>4. ~UNCHANGED request
      BY <1>4
    <3> QED BY <3>1, <3>2, <3>3, <3>4, TableSteps DEF PersistRejectedDetail, ExtendEvent, db
  <2>2. PICK p \in Procs : releaseReserved(p)
    BY <2>1
  <2>3. i = loc[p].id /\ p \in Sweepers /\ Exists(i)
    BY <1>4, <2>2, ReleasedRow
  <2>4. request[i].created + TTL < clock
    BY <2>2, <2>3 DEF releaseReserved, At, SweepsDue
  <2> QED BY <1>2, <2>3, <2>4
<1> QED BY <1>3, <1>4

\* However late a sweep works off its batch and whatever was extended in the
\* meantime, no request expires within a TTL of its creation.
THEOREM ExpiredDue == Spec => []ExpiredWasDue
<1>1. Init => SweepsDue /\ ExpiredWasDue
  BY DEF Init, RepositoryInit, NoRow, SweepsDue, ExpiredWasDue, Procs
<1>2. TypeOK /\ ExpiryFollowsExtensions /\ SweepsDue /\ ExpiredWasDue /\ [Next]_vars
        => SweepsDue' /\ ExpiredWasDue'
  BY DueStep, ExpiredStep
<1> QED BY <1>1, <1>2, TypeCorrect, ExpiryFollows, PTL DEF Spec

-----------------------------------------------------------------------------
(* Idempotency.  Three places remember which request a key has: the unique  *)
(* index, the Redis entry and the locals of a call between its transaction  *)
(* and its answer.                                                          *)

\* The unique index on (customer_id, idempotency_key).
UniqueKeys ==
  \A i, j \in ReqIds :
    Exists(i) /\ Exists(j) /\ request[i].cust = request[j].cust
      /\ request[i].key = request[j].key => i = j

\* The row r was made for this customer, key and body.
MadeFor(r, c, key, b) == r.status # "NONE" /\ r.cust = c /\ r.key = key /\ r.body = b

\* A call that is about to record its outcome holds the request of its input.
RecordsAgree ==
  \A p \in Procs : pc[p] \in CreatedPC =>
    MadeFor(request[loc[p].id], loc[p].in.cust, loc[p].in.key, loc[p].in.body)

\* A Redis entry names the request of its customer and key.
RedisAgrees ==
  \A c \in Customers, key \in Keys : IdemGet(c, key) # None =>
    /\ Exists(IdemGet(c, key))
    /\ request[IdemGet(c, key)].cust = c /\ request[IdemGet(c, key)].key = key

\* Every answer named the request of its customer, key and body.
AnswersAgree == \A a \in answered : MadeFor(request[a.id], a.cust, a.key, a.body)

\* Different pairs of customer and key have different Redis entries: neither
\* string holds a colon.
KeysApart ==
  \A c, d \in Customers, key, l \in Keys :
    idemKey(c, key) = idemKey(d, l) => c = d /\ key = l

\* What a row was made for never changes.
LEMMA MadeForStays ==
  ASSUME TypeOK, [Next]_vars, NEW id \in ReqIds, NEW c, NEW key, NEW b,
         MadeFor(request[id], c, key, b)
  PROVE  MadeFor(request'[id], c, key, b)
<1>1. Exists(id)
  BY DEF MadeFor, Exists
<1>2. /\ request'[id].cust = request[id].cust /\ request'[id].key = request[id].key
      /\ request'[id].body = request[id].body
      /\ request'[id].status # request[id].status =>
           <<request[id].status, request'[id].status>> \in Transitions
  BY <1>1, FinalStep DEF Final
<1> QED BY <1>2 DEF MadeFor, Transitions

\* A request comes into being by a reserve or a rejection.
LEMMA NewRequest ==
  ASSUME TypeOK, [Next]_vars, NEW i \in ReqIds, ~Exists(i), request'[i].status # "NONE"
  PROVE  \E w \in Workers : reserveWithinTx(w, i) \/ persistRejected(w, i)
<1> DEFINE Goal == \E w \in Workers : reserveWithinTx(w, i) \/ persistRejected(w, i)
<1>1. request'[i] # request[i]
  BY DEF Exists
<1>2. ASSUME NEW w \in Workers, NEW id \in ReqIds,
             reserveWithinTx(w, id) \/ persistRejected(w, id)
      PROVE  Goal
  BY <1>1, <1>2, NewRow
<1>3. ASSUME NEW w \in Workers, ConfirmCommit(w)
      PROVE  FALSE
  BY <1>1, <1>3, CompletedRow DEF Exists
<1>4. ASSUME NEW w \in Workers, ExtendUpdate(w)
      PROVE  FALSE
  BY <1>1, <1>4, ExtensionRow DEF Exists
<1>5. ASSUME NEW p \in Procs, releaseReserved(p)
      PROVE  FALSE
  BY <1>1, <1>5, ReleasedRow
<1> HIDE DEF Goal
<1>6. Goal
  BY <1>1, <1>2, <1>3, <1>4, <1>5, TableSteps DEF PersistRejectedDetail, ExtendEvent, db
<1> QED BY <1>6 DEF Goal

\* An insert that finds the key taken does not commit.
LEMMA UniqueStep == TypeOK /\ UniqueKeys /\ [Next]_vars => UniqueKeys'
<1>1. ASSUME TypeOK, [Next]_vars, NEW i \in ReqIds, NEW j \in ReqIds, i # j,
             ~Exists(i), request'[i].status # "NONE", request'[j].status # "NONE",
             request'[i].cust = request'[j].cust, request'[i].key = request'[j].key
      PROVE  FALSE
  <2>1. PICK w \in Workers : reserveWithinTx(w, i) \/ persistRejected(w, i)
    BY <1>1, NewRequest
  <2>2. /\ request'[i].cust = loc[w].in.cust /\ request'[i].key = loc[w].in.key
        /\ request'[j] = request[j]
    BY <1>1, <2>1, NewRow
  <2>3. Duplicates(loc[w].in) = {}
    BY <2>1 DEF reserveWithinTx, persistRejected
  <2>4. j \in Duplicates(loc[w].in)
    BY <1>1, <2>2 DEF Duplicates, FindByIdempotency, Exists
  <2> QED BY <2>3, <2>4
<1> SUFFICES ASSUME TypeOK, UniqueKeys, [Next]_vars, NEW i \in ReqIds, NEW j \in ReqIds,
                    request'[i].status # "NONE", request'[j].status # "NONE",
                    request'[i].cust = request'[j].cust, request'[i].key = request'[j].key,
                    i # j
             PROVE  FALSE
  BY DEF UniqueKeys, Exists
<1>2. Exists(i) /\ Exists(j)
  BY <1>1
<1>3. /\ request'[i].cust = request[i].cust /\ request'[i].key = request[i].key
      /\ request'[j].cust = request[j].cust /\ request'[j].key = request[j].key
  BY <1>2, FinalStep DEF Final
<1> QED BY <1>2, <1>3 DEF UniqueKeys

\* The unique index holds whatever Redis does.
LEMMA KeysAreUnique == Spec => []UniqueKeys
<1>1. Init => UniqueKeys
  BY DEF Init, RepositoryInit, NoRow, UniqueKeys, Exists
<1> QED BY <1>1, UniqueStep, TypeCorrect, PTL DEF Spec

\* A call comes to its answer with the row it made, or with the one it lost to
\* after comparing the bodies.
LEMMA RecordsStep == TypeOK /\ RecordsAgree /\ [Next]_vars => RecordsAgree'
<1> SUFFICES ASSUME TypeOK, RecordsAgree, [Next]_vars, NEW p \in Procs, pc'[p] \in CreatedPC
             PROVE  MadeFor(request'[loc'[p].id], loc'[p].in.cust, loc'[p].in.key,
                            loc'[p].in.body)
  BY DEF RecordsAgree
<1>1. ASSUME pc[p] \in CreatedPC, loc'[p] = loc[p]
      PROVE  MadeFor(request'[loc'[p].id], loc'[p].in.cust, loc'[p].in.key, loc'[p].in.body)
  <2>1. loc[p].id \in ReqIds
    BY <1>1 DEF TypeOK, LocalsOK
  <2> QED BY <1>1, <2>1, MadeForStays DEF RecordsAgree
<1>2. ASSUME NEW id \in ReqIds, p \in Workers, reserveWithinTx(p, id) \/ persistRejected(p, id)
      PROVE  MadeFor(request'[loc'[p].id], loc'[p].in.cust, loc'[p].in.key, loc'[p].in.body)
  <2>1. loc'[p].id = id /\ loc'[p].in = loc[p].in
    BY <1>2, SetId DEF reserveWithinTx, persistRejected, GotoWith, TypeOK
  <2> QED BY <1>2, <2>1, NewRow DEF MadeFor
<1>3. ASSUME RejectedReplay(p)
      PROVE  MadeFor(request'[loc'[p].id], loc'[p].in.cust, loc'[p].in.key, loc'[p].in.body)
  <2>1. PICK id \in Duplicates(loc[p].in) :
          matchIdempotentBody(id, loc[p].in.body) /\ GotoWith(p, "record", id)
    BY <1>3 DEF RejectedReplay
  <2>2. id \in ReqIds /\ UNCHANGED request
    BY <1>3, <2>1 DEF RejectedReplay, Duplicates, FindByIdempotency, db
  <2>3. loc'[p].id = id /\ loc'[p].in = loc[p].in
    BY <2>1, <2>2, SetId DEF GotoWith, TypeOK
  <2> QED BY <2>1, <2>2, <2>3
    DEF Duplicates, FindByIdempotency, matchIdempotentBody, MadeFor, Exists
<1>4. PersistRejectedDetail(p) => pc[p] \in CreatedPC /\ loc'[p] = loc[p]
  BY DEF PersistRejectedDetail, At, Goto, CreatedPC
<1>5. CASE pc'[p] = pc[p] /\ loc'[p] = loc[p]
  BY <1>1, <1>5
<1>6. CASE ~(pc'[p] = pc[p] /\ loc'[p] = loc[p])
  BY <1>1, <1>2, <1>3, <1>4, <1>6, Arrivals DEF CreatedPC
<1> QED BY <1>5, <1>6

\* What an idem.Set stores names the request of the key it is stored under.
LEMMA RedisWrites ==
  ASSUME TypeOK, RecordsAgree, [Next]_vars, idem' # idem
  PROVE  \/ \E r \in RedisKeys : idem' = [idem EXCEPT ![r] = None]
         \/ /\ RedisConfigured
            /\ \E c \in Customers, key \in Keys, id \in ReqIds :
                 /\ idem' = [idem EXCEPT ![idemKey(c, key)] = id]
                 /\ \E b \in Bodies : MadeFor(request[id], c, key, b)
<1> DEFINE Sets == \E c \in Customers, key \in Keys, id \in ReqIds :
                     /\ idem' = [idem EXCEPT ![idemKey(c, key)] = id]
                     /\ \E b \in Bodies : MadeFor(request[id], c, key, b)
<1>1. ASSUME NEW w \in Workers, NEW c \in Customers, NEW key \in Keys, NEW b \in Bodies,
             ReplayFromDB(w, c, key, b)
      PROVE  RedisConfigured /\ Sets
  <2>1. PICK id \in FindByIdempotency(c, key) :
          matchIdempotentBody(id, b) /\ IdemSet(c, key, id)
    BY <1>1 DEF ReplayFromDB
  <2>2. id \in ReqIds /\ MadeFor(request[id], c, key, b)
    BY <2>1 DEF FindByIdempotency, matchIdempotentBody, MadeFor, Exists
  <2> QED BY <2>1, <2>2 DEF IdemSet
<1>2. ASSUME NEW w \in Workers, recordOutcome(w)
      PROVE  RedisConfigured /\ Sets
  <2> DEFINE in == loc[w].in
  <2>1. pc[w] \in CreatedPC /\ w \in Procs
    BY <1>2 DEF recordOutcome, At, CreatedPC, Procs
  <2>2. in \in Input /\ loc[w].id \in ReqIds
    BY <2>1 DEF TypeOK, LocalsOK
  <2>3. in.cust \in Customers /\ in.key \in Keys /\ in.body \in Bodies
    BY <2>2 DEF Input
  <2>4. MadeFor(request[loc[w].id], in.cust, in.key, in.body)
    BY <2>1 DEF RecordsAgree
  <2>5. IdemSet(in.cust, in.key, loc[w].id)
    BY <1>2 DEF recordOutcome
  <2> HIDE DEF in
  <2> QED BY <2>2, <2>3, <2>4, <2>5 DEF IdemSet
<1>3. ASSUME NEW w \in Workers, Create(w)
      PROVE  \/ recordOutcome(w)
             \/ \E c \in Customers, key \in Keys, b \in Bodies : ReplayFromDB(w, c, key, b)
  BY <1>3 DEF Create, ReplayFromRedis, CreateAdmit, enforceActiveHoldsLimit,
    buildReservationPlan, reserveWithinTx, ReserveDuplicate, ReserveReject, persistRejected,
    PersistRejectedDetail, PersistRejectedDuplicate, replayAfterDuplicate, RejectedReplay
<1>4. ASSUME NEW w \in Workers, Lifecycle(w) \/ ReturnError(w)
      PROVE  FALSE
  BY <1>4 DEF Lifecycle, ReturnError, ConfirmGet, CancelGet, ExtendGet, ListHolds,
    ConfirmCommit, releaseReserved, ExtendUpdate, ExtendEvent
<1>5. ASSUME NEW s \in Sweepers, ExpireDue(s)
      PROVE  FALSE
  BY <1>5 DEF ExpireDue, SweepLock, SweepList, SweepNext, ListHolds, releaseReserved,
    SweepFail, SweepEnd, SweepCrash, SweepSessionLost
<1>6. ~(Tick \/ UNCHANGED vars)
  BY DEF Tick, vars
<1> HIDE DEF Sets
<1>7. (\E r \in RedisKeys : RedisForget(r)) \/ (RedisConfigured /\ Sets)
  BY <1>1, <1>2, <1>3, <1>4, <1>5, <1>6 DEF Next
<1> QED BY <1>7 DEF Sets, RedisForget

\* With the keys apart, what is stored under a key is about that key.
LEMMA RedisStep ==
  ASSUME RedisConfigured => KeysApart
  PROVE  TypeOK /\ RecordsAgree /\ RedisAgrees /\ [Next]_vars => RedisAgrees'
<1> SUFFICES ASSUME TypeOK, RecordsAgree, RedisAgrees, [Next]_vars,
                    NEW c \in Customers, NEW key \in Keys, idem'[idemKey(c, key)] # None
             PROVE  LET id == idem'[idemKey(c, key)] IN
                    /\ request'[id].status # "NONE"
                    /\ request'[id].cust = c /\ request'[id].key = key
  BY DEF RedisAgrees, IdemGet, Exists, idemKey
<1> DEFINE rk == idemKey(c, key)
           id == idem'[rk]
<1>0. rk \in RedisKeys
  BY DEF RedisKeys
<1>1. id \in ReqIds
  <2>1. TypeOK'
    BY TypeStep
  <2> QED BY <1>0, <2>1 DEF TypeOK
<1>2. ASSUME NEW b, MadeFor(request[id], c, key, b)
      PROVE  request'[id].status # "NONE" /\ request'[id].cust = c /\ request'[id].key = key
  BY <1>1, <1>2, MadeForStays DEF MadeFor
<1>3. CASE id = idem[rk]
  <2>1. MadeFor(request[id], c, key, request[id].body)
    BY <1>3 DEF RedisAgrees, IdemGet, MadeFor, Exists
  <2> QED BY <1>2, <2>1
<1>4. CASE id # idem[rk]
  <2>1. ASSUME NEW r \in RedisKeys, idem' = [idem EXCEPT ![r] = None]
        PROVE  FALSE
    BY <1>0, <1>4, <2>1 DEF TypeOK
  <2>2. PICK d \in Customers, l \in Keys, i \in ReqIds :
          /\ RedisConfigured /\ idem' = [idem EXCEPT ![idemKey(d, l)] = i]
          /\ \E b \in Bodies : MadeFor(request[i], d, l, b)
    BY <1>4, <2>1, RedisWrites
  <2>3. idemKey(d, l) = rk /\ id = i
    BY <1>0, <1>4, <2>2 DEF TypeOK
  <2>4. d = c /\ l = key
    BY <2>2, <2>3 DEF KeysApart
  <2> QED BY <1>2, <2>2, <2>3, <2>4
<1> QED BY <1>3, <1>4

\* Every way CreateRequest answers compares the body with the row's.
LEMMA AnswersStep ==
  TypeOK /\ RecordsAgree /\ RedisAgrees /\ AnswersAgree /\ [Next]_vars => AnswersAgree'
<1> SUFFICES ASSUME TypeOK, RecordsAgree, RedisAgrees, AnswersAgree, [Next]_vars,
                    NEW a \in answered'
             PROVE  MadeFor(request'[a.id], a.cust, a.key, a.body)
  BY DEF AnswersAgree
<1>1. a.id \in ReqIds
  <2>1. TypeOK'
    BY TypeStep
  <2> QED BY <2>1 DEF TypeOK
<1>2. CASE a \in answered
  BY <1>1, <1>2, MadeForStays DEF AnswersAgree
<1>3. CASE a \notin answered
  <2> DEFINE Goal == MadeFor(request[a.id], a.cust, a.key, a.body)
  <2>1. ASSUME NEW c, NEW key, NEW b, NEW id, Answer(c, key, b, id),
               MadeFor(request[id], c, key, b)
        PROVE  Goal
    BY <1>3, <2>1 DEF Answer
  <2>2. ASSUME NEW w \in Workers, NEW c \in Customers, NEW key \in Keys, NEW b \in Bodies,
               ReplayFromRedis(w, c, key, b)
        PROVE  Goal
    <3>1. Answer(c, key, b, IdemGet(c, key))
      BY <2>2 DEF ReplayFromRedis
    <3>2. MadeFor(request[IdemGet(c, key)], c, key, b)
      BY <2>2 DEF ReplayFromRedis, RedisAgrees, MadeFor, Exists, matchIdempotentBody
    <3> QED BY <2>1, <3>1, <3>2
  <2>3. ASSUME NEW w \in Workers, NEW c \in Customers, NEW key \in Keys, NEW b \in Bodies,
               ReplayFromDB(w, c, key, b)
        PROVE  Goal
    <3>1. PICK id \in FindByIdempotency(c, key) :
            matchIdempotentBody(id, b) /\ Answer(c, key, b, id)
      BY <2>3 DEF ReplayFromDB
    <3>2. MadeFor(request[id], c, key, b)
      BY <3>1 DEF FindByIdempotency, matchIdempotentBody, MadeFor, Exists
    <3> QED BY <2>1, <3>1, <3>2
  <2>4. ASSUME NEW w \in Workers, replayAfterDuplicate(w)
        PROVE  Goal
    <3>1. PICK id \in Duplicates(loc[w].in) :
            /\ matchIdempotentBody(id, loc[w].in.body)
            /\ Answer(loc[w].in.cust, loc[w].in.key, loc[w].in.body, id)
      BY <2>4 DEF replayAfterDuplicate
    <3>2. MadeFor(request[id], loc[w].in.cust, loc[w].in.key, loc[w].in.body)
      BY <3>1 DEF Duplicates, FindByIdempotency, matchIdempotentBody, MadeFor, Exists
    <3> QED BY <2>1, <3>1, <3>2
  <2>5. ASSUME NEW w \in Workers, recordOutcome(w)
        PROVE  Goal
    <3>1. Answer(loc[w].in.cust, loc[w].in.key, loc[w].in.body, loc[w].id)
      BY <2>5 DEF recordOutcome
    <3>2. MadeFor(request[loc[w].id], loc[w].in.cust, loc[w].in.key, loc[w].in.body)
      BY <2>5 DEF recordOutcome, RecordsAgree, At, CreatedPC, Procs
    <3> QED BY <2>1, <3>1, <3>2
  <2>6. ASSUME NEW w \in Workers, Create(w)
        PROVE  \/ recordOutcome(w) \/ replayAfterDuplicate(w)
               \/ \E c \in Customers, key \in Keys, b \in Bodies :
                    ReplayFromRedis(w, c, key, b) \/ ReplayFromDB(w, c, key, b)
    BY <1>3, <2>6 DEF Create, CreateAdmit, enforceActiveHoldsLimit,
      buildReservationPlan, reserveWithinTx, ReserveDuplicate, ReserveReject, persistRejected,
      PersistRejectedDetail, PersistRejectedDuplicate, RejectedReplay
  <2>7. ASSUME NEW w \in Workers, Lifecycle(w) \/ ReturnError(w)
        PROVE  FALSE
    BY <1>3, <2>7 DEF Lifecycle, ReturnError, ConfirmGet, CancelGet, ExtendGet, ListHolds,
      ConfirmCommit, releaseReserved, ExtendUpdate, ExtendEvent
  <2>8. ASSUME NEW s \in Sweepers, ExpireDue(s)
        PROVE  FALSE
    BY <1>3, <2>8 DEF ExpireDue, SweepLock, SweepList, SweepNext, ListHolds, releaseReserved,
      SweepFail, SweepEnd, SweepCrash, SweepSessionLost
  <2>9. ASSUME NEW r \in RedisKeys, RedisForget(r)
        PROVE  FALSE
    BY <1>3, <2>9 DEF RedisForget
  <2>10. ~(Tick \/ UNCHANGED vars)
    BY <1>3 DEF Tick, vars
  <2> HIDE DEF Goal
  <2>11. Goal
    BY <2>2, <2>3, <2>4, <2>5, <2>6, <2>7, <2>8, <2>9, <2>10 DEF Next
  <2> QED BY <1>1, <2>11, MadeForStays DEF Goal
<1> QED BY <1>2, <1>3

\* Where Redis tells the keys of customers apart, or there is no Redis, a key
\* has one request and every answer for it names that request and its body,
\* whatever Redis forgets and however calls with the same key race.
THEOREM KeysHaveOneRequest ==
  ASSUME RedisConfigured => KeysApart
  PROVE  Spec => []OneRequestPerKey
<1> DEFINE IInv == UniqueKeys /\ RecordsAgree /\ RedisAgrees /\ AnswersAgree
<1>1. Init => IInv
  <2> SUFFICES ASSUME Init PROVE IInv
    OBVIOUS
  <2>1. UniqueKeys /\ AnswersAgree
    BY DEF Init, RepositoryInit, NoRow, UniqueKeys, Exists, AnswersAgree
  <2>2. RecordsAgree
    BY DEF Init, RecordsAgree, CreatedPC
  <2>3. RedisAgrees
    BY DEF Init, RedisAgrees, IdemGet, RedisKeys
  <2> QED BY <2>1, <2>2, <2>3
<1>2. TypeOK /\ IInv /\ [Next]_vars => IInv'
  BY UniqueStep, RecordsStep, RedisStep, AnswersStep
<1>3. IInv => OneRequestPerKey
  BY DEF UniqueKeys, AnswersAgree, MadeFor, OneRequestPerKey
<1> HIDE DEF IInv
<1> QED BY <1>1, <1>2, <1>3, TypeCorrect, PTL DEF Spec

-----------------------------------------------------------------------------
(* What holds while no two calls on one request overlap: the counters move  *)
(* with the status and by the plan.                                          *)

\* A restricted behaviour is a behaviour of the service ...
LEMMA ExclusiveIsSpec == ExclusiveSpec => Spec
  BY PTL DEF ExclusiveSpec, Spec

\* ... in which no two calls overlap at any time.
LEMMA NeverOverlap == ExclusiveSpec => []NoOverlap
<1>1. Init => NoOverlap
  BY DEF Init, NoOverlap, LifecyclePC
<1>2. NoOverlap /\ [Next /\ NoOverlap']_vars => NoOverlap'
  BY DEF NoOverlap, vars, proc
<1> QED BY <1>1, <1>2, PTL DEF ExclusiveSpec

\* Only a transaction on the request ends a reservation, and with its call.
LEMMA ReservationEnds ==
  ASSUME TypeOK, [Next]_vars, NEW i \in ReqIds, request[i].status = "RESERVED",
         request'[i].status # "RESERVED"
  PROVE  \E p \in Procs : pc[p] \in TxPC /\ loc[p].id = i /\ pc'[p] \notin LifecyclePC
<1> DEFINE Goal == \E p \in Procs : pc[p] \in TxPC /\ loc[p].id = i /\ pc'[p] \notin LifecyclePC
<1>1. request'[i] # request[i]
  OBVIOUS
<1>2. ASSUME NEW w \in Workers, NEW id \in ReqIds,
             reserveWithinTx(w, id) \/ persistRejected(w, id)
      PROVE  FALSE
  BY <1>1, <1>2, NewRow DEF NoRow
<1>3. ASSUME NEW w \in Workers, ConfirmCommit(w)
      PROVE  Goal
  <2>1. loc[w].id = i
    BY <1>1, <1>3, CompletedRow
  <2>2. w \in Procs /\ pc[w] \in TxPC /\ pc'[w] = "idle"
    BY <1>3 DEF ConfirmCommit, At, TxPC, Return, Procs, TypeOK
  <2> QED BY <2>1, <2>2 DEF LifecyclePC
<1>4. ASSUME NEW w \in Workers, ExtendUpdate(w)
      PROVE  FALSE
  BY <1>1, <1>4, ExtensionRow
<1>5. ASSUME NEW p \in Procs, releaseReserved(p)
      PROVE  Goal
  <2>1. loc[p].id = i
    BY <1>1, <1>5, ReleasedRow
  <2>2. pc[p] \in TxPC /\ pc'[p] \in {"idle", "sweep"}
    BY <1>5 DEF releaseReserved, At, TxPC, TypeOK
  <2> QED BY <2>1, <2>2 DEF LifecyclePC
<1> HIDE DEF Goal
<1>6. Goal
  BY <1>1, <1>2, <1>3, <1>4, <1>5, TableSteps DEF PersistRejectedDetail, ExtendEvent, db
<1> QED BY <1>6 DEF Goal

\* A process that finds its request no longer RESERVED has read no hold.
SnapsCurrent ==
  \A p \in Procs :
    pc[p] \in TxPC /\ request[loc[p].id].status # "RESERVED" => loc[p].snap = {}

\* No call on the request runs between reading its holds and writing them.
LEMMA CurrentStep ==
  TypeOK /\ HoldsFollowRequest /\ NoOverlap /\ SnapsCurrent /\ [Next]_vars => SnapsCurrent'
<1> SUFFICES ASSUME TypeOK, HoldsFollowRequest, NoOverlap, SnapsCurrent, [Next]_vars,
                    NEW p \in Procs, pc'[p] \in TxPC,
                    request'[loc'[p].id].status # "RESERVED"
             PROVE  loc'[p].snap = {}
  BY DEF SnapsCurrent
<1>1. CASE pc'[p] = pc[p] /\ loc'[p] = loc[p]
  <2>1. loc[p].id \in ReqIds /\ pc[p] \in LifecyclePC
    BY <1>1, HeldRequest DEF TxPC, LifecyclePC
  <2>2. CASE request[loc[p].id].status = "RESERVED"
    <3>1. PICK q \in Procs :
            pc[q] \in TxPC /\ loc[q].id = loc[p].id /\ pc'[q] \notin LifecyclePC
      BY <1>1, <2>1, <2>2, ReservationEnds
    <3>2. q = p
      BY <2>1, <3>1 DEF NoOverlap, TxPC, LifecyclePC
    <3> QED BY <1>1, <2>1, <3>1, <3>2
  <2>3. CASE request[loc[p].id].status # "RESERVED"
    BY <1>1, <2>3 DEF SnapsCurrent
  <2> QED BY <2>2, <2>3
<1>2. CASE ~(pc'[p] = pc[p] /\ loc'[p] = loc[p])
  <2>1. ListHolds(p)
    BY <1>2, Arrivals
  <2>2. loc[p].id \in ReqIds /\ ListActiveHolds(loc[p].id) \in SUBSET Kinds
    BY <2>1, HeldRequest DEF ListHolds, LifecyclePC, ListActiveHolds
  <2>3. loc'[p].snap = ListActiveHolds(loc[p].id) /\ loc'[p].id = loc[p].id /\ UNCHANGED request
    BY <2>1, <2>2, SetSnap DEF ListHolds, TypeOK, db
  <2>4. ListActiveHolds(loc[p].id) = {}
    BY <2>2, <2>3 DEF HoldsFollowRequest, HoldStatusOf, ListActiveHolds
  <2> QED BY <2>3, <2>4
<1> QED BY <1>1, <1>2

\* Pool and quota counters move only when a request changes status.
CountersMove ==
  <<reserved, dedicated, used>>' # <<reserved, dedicated, used>> =>
    \E id \in ReqIds : request'[id].status # request[id].status

\* A release that comes too late gives nothing back.
LEMMA CountersStep == TypeOK /\ SnapsCurrent /\ [Next]_vars => CountersMove
<1> SUFFICES ASSUME TypeOK, SnapsCurrent, [Next]_vars,
                    \A id \in ReqIds : request'[id].status = request[id].status
             PROVE  UNCHANGED <<reserved, dedicated, used>>
  BY DEF CountersMove
<1>1. ASSUME NEW w \in Workers, NEW id \in ReqIds, reserveWithinTx(w, id)
      PROVE  FALSE
  BY <1>1, NewRow DEF NoRow
<1>2. ASSUME NEW w \in Workers, ConfirmCommit(w)
      PROVE  FALSE
  BY <1>2, CompletedRow
<1>3. ASSUME NEW p \in Procs, releaseReserved(p)
      PROVE  UNCHANGED <<reserved, dedicated, used>>
  <2> DEFINE id == loc[p].id
             a == PlanOf(id)
             c == request[id].cust
  <2>1. id \in ReqIds /\ request[id].status # "RESERVED"
    BY <1>3, ReleasedRow
  <2>2. loc[p].snap = {}
    BY <1>3, <2>1 DEF releaseReserved, At, TxPC, SnapsCurrent
  <2>3. ReleaseReserved(a, {}) /\ ReleaseQuota(c, a, {}) /\ UNCHANGED dedicated
    BY <1>3, <2>2 DEF releaseReserved
  <2> HIDE DEF a, c
  <2>4. UNCHANGED reserved
    BY <2>3 DEF ReleaseReserved, TypeOK, RepositoryTypeOK
  <2>5. UNCHANGED used
    <3>1. used' = [used EXCEPT ![c] = [k \in Kinds |-> used[c][k]]]
      BY <2>3 DEF ReleaseQuota
    <3>2. c \in Customers => [k \in Kinds |-> used[c][k]] = used[c]
      BY DEF TypeOK, RepositoryTypeOK
    <3> QED BY <3>1, <3>2 DEF TypeOK, RepositoryTypeOK
  <2> QED BY <2>3, <2>4, <2>5
<1> QED BY <1>1, <1>2, <1>3, TableSteps
  DEF persistRejected, PersistRejectedDetail, ExtendUpdate, ExtendEvent, db

-----------------------------------------------------------------------------
(* The cap on active holds.  A worker that has passed the check and has yet *)
(* to reserve takes a place as if its reservation were there already.       *)

ActiveOf(c) ==
  {id \in ReqIds : /\ request[id].cust = c /\ request[id].status = "RESERVED"
                   /\ ListActiveHolds(id) # {}}
PassedOf(c) == {w \in Workers : pc[w] \in {"plan", "reserve"} /\ loc[w].in.cust = c}

CapRoom ==
  MaxActive > 0 => \A c \in Customers :
    Cardinality(ActiveOf(c)) + Cardinality(PassedOf(c)) <= MaxActive + Cardinality(Workers) - 1

\* A customer's active requests grow only when a reserve for it commits.
LEMMA ActiveStep ==
  ASSUME TypeOK, HoldsFollowRequest, HoldsFollowRequest', [Next]_vars,
         NEW c \in Customers, NEW i \in ActiveOf(c)', i \notin ActiveOf(c)
  PROVE  \E w \in Workers : reserveWithinTx(w, i) /\ loc[w].in.cust = c
<1>1. /\ i \in ReqIds /\ request'[i].cust = c /\ request'[i].status = "RESERVED"
      /\ \E k \in Kinds : hold'[i][k] = "ACTIVE"
  BY DEF ActiveOf, ListActiveHolds
<1>2. CASE Exists(i)
  <2>1. /\ request[i].cust = c /\ request[i].body = request'[i].body
        /\ request[i].status = "RESERVED"
    BY <1>1, <1>2, FinalStep DEF Final, Transitions, Exists
  <2>2. PICK k \in Kinds : hold'[i][k] = "ACTIVE"
    BY <1>1
  <2>3. k \in PlanKinds(request[i].body)
    BY <1>1, <2>1, <2>2 DEF HoldsFollowRequest, HoldStatusOf, PlanKinds
  <2>4. hold[i][k] = "ACTIVE"
    BY <1>1, <2>1, <2>3 DEF HoldsFollowRequest, HoldStatusOf
  <2> QED BY <1>1, <2>1, <2>4 DEF ActiveOf, ListActiveHolds
<1>3. CASE ~Exists(i)
  <2>1. PICK w \in Workers : reserveWithinTx(w, i) \/ persistRejected(w, i)
    BY <1>1, <1>3, NewRequest
  <2> QED BY <1>1, <2>1, NewRow
<1> QED BY <1>2, <1>3

\* A worker passes the check by enforceActiveHoldsLimit only.
LEMMA PassedStep ==
  ASSUME TypeOK, [Next]_vars, NEW c \in Customers, NEW w \in PassedOf(c)', w \notin PassedOf(c)
  PROVE  enforceActiveHoldsLimit(w) /\ loc[w].in.cust = c
<1>1. /\ w \in Workers /\ w \in Procs /\ pc'[w] \in {"plan", "reserve"}
      /\ loc'[w].in.cust = c
  BY DEF PassedOf, Procs
<1>2. ~(pc'[w] = pc[w] /\ loc'[w] = loc[w])
  BY <1>1 DEF PassedOf
<1>3. ~buildReservationPlan(w)
  <2> SUFFICES ASSUME buildReservationPlan(w) PROVE FALSE
    OBVIOUS
  <2>1. pc[w] = "plan" /\ loc'[w].in = loc[w].in
    BY <1>1, SetNow DEF buildReservationPlan, At, TypeOK
  <2> QED BY <1>1, <2>1 DEF PassedOf
<1>4. enforceActiveHoldsLimit(w)
  BY <1>1, <1>2, <1>3, Arrivals
<1> QED BY <1>1, <1>4 DEF enforceActiveHoldsLimit, Goto

\* A reserve gives back the place its worker had taken.
LEMMA CapStep ==
  ASSUME IsFiniteSet(ReqIds), IsFiniteSet(Workers)
  PROVE  TypeOK /\ HoldsFollowRequest /\ HoldsFollowRequest' /\ CapRoom /\ [Next]_vars => CapRoom'
<1> SUFFICES ASSUME TypeOK, HoldsFollowRequest, HoldsFollowRequest', CapRoom, [Next]_vars,
                    MaxActive > 0, NEW c \in Customers
             PROVE  Cardinality(ActiveOf(c)') + Cardinality(PassedOf(c)')
                      <= MaxActive + Cardinality(Workers) - 1
  BY DEF CapRoom
<1> DEFINE A == ActiveOf(c)
           B == ActiveOf(c)'
           P == PassedOf(c)
           Q == PassedOf(c)'
<1>1. A \in SUBSET ReqIds /\ B \in SUBSET ReqIds /\ P \in SUBSET Workers /\ Q \in SUBSET Workers
  BY DEF ActiveOf, PassedOf
<1>2. Cardinality(A) + Cardinality(P) <= MaxActive + Cardinality(Workers) - 1
  BY DEF CapRoom
<1> HIDE DEF A, B, P, Q
<1>3. IsFiniteSet(A) /\ IsFiniteSet(B) /\ IsFiniteSet(P) /\ IsFiniteSet(Q)
  BY <1>1, FS_Subset
<1>4. /\ Cardinality(A) \in Nat /\ Cardinality(B) \in Nat /\ Cardinality(P) \in Nat
      /\ Cardinality(Q) \in Nat /\ Cardinality(Workers) \in Nat /\ MaxActive \in Nat
  BY <1>3, FS_CardinalityType, TimeAssumption
<1>5. CASE B \subseteq A /\ Q \subseteq P
  <2>1. Cardinality(B) <= Cardinality(A) /\ Cardinality(Q) <= Cardinality(P)
    BY <1>3, <1>5, FS_Subset
  <2> QED BY <1>2, <1>4, <2>1 DEF B, Q
<1>6. ASSUME NEW w \in Q, w \notin P
      PROVE  Cardinality(B) + Cardinality(Q) <= MaxActive + Cardinality(Workers) - 1
  <2>1. enforceActiveHoldsLimit(w) /\ loc[w].in.cust = c
    BY <1>6, PassedStep DEF P, Q
  <2>2. CountActiveHoldsByCustomer(c) < MaxActive /\ UNCHANGED <<request, hold>>
    BY <2>1 DEF enforceActiveHoldsLimit, db
  <2>3. B = A
    BY <2>2 DEF A, B, ActiveOf, ListActiveHolds
  <2>4. Cardinality(A) < MaxActive
    BY <2>2 DEF A, ActiveOf, CountActiveHoldsByCustomer
  <2>5. Cardinality(Q) <= Cardinality(Workers)
    BY <1>1, FS_Subset
  <2> QED BY <1>4, <2>3, <2>4, <2>5
<1>7. ASSUME NEW i \in B, i \notin A
      PROVE  Cardinality(B) + Cardinality(Q) <= MaxActive + Cardinality(Workers) - 1
  <2>1. PICK w \in Workers : reserveWithinTx(w, i) /\ loc[w].in.cust = c
    BY <1>7, ActiveStep DEF A, B
  <2>2. w \in Procs /\ pc[w] = "reserve" /\ pc'[w] = "record"
    BY <2>1 DEF reserveWithinTx, At, GotoWith, Procs, TypeOK
  <2>3. w \in P /\ w \notin Q
    BY <2>1, <2>2 DEF P, Q, PassedOf
  <2>4. Q \subseteq P \ {w}
    <3>1. ASSUME NEW v \in Q, v \notin P
          PROVE  FALSE
      <4>1. enforceActiveHoldsLimit(v) /\ v \in Workers
        BY <1>1, <3>1, PassedStep DEF P, Q
      <4>2. UNCHANGED request
        BY <4>1 DEF enforceActiveHoldsLimit, db
      <4>3. request[i] = NoRow /\ request'[i].status = "RESERVED"
        BY <1>1, <1>7, <2>1, NewRow
      <4> QED BY <4>2, <4>3 DEF NoRow
    <3> QED BY <2>3, <3>1
  <2>5. B \subseteq A \cup {i}
    <3>1. ASSUME NEW j \in B, j \notin A, j # i
          PROVE  FALSE
      <4>1. PICK v \in Workers : reserveWithinTx(v, j)
        BY <3>1, ActiveStep DEF A, B
      <4>2. request[j] = NoRow /\ request'[j].status = "RESERVED"
        BY <1>1, <3>1, <4>1, NewRow
      <4>3. request'[j] = request[j]
        BY <1>1, <1>7, <2>1, <3>1, NewRow
      <4> QED BY <4>2, <4>3 DEF NoRow
    <3> QED BY <3>1
  <2>6. IsFiniteSet(A \cup {i}) /\ Cardinality(A \cup {i}) = Cardinality(A) + 1
    BY <1>3, <1>7, FS_AddElement
  <2>7. IsFiniteSet(P \ {w}) /\ Cardinality(P \ {w}) = Cardinality(P) - 1
    BY <1>3, <2>3, FS_RemoveElement
  <2>8. Cardinality(B) <= Cardinality(A) + 1 /\ Cardinality(Q) <= Cardinality(P) - 1
    BY <2>4, <2>5, <2>6, <2>7, FS_Subset
  <2> QED BY <1>2, <1>4, <2>8
<1> QED BY <1>5, <1>6, <1>7 DEF B, Q

\* Calls that pass the check together overshoot the cap by less than the number
\* of workers, however many keys and bodies they use.
THEOREM OvershootBounded ==
  ASSUME IsFiniteSet(ReqIds), IsFiniteSet(Workers)
  PROVE  Spec => []ActiveHoldsOvershootBounded
<1>1. Init => CapRoom
  <2> SUFFICES ASSUME Init, MaxActive > 0, NEW c \in Customers
               PROVE  Cardinality(ActiveOf(c)) + Cardinality(PassedOf(c))
                        <= MaxActive + Cardinality(Workers) - 1
    BY DEF CapRoom
  <2>1. ActiveOf(c) = {} /\ PassedOf(c) = {}
    BY DEF Init, RepositoryInit, NoRow, ActiveOf, PassedOf, Procs
  <2>2. Cardinality(Workers) \in Nat /\ MaxActive \in Nat
    BY FS_CardinalityType, TimeAssumption
  <2> QED BY <2>1, <2>2, FS_EmptySet
<1>2. TypeOK /\ HoldsFollowRequest /\ HoldsFollowRequest' /\ CapRoom /\ [Next]_vars => CapRoom'
  BY CapStep
<1>3. CapRoom => ActiveHoldsOvershootBounded
  <2> SUFFICES ASSUME CapRoom, MaxActive > 0, NEW c \in Customers
               PROVE  CountActiveHoldsByCustomer(c) <= MaxActive + Cardinality(Workers) - 1
    BY DEF ActiveHoldsOvershootBounded
  <2>1. ActiveOf(c) \in SUBSET ReqIds /\ PassedOf(c) \in SUBSET Workers
    BY DEF ActiveOf, PassedOf
  <2>2. /\ Cardinality(ActiveOf(c)) \in Nat /\ Cardinality(PassedOf(c)) \in Nat
        /\ Cardinality(Workers) \in Nat /\ MaxActive \in Nat
    BY <2>1, FS_Subset, FS_CardinalityType, TimeAssumption
  <2>3. Cardinality(ActiveOf(c)) + Cardinality(PassedOf(c)) <= MaxActive + Cardinality(Workers) - 1
    BY DEF CapRoom
  <2>4. CountActiveHoldsByCustomer(c) = Cardinality(ActiveOf(c))
    BY DEF CountActiveHoldsByCustomer, ActiveOf
  <2> QED BY <2>2, <2>3, <2>4
<1> QED BY <1>1, <1>2, <1>3, TypeCorrect, HoldsFollow, PTL DEF Spec

-----------------------------------------------------------------------------
(* The counters against the holds they count.                               *)

\* A request without a row has no holds.
LEMMA HoldersHaveRows == HoldsFollowRequest => HoldersExist
  BY DEF HoldsFollowRequest, HoldersExist, Exists, HoldStatusOf

\* A committing reserve adds its plan to what is held.
LEMMA HeldReserve ==
  ASSUME IsFiniteSet(ReqIds), TypeOK, TypeOK', HoldsFollowRequest, HoldsFollowRequest',
         NEW w \in Workers, NEW id \in ReqIds, reserveWithinTx(w, id),
         NEW k \in Kinds, NEW c \in Payers
  PROVE  LET a == Plan[loc[w].in.body][k] IN
         /\ a \in Nat
         /\ HeldActive(k)' = HeldActive(k) + a
         /\ HeldDedicated(k)' = HeldDedicated(k)
         /\ HeldBy(c, k)' = HeldBy(c, k) + (IF c = loc[w].in.cust THEN a ELSE 0)
<1> DEFINE a == Plan[loc[w].in.body][k]
<1>1. /\ request[id] = NoRow /\ loc[w].in \in Input
      /\ request'[id].body = loc[w].in.body /\ request'[id].cust = loc[w].in.cust
      /\ request'[id].status = "RESERVED"
      /\ \A i \in ReqIds : i # id => request'[i] = request[i]
  BY NewRow
<1>2. a \in Nat
  BY <1>1, PlanAssumption DEF Input
<1>3. hold[id][k] = "NONE"
  BY <1>1 DEF HoldsFollowRequest, NoRow, HoldStatusOf
<1>4. /\ hold'[id][k] = IF a > 0 THEN "ACTIVE" ELSE "NONE"
      /\ \A i \in ReqIds : i # id => hold'[i] = hold[i]
  BY DEF reserveWithinTx, CreateReserved, PlanKinds, TypeOK, RepositoryTypeOK
<1>5. HoldersExist /\ HoldersExist'
  <2>1. (HoldsFollowRequest => HoldersExist)'
    BY HoldersHaveRows, PTL
  <2> QED BY <2>1, HoldersHaveRows
<1>6. /\ HeldActive(k) \in Nat /\ HeldActive(k)' \in Nat
      /\ HeldDedicated(k) \in Nat /\ HeldDedicated(k)' \in Nat
      /\ HeldBy(c, k) \in Nat /\ HeldBy(c, k)' \in Nat
      /\ HeldActive(k)' + 0 = HeldActive(k) + (IF a > 0 THEN a ELSE 0)
      /\ HeldDedicated(k)' + 0 = HeldDedicated(k) + 0
      /\ HeldBy(c, k)' + 0
           = HeldBy(c, k) + (IF loc[w].in.cust = c /\ a > 0 THEN a ELSE 0)
  BY <1>1, <1>3, <1>4, <1>5, HeldChanges DEF TypeOK
<1> HIDE DEF a
<1> QED BY <1>2, <1>6 DEF a

\* A step that ends a reservation takes its plan off what is reserved; it stays
\* held if the step confirms it.
LEMMA HeldEnd ==
  ASSUME IsFiniteSet(ReqIds), TypeOK, TypeOK', HoldsFollowRequest, HoldsFollowRequest',
         NEW id \in ReqIds, request[id].status = "RESERVED",
         request'[id].status \in {"COMPLETED", "CANCELLED", "EXPIRED"},
         request'[id].cust = request[id].cust, request'[id].body = request[id].body,
         \A i \in ReqIds : i # id => request'[i] = request[i] /\ hold'[i] = hold[i],
         NEW k \in Kinds, NEW c \in Payers
  PROVE  LET a == PlanOf(id)[k]
             stays == request'[id].status = "COMPLETED"
             gone == c = request[id].cust /\ ~stays
         IN /\ a \in Nat
            /\ a <= HeldActive(k) /\ HeldActive(k)' = HeldActive(k) - a
            /\ HeldDedicated(k)' = HeldDedicated(k) + (IF stays THEN a ELSE 0)
            /\ HeldBy(c, k)' = HeldBy(c, k) - (IF gone THEN a ELSE 0)
            /\ gone => a <= HeldBy(c, k)
<1> DEFINE a == Plan[request[id].body][k]
           stays == request'[id].status = "COMPLETED"
<1>1. request[id].body \in Bodies
  BY DEF TypeOK, RepositoryTypeOK, Row, NoRow
<1>2. a \in Nat
  BY <1>1, PlanAssumption
<1>3. hold[id][k] = IF a > 0 THEN "ACTIVE" ELSE "NONE"
  BY DEF HoldsFollowRequest, HoldStatusOf, PlanKinds
<1>4. /\ a > 0 /\ stays => hold'[id][k] = "DEDICATED"
      /\ a > 0 /\ ~stays => hold'[id][k] \in {"RELEASED", "EXPIRED"}
      /\ ~(a > 0) => hold'[id][k] = "NONE"
  <2>1. hold'[id][k] = IF request'[id].status \in DOMAIN HoldStatusOf /\ a > 0
                       THEN HoldStatusOf[request'[id].status] ELSE "NONE"
    BY DEF HoldsFollowRequest, PlanKinds
  <2> QED BY <2>1 DEF HoldStatusOf
<1>5. HoldersExist /\ HoldersExist'
  <2>1. (HoldsFollowRequest => HoldersExist)'
    BY HoldersHaveRows, PTL
  <2> QED BY <2>1, HoldersHaveRows
<1> DEFINE h == hold[id][k]
           j == hold'[id][k]
           both == {"ACTIVE", "DEDICATED"}
<1>6. /\ HeldActive(k) \in Nat /\ HeldActive(k)' \in Nat
      /\ HeldDedicated(k) \in Nat /\ HeldDedicated(k)' \in Nat
      /\ HeldBy(c, k) \in Nat /\ HeldBy(c, k)' \in Nat
      /\ HeldActive(k)' + (IF h = "ACTIVE" THEN a ELSE 0)
           = HeldActive(k) + (IF j = "ACTIVE" THEN a ELSE 0)
      /\ HeldDedicated(k)' + (IF h = "DEDICATED" THEN a ELSE 0)
           = HeldDedicated(k) + (IF j = "DEDICATED" THEN a ELSE 0)
      /\ HeldBy(c, k)' + (IF request[id].cust = c /\ h \in both THEN a ELSE 0)
           = HeldBy(c, k) + (IF request[id].cust = c /\ j \in both THEN a ELSE 0)
      /\ h = "ACTIVE" => a <= HeldActive(k)
      /\ request[id].cust = c /\ h \in both => a <= HeldBy(c, k)
  BY <1>5, HeldChanges DEF TypeOK
<1>7. PlanOf(id)[k] = a
  BY DEF PlanOf
<1> HIDE DEF a, h, j, stays
<1>8. CASE a > 0
  <2>1. h = "ACTIVE" /\ (stays => j = "DEDICATED") /\ (~stays => j \in {"RELEASED", "EXPIRED"})
    BY <1>3, <1>4, <1>8 DEF h, j
  <2>2. CASE stays
    BY <1>2, <1>6, <1>7, <2>1, <2>2 DEF stays
  <2>3. CASE ~stays
    BY <1>2, <1>6, <1>7, <2>1, <2>3 DEF stays
  <2> QED BY <2>2, <2>3
<1>9. CASE ~(a > 0)
  <2>1. h = "NONE" /\ j = "NONE" /\ a = 0
    BY <1>2, <1>3, <1>4, <1>9 DEF h, j
  <2> QED BY <1>6, <1>7, <2>1
<1> QED BY <1>8, <1>9

\* A step that neither reserves nor ends a reservation leaves what is held.
LEMMA HeldKept ==
  ASSUME IsFiniteSet(ReqIds), TypeOK, TypeOK', HoldsFollowRequest, HoldsFollowRequest',
         [Next]_vars,
         \A w \in Workers, id \in ReqIds : ~reserveWithinTx(w, id),
         \A w \in Workers : ~ConfirmCommit(w),
         \A p \in Procs : releaseReserved(p) => request[loc[p].id].status # "RESERVED",
         NEW k \in Kinds, NEW c \in Payers
  PROVE  /\ HeldActive(k)' = HeldActive(k) /\ HeldDedicated(k)' = HeldDedicated(k)
         /\ HeldBy(c, k)' = HeldBy(c, k)
<1> DEFINE Kept == /\ HeldActive(k)' = HeldActive(k) /\ HeldDedicated(k)' = HeldDedicated(k)
                   /\ HeldBy(c, k)' = HeldBy(c, k)
<1>1. CASE UNCHANGED <<request, hold>>
  BY <1>1, HeldUntouched
<1>2. ASSUME NEW id \in ReqIds, UNCHANGED hold,
             \A i \in ReqIds : i # id => request'[i] = request[i],
             \/ hold[id][k] = "NONE"
             \/ request'[id].cust = request[id].cust /\ request'[id].body = request[id].body
      PROVE  Kept
  <2>1. HoldersExist /\ HoldersExist'
    <3>1. (HoldsFollowRequest => HoldersExist)'
      BY HoldersHaveRows, PTL
    <3> QED BY <3>1, HoldersHaveRows
  <2>2. \A i \in ReqIds : i # id => request'[i] = request[i] /\ hold'[i] = hold[i]
    BY <1>2
  <2> DEFINE h == hold[id][k]
             a == Plan[request[id].body][k]
             b == Plan[request'[id].body][k]
             both == {"ACTIVE", "DEDICATED"}
  <2>3. /\ HeldActive(k) \in Nat /\ HeldActive(k)' \in Nat
        /\ HeldDedicated(k) \in Nat /\ HeldDedicated(k)' \in Nat
        /\ HeldBy(c, k) \in Nat /\ HeldBy(c, k)' \in Nat
        /\ HeldActive(k)' + (IF h = "ACTIVE" THEN a ELSE 0)
             = HeldActive(k) + (IF h = "ACTIVE" THEN b ELSE 0)
        /\ HeldDedicated(k)' + (IF h = "DEDICATED" THEN a ELSE 0)
             = HeldDedicated(k) + (IF h = "DEDICATED" THEN b ELSE 0)
        /\ HeldBy(c, k)' + (IF request[id].cust = c /\ h \in both THEN a ELSE 0)
             = HeldBy(c, k) + (IF request'[id].cust = c /\ h \in both THEN b ELSE 0)
    BY <1>2, <2>1, <2>2, HeldChanges DEF TypeOK
  <2>4. CASE h = "NONE"
    BY <2>3, <2>4
  <2>5. CASE request'[id].cust = request[id].cust /\ b = a /\ h # "NONE"
    <3>1. a \in Nat
      <4>1. request[id].status # "NONE"
        BY <2>1, <2>5 DEF HoldersExist, Exists
      <4>2. request[id].body \in Bodies
        BY <4>1 DEF TypeOK, RepositoryTypeOK, Row, NoRow
      <4> QED BY <4>2, PlanAssumption
    <3> HIDE DEF a, b, h
    <3> QED BY <2>3, <2>5, <3>1
  <2> QED BY <1>2, <2>4, <2>5
<1>3. ASSUME NEW w \in Workers, NEW id \in ReqIds, persistRejected(w, id)
      PROVE  Kept
  <2>1. /\ request[id] = NoRow /\ UNCHANGED hold
        /\ \A i \in ReqIds : i # id => request'[i] = request[i]
    BY <1>3, NewRow DEF persistRejected
  <2>2. hold[id][k] = "NONE"
    BY <2>1 DEF HoldsFollowRequest, NoRow, HoldStatusOf
  <2> QED BY <1>2, <2>1, <2>2
<1>4. ASSUME NEW w \in Workers, ExtendUpdate(w)
      PROVE  Kept
  <2>1. UNCHANGED hold
    BY <1>4 DEF ExtendUpdate
  <2> QED BY <1>2, <1>4, <2>1, ExtensionRow
<1>5. ASSUME NEW p \in Procs, releaseReserved(p)
      PROVE  Kept
  BY <1>1, <1>5, LateRelease
<1> HIDE DEF Kept
<1>6. Kept
  BY <1>1, <1>3, <1>4, <1>5, TableSteps DEF PersistRejectedDetail, ExtendEvent, db, Kept
<1> QED BY <1>6 DEF Kept

\* What a confirm or a release does to the holds and rows of the other requests: nothing.
LEMMA OnlyThisRequest ==
  ASSUME TypeOK, NEW p \in Procs, (ConfirmCommit(p) /\ p \in Workers) \/ releaseReserved(p)
  PROVE  /\ loc[p].id \in ReqIds
         /\ \A i \in ReqIds : i # loc[p].id => request'[i] = request[i] /\ hold'[i] = hold[i]
<1>1. CASE ConfirmCommit(p) /\ p \in Workers
  <2>1. /\ loc[p].id \in ReqIds
        /\ \A i \in ReqIds : i # loc[p].id => request'[i] = request[i]
    BY <1>1, CompletedRow
  <2>2. UpdateHoldStatus(loc[p].id, loc[p].snap, "DEDICATED")
    BY <1>1 DEF ConfirmCommit
  <2> QED BY <2>1, <2>2 DEF UpdateHoldStatus, TypeOK, RepositoryTypeOK
<1>2. CASE releaseReserved(p)
  <2>1. /\ loc[p].id \in ReqIds
        /\ \A i \in ReqIds : i # loc[p].id => request'[i] = request[i]
    BY <1>2, ReleasedRow
  <2>2. UpdateHoldStatus(loc[p].id, loc[p].snap, IF p \in Sweepers THEN "EXPIRED" ELSE "RELEASED")
    BY <1>2 DEF releaseReserved
  <2> QED BY <2>1, <2>2 DEF UpdateHoldStatus, TypeOK, RepositoryTypeOK
<1> QED BY <1>1, <1>2

\* What a committing reserve writes in the counters.
LEMMA ReserveBooks ==
  ASSUME TypeOK, NEW w \in Workers, NEW id \in ReqIds, reserveWithinTx(w, id),
         NEW k \in Kinds, NEW c \in Payers
  PROVE  LET a == Plan[loc[w].in.body][k] IN
         /\ reserved'[k] = reserved[k] + a
         /\ dedicated'[k] = dedicated[k]
         /\ c \in Customers =>
              used'[c][k] = IF c = loc[w].in.cust THEN used[c][k] + a ELSE used[c][k]
<1>1. loc[w].in.cust \in Customers
  BY NewRow DEF Input
<1>2. /\ TryReserve(Plan[loc[w].in.body]) /\ UNCHANGED dedicated
      /\ EnsureAndTryConsume(loc[w].in.cust, Plan[loc[w].in.body])
  BY DEF reserveWithinTx
<1> QED BY <1>1, <1>2, PoolReserved, QuotaConsumed DEF TypeOK

\* What a committing confirm writes in the counters: it has read every hold of
\* its request.
LEMMA ConfirmBooks ==
  ASSUME TypeOK, HoldsFollowRequest, SnapsMatch, NEW w \in Workers, ConfirmCommit(w),
         NEW k \in Kinds
  PROVE  LET a == PlanOf(loc[w].id)[k] IN
         /\ IF reserved[k] >= a
            THEN reserved'[k] = reserved[k] - a /\ dedicated'[k] = dedicated[k] + a
            ELSE reserved'[k] = reserved[k] /\ dedicated'[k] = dedicated[k]
         /\ UNCHANGED used
<1> DEFINE id == loc[w].id
           a == PlanOf(id)
<1>1. w \in Procs /\ pc[w] \in TxPC /\ request[id].status = "RESERVED"
  BY DEF ConfirmCommit, At, TxPC, Procs
<1>2. loc[w].snap = {l \in Kinds : a[l] > 0} /\ a[k] \in Nat
  <2>1. request[id].body \in Bodies /\ loc[w].snap = LinesOf[request[id].body]
    BY <1>1, FullSnap
  <2> QED BY <2>1, PlanAssumption DEF LinesOf, PlanKinds, PlanOf
<1>3. MoveReservedToDedicated(a, loc[w].snap) /\ UNCHANGED used
  BY DEF ConfirmCommit
<1>4. reserved[k] \in Nat /\ dedicated[k] \in Nat
  BY DEF TypeOK, RepositoryTypeOK
<1> HIDE DEF a
<1>5. IF k \in loc[w].snap /\ reserved[k] >= a[k]
      THEN reserved'[k] = reserved[k] - a[k] /\ dedicated'[k] = dedicated[k] + a[k]
      ELSE reserved'[k] = reserved[k] /\ dedicated'[k] = dedicated[k]
  BY <1>3, PoolMoved
<1>6. k \in loc[w].snap \/ a[k] = 0
  BY <1>2
<1> QED BY <1>2, <1>3, <1>4, <1>5, <1>6 DEF a

\* What a release that ends its request writes in the counters.
LEMMA ReleaseBooks ==
  ASSUME TypeOK, HoldsFollowRequest, SnapsMatch, NEW p \in Procs, releaseReserved(p),
         request[loc[p].id].status = "RESERVED", NEW k \in Kinds, NEW c \in Payers
  PROVE  LET a == PlanOf(loc[p].id)[k] IN
         /\ reserved'[k] = IF reserved[k] >= a THEN reserved[k] - a ELSE reserved[k]
         /\ dedicated'[k] = dedicated[k]
         /\ c \in Customers =>
              used'[c][k] = IF c = request[loc[p].id].cust
                            THEN IF used[c][k] >= a THEN used[c][k] - a ELSE 0
                            ELSE used[c][k]
<1> DEFINE id == loc[p].id
           a == PlanOf(id)
           S == loc[p].snap
<1>1. pc[p] \in TxPC
  BY DEF releaseReserved, At, TxPC
<1>2. S = {l \in Kinds : a[l] > 0} /\ a[k] \in Nat /\ id \in ReqIds
  <2>1. id \in ReqIds /\ request[id].body \in Bodies /\ S = LinesOf[request[id].body]
    BY <1>1, FullSnap
  <2> QED BY <2>1, PlanAssumption DEF LinesOf, PlanKinds, PlanOf
<1>3. request[id].cust \in Customers
  BY <1>2 DEF TypeOK, RepositoryTypeOK, Row, NoRow
<1>4. ReleaseReserved(a, S) /\ ReleaseQuota(request[id].cust, a, S) /\ UNCHANGED dedicated
  BY DEF releaseReserved
<1>5. reserved[k] \in Nat /\ (c \in Customers => used[c][k] \in Nat)
  BY DEF TypeOK, RepositoryTypeOK
<1>6. k \in S \/ a[k] = 0
  BY <1>2
<1> HIDE DEF a, S, id
<1>7. reserved'[k] = IF k \in S /\ reserved[k] >= a[k] THEN reserved[k] - a[k] ELSE reserved[k]
  BY <1>4, PoolReleased
<1>8. c \in Customers =>
        used'[c][k] = IF c = request[id].cust /\ k \in S
                      THEN IF used[c][k] >= a[k] THEN used[c][k] - a[k] ELSE 0
                      ELSE used[c][k]
  BY <1>3, <1>4, QuotaReleased DEF TypeOK
<1>9. reserved'[k] = IF reserved[k] >= a[k] THEN reserved[k] - a[k] ELSE reserved[k]
  BY <1>2, <1>5, <1>6, <1>7
<1>10. c \in Customers =>
         used'[c][k] = IF c = request[id].cust
                       THEN IF used[c][k] >= a[k] THEN used[c][k] - a[k] ELSE 0
                       ELSE used[c][k]
  BY <1>2, <1>5, <1>6, <1>8
<1> QED BY <1>4, <1>9, <1>10 DEF a, id

\* The counters of one pool, and of one customer's quota of it, are exact.
Exact(k, c) ==
  /\ reserved[k] = HeldActive(k) /\ dedicated[k] = HeldDedicated(k)
  /\ c \in Customers => used[c][k] = HeldBy(c, k)

\* While no two calls on one request overlap every step keeps them so.
LEMMA ExactStep ==
  ASSUME IsFiniteSet(ReqIds), TypeOK, TypeOK', HoldsFollowRequest, HoldsFollowRequest',
         SnapsMatch, SnapsCurrent, [Next]_vars, NEW k \in Kinds, NEW c \in Payers,
         Exact(k, c)
  PROVE  Exact(k, c)'
<1>1. reserved[k] \in Nat /\ dedicated[k] \in Nat /\ (c \in Customers => used[c][k] \in Nat)
  BY DEF TypeOK, RepositoryTypeOK
<1>2. ASSUME NEW w \in Workers, NEW id \in ReqIds, reserveWithinTx(w, id)
      PROVE  Exact(k, c)'
  <2> DEFINE a == Plan[loc[w].in.body][k]
             cust == loc[w].in.cust
  <2>1. /\ a \in Nat /\ HeldActive(k)' = HeldActive(k) + a
        /\ HeldDedicated(k)' = HeldDedicated(k)
        /\ HeldBy(c, k)' = HeldBy(c, k) + (IF c = cust THEN a ELSE 0)
    BY <1>2, HeldReserve
  <2>2. /\ reserved'[k] = reserved[k] + a /\ dedicated'[k] = dedicated[k]
        /\ c \in Customers => used'[c][k] = IF c = cust THEN used[c][k] + a ELSE used[c][k]
    BY <1>2, ReserveBooks
  <2> HIDE DEF a, cust
  <2> QED BY <1>1, <2>1, <2>2 DEF Exact
<1>3. ASSUME NEW w \in Workers, ConfirmCommit(w)
      PROVE  Exact(k, c)'
  <2> DEFINE id == loc[w].id
             a == PlanOf(id)[k]
  <2>1. /\ id \in ReqIds /\ request[id].status = "RESERVED"
        /\ request'[id].status = "COMPLETED"
        /\ request'[id].cust = request[id].cust /\ request'[id].body = request[id].body
    BY <1>3, CompletedRow
  <2>2. \A i \in ReqIds : i # id => request'[i] = request[i] /\ hold'[i] = hold[i]
    BY <1>3, OnlyThisRequest DEF Procs
  <2>3. /\ a \in Nat /\ a <= HeldActive(k) /\ HeldActive(k)' = HeldActive(k) - a
        /\ HeldDedicated(k)' = HeldDedicated(k) + a
        /\ HeldBy(c, k)' = HeldBy(c, k) - 0
    BY <2>1, <2>2, HeldEnd
  <2>4. /\ IF reserved[k] >= a
           THEN reserved'[k] = reserved[k] - a /\ dedicated'[k] = dedicated[k] + a
           ELSE reserved'[k] = reserved[k] /\ dedicated'[k] = dedicated[k]
        /\ UNCHANGED used
    BY <1>3, ConfirmBooks
  <2> HIDE DEF a
  <2> QED BY <1>1, <2>3, <2>4 DEF Exact
<1>4. ASSUME NEW p \in Procs, releaseReserved(p), request[loc[p].id].status = "RESERVED"
      PROVE  Exact(k, c)'
  <2> DEFINE id == loc[p].id
             a == PlanOf(id)[k]
  <2>1. /\ id \in ReqIds /\ request[id].status = "RESERVED"
        /\ request'[id].status \in {"CANCELLED", "EXPIRED"}
        /\ request'[id].cust = request[id].cust /\ request'[id].body = request[id].body
    BY <1>4, ReleasedRow
  <2>2. \A i \in ReqIds : i # id => request'[i] = request[i] /\ hold'[i] = hold[i]
    BY <1>4, OnlyThisRequest
  <2>3. /\ a \in Nat /\ a <= HeldActive(k) /\ HeldActive(k)' = HeldActive(k) - a
        /\ HeldDedicated(k)' = HeldDedicated(k) + 0
        /\ HeldBy(c, k)' = HeldBy(c, k) - (IF c = request[id].cust THEN a ELSE 0)
        /\ c = request[id].cust => a <= HeldBy(c, k)
    BY <2>1, <2>2, HeldEnd
  <2>4. /\ reserved'[k] = IF reserved[k] >= a THEN reserved[k] - a ELSE reserved[k]
        /\ dedicated'[k] = dedicated[k]
        /\ c \in Customers =>
             used'[c][k] = IF c = request[id].cust
                           THEN IF used[c][k] >= a THEN used[c][k] - a ELSE 0
                           ELSE used[c][k]
    BY <1>4, ReleaseBooks
  <2> HIDE DEF a
  <2> QED BY <1>1, <2>3, <2>4 DEF Exact
<1>5. ASSUME \A w \in Workers, id \in ReqIds : ~reserveWithinTx(w, id),
             \A w \in Workers : ~ConfirmCommit(w),
             \A p \in Procs : releaseReserved(p) => request[loc[p].id].status # "RESERVED"
      PROVE  Exact(k, c)'
  <2>1. /\ HeldActive(k)' = HeldActive(k) /\ HeldDedicated(k)' = HeldDedicated(k)
        /\ HeldBy(c, k)' = HeldBy(c, k)
    BY <1>5, HeldKept
  <2>2. ASSUME NEW p \in Procs, releaseReserved(p)
        PROVE  UNCHANGED <<reserved, dedicated, used>>
    <3>1. UNCHANGED request
      BY <1>5, <2>2, ReleasedRow
    <3> QED BY <3>1, CountersStep DEF CountersMove
  <2>3. UNCHANGED <<reserved, dedicated, used>>
    BY <1>5, <2>2, TableSteps
    DEF persistRejected, PersistRejectedDetail, ExtendUpdate, ExtendEvent, db
  <2> QED BY <2>1, <2>3 DEF Exact
<1> QED BY <1>2, <1>3, <1>4, <1>5

\* CountersMatchHolds says that every pair is exact.
LEMMA ExactEverywhere == CountersMatchHolds <=> \A k \in Kinds, c \in Payers : Exact(k, c)
  BY DEF CountersMatchHolds, Exact, Payers

\* What is inductive with the counters while no two calls on one request
\* overlap.
Booked == HoldsFollowRequest /\ SnapsMatch /\ SnapsCurrent /\ CountersMatchHolds

\* One step keeps the books.
LEMMA BookedStep ==
  ASSUME IsFiniteSet(ReqIds)
  PROVE  TypeOK /\ TypeOK' /\ HoldsFollowRequest' /\ NoOverlap /\ Booked /\ [Next]_vars => Booked'
<1> SUFFICES ASSUME TypeOK, TypeOK', HoldsFollowRequest', NoOverlap, Booked, [Next]_vars
             PROVE  Booked'
  OBVIOUS
<1>1. SnapsMatch' /\ SnapsCurrent'
  BY SnapsStep, CurrentStep DEF Booked
<1>2. ASSUME NEW k \in Kinds, NEW c \in Payers
      PROVE  Exact(k, c)'
  BY ExactStep, ExactEverywhere DEF Booked
<1>3. CountersMatchHolds'
  BY <1>2 DEF CountersMatchHolds, Exact, Payers
<1> QED BY <1>1, <1>3 DEF Booked

\* The books are kept in every state.
LEMMA AlwaysBooked ==
  ASSUME IsFiniteSet(ReqIds)
  PROVE  ExclusiveSpec => []Booked
<1>1. Init => SnapsMatch /\ SnapsCurrent
  BY DEF Init, SnapsMatch, SnapsCurrent, LifecyclePC, TxPC
<1>2. ASSUME Init
      PROVE  CountersMatchHolds
  <2>1. \A k \in Kinds, c \in Payers :
          HeldActive(k) = 0 /\ HeldDedicated(k) = 0 /\ HeldBy(c, k) = 0
    BY <1>2, NothingHeld DEF Init
  <2>2. /\ \A k \in Kinds : reserved[k] = 0 /\ dedicated[k] = 0
        /\ \A k \in Kinds, c \in Customers : used[c][k] = 0
    BY <1>2 DEF Init, RepositoryInit
  <2> QED BY <2>1, <2>2 DEF CountersMatchHolds, Payers
<1>3. Init /\ HoldsFollowRequest => Booked
  BY <1>1, <1>2 DEF Booked
<1> QED BY <1>3, BookedStep, ExclusiveIsSpec, NeverOverlap, TypeCorrect, HoldsFollow, PTL
  DEF Spec

\* While no two calls on one request overlap, every pool counter is exactly the
\* sum of the holds in its state and every quota counter the sum of its
\* customer's holds, for any finite number of requests: reserveWithinTx,
\* ConfirmCommit and releaseReserved take and give back what they should.
THEOREM CountersExact ==
  ASSUME IsFiniteSet(ReqIds)
  PROVE  ExclusiveSpec => []CountersMatchHolds
<1>1. Booked => CountersMatchHolds
  BY DEF Booked
<1> QED BY <1>1, AlwaysBooked, PTL

\* While no two calls on one request overlap, what customers hold of a pool fits
\* in it: the over-allocation of overlapping releases is the only one.
THEOREM HoldsFit ==
  ASSUME IsFiniteSet(ReqIds)
  PROVE  ExclusiveSpec => []HeldWithinCapacity
<1>1. CountersMatchHolds /\ CapacityNeverOversold => HeldWithinCapacity
  BY DEF CountersMatchHolds, CapacityNeverOversold, HeldWithinCapacity
<1> QED BY <1>1, CountersExact, ExclusiveIsSpec, NeverOversold, PTL

-----------------------------------------------------------------------------
(* The service keeps the books of Ledger.                                   *)

\* A reservation that commits found room: reserveWithinTx is Admit.
LEMMA ReserveAdmits ==
  ASSUME TypeOK, NEW w \in Workers, NEW id \in ReqIds, reserveWithinTx(w, id)
  PROVE  Books!LedgerNext
<1> DEFINE c == loc[w].in.cust
           key == loc[w].in.key
           b == loc[w].in.body
<1>1. /\ c \in Customers /\ key \in Keys /\ b \in Bodies
      /\ Life!Reserve(id, c, key, b)
  BY ReserveRefines
<1>2. /\ PoolsFit(Plan[b]) /\ QuotaFits(c, Plan[b]) /\ UNCHANGED dedicated
      /\ reserved' = [k \in Kinds |-> reserved[k] + Plan[b][k]]
      /\ used' = [used EXCEPT ![c] = [k \in Kinds |-> used[c][k] + Plan[b][k]]]
  BY DEF reserveWithinTx, Fits, TryReserve, EnsureAndTryConsume
<1> HIDE DEF c, key, b
<1>3. Books!Reserve(id, c, key, b)
  BY <1>1 DEF Life!Reserve, Books!Reserve, Life!Fresh, Books!Fresh, Life!NoRow, Books!NoRow,
              Life!SetHolds, Books!SetHolds
<1>4. ASSUME NEW k \in Kinds
      PROVE  /\ Plan[b][k] \in Nat /\ reserved[k] \in Nat /\ dedicated[k] \in Nat
             /\ used[c][k] \in Nat /\ Effective[k] \in Nat /\ Limit[c][k] \in Nat
  BY <1>1, PlanAssumption, EffectiveAssumption, LimitAssumption DEF TypeOK, RepositoryTypeOK
<1>5. ASSUME NEW k \in Kinds, Plan[b][k] > 0
      PROVE  /\ reserved[k] + dedicated[k] + Plan[b][k] <= Effective[k]
             /\ used[c][k] + Plan[b][k] <= Limit[c][k]
  <2>1. Effective[k] - dedicated[k] - reserved[k] >= Plan[b][k]
    BY <1>2, <1>5 DEF PoolsFit, Available
  <2>2. Limit[c][k] - used[c][k] >= Plan[b][k]
    BY <1>2, <1>5 DEF QuotaFits
  <2> QED BY <1>4, <2>1, <2>2
<1>6. /\ reserved' = Books!Shift(reserved, b, 1)
      /\ [k \in Kinds |-> used[c][k] + Plan[b][k]] = Books!Shift(used[c], b, 1)
  BY <1>2, <1>4 DEF Books!Shift
<1>7. Books!Admit(id, c, key, b)
  BY <1>2, <1>3, <1>5, <1>6 DEF Books!Admit, Books!ShiftUsed
<1> QED BY <1>1, <1>7 DEF Books!LedgerNext

\* A rejection books nothing.
LEMMA RejectBooksNothing ==
  ASSUME TypeOK, NEW w \in Workers, NEW id \in ReqIds, persistRejected(w, id)
  PROVE  Books!LedgerNext
<1> DEFINE c == loc[w].in.cust
           key == loc[w].in.key
           b == loc[w].in.body
<1>1. /\ c \in Customers /\ key \in Keys /\ b \in Bodies
      /\ Life!Reject(id, c, key, b)
  BY RejectRefines
<1>2. UNCHANGED <<reserved, dedicated, used>>
  BY DEF persistRejected
<1> HIDE DEF c, key, b
<1>3. Books!Reject(id, c, key, b)
  BY <1>1 DEF Life!Reject, Books!Reject, Life!Fresh, Books!Fresh, Life!NoRow, Books!NoRow
<1> QED BY <1>1, <1>2, <1>3 DEF Books!LedgerNext, Books!books

\* The counters are long enough for a plan that is reserved, so a confirm moves
\* all of it: ConfirmCommit is Dedicate.
LEMMA ConfirmDedicates ==
  ASSUME IsFiniteSet(ReqIds), TypeOK, TypeOK', HoldsFollowRequest', Booked,
         NEW w \in Workers, ConfirmCommit(w)
  PROVE  Books!LedgerNext
<1> DEFINE id == loc[w].id
           b == request[id].body
<1>1. id \in ReqIds /\ Life!Confirm(id)
  BY ConfirmRefines DEF Booked
<1>2. /\ request[id].status = "RESERVED" /\ request'[id].status = "COMPLETED"
      /\ request'[id].cust = request[id].cust /\ request'[id].body = request[id].body
  BY CompletedRow
<1>3. \A i \in ReqIds : i # id => request'[i] = request[i] /\ hold'[i] = hold[i]
  BY OnlyThisRequest DEF Procs
<1>4. Rows[id].body = b /\ PlanOf(id) = Plan[b]
  BY <1>1 DEF Rows, RowOf, PlanOf
<1>5. UNCHANGED used
  BY DEF ConfirmCommit
<1>6. ASSUME NEW k \in Kinds
      PROVE  /\ reserved'[k] = reserved[k] + (-1) * Plan[b][k]
             /\ dedicated'[k] = dedicated[k] + 1 * Plan[b][k]
  <2>1. None \in Payers
    BY DEF Payers
  <2>2. PlanOf(id)[k] \in Nat /\ PlanOf(id)[k] <= HeldActive(k)
    BY <1>1, <1>2, <1>3, <2>1, HeldEnd DEF Booked
  <2>3. reserved[k] = HeldActive(k) /\ reserved[k] \in Nat /\ dedicated[k] \in Nat
    BY DEF Booked, CountersMatchHolds, TypeOK, RepositoryTypeOK
  <2>4. IF reserved[k] >= PlanOf(id)[k]
        THEN /\ reserved'[k] = reserved[k] - PlanOf(id)[k]
             /\ dedicated'[k] = dedicated[k] + PlanOf(id)[k]
        ELSE reserved'[k] = reserved[k] /\ dedicated'[k] = dedicated[k]
    BY ConfirmBooks DEF Booked
  <2> HIDE DEF id, b
  <2> QED BY <1>4, <2>2, <2>3, <2>4
<1>7. reserved' \in [Kinds -> Nat] /\ dedicated' \in [Kinds -> Nat]
  BY DEF TypeOK, RepositoryTypeOK
<1> HIDE DEF id, b
<1>8. Books!Confirm(id)
  BY <1>1 DEF Life!Confirm, Books!Confirm, Life!SetHolds, Books!SetHolds
<1>9. /\ reserved' = Books!Shift(reserved, Rows[id].body, -1)
      /\ dedicated' = Books!Shift(dedicated, Rows[id].body, 1)
  BY <1>4, <1>6, <1>7 DEF Books!Shift
<1>10. Books!Dedicate(id)
  BY <1>5, <1>8, <1>9 DEF Books!Dedicate
<1> QED BY <1>1, <1>10 DEF Books!LedgerNext

\* A release in time gives back the plan, all of it and unclamped: it is
\* GiveBack.
LEMMA ReleaseGivesBack ==
  ASSUME IsFiniteSet(ReqIds), TypeOK, TypeOK', HoldsFollowRequest', Booked,
         NEW p \in Procs, releaseReserved(p), request[loc[p].id].status = "RESERVED"
  PROVE  Books!LedgerNext
<1> DEFINE id == loc[p].id
           b == request[id].body
           c == request[id].cust
<1>1. id \in ReqIds /\ (Life!Cancel(id) \/ Life!Expire(id))
  BY ReleaseRefines DEF Booked
<1>2. /\ request[id].status = "RESERVED" /\ request'[id].status \in {"CANCELLED", "EXPIRED"}
      /\ request'[id].cust = request[id].cust /\ request'[id].body = request[id].body
  BY ReleasedRow
<1>3. \A i \in ReqIds : i # id => request'[i] = request[i] /\ hold'[i] = hold[i]
  BY OnlyThisRequest
<1>4. Rows[id].body = b /\ Rows[id].cust = c /\ PlanOf(id) = Plan[b] /\ c \in Customers
  BY <1>1, <1>2 DEF Rows, RowOf, PlanOf, TypeOK, RepositoryTypeOK, Row, NoRow
<1>5. UNCHANGED dedicated /\ ReleaseQuota(c, PlanOf(id), loc[p].snap)
  BY DEF releaseReserved
<1>6. ASSUME NEW k \in Kinds
      PROVE  /\ reserved'[k] = reserved[k] + (-1) * Plan[b][k]
             /\ used'[c][k] = used[c][k] + (-1) * Plan[b][k]
  <2>1. c \in Payers
    BY <1>4 DEF Payers
  <2>2. /\ PlanOf(id)[k] \in Nat /\ PlanOf(id)[k] <= HeldActive(k)
        /\ PlanOf(id)[k] <= HeldBy(c, k)
    BY <1>1, <1>2, <1>3, <2>1, HeldEnd DEF Booked
  <2>3. /\ reserved[k] = HeldActive(k) /\ reserved[k] \in Nat
        /\ used[c][k] = HeldBy(c, k) /\ used[c][k] \in Nat
    BY <1>4 DEF Booked, CountersMatchHolds, TypeOK, RepositoryTypeOK
  <2>4. /\ reserved'[k] = IF reserved[k] >= PlanOf(id)[k] THEN reserved[k] - PlanOf(id)[k]
                                                          ELSE reserved[k]
        /\ used'[c][k] = IF used[c][k] >= PlanOf(id)[k] THEN used[c][k] - PlanOf(id)[k] ELSE 0
    BY <1>4, <2>1, ReleaseBooks DEF Booked
  <2> HIDE DEF id, b, c
  <2> QED BY <1>4, <2>2, <2>3, <2>4
<1>7. reserved' \in [Kinds -> Nat] /\ used' \in [Customers -> [Kinds -> Nat]]
      /\ used \in [Customers -> [Kinds -> Nat]]
  BY DEF TypeOK, RepositoryTypeOK
<1> HIDE DEF id, b, c
<1>8. Books!Cancel(id) \/ Books!Expire(id)
  BY <1>1 DEF Life!Cancel, Books!Cancel, Life!Expire, Books!Expire, Life!SetHolds,
              Books!SetHolds
<1>9. reserved' = Books!Shift(reserved, Rows[id].body, -1)
  BY <1>4, <1>6, <1>7 DEF Books!Shift
<1>10. Books!ShiftUsed(Rows[id].cust, Rows[id].body, -1)
  <2>1. used'[c] = Books!Shift(used[c], b, -1)
    BY <1>4, <1>6, <1>7 DEF Books!Shift
  <2>2. \A d \in Customers : d # c => used'[d] = used[d]
    BY <1>5, <1>7 DEF ReleaseQuota
  <2>3. used' = [used EXCEPT ![c] = Books!Shift(used[c], b, -1)]
    BY <1>4, <1>7, <2>1, <2>2
  <2> QED BY <1>4, <2>3 DEF Books!ShiftUsed
<1>11. Books!GiveBack(id)
  BY <1>5, <1>8, <1>9, <1>10 DEF Books!GiveBack
<1> QED BY <1>1, <1>11 DEF Books!LedgerNext

\* While no two calls on one request overlap the service implements Ledger: each
\* step books one whole reservation, confirmation or release, by the amounts of
\* its plan, or nothing.
THEOREM LedgerRefinement ==
  ASSUME IsFiniteSet(ReqIds)
  PROVE  ExclusiveSpec => ImplementsLedger
<1> DEFINE view == <<Books!life, Books!books>>
<1>1. Init => Books!LedgerInit
  BY DEF Init, RepositoryInit, Books!LedgerInit, Books!Init, Books!NoRow, NoRow, Rows, RowOf
<1>2. TypeOK /\ TypeOK' /\ HoldsFollowRequest' /\ Booked /\ [Next]_vars
        => [Books!LedgerNext]_view
  <2> SUFFICES ASSUME TypeOK, TypeOK', HoldsFollowRequest', Booked, [Next]_vars
               PROVE  Books!LedgerNext \/ UNCHANGED view
    OBVIOUS
  <2>1. /\ UNCHANGED <<request, hold, dedication, reserved, dedicated, used>> => UNCHANGED view
        /\ UNCHANGED Life!life /\ UNCHANGED <<reserved, dedicated, used>> => UNCHANGED view
    BY DEF Books!life, Life!life, Books!books, Rows
  <2>2. ASSUME NEW w \in Workers, ExtendUpdate(w)
        PROVE  UNCHANGED view
    <3>1. UNCHANGED <<reserved, dedicated, used>>
      BY <2>2 DEF ExtendUpdate
    <3> HIDE DEF view
    <3> QED BY <2>1, <2>2, <3>1, ExtendRefines
  <2>3. ASSUME NEW p \in Procs, releaseReserved(p), request[loc[p].id].status # "RESERVED"
        PROVE  UNCHANGED view
    <3>1. UNCHANGED Life!life
      BY <2>3, ReleaseRefines DEF Booked
    <3>2. UNCHANGED request
      BY <2>3, LateRelease DEF Booked
    <3>3. UNCHANGED <<reserved, dedicated, used>>
      BY <3>2, CountersStep DEF CountersMove, Booked
    <3> HIDE DEF view
    <3> QED BY <2>1, <3>1, <3>3
  <2> HIDE DEF view
  <2> QED BY <2>1, <2>2, <2>3, TableSteps, ReserveAdmits, RejectBooksNothing,
             ConfirmDedicates, ReleaseGivesBack
    DEF PersistRejectedDetail, ExtendEvent, db
<1> QED BY <1>1, <1>2, ExclusiveIsSpec, TypeCorrect, HoldsFollow, AlwaysBooked, PTL
  DEF Spec, ImplementsLedger, Books!LedgerSpec

-----------------------------------------------------------------------------
(* What remains of the books when calls do overlap.                         *)

\* One pool and one customer's quota of it count no more than is held.
Covered(k, c) ==
  dedicated[k] <= HeldDedicated(k) /\ (c \in Customers => used[c][k] <= HeldBy(c, k))

\* A late release only takes off the quota; no step adds without a hold.
LEMMA CoveredStep ==
  ASSUME IsFiniteSet(ReqIds), TypeOK, TypeOK', HoldsFollowRequest, HoldsFollowRequest',
         SnapsMatch, [Next]_vars, NEW k \in Kinds, NEW c \in Payers, Covered(k, c)
  PROVE  Covered(k, c)'
<1>1. reserved[k] \in Nat /\ dedicated[k] \in Nat /\ (c \in Customers => used[c][k] \in Nat)
  BY DEF TypeOK, RepositoryTypeOK
<1>2. HeldActive(k) \in Nat /\ HeldDedicated(k) \in Nat /\ HeldBy(c, k) \in Nat
  BY HeldNat, HoldersHaveRows DEF TypeOK
<1>3. ASSUME NEW w \in Workers, NEW id \in ReqIds, reserveWithinTx(w, id)
      PROVE  Covered(k, c)'
  <2> DEFINE a == Plan[loc[w].in.body][k]
             cust == loc[w].in.cust
  <2>1. /\ a \in Nat /\ HeldDedicated(k)' = HeldDedicated(k)
        /\ HeldBy(c, k)' = HeldBy(c, k) + (IF c = cust THEN a ELSE 0)
    BY <1>3, HeldReserve
  <2>2. /\ dedicated'[k] = dedicated[k]
        /\ c \in Customers => used'[c][k] = IF c = cust THEN used[c][k] + a ELSE used[c][k]
    BY <1>3, ReserveBooks
  <2> HIDE DEF a, cust
  <2> QED BY <1>1, <1>2, <2>1, <2>2 DEF Covered
<1>4. ASSUME NEW w \in Workers, ConfirmCommit(w)
      PROVE  Covered(k, c)'
  <2> DEFINE id == loc[w].id
             a == PlanOf(id)[k]
  <2>1. /\ id \in ReqIds /\ request[id].status = "RESERVED"
        /\ request'[id].status = "COMPLETED"
        /\ request'[id].cust = request[id].cust /\ request'[id].body = request[id].body
    BY <1>4, CompletedRow
  <2>2. \A i \in ReqIds : i # id => request'[i] = request[i] /\ hold'[i] = hold[i]
    BY <1>4, OnlyThisRequest DEF Procs
  <2>3. /\ a \in Nat /\ HeldDedicated(k)' = HeldDedicated(k) + a
        /\ HeldBy(c, k)' = HeldBy(c, k) - 0
    BY <2>1, <2>2, HeldEnd
  <2>4. dedicated'[k] \in {dedicated[k], dedicated[k] + a} /\ UNCHANGED used
    BY <1>4, ConfirmBooks
  <2> HIDE DEF a
  <2> QED BY <1>1, <1>2, <2>3, <2>4 DEF Covered
<1>5. ASSUME NEW p \in Procs, releaseReserved(p), request[loc[p].id].status = "RESERVED"
      PROVE  Covered(k, c)'
  <2> DEFINE id == loc[p].id
             a == PlanOf(id)[k]
  <2>1. /\ id \in ReqIds /\ request[id].status = "RESERVED"
        /\ request'[id].status \in {"CANCELLED", "EXPIRED"}
        /\ request'[id].cust = request[id].cust /\ request'[id].body = request[id].body
    BY <1>5, ReleasedRow
  <2>2. \A i \in ReqIds : i # id => request'[i] = request[i] /\ hold'[i] = hold[i]
    BY <1>5, OnlyThisRequest
  <2>3. /\ a \in Nat /\ HeldDedicated(k)' = HeldDedicated(k) + 0
        /\ HeldBy(c, k)' = HeldBy(c, k) - (IF c = request[id].cust THEN a ELSE 0)
        /\ c = request[id].cust => a <= HeldBy(c, k)
    BY <2>1, <2>2, HeldEnd
  <2>4. /\ dedicated'[k] = dedicated[k]
        /\ c \in Customers =>
             used'[c][k] = IF c = request[id].cust
                           THEN IF used[c][k] >= a THEN used[c][k] - a ELSE 0
                           ELSE used[c][k]
    BY <1>5, ReleaseBooks
  <2> HIDE DEF a
  <2> QED BY <1>1, <1>2, <2>3, <2>4 DEF Covered
<1>6. ASSUME \A w \in Workers, id \in ReqIds : ~reserveWithinTx(w, id),
             \A w \in Workers : ~ConfirmCommit(w),
             \A p \in Procs : releaseReserved(p) => request[loc[p].id].status # "RESERVED"
      PROVE  Covered(k, c)'
  <2>1. HeldDedicated(k)' = HeldDedicated(k) /\ HeldBy(c, k)' = HeldBy(c, k)
    BY <1>6, HeldKept
  <2> DEFINE Less == dedicated'[k] = dedicated[k] /\ (c \in Customers => used'[c][k] <= used[c][k])
  <2>2. ASSUME NEW p \in Procs, releaseReserved(p)
        PROVE  Less
    <3> DEFINE id == loc[p].id
               a == PlanOf(id)
    <3>1. id \in ReqIds /\ Exists(id)
      BY <2>2, ReleasedRow
    <3>2. request[id].cust \in Customers /\ a[k] \in Nat
      BY <3>1, RowComplete DEF TypeOK, Row
    <3>3. ReleaseQuota(request[id].cust, a, loc[p].snap) /\ UNCHANGED dedicated
      BY <2>2 DEF releaseReserved
    <3> HIDE DEF a
    <3>4. c \in Customers =>
            used'[c][k] = IF c = request[id].cust /\ k \in loc[p].snap
                          THEN IF used[c][k] >= a[k] THEN used[c][k] - a[k] ELSE 0
                          ELSE used[c][k]
      BY <3>2, <3>3, QuotaReleased DEF TypeOK
    <3> QED BY <1>1, <3>2, <3>3, <3>4
  <2>3. UNCHANGED <<dedicated, used>> => Less
    BY <1>1
  <2> HIDE DEF Less
  <2>4. Less
    BY <1>6, <2>2, <2>3, TableSteps
    DEF persistRejected, PersistRejectedDetail, ExtendUpdate, ExtendEvent, db
  <2>5. c \in Customers => used'[c][k] \in Nat
    BY DEF TypeOK, RepositoryTypeOK
  <2> QED BY <1>1, <1>2, <2>1, <2>4, <2>5 DEF Covered, Less
<1> QED BY <1>3, <1>4, <1>5, <1>6

\* However calls overlap, no quota counts more than its customer holds and no
\* pool counts more as dedicated than is: a release that comes too late, in
\* releaseReserved, lowers counters and never raises one.
THEOREM NeverOvercounted ==
  ASSUME IsFiniteSet(ReqIds)
  PROVE  Spec => []NothingOvercounted
<1>1. ASSUME Init
      PROVE  NothingOvercounted
  <2>1. \A k \in Kinds, c \in Payers : HeldDedicated(k) = 0 /\ HeldBy(c, k) = 0
    BY <1>1, NothingHeld DEF Init
  <2>2. \A k \in Kinds, c \in Customers : used[c][k] = 0
    BY <1>1 DEF Init, RepositoryInit
  <2>3. \A k \in Kinds : dedicated[k] = 0
    BY <1>1 DEF Init, RepositoryInit
  <2> QED BY <2>1, <2>2, <2>3 DEF NothingOvercounted, Payers
<1>2. TypeOK /\ TypeOK' /\ HoldsFollowRequest /\ HoldsFollowRequest' /\ SnapsMatch
        /\ NothingOvercounted /\ [Next]_vars => NothingOvercounted'
  <2> SUFFICES ASSUME TypeOK, TypeOK', HoldsFollowRequest, HoldsFollowRequest', SnapsMatch,
                      NothingOvercounted, [Next]_vars
               PROVE  NothingOvercounted'
    OBVIOUS
  <2>1. ASSUME NEW k \in Kinds, NEW c \in Payers
        PROVE  Covered(k, c)'
    <3>1. Covered(k, c)
      BY DEF NothingOvercounted, Covered
    <3> QED BY <3>1, CoveredStep
  <2> QED BY <2>1 DEF NothingOvercounted, Covered, Payers
<1> QED BY <1>1, <1>2, TypeCorrect, HoldsAndSnaps, PTL DEF Spec
=============================================================================
