------------------------- MODULE RequestPlanProofs -------------------------
(***************************************************************************)
(* What CreateRequest makes of a body, for any catalogue, any pools, any   *)
(* bodies and any width of integers the limits were chosen for.            *)
(***************************************************************************)
EXTENDS RequestPlan, FiniteSetTheorems, TLAPS

Bodies == Inputs \cup {NoInput}

\* What the loop of resolveLines visits.
Sources(i) == IF i.product # None THEN DOMAIN Template[i.product] ELSE DOMAIN i.lines

\* p holds the amounts of what i asks for, but for what is left to visit.
Resolves(i, p, left) ==
  /\ IF i.product # None
     THEN /\ i.product \in DOMAIN Template
          /\ DOMAIN p = Sources(i) \ left
          /\ \A k \in DOMAIN p :
               p[k] = Int64(Template[i.product][k] * resolvedQuantity(i))
     ELSE /\ DOMAIN p = {i.lines[n].kind : n \in Sources(i) \ left}
          /\ \A n \in Sources(i) \ left : p[i.lines[n].kind] = i.lines[n].amount
  /\ \A k \in DOMAIN p : p[k] \in 1 .. maxAmount

\* The amounts of p, but for the kinds left, come from pools and in their grains.
Grained(p, left) ==
  \A k \in DOMAIN p \ left :
    k \in DOMAIN MinGrain /\ (MinGrain[k] > 0 => p[k] % MinGrain[k] = 0)

\* What is true of the call in progress, step by step.
CallInv ==
  /\ stage \in {"idle", "validate", "replay", "resolve", "plan"}
  /\ in \in Bodies /\ first \in Bodies
  /\ stage # "idle" => answer = "none"
  /\ stage \in {"replay", "resolve", "plan"} => validateCreateInput(in)
  /\ stage \in {"resolve", "plan"} => stored = None
  /\ stage = "resolve" => /\ in.product # None => in.product \in DOMAIN Template
                          /\ todo \subseteq Sources(in) /\ Resolves(in, out, todo)
  /\ stage = "plan" => /\ todo \subseteq DOMAIN out
                       /\ Resolves(in, out, {}) /\ Grained(out, todo)
  /\ stage \in {"validate", "replay"} => out = Empty

\* What is true of the request stored, and of the answers that compare with it.
StoredInv ==
  /\ Hashed => /\ stored.hash = computeBodyHash(first)
               /\ validateCreateInput(first)
               /\ Resolves(first, stored.plan, {})
               /\ Grained(stored.plan, {})
  /\ answer = "replayed" => /\ stored # None /\ stored.hash \in {None, computeBodyHash(in)}
                            /\ validateCreateInput(in)
  /\ answer = "IDEMPOTENCY_KEY_REUSED" => /\ Hashed /\ stored.hash # computeBodyHash(in)
                                          /\ validateCreateInput(in)

PlanInv == CallInv /\ StoredInv


-----------------------------------------------------------------------------
(* Amounts. *)

\* maxAmount and maxQuantity keep their product within an int64.
LEMMA ProductFits ==
  ASSUME NEW t \in 1 .. maxAmount, NEW q \in 1 .. maxQuantity
  PROVE  t * q \in 1 .. Half - 1
<1>0. maxAmount \in Nat /\ maxQuantity \in Nat /\ Half \in Nat /\ maxAmount * maxQuantity < Half
  BY WidthAssumption
<1>1. t * q >= 1 /\ t * q \in Int
  BY <1>0
<1>2. t * q <= maxAmount * q
  BY <1>0
<1>3. maxAmount * q <= maxAmount * maxQuantity
  BY <1>0
<1> QED BY <1>0, <1>1, <1>2, <1>3

\* An amount within the limits is itself as an int64.
LEMMA AmountFits ==
  ASSUME NEW a \in 1 .. maxAmount
  PROVE  Int64(a) = a
<1>1. 1 \in 1 .. maxQuantity /\ a \in Int /\ a * 1 = a
  BY WidthAssumption
<1>2. a \in 1 .. Half - 1
  BY <1>1, ProductFits
<1> QED BY <1>2, WidthAssumption DEF Int64

\* The quantity of a body, and its bounds once the body is validated.
LEMMA BodyTypes ==
  ASSUME NEW i \in Bodies
  PROVE  /\ resolvedQuantity(i) \in Int
         /\ i.product # None /\ validateCreateInput(i) => resolvedQuantity(i) \in 1 .. maxQuantity
<1>1. i.quantity \in Int
  BY InputAssumption DEF Bodies, NoInput
<1> QED BY <1>1, WidthAssumption DEF resolvedQuantity, validateCreateInput

\* A turn of a loop adds a kind that was not there.
LEMMA Added ==
  ASSUME NEW k, k \notin DOMAIN out, NEW a \in 1 .. maxAmount, AddTo(k, a)
  PROVE  /\ DOMAIN out' = DOMAIN out \cup {k} /\ out'[k] = a
         /\ \A x \in DOMAIN out : out'[x] = out[x]
<1>1. Int64(0 + a) = a
  BY AmountFits
<1> QED BY <1>1 DEF AddTo

-----------------------------------------------------------------------------
(* The steps. *)

\* An answer that ends the call leaves the request stored as it is.
LEMMA AnswerKeeps ==
  ASSUME PlanInv, NEW a, Answer(a),
         a = "replayed" => /\ stored # None /\ stored.hash \in {None, computeBodyHash(in)}
                           /\ validateCreateInput(in),
         a = "IDEMPOTENCY_KEY_REUSED" => /\ Hashed /\ stored.hash # computeBodyHash(in)
                                         /\ validateCreateInput(in)
  PROVE  PlanInv'
<1>1. CallInv'
  BY DEF Answer, PlanInv, CallInv
<1>2. StoredInv'
  BY DEF Answer, PlanInv, StoredInv, Hashed
<1> QED BY <1>1, <1>2 DEF PlanInv

\* A step within a call leaves the request stored and the answer alone.
LEMMA StoredStays ==
  ASSUME PlanInv, UNCHANGED <<in, answer, stored, first>>
  PROVE  StoredInv'
  BY DEF PlanInv, StoredInv, Hashed

\* A turn over the template.
LEMMA TemplateKeeps ==
  ASSUME PlanInv, NEW k, ResolveTemplate(k)
  PROVE  PlanInv'
<1> DEFINE amt == Int64(Template[in.product][k] * resolvedQuantity(in))
<1>1. stage = "resolve" /\ in.product # None /\ k \in todo
  BY DEF ResolveTemplate
<1>2. CASE amt <= 0 \/ amt > maxAmount
  BY <1>2, AnswerKeeps DEF ResolveTemplate
<1>3. CASE ~(amt <= 0 \/ amt > maxAmount)
  <2>1. AddTo(k, amt) /\ todo' = todo \ {k} /\ UNCHANGED <<stage, in, answer, stored, first>>
    BY <1>3 DEF ResolveTemplate
  <2>2. /\ todo \subseteq Sources(in) /\ DOMAIN out = Sources(in) \ todo
        /\ \A x \in DOMAIN out : out[x] = Int64(Template[in.product][x] * resolvedQuantity(in))
        /\ \A x \in DOMAIN out : out[x] \in 1 .. maxAmount
    BY <1>1 DEF PlanInv, CallInv, Resolves
  <2>3. amt \in 1 .. maxAmount
    <3>1. Template[in.product][k] \in Int /\ resolvedQuantity(in) \in Int
      BY <1>1, <2>2, InputAssumption, BodyTypes DEF Sources, PlanInv, CallInv
    <3>2. Template[in.product][k] * resolvedQuantity(in) \in Int
      BY <3>1
    <3>3. amt \in Int
      BY <3>2, WidthAssumption DEF Int64
    <3> QED BY <1>3, <3>3, WidthAssumption
  <2> HIDE DEF amt
  <2>4. /\ DOMAIN out' = DOMAIN out \cup {k} /\ out'[k] = amt
        /\ \A x \in DOMAIN out : out'[x] = out[x]
    BY <1>1, <2>1, <2>2, <2>3, Added
  <2>5. /\ DOMAIN out' = Sources(in) \ todo'
        /\ \A x \in DOMAIN out' : x = k \/ x \in DOMAIN out
    BY <1>1, <2>1, <2>2, <2>4
  <2>6. \A x \in DOMAIN out' : /\ out'[x] = Int64(Template[in.product][x] * resolvedQuantity(in))
                              /\ out'[x] \in 1 .. maxAmount
    BY <2>2, <2>3, <2>4, <2>5 DEF amt
  <2>7. Resolves(in, out', todo') /\ todo' \subseteq Sources(in)
    BY <1>1, <2>1, <2>2, <2>5, <2>6 DEF Resolves, PlanInv, CallInv
  <2>8. CallInv'
    BY <1>1, <2>1, <2>7 DEF PlanInv, CallInv
  <2> QED BY <2>1, <2>8, StoredStays DEF PlanInv
<1> QED BY <1>2, <1>3

\* A turn over the lines: their kinds differ, so each is new.
LEMMA LineKeeps ==
  ASSUME PlanInv, NEW n, ResolveLine(n)
  PROVE  PlanInv'
<1> DEFINE l == in.lines[n]
<1>1. /\ stage = "resolve" /\ in.product = None /\ n \in todo
      /\ AddTo(l.kind, l.amount) /\ todo' = todo \ {n}
      /\ UNCHANGED <<stage, in, answer, stored, first>>
  BY DEF ResolveLine
<1>2. /\ todo \subseteq Sources(in) /\ Sources(in) = DOMAIN in.lines
      /\ DOMAIN out = {in.lines[m].kind : m \in Sources(in) \ todo}
      /\ \A m \in Sources(in) \ todo : out[in.lines[m].kind] = in.lines[m].amount
      /\ \A k \in DOMAIN out : out[k] \in 1 .. maxAmount
  BY <1>1 DEF PlanInv, CallInv, Resolves, Sources
<1>3. /\ l.amount \in 1 .. maxAmount
      /\ \A m \in DOMAIN in.lines : in.lines[m].kind = l.kind => m = n
  BY <1>1, <1>2 DEF PlanInv, CallInv, validateCreateInput, LinesValid
<1>4. l.kind \notin DOMAIN out
  BY <1>1, <1>2, <1>3
<1> HIDE DEF l
<1>5. /\ DOMAIN out' = DOMAIN out \cup {l.kind} /\ out'[l.kind] = l.amount
      /\ \A x \in DOMAIN out : out'[x] = out[x]
  BY <1>1, <1>3, <1>4, Added
<1>6. /\ DOMAIN out' = {in.lines[m].kind : m \in Sources(in) \ todo'}
      /\ \A m \in Sources(in) \ todo' : out'[in.lines[m].kind] = in.lines[m].amount
      /\ \A k \in DOMAIN out' : out'[k] \in 1 .. maxAmount
  <2>1. Sources(in) \ todo' = (Sources(in) \ todo) \cup {n}
    BY <1>1, <1>2
  <2> QED BY <1>2, <1>3, <1>5, <2>1 DEF l
<1>7. Resolves(in, out', todo') /\ todo' \subseteq Sources(in)
  BY <1>1, <1>2, <1>6 DEF Resolves
<1>8. CallInv'
  BY <1>1, <1>7 DEF PlanInv, CallInv
<1> QED BY <1>1, <1>8, StoredStays DEF PlanInv

\* A turn over the kinds resolved.
LEMMA KindKeeps ==
  ASSUME PlanInv, NEW k, PlanKind(k)
  PROVE  PlanInv'
<1>1. CASE \E a \in {"INVALID_RESOURCE_KIND", "CONFLICT"} : Answer(a)
  BY <1>1, AnswerKeeps
<1>2. CASE /\ k \in DOMAIN MinGrain /\ Aligned(k) /\ todo' = todo \ {k}
           /\ UNCHANGED <<stage, in, out, answer, stored, first>>
  <2>1. stage = "plan" /\ k \in todo
    BY DEF PlanKind
  <2>2. Grained(out, todo') /\ todo' \subseteq DOMAIN out
    BY <1>2, <2>1 DEF PlanInv, CallInv, Grained, Aligned
  <2>3. CallInv'
    BY <1>2, <2>1, <2>2 DEF PlanInv, CallInv
  <2> QED BY <1>2, <2>3, StoredStays DEF PlanInv
<1> QED BY <1>1, <1>2 DEF PlanKind

\* Both loops start with nothing resolved, and leave nothing out.
LEMMA LoopsKeep ==
  ASSUME PlanInv, ResolveStart \/ buildReservationPlan
  PROVE  PlanInv'
<1>1. CASE ResolveStart
  <2>1. todo' = Sources(in) /\ (in.product # None => in.product \in DOMAIN Template)
    BY <1>1 DEF ResolveStart, Sources
  <2>2. out = Empty
    BY <1>1 DEF ResolveStart, PlanInv, CallInv
  <2>3. Resolves(in, out, todo')
    BY <2>1, <2>2 DEF Resolves, Empty
  <2>4. CallInv'
    BY <1>1, <2>1, <2>3 DEF ResolveStart, PlanInv, CallInv
  <2> QED BY <1>1, <2>4, StoredStays DEF PlanInv, ResolveStart
<1>2. CASE buildReservationPlan
  <2>1. Resolves(in, out, {}) /\ todo' = DOMAIN out /\ Grained(out, todo')
    BY <1>2 DEF buildReservationPlan, PlanInv, CallInv, Grained
  <2>2. CallInv'
    BY <1>2, <2>1 DEF buildReservationPlan, PlanInv, CallInv
  <2> QED BY <1>2, <2>2, StoredStays DEF PlanInv, buildReservationPlan
<1> QED BY <1>1, <1>2

\* The request is stored with all its body asks for.
LEMMA StoreKeeps ==
  ASSUME PlanInv, Store
  PROVE  PlanInv'
<1>1. /\ stage = "plan" /\ todo = {} /\ first' = in /\ answer' = "created" /\ stage' = "idle"
      /\ stored'.hash = computeBodyHash(in) /\ stored'.plan = out /\ UNCHANGED in
  BY DEF Store
<1>2. Resolves(in, out, {}) /\ Grained(out, {}) /\ validateCreateInput(in) /\ in \in Bodies
  BY <1>1 DEF PlanInv, CallInv
<1>3. CallInv'
  BY <1>1, <1>2 DEF CallInv
<1>4. StoredInv'
  BY <1>1, <1>2 DEF StoredInv, Hashed
<1> QED BY <1>3, <1>4 DEF PlanInv

\* The steps that decide a call before its plan is made.
LEMMA DecisionsKeep ==
  ASSUME PlanInv, (\E i \in Inputs : CreateRequest(i)) \/ Invalid \/ Validated \/ Replay \/ ResolveNothing
  PROVE  PlanInv'
<1>1. CASE \E i \in Inputs : CreateRequest(i)
  <2>1. CallInv'
    BY <1>1 DEF CreateRequest, PlanInv, CallInv, Bodies
  <2>2. StoredInv'
    BY <1>1 DEF CreateRequest, PlanInv, StoredInv, Hashed
  <2> QED BY <2>1, <2>2 DEF PlanInv
<1>2. CASE Validated
  <2>1. CallInv'
    BY <1>2 DEF Validated, PlanInv, CallInv
  <2> QED BY <1>2, <2>1, StoredStays DEF PlanInv, Validated
<1>3. CASE Invalid
  BY <1>3, AnswerKeeps DEF Invalid
<1>4. CASE Replay
  <2>1. validateCreateInput(in)
    BY <1>4 DEF Replay, PlanInv, CallInv
  <2> QED BY <1>4, <2>1, AnswerKeeps DEF Replay, Hashed
<1>5. CASE ResolveNothing
  BY <1>5, AnswerKeeps DEF ResolveNothing
<1> QED BY <1>1, <1>2, <1>3, <1>4, <1>5

-----------------------------------------------------------------------------
(* The theorems. *)

\* PlanInv holds at first, and every step keeps it.
LEMMA PlanAlways == Spec => []PlanInv
<1>1. Init => PlanInv
  BY DEF Init, PlanInv, CallInv, StoredInv, Hashed, Legacy, Bodies
<1>2. PlanInv /\ [Next]_vars => PlanInv'
  <2> SUFFICES ASSUME PlanInv, [Next]_vars PROVE PlanInv'
    OBVIOUS
  <2>1. CASE UNCHANGED vars
    BY <2>1 DEF vars, PlanInv, CallInv, StoredInv, Hashed
  <2>2. CASE Next
    BY <2>2, TemplateKeeps, LineKeeps, KindKeeps, LoopsKeep, StoreKeeps, DecisionsKeep DEF Next
  <2> QED BY <2>1, <2>2
<1> QED BY <1>1, <1>2, PTL DEF Spec

\* Amounts resolved from a validated body are the ones it asks for: no product
\* of template and quantity wrapped, and no line was left out or counted twice.
LEMMA ResolvedIsWanted ==
  ASSUME NEW i \in Bodies, NEW p, validateCreateInput(i), Resolves(i, p, {}), Sane(i)
  PROVE  /\ DOMAIN p = WantedKinds(i)
         /\ \A k \in DOMAIN p : p[k] = Wanted(i, k) /\ p[k] \in 1 .. maxAmount
<1>1. CASE i.product # None
  <2>1. DOMAIN p = DOMAIN Template[i.product] /\ WantedKinds(i) = DOMAIN Template[i.product]
    BY <1>1 DEF Resolves, Sources, WantedKinds
  <2>2. ASSUME NEW k \in DOMAIN p PROVE p[k] = Wanted(i, k)
    <3> DEFINE x == Template[i.product][k] * resolvedQuantity(i)
    <3>1. Template[i.product][k] \in 1 .. maxAmount /\ resolvedQuantity(i) \in 1 .. maxQuantity
      BY <1>1, <2>1, BodyTypes DEF Sane
    <3>2. x \in 1 .. Half - 1
      BY <3>1, ProductFits
    <3>3. p[k] = Int64(x) /\ Wanted(i, k) = x
      BY <1>1 DEF Resolves, Wanted
    <3> HIDE DEF x
    <3>4. Int64(x) = x
      BY <3>2, WidthAssumption DEF Int64
    <3> QED BY <3>3, <3>4
  <2> QED BY <2>1, <2>2 DEF Resolves
<1>2. CASE i.product = None
  <2>1. /\ DOMAIN p = {i.lines[n].kind : n \in DOMAIN i.lines}
        /\ \A n \in DOMAIN i.lines : p[i.lines[n].kind] = i.lines[n].amount
    BY <1>2 DEF Resolves, Sources
  <2>2. ASSUME NEW k \in DOMAIN p PROVE p[k] = Wanted(i, k)
    <3>1. \E n \in DOMAIN i.lines : i.lines[n].kind = k
      BY <2>1
    <3> DEFINE c == CHOOSE n \in DOMAIN i.lines : i.lines[n].kind = k
    <3>2. c \in DOMAIN i.lines /\ i.lines[c].kind = k
      BY <3>1
    <3>3. Wanted(i, k) = i.lines[c].amount
      BY <1>2 DEF Wanted
    <3> HIDE DEF c
    <3> QED BY <2>1, <3>2, <3>3
  <2> QED BY <1>2, <2>1, <2>2 DEF Resolves, WantedKinds
<1> QED BY <1>1, <1>2

\* The plan CreateRequest stores is what the body asked for, kind by kind, within
\* the limits and in whole grains, for any catalogue and any pools: the limits of
\* validateCreateInput keep the product of template and quantity from wrapping.
THEOREM PlansAreAsAsked == Spec => []PlanAsAsked
<1>1. PlanInv => PlanAsAsked
  <2> SUFFICES ASSUME PlanInv, Hashed, Sane(first)
               PROVE  /\ DOMAIN stored.plan = WantedKinds(first)
                      /\ \A k \in DOMAIN stored.plan :
                           /\ stored.plan[k] = Wanted(first, k)
                           /\ stored.plan[k] \in 1 .. maxAmount
                           /\ k \in DOMAIN MinGrain
                           /\ MinGrain[k] > 0 => stored.plan[k] % MinGrain[k] = 0
    BY DEF PlanAsAsked
  <2>1. /\ first \in Bodies /\ validateCreateInput(first) /\ Resolves(first, stored.plan, {})
        /\ Grained(stored.plan, {})
    BY DEF PlanInv, CallInv, StoredInv
  <2> QED BY <2>1, ResolvedIsWanted DEF Grained
<1> QED BY <1>1, PlanAlways, PTL

-----------------------------------------------------------------------------
(* The sort of computeBodyHash. *)

\* The lines of a validated body differ in their kinds, which are in order.
LEMMA LineFacts ==
  ASSUME NEW i \in Bodies, LinesValid(i.lines)
  PROVE  /\ Len(i.lines) \in Nat /\ DOMAIN i.lines = 1 .. Len(i.lines)
         /\ IsFiniteSet(DOMAIN i.lines) /\ Cardinality(DOMAIN i.lines) = Len(i.lines)
         /\ \A n \in DOMAIN i.lines :
              /\ i.lines[n] = [kind |-> i.lines[n].kind, amount |-> i.lines[n].amount]
              /\ i.lines[n].amount \in Int /\ KindOrder[i.lines[n].kind] \in Nat
         /\ \A n, m \in DOMAIN i.lines :
              KindOrder[i.lines[n].kind] = KindOrder[i.lines[m].kind] => m = n
<1> DEFINE L == [kind : STRING \cup {None}, amount : Int]
<1>1. i.lines \in Seq(L)
  <2>1. CASE i \in Inputs
    BY <2>1, InputAssumption
  <2>2. CASE i.lines = <<>>
    <3> HIDE DEF L
    <3> QED BY <2>2
  <2> QED BY <2>1, <2>2 DEF Bodies, NoInput
<1>2. Len(i.lines) \in Nat /\ DOMAIN i.lines = 1 .. Len(i.lines)
  BY <1>1
<1>3. IsFiniteSet(DOMAIN i.lines) /\ Cardinality(DOMAIN i.lines) = Len(i.lines)
  <2>1. /\ IsFiniteSet(1 .. Len(i.lines))
        /\ Cardinality(1 .. Len(i.lines)) = IF 1 > Len(i.lines) THEN 0 ELSE Len(i.lines) - 1 + 1
    BY <1>2, FS_Interval
  <2> QED BY <1>2, <2>1
<1>4. \A n \in DOMAIN i.lines : i.lines[n] \in L
  <2> HIDE DEF L
  <2> QED BY <1>1, <1>2
<1>5. \A n \in DOMAIN i.lines : i.lines[n].kind \in LineKinds \ {None}
  BY DEF LinesValid, LineKinds, Bodies, NoInput
<1>6. \A n, m \in DOMAIN i.lines : i.lines[m].kind = i.lines[n].kind => m = n
  BY DEF LinesValid
<1> QED BY <1>2, <1>3, <1>4, <1>5, <1>6, KindOrderAssumption

\* Among the lines of one validated body only the kinds matter.
LEMMA LessByKind ==
  ASSUME NEW i \in Bodies, LinesValid(i.lines), NEW n \in DOMAIN i.lines, NEW m \in DOMAIN i.lines
  PROVE  lineLess(i.lines[n], i.lines[m])
           <=> KindOrder[i.lines[n].kind] < KindOrder[i.lines[m].kind]
<1>1. i.lines[n].amount \in Int /\ KindOrder[i.lines[n].kind] \in Nat
  BY LineFacts
<1>2. i.lines[n].kind = i.lines[m].kind => n = m
  BY DEF LinesValid
<1> QED BY <1>1, <1>2 DEF lineLess

\* No two lines have the same number of lines before them.
LEMMA BeforeDiffers ==
  ASSUME NEW i \in Bodies, LinesValid(i.lines), NEW n \in DOMAIN i.lines, NEW m \in DOMAIN i.lines,
         Before(i.lines, n) = Before(i.lines, m)
  PROVE  n = m
<1> DEFINE less(x) == {j \in DOMAIN i.lines : lineLess(i.lines[j], i.lines[x])}
<1>1. ASSUME NEW x \in DOMAIN i.lines, NEW y \in DOMAIN i.lines,
             KindOrder[i.lines[x].kind] < KindOrder[i.lines[y].kind],
             Cardinality(less(x)) = Cardinality(less(y))
      PROVE  FALSE
  <2>0. \A j \in DOMAIN i.lines : KindOrder[i.lines[j].kind] \in Nat
    BY LineFacts
  <2>1. less(x) \subseteq less(y)
    <3> SUFFICES ASSUME NEW j \in DOMAIN i.lines, lineLess(i.lines[j], i.lines[x])
                 PROVE  lineLess(i.lines[j], i.lines[y])
      OBVIOUS
    <3>1. KindOrder[i.lines[j].kind] < KindOrder[i.lines[x].kind]
      BY LessByKind
    <3>2. KindOrder[i.lines[j].kind] < KindOrder[i.lines[y].kind]
      BY <1>1, <2>0, <3>1
    <3> QED BY <3>2, LessByKind
  <2>2. lineLess(i.lines[x], i.lines[y]) /\ ~lineLess(i.lines[x], i.lines[x])
    BY <1>1, <2>0, LessByKind
  <2>3. IsFiniteSet(less(y))
    BY LineFacts, FS_Subset
  <2>4. x \in less(y) /\ x \notin less(x)
    BY <2>2
  <2> HIDE DEF less
  <2> QED BY <1>1, <2>1, <2>3, <2>4, FS_Subset
<1>2. Cardinality(less(n)) = Cardinality(less(m))
  BY DEF Before
<1> HIDE DEF less
<1>3. /\ KindOrder[i.lines[n].kind] \in Nat /\ KindOrder[i.lines[m].kind] \in Nat
      /\ KindOrder[i.lines[n].kind] = KindOrder[i.lines[m].kind] => n = m
  BY LineFacts
<1>4. \/ KindOrder[i.lines[n].kind] < KindOrder[i.lines[m].kind]
      \/ KindOrder[i.lines[m].kind] < KindOrder[i.lines[n].kind]
      \/ n = m
  BY <1>3
<1> QED BY <1>1, <1>2, <1>4

\* Every place in the sorted lines is taken by one line.
LEMMA BeforeCovers ==
  ASSUME NEW i \in Bodies, LinesValid(i.lines)
  PROVE  /\ \A n \in DOMAIN i.lines : Before(i.lines, n) + 1 \in DOMAIN i.lines
         /\ \A m \in DOMAIN i.lines : \E n \in DOMAIN i.lines : Before(i.lines, n) + 1 = m
<1> DEFINE D == DOMAIN i.lines
           place == [n \in D |-> Before(i.lines, n) + 1]
<1>1. IsFiniteSet(D) /\ Cardinality(D) = Len(i.lines) /\ D = 1 .. Len(i.lines) /\ Len(i.lines) \in Nat
  BY LineFacts
<1>2. ASSUME NEW n \in D
      PROVE  Before(i.lines, n) \in Nat /\ Before(i.lines, n) + 1 \in D
  <2> DEFINE S == {j \in D : lineLess(i.lines[j], i.lines[n])}
  <2>1. n \notin S
    <3>1. KindOrder[i.lines[n].kind] \in Nat
      BY LineFacts
    <3>2. ~lineLess(i.lines[n], i.lines[n])
      BY <3>1, LessByKind
    <3> QED BY <3>2
  <2>2. S \subseteq D \ {n}
    BY <2>1
  <2>3. IsFiniteSet(D \ {n}) /\ Cardinality(D \ {n}) = Len(i.lines) - 1
    BY <1>1, <1>2, FS_RemoveElement
  <2>4. Before(i.lines, n) = Cardinality(S)
    BY DEF Before
  <2> HIDE DEF S
  <2>5. IsFiniteSet(S) /\ Cardinality(S) <= Len(i.lines) - 1
    BY <2>2, <2>3, FS_Subset
  <2>6. Cardinality(S) \in Nat
    BY <2>5, FS_CardinalityType
  <2> QED BY <1>1, <2>4, <2>5, <2>6
<1>3. place \in [D -> D]
  BY <1>2
<1>4. \A n, m \in D : place[n] = place[m] => n = m
  <2> SUFFICES ASSUME NEW n \in D, NEW m \in D, place[n] = place[m]
               PROVE  n = m
    OBVIOUS
  <2>1. Before(i.lines, n) + 1 = Before(i.lines, m) + 1
    OBVIOUS
  <2>2. Before(i.lines, n) = Before(i.lines, m)
    BY <1>2, <2>1
  <2> QED BY <2>2, BeforeDiffers
<1>5. place \in Injection(D, D)
  BY <1>3, <1>4 DEF Injection, IsInjective
<1>6. place \in Surjection(D, D)
  BY <1>1, <1>5, FS_Injection
<1>7. \A m \in D : \E n \in D : place[n] = m
  BY <1>6 DEF Surjection
<1> QED BY <1>2, <1>7

\* Sorted puts every line of a validated body at its place.
LEMMA SortedPlaces ==
  ASSUME NEW i \in Bodies, LinesValid(i.lines)
  PROVE  /\ DOMAIN Sorted(i.lines) = DOMAIN i.lines
         /\ \A n \in DOMAIN i.lines : Sorted(i.lines)[Before(i.lines, n) + 1] = i.lines[n]
<1> SUFFICES ASSUME NEW n \in DOMAIN i.lines
             PROVE  Sorted(i.lines)[Before(i.lines, n) + 1] = i.lines[n]
  BY DEF Sorted
<1> DEFINE m == Before(i.lines, n) + 1
           c == CHOOSE x \in DOMAIN i.lines : Before(i.lines, x) = m - 1
<1>1. m \in DOMAIN i.lines
  BY BeforeCovers
<1>2. Before(i.lines, n) \in Int
  <2>1. IsFiniteSet({j \in DOMAIN i.lines : lineLess(i.lines[j], i.lines[n])})
    BY LineFacts, FS_Subset
  <2> QED BY <2>1, FS_CardinalityType DEF Before
<1>3. Before(i.lines, n) = m - 1
  BY <1>2
<1>4. c \in DOMAIN i.lines /\ Before(i.lines, c) = m - 1
  BY <1>3
<1>5. Sorted(i.lines)[m] = i.lines[c]
  BY <1>1 DEF Sorted
<1> HIDE DEF c, m
<1>6. c = n
  BY <1>3, <1>4, BeforeDiffers
<1> QED BY <1>5, <1>6 DEF m

\* Sorting loses no line and adds none.
LEMMA SortedLines ==
  ASSUME NEW i \in Bodies, LinesValid(i.lines)
  PROVE  {Sorted(i.lines)[m] : m \in DOMAIN Sorted(i.lines)} = {i.lines[n] : n \in DOMAIN i.lines}
<1>1. ASSUME NEW n \in DOMAIN i.lines
      PROVE  \E m \in DOMAIN Sorted(i.lines) : Sorted(i.lines)[m] = i.lines[n]
  BY SortedPlaces, BeforeCovers
<1>2. ASSUME NEW m \in DOMAIN Sorted(i.lines)
      PROVE  \E n \in DOMAIN i.lines : Sorted(i.lines)[m] = i.lines[n]
  <2>1. PICK n \in DOMAIN i.lines : Before(i.lines, n) + 1 = m
    BY SortedPlaces, BeforeCovers
  <2> QED BY <2>1, SortedPlaces
<1> QED BY <1>1, <1>2

\* Two bodies with the same lines, in whatever order, are sorted into one
\* sequence.
LEMMA OneOrder ==
  ASSUME NEW i \in Bodies, LinesValid(i.lines), NEW j \in Bodies, LinesValid(j.lines),
         {i.lines[n] : n \in DOMAIN i.lines} = {j.lines[n] : n \in DOMAIN j.lines}
  PROVE  Sorted(i.lines) = Sorted(j.lines)
<1> DEFINE A == DOMAIN i.lines
           B == DOMAIN j.lines
           g == [n \in A |-> CHOOSE m \in B : j.lines[m] = i.lines[n]]
<1>1. ASSUME NEW n \in A
      PROVE  g[n] \in B /\ j.lines[g[n]] = i.lines[n]
  <2>1. \E m \in B : j.lines[m] = i.lines[n]
    OBVIOUS
  <2> QED BY <2>1
<1>2. g \in [A -> B]
  BY <1>1
<1>3. \A n, m \in A : i.lines[n] = i.lines[m] => n = m
  BY DEF LinesValid
<1>4. \A n, m \in B : j.lines[n] = j.lines[m] => n = m
  BY DEF LinesValid
<1>5. \A m \in B : \E n \in A : i.lines[n] = j.lines[m]
  OBVIOUS
<1>6. \A m \in B : \E n \in A : g[n] = m
  BY <1>1, <1>4, <1>5
<1>7. \A n, m \in A : g[n] = g[m] => n = m
  BY <1>1, <1>3
<1> HIDE DEF g
<1>8. IsFiniteSet(A) /\ Cardinality(A) = Cardinality(B)
  <2>1. g \in Bijection(A, B)
    BY <1>2, <1>6, <1>7 DEF Bijection, Injection, Surjection, IsInjective
  <2>2. ExistsBijection(A, B)
    BY <2>1 DEF ExistsBijection
  <2> QED BY <2>2, LineFacts, FS_Bijection
<1>9. A = B
  BY <1>8, LineFacts
<1>10. ASSUME NEW n \in A
       PROVE  Before(i.lines, n) = Before(j.lines, g[n])
  <2> DEFINE S == {x \in A : lineLess(i.lines[x], i.lines[n])}
             T == {x \in B : lineLess(j.lines[x], j.lines[g[n]])}
             h == [x \in S |-> g[x]]
  <2>1. j.lines[g[n]] = i.lines[n]
    BY <1>1, <1>10
  <2>2. \A x \in S : g[x] \in T
    BY <1>1, <2>1
  <2>3. \A y \in T : \E x \in S : g[x] = y
    BY <1>1, <1>6, <2>1
  <2>4. \A x, y \in S : g[x] = g[y] => x = y
    BY <1>7
  <2>5. h \in Bijection(S, T)
    <3>1. h \in [S -> T]
      BY <2>2
    <3>2. \A x, y \in S : h[x] = h[y] => x = y
      BY <2>4
    <3>3. \A y \in T : \E x \in S : h[x] = y
      BY <2>3
    <3> HIDE DEF h, S, T
    <3> QED BY <3>1, <3>2, <3>3 DEF Bijection, Injection, Surjection, IsInjective
  <2>6. IsFiniteSet(S)
    BY LineFacts, FS_Subset
  <2>7. Before(i.lines, n) = Cardinality(S) /\ Before(j.lines, g[n]) = Cardinality(T)
    BY DEF Before
  <2> HIDE DEF h, S, T
  <2>8. ExistsBijection(S, T)
    BY <2>5 DEF ExistsBijection
  <2> QED BY <2>6, <2>7, <2>8, FS_Bijection
<1>11. ASSUME NEW m \in A
       PROVE  Sorted(i.lines)[m] = Sorted(j.lines)[m]
  <2>1. PICK n \in A : Before(i.lines, n) + 1 = m
    BY BeforeCovers
  <2>2. Sorted(i.lines)[m] = i.lines[n]
    BY <2>1, SortedPlaces
  <2>3. g[n] \in B /\ j.lines[g[n]] = i.lines[n] /\ Before(j.lines, g[n]) + 1 = m
    BY <1>1, <1>10, <2>1
  <2>4. Sorted(j.lines)[m] = j.lines[g[n]]
    BY <2>3, SortedPlaces
  <2> QED BY <2>2, <2>3, <2>4
<1> QED BY <1>9, <1>11 DEF Sorted

-----------------------------------------------------------------------------
(* The fingerprint. *)

\* Validated bodies with one fingerprint resolve to the same amounts.
LEMMA SameHashSamePlan ==
  ASSUME NEW i \in Bodies, NEW j \in Bodies, validateCreateInput(i), validateCreateInput(j),
         NEW p, computeBodyHash(i) = computeBodyHash(j), Resolves(i, p, {})
  PROVE  Resolves(j, p, {})
<1>1. /\ i.product = j.product
      /\ i.product # None => resolvedQuantity(i) = resolvedQuantity(j)
      /\ i.product = None => Sorted(i.lines) = Sorted(j.lines)
  BY DEF computeBodyHash
<1>2. CASE i.product # None
  BY <1>1, <1>2 DEF Resolves, Sources
<1>3. CASE i.product = None
  <2> DEFINE L == {i.lines[n] : n \in DOMAIN i.lines}
  <2>1. DOMAIN p = {l.kind : l \in L} /\ \A l \in L : p[l.kind] = l.amount
    BY <1>3 DEF Resolves, Sources
  <2>2. L = {j.lines[n] : n \in DOMAIN j.lines}
    BY <1>1, <1>3, SortedLines DEF validateCreateInput
  <2> HIDE DEF L
  <2>3. /\ DOMAIN p = {j.lines[n].kind : n \in DOMAIN j.lines}
        /\ \A n \in DOMAIN j.lines : p[j.lines[n].kind] = j.lines[n].amount
    BY <2>1, <2>2
  <2> QED BY <1>1, <1>3, <2>3 DEF Resolves, Sources
<1> QED BY <1>2, <1>3


\* A call answered with the stored request asked for exactly its plan: the
\* fingerprint tells bodies apart whenever they ask for different things.
THEOREM ReplaysAskedTheSame == Spec => []ReplayAskedTheSame
<1>1. PlanInv => ReplayAskedTheSame
  <2> SUFFICES ASSUME PlanInv, answer = "replayed", Hashed, Sane(in)
               PROVE  /\ DOMAIN stored.plan = WantedKinds(in)
                      /\ \A k \in DOMAIN stored.plan : stored.plan[k] = Wanted(in, k)
    BY DEF ReplayAskedTheSame
  <2>1. /\ computeBodyHash(first) = computeBodyHash(in) /\ Resolves(first, stored.plan, {})
        /\ in \in Bodies /\ validateCreateInput(in)
        /\ first \in Bodies /\ validateCreateInput(first)
    BY DEF PlanInv, CallInv, StoredInv, Hashed
  <2>2. Resolves(in, stored.plan, {})
    BY <2>1, SameHashSamePlan
  <2> QED BY <2>1, <2>2, ResolvedIsWanted
<1> QED BY <1>1, PlanAlways, PTL

\* The lines of bodies that ask for the same are the same.
LEMMA SameLines ==
  ASSUME NEW i \in Bodies, LinesValid(i.lines), NEW j \in Bodies, LinesValid(j.lines),
         i.product = None, SameRequest(i, j), NEW n \in DOMAIN i.lines
  PROVE  \E m \in DOMAIN j.lines : j.lines[m] = i.lines[n]
<1> DEFINE k == i.lines[n].kind
<1>1. k \in WantedKinds(i) /\ j.product = None
  BY DEF WantedKinds, SameRequest
<1>2. PICK m \in DOMAIN j.lines : j.lines[m].kind = k
  BY <1>1 DEF WantedKinds, SameRequest
<1>3. ASSUME NEW b \in Bodies, LinesValid(b.lines), b.product = None,
             NEW x \in DOMAIN b.lines, b.lines[x].kind = k
      PROVE  Wanted(b, k) = b.lines[x].amount
  <2> DEFINE c == CHOOSE y \in DOMAIN b.lines : b.lines[y].kind = k
  <2>1. c \in DOMAIN b.lines /\ b.lines[c].kind = k
    BY <1>3
  <2>2. Wanted(b, k) = b.lines[c].amount
    BY <1>3 DEF Wanted
  <2> HIDE DEF c, k
  <2>3. c = x
    BY <1>3, <2>1 DEF LinesValid
  <2> QED BY <2>2, <2>3
<1>4. i.lines[n].amount = j.lines[m].amount
  BY <1>1, <1>2, <1>3 DEF SameRequest
<1> QED BY <1>2, <1>4, LineFacts

\* A factor that is not zero cancels.
LEMMA Cancel ==
  ASSUME NEW t \in Int, NEW q \in Int, NEW r \in Int, t # 0, t * q = t * r
  PROVE  q = r
<1>1. t * (q - r) = 0
  OBVIOUS
<1>2. q - r \in Int
  OBVIOUS
<1>3. \A d \in Int : t * d = 0 => d = 0
  OBVIOUS
<1> QED BY <1>1, <1>2, <1>3

\* Validated bodies that ask for the same have one fingerprint.
LEMMA SameHash ==
  ASSUME NEW i \in Bodies, NEW j \in Bodies, validateCreateInput(i), validateCreateInput(j),
         SameRequest(i, j), NEW p, Resolves(j, p, {})
  PROVE  computeBodyHash(i) = computeBodyHash(j)
<1>1. i.product = j.product
  BY DEF SameRequest
<1>2. CASE i.product # None
  <2> DEFINE t == Template[j.product]
  <2>1. PICK k \in DOMAIN t : t[k] * resolvedQuantity(i) = t[k] * resolvedQuantity(j)
    BY <1>1, <1>2 DEF SameRequest, WantedKinds, Wanted
  <2>2. resolvedQuantity(i) \in Int /\ resolvedQuantity(j) \in Int
    BY BodyTypes
  <2>3. t[k] \in Int /\ t[k] # 0
    <3>1. p[k] = Int64(t[k] * resolvedQuantity(j)) /\ p[k] \in 1 .. maxAmount
      BY <1>1, <1>2 DEF Resolves, Sources
    <3>2. Int64(0) = 0
      BY WidthAssumption DEF Int64
    <3>3. t[k] # 0
      BY <2>2, <3>1, <3>2
    <3>4. j.product \in DOMAIN Template
      BY <1>1, <1>2 DEF Resolves
    <3> QED BY <3>3, <3>4, InputAssumption
  <2> HIDE DEF t
  <2>4. resolvedQuantity(i) = resolvedQuantity(j)
    BY <2>1, <2>2, <2>3, Cancel
  <2> QED BY <1>1, <1>2, <2>4 DEF computeBodyHash
<1>3. CASE i.product = None
  <2>1. LinesValid(i.lines) /\ LinesValid(j.lines) /\ SameRequest(j, i)
    BY <1>1, <1>3 DEF validateCreateInput, SameRequest
  <2>2. \A n \in DOMAIN i.lines : \E m \in DOMAIN j.lines : j.lines[m] = i.lines[n]
    BY <1>3, <2>1, SameLines
  <2>3. \A n \in DOMAIN j.lines : \E m \in DOMAIN i.lines : i.lines[m] = j.lines[n]
    BY <1>1, <1>3, <2>1, SameLines
  <2>4. {i.lines[n] : n \in DOMAIN i.lines} = {j.lines[n] : n \in DOMAIN j.lines}
    BY <2>2, <2>3
  <2> QED BY <1>1, <1>3, <2>1, <2>4, OneOrder DEF computeBodyHash
<1> QED BY <1>2, <1>3

\* A retry that asks for what the stored request did is never refused as a reuse
\* of its key: in whatever order its lines come they are sorted into one
\* sequence, and no two quantities of a product ask for the same amounts.
THEOREM RetriesAreReplayed == Spec => []RetryIsReplayed
<1>1. PlanInv => RetryIsReplayed
  <2> SUFFICES ASSUME PlanInv, answer = "IDEMPOTENCY_KEY_REUSED", SameRequest(in, first)
               PROVE  FALSE
    BY DEF RetryIsReplayed
  <2>1. /\ in \in Bodies /\ validateCreateInput(in) /\ stored.hash # computeBodyHash(in)
        /\ first \in Bodies /\ validateCreateInput(first)
        /\ stored.hash = computeBodyHash(first) /\ Resolves(first, stored.plan, {})
    BY DEF PlanInv, CallInv, StoredInv
  <2> QED BY <2>1, SameHash
<1> QED BY <1>1, PlanAlways, PTL
=============================================================================
