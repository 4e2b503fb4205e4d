---------------------------- MODULE RequestPlan ----------------------------
(***************************************************************************)
(* What CreateRequest (internal/service/capacity.go) does with the body of *)
(* a call before the transaction: validation, fingerprint, the replay      *)
(* decision, and the expansion into a plan of one amount per resource kind.*)
(*                                                                         *)
(* The calls of one customer under one idempotency key, one after the      *)
(* other; their overlaps are in CapacityService, where the plan of a body  *)
(* is the constant Plan.  Go walks maps in any order, so the kinds of a    *)
(* template and of a plan are taken in any order.  Amounts are int64: Int64*)
(* wraps, at a Half that stands for 2^63.                                  *)
(***************************************************************************)
EXTENDS Integers, Sequences, FiniteSets

CONSTANTS
  Template,     \* products: Template[code] is the resource_template of code
  MinGrain,     \* resource_pools: MinGrain[kind] of the pool's policy
  Half,         \* int64 holds -Half .. Half - 1
  maxAmount, maxQuantity, maxLinesPerRequest,
  Inputs,       \* the bodies clients send, as CreateInput
  KindOrder,    \* KindOrder[kind]: where the string comes among the kinds
  None          \* no product_id, no stored request; the empty kind and hash ""

\* 2^53 - 1 times 1000 is below 2^63: the widths the limits were chosen for.
ASSUME WidthAssumption ==
  /\ Half \in Nat /\ maxAmount \in Nat /\ maxQuantity \in Nat \ {0}
  /\ maxLinesPerRequest \in Nat
  /\ maxAmount * maxQuantity < Half

\* An input has a product or lines; amounts and quantity are whatever the JSON
\* said.  A template that does not parse is read as an empty one.
ASSUME InputAssumption ==
  /\ \A p \in DOMAIN Template : \A k \in DOMAIN Template[p] : Template[p][k] \in Int
  /\ \A k \in DOMAIN MinGrain : MinGrain[k] \in Nat
  /\ \A i \in Inputs : /\ i.quantity \in Int
                       /\ i.lines \in Seq([kind : STRING \cup {None}, amount : Int])

LineKinds == UNION {{i.lines[n].kind : n \in DOMAIN i.lines} : i \in Inputs}

ASSUME KindOrderAssumption ==
  \A a, b \in LineKinds \ {None} :
    KindOrder[a] \in Nat /\ (KindOrder[a] = KindOrder[b] => a = b)

VARIABLES
  stage,    \* the next step of the call
  in,       \* the body of the call, kept until the next one
  todo,     \* what the loop the call is in has yet to visit
  out,      \* resolved amounts by kind
  answer,   \* what the last call was answered
  stored,   \* the request stored under the key, or None
  first     \* the body it was stored for

vars == <<stage, in, todo, out, answer, stored, first>>

NoInput == [product |-> None, quantity |-> 0, lines |-> <<>>]
Empty == [k \in {} |-> 0]

\* A row stored before migration 000003 has the empty body_hash; what it was
\* stored for is not known.
Legacy == [hash |-> None, plan |-> Empty, quantity |-> 1]

Init ==
  /\ stage = "idle"
  /\ in = NoInput
  /\ todo = {}
  /\ out = Empty
  /\ answer = "none"
  /\ stored \in {None, Legacy}
  /\ first = NoInput

-----------------------------------------------------------------------------
Int64(x) == IF x \in -Half .. Half - 1 THEN x ELSE ((x + Half) % (2 * Half)) - Half

LinesValid(lines) ==
  /\ Len(lines) <= maxLinesPerRequest
  /\ \A n \in DOMAIN lines :
       /\ lines[n].kind # None
       /\ \A m \in DOMAIN lines : lines[m].kind = lines[n].kind => m = n
       /\ lines[n].amount \in 1 .. maxAmount

\* Mutant: the quantity is not bounded.
validateCreateInputAnyQuantity(i) ==
  IF i.product # None THEN i.quantity >= 0 /\ i.lines = <<>> ELSE LinesValid(i.lines)

\* The empty body passes: it is refused when the plan is made.
validateCreateInput(i) ==
  IF i.product # None THEN i.quantity \in 0 .. maxQuantity /\ i.lines = <<>>
                      ELSE LinesValid(i.lines)

\* resolvedQuantity, and the default resolveLines and computeBodyHash apply.
resolvedQuantity(i) == IF i.quantity > 0 THEN i.quantity ELSE 1

\* The order of sort.Slice: by kind, then by amount.
lineLess(a, b) ==
  IF a.kind = b.kind THEN a.amount < b.amount ELSE KindOrder[a.kind] < KindOrder[b.kind]

\* How many lines sort.Slice puts before line n.
Before(lines, n) == Cardinality({j \in DOMAIN lines : lineLess(lines[j], lines[n])})

\* The lines of a validated body, which differ, as sort.Slice leaves them: at m
\* the line that has m - 1 others before it.
Sorted(lines) ==
  [m \in DOMAIN lines |-> lines[CHOOSE n \in DOMAIN lines : Before(lines, n) = m - 1]]

\* Mutant: the quantity is left out of the fingerprint.
computeBodyHashNoQuantity(i) ==
  [product |-> i.product, quantity |-> 0,
   lines |-> IF i.product # None THEN <<>> ELSE Sorted(i.lines)]

\* Mutant: the lines are not sorted.
computeBodyHashUnsorted(i) ==
  IF i.product # None
  THEN [product |-> i.product, quantity |-> resolvedQuantity(i), lines |-> <<>>]
  ELSE [product |-> None, quantity |-> 0, lines |-> i.lines]

\* bodyFingerprint, which its SHA-256 stands for.
computeBodyHash(i) ==
  IF i.product # None
  THEN [product |-> i.product, quantity |-> resolvedQuantity(i), lines |-> <<>>]
  ELSE [product |-> None, quantity |-> 0, lines |-> Sorted(i.lines)]

AddTo(k, amt) ==
  out' = [x \in DOMAIN out \cup {k} |->
            IF x # k THEN out[x]
            ELSE Int64((IF k \in DOMAIN out THEN out[k] ELSE 0) + amt)]

Answer(a) ==
  /\ answer' = a
  /\ stage' = "idle"
  /\ UNCHANGED <<in, todo, out, stored, first>>

-----------------------------------------------------------------------------
CreateRequest(i) ==
  /\ stage = "idle"
  /\ in' = i
  /\ answer' = "none"
  /\ out' = Empty
  /\ stage' = "validate"
  /\ UNCHANGED <<todo, stored, first>>

Invalid ==
  /\ stage = "validate"
  /\ ~validateCreateInput(in)
  /\ Answer("INVALID_INPUT")

Validated ==
  /\ stage = "validate"
  /\ validateCreateInput(in)
  /\ stage' = "replay"
  /\ UNCHANGED <<in, todo, out, answer, stored, first>>

\* checkIdempotentReplay and matchIdempotentBody: an empty hash matches any body.
Replay ==
  /\ stage = "replay"
  /\ stored # None
  /\ IF stored.hash \in {None, computeBodyHash(in)}
     THEN Answer("replayed") ELSE Answer("IDEMPOTENCY_KEY_REUSED")

\* GetByCode finds the product, or the body has lines.
ResolveStart ==
  /\ stage = "replay"
  /\ stored = None
  /\ IF in.product = None THEN in.lines # <<>> ELSE in.product \in DOMAIN Template
  /\ todo' = IF in.product = None THEN DOMAIN in.lines ELSE DOMAIN Template[in.product]
  /\ stage' = "resolve"
  /\ UNCHANGED <<in, out, answer, stored, first>>

ResolveNothing ==
  /\ stage = "replay"
  /\ stored = None
  /\ IF in.product = None
     THEN in.lines = <<>> /\ Answer("CONFLICT")
     ELSE in.product \notin DOMAIN Template /\ Answer("PRODUCT_NOT_FOUND")

\* One turn of the loop over the template.
ResolveTemplate(k) ==
  LET amt == Int64(Template[in.product][k] * resolvedQuantity(in)) IN
  /\ stage = "resolve"
  /\ in.product # None
  /\ k \in todo
  /\ IF amt <= 0 \/ amt > maxAmount
     THEN Answer("INVALID_INPUT")
     ELSE /\ AddTo(k, amt)
          /\ todo' = todo \ {k}
          /\ UNCHANGED <<stage, in, answer, stored, first>>

\* One turn of the loop over the lines.
ResolveLine(n) ==
  /\ stage = "resolve"
  /\ in.product = None
  /\ n \in todo
  /\ AddTo(in.lines[n].kind, in.lines[n].amount)
  /\ todo' = todo \ {n}
  /\ UNCHANGED <<stage, in, answer, stored, first>>

buildReservationPlan ==
  /\ stage = "resolve"
  /\ todo = {}
  /\ todo' = DOMAIN out
  /\ stage' = "plan"
  /\ UNCHANGED <<in, out, answer, stored, first>>

Aligned(k) == MinGrain[k] > 0 => out[k] % MinGrain[k] = 0

\* One turn of the loop over the resolved kinds.
PlanKind(k) ==
  /\ stage = "plan"
  /\ k \in todo
  /\ \/ k \notin DOMAIN MinGrain /\ Answer("INVALID_RESOURCE_KIND")
     \/ k \in DOMAIN MinGrain /\ ~Aligned(k) /\ Answer("CONFLICT")
     \/ /\ k \in DOMAIN MinGrain /\ Aligned(k)
        /\ todo' = todo \ {k}
        /\ UNCHANGED <<stage, in, out, answer, stored, first>>

\* The request row, with the plan its lines and holds carry.
Store ==
  /\ stage = "plan"
  /\ todo = {}
  /\ stored' = [hash |-> computeBodyHash(in), plan |-> out,
                quantity |-> resolvedQuantity(in)]
  /\ first' = in
  /\ answer' = "created"
  /\ stage' = "idle"
  /\ UNCHANGED <<in, todo, out>>

Next ==
  \/ \E i \in Inputs : CreateRequest(i)
  \/ Invalid \/ Validated \/ Replay \/ ResolveStart \/ ResolveNothing
  \/ \E k \in todo : ResolveTemplate(k) \/ ResolveLine(k) \/ PlanKind(k)
  \/ buildReservationPlan \/ Store

Spec == Init /\ [][Next]_vars

-----------------------------------------------------------------------------
(* What a client may rely on. *)

\* The product's amounts are in the range the widths were chosen for.  Nothing in
\* the code sees to it: a larger one can wrap into 1 .. maxAmount and be stored.
Sane(i) == i.product # None =>
  \A k \in DOMAIN Template[i.product] : Template[i.product][k] \in 1 .. maxAmount

\* The amount of kind k a body asks for, in unbounded arithmetic.
Wanted(i, k) ==
  IF i.product # None THEN Template[i.product][k] * resolvedQuantity(i)
  ELSE i.lines[CHOOSE n \in DOMAIN i.lines : i.lines[n].kind = k].amount

WantedKinds(i) ==
  IF i.product # None THEN DOMAIN Template[i.product]
  ELSE {i.lines[n].kind : n \in DOMAIN i.lines}

\* The stored row carries a fingerprint: it is not from before migration 000003.
Hashed == stored # None /\ stored.hash # None

\* The stored plan is what the body asked for, kind by kind, in amounts every
\* pool can count and in whole grains, although the product of template and
\* quantity is bounded only after it was computed.
PlanAsAsked ==
  Hashed /\ Sane(first) =>
    /\ DOMAIN stored.plan = WantedKinds(first)
    /\ \A k \in DOMAIN stored.plan :
         /\ stored.plan[k] = Wanted(first, k)
         /\ stored.plan[k] \in 1 .. maxAmount
         /\ k \in DOMAIN MinGrain
         /\ MinGrain[k] > 0 => stored.plan[k] % MinGrain[k] = 0

\* A call answered with the stored request asked for exactly its plan, unless the
\* row has no fingerprint: bodies that ask for different things never share one.
ReplayAskedTheSame ==
  answer = "replayed" /\ Hashed /\ Sane(in) =>
    /\ DOMAIN stored.plan = WantedKinds(in)
    /\ \A k \in DOMAIN stored.plan : stored.plan[k] = Wanted(in, k)

\* Two bodies name the same product, or none, and ask for the same amount of
\* each kind, of at least one.
SameRequest(i, j) ==
  /\ i.product = j.product
  /\ WantedKinds(i) = WantedKinds(j) /\ WantedKinds(i) # {}
  /\ \A k \in WantedKinds(i) : Wanted(i, k) = Wanted(j, k)

\* A retry that asks for what the stored request did is never refused as a reuse
\* of its key, however the client ordered the lines or wrote the quantity: the
\* sort of computeBodyHash makes one fingerprint of them.
RetryIsReplayed ==
  answer = "IDEMPOTENCY_KEY_REUSED" => ~SameRequest(in, first)
=============================================================================
