--------------------------- MODULE ResearchProofs ---------------------------
(***************************************************************************)
(* Theorems about the components of a research case, for every value of    *)
(* their constants: the budget of model calls (ModelBudget), the tree of   *)
(* prior judgments (JudgmentTree), the masking of a refused report         *)
(* (NumberMasking), what the stages of a thesis run read (ThesisRun), the  *)
(* executions and Cases of a research report (ResearchRun), and what the   *)
(* edits of a forward draft did (ForwardRevision).                         *)
(***************************************************************************)
EXTENDS ModelBudget, JudgmentTree, NumberMasking, ThesisRun, ResearchRun, ForwardRevision,
        SelectionsProofs, FiniteSetTheorems

-----------------------------------------------------------------------------
(* The budget.  What a single budget must satisfy is stated once (Sound);  *)
(* the invariant says it of the running budget and of the receipt, and     *)
(* adds that a call in flight has not been reported yet: this is what      *)
(* keeps reports <= calls, which restore() asks for.                       *)

WithinCeiling(b) == Ceiling # NoCeiling => b.reserved <= Ceiling \/ b.reserved = b.observed

Sound(b) ==
    /\ b \in Budget
    /\ Restorable(b)
    /\ WithinCeiling(b)

BudgetInv ==
    /\ Sound(budget)
    /\ running \in BOOLEAN /\ flight \in BOOLEAN
    /\ receipt # None => Sound(receipt)
    /\ flight => running /\ budget.reports < budget.calls /\ budget.blocked = "no"

---------------------------------------------------------------------------
(* Arithmetic. *)

\* Max of FiniteSetsExt, on the two amounts that record_usage() compares.
LEMMA MaxOfTwo ==
    ASSUME NEW a \in Nat, NEW b \in Nat
    PROVE  /\ Max({a, b}) \in Nat
           /\ Max({a, b}) >= a /\ Max({a, b}) >= b
           /\ Max({a, b}) = a \/ Max({a, b}) = b
<1>1. \E x \in {a, b} : \A y \in {a, b} : x >= y
  OBVIOUS
<1>2. Max({a, b}) \in {a, b} /\ \A y \in {a, b} : Max({a, b}) >= y
  BY <1>1 DEF Max
<1> QED
  BY <1>2

\* One more call costs one more base price.
LEMMA OneMoreCall ==
    ASSUME NEW c \in Nat
    PROVE  (c + 1) * Base = c * Base + Base /\ c * Base \in Nat
BY PriceAssumption

---------------------------------------------------------------------------
(* What one call does to a sound budget. *)

\* A new budget.
LEMMA EmptySound == Sound(Empty)
BY PriceAssumption, LimitAssumption
   DEF Sound, Empty, Budget, Block, Restorable, WithinCeiling

\* A reservation that was allowed keeps the ceiling and opens one report.
LEMMA ReserveSound ==
    ASSUME NEW b, Sound(b), NEW prompt \in Prompt, Reservable(b, prompt)
    PROVE  /\ Sound(Reserve(b, prompt))
           /\ Reserve(b, prompt).reports < Reserve(b, prompt).calls
           /\ Reserve(b, prompt).blocked = "no"
           /\ Reserve(b, prompt).calls >= b.calls
           /\ Reserve(b, prompt).reserved >= b.reserved
<1> DEFINE c == Reserve(b, prompt)
<1>1. b \in Budget /\ Restorable(b) /\ WithinCeiling(b)
  BY DEF Sound
<1>2. Upper(prompt) \in Nat /\ Upper(prompt) >= Base
  BY PriceAssumption DEF Upper
<1>3. /\ c \in Budget
      /\ c.calls = b.calls + 1 /\ c.reserved = b.reserved + Upper(prompt)
      /\ c.observed = b.observed /\ c.reports = b.reports /\ c.blocked = b.blocked
  <2>1. b.calls + 1 \in 0 .. MaxCalls
    BY <1>1, LimitAssumption DEF Reservable, Budget
  <2>2. b.reserved + Upper(prompt) \in Nat
    BY <1>1, <1>2 DEF Budget
  <2> QED
    BY <1>1, <2>1, <2>2 DEF Reserve, Budget
<1>4. b.calls \in Nat /\ b.reserved \in Nat /\ b.observed \in Nat /\ b.reports \in Nat
  BY <1>1 DEF Budget
<1>5. c.calls * Base = b.calls * Base + Base /\ b.calls * Base \in Nat
  BY <1>3, <1>4, OneMoreCall
<1>6. c.reserved >= c.calls * Base
  BY <1>1, <1>2, <1>3, <1>4, <1>5, PriceAssumption DEF Restorable
<1>7. Restorable(c)
  BY <1>1, <1>2, <1>3, <1>4, <1>6, LimitAssumption DEF Restorable, Reservable
<1>8. WithinCeiling(c)
  BY <1>3 DEF WithinCeiling, Reservable
<1> HIDE DEF c
<1> QED
  BY <1>1, <1>2, <1>3, <1>4, <1>7, <1>8 DEF Sound, Restorable, Reservable, c

\* A report raises what is observed and never takes back what is reserved.
LEMMA RecordSound ==
    ASSUME NEW b, Sound(b), b.reports < b.calls,
           NEW price \in Report, NEW over \in BOOLEAN, NEW cut \in BOOLEAN
    PROVE  /\ Sound(Record(b, price, over, cut))
           /\ Record(b, price, over, cut).calls = b.calls
           /\ Record(b, price, over, cut).reserved >= b.reserved
<1> DEFINE c == Record(b, price, over, cut)
<1>1. b \in Budget /\ Restorable(b) /\ WithinCeiling(b)
  BY DEF Sound
<1>2. price \in Nat
  BY PriceAssumption
<1>3. b.calls \in Nat /\ b.reserved \in Nat /\ b.observed \in Nat /\ b.reports \in Nat
  BY <1>1 DEF Budget
<1> DEFINE most == Max({b.reserved, b.observed + price})
<1>4. /\ most \in Nat /\ most >= b.reserved /\ most >= b.observed + price
      /\ most = b.reserved \/ most = b.observed + price
  BY <1>2, <1>3, MaxOfTwo
<1> HIDE DEF most
<1>5. /\ c.calls = b.calls /\ c.reserved = most
      /\ c.observed = b.observed + price /\ c.reports = b.reports + 1
  BY <1>1 DEF Record, Budget, most
<1>6. c \in Budget
  <2> DEFINE state == IF over THEN "overrun" ELSE IF cut THEN "truncated" ELSE b.blocked
  <2>1. state \in Block
    BY <1>1 DEF Budget, Block
  <2>2. b.reports + 1 \in Nat /\ b.observed + price \in Nat
    BY <1>2, <1>3
  <2>3. c = [b EXCEPT !.truncated = cut, !.reports = b.reports + 1,
                      !.observed = b.observed + price,
                      !.blocked = state, !.reserved = most]
    BY DEF Record, most
  <2> HIDE DEF c, state
  <2> QED
    BY <1>1, <1>4, <2>1, <2>2, <2>3 DEF Budget
<1>7. Restorable(c)
  <2>1. b.calls * Base \in Nat
    BY <1>3, OneMoreCall
  <2> QED
    BY <1>1, <1>3, <1>4, <1>5, <1>2, <2>1 DEF Restorable
<1>8. WithinCeiling(c)
  <2>1. CASE most = b.reserved /\ b.reserved <= Ceiling
    BY <2>1, <1>5 DEF WithinCeiling
  <2>2. CASE most = b.reserved /\ b.reserved = b.observed
    BY <2>2, <1>2, <1>3, <1>4, <1>5 DEF WithinCeiling
  <2>3. CASE most = b.observed + price
    BY <2>3, <1>5 DEF WithinCeiling
  <2> QED
    BY <1>1, <1>4, <2>1, <2>2, <2>3, LimitAssumption DEF WithinCeiling
<1> HIDE DEF c
<1>9. Sound(c) /\ c.calls = b.calls /\ c.reserved >= b.reserved
  BY <1>4, <1>5, <1>6, <1>7, <1>8 DEF Sound
<1> QED
  BY <1>9 DEF c

\* Lifting a block changes no amount.
LEMMA ReleaseSound ==
    ASSUME NEW b, Sound(b)
    PROVE  /\ Sound(Release(b))
           /\ Sound([Release(b) EXCEPT !.retried = TRUE])
           /\ Release(b).calls = b.calls /\ Release(b).reserved = b.reserved
           /\ [Release(b) EXCEPT !.retried = TRUE].calls = b.calls
           /\ [Release(b) EXCEPT !.retried = TRUE].reserved = b.reserved
BY DEF Sound, Release, Restorable, WithinCeiling, Budget, Block

---------------------------------------------------------------------------
(* The invariant. *)

\* The first state.
LEMMA BudgetInitInv == Init => BudgetInv
BY EmptySound DEF Init, BudgetInv

\* Every step of a run, of its end and of its restart.
LEMMA BudgetStepInv == BudgetInv /\ [Next]_vars => BudgetInv'
<1> SUFFICES ASSUME BudgetInv, [Next]_vars
             PROVE  BudgetInv'
  OBVIOUS
<1> USE DEF BudgetInv
<1>1. CASE Start
  BY <1>1, EmptySound DEF Start, Restored, Sound
<1>2. ASSUME NEW prompt \in Prompt, Send(prompt)
      PROVE  BudgetInv'
  BY <1>2, ReserveSound DEF Send, Sound
<1>3. ASSUME NEW price \in Report, NEW over \in BOOLEAN, NEW cut \in BOOLEAN,
             Answer(price, over, cut)
      PROVE  BudgetInv'
  BY <1>3, RecordSound DEF Answer, Sound
<1>4. CASE Lose
  BY <1>4 DEF Lose, Sound
<1>5. ASSUME NEW confirmed \in BOOLEAN, Unblock(confirmed)
      PROVE  BudgetInv'
  BY <1>5, ReleaseSound DEF Unblock, Sound
<1>6. ASSUME NEW confirmed \in BOOLEAN, UnblockOnce(confirmed)
      PROVE  BudgetInv'
  BY <1>6, ReleaseSound DEF UnblockOnce, Sound
<1>7. CASE Stop
  BY <1>7 DEF Stop, Sound
<1>8. CASE Kill
  BY <1>8 DEF Kill, Sound
<1>9. CASE UNCHANGED vars
  BY <1>9 DEF vars, Sound
<1> QED
  BY <1>1, <1>2, <1>3, <1>4, <1>5, <1>6, <1>7, <1>8, <1>9 DEF Next

\* The invariant holds always.
LEMMA BudgetInvariant == Spec => []BudgetInv
<1>1. Init => BudgetInv
  BY BudgetInitInv
<1>2. BudgetInv /\ [Next]_vars => BudgetInv'
  BY BudgetStepInv
<1> QED
  BY <1>1, <1>2, PTL DEF Spec

\* Every amount and counter of the budget keeps its type; above all, no run,
\* resumed however often, has more than max_calls calls (reserve, restore).
THEOREM TypeCorrect == Spec => []TypeOK
<1>1. BudgetInv => TypeOK
  BY DEF BudgetInv, Sound, TypeOK
<1> QED
  BY <1>1, BudgetInvariant, PTL

\* Every call is covered by its reservation, and so is all reported usage.
THEOREM CoveredAlways == Spec => []EveryCallCovered
<1>1. BudgetInv => EveryCallCovered
  BY DEF BudgetInv, Sound, Restorable, EveryCallCovered
<1> QED
  BY <1>1, BudgetInvariant, PTL

\* restore() never refuses a receipt that checkpoint() wrote.
THEOREM ReceiptsRestore == Spec => []ReceiptRestorable
<1>1. BudgetInv => ReceiptRestorable
  BY DEF BudgetInv, Sound, ReceiptRestorable
<1> QED
  BY <1>1, BudgetInvariant, PTL

\* No reservation passes the ceiling: what is above it was reported.
THEOREM CeilingAlways == Spec => []CeilingKept
<1>1. BudgetInv => CeilingKept
  BY DEF BudgetInv, Sound, WithinCeiling, CeilingKept
<1> QED
  BY <1>1, BudgetInvariant, PTL

---------------------------------------------------------------------------
(* The action properties. *)

\* No step of a run, and no resumption, forgets a call or a reservation.
THEOREM SpendingMonotone == Spec => SpendingOnlyGrows
<1> DEFINE Grows == (running' /\ Carried # None)
                       => budget'.calls >= Carried.calls /\ budget'.reserved >= Carried.reserved
<1>1. BudgetInv /\ [Next]_vars => [Grows]_vars
  <2> SUFFICES ASSUME BudgetInv, Next, running', Carried # None
               PROVE  budget'.calls >= Carried.calls /\ budget'.reserved >= Carried.reserved
    OBVIOUS
  <2>1. /\ budget.calls \in Nat /\ budget.reserved \in Nat
        /\ receipt # None => receipt.calls \in Nat /\ receipt.reserved \in Nat
    BY DEF BudgetInv, Sound, Budget
  <2> USE DEF Carried
  <2>2. CASE Start
    BY <2>1, <2>2 DEF Start, Restored
  <2>3. ASSUME NEW prompt \in Prompt, Send(prompt)
        PROVE  budget'.calls >= Carried.calls /\ budget'.reserved >= Carried.reserved
    BY <2>3, ReserveSound DEF Send, BudgetInv
  <2>4. ASSUME NEW price \in Report, NEW over \in BOOLEAN, NEW cut \in BOOLEAN,
               Answer(price, over, cut)
        PROVE  budget'.calls >= Carried.calls /\ budget'.reserved >= Carried.reserved
    BY <2>1, <2>4, RecordSound DEF Answer, BudgetInv
  <2>5. CASE Lose
    BY <2>1, <2>5 DEF Lose, BudgetInv
  <2>6. ASSUME NEW confirmed \in BOOLEAN, Unblock(confirmed) \/ UnblockOnce(confirmed)
        PROVE  budget'.calls >= Carried.calls /\ budget'.reserved >= Carried.reserved
    <3>1. running /\ Sound(budget)
      BY <2>6 DEF Unblock, UnblockOnce, BudgetInv
    <3>2. budget'.calls = budget.calls /\ budget'.reserved = budget.reserved
      BY <2>6, <3>1, ReleaseSound DEF Unblock, UnblockOnce
    <3> QED
      BY <2>1, <3>1, <3>2
  <2>7. ~Stop /\ ~Kill
    BY DEF Stop, Kill
  <2> QED
    BY <2>2, <2>3, <2>4, <2>5, <2>6, <2>7 DEF Next
<1> QED
  BY <1>1, BudgetInvariant, PTL DEF Spec, SpendingOnlyGrows

\* An untruncated answer above the limit blocks its run and the resumed ones.
THEOREM OverrunStays == Spec => OverrunIsFinal
<1> DEFINE Stays == (running' /\ Carried # None /\ Carried.blocked = "overrun" /\ ~Carried.truncated)
                       => budget'.blocked = "overrun"
<1>1. BudgetInv /\ [Next]_vars => [Stays]_vars
  <2> SUFFICES ASSUME BudgetInv, Next, running', Carried # None,
                      Carried.blocked = "overrun", ~Carried.truncated
               PROVE  budget'.blocked = "overrun"
    OBVIOUS
  <2> USE DEF Carried
  <2>1. CASE Start
    BY <2>1 DEF Start, Restored
  <2>2. ASSUME NEW prompt \in Prompt
        PROVE  ~Send(prompt)
    BY DEF Send, Reservable
  <2>3. ASSUME NEW price \in Report, NEW over \in BOOLEAN, NEW cut \in BOOLEAN
        PROVE  ~Answer(price, over, cut)
    BY DEF Answer, BudgetInv
  <2>4. CASE Lose
    BY <2>4 DEF Lose, BudgetInv
  <2>5. ASSUME NEW confirmed \in BOOLEAN
        PROVE  ~Unblock(confirmed) /\ ~UnblockOnce(confirmed)
    BY DEF Unblock, UnblockOnce, Releasable
  <2>6. ~Stop /\ ~Kill
    BY DEF Stop, Kill
  <2> QED
    BY <2>1, <2>2, <2>3, <2>4, <2>5, <2>6 DEF Next
<1> QED
  BY <1>1, BudgetInvariant, PTL DEF Spec, OverrunIsFinal

-----------------------------------------------------------------------------
(* The tree of priors.  The calls at work form a path from the task; what  *)
(* a call has left it has read; and what is in the cache stands, with      *)
(* everything below it.                                                    *)

\* Every judgment at hand, and the calls that read their priors.
Judged == {task} \union {judgments[n] : n \in DOMAIN judgments}
Call == [judgment : Judged, name : DOMAIN judgments \union {None}, left : Seq(DOMAIN judgments)]

\* A prior that was read: its edge was legal and its record evaluated.
Done(judgment, p) == EdgeLegal(judgment, p) /\ p \in cache

\* What a call has not left it has read; it is one of the task or of a record
\* below it, and waits for the call it made.
Reads(call) ==
    /\ ToSet(call.left) \subseteq ToSet(call.judgment.priors)
    /\ \A p \in ToSet(call.judgment.priors) \ ToSet(call.left) : Done(call.judgment, p)
InTree(call) ==
    \/ call.judgment = task
    \/ call.name \in Below(ToSet(task.priors)) /\ call.judgment = judgments[call.name]
Waits(call, inner) ==
    /\ call.left # <<>> /\ inner.name = Head(call.left) /\ inner.judgment = judgments[inner.name]
    /\ EdgeLegal(call.judgment, inner.name)

CallsStand(calls) ==
    /\ calls[1].judgment = task
    /\ \A i \in 1 .. Len(calls) : Reads(calls[i]) /\ InTree(calls[i])
    /\ \A i \in 1 .. Len(calls) - 1 : Waits(calls[i], calls[i + 1])

TreeTyped ==
    /\ \A judgment \in Judged : judgment.priors \in Seq(DOMAIN judgments)
    /\ frames \in Seq(Call) /\ Len(frames) >= 1
    /\ cache \subseteq DOMAIN judgments
    /\ verdict \in {"none", "accepted", "refused"}

TreeInv ==
    /\ TreeTyped
    /\ CallsStand(frames)
    /\ \A n \in cache : Evaluates(judgments[n]) /\ \A p \in ToSet(judgments[n].priors) : Done(judgments[n], p)
    /\ TreeSound

---------------------------------------------------------------------------
(* The records below some. *)

\* They hold these.
LEMMA BelowHolds ==
    ASSUME NEW names \in SUBSET DOMAIN judgments
    PROVE  names \subseteq Below(names)
BY DEF Below

\* They hold the priors of each of them.
LEMMA BelowClosed ==
    ASSUME NEW names \in SUBSET DOMAIN judgments, NEW n \in Below(names),
           ToSet(judgments[n].priors) \subseteq DOMAIN judgments
    PROVE  ToSet(judgments[n].priors) \subseteq Below(names)
BY DEF Below, Closed

\* They lie in every closed set of records that holds these.
LEMMA BelowLeast ==
    ASSUME NEW names, NEW s \in SUBSET DOMAIN judgments, names \subseteq s, Closed(s)
    PROVE  Below(names) \subseteq s
BY DEF Below

\* The elements of a sequence and of its tail.
LEMMA HeadAndTail ==
    ASSUME NEW S, NEW s \in Seq(S), s # <<>>
    PROVE  /\ Tail(s) \in Seq(S) /\ Head(s) \in S
           /\ ToSet(s) = {Head(s)} \union ToSet(Tail(s))
           /\ ToSet(s) \subseteq S
<1>1. Len(s) \in Nat \ {0} /\ DOMAIN s = 1 .. Len(s) /\ s \in [1 .. Len(s) -> S]
  BY EmptySeq, LenProperties
<1>2. /\ Head(s) = s[1] /\ Tail(s) \in Seq(S) /\ Len(Tail(s)) = Len(s) - 1
      /\ \A i \in 1 .. Len(Tail(s)) : Tail(s)[i] = s[i + 1]
  BY HeadTailProperties
<1>3. DOMAIN Tail(s) = 1 .. Len(s) - 1
  BY <1>2, LenProperties
<1>4. \A i \in 2 .. Len(s) : s[i] = Tail(s)[i - 1] /\ i - 1 \in 1 .. Len(s) - 1
  BY <1>1, <1>2
<1>5. ToSet(s) \subseteq {Head(s)} \union ToSet(Tail(s))
  <2> SUFFICES ASSUME NEW i \in 1 .. Len(s) PROVE s[i] \in {Head(s)} \union ToSet(Tail(s))
    BY <1>1 DEF ToSet
  <2>1. CASE i = 1
    BY <2>1, <1>2
  <2>2. CASE i # 1
    <3>1. i \in 2 .. Len(s) /\ i - 1 \in DOMAIN Tail(s)
      BY <2>2, <1>1, <1>3
    <3>2. s[i] = Tail(s)[i - 1]
      BY <3>1, <1>4
    <3> QED
      BY <3>1, <3>2 DEF ToSet
  <2> QED
    BY <2>1, <2>2
<1>6. {Head(s)} \union ToSet(Tail(s)) \subseteq ToSet(s)
  BY <1>1, <1>2, <1>3 DEF ToSet
<1> QED
  BY <1>1, <1>2, <1>5, <1>6 DEF ToSet

\* At the start only the task is read, and none of its priors was.
LEMMA TreeInitInv ==
    ASSUME TreeInit
    PROVE  TreeInv
<1>1. PICK forest \in Forests : judgments = forest.records /\ task = forest.task
  BY DEF TreeInit
<1>2. \A judgment \in Judged : judgment.priors \in Seq(DOMAIN judgments)
  BY <1>1, ForestsAssumption DEF Judged
<1>3. task \in Judged /\ task.priors \in Seq(DOMAIN judgments)
  BY <1>2 DEF Judged
<1> DEFINE first == [judgment |-> task, name |-> None, left |-> task.priors]
<1>4. first \in Call
  BY <1>3 DEF Call
<1>5. frames = <<first>> /\ cache = {} /\ verdict = "none"
  BY DEF TreeInit
<1>6. first.judgment = task /\ first.left = task.priors
  OBVIOUS
<1> HIDE DEF first
<1>7. Reads(first) /\ InTree(first)
  BY <1>6 DEF Reads, InTree
<1>8. frames \in Seq(Call) /\ Len(frames) = 1 /\ frames[1] = first
  BY <1>4, <1>5
<1>9. TreeTyped
  BY <1>2, <1>5, <1>8 DEF TreeTyped
<1> QED
  BY <1>5, <1>6, <1>7, <1>8, <1>9 DEF TreeInv, CallsStand, TreeSound

---------------------------------------------------------------------------
(* The steps.  The call at work, the last, is legal; a refusal is one of   *)
(* its judgment, and that lies in the tree.                                *)

\* The innermost call is one of the tree, with what it has read so far.
LEMMA AtWork ==
    ASSUME TreeInv
    PROVE  /\ Len(frames) \in Nat \ {0} /\ Frame = frames[Len(frames)]
           /\ Frame \in Call /\ Reads(Frame) /\ InTree(Frame)
           /\ \A i \in 1 .. Len(frames) : frames[i] \in Call
<1>1. frames \in Seq(Call) /\ Len(frames) >= 1
  BY DEF TreeInv, TreeTyped
<1>2. Len(frames) \in Nat \ {0} /\ \A i \in 1 .. Len(frames) : frames[i] \in Call
  BY <1>1, LenProperties, ElementOfSeq
<1>3. Frame = frames[Len(frames)]
  BY DEF Frame, Last
<1> QED
  BY <1>2, <1>3 DEF TreeInv, CallsStand

\* The priors of a judgment of the tree are below the task.
LEMMA PriorsBelow ==
    ASSUME TreeInv, NEW call \in Call, InTree(call)
    PROVE  /\ call.judgment.priors \in Seq(DOMAIN judgments)
           /\ ToSet(call.judgment.priors) \subseteq Below(ToSet(task.priors))
           /\ ToSet(task.priors) \in SUBSET DOMAIN judgments
<1>1. \A j \in Judged : j.priors \in Seq(DOMAIN judgments)
  BY DEF TreeInv, TreeTyped
<1>2. call.judgment \in Judged /\ task \in Judged
  BY DEF Call, Judged
<1>3. \A j \in Judged : ToSet(j.priors) \subseteq DOMAIN judgments
  BY <1>1, LenProperties DEF ToSet
<1>4. CASE call.judgment = task
  BY <1>1, <1>2, <1>3, <1>4, BelowHolds
<1>5. CASE call.name \in Below(ToSet(task.priors)) /\ call.judgment = judgments[call.name]
  BY <1>1, <1>2, <1>3, <1>5, BelowClosed
<1> QED
  BY <1>4, <1>5 DEF InTree

\* A judgment of the tree that does not stand refutes the task.
LEMMA Refuted ==
    ASSUME TreeInv, NEW call \in Call, InTree(call), ~Stands(call.judgment)
    PROVE  ~Stands(task) \/ \E n \in Below(ToSet(task.priors)) : ~Stands(judgments[n])
BY DEF InTree

\* What was read stays read.
LEMMA StaysRead ==
    ASSUME UNCHANGED <<judgments, task>>, cache \subseteq cache'
    PROVE  /\ \A j, p : Done(j, p) => Done(j, p)'
           /\ \A c : Reads(c) => Reads(c)'
           /\ \A c : InTree(c) => InTree(c)'
           /\ \A c, d : Waits(c, d) => Waits(c, d)'
           /\ \A j : Evaluates(j)' = Evaluates(j)
           /\ Call' = Call
<1>1. \A j, p : Done(j, p) => Done(j, p)'
  BY DEF Done, EdgeLegal
<1>2. \A c : Reads(c) => Reads(c)'
  BY <1>1 DEF Reads
<1>3. \A c : InTree(c) => InTree(c)'
  BY DEF InTree, Below, Closed
<1>4. \A c, d : Waits(c, d) => Waits(c, d)'
  BY DEF Waits, EdgeLegal
<1>5. \A j : Evaluates(j)' = Evaluates(j)
  BY DEF Evaluates, Used, Supported
<1>6. Call' = Call
  BY DEF Call, Judged
<1> QED
  BY <1>1, <1>2, <1>3, <1>4, <1>5, <1>6

\* Refusing keeps the invariant when a judgment of the tree does not stand.
LEMMA RefusalSound ==
    ASSUME TreeInv, NEW call \in Call, InTree(call), ~Stands(call.judgment),
           verdict' = "refused", UNCHANGED <<judgments, task, frames, cache>>
    PROVE  TreeInv'
<1>1. TreeSound'
  <2>1. ~Stands(task) \/ \E n \in Below(ToSet(task.priors)) : ~Stands(judgments[n])
    BY Refuted
  <2>2. Below(ToSet(task.priors))' = Below(ToSet(task.priors))
    BY DEF Below, Closed
  <2> QED
    BY <2>1, <2>2 DEF TreeSound, Stands, Evaluates, Used, Supported
<1>2. TreeTyped'
  BY DEF TreeInv, TreeTyped, Judged, Call
<1>3. /\ \A c : Reads(c) => Reads(c)'
      /\ \A c : InTree(c) => InTree(c)'
      /\ \A c, d : Waits(c, d) => Waits(c, d)'
  BY StaysRead
<1>4. \A n \in cache' : Evaluates(judgments[n])' /\ \A p \in ToSet(judgments'[n].priors) : Done(judgments[n], p)'
  <2>1. \A j, p : Done(j, p) => Done(j, p)'
    BY StaysRead
  <2>2. \A j : Evaluates(j)' = Evaluates(j)
    BY StaysRead
  <2> QED
    BY <2>1, <2>2 DEF TreeInv, Done, EdgeLegal, Evaluates, Used, Supported
<1> QED
  BY <1>1, <1>2, <1>3, <1>4 DEF TreeInv, CallsStand


\* The head of what is left is a legal prior of the call at work.
LEMMA NextPrior ==
    ASSUME TreeInv, Frame.left # <<>>
    PROVE  /\ Head(Frame.left) \in DOMAIN judgments
           /\ Head(Frame.left) \in ToSet(Frame.judgment.priors)
           /\ Head(Frame.left) \in Below(ToSet(task.priors))
           /\ Tail(Frame.left) \in Seq(DOMAIN judgments)
           /\ ToSet(Frame.left) = {Head(Frame.left)} \union ToSet(Tail(Frame.left))
<1>1. Frame \in Call /\ Reads(Frame) /\ InTree(Frame)
  BY AtWork
<1>2. Frame.left \in Seq(DOMAIN judgments)
  BY <1>1 DEF Call
<1>3. /\ Tail(Frame.left) \in Seq(DOMAIN judgments) /\ Head(Frame.left) \in DOMAIN judgments
      /\ ToSet(Frame.left) = {Head(Frame.left)} \union ToSet(Tail(Frame.left))
  BY <1>2, HeadAndTail
<1>4. Head(Frame.left) \in ToSet(Frame.judgment.priors)
  BY <1>1, <1>3 DEF Reads
<1>5. ToSet(Frame.judgment.priors) \subseteq Below(ToSet(task.priors))
  BY <1>1, PriorsBelow
<1> QED
  BY <1>3, <1>4, <1>5

\* A call that is waited for, once it is read, or that was read before: the
\* call goes on to its next prior.
LEMMA AdvanceReads ==
    ASSUME TreeInv, UNCHANGED <<judgments, task>>, cache \subseteq cache',
           NEW call \in Call, Reads(call), InTree(call), call.left # <<>>,
           EdgeLegal(call.judgment, Head(call.left)), Head(call.left) \in cache',
           NEW next, next = [call EXCEPT !.left = Tail(@)]
    PROVE  /\ next \in Call /\ Reads(next)' /\ InTree(next)'
           /\ next.judgment = call.judgment /\ next.name = call.name
<1>1. call.left \in Seq(DOMAIN judgments)
  BY DEF Call
<1>2. /\ Tail(call.left) \in Seq(DOMAIN judgments)
      /\ ToSet(call.left) = {Head(call.left)} \union ToSet(Tail(call.left))
  BY <1>1, HeadAndTail
<1>3. /\ next \in Call /\ next.judgment = call.judgment /\ next.name = call.name
      /\ next.left = Tail(call.left)
  BY <1>2 DEF Call
<1>4. Done(call.judgment, Head(call.left))'
  BY DEF Done, EdgeLegal
<1>5. \A p \in ToSet(call.judgment.priors) \ ToSet(next.left) : Done(call.judgment, p)'
  <2> SUFFICES ASSUME NEW p \in ToSet(call.judgment.priors) \ ToSet(next.left)
               PROVE  Done(call.judgment, p)'
    OBVIOUS
  <2>1. CASE p = Head(call.left)
    BY <2>1, <1>4 DEF Done, EdgeLegal
  <2>2. CASE p # Head(call.left)
    <3>1. Done(call.judgment, p)
      BY <2>2, <1>2, <1>3 DEF Reads
    <3> QED
      BY <3>1, StaysRead
  <2> QED
    BY <2>1, <2>2
<1>6. Reads(next)'
  BY <1>2, <1>3, <1>5 DEF Reads
<1>7. InTree(next)'
  <2>1. InTree(next)
    BY <1>3 DEF InTree
  <2> QED
    BY <2>1, StaysRead
<1> QED
  BY <1>3, <1>6, <1>7

\* What the cache and the verdict promise does not change with the calls.
LEMMA CacheStays ==
    ASSUME TreeInv, UNCHANGED <<judgments, task, cache>>
    PROVE  \A n \in cache' : Evaluates(judgments[n])' /\ \A p \in ToSet(judgments[n].priors)' : Done(judgments[n], p)'
<1>1. \A j, p : Done(j, p) => Done(j, p)'
  BY StaysRead
<1>2. \A j : Evaluates(j)' = Evaluates(j)
  BY StaysRead
<1> QED
  BY <1>1, <1>2 DEF TreeInv, Done, EdgeLegal, Evaluates, Used, Supported

\* The calls but the last, with what the last of them has left advanced.
LEMMA AdvancedCalls ==
    ASSUME NEW C, NEW calls \in Seq(C), Len(calls) >= 1, NEW next \in C,
           next = [calls[Len(calls)] EXCEPT !.left = Tail(@)]
    PROVE  /\ Advanced(calls) \in Seq(C) /\ Len(Advanced(calls)) = Len(calls)
           /\ \A i \in 1 .. Len(calls) - 1 : Advanced(calls)[i] = calls[i]
           /\ Advanced(calls)[Len(calls)] = next
<1>1. Len(calls) \in Nat \ {0}
  BY LenProperties
<1>2. Advanced(calls) = [calls EXCEPT ![Len(calls)] = next]
  BY DEF Advanced
<1>3. /\ [calls EXCEPT ![Len(calls)] = next] \in Seq(C)
      /\ Len([calls EXCEPT ![Len(calls)] = next]) = Len(calls)
      /\ \A j \in 1 .. Len(calls) :
            [calls EXCEPT ![Len(calls)] = next][j] = IF j = Len(calls) THEN next ELSE calls[j]
  BY <1>1, ExceptSeq
<1> QED
  BY <1>1, <1>2, <1>3


\* The calls of the next state, once each of them is legal there.
LEMMA NextCalls ==
    ASSUME TreeInv, UNCHANGED <<judgments, task, verdict>>, verdict = "none",
           cache \subseteq cache', cache' \subseteq DOMAIN judgments,
           \A n \in cache' : Evaluates(judgments[n])' /\ \A p \in ToSet(judgments[n].priors)' : Done(judgments[n], p)',
           NEW calls \in Seq(Call), frames' = calls, Len(calls) >= 1, calls[1].judgment = task,
           \A i \in 1 .. Len(calls) : Reads(calls[i])' /\ InTree(calls[i])',
           \A i \in 1 .. Len(calls) - 1 : Waits(calls[i], calls[i + 1])
    PROVE  TreeInv'
<1>1. Call' = Call /\ \A i \in 1 .. Len(calls) - 1 : Waits(calls[i], calls[i + 1])'
  BY StaysRead
<1>2. CallsStand(calls)'
  BY <1>1 DEF CallsStand
<1>3. CallsStand(frames)'
  BY <1>2 DEF CallsStand
<1>4. TreeTyped'
  BY <1>1 DEF TreeInv, TreeTyped, Judged
<1> QED
  BY <1>3, <1>4 DEF TreeInv, TreeSound

\* The last call goes on to its next prior, and the others wait as they did.
LEMMA AdvanceKeeps ==
    ASSUME TreeInv, UNCHANGED <<judgments, task, verdict>>, verdict = "none",
           cache \subseteq cache', cache' \subseteq DOMAIN judgments,
           \A m \in cache' : Evaluates(judgments[m])' /\ \A p \in ToSet(judgments[m].priors)' : Done(judgments[m], p)',
           NEW n \in 1 .. Len(frames), NEW calls \in Seq(Call), Len(calls) = n,
           \A i \in 1 .. n : calls[i] = frames[i],
           frames[n].left # <<>>, Head(frames[n].left) \in cache',
           EdgeLegal(frames[n].judgment, Head(frames[n].left)),
           frames' = Advanced(calls)
    PROVE  TreeInv'
<1>1. PICK call : call = frames[n]
  OBVIOUS
<1>2. /\ Len(frames) \in Nat \ {0} /\ call \in Call /\ Reads(call) /\ InTree(call) /\ calls[n] = call
      /\ \A i \in 1 .. Len(frames) : frames[i] \in Call /\ Reads(frames[i]) /\ InTree(frames[i])
      /\ \A i \in 1 .. Len(frames) - 1 : Waits(frames[i], frames[i + 1])
      /\ frames[1].judgment = task
  <2>1. Len(frames) \in Nat \ {0} /\ \A i \in 1 .. Len(frames) : frames[i] \in Call
    BY AtWork
  <2>2. CallsStand(frames)
    BY DEF TreeInv
  <2> QED
    BY <1>1, <2>1, <2>2 DEF CallsStand
<1>3. PICK next : next = [call EXCEPT !.left = Tail(@)]
  OBVIOUS
<1>4. call.left # <<>> /\ EdgeLegal(call.judgment, Head(call.left)) /\ Head(call.left) \in cache'
  BY <1>1
<1>5. /\ next \in Call /\ Reads(next)' /\ InTree(next)'
      /\ next.judgment = call.judgment /\ next.name = call.name
  <2>1. UNCHANGED <<judgments, task>>
    OBVIOUS
  <2> QED
    BY <2>1, <1>2, <1>3, <1>4, AdvanceReads
<1>6. PICK after : after = Advanced(calls)
  OBVIOUS
<1>7. /\ after \in Seq(Call) /\ Len(after) = n
      /\ \A i \in 1 .. n - 1 : after[i] = frames[i]
      /\ after[n] = next
  <2>1. next = [calls[Len(calls)] EXCEPT !.left = Tail(@)] /\ Len(calls) >= 1
    BY <1>2, <1>3
  <2>2. /\ after \in Seq(Call) /\ Len(after) = Len(calls)
        /\ \A i \in 1 .. Len(calls) - 1 : after[i] = calls[i]
        /\ after[Len(calls)] = next
    BY <2>1, <1>5, <1>6, AdvancedCalls
  <2> QED
    BY <2>2, <1>2
<1>8. \A i \in 1 .. Len(after) : Reads(after[i])' /\ InTree(after[i])'
  <2> SUFFICES ASSUME NEW i \in 1 .. n PROVE Reads(after[i])' /\ InTree(after[i])'
    BY <1>7
  <2>1. CASE i = n
    BY <2>1, <1>5, <1>7
  <2>2. CASE i # n
    <3>1. after[i] = frames[i] /\ Reads(frames[i]) /\ InTree(frames[i])
      BY <2>2, <1>2, <1>7
    <3>2. Reads(after[i]) /\ InTree(after[i])
      BY <3>1
    <3> QED
      BY <3>2, StaysRead
  <2> QED
    BY <2>1, <2>2
<1>9. \A i \in 1 .. Len(after) - 1 : Waits(after[i], after[i + 1])
  <2> SUFFICES ASSUME NEW i \in 1 .. n - 1 PROVE Waits(after[i], after[i + 1])
    BY <1>7
  <2>1. Waits(frames[i], frames[i + 1]) /\ after[i] = frames[i]
    BY <1>2, <1>7
  <2>2. CASE i + 1 = n
    BY <2>1, <2>2, <1>1, <1>5, <1>7 DEF Waits
  <2>3. CASE i + 1 # n
    BY <2>1, <2>3, <1>2, <1>7
  <2> QED
    BY <2>2, <2>3
<1>10. after[1].judgment = task
  BY <1>1, <1>2, <1>5, <1>7
<1>11. frames' = after /\ Len(after) >= 1
  BY <1>6, <1>7
<1> QED
  BY <1>7, <1>8, <1>9, <1>10, <1>11, NextCalls

\* The next prior comes from the cache, is called, or is refused.
LEMMA DescendInv ==
    ASSUME TreeInv, Descend
    PROVE  TreeInv'
<1>1. PICK name : name = Head(Frame.left)
  OBVIOUS
<1>2. /\ verdict = "none" /\ Frame.left # <<>>
      /\ judgments' = judgments /\ task' = task /\ cache' = cache
  BY DEF Descend
<1>3. /\ Len(frames) \in Nat \ {0} /\ Frame = frames[Len(frames)]
      /\ Frame \in Call /\ Reads(Frame) /\ InTree(Frame)
      /\ \A i \in 1 .. Len(frames) : frames[i] \in Call /\ Reads(frames[i]) /\ InTree(frames[i])
      /\ \A i \in 1 .. Len(frames) - 1 : Waits(frames[i], frames[i + 1])
      /\ frames[1].judgment = task /\ frames \in Seq(Call)
      /\ cache \subseteq DOMAIN judgments
  BY AtWork DEF TreeInv, CallsStand, TreeTyped
<1>4. /\ name \in DOMAIN judgments /\ name \in ToSet(Frame.judgment.priors)
      /\ name \in Below(ToSet(task.priors))
  BY <1>1, <1>2, NextPrior
<1>5. \A n \in cache' : Evaluates(judgments[n])' /\ \A p \in ToSet(judgments[n].priors)' : Done(judgments[n], p)'
  BY <1>2, CacheStays
<1>6. CASE ~EdgeLegal(Frame.judgment, name)
  <2>1. ~Stands(Frame.judgment)
    BY <1>4, <1>6 DEF Stands, EdgeLegal
  <2>2. verdict' = "refused" /\ frames' = frames
    BY <1>1, <1>6 DEF Descend
  <2> QED
    BY <2>1, <2>2, <1>2, <1>3, RefusalSound
<1>7. CASE EdgeLegal(Frame.judgment, name) /\ name \in cache
  <2>1. verdict' = verdict /\ frames' = Advanced(frames)
    BY <1>1, <1>7 DEF Descend
  <2>2. PICK n \in 1 .. Len(frames) : n = Len(frames)
    BY <1>3
  <2>3. frames[n].left # <<>> /\ Head(frames[n].left) \in cache' /\ EdgeLegal(frames[n].judgment, Head(frames[n].left))
    BY <2>2, <1>1, <1>2, <1>3, <1>7
  <2> QED
    BY <2>1, <2>2, <2>3, <1>2, <1>3, <1>5, AdvanceKeeps
<1>8. CASE EdgeLegal(Frame.judgment, name) /\ name \notin cache
  <2>1. PICK inner : inner = [judgment |-> judgments[name], name |-> name, left |-> judgments[name].priors]
    OBVIOUS
  <2>2. verdict' = verdict /\ frames' = Append(frames, inner)
    BY <2>1, <1>1, <1>8 DEF Descend
  <2>3. judgments[name] \in Judged /\ judgments[name].priors \in Seq(DOMAIN judgments)
    BY <1>4 DEF TreeInv, TreeTyped, Judged
  <2>4. inner \in Call /\ inner.name = name /\ inner.judgment = judgments[name] /\ inner.left = judgments[name].priors
    BY <2>1, <2>3, <1>4 DEF Call
  <2>5. Reads(inner) /\ InTree(inner)
    BY <2>4, <1>4 DEF Reads, InTree
  <2>6. Waits(Frame, inner)
    BY <2>4, <1>1, <1>2, <1>8 DEF Waits
  <2>7. PICK calls : calls = Append(frames, inner)
    OBVIOUS
  <2>8. /\ calls \in Seq(Call) /\ Len(calls) = Len(frames) + 1
        /\ \A i \in 1 .. Len(frames) : calls[i] = frames[i]
        /\ calls[Len(frames) + 1] = inner
    BY <2>4, <2>7, <1>3, AppendProperties
  <2>9. \A i \in 1 .. Len(calls) : Reads(calls[i]) /\ InTree(calls[i])
    <3> SUFFICES ASSUME NEW i \in 1 .. Len(frames) + 1 PROVE Reads(calls[i]) /\ InTree(calls[i])
      BY <2>8
    <3>1. CASE i = Len(frames) + 1
      BY <3>1, <2>5, <2>8
    <3>2. CASE i # Len(frames) + 1
      <4>1. i \in 1 .. Len(frames)
        BY <3>2, <1>3
      <4> QED
        BY <4>1, <1>3, <2>8
    <3> QED
      BY <3>1, <3>2
  <2>10. \A i \in 1 .. Len(calls) : Reads(calls[i])' /\ InTree(calls[i])'
    BY <2>9, <1>2, StaysRead
  <2>11. \A i \in 1 .. Len(calls) - 1 : Waits(calls[i], calls[i + 1])
    <3> SUFFICES ASSUME NEW i \in 1 .. Len(frames) PROVE Waits(calls[i], calls[i + 1])
      BY <2>8, <1>3
    <3>1. CASE i = Len(frames)
      BY <3>1, <2>6, <2>8, <1>3
    <3>2. CASE i # Len(frames)
      <4>1. i \in 1 .. Len(frames) - 1 /\ i + 1 \in 1 .. Len(frames)
        BY <3>2, <1>3
      <4> QED
        BY <4>1, <1>3, <2>8
    <3> QED
      BY <3>1, <3>2
  <2>12. calls[1].judgment = task /\ Len(calls) >= 1 /\ frames' = calls
    BY <2>2, <2>7, <2>8, <1>3
  <2> QED
    BY <2>2, <2>8, <2>10, <2>11, <2>12, <1>2, <1>3, <1>5, NextCalls
<1> QED
  BY <1>6, <1>7, <1>8

\* A record whose priors were all read joins the cache, or is refused.
LEMMA EvaluateInv ==
    ASSUME TreeInv, Evaluate
    PROVE  TreeInv'
<1>1. /\ verdict = "none" /\ Frame.left = <<>> /\ Len(frames) > 1
      /\ judgments' = judgments /\ task' = task
  BY DEF Evaluate
<1>2. /\ Len(frames) \in Nat \ {0} /\ Frame = frames[Len(frames)]
      /\ Frame \in Call /\ Reads(Frame) /\ InTree(Frame)
      /\ \A i \in 1 .. Len(frames) : frames[i] \in Call
      /\ \A i \in 1 .. Len(frames) - 1 : Waits(frames[i], frames[i + 1])
      /\ frames \in Seq(Call) /\ cache \subseteq DOMAIN judgments
  BY AtWork DEF TreeInv, CallsStand, TreeTyped
<1>3. CASE ~Evaluates(Frame.judgment)
  <2>1. ~Stands(Frame.judgment)
    BY <1>3 DEF Stands
  <2>2. verdict' = "refused" /\ frames' = frames /\ cache' = cache
    BY <1>3 DEF Evaluate
  <2> QED
    BY <2>1, <2>2, <1>1, <1>2, RefusalSound
<1>4. CASE Evaluates(Frame.judgment)
  <2>1. /\ verdict' = verdict /\ frames' = Advanced(Front(frames))
        /\ cache' = cache \union {Frame.name}
    BY <1>4 DEF Evaluate
  <2>2. PICK n \in 1 .. Len(frames) : n = Len(frames) - 1 /\ n + 1 = Len(frames)
    <3>1. Len(frames) - 1 \in 1 .. Len(frames) /\ (Len(frames) - 1) + 1 = Len(frames)
      BY <1>1, <1>2
    <3> QED
      BY <3>1
  <2>3. Waits(frames[n], Frame)
    BY <2>2, <1>1, <1>2
  <2>4. /\ frames[n].left # <<>> /\ Head(frames[n].left) = Frame.name
        /\ Frame.judgment = judgments[Frame.name] /\ EdgeLegal(frames[n].judgment, Frame.name)
    BY <2>3 DEF Waits
  <2>5. Frame.name \in DOMAIN judgments
    <3>1. frames[n].left \in Seq(DOMAIN judgments)
      BY <2>2, <1>2 DEF Call
    <3> QED
      BY <3>1, <2>4, HeadAndTail
  <2>6. \A p \in ToSet(Frame.judgment.priors) : Done(Frame.judgment, p)
    BY <1>1, <1>2 DEF Reads, ToSet
  <2>7. cache \subseteq cache' /\ cache' \subseteq DOMAIN judgments /\ Frame.name \in cache'
    BY <2>1, <2>5, <1>2
  <2>8. /\ \A j, p : Done(j, p) => Done(j, p)'
        /\ \A j : Evaluates(j)' = Evaluates(j)
    BY <2>7, <1>1, StaysRead
  <2>9. ASSUME NEW m \in cache'
        PROVE  Evaluates(judgments[m])' /\ \A p \in ToSet(judgments[m].priors)' : Done(judgments[m], p)'
    <3>1. Evaluates(judgments[m]) /\ \A p \in ToSet(judgments[m].priors) : Done(judgments[m], p)
      <4>1. CASE m = Frame.name
        BY <4>1, <2>4, <2>6, <1>4
      <4>2. CASE m # Frame.name
        BY <4>2, <2>1 DEF TreeInv
      <4> QED
        BY <4>1, <4>2
    <3>2. PICK j : j = judgments[m]
      OBVIOUS
    <3>3. Evaluates(j)' /\ \A p \in ToSet(j.priors) : Done(j, p)'
      BY <3>1, <3>2, <2>8
    <3> QED
      BY <3>2, <3>3, <1>1 DEF Evaluates, Used, Supported, Done, EdgeLegal
  <2>10. PICK calls : calls = Front(frames)
    OBVIOUS
  <2>11. calls \in Seq(Call) /\ Len(calls) = n /\ \A i \in 1 .. n : calls[i] = frames[i]
    <3>1. calls = SubSeq(frames, 1, n)
      BY <2>2, <2>10 DEF Front
    <3>2. \A i \in 1 .. n : frames[i] \in Call
      BY <2>2, <1>2
    <3> QED
      BY <3>1, <3>2, <2>2, SubSeqProperties
  <2> QED
    BY <2>1, <2>2, <2>4, <2>7, <2>9, <2>10, <2>11, <1>1, AdvanceKeeps
<1> QED
  BY <1>3, <1>4

\* The task is judged once everything below it was read.
LEMMA JudgeInv ==
    ASSUME TreeInv, Judge
    PROVE  TreeInv'
<1>1. /\ verdict = "none" /\ Frame.left = <<>> /\ Len(frames) = 1
      /\ judgments' = judgments /\ task' = task /\ frames' = frames /\ cache' = cache
  BY DEF Judge
<1>2. /\ Frame = frames[1] /\ Frame.judgment = task /\ Reads(Frame) /\ InTree(Frame) /\ Frame \in Call
      /\ cache \subseteq DOMAIN judgments
  BY <1>1, AtWork DEF TreeInv, CallsStand, TreeTyped
<1>3. CASE ~Evaluates(task)
  <2>1. ~Stands(Frame.judgment) /\ verdict' = "refused"
    BY <1>2, <1>3 DEF Stands, Judge
  <2> QED
    BY <2>1, <1>1, <1>2, RefusalSound
<1>4. CASE Evaluates(task)
  <2>1. verdict' = "accepted"
    BY <1>4 DEF Judge
  <2>2. \A p \in ToSet(task.priors) : Done(task, p)
    BY <1>1, <1>2 DEF Reads, ToSet
  <2>3. Stands(task) /\ ToSet(task.priors) \subseteq cache
    BY <2>2, <1>4 DEF Stands, Done, EdgeLegal
  <2>4. \A n \in cache : Stands(judgments[n]) /\ ToSet(judgments[n].priors) \subseteq cache
    BY DEF TreeInv, Stands, Done, EdgeLegal
  <2>5. Below(ToSet(task.priors)) \subseteq cache
    BY <2>3, <2>4, <1>2, BelowLeast DEF Closed
  <2>6. Below(ToSet(task.priors))' = Below(ToSet(task.priors))
    BY <1>1 DEF Below, Closed
  <2>7. TreeSound'
    BY <2>1, <2>3, <2>4, <2>5, <2>6, <1>1 DEF TreeSound, Stands, Evaluates, Used, Supported
  <2>8. Call' = Call
    BY <1>1 DEF Call, Judged
  <2>9. TreeTyped'
    BY <2>1, <2>8, <1>1 DEF TreeInv, TreeTyped, Judged
  <2>10. CallsStand(frames)'
    <3>1. /\ \A c : Reads(c) => Reads(c)'
          /\ \A c : InTree(c) => InTree(c)'
          /\ \A c, d : Waits(c, d) => Waits(c, d)'
      BY <1>1, StaysRead
    <3> QED
      BY <3>1, <1>1 DEF TreeInv, CallsStand
  <2>11. \A n \in cache' : Evaluates(judgments[n])' /\ \A p \in ToSet(judgments[n].priors)' : Done(judgments[n], p)'
    BY <1>1, CacheStays
  <2> QED
    BY <2>7, <2>9, <2>10, <2>11, <1>1 DEF TreeInv
<1> QED
  BY <1>3, <1>4

\* The invariant speaks of the tree's own state.
LEMMA TreeStutters ==
    ASSUME TreeInv, UNCHANGED treeVars
    PROVE  TreeInv'
<1>1. judgments' = judgments /\ task' = task /\ frames' = frames /\ cache' = cache /\ verdict' = verdict
  BY DEF treeVars
<1>2. CallsStand(frames)'
  <2>1. /\ \A c : Reads(c) => Reads(c)'
        /\ \A c : InTree(c) => InTree(c)'
        /\ \A c, d : Waits(c, d) => Waits(c, d)'
    BY <1>1, StaysRead
  <2> QED
    BY <2>1, <1>1 DEF TreeInv, CallsStand
<1>3. \A n \in cache' : Evaluates(judgments[n])' /\ \A p \in ToSet(judgments[n].priors)' : Done(judgments[n], p)'
  BY <1>1, CacheStays
<1>4. TreeTyped'
  BY <1>1 DEF TreeInv, TreeTyped, Judged, Call
<1>5. TreeSound'
  <2>1. TreeSound
    BY DEF TreeInv
  <2>2. Below(ToSet(task.priors))' = Below(ToSet(task.priors))
    BY <1>1 DEF Below, Closed
  <2> QED
    BY <2>1, <2>2, <1>1 DEF TreeSound, Stands, Evaluates, Used, Supported
<1> QED
  BY <1>1, <1>2, <1>3, <1>4, <1>5 DEF TreeInv

\* Shared records are checked once and their edges every time, and that is as
\* good as checking the whole tree: what is accepted stands, with every record
\* below it, and what is refused does not.
THEOREM TreeIsSound == TreeSpec => []TreeSound
<1>1. TreeInit => TreeInv
  BY TreeInitInv
<1>2. TreeInv /\ [TreeNext]_treeVars => TreeInv'
  BY DescendInv, EvaluateInv, JudgeInv, TreeStutters DEF TreeNext
<1>3. TreeInv => TreeSound
  BY DEF TreeInv
<1> QED
  BY <1>1, <1>2, <1>3, PTL DEF TreeSpec

-----------------------------------------------------------------------------
(* The masking.  What stays hidden was refused with the numbers shown then,*)
(* and under a monotone contract it is refused with more of them too.      *)

Passing(visible) == ~Refuses(Masked(whole, visible))

\* The sentences before the one at work that keep their words show what can be
\* shown, if the contract is monotone.
ShownBefore(n) ==
    Monotone => \A i \in (1 .. n) \ whole : \A spot \in SpotsOf[i] \ shown : ~Passing(shown \union {spot})

MaskInv ==
    /\ rules \in Contracts /\ sentence \in Nat \ {0}
    /\ maskPhase \in {"report", "refused", "accepted", "repaired", "hiding", "showing", "masked", "stopped"}
    /\ maskPhase \notin {"report", "accepted"} => Refuses(RefusedReport)
    /\ maskPhase \in {"report", "refused", "hiding"} => shown = {}
    /\ maskPhase \in {"report", "refused"} => sentence = 1 /\ whole = {}
    /\ maskPhase = "hiding" => ~Refuses(Text(1 .. sentence - 1, whole, {})) /\ sentence <= Sentences + 1
    /\ maskPhase \in {"showing", "masked", "repaired"} => Passing(shown)
    /\ maskPhase = "showing" => ShownBefore(sentence - 1) /\ sentence <= Sentences + 1
    /\ maskPhase = "masked" => ShownBefore(Sentences)
    /\ maskPhase = "stopped" => sentence <= Sentences /\ \E rule \in rules : rule.gone # {}

---------------------------------------------------------------------------
(* What a contract refuses. *)

\* A text is refused if some rule finds all its parts in it.
LEMMA RefusesDef ==
    ASSUME NEW present, NEW replaced, NEW visible
    PROVE  Refuses(Text(present, replaced, visible)) =
              \E rule \in rules :
                 /\ rule.words \subseteq present \ replaced
                 /\ rule.shown \subseteq Spots(present \ replaced) \intersect visible
                 /\ rule.hidden \subseteq Spots(present \ replaced) \ visible
                 /\ rule.gone \subseteq present \intersect replaced
BY DEF Refuses, Text

\* The empty text passes.
LEMMA EmptyPasses ==
    ASSUME rules \in Contracts
    PROVE  ~Refuses(Text({}, {}, {}))
<1>1. \A rule \in rules : rule.words # {} \/ rule.shown # {} \/ rule.hidden # {} \/ rule.gone # {}
  BY ContractsAssumption
<1>2. Spots({}) = {}
  BY DEF Spots
<1>3. ~ \E rule \in rules :
          /\ rule.words \subseteq {} \ {}
          /\ rule.shown \subseteq Spots({} \ {}) \intersect {}
          /\ rule.hidden \subseteq Spots({} \ {}) \ {}
          /\ rule.gone \subseteq {} \intersect {}
  BY <1>1, <1>2
<1> QED
  BY <1>3, RefusesDef

\* A text that passes still does with a replaced sentence after it, unless a
\* rule is about what was replaced.
LEMMA MarkRefused ==
    ASSUME NEW n \in Nat \ {0}, ~Refuses(Text(1 .. n - 1, whole, {})),
           Refuses(Text(1 .. n, whole \union {n}, {}))
    PROVE  \E rule \in rules : rule.gone # {}
<1>1. PICK rule \in rules :
         /\ rule.words \subseteq (1 .. n) \ (whole \union {n})
         /\ rule.shown \subseteq Spots((1 .. n) \ (whole \union {n})) \intersect {}
         /\ rule.hidden \subseteq Spots((1 .. n) \ (whole \union {n})) \ {}
         /\ rule.gone \subseteq (1 .. n) \intersect (whole \union {n})
  BY RefusesDef
<1>2. (1 .. n) \ (whole \union {n}) = (1 .. n - 1) \ whole
  OBVIOUS
<1>3. rule.gone # {}
  <2>1. ASSUME rule.gone = {}
        PROVE  Refuses(Text(1 .. n - 1, whole, {}))
    <3>1. PICK present : present = 1 .. n - 1
      OBVIOUS
    <3>2. /\ rule.words \subseteq present \ whole
          /\ rule.shown \subseteq Spots(present \ whole) \intersect {}
          /\ rule.hidden \subseteq Spots(present \ whole) \ {}
          /\ rule.gone \subseteq present \intersect whole
      BY <1>1, <1>2, <2>1, <3>1
    <3>3. Refuses(Text(present, whole, {}))
      BY <3>2, Zenon DEF Refuses, Text
    <3> QED
      BY <3>1, <3>3
  <2> QED
    BY <2>1
<1> QED
  BY <1>3

\* Under a monotone contract what is refused stays refused when more is shown.
LEMMA MoreShown ==
    ASSUME Monotone, NEW visible, NEW more, visible \subseteq more, ~Passing(visible)
    PROVE  ~Passing(more)
<1>1. PICK rule \in rules :
         /\ rule.words \subseteq Stretch \ whole
         /\ rule.shown \subseteq Spots(Stretch \ whole) \intersect visible
         /\ rule.hidden \subseteq Spots(Stretch \ whole) \ visible
         /\ rule.gone \subseteq Stretch \intersect whole
  BY RefusesDef DEF Passing, Masked
<1>2. rule.hidden = {}
  BY DEF Monotone
<1>3. /\ rule.words \subseteq Stretch \ whole
      /\ rule.shown \subseteq Spots(Stretch \ whole) \intersect more
      /\ rule.hidden \subseteq Spots(Stretch \ whole) \ more
      /\ rule.gone \subseteq Stretch \intersect whole
  BY <1>1, <1>2
<1> QED
  BY <1>3, RefusesDef DEF Passing, Masked

---------------------------------------------------------------------------
(* What a sentence may show. *)

\* f has what is shown after each of the first m spots was tried.
Tries(f, group, m) ==
    f = [n \in 0 .. m |->
            IF n = 0 THEN shown
            ELSE IF n \in group /\ ~Refuses(Masked(whole, f[n - 1] \union {n})) THEN f[n - 1] \union {n} ELSE f[n - 1]]

\* The function by which Tried is defined exists.
LEMMA TriesExists ==
    ASSUME NEW group, NEW m \in Nat
    PROVE  \E f : Tries(f, group, m)
<1> DEFINE T == {n \in Nat : \E f : Tries(f, group, n)}
<1>1. 0 \in T
  <2>1. Tries([n \in 0 .. 0 |-> shown], group, 0)
    BY DEF Tries
  <2> QED
    BY <2>1
<1>2. ASSUME NEW n \in Nat, n \in T PROVE n + 1 \in T
  <2>1. PICK f : Tries(f, group, n)
    BY <1>2
  <2>2. \A i \in 0 .. n : f[i] = IF i = 0 THEN shown
                                 ELSE IF i \in group /\ ~Refuses(Masked(whole, f[i - 1] \union {i}))
                                      THEN f[i - 1] \union {i} ELSE f[i - 1]
    BY <2>1, Zenon DEF Tries
  <2>3. PICK last : last = IF n + 1 \in group /\ ~Refuses(Masked(whole, f[n] \union {n + 1}))
                           THEN f[n] \union {n + 1} ELSE f[n]
    OBVIOUS
  <2>4. PICK g : g = [i \in 0 .. n + 1 |-> IF i = n + 1 THEN last ELSE f[i]]
    OBVIOUS
  <2>5. g[n + 1] = last /\ \A i \in 0 .. n : g[i] = f[i]
    BY <2>4
  <2>6. ASSUME NEW i \in 0 .. n + 1
        PROVE  g[i] = IF i = 0 THEN shown
                      ELSE IF i \in group /\ ~Refuses(Masked(whole, g[i - 1] \union {i}))
                           THEN g[i - 1] \union {i} ELSE g[i - 1]
    <3>1. CASE i = n + 1
      <4>1. i # 0 /\ i - 1 = n /\ g[i - 1] = f[n]
        BY <3>1, <2>5
      <4> QED
        BY <4>1, <3>1, <2>3, <2>5
    <3>2. CASE i = 0
      <4>1. 0 \in 0 .. n
        OBVIOUS
      <4>2. g[0] = f[0] /\ f[0] = shown
        BY <4>1, <2>2, <2>5, Zenon
      <4> QED
        BY <4>2, <3>2
    <3>3. CASE i \in 1 .. n
      <4>1. i # 0 /\ i \in 0 .. n /\ i - 1 \in 0 .. n
        BY <3>3
      <4>2. g[i] = f[i] /\ g[i - 1] = f[i - 1]
        BY <4>1, <2>5
      <4>3. f[i] = IF i \in group /\ ~Refuses(Masked(whole, f[i - 1] \union {i}))
                   THEN f[i - 1] \union {i} ELSE f[i - 1]
        BY <4>1, <2>2
      <4> QED
        BY <4>1, <4>2, <4>3
    <3> QED
      BY <3>1, <3>2, <3>3
  <2>7. g = [i \in 0 .. n + 1 |-> g[i]]
    BY <2>4
  <2>8. Tries(g, group, n + 1)
    BY <2>6, <2>7, Zenon DEF Tries
  <2> QED
    BY <2>8
<1> HIDE DEF T
<1>3. m \in T
  BY <1>1, <1>2, NatSetInduction
<1> QED
  BY <1>3 DEF T

\* It grows by spots of the group, passes, and leaves out what would not.
LEMMA TriesShow ==
    ASSUME NEW group, NEW m \in Nat, NEW f, Tries(f, group, m), Passing(shown)
    PROVE  /\ shown \subseteq f[m] /\ Passing(f[m])
           /\ \A spot \in group \intersect (1 .. m) : spot \in f[m] \/ (Monotone => ~Passing(f[m] \union {spot}))
<1> DEFINE Good(n) ==
              /\ shown \subseteq f[n] /\ Passing(f[n])
              /\ \A spot \in group \intersect (1 .. n) : spot \in f[n] \/ (Monotone => ~Passing(f[n] \union {spot}))
           T == {n \in Nat : n <= m => Good(n)}
<1>1. \A i \in 0 .. m : f[i] = IF i = 0 THEN shown
                               ELSE IF i \in group /\ ~Refuses(Masked(whole, f[i - 1] \union {i}))
                                    THEN f[i - 1] \union {i} ELSE f[i - 1]
  BY Zenon DEF Tries
<1>2. 0 \in T
  <2>1. 0 \in 0 .. m
    OBVIOUS
  <2>2. f[0] = shown
    BY <2>1, <1>1, Zenon
  <2> QED
    BY <2>2
<1>3. ASSUME NEW n \in Nat, n \in T PROVE n + 1 \in T
  <2> SUFFICES ASSUME n + 1 <= m PROVE Good(n + 1)
    OBVIOUS
  <2>1. Good(n)
    BY <1>3
  <2>2. PICK old, new : old = f[n] /\ new = f[n + 1]
    OBVIOUS
  <2>3. new = IF n + 1 \in group /\ Passing(old \union {n + 1}) THEN old \union {n + 1} ELSE old
    <3>1. n + 1 \in 0 .. m /\ n + 1 # 0 /\ (n + 1) - 1 = n
      OBVIOUS
    <3> QED
      BY <3>1, <2>2, <1>1 DEF Passing
  <2>4. shown \subseteq old /\ Passing(old) /\ old \subseteq new
    BY <2>1, <2>2, <2>3
  <2>5. shown \subseteq new /\ Passing(new)
    BY <2>3, <2>4
  <2>6. ASSUME NEW spot \in group \intersect (1 .. n + 1), spot \notin new, Monotone
        PROVE  ~Passing(new \union {spot})
    <3>1. CASE spot = n + 1
      <4>1. ~Passing(old \union {spot}) /\ new = old
        BY <3>1, <2>3, <2>6
      <4> QED
        BY <4>1
    <3>2. CASE spot # n + 1
      <4>1. spot \in group \intersect (1 .. n)
        BY <3>2
      <4>2. ~Passing(old \union {spot})
        BY <4>1, <2>1, <2>2, <2>4, <2>6
      <4>3. old \union {spot} \subseteq new \union {spot}
        BY <2>4
      <4> QED
        BY <4>2, <4>3, <2>6, MoreShown
    <3> QED
      BY <3>1, <3>2
  <2> QED
    BY <2>2, <2>5, <2>6
<1> HIDE DEF T
<1>4. m \in T
  BY <1>2, <1>3, NatSetInduction
<1> QED
  BY <1>4 DEF T

\* What a sentence shows passes, adds to what is shown, and leaves out only
\* what a monotone contract refuses.
LEMMA TriedShows ==
    ASSUME NEW i \in Stretch, SpotsOf[i] # {}, Passing(shown), NEW visible, visible = Tried(SpotsOf[i])
    PROVE  /\ shown \subseteq visible /\ Passing(visible)
           /\ \A spot \in SpotsOf[i] : spot \in visible \/ (Monotone => ~Passing(visible \union {spot}))
<1>1. PICK group : group = SpotsOf[i]
  OBVIOUS
<1>2. group \in SUBSET Nat /\ group # {} /\ IsFiniteSet(group) /\ 0 \notin group
  BY <1>1, SpotsAssumption
<1>3. PICK seq \in Seq(group) : \A e \in group : \E n \in 1 .. Len(seq) : seq[n] = e
  BY <1>2 DEF IsFiniteSet
<1>4. \A e \in group : e \in ToSet(seq)
  <2>1. DOMAIN seq = 1 .. Len(seq)
    OBVIOUS
  <2> QED
    BY <2>1, <1>3 DEF ToSet
<1>5. PICK b \in Nat : \A e \in group : e <= b
  <2> DEFINE same == [e \in group |-> e]
  <2>1. same \in [group -> Nat] /\ \A e \in group : same[e] = e
    BY <1>2
  <2> HIDE DEF same
  <2>2. PICK b \in Nat : \A e \in ToSet(seq) : same[e] <= b
    BY <2>1, SeqBounded
  <2> QED
    BY <2>1, <2>2, <1>4
<1>6. PICK m : m = Max(group)
  OBVIOUS
<1>7. m \in group /\ \A x \in group : x <= m
  BY <1>2, <1>5, <1>6, BoundedMax
<1>8. m \in Nat /\ group \subseteq 1 .. m
  BY <1>2, <1>7
<1>9. PICK f : f = CHOOSE e : Tries(e, group, m)
  OBVIOUS
<1>10. Tries(f, group, m)
  BY <1>8, <1>9, TriesExists, Zenon
<1>11. visible = IF Passing(shown \union group) THEN shown \union group ELSE f[m]
  BY <1>1, <1>6, <1>9 DEF Tried, Tries, Passing
<1>12. CASE Passing(shown \union group)
  BY <1>1, <1>11, <1>12
<1>13. CASE ~Passing(shown \union group)
  <2>1. visible = f[m]
    BY <1>11, <1>13
  <2>2. /\ shown \subseteq f[m] /\ Passing(f[m])
        /\ \A spot \in group \intersect (1 .. m) : spot \in f[m] \/ (Monotone => ~Passing(f[m] \union {spot}))
    BY <1>8, <1>10, TriesShow
  <2> QED
    BY <2>1, <2>2, <1>1, <1>8
<1> QED
  BY <1>12, <1>13

---------------------------------------------------------------------------
(* The steps. *)

\* At the start nothing is hidden.
LEMMA MaskInitInv ==
    ASSUME MaskInit
    PROVE  MaskInv
BY DEF MaskInit, MaskInv

\* Only a refused report goes on.
LEMMA CheckInv ==
    ASSUME MaskInv, Check
    PROVE  MaskInv'
<1>1. /\ maskPhase = "report" /\ UNCHANGED <<rules, sentence, whole, shown>>
      /\ maskPhase' = IF Refuses(RefusedReport) THEN "refused" ELSE "accepted"
  BY DEF Check
<1>2. Refuses(RefusedReport)' = Refuses(RefusedReport)
  BY <1>1 DEF Refuses
<1> QED
  BY <1>1, <1>2 DEF MaskInv

\* A repaired report was checked again as a whole.
LEMMA RepairInv ==
    ASSUME MaskInv, Repair
    PROVE  MaskInv'
<1>1. PICK well \in SUBSET Kept : ~Refuses(Text(Stretch, well, Spots(Stretch))) /\ whole' = well
  BY DEF Repair
<1>2. /\ maskPhase = "refused" /\ maskPhase' = "repaired" /\ shown' = Spots(Stretch)
      /\ rules' = rules /\ sentence' = sentence
  BY DEF Repair
<1>3. Passing(shown)'
  BY <1>1, <1>2 DEF Passing, Masked, Refuses
<1>4. Refuses(RefusedReport)' = Refuses(RefusedReport)
  BY <1>2 DEF Refuses
<1> QED
  BY <1>2, <1>3, <1>4 DEF MaskInv

\* Without a repair the masking starts with nothing in the text.
LEMMA UnrepairedInv ==
    ASSUME MaskInv, Unrepaired
    PROVE  MaskInv'
<1>1. /\ maskPhase = "refused" /\ maskPhase' = "hiding" /\ UNCHANGED <<rules, sentence, whole, shown>>
  BY DEF Unrepaired
<1>2. /\ Refuses(RefusedReport)' = Refuses(RefusedReport)
      /\ Refuses(Text({}, {}, {}))' = Refuses(Text({}, {}, {}))
  BY <1>1 DEF Refuses
<1>3. ~Refuses(Text({}, {}, {}))
  BY EmptyPasses DEF MaskInv
<1>4. sentence = 1 /\ whole = {} /\ 1 .. sentence - 1 = {}
  BY <1>1 DEF MaskInv
<1>5. sentence <= Sentences + 1
  BY <1>4, SpotsAssumption
<1> QED
  BY <1>1, <1>2, <1>3, <1>4, <1>5 DEF MaskInv

\* Hiding extends a text that passes by one sentence, whole or as a mark.
LEMMA HideInv ==
    ASSUME MaskInv, Hide
    PROVE  MaskInv'
<1>1. /\ maskPhase = "hiding" /\ sentence <= Sentences /\ rules' = rules /\ shown' = shown
      /\ sentence \in Nat \ {0} /\ shown = {} /\ ~Refuses(Text(1 .. sentence - 1, whole, {}))
  BY DEF Hide, MaskInv
<1>2. \A text : Refuses(text)' = Refuses(text)
  BY <1>1 DEF Refuses
<1>3. Sentences \in Nat /\ (sentence + 1) - 1 = sentence /\ sentence + 1 \in Nat \ {0} /\ sentence + 1 <= Sentences + 1
  BY <1>1, SpotsAssumption
<1>4. CASE ~Refuses(Prefix(whole))
  <2>1. sentence' = sentence + 1 /\ whole' = whole /\ maskPhase' = maskPhase
    BY <1>4 DEF Hide
  <2>2. ~Refuses(Text(1 .. sentence' - 1, whole', {}))
    BY <2>1, <1>3, <1>4 DEF Prefix
  <2> QED
    BY <2>1, <2>2, <1>1, <1>2, <1>3 DEF MaskInv
<1>5. CASE Refuses(Prefix(whole)) /\ ~Refuses(Prefix(whole \union {sentence}))
  <2>1. sentence' = sentence + 1 /\ whole' = whole \union {sentence} /\ maskPhase' = maskPhase
    BY <1>5 DEF Hide
  <2>2. ~Refuses(Text(1 .. sentence' - 1, whole', {}))
    BY <2>1, <1>3, <1>5 DEF Prefix
  <2> QED
    BY <2>1, <2>2, <1>1, <1>2, <1>3 DEF MaskInv
<1>6. CASE Refuses(Prefix(whole)) /\ Refuses(Prefix(whole \union {sentence}))
  <2>1. maskPhase' = "stopped" /\ sentence' = sentence /\ whole' = whole
    BY <1>6 DEF Hide
  <2>2. \E rule \in rules : rule.gone # {}
    BY <1>1, <1>6, MarkRefused DEF Prefix
  <2> QED
    BY <2>1, <2>2, <1>1, <1>2 DEF MaskInv
<1> QED
  BY <1>4, <1>5, <1>6

\* Once every sentence was hidden the whole stretch passes.
LEMMA HiddenInv ==
    ASSUME MaskInv, Hidden
    PROVE  MaskInv'
<1>1. /\ maskPhase = "hiding" /\ sentence > Sentences /\ maskPhase' = "showing" /\ sentence' = 1
      /\ rules' = rules /\ whole' = whole /\ shown' = shown
  BY DEF Hidden
<1>2. /\ shown = {} /\ ~Refuses(Text(1 .. sentence - 1, whole, {})) /\ sentence <= Sentences + 1
      /\ sentence \in Nat /\ Sentences \in Nat
  BY <1>1, SpotsAssumption DEF MaskInv
<1>3. sentence - 1 = Sentences
  BY <1>1, <1>2
<1>4. \A text : Refuses(text)' = Refuses(text)
  BY <1>1 DEF Refuses
<1>5. Passing(shown)'
  BY <1>1, <1>2, <1>3, <1>4 DEF Passing, Masked, Stretch
<1>6. ShownBefore(sentence - 1)'
  <2>1. 1 .. sentence' - 1 = {}
    BY <1>1
  <2> QED
    BY <2>1 DEF ShownBefore
<1> QED
  BY <1>1, <1>2, <1>4, <1>5, <1>6 DEF MaskInv

\* Showing a sentence keeps the stretch passing and leaves nothing that could be shown.
LEMMA ShowInv ==
    ASSUME MaskInv, Show
    PROVE  MaskInv'
<1>1. /\ maskPhase = "showing" /\ sentence <= Sentences /\ sentence' = sentence + 1
      /\ rules' = rules /\ maskPhase' = maskPhase /\ whole' = whole
      /\ shown' = IF sentence \in whole \/ SpotsOf[sentence] = {} THEN shown ELSE Tried(SpotsOf[sentence])
  BY DEF Show
<1>2. /\ sentence \in Nat \ {0} /\ Passing(shown) /\ ShownBefore(sentence - 1) /\ sentence \in Stretch
      /\ Refuses(RefusedReport) /\ rules \in Contracts
  BY <1>1, SpotsAssumption DEF MaskInv, Stretch
<1>3. /\ \A text : Refuses(text)' = Refuses(text)
      /\ \A v : Passing(v)' = Passing(v)
  BY <1>1 DEF Passing, Masked, Refuses
<1>4. PICK visible : visible = shown'
  OBVIOUS
<1>5. /\ shown \subseteq visible /\ Passing(visible)
      /\ sentence \notin whole =>
            \A spot \in SpotsOf[sentence] : spot \in visible \/ (Monotone => ~Passing(visible \union {spot}))
  <2>1. CASE sentence \in whole \/ SpotsOf[sentence] = {}
    BY <2>1, <1>1, <1>2, <1>4
  <2>2. CASE sentence \notin whole /\ SpotsOf[sentence] # {}
    <3>1. visible = Tried(SpotsOf[sentence])
      BY <2>2, <1>1, <1>4
    <3> QED
      BY <3>1, <2>2, <1>2, TriedShows
  <2> QED
    BY <2>1, <2>2
<1>6. ASSUME Monotone, NEW i \in (1 .. sentence) \ whole, NEW spot \in SpotsOf[i] \ visible
      PROVE  ~Passing(visible \union {spot})
  <2>1. CASE i = sentence
    BY <2>1, <1>5, <1>6
  <2>2. CASE i # sentence
    <3>1. i \in (1 .. sentence - 1) \ whole /\ spot \in SpotsOf[i] \ shown
      BY <2>2, <1>2, <1>5
    <3>2. ~Passing(shown \union {spot})
      BY <3>1, <1>2, <1>6 DEF ShownBefore
    <3>3. shown \union {spot} \subseteq visible \union {spot}
      BY <1>5
    <3> QED
      BY <3>2, <3>3, <1>6, MoreShown
  <2> QED
    BY <2>1, <2>2
<1>7. sentence' - 1 = sentence /\ sentence' \in Nat \ {0} /\ sentence' <= Sentences + 1
  BY <1>1, <1>2, SpotsAssumption
<1>8. ShownBefore(sentence - 1)'
  <2>1. Monotone' = Monotone
    BY <1>1 DEF Monotone
  <2> QED
    BY <2>1, <1>1, <1>3, <1>4, <1>6, <1>7 DEF ShownBefore
<1>9. Passing(shown)'
  BY <1>3, <1>4, <1>5 DEF Passing
<1>10. Refuses(RefusedReport)'
  BY <1>2, <1>3
<1> QED
  BY <1>1, <1>2, <1>7, <1>8, <1>9, <1>10 DEF MaskInv

\* The last check finds what the loop has established.
LEMMA DeliverInv ==
    ASSUME MaskInv, Deliver
    PROVE  MaskInv'
<1>1. /\ maskPhase = "showing" /\ sentence > Sentences /\ UNCHANGED <<rules, sentence, whole, shown>>
      /\ maskPhase' = IF Refuses(Masked(whole, shown)) THEN "stopped" ELSE "masked"
  BY DEF Deliver
<1>2. /\ Passing(shown) /\ ShownBefore(sentence - 1) /\ sentence \in Nat \ {0} /\ sentence <= Sentences + 1
  BY <1>1 DEF MaskInv
<1>3. maskPhase' = "masked"
  BY <1>1, <1>2 DEF Passing
<1>4. sentence - 1 = Sentences
  BY <1>1, <1>2, SpotsAssumption
<1>5. \A text : Refuses(text)' = Refuses(text)
  BY <1>1 DEF Refuses
<1>6. ShownBefore(Sentences)' /\ Passing(shown)'
  BY <1>1, <1>2, <1>4, <1>5 DEF ShownBefore, Passing, Masked, Monotone
<1> QED
  BY <1>1, <1>2, <1>3, <1>5, <1>6 DEF MaskInv

\* The invariant speaks of the masking's own state.
LEMMA MaskStutters ==
    ASSUME MaskInv, UNCHANGED maskVars
    PROVE  MaskInv'
<1>1. rules' = rules /\ maskPhase' = maskPhase /\ sentence' = sentence /\ whole' = whole /\ shown' = shown
  BY DEF maskVars
<1>2. /\ \A text : Refuses(text)' = Refuses(text)
      /\ \A v : Passing(v)' = Passing(v)
      /\ Monotone' = Monotone
  BY <1>1 DEF Passing, Masked, Refuses, Monotone
<1>3. Passing(shown)' = Passing(shown) /\ \A n : ShownBefore(n)' = ShownBefore(n)
  BY <1>1, <1>2 DEF ShownBefore, Passing
<1> QED
  BY <1>1, <1>2, <1>3 DEF MaskInv

\* A report whose numbers were hidden and shown again passes its contract at
\* every step, whatever the contract: masking stops only at a replaced sentence
\* that is itself refused, and under a monotone contract hides no number that
\* could be shown.
THEOREM MaskingIsSound == MaskSpec => []MaskingPasses
<1>1. MaskInit => MaskInv
  BY MaskInitInv
<1>2. MaskInv /\ [MaskNext]_maskVars => MaskInv'
  BY CheckInv, RepairInv, UnrepairedInv, HideInv, HiddenInv, ShowInv, DeliverInv, MaskStutters DEF MaskNext
<1>3. MaskInv => MaskingPasses
  <2> SUFFICES ASSUME MaskInv PROVE MaskingPasses
    OBVIOUS
  <2>1. ASSUME maskPhase = "masked", Monotone, NEW spot \in Spots(Stretch \ whole) \ shown
        PROVE  Refuses(Masked(whole, shown \union {spot}))
    <3>1. PICK i \in Stretch \ whole : spot \in SpotsOf[i]
      BY DEF Spots
    <3>2. ShownBefore(Sentences)
      BY <2>1 DEF MaskInv
    <3> QED
      BY <3>1, <3>2, <2>1 DEF ShownBefore, Stretch, Passing
  <2> QED
    BY <2>1 DEF MaskInv, MaskingPasses, Passing
<1> QED
  BY <1>1, <1>2, <1>3, PTL DEF MaskSpec

-----------------------------------------------------------------------------
(* The requests of a thesis run.                                           *)

---------------------------------------------------------------------------
(* The order of the stages. *)

Rank == [AnalystReport |-> 1, InitialBrief |-> 2, RevisionBrief |-> 3, ResearchEvaluation |-> 4,
         ExecutionReview |-> 5, RiskBrief |-> 6, IndependentAssessment |-> 7, UnderwritingDraft |-> 8,
         ForwardRevision |-> 9, FinalResearchReport |-> 10]
Kinds == DOMAIN Rank

\* A sequence of different stages whose kinds go from one rank to another.
Ordered(s, low, high) ==
    /\ s \in Seq(ToSet(s))
    /\ \A i \in 1 .. Len(s) : s[i].kind \in Kinds /\ low <= Rank[s[i].kind] /\ Rank[s[i].kind] <= high
    /\ \A i, j \in 1 .. Len(s) : i < j => s[i] # s[j] /\ Rank[s[i].kind] <= Rank[s[j].kind]

\* A rank is a number from 1 to 10.
LEMMA RankType == \A kind \in Kinds : Rank[kind] \in 1 .. 10
BY DEF Kinds, Rank

\* Two parts of the order, the second of later kinds, follow each other.
LEMMA OrderedConcat ==
    ASSUME NEW s, NEW t, NEW a \in Int, NEW b \in Int, NEW c \in Int, NEW d \in Int,
           Ordered(s, a, b), Ordered(t, c, d), a <= b, b < c, c <= d
    PROVE  Ordered(s \o t, a, d) /\ ToSet(s \o t) = ToSet(s) \union ToSet(t)
<1>1. s \in Seq(ToSet(s)) /\ t \in Seq(ToSet(t))
  BY DEF Ordered
<1>2. PICK X : X = ToSet(s) \union ToSet(t)
  OBVIOUS
<1>3. s \in Seq(X) /\ t \in Seq(X)
  BY <1>1, <1>2
<1>4. PICK m \in Nat, n \in Nat : m = Len(s) /\ n = Len(t)
  BY <1>1
<1>5. PICK u : u = s \o t
  OBVIOUS
<1>6. /\ Len(u) = m + n /\ u \in Seq(X)
      /\ \A i \in 1 .. m : u[i] = s[i]
      /\ \A i \in m + 1 .. m + n : u[i] = t[i - m]
  BY <1>3, <1>4, <1>5, ConcatProperties
<1>7. ToSet(u) = X
  BY <1>2, <1>3, <1>5, ToSetConcat
<1>8. /\ \A i \in 1 .. m : s[i].kind \in Kinds /\ a <= Rank[s[i].kind] /\ Rank[s[i].kind] <= b
      /\ \A i, j \in 1 .. m : i < j => s[i] # s[j] /\ Rank[s[i].kind] <= Rank[s[j].kind]
      /\ \A i \in 1 .. n : t[i].kind \in Kinds /\ c <= Rank[t[i].kind] /\ Rank[t[i].kind] <= d
      /\ \A i, j \in 1 .. n : i < j => t[i] # t[j] /\ Rank[t[i].kind] <= Rank[t[j].kind]
  BY <1>4 DEF Ordered
<1>9. \A i \in 1 .. m : Rank[s[i].kind] \in Int
  <2>1. \A kind \in Kinds : Rank[kind] \in Int
    BY RankType
  <2> QED
    BY <1>8, <2>1, Zenon
<1>10. \A i \in 1 .. n : Rank[t[i].kind] \in Int
  <2>1. \A kind \in Kinds : Rank[kind] \in Int
    BY RankType
  <2> QED
    BY <1>8, <2>1, Zenon
<1>11. ASSUME NEW i \in 1 .. m + n, m < i PROVE i - m \in 1 .. n /\ u[i] = t[i - m]
  <2>1. i \in m + 1 .. m + n /\ i - m \in 1 .. n
    BY <1>11
  <2> QED
    BY <1>6, <2>1, Zenon
<1>12. ASSUME NEW i \in 1 .. m + n, i <= m PROVE i \in 1 .. m /\ u[i] = s[i]
  <2>1. i \in 1 .. m
    BY <1>12
  <2> QED
    BY <1>6, <2>1, Zenon
<1>13. ASSUME NEW i \in 1 .. m + n
       PROVE  u[i].kind \in Kinds /\ a <= Rank[u[i].kind] /\ Rank[u[i].kind] <= d
  <2>1. CASE i <= m
    BY <1>8, <1>9, <1>12, <2>1
  <2>2. CASE m < i
    BY <1>8, <1>10, <1>11, <2>2
  <2> QED
    BY <2>1, <2>2
<1>14. ASSUME NEW i \in 1 .. m + n, NEW j \in 1 .. m + n, i < j
       PROVE  u[i] # u[j] /\ Rank[u[i].kind] <= Rank[u[j].kind]
  <2>1. CASE j <= m
    <3>1. i \in 1 .. m /\ j \in 1 .. m /\ u[i] = s[i] /\ u[j] = s[j]
      BY <1>12, <1>14, <2>1
    <3> QED
      BY <3>1, <1>8, <1>14
  <2>2. CASE i <= m /\ m < j
    <3>1. i \in 1 .. m /\ u[i] = s[i] /\ j - m \in 1 .. n /\ u[j] = t[j - m]
      BY <1>11, <1>12, <2>2
    <3>2. Rank[u[i].kind] <= b /\ Rank[u[i].kind] \in Int /\ c <= Rank[u[j].kind] /\ Rank[u[j].kind] \in Int
      BY <3>1, <1>8, <1>9, <1>10
    <3> QED
      BY <3>2
  <2>3. CASE m < i
    <3>1. i - m \in 1 .. n /\ j - m \in 1 .. n /\ i - m < j - m /\ u[i] = t[i - m] /\ u[j] = t[j - m]
      BY <1>11, <1>14, <2>3
    <3> QED
      BY <3>1, <1>8
  <2> QED
    BY <2>1, <2>2, <2>3
<1> QED
  BY <1>2, <1>5, <1>6, <1>7, <1>13, <1>14 DEF Ordered

\* The stages of one kind, each by another role.
LEMMA OrderedEach ==
    ASSUME NEW kind \in Kinds, NEW roles, roles \in Seq(ToSet(roles)), IsInjective(roles)
    PROVE  /\ Ordered(Each(kind, roles), Rank[kind], Rank[kind])
           /\ ToSet(Each(kind, roles)) = {Stage(kind, n) : n \in ToSet(roles)}
<1>1. PICK s : s = Each(kind, roles)
  OBVIOUS
<1>2. /\ DOMAIN roles = 1 .. Len(roles) /\ Len(roles) \in Nat
      /\ s = [i \in 1 .. Len(roles) |-> Stage(kind, roles[i])]
  BY <1>1 DEF Each
<1>3. \A i \in 1 .. Len(roles) : s[i] = Stage(kind, roles[i]) /\ s[i].kind = kind /\ s[i].node = roles[i]
  BY <1>2 DEF Stage
<1>4. ToSet(s) = {Stage(kind, n) : n \in ToSet(roles)}
  BY <1>2, <1>3 DEF ToSet
<1>5. s \in Seq(ToSet(s)) /\ Len(s) = Len(roles)
  <2>1. \A i \in 1 .. Len(roles) : s[i] \in ToSet(s)
    BY <1>2 DEF ToSet
  <2>2. s \in [1 .. Len(roles) -> ToSet(s)]
    BY <1>2, <2>1
  <2> QED
    BY <1>2, <2>2
<1>6. \A i, j \in 1 .. Len(roles) : i < j => roles[i] # roles[j]
  BY <1>2 DEF IsInjective
<1>7. Rank[kind] \in Int
  BY RankType
<1> QED
  BY <1>1, <1>3, <1>4, <1>5, <1>6, <1>7 DEF Ordered

\* The middle and the last stages are written one by one.
LEMMA OrderedPair ==
    LET s == <<Stage("ResearchEvaluation", ResearchManager), Stage("ExecutionReview", Trader)>>
    IN Ordered(s, 4, 5) /\ ToSet(s) = {s[1], s[2]}
<1> DEFINE s == <<Stage("ResearchEvaluation", ResearchManager), Stage("ExecutionReview", Trader)>>
<1>1. Len(s) = 2 /\ DOMAIN s = 1 .. 2 /\ s \in Seq({s[1], s[2]}) /\ 1 .. 2 = {1, 2}
  OBVIOUS
<1>2. s[1].kind = "ResearchEvaluation" /\ s[2].kind = "ExecutionReview"
  BY DEF Stage
<1>3. /\ s[1].kind \in Kinds /\ s[2].kind \in Kinds
      /\ Rank[s[1].kind] = 4 /\ Rank[s[2].kind] = 5
  BY <1>2 DEF Kinds, Rank
<1>4. s[1] # s[2]
  BY <1>2
<1> HIDE DEF s
<1>5. ToSet(s) = {s[1], s[2]}
  BY <1>1 DEF ToSet
<1>6. Ordered(s, 4, 5)
  BY <1>1, <1>3, <1>4, <1>5 DEF Ordered
<1> QED
  BY <1>5, <1>6 DEF s

\* The portfolio manager's stages too.
LEMMA OrderedLast ==
    LET s == <<Stage("IndependentAssessment", PortfolioManager), Stage("UnderwritingDraft", PortfolioManager),
               Stage("ForwardRevision", PortfolioManager), Stage("FinalResearchReport", PortfolioManager)>>
    IN Ordered(s, 7, 10) /\ ToSet(s) = {s[1], s[2], s[3], s[4]}
<1> DEFINE s == <<Stage("IndependentAssessment", PortfolioManager), Stage("UnderwritingDraft", PortfolioManager),
                  Stage("ForwardRevision", PortfolioManager), Stage("FinalResearchReport", PortfolioManager)>>
<1>1. Len(s) = 4 /\ DOMAIN s = 1 .. 4 /\ s \in Seq({s[1], s[2], s[3], s[4]}) /\ 1 .. 4 = {1, 2, 3, 4}
  OBVIOUS
<1>2. /\ s[1].kind = "IndependentAssessment" /\ s[2].kind = "UnderwritingDraft"
      /\ s[3].kind = "ForwardRevision" /\ s[4].kind = "FinalResearchReport"
  BY DEF Stage
<1>3. /\ \A i \in 1 .. 4 : s[i].kind \in Kinds
      /\ Rank[s[1].kind] = 7 /\ Rank[s[2].kind] = 8 /\ Rank[s[3].kind] = 9 /\ Rank[s[4].kind] = 10
  BY <1>1, <1>2 DEF Kinds, Rank
<1> HIDE DEF s
<1>4. \A i, j \in 1 .. 4 : i < j => s[i] # s[j]
  BY <1>1, <1>2
<1>5. ToSet(s) = {s[1], s[2], s[3], s[4]}
  BY <1>1 DEF ToSet
<1>6. \A i \in 1 .. 4 : 7 <= Rank[s[i].kind] /\ Rank[s[i].kind] <= 10
  BY <1>1, <1>3
<1>7. \A i, j \in 1 .. 4 : i < j => Rank[s[i].kind] <= Rank[s[j].kind]
  BY <1>1, <1>3
<1>8. Ordered(s, 7, 10)
  BY <1>1, <1>3, <1>4, <1>5, <1>6, <1>7 DEF Ordered
<1> QED
  BY <1>5, <1>8 DEF s

\* The stages are different, in the order of their kinds, and these.
LEMMA StagesOrdered ==
    /\ Ordered(Stages, 1, 10)
    /\ AllStages = {Stage("AnalystReport", n) : n \in ToSet(Analysts)}
                   \union {Stage("InitialBrief", n) : n \in ToSet(Researchers)}
                   \union {Stage("RevisionBrief", n) : n \in ToSet(Researchers)}
                   \union {Stage("RiskBrief", n) : n \in ToSet(Risks)}
                   \union {Stage("ResearchEvaluation", ResearchManager), Stage("ExecutionReview", Trader),
                           Stage("IndependentAssessment", PortfolioManager), Stage("UnderwritingDraft", PortfolioManager),
                           Stage("ForwardRevision", PortfolioManager), Stage("FinalResearchReport", PortfolioManager)}
<1> DEFINE pair == <<Stage("ResearchEvaluation", ResearchManager), Stage("ExecutionReview", Trader)>>
           end == <<Stage("IndependentAssessment", PortfolioManager), Stage("UnderwritingDraft", PortfolioManager),
                    Stage("ForwardRevision", PortfolioManager), Stage("FinalResearchReport", PortfolioManager)>>
<1>1. \A roles \in {Analysts, Researchers, Risks} : roles \in Seq(ToSet(roles)) /\ IsInjective(roles)
  BY RolesAssumption
<1>2. /\ {"AnalystReport", "InitialBrief", "RevisionBrief", "RiskBrief"} \subseteq Kinds
      /\ Rank["AnalystReport"] = 1 /\ Rank["InitialBrief"] = 2 /\ Rank["RevisionBrief"] = 3 /\ Rank["RiskBrief"] = 6
  BY DEF Rank, Kinds
<1>3. PICK a, b, c, d : /\ a = Each("AnalystReport", Analysts) /\ b = Each("InitialBrief", Researchers)
                        /\ c = Each("RevisionBrief", Researchers) /\ d = Each("RiskBrief", Risks)
  OBVIOUS
<1>4. /\ Ordered(a, 1, 1) /\ ToSet(a) = {Stage("AnalystReport", n) : n \in ToSet(Analysts)}
      /\ Ordered(b, 2, 2) /\ ToSet(b) = {Stage("InitialBrief", n) : n \in ToSet(Researchers)}
      /\ Ordered(c, 3, 3) /\ ToSet(c) = {Stage("RevisionBrief", n) : n \in ToSet(Researchers)}
      /\ Ordered(d, 6, 6) /\ ToSet(d) = {Stage("RiskBrief", n) : n \in ToSet(Risks)}
  BY <1>1, <1>2, <1>3, OrderedEach
<1>5. Ordered(pair, 4, 5) /\ ToSet(pair) = {pair[1], pair[2]}
  BY OrderedPair
<1>6. Ordered(end, 7, 10) /\ ToSet(end) = {end[1], end[2], end[3], end[4]}
  BY OrderedLast
<1>7. /\ pair[1] = Stage("ResearchEvaluation", ResearchManager) /\ pair[2] = Stage("ExecutionReview", Trader)
      /\ end[1] = Stage("IndependentAssessment", PortfolioManager) /\ end[2] = Stage("UnderwritingDraft", PortfolioManager)
      /\ end[3] = Stage("ForwardRevision", PortfolioManager) /\ end[4] = Stage("FinalResearchReport", PortfolioManager)
  OBVIOUS
<1>8. Stages = a \o b \o c \o pair \o d \o end
  BY <1>3 DEF Stages
<1> HIDE DEF pair, end
<1>0. /\ 1 \in Int /\ 2 \in Int /\ 3 \in Int /\ 4 \in Int /\ 5 \in Int /\ 6 \in Int /\ 7 \in Int /\ 10 \in Int
       /\ 1 <= 1 /\ 1 < 2 /\ 2 <= 2 /\ 1 <= 2 /\ 2 < 3 /\ 3 <= 3 /\ 1 <= 3 /\ 3 < 4 /\ 4 <= 5
       /\ 1 <= 5 /\ 5 < 6 /\ 6 <= 6 /\ 1 <= 6 /\ 6 < 7 /\ 7 <= 10
  OBVIOUS
<1>9. Ordered(a \o b, 1, 2) /\ ToSet(a \o b) = ToSet(a) \union ToSet(b)
  BY <1>4, <1>0, OrderedConcat, Zenon
<1>10. Ordered(a \o b \o c, 1, 3) /\ ToSet(a \o b \o c) = ToSet(a) \union ToSet(b) \union ToSet(c)
  BY <1>4, <1>9, <1>0, OrderedConcat, Zenon
<1>11. /\ Ordered(a \o b \o c \o pair, 1, 5)
       /\ ToSet(a \o b \o c \o pair) = ToSet(a) \union ToSet(b) \union ToSet(c) \union ToSet(pair)
  BY <1>5, <1>10, <1>0, OrderedConcat, Zenon
<1>12. /\ Ordered(a \o b \o c \o pair \o d, 1, 6)
       /\ ToSet(a \o b \o c \o pair \o d) =
             ToSet(a) \union ToSet(b) \union ToSet(c) \union ToSet(pair) \union ToSet(d)
  BY <1>4, <1>11, <1>0, OrderedConcat, Zenon
<1>13. PICK front : front = a \o b \o c \o pair \o d
  OBVIOUS
<1>15. Ordered(front, 1, 6) /\ front \o end = Stages
  BY <1>8, <1>12, <1>13
<1>16. Ordered(front \o end, 1, 10) /\ ToSet(front \o end) = ToSet(front) \union ToSet(end)
  BY <1>0, <1>6, <1>15, OrderedConcat, Zenon
<1>17. /\ Ordered(Stages, 1, 10)
       /\ AllStages = ToSet(a) \union ToSet(b) \union ToSet(c) \union ToSet(pair) \union ToSet(d) \union ToSet(end)
  BY <1>12, <1>13, <1>15, <1>16 DEF AllStages
<1> QED
  BY <1>4, <1>5, <1>6, <1>7, <1>17

\* Where a stage is: every stage of an earlier kind comes before it.
LEMMA StagePlaces ==
    /\ Len(Stages) \in Nat
    /\ \A p \in 1 .. Len(Stages) : Stages[p] \in AllStages /\ Stages[p].kind \in Kinds
    /\ \A s \in AllStages : \E p \in 1 .. Len(Stages) : Stages[p] = s
    /\ \A p, q \in 1 .. Len(Stages) : Stages[p] = Stages[q] => p = q
    /\ \A p, q \in 1 .. Len(Stages) : Rank[Stages[p].kind] < Rank[Stages[q].kind] => p < q
<1>1. PICK s, L : s = Stages /\ L = Len(s)
  OBVIOUS
<1>2. /\ s \in Seq(ToSet(s)) /\ L \in Nat /\ DOMAIN s = 1 .. L
      /\ \A i \in 1 .. L : s[i].kind \in Kinds
      /\ \A i, j \in 1 .. L : i < j => s[i] # s[j] /\ Rank[s[i].kind] <= Rank[s[j].kind]
  BY <1>1, StagesOrdered DEF Ordered
<1>3. AllStages = {s[i] : i \in 1 .. L}
  BY <1>1, <1>2 DEF AllStages, ToSet
<1>4. \A i \in 1 .. L : Rank[s[i].kind] \in Int
  BY <1>2, RankType
<1>5. \A p, q \in 1 .. L : s[p] = s[q] => p = q
  BY <1>2
<1>6. \A p, q \in 1 .. L : Rank[s[p].kind] < Rank[s[q].kind] => p < q
  <2> TAKE p, q \in 1 .. L
  <2>1. q = p \/ q < p \/ p < q
    BY <1>2
  <2> QED
    BY <2>1, <1>2, <1>4
<1> QED
  BY <1>1, <1>2, <1>3, <1>5, <1>6

\* The ranks, kind by kind.
LEMMA RankIs ==
    /\ Rank["AnalystReport"] = 1 /\ Rank["InitialBrief"] = 2 /\ Rank["RevisionBrief"] = 3
    /\ Rank["ResearchEvaluation"] = 4 /\ Rank["ExecutionReview"] = 5 /\ Rank["RiskBrief"] = 6
    /\ Rank["IndependentAssessment"] = 7 /\ Rank["UnderwritingDraft"] = 8
    /\ Rank["ForwardRevision"] = 9 /\ Rank["FinalResearchReport"] = 10
    /\ Kinds = {"AnalystReport", "InitialBrief", "RevisionBrief", "ResearchEvaluation", "ExecutionReview",
                "RiskBrief", "IndependentAssessment", "UnderwritingDraft", "ForwardRevision", "FinalResearchReport"}
BY DEF Rank, Kinds

\* Which stages there are, by kind.
LEMMA StageIs ==
    /\ \A n \in ToSet(Analysts) : Stage("AnalystReport", n) \in AllStages
    /\ \A n \in ToSet(Researchers) : Stage("InitialBrief", n) \in AllStages /\ Stage("RevisionBrief", n) \in AllStages
    /\ \A n \in ToSet(Risks) : Stage("RiskBrief", n) \in AllStages
    /\ Stage("ResearchEvaluation", ResearchManager) \in AllStages
    /\ Stage("IndependentAssessment", PortfolioManager) \in AllStages
    /\ Stage("UnderwritingDraft", PortfolioManager) \in AllStages
    /\ Stage("ForwardRevision", PortfolioManager) \in AllStages
    /\ Stage("FinalResearchReport", PortfolioManager) \in AllStages
    /\ \A s \in AllStages : s.kind \in Kinds
    /\ \A s \in AllStages : s.kind = "RevisionBrief" => s.node \in ToSet(Researchers)
    /\ \A kind, node : Stage(kind, node).kind = kind
<1>1. \A kind, node : Stage(kind, node).kind = kind /\ Stage(kind, node).node = node
  BY DEF Stage
<1> QED
  BY <1>1, StagesOrdered, RankIs

\* Of two researchers one is not the other.
LEMMA OpponentType == \A node : Opponent(node) \in ToSet(Researchers)
<1> TAKE node
<1>1. Researchers \in Seq(ToSet(Researchers)) /\ IsInjective(Researchers) /\ Len(Researchers) = 2
  BY RolesAssumption
<1>2. DOMAIN Researchers = {1, 2}
  BY <1>1
<1>3. Researchers[1] \in ToSet(Researchers) /\ Researchers[2] \in ToSet(Researchers)
  BY <1>2 DEF ToSet
<1>4. Researchers[1] # Researchers[2]
  BY <1>1, <1>2 DEF IsInjective
<1>5. \E n \in ToSet(Researchers) : n # node
  BY <1>3, <1>4
<1> QED
  BY <1>5 DEF Opponent

\* Two sessions that agree before a stage.
Agree(f, g, s) == \A t \in AllStages : Rank[t.kind] < Rank[s.kind] => f[t] = g[t]

\* What a request is made of, where its stage comes late enough.
LEMMA PartsAgree ==
    ASSUME NEW s \in AllStages, NEW f, NEW g, Agree(f, g, s)
    PROVE  /\ Rank[s.kind] > 1 => Corpus(f) = Corpus(g)
           /\ Rank[s.kind] > 2 => \A n \in ToSet(Researchers) : Field(f, "InitialBrief", n) = Field(g, "InitialBrief", n)
           /\ Rank[s.kind] > 3 => UpdatedClaims(f) = UpdatedClaims(g)
           /\ Rank[s.kind] > 4 => Field(f, "ResearchEvaluation", ResearchManager)
                                   = Field(g, "ResearchEvaluation", ResearchManager)
           /\ Rank[s.kind] > 6 => Union(f, "RiskBrief", Risks) = Union(g, "RiskBrief", Risks)
           /\ Rank[s.kind] > 7 => Field(f, "IndependentAssessment", PortfolioManager)
                                   = Field(g, "IndependentAssessment", PortfolioManager)
           /\ Rank[s.kind] > 8 => Field(f, "UnderwritingDraft", PortfolioManager)
                                   = Field(g, "UnderwritingDraft", PortfolioManager)
           /\ Rank[s.kind] > 9 => Field(f, "ForwardRevision", PortfolioManager)
                                   = Field(g, "ForwardRevision", PortfolioManager)
<1>1. \A kind, node : Stage(kind, node) \in AllStages /\ Rank[kind] < Rank[s.kind] => Field(f, kind, node) = Field(g, kind, node)
  BY StageIs DEF Agree, Field
<1>2. PICK r \in Int : r = Rank[s.kind]
  BY StageIs, RankType
<1>3. r > 1 => \A n \in ToSet(Analysts) : Field(f, "AnalystReport", n) = Field(g, "AnalystReport", n)
  BY <1>1, <1>2, StageIs, RankIs
<1>4. r > 2 => \A n \in ToSet(Researchers) : Field(f, "InitialBrief", n) = Field(g, "InitialBrief", n)
  BY <1>1, <1>2, StageIs, RankIs
<1>5. r > 3 => \A n \in ToSet(Researchers) : Field(f, "RevisionBrief", n) = Field(g, "RevisionBrief", n)
  BY <1>1, <1>2, StageIs, RankIs
<1>6. r > 6 => \A n \in ToSet(Risks) : Field(f, "RiskBrief", n) = Field(g, "RiskBrief", n)
  BY <1>1, <1>2, StageIs, RankIs
<1>7. r > 1 => Corpus(f) = Corpus(g)
  BY <1>3 DEF Corpus, Union
<1>8. r > 3 => UpdatedClaims(f) = UpdatedClaims(g)
  <2> SUFFICES ASSUME r > 3 PROVE UpdatedClaims(f) = UpdatedClaims(g)
    OBVIOUS
  <2>1. r > 2
    BY <1>2
  <2> QED
    BY <2>1, <1>4, <1>5 DEF UpdatedClaims, Union
<1>9. r > 6 => Union(f, "RiskBrief", Risks) = Union(g, "RiskBrief", Risks)
  BY <1>6 DEF Union
<1>10. /\ r > 4 => Field(f, "ResearchEvaluation", ResearchManager) = Field(g, "ResearchEvaluation", ResearchManager)
       /\ r > 7 => Field(f, "IndependentAssessment", PortfolioManager) = Field(g, "IndependentAssessment", PortfolioManager)
       /\ r > 8 => Field(f, "UnderwritingDraft", PortfolioManager) = Field(g, "UnderwritingDraft", PortfolioManager)
       /\ r > 9 => Field(f, "ForwardRevision", PortfolioManager) = Field(g, "ForwardRevision", PortfolioManager)
  BY <1>1, <1>2, StageIs, RankIs
<1> QED
  BY <1>2, <1>4, <1>7, <1>8, <1>9, <1>10

\* A request depends on the stages of earlier kinds only.
LEMMA RequestAgrees ==
    ASSUME NEW s \in AllStages, NEW f, NEW g, Agree(f, g, s)
    PROVE  Request(s, f) = Request(s, g)
<1>1. s.kind \in Kinds
  BY StageIs
<1>2. CASE s.kind \in {"AnalystReport", "IndependentAssessment"}
  BY <1>2 DEF Request
<1>3. CASE s.kind = "InitialBrief"
  BY <1>3, PartsAgree, RankIs DEF Request
<1>4. CASE s.kind = "RevisionBrief"
  <2>1. s.node \in ToSet(Researchers) /\ Opponent(s.node) \in ToSet(Researchers) /\ Rank[s.kind] = 3
    BY <1>4, StageIs, OpponentType, RankIs
  <2>2. Corpus(f) = Corpus(g) /\ \A n \in ToSet(Researchers) : Field(f, "InitialBrief", n) = Field(g, "InitialBrief", n)
    BY <2>1, PartsAgree
  <2> QED
    BY <1>4, <2>1, <2>2 DEF Request
<1>5. CASE s.kind \in {"ResearchEvaluation", "RiskBrief"}
  <2>1. Corpus(f) = Corpus(g) /\ UpdatedClaims(f) = UpdatedClaims(g)
    BY <1>5, PartsAgree, RankIs
  <2> QED
    BY <1>5, <2>1 DEF Request
<1>6. CASE s.kind = "ExecutionReview"
  <2>1. /\ Corpus(f) = Corpus(g) /\ UpdatedClaims(f) = UpdatedClaims(g)
        /\ Field(f, "ResearchEvaluation", ResearchManager) = Field(g, "ResearchEvaluation", ResearchManager)
    BY <1>6, PartsAgree, RankIs
  <2> QED
    BY <1>6, <2>1 DEF Request
<1>7. CASE s.kind = "UnderwritingDraft"
  <2>1. /\ Corpus(f) = Corpus(g) /\ UpdatedClaims(f) = UpdatedClaims(g)
        /\ Union(f, "RiskBrief", Risks) = Union(g, "RiskBrief", Risks)
    BY <1>7, PartsAgree, RankIs
  <2> QED
    BY <1>7, <2>1 DEF Request
<1>8. CASE s.kind = "ForwardRevision"
  <2>1. /\ Corpus(f) = Corpus(g) /\ UpdatedClaims(f) = UpdatedClaims(g)
        /\ Union(f, "RiskBrief", Risks) = Union(g, "RiskBrief", Risks)
        /\ Field(f, "IndependentAssessment", PortfolioManager) = Field(g, "IndependentAssessment", PortfolioManager)
        /\ Field(f, "UnderwritingDraft", PortfolioManager) = Field(g, "UnderwritingDraft", PortfolioManager)
    BY <1>8, PartsAgree, RankIs
  <2> QED
    BY <1>8, <2>1 DEF Request
<1>9. CASE s.kind = "FinalResearchReport"
  <2>1. /\ Corpus(f) = Corpus(g)
        /\ Field(f, "UnderwritingDraft", PortfolioManager) = Field(g, "UnderwritingDraft", PortfolioManager)
        /\ Field(f, "ForwardRevision", PortfolioManager) = Field(g, "ForwardRevision", PortfolioManager)
    BY <1>9, PartsAgree, RankIs
  <2> QED
    BY <1>9, <2>1 DEF Request
<1> QED
  BY <1>1, <1>2, <1>3, <1>4, <1>5, <1>6, <1>7, <1>8, <1>9, RankIs

\* Once both researchers have revised, the reader rebuilds what was requested.
LEMMA RequestBinds ==
    ASSUME NEW e, e.stage \in AllStages, NEW record, e.request = Request(e.stage, record),
           Rank[e.stage.kind] > 3 => Set(record, "RevisionBrief", Researchers)
    PROVE  Binds(e, record)
<1>1. PICK s \in AllStages : s = e.stage
  OBVIOUS
<1>2. s.kind \in Kinds
  BY StageIs
<1>3. Rank[s.kind] > 3 => ClaimsOf(record) = UpdatedClaims(record)
  BY <1>1 DEF ClaimsOf
<1>4. PICK request : request = e.request /\ request = Request(s, record)
  BY <1>1
<1>5. Extended(Sources, [analysts |-> Union(record, "AnalystReport", Analysts)]) = Corpus(record)
  BY DEF Corpus
<1>6. CASE s.kind \in {"AnalystReport", "IndependentAssessment"}
  BY <1>1, <1>4, <1>6 DEF Request, Binds
<1>7. CASE s.kind = "InitialBrief"
  BY <1>1, <1>4, <1>5, <1>7 DEF Request, Binds
<1>8. CASE s.kind = "RevisionBrief"
  BY <1>1, <1>4, <1>5, <1>8 DEF Request, Binds
<1>9. CASE s.kind \in {"ResearchEvaluation", "RiskBrief"}
  <2>1. ClaimsOf(record) = UpdatedClaims(record)
    BY <1>3, <1>9, RankIs
  <2> QED
    BY <2>1, <1>1, <1>4, <1>5, <1>9 DEF Request, Binds
<1>10. CASE s.kind = "ExecutionReview"
  <2>1. ClaimsOf(record) = UpdatedClaims(record)
    BY <1>3, <1>10, RankIs
  <2> QED
    BY <2>1, <1>1, <1>4, <1>5, <1>10 DEF Request, Binds
<1>11. CASE s.kind = "UnderwritingDraft"
  <2>1. ClaimsOf(record) = UpdatedClaims(record)
    BY <1>3, <1>11, RankIs
  <2> QED
    BY <2>1, <1>1, <1>4, <1>5, <1>11 DEF Request, Binds
<1>12. CASE s.kind = "ForwardRevision"
  <2>1. ClaimsOf(record) = UpdatedClaims(record)
    BY <1>3, <1>12, RankIs
  <2>2. {p \in Field(record, "IndependentAssessment", PortfolioManager) : p[2] # "rating"}
           = BeliefView(Field(record, "IndependentAssessment", PortfolioManager))
    BY DEF BeliefView
  <2> QED
    BY <2>1, <2>2, <1>1, <1>4, <1>5, <1>12 DEF Request, Binds
<1>13. CASE s.kind = "FinalResearchReport"
  BY <1>1, <1>4, <1>5, <1>13 DEF Request, Binds
<1> QED
  BY <1>2, <1>6, <1>7, <1>8, <1>9, <1>10, <1>11, <1>12, <1>13, RankIs

---------------------------------------------------------------------------
(* The invariant.  A stage that is done has its answer or a placeholder;   *)
(* of the others, only the one that a halted run stopped at was asked or   *)
(* set; and every request that was made is the one of the session as it is *)
(* now, since a request depends on earlier stages only.                    *)

Asked(s) == \E e \in ToSet(exchanges) : e.stage = s

ThesisInv ==
    /\ at \in 0 .. Len(Stages) /\ ended \in {"running", "completed", "halted"}
    /\ ended = "halted" => at < Len(Stages)
    /\ ended = "completed" => at = Len(Stages)
    /\ fields = [s \in AllStages |-> fields[s]]
    /\ \A p \in 1 .. Len(Stages) :
          /\ p <= at => fields[Stages[p]] = IF Asked(Stages[p]) THEN AnswerOf(Stages[p]) ELSE {}
          /\ p > at /\ (Asked(Stages[p]) \/ fields[Stages[p]] # None) => ended = "halted" /\ p = at + 1
    /\ exchanges \in Seq(ToSet(exchanges))
    /\ \A e \in ToSet(exchanges) : e.stage \in AllStages /\ e.request = Request(e.stage, fields)

\* The session agrees with one that differs in the stage at work, before each
\* stage up to that.
LEMMA EarlierAgree ==
    ASSUME ThesisInv, at < Len(Stages), NEW f, \A s \in AllStages : s # Current => f[s] = fields[s],
           NEW p \in 1 .. at + 1
    PROVE  Agree(fields, f, Stages[p])
<1>1. at \in Nat /\ Len(Stages) \in Nat /\ p \in 1 .. Len(Stages) /\ at + 1 \in 1 .. Len(Stages)
  BY StagePlaces DEF ThesisInv
<1>2. ASSUME NEW t \in AllStages, Rank[t.kind] < Rank[Stages[p].kind]
      PROVE  f[t] = fields[t]
  <2>1. PICK q \in 1 .. Len(Stages) : Stages[q] = t
    BY StagePlaces
  <2>2. q < p
    BY <2>1, <1>1, <1>2, StagePlaces
  <2>3. q # at + 1
    BY <1>1, <2>2
  <2>4. t # Stages[at + 1]
    BY <1>1, <2>1, <2>3, StagePlaces
  <2> QED
    BY <2>4 DEF Current
<1> QED
  BY <1>2 DEF Agree

\* Where a stage that was asked is: not after the one at work.
LEMMA AskedPlace ==
    ASSUME ThesisInv, NEW e \in ToSet(exchanges)
    PROVE  \E p \in 1 .. Len(Stages) : e.stage = Stages[p] /\ p <= at + 1 /\ (p <= at \/ ended = "halted")
<1>1. e.stage \in AllStages /\ Asked(e.stage) /\ at \in Nat
  BY DEF ThesisInv, Asked
<1>2. PICK p \in 1 .. Len(Stages) : Stages[p] = e.stage
  BY <1>1, StagePlaces
<1>3. p <= at \/ p > at
  BY <1>1
<1> QED
  BY <1>1, <1>2, <1>3 DEF ThesisInv

\* So every request stays what the session says when the stage at work is set.
LEMMA RequestsStay ==
    ASSUME ThesisInv, at < Len(Stages), NEW f, \A s \in AllStages : s # Current => f[s] = fields[s]
    PROVE  /\ Current \in AllStages
           /\ \A e \in ToSet(exchanges) : e.request = Request(e.stage, f)
           /\ Request(Current, fields) = Request(Current, f)
<1>1. at + 1 \in 1 .. at + 1 /\ at + 1 \in 1 .. Len(Stages) /\ at \in Nat
  BY StagePlaces DEF ThesisInv
<1>2. Current \in AllStages
  BY <1>1, StagePlaces DEF Current
<1>3. Agree(fields, f, Current)
  BY <1>1, EarlierAgree DEF Current
<1>4. ASSUME NEW e \in ToSet(exchanges) PROVE e.request = Request(e.stage, f)
  <2>1. PICK p \in 1 .. Len(Stages) : e.stage = Stages[p] /\ p <= at + 1
    BY AskedPlace
  <2>2. p \in 1 .. at + 1
    BY <2>1, <1>1, StagePlaces
  <2>3. Agree(fields, f, e.stage)
    BY <2>1, <2>2, EarlierAgree
  <2>4. e.stage \in AllStages /\ e.request = Request(e.stage, fields)
    BY DEF ThesisInv
  <2> QED
    BY <2>3, <2>4, RequestAgrees
<1> QED
  BY <1>2, <1>3, <1>4, RequestAgrees

\* At the start nothing was asked or set.
LEMMA ThesisInitInv ==
    ASSUME ThesisInit
    PROVE  ThesisInv
<1>1. ToSet(exchanges) = {} /\ exchanges \in Seq(ToSet(exchanges))
  BY DEF ThesisInit, ToSet
<1>2. \A s \in AllStages : fields[s] = None
  BY DEF ThesisInit
<1>3. Len(Stages) \in Nat /\ \A p \in 1 .. Len(Stages) : Stages[p] \in AllStages
  BY StagePlaces
<1>4. \A s : ~Asked(s)
  BY <1>1 DEF Asked
<1>5. at = 0 /\ ended = "running"
  BY DEF ThesisInit
<1>6. fields = [s \in AllStages |-> fields[s]]
  BY DEF ThesisInit
<1>7. at \in 0 .. Len(Stages) /\ \A p \in 1 .. Len(Stages) : p > at /\ ~(p <= at)
  BY <1>3, <1>5
<1> QED
  BY <1>1, <1>2, <1>3, <1>4, <1>5, <1>6, <1>7 DEF ThesisInv

\* What an exchange adds.
LEMMA ExchangedIs ==
    ASSUME ThesisInv, exchanges' = Exchanged
    PROVE  /\ exchanges' \in Seq(ToSet(exchanges'))
           /\ ToSet(exchanges') = ToSet(exchanges) \union {[stage |-> Current, request |-> Request(Current, fields)]}
<1>1. PICK e : e = [stage |-> Current, request |-> Request(Current, fields)]
  OBVIOUS
<1>2. PICK s, X : s = exchanges /\ X = ToSet(exchanges) \union {e}
  OBVIOUS
<1>3. s \in Seq(X) /\ e \in X
  BY <1>2 DEF ThesisInv
<1>4. exchanges' = Append(s, e)
  BY <1>1, <1>2 DEF Exchanged
<1>5. ToSet(Append(s, e)) = X /\ Append(s, e) \in Seq(X)
  BY <1>2, <1>3, ToSetAppend
<1> QED
  BY <1>1, <1>2, <1>4, <1>5

\* A stage that is answered is done, with its request and its answer.
LEMMA AnsweredInv ==
    ASSUME ThesisInv, Answered
    PROVE  ThesisInv'
<1>1. /\ ended = "running" /\ at < Len(Stages) /\ exchanges' = Exchanged /\ at' = at + 1
      /\ fields' = [fields EXCEPT ![Current] = AnswerOf(Current)]
      /\ ended' = IF at + 1 = Len(Stages) THEN "completed" ELSE ended
  BY DEF Answered, Running
<1>2. at \in Nat /\ Len(Stages) \in Nat /\ at + 1 \in 1 .. Len(Stages) /\ fields = [s \in AllStages |-> fields[s]]
  BY <1>1, StagePlaces DEF ThesisInv
<1>3. PICK f : f = [fields EXCEPT ![Current] = AnswerOf(Current)]
  OBVIOUS
<1>4. Current \in AllStages
  BY <1>2, StagePlaces DEF Current
<1>5. /\ f[Current] = AnswerOf(Current) /\ \A s \in AllStages : s # Current => f[s] = fields[s]
      /\ f = [s \in AllStages |-> f[s]]
  BY <1>2, <1>3, <1>4
<1>6. /\ \A e \in ToSet(exchanges) : e.request = Request(e.stage, f)
      /\ Request(Current, fields) = Request(Current, f)
  BY <1>1, <1>5, RequestsStay
<1>7. PICK new : new = [stage |-> Current, request |-> Request(Current, fields)]
  OBVIOUS
<1>8. exchanges' \in Seq(ToSet(exchanges')) /\ ToSet(exchanges') = ToSet(exchanges) \union {new}
  BY <1>1, <1>7, ExchangedIs
<1>9. \A e \in ToSet(exchanges') : e.stage \in AllStages /\ e.request = Request(e.stage, fields')
  <2>1. \A e \in ToSet(exchanges) : e.stage \in AllStages
    BY DEF ThesisInv
  <2>2. new.stage = Current /\ new.request = Request(Current, fields)
    BY <1>7
  <2>3. fields' = f
    BY <1>1, <1>3
  <2> QED
    BY <2>1, <2>2, <2>3, <1>4, <1>6, <1>8
<1>10. \A s : Asked(s)' <=> (Asked(s) \/ s = Current)
  BY <1>7, <1>8 DEF Asked
<1>11. ASSUME NEW p \in 1 .. Len(Stages)
       PROVE  /\ p <= at' => fields'[Stages[p]] = IF Asked(Stages[p])' THEN AnswerOf(Stages[p]) ELSE {}
              /\ p > at' /\ (Asked(Stages[p])' \/ fields'[Stages[p]] # None) => ended' = "halted" /\ p = at' + 1
  <2>1. Stages[p] \in AllStages /\ (Stages[p] = Current <=> p = at + 1)
    BY <1>2, StagePlaces DEF Current
  <2>2. fields' = f
    BY <1>1, <1>3
  <2>3. CASE p = at + 1
    <3>1. Stages[p] = Current /\ Asked(Stages[p])' /\ p <= at' /\ ~(p > at')
      BY <2>1, <2>3, <1>1, <1>2, <1>10
    <3> QED
      BY <3>1, <2>2, <1>5
  <2>4. CASE p <= at
    <3>1. Stages[p] # Current /\ ~(p > at') /\ fields'[Stages[p]] = fields[Stages[p]]
      BY <2>1, <2>2, <2>4, <1>1, <1>2, <1>5
    <3>2. Asked(Stages[p])' <=> Asked(Stages[p])
      BY <3>1, <1>10
    <3> QED
      BY <3>1, <3>2, <2>4 DEF ThesisInv
  <2>5. CASE p > at + 1
    <3>1. Stages[p] # Current /\ ~(p <= at') /\ p > at /\ fields'[Stages[p]] = fields[Stages[p]]
      BY <2>1, <2>2, <2>5, <1>1, <1>2, <1>5
    <3>2. ~Asked(Stages[p]) /\ fields[Stages[p]] = None
      BY <3>1, <1>1 DEF ThesisInv
    <3> QED
      BY <3>1, <3>2, <1>10
  <2> QED
    BY <1>2, <2>3, <2>4, <2>5
<1>12. /\ at' \in 0 .. Len(Stages) /\ ended' \in {"running", "completed", "halted"}
       /\ ended' = "halted" => at' < Len(Stages)
       /\ ended' = "completed" => at' = Len(Stages)
  BY <1>1, <1>2
<1>13. fields' = [s \in AllStages |-> fields'[s]]
  BY <1>1, <1>3, <1>5
<1> QED
  BY <1>8, <1>9, <1>11, <1>12, <1>13 DEF ThesisInv

\* A stage that is left out is done, with a placeholder.
LEMMA LeaveOutInv ==
    ASSUME ThesisInv, LeaveOut
    PROVE  ThesisInv'
<1>1. /\ ended = "running" /\ at < Len(Stages) /\ exchanges' = exchanges /\ at' = at + 1
      /\ fields' = [fields EXCEPT ![Current] = {}] /\ ended' = ended
  BY DEF LeaveOut, Running
<1>2. at \in Nat /\ Len(Stages) \in Nat /\ at + 1 \in 1 .. Len(Stages) /\ fields = [s \in AllStages |-> fields[s]]
  BY <1>1, StagePlaces DEF ThesisInv
<1>3. PICK f : f = [fields EXCEPT ![Current] = {}]
  OBVIOUS
<1>4. Current \in AllStages
  BY <1>2, StagePlaces DEF Current
<1>5. /\ f[Current] = {} /\ \A s \in AllStages : s # Current => f[s] = fields[s]
      /\ f = [s \in AllStages |-> f[s]]
  BY <1>2, <1>3, <1>4
<1>6. \A e \in ToSet(exchanges) : e.request = Request(e.stage, f)
  BY <1>1, <1>5, RequestsStay
<1>7. exchanges' \in Seq(ToSet(exchanges')) /\ ToSet(exchanges') = ToSet(exchanges)
  BY <1>1 DEF ThesisInv
<1>8. \A e \in ToSet(exchanges') : e.stage \in AllStages /\ e.request = Request(e.stage, fields')
  BY <1>1, <1>3, <1>6, <1>7 DEF ThesisInv
<1>9. \A s : Asked(s)' <=> Asked(s)
  BY <1>7 DEF Asked
<1>10. ASSUME NEW p \in 1 .. Len(Stages)
       PROVE  /\ p <= at' => fields'[Stages[p]] = IF Asked(Stages[p])' THEN AnswerOf(Stages[p]) ELSE {}
              /\ p > at' /\ (Asked(Stages[p])' \/ fields'[Stages[p]] # None) => ended' = "halted" /\ p = at' + 1
  <2>1. Stages[p] \in AllStages /\ (Stages[p] = Current <=> p = at + 1)
    BY <1>2, StagePlaces DEF Current
  <2>2. fields' = f
    BY <1>1, <1>3
  <2>3. CASE p = at + 1
    <3>1. Stages[p] = Current /\ p > at /\ ~(p > at')
      BY <2>1, <2>3, <1>1, <1>2
    <3>2. ~Asked(Stages[p])
      BY <3>1, <1>1 DEF ThesisInv
    <3> QED
      BY <3>1, <3>2, <2>2, <1>5, <1>9
  <2>4. CASE p <= at
    <3>1. Stages[p] # Current /\ ~(p > at') /\ fields'[Stages[p]] = fields[Stages[p]]
      BY <2>1, <2>2, <2>4, <1>1, <1>2, <1>5
    <3> QED
      BY <3>1, <2>4, <1>9 DEF ThesisInv
  <2>5. CASE p > at + 1
    <3>1. Stages[p] # Current /\ ~(p <= at') /\ p > at /\ fields'[Stages[p]] = fields[Stages[p]]
      BY <2>1, <2>2, <2>5, <1>1, <1>2, <1>5
    <3>2. ~Asked(Stages[p]) /\ fields[Stages[p]] = None
      BY <3>1, <1>1 DEF ThesisInv
    <3> QED
      BY <3>1, <3>2, <1>9
  <2> QED
    BY <1>2, <2>3, <2>4, <2>5
<1>11. /\ at' \in 0 .. Len(Stages) /\ ended' \in {"running", "completed", "halted"}
       /\ ended' = "halted" => at' < Len(Stages)
       /\ ended' = "completed" => at' = Len(Stages)
  BY <1>1, <1>2
<1>12. fields' = [s \in AllStages |-> fields'[s]]
  BY <1>1, <1>3, <1>5
<1> QED
  BY <1>7, <1>8, <1>10, <1>11, <1>12 DEF ThesisInv

\* A refused answer leaves an exchange of the stage at work, and perhaps its field.
LEMMA RefusedInv ==
    ASSUME ThesisInv, Refused
    PROVE  ThesisInv'
<1>1. /\ ended = "running" /\ at < Len(Stages) /\ exchanges' = Exchanged /\ at' = at /\ ended' = "halted"
      /\ fields' = [fields EXCEPT ![Current] = AnswerOf(Current)] \/ fields' = fields
  BY DEF Refused, Running
<1>2. at \in Nat /\ Len(Stages) \in Nat /\ at + 1 \in 1 .. Len(Stages) /\ fields = [s \in AllStages |-> fields[s]]
  BY <1>1, StagePlaces DEF ThesisInv
<1>3. PICK f : f = fields'
  OBVIOUS
<1>4. Current \in AllStages
  BY <1>2, StagePlaces DEF Current
<1>5. (\A s \in AllStages : s # Current => f[s] = fields[s]) /\ f = [s \in AllStages |-> f[s]]
  BY <1>1, <1>2, <1>3, <1>4
<1>6. /\ \A e \in ToSet(exchanges) : e.request = Request(e.stage, f)
      /\ Request(Current, fields) = Request(Current, f)
  BY <1>1, <1>5, RequestsStay
<1>7. PICK new : new = [stage |-> Current, request |-> Request(Current, fields)]
  OBVIOUS
<1>8. exchanges' \in Seq(ToSet(exchanges')) /\ ToSet(exchanges') = ToSet(exchanges) \union {new}
  BY <1>1, <1>7, ExchangedIs
<1>9. \A e \in ToSet(exchanges') : e.stage \in AllStages /\ e.request = Request(e.stage, fields')
  <2>1. \A e \in ToSet(exchanges) : e.stage \in AllStages
    BY DEF ThesisInv
  <2>2. new.stage = Current /\ new.request = Request(Current, fields)
    BY <1>7
  <2> QED
    BY <2>1, <2>2, <1>3, <1>4, <1>6, <1>8
<1>10. \A s : Asked(s)' <=> (Asked(s) \/ s = Current)
  BY <1>7, <1>8 DEF Asked
<1>11. ASSUME NEW p \in 1 .. Len(Stages)
       PROVE  /\ p <= at' => fields'[Stages[p]] = IF Asked(Stages[p])' THEN AnswerOf(Stages[p]) ELSE {}
              /\ p > at' /\ (Asked(Stages[p])' \/ fields'[Stages[p]] # None) => ended' = "halted" /\ p = at' + 1
  <2>1. Stages[p] \in AllStages /\ (Stages[p] = Current <=> p = at + 1)
    BY <1>2, StagePlaces DEF Current
  <2>2. CASE p = at + 1
    BY <2>2, <1>1, <1>2
  <2>3. CASE p # at + 1
    <3>1. fields'[Stages[p]] = fields[Stages[p]] /\ (Asked(Stages[p])' <=> Asked(Stages[p]))
      BY <2>1, <2>3, <1>3, <1>5, <1>10
    <3> QED
      BY <3>1, <1>1 DEF ThesisInv
  <2> QED
    BY <2>2, <2>3
<1>12. /\ at' \in 0 .. Len(Stages) /\ ended' \in {"running", "completed", "halted"}
       /\ ended' = "halted" => at' < Len(Stages)
       /\ ended' = "completed" => at' = Len(Stages)
  BY <1>1, <1>2
<1>13. fields' = [s \in AllStages |-> fields'[s]]
  BY <1>3, <1>5
<1> QED
  BY <1>8, <1>9, <1>11, <1>12, <1>13 DEF ThesisInv

\* A run that halts without an answer, or does nothing.
LEMMA HaltedInv ==
    ASSUME ThesisInv, Halted \/ UNCHANGED thesisVars
    PROVE  ThesisInv'
<1>1. /\ at' = at /\ fields' = fields /\ exchanges' = exchanges
      /\ \/ ended' = ended
         \/ ended = "running" /\ ended' = "halted" /\ at < Len(Stages)
  BY DEF Halted, Running, thesisVars
<1>2. \A s : Asked(s)' <=> Asked(s)
  BY <1>1 DEF Asked
<1>3. /\ at' \in 0 .. Len(Stages) /\ ended' \in {"running", "completed", "halted"}
      /\ ended' = "halted" => at' < Len(Stages)
      /\ ended' = "completed" => at' = Len(Stages)
  BY <1>1 DEF ThesisInv
<1>4. \A p \in 1 .. Len(Stages) :
          /\ p <= at => fields[Stages[p]] = IF Asked(Stages[p])' THEN AnswerOf(Stages[p]) ELSE {}
          /\ p > at /\ (Asked(Stages[p])' \/ fields[Stages[p]] # None) => ended' = "halted" /\ p = at + 1
  BY <1>1, <1>2 DEF ThesisInv
<1>5. /\ exchanges \in Seq(ToSet(exchanges)) /\ fields = [s \in AllStages |-> fields[s]]
      /\ \A e \in ToSet(exchanges) : e.stage \in AllStages /\ e.request = Request(e.stage, fields)
  BY DEF ThesisInv
<1> QED
  BY <1>1, <1>3, <1>4, <1>5 DEF ThesisInv

---------------------------------------------------------------------------
(* What the reader finds. *)

\* A stage that is done has a field.
LEMMA DoneIsSet ==
    ASSUME ThesisInv, NEW p \in 1 .. Len(Stages), p <= at
    PROVE  fields[Stages[p]] # None /\ fields[Stages[p]] \subseteq AnswerOf(Stages[p])
<1>1. Stages[p] \in AllStages
  BY StagePlaces
<1>2. fields[Stages[p]] \in {{}, AnswerOf(Stages[p])}
  BY DEF ThesisInv
<1>3. None # {} /\ None # AnswerOf(Stages[p])
  BY <1>1, NoneAssumption
<1> QED
  BY <1>2, <1>3

\* The record of a run that has ended.
LEMMA DeliveredIs ==
    ASSUME ThesisInv, ended # "running"
    PROVE  \/ ended = "completed" /\ at = Len(Stages) /\ Delivered = fields
           \/ /\ ended = "halted" /\ at + 1 \in 1 .. Len(Stages)
              /\ Current \in AllStages /\ Delivered[Current] = None
              /\ \A s \in AllStages : s # Current => Delivered[s] = fields[s]
<1>1. ended = "completed" \/ ended = "halted"
  BY DEF ThesisInv
<1>2. CASE ended = "completed"
  BY <1>2 DEF ThesisInv, Delivered
<1>3. CASE ended = "halted"
  <2>1. at + 1 \in 1 .. Len(Stages)
    BY <1>3, StagePlaces DEF ThesisInv
  <2>2. Current \in AllStages
    BY <2>1, StagePlaces DEF Current
  <2>3. Delivered = [fields EXCEPT ![Current] = None] /\ fields = [s \in AllStages |-> fields[s]]
    BY <1>3 DEF Delivered, ThesisInv
  <2> QED
    BY <1>3, <2>1, <2>2, <2>3
<1> QED
  BY <1>1, <1>2, <1>3

\* Every request is bound by the record.
LEMMA RequestsBound ==
    ASSUME ThesisInv, ended # "running", NEW i \in DOMAIN exchanges
    PROVE  Binds(exchanges[i], Delivered)
<1>1. PICK e : e = exchanges[i]
  OBVIOUS
<1>2. e \in ToSet(exchanges)
  BY <1>1 DEF ToSet
<1>3. e.stage \in AllStages /\ e.request = Request(e.stage, fields) /\ at \in Nat
  BY <1>2 DEF ThesisInv
<1>4. e.request = Request(e.stage, Delivered)
  <2>1. CASE ended = "completed"
    BY <2>1, <1>3, DeliveredIs
  <2>2. CASE ended = "halted"
    <3>1. at < Len(Stages) /\ \A s \in AllStages : s # Current => Delivered[s] = fields[s]
      BY <2>2, DeliveredIs DEF ThesisInv
    <3> QED
      BY <3>1, <1>2, RequestsStay
  <2> QED
    BY <2>1, <2>2, DeliveredIs
<1>5. ASSUME Rank[e.stage.kind] > 3, NEW n \in ToSet(Researchers)
      PROVE  Field(Delivered, "RevisionBrief", n) # None
  <2>1. PICK t \in AllStages : t = Stage("RevisionBrief", n) /\ Rank[t.kind] = 3
    BY StageIs, RankIs
  <2>2. PICK q \in 1 .. Len(Stages) : Stages[q] = t
    BY StagePlaces
  <2>3. PICK p \in 1 .. Len(Stages) : e.stage = Stages[p] /\ p <= at + 1
    BY <1>2, AskedPlace
  <2>4. e.stage.kind \in Kinds
    BY <1>3, StageIs
  <2>5. q < p
    BY <2>1, <2>2, <2>3, <2>4, <1>5, RankType, StagePlaces
  <2>6. q <= at /\ q # at + 1
    BY <2>3, <2>5, <1>3, StagePlaces
  <2>7. fields[t] # None
    BY <2>2, <2>6, DoneIsSet
  <2>8. Delivered[t] = fields[t]
    <3>1. at + 1 \in 1 .. Len(Stages) => Stages[q] # Stages[at + 1]
      BY <2>6, StagePlaces
    <3> QED
      BY <3>1, <2>2, DeliveredIs DEF Current
  <2> QED
    BY <2>1, <2>7, <2>8 DEF Field
<1>6. Rank[e.stage.kind] > 3 => Set(Delivered, "RevisionBrief", Researchers)
  BY <1>5 DEF Set
<1> QED
  BY <1>1, <1>3, <1>4, <1>6, RequestBinds

\* Every field of the record is what its stage answered.
LEMMA FieldsBound ==
    ASSUME ThesisInv, ended # "running"
    PROVE  FieldsProven(Delivered)
<1>1. at \in Nat /\ Len(Stages) \in Nat
  BY StagePlaces DEF ThesisInv
<1> SUFFICES ASSUME NEW s \in AllStages
             PROVE  LET answered == \E i \in DOMAIN exchanges : exchanges[i].stage = s
                        refused == ended = "halted" /\ s = Current
                    IN CASE answered /\ ~refused -> Delivered[s] = AnswerOf(s)
                         [] s \in {Stages[i] : i \in 1 .. at} /\ ~answered -> Delivered[s] = {}
                         [] OTHER -> Delivered[s] = None
  BY DEF FieldsProven
<1>2. (\E i \in DOMAIN exchanges : exchanges[i].stage = s) <=> Asked(s)
  BY DEF Asked, ToSet
<1>3. PICK p \in 1 .. Len(Stages) : Stages[p] = s
  BY StagePlaces
<1>4. s \in {Stages[i] : i \in 1 .. at} <=> p <= at
  <2>1. p <= at => p \in 1 .. at
    BY <1>1
  <2>2. ASSUME NEW i \in 1 .. at, s = Stages[i] PROVE p <= at
    <3>1. i \in 1 .. Len(Stages)
      BY <1>1 DEF ThesisInv
    <3>2. p = i
      BY <3>1, <2>2, <1>3, StagePlaces
    <3> QED
      BY <3>2, <1>1
  <2> QED
    BY <2>1, <2>2, <1>3
<1>5. CASE p <= at
  <2>1. fields[s] = IF Asked(s) THEN AnswerOf(s) ELSE {}
    BY <1>3, <1>5 DEF ThesisInv
  <2>2. at + 1 \in 1 .. Len(Stages) => s # Current
    BY <1>1, <1>3, <1>5, StagePlaces DEF Current
  <2>3. Delivered[s] = fields[s] /\ ~(ended = "halted" /\ s = Current)
    BY <2>2, DeliveredIs
  <2> QED
    BY <2>1, <2>3, <1>2, <1>4, <1>5
<1>6. CASE p > at
  <2>1. ended = "halted" /\ at + 1 \in 1 .. Len(Stages)
    BY <1>1, <1>6, DeliveredIs
  <2>2. CASE p = at + 1
    <3>1. s = Current /\ Delivered[s] = None /\ ~(p <= at)
      BY <2>1, <2>2, <1>1, <1>3, DeliveredIs DEF Current
    <3> QED
      BY <3>1, <2>1, <1>4
  <2>3. CASE p # at + 1
    <3>1. ~Asked(s) /\ fields[s] = None /\ ~(p <= at)
      BY <2>3, <1>1, <1>3, <1>6 DEF ThesisInv
    <3>2. s # Current
      BY <2>1, <2>3, <1>3, StagePlaces DEF Current
    <3>3. Delivered[s] = None
      BY <2>1, <3>1, <3>2, DeliveredIs
    <3> QED
      BY <3>1, <3>3, <1>2, <1>4
  <2> QED
    BY <2>2, <2>3
<1> QED
  BY <1>1, <1>5, <1>6

---------------------------------------------------------------------------
(* What an answer rests on.  Reach names, for each kind but the trader's,  *)
(* a set of kinds that holds what such a stage reads and, with each of its *)
(* members, what that reads in turn; of all of these it is the text.       *)

Reach == [AnalystReport |-> {},
          InitialBrief |-> {"AnalystReport"},
          RevisionBrief |-> {"AnalystReport", "InitialBrief"},
          ResearchEvaluation |-> {"AnalystReport", "InitialBrief", "RevisionBrief"},
          RiskBrief |-> {"AnalystReport", "InitialBrief", "RevisionBrief"},
          IndependentAssessment |-> {},
          UnderwritingDraft |-> {"AnalystReport", "InitialBrief", "RevisionBrief", "RiskBrief"},
          ForwardRevision |-> {"AnalystReport", "InitialBrief", "RevisionBrief", "RiskBrief",
                               "IndependentAssessment", "UnderwritingDraft"},
          FinalResearchReport |-> {"AnalystReport", "InitialBrief", "RevisionBrief", "RiskBrief",
                                   "IndependentAssessment", "UnderwritingDraft", "ForwardRevision"}]

Texts(kinds) == {<<t, "text">> : t \in {u \in AllStages : u.kind \in kinds}}
Within(s) == Texts(Reach[s.kind])

\* The sets of kinds, one by one.
LEMMA ReachIs ==
    /\ Reach["AnalystReport"] = {} /\ Reach["IndependentAssessment"] = {}
    /\ Reach["InitialBrief"] = {"AnalystReport"}
    /\ Reach["RevisionBrief"] = {"AnalystReport", "InitialBrief"}
    /\ Reach["ResearchEvaluation"] = {"AnalystReport", "InitialBrief", "RevisionBrief"}
    /\ Reach["RiskBrief"] = {"AnalystReport", "InitialBrief", "RevisionBrief"}
    /\ Reach["UnderwritingDraft"] = {"AnalystReport", "InitialBrief", "RevisionBrief", "RiskBrief"}
    /\ Reach["ForwardRevision"] = {"AnalystReport", "InitialBrief", "RevisionBrief", "RiskBrief",
                                   "IndependentAssessment", "UnderwritingDraft"}
    /\ Reach["FinalResearchReport"] = {"AnalystReport", "InitialBrief", "RevisionBrief", "RiskBrief",
                                       "IndependentAssessment", "UnderwritingDraft", "ForwardRevision"}
BY DEF Reach

Plain == {"AnalystReport", "InitialBrief", "RevisionBrief", "RiskBrief", "UnderwritingDraft", "ForwardRevision"}

\* The content of two records together.
LEMMA ContentJoin ==
    ASSUME NEW f, NEW g
    PROVE  Content(Extended(f, g)) \subseteq Content(f) \union Content(g)
<1>1. PICK h : h = Extended(f, g)
  OBVIOUS
<1>2. /\ DOMAIN h = DOMAIN f \union DOMAIN g
      /\ \A x \in DOMAIN h : h[x] = IF x \in DOMAIN g THEN g[x] ELSE f[x]
  BY <1>1 DEF Extended
<1>3. Content(h) \subseteq Content(f) \union Content(g)
  BY <1>2 DEF Content
<1> QED
  BY <1>1, <1>3

\* The stages of a kind that answers in text only, if they are earlier and set.
LEMMA FieldTexts ==
    ASSUME NEW s \in AllStages, NEW f, \A t \in AllStages : Rank[t.kind] < Rank[s.kind] => f[t] \subseteq AnswerOf(t),
           NEW t \in AllStages, t.kind \in Plain, Rank[t.kind] < Rank[s.kind]
    PROVE  f[t] \subseteq Texts({t.kind})
<1>1. f[t] \subseteq AnswerOf(t)
  OBVIOUS
<1>2. AnswerOf(t) = {<<t, "text">>}
  BY DEF AnswerOf, Plain
<1>3. <<t, "text">> \in Texts({t.kind})
  BY DEF Texts
<1> QED
  BY <1>1, <1>2, <1>3

\* The texts of more kinds.
LEMMA TextsGrow == \A small, large : small \subseteq large => Texts(small) \subseteq Texts(large)
BY DEF Texts

\* What a request is made of, as texts of the kinds before it.
LEMMA PartsTexts ==
    ASSUME NEW s \in AllStages, NEW f, \A t \in AllStages : Rank[t.kind] < Rank[s.kind] => f[t] \subseteq AnswerOf(t)
    PROVE  /\ Rank[s.kind] > 1 => Content(Corpus(f)) \subseteq Texts({"AnalystReport"})
           /\ Rank[s.kind] > 2 =>
                 \A n \in ToSet(Researchers) : Field(f, "InitialBrief", n) \subseteq Texts({"InitialBrief"})
           /\ Rank[s.kind] > 3 => UpdatedClaims(f) \subseteq Texts({"InitialBrief", "RevisionBrief"})
           /\ Rank[s.kind] > 6 => Union(f, "RiskBrief", Risks) \subseteq Texts({"RiskBrief"})
           /\ Rank[s.kind] > 7 => BeliefView(Field(f, "IndependentAssessment", PortfolioManager))
                                     \subseteq Texts({"IndependentAssessment"})
           /\ Rank[s.kind] > 8 => Field(f, "UnderwritingDraft", PortfolioManager) \subseteq Texts({"UnderwritingDraft"})
           /\ Rank[s.kind] > 9 => Field(f, "ForwardRevision", PortfolioManager) \subseteq Texts({"ForwardRevision"})
<1>1. PICK r \in Int : r = Rank[s.kind]
  BY StageIs, RankType
<1>2. ASSUME NEW kind \in Plain, NEW n, Stage(kind, n) \in AllStages, Rank[kind] < r
      PROVE  Field(f, kind, n) \subseteq Texts({kind})
  <2>1. PICK t \in AllStages : t = Stage(kind, n) /\ t.kind = kind
    BY <1>2, StageIs
  <2>2. f[t] \subseteq Texts({t.kind})
    BY <1>1, <1>2, <2>1, FieldTexts
  <2> QED
    BY <2>1, <2>2 DEF Field
<1>3. Plain = {"AnalystReport", "InitialBrief", "RevisionBrief", "RiskBrief", "UnderwritingDraft", "ForwardRevision"}
  BY DEF Plain
<1>4. r > 1 => Union(f, "AnalystReport", Analysts) \subseteq Texts({"AnalystReport"})
  <2>1. r > 1 => \A n \in ToSet(Analysts) : Field(f, "AnalystReport", n) \subseteq Texts({"AnalystReport"})
    BY <1>2, <1>3, StageIs, RankIs
  <2> QED
    BY <2>1 DEF Union
<1>5. r > 2 => \A n \in ToSet(Researchers) : Field(f, "InitialBrief", n) \subseteq Texts({"InitialBrief"})
  BY <1>2, <1>3, StageIs, RankIs
<1>6. r > 3 => \A n \in ToSet(Researchers) : Field(f, "RevisionBrief", n) \subseteq Texts({"RevisionBrief"})
  BY <1>2, <1>3, StageIs, RankIs
<1>7. r > 6 => Union(f, "RiskBrief", Risks) \subseteq Texts({"RiskBrief"})
  <2>1. r > 6 => \A n \in ToSet(Risks) : Field(f, "RiskBrief", n) \subseteq Texts({"RiskBrief"})
    BY <1>2, <1>3, StageIs, RankIs
  <2> QED
    BY <2>1 DEF Union
<1>8. /\ r > 8 => Field(f, "UnderwritingDraft", PortfolioManager) \subseteq Texts({"UnderwritingDraft"})
      /\ r > 9 => Field(f, "ForwardRevision", PortfolioManager) \subseteq Texts({"ForwardRevision"})
  BY <1>2, <1>3, StageIs, RankIs
<1>9. r > 3 => UpdatedClaims(f) \subseteq Texts({"InitialBrief", "RevisionBrief"})
  <2> SUFFICES ASSUME r > 3 PROVE UpdatedClaims(f) \subseteq Texts({"InitialBrief", "RevisionBrief"})
    OBVIOUS
  <2>1. r > 2
    BY <1>1
  <2>2. /\ Union(f, "InitialBrief", Researchers) \subseteq Texts({"InitialBrief"})
        /\ Union(f, "RevisionBrief", Researchers) \subseteq Texts({"RevisionBrief"})
    BY <2>1, <1>5, <1>6 DEF Union
  <2>3. /\ Texts({"InitialBrief"}) \subseteq Texts({"InitialBrief", "RevisionBrief"})
        /\ Texts({"RevisionBrief"}) \subseteq Texts({"InitialBrief", "RevisionBrief"})
    BY TextsGrow
  <2> QED
    BY <2>2, <2>3 DEF UpdatedClaims
<1>10. Content(Corpus(f)) \subseteq Union(f, "AnalystReport", Analysts)
  <2>1. Content(Corpus(f)) \subseteq Content(Sources) \union Content([analysts |-> Union(f, "AnalystReport", Analysts)])
    BY ContentJoin DEF Corpus
  <2>2. Content(Sources) = {}
    BY DEF Content, Sources, Computed
  <2>3. Content([analysts |-> Union(f, "AnalystReport", Analysts)]) = Union(f, "AnalystReport", Analysts)
    BY DEF Content
  <2> QED
    BY <2>1, <2>2, <2>3
<1>11. r > 7 => BeliefView(Field(f, "IndependentAssessment", PortfolioManager)) \subseteq Texts({"IndependentAssessment"})
  <2> SUFFICES ASSUME r > 7
               PROVE  BeliefView(Field(f, "IndependentAssessment", PortfolioManager)) \subseteq Texts({"IndependentAssessment"})
    OBVIOUS
  <2>1. PICK t \in AllStages : t = Stage("IndependentAssessment", PortfolioManager) /\ t.kind = "IndependentAssessment"
    BY StageIs
  <2>2. f[t] \subseteq AnswerOf(t)
    BY <2>1, <1>1, RankIs
  <2>3. AnswerOf(t) = {<<t, "text">>, <<t, "rating">>}
    BY <2>1 DEF AnswerOf
  <2>4. BeliefView(f[t]) \subseteq {<<t, "text">>}
    BY <2>2, <2>3 DEF BeliefView
  <2>5. <<t, "text">> \in Texts({"IndependentAssessment"})
    BY <2>1 DEF Texts
  <2> QED
    BY <2>1, <2>4, <2>5 DEF Field
<1> QED
  BY <1>1, <1>4, <1>5, <1>7, <1>8, <1>9, <1>10, <1>11

\* A request shows only texts of kinds that its stage may rest on.
LEMMA RequestWithin ==
    ASSUME NEW s \in AllStages, s.kind # "ExecutionReview",
           NEW f, \A t \in AllStages : Rank[t.kind] < Rank[s.kind] => f[t] \subseteq AnswerOf(t)
    PROVE  Content(Request(s, f)) \subseteq Within(s)
<1>1. s.kind \in Kinds
  BY StageIs
<1>2. \A more : Content(Extended(Corpus(f), more)) \subseteq Content(Corpus(f)) \union Content(more)
  BY ContentJoin
<1>3. \A kind : kind \in Reach[s.kind] => Texts({kind}) \subseteq Within(s)
  BY TextsGrow DEF Within
<1>4. CASE s.kind \in {"AnalystReport", "IndependentAssessment"}
  <2>1. Content(Sources) = {}
    BY DEF Content, Sources, Computed
  <2> QED
    BY <2>1, <1>4 DEF Request
<1>5. CASE s.kind = "InitialBrief"
  <2>1. Content(Corpus(f)) \subseteq Texts({"AnalystReport"})
    BY <1>5, PartsTexts, RankIs
  <2> QED
    BY <2>1, <1>3, <1>5, ReachIs DEF Request
<1>6. CASE s.kind = "RevisionBrief"
  <2>1. s.node \in ToSet(Researchers) /\ Opponent(s.node) \in ToSet(Researchers)
    BY <1>6, StageIs, OpponentType
  <2>2. /\ Content(Corpus(f)) \subseteq Texts({"AnalystReport"})
        /\ \A n \in ToSet(Researchers) : Field(f, "InitialBrief", n) \subseteq Texts({"InitialBrief"})
    BY <1>6, PartsTexts, RankIs
  <2>3. PICK own, opponent : /\ own = Field(f, "InitialBrief", s.node)
                             /\ opponent = Field(f, "InitialBrief", Opponent(s.node))
    OBVIOUS
  <2>4. PICK more : more = [own |-> own, opponent |-> opponent]
    OBVIOUS
  <2>5. Content(more) \subseteq own \union opponent
    BY <2>4 DEF Content
  <2>6. Request(s, f) = Extended(Corpus(f), more)
    BY <2>3, <2>4, <1>6 DEF Request
  <2>7. Texts({"AnalystReport"}) \subseteq Within(s) /\ Texts({"InitialBrief"}) \subseteq Within(s)
    BY <1>3, <1>6, ReachIs
  <2>8. Content(Request(s, f)) \subseteq Content(Corpus(f)) \union Content(more)
    BY <2>6, <1>2
  <2> QED
    BY <2>1, <2>2, <2>3, <2>5, <2>7, <2>8
<1>7. CASE s.kind \in {"ResearchEvaluation", "RiskBrief"}
  <2>1. /\ Content(Corpus(f)) \subseteq Texts({"AnalystReport"})
        /\ UpdatedClaims(f) \subseteq Texts({"InitialBrief", "RevisionBrief"})
    BY <1>7, PartsTexts, RankIs
  <2>2. PICK more : more = [claims |-> UpdatedClaims(f)]
    OBVIOUS
  <2>3. Content(more) \subseteq UpdatedClaims(f)
    BY <2>2 DEF Content
  <2>4. Request(s, f) = Extended(Corpus(f), more)
    BY <2>2, <1>7 DEF Request
  <2>5. Texts({"AnalystReport"}) \subseteq Within(s) /\ Texts({"InitialBrief", "RevisionBrief"}) \subseteq Within(s)
    BY <1>7, ReachIs, TextsGrow DEF Within
  <2>6. Content(Request(s, f)) \subseteq Content(Corpus(f)) \union Content(more)
    BY <2>4, <1>2
  <2> QED
    BY <2>1, <2>3, <2>5, <2>6
<1>8. CASE s.kind = "UnderwritingDraft"
  <2>1. /\ Content(Corpus(f)) \subseteq Texts({"AnalystReport"})
        /\ UpdatedClaims(f) \subseteq Texts({"InitialBrief", "RevisionBrief"})
        /\ Union(f, "RiskBrief", Risks) \subseteq Texts({"RiskBrief"})
    BY <1>8, PartsTexts, RankIs
  <2>2. PICK more : more = [claims |-> UpdatedClaims(f), risks |-> Union(f, "RiskBrief", Risks)]
    OBVIOUS
  <2>3. Content(more) \subseteq UpdatedClaims(f) \union Union(f, "RiskBrief", Risks)
    BY <2>2 DEF Content
  <2>4. Request(s, f) = Extended(Corpus(f), more)
    BY <2>2, <1>8 DEF Request
  <2>5. /\ Texts({"AnalystReport"}) \subseteq Within(s) /\ Texts({"InitialBrief", "RevisionBrief"}) \subseteq Within(s)
        /\ Texts({"RiskBrief"}) \subseteq Within(s)
    BY <1>8, ReachIs, TextsGrow DEF Within
  <2>6. Content(Request(s, f)) \subseteq Content(Corpus(f)) \union Content(more)
    BY <2>4, <1>2
  <2> QED
    BY <2>1, <2>3, <2>5, <2>6
<1>9. CASE s.kind = "ForwardRevision"
  <2>1. PICK beliefs, claims, risks, draft :
            /\ beliefs = BeliefView(Field(f, "IndependentAssessment", PortfolioManager))
            /\ claims = UpdatedClaims(f) /\ risks = Union(f, "RiskBrief", Risks)
            /\ draft = Field(f, "UnderwritingDraft", PortfolioManager)
    OBVIOUS
  <2>2. /\ Content(Corpus(f)) \subseteq Texts({"AnalystReport"})
        /\ claims \subseteq Texts({"InitialBrief", "RevisionBrief"}) /\ risks \subseteq Texts({"RiskBrief"})
        /\ beliefs \subseteq Texts({"IndependentAssessment"}) /\ draft \subseteq Texts({"UnderwritingDraft"})
    BY <2>1, <1>9, PartsTexts, RankIs
  <2>3. PICK more : more = [beliefs |-> beliefs, claims |-> claims, risks |-> risks, draft |-> draft]
    OBVIOUS
  <2>4. Content(more) \subseteq beliefs \union claims \union risks \union draft
    BY <2>3 DEF Content
  <2>5. Request(s, f) = Extended(Corpus(f), more)
    BY <2>1, <2>3, <1>9 DEF Request
  <2>6. /\ Texts({"AnalystReport"}) \subseteq Within(s) /\ Texts({"InitialBrief", "RevisionBrief"}) \subseteq Within(s)
        /\ Texts({"RiskBrief"}) \subseteq Within(s) /\ Texts({"IndependentAssessment"}) \subseteq Within(s)
        /\ Texts({"UnderwritingDraft"}) \subseteq Within(s)
    BY <1>9, ReachIs, TextsGrow DEF Within
  <2>7. Content(Request(s, f)) \subseteq Content(Corpus(f)) \union Content(more)
    BY <2>5, <1>2
  <2> QED
    BY <2>2, <2>4, <2>6, <2>7
<1>10. CASE s.kind = "FinalResearchReport"
  <2>1. PICK draft, resolution :
            /\ draft = Field(f, "UnderwritingDraft", PortfolioManager)
            /\ resolution = Field(f, "ForwardRevision", PortfolioManager)
    OBVIOUS
  <2>2. /\ Content(Corpus(f)) \subseteq Texts({"AnalystReport"})
        /\ draft \subseteq Texts({"UnderwritingDraft"}) /\ resolution \subseteq Texts({"ForwardRevision"})
    BY <2>1, <1>10, PartsTexts, RankIs
  <2>3. PICK more : more = [draft |-> draft \union resolution, resolution |-> resolution, rule |-> Computed]
    OBVIOUS
  <2>4. Content(more) \subseteq draft \union resolution
    BY <2>3 DEF Content, Computed
  <2>5. Request(s, f) = Extended(Corpus(f), more)
    BY <2>1, <2>3, <1>10 DEF Request
  <2>6. /\ Texts({"AnalystReport"}) \subseteq Within(s)
        /\ Texts({"UnderwritingDraft"}) \subseteq Within(s) /\ Texts({"ForwardRevision"}) \subseteq Within(s)
    BY <1>10, ReachIs, TextsGrow DEF Within
  <2>7. Content(Request(s, f)) \subseteq Content(Corpus(f)) \union Content(more)
    BY <2>5, <1>2
  <2> QED
    BY <2>2, <2>4, <2>6, <2>7
<1> QED
  BY <1>1, <1>4, <1>5, <1>6, <1>7, <1>8, <1>9, <1>10, RankIs

\* What a part of those rests on is among them.
LEMMA ReachClosed ==
    ASSUME NEW kind \in Kinds, kind # "ExecutionReview", NEW other \in Reach[kind]
    PROVE  other \in Kinds /\ other # "ExecutionReview" /\ Reach[other] \subseteq Reach[kind]
BY ReachIs, RankIs

\* One exchange adds what its request shows, and what that rests on.
Spread(sofar, n) ==
    LET read == Content(exchanges[n].request)
    IN [sofar EXCEPT ![exchanges[n].stage] = read \union UNION {sofar[p[1]] : p \in read}]
Influences(f, m) ==
    f = [n \in 0 .. m |-> IF n = 0 THEN [s \in AllStages |-> {}] ELSE Spread(f[n - 1], n)]

\* The function by which Influence is defined exists.
LEMMA InfluencesExist ==
    ASSUME NEW m \in Nat
    PROVE  \E f : Influences(f, m)
<1> DEFINE T == {n \in Nat : \E f : Influences(f, n)}
<1>1. 0 \in T
  <2>1. Influences([n \in 0 .. 0 |-> [s \in AllStages |-> {}]], 0)
    BY DEF Influences
  <2> QED
    BY <2>1
<1>2. ASSUME NEW n \in Nat, n \in T PROVE n + 1 \in T
  <2>1. PICK f : Influences(f, n)
    BY <1>2
  <2>2. \A i \in 0 .. n : f[i] = IF i = 0 THEN [s \in AllStages |-> {}] ELSE Spread(f[i - 1], i)
    BY <2>1, Zenon DEF Influences
  <2>3. PICK last : last = Spread(f[n], n + 1)
    OBVIOUS
  <2>4. PICK g : g = [i \in 0 .. n + 1 |-> IF i = n + 1 THEN last ELSE f[i]]
    OBVIOUS
  <2>5. g[n + 1] = last /\ \A i \in 0 .. n : g[i] = f[i]
    BY <2>4
  <2>6. ASSUME NEW i \in 0 .. n + 1
        PROVE  g[i] = IF i = 0 THEN [s \in AllStages |-> {}] ELSE Spread(g[i - 1], i)
    <3>1. CASE i = n + 1
      <4>1. i # 0 /\ i - 1 = n /\ g[i - 1] = f[n]
        BY <3>1, <2>5
      <4> QED
        BY <4>1, <3>1, <2>3, <2>5
    <3>2. CASE i = 0
      <4>1. 0 \in 0 .. n
        OBVIOUS
      <4>2. g[0] = f[0] /\ f[0] = [s \in AllStages |-> {}]
        BY <4>1, <2>2, <2>5, Zenon
      <4> QED
        BY <4>2, <3>2
    <3>3. CASE i \in 1 .. n
      <4>1. i # 0 /\ i \in 0 .. n /\ i - 1 \in 0 .. n
        BY <3>3
      <4>2. g[i] = f[i] /\ g[i - 1] = f[i - 1]
        BY <4>1, <2>5
      <4>3. f[i] = Spread(f[i - 1], i)
        BY <4>1, <2>2
      <4> QED
        BY <4>1, <4>2, <4>3
    <3> QED
      BY <3>1, <3>2, <3>3
  <2>7. g = [i \in 0 .. n + 1 |-> g[i]]
    BY <2>4
  <2>8. Influences(g, n + 1)
    BY <2>6, <2>7, Zenon DEF Influences
  <2> QED
    BY <2>8
<1> HIDE DEF T
<1>3. m \in T
  BY <1>1, <1>2, NatSetInduction
<1> QED
  BY <1>3 DEF T

\* So it satisfies its definition.
LEMMA InfluenceIs == Len(exchanges) \in Nat => Influences(Influence, Len(exchanges))
<1> SUFFICES ASSUME Len(exchanges) \in Nat PROVE Influences(Influence, Len(exchanges))
  OBVIOUS
<1>1. \E f : Influences(f, Len(exchanges))
  BY InfluencesExist
<1>2. Influence = CHOOSE f : Influences(f, Len(exchanges))
  BY Zenon DEF Influence, Influences, Spread
<1> QED
  BY <1>1, <1>2

\* What an exchange shows, and what that rests on, is what its stage may rest on.
LEMMA SpreadWithin ==
    ASSUME ThesisInv, NEW n \in 1 .. Len(exchanges), exchanges[n].stage.kind # "ExecutionReview",
           NEW sofar, \A s \in AllStages : s.kind # "ExecutionReview" => sofar[s] \subseteq Within(s)
    PROVE  LET read == Content(exchanges[n].request)
           IN read \union UNION {sofar[p[1]] : p \in read} \subseteq Within(exchanges[n].stage)
<1>1. PICK e : e = exchanges[n]
  OBVIOUS
<1>2. e \in ToSet(exchanges)
  BY <1>1 DEF ThesisInv, ToSet
<1>3. PICK c \in AllStages : c = e.stage /\ e.request = Request(c, fields) /\ c.kind \in Kinds /\ c.kind # "ExecutionReview"
  BY <1>1, <1>2, StageIs DEF ThesisInv
<1>4. ASSUME NEW t \in AllStages, Rank[t.kind] < Rank[c.kind]
      PROVE  fields[t] \subseteq AnswerOf(t)
  <2>1. PICK p \in 1 .. Len(Stages) : c = Stages[p] /\ p <= at + 1
    BY <1>2, <1>3, AskedPlace
  <2>2. PICK q \in 1 .. Len(Stages) : Stages[q] = t
    BY StagePlaces
  <2>3. q < p
    BY <2>1, <2>2, <1>4, StagePlaces
  <2>4. at \in Nat
    BY DEF ThesisInv
  <2>5. q <= at
    BY <2>1, <2>3, <2>4
  <2> QED
    BY <2>2, <2>5, DoneIsSet
<1>5. PICK read : read = Content(e.request)
  OBVIOUS
<1>6. read \subseteq Within(c)
  BY <1>3, <1>4, <1>5, RequestWithin
<1>7. ASSUME NEW p \in read PROVE sofar[p[1]] \subseteq Within(c)
  <2>1. PICK t \in AllStages : p = <<t, "text">> /\ t.kind \in Reach[c.kind]
    BY <1>6 DEF Within, Texts
  <2>2. t.kind # "ExecutionReview" /\ Reach[t.kind] \subseteq Reach[c.kind]
    BY <2>1, <1>3, ReachClosed
  <2>3. sofar[t] \subseteq Within(t)
    BY <2>2
  <2>4. Within(t) \subseteq Within(c)
    BY <2>2, TextsGrow DEF Within
  <2> QED
    BY <2>1, <2>3, <2>4
<1> QED
  BY <1>1, <1>3, <1>5, <1>6, <1>7

\* So what a stage rests on stays within these texts, whatever was exchanged.
LEMMA InfluenceWithin ==
    ASSUME ThesisInv
    PROVE  \A s \in AllStages : s.kind # "ExecutionReview" => Influence[Len(exchanges)][s] \subseteq Within(s)
<1> DEFINE Held(x) == /\ x = [s \in AllStages |-> x[s]]
                      /\ \A s \in AllStages : s.kind # "ExecutionReview" => x[s] \subseteq Within(s)
           T == {n \in Nat : n <= Len(exchanges) => Held(Influence[n])}
<1>1. PICK L \in Nat : L = Len(exchanges)
  BY DEF ThesisInv
<1>2. \A n \in 0 .. L : Influence[n] = IF n = 0 THEN [s \in AllStages |-> {}] ELSE Spread(Influence[n - 1], n)
  BY <1>1, InfluenceIs, Zenon DEF Influences
<1>3. 0 \in T
  <2>1. 0 \in 0 .. L
    OBVIOUS
  <2>2. Influence[0] = [s \in AllStages |-> {}]
    BY <2>1, <1>2, Zenon
  <2> QED
    BY <2>2
<1>4. ASSUME NEW n \in Nat, n \in T PROVE n + 1 \in T
  <2> SUFFICES ASSUME n + 1 <= L PROVE Held(Influence[n + 1])
    BY <1>1
  <2>1. n + 1 \in 0 .. L /\ n + 1 # 0 /\ (n + 1) - 1 = n /\ n <= L /\ n + 1 \in 1 .. L
    BY <1>1
  <2>2. Held(Influence[n])
    BY <1>1, <1>4, <2>1
  <2>3. PICK sofar, x : sofar = Influence[n] /\ x = Influence[n + 1]
    OBVIOUS
  <2>4. x = Spread(sofar, n + 1)
    <3>1. Influence[n + 1] = Spread(Influence[(n + 1) - 1], n + 1)
      BY <1>2, <2>1, Zenon
    <3> QED
      BY <3>1, <2>1, <2>3
  <2>5. PICK c, new : /\ c = exchanges[n + 1].stage
                      /\ LET read == Content(exchanges[n + 1].request)
                         IN new = read \union UNION {sofar[p[1]] : p \in read}
    OBVIOUS
  <2>6. x = [sofar EXCEPT ![c] = new]
    BY <2>4, <2>5 DEF Spread
  <2>7. c.kind # "ExecutionReview" => new \subseteq Within(c)
    <3> SUFFICES ASSUME c.kind # "ExecutionReview" PROVE new \subseteq Within(c)
      OBVIOUS
    <3>1. \A s \in AllStages : s.kind # "ExecutionReview" => sofar[s] \subseteq Within(s)
      BY <2>2, <2>3
    <3> QED
      BY <3>1, <2>1, <2>5, <1>1, SpreadWithin
  <2>8. sofar = [s \in AllStages |-> sofar[s]] /\ \A s \in AllStages : s.kind # "ExecutionReview" => sofar[s] \subseteq Within(s)
    BY <2>2, <2>3
  <2>9. x = [s \in AllStages |-> x[s]]
    BY <2>6, <2>8
  <2>10. \A s \in AllStages : x[s] = IF s = c THEN new ELSE sofar[s]
    BY <2>6, <2>8
  <2>11. \A s \in AllStages : s.kind # "ExecutionReview" => x[s] \subseteq Within(s)
    BY <2>7, <2>8, <2>10
  <2> QED
    BY <2>3, <2>9, <2>11
<1> HIDE DEF T
<1>5. L \in T
  BY <1>3, <1>4, NatSetInduction
<1> QED
  BY <1>1, <1>5 DEF T

\* No kind may rest on itself, and none of these on a rating.
LEMMA RolesApart ==
    ASSUME ThesisInv
    PROVE  RolesIndependent
<1>1. PICK influence : influence = Influence[Len(exchanges)]
  OBVIOUS
<1>2. ASSUME NEW s \in AllStages, s.kind # "ExecutionReview", NEW p \in influence[s]
      PROVE  p[1].kind \in Reach[s.kind] /\ p[2] = "text"
  <2>1. p \in Within(s)
    BY <1>1, <1>2, InfluenceWithin
  <2>2. PICK t \in AllStages : p = <<t, "text">> /\ t.kind \in Reach[s.kind]
    BY <2>1 DEF Within, Texts
  <2> QED
    BY <2>2
<1> DEFINE Rests(s) == {p[1] : p \in influence[s]}
<1>3. ASSUME NEW s \in AllStages, NEW t \in AllStages, s.kind = t.kind,
             s.kind \in {"AnalystReport", "InitialBrief", "RevisionBrief", "RiskBrief"}
      PROVE  t \notin Rests(s)
  <2>1. t.kind \notin Reach[s.kind] /\ s.kind # "ExecutionReview"
    BY <1>3, ReachIs
  <2> QED
    BY <2>1, <1>2
<1>4. Rests(Stage("IndependentAssessment", PortfolioManager)) = {}
  <2>1. PICK s \in AllStages : s = Stage("IndependentAssessment", PortfolioManager) /\ s.kind = "IndependentAssessment"
    BY StageIs
  <2>2. Reach[s.kind] = {} /\ s.kind # "ExecutionReview"
    BY <2>1, ReachIs
  <2>3. influence[s] = {}
    BY <2>2, <1>2
  <2> QED
    BY <2>1, <2>3
<1>5. Stage("IndependentAssessment", PortfolioManager) \notin Rests(Stage("UnderwritingDraft", PortfolioManager))
  <2>1. PICK s \in AllStages, t \in AllStages :
            /\ s = Stage("UnderwritingDraft", PortfolioManager) /\ s.kind = "UnderwritingDraft"
            /\ t = Stage("IndependentAssessment", PortfolioManager) /\ t.kind = "IndependentAssessment"
    BY StageIs
  <2>2. t.kind \notin Reach[s.kind] /\ s.kind # "ExecutionReview"
    BY <2>1, ReachIs
  <2>3. t \notin Rests(s)
    BY <2>2, <1>2
  <2> QED
    BY <2>1, <2>3
<1>6. \A s \in AllStages : s.kind \in {"RiskBrief", "UnderwritingDraft", "ForwardRevision", "FinalResearchReport"} =>
          \A p \in influence[s] : p[2] # "rating"
  BY <1>2
<1> QED
  BY <1>1, <1>3, <1>4, <1>5, <1>6 DEF RolesIndependent

\* RunRebuilds, for any analysts and risk roles and any two researchers, however
\* many stages were left out and wherever a run stopped.
THEOREM ThesisRebuilds == ThesisSpec => []RunRebuilds
<1>1. ThesisInit => ThesisInv
  BY ThesisInitInv
<1>2. ThesisInv /\ [ThesisNext]_thesisVars => ThesisInv'
  BY AnsweredInv, LeaveOutInv, RefusedInv, HaltedInv DEF ThesisNext
<1>3. ThesisInv => RunRebuilds
  BY RequestsBound, FieldsBound, RolesApart DEF RunRebuilds
<1> QED
  BY <1>1, <1>2, <1>3, PTL DEF ThesisSpec

-----------------------------------------------------------------------------
(* The research report.  The invariant says of the running execution what  *)
(* it has at each of its stages (RunSound) and of every stored Case that   *)
(* it is what such an execution leaves (CaseSound).  First, the chain of   *)
(* Cases that follow each other.                                           *)

\* f is the chain of c, to its m-th prior Case.
Chains(f, c, m) ==
    f = [n \in 0 .. m |-> IF n = 0 THEN c ELSE IF f[n - 1] = None THEN None ELSE f[n - 1].prior]

\* The function by which ChainOf is defined exists.
LEMMA ChainsExist ==
    ASSUME NEW c, NEW m \in Nat
    PROVE  \E f : Chains(f, c, m)
<1> DEFINE T == {n \in Nat : \E f : Chains(f, c, n)}
<1>1. 0 \in T
  <2>1. Chains([n \in 0 .. 0 |-> c], c, 0)
    BY DEF Chains
  <2> QED
    BY <2>1
<1>2. ASSUME NEW n \in Nat, n \in T PROVE n + 1 \in T
  <2>1. PICK f : Chains(f, c, n)
    BY <1>2
  <2>2. \A i \in 0 .. n : f[i] = IF i = 0 THEN c ELSE IF f[i - 1] = None THEN None ELSE f[i - 1].prior
    BY <2>1, Zenon DEF Chains
  <2> DEFINE g == [k \in 0 .. n + 1 |-> IF k = n + 1 THEN IF f[n] = None THEN None ELSE f[n].prior ELSE f[k]]
  <2>3. Chains(g, c, n + 1)
    <3>1. g = [k \in 0 .. n + 1 |-> g[k]]
      OBVIOUS
    <3>2. ASSUME NEW k \in 0 .. n + 1
          PROVE  g[k] = IF k = 0 THEN c ELSE IF g[k - 1] = None THEN None ELSE g[k - 1].prior
      <4>1. CASE k = n + 1
        <5>1. n + 1 \in 0 .. n + 1 /\ n \in 0 .. n + 1 /\ n # n + 1 /\ n + 1 # 0 /\ k - 1 = n
          BY <4>1
        <5>2. g[n + 1] = (IF f[n] = None THEN None ELSE f[n].prior) /\ g[n] = f[n]
          BY <5>1, Zenon
        <5> HIDE DEF g
        <5> QED
          BY <4>1, <5>1, <5>2, Zenon
      <4>2. CASE k # n + 1
        <5>1. k \in 0 .. n /\ (k # 0 => k - 1 \in 0 .. n + 1 /\ k - 1 # n + 1)
          BY <4>2
        <5>2. g[k] = f[k] /\ (k # 0 => g[k - 1] = f[k - 1])
          BY <4>2, <5>1, Zenon
        <5>3. f[k] = IF k = 0 THEN c ELSE IF f[k - 1] = None THEN None ELSE f[k - 1].prior
          BY <2>2, <5>1, Zenon
        <5> HIDE DEF g
        <5> QED
          BY <5>2, <5>3, Zenon
      <4> QED
        BY <4>1, <4>2
    <3> HIDE DEF g
    <3> QED
      BY <3>1, <3>2, Zenon DEF Chains
  <2> HIDE DEF g
  <2>4. \E h : Chains(h, c, n + 1)
    BY <2>3, Zenon
  <2> QED
    BY <2>4
<1> HIDE DEF T
<1>3. Nat \subseteq T
  BY <1>1, <1>2, NatSetInduction
<1> QED
  BY <1>3 DEF T

\* The first of a chain is the Case, and each is followed by its prior Case.
LEMMA ChainUnfolds ==
    ASSUME NEW c
    PROVE  Chains(ChainOf(c), c, MaxRuns)
<1> DEFINE chain == CHOOSE f : f = [n \in 0 .. MaxRuns |->
                        IF n = 0 THEN c ELSE IF f[n - 1] = None THEN None ELSE f[n - 1].prior]
<1>1. \E f : Chains(f, c, MaxRuns)
  BY ChainsExist, LimitsAssumption
<1>2. Chains(chain, c, MaxRuns)
  BY <1>1, Zenon DEF Chains
<1>3. ChainOf(c) = chain
  BY DEF ChainOf
<1> HIDE DEF chain
<1> QED
  BY <1>2, <1>3

\* Below a Case, its chain is that of its prior Case.
LEMMA ChainOfPrior ==
    ASSUME NEW c, NEW n \in 1 .. MaxRuns, ChainOf(c)[n] # None
    PROVE  c.prior # None /\ ChainOf(c)[n] = ChainOf(c.prior)[n - 1]
<1>1. PICK f : f = ChainOf(c)
  OBVIOUS
<1>2. PICK g : g = ChainOf(c.prior)
  OBVIOUS
<1>3. /\ \A i \in 0 .. MaxRuns : f[i] = IF i = 0 THEN c ELSE IF f[i - 1] = None THEN None ELSE f[i - 1].prior
      /\ \A i \in 0 .. MaxRuns : g[i] = IF i = 0 THEN c.prior ELSE IF g[i - 1] = None THEN None ELSE g[i - 1].prior
  <2>1. Chains(f, c, MaxRuns) /\ Chains(g, c.prior, MaxRuns)
    BY <1>1, <1>2, ChainUnfolds
  <2> QED
    BY <2>1, Zenon DEF Chains
<1> DEFINE T == {i \in Nat : i + 1 <= MaxRuns /\ f[i + 1] # None => c.prior # None /\ f[i + 1] = g[i]}
<1>4. 0 \in T
  <2>1. SUFFICES ASSUME 1 <= MaxRuns, f[1] # None PROVE c.prior # None /\ f[1] = g[0]
    OBVIOUS
  <2>2. 1 \in 0 .. MaxRuns /\ 0 \in 0 .. MaxRuns /\ 1 # 0 /\ 1 - 1 = 0
    BY <2>1, LimitsAssumption
  <2>3. f[0] = c /\ g[0] = c.prior /\ f[1] = IF f[0] = None THEN None ELSE f[0].prior
    BY <1>3, <2>2
  <2> QED
    BY <2>1, <2>3, Zenon
<1>5. ASSUME NEW i \in Nat, i \in T PROVE i + 1 \in T
  <2>1. SUFFICES ASSUME (i + 1) + 1 <= MaxRuns, f[(i + 1) + 1] # None
                 PROVE  c.prior # None /\ f[(i + 1) + 1] = g[i + 1]
    OBVIOUS
  <2>2. /\ (i + 1) + 1 \in 0 .. MaxRuns /\ i + 1 \in 0 .. MaxRuns /\ i + 1 # 0 /\ (i + 1) + 1 # 0
        /\ ((i + 1) + 1) - 1 = i + 1 /\ (i + 1) - 1 = i /\ i + 1 <= MaxRuns
    BY <2>1, LimitsAssumption
  <2>3. f[(i + 1) + 1] = IF f[i + 1] = None THEN None ELSE f[i + 1].prior
    BY <1>3, <2>2
  <2>4. f[i + 1] # None
    BY <2>1, <2>3, Zenon
  <2>5. c.prior # None /\ f[i + 1] = g[i]
    BY <1>5, <2>2, <2>4
  <2>6. g[i + 1] = IF g[i] = None THEN None ELSE g[i].prior
    BY <1>3, <2>2
  <2> QED
    BY <2>3, <2>4, <2>5, <2>6, Zenon
<1> HIDE DEF T
<1>6. n - 1 \in Nat /\ (n - 1) + 1 = n /\ n <= MaxRuns
  BY LimitsAssumption
<1>7. n - 1 \in T
  BY <1>4, <1>5, <1>6, NatSetInduction
<1> QED
  BY <1>1, <1>2, <1>6, <1>7 DEF T

\* A Case that reads over a prior Case that loads, loads.
LEMMA LoadsOver ==
    ASSUME NEW c, CaseReads(c), c.prior # None => CaseLoads(c.prior)
    PROVE  CaseLoads(c)
<1>1. SUFFICES ASSUME NEW n \in 0 .. MaxRuns, ChainOf(c)[n] # None PROVE CaseReads(ChainOf(c)[n])
  BY DEF CaseLoads
<1>2. CASE n = 0
  <2>1. 0 \in 0 .. MaxRuns
    BY LimitsAssumption
  <2>2. ChainOf(c)[0] = c
    BY <2>1, ChainUnfolds, Zenon DEF Chains
  <2> QED
    BY <1>2, <2>2
<1>3. CASE n # 0
  <2>1. n \in 1 .. MaxRuns /\ n - 1 \in 0 .. MaxRuns
    BY <1>3, LimitsAssumption
  <2>2. c.prior # None /\ ChainOf(c)[n] = ChainOf(c.prior)[n - 1]
    BY <1>1, <2>1, ChainOfPrior
  <2>3. CaseLoads(c.prior)
    BY <2>2
  <2> QED
    BY <1>1, <2>1, <2>2, <2>3, Zenon DEF CaseLoads
<1> QED
  BY <1>2, <1>3

\* A Case that loads does so when more is stored.
LEMMA LoadsStay ==
    ASSUME NEW c, CaseLoads(c), audits \subseteq audits'
    PROVE  CaseLoads(c)'
<1>1. SUFFICES ASSUME NEW n \in 0 .. MaxRuns, ChainOf(c)[n] # None PROVE CaseReads(ChainOf(c)[n])'
  BY DEF CaseLoads
<1>2. PICK d : d = ChainOf(c)[n]
  OBVIOUS
<1>3. CaseReads(d)
  BY <1>1, <1>2, Zenon DEF CaseLoads
<1>4. CaseReads(d)'
  BY <1>3 DEF CaseReads
<1> QED
  BY <1>2, <1>4

-----------------------------------------------------------------------------
(* What is selected of a filing's rows.                                    *)

\* The beginning of a sequence.
LEMMA UptoType ==
    ASSUME NEW S, NEW s \in Seq(S), NEW n \in Nat
    PROVE  /\ Upto(s, n) \in Seq(S) /\ ToSet(Upto(s, n)) \subseteq ToSet(s)
           /\ Len(Upto(s, n)) <= n
           /\ ToSet(Upto(s, n)) = ToSet(s) \/ Len(Upto(s, n)) = n
<1>0. PICK k \in Nat : k = Len(s)
  OBVIOUS
<1>1. PICK m \in 0 .. k : m = IF Len(s) < n THEN Len(s) ELSE n
  BY <1>0
<1>2. PICK t : t = SubSeq(s, 1, m)
  OBVIOUS
<1>3. t = Upto(s, n)
  BY <1>1, <1>2 DEF Upto
<1>4. t \in Seq(S) /\ Len(t) = m /\ \A i \in 1 .. m : t[i] = s[i]
  BY <1>0, <1>1, <1>2
<1>5. DOMAIN t = 1 .. m /\ DOMAIN s = 1 .. k
  BY <1>0, <1>4
<1>6. ToSet(t) \subseteq ToSet(s)
  <2>0. 1 .. m \subseteq 1 .. k
    OBVIOUS
  <2>1. \A i \in DOMAIN t : i \in DOMAIN s /\ t[i] = s[i]
    BY <1>4, <1>5, <2>0
  <2> QED
    BY <2>1, Zenon DEF ToSet
<1>7. m <= n /\ (m = k \/ m = n)
  BY <1>0, <1>1
<1>8. m = k => ToSet(t) = ToSet(s)
  BY <1>4, <1>5 DEF ToSet
<1> QED
  BY <1>3, <1>4, <1>6, <1>7, <1>8

\* What is looked up are listed drivers that a draft asks for, and all of them
\* unless there are more than may be looked up.
Looks(drivers, listed, wanted) ==
    /\ drivers \in Seq(listed) /\ ToSet(drivers) \subseteq listed \intersect wanted
    /\ Len(drivers) <= MaxLookups
    /\ listed \intersect wanted \subseteq ToSet(drivers) \/ Len(drivers) = MaxLookups

LEMMA FirstType ==
    ASSUME NEW S, NEW rows \in Seq(S)
    PROVE  First(rows) \in Seq(S) /\ ToSet(First(rows)) \subseteq ToSet(rows)
BY UptoType, LimitsAssumption DEF First

\* A sequence is one of its elements.
LEMMA OfItsOwn ==
    ASSUME NEW S, NEW s \in Seq(S)
    PROVE  s \in Seq(ToSet(s))
<1>1. \A i \in 1 .. Len(s) : s[i] \in ToSet(s)
  BY DEF ToSet
<1> QED
  BY <1>1

LEMMA SelectedLooks ==
    ASSUME NEW analysis, NEW challenge, NEW e, NEW S, e.rows \in Seq(S)
    PROVE  Looks(Selected(analysis, challenge, e), ToSet(First(e.rows)),
                 ToSet(analysis.wants) \union ToSet(challenge.wants))
<1>1. PICK rows \in Seq(S) : rows = First(e.rows)
  BY FirstType
<1>2. PICK wanted : wanted = ToSet(analysis.wants) \union ToSet(challenge.wants)
  OBVIOUS
<1>3. PICK listed : listed = ToSet(rows)
  OBVIOUS
<1>4. rows \in Seq(listed)
  BY <1>3, OfItsOwn
<1>5. PICK those : those = Those(rows, wanted)
  OBVIOUS
<1>6. those \in Seq(listed) /\ ToSet(those) = listed \intersect wanted
  <2>1. those \in Seq(listed \intersect wanted) /\ ToSet(those) = ToSet(rows) \intersect wanted
    BY <1>4, <1>5, ThoseType
  <2>2. Seq(listed \intersect wanted) \subseteq Seq(listed)
    OBVIOUS
  <2> QED
    BY <1>3, <2>1, <2>2
<1>7. PICK drivers : drivers = Upto(those, MaxLookups)
  OBVIOUS
<1>8. /\ drivers \in Seq(listed) /\ ToSet(drivers) \subseteq ToSet(those)
      /\ Len(drivers) <= MaxLookups
      /\ ToSet(drivers) = ToSet(those) \/ Len(drivers) = MaxLookups
  BY <1>6, <1>7, UptoType, LimitsAssumption
<1>9. Looks(drivers, listed, wanted)
  BY <1>6, <1>8 DEF Looks
<1>10. drivers = Selected(analysis, challenge, e)
  BY <1>1, <1>2, <1>5, <1>7 DEF Selected
<1> QED
  BY <1>1, <1>2, <1>3, <1>9, <1>10

-----------------------------------------------------------------------------
(* Evidence.                                                               *)

\* What a filing's evidence is.
LEMMA RecordOf ==
    ASSUME NEW f, NEW drivers
    PROVE  LET e == EvidenceRecord(f, drivers) IN
           /\ e.facts = f.facts /\ e.rows = f.rows /\ e.filing = f /\ e.drivers = drivers
           /\ DOMAIN e.steps = DOMAIN drivers
           /\ \A i \in DOMAIN drivers : e.steps[i] = f.hits[drivers[i]]
BY DEF EvidenceRecord

\* A model is shown every reference of the evidence.
LEMMA AllShown ==
    ASSUME NEW e
    PROVE  EvidenceIds(EvidenceView(e)) = EvidenceIds(e) /\ EvidenceView(e).rows = e.rows
BY DEF EvidenceIds, EvidenceView

\* A lookup adds references.
LEMMA LookupAdds ==
    ASSUME NEW f, NEW drivers
    PROVE  EvidenceIds(EvidenceRecord(f, <<>>)) \subseteq EvidenceIds(EvidenceRecord(f, drivers))
<1>1. EvidenceIds(EvidenceRecord(f, <<>>)) = f.facts \union ToSet(f.rows)
  <2>1. PICK e : e = EvidenceRecord(f, <<>>)
    OBVIOUS
  <2>2. e.facts = f.facts /\ e.rows = f.rows /\ DOMAIN e.steps = {}
    BY <2>1, RecordOf
  <2>3. EvidenceIds(e) = e.facts \union ToSet(e.rows)
    BY <2>2 DEF EvidenceIds
  <2> QED
    BY <2>1, <2>2, <2>3
<1>2. PICK e : e = EvidenceRecord(f, drivers)
  OBVIOUS
<1>3. e.facts = f.facts /\ e.rows = f.rows
  BY <1>2, RecordOf
<1>4. e.facts \union ToSet(e.rows) \subseteq EvidenceIds(e)
  BY DEF EvidenceIds
<1> QED
  BY <1>1, <1>2, <1>3, <1>4

\* The heads of the steps of some evidence.
Heads(e) == {Head(e.steps[i]) : i \in {j \in DOMAIN e.steps : e.steps[j] # <<>>}}

\* The steps of a lookup of a filing's drivers have hits, in order.
LEMMA StepsAreHits ==
    ASSUME NEW q \in Requests, NEW drivers \in Seq(ToSet(q.filing.rows))
    PROVE  LET e == EvidenceRecord(q.filing, drivers) IN
           /\ DOMAIN e.steps = 1 .. Len(drivers)
           /\ \A i \in DOMAIN e.steps : e.steps[i] \in Seq(ToSet(e.steps[i]))
<1>1. PICK e : e = EvidenceRecord(q.filing, drivers)
  OBVIOUS
<1>2. DOMAIN e.steps = DOMAIN drivers /\ \A i \in DOMAIN drivers : e.steps[i] = q.filing.hits[drivers[i]]
  BY <1>1, RecordOf
<1>3. DOMAIN drivers = 1 .. Len(drivers) /\ \A i \in DOMAIN drivers : drivers[i] \in ToSet(q.filing.rows)
  OBVIOUS
<1>4. \A d \in ToSet(q.filing.rows) : q.filing.hits[d] \in Seq(ToSet(q.filing.hits[d]))
  BY RequestsHaveRows DEF RequestsAssumption
<1>5. \A i \in DOMAIN e.steps : e.steps[i] \in Seq(ToSet(e.steps[i]))
  BY <1>2, <1>3, <1>4
<1> QED
  BY <1>1, <1>2, <1>3, <1>5

\* The first note of each step is shown, and no more than may be looked up.
LEMMA HeadsShown ==
    ASSUME NEW q \in Requests, NEW drivers \in Seq(ToSet(q.filing.rows)), Len(drivers) <= MaxLookups,
           NEW e, e = EvidenceRecord(q.filing, drivers)
    PROVE  /\ Heads(e) \subseteq EvidenceIds(e)
           /\ IsFiniteSet(Heads(e)) /\ Cardinality(Heads(e)) <= MaxLookups
<1>1. /\ DOMAIN e.steps = 1 .. Len(drivers)
      /\ \A i \in DOMAIN e.steps : e.steps[i] \in Seq(ToSet(e.steps[i]))
  BY StepsAreHits
<1>2. Heads(e) \subseteq EvidenceIds(e)
  <2>1. ASSUME NEW i \in DOMAIN e.steps, e.steps[i] # <<>> PROVE Head(e.steps[i]) \in EvidenceIds(e)
    <3>1. PICK s : s = e.steps[i]
      OBVIOUS
    <3>2. s \in Seq(ToSet(s)) /\ s # <<>>
      BY <1>1, <2>1, <3>1
    <3>3. Head(s) \in ToSet(s)
      BY <3>2
    <3> QED
      BY <3>1, <3>3 DEF EvidenceIds
  <2> QED
    BY <2>1 DEF Heads
<1>3. IsFiniteSet(Heads(e)) /\ Cardinality(Heads(e)) <= MaxLookups
  <2> DEFINE places == {j \in DOMAIN e.steps : e.steps[j] # <<>>}
             head == [j \in places |-> Head(e.steps[j])]
  <2>1. PICK k \in Nat : k = Len(drivers)
    OBVIOUS
  <2>2. IsFiniteSet(1 .. k) /\ Cardinality(1 .. k) = k
    <3>1. Cardinality(1 .. k) = IF 1 > k THEN 0 ELSE k - 1 + 1
      BY FS_Interval
    <3> QED
      BY <3>1, FS_Interval
  <2>3. places \in SUBSET (1 .. k)
    BY <1>1, <2>1
  <2>4. IsFiniteSet(places) /\ Cardinality(places) <= k
    <3> HIDE DEF places
    <3> QED
      BY <2>2, <2>3, FS_Subset
  <2>5. head \in Surjection(places, Heads(e))
    BY DEF Surjection, Heads
  <2>6. IsFiniteSet(Heads(e)) /\ Cardinality(Heads(e)) <= Cardinality(places)
    <3> HIDE DEF places, head
    <3> QED
      BY <2>4, <2>5, FS_Surjection
  <2>7. Cardinality(Heads(e)) \in Nat /\ Cardinality(places) \in Nat
    BY <2>4, <2>6, FS_CardinalityType
  <2> QED
    BY <2>1, <2>4, <2>6, <2>7, LimitsAssumption
<1> QED
  BY <1>2, <1>3

\* What is required of a decision on a challenge of the first evidence is shown,
\* and there is room to reply to it.
LEMMA RequiredShown ==
    ASSUME NEW q \in Requests, NEW drivers \in Seq(ToSet(q.filing.rows)), Len(drivers) <= MaxLookups,
           NEW e, e = EvidenceRecord(q.filing, drivers),
           NEW challenge \in Drafts, DraftValid(challenge, EvidenceRecord(q.filing, <<>>))
    PROVE  /\ Required(challenge, e) \subseteq EvidenceIds(EvidenceView(e))
           /\ Cardinality(Required(challenge, e)) <= MaxReplies
<1>1. PICK cited : cited = Cited(challenge.claims)
  OBVIOUS
<1>2. PICK heads : heads = Heads(e)
  OBVIOUS
<1>3. Required(challenge, e) = cited \union heads
  BY <1>1, <1>2 DEF Required, Heads
<1>4. heads \subseteq EvidenceIds(e) /\ IsFiniteSet(heads) /\ Cardinality(heads) <= MaxLookups
  BY <1>2, HeadsShown
<1>5. cited \subseteq EvidenceIds(e)
  <2>1. cited \subseteq EvidenceIds(EvidenceRecord(q.filing, <<>>))
    BY <1>1 DEF DraftValid
  <2> QED
    BY <2>1, LookupAdds
<1>6. IsFiniteSet(cited) /\ Cardinality(cited) + MaxLookups <= MaxReplies
  BY <1>1, DraftsAreShort DEF DraftsAssumption
<1>7. Cardinality(cited \union heads) = Cardinality(cited) + Cardinality(heads) - Cardinality(cited \intersect heads)
  BY <1>4, <1>6, FS_Union
<1>8. IsFiniteSet(cited \intersect heads)
  BY <1>4, FS_Intersection
<1>9. Cardinality(cited) \in Nat /\ Cardinality(heads) \in Nat /\ Cardinality(cited \intersect heads) \in Nat
  BY <1>4, <1>6, <1>8, FS_CardinalityType
<1>10. Cardinality(cited \union heads) <= MaxReplies
  BY <1>4, <1>6, <1>7, <1>9, LimitsAssumption
<1>11. EvidenceIds(EvidenceView(e)) = EvidenceIds(e)
  BY AllShown
<1> QED
  BY <1>3, <1>4, <1>5, <1>10, <1>11

-----------------------------------------------------------------------------
(* The invariant: what an execution has at each stage.                     *)

RunFields == {"stage", "request", "checks", "prior", "lookups", "analysis", "challenge",
              "decision", "calls", "comparison", "update"}
IsRun(r) == r = [n \in RunFields |-> r[n]]

RunStages == {"analysis", "challenge", "lookup", "synthesis", "compare", "explain", "save",
              "delivered", "failed"}

Initial(r) == EvidenceRecord(r.request.filing, <<>>)

\* Drafts are made of the first evidence.
Made(r, d) == d \in Drafts /\ (r.checks => DraftValid(d, Initial(r)))
DraftCall(r, name, d) == CallOf(name, EvidenceView(Initial(r)), {}, d)
DraftsMade(r) ==
    /\ Made(r, r.analysis) /\ Made(r, r.challenge)
    /\ r.calls = <<DraftCall(r, "analysis", r.analysis), DraftCall(r, "challenge", r.challenge)>>

\* What was looked up is of the filing, and what was asked for if the researcher checks.
LookedUp(r, drivers) ==
    /\ drivers \in Seq(ToSet(r.request.filing.rows)) /\ Len(drivers) <= MaxLookups
    /\ r.lookups = IF drivers = <<>> THEN << <<>> >> ELSE << <<>>, drivers>>
    /\ r.checks => drivers = Selected(r.analysis, r.challenge, Initial(r))

\* Why an execution whose researcher checks may fail.
Excused(r) ==
    r.checks =>
        \/ ~r.request.filing.readable
        \/ \E i \in DOMAIN r.calls : ~Honest(r.calls[i])
        \/ Len(r.calls) = 3 /\ r.prior # None /\ Comparison(r.request, r.decision, r.prior) = None
        \/ r.update # None /\ ~UpdateValid(r.update, r.prior)

Explained(r) == IF Explains(r.request, r.prior) THEN UpdateValid(r.update, r.prior) ELSE r.update = None

\* At each stage, given the decisions that were saved.
Progress(r, saved) ==
    /\ r.stage \in {"analysis", "challenge", "lookup"} => r.lookups = << <<>> >>
    /\ r.stage = "analysis" => r.calls = <<>>
    /\ r.stage = "challenge" => Made(r, r.analysis) /\ r.calls = <<DraftCall(r, "analysis", r.analysis)>>
    /\ r.stage \in {"lookup", "synthesis"} => DraftsMade(r)
    /\ r.stage = "synthesis" => \E drivers : LookedUp(r, drivers)
    /\ r.stage \in {"compare", "explain", "save"} => Accepts(r) /\ <<r.request, r.decision>> \in saved
    /\ r.stage \in {"explain", "save"} =>
          r.comparison # None /\ r.comparison = Comparison(r.request, r.decision, r.prior)
    /\ r.stage \in RunStages \ {"save", "delivered", "failed"} => r.update = None
    /\ r.stage = "explain" => Explains(r.request, r.prior)
    /\ r.stage = "save" => Explained(r)
    /\ r.stage = "failed" => Excused(r)

RunSound(r, audited, saved, stored) ==
    /\ IsRun(r) /\ r.stage \in RunStages
    /\ r.request \in Requests /\ r.prior \in stored \union {None}
    /\ \A i \in DOMAIN r.lookups : <<r.request.filing, r.lookups[i]>> \in audited
    /\ Progress(r, saved)

CaseSound(c) ==
    /\ c.request \in Requests
    /\ CaseLoads(c) /\ <<c.request, c.decision>> \in decisions /\ Answers(c) /\ Follows(c)

ResearchInv ==
    /\ run = NoRun \/ RunSound(run, audits, decisions, cases)
    /\ \A c \in cases : CaseSound(c)

\* The stage and another field of an execution change.
LEMMA FieldsChange ==
    ASSUME NEW r, IsRun(r), NEW f \in RunFields \ {"stage"}, NEW v, NEW s,
           NEW new, new = [[r EXCEPT ![f] = v] EXCEPT !.stage = s]
    PROVE  /\ IsRun(new) /\ new.stage = s /\ new[f] = v
           /\ \A n \in RunFields \ {"stage", f} : new[n] = r[n]
BY Zenon DEF IsRun, RunFields

\* Only the stage changes.
LEMMA StageChanges ==
    ASSUME NEW r, IsRun(r), NEW s, NEW new, new = [r EXCEPT !.stage = s]
    PROVE  /\ IsRun(new) /\ new.stage = s
           /\ \A n \in RunFields \ {"stage"} : new[n] = r[n]
BY Zenon DEF IsRun, RunFields

-----------------------------------------------------------------------------
(* The steps.                                                              *)

\* An execution under way is sound.
LEMMA RunUnderWay ==
    ASSUME ResearchInv, run.stage \in RunStages
    PROVE  RunSound(run, audits, decisions, cases)
<1>1. NoRun.stage \notin RunStages
  BY DEF NoRun, RunStages
<1> QED
  BY <1>1 DEF ResearchInv

LEMMA StartSound ==
    ASSUME ResearchInv, StartResearch
    PROVE  RunSound(run', audits', decisions', cases')
<1>1. PICK q \in Requests, checks \in BOOLEAN, prior \in cases \union {None} :
          /\ audits' = audits \union {<<q.filing, <<>>>>}
          /\ run' = [stage |-> IF q.filing.readable THEN "analysis" ELSE "failed",
                     request |-> q, checks |-> checks, prior |-> prior, lookups |-> << <<>> >>,
                     analysis |-> None, challenge |-> None, decision |-> None, calls |-> <<>>,
                     comparison |-> None, update |-> None]
  BY Zenon DEF StartResearch
<1>2. cases' = cases
  BY DEF StartResearch
<1>3. PICK r : r = run'
  OBVIOUS
<1>4. /\ IsRun(r)
      /\ r.stage = (IF q.filing.readable THEN "analysis" ELSE "failed") /\ r.request = q
      /\ r.prior = prior /\ r.lookups = << <<>> >> /\ r.calls = <<>> /\ r.update = None
  BY <1>1, <1>3, SMT DEF IsRun, RunFields
<1>5. \A i \in DOMAIN r.lookups : <<r.request.filing, r.lookups[i]>> \in audits'
  BY <1>1, <1>4
<1>6. r.stage \in {"analysis", "failed"} /\ (r.stage = "failed" => ~r.request.filing.readable)
  BY <1>4
<1>7. Progress(r, decisions')
  BY <1>4, <1>6, SMT DEF Progress, Excused, RunStages
<1>8. r.stage \in RunStages /\ r.request \in Requests /\ r.prior \in cases' \union {None}
  BY <1>1, <1>2, <1>4, <1>6, SMT DEF RunStages
<1>9. RunSound(r, audits', decisions', cases')
  BY <1>4, <1>5, <1>7, <1>8, Zenon DEF RunSound
<1> QED
  BY <1>3, <1>9, Zenon

\* A draft that is refused is one its own page refutes.
LEMMA DraftRefuted ==
    ASSUME NEW d, NEW e, ~DraftValid(d, e), NEW name, name # "synthesis"
    PROVE  ~Honest(CallOf(name, EvidenceView(e), {}, d))
<1>1. PICK page : page = EvidenceView(e)
  OBVIOUS
<1>2. EvidenceIds(page) = EvidenceIds(e) /\ page.rows = e.rows
  BY <1>1, AllShown
<1>3. PICK call : call = CallOf(name, page, {}, d)
  OBVIOUS
<1>4. call.stage = name /\ call.sees = page /\ call.proposal = d
  BY <1>3 DEF CallOf
<1>5. ~DraftHonest(call)
  BY <1>2, <1>4 DEF DraftHonest, DraftValid
<1> QED
  BY <1>1, <1>3, <1>4, <1>5 DEF Honest

\* One element after another, and after two.
LEMMA AppendsToOne ==
    ASSUME NEW a, NEW b
    PROVE  Append(<<a>>, b) = <<a, b>>
<1>1. <<a>> \in Seq({a, b}) /\ Len(<<a>>) = 1
  OBVIOUS
<1>2. PICK s : s = Append(<<a>>, b)
  OBVIOUS
<1>3. s \in Seq({a, b})
  BY <1>1, <1>2
<1>4. Len(s) = 2 /\ s[1] = a /\ s[2] = b
  BY <1>1, <1>2
<1>5. PICK t : t = <<a, b>>
  OBVIOUS
<1>6. t \in Seq({a, b})
  BY <1>5
<1>7. Len(t) = 2 /\ t[1] = a /\ t[2] = b
  BY <1>5
<1>8. \A i \in 1 .. Len(s) : s[i] = t[i]
  BY <1>4, <1>7
<1>9. s = t
  BY <1>4, <1>7, <1>8, <1>3, <1>6, SeqEqual
<1> QED
  BY <1>2, <1>5, <1>9

LEMMA AppendsToTwo ==
    ASSUME NEW a, NEW b, NEW c
    PROVE  Append(<<a, b>>, c) = <<a, b, c>>
<1>1. <<a, b>> \in Seq({a, b, c}) /\ Len(<<a, b>>) = 2
  OBVIOUS
<1>2. PICK s : s = Append(<<a, b>>, c)
  OBVIOUS
<1>3. s \in Seq({a, b, c})
  BY <1>1, <1>2
<1>4. Len(s) = 3 /\ s[1] = a /\ s[2] = b /\ s[3] = c
  BY <1>1, <1>2
<1>5. PICK t : t = <<a, b, c>>
  OBVIOUS
<1>6. t \in Seq({a, b, c})
  BY <1>5
<1>7. Len(t) = 3 /\ t[1] = a /\ t[2] = b /\ t[3] = c
  BY <1>5
<1>8. \A i \in 1 .. Len(s) : s[i] = t[i]
  BY <1>4, <1>7
<1>9. s = t
  BY <1>4, <1>7, <1>8, <1>3, <1>6, SeqEqual
<1> QED
  BY <1>2, <1>5, <1>9

\* While there is one lookup, the evidence is the first.
LEMMA FirstEvidence ==
    ASSUME run.lookups = << <<>> >>
    PROVE  Evidence = Initial(run)
<1>1. run.lookups[Len(run.lookups)] = <<>>
  OBVIOUS
<1> QED
  BY <1>1 DEF Evidence, Initial

LEMMA AnalysisSound ==
    ASSUME ResearchInv, DraftStage("analysis", "challenge")
    PROVE  RunSound(run', audits', decisions', cases')
<1>1. PICK d \in Drafts :
          run' = [[run EXCEPT !["analysis"] = d,
                       !.calls = Append(@, CallOf("analysis", EvidenceView(Evidence), {}, d))]
                  EXCEPT !.stage = IF run.checks /\ ~DraftValid(d, Evidence) THEN "failed" ELSE "challenge"]
  BY Zenon DEF DraftStage, Moves
<1>2. run.stage = "analysis" /\ UNCHANGED <<audits, decisions, cases, runs>>
  BY Zenon DEF DraftStage
<1>3. RunSound(run, audits, decisions, cases)
  BY <1>2, RunUnderWay DEF RunStages
<1>4. PICK s : s = IF run.checks /\ ~DraftValid(d, Evidence) THEN "failed" ELSE "challenge"
  OBVIOUS
<1>5. PICK calls : calls = Append(run.calls, CallOf("analysis", EvidenceView(Evidence), {}, d))
  OBVIOUS
<1>6. PICK r : r = run'
  OBVIOUS
<1>7. r = [[run EXCEPT !["analysis"] = d, !.calls = calls] EXCEPT !.stage = s]
  <2>1. IsRun(run)
    BY <1>3 DEF RunSound
  <2> QED
    BY <1>1, <1>4, <1>5, <1>6, <2>1, Zenon DEF IsRun, RunFields
<1>8. /\ IsRun(r) /\ r.stage = s /\ r["analysis"] = d /\ r.calls = calls
      /\ \A n \in RunFields \ {"stage", "calls", "analysis"} : r[n] = run[n]
  <2>1. IsRun(run)
    BY <1>3 DEF RunSound
  <2> QED
    BY <1>7, <2>1, Zenon DEF IsRun, RunFields
<1>9. /\ r.analysis = d /\ r.request = run.request /\ r.prior = run.prior /\ r.checks = run.checks
      /\ r.lookups = run.lookups /\ r.update = run.update
  BY <1>8, Zenon DEF RunFields
<1>10. run.lookups = << <<>> >> /\ run.calls = <<>> /\ run.update = None
  BY <1>2, <1>3, SMT DEF RunSound, Progress, RunStages
<1>11. Evidence = Initial(r)
  BY <1>9, <1>10, FirstEvidence DEF Initial
<1>12. calls = <<DraftCall(r, "analysis", d)>>
  BY <1>5, <1>10, <1>11 DEF DraftCall
<1>13. s = "challenge" => Made(r, d)
  BY <1>4, <1>9, <1>11 DEF Made
<1>14. s = "failed" => Excused(r)
  <2>1. SUFFICES ASSUME s = "failed", r.checks PROVE Excused(r)
    BY DEF Excused
  <2>2. ~DraftValid(d, Initial(r))
    BY <1>4, <1>9, <1>11, <2>1
  <2>3. ~Honest(DraftCall(r, "analysis", d))
    BY <2>2, DraftRefuted DEF DraftCall
  <2>4. 1 \in DOMAIN r.calls /\ r.calls[1] = DraftCall(r, "analysis", d)
    BY <1>8, <1>12
  <2> QED
    BY <2>3, <2>4, Zenon DEF Excused
<1>15. s \in {"challenge", "failed"}
  BY <1>4
<1>16. Progress(r, decisions')
  BY <1>8, <1>9, <1>10, <1>12, <1>13, <1>14, <1>15, SMT DEF Progress, RunStages
<1>17. RunSound(r, audits', decisions', cases')
  <2>1. r.stage \in RunStages
    BY <1>8, <1>15 DEF RunStages
  <2> QED
    BY <1>2, <1>3, <1>8, <1>9, <1>16, <2>1, Zenon DEF RunSound
<1> QED
  BY <1>6, <1>17, Zenon

LEMMA ChallengeSound ==
    ASSUME ResearchInv, DraftStage("challenge", "lookup")
    PROVE  RunSound(run', audits', decisions', cases')
<1>1. PICK d \in Drafts :
          run' = [[run EXCEPT !["challenge"] = d,
                       !.calls = Append(@, CallOf("challenge", EvidenceView(Evidence), {}, d))]
                  EXCEPT !.stage = IF run.checks /\ ~DraftValid(d, Evidence) THEN "failed" ELSE "lookup"]
  BY Zenon DEF DraftStage, Moves
<1>2. run.stage = "challenge" /\ UNCHANGED <<audits, decisions, cases, runs>>
  BY Zenon DEF DraftStage
<1>3. RunSound(run, audits, decisions, cases)
  BY <1>2, RunUnderWay DEF RunStages
<1>4. PICK s : s = IF run.checks /\ ~DraftValid(d, Evidence) THEN "failed" ELSE "lookup"
  OBVIOUS
<1>5. PICK calls : calls = Append(run.calls, CallOf("challenge", EvidenceView(Evidence), {}, d))
  OBVIOUS
<1>6. PICK r : r = run'
  OBVIOUS
<1>7. r = [[run EXCEPT !["challenge"] = d, !.calls = calls] EXCEPT !.stage = s]
  <2>1. IsRun(run)
    BY <1>3 DEF RunSound
  <2> QED
    BY <1>1, <1>4, <1>5, <1>6, <2>1, Zenon DEF IsRun, RunFields
<1>8. /\ IsRun(r) /\ r.stage = s /\ r["challenge"] = d /\ r.calls = calls
      /\ \A n \in RunFields \ {"stage", "calls", "challenge"} : r[n] = run[n]
  <2>1. IsRun(run)
    BY <1>3 DEF RunSound
  <2> QED
    BY <1>7, <2>1, Zenon DEF IsRun, RunFields
<1>9. /\ r.challenge = d /\ r.analysis = run.analysis
      /\ r.request = run.request /\ r.prior = run.prior /\ r.checks = run.checks
      /\ r.lookups = run.lookups /\ r.update = run.update
  BY <1>8, Zenon DEF RunFields
<1>10. /\ run.lookups = << <<>> >> /\ run.update = None
       /\ Made(run, run.analysis) /\ run.calls = <<DraftCall(run, "analysis", run.analysis)>>
  BY <1>2, <1>3, SMT DEF RunSound, Progress, RunStages
<1>11. Evidence = Initial(r) /\ Initial(r) = Initial(run)
  BY <1>9, <1>10, FirstEvidence DEF Initial
<1>12. calls = <<DraftCall(r, "analysis", r.analysis), DraftCall(r, "challenge", d)>>
  <2>1. DraftCall(r, "analysis", r.analysis) = DraftCall(run, "analysis", run.analysis)
    BY <1>9, <1>11, Zenon DEF DraftCall
  <2>2. DraftCall(r, "challenge", d) = CallOf("challenge", EvidenceView(Evidence), {}, d)
    BY <1>11, Zenon DEF DraftCall
  <2>3. PICK first : first = DraftCall(r, "analysis", r.analysis)
    OBVIOUS
  <2>4. PICK second : second = DraftCall(r, "challenge", d)
    OBVIOUS
  <2>5. calls = Append(<<first>>, second)
    BY <1>5, <1>10, <2>1, <2>2, <2>3, <2>4
  <2>6. calls = <<first, second>>
    BY <2>5, AppendsToOne
  <2> QED
    BY <2>3, <2>4, <2>6
<1>13. Made(r, r.analysis) /\ (s = "lookup" => Made(r, d))
  BY <1>4, <1>9, <1>10, <1>11 DEF Made
<1>14. s = "failed" => Excused(r)
  <2>1. SUFFICES ASSUME s = "failed", r.checks PROVE Excused(r)
    BY DEF Excused
  <2>2. ~DraftValid(d, Initial(r))
    BY <1>4, <1>9, <1>11, <2>1
  <2>3. ~Honest(DraftCall(r, "challenge", d))
    BY <2>2, DraftRefuted DEF DraftCall
  <2>4. 2 \in DOMAIN r.calls /\ r.calls[2] = DraftCall(r, "challenge", d)
    BY <1>8, <1>12
  <2> QED
    BY <2>3, <2>4, Zenon DEF Excused
<1>15. s \in {"lookup", "failed"}
  BY <1>4
<1>16. s = "lookup" => DraftsMade(r)
  BY <1>8, <1>9, <1>12, <1>13 DEF DraftsMade
<1>17. Progress(r, decisions')
  BY <1>8, <1>9, <1>10, <1>14, <1>15, <1>16, SMT DEF Progress, RunStages
<1>18. RunSound(r, audits', decisions', cases')
  <2>1. r.stage \in RunStages
    BY <1>8, <1>15 DEF RunStages
  <2> QED
    BY <1>2, <1>3, <1>8, <1>9, <1>17, <2>1, Zenon DEF RunSound
<1> QED
  BY <1>6, <1>18, Zenon

\* An execution that looks up, or does not, and goes on to a decision.
LEMMA LooksOnce ==
    ASSUME ResearchInv, run.stage = "lookup", NEW drivers, NEW r,
           LookedUp(r, drivers), IsRun(r), r.stage = "synthesis",
           \A n \in RunFields \ {"stage", "lookups"} : r[n] = run[n],
           NEW audited, audits \subseteq audited, <<run.request.filing, drivers>> \in audited
    PROVE  RunSound(r, audited, decisions, cases)
<1>1. RunSound(run, audits, decisions, cases)
  BY RunUnderWay DEF RunStages
<1>2. /\ r.request = run.request /\ r.prior = run.prior /\ r.checks = run.checks /\ r.calls = run.calls
      /\ r.analysis = run.analysis /\ r.challenge = run.challenge /\ r.update = run.update
  BY Zenon DEF RunFields
<1>3. run.lookups = << <<>> >> /\ DraftsMade(run) /\ run.update = None
  BY <1>1, SMT DEF RunSound, Progress, RunStages
<1>4. DraftsMade(r)
  <2>1. Initial(r) = Initial(run)
    BY <1>2 DEF Initial
  <2> QED
    BY <1>2, <1>3, <2>1, Zenon DEF DraftsMade, Made, DraftCall
<1>5. Progress(r, decisions)
  <2>1. \E d : LookedUp(r, d)
    BY Zenon
  <2> QED
    BY <1>2, <1>3, <1>4, <2>1, SMT DEF Progress, RunStages
<1>6. <<run.request.filing, <<>> >> \in audits
  <2>1. \A i \in DOMAIN run.lookups : <<run.request.filing, run.lookups[i]>> \in audits
    BY <1>1, Zenon DEF RunSound
  <2>2. 1 \in DOMAIN run.lookups /\ run.lookups[1] = <<>>
    BY <1>3
  <2> QED
    BY <2>1, <2>2
<1>7. \A i \in DOMAIN r.lookups : <<r.request.filing, r.lookups[i]>> \in audited
  <2>1. r.lookups = << <<>> >> \/ r.lookups = << <<>>, drivers>>
    BY DEF LookedUp
  <2>2. \A i \in DOMAIN r.lookups : r.lookups[i] \in {<<>>, drivers}
    BY <2>1
  <2> QED
    BY <1>2, <1>6, <2>2
<1>8. r.stage \in RunStages
  BY DEF RunStages
<1> QED
  BY <1>1, <1>2, <1>5, <1>7, <1>8, Zenon DEF RunSound

\* The drivers that the drafts ask for are listed.
LEMMA SelectedOfRows ==
    ASSUME NEW q \in Requests, NEW analysis, NEW challenge
    PROVE  LET drivers == Selected(analysis, challenge, EvidenceRecord(q.filing, <<>>)) IN
           /\ drivers \in Seq(ToSet(q.filing.rows)) /\ Len(drivers) <= MaxLookups
           /\ ToSet(drivers) \subseteq ToSet(First(q.filing.rows))
<1>1. PICK e : e = EvidenceRecord(q.filing, <<>>)
  OBVIOUS
<1>2. e.rows = q.filing.rows
  BY <1>1, RecordOf
<1>3. q.filing.rows \in Seq(ToSet(q.filing.rows))
  BY RequestsHaveRows DEF RequestsAssumption
<1>4. PICK drivers : drivers = Selected(analysis, challenge, e)
  OBVIOUS
<1>5. PICK listed : listed = ToSet(First(q.filing.rows))
  OBVIOUS
<1>6. Looks(drivers, listed, ToSet(analysis.wants) \union ToSet(challenge.wants))
  BY <1>2, <1>3, <1>4, <1>5, SelectedLooks
<1>7. listed \subseteq ToSet(q.filing.rows)
  BY <1>3, <1>5, FirstType
<1>8. drivers \in Seq(ToSet(q.filing.rows))
  <2>1. drivers \in Seq(listed)
    BY <1>6 DEF Looks
  <2>2. Seq(listed) \subseteq Seq(ToSet(q.filing.rows))
    BY <1>7
  <2> QED
    BY <2>1, <2>2
<1>9. Len(drivers) <= MaxLookups /\ ToSet(drivers) \subseteq listed
  BY <1>6 DEF Looks
<1> QED
  BY <1>1, <1>4, <1>5, <1>8, <1>9

\* A lookup of these drivers.
Asks(drivers) ==
    /\ drivers \in Seq(ToSet(run.request.filing.rows)) /\ Len(drivers) <= MaxLookups
    /\ run.checks => drivers = Selected(run.analysis, run.challenge, Initial(run))

LEMMA NoneAsked ==
    ASSUME ResearchInv, run.stage = "lookup", Asks(<<>>), Moves("synthesis", run), UNCHANGED <<audits, decisions, cases>>
    PROVE  RunSound(run', audits', decisions', cases')
<1>1. RunSound(run, audits, decisions, cases)
  BY RunUnderWay DEF RunStages
<1>2. PICK r : r = run'
  OBVIOUS
<1>3. IsRun(run) /\ r = [run EXCEPT !.stage = "synthesis"]
  BY <1>1, <1>2 DEF RunSound, Moves
<1>4. IsRun(r) /\ r.stage = "synthesis" /\ \A n \in RunFields \ {"stage"} : r[n] = run[n]
  BY <1>3, Zenon DEF IsRun, RunFields
<1>5. run.lookups = << <<>> >>
  BY <1>1, SMT DEF RunSound, Progress
<1>6. /\ r.lookups = run.lookups /\ r.request = run.request /\ r.checks = run.checks
      /\ r.analysis = run.analysis /\ r.challenge = run.challenge
  BY <1>4, Zenon DEF RunFields
<1>7. Initial(r) = Initial(run)
  BY <1>6 DEF Initial
<1>8. LookedUp(r, <<>>)
  BY <1>5, <1>6, <1>7 DEF LookedUp, Asks
<1>9. <<run.request.filing, <<>> >> \in audits
  <2>1. \A i \in DOMAIN run.lookups : <<run.request.filing, run.lookups[i]>> \in audits
    BY <1>1, Zenon DEF RunSound
  <2>2. 1 \in DOMAIN run.lookups /\ run.lookups[1] = <<>>
    BY <1>5
  <2> QED
    BY <2>1, <2>2
<1>10. \A n \in RunFields \ {"stage", "lookups"} : r[n] = run[n]
  BY <1>4, Zenon
<1>11. RunSound(r, audits, decisions, cases)
  BY <1>4, <1>8, <1>9, <1>10, LooksOnce
<1> QED
  BY <1>2, <1>11, Zenon

LEMMA DriversAsked ==
    ASSUME ResearchInv, run.stage = "lookup", NEW drivers, drivers # <<>>, Asks(drivers),
           audits' = audits \union {<<run.request.filing, drivers>>},
           Moves("synthesis", [run EXCEPT !.lookups = Append(@, drivers)]), UNCHANGED <<decisions, cases>>
    PROVE  RunSound(run', audits', decisions', cases')
<1>1. RunSound(run, audits, decisions, cases)
  BY RunUnderWay DEF RunStages
<1>2. PICK r : r = run'
  OBVIOUS
<1>3. PICK lookups : lookups = Append(run.lookups, drivers)
  OBVIOUS
<1>4. IsRun(run)
  BY <1>1 DEF RunSound
<1>5. r = [[run EXCEPT !.lookups = lookups] EXCEPT !.stage = "synthesis"]
  BY <1>2, <1>3, <1>4, Zenon DEF Moves, IsRun, RunFields
<1>6. /\ IsRun(r) /\ r.stage = "synthesis" /\ r.lookups = lookups
      /\ \A n \in RunFields \ {"stage", "lookups"} : r[n] = run[n]
  BY <1>4, <1>5, Zenon DEF IsRun, RunFields
<1>7. run.lookups = << <<>> >>
  BY <1>1, SMT DEF RunSound, Progress
<1>8. /\ r.request = run.request /\ r.checks = run.checks
      /\ r.analysis = run.analysis /\ r.challenge = run.challenge
  BY <1>6, Zenon DEF RunFields
<1>9. Initial(r) = Initial(run)
  BY <1>8 DEF Initial
<1>10. r.lookups = << <<>>, drivers>>
  BY <1>3, <1>6, <1>7, AppendsToOne
<1>11. LookedUp(r, drivers)
  BY <1>8, <1>9, <1>10 DEF LookedUp, Asks
<1>12. PICK audited : audited = audits \union {<<run.request.filing, drivers>>}
  OBVIOUS
<1>13. RunSound(r, audited, decisions, cases)
  BY <1>6, <1>11, <1>12, LooksOnce
<1> QED
  BY <1>2, <1>12, <1>13, Zenon

\* An execution whose researcher checks nothing may fail at a lookup.
LEMMA LookupFails ==
    ASSUME ResearchInv, run.stage = "lookup", ~run.checks, Fails, UNCHANGED <<audits, decisions, cases>>
    PROVE  RunSound(run', audits', decisions', cases')
<1>1. RunSound(run, audits, decisions, cases)
  BY RunUnderWay DEF RunStages
<1>2. PICK r : r = run'
  OBVIOUS
<1>3. IsRun(run) /\ r = [run EXCEPT !.stage = "failed"]
  BY <1>1, <1>2 DEF RunSound, Fails, Moves
<1>4. IsRun(r) /\ r.stage = "failed" /\ \A n \in RunFields \ {"stage"} : r[n] = run[n]
  BY <1>3, Zenon DEF IsRun, RunFields
<1>5. r.lookups = run.lookups /\ r.request = run.request /\ r.checks = run.checks /\ r.prior = run.prior
  BY <1>4, Zenon DEF RunFields
<1>6. Progress(r, decisions) /\ r.stage \in RunStages
  BY <1>4, <1>5, SMT DEF Progress, Excused, RunStages
<1>7. RunSound(r, audits, decisions, cases)
  BY <1>1, <1>4, <1>5, <1>6, Zenon DEF RunSound
<1> QED
  BY <1>2, <1>7, Zenon

LEMMA LookupSound ==
    ASSUME ResearchInv, Lookup
    PROVE  RunSound(run', audits', decisions', cases')
<1>1. run.stage = "lookup" /\ UNCHANGED <<decisions, cases, runs>>
  BY Zenon DEF Lookup
<1>2. RunSound(run, audits, decisions, cases)
  BY <1>1, RunUnderWay DEF RunStages
<1>3. run.lookups = << <<>> >> /\ run.request \in Requests
  BY <1>1, <1>2, SMT DEF RunSound, Progress
<1>4. Evidence = Initial(run)
  BY <1>3, FirstEvidence
<1>5. Evidence.rows = run.request.filing.rows
  BY <1>4, RecordOf DEF Initial
<1>6. CASE run.checks
  <2>1. PICK drivers : drivers = Selected(run.analysis, run.challenge, Evidence)
    OBVIOUS
  <2>2. /\ drivers \in Seq(ToSet(run.request.filing.rows)) /\ Len(drivers) <= MaxLookups
        /\ ToSet(drivers) \subseteq ToSet(First(Evidence.rows))
    BY <1>3, <1>4, <1>5, <2>1, SelectedOfRows DEF Initial
  <2>3. Asks(drivers)
    BY <1>4, <2>1, <2>2 DEF Asks
  <2>4. IF drivers = <<>> THEN Moves("synthesis", run) /\ UNCHANGED audits ELSE Audit(drivers)
    BY <1>6, <2>1, Zenon DEF Lookup
  <2>5. CASE drivers = <<>>
    BY <1>1, <2>3, <2>4, <2>5, NoneAsked
  <2>6. CASE drivers # <<>>
    <3>1. /\ audits' = audits \union {<<run.request.filing, drivers>>}
          /\ Moves("synthesis", [run EXCEPT !.lookups = Append(@, drivers)])
      <4>1. Audit(drivers)
        BY <2>4, <2>6, Zenon
      <4>2. ~(drivers = <<>> \/ ~(ToSet(drivers) \subseteq ToSet(First(Evidence.rows))) \/ Len(drivers) > MaxLookups)
        <5>1. PICK n \in Nat : n = Len(drivers)
          BY <2>2
        <5> QED
          BY <2>2, <2>6, <5>1, LimitsAssumption
      <4> QED
        BY <4>1, <4>2, Zenon DEF Audit
    <3> QED
      BY <1>1, <2>3, <2>6, <3>1, DriversAsked
  <2> QED
    BY <2>5, <2>6
<1>7. CASE ~run.checks
  <2>1. \/ Moves("synthesis", run) /\ UNCHANGED audits
        \/ \E d \in ToSet(run.request.filing.rows) : Audit(<<d>>)
    BY <1>7, Zenon DEF Lookup
  <2>2. CASE Moves("synthesis", run) /\ UNCHANGED audits
    <3>1. Asks(<<>>)
      BY <1>7, LimitsAssumption DEF Asks
    <3> QED
      BY <1>1, <2>2, <3>1, NoneAsked
  <2>3. CASE \E d \in ToSet(run.request.filing.rows) : Audit(<<d>>)
    <3>1. PICK d \in ToSet(run.request.filing.rows) : Audit(<<d>>)
      BY <2>3
    <3>2. PICK drivers : drivers = <<d>>
      OBVIOUS
    <3>3. drivers # <<>> /\ drivers \in Seq(ToSet(run.request.filing.rows)) /\ Len(drivers) = 1
      BY <3>2
    <3>4. Audit(drivers)
      BY <3>1, <3>2
    <3>5. CASE drivers = <<>> \/ ~(ToSet(drivers) \subseteq ToSet(First(Evidence.rows))) \/ Len(drivers) > MaxLookups
      <4>1. Fails /\ UNCHANGED audits
        BY <3>4, <3>5, Zenon DEF Audit
      <4> QED
        BY <1>1, <1>7, <4>1, LookupFails
    <3>6. CASE ~(drivers = <<>> \/ ~(ToSet(drivers) \subseteq ToSet(First(Evidence.rows))) \/ Len(drivers) > MaxLookups)
      <4>1. /\ audits' = audits \union {<<run.request.filing, drivers>>}
            /\ Moves("synthesis", [run EXCEPT !.lookups = Append(@, drivers)])
        BY <3>4, <3>6, Zenon DEF Audit
      <4>2. Asks(drivers)
        <5>1. ~(1 > MaxLookups)
          BY <3>3, <3>6
        <5>2. 1 <= MaxLookups
          BY <5>1, LimitsAssumption
        <5> QED
          BY <1>7, <3>3, <5>2 DEF Asks
      <4> QED
        BY <1>1, <3>3, <4>1, <4>2, DriversAsked
    <3> QED
      BY <3>5, <3>6
  <2> QED
    BY <2>1, <2>2, <2>3
<1> QED
  BY <1>6, <1>7

\* The first and the last of the lookups.
LEMMA LookupsEnds ==
    ASSUME NEW lookups, NEW drivers, lookups = IF drivers = <<>> THEN << <<>> >> ELSE << <<>>, drivers>>
    PROVE  /\ lookups[1] = <<>> /\ lookups[Len(lookups)] = drivers
           /\ Len(lookups) = IF drivers = <<>> THEN 1 ELSE 2
<1>1. CASE drivers = <<>>
  <2>1. lookups = << <<>> >>
    BY <1>1
  <2> QED
    BY <1>1, <2>1
<1>2. CASE drivers # <<>>
  <2>1. lookups = << <<>>, drivers>>
    BY <1>2
  <2>2. Len(lookups) = 2 /\ lookups[1] = <<>> /\ lookups[2] = drivers
    BY <2>1
  <2> QED
    BY <1>2, <2>2
<1> QED
  BY <1>1, <1>2

\* What drafts, lookups and decision of a Case are accepted.
LEMMA Accepted ==
    ASSUME NEW c, NEW drivers, NEW first, NEW last,
           c.lookups = IF drivers = <<>> THEN << <<>> >> ELSE << <<>>, drivers>>,
           first = EvidenceRecord(c.request.filing, <<>>), last = EvidenceRecord(c.request.filing, drivers),
           drivers = Selected(c.analysis, c.challenge, first),
           DraftValid(c.analysis, first), DraftValid(c.challenge, first),
           DecisionValid(c.decision, last, c.challenge),
           c.calls = << CallOf("analysis", EvidenceView(first), {}, c.analysis),
                        CallOf("challenge", EvidenceView(first), {}, c.challenge),
                        CallOf("synthesis", EvidenceView(last), Required(c.challenge, last), c.decision) >>
    PROVE  Accepts(c)
<1>1. /\ c.lookups[1] = <<>> /\ c.lookups[Len(c.lookups)] = drivers
      /\ Len(c.lookups) = IF drivers = <<>> THEN 1 ELSE 2
  BY LookupsEnds
<1>2. first.drivers = <<>> /\ last.drivers = drivers
  BY RecordOf
<1>3. Len(c.lookups) = IF drivers # <<>> THEN 2 ELSE 1
  BY <1>1
<1> QED
  BY <1>1, <1>2, <1>3, Zenon DEF Accepts

\* Whether it is accepted does not depend on the stage.
LEMMA AcceptedAlike ==
    ASSUME NEW c, NEW d, Accepts(c), d.request = c.request, d.lookups = c.lookups, d.analysis = c.analysis,
           d.challenge = c.challenge, d.decision = c.decision, d.calls = c.calls
    PROVE  Accepts(d)
BY SMT DEF Accepts

\* A decision that is refused is one its own page refutes.
LEMMA DecisionRefuted ==
    ASSUME NEW d, NEW e, NEW challenge, ~DecisionValid(d, e, challenge)
    PROVE  ~Honest(CallOf("synthesis", EvidenceView(e), Required(challenge, e), d))
<1>1. PICK page : page = EvidenceView(e)
  OBVIOUS
<1>2. EvidenceIds(page) = EvidenceIds(e)
  BY <1>1, AllShown
<1>3. PICK required : required = Required(challenge, e)
  OBVIOUS
<1>4. PICK call : call = CallOf("synthesis", page, required, d)
  OBVIOUS
<1>5. call.stage = "synthesis" /\ call.sees = page /\ call.required = required /\ call.proposal = d
  BY <1>4 DEF CallOf
<1>6. ~Honest(call)
  BY <1>2, <1>3, <1>5, SMT DEF Honest, DecisionValid
<1> QED
  BY <1>1, <1>3, <1>4, <1>6

LEMMA SynthesizeSound ==
    ASSUME ResearchInv, Synthesize
    PROVE  RunSound(run', audits', decisions', cases')
<1>1. run.stage = "synthesis" /\ UNCHANGED <<audits, cases, runs>>
  BY Zenon DEF Synthesize
<1>2. RunSound(run, audits, decisions, cases)
  BY <1>1, RunUnderWay DEF RunStages
<1>3. IsRun(run) /\ DraftsMade(run) /\ run.update = None
  BY <1>1, <1>2, SMT DEF RunSound, Progress, RunStages
<1>4. PICK drivers : LookedUp(run, drivers)
  BY <1>1, <1>2, SMT DEF RunSound, Progress
<1>5. PICK last : last = EvidenceRecord(run.request.filing, drivers)
  OBVIOUS
<1>6. Evidence = last
  <2>1. run.lookups[Len(run.lookups)] = drivers
    BY <1>4, LookupsEnds DEF LookedUp
  <2> QED
    BY <1>5, <2>1 DEF Evidence
<1>7. PICK required : required = Required(run.challenge, last)
  OBVIOUS
<1>8. PICK d \in Decisions(EvidenceView(Evidence), Required(run.challenge, Evidence)) :
          LET formed == [run EXCEPT !.decision = d,
                  !.calls = Append(@, CallOf("synthesis", EvidenceView(Evidence),
                                            Required(run.challenge, Evidence), d))] IN
          IF (run.checks => DecisionValid(d, Evidence, run.challenge)) /\ Accepts(formed)
          THEN /\ decisions' = decisions \union {<<run.request, d>>}
               /\ Moves("compare", formed)
          ELSE Moves("failed", formed) /\ UNCHANGED decisions
  BY Zenon DEF Synthesize
<1>9. PICK call : call = CallOf("synthesis", EvidenceView(last), required, d)
  OBVIOUS
<1>10. PICK calls : calls = Append(run.calls, call)
  OBVIOUS
<1>11. PICK formed : formed = [run EXCEPT !.decision = d, !.calls = calls]
  OBVIOUS
<1>12. formed = [run EXCEPT !.decision = d,
                  !.calls = Append(@, CallOf("synthesis", EvidenceView(Evidence),
                                            Required(run.challenge, Evidence), d))]
  BY <1>3, <1>6, <1>7, <1>9, <1>10, <1>11, Zenon DEF IsRun, RunFields
<1>13. IF (run.checks => DecisionValid(d, last, run.challenge)) /\ Accepts(formed)
       THEN decisions' = decisions \union {<<run.request, d>>} /\ Moves("compare", formed)
       ELSE Moves("failed", formed) /\ UNCHANGED decisions
  BY <1>6, <1>8, <1>12
<1>14. PICK r : r = run'
  OBVIOUS
<1>15. PICK s : s = IF (run.checks => DecisionValid(d, last, run.challenge)) /\ Accepts(formed)
                    THEN "compare" ELSE "failed"
  OBVIOUS
<1>16. r = [formed EXCEPT !.stage = s]
  BY <1>13, <1>14, <1>15, Zenon DEF Moves
<1>17. /\ IsRun(formed) /\ formed.decision = d /\ formed.calls = calls
       /\ \A n \in RunFields \ {"decision", "calls"} : formed[n] = run[n]
  BY <1>3, <1>11, Zenon DEF IsRun, RunFields
<1>18. IsRun(r) /\ r.stage = s /\ \A n \in RunFields \ {"stage"} : r[n] = formed[n]
  BY <1>16, <1>17, Zenon DEF IsRun, RunFields
<1>19. /\ formed.request = run.request /\ formed.prior = run.prior /\ formed.checks = run.checks
       /\ formed.lookups = run.lookups /\ formed.update = run.update
       /\ formed.analysis = run.analysis /\ formed.challenge = run.challenge
  BY <1>17, Zenon DEF RunFields
<1>20. /\ r.request = formed.request /\ r.prior = formed.prior /\ r.checks = formed.checks
       /\ r.lookups = formed.lookups /\ r.update = formed.update
       /\ r.analysis = formed.analysis /\ r.challenge = formed.challenge
       /\ r.decision = formed.decision /\ r.calls = formed.calls
  BY <1>18, Zenon DEF RunFields
<1>21. calls = <<DraftCall(run, "analysis", run.analysis), DraftCall(run, "challenge", run.challenge), call>>
  <2>1. PICK a : a = DraftCall(run, "analysis", run.analysis)
    OBVIOUS
  <2>2. PICK b : b = DraftCall(run, "challenge", run.challenge)
    OBVIOUS
  <2>3. run.calls = <<a, b>>
    BY <1>3, <2>1, <2>2 DEF DraftsMade
  <2>4. calls = <<a, b, call>>
    BY <1>10, <2>3, AppendsToTwo
  <2> QED
    BY <2>1, <2>2, <2>4
<1>22. ASSUME run.checks, DecisionValid(d, last, run.challenge) PROVE Accepts(formed)
  <2>1. PICK first : first = Initial(run)
    OBVIOUS
  <2>2. first = EvidenceRecord(formed.request.filing, <<>>)
    BY <1>19, <2>1 DEF Initial
  <2>3. drivers = Selected(formed.analysis, formed.challenge, first)
    BY <1>4, <1>19, <1>22, <2>1 DEF LookedUp
  <2>4. DraftValid(formed.analysis, first) /\ DraftValid(formed.challenge, first)
    BY <1>3, <1>19, <1>22, <2>1, Zenon DEF DraftsMade, Made
  <2>5. formed.lookups = IF drivers = <<>> THEN << <<>> >> ELSE << <<>>, drivers>>
    BY <1>4, <1>19 DEF LookedUp
  <2>6. formed.calls = << CallOf("analysis", EvidenceView(first), {}, formed.analysis),
                          CallOf("challenge", EvidenceView(first), {}, formed.challenge),
                          CallOf("synthesis", EvidenceView(last), Required(formed.challenge, last), formed.decision) >>
    BY <1>7, <1>9, <1>17, <1>19, <1>21, <2>1, Zenon DEF DraftCall
  <2>7. last = EvidenceRecord(formed.request.filing, drivers) /\ DecisionValid(formed.decision, last, formed.challenge)
    BY <1>5, <1>17, <1>19, <1>22
  <2> QED
    BY <2>2, <2>3, <2>4, <2>5, <2>6, <2>7, Accepted
<1>23. s = "failed" => Excused(r)
  <2>1. SUFFICES ASSUME s = "failed", r.checks PROVE Excused(r)
    BY DEF Excused
  <2>2. ~((run.checks => DecisionValid(d, last, run.challenge)) /\ Accepts(formed))
    BY <1>15, <2>1
  <2>3. ~DecisionValid(d, last, run.challenge)
    BY <1>19, <1>20, <1>22, <2>1, <2>2
  <2>4. ~Honest(call)
    BY <1>7, <1>9, <2>3, DecisionRefuted
  <2>5. 3 \in DOMAIN r.calls /\ r.calls[3] = call
    BY <1>17, <1>20, <1>21
  <2> QED
    BY <2>4, <2>5, Zenon DEF Excused
<1>24. s = "compare" => Accepts(r) /\ <<r.request, r.decision>> \in decisions'
  <2>1. SUFFICES ASSUME s = "compare" PROVE Accepts(r) /\ <<r.request, r.decision>> \in decisions'
    OBVIOUS
  <2>2. (run.checks => DecisionValid(d, last, run.challenge)) /\ Accepts(formed)
    BY <1>15, <2>1
  <2>3. decisions' = decisions \union {<<run.request, d>>}
    BY <1>13, <2>2, Zenon
  <2>4. Accepts(r)
    BY <1>20, <2>2, AcceptedAlike
  <2> QED
    BY <1>17, <1>19, <1>20, <2>3, <2>4
<1>25. s \in {"compare", "failed"}
  BY <1>15
<1>26. r.update = None
  BY <1>3, <1>19, <1>20
<1>27. Progress(r, decisions')
  BY <1>18, <1>23, <1>24, <1>25, <1>26, SMT DEF Progress, RunStages
<1>28. r.stage \in RunStages
  BY <1>18, <1>25 DEF RunStages
<1>29. /\ r.request = run.request /\ r.prior = run.prior /\ r.lookups = run.lookups
  BY <1>19, <1>20
<1>30. RunSound(r, audits', decisions', cases')
  BY <1>1, <1>2, <1>18, <1>27, <1>28, <1>29, Zenon DEF RunSound
<1> QED
  BY <1>14, <1>30, Zenon

LEMMA CompareSound ==
    ASSUME ResearchInv, Compare
    PROVE  RunSound(run', audits', decisions', cases')
<1>1. run.stage = "compare" /\ UNCHANGED <<audits, decisions, cases, runs>>
  BY Zenon DEF Compare
<1>2. RunSound(run, audits, decisions, cases)
  BY <1>1, RunUnderWay DEF RunStages
<1>3. /\ IsRun(run) /\ run.update = None /\ Accepts(run) /\ <<run.request, run.decision>> \in decisions
      /\ run.prior \in cases \union {None}
  BY <1>1, <1>2, SMT DEF RunSound, Progress, RunStages
<1>4. run.prior # None => CaseLoads(run.prior)
  BY <1>3, Zenon DEF ResearchInv, CaseSound
<1>5. PICK comparison : comparison = Comparison(run.request, run.decision, run.prior)
  OBVIOUS
<1>6. IF comparison # None
      THEN Moves(IF Explains(run.request, run.prior) THEN "explain" ELSE "save", [run EXCEPT !.comparison = comparison])
      ELSE Fails
  BY <1>4, <1>5, Zenon DEF Compare
<1>7. PICK r : r = run'
  OBVIOUS
<1>8. CASE comparison # None
  <2>1. PICK s : s = IF Explains(run.request, run.prior) THEN "explain" ELSE "save"
    OBVIOUS
  <2>2. r = [[run EXCEPT !.comparison = comparison] EXCEPT !.stage = s]
    BY <1>6, <1>7, <1>8, <2>1, Zenon DEF Moves
  <2>3. /\ IsRun(r) /\ r.stage = s /\ r.comparison = comparison
        /\ \A n \in RunFields \ {"stage", "comparison"} : r[n] = run[n]
    BY <1>3, <2>2, Zenon DEF IsRun, RunFields
  <2>4. /\ r.request = run.request /\ r.prior = run.prior /\ r.checks = run.checks
        /\ r.lookups = run.lookups /\ r.update = run.update /\ r.analysis = run.analysis
        /\ r.challenge = run.challenge /\ r.decision = run.decision /\ r.calls = run.calls
    BY <2>3, Zenon DEF RunFields
  <2>5. Accepts(r)
    BY <1>3, <2>4, AcceptedAlike
  <2>6. s \in {"explain", "save"} /\ (s = "explain" <=> Explains(r.request, r.prior))
    BY <2>1, <2>4
  <2>7. s = "save" => Explained(r)
    BY <1>3, <2>4, <2>6 DEF Explained
  <2>8. r.comparison = Comparison(r.request, r.decision, r.prior) /\ r.comparison # None
    BY <1>5, <1>8, <2>3, <2>4
  <2>9. <<r.request, r.decision>> \in decisions'
    BY <1>1, <1>3, <2>4
  <2>10. r.update = None
    BY <1>3, <2>4
  <2>11. Progress(r, decisions')
    BY <2>3, <2>5, <2>6, <2>7, <2>8, <2>9, <2>10, SMT DEF Progress, RunStages
  <2>12. r.stage \in RunStages
    BY <2>3, <2>6 DEF RunStages
  <2>13. RunSound(r, audits', decisions', cases')
    BY <1>1, <1>2, <2>3, <2>4, <2>11, <2>12, Zenon DEF RunSound
  <2> QED
    BY <1>7, <2>13, Zenon
<1>9. CASE comparison = None
  <2>1. r = [run EXCEPT !.stage = "failed"]
    BY <1>6, <1>7, <1>9, Zenon DEF Fails, Moves
  <2>2. IsRun(r) /\ r.stage = "failed" /\ \A n \in RunFields \ {"stage"} : r[n] = run[n]
    BY <1>3, <2>1, Zenon DEF IsRun, RunFields
  <2>3. /\ r.request = run.request /\ r.prior = run.prior
        /\ r.lookups = run.lookups /\ r.decision = run.decision /\ r.calls = run.calls
    BY <2>2, Zenon DEF RunFields
  <2>4. PICK calls : calls = run.calls
    OBVIOUS
  <2>5. Len(calls) = 3
    <3>1. PICK a, b, c : calls = <<a, b, c>>
      BY <1>3, <2>4, Zenon DEF Accepts
    <3> QED
      BY <3>1
  <2>6. CASE run.prior # None
    <3>1. Excused(r)
      BY <1>5, <1>9, <2>3, <2>4, <2>5, <2>6, Zenon DEF Excused
    <3>2. Progress(r, decisions') /\ r.stage \in RunStages
      BY <2>2, <3>1, SMT DEF Progress, RunStages
    <3>3. RunSound(r, audits', decisions', cases')
      BY <1>1, <1>2, <2>2, <2>3, <3>2, Zenon DEF RunSound
    <3> QED
      BY <1>7, <3>3, Zenon
  <2>7. CASE run.prior = None
    <3>1. comparison = [kind |-> "initial", known |-> FALSE]
      BY <1>5, <2>7, Zenon DEF Comparison
    <3>2. comparison \in Comparisons
      BY <3>1 DEF Comparisons
    <3> QED
      BY <1>9, <3>2, NoneIsOther
  <2> QED
    BY <2>6, <2>7
<1> QED
  BY <1>8, <1>9

LEMMA ExplainSound ==
    ASSUME ResearchInv, Explain
    PROVE  RunSound(run', audits', decisions', cases')
<1>1. run.stage = "explain" /\ UNCHANGED <<audits, decisions, cases, runs>>
  BY Zenon DEF Explain
<1>2. RunSound(run, audits, decisions, cases)
  BY <1>1, RunUnderWay DEF RunStages
<1>3. /\ IsRun(run) /\ Accepts(run) /\ <<run.request, run.decision>> \in decisions
      /\ run.comparison # None /\ run.comparison = Comparison(run.request, run.decision, run.prior)
      /\ Explains(run.request, run.prior)
  BY <1>1, <1>2, SMT DEF RunSound, Progress, RunStages
<1>4. PICK u \in Updates :
          Moves(IF UpdateTaken(u, run.prior) THEN "save" ELSE "failed", [run EXCEPT !.update = u])
  BY Zenon DEF Explain
<1>5. PICK r : r = run'
  OBVIOUS
<1>6. PICK s : s = IF UpdateTaken(u, run.prior) THEN "save" ELSE "failed"
  OBVIOUS
<1>7. r = [[run EXCEPT !.update = u] EXCEPT !.stage = s]
  BY <1>4, <1>5, <1>6, Zenon DEF Moves
<1>8. /\ IsRun(r) /\ r.stage = s /\ r.update = u
      /\ \A n \in RunFields \ {"stage", "update"} : r[n] = run[n]
  BY <1>3, <1>7, Zenon DEF IsRun, RunFields
<1>9. /\ r.request = run.request /\ r.prior = run.prior /\ r.checks = run.checks
      /\ r.lookups = run.lookups /\ r.analysis = run.analysis /\ r.comparison = run.comparison
      /\ r.challenge = run.challenge /\ r.decision = run.decision /\ r.calls = run.calls
  BY <1>8, Zenon DEF RunFields
<1>10. Accepts(r)
  BY <1>3, <1>9, AcceptedAlike
<1>11. s = "save" => Explained(r)
  BY <1>3, <1>6, <1>8, <1>9 DEF Explained, UpdateTaken
<1>12. s = "failed" => Excused(r)
  <2>1. u # None
    BY <1>4, NoneIsOther
  <2> QED
    BY <1>6, <1>8, <1>9, <2>1 DEF Excused, UpdateTaken
<1>13. s \in {"save", "failed"}
  BY <1>6
<1>14. <<r.request, r.decision>> \in decisions'
  BY <1>1, <1>3, <1>9
<1>15. r.comparison # None /\ r.comparison = Comparison(r.request, r.decision, r.prior)
  BY <1>3, <1>9
<1>16. Progress(r, decisions')
  BY <1>8, <1>10, <1>11, <1>12, <1>13, <1>14, <1>15, SMT DEF Progress, RunStages
<1>17. r.stage \in RunStages
  BY <1>8, <1>13 DEF RunStages
<1>18. RunSound(r, audits', decisions', cases')
  BY <1>1, <1>2, <1>8, <1>9, <1>16, <1>17, Zenon DEF RunSound
<1> QED
  BY <1>5, <1>18, Zenon

-----------------------------------------------------------------------------
(* A stored Case.                                                          *)

\* What is accepted answers what was asked for.
LEMMA AcceptedAnswers ==
    ASSUME NEW c, c.request \in Requests, Accepts(c)
    PROVE  Answers(c)
<1>1. PICK first, last : /\ first = EvidenceRecord(c.request.filing, c.lookups[1])
                         /\ last = EvidenceRecord(c.request.filing, c.lookups[Len(c.lookups)])
  OBVIOUS
<1>2. PICK drivers : drivers = Selected(c.analysis, c.challenge, first)
  OBVIOUS
<1>3. /\ DraftValid(c.analysis, first) /\ DraftValid(c.challenge, first)
      /\ DecisionValid(c.decision, last, c.challenge) /\ last.drivers = drivers
  BY <1>1, <1>2, Zenon DEF Accepts
<1>4. PICK wanted : wanted = ToSet(c.analysis.wants) \union ToSet(c.challenge.wants)
  OBVIOUS
<1>5. PICK rows : rows = c.request.filing.rows
  OBVIOUS
<1>6. rows \in Seq(ToSet(rows)) /\ first.rows = rows
  BY <1>1, <1>5, RequestsHaveRows, RecordOf DEF RequestsAssumption
<1>7. PICK listed : listed = ToSet(First(rows))
  OBVIOUS
<1>8. Looks(drivers, listed, wanted)
  BY <1>2, <1>4, <1>6, <1>7, SelectedLooks
<1>9. listed \subseteq ToSet(rows)
  BY <1>6, <1>7, FirstType
<1>10. c.lookups[Len(c.lookups)] = drivers
  BY <1>1, <1>3, RecordOf
<1>11. wanted \subseteq listed
  BY <1>3, <1>4, <1>6, <1>7 DEF DraftValid
<1>12. Required(c.challenge, last) \subseteq ToSet(c.decision.replies)
  BY <1>3 DEF DecisionValid
<1>13. ASSUME NEW d \in ToSet(drivers), c.request.filing.hits[d] # <<>>
       PROVE  Head(c.request.filing.hits[d]) \in ToSet(c.decision.replies)
  <2>1. PICK i \in DOMAIN drivers : drivers[i] = d
    BY <1>13 DEF ToSet
  <2>2. i \in DOMAIN last.steps /\ last.steps[i] = c.request.filing.hits[d]
    BY <1>1, <1>10, <2>1, RecordOf
  <2>3. Head(last.steps[i]) \in Required(c.challenge, last)
    BY <1>13, <2>2 DEF Required
  <2> QED
    BY <1>12, <2>2, <2>3
<1>14. Cited(c.challenge.claims) \subseteq ToSet(c.decision.replies)
  BY <1>12 DEF Required
<1>15. \A d \in ToSet(drivers) : d \in wanted
  BY <1>8 DEF Looks
<1>16. \A d \in wanted : d \in ToSet(drivers) \/ Len(drivers) = MaxLookups
  BY <1>8, <1>11 DEF Looks
<1> QED
  BY <1>4, <1>10, <1>13, <1>14, <1>15, <1>16, Zenon DEF Answers

LEMMA SaveSound ==
    ASSUME ResearchInv, SaveCase
    PROVE  /\ RunSound(run', audits', decisions', cases')
           /\ \A c \in cases' : CaseSound(c)'
<1>1. run.stage = "save" /\ UNCHANGED <<audits, decisions, runs>>
  BY Zenon DEF SaveCase
<1>2. RunSound(run, audits, decisions, cases)
  BY <1>1, RunUnderWay DEF RunStages
<1>3. /\ IsRun(run) /\ Accepts(run) /\ <<run.request, run.decision>> \in decisions
      /\ run.comparison # None /\ run.comparison = Comparison(run.request, run.decision, run.prior)
      /\ run.prior \in cases \union {None} /\ run.request \in Requests /\ Explained(run)
  BY <1>1, <1>2, SMT DEF RunSound, Progress, RunStages
<1>4. PICK case : case = [n \in DOMAIN run \ {"stage", "checks"} |-> run[n]]
  OBVIOUS
<1>5. cases' = cases \union {case} /\ Moves(IF CaseLoads(case) THEN "delivered" ELSE "failed", run)
  BY <1>4, Zenon DEF SaveCase
<1>6. /\ case.request = run.request /\ case.prior = run.prior
      /\ case.lookups = run.lookups /\ case.analysis = run.analysis /\ case.comparison = run.comparison
      /\ case.challenge = run.challenge /\ case.decision = run.decision /\ case.calls = run.calls
      /\ case.update = run.update
  BY <1>3, <1>4, SMT DEF IsRun, RunFields
<1>7. Accepts(case)
  BY <1>3, <1>6, AcceptedAlike
<1>8. CaseReads(case)
  <2>1. \A i \in DOMAIN case.lookups : <<case.request.filing, case.lookups[i]>> \in audits
    BY <1>2, <1>6, Zenon DEF RunSound
  <2>2. IF Explains(case.request, case.prior) THEN UpdateValid(case.update, case.prior) ELSE case.update = None
    BY <1>3, <1>6 DEF Explained
  <2>3. case.comparison # None /\ case.comparison = Comparison(case.request, case.decision, case.prior)
    BY <1>3, <1>6
  <2> QED
    BY <1>7, <2>1, <2>2, <2>3, Zenon DEF CaseReads
<1>9. CaseLoads(case)
  <2>1. case.prior # None => CaseLoads(case.prior)
    BY <1>3, <1>6, Zenon DEF ResearchInv, CaseSound
  <2> QED
    BY <1>8, <2>1, LoadsOver
<1>10. PICK r : r = run'
  OBVIOUS
<1>11. RunSound(r, audits', decisions', cases')
  <2>1. r = [run EXCEPT !.stage = "delivered"]
    BY <1>5, <1>9, <1>10, Zenon DEF Moves
  <2>2. IsRun(r) /\ r.stage = "delivered" /\ \A n \in RunFields \ {"stage"} : r[n] = run[n]
    BY <1>3, <2>1, Zenon DEF IsRun, RunFields
  <2>3. r.request = run.request /\ r.prior = run.prior /\ r.lookups = run.lookups
    BY <2>2, Zenon DEF RunFields
  <2>4. Progress(r, decisions') /\ r.stage \in RunStages
    BY <2>2, SMT DEF Progress, RunStages
  <2>5. r.prior \in cases' \union {None}
    BY <1>3, <1>5, <2>3
  <2> QED
    BY <1>1, <1>2, <2>2, <2>3, <2>4, <2>5, Zenon DEF RunSound
<1>12. Follows(case)'
  <2>1. SUFFICES ASSUME case.prior # None
        PROVE  /\ case.prior \in cases'
               /\ case.prior.request.subject = case.request.subject
               /\ case.prior.request.cutoff <= case.request.cutoff
               /\ Explains(case.request, case.prior) => ToSet(case.update) = DOMAIN case.prior.decision.claims
    BY DEF Follows
  <2>2. case.prior \in cases
    BY <1>3, <1>6, <2>1
  <2>3. case.prior.request \in Requests
    BY <2>2, Zenon DEF ResearchInv, CaseSound
  <2>4. Comparison(case.request, case.decision, case.prior) # None
    BY <1>3, <1>6
  <2>5. /\ ~(case.prior.request.subject # case.request.subject)
        /\ ~(case.prior.request.cutoff > case.request.cutoff)
    BY <2>1, <2>4, Zenon DEF Comparison
  <2>6. case.prior.request.cutoff \in Int /\ case.request.cutoff \in Int
    BY <1>3, <1>6, <2>3, RequestsHaveRows DEF RequestsAssumption
  <2>7. case.prior.request.cutoff <= case.request.cutoff
    BY <2>5, <2>6
  <2>8. Explains(case.request, case.prior) => ToSet(case.update) = DOMAIN case.prior.decision.claims
    BY <1>3, <1>6, Zenon DEF Explained, UpdateValid
  <2> QED
    BY <1>5, <2>2, <2>5, <2>7, <2>8
<1>13. CaseSound(case)'
  <2>1. CaseLoads(case)'
    BY <1>1, <1>9, LoadsStay
  <2>2. Answers(case)
    BY <1>3, <1>6, <1>7, AcceptedAnswers
  <2>3. <<case.request, case.decision>> \in decisions' /\ case.request \in Requests
    BY <1>1, <1>3, <1>6
  <2> QED
    BY <1>12, <2>1, <2>2, <2>3 DEF CaseSound, Answers
<1>14. ASSUME NEW c \in cases PROVE CaseSound(c)'
  <2>1. CaseSound(c)
    BY DEF ResearchInv
  <2>2. CaseLoads(c)'
    BY <1>1, <2>1, LoadsStay DEF CaseSound
  <2>3. Follows(c)'
    BY <1>5, <2>1 DEF CaseSound, Follows
  <2> QED
    BY <1>1, <2>1, <2>2, <2>3 DEF CaseSound, Answers
<1> QED
  BY <1>5, <1>10, <1>11, <1>13, <1>14, Zenon

\* What is stored stands while nothing is stored.
LEMMA CasesStay ==
    ASSUME ResearchInv, cases' = cases, audits \subseteq audits', decisions \subseteq decisions'
    PROVE  \A c \in cases' : CaseSound(c)'
<1>1. SUFFICES ASSUME NEW c \in cases PROVE CaseSound(c)'
  OBVIOUS
<1>2. CaseSound(c)
  BY DEF ResearchInv
<1>3. CaseLoads(c)'
  BY <1>2, LoadsStay DEF CaseSound
<1>4. Follows(c)'
  BY <1>2 DEF CaseSound, Follows
<1>5. <<c.request, c.decision>> \in decisions'
  BY <1>2 DEF CaseSound
<1> QED
  BY <1>2, <1>3, <1>4, <1>5 DEF CaseSound, Answers

LEMMA ResearchStarts == ResearchInit => ResearchInv
BY DEF ResearchInit, ResearchInv

LEMMA ResearchSteps ==
    ASSUME ResearchInv, [ResearchNext]_researchVars
    PROVE  ResearchInv'
<1> USE DEF ResearchInv
<1>1. SUFFICES /\ run' = NoRun \/ RunSound(run', audits', decisions', cases')
               /\ \A c \in cases' : CaseSound(c)'
  BY Zenon DEF NoRun
<1> HIDE DEF ResearchInv
<1>2. CASE StartResearch
  <2>1. cases' = cases /\ decisions' = decisions /\ audits \subseteq audits'
    BY <1>2 DEF StartResearch
  <2> QED
    BY <1>2, <2>1, StartSound, CasesStay
<1>3. CASE DraftStage("analysis", "challenge")
  <2>1. UNCHANGED <<audits, decisions, cases, runs>>
    BY <1>3, Zenon DEF DraftStage
  <2> QED
    BY <1>3, <2>1, AnalysisSound, CasesStay
<1>4. CASE DraftStage("challenge", "lookup")
  <2>1. UNCHANGED <<audits, decisions, cases, runs>>
    BY <1>4, Zenon DEF DraftStage
  <2> QED
    BY <1>4, <2>1, ChallengeSound, CasesStay
<1>5. CASE Lookup
  <2>1. UNCHANGED <<decisions, cases, runs>>
    BY <1>5, Zenon DEF Lookup
  <2>2. audits \subseteq audits'
    BY <1>5 DEF Lookup, Audit
  <2> QED
    BY <1>5, <2>1, <2>2, LookupSound, CasesStay
<1>6. CASE Synthesize
  <2>1. UNCHANGED <<audits, cases, runs>>
    BY <1>6, Zenon DEF Synthesize
  <2>2. decisions \subseteq decisions'
    BY <1>6 DEF Synthesize
  <2> QED
    BY <1>6, <2>1, <2>2, SynthesizeSound, CasesStay
<1>7. CASE Compare
  <2>1. UNCHANGED <<audits, decisions, cases, runs>>
    BY <1>7, Zenon DEF Compare
  <2> QED
    BY <1>7, <2>1, CompareSound, CasesStay
<1>8. CASE Explain
  <2>1. UNCHANGED <<audits, decisions, cases, runs>>
    BY <1>8, Zenon DEF Explain
  <2> QED
    BY <1>8, <2>1, ExplainSound, CasesStay
<1>9. CASE SaveCase
  BY <1>9, SaveSound
<1>10. CASE KillResearch
  <2>1. UNCHANGED <<audits, decisions, cases, runs>> /\ run' = NoRun
    BY <1>10, Zenon DEF KillResearch
  <2> QED
    BY <2>1, CasesStay
<1>11. CASE UNCHANGED researchVars
  <2>1. UNCHANGED <<audits, decisions, cases>> /\ run' = run
    BY <1>11 DEF researchVars
  <2>2. run' = NoRun \/ RunSound(run', audits', decisions', cases')
    BY <2>1, Zenon DEF ResearchInv
  <2> QED
    BY <2>1, <2>2, CasesStay
<1> QED
  BY <1>2, <1>3, <1>4, <1>5, <1>6, <1>7, <1>8, <1>9, <1>10, <1>11, Zenon DEF ResearchNext

LEMMA ResearchHolds == ResearchInv => ResearchSound
<1> SUFFICES ASSUME ResearchInv PROVE ResearchSound
  OBVIOUS
<1>1. CasesStand
  BY Zenon DEF ResearchInv, CaseSound, CasesStand
<1>2. ASSUME run.stage = "synthesis", run.checks
      PROVE  LET required == Required(run.challenge, Evidence) IN
             /\ required \subseteq EvidenceIds(EvidenceView(Evidence))
             /\ Cardinality(required) <= MaxReplies
  <2>1. RunSound(run, audits, decisions, cases)
    BY <1>2, RunUnderWay DEF RunStages
  <2>2. DraftsMade(run) /\ run.request \in Requests
    BY <1>2, <2>1, SMT DEF RunSound, Progress
  <2>3. PICK drivers : LookedUp(run, drivers)
    BY <1>2, <2>1, SMT DEF RunSound, Progress
  <2>4. Evidence = EvidenceRecord(run.request.filing, drivers)
    <3>1. run.lookups[Len(run.lookups)] = drivers
      BY <2>3, LookupsEnds DEF LookedUp
    <3> QED
      BY <3>1 DEF Evidence
  <2>5. run.challenge \in Drafts /\ DraftValid(run.challenge, EvidenceRecord(run.request.filing, <<>>))
    BY <1>2, <2>2 DEF DraftsMade, Made, Initial
  <2>6. drivers \in Seq(ToSet(run.request.filing.rows)) /\ Len(drivers) <= MaxLookups
    BY <2>3 DEF LookedUp
  <2> QED
    BY <2>2, <2>4, <2>5, <2>6, RequiredShown
<1>3. ASSUME run.stage = "failed", run.checks
      PROVE  \/ ~run.request.filing.readable
             \/ \E i \in DOMAIN run.calls : ~Honest(run.calls[i])
             \/ Len(run.calls) = 3 /\ ~PriorFits
             \/ run.update # None /\ ~UpdateValid(run.update, run.prior)
  <2>1. RunSound(run, audits, decisions, cases)
    BY <1>3, RunUnderWay DEF RunStages
  <2>2. Excused(run)
    BY <1>3, <2>1, SMT DEF RunSound, Progress
  <2> QED
    BY <1>3, <2>2, Zenon DEF Excused, PriorFits
<1> QED
  BY <1>1, <1>2, <1>3, Zenon DEF ResearchSound, ShownIsEnough

\* ResearchSound: a decision can always be given from the page the program's own
\* researcher is shown, an execution of it fails only for an answer its page
\* refutes, an unreadable filing, a prior Case of another matter or an incomplete
\* explanation; and every stored Case, whatever its researcher checked, loads down
\* its chain, has its decision saved first, answers what it was asked and follows
\* Cases that are stored.
THEOREM ResearchAlwaysSound == ResearchSpec => []ResearchSound
<1>1. ResearchInit => ResearchInv
  BY ResearchStarts
<1>2. ResearchInv /\ [ResearchNext]_researchVars => ResearchInv'
  BY ResearchSteps
<1>3. ResearchInv => ResearchSound
  BY ResearchHolds
<1> QED
  BY <1>1, <1>2, <1>3, PTL DEF ResearchSpec

-----------------------------------------------------------------------------
(* Forward revisions.  First, what a draft with another input is.          *)

\* A draft with another common input, or with another scenario.
WithCommon(draft, common) ==
    [common |-> common, quoted |-> draft.quoted, annual |-> draft.annual, scenarios |-> draft.scenarios]
WithScenarios(draft, scenarios) ==
    [common |-> draft.common, quoted |-> draft.quoted, annual |-> draft.annual, scenarios |-> scenarios]

LEMMA WithCommonInput ==
    ASSUME NEW draft, ShapedDraft(draft), NEW target, target[1] = 0, NEW a
    PROVE  WithInput(draft, target, a) = WithCommon(draft, [draft.common EXCEPT ![target[2]] = a])
<1>1. draft = [common |-> draft.common, quoted |-> draft.quoted, annual |-> draft.annual, scenarios |-> draft.scenarios]
  BY DEF ShapedDraft
<1>2. WithInput(draft, target, a) = [draft EXCEPT !.common[target[2]] = a]
  BY DEF WithInput
<1> QED
  BY <1>1, <1>2 DEF WithCommon

LEMMA WithScenarioInput ==
    ASSUME NEW draft, ShapedDraft(draft), NEW target, target[1] # 0, NEW a
    PROVE  WithInput(draft, target, a) =
             WithScenarios(draft, [draft.scenarios EXCEPT ![target[1]] =
                                      [draft.scenarios[target[1]] EXCEPT ![target[2]] = a]])
<1>1. draft = [common |-> draft.common, quoted |-> draft.quoted, annual |-> draft.annual, scenarios |-> draft.scenarios]
  BY DEF ShapedDraft
<1>2. WithInput(draft, target, a) = [draft EXCEPT !.scenarios[target[1]][target[2]] = a]
  BY DEF WithInput
<1> QED
  BY <1>1, <1>2 DEF WithScenarios

\* The inputs of a draft have their shape.
LEMMA InputShape ==
    ASSUME NEW draft, ShapedDraft(draft), NEW target \in Targets(draft)
    PROVE  Input(draft, target) \in Inputs(target[2])
<1>1. CASE target \in {0} \X Common
  <2>1. target[1] = 0 /\ target[2] \in Common
    BY <1>1
  <2>2. Inputs(target[2]) = Inputs("market_price")
    BY <2>1 DEF Common, Inputs
  <2> QED
    BY <2>1, <2>2 DEF Input, ShapedDraft
<1>2. CASE target \in (DOMAIN draft.scenarios) \X Proposed
  <2>1. target[1] \in DOMAIN draft.scenarios /\ target[2] \in Proposed
    BY <1>2
  <2>2. draft.scenarios[target[1]] \in ToSet(draft.scenarios) /\ target[1] # 0
    BY <2>1 DEF ShapedDraft, ToSet
  <2> QED
    BY <2>1, <2>2 DEF Input, ShapedDraft
<1> QED
  BY <1>1, <1>2 DEF Targets

\* A draft with another input of its shape keeps its own.
LEMMA WithInputShape ==
    ASSUME NEW draft, ShapedDraft(draft), NEW target \in Targets(draft), NEW a \in Inputs(target[2]),
           NEW new, new = WithInput(draft, target, a)
    PROVE  /\ ShapedDraft(new) /\ Targets(new) = Targets(draft)
           /\ DOMAIN new.scenarios = DOMAIN draft.scenarios
           /\ new.quoted = draft.quoted /\ new.annual = draft.annual
           /\ \A u \in Targets(draft) : Input(new, u) = IF u = target THEN a ELSE Input(draft, u)
<1>1. CASE target \in {0} \X Common
  <2>1. target = <<0, target[2]>> /\ target[1] = 0 /\ target[2] \in Common
    BY <1>1
  <2>2. Inputs(target[2]) = Inputs("market_price")
    BY <2>1 DEF Common, Inputs
  <2>3. PICK common : common = [draft.common EXCEPT ![target[2]] = a]
    OBVIOUS
  <2>4. new = WithCommon(draft, common)
    BY <2>1, <2>3, WithCommonInput
  <2>5. new.common = common /\ new.quoted = draft.quoted /\ new.annual = draft.annual /\ new.scenarios = draft.scenarios
    BY <2>4 DEF WithCommon
  <2>6. /\ common \in [Common -> Inputs("market_price")]
        /\ common[target[2]] = a /\ \A f \in Common \ {target[2]} : common[f] = draft.common[f]
    BY <2>1, <2>2, <2>3 DEF ShapedDraft
  <2>7. ShapedDraft(new)
    BY <2>4, <2>5, <2>6 DEF ShapedDraft, WithCommon
  <2>8. ASSUME NEW u \in Targets(draft) PROVE Input(new, u) = IF u = target THEN a ELSE Input(draft, u)
    <3>1. CASE u \in {0} \X Common
      <4>1. u = <<0, u[2]>> /\ u[1] = 0 /\ u[2] \in Common
        BY <3>1
      <4>2. Input(new, u) = common[u[2]] /\ Input(draft, u) = draft.common[u[2]]
        BY <2>5, <4>1 DEF Input
      <4>3. u = target <=> u[2] = target[2]
        BY <2>1, <4>1
      <4> QED
        BY <2>6, <4>1, <4>2, <4>3
    <3>2. CASE u \in (DOMAIN draft.scenarios) \X Proposed
      <4>1. u[1] \in DOMAIN draft.scenarios /\ u[1] # 0
        BY <3>2 DEF ShapedDraft
      <4>2. Input(new, u) = Input(draft, u) /\ u # target
        BY <2>1, <2>5, <4>1 DEF Input
      <4> QED
        BY <4>2
    <3> QED
      BY <3>1, <3>2 DEF Targets
  <2> QED
    BY <2>5, <2>7, <2>8 DEF Targets
<1>2. CASE target \in (DOMAIN draft.scenarios) \X Proposed
  <2>1. /\ target = <<target[1], target[2]>>
        /\ target[1] \in DOMAIN draft.scenarios /\ target[2] \in Proposed
    BY <1>2
  <2>2. PICK s, f : s = target[1] /\ f = target[2]
    OBVIOUS
  <2>3. PICK old : old = draft.scenarios
    OBVIOUS
  <2>4. old \in Seq(ToSet(old)) /\ s \in DOMAIN old /\ s # 0
    BY <2>1, <2>2, <2>3 DEF ShapedDraft
  <2>5. PICK scenario : scenario = [old[s] EXCEPT ![f] = a]
    OBVIOUS
  <2>6. PICK scenarios : scenarios = [old EXCEPT ![s] = scenario]
    OBVIOUS
  <2>7. new = WithScenarios(draft, scenarios)
    BY <2>2, <2>3, <2>4, <2>5, <2>6, WithScenarioInput
  <2>8. new.common = draft.common /\ new.quoted = draft.quoted /\ new.annual = draft.annual /\ new.scenarios = scenarios
    BY <2>7 DEF WithScenarios
  <2>9. old[s] = [field \in Proposed |-> old[s][field]] /\ \A field \in Proposed : old[s][field] \in Inputs(field)
    <3>1. old[s] \in ToSet(old)
      BY <2>4 DEF ToSet
    <3> QED
      BY <2>3, <3>1, Zenon DEF ShapedDraft
  <2>10. /\ scenario = [field \in Proposed |-> scenario[field]]
         /\ scenario[f] = a /\ \A field \in Proposed \ {f} : scenario[field] = old[s][field]
    BY <2>1, <2>2, <2>5, <2>9
  <2>11. \A field \in Proposed : scenario[field] \in Inputs(field)
    BY <2>2, <2>9, <2>10
  <2>12. /\ DOMAIN scenarios = DOMAIN old /\ scenarios \in Seq(ToSet(old) \union {scenario})
         /\ scenarios[s] = scenario /\ \A i \in DOMAIN old \ {s} : scenarios[i] = old[i]
    BY <2>4, <2>6
  <2>13. ASSUME NEW e \in ToSet(scenarios)
         PROVE  /\ e = [field \in Proposed |-> e[field]]
                /\ \A field \in Proposed : e[field] \in Inputs(field)
    <3>1. e = scenario \/ e \in ToSet(old)
      BY <2>12 DEF ToSet
    <3>2. CASE e = scenario
      BY <2>10, <2>11, <3>2
    <3>3. CASE e \in ToSet(old)
      BY <2>3, <3>3, Zenon DEF ShapedDraft
    <3> QED
      BY <3>1, <3>2, <3>3
  <2>14. scenarios \in Seq(ToSet(scenarios))
    <3>1. \A i \in DOMAIN scenarios : scenarios[i] \in ToSet(scenarios)
      BY DEF ToSet
    <3> QED
      BY <2>12, <3>1
  <2>15. ShapedDraft(new)
    <3>1. new = [common |-> new.common, quoted |-> new.quoted, annual |-> new.annual, scenarios |-> new.scenarios]
      BY <2>7, <2>8 DEF WithScenarios
    <3> QED
      BY <2>8, <2>13, <2>14, <3>1, Zenon DEF ShapedDraft
  <2>16. ASSUME NEW u \in Targets(draft) PROVE Input(new, u) = IF u = target THEN a ELSE Input(draft, u)
    <3>1. CASE u \in {0} \X Common
      <4>1. u[1] = 0
        BY <3>1
      <4>2. Input(new, u) = Input(draft, u) /\ u # target
        BY <2>2, <2>4, <2>8, <4>1 DEF Input
      <4> QED
        BY <4>2
    <3>2. CASE u \in (DOMAIN draft.scenarios) \X Proposed
      <4>1. u = <<u[1], u[2]>> /\ u[1] \in DOMAIN old /\ u[2] \in Proposed /\ u[1] # 0
        BY <2>3, <2>4, <3>2
      <4>2. Input(new, u) = scenarios[u[1]][u[2]] /\ Input(draft, u) = old[u[1]][u[2]]
        BY <2>3, <2>8, <4>1 DEF Input
      <4>3. CASE u[1] # s
        BY <2>2, <2>12, <4>1, <4>2, <4>3
      <4>4. CASE u[1] = s /\ u[2] # f
        BY <2>2, <2>10, <2>12, <4>1, <4>2, <4>4
      <4>5. CASE u[1] = s /\ u[2] = f
        BY <2>1, <2>2, <2>10, <2>12, <4>1, <4>2, <4>5
      <4> QED
        BY <4>3, <4>4, <4>5
    <3> QED
      BY <3>1, <3>2 DEF Targets
  <2> QED
    BY <2>3, <2>8, <2>12, <2>15, <2>16 DEF Targets
<1> QED
  BY <1>1, <1>2 DEF Targets

\* A draft with another input of a scenario is the same for every other one.
LEMMA WithInputOther ==
    ASSUME NEW draft, ShapedDraft(draft), NEW target \in Targets(draft), target[1] # 0,
           NEW a, NEW s \in DOMAIN draft.scenarios, s # target[1]
    PROVE  Bridge(WithInput(draft, target, a), s) = Bridge(draft, s)
<1>1. PICK scenario : scenario = [draft.scenarios[target[1]] EXCEPT ![target[2]] = a]
  OBVIOUS
<1>2. PICK scenarios : scenarios = [draft.scenarios EXCEPT ![target[1]] = scenario]
  OBVIOUS
<1>3. WithInput(draft, target, a) = WithScenarios(draft, scenarios)
  BY <1>1, <1>2, WithScenarioInput
<1>4. scenarios[s] = draft.scenarios[s]
  BY <1>2
<1>5. PICK new : new = WithInput(draft, target, a)
  OBVIOUS
<1>6. /\ new.common = draft.common /\ new.quoted = draft.quoted /\ new.annual = draft.annual
      /\ new.scenarios[s] = draft.scenarios[s]
  BY <1>3, <1>4, <1>5 DEF WithScenarios
<1>7. Comparable(new) = Comparable(draft)
  BY <1>6, Zenon DEF Comparable
<1>8. Bridge(new, s) = Bridge(draft, s)
  BY <1>6, <1>7, Zenon DEF Bridge
<1> QED
  BY <1>5, <1>8

\* Two drafts with the same inputs, of the same dates and scenarios, are equal.
Alike(draft, other) ==
    /\ draft.quoted = other.quoted /\ draft.annual = other.annual
    /\ DOMAIN draft.scenarios = DOMAIN other.scenarios

LEMMA SameInputs ==
    ASSUME NEW draft, ShapedDraft(draft), NEW other, ShapedDraft(other), Alike(draft, other),
           \A u \in Targets(draft) : Input(draft, u) = Input(other, u)
    PROVE  draft = other
<1>1. ASSUME NEW f \in Common PROVE draft.common[f] = other.common[f]
  <2>1. <<0, f>> \in Targets(draft) /\ <<0, f>>[1] = 0 /\ <<0, f>>[2] = f
    BY DEF Targets
  <2>2. Input(draft, <<0, f>>) = draft.common[f] /\ Input(other, <<0, f>>) = other.common[f]
    BY <2>1, Zenon DEF Input
  <2> QED
    BY <2>1, <2>2
<1>2. draft.common = other.common
  BY <1>1 DEF ShapedDraft
<1>3. PICK X, Y : X = ToSet(draft.scenarios) /\ Y = ToSet(other.scenarios)
  OBVIOUS
<1>4. draft.scenarios \in Seq(X) /\ other.scenarios \in Seq(Y)
  BY <1>3, Zenon DEF ShapedDraft
<1>5. ASSUME NEW s \in DOMAIN draft.scenarios PROVE draft.scenarios[s] = other.scenarios[s]
  <2>1. s # 0
    BY <1>4
  <2>2. draft.scenarios[s] \in ToSet(draft.scenarios) /\ other.scenarios[s] \in ToSet(other.scenarios)
    BY DEF ToSet, Alike
  <2>3. PICK x, y : x = draft.scenarios[s] /\ y = other.scenarios[s]
    OBVIOUS
  <2>4. x = [field \in Proposed |-> x[field]] /\ y = [field \in Proposed |-> y[field]]
    BY <2>2, <2>3, Zenon DEF ShapedDraft
  <2>5. ASSUME NEW f \in Proposed PROVE x[f] = y[f]
    <3>1. <<s, f>> \in Targets(draft) /\ <<s, f>>[1] = s /\ <<s, f>>[2] = f
      BY DEF Targets
    <3>2. Input(draft, <<s, f>>) = x[f] /\ Input(other, <<s, f>>) = y[f]
      BY <2>1, <2>3, <3>1, Zenon DEF Input
    <3> QED
      BY <3>1, <3>2
  <2> QED
    BY <2>3, <2>4, <2>5
<1>6. draft.scenarios = other.scenarios
  <2>1. PICK a, b : a = draft.scenarios /\ b = other.scenarios
    OBVIOUS
  <2>2. a \in Seq(X) /\ b \in Seq(Y) /\ DOMAIN a = DOMAIN b /\ \A s \in DOMAIN a : a[s] = b[s]
    BY <1>4, <1>5, <2>1 DEF Alike
  <2>3. a = [s \in DOMAIN a |-> a[s]] /\ b = [s \in DOMAIN b |-> b[s]]
    BY <2>2
  <2>4. a = b
    BY <2>2, <2>3
  <2> QED
    BY <2>1, <2>4
<1> QED
  BY <1>2, <1>6 DEF ShapedDraft, Alike

\* A draft is legal as its inputs are.
LEMMA LegalInputs ==
    ASSUME NEW draft, ShapedDraft(draft)
    PROVE  LegalDraft(draft) <=> \A u \in Targets(draft) : LegalInput(u[2], Input(draft, u))
<1>0. PICK X : draft.scenarios \in Seq(X)
  BY DEF ShapedDraft
<1>1. ASSUME LegalDraft(draft), NEW u \in Targets(draft) PROVE LegalInput(u[2], Input(draft, u))
  <2>1. CASE u \in {0} \X Common
    BY <1>1, <2>1 DEF LegalDraft, Input
  <2>2. CASE u \in (DOMAIN draft.scenarios) \X Proposed
    <3>1. u[1] \in DOMAIN draft.scenarios /\ u[2] \in Proposed /\ u[1] # 0
      BY <1>0, <2>2
    <3> QED
      BY <1>1, <3>1, Zenon DEF LegalDraft, Input
  <2> QED
    BY <2>1, <2>2 DEF Targets
<1>2. ASSUME \A u \in Targets(draft) : LegalInput(u[2], Input(draft, u)) PROVE LegalDraft(draft)
  <2>1. ASSUME NEW f \in Common PROVE LegalInput(f, draft.common[f])
    <3>1. <<0, f>> \in Targets(draft) /\ <<0, f>>[1] = 0 /\ <<0, f>>[2] = f
      BY DEF Targets
    <3>2. Input(draft, <<0, f>>) = draft.common[f]
      BY <3>1, Zenon DEF Input
    <3> QED
      BY <1>2, <3>1, <3>2
  <2>2. ASSUME NEW s \in DOMAIN draft.scenarios, NEW f \in Proposed PROVE LegalInput(f, draft.scenarios[s][f])
    <3>0. s # 0
      BY <1>0
    <3>1. <<s, f>> \in Targets(draft) /\ <<s, f>>[1] = s /\ <<s, f>>[2] = f
      BY DEF Targets
    <3>2. Input(draft, <<s, f>>) = draft.scenarios[s][f]
      BY <3>0, <3>1, Zenon DEF Input
    <3> QED
      BY <1>2, <3>1, <3>2
  <2> QED
    BY <2>1, <2>2 DEF LegalDraft
<1> QED
  BY <1>1, <1>2

-----------------------------------------------------------------------------
(* The invariant: every draft of a revision has the dates and scenarios of *)
(* the base; the edits relate the base to the new draft; the draft walked  *)
(* to has the new inputs of the edits walked and the old ones of the rest; *)
(* the rows of every scenario lead from the base to the draft walked to.   *)

AnyInput == Inputs("market_price") \union Inputs("noncontrolling_attribution")
AppliedEdits == [target : Targets(base), before : AnyInput, after : AnyInput]

DraftsShaped ==
    /\ ShapedDraft(base) /\ ShapedDraft(effective) /\ ShapedDraft(current)
    /\ Alike(effective, base) /\ Alike(current, base)

Untouched(u) == \A i \in DOMAIN applied : applied[i].target # u

EditsKept ==
    /\ applied \in Seq(AppliedEdits)
    /\ \A i \in DOMAIN applied :
          LET edit == applied[i]
          IN /\ edit.target \in seen
             /\ edit.before \in Inputs(edit.target[2]) /\ edit.before = Input(base, edit.target)
             /\ edit.after = Input(effective, edit.target)
             /\ \A j \in DOMAIN applied : applied[j].target = edit.target => i = j
    /\ \A u \in Targets(base) : Untouched(u) => Input(effective, u) = Input(base, u)

\* What the draft walked to has of the edit i.
Walked(i) ==
    IF i <= walked THEN applied[i].after
    ELSE IF i = walked + 1 /\ piece = 2 THEN Pieces(applied[i])[1]
    ELSE applied[i].before

WalkKept ==
    /\ walked \in 0 .. Len(applied) /\ piece \in {1, 2}
    /\ piece = 2 => walked < Len(applied) /\ Len(Pieces(applied[walked + 1])) = 2
    /\ \A i \in DOMAIN applied : Input(current, applied[i].target) = Walked(i)
    /\ \A u \in Targets(base) : Untouched(u) => Input(current, u) = Input(base, u)

\* Rows lead from a number to another.
Leads(rows, s, m, from, to) ==
    /\ rows = <<>> => from = to
    /\ rows # <<>> => rows[1][s][m][1] = from /\ rows[Len(rows)][s][m][2] = to
    /\ \A i \in 1 .. Len(rows) - 1 : rows[i][s][m][2] = rows[i + 1][s][m][1]

RowsKept ==
    /\ effects \in Seq(ToSet(effects))
    /\ \A s \in DOMAIN base.scenarios, m \in EffectMetrics :
          Leads(EffectsOf(s), s, m, Bridge(base, s)[m], Bridge(current, s)[m])

PhaseKept ==
    /\ revPhase \in {"editing", "effects", "done", "refused"}
    /\ LegalDraft(base)
    /\ revPhase = "editing" => walked = 0 /\ piece = 1 /\ effects = <<>> /\ current = base
    /\ revPhase \in {"effects", "done"} => LegalDraft(effective)
    /\ revPhase = "done" => walked = Len(applied) /\ piece = 1

RevInv == DraftsShaped /\ EditsKept /\ WalkKept /\ RowsKept /\ PhaseKept

-----------------------------------------------------------------------------
(* The pieces of an edit, and the legality of the drafts between.          *)

LEMMA PiecesShape ==
    ASSUME NEW edit, edit.before \in Inputs(edit.target[2]), edit.after \in Inputs(edit.target[2])
    PROVE  /\ Pieces(edit) \in Seq(Inputs(edit.target[2])) /\ Len(Pieces(edit)) \in {1, 2}
           /\ Pieces(edit)[Len(Pieces(edit))] = edit.after
           /\ Len(Pieces(edit)) = 2 =>
                 Pieces(edit)[1].value = edit.before.value /\ edit.target[2] = "noncontrolling_attribution"
<1>1. CASE /\ edit.target[2] = "noncontrolling_attribution"
           /\ edit.before.nature # edit.after.nature /\ edit.before.value # edit.after.value
  <2>1. PICK b, a : b = edit.before /\ a = edit.after
    OBVIOUS
  <2>2. PICK middle : middle = [b EXCEPT !.nature = a.nature]
    OBVIOUS
  <2>3. Inputs(edit.target[2]) = [nature : {"profit", "loss", "unknown"}, value : Int \union {None}, reason : STRING]
    BY <1>1 DEF Inputs
  <2>4. middle \in Inputs(edit.target[2]) /\ middle.value = b.value /\ a \in Inputs(edit.target[2])
    BY <2>1, <2>2, <2>3
  <2>5. Pieces(edit) = <<middle, a>>
    BY <1>1, <2>1, <2>2 DEF Pieces
  <2> QED
    BY <1>1, <2>1, <2>4, <2>5
<1>2. CASE ~(/\ edit.target[2] = "noncontrolling_attribution"
             /\ edit.before.nature # edit.after.nature /\ edit.before.value # edit.after.value)
  <2>1. Pieces(edit) = <<edit.after>>
    BY <1>2 DEF Pieces
  <2> QED
    BY <2>1
<1> QED
  BY <1>1, <1>2

\* The inputs of an edit of the list.
LEMMA EditShape ==
    ASSUME DraftsShaped, EditsKept, NEW i \in DOMAIN applied
    PROVE  /\ applied[i].target \in Targets(base) /\ applied[i].before \in Inputs(applied[i].target[2])
           /\ applied[i].after \in Inputs(applied[i].target[2])
<1>1. applied[i] \in AppliedEdits
  BY DEF EditsKept
<1>2. applied[i].target \in Targets(base)
  BY <1>1 DEF AppliedEdits
<1>3. Targets(effective) = Targets(base)
  BY DEF DraftsShaped, Alike, Targets
<1>4. Input(effective, applied[i].target) \in Inputs(applied[i].target[2])
  BY <1>2, <1>3, InputShape DEF DraftsShaped
<1>5. applied[i].before \in Inputs(applied[i].target[2]) /\ applied[i].after = Input(effective, applied[i].target)
  BY DEF EditsKept
<1> QED
  BY <1>2, <1>4, <1>5

LEMMA WalkedLegal ==
    ASSUME RevInv, revPhase \in {"effects", "done"}
    PROVE  LegalDraft(current)
<1>0. DraftsShaped /\ EditsKept /\ WalkKept /\ LegalDraft(base) /\ LegalDraft(effective)
  BY DEF RevInv, PhaseKept
<1>1. Targets(current) = Targets(base) /\ Targets(effective) = Targets(base)
  BY <1>0 DEF DraftsShaped, Alike, Targets
<1>2. \A u \in Targets(base) : LegalInput(u[2], Input(base, u)) /\ LegalInput(u[2], Input(effective, u))
  BY <1>0, <1>1, LegalInputs DEF DraftsShaped
<1>3. ASSUME NEW u \in Targets(base) PROVE LegalInput(u[2], Input(current, u))
  <2>1. CASE Untouched(u)
    BY <1>0, <1>2, <2>1 DEF WalkKept
  <2>2. CASE ~Untouched(u)
    <3>1. PICK i \in DOMAIN applied : applied[i].target = u
      BY <2>2 DEF Untouched
    <3>2. Input(current, u) = Walked(i)
      BY <1>0, <3>1 DEF WalkKept
    <3>3. applied[i].before = Input(base, u) /\ applied[i].after = Input(effective, u)
      BY <1>0, <3>1 DEF EditsKept
    <3>4. LegalInput(u[2], applied[i].before) /\ LegalInput(u[2], applied[i].after)
      BY <1>2, <3>3
    <3>5. CASE i = walked + 1 /\ piece = 2
      <4>1. Len(Pieces(applied[i])) = 2
        BY <1>0, <3>5 DEF WalkKept
      <4>2. Pieces(applied[i])[1].value = applied[i].before.value
        BY <1>0, <4>1, EditShape, PiecesShape
      <4>3. Walked(i) = Pieces(applied[i])[1]
        BY <1>0, <3>5 DEF Walked, WalkKept
      <4> QED
        BY <3>2, <3>4, <4>2, <4>3 DEF LegalInput
    <3>6. CASE ~(i = walked + 1 /\ piece = 2)
      <4>1. Walked(i) = applied[i].before \/ Walked(i) = applied[i].after
        BY <3>6 DEF Walked
      <4> QED
        BY <3>2, <3>4, <4>1
    <3> QED
      BY <3>5, <3>6
  <2> QED
    BY <2>1, <2>2
<1> QED
  BY <1>0, <1>1, <1>3, LegalInputs DEF DraftsShaped

\* At the end of the walk the draft walked to is the new one.
LEMMA WalkEnds ==
    ASSUME RevInv, walked = Len(applied), piece = 1
    PROVE  current = effective
<1>0. DraftsShaped /\ EditsKept /\ WalkKept
  BY DEF RevInv
<1>1. Targets(current) = Targets(base) /\ Alike(current, effective)
  BY <1>0 DEF DraftsShaped, Alike, Targets
<1>2. ASSUME NEW u \in Targets(base) PROVE Input(current, u) = Input(effective, u)
  <2>1. CASE Untouched(u)
    BY <1>0, <2>1 DEF WalkKept, EditsKept
  <2>2. CASE ~Untouched(u)
    <3>1. PICK i \in DOMAIN applied : applied[i].target = u
      BY <2>2 DEF Untouched
    <3>2. Input(current, u) = Walked(i) /\ applied[i].after = Input(effective, u)
      BY <1>0, <3>1 DEF WalkKept, EditsKept
    <3>3. i <= walked
      BY <1>0, <3>1 DEF EditsKept
    <3> QED
      BY <3>2, <3>3 DEF Walked
  <2> QED
    BY <2>1, <2>2
<1> QED
  BY <1>0, <1>1, <1>2, SameInputs DEF DraftsShaped

-----------------------------------------------------------------------------
(* The steps. *)

LEMMA AlikeSelf ==
    ASSUME NEW draft
    PROVE  Alike(draft, draft)
BY DEF Alike

\* Where a revision begins.
Begins ==
    /\ ShapedDraft(base) /\ LegalDraft(base) /\ effective = base /\ current = base
    /\ seen = {} /\ applied = <<>> /\ effects = <<>> /\ walked = 0 /\ piece = 1 /\ revPhase = "editing"

LEMMA BeginsHolds ==
    ASSUME Begins
    PROVE  RevInv
<1>1. DraftsShaped
  BY AlikeSelf DEF Begins, DraftsShaped
<1>2. DOMAIN applied = {} /\ Len(applied) = 0 /\ applied \in Seq(AppliedEdits)
  BY DEF Begins
<1>3. EditsKept
  BY <1>2 DEF Begins, EditsKept
<1>4. WalkKept
  BY <1>2 DEF Begins, WalkKept
<1>5. RowsKept
  <2>1. effects = <<>> /\ ToSet(effects) = {}
    BY DEF Begins, ToSet
  <2>2. \A s : EffectsOf(s) = <<>>
    BY <2>1, ThoseEmpty DEF EffectsOf
  <2>3. Len(<<>>) = 0 /\ <<>> \in Seq(ToSet(effects))
    OBVIOUS
  <2>4. \A s, m, from : Leads(<<>>, s, m, from, from)
    BY <2>3 DEF Leads
  <2> QED
    BY <2>1, <2>2, <2>3, <2>4 DEF RowsKept, Begins
<1>6. PhaseKept
  BY DEF Begins, PhaseKept
<1> QED
  BY <1>1, <1>3, <1>4, <1>5, <1>6 DEF RevInv

LEMMA BeginsHoldsNext == Begins' => RevInv'
<1>1. Begins => RevInv
  BY BeginsHolds
<1> QED
  BY <1>1, PTL

\* An edit that is refused, and one that changes nothing, leave the drafts.
LEMMA EditKeeps ==
    ASSUME RevInv, NEW target, NEW expected, NEW replacement, Edit(target, expected, replacement)
    PROVE  RevInv'
<1>0. DraftsShaped /\ EditsKept /\ WalkKept /\ RowsKept /\ PhaseKept
  BY DEF RevInv
<1>1. PICK change : change = [target |-> target, expected |-> expected, replacement |-> replacement]
  OBVIOUS
<1>2. change.target = target /\ change.replacement = replacement
  BY <1>1
<1>3. /\ revPhase = "editing" /\ UNCHANGED <<base, current, effects, walked, piece>>
      /\ revPhase' \in {"editing", "refused"}
  BY DEF Edit
<1>4. walked = 0 /\ piece = 1 /\ effects = <<>> /\ current = base
  BY <1>0, <1>3 DEF PhaseKept
<1>5. PhaseKept'
  BY <1>0, <1>3, <1>4 DEF PhaseKept
<1>6. RowsKept'
  BY <1>0, <1>3, Zenon DEF RowsKept, EffectsOf
<1>7. CASE UNCHANGED <<applied, effective>> /\ seen \subseteq seen'
  <2>1. DraftsShaped'
    BY <1>0, <1>3, <1>7 DEF DraftsShaped
  <2>2. AppliedEdits' = AppliedEdits
    BY <1>3 DEF AppliedEdits
  <2>3. EditsKept'
    BY <1>0, <1>3, <1>7, <2>2 DEF EditsKept, Untouched
  <2>4. WalkKept'
    BY <1>0, <1>3, <1>7 DEF WalkKept, Walked, Untouched
  <2> QED
    BY <1>5, <1>6, <2>1, <2>3, <2>4 DEF RevInv
<1>8. CASE /\ Applicable(effective, seen, change)
           /\ seen' = seen \union {target}
           /\ applied' = Append(applied, [target |-> target, before |-> Input(effective, target), after |-> replacement])
           /\ effective' = WithInput(effective, target, replacement)
  <2>1. target \in Targets(effective) /\ target \notin seen /\ replacement \in Inputs(target[2])
    BY <1>2, <1>8 DEF Applicable
  <2>2. Targets(effective) = Targets(base)
    BY <1>0 DEF DraftsShaped, Alike, Targets
  <2>3. /\ ShapedDraft(effective') /\ Alike(effective', base)
        /\ \A u \in Targets(base) :
              Input(effective', u) = IF u = target THEN replacement ELSE Input(effective, u)
    BY <1>0, <1>8, <2>1, <2>2, WithInputShape DEF DraftsShaped, Alike
  <2>4. DraftsShaped'
    BY <1>0, <1>3, <2>3 DEF DraftsShaped
  <2>5. Untouched(target)
    BY <1>0, <2>1 DEF EditsKept, Untouched
  <2>6. Input(effective, target) = Input(base, target) /\ Input(effective, target) \in Inputs(target[2])
    BY <1>0, <2>1, <2>2, <2>5, InputShape DEF EditsKept, DraftsShaped
  <2>7. PICK edit : edit = [target |-> target, before |-> Input(effective, target), after |-> replacement]
    OBVIOUS
  <2>8. edit.target = target /\ edit.before = Input(base, target) /\ edit.after = replacement
    BY <2>6, <2>7
  <2>9. Inputs(target[2]) \subseteq AnyInput
    BY DEF Inputs, AnyInput
  <2>10. edit \in AppliedEdits
    BY <2>1, <2>2, <2>6, <2>7, <2>9 DEF AppliedEdits
  <2>11. PICK n \in Nat : n = Len(applied) /\ DOMAIN applied = 1 .. n
    BY <1>0 DEF EditsKept
  <2>12. /\ applied' \in Seq(AppliedEdits) /\ Len(applied') = n + 1 /\ DOMAIN applied' = 1 .. n + 1
         /\ applied'[n + 1] = edit /\ \A i \in 1 .. n : applied'[i] = applied[i]
    BY <1>0, <1>8, <2>7, <2>10, <2>11 DEF EditsKept
  <2>13. \A u : Untouched(u)' <=> Untouched(u) /\ u # target
    BY <2>8, <2>11, <2>12 DEF Untouched
  <2>14. AppliedEdits' = AppliedEdits
    BY <1>3 DEF AppliedEdits
  <2>15. ASSUME NEW i \in DOMAIN applied'
         PROVE  /\ applied'[i].target \in seen'
                /\ applied'[i].before \in Inputs(applied'[i].target[2])
                /\ applied'[i].before = Input(base, applied'[i].target)
                /\ applied'[i].after = Input(effective', applied'[i].target)
                /\ \A j \in DOMAIN applied' : applied'[j].target = applied'[i].target => i = j
    <3>1. CASE i = n + 1
      <4>1. applied'[i] = edit
        BY <2>12, <3>1
      <4>2. \A j \in 1 .. n : applied'[j].target # target
        BY <2>5, <2>11, <2>12 DEF Untouched
      <4>3. \A j \in DOMAIN applied' : applied'[j].target = target => i = j
        BY <2>12, <3>1, <4>2
      <4>4. target \in seen' /\ Input(effective', target) = replacement
        BY <1>8, <2>1, <2>2, <2>3
      <4> QED
        BY <2>6, <2>8, <4>1, <4>3, <4>4
    <3>2. CASE i \in 1 .. n
      <4>1. applied'[i] = applied[i] /\ i \in DOMAIN applied
        BY <2>11, <2>12, <3>2
      <4>2. applied[i].target # target /\ applied[i].target \in Targets(base)
        BY <1>0, <2>5, <4>1, EditShape DEF Untouched
      <4>3. Input(effective', applied[i].target) = Input(effective, applied[i].target)
        BY <2>3, <4>2
      <4>4. /\ applied[i].target \in seen
            /\ applied[i].before \in Inputs(applied[i].target[2])
            /\ applied[i].before = Input(base, applied[i].target)
            /\ applied[i].after = Input(effective, applied[i].target)
            /\ \A j \in DOMAIN applied : applied[j].target = applied[i].target => i = j
        BY <1>0, <4>1 DEF EditsKept
      <4>5. \A j \in DOMAIN applied' : applied'[j].target = applied[i].target => i = j
        BY <2>8, <2>11, <2>12, <4>2, <4>4
      <4> QED
        BY <1>8, <4>1, <4>3, <4>4, <4>5
    <3> QED
      BY <2>12, <3>1, <3>2
  <2>16. \A u \in Targets(base) : Untouched(u)' => Input(effective', u) = Input(base, u)
    BY <1>0, <2>3, <2>13 DEF EditsKept
  <2>17. EditsKept'
    BY <1>3, <2>12, <2>14, <2>15, <2>16 DEF EditsKept
  <2>18. ASSUME NEW i \in DOMAIN applied' PROVE Input(current, applied'[i].target) = Walked(i)'
    <3>1. Walked(i)' = applied'[i].before
      BY <1>3, <1>4, <2>12 DEF Walked
    <3>2. applied'[i].before = Input(base, applied'[i].target)
      BY <2>15
    <3> QED
      BY <1>4, <3>1, <3>2
  <2>19. WalkKept'
    <3>1. \A u \in Targets(base) : Input(current, u) = Input(base, u)
      BY <1>4
    <3>2. walked' = 0 /\ piece' = 1 /\ base' = base /\ current' = current /\ 0 \in 0 .. Len(applied')
      BY <1>3, <1>4, <2>12
    <3> QED
      BY <2>18, <3>1, <3>2 DEF WalkKept
  <2> QED
    BY <1>5, <1>6, <2>4, <2>17, <2>19 DEF RevInv
<1>9. \/ UNCHANGED <<applied, effective>> /\ seen \subseteq seen'
      \/ /\ Applicable(effective, seen, change)
         /\ seen' = seen \union {target}
         /\ applied' = Append(applied, [target |-> target, before |-> Input(effective, target), after |-> replacement])
         /\ effective' = WithInput(effective, target, replacement)
  BY <1>1 DEF Edit
<1> QED
  BY <1>7, <1>8, <1>9

\* A row more leads as much further.
LEMMA LeadsFurther ==
    ASSUME NEW X, NEW rows \in Seq(X), NEW e \in X, NEW s, NEW m, NEW from, NEW mid, NEW to,
           Leads(rows, s, m, from, mid), e[s][m] = <<mid, to>>
    PROVE  Leads(Append(rows, e), s, m, from, to)
<1>1. PICK n \in Nat : n = Len(rows) /\ DOMAIN rows = 1 .. n
  OBVIOUS
<1>2. PICK longer : longer = Append(rows, e)
  OBVIOUS
<1>3. longer \in Seq(X) /\ Len(longer) = n + 1 /\ longer[n + 1] = e /\ \A i \in 1 .. n : longer[i] = rows[i]
  BY <1>1, <1>2
<1>4. e[s][m][1] = mid /\ e[s][m][2] = to
  OBVIOUS
<1>5. n = 0 => rows = <<>>
  BY <1>1
<1>6. longer # <<>>
  BY <1>3
<1>7. longer[1][s][m][1] = from
  <2>1. CASE n = 0
    <3>1. from = mid
      BY <1>5, <2>1 DEF Leads
    <3> QED
      BY <1>3, <1>4, <2>1, <3>1
  <2>2. CASE n > 0
    <3>1. rows # <<>> /\ longer[1] = rows[1]
      BY <1>1, <1>3, <2>2
    <3> QED
      BY <3>1 DEF Leads
  <2> QED
    BY <2>1, <2>2
<1>8. ASSUME NEW i \in 1 .. n PROVE longer[i][s][m][2] = longer[i + 1][s][m][1]
  <2>1. CASE i = n
    <3>1. rows # <<>> /\ n \in 1 .. n
      BY <1>1, <2>1
    <3>2. rows[n][s][m][2] = mid
      BY <1>1, <3>1 DEF Leads
    <3>3. longer[n] = rows[n]
      BY <1>3, <3>1
    <3> QED
      BY <1>3, <1>4, <2>1, <3>2, <3>3
  <2>2. CASE i # n
    <3>1. i \in 1 .. n - 1 /\ i + 1 \in 1 .. n
      BY <2>2
    <3>2. rows[i][s][m][2] = rows[i + 1][s][m][1]
      BY <1>1, <3>1 DEF Leads
    <3>3. longer[i] = rows[i] /\ longer[i + 1] = rows[i + 1]
      BY <1>3, <3>1
    <3> QED
      BY <3>2, <3>3
  <2> QED
    BY <2>1, <2>2
<1>9. Len(longer) - 1 = n
  BY <1>3
<1>10. longer[Len(longer)][s][m][2] = to
  BY <1>3, <1>4
<1>11. Leads(longer, s, m, from, to)
  BY <1>6, <1>7, <1>8, <1>9, <1>10 DEF Leads
<1> QED
  BY <1>2, <1>11

\* A piece of an edit.
LEMMA EffectKeeps ==
    ASSUME RevInv, Effect
    PROVE  RevInv'
<1>0. DraftsShaped /\ EditsKept /\ WalkKept /\ RowsKept /\ PhaseKept
  BY DEF RevInv
<1>1. PICK i : i = walked + 1
  OBVIOUS
<1>2. /\ revPhase = "effects" /\ walked < Len(applied)
      /\ UNCHANGED <<base, seen, applied, effective, revPhase>>
  BY DEF Effect
<1>3. /\ i \in DOMAIN applied /\ walked \in Nat /\ Len(applied) \in Nat /\ DOMAIN applied = 1 .. Len(applied)
      /\ piece \in {1, 2}
  BY <1>0, <1>1, <1>2 DEF WalkKept, EditsKept
<1>4. PICK edit : edit = applied[i]
  OBVIOUS
<1>5. PICK target, pieces : target = edit.target /\ pieces = Pieces(edit)
  OBVIOUS
<1>6. target \in Targets(base) /\ edit.before \in Inputs(target[2]) /\ edit.after \in Inputs(target[2])
  BY <1>0, <1>3, <1>4, <1>5, EditShape
<1>7. /\ pieces \in Seq(Inputs(target[2])) /\ Len(pieces) \in {1, 2} /\ pieces[Len(pieces)] = edit.after
  BY <1>5, <1>6, PiecesShape
<1>8. piece \in 1 .. Len(pieces) /\ pieces[piece] \in Inputs(target[2])
  <2>1. piece = 2 => Len(pieces) = 2
    BY <1>0, <1>1, <1>4, <1>5 DEF WalkKept
  <2>2. PICK k : k = Len(pieces)
    OBVIOUS
  <2>3. k \in {1, 2} /\ piece \in {1, 2} /\ (piece = 2 => k = 2)
    BY <1>3, <1>7, <2>1, <2>2
  <2>4. piece \in 1 .. k
    BY <2>3
  <2> QED
    BY <1>7, <2>2, <2>4
<1>9. PICK new : new = WithInput(current, target, pieces[piece])
  OBVIOUS
<1>10. PICK row : row = [s \in Scope(target) |-> [m \in EffectMetrics |-> <<Bridge(current, s)[m], Bridge(new, s)[m]>>]]
  OBVIOUS
<1>11. /\ current' = new /\ effects' = Append(effects, row)
       /\ IF piece < Len(pieces) THEN piece' = piece + 1 /\ walked' = walked ELSE piece' = 1 /\ walked' = walked + 1
  BY <1>1, <1>4, <1>5, <1>9, <1>10 DEF Effect
<1>12. Targets(current) = Targets(base) /\ DOMAIN current.scenarios = DOMAIN base.scenarios
  BY <1>0 DEF DraftsShaped, Alike, Targets
<1>13. /\ ShapedDraft(new) /\ Alike(new, base)
       /\ \A u \in Targets(base) : Input(new, u) = IF u = target THEN pieces[piece] ELSE Input(current, u)
  BY <1>0, <1>6, <1>8, <1>9, <1>12, WithInputShape DEF DraftsShaped, Alike
<1>14. DraftsShaped'
  BY <1>0, <1>2, <1>11, <1>13 DEF DraftsShaped
<1>15. EditsKept'
  <2>1. AppliedEdits' = AppliedEdits
    BY <1>2 DEF AppliedEdits
  <2> QED
    BY <1>0, <1>2, <2>1 DEF EditsKept, Untouched
<1>16. WalkKept'
  <2>1. \A u \in Targets(base) : Untouched(u) => Input(new, u) = Input(base, u)
    <3>1. ~Untouched(target)
      BY <1>3, <1>4, <1>5 DEF Untouched
    <3> QED
      BY <1>0, <1>13, <3>1 DEF WalkKept
  <2>2. ASSUME NEW j \in DOMAIN applied, j # i
        PROVE  Input(new, applied[j].target) = Walked(j)
    <3>1. applied[j].target \in Targets(base)
      BY <1>0, EditShape
    <3>2. applied[j].target # target
      BY <1>0, <1>3, <1>4, <1>5, <2>2 DEF EditsKept
    <3>3. Input(current, applied[j].target) = Walked(j)
      BY <1>0 DEF WalkKept
    <3> QED
      BY <1>13, <3>1, <3>2, <3>3
  <2>3. Input(new, applied[i].target) = pieces[piece]
    BY <1>4, <1>5, <1>6, <1>13
  <2>4. ASSUME NEW j \in DOMAIN applied, j # i PROVE Walked(j)' = Walked(j)
    <3>1. j \in Nat /\ (j <= walked \/ j > walked + 1)
      BY <1>1, <1>3, <2>4
    <3>2. CASE piece < Len(pieces)
      <4>1. walked' = walked
        BY <1>11, <3>2
      <4> QED
        BY <1>1, <1>2, <2>4, <4>1 DEF Walked
    <3>3. CASE ~(piece < Len(pieces))
      <4>1. walked' = walked + 1 /\ piece' = 1
        BY <1>11, <3>3
      <4> QED
        BY <1>2, <1>3, <3>1, <4>1 DEF Walked
    <3> QED
      BY <3>2, <3>3
  <2>5. CASE piece < Len(pieces)
    <3>0. PICK p, k : p = piece /\ k = Len(pieces)
      OBVIOUS
    <3>9. p \in {1, 2} /\ k \in {1, 2} /\ p < k /\ piece' = p + 1 /\ walked' = walked
      BY <1>3, <1>7, <1>11, <2>5, <3>0, Zenon
    <3>8. p = 1 /\ k = 2
      BY <3>9
    <3>1. piece = 1 /\ Len(pieces) = 2 /\ piece' = 2 /\ walked' = walked
      BY <3>0, <3>8, <3>9
    <3>2. Walked(i)' = pieces[1]
      BY <1>1, <1>2, <1>3, <1>4, <1>5, <3>1 DEF Walked
    <3>3. Input(new, applied[i].target) = Walked(i)'
      BY <2>3, <3>1, <3>2
    <3>4. \A j \in DOMAIN applied : Input(new, applied[j].target) = Walked(j)'
      BY <2>2, <2>4, <3>3
    <3>5. Len(Pieces(applied[walked + 1])) = 2 /\ walked \in 0 .. Len(applied)
      BY <1>1, <1>2, <1>3, <1>4, <1>5, <3>1
    <3> QED
      BY <1>2, <1>11, <2>1, <3>1, <3>4, <3>5 DEF WalkKept, Untouched
  <2>6. CASE ~(piece < Len(pieces))
    <3>1. piece = Len(pieces) /\ piece' = 1 /\ walked' = walked + 1
      BY <1>7, <1>8, <1>11, <2>6
    <3>2. Walked(i)' = edit.after
      BY <1>1, <1>2, <1>3, <1>4, <3>1 DEF Walked
    <3>3. Input(new, applied[i].target) = Walked(i)'
      BY <1>7, <2>3, <3>1, <3>2
    <3>4. \A j \in DOMAIN applied : Input(new, applied[j].target) = Walked(j)'
      BY <2>2, <2>4, <3>3
    <3>5. walked + 1 \in 0 .. Len(applied)
      BY <1>2, <1>3
    <3> QED
      BY <1>2, <1>11, <2>1, <3>1, <3>4, <3>5 DEF WalkKept, Untouched
  <2> QED
    BY <2>5, <2>6
<1>17. RowsKept'
  <2>1. PICK X : X = ToSet(effects) \union {row}
    OBVIOUS
  <2>2. effects \in Seq(X) /\ row \in X
    BY <1>0, <2>1 DEF RowsKept
  <2>3. ToSet(effects') = X /\ effects' \in Seq(X)
    BY <1>11, <2>1, <2>2, ToSetAppend
  <2>4. ASSUME NEW s \in DOMAIN base.scenarios, NEW m \in EffectMetrics
        PROVE  Leads(EffectsOf(s)', s, m, Bridge(base, s)[m], Bridge(new, s)[m])
    <3>1. PICK S, T : S = {e \in ToSet(effects) : s \in DOMAIN e} /\ T = {e \in X : s \in DOMAIN e}
      OBVIOUS
    <3>2. PICK rows : rows = EffectsOf(s)
      OBVIOUS
    <3>3. rows = Those(effects, T)
      <4>1. \A j \in DOMAIN effects : effects[j] \in S <=> effects[j] \in T
        BY <2>1, <3>1 DEF ToSet
      <4>2. Those(effects, S) = Those(effects, T)
        BY <2>2, <4>1, ThoseSame
      <4> QED
        BY <3>1, <3>2, <4>2 DEF EffectsOf
    <3>4. EffectsOf(s)' = Those(effects', T)
      BY <2>3, <3>1 DEF EffectsOf
    <3>5. Those(effects', T) = IF row \in T THEN Append(rows, row) ELSE rows
      BY <1>11, <2>2, <3>3, ThoseAppend
    <3>6. row \in T <=> s \in Scope(target)
      BY <1>10, <2>1, <3>1
    <3>7. Leads(rows, s, m, Bridge(base, s)[m], Bridge(current, s)[m])
      BY <1>0, <3>2 DEF RowsKept
    <3>8. rows \in Seq(X)
      BY <2>2, <3>3, ThoseOrder
    <3>9. CASE s \in Scope(target)
      <4>1. row[s][m] = <<Bridge(current, s)[m], Bridge(new, s)[m]>>
        BY <1>10, <3>9
      <4>2. Leads(Append(rows, row), s, m, Bridge(base, s)[m], Bridge(new, s)[m])
        BY <2>2, <3>7, <3>8, <4>1, LeadsFurther
      <4> QED
        BY <3>4, <3>5, <3>6, <3>9, <4>2
    <3>10. CASE s \notin Scope(target)
      <4>1. target[1] # 0 /\ s # target[1]
        BY <3>10 DEF Scope
      <4>2. Bridge(new, s) = Bridge(current, s)
        BY <1>0, <1>6, <1>9, <1>12, <4>1, WithInputOther DEF DraftsShaped
      <4> QED
        BY <3>4, <3>5, <3>6, <3>7, <3>10, <4>2
    <3> QED
      BY <3>9, <3>10
  <2> QED
    BY <1>2, <1>11, <2>3, <2>4 DEF RowsKept
<1>18. PhaseKept'
  BY <1>0, <1>2 DEF PhaseKept
<1> QED
  BY <1>14, <1>15, <1>16, <1>17, <1>18 DEF RevInv

\* The steps that leave the drafts and what is walked.
LEMMA PhaseKeeps ==
    ASSUME RevInv, Recalculate \/ Attributed
    PROVE  RevInv'
<1>0. DraftsShaped /\ EditsKept /\ WalkKept /\ RowsKept /\ PhaseKept
  BY DEF RevInv
<1>1. UNCHANGED <<base, seen, applied, effective, current, effects, walked, piece>>
  BY DEF Recalculate, Attributed
<1>2. DraftsShaped'
  BY <1>0, <1>1 DEF DraftsShaped
<1>3. EditsKept'
  <2>1. AppliedEdits' = AppliedEdits
    BY <1>1 DEF AppliedEdits
  <2> QED
    BY <1>0, <1>1, <2>1 DEF EditsKept, Untouched
<1>4. WalkKept'
  BY <1>0, <1>1 DEF WalkKept, Walked, Untouched
<1>5. RowsKept'
  BY <1>0, <1>1, Zenon DEF RowsKept, EffectsOf
<1>6. PhaseKept'
  <2>1. CASE Recalculate
    BY <1>0, <1>1, <2>1 DEF PhaseKept, Recalculate
  <2>2. CASE Attributed
    <3>1. piece = 1
      BY <1>0, <2>2 DEF WalkKept, Attributed, EditsKept
    <3> QED
      BY <1>0, <1>1, <2>2, <3>1 DEF PhaseKept, Attributed
  <2> QED
    BY <2>1, <2>2
<1> QED
  BY <1>2, <1>3, <1>4, <1>5, <1>6 DEF RevInv

LEMMA RevStutter ==
    ASSUME RevInv, UNCHANGED revVars
    PROVE  RevInv'
<1>0. DraftsShaped /\ EditsKept /\ WalkKept /\ RowsKept /\ PhaseKept
  BY DEF RevInv
<1>1. UNCHANGED <<base, seen, applied, effective, current, effects, walked, piece, revPhase>>
  BY DEF revVars
<1>2. DraftsShaped'
  BY <1>0, <1>1 DEF DraftsShaped
<1>3. EditsKept'
  <2>1. AppliedEdits' = AppliedEdits
    BY <1>1 DEF AppliedEdits
  <2> QED
    BY <1>0, <1>1, <2>1 DEF EditsKept, Untouched
<1>4. WalkKept'
  BY <1>0, <1>1 DEF WalkKept, Walked, Untouched
<1>5. RowsKept'
  BY <1>0, <1>1, Zenon DEF RowsKept, EffectsOf
<1>6. PhaseKept'
  BY <1>0, <1>1 DEF PhaseKept
<1> QED
  BY <1>2, <1>3, <1>4, <1>5, <1>6 DEF RevInv

\* The next revision begins with what this one left.
LEMMA ReviewDraftKeeps ==
    ASSUME RevInv, ReviewDraft
    PROVE  RevInv'
<1>1. ShapedDraft(effective) /\ LegalDraft(effective)
  BY DEF RevInv, DraftsShaped, PhaseKept, ReviewDraft
<1>2. Begins'
  BY <1>1 DEF Begins, ReviewDraft, StartRevision
<1> QED
  BY <1>2, BeginsHoldsNext

THEOREM RevInvAlways == RevSpec => []RevInv
<1>1. RevInit => RevInv
  <2>1. ASSUME RevInit PROVE Begins
    BY <2>1, ForecastsAreLegal DEF RevInit, Begins, ForecastsAssumption
  <2> QED
    BY <2>1, BeginsHolds
<1>2. RevInv /\ [RevNext]_revVars => RevInv'
  <2>1. ASSUME RevInv, RevNext PROVE RevInv'
    <3>1. CASE \E target, expected, replacement : Edit(target, expected, replacement)
      BY <2>1, <3>1, EditKeeps
    <3>2. CASE Recalculate \/ Attributed
      BY <2>1, <3>2, PhaseKeeps
    <3>3. CASE Effect
      BY <2>1, <3>3, EffectKeeps
    <3>4. CASE ReviewDraft
      BY <2>1, <3>4, ReviewDraftKeeps
    <3> QED
      BY <2>1, <3>1, <3>2, <3>3, <3>4 DEF RevNext
  <2> QED
    BY <2>1, RevStutter
<1> QED
  BY <1>1, <1>2, PTL DEF RevSpec

-----------------------------------------------------------------------------
(* The numbers: each is unknown exactly as its inputs are, or as it is     *)
(* barred.                                                                 *)

Number == Int \union {None}

LEMMA SomeIsNotNone ==
    None \notin Int /\ \A x, y \in Int : <<x, y>> # None
BY NumbersAssumption DEF NumbersAreSome

LEMMA CalculateKnown ==
    ASSUME NEW values, NEW result, None \notin values => result \in Int
    PROVE  Calculate(values, result) \in Number /\ (Calculate(values, result) = None <=> None \in values)
BY SomeIsNotNone DEF Calculate, Number

\* The inputs of a scenario are numbers.
ScenarioShaped(scenario) ==
    /\ \A f \in Proposed : scenario[f].value \in Number
    /\ scenario.noncontrolling_attribution.nature \in {"profit", "loss", "unknown"}

LEMMA ScenarioNumbers ==
    ASSUME NEW draft, ShapedDraft(draft), NEW s \in DOMAIN draft.scenarios
    PROVE  ScenarioShaped(draft.scenarios[s])
<1>1. PICK x : x = draft.scenarios[s]
  OBVIOUS
<1>2. x \in ToSet(draft.scenarios)
  BY <1>1 DEF ToSet
<1>3. \A f \in Proposed : x[f] \in Inputs(f)
  BY <1>2, Zenon DEF ShapedDraft
<1>4. ASSUME NEW f \in Proposed PROVE x[f].value \in Number
  <2>1. x[f] \in Inputs(f)
    BY <1>3
  <2>2. CASE f = "noncontrolling_attribution"
    BY <2>1, <2>2 DEF Inputs, Number
  <2>3. CASE f # "noncontrolling_attribution"
    BY <2>1, <2>3 DEF Inputs, Number
  <2> QED
    BY <2>2, <2>3
<1>5. x.noncontrolling_attribution.nature \in {"profit", "loss", "unknown"}
  <2>1. x["noncontrolling_attribution"] \in Inputs("noncontrolling_attribution")
    BY <1>3 DEF Proposed
  <2> QED
    BY <2>1 DEF Inputs
<1> QED
  BY <1>1, <1>4, <1>5 DEF ScenarioShaped

LEMMA CommonNumbers ==
    ASSUME NEW draft, ShapedDraft(draft), NEW f \in Common
    PROVE  draft.common[f].value \in Number
<1>1. draft.common[f] \in Inputs("market_price")
  BY DEF ShapedDraft
<1> QED
  BY <1>1 DEF Inputs, Number

\* What a scenario's numbers need.
Unknown(scenario, needed) == \E f \in needed : scenario[f].value = None

IncomeFields == {"revenue", "operating_margin", "net_nonoperating_income", "effective_tax_rate"}

LEMMA ConsolidatedKnown ==
    ASSUME NEW scenario, ScenarioShaped(scenario)
    PROVE  /\ Consolidated(scenario) \in Number
           /\ Consolidated(scenario) = None <=> Unknown(scenario, IncomeFields)
<1>1. PICK revenue, margin, other, tax : /\ revenue = scenario.revenue.value
                                         /\ margin = scenario.operating_margin.value
                                         /\ other = scenario.net_nonoperating_income.value
                                         /\ tax = scenario.effective_tax_rate.value
  OBVIOUS
<1>2. revenue \in Number /\ margin \in Number /\ other \in Number /\ tax \in Number
  BY <1>1 DEF ScenarioShaped, Proposed
<1>3. PICK pretax : pretax = Pretax(scenario)
  OBVIOUS
<1>4. pretax = Calculate({revenue, margin, other}, revenue * margin + other)
  BY <1>1, <1>3 DEF Pretax
<1>5. None \notin {revenue, margin, other} => revenue * margin + other \in Int
  BY <1>2 DEF Number
<1>6. pretax \in Number /\ (pretax = None <=> None \in {revenue, margin, other})
  BY <1>4, <1>5, CalculateKnown
<1>7. Consolidated(scenario) = Calculate({pretax, tax}, pretax * (1 - tax))
  BY <1>1, <1>3 DEF Consolidated, Taxed
<1>8. None \notin {pretax, tax} => pretax * (1 - tax) \in Int
  BY <1>2, <1>6 DEF Number
<1>9. Consolidated(scenario) \in Number /\ (Consolidated(scenario) = None <=> None \in {pretax, tax})
  BY <1>7, <1>8, CalculateKnown
<1>10. Unknown(scenario, IncomeFields) <=> None \in {revenue, margin, other, tax}
  BY <1>1 DEF Unknown, IncomeFields
<1> QED
  BY <1>6, <1>9, <1>10

\* An attribution is unknown without its amount or its direction.
Unattributed(scenario) ==
    scenario.noncontrolling_attribution.value = None \/ scenario.noncontrolling_attribution.nature = "unknown"

LEMMA ParentKnown ==
    ASSUME NEW scenario, ScenarioShaped(scenario)
    PROVE  /\ Parent(scenario) \in Number
           /\ Parent(scenario) = None <=> Unknown(scenario, IncomeFields) \/ Unattributed(scenario)
<1>1. PICK consolidated, attributed :
        consolidated = Consolidated(scenario) /\ attributed = AttributionEffect(scenario.noncontrolling_attribution)
  OBVIOUS
<1>2. PICK nature, value : /\ nature = scenario.noncontrolling_attribution.nature
                           /\ value = scenario.noncontrolling_attribution.value
  OBVIOUS
<1>3. value \in Number
  BY <1>2 DEF ScenarioShaped, Proposed
<1>4. attributed = IF value = None \/ nature = "unknown" THEN None
                   ELSE IF nature = "profit" THEN -value ELSE value
  BY <1>1, <1>2 DEF AttributionEffect
<1>5. value = None \/ (value \in Int /\ -value \in Int /\ value # None /\ -value # None)
  BY <1>3, SomeIsNotNone DEF Number
<1>6. attributed \in Number /\ (attributed = None <=> Unattributed(scenario))
  BY <1>2, <1>4, <1>5, SomeIsNotNone DEF Number, Unattributed
<1>7. consolidated \in Number /\ (consolidated = None <=> Unknown(scenario, IncomeFields))
  BY <1>1, ConsolidatedKnown
<1>8. Parent(scenario) = Calculate({consolidated, attributed}, consolidated + attributed)
  BY <1>1 DEF Parent, Plus
<1>9. None \notin {consolidated, attributed} => consolidated + attributed \in Int
  BY <1>6, <1>7 DEF Number
<1>10. Parent(scenario) \in Number /\ (Parent(scenario) = None <=> None \in {consolidated, attributed})
  BY <1>8, <1>9, CalculateKnown
<1> QED
  BY <1>6, <1>7, <1>10

\* The numbers a traded unit's earnings are made of, at which shares and the
\* rate of exchange are positive.
LEMMA EarningsKnown ==
    ASSUME NEW common, common.shares_per_traded_unit.value \in Number,
           NEW scenario, ScenarioShaped(scenario),
           \A f \in {"diluted_ordinary_shares", "fx"} : scenario[f].value # None => scenario[f].value > 0
    PROVE  /\ Earnings(common, scenario) \in Number
           /\ Earnings(common, scenario) = None <=>
                \/ Unknown(scenario, IncomeFields) \/ Unattributed(scenario)
                \/ Unknown(scenario, {"diluted_ordinary_shares", "fx"})
                \/ common.shares_per_traded_unit.value = None
<1>1. PICK parent, units, shares, fx :
        /\ parent = Parent(scenario) /\ units = common.shares_per_traded_unit.value
        /\ shares = scenario.diluted_ordinary_shares.value /\ fx = scenario.fx.value
  OBVIOUS
<1>2. /\ shares \in Number /\ fx \in Number /\ units \in Number
      /\ (shares # None => shares > 0) /\ (fx # None => fx > 0)
  BY <1>1 DEF ScenarioShaped, Proposed
<1>3. parent \in Number /\ (parent = None <=> Unknown(scenario, IncomeFields) \/ Unattributed(scenario))
  BY <1>1, ParentKnown
<1>4. Earnings(common, scenario) = Calculate({parent, shares, units, fx}, (parent * units * Scale) \div (shares * fx))
  BY <1>1 DEF Earnings, PerUnit
<1>5. ASSUME None \notin {parent, shares, units, fx}
      PROVE  (parent * units * Scale) \div (shares * fx) \in Int
  <2>1. parent \in Int /\ units \in Int /\ shares \in Int /\ fx \in Int /\ shares > 0 /\ fx > 0 /\ Scale \in Int
    BY <1>2, <1>3, <1>5, ScaleAssumption DEF Number
  <2>2. shares * fx \in Int /\ shares * fx > 0
    BY <2>1
  <2>3. parent * units * Scale \in Int
    BY <2>1
  <2> QED
    BY <2>2, <2>3
<1>6. /\ Earnings(common, scenario) \in Number
      /\ Earnings(common, scenario) = None <=> None \in {parent, shares, units, fx}
  BY <1>4, <1>5, CalculateKnown
<1>7. Unknown(scenario, {"diluted_ordinary_shares", "fx"}) <=> None \in {shares, fx}
  BY <1>1 DEF Unknown
<1> QED
  BY <1>1, <1>3, <1>6, <1>7

LEMMA CashKnown ==
    ASSUME NEW scenario, ScenarioShaped(scenario)
    PROVE  /\ CashFlow(scenario) \in Number
           /\ CashFlow(scenario) = None <=> Unknown(scenario, IncomeFields) \/ scenario.cash_adjustments.value = None
<1>1. PICK consolidated, adjustments :
        consolidated = Consolidated(scenario) /\ adjustments = scenario.cash_adjustments.value
  OBVIOUS
<1>2. adjustments \in Number
  BY <1>1 DEF ScenarioShaped, Proposed
<1>3. consolidated \in Number /\ (consolidated = None <=> Unknown(scenario, IncomeFields))
  BY <1>1, ConsolidatedKnown
<1>4. CashFlow(scenario) = Calculate({consolidated, adjustments}, consolidated + adjustments)
  BY <1>1 DEF CashFlow, Plus
<1>5. None \notin {consolidated, adjustments} => consolidated + adjustments \in Int
  BY <1>2, <1>3 DEF Number
<1>6. CashFlow(scenario) \in Number /\ (CashFlow(scenario) = None <=> None \in {consolidated, adjustments})
  BY <1>4, <1>5, CalculateKnown
<1> QED
  BY <1>1, <1>3, <1>6

\* An exit, a price that breaks even, and a return.
LEMMA PricedKnown ==
    ASSUME NEW annual \in BOOLEAN, NEW eps \in Number, NEW pe \in Number
    PROVE  /\ Priced(annual, eps, pe) \in Number
           /\ Priced(annual, eps, pe) = None <=>
                ~annual \/ eps = None \/ pe = None \/ NotPositive(eps) \/ NotPositive(pe)
<1>1. CASE eps \in Int /\ pe \in Int
  <2>1. eps * pe \in Int /\ eps # None /\ pe # None /\ eps * pe # None
    BY <1>1, SomeIsNotNone
  <2>2. CASE annual /\ eps > 0 /\ pe > 0
    <3>1. Priced(annual, eps, pe) = eps * pe
      BY <2>1, <2>2 DEF Priced
    <3>2. ~NotPositive(eps) /\ ~NotPositive(pe)
      BY <1>1, <2>2 DEF NotPositive
    <3> QED
      BY <2>1, <2>2, <3>1, <3>2 DEF Number
  <2>3. CASE ~(annual /\ eps > 0 /\ pe > 0)
    <3>1. Priced(annual, eps, pe) = None
      BY <2>3 DEF Priced
    <3>2. ~annual \/ NotPositive(eps) \/ NotPositive(pe)
      BY <1>1, <2>1, <2>3 DEF NotPositive
    <3> QED
      BY <3>1, <3>2 DEF Number
  <2> QED
    BY <2>2, <2>3
<1>2. CASE eps = None \/ pe = None
  BY <1>2 DEF Priced, Number
<1> QED
  BY <1>1, <1>2 DEF Number

LEMMA BreakEvenKnown ==
    ASSUME NEW annual \in BOOLEAN, NEW eps \in Number, NEW comparison \in Number
    PROVE  BreakEven(annual, eps, comparison) = None <=>
             ~annual \/ eps = None \/ NotPositive(eps) \/ comparison = None
<1>1. CASE eps \in Int /\ comparison \in Int
  <2>1. comparison * Scale \in Int
    BY <1>1, ScaleAssumption
  <2>2. PICK ratio : ratio = <<comparison * Scale, eps>>
    OBVIOUS
  <2>3. ratio # None /\ eps # None /\ comparison # None
    BY <1>1, <2>1, <2>2, SomeIsNotNone
  <2>4. BreakEven(annual, eps, comparison) = IF annual /\ eps > 0 THEN ratio ELSE None
    BY <2>2, <2>3 DEF BreakEven
  <2>5. NotPositive(eps) <=> ~(eps > 0)
    BY <1>1, <2>3 DEF NotPositive
  <2> QED
    BY <2>3, <2>4, <2>5
<1>2. CASE eps = None \/ comparison = None
  BY <1>2 DEF BreakEven
<1> QED
  BY <1>1, <1>2 DEF Number

LEMMA GainedKnown ==
    ASSUME NEW exit \in Number, NEW dividend \in Number, NEW comparison \in Number,
           comparison # None => comparison > 0
    PROVE  /\ Gained(exit, dividend, comparison) \in Number
           /\ Gained(exit, dividend, comparison) = None <=> exit = None \/ dividend = None \/ comparison = None
<1>1. ASSUME None \notin {exit, dividend, comparison}
      PROVE  (exit + dividend * Scale) \div comparison - Scale \in Int
  <2>1. exit \in Int /\ dividend \in Int /\ comparison \in Int /\ comparison > 0 /\ Scale \in Int
    BY <1>1, ScaleAssumption DEF Number
  <2>2. exit + dividend * Scale \in Int
    BY <2>1
  <2> QED
    BY <2>1, <2>2
<1>2. /\ Gained(exit, dividend, comparison) \in Number
      /\ Gained(exit, dividend, comparison) = None <=> None \in {exit, dividend, comparison}
  BY <1>1, CalculateKnown DEF Gained
<1> QED
  BY <1>2

LEMMA ComparableKnown ==
    ASSUME NEW draft, ShapedDraft(draft), LegalDraft(draft)
    PROVE  /\ Comparable(draft) \in Number
           /\ Comparable(draft) = None <=> draft.quoted \in {"none", "same"} \/ draft.common["market_price"].value = None
           /\ Comparable(draft) # None => Comparable(draft) > 0
<1>1. draft.common["market_price"].value \in Number
  BY CommonNumbers DEF Common
<1>2. LegalInput("market_price", draft.common["market_price"])
  BY DEF LegalDraft, Common
<1>3. draft.common["market_price"].value # None => draft.common["market_price"].value > 0
  BY <1>2 DEF LegalInput, Positive, Common
<1>4. draft.quoted \in {"none", "same", "before"}
  BY DEF ShapedDraft
<1> QED
  BY <1>1, <1>3, <1>4 DEF Comparable, Number

\* What is missing of a scenario, and its notes.
LEMMA MissingFields ==
    ASSUME NEW draft, ShapedDraft(draft), NEW s \in DOMAIN draft.scenarios,
           NEW scenario, scenario = draft.scenarios[s]
    PROVE  /\ \A f \in Proposed \ {"noncontrolling_attribution"} : f \in Missing(draft, s) <=> scenario[f].value = None
           /\ "noncontrolling_attribution" \in Missing(draft, s) <=> Unattributed(scenario)
           /\ \A f \in Common : f \in Missing(draft, s) <=> draft.common[f].value = None
           /\ "market_price_date" \in Missing(draft, s) <=> draft.quoted = "none"
BY DEF Missing, Proposed, Common, Unattributed

\* The numbers of a scenario are unknown as something they need is missing.
LEMMA NeedsKnown ==
    ASSUME NEW draft, ShapedDraft(draft), LegalDraft(draft), NEW s \in DOMAIN draft.scenarios,
           NEW scenario, scenario = draft.scenarios[s]
    PROVE  /\ Missing(draft, s) \intersect Needs("consolidated_net_income") # {} <=> Consolidated(scenario) = None
           /\ Missing(draft, s) \intersect Needs("parent_net_income") # {} <=> Parent(scenario) = None
           /\ Missing(draft, s) \intersect Needs("eps_per_traded_unit") # {} <=> Earnings(draft.common, scenario) = None
           /\ Missing(draft, s) \intersect Needs("operating_cash_flow") # {} <=> CashFlow(scenario) = None
<1>1. ScenarioShaped(scenario)
  BY ScenarioNumbers
<1>2. PICK missing : missing = Missing(draft, s)
  OBVIOUS
<1>3. /\ \A f \in Proposed \ {"noncontrolling_attribution"} : f \in missing <=> scenario[f].value = None
      /\ "noncontrolling_attribution" \in missing <=> Unattributed(scenario)
      /\ \A f \in Common : f \in missing <=> draft.common[f].value = None
  BY <1>2, MissingFields
<1>4. \A S \in SUBSET (Proposed \ {"noncontrolling_attribution"}) : missing \intersect S # {} <=> Unknown(scenario, S)
  BY <1>3 DEF Unknown
<1>5. IncomeFields \subseteq Proposed \ {"noncontrolling_attribution"} /\ Needs("consolidated_net_income") = IncomeFields
  BY DEF IncomeFields, Proposed, Needs
<1>6. missing \intersect IncomeFields # {} <=> Unknown(scenario, IncomeFields)
  BY <1>4, <1>5
<1>7. Needs("parent_net_income") = IncomeFields \union {"noncontrolling_attribution"}
  BY DEF IncomeFields, Needs
<1>8. missing \intersect Needs("parent_net_income") # {} <=> Parent(scenario) = None
  <2>1. missing \intersect Needs("parent_net_income") # {} <=>
          missing \intersect IncomeFields # {} \/ "noncontrolling_attribution" \in missing
    BY <1>7
  <2> QED
    BY <1>1, <1>3, <1>6, <2>1, ParentKnown
<1>9. missing \intersect Needs("eps_per_traded_unit") # {} <=> Earnings(draft.common, scenario) = None
  <2>1. Needs("eps_per_traded_unit") =
          IncomeFields \union {"noncontrolling_attribution", "diluted_ordinary_shares", "shares_per_traded_unit", "fx"}
    BY DEF IncomeFields, Needs
  <2>2. missing \intersect Needs("eps_per_traded_unit") # {} <=>
          \/ missing \intersect IncomeFields # {} \/ "noncontrolling_attribution" \in missing
          \/ missing \intersect {"diluted_ordinary_shares", "fx"} # {} \/ "shares_per_traded_unit" \in missing
    BY <2>1
  <2>3. missing \intersect {"diluted_ordinary_shares", "fx"} # {} <=> Unknown(scenario, {"diluted_ordinary_shares", "fx"})
    <3>1. {"diluted_ordinary_shares", "fx"} \in SUBSET (Proposed \ {"noncontrolling_attribution"})
      BY DEF Proposed
    <3> QED
      BY <1>4, <3>1
  <2>4. "shares_per_traded_unit" \in missing <=> draft.common.shares_per_traded_unit.value = None
    BY <1>3 DEF Common
  <2>5. \A f \in {"diluted_ordinary_shares", "fx"} : scenario[f].value # None => scenario[f].value > 0
    <3>1. ASSUME NEW f \in {"diluted_ordinary_shares", "fx"} PROVE scenario[f].value # None => scenario[f].value > 0
      <4>1. f \in Proposed /\ f \in Positive
        BY DEF Proposed, Positive
      <4>2. LegalInput(f, scenario[f])
        BY <4>1 DEF LegalDraft
      <4> QED
        BY <4>1, <4>2 DEF LegalInput
    <3> QED
      BY <3>1
  <2>6. draft.common.shares_per_traded_unit.value \in Number
    BY CommonNumbers DEF Common
  <2> QED
    BY <1>1, <1>3, <1>6, <2>2, <2>3, <2>4, <2>5, <2>6, EarningsKnown
<1>10. missing \intersect Needs("operating_cash_flow") # {} <=> CashFlow(scenario) = None
  <2>1. Needs("operating_cash_flow") = IncomeFields \union {"cash_adjustments"}
    BY DEF IncomeFields, Needs
  <2>2. missing \intersect Needs("operating_cash_flow") # {} <=>
          missing \intersect IncomeFields # {} \/ "cash_adjustments" \in missing
    BY <2>1
  <2>3. "cash_adjustments" \in missing <=> scenario.cash_adjustments.value = None
    BY <1>3 DEF Proposed
  <2> QED
    BY <1>1, <1>6, <2>2, <2>3, CashKnown
<1> QED
  BY <1>1, <1>2, <1>5, <1>6, <1>8, <1>9, <1>10, ConsolidatedKnown

LEMMA NotesKnown ==
    ASSUME NEW draft, ShapedDraft(draft), NEW s \in DOMAIN draft.scenarios,
           NEW eps, eps = Earnings(draft.common, draft.scenarios[s]),
           NEW pe, pe = draft.scenarios[s].exit_pe.value
    PROVE  /\ "zero_holding_period" \in Notes(draft, s) <=> draft.quoted = "same"
           /\ "not_annual" \in Notes(draft, s) <=> ~draft.annual
           /\ "eps_not_positive" \in Notes(draft, s) <=> NotPositive(eps)
           /\ "pe_not_positive" \in Notes(draft, s) <=> NotPositive(pe)
<1>1. Notes(draft, s) = (IF draft.quoted = "same" THEN {"zero_holding_period"} ELSE {})
       \union (IF ~draft.annual THEN {"not_annual"} ELSE {})
       \union (IF NotPositive(eps) THEN {"eps_not_positive"} ELSE {})
       \union (IF NotPositive(pe) THEN {"pe_not_positive"} ELSE {})
  BY Zenon DEF Notes
<1> QED
  BY <1>1

\* Unknown exactly where something needed is missing, or a note bars it.
LEMMA BridgeExplained ==
    ASSUME NEW draft, ShapedDraft(draft), LegalDraft(draft), NEW s \in DOMAIN draft.scenarios
    PROVE  /\ ReasonsKnown(Bridge(draft, s), Missing(draft, s), Notes(draft, s))
           /\ Bridge(draft, s)["return_ex_dividend"] \in Number
           /\ Bridge(draft, s)["return_with_dividend"] \in Number
           /\ Bridge(draft, s)["return_with_dividend"] # None => Bridge(draft, s)["return_ex_dividend"] # None
<1>1. PICK scenario, comparison : scenario = draft.scenarios[s] /\ comparison = Comparable(draft)
  OBVIOUS
<1>2. PICK eps, capex, dividend : /\ eps = Earnings(draft.common, scenario)
                                  /\ capex = scenario.cash_capex.value
                                  /\ dividend = scenario.cash_dividend.value
  OBVIOUS
<1>3. PICK cash, pe, exit : /\ cash = CashFlow(scenario)
                            /\ pe = scenario.exit_pe.value
                            /\ exit = Priced(draft.annual, eps, pe)
  OBVIOUS
<1>4. PICK missing, notes, bridge : missing = Missing(draft, s) /\ notes = Notes(draft, s) /\ bridge = Bridge(draft, s)
  OBVIOUS
<1>5. ScenarioShaped(scenario)
  BY <1>1, ScenarioNumbers
<1>6. capex \in Number /\ dividend \in Number /\ pe \in Number /\ cash \in Number
  BY <1>2, <1>3, <1>5, CashKnown DEF ScenarioShaped, Proposed
<1>7. eps \in Number
  <2>1. \A f \in {"diluted_ordinary_shares", "fx"} : scenario[f].value # None => scenario[f].value > 0
    <3>1. ASSUME NEW f \in {"diluted_ordinary_shares", "fx"} PROVE scenario[f].value # None => scenario[f].value > 0
      <4>1. f \in Proposed /\ f \in Positive
        BY DEF Proposed, Positive
      <4>2. LegalInput(f, scenario[f])
        BY <1>1, <4>1 DEF LegalDraft
      <4> QED
        BY <4>1, <4>2 DEF LegalInput
    <3> QED
      BY <3>1
  <2>2. draft.common.shares_per_traded_unit.value \in Number
    BY CommonNumbers DEF Common
  <2> QED
    BY <1>2, <1>5, <2>1, <2>2, EarningsKnown
<1>8. /\ comparison \in Number /\ (comparison # None => comparison > 0)
      /\ comparison = None <=> draft.quoted \in {"none", "same"} \/ draft.common["market_price"].value = None
  BY <1>1, ComparableKnown
<1>9. draft.annual \in BOOLEAN
  BY DEF ShapedDraft
<1>10. /\ exit \in Number
       /\ exit = None <=> ~draft.annual \/ eps = None \/ pe = None \/ NotPositive(eps) \/ NotPositive(pe)
  BY <1>3, <1>6, <1>7, <1>9, PricedKnown
<1>11. /\ "zero_holding_period" \in notes <=> draft.quoted = "same"
       /\ "not_annual" \in notes <=> ~draft.annual
       /\ "eps_not_positive" \in notes <=> NotPositive(eps)
       /\ "pe_not_positive" \in notes <=> NotPositive(pe)
  BY <1>1, <1>2, <1>3, <1>4, NotesKnown
<1>12. /\ missing \intersect Needs("consolidated_net_income") # {} <=> Consolidated(scenario) = None
       /\ missing \intersect Needs("parent_net_income") # {} <=> Parent(scenario) = None
       /\ missing \intersect Needs("eps_per_traded_unit") # {} <=> eps = None
       /\ missing \intersect Needs("operating_cash_flow") # {} <=> cash = None
  BY <1>1, <1>2, <1>3, <1>4, NeedsKnown
<1>13. /\ "cash_capex" \in missing <=> capex = None
       /\ "exit_pe" \in missing <=> pe = None
       /\ "cash_dividend" \in missing <=> dividend = None
       /\ "market_price" \in missing <=> draft.common["market_price"].value = None
       /\ "market_price_date" \in missing <=> draft.quoted = "none"
  <2>1. /\ \A f \in Proposed \ {"noncontrolling_attribution"} : f \in missing <=> scenario[f].value = None
        /\ \A f \in Common : f \in missing <=> draft.common[f].value = None
        /\ "market_price_date" \in missing <=> draft.quoted = "none"
    BY <1>1, <1>4, MissingFields
  <2> QED
    BY <1>2, <1>3, <2>1 DEF Proposed, Common
<1>14. comparison = None <=>
         "market_price" \in missing \/ "market_price_date" \in missing \/ "zero_holding_period" \in notes
  BY <1>8, <1>11, <1>13
<1>15. exit = None <=>
         \/ eps = None \/ "exit_pe" \in missing
         \/ "not_annual" \in notes \/ "eps_not_positive" \in notes \/ "pe_not_positive" \in notes
  BY <1>10, <1>11, <1>13
<1>16. /\ bridge["consolidated_net_income"] = Consolidated(scenario)
       /\ bridge["parent_net_income"] = Parent(scenario)
       /\ bridge["eps_per_traded_unit"] = eps /\ bridge["operating_cash_flow"] = cash
       /\ bridge["cash_after_capex_proxy"] = Spent(cash, capex)
       /\ bridge["exit_price"] = exit
       /\ bridge["price_only_break_even_pe"] = BreakEven(draft.annual, eps, comparison)
       /\ bridge["return_ex_dividend"] = Gained(exit, 0, comparison)
       /\ bridge["return_with_dividend"] = Gained(exit, dividend, comparison)
  BY <1>1, <1>2, <1>3, <1>4 DEF Bridge
<1>17. \A m \in {"consolidated_net_income", "parent_net_income", "eps_per_traded_unit", "operating_cash_flow"} :
          bridge[m] = None <=> missing \intersect Needs(m) # {} \/ notes \intersect Bars(m) # {}
  <2>1. \A m \in {"consolidated_net_income", "parent_net_income", "eps_per_traded_unit", "operating_cash_flow"} : Bars(m) = {}
    BY DEF Bars
  <2> QED
    BY <1>12, <1>16, <2>1
<1>18. bridge["cash_after_capex_proxy"] = None <=>
         missing \intersect Needs("cash_after_capex_proxy") # {} \/ notes \intersect Bars("cash_after_capex_proxy") # {}
  <2>1. None \notin {cash, capex} => cash - capex \in Int
    BY <1>6 DEF Number
  <2>2. bridge["cash_after_capex_proxy"] = None <=> None \in {cash, capex}
    BY <1>16, <2>1, CalculateKnown DEF Spent
  <2>3. /\ Needs("cash_after_capex_proxy") = Needs("operating_cash_flow") \union {"cash_capex"}
        /\ Bars("cash_after_capex_proxy") = {}
    BY DEF Needs, Bars
  <2> QED
    BY <1>12, <1>13, <2>2, <2>3
<1>19. bridge["exit_price"] = None <=>
         missing \intersect Needs("exit_price") # {} \/ notes \intersect Bars("exit_price") # {}
  <2>1. /\ Needs("exit_price") = Needs("eps_per_traded_unit") \union {"exit_pe"}
        /\ Bars("exit_price") = {"not_annual", "eps_not_positive", "pe_not_positive"}
    BY DEF Needs, Bars
  <2> QED
    BY <1>12, <1>15, <1>16, <2>1
<1>20. bridge["price_only_break_even_pe"] = None <=>
         missing \intersect Needs("price_only_break_even_pe") # {} \/ notes \intersect Bars("price_only_break_even_pe") # {}
  <2>1. /\ Needs("price_only_break_even_pe") = Needs("eps_per_traded_unit") \union {"market_price", "market_price_date"}
        /\ Bars("price_only_break_even_pe") = {"not_annual", "eps_not_positive", "zero_holding_period"}
    BY DEF Needs, Bars
  <2>2. bridge["price_only_break_even_pe"] = None <=>
          ~draft.annual \/ eps = None \/ NotPositive(eps) \/ comparison = None
    BY <1>7, <1>8, <1>9, <1>16, BreakEvenKnown
  <2>3. missing \intersect Needs("price_only_break_even_pe") # {} <=>
          eps = None \/ "market_price" \in missing \/ "market_price_date" \in missing
    BY <1>12, <2>1
  <2>4. notes \intersect Bars("price_only_break_even_pe") # {} <=>
          ~draft.annual \/ NotPositive(eps) \/ "zero_holding_period" \in notes
    BY <1>11, <2>1
  <2> QED
    BY <1>14, <2>2, <2>3, <2>4
<1>21. /\ bridge["return_ex_dividend"] \in Number
       /\ bridge["return_ex_dividend"] = None <=> exit = None \/ comparison = None
  <2>1. 0 \in Number /\ 0 # None
    BY SomeIsNotNone DEF Number
  <2> QED
    BY <1>8, <1>10, <1>16, <2>1, GainedKnown
<1>22. /\ bridge["return_with_dividend"] \in Number
       /\ bridge["return_with_dividend"] = None <=> exit = None \/ comparison = None \/ dividend = None
  BY <1>6, <1>8, <1>10, <1>16, GainedKnown
<1>23. \A m \in {"return_ex_dividend", "return_with_dividend"} :
          notes \intersect Bars(m) # {} <=>
             \/ "not_annual" \in notes \/ "eps_not_positive" \in notes
             \/ "pe_not_positive" \in notes \/ "zero_holding_period" \in notes
  <2>1. \A m \in {"return_ex_dividend", "return_with_dividend"} :
           Bars(m) = {"not_annual", "eps_not_positive", "pe_not_positive", "zero_holding_period"}
    BY DEF Bars
  <2> QED
    BY <2>1
<1>24. bridge["return_ex_dividend"] = None <=>
         missing \intersect Needs("return_ex_dividend") # {} \/ notes \intersect Bars("return_ex_dividend") # {}
  <2>1. Needs("return_ex_dividend") =
          Needs("eps_per_traded_unit") \union {"market_price", "market_price_date", "exit_pe"}
    BY DEF Needs
  <2>2. missing \intersect Needs("return_ex_dividend") # {} <=>
          \/ eps = None \/ "market_price" \in missing \/ "market_price_date" \in missing \/ "exit_pe" \in missing
    BY <1>12, <2>1
  <2> QED
    BY <1>14, <1>15, <1>21, <1>23, <2>2
<1>25. bridge["return_with_dividend"] = None <=>
         missing \intersect Needs("return_with_dividend") # {} \/ notes \intersect Bars("return_with_dividend") # {}
  <2>1. Needs("return_with_dividend") =
          Needs("eps_per_traded_unit") \union {"market_price", "market_price_date", "exit_pe", "cash_dividend"}
    BY DEF Needs
  <2>2. missing \intersect Needs("return_with_dividend") # {} <=>
          \/ eps = None \/ "market_price" \in missing \/ "market_price_date" \in missing \/ "exit_pe" \in missing
          \/ "cash_dividend" \in missing
    BY <1>12, <2>1
  <2> QED
    BY <1>13, <1>14, <1>15, <1>22, <1>23, <2>2
<1>26. \A m \in Metrics : bridge[m] = None <=> missing \intersect Needs(m) # {} \/ notes \intersect Bars(m) # {}
  BY <1>17, <1>18, <1>19, <1>20, <1>24, <1>25 DEF Metrics
<1> QED
  BY <1>4, <1>21, <1>22, <1>26 DEF ReasonsKnown

-----------------------------------------------------------------------------
(* The rating: sums, annual returns and bands grow with the returns.       *)

\* f is the sums of the fronts of returns, to the one of length m.
Sums(f, returns, m) == f = [n \in 0 .. m |-> IF n = 0 THEN 0 ELSE f[n - 1] + returns[n]]

LEMMA SumsExist ==
    ASSUME NEW returns, NEW m \in Nat
    PROVE  \E f : Sums(f, returns, m)
<1> DEFINE T == {n \in Nat : \E f : Sums(f, returns, n)}
<1>1. 0 \in T
  <2>1. Sums([n \in 0 .. 0 |-> 0], returns, 0)
    BY DEF Sums
  <2> QED
    BY <2>1
<1>2. ASSUME NEW n \in Nat, n \in T PROVE n + 1 \in T
  <2>1. PICK f : Sums(f, returns, n)
    BY <1>2
  <2> DEFINE g == [k \in 0 .. n + 1 |-> IF k = n + 1 THEN f[n] + returns[k] ELSE f[k]]
  <2>2. Sums(g, returns, n + 1)
    <3>1. g = [k \in 0 .. n + 1 |-> g[k]]
      OBVIOUS
    <3>2. ASSUME NEW k \in 0 .. n + 1 PROVE g[k] = IF k = 0 THEN 0 ELSE g[k - 1] + returns[k]
      <4>1. CASE k = n + 1
        BY <4>1
      <4>2. CASE k = 0
        BY <2>1, <4>2 DEF Sums
      <4>3. CASE k \in 1 .. n
        <5>1. g[k] = f[k] /\ g[k - 1] = f[k - 1]
          BY <4>3
        <5>2. \A i \in 0 .. n : f[i] = IF i = 0 THEN 0 ELSE f[i - 1] + returns[i]
          BY <2>1, Zenon DEF Sums
        <5>3. k \in 0 .. n /\ k # 0
          BY <4>3
        <5>4. f[k] = f[k - 1] + returns[k]
          BY <5>2, <5>3, Zenon
        <5> HIDE DEF g
        <5> QED
          BY <5>1, <5>3, <5>4
      <4> QED
        BY <4>1, <4>2, <4>3
    <3> HIDE DEF g
    <3> QED
      BY <3>1, <3>2 DEF Sums
  <2> QED
    BY <2>2
<1> HIDE DEF T
<1>3. Nat \subseteq T
  BY <1>1, <1>2, NatSetInduction
<1> QED
  BY <1>3 DEF T

LEMMA AddedUpSums ==
    ASSUME NEW returns, Len(returns) \in Nat
    PROVE  \E f : Sums(f, returns, Len(returns)) /\ AddedUp(returns) = f[Len(returns)]
<1> DEFINE sum == CHOOSE f : f = [n \in 0 .. Len(returns) |-> IF n = 0 THEN 0 ELSE f[n - 1] + returns[n]]
<1>1. \E f : Sums(f, returns, Len(returns))
  BY SumsExist
<1>2. sum = [n \in 0 .. Len(returns) |-> IF n = 0 THEN 0 ELSE sum[n - 1] + returns[n]]
  BY <1>1 DEF Sums
<1>3. AddedUp(returns) = sum[Len(returns)]
  BY DEF AddedUp
<1> HIDE DEF sum
<1> QED
  BY <1>2, <1>3 DEF Sums

\* Higher returns add up to more.
LEMMA AddedUpGrows ==
    ASSUME NEW old \in Seq(Int), NEW new \in Seq(Int), Len(old) = Len(new),
           \A i \in DOMAIN old : old[i] <= new[i]
    PROVE  AddedUp(old) \in Int /\ AddedUp(new) \in Int /\ AddedUp(old) <= AddedUp(new)
<1>1. PICK m \in Nat : m = Len(old) /\ DOMAIN old = 1 .. m /\ m = Len(new) /\ DOMAIN new = 1 .. m
  OBVIOUS
<1>2. PICK f : Sums(f, old, m) /\ AddedUp(old) = f[m]
  BY <1>1, AddedUpSums
<1>3. PICK g : Sums(g, new, m) /\ AddedUp(new) = g[m]
  BY <1>1, AddedUpSums
<1>4. \A n \in 0 .. m : f[n] = IF n = 0 THEN 0 ELSE f[n - 1] + old[n]
  BY <1>2, Zenon DEF Sums
<1>5. \A n \in 0 .. m : g[n] = IF n = 0 THEN 0 ELSE g[n - 1] + new[n]
  BY <1>3, Zenon DEF Sums
<1> DEFINE T == {n \in Nat : n <= m => f[n] \in Int /\ g[n] \in Int /\ f[n] <= g[n]}
<1>6. 0 \in T
  <2>1. f[0] = 0 /\ g[0] = 0
    BY <1>4, <1>5
  <2> QED
    BY <2>1
<1>7. ASSUME NEW n \in Nat, n \in T PROVE n + 1 \in T
  <2>1. ASSUME n + 1 <= m PROVE f[n + 1] \in Int /\ g[n + 1] \in Int /\ f[n + 1] <= g[n + 1]
    <3>1. PICK k : k = n + 1
      OBVIOUS
    <3>2. k \in 0 .. m /\ k # 0 /\ k - 1 = n /\ k \in 1 .. m
      BY <2>1, <3>1
    <3>3. PICK a, b : a = f[n] /\ b = g[n]
      OBVIOUS
    <3>4. a \in Int /\ b \in Int /\ a <= b
      BY <1>7, <2>1, <3>3
    <3>5. PICK u, v : u = old[k] /\ v = new[k]
      OBVIOUS
    <3>6. u \in Int /\ v \in Int /\ u <= v
      <4>1. k \in DOMAIN old /\ k \in DOMAIN new
        BY <1>1, <3>2
      <4>2. old[k] \in Int
        BY <4>1
      <4>3. new[k] \in Int
        BY <4>1
      <4> QED
        BY <3>5, <4>1, <4>2, <4>3
    <3>7. f[k] = a + u
      BY <1>4, <3>2, <3>3, <3>5
    <3>8. g[k] = b + v
      BY <1>5, <3>2, <3>3, <3>5
    <3>9. a + u \in Int /\ b + v \in Int /\ a + u <= b + v
      BY <3>4, <3>6
    <3> QED
      BY <3>1, <3>7, <3>8, <3>9
  <2> QED
    BY <2>1
<1> HIDE DEF T
<1>8. Nat \subseteq T
  BY <1>6, <1>7, NatSetInduction
<1>9. m \in T
  BY <1>8
<1>10. f[m] \in Int /\ g[m] \in Int /\ f[m] <= g[m]
  BY <1>9 DEF T
<1> QED
  BY <1>2, <1>3, <1>10

\* Products and quotients grow with what they are made of.
LEMMA SquareGrows ==
    ASSUME NEW x \in Nat, NEW y \in Nat, x <= y
    PROVE  x * x \in Nat /\ y * y \in Nat /\ x * x <= y * y
<1>1. PICK d \in Nat : y = x + d
  <2>1. y - x \in Nat /\ y = x + (y - x)
    OBVIOUS
  <2> QED
    BY <2>1
<1>2. x * x \in Nat /\ x * d \in Nat /\ d * d \in Nat
  OBVIOUS
<1>3. y * y = x * x + 2 * (x * d) + d * d
  BY <1>1
<1> QED
  BY <1>2, <1>3

LEMMA QuotientGrows ==
    ASSUME NEW x \in Nat, NEW y \in Nat, x <= y, NEW k \in Nat \ {0}
    PROVE  x \div k \in Nat /\ y \div k \in Nat /\ x \div k <= y \div k
OBVIOUS

LEMMA AnnualizedGrows ==
    ASSUME NEW x \in Int, NEW y \in Int, x <= y, NEW months
    PROVE  Annualized(x, months) \in Int /\ Annualized(y, months) \in Int /\ Annualized(x, months) <= Annualized(y, months)
<1>0. Scale \in Nat \ {0}
  BY ScaleAssumption
<1>1. CASE months = 12
  BY <1>1 DEF Annualized
<1>2. CASE months # 12
  <2>1. ASSUME NEW z \in Int, z > -Scale
        PROVE  /\ Scale + z \in Nat /\ (Scale + z) * (Scale + z) \in Nat
               /\ ((Scale + z) * (Scale + z)) \div Scale \in Nat
               /\ Annualized(z, months) = ((Scale + z) * (Scale + z)) \div Scale - Scale
    <3>1. Scale + z \in Nat
      BY <1>0, <2>1
    <3>2. (Scale + z) * (Scale + z) \in Nat
      BY <3>1, SquareGrows
    <3>3. ((Scale + z) * (Scale + z)) \div Scale \in Nat
      BY <1>0, <3>2, QuotientGrows
    <3>4. ~(z <= -Scale)
      BY <1>0, <2>1
    <3> QED
      BY <1>2, <3>1, <3>2, <3>3, <3>4 DEF Annualized
  <2>2. ASSUME NEW z \in Int, z <= -Scale PROVE Annualized(z, months) = -Scale
    BY <1>2, <2>2 DEF Annualized
  <2>3. CASE x > -Scale
    <3>1. y > -Scale
      BY <1>0, <2>3
    <3>2. PICK a, b : a = Scale + x /\ b = Scale + y
      OBVIOUS
    <3>3. a \in Nat /\ b \in Nat /\ a <= b
      BY <1>0, <2>1, <2>3, <3>1, <3>2
    <3>4. a * a \in Nat /\ b * b \in Nat /\ a * a <= b * b
      BY <3>3, SquareGrows
    <3>5. (a * a) \div Scale \in Nat /\ (b * b) \div Scale \in Nat /\ (a * a) \div Scale <= (b * b) \div Scale
      BY <1>0, <3>4, QuotientGrows
    <3>6. Annualized(x, months) = (a * a) \div Scale - Scale /\ Annualized(y, months) = (b * b) \div Scale - Scale
      BY <2>1, <2>3, <3>1, <3>2
    <3> QED
      BY <1>0, <3>5, <3>6
  <2>4. CASE x <= -Scale /\ y > -Scale
    <3>1. Annualized(x, months) = -Scale
      BY <2>2, <2>4
    <3>2. PICK q \in Nat : Annualized(y, months) = q - Scale
      BY <2>1, <2>4
    <3> QED
      BY <1>0, <3>1, <3>2
  <2>5. CASE y <= -Scale
    <3>1. x <= -Scale
      BY <1>0, <2>5
    <3>2. Annualized(x, months) = -Scale /\ Annualized(y, months) = -Scale
      BY <2>2, <2>5, <3>1
    <3> QED
      BY <1>0, <3>2
  <2> QED
    BY <1>0, <2>3, <2>4, <2>5
<1> QED
  BY <1>1, <1>2

LEMMA BandGrows ==
    ASSUME NEW x \in Int, NEW y \in Int, x <= y, NEW n \in Nat
    PROVE  Band(x, n) \in Int /\ Band(y, n) \in Int /\ Band(x, n) <= Band(y, n)
<1>1. PICK percent \in Int : percent = n * Scale
  BY ScaleAssumption
<1>2. \A total : Band(total, n) = IF total * 100 >= 20 * percent THEN 4
                                  ELSE IF total * 100 >= 5 * percent THEN 3
                                  ELSE IF total * 100 > -5 * percent THEN 2
                                  ELSE IF total * 100 > -20 * percent THEN 1 ELSE 0
  BY <1>1, Zenon DEF Band
<1>3. percent \in Nat
  BY <1>1, ScaleAssumption
<1> QED
  BY <1>2, <1>3

-----------------------------------------------------------------------------
(* The rule's rating of a draft. *)

LEMMA ReturnKnown ==
    ASSUME NEW draft, ShapedDraft(draft), LegalDraft(draft), NEW s \in DOMAIN draft.scenarios
    PROVE  /\ ScenarioReturn(draft, s) \in Number
           /\ ScenarioReturn(draft, s) = None <=> Bridge(draft, s).return_ex_dividend = None
<1>1. PICK bridge : bridge = Bridge(draft, s)
  OBVIOUS
<1>2. /\ bridge["return_ex_dividend"] \in Number /\ bridge["return_with_dividend"] \in Number
      /\ bridge["return_with_dividend"] # None => bridge["return_ex_dividend"] # None
  BY <1>1, BridgeExplained
<1>3. ScenarioReturn(draft, s) = IF bridge.return_with_dividend # None THEN bridge.return_with_dividend
                                 ELSE bridge.return_ex_dividend
  BY <1>1 DEF ScenarioReturn, TotalReturn
<1> QED
  BY <1>1, <1>2, <1>3

Returns(draft, months) == [s \in DOMAIN draft.scenarios |-> Annualized(ScenarioReturn(draft, s), months)]

\* A draft whose returns are all known.
Rated(draft) == draft.scenarios # <<>> /\ \A s \in DOMAIN draft.scenarios : ScenarioReturn(draft, s) # None

LEMMA ReturnsShape ==
    ASSUME NEW draft, ShapedDraft(draft), LegalDraft(draft), Rated(draft), NEW months
    PROVE  /\ Len(draft.scenarios) \in Nat /\ DOMAIN draft.scenarios = 1 .. Len(draft.scenarios)
           /\ Returns(draft, months) \in Seq(Int) /\ Len(Returns(draft, months)) = Len(draft.scenarios)
           /\ RuleRating(draft, months) = Band(AddedUp(Returns(draft, months)), Len(draft.scenarios))
<1>1. PICK X : draft.scenarios \in Seq(X)
  BY DEF ShapedDraft
<1>2. PICK n \in Nat : n = Len(draft.scenarios) /\ DOMAIN draft.scenarios = 1 .. n
  BY <1>1
<1>3. ASSUME NEW s \in DOMAIN draft.scenarios PROVE Annualized(ScenarioReturn(draft, s), months) \in Int
  <2>1. ScenarioReturn(draft, s) \in Int
    BY ReturnKnown DEF Rated, Number
  <2> QED
    BY <2>1, AnnualizedGrows
<1>4. PICK returns : returns = Returns(draft, months)
  OBVIOUS
<1>5. returns \in [1 .. n -> Int]
  BY <1>2, <1>3, <1>4 DEF Returns
<1>6. returns \in Seq(Int) /\ Len(returns) = n
  BY <1>5
<1>7. RuleRating(draft, months) = Band(AddedUp(Returns(draft, months)), Len(draft.scenarios))
  BY Zenon DEF RuleRating, Rated, Returns
<1> QED
  BY <1>2, <1>4, <1>6, <1>7

LEMMA RatingKnown ==
    ASSUME NEW draft, ShapedDraft(draft), LegalDraft(draft), NEW months
    PROVE  /\ RuleRating(draft, months) = None <=>
                draft.scenarios = <<>> \/ \E s \in DOMAIN draft.scenarios : Bridge(draft, s).return_ex_dividend = None
           /\ RuleRating(draft, months) # None => Rated(draft)
<1>1. Rated(draft) <=>
        ~(draft.scenarios = <<>> \/ \E s \in DOMAIN draft.scenarios : Bridge(draft, s).return_ex_dividend = None)
  BY ReturnKnown DEF Rated
<1>2. CASE Rated(draft)
  <2>1. PICK returns, n : returns = Returns(draft, months) /\ n = Len(draft.scenarios)
    OBVIOUS
  <2>2. returns \in Seq(Int) /\ n \in Nat /\ RuleRating(draft, months) = Band(AddedUp(returns), n)
    BY <1>2, <2>1, ReturnsShape
  <2>3. AddedUp(returns) \in Int
    <3>1. \A i \in DOMAIN returns : returns[i] <= returns[i]
      BY <2>2
    <3> QED
      BY <2>2, <3>1, AddedUpGrows
  <2>4. Band(AddedUp(returns), n) \in Int
    BY <2>2, <2>3, BandGrows
  <2>5. RuleRating(draft, months) # None
    BY <2>2, <2>4, SomeIsNotNone
  <2> QED
    BY <1>1, <1>2, <2>5
<1>3. CASE ~Rated(draft)
  <2>1. RuleRating(draft, months) = None
    BY <1>3 DEF RuleRating, Rated
  <2> QED
    BY <1>1, <1>3, <2>1
<1> QED
  BY <1>2, <1>3

\* No lower return, no lower rating.
LEMMA RatingGrows ==
    ASSUME NEW old, ShapedDraft(old), LegalDraft(old), NEW new, ShapedDraft(new), LegalDraft(new),
           DOMAIN new.scenarios = DOMAIN old.scenarios, NEW months,
           RuleRating(old, months) # None, RuleRating(new, months) # None,
           \A s \in DOMAIN old.scenarios : ScenarioReturn(new, s) >= ScenarioReturn(old, s)
    PROVE  RuleRating(new, months) >= RuleRating(old, months)
<1>1. Rated(old) /\ Rated(new)
  BY RatingKnown
<1>2. PICK p, q : p = Returns(old, months) /\ q = Returns(new, months)
  OBVIOUS
<1>3. PICK n, m : n = Len(old.scenarios) /\ m = Len(new.scenarios)
  OBVIOUS
<1>4. /\ n \in Nat /\ DOMAIN old.scenarios = 1 .. n /\ p \in Seq(Int) /\ Len(p) = n
      /\ RuleRating(old, months) = Band(AddedUp(p), n)
  BY <1>1, <1>2, <1>3, ReturnsShape
<1>5. /\ m \in Nat /\ DOMAIN new.scenarios = 1 .. m /\ q \in Seq(Int) /\ Len(q) = m
      /\ RuleRating(new, months) = Band(AddedUp(q), m)
  BY <1>1, <1>2, <1>3, ReturnsShape
<1>6. m = n
  <2>1. 1 .. m = 1 .. n
    BY <1>4, <1>5
  <2> QED
    BY <1>4, <1>5, <2>1
<1>7. ASSUME NEW s \in 1 .. n PROVE p[s] <= q[s]
  <2>1. s \in DOMAIN old.scenarios /\ s \in DOMAIN new.scenarios
    BY <1>4
  <2>2. PICK x, y : x = ScenarioReturn(old, s) /\ y = ScenarioReturn(new, s)
    OBVIOUS
  <2>3. x \in Int
    BY <1>1, <2>1, <2>2, ReturnKnown DEF Rated, Number
  <2>4. y \in Int
    BY <1>1, <2>1, <2>2, ReturnKnown DEF Rated, Number
  <2>5. x <= y
    <3>1. y >= x
      BY <2>1, <2>2
    <3> QED
      BY <2>3, <2>4, <3>1
  <2>6. p[s] = Annualized(x, months) /\ q[s] = Annualized(y, months)
    BY <1>2, <2>1, <2>2 DEF Returns
  <2> QED
    BY <2>3, <2>4, <2>5, <2>6, AnnualizedGrows
<1>8. AddedUp(p) \in Int /\ AddedUp(q) \in Int /\ AddedUp(p) <= AddedUp(q)
  <2>1. DOMAIN p = 1 .. n
    BY <1>4
  <2> QED
    BY <1>4, <1>5, <1>6, <1>7, <2>1, AddedUpGrows
<1>9. Band(AddedUp(p), n) \in Int /\ Band(AddedUp(q), n) \in Int /\ Band(AddedUp(p), n) <= Band(AddedUp(q), n)
  BY <1>4, <1>8, BandGrows
<1> QED
  BY <1>4, <1>5, <1>6, <1>9

-----------------------------------------------------------------------------
(* What the drafts of a revision keep to says what the property says.      *)

LEMMA RevInvTelescopes ==
    ASSUME RevInv
    PROVE  EffectsTelescope
<1>0. DraftsShaped /\ EditsKept /\ WalkKept /\ RowsKept /\ PhaseKept
  BY DEF RevInv
<1>1. revPhase \in {"effects", "done"} => LegalDraft(current)
  BY WalkedLegal
<1>2. ASSUME revPhase = "done"
      PROVE  /\ current = effective
             /\ \A s \in DOMAIN base.scenarios, m \in EffectMetrics :
                   Leads(EffectsOf(s), s, m, Bridge(base, s)[m], Bridge(effective, s)[m])
  <2>1. current = effective
    BY <1>0, <1>2, WalkEnds DEF PhaseKept
  <2> QED
    BY <1>0, <2>1 DEF RowsKept
<1> QED
  BY <1>1, <1>2, Zenon DEF EffectsTelescope, Leads

LEMMA RevInvExplains ==
    ASSUME RevInv
    PROVE  NullsExplained
<1>0. DraftsShaped /\ PhaseKept
  BY DEF RevInv
<1>1. ShapedDraft(base) /\ ShapedDraft(effective) /\ LegalDraft(base) /\ DOMAIN effective.scenarios = DOMAIN base.scenarios
  BY <1>0 DEF DraftsShaped, Alike, PhaseKept
<1>2. LegalDraft(effective) =>
        \A s \in DOMAIN effective.scenarios :
            ReasonsKnown(Bridge(effective, s), Missing(effective, s), Notes(effective, s))
  BY <1>1, BridgeExplained
<1>3. ASSUME revPhase = "done", NEW months \in {6, 12}
      PROVE  /\ RuleRating(effective, months) = None <=>
                  effective.scenarios = <<>> \/ \E s \in DOMAIN effective.scenarios : Bridge(effective, s).return_ex_dividend = None
             /\ /\ RuleRating(base, months) # None /\ RuleRating(effective, months) # None
                /\ \A s \in DOMAIN base.scenarios : ScenarioReturn(effective, s) >= ScenarioReturn(base, s)
                => RuleRating(effective, months) >= RuleRating(base, months)
  <2>1. LegalDraft(effective)
    BY <1>0, <1>3 DEF PhaseKept
  <2> QED
    BY <1>1, <2>1, RatingKnown, RatingGrows
<1> QED
  BY <1>2, <1>3, Zenon DEF NullsExplained

\* Every edit of a forward draft is accounted for (revision_effects()), and
\* every unknown number of the calculation and of the rating has its reason.
THEOREM RevisionAlwaysExplained == RevSpec => []RevisionExplained
<1>1. RevInv => RevisionExplained
  BY RevInvTelescopes, RevInvExplains DEF RevisionExplained
<1> QED
  BY <1>1, RevInvAlways, PTL
=============================================================================
