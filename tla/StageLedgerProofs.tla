------------------------- MODULE StageLedgerProofs --------------------------
(***************************************************************************)
(* Good of StageInvariant describes the ledger of a thesis run without the *)
(* arithmetic of its readers.  Every reader accepts a good ledger: its     *)
(* rows and left-out stages are proven from its calls (GoodRecoveries), a  *)
(* resumed run loads it (GoodLoads) and takes over the answers of its      *)
(* stages in their order (NextAnswer), and the reader of a Case accepts    *)
(* what a complete and a halted run make of it (DoneReads, HaltedBefore,   *)
(* HaltedRefused).                                                         *)
(*                                                                         *)
(* A ledger stays good when a call ends (GrownGood), a row is granted      *)
(* (RetriedGood, RepairingGood), an answer is accepted (AcceptedGood), a   *)
(* stage is left out (OmittedGood), and while it is replayed (TakenGood).  *)
(***************************************************************************)
EXTENDS StageInvariant, SelectionsProofs, FiniteSetTheorems

---------------------------------------------------------------------------
(* The shape of a good ledger. *)

\* What the parts of a good ledger are.
LEMMA GoodParts ==
    ASSUME NEW L, NEW f, NEW n, Good(L, f, n)
    PROVE  /\ L.calls \in Seq(Call) /\ L.rows \in Seq(Row) /\ L.halted \in 0 .. LastStage
           /\ L.left \in Seq([stage : Degradable, ids : Seq(Nat)]) /\ L.spent \in Nat
           /\ DOMAIN L.calls = 1 .. Len(L.calls) /\ Len(L.calls) \in Nat
           /\ DOMAIN L.rows = 1 .. Len(L.rows) /\ Len(L.rows) \in Nat
           /\ f \in 1 .. LastStage + 1 /\ f \in Nat /\ n \in Nat /\ n <= Len(L.calls)
           /\ LastStage \in Nat \ {0}
           /\ \A i \in 1 .. Len(L.calls) : L.calls[i] \in Call
           /\ \A i \in 1 .. n : i \in DOMAIN L.calls
           /\ n = Len(L.calls) \/ n + 1 = Len(L.calls)
<1>1. L \in Ledger /\ f \in 1 .. LastStage + 1 /\ n \in 0 .. Len(L.calls)
  BY DEF Good
<1>2. /\ L.calls \in Seq(Call) /\ L.rows \in Seq(Row) /\ L.halted \in 0 .. LastStage
      /\ L.left \in Seq([stage : Degradable, ids : Seq(Nat)]) /\ L.spent \in Nat
  BY <1>1 DEF Ledger
<1>3. LastStage \in Nat \ {0}
  BY StageAssumption
<1>4. n = Len(L.calls) \/ n + 1 = Len(L.calls)
  BY Zenon DEF Good, RepairLast
<1>5. /\ DOMAIN L.calls = 1 .. Len(L.calls) /\ Len(L.calls) \in Nat
      /\ DOMAIN L.rows = 1 .. Len(L.rows) /\ Len(L.rows) \in Nat
      /\ \A i \in 1 .. Len(L.calls) : L.calls[i] \in Call
  BY <1>2
<1>6. f \in Nat /\ n \in Nat /\ n <= Len(L.calls) /\ \A i \in 1 .. n : i \in DOMAIN L.calls
  BY <1>1, <1>3, <1>5
<1> QED
  BY <1>1, <1>2, <1>3, <1>4, <1>5, <1>6

\* The fields of a call and of a row.
LEMMA CallParts ==
    ASSUME NEW c \in Call
    PROVE  c.id \in Nat /\ c.stage \in 1 .. LastStage /\ c.stage \in Nat /\ c.attempt \in Nat /\ c.end \in End
<1>1. LastStage \in Nat \ {0}
  BY StageAssumption
<1> QED
  BY <1>1 DEF Call, Stage

\* What the parts of a row are.
LEMMA RowParts ==
    ASSUME NEW r \in Row
    PROVE  r.stage \in 1 .. LastStage /\ r.stage \in Nat /\ r.reason \in Reason /\ r.failed \in Nat /\ r.retry \in Nat
<1>1. LastStage \in Nat \ {0}
  BY StageAssumption
<1> QED
  BY <1>1 DEF Row, Stage

\* The set of a sequence's elements.
LEMMA ToSetIndex ==
    ASSUME NEW X, NEW s \in Seq(X)
    PROVE  /\ \A e \in ToSet(s) : e \in X /\ \E i \in DOMAIN s : e = s[i]
           /\ \A i \in DOMAIN s : s[i] \in ToSet(s)
BY DEF ToSet

\* The ids of calls.
LEMMA IdsIndex ==
    ASSUME NEW calls \in Seq(Call)
    PROVE  /\ \A id \in IdsOf(calls) : \E i \in DOMAIN calls : id = calls[i].id
           /\ \A i \in DOMAIN calls : calls[i].id \in IdsOf(calls)
<1>1. /\ \A e \in ToSet(calls) : \E i \in DOMAIN calls : e = calls[i]
      /\ \A i \in DOMAIN calls : calls[i] \in ToSet(calls)
  BY ToSetIndex
<1> QED
  BY <1>1 DEF IdsOf

\* Where calls have an id each, an id names one call and its place.
LEMMA OneIndex ==
    ASSUME NEW L, L.calls \in Seq(Call), Identified(L), NEW i \in DOMAIN L.calls
    PROVE  IndexOf(L.calls, L.calls[i].id) = i /\ CallOf(L.calls, L.calls[i].id) = L.calls[i]
<1>1. \A j \in DOMAIN L.calls : L.calls[j].id = L.calls[i].id => j = i
  BY DEF Identified
<1>2. IndexOf(L.calls, L.calls[i].id) = i
  BY <1>1, Zenon DEF IndexOf
<1>3. L.calls[i] \in ToSet(L.calls)
  BY ToSetIndex
<1>4. \A c \in ToSet(L.calls) : c.id = L.calls[i].id => c = L.calls[i]
  BY <1>1, ToSetIndex
<1>5. CallOf(L.calls, L.calls[i].id) = L.calls[i]
  BY <1>3, <1>4, Zenon DEF CallOf
<1> QED
  BY <1>2, <1>5

\* In a good ledger calls have ids of their own.
LEMMA GoodIds ==
    ASSUME NEW L, NEW f, NEW n, Good(L, f, n)
    PROVE  /\ \A i, j \in 1 .. Len(L.calls) : L.calls[i].id = L.calls[j].id => i = j
           /\ \A i \in 1 .. Len(L.calls) : L.calls[i].id # NoCall
           /\ \A i \in 1 .. Len(L.calls) : IndexOf(L.calls, L.calls[i].id) = i
           /\ \A i \in 1 .. Len(L.calls) : CallOf(L.calls, L.calls[i].id) = L.calls[i]
           /\ \A i \in 1 .. Len(L.calls) : L.calls[i].id \in IdsOf(L.calls)
<1>1. L.calls \in Seq(Call) /\ DOMAIN L.calls = 1 .. Len(L.calls) /\ Identified(L)
  BY GoodParts DEF Good
<1> QED
  BY <1>1, OneIndex, IdsIndex DEF Identified

\* The place of the call that a plain row names.
LEMMA RowPlace ==
    ASSUME NEW L, NEW f, NEW n, Good(L, f, n), NEW r \in ToSet(L.rows), Plain(r)
    PROVE  \E i \in 1 .. n : GrantedBy(L, f, n, r, i)
BY DEF Good, Granted

\* The row that granted a call, and the call before it.
LEMMA GrantingRow ==
    ASSUME NEW L, NEW f, NEW n, Good(L, f, n), NEW i \in 1 .. n,
           NEW r \in ToSet(L.rows), Plain(r), r.retry = L.calls[i].id
    PROVE  i > 1 /\ r.failed = L.calls[i - 1].id /\ L.calls[i - 1].stage = L.calls[i].stage /\ r.stage = L.calls[i].stage
<1>1. PICK j \in 1 .. n : GrantedBy(L, f, n, r, j)
  BY RowPlace
<1>2. n \in Nat /\ n <= Len(L.calls) /\ Len(L.calls) \in Nat
  BY GoodParts
<1>3. r.retry # NoCall
  BY <1>2, GoodIds
<1>4. /\ r.failed = L.calls[j].id /\ r.stage = L.calls[j].stage
      /\ j < n /\ r.retry = L.calls[j + 1].id /\ L.calls[j + 1].stage = r.stage
  BY <1>1, <1>3 DEF GrantedBy
<1>5. i = j + 1
  <2>1. i \in 1 .. Len(L.calls) /\ j + 1 \in 1 .. Len(L.calls)
    BY <1>2, <1>4
  <2>2. L.calls[i].id = L.calls[j + 1].id
    BY <1>4
  <2>3. \A p, q \in 1 .. Len(L.calls) : L.calls[p].id = L.calls[q].id => p = q
    BY GoodIds
  <2> QED
    BY <2>1, <2>2, <2>3, Zenon
<1>6. i > 1 /\ i - 1 = j
  BY <1>2, <1>5
<1> QED
  BY <1>4, <1>5, <1>6

---------------------------------------------------------------------------
(* What a resumed run and the readers count on. *)

\* The call is the last of the block of a stage that is not left out.
Stands(L, n, p) == p \in 1 .. n /\ Ends(L, n, p) /\ L.calls[p].stage \notin LeftOut(L)

\* A call that is not the last of its block was a row's failed call.
LEMMA FollowedFailed ==
    ASSUME NEW L, NEW f, NEW n, Good(L, f, n), NEW p \in 1 .. n, ~Ends(L, n, p)
    PROVE  /\ p + 1 \in 1 .. n /\ L.calls[p + 1].stage = L.calls[p].stage
           /\ \E r \in ToSet(L.rows) : Plain(r) /\ r.failed = L.calls[p].id /\ r.retry = L.calls[p + 1].id
<1>1. n \in Nat
  BY GoodParts
<1>2. p + 1 \in 1 .. n /\ L.calls[p + 1].stage = L.calls[p].stage /\ (p + 1) - 1 = p /\ p + 1 # 1
  BY <1>1 DEF Ends
<1>3. Linked(L, n)
  BY DEF Good
<1>4. \E r \in ToSet(L.rows) : Plain(r) /\ r.failed = L.calls[(p + 1) - 1].id /\ r.retry = L.calls[p + 1].id
  BY <1>2, <1>3 DEF Linked
<1> QED
  BY <1>2, <1>4

\* The last calls of two blocks are calls of different stages, in their order.
LEMMA StandsOrder ==
    ASSUME NEW L, NEW f, NEW n, Good(L, f, n), NEW p \in 1 .. n, NEW q \in 1 .. n, p < q, Ends(L, n, p)
    PROVE  L.calls[p].stage < L.calls[q].stage
<1>1. n \in Nat /\ n <= Len(L.calls) /\ Len(L.calls) \in Nat
  BY GoodParts
<1>2. p + 1 \in 1 .. n /\ p + 1 <= q /\ p # n
  BY <1>1
<1>3. L.calls[p].stage <= L.calls[p + 1].stage /\ L.calls[p + 1].stage <= L.calls[q].stage
  BY <1>1, <1>2 DEF Good, Sorted
<1>4. L.calls[p + 1].stage # L.calls[p].stage
  BY <1>2 DEF Ends
<1>5. L.calls[p].stage \in Nat /\ L.calls[p + 1].stage \in Nat /\ L.calls[q].stage \in Nat
  <2>1. L.calls[p] \in Call /\ L.calls[p + 1] \in Call /\ L.calls[q] \in Call
    BY <1>1, <1>2, GoodParts
  <2> QED
    BY <2>1, CallParts
<1> QED
  BY <1>3, <1>4, <1>5

\* A failed call has an end that proves it.
LEMMA FailedEnds ==
    ASSUME NEW L, NEW f, NEW n, Good(L, f, n), NEW p \in 1 .. Len(L.calls),
           NEW r \in ToSet(L.rows), Plain(r), r.failed = L.calls[p].id
    PROVE  /\ GrantedBy(L, f, n, r, p) /\ p \in 1 .. n
           /\ L.calls[p].end \in {"cut", "lost", "empty", "repair", "again"}
<1>1. PICK i \in 1 .. n : GrantedBy(L, f, n, r, i)
  BY RowPlace
<1>2. n \in Nat /\ n <= Len(L.calls) /\ Len(L.calls) \in Nat
  BY GoodParts
<1>3. i \in 1 .. Len(L.calls) /\ L.calls[i].id = L.calls[p].id
  BY <1>1, <1>2 DEF GrantedBy
<1>4. i = p
  BY <1>3, GoodIds
<1>5. FailureReason(L.calls[p]) \in Reason /\ L.calls[p].end # "cut_refused"
  <2>1. r \in Row
    BY GoodParts, ToSetIndex
  <2> QED
    BY <1>1, <1>4, <2>1, RowParts DEF GrantedBy
<1>6. L.calls[p].end \in {"cut", "lost", "empty", "repair", "again"}
  <2>1. ~ "none" \in Reason
    BY DEF Reason
  <2> QED
    BY <1>5, <2>1 DEF FailureReason
<1> QED
  BY <1>1, <1>4, <1>6

\* StageCalls are the calls of the blocks at this stage.
CallsAt(L, n, s) ==
    /\ \A p \in 1 .. n : L.calls[p].stage = s => L.calls[p] \in ToSet(StageCalls(L.calls, s))
    /\ \A c \in ToSet(StageCalls(L.calls, s)) : \E p \in 1 .. n : c = L.calls[p] /\ L.calls[p].stage = s

\* The places of a stage's calls.
LEMMA StageCallsPlaces ==
    ASSUME NEW L, NEW f, NEW n, Good(L, f, n), NEW s
    PROVE  CallsAt(L, n, s)
<1>1. L.calls \in Seq(Call) /\ DOMAIN L.calls = 1 .. Len(L.calls) /\ n \in Nat /\ n <= Len(L.calls) /\ Len(L.calls) \in Nat
  BY GoodParts
<1>2. ToSet(StageCalls(L.calls, s)) = ToSet(L.calls) \intersect {c \in Call : c.stage = s /\ c.attempt > 0}
  BY <1>1, ThoseType DEF StageCalls
<1>3. ASSUME NEW p \in 1 .. n, L.calls[p].stage = s PROVE L.calls[p] \in ToSet(StageCalls(L.calls, s))
  <2>1. p \in DOMAIN L.calls /\ L.calls[p] \in Call /\ L.calls[p].attempt > 0
    BY <1>1 DEF Good, Sorted
  <2>2. L.calls[p] \in ToSet(L.calls)
    BY <1>1, <2>1, ToSetIndex
  <2> QED
    BY <1>2, <1>3, <2>1, <2>2
<1>4. ASSUME NEW c \in ToSet(StageCalls(L.calls, s)) PROVE \E p \in 1 .. n : c = L.calls[p] /\ L.calls[p].stage = s
  <2>1. c \in ToSet(L.calls) /\ c.stage = s /\ c.attempt > 0
    BY <1>2
  <2>2. PICK p \in 1 .. Len(L.calls) : c = L.calls[p]
    BY <1>1, <2>1, ToSetIndex
  <2>3. p \in 1 .. n
    <3>1. CASE p <= n
      BY <1>1, <3>1
    <3>2. CASE p = n + 1
      <4>1. n + 1 = Len(L.calls) /\ n # Len(L.calls)
        BY <1>1, <3>2, GoodParts
      <4>2. L.calls[n + 1].attempt = 0
        BY <4>1 DEF Good, RepairLast
      <4> QED
        BY <2>1, <2>2, <3>2, <4>2
    <3>3. p <= n \/ p = n + 1
      BY <1>1, GoodParts
    <3> QED
      BY <3>1, <3>2, <3>3
  <2> QED
    BY <2>1, <2>2, <2>3
<1> QED
  BY <1>3, <1>4 DEF CallsAt

\* A left-out stage keeps the ids of its calls.
KeepsIds(L, n, d) ==
    /\ \A p \in 1 .. n : L.calls[p].stage = d.stage => L.calls[p].id \in ToSet(d.ids)
    /\ \A id \in ToSet(d.ids) : \E p \in 1 .. n : id = L.calls[p].id /\ L.calls[p].stage = d.stage

\* The calls of a left-out stage are the ids it keeps.
LEMMA LeftIds ==
    ASSUME NEW L, NEW f, NEW n, Good(L, f, n), NEW d \in ToSet(L.left)
    PROVE  /\ KeepsIds(L, n, d)
           /\ d.stage < f /\ d.stage \in Degradable /\ d.stage \in LeftOut(L)
<1>1. PICK mine \in Seq(Call) : mine = StageCalls(L.calls, d.stage)
  <2>1. L.calls \in Seq(Call)
    BY GoodParts
  <2> QED
    BY <2>1, ThoseOrder DEF StageCalls
<1>2. d.stage < f /\ d.ids = [i \in DOMAIN mine |-> mine[i].id]
  BY <1>1 DEF Good, Dropped
<1>3. ToSet(d.ids) = {mine[i].id : i \in DOMAIN mine}
  BY <1>2 DEF ToSet
<1>4. \A c : c \in ToSet(mine) <=> \E i \in DOMAIN mine : c = mine[i]
  BY <1>1, ToSetIndex
<1>5. /\ \A p \in 1 .. n : L.calls[p].stage = d.stage => L.calls[p] \in ToSet(mine)
      /\ \A c \in ToSet(mine) : \E p \in 1 .. n : c = L.calls[p] /\ L.calls[p].stage = d.stage
  <2>1. CallsAt(L, n, d.stage)
    BY StageCallsPlaces
  <2> QED
    BY <1>1, <2>1, Zenon DEF CallsAt
<1>6. d \in [stage : Degradable, ids : Seq(Nat)]
  BY GoodParts, ToSetIndex
<1>7. \A p \in 1 .. n : L.calls[p].stage = d.stage => L.calls[p].id \in ToSet(d.ids)
  <2> SUFFICES ASSUME NEW p \in 1 .. n, L.calls[p].stage = d.stage PROVE L.calls[p].id \in ToSet(d.ids)
    OBVIOUS
  <2>1. PICK i \in DOMAIN mine : L.calls[p] = mine[i]
    BY <1>4, <1>5
  <2> QED
    BY <1>3, <2>1
<1>8. \A id \in ToSet(d.ids) : \E p \in 1 .. n : id = L.calls[p].id /\ L.calls[p].stage = d.stage
  <2> SUFFICES ASSUME NEW id \in ToSet(d.ids)
               PROVE  \E p \in 1 .. n : id = L.calls[p].id /\ L.calls[p].stage = d.stage
    OBVIOUS
  <2>1. PICK i \in DOMAIN mine : id = mine[i].id
    BY <1>3
  <2>2. PICK p \in 1 .. n : mine[i] = L.calls[p] /\ L.calls[p].stage = d.stage
    BY <1>4, <1>5
  <2> QED
    BY <2>1, <2>2
<1>9. d.stage \in Degradable /\ d.stage \in LeftOut(L)
  BY <1>6 DEF LeftOut
<1> QED
  BY <1>2, <1>7, <1>8, <1>9 DEF KeepsIds

\* What is excluded from the answers.
LEMMA ExcludedIds ==
    ASSUME NEW L, NEW f, NEW n, Good(L, f, n), NEW p \in 1 .. Len(L.calls)
    PROVE  L.calls[p].id \in Excluded(L) <=>
               \/ \E r \in ToSet(L.rows) : Plain(r) /\ r.failed = L.calls[p].id
               \/ p = n + 1
               \/ L.calls[p].end = "changed" /\ \E r \in ToSet(L.rows) : Plain(r) /\ r.retry = L.calls[p].id
               \/ L.calls[p].stage \in LeftOut(L) /\ p <= n
<1>1. L.calls \in Seq(Call) /\ DOMAIN L.calls = 1 .. Len(L.calls) /\ n \in Nat /\ n <= Len(L.calls) /\ Len(L.calls) \in Nat
      /\ (n = Len(L.calls) \/ n + 1 = Len(L.calls))
  BY GoodParts
<1>2. L.calls[p].id \in Excluded(L) <=>
               \/ \E r \in ToSet(L.rows) : r.reason # "numbers" /\ r.failed = L.calls[p].id
               \/ \E r \in ToSet(L.rows) : /\ r.retry = L.calls[p].id
                                           /\ r.reason = "numbers" \/ r.retry \in {c.id : c \in {c \in ToSet(L.calls) : c.end = "changed"}}
               \/ \E d \in ToSet(L.left) : L.calls[p].id \in ToSet(d.ids)
  BY DEF Excluded
<1>3. L.calls[p].id \in {c.id : c \in {c \in ToSet(L.calls) : c.end = "changed"}} <=> L.calls[p].end = "changed"
  <2>1. L.calls[p] \in ToSet(L.calls)
    BY <1>1, ToSetIndex
  <2>2. \A c \in ToSet(L.calls) : c.id = L.calls[p].id => c = L.calls[p]
    BY <1>1, ToSetIndex, GoodIds
  <2> QED
    BY <2>1, <2>2
<1>4. (\E r \in ToSet(L.rows) : ~Plain(r) /\ r.retry = L.calls[p].id) <=> p = n + 1
  <2>1. ASSUME NEW r \in ToSet(L.rows), ~Plain(r), r.retry = L.calls[p].id PROVE p = n + 1
    <3>1. RepairRow(L, n, r)
      BY <2>1 DEF Good, RepairLast
    <3>2. r.retry # NoCall
      BY <2>1, GoodIds
    <3>3. n + 1 = Len(L.calls) /\ r.retry = L.calls[n + 1].id
      BY <3>1, <3>2 DEF RepairRow
    <3>4. n + 1 \in 1 .. Len(L.calls)
      BY <1>1, <3>3
    <3> QED
      BY <2>1, <3>3, <3>4, GoodIds
  <2>2. ASSUME p = n + 1 PROVE \E r \in ToSet(L.rows) : ~Plain(r) /\ r.retry = L.calls[p].id
    <3>1. n # Len(L.calls)
      BY <1>1, <2>2
    <3>2. PICK r \in ToSet(L.rows) : ~Plain(r)
      BY <3>1 DEF Good, RepairLast
    <3>3. RepairRow(L, n, r)
      BY <3>2 DEF Good, RepairLast
    <3> QED
      BY <2>2, <3>1, <3>2, <3>3 DEF RepairRow
  <2> QED
    BY <2>1, <2>2
<1>5. (\E d \in ToSet(L.left) : L.calls[p].id \in ToSet(d.ids)) <=> L.calls[p].stage \in LeftOut(L) /\ p <= n
  <2>1. ASSUME NEW d \in ToSet(L.left), L.calls[p].id \in ToSet(d.ids) PROVE L.calls[p].stage \in LeftOut(L) /\ p <= n
    <3>1. PICK q \in 1 .. n : L.calls[p].id = L.calls[q].id /\ L.calls[q].stage = d.stage
      <4>1. KeepsIds(L, n, d)
        BY LeftIds
      <4> QED
        BY <2>1, <4>1 DEF KeepsIds
    <3>2. q \in 1 .. Len(L.calls)
      BY <1>1
    <3>3. p = q
      BY <3>1, <3>2, GoodIds
    <3>4. d.stage \in LeftOut(L)
      BY LeftIds
    <3> QED
      BY <1>1, <3>1, <3>3, <3>4
  <2>2. ASSUME L.calls[p].stage \in LeftOut(L), p <= n PROVE \E d \in ToSet(L.left) : L.calls[p].id \in ToSet(d.ids)
    <3>1. PICK d \in ToSet(L.left) : d.stage = L.calls[p].stage
      BY <2>2 DEF LeftOut
    <3>2. p \in 1 .. n
      BY <1>1, <2>2
    <3>3. KeepsIds(L, n, d)
      BY LeftIds
    <3> QED
      BY <3>1, <3>2, <3>3 DEF KeepsIds
  <2> QED
    BY <2>1, <2>2
<1>6. (\E r \in ToSet(L.rows) : /\ r.retry = L.calls[p].id
                                /\ r.reason = "numbers" \/ r.retry \in {c.id : c \in {c \in ToSet(L.calls) : c.end = "changed"}})
      <=> \/ \E r \in ToSet(L.rows) : ~Plain(r) /\ r.retry = L.calls[p].id
          \/ L.calls[p].end = "changed" /\ \E r \in ToSet(L.rows) : r.retry = L.calls[p].id
  BY <1>3 DEF Plain
<1>7. (\E r \in ToSet(L.rows) : r.retry = L.calls[p].id) <=>
      \/ \E r \in ToSet(L.rows) : ~Plain(r) /\ r.retry = L.calls[p].id
      \/ \E r \in ToSet(L.rows) : Plain(r) /\ r.retry = L.calls[p].id
  OBVIOUS
<1>8. (\E r \in ToSet(L.rows) : r.reason # "numbers" /\ r.failed = L.calls[p].id) <=>
      \E r \in ToSet(L.rows) : Plain(r) /\ r.failed = L.calls[p].id
  BY DEF Plain
<1> QED
  BY <1>2, <1>4, <1>5, <1>6, <1>7, <1>8

\* An answer that is not excluded is the last of its block, at a stage that is
\* not left out.
LEMMA CandidateStands ==
    ASSUME NEW L, NEW f, NEW n, Good(L, f, n), NEW p \in 1 .. Len(L.calls), L.calls[p].id \notin Excluded(L)
    PROVE  Stands(L, n, p)
<1>1. n \in Nat /\ n <= Len(L.calls) /\ Len(L.calls) \in Nat /\ (n = Len(L.calls) \/ n + 1 = Len(L.calls))
  BY GoodParts
<1>2. /\ ~ \E r \in ToSet(L.rows) : Plain(r) /\ r.failed = L.calls[p].id
      /\ p # n + 1
      /\ ~(L.calls[p].stage \in LeftOut(L) /\ p <= n)
  BY ExcludedIds
<1>3. p \in 1 .. n
  BY <1>1, <1>2
<1>4. Ends(L, n, p)
  BY <1>2, <1>3, FollowedFailed
<1>5. L.calls[p].stage \notin LeftOut(L)
  BY <1>2, <1>3
<1> QED
  BY <1>3, <1>4, <1>5 DEF Stands

\* An accepted answer, or a refused report, is not excluded.
LEMMA AcceptedStands ==
    ASSUME NEW L, NEW f, NEW n, Good(L, f, n), NEW p \in 1 .. n,
           L.calls[p].end \in {"valid", "numbers", "misfit", "overrun"}, L.calls[p].stage \notin LeftOut(L)
    PROVE  L.calls[p].id \notin Excluded(L) /\ Stands(L, n, p)
<1>1. n \in Nat /\ n <= Len(L.calls) /\ Len(L.calls) \in Nat /\ p \in 1 .. Len(L.calls) /\ p # n + 1
  BY GoodParts
<1>2. ~ \E r \in ToSet(L.rows) : Plain(r) /\ r.failed = L.calls[p].id
  BY <1>1, FailedEnds
<1>3. L.calls[p].id \notin Excluded(L)
  BY <1>1, <1>2, ExcludedIds
<1> QED
  BY <1>1, <1>3, CandidateStands

\* A stage before the frontier that is not left out has its accepted answer.
LEMMA SettledCall ==
    ASSUME NEW L, NEW f, NEW n, Good(L, f, n), NEW s \in 1 .. f - 1, s \notin LeftOut(L)
    PROVE  \E p \in 1 .. n : /\ L.calls[p].stage = s /\ L.calls[p].end = "valid"
                             /\ L.calls[p].id \notin Excluded(L) /\ Stands(L, n, p)
<1>1. PICK p \in 1 .. n : L.calls[p].stage = s /\ L.calls[p].end = "valid"
  BY DEF Good, Settled
<1>2. L.calls[p].id \notin Excluded(L) /\ Stands(L, n, p)
  BY <1>1, AcceptedStands
<1> QED
  BY <1>1, <1>2

\* A stage has at most one last call.
LEMMA OneStands ==
    ASSUME NEW L, NEW f, NEW n, Good(L, f, n), NEW p, NEW q, Stands(L, n, p), Stands(L, n, q),
           L.calls[p].stage = L.calls[q].stage
    PROVE  p = q
<1>1. p \in 1 .. n /\ q \in 1 .. n /\ Ends(L, n, p) /\ Ends(L, n, q)
  BY DEF Stands
<1>2. n \in Nat /\ n <= Len(L.calls) /\ Len(L.calls) \in Nat
  BY GoodParts
<1>3. L.calls[p].stage \in Nat
  <2>1. L.calls[p] \in Call
    BY <1>1, <1>2, GoodParts
  <2> QED
    BY <2>1, CallParts
<1>4. ~(p < q)
  <2>1. p < q => L.calls[p].stage < L.calls[q].stage
    BY <1>1, StandsOrder
  <2> QED
    BY <1>3, <2>1
<1>5. ~(q < p)
  <2>1. q < p => L.calls[q].stage < L.calls[p].stage
    BY <1>1, StandsOrder
  <2> QED
    BY <1>3, <2>1
<1> QED
  BY <1>1, <1>2, <1>4, <1>5

\* The last call at the frontier is the last of all blocks.
LEMMA FrontierLast ==
    ASSUME NEW L, NEW f, NEW n, Good(L, f, n), NEW p \in 1 .. n, Ends(L, n, p), L.calls[p].stage = f
    PROVE  p = n
<1>1. n \in Nat /\ n <= Len(L.calls) /\ Len(L.calls) \in Nat /\ f \in Nat
  BY GoodParts
<1>2. CASE p < n
  <2>1. n \in 1 .. n
    BY <1>1, <1>2
  <2>2. f < L.calls[n].stage
    BY <1>2, <2>1, StandsOrder
  <2>3. L.calls[n].stage <= f /\ L.calls[n] \in Call
    BY <1>1, <2>1, GoodParts DEF Good, Sorted
  <2>4. L.calls[n].stage \in Nat
    BY <2>3, CallParts
  <2> QED
    BY <1>1, <2>2, <2>3, <2>4
<1> QED
  BY <1>1, <1>2

---------------------------------------------------------------------------
(* Attempts. *)

\* Two rows of a stage are the transport failure and what followed it.
LEMMA TwoRows ==
    ASSUME NEW L, NEW f, NEW n, Good(L, f, n), NEW i \in DOMAIN L.rows, NEW j \in DOMAIN L.rows, i < j,
           L.rows[i].stage = L.rows[j].stage, Plain(L.rows[j])
    PROVE  /\ L.rows[i].reason = "transport" /\ L.rows[j].reason \in Chained
           /\ L.rows[i].retry # NoCall /\ L.rows[i].retry = L.rows[j].failed
BY DEF Good, StateValid, Plain

\* No block has more than three calls.
LEMMA ThreeCalls ==
    ASSUME NEW L, NEW f, NEW n, Good(L, f, n), NEW i \in 1 .. n, i > 3,
           L.calls[i - 1].stage = L.calls[i].stage, L.calls[i - 2].stage = L.calls[i].stage,
           L.calls[i - 3].stage = L.calls[i].stage
    PROVE  FALSE
<1>1. n \in Nat /\ n <= Len(L.calls) /\ Len(L.calls) \in Nat
  BY GoodParts
<1>2. ASSUME NEW j \in 1 .. n, NEW h \in 1 .. n, h = j - 1, L.calls[h].stage = L.calls[i].stage,
             L.calls[j].stage = L.calls[i].stage
      PROVE  \E k \in DOMAIN L.rows : /\ Plain(L.rows[k]) /\ L.rows[k].failed = L.calls[h].id
                                      /\ L.rows[k].retry = L.calls[j].id /\ L.rows[k].stage = L.calls[i].stage
  <2>1. Linked(L, n)
    BY DEF Good
  <2>2. j # 1
    BY <1>1, <1>2
  <2>3. PICK r \in ToSet(L.rows) : Plain(r) /\ r.failed = L.calls[j - 1].id /\ r.retry = L.calls[j].id
    BY <1>2, <2>1, <2>2 DEF Linked
  <2>4. r.stage = L.calls[i].stage
    BY <1>2, <2>3, GrantingRow
  <2>5. PICK k \in DOMAIN L.rows : L.rows[k] = r
    BY GoodParts, ToSetIndex
  <2> QED
    BY <1>2, <2>3, <2>4, <2>5
<1>3. PICK p \in 1 .. n, q \in 1 .. n, o \in 1 .. n : p = i - 1 /\ q = i - 2 /\ o = i - 3
  BY <1>1
<1>4. p = i - 1 /\ q = p - 1 /\ o = q - 1
  BY <1>1, <1>3
<1>5. L.calls[p].stage = L.calls[i].stage /\ L.calls[q].stage = L.calls[i].stage /\ L.calls[o].stage = L.calls[i].stage
  BY <1>3
<1>6. PICK a \in DOMAIN L.rows : /\ Plain(L.rows[a]) /\ L.rows[a].failed = L.calls[p].id
                                 /\ L.rows[a].retry = L.calls[i].id /\ L.rows[a].stage = L.calls[i].stage
  BY <1>2, <1>4, <1>5
<1>7. PICK b \in DOMAIN L.rows : /\ Plain(L.rows[b]) /\ L.rows[b].failed = L.calls[q].id
                                 /\ L.rows[b].retry = L.calls[p].id /\ L.rows[b].stage = L.calls[i].stage
  BY <1>2, <1>4, <1>5
<1>8. PICK c \in DOMAIN L.rows : /\ Plain(L.rows[c]) /\ L.rows[c].failed = L.calls[o].id
                                 /\ L.rows[c].retry = L.calls[q].id /\ L.rows[c].stage = L.calls[i].stage
  BY <1>2, <1>4, <1>5
<1>9. L.calls[i].id # L.calls[p].id /\ L.calls[i].id # L.calls[q].id /\ L.calls[p].id # L.calls[q].id
  <2>1. PICK m \in Nat : m = Len(L.calls) /\ n <= m
    BY <1>1
  <2>2. i \in Nat /\ i # p /\ i # q /\ p # q
    BY <1>1, <1>4
  <2>3. i \in 1 .. m /\ p \in 1 .. m /\ q \in 1 .. m
    BY <1>1, <2>1
  <2> QED
    BY <2>1, <2>2, <2>3, GoodIds
<1>10. a # b /\ a # c /\ b # c
  BY <1>6, <1>7, <1>8, <1>9
<1>11. a \in Nat /\ b \in Nat /\ c \in Nat
  <2>1. PICK m \in Nat : DOMAIN L.rows = 1 .. m
    BY GoodParts
  <2>2. a \in 1 .. m /\ b \in 1 .. m /\ c \in 1 .. m
    BY <2>1, Zenon
  <2> QED
    BY <2>2
<1>12. ASSUME NEW j \in {a, b, c}, NEW k \in {a, b, c}, j < k
       PROVE  L.rows[j].reason = "transport" /\ L.rows[k].reason \in Chained
  <2>1. j \in DOMAIN L.rows /\ k \in DOMAIN L.rows
    OBVIOUS
  <2>2. L.rows[j].stage = L.rows[k].stage /\ Plain(L.rows[k])
    BY <1>6, <1>7, <1>8
  <2> QED
    BY <1>12, <2>1, <2>2, TwoRows
<1>13. "transport" \notin Chained
  BY DEF Chained
<1> QED
  BY <1>10, <1>11, <1>12, <1>13

\* The failed calls before a call, one step back.
LEMMA BeforeCall ==
    ASSUME NEW L, NEW f, NEW n, Good(L, f, n), NEW i \in 1 .. n, NEW ids, L.calls[i].id \in ids,
           \A id \in ids : id = L.calls[i].id \/ \E j \in 1 .. n : id = L.calls[j].id /\ j > i /\
                L.calls[j].stage = L.calls[i].stage /\ L.calls[j - 1].id \in ids
    PROVE  Before(L.rows, ids) = ids \union (IF i > 1 /\ L.calls[i - 1].stage = L.calls[i].stage
                                             THEN {L.calls[i - 1].id} ELSE {})
<1>1. n \in Nat /\ n <= Len(L.calls) /\ Len(L.calls) \in Nat
  BY GoodParts
<1>2. PICK B : B = {r.failed : r \in {q \in ToSet(L.rows) : q.reason # "numbers" /\ q.retry \in ids}}
  OBVIOUS
<1>3. Before(L.rows, ids) = ids \union B
  BY <1>2 DEF Before
<1>4. ASSUME NEW id \in B PROVE id \in ids \/ (i > 1 /\ L.calls[i - 1].stage = L.calls[i].stage /\ id = L.calls[i - 1].id)
  <2>1. PICK r \in ToSet(L.rows) : Plain(r) /\ r.retry \in ids /\ id = r.failed
    BY <1>2, <1>4 DEF Plain
  <2>2. CASE r.retry = L.calls[i].id
    BY <2>1, <2>2, GrantingRow
  <2>3. CASE \E j \in 1 .. n : r.retry = L.calls[j].id /\ j > i /\ L.calls[j - 1].id \in ids
    <3>1. PICK j \in 1 .. n : r.retry = L.calls[j].id /\ L.calls[j - 1].id \in ids
      BY <2>3
    <3>2. r.failed = L.calls[j - 1].id
      BY <2>1, <3>1, GrantingRow
    <3> QED
      BY <2>1, <3>1, <3>2
  <2> QED
    BY <2>1, <2>2, <2>3
<1>5. ASSUME i > 1, L.calls[i - 1].stage = L.calls[i].stage PROVE L.calls[i - 1].id \in B
  <2>1. PICK r \in ToSet(L.rows) : Plain(r) /\ r.failed = L.calls[i - 1].id /\ r.retry = L.calls[i].id
    BY <1>5 DEF Good, Linked
  <2> QED
    BY <1>2, <2>1 DEF Plain
<1> QED
  BY <1>3, <1>4, <1>5

---------------------------------------------------------------------------
(* The block of a call, and the attempts in it. *)

\* The calls from q to i are those of the block of i so far, and all of its chain.
Block(L, q, i) ==
    /\ q \in 1 .. i /\ (q = 1 \/ L.calls[q - 1].stage # L.calls[i].stage)
    /\ \A j \in q .. i : L.calls[j].stage = L.calls[i].stage
    /\ Chain(L.rows, L.calls[i].id) = {L.calls[j].id : j \in q .. i}
    /\ TagProven(L, L.calls[i])

\* A set of two elements.
LEMMA PairSize ==
    ASSUME NEW a, NEW b, a # b
    PROVE  IsFiniteSet({a, b}) /\ Cardinality({a, b}) = 2
<1>1. {a, b} = {a} \union {b} /\ b \notin {a}
  OBVIOUS
<1>2. IsFiniteSet({a}) /\ Cardinality({a}) = 1
  BY FS_Singleton
<1>3. IsFiniteSet({a} \union {b}) /\ Cardinality({a} \union {b}) = Cardinality({a}) + 1
  BY <1>1, <1>2, FS_AddElement
<1>4. Cardinality({a}) + 1 = 2
  BY <1>2
<1> QED
  BY <1>1, <1>3, <1>4, Zenon

\* A set of three elements.
LEMMA TripleSize ==
    ASSUME NEW a, NEW b, NEW c, a # b, a # c, b # c
    PROVE  Cardinality({a, b, c}) = 3
<1>1. {a, b, c} = {a, b} \union {c} /\ c \notin {a, b}
  OBVIOUS
<1>2. IsFiniteSet({a, b}) /\ Cardinality({a, b}) = 2
  BY PairSize
<1>3. Cardinality({a, b} \union {c}) = Cardinality({a, b}) + 1
  BY <1>1, <1>2, FS_AddElement
<1>4. Cardinality({a, b}) + 1 = 3
  BY <1>2
<1> QED
  BY <1>1, <1>3, <1>4, Zenon

\* The first call of a block has no call before it.
LEMMA FirstOfBlock ==
    ASSUME NEW L, NEW f, NEW n, Good(L, f, n), NEW i \in 1 .. n, i = 1 \/ L.calls[i - 1].stage # L.calls[i].stage
    PROVE  Block(L, i, i) /\ L.calls[i].attempt = 1
<1>1. n \in Nat /\ i \in Nat
  BY GoodParts
<1>2. L.calls[i].attempt = 1
  BY DEF Good, Linked
<1>3. PICK a : a = L.calls[i].id
  OBVIOUS
<1>4. Before(L.rows, {a}) = {a}
  <2>1. ~(i > 1 /\ L.calls[i - 1].stage = L.calls[i].stage)
    BY <1>1
  <2>2. Before(L.rows, {a}) = {a} \union (IF i > 1 /\ L.calls[i - 1].stage = L.calls[i].stage
                                           THEN {L.calls[i - 1].id} ELSE {})
    BY <1>3, BeforeCall
  <2> QED
    BY <2>1, <2>2
<1>5. Chain(L.rows, a) = {a}
  BY <1>4 DEF Chain
<1>6. TagProven(L, L.calls[i])
  BY <1>2, <1>3, <1>5, FS_Singleton DEF TagProven
<1>7. i .. i = {i}
  BY <1>1
<1>8. Chain(L.rows, a) = {L.calls[j].id : j \in i .. i}
  BY <1>3, <1>5, <1>7
<1> QED
  BY <1>1, <1>2, <1>3, <1>6, <1>7, <1>8 DEF Block

\* The second call of a block goes back to the first.
LEMMA SecondOfBlock ==
    ASSUME NEW L, NEW f, NEW n, Good(L, f, n), NEW i \in 1 .. n, NEW p \in 1 .. n, p = i - 1,
           L.calls[p].stage = L.calls[i].stage, p = 1 \/ L.calls[p - 1].stage # L.calls[p].stage
    PROVE  Block(L, p, i) /\ L.calls[i].attempt = 2
<1>1. n \in Nat /\ i \in Nat /\ p \in Nat /\ i > 1 /\ i - 1 = p /\ i # p /\ n <= Len(L.calls) /\ Len(L.calls) \in Nat
  BY GoodParts
<1>2. L.calls[p].attempt = 1
  BY FirstOfBlock
<1>3. L.calls[i].attempt = 2
  BY <1>1, <1>2 DEF Good, Linked
<1>4. PICK a, b : a = L.calls[i].id /\ b = L.calls[p].id
  OBVIOUS
<1>5. a # b
  <2>1. i \in 1 .. Len(L.calls) /\ p \in 1 .. Len(L.calls)
    BY <1>1
  <2> QED
    BY <1>1, <1>4, <2>1, GoodIds
<1>6. Before(L.rows, {a}) = {a, b}
  <2>1. i > 1 /\ L.calls[i - 1].stage = L.calls[i].stage /\ L.calls[i - 1].id = b
    BY <1>1, <1>4
  <2>2. Before(L.rows, {a}) = {a} \union (IF i > 1 /\ L.calls[i - 1].stage = L.calls[i].stage
                                           THEN {L.calls[i - 1].id} ELSE {})
    BY <1>4, BeforeCall
  <2> QED
    BY <2>1, <2>2
<1>7. Before(L.rows, {a, b}) = {a, b}
  <2>1. ~(p > 1 /\ L.calls[p - 1].stage = L.calls[p].stage)
    BY <1>1
  <2>2. \A id \in {a, b} : id = L.calls[p].id \/ \E j \in 1 .. n : id = L.calls[j].id /\ j > p /\
                L.calls[j].stage = L.calls[p].stage /\ L.calls[j - 1].id \in {a, b}
    <3>1. a = L.calls[i].id /\ i > p /\ L.calls[i].stage = L.calls[p].stage /\ L.calls[i - 1].id \in {a, b}
      BY <1>1, <1>4
    <3> QED
      BY <1>4, <3>1
  <2>3. Before(L.rows, {a, b}) = {a, b} \union (IF p > 1 /\ L.calls[p - 1].stage = L.calls[p].stage
                                           THEN {L.calls[p - 1].id} ELSE {})
    BY <1>4, <2>2, BeforeCall
  <2> QED
    BY <2>1, <2>3
<1>8. Chain(L.rows, a) = {a, b}
  BY <1>6, <1>7 DEF Chain
<1>9. TagProven(L, L.calls[i])
  <2>1. Cardinality({a, b}) = 2
    BY <1>5, PairSize
  <2> QED
    BY <1>3, <1>4, <1>8, <2>1, Zenon DEF TagProven
<1>10. p .. i = {p, i}
  BY <1>1
<1>11. Chain(L.rows, a) = {L.calls[j].id : j \in p .. i}
  BY <1>4, <1>8, <1>10
<1>12. p \in 1 .. i /\ (p = 1 \/ L.calls[p - 1].stage # L.calls[i].stage)
       /\ \A j \in p .. i : L.calls[j].stage = L.calls[i].stage
  BY <1>1, <1>10
<1> QED
  BY <1>3, <1>4, <1>9, <1>11, <1>12 DEF Block

\* The third call of a block goes back to the first.
LEMMA ThirdOfBlock ==
    ASSUME NEW L, NEW f, NEW n, Good(L, f, n), NEW i \in 1 .. n, NEW p \in 1 .. n, NEW q \in 1 .. n,
           p = i - 1, q = p - 1, L.calls[p].stage = L.calls[i].stage, L.calls[q].stage = L.calls[i].stage
    PROVE  Block(L, q, i)
<1>1. n \in Nat /\ i \in Nat /\ p \in Nat /\ q \in Nat /\ i > 1 /\ i - 1 = p /\ p > 1 /\ p - 1 = q
      /\ i # p /\ p # q /\ i # q /\ n <= Len(L.calls) /\ Len(L.calls) \in Nat
  BY GoodParts
<1>2. q = 1 \/ L.calls[q - 1].stage # L.calls[q].stage
  <2> SUFFICES ASSUME q # 1, L.calls[q - 1].stage = L.calls[q].stage PROVE FALSE
    OBVIOUS
  <2>1. i > 3 /\ i - 2 = q /\ i - 3 = q - 1
    BY <1>1
  <2>2. L.calls[i - 1].stage = L.calls[i].stage /\ L.calls[i - 2].stage = L.calls[i].stage
    BY <1>1, <2>1, Zenon
  <2>3. L.calls[i - 3].stage = L.calls[i].stage
    BY <2>1, Zenon
  <2> QED
    BY <2>1, <2>2, <2>3, ThreeCalls
<1>3. L.calls[p].attempt = 2
  BY <1>1, <1>2, SecondOfBlock
<1>4. L.calls[i].attempt = 3
  BY <1>1, <1>3 DEF Good, Linked
<1>5. PICK a, b, c : a = L.calls[i].id /\ b = L.calls[p].id /\ c = L.calls[q].id
  OBVIOUS
<1>6. a # b /\ a # c /\ b # c
  <2>1. i \in 1 .. Len(L.calls) /\ p \in 1 .. Len(L.calls) /\ q \in 1 .. Len(L.calls)
    BY <1>1
  <2> QED
    BY <1>1, <1>5, <2>1, GoodIds
<1>7. Before(L.rows, {a}) = {a, b}
  <2>1. i > 1 /\ L.calls[i - 1].stage = L.calls[i].stage /\ L.calls[i - 1].id = b
    BY <1>1, <1>5
  <2>2. Before(L.rows, {a}) = {a} \union (IF i > 1 /\ L.calls[i - 1].stage = L.calls[i].stage
                                           THEN {L.calls[i - 1].id} ELSE {})
    BY <1>5, BeforeCall
  <2> QED
    BY <2>1, <2>2
<1>8. Before(L.rows, {a, b}) = {a, b, c}
  <2>1. p > 1 /\ L.calls[p - 1].stage = L.calls[p].stage /\ L.calls[p - 1].id = c
    BY <1>1, <1>5
  <2>2. \A id \in {a, b} : id = L.calls[p].id \/ \E j \in 1 .. n : id = L.calls[j].id /\ j > p /\
                L.calls[j].stage = L.calls[p].stage /\ L.calls[j - 1].id \in {a, b}
    <3>1. a = L.calls[i].id /\ i > p /\ L.calls[i].stage = L.calls[p].stage /\ L.calls[i - 1].id \in {a, b}
      BY <1>1, <1>5
    <3> QED
      BY <1>5, <3>1
  <2>3. Before(L.rows, {a, b}) = {a, b} \union (IF p > 1 /\ L.calls[p - 1].stage = L.calls[p].stage
                                           THEN {L.calls[p - 1].id} ELSE {})
    BY <1>5, <2>2, BeforeCall
  <2> QED
    BY <2>1, <2>3
<1>9. Chain(L.rows, a) = {a, b, c}
  BY <1>7, <1>8 DEF Chain
<1>10. TagProven(L, L.calls[i])
  <2>1. Cardinality({a, b, c}) = 3
    BY <1>6, TripleSize
  <2> QED
    BY <1>4, <1>5, <1>9, <2>1, Zenon DEF TagProven
<1>11. q .. i = {q, p, i}
  <2>1. i = q + 2 /\ p = q + 1
    BY <1>1
  <2>2. \A j \in Nat : q <= j /\ j <= i <=> j = q \/ j = p \/ j = i
    BY <1>1, <2>1
  <2>3. \A j : j \in q .. i <=> j \in Nat /\ q <= j /\ j <= i
    BY <1>1
  <2>4. q \in Nat /\ p \in Nat /\ i \in Nat
    BY <1>1
  <2> QED
    BY <2>2, <2>3, <2>4
<1>12. Chain(L.rows, a) = {L.calls[j].id : j \in q .. i}
  BY <1>5, <1>9, <1>11
<1>13. q \in 1 .. i /\ (q = 1 \/ L.calls[q - 1].stage # L.calls[i].stage)
       /\ \A j \in q .. i : L.calls[j].stage = L.calls[i].stage
  <2>1. q \in 1 .. i
    BY <1>1
  <2>2. \A j \in {q, p, i} : L.calls[j].stage = L.calls[i].stage
    OBVIOUS
  <2>3. q = 1 \/ L.calls[q - 1].stage # L.calls[i].stage
    BY <1>2, Zenon
  <2> QED
    BY <1>11, <2>1, <2>2, <2>3, Zenon
<1> QED
  BY <1>5, <1>10, <1>12, <1>13 DEF Block

\* Every call of a block has the attempt that its failures before it prove.
LEMMA BlockOf ==
    ASSUME NEW L, NEW f, NEW n, Good(L, f, n), NEW i \in 1 .. n
    PROVE  \E q \in 1 .. n : Block(L, q, i)
<1>1. n \in Nat
  BY GoodParts
<1>2. CASE i = 1 \/ L.calls[i - 1].stage # L.calls[i].stage
  BY <1>2, FirstOfBlock
<1>3. CASE i # 1 /\ L.calls[i - 1].stage = L.calls[i].stage
  <2>1. PICK p \in 1 .. n : p = i - 1
    BY <1>1, <1>3
  <2>2. L.calls[p].stage = L.calls[i].stage
    BY <1>3, <2>1, Zenon
  <2>3. CASE p = 1 \/ L.calls[p - 1].stage # L.calls[p].stage
    BY <2>1, <2>2, <2>3, SecondOfBlock
  <2>4. CASE p # 1 /\ L.calls[p - 1].stage = L.calls[p].stage
    <3>1. PICK q \in 1 .. n : q = p - 1
      BY <1>1, <2>4
    <3>2. L.calls[q].stage = L.calls[i].stage
      BY <2>2, <2>4, <3>1, Zenon
    <3> QED
      BY <2>1, <2>2, <3>1, <3>2, ThirdOfBlock
  <2> QED
    BY <2>3, <2>4
<1> QED
  BY <1>2, <1>3

---------------------------------------------------------------------------
(* The stages that are not left out, and the answers in their order. *)

\* The order lists the stages that are not left out.
Lists(order, out) ==
    /\ order \in Seq(Nat) /\ \A i \in 1 .. Len(order) : order[i] \in Stage \ out
    /\ \A i, j \in 1 .. Len(order) : i < j => order[i] < order[j]
    /\ \A s \in Stage \ out : \E i \in 1 .. Len(order) : order[i] = s

\* Order() is that list.
LEMMA OrderLists ==
    ASSUME NEW L
    PROVE  Lists(Order(L), LeftOut(L))
<1>1. PICK s : s = [t \in Stage |-> t]
  OBVIOUS
<1>2. PICK m \in Nat : m = LastStage
  BY StageAssumption
<1>3. s \in Seq(Nat) /\ DOMAIN s = 1 .. m /\ \A t \in 1 .. m : s[t] = t
  BY <1>1, <1>2 DEF Stage
<1>4. PICK order : order = Order(L)
  OBVIOUS
<1>5. order = Those(s, Stage \ LeftOut(L))
  BY <1>1, <1>4 DEF Order
<1>6. /\ order \in Seq(Nat)
      /\ \A i \in DOMAIN order : \E p \in DOMAIN s : order[i] = s[p] /\ s[p] \in Stage \ LeftOut(L)
      /\ \A p \in DOMAIN s : s[p] \in Stage \ LeftOut(L) => \E i \in DOMAIN order : order[i] = s[p]
      /\ \A i, j \in DOMAIN order : i < j => \E p, q \in DOMAIN s : p < q /\ order[i] = s[p] /\ order[j] = s[q]
  <2>1. order \in Seq(Nat) /\ Filters(order, s, Stage \ LeftOut(L))
    BY <1>3, <1>5, ThoseOrder
  <2> QED
    BY <2>1, Zenon DEF Filters
<1>7. DOMAIN order = 1 .. Len(order)
  BY <1>6
<1>8. \A i \in 1 .. Len(order) : order[i] \in Stage \ LeftOut(L)
  BY <1>6, <1>7
<1>9. \A i, j \in 1 .. Len(order) : i < j => order[i] < order[j]
  <2> SUFFICES ASSUME NEW i \in 1 .. Len(order), NEW j \in 1 .. Len(order), i < j PROVE order[i] < order[j]
    OBVIOUS
  <2>0. i \in DOMAIN order /\ j \in DOMAIN order
    BY <1>7, Zenon
  <2>1. PICK p, q \in DOMAIN s : p < q /\ order[i] = s[p] /\ order[j] = s[q]
    BY <1>6, <2>0, Zenon
  <2>2. s[p] = p /\ s[q] = q
    BY <1>3
  <2> QED
    BY <2>1, <2>2
<1>10. \A t \in Stage \ LeftOut(L) : \E i \in 1 .. Len(order) : order[i] = t
  <2> SUFFICES ASSUME NEW t \in Stage \ LeftOut(L) PROVE \E i \in 1 .. Len(order) : order[i] = t
    OBVIOUS
  <2>1. t \in DOMAIN s /\ s[t] = t
    BY <1>2, <1>3 DEF Stage
  <2> QED
    BY <1>6, <1>7, <2>1
<1> QED
  BY <1>4, <1>6, <1>8, <1>9, <1>10 DEF Lists

\* These calls are last calls of their blocks, and one is the answer of every
\* stage before the frontier that is not left out.
Answers(L, f, n, S) ==
    /\ \A p \in 1 .. Len(L.calls) : L.calls[p] \in S => Stands(L, n, p)
    /\ \A t \in 1 .. f - 1 : t \notin LeftOut(L) =>
          \E p \in 1 .. Len(L.calls) : L.calls[p] \in S /\ L.calls[p].stage = t

\* Their stages are the first of the order.
Agrees(rows, order) ==
    Len(rows) <= Len(order) /\ \A i \in 1 .. Len(rows) : rows[i].stage = order[i]

\* The selected calls, their places and the order of their stages.
Selected(L, n, S, rows) ==
    /\ rows \in Seq(Call) /\ DOMAIN rows = 1 .. Len(rows) /\ Len(rows) \in Nat
    /\ \A i \in 1 .. Len(rows) : \E p \in 1 .. Len(L.calls) :
          rows[i] = L.calls[p] /\ L.calls[p] \in S /\ Stands(L, n, p)
    /\ \A p \in 1 .. Len(L.calls) : L.calls[p] \in S => \E i \in 1 .. Len(rows) : rows[i] = L.calls[p]
    /\ \A i, j \in 1 .. Len(rows) : i < j =>
          \E p, q \in 1 .. n : p < q /\ rows[i] = L.calls[p] /\ rows[j] = L.calls[q] /\ rows[i].stage < rows[j].stage

\* What is selected of calls that stand.
LEMMA SelectedFacts ==
    ASSUME NEW L, NEW f, NEW n, Good(L, f, n), NEW S,
           \A p \in 1 .. Len(L.calls) : L.calls[p] \in S => Stands(L, n, p),
           NEW rows, rows = Those(L.calls, S)
    PROVE  Selected(L, n, S, rows)
<1>1. L.calls \in Seq(Call) /\ DOMAIN L.calls = 1 .. Len(L.calls)
  BY GoodParts
<1>2. /\ rows \in Seq(Call)
      /\ \A i \in DOMAIN rows : \E p \in DOMAIN L.calls : rows[i] = L.calls[p] /\ L.calls[p] \in S
      /\ \A p \in DOMAIN L.calls : L.calls[p] \in S => \E i \in DOMAIN rows : rows[i] = L.calls[p]
      /\ \A i, j \in DOMAIN rows : i < j =>
           \E p, q \in DOMAIN L.calls : p < q /\ rows[i] = L.calls[p] /\ rows[j] = L.calls[q]
  <2>1. rows \in Seq(Call) /\ Filters(rows, L.calls, S)
    BY <1>1, ThoseOrder
  <2> QED
    BY <2>1, Zenon DEF Filters
<1>3. DOMAIN rows = 1 .. Len(rows) /\ Len(rows) \in Nat
  BY <1>2
<1>4. ASSUME NEW i \in 1 .. Len(rows)
      PROVE  \E p \in 1 .. Len(L.calls) : rows[i] = L.calls[p] /\ L.calls[p] \in S /\ Stands(L, n, p)
  BY <1>1, <1>2, <1>3
<1>5. ASSUME NEW i \in 1 .. Len(rows), NEW j \in 1 .. Len(rows), i < j
      PROVE  \E p, q \in 1 .. n : p < q /\ rows[i] = L.calls[p] /\ rows[j] = L.calls[q] /\ rows[i].stage < rows[j].stage
  <2>0. i \in DOMAIN rows /\ j \in DOMAIN rows
    BY <1>3, Zenon
  <2>6. PICK p, q \in DOMAIN L.calls : p < q /\ rows[i] = L.calls[p] /\ rows[j] = L.calls[q]
    BY <1>2, <1>5, <2>0, Zenon
  <2>1. p \in 1 .. Len(L.calls) /\ q \in 1 .. Len(L.calls) /\ p < q /\ rows[i] = L.calls[p] /\ rows[j] = L.calls[q]
    BY <1>1, <2>6
  <2>2. PICK pp \in 1 .. Len(L.calls) : rows[i] = L.calls[pp] /\ Stands(L, n, pp)
    BY <1>4
  <2>3. PICK qq \in 1 .. Len(L.calls) : rows[j] = L.calls[qq] /\ Stands(L, n, qq)
    BY <1>4
  <2>4. p = pp /\ q = qq
    <3>1. L.calls[p].id = L.calls[pp].id /\ L.calls[q].id = L.calls[qq].id
      BY <2>1, <2>2, <2>3
    <3> QED
      BY <3>1, GoodIds
  <2>5. Stands(L, n, p) /\ Stands(L, n, q)
    BY <2>2, <2>3, <2>4
  <2>7. p \in 1 .. n /\ q \in 1 .. n /\ Ends(L, n, p)
    BY <2>5 DEF Stands
  <2>8. L.calls[p].stage < L.calls[q].stage
    BY <2>1, <2>7, StandsOrder
  <2> QED
    BY <2>1, <2>7, <2>8
<1>6. \A p \in 1 .. Len(L.calls) : L.calls[p] \in S => \E i \in 1 .. Len(rows) : rows[i] = L.calls[p]
  BY <1>1, <1>2, <1>3, Zenon
<1> QED
  BY <1>2, <1>3, <1>4, <1>5, <1>6, Zenon DEF Selected

\* The stages of such calls are the first ones of the order.
LEMMA StagesAgree ==
    ASSUME NEW L, NEW f, NEW n, Good(L, f, n), NEW S, Answers(L, f, n, S), NEW rows, rows = Those(L.calls, S)
    PROVE  Agrees(rows, Order(L))
<1>1. Selected(L, n, S, rows)
  BY SelectedFacts DEF Answers
<1>2. PICK order : order = Order(L)
  OBVIOUS
<1>3. Lists(order, LeftOut(L))
  BY <1>2, OrderLists
<1>4. PICK m \in Nat, k \in Nat : m = Len(rows) /\ k = Len(order)
  BY <1>1, <1>3 DEF Selected, Lists
<1>5. PICK a : a = [i \in 1 .. m |-> rows[i].stage]
  OBVIOUS
<1>6. \A i \in 1 .. m : a[i] = rows[i].stage /\ a[i] \in 1 .. LastStage
  <2> SUFFICES ASSUME NEW i \in 1 .. m PROVE a[i] = rows[i].stage /\ a[i] \in 1 .. LastStage
    OBVIOUS
  <2>1. rows[i] \in Call
    BY <1>1, <1>4 DEF Selected
  <2> QED
    BY <1>5, <2>1, CallParts
<1>7. \A i \in 1 .. m : a[i] \in Int
  BY <1>6
<1>8. \A j \in 1 .. k : order[j] \in Int
  BY <1>3, <1>4 DEF Lists
<1>9. \A i, j \in 1 .. m : i < j => a[i] < a[j]
  <2> SUFFICES ASSUME NEW i \in 1 .. m, NEW j \in 1 .. m, i < j PROVE a[i] < a[j]
    OBVIOUS
  <2>1. rows[i].stage < rows[j].stage
    BY <1>1, <1>4 DEF Selected
  <2> QED
    BY <1>6, <2>1
<1>10. \A i, j \in 1 .. k : i < j => order[i] < order[j]
  BY <1>3, <1>4 DEF Lists
<1>11. ASSUME NEW i \in 1 .. m
       PROVE  \E p \in 1 .. n : L.calls[p] = rows[i] /\ a[i] = L.calls[p].stage /\ a[i] <= f /\ a[i] \notin LeftOut(L)
  <2>1. PICK p \in 1 .. Len(L.calls) : rows[i] = L.calls[p] /\ Stands(L, n, p)
    BY <1>1, <1>4 DEF Selected
  <2>2. p \in 1 .. n /\ L.calls[p].stage \notin LeftOut(L)
    BY <2>1 DEF Stands
  <2>3. L.calls[p].stage <= f
    BY <2>2 DEF Good, Sorted
  <2> QED
    BY <1>6, <2>1, <2>2, <2>3
<1>12. \A i \in 1 .. m : \E j \in 1 .. k : a[i] = order[j]
  <2> SUFFICES ASSUME NEW i \in 1 .. m PROVE \E j \in 1 .. k : a[i] = order[j]
    OBVIOUS
  <2>1. a[i] \in Stage \ LeftOut(L)
    BY <1>6, <1>11 DEF Stage
  <2> QED
    BY <1>3, <1>4, <2>1 DEF Lists
<1>13. \A i \in 1 .. m : \A j \in 1 .. k : order[j] < a[i] => \E h \in 1 .. m : a[h] = order[j]
  <2> SUFFICES ASSUME NEW i \in 1 .. m, NEW j \in 1 .. k, order[j] < a[i] PROVE \E h \in 1 .. m : a[h] = order[j]
    OBVIOUS
  <2>1. order[j] \in Stage /\ order[j] \notin LeftOut(L)
    BY <1>3, <1>4 DEF Lists
  <2>2. order[j] \in Nat /\ a[i] \in Nat /\ f \in Nat /\ order[j] >= 1
    <3>1. LastStage \in Nat /\ f \in Nat
      BY GoodParts
    <3> QED
      BY <1>6, <2>1, <3>1 DEF Stage
  <2>3. a[i] <= f
    BY <1>11
  <2>4. order[j] \in 1 .. f - 1
    BY <2>2, <2>3
  <2>5. PICK p \in 1 .. Len(L.calls) : L.calls[p] \in S /\ L.calls[p].stage = order[j]
    BY <2>1, <2>4 DEF Answers
  <2>6. PICK h \in 1 .. m : rows[h] = L.calls[p]
    BY <1>1, <1>4, <2>5 DEF Selected
  <2> QED
    BY <1>6, <2>5, <2>6
<1>14. m <= k /\ \A i \in 1 .. m : a[i] = order[i]
  <2>1. Increases(a, m) /\ Increases(order, k)
    BY <1>7, <1>8, <1>9, <1>10, Zenon DEF Increases
  <2>2. Fills(a, m, order, k)
    BY <1>12, <1>13, Zenon DEF Fills
  <2>3. Fronts(a, m, order, k)
    BY <2>1, <2>2, IncreasingAgree
  <2> QED
    BY <2>3, Zenon DEF Fronts
<1>15. \A i \in 1 .. m : rows[i].stage = order[i]
  BY <1>6, <1>14
<1> QED
  BY <1>2, <1>4, <1>14, <1>15 DEF Agrees

\* The candidates of a resumed run are such calls.
LEMMA CandidatesAnswer ==
    ASSUME NEW L, NEW f, NEW n, Good(L, f, n), NEW S, S = {c \in Call : Answered(c) /\ c.id \notin Excluded(L)}
    PROVE  Answers(L, f, n, S) /\ Candidates(L) = Those(L.calls, S)
<1>1. Candidates(L) = Those(L.calls, S)
  BY DEF Candidates
<1>2. ASSUME NEW p \in 1 .. Len(L.calls), L.calls[p] \in S PROVE Stands(L, n, p)
  BY <1>2, CandidateStands
<1>3. ASSUME NEW t \in 1 .. f - 1, t \notin LeftOut(L)
      PROVE  \E p \in 1 .. Len(L.calls) : L.calls[p] \in S /\ L.calls[p].stage = t
  <2>1. PICK p \in 1 .. n : L.calls[p].stage = t /\ L.calls[p].end = "valid" /\ L.calls[p].id \notin Excluded(L)
    BY <1>3, SettledCall
  <2>2. p \in 1 .. Len(L.calls) /\ L.calls[p] \in Call
    BY GoodParts
  <2>3. L.calls[p] \in S
    BY <2>1, <2>2 DEF Answered
  <2> QED
    BY <2>1, <2>2, <2>3
<1> QED
  BY <1>1, <1>2, <1>3 DEF Answers

\* A resumed run reads the stages and the tags it expects.
LEMMA GoodOrdered ==
    ASSUME NEW L, NEW f, NEW n, Good(L, f, n)
    PROVE  Ordered(L)
<1>1. PICK S : S = {c \in Call : Answered(c) /\ c.id \notin Excluded(L)}
  OBVIOUS
<1>2. PICK rows : rows = Candidates(L)
  OBVIOUS
<1>3. Answers(L, f, n, S) /\ rows = Those(L.calls, S)
  BY <1>1, <1>2, CandidatesAnswer
<1>4. Selected(L, n, S, rows) /\ Agrees(rows, Order(L))
  BY <1>3, SelectedFacts, StagesAgree DEF Answers
<1>5. ASSUME NEW i \in DOMAIN rows PROVE rows[i].stage = Order(L)[i] /\ TagProven(L, rows[i])
  <2>1. i \in 1 .. Len(rows)
    BY <1>4 DEF Selected
  <2>2. PICK p \in 1 .. Len(L.calls) : rows[i] = L.calls[p] /\ Stands(L, n, p)
    BY <1>4, <2>1 DEF Selected
  <2>3. TagProven(L, L.calls[p])
    BY <2>2, BlockOf DEF Block, Stands
  <2> QED
    BY <1>4, <2>1, <2>2, <2>3 DEF Agrees
<1> QED
  BY <1>2, <1>5 DEF Ordered

---------------------------------------------------------------------------
(* The rows, and with them everything a resumed run asks of a receipt. *)

\* Every stage has been worked at, the last one up to its accepted answer or a
\* report with unbound numbers.
Done(L, f, n) == f = LastStage + 1 \/ (f = LastStage /\ Refused(L, n))

\* A call that failed once more after a row's was an answer.
LEMMA FailedAgain ==
    ASSUME NEW L, NEW f, NEW n, Good(L, f, n), NEW i \in 1 .. n, NEW j \in 1 .. n, j = i + 1,
           NEW r \in ToSet(L.rows), Plain(r), r.failed = L.calls[i].id, r.retry = L.calls[j].id,
           NEW q \in ToSet(L.rows), Plain(q), q.failed = L.calls[j].id
    PROVE  Answered(L.calls[j]) /\ L.calls[j].end # "changed"
<1>1. GrantedBy(L, f, n, q, j) /\ GrantedBy(L, f, n, r, i)
  <2>1. i \in 1 .. Len(L.calls) /\ j \in 1 .. Len(L.calls)
    <3>1. n \in Nat /\ n <= Len(L.calls) /\ Len(L.calls) \in Nat
      BY GoodParts
    <3> QED
      BY <3>1
  <2> QED
    BY <2>1, FailedEnds
<1>2. r.stage = q.stage /\ FailureReason(L.calls[j]) = q.reason
  <2>1. r.stage = L.calls[j].stage
    BY GrantingRow
  <2> QED
    BY <1>1, <2>1 DEF GrantedBy
<1>3. PICK a, b \in DOMAIN L.rows : L.rows[a] = r /\ L.rows[b] = q
  BY GoodParts, ToSetIndex
<1>4. PICK m \in Nat : DOMAIN L.rows = 1 .. m
  BY GoodParts
<1>5. a \in 1 .. m /\ b \in 1 .. m
  BY <1>4, Zenon
<1>6. L.calls[i].id # L.calls[j].id
  <2>1. i \in 1 .. Len(L.calls) /\ j \in 1 .. Len(L.calls) /\ i # j
    <3>1. n \in Nat /\ n <= Len(L.calls) /\ Len(L.calls) \in Nat
      BY GoodParts
    <3> QED
      BY <3>1
  <2> QED
    BY <2>1, GoodIds
<1>7. a # b
  BY <1>3, <1>6
<1>8. CASE a < b
  <2>1. q.reason \in Chained
    BY <1>2, <1>3, <1>8, TwoRows
  <2> QED
    BY <1>2, <2>1 DEF Chained, FailureReason, Answered
<1>9. CASE b < a
  <2>1. q.retry = r.failed
    BY <1>2, <1>3, <1>9, TwoRows
  <2>2. q.failed = L.calls[i - 1].id /\ i > 1
    BY <2>1, GrantingRow
  <2>3. n \in Nat /\ n <= Len(L.calls) /\ Len(L.calls) \in Nat
    BY GoodParts
  <2>4. PICK h \in Nat : h = i - 1
    BY <2>2
  <2>5. L.calls[h].id = L.calls[j].id
    BY <2>2, <2>4
  <2>6. h \in 1 .. Len(L.calls) /\ j \in 1 .. Len(L.calls) /\ h # j
    BY <2>2, <2>3, <2>4
  <2> QED
    BY <2>5, <2>6, GoodIds
<1>10. a < b \/ b < a
  BY <1>5, <1>7
<1> QED
  BY <1>8, <1>9, <1>10

\* When all is done, a call granted to a stage that is not left out was answered.
LEMMA RetryAnswered ==
    ASSUME NEW L, NEW f, NEW n, Good(L, f, n), Done(L, f, n), NEW i \in 1 .. n, NEW j \in 1 .. n, j = i + 1,
           NEW r \in ToSet(L.rows), Plain(r), r.failed = L.calls[i].id, r.retry = L.calls[j].id,
           L.calls[j].stage \notin LeftOut(L)
    PROVE  Answered(L.calls[j]) /\ L.calls[j].end # "changed"
<1>1. CASE ~Ends(L, n, j)
  <2>1. PICK q \in ToSet(L.rows) : Plain(q) /\ q.failed = L.calls[j].id
    BY <1>1, FollowedFailed
  <2> QED
    BY <2>1, FailedAgain
<1>2. CASE Ends(L, n, j)
  <2>1. Stands(L, n, j)
    BY <1>2 DEF Stands
  <2>2. L.calls[j].stage \in 1 .. LastStage /\ f \in Nat /\ LastStage \in Nat /\ L.calls[j].stage <= f
    <3>1. L.calls[j] \in Call
      BY GoodParts
    <3> QED
      BY <3>1, CallParts, GoodParts DEF Good, Sorted
  <2>3. CASE L.calls[j].stage = f
    <3>1. j = n
      BY <1>2, <2>3, FrontierLast
    <3>2. f # LastStage + 1
      BY <2>2, <2>3
    <3>3. Refused(L, n)
      BY <3>2 DEF Done
    <3> QED
      BY <3>1, <3>3 DEF Refused, Answered
  <2>4. CASE L.calls[j].stage # f
    <3>1. L.calls[j].stage \in 1 .. f - 1
      BY <2>2, <2>4
    <3>2. PICK p \in 1 .. n : L.calls[p].stage = L.calls[j].stage /\ L.calls[p].end = "valid" /\ Stands(L, n, p)
      BY <3>1, SettledCall
    <3>3. p = j
      BY <2>1, <3>2, OneStands
    <3> QED
      BY <3>2, <3>3 DEF Answered
  <2> QED
    BY <2>3, <2>4
<1> QED
  BY <1>1, <1>2

\* The attempt of a failed call follows from the row before its own, if any.
LEMMA AttemptFollows ==
    ASSUME NEW L, NEW f, NEW n, Good(L, f, n), NEW i \in 1 .. n, NEW depends,
           depends = {r \in ToSet(L.rows) : r.reason # "numbers" /\ r.retry = L.calls[i].id}
    PROVE  L.calls[i].attempt = 1 + (IF depends = {} THEN 0
                                     ELSE CallOf(L.calls, (CHOOSE r \in depends : TRUE).failed).attempt)
<1>1. n \in Nat /\ n <= Len(L.calls) /\ Len(L.calls) \in Nat
  BY GoodParts
<1>2. \A r \in depends : r \in ToSet(L.rows) /\ Plain(r) /\ r.retry = L.calls[i].id
  BY DEF Plain
<1>3. CASE i = 1 \/ L.calls[i - 1].stage # L.calls[i].stage
  <2>1. depends = {}
    <3>1. ASSUME NEW r \in depends PROVE FALSE
      <4>1. i > 1 /\ L.calls[i - 1].stage = L.calls[i].stage
        BY <1>2, <3>1, GrantingRow
      <4> QED
        BY <1>3, <4>1
    <3> QED
      BY <3>1
  <2>2. L.calls[i].attempt = 1
    BY <1>3, FirstOfBlock
  <2> QED
    BY <2>1, <2>2
<1>4. CASE i # 1 /\ L.calls[i - 1].stage = L.calls[i].stage
  <2>1. PICK h \in 1 .. n : h = i - 1
    BY <1>1, <1>4
  <2>2. L.calls[h].stage = L.calls[i].stage
    BY <1>4, <2>1, Zenon
  <2>3. /\ L.calls[i].attempt = L.calls[h].attempt + 1
        /\ \E r \in ToSet(L.rows) : Plain(r) /\ r.failed = L.calls[h].id /\ r.retry = L.calls[i].id
    BY <1>4, <2>1, <2>2 DEF Good, Linked
  <2>4. depends # {}
    BY <2>3 DEF Plain
  <2>5. PICK r : r = CHOOSE q \in depends : TRUE
    OBVIOUS
  <2>6. r \in depends
    BY <2>4, <2>5
  <2>7. r.failed = L.calls[i - 1].id
    BY <1>2, <2>6, GrantingRow
  <2>8. r.failed = L.calls[h].id
    BY <2>1, <2>7
  <2>9. h \in 1 .. Len(L.calls)
    BY <1>1, <2>1
  <2>10. CallOf(L.calls, r.failed) = L.calls[h]
    BY <2>8, <2>9, GoodIds
  <2>11. L.calls[h].attempt \in Nat
    <3>1. L.calls[h] \in Call
      BY <2>9, GoodParts
    <3> QED
      BY <3>1, CallParts
  <2>12. L.calls[i].attempt = 1 + L.calls[h].attempt
    BY <2>3, <2>11
  <2> QED
    BY <2>4, <2>5, <2>10, <2>12, Zenon
<1> QED
  BY <1>3, <1>4

\* A granted call is proven by the calls.
LEMMA PlainProven ==
    ASSUME NEW L, NEW f, NEW n, Good(L, f, n), NEW complete \in BOOLEAN, complete => Done(L, f, n),
           NEW r \in ToSet(L.rows), Plain(r)
    PROVE  RowProven(L, r, complete)
<1>1. PICK i \in 1 .. n : GrantedBy(L, f, n, r, i)
  BY RowPlace
<1>2. /\ n \in Nat /\ n <= Len(L.calls) /\ Len(L.calls) \in Nat /\ f \in Nat /\ LastStage \in Nat
      /\ i \in 1 .. Len(L.calls)
  <2>1. n \in Nat /\ n <= Len(L.calls) /\ Len(L.calls) \in Nat /\ f \in Nat /\ LastStage \in Nat
    BY GoodParts
  <2> QED
    BY <2>1
<1>3. /\ r.failed = L.calls[i].id /\ r.stage = L.calls[i].stage
      /\ FailureReason(L.calls[i]) = r.reason /\ L.calls[i].end # "cut_refused"
  BY <1>1 DEF GrantedBy
<1>4. /\ r.failed \in IdsOf(L.calls) /\ CallOf(L.calls, r.failed) = L.calls[i]
      /\ IndexOf(L.calls, r.failed) = i
  BY <1>2, <1>3, GoodIds
<1>5. PICK depends : depends = {q \in ToSet(L.rows) : q.reason # "numbers" /\ q.retry = r.failed}
  OBVIOUS
<1>6. L.calls[i].attempt = 1 + (IF depends = {} THEN 0
                                ELSE CallOf(L.calls, (CHOOSE q \in depends : TRUE).failed).attempt)
  BY <1>3, <1>5, AttemptFollows
<1>7. ASSUME r.retry = NoCall PROVE ~complete /\ r.stage \notin LeftOut(L)
  <2>1. i = n /\ r.stage = f
    <3>1. ~(i < n /\ r.retry = L.calls[i + 1].id)
      <4>1. ASSUME i < n PROVE r.retry # L.calls[i + 1].id
        <5>1. i + 1 \in 1 .. Len(L.calls)
          BY <1>2, <4>1
        <5> QED
          BY <1>7, <5>1, GoodIds
      <4> QED
        BY <4>1
    <3> QED
      BY <1>1, <3>1 DEF GrantedBy
  <2>2. r.stage \notin LeftOut(L)
    <3>1. ASSUME NEW d \in ToSet(L.left), d.stage = r.stage PROVE FALSE
      <4>1. d.stage < f
        BY LeftIds
      <4> QED
        BY <1>2, <2>1, <3>1, <4>1
    <3> QED
      BY <3>1 DEF LeftOut
  <2>3. ~Done(L, f, n)
    <3>1. f # LastStage + 1
      <4>1. L.calls[i] \in Call
        BY <1>2, GoodParts
      <4>2. L.calls[i].stage \in 1 .. LastStage
        BY <4>1, CallParts
      <4> QED
        BY <1>2, <1>3, <2>1, <4>2
    <3>2. L.calls[n].end # "numbers"
      <4>1. L.calls[i].end \in {"cut", "lost", "empty", "repair", "again"}
        BY <1>2, <1>3, FailedEnds
      <4> QED
        BY <2>1, <4>1
    <3> QED
      BY <3>1, <3>2 DEF Done, Refused
  <2> QED
    BY <2>2, <2>3
<1>8. ASSUME r.retry # NoCall
      PROVE  /\ r.retry \in IdsOf(L.calls)
             /\ IndexOf(L.calls, r.retry) = IndexOf(L.calls, r.failed) + 1
             /\ CallOf(L.calls, r.retry).stage = r.stage
             /\ CallOf(L.calls, r.retry).attempt = L.calls[i].attempt + 1
             /\ complete /\ r.stage \notin LeftOut(L) =>
                   Answered(CallOf(L.calls, r.retry)) /\ CallOf(L.calls, r.retry).end # "changed"
  <2>1. i < n /\ r.retry = L.calls[i + 1].id /\ L.calls[i + 1].stage = r.stage
    BY <1>1, <1>8 DEF GrantedBy
  <2>2. PICK j \in 1 .. n : j = i + 1
    BY <1>2, <2>1
  <2>3. r.retry = L.calls[j].id /\ L.calls[j].stage = r.stage
    BY <2>1, <2>2, Zenon
  <2>4. j \in 1 .. Len(L.calls) /\ j # 1 /\ j - 1 = i
    BY <1>2, <2>2
  <2>5. r.retry \in IdsOf(L.calls) /\ IndexOf(L.calls, r.retry) = j /\ CallOf(L.calls, r.retry) = L.calls[j]
    BY <2>3, <2>4, GoodIds
  <2>6. L.calls[j - 1].stage = L.calls[j].stage
    BY <1>3, <2>3, <2>4, Zenon
  <2>7. L.calls[j].attempt = L.calls[j - 1].attempt + 1
    BY <2>4, <2>6 DEF Good, Linked
  <2>8. L.calls[j].attempt = L.calls[i].attempt + 1
    BY <2>4, <2>7, Zenon
  <2>9. complete /\ r.stage \notin LeftOut(L) => Answered(L.calls[j]) /\ L.calls[j].end # "changed"
    BY <1>3, <2>2, <2>3, RetryAnswered
  <2> QED
    BY <1>4, <2>2, <2>3, <2>5, <2>8, <2>9
<1>9. r.reason # "numbers"
  BY DEF Plain
<1>10. r.stage = CallOf(L.calls, r.failed).stage /\ CallOf(L.calls, r.failed).attempt = L.calls[i].attempt
       /\ FailureReason(CallOf(L.calls, r.failed)) = r.reason /\ CallOf(L.calls, r.failed).end # "cut_refused"
  BY <1>3, <1>4, Zenon
<1> QED
  BY <1>4, <1>5, <1>6, <1>7, <1>8, <1>9, <1>10, Zenon DEF RowProven

\* The sentence repair is proven by the calls.
LEMMA RepairProven ==
    ASSUME NEW L, NEW f, NEW n, Good(L, f, n), NEW complete \in BOOLEAN,
           NEW r \in ToSet(L.rows), ~Plain(r)
    PROVE  RowProven(L, r, complete)
<1>1. Refused(L, n) /\ RepairRow(L, n, r)
  BY DEF Good, RepairLast
<1>2. n \in Nat /\ n <= Len(L.calls) /\ Len(L.calls) \in Nat /\ n \in 1 .. Len(L.calls)
  <2>1. n \in Nat /\ n <= Len(L.calls) /\ Len(L.calls) \in Nat
    BY GoodParts
  <2>2. n > 0
    BY <1>1 DEF Refused
  <2> QED
    BY <2>1, <2>2
<1>3. r.stage = LastStage /\ r.failed = L.calls[n].id /\ L.calls[n].stage = LastStage /\ L.calls[n].end = "numbers"
  BY <1>1 DEF Refused, RepairRow
<1>4. /\ r.failed \in IdsOf(L.calls) /\ CallOf(L.calls, r.failed) = L.calls[n] /\ IndexOf(L.calls, r.failed) = n
  BY <1>2, <1>3, GoodIds
<1>5. r.failed \notin {q.failed : q \in {q \in ToSet(L.rows) : q.reason # "numbers"}}
  <2>1. ASSUME NEW q \in ToSet(L.rows), Plain(q), q.failed = L.calls[n].id PROVE FALSE
    <3>1. L.calls[n].end \in {"cut", "lost", "empty", "repair", "again"}
      BY <1>2, <2>1, FailedEnds
    <3> QED
      BY <1>3, <3>1
  <2> QED
    BY <1>3, <2>1 DEF Plain
<1>6. ASSUME r.retry # NoCall
      PROVE  /\ r.retry \in IdsOf(L.calls)
             /\ IndexOf(L.calls, r.retry) = IndexOf(L.calls, r.failed) + 1
             /\ CallOf(L.calls, r.retry).stage = r.stage
             /\ CallOf(L.calls, r.retry).attempt = 0
  <2>1. n + 1 = Len(L.calls) /\ r.retry = L.calls[n + 1].id
    BY <1>1, <1>6 DEF RepairRow
  <2>2. PICK j \in 1 .. Len(L.calls) : j = n + 1
    BY <1>2, <2>1
  <2>3. r.retry = L.calls[j].id
    BY <2>1, <2>2, Zenon
  <2>4. r.retry \in IdsOf(L.calls) /\ IndexOf(L.calls, r.retry) = j /\ CallOf(L.calls, r.retry) = L.calls[j]
    BY <2>2, <2>3, GoodIds
  <2>5. n # Len(L.calls)
    BY <1>2, <2>1
  <2>6. L.calls[n + 1].attempt = 0 /\ L.calls[n + 1].stage = LastStage
    BY <2>5 DEF Good, RepairLast
  <2>7. L.calls[j].attempt = 0 /\ L.calls[j].stage = LastStage
    BY <2>2, <2>6, Zenon
  <2> QED
    BY <1>3, <1>4, <2>2, <2>4, <2>7, Zenon
<1>7. r.reason = "numbers"
  BY DEF Plain
<1>8. CallOf(L.calls, r.failed).stage = r.stage /\ Answered(CallOf(L.calls, r.failed))
  BY <1>3, <1>4 DEF Answered
<1> QED
  BY <1>4, <1>5, <1>6, <1>7, <1>8, Zenon DEF RowProven

\* Every row, the left-out stages and the budget of a good ledger are proven.
LEMMA GoodRecoveries ==
    ASSUME NEW L, NEW f, NEW n, Good(L, f, n), NEW complete \in BOOLEAN,
           complete => Done(L, f, n) /\ L.halted = 0
    PROVE  RecoveriesValid(L, complete) /\ DegradedProven(L)
<1>1. StateValid(L) /\ L.spent >= Len(L.calls) /\ DegradedProven(L)
  BY DEF Good, Dropped
<1>2. \A i, j \in DOMAIN L.calls : L.calls[i].id = L.calls[j].id => i = j
  BY DEF Good, Identified
<1>3. \A row \in ToSet(L.rows) : RowProven(L, row, complete)
  <2> SUFFICES ASSUME NEW r \in ToSet(L.rows) PROVE RowProven(L, r, complete)
    OBVIOUS
  <2>1. CASE Plain(r)
    BY <2>1, PlainProven
  <2>2. CASE ~Plain(r)
    BY <2>2, RepairProven
  <2> QED
    BY <2>1, <2>2
<1>4. \A d \in ToSet(L.left) :
          d.ids = [i \in DOMAIN StageCalls(L.calls, d.stage) |-> StageCalls(L.calls, d.stage)[i].id]
  BY Zenon DEF Good, Dropped
<1> QED
  BY <1>1, <1>2, <1>3, <1>4, Zenon DEF RecoveriesValid

\* A good ledger passes every check of a resumed run.
LEMMA GoodLoads ==
    ASSUME NEW L, NEW f, NEW n, Good(L, f, n)
    PROVE  L \in Ledger /\ Loads(L)
<1>1. RecoveriesValid(L, FALSE) /\ DegradedProven(L)
  BY GoodRecoveries
<1>2. Ordered(L)
  BY GoodOrdered
<1> QED
  BY <1>1, <1>2 DEF Loads, Good

---------------------------------------------------------------------------
(* What a resumed run takes over. *)

\* A run that is not stuck at the frontier has no answer there yet, and a
\* resumable one that has is halted there.
LEMMA NoneAtFrontier ==
    ASSUME NEW L, NEW f, NEW n, Good(L, f, n), NEW p \in 1 .. n, L.calls[p].stage = f,
           ~Stuck(L, f, n)
    PROVE  ~Ends(L, n, p) \/ \E r \in ToSet(L.rows) : Plain(r) /\ r.failed = L.calls[p].id
<1>1. n \in Nat /\ n <= Len(L.calls) /\ Len(L.calls) \in Nat
  BY GoodParts
<1>2. SUFFICES ASSUME Ends(L, n, p)
               PROVE  \E r \in ToSet(L.rows) : Plain(r) /\ r.failed = L.calls[p].id
  OBVIOUS
<1>3. p = n /\ n > 0
  BY <1>1, <1>2, FrontierLast
<1>4. Pending(L.rows, f) # {}
  BY <1>3 DEF Stuck
<1>5. PICK k \in DOMAIN L.rows : L.rows[k].stage = f /\ L.rows[k].retry = NoCall /\ L.rows[k].reason # "numbers"
  BY <1>4 DEF Pending
<1>6. PICK r \in ToSet(L.rows) : r = L.rows[k]
  BY ToSetIndex, GoodParts
<1>7. Plain(r) /\ r.retry = NoCall
  BY <1>5, <1>6 DEF Plain
<1>8. PICK i \in 1 .. n : GrantedBy(L, f, n, r, i)
  BY <1>7, RowPlace
<1>9. i = n
  <2>1. ASSUME i < n PROVE r.retry # L.calls[i + 1].id
    <3>1. i + 1 \in 1 .. Len(L.calls)
      BY <1>1, <2>1
    <3> QED
      BY <1>7, <3>1, GoodIds
  <2> QED
    BY <1>8, <2>1 DEF GrantedBy
<1> QED
  BY <1>3, <1>7, <1>8, <1>9 DEF GrantedBy

\* Where a call stands at the frontier and is no row's failed call, the run is stuck.
LEMMA StandsStuck ==
    ASSUME NEW L, NEW f, NEW n, Good(L, f, n), NEW p \in 1 .. n, Ends(L, n, p), L.calls[p].stage = f,
           ~ \E r \in ToSet(L.rows) : Plain(r) /\ r.failed = L.calls[p].id
    PROVE  Stuck(L, f, n)
BY NoneAtFrontier

\* What Reuses says of the answers of a prior ledger.
LEMMA ReusableReuses ==
    ASSUME NEW P, NEW f, Good(P, f, Len(P.calls))
    PROVE  Reuses(P, f, Reusable(P), 1)
<1>1. PICK n \in Nat : n = Len(P.calls)
  BY GoodParts
<1>2. PICK S : S = {c \in Call : Answered(c) /\ c.id \notin Excluded(P)}
  OBVIOUS
<1>3. PICK rows : rows = Candidates(P)
  OBVIOUS
<1>4. Answers(P, f, n, S) /\ rows = Those(P.calls, S)
  BY <1>1, <1>2, <1>3, CandidatesAnswer
<1>5. Selected(P, n, S, rows) /\ Agrees(rows, Order(P))
  BY <1>1, <1>4, SelectedFacts, StagesAgree DEF Answers
<1>6. PICK m \in Nat, k \in Nat : m = Len(rows) /\ k = Len(Order(P)) /\ m <= k
  <2>1. Len(rows) \in Nat /\ Len(rows) <= Len(Order(P))
    BY <1>5, Zenon DEF Selected, Agrees
  <2>2. Lists(Order(P), LeftOut(P))
    BY OrderLists
  <2>3. Order(P) \in Seq(Nat)
    BY <2>2, Zenon DEF Lists
  <2>4. Len(Order(P)) \in Nat
    BY <2>3
  <2> QED
    BY <2>1, <2>4, Zenon
<1>7. rows \in Seq(Call) /\ DOMAIN rows = 1 .. m
  BY <1>5, <1>6 DEF Selected
<1>8. PICK good : good = {i \in DOMAIN rows : i <= Len(Order(P)) /\ \A j \in 1 .. i : Parses(rows[j])}
  OBVIOUS
<1>9. good \in SUBSET (1 .. m) /\ \A i \in good : \A j \in 1 .. i : j \in good
  BY <1>6, <1>7, <1>8
<1>10. PICK h \in 0 .. m : good = 1 .. h
  BY <1>9, DownClosed
<1>11. h \in Nat /\ h <= m /\ Cardinality(good) = h
  <2>1. h \in Nat /\ h <= m
    BY <1>10
  <2>2. Cardinality(1 .. h) = IF 1 > h THEN 0 ELSE h - 1 + 1
    BY <2>1, FS_Interval
  <2> QED
    BY <1>10, <2>1, <2>2
<1>12. PICK rest : rest = Reusable(P)
  OBVIOUS
<1>13. rest = SubSeq(rows, 1, h)
  BY <1>3, <1>8, <1>11, <1>12 DEF Reusable
<1>14. rest \in Seq(Call) /\ Len(rest) = h /\ DOMAIN rest = 1 .. h /\ \A i \in 1 .. h : rest[i] = rows[i]
  <2>1. h \in 0 .. Len(rows) /\ Len(rows) \in h .. Len(rows)
    BY <1>6, <1>10, <1>11
  <2>2. SubSeq(rows, 1, h) \in Seq(Call) /\ Len(SubSeq(rows, 1, h)) = h /\ \A i \in 1 .. h : SubSeq(rows, 1, h)[i] = rows[i]
    BY <1>7, <2>1, Cut
  <2>3. rest \in Seq(Call) /\ Len(rest) = h /\ \A i \in 1 .. h : rest[i] = rows[i]
    BY <1>13, <2>2, Zenon
  <2>4. DOMAIN rest = 1 .. h
    BY <2>3
  <2> QED
    BY <2>3, <2>4
<1>15. ASSUME NEW i \in 1 .. h
       PROVE  rest[i] \in ToSet(rows) /\ Parses(rest[i]) /\ rest[i].stage >= 1
  <2>1. i \in DOMAIN rows /\ i \in good
    BY <1>7, <1>10, <1>11
  <2>2. rows[i] \in ToSet(rows) /\ rows[i] \in Call
    BY <1>7, <2>1, ToSetIndex
  <2>3. i \in 1 .. i
    BY <1>11
  <2>4. Parses(rows[i])
    BY <1>8, <2>1, <2>3
  <2>5. rows[i].stage >= 1
    BY <2>2, CallParts
  <2> QED
    BY <1>14, <2>2, <2>4, <2>5
<1>16. ASSUME NEW i \in 1 .. h, NEW j \in 1 .. h, i < j PROVE rest[i].stage < rest[j].stage
  <2>1. i \in 1 .. m /\ j \in 1 .. m
    BY <1>11
  <2>2. rows[i].stage < rows[j].stage
    BY <1>5, <1>6, <1>16, <2>1 DEF Selected
  <2> QED
    BY <1>14, <2>2
<1>17. ASSUME NEW t \in 1 .. f - 1, t \notin LeftOut(P) PROVE \E i \in 1 .. h : rest[i].stage = t
  <2>1. PICK p \in 1 .. n : /\ P.calls[p].stage = t /\ P.calls[p].end = "valid"
                            /\ P.calls[p].id \notin Excluded(P) /\ Stands(P, n, p)
    BY <1>1, <1>17, SettledCall
  <2>2. p \in 1 .. Len(P.calls) /\ P.calls[p] \in S
    <3>1. p \in 1 .. Len(P.calls) /\ P.calls[p] \in Call
      BY <1>1, GoodParts
    <3> QED
      BY <1>2, <2>1, <3>1 DEF Answered
  <2>3. PICK i \in 1 .. m : rows[i] = P.calls[p]
    BY <1>5, <1>6, <2>2 DEF Selected
  <2>4. ASSUME NEW j \in 1 .. i PROVE Parses(rows[j])
    <3>1. j \in 1 .. m
      BY <1>6
    <3>2. PICK q \in 1 .. Len(P.calls) : rows[j] = P.calls[q] /\ Stands(P, n, q)
      BY <1>5, <1>6, <3>1 DEF Selected
    <3>3. rows[j].stage <= t /\ rows[j].stage \in 1 .. LastStage
      <4>1. rows[j] \in Call
        BY <1>7, <3>1
      <4>2. rows[j].stage \in 1 .. LastStage /\ rows[j].stage \in Nat
        BY <4>1, CallParts
      <4>3. j < i => rows[j].stage < rows[i].stage
        BY <1>5, <1>6, <3>1 DEF Selected
      <4>4. j < i \/ j = i
        BY <1>6
      <4>5. rows[i].stage = t
        BY <2>1, <2>3, Zenon
      <4>6. PICK u : u = rows[j].stage
        OBVIOUS
      <4>7. u < t \/ u = t
        BY <4>3, <4>4, <4>5, <4>6, Zenon
      <4>8. u \in Nat /\ t \in Int
        <5>1. f \in Nat
          BY GoodParts
        <5> QED
          BY <4>2, <4>6, <5>1
      <4>9. u <= t
        BY <4>7, <4>8
      <4> QED
        BY <4>2, <4>6, <4>9, Zenon
    <3>4. rows[j].stage \in 1 .. f - 1 /\ rows[j].stage \notin LeftOut(P)
      <4>1. f \in Nat /\ LastStage \in Nat
        BY GoodParts
      <4>2. rows[j].stage \notin LeftOut(P)
        BY <3>2, Zenon DEF Stands
      <4>3. PICK u : u = rows[j].stage
        OBVIOUS
      <4>4. u <= t /\ u \in 1 .. LastStage
        BY <3>3, <4>3, Zenon
      <4>5. u \in 1 .. f - 1
        BY <4>1, <4>4
      <4> QED
        BY <4>2, <4>3, <4>5, Zenon
    <3>5. PICK o \in 1 .. n : P.calls[o].stage = rows[j].stage /\ P.calls[o].end = "valid" /\ Stands(P, n, o)
      BY <1>1, <3>4, SettledCall
    <3>6. o = q
      BY <1>1, <3>2, <3>5, OneStands
    <3> QED
      BY <3>2, <3>5, <3>6 DEF Parses
  <2>5. i \in good
    BY <1>6, <1>7, <1>8, <2>4
  <2>6. i \in 1 .. h
    BY <1>10, <2>5
  <2> QED
    BY <1>14, <2>1, <2>3, <2>6
<1> QED
  BY <1>3, <1>12, <1>14, <1>15, <1>16, <1>17, Zenon DEF Reuses

\* The answer that is taken over next, at a stage that is not halted.
LEMMA NextAnswer ==
    ASSUME NEW P, NEW f, Resumes(P, f), NEW s \in 1 .. f, NEW rest, Reuses(P, f, rest, s), rest # <<>>,
           s \notin LeftOut(P), P.halted # s
    PROVE  /\ s < f /\ Head(rest).stage = s /\ Head(rest).end = "valid"
           /\ \E p \in 1 .. Len(P.calls) : Head(rest) = P.calls[p] /\ Stands(P, Len(P.calls), p)
<1>1. Good(P, f, Len(P.calls))
  BY DEF Resumes
<1>2. PICK n \in Nat : n = Len(P.calls)
  BY <1>1, GoodParts
<1>3. rest \in Seq(Call) /\ 1 \in DOMAIN rest /\ Head(rest) = rest[1]
  BY DEF Reuses
<1>4. rest[1] \in ToSet(Candidates(P)) /\ rest[1].stage >= s
  BY <1>3 DEF Reuses
<1>5. PICK S : S = {c \in Call : Answered(c) /\ c.id \notin Excluded(P)}
  OBVIOUS
<1>6. PICK rows : rows = Candidates(P)
  OBVIOUS
<1>7. Answers(P, f, n, S) /\ rows = Those(P.calls, S)
  BY <1>1, <1>2, <1>5, <1>6, CandidatesAnswer
<1>8. Selected(P, n, S, rows)
  BY <1>1, <1>2, <1>7, SelectedFacts DEF Answers
<1>9. PICK p \in 1 .. n : rest[1] = P.calls[p] /\ P.calls[p] \in S /\ Stands(P, n, p)
  <2>0. rows \in Seq(Call)
    BY <1>8, Zenon DEF Selected
  <2>1. PICK i \in DOMAIN rows : rest[1] = rows[i]
    BY <1>4, <1>6, <2>0, ToSetIndex
  <2> QED
    BY <1>2, <1>8, <2>1 DEF Selected
<1>10. f \in Nat /\ s \in Nat /\ rest[1].stage \in 1 .. LastStage /\ rest[1].stage <= f
  <2>1. rest[1] \in Call /\ f \in Nat
    BY <1>1, <1>3, GoodParts
  <2>2. P.calls[p].stage <= f
    BY <1>1, <1>2, <1>9 DEF Good, Sorted
  <2> QED
    BY <1>9, <2>1, <2>2, CallParts
<1>11. s # f
  <2> SUFFICES ASSUME s = f PROVE FALSE
    OBVIOUS
  <2>1. rest[1].stage = f
    BY <1>4, <1>10
  <2>2. Ends(P, n, p) /\ P.calls[p].stage = f
    BY <1>9, <2>1 DEF Stands
  <2>3. ~ \E r \in ToSet(P.rows) : Plain(r) /\ r.failed = P.calls[p].id
    <3>1. p \in 1 .. Len(P.calls) /\ P.calls[p].id \notin Excluded(P)
      BY <1>2, <1>5, <1>9
    <3> QED
      BY <1>1, <1>2, <3>1, ExcludedIds
  <2>4. Stuck(P, f, n)
    BY <1>1, <1>2, <2>2, <2>3, StandsStuck
  <2> QED
    BY <1>2, <2>4 DEF Resumes
<1>12. s < f /\ s \in 1 .. f - 1
  BY <1>10, <1>11
<1>13. PICK i \in DOMAIN rest : rest[i].stage = s
  <2>1. s \in s .. f - 1
    BY <1>10, <1>12
  <2> QED
    BY <2>1 DEF Reuses
<1>14. rest[1].stage = s
  <2>1. i # 1 => rest[1].stage < rest[i].stage
    <3>1. i \in Nat /\ i >= 1
      BY <1>3
    <3>2. i # 1 => 1 < i
      BY <3>1
    <3> QED
      BY <1>3, <3>2 DEF Reuses
  <2> QED
    BY <1>4, <1>10, <1>13, <2>1
<1>15. PICK q \in 1 .. n : P.calls[q].stage = s /\ P.calls[q].end = "valid" /\ Stands(P, n, q)
  BY <1>1, <1>2, <1>12, SettledCall
<1>16. p = q
  BY <1>1, <1>2, <1>9, <1>14, <1>15, OneStands
<1> QED
  BY <1>2, <1>3, <1>9, <1>12, <1>14, <1>15, <1>16

---------------------------------------------------------------------------
(* What the reader of a Case accepts. *)

\* A usable answer is one of a stage that is not left out.
LEMMA UsableKept ==
    ASSUME NEW L, NEW f, NEW n, Good(L, f, n), NEW p \in 1 .. n, Usable(L.calls[p]) \/ L.calls[p].stage = LastStage
    PROVE  L.calls[p].stage \notin LeftOut(L)
<1> SUFFICES ASSUME NEW d \in ToSet(L.left), d.stage = L.calls[p].stage PROVE FALSE
  BY DEF LeftOut
<1>1. ~Usable(L.calls[p])
  <2>1. CallsAt(L, n, d.stage)
    BY StageCallsPlaces
  <2>2. L.calls[p] \in ToSet(StageCalls(L.calls, d.stage))
    BY <2>1 DEF CallsAt
  <2>3. DegradedProven(L)
    BY DEF Good, Dropped
  <2> QED
    BY <2>2, <2>3 DEF DegradedProven
<1>2. d.stage \in Degradable
  BY LeftIds
<1>3. d.stage # LastStage
  BY <1>2, StageAssumption
<1> QED
  BY <1>1, <1>3

\* These calls are answers that an exchange can be of.
Readable(L, n, S) ==
    \A p \in 1 .. Len(L.calls) : L.calls[p] \in S =>
        /\ Stands(L, n, p) /\ Answered(L.calls[p])
        /\ Parses(L.calls[p]) \/ L.calls[p].end = "numbers"

\* The answers exchanged before a stage, at or behind the frontier.
ExchangedSet(s) ==
    {c \in Call : /\ c.attempt > 0 /\ c.stage < s
                  /\ \/ c.end = "valid"
                     \/ c.end = "numbers" /\ c.stage = LastStage}

\* They are answers, and have one of every stage before the frontier.
LEMMA ExchangedAnswers ==
    ASSUME NEW L, NEW f, NEW n, Good(L, f, n), NEW s \in Nat, f <= s
    PROVE  /\ ExchangedBefore(L, s) = Those(L.calls, ExchangedSet(s))
           /\ Readable(L, n, ExchangedSet(s)) /\ Answers(L, f, n, ExchangedSet(s))
<1>1. PICK S : S = ExchangedSet(s)
  OBVIOUS
<1>2. n \in Nat /\ n <= Len(L.calls) /\ Len(L.calls) \in Nat /\ f \in Nat
  BY GoodParts
<1>3. ASSUME NEW p \in 1 .. Len(L.calls), L.calls[p] \in S
      PROVE  /\ Stands(L, n, p) /\ Answered(L.calls[p])
             /\ Parses(L.calls[p]) \/ L.calls[p].end = "numbers"
  <2>1. /\ L.calls[p].attempt > 0
        /\ L.calls[p].end = "valid" \/ (L.calls[p].end = "numbers" /\ L.calls[p].stage = LastStage)
    BY <1>1, <1>3 DEF ExchangedSet
  <2>2. p \in 1 .. n
    <3>1. p # n + 1
      <4>1. ASSUME p = n + 1 PROVE FALSE
        <5>1. n # Len(L.calls)
          BY <1>2, <4>1
        <5>2. L.calls[n + 1].attempt = 0
          BY <5>1 DEF Good, RepairLast
        <5> QED
          BY <2>1, <4>1, <5>2
      <4> QED
        BY <4>1
    <3>2. n = Len(L.calls) \/ n + 1 = Len(L.calls)
      BY GoodParts
    <3> QED
      BY <1>2, <3>1, <3>2
  <2>3. L.calls[p].stage \notin LeftOut(L)
    BY <2>1, <2>2, UsableKept DEF Usable
  <2>4. Stands(L, n, p)
    BY <2>1, <2>2, <2>3, AcceptedStands
  <2> QED
    BY <2>1, <2>4 DEF Answered, Parses
<1>4. ASSUME NEW t \in 1 .. f - 1, t \notin LeftOut(L)
      PROVE  \E p \in 1 .. Len(L.calls) : L.calls[p] \in S /\ L.calls[p].stage = t
  <2>1. PICK p \in 1 .. n : L.calls[p].stage = t /\ L.calls[p].end = "valid"
    BY <1>4, SettledCall
  <2>2. p \in 1 .. Len(L.calls) /\ L.calls[p] \in Call /\ L.calls[p].attempt > 0
    BY <1>2, <2>1, GoodParts DEF Good, Sorted
  <2>3. t < s
    BY <1>2
  <2>4. L.calls[p].stage < s
    BY <2>1, <2>3
  <2>5. L.calls[p] \in S
    BY <1>1, <2>1, <2>2, <2>4 DEF ExchangedSet
  <2> QED
    BY <2>1, <2>2, <2>5
<1>5. ExchangedBefore(L, s) = Those(L.calls, S)
  BY <1>1, Zenon DEF ExchangedBefore, ExchangedSet
<1>6. Readable(L, n, S) /\ Answers(L, f, n, S)
  BY <1>3, <1>4, Zenon DEF Readable, Answers
<1> QED
  BY <1>1, <1>5, <1>6, Zenon

\* Such calls bind in their order.
LEMMA ReadableBinds ==
    ASSUME NEW L, NEW f, NEW n, Good(L, f, n), NEW S, Readable(L, n, S), NEW rows, rows = Those(L.calls, S)
    PROVE  BindsInOrder(L, rows)
<1>1. Selected(L, n, S, rows)
  BY SelectedFacts DEF Readable
<1>2. ASSUME NEW c \in ToSet(rows) PROVE Answered(c) /\ TagProven(L, c) /\ (Parses(c) \/ c.end = "numbers")
  <2>0. rows \in Seq(Call) /\ DOMAIN rows = 1 .. Len(rows)
    BY <1>1, Zenon DEF Selected
  <2>1. PICK i \in DOMAIN rows : c = rows[i]
    BY <2>0, ToSetIndex
  <2>2. PICK p \in 1 .. Len(L.calls) : rows[i] = L.calls[p] /\ L.calls[p] \in S
    BY <1>1, <2>0, <2>1 DEF Selected
  <2>3. Stands(L, n, p) /\ Answered(c) /\ (Parses(c) \/ c.end = "numbers")
    BY <2>1, <2>2 DEF Readable
  <2>4. TagProven(L, L.calls[p])
    BY <2>3, BlockOf DEF Block, Stands
  <2> QED
    BY <2>1, <2>2, <2>3, <2>4
<1>3. ASSUME NEW i \in DOMAIN rows, NEW j \in DOMAIN rows, i < j
      PROVE  IndexOf(L.calls, rows[i].id) < IndexOf(L.calls, rows[j].id)
  <2>1. i \in 1 .. Len(rows) /\ j \in 1 .. Len(rows)
    BY <1>1, Zenon DEF Selected
  <2>4. \A a, b \in 1 .. Len(rows) : a < b =>
          \E p, q \in 1 .. n : p < q /\ rows[a] = L.calls[p] /\ rows[b] = L.calls[q] /\ rows[a].stage < rows[b].stage
    BY <1>1, Zenon DEF Selected
  <2>5. \E p, q \in 1 .. n : p < q /\ rows[i] = L.calls[p] /\ rows[j] = L.calls[q] /\ rows[i].stage < rows[j].stage
    BY <1>3, <2>1, <2>4, Zenon
  <2>2. PICK p, q \in 1 .. n : p < q /\ rows[i] = L.calls[p] /\ rows[j] = L.calls[q]
    BY <2>5, Zenon
  <2>3. p \in 1 .. Len(L.calls) /\ q \in 1 .. Len(L.calls)
    <3>1. n \in Nat /\ n <= Len(L.calls) /\ Len(L.calls) \in Nat
      BY GoodParts
    <3> QED
      BY <3>1
  <2>6. IndexOf(L.calls, rows[i].id) = p /\ IndexOf(L.calls, rows[j].id) = q
    BY <2>2, <2>3, GoodIds
  <2> QED
    BY <2>2, <2>6
<1> QED
  BY <1>2, <1>3, Zenon DEF BindsInOrder

\* When all is done, the last call of a block is the answer exchanged.
LEMMA DoneStands ==
    ASSUME NEW L, NEW f, NEW n, Good(L, f, n), Done(L, f, n), NEW p \in 1 .. Len(L.calls), Stands(L, n, p)
    PROVE  L.calls[p] \in ExchangedSet(LastStage + 1)
<1>1. p \in 1 .. n /\ Ends(L, n, p) /\ L.calls[p].stage \notin LeftOut(L)
  BY DEF Stands
<1>2. L.calls[p] \in Call /\ L.calls[p].attempt > 0 /\ L.calls[p].stage <= f
  BY <1>1, GoodParts DEF Good, Sorted
<1>3. f \in Nat /\ LastStage \in Nat /\ L.calls[p].stage \in 1 .. LastStage
  BY <1>2, GoodParts, CallParts
<1>4. CASE L.calls[p].stage = f
  <2>1. p = n
    BY <1>1, <1>4, FrontierLast
  <2>2. Refused(L, n)
    BY <1>3, <1>4 DEF Done
  <2>3. L.calls[p].end = "numbers" /\ L.calls[p].stage = LastStage
    BY <2>1, <2>2 DEF Refused
  <2> QED
    BY <1>2, <1>3, <2>3 DEF ExchangedSet
<1>5. CASE L.calls[p].stage # f
  <2>1. L.calls[p].stage \in 1 .. f - 1
    BY <1>2, <1>3, <1>5
  <2>2. PICK q \in 1 .. n : L.calls[q].stage = L.calls[p].stage /\ L.calls[q].end = "valid" /\ Stands(L, n, q)
    BY <1>1, <2>1, SettledCall
  <2>3. q = p
    BY <2>2, OneStands
  <2> QED
    BY <1>2, <1>3, <2>2, <2>3 DEF ExchangedSet
<1> QED
  BY <1>4, <1>5

\* When all is done, the candidates are the answers exchanged.
LEMMA DoneCandidates ==
    ASSUME NEW L, NEW f, NEW n, Good(L, f, n), Done(L, f, n)
    PROVE  Candidates(L) = ExchangedBefore(L, LastStage + 1)
<1>1. LastStage + 1 \in Nat /\ f <= LastStage + 1 /\ L.calls \in Seq(Call) /\ DOMAIN L.calls = 1 .. Len(L.calls)
  <2>1. LastStage \in Nat /\ f \in 1 .. LastStage + 1 /\ L.calls \in Seq(Call) /\ DOMAIN L.calls = 1 .. Len(L.calls)
    BY GoodParts
  <2> QED
    BY <2>1
<1>2. PICK S : S = ExchangedSet(LastStage + 1)
  OBVIOUS
<1>3. ExchangedBefore(L, LastStage + 1) = Those(L.calls, S) /\ Readable(L, n, S)
  BY <1>1, <1>2, ExchangedAnswers
<1>4. PICK T : T = {c \in Call : Answered(c) /\ c.id \notin Excluded(L)}
  OBVIOUS
<1>5. Candidates(L) = Those(L.calls, T)
  BY <1>4, CandidatesAnswer
<1>6. ASSUME NEW p \in DOMAIN L.calls PROVE L.calls[p] \in T <=> L.calls[p] \in S
  <2>1. p \in 1 .. Len(L.calls) /\ L.calls[p] \in Call
    BY <1>1
  <2>2. ASSUME L.calls[p] \in T PROVE L.calls[p] \in S
    BY <1>2, <1>4, <2>1, <2>2, CandidateStands, DoneStands
  <2>3. ASSUME L.calls[p] \in S PROVE L.calls[p] \in T
    <3>1. Answered(L.calls[p]) /\ Stands(L, n, p)
      BY <1>3, <2>1, <2>3 DEF Readable
    <3>2. p \in 1 .. n /\ L.calls[p].stage \notin LeftOut(L) /\ L.calls[p].end \in {"valid", "numbers"}
      BY <1>2, <2>3, <3>1 DEF Stands, ExchangedSet
    <3>3. L.calls[p].id \notin Excluded(L)
      BY <3>2, AcceptedStands
    <3> QED
      BY <1>4, <2>1, <3>1, <3>3
  <2> QED
    BY <2>2, <2>3
<1>7. Those(L.calls, T) = Those(L.calls, S)
  BY <1>1, <1>6, ThoseSame
<1> QED
  BY <1>3, <1>5, <1>7

\* What a front of a sequence is, by its places.
LEMMA SubSeqIs ==
    ASSUME NEW X, NEW s \in Seq(X), NEW m \in Nat, m <= Len(s), NEW t, t = [i \in 1 .. m |-> t[i]],
           \A i \in 1 .. m : t[i] = s[i]
    PROVE  t = SubSeq(s, 1, m)
<1>1. PICK u : u = SubSeq(s, 1, m)
  OBVIOUS
<1>2. u \in Seq(X) /\ Len(u) = m /\ \A i \in 1 .. m : u[i] = s[i]
  <2>1. m \in 0 .. Len(s) /\ Len(s) \in m .. Len(s)
    OBVIOUS
  <2>2. /\ SubSeq(s, 1, m) \in Seq(X) /\ Len(SubSeq(s, 1, m)) = m
        /\ \A i \in 1 .. m : SubSeq(s, 1, m)[i] = s[i]
    BY <2>1, Cut
  <2> QED
    BY <1>1, <2>2, Zenon
<1>3. u = [i \in 1 .. m |-> u[i]]
  BY <1>2
<1>4. \A i \in 1 .. m : u[i] = t[i]
  BY <1>2
<1> QED
  BY <1>1, <1>3, <1>4

\* When all is done, a ledger has an answer for every stage not left out.
LEMMA DoneStages ==
    ASSUME NEW L, NEW f, NEW n, Good(L, f, n), Done(L, f, n),
           NEW rows, rows = ExchangedBefore(L, LastStage + 1)
    PROVE  StagesOf(rows) = Order(L)
<1>1. LastStage + 1 \in Nat /\ f <= LastStage + 1
  <2>1. LastStage \in Nat /\ f \in 1 .. LastStage + 1
    BY GoodParts
  <2> QED
    BY <2>1
<1>2. PICK S : S = ExchangedSet(LastStage + 1)
  OBVIOUS
<1>3. rows = Those(L.calls, S) /\ Answers(L, f, n, S)
  BY <1>1, <1>2, ExchangedAnswers
<1>4. PICK order : order = Order(L)
  OBVIOUS
<1>5. Selected(L, n, S, rows) /\ Agrees(rows, order) /\ Lists(order, LeftOut(L))
  BY <1>3, <1>4, SelectedFacts, StagesAgree, OrderLists DEF Answers
<1>6. order \in Seq(Nat) /\ rows \in Seq(Call) /\ DOMAIN rows = 1 .. Len(rows)
  BY <1>5, Zenon DEF Selected, Lists
<1>7. PICK m \in Nat, k \in Nat : m = Len(rows) /\ k = Len(order)
  BY <1>6
<1>8. m <= k /\ \A i \in 1 .. m : rows[i].stage = order[i]
  BY <1>5, <1>7, Zenon DEF Agrees
<1>9. ~(m < k)
  <2> SUFFICES ASSUME m < k PROVE FALSE
    OBVIOUS
  <2>1. m + 1 \in 1 .. k
    BY <1>7
  <2>2. PICK t : t = order[m + 1]
    OBVIOUS
  <2>3. t \in Stage \ LeftOut(L)
    BY <1>5, <1>7, <2>1, <2>2 DEF Lists
  <2>4. \E p \in 1 .. Len(L.calls) : L.calls[p].stage = t /\ L.calls[p] \in S
    <3>1. LastStage \in Nat /\ f \in Nat /\ t \in 1 .. LastStage
      BY <2>3, GoodParts DEF Stage
    <3>2. CASE f = LastStage /\ t = LastStage
      <4>1. Refused(L, n) /\ n \in Nat /\ n <= Len(L.calls) /\ Len(L.calls) \in Nat
        BY <3>1, <3>2, GoodParts DEF Done
      <4>2. n \in 1 .. n /\ n \in 1 .. Len(L.calls) /\ L.calls[n].stage = t /\ L.calls[n].end = "numbers"
        BY <3>2, <4>1 DEF Refused
      <4>3. t \notin LeftOut(L)
        BY <2>3
      <4>4. Stands(L, n, n)
        BY <4>2, <4>3, AcceptedStands
      <4>5. L.calls[n] \in S
        BY <1>2, <4>2, <4>4, DoneStands
      <4> QED
        BY <4>2, <4>5
    <3>3. CASE t \in 1 .. f - 1
      BY <1>3, <2>3, <3>3 DEF Answers
    <3>4. f = LastStage + 1 \/ f = LastStage
      BY DEF Done
    <3> QED
      BY <3>1, <3>2, <3>3, <3>4
  <2>5. PICK i \in 1 .. m : rows[i].stage = t
    <3>1. PICK p \in 1 .. Len(L.calls) : L.calls[p].stage = t /\ L.calls[p] \in S
      BY <2>4
    <3>2. \E i \in 1 .. m : rows[i] = L.calls[p]
      BY <1>5, <1>7, <3>1 DEF Selected
    <3> QED
      BY <3>1, <3>2
  <2>6. order[i] = t /\ i \in 1 .. k /\ i < m + 1
    BY <1>8, <2>5
  <2>7. order[i] < order[m + 1]
    BY <1>5, <1>7, <2>1, <2>6 DEF Lists
  <2>8. t \in Nat
    BY <2>3, StageAssumption DEF Stage
  <2> QED
    BY <2>2, <2>6, <2>7, <2>8
<1>10. m = k
  BY <1>8, <1>9
<1>11. PICK stages : stages = StagesOf(rows)
  OBVIOUS
<1>12. stages = [i \in 1 .. m |-> stages[i]] /\ \A i \in 1 .. m : stages[i] = rows[i].stage
  BY <1>6, <1>7, <1>11 DEF StagesOf
<1>13. order = [i \in 1 .. m |-> order[i]]
  BY <1>6, <1>7, <1>10
<1>14. \A i \in 1 .. m : stages[i] = order[i]
  BY <1>8, <1>12
<1> QED
  BY <1>4, <1>11, <1>12, <1>13, <1>14

\* The complete ledger is one the reader of a Case accepts.
LEMMA DoneReads ==
    ASSUME NEW L, NEW f, NEW n, Good(L, f, n), Done(L, f, n), L.halted = 0
    PROVE  CompleteReads(L, ExchangedBefore(L, LastStage + 1))
<1>1. LastStage + 1 \in Nat /\ f <= LastStage + 1
  <2>1. LastStage \in Nat /\ f \in 1 .. LastStage + 1
    BY GoodParts
  <2> QED
    BY <2>1
<1>2. PICK rows, S : rows = ExchangedBefore(L, LastStage + 1) /\ S = ExchangedSet(LastStage + 1)
  OBVIOUS
<1>3. rows = Those(L.calls, S) /\ Readable(L, n, S)
  BY <1>1, <1>2, ExchangedAnswers
<1>4. RecoveriesValid(L, TRUE) /\ DegradedProven(L)
  BY GoodRecoveries
<1>5. StagesOf(rows) = Order(L) /\ BindsInOrder(L, rows) /\ Candidates(L) = rows
  BY <1>2, <1>3, DoneStages, ReadableBinds, DoneCandidates
<1>6. L.calls \in Seq(Call) /\ DOMAIN L.calls = 1 .. Len(L.calls)
  BY GoodParts
<1>7. IdsOf(L.calls) \subseteq IdsOf(rows) \union Excluded(L)
  <2> SUFFICES ASSUME NEW id \in IdsOf(L.calls), id \notin Excluded(L) PROVE id \in IdsOf(rows)
    OBVIOUS
  <2>1. PICK p \in 1 .. Len(L.calls) : id = L.calls[p].id
    BY <1>6, IdsIndex
  <2>2. L.calls[p] \in S
    BY <1>2, <2>1, CandidateStands, DoneStands
  <2>3. Selected(L, n, S, rows)
    BY <1>3, SelectedFacts DEF Readable
  <2>4. rows \in Seq(Call) /\ DOMAIN rows = 1 .. Len(rows)
    BY <2>3, Zenon DEF Selected
  <2>6. \A q \in 1 .. Len(L.calls) : L.calls[q] \in S => \E i \in 1 .. Len(rows) : rows[i] = L.calls[q]
    BY <2>3, Zenon DEF Selected
  <2>5. PICK i \in DOMAIN rows : rows[i] = L.calls[p]
    BY <2>2, <2>4, <2>6, Zenon
  <2> QED
    BY <2>1, <2>4, <2>5, IdsIndex
<1>8. NumbersProven(L, Last(rows))
  <2> SUFFICES ASSUME NEW r \in ToSet(L.rows), r.reason = "numbers" PROVE r.failed = Last(rows).id
    BY DEF NumbersProven
  <2>1. Refused(L, n) /\ RepairRow(L, n, r) /\ f = LastStage
    BY DEF Good, RepairLast, Plain
  <2>2. n \in 1 .. n /\ n \in 1 .. Len(L.calls) /\ n \in Nat /\ L.calls[n].end = "numbers" /\ L.calls[n].stage = LastStage
    <3>1. n \in Nat /\ n <= Len(L.calls) /\ Len(L.calls) \in Nat /\ n > 0
      BY <2>1, GoodParts DEF Refused
    <3> QED
      BY <2>1, <3>1 DEF Refused
  <2>3. L.calls[n].stage \notin LeftOut(L)
    BY <2>2, UsableKept
  <2>4. L.calls[n] \in S
    BY <1>2, <2>2, <2>3, AcceptedStands, DoneStands
  <2>5. \A q \in DOMAIN L.calls : n < q => L.calls[q] \notin S
    <3> SUFFICES ASSUME NEW q \in 1 .. Len(L.calls), n < q, L.calls[q] \in S PROVE FALSE
      BY <1>6
    <3>1. q \in 1 .. n
      BY <1>3 DEF Readable, Stands
    <3> QED
      BY <2>2, <3>1
  <2>6. Last(rows) = L.calls[n]
    BY <1>3, <1>6, <2>2, <2>4, <2>5, ThoseLast
  <2> QED
    BY <2>1, <2>6 DEF RepairRow
<1> QED
  BY <1>2, <1>4, <1>5, <1>7, <1>8, Zenon DEF CompleteReads

---------------------------------------------------------------------------
(* What the reader of a halted record accepts. *)

\* One more element is selected, behind all the others.
LEMMA ThoseOneMore ==
    ASSUME NEW X, NEW s \in Seq(X), NEW S, NEW T, NEW p \in DOMAIN s, s[p] \in T, s[p] \notin S,
           \A q \in DOMAIN s : q < p => (s[q] \in S <=> s[q] \in T),
           \A q \in DOMAIN s : p < q => s[q] \notin S /\ s[q] \notin T
    PROVE  Those(s, T) = Append(Those(s, S), s[p])
<1>1. PICK m \in Nat : m = Len(s) /\ DOMAIN s = 1 .. m
  OBVIOUS
<1>2. p \in 1 .. m /\ p \in Nat
  BY <1>1
<1>3. PICK h \in Nat : h = p - 1
  BY <1>2
<1>4. PICK a, b : a = SubSeq(s, 1, h) /\ b = SubSeq(s, h + 1, m)
  OBVIOUS
<1>5. /\ a \in Seq(X) /\ b \in Seq(X) /\ Len(a) = h /\ Len(b) = m - h
      /\ \A i \in 1 .. h : a[i] = s[i]
      /\ \A i \in 1 .. m - h : b[i] = s[h + i]
      /\ a \o b = s
  <2>1. h \in 0 .. Len(s) /\ m \in h .. Len(s)
    BY <1>1, <1>2, <1>3
  <2>2. /\ SubSeq(s, 1, h) \in Seq(X) /\ SubSeq(s, h + 1, m) \in Seq(X)
        /\ Len(SubSeq(s, 1, h)) = h /\ Len(SubSeq(s, h + 1, m)) = m - h
        /\ \A i \in 1 .. h : SubSeq(s, 1, h)[i] = s[i]
        /\ \A i \in 1 .. m - h : SubSeq(s, h + 1, m)[i] = s[h + i]
        /\ SubSeq(s, 1, h) \o SubSeq(s, h + 1, m) = SubSeq(s, 1, m)
        /\ SubSeq(s, 1, Len(s)) = s
    BY <2>1, Cut
  <2> QED
    BY <1>1, <1>4, <2>2, Zenon
<1>0. a \in Seq(X) /\ b \in Seq(X)
  BY <1>5, Zenon
<1>6. DOMAIN a = 1 .. h /\ DOMAIN b = 1 .. m - h /\ 1 \in DOMAIN b /\ h + 1 = p
  BY <1>2, <1>3, <1>5
<1>7. b[1] = s[p]
  <2>1. b[1] = s[h + 1]
    BY <1>2, <1>3, <1>5
  <2> QED
    BY <1>6, <2>1
<1>8. \A i \in DOMAIN b : i # 1 => b[i] \notin S /\ b[i] \notin T
  <2> SUFFICES ASSUME NEW i \in 1 .. m - h, i # 1 PROVE b[i] \notin S /\ b[i] \notin T
    BY <1>6
  <2>1. h + i \in 1 .. m /\ p < h + i
    BY <1>1, <1>3
  <2>2. s[h + i] \notin S /\ s[h + i] \notin T
    BY <1>1, <2>1
  <2> QED
    BY <1>5, <2>2
<1>9. Those(b, S) = <<>>
  <2>1. \A i \in DOMAIN b : b[i] \notin S
    BY <1>7, <1>8
  <2> QED
    BY <1>5, <2>1, ThoseNone
<1>10. Those(b, T) = <<s[p]>>
  <2>1. 0 \in 0 .. Len(b) /\ 1 \in 0 .. Len(b)
    BY <1>5, <1>6
  <2>2. \A i \in DOMAIN b : b[i] \in T <=> 0 < i /\ i <= 1
    <3> SUFFICES ASSUME NEW i \in DOMAIN b PROVE b[i] \in T <=> 0 < i /\ i <= 1
      OBVIOUS
    <3>1. i \in Nat /\ i >= 1
      BY <1>6
    <3> QED
      BY <1>7, <1>8, <3>1
  <2>0. PICK z \in 0 .. Len(b) : z = 0
    BY <2>1
  <2>3. PICK o \in z .. Len(b) : z = 0 /\ o = 1
    BY <1>5, <2>0, <2>1
  <2>4. Those(b, T) = SubSeq(b, z + 1, o)
    <3>1. \A i \in DOMAIN b : b[i] \in T <=> z < i /\ i <= o
      BY <2>2, <2>3
    <3> QED
      BY <1>0, <3>1, ThoseInterval
  <2>5. PICK c : c = Those(b, T)
    OBVIOUS
  <2>6. c = SubSeq(b, 1, o)
    BY <2>3, <2>4, <2>5
  <2>7. SubSeq(b, 1, o) \in Seq(X) /\ Len(SubSeq(b, 1, o)) = o /\ \A i \in 1 .. o : SubSeq(b, 1, o)[i] = b[i]
    <3>1. o \in 0 .. Len(b) /\ Len(b) \in o .. Len(b)
      BY <2>3
    <3> QED
      BY <1>5, <3>1, Cut
  <2>8. c \in Seq(X) /\ Len(c) = 1 /\ c[1] = b[1]
    <3>1. c \in Seq(X) /\ Len(c) = o /\ \A i \in 1 .. o : c[i] = b[i]
      BY <2>6, <2>7, Zenon
    <3> QED
      BY <2>3, <3>1
  <2>9. c = <<b[1]>>
    BY <2>8
  <2> QED
    BY <1>7, <2>5, <2>9
<1>11. Those(a, T) = Those(a, S)
  <2>1. \A i \in DOMAIN a : a[i] \in T <=> a[i] \in S
    <3> SUFFICES ASSUME NEW i \in 1 .. h PROVE a[i] \in T <=> a[i] \in S
      BY <1>6
    <3>1. i \in DOMAIN s /\ i < p
      BY <1>1, <1>2, <1>3
    <3> QED
      BY <1>5, <3>1
  <2> QED
    BY <1>5, <2>1, ThoseSame
<1>12. Those(s, S) = Those(a, S) \o Those(b, S) /\ Those(s, T) = Those(a, T) \o Those(b, T)
  <2>1. Those(a \o b, S) = Those(a, S) \o Those(b, S)
    BY <1>0, ThoseConcat
  <2>2. Those(a \o b, T) = Those(a, T) \o Those(b, T)
    BY <1>0, ThoseConcat
  <2> QED
    BY <1>5, <2>1, <2>2, Zenon
<1>13. PICK u \in Seq(X) : u = Those(a, S)
  BY <1>5, ThoseOrder
<1>14. Those(s, S) = u
  BY <1>9, <1>12, <1>13
<1>15. Those(s, T) = u \o <<s[p]>>
  BY <1>10, <1>11, <1>12, <1>13, Zenon
<1>16. s[p] \in X
  OBVIOUS
<1> QED
  BY <1>13, <1>14, <1>15, <1>16, AppendIsConcat

\* The stage at which the run halted is the next one, or the last one, of the answers.
LEMMA HaltedNext ==
    ASSUME NEW L, NEW f, NEW n, Good(L, f, n), f \in Stage, NEW S, Answers(L, f, n, S),
           NEW rows, rows = Those(L.calls, S), NEW order, order = Order(L)
    PROVE  f \in {order[i] : i \in {Len(rows), Len(rows) + 1} \intersect DOMAIN order}
<1>1. Selected(L, n, S, rows) /\ Agrees(rows, order) /\ Lists(order, LeftOut(L))
  BY SelectedFacts, StagesAgree, OrderLists DEF Answers
<1>2. PICK m \in Nat, k \in Nat : m = Len(rows) /\ k = Len(order) /\ DOMAIN order = 1 .. k
  BY <1>1 DEF Selected, Lists
<1>3. f \notin LeftOut(L)
  <2> SUFFICES ASSUME NEW d \in ToSet(L.left), d.stage = f PROVE FALSE
    BY DEF LeftOut
  <2>1. d.stage < f /\ f \in Nat
    BY LeftIds, GoodParts
  <2> QED
    BY <2>1
<1>4. PICK j \in 1 .. k : order[j] = f
  <2>1. f \in Stage \ LeftOut(L)
    BY <1>3
  <2> QED
    BY <1>1, <1>2, <2>1 DEF Lists
<1>5. \A a, b \in 1 .. k : a < b => order[a] < order[b]
  BY <1>1, <1>2, Zenon DEF Lists
<1>6. \A i \in 1 .. m : i \in 1 .. k /\ rows[i].stage = order[i]
  <2>1. m <= k /\ \A i \in 1 .. m : rows[i].stage = order[i]
    BY <1>1, <1>2, Zenon DEF Agrees
  <2> QED
    BY <2>1
<1>7. ~(j < m)
  <2> SUFFICES ASSUME j < m PROVE FALSE
    OBVIOUS
  <2>1. m \in 1 .. m /\ m \in 1 .. k
    BY <1>6
  <2>2. f < order[m]
    BY <1>4, <1>5, <2>1
  <2>3. PICK p \in 1 .. Len(L.calls) : rows[m] = L.calls[p] /\ Stands(L, n, p)
    BY <1>1, <1>2, <2>1 DEF Selected
  <2>4. L.calls[p].stage <= f
    BY <2>3 DEF Good, Sorted, Stands
  <2>5. order[m] <= f
    BY <1>6, <2>1, <2>3, <2>4
  <2>6. order[m] \in Nat /\ f \in Nat
    <3>1. order \in Seq(Nat)
      BY <1>1, Zenon DEF Lists
    <3> QED
      BY <1>2, <2>1, <3>1, GoodParts
  <2> QED
    BY <2>2, <2>5, <2>6
<1>8. ~(m + 1 < j)
  <2> SUFFICES ASSUME m + 1 < j PROVE FALSE
    OBVIOUS
  <2>1. m + 1 \in 1 .. k
    BY <1>2
  <2>2. PICK t : t = order[m + 1]
    OBVIOUS
  <2>3. t < f
    BY <1>4, <1>5, <2>1, <2>2
  <2>4. t \in Stage \ LeftOut(L)
    BY <1>1, <1>2, <2>1, <2>2 DEF Lists
  <2>5. t \in 1 .. f - 1
    <3>1. LastStage \in Nat /\ f \in Nat
      BY GoodParts
    <3> QED
      BY <2>3, <2>4, <3>1 DEF Stage
  <2>6. PICK p \in 1 .. Len(L.calls) : L.calls[p] \in S /\ L.calls[p].stage = t
    BY <2>4, <2>5 DEF Answers
  <2>7. PICK i \in 1 .. m : rows[i] = L.calls[p]
    BY <1>1, <1>2, <2>6 DEF Selected
  <2>8. order[i] = t /\ i \in 1 .. k /\ i < m + 1
    BY <1>6, <2>6, <2>7
  <2>9. order[i] < order[m + 1]
    BY <1>5, <2>1, <2>8
  <2>10. t \in Nat
    BY <2>4, StageAssumption DEF Stage
  <2> QED
    BY <2>2, <2>8, <2>9, <2>10
<1>9. j = m \/ j = m + 1
  BY <1>2, <1>7, <1>8
<1>10. j \in {Len(rows), Len(rows) + 1} \intersect DOMAIN order
  BY <1>2, <1>9
<1> QED
  BY <1>4, <1>10

\* The calls that no answer exchanged accounts for are of the stage that stopped.
LEMMA HaltedTail ==
    ASSUME NEW L, NEW f, NEW n, Good(L, f, n), L.halted = f, NEW S, Answers(L, f, n, S),
           NEW rows, rows = Those(L.calls, S)
    PROVE  TailBelongs(L, rows)
<1>1. Selected(L, n, S, rows) /\ L.calls \in Seq(Call) /\ DOMAIN L.calls = 1 .. Len(L.calls)
  BY SelectedFacts, GoodParts DEF Answers
<1>2. rows \in Seq(Call) /\ DOMAIN rows = 1 .. Len(rows)
  BY <1>1, Zenon DEF Selected
<1>3. ASSUME NEW i \in DOMAIN L.calls, L.calls[i].id \notin Excluded(L) \union IdsOf(rows)
      PROVE  L.calls[i].stage = L.halted /\ i = n /\ L.calls[i] \notin S
  <2>1. i \in 1 .. Len(L.calls) /\ Stands(L, n, i)
    BY <1>1, <1>3, CandidateStands
  <2>2. L.calls[i] \notin S
    <3> SUFFICES ASSUME L.calls[i] \in S PROVE FALSE
      OBVIOUS
    <3>1. PICK j \in DOMAIN rows : rows[j] = L.calls[i]
      BY <1>1, <1>2, <2>1 DEF Selected
    <3>2. rows[j].id \in IdsOf(rows)
      BY <1>2, IdsIndex
    <3> QED
      BY <1>3, <3>1, <3>2
  <2>3. i \in 1 .. n /\ Ends(L, n, i) /\ L.calls[i].stage \notin LeftOut(L)
    BY <2>1 DEF Stands
  <2>4. L.calls[i].stage = f
    <3> SUFFICES ASSUME L.calls[i].stage # f PROVE FALSE
      OBVIOUS
    <3>1. L.calls[i] \in Call /\ f \in Nat /\ L.calls[i].stage <= f
      BY <2>1, <2>3, GoodParts DEF Good, Sorted
    <3>2. L.calls[i].stage \in 1 .. f - 1
      BY <3>1, CallParts
    <3>3. PICK p \in 1 .. Len(L.calls) : L.calls[p] \in S /\ L.calls[p].stage = L.calls[i].stage
      BY <2>3, <3>2 DEF Answers
    <3>4. Stands(L, n, p)
      BY <3>3 DEF Answers
    <3>5. p = i
      BY <2>1, <3>3, <3>4, OneStands
    <3> QED
      BY <2>2, <3>3, <3>5
  <2>5. i = n
    BY <2>3, <2>4, FrontierLast
  <2> QED
    BY <2>2, <2>4, <2>5
<1>4. ASSUME rows # <<>> PROVE \E p \in 1 .. n : L.calls[p] \in S /\ IndexOf(L.calls, Last(rows).id) = p
  <2>1. Len(rows) \in 1 .. Len(rows) /\ Last(rows) = rows[Len(rows)]
    BY <1>2, <1>4 DEF Last
  <2>2. PICK p \in 1 .. Len(L.calls) : rows[Len(rows)] = L.calls[p] /\ L.calls[p] \in S /\ Stands(L, n, p)
    BY <1>1, <2>1 DEF Selected
  <2>3. IndexOf(L.calls, L.calls[p].id) = p
    BY GoodIds
  <2>4. p \in 1 .. n
    BY <2>2 DEF Stands
  <2> QED
    BY <2>1, <2>2, <2>3, <2>4
<1>5. PICK last : last = IF rows = <<>> THEN 0 ELSE IndexOf(L.calls, Last(rows).id)
  OBVIOUS
<1>6. \A i \in DOMAIN L.calls : L.calls[i].id \notin Excluded(L) \union IdsOf(rows) =>
          i > last /\ L.calls[i].stage = L.halted
  <2> SUFFICES ASSUME NEW i \in DOMAIN L.calls, L.calls[i].id \notin Excluded(L) \union IdsOf(rows)
               PROVE  i > last
    BY <1>3
  <2>1. i = n /\ L.calls[i] \notin S /\ i \in Nat /\ i >= 1 /\ n \in Nat
    BY <1>1, <1>3, GoodParts
  <2>2. CASE rows = <<>>
    BY <1>5, <2>1, <2>2
  <2>3. CASE rows # <<>>
    <3>1. PICK p \in 1 .. n : L.calls[p] \in S /\ IndexOf(L.calls, Last(rows).id) = p
      BY <1>4, <2>3
    <3>2. last = p
      BY <1>5, <2>3, <3>1
    <3>3. p # n
      BY <2>1, <3>1
    <3> QED
      BY <2>1, <3>2, <3>3
  <2> QED
    BY <2>2, <2>3
<1> QED
  BY <1>5, <1>6, Zenon DEF TailBelongs

\* The stages of the answers are the first ones of the order.
LEMMA StagesFront ==
    ASSUME NEW L, NEW f, NEW n, Good(L, f, n), NEW S, Answers(L, f, n, S), NEW rows, rows = Those(L.calls, S),
           NEW order, order = Order(L)
    PROVE  Len(rows) <= Len(order) /\ StagesOf(rows) = SubSeq(order, 1, Len(rows))
<1>1. Selected(L, n, S, rows) /\ Agrees(rows, order) /\ Lists(order, LeftOut(L))
  BY SelectedFacts, StagesAgree, OrderLists DEF Answers
<1>2. order \in Seq(Nat) /\ DOMAIN rows = 1 .. Len(rows) /\ Len(rows) \in Nat /\ Len(rows) <= Len(order)
  BY <1>1, Zenon DEF Selected, Lists, Agrees
<1>3. PICK stages : stages = StagesOf(rows)
  OBVIOUS
<1>4. stages = [i \in 1 .. Len(rows) |-> stages[i]] /\ \A i \in 1 .. Len(rows) : stages[i] = rows[i].stage
  BY <1>2, <1>3 DEF StagesOf
<1>5. \A i \in 1 .. Len(rows) : stages[i] = order[i]
  BY <1>1, <1>4 DEF Agrees
<1>6. stages = SubSeq(order, 1, Len(rows))
  BY <1>2, <1>4, <1>5, SubSeqIs
<1> QED
  BY <1>2, <1>3, <1>6

\* A halted ledger is one its reader accepts, with such answers.
LEMMA HaltedFrom ==
    ASSUME NEW L, NEW f, NEW n, Good(L, f, n), f \in Stage, L.halted = f, ~L.interrupted,
           NEW S, Readable(L, n, S), Answers(L, f, n, S), NEW rows, rows = Those(L.calls, S)
    PROVE  HaltedReads(L, rows)
<1>1. RecoveriesValid(L, FALSE) /\ DegradedProven(L)
  BY GoodRecoveries
<1>2. BindsInOrder(L, rows) /\ TailBelongs(L, rows)
  BY ReadableBinds, HaltedTail
<1>3. PICK order : order = Order(L)
  OBVIOUS
<1>4. Len(rows) <= Len(order) /\ StagesOf(rows) = SubSeq(order, 1, Len(rows))
  BY <1>3, StagesFront
<1>5. L.halted \in {order[i] : i \in {Len(rows), Len(rows) + 1} \intersect DOMAIN order}
  BY <1>3, HaltedNext
<1>6. \A s \in LeftOut(L) : s < L.halted
  BY LeftIds DEF LeftOut
<1>7. L.halted # 0
  BY StageAssumption DEF Stage
<1>8. ASSUME NEW r \in ToSet(L.rows) PROVE r.stage <= L.halted /\ (r.retry = NoCall => r.stage = L.halted)
  <2>1. CASE ~Plain(r)
    <3>1. r.stage = LastStage /\ f = LastStage
      BY <2>1 DEF Good, RepairLast, RepairRow
    <3> QED
      BY <3>1, StageAssumption
  <2>2. CASE Plain(r)
    <3>1. PICK i \in 1 .. n : GrantedBy(L, f, n, r, i)
      BY <2>2, RowPlace
    <3>2. L.calls[i].stage <= f
      BY DEF Good, Sorted
    <3>3. r.retry = NoCall => r.stage = f
      <4>1. ASSUME i < n, r.retry = NoCall PROVE r.retry # L.calls[i + 1].id
        <5>1. i + 1 \in 1 .. Len(L.calls)
          <6>1. n \in Nat /\ n <= Len(L.calls) /\ Len(L.calls) \in Nat
            BY GoodParts
          <6> QED
            BY <4>1, <6>1
        <5> QED
          BY <4>1, <5>1, GoodIds
      <4> QED
        BY <3>1, <4>1 DEF GrantedBy
    <3> QED
      BY <3>1, <3>2, <3>3 DEF GrantedBy
  <2> QED
    BY <2>1, <2>2
<1> QED
  BY <1>1, <1>2, <1>3, <1>4, <1>5, <1>6, <1>7, <1>8, Zenon DEF HaltedReads

\* The answers before the stage that stopped make a halted record.
LEMMA HaltedBefore ==
    ASSUME NEW L, NEW f, NEW n, Good(L, f, n), f \in Stage, L.halted = f, ~L.interrupted
    PROVE  HaltedReads(L, ExchangedBefore(L, f))
<1>1. f \in Nat /\ f <= f
  BY GoodParts
<1> QED
  BY <1>1, ExchangedAnswers, HaltedFrom

\* And with the parsed answer that this stage refused.
LEMMA HaltedRefused ==
    ASSUME NEW L, NEW f, NEW n, Good(L, f, n), f \in Stage, L.halted = f, ~L.interrupted,
           NEW R, R = {c \in Call : c.stage = f /\ c.end \in {"misfit", "numbers"} /\ c.id \notin Excluded(L)},
           Those(L.calls, R) # <<>>
    PROVE  HaltedReads(L, Append(ExchangedBefore(L, f), Last(Those(L.calls, R))))
<1>1. /\ f \in Nat /\ f <= f /\ n \in Nat /\ n <= Len(L.calls) /\ Len(L.calls) \in Nat
      /\ L.calls \in Seq(Call) /\ DOMAIN L.calls = 1 .. Len(L.calls)
  BY GoodParts
<1>2. PICK S : S = ExchangedSet(f)
  OBVIOUS
<1>3. ExchangedBefore(L, f) = Those(L.calls, S) /\ Readable(L, n, S) /\ Answers(L, f, n, S)
  BY <1>1, <1>2, ExchangedAnswers
<1>4. PICK refused : refused = Those(L.calls, R)
  OBVIOUS
<1>5. ASSUME NEW p \in 1 .. Len(L.calls), L.calls[p] \in R
      PROVE  p = n /\ Stands(L, n, p) /\ Answered(L.calls[p]) /\ (Parses(L.calls[p]) \/ L.calls[p].end = "numbers")
  <2>1. Stands(L, n, p)
    BY <1>5, CandidateStands
  <2>2. p = n
    BY <1>5, <2>1, FrontierLast DEF Stands
  <2> QED
    BY <1>5, <2>1, <2>2 DEF Answered, Parses
<1>6. Selected(L, n, R, refused)
  BY <1>4, <1>5, SelectedFacts
<1>7. refused \in Seq(Call) /\ DOMAIN refused = 1 .. Len(refused)
  BY <1>6, Zenon DEF Selected
<1>8. Len(refused) \in 1 .. Len(refused) /\ Last(refused) = refused[Len(refused)]
  BY <1>4, <1>7 DEF Last
<1>9. PICK p \in 1 .. Len(L.calls) : refused[Len(refused)] = L.calls[p] /\ L.calls[p] \in R
  BY <1>6, <1>8 DEF Selected
<1>10. p = n /\ Last(refused) = L.calls[n] /\ L.calls[n] \in R /\ n \in 1 .. Len(L.calls)
  BY <1>5, <1>8, <1>9
<1>11. PICK T : T = S \union {L.calls[n]}
  OBVIOUS
<1>12. ASSUME NEW q \in 1 .. Len(L.calls), L.calls[q] = L.calls[n] PROVE q = n
  <2>1. L.calls[q].id = L.calls[n].id
    BY <1>12
  <2> QED
    BY <1>10, <2>1, GoodIds
<1>13. L.calls[n] \notin S
  <2>1. L.calls[n].stage = f
    BY <1>10
  <2> QED
    BY <1>1, <1>2, <2>1 DEF ExchangedSet
<1>14. ASSUME NEW q \in 1 .. Len(L.calls), n < q PROVE L.calls[q] \notin S /\ L.calls[q] \notin T
  <2>1. L.calls[q] \notin S
    <3> SUFFICES ASSUME L.calls[q] \in S PROVE FALSE
      OBVIOUS
    <3>1. q \in 1 .. n
      BY <1>3 DEF Readable, Stands
    <3> QED
      BY <1>1, <1>14, <3>1
  <2>2. L.calls[q] # L.calls[n]
    BY <1>1, <1>12, <1>14
  <2> QED
    BY <1>11, <2>1, <2>2
<1>15. ASSUME NEW q \in 1 .. Len(L.calls), q < n PROVE L.calls[q] \in S <=> L.calls[q] \in T
  <2>1. L.calls[q] # L.calls[n]
    BY <1>1, <1>12, <1>15
  <2> QED
    BY <1>11, <2>1
<1>16. Those(L.calls, T) = Append(Those(L.calls, S), L.calls[n])
  BY <1>1, <1>10, <1>11, <1>13, <1>14, <1>15, ThoseOneMore
<1>17. Readable(L, n, T)
  <2> SUFFICES ASSUME NEW q \in 1 .. Len(L.calls), L.calls[q] \in T
               PROVE  Stands(L, n, q) /\ Answered(L.calls[q]) /\ (Parses(L.calls[q]) \/ L.calls[q].end = "numbers")
    BY DEF Readable
  <2>1. CASE L.calls[q] \in S
    BY <1>3, <2>1 DEF Readable
  <2>2. CASE L.calls[q] = L.calls[n]
    BY <1>5, <1>10, <1>12, <2>2
  <2> QED
    BY <1>11, <2>1, <2>2
<1>18. Answers(L, f, n, T)
  <2>1. \A q \in 1 .. Len(L.calls) : L.calls[q] \in T => Stands(L, n, q)
    BY <1>17, Zenon DEF Readable
  <2>2. \A t \in 1 .. f - 1 : t \notin LeftOut(L) =>
          \E q \in 1 .. Len(L.calls) : L.calls[q] \in T /\ L.calls[q].stage = t
    BY <1>3, <1>11 DEF Answers
  <2> QED
    BY <2>1, <2>2, Zenon DEF Answers
<1>19. HaltedReads(L, Those(L.calls, T))
  BY <1>17, <1>18, HaltedFrom
<1> QED
  BY <1>3, <1>4, <1>10, <1>16, <1>19, Zenon

---------------------------------------------------------------------------
(* What a step leaves of a good ledger. *)

\* What Good says of a ledger depends on its calls, rows and left-out stages:
\* a halt that spares the left-out stages, and more spent, leave it good.
LEMMA GoodSame ==
    ASSUME NEW L, NEW f, NEW n, Good(L, f, n), NEW M \in Ledger,
           M.calls = L.calls, M.rows = L.rows, M.left = L.left,
           M.halted \notin LeftOut(L), M.spent >= Len(L.calls)
    PROVE  Good(M, f, n)
<1>1. f \in 1 .. LastStage + 1 /\ n \in 0 .. Len(L.calls)
  BY DEF Good
<1>2. Identified(M)
  <2>1. Identified(L)
    BY DEF Good
  <2> QED
    BY <2>1, Zenon DEF Identified
<1>3. Sorted(M, f, n)
  <2>1. Sorted(L, f, n)
    BY DEF Good
  <2> QED
    BY <2>1, Zenon DEF Sorted
<1>4. Linked(M, n)
  <2>1. Linked(L, n)
    BY DEF Good
  <2> QED
    BY <2>1, Zenon DEF Linked
<1>5. Granted(M, f, n)
  <2>1. Granted(L, f, n)
    BY DEF Good
  <2> QED
    <3>1. \A r, i : GrantedBy(L, f, n, r, i) => GrantedBy(M, f, n, r, i)
      BY Zenon DEF GrantedBy
    <3> QED
      BY <2>1, <3>1, Zenon DEF Granted
<1>6. RepairLast(M, f, n)
  <2>1. RepairLast(L, f, n)
    BY DEF Good
  <2> QED
    BY <2>1, Zenon DEF RepairLast, RepairRow, Refused
<1>7. LeftOut(M) = LeftOut(L)
  BY Zenon DEF LeftOut
<1>8. Settled(M, f, n)
  <2>1. Settled(L, f, n)
    BY DEF Good
  <2> QED
    <3>1. \A i : Ends(L, n, i) => Ends(M, n, i)
      BY Zenon DEF Ends
    <3> QED
      BY <2>1, <1>7, <3>1, Zenon DEF Settled
<1>9. Dropped(M, f)
  <2>1. Dropped(L, f)
    BY DEF Good
  <2> QED
    BY <2>1, Zenon DEF Dropped, DegradedProven
<1>10. StateValid(M)
  <2>1. StateValid(L)
    BY DEF Good
  <2> DEFINE rows == L.rows
  <2>2. /\ Len(rows) <= MaxExtra
        /\ \A i, j \in DOMAIN rows : i < j /\ rows[i].stage = rows[j].stage =>
              \/ rows[j].reason = "numbers"
              \/ /\ rows[i].reason = "transport" /\ rows[j].reason \in Chained
                 /\ rows[i].retry # NoCall /\ rows[i].retry = rows[j].failed
        /\ \A i \in DOMAIN rows : rows[i].reason = "numbers" => i = Len(rows) /\ rows[i].stage = LastStage
    BY <2>1, Zenon DEF StateValid
  <2>3. LeftOut(L) \subseteq Degradable \ {L.halted}
    BY <2>1, Zenon DEF StateValid
  <2>4. /\ \A i, j \in DOMAIN L.left : L.left[i].stage = L.left[j].stage => i = j
        /\ \A d \in ToSet(L.left) : d.ids # <<>>
    BY <2>1, Zenon DEF StateValid
  <2>5. LeftOut(M) \subseteq Degradable \ {M.halted}
    BY <1>7, <2>3
  <2> QED
    BY <2>2, <2>4, <2>5, Zenon DEF StateValid
<1> QED
  BY <1>1, <1>2, <1>3, <1>4, <1>5, <1>6, <1>8, <1>9, <1>10, Zenon DEF Good

\* Two sequences that differ only where neither is selected give the same.
LEMMA ThoseOther ==
    ASSUME NEW s, NEW t, NEW S, Len(s) \in Nat, Len(t) = Len(s),
           \A i \in 1 .. Len(s) : s[i] = t[i] \/ (s[i] \notin S /\ t[i] \notin S)
    PROVE  Those(s, S) = Those(t, S)
<1>1. PICK f : Selects(f, s, S, Len(s)) /\ Those(s, S) = f[Len(s)]
  BY ThoseSelects
<1>2. PICK g : Selects(g, t, S, Len(s)) /\ Those(t, S) = g[Len(s)]
  <2>1. Len(t) \in Nat
    OBVIOUS
  <2>2. \E g : Selects(g, t, S, Len(t)) /\ Those(t, S) = g[Len(t)]
    BY <2>1, ThoseSelects
  <2> QED
    BY <2>2
<1> DEFINE m == Len(s)
           T == {n \in Nat : n <= m => f[n] = g[n]}
<1>3. \A i \in 0 .. m : f[i] = IF i = 0 THEN <<>>
                               ELSE IF s[i] \in S THEN Append(f[i - 1], s[i]) ELSE f[i - 1]
  BY <1>1, Zenon DEF Selects
<1>4. \A i \in 0 .. m : g[i] = IF i = 0 THEN <<>>
                               ELSE IF t[i] \in S THEN Append(g[i - 1], t[i]) ELSE g[i - 1]
  BY <1>2, Zenon DEF Selects
<1>5. 0 \in T
  <2>1. 0 \in 0 .. m
    OBVIOUS
  <2> QED
    BY <1>3, <1>4, <2>1
<1>6. ASSUME NEW n \in Nat, n \in T PROVE n + 1 \in T
  <2>1. SUFFICES ASSUME n + 1 <= m PROVE f[n + 1] = g[n + 1]
    OBVIOUS
  <2>2. n + 1 \in 0 .. m /\ n + 1 # 0 /\ (n + 1) - 1 = n /\ n + 1 \in 1 .. m
    BY <2>1
  <2>3. f[n] = g[n]
    BY <1>6, <2>1
  <2>4. f[n + 1] = IF s[n + 1] \in S THEN Append(f[n], s[n + 1]) ELSE f[n]
    BY <1>3, <2>2
  <2>5. g[n + 1] = IF t[n + 1] \in S THEN Append(g[n], t[n + 1]) ELSE g[n]
    BY <1>4, <2>2
  <2>6. s[n + 1] = t[n + 1] \/ (s[n + 1] \notin S /\ t[n + 1] \notin S)
    BY <2>2
  <2> QED
    BY <2>3, <2>4, <2>5, <2>6
<1> HIDE DEF T
<1>7. Nat \subseteq T
  BY <1>5, <1>6, NatSetInduction
<1>8. f[m] = g[m]
  BY <1>7 DEF T
<1> QED
  BY <1>1, <1>2, <1>8

---------------------------------------------------------------------------
(* What keeps the proof of the left-out stages. *)

\* The rows whose failed call is before the call at p.
Behind(L, p) == {r \in Row : \E i \in 1 .. p - 1 : r.failed = L.calls[i].id}

\* check_degraded() of one left-out stage.
Unusable(L, s) ==
    LET mine == StageCalls(L.calls, s)
        last == Last(mine)
        earlier == Those(L.rows, {r \in Row : /\ r.failed \in IdsOf(L.calls)
                          /\ IndexOf(L.calls, r.failed) < IndexOf(L.calls, last.id)})
    IN /\ mine # <<>> /\ \A c \in ToSet(mine) : ~Usable(c)
       /\ \/ FailureReason(last) = "none" \/ last.end = "cut_refused"
          \/ ~MayReserve(earlier, s, last, FailureReason(last))

\* DegradedProven asks that of each.
LEMMA EachUnusable ==
    ASSUME NEW L
    PROVE  DegradedProven(L) <=> \A d \in ToSet(L.left) : Unusable(L, d.stage)
BY Zenon DEF DegradedProven, Unusable

\* The earlier rows are the ones of a failed call before the last.
LEMMA EarlierBehind ==
    ASSUME NEW L, L.calls \in Seq(Call), Identified(L), NEW p \in DOMAIN L.calls
    PROVE  {r \in Row : /\ r.failed \in IdsOf(L.calls)
                        /\ IndexOf(L.calls, r.failed) < IndexOf(L.calls, L.calls[p].id)} = Behind(L, p)
<1>1. IndexOf(L.calls, L.calls[p].id) = p /\ p \in Nat /\ Len(L.calls) \in Nat /\ DOMAIN L.calls = 1 .. Len(L.calls)
  BY OneIndex
<1>2. \A i \in DOMAIN L.calls : IndexOf(L.calls, L.calls[i].id) = i
  BY OneIndex
<1>3. \A id \in IdsOf(L.calls) : \E i \in DOMAIN L.calls : id = L.calls[i].id
  BY IdsIndex
<1>4. \A i \in DOMAIN L.calls : L.calls[i].id \in IdsOf(L.calls)
  BY IdsIndex
<1>5. ASSUME NEW r \in Row, r.failed \in IdsOf(L.calls), IndexOf(L.calls, r.failed) < p
      PROVE  \E i \in 1 .. p - 1 : r.failed = L.calls[i].id
  <2>1. PICK i \in DOMAIN L.calls : r.failed = L.calls[i].id
    BY <1>3, <1>5
  <2>2. IndexOf(L.calls, r.failed) = i
    BY <1>2, <2>1, Zenon
  <2>3. i \in 1 .. p - 1
    BY <1>1, <1>5, <2>2
  <2> QED
    BY <2>1, <2>3
<1>6. ASSUME NEW r \in Row, NEW i \in 1 .. p - 1, r.failed = L.calls[i].id
      PROVE  r.failed \in IdsOf(L.calls) /\ IndexOf(L.calls, r.failed) < p
  <2>1. i \in DOMAIN L.calls /\ i < p
    BY <1>1
  <2>2. IndexOf(L.calls, r.failed) = i
    BY <1>2, <1>6, <2>1, Zenon
  <2>3. r.failed \in IdsOf(L.calls)
    BY <1>4, <1>6, <2>1, Zenon
  <2> QED
    BY <2>1, <2>2, <2>3
<1> QED
  BY <1>1, <1>5, <1>6, Zenon DEF Behind

\* A stage stays proven left out when its calls, the calls before its last
\* one and their rows stay.
LEMMA UnusableKept ==
    ASSUME NEW L, NEW f, NEW n, Good(L, f, n), NEW t, Unusable(L, t),
           NEW M, M.calls \in Seq(Call), Identified(M),
           StageCalls(M.calls, t) = StageCalls(L.calls, t),
           NEW k \in 0 .. n, k <= Len(M.calls),
           \A i \in 1 .. k : M.calls[i].id = L.calls[i].id,
           \A p \in 1 .. n : L.calls[p].stage = t => p <= k,
           \A p \in 1 .. k : Those(M.rows, Behind(L, p)) = Those(L.rows, Behind(L, p))
    PROVE  Unusable(M, t)
<1> DEFINE mine == StageCalls(L.calls, t)
           last == Last(mine)
<1>1. L.calls \in Seq(Call) /\ Identified(L) /\ n \in Nat /\ n <= Len(L.calls) /\ Len(L.calls) \in Nat
      /\ DOMAIN L.calls = 1 .. Len(L.calls)
  BY GoodParts DEF Good
<1>2. mine # <<>>
  BY Zenon DEF Unusable
<1>3. mine \in Seq(Call)
  <2>1. \A those : those = Those(L.calls, {c \in Call : c.stage = t /\ c.attempt > 0}) => those \in Seq(Call)
    BY <1>1, ThoseOrder
  <2> QED
    BY <2>1, Zenon DEF StageCalls
<1>4. last \in ToSet(mine)
  <2> HIDE DEF mine
  <2>1. Len(mine) \in DOMAIN mine
    BY <1>2, <1>3
  <2>2. mine[Len(mine)] \in ToSet(mine)
    BY <1>3, <2>1, ToSetIndex
  <2> QED
    BY <2>2 DEF Last
<1>5. PICK p \in 1 .. n : last = L.calls[p] /\ L.calls[p].stage = t
  <2>1. CallsAt(L, n, t)
    BY StageCallsPlaces
  <2> QED
    BY <1>4, <2>1, Zenon DEF CallsAt
<1>6. p \in 1 .. k /\ p \in DOMAIN L.calls /\ p \in DOMAIN M.calls /\ M.calls[p].id = L.calls[p].id
  <2>1. p <= k
    BY <1>5
  <2>2. p \in 1 .. k /\ p \in 1 .. Len(L.calls) /\ p \in 1 .. Len(M.calls)
    BY <1>1, <2>1
  <2> QED
    BY <1>1, <2>2
<1>7. Behind(M, p) = Behind(L, p)
  <2>1. \A i \in 1 .. p - 1 : M.calls[i].id = L.calls[i].id
    BY <1>6
  <2> QED
    BY <2>1, Zenon DEF Behind
<1> DEFINE earlier(K) == {r \in Row : /\ r.failed \in IdsOf(K.calls)
                              /\ IndexOf(K.calls, r.failed) < IndexOf(K.calls, last.id)}
<1>8. earlier(L) = Behind(L, p)
  BY <1>1, <1>5, <1>6, EarlierBehind, Zenon
<1>9. earlier(M) = Behind(M, p)
  <2>1. last.id = M.calls[p].id
    BY <1>5, <1>6, Zenon
  <2>2. {r \in Row : /\ r.failed \in IdsOf(M.calls)
                     /\ IndexOf(M.calls, r.failed) < IndexOf(M.calls, M.calls[p].id)} = Behind(M, p)
    BY <1>6, EarlierBehind
  <2> QED
    BY <2>1, <2>2, Zenon
<1>10. Those(M.rows, earlier(M)) = Those(L.rows, earlier(L))
  BY <1>6, <1>7, <1>8, <1>9, Zenon
<1>11. /\ mine # <<>> /\ \A c \in ToSet(mine) : ~Usable(c)
       /\ \/ FailureReason(last) = "none" \/ last.end = "cut_refused"
          \/ ~MayReserve(Those(L.rows, earlier(L)), t, last, FailureReason(last))
  BY Zenon DEF Unusable
<1>12. StageCalls(M.calls, t) = mine
  OBVIOUS
<1> HIDE DEF mine
<1> QED
  BY <1>10, <1>11, <1>12, Zenon DEF Unusable

---------------------------------------------------------------------------
(* A call in flight ends. *)

\* The one row that is not bound, and the last call, to which it grants the next.
Waits(L, f, n, s, i) ==
    /\ i \in DOMAIN L.rows /\ L.rows[i] \in Row /\ L.rows[i] \in ToSet(L.rows)
    /\ Plain(L.rows[i]) /\ L.rows[i].retry = NoCall
    /\ s = f /\ n \in 1 .. Len(L.calls) /\ L.rows[i].failed = L.calls[n].id
    /\ L.calls[n].stage = f /\ L.rows[i].stage = f
    /\ FailureReason(L.calls[n]) = L.rows[i].reason /\ L.calls[n].end # "cut_refused"
    /\ Pending(L.rows, s) = {i}

\* A granted call that is not bound is granted to the last call of the frontier.
LEMMA PendingLast ==
    ASSUME NEW L, NEW f, NEW n, Good(L, f, n), NEW s, NEW i \in Pending(L.rows, s)
    PROVE  Waits(L, f, n, s, i)
<1>1. i \in DOMAIN L.rows /\ L.rows[i].stage = s /\ L.rows[i].retry = NoCall /\ Plain(L.rows[i])
  BY DEF Pending, Plain
<1>2. L.rows \in Seq(Row) /\ n \in Nat /\ n <= Len(L.calls) /\ Len(L.calls) \in Nat
      /\ DOMAIN L.rows = 1 .. Len(L.rows) /\ Len(L.rows) \in Nat
  BY GoodParts
<1>3. L.rows[i] \in Row /\ L.rows[i] \in ToSet(L.rows)
  BY <1>1, <1>2, ToSetIndex
<1>4. PICK p \in 1 .. n : GrantedBy(L, f, n, L.rows[i], p)
  BY <1>1, <1>3, RowPlace
<1>5. \A q \in 1 .. Len(L.calls) : L.calls[q].id # NoCall
  BY GoodIds
<1>6. ~(p < n /\ L.rows[i].retry = L.calls[p + 1].id)
  <2>1. p < n => p + 1 \in 1 .. Len(L.calls)
    BY <1>2
  <2> QED
    BY <1>1, <1>5, <2>1
<1>7. p = n /\ L.rows[i].stage = f
  BY <1>4, <1>6 DEF GrantedBy
<1>8. /\ L.rows[i].failed = L.calls[n].id /\ L.rows[i].stage = L.calls[n].stage
      /\ FailureReason(L.calls[n]) = L.rows[i].reason /\ L.calls[n].end # "cut_refused"
  BY <1>4, <1>7, Zenon DEF GrantedBy
<1>9. n \in 1 .. Len(L.calls)
  BY <1>2, <1>7
<1>10. ASSUME NEW j \in Pending(L.rows, s) PROVE j = i
  <2>1. j \in DOMAIN L.rows /\ L.rows[j].stage = s /\ L.rows[j].retry = NoCall /\ Plain(L.rows[j])
    BY DEF Pending, Plain
  <2>2. CASE i < j
    BY <1>1, <2>1, <2>2, TwoRows
  <2>3. CASE j < i
    BY <1>1, <2>1, <2>3, TwoRows
  <2>4. i \in Nat /\ j \in Nat
    BY <1>1, <1>2, <2>1
  <2> QED
    BY <2>2, <2>3, <2>4
<1>11. Pending(L.rows, s) = {i}
  BY <1>10
<1> QED
  BY <1>1, <1>3, <1>7, <1>8, <1>9, <1>11 DEF Waits

\* A refused report waits for no granted call.
LEMMA RefusedWaits ==
    ASSUME NEW L, NEW f, NEW n, Good(L, f, n), Refused(L, n), NEW s
    PROVE  Pending(L.rows, s) = {}
<1> SUFFICES ASSUME NEW i \in Pending(L.rows, s) PROVE FALSE
  OBVIOUS
<1>1. FailureReason(L.calls[n]) = L.rows[i].reason /\ L.rows[i] \in Row
  <2>1. Waits(L, f, n, s, i)
    BY PendingLast
  <2> QED
    BY <2>1, Zenon DEF Waits
<1>2. FailureReason(L.calls[n]) = "none"
  BY DEF Refused, FailureReason
<1>3. L.rows[i].reason \in Reason
  BY <1>1, RowParts
<1> QED
  BY <1>1, <1>2, <1>3 DEF Reason

\* Sentences are repaired of a refused report only.
LEMMA PlainUnless ==
    ASSUME NEW L, NEW f, NEW n, Good(L, f, n), ~Refused(L, n) \/ f # LastStage
    PROVE  n = Len(L.calls) /\ \A r \in ToSet(L.rows) : Plain(r)
<1>1. RepairLast(L, f, n)
  BY DEF Good
<1>2. \A r \in ToSet(L.rows) : Plain(r)
  BY <1>1, Zenon DEF RepairLast
<1> QED
  BY <1>1, <1>2, Zenon DEF RepairLast

\* Where a call is due, no sentence was repaired.
LEMMA DuePlain ==
    ASSUME NEW L, NEW f, NEW n, Good(L, f, n), AtCall(L, f, n)
    PROVE  n = Len(L.calls) /\ \A r \in ToSet(L.rows) : Plain(r)
<1>1. CASE Pending(L.rows, f) # {}
  <2>1. ~Refused(L, n)
    BY <1>1, RefusedWaits
  <2> QED
    BY <2>1, PlainUnless
<1>2. CASE n = 0
  BY <1>2, PlainUnless DEF Refused
<1>3. CASE L.calls[n].stage # f
  BY <1>3, PlainUnless DEF Refused
<1> QED
  BY <1>1, <1>2, <1>3 DEF AtCall

\* The rows, with this call bound to what was granted to the stage.
Rebound(rows, s, id) ==
    [i \in DOMAIN rows |-> IF i \in Pending(rows, s) THEN [rows[i] EXCEPT !.retry = id] ELSE rows[i]]

\* M is U with one more call, of the stage s, bound to what was granted to it.
Grown(U, M, s, m, c) ==
    /\ Good(U, s, m) /\ AtCall(U, s, m) /\ s \in Stage
    /\ M \in Ledger /\ c \in Call /\ M.calls = Append(U.calls, c)
    /\ c.stage = s /\ c.id \notin IdsOf(U.calls) /\ c.id # NoCall
    /\ c.attempt = IF Pending(U.rows, s) # {} THEN 1 + Last(U.calls).attempt ELSE 1
    /\ M.rows = Rebound(U.rows, s, c.id) /\ M.left = U.left
    /\ M.halted \notin LeftOut(U) /\ M.spent >= Len(M.calls)

GrownCalls(U, M, m, c) ==
    /\ m \in Nat /\ m = Len(U.calls) /\ Len(M.calls) = m + 1
    /\ U.calls \in Seq(Call) /\ M.calls \in Seq(Call)
    /\ DOMAIN U.calls = 1 .. m /\ DOMAIN M.calls = 1 .. m + 1
    /\ \A i \in 1 .. m : M.calls[i] = U.calls[i] /\ U.calls[i] \in Call
    /\ M.calls[m + 1] = c

\* Its calls.
LEMMA CallsGrow ==
    ASSUME NEW U, NEW M, NEW s, NEW m, NEW c, Grown(U, M, s, m, c)
    PROVE  GrownCalls(U, M, m, c)
<1>1. Good(U, s, m) /\ c \in Call /\ M.calls = Append(U.calls, c)
  BY Zenon DEF Grown
<1>2. m = Len(U.calls)
  BY DuePlain, Zenon DEF Grown
<1>3. U.calls \in Seq(Call)
  BY <1>1, GoodParts
<1> QED
  BY <1>1, <1>2, <1>3 DEF GrownCalls

GrownRows(U, M, s, c) ==
    /\ U.rows \in Seq(Row) /\ M.rows \in Seq(Row)
    /\ DOMAIN M.rows = DOMAIN U.rows /\ Len(M.rows) = Len(U.rows) /\ DOMAIN U.rows = 1 .. Len(U.rows)
    /\ \A i \in DOMAIN U.rows :
          /\ M.rows[i].stage = U.rows[i].stage /\ M.rows[i].reason = U.rows[i].reason
          /\ M.rows[i].failed = U.rows[i].failed
          /\ i \notin Pending(U.rows, s) => M.rows[i] = U.rows[i]
          /\ i \in Pending(U.rows, s) => M.rows[i].retry = c.id

\* Its rows.
LEMMA RowsGrow ==
    ASSUME NEW U, NEW M, NEW s, NEW m, NEW c, Grown(U, M, s, m, c)
    PROVE  GrownRows(U, M, s, c)
<1>1. Good(U, s, m) /\ c \in Call /\ M \in Ledger
  BY Zenon DEF Grown
<1>2. U.rows \in Seq(Row) /\ DOMAIN U.rows = 1 .. Len(U.rows) /\ Len(U.rows) \in Nat
  BY <1>1, GoodParts
<1>3. M.rows \in Seq(Row)
  BY <1>1 DEF Ledger
<1>4. M.rows = Rebound(U.rows, s, c.id)
  BY Zenon DEF Grown
<1>5. DOMAIN M.rows = DOMAIN U.rows
  BY <1>4, Zenon DEF Rebound
<1>6. Len(M.rows) = Len(U.rows)
  BY <1>2, <1>3, <1>5
<1>7. ASSUME NEW i \in DOMAIN U.rows
      PROVE  /\ M.rows[i].stage = U.rows[i].stage /\ M.rows[i].reason = U.rows[i].reason
             /\ M.rows[i].failed = U.rows[i].failed
             /\ i \notin Pending(U.rows, s) => M.rows[i] = U.rows[i]
             /\ i \in Pending(U.rows, s) => M.rows[i].retry = c.id
  <2>1. M.rows[i] = IF i \in Pending(U.rows, s) THEN [U.rows[i] EXCEPT !.retry = c.id] ELSE U.rows[i]
    BY <1>4, Zenon DEF Rebound
  <2>2. U.rows[i] \in Row
    BY <1>2
  <2> QED
    BY <2>1, <2>2 DEF Row
<1> QED
  BY <1>2, <1>3, <1>5, <1>6, <1>7, Zenon DEF GrownRows

\* Its rows grant what they granted, and its last call.
LEMMA GrownGranted ==
    ASSUME NEW U, NEW M, NEW s, NEW m, NEW c, Grown(U, M, s, m, c), NEW i \in DOMAIN M.rows
    PROVE  /\ Plain(M.rows[i])
           /\ \E p \in 1 .. m : GrantedBy(M, s, m + 1, M.rows[i], p)
           /\ M.rows[i].retry # NoCall
<1>1. Good(U, s, m) /\ c \in Call /\ c.id # NoCall /\ c.stage = s /\ AtCall(U, s, m)
  BY Zenon DEF Grown
<1>2. GrownCalls(U, M, m, c) /\ GrownRows(U, M, s, c)
  BY CallsGrow, RowsGrow
<1>3. i \in DOMAIN U.rows /\ U.rows[i] \in ToSet(U.rows) /\ Plain(U.rows[i])
  <2>1. i \in DOMAIN U.rows /\ U.rows \in Seq(Row)
    BY <1>2, Zenon DEF GrownRows
  <2>2. U.rows[i] \in ToSet(U.rows)
    BY <2>1, ToSetIndex
  <2> QED
    BY <1>1, <2>1, <2>2, DuePlain
<1>4. Plain(M.rows[i])
  BY <1>2, <1>3, Zenon DEF Plain, GrownRows
<1>5. m \in Nat /\ (\A p \in 1 .. m : M.calls[p] = U.calls[p]) /\ M.calls[m + 1] = c /\ m = Len(U.calls)
  BY <1>2 DEF GrownCalls
<1>6. CASE i \in Pending(U.rows, s)
  <2>1. Waits(U, s, m, s, i)
    BY <1>1, <1>6, PendingLast
  <2>2. /\ U.rows[i].failed = U.calls[m].id /\ U.calls[m].stage = s /\ U.rows[i].stage = s
        /\ FailureReason(U.calls[m]) = U.rows[i].reason /\ U.calls[m].end # "cut_refused"
        /\ m \in 1 .. Len(U.calls)
    BY <2>1, Zenon DEF Waits
  <2>3. /\ M.rows[i].failed = U.rows[i].failed /\ M.rows[i].stage = U.rows[i].stage
        /\ M.rows[i].reason = U.rows[i].reason /\ M.rows[i].retry = c.id
    BY <1>2, <1>3, <1>6, Zenon DEF GrownRows
  <2>4. M.calls[m] = U.calls[m] /\ m < m + 1 /\ m \in 1 .. m
    BY <1>5, <2>2
  <2>5. GrantedBy(M, s, m + 1, M.rows[i], m)
    BY <1>1, <1>5, <2>2, <2>3, <2>4, Zenon DEF GrantedBy
  <2> QED
    BY <1>1, <1>4, <2>3, <2>4, <2>5, Zenon
<1>7. CASE i \notin Pending(U.rows, s)
  <2>1. M.rows[i] = U.rows[i]
    BY <1>2, <1>3, <1>7, Zenon DEF GrownRows
  <2>2. PICK p \in 1 .. m : GrantedBy(U, s, m, U.rows[i], p)
    BY <1>1, <1>3, RowPlace
  <2>3. ~(U.rows[i].retry = NoCall /\ U.rows[i].stage = s)
    BY <1>3, <1>7 DEF Pending, Plain
  <2>4. p < m /\ U.rows[i].retry = U.calls[p + 1].id /\ U.calls[p + 1].stage = U.rows[i].stage
    BY <2>2, <2>3, Zenon DEF GrantedBy
  <2>5. p + 1 \in 1 .. m /\ p < m + 1 /\ M.calls[p] = U.calls[p] /\ M.calls[p + 1] = U.calls[p + 1]
    BY <1>5, <2>4
  <2>6. GrantedBy(M, s, m + 1, M.rows[i], p)
    BY <2>1, <2>2, <2>4, <2>5, Zenon DEF GrantedBy
  <2>7. U.calls[p + 1].id # NoCall
    BY <1>1, <1>5, <2>5, GoodIds
  <2> QED
    BY <1>4, <2>1, <2>4, <2>6, <2>7, Zenon
<1> QED
  BY <1>6, <1>7

\* Its calls are the ones of U, and a new one.
LEMMA GrownIdentified ==
    ASSUME NEW U, NEW M, NEW s, NEW m, NEW c, Grown(U, M, s, m, c)
    PROVE  Identified(M)
<1>1. Good(U, s, m) /\ c.id # NoCall /\ c.id \notin IdsOf(U.calls)
  BY Zenon DEF Grown
<1>2. GrownCalls(U, M, m, c)
  BY CallsGrow
<1>3. /\ m \in Nat /\ DOMAIN M.calls = 1 .. m + 1 /\ M.calls[m + 1] = c
      /\ \A i \in 1 .. m : M.calls[i] = U.calls[i]
      /\ m = Len(U.calls) /\ U.calls \in Seq(Call)
  BY <1>2, Zenon DEF GrownCalls
<1>4. \A i \in 1 .. m : M.calls[i].id # NoCall /\ M.calls[i].id # c.id
  <2>1. ASSUME NEW i \in 1 .. m PROVE U.calls[i].id # NoCall /\ U.calls[i].id \in IdsOf(U.calls)
    BY <1>1, <1>3, GoodIds
  <2> QED
    BY <1>1, <1>3, <2>1
<1>5. \A i, j \in 1 .. m : M.calls[i].id = M.calls[j].id => i = j
  <2>1. \A i, j \in 1 .. m : U.calls[i].id = U.calls[j].id => i = j
    BY <1>1, <1>3, GoodIds
  <2> QED
    BY <1>3, <2>1
<1>6. \A i \in 1 .. m + 1 : i \in 1 .. m \/ i = m + 1
  BY <1>3
<1>7. ASSUME NEW i \in 1 .. m + 1 PROVE M.calls[i].id # NoCall
  BY <1>1, <1>3, <1>4, <1>6
<1>8. ASSUME NEW i \in 1 .. m + 1, NEW j \in 1 .. m + 1, M.calls[i].id = M.calls[j].id PROVE i = j
  <2>1. CASE i \in 1 .. m /\ j \in 1 .. m
    BY <1>5, <1>8, <2>1
  <2>2. CASE i = m + 1 /\ j \in 1 .. m
    BY <1>3, <1>4, <1>8, <2>2
  <2>3. CASE i \in 1 .. m /\ j = m + 1
    BY <1>3, <1>4, <1>8, <2>3
  <2> QED
    BY <1>6, <2>1, <2>2, <2>3
<1> QED
  BY <1>3, <1>7, <1>8, Zenon DEF Identified

\* It is the first of its block or the one granted.
LEMMA GrownLinked ==
    ASSUME NEW U, NEW M, NEW s, NEW m, NEW c, Grown(U, M, s, m, c)
    PROVE  Linked(M, m + 1)
<1>1. Good(U, s, m) /\ c.id # NoCall /\ c.stage = s /\ AtCall(U, s, m)
  BY Zenon DEF Grown
<1>2. GrownCalls(U, M, m, c) /\ GrownRows(U, M, s, c)
  BY CallsGrow, RowsGrow
<1>3. /\ m \in Nat /\ M.calls[m + 1] = c /\ \A i \in 1 .. m : M.calls[i] = U.calls[i]
  BY <1>2, Zenon DEF GrownCalls
<1>4. m = Len(U.calls)
  BY <1>2, Zenon DEF GrownCalls
<1>5. M.rows \in Seq(Row) /\ DOMAIN M.rows = DOMAIN U.rows /\ U.rows \in Seq(Row)
  BY <1>2, Zenon DEF GrownRows
<1> DEFINE link(L, i) ==
        \/ /\ i = 1 \/ L.calls[i - 1].stage # L.calls[i].stage
           /\ L.calls[i].attempt = 1
        \/ /\ i > 1 /\ L.calls[i - 1].stage = L.calls[i].stage
           /\ L.calls[i].attempt = L.calls[i - 1].attempt + 1
           /\ \E r \in ToSet(L.rows) : Plain(r) /\ r.failed = L.calls[i - 1].id /\ r.retry = L.calls[i].id
<1>6. ASSUME NEW i \in 1 .. m PROVE link(M, i)
  <2>1. link(U, i)
    <3>1. Linked(U, m)
      BY <1>1 DEF Good
    <3> QED
      BY <3>1, Zenon DEF Linked
  <2>2. M.calls[i] = U.calls[i]
    BY <1>3
  <2>3. i > 1 => M.calls[i - 1] = U.calls[i - 1]
    BY <1>3
  <2>4. CASE i = 1 \/ U.calls[i - 1].stage # U.calls[i].stage
    <3>1. U.calls[i].attempt = 1
      BY <2>1, <2>4
    <3>2. i = 1 \/ i > 1
      OBVIOUS
    <3>3. i = 1 \/ M.calls[i - 1].stage # M.calls[i].stage
      BY <2>2, <2>3, <2>4, <3>2
    <3> QED
      BY <2>2, <3>1, <3>3
  <2>5. CASE ~(i = 1 \/ U.calls[i - 1].stage # U.calls[i].stage)
    <3>1. i > 1 /\ U.calls[i].attempt = U.calls[i - 1].attempt + 1
      BY <2>1, <2>5
    <3>2. PICK r \in ToSet(U.rows) : Plain(r) /\ r.failed = U.calls[i - 1].id /\ r.retry = U.calls[i].id
      BY <2>1, <2>5
    <3>3. PICK j \in DOMAIN U.rows : r = U.rows[j]
      BY <1>5, ToSetIndex
    <3>4. r.retry # NoCall
      <4>1. U.calls[i].id # NoCall
        BY <1>1, <1>4, GoodIds
      <4> QED
        BY <3>2, <4>1
    <3>5. j \notin Pending(U.rows, s)
      BY <3>3, <3>4 DEF Pending
    <3>6. M.rows[j] = r
      BY <1>2, <3>3, <3>5, Zenon DEF GrownRows
    <3>7. r \in ToSet(M.rows)
      BY <1>5, <3>3, <3>6, ToSetIndex
    <3>8. M.calls[i - 1] = U.calls[i - 1] /\ U.calls[i - 1].stage = U.calls[i].stage
      BY <2>3, <2>5, <3>1
    <3> QED
      BY <2>2, <3>1, <3>2, <3>7, <3>8, Zenon
  <2> QED
    BY <2>4, <2>5
<1>7. link(M, m + 1)
  <2>1. CASE Pending(U.rows, s) # {}
    <3>1. PICK e \in Pending(U.rows, s) : TRUE
      BY <2>1
    <3>2. Waits(U, s, m, s, e)
      BY <1>1, PendingLast
    <3>3. /\ e \in DOMAIN U.rows /\ Plain(U.rows[e]) /\ U.rows[e].failed = U.calls[m].id
          /\ U.calls[m].stage = s /\ m \in 1 .. Len(U.calls)
      BY <3>2, Zenon DEF Waits
    <3>4. M.rows[e].failed = U.calls[m].id /\ M.rows[e].retry = c.id /\ Plain(M.rows[e])
      BY <1>2, <3>1, <3>3, Zenon DEF GrownRows, Plain
    <3>5. M.rows[e] \in ToSet(M.rows)
      BY <1>5, <3>3, ToSetIndex
    <3>6. M.calls[m] = U.calls[m] /\ (m + 1) - 1 = m /\ m + 1 > 1
      BY <1>3, <3>3
    <3>7. c.attempt = U.calls[m].attempt + 1
      <4>1. c.attempt = 1 + Last(U.calls).attempt
        BY <2>1, Zenon DEF Grown
      <4>2. Last(U.calls) = U.calls[m]
        BY <1>4 DEF Last
      <4>3. U.calls[m].attempt \in Nat
        <5>1. U.calls[m] \in Call
          BY <1>2, <1>4, <3>3 DEF GrownCalls
        <5> QED
          BY <5>1, CallParts
      <4> QED
        BY <4>1, <4>2, <4>3
    <3> QED
      BY <1>1, <1>3, <3>3, <3>4, <3>5, <3>6, <3>7
  <2>2. CASE Pending(U.rows, s) = {}
    <3>1. c.attempt = 1
      BY <2>2, Zenon DEF Grown
    <3>2. m = 0 \/ U.calls[m].stage # s
      BY <1>1, <2>2 DEF AtCall
    <3>3. m + 1 = 1 \/ (m \in 1 .. m /\ (m + 1) - 1 = m /\ U.calls[m].stage # s)
      BY <1>3, <3>2
    <3>4. m + 1 = 1 \/ M.calls[(m + 1) - 1].stage # M.calls[m + 1].stage
      BY <1>1, <1>3, <3>3
    <3> QED
      BY <1>3, <3>1, <3>4
  <2> QED
    BY <2>1, <2>2
<1>8. \A i \in 1 .. m + 1 : i \in 1 .. m \/ i = m + 1
  BY <1>3
<1>9. \A i \in 1 .. m + 1 : link(M, i)
  BY <1>6, <1>7, <1>8, Zenon
<1> QED
  BY <1>9, Zenon DEF Linked

\* A call of another stage is none of the stage.
LEMMA StageCallsAppend ==
    ASSUME NEW calls \in Seq(Call), NEW c \in Call, NEW t, c.stage # t \/ c.attempt = 0
    PROVE  StageCalls(Append(calls, c), t) = StageCalls(calls, t)
<1> DEFINE S == {x \in Call : x.stage = t /\ x.attempt > 0}
<1>1. c \notin S
  OBVIOUS
<1>2. Those(Append(calls, c), S) = Those(calls, S)
  <2> HIDE DEF S
  <2> QED
    BY <1>1, ThoseAppend
<1> QED
  BY <1>2, Zenon DEF StageCalls

\* The blocks before the new call stay, and stay in order.
LEMMA GrownBlocks ==
    ASSUME NEW U, NEW M, NEW s, NEW m, NEW c, Grown(U, M, s, m, c)
    PROVE  Sorted(M, s, m + 1) /\ Settled(M, s, m + 1)
<1>1. Good(U, s, m) /\ c.stage = s /\ c \in Call /\ s \in Stage
  BY Zenon DEF Grown
<1>2. GrownCalls(U, M, m, c)
  BY CallsGrow
<1>3. /\ m \in Nat /\ M.calls[m + 1] = c /\ \A i \in 1 .. m : M.calls[i] = U.calls[i]
      /\ m = Len(U.calls)
  BY <1>2, Zenon DEF GrownCalls
<1>4. c.attempt > 0
  <2>1. CASE Pending(U.rows, s) # {}
    <3>1. PICK e \in Pending(U.rows, s) : TRUE
      BY <2>1
    <3>2. Waits(U, s, m, s, e)
      BY <1>1, PendingLast
    <3>3. m \in 1 .. Len(U.calls)
      BY <3>2, Zenon DEF Waits
    <3>4. Last(U.calls) \in Call
      BY <1>2, <3>3 DEF GrownCalls, Last
    <3>5. c.attempt = 1 + Last(U.calls).attempt /\ Last(U.calls).attempt \in Nat
      BY <2>1, <3>4, CallParts DEF Grown
    <3> QED
      BY <3>5
  <2>2. CASE Pending(U.rows, s) = {}
    BY <2>2 DEF Grown
  <2> QED
    BY <2>1, <2>2
<1>5. \A i \in 1 .. m + 1 : i \in 1 .. m \/ i = m + 1
  BY <1>3
<1>6. \A i \in 1 .. m : M.calls[i].stage <= s /\ M.calls[i].attempt > 0
  BY <1>1, <1>3 DEF Good, Sorted
<1>7. \A i, j \in 1 .. m : i <= j => M.calls[i].stage <= M.calls[j].stage
  BY <1>1, <1>3 DEF Good, Sorted
<1>8. s \in Nat
  BY <1>1 DEF Stage
<1>9. Sorted(M, s, m + 1)
  <2>1. ASSUME NEW i \in 1 .. m + 1, NEW j \in 1 .. m + 1, i <= j
        PROVE  M.calls[i].stage <= M.calls[j].stage
    <3>1. CASE j \in 1 .. m
      <4>1. i \in 1 .. m
        BY <1>3, <2>1, <3>1
      <4> QED
        BY <1>7, <2>1, <3>1, <4>1
    <3>2. CASE j = m + 1 /\ i \in 1 .. m
      BY <1>1, <1>3, <1>6, <3>2
    <3>3. CASE j = m + 1 /\ i = m + 1
      BY <1>1, <1>3, <1>8, <3>3
    <3> QED
      BY <1>5, <3>1, <3>2, <3>3
  <2>2. ASSUME NEW i \in 1 .. m + 1 PROVE M.calls[i].stage <= s /\ M.calls[i].attempt > 0
    BY <1>1, <1>3, <1>4, <1>5, <1>6, <1>8
  <2> QED
    BY <2>1, <2>2, Zenon DEF Sorted
<1>10. LeftOut(M) = LeftOut(U)
  BY Zenon DEF LeftOut, Grown
<1>11. ASSUME NEW t \in 1 .. s - 1, t \notin LeftOut(M)
       PROVE  \E i \in 1 .. m + 1 : M.calls[i].stage = t /\ M.calls[i].end = "valid" /\ Ends(M, m + 1, i)
  <2>1. Settled(U, s, m)
    BY <1>1 DEF Good
  <2>2. PICK i \in 1 .. m : U.calls[i].stage = t /\ U.calls[i].end = "valid" /\ Ends(U, m, i)
    BY <1>10, <1>11, <2>1, Zenon DEF Settled
  <2>3. M.calls[i] = U.calls[i] /\ i \in 1 .. m + 1
    BY <1>3
  <2>4. M.calls[i + 1].stage # M.calls[i].stage
    <3>1. CASE i = m
      BY <1>1, <1>3, <1>8, <2>2, <2>3, <3>1
    <3>2. CASE i # m
      <4>1. i + 1 \in 1 .. m
        BY <1>3, <3>2
      <4> QED
        BY <1>3, <2>2, <2>3, <3>2, <4>1 DEF Ends
    <3> QED
      BY <3>1, <3>2
  <2> QED
    BY <2>2, <2>3, <2>4 DEF Ends
<1> QED
  BY <1>9, <1>11, Zenon DEF Settled

\* A new call of the frontier leaves the proof of the left-out stages.
LEMMA GrownDropped ==
    ASSUME NEW U, NEW M, NEW s, NEW m, NEW c, Grown(U, M, s, m, c)
    PROVE  Dropped(M, s)
<1>1. Good(U, s, m) /\ c.stage = s /\ c \in Call /\ s \in Stage
  BY Zenon DEF Grown
<1>2. GrownCalls(U, M, m, c) /\ GrownRows(U, M, s, c)
  BY CallsGrow, RowsGrow
<1>3. /\ m \in Nat /\ Len(M.calls) = m + 1 /\ (\A i \in 1 .. m : M.calls[i] = U.calls[i])
      /\ U.calls \in Seq(Call) /\ M.calls \in Seq(Call) /\ m = Len(U.calls)
  BY <1>2, Zenon DEF GrownCalls
<1>4. Dropped(U, s) /\ M.left = U.left /\ M.calls = Append(U.calls, c)
  BY <1>1 DEF Good, Grown
<1>5. \A p \in 1 .. m : Those(M.rows, Behind(U, p)) = Those(U.rows, Behind(U, p))
  <2> SUFFICES ASSUME NEW p \in 1 .. m PROVE Those(M.rows, Behind(U, p)) = Those(U.rows, Behind(U, p))
    BY Zenon
  <2>1. ASSUME NEW i \in DOMAIN U.rows, i \in Pending(U.rows, s)
        PROVE  M.rows[i] \notin Behind(U, p) /\ U.rows[i] \notin Behind(U, p)
    <3>1. Waits(U, s, m, s, i)
      BY <1>1, <2>1, PendingLast
    <3>2. U.rows[i].failed = U.calls[m].id
      BY <3>1, Zenon DEF Waits
    <3>3. M.rows[i].failed = U.calls[m].id
      BY <1>2, <3>2, Zenon DEF GrownRows
    <3>4. \A j \in 1 .. p - 1 : U.calls[m].id # U.calls[j].id
      <4>1. \A j, k \in 1 .. m : U.calls[j].id = U.calls[k].id => j = k
        BY <1>1, <1>3, GoodIds
      <4>2. \A j \in 1 .. p - 1 : j \in 1 .. m /\ j # m /\ m \in 1 .. m
        BY <1>3
      <4> QED
        BY <4>1, <4>2, Zenon
    <3> QED
      BY <3>2, <3>3, <3>4, Zenon DEF Behind
  <2>2. \A i \in DOMAIN U.rows : i \notin Pending(U.rows, s) => M.rows[i] = U.rows[i]
    BY <1>2, Zenon DEF GrownRows
  <2>3. DOMAIN U.rows = 1 .. Len(U.rows) /\ U.rows \in Seq(Row) /\ Len(M.rows) = Len(U.rows)
    BY <1>2, Zenon DEF GrownRows
  <2>4. Len(U.rows) \in Nat
    BY <2>3
  <2>5. \A i \in 1 .. Len(U.rows) :
           U.rows[i] = M.rows[i] \/ (U.rows[i] \notin Behind(U, p) /\ M.rows[i] \notin Behind(U, p))
    BY <2>1, <2>2, <2>3, Zenon
  <2>6. Those(U.rows, Behind(U, p)) = Those(M.rows, Behind(U, p))
    BY <2>3, <2>4, <2>5, ThoseOther
  <2> QED
    BY <2>6
<1>6. ASSUME NEW d \in ToSet(M.left)
      PROVE  /\ d.stage < s
             /\ d.ids = [i \in DOMAIN StageCalls(M.calls, d.stage) |-> StageCalls(M.calls, d.stage)[i].id]
             /\ Unusable(M, d.stage)
  <2>1. d \in ToSet(U.left)
    BY <1>4, Zenon
  <2>2. d.stage < s /\ d.ids = [i \in DOMAIN StageCalls(U.calls, d.stage) |-> StageCalls(U.calls, d.stage)[i].id]
    BY <1>4, <2>1, Zenon DEF Dropped
  <2>3. Unusable(U, d.stage)
    BY <1>4, <2>1, EachUnusable, Zenon DEF Dropped
  <2>4. StageCalls(M.calls, d.stage) = StageCalls(U.calls, d.stage)
    <3>1. c.stage # d.stage
      BY <1>1, <2>2, CallParts
    <3> QED
      BY <1>1, <1>3, <1>4, <3>1, StageCallsAppend
  <2>5. Identified(M)
    BY GrownIdentified
  <2>6. \A i \in 1 .. m : M.calls[i].id = U.calls[i].id
    BY <1>3
  <2>7. m \in 0 .. m /\ m <= Len(M.calls) /\ \A p \in 1 .. m : U.calls[p].stage = d.stage => p <= m
    BY <1>3
  <2>8. Unusable(M, d.stage)
    BY <1>1, <1>3, <1>5, <2>3, <2>4, <2>5, <2>6, <2>7, UnusableKept
  <2> QED
    BY <2>2, <2>4, <2>8, Zenon
<1>7. DegradedProven(M)
  BY <1>6, EachUnusable, Zenon
<1> QED
  BY <1>6, <1>7, Zenon DEF Dropped

\* validate_state() asks nothing more of it.
LEMMA GrownState ==
    ASSUME NEW U, NEW M, NEW s, NEW m, NEW c, Grown(U, M, s, m, c)
    PROVE  StateValid(M)
<1>1. Good(U, s, m) /\ M.left = U.left /\ M.halted \notin LeftOut(U)
  BY Zenon DEF Grown
<1>2. GrownRows(U, M, s, c)
  BY RowsGrow
<1>3. StateValid(U)
  BY <1>1 DEF Good
<1>4. /\ Len(M.rows) = Len(U.rows) /\ DOMAIN M.rows = DOMAIN U.rows /\ U.rows \in Seq(Row)
      /\ \A i \in DOMAIN U.rows :
            M.rows[i].stage = U.rows[i].stage /\ M.rows[i].reason = U.rows[i].reason /\ M.rows[i].failed = U.rows[i].failed
  BY <1>2, Zenon DEF GrownRows
<1>5. Len(U.rows) <= MaxExtra
  BY <1>3, Zenon DEF StateValid
<1>6. \A i, j \in DOMAIN U.rows : i < j /\ U.rows[i].stage = U.rows[j].stage =>
          \/ U.rows[j].reason = "numbers"
          \/ /\ U.rows[i].reason = "transport" /\ U.rows[j].reason \in Chained
             /\ U.rows[i].retry # NoCall /\ U.rows[i].retry = U.rows[j].failed
  BY <1>3, Zenon DEF StateValid
<1>7. \A i \in DOMAIN U.rows : U.rows[i].reason = "numbers" => i = Len(U.rows) /\ U.rows[i].stage = LastStage
  BY <1>3, Zenon DEF StateValid
<1>8. ASSUME NEW i \in DOMAIN M.rows, NEW j \in DOMAIN M.rows, i < j, M.rows[i].stage = M.rows[j].stage
      PROVE  \/ M.rows[j].reason = "numbers"
             \/ /\ M.rows[i].reason = "transport" /\ M.rows[j].reason \in Chained
                /\ M.rows[i].retry # NoCall /\ M.rows[i].retry = M.rows[j].failed
  <2>1. i \in DOMAIN U.rows /\ j \in DOMAIN U.rows /\ U.rows[i].stage = U.rows[j].stage
    BY <1>4, <1>8, Zenon
  <2>2. \/ U.rows[j].reason = "numbers"
        \/ /\ U.rows[i].reason = "transport" /\ U.rows[j].reason \in Chained
           /\ U.rows[i].retry # NoCall /\ U.rows[i].retry = U.rows[j].failed
    BY <1>6, <1>8, <2>1, Zenon
  <2>3. CASE U.rows[i].retry # NoCall
    <3>1. i \notin Pending(U.rows, s)
      BY <2>3, Zenon DEF Pending
    <3>2. M.rows[i] = U.rows[i]
      BY <1>2, <2>1, <3>1, Zenon DEF GrownRows
    <3> QED
      BY <1>4, <2>1, <2>2, <3>2, Zenon
  <2>4. CASE U.rows[j].reason = "numbers"
    BY <1>4, <2>1, <2>4, Zenon
  <2> QED
    BY <2>2, <2>3, <2>4
<1>9. \A i \in DOMAIN M.rows : M.rows[i].reason = "numbers" => i = Len(M.rows) /\ M.rows[i].stage = LastStage
  BY <1>4, <1>7, Zenon
<1>10. LeftOut(M) = LeftOut(U)
  BY <1>1, Zenon DEF LeftOut
<1>11. LeftOut(U) \subseteq Degradable \ {U.halted}
  BY <1>3, Zenon DEF StateValid
<1>12. LeftOut(M) \subseteq Degradable \ {M.halted}
  BY <1>1, <1>10, <1>11
<1>13. /\ \A i, j \in DOMAIN M.left : M.left[i].stage = M.left[j].stage => i = j
       /\ \A d \in ToSet(M.left) : d.ids # <<>>
  BY <1>1, <1>3, Zenon DEF StateValid
<1>14. Len(M.rows) <= MaxExtra
  BY <1>4, <1>5, Zenon
<1> QED
  BY <1>8, <1>9, <1>12, <1>13, <1>14, Zenon DEF StateValid

\* The run's ledger after a call, whatever its end.
LEMMA GrownGood ==
    ASSUME NEW U, NEW M, NEW s, NEW m, NEW c, Grown(U, M, s, m, c)
    PROVE  /\ Good(M, s, m + 1) /\ m + 1 = Len(M.calls) /\ M.calls[m + 1] = c
           /\ (\A r \in ToSet(M.rows) : Plain(r) /\ r.retry # NoCall)
           /\ LeftOut(M) = LeftOut(U)
<1>1. GrownCalls(U, M, m, c) /\ GrownRows(U, M, s, c) /\ M \in Ledger /\ Good(U, s, m)
  BY CallsGrow, RowsGrow, Zenon DEF Grown
<1>2. m \in Nat /\ Len(M.calls) = m + 1 /\ M.calls[m + 1] = c /\ M.rows \in Seq(Row)
  BY <1>1, Zenon DEF GrownCalls, GrownRows
<1>3. ASSUME NEW r \in ToSet(M.rows)
      PROVE  Plain(r) /\ r.retry # NoCall /\ \E p \in 1 .. m + 1 : GrantedBy(M, s, m + 1, r, p)
  <2>1. PICK i \in DOMAIN M.rows : r = M.rows[i]
    BY <1>2, ToSetIndex
  <2>2. PICK p \in 1 .. m : GrantedBy(M, s, m + 1, M.rows[i], p)
    BY GrownGranted
  <2>3. Plain(M.rows[i]) /\ M.rows[i].retry # NoCall
    BY GrownGranted
  <2>4. p \in 1 .. m + 1
    BY <1>2
  <2> QED
    BY <2>1, <2>2, <2>3, <2>4, Zenon
<1>4. Granted(M, s, m + 1)
  BY <1>3, Zenon DEF Granted
<1>5. RepairLast(M, s, m + 1)
  BY <1>2, <1>3, Zenon DEF RepairLast
<1>6. Identified(M) /\ Linked(M, m + 1) /\ Sorted(M, s, m + 1) /\ Settled(M, s, m + 1) /\ Dropped(M, s) /\ StateValid(M)
  BY GrownIdentified, GrownLinked, GrownBlocks, GrownDropped, GrownState, Zenon
<1>7. M.spent >= Len(M.calls) /\ LeftOut(M) = LeftOut(U)
  BY Zenon DEF Grown, LeftOut
<1>8. s \in 1 .. LastStage + 1 /\ m + 1 \in 0 .. Len(M.calls)
  BY <1>1, <1>2, GoodParts
<1>9. Good(M, s, m + 1)
  BY <1>1, <1>4, <1>5, <1>6, <1>7, <1>8, Zenon DEF Good
<1> QED
  BY <1>2, <1>3, <1>7, <1>9, Zenon

---------------------------------------------------------------------------
(* What the run does with a call that ended. *)

\* M has the calls of L's blocks, and at least its rows.
Framed(L, M, f, n) ==
    /\ Good(L, f, n) /\ M \in Ledger /\ M.left = L.left /\ M.spent >= Len(M.calls)
    /\ n <= Len(M.calls) /\ \A i \in 1 .. n : M.calls[i] = L.calls[i]
    /\ \A t : StageCalls(M.calls, t) = StageCalls(L.calls, t)
    /\ ToSet(L.rows) \subseteq ToSet(M.rows)
    /\ \A p \in 1 .. n : Those(M.rows, Behind(L, p)) = Those(L.rows, Behind(L, p))

\* Then it is good when what its own rows must satisfy holds.
LEMMA FramedGood ==
    ASSUME NEW L, NEW M, NEW f, NEW n, Framed(L, M, f, n),
           Identified(M), Granted(M, f, n), RepairLast(M, f, n), StateValid(M)
    PROVE  Good(M, f, n)
<1>1. Good(L, f, n) /\ M \in Ledger /\ M.left = L.left /\ n <= Len(M.calls)
  BY Zenon DEF Framed
<1>2. n \in Nat /\ f \in 1 .. LastStage + 1 /\ f \in Nat
  BY <1>1, GoodParts
<1>3. M.calls \in Seq(Call) /\ Len(M.calls) \in Nat
  BY <1>1 DEF Ledger
<1>4. \A i \in 1 .. n : M.calls[i] = L.calls[i]
  BY Zenon DEF Framed
<1>5. Sorted(M, f, n)
  <2>1. Sorted(L, f, n)
    BY <1>1 DEF Good
  <2>2. \A i, j \in 1 .. n : i <= j => M.calls[i].stage <= M.calls[j].stage
    BY <1>4, <2>1, Zenon DEF Sorted
  <2>3. \A i \in 1 .. n : M.calls[i].stage <= f /\ M.calls[i].attempt > 0
    BY <1>4, <2>1, Zenon DEF Sorted
  <2> QED
    BY <2>2, <2>3, Zenon DEF Sorted
<1>6. Linked(M, n)
  <2> SUFFICES ASSUME NEW i \in 1 .. n
               PROVE  \/ /\ i = 1 \/ M.calls[i - 1].stage # M.calls[i].stage
                         /\ M.calls[i].attempt = 1
                      \/ /\ i > 1 /\ M.calls[i - 1].stage = M.calls[i].stage
                         /\ M.calls[i].attempt = M.calls[i - 1].attempt + 1
                         /\ \E r \in ToSet(M.rows) : Plain(r) /\ r.failed = M.calls[i - 1].id /\ r.retry = M.calls[i].id
    BY Zenon DEF Linked
  <2>1. \/ /\ i = 1 \/ L.calls[i - 1].stage # L.calls[i].stage
           /\ L.calls[i].attempt = 1
        \/ /\ i > 1 /\ L.calls[i - 1].stage = L.calls[i].stage
           /\ L.calls[i].attempt = L.calls[i - 1].attempt + 1
           /\ \E r \in ToSet(L.rows) : Plain(r) /\ r.failed = L.calls[i - 1].id /\ r.retry = L.calls[i].id
    BY <1>1, Zenon DEF Good, Linked
  <2>2. M.calls[i] = L.calls[i]
    BY <1>4
  <2>3. i = 1 \/ (i > 1 /\ i - 1 \in 1 .. n)
    BY <1>2
  <2>4. CASE i = 1
    BY <2>1, <2>2, <2>4
  <2>5. CASE i > 1 /\ i - 1 \in 1 .. n
    <3>1. M.calls[i - 1] = L.calls[i - 1]
      BY <1>4, <2>5, Zenon
    <3>2. \A r \in ToSet(L.rows) : r \in ToSet(M.rows)
      BY DEF Framed
    <3> QED
      BY <2>1, <2>2, <3>1, <3>2, Zenon
  <2> QED
    BY <2>3, <2>4, <2>5
<1>7. LeftOut(M) = LeftOut(L)
  BY <1>1, Zenon DEF LeftOut
<1>8. Settled(M, f, n)
  <2>1. Settled(L, f, n)
    BY <1>1 DEF Good
  <2>2. ASSUME NEW i \in 1 .. n, Ends(L, n, i) PROVE Ends(M, n, i)
    <3>1. CASE i = n
      BY <3>1 DEF Ends
    <3>2. CASE i # n
      <4>1. i + 1 \in 1 .. n
        BY <1>2, <3>2
      <4>2. M.calls[i] = L.calls[i] /\ M.calls[i + 1] = L.calls[i + 1]
        BY <1>4, <4>1, Zenon
      <4> QED
        BY <2>2, <4>2, Zenon DEF Ends
    <3> QED
      BY <3>1, <3>2
  <2> QED
    BY <1>4, <1>7, <2>1, <2>2, Zenon DEF Settled
<1>9. Dropped(M, f)
  <2>1. Dropped(L, f)
    BY <1>1 DEF Good
  <2>2. ASSUME NEW d \in ToSet(M.left)
        PROVE  /\ d.stage < f
               /\ d.ids = [i \in DOMAIN StageCalls(M.calls, d.stage) |-> StageCalls(M.calls, d.stage)[i].id]
               /\ Unusable(M, d.stage)
    <3>1. d \in ToSet(L.left)
      BY <1>1, Zenon
    <3>2. d.stage < f /\ d.ids = [i \in DOMAIN StageCalls(L.calls, d.stage) |-> StageCalls(L.calls, d.stage)[i].id]
      BY <2>1, <3>1, Zenon DEF Dropped
    <3>3. Unusable(L, d.stage)
      BY <2>1, <3>1, EachUnusable, Zenon DEF Dropped
    <3>4. StageCalls(M.calls, d.stage) = StageCalls(L.calls, d.stage)
      BY Zenon DEF Framed
    <3>5. n \in 0 .. n /\ (\A i \in 1 .. n : M.calls[i].id = L.calls[i].id)
          /\ \A p \in 1 .. n : L.calls[p].stage = d.stage => p <= n
      BY <1>2, <1>4
    <3>6. \A p \in 1 .. n : Those(M.rows, Behind(L, p)) = Those(L.rows, Behind(L, p))
      BY Zenon DEF Framed
    <3>7. Unusable(M, d.stage)
      BY <1>1, <1>3, <3>3, <3>4, <3>5, <3>6, UnusableKept
    <3> QED
      BY <3>2, <3>4, <3>7, Zenon
  <2>3. DegradedProven(M)
    BY <2>2, EachUnusable, Zenon
  <2> QED
    BY <2>2, <2>3, Zenon DEF Dropped
<1>10. n \in 0 .. Len(M.calls) /\ M.spent >= Len(M.calls)
  BY <1>1, <1>2, <1>3 DEF Framed
<1> QED
  BY <1>1, <1>2, <1>5, <1>6, <1>8, <1>9, <1>10, Zenon DEF Good

\* A row for the last of the calls is behind none of them.
LEMMA RowsFramed ==
    ASSUME NEW L, NEW f, NEW n, Good(L, f, n), NEW row \in Row, row.failed = L.calls[n].id,
           NEW p \in 1 .. n
    PROVE  Those(Append(L.rows, row), Behind(L, p)) = Those(L.rows, Behind(L, p))
<1>1. L.rows \in Seq(Row) /\ n \in Nat /\ n <= Len(L.calls) /\ Len(L.calls) \in Nat
  BY GoodParts
<1>2. row \notin Behind(L, p)
  <2>1. \A i, j \in 1 .. Len(L.calls) : L.calls[i].id = L.calls[j].id => i = j
    BY GoodIds
  <2>2. \A i \in 1 .. p - 1 : i \in 1 .. Len(L.calls) /\ n \in 1 .. Len(L.calls) /\ i # n
    BY <1>1
  <2>3. \A i \in 1 .. p - 1 : L.calls[n].id # L.calls[i].id
    BY <2>1, <2>2, Zenon
  <2> QED
    BY <2>3, Zenon DEF Behind
<1> QED
  BY <1>1, <1>2, ThoseAppend

\* The rows that may_reserve() counts.
LEMMA StageRowsOne ==
    ASSUME NEW rows \in Seq(Row), NEW s, NEW i \in DOMAIN rows, rows[i].stage = s, Plain(rows[i]),
           NEW call, NEW reason, reason # "numbers", MayReserve(rows, s, call, reason)
    PROVE  rows[i].reason = "transport" /\ reason \in Chained /\ rows[i].retry = call.id
<1> DEFINE S == {r \in Row : r.stage = s /\ r.reason # "numbers"}
           granted == StageRows(rows, s)
<1>1. granted = Those(rows, S)
  BY Zenon DEF StageRows
<1>2. rows[i] \in S /\ rows[i] \in ToSet(rows)
  <2>1. rows[i] \in Row /\ rows[i] \in ToSet(rows)
    BY ToSetIndex
  <2> QED
    BY <2>1 DEF Plain
<1> HIDE DEF S
<1>3. ToSet(Those(rows, S)) = ToSet(rows) \intersect S /\ Those(rows, S) \in Seq(Row \intersect S)
  BY ThoseType
<1>4. rows[i] \in ToSet(Those(rows, S)) /\ Those(rows, S) \in Seq(Row \intersect S)
  BY <1>2, <1>3
<1> DEFINE those == Those(rows, S)
<1>5. PICK j \in DOMAIN those : rows[i] = those[j]
  <2> HIDE DEF those
  <2> QED
    BY <1>4, ToSetIndex DEF those
<1>6. those # <<>>
  <2>1. those \in Seq(Row \intersect S) /\ j \in DOMAIN those
    BY <1>4, <1>5
  <2> HIDE DEF those
  <2> QED
    BY <2>1
<1>7. Len(those) = 1 /\ those[1].reason = "transport" /\ reason \in Chained /\ those[1].retry = call.id
  <2>1. \/ granted = <<>>
        \/ /\ Len(granted) = 1 /\ granted[1].reason = "transport"
           /\ reason \in Chained /\ granted[1].retry = call.id
    BY Zenon DEF MayReserve
  <2> QED
    BY <1>1, <1>6, <2>1, Zenon
<1>8. j = 1
  <2>1. those \in Seq(Row \intersect S) /\ j \in DOMAIN those /\ Len(those) = 1
    BY <1>4, <1>5, <1>7
  <2> HIDE DEF those
  <2> QED
    BY <2>1
<1> QED
  BY <1>5, <1>7, <1>8, Zenon

\* Retry: one more call is granted to the stage.
Retried(L, M, s, n, row) ==
    /\ Good(L, s, n) /\ n = Len(L.calls) /\ n > 0 /\ L.calls[n].stage = s /\ s \in Stage
    /\ \A r \in ToSet(L.rows) : Plain(r) /\ r.retry # NoCall
    /\ row = [stage |-> s, reason |-> FailureReason(L.calls[n]), failed |-> L.calls[n].id, retry |-> NoCall]
    /\ row.reason # "none" /\ L.calls[n].end # "cut_refused"
    /\ MayReserve(L.rows, s, L.calls[n], row.reason)
    /\ M \in Ledger /\ M.calls = L.calls /\ M.left = L.left /\ M.rows = Append(L.rows, row)
    /\ M.halted \notin LeftOut(L) /\ M.spent >= Len(M.calls)

\* Which is a row.
LEMMA RetriedRow ==
    ASSUME NEW L, NEW M, NEW s, NEW n, NEW row, Retried(L, M, s, n, row)
    PROVE  /\ row \in Row /\ row.stage = s /\ row.failed = L.calls[n].id /\ row.retry = NoCall /\ Plain(row)
           /\ row.reason = FailureReason(L.calls[n])
           /\ L.rows \in Seq(Row) /\ M.rows = Append(L.rows, row)
<1>1. Good(L, s, n) /\ s \in Stage /\ M.rows = Append(L.rows, row)
  BY Zenon DEF Retried
<1>2. row = [stage |-> s, reason |-> FailureReason(L.calls[n]), failed |-> L.calls[n].id, retry |-> NoCall]
  BY Zenon DEF Retried
<1>3. row.reason # "none" /\ row.reason = FailureReason(L.calls[n])
  <2>1. row.reason # "none"
    BY Zenon DEF Retried
  <2> QED
    BY <1>2, <2>1
<1>4. L.calls[n] \in Call
  <2>1. n \in 1 .. Len(L.calls)
    BY <1>1, GoodParts DEF Retried
  <2> QED
    BY <1>1, <2>1, GoodParts
<1>5. L.calls[n].id \in Nat /\ L.calls[n].end \in End
  BY <1>4, CallParts
<1>6. FailureReason(L.calls[n]) \in Reason \ {"numbers"}
  BY <1>3, <1>5 DEF FailureReason, Reason, End
<1>7. row \in Row
  BY <1>1, <1>2, <1>5, <1>6 DEF Row, NoCall
<1>8. L.rows \in Seq(Row)
  BY <1>1, GoodParts
<1> QED
  BY <1>1, <1>2, <1>3, <1>6, <1>7, <1>8 DEF Plain

\* The ledger stays good, and the call is due.
LEMMA RetriedGood ==
    ASSUME NEW L, NEW M, NEW s, NEW n, NEW row, Retried(L, M, s, n, row)
    PROVE  Good(M, s, n) /\ Pending(M.rows, s) # {}
<1>1. /\ Good(L, s, n) /\ n = Len(L.calls) /\ L.calls[n].stage = s
      /\ M \in Ledger /\ M.calls = L.calls /\ M.left = L.left
      /\ M.halted \notin LeftOut(L) /\ M.spent >= Len(M.calls)
  BY Zenon DEF Retried
<1>2. /\ row \in Row /\ row.stage = s /\ row.failed = L.calls[n].id /\ row.retry = NoCall /\ Plain(row)
      /\ row.reason = FailureReason(L.calls[n])
  BY RetriedRow
<1>3. L.rows \in Seq(Row) /\ M.rows = Append(L.rows, row)
  BY RetriedRow
<1>4. n \in Nat /\ n > 0 /\ DOMAIN L.rows = 1 .. Len(L.rows) /\ Len(L.rows) \in Nat
  BY <1>1, GoodParts DEF Retried
<1>5. ToSet(M.rows) = ToSet(L.rows) \union {row}
  BY <1>2, <1>3, ToSetAppend
<1>6. Framed(L, M, s, n)
  <2>1. \A p \in 1 .. n : Those(M.rows, Behind(L, p)) = Those(L.rows, Behind(L, p))
    <3>1. ASSUME NEW p \in 1 .. n
          PROVE  Those(Append(L.rows, row), Behind(L, p)) = Those(L.rows, Behind(L, p))
      BY <1>1, <1>2, RowsFramed
    <3> QED
      BY <1>3, <3>1, Zenon
  <2>2. ToSet(L.rows) \subseteq ToSet(M.rows)
    BY <1>5
  <2>3. n <= Len(M.calls)
    BY <1>1, <1>4
  <2> QED
    BY <1>1, <2>1, <2>2, <2>3, Zenon DEF Framed
<1>7. Identified(M)
  <2>1. Identified(L)
    BY <1>1 DEF Good
  <2> QED
    BY <1>1, <2>1, Zenon DEF Identified
<1>8. \A r \in ToSet(L.rows) : Plain(r) /\ r.retry # NoCall
  BY Zenon DEF Retried
<1>9. Granted(M, s, n)
  <2>1. ASSUME NEW r \in ToSet(L.rows) PROVE \E i \in 1 .. n : GrantedBy(M, s, n, r, i)
    <3>1. PICK i \in 1 .. n : GrantedBy(L, s, n, r, i)
      BY <1>1, <1>8, <2>1, RowPlace
    <3>2. M.calls = L.calls
      BY <1>1
    <3>3. GrantedBy(M, s, n, r, i)
      BY <3>1, <3>2, Zenon DEF GrantedBy
    <3> QED
      BY <3>3
  <2>2. GrantedBy(M, s, n, row, n)
    <3>1. L.calls[n].end # "cut_refused"
      BY Zenon DEF Retried
    <3> QED
      BY <1>1, <1>2, <3>1, Zenon DEF GrantedBy
  <2>3. n \in 1 .. n
    BY <1>4
  <2> QED
    BY <1>5, <2>1, <2>2, <2>3 DEF Granted
<1>10. RepairLast(M, s, n)
  <2>1. \A r \in ToSet(M.rows) : Plain(r)
    BY <1>2, <1>5, <1>8
  <2> QED
    BY <1>1, <2>1, Zenon DEF RepairLast
<1>11. StateValid(M)
  <2>1. StateValid(L)
    BY <1>1 DEF Good
  <2>2. LeftOut(M) = LeftOut(L)
    BY <1>1, Zenon DEF LeftOut
  <2>3. LeftOut(L) \subseteq Degradable \ {L.halted}
    BY <2>1, Zenon DEF StateValid
  <2>4. LeftOut(M) \subseteq Degradable \ {M.halted}
    BY <1>1, <2>2, <2>3
  <2>5. /\ \A i, j \in DOMAIN M.left : M.left[i].stage = M.left[j].stage => i = j
        /\ \A d \in ToSet(M.left) : d.ids # <<>>
    BY <1>1, <2>1, Zenon DEF StateValid
  <2>6. /\ DOMAIN M.rows = 1 .. Len(L.rows) + 1 /\ M.rows[Len(L.rows) + 1] = row
        /\ Len(M.rows) = Len(L.rows) + 1
        /\ \A i \in 1 .. Len(L.rows) : M.rows[i] = L.rows[i]
    BY <1>2, <1>3
  <2>7. MayReserve(L.rows, s, L.calls[n], row.reason)
    BY Zenon DEF Retried
  <2>8. Len(M.rows) <= MaxExtra
    <3>1. Len(L.rows) < MaxExtra
      BY <2>7, Zenon DEF MayReserve
    <3> QED
      BY <1>4, <2>6, <3>1, StageAssumption
  <2>9. ASSUME NEW i \in DOMAIN M.rows, NEW j \in DOMAIN M.rows, i < j, M.rows[i].stage = M.rows[j].stage
        PROVE  \/ M.rows[j].reason = "numbers"
               \/ /\ M.rows[i].reason = "transport" /\ M.rows[j].reason \in Chained
                  /\ M.rows[i].retry # NoCall /\ M.rows[i].retry = M.rows[j].failed
    <3>1. i \in 1 .. Len(L.rows) /\ i \in DOMAIN L.rows /\ M.rows[i] = L.rows[i]
      <4>1. DOMAIN M.rows = 1 .. Len(L.rows) + 1 /\ Len(L.rows) \in Nat /\ i < j
        BY <1>4, <2>6, <2>9
      <4>2. i \in 1 .. Len(L.rows)
        BY <4>1
      <4> QED
        BY <1>4, <2>6, <4>2, Zenon
    <3>2. CASE j \in 1 .. Len(L.rows)
      <4>1. M.rows[j] = L.rows[j] /\ j \in DOMAIN L.rows
        BY <1>4, <2>6, <3>2
      <4> QED
        BY <2>1, <2>9, <3>1, <4>1, Zenon DEF StateValid
    <3>3. CASE j = Len(L.rows) + 1
      <4>1. M.rows[j] = row /\ L.rows[i].stage = s
        BY <1>2, <2>6, <2>9, <3>1, <3>3
      <4>2. L.rows[i] \in ToSet(L.rows)
        BY <1>3, <3>1, ToSetIndex
      <4>3. Plain(L.rows[i]) /\ L.rows[i].retry # NoCall
        BY <1>8, <4>2
      <4>4. row.reason # "numbers"
        BY <1>2 DEF Plain
      <4>5. L.rows[i].reason = "transport" /\ row.reason \in Chained /\ L.rows[i].retry = L.calls[n].id
        BY <1>3, <2>7, <3>1, <4>1, <4>3, <4>4, StageRowsOne
      <4> QED
        BY <1>2, <3>1, <4>1, <4>3, <4>5, Zenon
    <3>4. j \in 1 .. Len(L.rows) \/ j = Len(L.rows) + 1
      BY <1>4, <2>6
    <3> QED
      BY <3>2, <3>3, <3>4
  <2>10. ASSUME NEW i \in DOMAIN M.rows PROVE M.rows[i].reason # "numbers"
    <3>1. M.rows[i] \in ToSet(M.rows)
      <4>1. M.rows \in Seq(Row)
        BY <1>1 DEF Ledger
      <4> QED
        BY <4>1, ToSetIndex
    <3>2. Plain(M.rows[i])
      BY <1>2, <1>5, <1>8, <3>1
    <3> QED
      BY <3>2 DEF Plain
  <2> QED
    BY <2>4, <2>5, <2>8, <2>9, <2>10, Zenon DEF StateValid
<1>12. Good(M, s, n)
  BY <1>6, <1>7, <1>9, <1>10, <1>11, FramedGood
<1>13. Len(L.rows) + 1 \in Pending(M.rows, s)
  <2>1. Len(L.rows) + 1 \in DOMAIN M.rows /\ M.rows[Len(L.rows) + 1] = row
    BY <1>2, <1>3
  <2> QED
    BY <1>2, <2>1 DEF Pending, Plain
<1> QED
  BY <1>12, <1>13

\* The last call of the ledger is the frontier's, and no call is granted to it.
LastEnded(L, s, n) ==
    /\ Good(L, s, n) /\ n = Len(L.calls) /\ n > 0 /\ L.calls[n].stage = s /\ s \in Stage
    /\ \A r \in ToSet(L.rows) : Plain(r) /\ r.retry # NoCall

\* The frontier moves when its stage is settled: accepted or left out.
LEMMA FrontierMoves ==
    ASSUME NEW L, NEW M, NEW s, NEW n, LastEnded(L, s, n),
           M \in Ledger, M.calls = L.calls, M.rows = L.rows, M.spent >= Len(M.calls),
           StateValid(M), Dropped(M, s + 1), LeftOut(L) \subseteq LeftOut(M),
           s \in LeftOut(M) \/ L.calls[n].end = "valid"
    PROVE  Good(M, s + 1, n) /\ AtCall(M, s + 1, n)
<1>1. Good(L, s, n) /\ n = Len(L.calls) /\ L.calls[n].stage = s /\ s \in Stage
  BY Zenon DEF LastEnded
<1>2. n \in Nat /\ n \in 1 .. n /\ s \in Nat /\ s + 1 \in 1 .. LastStage + 1 /\ s < s + 1
  BY <1>1, GoodParts DEF LastEnded, Stage
<1>3. \A r \in ToSet(M.rows) : Plain(r) /\ r.retry # NoCall
  BY Zenon DEF LastEnded
<1>4. Identified(M) /\ Linked(M, n)
  <2>1. Identified(L) /\ Linked(L, n)
    BY <1>1 DEF Good
  <2> QED
    BY <2>1, Zenon DEF Identified, Linked
<1>5. Sorted(M, s + 1, n)
  <2>1. Sorted(L, s, n)
    BY <1>1 DEF Good
  <2>2. \A i, j \in 1 .. n : i <= j => M.calls[i].stage <= M.calls[j].stage
    BY <2>1, Zenon DEF Sorted
  <2>3. \A i \in 1 .. n : M.calls[i].attempt > 0
    BY <2>1, Zenon DEF Sorted
  <2>4. ASSUME NEW i \in 1 .. n PROVE M.calls[i].stage <= s + 1
    <3>1. L.calls[i].stage <= s
      BY <2>1, Zenon DEF Sorted
    <3>2. L.calls[i].stage \in Nat
      <4>1. L.calls[i] \in Call
        BY <1>1, GoodParts
      <4> QED
        BY <4>1, CallParts
    <3>3. L.calls[i].stage <= s + 1
      BY <1>2, <3>1, <3>2
    <3> QED
      BY <3>3, Zenon
  <2> QED
    BY <2>2, <2>3, <2>4, Zenon DEF Sorted
<1>6. Granted(M, s + 1, n)
  <2>1. ASSUME NEW r \in ToSet(M.rows) PROVE \E i \in 1 .. n : GrantedBy(M, s + 1, n, r, i)
    <3>1. r \in ToSet(L.rows) /\ Plain(r)
      BY <1>3, <2>1, Zenon
    <3>2. PICK i \in 1 .. n : GrantedBy(L, s, n, r, i)
      BY <1>1, <3>1, RowPlace
    <3>3. r.retry # NoCall
      BY <1>3
    <3>4. GrantedBy(M, s + 1, n, r, i)
      BY <3>2, <3>3, Zenon DEF GrantedBy
    <3> QED
      BY <3>4
  <2> QED
    BY <2>1 DEF Granted
<1>7. RepairLast(M, s + 1, n)
  BY <1>1, <1>3, Zenon DEF RepairLast
<1>8. Settled(M, s + 1, n)
  <2>1. \A t, i : Ends(L, n, i) => Ends(M, n, i)
    BY Zenon DEF Ends
  <2>2. ASSUME NEW t \in 1 .. (s + 1) - 1, t \notin LeftOut(M)
        PROVE  \E i \in 1 .. n : M.calls[i].stage = t /\ M.calls[i].end = "valid" /\ Ends(M, n, i)
    <3>1. CASE t = s
      <4>1. L.calls[n].end = "valid" /\ Ends(L, n, n)
        BY <2>2, <3>1 DEF Ends
      <4> QED
        BY <1>1, <1>2, <2>1, <3>1, <4>1, Zenon
    <3>2. CASE t # s
      <4>1. t \in 1 .. s - 1
        BY <1>2, <3>2
      <4>2. Settled(L, s, n) /\ t \notin LeftOut(L)
        BY <1>1, <2>2 DEF Good
      <4>3. PICK i \in 1 .. n : L.calls[i].stage = t /\ L.calls[i].end = "valid" /\ Ends(L, n, i)
        BY <4>1, <4>2, Zenon DEF Settled
      <4> QED
        BY <2>1, <4>3, Zenon
    <3> QED
      BY <3>1, <3>2
  <2> QED
    BY <2>2, Zenon DEF Settled
<1>9. n \in 0 .. Len(M.calls)
  BY <1>1, <1>2
<1>10. Good(M, s + 1, n)
  BY <1>2, <1>4, <1>5, <1>6, <1>7, <1>8, <1>9, Zenon DEF Good
<1>11. M.calls[n].stage # s + 1
  <2>1. L.calls[n].stage # s + 1
    BY <1>1, <1>2
  <2> QED
    BY <2>1, Zenon
<1> QED
  BY <1>10, <1>11, Zenon DEF AtCall

\* Accept: the next stage is due.
LEMMA AcceptedGood ==
    ASSUME NEW L, NEW s, NEW n, LastEnded(L, s, n), L.calls[n].end = "valid"
    PROVE  Good(L, s + 1, n) /\ AtCall(L, s + 1, n)
<1>1. Good(L, s, n) /\ s \in Stage
  BY Zenon DEF LastEnded
<1>2. L \in Ledger /\ StateValid(L) /\ L.spent >= Len(L.calls) /\ Dropped(L, s)
  BY <1>1 DEF Good
<1>3. Dropped(L, s + 1)
  <2>1. ASSUME NEW d \in ToSet(L.left) PROVE d.stage < s + 1
    <3>1. d.stage < s /\ d.stage \in Degradable
      BY <1>1, <2>1, LeftIds
    <3>2. d.stage \in Nat /\ s \in Nat
      BY <1>1, <3>1, StageAssumption DEF Stage
    <3> QED
      BY <3>1, <3>2
  <2> QED
    BY <1>2, <2>1, Zenon DEF Dropped
<1> QED
  BY <1>2, <1>3, FrontierMoves

\* Fail: the stage is left out, with every call of it as the proof.
Omitted(L, M, s, n) ==
    /\ LastEnded(L, s, n) /\ s \in Degradable
    /\ \A c \in ToSet(StageCalls(L.calls, s)) : ~Usable(c)
    /\ \/ FailureReason(L.calls[n]) = "none" \/ L.calls[n].end = "cut_refused"
       \/ ~MayReserve(L.rows, s, L.calls[n], FailureReason(L.calls[n]))
    /\ M \in Ledger /\ M.calls = L.calls /\ M.rows = L.rows /\ M.spent >= Len(M.calls) /\ M.halted = 0
    /\ M.left = Append(L.left, [stage |-> s, ids |-> [i \in DOMAIN StageCalls(L.calls, s) |->
                                                          StageCalls(L.calls, s)[i].id]])

\* Its last call is the last of the ledger.
LEMMA LastOfStage ==
    ASSUME NEW L, NEW s, NEW n, LastEnded(L, s, n)
    PROVE  /\ StageCalls(L.calls, s) \in Seq(Call) /\ StageCalls(L.calls, s) # <<>>
           /\ Last(StageCalls(L.calls, s)) = L.calls[n]
<1>1. Good(L, s, n) /\ n = Len(L.calls) /\ L.calls[n].stage = s
  BY Zenon DEF LastEnded
<1>2. L.calls \in Seq(Call) /\ n \in DOMAIN L.calls /\ n \in 1 .. n /\ n \in Nat /\ DOMAIN L.calls = 1 .. n
  BY <1>1, GoodParts DEF LastEnded
<1>3. L.calls[n] \in Call /\ L.calls[n].attempt > 0
  <2>1. L.calls[n].attempt > 0
    BY <1>1, <1>2 DEF Good, Sorted
  <2> QED
    BY <1>1, <1>2, <2>1, GoodParts
<1> DEFINE S == {c \in Call : c.stage = s /\ c.attempt > 0}
<1>4. L.calls[n] \in S
  BY <1>1, <1>3
<1>5. \A q \in DOMAIN L.calls : n < q => L.calls[q] \notin S
  BY <1>2
<1>6. StageCalls(L.calls, s) = Those(L.calls, S)
  BY Zenon DEF StageCalls
<1> HIDE DEF S
<1>7. Those(L.calls, S) # <<>> /\ Last(Those(L.calls, S)) = L.calls[n]
  BY <1>2, <1>4, <1>5, ThoseLast
<1>8. \A those : those = Those(L.calls, S) => those \in Seq(Call)
  BY <1>2, ThoseOrder
<1> QED
  BY <1>6, <1>7, <1>8, Zenon

\* That stage is proven left out by the ledger as it is.
LEMMA OmittedUnusable ==
    ASSUME NEW L, NEW M, NEW s, NEW n, Omitted(L, M, s, n)
    PROVE  Unusable(L, s)
<1>1. LastEnded(L, s, n)
  BY Zenon DEF Omitted
<1>2. Good(L, s, n) /\ n = Len(L.calls) /\ \A r \in ToSet(L.rows) : Plain(r) /\ r.retry # NoCall
  BY <1>1, Zenon DEF LastEnded
<1>3. /\ L.calls \in Seq(Call) /\ Identified(L) /\ L.rows \in Seq(Row) /\ n \in Nat
      /\ n \in DOMAIN L.calls
  BY <1>1, <1>2, GoodParts DEF Good, LastEnded
<1>4. StageCalls(L.calls, s) # <<>> /\ Last(StageCalls(L.calls, s)) = L.calls[n]
  BY <1>1, LastOfStage
<1>5. {r \in Row : /\ r.failed \in IdsOf(L.calls)
                   /\ IndexOf(L.calls, r.failed) < IndexOf(L.calls, L.calls[n].id)} = Behind(L, n)
  BY <1>3, EarlierBehind
<1>6. Those(L.rows, Behind(L, n)) = L.rows
  <2>1. ASSUME NEW i \in DOMAIN L.rows PROVE L.rows[i] \in Behind(L, n)
    <3>1. L.rows[i] \in Row /\ L.rows[i] \in ToSet(L.rows)
      BY <1>3, ToSetIndex
    <3>2. Plain(L.rows[i]) /\ L.rows[i].retry # NoCall
      BY <1>2, <3>1
    <3>3. PICK p \in 1 .. n : GrantedBy(L, s, n, L.rows[i], p)
      BY <1>2, <3>1, <3>2, RowPlace
    <3>4. p < n /\ L.rows[i].failed = L.calls[p].id
      BY <3>2, <3>3, Zenon DEF GrantedBy
    <3>5. p \in 1 .. n - 1
      BY <1>3, <3>4
    <3> QED
      BY <3>1, <3>4, <3>5, Zenon DEF Behind
  <2> QED
    BY <1>3, <2>1, ThoseAll
<1>7. /\ \A c \in ToSet(StageCalls(L.calls, s)) : ~Usable(c)
      /\ \/ FailureReason(L.calls[n]) = "none" \/ L.calls[n].end = "cut_refused"
         \/ ~MayReserve(L.rows, s, L.calls[n], FailureReason(L.calls[n]))
  BY Zenon DEF Omitted
<1> QED
  BY <1>4, <1>5, <1>6, <1>7, Zenon DEF Unusable

\* The frontier moves over a stage that is left out.
LEMMA OmittedGood ==
    ASSUME NEW L, NEW M, NEW s, NEW n, Omitted(L, M, s, n)
    PROVE  Good(M, s + 1, n) /\ AtCall(M, s + 1, n) /\ LeftOut(M) = LeftOut(L) \union {s}
<1> DEFINE mine == StageCalls(L.calls, s)
           d0 == [stage |-> s, ids |-> [i \in DOMAIN mine |-> mine[i].id]]
<1>1. LastEnded(L, s, n) /\ s \in Degradable
  BY Zenon DEF Omitted
<1>2. /\ M \in Ledger /\ M.calls = L.calls /\ M.rows = L.rows /\ M.spent >= Len(M.calls) /\ M.halted = 0
      /\ M.left = Append(L.left, d0)
  BY Zenon DEF Omitted
<1>3. Good(L, s, n) /\ s \in Stage
  BY <1>1, Zenon DEF LastEnded
<1>4. L.left \in Seq([stage : Degradable, ids : Seq(Nat)]) /\ s \in Nat
  BY <1>3, GoodParts DEF Stage
<1>5. mine \in Seq(Call) /\ mine # <<>>
  BY <1>1, LastOfStage
<1>6. d0.ids \in Seq(Nat) /\ d0.ids # <<>> /\ d0.stage = s
  <2> HIDE DEF mine
  <2>1. \A i \in DOMAIN mine : mine[i].id \in Nat
    BY <1>5, CallParts
  <2>2. DOMAIN mine = 1 .. Len(mine) /\ Len(mine) \in Nat /\ Len(mine) > 0
    BY <1>5
  <2> QED
    BY <2>1, <2>2
<1>7. d0 \in [stage : Degradable, ids : Seq(Nat)]
  BY <1>1, <1>6
<1> HIDE DEF d0
<1>8. ToSet(M.left) = ToSet(L.left) \union {d0}
  <2> DEFINE X == [stage : Degradable, ids : Seq(Nat)]
  <2>1. L.left \in Seq(X) /\ d0 \in X
    BY <1>4, <1>7
  <2> HIDE DEF X
  <2>2. ToSet(Append(L.left, d0)) = ToSet(L.left) \union {d0}
    BY <2>1, ToSetAppend
  <2> QED
    BY <1>2, <2>2, Zenon
<1>9. LeftOut(M) = LeftOut(L) \union {s}
  BY <1>6, <1>8 DEF LeftOut
<1>10. \A d \in ToSet(L.left) : d.stage < s
  BY <1>3, LeftIds
<1>11. Dropped(M, s + 1)
  <2>1. Dropped(L, s)
    BY <1>3 DEF Good
  <2>2. \A t : Unusable(L, t) => Unusable(M, t)
    <3>1. M.calls = L.calls /\ M.rows = L.rows
      BY <1>2
    <3> QED
      BY <3>1, Zenon DEF Unusable
  <2>3. Unusable(L, s)
    BY OmittedUnusable
  <2>4. \A d \in ToSet(L.left) : Unusable(L, d.stage)
    BY <2>1, EachUnusable, Zenon DEF Dropped
  <2>5. \A d \in ToSet(M.left) : Unusable(M, d.stage)
    BY <1>6, <1>8, <2>2, <2>3, <2>4
  <2>6. DegradedProven(M)
    BY <2>5, EachUnusable
  <2>7. ASSUME NEW d \in ToSet(M.left)
        PROVE  /\ d.stage < s + 1
               /\ d.ids = [i \in DOMAIN StageCalls(M.calls, d.stage) |-> StageCalls(M.calls, d.stage)[i].id]
    <3>1. CASE d = d0
      <4>1. M.calls = L.calls
        BY <1>2
      <4>2. d0.ids = [i \in DOMAIN mine |-> mine[i].id]
        BY DEF d0
      <4>3. d.ids = [i \in DOMAIN StageCalls(M.calls, d.stage) |-> StageCalls(M.calls, d.stage)[i].id]
        BY <1>6, <3>1, <4>1, <4>2, Zenon
      <4>4. d.stage < s + 1
        BY <1>4, <1>6, <3>1
      <4> QED
        BY <4>3, <4>4
    <3>2. CASE d \in ToSet(L.left)
      <4>1. d.ids = [i \in DOMAIN StageCalls(L.calls, d.stage) |-> StageCalls(L.calls, d.stage)[i].id]
        BY <2>1, <3>2, Zenon DEF Dropped
      <4>2. M.calls = L.calls
        BY <1>2
      <4>3. d.stage < s /\ d.stage \in Nat
        <5>1. d.stage \in Degradable
          BY <1>3, <3>2, LeftIds
        <5>2. \A t \in Degradable : t \in Nat
          BY StageAssumption
        <5> QED
          BY <1>10, <3>2, <5>1, <5>2, Zenon
      <4>4. d.stage < s + 1
        BY <1>4, <4>3
      <4> QED
        BY <4>1, <4>2, <4>4, Zenon
    <3> QED
      BY <1>8, <3>1, <3>2
  <2> QED
    BY <2>6, <2>7, Zenon DEF Dropped
<1>12. StateValid(M)
  <2>1. StateValid(L)
    BY <1>3 DEF Good
  <2>2. M.rows = L.rows
    BY <1>2
  <2>3. /\ Len(M.rows) <= MaxExtra
        /\ \A i, j \in DOMAIN M.rows : i < j /\ M.rows[i].stage = M.rows[j].stage =>
              \/ M.rows[j].reason = "numbers"
              \/ /\ M.rows[i].reason = "transport" /\ M.rows[j].reason \in Chained
                 /\ M.rows[i].retry # NoCall /\ M.rows[i].retry = M.rows[j].failed
        /\ \A i \in DOMAIN M.rows : M.rows[i].reason = "numbers" => i = Len(M.rows) /\ M.rows[i].stage = LastStage
    BY <2>1, <2>2, Zenon DEF StateValid
  <2>4. LeftOut(L) \subseteq Degradable
    BY <2>1, Zenon DEF StateValid
  <2>5. LeftOut(M) \subseteq Degradable \ {M.halted}
    <3>1. 0 \notin Degradable
      BY StageAssumption
    <3> QED
      BY <1>1, <1>2, <1>9, <2>4, <3>1
  <2>6. \A d \in ToSet(L.left) : d.ids # <<>>
    BY <2>1, Zenon DEF StateValid
  <2>7. \A d \in ToSet(M.left) : d.ids # <<>>
    BY <1>6, <1>8, <2>6
  <2>8. \A i, j \in DOMAIN L.left : L.left[i].stage = L.left[j].stage => i = j
    BY <2>1, Zenon DEF StateValid
  <2>9. ASSUME NEW i \in DOMAIN M.left, NEW j \in DOMAIN M.left, M.left[i].stage = M.left[j].stage
        PROVE  i = j
    <3>1. /\ DOMAIN M.left = 1 .. Len(L.left) + 1 /\ M.left[Len(L.left) + 1] = d0 /\ Len(L.left) \in Nat
          /\ DOMAIN L.left = 1 .. Len(L.left)
          /\ \A k \in 1 .. Len(L.left) : M.left[k] = L.left[k]
      BY <1>2, <1>4, <1>7
    <3>2. \A k \in 1 .. Len(L.left) : M.left[k].stage # s
      <4>1. ASSUME NEW k \in 1 .. Len(L.left) PROVE L.left[k].stage # s
        <5>1. L.left[k] \in ToSet(L.left)
          BY <1>4, <3>1, ToSetIndex
        <5>2. L.left[k].stage < s
          BY <1>10, <5>1
        <5> QED
          BY <1>4, <5>2
      <4> QED
        BY <3>1, <4>1
    <3>3. i \in 1 .. Len(L.left) \/ i = Len(L.left) + 1
      BY <3>1
    <3>4. j \in 1 .. Len(L.left) \/ j = Len(L.left) + 1
      BY <3>1
    <3>5. M.left[Len(L.left) + 1].stage = s
      BY <1>6, <3>1
    <3>6. CASE i \in 1 .. Len(L.left) /\ j \in 1 .. Len(L.left)
      BY <2>8, <2>9, <3>1, <3>6, Zenon
    <3> QED
      BY <2>9, <3>2, <3>3, <3>4, <3>5, <3>6, Zenon
  <2> QED
    BY <2>3, <2>5, <2>7, <2>9, Zenon DEF StateValid
<1>13. s \in LeftOut(M) /\ LeftOut(L) \subseteq LeftOut(M)
  BY <1>9
<1> QED
  BY <1>1, <1>2, <1>9, <1>11, <1>12, <1>13, FrontierMoves

---------------------------------------------------------------------------
(* The sentence repair of the final report. *)

\* Whether it is sent or not, its row is the last, and the call it repairs the
\* last of the blocks.
Repairing(L, M, n, row) ==
    /\ Good(L, LastStage, n) /\ Refused(L, n) /\ n <= Len(M.calls)
    /\ \A r \in ToSet(L.rows) : Plain(r)
    /\ row \in Row /\ ~Plain(row) /\ row.stage = LastStage /\ row.failed = L.calls[n].id
    /\ Len(L.rows) < MaxExtra
    /\ M \in Ledger /\ M.left = L.left /\ M.rows = Append(L.rows, row)
    /\ M.halted \notin LeftOut(L) /\ M.spent >= Len(M.calls)
    /\ Identified(M) /\ \A i \in 1 .. n : M.calls[i] = L.calls[i]
    /\ \A t : StageCalls(M.calls, t) = StageCalls(L.calls, t)
    /\ RepairRow(M, n, row)
    /\ \/ n = Len(M.calls)
       \/ n + 1 = Len(M.calls) /\ M.calls[n + 1].attempt = 0 /\ M.calls[n + 1].stage = LastStage

\* The ledger stays good, its report refused.
LEMMA RepairingGood ==
    ASSUME NEW L, NEW M, NEW n, NEW row, Repairing(L, M, n, row)
    PROVE  Good(M, LastStage, n) /\ Refused(M, n)
<1>1. /\ Good(L, LastStage, n) /\ Refused(L, n) /\ M \in Ledger /\ M.left = L.left
      /\ M.halted \notin LeftOut(L) /\ M.spent >= Len(M.calls) /\ n <= Len(M.calls)
  BY Zenon DEF Repairing
<1>2. row \in Row /\ ~Plain(row) /\ row.stage = LastStage /\ row.failed = L.calls[n].id
  BY Zenon DEF Repairing
<1>3. M.rows = Append(L.rows, row) /\ L.rows \in Seq(Row)
  <2>1. M.rows = Append(L.rows, row)
    BY Zenon DEF Repairing
  <2> QED
    BY <1>1, <2>1, GoodParts
<1>4. n \in Nat /\ n > 0 /\ DOMAIN L.rows = 1 .. Len(L.rows) /\ Len(L.rows) \in Nat
  BY <1>1, GoodParts DEF Refused
<1>5. ToSet(M.rows) = ToSet(L.rows) \union {row}
  BY <1>2, <1>3, ToSetAppend
<1>6. \A i \in 1 .. n : M.calls[i] = L.calls[i]
  BY Zenon DEF Repairing
<1>7. \A r \in ToSet(L.rows) : Plain(r)
  BY Zenon DEF Repairing
<1>8. Framed(L, M, LastStage, n)
  <2>1. \A p \in 1 .. n : Those(M.rows, Behind(L, p)) = Those(L.rows, Behind(L, p))
    <3>1. ASSUME NEW p \in 1 .. n
          PROVE  Those(Append(L.rows, row), Behind(L, p)) = Those(L.rows, Behind(L, p))
      BY <1>1, <1>2, RowsFramed
    <3> QED
      BY <1>3, <3>1, Zenon
  <2>2. ToSet(L.rows) \subseteq ToSet(M.rows)
    BY <1>5
  <2>3. \A t : StageCalls(M.calls, t) = StageCalls(L.calls, t)
    BY Zenon DEF Repairing
  <2> QED
    BY <1>1, <1>6, <2>1, <2>2, <2>3, Zenon DEF Framed
<1>9. Refused(M, n)
  <2>1. n \in 1 .. n
    BY <1>4
  <2> QED
    BY <1>1, <1>6, <2>1, Zenon DEF Refused
<1>10. Granted(M, LastStage, n)
  <2>1. ASSUME NEW r \in ToSet(M.rows), Plain(r) PROVE \E i \in 1 .. n : GrantedBy(M, LastStage, n, r, i)
    <3>1. r \in ToSet(L.rows)
      BY <1>2, <1>5, <2>1
    <3>2. PICK i \in 1 .. n : GrantedBy(L, LastStage, n, r, i)
      BY <1>1, <2>1, <3>1, RowPlace
    <3>3. M.calls[i] = L.calls[i]
      BY <1>6
    <3>4. i < n => M.calls[i + 1] = L.calls[i + 1]
      BY <1>4, <1>6
    <3>5. GrantedBy(M, LastStage, n, r, i)
      BY <3>2, <3>3, <3>4, Zenon DEF GrantedBy
    <3> QED
      BY <3>5
  <2> QED
    BY <2>1, Zenon DEF Granted
<1>11. RepairLast(M, LastStage, n)
  <2>1. \A r \in ToSet(M.rows) : ~Plain(r) => r = row
    BY <1>5, <1>7
  <2>2. RepairRow(M, n, row) /\ row \in ToSet(M.rows)
    BY <1>5, Zenon DEF Repairing
  <2>3. \/ n = Len(M.calls)
        \/ n + 1 = Len(M.calls) /\ M.calls[n + 1].attempt = 0 /\ M.calls[n + 1].stage = LastStage
    BY Zenon DEF Repairing
  <2> QED
    BY <1>2, <1>9, <2>1, <2>2, <2>3, Zenon DEF RepairLast
<1>12. StateValid(M)
  <2>1. StateValid(L)
    BY <1>1 DEF Good
  <2>2. LeftOut(M) = LeftOut(L)
    BY <1>1, Zenon DEF LeftOut
  <2>3. LeftOut(L) \subseteq Degradable \ {L.halted}
    BY <2>1, Zenon DEF StateValid
  <2>4. LeftOut(M) \subseteq Degradable \ {M.halted}
    BY <1>1, <2>2, <2>3
  <2>5. /\ \A i, j \in DOMAIN M.left : M.left[i].stage = M.left[j].stage => i = j
        /\ \A d \in ToSet(M.left) : d.ids # <<>>
    BY <1>1, <2>1, Zenon DEF StateValid
  <2>6. /\ DOMAIN M.rows = 1 .. Len(L.rows) + 1 /\ M.rows[Len(L.rows) + 1] = row
        /\ Len(M.rows) = Len(L.rows) + 1
    BY <1>2, <1>3
  <2>7. \A i \in 1 .. Len(L.rows) : M.rows[i] = L.rows[i] /\ i \in DOMAIN L.rows
    BY <1>2, <1>3
  <2>8. Len(M.rows) <= MaxExtra
    <3>1. Len(L.rows) < MaxExtra
      BY Zenon DEF Repairing
    <3> QED
      BY <1>4, <2>6, <3>1, StageAssumption
  <2>9. \A i \in DOMAIN M.rows : i \in 1 .. Len(L.rows) \/ i = Len(L.rows) + 1
    BY <1>4, <2>6
  <2>10. row.reason = "numbers"
    BY <1>2 DEF Plain
  <2>11. ASSUME NEW i \in DOMAIN M.rows, NEW j \in DOMAIN M.rows, i < j, M.rows[i].stage = M.rows[j].stage
         PROVE  \/ M.rows[j].reason = "numbers"
                \/ /\ M.rows[i].reason = "transport" /\ M.rows[j].reason \in Chained
                   /\ M.rows[i].retry # NoCall /\ M.rows[i].retry = M.rows[j].failed
    <3>1. CASE j = Len(L.rows) + 1
      BY <2>6, <2>10, <3>1
    <3>2. CASE j \in 1 .. Len(L.rows)
      <4>1. i # Len(L.rows) + 1
        BY <1>4, <2>11, <3>2
      <4>2. i \in 1 .. Len(L.rows)
        BY <2>9, <4>1, Zenon
      <4>3. M.rows[i] = L.rows[i] /\ M.rows[j] = L.rows[j] /\ i \in DOMAIN L.rows /\ j \in DOMAIN L.rows
        BY <2>7, <3>2, <4>2, Zenon
      <4> QED
        BY <2>1, <2>11, <4>3, Zenon DEF StateValid
    <3> QED
      BY <2>9, <3>1, <3>2, Zenon
  <2>12. ASSUME NEW i \in DOMAIN M.rows, M.rows[i].reason = "numbers"
         PROVE  i = Len(M.rows) /\ M.rows[i].stage = LastStage
    <3>1. CASE i \in 1 .. Len(L.rows)
      <4>1. M.rows[i] = L.rows[i] /\ i \in DOMAIN L.rows
        BY <2>7, <3>1, Zenon
      <4>2. L.rows[i] \in ToSet(L.rows)
        BY <1>3, <4>1, ToSetIndex
      <4> QED
        BY <1>7, <2>12, <4>1, <4>2, Zenon DEF Plain
    <3>2. CASE i = Len(L.rows) + 1
      BY <1>2, <2>6, <3>2, Zenon
    <3> QED
      BY <2>9, <3>1, <3>2, Zenon
  <2> QED
    BY <2>4, <2>5, <2>8, <2>11, <2>12, Zenon DEF StateValid
<1>13. Identified(M)
  BY Zenon DEF Repairing
<1> QED
  BY <1>8, <1>9, <1>10, <1>11, <1>12, <1>13, FramedGood

\* validate_state() reads the rows, the left-out stages and the halt.
LEMMA StateSame ==
    ASSUME NEW L, NEW M, StateValid(L), M.rows = L.rows, M.left = L.left, M.halted \notin LeftOut(L)
    PROVE  StateValid(M)
<1> DEFINE rows == L.rows
<1>1. /\ Len(rows) <= MaxExtra
      /\ \A i, j \in DOMAIN rows : i < j /\ rows[i].stage = rows[j].stage =>
            \/ rows[j].reason = "numbers"
            \/ /\ rows[i].reason = "transport" /\ rows[j].reason \in Chained
               /\ rows[i].retry # NoCall /\ rows[i].retry = rows[j].failed
      /\ \A i \in DOMAIN rows : rows[i].reason = "numbers" => i = Len(rows) /\ rows[i].stage = LastStage
  BY Zenon DEF StateValid
<1>2. LeftOut(L) \subseteq Degradable \ {L.halted}
  BY Zenon DEF StateValid
<1>3. /\ \A i, j \in DOMAIN L.left : L.left[i].stage = L.left[j].stage => i = j
      /\ \A d \in ToSet(L.left) : d.ids # <<>>
  BY Zenon DEF StateValid
<1>4. LeftOut(M) = LeftOut(L)
  BY Zenon DEF LeftOut
<1>5. LeftOut(M) \subseteq Degradable \ {M.halted}
  BY <1>2, <1>4
<1> QED
  BY <1>1, <1>3, <1>5, Zenon DEF StateValid

\* How the repair ends changes nothing that the ledger's readers ask.
LEMMA RepairedGood ==
    ASSUME NEW L, NEW M, NEW n, Good(L, LastStage, n), Refused(L, n), n + 1 = Len(L.calls),
           NEW end \in End, M \in Ledger, M.calls = [L.calls EXCEPT ![Len(L.calls)].end = end],
           M.rows = L.rows, M.left = L.left, M.halted \notin LeftOut(L), M.spent >= Len(M.calls)
    PROVE  Good(M, LastStage, n) /\ Refused(M, n) /\ Len(M.calls) = Len(L.calls)
<1>1. L.calls \in Seq(Call) /\ n \in Nat /\ Len(L.calls) = n + 1 /\ DOMAIN L.calls = 1 .. n + 1
  BY GoodParts
<1>2. /\ Len(M.calls) = n + 1 /\ DOMAIN M.calls = 1 .. n + 1
      /\ (\A i \in 1 .. n : M.calls[i] = L.calls[i])
      /\ M.calls[n + 1] = [L.calls[n + 1] EXCEPT !.end = end]
  BY <1>1
<1>3. L.calls[n + 1] \in Call /\ M.calls[n + 1] \in Call
      /\ M.calls[n + 1].id = L.calls[n + 1].id /\ M.calls[n + 1].attempt = L.calls[n + 1].attempt
      /\ M.calls[n + 1].stage = L.calls[n + 1].stage
  <2>1. L.calls[n + 1] \in Call
    BY <1>1
  <2> QED
    BY <1>2, <2>1 DEF Call
<1>4. n > 0
  BY DEF Refused
<1>5. RepairLast(L, LastStage, n)
  BY DEF Good
<1>6. L.calls[n + 1].attempt = 0 /\ L.calls[n + 1].stage = LastStage /\ \E r \in ToSet(L.rows) : ~Plain(r)
  <2>1. ~(n = Len(L.calls))
    BY <1>1
  <2> QED
    BY <1>5, <2>1, Zenon DEF RepairLast
<1>7. \A i \in 1 .. n + 1 : i \in 1 .. n \/ i = n + 1
  BY <1>1
<1>8. \A i \in 1 .. n + 1 : M.calls[i].id = L.calls[i].id
  BY <1>2, <1>3, <1>7, Zenon
<1>9. Identified(M)
  <2>1. Identified(L)
    BY DEF Good
  <2> QED
    BY <1>1, <1>2, <1>8, <2>1, Zenon DEF Identified
<1>10. ASSUME NEW t PROVE StageCalls(M.calls, t) = StageCalls(L.calls, t)
  <2> DEFINE S == {c \in Call : c.stage = t /\ c.attempt > 0}
  <2>1. L.calls[n + 1] \notin S /\ M.calls[n + 1] \notin S
    <3>1. L.calls[n + 1].attempt = 0 /\ M.calls[n + 1].attempt = 0
      BY <1>3, <1>6
    <3>2. \A a : a = 0 => ~(a > 0)
      OBVIOUS
    <3> QED
      BY <3>1, <3>2, Zenon
  <2> HIDE DEF S
  <2>2. Len(L.calls) \in Nat /\ Len(M.calls) = Len(L.calls)
    BY <1>1, <1>2
  <2>3. \A i \in 1 .. Len(L.calls) : L.calls[i] = M.calls[i] \/ (L.calls[i] \notin S /\ M.calls[i] \notin S)
    BY <1>1, <1>2, <1>7, <2>1, Zenon
  <2>4. Those(L.calls, S) = Those(M.calls, S)
    BY <2>2, <2>3, ThoseOther
  <2> QED
    BY <2>4, Zenon DEF StageCalls, S
<1>11. Framed(L, M, LastStage, n)
  <2>1. n <= Len(M.calls) /\ ToSet(L.rows) \subseteq ToSet(M.rows)
    BY <1>1, <1>2
  <2> QED
    BY <1>2, <1>10, <2>1, Zenon DEF Framed
<1>12. Granted(M, LastStage, n)
  <2>1. ASSUME NEW r \in ToSet(M.rows), Plain(r) PROVE \E i \in 1 .. n : GrantedBy(M, LastStage, n, r, i)
    <3>1. r \in ToSet(L.rows)
      BY <2>1, Zenon
    <3>2. PICK i \in 1 .. n : GrantedBy(L, LastStage, n, r, i)
      BY <2>1, <3>1, RowPlace
    <3>3. M.calls[i] = L.calls[i]
      BY <1>2
    <3>4. i < n => M.calls[i + 1] = L.calls[i + 1]
      BY <1>1, <1>2
    <3>5. GrantedBy(M, LastStage, n, r, i)
      BY <3>2, <3>3, <3>4, Zenon DEF GrantedBy
    <3> QED
      BY <3>5
  <2> QED
    BY <2>1, Zenon DEF Granted
<1>13. n \in 1 .. n /\ n + 1 \in 1 .. n + 1
  BY <1>1, <1>4
<1>14. Refused(M, n)
  BY <1>2, <1>13, Zenon DEF Refused
<1>15. RepairLast(M, LastStage, n)
  <2>1. ASSUME NEW r \in ToSet(L.rows), ~Plain(r) PROVE RepairRow(M, n, r)
    <3>1. RepairRow(L, n, r)
      BY <1>5, <2>1, Zenon DEF RepairLast
    <3>2. M.calls[n] = L.calls[n] /\ M.calls[n + 1].id = L.calls[n + 1].id /\ Len(M.calls) = Len(L.calls)
      BY <1>1, <1>2, <1>3, <1>13
    <3> QED
      BY <3>1, <3>2, Zenon DEF RepairRow
  <2>2. n + 1 = Len(M.calls) /\ M.calls[n + 1].attempt = 0 /\ M.calls[n + 1].stage = LastStage
    BY <1>2, <1>3, <1>6
  <2> QED
    BY <1>6, <1>14, <2>1, <2>2, Zenon DEF RepairLast
<1>16. StateValid(M)
  <2>1. StateValid(L)
    BY DEF Good
  <2> QED
    BY <2>1, StateSame
<1>17. Good(M, LastStage, n)
  BY <1>9, <1>11, <1>12, <1>15, <1>16, FramedGood
<1> QED
  BY <1>1, <1>2, <1>14, <1>17

---------------------------------------------------------------------------
(* Replaying the ledger that was resumed. *)

\* The calls taken over are a front of it, the ones before the stage s.
Taken(P, L, s, k) ==
    /\ k \in 0 .. Len(P.calls) /\ k \in Nat /\ L.calls = SubSeq(P.calls, 1, k)
    /\ L.calls \in Seq(Call) /\ Len(L.calls) = k /\ DOMAIN L.calls = 1 .. k
    /\ \A i \in 1 .. k : L.calls[i] = P.calls[i] /\ i \in 1 .. Len(P.calls)
    /\ \A i \in 1 .. Len(P.calls) : i <= k <=> P.calls[i].stage < s
    /\ \A i \in 1 .. Len(P.calls) : P.calls[i].id \in IdsOf(L.calls) <=> i <= k

\* Which is what Replayed says.
LEMMA ReplayedTaken ==
    ASSUME NEW P, NEW f, NEW n, Good(P, f, n), NEW L, NEW s, Replayed(P, L, s)
    PROVE  \E k : Taken(P, L, s, k)
<1>1. PICK k \in 0 .. Len(P.calls) : /\ L.calls = SubSeq(P.calls, 1, k)
                                     /\ \A i \in DOMAIN P.calls : i <= k <=> P.calls[i].stage < s
  BY DEF Replayed
<1>2. P.calls \in Seq(Call) /\ Len(P.calls) \in Nat /\ DOMAIN P.calls = 1 .. Len(P.calls)
  BY GoodParts
<1>3. k \in Nat /\ k <= Len(P.calls)
  BY <1>1, <1>2
<1>4. L.calls \in Seq(Call) /\ Len(L.calls) = k /\ \A i \in 1 .. k : L.calls[i] = P.calls[i]
  <2>1. Len(P.calls) \in k .. Len(P.calls)
    BY <1>2, <1>3
  <2>2. /\ SubSeq(P.calls, 1, k) \in Seq(Call) /\ Len(SubSeq(P.calls, 1, k)) = k
        /\ \A i \in 1 .. k : SubSeq(P.calls, 1, k)[i] = P.calls[i]
    BY <1>1, <1>2, <2>1, Cut
  <2> QED
    BY <1>1, <2>2, Zenon
<1>5. DOMAIN L.calls = 1 .. k
  BY <1>3, <1>4
<1>6. \A i \in 1 .. k : i \in 1 .. Len(P.calls)
  BY <1>2, <1>3
<1>7. ASSUME NEW i \in 1 .. Len(P.calls) PROVE P.calls[i].id \in IdsOf(L.calls) <=> i <= k
  <2>1. ASSUME i <= k PROVE P.calls[i].id \in IdsOf(L.calls)
    <3>1. i \in 1 .. k /\ i \in DOMAIN L.calls
      BY <1>2, <1>3, <1>5, <2>1
    <3>2. L.calls[i].id \in IdsOf(L.calls)
      BY <1>4, <3>1, IdsIndex
    <3> QED
      BY <1>4, <3>1, <3>2, Zenon
  <2>2. ASSUME P.calls[i].id \in IdsOf(L.calls) PROVE i <= k
    <3>1. PICK j \in DOMAIN L.calls : P.calls[i].id = L.calls[j].id
      BY <1>4, <2>2, IdsIndex
    <3>2. j \in 1 .. k /\ j \in 1 .. Len(P.calls) /\ P.calls[i].id = P.calls[j].id
      BY <1>4, <1>5, <1>6, <3>1, Zenon
    <3>3. i = j
      <4>1. \A x, y \in 1 .. Len(P.calls) : P.calls[x].id = P.calls[y].id => x = y
        BY GoodIds
      <4> QED
        BY <3>2, <4>1, Zenon
    <3> QED
      BY <1>3, <3>2, <3>3
  <2> QED
    BY <2>1, <2>2
<1>8. \A i \in 1 .. Len(P.calls) : i <= k <=> P.calls[i].stage < s
  BY <1>1, <1>2, Zenon
<1>9. Taken(P, L, s, k)
  BY <1>1, <1>3, <1>4, <1>5, <1>6, <1>7, <1>8, Zenon DEF Taken
<1> QED
  BY <1>9

\* Copying the calls of the stage at work takes over its block.
LEMMA NextBlock ==
    ASSUME NEW P, NEW f, Good(P, f, Len(P.calls)), NEW L, NEW s \in Nat, Replayed(P, L, s),
           NEW ids, \A i \in 1 .. Len(P.calls) : P.calls[i].id \in ids <=> P.calls[i].stage = s,
           NEW M, M.calls = L.calls \o Those(P.calls, {c \in Call : c.id \in ids \ IdsOf(L.calls)})
    PROVE  Replayed(P, M, s + 1)
<1> DEFINE N == Len(P.calls)
           S == {c \in Call : c.id \in ids \ IdsOf(L.calls)}
           G == {i \in 1 .. N : P.calls[i].stage < s + 1}
<1>1. P.calls \in Seq(Call) /\ N \in Nat /\ DOMAIN P.calls = 1 .. N
  BY GoodParts
<1>2. PICK k : Taken(P, L, s, k)
  BY ReplayedTaken
<1>3. k \in 0 .. N /\ k \in Nat /\ L.calls = SubSeq(P.calls, 1, k)
  BY <1>2, Zenon DEF Taken
<1>4. \A i \in 1 .. N : P.calls[i] \in Call /\ P.calls[i].stage \in Nat
  <2>1. \A i \in 1 .. N : P.calls[i] \in Call
    BY GoodParts
  <2> QED
    BY <2>1, CallParts
<1>5. PICK m \in 0 .. N : G = 1 .. m
  <2>1. ASSUME NEW i \in G, NEW j \in 1 .. i PROVE j \in G
    <3>1. i \in 1 .. N /\ j \in 1 .. N /\ j <= i /\ P.calls[i].stage < s + 1
      BY <1>1, <2>1
    <3>2. P.calls[j].stage <= P.calls[i].stage
      BY <3>1, Zenon DEF Good, Sorted
    <3>3. P.calls[j].stage \in Nat /\ P.calls[i].stage \in Nat
      BY <1>4, <3>1
    <3>4. P.calls[j].stage < s + 1
      <4>1. \A a, b \in Nat : a <= b /\ b < s + 1 => a < s + 1
        OBVIOUS
      <4> QED
        BY <3>1, <3>2, <3>3, <4>1, Zenon
    <3> QED
      BY <3>1, <3>4
  <2>2. G \in SUBSET (1 .. N)
    OBVIOUS
  <2> HIDE DEF G
  <2> QED
    BY <1>1, <2>1, <2>2, DownClosed
<1>6. \A i \in 1 .. N : i <= m <=> P.calls[i].stage < s + 1
  <2>1. \A i \in 1 .. N : i \in G <=> i \in 1 .. m
    BY <1>5, Zenon
  <2>2. \A i \in 1 .. N : i \in 1 .. m <=> i <= m
    BY <1>1, <1>5
  <2>3. \A i \in 1 .. N : i \in G <=> P.calls[i].stage < s + 1
    BY Zenon DEF G
  <2> QED
    BY <2>1, <2>2, <2>3, Zenon
<1>7. \A i \in 1 .. N : i <= k <=> P.calls[i].stage < s
  BY <1>2, Zenon DEF Taken
<1>8. k <= m
  <2>1. CASE k = 0
    BY <1>5, <2>1
  <2>2. CASE k # 0
    <3>1. k \in 1 .. N
      BY <1>3, <2>2
    <3>2. P.calls[k].stage < s
      BY <1>3, <1>7, <3>1
    <3>3. P.calls[k].stage < s + 1
      BY <1>4, <3>1, <3>2
    <3> QED
      BY <1>6, <3>1, <3>3
  <2> QED
    BY <2>1, <2>2
<1>9. ASSUME NEW i \in DOMAIN P.calls PROVE P.calls[i] \in S <=> k < i /\ i <= m
  <2>1. i \in 1 .. N /\ i \in Nat
    BY <1>1, <1>9
  <2>2. P.calls[i] \in Call /\ P.calls[i].stage \in Nat
    BY <1>4, <2>1
  <2>3. P.calls[i].id \in IdsOf(L.calls) <=> i <= k
    BY <1>2, <2>1, Zenon DEF Taken
  <2>4. P.calls[i] \in S <=> P.calls[i].stage = s /\ ~(i <= k)
    BY <2>1, <2>2, <2>3, Zenon
  <2>5. P.calls[i].stage = s <=> P.calls[i].stage < s + 1 /\ ~(P.calls[i].stage < s)
    BY <2>2
  <2>6. P.calls[i].stage = s <=> i <= m /\ ~(i <= k)
    BY <1>6, <1>7, <2>1, <2>5, Zenon
  <2>7. ~(i <= k) <=> k < i
    BY <1>3, <2>1
  <2> QED
    BY <2>4, <2>6, <2>7, Zenon
<1> HIDE DEF S, G
<1>10. m \in k .. N
  BY <1>1, <1>3, <1>5, <1>8
<1>11. Those(P.calls, S) = SubSeq(P.calls, k + 1, m)
  BY <1>1, <1>3, <1>9, <1>10, ThoseInterval
<1>12. SubSeq(P.calls, 1, k) \o SubSeq(P.calls, k + 1, m) = SubSeq(P.calls, 1, m)
  BY <1>1, <1>3, <1>10, Cut
<1>13. M.calls = SubSeq(P.calls, 1, m)
  <2>1. M.calls = L.calls \o Those(P.calls, S)
    BY Zenon DEF S
  <2> QED
    BY <1>3, <1>11, <1>12, <2>1, Zenon
<1> QED
  BY <1>1, <1>5, <1>6, <1>13, Zenon DEF Replayed

\* Past the frontier everything is taken over.
LEMMA ReplayedAll ==
    ASSUME NEW P, NEW f, NEW n, Good(P, f, n), NEW L, NEW s, Replayed(P, L, s),
           \A i \in 1 .. Len(P.calls) : P.calls[i].stage < s
    PROVE  L.calls = P.calls
<1>1. PICK k : Taken(P, L, s, k)
  BY ReplayedTaken
<1>2. P.calls \in Seq(Call) /\ Len(P.calls) \in Nat
  BY GoodParts
<1>3. k \in Nat /\ k <= Len(P.calls) /\ L.calls = SubSeq(P.calls, 1, k)
  BY <1>1, <1>2 DEF Taken
<1>4. k = Len(P.calls)
  <2>1. \A i \in 1 .. Len(P.calls) : i <= k
    BY <1>1, Zenon DEF Taken
  <2>2. CASE Len(P.calls) = 0
    BY <1>2, <1>3, <2>2
  <2>3. CASE Len(P.calls) # 0
    <3>1. Len(P.calls) \in 1 .. Len(P.calls)
      BY <1>2, <2>3
    <3> QED
      BY <1>2, <1>3, <2>1, <3>1
  <2> QED
    BY <2>2, <2>3
<1>5. SubSeq(P.calls, 1, Len(P.calls)) = P.calls
  <2>1. Len(P.calls) \in 0 .. Len(P.calls) /\ Len(P.calls) \in Len(P.calls) .. Len(P.calls)
    BY <1>2
  <2> QED
    BY <1>2, <2>1, Cut
<1> QED
  BY <1>3, <1>4, <1>5

\* A ledger that is saved with the calls taken over so far is good, when these
\* have the calls of its rows and of its left-out stages.
KeptIds(L) ==
    (UNION {{r.failed, r.retry} : r \in ToSet(L.rows)}) \union (UNION {ToSet(d.ids) : d \in ToSet(L.left)})

TakenOver(P, f, L, s, k) ==
    /\ Good(P, f, Len(P.calls)) /\ (\A r \in ToSet(P.rows) : Plain(r)) /\ s \in 1 .. f
    /\ L \in Ledger /\ Taken(P, L, s, k) /\ L.rows = P.rows /\ L.left = P.left
    /\ L.halted \notin LeftOut(P) /\ L.spent >= Len(L.calls)
    /\ KeptIds(P) \intersect IdsOf(P.calls) \subseteq IdsOf(L.calls)

\* The rows are about calls taken over.
LEMMA TakenRows ==
    ASSUME NEW P, NEW f, NEW L, NEW s, NEW k, TakenOver(P, f, L, s, k), NEW r \in ToSet(P.rows)
    PROVE  Plain(r) /\ \E i \in 1 .. k : i < k /\ GrantedBy(P, f, Len(P.calls), r, i)
               /\ r.retry = P.calls[i + 1].id /\ P.calls[i + 1].stage = r.stage
<1> DEFINE N == Len(P.calls)
<1>1. /\ Good(P, f, N) /\ Plain(r) /\ s \in 1 .. f /\ Taken(P, L, s, k)
      /\ KeptIds(P) \intersect IdsOf(P.calls) \subseteq IdsOf(L.calls)
  BY Zenon DEF TakenOver
<1>2. PICK i \in 1 .. N : GrantedBy(P, f, N, r, i)
  BY <1>1, RowPlace
<1>3. N \in Nat /\ f \in Nat /\ s \in Nat /\ s <= f
  BY <1>1, GoodParts
<1>4. r.failed \in KeptIds(P) /\ r.retry \in KeptIds(P)
  BY DEF KeptIds
<1>5. \A j \in 1 .. N : P.calls[j].id \in KeptIds(P) => j <= k
  <2>1. \A j \in 1 .. N : P.calls[j].id \in IdsOf(P.calls)
    BY <1>1, GoodIds
  <2>2. \A j \in 1 .. N : P.calls[j].id \in IdsOf(L.calls) <=> j <= k
    BY <1>1, Zenon DEF Taken
  <2> QED
    BY <1>1, <2>1, <2>2
<1>6. r.failed = P.calls[i].id /\ i <= k
  <2>1. r.failed = P.calls[i].id
    BY <1>2, Zenon DEF GrantedBy
  <2> QED
    BY <1>4, <1>5, <2>1, Zenon
<1>7. P.calls[i].stage < s
  BY <1>1, <1>6, Zenon DEF Taken
<1>8. ~(r.retry = NoCall /\ i = N /\ r.stage = f)
  <2>1. ASSUME r.retry = NoCall /\ i = N /\ r.stage = f PROVE FALSE
    <3>1. r.stage = P.calls[i].stage
      BY <1>2, Zenon DEF GrantedBy
    <3>2. f < s
      BY <1>7, <2>1, <3>1, Zenon
    <3> QED
      BY <1>3, <3>2
  <2> QED
    BY <2>1
<1>9. i < N /\ r.retry = P.calls[i + 1].id /\ P.calls[i + 1].stage = r.stage
  BY <1>2, <1>8, Zenon DEF GrantedBy
<1>10. i + 1 \in 1 .. N
  BY <1>3, <1>9
<1>11. i + 1 <= k
  BY <1>4, <1>5, <1>9, <1>10, Zenon
<1>12. k \in Nat
  BY <1>1, Zenon DEF Taken
<1>13. i \in 1 .. k /\ i < k
  BY <1>10, <1>11, <1>12
<1> QED
  BY <1>1, <1>2, <1>9, <1>13, Zenon

\* A sequence is its front and the rest.
LEMMA CutWhole ==
    ASSUME NEW X, NEW s \in Seq(X), NEW k \in 0 .. Len(s)
    PROVE  s = SubSeq(s, 1, k) \o SubSeq(s, k + 1, Len(s))
<1>1. 1 \in 1 .. Len(s) + 1 /\ k \in 1 - 1 .. Len(s) /\ Len(s) \in k .. Len(s)
  OBVIOUS
<1>2. SubSeq(s, 1, k) \o SubSeq(s, k + 1, Len(s)) = SubSeq(s, 1, Len(s))
  BY <1>1, ConcatAdjacentSubSeq
<1>3. SubSeq(s, 1, Len(s)) = s
  BY SubSeqFull
<1> QED
  BY <1>2, <1>3, Zenon

\* What is selected of two sequences.
LEMMA StageCallsConcat ==
    ASSUME NEW a \in Seq(Call), NEW b \in Seq(Call), NEW t
    PROVE  StageCalls(a \o b, t) = StageCalls(a, t) \o StageCalls(b, t)
<1> DEFINE S == {c \in Call : c.stage = t /\ c.attempt > 0}
<1> HIDE DEF S
<1>1. Those(a \o b, S) = Those(a, S) \o Those(b, S)
  BY ThoseConcat
<1> QED
  BY <1>1, Zenon DEF StageCalls, S

\* The left-out stages are among the stages taken over.
LEMMA TakenLeft ==
    ASSUME NEW P, NEW f, NEW L, NEW s, NEW k, TakenOver(P, f, L, s, k), NEW d \in ToSet(P.left)
    PROVE  d.stage < s /\ StageCalls(L.calls, d.stage) = StageCalls(P.calls, d.stage)
<1> DEFINE N == Len(P.calls)
<1>1. /\ Good(P, f, N) /\ s \in 1 .. f /\ Taken(P, L, s, k)
      /\ KeptIds(P) \intersect IdsOf(P.calls) \subseteq IdsOf(L.calls)
  BY Zenon DEF TakenOver
<1>2. P.calls \in Seq(Call) /\ N \in Nat /\ DOMAIN P.calls = 1 .. N /\ k \in 0 .. N /\ k \in Nat
      /\ P.left \in Seq([stage : Degradable, ids : Seq(Nat)])
  BY <1>1, GoodParts DEF Taken
<1>3. PICK id \in ToSet(d.ids) : TRUE
  <2>1. d.ids # <<>>
    BY <1>1, Zenon DEF Good, StateValid
  <2>2. d.ids \in Seq(Nat)
    <3> DEFINE X == [stage : Degradable, ids : Seq(Nat)]
    <3>1. P.left \in Seq(X) /\ \A e \in X : e.ids \in Seq(Nat)
      BY <1>2
    <3> HIDE DEF X
    <3>2. d \in X
      BY <3>1, ToSetIndex
    <3> QED
      BY <3>1, <3>2
  <2>3. 1 \in DOMAIN d.ids
    BY <2>1, <2>2
  <2>4. d.ids[1] \in ToSet(d.ids)
    BY <2>2, <2>3, ToSetIndex
  <2> QED
    BY <2>4
<1>4. KeepsIds(P, N, d)
  BY <1>1, LeftIds
<1>5. PICK p \in 1 .. N : id = P.calls[p].id /\ P.calls[p].stage = d.stage
  BY <1>3, <1>4, Zenon DEF KeepsIds
<1>6. p <= k
  <2>1. id \in KeptIds(P)
    BY <1>3 DEF KeptIds
  <2>2. id \in IdsOf(P.calls)
    BY <1>1, <1>5, GoodIds
  <2>3. id \in IdsOf(L.calls)
    BY <1>1, <2>1, <2>2
  <2> QED
    BY <1>1, <1>5, <2>3, Zenon DEF Taken
<1>7. d.stage < s
  BY <1>1, <1>5, <1>6, Zenon DEF Taken
<1> DEFINE S == {c \in Call : c.stage = d.stage /\ c.attempt > 0}
           rest == SubSeq(P.calls, k + 1, N)
<1>8. N \in k .. N
  BY <1>2
<1>9. /\ SubSeq(P.calls, 1, k) \in Seq(Call) /\ rest \in Seq(Call) /\ Len(rest) = N - k
      /\ \A i \in 1 .. N - k : rest[i] = P.calls[k + i]
  BY <1>2, <1>8, Cut
<1>10. P.calls = L.calls \o rest
  <2>1. P.calls \in Seq(Call) /\ k \in 0 .. Len(P.calls)
    BY <1>2
  <2>2. P.calls = SubSeq(P.calls, 1, k) \o SubSeq(P.calls, k + 1, Len(P.calls))
    BY <2>1, CutWhole
  <2>3. L.calls = SubSeq(P.calls, 1, k)
    BY <1>1, Zenon DEF Taken
  <2> QED
    BY <2>2, <2>3, Zenon
<1>11. ASSUME NEW i \in DOMAIN rest PROVE rest[i] \notin S
  <2> HIDE DEF rest
  <2>1. i \in 1 .. N - k
    <3>1. rest \in Seq(Call) /\ Len(rest) = N - k
      BY <1>9
    <3> QED
      BY <3>1
  <2>2. rest[i] = P.calls[k + i] /\ k + i \in 1 .. N /\ ~(k + i <= k)
    <3>1. rest[i] = P.calls[k + i]
      BY <1>9, <2>1, Zenon
    <3>2. N \in Nat /\ k \in Nat
      BY <1>2
    <3>3. k + i \in 1 .. N /\ ~(k + i <= k)
      BY <2>1, <3>2
    <3> QED
      BY <3>1, <3>3
  <2>3. ~(P.calls[k + i].stage < s)
    BY <1>1, <2>2, Zenon DEF Taken
  <2> QED
    BY <1>7, <2>2, <2>3, Zenon
<1> HIDE DEF S, rest
<1>12. StageCalls(rest, d.stage) = <<>>
  <2>1. Those(rest, S) = <<>>
    BY <1>9, <1>11, ThoseNone
  <2> QED
    BY <2>1, Zenon DEF StageCalls, S
<1>13. L.calls \in Seq(Call) /\ rest \in Seq(Call)
  BY <1>1, <1>9 DEF Taken
<1>14. StageCalls(P.calls, d.stage) = StageCalls(L.calls, d.stage) \o StageCalls(rest, d.stage)
  <2>1. \A a, b \in Seq(Call) : StageCalls(a \o b, d.stage) = StageCalls(a, d.stage) \o StageCalls(b, d.stage)
    BY StageCallsConcat
  <2> QED
    BY <1>10, <1>13, <2>1, Zenon
<1>15. StageCalls(L.calls, d.stage) \in Seq(Call)
  <2>1. \A those : those = Those(L.calls, S) => those \in Seq(Call)
    BY <1>13, ThoseOrder
  <2> QED
    BY <2>1, Zenon DEF StageCalls, S
<1>16. \A a \in Seq(Call) : a \o <<>> = a
  OBVIOUS
<1> QED
  BY <1>7, <1>12, <1>14, <1>15, <1>16, Zenon

\* So that it is good, and nothing of the stage at work is in it.
LEMMA TakenGood ==
    ASSUME NEW P, NEW f, NEW L, NEW s, NEW k, TakenOver(P, f, L, s, k)
    PROVE  Good(L, s, k) /\ ~Stuck(L, s, k)
<1> DEFINE N == Len(P.calls)
<1>1. /\ Good(P, f, N) /\ s \in 1 .. f /\ Taken(P, L, s, k) /\ L \in Ledger
      /\ L.rows = P.rows /\ L.left = P.left /\ L.halted \notin LeftOut(P) /\ L.spent >= Len(L.calls)
      /\ \A r \in ToSet(P.rows) : Plain(r)
  BY Zenon DEF TakenOver
<1>2. N \in Nat /\ f \in Nat /\ f \in 1 .. LastStage + 1 /\ s \in Nat /\ s <= f /\ s \in 1 .. LastStage + 1
  BY <1>1, GoodParts
<1>3. k \in 0 .. N /\ k \in Nat /\ Len(L.calls) = k /\ DOMAIN L.calls = 1 .. k /\ L.calls \in Seq(Call)
  BY <1>1, Zenon DEF Taken
<1>4. \A i \in 1 .. k : L.calls[i] = P.calls[i] /\ i \in 1 .. N
  BY <1>1, Zenon DEF Taken
<1>5. \A i \in 1 .. N : i <= k <=> P.calls[i].stage < s
  BY <1>1, Zenon DEF Taken
<1>6. \A i \in 1 .. k : L.calls[i].stage < s /\ L.calls[i].stage \in Nat
  <2>1. ASSUME NEW i \in 1 .. k PROVE P.calls[i].stage < s /\ P.calls[i].stage \in Nat
    <3>1. i \in 1 .. N /\ i <= k
      BY <1>3, <1>4
    <3>2. P.calls[i] \in Call
      BY <1>1, <3>1, GoodParts
    <3> QED
      BY <1>5, <3>1, <3>2, CallParts
  <2> QED
    BY <1>4, <2>1
<1>7. Identified(L)
  <2>1. \A i \in 1 .. k : L.calls[i].id # NoCall
    BY <1>1, <1>4, GoodIds
  <2>2. \A i, j \in 1 .. N : P.calls[i].id = P.calls[j].id => i = j
    BY <1>1, GoodIds
  <2>3. \A i, j \in 1 .. k : L.calls[i].id = L.calls[j].id => i = j
    BY <1>4, <2>2, Zenon
  <2> QED
    BY <1>3, <2>1, <2>3, Zenon DEF Identified
<1>8. Sorted(L, s, k)
  <2>1. Sorted(P, f, N)
    BY <1>1 DEF Good
  <2>2. \A i, j \in 1 .. k : i <= j => L.calls[i].stage <= L.calls[j].stage
    BY <1>4, <2>1, Zenon DEF Sorted
  <2>3. \A i \in 1 .. k : L.calls[i].attempt > 0
    BY <1>4, <2>1, Zenon DEF Sorted
  <2>4. \A i \in 1 .. k : L.calls[i].stage <= s
    BY <1>2, <1>6
  <2> QED
    BY <2>2, <2>3, <2>4, Zenon DEF Sorted
<1>9. Linked(L, k)
  <2> SUFFICES ASSUME NEW i \in 1 .. k
               PROVE  \/ /\ i = 1 \/ L.calls[i - 1].stage # L.calls[i].stage
                         /\ L.calls[i].attempt = 1
                      \/ /\ i > 1 /\ L.calls[i - 1].stage = L.calls[i].stage
                         /\ L.calls[i].attempt = L.calls[i - 1].attempt + 1
                         /\ \E r \in ToSet(L.rows) : Plain(r) /\ r.failed = L.calls[i - 1].id /\ r.retry = L.calls[i].id
    BY Zenon DEF Linked
  <2>1. L.calls[i] = P.calls[i] /\ i \in 1 .. N
    BY <1>4
  <2>2. \/ /\ i = 1 \/ P.calls[i - 1].stage # P.calls[i].stage
           /\ P.calls[i].attempt = 1
        \/ /\ i > 1 /\ P.calls[i - 1].stage = P.calls[i].stage
           /\ P.calls[i].attempt = P.calls[i - 1].attempt + 1
           /\ \E r \in ToSet(P.rows) : Plain(r) /\ r.failed = P.calls[i - 1].id /\ r.retry = P.calls[i].id
    BY <1>1, <2>1, Zenon DEF Good, Linked
  <2>3. i = 1 \/ (i > 1 /\ i - 1 \in 1 .. k)
    BY <1>3
  <2>4. CASE i = 1
    BY <2>1, <2>2, <2>4
  <2>5. CASE i > 1 /\ i - 1 \in 1 .. k
    <3>1. L.calls[i - 1] = P.calls[i - 1] /\ L.rows = P.rows
      BY <1>1, <1>4, <2>5, Zenon
    <3> QED
      BY <2>1, <2>2, <3>1, Zenon
  <2> QED
    BY <2>3, <2>4, <2>5
<1>10. ASSUME NEW r \in ToSet(L.rows)
       PROVE  Plain(r) /\ r.retry # NoCall /\ \E i \in 1 .. k : GrantedBy(L, s, k, r, i)
  <2>1. r \in ToSet(P.rows)
    BY <1>1, <1>10, Zenon
  <2>2. PICK i \in 1 .. k : i < k /\ GrantedBy(P, f, N, r, i)
                            /\ r.retry = P.calls[i + 1].id /\ P.calls[i + 1].stage = r.stage
    BY <2>1, TakenRows
  <2>3. i + 1 \in 1 .. k /\ i \in 1 .. N /\ i + 1 \in 1 .. N
    BY <1>2, <1>3, <2>2
  <2>4. L.calls[i] = P.calls[i] /\ L.calls[i + 1] = P.calls[i + 1]
    BY <1>4, <2>3, Zenon
  <2>5. /\ r.failed = P.calls[i].id /\ r.stage = P.calls[i].stage
        /\ FailureReason(P.calls[i]) = r.reason /\ P.calls[i].end # "cut_refused"
    BY <2>2, Zenon DEF GrantedBy
  <2>6. GrantedBy(L, s, k, r, i)
    BY <2>2, <2>4, <2>5, Zenon DEF GrantedBy
  <2>7. P.calls[i + 1].id # NoCall
    BY <1>1, <2>3, GoodIds
  <2> QED
    BY <1>1, <2>1, <2>2, <2>6, <2>7
<1>11. Granted(L, s, k)
  BY <1>10, Zenon DEF Granted
<1>12. RepairLast(L, s, k)
  BY <1>3, <1>10, Zenon DEF RepairLast
<1>13. LeftOut(L) = LeftOut(P)
  BY <1>1, Zenon DEF LeftOut
<1>14. Settled(L, s, k)
  <2>1. ASSUME NEW t \in 1 .. s - 1, t \notin LeftOut(L)
        PROVE  \E i \in 1 .. k : L.calls[i].stage = t /\ L.calls[i].end = "valid" /\ Ends(L, k, i)
    <3>1. t \in 1 .. f - 1 /\ t \notin LeftOut(P) /\ t < s
      BY <1>2, <1>13, <2>1
    <3>2. PICK i \in 1 .. N : P.calls[i].stage = t /\ P.calls[i].end = "valid" /\ Ends(P, N, i)
      BY <1>1, <3>1, Zenon DEF Good, Settled
    <3>3. i <= k
      BY <1>5, <3>1, <3>2, Zenon
    <3>4. i \in 1 .. k
      BY <1>3, <3>3
    <3>5. Ends(L, k, i)
      <4>1. CASE i = k
        BY <4>1 DEF Ends
      <4>2. CASE i # k
        <5>1. i + 1 \in 1 .. k /\ i # N
          BY <1>2, <1>3, <3>4, <4>2
        <5>2. L.calls[i] = P.calls[i] /\ L.calls[i + 1] = P.calls[i + 1]
          BY <1>4, <3>4, <5>1, Zenon
        <5> QED
          BY <3>2, <5>1, <5>2, Zenon DEF Ends
      <4> QED
        BY <4>1, <4>2
    <3> QED
      BY <1>4, <3>2, <3>4, <3>5, Zenon
  <2> QED
    BY <2>1, Zenon DEF Settled
<1>15. Dropped(L, s)
  <2>1. Dropped(P, f)
    BY <1>1 DEF Good
  <2>2. ASSUME NEW d \in ToSet(L.left)
        PROVE  /\ d.stage < s
               /\ d.ids = [i \in DOMAIN StageCalls(L.calls, d.stage) |-> StageCalls(L.calls, d.stage)[i].id]
               /\ Unusable(L, d.stage)
    <3>1. d \in ToSet(P.left)
      BY <1>1, <2>2, Zenon
    <3>2. d.stage < s /\ StageCalls(L.calls, d.stage) = StageCalls(P.calls, d.stage)
      BY <3>1, TakenLeft
    <3>3. d.ids = [i \in DOMAIN StageCalls(P.calls, d.stage) |-> StageCalls(P.calls, d.stage)[i].id]
      BY <2>1, <3>1, Zenon DEF Dropped
    <3>4. Unusable(P, d.stage)
      BY <2>1, <3>1, EachUnusable, Zenon DEF Dropped
    <3>5. \A p \in 1 .. N : P.calls[p].stage = d.stage => p <= k
      BY <1>5, <3>2, Zenon
    <3>6. \A i \in 1 .. k : L.calls[i].id = P.calls[i].id
      BY <1>4
    <3>7. \A p \in 1 .. k : Those(L.rows, Behind(P, p)) = Those(P.rows, Behind(P, p))
      BY <1>1
    <3>8. k <= Len(L.calls)
      BY <1>3
    <3>9. Unusable(L, d.stage)
      BY <1>1, <1>3, <1>7, <3>2, <3>4, <3>5, <3>6, <3>7, <3>8, UnusableKept
    <3> QED
      BY <3>2, <3>3, <3>9, Zenon
  <2>3. DegradedProven(L)
    BY <2>2, EachUnusable, Zenon
  <2> QED
    BY <2>2, <2>3, Zenon DEF Dropped
<1>16. StateValid(L)
  <2>1. StateValid(P)
    BY <1>1 DEF Good
  <2> QED
    BY <1>1, <2>1, StateSame
<1>17. k \in 0 .. Len(L.calls)
  BY <1>3
<1>18. Good(L, s, k)
  BY <1>1, <1>2, <1>7, <1>8, <1>9, <1>11, <1>12, <1>14, <1>15, <1>16, <1>17, Zenon DEF Good
<1>19. ~Stuck(L, s, k)
  <2>1. SUFFICES ASSUME k > 0, L.calls[k].stage = s PROVE FALSE
    BY DEF Stuck
  <2>2. k \in 1 .. k
    BY <1>3, <2>1
  <2> QED
    BY <1>2, <1>6, <2>1, <2>2
<1> QED
  BY <1>18, <1>19

=============================================================================
