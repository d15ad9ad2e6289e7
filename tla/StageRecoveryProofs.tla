------------------------ MODULE StageRecoveryProofs -------------------------
(***************************************************************************)
(* Every step of StageRecovery keeps the invariant IInv, for any number of *)
(* stages, of processes and of extra calls, with interruptions and kills   *)
(* at any point; and with it what a run promises of its receipts, of the   *)
(* answers it takes over, of what it asks for and of the records it saves. *)
(*                                                                         *)
(* One lemma for each action, named after it, says that the action keeps   *)
(* the invariant; before it stand the facts it needs.  The theorems are at *)
(* the end.  They are about runs that resume neither a run that masked its *)
(* report (~ResumesMasked) nor a halted receipt that a replay left without *)
(* its answers (~ResumesForgotten): the code resumes both, and TLC shows   *)
(* that it does not keep these promises then.                              *)
(***************************************************************************)
EXTENDS StageLedgerProofs

---------------------------------------------------------------------------
(* Processes that end. *)

\* The receipt that a process writes which ends with this ledger.
Writes(l) == \E f \in 1 .. LastStage + 1, n \in 0 .. Len(Saved(l).calls) : Sealed(Saved(l), f, n)

\* A process that ends keeps the invariant when it writes a sealed receipt.
LEMMA StopKeeps ==
    ASSUME NEW l, Writes(l), Stop(l)
    PROVE  IInv'
<1>1. /\ phase' = "off" /\ stage' = 1 /\ asked' = 0 /\ ledger' = Fresh /\ prior' = Fresh /\ reuse' = <<>>
      /\ receipt' = Saved(l)
  BY Zenon DEF Stop, Gone
<1>2. LastStage \in Nat \ {0}
  BY StageAssumption
<1>3. LeftOut(Fresh) = {}
  BY DEF LeftOut, Fresh, ToSet
<1>4. stage' \in 1 .. LastStage + 1 /\ asked' \in 0 .. stage' /\ asked' <= LastStage
  BY <1>1, <1>2
<1>5. asked' \notin LeftOut(ledger')
  BY <1>1, <1>3, Zenon
<1>6. \E f \in 1 .. LastStage + 1, n \in 0 .. Len(receipt'.calls) : Sealed(receipt', f, n)
  BY <1>1, Zenon DEF Writes
<1> QED
  BY <1>1, <1>4, <1>5, <1>6, Zenon DEF IInv

\* Nothing of the prior ledger is missing.
LEMMA SavedWhole ==
    ASSUME NEW l, IdsOf(prior.calls) \subseteq IdsOf(l.calls)
    PROVE  Saved(l) = l
BY DEF Saved

\* Calls have their identities with them.
LEMMA IdsWithin ==
    ASSUME NEW a, NEW b, ToSet(a) \subseteq ToSet(b)
    PROVE  IdsOf(a) \subseteq IdsOf(b)
BY DEF IdsOf

\* A ledger of a process that replays the ledger P and may stop.
Interim(P, f, l, s) ==
    /\ Resumes(P, f) /\ s \in 1 .. f + 1 /\ Replayed(P, l, s) /\ l \in Ledger
    /\ l.rows = P.rows /\ l.left = P.left /\ l.spent = P.spent
    /\ l.halted \notin LeftOut(P)
    /\ l.interrupted => l.halted # 0
    /\ l.halted # 0 /\ ~l.interrupted => l.halted = f
    /\ Stuck(P, f, Len(P.calls)) => l.halted = f

\* With all calls of the ledger it resumed its receipt is as good as that.
LEMMA InterimWhole ==
    ASSUME NEW P, NEW f, NEW l, NEW s, Interim(P, f, l, s),
           NEW M \in Ledger, M.calls = P.calls, M.rows = l.rows, M.left = l.left, M.spent = l.spent,
           M.halted = l.halted, M.interrupted = l.interrupted
    PROVE  Sealed(M, f, Len(P.calls))
<1>1. /\ Resumes(P, f) /\ l.rows = P.rows /\ l.left = P.left /\ l.spent = P.spent
      /\ l.halted \notin LeftOut(P) /\ (l.interrupted => l.halted # 0)
      /\ (l.halted # 0 /\ ~l.interrupted => l.halted = f)
      /\ (Stuck(P, f, Len(P.calls)) => l.halted = f)
  BY Zenon DEF Interim
<1>2. Good(P, f, Len(P.calls))
  BY <1>1, Zenon DEF Resumes
<1>3. P.spent >= Len(P.calls) /\ f \in Nat
  <2>1. P.spent >= Len(P.calls)
    BY <1>2, Zenon DEF Good
  <2> QED
    BY <1>2, <2>1, GoodParts
<1>4. M.rows = P.rows /\ M.left = P.left /\ M.spent >= Len(P.calls) /\ M.halted \notin LeftOut(P)
  BY <1>1, <1>3, Zenon
<1>5. Good(M, f, Len(P.calls))
  BY <1>2, <1>4, GoodSame
<1>6. Stuck(M, f, Len(P.calls)) => Stuck(P, f, Len(P.calls))
  BY <1>4, Zenon DEF Stuck
<1>7. M.halted # 0 /\ ~M.interrupted => M.halted >= f
  <2>1. M.halted # 0 /\ ~M.interrupted => M.halted = f
    BY <1>1, Zenon
  <2> QED
    BY <1>3, <2>1
<1>8. (M.interrupted => M.halted # 0) /\ (Stuck(M, f, Len(P.calls)) => M.halted = f)
  BY <1>1, <1>6, Zenon
<1> QED
  BY <1>5, <1>7, <1>8, Zenon DEF Sealed

\* Wherever it stops, its receipt is sealed.
LEMMA InterimWrites ==
    ASSUME NEW f, NEW l, NEW s, Interim(prior, f, l, s)
    PROVE  Writes(l)
<1> DEFINE N == Len(prior.calls)
<1>1. /\ Resumes(prior, f) /\ s \in 1 .. f + 1 /\ Replayed(prior, l, s) /\ l \in Ledger
      /\ l.rows = prior.rows /\ l.left = prior.left /\ l.spent = prior.spent
      /\ l.halted \notin LeftOut(prior) /\ (l.interrupted => l.halted # 0)
      /\ (l.halted # 0 /\ ~l.interrupted => l.halted = f)
  BY Zenon DEF Interim
<1>2. Good(prior, f, N) /\ \A r \in ToSet(prior.rows) : Plain(r)
  BY <1>1, Zenon DEF Resumes
<1>3. /\ f \in 1 .. LastStage + 1 /\ f \in Nat /\ N \in Nat /\ prior.calls \in Seq(Call)
      /\ DOMAIN prior.calls = 1 .. N /\ LastStage \in Nat
  BY <1>2, GoodParts
<1>4. Saved(l) = l \/ Saved(l) = [l EXCEPT !.calls = prior.calls]
  BY Zenon DEF Saved
<1>5. ASSUME Saved(l).calls = prior.calls PROVE Writes(l)
  <2>1. Saved(l) \in Ledger
    <3>1. [l EXCEPT !.calls = prior.calls] \in Ledger
      BY <1>1, <1>3 DEF Ledger
    <3> QED
      BY <1>1, <1>4, <3>1, Zenon
  <2>2. /\ Saved(l).rows = l.rows /\ Saved(l).left = l.left /\ Saved(l).spent = l.spent
        /\ Saved(l).halted = l.halted /\ Saved(l).interrupted = l.interrupted
    <3>1. CASE Saved(l) = l
      BY <3>1, Zenon
    <3>2. CASE Saved(l) = [l EXCEPT !.calls = prior.calls]
      <4>1. \A M : M = [l EXCEPT !.calls = prior.calls] =>
                /\ M.rows = l.rows /\ M.left = l.left /\ M.spent = l.spent
                /\ M.halted = l.halted /\ M.interrupted = l.interrupted
        BY <1>1 DEF Ledger
      <4> QED
        BY <3>2, <4>1, Zenon
    <3> QED
      BY <1>4, <3>1, <3>2
  <2>3. Sealed(Saved(l), f, N)
    BY <1>5, <2>1, <2>2, InterimWhole
  <2>4. N \in 0 .. Len(Saved(l).calls)
    BY <1>3, <1>5
  <2> QED
    BY <1>3, <2>3, <2>4, Zenon DEF Writes
<1>6. CASE s = f + 1
  <2>1. \A i \in 1 .. N : prior.calls[i].stage < s
    <3>1. \A i \in 1 .. N : prior.calls[i].stage <= f
      BY <1>2, Zenon DEF Good, Sorted
    <3>2. \A i \in 1 .. N : prior.calls[i].stage \in Nat
      <4>1. \A i \in 1 .. N : prior.calls[i] \in Call
        BY <1>2, GoodParts
      <4> QED
        BY <4>1, CallParts
    <3> QED
      BY <1>3, <1>6, <3>1, <3>2
  <2>2. l.calls = prior.calls
    BY <1>1, <1>2, <2>1, ReplayedAll
  <2>3. Saved(l).calls = prior.calls
    <3>1. \A M : M = [l EXCEPT !.calls = prior.calls] => M.calls = prior.calls
      BY <1>1 DEF Ledger
    <3> QED
      BY <1>4, <2>2, <3>1, Zenon
  <2> QED
    BY <1>5, <2>3
<1>7. CASE s # f + 1 /\ Saved(l) = l
  <2>1. PICK k : Taken(prior, l, s, k)
    BY <1>1, <1>2, ReplayedTaken
  <2>2. k \in 0 .. N /\ k \in Nat /\ Len(l.calls) = k /\ l.calls \in Seq(Call) /\ DOMAIN l.calls = 1 .. k
    BY <2>1, Zenon DEF Taken
  <2>3. IdsOf(l.calls) \subseteq IdsOf(prior.calls)
    <3>1. \A i \in 1 .. k : l.calls[i] = prior.calls[i] /\ i \in 1 .. N
      BY <2>1, Zenon DEF Taken
    <3>2. \A i \in 1 .. N : prior.calls[i].id \in IdsOf(prior.calls)
      BY <1>2, GoodIds
    <3>3. \A id \in IdsOf(l.calls) : \E i \in 1 .. k : id = l.calls[i].id
      BY <2>2, IdsIndex
    <3> QED
      BY <3>1, <3>2, <3>3
  <2>4. KeptIds(prior) \intersect IdsOf(prior.calls) \subseteq IdsOf(l.calls)
    <3>1. CASE l.calls = prior.calls
      BY <3>1
    <3>2. CASE l.calls # prior.calls
      <4>1. l # [l EXCEPT !.calls = prior.calls]
        <5>1. [l EXCEPT !.calls = prior.calls].calls = prior.calls
          BY <1>1 DEF Ledger
        <5> QED
          BY <3>2, <5>1, Zenon
      <4>2. KeptIds(l) \intersect IdsOf(prior.calls) \subseteq IdsOf(l.calls)
        BY <1>7, <2>3, <4>1, Zenon DEF Saved, KeptIds
      <4>3. KeptIds(l) = KeptIds(prior)
        BY <1>1, Zenon DEF KeptIds
      <4> QED
        BY <4>2, <4>3, Zenon
    <3> QED
      BY <3>1, <3>2
  <2>5. s \in 1 .. f /\ s \in Nat
    BY <1>1, <1>3, <1>7
  <2>6. l.spent >= Len(l.calls)
    <3>1. prior.spent >= N
      BY <1>2, Zenon DEF Good
    <3>2. prior.spent \in Nat
      BY <1>2, GoodParts
    <3> QED
      BY <1>1, <1>3, <2>2, <3>1, <3>2
  <2>7. TakenOver(prior, f, l, s, k)
    BY <1>1, <1>2, <2>1, <2>4, <2>5, <2>6, Zenon DEF TakenOver
  <2>8. Good(l, s, k) /\ ~Stuck(l, s, k)
    BY <2>7, TakenGood
  <2>9. l.halted # 0 /\ ~l.interrupted => l.halted >= s
    <3>1. f >= s
      BY <1>3, <2>5
    <3> QED
      BY <1>1, <3>1, Zenon
  <2>10. Sealed(l, s, k)
    BY <1>1, <2>8, <2>9, Zenon DEF Sealed
  <2>11. s \in 1 .. LastStage + 1 /\ k \in 0 .. Len(l.calls)
    BY <1>3, <2>2, <2>5
  <2> QED
    BY <1>7, <2>10, <2>11, Zenon DEF Writes
<1>8. CASE Saved(l) = [l EXCEPT !.calls = prior.calls]
  <2>1. Saved(l).calls = prior.calls
    BY <1>1, <1>8 DEF Ledger
  <2> QED
    BY <1>5, <2>1
<1> QED
  BY <1>4, <1>6, <1>7, <1>8

---------------------------------------------------------------------------
(* Starting. *)

\* The ledger of a run that starts from nothing.
LEMMA FreshGood == Fresh \in Ledger /\ Good(Fresh, 1, 0) /\ LeftOut(Fresh) = {} /\ ToSet(Fresh.calls) = {}
<1>1. LastStage \in Nat \ {0} /\ MaxExtra \in Nat
  BY StageAssumption
<1>2. /\ Fresh.calls = <<>> /\ Fresh.rows = <<>> /\ Fresh.left = <<>> /\ Fresh.halted = 0 /\ Fresh.spent = 0
  BY DEF Fresh
<1>3. Fresh \in Ledger
  <2>1. <<>> \in Seq(Call) /\ <<>> \in Seq(Row) /\ <<>> \in Seq([stage : Degradable, ids : Seq(Nat)])
    OBVIOUS
  <2>2. 0 \in 0 .. LastStage /\ 0 \in Nat
    BY <1>1
  <2> QED
    BY <2>1, <2>2 DEF Ledger, Fresh
<1>4. ToSet(Fresh.calls) = {} /\ ToSet(Fresh.rows) = {} /\ ToSet(Fresh.left) = {} /\ LeftOut(Fresh) = {}
  BY <1>2 DEF ToSet, LeftOut
<1>5. 1 .. 0 = {} /\ Len(Fresh.calls) = 0 /\ Len(Fresh.rows) = 0 /\ DOMAIN Fresh.calls = {} /\ DOMAIN Fresh.rows = {}
      /\ DOMAIN Fresh.left = {}
  BY <1>2
<1>6. Identified(Fresh) /\ Sorted(Fresh, 1, 0) /\ Linked(Fresh, 0)
  BY <1>5, Zenon DEF Identified, Sorted, Linked
<1>7. Granted(Fresh, 1, 0) /\ RepairLast(Fresh, 1, 0)
  BY <1>4, <1>5, Zenon DEF Granted, RepairLast
<1>8. Settled(Fresh, 1, 0)
  <2>1. 1 .. 1 - 1 = {}
    OBVIOUS
  <2> QED
    BY <2>1, Zenon DEF Settled
<1>9. Dropped(Fresh, 1)
  BY <1>4, Zenon DEF Dropped, DegradedProven
<1>10. StateValid(Fresh)
  <2>1. Len(Fresh.rows) <= MaxExtra
    BY <1>1, <1>5
  <2> QED
    BY <1>4, <1>5, <2>1, Zenon DEF StateValid
<1>11. 1 \in 1 .. LastStage + 1 /\ 0 \in 0 .. Len(Fresh.calls) /\ Fresh.spent >= Len(Fresh.calls)
  BY <1>1, <1>2, <1>5
<1> QED
  BY <1>3, <1>4, <1>6, <1>7, <1>8, <1>9, <1>10, <1>11, Zenon DEF Good

\* A process at work, whose step keeps its receipt and the ledger it resumed.
Framing ==
    /\ phase # "off" /\ receipt' = receipt /\ prior' = prior
    /\ phase' \in {"stage", "flight", "refused", "repairing", "halting"}
    /\ stage' \in 1 .. LastStage + 1 /\ asked' \in 0 .. stage' /\ asked' <= LastStage
    /\ asked' \notin LeftOut(ledger')

\* Nothing else is to be seen of the invariant.
LEMMA FrameKeeps ==
    ASSUME IInv, Framing, Replaying' \/ Working'
    PROVE  IInv'
<1>1. prior = IF receipt = None THEN Fresh ELSE receipt
  BY Zenon DEF IInv, Framing
<1>2. receipt # None => \E f \in 1 .. LastStage + 1, n \in 0 .. Len(receipt.calls) : Sealed(receipt, f, n)
  BY Zenon DEF IInv
<1>3. phase' # "off" /\ phase' \in {"off", "stage", "flight", "refused", "repairing", "halting"}
  BY DEF Framing
<1>4. receipt' = receipt /\ prior' = prior
  BY Zenon DEF Framing
<1>5. receipt' # None => \E f \in 1 .. LastStage + 1, n \in 0 .. Len(receipt'.calls) : Sealed(receipt', f, n)
  BY <1>2, <1>4, Zenon
<1>6. prior' = IF receipt' = None THEN Fresh ELSE receipt'
  BY <1>1, <1>4, Zenon
<1> QED
  BY <1>3, <1>5, <1>6, Zenon DEF IInv, Framing

\* An accepted call at the frontier is the last call, and none is granted.
LEMMA ValidStuck ==
    ASSUME NEW L, NEW f, NEW n, Good(L, f, n), NEW c \in ToSet(L.calls), c.stage = f, c.end = "valid",
           n = Len(L.calls)
    PROVE  Stuck(L, f, n)
<1>1. L.calls \in Seq(Call) /\ n \in Nat /\ DOMAIN L.calls = 1 .. Len(L.calls)
  BY GoodParts
<1>2. PICK p \in DOMAIN L.calls : c = L.calls[p]
  BY <1>1, ToSetIndex
<1>3. p \in 1 .. n /\ p \in 1 .. Len(L.calls)
  BY <1>1, <1>2
<1>4. ~ \E r \in ToSet(L.rows) : Plain(r) /\ r.failed = L.calls[p].id
  <2>1. ASSUME NEW r \in ToSet(L.rows), Plain(r), r.failed = L.calls[p].id PROVE FALSE
    <3>1. L.calls[p].end \in {"cut", "lost", "empty", "repair", "again"}
      BY <1>3, <2>1, FailedEnds
    <3>2. L.calls[p].end = "valid"
      BY <1>2
    <3> QED
      BY <3>1, <3>2
  <2> QED
    BY <2>1, Zenon
<1>5. Ends(L, n, p)
  <2>1. ASSUME ~Ends(L, n, p) PROVE FALSE
    <3>1. \E r \in ToSet(L.rows) : Plain(r) /\ r.failed = L.calls[p].id /\ r.retry = L.calls[p + 1].id
      BY <1>3, <2>1, FollowedFailed
    <3> QED
      BY <1>4, <3>1, Zenon
  <2> QED
    BY <2>1
<1>6. L.calls[p].stage = f
  BY <1>2, Zenon
<1> QED
  BY <1>3, <1>4, <1>5, <1>6, StandsStuck

\* What a process may resume is what it can go on from.
LEMMA SealedResumes ==
    ASSUME NEW L, NEW f, NEW n, Sealed(L, f, n), ~Repaired(L), ~Masked(L), ~Forgotten(L)
    PROVE  Resumes(L, f)
<1>1. Good(L, f, n)
  BY DEF Sealed
<1>2. /\ L.calls \in Seq(Call) /\ L.halted \in 0 .. LastStage /\ f \in Nat /\ f \in 1 .. LastStage + 1
      /\ n \in Nat /\ Len(L.calls) \in Nat /\ LastStage \in Nat
  BY <1>1, GoodParts
<1>3. \A r \in ToSet(L.rows) : Plain(r)
  BY Zenon DEF Repaired, Plain
<1>4. n = Len(L.calls)
  BY <1>1, <1>3, Zenon DEF Good, RepairLast
<1>5. Stuck(L, f, n) => L.halted = f
  <2>1. ASSUME Refused(L, n), L.halted = 0 PROVE FALSE
    <3>1. n \in DOMAIN L.calls /\ L.calls[n].end = "numbers"
      BY <1>2, <1>4, <2>1 DEF Refused
    <3>2. L.calls[n] \in ToSet(L.calls)
      BY <1>2, <3>1, ToSetIndex
    <3> QED
      BY <2>1, <3>1, <3>2, Zenon DEF Masked
  <2> QED
    BY <2>1, Zenon DEF Sealed
<1>6. L.halted <= f
  <2>1. SUFFICES ASSUME ~(L.halted <= f) PROVE FALSE
    OBVIOUS
  <2>2. f \in 1 .. L.halted - 1 /\ L.halted # f /\ L.halted # 0
    BY <1>2, <2>1
  <2>3. f \notin LeftOut(L)
    <3>1. ASSUME f \in LeftOut(L) PROVE FALSE
      <4>1. PICK d \in ToSet(L.left) : d.stage = f
        BY <3>1 DEF LeftOut
      <4>2. d.stage < f
        BY <1>1, LeftIds
      <4> QED
        BY <1>2, <4>1, <4>2
    <3> QED
      BY <3>1
  <2>4. PICK c \in ToSet(L.calls) : c.stage = f /\ c.end = "valid"
    BY <2>2, <2>3, Zenon DEF Forgotten
  <2>5. Stuck(L, f, n)
    BY <1>1, <1>4, <2>4, ValidStuck
  <2> QED
    BY <1>5, <2>2, <2>5
<1>7. L.halted # 0 /\ ~L.interrupted => L.halted = f
  <2>1. L.halted # 0 /\ ~L.interrupted => L.halted >= f
    BY Zenon DEF Sealed
  <2> QED
    BY <1>2, <1>6, <2>1
<1>8. L.interrupted => L.halted # 0
  BY Zenon DEF Sealed
<1> QED
  BY <1>1, <1>3, <1>4, <1>5, <1>6, <1>7, <1>8, Zenon DEF Resumes

\* A process that starts from nothing.
LEMMA StartFresh ==
    ASSUME IInv, receipt = None, receipt' = receipt, ledger' = Fresh, prior' = Fresh, reuse' = <<>>,
           phase' = "stage", stage' = 1, asked' = 0
    PROVE  IInv'
<1>1. Fresh \in Ledger /\ Good(Fresh, 1, 0) /\ LeftOut(Fresh) = {} /\ ToSet(Fresh.calls) = {}
  BY FreshGood
<1>2. Fresh.calls = <<>> /\ Fresh.halted = 0 /\ Fresh.interrupted = FALSE
  BY DEF Fresh
<1>3. Len(Fresh.calls) = 0
  BY <1>2
<1>4. Held'
  BY <1>1, <1>2, Zenon DEF Held
<1>5. Asking'
  BY <1>1, <1>3, Zenon DEF Asking, AtCall
<1>6. Working'
  BY <1>4, <1>5, Zenon DEF Working
<1>7. LastStage \in Nat \ {0}
  BY StageAssumption
<1>8. stage' \in 1 .. LastStage + 1 /\ asked' \in 0 .. stage' /\ asked' <= LastStage
  BY <1>7
<1>9. phase' # "off" /\ phase' \in {"off", "stage", "flight", "refused", "repairing", "halting"}
  OBVIOUS
<1>10. asked' \notin LeftOut(ledger')
  BY <1>1, Zenon
<1> QED
  BY <1>6, <1>8, <1>9, <1>10, Zenon DEF IInv

\* A process that resumes the last receipt.
LEMMA StartResumed ==
    ASSUME IInv, receipt # None, NEW f, Resumes(receipt, f), receipt' = receipt,
           ledger' = [receipt EXCEPT !.calls = <<>>, !.generations = 0], prior' = receipt,
           reuse' = Reusable(receipt), phase' = "stage", stage' = 1, asked' = 0
    PROVE  IInv'
<1>1. Good(receipt, f, Len(receipt.calls))
  BY Zenon DEF Resumes
<1>2. /\ receipt \in Ledger /\ f \in 1 .. LastStage + 1 /\ LastStage \in Nat \ {0} /\ f \in Nat
      /\ receipt.calls \in Seq(Call) /\ receipt.halted \in 0 .. LastStage
  BY <1>1, GoodParts DEF Good
<1>3. /\ ledger' \in Ledger /\ ledger'.calls = <<>> /\ ledger'.rows = receipt.rows /\ ledger'.left = receipt.left
      /\ ledger'.halted = receipt.halted /\ ledger'.interrupted = receipt.interrupted /\ ledger'.spent = receipt.spent
  <2>1. <<>> \in Seq(Call) /\ 0 \in Nat
    OBVIOUS
  <2> QED
    BY <1>2, <2>1 DEF Ledger
<1>4. SameRows(prior', ledger')
  BY <1>3, Zenon DEF SameRows
<1>5. Replayed(prior', ledger', stage')
  <2>1. SubSeq(receipt.calls, 1, 0) = <<>>
    BY <1>2
  <2>2. 0 \in 0 .. Len(receipt.calls)
    BY <1>2
  <2>3. \A i \in DOMAIN receipt.calls : i <= 0 <=> receipt.calls[i].stage < 1
    <3>1. \A i \in DOMAIN receipt.calls : i \in 1 .. Len(receipt.calls) /\ receipt.calls[i] \in Call
      BY <1>2
    <3>2. \A i \in DOMAIN receipt.calls : receipt.calls[i].stage \in 1 .. LastStage
      BY <3>1, CallParts
    <3> QED
      BY <3>1, <3>2
  <2> QED
    BY <1>3, <2>1, <2>2, <2>3, Zenon DEF Replayed
<1>6. Reuses(prior', f, reuse', stage')
  BY <1>1, ReusableReuses, Zenon
<1>7. prior'.halted # 0 => stage' <= prior'.halted
  BY <1>2
<1>8. Resumes(prior', f) /\ stage' <= f
  BY <1>2
<1>9. phase' = "stage" /\ phase' \in {"stage", "halting"} /\ phase' # "halting"
  OBVIOUS
<1>10. Replaying'
  BY <1>2, <1>3, <1>4, <1>5, <1>6, <1>7, <1>8, <1>9, Zenon DEF Replaying
<1>11. stage' \in 1 .. LastStage + 1 /\ asked' \in 0 .. stage' /\ asked' <= LastStage
  BY <1>2
<1>12. asked' \notin LeftOut(ledger')
  <2>1. LeftOut(ledger') = LeftOut(receipt)
    BY <1>3, Zenon DEF LeftOut
  <2>2. LeftOut(receipt) \subseteq Degradable
    <3>1. LeftOut(receipt) \subseteq Degradable \ {receipt.halted}
      BY <1>1, Zenon DEF Good, StateValid
    <3> QED
      BY <3>1
  <2>3. 0 \notin Degradable
    BY StageAssumption
  <2> QED
    BY <2>1, <2>2, <2>3
<1>13. phase' # "off" /\ phase' \in {"off", "stage", "flight", "refused", "repairing", "halting"}
  OBVIOUS
<1>14. receipt' # None => \E g \in 1 .. LastStage + 1, n \in 0 .. Len(receipt'.calls) : Sealed(receipt', g, n)
  BY Zenon DEF IInv
<1> QED
  BY <1>10, <1>11, <1>12, <1>13, <1>14, Zenon DEF IInv

\* Starting keeps the invariant, from nothing or from the last receipt.
LEMMA StartKeeps ==
    ASSUME IInv, Start, ~ResumesMasked, ~ResumesForgotten
    PROVE  IInv'
<1>1. phase' = "stage" /\ stage' = 1 /\ asked' = 0 /\ receipt' = receipt
  BY Zenon DEF Start
<1>2. CASE receipt = None
  <2>1. ledger' = Fresh /\ prior' = Fresh /\ reuse' = <<>>
    BY <1>2, Zenon DEF Start
  <2> QED
    BY <1>1, <1>2, <2>1, StartFresh
<1>3. CASE receipt # None
  <2>1. /\ ~Repaired(receipt) /\ ~Masked(receipt) /\ ~Forgotten(receipt)
        /\ ledger' = [receipt EXCEPT !.calls = <<>>, !.generations = 0]
        /\ prior' = receipt /\ reuse' = Reusable(receipt)
    BY <1>3, Zenon DEF Start
  <2>2. PICK f \in 1 .. LastStage + 1, n \in 0 .. Len(receipt.calls) : Sealed(receipt, f, n)
    BY <1>3, Zenon DEF IInv
  <2>3. Resumes(receipt, f)
    BY <2>1, <2>2, SealedResumes
  <2> QED
    BY <1>1, <1>3, <2>1, <2>3, StartResumed
<1> QED
  BY <1>2, <1>3

---------------------------------------------------------------------------
(* Taking over what the ledger that was resumed has. *)

\* The calls of these identities are the ones of the stage.
Covers(P, s, ids) == \A i \in 1 .. Len(P.calls) : P.calls[i].id \in ids <=> P.calls[i].stage = s

\* Copying them takes the process to the next stage.
LEMMA CarryReplays ==
    ASSUME NEW f, Good(prior, f, Len(prior.calls)), Replayed(prior, ledger, stage), stage \in Nat,
           NEW ids, Covers(prior, stage, ids), NEW M, M.calls = Carry(ids)
    PROVE  Replayed(prior, M, stage + 1) /\ M.calls \in Seq(Call)
<1>1. \A i \in 1 .. Len(prior.calls) : prior.calls[i].id \in ids <=> prior.calls[i].stage = stage
  BY Zenon DEF Covers
<1>2. M.calls = ledger.calls \o Those(prior.calls, {c \in Call : c.id \in ids \ IdsOf(ledger.calls)})
  BY Zenon DEF Carry
<1>3. Replayed(prior, M, stage + 1)
  BY <1>1, <1>2, NextBlock
<1>4. PICK k : Taken(prior, M, stage + 1, k)
  BY <1>3, ReplayedTaken
<1>5. M.calls \in Seq(Call)
  BY <1>4, Zenon DEF Taken
<1> QED
  BY <1>3, <1>5

\* What degrade() kept of a stage are its calls.
LEMMA LeftCovers ==
    ASSUME NEW P, NEW f, Good(P, f, Len(P.calls)), NEW d \in ToSet(P.left)
    PROVE  Covers(P, d.stage, ToSet(d.ids))
<1> DEFINE N == Len(P.calls)
<1>1. KeepsIds(P, N, d)
  BY LeftIds
<1>2. ASSUME NEW i \in 1 .. N, P.calls[i].id \in ToSet(d.ids) PROVE P.calls[i].stage = d.stage
  <2>1. PICK p \in 1 .. N : P.calls[i].id = P.calls[p].id /\ P.calls[p].stage = d.stage
    BY <1>1, <1>2, Zenon DEF KeepsIds
  <2>2. i = p
    <3>1. \A x, y \in 1 .. N : P.calls[x].id = P.calls[y].id => x = y
      BY GoodIds
    <3> QED
      BY <2>1, <3>1, Zenon
  <2> QED
    BY <2>1, <2>2
<1>3. \A i \in 1 .. N : P.calls[i].stage = d.stage => P.calls[i].id \in ToSet(d.ids)
  BY <1>1, Zenon DEF KeepsIds
<1> QED
  BY <1>2, <1>3, Zenon DEF Covers

\* So are the calls that carry_halted_calls() copies.
LEMMA StageCovers ==
    ASSUME NEW P, NEW f, Good(P, f, Len(P.calls)), NEW s
    PROVE  Covers(P, s, IdsOf(StageCalls(P.calls, s)))
<1> DEFINE N == Len(P.calls)
<1>1. CallsAt(P, N, s)
  BY StageCallsPlaces
<1>2. \A c \in ToSet(StageCalls(P.calls, s)) : c.id \in IdsOf(StageCalls(P.calls, s))
  BY DEF IdsOf
<1>3. \A id \in IdsOf(StageCalls(P.calls, s)) : \E c \in ToSet(StageCalls(P.calls, s)) : id = c.id
  BY DEF IdsOf
<1>4. ASSUME NEW i \in 1 .. N, P.calls[i].id \in IdsOf(StageCalls(P.calls, s)) PROVE P.calls[i].stage = s
  <2>1. PICK c \in ToSet(StageCalls(P.calls, s)) : P.calls[i].id = c.id
    BY <1>3, <1>4, Zenon
  <2>2. PICK p \in 1 .. N : c = P.calls[p] /\ P.calls[p].stage = s
    BY <1>1, Zenon DEF CallsAt
  <2>3. i = p
    <3>1. \A x, y \in 1 .. N : P.calls[x].id = P.calls[y].id => x = y
      BY GoodIds
    <3> QED
      BY <2>1, <2>2, <3>1, Zenon
  <2> QED
    BY <2>2, <2>3
<1>5. \A i \in 1 .. N : P.calls[i].stage = s => P.calls[i] \in ToSet(StageCalls(P.calls, s))
  BY <1>1, Zenon DEF CallsAt
<1>6. \A i \in 1 .. N : P.calls[i].stage = s => P.calls[i].id \in IdsOf(StageCalls(P.calls, s))
  BY <1>2, <1>5, Zenon
<1> QED
  BY <1>4, <1>6, Zenon DEF Covers

\* So is the last call of a block with the failures it goes back to.
LEMMA ChainCovers ==
    ASSUME NEW P, NEW f, Good(P, f, Len(P.calls)), NEW p \in 1 .. Len(P.calls), Ends(P, Len(P.calls), p)
    PROVE  Covers(P, P.calls[p].stage, Chain(P.rows, P.calls[p].id))
<1> DEFINE N == Len(P.calls)
           s == P.calls[p].stage
<1>1. PICK q \in 1 .. N : Block(P, q, p)
  BY BlockOf
<1>2. /\ q \in 1 .. p /\ (q = 1 \/ P.calls[q - 1].stage # s)
      /\ \A j \in q .. p : P.calls[j].stage = s
  BY <1>1, Zenon DEF Block
<1>3. Chain(P.rows, P.calls[p].id) = {P.calls[j].id : j \in q .. p}
  BY <1>1, Zenon DEF Block
<1>4. N \in Nat /\ p \in Nat /\ q \in Nat
  BY GoodParts
<1>5. \A i, j \in 1 .. N : i <= j => P.calls[i].stage <= P.calls[j].stage
  BY Zenon DEF Good, Sorted
<1>6. \A i \in 1 .. N : P.calls[i].stage \in Nat
  <2>1. \A i \in 1 .. N : P.calls[i] \in Call
    BY GoodParts
  <2> QED
    BY <2>1, CallParts
<1> HIDE DEF s
<1>7. ASSUME NEW i \in 1 .. N, P.calls[i].stage = s PROVE i \in q .. p
  <2>1. ~(i < q)
    <3>1. SUFFICES ASSUME i < q PROVE FALSE
      OBVIOUS
    <3>2. q - 1 \in 1 .. N /\ i <= q - 1 /\ q - 1 <= p /\ q # 1
      BY <1>2, <1>4, <3>1
    <3>3. P.calls[i].stage <= P.calls[q - 1].stage /\ P.calls[q - 1].stage <= P.calls[p].stage
      BY <1>5, <3>2, Zenon
    <3>4. P.calls[p].stage = s
      BY Zenon DEF s
    <3>5. \A a, b, c \in Nat : a <= b /\ b <= c /\ a = c => b = c
      OBVIOUS
    <3>6. P.calls[q - 1].stage = s
      BY <1>6, <1>7, <3>2, <3>3, <3>4, <3>5, Zenon
    <3> QED
      BY <1>2, <3>2, <3>6, Zenon
  <2>2. ~(i > p)
    <3>1. SUFFICES ASSUME i > p PROVE FALSE
      OBVIOUS
    <3>2. p + 1 \in 1 .. N /\ p + 1 <= i /\ p # N /\ p <= p + 1
      BY <1>4, <3>1
    <3>3. P.calls[p].stage <= P.calls[p + 1].stage /\ P.calls[p + 1].stage <= P.calls[i].stage
      BY <1>5, <3>2, Zenon
    <3>4. P.calls[p].stage = s
      BY Zenon DEF s
    <3>5. \A a, b, c \in Nat : a <= b /\ b <= c /\ a = c => b = c
      OBVIOUS
    <3>6. P.calls[p + 1].stage = P.calls[p].stage
      BY <1>6, <1>7, <3>2, <3>3, <3>4, <3>5, Zenon
    <3> QED
      BY <3>2, <3>6, Zenon DEF Ends
  <2> QED
    BY <1>4, <2>1, <2>2
<1>8. ASSUME NEW i \in 1 .. N, P.calls[i].id \in Chain(P.rows, P.calls[p].id) PROVE P.calls[i].stage = s
  <2>1. PICK j \in q .. p : P.calls[i].id = P.calls[j].id
    BY <1>3, <1>8, Zenon
  <2>2. j \in 1 .. N
    BY <1>4, <2>1
  <2>3. i = j
    <3>1. \A x, y \in 1 .. N : P.calls[x].id = P.calls[y].id => x = y
      BY GoodIds
    <3> QED
      BY <2>1, <2>2, <3>1, Zenon
  <2> QED
    BY <1>2, <2>1, <2>3
<1>9. \A i \in 1 .. N : P.calls[i].stage = s => P.calls[i].id \in Chain(P.rows, P.calls[p].id)
  BY <1>3, <1>7, Zenon
<1> QED
  BY <1>8, <1>9, Zenon DEF Covers, s

\* The answers that remain when the first was taken, or the stage left out.
LEMMA TailReuses ==
    ASSUME NEW P, NEW f \in Nat, NEW s \in Nat, NEW rest, Reuses(P, f, rest, s), rest # <<>>, Head(rest).stage = s
    PROVE  Reuses(P, f, Tail(rest), s + 1)
<1>1. /\ rest \in Seq(Call) /\ \A i \in DOMAIN rest : rest[i] \in ToSet(Candidates(P)) /\ Parses(rest[i])
      /\ \A i, j \in DOMAIN rest : i < j => rest[i].stage < rest[j].stage
      /\ \A t \in s .. f - 1 : t \notin LeftOut(P) => \E i \in DOMAIN rest : rest[i].stage = t
  BY Zenon DEF Reuses
<1>2. /\ Tail(rest) \in Seq(Call) /\ DOMAIN rest = 1 .. Len(rest) /\ Len(rest) \in Nat /\ Len(rest) > 0
      /\ DOMAIN Tail(rest) = 1 .. Len(rest) - 1
      /\ \A i \in 1 .. Len(rest) - 1 : Tail(rest)[i] = rest[i + 1]
      /\ Head(rest) = rest[1]
  BY <1>1
<1>3. \A i \in DOMAIN Tail(rest) : i + 1 \in DOMAIN rest /\ Tail(rest)[i] = rest[i + 1] /\ 1 < i + 1 /\ i \in Nat
  BY <1>2
<1>4. 1 \in DOMAIN rest /\ rest[1].stage = s
  BY <1>2
<1>5. \A i \in DOMAIN Tail(rest) : Tail(rest)[i] \in ToSet(Candidates(P)) /\ Parses(Tail(rest)[i])
  BY <1>1, <1>3, Zenon
<1>6. \A i \in DOMAIN Tail(rest) : Tail(rest)[i].stage >= s + 1
  <2>1. \A i \in DOMAIN Tail(rest) : s < Tail(rest)[i].stage
    BY <1>1, <1>3, <1>4, Zenon
  <2>2. \A i \in DOMAIN Tail(rest) : Tail(rest)[i].stage \in Nat
    <3>1. \A i \in DOMAIN Tail(rest) : Tail(rest)[i] \in Call
      BY <1>2
    <3> QED
      BY <3>1, CallParts
  <2> QED
    BY <2>1, <2>2
<1>7. ASSUME NEW i \in DOMAIN Tail(rest), NEW j \in DOMAIN Tail(rest), i < j
      PROVE  Tail(rest)[i].stage < Tail(rest)[j].stage
  <2>1. i + 1 < j + 1
    BY <1>3, <1>7
  <2> QED
    BY <1>1, <1>3, <2>1, Zenon
<1>8. ASSUME NEW t \in s + 1 .. f - 1, t \notin LeftOut(P)
      PROVE  \E i \in DOMAIN Tail(rest) : Tail(rest)[i].stage = t
  <2>1. t \in s .. f - 1 /\ t # s
    OBVIOUS
  <2>2. PICK i \in DOMAIN rest : rest[i].stage = t
    BY <1>1, <1>8, <2>1, Zenon
  <2>3. i # 1
    BY <1>4, <2>1, <2>2
  <2>4. PICK z \in DOMAIN Tail(rest) : i = z + 1
    <3>1. i - 1 \in DOMAIN Tail(rest) /\ i = i - 1 + 1
      BY <1>2, <2>3
    <3> QED
      BY <3>1
  <2> QED
    BY <1>3, <2>2, <2>4, Zenon
<1> QED
  BY <1>2, <1>5, <1>6, <1>7, <1>8, Zenon DEF Reuses

\* None of them answers a stage that is left out.
LEMMA LeftReuses ==
    ASSUME NEW P, NEW f \in Nat, Good(P, f, Len(P.calls)), NEW s \in Nat, NEW rest, Reuses(P, f, rest, s),
           s \in LeftOut(P)
    PROVE  Reuses(P, f, rest, s + 1)
<1>1. /\ rest \in Seq(Call)
      /\ \A i \in DOMAIN rest : rest[i] \in ToSet(Candidates(P)) /\ Parses(rest[i]) /\ rest[i].stage >= s
      /\ \A i, j \in DOMAIN rest : i < j => rest[i].stage < rest[j].stage
      /\ \A t \in s .. f - 1 : t \notin LeftOut(P) => \E i \in DOMAIN rest : rest[i].stage = t
  BY Zenon DEF Reuses
<1>2. \A t \in s + 1 .. f - 1 : t \in s .. f - 1
  OBVIOUS
<1>3. ASSUME NEW i \in DOMAIN rest PROVE rest[i].stage >= s + 1
  <2>1. rest[i] \in Call /\ rest[i].stage \in Nat
    <3>1. rest[i] \in Call
      BY <1>1
    <3> QED
      BY <3>1, CallParts
  <2>2. rest[i].stage # s
    <3>1. SUFFICES ASSUME rest[i].stage = s PROVE FALSE
      OBVIOUS
    <3> DEFINE S == {c \in Call : Answered(c) /\ c.id \notin Excluded(P)}
    <3>2. rest[i] \in ToSet(Those(P.calls, S))
      BY <1>1, Zenon DEF Candidates
    <3>3. \A c \in S : c.id \notin Excluded(P)
      OBVIOUS
    <3>4. P.calls \in Seq(Call) /\ DOMAIN P.calls = 1 .. Len(P.calls)
      BY GoodParts
    <3> HIDE DEF S
    <3>5. ToSet(Those(P.calls, S)) = ToSet(P.calls) \intersect S
      BY <3>4, ThoseType
    <3>6. rest[i] \in ToSet(P.calls) /\ rest[i] \in S
      BY <3>2, <3>5
    <3>7. PICK p \in 1 .. Len(P.calls) : rest[i] = P.calls[p]
      BY <3>4, <3>6, ToSetIndex
    <3>8. Stands(P, Len(P.calls), p)
      <4>1. P.calls[p].id \notin Excluded(P)
        BY <3>3, <3>6, <3>7
      <4> QED
        BY <4>1, CandidateStands
    <3> QED
      BY <3>1, <3>7, <3>8, Zenon DEF Stands
  <2> QED
    BY <1>1, <2>1, <2>2
<1> QED
  BY <1>1, <1>2, <1>3, Zenon DEF Reuses

---------------------------------------------------------------------------
(* The steps of a process that replays. *)

\* What a process that replays has, at the stage f where it will go on.
ReplaysAt(f) ==
    /\ f \in 1 .. LastStage + 1 /\ f \in Nat /\ Resumes(prior, f) /\ Good(prior, f, Len(prior.calls))
    /\ stage \in 1 .. f /\ stage \in Nat
    /\ ledger \in Ledger /\ SameRows(prior, ledger) /\ LeftOut(ledger) = LeftOut(prior)
    /\ prior.halted \in 0 .. LastStage /\ (prior.halted # 0 => stage <= prior.halted)
    /\ LastStage \in Nat /\ asked \in 0 .. stage /\ asked <= LastStage /\ asked \notin LeftOut(prior)
    /\ phase = "stage" => Replayed(prior, ledger, stage) /\ Reuses(prior, f, reuse, stage)
    /\ phase = "halting" => stage = prior.halted /\ Replayed(prior, ledger, stage + 1)

\* From the invariant.
LEMMA ReplaysSomewhere ==
    ASSUME IInv, phase # "off", Replaying
    PROVE  \E f : ReplaysAt(f)
<1>1. PICK f \in 1 .. LastStage + 1 :
          /\ Resumes(prior, f) /\ stage <= f
          /\ phase = "stage" => Replayed(prior, ledger, stage) /\ Reuses(prior, f, reuse, stage)
  BY Zenon DEF Replaying
<1>2. /\ ledger \in Ledger /\ SameRows(prior, ledger) /\ (prior.halted # 0 => stage <= prior.halted)
      /\ phase = "halting" => stage = prior.halted /\ Replayed(prior, ledger, stage + 1)
  BY Zenon DEF Replaying
<1>3. stage \in 1 .. LastStage + 1 /\ asked \in 0 .. stage /\ asked <= LastStage /\ asked \notin LeftOut(ledger)
  BY Zenon DEF IInv
<1>4. Good(prior, f, Len(prior.calls))
  BY <1>1, Zenon DEF Resumes
<1>5. f \in Nat /\ LastStage \in Nat /\ prior.halted \in 0 .. LastStage
  BY <1>4, GoodParts
<1>6. stage \in 1 .. f /\ stage \in Nat
  BY <1>1, <1>3, <1>5
<1>7. LeftOut(ledger) = LeftOut(prior)
  BY <1>2, Zenon DEF SameRows, LeftOut
<1>8. ReplaysAt(f)
  BY <1>1, <1>2, <1>3, <1>4, <1>5, <1>6, <1>7, Zenon DEF ReplaysAt
<1> QED
  BY <1>8

\* A process that works has a ledger with no left-out stage at or behind the
\* stage at work.
LEMMA WorkingStage ==
    ASSUME IInv, Working, phase = "stage"
    PROVE  /\ stage \in Nat /\ stage \notin LeftOut(ledger) /\ ledger.halted = 0
           /\ \E n \in 0 .. Len(ledger.calls) :
                 \/ /\ Good(ledger, stage, n) /\ AtCall(ledger, stage, n) /\ n = Len(ledger.calls)
                 \/ /\ Passed /\ Good(ledger, LastStage, n) /\ Refused(ledger, n) /\ stage \notin Stage
<1>1. Held /\ (Asking \/ Passed)
  BY Zenon DEF Working, InFlight, Refusing, Stopping
<1>2. stage \in 1 .. LastStage + 1 /\ LastStage \in Nat \ {0} /\ stage \in Nat
  <2>1. LastStage \in Nat \ {0}
    BY StageAssumption
  <2>2. stage \in 1 .. LastStage + 1
    BY Zenon DEF IInv
  <2> QED
    BY <2>1, <2>2
<1>3. ledger.halted = 0
  BY <1>1 DEF Held
<1>4. CASE Asking
  <2>1. Good(ledger, stage, Len(ledger.calls)) /\ AtCall(ledger, stage, Len(ledger.calls))
    BY <1>4, Zenon DEF Asking
  <2>2. ASSUME stage \in LeftOut(ledger) PROVE FALSE
    <3>1. PICK d \in ToSet(ledger.left) : d.stage = stage
      BY <2>2 DEF LeftOut
    <3>2. d.stage < stage
      BY <2>1, LeftIds
    <3> QED
      BY <1>2, <3>1, <3>2
  <2>3. Len(ledger.calls) \in 0 .. Len(ledger.calls)
    BY <2>1, Zenon DEF Good
  <2> QED
    BY <1>2, <1>3, <2>1, <2>2, <2>3, Zenon
<1>5. CASE Passed
  <2>1. stage = LastStage + 1
    BY <1>5, Zenon DEF Passed
  <2>2. PICK n \in 0 .. Len(ledger.calls) : Good(ledger, LastStage, n) /\ Refused(ledger, n)
    BY <1>5, Zenon DEF Passed
  <2>3. ASSUME stage \in LeftOut(ledger) PROVE FALSE
    <3>1. PICK d \in ToSet(ledger.left) : d.stage = stage
      BY <2>3 DEF LeftOut
    <3>2. d.stage < LastStage
      BY <2>2, LeftIds
    <3> QED
      BY <1>2, <2>1, <3>1, <3>2
  <2>4. stage \notin Stage
    BY <1>2, <2>1 DEF Stage
  <2> QED
    BY <1>2, <1>3, <1>5, <2>2, <2>3, <2>4, Zenon
<1> QED
  BY <1>1, <1>4, <1>5

\* SkipLeftOut happens while replaying.
LEMMA SkipKeeps ==
    ASSUME IInv, SkipLeftOut
    PROVE  IInv'
<1>1. phase = "stage" /\ phase # "off" /\ stage \in LeftOut(ledger)
  BY DEF SkipLeftOut
<1>2. Replaying
  <2>1. Replaying \/ Working
    BY <1>1, Zenon DEF IInv
  <2> QED
    BY <1>1, <2>1, WorkingStage
<1>3. PICK f : ReplaysAt(f)
  BY <1>1, <1>2, ReplaysSomewhere
<1> DEFINE saved == CHOOSE d \in ToSet(ledger.left) : d.stage = stage
<1>4. /\ ledger' = [ledger EXCEPT !.calls = Carry(ToSet(saved.ids))]
      /\ stage' = stage + 1 /\ phase' = "stage"
      /\ asked' = asked /\ prior' = prior /\ reuse' = reuse /\ receipt' = receipt
  BY Zenon DEF SkipLeftOut, Advance
<1>5. /\ f \in 1 .. LastStage + 1 /\ f \in Nat /\ Resumes(prior, f) /\ Good(prior, f, Len(prior.calls))
      /\ stage \in 1 .. f /\ stage \in Nat /\ ledger \in Ledger /\ SameRows(prior, ledger)
      /\ LeftOut(ledger) = LeftOut(prior)
      /\ prior.halted \in 0 .. LastStage /\ (prior.halted # 0 => stage <= prior.halted)
      /\ LastStage \in Nat /\ asked \in 0 .. stage /\ asked <= LastStage /\ asked \notin LeftOut(prior)
      /\ Replayed(prior, ledger, stage) /\ Reuses(prior, f, reuse, stage)
  BY <1>1, <1>3, Zenon DEF ReplaysAt
<1>6. saved \in ToSet(ledger.left) /\ saved.stage = stage
  BY <1>1 DEF LeftOut
<1>7. ledger.left = prior.left
  BY <1>5, Zenon DEF SameRows
<1> HIDE DEF saved
<1>8. Covers(prior, stage, ToSet(saved.ids)) /\ stage < f
  <2>1. saved \in ToSet(prior.left)
    BY <1>6, <1>7, Zenon
  <2>2. Covers(prior, saved.stage, ToSet(saved.ids)) /\ saved.stage < f
    BY <1>5, <2>1, LeftCovers, LeftIds
  <2> QED
    BY <1>6, <2>2, Zenon
<1>9. ledger'.calls = Carry(ToSet(saved.ids))
  BY <1>4, <1>5 DEF Ledger
<1>10. Replayed(prior, ledger', stage + 1) /\ ledger'.calls \in Seq(Call)
  BY <1>5, <1>8, <1>9, CarryReplays
<1>11. /\ ledger' \in Ledger /\ ledger'.rows = ledger.rows /\ ledger'.left = ledger.left /\ ledger'.halted = ledger.halted
       /\ ledger'.interrupted = ledger.interrupted /\ ledger'.spent = ledger.spent
  <2>1. Carry(ToSet(saved.ids)) \in Seq(Call)
    BY <1>9, <1>10
  <2> QED
    BY <1>4, <1>5, <2>1 DEF Ledger
<1>12. SameRows(prior, ledger')
  BY <1>5, <1>11, Zenon DEF SameRows
<1>13. Reuses(prior, f, reuse, stage + 1)
  <2>1. stage \in LeftOut(prior)
    BY <1>1, <1>5, Zenon
  <2> QED
    BY <1>5, <2>1, LeftReuses
<1>14. prior.halted # 0 => stage + 1 <= prior.halted
  <2>1. LeftOut(prior) \subseteq Degradable \ {prior.halted}
    BY <1>5, Zenon DEF Good, StateValid
  <2>2. stage # prior.halted
    BY <1>1, <1>5, <2>1
  <2> QED
    BY <1>5, <2>2
<1>15. stage + 1 <= f
  BY <1>5, <1>8
<1>16. phase' \in {"stage", "halting"} /\ phase' # "halting"
  BY <1>4
<1>17. Replaying'
  BY <1>4, <1>5, <1>10, <1>11, <1>12, <1>13, <1>14, <1>15, <1>16, Zenon DEF Replaying
<1>18. Framing
  <2>1. LeftOut(ledger') = LeftOut(prior)
    BY <1>7, <1>11, Zenon DEF LeftOut
  <2>2. stage' \in 1 .. LastStage + 1 /\ asked' \in 0 .. stage' /\ asked' <= LastStage
    BY <1>4, <1>5, <1>15
  <2>3. phase' \in {"stage", "flight", "refused", "repairing", "halting"}
    BY <1>4
  <2> QED
    BY <1>1, <1>4, <1>5, <2>1, <2>2, <2>3, Zenon DEF Framing
<1> QED
  BY <1>17, <1>18, FrameKeeps

\* A stage is met halted while replaying.
LEMMA MeetKeeps ==
    ASSUME IInv, MeetHalted
    PROVE  IInv'
<1>1. phase = "stage" /\ phase # "off" /\ stage \in Stage /\ ledger.halted = stage
  BY DEF MeetHalted, IsOpen
<1>2. Replaying
  <2>1. Replaying \/ Working
    BY <1>1, Zenon DEF IInv
  <2>2. stage # 0
    <3>1. LastStage \in Nat
      BY StageAssumption
    <3> QED
      BY <1>1, <3>1 DEF Stage
  <2> QED
    BY <1>1, <2>1, <2>2, WorkingStage
<1>3. PICK f : ReplaysAt(f)
  BY <1>1, <1>2, ReplaysSomewhere
<1> DEFINE ids == IdsOf(StageCalls(prior.calls, stage))
<1>4. /\ ledger' = [[ledger EXCEPT !.calls = Carry(ids)] EXCEPT !.halted = stage]
      /\ stage' = stage /\ phase' = "halting"
      /\ asked' = asked /\ prior' = prior /\ reuse' = reuse /\ receipt' = receipt
  BY Zenon DEF MeetHalted, Halt
<1>5. /\ f \in 1 .. LastStage + 1 /\ f \in Nat /\ Resumes(prior, f) /\ Good(prior, f, Len(prior.calls))
      /\ stage \in 1 .. f /\ stage \in Nat /\ ledger \in Ledger /\ SameRows(prior, ledger)
      /\ LeftOut(ledger) = LeftOut(prior)
      /\ prior.halted \in 0 .. LastStage /\ (prior.halted # 0 => stage <= prior.halted)
      /\ LastStage \in Nat /\ asked \in 0 .. stage /\ asked <= LastStage /\ asked \notin LeftOut(prior)
      /\ Replayed(prior, ledger, stage) /\ Reuses(prior, f, reuse, stage)
  BY <1>1, <1>3, Zenon DEF ReplaysAt
<1>6. ledger.left = prior.left /\ ledger.halted = prior.halted
  BY <1>5, Zenon DEF SameRows
<1>7. Covers(prior, stage, ids)
  BY <1>5, StageCovers
<1> HIDE DEF ids
<1>8. stage \in 0 .. LastStage
  BY <1>1, <1>5 DEF Stage
<1>9. ledger'.calls = Carry(ids)
  <2>1. \A M : M = [[ledger EXCEPT !.calls = Carry(ids)] EXCEPT !.halted = stage] => M.calls = Carry(ids)
    BY <1>5 DEF Ledger
  <2> QED
    BY <1>4, <2>1, Zenon
<1>10. Replayed(prior, ledger', stage + 1) /\ ledger'.calls \in Seq(Call)
  BY <1>5, <1>7, <1>9, CarryReplays
<1>11. /\ ledger' \in Ledger /\ ledger'.rows = ledger.rows /\ ledger'.left = ledger.left /\ ledger'.halted = ledger.halted
       /\ ledger'.interrupted = ledger.interrupted /\ ledger'.spent = ledger.spent
  <2>1. Carry(ids) \in Seq(Call)
    BY <1>9, <1>10
  <2> QED
    BY <1>1, <1>4, <1>5, <1>8, <2>1 DEF Ledger
<1>12. SameRows(prior, ledger')
  BY <1>5, <1>11, Zenon DEF SameRows
<1>13. stage <= f
  BY <1>5
<1>14. phase' \in {"stage", "halting"} /\ phase' # "stage" /\ stage = prior.halted
  BY <1>1, <1>4, <1>6
<1>15. Replaying'
  BY <1>4, <1>5, <1>10, <1>11, <1>12, <1>13, <1>14, Zenon DEF Replaying
<1>16. Framing
  <2>1. LeftOut(ledger') = LeftOut(prior)
    BY <1>6, <1>11, Zenon DEF LeftOut
  <2>2. stage' \in 1 .. LastStage + 1 /\ asked' \in 0 .. stage' /\ asked' <= LastStage
    BY <1>4, <1>5
  <2>3. phase' \in {"stage", "flight", "refused", "repairing", "halting"}
    BY <1>4
  <2> QED
    BY <1>1, <1>4, <1>5, <2>1, <2>2, <2>3, Zenon DEF Framing
<1> QED
  BY <1>15, <1>16, FrameKeeps

\* So is an answer taken over.
LEMMA TakeKeeps ==
    ASSUME IInv, Take
    PROVE  IInv'
<1>1. phase = "stage" /\ phase # "off" /\ stage \in Stage /\ stage \notin LeftOut(ledger) /\ ledger.halted # stage
      /\ reuse # <<>>
  BY DEF Take, IsOpen
<1>2. Replaying
  <2>1. Replaying \/ Working
    BY <1>1, Zenon DEF IInv
  <2>2. ~Working
    BY <1>1, Zenon DEF Working, Held
  <2> QED
    BY <2>1, <2>2
<1>3. PICK f : ReplaysAt(f)
  BY <1>1, <1>2, ReplaysSomewhere
<1> DEFINE ids == Chain(ledger.rows, Head(reuse).id)
           generations == IF stage = LastStage THEN 1 ELSE 0
<1>4. /\ ledger' = [ledger EXCEPT !.calls = Carry(ids), !.generations = generations]
      /\ stage' = stage + 1 /\ phase' = "stage"
      /\ asked' = stage /\ prior' = prior /\ reuse' = Tail(reuse) /\ receipt' = receipt
  BY Zenon DEF Take, Advance
<1>5. /\ f \in 1 .. LastStage + 1 /\ f \in Nat /\ Resumes(prior, f) /\ Good(prior, f, Len(prior.calls))
      /\ stage \in 1 .. f /\ stage \in Nat /\ ledger \in Ledger /\ SameRows(prior, ledger)
      /\ LeftOut(ledger) = LeftOut(prior)
      /\ prior.halted \in 0 .. LastStage /\ (prior.halted # 0 => stage <= prior.halted)
      /\ LastStage \in Nat /\ asked \in 0 .. stage /\ asked <= LastStage /\ asked \notin LeftOut(prior)
      /\ Replayed(prior, ledger, stage) /\ Reuses(prior, f, reuse, stage)
  BY <1>1, <1>3, Zenon DEF ReplaysAt
<1>6. ledger.left = prior.left /\ ledger.halted = prior.halted /\ ledger.rows = prior.rows
  BY <1>5, Zenon DEF SameRows
<1>7. /\ stage < f /\ Head(reuse).stage = stage
      /\ \E p \in 1 .. Len(prior.calls) : Head(reuse) = prior.calls[p] /\ Stands(prior, Len(prior.calls), p)
  <2>1. stage \notin LeftOut(prior) /\ prior.halted # stage
    BY <1>1, <1>5, <1>6, Zenon
  <2> QED
    BY <1>1, <1>5, <2>1, NextAnswer
<1>8. Covers(prior, stage, ids)
  <2>1. PICK p \in 1 .. Len(prior.calls) : Head(reuse) = prior.calls[p] /\ Stands(prior, Len(prior.calls), p)
    BY <1>7
  <2>2. Ends(prior, Len(prior.calls), p) /\ prior.calls[p].stage = stage
    BY <1>7, <2>1, Zenon DEF Stands
  <2>3. Covers(prior, prior.calls[p].stage, Chain(prior.rows, prior.calls[p].id))
    BY <1>5, <2>1, <2>2, ChainCovers
  <2> QED
    BY <1>6, <2>1, <2>2, <2>3, Zenon
<1>9. generations \in Nat
  OBVIOUS
<1> HIDE DEF ids, generations
<1>10. ledger'.calls = Carry(ids)
  <2>1. \A M : M = [ledger EXCEPT !.calls = Carry(ids), !.generations = generations] => M.calls = Carry(ids)
    BY <1>5 DEF Ledger
  <2> QED
    BY <1>4, <2>1, Zenon
<1>11. Replayed(prior, ledger', stage + 1) /\ ledger'.calls \in Seq(Call)
  BY <1>5, <1>8, <1>10, CarryReplays
<1>12. /\ ledger' \in Ledger /\ ledger'.rows = ledger.rows /\ ledger'.left = ledger.left /\ ledger'.halted = ledger.halted
       /\ ledger'.interrupted = ledger.interrupted /\ ledger'.spent = ledger.spent
  <2>1. Carry(ids) \in Seq(Call)
    BY <1>10, <1>11
  <2> QED
    BY <1>4, <1>5, <1>9, <2>1 DEF Ledger
<1>13. SameRows(prior, ledger')
  BY <1>5, <1>12, Zenon DEF SameRows
<1>14. Reuses(prior, f, Tail(reuse), stage + 1)
  BY <1>1, <1>5, <1>7, TailReuses
<1>15. prior.halted # 0 => stage + 1 <= prior.halted
  BY <1>1, <1>5, <1>6
<1>16. stage + 1 <= f
  BY <1>5, <1>7
<1>17. phase' \in {"stage", "halting"} /\ phase' # "halting"
  BY <1>4
<1>18. Replaying'
  BY <1>4, <1>5, <1>11, <1>12, <1>13, <1>14, <1>15, <1>16, <1>17, Zenon DEF Replaying
<1>19. Framing
  <2>1. LeftOut(ledger') = LeftOut(prior)
    BY <1>6, <1>12, Zenon DEF LeftOut
  <2>2. stage' \in 1 .. LastStage + 1 /\ asked' \in 0 .. stage' /\ asked' <= LastStage
    <3>1. stage <= LastStage
      BY <1>1, <1>5 DEF Stage
    <3> QED
      BY <1>4, <1>5, <1>16, <3>1
  <2>3. phase' \in {"stage", "flight", "refused", "repairing", "halting"}
    BY <1>4
  <2>4. asked' \notin LeftOut(ledger')
    BY <1>1, <1>4, <1>5, <2>1, Zenon
  <2> QED
    BY <1>1, <1>4, <2>2, <2>3, <2>4, Zenon DEF Framing
<1> QED
  BY <1>18, <1>19, FrameKeeps

---------------------------------------------------------------------------
(* Asking: what is missing is asked for. *)

\* A ledger that has all of the prior one and to which a call may be added.
Ready(M) ==
    /\ Good(M, stage, Len(M.calls)) /\ AtCall(M, stage, Len(M.calls))
    /\ M.halted = 0 /\ ~M.interrupted /\ prior.halted = 0
    /\ ToSet(prior.calls) \subseteq ToSet(M.calls)
    /\ \A c \in ToSet(prior.calls) : c.attempt > 0
    /\ LeftOut(prior) \subseteq LeftOut(M)
    /\ M.rows = ledger.rows /\ M.left = ledger.left /\ M.spent = ledger.spent
    /\ IdsOf(M.calls) \subseteq IdsOf(prior.calls) \union IdsOf(ledger.calls)
    /\ ledger \in Ledger /\ prior \in Ledger

\* What was resumed is a ledger.
LEMMA PriorLedger ==
    ASSUME IInv
    PROVE  prior \in Ledger
<1>1. Fresh \in Ledger
  BY FreshGood
<1>2. prior = Fresh \/ (receipt # None /\ prior = receipt)
  BY Zenon DEF IInv
<1>3. ASSUME receipt # None PROVE receipt \in Ledger
  <2>1. PICK f \in 1 .. LastStage + 1, n \in 0 .. Len(receipt.calls) : Sealed(receipt, f, n)
    BY <1>3, Zenon DEF IInv
  <2> QED
    BY <2>1, Zenon DEF Sealed, Good
<1> QED
  BY <1>1, <1>2, <1>3, Zenon

\* In a process that works, nothing is left to be carried.
LEMMA WorkingReady ==
    ASSUME IInv, Working, Due, NEW M, M = [ledger EXCEPT !.calls = Carried]
    PROVE  Ready(M)
<1>1. phase = "stage" /\ stage \in Stage
  BY Zenon DEF Due
<1>2. Held /\ Asking
  <2>1. LastStage + 1 \notin Stage
    BY StageAssumption DEF Stage
  <2> QED
    BY <1>1, <2>1, Zenon DEF Working, InFlight, Refusing, Stopping, Passed
<1>3. /\ Good(ledger, stage, Len(ledger.calls)) /\ AtCall(ledger, stage, Len(ledger.calls))
      /\ ledger.halted = 0 /\ ~ledger.interrupted /\ prior.halted = 0
      /\ ToSet(prior.calls) \subseteq ToSet(ledger.calls)
      /\ \A c \in ToSet(prior.calls) : c.attempt > 0
      /\ LeftOut(prior) \subseteq LeftOut(ledger)
  <2>1. phase # "flight" /\ phase # "halting"
    BY <1>1
  <2> QED
    BY <1>2, <2>1, Zenon DEF Held, Asking
<1>4. prior \in Ledger
  BY PriorLedger
<1>5. ledger \in Ledger
  BY <1>3, Zenon DEF Good
<1>6. ledger.calls \in Seq(Call) /\ prior.calls \in Seq(Call)
  BY <1>4, <1>5 DEF Ledger
<1>7. ASSUME NEW ids PROVE Carry(ids) = ledger.calls
  <2> DEFINE S == {c \in Call : c.id \in ids \ IdsOf(ledger.calls)}
  <2>1. ASSUME NEW i \in DOMAIN prior.calls PROVE prior.calls[i] \notin S
    <3>1. prior.calls[i] \in ToSet(prior.calls)
      BY <1>6, ToSetIndex
    <3>2. prior.calls[i].id \in IdsOf(ledger.calls)
      BY <1>3, <3>1 DEF IdsOf
    <3> QED
      BY <3>2
  <2>2. Those(prior.calls, S) = <<>>
    <3> HIDE DEF S
    <3> QED
      BY <1>6, <2>1, ThoseNone
  <2>3. Carry(ids) = ledger.calls \o Those(prior.calls, S)
    BY Zenon DEF Carry
  <2>4. \A a \in Seq(Call) : a \o <<>> = a
    OBVIOUS
  <2> QED
    BY <1>6, <2>2, <2>3, <2>4, Zenon
<1>8. Carried = ledger.calls
  BY <1>7, Zenon DEF Carried
<1>9. M = ledger
  BY <1>5, <1>8 DEF Ledger
<1>10. IdsOf(ledger.calls) \subseteq IdsOf(prior.calls) \union IdsOf(ledger.calls)
  OBVIOUS
<1> QED
  BY <1>3, <1>4, <1>5, <1>9, <1>10, Zenon DEF Ready

\* A process that replays meets a call to be made when it is at the frontier.
LEMMA FrontierMet ==
    ASSUME NEW f, ReplaysAt(f), Due
    PROVE  /\ f = stage /\ prior.halted = 0 /\ ~prior.interrupted /\ ~Stuck(prior, f, Len(prior.calls))
           /\ Good(prior, f, Len(prior.calls)) /\ Replayed(prior, ledger, stage)
<1>1. phase = "stage" /\ stage \in Stage /\ stage \notin LeftOut(ledger) /\ ledger.halted # stage /\ reuse = <<>>
  BY DEF Due, IsOpen
<1>2. /\ f \in 1 .. LastStage + 1 /\ f \in Nat /\ Resumes(prior, f) /\ Good(prior, f, Len(prior.calls))
      /\ stage \in 1 .. f /\ stage \in Nat /\ SameRows(prior, ledger)
      /\ LeftOut(ledger) = LeftOut(prior)
      /\ prior.halted \in 0 .. LastStage /\ (prior.halted # 0 => stage <= prior.halted)
      /\ Replayed(prior, ledger, stage) /\ Reuses(prior, f, reuse, stage)
  BY <1>1, Zenon DEF ReplaysAt
<1>3. ledger.halted = prior.halted
  BY <1>2, Zenon DEF SameRows
<1>4. f = stage
  <2>1. SUFFICES ASSUME f # stage PROVE FALSE
    OBVIOUS
  <2>2. stage \in stage .. f - 1
    BY <1>2, <2>1
  <2>3. \E i \in DOMAIN reuse : reuse[i].stage = stage
    BY <1>1, <1>2, <2>2, Zenon DEF Reuses
  <2>4. DOMAIN reuse = {}
    BY <1>1
  <2> QED
    BY <2>3, <2>4, Zenon
<1>5. prior.halted <= f /\ (prior.interrupted => prior.halted # 0)
      /\ (Stuck(prior, f, Len(prior.calls)) => prior.halted = f)
  BY <1>2, Zenon DEF Resumes
<1>6. prior.halted = 0
  BY <1>1, <1>2, <1>3, <1>4, <1>5
<1>7. f # 0
  BY <1>2, <1>4
<1> QED
  BY <1>2, <1>4, <1>5, <1>6, <1>7, Zenon

\* Then it has all calls, or the granted one brings the ones it follows.
LEMMA CarriedAll ==
    ASSUME NEW f, ReplaysAt(f), Due
    PROVE  Carried = prior.calls
<1> DEFINE N == Len(prior.calls)
<1>1. /\ f = stage /\ ~Stuck(prior, f, N) /\ Good(prior, f, N) /\ Replayed(prior, ledger, stage)
  BY FrontierMet
<1>2. stage \in Nat /\ SameRows(prior, ledger)
  BY Zenon DEF ReplaysAt
<1>3. /\ prior.calls \in Seq(Call) /\ N \in Nat
      /\ \A i \in 1 .. N : prior.calls[i].stage \in Nat /\ prior.calls[i].stage <= stage
  <2>1. \A i \in 1 .. N : prior.calls[i] \in Call
    BY <1>1, GoodParts
  <2>2. \A i \in 1 .. N : prior.calls[i].stage <= f
    BY <1>1, Zenon DEF Good, Sorted
  <2>3. prior.calls \in Seq(Call) /\ N \in Nat
    BY <1>1, GoodParts
  <2> QED
    BY <1>1, <2>1, <2>2, <2>3, CallParts
<1>4. ledger.rows = prior.rows
  BY <1>2, Zenon DEF SameRows
<1>5. CASE Waiting
  <2>1. Entry \in Pending(prior.rows, stage)
    BY <1>4, <1>5, Zenon DEF Waiting, Entry
  <2>2. Waits(prior, f, N, stage, Entry)
    BY <1>1, <2>1, PendingLast
  <2>3. N \in 1 .. N /\ ledger.rows[Entry].failed = prior.calls[N].id /\ prior.calls[N].stage = stage
    BY <1>1, <1>4, <2>2, Zenon DEF Waits
  <2>4. Ends(prior, N, N)
    BY DEF Ends
  <2>5. Covers(prior, prior.calls[N].stage, Chain(prior.rows, prior.calls[N].id))
    BY <1>1, <2>3, <2>4, ChainCovers
  <2>6. Covers(prior, stage, Chain(ledger.rows, ledger.rows[Entry].failed))
    BY <1>4, <2>3, <2>5, Zenon
  <2> DEFINE M == [calls |-> Carry(Chain(ledger.rows, ledger.rows[Entry].failed))]
  <2>7. M.calls = Carry(Chain(ledger.rows, ledger.rows[Entry].failed))
    OBVIOUS
  <2>8. Carried = Carry(Chain(ledger.rows, ledger.rows[Entry].failed))
    BY <1>5, Zenon DEF Carried
  <2> HIDE DEF M
  <2>9. Replayed(prior, M, stage + 1)
    BY <1>1, <1>2, <2>6, <2>7, CarryReplays
  <2>10. \A i \in 1 .. N : prior.calls[i].stage < stage + 1
    BY <1>2, <1>3
  <2>11. M.calls = prior.calls
    BY <1>1, <2>9, <2>10, ReplayedAll
  <2> QED
    BY <2>7, <2>8, <2>11, Zenon
<1>6. CASE ~Waiting
  <2>1. \A i \in 1 .. N : prior.calls[i].stage < stage
    <3>1. SUFFICES ASSUME NEW i \in 1 .. N, prior.calls[i].stage = stage PROVE FALSE
      BY <1>2, <1>3
    <3>2. N \in 1 .. N /\ i <= N /\ N > 0
      BY <1>3
    <3>3. prior.calls[i].stage <= prior.calls[N].stage
      BY <1>1, <3>1, <3>2, Zenon DEF Good, Sorted
    <3>4. prior.calls[N].stage = stage
      BY <1>2, <1>3, <3>1, <3>2, <3>3
    <3>5. Pending(prior.rows, f) = {}
      BY <1>1, <1>4, <1>6, Zenon DEF Waiting
    <3> QED
      BY <1>1, <3>2, <3>4, <3>5, Zenon DEF Stuck
  <2>2. ledger.calls = prior.calls
    BY <1>1, <2>1, ReplayedAll
  <2> QED
    BY <1>6, <2>2, Zenon DEF Carried
<1> QED
  BY <1>5, <1>6

\* So that it goes on from the whole prior ledger.
LEMMA ReplayingReady ==
    ASSUME IInv, Replaying, Due, NEW M, M = [ledger EXCEPT !.calls = Carried]
    PROVE  Ready(M)
<1> DEFINE N == Len(prior.calls)
<1>1. phase # "off"
  BY DEF Due
<1>2. PICK f : ReplaysAt(f)
  BY <1>1, ReplaysSomewhere
<1>3. /\ f = stage /\ prior.halted = 0 /\ ~prior.interrupted /\ ~Stuck(prior, f, N) /\ Good(prior, f, N)
  BY <1>2, FrontierMet
<1>4. Carried = prior.calls
  BY <1>2, CarriedAll
<1>5. ledger \in Ledger /\ SameRows(prior, ledger) /\ LeftOut(ledger) = LeftOut(prior)
  BY <1>2, Zenon DEF ReplaysAt
<1>6. prior \in Ledger /\ prior.calls \in Seq(Call)
  BY <1>3 DEF Good, Ledger
<1>7. /\ M \in Ledger /\ M.calls = prior.calls /\ M.rows = ledger.rows /\ M.left = ledger.left
      /\ M.halted = ledger.halted /\ M.interrupted = ledger.interrupted /\ M.spent = ledger.spent
  BY <1>4, <1>5, <1>6 DEF Ledger
<1>8. /\ ledger.rows = prior.rows /\ ledger.left = prior.left /\ ledger.halted = prior.halted
      /\ ledger.interrupted = prior.interrupted /\ ledger.spent = prior.spent
  BY <1>5, Zenon DEF SameRows
<1>9. M.halted \notin LeftOut(prior)
  <2>1. LeftOut(prior) \subseteq Degradable \ {prior.halted}
    BY <1>3, Zenon DEF Good, StateValid
  <2> QED
    BY <1>7, <1>8, <2>1
<1>10. M.spent >= Len(prior.calls)
  <2>1. prior.spent >= N
    BY <1>3, Zenon DEF Good
  <2> QED
    BY <1>7, <1>8, <2>1, Zenon
<1>11. M.rows = prior.rows /\ M.left = prior.left
  BY <1>7, <1>8, Zenon
<1>12. Good(M, f, N)
  BY <1>3, <1>7, <1>9, <1>10, <1>11, GoodSame
<1>13. AtCall(M, f, N)
  <2>1. N \in Nat
    BY <1>6
  <2>2. Pending(prior.rows, f) # {} \/ N = 0 \/ prior.calls[N].stage # f
    BY <1>3, <2>1 DEF Stuck
  <2> QED
    BY <1>7, <1>11, <2>2, Zenon DEF AtCall
<1>14. \A c \in ToSet(prior.calls) : c.attempt > 0
  <2>1. \A i \in 1 .. N : prior.calls[i].attempt > 0
    BY <1>3, Zenon DEF Good, Sorted
  <2>2. DOMAIN prior.calls = 1 .. N
    BY <1>6
  <2>3. \A c \in ToSet(prior.calls) : \E i \in DOMAIN prior.calls : c = prior.calls[i]
    BY <1>6, ToSetIndex
  <2> QED
    BY <2>1, <2>2, <2>3, Zenon
<1>15. LeftOut(M) = LeftOut(prior)
  BY <1>11, Zenon DEF LeftOut
<1>16. Good(M, stage, Len(M.calls)) /\ AtCall(M, stage, Len(M.calls))
  BY <1>3, <1>7, <1>12, <1>13, Zenon
<1>17. ToSet(prior.calls) \subseteq ToSet(M.calls) /\ LeftOut(prior) \subseteq LeftOut(M)
       /\ IdsOf(M.calls) \subseteq IdsOf(prior.calls) \union IdsOf(ledger.calls)
  BY <1>7, <1>15
<1>18. M.halted = 0 /\ ~M.interrupted
  BY <1>3, <1>7, <1>8, Zenon
<1> QED
  BY <1>3, <1>5, <1>6, <1>7, <1>14, <1>16, <1>17, <1>18, Zenon DEF Ready

\* Either way.
LEMMA DueReady ==
    ASSUME IInv, Due, NEW M, M = [ledger EXCEPT !.calls = Carried]
    PROVE  Ready(M) /\ M.calls = Carried
<1>1. Replaying \/ Working
  <2>1. phase # "off"
    BY DEF Due
  <2> QED
    BY <2>1, Zenon DEF IInv
<1>2. Ready(M)
  BY <1>1, ReplayingReady, WorkingReady
<1>3. ledger \in Ledger
  BY <1>2, Zenon DEF Ready
<1>4. M.calls = Carried
  BY <1>3 DEF Ledger
<1> QED
  BY <1>2, <1>4

\* The identity of the next call is new.
LEMMA NewIdFresh ==
    ASSUME prior \in Ledger, ledger \in Ledger
    PROVE  /\ NewId \in Nat /\ NewId # NoCall
           /\ NewId \notin IdsOf(prior.calls) \union IdsOf(ledger.calls)
<1> DEFINE G == {0} \union IdsOf(prior.calls) \union IdsOf(ledger.calls)
                \union {r.retry : r \in ToSet(ledger.rows)}
<1>1. prior.calls \in Seq(Call) /\ ledger.calls \in Seq(Call) /\ ledger.rows \in Seq(Row)
  BY DEF Ledger
<1>2. ASSUME NEW calls \in Seq(Call)
      PROVE  IdsOf(calls) \subseteq Nat /\ \E b \in Nat : \A id \in IdsOf(calls) : id <= b
  <2> DEFINE g == [c \in Call |-> c.id]
  <2>1. g \in [Call -> Nat]
    BY CallParts
  <2>2. \A c \in Call : g[c] = c.id
    OBVIOUS
  <2> HIDE DEF g
  <2>3. PICK b \in Nat : \A c \in ToSet(calls) : g[c] <= b
    BY <2>1, SeqBounded
  <2>4. \A c \in ToSet(calls) : c \in Call
    BY ToSetIndex
  <2>5. \A c \in ToSet(calls) : c.id \in Nat /\ c.id <= b
    BY <2>2, <2>3, <2>4, CallParts
  <2> QED
    BY <2>5 DEF IdsOf
<1>3. {r.retry : r \in ToSet(ledger.rows)} \subseteq Nat
      /\ \E b \in Nat : \A id \in {r.retry : r \in ToSet(ledger.rows)} : id <= b
  <2> DEFINE g == [r \in Row |-> r.retry]
  <2>1. g \in [Row -> Nat]
    BY RowParts
  <2>2. \A r \in Row : g[r] = r.retry
    OBVIOUS
  <2> HIDE DEF g
  <2>3. PICK b \in Nat : \A r \in ToSet(ledger.rows) : g[r] <= b
    BY <1>1, <2>1, SeqBounded
  <2>4. \A r \in ToSet(ledger.rows) : r \in Row
    BY <1>1, ToSetIndex
  <2>5. \A r \in ToSet(ledger.rows) : r.retry \in Nat /\ r.retry <= b
    BY <2>2, <2>3, <2>4, RowParts
  <2> QED
    BY <2>5
<1>4. PICK a \in Nat : IdsOf(prior.calls) \subseteq Nat /\ \A id \in IdsOf(prior.calls) : id <= a
  BY <1>1, <1>2
<1>5. PICK b \in Nat : IdsOf(ledger.calls) \subseteq Nat /\ \A id \in IdsOf(ledger.calls) : id <= b
  BY <1>1, <1>2
<1>6. PICK c \in Nat : {r.retry : r \in ToSet(ledger.rows)} \subseteq Nat
                       /\ \A id \in {r.retry : r \in ToSet(ledger.rows)} : id <= c
  BY <1>3
<1>7. G \in SUBSET Nat /\ G # {} /\ a + b + c \in Nat
  BY <1>4, <1>5, <1>6
<1>8. \A x \in G : x <= a + b + c
  BY <1>4, <1>5, <1>6
<1>9. IdsOf(prior.calls) \subseteq G /\ IdsOf(ledger.calls) \subseteq G
  OBVIOUS
<1>10. NewId = 1 + Max(G)
  BY Zenon DEF NewId
<1> HIDE DEF G
<1>11. Max(G) \in G /\ \A x \in G : x <= Max(G)
  BY <1>7, <1>8, BoundedMax
<1>12. Max(G) \in Nat
  BY <1>7, <1>11
<1>13. 1 + Max(G) \notin G
  BY <1>11, <1>12
<1> QED
  BY <1>9, <1>10, <1>12, <1>13 DEF NoCall

---------------------------------------------------------------------------
(* The calls of the stage at work. *)

\* A sequence and what was appended to it.
LEMMA AppendLast ==
    ASSUME NEW X, NEW s \in Seq(X), NEW e \in X
    PROVE  /\ Append(s, e) \in Seq(X) /\ Len(Append(s, e)) = Len(s) + 1 /\ Append(s, e) # <<>>
           /\ Last(Append(s, e)) = e /\ Front(Append(s, e)) = s
<1>1. Append(s, e) \in Seq(X) /\ Len(Append(s, e)) = Len(s) + 1 /\ Append(s, e)[Len(s) + 1] = e
      /\ \A i \in 1 .. Len(s) : Append(s, e)[i] = s[i]
  OBVIOUS
<1>2. Last(Append(s, e)) = e
  BY <1>1, Zenon DEF Last
<1>3. Append(s, e) # <<>>
  BY <1>1
<1>4. Front(Append(s, e)) = s
  <2> DEFINE t == Append(s, e)
  <2>1. t \in Seq(X) /\ Len(t) = Len(s) + 1 /\ Len(s) \in Nat /\ \A i \in 1 .. Len(s) : t[i] = s[i]
    BY <1>1
  <2> HIDE DEF t
  <2>2. Len(t) - 1 = Len(s)
    BY <2>1
  <2>3. Front(t) = SubSeq(t, 1, Len(s))
    BY <2>2, Zenon DEF Front
  <2>4. Len(s) \in 0 .. Len(t) /\ Len(t) \in Len(s) .. Len(t)
    BY <2>1
  <2>5. /\ SubSeq(t, 1, Len(s)) \in Seq(X) /\ Len(SubSeq(t, 1, Len(s))) = Len(s)
        /\ \A i \in 1 .. Len(s) : SubSeq(t, 1, Len(s))[i] = t[i]
    BY <2>1, <2>4, Cut
  <2>6. SubSeq(t, 1, Len(s)) = s
    BY <2>1, <2>5
  <2> QED
    BY <2>3, <2>6, Zenon DEF t
<1> QED
  BY <1>1, <1>2, <1>3, <1>4

\* A ledger with all of the prior calls is written as it is.
LEMMA SealedWrites ==
    ASSUME NEW l, NEW f, NEW n, Sealed(l, f, n), ToSet(prior.calls) \subseteq ToSet(l.calls)
    PROVE  Writes(l)
<1>1. Saved(l) = l
  <2>1. IdsOf(prior.calls) \subseteq IdsOf(l.calls)
    BY IdsWithin
  <2> QED
    BY <2>1, SavedWhole
<1>2. f \in 1 .. LastStage + 1 /\ n \in 0 .. Len(l.calls)
  BY Zenon DEF Sealed, Good
<1> QED
  BY <1>1, <1>2, Zenon DEF Writes

\* No answer waits behind a call to be made.
LEMMA AtCallFree ==
    ASSUME NEW L, NEW s, NEW n, AtCall(L, s, n)
    PROVE  ~Stuck(L, s, n)
<1>1. n > 0 => n # 0
  OBVIOUS
<1> QED
  BY <1>1, Zenon DEF AtCall, Stuck

\* It may be written as the receipt, open or halted at a stage that is not left out.
LEMMA AskingWrites ==
    ASSUME NEW l, NEW s, NEW n, Good(l, s, n), AtCall(l, s, n), ToSet(prior.calls) \subseteq ToSet(l.calls),
           l.interrupted => l.halted # 0, l.halted = 0 \/ l.interrupted
    PROVE  Writes(l)
<1>1. Sealed(l, s, n)
  BY AtCallFree, Zenon DEF Sealed
<1> QED
  BY <1>1, SealedWrites

\* THESIS_PENDING_FINAL_GENERATION_INVALID ends the process.
LEMMA LostKeeps ==
    ASSUME IInv, MeetLostGenerations
    PROVE  IInv'
<1> DEFINE M == [ledger EXCEPT !.calls = Carried]
<1>1. Due /\ Stop(M)
  BY Zenon DEF MeetLostGenerations
<1>2. Ready(M)
  BY <1>1, DueReady
<1> HIDE DEF M
<1>3. /\ Good(M, stage, Len(M.calls)) /\ AtCall(M, stage, Len(M.calls)) /\ M.halted = 0 /\ ~M.interrupted
      /\ ToSet(prior.calls) \subseteq ToSet(M.calls)
  BY <1>2, Zenon DEF Ready
<1>4. Writes(M)
  BY <1>3, AskingWrites
<1> QED
  BY <1>1, <1>4, StopKeeps

\* The attempt of the call to be made.
LEMMA AttemptIs ==
    ASSUME NEW M, Ready(M), M.calls = Carried
    PROVE  /\ Attempt \in Nat
           /\ Attempt = IF Pending(M.rows, stage) # {} THEN 1 + Last(M.calls).attempt ELSE 1
<1> DEFINE n == Len(M.calls)
<1>1. Good(M, stage, n) /\ M.rows = ledger.rows
  BY Zenon DEF Ready
<1>2. CASE Waiting
  <2>1. Entry \in Pending(M.rows, stage)
    BY <1>1, <1>2, Zenon DEF Waiting, Entry
  <2>2. Waits(M, stage, n, stage, Entry)
    BY <1>1, <2>1, PendingLast
  <2>3. n \in 1 .. Len(M.calls) /\ M.rows[Entry].failed = M.calls[n].id
    BY <2>2, Zenon DEF Waits
  <2>4. CallOf(M.calls, M.calls[n].id) = M.calls[n]
    BY <1>1, <2>3, GoodIds
  <2>5. Last(M.calls) = M.calls[n]
    BY DEF Last
  <2>6. Attempt = 1 + M.calls[n].attempt
    BY <1>1, <1>2, <2>3, <2>4, Zenon DEF Attempt
  <2>7. M.calls[n].attempt \in Nat
    <3>1. M.calls[n] \in Call
      BY <1>1, <2>3, GoodParts
    <3> QED
      BY <3>1, CallParts
  <2>8. Pending(M.rows, stage) # {}
    BY <2>1
  <2> QED
    BY <2>5, <2>6, <2>7, <2>8
<1>3. CASE ~Waiting
  <2>1. Pending(M.rows, stage) = {}
    BY <1>1, <1>3, Zenon DEF Waiting
  <2> QED
    BY <1>3, <2>1 DEF Attempt
<1> QED
  BY <1>2, <1>3

\* A call is sent.
LEMMA SendKeeps ==
    ASSUME IInv, Send
    PROVE  IInv'
<1> DEFINE M == [ledger EXCEPT !.calls = Carried]
           c == [id |-> NewId, stage |-> stage, attempt |-> Attempt, end |-> "open"]
           n == Len(M.calls)
<1>1. /\ Due
      /\ ledger' = [ledger EXCEPT !.calls = Append(Carried, c), !.blocked = FALSE, !.spent = @ + 1,
                                  !.generations = Generations]
      /\ phase' = "flight" /\ asked' = stage
      /\ stage' = stage /\ prior' = prior /\ reuse' = reuse /\ receipt' = receipt
  BY Zenon DEF Send
<1>2. Ready(M) /\ M.calls = Carried
  BY <1>1, DueReady
<1>3. stage \in Stage /\ stage \notin LeftOut(ledger) /\ reuse = <<>> /\ phase # "off"
  BY <1>1 DEF Due
<1> HIDE DEF M
<1>4. /\ Good(M, stage, n) /\ AtCall(M, stage, n) /\ M.halted = 0 /\ ~M.interrupted /\ prior.halted = 0
      /\ ToSet(prior.calls) \subseteq ToSet(M.calls) /\ (\A d \in ToSet(prior.calls) : d.attempt > 0)
      /\ LeftOut(prior) \subseteq LeftOut(M)
      /\ M.rows = ledger.rows /\ M.left = ledger.left /\ M.spent = ledger.spent
      /\ IdsOf(M.calls) \subseteq IdsOf(prior.calls) \union IdsOf(ledger.calls)
      /\ ledger \in Ledger /\ prior \in Ledger
  BY <1>2, Zenon DEF Ready
<1>5. NewId \in Nat /\ NewId # NoCall /\ NewId \notin IdsOf(prior.calls) \union IdsOf(ledger.calls)
  BY <1>4, NewIdFresh
<1>6. /\ Attempt \in Nat
      /\ Attempt = IF Pending(M.rows, stage) # {} THEN 1 + Last(M.calls).attempt ELSE 1
  BY <1>2, AttemptIs
<1>7. c \in Call /\ c.id = NewId /\ c.stage = stage /\ c.attempt = Attempt
  BY <1>3, <1>5, <1>6 DEF Call, End
<1> HIDE DEF c
<1>8. Carried \in Seq(Call) /\ Append(Carried, c) \in Seq(Call) /\ Len(Append(Carried, c)) = n + 1
      /\ Append(Carried, c) # <<>> /\ Last(Append(Carried, c)) = c /\ Front(Append(Carried, c)) = Carried /\ n \in Nat
  <2>1. M.calls \in Seq(Call)
    BY <1>4, GoodParts
  <2>2. Carried \in Seq(Call) /\ n = Len(Carried) /\ n \in Nat
    BY <1>2, <2>1
  <2> QED
    BY <1>7, <2>2, AppendLast
<1>9. Generations \in Nat
  <2>1. prior.generations \in Nat /\ ledger.generations \in Nat
    BY <1>4 DEF Ledger
  <2> QED
    BY <2>1 DEF Generations
<1>10. /\ ledger' \in Ledger /\ ledger'.calls = Append(Carried, c) /\ ledger'.rows = ledger.rows
       /\ ledger'.left = ledger.left /\ ledger'.halted = ledger.halted
       /\ ledger'.interrupted = ledger.interrupted /\ ledger'.spent = ledger.spent + 1
  <2>1. ledger.spent + 1 \in Nat /\ FALSE \in BOOLEAN
    BY <1>4 DEF Ledger
  <2> QED
    BY <1>1, <1>4, <1>8, <1>9, <2>1 DEF Ledger
<1>11. ledger.halted = 0 /\ ~ledger.interrupted
  <2>1. \A x : x = [ledger EXCEPT !.calls = Carried] => x.halted = ledger.halted /\ x.interrupted = ledger.interrupted
    BY <1>4 DEF Ledger
  <2>2. M = [ledger EXCEPT !.calls = Carried]
    BY Zenon DEF M
  <2> QED
    BY <1>4, <2>1, <2>2, Zenon
<1> DEFINE U == [ledger' EXCEPT !.calls = Carried]
<1>12. Unsent' = U
  BY <1>8, <1>10, Zenon DEF Unsent
<1>13. /\ U \in Ledger /\ U.calls = M.calls /\ U.rows = M.rows /\ U.left = M.left
       /\ U.halted = 0 /\ U.spent = ledger.spent + 1
  <2>1. \A x : x = [ledger' EXCEPT !.calls = Carried] =>
            /\ x \in Ledger /\ x.calls = Carried /\ x.rows = ledger'.rows /\ x.left = ledger'.left
            /\ x.halted = ledger'.halted /\ x.spent = ledger'.spent
    BY <1>8, <1>10 DEF Ledger
  <2> QED
    BY <1>2, <1>4, <1>10, <1>11, <2>1
<1> HIDE DEF U
<1>14. M.spent >= n /\ M.spent \in Nat /\ M.spent = ledger.spent
  <2>1. M.spent >= n
    BY <1>4, Zenon DEF Good
  <2>2. M.spent \in Nat
    BY <1>4, GoodParts
  <2> QED
    BY <1>4, <2>1, <2>2
<1>15. Good(U, stage, n)
  <2>1. U.halted \notin LeftOut(M)
    <3>1. LeftOut(M) \subseteq Degradable \ {M.halted}
      BY <1>4, Zenon DEF Good, StateValid
    <3> QED
      BY <1>4, <1>13, <3>1
  <2>2. U.spent >= n
    BY <1>8, <1>13, <1>14
  <2> QED
    BY <1>4, <1>13, <2>1, <2>2, GoodSame
<1>16. AtCall(U, stage, n) /\ Len(U.calls) = n
  BY <1>4, <1>13, Zenon DEF AtCall
<1>17. InFlight'
  <2>1. ledger'.spent >= Len(ledger'.calls)
    BY <1>8, <1>10, <1>14
  <2>2. Good(Unsent', stage', Len(Unsent'.calls)) /\ AtCall(Unsent', stage', Len(Unsent'.calls))
    BY <1>1, <1>12, <1>15, <1>16, Zenon
  <2>3. Last(ledger'.calls) = c
    BY <1>8, <1>10, Zenon
  <2>4. c.id \notin IdsOf(Unsent'.calls) \union {NoCall}
    <3>1. Unsent'.calls = M.calls
      BY <1>12, <1>13, Zenon
    <3> QED
      BY <1>4, <1>5, <1>7, <3>1
  <2>5. c.attempt = IF Waiting' THEN 1 + Last(Unsent'.calls).attempt ELSE 1
    <3>1. Waiting' <=> Pending(M.rows, stage) # {}
      BY <1>1, <1>4, <1>10, Zenon DEF Waiting
    <3>2. Unsent'.calls = M.calls
      BY <1>12, <1>13, Zenon
    <3> QED
      BY <1>6, <1>7, <3>1, <3>2, Zenon
  <2>6. c.stage = stage'
    BY <1>1, <1>7, Zenon
  <2>7. ledger'.calls # <<>>
    BY <1>8, <1>10, Zenon
  <2>8. stage' \in Stage /\ phase' = "flight" /\ asked' = stage'
    BY <1>1, <1>3, Zenon
  <2> QED
    BY <1>10, <2>1, <2>2, <2>3, <2>4, <2>5, <2>6, <2>7, <2>8, Zenon DEF InFlight
<1>18. LeftOut(ledger') = LeftOut(ledger) /\ LeftOut(M) = LeftOut(ledger)
  BY <1>4, <1>10, Zenon DEF LeftOut
<1>19. Held'
  <2>1. Unsent'.calls = M.calls
    BY <1>12, <1>13, Zenon
  <2>2. ToSet(prior'.calls) \subseteq ToSet(IF phase' = "flight" THEN Unsent'.calls ELSE ledger'.calls)
    BY <1>1, <1>4, <2>1, Zenon
  <2>3. LeftOut(prior') \subseteq LeftOut(ledger')
    BY <1>1, <1>4, <1>18, Zenon
  <2>4. reuse' = <<>> /\ prior'.halted = 0 /\ (\A d \in ToSet(prior'.calls) : d.attempt > 0)
    BY <1>1, <1>3, <1>4, Zenon
  <2>5. ~ledger'.interrupted /\ ledger'.halted = 0
    BY <1>10, <1>11, Zenon
  <2> QED
    BY <2>2, <2>3, <2>4, <2>5, Zenon DEF Held
<1>20. Working'
  BY <1>17, <1>19, Zenon DEF Working
<1>21. Framing
  <2>1. LastStage \in Nat
    BY StageAssumption
  <2>2. stage' \in 1 .. LastStage + 1 /\ asked' \in 0 .. stage' /\ asked' <= LastStage
    BY <1>1, <1>3, <2>1 DEF Stage
  <2>3. phase' \in {"stage", "flight", "refused", "repairing", "halting"}
    BY <1>1
  <2>4. asked' \notin LeftOut(ledger')
    BY <1>1, <1>3, <1>18, Zenon
  <2> QED
    BY <1>1, <1>3, <2>2, <2>3, <2>4, Zenon DEF Framing
<1> QED
  BY <1>20, <1>21, FrameKeeps

---------------------------------------------------------------------------
(* The end of the call in flight. *)

\* A sequence with another last element.
LEMMA PatchLast ==
    ASSUME NEW X, NEW s \in Seq(X), s # <<>>, NEW e \in X
    PROVE  /\ Last(s) \in X /\ Last(s) = s[Len(s)] /\ Front(s) \in Seq(X) /\ Len(s) \in Nat /\ Len(s) > 0
           /\ Len(Front(s)) = Len(s) - 1
           /\ [s EXCEPT ![Len(s)] = e] = Append(Front(s), e)
<1>1. PICK m \in Nat : Len(s) = m + 1
  <2>1. Len(s) \in Nat /\ Len(s) # 0
    OBVIOUS
  <2> DEFINE k == Len(s) - 1
  <2>2. k \in Nat /\ Len(s) = k + 1
    BY <2>1
  <2> HIDE DEF k
  <2> QED
    BY <2>2, Zenon
<1>2. DOMAIN s = 1 .. m + 1 /\ Len(s) - 1 = m /\ m \in 0 .. Len(s) /\ Len(s) \in m .. Len(s) /\ m + 1 \in 1 .. m + 1
  BY <1>1
<1>3. Last(s) \in X /\ Last(s) = s[Len(s)]
  <2>1. s[m + 1] \in X
    BY <1>1, <1>2
  <2> QED
    BY <1>1, <2>1, Zenon DEF Last
<1>4. SubSeq(s, 1, m) \in Seq(X) /\ Len(SubSeq(s, 1, m)) = m /\ \A i \in 1 .. m : SubSeq(s, 1, m)[i] = s[i]
  <2>1. m \in 0 .. Len(s) /\ Len(s) \in m .. Len(s)
    BY <1>2
  <2> QED
    BY <2>1, Cut
<1>5. Front(s) = SubSeq(s, 1, m)
  BY <1>2, Zenon DEF Front
<1>6. Front(s) \in Seq(X) /\ Len(Front(s)) = m /\ \A i \in 1 .. m : Front(s)[i] = s[i]
  BY <1>4, <1>5, Zenon
<1> DEFINE u == Append(Front(s), e)
<1>7. /\ u \in Seq(X) /\ Len(u) = m + 1 /\ u[m + 1] = e
  BY <1>1, <1>6
<1>8. \A i \in 1 .. m : u[i] = s[i]
  <2>1. \A i \in 1 .. m : u[i] = Front(s)[i]
    BY <1>1, <1>6
  <2> QED
    BY <1>6, <2>1, Zenon
<1> HIDE DEF u
<1>9. u = [i \in 1 .. m + 1 |-> u[i]]
  BY <1>7
<1>10. \A i \in 1 .. m + 1 : u[i] = IF i = m + 1 THEN e ELSE s[i]
  <2>1. ASSUME NEW i \in 1 .. m + 1 PROVE u[i] = IF i = m + 1 THEN e ELSE s[i]
    <3>1. i = m + 1 \/ i \in 1 .. m
      BY <1>1
    <3>2. m + 1 \notin 1 .. m
      BY <1>1
    <3>3. CASE i = m + 1
      BY <1>7, <3>3
    <3>4. CASE i \in 1 .. m
      <4>1. i # m + 1
        BY <3>2, <3>4, Zenon
      <4> QED
        BY <1>8, <3>4, <4>1, Zenon
    <3> QED
      BY <3>1, <3>3, <3>4
  <2> QED
    BY <2>1, Zenon
<1>11. [s EXCEPT ![Len(s)] = e] = [i \in 1 .. m + 1 |-> IF i = m + 1 THEN e ELSE s[i]]
  BY <1>1, <1>2
<1>12. [s EXCEPT ![Len(s)] = e] = u
  BY <1>9, <1>10, <1>11
<1>13. Len(Front(s)) = Len(s) - 1 /\ Len(s) \in Nat /\ Len(s) > 0
  BY <1>1, <1>6
<1> QED
  BY <1>3, <1>6, <1>12, <1>13, Zenon DEF u

\* The last call with this end.
WithEnd(calls, end) == [calls EXCEPT ![Len(calls)] = [@ EXCEPT !.end = end]]
Ending(calls, end) == [Last(calls) EXCEPT !.end = end]

\* It is the front and the call with that end.
Patches(calls, end) ==
    /\ Last(calls) \in Call /\ Front(calls) \in Seq(Call) /\ Len(calls) \in Nat /\ Len(calls) > 0
    /\ Len(Front(calls)) = Len(calls) - 1
    /\ WithEnd(calls, end) = Append(Front(calls), Ending(calls, end))
    /\ Ending(calls, end) \in Call
\* A call that ends is the last one, replaced.
LEMMA WithEndIs ==
    ASSUME NEW calls \in Seq(Call), calls # <<>>, NEW end \in End
    PROVE  Patches(calls, end)
<1> DEFINE c == Ending(calls, end)
<1>1. Last(calls) \in Call /\ Last(calls) = calls[Len(calls)]
  <2>1. PICK e : e \in Call
    <3>1. calls[1] \in Call
      OBVIOUS
    <3> QED
      BY <3>1
  <2> QED
    BY <2>1, PatchLast
<1>2. c \in Call
  BY <1>1 DEF Call, Ending
<1>3. WithEnd(calls, end) = [calls EXCEPT ![Len(calls)] = c]
  BY <1>1, Zenon DEF WithEnd, Ending
<1> HIDE DEF c
<1>4. /\ Front(calls) \in Seq(Call) /\ Len(calls) \in Nat /\ Len(calls) > 0
      /\ Len(Front(calls)) = Len(calls) - 1
      /\ [calls EXCEPT ![Len(calls)] = c] = Append(Front(calls), c)
  BY <1>2, PatchLast
<1> QED
  BY <1>1, <1>2, <1>3, <1>4, Zenon DEF c, Patches

\* The rows with the granted call bound to this one.
Binding(id) == IF Waiting THEN [ledger.rows EXCEPT ![Entry] = [@ EXCEPT !.retry = id]] ELSE ledger.rows

\* What Unbound and Bound change.
Changes(end) ==
    /\ Unbound(end) = [ledger EXCEPT !.calls = WithEnd(ledger.calls, end)]
    /\ Unbound(end) \in Ledger
    /\ Bound(end) = [ledger EXCEPT !.calls = WithEnd(ledger.calls, end), !.rows = Binding(Last(ledger.calls).id)]
    /\ Bound(end) \in Ledger
\* What a call that ends changes of the ledger.
LEMMA BoundIs ==
    ASSUME ledger \in Ledger, ledger.calls # <<>>, NEW end \in End, Binding(Last(ledger.calls).id) \in Seq(Row)
    PROVE  Changes(end)
<1>1. ledger.calls \in Seq(Call)
  BY DEF Ledger
<1>2. WithEnd(ledger.calls, end) \in Seq(Call)
  <2>1. Patches(ledger.calls, end)
    BY <1>1, WithEndIs
  <2>2. Front(ledger.calls) \in Seq(Call) /\ Ending(ledger.calls, end) \in Call
    BY <2>1, Zenon DEF Patches
  <2>3. Append(Front(ledger.calls), Ending(ledger.calls, end)) \in Seq(Call)
    BY <2>2, AppendLast
  <2> QED
    BY <2>1, <2>3, Zenon DEF Patches
<1>3. Unbound(end) = [ledger EXCEPT !.calls = WithEnd(ledger.calls, end)]
  BY DEF Unbound, WithEnd, Ledger
<1>4. Unbound(end) \in Ledger
  BY <1>2, <1>3 DEF Ledger
<1>5. Unbound(end).rows = ledger.rows
  BY <1>3 DEF Ledger
<1>6. Bound(end) = [Unbound(end) EXCEPT !.rows = Binding(Last(ledger.calls).id)]
  BY <1>5 DEF Bound, Binding
<1>7. Bound(end) = [ledger EXCEPT !.calls = WithEnd(ledger.calls, end), !.rows = Binding(Last(ledger.calls).id)]
  BY <1>3, <1>6 DEF Ledger
<1>8. Bound(end) \in Ledger
  BY <1>2, <1>7 DEF Ledger
<1> QED
  BY <1>3, <1>4, <1>7, <1>8, Zenon DEF Changes

\* A ledger in which the call in flight has ended.
Landing(M, end) ==
    /\ M \in Ledger /\ M.calls = WithEnd(ledger.calls, end) /\ M.rows = Binding(Last(ledger.calls).id)
    /\ M.left = ledger.left /\ M.halted = ledger.halted /\ M.interrupted = ledger.interrupted
    /\ M.spent = ledger.spent

\* Then the last call of the stage has ended, and no row waits.
Landed(M, end) ==
    /\ LastEnded(M, stage, Len(M.calls)) /\ M.calls[Len(M.calls)].end = end /\ Last(M.calls) = M.calls[Len(M.calls)]
    /\ M \in Ledger /\ M.halted = 0 /\ ~M.interrupted /\ M.spent >= Len(M.calls)
    /\ reuse = <<>> /\ prior.halted = 0
    /\ ToSet(prior.calls) \subseteq ToSet(M.calls) /\ (\A c \in ToSet(prior.calls) : c.attempt > 0)
    /\ LeftOut(prior) \subseteq LeftOut(M) /\ LeftOut(M) = LeftOut(ledger)
    /\ stage \in Stage /\ asked = stage /\ stage \notin LeftOut(M) /\ LastStage \in Nat

\* A process with a call in flight works.
LEMMA FlightWorks ==
    ASSUME IInv, phase = "flight"
    PROVE  Held /\ InFlight
<1>1. Working
  <2>1. phase # "off" /\ phase \notin {"stage", "halting"}
    OBVIOUS
  <2> QED
    BY <2>1, Zenon DEF IInv, Replaying
<1> QED
  BY <1>1, Zenon DEF Working, Asking, Passed, Refusing, Stopping

\* The granted row is bound as StageSteps has it.
LEMMA BindingIs ==
    ASSUME NEW U, Good(U, stage, Len(U.calls)), U.rows = ledger.rows, NEW id \in Nat
    PROVE  Binding(id) = Rebound(U.rows, stage, id) /\ Binding(id) \in Seq(Row)
<1>1. U.rows \in Seq(Row) /\ DOMAIN U.rows = 1 .. Len(U.rows)
  BY GoodParts
<1>2. CASE Waiting
  <2>1. Entry \in Pending(U.rows, stage)
    BY <1>2, Zenon DEF Waiting, Entry
  <2>2. Waits(U, stage, Len(U.calls), stage, Entry)
    BY <2>1, PendingLast
  <2>3. Entry \in DOMAIN U.rows /\ U.rows[Entry] \in Row /\ Pending(U.rows, stage) = {Entry}
    BY <2>2, Zenon DEF Waits
  <2>4. Binding(id) = [U.rows EXCEPT ![Entry] = [@ EXCEPT !.retry = id]]
    BY <1>2, Zenon DEF Binding
  <2>5. Binding(id) = Rebound(U.rows, stage, id)
    BY <1>1, <2>3, <2>4 DEF Rebound
  <2>6. [U.rows[Entry] EXCEPT !.retry = id] \in Row
    BY <2>3 DEF Row
  <2>7. Binding(id) \in Seq(Row)
    BY <1>1, <2>3, <2>4, <2>6
  <2> QED
    BY <2>5, <2>7
<1>3. CASE ~Waiting
  <2>1. Pending(U.rows, stage) = {}
    BY <1>3, Zenon DEF Waiting
  <2>2. Binding(id) = U.rows
    BY <1>3, Zenon DEF Binding
  <2>3. Rebound(U.rows, stage, id) = U.rows
    <3>1. Rebound(U.rows, stage, id) = [i \in DOMAIN U.rows |-> U.rows[i]]
      BY <2>1, Zenon DEF Rebound
    <3>2. \A rows \in Seq(Row) : rows = [i \in DOMAIN rows |-> rows[i]]
      OBVIOUS
    <3> QED
      BY <1>1, <3>1, <3>2, Zenon
  <2> QED
    BY <1>1, <2>2, <2>3
<1> QED
  BY <1>2, <1>3

\* The ledger without the call in flight.
LEMMA FlightUnsent ==
    ASSUME IInv, phase = "flight"
    PROVE  /\ ledger \in Ledger /\ ledger.calls # <<>> /\ Last(ledger.calls) \in Call
           /\ Unsent.calls = Front(ledger.calls) /\ Unsent.rows = ledger.rows /\ Unsent.left = ledger.left
           /\ Good(Unsent, stage, Len(Unsent.calls)) /\ AtCall(Unsent, stage, Len(Unsent.calls))
           /\ Binding(Last(ledger.calls).id) \in Seq(Row)
           /\ Binding(Last(ledger.calls).id) = Rebound(Unsent.rows, stage, Last(ledger.calls).id)
<1>1. InFlight
  BY FlightWorks
<1>2. /\ ledger \in Ledger /\ ledger.calls # <<>>
      /\ Good(Unsent, stage, Len(Unsent.calls)) /\ AtCall(Unsent, stage, Len(Unsent.calls))
  BY <1>1, Zenon DEF InFlight
<1>3. Unsent.calls = Front(ledger.calls) /\ Unsent.rows = ledger.rows /\ Unsent.left = ledger.left
  <2>1. \A x : [ledger EXCEPT !.calls = x].calls = x /\ [ledger EXCEPT !.calls = x].rows = ledger.rows
               /\ [ledger EXCEPT !.calls = x].left = ledger.left
    BY <1>2 DEF Ledger
  <2> QED
    BY <2>1, Zenon DEF Unsent
<1>4. Last(ledger.calls) \in Call
  <2>1. ledger.calls \in Seq(Call)
    BY <1>2 DEF Ledger
  <2>2. "open" \in End
    BY DEF End
  <2>3. Patches(ledger.calls, "open")
    BY <1>2, <2>1, <2>2, WithEndIs
  <2> QED
    BY <2>3, Zenon DEF Patches
<1>5. Last(ledger.calls).id \in Nat
  BY <1>4, CallParts
<1> QED
  BY <1>2, <1>3, <1>4, <1>5, BindingIs

\* So the ledger with its end has one more call.
LEMMA LandingLands ==
    ASSUME IInv, phase = "flight", NEW end \in End, NEW M, Landing(M, end)
    PROVE  Landed(M, end)
<1> DEFINE c == Ending(ledger.calls, end)
           m == Len(Unsent.calls)
<1>1. Held /\ InFlight
  BY FlightWorks
<1>2. /\ ledger \in Ledger /\ ledger.calls # <<>> /\ Last(ledger.calls) \in Call
      /\ Unsent.calls = Front(ledger.calls) /\ Unsent.rows = ledger.rows /\ Unsent.left = ledger.left
      /\ Good(Unsent, stage, m) /\ AtCall(Unsent, stage, m)
      /\ Binding(Last(ledger.calls).id) = Rebound(Unsent.rows, stage, Last(ledger.calls).id)
  BY FlightUnsent
<1>3. /\ M \in Ledger /\ M.calls = WithEnd(ledger.calls, end) /\ M.rows = Binding(Last(ledger.calls).id)
      /\ M.left = ledger.left /\ M.halted = ledger.halted /\ M.interrupted = ledger.interrupted
      /\ M.spent = ledger.spent
  BY Zenon DEF Landing
<1>4. /\ Last(ledger.calls).stage = stage /\ Last(ledger.calls).id \notin IdsOf(Unsent.calls) \union {NoCall}
      /\ Last(ledger.calls).attempt = IF Waiting THEN 1 + Last(Unsent.calls).attempt ELSE 1
      /\ ledger.spent >= Len(ledger.calls) /\ stage \in Stage /\ asked = stage
  BY <1>1, Zenon DEF InFlight
<1>5. ledger.calls \in Seq(Call)
  BY <1>2 DEF Ledger
<1>6. /\ WithEnd(ledger.calls, end) = Append(Front(ledger.calls), c) /\ c \in Call
      /\ Front(ledger.calls) \in Seq(Call) /\ Len(ledger.calls) \in Nat
      /\ Len(Front(ledger.calls)) = Len(ledger.calls) - 1
  <2>1. Patches(ledger.calls, end)
    BY <1>2, <1>5, WithEndIs
  <2> QED
    BY <2>1, Zenon DEF Patches
<1>7. M.calls = Append(Unsent.calls, c)
  BY <1>2, <1>3, <1>6, Zenon
<1>8. c.stage = stage /\ c.id = Last(ledger.calls).id /\ c.attempt = Last(ledger.calls).attempt /\ c.end = end
  BY <1>2, <1>4 DEF Call, Ending
<1> HIDE DEF c
<1>9. Len(M.calls) = Len(ledger.calls) /\ Last(M.calls) = c /\ Len(M.calls) = m + 1 /\ Len(M.calls) \in Nat
  <2>1. Len(Append(Front(ledger.calls), c)) = Len(Front(ledger.calls)) + 1 /\ Last(Append(Front(ledger.calls), c)) = c
    BY <1>6, AppendLast
  <2>2. Len(M.calls) = Len(Front(ledger.calls)) + 1 /\ Last(M.calls) = c /\ m = Len(Front(ledger.calls))
    BY <1>2, <1>7, <2>1, Zenon
  <2> QED
    BY <1>6, <2>2
<1>10. M.spent >= Len(M.calls)
  BY <1>3, <1>4, <1>9, Zenon
<1>11. /\ reuse = <<>> /\ prior.halted = 0 /\ ToSet(prior.calls) \subseteq ToSet(Unsent.calls)
       /\ (\A d \in ToSet(prior.calls) : d.attempt > 0) /\ LeftOut(prior) \subseteq LeftOut(ledger)
       /\ ~ledger.interrupted /\ ledger.halted = 0
  <2>1. phase = "flight" /\ phase # "halting"
    OBVIOUS
  <2> QED
    BY <1>1, <2>1, Zenon DEF Held
<1>12. LeftOut(M) = LeftOut(ledger) /\ LeftOut(Unsent) = LeftOut(ledger)
  BY <1>2, <1>3, Zenon DEF LeftOut
<1>13. M.halted \notin LeftOut(Unsent)
  <2>1. LeftOut(Unsent) \subseteq Degradable \ {Unsent.halted}
    BY <1>2, Zenon DEF Good, StateValid
  <2>2. 0 \notin Degradable
    BY StageAssumption
  <2> QED
    BY <1>3, <1>11, <2>1, <2>2
<1>14. c.attempt = IF Pending(Unsent.rows, stage) # {} THEN 1 + Last(Unsent.calls).attempt ELSE 1
  <2>1. Waiting <=> Pending(Unsent.rows, stage) # {}
    BY <1>2, Zenon DEF Waiting
  <2> QED
    BY <1>4, <1>8, <2>1, Zenon
<1>15. Grown(Unsent, M, stage, m, c)
  <2>1. c.id \notin IdsOf(Unsent.calls) /\ c.id # NoCall
    BY <1>4, <1>8
  <2>2. M.rows = Rebound(Unsent.rows, stage, c.id) /\ M.left = Unsent.left
    BY <1>2, <1>3, <1>8, Zenon
  <2> QED
    BY <1>2, <1>3, <1>4, <1>6, <1>7, <1>8, <1>10, <1>13, <1>14, <2>1, <2>2, Zenon DEF Grown
<1>16. /\ Good(M, stage, m + 1) /\ m + 1 = Len(M.calls) /\ M.calls[m + 1] = c
       /\ \A r \in ToSet(M.rows) : Plain(r) /\ r.retry # NoCall
  BY <1>15, GrownGood
<1>17. LastEnded(M, stage, Len(M.calls))
  <2>1. Len(M.calls) > 0
    BY <1>2, <1>5, <1>9
  <2>2. M.calls[Len(M.calls)] = c
    BY <1>16, Zenon
  <2> QED
    BY <1>4, <1>8, <1>16, <2>1, <2>2, Zenon DEF LastEnded
<1>18. ToSet(prior.calls) \subseteq ToSet(M.calls)
  <2>1. Unsent.calls \in Seq(Call)
    BY <1>2, <1>6
  <2>2. ToSet(M.calls) = ToSet(Unsent.calls) \union {c}
    BY <1>6, <1>7, <2>1, ToSetAppend
  <2> QED
    BY <1>11, <2>2
<1>19. stage \notin LeftOut(M)
  <2>1. ASSUME stage \in LeftOut(M) PROVE FALSE
    <3>1. PICK d \in ToSet(M.left) : d.stage = stage
      BY <2>1 DEF LeftOut
    <3>2. d.stage < stage
      BY <1>16, <3>1, LeftIds
    <3>3. stage \in Nat
      BY <1>4 DEF Stage
    <3> QED
      BY <3>1, <3>2, <3>3
  <2> QED
    BY <2>1
<1>20. M.calls[Len(M.calls)].end = end /\ Last(M.calls) = M.calls[Len(M.calls)]
  BY <1>8, <1>9, <1>16, Zenon
<1>21. LastStage \in Nat
  BY StageAssumption
<1>22. LeftOut(prior) \subseteq LeftOut(M) /\ M.halted = 0 /\ ~M.interrupted
  BY <1>3, <1>11, <1>12, Zenon
<1> QED
  BY <1>3, <1>4, <1>10, <1>11, <1>12, <1>17, <1>18, <1>19, <1>20, <1>21, <1>22, Zenon DEF Landed

\* What Ended changes.
LEMMA EndedLands ==
    ASSUME IInv, phase = "flight", NEW end \in End, NEW blocked \in BOOLEAN
    PROVE  Landing(Ended(end, blocked), end)
<1> DEFINE generations == IF stage = LastStage /\ end # "cut_refused" THEN Bound(end).generations + 1
                          ELSE Bound(end).generations
           E == Ended(end, blocked)
<1>1. /\ ledger \in Ledger /\ ledger.calls # <<>> /\ Binding(Last(ledger.calls).id) \in Seq(Row)
  BY FlightUnsent
<1>2. /\ Bound(end) = [ledger EXCEPT !.calls = WithEnd(ledger.calls, end), !.rows = Binding(Last(ledger.calls).id)]
      /\ Bound(end) \in Ledger
  <2>1. Changes(end)
    BY <1>1, BoundIs
  <2> QED
    BY <2>1, Zenon DEF Changes
<1>3. generations \in Nat
  <2>1. Bound(end).generations \in Nat
    BY <1>2 DEF Ledger
  <2> QED
    BY <2>1
<1>4. E = [Bound(end) EXCEPT !.blocked = blocked, !.generations = generations]
  BY DEF Ended
<1> HIDE DEF generations, E
<1>5. /\ E \in Ledger /\ E.calls = Bound(end).calls /\ E.rows = Bound(end).rows
      /\ E.left = Bound(end).left /\ E.halted = Bound(end).halted
      /\ E.interrupted = Bound(end).interrupted /\ E.spent = Bound(end).spent
  BY <1>2, <1>3, <1>4 DEF Ledger
<1>6. /\ Bound(end).calls = WithEnd(ledger.calls, end) /\ Bound(end).rows = Binding(Last(ledger.calls).id)
      /\ Bound(end).left = ledger.left /\ Bound(end).halted = ledger.halted
      /\ Bound(end).interrupted = ledger.interrupted /\ Bound(end).spent = ledger.spent
  BY <1>1, <1>2 DEF Ledger
<1>7. Landing(E, end)
  BY <1>5, <1>6, Zenon DEF Landing
<1> QED
  BY <1>7, Zenon DEF E

---------------------------------------------------------------------------
(* The steps of a process that works. *)

\* The ledger has all of the prior one, and no interruption.
Whole(l) ==
    /\ reuse = <<>> /\ prior.halted = 0 /\ ~l.interrupted
    /\ ToSet(prior.calls) \subseteq ToSet(l.calls) /\ (\A c \in ToSet(prior.calls) : c.attempt > 0)
    /\ LeftOut(prior) \subseteq LeftOut(l)

\* The process goes on, with this ledger.
Onward(l) ==
    /\ phase # "off" /\ ledger' = l /\ prior' = prior /\ reuse' = reuse /\ receipt' = receipt

\* It holds as much in its next state.
LEMMA WholeHeld ==
    ASSUME NEW l, Whole(l), Onward(l), phase' # "flight", phase' # "halting" => l.halted = 0
    PROVE  Held'
BY Zenon DEF Whole, Onward, Held

\* To the next call.
LEMMA AskingNext ==
    ASSUME IInv, NEW l, Whole(l), Onward(l), l.halted = 0, phase' = "stage",
           Good(l, stage', Len(l.calls)), AtCall(l, stage', Len(l.calls)),
           asked' \in 0 .. stage', asked' <= LastStage, asked' \notin LeftOut(l)
    PROVE  IInv'
<1>1. Asking'
  BY Zenon DEF Asking, Onward
<1>2. phase' # "flight" /\ phase' \in {"stage", "flight", "refused", "repairing", "halting"}
  OBVIOUS
<1>3. Working'
  BY <1>1, <1>2, WholeHeld, Zenon DEF Working
<1>4. Framing
  BY <1>2, Zenon DEF Framing, Onward, Good
<1> QED
  BY <1>3, <1>4, FrameKeeps

\* To the end of a run that stops.
LEMMA StoppingNext ==
    ASSUME IInv, NEW l, Whole(l), Onward(l), l.halted = stage, stage \in Stage, phase' = "halting",
           stage' = stage, asked' = asked, asked \notin LeftOut(l), NEW n, Good(l, stage, n)
    PROVE  IInv'
<1>1. Stopping'
  BY Zenon DEF Stopping, Onward, Good
<1>2. phase' # "flight" /\ phase' \in {"stage", "flight", "refused", "repairing", "halting"}
  OBVIOUS
<1>3. Working'
  BY <1>1, <1>2, WholeHeld, Zenon DEF Working
<1>4. Framing
  BY <1>2, Zenon DEF Framing, Onward, IInv
<1> QED
  BY <1>3, <1>4, FrameKeeps

\* To the numbers of the final report.
LEMMA RefusingNext ==
    ASSUME IInv, NEW l, Whole(l), Onward(l), l.halted = 0, phase' \in {"refused", "repairing"},
           stage = LastStage, stage' = stage, asked' = asked, asked = stage, asked \notin LeftOut(l),
           NEW n, Good(l, LastStage, n), Refused(l, n), phase' = "repairing" => n + 1 = Len(l.calls)
    PROVE  IInv'
<1>1. Refusing'
  BY Zenon DEF Refusing, Onward, Good
<1>2. phase' # "flight" /\ phase' \in {"stage", "flight", "refused", "repairing", "halting"}
  OBVIOUS
<1>3. Working'
  BY <1>1, <1>2, WholeHeld, Zenon DEF Working
<1>4. Framing
  BY <1>2, Zenon DEF Framing, Onward, IInv
<1> QED
  BY <1>3, <1>4, FrameKeeps

\* To the end of a run that passes, its numbers repaired or hidden.
LEMMA PassedNext ==
    ASSUME IInv, NEW l, Whole(l), Onward(l), l.halted = 0, phase' = "stage",
           stage' = LastStage + 1, asked' = asked, asked = LastStage, asked \notin LeftOut(l),
           NEW n, Good(l, LastStage, n), Refused(l, n)
    PROVE  IInv'
<1>1. Passed'
  BY Zenon DEF Passed, Onward, Good
<1>2. phase' # "flight" /\ phase' \in {"stage", "flight", "refused", "repairing", "halting"}
  OBVIOUS
<1>3. Working'
  BY <1>1, <1>2, WholeHeld, Zenon DEF Working
<1>4. LastStage \in Nat
  BY StageAssumption
<1>5. stage' \in 1 .. LastStage + 1 /\ asked' \in 0 .. stage' /\ asked' <= LastStage
  BY <1>4
<1>6. Framing
  BY <1>2, <1>5, Zenon DEF Framing, Onward
<1> QED
  BY <1>3, <1>6, FrameKeeps

\* A ledger that differs in what is not about its calls.
Marked(L, M) ==
    /\ M \in Ledger /\ M.calls = L.calls /\ M.rows = L.rows /\ M.left = L.left /\ M.spent = L.spent
    /\ M.interrupted = L.interrupted /\ LeftOut(M) = LeftOut(L)

\* Halted, it is as good.
LEMMA HaltMarks ==
    ASSUME NEW L \in Ledger, NEW s \in Stage
    PROVE  Marked(L, [L EXCEPT !.halted = s]) /\ [L EXCEPT !.halted = s].halted = s
<1> DEFINE M == [L EXCEPT !.halted = s]
<1>1. s \in 0 .. LastStage
  BY StageAssumption DEF Stage
<1>2. /\ M \in Ledger /\ M.calls = L.calls /\ M.rows = L.rows /\ M.left = L.left /\ M.spent = L.spent
      /\ M.interrupted = L.interrupted /\ M.halted = s
  BY <1>1 DEF Ledger
<1> HIDE DEF M
<1>3. LeftOut(M) = LeftOut(L)
  BY <1>2, Zenon DEF LeftOut
<1> QED
  BY <1>2, <1>3, Zenon DEF Marked, M

\* Marks do not matter to its blocks.
LEMMA MarkedGood ==
    ASSUME NEW L, NEW f, NEW n, Good(L, f, n), NEW M, Marked(L, M), M.halted \notin LeftOut(L)
    PROVE  Good(M, f, n)
<1>1. /\ M \in Ledger /\ M.calls = L.calls /\ M.rows = L.rows /\ M.left = L.left /\ M.spent = L.spent
  BY Zenon DEF Marked
<1>2. M.spent >= Len(L.calls)
  <2>1. L.spent >= Len(L.calls)
    BY Zenon DEF Good
  <2> QED
    BY <1>1, <2>1, Zenon
<1> QED
  BY <1>1, <1>2, GoodSame

\* Nor to what it holds.
LEMMA MarkedWhole ==
    ASSUME NEW L, Whole(L), NEW M, Marked(L, M)
    PROVE  Whole(M)
BY Zenon DEF Whole, Marked

\* The stage at work is not left out.
LEMMA FrontierKept ==
    ASSUME NEW L, NEW f, NEW n, Good(L, f, n), NEW s \in Nat, f <= s
    PROVE  s \notin LeftOut(L)
<1>1. SUFFICES ASSUME s \in LeftOut(L) PROVE FALSE
  OBVIOUS
<1>2. PICK d \in ToSet(L.left) : d.stage = s
  BY <1>1 DEF LeftOut
<1>3. d.stage < f /\ f \in Nat
  BY <1>2, LeftIds, GoodParts
<1> QED
  BY <1>2, <1>3

\* The budget refuses the call, and the run stops.
LEMMA RefuseKeeps ==
    ASSUME IInv, Refuse
    PROVE  IInv'
<1> DEFINE M == [ledger EXCEPT !.calls = Carried]
           generations == IF stage = LastStage THEN Generations + 1 ELSE ledger.generations
           N == [ledger EXCEPT !.calls = Carried, !.blocked = Blocked, !.generations = generations]
<1>1. /\ Due /\ ledger' = [N EXCEPT !.halted = stage] /\ phase' = "halting"
      /\ stage' = stage /\ asked' = asked /\ prior' = prior /\ reuse' = reuse /\ receipt' = receipt
  BY Zenon DEF Refuse, Halt
<1>2. Ready(M) /\ M.calls = Carried
  BY <1>1, DueReady
<1>3. stage \in Stage /\ stage \notin LeftOut(ledger) /\ reuse = <<>> /\ phase # "off"
  BY <1>1 DEF Due
<1>4. /\ Good(M, stage, Len(M.calls)) /\ M.halted = 0 /\ ~M.interrupted /\ prior.halted = 0
      /\ ToSet(prior.calls) \subseteq ToSet(M.calls) /\ (\A d \in ToSet(prior.calls) : d.attempt > 0)
      /\ LeftOut(prior) \subseteq LeftOut(M) /\ M.left = ledger.left
      /\ ledger \in Ledger /\ prior \in Ledger
  BY <1>2, Zenon DEF Ready
<1>5. M \in Ledger /\ M.calls \in Seq(Call)
  BY <1>4 DEF Good, Ledger
<1>6. Carried \in Seq(Call)
  BY <1>2, <1>5, Zenon
<1>7. Blocked \in BOOLEAN
  BY <1>4 DEF Blocked, Ledger
<1>8. generations \in Nat
  <2>1. prior.generations \in Nat /\ ledger.generations \in Nat
    BY <1>4 DEF Ledger
  <2> QED
    BY <2>1 DEF Generations
<1> HIDE DEF generations
<1>9. /\ N \in Ledger /\ N.calls = M.calls /\ N.rows = M.rows /\ N.left = M.left /\ N.spent = M.spent
      /\ N.interrupted = M.interrupted
  BY <1>4, <1>6, <1>7, <1>8 DEF Ledger
<1> HIDE DEF M, N
<1>10. Marked(M, N)
  <2>1. LeftOut(N) = LeftOut(M)
    BY <1>9, Zenon DEF LeftOut
  <2> QED
    BY <1>9, <2>1, Zenon DEF Marked
<1>11. Marked(N, ledger') /\ ledger'.halted = stage
  BY <1>1, <1>3, <1>9, HaltMarks
<1>12. Marked(M, ledger')
  BY <1>10, <1>11, Zenon DEF Marked
<1>13. LeftOut(M) = LeftOut(ledger) /\ LeftOut(ledger') = LeftOut(M)
  BY <1>4, <1>12, Zenon DEF LeftOut, Marked
<1>14. Good(ledger', stage, Len(M.calls))
  <2>1. ledger'.halted \notin LeftOut(M)
    BY <1>3, <1>11, <1>13, Zenon
  <2> QED
    BY <1>4, <1>12, <2>1, MarkedGood
<1>15. Whole(ledger')
  <2>1. Whole(M)
    BY <1>3, <1>4, Zenon DEF Whole
  <2> QED
    BY <1>12, <2>1, MarkedWhole
<1>16. Onward(ledger')
  BY <1>1, <1>3, Zenon DEF Onward
<1>17. asked \notin LeftOut(ledger')
  BY <1>13, Zenon DEF IInv
<1> QED
  BY <1>1, <1>3, <1>11, <1>14, <1>15, <1>16, <1>17, StoppingNext

\* What a call that ended leaves.
LEMMA LandedWhole ==
    ASSUME NEW M, NEW end, Landed(M, end)
    PROVE  /\ Whole(M) /\ LastEnded(M, stage, Len(M.calls)) /\ M \in Ledger /\ M.halted = 0
           /\ Good(M, stage, Len(M.calls)) /\ M.calls[Len(M.calls)].end = end
           /\ Last(M.calls) = M.calls[Len(M.calls)] /\ stage \in Stage /\ asked = stage /\ stage \notin LeftOut(M)
           /\ M.spent >= Len(M.calls) /\ LastStage \in Nat /\ stage \in Nat
<1>1. LastEnded(M, stage, Len(M.calls))
  BY Zenon DEF Landed
<1>2. stage \in Stage /\ LastStage \in Nat
  BY Zenon DEF Landed
<1>3. stage \in Nat
  BY <1>2 DEF Stage
<1>4. Good(M, stage, Len(M.calls))
  BY <1>1, Zenon DEF LastEnded
<1> QED
  BY <1>1, <1>2, <1>3, <1>4, Zenon DEF Landed, Whole

\* An answer is accepted.
LEMMA AcceptKeeps ==
    ASSUME IInv, Accept
    PROVE  IInv'
<1> DEFINE M == Ended("valid", FALSE)
<1>1. /\ phase = "flight" /\ ledger' = M /\ stage' = stage + 1 /\ phase' = "stage"
      /\ asked' = asked /\ prior' = prior /\ reuse' = reuse /\ receipt' = receipt
  BY Zenon DEF Accept, Advance
<1>2. Landed(M, "valid")
  <2>1. "valid" \in End /\ FALSE \in BOOLEAN
    BY DEF End
  <2>2. Landing(M, "valid")
    BY <1>1, <2>1, EndedLands
  <2> QED
    BY <1>1, <2>1, <2>2, LandingLands
<1> HIDE DEF M
<1>3. /\ Whole(M) /\ LastEnded(M, stage, Len(M.calls)) /\ M.halted = 0
      /\ M.calls[Len(M.calls)].end = "valid" /\ asked = stage /\ stage \notin LeftOut(M)
      /\ stage \in Stage /\ LastStage \in Nat /\ stage \in Nat
  BY <1>2, LandedWhole
<1>4. Good(M, stage + 1, Len(M.calls)) /\ AtCall(M, stage + 1, Len(M.calls))
  BY <1>3, AcceptedGood
<1>5. Onward(M)
  <2>1. phase # "off"
    BY <1>1
  <2> QED
    BY <1>1, <2>1, Zenon DEF Onward
<1>6. asked' \in 0 .. stage' /\ asked' <= LastStage
  BY <1>1, <1>3 DEF Stage
<1>7. asked' \notin LeftOut(M) /\ Good(M, stage', Len(M.calls)) /\ AtCall(M, stage', Len(M.calls))
  BY <1>1, <1>3, <1>4, Zenon
<1> QED
  BY <1>1, <1>3, <1>5, <1>6, <1>7, AskingNext

\* A failure is asked again.
LEMMA RetryKeeps ==
    ASSUME IInv, NEW end \in Failures, Retry(end)
    PROVE  IInv'
<1> DEFINE l == Ended(end, FALSE)
           row == [stage |-> stage, reason |-> FailureReason(Last(l.calls)), failed |-> Last(l.calls).id,
                   retry |-> NoCall]
           n == Len(l.calls)
<1>1. /\ phase = "flight" /\ FailureReason(Last(l.calls)) # "none" /\ end # "cut_refused"
      /\ MayReserve(l.rows, stage, Last(l.calls), FailureReason(Last(l.calls)))
      /\ ledger' = [l EXCEPT !.rows = Append(@, row)]
      /\ phase' = "stage" /\ stage' = stage /\ asked' = asked /\ prior' = prior /\ reuse' = reuse /\ receipt' = receipt
  BY Zenon DEF Retry
<1>2. Landed(l, end)
  <2>1. end \in End /\ FALSE \in BOOLEAN
    BY DEF End, Failures
  <2>2. Landing(l, end)
    BY <1>1, <2>1, EndedLands
  <2> QED
    BY <1>1, <2>1, <2>2, LandingLands
<1> HIDE DEF l
<1>3. /\ Whole(l) /\ LastEnded(l, stage, n) /\ l.halted = 0 /\ l \in Ledger
      /\ l.calls[n].end = end /\ asked = stage /\ stage \notin LeftOut(l) /\ Last(l.calls) = l.calls[n]
      /\ stage \in Stage /\ LastStage \in Nat /\ stage \in Nat /\ l.spent >= n
  BY <1>2, LandedWhole
<1>4. /\ Good(l, stage, n) /\ n > 0 /\ l.calls[n].stage = stage
      /\ \A r \in ToSet(l.rows) : Plain(r) /\ r.retry # NoCall
  BY <1>3, Zenon DEF LastEnded
<1>5. row \in Row
  <2>1. n \in DOMAIN l.calls /\ l.calls[n] \in Call
    <3>1. l.calls \in Seq(Call)
      BY <1>3 DEF Ledger
    <3> QED
      BY <1>4, <3>1
  <2>2. Last(l.calls).id \in Nat
    BY <1>3, <2>1, CallParts
  <2>3. FailureReason(Last(l.calls)) \in Reason
    BY <1>1 DEF FailureReason, Reason
  <2> QED
    BY <1>3, <2>2, <2>3 DEF Row, NoCall
<1> DEFINE M == [l EXCEPT !.rows = Append(@, row)]
<1>6. row.reason = FailureReason(l.calls[n]) /\ row.failed = l.calls[n].id /\ row.stage = stage /\ row.retry = NoCall
      /\ row = [stage |-> stage, reason |-> FailureReason(l.calls[n]), failed |-> l.calls[n].id, retry |-> NoCall]
  BY <1>3
<1> HIDE DEF row
<1>7. /\ M \in Ledger /\ M.calls = l.calls /\ M.left = l.left /\ M.rows = Append(l.rows, row)
      /\ M.halted = l.halted /\ M.spent = l.spent /\ M.interrupted = l.interrupted
  <2>1. Append(l.rows, row) \in Seq(Row)
    BY <1>3, <1>5 DEF Ledger
  <2> QED
    BY <1>3, <2>1 DEF Ledger
<1> HIDE DEF M
<1>8. ledger' = M
  BY <1>1, Zenon DEF M
<1>9. Retried(l, M, stage, n, row)
  <2>1. M.halted \notin LeftOut(l)
    <3>1. LeftOut(l) \subseteq Degradable \ {l.halted}
      BY <1>4, Zenon DEF Good, StateValid
    <3> QED
      BY <1>7, <3>1
  <2>2. M.spent >= Len(M.calls)
    BY <1>3, <1>7, Zenon
  <2>3. row.reason # "none" /\ l.calls[n].end # "cut_refused" /\ MayReserve(l.rows, stage, l.calls[n], row.reason)
    BY <1>1, <1>3, <1>6, Zenon
  <2> QED
    BY <1>3, <1>4, <1>6, <1>7, <2>1, <2>2, <2>3, Zenon DEF Retried
<1>10. Good(M, stage, n) /\ Pending(M.rows, stage) # {}
  BY <1>9, RetriedGood
<1>11. LeftOut(M) = LeftOut(l)
  BY <1>7, Zenon DEF LeftOut
<1>12. Whole(M)
  BY <1>3, <1>7, <1>11, Zenon DEF Whole
<1>13. Onward(M)
  <2>1. phase # "off"
    BY <1>1
  <2> QED
    BY <1>1, <1>8, <2>1, Zenon DEF Onward
<1>14. asked' \in 0 .. stage' /\ asked' <= LastStage
  BY <1>1, <1>3 DEF Stage
<1>15. asked' \notin LeftOut(M) /\ Good(M, stage', Len(M.calls)) /\ AtCall(M, stage', Len(M.calls)) /\ M.halted = 0
  BY <1>1, <1>3, <1>7, <1>10, <1>11, Zenon DEF AtCall
<1> QED
  BY <1>1, <1>12, <1>13, <1>14, <1>15, AskingNext

\* A failure with no retry left leaves the stage out.
LEMMA OmitKeeps ==
    ASSUME IInv, phase = "flight", NEW end \in End, NEW l, Landed(l, end), stage \in Degradable,
           \A c \in ToSet(StageCalls(l.calls, stage)) : ~Usable(c),
           \/ FailureReason(Last(l.calls)) = "none" \/ end = "cut_refused"
           \/ ~MayReserve(l.rows, stage, Last(l.calls), FailureReason(Last(l.calls))),
           Advance([l EXCEPT !.left = Append(@, [stage |-> stage, ids |-> Proof(l)])]),
           asked' = 0, prior' = prior, reuse' = reuse, receipt' = receipt
    PROVE  IInv'
<1> DEFINE n == Len(l.calls)
           mine == StageCalls(l.calls, stage)
           d == [stage |-> stage, ids |-> Proof(l)]
           M == [l EXCEPT !.left = Append(@, d)]
<1>1. ledger' = M /\ stage' = stage + 1 /\ phase' = "stage"
  BY Zenon DEF Advance
<1>2. /\ Whole(l) /\ LastEnded(l, stage, n) /\ l.halted = 0 /\ l \in Ledger
      /\ l.calls[n].end = end /\ stage \notin LeftOut(l) /\ Last(l.calls) = l.calls[n]
      /\ stage \in Stage /\ LastStage \in Nat /\ stage \in Nat /\ l.spent >= n
  BY LandedWhole
<1>3. Proof(l) = [i \in DOMAIN mine |-> mine[i].id]
  BY Zenon DEF Proof
<1>4. d \in [stage : Degradable, ids : Seq(Nat)]
  <2>1. mine \in Seq(Call)
    BY <1>2, LastOfStage
  <2> HIDE DEF mine
  <2>2. \A i \in DOMAIN mine : mine[i].id \in Nat
    <3>1. \A i \in DOMAIN mine : mine[i] \in Call
      BY <2>1
    <3> QED
      BY <3>1, CallParts
  <2>3. Proof(l) \in Seq(Nat)
    BY <1>3, <2>1, <2>2
  <2> QED
    BY <2>3
<1>5. d = [stage |-> stage, ids |-> [i \in DOMAIN mine |-> mine[i].id]]
  BY <1>3
<1> HIDE DEF d
<1>6. /\ M \in Ledger /\ M.calls = l.calls /\ M.left = Append(l.left, d) /\ M.rows = l.rows
      /\ M.halted = l.halted /\ M.spent = l.spent /\ M.interrupted = l.interrupted
  <2>1. Append(l.left, d) \in Seq([stage : Degradable, ids : Seq(Nat)])
    BY <1>2, <1>4 DEF Ledger
  <2> QED
    BY <1>2, <2>1 DEF Ledger
<1> HIDE DEF M
<1>7. Omitted(l, M, stage, n)
  BY <1>2, <1>5, <1>6, Zenon DEF Omitted
<1>8. Good(M, stage + 1, n) /\ AtCall(M, stage + 1, n) /\ LeftOut(M) = LeftOut(l) \union {stage}
  BY <1>7, OmittedGood
<1>9. Whole(M)
  <2>1. LeftOut(prior) \subseteq LeftOut(M)
    <3>1. LeftOut(prior) \subseteq LeftOut(l)
      BY <1>2, Zenon DEF Whole
    <3> QED
      BY <1>8, <3>1
  <2> QED
    BY <1>2, <1>6, <2>1, Zenon DEF Whole
<1>10. Onward(M)
  <2>1. phase # "off"
    OBVIOUS
  <2> QED
    BY <1>1, <2>1, Zenon DEF Onward
<1>11. asked' \in 0 .. stage' /\ asked' <= LastStage
  BY <1>1, <1>2
<1>12. asked' \notin LeftOut(M)
  <2>1. LeftOut(M) \subseteq Degradable
    <3>1. LeftOut(M) \subseteq Degradable \ {M.halted}
      BY <1>8, Zenon DEF Good, StateValid
    <3> QED
      BY <3>1
  <2>2. 0 \notin Degradable
    BY StageAssumption
  <2> QED
    BY <2>1, <2>2
<1>13. Good(M, stage', Len(M.calls)) /\ AtCall(M, stage', Len(M.calls)) /\ M.halted = 0
  BY <1>1, <1>2, <1>6, <1>8, Zenon
<1> QED
  BY <1>1, <1>9, <1>10, <1>11, <1>12, <1>13, AskingNext

\* The stage at work is where the run stops.
LEMMA HaltKeeps ==
    ASSUME IInv, NEW l, NEW n, Good(l, stage, n), Whole(l), stage \in Stage, Halt(l, stage), phase # "off",
           asked \notin LeftOut(l)
    PROVE  IInv'
<1>1. /\ ledger' = [l EXCEPT !.halted = stage] /\ phase' = "halting"
      /\ stage' = stage /\ asked' = asked /\ prior' = prior /\ reuse' = reuse /\ receipt' = receipt
  BY Zenon DEF Halt
<1>2. l \in Ledger
  BY Zenon DEF Good
<1>3. Marked(l, ledger') /\ ledger'.halted = stage
  BY <1>1, <1>2, HaltMarks
<1>4. stage \notin LeftOut(l)
  <2>1. stage \in Nat /\ stage <= stage
    BY DEF Stage
  <2> QED
    BY <2>1, FrontierKept
<1>5. Good(ledger', stage, n)
  BY <1>3, <1>4, MarkedGood
<1>6. Whole(ledger') /\ asked \notin LeftOut(ledger')
  BY <1>3, MarkedWhole, Zenon DEF Marked
<1>7. Onward(ledger')
  BY <1>1, Zenon DEF Onward
<1> QED
  BY <1>1, <1>3, <1>5, <1>6, <1>7, StoppingNext

\* A failure with no retry left.
LEMMA FailKeeps ==
    ASSUME IInv, NEW end \in Failures, Fail(end)
    PROVE  IInv'
<1> DEFINE l == Ended(end, BlockedBy(end))
           omitted == /\ stage \in Degradable /\ end # "overrun"
                      /\ \A c \in ToSet(StageCalls(l.calls, stage)) : ~Usable(c)
<1>1. /\ phase = "flight"
      /\ \/ FailureReason(Last(l.calls)) = "none" \/ end = "cut_refused"
         \/ ~MayReserve(l.rows, stage, Last(l.calls), FailureReason(Last(l.calls)))
      /\ IF omitted
         THEN /\ Advance([l EXCEPT !.left = Append(@, [stage |-> stage, ids |-> Proof(l)])])
              /\ asked' = 0 /\ prior' = prior /\ reuse' = reuse /\ receipt' = receipt
         ELSE Halt(l, stage)
  BY Zenon DEF Fail
<1>2. end \in End
  BY DEF End, Failures
<1>3. Landed(l, end)
  <2>1. BlockedBy(end) \in BOOLEAN
    BY DEF BlockedBy
  <2>2. Landing(l, end)
    BY <1>1, <1>2, <2>1, EndedLands
  <2> QED
    BY <1>1, <1>2, <2>2, LandingLands
<1> HIDE DEF l
<1>4. CASE omitted
  BY <1>1, <1>2, <1>3, <1>4, OmitKeeps
<1>5. CASE ~omitted
  <2>1. /\ Whole(l) /\ Good(l, stage, Len(l.calls)) /\ stage \in Stage /\ asked = stage /\ stage \notin LeftOut(l)
    BY <1>3, LandedWhole
  <2>2. asked \notin LeftOut(l) /\ Halt(l, stage)
    BY <1>1, <1>5, <2>1
  <2>3. phase # "off"
    BY <1>1
  <2> QED
    BY <2>1, <2>2, <2>3, HaltKeeps
<1> QED
  BY <1>4, <1>5

\* A final report with unbound numbers.
LEMMA RefuseNumbersKeeps ==
    ASSUME IInv, RefuseNumbers
    PROVE  IInv'
<1> DEFINE M == Ended("numbers", FALSE)
           n == Len(M.calls)
<1>1. /\ phase = "flight" /\ stage = LastStage /\ ledger' = M /\ phase' = "refused"
      /\ stage' = stage /\ asked' = asked /\ prior' = prior /\ reuse' = reuse /\ receipt' = receipt
  BY Zenon DEF RefuseNumbers
<1>2. Landed(M, "numbers")
  <2>1. "numbers" \in End /\ FALSE \in BOOLEAN
    BY DEF End
  <2>2. Landing(M, "numbers")
    BY <1>1, <2>1, EndedLands
  <2> QED
    BY <1>1, <2>1, <2>2, LandingLands
<1> HIDE DEF M
<1>3. /\ Whole(M) /\ LastEnded(M, stage, n) /\ M.halted = 0 /\ Good(M, stage, n)
      /\ M.calls[n].end = "numbers" /\ asked = stage /\ stage \notin LeftOut(M)
  BY <1>2, LandedWhole
<1>4. Good(M, LastStage, n) /\ Refused(M, n)
  BY <1>1, <1>3, Zenon DEF LastEnded, Refused
<1>5. Onward(M)
  <2>1. phase # "off"
    BY <1>1
  <2> QED
    BY <1>1, <2>1, Zenon DEF Onward
<1>6. phase' \in {"refused", "repairing"} /\ phase' # "repairing"
  BY <1>1
<1>7. asked \notin LeftOut(M)
  BY <1>3, Zenon
<1> QED
  BY <1>1, <1>3, <1>4, <1>5, <1>6, <1>7, RefusingNext

---------------------------------------------------------------------------
(* The final report with unbound numbers. *)

\* A report refused at the end of the n calls of the blocks.
Reports(n) ==
    /\ Good(ledger, LastStage, n) /\ Refused(ledger, n) /\ Whole(ledger) /\ ledger.halted = 0
    /\ stage = LastStage /\ asked = stage /\ asked \notin LeftOut(ledger) /\ stage \in Stage
    /\ prior \in Ledger /\ ledger \in Ledger
    /\ phase = "repairing" => n + 1 = Len(ledger.calls)

\* From the invariant.
LEMMA ReportsSomewhere ==
    ASSUME IInv, phase \in {"refused", "repairing"}
    PROVE  \E n : Reports(n)
<1>1. phase # "off" /\ phase # "stage" /\ phase # "halting" /\ phase # "flight"
  OBVIOUS
<1>2. Held /\ Refusing
  BY <1>1, Zenon DEF IInv, Replaying, Working, Asking, Passed, InFlight, Stopping
<1>3. PICK n \in 0 .. Len(ledger.calls) :
          /\ Good(ledger, LastStage, n) /\ Refused(ledger, n)
          /\ phase = "repairing" => n + 1 = Len(ledger.calls)
  BY <1>2, Zenon DEF Refusing
<1>4. stage = LastStage /\ asked = stage
  BY <1>2, Zenon DEF Refusing
<1>5. Whole(ledger) /\ ledger.halted = 0
  BY <1>1, <1>2, Zenon DEF Held, Whole
<1>6. stage \in Stage
  BY <1>4, StageAssumption DEF Stage
<1>7. asked \notin LeftOut(ledger)
  BY Zenon DEF IInv
<1>8. prior \in Ledger /\ ledger \in Ledger
  BY <1>3, PriorLedger, Zenon DEF Good
<1>9. Reports(n)
  BY <1>3, <1>4, <1>5, <1>6, <1>7, <1>8, Zenon DEF Reports
<1> QED
  BY <1>9

\* One more call with a new identity.
LEMMA AppendIdentified ==
    ASSUME NEW L, L.calls \in Seq(Call), Identified(L), NEW c \in Call, c.id \notin IdsOf(L.calls), c.id # NoCall,
           NEW M, M.calls = Append(L.calls, c)
    PROVE  Identified(M)
<1> DEFINE n == Len(L.calls)
<1>1. n \in Nat /\ DOMAIN L.calls = 1 .. n
  OBVIOUS
<1>2. DOMAIN M.calls = 1 .. n + 1 /\ M.calls[n + 1] = c /\ \A i \in 1 .. n : M.calls[i] = L.calls[i]
  <2>1. \A s \in Seq(Call) : /\ DOMAIN Append(s, c) = 1 .. Len(s) + 1 /\ Append(s, c)[Len(s) + 1] = c
                             /\ \A i \in 1 .. Len(s) : Append(s, c)[i] = s[i]
    OBVIOUS
  <2> QED
    BY <2>1, Zenon
<1>3. \A i \in 1 .. n : L.calls[i].id \in IdsOf(L.calls)
  BY <1>1, IdsIndex
<1>4. \A i \in 1 .. n : L.calls[i].id # c.id /\ L.calls[i].id # NoCall
  BY <1>1, <1>3, Zenon DEF Identified
<1>5. \A i, j \in 1 .. n : L.calls[i].id = L.calls[j].id => i = j
  BY <1>1, Zenon DEF Identified
<1>6. \A i \in 1 .. n + 1 : i = n + 1 \/ i \in 1 .. n
  BY <1>1
<1> HIDE DEF n
<1>7. ASSUME NEW i \in 1 .. n + 1 PROVE M.calls[i].id # NoCall
  BY <1>2, <1>4, <1>6, Zenon
<1>8. ASSUME NEW i \in 1 .. n + 1, NEW j \in 1 .. n + 1, M.calls[i].id = M.calls[j].id PROVE i = j
  BY <1>2, <1>4, <1>5, <1>6, <1>8, Zenon
<1> QED
  BY <1>2, <1>7, <1>8, Zenon DEF Identified

\* The row of a sentence repair.
RepairOf(n, id) == [stage |-> LastStage, reason |-> "numbers", failed |-> Last(ledger.calls).id, retry |-> id]

\* It may be granted once.
LEMMA RepairMay ==
    ASSUME NEW n, Reports(n), ~Repaired(ledger), MayReserve(ledger.rows, LastStage, Last(ledger.calls), "numbers"),
           NEW id \in Nat
    PROVE  /\ n = Len(ledger.calls) /\ n \in Nat /\ n > 0 /\ ledger.calls \in Seq(Call) /\ ledger.rows \in Seq(Row)
           /\ (\A r \in ToSet(ledger.rows) : Plain(r)) /\ Len(ledger.rows) < MaxExtra
           /\ RepairOf(n, id) \in Row /\ ~Plain(RepairOf(n, id))
           /\ RepairOf(n, id).stage = LastStage /\ RepairOf(n, id).failed = ledger.calls[n].id
           /\ RepairOf(n, id).retry = id
<1>1. /\ Good(ledger, LastStage, n) /\ Refused(ledger, n) /\ stage = LastStage /\ stage \in Stage
  BY Zenon DEF Reports
<1>2. \A r \in ToSet(ledger.rows) : Plain(r)
  BY Zenon DEF Repaired, Plain
<1>3. n = Len(ledger.calls)
  BY <1>1, <1>2, Zenon DEF Good, RepairLast
<1>4. n \in Nat /\ ledger.calls \in Seq(Call) /\ ledger.rows \in Seq(Row) /\ n > 0
  <2>1. n \in Nat /\ ledger.calls \in Seq(Call) /\ ledger.rows \in Seq(Row)
    BY <1>1, GoodParts
  <2>2. n > 0
    BY <1>1, Zenon DEF Refused
  <2> QED
    BY <2>1, <2>2
<1>5. Len(ledger.rows) < MaxExtra
  BY Zenon DEF MayReserve
<1>6. Last(ledger.calls) = ledger.calls[n] /\ ledger.calls[n].id \in Nat
  <2>1. Last(ledger.calls) = ledger.calls[n]
    BY <1>3, Zenon DEF Last
  <2>2. ledger.calls[n] \in Call
    <3>1. n \in DOMAIN ledger.calls
      BY <1>3, <1>4
    <3> QED
      BY <1>4, <3>1
  <2> QED
    BY <2>1, <2>2, CallParts
<1>7. RepairOf(n, id) = [stage |-> LastStage, reason |-> "numbers", failed |-> ledger.calls[n].id, retry |-> id]
  BY <1>6, Zenon DEF RepairOf
<1>8. RepairOf(n, id) \in Row
  BY <1>1, <1>6, <1>7 DEF Row, Reason
<1> QED
  BY <1>2, <1>3, <1>4, <1>5, <1>7, <1>8 DEF Plain

\* The sentence repair is sent.
LEMMA SendRepairKeeps ==
    ASSUME IInv, SendRepair
    PROVE  IInv'
<1>1. PICK n : Reports(n)
  <2>1. phase \in {"refused", "repairing"}
    BY DEF SendRepair
  <2> QED
    BY <2>1, ReportsSomewhere
<1> DEFINE row == RepairOf(n, NewId)
           c == [id |-> NewId, stage |-> LastStage, attempt |-> 0, end |-> "open"]
<1>2. /\ phase = "refused" /\ ~Repaired(ledger)
      /\ MayReserve(ledger.rows, LastStage, Last(ledger.calls), "numbers")
      /\ ledger' = [ledger EXCEPT !.rows = Append(@, row), !.calls = Append(@, c), !.spent = @ + 1]
      /\ phase' = "repairing"
      /\ stage' = stage /\ asked' = asked /\ prior' = prior /\ reuse' = reuse /\ receipt' = receipt
  BY Zenon DEF SendRepair, RepairOf
<1>3. /\ Good(ledger, LastStage, n) /\ Refused(ledger, n) /\ Whole(ledger) /\ ledger.halted = 0
      /\ stage = LastStage /\ asked = stage /\ asked \notin LeftOut(ledger) /\ stage \in Stage
      /\ prior \in Ledger /\ ledger \in Ledger
  BY <1>1, Zenon DEF Reports
<1>4. NewId \in Nat /\ NewId # NoCall /\ NewId \notin IdsOf(prior.calls) \union IdsOf(ledger.calls)
  BY <1>3, NewIdFresh
<1>5. /\ n = Len(ledger.calls) /\ n \in Nat /\ n > 0 /\ ledger.calls \in Seq(Call) /\ ledger.rows \in Seq(Row)
      /\ (\A r \in ToSet(ledger.rows) : Plain(r)) /\ Len(ledger.rows) < MaxExtra
      /\ row \in Row /\ ~Plain(row) /\ row.stage = LastStage /\ row.failed = ledger.calls[n].id /\ row.retry = NewId
  BY <1>1, <1>2, <1>4, RepairMay
<1>6. c \in Call /\ c.id = NewId /\ c.stage = LastStage /\ c.attempt = 0
  BY <1>3, <1>4 DEF Call, End
<1> HIDE DEF row, c
<1>7. Append(ledger.calls, c) \in Seq(Call) /\ Len(Append(ledger.calls, c)) = n + 1
      /\ Append(ledger.calls, c)[n + 1] = c /\ \A i \in 1 .. n : Append(ledger.calls, c)[i] = ledger.calls[i]
  <2>1. \A s \in Seq(Call) : /\ Append(s, c) \in Seq(Call) /\ Len(Append(s, c)) = Len(s) + 1
                             /\ Append(s, c)[Len(s) + 1] = c
                             /\ \A i \in 1 .. Len(s) : Append(s, c)[i] = s[i]
    BY <1>6
  <2> QED
    BY <1>5, <2>1, Zenon
<1>8. Append(ledger.rows, row) \in Seq(Row)
  BY <1>5
<1> DEFINE M == [ledger EXCEPT !.rows = Append(@, row), !.calls = Append(@, c), !.spent = @ + 1]
<1>9. /\ M \in Ledger /\ M.calls = Append(ledger.calls, c) /\ M.left = ledger.left /\ M.rows = Append(ledger.rows, row)
      /\ M.halted = ledger.halted /\ M.spent = ledger.spent + 1 /\ M.interrupted = ledger.interrupted
  <2>1. ledger.spent + 1 \in Nat
    BY <1>3 DEF Ledger
  <2> QED
    BY <1>3, <1>7, <1>8, <2>1 DEF Ledger
<1>10. ledger' = M
  BY <1>2, Zenon
<1> HIDE DEF M
<1>11. Len(M.calls) = n + 1 /\ M.calls[n + 1] = c /\ \A i \in 1 .. n : M.calls[i] = ledger.calls[i]
  BY <1>7, <1>9, Zenon
<1>12. M.spent >= Len(M.calls)
  <2>1. ledger.spent >= Len(ledger.calls)
    BY <1>3, Zenon DEF Good
  <2>2. ledger.spent \in Nat
    BY <1>3 DEF Ledger
  <2> QED
    BY <1>5, <1>9, <1>11, <2>1, <2>2
<1>13. Identified(M)
  <2>1. Identified(ledger)
    BY <1>3, Zenon DEF Good
  <2>2. c.id \notin IdsOf(ledger.calls) /\ c.id # NoCall
    BY <1>4, <1>6
  <2> QED
    BY <1>5, <1>6, <1>9, <2>1, <2>2, AppendIdentified
<1>14. Repairing(ledger, M, n, row)
  <2>1. M.halted \notin LeftOut(ledger)
    <3>1. LeftOut(ledger) \subseteq Degradable \ {ledger.halted}
      BY <1>3, Zenon DEF Good, StateValid
    <3> QED
      BY <1>9, <3>1
  <2>2. ASSUME NEW t PROVE StageCalls(M.calls, t) = StageCalls(ledger.calls, t)
    <3>1. StageCalls(Append(ledger.calls, c), t) = StageCalls(ledger.calls, t)
      BY <1>5, <1>6, StageCallsAppend
    <3> QED
      BY <1>9, <3>1, Zenon
  <2>3. n \in 1 .. n
    BY <1>5
  <2>4. RepairRow(M, n, row)
    <3>1. row.failed = M.calls[n].id /\ row.retry = M.calls[n + 1].id
      BY <1>5, <1>6, <1>11, <2>3, Zenon
    <3> QED
      BY <1>5, <1>11, <3>1, Zenon DEF RepairRow
  <2>5. M.calls[n + 1].attempt = 0 /\ M.calls[n + 1].stage = LastStage /\ n <= Len(M.calls)
    BY <1>5, <1>6, <1>11
  <2> QED
    BY <1>3, <1>5, <1>9, <1>11, <1>12, <1>13, <2>1, <2>2, <2>4, <2>5, Zenon DEF Repairing
<1>15. Good(M, LastStage, n) /\ Refused(M, n)
  BY <1>14, RepairingGood
<1>16. LeftOut(M) = LeftOut(ledger)
  BY <1>9, Zenon DEF LeftOut
<1>17. Whole(M)
  <2>1. ToSet(M.calls) = ToSet(ledger.calls) \union {c}
    BY <1>5, <1>6, <1>9, ToSetAppend
  <2>2. ToSet(prior.calls) \subseteq ToSet(M.calls)
    <3>1. ToSet(prior.calls) \subseteq ToSet(ledger.calls)
      BY <1>3, Zenon DEF Whole
    <3> QED
      BY <2>1, <3>1
  <2> QED
    BY <1>3, <1>9, <1>16, <2>2, Zenon DEF Whole
<1>18. Onward(M)
  <2>1. phase # "off"
    BY <1>2
  <2> QED
    BY <1>2, <1>10, <2>1, Zenon DEF Onward
<1>19. phase' \in {"refused", "repairing"} /\ n + 1 = Len(M.calls) /\ M.halted = 0
  BY <1>2, <1>3, <1>9, <1>11
<1> QED
  BY <1>2, <1>3, <1>15, <1>16, <1>17, <1>18, <1>19, RefusingNext

\* The sentence repair is granted and not sent.
LEMMA RefuseRepairKeeps ==
    ASSUME IInv, RefuseRepair
    PROVE  IInv'
<1>1. PICK n : Reports(n)
  <2>1. phase \in {"refused", "repairing"}
    BY DEF RefuseRepair
  <2> QED
    BY <2>1, ReportsSomewhere
<1> DEFINE row == RepairOf(n, NoCall)
           M == [ledger EXCEPT !.rows = Append(@, row)]
<1>2. /\ phase = "refused" /\ ~Repaired(ledger)
      /\ MayReserve(ledger.rows, LastStage, Last(ledger.calls), "numbers")
      /\ ledger' = M /\ phase' = phase
      /\ stage' = stage /\ asked' = asked /\ prior' = prior /\ reuse' = reuse /\ receipt' = receipt
  BY Zenon DEF RefuseRepair, RepairOf
<1>3. /\ Good(ledger, LastStage, n) /\ Refused(ledger, n) /\ Whole(ledger) /\ ledger.halted = 0
      /\ stage = LastStage /\ asked = stage /\ asked \notin LeftOut(ledger) /\ stage \in Stage
      /\ prior \in Ledger /\ ledger \in Ledger
  BY <1>1, Zenon DEF Reports
<1>4. /\ n = Len(ledger.calls) /\ n \in Nat /\ n > 0 /\ ledger.calls \in Seq(Call) /\ ledger.rows \in Seq(Row)
      /\ (\A r \in ToSet(ledger.rows) : Plain(r)) /\ Len(ledger.rows) < MaxExtra
      /\ row \in Row /\ ~Plain(row) /\ row.stage = LastStage /\ row.failed = ledger.calls[n].id /\ row.retry = NoCall
  <2>1. NoCall \in Nat
    BY DEF NoCall
  <2> QED
    BY <1>1, <1>2, <2>1, RepairMay
<1> HIDE DEF row
<1>5. Append(ledger.rows, row) \in Seq(Row)
  BY <1>4
<1>6. /\ M \in Ledger /\ M.calls = ledger.calls /\ M.left = ledger.left /\ M.rows = Append(ledger.rows, row)
      /\ M.halted = ledger.halted /\ M.spent = ledger.spent /\ M.interrupted = ledger.interrupted
  BY <1>3, <1>5 DEF Ledger
<1> HIDE DEF M
<1>7. Repairing(ledger, M, n, row)
  <2>1. M.halted \notin LeftOut(ledger)
    <3>1. LeftOut(ledger) \subseteq Degradable \ {ledger.halted}
      BY <1>3, Zenon DEF Good, StateValid
    <3> QED
      BY <1>6, <3>1
  <2>2. M.spent >= Len(M.calls)
    <3>1. ledger.spent >= Len(ledger.calls)
      BY <1>3, Zenon DEF Good
    <3> QED
      BY <1>6, <3>1, Zenon
  <2>3. Identified(M)
    <3>1. Identified(ledger)
      BY <1>3, Zenon DEF Good
    <3> QED
      BY <1>6, <3>1, Zenon DEF Identified
  <2>4. RepairRow(M, n, row) /\ n = Len(M.calls)
    BY <1>4, <1>6, Zenon DEF RepairRow
  <2>5. n <= Len(M.calls)
    BY <1>4, <2>4
  <2>6. /\ \A i \in 1 .. n : M.calls[i] = ledger.calls[i]
        /\ \A t : StageCalls(M.calls, t) = StageCalls(ledger.calls, t)
    BY <1>6, Zenon
  <2> QED
    BY <1>3, <1>4, <1>6, <2>1, <2>2, <2>3, <2>4, <2>5, <2>6, Zenon DEF Repairing
<1>8. Good(M, LastStage, n) /\ Refused(M, n)
  BY <1>7, RepairingGood
<1>9. LeftOut(M) = LeftOut(ledger)
  BY <1>6, Zenon DEF LeftOut
<1>10. Whole(M)
  BY <1>3, <1>6, <1>9, Zenon DEF Whole
<1>11. Onward(M)
  <2>1. phase # "off"
    BY <1>2
  <2> QED
    BY <1>2, <2>1, Zenon DEF Onward
<1>12. phase' \in {"refused", "repairing"} /\ phase' # "repairing" /\ M.halted = 0
  BY <1>2, <1>3, <1>6
<1> QED
  BY <1>2, <1>3, <1>8, <1>9, <1>10, <1>11, <1>12, RefusingNext

\* The ledger when the sentence repair ended.
RepairOver(M, n) ==
    /\ Good(M, LastStage, n) /\ Refused(M, n) /\ Whole(M) /\ LeftOut(M) = LeftOut(ledger)
    /\ M.halted = 0 /\ n + 1 = Len(M.calls)

\* It has the report still, and an end of its repair.
LEMMA RepairLands ==
    ASSUME NEW n, Reports(n), phase = "repairing", NEW end \in End,
           NEW M \in Ledger, M.calls = WithEnd(ledger.calls, end), M.rows = ledger.rows, M.left = ledger.left,
           M.halted = ledger.halted, M.spent = ledger.spent, M.interrupted = ledger.interrupted
    PROVE  RepairOver(M, n)
<1>1. /\ Good(ledger, LastStage, n) /\ Refused(ledger, n) /\ Whole(ledger) /\ ledger.halted = 0
      /\ n + 1 = Len(ledger.calls) /\ ledger \in Ledger
  BY Zenon DEF Reports
<1>2. ledger.calls \in Seq(Call) /\ n \in Nat /\ DOMAIN ledger.calls = 1 .. n + 1
  <2>1. ledger.calls \in Seq(Call) /\ n \in Nat /\ DOMAIN ledger.calls = 1 .. Len(ledger.calls)
    BY <1>1, GoodParts
  <2> QED
    BY <1>1, <2>1
<1>3. M.calls = [ledger.calls EXCEPT ![Len(ledger.calls)].end = end]
  BY DEF WithEnd
<1>4. M.halted \notin LeftOut(ledger)
  <2>1. LeftOut(ledger) \subseteq Degradable \ {ledger.halted}
    BY <1>1, Zenon DEF Good, StateValid
  <2> QED
    BY <2>1
<1>5. \A i \in 1 .. n : M.calls[i] = ledger.calls[i]
  <2>1. \A i \in 1 .. n : i \in DOMAIN ledger.calls /\ i # n + 1
    BY <1>2
  <2>2. \A i \in DOMAIN ledger.calls : i # Len(ledger.calls) => WithEnd(ledger.calls, end)[i] = ledger.calls[i]
    BY <1>2 DEF WithEnd
  <2>3. \A i \in DOMAIN ledger.calls : i # Len(ledger.calls) => M.calls[i] = ledger.calls[i]
    BY <2>2, Zenon
  <2> QED
    BY <1>1, <2>1, <2>3, Zenon
<1>6. Patches(ledger.calls, end)
  <2>1. ledger.calls # <<>>
    BY <1>1, <1>2
  <2> QED
    BY <1>2, <2>1, WithEndIs
<1>7. M.calls \in Seq(Call) /\ Len(M.calls) = n + 1
  <2>1. /\ Front(ledger.calls) \in Seq(Call) /\ Ending(ledger.calls, end) \in Call
        /\ WithEnd(ledger.calls, end) = Append(Front(ledger.calls), Ending(ledger.calls, end))
        /\ Len(Front(ledger.calls)) = Len(ledger.calls) - 1
    BY <1>6, Zenon DEF Patches
  <2>2. /\ Append(Front(ledger.calls), Ending(ledger.calls, end)) \in Seq(Call)
        /\ Len(Append(Front(ledger.calls), Ending(ledger.calls, end))) = Len(Front(ledger.calls)) + 1
    BY <2>1, AppendLast
  <2>3. M.calls \in Seq(Call) /\ Len(M.calls) = Len(Front(ledger.calls)) + 1
    BY <2>1, <2>2, Zenon
  <2> QED
    BY <1>1, <1>2, <2>1, <2>3
<1>8. M.spent >= Len(M.calls)
  <2>1. ledger.spent >= Len(ledger.calls)
    BY <1>1, Zenon DEF Good
  <2> QED
    BY <1>1, <1>7, <2>1, Zenon
<1>9. Good(M, LastStage, n) /\ Refused(M, n)
  BY <1>1, <1>3, <1>4, <1>8, RepairedGood
<1>10. LeftOut(M) = LeftOut(ledger)
  BY Zenon DEF LeftOut
<1>11. ToSet(prior.calls) \subseteq ToSet(M.calls)
  <2>1. ASSUME NEW c \in ToSet(prior.calls) PROVE c \in ToSet(M.calls)
    <3>1. c \in ToSet(ledger.calls) /\ c.attempt > 0
      BY <1>1, <2>1, Zenon DEF Whole
    <3>2. PICK i \in DOMAIN ledger.calls : c = ledger.calls[i]
      BY <1>2, <3>1, ToSetIndex
    <3>3. n # Len(ledger.calls)
      BY <1>1, <1>2
    <3>4. ledger.calls[n + 1].attempt = 0
      BY <1>1, <3>3, Zenon DEF Good, RepairLast
    <3>5. i # n + 1
      BY <3>1, <3>2, <3>4
    <3>6. i \in 1 .. n /\ i \in 1 .. n + 1
      BY <1>2, <3>2, <3>5
    <3>7. M.calls[i] \in ToSet(M.calls)
      <4>1. i \in DOMAIN M.calls
        BY <1>7, <3>6
      <4> QED
        BY <1>7, <4>1, ToSetIndex
    <3> QED
      BY <1>5, <3>2, <3>6, <3>7, Zenon
  <2> QED
    BY <2>1
<1>12. Whole(M)
  BY <1>1, <1>10, <1>11, Zenon DEF Whole
<1> QED
  BY <1>1, <1>7, <1>9, <1>10, <1>12, Zenon DEF RepairOver

\* The sentence repair ends.
LEMMA RepairEndsKeeps ==
    ASSUME IInv, NEW end \in {"valid", "again", "lost", "cut"}, RepairEnds(end)
    PROVE  IInv'
<1> DEFINE M == [ledger EXCEPT !.calls[Len(ledger.calls)].end = end, !.blocked = BlockedBy(end)]
<1>1. /\ phase = "repairing" /\ ledger' = M
      /\ IF end = "valid" THEN phase' = "stage" /\ stage' = stage + 1 ELSE phase' = "refused" /\ stage' = stage
      /\ asked' = asked /\ prior' = prior /\ reuse' = reuse /\ receipt' = receipt
  BY Zenon DEF RepairEnds
<1>2. PICK n : Reports(n)
  <2>1. phase \in {"refused", "repairing"}
    BY <1>1
  <2> QED
    BY <2>1, ReportsSomewhere
<1>3. /\ Good(ledger, LastStage, n) /\ stage = LastStage /\ asked = stage /\ asked \notin LeftOut(ledger)
      /\ n + 1 = Len(ledger.calls) /\ ledger \in Ledger
  BY <1>1, <1>2, Zenon DEF Reports
<1>4. end \in End
  BY DEF End
<1>5. WithEnd(ledger.calls, end) \in Seq(Call)
  <2>1. ledger.calls \in Seq(Call) /\ n \in Nat
    BY <1>3, GoodParts
  <2>2. ledger.calls # <<>>
    BY <1>3, <2>1
  <2>3. Patches(ledger.calls, end)
    BY <1>4, <2>1, <2>2, WithEndIs
  <2>4. Front(ledger.calls) \in Seq(Call) /\ Ending(ledger.calls, end) \in Call
    BY <2>3, Zenon DEF Patches
  <2>5. Append(Front(ledger.calls), Ending(ledger.calls, end)) \in Seq(Call)
    BY <2>4, AppendLast
  <2> QED
    BY <2>3, <2>5, Zenon DEF Patches
<1>6. BlockedBy(end) \in BOOLEAN
  BY DEF BlockedBy
<1>7. M = [ledger EXCEPT !.calls = WithEnd(ledger.calls, end), !.blocked = BlockedBy(end)]
  BY <1>3 DEF WithEnd, Ledger
<1> HIDE DEF M
<1>8. /\ M \in Ledger /\ M.calls = WithEnd(ledger.calls, end) /\ M.rows = ledger.rows /\ M.left = ledger.left
      /\ M.halted = ledger.halted /\ M.spent = ledger.spent /\ M.interrupted = ledger.interrupted
  BY <1>3, <1>5, <1>6, <1>7 DEF Ledger
<1>9. RepairOver(M, n)
  BY <1>1, <1>2, <1>4, <1>8, RepairLands
<1>10. /\ Good(M, LastStage, n) /\ Refused(M, n) /\ Whole(M) /\ LeftOut(M) = LeftOut(ledger)
       /\ M.halted = 0 /\ n + 1 = Len(M.calls)
  BY <1>9, Zenon DEF RepairOver
<1>11. Onward(M)
  <2>1. phase # "off"
    BY <1>1
  <2> QED
    BY <1>1, <2>1, Zenon DEF Onward
<1>12. asked \notin LeftOut(M)
  BY <1>3, <1>10, Zenon
<1>13. CASE end = "valid"
  <2>1. phase' = "stage" /\ stage' = LastStage + 1 /\ asked = LastStage
    BY <1>1, <1>3, <1>13, Zenon
  <2> QED
    BY <1>1, <1>10, <1>11, <1>12, <2>1, PassedNext
<1>14. CASE end # "valid"
  <2>1. phase' \in {"refused", "repairing"} /\ phase' # "repairing" /\ stage' = stage
    BY <1>1, <1>14
  <2> QED
    BY <1>1, <1>3, <1>10, <1>11, <1>12, <2>1, RefusingNext
<1> QED
  BY <1>13, <1>14

\* The report passes with its numbers hidden, or the run stops.
LEMMA MaskKeeps ==
    ASSUME IInv, Mask
    PROVE  IInv'
<1>1. phase = "refused" /\ phase # "off" /\ phase \in {"refused", "repairing"}
  BY DEF Mask
<1>2. PICK n : Reports(n)
  BY <1>1, ReportsSomewhere
<1>3. /\ Good(ledger, LastStage, n) /\ Refused(ledger, n) /\ Whole(ledger) /\ ledger.halted = 0
      /\ stage = LastStage /\ asked = stage /\ asked \notin LeftOut(ledger) /\ stage \in Stage
  BY <1>2, Zenon DEF Reports
<1>4. CASE Advance(ledger) /\ asked' = asked /\ prior' = prior /\ reuse' = reuse /\ receipt' = receipt
  <2>1. ledger' = ledger /\ stage' = stage + 1 /\ phase' = "stage"
    BY <1>4, Zenon DEF Advance
  <2>2. Onward(ledger)
    BY <1>1, <1>4, <2>1, Zenon DEF Onward
  <2>3. stage' = LastStage + 1 /\ asked = LastStage
    BY <1>3, <2>1, Zenon
  <2> QED
    BY <1>3, <1>4, <2>1, <2>2, <2>3, PassedNext
<1>5. CASE Halt(ledger, LastStage)
  <2>1. Halt(ledger, stage) /\ Good(ledger, stage, n)
    BY <1>3, <1>5, Zenon
  <2> QED
    BY <1>1, <1>3, <2>1, HaltKeeps
<1> QED
  BY <1>4, <1>5, Zenon DEF Mask

---------------------------------------------------------------------------
(* How a process ends. *)

\* What replays a receipt writes one whatever it is stopped with.
LEMMA ReplayWrites ==
    ASSUME NEW f, ReplaysAt(f), phase \in {"stage", "halting"},
           NEW l \in Ledger, l.calls = ledger.calls, l.rows = ledger.rows, l.left = ledger.left, l.spent = ledger.spent,
           l.halted \notin LeftOut(prior), l.interrupted => l.halted # 0,
           l.halted # 0 /\ ~l.interrupted => l.halted = f,
           Stuck(prior, f, Len(prior.calls)) => l.halted = f
    PROVE  Writes(l)
<1>1. /\ f \in Nat /\ Resumes(prior, f) /\ stage \in 1 .. f /\ stage \in Nat /\ SameRows(prior, ledger)
      /\ phase = "stage" => Replayed(prior, ledger, stage)
      /\ phase = "halting" => Replayed(prior, ledger, stage + 1)
  BY Zenon DEF ReplaysAt
<1> DEFINE s == IF phase = "stage" THEN stage ELSE stage + 1
<1>2. s \in 1 .. f + 1
  BY <1>1
<1>3. Replayed(prior, ledger, s)
  BY <1>1, Zenon
<1> HIDE DEF s
<1>4. Replayed(prior, l, s)
  BY <1>3, Zenon DEF Replayed
<1>5. l.rows = prior.rows /\ l.left = prior.left /\ l.spent = prior.spent
  BY <1>1, Zenon DEF SameRows
<1>6. Interim(prior, f, l, s)
  BY <1>1, <1>2, <1>4, <1>5, Zenon DEF Interim
<1> QED
  BY <1>6, InterimWrites

\* The stage at which a ledger halted is not left out.
LEMMA HaltedKept ==
    ASSUME NEW L, NEW f, NEW n, Good(L, f, n)
    PROVE  L.halted \notin LeftOut(L)
  BY Zenon DEF Good, StateValid

\* Nor does it matter when it is stopped.
LEMMA ReplayingWrites ==
    ASSUME NEW f, ReplaysAt(f), phase \in {"stage", "halting"}
    PROVE  Writes(ledger)
<1>1. /\ Resumes(prior, f) /\ Good(prior, f, Len(prior.calls)) /\ SameRows(prior, ledger) /\ ledger \in Ledger
  BY Zenon DEF ReplaysAt
<1>2. ledger.halted = prior.halted /\ ledger.interrupted = prior.interrupted
  BY <1>1, Zenon DEF SameRows
<1>3. prior.halted \notin LeftOut(prior)
  BY <1>1, HaltedKept
<1>4. /\ prior.interrupted => prior.halted # 0
      /\ prior.halted # 0 /\ ~prior.interrupted => prior.halted = f
      /\ Stuck(prior, f, Len(prior.calls)) => prior.halted = f
  BY <1>1, Zenon DEF Resumes
<1>5. /\ ledger.halted \notin LeftOut(prior) /\ (ledger.interrupted => ledger.halted # 0)
      /\ ledger.halted # 0 /\ ~ledger.interrupted => ledger.halted = f
      /\ Stuck(prior, f, Len(prior.calls)) => ledger.halted = f
  BY <1>2, <1>3, <1>4, Zenon
<1> QED
  BY <1>1, <1>5, ReplayWrites

\* A report whose numbers were refused can be saved, halted or not.
LEMMA ReportWrites ==
    ASSUME NEW l, NEW n, Good(l, LastStage, n), Refused(l, n), ToSet(prior.calls) \subseteq ToSet(l.calls),
           (l.halted = 0 /\ ~l.interrupted) \/ l.halted = LastStage
    PROVE  Writes(l)
<1>1. LastStage \in Nat \ {0}
  BY StageAssumption
<1>2. Sealed(l, LastStage, n)
  BY <1>1 DEF Sealed
<1> QED
  BY <1>2, SealedWrites

\* What a process holds between its calls can be saved.
LEMMA StayingWrites ==
    ASSUME IInv, phase \in {"stage", "halting"}
    PROVE  Writes(ledger)
<1>1. phase # "off"
  OBVIOUS
<1>2. CASE Replaying
  <2>1. PICK f : ReplaysAt(f)
    BY <1>1, <1>2, ReplaysSomewhere
  <2> QED
    BY <2>1, ReplayingWrites
<1>3. CASE Working
  <2>1. ToSet(prior.calls) \subseteq ToSet(ledger.calls) /\ ~ledger.interrupted
    <3>1. Held /\ phase # "flight"
      BY <1>3, Zenon DEF Working
    <3> QED
      BY <3>1, Zenon DEF Held
  <2>2. CASE phase = "stage"
    <3>1. PICK n \in 0 .. Len(ledger.calls) :
             \/ /\ Good(ledger, stage, n) /\ AtCall(ledger, stage, n) /\ n = Len(ledger.calls)
             \/ /\ Passed /\ Good(ledger, LastStage, n) /\ Refused(ledger, n) /\ stage \notin Stage
      BY <1>3, <2>2, WorkingStage
    <3>2. ledger.halted = 0
      BY <1>3, <2>2, WorkingStage
    <3>3. CASE Good(ledger, stage, n) /\ AtCall(ledger, stage, n)
      BY <2>1, <3>2, <3>3, AskingWrites
    <3>4. CASE Good(ledger, LastStage, n) /\ Refused(ledger, n)
      BY <2>1, <3>2, <3>4, ReportWrites
    <3> QED
      BY <3>1, <3>3, <3>4, Zenon
  <2>3. CASE phase = "halting"
    <3>1. Stopping
      <4>1. ~Asking /\ ~Passed /\ ~InFlight /\ ~Refusing
        BY <2>3, Zenon DEF Asking, Passed, InFlight, Refusing
      <4> QED
        BY <1>3, <4>1, Zenon DEF Working
    <3>2. PICK n : Good(ledger, stage, n)
      BY <3>1, Zenon DEF Stopping
    <3>3. ledger.halted = stage /\ stage \in Nat
      <4>1. LastStage \in Nat
        BY StageAssumption
      <4> QED
        BY <3>1, <4>1 DEF Stopping, Stage
    <3>4. Sealed(ledger, stage, n)
      BY <2>1, <3>2, <3>3 DEF Sealed
    <3> QED
      BY <2>1, <3>4, SealedWrites
  <2> QED
    BY <2>2, <2>3
<1> QED
  BY <1>1, <1>2, <1>3, Zenon DEF IInv

\* The end of a run, a break and the save of a halted record keep the invariant.
LEMMA CloseKeeps ==
    ASSUME IInv, Finish \/ Break \/ Seal
    PROVE  IInv'
<1>1. phase \in {"stage", "halting"} /\ Stop(ledger)
  BY Zenon DEF Finish, Break, Seal
<1> QED
  BY <1>1, StayingWrites, StopKeeps

\* What an interruption marks is as whole as it was.
MarkedAt(L, M, s) ==
    /\ M \in Ledger /\ M.calls = L.calls /\ M.rows = L.rows /\ M.left = L.left /\ M.spent = L.spent
    /\ M.halted = s /\ M.interrupted
InterruptedAt(L, s) == [L EXCEPT !.halted = s, !.interrupted = TRUE]

\* An interruption marks the ledger so.
LEMMA MarkedIs ==
    ASSUME NEW L \in Ledger, NEW s \in Stage
    PROVE  MarkedAt(L, InterruptedAt(L, s), s)
<1>1. s \in 0 .. LastStage
  BY StageAssumption DEF Stage
<1> QED
  BY <1>1 DEF MarkedAt, InterruptedAt, Ledger

\* A good ledger that is marked at a stage not left out stays good.
LEMMA MarkedKeeps ==
    ASSUME NEW L, NEW f, NEW n, Good(L, f, n), NEW s, s \notin LeftOut(L), NEW M, MarkedAt(L, M, s)
    PROVE  Good(M, f, n)
<1>1. L.spent >= Len(L.calls)
  BY Zenon DEF Good
<1>2. M.spent >= Len(L.calls)
  BY <1>1, Zenon DEF MarkedAt
<1>3. M \in Ledger /\ M.calls = L.calls /\ M.rows = L.rows /\ M.left = L.left /\ M.halted \notin LeftOut(L)
  BY Zenon DEF MarkedAt
<1> QED
  BY <1>2, <1>3, GoodSame

\* The ledger of an interrupted process: marked, or as it is.
Interrupted(l, last) ==
    IF \/ last = 0 \/ l.halted # 0
       \/ \E r \in ToSet(l.rows) : r.stage = last /\ r.retry = NoCall
    THEN l ELSE InterruptedAt(l, last)

\* The process is interrupted with the ledger as it is, or marked.
LEMMA InterruptedIs ==
    ASSUME NEW l \in Ledger, NEW last \in 0 .. LastStage
    PROVE  \/ Interrupted(l, last) = l
           \/ l.halted = 0 /\ last \in Stage /\ MarkedAt(l, Interrupted(l, last), last)
<1>1. CASE last = 0 \/ l.halted # 0 \/ \E r \in ToSet(l.rows) : r.stage = last /\ r.retry = NoCall
  BY <1>1, Zenon DEF Interrupted
<1>2. CASE ~(last = 0 \/ l.halted # 0 \/ \E r \in ToSet(l.rows) : r.stage = last /\ r.retry = NoCall)
  <2>1. last \in Stage
    <3>1. last # 0
      BY <1>2, Zenon
    <3> QED
      BY <3>1, StageAssumption DEF Stage
  <2>2. Interrupted(l, last) = InterruptedAt(l, last)
    BY <1>2, Zenon DEF Interrupted
  <2>3. MarkedAt(l, InterruptedAt(l, last), last)
    BY <2>1, MarkedIs
  <2> QED
    BY <1>2, <2>1, <2>2, <2>3, Zenon
<1> QED
  BY <1>1, <1>2, Zenon

\* Between its calls, a process can be interrupted.
LEMMA InterruptedStaying ==
    ASSUME IInv, phase = "stage",
           NEW last \in Stage, last = asked \/ last = stage, last \notin LeftOut(ledger), ledger.halted = 0,
           NEW M, MarkedAt(ledger, M, last)
    PROVE  Writes(M)
<1>1. last \in Nat /\ last # 0 /\ phase # "off" /\ phase \in {"stage", "halting"}
  BY StageAssumption DEF Stage
<1>2. /\ M \in Ledger /\ M.calls = ledger.calls /\ M.rows = ledger.rows /\ M.left = ledger.left
      /\ M.spent = ledger.spent /\ M.halted = last /\ M.interrupted
  BY Zenon DEF MarkedAt
<1>3. CASE Replaying
  <2>1. PICK f : ReplaysAt(f)
    BY <1>1, <1>3, ReplaysSomewhere
  <2>2. /\ f \in 1 .. LastStage + 1 /\ f \in Nat /\ Resumes(prior, f) /\ SameRows(prior, ledger)
        /\ LeftOut(ledger) = LeftOut(prior)
    BY <2>1, Zenon DEF ReplaysAt
  <2>3. prior.halted = 0
    BY <2>2, Zenon DEF SameRows
  <2>4. ~Stuck(prior, f, Len(prior.calls))
    <3>1. f # 0
      BY <2>2
    <3> QED
      BY <2>2, <2>3, <3>1, Zenon DEF Resumes
  <2>5. M.halted \notin LeftOut(prior)
    BY <1>2, <2>2, Zenon
  <2>6. /\ M.interrupted => M.halted # 0
        /\ M.halted # 0 /\ ~M.interrupted => M.halted = f
        /\ Stuck(prior, f, Len(prior.calls)) => M.halted = f
    BY <1>1, <1>2, <2>4, Zenon
  <2> QED
    BY <1>1, <1>2, <2>1, <2>5, <2>6, ReplayWrites
<1>4. CASE Working
  <2>1. ToSet(prior.calls) \subseteq ToSet(M.calls)
    <3>1. Held /\ phase # "flight"
      BY <1>4, Zenon DEF Working
    <3> QED
      BY <1>2, <3>1, Zenon DEF Held
  <2>2. PICK n \in 0 .. Len(ledger.calls) :
           \/ /\ Good(ledger, stage, n) /\ AtCall(ledger, stage, n) /\ n = Len(ledger.calls)
           \/ /\ Passed /\ Good(ledger, LastStage, n) /\ Refused(ledger, n) /\ stage \notin Stage
    BY <1>4, WorkingStage
  <2>3. CASE Good(ledger, stage, n) /\ AtCall(ledger, stage, n)
    <3>1. Good(M, stage, n)
      BY <2>3, MarkedKeeps
    <3>2. AtCall(M, stage, n)
      BY <1>2, <2>3, Zenon DEF AtCall
    <3>3. (M.interrupted => M.halted # 0) /\ (M.halted = 0 \/ M.interrupted)
      BY <1>1, <1>2, Zenon
    <3> QED
      BY <2>1, <3>1, <3>2, <3>3, AskingWrites
  <2>4. CASE Passed /\ Good(ledger, LastStage, n) /\ Refused(ledger, n) /\ stage \notin Stage
    <3>1. Good(M, LastStage, n)
      BY <2>4, MarkedKeeps
    <3>2. Refused(M, n)
      BY <1>2, <2>4, Zenon DEF Refused
    <3>3. M.halted = LastStage
      <4>1. asked = LastStage /\ last # stage
        BY <2>4, Zenon DEF Passed
      <4> QED
        BY <1>2, <4>1, Zenon
    <3> QED
      BY <2>1, <3>1, <3>2, <3>3, ReportWrites
  <2> QED
    BY <2>2, <2>3, <2>4, Zenon
<1> QED
  BY <1>1, <1>3, <1>4, Zenon DEF IInv

\* So can one whose report is refused, or whose repair is under way.
LEMMA InterruptedReport ==
    ASSUME NEW l \in Ledger, NEW n, Good(l, LastStage, n), Refused(l, n), Whole(l), l.halted = 0,
           LastStage \notin LeftOut(l)
    PROVE  Writes(Interrupted(l, LastStage))
<1>1. LastStage \in 0 .. LastStage /\ ToSet(prior.calls) \subseteq ToSet(l.calls) /\ ~l.interrupted
  BY StageAssumption DEF Whole
<1> DEFINE M == Interrupted(l, LastStage)
<1>2. M = l \/ MarkedAt(l, M, LastStage)
  BY <1>1, InterruptedIs
<1> HIDE DEF M
<1>3. CASE M = l
  <2>1. Writes(l)
    BY <1>1, ReportWrites
  <2> QED
    BY <1>3, <2>1, Zenon DEF M
<1>4. CASE MarkedAt(l, M, LastStage)
  <2>1. Good(M, LastStage, n)
    BY <1>4, MarkedKeeps
  <2>2. M.calls = l.calls /\ M.halted = LastStage
    BY <1>4, Zenon DEF MarkedAt
  <2>3. Refused(M, n) /\ ToSet(prior.calls) \subseteq ToSet(M.calls)
    BY <1>1, <2>2, Zenon DEF Refused
  <2>4. Writes(M)
    BY <2>1, <2>2, <2>3, ReportWrites
  <2> QED
    BY <2>4, Zenon DEF M
<1> QED
  BY <1>2, <1>3, <1>4, Zenon

\* And one with a call in flight, whatever becomes of that call.
LEMMA InterruptedFlight ==
    ASSUME IInv, NEW M, NEW end, Landed(M, end)
    PROVE  Writes(Interrupted(M, stage))
<1>1. /\ Whole(M) /\ LastEnded(M, stage, Len(M.calls)) /\ M \in Ledger /\ M.halted = 0
      /\ Good(M, stage, Len(M.calls)) /\ stage \in Stage /\ stage \notin LeftOut(M) /\ LastStage \in Nat /\ stage \in Nat
  BY LandedWhole
<1>2. stage \in 0 .. LastStage /\ stage # 0 /\ stage >= stage
  BY <1>1 DEF Stage
<1>3. \A r \in ToSet(M.rows) : r.retry # NoCall
  BY <1>1, Zenon DEF LastEnded
<1> DEFINE N == Interrupted(M, stage)
<1>4. N = InterruptedAt(M, stage)
  BY <1>1, <1>2, <1>3, Zenon DEF Interrupted
<1>5. MarkedAt(M, N, stage)
  <2>1. MarkedAt(M, InterruptedAt(M, stage), stage)
    BY <1>1, MarkedIs
  <2> QED
    BY <1>4, <2>1, Zenon
<1> HIDE DEF N
<1>6. Good(N, stage, Len(M.calls))
  BY <1>1, <1>5, MarkedKeeps
<1>7. N.halted = stage /\ N.calls = M.calls /\ N.interrupted
  BY <1>5, Zenon DEF MarkedAt
<1>8. Sealed(N, stage, Len(M.calls))
  BY <1>2, <1>6, <1>7, Zenon DEF Sealed
<1>9. ToSet(prior.calls) \subseteq ToSet(N.calls)
  BY <1>1, <1>7, Zenon DEF Whole
<1>10. Writes(N)
  BY <1>8, <1>9, SealedWrites
<1> QED
  BY <1>10 DEF N

\* The ledger an interruption finds.
Found(end) ==
    LET ended == IF ledger.halted = 0 THEN Bound(end) ELSE Unbound(end) IN
    IF phase \in {"flight", "repairing"} THEN [ended EXCEPT !.blocked = BlockedBy(end)] ELSE ledger

\* A call in flight has landed.
LEMMA FoundFlight ==
    ASSUME IInv, phase = "flight", NEW end \in End
    PROVE  Landed(Found(end), end)
<1>1. /\ ledger \in Ledger /\ ledger.calls # <<>> /\ Binding(Last(ledger.calls).id) \in Seq(Row)
  BY FlightUnsent
<1>2. Changes(end)
  BY <1>1, BoundIs
<1>3. ledger.halted = 0
  BY FlightWorks DEF Held
<1>4. Found(end) = [Bound(end) EXCEPT !.blocked = BlockedBy(end)]
  BY <1>3, Zenon DEF Found
<1>5. BlockedBy(end) \in BOOLEAN
  BY DEF BlockedBy
<1>6. /\ Bound(end) \in Ledger
      /\ Bound(end) = [ledger EXCEPT !.calls = WithEnd(ledger.calls, end), !.rows = Binding(Last(ledger.calls).id)]
  BY <1>2, Zenon DEF Changes
<1>7. Landing(Found(end), end)
  BY <1>1, <1>4, <1>5, <1>6 DEF Landing, Ledger
<1> QED
  BY <1>7, LandingLands

\* A repair under way is over.
LEMMA FoundRepair ==
    ASSUME IInv, phase = "repairing", NEW end \in End, NEW n, Reports(n)
    PROVE  Found(end) \in Ledger /\ RepairOver(Found(end), n)
<1>1. Good(ledger, LastStage, n) /\ Refused(ledger, n) /\ ledger.halted = 0 /\ ledger \in Ledger /\ n + 1 = Len(ledger.calls)
  BY Zenon DEF Reports
<1>2. ~Waiting
  BY <1>1, RefusedWaits DEF Waiting
<1>3. ledger.calls # <<>> /\ ledger.calls \in Seq(Call) /\ ledger.rows \in Seq(Row)
  <2>1. ledger.calls \in Seq(Call) /\ ledger.rows \in Seq(Row) /\ n \in 0 .. Len(ledger.calls)
    BY <1>1 DEF Ledger, Good
  <2> QED
    BY <1>1, <2>1
<1>4. Binding(Last(ledger.calls).id) = ledger.rows
  BY <1>2, Zenon DEF Binding
<1>5. Changes(end)
  BY <1>1, <1>3, <1>4, BoundIs
<1>6. /\ Bound(end) \in Ledger
      /\ Bound(end) = [ledger EXCEPT !.calls = WithEnd(ledger.calls, end), !.rows = Binding(Last(ledger.calls).id)]
  BY <1>5, Zenon DEF Changes
<1>7. Found(end) = [Bound(end) EXCEPT !.blocked = BlockedBy(end)]
  BY <1>1, Zenon DEF Found
<1>8. BlockedBy(end) \in BOOLEAN
  BY DEF BlockedBy
<1>9. /\ Found(end) \in Ledger /\ Found(end).calls = WithEnd(ledger.calls, end) /\ Found(end).rows = ledger.rows
      /\ Found(end).left = ledger.left /\ Found(end).halted = ledger.halted
      /\ Found(end).spent = ledger.spent /\ Found(end).interrupted = ledger.interrupted
  BY <1>1, <1>4, <1>6, <1>7, <1>8 DEF Ledger
<1> QED
  BY <1>9, RepairLands

\* An interruption keeps the invariant, in whatever phase it comes.
LEMMA InterruptKeeps ==
    ASSUME IInv, Interrupt
    PROVE  IInv'
<1>1. PICK end \in End, last \in {asked} \union (IF phase = "stage" /\ stage \in Stage \ LeftOut(ledger) THEN {stage} ELSE {}) :
         Stop(Interrupted(Found(end), last))
  <2>1. {"valid", "cut", "error"} \subseteq End /\ {"error"} \subseteq End
    BY DEF End
  <2>2. \E end \in IF phase \in {"flight", "repairing"} THEN {"valid", "cut", "error"} ELSE {"error"},
           last \in {asked} \union (IF phase = "stage" /\ stage \in Stage \ LeftOut(ledger) THEN {stage} ELSE {}) :
              Stop(Interrupted(Found(end), last))
    BY Zenon DEF Interrupt, Interrupted, Found, InterruptedAt
  <2> QED
    BY <2>1, <2>2, Zenon
<1>2. phase # "off"
  BY Zenon DEF Interrupt
<1>3. asked \in 0 .. LastStage /\ asked \notin LeftOut(ledger) /\ LastStage \in Nat
  BY StageAssumption DEF IInv
<1>4. Writes(Interrupted(Found(end), last))
  <2>1. CASE phase \in {"stage", "halting"}
    <3>1. Found(end) = ledger
      BY <2>1, Zenon DEF Found
    <3>2. last \in 0 .. LastStage /\ last \notin LeftOut(ledger) /\ (last = asked \/ last = stage)
      BY <1>1, <1>3, <2>1 DEF Stage
    <3>3. ledger \in Ledger
      <4>1. CASE Replaying
        BY <4>1, Zenon DEF Replaying
      <4>2. CASE Working
        <5>1. Asking \/ Passed \/ Stopping
          BY <2>1, <4>2 DEF Working, InFlight, Refusing
        <5> QED
          BY <5>1 DEF Asking, Passed, Stopping, Good
      <4> QED
        BY <1>2, <4>1, <4>2, Zenon DEF IInv
    <3>4. Writes(ledger)
      BY <2>1, StayingWrites
    <3>5. CASE phase = "stage"
      <4>1. \/ Interrupted(ledger, last) = ledger
            \/ ledger.halted = 0 /\ last \in Stage /\ MarkedAt(ledger, Interrupted(ledger, last), last)
        BY <3>2, <3>3, InterruptedIs
      <4>2. CASE ledger.halted = 0 /\ last \in Stage /\ MarkedAt(ledger, Interrupted(ledger, last), last)
        <5>1. Writes(Interrupted(ledger, last))
          BY <3>2, <3>5, <4>2, InterruptedStaying
        <5> QED
          BY <3>1, <5>1, Zenon
      <4> QED
        BY <3>1, <3>4, <4>1, <4>2, Zenon
    <3>6. CASE phase = "halting"
      <4>1. ledger.halted # 0
        <5>1. CASE Replaying
          <6>1. PICK f : ReplaysAt(f)
            BY <1>2, <5>1, ReplaysSomewhere
          <6>2. SameRows(prior, ledger) /\ stage = prior.halted /\ stage \in 1 .. f
            BY <3>6, <6>1, Zenon DEF ReplaysAt
          <6>3. ledger.halted = stage
            BY <6>2, Zenon DEF SameRows
          <6> QED
            BY <6>2, <6>3
        <5>2. CASE Working
          <6>1. ~Asking /\ ~Passed /\ ~InFlight /\ ~Refusing
            BY <3>6, Zenon DEF Asking, Passed, InFlight, Refusing
          <6>2. ledger.halted = stage /\ stage \in Stage
            BY <5>2, <6>1, Zenon DEF Working, Stopping
          <6> QED
            BY <6>2, StageAssumption DEF Stage
        <5> QED
          BY <1>2, <5>1, <5>2, Zenon DEF IInv
      <4>2. Interrupted(ledger, last) = ledger
        BY <4>1, Zenon DEF Interrupted
      <4> QED
        BY <3>1, <3>4, <4>2, Zenon
    <3> QED
      BY <2>1, <3>5, <3>6
  <2>2. CASE phase \in {"refused", "repairing"}
    <3>1. PICK n : Reports(n)
      BY <2>2, ReportsSomewhere
    <3>2. last = LastStage /\ LastStage \notin LeftOut(ledger)
      <4>1. last = asked
        BY <1>1, <2>2
      <4>2. asked = stage /\ stage = LastStage
        BY <3>1, Zenon DEF Reports
      <4> QED
        BY <1>3, <4>1, <4>2, Zenon
    <3>3. CASE phase = "refused"
      <4>1. Found(end) = ledger
        BY <3>3 DEF Found
      <4>2. /\ Good(ledger, LastStage, n) /\ Refused(ledger, n) /\ Whole(ledger) /\ ledger.halted = 0
            /\ ledger \in Ledger
        BY <3>1, Zenon DEF Reports
      <4>3. Writes(Interrupted(ledger, LastStage))
        BY <3>2, <4>2, InterruptedReport
      <4> QED
        BY <3>2, <4>1, <4>3, Zenon
    <3>4. CASE phase = "repairing"
      <4>1. Found(end) \in Ledger /\ RepairOver(Found(end), n)
        BY <3>1, <3>4, FoundRepair
      <4>2. /\ Good(Found(end), LastStage, n) /\ Refused(Found(end), n) /\ Whole(Found(end))
            /\ LeftOut(Found(end)) = LeftOut(ledger) /\ Found(end).halted = 0
        BY <4>1, Zenon DEF RepairOver
      <4>3. LastStage \notin LeftOut(Found(end))
        BY <3>2, <4>2, Zenon
      <4>4. Writes(Interrupted(Found(end), LastStage))
        BY <4>1, <4>2, <4>3, InterruptedReport
      <4> QED
        BY <3>2, <4>4, Zenon
    <3> QED
      BY <2>2, <3>3, <3>4
  <2>3. CASE phase = "flight"
    <3>1. Landed(Found(end), end)
      BY <2>3, FoundFlight
    <3>2. last = stage
      <4>1. last = asked
        BY <1>1, <2>3
      <4>2. asked = stage
        BY <3>1, Zenon DEF Landed
      <4> QED
        BY <4>1, <4>2
    <3>3. Writes(Interrupted(Found(end), stage))
      BY <3>1, InterruptedFlight
    <3> QED
      BY <3>2, <3>3, Zenon
  <2>4. phase \in {"stage", "flight", "refused", "repairing", "halting"}
    BY <1>2, Zenon DEF IInv
  <2> QED
    BY <2>1, <2>2, <2>3, <2>4
<1> QED
  BY <1>1, <1>4, StopKeeps

---------------------------------------------------------------------------
(* The invariant. *)

\* Nothing has run yet.
LEMMA InitHolds ==
    ASSUME Init
    PROVE  IInv
<1>1. /\ phase = "off" /\ stage = 1 /\ asked = 0 /\ ledger = Fresh /\ prior = Fresh /\ reuse = <<>> /\ receipt = None
  BY Zenon DEF Init
<1>2. LastStage \in Nat \ {0}
  BY StageAssumption
<1>3. LeftOut(Fresh) = {}
  BY DEF LeftOut, Fresh, ToSet
<1>4. stage \in 1 .. LastStage + 1 /\ asked \in 0 .. stage /\ asked <= LastStage
  BY <1>1, <1>2
<1>5. asked \notin LeftOut(ledger)
  BY <1>1, <1>3, Zenon
<1> QED
  BY <1>1, <1>4, <1>5, Zenon DEF IInv

\* A process that is killed leaves the receipt as it was.
LEMMA KillKeeps ==
    ASSUME IInv, Kill
    PROVE  IInv'
<1>1. /\ phase' = "off" /\ stage' = 1 /\ asked' = 0 /\ ledger' = Fresh /\ prior' = Fresh /\ reuse' = <<>>
      /\ receipt' = receipt
  BY Zenon DEF Kill, Gone
<1>2. LastStage \in Nat \ {0}
  BY StageAssumption
<1>3. LeftOut(Fresh) = {}
  BY DEF LeftOut, Fresh, ToSet
<1>4. stage' \in 1 .. LastStage + 1 /\ asked' \in 0 .. stage' /\ asked' <= LastStage
  BY <1>1, <1>2
<1>5. asked' \notin LeftOut(ledger')
  BY <1>1, <1>3, Zenon
<1>6. receipt' # None => \E f \in 1 .. LastStage + 1, n \in 0 .. Len(receipt'.calls) : Sealed(receipt', f, n)
  BY <1>1, Zenon DEF IInv
<1> QED
  BY <1>1, <1>4, <1>5, <1>6, Zenon DEF IInv

\* Every step of a run keeps the invariant.
LEMMA WorkKeeps ==
    ASSUME IInv, Work
    PROVE  IInv'
<1>1. CASE SkipLeftOut \/ MeetHalted \/ MeetLostGenerations
  BY <1>1, SkipKeeps, MeetKeeps, LostKeeps
<1>2. CASE Take \/ Send \/ Refuse
  BY <1>2, TakeKeeps, SendKeeps, RefuseKeeps
<1>3. CASE Accept \/ RefuseNumbers
  BY <1>3, AcceptKeeps, RefuseNumbersKeeps
<1>4. CASE \E end \in Failures : Retry(end) \/ Fail(end)
  <2>1. PICK end \in Failures : Retry(end) \/ Fail(end)
    BY <1>4
  <2> QED
    BY <2>1, RetryKeeps, FailKeeps
<1>5. CASE SendRepair \/ RefuseRepair \/ Mask
  BY <1>5, SendRepairKeeps, RefuseRepairKeeps, MaskKeeps
<1>6. CASE Finish \/ Seal
  BY <1>6, CloseKeeps
<1>7. CASE \E end \in {"valid", "again", "lost", "cut"} : RepairEnds(end)
  <2>1. PICK end \in {"valid", "again", "lost", "cut"} : RepairEnds(end)
    BY <1>7
  <2> QED
    BY <2>1, RepairEndsKeeps
<1> QED
  BY <1>1, <1>2, <1>3, <1>4, <1>5, <1>6, <1>7, Zenon DEF Work

\* So does every step of any process.
LEMMA NextKeeps ==
    ASSUME IInv, [Next]_vars, ~ResumesMasked, ~ResumesForgotten
    PROVE  IInv'
<1>1. CASE Start
  BY <1>1, StartKeeps
<1>2. CASE Work
  BY <1>2, WorkKeeps
<1>3. CASE Interrupt
  BY <1>3, InterruptKeeps
<1>4. CASE Break
  BY <1>4, CloseKeeps
<1>5. CASE Kill
  BY <1>5, KillKeeps
<1>6. CASE UNCHANGED vars
  <2>1. /\ phase' = phase /\ stage' = stage /\ asked' = asked /\ ledger' = ledger /\ prior' = prior /\ reuse' = reuse
        /\ receipt' = receipt
    BY <1>6 DEF vars
  <2>2. Unsent' = Unsent /\ (Waiting <=> Waiting')
    BY <2>1, Zenon DEF Unsent, Waiting
  <2>3. Replaying => Replaying'
    BY <2>1, Zenon DEF Replaying
  <2>4. Held => Held'
    BY <2>1, <2>2, Zenon DEF Held
  <2>5. (Asking => Asking') /\ (Passed => Passed')
    BY <2>1, Zenon DEF Asking, Passed
  <2>6. InFlight => InFlight'
    BY <2>1, <2>2, Zenon DEF InFlight
  <2>7. (Refusing => Refusing') /\ (Stopping => Stopping')
    BY <2>1, Zenon DEF Refusing, Stopping
  <2>8. Working => Working'
    BY <2>4, <2>5, <2>6, <2>7, Zenon DEF Working
  <2> QED
    BY <2>1, <2>3, <2>8, Zenon DEF IInv
<1> QED
  BY <1>1, <1>2, <1>3, <1>4, <1>5, <1>6, Zenon DEF Next

\* The inductive invariant holds of every run that does not resume a run that
\* masked its report, nor a receipt that a replay left without its answers.
THEOREM Invariant ==
    ASSUME ~ResumesMasked, ~ResumesForgotten
    PROVE  Spec => []IInv
<1>1. Init => IInv
  BY InitHolds
<1>2. IInv /\ [Next]_vars => IInv'
  BY NextKeeps
<1> QED
  BY <1>1, <1>2, PTL DEF Spec

---------------------------------------------------------------------------
(* What the invariant gives. *)

\* The receipt loads.
LEMMA ReceiptHolds ==
    ASSUME IInv
    PROVE  ReceiptLoads
<1>1. CASE receipt = None
  BY <1>1, Zenon DEF ReceiptLoads
<1>2. CASE receipt # None
  <2>1. PICK f, n : Sealed(receipt, f, n)
    BY <1>2, Zenon DEF IInv
  <2>2. Good(receipt, f, n)
    BY <2>1, Zenon DEF Sealed
  <2>3. receipt \in Ledger /\ Loads(receipt)
    BY <2>2, GoodLoads
  <2> QED
    BY <2>3, Zenon DEF ReceiptLoads
<1> QED
  BY <1>1, <1>2

\* The next answer to take over is that of the stage at work.
LEMMA AnswersInOrder ==
    ASSUME IInv
    PROVE  TakesOverInOrder
<1>1. SUFFICES ASSUME phase = "stage", stage \notin LeftOut(ledger), IsOpen(stage), reuse # <<>>
               PROVE  Head(reuse).stage = stage /\ Head(reuse).end = "valid"
  BY Zenon DEF TakesOverInOrder
<1>2. phase # "off"
  BY <1>1
<1>3. Replaying
  BY <1>1, <1>2, Zenon DEF IInv, Working, Held
<1>4. PICK f : ReplaysAt(f)
  BY <1>2, <1>3, ReplaysSomewhere
<1>5. /\ Resumes(prior, f) /\ stage \in 1 .. f /\ SameRows(prior, ledger) /\ LeftOut(ledger) = LeftOut(prior)
      /\ Reuses(prior, f, reuse, stage)
  BY <1>1, <1>4, Zenon DEF ReplaysAt
<1>6. prior.halted # stage
  BY <1>1, <1>5, Zenon DEF SameRows, IsOpen
<1>7. stage \notin LeftOut(prior)
  BY <1>1, <1>5
<1> QED
  BY <1>1, <1>5, <1>6, <1>7, NextAnswer

\* A replay that reached the end of the receipt has all of its calls.
LEMMA ReplayedGood ==
    ASSUME NEW f, ReplaysAt(f), NEW s \in Nat, f <= s - 1 \/ s = LastStage + 1, Replayed(prior, ledger, s)
    PROVE  Good(ledger, f, Len(prior.calls))
<1>1. /\ f \in Nat /\ Good(prior, f, Len(prior.calls)) /\ ledger \in Ledger /\ SameRows(prior, ledger) /\ LastStage \in Nat
  BY Zenon DEF ReplaysAt
<1>2. \A i \in 1 .. Len(prior.calls) : prior.calls[i].stage < s
  <2>1. Sorted(prior, f, Len(prior.calls)) /\ prior \in Ledger
    BY <1>1, Zenon DEF Good
  <2>2. prior.calls \in Seq(Call)
    BY <2>1 DEF Ledger
  <2> TAKE i \in 1 .. Len(prior.calls)
  <2>3. prior.calls[i] \in Call
    BY <2>2
  <2>4. prior.calls[i].stage \in Nat /\ prior.calls[i].stage <= LastStage
    BY <1>1, <2>3 DEF Call, Stage
  <2>5. prior.calls[i].stage <= f
    BY <2>1, Zenon DEF Sorted
  <2> QED
    BY <1>1, <2>4, <2>5
<1>3. ledger.calls = prior.calls
  BY <1>1, <1>2, ReplayedAll
<1>4. ledger.rows = prior.rows /\ ledger.left = prior.left /\ ledger.halted = prior.halted /\ ledger.spent = prior.spent
  BY <1>1, Zenon DEF SameRows
<1>5. prior.halted \notin LeftOut(prior) /\ prior.spent >= Len(prior.calls)
  BY <1>1, HaltedKept, Zenon DEF Good
<1>6. ledger.halted \notin LeftOut(prior) /\ ledger.spent >= Len(prior.calls)
  BY <1>4, <1>5, Zenon
<1> QED
  BY <1>1, <1>3, <1>4, <1>6, GoodSame

\* The ledger of a run that completed is one its reader accepts.
LEMMA CompleteHolds ==
    ASSUME IInv
    PROVE  CompleteProven
<1>1. SUFFICES ASSUME phase = "stage", stage = LastStage + 1
               PROVE  CompleteReads(ledger, ExchangedBefore(ledger, LastStage + 1))
  BY Zenon DEF CompleteProven
<1>2. phase # "off"
  BY <1>1
<1>3. \E f, n : Good(ledger, f, n) /\ Done(ledger, f, n) /\ ledger.halted = 0
  <2>1. CASE Replaying
    <3>1. PICK f : ReplaysAt(f)
      BY <1>2, <2>1, ReplaysSomewhere
    <3>2. /\ f \in 1 .. LastStage + 1 /\ f \in Nat /\ stage \in 1 .. f /\ stage \in Nat /\ SameRows(prior, ledger)
          /\ prior.halted \in 0 .. LastStage /\ (prior.halted # 0 => stage <= prior.halted) /\ LastStage \in Nat
          /\ Replayed(prior, ledger, stage)
      BY <1>1, <3>1, Zenon DEF ReplaysAt
    <3>3. f = LastStage + 1 /\ prior.halted = 0
      BY <1>1, <3>2
    <3>4. Good(ledger, f, Len(prior.calls))
      BY <1>1, <3>1, <3>2, ReplayedGood
    <3>5. ledger.halted = 0
      BY <3>2, <3>3, Zenon DEF SameRows
    <3>6. Done(ledger, f, Len(prior.calls))
      BY <3>3, Zenon DEF Done
    <3> QED
      BY <3>4, <3>5, <3>6, Zenon
  <2>2. CASE Working
    <3>1. /\ ledger.halted = 0
          /\ \E n \in 0 .. Len(ledger.calls) :
                \/ /\ Good(ledger, stage, n) /\ AtCall(ledger, stage, n) /\ n = Len(ledger.calls)
                \/ /\ Passed /\ Good(ledger, LastStage, n) /\ Refused(ledger, n) /\ stage \notin Stage
      BY <1>1, <2>2, WorkingStage
    <3> QED
      BY <1>1, <3>1, Zenon DEF Done
  <2> QED
    BY <1>2, <2>1, <2>2, Zenon DEF IInv
<1>4. PICK f, n : Good(ledger, f, n) /\ Done(ledger, f, n) /\ ledger.halted = 0
  BY <1>3
<1> QED
  BY <1>4, DoneReads

\* So is the record of a run that halted.
LEMMA HaltedHolds ==
    ASSUME IInv
    PROVE  HaltedProven
<1> DEFINE R == {c \in Call : /\ c.stage = stage /\ c.end \in {"misfit", "numbers"}
                             /\ c.id \notin Excluded(ledger)}
<1>1. SUFFICES ASSUME phase = "halting", ~ledger.interrupted
               PROVE  /\ HaltedReads(ledger, ExchangedBefore(ledger, stage))
                      /\ Those(ledger.calls, R) # <<>> =>
                            HaltedReads(ledger, Append(ExchangedBefore(ledger, stage), Last(Those(ledger.calls, R))))
  BY Zenon DEF HaltedProven
<1>2. phase # "off"
  BY <1>1
<1>3. \E n : Good(ledger, stage, n) /\ stage \in Stage /\ ledger.halted = stage
  <2>1. CASE Replaying
    <3>1. PICK f : ReplaysAt(f)
      BY <1>2, <2>1, ReplaysSomewhere
    <3>2. /\ f \in Nat /\ Resumes(prior, f) /\ stage \in 1 .. f /\ stage \in Nat /\ SameRows(prior, ledger)
          /\ prior.halted \in 0 .. LastStage /\ LastStage \in Nat
          /\ stage = prior.halted /\ Replayed(prior, ledger, stage + 1)
      BY <1>1, <3>1, Zenon DEF ReplaysAt
    <3>3. ledger.halted = prior.halted /\ ~prior.interrupted
      BY <1>1, <3>2, Zenon DEF SameRows
    <3>4. prior.halted # 0 /\ stage \in Stage
      BY <3>2 DEF Stage
    <3>5. f = stage
      BY <3>2, <3>3, <3>4, Zenon DEF Resumes
    <3>6. stage + 1 \in Nat /\ f <= (stage + 1) - 1
      BY <3>2, <3>5
    <3>7. Good(ledger, f, Len(prior.calls))
      BY <3>1, <3>2, <3>6, ReplayedGood
    <3> QED
      BY <3>2, <3>3, <3>4, <3>5, <3>7, Zenon
  <2>2. CASE Working
    <3>1. ~Asking /\ ~Passed /\ ~InFlight /\ ~Refusing
      BY <1>1, Zenon DEF Asking, Passed, InFlight, Refusing
    <3> QED
      BY <2>2, <3>1, Zenon DEF Working, Stopping
  <2> QED
    BY <1>2, <2>1, <2>2, Zenon DEF IInv
<1>4. PICK n : Good(ledger, stage, n) /\ stage \in Stage /\ ledger.halted = stage
  BY <1>3
<1>5. HaltedReads(ledger, ExchangedBefore(ledger, stage))
  BY <1>1, <1>4, HaltedBefore
<1>6. ASSUME Those(ledger.calls, R) # <<>>
      PROVE  HaltedReads(ledger, Append(ExchangedBefore(ledger, stage), Last(Those(ledger.calls, R))))
  BY <1>1, <1>4, <1>6, HaltedRefused
<1> QED
  BY <1>5, <1>6

---------------------------------------------------------------------------
(* What no step does. *)

\* A call of a stage is sent by Send alone.
LEMMA OnlySend ==
    ASSUME Next, phase = "stage", phase' = "flight"
    PROVE  Send
<1>1. ~Start
  BY Zenon DEF Start
<1>2. ~SkipLeftOut /\ ~MeetHalted /\ ~Take /\ ~Refuse
  BY DEF SkipLeftOut, MeetHalted, Take, Refuse, Advance, Halt
<1>3. ~Accept /\ ~RefuseNumbers /\ ~SendRepair /\ ~RefuseRepair /\ ~Mask /\ ~Seal
  BY DEF Accept, RefuseNumbers, SendRepair, RefuseRepair, Mask, Seal
<1>4. ~ \E end \in Failures : Retry(end) \/ Fail(end)
  BY DEF Retry, Fail
<1>5. ~ \E end \in {"valid", "again", "lost", "cut"} : RepairEnds(end)
  BY DEF RepairEnds
<1>6. ~MeetLostGenerations /\ ~Finish /\ ~Break /\ ~Kill /\ ~Interrupt
  BY DEF MeetLostGenerations, Finish, Break, Kill, Interrupt, Stop, Gone
<1> QED
  BY <1>1, <1>2, <1>3, <1>4, <1>5, <1>6, Zenon DEF Next, Work

\* The call that is due was not answered before.
LEMMA DueOnce ==
    ASSUME IInv, Due
    PROVE  /\ stage \notin LeftOut(prior)
           /\ \A c \in ToSet(ledger.calls) \union ToSet(prior.calls) : c.stage = stage => c.end # "valid"
<1> DEFINE M == [ledger EXCEPT !.calls = Carried]
<1>1. Ready(M) /\ M.calls = Carried
  BY DueReady
<1> HIDE DEF M
<1>2. /\ Good(M, stage, Len(M.calls)) /\ AtCall(M, stage, Len(M.calls))
      /\ ToSet(prior.calls) \subseteq ToSet(M.calls) /\ LeftOut(prior) \subseteq LeftOut(M)
      /\ M.left = ledger.left /\ ledger \in Ledger /\ prior \in Ledger
  BY <1>1, Zenon DEF Ready
<1>3. stage \notin LeftOut(prior)
  <2>1. LeftOut(M) = LeftOut(ledger)
    BY <1>2, Zenon DEF LeftOut
  <2>2. stage \notin LeftOut(ledger)
    BY Zenon DEF Due
  <2> QED
    BY <1>2, <2>1, <2>2, Zenon
<1>4. ToSet(ledger.calls) \subseteq ToSet(M.calls)
  <2>1. ledger.calls \in Seq(Call) /\ prior.calls \in Seq(Call)
    BY <1>2 DEF Ledger
  <2>2. \A S : Those(prior.calls, S) \in Seq(Call)
    BY <2>1, ThoseOrder
  <2>3. \A ids : ToSet(ledger.calls) \subseteq ToSet(Carry(ids))
    <3> TAKE ids
    <3> DEFINE rest == Those(prior.calls, {c \in Call : c.id \in ids \ IdsOf(ledger.calls)})
    <3>1. rest \in Seq(Call)
      BY <2>2, Zenon
    <3>2. Carry(ids) = ledger.calls \o rest
      BY Zenon DEF Carry
    <3> HIDE DEF rest
    <3>3. \A i \in DOMAIN ledger.calls : i \in DOMAIN Carry(ids) /\ Carry(ids)[i] = ledger.calls[i]
      BY <2>1, <3>1, <3>2
    <3> QED
      BY <3>3, Zenon DEF ToSet
  <2> QED
    BY <1>1, <2>3 DEF Carried
<1>5. ~Stuck(M, stage, Len(M.calls))
  BY <1>2, AtCallFree
<1>6. \A c \in ToSet(M.calls) : c.stage = stage => c.end # "valid"
  BY <1>2, <1>5, ValidStuck
<1> QED
  BY <1>2, <1>3, <1>4, <1>6, Zenon

\* What is saved is halted when the ledger is.
LEMMA SavedHalted ==
    ASSUME NEW l \in Ledger
    PROVE  Saved(l).halted = l.halted
<1>1. \A x : x = [l EXCEPT !.calls = prior.calls] => x.halted = l.halted
  BY DEF Ledger
<1> QED
  BY <1>1, Zenon DEF Saved

\* A halted receipt leaves nothing to ask for.
LEMMA HaltedReplays ==
    ASSUME IInv, phase # "off", receipt # None, receipt.halted # 0
    PROVE  /\ phase \in {"stage", "halting"} /\ ~Due /\ ledger \in Ledger /\ ledger.halted = receipt.halted
<1>1. prior = receipt
  BY Zenon DEF IInv
<1>2. Replaying
  BY <1>1, Zenon DEF IInv, Working, Held
<1>3. PICK f : ReplaysAt(f)
  BY <1>2, ReplaysSomewhere
<1>4. ledger \in Ledger /\ SameRows(prior, ledger)
  BY <1>3, Zenon DEF ReplaysAt
<1>5. ~Due
  <2>1. SUFFICES ASSUME Due PROVE FALSE
    OBVIOUS
  <2>2. prior.halted = 0
    BY <1>3, <2>1, FrontierMet
  <2> QED
    BY <1>1, <2>2
<1>6. phase \in {"stage", "halting"}
  BY <1>2, Zenon DEF Replaying
<1> QED
  BY <1>1, <1>4, <1>5, <1>6, Zenon DEF SameRows

\* So a step of a process keeps the receipt halted and sends nothing.
LEMMA StepStaysHalted ==
    ASSUME IInv, Next, receipt # None, receipt.halted # 0
    PROVE  receipt'.halted # 0 /\ phase' \notin {"flight", "repairing"}
<1>1. CASE phase = "off"
  <2>1. ~Interrupt /\ ~Kill /\ ~Break
    BY <1>1 DEF Interrupt, Kill, Break
  <2>2. ~Work
    <3>1. ~SkipLeftOut /\ ~MeetHalted /\ ~Take /\ ~Due /\ ~Accept /\ ~RefuseNumbers /\ ~SendRepair /\ ~RefuseRepair
          /\ ~Mask /\ ~Finish /\ ~Seal
      BY <1>1 DEF SkipLeftOut, MeetHalted, Take, Due, Accept, RefuseNumbers, SendRepair, RefuseRepair, Mask, Finish, Seal
    <3>2. ~ \E end \in Failures : Retry(end) \/ Fail(end)
      BY <1>1 DEF Retry, Fail
    <3>3. ~ \E end \in {"valid", "again", "lost", "cut"} : RepairEnds(end)
      BY <1>1 DEF RepairEnds
    <3> QED
      BY <3>1, <3>2, <3>3, Zenon DEF Work, MeetLostGenerations, Send, Refuse
  <2>3. Start
    BY <2>1, <2>2, Zenon DEF Next
  <2>4. receipt' = receipt /\ phase' = "stage"
    BY <2>3, Zenon DEF Start
  <2> QED
    BY <2>4
<1>2. CASE phase # "off"
  <2>1. phase \in {"stage", "halting"} /\ ~Due /\ ledger \in Ledger /\ ledger.halted = receipt.halted
    BY <1>2, HaltedReplays
  <2>2. CASE Stop(ledger)
    <3>1. receipt' = Saved(ledger) /\ phase' = "off"
      BY <2>2, Zenon DEF Stop, Gone
    <3>2. receipt'.halted = ledger.halted
      BY <2>1, <3>1, SavedHalted
    <3> QED
      BY <2>1, <3>1, <3>2
  <2>3. CASE SkipLeftOut \/ MeetHalted \/ Take \/ Kill
    <3>1. receipt' = receipt /\ phase' \in {"off", "stage", "halting"}
      BY <2>3 DEF SkipLeftOut, MeetHalted, Take, Kill, Advance, Halt, Gone
    <3> QED
      BY <3>1
  <2>4. CASE Finish \/ Seal \/ Break
    BY <2>2, <2>4, Zenon DEF Finish, Seal, Break
  <2>5. CASE Interrupt
    <3>1. ~(phase \in {"flight", "repairing"})
      BY <2>1
    <3>2. PICK last : Stop(Interrupted(ledger, last))
      BY <2>5, <3>1, Zenon DEF Interrupt, Interrupted, InterruptedAt
    <3>3. Interrupted(ledger, last) = ledger
      BY <2>1, Zenon DEF Interrupted
    <3> QED
      BY <2>2, <3>2, <3>3, Zenon
  <2>6. ~Start /\ ~MeetLostGenerations /\ ~Send /\ ~Refuse
    BY <1>2, <2>1, Zenon DEF Start, MeetLostGenerations, Send, Refuse
  <2>7. /\ ~Accept /\ ~RefuseNumbers /\ ~SendRepair /\ ~RefuseRepair /\ ~Mask
        /\ ~ (\E end \in Failures : Retry(end) \/ Fail(end))
        /\ ~ (\E end \in {"valid", "again", "lost", "cut"} : RepairEnds(end))
    BY <2>1 DEF Accept, RefuseNumbers, SendRepair, RefuseRepair, Mask, Retry, Fail, RepairEnds
  <2> QED
    BY <2>3, <2>4, <2>5, <2>6, <2>7, Zenon DEF Next, Work
<1> QED
  BY <1>1, <1>2

---------------------------------------------------------------------------
(* The properties. *)

\* Whatever a process went through, the receipt it writes has its shape and
\* passes every check that a resumed run makes.
THEOREM ReceiptAlwaysLoads ==
    ASSUME ~ResumesMasked, ~ResumesForgotten
    PROVE  Spec => []ReceiptLoads
<1>1. Spec => []IInv
  BY Invariant
<1>2. IInv => ReceiptLoads
  BY ReceiptHolds
<1> QED
  BY <1>1, <1>2, PTL

\* Whenever an answer is taken over it is the accepted answer of the stage at work.
THEOREM AnswersTakenInOrder ==
    ASSUME ~ResumesMasked, ~ResumesForgotten
    PROVE  Spec => []TakesOverInOrder
<1>1. Spec => []IInv
  BY Invariant
<1>2. IInv => TakesOverInOrder
  BY AnswersInOrder
<1> QED
  BY <1>1, <1>2, PTL

\* A run that completes has a ledger that the reader of its Case accepts.
THEOREM CompleteAlwaysReads ==
    ASSUME ~ResumesMasked, ~ResumesForgotten
    PROVE  Spec => []CompleteProven
<1>1. Spec => []IInv
  BY Invariant
<1>2. IInv => CompleteProven
  BY CompleteHolds
<1> QED
  BY <1>1, <1>2, PTL

\* The halted record that is saved is one its reader accepts.
THEOREM HaltedAlwaysReads ==
    ASSUME ~ResumesMasked, ~ResumesForgotten
    PROVE  Spec => []HaltedProven
<1>1. Spec => []IInv
  BY Invariant
<1>2. IInv => HaltedProven
  BY HaltedHolds
<1> QED
  BY <1>1, <1>2, PTL

\* A stage that has an accepted answer, or was left out, is never paid again.
THEOREM StageAskedOnce ==
    ASSUME ~ResumesMasked, ~ResumesForgotten
    PROVE  Spec => NeverAskedAgain
<1>1. Spec => []IInv
  BY Invariant
<1>2. IInv /\ [Next]_vars =>
         [phase = "stage" /\ phase' = "flight" =>
             /\ stage \notin LeftOut(prior)
             /\ \A c \in ToSet(ledger.calls) \union ToSet(prior.calls) : c.stage = stage => c.end # "valid"]_vars
  <2>1. SUFFICES ASSUME IInv, Next, phase = "stage", phase' = "flight"
                 PROVE  /\ stage \notin LeftOut(prior)
                        /\ \A c \in ToSet(ledger.calls) \union ToSet(prior.calls) : c.stage = stage => c.end # "valid"
    BY Zenon
  <2>2. Due
    BY <2>1, OnlySend, Zenon DEF Send
  <2> QED
    BY <2>1, <2>2, DueOnce
<1>3. Spec => [][Next]_vars
  BY PTL DEF Spec
<1> QED
  BY <1>1, <1>2, <1>3, PTL DEF NeverAskedAgain

\* Resuming gives a halted run no new allowance: nothing is asked for, and every
\* later receipt is halted too.
THEOREM HaltStaysFinal ==
    ASSUME ~ResumesMasked, ~ResumesForgotten
    PROVE  Spec => HaltIsFinal
<1>1. Spec => []IInv
  BY Invariant
<1>2. IInv /\ [Next]_vars =>
         [receipt # None /\ receipt.halted # 0 =>
             /\ receipt'.halted # 0
             /\ phase' \in {"flight", "repairing"} => stage' < receipt.halted]_vars
  BY StepStaysHalted, Zenon
<1>3. Spec => [][Next]_vars
  BY PTL DEF Spec
<1> QED
  BY <1>1, <1>2, <1>3, PTL DEF HaltIsFinal

=============================================================================
