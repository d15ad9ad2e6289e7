--------------------------- MODULE StageInvariant ---------------------------
(***************************************************************************)
(* What holds of the ledgers of StageRecovery in every reachable state and *)
(* is enough to prove its properties: the inductive invariant IInv, which  *)
(* StageRecoveryProofs proves.                                             *)
(*                                                                         *)
(* The calls of a ledger are blocks, one for each stage in the order of    *)
(* the stages; in a block every call but the last failed, and a row grants *)
(* the next one.  The blocks before the frontier f are settled: the stage  *)
(* is left out, or the last call of its block is its accepted answer.  At  *)
(* the frontier the last call may wait for the one granted to it.  Only    *)
(* the sentence repair of the final report comes after the n calls of the  *)
(* blocks.                                                                 *)
(***************************************************************************)
EXTENDS StageRecovery

Plain(r) == r.reason # "numbers"

\* The block of the stage ends at this call.
Ends(L, n, i) == i = n \/ L.calls[i + 1].stage # L.calls[i].stage

Identified(L) ==
    \A i \in DOMAIN L.calls :
        /\ L.calls[i].id # NoCall
        /\ \A j \in DOMAIN L.calls : L.calls[i].id = L.calls[j].id => i = j

Sorted(L, f, n) ==
    /\ \A i, j \in 1 .. n : i <= j => L.calls[i].stage <= L.calls[j].stage
    /\ \A i \in 1 .. n : L.calls[i].stage <= f /\ L.calls[i].attempt > 0

\* A call is the first of its block or the one that a row granted.
Linked(L, n) ==
    \A i \in 1 .. n :
        \/ /\ i = 1 \/ L.calls[i - 1].stage # L.calls[i].stage
           /\ L.calls[i].attempt = 1
        \/ /\ i > 1 /\ L.calls[i - 1].stage = L.calls[i].stage
           /\ L.calls[i].attempt = L.calls[i - 1].attempt + 1
           /\ \E r \in ToSet(L.rows) : Plain(r) /\ r.failed = L.calls[i - 1].id /\ r.retry = L.calls[i].id

\* A row names a failed call, and the next of its block or none at the frontier.
GrantedBy(L, f, n, r, i) ==
    /\ r.failed = L.calls[i].id /\ r.stage = L.calls[i].stage
    /\ FailureReason(L.calls[i]) = r.reason /\ L.calls[i].end # "cut_refused"
    /\ \/ r.retry = NoCall /\ i = n /\ r.stage = f
       \/ i < n /\ r.retry = L.calls[i + 1].id /\ L.calls[i + 1].stage = r.stage
Granted(L, f, n) ==
    \A r \in ToSet(L.rows) : Plain(r) => \E i \in 1 .. n : GrantedBy(L, f, n, r, i)

\* The last of the n calls is a report with unbound numbers.
Refused(L, n) == n > 0 /\ L.calls[n].stage = LastStage /\ L.calls[n].end = "numbers"

\* The sentence repair follows it.
RepairRow(L, n, r) ==
    /\ r.stage = LastStage /\ r.failed = L.calls[n].id
    /\ \/ r.retry = NoCall /\ n = Len(L.calls)
       \/ n + 1 = Len(L.calls) /\ r.retry = L.calls[n + 1].id
RepairLast(L, f, n) ==
    /\ \A r \in ToSet(L.rows) : ~Plain(r) => f = LastStage /\ Refused(L, n) /\ RepairRow(L, n, r)
    /\ \/ n = Len(L.calls)
       \/ /\ n + 1 = Len(L.calls)
          /\ L.calls[n + 1].attempt = 0 /\ L.calls[n + 1].stage = LastStage
          /\ \E r \in ToSet(L.rows) : ~Plain(r)

Settled(L, f, n) ==
    \A s \in 1 .. f - 1 :
        s \notin LeftOut(L) =>
            \E i \in 1 .. n : L.calls[i].stage = s /\ L.calls[i].end = "valid" /\ Ends(L, n, i)

Dropped(L, f) ==
    /\ \A d \in ToSet(L.left) :
          /\ d.stage < f
          /\ d.ids = [i \in DOMAIN StageCalls(L.calls, d.stage) |-> StageCalls(L.calls, d.stage)[i].id]
    /\ DegradedProven(L)

Good(L, f, n) ==
    /\ L \in Ledger /\ f \in 1 .. LastStage + 1 /\ n \in 0 .. Len(L.calls)
    /\ Identified(L) /\ Sorted(L, f, n) /\ Linked(L, n) /\ Granted(L, f, n)
    /\ RepairLast(L, f, n) /\ Settled(L, f, n) /\ Dropped(L, f)
    /\ StateValid(L)
    /\ L.spent >= Len(L.calls)

---------------------------------------------------------------------------
(* Receipts. *)

\* The frontier has a block, and no call is granted to it.
Stuck(L, f, n) == n > 0 /\ L.calls[n].stage = f /\ Pending(L.rows, f) = {}

Sealed(L, f, n) ==
    /\ Good(L, f, n)
    /\ L.interrupted => L.halted # 0
    /\ L.halted # 0 /\ ~L.interrupted => L.halted >= f
    /\ Stuck(L, f, n) => L.halted = f \/ (L.halted = 0 /\ Refused(L, n))

\* What a process may resume.
Resumes(P, f) ==
    /\ Good(P, f, Len(P.calls))
    /\ \A r \in ToSet(P.rows) : Plain(r)
    /\ P.interrupted => P.halted # 0
    /\ P.halted <= f
    /\ P.halted # 0 /\ ~P.interrupted => P.halted = f
    /\ Stuck(P, f, Len(P.calls)) => P.halted = f

---------------------------------------------------------------------------
(* Processes. *)

\* The answers of the prior ledger from this stage on.
Reuses(P, f, rest, s) ==
    /\ rest \in Seq(Call)
    /\ \A i \in DOMAIN rest : rest[i] \in ToSet(Candidates(P)) /\ Parses(rest[i]) /\ rest[i].stage >= s
    /\ \A i, j \in DOMAIN rest : i < j => rest[i].stage < rest[j].stage
    /\ \A t \in s .. f - 1 : t \notin LeftOut(P) => \E i \in DOMAIN rest : rest[i].stage = t

\* It has taken over the blocks before the stage at work, or up to it.
Replayed(P, L, s) ==
    \E k \in 0 .. Len(P.calls) :
        /\ L.calls = SubSeq(P.calls, 1, k)
        /\ \A i \in DOMAIN P.calls : i <= k <=> P.calls[i].stage < s

SameRows(P, L) ==
    /\ L.rows = P.rows /\ L.left = P.left /\ L.halted = P.halted
    /\ L.interrupted = P.interrupted /\ L.spent = P.spent

Replaying ==
    /\ phase \in {"stage", "halting"}
    /\ ledger \in Ledger /\ SameRows(prior, ledger)
    /\ prior.halted # 0 => stage <= prior.halted
    /\ \E f \in 1 .. LastStage + 1 :
          /\ Resumes(prior, f) /\ stage <= f
          /\ phase = "stage" => Replayed(prior, ledger, stage) /\ Reuses(prior, f, reuse, stage)
    /\ phase = "halting" => stage = prior.halted /\ Replayed(prior, ledger, stage + 1)

\* The calls before the one in flight.
Unsent == [ledger EXCEPT !.calls = Front(@)]

\* A first call of the stage, or the one granted to it.
AtCall(L, s, n) == Pending(L.rows, s) # {} \/ n = 0 \/ L.calls[n].stage # s

\* It has all of the prior ledger and asks for what is missing.
Held ==
    /\ reuse = <<>> /\ prior.halted = 0
    /\ ToSet(prior.calls) \subseteq ToSet(IF phase = "flight" THEN Unsent.calls ELSE ledger.calls)
    /\ \A c \in ToSet(prior.calls) : c.attempt > 0
    /\ LeftOut(prior) \subseteq LeftOut(ledger)
    /\ ~ledger.interrupted
    /\ phase # "halting" => ledger.halted = 0

Asking ==
    /\ phase = "stage"
    /\ Good(ledger, stage, Len(ledger.calls)) /\ AtCall(ledger, stage, Len(ledger.calls))

\* The report passed with numbers that were repaired or hidden.
Passed ==
    /\ phase = "stage" /\ stage = LastStage + 1 /\ asked = LastStage
    /\ \E n \in 0 .. Len(ledger.calls) : Good(ledger, LastStage, n) /\ Refused(ledger, n)

InFlight ==
    /\ phase = "flight" /\ stage \in Stage /\ asked = stage
    /\ ledger \in Ledger /\ ledger.calls # <<>>
    /\ Good(Unsent, stage, Len(Unsent.calls)) /\ AtCall(Unsent, stage, Len(Unsent.calls))
    /\ Last(ledger.calls).stage = stage /\ Last(ledger.calls).id \notin IdsOf(Unsent.calls) \union {NoCall}
    /\ Last(ledger.calls).attempt = IF Waiting THEN 1 + Last(Unsent.calls).attempt ELSE 1
    /\ ledger.spent >= Len(ledger.calls)

Refusing ==
    /\ phase \in {"refused", "repairing"} /\ stage = LastStage /\ asked = stage
    /\ \E n \in 0 .. Len(ledger.calls) :
          /\ Good(ledger, LastStage, n) /\ Refused(ledger, n)
          /\ phase = "repairing" => n + 1 = Len(ledger.calls)

Stopping ==
    /\ phase = "halting" /\ ledger.halted = stage /\ stage \in Stage
    /\ \E n \in 0 .. Len(ledger.calls) : Good(ledger, stage, n)

Working == Held /\ (Asking \/ Passed \/ InFlight \/ Refusing \/ Stopping)

IInv ==
    /\ phase \in {"off", "stage", "flight", "refused", "repairing", "halting"}
    /\ stage \in 1 .. LastStage + 1 /\ asked \in 0 .. stage /\ asked <= LastStage
    /\ asked \notin LeftOut(ledger)
    /\ receipt # None => \E f \in 1 .. LastStage + 1, n \in 0 .. Len(receipt.calls) : Sealed(receipt, f, n)
    /\ IF phase = "off"
       THEN ledger = Fresh /\ prior = Fresh /\ reuse = <<>> /\ stage = 1 /\ asked = 0
       ELSE /\ prior = IF receipt = None THEN Fresh ELSE receipt
            /\ Replaying \/ Working
=============================================================================
