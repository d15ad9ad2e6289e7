---------------------------- MODULE StageLedger ----------------------------
(***************************************************************************)
(* The ledger of a thesis run and the rules its readers apply to it        *)
(* (protocol 24, recovery policy v6; src/finauditgate/adapters/            *)
(* thesis_recovery.py, thesis_responses.py and thesis_degrade.py).         *)
(*                                                                         *)
(* A ledger is what runtime-receipt.json holds: every model call with its  *)
(* end, one row for every extra call the recovery policy granted, the      *)
(* stage at which the run halted and whether by an interruption, the       *)
(* stages left out, and whether and how far the budget is used.  A resumed *)
(* run and the reader of a Case trust none of it: every row is proven      *)
(* again from the calls.                                                   *)
(*                                                                         *)
(* A call's text is abstracted to its end, the outcome of the checks that  *)
(* the run and the readers share.                                          *)
(***************************************************************************)
EXTENDS Integers, SequencesExt, Selections

CONSTANTS
    LastStage,   \* the stages are 1 .. LastStage, the last is the final report
    Degradable,  \* the stages that may be left out: the analysts and the trader
    MaxExtra     \* extra_call_limit()

ASSUME StageAssumption ==
    /\ LastStage \in Nat \ {0}
    /\ Degradable \subseteq 1 .. LastStage - 1
    /\ MaxExtra \in Nat

Stage == 1 .. LastStage

\* How a call ended:
\*   open         sent, and nothing seen of it yet
\*   valid        accepted
\*   numbers      a final report with unbound numbers, refused after parsing
\*   misfit       parsed, and refused by a later check of its stage
\*   changed      a completed answer that does not repeat the one it completes
\*   repair       a proven format failure, completed by one more call
\*   again        a proven format or content failure, asked again
\*   empty        blank
\*   cut          truncated, the SDK raises, incomplete
\*   cut_refused  the same, complete, and refused
\*   lost         a transient transport failure
\*   error        any other error, interruptions included
\*   overrun      above the output limit and not truncated
End == {"open", "valid", "numbers", "misfit", "changed", "repair", "again", "empty",
        "cut", "cut_refused", "lost", "error", "overrun"}
Call == [id : Nat, stage : Stage, attempt : Nat, end : End]

\* A sentence repair has attempt 0: its kind is not its stage's.
Reason == {"transport", "length", "empty", "repair", "again", "numbers"}
Row == [stage : Stage, reason : Reason, failed : Nat, retry : Nat]

NoCall == 0

\* successful_call() with an output, and what parses again on a resume.
Answered(call) == call.end \in {"valid", "numbers", "misfit", "changed", "repair", "again",
                                "empty", "overrun"}
Parses(call) == call.end \in {"valid", "misfit", "changed", "overrun"}

\* A left-out stage must have no usable() answer.
Usable(call) == call.end \in {"valid", "changed", "overrun"}

\* failure_reason(): what of the saved call proves that it may be asked again.
FailureReason(call) ==
    CASE call.end \in {"cut", "cut_refused"} -> "length"
      [] call.end = "lost" -> "transport"
      [] call.end \in {"empty", "repair", "again"} -> call.end
      [] OTHER -> "none"

Chained == {"repair", "again"}

---------------------------------------------------------------------------
(* Rows and calls. *)

IdsOf(calls) == {c.id : c \in ToSet(calls)}
CallOf(calls, id) == CHOOSE c \in ToSet(calls) : c.id = id
IndexOf(calls, id) == CHOOSE i \in DOMAIN calls : calls[i].id = id
StageCalls(calls, s) == Those(calls, {c \in Call : c.stage = s /\ c.attempt > 0})
StageRows(rows, s) == Those(rows, {r \in Row : r.stage = s /\ r.reason # "numbers"})
LeftOut(ledger) == {d.stage : d \in ToSet(ledger.left)}

\* The failed calls that the call of this id goes back to, itself included.
Before(rows, ids) == ids \union {r.failed : r \in {q \in ToSet(rows) : q.reason # "numbers" /\ q.retry \in ids}}
Chain(rows, id) == Before(rows, Before(rows, {id}))

\* validate_stage_tag(): the attempt follows from the failures before it.
TagProven(l, c) == c.attempt = Cardinality(Chain(l.rows, c.id))

\* may_reserve()
MayReserve(rows, s, call, reason) ==
    /\ Len(rows) < MaxExtra
    /\ IF reason = "numbers"
       THEN s = LastStage /\ \A r \in ToSet(rows) : r.reason # "numbers"
       ELSE LET prior == StageRows(rows, s) IN
            \/ prior = <<>>
            \/ /\ Len(prior) = 1 /\ prior[1].reason = "transport"
               /\ reason \in Chained /\ prior[1].retry = call.id

---------------------------------------------------------------------------
(* The readers. *)

\* validate_state()
StateValid(ledger) ==
    LET rows == ledger.rows IN
    /\ Len(rows) <= MaxExtra
    /\ \A i, j \in DOMAIN rows : i < j /\ rows[i].stage = rows[j].stage =>
          \/ rows[j].reason = "numbers"
          \/ /\ rows[i].reason = "transport" /\ rows[j].reason \in Chained
             /\ rows[i].retry # NoCall /\ rows[i].retry = rows[j].failed
    /\ \A i \in DOMAIN rows : rows[i].reason = "numbers" => i = Len(rows) /\ rows[i].stage = LastStage
    /\ LeftOut(ledger) \subseteq Degradable \ {ledger.halted}
    /\ \A i, j \in DOMAIN ledger.left : ledger.left[i].stage = ledger.left[j].stage => i = j
    /\ \A d \in ToSet(ledger.left) : d.ids # <<>>

\* The calls that are evidence only, never a stage's answer.
Excluded(ledger) ==
    LET rows == ToSet(ledger.rows)
        changed == {c.id : c \in {c \in ToSet(ledger.calls) : c.end = "changed"}}
    IN {r.failed : r \in {q \in rows : q.reason # "numbers"}}
       \union {r.retry : r \in {q \in rows : q.reason = "numbers" \/ q.retry \in changed}}
       \union UNION {ToSet(d.ids) : d \in ToSet(ledger.left)}

\* One row of _validate_v3(), and _validate_number_repair().
RowProven(ledger, row, complete) ==
    LET calls == ledger.calls
        failed == CallOf(calls, row.failed)
        retry == CallOf(calls, row.retry)
        dropped == row.stage \in LeftOut(ledger)
        depends == {r \in ToSet(ledger.rows) : r.reason # "numbers" /\ r.retry = row.failed}
        following == /\ row.retry \in IdsOf(calls)
                     /\ IndexOf(calls, row.retry) = IndexOf(calls, row.failed) + 1
                     /\ retry.stage = row.stage
    IN /\ row.failed \in IdsOf(calls) /\ failed.stage = row.stage
       /\ IF row.reason = "numbers"
          THEN /\ Answered(failed)
               /\ row.failed \notin {r.failed : r \in {q \in ToSet(ledger.rows) : q.reason # "numbers"}}
               /\ row.retry # NoCall => following /\ retry.attempt = 0
          ELSE /\ failed.attempt = 1 + (IF depends = {} THEN 0
                                        ELSE CallOf(calls, (CHOOSE r \in depends : TRUE).failed).attempt)
               /\ FailureReason(failed) = row.reason /\ failed.end # "cut_refused"
               /\ row.retry = NoCall => ~complete /\ ~dropped
               /\ row.retry # NoCall => /\ following /\ retry.attempt = failed.attempt + 1
                                        /\ complete /\ ~dropped => Answered(retry) /\ retry.end # "changed"

\* validate_recoveries() with validate_budget_reservations()
RecoveriesValid(ledger, complete) ==
    /\ StateValid(ledger)
    /\ complete => ledger.halted = 0
    /\ \A i, j \in DOMAIN ledger.calls : ledger.calls[i].id = ledger.calls[j].id => i = j
    /\ \A row \in ToSet(ledger.rows) : RowProven(ledger, row, complete)
    /\ \A d \in ToSet(ledger.left) :
          d.ids = [i \in DOMAIN StageCalls(ledger.calls, d.stage) |-> StageCalls(ledger.calls, d.stage)[i].id]
    /\ ledger.spent >= Len(ledger.calls)

\* check_degraded(): every answer is unusable, and no retry was left to the last.
DegradedProven(ledger) ==
    \A d \in ToSet(ledger.left) :
        LET mine == StageCalls(ledger.calls, d.stage)
            last == Last(mine)
            earlier == Those(ledger.rows, {r \in Row : /\ r.failed \in IdsOf(ledger.calls)
                              /\ IndexOf(ledger.calls, r.failed) < IndexOf(ledger.calls, last.id)})
        IN /\ mine # <<>> /\ \A c \in ToSet(mine) : ~Usable(c)
           /\ \/ FailureReason(last) = "none" \/ last.end = "cut_refused"
              \/ ~MayReserve(earlier, d.stage, last, FailureReason(last))

---------------------------------------------------------------------------
(* What a resumed run takes over: CompletedCalls. *)

Candidates(ledger) ==
    LET out == Excluded(ledger) IN Those(ledger.calls, {c \in Call : Answered(c) /\ c.id \notin out})

Order(ledger) == Those([s \in Stage |-> s], Stage \ LeftOut(ledger))

\* The stages and tags of the candidates read before one that does not parse.
Ordered(ledger) ==
    LET rows == Candidates(ledger)  order == Order(ledger) IN
    \A i \in DOMAIN rows :
        i \in DOMAIN order /\ (\A j \in 1 .. i - 1 : Parses(rows[j])) =>
            rows[i].stage = order[i] /\ TagProven(ledger, rows[i])

\* Bug: takes the last answer for an unfinished one.
ReusableShort(ledger) ==
    LET rows == Candidates(ledger)
        good == {i \in DOMAIN rows : i < Len(Order(ledger)) /\ \A j \in 1 .. i : Parses(rows[j])}
    IN SubSeq(rows, 1, Cardinality(good))
Reusable(ledger) ==
    LET rows == Candidates(ledger)
        good == {i \in DOMAIN rows : i <= Len(Order(ledger)) /\ \A j \in 1 .. i : Parses(rows[j])}
    IN SubSeq(rows, 1, Cardinality(good))

---------------------------------------------------------------------------
(* The readers of a Case: bind_exchanges(), and validate() of a complete    *)
(* and of a halted record.  An exchange is the answer of a stage, named by  *)
(* its call.                                                                *)

\* The calls of the answers a run exchanged: the ones of its stages before
\* the given one, and a final report with unbound numbers.
ExchangedBefore(l, s) ==
    Those(l.calls, {c \in Call : /\ c.attempt > 0 /\ c.stage < s
                                /\ \/ c.end = "valid"
                                   \/ c.end = "numbers" /\ c.stage = LastStage})

BindsInOrder(l, exchanges) ==
    /\ \A c \in ToSet(exchanges) : Answered(c) /\ TagProven(l, c) /\ (Parses(c) \/ c.end = "numbers")
    /\ \A i, j \in DOMAIN exchanges : i < j =>
          IndexOf(l.calls, exchanges[i].id) < IndexOf(l.calls, exchanges[j].id)

StagesOf(exchanges) == [i \in DOMAIN exchanges |-> exchanges[i].stage]

\* _number_repair() and _number_masking(): what became of the refused report.
NumbersProven(l, base) ==
    \A row \in ToSet(l.rows) : row.reason = "numbers" => row.failed = base.id

CompleteReads(l, exchanges) ==
    /\ RecoveriesValid(l, TRUE) /\ DegradedProven(l)
    /\ StagesOf(exchanges) = Order(l)
    /\ BindsInOrder(l, exchanges)
    /\ IdsOf(exchanges) = IdsOf(Candidates(l))
    /\ IdsOf(l.calls) \subseteq IdsOf(exchanges) \union Excluded(l)
    /\ NumbersProven(l, Last(exchanges))

\* Calls behind the last exchange belong to the stage that stopped.
TailBelongs(l, exchanges) ==
    LET last == IF exchanges = <<>> THEN 0 ELSE IndexOf(l.calls, Last(exchanges).id)
    IN \A i \in DOMAIN l.calls : l.calls[i].id \notin Excluded(l) \union IdsOf(exchanges) =>
          i > last /\ l.calls[i].stage = l.halted

HaltedReads(l, exchanges) ==
    LET order == Order(l)  n == Len(exchanges) IN
    /\ l.halted # 0 /\ ~l.interrupted
    /\ RecoveriesValid(l, FALSE) /\ DegradedProven(l)
    /\ n <= Len(order) /\ StagesOf(exchanges) = SubSeq(order, 1, n)
    /\ l.halted \in {order[i] : i \in {n, n + 1} \intersect DOMAIN order}
    /\ \A s \in LeftOut(l) : s < l.halted
    /\ \A row \in ToSet(l.rows) : row.stage <= l.halted /\ (row.retry = NoCall => row.stage = l.halted)
    /\ BindsInOrder(l, exchanges)
    /\ TailBelongs(l, exchanges)

---------------------------------------------------------------------------
\* What __init__ asks of a receipt; one with a sentence repair is never resumed.
Loads(ledger) == RecoveriesValid(ledger, FALSE) /\ DegradedProven(ledger) /\ Ordered(ledger)
Repaired(ledger) == \E row \in ToSet(ledger.rows) : row.reason = "numbers"
=============================================================================
