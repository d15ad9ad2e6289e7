--------------------------- MODULE StageRecovery ---------------------------
(***************************************************************************)
(* A thesis run over its stages (src/finauditgate/adapters/                *)
(* thesis_invocation.py, thesis_protocol.py, tradingagents_thesis.py):     *)
(* answers of the resumed ledger are taken over, the others are asked for, *)
(* a failure that the saved call proves is asked again within the          *)
(* allowance, a stage that may be left out is left out, any other failure  *)
(* halts the run.  The run may be interrupted or killed at any point, and  *)
(* a later process resumes the ledger of the last receipt.                 *)
(*                                                                         *)
(* The provider answers every call in some way (the HTTP client's timeout  *)
(* is one).  A truncated answer reaches the run as the SDK's exception.    *)
(***************************************************************************)
EXTENDS StageLedger

CONSTANTS
    MaxProcesses, \* bound on the processes started
    ResumesMasked, \* whether a run that masked its report may be resumed
    ResumesForgotten, \* whether a halted run whose receipt lost earlier answers may be resumed
    None

VARIABLES
    phase,   \* off; stage; flight; refused (numbers); repairing; halting
    stage,   \* the stage at work; LastStage + 1 when all are done
    asked,   \* session.last_stage, 0 for None
    ledger,  \* what this process would save
    prior,   \* the ledger it resumed
    reuse,   \* CompletedCalls.rows, those not taken yet
    started, \* processes started
    receipt  \* the last runtime-receipt.json

vars == <<phase, stage, asked, ledger, prior, reuse, started, receipt>>

Ledger == [calls : Seq(Call), rows : Seq(Row), halted : 0 .. LastStage,
           left : Seq([stage : Degradable, ids : Seq(Nat)]), blocked : BOOLEAN, spent : Nat,
           interrupted : BOOLEAN,  \* what halted it was an interruption
           generations : Nat]      \* entries of final_generation

Fresh == [calls |-> <<>>, rows |-> <<>>, halted |-> 0, left |-> <<>>,
          blocked |-> FALSE, spent |-> 0, interrupted |-> FALSE, generations |-> 0]

---------------------------------------------------------------------------

\* The SDK's identity of the next call: any that no call seen here has.
NewId ==
    1 + Max({0} \union IdsOf(prior.calls) \union IdsOf(ledger.calls)
                \union {r.retry : r \in ToSet(ledger.rows)})

\* The row of this stage whose extra call was granted and not yet bound.
Pending(rows, s) == {i \in DOMAIN rows : rows[i].stage = s /\ rows[i].retry = NoCall /\ rows[i].reason # "numbers"}
Waiting == Pending(ledger.rows, stage) # {}
Entry == CHOOSE i \in Pending(ledger.rows, stage) : TRUE

\* Calls of the resumed ledger are copied once, in their order.
Carry(ids) ==
    ledger.calls \o Those(prior.calls, {c \in Call : c.id \in ids \ IdsOf(ledger.calls)})

\* carry_pending_call()
Carried == IF Waiting THEN Carry(Chain(ledger.rows, ledger.rows[Entry].failed)) ELSE ledger.calls

Attempt == IF Waiting THEN 1 + CallOf(Carried, ledger.rows[Entry].failed).attempt ELSE 1

\* A resumed request of the final report needs the record of its generations.
Resumed == Waiting /\ ledger.rows[Entry].failed \in IdsOf(prior.calls)
Generations ==
    IF stage # LastStage THEN 0 ELSE IF Resumed THEN prior.generations ELSE ledger.generations
GenerationsLost ==
    /\ Resumed /\ stage = LastStage
    /\ prior.generations # Attempt - 1 \/ prior.generations # Len(StageRows(ledger.rows, stage))

\* assert_open()
\* Bug: a stage with a call still granted is asked whether halted or not.
OpenIfWaiting(s) == ledger.halted # s \/ Waiting
IsOpen(s) == ledger.halted # s

\* complete_checkpoint_calls(): rows and left-out stages keep their calls.
\* Bug: the receipt holds what the process has come to.
SavedAsIs(l) == l
Saved(l) ==
    LET original == IdsOf(prior.calls)
        bound == (UNION {{r.failed, r.retry} : r \in ToSet(l.rows)}) \union (UNION {ToSet(d.ids) : d \in ToSet(l.left)})
    IN IF bound \intersect original \subseteq IdsOf(l.calls) \/ ~(IdsOf(l.calls) \subseteq original)
       THEN l ELSE [l EXCEPT !.calls = prior.calls]

\* A process that is gone keeps nothing but what is on disk.
Gone ==
    /\ phase' = "off" /\ stage' = 1 /\ asked' = 0
    /\ ledger' = Fresh /\ prior' = Fresh /\ reuse' = <<>>
    /\ UNCHANGED started

\* The process ends with this ledger, and writes the receipt.
Stop(l) ==
    /\ receipt' = Saved(l)
    /\ Gone

\* The run stops for good at this stage, and its halted Case is saved next if
\* it is deliverable().
\* Bug: the run ends and the stage stays open.
HaltOpen(l, s) == Stop(l)
Halt(l, s) ==
    /\ ledger' = [l EXCEPT !.halted = s]
    /\ phase' = "halting"
    /\ UNCHANGED <<stage, asked, prior, reuse, started, receipt>>

\* save_halted(), and then the receipt, whether it was saved or not.
Seal ==
    /\ phase = "halting"
    /\ Stop(ledger)

\* To the next stage, with this ledger.
Advance(l) ==
    /\ ledger' = l
    /\ stage' = stage + 1
    /\ phase' = "stage"

\* The last call ends; a call granted to this stage is now bound to it.
Unbound(end) == [ledger EXCEPT !.calls[Len(ledger.calls)].end = end]
Bound(end) ==
    [Unbound(end) EXCEPT !.rows = IF Waiting THEN [@ EXCEPT ![Entry].retry = Last(ledger.calls).id] ELSE @]

\* A final report is one more generation, a refused truncated one excepted.
Ended(end, blocked) ==
    [Bound(end) EXCEPT !.blocked = blocked,
                       !.generations = IF stage = LastStage /\ end # "cut_refused" THEN @ + 1 ELSE @]

\* degrade(): every saved call of the stage is its proof.
\* Bug: only the last.
ProofLast(l) == <<Last(StageCalls(l.calls, stage)).id>>
Proof(l) ==
    LET mine == StageCalls(l.calls, stage) IN [i \in DOMAIN mine |-> mine[i].id]

---------------------------------------------------------------------------

Init ==
    /\ phase = "off" /\ stage = 1 /\ asked = 0
    /\ ledger = Fresh /\ prior = Fresh /\ reuse = <<>>
    /\ started = 0
    /\ receipt = None

\* The run passed its report with the numbers hidden, and stopped after that.
Masked(l) == l.halted = 0 /\ \E c \in ToSet(l.calls) : c.end = "numbers"

\* A receipt written while a halted run was replayed, which no longer has the
\* answers of the stages before the one that halted.
Forgotten(l) ==
    \E s \in 1 .. l.halted - 1 :
        s \notin LeftOut(l) /\ \A c \in ToSet(l.calls) : c.stage = s => c.end # "valid"

\* run_thesis(): from nothing, or from the last receipt.
Start ==
    /\ phase = "off" /\ started < MaxProcesses
    /\ \/ /\ receipt = None
          /\ ledger' = Fresh /\ prior' = Fresh /\ reuse' = <<>>
       \/ /\ receipt # None /\ Loads(receipt) /\ ~Repaired(receipt)
          /\ Masked(receipt) => ResumesMasked
          /\ Forgotten(receipt) => ResumesForgotten
          /\ ledger' = [receipt EXCEPT !.calls = <<>>, !.generations = 0]
          /\ prior' = receipt
          /\ reuse' = Reusable(receipt)
    /\ phase' = "stage" /\ stage' = 1 /\ asked' = 0
    /\ started' = started + 1
    /\ UNCHANGED receipt

\* degradable(): a stage left out before keeps its calls.
SkipLeftOut ==
    /\ phase = "stage" /\ stage \in LeftOut(ledger)
    /\ LET saved == CHOOSE d \in ToSet(ledger.left) : d.stage = stage IN
       Advance([ledger EXCEPT !.calls = Carry(ToSet(saved.ids))])
    /\ UNCHANGED <<asked, prior, reuse, started, receipt>>

\* carry_halted_calls() and assert_open()
\* Bug: a stage met halted does not bring its saved calls.
MeetHaltedBare ==
    /\ phase = "stage" /\ stage \in Stage \ LeftOut(ledger) /\ ~IsOpen(stage)
    /\ Halt(ledger, stage)
MeetHalted ==
    /\ phase = "stage" /\ stage \in Stage \ LeftOut(ledger) /\ ~IsOpen(stage)
    /\ Halt([ledger EXCEPT !.calls = Carry(IdsOf(StageCalls(prior.calls, stage)))], stage)

\* take(): an answer of the resumed ledger, with the failures it goes back to.
Take ==
    /\ phase = "stage" /\ stage \in Stage \ LeftOut(ledger) /\ IsOpen(stage)
    /\ reuse # <<>> /\ Head(reuse).stage = stage /\ Head(reuse).end = "valid"
    /\ Advance([ledger EXCEPT !.calls = Carry(Chain(ledger.rows, Head(reuse).id)),
                              !.generations = IF stage = LastStage THEN 1 ELSE 0])
    /\ reuse' = Tail(reuse) /\ asked' = stage
    /\ UNCHANGED <<prior, started, receipt>>

\* A call must be made: the first of the stage, or the one granted.
Due ==
    /\ phase = "stage" /\ stage \in Stage \ LeftOut(ledger) /\ IsOpen(stage)
    /\ reuse = <<>>

\* A truncation that a granted call answers to no longer blocks the budget.
Blocked == ledger.blocked /\ ~(Waiting /\ ledger.rows[Entry].reason = "length")

\* THESIS_PENDING_FINAL_GENERATION_INVALID: the call granted stays unsent.
MeetLostGenerations ==
    /\ Due /\ GenerationsLost
    /\ Stop([ledger EXCEPT !.calls = Carried])

Send ==
    /\ Due /\ ~Blocked /\ ~GenerationsLost
    /\ ledger' = [ledger EXCEPT
          !.calls = Append(Carried, [id |-> NewId, stage |-> stage, attempt |-> Attempt, end |-> "open"]),
          !.blocked = FALSE, !.spent = @ + 1, !.generations = Generations]
    /\ phase' = "flight" /\ asked' = stage
    /\ UNCHANGED <<stage, prior, reuse, started, receipt>>

\* reserve() or the trace refuses the call: blocked, or at a limit.
Refuse ==
    /\ Due /\ ~GenerationsLost
    /\ Halt([ledger EXCEPT !.calls = Carried, !.blocked = Blocked,
                           !.generations = IF stage = LastStage THEN Generations + 1 ELSE @], stage)

\* A truncated answer that is complete and accepted unblocks the budget.
Accept ==
    /\ phase = "flight"
    /\ Advance(Ended("valid", FALSE))
    /\ UNCHANGED <<asked, prior, reuse, started, receipt>>

\* What is left of the ends, by what the stage's request makes possible.
Failures ==
    {"misfit", "repair", "again", "empty", "cut", "cut_refused", "lost", "error", "overrun"}
    \union {end \in {"changed"} : Waiting /\ ledger.rows[Entry].reason = "repair"}

BlockedBy(end) == end \in {"cut", "cut_refused", "overrun"}

Retry(end) ==
    LET l == Ended(end, FALSE)  call == Last(l.calls)  reason == FailureReason(call) IN
    /\ phase = "flight"
    /\ reason # "none" /\ end # "cut_refused" /\ MayReserve(l.rows, stage, call, reason)
    /\ ledger' = [l EXCEPT !.rows = Append(@, [stage |-> stage, reason |-> reason,
                                               failed |-> call.id, retry |-> NoCall])]
    /\ phase' = "stage"
    /\ UNCHANGED <<stage, asked, prior, reuse, started, receipt>>

\* A failure with no retry left leaves the stage out or halts the run.
Fail(end) ==
    LET l == Ended(end, BlockedBy(end))
        call == Last(l.calls)
        reason == FailureReason(call)
        omitted == /\ stage \in Degradable /\ end # "overrun"
                   /\ \A c \in ToSet(StageCalls(l.calls, stage)) : ~Usable(c)
    IN /\ phase = "flight"
       /\ reason = "none" \/ end = "cut_refused" \/ ~MayReserve(l.rows, stage, call, reason)
       /\ IF omitted
          THEN /\ Advance([l EXCEPT !.left = Append(@, [stage |-> stage, ids |-> Proof(l)])])
               /\ asked' = 0
               /\ UNCHANGED <<prior, reuse, started, receipt>>
          ELSE Halt(l, stage)

---------------------------------------------------------------------------
(* The final report's numbers: one more call, then masking. *)

RefuseNumbers ==
    /\ phase = "flight" /\ stage = LastStage
    /\ ledger' = Ended("numbers", FALSE)
    /\ phase' = "refused"
    /\ UNCHANGED <<stage, asked, prior, reuse, started, receipt>>

\* _repair_numbers(), when refused_sentences() finds the report repairable.
SendRepair ==
    LET report == Last(ledger.calls) IN
    /\ phase = "refused" /\ ~Repaired(ledger)
    /\ MayReserve(ledger.rows, LastStage, report, "numbers")
    /\ ledger' = [ledger EXCEPT
          !.rows = Append(@, [stage |-> LastStage, reason |-> "numbers", failed |-> report.id, retry |-> NewId]),
          !.calls = Append(@, [id |-> NewId, stage |-> LastStage, attempt |-> 0, end |-> "open"]),
          !.spent = @ + 1]
    /\ phase' = "repairing"
    /\ UNCHANGED <<stage, asked, prior, reuse, started, receipt>>

\* The allowance is granted, but the budget refuses the call.
RefuseRepair ==
    LET report == Last(ledger.calls) IN
    /\ phase = "refused" /\ ~Repaired(ledger)
    /\ MayReserve(ledger.rows, LastStage, report, "numbers")
    /\ ledger' = [ledger EXCEPT !.rows = Append(@, [stage |-> LastStage, reason |-> "numbers",
                                                    failed |-> report.id, retry |-> NoCall])]
    /\ UNCHANGED <<phase, stage, asked, prior, reuse, started, receipt>>

RepairEnds(end) ==
    /\ phase = "repairing"
    /\ ledger' = [ledger EXCEPT !.calls[Len(ledger.calls)].end = end,
                                !.blocked = BlockedBy(end)]
    /\ IF end = "valid"
       THEN phase' = "stage" /\ stage' = stage + 1
       ELSE phase' = "refused" /\ UNCHANGED stage
    /\ UNCHANGED <<asked, prior, reuse, started, receipt>>

\* _mask_numbers(): the report passes with its numbers hidden, or the run halts.
Mask ==
    /\ phase = "refused"
    /\ \/ Advance(ledger) /\ UNCHANGED <<asked, prior, reuse, started, receipt>>
       \/ Halt(ledger, LastStage)

\* The Case is saved and the receipt written.
Finish ==
    /\ phase = "stage" /\ stage = LastStage + 1
    /\ Stop(ledger)

---------------------------------------------------------------------------
(* A process that ends in another way. *)

\* seal_failure() after an interruption, before or after a call in flight was
\* recorded: the stage last asked is halted, unless a call granted to it was
\* not sent.  A run that is halted already binds no call either.
Interrupt ==
    LET calling == phase \in {"flight", "repairing"}
        asking == IF phase = "stage" /\ stage \in Stage \ LeftOut(ledger) THEN {stage} ELSE {}
    IN /\ phase # "off"
       /\ \E end \in IF calling THEN {"valid", "cut", "error"} ELSE {"error"},
             last \in {asked} \union asking :
             LET ended == IF ledger.halted = 0 THEN Bound(end) ELSE Unbound(end)
                 l == IF calling THEN [ended EXCEPT !.blocked = BlockedBy(end)] ELSE ledger IN
             Stop(IF \/ last = 0 \/ l.halted # 0
                     \/ \E r \in ToSet(l.rows) : r.stage = last /\ r.retry = NoCall
                  THEN l ELSE [l EXCEPT !.halted = last, !.interrupted = TRUE])

\* An error that is no ValueError, TypeError or KeyError, outside a call.
Break ==
    /\ phase = "stage"
    /\ Stop(ledger)

Kill ==
    /\ phase # "off"
    /\ Gone
    /\ UNCHANGED receipt

\* What a process does unless it is stopped.
Work ==
    \/ SkipLeftOut \/ MeetHalted \/ MeetLostGenerations \/ Take \/ Send \/ Refuse \/ Accept
    \/ \E end \in Failures : Retry(end) \/ Fail(end)
    \/ RefuseNumbers \/ SendRepair \/ RefuseRepair \/ Mask \/ Finish \/ Seal
    \/ \E end \in {"valid", "again", "lost", "cut"} : RepairEnds(end)

Next == Start \/ Work \/ Interrupt \/ Break \/ Kill

Spec == Init /\ [][Next]_vars

---------------------------------------------------------------------------
(* Properties. *)

\* Whatever a process went through, the receipt it writes has its shape and
\* passes every check that a resumed run makes, unless the final report's
\* sentences were repaired.
ReceiptLoads == receipt # None => receipt \in Ledger /\ (Repaired(receipt) \/ Loads(receipt))

\* A run that completes has a ledger that the reader of its Case accepts, with
\* one answer for every stage that was not left out and every call accounted for.
CompleteProven ==
    phase = "stage" /\ stage = LastStage + 1 => CompleteReads(ledger, ExchangedBefore(ledger, stage))

\* Whatever resumes, failures and left-out stages led to the stop, the halted
\* record that is saved is one its reader accepts, with and without the parsed
\* answer that the stopped stage refused: the reader would drop the delivery.
HaltedProven ==
    phase = "halting" /\ ~ledger.interrupted =>
        LET before == ExchangedBefore(ledger, stage)
            refused == Those(ledger.calls, {c \in Call : /\ c.stage = stage /\ c.end \in {"misfit", "numbers"}
                                                        /\ c.id \notin Excluded(ledger)})
        IN /\ HaltedReads(ledger, before)
           /\ refused # <<>> => HaltedReads(ledger, Append(before, Last(refused)))

\* A stage that has an accepted answer, or was left out, is never paid again.
NeverAskedAgain ==
    [][phase = "stage" /\ phase' = "flight" =>
          /\ stage \notin LeftOut(prior)
          /\ \A c \in ToSet(ledger.calls) \union ToSet(prior.calls) :
                c.stage = stage => c.end # "valid"]_vars

\* Resuming gives a halted run no new allowance: neither the stage it stopped
\* at nor a later one is asked again, and every later receipt is halted too.
HaltIsFinal ==
    [][receipt # None /\ receipt.halted # 0 =>
          /\ receipt'.halted # 0
          /\ phase' \in {"flight", "repairing"} => stage' < receipt.halted]_vars

\* Whenever an answer is taken over it is the accepted answer of the stage at
\* work: no run meets THESIS_RESUME_MESSAGE_MISMATCH or a refused answer there.
TakesOverInOrder ==
    phase = "stage" /\ stage \in Stage \ LeftOut(ledger) /\ IsOpen(stage) /\ reuse # <<>> =>
        Head(reuse).stage = stage /\ Head(reuse).end = "valid"

\* "The run continues with an explicit placeholder": a stage left out does not
\* leave the budget blocked for the next one.
LeftOutRunContinues ==
    phase = "stage" /\ ledger.left # <<>> /\ ~Waiting => ~ledger.blocked

\* "A resume carries the cumulative calls": an answer in a receipt is in every
\* later one.
CallsAccumulate ==
    [][receipt # None => IdsOf(receipt.calls) \subseteq IdsOf(receipt'.calls)]_vars

\* "A restart takes over the attempt reserved": a call granted to the final
\* report and not sent can be sent by the run that resumes the receipt.
GrantedFinalCallResumes ==
    receipt # None /\ receipt.halted = 0 /\ Pending(receipt.rows, LastStage) # {} =>
        receipt.generations = Len(StageRows(receipt.rows, LastStage))
=============================================================================
