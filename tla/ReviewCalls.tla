---------------------------- MODULE ReviewCalls ----------------------------
(***************************************************************************)
(* The model calls of a review, and their reader                           *)
(* (src/finauditgate/adapters/thesis_quality.py, _invoke() and             *)
(* run_quality(); application/thesis_quality.py, validate()).              *)
(*                                                                         *)
(* A review asks at most twice for each of its two answers, and its second *)
(* calls share one allowance with the recoveries of the main run.  A run   *)
(* that is interrupted is resumed with the calls it made.  An outcome is   *)
(*   answer    a complete answer that parses                               *)
(*   invalid   a complete answer that does not                             *)
(*   nothing   a length stop without any content                           *)
(*   failed    any other failure, the interruption of the run included     *)
(***************************************************************************)
EXTENDS Integers, SequencesExt

CONSTANTS
    ExtraCalls, \* extra_call_limit()
    MaxRuns

VARIABLES
    attempts,  \* the recoveries of the main run
    prior,     \* the calls of the run that is resumed
    sameInput, \* whether the prompts are those of the prior calls
    calls,     \* [kind, attempt, outcome, fresh]
    asking,    \* the answer that is asked for
    retries, exchanges,
    result,    \* none; interrupted; completed; partial
    runs

callVars == <<attempts, prior, sameInput, calls, asking, retries, exchanges, result, runs>>

Kinds == <<"QualityReview", "QualityRevision">>
OfKind(cs, kind) == SelectSeq(cs, LAMBDA c : c.kind = kind)
Attempt == Len(OfKind(calls, asking)) + 1
Previous == OfKind(prior, asking)
Complete(call) == call.outcome \in {"answer", "invalid"}

CallsInit ==
    /\ attempts \in 0 .. ExtraCalls
    /\ prior = <<>> /\ sameInput = TRUE /\ calls = <<>> /\ asking = "QualityReview"
    /\ retries = 0 /\ exchanges = <<>> /\ result = "none" /\ runs = 1

\* A second call after a length stop without content, within the allowance.
\* Bug: after any failure.
RepeatsAnyFailure(call) == ~Complete(call) /\ call.attempt = 1 /\ retries + attempts < ExtraCalls
Repeats(call) == call.outcome = "nothing" /\ call.attempt = 1 /\ retries + attempts < ExtraCalls

\* What a recorded call leads to.  The review may need no revision or cannot
\* be prepared, and the revision may be refused.
Take(call) ==
    /\ calls' = Append(calls, call)
    /\ IF call.outcome = "answer"
       THEN /\ exchanges' = Append(exchanges, asking)
            /\ IF asking = "QualityReview"
               THEN \/ asking' = "QualityRevision" /\ UNCHANGED result
                    \/ result' \in {"completed", "partial"} /\ UNCHANGED asking
               ELSE result' \in {"completed", "partial"} /\ UNCHANGED asking
            /\ UNCHANGED retries
       ELSE /\ IF Repeats(call) THEN retries' = retries + 1 /\ UNCHANGED result
               ELSE result' = "partial" /\ UNCHANGED retries
            /\ UNCHANGED <<exchanges, asking>>
    /\ UNCHANGED <<attempts, prior, sameInput, runs>>

Asks == result = "none" /\ Len(Previous) < Attempt

Ask ==
    /\ Asks
    /\ \E outcome \in {"answer", "invalid", "nothing", "failed"} :
          Take([kind |-> asking, attempt |-> Attempt, outcome |-> outcome, fresh |-> TRUE])

\* The prior call of the attempt is carried, if its prompt is the same.
Carry ==
    /\ result = "none" /\ Len(Previous) >= Attempt
    /\ IF sameInput THEN Take([Previous[Attempt] EXCEPT !.fresh = FALSE])
       ELSE /\ result' = "partial"
            /\ UNCHANGED <<attempts, prior, sameInput, calls, asking, retries, exchanges, runs>>

\* The run is interrupted before or in a call, which is then recorded as failed.
Interrupt ==
    /\ result = "none"
    /\ result' = "interrupted"
    /\ \/ UNCHANGED calls
       \/ Asks /\ calls' = Append(calls, [kind |-> asking, attempt |-> Attempt, outcome |-> "failed", fresh |-> TRUE])
    /\ UNCHANGED <<attempts, prior, sameInput, asking, retries, exchanges, runs>>

\* The main run is replayed from its calls, or its report is judged anew, which
\* may take more recoveries.
Resume ==
    /\ result = "interrupted" /\ runs < MaxRuns
    /\ prior' = calls /\ runs' = runs + 1
    /\ \/ UNCHANGED <<attempts, sameInput>>
       \/ attempts' \in attempts .. ExtraCalls /\ sameInput' \in BOOLEAN
    /\ calls' = <<>> /\ asking' = "QualityReview" /\ retries' = 0 /\ exchanges' = <<>> /\ result' = "none"

CallsNext == Ask \/ Carry \/ Interrupt \/ Resume

---------------------------------------------------------------------------
(* validate(): the calls of a saved review. *)

Reads ==
    /\ exchanges \in {<<>>, <<"QualityReview">>, Kinds}
    /\ \A kind \in ToSet(Kinds) : LET n == Len(OfKind(calls, kind)) IN
          n <= 2 /\ \A i \in 1 .. n : OfKind(calls, kind)[i].attempt = i
    /\ \A i \in DOMAIN calls : calls[i].attempt = 2 =>
          i > 1 /\ calls[i - 1].outcome = "nothing" /\ calls[i - 1].kind = calls[i].kind /\ calls[i - 1].attempt = 1
    /\ Len(SelectSeq(calls, LAMBDA c : c.attempt = 2)) + attempts <= ExtraCalls
    /\ \A j \in DOMAIN exchanges : Len(SelectSeq(calls, LAMBDA c : c.kind = exchanges[j] /\ c.outcome = "answer")) = 1
    /\ result = "completed" =>
          /\ exchanges # <<>>
          /\ {calls[i].kind : i \in {i \in DOMAIN calls : Complete(calls[i])}} = ToSet(exchanges)

\* However often it was interrupted between or in its calls, resumed, and its
\* report judged anew meanwhile: what a review saves is read, its calls and the
\* recoveries of the main run together keep the one allowance, and the model is
\* not asked again for an answer that the run it resumes recorded.
ReviewReads ==
    /\ result \in {"completed", "partial"} => Reads
    /\ \A c \in ToSet(calls) : c.fresh =>
          \A p \in ToSet(prior) : p.kind = c.kind => p.attempt < c.attempt /\ ~Complete(p)
    /\ attempts + retries <= ExtraCalls
=============================================================================
