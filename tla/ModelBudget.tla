---------------------------- MODULE ModelBudget ----------------------------
(***************************************************************************)
(* The spend and call limits of a live model run                           *)
(* (src/finauditgate/adapters/model_budget.py).  A call is paid for before *)
(* it is sent, at an upper bound of its price; what the provider reports   *)
(* afterwards can only raise that amount.  The budget outlives a process:  *)
(* each run writes it into its receipt, and a resumed run goes on with it. *)
(*                                                                         *)
(* Prices are natural numbers here (the code's Decimals, in units small    *)
(* enough); a prompt stands for the price of its bytes.                    *)
(***************************************************************************)
EXTENDS Nothing, Integers, FiniteSetsExt

CONSTANTS
    Prompt,     \* prompts
    InputPrice, \* the price of a prompt's bytes
    TooLong,    \* the prompts above max_input_bytes
    Base,       \* the price of 8192 framing tokens and max_output_tokens
    Report,     \* the prices of usage that a provider may report
    Ceiling,    \* ceiling_cny, or NoCeiling
    NoCeiling,
    MaxCalls    \* max_calls

ASSUME PriceAssumption ==
    /\ InputPrice \in [Prompt -> Nat]
    /\ TooLong \subseteq Prompt
    /\ Base \in Nat
    /\ Report \subseteq Nat
ASSUME LimitAssumption ==
    /\ Ceiling \in Nat \union {NoCeiling} /\ NoCeiling \notin Nat
    /\ MaxCalls \in Nat \ {0}

VARIABLES
    budget,     \* the ModelBudget of the running process
    running,    \* a process is running
    flight,     \* a call is reserved and its end not yet seen
    receipt     \* budget_checkpoint of the last runtime-receipt.json

vars == <<budget, running, flight, receipt>>

---------------------------------------------------------------------------

Block == {"no", "truncated", "overrun"}
Budget == [calls : 0 .. MaxCalls, reserved : Nat, observed : Nat, reports : Nat,
           blocked : Block, truncated : BOOLEAN, retried : BOOLEAN]

Empty == [calls |-> 0, reserved |-> 0, observed |-> 0, reports |-> 0,
          blocked |-> "no", truncated |-> FALSE, retried |-> FALSE]

Upper(prompt) == InputPrice[prompt] + Base

\* reserve() raises, and nothing changes, unless all of this holds.
\* Bug: compares what is already reserved, without the call itself.
ReservablePast(b, prompt) ==
    /\ b.blocked = "no"
    /\ prompt \notin TooLong
    /\ b.calls < MaxCalls
    /\ Ceiling # NoCeiling => b.reserved <= Ceiling
Reservable(b, prompt) ==
    /\ b.blocked = "no"
    /\ prompt \notin TooLong
    /\ b.calls < MaxCalls
    /\ Ceiling # NoCeiling => b.reserved + Upper(prompt) <= Ceiling

Reserve(b, prompt) ==
    [b EXCEPT !.calls = @ + 1, !.reserved = @ + Upper(prompt)]

\* record_usage(): over is output above max_output_tokens.
\* Bug: the reservation is replaced by what was observed.
RecordObserved(b, price, over, cut) ==
    [b EXCEPT !.truncated = cut, !.reports = @ + 1,
              !.observed = @ + price,
              !.blocked = IF over THEN "overrun" ELSE IF cut THEN "truncated" ELSE @,
              !.reserved = b.observed + price]
Record(b, price, over, cut) ==
    [b EXCEPT !.truncated = cut, !.reports = @ + 1,
              !.observed = @ + price,
              !.blocked = IF over THEN "overrun" ELSE IF cut THEN "truncated" ELSE @,
              !.reserved = Max({@, b.observed + price})]

\* release_confirmed_truncation()
\* Bug: whether the last answer was truncated is not asked.
ReleasableAny(b, confirmed) ==
    \/ b.blocked = "truncated"
    \/ confirmed /\ b.blocked = "overrun"
Releasable(b, confirmed) ==
    \/ b.blocked = "truncated"
    \/ confirmed /\ b.truncated /\ b.blocked = "overrun"

Release(b) == [b EXCEPT !.blocked = "no"]

\* restore() accepts a checkpoint of the same limits only if this holds.
Restorable(b) ==
    /\ b.calls <= MaxCalls
    /\ b.reports <= b.calls
    /\ b.reserved >= b.observed
    /\ b.reserved >= b.calls * Base

\* Bug: forgets that the budget was blocked.
RestoredOpen(b) == [b EXCEPT !.blocked = "no"]
\* Bug: every process may spend anew.
RestoredFresh(b) == [Empty EXCEPT !.blocked = b.blocked]
Restored(b) == b

---------------------------------------------------------------------------

Init ==
    /\ budget = Empty
    /\ running = FALSE
    /\ flight = FALSE
    /\ receipt = None

\* A new process; a receipt that restore() refuses starts nothing.
Start ==
    /\ ~running
    /\ \/ receipt = None /\ budget' = Empty
       \/ receipt # None /\ Restorable(receipt) /\ budget' = Restored(receipt)
    /\ running' = TRUE
    /\ UNCHANGED <<flight, receipt>>

Send(prompt) ==
    /\ running /\ ~flight
    /\ Reservable(budget, prompt)
    /\ budget' = Reserve(budget, prompt)
    /\ flight' = TRUE
    /\ UNCHANGED <<running, receipt>>

\* The provider answers, or fails with a body that reports its usage.
Answer(price, over, cut) ==
    /\ flight
    /\ budget' = Record(budget, price, over, cut)
    /\ flight' = FALSE
    /\ UNCHANGED <<running, receipt>>

\* The call fails and reports nothing: its reservation stands.
Lose ==
    /\ flight
    /\ flight' = FALSE
    /\ UNCHANGED <<budget, running, receipt>>

Unblock(confirmed) ==
    /\ running /\ ~flight
    /\ Releasable(budget, confirmed)
    /\ budget' = Release(budget)
    /\ UNCHANGED <<running, flight, receipt>>

\* allow_truncated_retry(), of protocols before 16.
UnblockOnce(confirmed) ==
    /\ running /\ ~flight
    /\ ~budget.retried
    /\ Releasable(budget, confirmed)
    /\ budget' = [Release(budget) EXCEPT !.retried = TRUE]
    /\ UNCHANGED <<running, flight, receipt>>

\* The process ends, by itself or interrupted, and writes its receipt.
Stop ==
    /\ running
    /\ receipt' = budget
    /\ running' = FALSE
    /\ flight' = FALSE
    /\ UNCHANGED budget

\* The process is killed and writes none.
Kill ==
    /\ running
    /\ running' = FALSE
    /\ flight' = FALSE
    /\ UNCHANGED <<budget, receipt>>

Next ==
    \/ Start
    \/ \E prompt \in Prompt : Send(prompt)
    \/ \E price \in Report, over, cut \in BOOLEAN : Answer(price, over, cut)
    \/ Lose
    \/ \E confirmed \in BOOLEAN : Unblock(confirmed) \/ UnblockOnce(confirmed)
    \/ Stop
    \/ Kill

Spec == Init /\ [][Next]_vars

---------------------------------------------------------------------------
(* Properties. *)

TypeOK ==
    /\ budget \in Budget
    /\ running \in BOOLEAN /\ flight \in BOOLEAN
    /\ receipt \in Budget \union {None}

\* Every call sent, answered or not, is covered by what is reserved, and so is
\* everything the provider has reported.
EveryCallCovered ==
    /\ budget.reserved >= budget.calls * Base
    /\ budget.reserved >= budget.observed

\* A receipt, whatever its process did before it ended, passes the checks of
\* restore(): a paid run is never lost because its own receipt is refused.
ReceiptRestorable == receipt # None => Restorable(receipt)

\* Reservations alone never pass the ceiling, over any number of processes:
\* only the provider's own report of a higher price does.
CeilingKept ==
    Ceiling # NoCeiling => budget.reserved <= Ceiling \/ budget.reserved = budget.observed

\* What the next step goes on from: the running process's budget, or the last
\* receipt.  (A killed process writes none, and what it spent is forgotten.)
Carried == IF running THEN budget ELSE receipt

\* An answer above the output limit that was not truncated blocks the run for
\* good, in its process and in those that resume it.
OverrunIsFinal ==
    [][(running' /\ Carried # None /\ Carried.blocked = "overrun" /\ ~Carried.truncated)
           => budget'.blocked = "overrun"]_vars

\* Neither a process nor the one that resumes its receipt forgets a call or a
\* reservation, so neither limit can be passed by stopping and resuming.
SpendingOnlyGrows ==
    [][(running' /\ Carried # None)
           => budget'.calls >= Carried.calls /\ budget'.reserved >= Carried.reserved]_vars

=============================================================================
