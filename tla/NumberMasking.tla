--------------------------- MODULE NumberMasking ---------------------------
(***************************************************************************)
(* A final report refused for its numbers: the repair of single sentences, *)
(* then the masking (protocol 24; src/finauditgate/adapters/               *)
(* thesis_repair.py and thesis_masking.py).                                *)
(*                                                                         *)
(* A stretch of prose is a sequence of sentences with numeral-like spots.  *)
(* The number contract reads a whole text, and what it says of a spot may  *)
(* depend on what stands around it, hidden numbers included: a contract is *)
(* a set of rules, each refusing the texts in which some sentences, some   *)
(* shown and hidden numbers and some replaced sentences come together.     *)
(***************************************************************************)
EXTENDS Integers, FiniteSetsExt

CONSTANTS
    Sentences,    \* the number of sentences of the stretch
    SpotsOf,      \* the spots of a sentence, counted through the stretch
    MaxSentences, \* how many sentences may be rewritten
    Contracts

VARIABLES
    rules,    \* the contract
    maskPhase, \* report; refused; hiding; showing; and accepted; repaired; masked; stopped
    sentence, \* the one at work
    whole,    \* the sentences replaced by one mark, or rewritten
    shown     \* the spots shown again

maskVars == <<rules, maskPhase, sentence, whole, shown>>

Stretch == 1 .. Sentences

ASSUME SpotsAssumption ==
    /\ Sentences \in Nat
    /\ \A i \in Stretch : SpotsOf[i] \subseteq Nat \ {0} /\ IsFiniteSet(SpotsOf[i])

\* No rule refuses every text.
ASSUME ContractsAssumption ==
    \A contract \in Contracts : \A rule \in contract :
        rule.words # {} \/ rule.shown # {} \/ rule.hidden # {} \/ rule.gone # {}

Spots(sentences) == UNION {SpotsOf[i] : i \in sentences}

\* A text: its sentences, the ones of them replaced, and the numbers shown.
Text(present, replaced, visible) == [present |-> present, replaced |-> replaced, visible |-> visible]
RefusedReport == Text(Stretch, {}, Spots(Stretch))

\* unbound_numbers(), report_context(): whether the contract refuses the text.
Refuses(text) ==
    LET kept == text.present \ text.replaced IN
    \E rule \in rules :
        /\ rule.words \subseteq kept
        /\ rule.shown \subseteq Spots(kept) \intersect text.visible
        /\ rule.hidden \subseteq Spots(kept) \ text.visible
        /\ rule.gone \subseteq text.present \intersect text.replaced

---------------------------------------------------------------------------
(* refused_sentences(), apply_replacements() *)

Found == {i \in Stretch : Refuses(Text({i}, {}, Spots({i})))}

\* The report with the found sentences rewritten, but for the ones kept.
Placed(keep) == Text(Stretch, Found \ keep, Spots(Stretch))

Repairable == Cardinality(Found) \in 1 .. MaxSentences /\ ~Refuses(Placed({}))
Kept == IF Repairable THEN {i \in Found : Refuses(Placed({i}))} ELSE {}

MaskInit ==
    /\ rules \in Contracts
    /\ maskPhase = "report" /\ sentence = 1 /\ whole = {} /\ shown = {}

Check ==
    /\ maskPhase = "report"
    /\ maskPhase' = IF Refuses(RefusedReport) THEN "refused" ELSE "accepted"
    /\ UNCHANGED <<rules, sentence, whole, shown>>

\* The model rewrites the sentences it was asked for, well or as bad as before;
\* the complete report is checked again.
Repair ==
    /\ maskPhase = "refused" /\ Kept # {}
    /\ \E well \in SUBSET Kept :
          /\ ~Refuses(Text(Stretch, well, Spots(Stretch)))
          /\ whole' = well
    /\ maskPhase' = "repaired" /\ shown' = Spots(Stretch)
    /\ UNCHANGED <<rules, sentence>>

\* No sentence to rewrite, no call left for it, or it did not pass.
Unrepaired ==
    /\ maskPhase = "refused"
    /\ maskPhase' = "hiding"
    /\ UNCHANGED <<rules, sentence, whole, shown>>

---------------------------------------------------------------------------
(* _masked_stretch() *)

Masked(marked, visible) == Text(Stretch, marked, visible)
Prefix(marked) == Text(1 .. sentence, marked, {})

\* Every spot hidden; a sentence that still fails after the text before it is
\* replaced by one mark.
Hide ==
    /\ maskPhase = "hiding" /\ sentence <= Sentences
    /\ IF ~Refuses(Prefix(whole))
       THEN sentence' = sentence + 1 /\ UNCHANGED <<whole, maskPhase>>
       ELSE IF ~Refuses(Prefix(whole \union {sentence}))
       THEN sentence' = sentence + 1 /\ whole' = whole \union {sentence} /\ UNCHANGED maskPhase
       ELSE maskPhase' = "stopped" /\ UNCHANGED <<sentence, whole>>
    /\ UNCHANGED <<rules, shown>>

Hidden ==
    /\ maskPhase = "hiding" /\ sentence > Sentences
    /\ maskPhase' = "showing" /\ sentence' = 1
    /\ UNCHANGED <<rules, whole, shown>>

\* What a sentence may show: all of its spots if the stretch passes with them,
\* else one after the other, from left to right.
\* Bug: the numbers are tried against the text up to their sentence.
TriedInPrefix(group) ==
    LET Passes(visible) == ~Refuses(Text(1 .. sentence, whole, visible))
        After[n \in 0 .. Max(group)] ==
            IF n = 0 THEN shown
            ELSE IF n \in group /\ Passes(After[n - 1] \union {n}) THEN After[n - 1] \union {n} ELSE After[n - 1]
    IN IF Passes(shown \union group) THEN shown \union group ELSE After[Max(group)]
Tried(group) ==
    LET Passes(visible) == ~Refuses(Masked(whole, visible))
        After[n \in 0 .. Max(group)] ==
            IF n = 0 THEN shown
            ELSE IF n \in group /\ Passes(After[n - 1] \union {n}) THEN After[n - 1] \union {n} ELSE After[n - 1]
    IN IF Passes(shown \union group) THEN shown \union group ELSE After[Max(group)]

Show ==
    /\ maskPhase = "showing" /\ sentence <= Sentences
    /\ shown' = IF sentence \in whole \/ SpotsOf[sentence] = {} THEN shown ELSE Tried(SpotsOf[sentence])
    /\ sentence' = sentence + 1
    /\ UNCHANGED <<rules, maskPhase, whole>>

\* mask_numbers(): the masked report is checked as a whole.
Deliver ==
    /\ maskPhase = "showing" /\ sentence > Sentences
    /\ maskPhase' = IF Refuses(Masked(whole, shown)) THEN "stopped" ELSE "masked"
    /\ UNCHANGED <<rules, sentence, whole, shown>>

MaskNext == Check \/ Repair \/ Unrepaired \/ Hide \/ Hidden \/ Show \/ Deliver

MaskSpec == MaskInit /\ [][MaskNext]_maskVars

---------------------------------------------------------------------------
(* Properties. *)

\* A contract for which hiding more never makes a text worse.
Monotone == \A rule \in rules : rule.hidden = {} /\ rule.gone = {}

\* Hidden numbers are shown again one after another while the contract reads
\* the whole stretch: whatever was decided before, the stretch passes at every
\* step, so that masking stops only where a replaced sentence itself is refused;
\* and under a monotone contract no number is hidden that could be shown.
MaskingPasses ==
    /\ maskPhase \in {"showing", "masked", "repaired"} => ~Refuses(Masked(whole, shown))
    /\ maskPhase = "stopped" => sentence <= Sentences /\ \E rule \in rules : rule.gone # {}
    /\ maskPhase = "masked" /\ Monotone =>
          \A spot \in Spots(Stretch \ whole) \ shown : Refuses(Masked(whole, shown \union {spot}))
    /\ maskPhase = "masked" => Refuses(RefusedReport)
=============================================================================
