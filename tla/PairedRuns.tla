----------------------------- MODULE PairedRuns -----------------------------
(***************************************************************************)
(* Paired evaluation (src/finauditgate/evaluation/paired.py PairedRunner): *)
(* both arms answer a task, each output is a file named by its content,    *)
(* and a record binds the two; a person's assessment is appended to a      *)
(* record that verifies.  Pairs of different tasks share the files of      *)
(* equal outputs.  A runner may be killed between two files, and a file    *)
(* may be damaged by something outside of the program, which write_once()  *)
(* refuses to repair.                                                      *)
(***************************************************************************)
EXTENDS Nothing, Integers, SequencesExt, FiniteSets

CONSTANTS Runners, Tasks, Outputs, MaxDamage, MaxQa

VARIABLES
    outputs, \* by arm and output: None, "whole" or "damaged"
    records, \* pairs recorded: [task, baseline, gated]
    qa,      \* assessments: [pair, baseline, gated, classification]
    runners, \* [pair, todo]
    damage

pairedVars == <<outputs, records, qa, runners, damage>>

Arms == {"baseline", "gated"}

\* run(): both arms have answered before anything is written; the record is last.
\* Bug: the record is written before the outputs it binds.
RecordFirst == <<"record", "baseline", "gated">>
Files == <<"baseline", "gated", "record">>

\* _classification()
Right(correct) == IF correct THEN "RIGHT" ELSE "WRONG"
Classification(baseline, gated) == <<Right(baseline), Right(gated)>>

PairedInit ==
    /\ outputs = [a \in Arms |-> [o \in Outputs |-> None]]
    /\ records = {} /\ qa = {} /\ damage = 0
    /\ runners = [r \in Runners |-> [pair |-> None, todo |-> <<>>]]

Rest(r) == runners' = [runners EXCEPT ![r] = [pair |-> None, todo |-> <<>>]]

RunArms(r) ==
    /\ runners[r].pair = None
    /\ \E t \in Tasks, b, g \in Outputs :
          runners' = [runners EXCEPT ![r] = [pair |-> [task |-> t, baseline |-> b, gated |-> g], todo |-> Files]]
    /\ UNCHANGED <<outputs, records, qa, damage>>

\* _persist_arm_output(), and write_once() of the record: an equal file is left,
\* a different one is a conflict.
Persist(r) ==
    LET pair == runners[r].pair
        file == Head(runners[r].todo) IN
    /\ runners[r].todo # <<>>
    /\ IF file = "record"
       THEN /\ records' = records \union {pair}
            /\ runners' = [runners EXCEPT ![r].todo = Tail(@)]
            /\ UNCHANGED outputs
       ELSE /\ IF outputs[file][pair[file]] = "damaged"
               THEN Rest(r) /\ UNCHANGED outputs
               ELSE /\ outputs' = [outputs EXCEPT ![file][pair[file]] = "whole"]
                    /\ runners' = [runners EXCEPT ![r].todo = Tail(@)]
            /\ UNCHANGED records
    /\ UNCHANGED <<qa, damage>>

\* _verify_arm_output()
\* Bug: the record alone is read.
AnyOutput(pair, arm) == TRUE
OutputVerifies(pair, arm) == outputs[arm][pair[arm]] = "whole"

\* _read_verified_pair()
Verifies(pair) == pair \in records /\ \A a \in Arms : OutputVerifies(pair, a)

\* The runner returns, or is killed.
Leave(r) ==
    /\ runners[r].pair # None
    /\ Rest(r)
    /\ UNCHANGED <<outputs, records, qa, damage>>

\* record_human_qa(), of a pair that any process knows of.
RecordHumanQa ==
    /\ Cardinality(qa) < MaxQa
    /\ \E pair \in records, b, g \in BOOLEAN :
          /\ Verifies(pair)
          /\ qa' = qa \union {[pair |-> pair, baseline |-> b, gated |-> g,
                               classification |-> Classification(b, g)]}
    /\ UNCHANGED <<outputs, records, runners, damage>>

Damage ==
    /\ damage < MaxDamage
    /\ \E a \in Arms, o \in Outputs :
          outputs[a][o] = "whole" /\ outputs' = [outputs EXCEPT ![a][o] = "damaged"]
    /\ damage' = damage + 1
    /\ UNCHANGED <<records, qa, runners>>

PairedNext ==
    \/ \E r \in Runners : RunArms(r) \/ Persist(r) \/ Leave(r)
    \/ RecordHumanQa \/ Damage

PairedSpec == PairedInit /\ [][PairedNext]_pairedVars

---------------------------------------------------------------------------
(* Property. *)

\* A person can assess every recorded pair, wherever a runner was killed and
\* whoever shares its outputs, as long as no file of it was damaged; a damaged
\* one is never assessed and never silently replaced, so that each assessment
\* is of what the arms answered.
Intact(pair) == \A a \in Arms : outputs[a][pair[a]] # "damaged"
PairsAssessable ==
    \A pair \in records : Verifies(pair) <=> Intact(pair)
=============================================================================
