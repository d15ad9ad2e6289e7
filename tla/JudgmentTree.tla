---------------------------- MODULE JudgmentTree ---------------------------
(***************************************************************************)
(* The prior judgments a judgment rests on                                 *)
(* (src/finauditgate/core/judgment.py).                                    *)
(*                                                                         *)
(* A record is named by its hash and names the records it builds on, so    *)
(* the records form a graph without cycles, in which nodes are shared.     *)
(* Before a judgment is run or replayed the graph below it is read, every  *)
(* record is evaluated again, and a record met twice comes from a cache.   *)
(* What a node claims is abstracted to whether the sources support it, and *)
(* a manager's decisions to the priors whose claim is asked and used.      *)
(***************************************************************************)
EXTENDS Nothing, Integers, SequencesExt

CONSTANTS
    Forests,  \* the records on disk and the task, each a record as below
    Managers  \* the places in NODES of the two managers

\* The records a record builds on are all on disk.
ASSUME ForestsAssumption ==
    \A forest \in Forests :
        \A judgment \in {forest.task} \union {forest.records[n] : n \in DOMAIN forest.records} :
            judgment.priors \in Seq(DOMAIN forest.records)

VARIABLES
    judgments, \* on disk: [node, source, priors, supported, asked, used], by name
    task,      \* the judgment at hand, of the same fields
    frames,    \* the calls of _prior_tree() at work: whose priors, and which are left
    cache,
    verdict    \* none; accepted; refused

treeVars == <<judgments, task, frames, cache, verdict>>

\* _prior_tree(): source identity and chronology belong to every edge.
\* Bug: what is in the cache was checked before.
EdgeLegalOnce(parent, name) ==
    name \in cache \/ (judgments[name].source = parent.source /\ judgments[name].node < parent.node)
EdgeLegal(parent, name) == judgments[name].source = parent.source /\ judgments[name].node < parent.node

\* _claim(): whether every number and source a claim names is in the catalog.
Supported(name) == judgments[name].supported

\* _evaluate(): what a judgment uses of its direct priors; other nodes have no decisions.
Used(judgment) ==
    IF judgment.node \in Managers THEN {p \in judgment.asked : Supported(p)} ELSE {}
Evaluates(judgment) ==
    /\ judgment.node \notin Managers => judgment.asked = {}
    /\ judgment.asked \subseteq ToSet(judgment.priors)
    /\ judgment.used = Used(judgment)

---------------------------------------------------------------------------

TreeInit ==
    /\ \E forest \in Forests : judgments = forest.records /\ task = forest.task
    /\ frames = <<[judgment |-> task, name |-> None, left |-> task.priors]>>
    /\ cache = {} /\ verdict = "none"

Frame == Last(frames)
Advanced(calls) == [calls EXCEPT ![Len(calls)].left = Tail(@)]

\* The next prior of the innermost call, from the cache or from disk.
Descend ==
    /\ verdict = "none" /\ frames # <<>> /\ Frame.left # <<>>
    /\ LET name == Head(Frame.left) IN
       IF ~EdgeLegal(Frame.judgment, name)
       THEN verdict' = "refused" /\ UNCHANGED frames
       ELSE /\ frames' = IF name \in cache THEN Advanced(frames)
                         ELSE Append(frames, [judgment |-> judgments[name], name |-> name,
                                              left |-> judgments[name].priors])
            /\ UNCHANGED verdict
    /\ UNCHANGED <<judgments, task, cache>>

\* The priors of a record were read: it must evaluate to what it says.
Evaluate ==
    /\ verdict = "none" /\ Len(frames) > 1 /\ Frame.left = <<>>
    /\ IF Evaluates(Frame.judgment)
       THEN /\ cache' = cache \union {Frame.name}
            /\ frames' = Advanced(Front(frames))
            /\ UNCHANGED verdict
       ELSE verdict' = "refused" /\ UNCHANGED <<cache, frames>>
    /\ UNCHANGED <<judgments, task>>

\* run(), replay(): the judgment itself.
Judge ==
    /\ verdict = "none" /\ Len(frames) = 1 /\ Frame.left = <<>>
    /\ verdict' = IF Evaluates(task) THEN "accepted" ELSE "refused"
    /\ UNCHANGED <<judgments, task, frames, cache>>

TreeNext == Descend \/ Evaluate \/ Judge

TreeSpec == TreeInit /\ [][TreeNext]_treeVars

---------------------------------------------------------------------------
(* Properties. *)

\* The records below these, over any number of edges: what is in every set of
\* records that holds these and, of each of its members, the priors.
Closed(names) == \A n \in names : ToSet(judgments[n].priors) \subseteq names
Below(names) ==
    {n \in DOMAIN judgments :
        \A s \in SUBSET DOMAIN judgments : names \subseteq s /\ Closed(s) => n \in s}

\* A judgment rests on earlier ones of its source and says what they support.
Stands(judgment) ==
    /\ Evaluates(judgment)
    /\ \A p \in ToSet(judgment.priors) :
          judgments[p].source = judgment.source /\ judgments[p].node < judgment.node

\* Shared nodes are checked once and their edges every time: a judgment is
\* accepted exactly if every edge below it is legal and every record below it,
\* itself included, says what its direct priors support.
TreeSound ==
    /\ verdict = "accepted" => Stands(task) /\ \A n \in Below(ToSet(task.priors)) : Stands(judgments[n])
    /\ verdict = "refused" => ~Stands(task) \/ \E n \in Below(ToSet(task.priors)) : ~Stands(judgments[n])
=============================================================================
