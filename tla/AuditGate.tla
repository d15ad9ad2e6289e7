----------------------------- MODULE AuditGate -----------------------------
(***************************************************************************)
(* FinAuditGate (src/finauditgate/core/engine.py, core/artifacts.py).      *)
(* run() asks a model adapter for at most two proposals, evaluates each,   *)
(* and writes what happened as files that are never overwritten, the       *)
(* manifest last.  replay() decides from the files alone whether the       *)
(* stored decision follows.  Several processes may run the same task in    *)
(* one artifact root, and each may be killed at any point.                 *)
(*                                                                         *)
(* A run is named by the hash of its identity, which is modelled by the    *)
(* identity.  Digests, schemas and canonical bytes are taken to hold what  *)
(* they are digests and encodings of.                                      *)
(***************************************************************************)
EXTENDS ModelTrace, Naturals, SequencesExt

CONSTANTS
    Gate,    \* the processes, each with its FinAuditGate
    Private, \* those with a reviewed profile and a trace root
    MaxRuns  \* bound on the runs started

ASSUME GateAssumption == Private \subseteq Gate /\ MaxRuns \in Nat

VARIABLES
    pc,     \* of each gate: idle, asking or writing
    job,    \* the run it is at: its task, attempt entries and receipts
    step,   \* the files of that run written so far
    files,  \* the artifact root: by file name, the content under each run
    traces, \* the trace root
    started \* runs started

vars == <<pc, job, step, files, traces, started>>

Reviewed(task) == task.mode \in ReviewedModes
Policy(task) == IF Reviewed(task) THEN "reviewed" ELSE "synthetic"

\* candidate_from_proposal_snapshot() succeeds.
Canonical(proposal) == proposal.candidate # None /\ proposal.fits

Evaluated(policy, task, proposal) ==
    IF policy = "reviewed" THEN ReviewedVerdict(task.faults, proposal.candidate)
    ELSE SyntheticVerdict(task.faults, proposal.candidate)

\* A trace is not None.
ASSUME TraceAssumption ==
    \A task \in Task, attempt \in 0 .. 1, response \in Response : TraceOf(task, attempt, response) # None

---------------------------------------------------------------------------
(* What a run writes. *)

\* _attempt_entry()
Entry(proposal, candidate, decision, reason) ==
    [proposal |-> proposal, candidate |-> candidate, decision |-> decision, reason |-> reason]

EntryOf(policy, task, proposal) ==
    IF Canonical(proposal)
    THEN LET verdict == Evaluated(policy, task, proposal)
         IN Entry(proposal, proposal, verdict.decision, verdict.reason)
    ELSE Entry(proposal, None, "RETRY", "shape_invalid")

Missing == Entry(None, None, "RETRY", "missing")
Rejected == Entry(None, None, "RETRY", "rejected")

\* Some attempt of the run has a receipt; then all have (see Record).
Traced(j) == \E i \in DOMAIN j.receipts : j.receipts[i] # None
Receipts(j) == IF Traced(j) THEN j.receipts ELSE <<>>

\* The identity of a run, and so its name.
\* Bug: only the last attempt is part of it.
IdentityLastOnly(j) ==
    [task |-> j.task, candidate |-> Last(j.entries).candidate, attempts |-> <<Last(j.entries)>>,
     receipts |-> Receipts(j), policy |-> Policy(j.task)]
Identity(j) ==
    [task |-> j.task, candidate |-> Last(j.entries).candidate, attempts |-> j.entries,
     receipts |-> Receipts(j), policy |-> Policy(j.task)]

\* The ledger and the formula: of the accepted candidate, or of the failure.
Calculation(policy, task, last) ==
    IF last.decision = "ACCEPT"
    THEN [policy |-> policy, document |-> task.document, candidate |-> last.candidate]
    ELSE [decision |-> last.decision, reason |-> last.reason]

Outcome(run, task, policy, last) ==
    [run |-> run, task |-> task.id, document |-> task.document,
     calculation |-> Calculation(policy, task, last)]

ArtifactNames(traced) ==
    IF traced
    THEN <<"identity", "task", "candidate", "attempts", "policy", "ledger", "formula", "outcome", "model_trace">>
    ELSE <<"identity", "task", "candidate", "attempts", "policy", "ledger", "formula", "outcome">>

Artifact(run, j, name) ==
    CASE name = "identity"    -> Identity(j)
      [] name = "task"        -> j.task
      [] name = "candidate"   -> Identity(j).candidate
      [] name = "attempts"    -> j.entries
      [] name = "policy"      -> Policy(j.task)
      [] name = "model_trace" -> [receipts |-> j.receipts, entries |-> j.entries]
      [] name = "outcome"     -> Outcome(run, j.task, Policy(j.task), Last(j.entries))
      [] OTHER                -> Calculation(Policy(j.task), j.task, Last(j.entries))

\* _manifest_payload(): the digest of every artifact.
Manifest(run, j) ==
    [run |-> run, document |-> j.task.document, policy |-> Policy(j.task),
     artifacts |-> [name \in ToSet(ArtifactNames(Traced(j))) |-> Artifact(run, j, name)]]

FileName == ToSet(ArtifactNames(TRUE)) \union {"blob", "manifest"}

\* A file is stored under its run, the document under its own hash.
FileOf(j, name) ==
    LET run == Identity(j)
    IN CASE name = "blob"     -> [run |-> j.task.document, name |-> name, value |-> j.task.document]
         [] name = "manifest" -> [run |-> run, name |-> name, value |-> Manifest(run, j)]
         [] OTHER             -> [run |-> run, name |-> name, value |-> Artifact(run, j, name)]

\* The files of a run in the order they are written.
\* Bug: the manifest before the artifacts it lists.
NamesOfManifestFirst(j) == <<"blob", "manifest">> \o ArtifactNames(Traced(j))
NamesOf(j) == <<"blob">> \o ArtifactNames(Traced(j)) \o <<"manifest">>

---------------------------------------------------------------------------
(* replay(), by a gate that has the trace root. *)

Committed == {f.run : f \in files["manifest"]}
Stored(run, name) == {f.value : f \in {g \in files[name] : g.run = run}}
Read(run, name) == CHOOSE value \in Stored(run, name) : TRUE

\* What the entry of this attempt must be, when it can be one.
Recomputed(policy, task, traced, entry, attempt) ==
    IF entry.candidate # None
    THEN {e \in {EntryOf(policy, task, entry.candidate)} :
             entry.proposal = entry.candidate /\ Canonical(entry.candidate)}
    ELSE IF entry.reason = "shape_invalid"
    THEN {Entry(p, None, "RETRY", "shape_invalid") : p \in {entry.proposal} \ {None}}
    ELSE IF entry.proposal = None /\ (entry.reason = "missing" /\ attempt = 2)
    THEN {Missing}
    ELSE IF entry.proposal = None /\ entry.reason = "rejected" /\ traced
    THEN {Rejected}
    ELSE {}

AttemptsReplay(policy, task, traced, entries) ==
    /\ Len(entries) \in {1, 2}
    /\ \A i \in DOMAIN entries :
        /\ entries[i] \in Recomputed(policy, task, traced, entries[i], i)
        /\ entries[i].reason = "shape_invalid" /\ entries[i].candidate = None => ~Canonical(entries[i].proposal)
    /\ (Len(entries) = 2) <=> (entries[1].decision = "RETRY")

\* _verify_model_trace_summary()
SummaryVerifies(summary, task, entries) ==
    /\ summary.entries = entries
    /\ Len(summary.receipts) = Len(entries)
    /\ \A i \in DOMAIN entries :
        LET receipt == summary.receipts[i] IN
        IF entries[i].reason = "rejected"
        THEN TraceVerifies(traces, receipt, task, i - 1, None, receipt.failure)
        ELSE /\ entries[i].proposal # None /\ Canonical(entries[i].proposal)
             /\ TraceVerifies(traces, receipt, task, i - 1, entries[i].proposal, None)

Replays(run) ==
    /\ Stored(run, "manifest") # {}
    /\ LET manifest == Read(run, "manifest")
           names == DOMAIN manifest.artifacts
           traced == "model_trace" \in names
           task == Read(run, "task")
           policy == Read(run, "policy")
           entries == Read(run, "attempts")
           last == Last(entries)
       IN /\ manifest.run = run
          /\ names = ToSet(ArtifactNames(traced))
          /\ \A name \in names : Stored(run, name) = {manifest.artifacts[name]}
          /\ Stored(manifest.document, "blob") = {manifest.document}
          /\ policy = manifest.policy /\ (policy = "reviewed" => traced)
          /\ task.document = manifest.document
          /\ AttemptsReplay(policy, task, traced, entries)
          /\ Read(run, "candidate") = last.candidate
          /\ traced => SummaryVerifies(Read(run, "model_trace"), task, entries)
          /\ Read(run, "identity") = run
          /\ run = [task |-> task, candidate |-> Read(run, "candidate"), attempts |-> entries,
                    receipts |-> IF traced THEN Read(run, "model_trace").receipts ELSE <<>>,
                    policy |-> policy]
          /\ Read(run, "ledger") = Calculation(policy, task, last)
          /\ Read(run, "formula") = Calculation(policy, task, last)
          /\ Read(run, "outcome") = Outcome(run, task, policy, last)

---------------------------------------------------------------------------

NoJob == [task |-> None, entries |-> <<>>, receipts |-> <<>>]

Init ==
    /\ pc = [g \in Gate |-> "idle"]
    /\ job = [g \in Gate |-> NoJob]
    /\ step = [g \in Gate |-> 0]
    /\ files = [name \in FileName |-> {}] /\ traces = {}
    /\ started = 0

\* The gate leaves its run: it is done, raises an error, or is killed.
Leave(g) ==
    /\ pc' = [pc EXCEPT ![g] = "idle"]
    /\ job' = [job EXCEPT ![g] = NoJob]
    /\ step' = [step EXCEPT ![g] = 0]

Start(g, task) ==
    /\ pc[g] = "idle" /\ started < MaxRuns
    /\ Reviewed(task) => g \in Private
    /\ pc' = [pc EXCEPT ![g] = "asking"]
    /\ job' = [job EXCEPT ![g] = [NoJob EXCEPT !.task = task]]
    /\ started' = started + 1
    /\ UNCHANGED <<step, files, traces>>

\* RETRY_BUDGET is one.
AsksAgain(entries) == Last(entries).decision = "RETRY" /\ Len(entries) <= 1

\* An attempt has its entry: a first RETRY asks once more, anything else ends
\* the loop.  A run of which only some attempts are traced is not written.
Record(g, entry, receipt) ==
    LET j == [job[g] EXCEPT !.entries = Append(@, entry), !.receipts = Append(@, receipt)]
        again == AsksAgain(j.entries)
    IN IF again \/ (None \in ToSet(j.receipts) => ToSet(j.receipts) = {None})
       THEN /\ job' = [job EXCEPT ![g] = j]
            /\ pc' = [pc EXCEPT ![g] = IF again THEN "asking" ELSE "writing"]
            /\ UNCHANGED step
       ELSE Leave(g)

\* Bug: a reviewed task takes a proposal that has no trace.
UntracedAllowed(g) == pc[g] = "asking"
MayAnswerUntraced(g) == pc[g] = "asking" /\ ~Reviewed(job[g].task)

\* An adapter that keeps no trace, such as the scripted one.
AnswerUntraced(g, proposal) ==
    /\ MayAnswerUntraced(g)
    /\ Record(g, EntryOf(Policy(job[g].task), job[g].task, proposal), None)
    /\ UNCHANGED <<files, traces, started>>

\* The local model: the exchange is kept as a trace, and read back.
AnswerTraced(g, response) ==
    LET task == job[g].task
        trace == TraceOf(task, Len(job[g].entries), response)
    IN /\ pc[g] = "asking" /\ g \in Private
       /\ traces' = traces \union {trace}
       /\ TraceVerifies(traces', trace, task, Len(job[g].entries), trace.derived, trace.failure)
       /\ Record(g, IF trace.failure # None THEN Rejected
                    ELSE EntryOf(Policy(task), task, trace.derived), trace)
       /\ UNCHANGED <<files, started>>

\* A scripted adapter has no second proposal (LookupError).
AnswerMissing(g) ==
    /\ pc[g] = "asking" /\ job[g].entries # <<>>
    /\ Record(g, Missing, None)
    /\ UNCHANGED <<files, traces, started>>

\* write_once()
Conflicts(file) == \E f \in files[file.name] : f.run = file.run /\ f.value # file.value

Write(g) ==
    LET file == FileOf(job[g], NamesOf(job[g])[step[g] + 1]) IN
    /\ pc[g] = "writing"
    /\ IF Conflicts(file) THEN Leave(g) /\ UNCHANGED files
       ELSE /\ files' = [files EXCEPT ![file.name] = @ \union {file}]
            /\ IF step[g] + 1 = Len(NamesOf(job[g])) THEN Leave(g)
               ELSE step' = [step EXCEPT ![g] = @ + 1] /\ UNCHANGED <<pc, job>>
    /\ UNCHANGED <<traces, started>>

\* An adapter that fails (RuntimeError), or a process that is killed.
Stop(g) ==
    /\ pc[g] # "idle"
    /\ Leave(g)
    /\ UNCHANGED <<files, traces, started>>

Next ==
    \E g \in Gate :
        \/ \E task \in Task : Start(g, task)
        \/ \E proposal \in Proposal : AnswerUntraced(g, proposal)
        \/ \E response \in Response : AnswerTraced(g, response)
        \/ AnswerMissing(g) \/ Write(g) \/ Stop(g)

Spec == Init /\ [][Next]_vars

---------------------------------------------------------------------------
(* Properties. *)

EntryType ==
    [proposal : Proposal \union {None}, candidate : Proposal \union {None}, decision : Decision,
     reason : TaskFault \union ItemFault \union CalculationFault
                  \union {"none", "count", "shape_invalid", "missing", "rejected"}]

TypeOK ==
    /\ pc \in [Gate -> {"idle", "asking", "writing"}]
    /\ \A g \in Gate :
        /\ job[g].task \in Task \union {None} /\ (job[g].task = None <=> pc[g] = "idle")
        /\ job[g].entries \in Seq(EntryType) /\ Len(job[g].entries) <= 2
        /\ job[g].receipts \in Seq(traces \union {None}) /\ Len(job[g].receipts) = Len(job[g].entries)
        /\ step[g] \in 0 .. 10 /\ (step[g] > 0 => pc[g] = "writing")
    /\ started \in 0 .. MaxRuns

\* A proposal of the local model whose text is beyond the snapshot's limits.
TracedUnfit(run) ==
    run.receipts # <<>> /\ \E i \in DOMAIN run.attempts : run.attempts[i].reason = "shape_invalid"

\* A run that has its manifest replays to the decision it was given, whatever
\* other processes wrote and wherever they were killed; the one exception is
\* a traced proposal beyond the snapshot's limits.
CommittedReplays == \A run \in Committed : TracedUnfit(run) \/ Replays(run)

\* Two runs never write different bytes under one name, so that no process is
\* stopped by an artifact of another: a run that was killed can be completed
\* by one with the same identity.
NeverConflicts ==
    \A g \in Gate :
        pc[g] = "writing" => ~Conflicts(FileOf(job[g], NamesOf(job[g])[step[g] + 1]))

\* A task that its profile does not cover goes to a person: no proposal for
\* it is accepted or abstained from, and it is retried only for want of a
\* proposal.
UncoveredGoesToReview ==
    \A run \in Committed :
        LET last == Last(run.attempts)
            looked == IF run.policy = "reviewed" THEN ReviewedTaskOrder ELSE SyntheticTaskOrder
        IN run.task.faults \intersect ToSet(looked) # {} =>
               last.decision = "HUMAN_REVIEW" \/ (last.decision = "RETRY" /\ last.candidate = None)

\* Every attempt of a run on a reviewed profile is proven by a trace: of this
\* request, as far as a prompt tells tasks apart, and with a response that
\* makes this proposal.
ReviewedIsTraced ==
    \A run \in Committed : run.policy = "reviewed" =>
        \A i \in DOMAIN run.attempts :
            \E trace \in traces :
                /\ trace.request = Request(run.task, i - 1)
                /\ InspectedProposal(trace.response) = run.attempts[i].proposal

\* "The attempt is still replayable": a proposal that the snapshot replaces by
\* a descriptor leaves a run that replays.
UnfitReplays == \A run \in Committed : TracedUnfit(run) => Replays(run)
=============================================================================
