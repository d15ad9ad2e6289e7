-------------------------- MODULE AuditGateProofs --------------------------
(***************************************************************************)
(* What AuditGate promises, for every set of gates, tasks and proposals.   *)
(* No two runs ever conflict over a file: the identity of a run, which is  *)
(* its name, determines the bytes of each of its files (Content), and the  *)
(* invariant StoreInv says it of every file in the artifact root.          *)
(* A run whose manifest is there replays: the manifest is written last     *)
(* (KeptInv), so that every other file is there and is what the name       *)
(* determines, and the entries, receipts and decisions that the name holds *)
(* are those a replay recomputes (TracedInv, MadeInv).  A task with a      *)
(* fault goes to a person, because the evaluators report it first.         *)
(*                                                                         *)
(* And what the cashflow check and its investigation promise               *)
(* (CashflowRun), at the end.                                              *)
(***************************************************************************)
EXTENDS AuditGate, CashflowRun, SelectionsProofs, SequenceTheorems, TLAPS

\* The one value of the artifact of this name that a run of this name has.
ArtifactContent(run, name) ==
    CASE name = "identity"    -> run
      [] name = "task"        -> run.task
      [] name = "candidate"   -> run.candidate
      [] name = "attempts"    -> run.attempts
      [] name = "policy"      -> run.policy
      [] name = "model_trace" -> [receipts |-> run.receipts, entries |-> run.attempts]
      [] name = "outcome"     -> Outcome(run, run.task, run.policy, Last(run.attempts))
      [] OTHER                -> Calculation(run.policy, run.task, Last(run.attempts))

ManifestContent(run) ==
    [run |-> run, document |-> run.task.document, policy |-> run.policy,
     artifacts |-> [name \in ToSet(ArtifactNames(run.receipts # <<>>)) |-> ArtifactContent(run, name)]]

\* The document is stored under its own hash.
Content(run, name) ==
    CASE name = "blob"     -> run
      [] name = "manifest" -> ManifestContent(run)
      [] OTHER             -> ArtifactContent(run, name)

FilesDetermined == \A name \in FileName : \A f \in files[name] : f.value = Content(f.run, name)

\* A gate that writes has a file left to write.
StepInv ==
    \A g \in Gate :
        /\ step[g] \in Nat
        /\ IF pc[g] = "writing" THEN step[g] < Len(NamesOf(job[g])) ELSE step[g] = 0

StoreInv ==
    /\ DOMAIN files = FileName
    /\ pc \in [Gate -> {"idle", "asking", "writing"}]
    /\ DOMAIN job = Gate
    /\ DOMAIN step = Gate
    /\ FilesDetermined
    /\ StepInv

---------------------------------------------------------------------------
(* The names of a run's files. *)

\* Only a traced run has a model_trace, and no artifact is a blob or manifest.
LEMMA ArtifactNamesSeq ==
    ASSUME NEW traced \in BOOLEAN
    PROVE  /\ ArtifactNames(traced) \in Seq(FileName)
           /\ Len(ArtifactNames(traced)) \in {8, 9}
           /\ "model_trace" \in ToSet(ArtifactNames(traced)) => traced
           /\ "blob" \notin ToSet(ArtifactNames(traced))
           /\ "manifest" \notin ToSet(ArtifactNames(traced))
<1>1. CASE traced
  <2>1. \A i \in 1 .. 9 : ArtifactNames(TRUE)[i] \in FileName
    BY DEF ArtifactNames, FileName, ToSet
  <2> QED
    BY <1>1, <2>1 DEF ArtifactNames, ToSet
<1>2. CASE ~traced
  <2>1. \A i \in 1 .. 8 : ArtifactNames(FALSE)[i] = ArtifactNames(TRUE)[i]
    BY DEF ArtifactNames
  <2>2. \A i \in 1 .. 8 : ArtifactNames(FALSE)[i] \in FileName
    BY <2>1 DEF FileName, ToSet, ArtifactNames
  <2> QED
    BY <1>2, <2>2 DEF ArtifactNames, ToSet
<1> QED
  BY <1>1, <1>2

\* A run has files, of known names, the model_trace only if it is traced.
LEMMA NamesOfRun ==
    ASSUME NEW j
    PROVE  /\ NamesOf(j) \in Seq(FileName)
           /\ Len(NamesOf(j)) \in Nat \ {0}
           /\ \A i \in 1 .. Len(NamesOf(j)) :
                 NamesOf(j)[i] \in FileName /\ (NamesOf(j)[i] = "model_trace" => Traced(j))
<1> DEFINE names == ArtifactNames(Traced(j))
           front == <<"blob">> \o names
<1>1. Traced(j) \in BOOLEAN
  BY DEF Traced
<1>2. /\ names \in Seq(FileName) /\ Len(names) \in {8, 9}
      /\ "model_trace" \in ToSet(names) => Traced(j)
  BY <1>1, ArtifactNamesSeq
<1>3. "blob" \in FileName /\ "manifest" \in FileName
  BY DEF FileName
<1>4. <<"blob">> \in Seq(FileName) /\ <<"manifest">> \in Seq(FileName)
  BY <1>3
<1>5. /\ front \in Seq(FileName) /\ Len(front) = 1 + Len(names)
      /\ \A i \in 1 .. Len(front) : front[i] = IF i <= 1 THEN "blob" ELSE names[i - 1]
  <2> HIDE DEF names
  <2> QED
    BY <1>2, <1>4, ConcatProperties
<1>6. /\ NamesOf(j) = front \o <<"manifest">>
      /\ NamesOf(j) \in Seq(FileName) /\ Len(NamesOf(j)) = Len(front) + 1
      /\ \A i \in 1 .. Len(NamesOf(j)) :
            NamesOf(j)[i] = IF i <= Len(front) THEN front[i] ELSE "manifest"
  <2>1. NamesOf(j) = front \o <<"manifest">>
    BY DEF NamesOf
  <2> HIDE DEF front
  <2> QED
    BY <1>4, <1>5, <2>1, ConcatProperties
<1>7. ASSUME NEW i \in 1 .. Len(NamesOf(j))
      PROVE  NamesOf(j)[i] \in FileName /\ (NamesOf(j)[i] = "model_trace" => Traced(j))
  <2> HIDE DEF names, front
  <2>1. NamesOf(j)[i] \in FileName
    BY <1>6, ElementOfSeq
  <2>2. ASSUME NamesOf(j)[i] = "model_trace" PROVE Traced(j)
    <3>1. i \in 2 .. Len(front) /\ front[i] = names[i - 1] /\ i - 1 \in 1 .. Len(names)
      BY <1>2, <1>5, <1>6, <2>2
    <3>2. i - 1 \in DOMAIN names /\ names[i - 1] = "model_trace"
      BY <1>2, <1>5, <1>6, <2>2, <3>1, LenProperties
    <3> QED
      BY <1>2, <3>2 DEF ToSet
  <2> QED
    BY <2>1, <2>2
<1> QED
  BY <1>2, <1>5, <1>6, <1>7

---------------------------------------------------------------------------
(* The name of a run determines what it writes. *)

\* Whether a run is traced shows in its identity.
LEMMA ReceiptsTellTraced ==
    ASSUME NEW j
    PROVE  /\ Traced(j) => Receipts(j) = j.receipts
           /\ Traced(j) <=> Receipts(j) # <<>>
BY DEF Traced, Receipts

\* So do the bytes of its artifacts.
LEMMA ArtifactDetermined ==
    ASSUME NEW j, NEW name, name = "model_trace" => Traced(j)
    PROVE  Artifact(Identity(j), j, name) = ArtifactContent(Identity(j), name)
BY ReceiptsTellTraced DEF Artifact, ArtifactContent, Identity

\* And those of every file that it writes.
LEMMA FileDetermined ==
    ASSUME NEW j, NEW name, name = "model_trace" => Traced(j)
    PROVE  /\ FileOf(j, name).name = name
           /\ FileOf(j, name).value = Content(FileOf(j, name).run, name)
<1> DEFINE run == Identity(j)
<1>1. CASE name = "blob"
  BY <1>1 DEF FileOf, Content
<1>2. CASE name = "manifest"
  <2>1. ASSUME NEW n \in ToSet(ArtifactNames(Traced(j)))
        PROVE  Artifact(run, j, n) = ArtifactContent(run, n)
    <3>1. Traced(j) \in BOOLEAN
      BY DEF Traced
    <3>2. n = "model_trace" => Traced(j)
      BY <3>1, ArtifactNamesSeq
    <3> QED
      BY <3>2, ArtifactDetermined
  <2>2. Traced(j) = (run.receipts # <<>>)
    <3>1. run.receipts = Receipts(j)
      BY DEF Identity
    <3>2. Traced(j) \in BOOLEAN
      BY DEF Traced
    <3> QED
      BY <3>1, <3>2, ReceiptsTellTraced
  <2>3. run.task = j.task /\ run.policy = Policy(j.task)
    BY DEF Identity
  <2>4. Manifest(run, j) = ManifestContent(run)
    <3> HIDE DEF run
    <3> QED
      BY <2>1, <2>2, <2>3 DEF Manifest, ManifestContent
  <2> QED
    BY <1>2, <2>4 DEF FileOf, Content
<1>3. CASE name \notin {"blob", "manifest"}
  BY <1>3, ArtifactDetermined DEF FileOf, Content
<1> QED
  BY <1>1, <1>2, <1>3

---------------------------------------------------------------------------
(* Every step keeps the invariant. *)

\* Initially the artifact root is empty.
LEMMA InitStore == Init => StoreInv
BY DEF Init, StoreInv, FilesDetermined, StepInv

\* Leaving a run starts the gate afresh.
LEMMA LeaveStore ==
    ASSUME StoreInv, NEW g \in Gate, Leave(g)
    PROVE  /\ pc' \in [Gate -> {"idle", "asking", "writing"}]
           /\ DOMAIN job' = Gate /\ DOMAIN step' = Gate
           /\ StepInv'
BY DEF StoreInv, StepInv, Leave, NamesOf

\* A job that is asked or becomes ready to be written has written nothing yet.
LEMMA RecordStore ==
    ASSUME StoreInv, NEW g \in Gate, NEW entry, NEW receipt, pc[g] = "asking",
           Record(g, entry, receipt)
    PROVE  /\ pc' \in [Gate -> {"idle", "asking", "writing"}]
           /\ DOMAIN job' = Gate /\ DOMAIN step' = Gate
           /\ StepInv'
<1> DEFINE j == [job[g] EXCEPT !.entries = Append(@, entry), !.receipts = Append(@, receipt)]
           again == AsksAgain(j.entries)
<1>1. CASE Leave(g)
  BY <1>1, LeaveStore
<1>2. CASE /\ job' = [job EXCEPT ![g] = j]
           /\ pc' = [pc EXCEPT ![g] = IF again THEN "asking" ELSE "writing"]
           /\ UNCHANGED step
  <2> HIDE DEF j, again
  <2>1. /\ pc' \in [Gate -> {"idle", "asking", "writing"}]
        /\ DOMAIN job' = Gate /\ DOMAIN step' = Gate
    BY <1>2 DEF StoreInv
  <2>2. ASSUME NEW h \in Gate
        PROVE  /\ step'[h] \in Nat
               /\ IF pc'[h] = "writing" THEN step'[h] < Len(NamesOf(job'[h])) ELSE step'[h] = 0
    <3>1. CASE h = g
      <4>1. step'[g] = 0
        BY <1>2 DEF StoreInv, StepInv
      <4>2. Len(NamesOf(job'[g])) \in Nat \ {0}
        BY NamesOfRun
      <4> QED
        BY <3>1, <4>1, <4>2
    <3>2. CASE h # g
      <4>1. step'[h] = step[h] /\ pc'[h] = pc[h] /\ job'[h] = job[h]
        BY <1>2, <3>2 DEF StoreInv
      <4> QED
        BY <4>1 DEF StoreInv, StepInv
    <3> QED
      BY <3>1, <3>2
  <2>3. StepInv'
    BY <2>2 DEF StepInv
  <2> QED
    BY <2>1, <2>3
<1> QED
  BY <1>1, <1>2 DEF Record

\* Nor has one that starts.
LEMMA StartStore ==
    ASSUME StoreInv, NEW g \in Gate, NEW task \in Task, Start(g, task)
    PROVE  StoreInv'
BY DEF StoreInv, FilesDetermined, StepInv, Start, NamesOf

\* A file that is written is one of the run's, and there is another unless it is the last.
LEMMA WriteStore ==
    ASSUME StoreInv, NEW g \in Gate, Write(g)
    PROVE  StoreInv'
<1> DEFINE i == step[g] + 1
           name == NamesOf(job[g])[i]
           file == FileOf(job[g], name)
<1>1. /\ pc[g] = "writing" /\ step[g] \in Nat
      /\ i \in 1 .. Len(NamesOf(job[g]))
      /\ Len(NamesOf(job[g])) \in Nat \ {0}
  <2>1. pc[g] = "writing" /\ step[g] \in Nat /\ step[g] < Len(NamesOf(job[g]))
    BY DEF Write, StoreInv, StepInv
  <2>2. Len(NamesOf(job[g])) \in Nat \ {0}
    BY NamesOfRun
  <2> QED
    BY <2>1, <2>2
<1>2. name \in FileName /\ file.name = name /\ file.value = Content(file.run, name)
  <2>1. name \in FileName /\ (name = "model_trace" => Traced(job[g]))
    BY <1>1, NamesOfRun
  <2> QED
    BY <2>1, FileDetermined
<1>3. CASE Leave(g) /\ UNCHANGED files
  BY <1>3, LeaveStore DEF StoreInv, FilesDetermined
<1>4. CASE files' = [files EXCEPT ![file.name] = @ \union {file}]
  <2> HIDE DEF name, file, i
  <2>1. DOMAIN files' = FileName
    BY <1>4 DEF StoreInv
  <2>2. FilesDetermined'
    <3>1. ASSUME NEW n \in FileName, NEW f \in files'[n]
          PROVE  f.value = Content(f.run, n)
      <4>1. CASE f \in files[n]
        BY <4>1 DEF StoreInv, FilesDetermined
      <4>2. CASE f \notin files[n]
        <5>1. n = name /\ f = file
          BY <1>2, <1>4, <3>1, <4>2 DEF StoreInv
        <5> QED
          BY <1>2, <5>1
      <4> QED
        BY <4>1, <4>2
    <3> QED
      BY <3>1 DEF FilesDetermined
  <2>3. /\ pc' \in [Gate -> {"idle", "asking", "writing"}]
        /\ DOMAIN job' = Gate /\ DOMAIN step' = Gate
        /\ StepInv'
    <3>1. CASE Leave(g)
      BY <3>1, LeaveStore
    <3>2. CASE /\ i # Len(NamesOf(job[g]))
               /\ step' = [step EXCEPT ![g] = @ + 1]
               /\ UNCHANGED <<pc, job>>
      BY <1>1, <3>2 DEF StoreInv, StepInv, i
    <3>3. Leave(g) \/ (i # Len(NamesOf(job[g])) /\ step' = [step EXCEPT ![g] = @ + 1]
                          /\ UNCHANGED <<pc, job>>)
      <4>1. CASE Conflicts(file)
        BY <4>1 DEF Write, i, name, file
      <4>2. CASE ~Conflicts(file)
        BY <4>2 DEF Write, i, name, file
      <4> QED
        BY <4>1, <4>2
    <3> QED
      BY <3>1, <3>2, <3>3
  <2> QED
    BY <2>1, <2>2, <2>3 DEF StoreInv
<1> QED
  BY <1>3, <1>4 DEF Write

\* Every step keeps what is known of the files.
LEMMA NextStore == StoreInv /\ [Next]_vars => StoreInv'
<1> SUFFICES ASSUME StoreInv, [Next]_vars
             PROVE  StoreInv'
  OBVIOUS
<1>1. ASSUME NEW g \in Gate, NEW task \in Task, Start(g, task)
      PROVE  StoreInv'
  BY <1>1, StartStore
<1>2. ASSUME NEW g \in Gate, NEW proposal \in Proposal, AnswerUntraced(g, proposal)
      PROVE  StoreInv'
  <2>1. pc[g] = "asking" /\ UNCHANGED files
    BY <1>2 DEF AnswerUntraced, MayAnswerUntraced
  <2> QED
    BY <1>2, <2>1, RecordStore DEF AnswerUntraced, StoreInv, FilesDetermined
<1>3. ASSUME NEW g \in Gate, NEW response \in Response, AnswerTraced(g, response)
      PROVE  StoreInv'
  <2>1. pc[g] = "asking" /\ UNCHANGED files
    BY <1>3 DEF AnswerTraced
  <2>2. \E entry, receipt : Record(g, entry, receipt)
    BY <1>3 DEF AnswerTraced
  <2> QED
    BY <2>1, <2>2, RecordStore DEF StoreInv, FilesDetermined
<1>4. ASSUME NEW g \in Gate, AnswerMissing(g)
      PROVE  StoreInv'
  <2>1. pc[g] = "asking" /\ UNCHANGED files
    BY <1>4 DEF AnswerMissing
  <2> QED
    BY <1>4, <2>1, RecordStore DEF AnswerMissing, StoreInv, FilesDetermined
<1>5. ASSUME NEW g \in Gate, Write(g)
      PROVE  StoreInv'
  BY <1>5, WriteStore
<1>6. ASSUME NEW g \in Gate, Stop(g)
      PROVE  StoreInv'
  BY <1>6, LeaveStore DEF Stop, StoreInv, FilesDetermined
<1>7. CASE UNCHANGED vars
  BY <1>7 DEF vars, StoreInv, FilesDetermined, StepInv
<1> QED
  BY <1>1, <1>2, <1>3, <1>4, <1>5, <1>6, <1>7 DEF Next

---------------------------------------------------------------------------

\* Every file in the artifact root has the bytes that its name determines,
\* whatever gates were killed or ran the same task at once (write_once, the
\* identity in core/engine.py).
THEOREM FilesAreDetermined == Spec => []StoreInv
BY InitStore, NextStore, PTL DEF Spec

\* A file that is determined by its name agrees with the one that is there.
LEMMA DeterminedNeverConflicts == StoreInv => NeverConflicts
<1> SUFFICES ASSUME StoreInv, NEW g \in Gate, pc[g] = "writing"
             PROVE  ~Conflicts(FileOf(job[g], NamesOf(job[g])[step[g] + 1]))
  BY DEF NeverConflicts
<1> DEFINE name == NamesOf(job[g])[step[g] + 1]
           file == FileOf(job[g], name)
<1>1. name \in FileName /\ file.name = name /\ file.value = Content(file.run, name)
  <2>1. step[g] \in Nat /\ step[g] < Len(NamesOf(job[g])) /\ Len(NamesOf(job[g])) \in Nat
    BY NamesOfRun DEF StoreInv, StepInv
  <2>2. step[g] + 1 \in 1 .. Len(NamesOf(job[g]))
    BY <2>1
  <2>3. name \in FileName /\ (name = "model_trace" => Traced(job[g]))
    BY <2>2, NamesOfRun
  <2> QED
    BY <2>3, FileDetermined
<1> HIDE DEF name, file
<1>2. ~Conflicts(file)
  BY <1>1 DEF Conflicts, StoreInv, FilesDetermined
<1> QED
  BY <1>2 DEF name, file

\* Two runs never write different bytes under one name, so no process of the
\* gate is stopped by an artifact that another, or a killed one, left.
THEOREM GateNeverConflicts == Spec => []NeverConflicts
BY FilesAreDetermined, DeterminedNeverConflicts, PTL

---------------------------------------------------------------------------
(* The traces behind the runs on reviewed profiles. *)

IsSeq(s) == \E S : s \in Seq(S)

\* This attempt of this job has a trace, of its request and its proposal.
Proven(j, i) ==
    /\ j.receipts[i] \in traces /\ j.receipts[i] # None
    /\ j.receipts[i].request = Request(j.task, i - 1)
    /\ InspectedProposal(j.receipts[i].response) = j.entries[i].proposal

\* Until a job is written its second attempt may lack a trace; then all have one.
JobTraced(j, control) ==
    /\ j \in [task : {j.task}, entries : {j.entries}, receipts : {j.receipts}]
    /\ j.task \in Task /\ IsSeq(j.entries) /\ IsSeq(j.receipts)
    /\ Len(j.entries) = Len(j.receipts)
    /\ control = "asking" => Len(j.entries) <= 1
    /\ Reviewed(j.task) =>
          /\ \A i \in 1 .. Len(j.entries) : Proven(j, i) \/ (i # 1 /\ j.receipts[i] = None)
          /\ control = "writing" => \A i \in 1 .. Len(j.entries) : Proven(j, i)

RunTraced(run) ==
    run.policy = "reviewed" =>
        \A i \in DOMAIN run.attempts :
            \E trace \in traces :
                /\ trace.request = Request(run.task, i - 1)
                /\ InspectedProposal(trace.response) = run.attempts[i].proposal

TracedInv ==
    /\ StoreInv
    /\ \A g \in Gate : pc[g] # "idle" => JobTraced(job[g], pc[g])
    /\ \A run \in Committed : RunTraced(run)

\* One element more.
LEMMA AppendOne ==
    ASSUME NEW s, IsSeq(s), NEW e
    PROVE  /\ IsSeq(Append(s, e)) /\ Len(s) \in Nat /\ Len(Append(s, e)) = Len(s) + 1
           /\ Append(s, e)[Len(s) + 1] = e
           /\ \A i \in 1 .. Len(s) : Append(s, e)[i] = s[i]
<1>1. PICK S : s \in Seq(S)
  BY DEF IsSeq
<1> DEFINE T == S \union {e}
<1>2. s \in Seq(T) /\ e \in T
  BY <1>1
<1> HIDE DEF T
<1>3. Append(s, e) \in Seq(T)
  BY <1>2
<1>4. IsSeq(Append(s, e))
  BY <1>3 DEF IsSeq
<1>5. Len(s) \in Nat /\ Len(Append(s, e)) = Len(s) + 1
  BY <1>2
<1>6. Append(s, e)[Len(s) + 1] = e /\ \A i \in 1 .. Len(s) : Append(s, e)[i] = s[i]
  BY <1>2
<1> QED
  BY <1>4, <1>5, <1>6

\* Traces are only added, so what is proven stays proven.
LEMMA TracesGrow ==
    ASSUME traces \subseteq traces'
    PROVE  /\ \A j, i : Proven(j, i) => Proven(j, i)'
           /\ \A run : RunTraced(run) => RunTraced(run)'
BY DEF Proven, RunTraced

\* The other gates are at what they were at.
LEMMA OthersTraced ==
    ASSUME TracedInv, NEW g \in Gate, traces \subseteq traces',
           \A h \in Gate : h # g => pc'[h] = pc[h] /\ job'[h] = job[h],
           pc'[g] # "idle" => JobTraced(job[g], pc[g])'
    PROVE  \A h \in Gate : pc'[h] # "idle" => JobTraced(job[h], pc[h])'
<1> SUFFICES ASSUME NEW h \in Gate, pc'[h] # "idle", h # g PROVE JobTraced(job[h], pc[h])'
  OBVIOUS
<1>1. JobTraced(job[h], pc[h]) /\ pc'[h] = pc[h] /\ job'[h] = job[h]
  BY DEF TracedInv
<1>2. \A j, i : Proven(j, i) => Proven(j, i)'
  BY TracesGrow
<1>3. PICK j : j = job[h]
  OBVIOUS
<1>4. PICK control : control = pc[h]
  OBVIOUS
<1>5. JobTraced(j, control) => JobTraced(j, control)'
  BY <1>2 DEF JobTraced
<1>6. JobTraced(j, control)'
  BY <1>1, <1>3, <1>4, <1>5
<1>7. job'[h] = j /\ pc'[h] = control
  BY <1>1, <1>3, <1>4
<1> QED
  BY <1>6, <1>7 DEF JobTraced, Proven

\* A gate that leaves its run has nothing to prove.
LEMMA LeaveTraced ==
    ASSUME TracedInv, NEW g \in Gate, Leave(g), traces \subseteq traces'
    PROVE  \A h \in Gate : pc'[h] # "idle" => JobTraced(job[h], pc[h])'
<1>1. pc'[g] = "idle" /\ \A h \in Gate : h # g => pc'[h] = pc[h] /\ job'[h] = job[h]
  BY DEF TracedInv, StoreInv, Leave
<1> QED
  BY <1>1, OthersTraced

\* An attempt of a reviewed task is proven, or is the second and has no trace:
\* then the run is not written, because its first attempt has one.
LEMMA RecordTraced ==
    ASSUME TracedInv, NEW g \in Gate, NEW entry, NEW receipt, pc[g] = "asking",
           Record(g, entry, receipt), traces \subseteq traces',
           Reviewed(job[g].task) =>
               \/ Len(job[g].entries) # 0 /\ receipt = None
               \/ /\ receipt \in traces' /\ receipt # None
                  /\ receipt.request = Request(job[g].task, Len(job[g].entries))
                  /\ InspectedProposal(receipt.response) = entry.proposal
    PROVE  \A h \in Gate : pc'[h] # "idle" => JobTraced(job[h], pc[h])'
<1>0. PICK k : k = job[g]
  OBVIOUS
<1> DEFINE j == [k EXCEPT !.entries = Append(@, entry), !.receipts = Append(@, receipt)]
           again == AsksAgain(j.entries)
           control == IF again THEN "asking" ELSE "writing"
<1>1. CASE Leave(g)
  BY <1>1, LeaveTraced
<1>2. CASE /\ again \/ (None \in ToSet(j.receipts) => ToSet(j.receipts) = {None})
           /\ job' = [job EXCEPT ![g] = j]
           /\ pc' = [pc EXCEPT ![g] = control]
  <2>1. /\ JobTraced(k, "asking")
        /\ k \in [task : {k.task}, entries : {k.entries}, receipts : {k.receipts}]
        /\ IsSeq(k.entries) /\ IsSeq(k.receipts) /\ Len(k.entries) = Len(k.receipts)
        /\ k.task \in Task
    BY <1>0 DEF TracedInv, JobTraced
  <2>2. /\ j \in [task : {k.task}, entries : {Append(k.entries, entry)}, receipts : {Append(k.receipts, receipt)}]
        /\ j.task = k.task /\ j.entries = Append(k.entries, entry) /\ j.receipts = Append(k.receipts, receipt)
    BY <2>1
  <2>3. PICK n \in Nat : n = Len(k.entries) /\ n = Len(k.receipts)
    BY <2>1, AppendOne
  <2>4. /\ IsSeq(j.entries) /\ Len(j.entries) = n + 1 /\ j.entries[n + 1] = entry
        /\ \A i \in 1 .. n : j.entries[i] = k.entries[i]
    BY <2>1, <2>2, <2>3, AppendOne
  <2>5. /\ IsSeq(j.receipts) /\ Len(j.receipts) = n + 1 /\ j.receipts[n + 1] = receipt
        /\ \A i \in 1 .. n : j.receipts[i] = k.receipts[i]
    BY <2>1, <2>2, <2>3, AppendOne
  <2> HIDE DEF j
  <2>6. ASSUME Reviewed(k.task), NEW i \in 1 .. n + 1
        PROVE  Proven(j, i)' \/ (i # 1 /\ j.receipts[i] = None)
    <3>1. CASE i \in 1 .. n
      <4>1. Proven(k, i) \/ (i # 1 /\ k.receipts[i] = None)
        BY <2>1, <2>3, <2>6, <3>1 DEF JobTraced
      <4>2. Proven(k, i) => Proven(j, i)
        BY <2>2, <2>4, <2>5, <3>1 DEF Proven
      <4> QED
        BY <2>5, <3>1, <4>1, <4>2, TracesGrow
    <3>2. CASE i = n + 1
      <4>1. n + 1 - 1 = n
        BY <2>3
      <4>2. j.receipts[i] = receipt /\ j.entries[i] = entry /\ j.task = k.task
        BY <2>2, <2>4, <2>5, <3>2
      <4>3. CASE Len(k.entries) # 0 /\ receipt = None
        BY <2>3, <3>2, <4>2, <4>3
      <4>4. CASE /\ receipt \in traces' /\ receipt # None
                 /\ receipt.request = Request(k.task, Len(k.entries))
                 /\ InspectedProposal(receipt.response) = entry.proposal
        <5>1. i - 1 = Len(k.entries)
          BY <2>3, <3>2, <4>1
        <5> QED
          BY <4>2, <4>4, <5>1 DEF Proven
      <4> QED
        BY <1>0, <2>6, <4>3, <4>4
    <3> QED
      BY <2>3, <3>1, <3>2
  <2>7. ASSUME Reviewed(k.task), ~again, NEW i \in 1 .. n + 1
        PROVE  Proven(j, i)'
    <3>1. \A m \in 1 .. n + 1 : j.receipts[m] \in ToSet(j.receipts)
      <4>1. DOMAIN j.receipts = 1 .. n + 1
        BY <2>3, <2>5 DEF IsSeq
      <4> QED
        BY <4>1 DEF ToSet
    <3>2. 1 \in 1 .. n + 1
      BY <2>3
    <3>3. Proven(j, 1)'
      BY <2>6, <2>7, <3>2
    <3>4. j.receipts[1] # None
      BY <3>3 DEF Proven
    <3>5. j.receipts[i] # None
      BY <1>2, <2>7, <3>1, <3>2, <3>4
    <3> QED
      BY <2>6, <2>7, <3>5
  <2>8. job'[g] = j /\ pc'[g] = control /\ \A h \in Gate : h # g => pc'[h] = pc[h] /\ job'[h] = job[h]
    BY <1>2 DEF TracedInv, StoreInv
  <2>9. again => Len(j.entries) <= 1
    BY DEF AsksAgain
  <2>10. control = "asking" => again
    OBVIOUS
  <2>11. control = "writing" => ~again
    OBVIOUS
  <2>12. JobTraced(j, control)'
    <3> HIDE DEF again, control
    <3>1. j \in [task : {j.task}, entries : {j.entries}, receipts : {j.receipts}]
      BY <2>2
    <3> QED
      BY <2>1, <2>2, <2>4, <2>5, <2>6, <2>7, <2>9, <2>10, <2>11, <3>1 DEF JobTraced
  <2>13. JobTraced(job[g], pc[g])'
    BY <2>8, <2>12 DEF JobTraced, Proven
  <2> QED
    BY <2>8, <2>13, OthersTraced
<1> QED
  BY <1>0, <1>1, <1>2 DEF Record

\* Initially no gate runs and no run is committed.
LEMMA InitTraced == Init => TracedInv
<1> SUFFICES ASSUME Init PROVE TracedInv
  OBVIOUS
<1>1. \A g \in Gate : pc[g] = "idle"
  BY DEF Init
<1>2. Committed = {}
  BY DEF Init, Committed, FileName
<1> QED
  BY <1>1, <1>2, InitStore DEF TracedInv

\* A file that is written is of the job that writes it.
LEMMA WriteTraced ==
    ASSUME TracedInv, NEW g \in Gate, Write(g)
    PROVE  /\ \A h \in Gate : pc'[h] # "idle" => JobTraced(job[h], pc[h])'
           /\ \A run \in Committed' : RunTraced(run)'
<1> DEFINE name == NamesOf(job[g])[step[g] + 1]
           file == FileOf(job[g], name)
<1>1. pc[g] = "writing" /\ UNCHANGED traces /\ JobTraced(job[g], pc[g])
  BY DEF Write, TracedInv
<1>2. Leave(g) \/ UNCHANGED <<pc, job>>
  <2>1. CASE Conflicts(file)
    BY <2>1 DEF Write
  <2>2. CASE ~Conflicts(file)
    BY <2>2 DEF Write
  <2> QED
    BY <2>1, <2>2
<1>3. \A h \in Gate : pc'[h] # "idle" => JobTraced(job[h], pc[h])'
  <2>1. CASE Leave(g)
    BY <1>1, <2>1, LeaveTraced
  <2>2. CASE UNCHANGED <<pc, job>>
    BY <1>1, <2>2 DEF TracedInv, JobTraced, Proven
  <2> QED
    BY <1>2, <2>1, <2>2
<1>4. files' = files \/ files' = [files EXCEPT ![file.name] = @ \union {file}]
  <2>1. CASE Conflicts(file)
    BY <2>1 DEF Write
  <2>2. CASE ~Conflicts(file)
    BY <2>2 DEF Write
  <2> QED
    BY <2>1, <2>2
<1>5. name \in FileName /\ file.name = name
  <2>1. step[g] \in Nat /\ step[g] < Len(NamesOf(job[g])) /\ Len(NamesOf(job[g])) \in Nat
    BY <1>1, NamesOfRun DEF TracedInv, StoreInv, StepInv
  <2>2. step[g] + 1 \in 1 .. Len(NamesOf(job[g]))
    BY <2>1
  <2>3. name \in FileName /\ (name = "model_trace" => Traced(job[g]))
    BY <2>2, NamesOfRun
  <2> QED
    BY <2>3, FileDetermined
<1>6. name = "manifest" => file.run = Identity(job[g])
  BY DEF FileOf
<1>7. RunTraced(Identity(job[g]))
  <2>1. PICK k : k = job[g]
    OBVIOUS
  <2>2. Identity(k).policy = Policy(k.task) /\ Identity(k).attempts = k.entries /\ Identity(k).task = k.task
    BY DEF Identity
  <2>3. SUFFICES ASSUME Policy(k.task) = "reviewed", NEW i \in DOMAIN k.entries
                 PROVE  \E trace \in traces :
                            /\ trace.request = Request(k.task, i - 1)
                            /\ InspectedProposal(trace.response) = k.entries[i].proposal
    BY <2>1, <2>2 DEF RunTraced
  <2>4. Reviewed(k.task)
    BY <2>3 DEF Policy
  <2>5. i \in 1 .. Len(k.entries)
    BY <1>1, <2>1 DEF JobTraced, IsSeq
  <2>6. Proven(k, i)
    BY <1>1, <2>1, <2>4, <2>5 DEF JobTraced
  <2> QED
    BY <2>6 DEF Proven
<1>8. ASSUME NEW run \in Committed' PROVE RunTraced(run)
  <2>1. PICK f \in files'["manifest"] : run = f.run
    BY DEF Committed
  <2>2. CASE f \in files["manifest"]
    BY <2>1, <2>2 DEF TracedInv, Committed
  <2>3. CASE f \notin files["manifest"]
    <3> HIDE DEF name, file
    <3>0. "manifest" \in FileName
      BY DEF FileName
    <3>1. f = file /\ name = "manifest"
      BY <1>4, <1>5, <2>1, <2>3, <3>0 DEF TracedInv, StoreInv
    <3> QED
      BY <1>6, <1>7, <2>1, <3>1
  <2> QED
    BY <2>2, <2>3
<1>9. \A run \in Committed' : RunTraced(run)'
  BY <1>1, <1>8, TracesGrow
<1> QED
  BY <1>3, <1>9

\* Every step keeps what is known of the traces.
LEMMA NextTraced == TracedInv /\ [Next]_vars => TracedInv'
<1> SUFFICES ASSUME TracedInv, [Next]_vars PROVE TracedInv'
  OBVIOUS
<1>1. StoreInv'
  BY NextStore DEF TracedInv
<1>2. ASSUME UNCHANGED files, traces \subseteq traces' PROVE \A run \in Committed' : RunTraced(run)'
  <2>1. Committed' = Committed
    BY <1>2 DEF Committed
  <2> QED
    BY <1>2, <2>1, TracesGrow DEF TracedInv
<1> DEFINE Jobs == \A h \in Gate : pc'[h] # "idle" => JobTraced(job[h], pc[h])'
<1>3. ASSUME NEW g \in Gate, NEW task \in Task, Start(g, task)
      PROVE  Jobs /\ UNCHANGED files /\ traces \subseteq traces'
  <2>1. /\ UNCHANGED <<files, traces>>
        /\ job'[g] = [task |-> task, entries |-> <<>>, receipts |-> <<>>] /\ pc'[g] = "asking"
        /\ \A h \in Gate : h # g => pc'[h] = pc[h] /\ job'[h] = job[h]
    BY <1>3 DEF Start, NoJob, TracedInv, StoreInv
  <2>2. <<>> \in Seq({}) /\ Len(<<>>) = 0
    OBVIOUS
  <2>3. JobTraced(job[g], pc[g])'
    BY <2>1, <2>2 DEF JobTraced, IsSeq
  <2> QED
    BY <2>1, <2>3, OthersTraced
<1>4. ASSUME NEW g \in Gate, NEW proposal \in Proposal, AnswerUntraced(g, proposal)
      PROVE  Jobs /\ UNCHANGED files /\ traces \subseteq traces'
  <2>1. /\ pc[g] = "asking" /\ ~Reviewed(job[g].task) /\ UNCHANGED <<files, traces>>
        /\ \E entry, receipt : Record(g, entry, receipt)
    BY <1>4 DEF AnswerUntraced, MayAnswerUntraced
  <2> QED
    BY <2>1, RecordTraced
<1>5. ASSUME NEW g \in Gate, NEW response \in Response, AnswerTraced(g, response)
      PROVE  Jobs /\ UNCHANGED files /\ traces \subseteq traces'
  <2> DEFINE task == job[g].task
             trace == TraceOf(task, Len(job[g].entries), response)
             entry == IF trace.failure # None THEN Rejected ELSE EntryOf(Policy(task), task, trace.derived)
  <2>1. /\ pc[g] = "asking" /\ UNCHANGED files /\ traces' = traces \union {trace}
        /\ Record(g, entry, trace)
    BY <1>5 DEF AnswerTraced
  <2>2. /\ trace.request = Request(task, Len(job[g].entries)) /\ trace.response = response
        /\ trace.failure = InspectedFailure(response) /\ trace.derived = InspectedProposal(response)
    BY DEF TraceOf
  <2>3. entry.proposal = InspectedProposal(response)
    <3>1. CASE trace.failure # None
      BY <2>2, <3>1 DEF Rejected, Entry, InspectedProposal
    <3>2. CASE trace.failure = None
      <4>1. entry = EntryOf(Policy(task), task, trace.derived)
        BY <3>2
      <4> HIDE DEF entry, trace
      <4> QED
        BY <2>2, <4>1 DEF EntryOf, Entry
    <3> QED
      BY <3>1, <3>2
  <2>4. trace # None
    <3>1. JobTraced(job[g], "asking")
      BY <2>1 DEF TracedInv
    <3>2. task \in Task /\ IsSeq(job[g].entries) /\ Len(job[g].entries) <= 1
      BY <3>1 DEF JobTraced
    <3>3. PICK n \in Nat : n = Len(job[g].entries) /\ n <= 1
      BY <3>2, AppendOne
    <3>4. n \in 0 .. 1
      <4>1. \A m \in Nat : m <= 1 => m \in 0 .. 1
        OBVIOUS
      <4>2. n \in Nat /\ n <= 1
        BY <3>3
      <4> QED
        BY <4>1, <4>2
    <3>5. \A a \in 0 .. 1 : TraceOf(task, a, response) # None
      BY <3>2, TraceAssumption
    <3> QED
      BY <3>3, <3>4, <3>5
  <2> HIDE DEF entry, trace
  <2>5. PICK e, r : e = entry /\ r = trace
    OBVIOUS
  <2> QED
    BY <2>1, <2>2, <2>3, <2>4, <2>5, RecordTraced
<1>6. ASSUME NEW g \in Gate, AnswerMissing(g)
      PROVE  Jobs /\ UNCHANGED files /\ traces \subseteq traces'
  <2>1. /\ pc[g] = "asking" /\ job[g].entries # <<>> /\ UNCHANGED <<files, traces>>
        /\ Record(g, Missing, None)
    BY <1>6 DEF AnswerMissing
  <2>2. Len(job[g].entries) # 0
    BY <2>1 DEF TracedInv, JobTraced, IsSeq
  <2>3. PICK receipt : receipt = None
    OBVIOUS
  <2> QED
    BY <2>1, <2>2, <2>3, RecordTraced
<1>7. ASSUME NEW g \in Gate, Stop(g)
      PROVE  Jobs /\ UNCHANGED files /\ traces \subseteq traces'
  BY <1>7, LeaveTraced DEF Stop
<1>8. ASSUME NEW g \in Gate, Write(g) PROVE TracedInv'
  BY <1>1, <1>8, WriteTraced DEF TracedInv
<1>9. CASE UNCHANGED vars
  <2>1. Jobs /\ UNCHANGED files /\ traces \subseteq traces'
    BY <1>9 DEF vars, TracedInv, JobTraced, Proven
  <2> QED
    BY <1>1, <1>2, <2>1 DEF TracedInv
<1> HIDE DEF Jobs
<1>10. Jobs /\ UNCHANGED files /\ traces \subseteq traces' => TracedInv'
  BY <1>1, <1>2 DEF TracedInv, Jobs
<1> QED
  BY <1>3, <1>4, <1>5, <1>6, <1>7, <1>8, <1>9, <1>10 DEF Next

\* Every attempt of a committed run on a reviewed profile has a kept exchange
\* with the local model, of that task and attempt, that makes its proposal
\* (core/engine.py, core/model_trace.py), whatever else the gate was asked.
THEOREM ReviewedAlwaysTraced == Spec => []ReviewedIsTraced
<1>1. TracedInv => ReviewedIsTraced
  BY DEF TracedInv, RunTraced, ReviewedIsTraced
<1> QED
  BY <1>1, InitTraced, NextTraced, PTL DEF Spec

---------------------------------------------------------------------------
(* What the evaluators report. *)

\* What an evaluator can give as its reason.
VerdictReason == TaskFault \union ItemFault \union CalculationFault \union {"none", "count"}
Reported == [decision : Decision, reason : VerdictReason]

\* What each order looks for.
LEMMA OrdersType ==
    /\ SyntheticTaskOrder \in Seq(TaskFault) /\ ReviewedTaskOrder \in Seq(TaskFault)
    /\ SyntheticItemOrder \in Seq(ItemFault) /\ ReviewedItemOrder \in Seq(ItemFault)
    /\ SyntheticCalculationOrder \in Seq(CalculationFault)
    /\ ReviewedCalculationOrder \in Seq(CalculationFault)
    /\ <<"shape", "operation">> \in Seq(CalculationFault)
BY DEF SyntheticTaskOrder, ReviewedTaskOrder, SyntheticItemOrder, ReviewedItemOrder,
       SyntheticCalculationOrder, ReviewedCalculationOrder, TaskFault, ItemFault, CalculationFault

\* Every report of Found is of a fault that is looked for, with its decision.
LEMMA FoundType ==
    ASSUME NEW F \in SUBSET VerdictReason, NEW order \in Seq(F), NEW faults,
           NEW decision \in [F -> Decision]
    PROVE  /\ Found(order, faults, decision) \in Seq(Reported)
           /\ \A i \in 1 .. Len(Found(order, faults, decision)) :
                 Found(order, faults, decision)[i].decision \in {decision[f] : f \in F}
           /\ faults \intersect ToSet(order) # {} => Len(Found(order, faults, decision)) # 0
<1> DEFINE found == InOrder(order, faults)
<1>1. found \in Seq(F) /\ ToSet(found) = ToSet(order) \intersect faults
  <2>1. found \in Seq(F \intersect faults)
    BY ThoseType DEF InOrder
  <2> QED
    BY <2>1, ThoseType, SeqMonotonic DEF InOrder
<1> HIDE DEF found
<1>2. PICK n \in Nat : n = Len(found) /\ DOMAIN found = 1 .. n /\ \A i \in 1 .. n : found[i] \in F
  BY <1>1
<1> DEFINE reports == [i \in 1 .. n |-> [decision |-> decision[found[i]], reason |-> found[i]]]
<1>3. Found(order, faults, decision) = reports
  BY <1>2 DEF Found, found
<1>4. \A i \in 1 .. n : reports[i] \in Reported /\ reports[i].decision \in {decision[f] : f \in F}
  BY <1>2 DEF Reported
<1>5. reports \in Seq(Reported) /\ Len(reports) = n
  <2>1. reports \in [1 .. n -> Reported]
    BY <1>4
  <2> HIDE DEF reports
  <2> QED
    BY <1>2, <2>1
<1>6. faults \intersect ToSet(order) # {} => n # 0
  <2>1. n = 0 => ToSet(found) = {}
    BY <1>2 DEF ToSet
  <2> QED
    BY <1>1, <2>1
<1> HIDE DEF reports
<1> QED
  BY <1>3, <1>4, <1>5, <1>6

\* A verdict is a report, or the acceptance that is given without one.
LEMMA VerdictOfReports ==
    ASSUME NEW reports \in Seq(Reported)
    PROVE  Verdict(reports) \in Reported
<1>1. CASE reports = <<>>
  BY <1>1 DEF Verdict, Reported, Decision, VerdictReason
<1>2. CASE reports # <<>>
  BY <1>2 DEF Verdict
<1> QED
  BY <1>1, <1>2

\* The first report of a list that begins with another is of that one.
LEMMA FirstOfConcat ==
    ASSUME NEW a \in Seq(Reported), NEW b \in Seq(Reported), Len(a) # 0
    PROVE  a \o b # <<>> /\ Head(a \o b) = a[1]
<1>1. PICK c \in Seq(Reported) : c = a \o b
  <2>1. a \o b \in Seq(Reported)
    OBVIOUS
  <2> QED
    BY <2>1
<1>2. Len(c) = Len(a) + Len(b) /\ c[1] = a[1]
  BY <1>1
<1>3. c # <<>> /\ Head(c) = c[1]
  <2>1. Len(a) \in Nat /\ Len(b) \in Nat
    OBVIOUS
  <2>2. Len(c) # 0
    BY <1>2, <2>1
  <2> QED
    BY <2>2
<1> QED
  BY <1>1, <1>2, <1>3

\* A finding about the task comes first, and sends it to a person.
LEMMA TaskFindingDecides ==
    ASSUME NEW order \in Seq(TaskFault), NEW faults, NEW rest \in Seq(Reported)
    PROVE  LET found == Found(order, faults, Reports(TaskFault, "HUMAN_REVIEW")) IN
           /\ found \o rest \in Seq(Reported)
           /\ faults \intersect ToSet(order) # {} =>
                 found \o rest # <<>> /\ Verdict(found \o rest).decision = "HUMAN_REVIEW"
<1> DEFINE decision == Reports(TaskFault, "HUMAN_REVIEW")
<1>1. decision \in [TaskFault -> Decision] /\ {decision[f] : f \in TaskFault} = {"HUMAN_REVIEW"}
  BY DEF Reports, Decision, TaskFault
<1>2. TaskFault \in SUBSET VerdictReason
  BY DEF VerdictReason
<1>3. PICK found : found = Found(order, faults, decision)
  OBVIOUS
<1> HIDE DEF decision
<1>4. /\ found \in Seq(Reported)
      /\ \A i \in 1 .. Len(found) : found[i].decision \in {decision[f] : f \in TaskFault}
      /\ faults \intersect ToSet(order) # {} => Len(found) # 0
  BY <1>1, <1>2, <1>3, FoundType
<1>5. found \o rest \in Seq(Reported)
  BY <1>4
<1>6. ASSUME faults \intersect ToSet(order) # {}
      PROVE  found \o rest # <<>> /\ Verdict(found \o rest).decision = "HUMAN_REVIEW"
  <2>1. found \o rest # <<>> /\ Head(found \o rest) = found[1]
    BY <1>4, <1>6, FirstOfConcat
  <2>2. 1 \in 1 .. Len(found)
    BY <1>4, <1>6
  <2>3. found[1].decision = "HUMAN_REVIEW"
    BY <1>1, <1>4, <2>2
  <2> QED
    BY <2>1, <2>3 DEF Verdict
<1> QED
  BY <1>3, <1>5, <1>6 DEF decision

\* What a finding decides is a decision.
LEMMA DecisionTables ==
    /\ SyntheticCalculation \in [CalculationFault -> Decision]
    /\ ReviewedCalculation \in [CalculationFault -> Decision]
    /\ SyntheticItem \in [ItemFault -> Decision]
    /\ ReviewedItem \in [ItemFault -> Decision]
BY DEF SyntheticCalculation, ReviewedCalculation, SyntheticItem, ReviewedItem, Decision

\* What the reports about a candidate are.
LEMMA CandidateReports ==
    ASSUME NEW candidate, NEW many \in Decision,
           NEW items \in Seq(ItemFault), NEW item \in [ItemFault -> Decision],
           NEW order \in Seq(CalculationFault), NEW calculation \in [CalculationFault -> Decision]
    PROVE  /\ Count(candidate, "RETRY", many) \in Seq(Reported)
           /\ Found(order, candidate.calculation, calculation) \in Seq(Reported)
           /\ Items(candidate, items, item) \in Seq(Reported)
<1>1. CalculationFault \in SUBSET VerdictReason /\ ItemFault \in SUBSET VerdictReason
  BY DEF VerdictReason
<1>2. Count(candidate, "RETRY", many) \in Seq(Reported)
  <2>1. [decision |-> "RETRY", reason |-> "count"] \in Reported
    BY DEF Reported, Decision, VerdictReason
  <2>2. [decision |-> many, reason |-> "count"] \in Reported
    BY DEF Reported, VerdictReason
  <2> QED
    BY <2>1, <2>2 DEF Count
<1>3. Found(order, candidate.calculation, calculation) \in Seq(Reported)
  BY <1>1, FoundType
<1>4. /\ Found(items, candidate.items[1], item) \in Seq(Reported)
      /\ Found(items, candidate.items[2], item) \in Seq(Reported)
  BY <1>1, FoundType
<1> QED
  BY <1>2, <1>3, <1>4 DEF Items

\* Each evaluator gives a decision and one of its reasons, and sends a task
\* with a fault it looks for to a person.
LEMMA VerdictsType ==
    ASSUME NEW faults, NEW candidate
    PROVE  /\ SyntheticVerdict(faults, candidate) \in Reported
           /\ ReviewedVerdict(faults, candidate) \in Reported
           /\ faults \intersect ToSet(SyntheticTaskOrder) # {} =>
                 SyntheticVerdict(faults, candidate).decision = "HUMAN_REVIEW"
           /\ faults \intersect ToSet(ReviewedTaskOrder) # {} =>
                 ReviewedVerdict(faults, candidate).decision = "HUMAN_REVIEW"
<1>0. "RETRY" \in Decision /\ "ABSTAIN" \in Decision
  BY DEF Decision
<1>1. /\ SyntheticVerdict(faults, candidate) \in Reported
      /\ faults \intersect ToSet(SyntheticTaskOrder) # {} =>
            SyntheticVerdict(faults, candidate).decision = "HUMAN_REVIEW"
  <2>1. PICK found : found = Found(SyntheticTaskOrder, faults, Reports(TaskFault, "HUMAN_REVIEW"))
    OBVIOUS
  <2>2. PICK shape \in Seq(Reported) : shape = Found(<<"shape", "operation">>, candidate.calculation, SyntheticCalculation)
    BY <1>0, OrdersType, DecisionTables, CandidateReports
  <2>3. PICK count \in Seq(Reported) : count = Count(candidate, "RETRY", "ABSTAIN")
    BY <1>0, OrdersType, DecisionTables, CandidateReports
  <2>4. PICK items \in Seq(Reported) : items = Items(candidate, SyntheticItemOrder, SyntheticItem)
    BY <1>0, OrdersType, DecisionTables, CandidateReports
  <2>5. PICK calc \in Seq(Reported) :
           calc = Found(SyntheticCalculationOrder, candidate.calculation, SyntheticCalculation)
    BY <1>0, OrdersType, DecisionTables, CandidateReports
  <2>6. /\ found \in Seq(Reported)
        /\ found \o (shape \o count) \in Seq(Reported)
        /\ faults \intersect ToSet(SyntheticTaskOrder) # {} =>
              found \o (shape \o count) # <<>> /\ Verdict(found \o (shape \o count)).decision = "HUMAN_REVIEW"
    <3>1. shape \o count \in Seq(Reported) /\ <<>> \in Seq(Reported)
      OBVIOUS
    <3>2. found \in Seq(Reported)
      <4>1. Reports(TaskFault, "HUMAN_REVIEW") \in [TaskFault -> Decision]
        BY DEF Reports, Decision
      <4>2. TaskFault \in SUBSET VerdictReason
        BY DEF VerdictReason
      <4> QED
        BY <2>1, <4>1, <4>2, OrdersType, FoundType
    <3> QED
      BY <2>1, <3>1, <3>2, OrdersType, TaskFindingDecides
  <2>7. found \o shape \o count = found \o (shape \o count)
    <3>1. PICK X : X = Reported
      OBVIOUS
    <3>2. found \in Seq(X) /\ shape \in Seq(X) /\ count \in Seq(X)
      BY <2>6, <3>1
    <3> QED
      BY <3>2, ConcatGroups
  <2>8. PICK first \in Seq(Reported) : first = found \o (shape \o count)
    BY <2>6
  <2>9. SyntheticVerdict(faults, candidate) = Verdict(IF first # <<>> THEN first ELSE items \o calc)
    BY <2>1, <2>2, <2>3, <2>4, <2>5, <2>7, <2>8, Zenon DEF SyntheticVerdict
  <2>10. (IF first # <<>> THEN first ELSE items \o calc) \in Seq(Reported)
    OBVIOUS
  <2> QED
    BY <2>6, <2>8, <2>9, <2>10, VerdictOfReports
<1>2. /\ ReviewedVerdict(faults, candidate) \in Reported
      /\ faults \intersect ToSet(ReviewedTaskOrder) # {} =>
            ReviewedVerdict(faults, candidate).decision = "HUMAN_REVIEW"
  <2>1. PICK found : found = Found(ReviewedTaskOrder, faults, Reports(TaskFault, "HUMAN_REVIEW"))
    OBVIOUS
  <2>2. PICK count \in Seq(Reported) : count = Count(candidate, "RETRY", "RETRY")
    BY <1>0, OrdersType, DecisionTables, CandidateReports
  <2>3. PICK items \in Seq(Reported) : items = Items(candidate, ReviewedItemOrder, ReviewedItem)
    BY <1>0, OrdersType, DecisionTables, CandidateReports
  <2>4. PICK calc \in Seq(Reported) :
           calc = Found(ReviewedCalculationOrder, candidate.calculation, ReviewedCalculation)
    BY <1>0, OrdersType, DecisionTables, CandidateReports
  <2>5. PICK first : first = found \o count
    OBVIOUS
  <2>6. /\ first \in Seq(Reported)
        /\ faults \intersect ToSet(ReviewedTaskOrder) # {} =>
              first # <<>> /\ Verdict(first).decision = "HUMAN_REVIEW"
    BY <2>1, <2>5, OrdersType, TaskFindingDecides
  <2>7. ReviewedVerdict(faults, candidate) = Verdict(IF first # <<>> THEN first ELSE items \o calc)
    BY <2>1, <2>2, <2>3, <2>4, <2>5, Zenon DEF ReviewedVerdict
  <2>8. (IF first # <<>> THEN first ELSE items \o calc) \in Seq(Reported)
    BY <2>6
  <2> QED
    BY <2>6, <2>7, <2>8, VerdictOfReports
<1> QED
  BY <1>1, <1>2

---------------------------------------------------------------------------
(* The files of a run: the manifest is the last that is written. *)

\* Where the file of this name of a run is stored.
Home(run, name) == IF name = "blob" THEN run.task.document ELSE run

Kept(run, name) == \E f \in files[name] : f.run = Home(run, name)

\* Every file that the gate has written so far is there.
Wrote(g) == \A k \in 1 .. step[g] : Kept(Identity(job[g]), NamesOf(job[g])[k])

Complete(run) ==
    \A name \in {"blob"} \union ToSet(ArtifactNames(run.receipts # <<>>)) : Kept(run, name)

KeptInv ==
    /\ StoreInv
    /\ \A g \in Gate : pc[g] = "writing" => Wrote(g)
    /\ \A run \in Committed : Complete(run)

\* The document, the artifacts, the manifest.
LEMMA NamesInOrder ==
    ASSUME NEW j
    PROVE  LET n == Len(NamesOf(j)) IN
           /\ n \in Nat \ {0}
           /\ \A k \in 1 .. n : NamesOf(j)[k] = "manifest" => k = n
           /\ \A name \in {"blob"} \union ToSet(ArtifactNames(Traced(j))) :
                 \E k \in 1 .. n - 1 : NamesOf(j)[k] = name
<1>1. PICK names : names = ArtifactNames(Traced(j))
  OBVIOUS
<1>2. names \in Seq(FileName) /\ Len(names) \in {8, 9} /\ "manifest" \notin ToSet(names)
  BY <1>1, ArtifactNamesSeq DEF Traced
<1>3. "blob" \in FileName /\ "manifest" \in FileName
  BY DEF FileName
<1>4. PICK front : front = <<"blob">> \o names
  OBVIOUS
<1>5. /\ front \in Seq(FileName) /\ Len(front) = 1 + Len(names)
      /\ \A i \in 1 .. Len(front) : front[i] = IF i <= 1 THEN "blob" ELSE names[i - 1]
  BY <1>2, <1>3, <1>4
<1>6. PICK all : all = front \o <<"manifest">> /\ all = NamesOf(j)
  BY <1>1, <1>4 DEF NamesOf
<1>7. /\ Len(all) = Len(front) + 1
      /\ \A i \in 1 .. Len(all) : all[i] = IF i <= Len(front) THEN front[i] ELSE "manifest"
  BY <1>3, <1>5, <1>6
<1>8. DOMAIN names = 1 .. Len(names) /\ Len(names) \in Nat
  BY <1>2
<1>9. ASSUME NEW k \in 1 .. Len(all), all[k] = "manifest" PROVE k = Len(all)
  <2>1. SUFFICES ASSUME k <= Len(front) PROVE FALSE
    BY <1>2, <1>5, <1>7
  <2>2. front[k] = "manifest" /\ k \in 1 .. Len(front)
    BY <1>2, <1>5, <1>7, <1>9, <2>1
  <2>3. k - 1 \in 1 .. Len(names) /\ names[k - 1] = "manifest"
    BY <1>2, <1>5, <2>2
  <2> QED
    BY <1>2, <1>8, <2>3 DEF ToSet
<1>10. ASSUME NEW name \in {"blob"} \union ToSet(names)
       PROVE  \E k \in 1 .. Len(all) - 1 : all[k] = name
  <2>1. CASE name = "blob"
    <3>1. 1 \in 1 .. Len(all) - 1 /\ all[1] = "blob"
      BY <1>2, <1>5, <1>7
    <3> QED
      BY <2>1, <3>1
  <2>2. CASE name \in ToSet(names)
    <3>1. PICK i \in 1 .. Len(names) : name = names[i]
      BY <1>8, <2>2 DEF ToSet
    <3>2. i + 1 \in 1 .. Len(front) /\ front[i + 1] = name
      BY <1>2, <1>5, <3>1
    <3>3. i + 1 \in 1 .. Len(all) - 1 /\ all[i + 1] = name
      BY <1>2, <1>5, <1>7, <3>2
    <3> QED
      BY <3>3
  <2> QED
    BY <2>1, <2>2
<1>11. Len(all) \in Nat \ {0}
  BY <1>2, <1>5, <1>7
<1>12. \A k \in 1 .. Len(all) : all[k] = "manifest" => k = Len(all)
  BY <1>9
<1> QED
  BY <1>1, <1>6, <1>10, <1>11, <1>12, Zenon

\* Files are only added, so what is kept stays.
LEMMA KeptStays ==
    ASSUME StoreInv, StoreInv', \A name \in FileName : files[name] \subseteq files'[name]
    PROVE  /\ \A run : \A name \in FileName : Kept(run, name) => Kept(run, name)'
           /\ \A run : Complete(run) => Complete(run)'
<1>1. \A run : \A name \in FileName : Kept(run, name) => Kept(run, name)'
  BY DEF Kept
<1>2. ASSUME NEW run, Complete(run) PROVE Complete(run)'
  <2>1. ASSUME NEW name \in {"blob"} \union ToSet(ArtifactNames(run.receipts # <<>>)) PROVE name \in FileName
    <3>1. PICK names : names = ArtifactNames(run.receipts # <<>>)
      OBVIOUS
    <3>2. names \in Seq(FileName)
      BY <3>1, ArtifactNamesSeq
    <3>3. ToSet(names) \subseteq FileName
      BY <3>2 DEF ToSet
    <3> QED
      BY <2>1, <3>1, <3>3 DEF FileName
  <2> QED
    BY <1>1, <1>2, <2>1 DEF Complete
<1> QED
  BY <1>1, <1>2

\* Initially there is no file.
LEMMA InitKept == Init => KeptInv
<1> SUFFICES ASSUME Init PROVE KeptInv
  OBVIOUS
<1>1. \A g \in Gate : pc[g] # "writing"
  BY DEF Init
<1>2. Committed = {}
  BY DEF Init, Committed, FileName
<1> QED
  BY <1>1, <1>2, InitStore DEF KeptInv

\* A gate that does not write has nothing to show for it.
LEMMA OthersKept ==
    ASSUME KeptInv, StoreInv', NEW g \in Gate,
           \A name \in FileName : files[name] \subseteq files'[name],
           \A h \in Gate : h # g => pc'[h] = pc[h] /\ job'[h] = job[h] /\ step'[h] = step[h],
           pc'[g] = "writing" => Wrote(g)'
    PROVE  \A h \in Gate : pc'[h] = "writing" => Wrote(h)'
<1> SUFFICES ASSUME NEW h \in Gate, h # g, pc'[h] = "writing" PROVE Wrote(h)'
  OBVIOUS
<1>1. pc[h] = "writing" /\ job'[h] = job[h] /\ step'[h] = step[h]
  OBVIOUS
<1>2. PICK j, n : j = job[h] /\ n = step[h] /\ n \in Nat /\ n < Len(NamesOf(j))
  BY <1>1 DEF KeptInv, StoreInv, StepInv
<1>3. ASSUME NEW k \in 1 .. n PROVE Kept(Identity(j), NamesOf(j)[k])'
  <2>1. Kept(Identity(j), NamesOf(j)[k])
    BY <1>1, <1>2 DEF KeptInv, Wrote
  <2>2. NamesOf(j)[k] \in FileName
    BY <1>2, NamesOfRun
  <2> QED
    BY <2>1, <2>2, KeptStays DEF KeptInv
<1> QED
  BY <1>1, <1>2, <1>3 DEF Wrote, Kept

\* Where a file is written is where it is looked for.
LEMMA FileHome ==
    ASSUME NEW j, NEW name
    PROVE  FileOf(j, name).run = Home(Identity(j), name)
BY DEF FileOf, Home, Identity

\* The manifest is written when every other file of the run is there.
LEMMA WriteKept ==
    ASSUME KeptInv, StoreInv', NEW g \in Gate, Write(g)
    PROVE  KeptInv'
<1>0. PICK j, n, all : j = job[g] /\ n = step[g] /\ all = NamesOf(j)
  OBVIOUS
<1>1. PICK name, file : name = all[n + 1] /\ file = FileOf(j, name)
  OBVIOUS
<1>2. pc[g] = "writing" /\ n \in Nat /\ n < Len(all) /\ n + 1 \in 1 .. Len(all)
  <2>1. pc[g] = "writing" /\ n \in Nat /\ n < Len(all)
    BY <1>0 DEF Write, KeptInv, StoreInv, StepInv
  <2>2. Len(all) \in Nat
    BY <1>0, NamesInOrder
  <2> QED
    BY <2>1, <2>2
<1>3. name \in FileName /\ file.name = name /\ file.run = Home(Identity(j), name)
  <2>1. name \in FileName /\ (name = "model_trace" => Traced(j))
    BY <1>0, <1>1, <1>2, NamesOfRun
  <2> QED
    BY <1>1, <2>1, FileDetermined, FileHome
<1>4. \/ Leave(g) /\ UNCHANGED files
      \/ /\ files' = [files EXCEPT ![name] = @ \union {file}]
         /\ \/ n + 1 = Len(all) /\ Leave(g)
            \/ step' = [step EXCEPT ![g] = n + 1] /\ UNCHANGED <<pc, job>>
  <2>1. CASE Conflicts(file)
    BY <1>0, <1>1, <2>1 DEF Write
  <2>2. CASE ~Conflicts(file)
    BY <1>0, <1>1, <1>3, <2>2 DEF Write
  <2> QED
    BY <2>1, <2>2
<1>5. \A m \in FileName : files[m] \subseteq files'[m]
  BY <1>3, <1>4 DEF KeptInv, StoreInv
<1>6. \A h \in Gate : h # g => pc'[h] = pc[h] /\ job'[h] = job[h] /\ step'[h] = step[h]
  BY <1>4 DEF Leave, KeptInv, StoreInv
<1>7. pc'[g] = "writing" => Wrote(g)'
  <2>1. SUFFICES ASSUME /\ files' = [files EXCEPT ![name] = @ \union {file}]
                        /\ step' = [step EXCEPT ![g] = n + 1] /\ UNCHANGED <<pc, job>>
                 PROVE  Wrote(g)'
    BY <1>4 DEF Leave, KeptInv, StoreInv
  <2>2. job'[g] = j /\ step'[g] = n + 1
    BY <1>0, <2>1 DEF KeptInv, StoreInv
  <2>3. ASSUME NEW k \in 1 .. n + 1 PROVE Kept(Identity(j), all[k])'
    <3>1. CASE k = n + 1
      <4>1. file \in files'[name]
        BY <1>3, <2>1 DEF KeptInv, StoreInv
      <4> QED
        BY <1>1, <1>3, <3>1, <4>1 DEF Kept
    <3>2. CASE k \in 1 .. n
      <4>1. Kept(Identity(j), all[k])
        BY <1>0, <1>2, <3>2 DEF KeptInv, Wrote
      <4>2. all[k] \in FileName
        BY <1>0, <1>2, <3>2, NamesOfRun
      <4> QED
        BY <1>5, <4>1, <4>2, KeptStays DEF KeptInv
    <3> QED
      BY <1>2, <3>1, <3>2
  <2> QED
    BY <1>0, <2>2, <2>3 DEF Wrote, Kept
<1>8. \A h \in Gate : pc'[h] = "writing" => Wrote(h)'
  BY <1>5, <1>6, <1>7, OthersKept
<1>9. ASSUME NEW run \in Committed' PROVE Complete(run)'
  <2>1. PICK f \in files'["manifest"] : run = f.run
    BY DEF Committed
  <2>2. CASE f \in files["manifest"]
    <3>1. Complete(run)
      BY <2>1, <2>2 DEF KeptInv, Committed
    <3> QED
      BY <1>5, <3>1, KeptStays DEF KeptInv
  <2>3. CASE f \notin files["manifest"]
    <3>0. "manifest" \in FileName
      BY DEF FileName
    <3>1. f = file /\ name = "manifest"
      BY <1>3, <1>4, <2>1, <2>3, <3>0 DEF KeptInv, StoreInv
    <3>2. n + 1 = Len(all) /\ run = Identity(j)
      <4>1. run = Identity(j)
        BY <1>3, <2>1, <3>1 DEF Home
      <4>2. n + 1 = Len(all)
        <5>1. \A k \in 1 .. Len(all) : all[k] = "manifest" => k = Len(all)
          BY <1>0, NamesInOrder, Zenon
        <5> QED
          BY <1>1, <1>2, <3>1, <5>1
      <4> QED
        BY <4>1, <4>2
    <3>3. (run.receipts # <<>>) = Traced(j)
      <4>1. Traced(j) <=> Receipts(j) # <<>>
        BY ReceiptsTellTraced
      <4>2. Traced(j) \in BOOLEAN
        BY DEF Traced
      <4> QED
        BY <3>2, <4>1, <4>2 DEF Identity
    <3>4. ASSUME NEW m \in {"blob"} \union ToSet(ArtifactNames(Traced(j))) PROVE Kept(run, m)
      <4>1. PICK k \in 1 .. Len(all) - 1 : all[k] = m
        BY <1>0, NamesInOrder
      <4>2. k \in 1 .. n
        BY <1>2, <3>2, <4>1
      <4> QED
        BY <1>0, <1>2, <3>2, <4>1, <4>2 DEF KeptInv, Wrote
    <3>5. Complete(run)
      BY <3>3, <3>4 DEF Complete
    <3> QED
      BY <1>5, <3>5, KeptStays DEF KeptInv
  <2> QED
    BY <2>2, <2>3
<1> QED
  BY <1>8, <1>9 DEF KeptInv

\* Every step keeps what is known of the files of a run.
LEMMA NextKept == KeptInv /\ [Next]_vars => KeptInv'
<1> SUFFICES ASSUME KeptInv, [Next]_vars PROVE KeptInv'
  OBVIOUS
<1>1. StoreInv'
  BY NextStore DEF KeptInv
<1>2. ASSUME UNCHANGED files, NEW g \in Gate,
             \A h \in Gate : h # g => pc'[h] = pc[h] /\ job'[h] = job[h] /\ step'[h] = step[h],
             step'[g] = 0
      PROVE  KeptInv'
  <2>1. Wrote(g)'
    BY <1>2 DEF Wrote
  <2>2. \A h \in Gate : pc'[h] = "writing" => Wrote(h)'
    BY <1>1, <1>2, <2>1, OthersKept
  <2>3. Committed' = Committed /\ \A run : Complete(run) => Complete(run)'
    BY <1>2 DEF Committed, Complete, Kept
  <2> QED
    BY <1>1, <2>2, <2>3 DEF KeptInv
<1>3. ASSUME NEW g \in Gate, NEW entry, NEW receipt, pc[g] = "asking", Record(g, entry, receipt), UNCHANGED files
      PROVE  KeptInv'
  <2>1. step[g] = 0
    BY <1>3 DEF KeptInv, StoreInv, StepInv
  <2>2. Leave(g) \/ \E j, control : job' = [job EXCEPT ![g] = j] /\ pc' = [pc EXCEPT ![g] = control] /\ UNCHANGED step
    BY <1>3 DEF Record
  <2>3. /\ step'[g] = 0
        /\ \A h \in Gate : h # g => pc'[h] = pc[h] /\ job'[h] = job[h] /\ step'[h] = step[h]
    BY <2>1, <2>2 DEF Leave, KeptInv, StoreInv
  <2> QED
    BY <1>2, <1>3, <2>3
<1>4. ASSUME NEW g \in Gate, NEW task \in Task, Start(g, task) PROVE KeptInv'
  <2>1. /\ UNCHANGED <<files, step>> /\ step[g] = 0
        /\ \A h \in Gate : h # g => pc'[h] = pc[h] /\ job'[h] = job[h]
    BY <1>4 DEF Start, KeptInv, StoreInv, StepInv
  <2> QED
    BY <1>2, <2>1
<1>5. ASSUME NEW g \in Gate, NEW proposal \in Proposal, AnswerUntraced(g, proposal) PROVE KeptInv'
  BY <1>3, <1>5 DEF AnswerUntraced, MayAnswerUntraced
<1>6. ASSUME NEW g \in Gate, NEW response \in Response, AnswerTraced(g, response) PROVE KeptInv'
  <2>1. pc[g] = "asking" /\ UNCHANGED files /\ \E entry, receipt : Record(g, entry, receipt)
    BY <1>6 DEF AnswerTraced
  <2> QED
    BY <1>3, <2>1
<1>7. ASSUME NEW g \in Gate, AnswerMissing(g) PROVE KeptInv'
  <2>1. pc[g] = "asking" /\ UNCHANGED files /\ \E entry, receipt : Record(g, entry, receipt)
    BY <1>7 DEF AnswerMissing
  <2> QED
    BY <1>3, <2>1
<1>8. ASSUME NEW g \in Gate, Write(g) PROVE KeptInv'
  BY <1>1, <1>8, WriteKept
<1>9. ASSUME NEW g \in Gate, Stop(g) PROVE KeptInv'
  <2>1. /\ UNCHANGED files /\ step'[g] = 0
        /\ \A h \in Gate : h # g => pc'[h] = pc[h] /\ job'[h] = job[h] /\ step'[h] = step[h]
    BY <1>9 DEF Stop, Leave, KeptInv, StoreInv
  <2> QED
    BY <1>2, <2>1
<1>10. CASE UNCHANGED vars
  BY <1>1, <1>10 DEF vars, KeptInv, Committed, Complete, Kept, Wrote
<1> QED
  BY <1>4, <1>5, <1>6, <1>7, <1>8, <1>9, <1>10 DEF Next

---------------------------------------------------------------------------
(* How the entries of a run are made. *)

\* The entry of this attempt is of a proposal, or of none.
Made(j, i) ==
    \/ \E p \in Proposal :
          /\ j.entries[i] = EntryOf(Policy(j.task), j.task, p)
          /\ \/ j.receipts[i] = None
             \/ TraceVerifies(traces, j.receipts[i], j.task, i - 1, p, None)
    \/ j.entries[i] = Missing /\ i # 1 /\ j.receipts[i] = None
    \/ /\ j.entries[i] = Rejected /\ j.receipts[i] # None
       /\ TraceVerifies(traces, j.receipts[i], j.task, i - 1, None, j.receipts[i].failure)

\* A second attempt follows a first that is to be retried, and only such a one.
JobMade(j, control) ==
    /\ \A i \in 1 .. Len(j.entries) : Made(j, i)
    /\ control = "asking" /\ Len(j.entries) = 1 => j.entries[1].decision = "RETRY"
    /\ control = "writing" =>
          /\ Len(j.entries) \in {1, 2}
          /\ Len(j.entries) = 2 <=> j.entries[1].decision = "RETRY"
          /\ \/ \A i \in 1 .. Len(j.entries) : j.receipts[i] = None
             \/ \A i \in 1 .. Len(j.entries) : j.receipts[i] # None

RunMade(run) == \E j : JobTraced(j, "writing") /\ JobMade(j, "writing") /\ run = Identity(j)

MadeInv ==
    /\ TracedInv
    /\ \A g \in Gate : pc[g] # "idle" => JobMade(job[g], pc[g])
    /\ \A run \in Committed : RunMade(run)

\* Traces are only added.
LEMMA MadeStays ==
    ASSUME traces \subseteq traces'
    PROVE  /\ \A j, i : Made(j, i) => Made(j, i)'
           /\ \A j, control : JobMade(j, control) => JobMade(j, control)'
           /\ \A run : RunMade(run) => RunMade(run)'
<1>1. ASSUME NEW receipt, NEW task, NEW attempt, NEW proposal, NEW failure,
             TraceVerifies(traces, receipt, task, attempt, proposal, failure)
      PROVE  TraceVerifies(traces', receipt, task, attempt, proposal, failure)
  BY <1>1 DEF TraceVerifies
<1>2. ASSUME NEW j, NEW i, Made(j, i) PROVE Made(j, i)'
  BY <1>1, <1>2 DEF Made
<1>3. ASSUME NEW j, NEW control, JobMade(j, control) PROVE JobMade(j, control)'
  BY <1>2, <1>3 DEF JobMade
<1>4. ASSUME NEW j, NEW control, JobTraced(j, control) PROVE JobTraced(j, control)'
  BY <1>4, TracesGrow DEF JobTraced
<1> QED
  BY <1>2, <1>3, <1>4 DEF RunMade

\* Initially there is no run.
LEMMA InitMade == Init => MadeInv
<1> SUFFICES ASSUME Init PROVE MadeInv
  OBVIOUS
<1>1. (\A g \in Gate : pc[g] = "idle") /\ Committed = {}
  BY DEF Init, Committed, FileName
<1> QED
  BY <1>1, InitTraced DEF MadeInv

\* The other gates are at what they were at.
LEMMA OthersMade ==
    ASSUME MadeInv, NEW g \in Gate, traces \subseteq traces',
           \A h \in Gate : h # g => pc'[h] = pc[h] /\ job'[h] = job[h],
           pc'[g] # "idle" => JobMade(job[g], pc[g])'
    PROVE  \A h \in Gate : pc'[h] # "idle" => JobMade(job[h], pc[h])'
<1> SUFFICES ASSUME NEW h \in Gate, pc'[h] # "idle", h # g PROVE JobMade(job[h], pc[h])'
  OBVIOUS
<1>1. JobMade(job[h], pc[h]) /\ pc'[h] = pc[h] /\ job'[h] = job[h]
  BY DEF MadeInv
<1>2. PICK j, control : j = job[h] /\ control = pc[h]
  OBVIOUS
<1>3. JobMade(j, control)'
  BY <1>1, <1>2, MadeStays
<1> QED
  BY <1>1, <1>2, <1>3 DEF JobMade, Made

\* A gate that leaves its run has no job.
LEMMA LeaveMade ==
    ASSUME MadeInv, NEW g \in Gate, Leave(g), traces \subseteq traces'
    PROVE  \A h \in Gate : pc'[h] # "idle" => JobMade(job[h], pc[h])'
<1>1. pc'[g] = "idle" /\ \A h \in Gate : h # g => pc'[h] = pc[h] /\ job'[h] = job[h]
  BY DEF MadeInv, TracedInv, StoreInv, Leave
<1> QED
  BY <1>1, OthersMade

\* One attempt more: the run is asked once more, or is written.
LEMMA RecordMade ==
    ASSUME MadeInv, TracedInv', NEW g \in Gate, NEW entry, NEW receipt, pc[g] = "asking",
           Record(g, entry, receipt), traces \subseteq traces',
           \/ \E p \in Proposal :
                /\ entry = EntryOf(Policy(job[g].task), job[g].task, p)
                /\ \/ receipt = None
                   \/ TraceVerifies(traces', receipt, job[g].task, Len(job[g].entries), p, None)
           \/ entry = Missing /\ Len(job[g].entries) # 0 /\ receipt = None
           \/ /\ entry = Rejected /\ receipt # None
              /\ TraceVerifies(traces', receipt, job[g].task, Len(job[g].entries), None, receipt.failure)
    PROVE  \A h \in Gate : pc'[h] # "idle" => JobMade(job[h], pc[h])'
<1>0. PICK k : k = job[g]
  OBVIOUS
<1> DEFINE j == [k EXCEPT !.entries = Append(@, entry), !.receipts = Append(@, receipt)]
           again == AsksAgain(j.entries)
           control == IF again THEN "asking" ELSE "writing"
<1>1. CASE Leave(g)
  BY <1>1, LeaveMade
<1>2. CASE /\ again \/ (None \in ToSet(j.receipts) => ToSet(j.receipts) = {None})
           /\ job' = [job EXCEPT ![g] = j]
           /\ pc' = [pc EXCEPT ![g] = control]
  <2>1. /\ JobTraced(k, "asking") /\ JobMade(k, "asking")
        /\ k \in [task : {k.task}, entries : {k.entries}, receipts : {k.receipts}]
        /\ IsSeq(k.entries) /\ IsSeq(k.receipts) /\ Len(k.entries) = Len(k.receipts)
        /\ Len(k.entries) <= 1
    BY <1>0 DEF MadeInv, TracedInv, JobTraced
  <2>2. /\ j \in [task : {k.task}, entries : {Append(k.entries, entry)}, receipts : {Append(k.receipts, receipt)}]
        /\ j.task = k.task /\ j.entries = Append(k.entries, entry) /\ j.receipts = Append(k.receipts, receipt)
    BY <2>1
  <2>3. PICK n \in Nat : n = Len(k.entries) /\ n = Len(k.receipts) /\ n <= 1
    BY <2>1, AppendOne
  <2>4. /\ Len(j.entries) = n + 1 /\ j.entries[n + 1] = entry
        /\ \A i \in 1 .. n : j.entries[i] = k.entries[i]
    BY <2>1, <2>2, <2>3, AppendOne
  <2>5. /\ IsSeq(j.receipts) /\ Len(j.receipts) = n + 1 /\ j.receipts[n + 1] = receipt
        /\ \A i \in 1 .. n : j.receipts[i] = k.receipts[i]
    BY <2>1, <2>2, <2>3, AppendOne
  <2> HIDE DEF j
  <2>6. ASSUME NEW i \in 1 .. n + 1 PROVE Made(j, i)'
    <3>1. CASE i \in 1 .. n
      <4>1. Made(k, i)
        BY <2>1, <2>3, <3>1 DEF JobMade
      <4>2. Made(k, i)'
        BY <4>1, MadeStays
      <4>3. j.entries[i] = k.entries[i] /\ j.receipts[i] = k.receipts[i] /\ j.task = k.task
        BY <2>2, <2>4, <2>5, <3>1
      <4> QED
        BY <4>2, <4>3 DEF Made
    <3>2. CASE i = n + 1
      <4>1. j.receipts[i] = receipt /\ j.entries[i] = entry /\ j.task = k.task
        BY <2>2, <2>4, <2>5, <3>2
      <4>2. i - 1 = n /\ (n # 0 => i # 1)
        BY <2>3, <3>2
      <4>3. /\ \A p : TraceVerifies(traces', receipt, k.task, n, p, None) =>
                        TraceVerifies(traces', receipt, k.task, i - 1, p, None)
            /\ TraceVerifies(traces', receipt, k.task, n, None, receipt.failure) =>
                  TraceVerifies(traces', receipt, k.task, i - 1, None, receipt.failure)
        BY <4>2
      <4> QED
        BY <1>0, <2>3, <4>1, <4>2, <4>3 DEF Made
    <3> QED
      BY <2>3, <3>1, <3>2
  <2>7. Last(j.entries) = j.entries[n + 1]
    BY <2>4 DEF Last
  <2>8. again <=> j.entries[n + 1].decision = "RETRY" /\ n = 0
    BY <2>3, <2>4, <2>7 DEF AsksAgain
  <2>9. n = 1 => j.entries[1].decision = "RETRY"
    <3>1. n = 1 => k.entries[1].decision = "RETRY"
      BY <2>1, <2>3 DEF JobMade
    <3>2. n = 1 => j.entries[1] = k.entries[1]
      BY <2>4
    <3> QED
      BY <3>1, <3>2
  <2>10. ~again => \/ \A i \in 1 .. n + 1 : j.receipts[i] = None
                   \/ \A i \in 1 .. n + 1 : j.receipts[i] # None
    <3>1. DOMAIN j.receipts = 1 .. n + 1
      BY <2>3, <2>5 DEF IsSeq
    <3> QED
      BY <1>2, <3>1 DEF ToSet
  <2>11. (control = "asking" <=> again) /\ (control = "writing" <=> ~again)
    OBVIOUS
  <2>12. JobMade(j, control)'
    <3> HIDE DEF again, control
    <3>1. control = "asking" /\ Len(j.entries) = 1 => j.entries[1].decision = "RETRY"
      BY <2>3, <2>4, <2>8, <2>11
    <3>2. control = "writing" =>
            /\ Len(j.entries) \in {1, 2}
            /\ Len(j.entries) = 2 <=> j.entries[1].decision = "RETRY"
      <4>1. CASE n = 0
        <5>1. Len(j.entries) = 1 /\ (again <=> j.entries[1].decision = "RETRY")
          BY <2>4, <2>8, <4>1
        <5> QED
          BY <2>11, <5>1
      <4>2. CASE n = 1
        BY <2>4, <2>9, <2>11, <4>2
      <4>3. n = 0 \/ n = 1
        <5>1. \A m \in Nat : m <= 1 => m = 0 \/ m = 1
          OBVIOUS
        <5>2. n \in Nat /\ n <= 1
          BY <2>3
        <5> QED
          BY <5>1, <5>2, Zenon
      <4> QED
        BY <4>1, <4>2, <4>3
    <3> QED
      BY <2>4, <2>6, <2>10, <2>11, <3>1, <3>2 DEF JobMade
  <2>13. job'[g] = j /\ pc'[g] = control /\ \A h \in Gate : h # g => pc'[h] = pc[h] /\ job'[h] = job[h]
    BY <1>2 DEF MadeInv, TracedInv, StoreInv
  <2>14. JobMade(job[g], pc[g])'
    BY <2>12, <2>13 DEF JobMade, Made
  <2> QED
    BY <2>13, <2>14, OthersMade
<1> QED
  BY <1>0, <1>1, <1>2 DEF Record

\* The manifest of a run is of the job that wrote it.
LEMMA WriteMade ==
    ASSUME MadeInv, NEW g \in Gate, Write(g)
    PROVE  /\ \A h \in Gate : pc'[h] # "idle" => JobMade(job[h], pc[h])'
           /\ \A run \in Committed' : RunMade(run)'
<1>0. PICK j, name, file : j = job[g] /\ name = NamesOf(j)[step[g] + 1] /\ file = FileOf(j, name)
  OBVIOUS
<1>1. /\ pc[g] = "writing" /\ UNCHANGED traces
      /\ Leave(g) \/ UNCHANGED <<pc, job>>
      /\ files' = files \/ files' = [files EXCEPT ![file.name] = @ \union {file}]
  <2>1. CASE Conflicts(file)
    BY <1>0, <2>1 DEF Write
  <2>2. CASE ~Conflicts(file)
    BY <1>0, <2>2 DEF Write
  <2> QED
    BY <2>1, <2>2
<1>2. name \in FileName /\ file.name = name
  <2>1. step[g] \in Nat /\ step[g] < Len(NamesOf(j)) /\ Len(NamesOf(j)) \in Nat
    BY <1>0, <1>1, NamesOfRun DEF MadeInv, TracedInv, StoreInv, StepInv
  <2>2. step[g] + 1 \in 1 .. Len(NamesOf(j))
    BY <2>1
  <2>3. name \in FileName /\ (name = "model_trace" => Traced(j))
    BY <1>0, <2>2, NamesOfRun
  <2> QED
    BY <1>0, <2>3, FileDetermined
<1>3. \A h \in Gate : pc'[h] # "idle" => JobMade(job[h], pc[h])'
  <2>1. CASE Leave(g)
    BY <1>1, <2>1, LeaveMade
  <2>2. CASE UNCHANGED <<pc, job>>
    BY <1>1, <2>2 DEF MadeInv, JobMade, Made
  <2> QED
    BY <1>1, <2>1, <2>2
<1>4. JobTraced(j, "writing") /\ JobMade(j, "writing")
  BY <1>0, <1>1 DEF MadeInv, TracedInv
<1>5. ASSUME NEW run \in Committed' PROVE RunMade(run)
  <2>1. PICK f \in files'["manifest"] : run = f.run
    BY DEF Committed
  <2>2. CASE f \in files["manifest"]
    BY <2>1, <2>2 DEF MadeInv, Committed
  <2>3. CASE f \notin files["manifest"]
    <3>1. "manifest" \in FileName
      BY DEF FileName
    <3>2. f = file /\ name = "manifest"
      BY <1>1, <1>2, <2>1, <2>3, <3>1 DEF MadeInv, TracedInv, StoreInv
    <3>3. file.run = Identity(j)
      BY <1>0, <3>2 DEF FileOf
    <3> QED
      BY <1>4, <2>1, <3>2, <3>3 DEF RunMade
  <2> QED
    BY <2>2, <2>3
<1> QED
  BY <1>1, <1>3, <1>5, MadeStays

\* Every step keeps what is known of how entries are made.
LEMMA NextMade == MadeInv /\ [Next]_vars => MadeInv'
<1> SUFFICES ASSUME MadeInv, [Next]_vars PROVE MadeInv'
  OBVIOUS
<1>1. TracedInv'
  BY NextTraced DEF MadeInv
<1>2. ASSUME UNCHANGED files, traces \subseteq traces' PROVE \A run \in Committed' : RunMade(run)'
  <2>1. Committed' = Committed
    BY <1>2 DEF Committed
  <2> QED
    BY <1>2, <2>1, MadeStays DEF MadeInv
<1> DEFINE Jobs == \A h \in Gate : pc'[h] # "idle" => JobMade(job[h], pc[h])'
<1>3. ASSUME NEW g \in Gate, NEW task \in Task, Start(g, task)
      PROVE  Jobs /\ UNCHANGED files /\ traces \subseteq traces'
  <2>1. /\ UNCHANGED <<files, traces>>
        /\ job'[g] = [task |-> task, entries |-> <<>>, receipts |-> <<>>] /\ pc'[g] = "asking"
        /\ \A h \in Gate : h # g => pc'[h] = pc[h] /\ job'[h] = job[h]
    BY <1>3 DEF Start, NoJob, MadeInv, TracedInv, StoreInv
  <2>2. Len(<<>>) = 0
    OBVIOUS
  <2>3. JobMade(job[g], pc[g])'
    BY <2>1, <2>2 DEF JobMade
  <2> QED
    BY <2>1, <2>3, OthersMade
<1>4. ASSUME NEW g \in Gate, NEW proposal \in Proposal, AnswerUntraced(g, proposal)
      PROVE  Jobs /\ UNCHANGED files /\ traces \subseteq traces'
  <2>1. /\ pc[g] = "asking" /\ UNCHANGED <<files, traces>>
        /\ Record(g, EntryOf(Policy(job[g].task), job[g].task, proposal), None)
    BY <1>4 DEF AnswerUntraced, MayAnswerUntraced
  <2>2. PICK e, r : e = EntryOf(Policy(job[g].task), job[g].task, proposal) /\ r = None
    OBVIOUS
  <2> QED
    BY <1>1, <2>1, <2>2, RecordMade
<1>5. ASSUME NEW g \in Gate, NEW response \in Response, AnswerTraced(g, response)
      PROVE  Jobs /\ UNCHANGED files /\ traces \subseteq traces'
  <2>0. PICK task, n, trace : /\ task = job[g].task /\ n = Len(job[g].entries)
                              /\ trace = TraceOf(task, n, response)
    OBVIOUS
  <2>1. PICK e : e = IF trace.failure # None THEN Rejected ELSE EntryOf(Policy(task), task, trace.derived)
    OBVIOUS
  <2>2. /\ pc[g] = "asking" /\ UNCHANGED files /\ traces' = traces \union {trace}
        /\ TraceVerifies(traces', trace, task, n, trace.derived, trace.failure)
        /\ Record(g, e, trace)
    BY <1>5, <2>0, <2>1 DEF AnswerTraced
  <2>3. /\ trace.failure = InspectedFailure(response) /\ trace.derived = InspectedProposal(response)
    BY <2>0 DEF TraceOf
  <2>4. CASE trace.failure # None
    <3>1. trace.derived = None
      BY <2>3, <2>4 DEF InspectedProposal
    <3>2. trace # None
      <4>1. JobTraced(job[g], "asking")
        BY <2>2 DEF MadeInv, TracedInv
      <4>2. task \in Task /\ IsSeq(job[g].entries) /\ n <= 1
        BY <2>0, <4>1 DEF JobTraced
      <4>3. n \in Nat
        BY <2>0, <4>2, AppendOne
      <4>4. n \in 0 .. 1
        BY <4>2, <4>3
      <4> QED
        BY <2>0, <4>2, <4>4, TraceAssumption
    <3> QED
      BY <1>1, <2>0, <2>1, <2>2, <2>4, <3>1, <3>2, RecordMade
  <2>5. CASE trace.failure = None
    <3>1. trace.derived # None /\ trace.derived = response.proposal
      BY <2>2, <2>3, <2>5 DEF TraceVerifies, InspectedProposal
    <3>2. PICK p \in Proposal : p = trace.derived
      BY <3>1 DEF Response
    <3> QED
      BY <1>1, <2>0, <2>1, <2>2, <2>5, <3>2, RecordMade
  <2> QED
    BY <2>4, <2>5
<1>6. ASSUME NEW g \in Gate, AnswerMissing(g)
      PROVE  Jobs /\ UNCHANGED files /\ traces \subseteq traces'
  <2>1. /\ pc[g] = "asking" /\ job[g].entries # <<>> /\ UNCHANGED <<files, traces>>
        /\ Record(g, Missing, None)
    BY <1>6 DEF AnswerMissing
  <2>2. Len(job[g].entries) # 0
    BY <2>1 DEF MadeInv, TracedInv, JobTraced, IsSeq
  <2>3. PICK e, r : e = Missing /\ r = None
    OBVIOUS
  <2> QED
    BY <1>1, <2>1, <2>2, <2>3, RecordMade
<1>7. ASSUME NEW g \in Gate, Stop(g)
      PROVE  Jobs /\ UNCHANGED files /\ traces \subseteq traces'
  BY <1>7, LeaveMade DEF Stop
<1>8. ASSUME NEW g \in Gate, Write(g) PROVE MadeInv'
  BY <1>1, <1>8, WriteMade DEF MadeInv
<1>9. CASE UNCHANGED vars
  <2>1. Jobs /\ UNCHANGED files /\ traces \subseteq traces'
    BY <1>9 DEF vars, MadeInv, JobMade, Made
  <2> QED
    BY <1>1, <1>2, <2>1 DEF MadeInv
<1> HIDE DEF Jobs
<1>10. Jobs /\ UNCHANGED files /\ traces \subseteq traces' => MadeInv'
  BY <1>1, <1>2 DEF MadeInv, Jobs
<1> QED
  BY <1>3, <1>4, <1>5, <1>6, <1>7, <1>8, <1>9, <1>10 DEF Next

---------------------------------------------------------------------------
(* A committed run replays. *)

\* What is stored of a committed run is what its name determines.
LEMMA StoredIsContent ==
    ASSUME StoreInv, NEW run, NEW name \in FileName, Kept(run, name)
    PROVE  LET home == Home(run, name) IN
           /\ Stored(home, name) = {Content(home, name)}
           /\ Read(home, name) = Content(home, name)
<1>1. PICK home : home = Home(run, name)
  OBVIOUS
<1>2. Stored(home, name) = {Content(home, name)}
  BY <1>1 DEF StoreInv, FilesDetermined, Stored, Kept
<1> QED
  BY <1>1, <1>2 DEF Read

\* The names of the artifacts, by whether the run is traced.
LEMMA ArtifactNamesSet ==
    ASSUME NEW traced \in BOOLEAN
    PROVE  LET names == ToSet(ArtifactNames(traced)) IN
           /\ {"identity", "task", "candidate", "attempts", "policy", "ledger", "formula", "outcome"} \subseteq names
           /\ names \subseteq FileName \ {"blob", "manifest"}
           /\ "model_trace" \in names <=> traced
<1>1. PICK names : names = ArtifactNames(traced)
  OBVIOUS
<1>2. /\ names \in Seq(FileName)
      /\ "model_trace" \in ToSet(names) => traced
      /\ "blob" \notin ToSet(names) /\ "manifest" \notin ToSet(names)
  BY <1>1, ArtifactNamesSeq
<1>3. ToSet(names) \subseteq FileName \ {"blob", "manifest"}
  BY <1>2 DEF ToSet
<1>4. /\ 8 <= Len(names)
      /\ names[1] = "identity" /\ names[2] = "task" /\ names[3] = "candidate" /\ names[4] = "attempts"
      /\ names[5] = "policy" /\ names[6] = "ledger" /\ names[7] = "formula" /\ names[8] = "outcome"
      /\ traced => Len(names) = 9 /\ names[9] = "model_trace"
  BY <1>1 DEF ArtifactNames
<1>5. \A i \in 1 .. 8 : names[i] \in ToSet(names)
  BY <1>2, <1>4 DEF ToSet
<1>6. traced => names[9] \in ToSet(names)
  BY <1>2, <1>4 DEF ToSet
<1> QED
  BY <1>1, <1>2, <1>3, <1>4, <1>5, <1>6

\* An entry that was made is what a replay recomputes.
LEMMA MadeReplays ==
    ASSUME NEW j, NEW i \in 1 .. 2, Made(j, i), j.receipts[i] # None => Traced(j)
    PROVE  /\ j.entries[i] \in Recomputed(Policy(j.task), j.task, Traced(j), j.entries[i], i)
           /\ j.entries[i].reason = "shape_invalid" /\ j.entries[i].candidate = None =>
                 ~Canonical(j.entries[i].proposal)
<1>1. PICK e, policy : e = j.entries[i] /\ policy = Policy(j.task)
  OBVIOUS
<1>2. CASE \E p \in Proposal : e = EntryOf(policy, j.task, p)
  <2>1. PICK p \in Proposal : e = EntryOf(policy, j.task, p)
    BY <1>2
  <2>2. p # None
    BY ProposalAssumption
  <2>3. CASE Canonical(p)
    <3>1. e.proposal = p /\ e.candidate = p
      BY <2>1, <2>3 DEF EntryOf, Entry
    <3>2. e \in Recomputed(policy, j.task, Traced(j), e, i)
      BY <2>1, <2>2, <2>3, <3>1 DEF Recomputed
    <3> QED
      BY <1>1, <2>2, <3>1, <3>2
  <2>4. CASE ~Canonical(p)
    <3>1. e = Entry(p, None, "RETRY", "shape_invalid")
      BY <2>1, <2>4 DEF EntryOf
    <3>2. e.proposal = p /\ e.candidate = None /\ e.reason = "shape_invalid"
      BY <3>1 DEF Entry
    <3>3. e \in Recomputed(policy, j.task, Traced(j), e, i)
      BY <2>2, <3>1, <3>2 DEF Recomputed
    <3> QED
      BY <1>1, <2>4, <3>2, <3>3
  <2> QED
    BY <2>3, <2>4
<1>3. CASE e = Missing /\ i # 1
  <2>1. e.proposal = None /\ e.candidate = None /\ e.reason = "missing" /\ i = 2
    BY <1>3 DEF Missing, Entry
  <2>2. e \in Recomputed(policy, j.task, Traced(j), e, i)
    BY <1>3, <2>1 DEF Recomputed
  <2> QED
    BY <1>1, <2>1, <2>2
<1>4. CASE e = Rejected /\ j.receipts[i] # None
  <2>1. e.proposal = None /\ e.candidate = None /\ e.reason = "rejected" /\ Traced(j)
    BY <1>4 DEF Rejected, Entry
  <2>2. e \in Recomputed(policy, j.task, Traced(j), e, i)
    BY <1>4, <2>1 DEF Recomputed
  <2> QED
    BY <1>1, <2>1, <2>2
<1> QED
  BY <1>1, <1>2, <1>3, <1>4 DEF Made

\* A traced entry is of the exchange that its receipt names.
LEMMA MadeVerifies ==
    ASSUME NEW j, NEW i, Made(j, i), j.receipts[i] # None, j.entries[i].reason # "shape_invalid"
    PROVE  IF j.entries[i].reason = "rejected"
           THEN TraceVerifies(traces, j.receipts[i], j.task, i - 1, None, j.receipts[i].failure)
           ELSE /\ j.entries[i].proposal # None /\ Canonical(j.entries[i].proposal)
                /\ TraceVerifies(traces, j.receipts[i], j.task, i - 1, j.entries[i].proposal, None)
<1>1. PICK e, policy : e = j.entries[i] /\ policy = Policy(j.task)
  OBVIOUS
<1>2. ASSUME NEW p \in Proposal, e = EntryOf(policy, j.task, p),
             TraceVerifies(traces, j.receipts[i], j.task, i - 1, p, None)
      PROVE  /\ e.reason # "rejected" /\ e.proposal # None /\ Canonical(e.proposal)
             /\ TraceVerifies(traces, j.receipts[i], j.task, i - 1, e.proposal, None)
  <2>1. Canonical(p)
    BY <1>1, <1>2 DEF EntryOf, Entry
  <2>2. PICK verdict : verdict = Evaluated(policy, j.task, p)
    OBVIOUS
  <2>3. e.proposal = p /\ e.reason = verdict.reason
    BY <1>2, <2>1, <2>2 DEF EntryOf, Entry
  <2>4. verdict \in Reported
    BY <2>2, VerdictsType DEF Evaluated
  <2>5. "rejected" \notin VerdictReason
    BY DEF VerdictReason, TaskFault, ItemFault, CalculationFault
  <2>6. p # None
    BY ProposalAssumption
  <2> QED
    BY <1>2, <2>1, <2>3, <2>4, <2>5, <2>6 DEF Reported
<1>3. ASSUME e = Rejected PROVE e.reason = "rejected"
  BY <1>3 DEF Rejected, Entry
<1> QED
  BY <1>1, <1>2, <1>3 DEF Made

\* What a replay reads of a committed run.
LEMMA CommittedReads ==
    ASSUME KeptInv, NEW run \in Committed
    PROVE  LET traced == (run.receipts # <<>>)
               names == ToSet(ArtifactNames(traced)) IN
           /\ Stored(run, "manifest") # {} /\ Read(run, "manifest") = ManifestContent(run)
           /\ \A name \in names : /\ Stored(run, name) = {ArtifactContent(run, name)}
                                  /\ Read(run, name) = ArtifactContent(run, name)
           /\ Stored(run.task.document, "blob") = {run.task.document}
<1>1. PICK traced, names : traced = (run.receipts # <<>>) /\ traced \in BOOLEAN
                           /\ names = ToSet(ArtifactNames(traced))
  OBVIOUS
<1>2. "manifest" \in FileName /\ "blob" \in FileName
  BY DEF FileName
<1>3. Kept(run, "manifest")
  BY DEF Committed, Kept, Home
<1>4. Complete(run) /\ StoreInv
  BY DEF KeptInv
<1>5. Stored(run, "manifest") = {ManifestContent(run)} /\ Read(run, "manifest") = ManifestContent(run)
  BY <1>2, <1>3, <1>4, StoredIsContent DEF Home, Content
<1>6. ASSUME NEW name \in names
      PROVE  Stored(run, name) = {ArtifactContent(run, name)} /\ Read(run, name) = ArtifactContent(run, name)
  <2>1. name \in FileName /\ name # "blob" /\ name # "manifest"
    BY <1>1, ArtifactNamesSet
  <2>2. Kept(run, name)
    BY <1>1, <1>4 DEF Complete
  <2> QED
    BY <1>4, <2>1, <2>2, StoredIsContent DEF Home, Content
<1>7. Stored(run.task.document, "blob") = {run.task.document}
  <2>1. Kept(run, "blob")
    BY <1>4 DEF Complete
  <2> QED
    BY <1>2, <1>4, <2>1, StoredIsContent DEF Home, Content
<1> QED
  BY <1>1, <1>5, <1>6, <1>7

\* A run has one attempt or two.
LEMMA OneOrTwo == \A n \in {1, 2} : 1 \in 1 .. n /\ n \in 1 .. n /\ 1 .. n \subseteq 1 .. 2
OBVIOUS

\* What a run that was made is.
LEMMA RunParts ==
    ASSUME NEW j, NEW run, JobTraced(j, "writing"), JobMade(j, "writing"), run = Identity(j)
    PROVE  /\ run.task = j.task /\ run.attempts = j.entries /\ run.policy = Policy(j.task)
           /\ run.candidate = Last(j.entries).candidate /\ run.receipts = Receipts(j)
           /\ (run.receipts # <<>>) = Traced(j)
           /\ DOMAIN j.entries = 1 .. Len(j.entries) /\ Len(j.entries) \in {1, 2}
           /\ \A i \in 1 .. Len(j.entries) : j.receipts[i] # None => Traced(j)
           /\ Traced(j) => \A i \in 1 .. Len(j.entries) : j.receipts[i] # None
           /\ run.policy = "reviewed" => Traced(j)
<1>1. /\ run.task = j.task /\ run.attempts = j.entries /\ run.policy = Policy(j.task)
      /\ run.candidate = Last(j.entries).candidate /\ run.receipts = Receipts(j)
  BY DEF Identity
<1>2. (run.receipts # <<>>) = Traced(j)
  <2>1. Traced(j) \in BOOLEAN
    BY DEF Traced
  <2> QED
    BY <1>1, <2>1, ReceiptsTellTraced
<1>3. PICK n : n = Len(j.entries) /\ n = Len(j.receipts) /\ n \in {1, 2}
  BY DEF JobTraced, JobMade
<1>4. DOMAIN j.entries = 1 .. n /\ DOMAIN j.receipts = 1 .. n
  BY <1>3 DEF JobTraced, IsSeq
<1>5. \A i \in 1 .. n : j.receipts[i] # None => Traced(j)
  BY <1>4 DEF Traced
<1>6. Traced(j) => \A i \in 1 .. n : j.receipts[i] # None
  BY <1>3, <1>4 DEF Traced, JobMade
<1>7. run.policy = "reviewed" => Traced(j)
  <2>1. SUFFICES ASSUME run.policy = "reviewed" PROVE Traced(j)
    OBVIOUS
  <2>2. Reviewed(j.task)
    BY <1>1, <2>1 DEF Policy
  <2>3. 1 \in 1 .. n
    BY <1>3, OneOrTwo
  <2>4. Proven(j, 1)
    BY <1>3, <2>2, <2>3 DEF JobTraced
  <2> QED
    BY <1>5, <2>3, <2>4 DEF Proven
<1> QED
  BY <1>1, <1>2, <1>3, <1>4, <1>5, <1>6, <1>7

\* A committed run whose proposals are within the limits of a snapshot
\* passes every check of a replay.
LEMMA CommittedRunReplays ==
    ASSUME KeptInv, MadeInv, NEW run \in Committed, ~TracedUnfit(run)
    PROVE  Replays(run)
<1>1. PICK j : JobTraced(j, "writing") /\ JobMade(j, "writing") /\ run = Identity(j)
  BY DEF MadeInv, RunMade
<1>2. PICK traced, names, policy, task, entries :
         /\ traced = Traced(j) /\ traced \in BOOLEAN /\ names = ToSet(ArtifactNames(traced))
         /\ policy = Policy(j.task) /\ task = j.task /\ entries = j.entries
  BY DEF Traced
<1>3. /\ run.task = task /\ run.attempts = entries /\ run.policy = policy
      /\ run.candidate = Last(entries).candidate /\ run.receipts = Receipts(j)
      /\ (run.receipts # <<>>) = traced
      /\ DOMAIN entries = 1 .. Len(entries) /\ Len(entries) \in {1, 2}
      /\ \A i \in 1 .. Len(entries) : j.receipts[i] # None => traced
      /\ traced => \A i \in 1 .. Len(entries) : j.receipts[i] # None
      /\ policy = "reviewed" => traced
  BY <1>1, <1>2, RunParts
<1>4. PICK manifest : manifest = ManifestContent(run)
  OBVIOUS
<1>5. /\ Stored(run, "manifest") # {} /\ Read(run, "manifest") = manifest
      /\ \A name \in names : /\ Stored(run, name) = {ArtifactContent(run, name)}
                             /\ Read(run, name) = ArtifactContent(run, name)
      /\ Stored(task.document, "blob") = {task.document}
  BY <1>2, <1>3, <1>4, CommittedReads
<1>6. /\ manifest.run = run /\ manifest.document = task.document /\ manifest.policy = policy
      /\ DOMAIN manifest.artifacts = names
      /\ \A name \in names : manifest.artifacts[name] = ArtifactContent(run, name)
  BY <1>2, <1>3, <1>4 DEF ManifestContent
<1>7. /\ {"identity", "task", "candidate", "attempts", "policy", "ledger", "formula", "outcome"} \subseteq names
      /\ "model_trace" \in names <=> traced
  BY <1>2, ArtifactNamesSet
<1>8. /\ Read(run, "identity") = run /\ Read(run, "task") = task
      /\ Read(run, "candidate") = Last(entries).candidate
      /\ Read(run, "attempts") = entries /\ Read(run, "policy") = policy
      /\ Read(run, "ledger") = Calculation(policy, task, Last(entries))
      /\ Read(run, "formula") = Calculation(policy, task, Last(entries))
      /\ Read(run, "outcome") = Outcome(run, task, policy, Last(entries))
  BY <1>3, <1>5, <1>7 DEF ArtifactContent
<1>9. AttemptsReplay(policy, task, traced, entries)
  <2>1. ASSUME NEW i \in DOMAIN entries
        PROVE  /\ entries[i] \in Recomputed(policy, task, traced, entries[i], i)
               /\ entries[i].reason = "shape_invalid" /\ entries[i].candidate = None =>
                     ~Canonical(entries[i].proposal)
    <3>1. i \in 1 .. Len(j.entries) /\ i \in 1 .. 2
      BY <1>2, <1>3, OneOrTwo
    <3>2. Made(j, i) /\ (j.receipts[i] # None => Traced(j))
      BY <1>1, <1>2, <1>3, <3>1 DEF JobMade
    <3> QED
      BY <1>2, <3>1, <3>2, MadeReplays
  <2>2. (Len(entries) = 2) <=> (entries[1].decision = "RETRY")
    BY <1>1, <1>2 DEF JobMade
  <2> QED
    BY <1>3, <2>1, <2>2 DEF AttemptsReplay
<1>10. ASSUME traced
       PROVE  /\ SummaryVerifies(Read(run, "model_trace"), task, entries)
              /\ run.receipts = Read(run, "model_trace").receipts
  <2>1. PICK summary : summary = Read(run, "model_trace")
    OBVIOUS
  <2>2. summary.receipts = j.receipts /\ summary.entries = entries /\ run.receipts = j.receipts
    <3>1. run.receipts = j.receipts
      BY <1>2, <1>3, <1>10, ReceiptsTellTraced
    <3>2. summary = ArtifactContent(run, "model_trace")
      BY <1>5, <1>7, <1>10, <2>1
    <3>3. summary = [receipts |-> run.receipts, entries |-> run.attempts]
      BY <3>2 DEF ArtifactContent
    <3> QED
      BY <1>3, <3>1, <3>3
  <2>3. Len(summary.receipts) = Len(entries)
    BY <1>1, <1>2, <2>2 DEF JobTraced
  <2>4. ASSUME NEW i \in DOMAIN entries
        PROVE  IF entries[i].reason = "rejected"
               THEN TraceVerifies(traces, j.receipts[i], task, i - 1, None, j.receipts[i].failure)
               ELSE /\ entries[i].proposal # None /\ Canonical(entries[i].proposal)
                    /\ TraceVerifies(traces, j.receipts[i], task, i - 1, entries[i].proposal, None)
    <3>1. i \in 1 .. Len(j.entries) /\ j.receipts[i] # None
      BY <1>2, <1>3, <1>10
    <3>2. Made(j, i)
      BY <1>1, <3>1 DEF JobMade
    <3>3. j.entries[i].reason # "shape_invalid"
      BY <1>2, <1>3, <1>10 DEF TracedUnfit
    <3> QED
      BY <1>2, <3>1, <3>2, <3>3, MadeVerifies
  <2>5. SummaryVerifies(summary, task, entries)
    BY <2>2, <2>3, <2>4, Zenon DEF SummaryVerifies
  <2> QED
    BY <2>1, <2>2, <2>5
<1>11. run = [task |-> task, candidate |-> Read(run, "candidate"), attempts |-> entries,
              receipts |-> IF traced THEN Read(run, "model_trace").receipts ELSE <<>>,
              policy |-> policy]
  <2>1. run = [task |-> task, candidate |-> Last(entries).candidate, attempts |-> entries,
               receipts |-> Receipts(j), policy |-> policy]
    BY <1>1, <1>2 DEF Identity
  <2>2. Receipts(j) = IF traced THEN Read(run, "model_trace").receipts ELSE <<>>
    BY <1>3, <1>10
  <2> QED
    BY <1>8, <2>1, <2>2
<1>12. /\ \A name \in names : Stored(run, name) = {manifest.artifacts[name]}
       /\ names = ToSet(ArtifactNames(traced)) /\ names = DOMAIN manifest.artifacts
       /\ traced = ("model_trace" \in names)
  BY <1>2, <1>5, <1>6, <1>7
<1>13. Stored(manifest.document, "blob") = {manifest.document} /\ task.document = manifest.document
  BY <1>5, <1>6
<1> QED
  BY <1>3, <1>5, <1>6, <1>8, <1>9, <1>10, <1>11, <1>12, <1>13, Zenon DEF Replays

\* A committed run sends what its profile does not cover to a person.
LEMMA CommittedRunReviewed ==
    ASSUME MadeInv, NEW run \in Committed,
           LET looked == IF run.policy = "reviewed" THEN ReviewedTaskOrder ELSE SyntheticTaskOrder
           IN run.task.faults \intersect ToSet(looked) # {}
    PROVE  LET last == Last(run.attempts)
           IN last.decision = "HUMAN_REVIEW" \/ (last.decision = "RETRY" /\ last.candidate = None)
<1>1. PICK j : JobTraced(j, "writing") /\ JobMade(j, "writing") /\ run = Identity(j)
  BY DEF MadeInv, RunMade
<1>2. /\ run.task = j.task /\ run.attempts = j.entries /\ run.policy = Policy(j.task)
      /\ Len(j.entries) \in {1, 2}
  BY <1>1, RunParts
<1>3. PICK n : n = Len(j.entries) /\ n \in 1 .. Len(j.entries)
  BY <1>2, OneOrTwo
<1>4. PICK last, policy, task : last = j.entries[n] /\ policy = Policy(j.task) /\ task = j.task
  OBVIOUS
<1>5. Last(run.attempts) = last
  BY <1>2, <1>3, <1>4 DEF Last
<1>6. Made(j, n)
  BY <1>1, <1>3 DEF JobMade
<1>7. ASSUME NEW p \in Proposal, last = EntryOf(policy, task, p)
      PROVE  last.decision = "HUMAN_REVIEW" \/ (last.decision = "RETRY" /\ last.candidate = None)
  <2>1. CASE Canonical(p)
    <3>1. last.decision = Evaluated(policy, task, p).decision
      BY <1>7, <2>1 DEF EntryOf, Entry
    <3>2. Evaluated(policy, task, p).decision = "HUMAN_REVIEW"
      BY <1>2, <1>4, VerdictsType DEF Evaluated
    <3> QED
      BY <3>1, <3>2
  <2>2. CASE ~Canonical(p)
    BY <1>7, <2>2 DEF EntryOf, Entry
  <2> QED
    BY <2>1, <2>2
<1>8. ASSUME last \in {Missing, Rejected} PROVE last.decision = "RETRY" /\ last.candidate = None
  BY <1>8 DEF Missing, Rejected, Entry
<1> QED
  BY <1>4, <1>5, <1>6, <1>7, <1>8 DEF Made

\* A run that has its manifest replays to the decision it was given
\* (core/engine.py run and replay, core/artifacts.py), whatever other
\* processes wrote and wherever they were killed, for any number of gates,
\* tasks and proposals; all but a traced proposal that a snapshot cannot hold.
THEOREM CommittedRunsReplay == Spec => []CommittedReplays
<1>1. KeptInv /\ MadeInv => CommittedReplays
  BY CommittedRunReplays DEF CommittedReplays
<1> QED
  BY <1>1, InitKept, NextKept, InitMade, NextMade, PTL DEF Spec

\* Whatever the model proposes, a committed run of a task that has a fault the
\* evaluator of its profile looks for (core/synthetic_profile.py,
\* core/private_profile.py) is never accepted or abstained from.
THEOREM UncoveredAlwaysReviewed == Spec => []UncoveredGoesToReview
<1>1. MadeInv => UncoveredGoesToReview
  BY CommittedRunReviewed DEF UncoveredGoesToReview
<1> QED
  BY <1>1, InitMade, NextMade, PTL DEF Spec

-----------------------------------------------------------------------------
(* The cashflow check.  The invariant says of the first n rows of a        *)
(* statement what its drivers are and which rows have one.                 *)

\* The section of row i has begun.
HeaderBefore(rows, i) == \E j \in 1 .. i - 1 : rows[j].kind = "header"

\* The driver of one of the first n rows.
DriverSound(d, rows, n) ==
    /\ d.row \in 1 .. n /\ d.amount = rows[d.row].amount
    /\ rows[d.row].kind \in Usable
    /\ d.inSection \in BOOLEAN /\ (d.inSection <=> HeaderBefore(rows, d.row))

DriversSound(ds, rows, n) ==
    /\ ds \in Seq(ToSet(ds))
    /\ \A d \in ToSet(ds) : DriverSound(d, rows, n)
    /\ \A i, j \in DOMAIN ds : ds[i].row = ds[j].row => i = j

\* Each of the first n rows that states an amount of the section has a driver.
AllDriven(ds, rows, n) ==
    \A i \in 1 .. n :
        rows[i].kind \notin {"text", "header"} /\ HeaderBefore(rows, i) => \E d \in ToSet(ds) : d.row = i

\* The i-th search follows from those before it.
StepFollows(i) ==
    LET before == SubSeq(steps, 1, i - 1) IN
    /\ steps[i].origin = Origin(before)
    /\ steps[i].origin # "MODEL" => steps[i].action = RuleAction(before)
    /\ steps[i].feedback = Feedback(before, steps[i].action)
    /\ i < Len(steps) => Continues(steps[i].feedback)

StepsFollow ==
    /\ steps \in Seq(ToSet(steps)) /\ Len(steps) <= MaxSearches
    /\ \A i \in DOMAIN steps : StepFollows(i)
    /\ ~finished => \A i \in DOMAIN steps : Continues(steps[i].feedback)

CashInv ==
    /\ statement \in Statements /\ read \in 0 .. Len(statement.rows)
    /\ section \in BOOLEAN /\ (section <=> HeaderBefore(statement.rows, read + 1))
    /\ incomplete \in BOOLEAN /\ closed \in BOOLEAN /\ finished \in BOOLEAN
    /\ DriversSound(drivers, statement.rows, read)
    /\ ~incomplete => AllDriven(drivers, statement.rows, read)
    /\ closed => read = Len(statement.rows)
    /\ ~closed => steps = <<>> /\ ~finished
    /\ StepsFollow

---------------------------------------------------------------------------
(* The drivers. *)

\* A header is of the section of the rows after it.
LEMMA HeaderRead ==
    ASSUME NEW rows, NEW n \in Nat
    PROVE  HeaderBefore(rows, n + 2) <=> HeaderBefore(rows, n + 1) \/ rows[n + 1].kind = "header"
<1>1. 1 .. (n + 2) - 1 = (1 .. (n + 1) - 1) \union {n + 1}
  OBVIOUS
<1> QED
  BY <1>1, Zenon DEF HeaderBefore

\* A row that becomes no driver leaves them sound.
LEMMA SameDrivers ==
    ASSUME NEW rows, NEW n \in Nat, NEW ds, DriversSound(ds, rows, n)
    PROVE  DriversSound(ds, rows, n + 1)
<1>1. 1 .. n \subseteq 1 .. n + 1
  OBVIOUS
<1> QED
  BY <1>1, Zenon DEF DriversSound, DriverSound

\* A row that becomes a driver.
LEMMA OneMoreDriver ==
    ASSUME NEW rows, NEW n \in Nat, NEW ds, DriversSound(ds, rows, n), NEW d,
           d.row = n + 1, DriverSound(d, rows, n + 1)
    PROVE  DriversSound(Append(ds, d), rows, n + 1) /\ ToSet(Append(ds, d)) = ToSet(ds) \union {d}
<1>1. PICK T : T = ToSet(ds) \union {d}
  OBVIOUS
<1>2. PICK new : new = Append(ds, d)
  OBVIOUS
<1>3. PICK m \in Nat : m = Len(ds)
  BY DEF DriversSound
<1>4. ds \in Seq(T)
  <2>1. ds \in Seq(ToSet(ds))
    BY DEF DriversSound
  <2>2. Seq(ToSet(ds)) \subseteq Seq(T)
    BY <1>1
  <2> QED
    BY <2>1, <2>2
<1>5. d \in T
  BY <1>1
<1>6. new \in Seq(T) /\ Len(new) = m + 1 /\ new[m + 1] = d /\ \A i \in 1 .. m : new[i] = ds[i]
  BY <1>2, <1>3, <1>4, <1>5
<1>7. ToSet(new) = T
  BY <1>1, <1>2, <1>4, <1>5, ToSetAppend
<1>8. \A e \in T : DriverSound(e, rows, n + 1)
  <2>1. \A e \in ToSet(ds) : DriverSound(e, rows, n + 1)
    BY SameDrivers, Zenon DEF DriversSound
  <2> QED
    BY <1>1, <2>1
<1>9. DOMAIN new = 1 .. m + 1 /\ DOMAIN ds = 1 .. m
  BY <1>3, <1>4, <1>6
<1>10. ASSUME NEW i \in 1 .. m PROVE new[i].row # n + 1
  <2>1. ds[i] \in ToSet(ds)
    BY <1>9 DEF ToSet
  <2>2. ds[i].row \in 1 .. n
    BY <2>1 DEF DriversSound, DriverSound
  <2> QED
    BY <1>6, <2>2
<1>11. ASSUME NEW i \in DOMAIN new, NEW j \in DOMAIN new, new[i].row = new[j].row PROVE i = j
  <2>1. i \in 1 .. m \/ i = m + 1
    BY <1>9
  <2>2. j \in 1 .. m \/ j = m + 1
    BY <1>9
  <2>3. CASE i \in 1 .. m /\ j \in 1 .. m
    <3>1. ds[i].row = ds[j].row
      BY <1>6, <1>11, <2>3
    <3> QED
      BY <1>9, <2>3, <3>1 DEF DriversSound
  <2>4. new[m + 1].row = n + 1
    BY <1>6
  <2> QED
    BY <1>10, <1>11, <2>1, <2>2, <2>3, <2>4
<1>12. DriversSound(new, rows, n + 1)
  BY <1>6, <1>7, <1>8, <1>11, Zenon DEF DriversSound
<1> QED
  BY <1>1, <1>2, <1>7, <1>12

\* An ordering of the drivers has them all, each once.
LEMMA OrderedDrivers ==
    ASSUME NEW rows, NEW n \in Nat, NEW ds, DriversSound(ds, rows, n), NEW new \in Orderings(ds)
    PROVE  DriversSound(new, rows, n) /\ ToSet(new) = ToSet(ds)
<1>1. PICK p \in Bijection(DOMAIN ds, DOMAIN ds) : new = [i \in DOMAIN ds |-> ds[p[i]]]
  BY DEF Orderings
<1>2. PICK m \in Nat : m = Len(ds)
  BY DEF DriversSound
<1>3. DOMAIN ds = 1 .. m
  BY <1>2 DEF DriversSound
<1>4. /\ p \in [1 .. m -> 1 .. m]
      /\ \A i, j \in 1 .. m : p[i] = p[j] => i = j
      /\ \A j \in 1 .. m : \E i \in 1 .. m : p[i] = j
  BY <1>1, <1>3, Zenon DEF Bijection, Injection, Surjection, IsInjective
<1>5. new = [i \in 1 .. m |-> ds[p[i]]]
  BY <1>1, <1>3
<1>6. DOMAIN new = 1 .. m /\ \A i \in 1 .. m : new[i] = ds[p[i]] /\ p[i] \in 1 .. m
  BY <1>4, <1>5
<1>7. ToSet(new) = ToSet(ds)
  <2>1. ASSUME NEW i \in 1 .. m PROVE new[i] \in ToSet(ds)
    BY <1>3, <1>6, Zenon DEF ToSet
  <2>2. ASSUME NEW j \in 1 .. m PROVE ds[j] \in ToSet(new)
    <3>1. PICK i \in 1 .. m : p[i] = j
      BY <1>4
    <3>2. new[i] = ds[j]
      BY <1>6, <3>1
    <3> QED
      BY <1>6, <3>2 DEF ToSet
  <2>3. ToSet(new) \subseteq ToSet(ds)
    BY <1>6, <2>1 DEF ToSet
  <2>4. ToSet(ds) \subseteq ToSet(new)
    BY <1>3, <2>2 DEF ToSet
  <2> QED
    BY <2>3, <2>4
<1>8. new \in Seq(ToSet(new))
  <2>1. \A i \in 1 .. m : new[i] \in ToSet(new)
    BY <1>6 DEF ToSet
  <2>2. new \in [1 .. m -> ToSet(new)]
    BY <1>5, <2>1
  <2> QED
    BY <2>2
<1>9. \A d \in ToSet(new) : DriverSound(d, rows, n)
  BY <1>7 DEF DriversSound
<1>10. ASSUME NEW i \in DOMAIN new, NEW j \in DOMAIN new, new[i].row = new[j].row PROVE i = j
  <2>1. ds[p[i]].row = ds[p[j]].row /\ p[i] \in DOMAIN ds /\ p[j] \in DOMAIN ds
    BY <1>3, <1>6, <1>10
  <2>2. p[i] = p[j]
    BY <2>1 DEF DriversSound
  <2> QED
    BY <1>4, <1>6, <2>2
<1> QED
  BY <1>7, <1>8, <1>9, <1>10, Zenon DEF DriversSound

LEMMA RowsRead ==
    ASSUME CashInv, ReadRow
    PROVE  /\ read' \in 0 .. Len(statement.rows)
           /\ section' \in BOOLEAN /\ (section' <=> HeaderBefore(statement.rows, read' + 1))
           /\ incomplete' \in BOOLEAN
           /\ DriversSound(drivers', statement.rows, read')
           /\ ~incomplete' => AllDriven(drivers', statement.rows, read')
<1>1. PICK rows : rows = statement.rows
  OBVIOUS
<1>2. PICK n \in Nat : n = read
  BY DEF CashInv
<1>3. PICK row : row = rows[n + 1]
  OBVIOUS
<1>4. /\ ~closed /\ n < Len(rows)
      /\ section' = (section \/ row.kind = "header")
      /\ incomplete' = (incomplete \/ (section /\ Flawed))
      /\ read' = n + 1
      /\ drivers' = IF row.kind \in Usable /\ ~Seen
                    THEN Append(drivers, [row |-> n + 1, fact |-> row.fact, amount |-> row.amount,
                                          whole |-> row.kind # "half", inSection |-> section])
                    ELSE drivers
  BY <1>1, <1>2, <1>3 DEF ReadRow, ThisRow
<1>5. Len(rows) \in Nat /\ row.kind \in Kinds
  <2>1. rows \in Seq(ToSet(rows)) /\ \A r \in ToSet(rows) : r.kind \in Kinds
    BY <1>1, StatementsAreRead DEF CashInv, StatementsAssumption
  <2>2. Len(rows) \in Nat /\ n + 1 \in DOMAIN rows
    BY <1>4, <2>1
  <2>3. row \in ToSet(rows)
    BY <1>3, <2>2 DEF ToSet
  <2> QED
    BY <2>1, <2>2, <2>3
<1>6. /\ section \in BOOLEAN /\ (section <=> HeaderBefore(rows, n + 1))
      /\ incomplete \in BOOLEAN /\ DriversSound(drivers, rows, n)
      /\ ~incomplete => AllDriven(drivers, rows, n)
  BY <1>1, <1>2, Zenon DEF CashInv
<1>7. section' \in BOOLEAN /\ (section' <=> HeaderBefore(rows, n + 2))
  <2>1. HeaderBefore(rows, n + 2) <=> HeaderBefore(rows, n + 1) \/ row.kind = "header"
    BY <1>3, HeaderRead
  <2> QED
    BY <1>4, <1>6, <2>1
<1>8. incomplete' \in BOOLEAN /\ (~incomplete' => ~incomplete /\ (section => ~Flawed))
  BY <1>4, <1>6
<1>9. CASE row.kind \in Usable /\ ~Seen
  <2>1. PICK d : d = [row |-> n + 1, fact |-> row.fact, amount |-> row.amount,
                      whole |-> row.kind # "half", inSection |-> section]
    OBVIOUS
  <2>2. d.row = n + 1 /\ d.amount = row.amount /\ d.inSection = section
    BY <2>1
  <2>3. DriverSound(d, rows, n + 1)
    <3>1. n + 1 \in 1 .. n + 1
      OBVIOUS
    <3> QED
      BY <1>3, <1>6, <1>9, <2>2, <3>1 DEF DriverSound
  <2>4. drivers' = Append(drivers, d)
    BY <1>4, <1>9, <2>1
  <2>5. DriversSound(drivers', rows, n + 1) /\ ToSet(drivers') = ToSet(drivers) \union {d}
    <3>1. DriversSound(drivers, rows, n) /\ d.row = n + 1 /\ DriverSound(d, rows, n + 1)
      BY <1>6, <2>2, <2>3
    <3>2. DriversSound(Append(drivers, d), rows, n + 1) /\ ToSet(Append(drivers, d)) = ToSet(drivers) \union {d}
      BY <3>1, OneMoreDriver
    <3> QED
      BY <2>4, <3>2, Zenon
  <2>6. ASSUME ~incomplete PROVE AllDriven(drivers', rows, n + 1)
    <3>1. SUFFICES ASSUME NEW i \in 1 .. n + 1, rows[i].kind \notin {"text", "header"}, HeaderBefore(rows, i)
                   PROVE  \E e \in ToSet(drivers') : e.row = i
      BY DEF AllDriven
    <3>2. CASE i = n + 1
      BY <2>2, <2>5, <3>2
    <3>3. CASE i # n + 1
      <4>1. i \in 1 .. n
        BY <3>3
      <4>2. \E e \in ToSet(drivers) : e.row = i
        BY <1>6, <2>6, <3>1, <4>1 DEF AllDriven
      <4> QED
        BY <2>5, <4>2
    <3> QED
      BY <3>2, <3>3
  <2> QED
    BY <1>1, <1>4, <1>5, <1>7, <1>8, <2>5, <2>6
<1>10. CASE ~(row.kind \in Usable /\ ~Seen)
  <2>1. drivers' = drivers
    BY <1>4, <1>10
  <2>2. DriversSound(drivers', rows, n + 1)
    BY <1>6, <2>1, SameDrivers
  <2>3. ASSUME ~incomplete' PROVE AllDriven(drivers', rows, n + 1)
    <3>1. SUFFICES ASSUME NEW i \in 1 .. n + 1, rows[i].kind \notin {"text", "header"}, HeaderBefore(rows, i)
                   PROVE  \E e \in ToSet(drivers') : e.row = i
      BY DEF AllDriven
    <3>2. CASE i = n + 1
      <4>1. section /\ row.kind \notin {"text", "header"}
        BY <1>3, <1>6, <3>1, <3>2
      <4>2. Flawed
        <5>1. row.kind \in {"number", "ambiguous", "period"} \/ row.kind \in Usable
          BY <1>5, <4>1 DEF Kinds, Usable
        <5>2. ThisRow = row
          BY <1>1, <1>2, <1>3 DEF ThisRow
        <5> QED
          BY <1>10, <5>1, <5>2, Zenon DEF Flawed
      <4> QED
        BY <1>8, <2>3, <4>1, <4>2
    <3>3. CASE i # n + 1
      <4>1. i \in 1 .. n
        BY <3>3
      <4> QED
        BY <1>6, <1>8, <2>1, <2>3, <3>1, <4>1 DEF AllDriven
    <3> QED
      BY <3>2, <3>3
  <2> QED
    BY <1>1, <1>4, <1>5, <1>7, <1>8, <2>2, <2>3
<1> QED
  BY <1>9, <1>10

---------------------------------------------------------------------------
(* The searches. *)

\* A set of numbers that is not empty has a least one.
LEMMA LeastNumber ==
    ASSUME NEW S, S \subseteq Nat, S # {}
    PROVE  Min(S) \in S
<1> DEFINE T == {n \in Nat : \A k \in S : k >= n}
<1>1. ASSUME ~\E x \in S : \A y \in S : x <= y PROVE FALSE
  <2>1. 0 \in T
    OBVIOUS
  <2>2. ASSUME NEW n \in Nat, n \in T PROVE n + 1 \in T
    <3>1. n \notin S
      BY <1>1, <2>2
    <3>2. \A k \in S : k >= n + 1
      BY <2>2, <3>1
    <3> QED
      BY <3>2
  <2>3. Nat \subseteq T
    <3> HIDE DEF T
    <3> QED
      BY <2>1, <2>2, NatSetInduction
  <2>4. PICK k \in S : TRUE
    OBVIOUS
  <2>5. k + 1 \in T
    BY <2>3, <2>4
  <2> QED
    BY <2>4, <2>5
<1>2. PICK x \in S : \A y \in S : x <= y
  BY <1>1
<1> QED
  BY <1>2, Zenon DEF Min

\* A search by the rules is of a driver not searched, or there is none.
LEMMA RulesSearch ==
    ASSUME NEW done, Available \subseteq Nat
    PROVE  \/ RuleAction(done) = Finish /\ \A d \in Available : drivers[d].amount = 0 \/ d \in Searched(done)
           \/ RuleAction(done) \in Available /\ RuleAction(done) \notin Searched(done)
<1> DEFINE open == {i \in Available : i \notin Searched(done) /\ drivers[i].amount # 0}
<1>1. CASE open = {}
  <2>1. RuleAction(done) = Finish
    BY <1>1, Zenon DEF RuleAction
  <2> QED
    BY <1>1, <2>1
<1>2. CASE open # {}
  <2>1. RuleAction(done) = Min(open)
    BY <1>2, Zenon DEF RuleAction
  <2>2. Min(open) \in open
    <3>1. open \subseteq Nat
      OBVIOUS
    <3> HIDE DEF open
    <3> QED
      BY <1>2, <3>1, LeastNumber
  <2> QED
    BY <2>1, <2>2
<1> QED
  BY <1>1, <1>2

\* What was searched before is the same after another search.
LEMMA SearchedBefore ==
    ASSUME NEW S, NEW s \in Seq(S), NEW e \in S, NEW i \in 1 .. Len(s) + 1
    PROVE  SubSeq(Append(s, e), 1, i - 1) = SubSeq(s, 1, i - 1)
<1>1. PICK m \in Nat : m = Len(s)
  OBVIOUS
<1>2. PICK k \in 0 .. m : k = i - 1
  BY <1>1
<1>3. PICK t : t = Append(s, e)
  OBVIOUS
<1>4. t \in Seq(S) /\ Len(t) = m + 1 /\ \A j \in 1 .. m : t[j] = s[j]
  BY <1>1, <1>3
<1>5. PICK a : a = SubSeq(t, 1, k)
  OBVIOUS
<1>6. PICK b : b = SubSeq(s, 1, k)
  OBVIOUS
<1>7. a \in Seq(S) /\ Len(a) = k /\ \A j \in 1 .. k : a[j] = t[j]
  BY <1>2, <1>4, <1>5
<1>8. b \in Seq(S) /\ Len(b) = k /\ \A j \in 1 .. k : b[j] = s[j]
  BY <1>1, <1>2, <1>6
<1>9. \A j \in 1 .. Len(a) : a[j] = b[j]
  BY <1>2, <1>4, <1>7, <1>8
<1>10. a = b
  BY <1>7, <1>8, <1>9, SeqEqual
<1> QED
  BY <1>2, <1>3, <1>5, <1>6, <1>10

\* The searches before the next one are all there are.
LEMMA SearchedSoFar ==
    ASSUME NEW S, NEW s \in Seq(S)
    PROVE  SubSeq(s, 1, Len(s)) = s
<1>1. PICK b : b = SubSeq(s, 1, Len(s))
  OBVIOUS
<1>2. b \in Seq(S) /\ Len(b) = Len(s) /\ \A j \in 1 .. Len(s) : b[j] = s[j]
  BY <1>1
<1>3. b = s
  BY <1>2, SeqEqual
<1> QED
  BY <1>1, <1>3

LEMMA AvailableNumbers ==
    ASSUME CashInv
    PROVE  Available \subseteq Nat
<1>1. drivers \in Seq(ToSet(drivers))
  BY DEF CashInv, DriversSound
<1>2. DOMAIN drivers = 1 .. Len(drivers) /\ Len(drivers) \in Nat
  BY <1>1
<1> QED
  BY <1>2 DEF Available

LEMMA SearchesStay ==
    ASSUME NEW done, NEW action, UNCHANGED <<statement, drivers>>
    PROVE  /\ Origin(done)' = Origin(done) /\ RuleAction(done)' = RuleAction(done)
           /\ Feedback(done, action)' = Feedback(done, action)
BY DEF Origin, RuleAction, Feedback, Available, Searched

LEMMA NotesSearched ==
    ASSUME CashInv, SearchNotes
    PROVE  StepsFollow' /\ finished' \in BOOLEAN
<1>1. /\ closed /\ ~finished /\ Len(steps) < MaxSearches
      /\ UNCHANGED <<statement, read, section, incomplete, drivers, issues, closed>>
  BY Zenon DEF SearchNotes
<1>2. PICK action \in IF Origin(steps) = "MODEL" THEN {Invalid, Finish} \union 1 .. Shown + 1
                      ELSE {RuleAction(steps)} :
          LET feedback == Feedback(steps, action) IN
          /\ steps' = Append(steps, [action |-> action, origin |-> Origin(steps), feedback |-> feedback])
          /\ finished' = (~Continues(feedback) \/ Len(steps) + 1 = MaxSearches)
  BY Zenon DEF SearchNotes
<1>3. PICK feedback : feedback = Feedback(steps, action)
  OBVIOUS
<1>4. PICK e : e = [action |-> action, origin |-> Origin(steps), feedback |-> feedback]
  OBVIOUS
<1>5. e.action = action /\ e.origin = Origin(steps) /\ e.feedback = feedback
  BY <1>4
<1>6. steps' = Append(steps, e) /\ finished' = (~Continues(feedback) \/ Len(steps) + 1 = MaxSearches)
  BY <1>2, <1>3, <1>4
<1>7. /\ steps \in Seq(ToSet(steps))
      /\ \A i \in DOMAIN steps : StepFollows(i) /\ Continues(steps[i].feedback)
  BY <1>1 DEF CashInv, StepsFollow
<1>8. PICK m \in Nat : m = Len(steps)
  BY <1>7
<1>9. PICK S : S = ToSet(steps) \union {e}
  OBVIOUS
<1>10. steps \in Seq(S) /\ e \in S
  <2>1. Seq(ToSet(steps)) \subseteq Seq(S)
    BY <1>9
  <2> QED
    BY <1>7, <1>9, <2>1
<1>11. PICK t : t = steps'
  OBVIOUS
<1>12. /\ t \in Seq(S) /\ Len(t) = m + 1 /\ t[m + 1] = e /\ \A i \in 1 .. m : t[i] = steps[i]
       /\ DOMAIN t = 1 .. m + 1 /\ DOMAIN steps = 1 .. m
  BY <1>6, <1>8, <1>10, <1>11
<1>13. t \in Seq(ToSet(t))
  <2>1. ToSet(t) = S
    BY <1>6, <1>9, <1>10, <1>11, ToSetAppend
  <2> QED
    BY <1>12, <2>1
<1>14. m + 1 <= MaxSearches
  BY <1>1, <1>8, SearchesAssumption
<1>15. ASSUME NEW i \in 1 .. m
       PROVE  /\ SubSeq(t, 1, i - 1) = SubSeq(steps, 1, i - 1)
              /\ t[i] = steps[i] /\ StepFollows(i) /\ Continues(steps[i].feedback)
  <2>1. i \in 1 .. Len(steps) + 1 /\ i \in DOMAIN steps
    BY <1>8, <1>12
  <2> QED
    BY <1>6, <1>7, <1>10, <1>11, <1>12, <2>1, SearchedBefore
<1>16. SubSeq(t, 1, m) = steps
  <2>1. Len(steps) + 1 \in 1 .. Len(steps) + 1 /\ (Len(steps) + 1) - 1 = m
    BY <1>8
  <2>2. SubSeq(t, 1, m) = SubSeq(steps, 1, m)
    BY <1>6, <1>10, <1>11, <2>1, SearchedBefore
  <2>3. SubSeq(steps, 1, m) = steps
    BY <1>8, <1>10, SearchedSoFar
  <2> QED
    BY <2>2, <2>3
<1>17. e.origin # "MODEL" => e.action = RuleAction(steps)
  BY <1>2, <1>5
<1>18. ASSUME NEW i \in 1 .. m + 1
       PROVE  LET before == SubSeq(t, 1, i - 1) IN
              /\ t[i].origin = Origin(before)
              /\ t[i].origin # "MODEL" => t[i].action = RuleAction(before)
              /\ t[i].feedback = Feedback(before, t[i].action)
              /\ i < m + 1 => Continues(t[i].feedback)
  <2>1. CASE i = m + 1
    <3>1. i - 1 = m /\ ~(i < m + 1)
      BY <2>1
    <3> QED
      BY <1>3, <1>5, <1>12, <1>16, <1>17, <2>1, <3>1
  <2>2. CASE i # m + 1
    <3>1. i \in 1 .. m
      BY <2>2
    <3> QED
      BY <1>15, <3>1, Zenon DEF StepFollows
  <2> QED
    BY <2>1, <2>2
<1>19. ASSUME NEW i \in 1 .. m + 1 PROVE StepFollows(i)'
  <2>1. PICK before : before = SubSeq(t, 1, i - 1)
    OBVIOUS
  <2>2. /\ Origin(before)' = Origin(before) /\ RuleAction(before)' = RuleAction(before)
        /\ Feedback(before, t[i].action)' = Feedback(before, t[i].action)
    BY <1>1, SearchesStay
  <2> QED
    BY <1>11, <1>12, <1>18, <2>1, <2>2 DEF StepFollows
<1>20. ~finished' => \A i \in 1 .. m + 1 : Continues(t[i].feedback)
  <2>1. SUFFICES ASSUME ~finished', NEW i \in 1 .. m + 1 PROVE Continues(t[i].feedback)
    OBVIOUS
  <2>2. CASE i = m + 1
    BY <1>5, <1>6, <1>12, <2>1, <2>2
  <2>3. CASE i # m + 1
    <3>1. i \in 1 .. m
      BY <2>3
    <3> QED
      BY <1>15, <3>1
  <2> QED
    BY <2>2, <2>3
<1>21. StepsFollow'
  <2>1. Len(t) <= MaxSearches
    BY <1>12, <1>14
  <2> QED
    BY <1>11, <1>12, <1>13, <1>19, <1>20, <2>1 DEF StepsFollow, Continues
<1> QED
  BY <1>6, <1>21

---------------------------------------------------------------------------
(* The invariant holds, and says what the check promises. *)

LEMMA CashStarts == CashInit => CashInv
<1>1. SUFFICES ASSUME CashInit PROVE CashInv
  OBVIOUS
<1>2. statement \in Statements /\ Len(statement.rows) \in Nat
  BY <1>1, StatementsAreRead DEF CashInit, StatementsAssumption
<1>3. <<>> \in Seq(ToSet(<<>>)) /\ ToSet(<<>>) = {} /\ DOMAIN <<>> = {} /\ Len(<<>>) = 0
  <2>1. DOMAIN <<>> = {}
    OBVIOUS
  <2> QED
    BY <2>1 DEF ToSet
<1>4. DriversSound(drivers, statement.rows, read)
  BY <1>1, <1>3 DEF CashInit, DriversSound
<1>5. AllDriven(drivers, statement.rows, read)
  BY <1>1 DEF CashInit, AllDriven
<1>6. StepsFollow
  BY <1>1, <1>3, SearchesAssumption DEF CashInit, StepsFollow
<1>7. ~HeaderBefore(statement.rows, read + 1)
  BY <1>1 DEF CashInit, HeaderBefore
<1>8. read \in 0 .. Len(statement.rows)
  BY <1>1, <1>2 DEF CashInit
<1>9. /\ section = FALSE /\ incomplete = FALSE /\ closed = FALSE /\ finished = FALSE
      /\ steps = <<>>
  BY <1>1, Zenon DEF CashInit
<1> QED
  BY <1>2, <1>4, <1>5, <1>6, <1>7, <1>8, <1>9, Zenon DEF CashInv

\* Without a search, the searches follow as before.
LEMMA StepsStay ==
    ASSUME StepsFollow, UNCHANGED <<steps, finished>>, steps = <<>> \/ UNCHANGED <<statement, drivers>>
    PROVE  StepsFollow'
<1>1. CASE steps = <<>>
  <2>1. DOMAIN steps = {}
    BY <1>1
  <2> QED
    BY <2>1 DEF StepsFollow
<1>2. CASE UNCHANGED <<statement, drivers>>
  <2>1. ASSUME NEW i \in DOMAIN steps PROVE StepFollows(i)'
    <3>1. PICK before : before = SubSeq(steps, 1, i - 1)
      OBVIOUS
    <3>2. /\ Origin(before)' = Origin(before) /\ RuleAction(before)' = RuleAction(before)
          /\ Feedback(before, steps[i].action)' = Feedback(before, steps[i].action)
      BY <1>2, SearchesStay
    <3>3. StepFollows(i)
      BY DEF StepsFollow
    <3> QED
      BY <3>1, <3>2, <3>3 DEF StepFollows, Continues
  <2> QED
    BY <2>1 DEF StepsFollow, Continues
<1> QED
  BY <1>1, <1>2

LEMMA CashSteps ==
    ASSUME CashInv, [CashNext]_cashVars
    PROVE  CashInv'
<1>1. CASE ReadRow
  <2>1. UNCHANGED <<statement, closed, steps, finished>> /\ ~closed
    BY <1>1 DEF ReadRow
  <2>2. StepsFollow'
    BY <2>1, StepsStay DEF CashInv
  <2>3. /\ read' \in 0 .. Len(statement.rows)
        /\ section' \in BOOLEAN /\ (section' <=> HeaderBefore(statement.rows, read' + 1))
        /\ incomplete' \in BOOLEAN
        /\ DriversSound(drivers', statement.rows, read')
        /\ ~incomplete' => AllDriven(drivers', statement.rows, read')
    BY <1>1, RowsRead
  <2> QED
    BY <2>1, <2>2, <2>3 DEF CashInv
<1>2. CASE CloseBridge
  <2>1. /\ UNCHANGED <<statement, read, section, incomplete, steps, finished>>
        /\ ~closed /\ closed' = TRUE /\ read = Len(statement.rows) /\ drivers' \in Orderings(drivers)
    BY <1>2, Zenon DEF CloseBridge
  <2>2. StepsFollow'
    BY <2>1, StepsStay DEF CashInv
  <2>3. read \in Nat
    BY StatementsAreRead DEF CashInv, StatementsAssumption
  <2>4. DriversSound(drivers', statement.rows, read) /\ ToSet(drivers') = ToSet(drivers)
    BY <2>1, <2>3, OrderedDrivers DEF CashInv
  <2>5. ~incomplete => AllDriven(drivers', statement.rows, read)
    BY <2>4 DEF CashInv, AllDriven
  <2> QED
    BY <2>1, <2>2, <2>4, <2>5 DEF CashInv
<1>3. CASE SearchNotes
  <2>1. UNCHANGED <<statement, read, section, incomplete, drivers, issues, closed>> /\ closed
    BY <1>3, Zenon DEF SearchNotes
  <2>2. StepsFollow' /\ finished' \in BOOLEAN
    BY <1>3, NotesSearched
  <2> QED
    BY <2>1, <2>2 DEF CashInv
<1>4. CASE UNCHANGED cashVars
  <2>1. UNCHANGED <<statement, read, section, incomplete, drivers, issues, closed, steps, finished>>
    BY <1>4 DEF cashVars
  <2>2. StepsFollow'
    BY <2>1, StepsStay DEF CashInv
  <2> QED
    BY <2>1, <2>2 DEF CashInv
<1> QED
  BY <1>1, <1>2, <1>3, <1>4, Zenon DEF CashNext

LEMMA SectionCounted == CashInv => CountedOnce
<1>1. SUFFICES ASSUME CashInv, closed, SectionComplete
      PROVE  /\ {d.row : d \in ToSet(Members)} = Stated
             /\ \A i, j \in DOMAIN Members : Members[i].row = Members[j].row => i = j
             /\ \A d \in ToSet(Members) : d.amount = statement.rows[d.row].amount
  BY Zenon DEF CountedOnce
<1>2. PICK rows : rows = statement.rows
  OBVIOUS
<1>3. PICK n \in Nat : n = read /\ DOMAIN rows = 1 .. n
  BY <1>1, <1>2, StatementsAreRead DEF CashInv, StatementsAssumption
<1>4. DriversSound(drivers, rows, n) /\ AllDriven(drivers, rows, n)
  BY <1>1, <1>2, <1>3 DEF CashInv, SectionComplete
<1>5. PICK ds : ds = drivers
  OBVIOUS
<1>6. PICK T : T = {d \in ToSet(ds) : d.inSection}
  OBVIOUS
<1>7. PICK ms : ms = Those(ds, T)
  OBVIOUS
<1>8. ms = Members
  BY <1>5, <1>6, <1>7 DEF Members
<1>9. ds \in Seq(ToSet(ds))
  BY <1>4, <1>5 DEF DriversSound
<1>10. ms \in Seq(ToSet(ds) \intersect T) /\ ToSet(ms) = T
  BY <1>6, <1>7, <1>9, ThoseType
<1>11. \A d \in T : DriverSound(d, rows, n) /\ d.inSection
  BY <1>4, <1>5, <1>6 DEF DriversSound
<1>12. {d.row : d \in T} = Stated
  <2>1. ASSUME NEW d \in T PROVE d.row \in Stated
    <3>1. d.row \in DOMAIN rows /\ rows[d.row].kind \in Usable /\ HeaderBefore(rows, d.row)
      BY <1>3, <1>11 DEF DriverSound
    <3>2. rows[d.row].kind \notin {"text", "header"}
      BY <3>1 DEF Usable
    <3> QED
      BY <1>2, <3>1, <3>2 DEF Stated, HeaderBefore
  <2>2. ASSUME NEW i \in Stated PROVE \E d \in T : d.row = i
    <3>1. i \in 1 .. n /\ rows[i].kind \notin {"text", "header"} /\ HeaderBefore(rows, i)
      BY <1>2, <1>3 DEF Stated, HeaderBefore
    <3>2. PICK d \in ToSet(ds) : d.row = i
      BY <1>4, <1>5, <3>1 DEF AllDriven
    <3>3. d.inSection
      BY <1>4, <1>5, <3>1, <3>2 DEF DriversSound, DriverSound
    <3> QED
      BY <1>6, <3>2, <3>3
  <2> QED
    BY <2>1, <2>2
<1>13. \A i, j \in DOMAIN ms : ms[i].row = ms[j].row => i = j
  <2>1. PICK g : Enumerates(g, ds, T, ms)
    BY <1>7, <1>9, ThosePlaces
  <2>2. PICK m \in Nat, k \in Nat :
            m = Len(ms) /\ k = Len(ds) /\ DOMAIN ms = 1 .. m /\ DOMAIN ds = 1 .. k
    BY <1>9, <1>10
  <2>3. /\ g \in [1 .. m -> 1 .. k]
        /\ \A i, j \in 1 .. m : i < j => g[i] < g[j]
        /\ \A i \in 1 .. m : ms[i] = ds[g[i]]
    BY <2>1, <2>2 DEF Enumerates
  <2>4. ASSUME NEW i \in 1 .. m, NEW j \in 1 .. m, ms[i].row = ms[j].row PROVE i = j
    <3>1. g[i] \in 1 .. k /\ g[j] \in 1 .. k
      BY <2>3
    <3>2. ds[g[i]].row = ds[g[j]].row
      BY <2>3, <2>4, Zenon
    <3>3. g[i] = g[j]
      BY <1>4, <1>5, <2>2, <3>1, <3>2, Zenon DEF DriversSound
    <3> QED
      BY <2>3, <3>1, <3>3
  <2> QED
    BY <2>2, <2>4
<1>14. \A d \in T : d.amount = rows[d.row].amount
  BY <1>11 DEF DriverSound
<1> QED
  BY <1>2, <1>8, <1>10, <1>12, <1>13, <1>14

LEMMA RulesAlwaysGoOn == CashInv => RulesGoOn
<1>1. SUFFICES ASSUME CashInv, NEW i \in DOMAIN steps, steps[i].origin # "MODEL"
      PROVE  /\ steps[i].feedback \notin {"INVALID_ACTION", "ACTION_NOT_ALLOWED", "REPEATED_SEARCH_STOPPED"}
             /\ steps[i].feedback = "FINISHED" =>
                   \A d \in Available : drivers[d].amount = 0 \/ d \in Searched(SubSeq(steps, 1, i - 1))
  BY Zenon DEF RulesGoOn
<1>2. PICK before : before = SubSeq(steps, 1, i - 1)
  OBVIOUS
<1>3. PICK action : action = RuleAction(before)
  OBVIOUS
<1>4. steps[i].feedback = Feedback(before, action)
  BY <1>1, <1>2, <1>3, Zenon DEF CashInv, StepsFollow, StepFollows
<1>5. Available \subseteq Nat
  BY <1>1, AvailableNumbers
<1>6. CASE action = Finish /\ \A d \in Available : drivers[d].amount = 0 \/ d \in Searched(before)
  <2>1. Finish # Invalid
    BY DEF Finish, Invalid
  <2>2. action \in Available \union {Finish, Invalid} /\ action \notin Available
    <3>1. Len(drivers) \in Nat /\ \A d \in Available : d \in 1 .. Len(drivers)
      BY <1>1 DEF CashInv, DriversSound, Available
    <3>2. Finish \notin Available
      BY <3>1 DEF Finish
    <3> QED
      BY <1>6, <3>2
  <2>3. Feedback(before, Finish) = "FINISHED"
    BY <1>6, <2>1, <2>2 DEF Feedback
  <2>4. Feedback(before, action) = "FINISHED"
    BY <1>6, <2>3, Zenon
  <2> QED
    BY <1>2, <1>4, <1>6, <2>4
<1>7. CASE action \in Available /\ action \notin Searched(before)
  <2>1. action # Invalid /\ action # Finish
    <3>1. action \in 1 .. Len(drivers) /\ Len(drivers) \in Nat
      BY <1>1, <1>7 DEF CashInv, DriversSound, Available
    <3> QED
      BY <3>1 DEF Invalid, Finish
  <2>2. Feedback(before, action) = statement.notes[drivers[action].row]
    BY <1>7, <2>1 DEF Feedback
  <2>3. statement.notes[drivers[action].row] \in Disclosures
    <3>1. drivers[action] \in ToSet(drivers)
      BY <1>7 DEF Available, ToSet
    <3>2. drivers[action].row \in 1 .. read
      BY <1>1, <3>1 DEF CashInv, DriversSound, DriverSound
    <3>3. statement \in Statements /\ read \in 0 .. Len(statement.rows)
      BY <1>1 DEF CashInv
    <3>4. drivers[action].row \in DOMAIN statement.rows
      BY <3>2, <3>3, StatementsAreRead DEF StatementsAssumption
    <3> QED
      BY <3>3, <3>4, StatementsAreRead DEF StatementsAssumption
  <2>4. steps[i].feedback \in Disclosures
    BY <1>4, <2>2, <2>3
  <2> QED
    BY <2>4 DEF Disclosures
<1> QED
  BY <1>3, <1>5, <1>6, <1>7, RulesSearch

LEMMA WhatRanReplays == CashInv => SearchesReplay(steps)
<1>1. SUFFICES ASSUME CashInv PROVE SearchesReplay(steps)
  OBVIOUS
<1>2. /\ steps \in Seq(ToSet(steps)) /\ Len(steps) <= MaxSearches
      /\ \A i \in DOMAIN steps : StepFollows(i)
  BY <1>1 DEF CashInv, StepsFollow
<1>3. PICK m \in Nat : m = Len(steps) /\ DOMAIN steps = 1 .. m
  BY <1>2
<1>4. ASSUME NEW i \in 1 .. m
      PROVE  LET before == SubSeq(steps, 1, i - 1)
                 fruitless == i > 1 /\ steps[i - 1].feedback \in {"NO_MATCHING_DISCLOSURE", "BACKGROUND_ONLY"}
             IN /\ steps[i].origin = IF statement.strategy = "rules" THEN "RULES"
                                     ELSE IF fruitless THEN "RULE_FALLBACK" ELSE "MODEL"
                /\ steps[i].origin # "MODEL" => steps[i].action = RuleAction(before)
                /\ steps[i].feedback = Feedback(before, steps[i].action)
                /\ i > 1 => Continues(steps[i - 1].feedback)
  <2>1. PICK before : before = SubSeq(steps, 1, i - 1)
    OBVIOUS
  <2>2. /\ steps[i].origin = Origin(before)
        /\ steps[i].origin # "MODEL" => steps[i].action = RuleAction(before)
        /\ steps[i].feedback = Feedback(before, steps[i].action)
    BY <1>2, <1>3, <2>1, Zenon DEF StepFollows
  <2>3. CASE i = 1
    <3>1. before = <<>>
      BY <1>2, <2>1, <2>3
    <3>2. ~(i > 1)
      BY <2>3
    <3>3. Origin(before) = IF statement.strategy = "rules" THEN "RULES" ELSE "MODEL"
      BY <3>1, Zenon DEF Origin
    <3> QED
      BY <2>1, <2>2, <3>2, <3>3, Zenon
  <2>4. CASE i # 1
    <3>1. i - 1 \in 1 .. m /\ i > 1 /\ i - 1 < m
      BY <2>4
    <3>2. before # <<>> /\ Last(before) = steps[i - 1]
      <4>1. before \in Seq(ToSet(steps)) /\ Len(before) = i - 1 /\ \A j \in 1 .. i - 1 : before[j] = steps[j]
        BY <1>2, <1>3, <2>1, <3>1
      <4>2. i - 1 \in 1 .. i - 1 /\ i - 1 # 0
        BY <3>1
      <4> QED
        BY <4>1, <4>2 DEF Last
    <3>3. Continues(steps[i - 1].feedback)
      BY <1>2, <1>3, <3>1, Zenon DEF StepFollows
    <3>4. Origin(before) = IF statement.strategy = "rules" THEN "RULES"
                           ELSE IF steps[i - 1].feedback \in {"NO_MATCHING_DISCLOSURE", "BACKGROUND_ONLY"}
                                THEN "RULE_FALLBACK" ELSE "MODEL"
      BY <3>2, Zenon DEF Origin
    <3> QED
      BY <2>1, <2>2, <3>1, <3>3, <3>4, Zenon
  <2> QED
    BY <2>3, <2>4
<1> QED
  BY <1>2, <1>3, <1>4, Zenon DEF SearchesReplay

\* InvestigationSound: a section that is called complete counts each amount it
\* states once, the searches chosen by the rules never stop a run that has a
\* driver left to search, and the searches of a finished run replay.
THEOREM InvestigationAlwaysSound == CashSpec => []InvestigationSound
<1>1. CashInit => CashInv
  BY CashStarts
<1>2. CashInv /\ [CashNext]_cashVars => CashInv'
  BY CashSteps
<1>3. CashInv => InvestigationSound
  BY SectionCounted, RulesAlwaysGoOn, WhatRanReplays DEF InvestigationSound
<1> QED
  BY <1>1, <1>2, <1>3, PTL DEF CashSpec
=============================================================================
