---------------------------- MODULE CaseJournal ----------------------------
(***************************************************************************)
(* The event journal of one Case (src/finauditgate/application/module.py): *)
(* several application processes work on the same directory, each durable  *)
(* write is a step of its own, and a process may die, or a write fail,     *)
(* between any two of them.                                                *)
(*                                                                         *)
(* A transition is published as                                            *)
(*     intent -> material -> event -> head (replaced) -> commit receipt    *)
(* under an exclusive lock of the Case.  A write_once file appears whole   *)
(* or not at all (written beside, fsynced, linked), so the sets below are  *)
(* the directory listings that the code globs.                             *)
(***************************************************************************)
EXTENDS CaseRules

CONSTANTS
    Proc,           \* application processes (clients run one command at a time)
    Free,           \* the Case's lock is not held
    None,           \* no transaction
    Ops,            \* the kinds of command that clients issue
    MaxAnalyses     \* bound of the model: no new analysis past this many

ASSUME ProcAssumption == Free \notin Proc
ASSUME BoundAssumption == MaxAnalyses \in Nat

VARIABLES
    hasRecord,  \* case.json exists
    hasHead,    \* journal-head.json exists
    head,       \* the history that journal-head.json names
    intents,    \* transactions/*.intent.json
    receipts,   \* transactions/*.commit.json, by the intent they are for
    materials,  \* workpapers/*.json and reviews/*.json
    events,     \* events/*.json, each by the history its hash chain ends
    packets,    \* packets/*.json
    replays,    \* replays/*.json, by the run replayed
    runs,       \* the run directories of the core
    lock,       \* who holds the flock of locks/<case>.lock
    pc,         \* what each process does next
    cmd,        \* the command each process handles, or handled last
    txn,        \* the transaction a process works on
    reply       \* how each process's last command ended

files == <<hasRecord, hasHead, head, intents, receipts, materials, events, packets,
           replays, runs>>
procs == <<lock, pc, cmd, txn, reply>>
vars == <<files, procs>>

---------------------------------------------------------------------------
(* Commands, transactions and outcomes. *)

Transition == {"analyse", "review"}

Command ==
    [op : {"create", "read", "analyse"}]
    \union [op : {"review"}, run : Run, action : ReviewAction, reason : Reason]
    \union [op : {"export", "replay"}, run : Run]

Intent == [prev : History, material : Material]
Packet == [run : Run, review : Review]
Reply == [result : {"none", "ok", "refused", "pending_conflict", "not_found",
                    "artifact_conflict"},
          seen : History]

NoReply == [result |-> "none", seen |-> <<>>]
NoCommand == [op |-> "read"]

Sequence(i) == Len(i.prev) + 1
NextHead(i) == Append(i.prev, i.material)

\* The command_identity an intent stores: the reviewer's clock is not in it.
CommandOf(m) ==
    IF m.kind = "workpaper"
    THEN [op |-> "analyse"]
    ELSE [op |-> "review", run |-> m.run, action |-> m.action, reason |-> m.reason]

---------------------------------------------------------------------------
(* Reading the directory back. *)

Committed(i) == Sequence(i) <= Len(head)
Open == intents \ receipts
Pending == {i \in Open : ~Committed(i)}
Unsealed == {i \in Open : Committed(i)}
HasEvent(i) == NextHead(i) \in events
HasMaterial(i) == i.material \in materials

RecoverOk ==
    /\ hasHead
    /\ receipts \subseteq intents
    /\ \A i, j \in intents : Sequence(i) = Sequence(j) => i = j
    /\ \A i \in intents : Sequence(i) <= Len(head) + 1
    /\ \A i \in intents : Committed(i) => HasMaterial(i) /\ HasEvent(i)
    /\ \A i \in receipts : Committed(i)
    /\ \A i \in Unsealed : Sequence(i) = Len(head)
    /\ Unsealed = {} \/ Pending = {}
    /\ \A i \in Pending : HasEvent(i) => HasMaterial(i)
    /\ {Sequence(i) : i \in receipts \union Unsealed} = 1 .. Len(head)

\* A pending intent is honoured only if the committed Case allows it.
PendingValid(i) == i.prev = head /\ MayFollow(head, i.material)

\* Every event and material file belongs to the committed history, or to the
\* one pending transaction.
MembershipOk ==
    /\ events = {SubSeq(head, 1, n) : n \in DOMAIN head}
                \union {NextHead(i) : i \in {j \in Pending : HasEvent(j)}}
    /\ materials = {head[n] : n \in DOMAIN head}
                   \union {i.material : i \in {j \in Pending : HasMaterial(j)}}

PacketsOk ==
    \A p \in packets :
        /\ Status(head) = "APPROVED"
        /\ p = [run |-> LatestRun(head), review |-> Last(head)]

ReplaysOk == replays \subseteq RunsOf(head)

LoadOk ==
    /\ RecoverOk
    /\ MembershipOk
    /\ LegalHistory(head) /\ RunsOf(head) \subseteq runs
    /\ PacketsOk
    /\ ReplaysOk
    /\ \A i \in Pending : PendingValid(i) /\ RunsOf(NextHead(i)) \subseteq runs

---------------------------------------------------------------------------
(* Steps of a process. *)

At(p, label) == pc[p] = label
Goto(p, label) ==
    /\ pc' = [pc EXCEPT ![p] = label]
    /\ UNCHANGED <<lock, cmd, reply>>

\* The command ends and the lock is released, whatever the outcome.
\* Bug: a refused command returns with the Case still locked.
AnswerKeepingLock(p, result, seen) ==
    /\ pc' = [pc EXCEPT ![p] = "idle"]
    /\ reply' = [reply EXCEPT ![p] = [result |-> result, seen |-> seen]]
    /\ lock' = IF result = "ok" THEN Free ELSE lock
    /\ UNCHANGED cmd
Answer(p, result, seen) ==
    /\ pc' = [pc EXCEPT ![p] = "idle"]
    /\ reply' = [reply EXCEPT ![p] = [result |-> result, seen |-> seen]]
    /\ lock' = Free
    /\ UNCHANGED cmd

\* A client issues command c; _case_lock refuses a Case without case.json.
Issue(p, c) ==
    /\ At(p, "idle")
    /\ cmd' = [cmd EXCEPT ![p] = c]
    /\ txn' = [txn EXCEPT ![p] = None]
    /\ IF c.op = "create" \/ hasRecord
       THEN /\ pc' = [pc EXCEPT ![p] = "lock"]
            /\ reply' = [reply EXCEPT ![p] = NoReply]
       ELSE /\ reply' = [reply EXCEPT ![p] = [result |-> "not_found", seen |-> <<>>]]
            /\ UNCHANGED pc
    /\ UNCHANGED <<files, lock>>

Entry == [create |-> "create_head", read |-> "read", replay |-> "find",
          analyse |-> "seal", review |-> "seal", export |-> "seal"]

\* flock(LOCK_EX); ReplayRun takes it twice, to find the owner and to replay.
LockAvailable(p) == lock = Free
Acquire(p) ==
    /\ pc[p] \in {"lock", "relock"}
    /\ LockAvailable(p)
    /\ lock' = p
    /\ pc' = [pc EXCEPT ![p] = IF At(p, "lock") THEN Entry[cmd[p].op] ELSE "seal"]
    /\ UNCHANGED <<files, cmd, txn, reply>>

---------------------------------------------------------------------------
(* CreateCase. *)

\* The empty head comes first, so that case.json is never without one.
CreateHead(p) ==
    /\ At(p, "create_head")
    /\ IF hasRecord THEN UNCHANGED hasHead ELSE hasHead' = TRUE
    /\ Goto(p, "create_record")
    /\ UNCHANGED <<hasRecord, head, intents, receipts, materials, events, packets,
                   replays, runs, txn>>

AnswerView(p) ==
    IF LoadOk THEN Answer(p, "ok", head) ELSE Answer(p, "refused", <<>>)

CreateRecord(p) ==
    /\ At(p, "create_record")
    /\ hasRecord' = TRUE
    /\ AnswerView(p)
    /\ UNCHANGED <<hasHead, head, intents, receipts, materials, events, packets,
                   replays, runs, txn>>

(* read_case: takes the lock, writes nothing, seals nothing. *)
Read(p) ==
    /\ At(p, "read")
    /\ AnswerView(p)
    /\ UNCHANGED <<files, txn>>

\* Bug: a run that the core has stored is taken for a run of the Case.
StoredInCore(run) == run \in runs
Owns(run) == run \in RunsOf(head)

(* _find_case_for_run: looks under the lock, and lets the lock go. *)
Find(p) ==
    /\ At(p, "find")
    /\ IF LoadOk /\ Owns(cmd[p].run)
       THEN /\ pc' = [pc EXCEPT ![p] = "relock"]
            /\ lock' = Free
            /\ UNCHANGED <<cmd, reply>>
       ELSE Answer(p, "refused", <<>>)
    /\ UNCHANGED <<files, txn>>

---------------------------------------------------------------------------
(* A command under the lock: seal what an earlier process left unsealed,   *)
(* then decide.                                                            *)

\* txn remembers the transition that was sealed.
Seal(p) ==
    /\ At(p, "seal")
    /\ IF RecoverOk
       THEN /\ receipts' = receipts \union Unsealed
            /\ txn' = [txn EXCEPT ![p] = IF Unsealed = {} THEN None
                                         ELSE CHOOSE i \in Unsealed : TRUE]
            /\ Goto(p, "decide")
       ELSE /\ Answer(p, "refused", <<>>)
            /\ UNCHANGED <<receipts, txn>>
    /\ UNCHANGED <<hasRecord, hasHead, head, intents, materials, events, packets, replays, runs>>

\* Only the command that opened a pending transaction may complete it.
\* Bug: any command of the same kind takes it over.
AnyMayResume(i, c) == CommandOf(i.material).op = c.op
\* Bug: a pending analysis is run again instead of being completed.
ReviewsResumeOnly(i, c) == i.material.kind = "review" /\ CommandOf(i.material) = c
MayResume(i, c) == CommandOf(i.material) = c

MayReview(c) ==
    /\ Status(head) = "AWAITING_REVIEW"
    /\ c.run = LatestRun(head)
    /\ Approvable(c.action, c.run)

MayExport(c) == Status(head) = "APPROVED" /\ c.run = LatestRun(head)

MayOpen(c) ==
    /\ Pending = {}
    /\ LoadOk
    /\ \/ c.op = "analyse" /\ MayAnalyse(head)
       \/ c.op = "review" /\ MayReview(c)

Resumable(c) == {i \in Pending : MayResume(i, c) /\ PendingValid(i)}

\* An offline step that changes nothing but the reply.
Refuse(p) ==
    LET c == cmd[p]
        conflict == c.op \in Transition /\ Pending # {} /\ Resumable(c) = {}
        allowed ==
            \/ c.op \in Transition /\ (MayOpen(c) \/ Resumable(c) # {})
            \/ c.op = "export" /\ LoadOk /\ MayExport(c)
            \/ c.op = "replay" /\ LoadOk /\ Owns(c.run)
    IN  /\ At(p, "decide")
        /\ ~allowed
        /\ Answer(p, IF conflict THEN "pending_conflict" ELSE "refused", <<>>)
        /\ UNCHANGED <<files, txn>>

Resume(p) ==
    /\ At(p, "decide")
    /\ cmd[p].op \in Transition
    /\ \E i \in Resumable(cmd[p]) : txn' = [txn EXCEPT ![p] = i]
    /\ Goto(p, "material")
    /\ UNCHANGED files

\* FinAuditGate.run and its replay: a run of this task is stored in the core,
\* whose output the model behind it chooses.
RunGate(p) ==
    /\ At(p, "decide")
    /\ cmd[p].op = "analyse"
    /\ MayOpen(cmd[p])
    /\ \E output \in Output :
           LET run == [number |-> NextNumber(head), output |-> output] IN
           /\ runs' = runs \union {run}
           /\ txn' = [txn EXCEPT ![p] =
                          [prev |-> head,
                           material |-> [kind |-> "workpaper", run |-> run]]]
    /\ Goto(p, "intent")
    /\ UNCHANGED <<hasRecord, hasHead, head, intents, receipts, materials, events, packets,
                   replays>>

---------------------------------------------------------------------------
(* _commit_case_transition and _apply_case_transaction. *)

\* The intent is durable before it is validated against the committed Case.
Begin(p, m) ==
    LET i == [prev |-> head, material |-> m] IN
    /\ IF Open = {}
       THEN /\ intents' = intents \union {i}
            /\ txn' = [txn EXCEPT ![p] = i]
            /\ IF PendingValid(i) THEN Goto(p, "material") ELSE Answer(p, "refused", <<>>)
       ELSE /\ Answer(p, "pending_conflict", <<>>)
            /\ UNCHANGED <<intents, txn>>
    /\ UNCHANGED <<hasRecord, hasHead, head, receipts, materials, events, packets, replays, runs>>

OpenAnalysis(p) == At(p, "intent") /\ Begin(p, txn[p].material)

OpenReview(p) ==
    /\ At(p, "decide")
    /\ cmd[p].op = "review"
    /\ MayOpen(cmd[p])
    /\ \E at \in Stamp :
           Begin(p, [kind |-> "review", run |-> cmd[p].run, action |-> cmd[p].action,
                     reason |-> cmd[p].reason, at |-> at])

\* Bug: the event is published before the material it refers to.
WriteEventFirst(p) ==
    /\ At(p, "material")
    /\ events' = events \union {NextHead(txn[p])}
    /\ Goto(p, "event")
    /\ UNCHANGED <<hasRecord, hasHead, head, intents, receipts, materials, packets, replays, runs, txn>>
WriteMaterial(p) ==
    /\ At(p, "material")
    /\ IF head = txn[p].prev
       THEN materials' = materials \union {txn[p].material} /\ Goto(p, "event")
       ELSE Answer(p, "refused", <<>>) /\ UNCHANGED materials
    /\ UNCHANGED <<hasRecord, hasHead, head, intents, receipts, events, packets, replays, runs, txn>>

\* write_once refuses another content under the same file name.
WriteEvent(p) ==
    LET h == NextHead(txn[p]) IN
    /\ At(p, "event")
    /\ IF \E e \in events : Len(e) = Len(h) /\ e # h
       THEN Answer(p, "artifact_conflict", <<>>) /\ UNCHANGED events
       ELSE events' = events \union {h} /\ Goto(p, "head")
    /\ UNCHANGED <<hasRecord, hasHead, head, intents, receipts, materials, packets, replays, runs, txn>>

\* Bug: the new head is written beside the old one and never renamed.
StageHeadOnly(p) ==
    /\ At(p, "head")
    /\ Goto(p, "receipt")
    /\ UNCHANGED <<files, txn>>
ReplaceHead(p) ==
    /\ At(p, "head")
    /\ head' = NextHead(txn[p])
    /\ Goto(p, "receipt")
    /\ UNCHANGED <<hasRecord, hasHead, intents, receipts, materials, events, packets, replays, runs, txn>>

WriteReceipt(p) ==
    /\ At(p, "receipt")
    /\ receipts' = receipts \union {txn[p]}
    /\ txn' = [txn EXCEPT ![p] = None]
    /\ Answer(p, "ok", NextHead(txn[p]))
    /\ UNCHANGED <<hasRecord, hasHead, head, intents, materials, events, packets,
                   replays, runs>>

---------------------------------------------------------------------------
(* ExportChangePacket and the second half of ReplayRun. *)

Export(p) ==
    /\ At(p, "decide")
    /\ cmd[p].op = "export"
    /\ LoadOk
    /\ MayExport(cmd[p])
    /\ packets' = packets \union {[run |-> cmd[p].run, review |-> Last(head)]}
    /\ Answer(p, "ok", head)
    /\ UNCHANGED <<hasRecord, hasHead, head, intents, receipts, materials, events, replays, runs, txn>>

Replay(p) ==
    /\ At(p, "decide")
    /\ cmd[p].op = "replay"
    /\ LoadOk
    /\ Owns(cmd[p].run)
    /\ replays' = replays \union {cmd[p].run}
    /\ Answer(p, "ok", head)
    /\ UNCHANGED <<hasRecord, hasHead, head, intents, receipts, materials, events, packets, runs, txn>>

\* The process is killed, or a read or write raises: whatever it has written
\* stays, the lock goes (the kernel drops the flock of a dead process), and
\* its client starts afresh.
Interrupt(p) ==
    /\ ~At(p, "idle")
    /\ pc' = [pc EXCEPT ![p] = "idle"]
    /\ cmd' = [cmd EXCEPT ![p] = NoCommand]
    /\ txn' = [txn EXCEPT ![p] = None]
    /\ reply' = [reply EXCEPT ![p] = NoReply]
    /\ lock' = IF lock = p THEN Free ELSE lock
    /\ UNCHANGED files

---------------------------------------------------------------------------

\* The commands a client can issue; it can name the runs it finds in the core.
Issuable ==
    [op : Ops \intersect {"create", "read"}]
    \union {c \in [op : Ops \intersect {"analyse"}] :
               Cardinality(Analyses(head)) < MaxAnalyses}
    \union [op : Ops \intersect {"review"}, run : runs,
            action : ReviewAction, reason : Reason]
    \union [op : Ops \intersect {"export", "replay"}, run : runs]

Init ==
    /\ hasRecord = FALSE /\ hasHead = FALSE
    /\ head = <<>>
    /\ intents = {} /\ receipts = {} /\ materials = {} /\ events = {}
    /\ packets = {} /\ replays = {} /\ runs = {}
    /\ lock = Free
    /\ pc = [p \in Proc |-> "idle"]
    /\ cmd = [p \in Proc |-> NoCommand]
    /\ txn = [p \in Proc |-> None]
    /\ reply = [p \in Proc |-> NoReply]

\* What the process itself does once a command is issued.
Work(p) ==
    \/ Acquire(p) \/ CreateHead(p) \/ CreateRecord(p) \/ Read(p) \/ Find(p)
    \/ Seal(p) \/ Refuse(p) \/ Resume(p) \/ RunGate(p)
    \/ OpenAnalysis(p) \/ OpenReview(p)
    \/ WriteMaterial(p) \/ WriteEvent(p) \/ ReplaceHead(p) \/ WriteReceipt(p)
    \/ Export(p) \/ Replay(p)

Next ==
    \E p \in Proc :
        \/ \E c \in Issuable : Issue(p, c)
        \/ Work(p)
        \/ Interrupt(p)

Spec == Init /\ [][Next]_vars

\* A running process keeps running; clients owe nothing.
FairSpec == Spec /\ \A p \in Proc : WF_vars(Work(p))

---------------------------------------------------------------------------
(* Properties. *)

\* Every variable has the shape its file or field has in the code.
TypeOK ==
    /\ hasRecord \in BOOLEAN /\ hasHead \in BOOLEAN
    /\ head \in History
    /\ intents \subseteq Intent
    /\ receipts \subseteq Intent
    /\ materials \subseteq Material
    /\ events \subseteq History
    /\ packets \subseteq Packet
    /\ replays \subseteq Run
    /\ runs \subseteq Run
    /\ lock \in Proc \union {Free}
    /\ pc \in [Proc -> {"idle", "lock", "relock", "create_head", "create_record",
                       "read", "find", "seal", "decide", "intent", "material",
                       "event", "head", "receipt"}]
    /\ cmd \in [Proc -> Command]
    /\ txn \in [Proc -> Intent \union {None}]
    /\ reply \in [Proc -> Reply]

\* Wherever a process stops, and however many stop one after the other, the
\* directory it leaves passes every integrity check of the loader.
Readable == hasRecord => LoadOk

\* A client is told "ok" for the command it gave, also when it completes a
\* transaction that another process opened.
AckIsForCommand ==
    \A p \in Proc :
        reply[p].result = "ok" /\ cmd[p].op \in Transition
            => /\ reply[p].seen # <<>>
               /\ CommandOf(Last(reply[p].seen)) = cmd[p]

\* What any client has been shown or acknowledged is never taken back.
ObservationsStable == \A p \in Proc : IsPrefix(reply[p].seen, head)

\* The run that ReplayRun found before it let the lock go is still owned by
\* the Case when it has the lock again.
FoundStaysOwned ==
    \A p \in Proc :
        cmd[p].op = "replay" /\ pc[p] \in {"relock", "seal", "decide"}
            => cmd[p].run \in RunsOf(head)

\* A packet cites the approval of a machine-accepted run, which ends the
\* history: nothing is appended after it was exported.
PacketIsFinal ==
    \A p \in packets :
        /\ head # <<>> /\ Last(head) = p.review
        /\ p.review.action = "APPROVE" /\ p.review.run = p.run
        /\ MachineAccepts(p.run)

\* The history grows by the one pending transaction and by nothing else.
OnlyPendingAdvances ==
    [][head' # head => \E i \in Pending : i.prev = head /\ head' = NextHead(i)]_vars

\* The command that opened a pending transaction is never refused.
ResumeNeverRefused ==
    [][\A p \in Proc :
          At(p, "decide") /\ (\E i \in Pending : CommandOf(i.material) = cmd[p])
              => reply'[p].result \notin {"refused", "pending_conflict"}]_vars

\* The journal implements the life cycle: a transition takes effect at the
\* replacement of the head, and at no other step.
Reviews(h) == {h[n] : n \in DOMAIN h \ Analyses(h)}
Lifecycle == INSTANCE CaseLifecycle WITH
    NoRun <- None,
    status <- Status(head),
    current <- IF Analyses(head) = {} THEN None ELSE LatestRun(head),
    analysed <- RunsOf(head),
    reviews <- Reviews(head),
    packets <- {p.review : p \in packets}
ImplementsLifecycle == Lifecycle!Spec

\* docs/architecture.md:206 "an interrupted transition is either invisible or
\* exactly resumable by the same command": a command that finds its own
\* transition interrupted before the receipt is not refused.
ResumableBySameCommand ==
    \A p \in Proc :
        At(p, "idle") /\ reply[p].result = "refused" /\ txn[p] # None
            => CommandOf(txn[p].material) # cmd[p]

\* No command keeps the Case's lock for ever.
LockReleased == \A p \in Proc : lock = p ~> lock # p

=============================================================================
