------------------------- MODULE CaseJournalProofs --------------------------
(***************************************************************************)
(* Proofs about CaseJournal, for any number of processes, any commands,    *)
(* outputs, reasons and clock values, and histories of any length: its     *)
(* types; the safety of the directory, which passes the loader wherever    *)
(* processes stop (Readable); what its clients are told; and that it       *)
(* implements CaseLifecycle.                                               *)
(*                                                                         *)
(* The invariant describes the directory without the loader's arithmetic.  *)
(* An intent is the n-th transition of the committed history, or one that  *)
(* may be the next; all but the last committed one are sealed; and at most *)
(* one transaction is open.  What a process relies on at each of its steps *)
(* is stated beside it, and the lock makes it the concern of one process.  *)
(* For the client of a process: an acknowledgement is for its own command, *)
(* nothing shown is taken back, an owner that was found stays the owner, a *)
(* pending transaction is completed for the command that opened it, and a  *)
(* packet is final.                                                        *)
(***************************************************************************)
EXTENDS CaseJournal, FiniteSetTheorems, SequenceTheorems, TLAPS

Labels == {"idle", "lock", "relock", "create_head", "create_record", "read",
           "find", "seal", "decide", "intent", "material", "event", "head",
           "receipt"}

\* Between these steps a process holds a transaction of its own.
Transacting == {"intent", "material", "event", "head", "receipt"}

TxnInv == \A p \in Proc : pc[p] \in Transacting => txn[p] \in Intent

---------------------------------------------------------------------------
(* Lemmas about histories. *)

LEMMA NextNumberType ==
    ASSUME NEW h \in History
    PROVE  NextNumber(h) \in Nat \ {0}
<1>1. IsFiniteSet(1 .. Len(h))
  BY FS_Interval, LenProperties DEF History
<1>2. Analyses(h) \subseteq 1 .. Len(h)
  BY DEF Analyses, History
<1>3. Cardinality(Analyses(h)) \in Nat
  BY <1>1, <1>2, FS_Subset, FS_CardinalityType
<1> QED
  BY <1>3 DEF NextNumber

LEMMA HistoryAppend ==
    ASSUME NEW h \in History, NEW m \in Material
    PROVE  /\ Append(h, m) \in History
           /\ Append(h, m) # <<>>
           /\ Len(Append(h, m)) = Len(h) + 1
           /\ Last(Append(h, m)) = m
BY AppendProperties DEF History, Last

LEMMA LastInMaterial ==
    ASSUME NEW h \in History, h # <<>>
    PROVE  Len(h) \in DOMAIN h /\ Last(h) \in Material
BY DEF History, Last

\* An approved history ends with the review that approved it.
LEMMA ApprovedByReview ==
    ASSUME NEW h \in History, Status(h) = "APPROVED"
    PROVE  h # <<>> /\ Last(h) \in Review /\ Last(h).action = "APPROVE"
<1>1. h # <<>>
  BY DEF Status
<1>2. Last(h) \in Material
  BY <1>1, LastInMaterial
<1>3. StatusAfter(Last(h)) = "APPROVED"
  BY <1>1 DEF Status
<1>4. Last(h) \in Review
  BY <1>2, <1>3 DEF StatusAfter, Material, Workpaper
<1>5. Last(h).kind # "workpaper" /\ Last(h).action \in ReviewAction
  BY <1>4 DEF Review
<1> QED
  BY <1>1, <1>3, <1>4, <1>5 DEF StatusAfter, ResultingStatus, ReviewAction

LEMMA CommandFields ==
    ASSUME NEW c \in Command
    PROVE  /\ c.op \in {"review", "export", "replay"} => c.run \in Run
           /\ c.op = "review" => c.action \in ReviewAction /\ c.reason \in Reason
           /\ c.op \in {"create", "read", "analyse", "review", "export", "replay"}
BY DEF Command

LEMMA IntentFields ==
    ASSUME NEW i \in Intent
    PROVE  /\ i.prev \in History /\ i.material \in Material
           /\ NextHead(i) \in History
           /\ Sequence(i) = Len(i.prev) + 1
BY HistoryAppend DEF Intent, NextHead, Sequence

LEMMA NewIntent ==
    ASSUME NEW h \in History, NEW m \in Material
    PROVE  [prev |-> h, material |-> m] \in Intent
BY DEF Intent

---------------------------------------------------------------------------
(* Type correctness. *)

\* Types of the process variables, and of the files.
ProcsType ==
    /\ lock \in Proc \union {Free}
    /\ pc \in [Proc -> Labels]
    /\ cmd \in [Proc -> Command]
    /\ txn \in [Proc -> Intent \union {None}]
    /\ reply \in [Proc -> Reply]

FilesType ==
    /\ hasRecord \in BOOLEAN /\ hasHead \in BOOLEAN
    /\ head \in History
    /\ intents \subseteq Intent
    /\ receipts \subseteq Intent
    /\ materials \subseteq Material
    /\ events \subseteq History
    /\ packets \subseteq Packet
    /\ replays \subseteq Run
    /\ runs \subseteq Run

TypeInv == FilesType /\ ProcsType /\ TxnInv

LEMMA TypeInvImplies == TypeInv => TypeOK
BY DEF TypeInv, TypeOK, FilesType, ProcsType, Labels

LEMMA NoneTyped == <<>> \in History /\ NoCommand \in Command /\ NoReply \in Reply
BY DEF History, NoCommand, Command, NoReply, Reply

LEMMA TypeInit == Init => TypeInv
<1> SUFFICES ASSUME Init PROVE TypeInv
  OBVIOUS
<1>1. FilesType /\ ProcsType
  BY NoneTyped DEF Init, FilesType, ProcsType, Labels
<1>2. TxnInv
  BY DEF Init, TxnInv, Transacting
<1> QED
  BY <1>1, <1>2 DEF TypeInv

\* What the control steps do to the process variables.
LEMMA GotoType ==
    ASSUME ProcsType, NEW p \in Proc, NEW label \in Labels, Goto(p, label)
    PROVE  /\ lock' \in Proc \union {Free}
           /\ pc' \in [Proc -> Labels]
           /\ cmd' \in [Proc -> Command]
           /\ reply' \in [Proc -> Reply]
BY DEF ProcsType, Goto, Labels

LEMMA AnswerType ==
    ASSUME ProcsType, NEW p \in Proc, NEW h \in History, NEW result,
           result \in {"ok", "refused", "pending_conflict", "artifact_conflict"},
           Answer(p, result, h)
    PROVE  /\ lock' \in Proc \union {Free}
           /\ pc' \in [Proc -> Labels]
           /\ cmd' \in [Proc -> Command]
           /\ reply' \in [Proc -> Reply]
<1>1. [result |-> result, seen |-> h] \in Reply
  BY DEF Reply
<1> QED
  BY <1>1 DEF ProcsType, Answer, Labels

LEMMA IssuableType ==
    ASSUME FilesType, NEW c \in Issuable
    PROVE  c \in Command
BY DEF FilesType, Issuable, Command

LEMMA IssueType ==
    ASSUME TypeInv, NEW p \in Proc, NEW c \in Issuable, Issue(p, c)
    PROVE  TypeInv'
<1>1. c \in Command
  BY IssuableType DEF TypeInv
<1>2. [result |-> "not_found", seen |-> <<>>] \in Reply
  BY NoneTyped DEF Reply
<1>3. FilesType'
  BY DEF TypeInv, FilesType, Issue, files
<1>4. ProcsType'
  BY <1>1, <1>2, NoneTyped DEF TypeInv, ProcsType, Issue, Labels
<1>5. TxnInv'
  BY DEF TypeInv, ProcsType, TxnInv, Issue, Transacting, At
<1> QED
  BY <1>3, <1>4, <1>5 DEF TypeInv

LEMMA InterruptType ==
    ASSUME TypeInv, NEW p \in Proc, Interrupt(p)
    PROVE  TypeInv'
<1>3. FilesType'
  BY DEF TypeInv, FilesType, Interrupt, files
<1>4. ProcsType'
  BY NoneTyped DEF TypeInv, ProcsType, Interrupt, Labels
<1>5. TxnInv'
  BY DEF TypeInv, ProcsType, TxnInv, Interrupt, Transacting
<1> QED
  BY <1>3, <1>4, <1>5 DEF TypeInv

LEMMA AcquireType ==
    ASSUME TypeInv, NEW p \in Proc, Acquire(p)
    PROVE  TypeInv'
<1>1. cmd[p].op \in {"create", "read", "analyse", "review", "export", "replay"}
  BY CommandFields DEF TypeInv, ProcsType
<1>2. Entry[cmd[p].op] \in {"create_head", "read", "find", "seal"}
  BY <1>1 DEF Entry
<1>3. FilesType'
  BY DEF TypeInv, FilesType, Acquire, files
<1>4. ProcsType'
  BY <1>2 DEF TypeInv, ProcsType, Acquire, Labels
<1>5. TxnInv'
  BY <1>2 DEF TypeInv, ProcsType, TxnInv, Acquire, Transacting
<1> QED
  BY <1>3, <1>4, <1>5 DEF TypeInv

\* A step that ends the command, or moves on with the same transaction, keeps
\* TxnInv if it leaves txn alone.
LEMMA TxnKept ==
    ASSUME TypeInv, NEW p \in Proc, UNCHANGED txn,
           NEW label \in Labels, pc' = [pc EXCEPT ![p] = label],
           label \in Transacting => pc[p] \in Transacting
    PROVE  TxnInv'
BY DEF TypeInv, ProcsType, TxnInv, Labels

LEMMA TxnSet ==
    ASSUME TypeInv, NEW p \in Proc, NEW i \in Intent \union {None},
           txn' = [txn EXCEPT ![p] = i],
           NEW label \in Labels, pc' = [pc EXCEPT ![p] = label],
           label \in Transacting => i \in Intent
    PROVE  TxnInv' /\ txn' \in [Proc -> Intent \union {None}]
BY DEF TypeInv, ProcsType, TxnInv, Labels

LEMMA CreateHeadType ==
    ASSUME TypeInv, NEW p \in Proc, CreateHead(p)
    PROVE  TypeInv'
<1>f. FilesType'
  BY DEF TypeInv, FilesType, CreateHead
<1>p. ProcsType'
  BY GotoType DEF TypeInv, ProcsType, CreateHead, Labels
<1>t. TxnInv'
  BY TxnKept DEF CreateHead, Goto, Labels, Transacting
<1> QED
  BY <1>f, <1>p, <1>t DEF TypeInv

LEMMA AnswerViewType ==
    ASSUME TypeInv, NEW p \in Proc, AnswerView(p), UNCHANGED txn
    PROVE  ProcsType' /\ TxnInv'
<1>1. head \in History /\ <<>> \in History
  BY NoneTyped DEF TypeInv, FilesType
<1>2. ProcsType'
  BY <1>1, AnswerType DEF TypeInv, ProcsType, AnswerView
<1>3. TxnInv'
  BY TxnKept DEF AnswerView, Answer, Labels, Transacting
<1> QED
  BY <1>2, <1>3

LEMMA CreateRecordType ==
    ASSUME TypeInv, NEW p \in Proc, CreateRecord(p)
    PROVE  TypeInv'
<1>f. FilesType'
  BY DEF TypeInv, FilesType, CreateRecord
<1>p. ProcsType'
  BY AnswerViewType DEF CreateRecord
<1>t. TxnInv'
  BY AnswerViewType DEF CreateRecord
<1> QED
  BY <1>f, <1>p, <1>t DEF TypeInv

LEMMA ReadType ==
    ASSUME TypeInv, NEW p \in Proc, Read(p)
    PROVE  TypeInv'
<1>f. FilesType'
  BY DEF TypeInv, FilesType, Read, files
<1>p. ProcsType'
  BY AnswerViewType DEF Read
<1>t. TxnInv'
  BY AnswerViewType DEF Read
<1> QED
  BY <1>f, <1>p, <1>t DEF TypeInv

LEMMA FindType ==
    ASSUME TypeInv, NEW p \in Proc, Find(p)
    PROVE  TypeInv'
<1>f. FilesType'
  BY DEF TypeInv, FilesType, Find, files
<1>p. ProcsType'
  <2>1. CASE LoadOk /\ Owns(cmd[p].run)
    BY <2>1 DEF TypeInv, ProcsType, Find, Labels
  <2>2. CASE ~(LoadOk /\ Owns(cmd[p].run))
    BY <2>2, AnswerType, NoneTyped DEF TypeInv, ProcsType, Find
  <2> QED
    BY <2>1, <2>2
<1>t. TxnInv'
  BY TxnKept DEF Find, Answer, Labels, Transacting
<1> QED
  BY <1>f, <1>p, <1>t DEF TypeInv

LEMMA SealType ==
    ASSUME TypeInv, NEW p \in Proc, Seal(p)
    PROVE  TypeInv'
<1>f. FilesType'
  BY DEF TypeInv, FilesType, Seal, Unsealed, Open
<1>pt. ProcsType' /\ TxnInv'
  <2>1. CASE RecoverOk
    <3>1. PICK i \in Intent \union {None} : txn' = [txn EXCEPT ![p] = i]
      BY <2>1 DEF TypeInv, FilesType, Seal, Unsealed, Open
    <3>2. ProcsType'
      BY <2>1, <3>1, GotoType, TxnSet DEF TypeInv, ProcsType, Seal, Goto, Labels, Transacting
    <3>3. TxnInv'
      BY <2>1, <3>1, TxnSet DEF Seal, Goto, Labels, Transacting
    <3> QED
      BY <3>2, <3>3
  <2>2. CASE ~RecoverOk
    <3>1. ProcsType'
      BY <2>2, AnswerType, NoneTyped DEF TypeInv, ProcsType, Seal
    <3>2. TxnInv'
      BY <2>2, TxnKept DEF Seal, Answer, Labels, Transacting
    <3> QED
      BY <3>1, <3>2
  <2> QED
    BY <2>1, <2>2
<1> QED
  BY <1>f, <1>pt DEF TypeInv

LEMMA RefuseType ==
    ASSUME TypeInv, NEW p \in Proc, Refuse(p)
    PROVE  TypeInv'
<1>f. FilesType'
  BY DEF TypeInv, FilesType, Refuse, files
<1>1. PICK result \in {"refused", "pending_conflict"} : Answer(p, result, <<>>)
  BY DEF Refuse
<1>p. ProcsType'
  BY <1>1, AnswerType, NoneTyped DEF TypeInv, ProcsType, Refuse
<1>t. TxnInv'
  BY <1>1, TxnKept DEF Refuse, Answer, Labels, Transacting
<1> QED
  BY <1>f, <1>p, <1>t DEF TypeInv

LEMMA ResumeType ==
    ASSUME TypeInv, NEW p \in Proc, Resume(p)
    PROVE  TypeInv'
<1>f. FilesType'
  BY DEF TypeInv, FilesType, Resume, files
<1>1. PICK i \in Intent : txn' = [txn EXCEPT ![p] = i]
  BY DEF TypeInv, FilesType, Resume, Resumable, Pending, Open
<1>p. ProcsType'
  BY <1>1, GotoType, TxnSet DEF TypeInv, ProcsType, Resume, Goto, Labels
<1>t. TxnInv'
  BY <1>1, TxnSet DEF Resume, Goto, Labels
<1> QED
  BY <1>f, <1>p, <1>t DEF TypeInv

LEMMA RunGateType ==
    ASSUME TypeInv, NEW p \in Proc, RunGate(p)
    PROVE  TypeInv'
<1>1. PICK output \in Output :
         LET run == [number |-> NextNumber(head), output |-> output] IN
         /\ runs' = runs \union {run}
         /\ txn' = [txn EXCEPT ![p] =
                        [prev |-> head,
                         material |-> [kind |-> "workpaper", run |-> run]]]
  BY DEF RunGate
<1> DEFINE run == [number |-> NextNumber(head), output |-> output]
           m == [kind |-> "workpaper", run |-> run]
<1>2. head \in History
  BY DEF TypeInv, FilesType
<1>3. run \in Run
  BY <1>2, NextNumberType DEF Run
<1>4. m \in Material
  BY <1>3 DEF Material, Workpaper
<1>5. [prev |-> head, material |-> m] \in Intent
  BY <1>2, <1>4, NewIntent
<1>f. FilesType'
  BY <1>1, <1>3 DEF TypeInv, FilesType, RunGate
<1>6. txn' = [txn EXCEPT ![p] = [prev |-> head, material |-> m]]
  BY <1>1
<1> HIDE DEF m
<1>p. ProcsType'
  BY <1>5, <1>6, GotoType, TxnSet DEF TypeInv, ProcsType, RunGate, Goto, Labels
<1>t. TxnInv'
  BY <1>5, <1>6, TxnSet DEF RunGate, Goto, Labels
<1> QED
  BY <1>f, <1>p, <1>t DEF TypeInv

LEMMA BeginType ==
    ASSUME TypeInv, NEW p \in Proc, NEW m \in Material, Begin(p, m)
    PROVE  TypeInv'
<1> DEFINE i == [prev |-> head, material |-> m]
<1>1. head \in History
  BY DEF TypeInv, FilesType
<1>2. i \in Intent
  BY <1>1, NewIntent
<1>f. FilesType'
  BY <1>2 DEF TypeInv, FilesType, Begin
<1>pt. ProcsType' /\ TxnInv'
  <2>3. CASE Open = {}
    <3>1. txn' = [txn EXCEPT ![p] = i]
      BY <2>3 DEF Begin
    <3>2. CASE PendingValid(i)
      <4>1. Goto(p, "material")
        BY <2>3, <3>2 DEF Begin
      <4> HIDE DEF i
      <4>2. ProcsType'
        BY <1>2, <3>1, <4>1, GotoType, TxnSet DEF TypeInv, ProcsType, Goto, Labels
      <4>3. TxnInv'
        BY <1>2, <3>1, <4>1, TxnSet DEF Goto, Labels
      <4> QED
        BY <4>2, <4>3
    <3>3. CASE ~PendingValid(i)
      <4>1. Answer(p, "refused", <<>>)
        BY <2>3, <3>3 DEF Begin
      <4> HIDE DEF i
      <4>2. ProcsType'
        BY <1>2, <3>1, <4>1, AnswerType, NoneTyped, TxnSet
           DEF TypeInv, ProcsType, Answer, Labels
      <4>3. TxnInv'
        BY <1>2, <3>1, <4>1, TxnSet DEF Answer, Labels
      <4> QED
        BY <4>2, <4>3
    <3> QED
      BY <3>2, <3>3
  <2>4. CASE Open # {}
    <3>1. Answer(p, "pending_conflict", <<>>) /\ UNCHANGED txn
      BY <2>4 DEF Begin
    <3>2. ProcsType'
      BY <3>1, AnswerType, NoneTyped DEF TypeInv, ProcsType
    <3>3. TxnInv'
      BY <3>1, TxnKept DEF Answer, Labels, Transacting
    <3> QED
      BY <3>2, <3>3
  <2> QED
    BY <2>3, <2>4
<1> QED
  BY <1>f, <1>pt DEF TypeInv

LEMMA OpenType ==
    ASSUME TypeInv, NEW p \in Proc, OpenAnalysis(p) \/ OpenReview(p)
    PROVE  TypeInv'
<1>1. CASE OpenAnalysis(p)
  <2>1. txn[p].material \in Material
    BY <1>1, IntentFields DEF OpenAnalysis, At, TypeInv, TxnInv, Transacting
  <2> QED
    BY <1>1, <2>1, BeginType DEF OpenAnalysis
<1>2. CASE OpenReview(p)
  <2>1. PICK at \in Stamp :
           Begin(p, [kind |-> "review", run |-> cmd[p].run, action |-> cmd[p].action,
                     reason |-> cmd[p].reason, at |-> at])
    BY <1>2 DEF OpenReview
  <2>2. cmd[p].run \in Run /\ cmd[p].action \in ReviewAction /\ cmd[p].reason \in Reason
    BY <1>2, CommandFields DEF OpenReview, TypeInv, ProcsType
  <2>3. [kind |-> "review", run |-> cmd[p].run, action |-> cmd[p].action,
         reason |-> cmd[p].reason, at |-> at] \in Material
    BY <2>2 DEF Material, Review
  <2> QED
    BY <2>1, <2>3, BeginType
<1> QED
  BY <1>1, <1>2

\* The transaction of a process that holds one.
LEMMA OwnTxn ==
    ASSUME TypeInv, NEW p \in Proc, pc[p] \in Transacting
    PROVE  /\ txn[p] \in Intent
           /\ txn[p].prev \in History /\ txn[p].material \in Material
           /\ NextHead(txn[p]) \in History
BY IntentFields DEF TypeInv, TxnInv

LEMMA WriteMaterialType ==
    ASSUME TypeInv, NEW p \in Proc, WriteMaterial(p)
    PROVE  TypeInv'
<1>1. txn[p] \in Intent /\ txn[p].material \in Material /\ NextHead(txn[p]) \in History
  BY OwnTxn DEF WriteMaterial, At, Transacting
<1>f. FilesType'
  BY <1>1 DEF TypeInv, FilesType, WriteMaterial
<1>p. ProcsType'
  BY GotoType, AnswerType, NoneTyped DEF TypeInv, ProcsType, WriteMaterial, Labels
<1>t. TxnInv'
  BY TxnKept DEF WriteMaterial, Goto, Answer, At, Labels, Transacting
<1> QED
  BY <1>f, <1>p, <1>t DEF TypeInv

LEMMA WriteEventType ==
    ASSUME TypeInv, NEW p \in Proc, WriteEvent(p)
    PROVE  TypeInv'
<1>1. txn[p] \in Intent /\ txn[p].material \in Material /\ NextHead(txn[p]) \in History
  BY OwnTxn DEF WriteEvent, At, Transacting
<1>f. FilesType'
  BY <1>1 DEF TypeInv, FilesType, WriteEvent
<1>p. ProcsType'
  BY GotoType, AnswerType, NoneTyped DEF TypeInv, ProcsType, WriteEvent, Labels
<1>t. TxnInv'
  BY TxnKept DEF WriteEvent, Goto, Answer, At, Labels, Transacting
<1> QED
  BY <1>f, <1>p, <1>t DEF TypeInv

LEMMA ReplaceHeadType ==
    ASSUME TypeInv, NEW p \in Proc, ReplaceHead(p)
    PROVE  TypeInv'
<1>1. txn[p] \in Intent /\ txn[p].material \in Material /\ NextHead(txn[p]) \in History
  BY OwnTxn DEF ReplaceHead, At, Transacting
<1>f. FilesType'
  BY <1>1 DEF TypeInv, FilesType, ReplaceHead
<1>p. ProcsType'
  BY GotoType, AnswerType, NoneTyped DEF TypeInv, ProcsType, ReplaceHead, Labels
<1>t. TxnInv'
  BY TxnKept DEF ReplaceHead, Goto, Answer, At, Labels, Transacting
<1> QED
  BY <1>f, <1>p, <1>t DEF TypeInv

LEMMA WriteReceiptType ==
    ASSUME TypeInv, NEW p \in Proc, WriteReceipt(p)
    PROVE  TypeInv'
<1>1. txn[p] \in Intent /\ NextHead(txn[p]) \in History
  BY OwnTxn DEF WriteReceipt, At, Transacting
<1>f. FilesType'
  BY <1>1 DEF TypeInv, FilesType, WriteReceipt
<1>p. ProcsType'
  BY <1>1, AnswerType, TxnSet DEF TypeInv, ProcsType, WriteReceipt, Answer, Labels, Transacting
<1>t. TxnInv'
  BY TxnSet DEF WriteReceipt, Answer, Labels, Transacting
<1> QED
  BY <1>f, <1>p, <1>t DEF TypeInv

LEMMA ExportType ==
    ASSUME TypeInv, NEW p \in Proc, Export(p)
    PROVE  TypeInv'
<1>1. head \in History
  BY DEF TypeInv, FilesType
<1>2. Last(head) \in Review
  BY <1>1, ApprovedByReview DEF Export, MayExport
<1>3. cmd[p].run \in Run
  BY CommandFields DEF Export, TypeInv, ProcsType
<1>4. [run |-> cmd[p].run, review |-> Last(head)] \in Packet
  BY <1>2, <1>3 DEF Packet
<1>f. FilesType'
  BY <1>4 DEF TypeInv, FilesType, Export
<1>p. ProcsType'
  BY <1>1, AnswerType DEF TypeInv, ProcsType, Export
<1>t. TxnInv'
  BY TxnKept DEF Export, Answer, Labels, Transacting
<1> QED
  BY <1>f, <1>p, <1>t DEF TypeInv

LEMMA ReplayType ==
    ASSUME TypeInv, NEW p \in Proc, Replay(p)
    PROVE  TypeInv'
<1>1. head \in History
  BY DEF TypeInv, FilesType
<1>3. cmd[p].run \in Run
  BY CommandFields DEF Replay, TypeInv, ProcsType
<1>f. FilesType'
  BY <1>3 DEF TypeInv, FilesType, Replay
<1>p. ProcsType'
  BY <1>1, AnswerType DEF TypeInv, ProcsType, Replay
<1>t. TxnInv'
  BY TxnKept DEF Replay, Answer, Labels, Transacting
<1> QED
  BY <1>f, <1>p, <1>t DEF TypeInv

LEMMA TypeStep == TypeInv /\ [Next]_vars => TypeInv'
<1> SUFFICES ASSUME TypeInv, [Next]_vars PROVE TypeInv'
  OBVIOUS
<1>1. ASSUME NEW p \in Proc, NEW c \in Issuable, Issue(p, c) PROVE TypeInv'
  BY <1>1, IssueType
<1>2. ASSUME NEW p \in Proc, Work(p) PROVE TypeInv'
  <2>1. CASE Acquire(p) \/ CreateHead(p) \/ CreateRecord(p) \/ Read(p) \/ Find(p)
    BY <2>1, AcquireType, CreateHeadType, CreateRecordType, ReadType, FindType
  <2>2. CASE Seal(p) \/ Refuse(p) \/ Resume(p) \/ RunGate(p)
    BY <2>2, SealType, RefuseType, ResumeType, RunGateType
  <2>3. CASE OpenAnalysis(p) \/ OpenReview(p)
    BY <2>3, OpenType
  <2>4. CASE WriteMaterial(p) \/ WriteEvent(p) \/ ReplaceHead(p) \/ WriteReceipt(p)
    BY <2>4, WriteMaterialType, WriteEventType, ReplaceHeadType, WriteReceiptType
  <2>5. CASE Export(p) \/ Replay(p)
    BY <2>5, ExportType, ReplayType
  <2> QED
    BY <1>2, <2>1, <2>2, <2>3, <2>4, <2>5 DEF Work
<1>3. ASSUME NEW p \in Proc, Interrupt(p) PROVE TypeInv'
  BY <1>3, InterruptType
<1>4. CASE UNCHANGED vars
  BY <1>4 DEF vars, files, procs, TypeInv, FilesType, ProcsType, TxnInv
<1> QED
  BY <1>1, <1>2, <1>3, <1>4 DEF Next

\* Every variable keeps the shape its file or field has, in every execution.
THEOREM TypeCorrect == Spec => []TypeOK
<1>1. Spec => []TypeInv
  BY TypeInit, TypeStep, PTL DEF Spec
<1> QED
  BY <1>1, TypeInvImplies, PTL

---------------------------------------------------------------------------
(* Safety. *)

(* The invariant. *)

\* The n-th transition of a history, as the intent that opened it.
Step(h, n) == [prev |-> SubSeq(h, 1, n - 1), material |-> h[n]]
Published(h) == {Step(h, n) : n \in DOMAIN h}
Heads(h) == {SubSeq(h, 1, n) : n \in DOMAIN h}

\* A transition that may be the next one.
Valid(i) ==
    /\ i.prev = head
    /\ MayFollow(head, i.material)
    /\ i.material.kind = "workpaper" => i.material.run \in runs

HistoryInv ==
    /\ LegalHistory(head)
    /\ RunsOf(head) \subseteq runs
    /\ \A run \in RunsOf(head) : run.number < NextNumber(head)

IntentsInv ==
    /\ Published(head) \subseteq intents
    /\ \A i \in intents : i \in Published(head) \/ Valid(i)
    /\ \A i, j \in Open : i = j

ReceiptsInv ==
    /\ receipts \subseteq Published(head)
    /\ \A n \in DOMAIN head : n < Len(head) => Step(head, n) \in receipts

EventsInv ==
    /\ Heads(head) \subseteq events
    /\ \A e \in events : e \in Heads(head) \/ \E i \in intents : i.prev = head /\ e = NextHead(i)

MaterialsInv ==
    /\ \A n \in DOMAIN head : head[n] \in materials
    /\ \A m \in materials :
          (\E n \in DOMAIN head : m = head[n]) \/ \E i \in intents : i.prev = head /\ m = i.material
    /\ \A i \in intents : HasEvent(i) => HasMaterial(i)

DirectoryInv ==
    HistoryInv /\ IntentsInv /\ ReceiptsInv /\ EventsInv /\ MaterialsInv /\ PacketsOk /\ ReplaysOk

Outside == {"idle", "lock", "relock"}

LockInv == \A p \in Proc : pc[p] \notin Outside => lock = p

Proposed(i) == i \in intents /\ i.prev = head

\* What a process relies on at each step.
ProcessFact(p) ==
    /\ At(p, "create_record") => hasHead
    /\ At(p, "decide") => Unsealed = {}
    /\ At(p, "intent") => Open = {} /\ Valid(txn[p]) /\ txn[p].material.kind = "workpaper"
    /\ pc[p] \in {"material", "event", "head"} => Proposed(txn[p])
    /\ pc[p] \in {"event", "head"} => HasMaterial(txn[p])
    /\ At(p, "head") => HasEvent(txn[p])
    /\ At(p, "receipt") => head # <<>> /\ txn[p] = Step(head, Len(head))

JournalInv ==
    /\ TypeInv
    /\ hasRecord => hasHead
    /\ DirectoryInv
    /\ LockInv
    /\ \A p \in Proc : ProcessFact(p)

---------------------------------------------------------------------------
(* Histories. *)

LEMMA Entries ==
    ASSUME NEW h \in History
    PROVE  /\ Len(h) \in Nat /\ DOMAIN h = 1 .. Len(h)
           /\ \A n \in 1 .. Len(h) : h[n] \in Material
           /\ \A n \in 0 .. Len(h) : SubSeq(h, 1, n) \in History /\ Len(SubSeq(h, 1, n)) = n
           /\ SubSeq(h, 1, Len(h)) = h
<1>1. h \in Seq(Material)
  BY DEF History
<1>2. Len(h) \in Nat /\ DOMAIN h = 1 .. Len(h) /\ \A n \in 1 .. Len(h) : h[n] \in Material
  BY <1>1
<1>3. ASSUME NEW n \in 0 .. Len(h)
      PROVE  SubSeq(h, 1, n) \in Seq(Material) /\ Len(SubSeq(h, 1, n)) = n
  <2>1. \A k \in 1 .. n : h[k] \in Material
    BY <1>2, <1>3
  <2>2. SubSeq(h, 1, n) \in Seq(Material)
    BY <2>1, SubSeqProperties
  <2>3. Len(SubSeq(h, 1, n)) = IF 1 <= n THEN n - 1 + 1 ELSE 0
    BY <2>1, SubSeqProperties
  <2> QED
    BY <2>2, <2>3
<1>4. SubSeq(h, 1, Len(h)) = h
  BY <1>1, SubSeqFull
<1> QED
  BY <1>2, <1>3, <1>4 DEF History

LEMMA OneMoreEntry ==
    ASSUME NEW h \in History, NEW m \in Material
    PROVE  /\ Append(h, m) \in History
           /\ Len(Append(h, m)) = Len(h) + 1
           /\ DOMAIN Append(h, m) = 1 .. Len(h) + 1
           /\ DOMAIN Append(h, m) = DOMAIN h \union {Len(h) + 1}
           /\ \A n \in DOMAIN h : Append(h, m)[n] = h[n]
           /\ Append(h, m)[Len(h) + 1] = m
           /\ \A n \in 0 .. Len(h) : SubSeq(Append(h, m), 1, n) = SubSeq(h, 1, n)
           /\ SubSeq(Append(h, m), 1, Len(h) + 1) = Append(h, m)
<1> DEFINE g == Append(h, m)
<1>1. h \in Seq(Material)
  BY DEF History
<1>2. /\ g \in Seq(Material) /\ Len(g) = Len(h) + 1
      /\ \A n \in 1 .. Len(h) : g[n] = h[n]
      /\ g[Len(h) + 1] = m
  BY <1>1, AppendProperties
<1>3. SubSeq(g, 1, Len(h) + 1) = g
  BY <1>2, SubSeqFull
<1>4. ASSUME NEW n \in 0 .. Len(h)
      PROVE  SubSeq(g, 1, n) = SubSeq(h, 1, n)
  <2>1. CASE n = 0
    BY <2>1, SubSeqEmpty
  <2>2. CASE n \in 1 .. Len(h)
    <3>1. g = h \o <<m>>
      BY <1>1, AppendIsConcat
    <3>2. <<m>> \in Seq(Material)
      OBVIOUS
    <3>3. 1 \in 1 .. Len(h)
      BY <2>2, <1>1
    <3> QED
      BY <1>1, <2>2, <3>1, <3>2, <3>3, SubSeqOfConcat1
  <2> QED
    BY <1>4, <2>1, <2>2
<1>5. DOMAIN g = 1 .. Len(h) + 1 /\ DOMAIN h = 1 .. Len(h) /\ Len(h) \in Nat
  BY <1>1, <1>2
<1>6. 1 .. Len(h) + 1 = (1 .. Len(h)) \union {Len(h) + 1}
  BY <1>5
<1> QED
  BY <1>2, <1>3, <1>4, <1>5, <1>6 DEF History

LEMMA StepFields ==
    ASSUME NEW h \in History, NEW n \in DOMAIN h
    PROVE  /\ Step(h, n) \in Intent
           /\ Len(Step(h, n).prev) = n - 1
           /\ Step(h, n).prev # h
           /\ Sequence(Step(h, n)) = n
           /\ Step(h, n).material = h[n]
           /\ NextHead(Step(h, n)) = SubSeq(h, 1, n)
<1>1. n \in 1 .. Len(h) /\ n - 1 \in 0 .. Len(h) /\ n \in Nat
  BY Entries
<1>2. SubSeq(h, 1, n - 1) \in History /\ Len(SubSeq(h, 1, n - 1)) = n - 1
  BY <1>1, Entries
<1>3. h[n] \in Material
  BY <1>1, Entries
<1>4. Append(SubSeq(h, 1, n - 1), h[n]) = SubSeq(h, 1, n)
  <2>1. h \in Seq(Material) /\ 1 \in 1 .. Len(h) /\ n \in 1 .. Len(h)
    BY <1>1, Entries DEF History
  <2>2. SubSeq(h, 1, n) = SubSeq(h, 1, n - 1) \o <<h[n]>>
    BY <2>1, SubSeqRecursiveSecond
  <2>3. SubSeq(h, 1, n - 1) \in Seq(Material)
    BY <1>2 DEF History
  <2> QED
    BY <2>2, <2>3, <1>3, AppendIsConcat
<1>5. Step(h, n) \in Intent /\ Step(h, n).prev = SubSeq(h, 1, n - 1) /\ Step(h, n).material = h[n]
  BY <1>2, <1>3 DEF Step, Intent
<1>6. Step(h, n).prev # h /\ Sequence(Step(h, n)) = n
  BY <1>1, <1>2, <1>5, Entries DEF Sequence
<1> QED
  BY <1>2, <1>4, <1>5, <1>6 DEF NextHead

LEMMA PublishedAppend ==
    ASSUME NEW h \in History, NEW m \in Material
    PROVE  /\ Published(Append(h, m)) = Published(h) \union {[prev |-> h, material |-> m]}
           /\ \A n \in DOMAIN h : Step(Append(h, m), n) = Step(h, n)
           /\ Step(Append(h, m), Len(h) + 1) = [prev |-> h, material |-> m]
<1> DEFINE g == Append(h, m)
<1>1. /\ Len(h) \in Nat /\ DOMAIN h = 1 .. Len(h) /\ DOMAIN g = 1 .. Len(h) + 1
      /\ g \in History /\ SubSeq(h, 1, Len(h)) = h
  BY OneMoreEntry, Entries
<1>2. ASSUME NEW n \in DOMAIN h
      PROVE  Step(g, n) = Step(h, n)
  <2>1. n \in 1 .. Len(h) /\ n - 1 \in 0 .. Len(h)
    BY <1>1
  <2> QED
    BY <2>1, OneMoreEntry DEF Step
<1>3. Step(g, Len(h) + 1) = [prev |-> h, material |-> m]
  <2>1. SubSeq(g, 1, Len(h)) = SubSeq(h, 1, Len(h)) /\ g[Len(h) + 1] = m
    BY <1>1, OneMoreEntry
  <2>2. Len(h) + 1 - 1 = Len(h)
    BY <1>1
  <2> QED
    BY <1>1, <2>1, <2>2 DEF Step
<1>4. DOMAIN g = DOMAIN h \union {Len(h) + 1}
  BY OneMoreEntry
<1> QED
  BY <1>2, <1>3, <1>4 DEF Published

LEMMA HeadsAppend ==
    ASSUME NEW h \in History, NEW m \in Material
    PROVE  Heads(Append(h, m)) = Heads(h) \union {Append(h, m)}
<1> DEFINE g == Append(h, m)
<1>1. DOMAIN h = 1 .. Len(h) /\ DOMAIN g = DOMAIN h \union {Len(h) + 1}
  BY OneMoreEntry, Entries
<1>2. ASSUME NEW n \in DOMAIN h
      PROVE  SubSeq(g, 1, n) = SubSeq(h, 1, n)
  <2>1. n \in 0 .. Len(h)
    BY Entries
  <2> QED
    BY <2>1, OneMoreEntry
<1>3. SubSeq(g, 1, Len(h) + 1) = g
  BY OneMoreEntry
<1> QED
  BY <1>1, <1>2, <1>3 DEF Heads

LEMMA LegalAppend ==
    ASSUME NEW h \in History, NEW m \in Material, LegalHistory(h), MayFollow(h, m)
    PROVE  LegalHistory(Append(h, m))
<1> DEFINE g == Append(h, m)
<1>1. /\ Len(h) \in Nat /\ DOMAIN h = 1 .. Len(h) /\ DOMAIN g = DOMAIN h \union {Len(h) + 1}
      /\ SubSeq(h, 1, Len(h)) = h
  BY OneMoreEntry, Entries
<1>2. ASSUME NEW n \in DOMAIN h
      PROVE  MayFollow(SubSeq(g, 1, n - 1), g[n])
  <2>1. n \in 1 .. Len(h) /\ n - 1 \in 0 .. Len(h)
    BY <1>1
  <2>2. SubSeq(g, 1, n - 1) = SubSeq(h, 1, n - 1) /\ g[n] = h[n]
    BY <2>1, OneMoreEntry
  <2> QED
    BY <2>2 DEF LegalHistory
<1>3. MayFollow(SubSeq(g, 1, Len(h) + 1 - 1), g[Len(h) + 1])
  <2>1. Len(h) + 1 - 1 = Len(h) /\ Len(h) \in 0 .. Len(h)
    BY <1>1
  <2>2. SubSeq(g, 1, Len(h)) = h /\ g[Len(h) + 1] = m
    BY <1>1, <2>1, OneMoreEntry
  <2> QED
    BY <2>1, <2>2
<1> QED
  BY <1>1, <1>2, <1>3 DEF LegalHistory

LEMMA AnalysesFinite ==
    ASSUME NEW h \in History
    PROVE  Analyses(h) \subseteq 1 .. Len(h) /\ IsFiniteSet(Analyses(h))
<1>1. Len(h) \in Nat /\ DOMAIN h = 1 .. Len(h)
  BY Entries
<1>2. IsFiniteSet(1 .. Len(h))
  BY <1>1, FS_Interval
<1> QED
  BY <1>1, <1>2, FS_Subset DEF Analyses

\* A workpaper is one more analysis, with one more run and number; a review
\* changes none of these.
LEMMA AnalysesAppend ==
    ASSUME NEW h \in History, NEW m \in Material
    PROVE  /\ m.kind = "workpaper" =>
                /\ Analyses(Append(h, m)) = Analyses(h) \union {Len(h) + 1}
                /\ RunsOf(Append(h, m)) = RunsOf(h) \union {m.run}
                /\ NextNumber(Append(h, m)) = NextNumber(h) + 1
           /\ m.kind # "workpaper" =>
                /\ Analyses(Append(h, m)) = Analyses(h)
                /\ RunsOf(Append(h, m)) = RunsOf(h)
                /\ NextNumber(Append(h, m)) = NextNumber(h)
<1> DEFINE g == Append(h, m)
<1>1. Len(h) \in Nat /\ DOMAIN h = 1 .. Len(h) /\ DOMAIN g = DOMAIN h \union {Len(h) + 1}
  BY OneMoreEntry, Entries
<1>2. (\A n \in DOMAIN h : g[n] = h[n]) /\ g[Len(h) + 1] = m
  BY <1>1, OneMoreEntry
<1>3. CASE m.kind = "workpaper"
  <2>1. Analyses(g) = Analyses(h) \union {Len(h) + 1}
    BY <1>1, <1>2, <1>3 DEF Analyses
  <2>2. RunsOf(g) = RunsOf(h) \union {m.run}
    BY <1>2, <2>1 DEF RunsOf, Analyses
  <2>3. Len(h) + 1 \notin Analyses(h)
    BY <1>1, AnalysesFinite
  <2>4. Cardinality(Analyses(g)) = Cardinality(Analyses(h)) + 1
    BY <2>1, <2>3, AnalysesFinite, FS_AddElement
  <2>5. Cardinality(Analyses(h)) \in Nat
    BY AnalysesFinite, FS_CardinalityType
  <2> QED
    BY <1>3, <2>1, <2>2, <2>4, <2>5 DEF NextNumber
<1>4. CASE m.kind # "workpaper"
  <2>1. Analyses(g) = Analyses(h)
    BY <1>1, <1>2, <1>4 DEF Analyses
  <2>2. RunsOf(g) = RunsOf(h)
    BY <1>2, <2>1 DEF RunsOf, Analyses
  <2> QED
    BY <1>4, <2>1, <2>2 DEF NextNumber
<1> QED
  BY <1>3, <1>4

---------------------------------------------------------------------------
(* The invariant is what the loader checks. *)

\* A committed intent and a pending one, told apart.
LEMMA CommittedOrPending ==
    ASSUME FilesType, DirectoryInv
    PROVE  /\ \A i \in Published(head) :
                /\ i \in intents /\ i.prev # head /\ Committed(i)
                /\ Sequence(i) \in 1 .. Len(head) /\ i = Step(head, Sequence(i))
           /\ \A i \in intents : i.prev = head =>
                /\ i \notin Published(head) /\ ~Committed(i) /\ Valid(i)
                /\ Sequence(i) = Len(head) + 1
           /\ \A i \in intents : i \in Published(head) \/ i.prev = head
           /\ Pending = {i \in intents : i.prev = head}
           /\ Unsealed = Published(head) \ receipts
<1>1. head \in History /\ Len(head) \in Nat /\ DOMAIN head = 1 .. Len(head)
  BY Entries DEF FilesType
<1>2. ASSUME NEW i \in Published(head)
      PROVE  /\ i \in intents /\ i.prev # head /\ Committed(i)
             /\ Sequence(i) \in 1 .. Len(head) /\ i = Step(head, Sequence(i))
  <2>1. PICK n \in DOMAIN head : i = Step(head, n)
    BY DEF Published
  <2>2. i.prev # head /\ Sequence(i) = n
    BY <1>1, <2>1, StepFields
  <2>3. i \in intents
    BY DEF DirectoryInv, IntentsInv
  <2> QED
    BY <1>1, <2>1, <2>2, <2>3 DEF Committed
<1>3. ASSUME NEW i \in intents, i.prev = head
      PROVE  /\ i \notin Published(head) /\ ~Committed(i) /\ Valid(i)
             /\ Sequence(i) = Len(head) + 1
  <2>1. i \notin Published(head)
    BY <1>2, <1>3
  <2>2. Sequence(i) = Len(head) + 1
    BY <1>3 DEF Sequence
  <2>3. Valid(i)
    BY <2>1 DEF DirectoryInv, IntentsInv
  <2> QED
    BY <1>1, <2>1, <2>2, <2>3 DEF Committed
<1>4. \A i \in intents : i \in Published(head) \/ i.prev = head
  BY DEF DirectoryInv, IntentsInv, Valid
<1>5. receipts \subseteq Published(head)
  BY DEF DirectoryInv, ReceiptsInv
<1>6. Pending = {i \in intents : i.prev = head}
  BY <1>2, <1>3, <1>4, <1>5 DEF Pending, Open
<1>7. Unsealed = Published(head) \ receipts
  BY <1>2, <1>3, <1>4 DEF Unsealed, Open
<1> QED
  BY <1>2, <1>3, <1>4, <1>6, <1>7

LEMMA DirectoryRecovers ==
    ASSUME FilesType, DirectoryInv, hasHead
    PROVE  RecoverOk
<1>1. head \in History /\ Len(head) \in Nat /\ DOMAIN head = 1 .. Len(head)
  BY Entries DEF FilesType
<1>2. receipts \subseteq Published(head) /\ Published(head) \subseteq intents
  BY DEF DirectoryInv, ReceiptsInv, IntentsInv
<1>3. ASSUME NEW i \in intents, NEW j \in intents, Sequence(i) = Sequence(j)
      PROVE  i = j
  <2>1. CASE i \in Published(head)
    BY <1>1, <1>3, <2>1, CommittedOrPending
  <2>2. CASE i.prev = head
    <3>1. j \notin Published(head)
      BY <1>1, <1>3, <2>2, CommittedOrPending
    <3>2. i \in Pending /\ j \in Pending
      BY <2>2, <3>1, CommittedOrPending
    <3> QED
      BY <3>2 DEF DirectoryInv, IntentsInv, Pending
  <2> QED
    BY <2>1, <2>2, CommittedOrPending
<1>4. \A i \in intents : Sequence(i) <= Len(head) + 1
  BY <1>1, CommittedOrPending
<1>5. ASSUME NEW i \in intents, Committed(i)
      PROVE  HasMaterial(i) /\ HasEvent(i)
  <2>1. i \in Published(head)
    BY <1>5, CommittedOrPending
  <2>2. PICK n \in DOMAIN head : i = Step(head, n)
    BY <2>1 DEF Published
  <2>3. i.material = head[n] /\ NextHead(i) = SubSeq(head, 1, n)
    BY <1>1, <2>2, StepFields
  <2>4. SubSeq(head, 1, n) \in events /\ head[n] \in materials
    BY DEF DirectoryInv, EventsInv, MaterialsInv, Heads
  <2> QED
    BY <2>3, <2>4 DEF HasMaterial, HasEvent
<1>6. \A i \in receipts : Committed(i)
  BY <1>2, CommittedOrPending
<1>7. ASSUME NEW i \in Unsealed
      PROVE  Sequence(i) = Len(head)
  <2>1. i \in Published(head) /\ i \notin receipts
    BY CommittedOrPending
  <2>2. Sequence(i) \in 1 .. Len(head) /\ i = Step(head, Sequence(i))
    BY <2>1, CommittedOrPending
  <2> QED
    BY <1>1, <2>1, <2>2 DEF DirectoryInv, ReceiptsInv
<1>8. Unsealed = {} \/ Pending = {}
  <2>1. \A i \in Unsealed, j \in Pending : i = j
    BY DEF DirectoryInv, IntentsInv, Unsealed, Pending
  <2> QED
    BY <2>1 DEF Unsealed, Pending
<1>9. \A i \in Pending : HasEvent(i) => HasMaterial(i)
  BY DEF Pending, Open, DirectoryInv, MaterialsInv
<1>10. {Sequence(i) : i \in receipts \union Unsealed} = 1 .. Len(head)
  <2>1. receipts \union Unsealed = Published(head)
    BY <1>2, CommittedOrPending
  <2>2. ASSUME NEW n \in 1 .. Len(head)
        PROVE  \E i \in Published(head) : Sequence(i) = n
    <3>1. Step(head, n) \in Published(head) /\ Sequence(Step(head, n)) = n
      BY <1>1, StepFields DEF Published
    <3> QED
      BY <3>1
  <2>3. \A i \in Published(head) : Sequence(i) \in 1 .. Len(head)
    BY CommittedOrPending
  <2> QED
    BY <2>1, <2>2, <2>3
<1>11. receipts \subseteq intents
  BY <1>2
<1> QED
  BY <1>3, <1>4, <1>5, <1>6, <1>7, <1>8, <1>9, <1>10, <1>11 DEF RecoverOk

LEMMA NextRuns ==
    ASSUME FilesType, HistoryInv, NEW i \in Intent, Valid(i)
    PROVE  /\ LegalHistory(NextHead(i))
           /\ RunsOf(NextHead(i)) \subseteq runs
           /\ RunsOf(head) \subseteq RunsOf(NextHead(i))
           /\ \A run \in RunsOf(NextHead(i)) : run.number < NextNumber(NextHead(i))
<1>1. head \in History /\ i.prev = head /\ i.material \in Material /\ NextHead(i) = Append(head, i.material)
  BY IntentFields DEF FilesType, Valid, NextHead
<1>2. LegalHistory(NextHead(i))
  BY <1>1, LegalAppend DEF HistoryInv, Valid
<1>3. NextNumber(head) \in Nat
  BY <1>1, NextNumberType
<1>4. ASSUME NEW run \in RunsOf(head)
      PROVE  run.number \in Nat /\ run.number < NextNumber(head)
  <2>1. PICK n \in DOMAIN head : head[n].kind = "workpaper" /\ run = head[n].run
    BY DEF RunsOf, Analyses
  <2>2. head[n] \in Material
    BY <1>1, Entries
  <2>3. run.number \in Nat
    BY <2>1, <2>2 DEF Material, Workpaper, Review, Run
  <2> QED
    BY <2>3 DEF HistoryInv
<1>5. CASE i.material.kind = "workpaper"
  <2>1. i.material.run \in runs /\ i.material.run.number = NextNumber(head)
    BY <1>5 DEF Valid, MayFollow
  <2> QED
    BY <1>1, <1>2, <1>3, <1>4, <1>5, <2>1, AnalysesAppend DEF HistoryInv
<1>6. CASE i.material.kind # "workpaper"
  BY <1>1, <1>2, <1>4, <1>6, AnalysesAppend DEF HistoryInv
<1> QED
  BY <1>5, <1>6

LEMMA DirectoryLoads ==
    ASSUME FilesType, DirectoryInv, hasHead
    PROVE  LoadOk
<1>1. RecoverOk
  BY DirectoryRecovers
<1>2. MembershipOk
  <2>1. Pending = {i \in intents : i.prev = head}
    BY CommittedOrPending
  <2>2. events = {SubSeq(head, 1, n) : n \in DOMAIN head}
                     \union {NextHead(i) : i \in {j \in Pending : HasEvent(j)}}
    BY <2>1 DEF DirectoryInv, EventsInv, Heads, HasEvent
  <2>3. materials = {head[n] : n \in DOMAIN head}
                        \union {i.material : i \in {j \in Pending : HasMaterial(j)}}
    BY <2>1 DEF DirectoryInv, MaterialsInv, HasMaterial
  <2> QED
    BY <2>2, <2>3 DEF MembershipOk
<1>3. ASSUME NEW i \in Pending
      PROVE  PendingValid(i) /\ RunsOf(NextHead(i)) \subseteq runs
  <2>1. i \in Intent /\ Valid(i)
    BY CommittedOrPending DEF Pending, Open, FilesType
  <2> QED
    BY <2>1, NextRuns DEF PendingValid, Valid, DirectoryInv
<1> QED
  BY <1>1, <1>2, <1>3 DEF LoadOk, DirectoryInv, HistoryInv

---------------------------------------------------------------------------
(* What a write does to the directory. *)

Journal == <<head, intents, receipts, materials, events>>

LEMMA DirectoryKept ==
    ASSUME DirectoryInv, UNCHANGED Journal, UNCHANGED packets, UNCHANGED replays,
           runs \subseteq runs'
    PROVE  DirectoryInv'
<1>1. HistoryInv'
  BY DEF Journal, DirectoryInv, HistoryInv
<1>2. IntentsInv'
  BY DEF Journal, DirectoryInv, IntentsInv, Valid, Open
<1>3. ReceiptsInv' /\ EventsInv'
  BY DEF Journal, DirectoryInv, ReceiptsInv, EventsInv
<1>4. MaterialsInv'
  BY DEF Journal, DirectoryInv, MaterialsInv, HasEvent, HasMaterial
<1>5. PacketsOk' /\ ReplaysOk'
  BY DEF Journal, DirectoryInv, PacketsOk, ReplaysOk
<1> QED
  BY <1>1, <1>2, <1>3, <1>4, <1>5 DEF DirectoryInv

LEMMA SealKeeps ==
    ASSUME FilesType, DirectoryInv, receipts' = receipts \union Unsealed,
           UNCHANGED <<head, intents, materials, events, packets, replays, runs>>
    PROVE  DirectoryInv' /\ Unsealed' = {}
<1>1. HistoryInv' /\ EventsInv' /\ PacketsOk' /\ ReplaysOk'
  BY DEF DirectoryInv, HistoryInv, EventsInv, PacketsOk, ReplaysOk
<1>2. IntentsInv'
  BY DEF DirectoryInv, IntentsInv, Valid, Open
<1>3. ReceiptsInv'
  BY CommittedOrPending DEF DirectoryInv, ReceiptsInv
<1>4. MaterialsInv'
  BY DEF DirectoryInv, MaterialsInv, HasEvent, HasMaterial
<1>5. Unsealed' = {}
  BY DEF Unsealed, Open, Committed
<1> QED
  BY <1>1, <1>2, <1>3, <1>4, <1>5 DEF DirectoryInv

\* No event is there before the intent it belongs to.
LEMMA NoEarlyEvent ==
    ASSUME FilesType, DirectoryInv, Pending = {}, NEW m \in Material
    PROVE  Append(head, m) \notin events
<1>1. head \in History /\ Len(head) \in Nat /\ DOMAIN head = 1 .. Len(head)
  BY Entries DEF FilesType
<1>2. Len(Append(head, m)) = Len(head) + 1
  BY <1>1, OneMoreEntry
<1>3. events \subseteq Heads(head)
  BY CommittedOrPending DEF DirectoryInv, EventsInv
<1>4. ASSUME NEW e \in Heads(head)
      PROVE  Len(e) <= Len(head)
  <2>1. PICK n \in 1 .. Len(head) : e = SubSeq(head, 1, n)
    BY <1>1 DEF Heads
  <2>2. n \in 0 .. Len(head)
    BY <1>1
  <2>3. Len(e) = n
    BY <1>1, <2>1, <2>2, Entries
  <2> QED
    BY <1>1, <2>1, <2>3
<1>5. ASSUME NEW e \in Heads(head)
      PROVE  Append(head, m) # e
  <2>1. Len(e) # Len(head) + 1
    BY <1>1, <1>4, <1>5
  <2> QED
    BY <1>2, <2>1
<1> QED
  BY <1>3, <1>5

LEMMA OpenKeeps ==
    ASSUME FilesType, DirectoryInv, Open = {}, NEW i \in Intent, Valid(i),
           intents' = intents \union {i},
           UNCHANGED <<head, receipts, materials, events, packets, replays, runs>>
    PROVE  DirectoryInv' /\ Proposed(i)'
<1>1. HistoryInv' /\ ReceiptsInv' /\ PacketsOk' /\ ReplaysOk'
  BY DEF DirectoryInv, HistoryInv, ReceiptsInv, PacketsOk, ReplaysOk
<1>2. IntentsInv'
  BY DEF DirectoryInv, IntentsInv, Valid, Open
<1>3. EventsInv'
  BY DEF DirectoryInv, EventsInv
<1>4. ~HasEvent(i)
  BY NoEarlyEvent DEF Pending, HasEvent, NextHead, Valid, Intent
<1>5. MaterialsInv'
  BY <1>4 DEF DirectoryInv, MaterialsInv, HasEvent, HasMaterial
<1> QED
  BY <1>1, <1>2, <1>3, <1>5 DEF DirectoryInv, Proposed, Valid

LEMMA MaterialKeeps ==
    ASSUME DirectoryInv, NEW i, Proposed(i),
           materials' = materials \union {i.material},
           UNCHANGED <<head, intents, receipts, events, packets, replays, runs>>
    PROVE  DirectoryInv'
<1>1. HistoryInv' /\ ReceiptsInv' /\ EventsInv' /\ PacketsOk' /\ ReplaysOk'
  BY DEF DirectoryInv, HistoryInv, ReceiptsInv, EventsInv, PacketsOk, ReplaysOk
<1>2. IntentsInv'
  BY DEF DirectoryInv, IntentsInv, Valid, Open
<1>3. MaterialsInv'
  BY DEF DirectoryInv, MaterialsInv, HasEvent, HasMaterial, Proposed
<1> QED
  BY <1>1, <1>2, <1>3 DEF DirectoryInv

\* The event of a pending intent belongs to no other intent.
LEMMA EventKeeps ==
    ASSUME FilesType, DirectoryInv, NEW i, Proposed(i), HasMaterial(i),
           events' = events \union {NextHead(i)},
           UNCHANGED <<head, intents, receipts, materials, packets, replays, runs>>
    PROVE  DirectoryInv'
<1>1. HistoryInv' /\ ReceiptsInv' /\ PacketsOk' /\ ReplaysOk'
  BY DEF DirectoryInv, HistoryInv, ReceiptsInv, PacketsOk, ReplaysOk
<1>2. IntentsInv'
  BY DEF DirectoryInv, IntentsInv, Valid, Open
<1>3. EventsInv'
  BY DEF DirectoryInv, EventsInv, Proposed
<1>4. ASSUME NEW j \in intents, NextHead(j) = NextHead(i)
      PROVE  j.material = i.material
  <2>1. i \in Intent /\ j \in Intent
    BY DEF FilesType, Proposed
  <2>2. i.prev \in Seq(Material) /\ j.prev \in Seq(Material) /\ i.material \in Material /\ j.material \in Material
    BY <2>1 DEF Intent, History
  <2> QED
    BY <1>4, <2>2, AppendInjective DEF NextHead
<1>5. MaterialsInv'
  BY <1>4 DEF DirectoryInv, MaterialsInv, HasEvent, HasMaterial
<1> QED
  BY <1>1, <1>2, <1>3, <1>5 DEF DirectoryInv

\* The head moves on: the pending transition is the last committed one.
LEMMA HeadKeeps ==
    ASSUME FilesType, DirectoryInv, NEW i, Proposed(i), HasMaterial(i), HasEvent(i),
           head' = NextHead(i),
           UNCHANGED <<intents, receipts, materials, events, packets, replays, runs>>
    PROVE  DirectoryInv' /\ head' # <<>> /\ i = Step(head', Len(head'))
<1>1. i \in intents /\ i \in Intent /\ i.prev = head /\ i.material \in Material /\ head \in History
  BY DEF Proposed, FilesType, Intent
<1>2. head' = Append(head, i.material) /\ i = [prev |-> head, material |-> i.material]
  BY <1>1 DEF NextHead, Intent
<1>3. /\ Len(head) \in Nat /\ DOMAIN head = 1 .. Len(head)
      /\ Len(head') = Len(head) + 1 /\ DOMAIN head' = DOMAIN head \union {Len(head) + 1}
  BY <1>1, <1>2, OneMoreEntry, Entries
<1>4. /\ Published(head') = Published(head) \union {i}
      /\ \A n \in DOMAIN head : Step(head', n) = Step(head, n)
      /\ Step(head', Len(head) + 1) = i
  BY <1>1, <1>2, PublishedAppend
<1>5. Valid(i) /\ i \notin Published(head) /\ i \in Open
  BY <1>1, CommittedOrPending DEF Open, DirectoryInv, ReceiptsInv
<1>6. \A j \in intents : j \in Published(head) \/ j = i
  <2>1. ASSUME NEW j \in intents, j \notin Published(head)
        PROVE  j = i
    <3>1. j \in Open
      BY <2>1 DEF Open, DirectoryInv, ReceiptsInv
    <3> QED
      BY <1>5, <3>1 DEF DirectoryInv, IntentsInv
  <2> QED
    BY <2>1
<1>7. HistoryInv'
  BY <1>1, <1>5, NextRuns DEF DirectoryInv, HistoryInv
<1>8. IntentsInv'
  BY <1>1, <1>4, <1>6 DEF DirectoryInv, IntentsInv, Open
<1>9. ReceiptsInv'
  <2>1. ASSUME NEW n \in DOMAIN head
        PROVE  Step(head, n) \in receipts
    <3>1. Step(head, n) \in Published(head)
      BY DEF Published
    <3>2. Step(head, n) \in intents /\ Step(head, n) # i
      BY <1>5, <3>1 DEF DirectoryInv, IntentsInv
    <3> QED
      BY <1>5, <3>2 DEF DirectoryInv, IntentsInv, Open
  <2>2. receipts \subseteq Published(head')
    BY <1>4 DEF DirectoryInv, ReceiptsInv
  <2> QED
    BY <1>3, <1>4, <2>1, <2>2 DEF ReceiptsInv
<1>10. EventsInv'
  <2>1. Heads(head') = Heads(head) \union {NextHead(i)}
    BY <1>1, <1>2, HeadsAppend
  <2>2. \A j \in intents : j.prev = head => j = i
    BY <1>1, <1>6, CommittedOrPending
  <2> QED
    BY <2>1, <2>2 DEF DirectoryInv, EventsInv, HasEvent
<1>11. MaterialsInv'
  <2>1. (\A n \in DOMAIN head : head'[n] = head[n]) /\ head'[Len(head) + 1] = i.material
    BY <1>1, <1>2, OneMoreEntry
  <2>2. \A j \in intents : j.prev = head => j = i
    BY <1>1, <1>6, CommittedOrPending
  <2> QED
    BY <1>3, <2>1, <2>2 DEF DirectoryInv, MaterialsInv, HasEvent, HasMaterial
<1>12. PacketsOk'
  <2>1. Status(head) # "APPROVED"
    BY <1>5 DEF Valid, MayFollow, MayAnalyse
  <2> QED
    BY <2>1 DEF DirectoryInv, PacketsOk
<1>13. ReplaysOk'
  BY <1>1, <1>5, NextRuns DEF DirectoryInv, ReplaysOk
<1>14. head' # <<>> /\ i = Step(head', Len(head'))
  BY <1>3, <1>4
<1> QED
  BY <1>7, <1>8, <1>9, <1>10, <1>11, <1>12, <1>13, <1>14 DEF DirectoryInv

LEMMA ExportKeeps ==
    ASSUME DirectoryInv, NEW run, run = LatestRun(head), Status(head) = "APPROVED",
           packets' = packets \union {[run |-> run, review |-> Last(head)]},
           UNCHANGED Journal, UNCHANGED <<replays, runs>>
    PROVE  DirectoryInv'
<1>1. HistoryInv' /\ ReceiptsInv' /\ EventsInv' /\ ReplaysOk'
  BY DEF Journal, DirectoryInv, HistoryInv, ReceiptsInv, EventsInv, ReplaysOk
<1>2. IntentsInv' /\ MaterialsInv'
  BY DEF Journal, DirectoryInv, IntentsInv, MaterialsInv, Valid, Open, HasEvent, HasMaterial
<1>3. PacketsOk'
  BY DEF Journal, DirectoryInv, PacketsOk
<1> QED
  BY <1>1, <1>2, <1>3 DEF DirectoryInv

LEMMA ReplayKeeps ==
    ASSUME DirectoryInv, NEW run, run \in RunsOf(head), replays' = replays \union {run},
           UNCHANGED Journal, UNCHANGED <<packets, runs>>
    PROVE  DirectoryInv'
<1>1. HistoryInv' /\ ReceiptsInv' /\ EventsInv' /\ PacketsOk'
  BY DEF Journal, DirectoryInv, HistoryInv, ReceiptsInv, EventsInv, PacketsOk
<1>2. IntentsInv' /\ MaterialsInv'
  BY DEF Journal, DirectoryInv, IntentsInv, MaterialsInv, Valid, Open, HasEvent, HasMaterial
<1>3. ReplaysOk'
  BY DEF Journal, DirectoryInv, ReplaysOk
<1> QED
  BY <1>1, <1>2, <1>3 DEF DirectoryInv

---------------------------------------------------------------------------
(* The steps.  The process that takes one holds the lock, and every other  *)
(* process is outside.                                                     *)

SafeFor(p) == (hasRecord => hasHead) /\ DirectoryInv /\ ProcessFact(p)

LEMMA OutsideFact ==
    ASSUME NEW p \in Proc, pc[p] \in Outside
    PROVE  ProcessFact(p)
BY DEF ProcessFact, At, Outside

LEMMA UnderLock ==
    ASSUME TypeInv, LockInv, NEW p \in Proc, pc[p] \notin Outside
    PROVE  lock = p /\ \A q \in Proc \ {p} : pc[q] \in Outside
BY DEF LockInv

\* A step under the lock that keeps it, or that ends outside.
LEMMA StepUnderLock ==
    ASSUME JournalInv, TypeInv', NEW p \in Proc, pc[p] \notin Outside,
           NEW label, pc' = [pc EXCEPT ![p] = label],
           lock' = lock \/ label \in Outside,
           SafeFor(p)'
    PROVE  JournalInv'
<1>1. lock = p /\ \A q \in Proc \ {p} : pc[q] \in Outside
  BY UnderLock DEF JournalInv
<1>2. pc \in [Proc -> Labels]
  BY DEF JournalInv, TypeInv, ProcsType
<1>3. pc'[p] = label /\ \A q \in Proc \ {p} : pc'[q] \in Outside
  BY <1>1, <1>2
<1>4. LockInv'
  BY <1>1, <1>3 DEF LockInv
<1>5. ASSUME NEW q \in Proc
      PROVE  ProcessFact(q)'
  <2>1. CASE q = p
    BY <2>1 DEF SafeFor
  <2>2. CASE q # p
    BY <1>3, <2>2 DEF ProcessFact, At, Outside
  <2> QED
    BY <2>1, <2>2
<1> QED
  BY <1>4, <1>5 DEF JournalInv, SafeFor

\* A step that ends the command: only the directory is left to look at.
LEMMA StepAnswers ==
    ASSUME JournalInv, TypeInv', NEW p \in Proc, pc[p] \notin Outside,
           NEW result, NEW seen, Answer(p, result, seen),
           (hasRecord => hasHead)', DirectoryInv'
    PROVE  JournalInv'
<1>1. pc' = [pc EXCEPT ![p] = "idle"] /\ "idle" \in Outside
  BY DEF Answer, Outside
<1>2. pc'[p] \in Outside
  BY <1>1 DEF JournalInv, TypeInv, ProcsType
<1>3. SafeFor(p)'
  BY <1>2 DEF SafeFor, ProcessFact, At, Outside
<1> QED
  BY <1>1, <1>3, StepUnderLock

\* Outside the lock no file is touched.
LEMMA IssueSafe ==
    ASSUME JournalInv, TypeInv', NEW p \in Proc, NEW c \in Issuable, Issue(p, c)
    PROVE  JournalInv'
<1>1. pc \in [Proc -> Labels] /\ txn \in [Proc -> Intent \union {None}]
  BY DEF JournalInv, TypeInv, ProcsType
<1>2. UNCHANGED files /\ UNCHANGED lock
  BY DEF Issue
<1>3. pc'[p] \in Outside /\ pc[p] \in Outside
  BY <1>1 DEF Issue, At, Outside
<1>4. \A q \in Proc \ {p} : pc'[q] = pc[q] /\ txn'[q] = txn[q]
  BY <1>1 DEF Issue
<1>5. (hasRecord => hasHead)' /\ DirectoryInv'
  BY <1>2, DirectoryKept DEF files, Journal, JournalInv
<1>6. LockInv'
  BY <1>2, <1>3, <1>4 DEF JournalInv, LockInv
<1>7. ASSUME NEW q \in Proc
      PROVE  ProcessFact(q)'
  <2>1. CASE q = p
    BY <1>3, <2>1 DEF ProcessFact, At, Outside
  <2>2. CASE q # p
    <3>1. ProcessFact(q) /\ pc'[q] = pc[q] /\ txn'[q] = txn[q]
      BY <1>4, <2>2 DEF JournalInv
    <3> QED
      BY <1>2, <3>1 DEF ProcessFact, At, files, Unsealed, Open, Committed, Valid, Proposed, HasMaterial, HasEvent
  <2> QED
    BY <2>1, <2>2
<1> QED
  BY <1>5, <1>6, <1>7 DEF JournalInv

LEMMA AcquireSafe ==
    ASSUME JournalInv, TypeInv', NEW p \in Proc, Acquire(p)
    PROVE  JournalInv'
<1>1. pc \in [Proc -> Labels] /\ lock = Free /\ lock' = p /\ UNCHANGED files
  BY DEF JournalInv, TypeInv, ProcsType, Acquire, LockAvailable
<1>2. \A q \in Proc : pc[q] \in Outside
  BY <1>1, ProcAssumption DEF JournalInv, LockInv
<1>3. \A q \in Proc \ {p} : pc'[q] \in Outside
  BY <1>1, <1>2 DEF Acquire
<1>4. pc'[p] \in {"create_head", "read", "find", "seal"}
  <2>1. cmd[p].op \in {"create", "read", "analyse", "review", "export", "replay"}
    BY CommandFields DEF JournalInv, TypeInv, ProcsType
  <2> QED
    BY <1>1, <2>1 DEF Acquire, Entry
<1>5. (hasRecord => hasHead)' /\ DirectoryInv'
  BY <1>1, DirectoryKept DEF files, Journal, JournalInv
<1>6. LockInv'
  BY <1>1, <1>3 DEF LockInv
<1>7. \A q \in Proc : ProcessFact(q)'
  BY <1>3, <1>4 DEF ProcessFact, At, Outside
<1> QED
  BY <1>5, <1>6, <1>7 DEF JournalInv

LEMMA InterruptSafe ==
    ASSUME JournalInv, TypeInv', NEW p \in Proc, Interrupt(p)
    PROVE  JournalInv'
<1>1. pc \in [Proc -> Labels] /\ txn \in [Proc -> Intent \union {None}] /\ UNCHANGED files
  BY DEF JournalInv, TypeInv, ProcsType, Interrupt
<1>2. pc'[p] = "idle" /\ \A q \in Proc \ {p} : pc'[q] = pc[q] /\ txn'[q] = txn[q]
  BY <1>1 DEF Interrupt
<1>3. (hasRecord => hasHead)' /\ DirectoryInv'
  BY <1>1, DirectoryKept DEF files, Journal, JournalInv
<1>4. LockInv'
  BY <1>2 DEF JournalInv, LockInv, Interrupt, Outside
<1>5. ASSUME NEW q \in Proc
      PROVE  ProcessFact(q)'
  <2>1. CASE q = p
    BY <1>2, <2>1 DEF ProcessFact, At
  <2>2. CASE q # p
    <3>1. ProcessFact(q) /\ pc'[q] = pc[q] /\ txn'[q] = txn[q]
      BY <1>2, <2>2 DEF JournalInv
    <3> QED
      BY <1>1, <3>1 DEF ProcessFact, At, files, Unsealed, Open, Committed, Valid, Proposed, HasMaterial, HasEvent
  <2> QED
    BY <2>1, <2>2
<1> QED
  BY <1>3, <1>4, <1>5 DEF JournalInv

LEMMA CreateHeadSafe ==
    ASSUME JournalInv, TypeInv', NEW p \in Proc, CreateHead(p)
    PROVE  JournalInv'
<1>1. pc[p] \notin Outside /\ pc' = [pc EXCEPT ![p] = "create_record"] /\ lock' = lock
  BY DEF CreateHead, At, Goto, Outside
<1>2. hasHead'
  BY DEF CreateHead, JournalInv
<1>3. DirectoryInv'
  BY DirectoryKept DEF CreateHead, Journal, JournalInv
<1>4. ProcessFact(p)'
  BY <1>1, <1>2 DEF JournalInv, TypeInv, ProcsType, ProcessFact, At
<1> QED
  BY <1>1, <1>2, <1>3, <1>4, StepUnderLock DEF SafeFor

LEMMA CreateRecordSafe ==
    ASSUME JournalInv, TypeInv', NEW p \in Proc, CreateRecord(p)
    PROVE  JournalInv'
<1>1. pc[p] \notin Outside
  BY DEF CreateRecord, At, Outside
<1>2. hasHead'
  BY DEF CreateRecord, JournalInv, ProcessFact
<1>3. DirectoryInv'
  BY DirectoryKept DEF CreateRecord, Journal, JournalInv
<1> QED
  BY <1>1, <1>2, <1>3, StepAnswers DEF CreateRecord, AnswerView

LEMMA ReadSafe ==
    ASSUME JournalInv, TypeInv', NEW p \in Proc, Read(p)
    PROVE  JournalInv'
<1>1. pc[p] \notin Outside /\ UNCHANGED files
  BY DEF Read, At, Outside
<1>2. (hasRecord => hasHead)' /\ DirectoryInv'
  BY <1>1, DirectoryKept DEF files, Journal, JournalInv
<1> QED
  BY <1>1, <1>2, StepAnswers DEF Read, AnswerView

LEMMA FindSafe ==
    ASSUME JournalInv, TypeInv', NEW p \in Proc, Find(p)
    PROVE  JournalInv'
<1>1. pc[p] \notin Outside /\ UNCHANGED files
  BY DEF Find, At, Outside
<1>2. (hasRecord => hasHead)' /\ DirectoryInv'
  BY <1>1, DirectoryKept DEF files, Journal, JournalInv
<1>3. CASE LoadOk /\ Owns(cmd[p].run)
  <2>1. pc' = [pc EXCEPT ![p] = "relock"] /\ "relock" \in Outside
    BY <1>3 DEF Find, Outside
  <2>2. ProcessFact(p)'
    BY <2>1 DEF JournalInv, TypeInv, ProcsType, ProcessFact, At
  <2> QED
    BY <1>1, <1>2, <2>1, <2>2, StepUnderLock DEF SafeFor
<1>4. CASE ~(LoadOk /\ Owns(cmd[p].run))
  BY <1>1, <1>2, <1>4, StepAnswers DEF Find
<1> QED
  BY <1>3, <1>4

LEMMA SealSafe ==
    ASSUME JournalInv, TypeInv', NEW p \in Proc, Seal(p)
    PROVE  JournalInv'
<1>1. /\ pc[p] \notin Outside
      /\ UNCHANGED <<hasRecord, hasHead, head, intents, materials, events, packets, replays, runs>>
  BY DEF Seal, At, Outside
<1>2. (hasRecord => hasHead)'
  BY <1>1 DEF JournalInv
<1>3. CASE RecoverOk
  <2>1. receipts' = receipts \union Unsealed /\ Goto(p, "decide")
    BY <1>3 DEF Seal
  <2>2. DirectoryInv' /\ Unsealed' = {}
    BY <1>1, <2>1, SealKeeps DEF JournalInv, TypeInv
  <2>3. pc' = [pc EXCEPT ![p] = "decide"] /\ lock' = lock
    BY <2>1 DEF Goto
  <2>4. ProcessFact(p)'
    BY <2>2, <2>3 DEF JournalInv, TypeInv, ProcsType, ProcessFact, At
  <2> QED
    BY <1>1, <1>2, <2>2, <2>3, <2>4, StepUnderLock DEF SafeFor
<1>4. CASE ~RecoverOk
  <2>1. Answer(p, "refused", <<>>) /\ UNCHANGED receipts
    BY <1>4 DEF Seal
  <2>2. DirectoryInv'
    BY <1>1, <2>1, DirectoryKept DEF Journal, JournalInv
  <2> QED
    BY <1>1, <1>2, <2>1, <2>2, StepAnswers
<1> QED
  BY <1>3, <1>4

LEMMA RefuseSafe ==
    ASSUME JournalInv, TypeInv', NEW p \in Proc, Refuse(p)
    PROVE  JournalInv'
<1>1. pc[p] \notin Outside /\ UNCHANGED files
  BY DEF Refuse, At, Outside
<1>2. (hasRecord => hasHead)' /\ DirectoryInv'
  BY <1>1, DirectoryKept DEF files, Journal, JournalInv
<1>3. PICK result \in {"refused", "pending_conflict"} : Answer(p, result, <<>>)
  BY DEF Refuse
<1> QED
  BY <1>1, <1>2, <1>3, StepAnswers

LEMMA ResumeSafe ==
    ASSUME JournalInv, TypeInv', NEW p \in Proc, Resume(p)
    PROVE  JournalInv'
<1>1. /\ pc[p] \notin Outside /\ UNCHANGED files
      /\ pc' = [pc EXCEPT ![p] = "material"] /\ lock' = lock
  BY DEF Resume, At, Goto, Outside
<1>2. (hasRecord => hasHead)' /\ DirectoryInv'
  BY <1>1, DirectoryKept DEF files, Journal, JournalInv
<1>3. PICK i \in Resumable(cmd[p]) : txn' = [txn EXCEPT ![p] = i]
  BY DEF Resume
<1>4. Proposed(i)
  BY DEF Resumable, PendingValid, Pending, Open, Proposed
<1>5. pc'[p] = "material" /\ txn'[p] = i
  BY <1>1, <1>3 DEF JournalInv, TypeInv, ProcsType
<1>6. ProcessFact(p)'
  BY <1>1, <1>4, <1>5 DEF ProcessFact, At, Proposed, files
<1> QED
  BY <1>1, <1>2, <1>6, StepUnderLock DEF SafeFor

\* Nothing is open when a command may open a transaction, and what it opens
\* may be the next one.
LEMMA NothingOpen ==
    ASSUME Unsealed = {}, Pending = {}
    PROVE  Open = {}
BY DEF Unsealed, Pending

LEMMA NewRunFollows ==
    ASSUME FilesType, HistoryInv, MayAnalyse(head), NEW output \in Output,
           NEW run, run = [number |-> NextNumber(head), output |-> output]
    PROVE  MayFollow(head, [kind |-> "workpaper", run |-> run])
<1>1. NextNumber(head) \in Nat
  BY NextNumberType DEF FilesType
<1>2. run \notin RunsOf(head)
  BY <1>1 DEF HistoryInv
<1> QED
  BY <1>2 DEF MayFollow

LEMMA RunGateSafe ==
    ASSUME JournalInv, TypeInv', NEW p \in Proc, RunGate(p)
    PROVE  JournalInv'
<1>1. /\ pc[p] \notin Outside
      /\ pc' = [pc EXCEPT ![p] = "intent"] /\ lock' = lock
      /\ UNCHANGED <<hasRecord, hasHead, packets, replays>> /\ UNCHANGED Journal
  BY DEF RunGate, At, Goto, Outside, Journal
<1>2. PICK output \in Output :
        LET run == [number |-> NextNumber(head), output |-> output] IN
        /\ runs' = runs \union {run}
        /\ txn' = [txn EXCEPT ![p] = [prev |-> head, material |-> [kind |-> "workpaper", run |-> run]]]
  BY DEF RunGate
<1> DEFINE run == [number |-> NextNumber(head), output |-> output]
           m == [kind |-> "workpaper", run |-> run]
<1>3. (hasRecord => hasHead)' /\ DirectoryInv'
  BY <1>1, <1>2, DirectoryKept DEF JournalInv
<1>4. Open = {} /\ MayAnalyse(head)
  <2>1. Unsealed = {} /\ Pending = {} /\ MayAnalyse(head)
    BY DEF RunGate, MayOpen, JournalInv, ProcessFact
  <2> QED
    BY <2>1, NothingOpen
<1>5. MayFollow(head, m)
  BY <1>4, NewRunFollows DEF JournalInv, TypeInv, DirectoryInv
<1>6. pc'[p] = "intent" /\ txn'[p] = [prev |-> head, material |-> m]
  BY <1>1, <1>2 DEF JournalInv, TypeInv, ProcsType
<1>7. Open' = {} /\ Valid(txn[p])' /\ txn'[p].material.kind = "workpaper"
  <2>1. head' = head /\ intents' = intents /\ receipts' = receipts
    BY <1>1 DEF Journal
  <2>2. run \in runs'
    BY <1>2
  <2>3. m.kind = "workpaper" /\ m.run = run
    OBVIOUS
  <2> HIDE DEF run, m
  <2> QED
    BY <1>4, <1>5, <1>6, <2>1, <2>2, <2>3 DEF Open, Valid
<1>8. ProcessFact(p)'
  BY <1>6, <1>7 DEF ProcessFact, At
<1> QED
  BY <1>1, <1>3, <1>8, StepUnderLock DEF SafeFor

LEMMA BeginSafe ==
    ASSUME JournalInv, TypeInv', NEW p \in Proc, pc[p] \notin Outside,
           Open = {}, NEW m \in Material, MayFollow(head, m),
           m.kind = "workpaper" => m.run \in runs,
           Begin(p, m)
    PROVE  JournalInv'
<1>0. PICK i : i = [prev |-> head, material |-> m]
  OBVIOUS
<1>1. i \in Intent /\ Valid(i)
  BY <1>0, NewIntent DEF JournalInv, TypeInv, FilesType, Valid
<1>2. PendingValid(i)
  BY <1>0 DEF PendingValid
<1>3. /\ intents' = intents \union {i} /\ txn' = [txn EXCEPT ![p] = i] /\ Goto(p, "material")
      /\ UNCHANGED <<hasRecord, hasHead, head, receipts, materials, events, packets, replays, runs>>
  BY <1>0, <1>2 DEF Begin
<1>4. DirectoryInv' /\ Proposed(i)'
  BY <1>1, <1>3, OpenKeeps DEF JournalInv, TypeInv
<1>5. pc' = [pc EXCEPT ![p] = "material"] /\ lock' = lock
  BY <1>3 DEF Goto
<1>6. pc'[p] = "material" /\ txn'[p] = i
  BY <1>3, <1>5 DEF JournalInv, TypeInv, ProcsType
<1>7. ProcessFact(p)'
  BY <1>4, <1>6 DEF ProcessFact, At, Proposed
<1>8. (hasRecord => hasHead)'
  BY <1>3 DEF JournalInv
<1> QED
  BY <1>4, <1>5, <1>7, <1>8, StepUnderLock DEF SafeFor

LEMMA OpenAnalysisSafe ==
    ASSUME JournalInv, TypeInv', NEW p \in Proc, OpenAnalysis(p)
    PROVE  JournalInv'
<1>1. pc[p] = "intent" /\ pc[p] \notin Outside /\ Begin(p, txn[p].material)
  BY DEF OpenAnalysis, At, Outside
<1>2. Open = {} /\ Valid(txn[p]) /\ txn[p].material.kind = "workpaper"
  BY <1>1 DEF JournalInv, ProcessFact, At
<1>3. txn[p].material \in Material
  BY <1>1 DEF JournalInv, TypeInv, TxnInv, Transacting, Intent
<1> QED
  BY <1>1, <1>2, <1>3, BeginSafe DEF Valid

LEMMA OpenReviewSafe ==
    ASSUME JournalInv, TypeInv', NEW p \in Proc, OpenReview(p)
    PROVE  JournalInv'
<1>1. /\ pc[p] = "decide" /\ pc[p] \notin Outside
      /\ cmd[p].op = "review" /\ MayOpen(cmd[p])
  BY DEF OpenReview, At, Outside
<1>2. PICK at \in Stamp :
        Begin(p, [kind |-> "review", run |-> cmd[p].run, action |-> cmd[p].action,
                  reason |-> cmd[p].reason, at |-> at])
  BY DEF OpenReview
<1> DEFINE m == [kind |-> "review", run |-> cmd[p].run, action |-> cmd[p].action,
                 reason |-> cmd[p].reason, at |-> at]
<1>3. Open = {} /\ MayReview(cmd[p])
  <2>1. Unsealed = {} /\ Pending = {} /\ MayReview(cmd[p])
    BY <1>1 DEF MayOpen, JournalInv, ProcessFact, At
  <2> QED
    BY <2>1, NothingOpen
<1>4. m \in Material /\ m.kind = "review"
  BY <1>1, CommandFields DEF JournalInv, TypeInv, ProcsType, Material, Review
<1>5. MayFollow(head, m)
  BY <1>3 DEF MayFollow, MayReview
<1> QED
  BY <1>1, <1>2, <1>3, <1>4, <1>5, BeginSafe

LEMMA WriteMaterialSafe ==
    ASSUME JournalInv, TypeInv', NEW p \in Proc, WriteMaterial(p)
    PROVE  JournalInv'
<1>1. /\ pc[p] = "material" /\ pc[p] \notin Outside
      /\ UNCHANGED <<hasRecord, hasHead, head, intents, receipts, events, packets, replays, runs, txn>>
  BY DEF WriteMaterial, At, Outside
<1>2. Proposed(txn[p]) /\ DirectoryInv /\ (hasRecord => hasHead)'
  BY <1>1 DEF JournalInv, ProcessFact
<1>3. head = txn[p].prev
  BY <1>2 DEF Proposed
<1>4. /\ materials' = materials \union {txn[p].material}
      /\ pc' = [pc EXCEPT ![p] = "event"] /\ lock' = lock
  BY <1>3 DEF WriteMaterial, Goto
<1>5. DirectoryInv'
  BY <1>1, <1>2, <1>4, MaterialKeeps
<1>6. pc'[p] = "event"
  BY <1>4 DEF JournalInv, TypeInv, ProcsType
<1>7. ProcessFact(p)'
  BY <1>1, <1>2, <1>4, <1>6 DEF ProcessFact, At, Proposed, HasMaterial
<1> QED
  BY <1>1, <1>2, <1>4, <1>5, <1>7, StepUnderLock DEF SafeFor

LEMMA WriteEventSafe ==
    ASSUME JournalInv, TypeInv', NEW p \in Proc, WriteEvent(p)
    PROVE  JournalInv'
<1>1. /\ pc[p] = "event" /\ pc[p] \notin Outside
      /\ UNCHANGED <<hasRecord, hasHead, head, intents, receipts, materials, packets, replays, runs, txn>>
  BY DEF WriteEvent, At, Outside
<1>2. Proposed(txn[p]) /\ HasMaterial(txn[p]) /\ DirectoryInv /\ (hasRecord => hasHead)'
  BY <1>1 DEF JournalInv, ProcessFact
<1>3. CASE Answer(p, "artifact_conflict", <<>>) /\ UNCHANGED events
  <2>1. DirectoryInv'
    BY <1>1, <1>2, <1>3, DirectoryKept DEF Journal
  <2> QED
    BY <1>1, <1>2, <1>3, <2>1, StepAnswers
<1>4. CASE events' = events \union {NextHead(txn[p])} /\ Goto(p, "head")
  <2>1. DirectoryInv'
    BY <1>1, <1>2, <1>4, EventKeeps DEF JournalInv, TypeInv
  <2>2. pc' = [pc EXCEPT ![p] = "head"] /\ lock' = lock
    BY <1>4 DEF Goto
  <2>3. pc'[p] = "head"
    BY <2>2 DEF JournalInv, TypeInv, ProcsType
  <2>4. ProcessFact(p)'
    BY <1>1, <1>2, <1>4, <2>3 DEF ProcessFact, At, Proposed, HasMaterial, HasEvent, NextHead
  <2> QED
    BY <1>1, <1>2, <2>1, <2>2, <2>4, StepUnderLock DEF SafeFor
<1> QED
  BY <1>3, <1>4 DEF WriteEvent

LEMMA ReplaceHeadSafe ==
    ASSUME JournalInv, TypeInv', NEW p \in Proc, ReplaceHead(p)
    PROVE  JournalInv'
<1>1. /\ pc[p] = "head" /\ pc[p] \notin Outside
      /\ pc' = [pc EXCEPT ![p] = "receipt"] /\ lock' = lock
      /\ head' = NextHead(txn[p])
      /\ UNCHANGED <<hasRecord, hasHead, intents, receipts, materials, events, packets, replays, runs, txn>>
  BY DEF ReplaceHead, At, Goto, Outside
<1>2. /\ Proposed(txn[p]) /\ HasMaterial(txn[p]) /\ HasEvent(txn[p])
      /\ DirectoryInv /\ (hasRecord => hasHead)'
  BY <1>1 DEF JournalInv, ProcessFact, At
<1>3. PICK i : i = txn[p]
  OBVIOUS
<1>4. DirectoryInv' /\ head' # <<>> /\ i = Step(head', Len(head'))
  BY <1>1, <1>2, <1>3, HeadKeeps DEF JournalInv, TypeInv
<1>5. pc'[p] = "receipt" /\ txn'[p] = i
  BY <1>1, <1>3 DEF JournalInv, TypeInv, ProcsType
<1>6. ProcessFact(p)'
  BY <1>4, <1>5 DEF ProcessFact, At
<1> QED
  BY <1>1, <1>2, <1>4, <1>6, StepUnderLock DEF SafeFor

LEMMA WriteReceiptSafe ==
    ASSUME JournalInv, TypeInv', NEW p \in Proc, WriteReceipt(p)
    PROVE  JournalInv'
<1>1. /\ pc[p] = "receipt" /\ pc[p] \notin Outside
      /\ receipts' = receipts \union {txn[p]}
      /\ Answer(p, "ok", NextHead(txn[p]))
      /\ UNCHANGED <<hasRecord, hasHead, head, intents, materials, events, packets, replays, runs>>
  BY DEF WriteReceipt, At, Outside
<1>2. head # <<>> /\ txn[p] = Step(head, Len(head)) /\ DirectoryInv /\ (hasRecord => hasHead)'
  BY <1>1 DEF JournalInv, ProcessFact, At
<1>3. txn[p] \in Published(head)
  BY <1>2, LastInMaterial DEF Published, JournalInv, TypeInv, FilesType
<1>4. HistoryInv' /\ EventsInv' /\ PacketsOk' /\ ReplaysOk'
  BY <1>1, <1>2 DEF DirectoryInv, HistoryInv, EventsInv, PacketsOk, ReplaysOk
<1>5. IntentsInv'
  BY <1>1, <1>2 DEF DirectoryInv, IntentsInv, Valid, Open
<1>6. ReceiptsInv'
  BY <1>1, <1>2, <1>3 DEF DirectoryInv, ReceiptsInv
<1>7. MaterialsInv'
  BY <1>1, <1>2 DEF DirectoryInv, MaterialsInv, HasEvent, HasMaterial
<1>8. DirectoryInv'
  BY <1>4, <1>5, <1>6, <1>7 DEF DirectoryInv
<1> QED
  BY <1>1, <1>2, <1>8, StepAnswers

LEMMA ExportSafe ==
    ASSUME JournalInv, TypeInv', NEW p \in Proc, Export(p)
    PROVE  JournalInv'
<1>1. /\ pc[p] \notin Outside /\ Answer(p, "ok", head)
      /\ UNCHANGED <<hasRecord, hasHead, replays, runs>> /\ UNCHANGED Journal
  BY DEF Export, At, Outside, Journal
<1>2. DirectoryInv'
  BY <1>1, ExportKeeps DEF Export, MayExport, JournalInv
<1> QED
  BY <1>1, <1>2, StepAnswers DEF JournalInv

LEMMA ReplaySafe ==
    ASSUME JournalInv, TypeInv', NEW p \in Proc, Replay(p)
    PROVE  JournalInv'
<1>1. /\ pc[p] \notin Outside /\ Answer(p, "ok", head)
      /\ UNCHANGED <<hasRecord, hasHead, packets, runs>> /\ UNCHANGED Journal
  BY DEF Replay, At, Outside, Journal
<1>2. DirectoryInv'
  BY <1>1, ReplayKeeps DEF Replay, Owns, JournalInv
<1> QED
  BY <1>1, <1>2, StepAnswers DEF JournalInv

---------------------------------------------------------------------------

LEMMA JournalInit == Init => JournalInv
<1> SUFFICES ASSUME Init PROVE JournalInv
  OBVIOUS
<1>1. TypeInv
  BY TypeInit
<1>2. head = <<>> /\ DOMAIN head = {}
  BY DEF Init
<1>3. RunsOf(head) = {} /\ Published(head) = {} /\ Heads(head) = {} /\ LegalHistory(head)
  BY <1>2 DEF RunsOf, Analyses, Published, Heads, LegalHistory
<1>4. DirectoryInv
  BY <1>2, <1>3 DEF Init, DirectoryInv, HistoryInv, IntentsInv, ReceiptsInv, EventsInv, MaterialsInv,
       PacketsOk, ReplaysOk, Open
<1>5. LockInv /\ \A p \in Proc : ProcessFact(p)
  BY DEF Init, LockInv, ProcessFact, At, Outside
<1> QED
  BY <1>1, <1>4, <1>5 DEF JournalInv, Init

LEMMA JournalStep == JournalInv /\ [Next]_vars => JournalInv'
<1> SUFFICES ASSUME JournalInv, [Next]_vars PROVE JournalInv'
  OBVIOUS
<1>t. TypeInv'
  BY TypeStep DEF JournalInv
<1>1. ASSUME NEW p \in Proc, Work(p)
      PROVE  JournalInv'
  BY <1>1, <1>t, AcquireSafe, CreateHeadSafe, CreateRecordSafe, ReadSafe, FindSafe, SealSafe, RefuseSafe,
     ResumeSafe, RunGateSafe, OpenAnalysisSafe, OpenReviewSafe, WriteMaterialSafe, WriteEventSafe,
     ReplaceHeadSafe, WriteReceiptSafe, ExportSafe, ReplaySafe DEF Work
<1>2. CASE Next
  BY <1>1, <1>2, <1>t, IssueSafe, InterruptSafe DEF Next
<1>3. CASE UNCHANGED vars
  <2>1. UNCHANGED files /\ UNCHANGED procs
    BY <1>3 DEF vars
  <2>2. DirectoryInv' /\ (hasRecord => hasHead)'
    BY <2>1, DirectoryKept DEF files, Journal, JournalInv
  <2>3. LockInv' /\ \A p \in Proc : ProcessFact(p)'
    BY <2>1 DEF procs, files, JournalInv, LockInv, ProcessFact, At, Unsealed, Open, Committed, Valid,
         Proposed, HasMaterial, HasEvent
  <2> QED
    BY <1>t, <2>2, <2>3 DEF JournalInv
<1> QED
  BY <1>2, <1>3

\* Wherever processes stop, and whatever they were doing, the directory is in
\* the state that the invariant describes.
THEOREM JournalInvariant == Spec => []JournalInv
<1> QED
  BY JournalInit, JournalStep, PTL DEF Spec

\* A Case that exists passes every check of the loader.
THEOREM AlwaysReadable == Spec => []Readable
<1>1. JournalInv => Readable
  BY DirectoryLoads DEF JournalInv, TypeInv, Readable
<1> QED
  BY <1>1, JournalInvariant, PTL

\* Only ReplaceHead moves the head, and what it publishes is pending.
LEMMA HeadMoves ==
    ASSUME JournalInv, [Next]_vars, head' # head
    PROVE  \E i \in Pending : i.prev = head /\ head' = NextHead(i)
<1>1. PICK p \in Proc : ReplaceHead(p)
  BY DEF Next, Work, vars, files, Issue, Interrupt, Acquire, CreateHead, CreateRecord, Read, Find, Seal,
       Refuse, Resume, RunGate, OpenAnalysis, OpenReview, Begin, WriteMaterial, WriteEvent, WriteReceipt,
       Export, Replay
<1>2. Proposed(txn[p]) /\ head' = NextHead(txn[p])
  BY <1>1 DEF JournalInv, ProcessFact, ReplaceHead, At
<1>3. txn[p] \in Pending
  BY <1>2, CommittedOrPending DEF JournalInv, TypeInv, Proposed
<1> QED
  BY <1>2, <1>3 DEF Proposed

\* The history grows by the one pending transaction and by nothing else.
THEOREM PendingAdvances == Spec => OnlyPendingAdvances
<1>1. JournalInv /\ [Next]_vars =>
          [head' # head => \E i \in Pending : i.prev = head /\ head' = NextHead(i)]_vars
  BY HeadMoves
<1> QED
  BY <1>1, JournalInvariant, PTL DEF Spec, OnlyPendingAdvances

---------------------------------------------------------------------------
(* Clients. *)

(* The invariant, for the client of one process. *)

Fact(p) ==
    /\ pc[p] # "idle" => reply[p] = NoReply
    /\ pc[p] \in {"create_head", "create_record"} => cmd[p].op = "create"
    /\ At(p, "read") => cmd[p].op = "read"
    /\ pc[p] \in {"find", "relock"} => cmd[p].op = "replay"
    /\ pc[p] \in Transacting =>
          cmd[p].op \in Transition /\ CommandOf(txn[p].material) = cmd[p]
    /\ cmd[p].op = "replay" /\ pc[p] \in {"relock", "seal", "decide"} => cmd[p].run \in RunsOf(head)
    /\ IsPrefix(reply[p].seen, head)
    /\ reply[p].result = "ok" /\ cmd[p].op \in Transition =>
          reply[p].seen # <<>> /\ CommandOf(Last(reply[p].seen)) = cmd[p]

ClientInv == \A p \in Proc : Fact(p)

---------------------------------------------------------------------------
(* The history that a client saw. *)

LEMMA PrefixOfItself ==
    ASSUME NEW h \in History
    PROVE  IsPrefix(h, h) /\ IsPrefix(<<>>, h)
<1>1. Len(h) \in Nat /\ Len(<<>>) = 0
  BY Entries
<1>2. SubSeq(<<>>, 1, 0) = <<>> /\ SubSeq(h, 1, 0) = <<>>
  BY SubSeqEmpty
<1> QED
  BY <1>1, <1>2 DEF IsPrefix

LEMMA PrefixGrows ==
    ASSUME NEW h \in History, NEW s \in History, NEW m \in Material, IsPrefix(s, h)
    PROVE  IsPrefix(s, Append(h, m))
<1>1. Len(h) \in Nat /\ Len(s) \in 0 .. Len(h)
  BY Entries DEF IsPrefix
<1>2. Len(Append(h, m)) = Len(h) + 1 /\ SubSeq(Append(h, m), 1, Len(s)) = SubSeq(h, 1, Len(s))
  BY <1>1, OneMoreEntry
<1>3. SubSeq(s, 1, Len(s)) = SubSeq(h, 1, Len(s))
  BY DEF IsPrefix
<1>4. Len(s) <= Len(h) + 1
  BY <1>1
<1> QED
  BY <1>2, <1>3, <1>4 DEF IsPrefix

\* The head stays, or the next entry is appended.
LEMMA HeadGrows ==
    ASSUME JournalInv, [Next]_vars
    PROVE  /\ head \in History
           /\ \/ head' = head
              \/ \E m \in Material : head' = Append(head, m)
           /\ RunsOf(head) \subseteq RunsOf(head')
<1>1. head \in History /\ intents \subseteq Intent
  BY DEF JournalInv, TypeInv, FilesType
<1>2. CASE head' # head
  <2>1. PICK i \in Pending : i.prev = head /\ head' = NextHead(i)
    BY <1>2, HeadMoves
  <2>2. i \in Intent /\ i.material \in Material /\ head' = Append(head, i.material)
    BY <1>1, <2>1 DEF Pending, Open, Intent, NextHead
  <2>3. RunsOf(head) \subseteq RunsOf(head')
    BY <1>1, <2>2, AnalysesAppend
  <2> QED
    BY <1>1, <2>2, <2>3
<1> QED
  BY <1>1, <1>2

LEMMA SeenKept ==
    ASSUME JournalInv, [Next]_vars, NEW s \in History, IsPrefix(s, head)
    PROVE  IsPrefix(s, head')
BY HeadGrows, PrefixGrows

---------------------------------------------------------------------------
(* The steps. *)

\* A process that takes no step.
LEMMA OthersKept ==
    ASSUME JournalInv, [Next]_vars, NEW q \in Proc, Fact(q),
           pc'[q] = pc[q], cmd'[q] = cmd[q], txn'[q] = txn[q], reply'[q] = reply[q]
    PROVE  Fact(q)'
<1>1. reply[q].seen \in History
  BY DEF JournalInv, TypeInv, ProcsType, Reply
<1>2. IsPrefix(reply[q].seen, head')
  BY <1>1, SeenKept DEF Fact
<1>3. RunsOf(head) \subseteq RunsOf(head')
  BY HeadGrows
<1> QED
  BY <1>2, <1>3 DEF Fact, At

\* Every step is one process's.
LEMMA OneProcess ==
    ASSUME JournalInv, NEW p \in Proc, Work(p) \/ Interrupt(p) \/ (\E c \in Issuable : Issue(p, c))
    PROVE  \A q \in Proc \ {p} :
              pc'[q] = pc[q] /\ cmd'[q] = cmd[q] /\ txn'[q] = txn[q] /\ reply'[q] = reply[q]
<1>1. pc \in [Proc -> Labels] /\ cmd \in [Proc -> Command] /\ txn \in [Proc -> Intent \union {None}]
      /\ reply \in [Proc -> Reply]
  BY DEF JournalInv, TypeInv, ProcsType
<1>2. CASE Interrupt(p) \/ \E c \in Issuable : Issue(p, c)
  BY <1>1, <1>2 DEF Interrupt, Issue
<1>3. CASE Acquire(p) \/ CreateHead(p) \/ CreateRecord(p) \/ Read(p) \/ Find(p) \/ Seal(p) \/ Refuse(p)
  BY <1>1, <1>3 DEF Acquire, CreateHead, CreateRecord, AnswerView, Read, Find, Seal, Refuse, Goto, Answer
<1>4. CASE Resume(p) \/ RunGate(p) \/ OpenAnalysis(p) \/ OpenReview(p)
  BY <1>1, <1>4 DEF Resume, RunGate, OpenAnalysis, OpenReview, Begin, Goto, Answer
<1>5. CASE WriteMaterial(p) \/ WriteEvent(p) \/ ReplaceHead(p) \/ WriteReceipt(p) \/ Export(p) \/ Replay(p)
  BY <1>1, <1>5 DEF WriteMaterial, WriteEvent, ReplaceHead, WriteReceipt, Export, Replay, Goto, Answer
<1> QED
  BY <1>2, <1>3, <1>4, <1>5 DEF Work

\* A command that ends with this reply.
LEMMA AnswerFact ==
    ASSUME JournalInv, NEW p \in Proc, NEW result, NEW seen, Answer(p, result, seen),
           IsPrefix(seen, head'),
           result = "ok" /\ cmd[p].op \in Transition => seen # <<>> /\ CommandOf(Last(seen)) = cmd[p]
    PROVE  Fact(p)'
<1>1. /\ pc'[p] = "idle" /\ cmd'[p] = cmd[p]
      /\ reply'[p] = [result |-> result, seen |-> seen]
  BY DEF JournalInv, TypeInv, ProcsType, Answer
<1> QED
  BY <1>1 DEF Fact, At, Transacting

\* One that is refused, and one that is shown the history.
LEMMA RefusedFact ==
    ASSUME JournalInv, [Next]_vars, NEW p \in Proc, NEW result, result # "ok", Answer(p, result, <<>>)
    PROVE  Fact(p)'
<1>1. head' \in History
  BY TypeStep DEF JournalInv, TypeInv, FilesType
<1>2. IsPrefix(<<>>, head')
  BY <1>1, PrefixOfItself
<1> QED
  BY <1>2, AnswerFact

LEMMA ShownFact ==
    ASSUME JournalInv, NEW p \in Proc, Answer(p, "ok", head), UNCHANGED head, cmd[p].op \notin Transition
    PROVE  Fact(p)'
<1>1. IsPrefix(head, head')
  BY PrefixOfItself DEF JournalInv, TypeInv, FilesType
<1> QED
  BY <1>1, AnswerFact

LEMMA ViewFact ==
    ASSUME JournalInv, [Next]_vars, NEW p \in Proc, AnswerView(p), UNCHANGED head, cmd[p].op \notin Transition
    PROVE  Fact(p)'
BY RefusedFact, ShownFact DEF AnswerView

\* A command that goes on to this step.
LEMMA GoesOn ==
    ASSUME JournalInv, [Next]_vars, NEW p \in Proc, Fact(p), pc[p] # "idle",
           NEW label, pc' = [pc EXCEPT ![p] = label], UNCHANGED <<cmd, reply>>,
           label \in {"create_head", "create_record"} => cmd[p].op = "create",
           label = "read" => cmd[p].op = "read",
           label \in {"find", "relock"} => cmd[p].op = "replay",
           label \in Transacting =>
               cmd[p].op \in Transition /\ CommandOf(txn'[p].material) = cmd[p],
           cmd[p].op = "replay" /\ label \in {"relock", "seal", "decide"} => cmd[p].run \in RunsOf(head)
    PROVE  Fact(p)'
<1>1. pc'[p] = label /\ cmd'[p] = cmd[p] /\ reply'[p] = NoReply
  BY DEF JournalInv, TypeInv, ProcsType, Fact
<1>2. head' \in History
  BY TypeStep DEF JournalInv, TypeInv, FilesType
<1>3. IsPrefix(<<>>, head')
  BY <1>2, PrefixOfItself
<1>4. RunsOf(head) \subseteq RunsOf(head')
  BY HeadGrows
<1> QED
  BY <1>1, <1>3, <1>4 DEF Fact, At, NoReply

LEMMA IssueFact ==
    ASSUME JournalInv, [Next]_vars, NEW p \in Proc, NEW c \in Issuable, Issue(p, c)
    PROVE  Fact(p)'
<1>1. pc[p] = "idle" /\ cmd'[p] = c /\ UNCHANGED head
  BY DEF JournalInv, TypeInv, ProcsType, Issue, At, files
<1>2. \/ pc'[p] = "lock" /\ reply'[p] = NoReply
      \/ pc'[p] = "idle" /\ reply'[p] = [result |-> "not_found", seen |-> <<>>]
  BY <1>1 DEF JournalInv, TypeInv, ProcsType, Issue
<1>3. IsPrefix(<<>>, head')
  BY <1>1, PrefixOfItself DEF JournalInv, TypeInv, FilesType
<1> QED
  BY <1>1, <1>2, <1>3 DEF Fact, At, NoReply, Transacting

LEMMA AcquireFact ==
    ASSUME JournalInv, [Next]_vars, NEW p \in Proc, Fact(p), Acquire(p)
    PROVE  Fact(p)'
<1>1. cmd[p].op \in {"create", "read", "analyse", "review", "export", "replay"}
  BY CommandFields DEF JournalInv, TypeInv, ProcsType
<1>2. CASE At(p, "lock")
  <2>1. pc' = [pc EXCEPT ![p] = Entry[cmd[p].op]] /\ UNCHANGED <<cmd, reply>> /\ pc[p] # "idle"
    BY <1>2 DEF Acquire, At
  <2>2. /\ Entry[cmd[p].op] \notin Transacting
        /\ Entry[cmd[p].op] = "create_head" => cmd[p].op = "create"
        /\ Entry[cmd[p].op] = "read" => cmd[p].op = "read"
        /\ Entry[cmd[p].op] = "find" => cmd[p].op = "replay"
        /\ Entry[cmd[p].op] \in {"create_head", "read", "find", "seal"}
        /\ cmd[p].op = "replay" => Entry[cmd[p].op] = "find"
    BY <1>1 DEF Entry, Transacting
  <2> QED
    BY <2>1, <2>2, GoesOn
<1>3. CASE At(p, "relock")
  <2>1. pc' = [pc EXCEPT ![p] = "seal"] /\ UNCHANGED <<cmd, reply>> /\ pc[p] # "idle"
    BY <1>3 DEF Acquire, At
  <2>2. cmd[p].op = "replay" => cmd[p].run \in RunsOf(head)
    BY <1>3 DEF Fact, At
  <2> QED
    BY <2>1, <2>2, GoesOn DEF Transacting
<1> QED
  BY <1>2, <1>3 DEF Acquire, At

LEMMA CreateFact ==
    ASSUME JournalInv, [Next]_vars, NEW p \in Proc, Fact(p), CreateHead(p) \/ CreateRecord(p)
    PROVE  Fact(p)'
<1>1. cmd[p].op = "create" /\ pc[p] # "idle"
  BY DEF Fact, CreateHead, CreateRecord, At
<1>2. CASE CreateHead(p)
  BY <1>1, <1>2, GoesOn DEF CreateHead, Goto, Transacting
<1>3. CASE CreateRecord(p)
  BY <1>1, <1>3, ViewFact DEF CreateRecord, Transition
<1> QED
  BY <1>2, <1>3

LEMMA ReadFact ==
    ASSUME JournalInv, [Next]_vars, NEW p \in Proc, Fact(p), Read(p)
    PROVE  Fact(p)'
<1>1. cmd[p].op = "read" /\ UNCHANGED head /\ AnswerView(p)
  BY DEF Fact, Read, files
<1> QED
  BY <1>1, ViewFact DEF Transition

LEMMA FindFact ==
    ASSUME JournalInv, [Next]_vars, NEW p \in Proc, Fact(p), Find(p)
    PROVE  Fact(p)'
<1>1. CASE LoadOk /\ Owns(cmd[p].run)
  <2>1. /\ pc' = [pc EXCEPT ![p] = "relock"] /\ UNCHANGED <<cmd, reply>>
        /\ pc[p] # "idle" /\ cmd[p].op = "replay" /\ cmd[p].run \in RunsOf(head)
    BY <1>1 DEF Fact, Find, At, Owns
  <2> QED
    BY <2>1, GoesOn DEF Transacting
<1>2. CASE ~(LoadOk /\ Owns(cmd[p].run))
  BY <1>2, RefusedFact DEF Find
<1> QED
  BY <1>1, <1>2

LEMMA SealFact ==
    ASSUME JournalInv, [Next]_vars, NEW p \in Proc, Fact(p), Seal(p)
    PROVE  Fact(p)'
<1>1. CASE RecoverOk
  <2>1. /\ pc' = [pc EXCEPT ![p] = "decide"] /\ UNCHANGED <<cmd, reply>> /\ pc[p] # "idle"
        /\ cmd[p].op = "replay" => cmd[p].run \in RunsOf(head)
    BY <1>1 DEF Fact, Seal, Goto, At
  <2> QED
    BY <2>1, GoesOn DEF Transacting
<1>2. CASE ~RecoverOk
  BY <1>2, RefusedFact DEF Seal
<1> QED
  BY <1>1, <1>2

LEMMA RefuseFact ==
    ASSUME JournalInv, [Next]_vars, NEW p \in Proc, Refuse(p)
    PROVE  Fact(p)'
<1>1. PICK result \in {"refused", "pending_conflict"} : Answer(p, result, <<>>)
  BY DEF Refuse
<1> QED
  BY <1>1, RefusedFact

LEMMA ResumeFact ==
    ASSUME JournalInv, [Next]_vars, NEW p \in Proc, Fact(p), Resume(p)
    PROVE  Fact(p)'
<1>1. /\ pc' = [pc EXCEPT ![p] = "material"] /\ UNCHANGED <<cmd, reply>>
      /\ pc[p] # "idle" /\ cmd[p].op \in Transition
  BY DEF Resume, Goto, At
<1>2. PICK i \in Resumable(cmd[p]) : txn' = [txn EXCEPT ![p] = i]
  BY DEF Resume
<1>3. txn'[p] = i /\ CommandOf(i.material) = cmd[p]
  BY <1>2 DEF JournalInv, TypeInv, ProcsType, Resumable, MayResume
<1> QED
  BY <1>1, <1>3, GoesOn DEF Transition

\* An analysis is issued without arguments.
LEMMA AnalyseCommand ==
    ASSUME NEW c \in Command, c.op = "analyse"
    PROVE  c = [op |-> "analyse"]
BY DEF Command

LEMMA RunGateFact ==
    ASSUME JournalInv, [Next]_vars, NEW p \in Proc, Fact(p), RunGate(p)
    PROVE  Fact(p)'
<1>1. /\ pc' = [pc EXCEPT ![p] = "intent"] /\ UNCHANGED <<cmd, reply>>
      /\ pc[p] # "idle" /\ cmd[p].op = "analyse"
  BY DEF RunGate, Goto, At
<1>2. txn'[p].material.kind = "workpaper"
  BY DEF RunGate, JournalInv, TypeInv, ProcsType
<1>3. CommandOf(txn'[p].material) = cmd[p]
  BY <1>1, <1>2, AnalyseCommand DEF CommandOf, JournalInv, TypeInv, ProcsType
<1> QED
  BY <1>1, <1>3, GoesOn DEF Transition

LEMMA BeginFact ==
    ASSUME JournalInv, [Next]_vars, NEW p \in Proc, Fact(p), pc[p] # "idle",
           NEW m, CommandOf(m) = cmd[p], cmd[p].op \in Transition, Begin(p, m)
    PROVE  Fact(p)'
<1>1. CASE Goto(p, "material") /\ txn' = [txn EXCEPT ![p] = [prev |-> head, material |-> m]]
  <2>1. pc' = [pc EXCEPT ![p] = "material"] /\ UNCHANGED <<cmd, reply>>
    BY <1>1 DEF Goto
  <2>2. txn'[p].material = m
    BY <1>1 DEF JournalInv, TypeInv, ProcsType
  <2> QED
    BY <2>1, <2>2, GoesOn DEF Transition
<1>2. CASE Answer(p, "refused", <<>>) \/ Answer(p, "pending_conflict", <<>>)
  BY <1>2, RefusedFact
<1> QED
  BY <1>1, <1>2 DEF Begin

LEMMA OpenFact ==
    ASSUME JournalInv, [Next]_vars, NEW p \in Proc, Fact(p), OpenAnalysis(p) \/ OpenReview(p)
    PROVE  Fact(p)'
<1>1. CASE OpenAnalysis(p)
  <2>1. /\ pc[p] # "idle" /\ CommandOf(txn[p].material) = cmd[p] /\ cmd[p].op \in Transition
        /\ Begin(p, txn[p].material)
    BY <1>1 DEF OpenAnalysis, At, Fact, Transacting
  <2> QED
    BY <2>1, BeginFact
<1>2. CASE OpenReview(p)
  <2>1. pc[p] # "idle" /\ cmd[p].op = "review" /\ cmd[p] \in Command
    BY <1>2 DEF OpenReview, At, JournalInv, TypeInv, ProcsType
  <2>2. PICK at \in Stamp :
          Begin(p, [kind |-> "review", run |-> cmd[p].run, action |-> cmd[p].action,
                    reason |-> cmd[p].reason, at |-> at])
    BY <1>2 DEF OpenReview
  <2>3. CommandOf([kind |-> "review", run |-> cmd[p].run, action |-> cmd[p].action,
                   reason |-> cmd[p].reason, at |-> at]) = cmd[p]
    BY <2>1 DEF CommandOf, Command
  <2> QED
    BY <2>1, <2>2, <2>3, BeginFact DEF Transition
<1> QED
  BY <1>1, <1>2

LEMMA ApplyFact ==
    ASSUME JournalInv, [Next]_vars, NEW p \in Proc, Fact(p),
           WriteMaterial(p) \/ WriteEvent(p) \/ ReplaceHead(p)
    PROVE  Fact(p)'
<1>1. /\ pc[p] # "idle" /\ CommandOf(txn[p].material) = cmd[p] /\ cmd[p].op \in Transition
      /\ UNCHANGED txn
  BY DEF WriteMaterial, WriteEvent, ReplaceHead, At, Fact, Transacting
<1>2. CASE \E label \in {"event", "head", "receipt"} : Goto(p, label)
  <2>1. PICK label \in {"event", "head", "receipt"} : pc' = [pc EXCEPT ![p] = label] /\ UNCHANGED <<cmd, reply>>
    BY <1>2 DEF Goto
  <2> QED
    BY <1>1, <2>1, GoesOn DEF Transition
<1>3. CASE \E result \in {"refused", "artifact_conflict"} : Answer(p, result, <<>>)
  BY <1>3, RefusedFact
<1> QED
  BY <1>2, <1>3 DEF WriteMaterial, WriteEvent, ReplaceHead

\* The history that is acknowledged ends with the command's own transition.
LEMMA WriteReceiptFact ==
    ASSUME JournalInv, [Next]_vars, NEW p \in Proc, Fact(p), WriteReceipt(p)
    PROVE  Fact(p)'
<1>1. /\ Answer(p, "ok", NextHead(txn[p])) /\ UNCHANGED head
      /\ CommandOf(txn[p].material) = cmd[p]
      /\ head \in History /\ head # <<>> /\ txn[p] = Step(head, Len(head))
  BY DEF WriteReceipt, At, Fact, Transacting, JournalInv, TypeInv, FilesType, ProcessFact
<1>2. NextHead(txn[p]) = head /\ Last(head) = txn[p].material
  <2>1. Len(head) \in DOMAIN head
    BY <1>1, LastInMaterial
  <2>2. txn[p].material = head[Len(head)] /\ NextHead(txn[p]) = SubSeq(head, 1, Len(head))
    BY <1>1, <2>1, StepFields
  <2>3. SubSeq(head, 1, Len(head)) = head
    BY <1>1, Entries
  <2> QED
    BY <2>2, <2>3 DEF Last
<1>3. IsPrefix(head, head')
  BY <1>1, PrefixOfItself
<1> QED
  BY <1>1, <1>2, <1>3, AnswerFact

LEMMA ExportFact ==
    ASSUME JournalInv, NEW p \in Proc, Export(p)
    PROVE  Fact(p)'
BY ShownFact DEF Export, Transition

LEMMA ReplayFact ==
    ASSUME JournalInv, NEW p \in Proc, Replay(p)
    PROVE  Fact(p)'
BY ShownFact DEF Replay, Transition

LEMMA InterruptFact ==
    ASSUME JournalInv, NEW p \in Proc, Interrupt(p)
    PROVE  Fact(p)'
<1>1. /\ pc'[p] = "idle" /\ cmd'[p] = NoCommand /\ reply'[p] = NoReply /\ UNCHANGED head
  BY DEF JournalInv, TypeInv, ProcsType, Interrupt, files
<1>2. IsPrefix(<<>>, head')
  BY <1>1, PrefixOfItself DEF JournalInv, TypeInv, FilesType
<1> QED
  BY <1>1, <1>2 DEF Fact, At, NoReply, NoCommand, Transacting, Transition

---------------------------------------------------------------------------

LEMMA ClientInit == Init => ClientInv
<1> SUFFICES ASSUME Init, NEW p \in Proc PROVE Fact(p)
  BY DEF ClientInv
<1>1. <<>> \in History /\ head = <<>>
  BY NoneTyped DEF Init
<1>2. IsPrefix(<<>>, head)
  BY <1>1, PrefixOfItself
<1> QED
  BY <1>2 DEF Init, Fact, At, NoReply, NoCommand, Transacting

LEMMA ClientStep == JournalInv /\ ClientInv /\ [Next]_vars => ClientInv'
<1> SUFFICES ASSUME JournalInv, ClientInv, [Next]_vars, NEW q \in Proc PROVE Fact(q)'
  BY DEF ClientInv
<1>0. Fact(q)
  BY DEF ClientInv
<1>1. ASSUME NEW p \in Proc, Work(p) \/ Interrupt(p) \/ (\E c \in Issuable : Issue(p, c))
      PROVE  Fact(q)'
  <2>1. CASE q # p
    BY <1>0, <1>1, <2>1, OneProcess, OthersKept
  <2>2. CASE q = p /\ Work(p)
    BY <1>0, <2>2, AcquireFact, CreateFact, ReadFact, FindFact, SealFact, RefuseFact, ResumeFact, RunGateFact,
       OpenFact, ApplyFact, WriteReceiptFact, ExportFact, ReplayFact DEF Work
  <2>3. CASE q = p /\ Interrupt(p)
    BY <2>3, InterruptFact
  <2>4. CASE q = p /\ \E c \in Issuable : Issue(p, c)
    BY <2>4, IssueFact
  <2> QED
    BY <1>1, <2>1, <2>2, <2>3, <2>4
<1>2. CASE UNCHANGED vars
  BY <1>0, <1>2, OthersKept DEF vars, procs
<1> QED
  BY <1>1, <1>2 DEF Next

\* At each of its steps a process knows of its client what Fact says.
THEOREM ClientInvariant == Spec => []ClientInv
<1> QED
  BY ClientInit, ClientStep, JournalInvariant, PTL DEF Spec

\* "ok" is said for the client's own command, whoever opened the transaction.
THEOREM AckAlways == Spec => []AckIsForCommand
<1>1. ClientInv => AckIsForCommand
  BY DEF ClientInv, Fact, AckIsForCommand
<1> QED
  BY <1>1, ClientInvariant, PTL

\* What a client was shown or acknowledged is never taken back.
THEOREM StableAlways == Spec => []ObservationsStable
<1>1. ClientInv => ObservationsStable
  BY DEF ClientInv, Fact, ObservationsStable
<1> QED
  BY <1>1, ClientInvariant, PTL

\* The owner that ReplayRun found is still the owner when it has the lock again.
THEOREM FoundAlwaysOwned == Spec => []FoundStaysOwned
<1>1. ClientInv => FoundStaysOwned
  BY DEF ClientInv, Fact, FoundStaysOwned
<1> QED
  BY <1>1, ClientInvariant, PTL

\* The command that opened a pending transaction is not turned away.
LEMMA PendingServed ==
    ASSUME JournalInv, ClientInv, [Next]_vars, NEW p \in Proc, At(p, "decide"),
           NEW i \in Pending, CommandOf(i.material) = cmd[p]
    PROVE  reply'[p].result \notin {"refused", "pending_conflict"}
<1>1. reply[p] = NoReply /\ reply \in [Proc -> Reply]
  BY DEF ClientInv, Fact, At, JournalInv, TypeInv, ProcsType
<1>2. i \in Intent /\ Valid(i)
  BY CommittedOrPending DEF JournalInv, TypeInv, FilesType, Pending, Open
<1>3. cmd[p].op \in Transition
  BY DEF CommandOf, Transition
<1>4. i \in Resumable(cmd[p]) /\ ~MayOpen(cmd[p])
  BY <1>2 DEF Resumable, MayResume, PendingValid, Valid, MayOpen
<1>5. CASE reply'[p] = reply[p]
  BY <1>1, <1>5 DEF NoReply
<1>6. ASSUME NEW q \in Proc, Work(q) \/ Interrupt(q) \/ (\E c \in Issuable : Issue(q, c))
      PROVE  reply'[p].result \notin {"refused", "pending_conflict"}
  <2>1. CASE q # p
    BY <1>5, <1>6, <2>1, OneProcess
  <2>2. CASE q = p /\ Interrupt(p)
    BY <1>1, <2>2 DEF Interrupt, NoReply
  <2>3. CASE q = p /\ Work(p)
    <3>1. Resume(p)
      BY <1>3, <1>4, <2>3 DEF Work, At, Acquire, CreateHead, CreateRecord, Read, Find, Seal, Refuse, RunGate,
           OpenAnalysis, OpenReview, WriteMaterial, WriteEvent, ReplaceHead, WriteReceipt, Export, Replay, Transition
    <3> QED
      BY <1>5, <3>1 DEF Resume, Goto
  <2>4. CASE q = p /\ \E c \in Issuable : Issue(p, c)
    BY <2>4 DEF Issue, At
  <2> QED
    BY <1>6, <2>1, <2>2, <2>3, <2>4
<1>7. CASE UNCHANGED vars
  BY <1>5, <1>7 DEF vars, procs
<1> QED
  BY <1>6, <1>7 DEF Next

\* The command that opened the pending transaction is never turned away.
THEOREM ResumeServed == Spec => ResumeNeverRefused
<1>1. JournalInv /\ ClientInv /\ [Next]_vars =>
         [\A p \in Proc :
             At(p, "decide") /\ (\E i \in Pending : CommandOf(i.material) = cmd[p])
                 => reply'[p].result \notin {"refused", "pending_conflict"}]_vars
  BY PendingServed
<1> QED
  BY <1>1, JournalInvariant, ClientInvariant, PTL DEF Spec, ResumeNeverRefused

---------------------------------------------------------------------------
(* Packets. *)

\* While a run awaits its review it is the last entry.
LEMMA LatestIsLast ==
    ASSUME NEW h \in History, Status(h) = "AWAITING_REVIEW"
    PROVE  Max(Analyses(h)) = Len(h) /\ Len(h) \in DOMAIN h
<1>1. h # <<>> /\ Len(h) \in DOMAIN h /\ Last(h) \in Material
  BY LastInMaterial DEF Status
<1>2. h[Len(h)].kind = "workpaper"
  <2>1. StatusAfter(Last(h)) = "AWAITING_REVIEW"
    BY <1>1 DEF Status
  <2>2. Last(h).kind # "workpaper" => Last(h).action \in ReviewAction
    BY <1>1 DEF Material, Workpaper, Review
  <2> QED
    BY <2>1, <2>2 DEF StatusAfter, ResultingStatus, ReviewAction, Last
<1>3. Len(h) \in Analyses(h) /\ Analyses(h) \subseteq 1 .. Len(h) /\ Len(h) \in Nat
  BY <1>1, <1>2, AnalysesFinite, Entries DEF Analyses
<1>4. \A x \in Analyses(h) : (\A y \in Analyses(h) : x >= y) => x = Len(h)
  BY <1>3
<1>5. \A y \in Analyses(h) : Len(h) >= y
  BY <1>3
<1> QED
  BY <1>1, <1>3, <1>4, <1>5 DEF Max

\* The last entry of an approved history approves its latest run.
LEMMA ApprovesLatest ==
    ASSUME NEW h \in History, LegalHistory(h), Status(h) = "APPROVED"
    PROVE  Last(h).run = LatestRun(h) /\ MachineAccepts(Last(h).run)
<1>1. h # <<>> /\ Last(h) \in Review /\ Last(h).action = "APPROVE" /\ Len(h) \in DOMAIN h
  BY ApprovedByReview, LastInMaterial
<1> DEFINE g == SubSeq(h, 1, Len(h) - 1)
<1>2. MayFollow(g, Last(h)) /\ Last(h).kind = "review" /\ Last(h) \in Material
  BY <1>1 DEF LegalHistory, Last, Review, Material
<1>3. Status(g) = "AWAITING_REVIEW" /\ Last(h).run = LatestRun(g) /\ MachineAccepts(Last(h).run)
  BY <1>1, <1>2 DEF MayFollow, Approvable
<1>4. g \in History /\ h = Append(g, Last(h))
  <2>1. Step(h, Len(h)) \in Intent /\ NextHead(Step(h, Len(h))) = SubSeq(h, 1, Len(h))
    BY <1>1, StepFields
  <2>2. SubSeq(h, 1, Len(h)) = h
    BY Entries
  <2> QED
    BY <2>1, <2>2 DEF Step, Intent, NextHead, Last
<1>5. LatestRun(h) = LatestRun(g)
  <2>1. Max(Analyses(g)) = Len(g) /\ Len(g) \in DOMAIN g
    BY <1>3, <1>4, LatestIsLast
  <2>2. Analyses(h) = Analyses(g)
    <3>1. ASSUME NEW b \in History, NEW m \in Material, m.kind = "review"
          PROVE  Analyses(Append(b, m)) = Analyses(b)
      <4>1. m.kind # "workpaper"
        BY <3>1
      <4> QED
        BY <4>1, AnalysesAppend
    <3>2. Analyses(Append(g, Last(h))) = Analyses(g)
      BY <1>2, <1>4, <3>1
    <3> HIDE DEF g
    <3> QED
      BY <1>4, <3>2
  <2>3. h[Len(g)] = g[Len(g)]
    BY <1>2, <1>4, <2>1, OneMoreEntry
  <2> QED
    BY <2>1, <2>2, <2>3 DEF LatestRun
<1> QED
  BY <1>3, <1>5

\* A packet cites the approval of an accepted run, which ends the history.
THEOREM PacketAlwaysFinal == Spec => []PacketIsFinal
<1>1. ASSUME JournalInv, NEW packet \in packets
      PROVE  /\ head # <<>> /\ Last(head) = packet.review
             /\ packet.review.action = "APPROVE" /\ packet.review.run = packet.run
             /\ MachineAccepts(packet.run)
  <2>1. head \in History /\ LegalHistory(head)
    BY <1>1 DEF JournalInv, TypeInv, FilesType, DirectoryInv, HistoryInv
  <2>2. Status(head) = "APPROVED" /\ packet = [run |-> LatestRun(head), review |-> Last(head)]
    BY <1>1 DEF JournalInv, DirectoryInv, PacketsOk
  <2> QED
    BY <2>1, <2>2, ApprovedByReview, ApprovesLatest
<1>2. JournalInv => PacketIsFinal
  BY <1>1 DEF PacketIsFinal
<1> QED
  BY <1>2, JournalInvariant, PTL

---------------------------------------------------------------------------
(* The life cycle: CaseJournal implements CaseLifecycle. *)

\* The current run of a history, as the refinement mapping reads it.
Current(h) == IF Analyses(h) = {} THEN None ELSE LatestRun(h)

\* One decision per run: what the life cycle asks of the reviews of a history.
DecidedOnce(h) ==
    /\ Cardinality(RunsOf(h)) = Cardinality(Analyses(h))
    /\ \A r \in Reviews(h) : r.run \in RunsOf(h)
    /\ Status(h) = "AWAITING_REVIEW" => \A r \in Reviews(h) : r.run # LatestRun(h)
    /\ Status(h) # "AWAITING_REVIEW" => \A r \in Reviews(h) : r.run = LatestRun(h) => r = Last(h)

LEMMA KindOf ==
    ASSUME NEW m \in Material
    PROVE  \/ m.kind = "workpaper" /\ m \in Workpaper /\ m.run \in Run
           \/ m.kind = "review" /\ m \in Review /\ m.run \in Run
BY DEF Material, Workpaper, Review

LEMMA StatusAppend ==
    ASSUME NEW h \in History, NEW m \in Material
    PROVE  Status(Append(h, m)) = StatusAfter(m) /\ Last(Append(h, m)) = m
<1>1. Append(h, m) # <<>> /\ Last(Append(h, m)) = m
  BY HistoryAppend, OneMoreEntry DEF Last
<1> QED
  BY <1>1 DEF Status

LEMMA ReviewsAppend ==
    ASSUME NEW h \in History, NEW m \in Material
    PROVE  /\ m.kind = "workpaper" => Reviews(Append(h, m)) = Reviews(h)
           /\ m.kind = "review" => Reviews(Append(h, m)) = Reviews(h) \union {m}
<1> DEFINE g == Append(h, m)
<1>1. /\ DOMAIN g = 1 .. Len(h) + 1 /\ DOMAIN h = 1 .. Len(h) /\ Len(h) \in Nat
      /\ \A n \in 1 .. Len(h) : g[n] = h[n]
      /\ g[Len(h) + 1] = m
  BY Entries, OneMoreEntry
<1>2. Analyses(h) \subseteq 1 .. Len(h)
  BY AnalysesFinite
<1>3. CASE m.kind = "workpaper"
  <2>1. Analyses(g) = Analyses(h) \union {Len(h) + 1}
    BY <1>3, AnalysesAppend
  <2>2. DOMAIN g \ Analyses(g) = DOMAIN h \ Analyses(h)
    BY <1>1, <1>2, <2>1
  <2>3. \A n \in DOMAIN h \ Analyses(h) : g[n] = h[n]
    BY <1>1
  <2> HIDE DEF g
  <2>4. Reviews(g) = Reviews(h)
    BY <2>2, <2>3 DEF Reviews
  <2> QED
    BY <1>3, <2>4 DEF g
<1>4. CASE m.kind = "review"
  <2>1. Analyses(g) = Analyses(h)
    <3>1. m.kind # "workpaper"
      BY <1>4
    <3> QED
      BY <3>1, AnalysesAppend
  <2>2. DOMAIN g \ Analyses(g) = (DOMAIN h \ Analyses(h)) \union {Len(h) + 1}
    BY <1>1, <1>2, <2>1
  <2>3. \A n \in DOMAIN h \ Analyses(h) : g[n] = h[n]
    BY <1>1
  <2> HIDE DEF g
  <2>4. Reviews(g) = Reviews(h) \union {m}
    BY <1>1, <2>2, <2>3 DEF Reviews
  <2> QED
    BY <1>4, <2>4 DEF g
<1> QED
  BY <1>3, <1>4, KindOf

\* The current run after one more entry.
LEMMA CurrentAppend ==
    ASSUME NEW h \in History, NEW m \in Material, MayFollow(h, m)
    PROVE  /\ m.kind = "workpaper" =>
                Current(Append(h, m)) = m.run /\ LatestRun(Append(h, m)) = m.run
           /\ m.kind = "review" =>
                /\ Current(h) = m.run /\ LatestRun(h) = m.run
                /\ Current(Append(h, m)) = m.run /\ LatestRun(Append(h, m)) = m.run
<1> DEFINE g == Append(h, m)
<1>1. /\ g \in History /\ DOMAIN g = 1 .. Len(h) + 1 /\ Len(g) = Len(h) + 1 /\ Len(h) \in Nat
      /\ \A n \in 1 .. Len(h) : g[n] = h[n]
      /\ g[Len(h) + 1] = m
  BY Entries, OneMoreEntry
<1>2. Status(g) = StatusAfter(m)
  BY StatusAppend
<1>3. CASE m.kind = "workpaper"
  <2>1. Status(g) = "AWAITING_REVIEW"
    BY <1>2, <1>3 DEF StatusAfter
  <2>2. Max(Analyses(g)) = Len(h) + 1
    BY <1>1, <2>1, LatestIsLast
  <2>3. Analyses(g) # {}
    BY <1>3, AnalysesAppend
  <2> QED
    BY <1>1, <1>3, <2>2, <2>3 DEF Current, LatestRun
<1>4. CASE m.kind = "review"
  <2>1. Status(h) = "AWAITING_REVIEW" /\ m.run = LatestRun(h)
    BY <1>4 DEF MayFollow
  <2>2. Max(Analyses(h)) = Len(h) /\ Len(h) \in DOMAIN h
    BY <2>1, LatestIsLast
  <2>3. Analyses(g) = Analyses(h)
    <3>1. m.kind # "workpaper"
      BY <1>4
    <3> QED
      BY <3>1, AnalysesAppend
  <2>4. h[Len(h)].kind = "workpaper" /\ Analyses(h) # {}
    <3>1. h # <<>> /\ Last(h) \in Material /\ Status(h) = StatusAfter(Last(h))
      BY <2>1, LastInMaterial DEF Status
    <3>2. Last(h).kind = "workpaper"
      BY <2>1, <3>1, KindOf DEF StatusAfter, ResultingStatus, Review, ReviewAction
    <3> QED
      BY <2>2, <3>2 DEF Last, Analyses
  <2>5. g[Len(h)] = h[Len(h)]
    BY <1>1, <2>2, Entries
  <2> HIDE DEF g
  <2>6. LatestRun(g) = LatestRun(h)
    BY <2>2, <2>3, <2>5 DEF LatestRun
  <2> QED
    BY <1>4, <2>1, <2>3, <2>4, <2>6 DEF Current, g
<1> QED
  BY <1>3, <1>4

LEMMA DecidedOnceAppend ==
    ASSUME NEW h \in History, NEW m \in Material, MayFollow(h, m), DecidedOnce(h),
           m.kind = "review" => LatestRun(h) \in RunsOf(h)
    PROVE  DecidedOnce(Append(h, m))
<1> DEFINE g == Append(h, m)
<1>1. Status(g) = StatusAfter(m) /\ Last(g) = m
  BY StatusAppend
<1>2. CASE m.kind = "workpaper"
  <2>1. /\ Analyses(g) = Analyses(h) \union {Len(h) + 1}
        /\ RunsOf(g) = RunsOf(h) \union {m.run}
        /\ Reviews(g) = Reviews(h) /\ LatestRun(g) = m.run
    BY <1>2, AnalysesAppend, ReviewsAppend, CurrentAppend
  <2>2. m.run \notin RunsOf(h)
    BY <1>2 DEF MayFollow
  <2>3. IsFiniteSet(Analyses(h)) /\ Len(h) + 1 \notin Analyses(h)
    BY AnalysesFinite, Entries
  <2>4. IsFiniteSet(RunsOf(h))
    <3>1. [n \in Analyses(h) |-> h[n].run] \in Surjection(Analyses(h), RunsOf(h))
      BY DEF Surjection, RunsOf
    <3> QED
      BY <2>3, <3>1, FS_Surjection
  <2>5. Cardinality(RunsOf(g)) = Cardinality(Analyses(g))
    <3>1. Cardinality(RunsOf(h)) = Cardinality(Analyses(h))
      BY Zenon DEF DecidedOnce
    <3>2. Cardinality(Analyses(h) \union {Len(h) + 1}) = Cardinality(Analyses(h)) + 1
      BY <2>3, FS_AddElement
    <3>3. Cardinality(RunsOf(h) \union {m.run}) = Cardinality(RunsOf(h)) + 1
      BY <2>2, <2>4, FS_AddElement
    <3> QED
      BY <2>1, <3>1, <3>2, <3>3, Zenon
  <2>6. Status(g) = "AWAITING_REVIEW"
    BY <1>1, <1>2 DEF StatusAfter
  <2> HIDE DEF g
  <2>7. DecidedOnce(g)
    BY <2>1, <2>2, <2>5, <2>6 DEF DecidedOnce
  <2> QED
    BY <2>7 DEF g
<1>3. CASE m.kind = "review"
  <2>1. Analyses(g) = Analyses(h) /\ RunsOf(g) = RunsOf(h)
    <3>1. m.kind # "workpaper"
      BY <1>3
    <3> QED
      BY <3>1, AnalysesAppend
  <2>2. Reviews(g) = Reviews(h) \union {m} /\ LatestRun(g) = m.run /\ LatestRun(h) = m.run
    BY <1>3, ReviewsAppend, CurrentAppend
  <2>3. Status(h) = "AWAITING_REVIEW"
    BY <1>3 DEF MayFollow
  <2>4. Status(g) # "AWAITING_REVIEW"
    BY <1>1, <1>3, KindOf DEF StatusAfter, ResultingStatus, Review, ReviewAction
  <2> HIDE DEF g
  <2>5. DecidedOnce(g)
    BY <1>1, <1>3, <2>1, <2>2, <2>3, <2>4 DEF DecidedOnce
  <2> QED
    BY <2>5 DEF g
<1> QED
  BY <1>2, <1>3, KindOf

\* The invariant of the refinement.
LifecycleInv == DecidedOnce(head) /\ (head # <<>> => LatestRun(head) \in RunsOf(head))

LEMMA LatestOwned ==
    ASSUME NEW h \in History, NEW m \in Material, MayFollow(h, m),
           h # <<>> => LatestRun(h) \in RunsOf(h)
    PROVE  LatestRun(Append(h, m)) \in RunsOf(Append(h, m))
<1>1. CASE m.kind = "workpaper"
  BY <1>1, AnalysesAppend, CurrentAppend
<1>2. CASE m.kind = "review"
  <2>1. m.kind # "workpaper" /\ Status(h) = "AWAITING_REVIEW"
    BY <1>2 DEF MayFollow
  <2>2. h # <<>>
    BY <2>1 DEF Status
  <2> QED
    BY <1>2, <2>1, <2>2, AnalysesAppend, CurrentAppend
<1> QED
  BY <1>1, <1>2, KindOf

LEMMA LifecycleInit == Init => LifecycleInv
<1>1. Analyses(<<>>) = {} /\ RunsOf(<<>>) = {} /\ Reviews(<<>>) = {}
  BY DEF Analyses, RunsOf, Reviews
<1> QED
  BY <1>1 DEF Init, LifecycleInv, DecidedOnce

\* What a transition publishes, for whoever reads only the head.
LEMMA NextEntry ==
    ASSUME JournalInv, [Next]_vars, head' # head
    PROVE  \E m \in Material :
              /\ head' = Append(head, m) /\ MayFollow(head, m)
              /\ m.kind = "workpaper" => m.run \in runs
              /\ UNCHANGED packets
<1>1. PICK i \in Pending : i.prev = head /\ head' = NextHead(i)
  BY HeadMoves
<1>2. i \in Intent /\ Valid(i)
  BY CommittedOrPending DEF JournalInv, TypeInv, FilesType, Pending, Open
<1>3. UNCHANGED packets
  BY DEF Next, Work, vars, files, Issue, Interrupt, Acquire, CreateHead, CreateRecord, Read, Find, Seal,
       Refuse, Resume, RunGate, OpenAnalysis, OpenReview, Begin, WriteMaterial, WriteEvent, ReplaceHead,
       WriteReceipt, Export, Replay
<1> QED
  BY <1>1, <1>2, <1>3, IntentFields DEF Valid, NextHead

LEMMA LifecycleStep == JournalInv /\ LifecycleInv /\ [Next]_vars => LifecycleInv'
<1> SUFFICES ASSUME JournalInv, LifecycleInv, [Next]_vars PROVE LifecycleInv'
  OBVIOUS
<1>1. CASE head' = head
  BY <1>1 DEF LifecycleInv
<1>2. CASE head' # head
  <2>1. PICK m \in Material : head' = Append(head, m) /\ MayFollow(head, m)
    BY <1>2, NextEntry
  <2>2. head \in History
    BY DEF JournalInv, TypeInv, FilesType
  <2>3. m.kind = "review" => LatestRun(head) \in RunsOf(head)
    BY <2>1 DEF LifecycleInv, MayFollow, Status
  <2>4. DecidedOnce(Append(head, m)) /\ LatestRun(Append(head, m)) \in RunsOf(Append(head, m))
    BY <2>1, <2>2, <2>3, DecidedOnceAppend, LatestOwned DEF LifecycleInv
  <2> QED
    BY <2>1, <2>4 DEF LifecycleInv
<1> QED
  BY <1>1, <1>2

LEMMA LifecycleInvariant == Spec => [](JournalInv /\ LifecycleInv)
<1> QED
  BY LifecycleInit, LifecycleStep, JournalInvariant, PTL DEF Spec

LEMMA AnalyseMaps ==
    ASSUME JournalInv, LifecycleInv, NEW m \in Material, m.kind = "workpaper",
           head' = Append(head, m), MayFollow(head, m), UNCHANGED packets
    PROVE  Lifecycle!Next
<1>1. head \in History /\ m.run \in Run /\ Status(head) \in {"CREATED", "RETURNED"}
  BY KindOf DEF JournalInv, TypeInv, FilesType, MayFollow, MayAnalyse
<1>2. m.run.number = Cardinality(RunsOf(head)) + 1
  BY DEF MayFollow, NextNumber, LifecycleInv, DecidedOnce
<1>3. \A old \in RunsOf(head) : old.number < m.run.number
  BY DEF MayFollow, JournalInv, DirectoryInv, HistoryInv
<1>4. m.run = [number |-> m.run.number, output |-> m.run.output] /\ m.run.output \in Output
  BY <1>1 DEF Run
<1>5. /\ Status(head)' = "AWAITING_REVIEW"
      /\ Current(head)' = m.run
      /\ RunsOf(head)' = RunsOf(head) \union {m.run}
      /\ Reviews(head)' = Reviews(head)
  BY <1>1, StatusAppend, CurrentAppend, AnalysesAppend, ReviewsAppend DEF StatusAfter
<1>6. m.run.number \in 1 .. Cardinality(RunsOf(head)) + 1
  BY <1>1, <1>2 DEF Run
<1>7. Lifecycle!Analyse([number |-> m.run.number, output |-> m.run.output])
  BY <1>1, <1>3, <1>4, <1>5 DEF Lifecycle!Analyse, Current
<1>8. \E number \in 1 .. Cardinality(RunsOf(head)) + 1, output \in Output :
         Lifecycle!Analyse([number |-> number, output |-> output])
  <2> DEFINE n == m.run.number
             o == m.run.output
  <2>1. n \in 1 .. Cardinality(RunsOf(head)) + 1 /\ o \in Output
    BY <1>4, <1>6
  <2>2. Lifecycle!Analyse([number |-> n, output |-> o])
    BY <1>7
  <2> HIDE DEF n, o
  <2> QED
    BY <2>1, <2>2
<1>9. Lifecycle!Cardinality(RunsOf(head)) = Cardinality(RunsOf(head))
  BY DEF Lifecycle!Cardinality, Cardinality
<1> QED
  BY <1>8, <1>9 DEF Lifecycle!Next

LEMMA DecideMaps ==
    ASSUME JournalInv, LifecycleInv, NEW m \in Material, m.kind = "review",
           head' = Append(head, m), MayFollow(head, m), UNCHANGED packets
    PROVE  Lifecycle!Next
<1>1. head \in History /\ m \in Review /\ Status(head) = "AWAITING_REVIEW"
  BY KindOf DEF JournalInv, TypeInv, FilesType, MayFollow
<1>2. /\ Current(head) = m.run /\ LatestRun(head) = m.run
      /\ m.action = "APPROVE" => m.run.output \in Accepted
  BY <1>1, CurrentAppend DEF MayFollow, Approvable, MachineAccepts
<1>3. \A old \in Reviews(head) : old.run # Current(head)
  BY <1>1, <1>2 DEF LifecycleInv, DecidedOnce
<1>4. /\ m = [kind |-> "review", run |-> Current(head), action |-> m.action, reason |-> m.reason, at |-> m.at]
      /\ m.action \in ReviewAction /\ m.reason \in Reason /\ m.at \in Stamp
  BY <1>1, <1>2 DEF Review
<1>5. /\ Status(head)' = ResultingStatus(m.action)
      /\ Current(head)' = Current(head)
      /\ RunsOf(head)' = RunsOf(head)
      /\ Reviews(head)' = Reviews(head) \union {m}
  <2>1. m.kind # "workpaper"
    OBVIOUS
  <2> QED
    BY <1>1, <1>2, <2>1, StatusAppend, CurrentAppend, AnalysesAppend, ReviewsAppend DEF StatusAfter
<1>6. Lifecycle!Decide(m)
  BY <1>1, <1>2, <1>3, <1>5 DEF Lifecycle!Decide, Lifecycle!Rules!ResultingStatus, ResultingStatus, Current
<1> QED
  BY <1>4, <1>6 DEF Lifecycle!Next, Lifecycle!Rules!ReviewAction, ReviewAction, Current

LEMMA ExportMaps ==
    ASSUME JournalInv, LifecycleInv, NEW p \in Proc, Export(p)
    PROVE  Lifecycle!Next
<1>1. /\ head \in History /\ LegalHistory(head) /\ Status(head) = "APPROVED" /\ head' = head
      /\ packets' = packets \union {[run |-> cmd[p].run, review |-> Last(head)]}
  BY DEF JournalInv, TypeInv, FilesType, DirectoryInv, HistoryInv, Export, MayExport
<1>2. \A packet \in packets : packet.review = Last(head)
  BY DEF JournalInv, DirectoryInv, PacketsOk
<1>3. {packet.review : packet \in packets'} = {Last(head)}
  <2> DEFINE new == [run |-> cmd[p].run, review |-> Last(head)]
  <2>1. new.review = Last(head) /\ new \in packets' /\ packets' = packets \union {new}
    BY <1>1
  <2> HIDE DEF new
  <2> QED
    BY <1>2, <2>1
<1>4. Last(head) \in Reviews(head) /\ Last(head).run = LatestRun(head) /\ head # <<>>
  <2>1. head # <<>> /\ Last(head) \in Review /\ Len(head) \in DOMAIN head
    BY <1>1, ApprovedByReview, LastInMaterial
  <2>2. Len(head) \notin Analyses(head)
    BY <2>1 DEF Last, Review, Analyses
  <2> QED
    BY <1>1, <2>1, <2>2, ApprovesLatest DEF Reviews, Last
<1>5. {r \in Reviews(head) : r.run = LatestRun(head)} = {Last(head)}
  BY <1>1, <1>4 DEF LifecycleInv, DecidedOnce
<1>6. Analyses(head) # {}
  BY <1>4 DEF LifecycleInv, RunsOf
<1>7. Lifecycle!Export
  BY <1>1, <1>3, <1>5, <1>6 DEF Lifecycle!Export
<1> QED
  BY <1>7 DEF Lifecycle!Next

LEMMA PacketsMove ==
    ASSUME [Next]_vars, packets' # packets
    PROVE  \E p \in Proc : Export(p)
BY DEF Next, Work, vars, files, Issue, Interrupt, Acquire, CreateHead, CreateRecord, Read, Find, Seal,
     Refuse, Resume, RunGate, OpenAnalysis, OpenReview, Begin, WriteMaterial, WriteEvent, ReplaceHead,
     WriteReceipt, Replay

\* Every step of the journal is a step of the life cycle, or none: a transition
\* takes effect when the head is replaced, a packet when it is written.
THEOREM JournalImplements == Spec => ImplementsLifecycle
<1>1. Init => Lifecycle!Init
  <2>1. Analyses(<<>>) = {} /\ RunsOf(<<>>) = {} /\ Reviews(<<>>) = {}
    BY DEF Analyses, RunsOf, Reviews
  <2> QED
    BY <2>1 DEF Init, Lifecycle!Init, Status
<1>2. JournalInv /\ LifecycleInv /\ [Next]_vars => [Lifecycle!Next]_(Lifecycle!vars)
  <2> SUFFICES ASSUME JournalInv, LifecycleInv, [Next]_vars
               PROVE  Lifecycle!Next \/ UNCHANGED Lifecycle!vars
    OBVIOUS
  <2>1. CASE head' # head
    <3>1. PICK m \in Material : head' = Append(head, m) /\ MayFollow(head, m) /\ UNCHANGED packets
      BY <2>1, NextEntry
    <3> QED
      BY <3>1, KindOf, AnalyseMaps, DecideMaps
  <2>2. CASE packets' # packets
    BY <2>2, PacketsMove, ExportMaps
  <2>3. CASE head' = head /\ packets' = packets
    BY <2>3 DEF Lifecycle!vars
  <2> QED
    BY <2>1, <2>2, <2>3
<1> QED
  BY <1>1, <1>2, LifecycleInvariant, PTL DEF Spec, ImplementsLifecycle, Lifecycle!Spec

=============================================================================
