----------------------------- MODULE CaseStores ----------------------------
(***************************************************************************)
(* The directories of saved Cases, other than the journal's                *)
(* (src/finauditgate/core/artifacts.py write_once(), and run() and load()  *)
(* of application/cashflow_case.py, native_case.py, baseline_case.py,      *)
(* research_case.py and thesis_case.py).                                   *)
(*                                                                         *)
(* A Case is named by its content and saved file by file, each linked      *)
(* whole and then synced with its directory.  A process may be killed      *)
(* between two files or between a link and its sync, another may save the  *)
(* same Case or add the formal report, and the power may fail: what was    *)
(* linked and not synced is then there or not.  A Case directory itself is *)
(* taken to survive with the first file that is synced in it.              *)
(*                                                                         *)
(* A file is abstracted to what may differ between two processes that      *)
(* write it: the layout version of the formal report, the review.          *)
(***************************************************************************)
EXTENDS Nothing, Integers, SequencesExt, FiniteSets, TLC

CONSTANTS Writers, Versions, MaxLosses

VARIABLES
    caseKind, \* of the Case: cashflow; baseline, native; research; thesis; halted
    follows, \* whether it is a research Case that names a prior one
    files,   \* by Case and name: the content, None while there is no file
    durable, \* by Case: the names that survive a power failure
    writers, \* [job, case, todo, linked]
    given,   \* by Case: what a process returned of it
    relied,  \* files that a process found and are not durable yet: <<case, name>>
    lost,    \* whether such a file was lost
    powerLosses

storeVars == <<caseKind, follows, files, durable, writers, given, relied, lost, powerLosses>>

Stored == {"next", "prior"}
Names == {"case", "report", "process", "page", "workpaper", "check", "evidence", "html", "markdown",
          "quality-report", "quality-process", "review", "review-text", "halted-report"}

\* The files of a Case in the order of its kind, without the formal report and
\* the review of a thesis.
Parts(k) ==
    CASE k = "cashflow" -> <<"workpaper", "evidence", "case">>
      [] k \in {"baseline", "native"} -> <<"case", "report">>
      [] k = "research" -> <<"case", "workpaper", "check", "evidence">>
      [] k = "thesis" -> <<"case", "report", "process", "page">>
      [] k = "halted" -> <<"case", "halted-report">>

Same(names) == [i \in DOMAIN names |-> <<names[i], "same">>]

\* _write_research_report()
\* Bug: the Markdown, which marks the report complete, comes first.
MarkdownFirst(version) == << <<"markdown", version>>, <<"html", version>> >>
Formal(version) == << <<"html", version>>, <<"markdown", version>> >>

\* run(): the review, a quality review with its two reports before it.
Review(version, quality) ==
    LET review == <<version, quality>> IN
    (IF quality THEN << <<"quality-report", version>>, <<"quality-process", version>> >> ELSE <<>>)
    \o << <<"review", review>>, <<"review-text", review>> >>

SaveProgram(k, version, quality) ==
    Same(Parts(k)) \o IF k = "thesis" THEN Formal(version) \o Review(version, quality) ELSE <<>>

---------------------------------------------------------------------------
(* load() *)

Has(c, names) == \A n \in names : files[c][n] # None

\* _research_report_path(): no report, or the two files of one version.
FormalWhole(c) == files[c]["markdown"] # None => files[c]["html"] = files[c]["markdown"]

ReviewWhole(c) ==
    LET review == files[c]["review"] IN
    /\ review # None /\ files[c]["review-text"] = review
    /\ review[2] => files[c]["quality-report"] = review[1] /\ files[c]["quality-process"] = review[1]

KindOf(c) == IF c = "prior" THEN "research" ELSE caseKind

LoadsAlone(c) == Has(c, ToSet(Parts(KindOf(c)))) /\ (KindOf(c) = "thesis" => FormalWhole(c))
Loads(c) == LoadsAlone(c) /\ (c = "next" /\ follows => LoadsAlone("prior"))

View(c) ==
    [formal |-> IF files[c]["markdown"] # None THEN files[c]["markdown"] ELSE None,
     review |-> IF ReviewWhole(c) THEN files[c]["review"] ELSE None]

Read(c) == IF c = "next" /\ follows THEN Stored ELSE {c}
\* The files a view of the Case rests on.
Rests(c) ==
    ToSet(Parts(KindOf(c)))
    \union (IF View(c).formal # None THEN {"html", "markdown"} ELSE {})
    \union (IF View(c).review = None THEN {}
            ELSE {"review", "review-text"}
                 \union IF View(c).review[2] THEN {"quality-report", "quality-process"} ELSE {})

NotDurable(c) == {n \in Names \ durable[c] : files[c][n] # None}
Trusts(c) == {<<c, n>> : n \in Rests(c) \intersect NotDurable(c)}

---------------------------------------------------------------------------

\* A process before the first of these files.
Program(job, c, program) == [job |-> job, case |-> c, todo |-> program, linked |-> None]

StoreInit ==
    /\ caseKind \in {"cashflow", "baseline", "native", "research", "thesis", "halted"}
    /\ follows \in IF caseKind = "research" THEN BOOLEAN ELSE {FALSE}
    /\ files = [c \in Stored |-> [n \in Names |-> None]]
    /\ durable = [c \in Stored |-> {}]
    /\ writers = [w \in Writers |-> Program("none", "next", <<>>)]
    /\ given = [c \in Stored |-> None]
    /\ relied = {} /\ lost = FALSE /\ powerLosses = 0

EndWriter(w) == writers' = [writers EXCEPT ![w].job = "done"]

\* run(): a process saves a Case; a research Case that names a prior one first
\* reads that.
Save(w, c) ==
    /\ writers[w].job = "none"
    /\ c = "prior" => follows
    /\ c = "next" /\ follows => LoadsAlone("prior")
    /\ \E version \in IF KindOf(c) = "thesis" THEN Versions ELSE {None},
          quality \in IF KindOf(c) = "thesis" THEN BOOLEAN ELSE {FALSE} :
          writers' = [writers EXCEPT ![w] = Program("saving", c, SaveProgram(KindOf(c), version, quality))]
    /\ relied' = relied \union IF c = "next" /\ follows
                               THEN Trusts("prior") ELSE {}
    /\ UNCHANGED <<caseKind, follows, files, durable, given, lost, powerLosses>>

\* render_research_report(): an interrupted report is finished in its version.
Render(w) ==
    /\ caseKind = "thesis" /\ writers[w].job = "none" /\ Loads("next")
    /\ \E version \in Versions :
          LET chosen == IF files["next"]["html"] # None THEN files["next"]["html"] ELSE version
          IN writers' = [writers EXCEPT ![w] =
                IF files["next"]["markdown"] = None THEN Program("rendering", "next", Formal(chosen))
                ELSE Program("rendering", "next", <<>>)]
    /\ UNCHANGED <<caseKind, follows, files, durable, given, relied, lost, powerLosses>>

\* write_once(): an existing file is compared, a new one is linked whole.
WriteOnce(w) ==
    LET p == writers[w] IN
    /\ p.job \in {"saving", "rendering"} /\ p.linked = None /\ p.todo # <<>>
    /\ LET name == Head(p.todo)[1]
           old == files[p.case][name]
       IN \/ /\ old = None
             /\ files' = [files EXCEPT ![p.case][name] = Head(p.todo)[2]]
             /\ writers' = [writers EXCEPT ![w].linked = name]
             /\ UNCHANGED relied
          \/ /\ old # None
             /\ IF old = Head(p.todo)[2]
                THEN writers' = [writers EXCEPT ![w].todo = Tail(@)]
                ELSE EndWriter(w)
             /\ relied' = relied \union ({<<p.case, name>>} \ {<<p.case, n>> : n \in durable[p.case]})
             /\ UNCHANGED files
    /\ UNCHANGED <<caseKind, follows, durable, given, lost, powerLosses>>

\* The sync of the directory makes everything in it durable.
Sync(w) ==
    LET p == writers[w] IN
    /\ p.job \in {"saving", "rendering"} /\ p.linked # None
    /\ durable' = [durable EXCEPT ![p.case] = {n \in Names : files[p.case][n] # None}]
    /\ writers' = [writers EXCEPT ![w].linked = None, ![w].todo = Tail(@)]
    /\ relied' = {r \in relied : r[1] # p.case}
    /\ UNCHANGED <<caseKind, follows, files, given, lost, powerLosses>>

\* The process returns read_case(), or an error if the Case does not load.
Return(w) ==
    LET p == writers[w] IN
    /\ p.job \in {"saving", "rendering"} /\ p.todo = <<>>
    /\ IF Loads(p.case)
       THEN /\ given' = [given EXCEPT ![p.case] = View(p.case)]
            /\ relied' = relied \union UNION {Trusts(c) : c \in Read(p.case)}
       ELSE UNCHANGED <<given, relied>>
    /\ EndWriter(w)
    /\ UNCHANGED <<caseKind, follows, files, durable, lost, powerLosses>>

\* read_case() of any process, a Case that is being saved included.
ReadCase(c) ==
    /\ Loads(c)
    /\ given' = [given EXCEPT ![c] = View(c)]
    /\ relied' = relied \union UNION {Trusts(d) : d \in Read(c)}
    /\ UNCHANGED <<caseKind, follows, files, durable, writers, lost, powerLosses>>

KillWriter(w) ==
    /\ writers[w].job \in {"saving", "rendering"}
    /\ EndWriter(w)
    /\ UNCHANGED <<caseKind, follows, files, durable, given, relied, lost, powerLosses>>

PowerFails ==
    /\ powerLosses < MaxLosses
    /\ \E kept \in [Stored -> SUBSET UNION {NotDurable(c) : c \in Stored}] :
          /\ \A c \in Stored : kept[c] \subseteq NotDurable(c)
          /\ files' = [c \in Stored |-> [n \in Names |->
                          IF n \in durable[c] \union kept[c] THEN files[c][n] ELSE None]]
          /\ durable' = [c \in Stored |-> durable[c] \union kept[c]]
    /\ lost' = (lost \/ \E r \in relied : files'[r[1]][r[2]] = None)
    /\ writers' = [w \in Writers |-> IF writers[w].job = "none" THEN writers[w] ELSE [writers[w] EXCEPT !.job = "done"]]
    /\ powerLosses' = powerLosses + 1
    /\ relied' = {}
    /\ UNCHANGED <<caseKind, follows, given>>

StoreNext ==
    \/ \E w \in Writers : (\E c \in Stored : Save(w, c)) \/ Render(w) \/ WriteOnce(w) \/ Sync(w) \/ Return(w) \/ KillWriter(w)
    \/ (\E c \in Stored : ReadCase(c)) \/ PowerFails

StoreSpec == StoreInit /\ [][StoreNext]_storeVars

---------------------------------------------------------------------------
(* Properties. *)

\* A Case that a process returned stays: it loads, with its formal report and
\* its review, through processes killed at any file, other processes that read
\* it, save it again, finish its report or conflict with it, and power failures;
\* unless a file was lost that a process had found, and neither linked nor
\* synced, before it was durable.
CaseStays ==
    \A c \in Stored : given[c] # None /\ ~lost =>
        /\ Loads(c)
        /\ given[c].formal # None => View(c).formal = given[c].formal
        /\ given[c].review # None => View(c).review = given[c].review
=============================================================================
