---------------------------- MODULE StoreProofs -----------------------------
(***************************************************************************)
(* Theorems about the components that keep files: saved Cases, paired      *)
(* evaluations and the publications of the quant package, each for any     *)
(* number of processes, contents, kills, power failures and damages.       *)
(*                                                                         *)
(* Saved Cases.  Each file is written by what is already there or linked   *)
(* whole, so nothing that is there ever changes.  What must be shown is    *)
(* that what was returned is still there after a power failure: every file *)
(* that a view of a Case rests on is durable or is known to have been      *)
(* found before it was (Kept), and the Markdown report, which is taken as  *)
(* the mark of a whole report, never stands without the HTML it follows.   *)
(*                                                                         *)
(* Paired evaluations.  An output file that a pair needs is there before   *)
(* the pair is recorded, and nothing takes it away again: that much does   *)
(* not depend on who wrote it, so equal outputs may be shared and runners  *)
(* stopped anywhere.                                                       *)
(*                                                                         *)
(* Publications.  A file is opened for exclusive creation: a process may   *)
(* write to a file only while it is torn by that process itself, so a      *)
(* whole file is never written to.  The two kinds that are linked or       *)
(* renamed into place need more: the pending file of a forecast has one    *)
(* owner, from its opening until its rename.                               *)
(***************************************************************************)
EXTENDS CaseStores, PairedRuns, RunStores, SequenceTheorems, TLAPS

-----------------------------------------------------------------------------
(* Saved Cases. *)

CaseKinds == {"cashflow", "baseline", "native", "research", "thesis", "halted"}

\* What a file of a Case holds, apart from None.
Held == Versions \union {"same"} \union (Versions \X BOOLEAN)

\* A file that a writer has to do: its name and what it holds.
Entry == {e \in Names \X Held : e[1] = "review" => e[2] \in Versions \X BOOLEAN}

Writer == [job : {"none", "saving", "rendering", "done"}, case : Stored,
           todo : Seq(Entry), linked : Names \union {None}]

CaseTypes ==
    /\ caseKind \in CaseKinds /\ follows \in BOOLEAN
    /\ files \in [Stored -> [Names -> Held \union {None}]]
    /\ \A c \in Stored : files[c]["review"] \in (Versions \X BOOLEAN) \union {None}
    /\ durable \in [Stored -> SUBSET Names]
    /\ relied \in SUBSET (Stored \X Names)
    /\ lost \in BOOLEAN
    /\ writers \in [Writers -> Writer]

\* The file is there, and it is durable or a process found it.
Kept(c, n) == files[c][n] # None /\ (n \in durable[c] \/ <<c, n>> \in relied)

DurableThere == \A c \in Stored : \A n \in durable[c] : files[c][n] # None

Active(w) == writers[w].job \in {"saving", "rendering"}

\* A file that a writer linked and did not sync is the first of those it has to do.
LinkedThere ==
    \A w \in Writers : Active(w) /\ writers[w].linked # None =>
        /\ writers[w].todo # <<>>
        /\ writers[w].linked = Head(writers[w].todo)[1]
        /\ files[writers[w].case][writers[w].linked] = Head(writers[w].todo)[2]

\* The Markdown report comes right after the HTML of its version, in what a
\* writer has to do or in what was done.
After(c, todo) ==
    \A i \in DOMAIN todo : todo[i][1] = "markdown" =>
        IF i = 1 THEN files[c]["html"] = todo[1][2] /\ Kept(c, "html")
        ELSE todo[i - 1] = <<"html", todo[i][2]>>
FormalOrder == \A w \in Writers : Active(w) => After(writers[w].case, writers[w].todo)

FormalKept ==
    \A c \in Stored : files[c]["markdown"] # None =>
        files[c]["html"] = files[c]["markdown"] /\ Kept(c, "html")

\* What a view of a Case rests on is kept.
ReviewFiles(r) == {"review", "review-text"} \union IF r[2] THEN {"quality-report", "quality-process"} ELSE {}
GivenKept ==
    \A c \in Stored : given[c] # None =>
        /\ \A n \in ToSet(Parts(KindOf(c))) : Kept(c, n)
        /\ c = "next" /\ follows => \A n \in ToSet(Parts("research")) : Kept("prior", n)
        /\ given[c].formal # None => files[c]["markdown"] = given[c].formal /\ Kept(c, "markdown")
        /\ given[c].review # None =>
              /\ files[c]["review"] = given[c].review /\ ReviewWhole(c)
              /\ \A n \in ReviewFiles(given[c].review) : Kept(c, n)

CaseInv ==
    /\ CaseTypes /\ DurableThere /\ LinkedThere /\ FormalOrder
    /\ ~lost => FormalKept /\ GivenKept

\* None is not what a file holds.
NoneUnheld == None \notin Held

\* A step that takes no file away and nothing from what is kept.
Grown ==
    \A c \in Stored, n \in Names :
        /\ files[c][n] # None => files'[c][n] = files[c][n]
        /\ Kept(c, n) => Kept(c, n)'

\* A step that takes nothing from what is kept.
KeptStays == \A c \in Stored, n \in Names : Kept(c, n) => Kept(c, n)' /\ files'[c][n] = files[c][n]

\* What is kept, and the order of the formal report, after a step.
KeptNext(c, n) == files'[c][n] # None /\ (n \in durable'[c] \/ <<c, n>> \in relied')
AfterNext(c, todo) ==
    \A i \in DOMAIN todo : todo[i][1] = "markdown" =>
        IF i = 1 THEN files'[c]["html"] = todo[1][2] /\ KeptNext(c, "html")
        ELSE todo[i - 1] = <<"html", todo[i][2]>>

\* What was returned of a Case is kept after a step.
ViewNext(c, view) ==
    /\ \A n \in ToSet(Parts(KindOf(c))) : Kept(c, n)'
    /\ c = "next" /\ follows => \A n \in ToSet(Parts("research")) : Kept("prior", n)'
    /\ view.formal # None => files'[c]["markdown"] = view.formal /\ Kept(c, "markdown")'
    /\ view.review # None =>
          /\ files'[c]["review"] = view.review /\ ReviewWhole(c)'
          /\ \A n \in ReviewFiles(view.review) : Kept(c, n)'

----------------------------------------------------------------------------
\* The files of a kind are names of files.
LEMMA PartsNames ==
    ASSUME NEW k \in CaseKinds
    PROVE  Parts(k) \in Seq(Names) /\ ToSet(Parts(k)) \subseteq Names
<1>1. Parts(k) \in Seq(Names)
  <2>1. CASE k = "cashflow"
    <3>1. Parts(k) = <<"workpaper", "evidence", "case">>
      BY <2>1 DEF Parts
    <3> QED
      BY <3>1 DEF Names
  <2>2. CASE k \in {"baseline", "native"}
    <3>1. Parts(k) = <<"case", "report">>
      BY <2>2 DEF Parts
    <3> QED
      BY <3>1 DEF Names
  <2>3. CASE k = "research"
    <3>1. Parts(k) = <<"case", "workpaper", "check", "evidence">>
      BY <2>3 DEF Parts
    <3> QED
      BY <3>1 DEF Names
  <2>4. CASE k = "thesis"
    <3>1. Parts(k) = <<"case", "report", "process", "page">>
      BY <2>4 DEF Parts
    <3> QED
      BY <3>1 DEF Names
  <2>5. CASE k = "halted"
    <3>1. Parts(k) = <<"case", "halted-report">>
      BY <2>5 DEF Parts
    <3> QED
      BY <3>1 DEF Names
  <2> QED
    BY <2>1, <2>2, <2>3, <2>4, <2>5 DEF CaseKinds
<1> QED
  BY <1>1 DEF ToSet

\* The kind of a Case is one of the kinds.
LEMMA KindIsKind ==
    ASSUME CaseTypes, NEW c \in Stored PROVE KindOf(c) \in CaseKinds
  BY DEF CaseTypes, KindOf, CaseKinds

\* The files that a review rests on are names of files.
LEMMA ReviewNames == \A r : ReviewFiles(r) \subseteq Names
  BY DEF ReviewFiles, Names

\* Files that only grow keep what is kept.
LEMMA GrownKeeps == Grown => KeptStays
  BY DEF Grown, KeptStays, Kept

\* What a view rests on stays kept.
LEMMA GivenStays ==
    ASSUME CaseTypes, GivenKept, KeptStays, NEW c \in Stored, given[c] # None
    PROVE  ViewNext(c, given[c])
<1>1. /\ \A n \in ToSet(Parts(KindOf(c))) : Kept(c, n)
      /\ c = "next" /\ follows => \A n \in ToSet(Parts("research")) : Kept("prior", n)
      /\ given[c].formal # None => files[c]["markdown"] = given[c].formal /\ Kept(c, "markdown")
      /\ given[c].review # None =>
            /\ files[c]["review"] = given[c].review /\ ReviewWhole(c)
            /\ \A n \in ReviewFiles(given[c].review) : Kept(c, n)
  BY DEF GivenKept
<1>2. ToSet(Parts(KindOf(c))) \subseteq Names /\ ToSet(Parts("research")) \subseteq Names
  BY KindIsKind, PartsNames DEF CaseKinds
<1>3. \A d \in Stored, n \in Names : Kept(d, n) => Kept(d, n)' /\ files'[d][n] = files[d][n]
  BY DEF KeptStays
<1>4. \A n \in ToSet(Parts(KindOf(c))) : Kept(c, n)'
  BY <1>1, <1>2, <1>3
<1>5. c = "next" /\ follows => \A n \in ToSet(Parts("research")) : Kept("prior", n)'
  BY <1>1, <1>2, <1>3 DEF Stored
<1>6. given[c].formal # None => files'[c]["markdown"] = given[c].formal /\ Kept(c, "markdown")'
  BY <1>1, <1>3 DEF Names
<1>7. ASSUME given[c].review # None
      PROVE  /\ files'[c]["review"] = given[c].review /\ ReviewWhole(c)'
             /\ \A n \in ReviewFiles(given[c].review) : Kept(c, n)'
  <2> DEFINE r == given[c].review
  <2>1. files[c]["review"] = r /\ ReviewWhole(c) /\ \A n \in ReviewFiles(r) : Kept(c, n)
    BY <1>1, <1>7
  <2>2. \A n \in ReviewFiles(r) : Kept(c, n)' /\ files'[c][n] = files[c][n]
    BY <1>3, <2>1, ReviewNames
  <2>3. "review" \in ReviewFiles(r) /\ "review-text" \in ReviewFiles(r)
    BY DEF ReviewFiles
  <2>4. r[2] => "quality-report" \in ReviewFiles(r) /\ "quality-process" \in ReviewFiles(r)
    BY DEF ReviewFiles
  <2>5. /\ files'[c]["review"] = r /\ files'[c]["review-text"] = files[c]["review-text"]
        /\ r[2] => /\ files'[c]["quality-report"] = files[c]["quality-report"]
                   /\ files'[c]["quality-process"] = files[c]["quality-process"]
    BY <2>1, <2>2, <2>3, <2>4
  <2>6. ReviewWhole(c)'
    BY <2>1, <2>5 DEF ReviewWhole
  <2> QED
    BY <2>2, <2>5, <2>6
<1> QED
  BY <1>4, <1>5, <1>6, <1>7, Zenon DEF ViewNext

\* The invariant of what was returned, after a step.
LEMMA GivenNext ==
    ASSUME UNCHANGED <<caseKind, follows>>,
           \A c \in Stored : given'[c] # None => ViewNext(c, given'[c])
    PROVE  GivenKept'
<1>1. \A c : KindOf(c)' = KindOf(c)
  BY DEF KindOf
<1> QED
  BY <1>1 DEF ViewNext, GivenKept, Kept, ReviewWhole

\* What was returned stays kept if nothing is returned.
LEMMA GivenUnchanged ==
    ASSUME CaseTypes, GivenKept, KeptStays, UNCHANGED <<given, caseKind, follows>>
    PROVE  GivenKept'
<1>1. \A c \in Stored : given[c] # None => ViewNext(c, given[c])
  BY GivenStays
<1>2. \A c \in Stored : given'[c] # None => ViewNext(c, given'[c])
  BY <1>1
<1> QED
  BY <1>2, GivenNext

\* The order of the formal report stays while files only grow.
LEMMA AfterStays ==
    ASSUME NEW c \in Stored, NEW todo, After(c, todo), Grown
    PROVE  AfterNext(c, todo)
<1>1. Kept(c, "html") => Kept(c, "html")' /\ files'[c]["html"] = files[c]["html"]
  BY DEF Grown, Kept, Names
<1> QED
  BY <1>1 DEF After, AfterNext, Kept, KeptNext

\* The order of the formal report in a program shorter by its first file.
LEMMA AfterTail ==
    ASSUME NEW c \in Stored, NEW todo \in Seq(Entry), todo # <<>>, After(c, todo),
           Head(todo)[1] = "html" => files'[c]["html"] = Head(todo)[2] /\ Kept(c, "html")'
    PROVE  AfterNext(c, Tail(todo))
<1> DEFINE t == Tail(todo)
<1>1. Len(t) = Len(todo) - 1 /\ \A i \in 1 .. Len(t) : t[i] = todo[i + 1] /\ i \in DOMAIN todo /\ i + 1 \in DOMAIN todo
  OBVIOUS
<1>2. DOMAIN t = 1 .. Len(t) /\ Len(t) \in Nat
  OBVIOUS
<1> HIDE DEF t
<1> SUFFICES ASSUME NEW i \in 1 .. Len(t), t[i][1] = "markdown"
             PROVE  IF i = 1 THEN files'[c]["html"] = t[1][2] /\ Kept(c, "html")'
                    ELSE t[i - 1] = <<"html", t[i][2]>>
  BY <1>2 DEF AfterNext, Kept, KeptNext, t
<1>3. todo[i] = <<"html", t[i][2]>>
  <2>1. PICK j \in DOMAIN todo : j = i + 1
    BY <1>1
  <2>2. t[i] = todo[j] /\ j # 1 /\ j - 1 = i
    BY <1>1, <2>1
  <2>3. todo[j][1] = "markdown"
    BY <2>2
  <2>4. todo[j - 1] = <<"html", todo[j][2]>>
    BY <2>1, <2>2, <2>3 DEF After
  <2> QED
    BY <2>2, <2>4
<1>4. CASE i = 1
  <2>1. Head(todo) = <<"html", t[1][2]>>
    BY <1>3, <1>4
  <2> QED
    BY <1>4, <2>1
<1>5. CASE i # 1
  <2>1. i - 1 \in 1 .. Len(t) /\ t[i - 1] = todo[i]
    BY <1>1, <1>2, <1>5
  <2> QED
    BY <1>3, <1>5, <2>1
<1> QED
  BY <1>4, <1>5

----------------------------------------------------------------------------
\* A program in which the Markdown comes right after the HTML of its version.
InOrder(todo) ==
    \A i \in DOMAIN todo : todo[i][1] = "markdown" => i > 1 /\ todo[i - 1] = <<"html", todo[i][2]>>

SavePrograms == {todo \in Seq(Entry) : InOrder(todo)}

\* Such a program is in order at any Case.
LEMMA InOrderAfter ==
    ASSUME NEW todo \in SavePrograms, NEW c PROVE todo \in Seq(Entry) /\ After(c, todo)
  BY DEF SavePrograms, InOrder, After

\* One program after another.
LEMMA InOrderConcat ==
    ASSUME NEW a \in SavePrograms, NEW b \in SavePrograms PROVE a \o b \in SavePrograms
<1> DEFINE s == a \o b
<1>1. a \in Seq(Entry) /\ b \in Seq(Entry) /\ InOrder(a) /\ InOrder(b)
  BY DEF SavePrograms
<1>2. s \in Seq(Entry) /\ Len(s) = Len(a) + Len(b) /\ Len(a) \in Nat /\ Len(b) \in Nat
  BY <1>1
<1>3. /\ \A i \in 1 .. Len(a) : s[i] = a[i]
      /\ \A i \in 1 .. Len(b) : s[Len(a) + i] = b[i]
  <2>1. \A i \in 1 .. Len(a) + Len(b) : s[i] = IF i <= Len(a) THEN a[i] ELSE b[i - Len(a)]
    BY <1>1, ConcatProperties
  <2> HIDE DEF s
  <2>2. ASSUME NEW i \in 1 .. Len(b) PROVE s[Len(a) + i] = b[i]
    <3>1. Len(a) + i \in 1 .. Len(a) + Len(b) /\ ~(Len(a) + i <= Len(a)) /\ (Len(a) + i) - Len(a) = i
      BY <1>2
    <3>2. s[Len(a) + i] = b[(Len(a) + i) - Len(a)]
      BY <2>1, <3>1
    <3> QED
      BY <3>1, <3>2
  <2> QED
    BY <1>2, <2>1, <2>2
<1>4. DOMAIN a = 1 .. Len(a) /\ DOMAIN b = 1 .. Len(b) /\ DOMAIN s = 1 .. Len(s)
  BY <1>1, <1>2
<1> HIDE DEF s
<1>5. ASSUME NEW i \in 1 .. Len(s), s[i][1] = "markdown"
      PROVE  i > 1 /\ s[i - 1] = <<"html", s[i][2]>>
  <2>1. CASE i \in 1 .. Len(a)
    <3>1. s[i] = a[i] /\ a[i][1] = "markdown"
      BY <1>3, <1>5, <2>1
    <3>2. i > 1 /\ a[i - 1] = <<"html", a[i][2]>>
      BY <1>1, <1>4, <2>1, <3>1 DEF InOrder
    <3>3. i - 1 \in 1 .. Len(a)
      BY <1>2, <2>1, <3>2
    <3>4. s[i - 1] = a[i - 1]
      BY <1>3, <3>3
    <3> QED
      BY <3>1, <3>2, <3>4
  <2>2. CASE i \notin 1 .. Len(a)
    <3>1. PICK j \in 1 .. Len(b) : i = Len(a) + j
      <4>1. i - Len(a) \in 1 .. Len(b) /\ i = Len(a) + (i - Len(a))
        BY <1>2, <2>2
      <4> QED
        BY <4>1
    <3>2. s[i] = b[j] /\ b[j][1] = "markdown"
      BY <1>3, <1>5, <3>1
    <3>3. j > 1 /\ b[j - 1] = <<"html", b[j][2]>>
      BY <1>1, <1>4, <3>2 DEF InOrder
    <3>4. j > 1
      BY <3>3
    <3>5. j - 1 \in 1 .. Len(b) /\ i - 1 = Len(a) + (j - 1) /\ i > 1
      BY <1>2, <3>1, <3>4
    <3>6. s[i - 1] = b[j - 1]
      BY <1>3, <3>5
    <3> QED
      BY <3>2, <3>3, <3>5, <3>6
  <2> QED
    BY <2>1, <2>2
<1> QED
  BY <1>2, <1>4, <1>5 DEF SavePrograms, InOrder, s

\* A program of the same content for every name.
LEMMA SameInOrder ==
    ASSUME NEW k \in CaseKinds PROVE Same(Parts(k)) \in SavePrograms
<1> DEFINE names == Parts(k)  todo == Same(Parts(k))
<1>1. names \in Seq(Names)
  BY PartsNames
<1>2. todo = [i \in 1 .. Len(names) |-> <<names[i], "same">>] /\ Len(names) \in Nat
  BY <1>1 DEF Same
<1>3. \A i \in 1 .. Len(names) : names[i] # "markdown" /\ names[i] # "review"
  <2>1. CASE k = "cashflow"
    <3>1. names = <<"workpaper", "evidence", "case">>
      BY <2>1 DEF Parts
    <3> QED
      BY <3>1
  <2>2. CASE k \in {"baseline", "native"}
    <3>1. names = <<"case", "report">>
      BY <2>2 DEF Parts
    <3> QED
      BY <3>1
  <2>3. CASE k = "research"
    <3>1. names = <<"case", "workpaper", "check", "evidence">>
      BY <2>3 DEF Parts
    <3> QED
      BY <3>1
  <2>4. CASE k = "thesis"
    <3>1. names = <<"case", "report", "process", "page">>
      BY <2>4 DEF Parts
    <3> QED
      BY <3>1
  <2>5. CASE k = "halted"
    <3>1. names = <<"case", "halted-report">>
      BY <2>5 DEF Parts
    <3> QED
      BY <3>1
  <2> QED
    BY <2>1, <2>2, <2>3, <2>4, <2>5 DEF CaseKinds
<1> HIDE DEF names, todo
<1>4. todo \in Seq(Entry)
  <2>1. \A i \in 1 .. Len(names) : <<names[i], "same">> \in Entry
    BY <1>1, <1>3 DEF Held, Entry
  <2>2. todo \in [1 .. Len(names) -> Entry]
    BY <1>2, <2>1
  <2> QED
    BY <1>2, <2>2, SeqDef
<1>5. InOrder(todo)
  BY <1>2, <1>3 DEF InOrder
<1> QED
  BY <1>4, <1>5 DEF SavePrograms, todo

\* The formal report.
LEMMA FormalInOrder ==
    ASSUME NEW version \in Held PROVE Formal(version) \in SavePrograms
<1>1. Formal(version) = << <<"html", version>>, <<"markdown", version>> >>
  BY DEF Formal
<1>2. Formal(version) \in Seq(Entry)
  BY <1>1 DEF Names, Entry
<1>3. InOrder(Formal(version))
  BY <1>1 DEF InOrder
<1> QED
  BY <1>2, <1>3 DEF SavePrograms

\* Nothing, and the review.
LEMMA ReviewInOrder ==
    ASSUME NEW version \in Versions, NEW quality \in BOOLEAN
    PROVE  <<>> \in SavePrograms /\ Review(version, quality) \in SavePrograms
<1>1. <<>> \in SavePrograms
  BY DEF SavePrograms, InOrder
<1>2. PICK r : r = <<version, quality>>
  OBVIOUS
<1>3. r \in Held /\ version \in Held
  BY <1>2 DEF Held
<1>4. << <<"review", r>>, <<"review-text", r>> >> \in SavePrograms
  <2>1. << <<"review", r>>, <<"review-text", r>> >> \in Seq(Entry)
    BY <1>2, <1>3 DEF Names, Entry
  <2> QED
    BY <2>1 DEF SavePrograms, InOrder
<1>5. << <<"quality-report", version>>, <<"quality-process", version>> >> \in SavePrograms
  <2>1. << <<"quality-report", version>>, <<"quality-process", version>> >> \in Seq(Entry)
    BY <1>3 DEF Names, Entry
  <2> QED
    BY <2>1 DEF SavePrograms, InOrder
<1>6. (IF quality THEN << <<"quality-report", version>>, <<"quality-process", version>> >> ELSE <<>>)
      \o << <<"review", r>>, <<"review-text", r>> >> \in SavePrograms
  BY <1>1, <1>4, <1>5, InOrderConcat
<1> QED
  BY <1>1, <1>2, <1>6, Zenon DEF Review

\* What saves a Case is in order.
LEMMA SaveInOrder ==
    ASSUME NEW k \in CaseKinds, NEW version, NEW quality,
           k = "thesis" => version \in Versions /\ quality \in BOOLEAN
    PROVE  SaveProgram(k, version, quality) \in SavePrograms
<1>1. Same(Parts(k)) \in SavePrograms
  BY SameInOrder
<1>2. CASE k = "thesis"
  <2>1. version \in Held
    BY <1>2 DEF Held
  <2>2. PICK f \in SavePrograms, r \in SavePrograms : f = Formal(version) /\ r = Review(version, quality)
    BY <1>2, <2>1, FormalInOrder, ReviewInOrder
  <2>3. SaveProgram(k, version, quality) = Same(Parts(k)) \o (f \o r)
    BY <1>2, <2>2, Zenon DEF SaveProgram
  <2>4. f \o r \in SavePrograms
    BY InOrderConcat
  <2> QED
    BY <1>1, <2>3, <2>4, InOrderConcat
<1>3. CASE k # "thesis"
  <2>1. SaveProgram(k, version, quality) = Same(Parts(k)) \o <<>>
    BY <1>3, Zenon DEF SaveProgram
  <2>2. <<>> \in SavePrograms
    BY DEF SavePrograms, InOrder
  <2> QED
    BY <1>1, <2>1, <2>2, InOrderConcat
<1> QED
  BY <1>2, <1>3

----------------------------------------------------------------------------
\* Initially no file is there and no writer is at work.
LEMMA StoreInitial == StoreInit => CaseInv
<1> SUFFICES ASSUME StoreInit PROVE CaseInv
  OBVIOUS
<1>1. CaseTypes
  <2>1. Program("none", "next", <<>>) \in Writer
    BY DEF Program, Writer, Stored
  <2>2. caseKind \in CaseKinds /\ follows \in BOOLEAN /\ lost \in BOOLEAN
    BY DEF StoreInit, CaseKinds
  <2>3. files \in [Stored -> [Names -> Held \union {None}]]
    BY DEF StoreInit
  <2>4. \A c \in Stored : files[c]["review"] = None
    BY DEF StoreInit, Names
  <2> QED
    BY <2>1, <2>2, <2>3, <2>4 DEF StoreInit, CaseTypes
<1>2. DurableThere
  BY DEF StoreInit, DurableThere
<1>3. \A w \in Writers : ~Active(w)
  BY DEF StoreInit, Active, Program
<1>4. LinkedThere /\ FormalOrder
  BY <1>3 DEF LinkedThere, FormalOrder
<1>5. FormalKept
  BY DEF StoreInit, FormalKept, Names
<1>6. GivenKept
  BY DEF StoreInit, GivenKept
<1> QED
  BY <1>1, <1>2, <1>4, <1>5, <1>6 DEF CaseInv

\* A file that a writer has to do.
LEMMA EntryPair ==
    ASSUME NoneUnheld, NEW e \in Entry
    PROVE  /\ e[1] \in Names /\ e[2] \in Held /\ e = <<e[1], e[2]>> /\ e[2] # None
           /\ e[1] = "review" => e[2] \in Versions \X BOOLEAN
  BY DEF NoneUnheld, Entry

\* The writers after a step of one of them.
LEMMA WriterSteps ==
    ASSUME NoneUnheld, CaseTypes, LinkedThere, FormalOrder, Grown,
           NEW w \in Writers, NEW p \in Writer, writers' = [writers EXCEPT ![w] = p],
           p.job \in {"saving", "rendering"} => AfterNext(p.case, p.todo),
           p.job \in {"saving", "rendering"} /\ p.linked # None =>
               /\ p.todo # <<>> /\ p.linked = Head(p.todo)[1]
               /\ files'[p.case][p.linked] = Head(p.todo)[2]
    PROVE  writers' \in [Writers -> Writer] /\ LinkedThere' /\ FormalOrder'
<1>1. writers \in [Writers -> Writer] /\ writers' \in [Writers -> Writer]
  BY DEF CaseTypes
<1>2. writers'[w] = p /\ \A v \in Writers : v # w => writers'[v] = writers[v]
  BY <1>1
<1>3. LinkedThere'
  <2> SUFFICES ASSUME NEW v \in Writers, writers'[v].job \in {"saving", "rendering"}, writers'[v].linked # None
               PROVE  /\ writers'[v].todo # <<>>
                      /\ writers'[v].linked = Head(writers'[v].todo)[1]
                      /\ files'[writers'[v].case][writers'[v].linked] = Head(writers'[v].todo)[2]
    BY DEF LinkedThere, Active
  <2>1. CASE v = w
    BY <1>2, <2>1
  <2>2. CASE v # w
    <3>1. PICK q \in Writer : q = writers[v] /\ q = writers'[v]
      BY <1>1, <1>2, <2>2
    <3>2. /\ q.todo # <<>> /\ q.linked = Head(q.todo)[1]
          /\ files[q.case][q.linked] = Head(q.todo)[2]
      BY <3>1 DEF LinkedThere, Active
    <3>3. q.case \in Stored /\ q.linked \in Names
      BY <3>1 DEF Writer
    <3>4. Head(q.todo) \in Entry
      BY <3>2 DEF Writer
    <3>5. files[q.case][q.linked] # None
      BY <3>2, <3>4, EntryPair
    <3>6. files'[q.case][q.linked] = files[q.case][q.linked]
      BY <3>3, <3>5 DEF Grown
    <3> QED
      BY <3>1, <3>2, <3>6
  <2> QED
    BY <2>1, <2>2
<1>4. FormalOrder'
  <2> SUFFICES ASSUME NEW v \in Writers, writers'[v].job \in {"saving", "rendering"}
               PROVE  AfterNext(writers'[v].case, writers'[v].todo)
    BY DEF FormalOrder, Active, After, AfterNext, Kept, KeptNext
  <2>1. CASE v = w
    BY <1>2, <2>1
  <2>2. CASE v # w
    <3>1. PICK q \in Writer : q = writers[v] /\ q = writers'[v]
      BY <1>1, <1>2, <2>2
    <3>2. After(q.case, q.todo) /\ q.case \in Stored
      BY <3>1 DEF FormalOrder, Active, Writer
    <3>3. AfterNext(q.case, q.todo)
      BY <3>2, AfterStays
    <3> QED
      BY <3>1, <3>3
  <2> QED
    BY <2>1, <2>2
<1> QED
  BY <1>1, <1>3, <1>4

\* The formal report stays whole while no Markdown report is added.
LEMMA FormalStays ==
    ASSUME FormalKept, Grown, \A c \in Stored : files'[c]["markdown"] = files[c]["markdown"]
    PROVE  FormalKept'
<1> SUFFICES ASSUME NEW c \in Stored, files'[c]["markdown"] # None
             PROVE  files'[c]["html"] = files'[c]["markdown"] /\ Kept(c, "html")'
  BY DEF FormalKept
<1>1. files[c]["html"] = files[c]["markdown"] /\ Kept(c, "html")
  BY DEF FormalKept
<1>2. Kept(c, "html")' /\ files'[c]["html"] = files[c]["html"]
  BY <1>1 DEF Grown, Kept, Names
<1> QED
  BY <1>1, <1>2

\* The files stay, and more of them may have been found.
LEMMA FoundGrows ==
    ASSUME CaseTypes, UNCHANGED <<files, durable>>, relied \subseteq relied' PROVE Grown
  BY DEF Grown, Kept

\* A writer that is killed or stops on a conflict, or returns.
LEMMA EndKeeps ==
    ASSUME NoneUnheld, CaseTypes, LinkedThere, FormalOrder, Grown, NEW w \in Writers, EndWriter(w)
    PROVE  writers' \in [Writers -> Writer] /\ LinkedThere' /\ FormalOrder'
<1>1. PICK p : p = [writers[w] EXCEPT !.job = "done"]
  OBVIOUS
<1>2. writers[w] \in Writer
  BY DEF CaseTypes
<1>3. p \in Writer /\ p.job = "done"
  BY <1>1, <1>2 DEF Writer
<1>4. writers' = [writers EXCEPT ![w] = p]
  BY <1>1 DEF EndWriter
<1> QED
  BY <1>3, <1>4, WriterSteps

\* The parts of the invariant after a step that adds no Markdown report and
\* returns nothing.
LEMMA QuietKeeps ==
    ASSUME CaseInv, Grown, CaseTypes', DurableThere', LinkedThere', FormalOrder',
           UNCHANGED <<caseKind, follows, given, lost>>,
           \A c \in Stored : files'[c]["markdown"] = files[c]["markdown"]
    PROVE  CaseInv'
<1>1. ~lost' => FormalKept' /\ GivenKept'
  BY FormalStays, GivenUnchanged, GrownKeeps DEF CaseInv
<1> QED
  BY <1>1, Zenon DEF CaseInv

\* A process begins to save a Case.
LEMMA SaveKeeps ==
    ASSUME NoneUnheld, CaseInv, NEW w \in Writers, NEW c \in Stored, Save(w, c)
    PROVE  CaseInv'
<1> USE DEF CaseInv
<1>1. /\ UNCHANGED <<caseKind, follows, files, durable, given, lost>>
      /\ relied' = relied \union IF c = "next" /\ follows THEN Trusts("prior") ELSE {}
  BY DEF Save
<1>2. relied' \in SUBSET (Stored \X Names) /\ relied \subseteq relied'
  BY <1>1 DEF Trusts, NotDurable, CaseTypes, Stored
<1>3. Grown
  BY <1>1, <1>2, FoundGrows
<1>4. PICK version \in IF KindOf(c) = "thesis" THEN Versions ELSE {None},
           quality \in IF KindOf(c) = "thesis" THEN BOOLEAN ELSE {FALSE} :
           writers' = [writers EXCEPT ![w] = Program("saving", c, SaveProgram(KindOf(c), version, quality))]
  BY DEF Save
<1>5. PICK todo \in SavePrograms : todo = SaveProgram(KindOf(c), version, quality)
  BY <1>4, KindIsKind, SaveInOrder
<1>6. todo \in Seq(Entry) /\ AfterNext(c, todo)
  <2>1. todo \in Seq(Entry) /\ After(c, todo)
    BY InOrderAfter
  <2> QED
    BY <1>3, <2>1, AfterStays
<1>7. PICK p : p = Program("saving", c, todo)
  OBVIOUS
<1>8. p \in Writer /\ p.case = c /\ p.todo = todo /\ p.linked = None
  BY <1>6, <1>7 DEF Program, Writer
<1>9. writers' = [writers EXCEPT ![w] = p]
  BY <1>4, <1>5, <1>7, Zenon
<1>10. writers' \in [Writers -> Writer] /\ LinkedThere' /\ FormalOrder'
  BY <1>3, <1>6, <1>8, <1>9, WriterSteps
<1>11. CaseTypes'
  BY <1>1, <1>2, <1>10 DEF CaseTypes
<1>12. DurableThere'
  BY <1>1 DEF DurableThere
<1>13. \A d \in Stored : files'[d]["markdown"] = files[d]["markdown"]
  BY <1>1
<1> QED
  BY <1>1, <1>3, <1>10, <1>11, <1>12, <1>13, QuietKeeps

\* A process begins to finish the formal report.
LEMMA RenderKeeps ==
    ASSUME NoneUnheld, CaseInv, NEW w \in Writers, Render(w)
    PROVE  CaseInv'
<1> USE DEF CaseInv
<1>1. UNCHANGED <<caseKind, follows, files, durable, given, relied, lost>>
  BY DEF Render
<1>2. Grown
  BY <1>1, FoundGrows
<1>3. PICK version \in Versions :
         LET chosen == IF files["next"]["html"] # None THEN files["next"]["html"] ELSE version
         IN writers' = [writers EXCEPT ![w] =
                IF files["next"]["markdown"] = None THEN Program("rendering", "next", Formal(chosen))
                ELSE Program("rendering", "next", <<>>)]
  BY DEF Render
<1>4. PICK chosen :
         /\ chosen = IF files["next"]["html"] # None THEN files["next"]["html"] ELSE version
         /\ writers' = [writers EXCEPT ![w] =
                IF files["next"]["markdown"] = None THEN Program("rendering", "next", Formal(chosen))
                ELSE Program("rendering", "next", <<>>)]
  BY <1>3
<1>5. chosen \in Held
  <2>1. files["next"]["html"] \in Held \union {None}
    BY DEF CaseTypes, Stored, Names
  <2> QED
    BY <1>4, <2>1 DEF Held
<1>6. PICK todo \in SavePrograms : todo = IF files["next"]["markdown"] = None THEN Formal(chosen) ELSE <<>>
  <2>1. Formal(chosen) \in SavePrograms
    BY <1>5, FormalInOrder
  <2>2. <<>> \in SavePrograms
    BY DEF SavePrograms, InOrder
  <2> QED
    BY <2>1, <2>2
<1>7. PICK p : p = Program("rendering", "next", todo)
  OBVIOUS
<1>8. todo \in Seq(Entry) /\ AfterNext("next", todo)
  <2>1. todo \in Seq(Entry) /\ After("next", todo)
    BY InOrderAfter
  <2> QED
    BY <1>2, <2>1, AfterStays DEF Stored
<1>9. p \in Writer /\ p.case = "next" /\ p.todo = todo /\ p.linked = None
  BY <1>7, <1>8 DEF Program, Writer, Stored
<1>10. writers' = [writers EXCEPT ![w] = p]
  BY <1>4, <1>6, <1>7, Zenon
<1>11. writers' \in [Writers -> Writer] /\ LinkedThere' /\ FormalOrder'
  BY <1>2, <1>8, <1>9, <1>10, WriterSteps
<1>12. CaseTypes'
  BY <1>1, <1>11 DEF CaseTypes
<1>13. DurableThere'
  BY <1>1 DEF DurableThere
<1>14. \A d \in Stored : files'[d]["markdown"] = files[d]["markdown"]
  BY <1>1
<1> QED
  BY <1>1, <1>2, <1>11, <1>12, <1>13, <1>14, QuietKeeps

\* A file is linked.
LEMMA LinkKeeps ==
    ASSUME NoneUnheld, CaseInv, NEW w \in Writers, NEW c \in Stored, NEW e \in Entry,
           Active(w), writers[w].case = c, writers[w].todo # <<>>, Head(writers[w].todo) = e,
           files[c][e[1]] = None,
           files' = [files EXCEPT ![c][e[1]] = e[2]],
           writers' = [writers EXCEPT ![w].linked = e[1]],
           UNCHANGED <<caseKind, follows, durable, relied, given, lost>>
    PROVE  CaseInv'
<1> USE DEF CaseInv
<1>1. PICK n \in Names, x \in Held : n = e[1] /\ x = e[2] /\ e = <<n, x>> /\ x # None
  BY EntryPair
<1>2. /\ files' \in [Stored -> [Names -> Held \union {None}]]
      /\ files'[c][n] = x /\ files[c][n] = None
      /\ \A d \in Stored, m \in Names : d # c \/ m # n => files'[d][m] = files[d][m]
  BY <1>1 DEF CaseTypes
<1>3. Grown
  BY <1>2 DEF Grown, Kept
<1>4. PICK p : p = [writers[w] EXCEPT !.linked = n]
  OBVIOUS
<1>5. writers[w] \in Writer
  BY DEF CaseTypes
<1>6. p \in Writer /\ p.case = c /\ p.todo = writers[w].todo /\ p.linked = n /\ p.job = writers[w].job
  BY <1>4, <1>5 DEF Writer
<1>7. writers' = [writers EXCEPT ![w] = p]
  BY <1>1, <1>4
<1>8. After(c, p.todo)
  BY <1>6 DEF FormalOrder
<1>9. AfterNext(p.case, p.todo)
  BY <1>3, <1>6, <1>8, AfterStays
<1>10. p.todo # <<>> /\ p.linked = Head(p.todo)[1] /\ files'[p.case][p.linked] = Head(p.todo)[2]
  BY <1>1, <1>2, <1>6
<1>11. writers' \in [Writers -> Writer] /\ LinkedThere' /\ FormalOrder'
  BY <1>3, <1>6, <1>7, <1>9, <1>10, WriterSteps
<1>12. CaseTypes'
  <2>1. \A d \in Stored : files'[d]["review"] \in (Versions \X BOOLEAN) \union {None}
    <3>1. n = "review" => x \in Versions \X BOOLEAN
      BY <1>1, EntryPair
    <3>2. \A d \in Stored : files[d]["review"] \in (Versions \X BOOLEAN) \union {None}
      BY DEF CaseTypes
    <3> QED
      BY <1>2, <3>1, <3>2 DEF Names
  <2> QED
    BY <1>2, <1>11, <2>1 DEF CaseTypes
<1>13. DurableThere'
  BY <1>1, <1>2 DEF DurableThere, CaseTypes
<1>14. CASE n # "markdown"
  <2>1. \A d \in Stored : files'[d]["markdown"] = files[d]["markdown"]
    BY <1>2, <1>14 DEF Names
  <2> QED
    BY <1>3, <1>11, <1>12, <1>13, <2>1, QuietKeeps
<1>15. CASE n = "markdown"
  <2>1. files[c]["html"] = x /\ Kept(c, "html")
    <3>1. 1 \in DOMAIN p.todo /\ p.todo[1] = e
      BY <1>6 DEF Writer
    <3> QED
      BY <1>1, <1>8, <1>15, <3>1 DEF After
  <2>2. ASSUME ~lost' PROVE FormalKept'
    <3> SUFFICES ASSUME NEW d \in Stored, files'[d]["markdown"] # None
                 PROVE  files'[d]["html"] = files'[d]["markdown"] /\ Kept(d, "html")'
      BY DEF FormalKept
    <3>1. files'[d]["html"] = files[d]["html"]
      BY <1>2, <1>15 DEF Names
    <3>2. CASE d = c
      BY <1>2, <1>3, <1>15, <2>1, <3>1, <3>2 DEF Grown, Names
    <3>3. CASE d # c
      <4>1. files[d]["markdown"] = files'[d]["markdown"]
        BY <1>2, <3>3 DEF Names
      <4>2. files[d]["html"] = files[d]["markdown"] /\ Kept(d, "html")
        BY <2>2, <4>1 DEF FormalKept
      <4> QED
        BY <1>3, <3>1, <4>1, <4>2 DEF Grown, Names
    <3> QED
      BY <3>2, <3>3
  <2>3. ~lost' => GivenKept'
    BY <1>3, GivenUnchanged, GrownKeeps
  <2> QED
    BY <1>11, <1>12, <1>13, <2>2, <2>3, Zenon
<1> QED
  BY <1>14, <1>15

\* An equal file is left.
LEMMA EqualKeeps ==
    ASSUME NoneUnheld, CaseInv, NEW w \in Writers, NEW c \in Stored, NEW e \in Entry,
           Active(w), writers[w].case = c, writers[w].todo # <<>>, Head(writers[w].todo) = e,
           writers[w].linked = None, files[c][e[1]] = e[2],
           writers' = [writers EXCEPT ![w].todo = Tail(@)],
           relied' = relied \union ({<<c, e[1]>>} \ {<<c, n>> : n \in durable[c]}),
           UNCHANGED <<caseKind, follows, files, durable, given, lost>>
    PROVE  CaseInv'
<1> USE DEF CaseInv
<1>1. PICK n \in Names, x \in Held : n = e[1] /\ x = e[2] /\ e = <<n, x>> /\ x # None
  BY EntryPair
<1>2. /\ relied' \in SUBSET (Stored \X Names) /\ relied \subseteq relied'
      /\ n \in durable[c] \/ <<c, n>> \in relied'
  BY <1>1 DEF CaseTypes
<1>3. Grown
  BY <1>2, FoundGrows
<1>4. writers[w] \in Writer
  BY DEF CaseTypes
<1>5. PICK t \in Seq(Entry) : t = Tail(writers[w].todo)
  <2>1. PICK todo \in Seq(Entry) : todo = writers[w].todo
    BY <1>4 DEF Writer
  <2>2. Tail(todo) \in Seq(Entry)
    BY <2>1
  <2> QED
    BY <2>1, <2>2
<1>6. PICK p : p = [writers[w] EXCEPT !.todo = t]
  OBVIOUS
<1>7. p \in Writer /\ p.case = c /\ p.todo = t /\ p.linked = None
  BY <1>5, <1>4, <1>6 DEF Writer
<1>8. writers' = [writers EXCEPT ![w] = p]
  BY <1>5, <1>6
<1>9. After(c, writers[w].todo) /\ writers[w].todo \in Seq(Entry)
  BY <1>4 DEF FormalOrder, Writer
<1>10. Head(writers[w].todo)[1] = "html" => files'[c]["html"] = Head(writers[w].todo)[2] /\ Kept(c, "html")'
  BY <1>1, <1>2 DEF Kept
<1>11. AfterNext(p.case, p.todo)
  BY <1>5, <1>7, <1>9, <1>10, AfterTail
<1>12. writers' \in [Writers -> Writer] /\ LinkedThere' /\ FormalOrder'
  BY <1>3, <1>7, <1>8, <1>11, WriterSteps
<1>13. CaseTypes'
  BY <1>2, <1>12 DEF CaseTypes
<1>14. DurableThere'
  BY DEF DurableThere
<1>15. \A d \in Stored : files'[d]["markdown"] = files[d]["markdown"]
  OBVIOUS
<1> QED
  BY <1>3, <1>12, <1>13, <1>14, <1>15, QuietKeeps

\* write_once() keeps the invariant, whatever it finds.
LEMMA WriteOnceKeeps ==
    ASSUME NoneUnheld, CaseInv, NEW w \in Writers, WriteOnce(w)
    PROVE  CaseInv'
<1>1. writers[w] \in Writer /\ Active(w) /\ writers[w].todo # <<>> /\ writers[w].linked = None
  BY DEF WriteOnce, CaseInv, CaseTypes, Active
<1>2. PICK c \in Stored, e \in Entry : c = writers[w].case /\ e = Head(writers[w].todo)
  BY <1>1 DEF Writer
<1>3. UNCHANGED <<caseKind, follows, durable, given, lost>>
  BY DEF WriteOnce
<1>4. CASE /\ files[c][e[1]] = None
           /\ files' = [files EXCEPT ![c][e[1]] = e[2]]
           /\ writers' = [writers EXCEPT ![w].linked = e[1]]
           /\ UNCHANGED relied
  BY <1>1, <1>2, <1>3, <1>4, LinkKeeps
<1>5. CASE /\ files[c][e[1]] = e[2]
           /\ writers' = [writers EXCEPT ![w].todo = Tail(@)]
           /\ relied' = relied \union ({<<c, e[1]>>} \ {<<c, n>> : n \in durable[c]})
           /\ UNCHANGED files
  BY <1>1, <1>2, <1>3, <1>5, EqualKeeps
<1>6. CASE /\ EndWriter(w)
           /\ relied' = relied \union ({<<c, e[1]>>} \ {<<c, n>> : n \in durable[c]})
           /\ UNCHANGED files
  <2>1. relied' \in SUBSET (Stored \X Names) /\ relied \subseteq relied'
    BY <1>2, <1>6, EntryPair DEF CaseInv, CaseTypes
  <2>2. Grown
    BY <1>3, <1>6, <2>1, FoundGrows DEF CaseInv
  <2>3. writers' \in [Writers -> Writer] /\ LinkedThere' /\ FormalOrder'
    BY <1>6, <2>2, EndKeeps DEF CaseInv
  <2>4. CaseTypes'
    BY <1>3, <1>6, <2>1, <2>3 DEF CaseInv, CaseTypes
  <2>5. DurableThere'
    BY <1>3, <1>6 DEF CaseInv, DurableThere
  <2>6. \A d \in Stored : files'[d]["markdown"] = files[d]["markdown"]
    BY <1>6
  <2> QED
    BY <1>3, <2>2, <2>3, <2>4, <2>5, <2>6, QuietKeeps
<1> QED
  BY <1>2, <1>4, <1>5, <1>6, Zenon DEF WriteOnce

\* A directory is synced.
LEMMA SyncKeeps ==
    ASSUME NoneUnheld, CaseInv, NEW w \in Writers, Sync(w)
    PROVE  CaseInv'
<1> USE DEF CaseInv
<1>1. writers[w] \in Writer /\ Active(w) /\ writers[w].linked # None
  BY DEF Sync, CaseTypes, Active
<1>2. PICK c \in Stored : c = writers[w].case
  BY <1>1 DEF Writer
<1>3. /\ durable' = [durable EXCEPT ![c] = {n \in Names : files[c][n] # None}]
      /\ writers' = [writers EXCEPT ![w].linked = None, ![w].todo = Tail(@)]
      /\ relied' = {r \in relied : r[1] # c}
      /\ UNCHANGED <<caseKind, follows, files, given, lost>>
  BY <1>2 DEF Sync
<1>4. /\ durable' \in [Stored -> SUBSET Names] /\ relied' \in SUBSET (Stored \X Names)
      /\ durable'[c] = {n \in Names : files[c][n] # None}
      /\ \A d \in Stored : d # c => durable'[d] = durable[d]
  BY <1>3 DEF CaseTypes
<1>5. Grown
  <2> SUFFICES ASSUME NEW d \in Stored, NEW n \in Names, Kept(d, n) PROVE Kept(d, n)'
    BY <1>3 DEF Grown
  <2>1. CASE d = c
    BY <1>3, <1>4, <2>1 DEF Kept
  <2>2. CASE d # c
    BY <1>3, <1>4, <2>2 DEF Kept
  <2> QED
    BY <2>1, <2>2
<1>6. /\ writers[w].todo # <<>> /\ writers[w].linked = Head(writers[w].todo)[1]
      /\ files[c][writers[w].linked] = Head(writers[w].todo)[2]
  BY <1>1, <1>2 DEF LinkedThere
<1>7. Head(writers[w].todo) \in Entry /\ Head(writers[w].todo)[2] # None
  <2>1. writers[w].todo \in Seq(Entry) /\ writers[w].todo # <<>>
    BY <1>1, <1>6 DEF Writer
  <2>2. Head(writers[w].todo) \in Entry
    BY <2>1
  <2> QED
    BY <2>2, EntryPair
<1>8. Head(writers[w].todo)[1] = "html" => files'[c]["html"] = Head(writers[w].todo)[2] /\ Kept(c, "html")'
  BY <1>3, <1>4, <1>6, <1>7 DEF Kept, Names
<1>9. PICK t \in Seq(Entry) : t = Tail(writers[w].todo)
  <2>0. writers[w].todo \in Seq(Entry)
    BY <1>1 DEF Writer
  <2>1. writers[w].todo # <<>>
    BY <1>6
  <2>2. Tail(writers[w].todo) \in Seq(Entry)
    BY <2>0, <2>1
  <2> QED
    BY <2>2
<1>10. PICK p : p = [writers[w] EXCEPT !.linked = None, !.todo = t]
  OBVIOUS
<1>11. p \in Writer /\ p.case = c /\ p.todo = t /\ p.linked = None
  BY <1>1, <1>2, <1>10 DEF Writer
<1>12. writers' = [writers EXCEPT ![w] = p]
  BY <1>3, <1>9, <1>10 DEF CaseTypes
<1>13. After(c, writers[w].todo) /\ writers[w].todo \in Seq(Entry)
  BY <1>1, <1>2 DEF FormalOrder, Writer
<1>14. AfterNext(p.case, p.todo)
  BY <1>6, <1>8, <1>9, <1>11, <1>13, AfterTail
<1>15. writers' \in [Writers -> Writer] /\ LinkedThere' /\ FormalOrder'
  BY <1>5, <1>11, <1>12, <1>14, WriterSteps
<1>16. CaseTypes'
  BY <1>3, <1>4, <1>15 DEF CaseTypes
<1>17. DurableThere'
  BY <1>3, <1>4 DEF DurableThere
<1>18. \A d \in Stored : files'[d]["markdown"] = files[d]["markdown"]
  BY <1>3
<1> QED
  BY <1>3, <1>5, <1>15, <1>16, <1>17, <1>18, QuietKeeps

----------------------------------------------------------------------------
\* A process finds the files of a Case that a view of it rests on.
Finds(c) == relied \union UNION {Trusts(d) : d \in Read(c)} \subseteq relied'

\* What it found is kept.
LEMMA FoundKept ==
    ASSUME CaseTypes, NEW c \in Stored, Finds(c), UNCHANGED <<files, durable>>,
           NEW d \in Read(c), NEW n \in Names, n \in Rests(d), files[d][n] # None
    PROVE  Kept(d, n)'
<1>1. CASE n \in durable[d]
  BY <1>1 DEF Kept
<1>2. CASE n \notin durable[d]
  <2>1. <<d, n>> \in Trusts(d)
    BY <1>2 DEF Trusts, NotDurable
  <2>2. <<d, n>> \in relied'
    BY <2>1 DEF Finds
  <2> QED
    BY <2>2 DEF Kept
<1> QED
  BY <1>1, <1>2

\* The files that a Case rests on.
LEMMA RestsOn ==
    ASSUME CaseTypes, NEW c \in Stored
    PROVE  /\ ToSet(Parts(KindOf(c))) \subseteq Rests(c) /\ ToSet(Parts(KindOf(c))) \subseteq Names
           /\ View(c).formal # None =>
                 /\ "markdown" \in Rests(c) /\ View(c).formal = files[c]["markdown"]
                 /\ files[c]["markdown"] # None
           /\ View(c).review # None =>
                 /\ ReviewFiles(View(c).review) \subseteq Rests(c) /\ ReviewWhole(c)
                 /\ View(c).review = files[c]["review"]
<1>1. ToSet(Parts(KindOf(c))) \subseteq Rests(c)
  BY DEF Rests
<1>2. ToSet(Parts(KindOf(c))) \subseteq Names
  BY KindIsKind, PartsNames
<1>3. View(c).formal = IF files[c]["markdown"] # None THEN files[c]["markdown"] ELSE None
  BY DEF View
<1>4. View(c).review = IF ReviewWhole(c) THEN files[c]["review"] ELSE None
  BY DEF View
<1>5. View(c).formal # None => "markdown" \in Rests(c)
  BY DEF Rests
<1>6. View(c).review # None => ReviewFiles(View(c).review) \subseteq Rests(c)
  BY DEF Rests, ReviewFiles
<1> QED
  BY <1>1, <1>2, <1>3, <1>4, <1>5, <1>6

\* What a Case that loads is returned as is kept.
LEMMA ViewKept ==
    ASSUME NoneUnheld, CaseTypes, NEW c \in Stored, Loads(c), Finds(c), UNCHANGED <<files, durable>>
    PROVE  ViewNext(c, View(c))
<1>1. c \in Read(c)
  BY DEF Read
<1>2. \A n \in ToSet(Parts(KindOf(c))) : Kept(c, n)'
  <2> SUFFICES ASSUME NEW n \in ToSet(Parts(KindOf(c))) PROVE Kept(c, n)'
    OBVIOUS
  <2>1. files[c][n] # None
    BY DEF Loads, LoadsAlone, Has
  <2>2. n \in Names /\ n \in Rests(c)
    BY RestsOn
  <2> QED
    BY <1>1, <2>1, <2>2, FoundKept
<1>3. ASSUME c = "next", follows PROVE \A n \in ToSet(Parts("research")) : Kept("prior", n)'
  <2>1. "prior" \in Read(c) /\ "prior" \in Stored /\ KindOf("prior") = "research"
    BY <1>3 DEF Read, Stored, KindOf
  <2> SUFFICES ASSUME NEW n \in ToSet(Parts("research")) PROVE Kept("prior", n)'
    OBVIOUS
  <2>2. files["prior"][n] # None
    BY <1>3, <2>1 DEF Loads, LoadsAlone, Has
  <2>3. n \in Names /\ n \in Rests("prior")
    BY <2>1, RestsOn
  <2> QED
    BY <2>1, <2>2, <2>3, FoundKept
<1>4. ASSUME View(c).formal # None PROVE files'[c]["markdown"] = View(c).formal /\ Kept(c, "markdown")'
  <2>1. "markdown" \in Rests(c) /\ View(c).formal = files[c]["markdown"] /\ files[c]["markdown"] # None
    BY <1>4, RestsOn
  <2>2. Kept(c, "markdown")'
    BY <1>1, <2>1, FoundKept DEF Names
  <2> QED
    BY <2>1, <2>2
<1>5. ASSUME View(c).review # None
      PROVE  /\ files'[c]["review"] = View(c).review /\ ReviewWhole(c)'
             /\ \A n \in ReviewFiles(View(c).review) : Kept(c, n)'
  <2> DEFINE r == View(c).review
  <2>1. ReviewFiles(r) \subseteq Rests(c) /\ ReviewWhole(c) /\ r = files[c]["review"]
    BY <1>5, RestsOn
  <2> HIDE DEF r
  <2>2. ReviewWhole(c)'
    BY <2>1 DEF ReviewWhole
  <2>3. ASSUME NEW n \in ReviewFiles(r) PROVE Kept(c, n)'
    <3>1. files[c][n] # None
      <4>1. /\ r # None /\ files[c]["review-text"] = r /\ files[c]["review"] = r
            /\ r[2] => files[c]["quality-report"] = r[1] /\ files[c]["quality-process"] = r[1]
        BY <2>1 DEF ReviewWhole
      <4>2. CASE n \in {"review", "review-text"}
        BY <4>1, <4>2
      <4>3. CASE n \in {"quality-report", "quality-process"}
        <5>1. r[2]
          BY <2>3, <4>3 DEF ReviewFiles
        <5>2. r \in Versions \X BOOLEAN
          BY <4>1 DEF CaseTypes
        <5>3. r[1] # None
          BY <5>2 DEF NoneUnheld, Held
        <5> QED
          BY <4>1, <4>3, <5>1, <5>3
      <4> QED
        BY <2>3, <4>2, <4>3 DEF ReviewFiles
    <3>2. n \in Names /\ n \in Rests(c)
      BY <2>1, <2>3, ReviewNames
    <3> QED
      BY <1>1, <3>1, <3>2, FoundKept
  <2>4. \A n \in ReviewFiles(r) : Kept(c, n)'
    BY <2>3
  <2> QED
    BY <2>1, <2>2, <2>4 DEF r
<1> QED
  BY <1>2, <1>3, <1>4, <1>5, Zenon DEF ViewNext

\* The invariant when a process returns a Case that loads.
LEMMA GivesKeeps ==
    ASSUME NoneUnheld, CaseInv, NEW c \in Stored, Loads(c), Finds(c),
           UNCHANGED <<caseKind, follows, files, durable, lost>>,
           given' = [given EXCEPT ![c] = View(c)],
           Grown, CaseTypes', LinkedThere', FormalOrder'
    PROVE  CaseInv'
<1>1. CaseTypes /\ DurableThere
  BY DEF CaseInv
<1>2. ViewNext(c, View(c))
  BY <1>1, ViewKept
<1>3. DurableThere'
  BY <1>1 DEF DurableThere
<1>4. ASSUME ~lost' PROVE FormalKept' /\ GivenKept'
  <2>1. FormalKept /\ GivenKept
    BY <1>4 DEF CaseInv
  <2>2. FormalKept'
    BY <2>1, FormalStays
  <2>3. ASSUME NEW d \in Stored, given'[d] # None PROVE ViewNext(d, given'[d])
    <3>1. CASE c \in DOMAIN given /\ d = c
      <4>1. given'[d] = View(c)
        BY <3>1
      <4> QED
        BY <1>2, <3>1, <4>1
    <3>2. CASE ~(c \in DOMAIN given /\ d = c)
      <4>1. given'[d] = given[d]
        BY <3>2
      <4> QED
        BY <1>1, <2>1, <2>3, <4>1, GivenStays, GrownKeeps
    <3> QED
      BY <3>1, <3>2
  <2>4. GivenKept'
    BY <2>3, GivenNext
  <2> QED
    BY <2>2, <2>4
<1> QED
  BY <1>3, <1>4, Zenon DEF CaseInv

\* What a process found is files of Cases.
LEMMA FoundTypes ==
    ASSUME CaseTypes, NEW c \in Stored, relied' = relied \union UNION {Trusts(d) : d \in Read(c)}
    PROVE  relied' \in SUBSET (Stored \X Names) /\ Finds(c) /\ relied \subseteq relied'
<1>1. Read(c) \subseteq Stored
  BY DEF Read
<1>2. \A d \in Stored : Trusts(d) \subseteq Stored \X Names
  BY DEF Trusts, NotDurable
<1> QED
  BY <1>1, <1>2 DEF Finds, CaseTypes

\* A process reads a Case.
LEMMA ReadCaseKeeps ==
    ASSUME NoneUnheld, CaseInv, NEW c \in Stored, ReadCase(c)
    PROVE  CaseInv'
<1>1. /\ UNCHANGED <<caseKind, follows, files, durable, lost, writers>>
      /\ relied' = relied \union UNION {Trusts(d) : d \in Read(c)}
      /\ Loads(c) /\ given' = [given EXCEPT ![c] = View(c)]
  BY DEF ReadCase
<1>2. CaseTypes /\ LinkedThere /\ FormalOrder
  BY DEF CaseInv
<1>3. relied' \in SUBSET (Stored \X Names) /\ Finds(c) /\ relied \subseteq relied'
  BY <1>1, <1>2, FoundTypes
<1>4. Grown
  BY <1>1, <1>2, <1>3, FoundGrows
<1>5. CaseTypes'
  BY <1>1, <1>2, <1>3 DEF CaseTypes
<1>6. LinkedThere'
  BY <1>1, <1>2 DEF LinkedThere, Active
<1>7. FormalOrder'
  <2> SUFFICES ASSUME NEW w \in Writers, Active(w)'
               PROVE  AfterNext(writers[w].case, writers[w].todo)
    BY <1>1 DEF FormalOrder, After, AfterNext, Kept, KeptNext
  <2>1. After(writers[w].case, writers[w].todo)
    BY <1>1, <1>2 DEF FormalOrder, Active
  <2>2. writers[w].case \in Stored
    BY <1>2 DEF CaseTypes, Writer
  <2> QED
    BY <1>4, <2>1, <2>2, AfterStays
<1> QED
  BY <1>1, <1>3, <1>4, <1>5, <1>6, <1>7, GivesKeeps

\* A process returns what it saved, or an error.
LEMMA ReturnKeeps ==
    ASSUME NoneUnheld, CaseInv, NEW w \in Writers, Return(w)
    PROVE  CaseInv'
<1>1. CaseTypes /\ LinkedThere /\ FormalOrder /\ DurableThere
  BY DEF CaseInv
<1>2. PICK c \in Stored : c = writers[w].case
  BY <1>1 DEF CaseTypes, Writer
<1>3. UNCHANGED <<caseKind, follows, files, durable, lost>> /\ EndWriter(w)
  BY DEF Return
<1>4. CASE Loads(c)
  <2>1. /\ given' = [given EXCEPT ![c] = View(c)]
        /\ relied' = relied \union UNION {Trusts(d) : d \in Read(c)}
    BY <1>2, <1>4 DEF Return
  <2>2. relied' \in SUBSET (Stored \X Names) /\ Finds(c) /\ relied \subseteq relied'
    BY <1>1, <2>1, FoundTypes
  <2>3. Grown
    BY <1>1, <1>3, <2>2, FoundGrows
  <2>4. writers' \in [Writers -> Writer] /\ LinkedThere' /\ FormalOrder'
    BY <1>1, <1>3, <2>3, EndKeeps
  <2>5. CaseTypes'
    BY <1>1, <1>3, <2>2, <2>4 DEF CaseTypes
  <2> QED
    BY <1>3, <1>4, <2>1, <2>2, <2>3, <2>4, <2>5, GivesKeeps
<1>5. CASE ~Loads(c)
  <2>1. UNCHANGED <<given, relied>>
    BY <1>2, <1>5 DEF Return
  <2>2. Grown
    BY <1>1, <1>3, <2>1, FoundGrows
  <2>3. writers' \in [Writers -> Writer] /\ LinkedThere' /\ FormalOrder'
    BY <1>1, <1>3, <2>2, EndKeeps
  <2>4. CaseTypes' /\ DurableThere'
    BY <1>1, <1>3, <2>1, <2>3 DEF CaseTypes, DurableThere
  <2>5. \A d \in Stored : files'[d]["markdown"] = files[d]["markdown"]
    BY <1>3
  <2> QED
    BY <1>3, <2>1, <2>2, <2>3, <2>4, <2>5, QuietKeeps
<1> QED
  BY <1>4, <1>5

\* A writer is killed.
LEMMA KillKeeps ==
    ASSUME NoneUnheld, CaseInv, NEW w \in Writers, KillWriter(w)
    PROVE  CaseInv'
<1>1. CaseTypes /\ LinkedThere /\ FormalOrder /\ DurableThere
  BY DEF CaseInv
<1>2. UNCHANGED <<caseKind, follows, files, durable, given, relied, lost>> /\ EndWriter(w)
  BY DEF KillWriter
<1>3. Grown
  BY <1>1, <1>2, FoundGrows
<1>4. writers' \in [Writers -> Writer] /\ LinkedThere' /\ FormalOrder'
  BY <1>1, <1>2, <1>3, EndKeeps
<1>5. CaseTypes' /\ DurableThere'
  BY <1>1, <1>2, <1>4 DEF CaseTypes, DurableThere
<1>6. \A d \in Stored : files'[d]["markdown"] = files[d]["markdown"]
  BY <1>2
<1> QED
  BY <1>2, <1>3, <1>4, <1>5, <1>6, QuietKeeps

\* The power fails: what was durable stays, what was found stays unless it is
\* recorded as lost, and no process is left.
LEMMA PowerKeeps ==
    ASSUME CaseInv, PowerFails
    PROVE  CaseInv'
<1>1. CaseTypes /\ DurableThere
  BY DEF CaseInv
<1>2. PICK kept \in [Stored -> SUBSET UNION {NotDurable(c) : c \in Stored}] :
          /\ \A c \in Stored : kept[c] \subseteq NotDurable(c)
          /\ files' = [c \in Stored |-> [n \in Names |->
                          IF n \in durable[c] \union kept[c] THEN files[c][n] ELSE None]]
          /\ durable' = [c \in Stored |-> durable[c] \union kept[c]]
  BY Zenon DEF PowerFails
<1>3. /\ lost' = (lost \/ \E r \in relied : files'[r[1]][r[2]] = None)
      /\ writers' = [w \in Writers |-> IF writers[w].job = "none" THEN writers[w]
                                       ELSE [writers[w] EXCEPT !.job = "done"]]
      /\ relied' = {} /\ UNCHANGED <<caseKind, follows, given>>
  BY DEF PowerFails
<1>4. /\ \A c \in Stored, n \in Names : files'[c][n] = IF n \in durable'[c] THEN files[c][n] ELSE None
      /\ \A c \in Stored : durable[c] \subseteq durable'[c]
      /\ \A c \in Stored : durable'[c] \subseteq Names
      /\ \A c \in Stored : \A n \in durable'[c] : files[c][n] # None
  <2>1. \A c \in Stored : NotDurable(c) \subseteq Names /\ \A n \in NotDurable(c) : files[c][n] # None
    BY DEF NotDurable
  <2>2. \A c \in Stored : durable[c] \subseteq Names
    BY <1>1 DEF CaseTypes
  <2>3. \A c \in Stored : durable'[c] = durable[c] \union kept[c]
    BY <1>2
  <2>4. \A c \in Stored, n \in Names : files'[c][n] = IF n \in durable[c] \union kept[c] THEN files[c][n] ELSE None
    BY <1>2
  <2> QED
    BY <1>1, <1>2, <2>1, <2>2, <2>3, <2>4 DEF DurableThere
<1>5. CaseTypes'
  <2>1. files' \in [Stored -> [Names -> Held \union {None}]]
    <3>1. files \in [Stored -> [Names -> Held \union {None}]]
      BY <1>1 DEF CaseTypes
    <3>2. \A c \in Stored, n \in Names :
              (IF n \in durable[c] \union kept[c] THEN files[c][n] ELSE None) \in Held \union {None}
      BY <3>1
    <3> QED
      BY <1>2, <3>2
  <2>2. \A c \in Stored : files'[c]["review"] \in (Versions \X BOOLEAN) \union {None}
    BY <1>1, <1>4 DEF CaseTypes, Names
  <2>3. durable' \in [Stored -> SUBSET Names]
    <3>1. DOMAIN durable' = Stored
      BY <1>2
    <3>2. \A c \in Stored : durable[c] \union kept[c] \in SUBSET Names
      <4>1. \A c \in Stored : durable'[c] = durable[c] \union kept[c]
        BY <1>2
      <4> QED
        BY <1>4, <4>1
    <3> QED
      BY <1>2, <3>2
  <2>4. writers' \in [Writers -> Writer]
    <3>1. \A w \in Writers : writers[w] \in Writer /\ [writers[w] EXCEPT !.job = "done"] \in Writer
      BY <1>1 DEF CaseTypes, Writer
    <3> QED
      BY <1>3, <3>1
  <2>5. lost' \in BOOLEAN
    BY <1>3
  <2> QED
    BY <1>1, <1>3, <2>1, <2>2, <2>3, <2>4, <2>5 DEF CaseTypes
<1>6. DurableThere'
  BY <1>4 DEF DurableThere
<1>7. LinkedThere' /\ FormalOrder'
  <2>1. \A w \in Writers : ~Active(w)'
    <3> SUFFICES ASSUME NEW w \in Writers PROVE writers'[w].job \notin {"saving", "rendering"}
      BY DEF Active
    <3>1. writers[w] \in Writer
      BY <1>1 DEF CaseTypes
    <3>2. writers'[w] = IF writers[w].job = "none" THEN writers[w] ELSE [writers[w] EXCEPT !.job = "done"]
      BY <1>3
    <3> QED
      BY <3>1, <3>2 DEF Writer
  <2> QED
    BY <2>1 DEF LinkedThere, FormalOrder
<1>8. ASSUME ~lost' PROVE FormalKept' /\ GivenKept'
  <2>1. FormalKept /\ GivenKept
    BY <1>3, <1>8 DEF CaseInv
  <2>2. KeptStays
    <3> SUFFICES ASSUME NEW c \in Stored, NEW n \in Names, Kept(c, n)
                 PROVE  Kept(c, n)' /\ files'[c][n] = files[c][n]
      BY DEF KeptStays
    <3>1. n \in durable'[c]
      <4>1. CASE n \in durable[c]
        BY <1>4, <4>1
      <4>2. CASE <<c, n>> \in relied
        <5>1. files'[c][n] # None
          BY <1>3, <1>8, <4>2
        <5> QED
          BY <1>4, <5>1
      <4> QED
        BY <4>1, <4>2 DEF Kept
    <3> QED
      BY <1>4, <3>1 DEF Kept
  <2>3. FormalKept'
    <3> SUFFICES ASSUME NEW c \in Stored, files'[c]["markdown"] # None
                 PROVE  files'[c]["html"] = files'[c]["markdown"] /\ Kept(c, "html")'
      BY DEF FormalKept
    <3>1. files'[c]["markdown"] = files[c]["markdown"] /\ files[c]["markdown"] # None
      BY <1>4 DEF Names
    <3>2. files[c]["html"] = files[c]["markdown"] /\ Kept(c, "html")
      BY <2>1, <3>1 DEF FormalKept
    <3> QED
      BY <2>2, <3>1, <3>2 DEF KeptStays, Names
  <2>4. GivenKept'
    BY <1>1, <1>3, <2>1, <2>2, GivenUnchanged
  <2> QED
    BY <2>3, <2>4
<1> QED
  BY <1>5, <1>6, <1>7, <1>8, Zenon DEF CaseInv

\* Every step keeps the invariant.
LEMMA NextKeeps ==
    ASSUME NoneUnheld, CaseInv, StoreNext PROVE CaseInv'
<1>1. ASSUME NEW w \in Writers, NEW c \in Stored, Save(w, c) PROVE CaseInv'
  BY <1>1, SaveKeeps
<1>2. ASSUME NEW w \in Writers, Render(w) PROVE CaseInv'
  BY <1>2, RenderKeeps
<1>3. ASSUME NEW w \in Writers, WriteOnce(w) PROVE CaseInv'
  BY <1>3, WriteOnceKeeps
<1>4. ASSUME NEW w \in Writers, Sync(w) PROVE CaseInv'
  BY <1>4, SyncKeeps
<1>5. ASSUME NEW w \in Writers, Return(w) PROVE CaseInv'
  BY <1>5, ReturnKeeps
<1>6. ASSUME NEW w \in Writers, KillWriter(w) PROVE CaseInv'
  BY <1>6, KillKeeps
<1>7. ASSUME NEW c \in Stored, ReadCase(c) PROVE CaseInv'
  BY <1>7, ReadCaseKeeps
<1>8. ASSUME PowerFails PROVE CaseInv'
  BY <1>8, PowerKeeps
<1> QED
  BY <1>1, <1>2, <1>3, <1>4, <1>5, <1>6, <1>7, <1>8 DEF StoreNext

\* So does a step that changes nothing.
LEMMA StutterKeeps ==
    ASSUME CaseInv, UNCHANGED storeVars PROVE CaseInv'
<1> USE DEF storeVars
<1>1. CaseTypes' /\ DurableThere' /\ LinkedThere' /\ FormalOrder'
  BY DEF CaseInv, CaseTypes, DurableThere, LinkedThere, FormalOrder, Active, After, Kept
<1>2. \A c : KindOf(c)' = KindOf(c) /\ ReviewWhole(c)' = ReviewWhole(c)
  BY DEF KindOf, ReviewWhole
<1>3. (FormalKept /\ GivenKept) => FormalKept' /\ GivenKept'
  BY <1>2 DEF FormalKept, GivenKept, Kept
<1> QED
  BY <1>1, <1>3 DEF CaseInv

\* What is kept of a Case that was returned makes it load as it was returned.
LEMMA KeptLoads == CaseInv => CaseStays
<1> SUFFICES ASSUME CaseInv, NEW c \in Stored, given[c] # None, ~lost
             PROVE  /\ Loads(c)
                    /\ given[c].formal # None => View(c).formal = given[c].formal
                    /\ given[c].review # None => View(c).review = given[c].review
  BY DEF CaseStays
<1>1. FormalKept /\ GivenKept
  BY DEF CaseInv
<1>2. \A d \in Stored : FormalWhole(d)
  BY <1>1 DEF FormalKept, FormalWhole
<1>3. LoadsAlone(c)
  <2>1. Has(c, ToSet(Parts(KindOf(c))))
    BY <1>1 DEF GivenKept, Kept, Has
  <2> QED
    BY <1>2, <2>1 DEF LoadsAlone
<1>4. ASSUME c = "next", follows PROVE LoadsAlone("prior")
  <2>1. KindOf("prior") = "research" /\ "prior" \in Stored
    BY DEF KindOf, Stored
  <2>2. \A n \in ToSet(Parts("research")) : Kept("prior", n)
    BY <1>1, <1>4 DEF GivenKept
  <2>3. Has("prior", ToSet(Parts("research")))
    BY <2>2 DEF Kept, Has
  <2> QED
    BY <2>1, <2>3 DEF LoadsAlone
<1>5. Loads(c)
  BY <1>3, <1>4 DEF Loads
<1>6. given[c].formal # None => View(c).formal = given[c].formal
  BY <1>1 DEF GivenKept, Kept, View
<1>7. given[c].review # None => View(c).review = given[c].review
  BY <1>1 DEF GivenKept, View
<1> QED
  BY <1>5, <1>6, <1>7

----------------------------------------------------------------------------
(* Theorems. *)

\* The directories of saved Cases keep the invariant, for any number of
\* writers, versions and power failures.
THEOREM CasesKept ==
    ASSUME NoneUnheld PROVE StoreSpec => []CaseInv
<1>1. StoreInit => CaseInv
  BY StoreInitial
<1>2. CaseInv /\ [StoreNext]_storeVars => CaseInv'
  BY NextKeeps, StutterKeeps
<1> QED
  BY <1>1, <1>2, PTL DEF StoreSpec

\* A Case that a process returned stays, with its formal report and its review
\* (run() and load() over write_once()).
THEOREM CaseAlwaysStays ==
    ASSUME NoneUnheld PROVE StoreSpec => []CaseStays
<1>1. CaseInv => CaseStays
  BY KeptLoads
<1> QED
  BY <1>1, CasesKept, PTL

-----------------------------------------------------------------------------
(* Paired evaluations. *)

Pair == [task : Tasks, baseline : Outputs, gated : Outputs]

PairedTodo == {<<>>, <<"record">>, <<"gated", "record">>, Files}

\* A file of an output was written; it may have been damaged since.
Written(arm, output) == outputs[arm][output] \in {"whole", "damaged"}

PairedTypes ==
    /\ outputs \in [Arms -> [Outputs -> {None, "whole", "damaged"}]]
    /\ records \subseteq Pair
    /\ runners \in [Runners -> [pair : Pair \union {None}, todo : PairedTodo]]
    /\ \A r \in Runners : runners[r].todo # <<>> => runners[r].pair \in Pair

\* What a runner has behind it is written, and so is what a record binds.
BehindWritten ==
    \A r \in Runners :
        /\ runners[r].todo = <<"gated", "record">> => Written("baseline", runners[r].pair["baseline"])
        /\ runners[r].todo = <<"record">> => \A a \in Arms : Written(a, runners[r].pair[a])

BoundWritten == \A pair \in records : \A a \in Arms : Written(a, pair[a])

PairedInv == PairedTypes /\ BehindWritten /\ BoundWritten

----------------------------------------------------------------------------
\* Initially nothing is written and no runner has a pair.
LEMMA PairedInitial == PairedInit => PairedInv
  BY DEF PairedInit, PairedInv, PairedTypes, BehindWritten, BoundWritten, Written, Arms, PairedTodo, Files

\* A runner that takes up a task has everything before it.
LEMMA RunArmsKeeps == ASSUME PairedInv, NEW r \in Runners, RunArms(r) PROVE PairedInv'
<1>1. PICK t \in Tasks, b \in Outputs, g \in Outputs :
         runners' = [runners EXCEPT ![r] = [pair |-> [task |-> t, baseline |-> b, gated |-> g], todo |-> Files]]
  BY DEF RunArms
<1>2. UNCHANGED <<outputs, records>>
  BY DEF RunArms
<1>3. Files # <<"gated", "record">> /\ Files # <<"record">> /\ Files # <<>>
  BY DEF Files
<1>4. PairedTypes'
  BY <1>1, <1>2 DEF PairedInv, PairedTypes, Pair, PairedTodo
<1>5. BehindWritten'
  BY <1>1, <1>2, <1>3 DEF PairedInv, PairedTypes, BehindWritten, Written
<1>6. BoundWritten'
  BY <1>2 DEF PairedInv, BoundWritten, Written
<1> QED
  BY <1>4, <1>5, <1>6 DEF PairedInv

\* A runner that leaves its pair leaves the files.
LEMMA RestKeeps ==
  ASSUME PairedInv, NEW r \in Runners, Rest(r), UNCHANGED <<outputs, records>> PROVE PairedInv'
<1>1. PairedTypes'
  BY DEF PairedInv, PairedTypes, Rest, PairedTodo
<1>2. BehindWritten'
  BY DEF PairedInv, PairedTypes, BehindWritten, Rest, Written
<1>3. BoundWritten'
  BY DEF PairedInv, BoundWritten, Written
<1> QED
  BY <1>1, <1>2, <1>3 DEF PairedInv

\* Writing the next output, or leaving an equal one, puts it behind the runner.
LEMMA PersistOutputKeeps ==
  ASSUME PairedInv, NEW r \in Runners, NEW arm \in Arms,
         runners[r].todo # <<>>, Head(runners[r].todo) = arm,
         outputs' = [outputs EXCEPT ![arm][runners[r].pair[arm]] = "whole"],
         runners' = [runners EXCEPT ![r].todo = Tail(@)],
         UNCHANGED records
  PROVE  PairedInv'
<1> DEFINE pair == runners[r].pair
<1>1. pair \in Pair /\ runners[r].todo \in PairedTodo
  BY DEF PairedInv, PairedTypes
<1>2. pair[arm] \in Outputs
  BY <1>1 DEF Pair, Arms
<1>3. \/ arm = "baseline" /\ runners[r].todo = Files
      \/ arm = "gated" /\ runners[r].todo = <<"gated", "record">>
  BY <1>1 DEF PairedTodo, Files, Arms
<1>4. \/ arm = "baseline" /\ Tail(runners[r].todo) = <<"gated", "record">>
      \/ arm = "gated" /\ Tail(runners[r].todo) = <<"record">>
  <2>1. Tail(Files) = <<"gated", "record">>
    BY DEF Files
  <2>2. Tail(<<"gated", "record">>) = <<"record">>
    OBVIOUS
  <2> QED
    BY <1>3, <2>1, <2>2
<1>5. outputs' \in [Arms -> [Outputs -> {None, "whole", "damaged"}]]
  BY <1>2 DEF PairedInv, PairedTypes
<1>6. Written(arm, pair[arm])'
  BY <1>2 DEF PairedInv, PairedTypes, Written
<1>7. \A a \in Arms, o \in Outputs : Written(a, o) => Written(a, o)'
  BY <1>2 DEF PairedInv, PairedTypes, Written
<1>8. /\ runners'[r].pair = pair
      /\ runners'[r].todo = Tail(runners[r].todo)
      /\ \A q \in Runners : q # r => runners'[q] = runners[q]
  BY DEF PairedInv, PairedTypes
<1>9. runners' \in [Runners -> [pair : Pair \union {None}, todo : PairedTodo]]
  BY <1>1, <1>4 DEF PairedInv, PairedTypes, PairedTodo
<1>10. PairedTypes'
  BY <1>1, <1>5, <1>8, <1>9 DEF PairedInv, PairedTypes
<1>11. BehindWritten'
  <2> SUFFICES ASSUME NEW q \in Runners
               PROVE  /\ runners'[q].todo = <<"gated", "record">> => Written("baseline", runners[q].pair["baseline"])'
                      /\ runners'[q].todo = <<"record">> => \A a \in Arms : Written(a, runners[q].pair[a])'
    BY DEF BehindWritten
  <2>1. CASE q # r
    <3>1. runners'[q] = runners[q] /\ (runners[q].todo # <<>> => runners[q].pair \in Pair)
      BY <2>1, <1>8 DEF PairedInv, PairedTypes
    <3>2. runners[q].todo # <<>> => \A a \in Arms : runners[q].pair[a] \in Outputs
      BY <3>1 DEF Pair, Arms
    <3>3. "baseline" \in Arms /\ <<"record">> # <<>> /\ <<"gated", "record">> # <<>>
      BY DEF Arms
    <3> QED
      BY <3>1, <3>2, <3>3, <1>7 DEF PairedInv, BehindWritten
  <2>2. CASE q = r /\ arm = "baseline"
    <3>1. runners'[q].todo = <<"gated", "record">> /\ runners'[q].pair = pair
      BY <2>2, <1>4, <1>8
    <3>2. <<"gated", "record">> # <<"record">>
      OBVIOUS
    <3> QED
      BY <3>1, <3>2, <2>2, <1>6
  <2>3. CASE q = r /\ arm = "gated"
    <3>1. runners'[q].todo = <<"record">> /\ runners'[q].pair = pair
      BY <2>3, <1>4, <1>8
    <3>2. Written("baseline", pair["baseline"])
      BY <2>3, <1>3 DEF PairedInv, BehindWritten
    <3>3. pair["baseline"] \in Outputs /\ "baseline" \in Arms
      BY <1>1 DEF Pair, Arms
    <3>4. Written("baseline", pair["baseline"])'
      BY <3>2, <3>3, <1>7
    <3>5. \A a \in Arms : a = "baseline" \/ a = "gated"
      BY DEF Arms
    <3>6. \A a \in Arms : Written(a, pair[a])'
      BY <3>4, <3>5, <2>3, <1>6
    <3>7. <<"gated", "record">> # <<"record">>
      OBVIOUS
    <3> QED
      BY <3>1, <3>6, <3>7, <2>3
  <2> QED
    BY <2>1, <2>2, <2>3 DEF Arms
<1>12. BoundWritten'
  <2>1. \A p \in records, a \in Arms : p[a] \in Outputs
    BY DEF PairedInv, PairedTypes, Pair, Arms
  <2> QED
    BY <2>1, <1>7 DEF PairedInv, BoundWritten
<1> QED
  BY <1>10, <1>11, <1>12 DEF PairedInv

\* The record is written when both outputs are.
LEMMA PersistRecordKeeps ==
  ASSUME PairedInv, NEW r \in Runners,
         runners[r].todo # <<>>, Head(runners[r].todo) = "record",
         records' = records \union {runners[r].pair},
         runners' = [runners EXCEPT ![r].todo = Tail(@)],
         UNCHANGED outputs
  PROVE  PairedInv'
<1>1. runners[r].pair \in Pair /\ runners[r].todo \in PairedTodo
  BY DEF PairedInv, PairedTypes
<1>2. runners[r].todo = <<"record">>
  BY <1>1 DEF PairedTodo, Files
<1>3. Tail(runners[r].todo) = <<>>
  BY <1>2
<1>4. PairedTypes'
  BY <1>1, <1>3 DEF PairedInv, PairedTypes, PairedTodo
<1>5. BehindWritten'
  BY <1>3 DEF PairedInv, PairedTypes, BehindWritten, Written
<1>6. BoundWritten'
  BY <1>2 DEF PairedInv, BehindWritten, BoundWritten, Written
<1> QED
  BY <1>4, <1>5, <1>6 DEF PairedInv

\* Persist() is one of these, or gives the pair up at a damaged file.
LEMMA PersistKeeps == ASSUME PairedInv, NEW r \in Runners, Persist(r) PROVE PairedInv'
<1>1. runners[r].todo \in PairedTodo /\ runners[r].todo # <<>>
  BY DEF PairedInv, PairedTypes, Persist
<1>2. Head(runners[r].todo) = "record" \/ Head(runners[r].todo) \in Arms
  BY <1>1 DEF PairedTodo, Files, Arms
<1>3. CASE Head(runners[r].todo) = "record"
  BY <1>1, <1>3, PersistRecordKeeps DEF Persist
<1>4. CASE Head(runners[r].todo) \in Arms /\ Rest(r)
  <2>1. Head(runners[r].todo) # "record"
    BY <1>4 DEF Arms
  <2>2. UNCHANGED records
    BY <2>1 DEF Persist
  <2>3. (Rest(r) /\ UNCHANGED outputs) \/ runners' = [runners EXCEPT ![r].todo = Tail(@)]
    BY <2>1 DEF Persist
  <2>4. CASE UNCHANGED outputs
    BY <1>4, <2>2, <2>4, RestKeeps
  <2>5. CASE ~UNCHANGED outputs
    BY <1>1, <1>4, <2>1, <2>2, <2>5, PersistOutputKeeps DEF Persist
  <2> QED
    BY <2>4, <2>5
<1>5. CASE Head(runners[r].todo) \in Arms /\ ~Rest(r)
  <2>1. Head(runners[r].todo) # "record"
    BY <1>5 DEF Arms
  <2> QED
    BY <1>1, <1>5, <2>1, PersistOutputKeeps DEF Persist
<1> QED
  BY <1>2, <1>3, <1>4, <1>5

\* Damage changes a file and does not take it away.
LEMMA DamageKeeps == ASSUME PairedInv, Damage PROVE PairedInv'
<1>1. PICK a \in Arms, o \in Outputs : outputs' = [outputs EXCEPT ![a][o] = "damaged"]
  BY DEF Damage
<1>2. UNCHANGED <<records, runners>>
  BY DEF Damage
<1>3. PairedTypes'
  BY <1>1, <1>2 DEF PairedInv, PairedTypes
<1>4. \A b \in Arms, u \in Outputs : Written(b, u) => Written(b, u)'
  BY <1>1 DEF PairedInv, PairedTypes, Written
<1>5. BehindWritten'
  <2>1. \A r \in Runners : runners[r].todo # <<>> => \A b \in Arms : runners[r].pair[b] \in Outputs
    BY DEF PairedInv, PairedTypes, Pair, Arms
  <2>2. "baseline" \in Arms /\ <<"record">> # <<>> /\ <<"gated", "record">> # <<>>
    BY DEF Arms
  <2> QED
    BY <1>2, <1>4, <2>1, <2>2 DEF PairedInv, BehindWritten
<1>6. BoundWritten'
  <2>1. \A p \in records, b \in Arms : p[b] \in Outputs
    BY DEF PairedInv, PairedTypes, Pair, Arms
  <2> QED
    BY <1>2, <1>4, <2>1 DEF PairedInv, BoundWritten
<1> QED
  BY <1>3, <1>5, <1>6 DEF PairedInv

\* Every step keeps the invariant.
LEMMA PairedStep == PairedInv /\ [PairedNext]_pairedVars => PairedInv'
<1> SUFFICES ASSUME PairedInv, [PairedNext]_pairedVars PROVE PairedInv'
  OBVIOUS
<1>1. ASSUME NEW r \in Runners, RunArms(r) PROVE PairedInv'
  BY <1>1, RunArmsKeeps
<1>2. ASSUME NEW r \in Runners, Persist(r) PROVE PairedInv'
  BY <1>2, PersistKeeps
<1>3. ASSUME NEW r \in Runners, Leave(r) PROVE PairedInv'
  BY <1>3, RestKeeps DEF Leave
<1>4. CASE RecordHumanQa \/ UNCHANGED pairedVars
  BY <1>4 DEF RecordHumanQa, pairedVars, PairedInv, PairedTypes, BehindWritten, BoundWritten, Written
<1>5. CASE Damage
  BY <1>5, DamageKeeps
<1> QED
  BY <1>1, <1>2, <1>3, <1>4, <1>5 DEF PairedNext

\* A file that is written verifies exactly if it was not damaged.
LEMMA BoundAssessable == PairedInv => PairsAssessable
  BY DEF PairedInv, BoundWritten, Written, PairsAssessable, Verifies, OutputVerifies, Intact

\* A recorded pair can be assessed exactly if none of its files was damaged,
\* wherever runners were killed and whichever pairs share their outputs
\* (paired.py: the record is written last, and write_once() repairs nothing).
THEOREM AssessableAlways == PairedSpec => []PairsAssessable
<1>1. PairedInit => PairedInv
  BY PairedInitial
<1>2. PairedInv /\ [PairedNext]_pairedVars => PairedInv'
  BY PairedStep
<1>3. PairedInv => PairsAssessable
  BY BoundAssessable
<1> QED
  BY <1>1, <1>2, <1>3, PTL DEF PairedSpec

-----------------------------------------------------------------------------
(* Publications. *)

\* None is no content and no file.
NoneApart == None \notin Contents /\ None \notin [of : Contents, whole : BOOLEAN]

File == [of : Contents, whole : BOOLEAN]
Todo == {<<>>, <<"seal">>, <<"second", "seal">>, <<"first", "second", "seal">>,
         <<"first", "seal">>, <<"pending", "seal">>}
Process == [job : {"none", "writing", "archiving", "done"}, content : Contents \union {None},
            todo : Todo, open : BOOLEAN]

\* The files that a reader compares.
Needed ==
    CASE kind \in {"run", "cache"} -> {"first", "second", "seal"}
      [] kind \in {"raw", "memory"} -> {"first", "seal"}
      [] kind \in {"arrays", "forecast"} -> {"seal"}

Writing(p) == processes[p].job = "writing"
OpenFile(p) == Head(processes[p].todo)

RunTypes ==
    /\ kind \in Kinds
    /\ shelf \in [FileNames -> File \union {None}]
    /\ processes \in [Processes -> Process]
    /\ accepted \in Contents \union {None}
    /\ replaced \in BOOLEAN

\* What a process is about, by the kind of publication.
Programs ==
    \A p \in Processes :
        /\ processes[p].job \in {"writing", "archiving"} => processes[p].content \in Contents
        /\ processes[p].job = "archiving" => kind = "arrays" /\ processes[p].todo = <<"seal">> /\ ~processes[p].open
        /\ Writing(p) /\ kind = "forecast" => processes[p].todo \in {<<"pending", "seal">>, <<"seal">>, <<>>}
        /\ Writing(p) /\ kind = "arrays" => processes[p].todo \in {<<"seal">>, <<>>}

\* An open file is torn, and by the process that has it open.
OpenTorn ==
    \A p \in Processes : Writing(p) /\ processes[p].open =>
        /\ processes[p].todo # <<>>
        /\ shelf[OpenFile(p)] = [of |-> processes[p].content, whole |-> FALSE]
        /\ ~(Linked /\ OpenFile(p) = "seal")

OpenAlone ==
    \A p, q \in Processes :
        Writing(p) /\ processes[p].open /\ Writing(q) /\ processes[q].open /\ OpenFile(p) = OpenFile(q) => p = q

\* What a process has behind it is whole.
Behind ==
    \A p \in Processes : Writing(p) =>
        /\ ~Linked => \A n \in Needed : n \in ToSet(processes[p].todo) \/ Whole(n, processes[p].content)
        /\ Linked /\ processes[p].todo = <<>> /\ ~replaced => Whole("seal", processes[p].content)

\* The pending file of a forecast has one owner.
Owns(p) == Writing(p) /\ (processes[p].open \/ processes[p].todo = <<"seal">>)
PendingOwned ==
    kind = "forecast" =>
        /\ \A p \in Processes : Writing(p) /\ processes[p].todo = <<"seal">> =>
              Whole("pending", processes[p].content) /\ ~processes[p].open
        /\ \A p, q \in Processes : Owns(p) /\ Owns(q) => p = q

AcceptedWhole == accepted # None /\ ~replaced => Complete(accepted)

RunInv == RunTypes /\ Programs /\ OpenTorn /\ OpenAlone /\ Behind /\ PendingOwned /\ AcceptedWhole

----------------------------------------------------------------------------
\* A file is not None.
LEMMA NoFile ==
  ASSUME NoneApart, NEW c \in Contents, NEW b \in BOOLEAN PROVE [of |-> c, whole |-> b] # None
<1>1. [of |-> c, whole |-> b] \in [of : Contents, whole : BOOLEAN]
  OBVIOUS
<1> QED
  BY <1>1 DEF NoneApart

\* The sequences of files: their members, heads and tails.
LEMMA TodoFacts ==
  /\ ToSet(<<>>) = {}
  /\ \A t \in Todo : t # <<>> =>
        /\ Head(t) \in FileNames
        /\ Tail(t) \in Todo
        /\ \A n \in ToSet(t) : n = Head(t) \/ n \in ToSet(Tail(t))
<1>1. ToSet(<<>>) = {}
  BY DEF ToSet
<1>2. ASSUME NEW t \in Todo, t # <<>>
      PROVE  Head(t) \in FileNames /\ Tail(t) \in Todo
  <2>1. CASE t = <<"seal">>
    BY <2>1 DEF Todo, FileNames
  <2>2. CASE t = <<"second", "seal">>
    BY <2>2 DEF Todo, FileNames
  <2>3. CASE t = <<"first", "second", "seal">>
    BY <2>3 DEF Todo, FileNames
  <2>4. CASE t = <<"first", "seal">>
    BY <2>4 DEF Todo, FileNames
  <2>5. CASE t = <<"pending", "seal">>
    BY <2>5 DEF Todo, FileNames
  <2> QED
    BY <1>2, <2>1, <2>2, <2>3, <2>4, <2>5 DEF Todo
<1>3. ASSUME NEW t \in Todo, t # <<>>, NEW n \in ToSet(t)
      PROVE  n = Head(t) \/ n \in ToSet(Tail(t))
  <2>0. /\ ToSet(<<"seal">>) = {"seal"}
        /\ ToSet(<<"second", "seal">>) = {"second", "seal"}
    BY DEF ToSet
  <2>1. CASE t = <<"seal">>
    <3>1. Head(t) = "seal" /\ ToSet(t) = {"seal"}
      BY <2>0, <2>1
    <3> QED
      BY <1>3, <3>1
  <2>2. CASE t = <<"second", "seal">>
    <3>1. Head(t) = "second" /\ Tail(t) = <<"seal">> /\ ToSet(t) = {"second", "seal"}
      BY <2>0, <2>2
    <3> QED
      BY <1>3, <2>0, <3>1
  <2>3. CASE t = <<"first", "second", "seal">>
    <3>1. Head(t) = "first" /\ Tail(t) = <<"second", "seal">>
      BY <2>3
    <3>2. ToSet(t) = {"first", "second", "seal"}
      BY <2>3 DEF ToSet
    <3> QED
      BY <1>3, <2>0, <3>1, <3>2
  <2>4. CASE t = <<"first", "seal">>
    <3>1. Head(t) = "first" /\ Tail(t) = <<"seal">>
      BY <2>4
    <3>2. ToSet(t) = {"first", "seal"}
      BY <2>4 DEF ToSet
    <3> QED
      BY <1>3, <2>0, <3>1, <3>2
  <2>5. CASE t = <<"pending", "seal">>
    <3>1. Head(t) = "pending" /\ Tail(t) = <<"seal">>
      BY <2>5
    <3>2. ToSet(t) = {"pending", "seal"}
      BY <2>5 DEF ToSet
    <3> QED
      BY <1>3, <2>0, <3>1, <3>2
  <2> QED
    BY <1>3, <2>1, <2>2, <2>3, <2>4, <2>5 DEF Todo
<1> QED
  BY <1>1, <1>2, <1>3

\* The program of each kind, and what of it a reader compares.
LEMMA ProgramFacts ==
  ASSUME kind \in Kinds
  PROVE  /\ FilesOf(kind) \in Todo /\ FilesOf(kind) # <<>>
         /\ Needed \subseteq ToSet(FilesOf(kind))
         /\ ToSet(FilesOf(kind)) \ Unread = Needed
         /\ "seal" \in Needed /\ Needed \subseteq FileNames
         /\ kind = "forecast" => FilesOf(kind) = <<"pending", "seal">>
         /\ kind = "arrays" => FilesOf(kind) = <<"seal">>
<1>1. ToSet(<<"first", "second", "seal">>) = {"first", "second", "seal"}
  BY DEF ToSet
<1>2. ToSet(<<"first", "seal">>) = {"first", "seal"}
  BY DEF ToSet
<1>3. ToSet(<<"seal">>) = {"seal"}
  BY DEF ToSet
<1>4. ToSet(<<"pending", "seal">>) = {"pending", "seal"}
  BY DEF ToSet
<1>5. CASE kind \in {"run", "cache"}
  <2>1. FilesOf(kind) = <<"first", "second", "seal">> /\ Unread = {"pending"}
    BY <1>5 DEF FilesOf, Unread
  <2>2. Needed = {"first", "second", "seal"}
    BY <1>5 DEF Needed
  <2> QED
    BY <1>1, <1>5, <2>1, <2>2 DEF Todo, FileNames
<1>6. CASE kind = "memory"
  <2>1. FilesOf(kind) = <<"first", "second", "seal">> /\ Unread = {"pending", "second"}
    BY <1>6 DEF FilesOf, Unread
  <2>2. Needed = {"first", "seal"}
    BY <1>6 DEF Needed
  <2> QED
    BY <1>1, <1>6, <2>1, <2>2 DEF Todo, FileNames
<1>7. CASE kind = "raw"
  <2>1. FilesOf(kind) = <<"first", "seal">> /\ Unread = {"pending"}
    BY <1>7 DEF FilesOf, Unread
  <2>2. Needed = {"first", "seal"}
    BY <1>7 DEF Needed
  <2> QED
    BY <1>2, <1>7, <2>1, <2>2 DEF Todo, FileNames
<1>8. CASE kind = "arrays"
  <2>1. FilesOf(kind) = <<"seal">> /\ Unread = {"pending"}
    BY <1>8 DEF FilesOf, Unread
  <2>2. Needed = {"seal"}
    BY <1>8 DEF Needed
  <2> QED
    BY <1>3, <1>8, <2>1, <2>2 DEF Todo, FileNames
<1>9. CASE kind = "forecast"
  <2>1. FilesOf(kind) = <<"pending", "seal">> /\ Unread = {"pending"}
    BY <1>9 DEF FilesOf, Unread
  <2>2. Needed = {"seal"}
    BY <1>9 DEF Needed
  <2> QED
    BY <1>4, <1>9, <2>1, <2>2 DEF Todo, FileNames
<1> QED
  BY <1>5, <1>6, <1>7, <1>8, <1>9 DEF Kinds

\* A publication is complete if the files a reader compares are whole.
LEMMA CompleteMeans ==
  ASSUME kind \in Kinds, NEW c PROVE Complete(c) <=> \A n \in Needed : Whole(n, c)
  BY ProgramFacts DEF Complete

\* A reader finds what is complete, and there is one content that is.
LEMMA ReadsMeans ==
  ASSUME kind \in Kinds
  PROVE  /\ Reads # None => Reads \in Contents /\ Complete(Reads)
         /\ \A c \in Contents : Complete(c) => Reads = c
<1>1. Reads # None => Reads \in Contents /\ Complete(Reads)
  BY DEF Reads
<1>2. ASSUME NEW c \in Contents, Complete(c) PROVE Reads = c
  <2>1. Reads \in Contents /\ Complete(Reads)
    BY <1>2 DEF Reads
  <2>2. Whole("seal", c) /\ Whole("seal", Reads)
    BY <1>2, <2>1, ProgramFacts, CompleteMeans
  <2>3. [of |-> c, whole |-> TRUE].of = [of |-> Reads, whole |-> TRUE].of
    BY <2>2 DEF Whole
  <2> QED
    BY <2>3
<1> QED
  BY <1>1, <1>2

\* What a step accepts is what a reader finds.
LEMMA AcceptsRead ==
  ASSUME RunInv, accepted' = accepted \/ (accepted' = Reads /\ Reads # None),
         UNCHANGED <<kind, shelf, replaced>>
  PROVE  AcceptedWhole' /\ accepted' \in Contents \union {None}
<1>1. kind \in Kinds
  BY DEF RunInv, RunTypes
<1>2. \A c : Complete(c) => Complete(c)'
  BY DEF Complete, Whole, Unread
<1> QED
  BY <1>1, <1>2, ReadsMeans DEF RunInv, RunTypes, AcceptedWhole

----------------------------------------------------------------------------
\* Initially nothing is published.
LEMMA RunInitial == RunInit => RunInv
<1> SUFFICES ASSUME RunInit PROVE RunInv
  OBVIOUS
<1>1. RunTypes
  BY DEF RunInit, RunTypes, Process, Todo
<1>2. \A p \in Processes : processes[p].job = "none"
  BY DEF RunInit
<1>3. Programs /\ OpenTorn /\ OpenAlone /\ Behind /\ PendingOwned
  BY <1>2 DEF Programs, OpenTorn, OpenAlone, Behind, PendingOwned, Writing, Owns
<1>4. AcceptedWhole
  BY DEF RunInit, AcceptedWhole
<1> QED
  BY <1>1, <1>3, <1>4 DEF RunInv

\* A process that ends leaves the files, and the others, as they are.
LEMMA FinishKeeps ==
  ASSUME RunInv, NEW p \in Processes, Finish(p), UNCHANGED <<kind, shelf, replaced>>,
         AcceptedWhole', accepted' \in Contents \union {None}
  PROVE  RunInv'
<1>1. /\ processes'[p].job = "done"
      /\ \A q \in Processes : q # p => processes'[q] = processes[q]
      /\ processes' \in [Processes -> Process]
  BY DEF RunInv, RunTypes, Finish, Process
<1>2. RunTypes'
  BY <1>1 DEF RunInv, RunTypes
<1>3. \A q \in Processes : processes'[q].job # "done" => q # p /\ processes'[q] = processes[q]
  BY <1>1
<1>4. Programs'
  BY <1>3 DEF RunInv, Programs, Writing
<1>5. OpenTorn'
  BY <1>3 DEF RunInv, OpenTorn, Writing, OpenFile, Linked
<1>6. OpenAlone'
  BY <1>3 DEF RunInv, OpenAlone, Writing, OpenFile
<1>7. Behind'
  BY <1>3 DEF RunInv, Behind, Writing, Linked, Needed, Whole
<1>8. PendingOwned'
  BY <1>3 DEF RunInv, PendingOwned, Owns, Writing, Whole
<1> QED
  BY <1>2, <1>4, <1>5, <1>6, <1>7, <1>8 DEF RunInv

\* A process that begins has everything ahead of it.
LEMMA EnterKeeps ==
  ASSUME RunInv, NEW p \in Processes, NEW job \in {"writing", "archiving"}, NEW content \in Contents,
         Enter(p, job, content), job = "archiving" => kind = "arrays",
         UNCHANGED <<kind, shelf, replaced>>,
         AcceptedWhole', accepted' \in Contents \union {None}
  PROVE  RunInv'
<1>1. kind \in Kinds
  BY DEF RunInv, RunTypes
<1>2. /\ processes'[p] = [job |-> job, content |-> content, todo |-> FilesOf(kind), open |-> FALSE]
      /\ \A q \in Processes : q # p => processes'[q] = processes[q]
      /\ processes' \in [Processes -> Process]
  BY <1>1, ProgramFacts DEF RunInv, RunTypes, Enter, Process
<1>3. RunTypes'
  BY <1>2 DEF RunInv, RunTypes
<1>4. Programs'
  BY <1>1, <1>2, ProgramFacts DEF RunInv, Programs, Writing
<1>5. OpenTorn'
  BY <1>2 DEF RunInv, OpenTorn, Writing, OpenFile, Linked
<1>6. OpenAlone'
  BY <1>2 DEF RunInv, OpenAlone, Writing, OpenFile
<1>7. Behind'
  <2>1. FilesOf(kind) # <<>> /\ Needed \subseteq ToSet(FilesOf(kind))
    BY <1>1, ProgramFacts
  <2>2. Needed' = Needed
    BY DEF Needed
  <2>3. \A n \in Needed : n \in ToSet(processes'[p].todo)
    BY <1>2, <2>1
  <2>4. processes'[p].todo # <<>>
    BY <1>2, <2>1
  <2>5. \A q \in Processes : q # p => processes'[q] = processes[q]
    BY <1>2
  <2> QED
    BY <2>2, <2>3, <2>4, <2>5 DEF RunInv, Behind, Writing, Linked, Whole
<1>8. PendingOwned'
  <2> SUFFICES ASSUME kind = "forecast" PROVE PendingOwned'
    BY DEF PendingOwned
  <2>1. processes'[p].todo # <<"seal">> /\ ~processes'[p].open
    <3>1. processes'[p].todo = <<"pending", "seal">>
      BY <1>1, <1>2, ProgramFacts
    <3>2. <<"pending", "seal">> # <<"seal">>
      OBVIOUS
    <3> QED
      BY <1>2, <3>1, <3>2
  <2>2. \A q \in Processes : q # p => processes'[q] = processes[q]
    BY <1>2
  <2>3. \A q \in Processes : Owns(q)' => Owns(q)
    BY <2>1, <2>2 DEF Owns, Writing
  <2>4. \A q \in Processes : Writing(q)' /\ processes'[q].todo = <<"seal">> => q # p
    BY <2>1
  <2> QED
    BY <2>2, <2>3, <2>4 DEF RunInv, PendingOwned, Writing, Whole
<1> QED
  BY <1>3, <1>4, <1>5, <1>6, <1>7, <1>8 DEF RunInv

\* Whatever a process finds when it begins, it writes, moves aside or ends.
LEMMA BeginKeeps == ASSUME NoneApart, RunInv, NEW p \in Processes, BeginPublication(p) PROVE RunInv'
<1>1. PICK content \in Contents :
         \/ BeginRun(p, content) \/ BeginRaw(p, content) \/ BeginCache(p, content)
         \/ BeginArrays(p, content) \/ BeginForecast(p, content) \/ BeginMemory(p, content)
  BY DEF BeginPublication
<1>2. UNCHANGED <<kind, shelf, replaced>>
  BY DEF BeginPublication
<1>3. accepted' = accepted \/ (accepted' = Reads /\ Reads # None)
  BY <1>1 DEF NoneApart, BeginRun, BeginRaw, BeginCache, BeginArrays, BeginForecast, BeginMemory
<1>4. AcceptedWhole' /\ accepted' \in Contents \union {None}
  BY <1>2, <1>3, AcceptsRead
<1>5. \/ Finish(p)
      \/ Enter(p, "writing", content)
      \/ Enter(p, "archiving", content) /\ kind = "arrays"
  BY <1>1 DEF BeginRun, BeginRaw, BeginCache, BeginArrays, BeginForecast, BeginMemory
<1>6. CASE Finish(p)
  BY <1>2, <1>4, <1>6, FinishKeeps
<1>7. CASE Enter(p, "writing", content)
  BY <1>2, <1>4, <1>7, EnterKeeps
<1>8. CASE Enter(p, "archiving", content) /\ kind = "arrays"
  BY <1>2, <1>4, <1>8, EnterKeeps
<1> QED
  BY <1>5, <1>6, <1>7, <1>8

----------------------------------------------------------------------------
\* A process opens a file that is not there: no whole file, and no file that
\* another has open, is the one it opens.
LEMMA OpenKeeps == ASSUME NoneApart, RunInv, NEW p \in Processes, Open(p) PROVE RunInv'
<1> DEFINE name == Head(processes[p].todo)
           content == processes[p].content
<1>1. /\ Writing(p) /\ processes[p].todo # <<>> /\ ~processes[p].open
      /\ ~(Linked /\ name = "seal")
      /\ UNCHANGED <<kind, accepted, replaced>>
  BY DEF Open, Writing
<1>2. kind \in Kinds /\ content \in Contents /\ name \in FileNames
  BY <1>1, TodoFacts DEF RunInv, RunTypes, Programs, Writing, Process
<1>3. CASE ~MayOpen(p, name)
  <2>1. Finish(p) /\ UNCHANGED shelf
    BY <1>3 DEF Open
  <2>2. AcceptedWhole' /\ accepted' \in Contents \union {None}
    BY <1>1, <2>1, AcceptsRead
  <2> QED
    BY <1>1, <2>1, <2>2, FinishKeeps
<1>4. CASE MayOpen(p, name)
  <2>1. /\ shelf[name] = None
        /\ shelf' = [shelf EXCEPT ![name] = [of |-> content, whole |-> FALSE]]
        /\ processes' = [processes EXCEPT ![p].open = TRUE]
    BY <1>4 DEF Open, MayOpen
  <2>2. /\ shelf'[name] = [of |-> content, whole |-> FALSE]
        /\ \A n \in FileNames : n # name => shelf'[n] = shelf[n]
        /\ shelf' \in [FileNames -> File \union {None}]
    BY <1>2, <2>1 DEF RunInv, RunTypes, File
  <2>3. /\ processes'[p].job = "writing" /\ processes'[p].open
        /\ processes'[p].content = content /\ processes'[p].todo = processes[p].todo
        /\ \A q \in Processes : q # p => processes'[q] = processes[q]
        /\ processes' \in [Processes -> Process]
    BY <1>1, <2>1 DEF RunInv, RunTypes, Process, Writing
  <2>4. \A n \in FileNames, c \in Contents : Whole(n, c) => Whole(n, c)'
    <3> SUFFICES ASSUME NEW n \in FileNames, NEW c \in Contents, Whole(n, c) PROVE Whole(n, c)'
      OBVIOUS
    <3>1. shelf[n] # None
      BY NoFile DEF Whole
    <3> QED
      BY <2>1, <2>2, <3>1 DEF Whole
  <2>5. RunTypes'
    BY <1>1, <2>2, <2>3 DEF RunInv, RunTypes
  <2>6. Programs'
    BY <1>1, <2>3 DEF RunInv, Programs, Writing
  <2>7. \A q \in Processes : q # p /\ Writing(q) /\ processes[q].open => OpenFile(q) \in FileNames /\ OpenFile(q) # name
    <3> SUFFICES ASSUME NEW q \in Processes, Writing(q), processes[q].open
                 PROVE  OpenFile(q) \in FileNames /\ OpenFile(q) # name
      OBVIOUS
    <3>1. processes[q].todo \in Todo /\ processes[q].todo # <<>> /\ processes[q].content \in Contents
      BY DEF RunInv, RunTypes, Programs, OpenTorn, Process, Writing
    <3>2. OpenFile(q) \in FileNames
      BY <3>1, TodoFacts DEF OpenFile
    <3>3. shelf[OpenFile(q)] = [of |-> processes[q].content, whole |-> FALSE]
      BY DEF RunInv, OpenTorn
    <3>4. shelf[OpenFile(q)] # None
      BY <3>1, <3>3, NoFile
    <3> QED
      BY <2>1, <3>2, <3>4
  <2>8. OpenTorn'
    <3> SUFFICES ASSUME NEW q \in Processes, Writing(q)', processes'[q].open
                 PROVE  /\ processes'[q].todo # <<>>
                        /\ shelf'[OpenFile(q)'] = [of |-> processes'[q].content, whole |-> FALSE]
                        /\ ~(Linked /\ OpenFile(q) = "seal")'
      BY DEF OpenTorn
    <3>1. CASE q = p
      BY <1>1, <2>2, <2>3, <3>1 DEF OpenFile, Linked
    <3>2. CASE q # p
      <4>1. processes'[q] = processes[q] /\ Writing(q) /\ OpenFile(q)' = OpenFile(q)
        BY <2>3, <3>2 DEF Writing, OpenFile
      <4>2. shelf'[OpenFile(q)] = shelf[OpenFile(q)]
        BY <2>2, <2>7, <3>2, <4>1
      <4> QED
        BY <1>1, <4>1, <4>2 DEF RunInv, OpenTorn, Linked
    <3> QED
      BY <3>1, <3>2
  <2>9. OpenAlone'
    BY <2>3, <2>7 DEF RunInv, OpenAlone, Writing, OpenFile
  <2>10. \A q \in Processes : Writing(q) => processes[q].content \in Contents
    BY DEF RunInv, Programs, Writing
  <2>11. \A q \in Processes : /\ Writing(q)' => Writing(q)
                             /\ processes'[q].todo = processes[q].todo /\ processes'[q].content = processes[q].content
    BY <1>1, <2>3 DEF Writing
  <2>12. Behind'
    BY <1>1, <1>2, <2>4, <2>10, <2>11, ProgramFacts DEF RunInv, Behind, Linked, Needed
  <2>13. PendingOwned'
    <3> SUFFICES ASSUME kind = "forecast" PROVE PendingOwned'
      BY <1>1 DEF PendingOwned
    <3>1. processes[p].todo = <<"pending", "seal">>
      BY <1>1 DEF RunInv, Programs, Linked, Writing
    <3>2. name = "pending"
      BY <3>1
    <3>3. \A q \in Processes : ~Owns(q)
      <4> SUFFICES ASSUME NEW q \in Processes, Owns(q) PROVE FALSE
        OBVIOUS
      <4>1. CASE processes[q].todo = <<"seal">>
        <5>1. Whole("pending", processes[q].content) /\ processes[q].content \in Contents
          BY <4>1, <2>10 DEF RunInv, PendingOwned, Owns
        <5> QED
          BY <5>1, <2>1, <3>2, NoFile DEF Whole
      <4>2. CASE processes[q].open
        <5>1. Writing(q) /\ processes[q].todo # <<>> /\ OpenFile(q) # "seal"
          BY <4>2 DEF RunInv, OpenTorn, Linked, Owns
        <5>2. processes[q].todo \in {<<"pending", "seal">>, <<"seal">>, <<>>}
          BY <5>1 DEF RunInv, Programs
        <5>3. Head(<<"seal">>) = "seal" /\ Head(<<"pending", "seal">>) = "pending"
          OBVIOUS
        <5>4. OpenFile(q) = "pending"
          BY <5>1, <5>2, <5>3 DEF OpenFile
        <5>5. shelf["pending"] = [of |-> processes[q].content, whole |-> FALSE] /\ processes[q].content \in Contents
          BY <4>2, <5>1, <5>4, <2>10 DEF RunInv, OpenTorn
        <5> QED
          BY <5>5, <2>1, <3>2, NoFile
      <4> QED
        BY <4>1, <4>2 DEF Owns
    <3>4. <<"pending", "seal">> # <<"seal">>
      OBVIOUS
    <3>5. \A q \in Processes : Owns(q)' => q = p
      BY <2>3, <3>3 DEF Owns, Writing
    <3>6. \A q \in Processes : ~(Writing(q)' /\ processes'[q].todo = <<"seal">>)
      BY <2>3, <2>11, <3>1, <3>3, <3>4 DEF Owns
    <3> QED
      BY <3>5, <3>6 DEF PendingOwned
  <2>14. AcceptedWhole'
    <3>1. \A c \in Contents : Complete(c) => Complete(c)'
      <4> SUFFICES ASSUME NEW c \in Contents, Complete(c) PROVE Complete(c)'
        OBVIOUS
      <4>1. \A n \in Needed : Whole(n, c) /\ n \in FileNames
        BY <1>2, CompleteMeans, ProgramFacts
      <4>2. \A n \in Needed : Whole(n, c)'
        BY <4>1, <2>4
      <4>3. ToSet(FilesOf(kind)) \ Unread = Needed
        BY <1>2, ProgramFacts
      <4> QED
        BY <1>1, <4>2, <4>3 DEF Complete, Unread, Needed
    <3> QED
      BY <1>1, <3>1 DEF RunInv, RunTypes, AcceptedWhole
  <2> QED
    BY <2>5, <2>6, <2>8, <2>9, <2>12, <2>13, <2>14 DEF RunInv
<1> QED
  BY <1>3, <1>4

\* The file that a process fills was torn by that process: no other file, and
\* no whole one, changes.
LEMMA FillKeeps == ASSUME NoneApart, RunInv, NEW p \in Processes, Fill(p) PROVE RunInv'
<1> DEFINE name == Head(processes[p].todo)
           content == processes[p].content
<1>1. /\ Writing(p) /\ processes[p].open
      /\ UNCHANGED <<kind, accepted, replaced>>
      /\ shelf' = [shelf EXCEPT ![name] = [of |-> content, whole |-> TRUE]]
      /\ processes' = [processes EXCEPT ![p].open = FALSE, ![p].todo = Tail(@)]
  BY DEF Fill, Writing
<1>2. /\ processes[p].todo # <<>> /\ processes[p].todo \in Todo
      /\ shelf[name] = [of |-> content, whole |-> FALSE]
      /\ ~(Linked /\ name = "seal")
  BY <1>1 DEF RunInv, RunTypes, OpenTorn, OpenFile, Process
<1>3. kind \in Kinds /\ content \in Contents /\ name \in FileNames /\ Tail(processes[p].todo) \in Todo
  BY <1>1, <1>2, TodoFacts DEF RunInv, RunTypes, Programs, Writing
<1>4. /\ shelf'[name] = [of |-> content, whole |-> TRUE]
      /\ \A n \in FileNames : n # name => shelf'[n] = shelf[n]
      /\ shelf' \in [FileNames -> File \union {None}]
  BY <1>1, <1>3 DEF RunInv, RunTypes, File
<1>5. /\ processes'[p].job = "writing" /\ ~processes'[p].open
      /\ processes'[p].content = content /\ processes'[p].todo = Tail(processes[p].todo)
      /\ \A q \in Processes : q # p => processes'[q] = processes[q]
      /\ processes' \in [Processes -> Process]
  <2>1. processes \in [Processes -> Process] /\ processes[p].job = "writing"
    BY <1>1 DEF RunInv, RunTypes, Writing
  <2>2. processes' = [processes EXCEPT ![p] = [processes[p] EXCEPT !.open = FALSE, !.todo = Tail(processes[p].todo)]]
    BY <1>1, <2>1 DEF Process
  <2> QED
    BY <1>3, <2>1, <2>2 DEF Process
<1>6. \A n \in FileNames : \A c : Whole(n, c) => Whole(n, c)'
  <2> SUFFICES ASSUME NEW n \in FileNames, NEW c, Whole(n, c) PROVE Whole(n, c)'
    OBVIOUS
  <2>1. shelf[n].whole
    BY DEF Whole
  <2>2. n # name
    BY <1>2, <2>1
  <2> QED
    BY <1>4, <2>2 DEF Whole
<1>7. RunTypes'
  BY <1>1, <1>4, <1>5 DEF RunInv, RunTypes
<1>8. kind = "forecast" => processes[p].todo = <<"pending", "seal">>
  <2> SUFFICES ASSUME kind = "forecast" PROVE processes[p].todo = <<"pending", "seal">>
    OBVIOUS
  <2>1. processes[p].todo \in {<<"pending", "seal">>, <<"seal">>, <<>>}
    BY <1>1 DEF RunInv, Programs
  <2>2. Head(<<"seal">>) = "seal"
    OBVIOUS
  <2> QED
    BY <1>2, <2>1, <2>2 DEF Linked
<1>8a. kind # "arrays"
  <2> SUFFICES ASSUME kind = "arrays" PROVE FALSE
    OBVIOUS
  <2>1. processes[p].todo \in {<<"seal">>, <<>>}
    BY <1>1 DEF RunInv, Programs
  <2>2. Head(<<"seal">>) = "seal"
    OBVIOUS
  <2> QED
    BY <1>2, <2>1, <2>2 DEF Linked
<1>9. kind = "forecast" => processes'[p].todo = <<"seal">>
  <2>1. Tail(<<"pending", "seal">>) = <<"seal">>
    OBVIOUS
  <2> QED
    BY <1>5, <1>8, <2>1
<1>10. Programs'
  BY <1>1, <1>3, <1>5, <1>8a, <1>9 DEF RunInv, Programs, Writing
<1>11. \A q \in Processes : Writing(q)' /\ processes'[q].open =>
          /\ q # p /\ Writing(q) /\ processes[q].open /\ processes'[q] = processes[q]
          /\ OpenFile(q)' = OpenFile(q) /\ OpenFile(q) # name
          /\ OpenFile(q) \in FileNames
  <2> SUFFICES ASSUME NEW q \in Processes, Writing(q)', processes'[q].open
               PROVE  /\ q # p /\ Writing(q) /\ processes[q].open /\ processes'[q] = processes[q]
                      /\ OpenFile(q)' = OpenFile(q) /\ OpenFile(q) # name
                      /\ OpenFile(q) \in FileNames
    OBVIOUS
  <2>1. q # p
    BY <1>5
  <2>2. Writing(q) /\ processes[q].open /\ processes'[q] = processes[q] /\ OpenFile(q)' = OpenFile(q)
    BY <1>5, <2>1 DEF Writing, OpenFile
  <2>3. OpenFile(q) # OpenFile(p)
    BY <1>1, <2>1, <2>2 DEF RunInv, OpenAlone
  <2>4. processes[q].todo \in Todo /\ processes[q].todo # <<>>
    BY <2>2 DEF RunInv, RunTypes, OpenTorn, Process
  <2> QED
    BY <2>1, <2>2, <2>3, <2>4, TodoFacts DEF OpenFile
<1>12. OpenTorn'
  <2> SUFFICES ASSUME NEW q \in Processes, Writing(q)', processes'[q].open
               PROVE  /\ processes'[q].todo # <<>>
                      /\ shelf'[OpenFile(q)'] = [of |-> processes'[q].content, whole |-> FALSE]
                      /\ ~(Linked /\ OpenFile(q) = "seal")'
    BY DEF OpenTorn
  <2>1. shelf'[OpenFile(q)] = shelf[OpenFile(q)]
    BY <1>4, <1>11
  <2> QED
    BY <1>1, <1>11, <2>1 DEF RunInv, OpenTorn, Linked
<1>13. OpenAlone'
  BY <1>11 DEF RunInv, OpenAlone
<1>14. Needed \subseteq FileNames /\ Needed' = Needed /\ "seal" \in FileNames
  BY <1>1, <1>3, ProgramFacts DEF Needed
<1>15. ASSUME NEW q \in Processes, Writing(q)'
       PROVE  /\ ~Linked => \A n \in Needed : n \in ToSet(processes'[q].todo) \/ Whole(n, processes[q].content)'
              /\ Linked /\ processes'[q].todo = <<>> /\ ~replaced => Whole("seal", processes[q].content)'
  <2>1. CASE q # p
    <3>1. processes'[q] = processes[q] /\ Writing(q)
      BY <1>15, <1>5, <2>1 DEF Writing
    <3>2. /\ ~Linked => \A n \in Needed : n \in ToSet(processes[q].todo) \/ Whole(n, processes[q].content)
          /\ Linked /\ processes[q].todo = <<>> /\ ~replaced => Whole("seal", processes[q].content)
      BY <3>1 DEF RunInv, Behind
    <3>3. \A n \in FileNames : Whole(n, processes[q].content) => Whole(n, processes[q].content)'
      BY <1>6, <3>1 DEF Whole
    <3> QED
      BY <1>14, <3>1, <3>2, <3>3
  <2>2. CASE q = p
    <3>1. ASSUME ~Linked, NEW n \in Needed
          PROVE  n \in ToSet(processes'[p].todo) \/ Whole(n, processes[p].content)'
      <4>0. n \in FileNames
        BY <1>14
      <4>1. n \in ToSet(processes[p].todo) \/ Whole(n, processes[p].content)
        BY <1>1, <3>1 DEF RunInv, Behind
      <4>2. CASE Whole(n, processes[p].content)
        BY <4>0, <1>5, <1>6, <4>2 DEF Whole
      <4>3. CASE n \in ToSet(processes[p].todo)
        <5>1. n = name \/ n \in ToSet(Tail(processes[p].todo))
          BY <1>2, <4>3, TodoFacts
        <5>2. CASE n = name
          BY <1>4, <1>5, <5>2 DEF Whole
        <5> QED
          BY <1>5, <5>1, <5>2
      <4> QED
        BY <4>1, <4>2, <4>3
    <3>2. ASSUME Linked PROVE processes'[p].todo # <<>>
      <4>1. <<"seal">> # <<>>
        OBVIOUS
      <4> QED
        BY <1>9, <1>8a, <3>2, <4>1 DEF Linked
    <3> QED
      BY <2>2, <3>1, <3>2
  <2> QED
    BY <2>1, <2>2
<1>16. Behind'
  BY <1>1, <1>14, <1>15 DEF Behind, Linked
<1>17. PendingOwned'
  <2> SUFFICES ASSUME kind = "forecast" PROVE PendingOwned'
    BY <1>1 DEF PendingOwned
  <2>1. name = "pending"
    <3>1. Head(<<"pending", "seal">>) = "pending"
      OBVIOUS
    <3> QED
      BY <1>8, <3>1
  <2>2. \A q \in Processes : Owns(q)' => Owns(q) /\ (q # p => processes'[q] = processes[q])
    BY <1>1, <1>5 DEF Owns, Writing
  <2>3. \A q \in Processes : Owns(q) => q = p
    BY <1>1 DEF RunInv, PendingOwned, Owns
  <2>4. Whole("pending", processes[p].content)' /\ ~processes'[p].open
    BY <1>4, <1>5, <2>1 DEF Whole
  <2>5. \A q \in Processes : Writing(q)' /\ processes'[q].todo = <<"seal">> => Owns(q)'
    BY DEF Owns
  <2> QED
    BY <2>2, <2>3, <2>4, <2>5 DEF PendingOwned
<1>18. AcceptedWhole'
  <2>1. \A c \in Contents : Complete(c) => Complete(c)'
    <3> SUFFICES ASSUME NEW c \in Contents, Complete(c) PROVE Complete(c)'
      OBVIOUS
    <3>1. \A n \in Needed : Whole(n, c)
      BY <1>3, CompleteMeans
    <3>2. \A n \in Needed : Whole(n, c)'
      BY <1>6, <1>14, <3>1
    <3>3. ToSet(FilesOf(kind)) \ Unread = Needed
      BY <1>3, ProgramFacts
    <3> QED
      BY <1>1, <3>2, <3>3 DEF Complete, Unread, Needed
  <2> QED
    BY <1>1, <2>1 DEF RunInv, RunTypes, AcceptedWhole
<1> QED
  BY <1>7, <1>10, <1>12, <1>13, <1>16, <1>17, <1>18 DEF RunInv

----------------------------------------------------------------------------
\* What is linked is never open under its final name.
LEMMA SealClosed ==
  ASSUME RunInv, kind = "arrays", NEW q \in Processes PROVE ~(Writing(q) /\ processes[q].open)
<1> SUFFICES ASSUME Writing(q), processes[q].open PROVE FALSE
  OBVIOUS
<1>1. processes[q].todo \in {<<"seal">>, <<>>} /\ processes[q].todo # <<>> /\ OpenFile(q) # "seal"
  BY DEF RunInv, Programs, OpenTorn, Linked
<1>2. Head(<<"seal">>) = "seal"
  OBVIOUS
<1> QED
  BY <1>1, <1>2 DEF OpenFile

\* While the seal is missing or torn, nothing is accepted and no process is past
\* its publication.
LEMMA NoSealYet ==
  ASSUME NoneApart, RunInv, ~replaced, Linked, shelf["seal"] = None \/ ~shelf["seal"].whole
  PROVE  accepted = None /\ \A q \in Processes : Writing(q) => processes[q].todo # <<>>
<1>1. ASSUME NEW c \in Contents, Whole("seal", c) PROVE FALSE
  <2>1. shelf["seal"] = [of |-> c, whole |-> TRUE]
    BY <1>1 DEF Whole
  <2>2. shelf["seal"] # None
    BY <2>1, NoFile
  <2>3. shelf["seal"].whole
    BY <2>1
  <2> QED
    BY <2>2, <2>3
<1>2. kind \in Kinds /\ "seal" \in Needed /\ accepted \in Contents \union {None}
  BY ProgramFacts DEF RunInv, RunTypes
<1>3. accepted = None
  BY <1>1, <1>2, CompleteMeans DEF RunInv, AcceptedWhole
<1>4. ASSUME NEW q \in Processes, Writing(q) PROVE processes[q].todo # <<>>
  <2>1. processes[q].content \in Contents
    BY <1>4 DEF RunInv, Programs, Writing
  <2> QED
    BY <1>1, <1>4, <2>1 DEF RunInv, Behind
<1> QED
  BY <1>3, <1>4

\* A link never replaces; a rename has the only pending file.
LEMMA PublishKeeps == ASSUME NoneApart, RunInv, NEW p \in Processes, Publish(p) PROVE RunInv'
<1> DEFINE content == processes[p].content
<1>1. /\ Writing(p) /\ processes[p].todo = <<"seal">> /\ Linked
      /\ UNCHANGED <<kind, accepted>>
  BY DEF Publish, Writing
<1>2. content \in Contents /\ "seal" \in FileNames /\ "pending" \in FileNames
  BY <1>1 DEF RunInv, Programs, Writing, FileNames
<1>3. ~processes[p].open
  <2>1. Head(<<"seal">>) = "seal"
    OBVIOUS
  <2> QED
    BY <1>1, <2>1 DEF RunInv, OpenTorn, OpenFile
<1>4. CASE kind = "arrays" /\ shelf["seal"] # None
  <2>1. Finish(p) /\ UNCHANGED <<shelf, replaced>>
    BY <1>4 DEF Publish
  <2>2. AcceptedWhole' /\ accepted' \in Contents \union {None}
    BY <1>1, <2>1, AcceptsRead
  <2> QED
    BY <1>1, <2>1, <2>2, FinishKeeps
<1>5. CASE kind = "forecast" \/ shelf["seal"] = None
  <2>1. /\ kind = "arrays" \/ kind = "forecast"
        /\ processes' = [processes EXCEPT ![p].todo = <<>>]
        /\ replaced' = replaced \/ replaced' = (replaced \/ shelf["seal"] # None)
        /\ ~replaced' => ~replaced /\ shelf["seal"] = None
    BY <1>1, <1>5 DEF Publish, Linked
  <2>2. /\ processes'[p].job = "writing" /\ ~processes'[p].open
        /\ processes'[p].content = content /\ processes'[p].todo = <<>>
        /\ \A q \in Processes : q # p => processes'[q] = processes[q]
        /\ processes' \in [Processes -> Process]
    BY <1>1, <1>3, <2>1 DEF RunInv, RunTypes, Process, Writing, Todo
  <2>3. /\ shelf'["seal"] = [of |-> content, whole |-> TRUE]
        /\ shelf' \in [FileNames -> File \union {None}]
    <3>1. CASE kind = "arrays"
      <4>1. shelf' = [shelf EXCEPT !["seal"] = [of |-> content, whole |-> TRUE]]
        BY <1>5, <3>1 DEF Publish
      <4> QED
        BY <1>2, <4>1 DEF RunInv, RunTypes, File
    <3>2. CASE kind = "forecast"
      <4>1. shelf' = [shelf EXCEPT !["seal"] = shelf["pending"], !["pending"] = None]
        BY <3>2 DEF Publish
      <4>2. shelf["pending"] = [of |-> content, whole |-> TRUE]
        BY <1>1, <3>2 DEF RunInv, PendingOwned, Whole
      <4> QED
        BY <1>2, <4>1, <4>2 DEF RunInv, RunTypes, File
    <3> QED
      BY <2>1, <3>1, <3>2
  <2>4. replaced' \in BOOLEAN
    BY <2>1 DEF RunInv, RunTypes
  <2>5. RunTypes'
    BY <1>1, <2>2, <2>3, <2>4 DEF RunInv, RunTypes
  <2>6. Programs'
    BY <1>1, <2>2 DEF RunInv, Programs, Writing
  <2>7. \A q \in Processes : ~(Writing(q)' /\ processes'[q].open)
    <3> SUFFICES ASSUME NEW q \in Processes, Writing(q)', processes'[q].open PROVE FALSE
      OBVIOUS
    <3>1. q # p /\ Writing(q) /\ processes[q].open
      BY <2>2 DEF Writing
    <3>2. CASE kind = "arrays"
      BY <3>1, <3>2, SealClosed
    <3>3. CASE kind = "forecast"
      BY <1>1, <3>1, <3>3 DEF RunInv, PendingOwned, Owns
    <3> QED
      BY <2>1, <3>2, <3>3
  <2>8. OpenTorn' /\ OpenAlone'
    BY <2>7 DEF OpenTorn, OpenAlone
  <2>9. ~replaced' => accepted = None /\ \A q \in Processes : Writing(q) => processes[q].todo # <<>>
    BY <1>1, <2>1, NoSealYet
  <2>10. ASSUME NEW q \in Processes, Writing(q)', processes'[q].todo = <<>>, ~replaced'
         PROVE  Whole("seal", processes[q].content)' 
    <3>1. q = p
      BY <2>2, <2>9, <2>10 DEF Writing
    <3> QED
      BY <2>2, <2>3, <3>1 DEF Whole
  <2>11. Behind'
    BY <1>1, <2>10 DEF Behind, Linked
  <2>12. PendingOwned'
    <3> SUFFICES ASSUME kind = "forecast" PROVE PendingOwned'
      BY <1>1 DEF PendingOwned
    <3>1. \A q \in Processes : Owns(q) => q = p
      BY <1>1 DEF RunInv, PendingOwned, Owns
    <3>2. <<>> # <<"seal">>
      OBVIOUS
    <3>3. \A q \in Processes : ~Owns(q)'
      BY <2>2, <3>1, <3>2 DEF Owns, Writing
    <3> QED
      BY <3>3 DEF PendingOwned, Owns
  <2>13. AcceptedWhole'
    BY <1>1, <2>9 DEF AcceptedWhole
  <2> QED
    BY <2>5, <2>6, <2>8, <2>11, <2>12, <2>13 DEF RunInv
<1> QED
  BY <1>1, <1>4, <1>5 DEF Linked

\* A broken file is moved aside; a whole one counts as replaced.
LEMMA ArchiveKeeps == ASSUME NoneApart, RunInv, NEW p \in Processes, Archive(p) PROVE RunInv'
<1>1. /\ processes[p].job = "archiving"
      /\ UNCHANGED <<kind, accepted>>
  BY DEF Archive
<1>2. /\ kind = "arrays" /\ processes[p].todo = <<"seal">> /\ ~processes[p].open
      /\ processes[p].content \in Contents
      /\ "seal" \in FileNames /\ "archive" \in FileNames
  BY <1>1 DEF RunInv, Programs, FileNames
<1>3. CASE shelf["seal"] = None
  <2>1. Finish(p) /\ UNCHANGED <<shelf, replaced>>
    BY <1>3 DEF Archive
  <2>2. AcceptedWhole' /\ accepted' \in Contents \union {None}
    BY <1>1, <2>1, AcceptsRead
  <2> QED
    BY <1>1, <2>1, <2>2, FinishKeeps
<1>4. CASE shelf["seal"] # None
  <2>1. /\ shelf' = [shelf EXCEPT !["archive"] = shelf["seal"], !["seal"] = None]
        /\ replaced' = (replaced \/ shelf["seal"].whole)
        /\ processes' = [processes EXCEPT ![p].job = "writing"]
    BY <1>4 DEF Archive
  <2>2. /\ processes'[p].job = "writing" /\ ~processes'[p].open
        /\ processes'[p].content = processes[p].content /\ processes'[p].todo = <<"seal">>
        /\ \A q \in Processes : q # p => processes'[q] = processes[q]
        /\ processes' \in [Processes -> Process]
    BY <1>1, <1>2, <2>1 DEF RunInv, RunTypes, Process
  <2>3. shelf["seal"] \in File /\ shelf' \in [FileNames -> File \union {None}]
    BY <1>2, <1>4, <2>1 DEF RunInv, RunTypes
  <2>4. replaced' \in BOOLEAN /\ (~replaced' => ~replaced /\ ~shelf["seal"].whole)
    BY <2>1, <2>3 DEF RunInv, RunTypes, File
  <2>5. RunTypes'
    BY <1>1, <2>2, <2>3, <2>4 DEF RunInv, RunTypes
  <2>6. Programs'
    BY <1>1, <1>2, <2>2 DEF RunInv, Programs, Writing
  <2>7. \A q \in Processes : ~(Writing(q)' /\ processes'[q].open)
    <3> SUFFICES ASSUME NEW q \in Processes, Writing(q)', processes'[q].open PROVE FALSE
      OBVIOUS
    <3>1. Writing(q) /\ processes[q].open
      BY <2>2 DEF Writing
    <3> QED
      BY <1>2, <3>1, SealClosed
  <2>8. OpenTorn' /\ OpenAlone'
    BY <2>7 DEF OpenTorn, OpenAlone
  <2>9. ~replaced' => accepted = None /\ \A q \in Processes : Writing(q) => processes[q].todo # <<>>
    BY <1>2, <2>4, NoSealYet DEF Linked
  <2>10. <<"seal">> # <<>>
    OBVIOUS
  <2>11. \A q \in Processes : Writing(q)' /\ ~replaced' => processes'[q].todo # <<>>
    BY <2>2, <2>9, <2>10 DEF Writing
  <2>12. Behind'
    BY <1>1, <1>2, <2>11 DEF Behind, Linked
  <2>13. PendingOwned' /\ AcceptedWhole'
    BY <1>1, <1>2, <2>9 DEF PendingOwned, AcceptedWhole
  <2> QED
    BY <2>5, <2>6, <2>8, <2>12, <2>13 DEF RunInv
<1> QED
  BY <1>3, <1>4

\* What a process hands over is behind it.
LEMMA HandKeeps == ASSUME NoneApart, RunInv, NEW p \in Processes, Hand(p) PROVE RunInv'
<1> DEFINE content == processes[p].content
<1>1. /\ Writing(p) /\ processes[p].todo = <<>> /\ accepted' = content /\ Finish(p)
      /\ UNCHANGED <<kind, shelf, replaced>>
  BY DEF Hand, Writing
<1>2. kind \in Kinds /\ content \in Contents
  BY <1>1 DEF RunInv, RunTypes, Programs, Writing
<1>3. ASSUME ~replaced PROVE Complete(content)
  <2>1. CASE ~Linked
    <3>1. \A n \in Needed : n \in ToSet(processes[p].todo) \/ Whole(n, content)
      BY <1>1, <2>1 DEF RunInv, Behind
    <3>2. ToSet(processes[p].todo) = {}
      BY <1>1, TodoFacts
    <3> QED
      BY <1>2, <3>1, <3>2, CompleteMeans
  <2>2. CASE Linked
    <3>1. Whole("seal", content)
      BY <1>1, <1>3, <2>2 DEF RunInv, Behind
    <3>2. Needed = {"seal"}
      BY <2>2 DEF Needed, Linked
    <3> QED
      BY <1>2, <3>1, <3>2, CompleteMeans
  <2> QED
    BY <2>1, <2>2
<1>4. \A c : Complete(c) => Complete(c)'
  BY <1>1 DEF Complete, Whole, Unread
<1>5. PICK c \in Contents : c = content
  BY <1>2
<1>6. AcceptedWhole'
  <2>1. accepted' = c /\ (~replaced' => Complete(c)')
    BY <1>1, <1>3, <1>4, <1>5
  <2> QED
    BY <2>1 DEF AcceptedWhole, Complete, Whole, Unread
<1>7. accepted' \in Contents \union {None}
  BY <1>1, <1>2
<1> QED
  BY <1>1, <1>6, <1>7, FinishKeeps

\* A reader accepts what it finds.
LEMMA ReadKeeps == ASSUME RunInv, ReadRun PROVE RunInv'
<1>1. UNCHANGED <<kind, shelf, processes, replaced>> /\ accepted' = Reads /\ Reads # None
  BY DEF ReadRun
<1>2. AcceptedWhole' /\ accepted' \in Contents \union {None}
  BY <1>1, AcceptsRead
<1>3. RunTypes' /\ Programs' /\ OpenTorn' /\ OpenAlone'
  BY <1>1, <1>2 DEF RunInv, RunTypes, Programs, OpenTorn, OpenAlone, Writing, OpenFile, Linked
<1>4. Behind' /\ PendingOwned'
  BY <1>1 DEF RunInv, Behind, PendingOwned, Owns, Writing, Linked, Needed, Whole
<1> QED
  BY <1>2, <1>3, <1>4 DEF RunInv

\* A power failure leaves no process writing, and nobody remembers.
LEMMA PowerLossKeeps == ASSUME RunInv, PowerLoss PROVE RunInv'
<1>1. UNCHANGED <<kind, replaced>> /\ accepted' = None
  BY DEF PowerLoss
<1>2. PICK gone \in SUBSET {n \in FileNames : shelf[n] # None}, cut \in SUBSET {n \in FileNames : shelf[n] # None} :
         shelf' = [n \in FileNames |->
                      IF n \in gone THEN None
                      ELSE IF n \in cut THEN [shelf[n] EXCEPT !.whole = FALSE]
                      ELSE shelf[n]]
  BY DEF PowerLoss
<1>3. shelf' \in [FileNames -> File \union {None}]
  <2>1. ASSUME NEW n \in cut PROVE [shelf[n] EXCEPT !.whole = FALSE] \in File
    <3>1. shelf[n] \in File
      BY <2>1, <1>2 DEF RunInv, RunTypes
    <3> QED
      BY <3>1 DEF File
  <2>2. \A n \in FileNames : shelf[n] \in File \union {None}
    BY DEF RunInv, RunTypes
  <2> QED
    BY <1>2, <2>1, <2>2
<1>4. /\ processes' \in [Processes -> Process]
      /\ \A p \in Processes : processes'[p].job \in {"none", "done"}
  <2>1. processes' = [p \in Processes |->
                        IF processes[p].job = "none" THEN processes[p]
                        ELSE [processes[p] EXCEPT !.job = "done"]]
    BY DEF PowerLoss
  <2>2. \A p \in Processes : processes[p] \in Process
    BY DEF RunInv, RunTypes
  <2>3. \A p \in Processes : [processes[p] EXCEPT !.job = "done"] \in Process
    BY <2>2 DEF Process
  <2>4. \A p \in Processes : [processes[p] EXCEPT !.job = "done"].job = "done"
    BY <2>2 DEF Process
  <2> QED
    BY <2>1, <2>2, <2>3, <2>4
<1>5. RunTypes'
  BY <1>1, <1>3, <1>4 DEF RunInv, RunTypes
<1>6. \A p \in Processes : ~Writing(p)' /\ processes'[p].job # "archiving"
  BY <1>4 DEF Writing
<1>7. Programs' /\ OpenTorn' /\ OpenAlone' /\ Behind' /\ PendingOwned'
  BY <1>6 DEF Programs, OpenTorn, OpenAlone, Behind, PendingOwned, Owns, Writing
<1>8. AcceptedWhole'
  BY <1>1 DEF AcceptedWhole
<1> QED
  BY <1>5, <1>7, <1>8 DEF RunInv

----------------------------------------------------------------------------
\* Every step keeps the invariant.
LEMMA RunStep == ASSUME NoneApart, RunInv, [RunNext]_runVars PROVE RunInv'
<1>1. CASE UNCHANGED runVars
  <2>1. UNCHANGED <<kind, shelf, processes, accepted, replaced>>
    BY <1>1 DEF runVars
  <2>2. RunTypes' /\ Programs' /\ OpenTorn' /\ OpenAlone'
    BY <2>1 DEF RunInv, RunTypes, Programs, OpenTorn, OpenAlone, Writing, OpenFile, Linked
  <2>3. Behind' /\ PendingOwned'
    BY <2>1 DEF RunInv, Behind, PendingOwned, Owns, Writing, Linked, Needed, Whole
  <2>4. AcceptedWhole'
    BY <2>1 DEF RunInv, AcceptedWhole, Complete, Whole, Unread
  <2> QED
    BY <2>2, <2>3, <2>4 DEF RunInv
<1>2. ASSUME NEW p \in Processes, KillProcess(p) PROVE RunInv'
  <2>1. Finish(p) /\ UNCHANGED <<kind, shelf, accepted, replaced>>
    BY <1>2 DEF KillProcess
  <2>2. AcceptedWhole' /\ accepted' \in Contents \union {None}
    BY <2>1, AcceptsRead
  <2> QED
    BY <2>1, <2>2, FinishKeeps
<1>3. CASE RunNext
  <2>1. CASE ReadRun
    BY <2>1, ReadKeeps
  <2>2. CASE PowerLoss
    BY <2>2, PowerLossKeeps
  <2>3. CASE \E p \in Processes :
                BeginPublication(p) \/ Open(p) \/ Fill(p) \/ Publish(p) \/ Archive(p) \/ Hand(p) \/ KillProcess(p)
    BY <2>3, <1>2, BeginKeeps, OpenKeeps, FillKeeps, PublishKeeps, ArchiveKeeps, HandKeeps
  <2> QED
    BY <1>3, <2>1, <2>2, <2>3 DEF RunNext
<1> QED
  BY <1>1, <1>3

\* What was published or read stays, whole, what every later reader finds while
\* the power stays, whoever is killed and whatever the others started with
\* (artifacts/store.py write_run, data/acquisition.py, state_data.py,
\* state_artifacts.py save_arrays, analogue_study.py, models/analogues.py).
THEOREM PublicationsStay == ASSUME NoneApart PROVE RunSpec => []PublicationStays
<1>1. RunInit => RunInv
  BY RunInitial
<1>2. RunInv /\ [RunNext]_runVars => RunInv'
  BY RunStep
<1>3. RunInv => PublicationStays
  BY ReadsMeans DEF RunInv, RunTypes, AcceptedWhole, PublicationStays
<1> QED
  BY <1>1, <1>2, <1>3, PTL DEF RunSpec
=============================================================================
