----------------------------- MODULE RunStores -----------------------------
(***************************************************************************)
(* How the quant package publishes what it computed: write_run() and       *)
(* read_run() of artifacts/store.py, the responses of data/acquisition.py, *)
(* the cache of state_data.py, save_arrays() of state_artifacts.py, the    *)
(* cache and the forecasts of analogue_study.py, and the memory of         *)
(* models/analogues.py.                                                    *)
(*                                                                         *)
(* A publication is a few files, the last of which seals it.  Nothing is   *)
(* synced: a process may be killed while it writes a file, and a power     *)
(* failure may lose or cut any file.  A file is abstracted to whose        *)
(* content it holds and whether it is whole.                               *)
(***************************************************************************)
EXTENDS Nothing, Integers, SequencesExt, FiniteSets

CONSTANTS Processes, Contents, MaxPowerLosses

VARIABLES
    kind,      \* of publication
    directory, \* whether it was made
    shelf,     \* by file name: [of, whole], or None
    processes, \* [job, content, todo, open]
    accepted,  \* the content that a process returned or read since the last power failure
    replaced,  \* whether a whole file was renamed away or over by a process that raced
    losses

runVars == <<kind, directory, shelf, processes, accepted, replaced, losses>>

Kinds == {"run", "raw", "cache", "arrays", "forecast", "memory"}

FilesOf(k) ==
    CASE k \in {"run", "cache", "memory"} -> <<"first", "second", "seal">>
      [] k = "raw" -> <<"first", "seal">>
      [] k = "arrays" -> <<"seal">>
      [] k = "forecast" -> <<"pending", "seal">>

FileNames == {"first", "second", "seal", "pending", "archive"}

Whole(name, content) == shelf[name] = [of |-> content, whole |-> TRUE]

\* read_run(), read_cached(), StateInputs: the digests in the seal are those of
\* the other files; arrays and forecasts are one file.  FittedAnalogue does not
\* read memory.json, the second file of a memory.
Unread == {"pending"} \union (IF kind = "memory" THEN {"second"} ELSE {})
\* Bug: a manifest is read without the files it names.
SealOnly(content) == Whole("seal", content)
Complete(content) == \A name \in ToSet(FilesOf(kind)) \ Unread : Whole(name, content)

Reads == IF \E c \in Contents : Complete(c) THEN CHOOSE c \in Contents : Complete(c) ELSE None

RunInit ==
    /\ kind \in Kinds
    /\ directory = FALSE
    /\ shelf = [n \in FileNames |-> None]
    /\ processes = [p \in Processes |-> [job |-> "none", content |-> None, todo |-> <<>>, open |-> FALSE]]
    /\ accepted = None /\ replaced = FALSE /\ losses = 0

Enter(p, job, content) ==
    processes' = [processes EXCEPT ![p] =
        [job |-> job, content |-> content, todo |-> FilesOf(kind), open |-> FALSE]]
Finish(p) == processes' = [processes EXCEPT ![p].job = "done"]

\* write_run(): a directory of its own.
BeginRun(p, content) ==
    /\ kind = "run"
    /\ IF directory THEN Finish(p) ELSE Enter(p, "writing", content)
    /\ directory' = TRUE
    /\ UNCHANGED accepted

\* collect(): the sealed response is used, half a pair is an error.
BeginRaw(p, content) ==
    /\ kind = "raw"
    /\ IF shelf["seal"] = None /\ shelf["first"] = None THEN Enter(p, "writing", content) ELSE Finish(p)
    /\ accepted' = IF shelf["seal"] # None /\ Reads # None THEN Reads ELSE accepted
    /\ directory' = TRUE

\* prepare()
BeginCache(p, content) ==
    /\ kind = "cache"
    /\ IF shelf["seal"] = None /\ ~directory THEN Enter(p, "writing", content) ELSE Finish(p)
    /\ accepted' = IF shelf["seal"] # None /\ Reads # None THEN Reads ELSE accepted
    /\ directory' = (directory \/ shelf["seal"] = None)

\* save_arrays(): a broken file is to be kept aside, a whole one must be equal.
BeginArrays(p, content) ==
    /\ kind = "arrays"
    /\ IF shelf["seal"] = None THEN Enter(p, "writing", content)
       ELSE IF ~shelf["seal"].whole /\ shelf["archive"] = None THEN Enter(p, "archiving", content)
       ELSE Finish(p)
    /\ accepted' = IF Reads = content THEN content ELSE accepted
    /\ UNCHANGED directory

\* forecast() of the analogue study: what is saved must be equal, what was left
\* pending is for a person.
BeginForecast(p, content) ==
    /\ kind = "forecast"
    /\ IF shelf["seal"] = None /\ shelf["pending"] = None
       THEN Enter(p, "writing", content) ELSE Finish(p)
    /\ accepted' = IF Reads = content THEN content ELSE accepted
    /\ UNCHANGED directory

\* build_memory(): memory.json stands for the memory, which may still lack
\* models; a directory without it is an error.
BeginMemory(p, content) ==
    /\ kind = "memory"
    /\ IF shelf["second"] = None /\ ~directory THEN Enter(p, "writing", content) ELSE Finish(p)
    /\ accepted' = IF shelf["second"] # None /\ Reads # None THEN Reads ELSE accepted
    /\ directory' = TRUE

BeginPublication(p) ==
    /\ processes[p].job = "none"
    /\ \E content \in Contents :
          BeginRun(p, content) \/ BeginRaw(p, content) \/ BeginCache(p, content)
          \/ BeginArrays(p, content) \/ BeginForecast(p, content) \/ BeginMemory(p, content)
    /\ UNCHANGED <<kind, shelf, replaced, losses>>

\* Files are opened for exclusive creation.
\* Bug: an existing file is truncated.
OpenAnyway(p, name) == TRUE
MayOpen(p, name) == shelf[name] = None

Linked == kind \in {"arrays", "forecast"}

Open(p) ==
    LET name == Head(processes[p].todo) IN
    /\ processes[p].job = "writing" /\ processes[p].todo # <<>> /\ ~processes[p].open
    /\ ~(Linked /\ name = "seal")
    /\ IF MayOpen(p, name)
       THEN /\ shelf' = [shelf EXCEPT ![name] = [of |-> processes[p].content, whole |-> FALSE]]
            /\ processes' = [processes EXCEPT ![p].open = TRUE]
       ELSE Finish(p) /\ UNCHANGED shelf
    /\ UNCHANGED <<kind, directory, accepted, replaced, losses>>

Fill(p) ==
    LET name == Head(processes[p].todo) IN
    /\ processes[p].job = "writing" /\ processes[p].open
    /\ shelf' = [shelf EXCEPT ![name] = [of |-> processes[p].content, whole |-> TRUE]]
    /\ processes' = [processes EXCEPT ![p].open = FALSE, ![p].todo = Tail(@)]
    /\ UNCHANGED <<kind, directory, accepted, replaced, losses>>

\* save_arrays(): os.link() never replaces; forecast(): rename() does.
Publish(p) ==
    /\ processes[p].job = "writing" /\ processes[p].todo = <<"seal">> /\ Linked
    /\ IF kind = "arrays"
       THEN /\ IF shelf["seal"] = None
               THEN /\ shelf' = [shelf EXCEPT !["seal"] = [of |-> processes[p].content, whole |-> TRUE]]
                    /\ processes' = [processes EXCEPT ![p].todo = <<>>]
               ELSE Finish(p) /\ UNCHANGED shelf
            /\ UNCHANGED replaced
       ELSE /\ shelf' = [shelf EXCEPT !["seal"] = shelf["pending"], !["pending"] = None]
            /\ replaced' = (replaced \/ shelf["seal"] # None)
            /\ processes' = [processes EXCEPT ![p].todo = <<>>]
    /\ UNCHANGED <<kind, directory, accepted, losses>>

\* save_arrays(): the rename of what was found broken, whatever is there by now.
Archive(p) ==
    /\ processes[p].job = "archiving"
    /\ IF shelf["seal"] = None THEN Finish(p) /\ UNCHANGED <<shelf, replaced>>
       ELSE /\ shelf' = [shelf EXCEPT !["archive"] = shelf["seal"], !["seal"] = None]
            /\ replaced' = (replaced \/ shelf["seal"].whole)
            /\ processes' = [processes EXCEPT ![p].job = "writing"]
    /\ UNCHANGED <<kind, directory, accepted, losses>>

\* The caller gets what it wrote.
Hand(p) ==
    /\ processes[p].job = "writing" /\ processes[p].todo = <<>>
    /\ accepted' = processes[p].content
    /\ Finish(p)
    /\ UNCHANGED <<kind, directory, shelf, replaced, losses>>

ReadRun ==
    /\ Reads # None
    /\ accepted' = Reads
    /\ UNCHANGED <<kind, directory, shelf, processes, replaced, losses>>

KillProcess(p) ==
    /\ processes[p].job \in {"writing", "archiving"}
    /\ Finish(p)
    /\ UNCHANGED <<kind, directory, shelf, accepted, replaced, losses>>

PowerLoss ==
    /\ losses < MaxPowerLosses
    /\ losses' = losses + 1
    /\ \E gone, cut \in SUBSET {n \in FileNames : shelf[n] # None} :
          /\ gone \intersect cut = {}
          /\ shelf' = [n \in FileNames |->
                          IF n \in gone THEN None
                          ELSE IF n \in cut THEN [shelf[n] EXCEPT !.whole = FALSE]
                          ELSE shelf[n]]
    /\ \/ UNCHANGED directory
       \/ directory' = FALSE /\ \A n \in FileNames : shelf'[n] = None
    /\ processes' = [p \in Processes |->
                        IF processes[p].job = "none" THEN processes[p]
                        ELSE [processes[p] EXCEPT !.job = "done"]]
    /\ accepted' = None
    /\ UNCHANGED <<kind, replaced>>

RunNext ==
    \/ \E p \in Processes : BeginPublication(p) \/ Open(p) \/ Fill(p) \/ Publish(p) \/ Archive(p) \/ Hand(p) \/ KillProcess(p)
    \/ ReadRun \/ PowerLoss

RunSpec == RunInit /\ [][RunNext]_runVars

---------------------------------------------------------------------------
(* Property. *)

\* What a process published or a reader accepted is what every later reader
\* finds, whole, while the power stays: no process that started with another
\* content, was killed in a file, or found half a publication, adds to it or
\* replaces it; unless two processes raced to replace a file by a rename.
PublicationStays == accepted # None /\ ~replaced => Reads = accepted
=============================================================================
