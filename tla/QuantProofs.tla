---------------------------- MODULE QuantProofs -----------------------------
(***************************************************************************)
(* Proofs about the quant package: for every pool, calendar, horizon,      *)
(* panel of outcomes, window and cutoff, labels cut at an earlier time are *)
(* the labels of that time, and a fold trains on what was known before its *)
(* validation and accounts for every row of its window; for every calendar *)
(* and set of years, no artifact of a state study rests on an outcome that *)
(* was not available before its cutoff; for every memory, a search of      *)
(* neighbours gives what a scan of all rows would; and for all rows of the *)
(* provider, reviewed or not, the chains of prices have no hole, and a     *)
(* store that opens is whole and read alike.                               *)
(*                                                                         *)
(* A built label is first given as a function of its key (LabelOf); then   *)
(* cutting, the checks of labels, the state studies' supervision and the   *)
(* three views of prepare_fold are statements about that function.  For    *)
(* the state study, what each artifact asks for is bounded (Asks), then    *)
(* what a year's study ever comes to (Scope), which is closed under it.    *)
(* Chains of prices grow by one session (ChainsGrow), lose what waits at   *)
(* their end (ChainsEarlier), and stay when it is confirmed (ChainsAlike). *)
(***************************************************************************)
EXTENDS MarketStore, WalkForward, StateStudies, AnalogueSearch, SelectionsProofs, FiniteSetTheorems, TLAPS

-----------------------------------------------------------------------------
(* Times and ends. *)

\* Openings, scorings and closes are times of their day, and days follow times.
LEMMA Times ==
    ASSUME NEW d \in Int, NEW t \in Int
    PROVE  /\ OpeningOf(d) = 4 * d /\ ScoringOf(d) = 4 * d + 3 /\ Instant(d, 1) = 4 * d + 1
           /\ OpeningOf(d) \in Int /\ DayOf(OpeningOf(d)) = d
           /\ DayOf(t) \in Int
           /\ \A u \in Int : t <= u => DayOf(t) <= DayOf(u)
BY DEF OpeningOf, ScoringOf, Instant, DayOf

\* What a panel says of a return that is known.
LEMMA OutcomeFacts ==
    ASSUME NEW o \in OutcomeMaps, NEW k \in DOMAIN o, o[k] # None
    PROVE  /\ o[k].value \in Int /\ o[k].ready \in Int
           /\ EndOf(k[2]) # None => Instant(EndOf(k[2]), 1) <= o[k].ready
BY OutcomeAssumption DEF PanelOutcomes

\* A key of a panel is a member of the pool on a day, and the whole pool has that day.
LEMMA KeyParts ==
    ASSUME NEW o \in OutcomeMaps, NEW k \in DOMAIN o
    PROVE  /\ k[1] \in Member /\ k[2] \in Day /\ k[2] \in Int /\ k = <<k[1], k[2]>>
           /\ \A m \in Member : <<m, k[2]>> \in DOMAIN o
BY OutcomeAssumption, PoolAssumption DEF PanelOutcomes, Keys, Day

\* A horizon ends after its day.
LEMMA Ends ==
    ASSUME NEW d \in Day
    PROVE  EndOf(d) # None => EndOf(d) \in Int /\ d < EndOf(d)
BY PoolAssumption DEF EndOf, Day

-----------------------------------------------------------------------------
(* What of the outcomes a cutoff shows. *)

\* A return is shown once its horizon ended and it was known.
Shown(o, k, c) ==
    /\ EndOf(k[2]) # None /\ EndOf(k[2]) < DayOf(c)
    /\ o[k] # None /\ o[k].ready < c

\* build_label_rows keeps a return exactly when it is shown, and a reason otherwise.
LEMMA ObservedShown ==
    ASSUME NEW o \in OutcomeMaps, NEW k \in DOMAIN o, NEW c \in Int
    PROVE  LET seen == Observed(o, k, c)
           IN /\ seen.end = EndOf(k[2])
              /\ Shown(o, k, c) => seen.value = o[k].value /\ seen.ready = o[k].ready /\ seen.reason = None
              /\ ~Shown(o, k, c) => seen.value = None /\ seen.ready = None /\ seen.reason \in Reasons
<1>1. k[2] \in Day /\ k[2] \in Int /\ DayOf(c) \in Int
  BY KeyParts, Times
<1>2. EndOf(k[2]) # None => EndOf(k[2]) \in Int
  BY <1>1, Ends
<1>3. o[k] # None => o[k].value \in Int /\ o[k].ready \in Int
  BY OutcomeFacts
<1> QED
  BY <1>1, <1>2, <1>3 DEF Observed, Shown, Reasons

\* A return that is shown was known before the cutoff, whose day is later than its horizon.
LEMMA ShownFacts ==
    ASSUME NEW o \in OutcomeMaps, NEW k \in DOMAIN o, NEW c \in Int, Shown(o, k, c)
    PROVE  /\ o[k].value \in Int /\ o[k].value # None /\ o[k].ready \in Int
           /\ EndOf(k[2]) \in Int /\ k[2] < EndOf(k[2])
           /\ Instant(EndOf(k[2]), 1) <= o[k].ready
<1>1. k[2] \in Day
  BY KeyParts
<1> QED
  BY <1>1, Ends, OutcomeFacts, NothingAssumption DEF Shown

\* The value shows whether there is one.
LEMMA ValueShown ==
    ASSUME NEW o \in OutcomeMaps, NEW k \in DOMAIN o, NEW c \in Int
    PROVE  Observed(o, k, c).value # None <=> Shown(o, k, c)
BY ObservedShown, ShownFacts

\* What an earlier cutoff hides.
LEMMA ShownEarlier ==
    ASSUME NEW o \in OutcomeMaps, NEW k \in DOMAIN o, NEW c \in Int, NEW e \in Int, e <= c
    PROVE  Shown(o, k, e) <=> /\ Shown(o, k, c) /\ EndOf(k[2]) < DayOf(e) /\ o[k].ready < e
<1>1. k[2] \in Day
  BY KeyParts
<1>2. DayOf(e) \in Int /\ DayOf(c) \in Int /\ DayOf(e) <= DayOf(c)
  BY Times
<1>3. EndOf(k[2]) # None => EndOf(k[2]) \in Int
  BY <1>1, Ends
<1>4. o[k] # None => o[k].ready \in Int
  BY OutcomeFacts
<1> QED
  BY <1>2, <1>3, <1>4 DEF Shown

\* The same observation, as a label keeps it.
Kept(label) == [end |-> label.end, value |-> label.value, ready |-> label.outcomeReady, reason |-> label.reason]

\* A row of what is observed, and what is left of it.
Seen(end, value, ready, reason) == [end |-> end, value |-> value, ready |-> ready, reason |-> reason]

\* _identify hides what the cutoff hides, and changes nothing else.
LEMMA CensoredSeen ==
    ASSUME NEW end, NEW v, NEW r, NEW why, NEW c
    PROVE  Censored(Seen(end, v, r, why), c) =
              IF end # None /\ end >= DayOf(c) THEN Seen(end, None, None, "horizon")
              ELSE IF r # None /\ r >= c THEN Seen(end, None, None, "availability")
              ELSE Seen(end, v, r, why)
<1> DEFINE row == Seen(end, v, r, why)
<1>1. row.end = end /\ row.ready = r
  BY DEF Seen
<1>2. ASSUME NEW reason
      PROVE  [row EXCEPT !.value = None, !.ready = None, !.reason = reason] = Seen(end, None, None, reason)
  <2>1. [row EXCEPT !.value = None] = Seen(end, None, r, why)
    BY DEF Seen
  <2>2. [Seen(end, None, r, why) EXCEPT !.ready = None] = Seen(end, None, None, why)
    BY DEF Seen
  <2>3. [Seen(end, None, None, why) EXCEPT !.reason = reason] = Seen(end, None, None, reason)
    BY DEF Seen
  <2> HIDE DEF row
  <2> QED
    BY <2>1, <2>2, <2>3
<1> HIDE DEF row
<1>4. /\ [row EXCEPT !.value = None, !.ready = None, !.reason = "horizon"] = Seen(end, None, None, "horizon")
      /\ [row EXCEPT !.value = None, !.ready = None, !.reason = "availability"] = Seen(end, None, None, "availability")
  BY <1>2, Zenon
<1>3. Censored(row, c) = IF end # None /\ end >= DayOf(c) THEN Seen(end, None, None, "horizon")
                         ELSE IF r # None /\ r >= c THEN Seen(end, None, None, "availability") ELSE row
  BY <1>1, <1>4 DEF Censored
<1> QED
  BY <1>3 DEF row

\* What build_label_rows observed at a cutoff, _identify at that cutoff leaves alone.
LEMMA CensoredObserved ==
    ASSUME NEW o \in OutcomeMaps, NEW k \in DOMAIN o, NEW c \in Int, NEW e \in Int, e <= c
    PROVE  Censored(Observed(o, k, c), e) = Observed(o, k, e)
<1>1. k[2] \in Day
  BY KeyParts
<1>2. DayOf(e) \in Int /\ DayOf(c) \in Int /\ DayOf(e) <= DayOf(c)
  BY Times
<1>3. EndOf(k[2]) # None => EndOf(k[2]) \in Int
  BY <1>1, Ends
<1>4. o[k] # None => o[k].ready \in Int /\ o[k].ready # None
  BY OutcomeFacts, NothingAssumption
<1> DEFINE day == EndOf(k[2])
           seen == Observed(o, k, c)
           Row(value, ready, reason) == Seen(day, value, ready, reason)
<1>5. CASE day = None
  <2>1. seen = Row(None, None, "calendar") /\ Observed(o, k, e) = Row(None, None, "calendar")
    BY <1>5 DEF Observed, Seen
  <2> QED
    BY <1>5, <2>1, CensoredSeen
<1>6. CASE day # None /\ day >= DayOf(e)
  <2>1. Observed(o, k, e) = Row(None, None, "horizon")
    BY <1>6 DEF Observed, Seen
  <2>2. \E v, r, why : seen = Row(v, r, why)
    BY <1>6 DEF Observed, Seen
  <2>3. PICK v, r, why : seen = Row(v, r, why)
    BY <2>2
  <2> QED
    BY <1>6, <2>1, <2>3, CensoredSeen
<1>7. CASE day # None /\ ~(day >= DayOf(e))
  <2>1. ~(day >= DayOf(c))
    BY <1>2, <1>3, <1>7
  <2>2. CASE o[k] = None
    <3>1. seen = Row(None, None, "price") /\ Observed(o, k, e) = Row(None, None, "price")
      BY <1>7, <2>1, <2>2 DEF Observed, Seen
    <3> QED
      BY <1>7, <3>1, CensoredSeen
  <2>3. CASE o[k] # None /\ o[k].ready >= c
    <3>1. seen = Row(None, None, "availability") /\ Observed(o, k, e) = Row(None, None, "availability")
      BY <1>4, <1>7, <2>1, <2>3 DEF Observed, Seen
    <3> QED
      BY <1>7, <3>1, CensoredSeen
  <2>4. CASE o[k] # None /\ ~(o[k].ready >= c)
    <3>1. seen = Row(o[k].value, o[k].ready, None)
      BY <1>7, <2>1, <2>4 DEF Observed, Seen
    <3>2. Observed(o, k, e) = IF o[k].ready >= e THEN Row(None, None, "availability") ELSE seen
      BY <1>7, <2>4, <3>1 DEF Observed, Seen
    <3> QED
      BY <1>4, <1>7, <2>4, <3>1, <3>2, CensoredSeen
  <2> QED
    BY <2>2, <2>3, <2>4
<1> QED
  BY <1>5, <1>6, <1>7

-----------------------------------------------------------------------------
(* Labels. *)

\* Two collections of rows of which a cutoff leaves the same give the same labels.
LEMMA IdentifySame ==
    ASSUME NEW A, NEW B, NEW c, DOMAIN A = DOMAIN B, \A k \in DOMAIN A : Censored(A[k], c) = Censored(B[k], c)
    PROVE  Identify(A, c) = Identify(B, c)
<1>1. [k \in DOMAIN A |-> Censored(A[k], c)] = [k \in DOMAIN B |-> Censored(B[k], c)]
  OBVIOUS
<1> QED
  BY <1>1, Zenon DEF Identify

\* The returns of the pool of a day, as a cutoff shows them.
ValuesAt(o, d, c) == [m \in Member |-> Observed(o, <<m, d>>, c).value]
KnownOn(o, d, c) == {m \in Member : Observed(o, <<m, d>>, c).value # None}

\* The label of a key at a cutoff.
LabelOf(o, k, c) ==
    [end |-> EndOf(k[2]), value |-> Observed(o, k, c).value,
     interval |-> PercentileInterval(ValuesAt(o, k[2], c), k[1]),
     outcomeReady |-> Observed(o, k, c).ready,
     ready |-> Latest({Observed(o, <<m, k[2]>>, c).ready : m \in KnownOn(o, k[2], c)}),
     observed |-> Cardinality(KnownOn(o, k[2], c)),
     cutoff |-> c,
     reason |-> Observed(o, k, c).reason]

\* build_label_rows gives each key of the panel the label below.
LEMMA LabelForm ==
    ASSUME NEW o \in OutcomeMaps, NEW c \in Int
    PROVE  /\ DOMAIN BuildLabels(o, c) = DOMAIN o
           /\ \A k \in DOMAIN o : BuildLabels(o, c)[k] = LabelOf(o, k, c)
<1> DEFINE rows == [k \in DOMAIN o |-> Observed(o, k, c)]
<1>1. Identify(rows, c) = Labelled(rows, c)
  <2>1. \A k \in DOMAIN o : Censored(Observed(o, k, c), c) = Observed(o, k, c)
    BY CensoredObserved
  <2>2. [k \in DOMAIN rows |-> Censored(rows[k], c)] = rows
    BY <2>1
  <2> HIDE DEF rows
  <2> QED
    BY <2>2 DEF Identify
<1>2. ASSUME NEW k \in DOMAIN o PROVE Labelled(rows, c)[k] = LabelOf(o, k, c)
  <2>1. Labelled(rows, c)[k] =
          [end |-> rows[k].end, value |-> rows[k].value,
           interval |-> PercentileInterval([m \in Member |-> rows[<<m, k[2]>>].value], k[1]),
           outcomeReady |-> rows[k].ready,
           ready |-> Latest({rows[<<m, k[2]>>].ready : m \in {m \in Member : rows[<<m, k[2]>>].value # None}}),
           observed |-> Cardinality({m \in Member : rows[<<m, k[2]>>].value # None}),
           cutoff |-> c,
           reason |-> IF rows[k].value = None THEN rows[k].reason ELSE None]
    BY DEF Labelled
  <2>2. \A m \in Member : rows[<<m, k[2]>>] = Observed(o, <<m, k[2]>>, c)
    BY KeyParts
  <2>3. rows[k] = Observed(o, k, c)
    OBVIOUS
  <2>4. Observed(o, k, c).end = EndOf(k[2])
    BY ObservedShown
  <2>5. Observed(o, k, c).value # None => Observed(o, k, c).reason = None
    BY ObservedShown, ValueShown
  <2> HIDE DEF rows
  <2>6. [m \in Member |-> rows[<<m, k[2]>>].value] = ValuesAt(o, k[2], c)
    BY <2>2 DEF ValuesAt
  <2>7. {m \in Member : rows[<<m, k[2]>>].value # None} = KnownOn(o, k[2], c)
    BY <2>2 DEF KnownOn
  <2>8. {rows[<<m, k[2]>>].ready : m \in KnownOn(o, k[2], c)} =
        {Observed(o, <<m, k[2]>>, c).ready : m \in KnownOn(o, k[2], c)}
    BY <2>2 DEF KnownOn
  <2>9. (IF rows[k].value = None THEN rows[k].reason ELSE None) = Observed(o, k, c).reason
    BY <2>3, <2>5
  <2> QED
    BY <2>1, <2>3, <2>4, <2>6, <2>7, <2>8, <2>9 DEF LabelOf
<1>3. DOMAIN Labelled(rows, c) = DOMAIN o
  BY DEF Labelled
<1> QED
  BY <1>1, <1>2, <1>3 DEF BuildLabels

\* The fields of a built label, one by one.
LEMMA LabelFields ==
    ASSUME NEW o \in OutcomeMaps, NEW c \in Int, NEW k \in DOMAIN o
    PROVE  LET label == BuildLabels(o, c)[k]
           IN /\ label.end = EndOf(k[2]) /\ label.value = Observed(o, k, c).value
              /\ label.interval = PercentileInterval(ValuesAt(o, k[2], c), k[1])
              /\ label.outcomeReady = Observed(o, k, c).ready
              /\ label.ready = Latest({Observed(o, <<m, k[2]>>, c).ready : m \in KnownOn(o, k[2], c)})
              /\ label.observed = Cardinality(KnownOn(o, k[2], c))
              /\ label.cutoff = c /\ label.reason = Observed(o, k, c).reason
<1>1. BuildLabels(o, c)[k] = LabelOf(o, k, c)
  BY LabelForm
<1> QED
  BY <1>1 DEF LabelOf

\* A built label has the end of its horizon and the cutoff it was built at.
LEMMA EndAndCutoff ==
    ASSUME NEW o \in OutcomeMaps, NEW c \in Int, NEW k \in DOMAIN o
    PROVE  BuildLabels(o, c)[k].end = EndOf(k[2]) /\ BuildLabels(o, c)[k].cutoff = c
BY LabelFields

\* Labels cut at an earlier time are those built then.
LEMMA Recut ==
    ASSUME NEW o \in OutcomeMaps, NEW c \in Int, NEW e \in Int, ~Widens(BuildLabels(o, c), e)
    PROVE  LabelsAtCutoff(BuildLabels(o, c), e) = BuildLabels(o, e)
<1> DEFINE labels == BuildLabels(o, c)
           kept == [k \in DOMAIN labels |->
                       [end |-> labels[k].end, value |-> labels[k].value, ready |-> labels[k].outcomeReady,
                        reason |-> labels[k].reason]]
           rows == [k \in DOMAIN o |-> Observed(o, k, e)]
<1>1. DOMAIN labels = DOMAIN o /\ \A k \in DOMAIN o : labels[k] = LabelOf(o, k, c)
  BY LabelForm
<1>2. ASSUME NEW k \in DOMAIN o PROVE Censored(kept[k], e) = Censored(rows[k], e)
  <2>1. e <= c
    <3>1. labels[k].cutoff = c
      BY LabelFields
    <3>2. ~(e > labels[k].cutoff)
      BY <1>1, Zenon DEF Widens
    <3> QED
      BY <3>1, <3>2
  <2>2. kept[k] = Seen(EndOf(k[2]), Observed(o, k, c).value, Observed(o, k, c).ready, Observed(o, k, c).reason)
    <3>1. /\ labels[k].end = EndOf(k[2]) /\ labels[k].value = Observed(o, k, c).value
          /\ labels[k].outcomeReady = Observed(o, k, c).ready /\ labels[k].reason = Observed(o, k, c).reason
      BY LabelFields
    <3>2. k \in DOMAIN labels
      BY <1>1
    <3> HIDE DEF labels
    <3> QED
      BY <3>1, <3>2 DEF Seen
  <2>3. \E v, r, why : Observed(o, k, c) = Seen(EndOf(k[2]), v, r, why)
    BY DEF Observed, Seen
  <2>4. kept[k] = Observed(o, k, c)
    BY <2>2, <2>3 DEF Seen
  <2>5. Censored(Observed(o, k, c), e) = Observed(o, k, e) /\ Censored(Observed(o, k, e), e) = Observed(o, k, e)
    BY <2>1, CensoredObserved
  <2> QED
    BY <2>4, <2>5
<1>3. DOMAIN kept = DOMAIN rows
  BY <1>1
<1>4. LabelsAtCutoff(labels, e) = Identify(kept, e)
  BY DEF LabelsAtCutoff
<1>5. BuildLabels(o, e) = Identify(rows, e)
  BY DEF BuildLabels
<1>6. Identify(kept, e) = Identify(rows, e)
  <2>1. \A k \in DOMAIN kept : Censored(kept[k], e) = Censored(rows[k], e)
    BY <1>1, <1>2
  <2> HIDE DEF kept, rows
  <2> QED
    BY <1>3, <2>1, IdentifySame
<1> QED
  BY <1>4, <1>5, <1>6

-----------------------------------------------------------------------------
(* Counting a pool, and the last of its times. *)

\* A finite set of times has a latest one.
LEMMA LastTime ==
    ASSUME NEW T \in SUBSET Int, IsFiniteSet(T), T # {}
    PROVE  Latest(T) \in T /\ \A u \in T : u <= Latest(T)
<1> DEFINE N == {n \in Nat : \A S \in SUBSET Int : IsFiniteSet(S) /\ Cardinality(S) = n /\ S # {} =>
                                \E t \in S : \A u \in S : u <= t}
<1>1. 0 \in N
  BY FS_EmptySet
<1>2. ASSUME NEW n \in Nat, n \in N PROVE n + 1 \in N
  <2>1. ASSUME NEW S \in SUBSET Int, IsFiniteSet(S), Cardinality(S) = n + 1, S # {}
        PROVE  \E t \in S : \A u \in S : u <= t
    <3>1. PICK x \in S : TRUE
      BY <2>1
    <3>2. IsFiniteSet(S \ {x}) /\ Cardinality(S \ {x}) = n
      <4>1. /\ IsFiniteSet(S \ {x})
            /\ Cardinality(S \ {x}) = IF x \in S THEN Cardinality(S) - 1 ELSE Cardinality(S)
        BY <2>1, FS_RemoveElement, Zenon
      <4>2. Cardinality(S \ {x}) = Cardinality(S) - 1
        BY <4>1
      <4> QED
        BY <2>1, <4>1, <4>2
    <3>3. CASE S \ {x} = {}
      BY <3>1, <3>3
    <3>4. CASE S \ {x} # {}
      <4>1. PICK t \in S \ {x} : \A u \in S \ {x} : u <= t
        BY <1>2, <3>2, <3>4
      <4>2. CASE x <= t
        BY <4>1, <4>2
      <4>3. CASE ~(x <= t)
        BY <4>1, <4>3
      <4> QED
        BY <4>2, <4>3
    <3> QED
      BY <3>3, <3>4
  <2> QED
    BY <2>1
<1> HIDE DEF N
<1>3. Nat \subseteq N
  BY <1>1, <1>2, NatSetInduction
<1>4. Cardinality(T) \in Nat
  BY FS_CardinalityType
<1>5. \E t \in T : \A u \in T : u <= t
  BY <1>3, <1>4 DEF N
<1> QED
  BY <1>5 DEF Latest

\* At most the whole pool is known, which is finite.
LEMMA PoolCount ==
    ASSUME NEW S \in SUBSET Member
    PROVE  IsFiniteSet(S) /\ Cardinality(S) \in Nat /\ Cardinality(S) <= Cardinality(Member)
BY PoolAssumption, FS_Subset, FS_CardinalityType

\* The rows of some members on one day.
LEMMA DayCount ==
    ASSUME NEW S \in SUBSET Member, NEW d
    PROVE  Cardinality({<<m, d>> : m \in S}) = Cardinality(S)
<1>1. {<<m, d>> : m \in S} = S \X {d}
  OBVIOUS
<1>2. IsFiniteSet(S) /\ Cardinality(S) \in Nat
  BY PoolCount
<1>3. IsFiniteSet({d}) /\ Cardinality({d}) = 1
  BY FS_Singleton
<1>4. Cardinality(S \X {d}) = Cardinality(S) * Cardinality({d})
  BY <1>2, <1>3, FS_Product
<1>5. Cardinality(S \X {d}) = Cardinality(S)
  BY <1>2, <1>3, <1>4
<1> QED
  BY <1>1, <1>5, Zenon

\* A member has an interval exactly when its return is known.
LEMMA IntervalThere ==
    ASSUME NEW values, NEW m \in Member
    PROVE  PercentileInterval(values, m) = None <=> values[m] = None
<1> DEFINE low == Rank2(values, m) - 2
           high == Rank2(values, m) - 2 + 2 * Missing(values)
<1>1. {n \in Known(values) : values[n] < values[m]} \in SUBSET Member
  BY DEF Known
<1>2. {n \in Known(values) : values[n] = values[m]} \in SUBSET Member
  BY DEF Known
<1>3. Known(values) \in SUBSET Member /\ Member \in SUBSET Member
  BY DEF Known
<1>4. Rank2(values, m) \in Int
  BY <1>1, <1>2, PoolCount DEF Rank2
<1>5. Missing(values) \in Int
  BY <1>3, PoolCount DEF Missing
<1>6. [low |-> low, high |-> high] \in [low : Int, high : Int]
  BY <1>4, <1>5
<1>7. [low |-> low, high |-> high] # None
  BY <1>6, NothingAssumption
<1> QED
  BY <1>7 DEF PercentileInterval

\* A label is supervised exactly when its return is shown.
LEMMA SupervisedShown ==
    ASSUME NEW o \in OutcomeMaps, NEW c \in Int, NEW k \in DOMAIN o
    PROVE  Supervised(BuildLabels(o, c)[k]) <=> Shown(o, k, c)
<1>1. k[1] \in Member /\ k = <<k[1], k[2]>>
  BY KeyParts
<1>2. BuildLabels(o, c)[k].interval = PercentileInterval(ValuesAt(o, k[2], c), k[1])
  BY LabelFields
<1>3. ValuesAt(o, k[2], c)[k[1]] = Observed(o, k, c).value
  BY <1>1 DEF ValuesAt
<1> QED
  BY <1>1, <1>2, <1>3, IntervalThere, ValueShown DEF Supervised

-----------------------------------------------------------------------------
(* Every label passes the checks that labels are read with. *)

\* When the returns of a day were known.
TimesOn(o, d, c) == {Observed(o, <<m, d>>, c).ready : m \in KnownOn(o, d, c)}

\* The times at which the returns of a day were known.
LEMMA TimesKnown ==
    ASSUME NEW o \in OutcomeMaps, NEW c \in Int, NEW k \in DOMAIN o
    PROVE  /\ TimesOn(o, k[2], c) \in SUBSET Int /\ IsFiniteSet(TimesOn(o, k[2], c))
           /\ \A t \in TimesOn(o, k[2], c) : t < c
           /\ Shown(o, k, c) => Observed(o, k, c).ready \in TimesOn(o, k[2], c)
<1> DEFINE S == KnownOn(o, k[2], c)
           T == TimesOn(o, k[2], c)
           f == [m \in S |-> Observed(o, <<m, k[2]>>, c).ready]
<1>1. ASSUME NEW m \in S
      PROVE  Observed(o, <<m, k[2]>>, c).ready \in Int /\ Observed(o, <<m, k[2]>>, c).ready < c
  <2>1. m \in Member /\ Observed(o, <<m, k[2]>>, c).value # None
    BY DEF KnownOn
  <2>2. <<m, k[2]>> \in DOMAIN o
    BY <2>1, KeyParts
  <2>3. Shown(o, <<m, k[2]>>, c)
    BY <2>1, <2>2, ValueShown
  <2>4. Observed(o, <<m, k[2]>>, c).ready = o[<<m, k[2]>>].ready
    BY <2>2, <2>3, ObservedShown
  <2>5. o[<<m, k[2]>>].ready \in Int
    BY <2>2, <2>3, ShownFacts
  <2>6. o[<<m, k[2]>>].ready < c
    BY <2>3 DEF Shown
  <2> QED
    BY <2>4, <2>5, <2>6
<1>2. T \in SUBSET Int /\ \A t \in T : t < c
  BY <1>1 DEF TimesOn
<1>3. IsFiniteSet(S)
  BY PoolCount DEF KnownOn
<1>4. f \in Surjection(S, T)
  BY DEF Surjection, TimesOn
<1>5. IsFiniteSet(T)
  <2> HIDE DEF S, T, f
  <2> QED
    BY <1>3, <1>4, FS_Surjection
<1>6. ASSUME Shown(o, k, c) PROVE Observed(o, k, c).ready \in T
  <2>1. k[1] \in Member /\ k = <<k[1], k[2]>>
    BY KeyParts
  <2>2. Observed(o, k, c).value # None
    BY <1>6, ValueShown
  <2>3. k[1] \in S
    BY <2>1, <2>2 DEF KnownOn
  <2> QED
    BY <2>1, <2>3 DEF TimesOn
<1> QED
  BY <1>2, <1>5, <1>6

\* Every built label passes LabelRow.
LEMMA EachLabelValid ==
    ASSUME NEW o \in OutcomeMaps, NEW c \in Int, NEW k \in DOMAIN o
    PROVE  LabelValid(k, BuildLabels(o, c)[k])
<1> DEFINE label == BuildLabels(o, c)[k]
           seen == Observed(o, k, c)
<1> SUFFICES LabelValid(k, label)
  OBVIOUS
<1>1. /\ label.end = EndOf(k[2]) /\ label.value = seen.value /\ label.outcomeReady = seen.ready
      /\ label.ready = Latest(TimesOn(o, k[2], c)) /\ label.cutoff = c /\ label.reason = seen.reason
  BY LabelFields DEF TimesOn
<1>2. Supervised(label) <=> Shown(o, k, c)
  BY SupervisedShown
<1>3. CASE Shown(o, k, c)
  <2>1. seen.ready = o[k].ready /\ seen.reason = None
    BY <1>3, ObservedShown
  <2>2. EndOf(k[2]) \in Int /\ k[2] < EndOf(k[2]) /\ Instant(EndOf(k[2]), 1) <= o[k].ready
    BY <1>3, ShownFacts
  <2>3. EndOf(k[2]) # None /\ EndOf(k[2]) < DayOf(c)
    BY <1>3 DEF Shown
  <2>4. LET T == TimesOn(o, k[2], c)
        IN T \in SUBSET Int /\ IsFiniteSet(T) /\ (\A t \in T : t < c) /\ seen.ready \in T
    BY <1>3, TimesKnown
  <2>5. LET last == Latest(TimesOn(o, k[2], c)) IN seen.ready <= last /\ last < c
    BY <2>4, LastTime
  <2> HIDE DEF label, seen
  <2> QED
    BY <1>1, <1>2, <1>3, <2>1, <2>2, <2>3, <2>5 DEF LabelValid
<1>4. CASE ~Shown(o, k, c)
  <2>1. seen.value = None /\ seen.ready = None /\ seen.reason \in Reasons
    BY <1>4, ObservedShown
  <2>2. seen.reason # None
    BY <2>1, NothingAssumption
  <2> HIDE DEF label, seen
  <2> QED
    BY <1>1, <1>2, <1>4, <2>1, <2>2 DEF LabelValid
<1> QED
  BY <1>3, <1>4

\* The rows of a day are those of all members.
LEMMA RowsOfDay ==
    ASSUME NEW o \in OutcomeMaps, NEW c \in Int, NEW k \in DOMAIN o
    PROVE  DayRows(BuildLabels(o, c), k[2]) = {<<m, k[2]>> : m \in Member}
<1>1. DOMAIN BuildLabels(o, c) = DOMAIN o
  BY LabelForm
<1>2. \A m \in Member : <<m, k[2]>> \in DOMAIN o
  BY KeyParts
<1>3. \A l \in DOMAIN o : l[1] \in Member /\ l = <<l[1], l[2]>>
  BY KeyParts
<1> QED
  BY <1>1, <1>2, <1>3 DEF DayRows

\* The labels of a day.
LEMMA LabelsOfDay ==
    ASSUME NEW o \in OutcomeMaps, NEW c \in Int, NEW d, NEW m \in Member, <<m, d>> \in DOMAIN o
    PROVE  LET label == BuildLabels(o, c)[<<m, d>>]
           IN /\ label.end = EndOf(d) /\ label.cutoff = c
              /\ label.value = Observed(o, <<m, d>>, c).value
              /\ label.outcomeReady = Observed(o, <<m, d>>, c).ready
              /\ label.interval = PercentileInterval(ValuesAt(o, d, c), m)
              /\ label.ready = Latest(TimesOn(o, d, c))
              /\ label.observed = Cardinality(KnownOn(o, d, c))
              /\ Supervised(label) <=> m \in KnownOn(o, d, c)
<1> DEFINE k == <<m, d>>
           label == BuildLabels(o, c)[k]
<1>1. k[1] = m /\ k[2] = d
  OBVIOUS
<1>2. Supervised(label) <=> Observed(o, k, c).value # None
  BY SupervisedShown, ValueShown
<1>3. Supervised(label) <=> m \in KnownOn(o, d, c)
  BY <1>2 DEF KnownOn
<1>4. /\ label.end = EndOf(k[2]) /\ label.cutoff = c
      /\ label.value = Observed(o, k, c).value
      /\ label.outcomeReady = Observed(o, k, c).ready
      /\ label.interval = PercentileInterval(ValuesAt(o, k[2], c), k[1])
      /\ label.ready = Latest(TimesOn(o, k[2], c))
      /\ label.observed = Cardinality(KnownOn(o, k[2], c))
  BY LabelFields DEF TimesOn
<1> SUFFICES
      /\ label.end = EndOf(d) /\ label.cutoff = c
      /\ label.value = Observed(o, k, c).value
      /\ label.outcomeReady = Observed(o, k, c).ready
      /\ label.interval = PercentileInterval(ValuesAt(o, d, c), m)
      /\ label.ready = Latest(TimesOn(o, d, c))
      /\ label.observed = Cardinality(KnownOn(o, d, c))
      /\ Supervised(label) <=> m \in KnownOn(o, d, c)
  OBVIOUS
<1> HIDE DEF label, k
<1> QED
  BY <1>1, <1>3, <1>4

\* The built labels of a day pass validate_label_groups.
LEMMA DayBuiltValid ==
    ASSUME NEW o \in OutcomeMaps, NEW c \in Int, NEW d, \A m \in Member : <<m, d>> \in DOMAIN o,
           NEW labels, labels = BuildLabels(o, c), DayRows(labels, d) = {<<m, d>> : m \in Member}
    PROVE  GroupValid(labels, d)
<1> DEFINE rows == DayRows(labels, d)
           known == KnownOn(o, d, c)
           supervised == {k \in rows : Supervised(labels[k])}
           values == [m \in Member |-> labels[<<m, d>>].value]
<1>1. \A m \in Member : Supervised(labels[<<m, d>>]) <=> m \in known
  BY LabelsOfDay
<1>2. \A m \in Member : labels[<<m, d>>].value = Observed(o, <<m, d>>, c).value
  BY LabelsOfDay
<1>3. \A m \in Member : labels[<<m, d>>].outcomeReady = Observed(o, <<m, d>>, c).ready
  BY LabelsOfDay
<1>4. supervised = {<<m, d>> : m \in known}
  BY <1>1 DEF KnownOn
<1>a. known \in SUBSET Member
  BY DEF KnownOn
<1> HIDE DEF supervised, known
<1>5. Cardinality(supervised) = Cardinality(known)
  BY <1>4, <1>a, DayCount
<1>6. values = ValuesAt(o, d, c)
  BY <1>2 DEF ValuesAt
<1>7. {labels[l].outcomeReady : l \in supervised} = TimesOn(o, d, c)
  <2>1. \A t : (\E l \in supervised : t = labels[l].outcomeReady)
              <=> (\E m \in known : t = Observed(o, <<m, d>>, c).ready)
    BY <1>3, <1>4, <1>a
  <2> QED
    BY <2>1 DEF TimesOn, known
<1>8. \A k \in rows : /\ labels[k].end = EndOf(d) /\ labels[k].cutoff = c
                      /\ labels[k].interval = PercentileInterval(ValuesAt(o, d, c), k[1])
                      /\ labels[k].ready = Latest(TimesOn(o, d, c))
                      /\ labels[k].observed = Cardinality(known)
  <2> TAKE k \in rows
  <2>1. PICK m \in Member : k = <<m, d>>
    OBVIOUS
  <2>2. k[1] = m
    BY <2>1
  <2>3. /\ labels[<<m, d>>].end = EndOf(d) /\ labels[<<m, d>>].cutoff = c
        /\ labels[<<m, d>>].interval = PercentileInterval(ValuesAt(o, d, c), m)
        /\ labels[<<m, d>>].ready = Latest(TimesOn(o, d, c))
        /\ labels[<<m, d>>].observed = Cardinality(known)
    BY LabelsOfDay DEF known
  <2> QED
    BY <2>1, <2>2, <2>3
<1> HIDE DEF rows, known, supervised, values
<1>9. /\ \A k \in rows : labels[k].observed = Cardinality(supervised)
      /\ \A k, l \in rows : /\ labels[k].end = labels[l].end
                            /\ labels[k].cutoff = labels[l].cutoff
                            /\ labels[k].ready = labels[l].ready
      /\ \A k \in rows : labels[k].interval = PercentileInterval(values, k[1])
      /\ \A k \in rows : labels[k].ready = Latest({labels[l].outcomeReady : l \in supervised})
  BY <1>5, <1>6, <1>7, <1>8
<1> QED
  BY <1>9, Zenon DEF GroupValid, rows, supervised, values

\* Built labels pass both checks.
LEMMA LabelsBuiltValid ==
    ASSUME NEW o \in OutcomeMaps, NEW c \in Int
    PROVE  LabelsValid(BuildLabels(o, c))
<1> DEFINE labels == BuildLabels(o, c)
<1>1. DOMAIN labels = DOMAIN o
  BY LabelForm
<1>2. \A k \in DOMAIN labels : LabelValid(k, labels[k])
  BY <1>1, EachLabelValid
<1>3. ASSUME NEW k \in DOMAIN o PROVE GroupValid(labels, k[2])
  <2>1. \A m \in Member : <<m, k[2]>> \in DOMAIN o
    BY KeyParts
  <2>2. DayRows(labels, k[2]) = {<<m, k[2]>> : m \in Member}
    BY RowsOfDay
  <2> QED
    BY <2>1, <2>2, DayBuiltValid
<1>4. GroupsValid(labels)
  BY <1>1, <1>3 DEF GroupsValid
<1> QED
  BY <1>2, <1>4 DEF LabelsValid

-----------------------------------------------------------------------------
(* The supervision of the state studies. *)

\* Rows with less, and rows with no more, give the average rank.
LEMMA RankByPlaces ==
    ASSUME NEW values, NEW m, \A n \in Known(values) \union {m} : values[n] \in Int
    PROVE  LET left == Cardinality({n \in Known(values) : values[n] < values[m]})
               right == Cardinality({n \in Known(values) : values[n] <= values[m]})
           IN left \in Nat /\ right \in Nat /\ Rank2(values, m) - 2 = left + right - 1
<1> DEFINE below == {n \in Known(values) : values[n] < values[m]}
           equal == {n \in Known(values) : values[n] = values[m]}
           upto == {n \in Known(values) : values[n] <= values[m]}
<1>1. below \in SUBSET Member /\ equal \in SUBSET Member /\ upto \in SUBSET Member
  BY DEF Known
<1>2. upto = below \union equal /\ below \intersect equal = {}
  OBVIOUS
<1>3. Rank2(values, m) = 2 * Cardinality(below) + Cardinality(equal) + 1
  BY DEF Rank2
<1> HIDE DEF below, equal, upto
<1>4. /\ Cardinality(below) \in Nat /\ Cardinality(equal) \in Nat /\ Cardinality(upto) \in Nat
      /\ IsFiniteSet(below) /\ IsFiniteSet(equal)
  BY <1>1, PoolCount
<1>5. Cardinality(below \union equal) = Cardinality(below) + Cardinality(equal) - Cardinality(below \intersect equal)
  BY <1>4, FS_Union
<1>6. Cardinality(below \intersect equal) = 0
  BY <1>2, FS_EmptySet
<1>7. Cardinality(upto) = Cardinality(below) + Cardinality(equal)
  BY <1>2, <1>4, <1>5, <1>6
<1>8. Cardinality(below) \in Nat /\ Cardinality(upto) \in Nat
      /\ Rank2(values, m) - 2 = Cardinality(below) + Cardinality(upto) - 1
  BY <1>3, <1>4, <1>7
<1> QED
  BY <1>8 DEF below, upto

\* Whether a row is used is what an earlier cutoff shows of it.
LEMMA UsableShown ==
    ASSUME NEW o \in OutcomeMaps, NEW c \in Int, NEW e \in Int, e <= c, dataset = BuildLabels(o, c),
           NEW k \in DOMAIN o, EndOf(k[2]) # None, EndOf(k[2]) < DayOf(e)
    PROVE  /\ Usable(k, e) <=> Shown(o, k, e)
           /\ Shown(o, k, e) => dataset[k].value = o[k].value
<1>1. dataset[k].value = Observed(o, k, c).value /\ dataset[k].outcomeReady = Observed(o, k, c).ready
  BY LabelFields
<1>2. dataset[k].value # None <=> Shown(o, k, c)
  BY <1>1, ValueShown
<1>3. Shown(o, k, c) => dataset[k].outcomeReady = o[k].ready /\ dataset[k].value = o[k].value
  BY <1>1, ObservedShown
<1>4. Shown(o, k, e) <=> Shown(o, k, c) /\ EndOf(k[2]) < DayOf(e) /\ o[k].ready < e
  BY ShownEarlier
<1> QED
  BY <1>2, <1>3, <1>4 DEF Usable

\* supervision takes the days whose horizon ended before the cutoff.
LEMMA DaysSupervised ==
    ASSUME NEW o \in OutcomeMaps, NEW c \in Int, NEW e \in Int, dataset = BuildLabels(o, c), NEW k \in DOMAIN o
    PROVE  k[2] \in SupervisedDays(e) <=>
              k[2] < DayOf(e) /\ EndOf(k[2]) # None /\ EndOf(k[2]) < DayOf(e)
<1>1. DOMAIN dataset = DOMAIN o
  BY LabelForm
<1>2. \A l \in DayRows(dataset, k[2]) : dataset[l].end = EndOf(k[2])
  <2> TAKE l \in DayRows(dataset, k[2])
  <2>1. l \in DOMAIN o /\ l[2] = k[2]
    BY <1>1 DEF DayRows
  <2>2. dataset[l].end = EndOf(l[2])
    BY <2>1, LabelFields
  <2> QED
    BY <2>1, <2>2
<1>3. k \in DayRows(dataset, k[2])
  BY <1>1 DEF DayRows
<1>4. k[2] \in {l[2] : l \in DOMAIN dataset}
  BY <1>1
<1> QED
  BY <1>2, <1>3, <1>4 DEF SupervisedDays

\* Its places among the sorted returns are the interval of the label builder.
LEMMA PlacesAgree ==
    ASSUME NEW o \in OutcomeMaps, NEW c \in Int, NEW e \in Int, e <= c, dataset = BuildLabels(o, c),
           NEW k \in DOMAIN o, Shown(o, k, e)
    PROVE  PlaceInterval(k, e) = PercentileInterval(ValuesAt(o, k[2], e), k[1])
<1> DEFINE d == k[2]
           values == ValuesAt(o, k[2], e)
           known == {l \in DayRows(dataset, k[2]) : Usable(l, e)}
           below == {n \in Known(values) : values[n] < values[k[1]]}
           upto == {n \in Known(values) : values[n] <= values[k[1]]}
<1>1. k[1] \in Member /\ k = <<k[1], d>> /\ \A m \in Member : <<m, d>> \in DOMAIN o
  BY KeyParts
<1>2. EndOf(d) # None /\ EndOf(d) < DayOf(e)
  BY DEF Shown
<1>3. \A m \in Member : values[m] = Observed(o, <<m, d>>, e).value
  BY DEF ValuesAt
<1>4. ASSUME NEW m \in Member
      PROVE  /\ Usable(<<m, d>>, e) <=> Shown(o, <<m, d>>, e)
             /\ m \in Known(values) <=> Shown(o, <<m, d>>, e)
             /\ Shown(o, <<m, d>>, e) => values[m] = dataset[<<m, d>>].value /\ values[m] \in Int
  <2> DEFINE l == <<m, d>>
  <2>1. l \in DOMAIN o /\ l[2] = d
    BY <1>1
  <2>2. Usable(l, e) <=> Shown(o, l, e)
    BY <1>2, <2>1, UsableShown
  <2>3. Shown(o, l, e) => dataset[l].value = o[l].value
    BY <1>2, <2>1, UsableShown
  <2>4. Shown(o, l, e) => Observed(o, l, e).value = o[l].value /\ o[l].value \in Int
    BY <2>1, ObservedShown, ShownFacts
  <2>5. m \in Known(values) <=> Shown(o, l, e)
    BY <1>3, <2>1, ValueShown DEF Known
  <2> HIDE DEF values, l
  <2>6. values[m] = Observed(o, l, e).value
    BY <1>3 DEF l
  <2> QED
    BY <2>2, <2>3, <2>4, <2>5, <2>6 DEF l
<1>5. DayRows(dataset, d) = {<<m, d>> : m \in Member}
  BY RowsOfDay
<1>6. k[1] \in Known(values) /\ values[k[1]] = dataset[k].value
  BY <1>1, <1>4
<1> HIDE DEF d, values
<1>7. Known(values) \in SUBSET Member
  BY DEF Known
<1>8. known = {<<m, d>> : m \in Known(values)}
  BY <1>4, <1>5, <1>7 DEF d
<1>9. {l \in known : dataset[l].value < dataset[k].value} = {<<m, d>> : m \in below}
  BY <1>4, <1>6, <1>7, <1>8
<1>10. {l \in known : dataset[l].value <= dataset[k].value} = {<<m, d>> : m \in upto}
  BY <1>4, <1>6, <1>7, <1>8
<1>11. below \in SUBSET Member /\ upto \in SUBSET Member
  BY <1>7
<1>12. Cardinality(below) \in Nat /\ Cardinality(upto) \in Nat
       /\ Rank2(values, k[1]) - 2 = Cardinality(below) + Cardinality(upto) - 1
  <2>1. \A n \in Known(values) \union {k[1]} : values[n] \in Int
    BY <1>4, <1>6, <1>7
  <2> QED
    BY <2>1, RankByPlaces
<1> HIDE DEF known, below, upto
<1>13. /\ Cardinality(known) = Cardinality(Known(values))
       /\ Cardinality({l \in known : dataset[l].value < dataset[k].value}) = Cardinality(below)
       /\ Cardinality({l \in known : dataset[l].value <= dataset[k].value}) = Cardinality(upto)
  <2>1. Cardinality({<<m, d>> : m \in Known(values)}) = Cardinality(Known(values))
    BY <1>7, DayCount
  <2>2. Cardinality({<<m, d>> : m \in below}) = Cardinality(below)
    BY <1>11, DayCount
  <2>3. Cardinality({<<m, d>> : m \in upto}) = Cardinality(upto)
    BY <1>11, DayCount
  <2> QED
    BY <1>8, <1>9, <1>10, <2>1, <2>2, <2>3, Zenon
<1>14. PlaceInterval(k, e) =
         [low |-> Cardinality(below) + Cardinality(upto) - 1,
          high |-> Cardinality(below) + Cardinality(upto) - 1 + 2 * (Cardinality(Member) - Cardinality(Known(values)))]
  BY <1>13, Zenon DEF PlaceInterval, known
<1>15. PercentileInterval(values, k[1]) =
         [low |-> Rank2(values, k[1]) - 2, high |-> Rank2(values, k[1]) - 2 + 2 * Missing(values)]
  BY <1>6 DEF PercentileInterval, Known
<1> QED
  BY <1>12, <1>14, <1>15 DEF Missing, values

-----------------------------------------------------------------------------
(* Both ways of cutting labels, as properties of a state. *)

\* A dataset that was built at a cutoff.
BuiltAt(c) == outcomes \in OutcomeMaps /\ c \in Int /\ dataset = BuildLabels(outcomes, c)

\* A cutoff that does not widen the labels is no later than theirs.
LEMMA NotWidened ==
    ASSUME NEW o \in OutcomeMaps, NEW c \in Int, NEW e, ~Widens(BuildLabels(o, c), e), NEW k \in DOMAIN o
    PROVE  ~(e > c)
<1>1. k \in DOMAIN BuildLabels(o, c) /\ BuildLabels(o, c)[k].cutoff = c
  BY LabelForm, LabelFields
<1> QED
  BY <1>1 DEF Widens

\* Labels cut at a cutoff that does not widen them are the labels built at it.
LEMMA RecutAgrees ==
    ASSUME NEW c, BuiltAt(c), NEW e \in Int, ~Widens(dataset, e)
    PROVE  LabelsAtCutoff(dataset, e) = BuildLabels(outcomes, e) /\ LabelsValid(LabelsAtCutoff(dataset, e))
<1>1. LabelsAtCutoff(dataset, e) = BuildLabels(outcomes, e)
  BY Recut DEF BuiltAt
<1>2. LabelsValid(BuildLabels(outcomes, e))
  BY LabelsBuiltValid DEF BuiltAt
<1> QED
  BY <1>1, <1>2

\* supervision at a cutoff gives the supervised rows and intervals of the labels built at it.
LEMMA SupervisionSame ==
    ASSUME NEW c, BuiltAt(c), NEW d \in Day, ~Widens(dataset, OpeningOf(d))
    PROVE  LET e == OpeningOf(d)
               view == LabelsAtCutoff(dataset, e)
               rows == {k \in DOMAIN view : ScoringOf(k[2]) < e /\ Supervised(view[k])}
           IN Supervision(e) = [k \in rows |-> view[k].interval]
<1> DEFINE o == outcomes
           e == OpeningOf(d)
           view == LabelsAtCutoff(dataset, e)
           rows == {k \in DOMAIN view : ScoringOf(k[2]) < e /\ Supervised(view[k])}
           used == {l \in DOMAIN dataset : l[2] \in SupervisedDays(e) /\ Usable(l, e)}
<1>1. o \in OutcomeMaps /\ c \in Int /\ dataset = BuildLabels(o, c) /\ DOMAIN dataset = DOMAIN o
  BY LabelForm DEF BuiltAt
<1>2. d \in Int /\ e \in Int /\ e = 4 * d /\ DayOf(e) = d
  <2>1. d \in Int
    BY PoolAssumption DEF Day
  <2> QED
    BY <2>1, Times
<1>3. view = BuildLabels(o, e) /\ DOMAIN view = DOMAIN o
  BY <1>1, <1>2, RecutAgrees, LabelForm
<1> HIDE DEF o, e, view
<1>4. ASSUME NEW k \in DOMAIN o
      PROVE  /\ k \in used <=> k \in rows
             /\ k \in rows => PlaceInterval(k, e) = view[k].interval
  <2>1. ~(e > c)
    BY <1>1, NotWidened DEF e
  <2>2. e <= c
    BY <1>1, <1>2, <2>1
  <2>3. k[2] \in Day /\ k[2] \in Int
    BY <1>1, KeyParts
  <2>4. Supervised(view[k]) <=> Shown(o, k, e)
    BY <1>1, <1>2, <1>3, SupervisedShown
  <2>5. k[2] \in SupervisedDays(e) <=> k[2] < d /\ EndOf(k[2]) # None /\ EndOf(k[2]) < d
    BY <1>1, <1>2, DaysSupervised
  <2>6. EndOf(k[2]) # None /\ EndOf(k[2]) < d => (Usable(k, e) <=> Shown(o, k, e))
    BY <1>1, <1>2, <2>2, UsableShown
  <2>7. Shown(o, k, e) => EndOf(k[2]) # None /\ EndOf(k[2]) < d
    BY <1>2 DEF Shown
  <2>8. ScoringOf(k[2]) < e <=> k[2] < d
    <3>1. ScoringOf(k[2]) = 4 * k[2] + 3
      BY <2>3, Times
    <3> QED
      BY <1>2, <2>3, <3>1
  <2>9. k \in used <=> k \in rows
    BY <1>1, <1>3, <2>4, <2>5, <2>6, <2>7, <2>8
  <2>10. ASSUME Shown(o, k, e) PROVE PlaceInterval(k, e) = view[k].interval
    <3>1. view[k].interval = PercentileInterval(ValuesAt(o, k[2], e), k[1])
      BY <1>1, <1>2, <1>3, LabelFields
    <3>2. PlaceInterval(k, e) = PercentileInterval(ValuesAt(o, k[2], e), k[1])
      BY <1>1, <1>2, <2>2, <2>10, PlacesAgree
    <3> QED
      BY <3>1, <3>2
  <2> QED
    BY <2>4, <2>9, <2>10
<1>5. used = rows
  BY <1>1, <1>3, <1>4
<1> HIDE DEF rows, used
<1>6. rows \subseteq DOMAIN o
  BY <1>3 DEF rows
<1>7. [k \in used |-> PlaceInterval(k, e)] = [k \in rows |-> view[k].interval]
  BY <1>4, <1>5, <1>6
<1> QED
  BY <1>7 DEF Supervision, used, rows, view, e

\* Labels that were built agree with both.
LEMMA BuiltLabelsAgree ==
    ASSUME NEW c, BuiltAt(c)
    PROVE  LabelsAgree
<1>1. \A e \in Openings : e \in Int /\ \E d \in Day : e = OpeningOf(d)
  BY PoolAssumption DEF Openings, OpeningOf, Instant, Day
<1>2. RecutCommutes
  <2>1. ASSUME NEW e \in Openings, ~Widens(dataset, e)
        PROVE  LabelsAtCutoff(dataset, e) = BuildLabels(outcomes, e) /\ LabelsValid(LabelsAtCutoff(dataset, e))
    BY <1>1, <2>1, RecutAgrees
  <2> QED
    BY <2>1 DEF RecutCommutes
<1>3. SupervisionAgrees
  <2>1. ASSUME NEW e \in Openings, ~Widens(dataset, e)
        PROVE  LET view == LabelsAtCutoff(dataset, e)
                   rows == {k \in DOMAIN view : ScoringOf(k[2]) < e /\ Supervised(view[k])}
               IN Supervision(e) = [k \in rows |-> view[k].interval]
    <3>1. PICK d \in Day : e = OpeningOf(d)
      BY <1>1
    <3> QED
      BY <2>1, <3>1, SupervisionSame
  <2> QED
    BY <2>1, Zenon DEF SupervisionAgrees
<1> QED
  BY <1>2, <1>3 DEF LabelsAgree

-----------------------------------------------------------------------------
(* The views of a fold. *)

\* The cutoff of each split, when the test labels are of time t.
CutOf(kind, w, t) ==
    IF kind = "train" THEN OpeningOf(w.validationStart)
    ELSE IF kind = "validation" THEN Earlier(OpeningOf(w.testStart), t)
    ELSE t

\* The labels built at those cutoffs.
ViewsAt(w, t) ==
    [train |-> BuildLabels(outcomes, CutOf("train", w, t)),
     validation |-> BuildLabels(outcomes, CutOf("validation", w, t)),
     test |-> BuildLabels(outcomes, CutOf("test", w, t))]

\* The days of a window and the openings of its boundaries.
LEMMA WindowParts ==
    ASSUME NEW w \in Windows
    PROVE  /\ w.trainStart \in Int /\ w.validationStart \in Int /\ w.validationEnd \in Int
           /\ w.testStart \in Int /\ w.testEnd \in Int
           /\ OpeningOf(w.validationStart) \in Int /\ OpeningOf(w.testStart) \in Int
<1>1. w \in [trainStart : Int, validationStart : Int, validationEnd : Int, testStart : Int, testEnd : Int]
  BY WindowAssumption
<1> QED
  BY <1>1, Times

\* Each split is identified no later than its own boundary, and than the evaluation.
LEMMA CutsOrdered ==
    ASSUME NEW w \in Windows, NEW t \in Int
    PROVE  /\ CutOf("train", w, t) \in Int /\ CutOf("validation", w, t) \in Int /\ CutOf("test", w, t) \in Int
           /\ CutOf("train", w, t) = OpeningOf(BoundaryOf("train", w))
           /\ CutOf("validation", w, t) <= OpeningOf(BoundaryOf("validation", w))
           /\ CutOf("validation", w, t) <= t
           /\ CutOf("test", w, t) = t
BY WindowParts DEF CutOf, Earlier, BoundaryOf

\* The cutoff of a panel of built labels.
LEMMA CutoffBuilt ==
    ASSUME NEW o \in OutcomeMaps, NEW t \in Int, DOMAIN o # {}
    PROVE  CutoffOf(BuildLabels(o, t)) = t
<1> DEFINE labels == BuildLabels(o, t)
           all == {labels[k] : k \in DOMAIN labels}
<1>1. DOMAIN labels = DOMAIN o
  BY LabelForm
<1>2. \A k \in DOMAIN o : labels[k].cutoff = t
  BY LabelFields
<1> HIDE DEF labels
<1>3. all # {} /\ \A l \in all : l.cutoff = t
  BY <1>1, <1>2
<1>4. (CHOOSE l \in all : TRUE) \in all
  BY <1>3
<1>5. (CHOOSE l \in all : TRUE).cutoff = t
  BY <1>3, <1>4
<1> QED
  BY <1>5, Zenon DEF CutoffOf, labels

\* prepare_fold identifies its three views from labels already built; they are the
\* labels built at the three cutoffs.
LEMMA ViewsBuilt ==
    ASSUME NEW c, BuiltAt(c), DOMAIN outcomes # {}, NEW w \in Windows,
           NEW evaluation \in KnowledgeCutoffs \union {None}, CanIdentify(w, evaluation)
    PROVE  \E t \in Int : Views(w, evaluation) = ViewsAt(w, t)
<1> DEFINE t == IF evaluation = None THEN c ELSE evaluation
           test == IF evaluation = None THEN dataset ELSE LabelsAtCutoff(dataset, evaluation)
<1>1. outcomes \in OutcomeMaps /\ c \in Int /\ dataset = BuildLabels(outcomes, c)
  BY DEF BuiltAt
<1>2. t \in Int
  BY <1>1, CutoffAssumption
<1>3. evaluation # None => ~Widens(dataset, evaluation)
  BY DEF CanIdentify
<1>4. test = BuildLabels(outcomes, t)
  BY <1>1, <1>2, <1>3, RecutAgrees
<1>5. CutoffOf(test) = t
  BY <1>1, <1>2, <1>4, CutoffBuilt
<1>6. t <= c
  <2>1. PICK k \in DOMAIN outcomes : TRUE
    OBVIOUS
  <2>2. CASE evaluation = None
    BY <1>1, <2>2
  <2>3. CASE evaluation # None
    <3>1. ~(evaluation > c)
      BY <1>1, <1>3, <2>1, <2>3, NotWidened
    <3> QED
      BY <1>1, <1>2, <2>3, <3>1
  <2> QED
    BY <2>2, <2>3
<1> HIDE DEF t, test
<1>7. LabelsAtCutoff(dataset, OpeningOf(w.validationStart)) = BuildLabels(outcomes, CutOf("train", w, t))
  <2>1. ~Widens(dataset, OpeningOf(w.validationStart)) /\ OpeningOf(w.validationStart) \in Int
    BY WindowParts DEF CanIdentify
  <2> QED
    BY <2>1, RecutAgrees DEF CutOf
<1>8. LabelsAtCutoff(dataset, Earlier(OpeningOf(w.testStart), t)) = BuildLabels(outcomes, CutOf("validation", w, t))
  <2> DEFINE e == CutOf("validation", w, t)
  <2>1. e = Earlier(OpeningOf(w.testStart), t)
    BY DEF CutOf
  <2>2. e \in Int /\ e <= t
    BY <1>2, CutsOrdered
  <2>3. ~Widens(dataset, e)
    <3>1. \A k \in DOMAIN dataset : dataset[k].cutoff = c
      <4>1. DOMAIN dataset = DOMAIN outcomes
        BY <1>1, LabelForm
      <4>2. \A k \in DOMAIN outcomes : BuildLabels(outcomes, c)[k].cutoff = c
        BY <1>1, LabelFields
      <4> QED
        BY <1>1, <4>1, <4>2
    <3>2. ~(e > c)
      BY <1>1, <1>2, <1>6, <2>2
    <3> HIDE DEF e
    <3> QED
      BY <3>1, <3>2 DEF Widens
  <2> HIDE DEF e
  <2> QED
    BY <2>1, <2>2, <2>3, RecutAgrees DEF e
<1>9. BuildLabels(outcomes, t) = BuildLabels(outcomes, CutOf("test", w, t))
  BY DEF CutOf
<1>10. Views(w, evaluation) = [train |-> LabelsAtCutoff(dataset, OpeningOf(w.validationStart)),
                              validation |-> LabelsAtCutoff(dataset, Earlier(OpeningOf(w.testStart), CutoffOf(test))),
                              test |-> test]
  BY DEF Views, test
<1>11. Views(w, evaluation) = ViewsAt(w, t)
  BY <1>4, <1>5, <1>7, <1>8, <1>9, <1>10 DEF ViewsAt
<1> QED
  BY <1>2, <1>11

\* A row in its view is the label built at the cutoff of its split.
LEMMA RowOfView ==
    ASSUME NEW w \in Windows, NEW t \in Int, NEW k, SplitKind(k[2], w) # None
    PROVE  LET kind == SplitKind(k[2], w)
           IN /\ kind \in SplitKinds
              /\ LabelIn(ViewsAt(w, t), w, k) = BuildLabels(outcomes, CutOf(kind, w, t))[k]
<1>1. SplitKind(k[2], w) \in SplitKinds
  BY DEF SplitKind, SplitKinds
<1> DEFINE kind == SplitKind(k[2], w)
<1>2. ViewsAt(w, t)[kind] = BuildLabels(outcomes, CutOf(kind, w, t))
  <2> HIDE DEF kind
  <2>1. CASE kind = "train"
    BY <2>1 DEF ViewsAt
  <2>2. CASE kind = "validation"
    BY <2>2 DEF ViewsAt
  <2>3. CASE kind = "test"
    BY <2>3 DEF ViewsAt
  <2> QED
    BY <1>1, <2>1, <2>2, <2>3 DEF SplitKinds, kind
<1> QED
  BY <1>1, <1>2 DEF LabelIn

-----------------------------------------------------------------------------
(* What a fold is made of. *)

\* The refusals that are left when no row leaks.
Rest == Errors \ {"REIDENTIFY_RANKS_BEFORE_SPLIT", "TRAINING_LABEL_LEAKAGE"}

\* The rows of a window, each with the end of its horizon.
LEMMA RowLabel ==
    ASSUME NEW c, BuiltAt(c), NEW w \in Windows, NEW t \in Int, NEW k \in InWindow(w)
    PROVE  LET kind == SplitKind(k[2], w)
               label == LabelIn(ViewsAt(w, t), w, k)
           IN /\ k \in DOMAIN outcomes /\ kind \in SplitKinds
              /\ label = BuildLabels(outcomes, CutOf(kind, w, t))[k]
              /\ label.end = EndOf(k[2]) /\ label.cutoff = CutOf(kind, w, t)
              /\ CutOf(kind, w, t) \in Int
<1>1. k \in DOMAIN dataset /\ SplitKind(k[2], w) # None
  BY DEF InWindow
<1>2. outcomes \in OutcomeMaps /\ k \in DOMAIN outcomes
  BY <1>1, LabelForm DEF BuiltAt
<1>3. /\ SplitKind(k[2], w) \in SplitKinds
      /\ LabelIn(ViewsAt(w, t), w, k) = BuildLabels(outcomes, CutOf(SplitKind(k[2], w), w, t))[k]
  BY <1>1, RowOfView
<1>4. CutOf(SplitKind(k[2], w), w, t) \in Int
  BY <1>3, CutsOrdered DEF SplitKinds
<1>5. LET label == BuildLabels(outcomes, CutOf(SplitKind(k[2], w), w, t))[k]
      IN label.end = EndOf(k[2]) /\ label.cutoff = CutOf(SplitKind(k[2], w), w, t)
  BY <1>2, <1>4, EndAndCutoff
<1> QED
  BY <1>2, <1>3, <1>4, <1>5

\* No row of a window comes from labels of later than its boundary.
LEMMA AlwaysReidentified ==
    ASSUME NEW c, BuiltAt(c), NEW w \in Windows, NEW t \in Int, NEW k \in InWindow(w)
    PROVE  Reidentified(k, LabelIn(ViewsAt(w, t), w, k), w)
<1> DEFINE kind == SplitKind(k[2], w)
           label == LabelIn(ViewsAt(w, t), w, k)
<1>1. kind \in SplitKinds /\ label.cutoff = CutOf(kind, w, t)
  BY RowLabel
<1>2. kind # "test" => CutOf(kind, w, t) <= OpeningOf(BoundaryOf(kind, w))
  BY <1>1, CutsOrdered DEF SplitKinds
<1> SUFFICES kind # "test" => label.cutoff <= OpeningOf(BoundaryOf(kind, w))
  BY DEF Reidentified
<1> HIDE DEF kind, label
<1> QED
  BY <1>1, <1>2

\* A label that trains was known before the cutoff of training.
LEMMA TrainedRow ==
    ASSUME NEW o \in OutcomeMaps, NEW w \in Windows,
           NEW k \in Trained(BuildLabels(o, OpeningOf(w.validationStart)), w)
    PROVE  LET cut == OpeningOf(w.validationStart)
               label == BuildLabels(o, cut)[k]
           IN /\ k \in DOMAIN o /\ k[2] >= w.trainStart /\ ScoringOf(k[2]) < cut
              /\ label.end # None /\ label.end < w.validationStart /\ Supervised(label)
              /\ label.ready < cut /\ label.cutoff = cut
<1> DEFINE cut == OpeningOf(w.validationStart)
           labels == BuildLabels(o, cut)
<1>1. cut \in Int
  BY WindowParts
<1>2. DOMAIN labels = DOMAIN o
  BY <1>1, LabelForm
<1> HIDE DEF cut, labels
<1>3. /\ k \in DOMAIN labels /\ k[2] >= w.trainStart /\ ScoringOf(k[2]) < cut
      /\ labels[k].end # None /\ labels[k].end < w.validationStart /\ Supervised(labels[k])
  BY DEF Trained, labels, cut
<1>4. labels[k].cutoff = cut
  <2>1. k \in DOMAIN o
    BY <1>2, <1>3
  <2> QED
    BY <1>1, <2>1, EndAndCutoff DEF labels
<1>5. LabelValid(k, labels[k])
  BY <1>1, <1>2, <1>3, EachLabelValid DEF labels
<1>6. labels[k].ready < labels[k].cutoff
  BY <1>3, <1>5 DEF LabelValid
<1> QED
  BY <1>2, <1>3, <1>4, <1>6 DEF labels, cut

\* The checks of TrainingBatch hold of any rows that training_batch selects.
LEMMA NeverLeaks ==
    ASSUME NEW o \in OutcomeMaps, NEW w \in Windows
    PROVE  LET view == BuildLabels(o, OpeningOf(w.validationStart))
           IN TrainingChecks(view, Trained(view, w), w)
<1> DEFINE view == BuildLabels(o, OpeningOf(w.validationStart))
<1>1. \A k \in Trained(view, w) : /\ ScoringOf(k[2]) < OpeningOf(w.validationStart)
                                  /\ view[k].ready < OpeningOf(w.validationStart)
                                  /\ view[k].cutoff = OpeningOf(w.validationStart)
  BY TrainedRow
<1> HIDE DEF view
<1>2. TrainingChecks(view, Trained(view, w), w)
  BY <1>1 DEF TrainingChecks
<1> QED
  BY <1>2 DEF view

\* What preparing a fold may give.
Preparation(result, w) ==
    \/ \E why \in Rest : result = Refused(why)
    \/ \E t \in Int : /\ result = Split(ViewsAt(w, t), w)
                     /\ \A k \in InWindow(w) : LabelIn(ViewsAt(w, t), w, k).end # None

\* prepare_fold over those views gives such a result, and neither leakage error.
LEMMA PreparedCases ==
    ASSUME NEW c, BuiltAt(c), NEW w \in Windows, NEW t \in Int
    PROVE  Preparation(Prepared(ViewsAt(w, t), w), w)
<1> DEFINE views == ViewsAt(w, t)
           early == \E k \in InWindow(w) : LabelIn(views, w, k).end = None
           stale == \E k \in InWindow(w) :
                       /\ Disposition(k, LabelIn(views, w, k), w) # "purged"
                       /\ ~Reidentified(k, LabelIn(views, w, k), w)
           empty == EvaluatedRows(views, w, "validation") = {} \/ EvaluatedRows(views, w, "test") = {}
           leaks == ~TrainingChecks(views.train, Trained(views.train, w), w)
<1>1. ~stale
  BY AlwaysReidentified
<1>2. ~leaks
  <2>1. views.train = BuildLabels(outcomes, OpeningOf(w.validationStart))
    BY DEF ViewsAt, CutOf
  <2> QED
    BY <2>1, NeverLeaks DEF BuiltAt
<1> HIDE DEF views
<1>3. Prepared(views, w) =
        IF early THEN Refused("HORIZON_COVERAGE_INCOMPLETE")
        ELSE IF stale THEN Refused("REIDENTIFY_RANKS_BEFORE_SPLIT")
        ELSE IF empty THEN Refused("EMPTY_SPLIT_AFTER_PURGE")
        ELSE IF Trained(views.train, w) = {} THEN Refused("EMPTY_TRAINING_AFTER_PURGE")
        ELSE IF leaks THEN Refused("TRAINING_LABEL_LEAKAGE")
        ELSE Split(views, w)
  BY Zenon DEF Prepared
<1>4. "HORIZON_COVERAGE_INCOMPLETE" \in Rest /\ "EMPTY_SPLIT_AFTER_PURGE" \in Rest
      /\ "EMPTY_TRAINING_AFTER_PURGE" \in Rest
  BY DEF Rest, Errors
<1>5. early \/ \A k \in InWindow(w) : LabelIn(views, w, k).end # None
  OBVIOUS
<1> HIDE DEF early, stale, empty, leaks
<1>6. \/ \E why \in Rest : Prepared(views, w) = Refused(why)
      \/ Prepared(views, w) = Split(views, w) /\ ~early
  BY <1>1, <1>2, <1>3, <1>4
<1> QED
  BY <1>5, <1>6 DEF Preparation, views

\* Whatever the evaluation, prepare_fold gives such a result.
LEMMA FoldCases ==
    ASSUME NEW c, BuiltAt(c), NEW w \in Windows, NEW evaluation \in KnowledgeCutoffs \union {None}
    PROVE  Preparation(FoldOf(w, evaluation), w)
<1>1. CASE ~CanIdentify(w, evaluation)
  <2>1. FoldOf(w, evaluation) = Refused("CANNOT_UNCENSOR_WITHOUT_SOURCE")
    BY <1>1 DEF FoldOf
  <2>2. "CANNOT_UNCENSOR_WITHOUT_SOURCE" \in Rest
    BY DEF Rest, Errors
  <2> QED
    BY <2>1, <2>2 DEF Preparation
<1>2. CASE CanIdentify(w, evaluation) /\ DOMAIN outcomes # {}
  <2>1. PICK t \in Int : Views(w, evaluation) = ViewsAt(w, t)
    BY <1>2, ViewsBuilt
  <2>2. FoldOf(w, evaluation) = Prepared(ViewsAt(w, t), w)
    BY <1>2, <2>1 DEF FoldOf
  <2> QED
    BY <2>2, PreparedCases
<1>3. CASE CanIdentify(w, evaluation) /\ DOMAIN outcomes = {}
  <2> DEFINE views == Views(w, evaluation)
  <2>1. InWindow(w) = {}
    BY <1>3, LabelForm DEF InWindow, BuiltAt
  <2> HIDE DEF views
  <2>2. EvaluatedRows(views, w, "validation") = {}
    BY <2>1 DEF EvaluatedRows
  <2>3. Prepared(views, w) = Refused("EMPTY_SPLIT_AFTER_PURGE")
    BY <2>1, <2>2 DEF Prepared
  <2>4. FoldOf(w, evaluation) = Refused("EMPTY_SPLIT_AFTER_PURGE")
    BY <1>3, <2>3 DEF FoldOf, views
  <2>5. "EMPTY_SPLIT_AFTER_PURGE" \in Rest
    BY DEF Rest, Errors
  <2> QED
    BY <2>4, <2>5 DEF Preparation
<1> QED
  BY <1>1, <1>2, <1>3

-----------------------------------------------------------------------------
(* A fold trains on the past. *)

\* Labels of what was known at a time are the labels cut at that time.
LEMMA KnownInterval ==
    ASSUME outcomes \in OutcomeMaps, NEW c \in Int, NEW k \in DOMAIN outcomes
    PROVE  BuildLabels(KnownAt(c), c)[k].interval = BuildLabels(outcomes, c)[k].interval
<1> DEFINE o == outcomes
           p == KnownAt(c)
           rows == [l \in DOMAIN p |-> Observed(p, l, c)]
           seen == [l \in DOMAIN rows |-> Censored(rows[l], c)]
<1>1. DOMAIN p = DOMAIN o /\ DOMAIN seen = DOMAIN o
  BY DEF KnownAt
<1>2. \A l \in DOMAIN o : p[l] = IF o[l] # None /\ o[l].ready < c THEN o[l] ELSE None
  BY DEF KnownAt
<1>3. ASSUME NEW l \in DOMAIN o PROVE Censored(Observed(p, l, c), c).value = Observed(o, l, c).value
  <2>1. DayOf(c) \in Int /\ (EndOf(l[2]) # None => EndOf(l[2]) \in Int)
    BY Times, KeyParts, Ends
  <2>2. o[l] # None => o[l].ready \in Int
    BY OutcomeFacts
  <2>3. CASE Shown(o, l, c)
    <3>1. p[l] = o[l]
      BY <1>2, <2>3 DEF Shown
    <3>2. Observed(p, l, c) = Observed(o, l, c)
      BY <3>1, Zenon DEF Observed
    <3>3. Censored(Observed(o, l, c), c) = Observed(o, l, c)
      BY CensoredObserved
    <3> QED
      BY <3>2, <3>3
  <2>4. CASE ~Shown(o, l, c)
    <3>1. Observed(o, l, c).value = None
      BY <2>4, ObservedShown
    <3>2. \E why \in {"calendar", "horizon", "price"} : Observed(p, l, c) = Seen(EndOf(l[2]), None, None, why)
      <4>1. CASE EndOf(l[2]) = None
        <5>1. Observed(p, l, c) = Seen(EndOf(l[2]), None, None, "calendar")
          BY <4>1, Zenon DEF Observed, Seen
        <5> QED
          BY <5>1
      <4>2. CASE EndOf(l[2]) # None /\ EndOf(l[2]) >= DayOf(c)
        <5>1. Observed(p, l, c) = Seen(EndOf(l[2]), None, None, "horizon")
          BY <4>2, Zenon DEF Observed, Seen
        <5> QED
          BY <5>1
      <4>3. CASE EndOf(l[2]) # None /\ ~(EndOf(l[2]) >= DayOf(c))
        <5>1. p[l] = None
          BY <1>2, <2>1, <2>4, <4>3 DEF Shown
        <5>2. Observed(p, l, c) = Seen(EndOf(l[2]), None, None, "price")
          BY <4>3, <5>1, Zenon DEF Observed, Seen
        <5> QED
          BY <5>2
      <4> QED
        BY <4>1, <4>2, <4>3
    <3>3. PICK why \in {"calendar", "horizon", "price"} : Observed(p, l, c) = Seen(EndOf(l[2]), None, None, why)
      BY <3>2
    <3>4. Censored(Observed(p, l, c), c).value = None
      <4>1. \A reason : Seen(EndOf(l[2]), None, None, reason).value = None
        BY DEF Seen
      <4>2. Censored(Seen(EndOf(l[2]), None, None, why), c) =
               IF EndOf(l[2]) # None /\ EndOf(l[2]) >= DayOf(c) THEN Seen(EndOf(l[2]), None, None, "horizon")
               ELSE IF None # None /\ None >= c THEN Seen(EndOf(l[2]), None, None, "availability")
               ELSE Seen(EndOf(l[2]), None, None, why)
        BY CensoredSeen
      <4> QED
        BY <3>3, <4>1, <4>2, Zenon
    <3> QED
      BY <3>1, <3>4
  <2> QED
    BY <2>3, <2>4
<1>4. \A m \in Member : seen[<<m, k[2]>>].value = Observed(o, <<m, k[2]>>, c).value
  <2> TAKE m \in Member
  <2>1. <<m, k[2]>> \in DOMAIN o
    BY KeyParts
  <2>2. seen[<<m, k[2]>>] = Censored(Observed(p, <<m, k[2]>>, c), c)
    BY <1>1, <2>1
  <2> HIDE DEF seen
  <2> QED
    BY <1>3, <2>1, <2>2
<1>5. BuildLabels(p, c) = Labelled(seen, c)
  BY Zenon DEF BuildLabels, Identify
<1> HIDE DEF seen
<1>6. Labelled(seen, c)[k].interval = PercentileInterval([m \in Member |-> seen[<<m, k[2]>>].value], k[1])
  BY <1>1 DEF Labelled
<1>7. [m \in Member |-> seen[<<m, k[2]>>].value] = ValuesAt(o, k[2], c)
  BY <1>4 DEF ValuesAt
<1>8. BuildLabels(o, c)[k].interval = PercentileInterval(ValuesAt(o, k[2], c), k[1])
  BY LabelFields
<1> QED
  BY <1>5, <1>6, <1>7, <1>8

\* A trained row has the interval that a study at the cutoff would have given it.
LEMMA SplitTrainsOnThePast ==
    ASSUME NEW c, BuiltAt(c), NEW w \in Windows, NEW t \in Int, fold = Split(ViewsAt(w, t), w),
           NEW k \in DOMAIN fold.trained
    PROVE  /\ fold.trained[k].interval =
                 BuildLabels(KnownAt(OpeningOf(fold.window.validationStart)),
                             OpeningOf(fold.window.validationStart))[k].interval
           /\ fold.trained[k].end < fold.window.validationStart
<1> DEFINE cut == OpeningOf(w.validationStart)
           view == BuildLabels(outcomes, cut)
<1>1. outcomes \in OutcomeMaps /\ cut \in Int
  BY WindowParts DEF BuiltAt
<1>2. ViewsAt(w, t).train = view
  BY DEF ViewsAt, CutOf
<1>3. k \in Trained(view, w) /\ fold.trained[k] = view[k] /\ fold.window = w
  <2> DEFINE views == ViewsAt(w, t)
  <2>1. fold = Split(views, w) /\ views.train = view
    BY <1>2
  <2> HIDE DEF views
  <2>2. fold.trained = [l \in Trained(views.train, w) |-> views.train[l]] /\ fold.window = w
    BY <2>1 DEF Split
  <2> HIDE DEF view
  <2> QED
    BY <2>1, <2>2
<1>4. k \in DOMAIN outcomes /\ view[k].end < w.validationStart
  BY <1>1, <1>3, TrainedRow
<1>5. BuildLabels(KnownAt(cut), cut)[k].interval = view[k].interval
  BY <1>1, <1>4, KnownInterval
<1> HIDE DEF view
<1> QED
  BY <1>3, <1>4, <1>5

-----------------------------------------------------------------------------
(* A fold accounts for every row of its window. *)

\* The horizon of a day ends too late for its split.
Over(day, kind, w, t) ==
    \/ EndOf(day) >= DayOf(CutOf(kind, w, t))
    \/ kind # "test" /\ EndOf(day) >= BoundaryOf(kind, w)

\* Both rules purge by the end of the horizon alone, and so a whole day.
LEMMA DispositionForm ==
    ASSUME NEW c, BuiltAt(c), NEW w \in Windows, NEW t \in Int, NEW k \in InWindow(w), EndOf(k[2]) # None
    PROVE  LET kind == SplitKind(k[2], w)
               label == LabelIn(ViewsAt(w, t), w, k)
           IN /\ Disposition(k, label, w) = IF Over(k[2], kind, w, t) THEN "purged"
                                           ELSE IF ~Supervised(label) THEN "unavailable" ELSE "available"
              /\ DayDisposition(label, kind, w) = IF Over(k[2], kind, w, t) THEN "purged" ELSE "available"
<1> DEFINE kind == SplitKind(k[2], w)
           label == LabelIn(ViewsAt(w, t), w, k)
<1>1. label.end = EndOf(k[2]) /\ label.cutoff = CutOf(kind, w, t)
  BY RowLabel
<1> SUFFICES /\ Disposition(k, label, w) = IF Over(k[2], kind, w, t) THEN "purged"
                                          ELSE IF ~Supervised(label) THEN "unavailable" ELSE "available"
             /\ DayDisposition(label, kind, w) = IF Over(k[2], kind, w, t) THEN "purged" ELSE "available"
  OBVIOUS
<1>2. Disposition(k, label, w) =
        IF label.end = None THEN "unavailable"
        ELSE IF label.end >= DayOf(label.cutoff) THEN "purged"
        ELSE IF kind # "test" /\ label.end >= BoundaryOf(kind, w) THEN "purged"
        ELSE IF ~Supervised(label) THEN "unavailable"
        ELSE "available"
  BY DEF Disposition
<1> HIDE DEF kind, label
<1> QED
  BY <1>1, <1>2 DEF DayDisposition, Over

\* A training row is trained, purged or unavailable, and one of the three: the
\* dates that training_batch selects by say what partition_label decides.
LEMMA TrainAccounted ==
    ASSUME NEW c, BuiltAt(c), NEW w \in Windows, NEW t \in Int, fold = Split(ViewsAt(w, t), w),
           NEW k \in DOMAIN dataset, SplitKind(k[2], w) = "train", EndOf(k[2]) # None
    PROVE  Cardinality({part \in {"trained", "purged", "unavailable"} :
                \/ part = "trained" /\ k \in DOMAIN fold.trained
                \/ part = "purged" /\ k \in fold.purged["train"]
                \/ part = "unavailable" /\ k \in fold.unavailable}) = 1
<1> DEFINE views == ViewsAt(w, t)
           label == LabelIn(views, w, k)
           vs == w.validationStart
           what == Disposition(k, label, w)
           parts == {part \in {"trained", "purged", "unavailable"} :
                        \/ part = "trained" /\ k \in DOMAIN fold.trained
                        \/ part = "purged" /\ k \in fold.purged["train"]
                        \/ part = "unavailable" /\ k \in fold.unavailable}
<1>1. k \in InWindow(w)
  <2>1. None # "train"
    BY ErrorAssumption DEF SplitKinds
  <2> QED
    BY <2>1 DEF InWindow
<1>2. k \in DOMAIN outcomes /\ k[2] \in Int /\ EndOf(k[2]) \in Int
  <2>1. k \in DOMAIN outcomes
    BY <1>1, RowLabel
  <2> QED
    BY <2>1, KeyParts, Ends DEF BuiltAt
<1>3. vs \in Int /\ w.trainStart \in Int /\ OpeningOf(vs) = 4 * vs /\ DayOf(OpeningOf(vs)) = vs
      /\ ScoringOf(k[2]) = 4 * k[2] + 3
  BY <1>2, WindowParts, Times
<1>4. w.trainStart <= k[2] /\ k[2] < vs
  <2>1. "train" # "validation" /\ "train" # "test" /\ "train" # None
    BY ErrorAssumption DEF SplitKinds
  <2> QED
    BY <2>1 DEF SplitKind
<1>5. CutOf("train", w, t) = OpeningOf(vs) /\ BoundaryOf("train", w) = vs
  BY DEF CutOf, BoundaryOf
<1>6. what = IF EndOf(k[2]) >= vs THEN "purged" ELSE IF ~Supervised(label) THEN "unavailable" ELSE "available"
  BY <1>1, <1>3, <1>5, DispositionForm DEF Over
<1>7. views.train[k] = label /\ label.end = EndOf(k[2])
  <2>1. label = BuildLabels(outcomes, CutOf("train", w, t))[k] /\ label.end = EndOf(k[2])
    BY <1>1, RowLabel
  <2> QED
    BY <2>1 DEF ViewsAt
<1>8. k \in DOMAIN views.train
  <2>1. views.train = BuildLabels(outcomes, CutOf("train", w, t)) /\ CutOf("train", w, t) \in Int
    BY CutsOrdered DEF ViewsAt
  <2> QED
    BY <1>2, <2>1, LabelForm DEF BuiltAt
<1> HIDE DEF views, label, what, parts
<1>0. /\ DOMAIN fold.trained = Trained(views.train, w)
          /\ fold.purged = [kind \in SplitKinds |-> Decided(views, w, kind, "purged")]
          /\ fold.unavailable = UNION {Decided(views, w, kind, "unavailable") : kind \in SplitKinds}
  <2>1. fold = Split(views, w)
    BY DEF views
  <2> QED
    BY <2>1 DEF Split
<1>9. k \in DOMAIN fold.trained <=> what = "available"
  <2>1. DOMAIN fold.trained = Trained(views.train, w)
    BY <1>0
  <2>2. k \in Trained(views.train, w) <=> EndOf(k[2]) < vs /\ Supervised(label)
    BY <1>2, <1>3, <1>4, <1>7, <1>8 DEF Trained
  <2> QED
    BY <1>2, <1>3, <1>6, <2>1, <2>2
<1>10. k \in fold.purged["train"] <=> what = "purged"
  <2>1. fold.purged = [kind \in SplitKinds |-> Decided(views, w, kind, "purged")]
    BY <1>0
  <2>2. "train" \in SplitKinds
    BY DEF SplitKinds
  <2>3. fold.purged["train"] = Decided(views, w, "train", "purged")
    BY <2>1, <2>2
  <2> QED
    BY <1>1, <2>3 DEF Decided, what, label
<1>11. k \in fold.unavailable <=> what = "unavailable"
  <2>1. fold.unavailable = UNION {Decided(views, w, kind, "unavailable") : kind \in SplitKinds}
    BY <1>0
  <2>2. "train" \in SplitKinds
    BY DEF SplitKinds
  <2>3. \A kind \in SplitKinds :
          k \in Decided(views, w, kind, "unavailable") <=> kind = "train" /\ what = "unavailable"
    BY <1>1 DEF Decided, what, label
  <2> QED
    BY <2>1, <2>2, <2>3
<1>12. parts = {IF what = "available" THEN "trained" ELSE what}
  <2>1. what \in {"available", "purged", "unavailable"}
    BY <1>6
  <2> QED
    BY <1>9, <1>10, <1>11, <2>1 DEF parts
<1>13. Cardinality(parts) = 1
  BY <1>12, FS_Singleton
<1> QED
  BY <1>13 DEF parts

\* A day of validation or test is purged as a whole or evaluated as a whole.
LEMMA DayAccounted ==
    ASSUME NEW c, BuiltAt(c), NEW w \in Windows, NEW t \in Int, fold = Split(ViewsAt(w, t), w),
           \A l \in InWindow(w) : LabelIn(ViewsAt(w, t), w, l).end # None,
           NEW kind \in {"validation", "test"}, NEW k \in DOMAIN dataset, SplitKind(k[2], w) = kind
    PROVE  \/ DayRows(dataset, k[2]) \subseteq fold.purged[kind]
           \/ /\ DayRows(dataset, k[2]) \subseteq DOMAIN fold[kind]
              /\ DayDisposition(fold[kind][k], kind, w) = "available"
<1> DEFINE views == ViewsAt(w, t)
           over == Over(k[2], kind, w, t)
<1>1. kind \in SplitKinds /\ kind # None
  BY ErrorAssumption DEF SplitKinds
<1>2. ASSUME NEW l \in DayRows(dataset, k[2])
      PROVE  /\ l \in InWindow(w) /\ SplitKind(l[2], w) = kind
             /\ Disposition(l, LabelIn(views, w, l), w) = "purged" <=> over
  <2>1. l \in DOMAIN dataset /\ l[2] = k[2]
    BY DEF DayRows
  <2>2. l \in InWindow(w) /\ SplitKind(l[2], w) = kind
    BY <1>1, <2>1 DEF InWindow
  <2>3. EndOf(l[2]) # None
    BY <2>2, RowLabel
  <2>4. Disposition(l, LabelIn(views, w, l), w) =
          IF over THEN "purged" ELSE IF ~Supervised(LabelIn(views, w, l)) THEN "unavailable" ELSE "available"
    BY <2>1, <2>2, <2>3, DispositionForm
  <2> HIDE DEF views, over
  <2> QED
    BY <2>2, <2>4
<1>3. k \in DayRows(dataset, k[2])
  BY DEF DayRows
<1>4. DayDisposition(LabelIn(views, w, k), kind, w) = IF over THEN "purged" ELSE "available"
  <2>1. k \in InWindow(w) /\ EndOf(k[2]) # None
    BY <1>2, <1>3, RowLabel
  <2> QED
    BY <2>1, DispositionForm
<1>5. /\ fold.purged = [what \in SplitKinds |-> Decided(views, w, what, "purged")]
      /\ fold.validation = [l \in EvaluatedRows(views, w, "validation") |-> views.validation[l]]
      /\ fold.test = [l \in EvaluatedRows(views, w, "test") |-> views.test[l]]
  <2>1. fold = Split(views, w)
    OBVIOUS
  <2> HIDE DEF views
  <2> QED
    BY <2>1 DEF Split
<1>6. LabelIn(views, w, k) = views[kind][k]
  BY DEF LabelIn
<1> HIDE DEF views, over
<1>7. fold.purged[kind] = Decided(views, w, kind, "purged")
  BY <1>1, <1>5
<1>8. fold[kind] = [l \in EvaluatedRows(views, w, kind) |-> views[kind][l]]
  <2>1. CASE kind = "validation"
    BY <1>5, <2>1
  <2>2. CASE kind = "test"
    BY <1>5, <2>2
  <2> QED
    BY <2>1, <2>2
<1>9. CASE over
  BY <1>2, <1>7, <1>9 DEF Decided
<1>10. CASE ~over
  <2>1. DayRows(dataset, k[2]) \subseteq EvaluatedRows(views, w, kind)
    BY <1>2, <1>10 DEF EvaluatedRows, Decided
  <2>2. fold[kind][k] = LabelIn(views, w, k)
    BY <1>3, <1>6, <1>8, <2>1
  <2> QED
    BY <1>4, <1>8, <1>10, <2>1, <2>2
<1> QED
  BY <1>9, <1>10

\* Only rows of the training window are trained.
LEMMA TrainedInWindow ==
    ASSUME NEW c, BuiltAt(c), NEW w \in Windows, NEW t \in Int, fold = Split(ViewsAt(w, t), w)
    PROVE  DOMAIN fold.trained \subseteq {k \in DOMAIN dataset : SplitKind(k[2], w) = "train"}
<1> DEFINE view == BuildLabels(outcomes, OpeningOf(w.validationStart))
<1>1. DOMAIN fold.trained = Trained(view, w)
  <2> DEFINE views == ViewsAt(w, t)
  <2>1. fold = Split(views, w) /\ views.train = view
    BY DEF ViewsAt, CutOf
  <2> HIDE DEF views, view
  <2> QED
    BY <2>1 DEF Split
<1>2. outcomes \in OutcomeMaps /\ DOMAIN dataset = DOMAIN outcomes
  BY LabelForm DEF BuiltAt
<1>3. ASSUME NEW k \in Trained(view, w) PROVE k \in DOMAIN dataset /\ SplitKind(k[2], w) = "train"
  <2>1. k \in DOMAIN outcomes /\ k[2] >= w.trainStart /\ ScoringOf(k[2]) < OpeningOf(w.validationStart)
    BY <1>2, TrainedRow
  <2>2. k[2] \in Int
    BY <1>2, <2>1, KeyParts
  <2>3. ScoringOf(k[2]) = 4 * k[2] + 3
    BY <2>2, Times
  <2>4. w.validationStart \in Int /\ w.trainStart \in Int /\ OpeningOf(w.validationStart) = 4 * w.validationStart
    BY WindowParts, Times
  <2>5. k[2] < w.validationStart
    BY <2>1, <2>2, <2>3, <2>4
  <2> HIDE DEF view
  <2> QED
    BY <1>2, <2>1, <2>2, <2>4, <2>5 DEF SplitKind
<1> HIDE DEF view
<1> QED
  BY <1>1, <1>3

-----------------------------------------------------------------------------
(* The properties of a run. *)

\* A prepared fold has both properties.
LEMMA PreparedFoldSound ==
    ASSUME NEW c, BuiltAt(c), NEW w \in Windows, Preparation(fold, w)
    PROVE  FoldsSound
<1> DEFINE leaks == {"TRAINING_LABEL_LEAKAGE", "REIDENTIFY_RANKS_BEFORE_SPLIT"}
<1>1. CASE \E why \in Rest : fold = Refused(why)
  <2>1. PICK why \in Rest : fold = Refused(why)
    BY <1>1
  <2>2. fold.error = why
    BY <2>1 DEF Refused
  <2>3. why # None /\ why \notin leaks
    BY ErrorAssumption DEF Rest
  <2> QED
    BY <2>2, <2>3 DEF FoldsSound, TrainsOnThePast, FoldAccountsForAll, FoldReady
<1>2. CASE \E t \in Int : /\ fold = Split(ViewsAt(w, t), w)
                          /\ \A k \in InWindow(w) : LabelIn(ViewsAt(w, t), w, k).end # None
  <2>1. PICK t \in Int : /\ fold = Split(ViewsAt(w, t), w)
                         /\ \A k \in InWindow(w) : LabelIn(ViewsAt(w, t), w, k).end # None
    BY <1>2
  <2>2. fold.error = None /\ fold.window = w
    <3> DEFINE views == ViewsAt(w, t)
    <3>1. fold = Split(views, w)
      BY <2>1
    <3> HIDE DEF views
    <3> QED
      BY <3>1 DEF Split
  <2>3. None \notin leaks
    BY ErrorAssumption DEF Errors
  <2>4. TrainsOnThePast
    <3>1. \A k \in DOMAIN fold.trained :
             /\ fold.trained[k].interval =
                   BuildLabels(KnownAt(OpeningOf(fold.window.validationStart)),
                               OpeningOf(fold.window.validationStart))[k].interval
             /\ fold.trained[k].end < fold.window.validationStart
      BY <2>1, SplitTrainsOnThePast
    <3> QED
      BY <2>2, <2>3, <3>1 DEF TrainsOnThePast
  <2>5. FoldAccountsForAll
    <3>1. ASSUME NEW k \in DOMAIN dataset, SplitKind(k[2], w) = "train" PROVE EndOf(k[2]) # None
      <4>1. "train" # None
        BY ErrorAssumption DEF SplitKinds
      <4>2. k \in InWindow(w)
        BY <3>1, <4>1 DEF InWindow
      <4> QED
        BY <2>1, <4>2, RowLabel
    <3>2. \A k \in DOMAIN dataset : SplitKind(k[2], w) = "train" =>
            Cardinality({part \in {"trained", "purged", "unavailable"} :
                \/ part = "trained" /\ k \in DOMAIN fold.trained
                \/ part = "purged" /\ k \in fold.purged["train"]
                \/ part = "unavailable" /\ k \in fold.unavailable}) = 1
      BY <2>1, <3>1, TrainAccounted
    <3>3. DOMAIN fold.trained \subseteq {k \in DOMAIN dataset : SplitKind(k[2], w) = "train"}
      BY <2>1, TrainedInWindow
    <3>4. \A kind \in {"validation", "test"} : \A k \in DOMAIN dataset :
            SplitKind(k[2], w) = kind =>
                \/ DayRows(dataset, k[2]) \subseteq fold.purged[kind]
                \/ /\ DayRows(dataset, k[2]) \subseteq DOMAIN fold[kind]
                   /\ DayDisposition(fold[kind][k], kind, w) = "available"
      BY <2>1, DayAccounted
    <3> QED
      BY <2>2, <3>2, <3>3, <3>4 DEF FoldAccountsForAll
  <2> QED
    BY <2>4, <2>5 DEF FoldsSound
<1> QED
  BY <1>1, <1>2 DEF Preparation

\* The inductive invariant: labels were built at some cutoff, and a fold is a result
\* of preparing one from them.
FoldInv ==
    /\ outcomes \in OutcomeMaps
    /\ dataset # None => \E c \in KnowledgeCutoffs : dataset = BuildLabels(outcomes, c)
    /\ dataset = None => fold = None
    /\ fold # None => \E w \in Windows : Preparation(fold, w)

\* A result depends on the outcomes and the labels alone.
LEMMA PreparationKept ==
    ASSUME NEW w, Preparation(fold', w), UNCHANGED <<outcomes, dataset>>
    PROVE  Preparation(fold, w)'
<1>1. InWindow(w)' = InWindow(w)
  BY DEF InWindow
<1>2. \A t : ViewsAt(w, t)' = ViewsAt(w, t)
  BY DEF ViewsAt
<1>3. ASSUME NEW t PROVE Split(ViewsAt(w, t), w)' = Split(ViewsAt(w, t), w)
  <2> DEFINE views == ViewsAt(w, t)
  <2>1. views' = views
    BY <1>2
  <2> HIDE DEF views
  <2>2. \A kind, what : Decided(views, w, kind, what)' = Decided(views, w, kind, what)
    BY <1>1, <2>1 DEF Decided, LabelIn
  <2>3. \A kind : EvaluatedRows(views, w, kind)' = EvaluatedRows(views, w, kind)
    BY <1>1, <2>2 DEF EvaluatedRows
  <2>4. Split(views, w)' = Split(views, w)
    BY <2>1, <2>2, <2>3, Zenon DEF Split
  <2> QED
    BY <2>4 DEF views
<1> QED
  BY <1>1, <1>2, <1>3 DEF Preparation, LabelIn

\* The invariant gives the properties.
LEMMA FoldInvSound ==
    ASSUME FoldInv
    PROVE  LabelsAgree /\ FoldsSound
<1>1. CASE dataset = None
  <2>1. fold = None
    BY <1>1 DEF FoldInv
  <2>2. RecutCommutes /\ SupervisionAgrees
    BY <1>1, Zenon DEF RecutCommutes, SupervisionAgrees
  <2>3. TrainsOnThePast /\ FoldAccountsForAll
    BY <2>1, Zenon DEF TrainsOnThePast, FoldAccountsForAll, FoldReady
  <2> QED
    BY <2>2, <2>3 DEF LabelsAgree, FoldsSound
<1>2. CASE dataset # None
  <2>1. PICK c \in KnowledgeCutoffs : dataset = BuildLabels(outcomes, c)
    BY <1>2 DEF FoldInv
  <2>2. BuiltAt(c)
    BY <2>1, CutoffAssumption DEF FoldInv, BuiltAt
  <2>3. LabelsAgree
    BY <2>2, BuiltLabelsAgree
  <2>4. CASE fold = None
    <3>1. TrainsOnThePast /\ FoldAccountsForAll
      BY <2>4, Zenon DEF TrainsOnThePast, FoldAccountsForAll, FoldReady
    <3> QED
      BY <2>3, <3>1 DEF FoldsSound
  <2>5. CASE fold # None
    <3>1. PICK w \in Windows : Preparation(fold, w)
      BY <2>5 DEF FoldInv
    <3> QED
      BY <2>2, <2>3, <3>1, PreparedFoldSound
  <2> QED
    BY <2>4, <2>5
<1> QED
  BY <1>1, <1>2

\* Nothing is built at first.
LEMMA FoldInvInit == FoldInit => FoldInv
BY DEF FoldInit, FoldInv

\* Building labels and preparing a fold keep the invariant.
LEMMA FoldInvStep == FoldInv /\ [FoldNext]_foldVars => FoldInv'
<1> SUFFICES ASSUME FoldInv, [FoldNext]_foldVars PROVE FoldInv'
  OBVIOUS
<1>1. CASE Build
  <2>1. outcomes' = outcomes /\ fold' = None
    BY <1>1 DEF Build, FoldInv
  <2>2. \E c \in KnowledgeCutoffs : dataset' = BuildLabels(outcomes, c)
    BY <1>1 DEF Build
  <2> QED
    BY <2>1, <2>2 DEF FoldInv
<1>2. CASE PrepareFold
  <2>1. PICK c \in KnowledgeCutoffs : dataset = BuildLabels(outcomes, c)
    BY <1>2 DEF FoldInv, PrepareFold
  <2>2. BuiltAt(c)
    BY <2>1, CutoffAssumption DEF FoldInv, BuiltAt
  <2>3. UNCHANGED <<outcomes, dataset>> /\ dataset # None
    BY <1>2 DEF PrepareFold
  <2>4. PICK w \in Windows, evaluation \in KnowledgeCutoffs \union {None} : fold' = FoldOf(w, evaluation)
    BY <1>2 DEF PrepareFold
  <2>5. Preparation(fold', w)
    BY <2>2, <2>4, FoldCases
  <2>6. Preparation(fold, w)'
    BY <2>3, <2>5, PreparationKept
  <2> QED
    BY <2>3, <2>6 DEF FoldInv
<1>3. CASE UNCHANGED foldVars
  <2>1. UNCHANGED <<outcomes, dataset, fold>>
    BY <1>3 DEF foldVars
  <2>2. ASSUME NEW w \in Windows, Preparation(fold, w) PROVE Preparation(fold, w)'
    BY <2>1, <2>2, PreparationKept
  <2> QED
    BY <2>1, <2>2 DEF FoldInv
<1> QED
  BY <1>1, <1>2, <1>3 DEF FoldNext

\* Every study has labels that agree with themselves when cut earlier, reasons and
\* groups included, and with the supervision that StateInputs computes from arrays.
THEOREM LabelsAlwaysAgree == FoldSpec => []LabelsAgree
BY FoldInvInit, FoldInvStep, FoldInvSound, PTL DEF FoldSpec

\* Every fold trains on the past alone, never refuses for leakage, and accounts
\* for each row of its window.
THEOREM FoldsAlwaysSound == FoldSpec => []FoldsSound
BY FoldInvInit, FoldInvStep, FoldInvSound, PTL DEF FoldSpec

-----------------------------------------------------------------------------
(* Cutoffs and what is known at them. *)

\* The artifacts that have one cutoff.
Single == {"view", "tensor", "metric", "models", "block", "risk", "gates", "forecast"}

\* An artifact is a kind and a cutoff, a validation one more cutoff.
LEMMA ArtifactParts ==
    /\ \A a \in Artifacts : a[2] \in Cutoffs
    /\ \A a \in Artifacts : a[1] \in Single \/ (a[1] = "validation" /\ a[3] \in Cutoffs)
    /\ \A kind \in Single, h \in Cutoffs : <<kind, h>> \in Artifacts
    /\ \A h \in Cutoffs, k \in Cutoffs : <<"validation", h, k>> \in Artifacts
<1>1. \A a \in Artifacts : a[2] \in Cutoffs
  BY DEF Artifacts
<1>2. \A a \in Artifacts : a[1] \in Single \/ (a[1] = "validation" /\ a[3] \in Cutoffs)
  BY DEF Artifacts, Single
<1>3. \A kind \in Single, h \in Cutoffs : <<kind, h>> \in Artifacts
  BY DEF Artifacts, Single
<1>4. \A h \in Cutoffs, k \in Cutoffs : <<"validation", h, k>> \in Artifacts
  BY DEF Artifacts
<1> QED
  BY <1>1, <1>2, <1>3, <1>4

\* Later cutoffs start no earlier.
LEMMA StartOrder ==
    ASSUME NEW c \in Calendars, NEW h \in Cutoffs, NEW k \in Cutoffs, h <= k
    PROVE  c.start[h] \in Int /\ c.start[k] \in Int /\ c.start[h] <= c.start[k]
BY CalendarAssumption, HalfAssumption DEF Cutoffs

\* What was known stays known.
LEMMA KnownGrows ==
    ASSUME NEW c \in Calendars, NEW h \in Cutoffs, NEW k \in Cutoffs, h <= k
    PROVE  KnownBefore(c, h) \subseteq KnownBefore(c, k)
<1>1. c.start[h] \in Int /\ c.start[k] \in Int /\ c.start[h] <= c.start[k]
  BY StartOrder
<1>2. \A d \in c.days : d \in Int /\ c.ends[d] \in Int \union {None} /\ c.ready[d] \in Int
  BY CalendarAssumption
<1> QED
  BY <1>1, <1>2 DEF KnownBefore

\* Every cutoff has a memory.
LEMMA AlwaysKnown ==
    ASSUME NEW c \in Calendars, NEW h \in Cutoffs
    PROVE  KnownBefore(c, h) # {}
<1>1. 1 \in Cutoffs /\ 1 <= h
  BY HalfAssumption DEF Cutoffs
<1>2. KnownBefore(c, 1) \subseteq KnownBefore(c, h)
  BY <1>1, KnownGrows
<1> QED
  BY <1>2, HistoryAssumption

\* A half-year that ended is an earlier cutoff, and stays ended.
LEMMA EndedBefore ==
    ASSUME NEW c \in Calendars, NEW h \in Cutoffs, NEW j \in Ended(c, h)
    PROVE  /\ j \in Cutoffs /\ j < h
           /\ \A k \in Cutoffs : h <= k => j \in Ended(c, k)
<1>1. j \in Int /\ First <= j /\ j <= h - 1 /\ j \in Cutoffs /\ j < h
  BY HalfAssumption DEF Ended, Cutoffs
<1>2. ASSUME NEW k \in Cutoffs, h <= k PROVE j \in Ended(c, k)
  <2>1. c.start[h] \in Int /\ c.start[k] \in Int /\ c.start[h] <= c.start[k]
    BY <1>2, StartOrder
  <2>2. PICK d \in DaysOf(c, j) : /\ \A e \in DaysOf(c, j) : e <= d
                                  /\ c.ends[d] # None /\ c.ends[d] < c.start[h]
    BY DEF Ended
  <2>3. c.ends[d] \in Int
    BY <2>2, CalendarAssumption DEF DaysOf
  <2>4. c.ends[d] < c.start[k]
    BY <2>1, <2>2, <2>3
  <2>5. j \in First..(k - 1)
    BY <1>1, <1>2, HalfAssumption DEF Cutoffs
  <2> QED
    BY <2>2, <2>4, <2>5 DEF Ended
<1> QED
  BY <1>1, <1>2

\* A block that could be predicted is an earlier cutoff with its own history,
\* and so are the blocks before it.
LEMMA BlockFacts ==
    ASSUME NEW c \in Calendars, NEW h \in Cutoffs, NEW j \in BlocksBefore(c, h)
    PROVE  /\ j \in Cutoffs /\ j < h /\ ~TooShort(c, j)
           /\ \A i \in BlocksBefore(c, j) : i \in BlocksBefore(c, h)
<1>1. j \in Ended(c, h) /\ ~TooShort(c, j)
  BY DEF BlocksBefore
<1>2. j \in Cutoffs /\ j < h /\ j <= h
  BY <1>1, EndedBefore DEF Cutoffs
<1>3. ASSUME NEW i \in BlocksBefore(c, j) PROVE i \in BlocksBefore(c, h)
  <2>1. i \in Ended(c, j) /\ ~TooShort(c, i)
    BY DEF BlocksBefore
  <2>2. i \in Ended(c, h)
    BY <1>2, <2>1, EndedBefore
  <2> QED
    BY <2>1, <2>2 DEF BlocksBefore
<1> QED
  BY <1>1, <1>2, <1>3

\* So are the blocks that metrics are fitted on.
LEMMA InnerFacts ==
    ASSUME NEW c \in Calendars, NEW h \in Cutoffs, NEW k \in Inner(c, h)
    PROVE  k \in Cutoffs /\ k < h
<1>1. k \in Ended(c, h)
  BY DEF Inner, LastTwo
<1> QED
  BY <1>1, EndedBefore

-----------------------------------------------------------------------------
(* What an artifact asks for. *)

\* Cutoffs in their order are those of the set.
LEMMA InOrderRange ==
    ASSUME NEW S
    PROVE  /\ InOrder(S) \in Seq(Cutoffs \intersect S)
           /\ \A i \in DOMAIN InOrder(S) : InOrder(S)[i] \in Cutoffs /\ InOrder(S)[i] \in S
<1> DEFINE halves == [h \in Cutoffs |-> h]
<1>1. halves \in Seq(Cutoffs)
  BY HalfAssumption DEF Cutoffs
<1> HIDE DEF halves
<1>2. Those(halves, S) \in Seq(Cutoffs \intersect S)
  BY <1>1, ThoseType
<1>3. InOrder(S) \in Seq(Cutoffs \intersect S)
  BY <1>2 DEF InOrder, halves
<1>4. PICK s : s = InOrder(S)
  OBVIOUS
<1>5. \A i \in DOMAIN s : s[i] \in Cutoffs \intersect S
  BY <1>3, <1>4
<1> QED
  BY <1>3, <1>4, <1>5

\* What Each makes: artifacts of its kind, at cutoffs of the set.
LEMMA EachRange ==
    ASSUME NEW kind \in Single, NEW S
    PROVE  /\ Each(kind, S) \in Seq(Artifacts)
           /\ \A n \in ToSet(Each(kind, S)) : \E h \in Cutoffs \intersect S : n = <<kind, h>>
<1>1. PICK s \in Seq(Cutoffs \intersect S) : s = InOrder(S)
  BY InOrderRange
<1>2. Each(kind, S) = [i \in DOMAIN s |-> <<kind, s[i]>>]
  BY <1>1 DEF Each
<1>3. PICK m \in Nat : DOMAIN s = 1..m
  BY <1>1
<1>4. \A i \in 1..m : s[i] \in Cutoffs \intersect S /\ <<kind, s[i]>> \in Artifacts
  BY <1>1, <1>3, ArtifactParts
<1> QED
  BY <1>2, <1>3, <1>4 DEF ToSet

\* The artifacts behind the rows before a cutoff.
RowAsks(c, h, n) == n = <<"view", h>> \/ \E k \in BlocksBefore(c, h) : n = <<"block", k>>

\* What an artifact may ask for.
Asks(c, a, n) ==
    \/ a[1] = "tensor" /\ \E k \in 1..a[2] : n = <<"view", k>>
    \/ a[1] = "metric" /\ n = <<"tensor", a[2]>>
    \/ a[1] = "validation" /\ n \in {<<"metric", a[3]>>, <<"view", a[3]>>, <<"view", a[2]>>}
    \/ /\ a[1] = "models"
       /\ \/ \E k \in Inner(c, a[2]) : n \in {<<"tensor", k>>, <<"metric", k>>, <<"validation", a[2], k>>}
          \/ n \in {<<"tensor", a[2]>>, <<"view", a[2]>>}
    \/ a[1] = "block" /\ n \in {<<"models", a[2]>>, <<"risk", a[2]>>, <<"view", a[2]>>}
    \/ a[1] = "risk" /\ RowAsks(c, a[2], n)
    \/ /\ a[1] = "gates"
       /\ \/ n = <<"risk", a[2]>>
          \/ RowAsks(c, a[2], n)
          \/ \E k \in BlocksBefore(c, a[2]) :
                \/ RowAsks(c, k, n)
                \/ RowsKnown(c, k) # {} /\ n \in {<<"block", k>>, <<"gates", k>>}
    \/ a[1] = "forecast" /\ n \in {<<"models", a[2]>>, <<"risk", a[2]>>, <<"gates", a[2]>>, <<"view", a[2]>>}

\* A sequence of artifacts that satisfies what is said of each.
LEMMA PairRange ==
    ASSUME NEW s \in Seq(Artifacts), NEW t \in Seq(Artifacts)
    PROVE  s \o t \in Seq(Artifacts) /\ \A n \in ToSet(s \o t) : n \in ToSet(s) \/ n \in ToSet(t)
BY ToSetConcat

\* rows_before(): the memory of the cutoff and the blocks before it.
LEMMA RowsAsked ==
    ASSUME NEW c \in Calendars, NEW h \in Cutoffs
    PROVE  RowNeeds(c, h) \in Seq(Artifacts) /\ \A n \in ToSet(RowNeeds(c, h)) : RowAsks(c, h, n)
<1>1. <<"view", h>> \in Artifacts
  BY ArtifactParts DEF Single
<1>2. << <<"view", h>> >> \in Seq(Artifacts) /\ \A n \in ToSet(<< <<"view", h>> >>) : n = <<"view", h>>
  BY <1>1 DEF ToSet
<1>3. /\ Each("block", BlocksBefore(c, h)) \in Seq(Artifacts)
      /\ \A n \in ToSet(Each("block", BlocksBefore(c, h))) : \E k \in Cutoffs \intersect BlocksBefore(c, h) : n = <<"block", k>>
  BY EachRange DEF Single
<1>4. PICK s, t : s = << <<"view", h>> >> /\ t = Each("block", BlocksBefore(c, h)) /\ RowNeeds(c, h) = s \o t
  BY DEF RowNeeds
<1>5. s \o t \in Seq(Artifacts) /\ \A n \in ToSet(s \o t) : n \in ToSet(s) \/ n \in ToSet(t)
  BY <1>2, <1>3, <1>4, PairRange
<1> QED
  BY <1>2, <1>3, <1>4, <1>5 DEF RowAsks

\* What a short list holds.
LEMMA OneRange ==
    ASSUME NEW a \in Artifacts
    PROVE  <<a>> \in Seq(Artifacts) /\ \A n \in ToSet(<<a>>) : n = a
BY DEF ToSet

\* Likewise two.
LEMMA TwoRange ==
    ASSUME NEW a \in Artifacts, NEW b \in Artifacts
    PROVE  <<a, b>> \in Seq(Artifacts) /\ \A n \in ToSet(<<a, b>>) : n \in {a, b}
BY DEF ToSet

\* Likewise three.
LEMMA ThreeRange ==
    ASSUME NEW a \in Artifacts, NEW b \in Artifacts, NEW e \in Artifacts
    PROVE  <<a, b, e>> \in Seq(Artifacts) /\ \A n \in ToSet(<<a, b, e>>) : n \in {a, b, e}
BY DEF ToSet

\* Likewise four.
LEMMA FourRange ==
    ASSUME NEW a \in Artifacts, NEW b \in Artifacts, NEW e \in Artifacts, NEW f \in Artifacts
    PROVE  <<a, b, e, f>> \in Seq(Artifacts) /\ \A n \in ToSet(<<a, b, e, f>>) : n \in {a, b, e, f}
BY DEF ToSet

\* tensor()
LEMMA TensorAsks ==
    ASSUME NEW c \in Calendars, NEW h \in Cutoffs, NEW a, a[1] = "tensor", a[2] = h
    PROVE  /\ TensorNeeds(c, h) \in Seq(Artifacts)
           /\ \A n \in ToSet(TensorNeeds(c, h)) : Asks(c, a, n)
<1>1. PICK S : S = {h} \union {k \in 1..h : DaysOf(c, k) \intersect KnownBefore(c, h) # {}}
  OBVIOUS
<1>2. /\ Each("view", S) \in Seq(Artifacts)
      /\ \A n \in ToSet(Each("view", S)) : \E k \in Cutoffs \intersect S : n = <<"view", k>>
  BY EachRange DEF Single
<1>3. \A k \in Cutoffs \intersect S : k \in 1..h
  BY <1>1, HalfAssumption DEF Cutoffs
<1>4. TensorNeeds(c, h) = Each("view", S)
  BY <1>1 DEF TensorNeeds
<1>5. \A n \in ToSet(TensorNeeds(c, h)) : \E k \in 1..h : n = <<"view", k>>
  BY <1>2, <1>3, <1>4
<1> QED
  BY <1>2, <1>4, <1>5 DEF Asks

\* fit()
LEMMA ModelsAsk ==
    ASSUME NEW c \in Calendars, NEW h \in Cutoffs, NEW a, a[1] = "models", a[2] = h
    PROVE  /\ ModelNeeds(c, h) \in Seq(Artifacts)
           /\ \A n \in ToSet(ModelNeeds(c, h)) : Asks(c, a, n)
<1> DEFINE part(k) == << <<"tensor", k>>, <<"metric", k>>, <<"validation", h, k>> >>
<1>1. PICK s \in Seq(Cutoffs \intersect Inner(c, h)) : s = InOrder(Inner(c, h))
  BY InOrderRange
<1>2. PICK m \in Nat : DOMAIN s = 1..m
  BY <1>1
<1>3. \A i \in 1..m : s[i] \in Cutoffs /\ s[i] \in Inner(c, h)
  BY <1>1, <1>2
<1>4. ASSUME NEW k \in Cutoffs
      PROVE  /\ part(k) \in Seq(Artifacts)
             /\ \A n \in ToSet(part(k)) : n \in {<<"tensor", k>>, <<"metric", k>>, <<"validation", h, k>>}
  <2>1. <<"tensor", k>> \in Artifacts /\ <<"metric", k>> \in Artifacts /\ <<"validation", h, k>> \in Artifacts
    BY ArtifactParts DEF Single
  <2> QED
    BY <2>1, ThreeRange
<1>5. PICK parts : parts = [i \in DOMAIN s |-> part(s[i])]
  OBVIOUS
<1> HIDE DEF part
<1>6. parts \in Seq(Seq(Artifacts)) /\ DOMAIN parts = 1..m
  BY <1>2, <1>3, <1>4, <1>5
<1>7. /\ FlattenSeq(parts) \in Seq(Artifacts)
      /\ \A n \in ToSet(FlattenSeq(parts)) : \E i \in DOMAIN parts : n \in ToSet(parts[i])
  BY <1>6, FlattenRange
<1>8. PICK last : last = << <<"tensor", h>>, <<"view", h>> >>
  OBVIOUS
<1>9. last \in Seq(Artifacts) /\ \A n \in ToSet(last) : n \in {<<"tensor", h>>, <<"view", h>>}
  <2>1. <<"tensor", h>> \in Artifacts /\ <<"view", h>> \in Artifacts
    BY ArtifactParts DEF Single
  <2> QED
    BY <1>8, <2>1, TwoRange
<1>10. ModelNeeds(c, h) = FlattenSeq(parts) \o last
  BY <1>1, <1>5, <1>8 DEF ModelNeeds, part
<1>11. PICK t \in Seq(Artifacts) : t = FlattenSeq(parts)
  BY <1>7
<1>12. t \o last \in Seq(Artifacts) /\ \A n \in ToSet(t \o last) : n \in ToSet(t) \/ n \in ToSet(last)
  BY <1>9, PairRange
<1>13. ASSUME NEW n \in ToSet(t) PROVE Asks(c, a, n)
  <2>1. PICK i \in 1..m : n \in ToSet(parts[i])
    BY <1>6, <1>7, <1>11
  <2>2. parts[i] = part(s[i])
    BY <1>2, <1>5
  <2>3. n \in {<<"tensor", s[i]>>, <<"metric", s[i]>>, <<"validation", h, s[i]>>}
    BY <1>3, <1>4, <2>1, <2>2
  <2> QED
    BY <1>3, <2>3 DEF Asks
<1>14. ASSUME NEW n \in ToSet(last) PROVE Asks(c, a, n)
  BY <1>9 DEF Asks
<1> QED
  BY <1>10, <1>11, <1>12, <1>13, <1>14

\* gates()
LEMMA GatesAsk ==
    ASSUME NEW c \in Calendars, NEW h \in Cutoffs, NEW a, a[1] = "gates", a[2] = h
    PROVE  /\ GateNeeds(c, h) \in Seq(Artifacts)
           /\ \A n \in ToSet(GateNeeds(c, h)) : Asks(c, a, n)
<1> DEFINE own(k) == IF RowsKnown(c, k) = {} THEN <<>> ELSE << <<"block", k>>, <<"gates", k>> >>
           part(k) == RowNeeds(c, k) \o own(k)
           Blocks == LastTwo(BlocksBefore(c, h))
<1>1. PICK s \in Seq(Cutoffs \intersect Blocks) : s = InOrder(Blocks)
  BY InOrderRange
<1>2. PICK m \in Nat : DOMAIN s = 1..m
  BY <1>1
<1>3. \A i \in 1..m : s[i] \in Cutoffs /\ s[i] \in BlocksBefore(c, h)
  <2>1. Blocks \subseteq BlocksBefore(c, h)
    BY DEF LastTwo
  <2> HIDE DEF Blocks
  <2> QED
    BY <1>1, <1>2, <2>1
<1>4. ASSUME NEW k \in Cutoffs, k \in BlocksBefore(c, h)
      PROVE  part(k) \in Seq(Artifacts) /\ \A n \in ToSet(part(k)) : Asks(c, a, n)
  <2>1. <<"block", k>> \in Artifacts /\ <<"gates", k>> \in Artifacts
    BY ArtifactParts DEF Single
  <2>2. /\ own(k) \in Seq(Artifacts)
        /\ \A n \in ToSet(own(k)) : RowsKnown(c, k) # {} /\ n \in {<<"block", k>>, <<"gates", k>>}
    <3>1. CASE RowsKnown(c, k) = {}
      <4>1. own(k) = <<>> /\ ToSet(<<>>) = {} /\ <<>> \in Seq(Artifacts)
        BY <3>1 DEF ToSet
      <4> QED
        BY <4>1
    <3>2. CASE RowsKnown(c, k) # {}
      <4>1. own(k) = << <<"block", k>>, <<"gates", k>> >>
        BY <3>2
      <4>2. PICK l : l = << <<"block", k>>, <<"gates", k>> >>
        OBVIOUS
      <4>3. l \in Seq(Artifacts) /\ \A n \in ToSet(l) : n \in {<<"block", k>>, <<"gates", k>>}
        BY <2>1, <4>2, TwoRange
      <4>4. own(k) = l
        BY <4>1, <4>2
      <4> HIDE DEF own
      <4> QED
        BY <3>2, <4>3, <4>4
    <3> QED
      BY <3>1, <3>2
  <2>3. PICK r \in Seq(Artifacts) : r = RowNeeds(c, k) /\ \A n \in ToSet(r) : RowAsks(c, k, n)
    BY RowsAsked
  <2>4. PICK o \in Seq(Artifacts) :
            o = own(k) /\ \A n \in ToSet(o) : RowsKnown(c, k) # {} /\ n \in {<<"block", k>>, <<"gates", k>>}
    BY <2>2
  <2>5. r \o o \in Seq(Artifacts) /\ \A n \in ToSet(r \o o) : n \in ToSet(r) \/ n \in ToSet(o)
    BY PairRange
  <2>6. part(k) = r \o o
    BY <2>3, <2>4
  <2> HIDE DEF part, own
  <2>7. ASSUME NEW n \in ToSet(part(k)) PROVE Asks(c, a, n)
    <3>1. RowAsks(c, k, n) \/ (RowsKnown(c, k) # {} /\ n \in {<<"block", k>>, <<"gates", k>>})
      BY <2>3, <2>4, <2>5, <2>6
    <3> QED
      BY <1>4, <3>1 DEF Asks
  <2> QED
    BY <2>5, <2>6, <2>7
<1>5. PICK parts : parts = [i \in DOMAIN s |-> part(s[i])]
  OBVIOUS
<1>6. FlattenSeq([i \in DOMAIN InOrder(Blocks) |->
                    LET k == InOrder(Blocks)[i]
                    IN RowNeeds(c, k) \o IF RowsKnown(c, k) = {} THEN <<>> ELSE << <<"block", k>>, <<"gates", k>> >>])
      = FlattenSeq(parts)
  BY <1>1, <1>5
<1>7. GateNeeds(c, h) = << <<"risk", h>> >> \o RowNeeds(c, h) \o FlattenSeq(parts)
  BY <1>6 DEF GateNeeds
<1> HIDE DEF part, own, Blocks
<1>8. parts \in Seq(Seq(Artifacts)) /\ DOMAIN parts = 1..m
  BY <1>2, <1>3, <1>4, <1>5
<1>9. /\ FlattenSeq(parts) \in Seq(Artifacts)
      /\ \A n \in ToSet(FlattenSeq(parts)) : \E i \in DOMAIN parts : n \in ToSet(parts[i])
  BY <1>8, FlattenRange
<1>10. PICK t \in Seq(Artifacts) : t = FlattenSeq(parts)
  BY <1>9
<1>11. PICK r \in Seq(Artifacts) : r = RowNeeds(c, h) /\ \A n \in ToSet(r) : RowAsks(c, h, n)
  BY RowsAsked
<1>12. PICK o \in Seq(Artifacts) : o = << <<"risk", h>> >> /\ \A n \in ToSet(o) : n = <<"risk", h>>
  <2>1. <<"risk", h>> \in Artifacts
    BY ArtifactParts DEF Single
  <2> QED
    BY <2>1, OneRange
<1>13. o \o r \in Seq(Artifacts) /\ \A n \in ToSet(o \o r) : n \in ToSet(o) \/ n \in ToSet(r)
  BY PairRange
<1>14. PICK front \in Seq(Artifacts) : front = o \o r
  BY <1>13
<1>15. front \o t \in Seq(Artifacts) /\ \A n \in ToSet(front \o t) : n \in ToSet(front) \/ n \in ToSet(t)
  BY PairRange
<1>16. GateNeeds(c, h) = front \o t
  BY <1>7, <1>10, <1>11, <1>12, <1>14
<1>17. ASSUME NEW n \in ToSet(t) PROVE Asks(c, a, n)
  <2>1. PICK i \in 1..m : n \in ToSet(parts[i])
    BY <1>8, <1>9, <1>10
  <2>2. parts[i] = part(s[i])
    BY <1>2, <1>5
  <2> QED
    BY <1>3, <1>4, <2>1, <2>2
<1>18. ASSUME NEW n \in ToSet(front) PROVE Asks(c, a, n)
  <2>1. n = <<"risk", h>> \/ RowAsks(c, h, n)
    BY <1>11, <1>12, <1>13, <1>14
  <2> QED
    BY <2>1 DEF Asks
<1> QED
  BY <1>15, <1>16, <1>17, <1>18

\* What an artifact needs is what it may ask for.
LEMMA NeedsAsked ==
    ASSUME NEW c \in Calendars, NEW a \in Artifacts
    PROVE  NeedsOf(c, a) \in Seq(Artifacts) /\ \A n \in ToSet(NeedsOf(c, a)) : Asks(c, a, n)
<1> DEFINE Goal == NeedsOf(c, a) \in Seq(Artifacts) /\ \A n \in ToSet(NeedsOf(c, a)) : Asks(c, a, n)
<1>1. PICK h \in Cutoffs : h = a[2]
  BY ArtifactParts
<1>2. \A kind \in Single : <<kind, h>> \in Artifacts
  BY ArtifactParts
<1>4. CASE a[1] = "view"
  <2>1. NeedsOf(c, a) = <<>> /\ ToSet(<<>>) = {} /\ <<>> \in Seq(Artifacts)
    BY <1>4 DEF NeedsOf, ToSet
  <2> QED
    BY <2>1
<1>5. CASE a[1] = "tensor"
  <2>1. NeedsOf(c, a) = TensorNeeds(c, h)
    BY <1>1, <1>5 DEF NeedsOf
  <2> QED
    BY <1>1, <1>5, <2>1, TensorAsks
<1>6. CASE a[1] = "metric"
  <2>1. NeedsOf(c, a) = << <<"tensor", h>> >> /\ <<"tensor", h>> \in Artifacts
    BY <1>1, <1>2, <1>6 DEF NeedsOf, Single
  <2> QED
    BY <1>1, <1>6, <2>1, OneRange DEF Asks
<1>7. CASE a[1] = "validation"
  <2>1. a[3] \in Cutoffs
    BY <1>7, ArtifactParts DEF Single
  <2>2. <<"metric", a[3]>> \in Artifacts /\ <<"view", a[3]>> \in Artifacts /\ <<"view", h>> \in Artifacts
    BY <2>1, ArtifactParts DEF Single
  <2>3. NeedsOf(c, a) = << <<"metric", a[3]>>, <<"view", a[3]>>, <<"view", h>> >>
    BY <1>1, <1>7 DEF NeedsOf, ValidationNeeds
  <2> QED
    BY <1>1, <1>7, <2>2, <2>3, ThreeRange DEF Asks
<1>8. CASE a[1] = "models"
  <2>1. NeedsOf(c, a) = ModelNeeds(c, h)
    BY <1>1, <1>8 DEF NeedsOf
  <2> QED
    BY <1>1, <1>8, <2>1, ModelsAsk
<1>9. CASE a[1] = "block"
  <2>1. NeedsOf(c, a) = << <<"models", h>>, <<"risk", h>>, <<"view", h>> >>
    BY <1>1, <1>9 DEF NeedsOf, BlockNeeds
  <2>2. <<"models", h>> \in Artifacts /\ <<"risk", h>> \in Artifacts /\ <<"view", h>> \in Artifacts
    BY <1>2 DEF Single
  <2> QED
    BY <1>1, <1>9, <2>1, <2>2, ThreeRange DEF Asks
<1>10. CASE a[1] = "risk"
  <2>1. NeedsOf(c, a) = RowNeeds(c, h)
    BY <1>1, <1>10 DEF NeedsOf
  <2> QED
    BY <1>1, <1>10, <2>1, RowsAsked DEF Asks
<1>11. CASE a[1] = "gates"
  <2>1. NeedsOf(c, a) = GateNeeds(c, h)
    BY <1>1, <1>11 DEF NeedsOf
  <2> QED
    BY <1>1, <1>11, <2>1, GatesAsk
<1>12. CASE a[1] = "forecast"
  <2>1. NeedsOf(c, a) = << <<"models", h>>, <<"risk", h>>, <<"gates", h>>, <<"view", h>> >>
    BY <1>1, <1>12 DEF NeedsOf, ForecastNeeds
  <2>2. /\ <<"models", h>> \in Artifacts /\ <<"risk", h>> \in Artifacts
        /\ <<"gates", h>> \in Artifacts /\ <<"view", h>> \in Artifacts
    BY <1>2 DEF Single
  <2> QED
    BY <1>1, <1>12, <2>1, <2>2, FourRange DEF Asks
<1>13. a[1] \in Single \/ a[1] = "validation"
  BY ArtifactParts
<1> QED
  BY <1>4, <1>5, <1>6, <1>7, <1>8, <1>9, <1>10, <1>11, <1>12, <1>13 DEF Single

-----------------------------------------------------------------------------
(* Where a study of one year comes to. *)

\* The artifacts that are computed for the cutoff of a year or of a block.
Based == {"models", "block", "risk", "gates", "forecast"}

\* An artifact that a study of the year that starts at b may come to.
Scope(c, a, b) ==
    /\ a \in Artifacts /\ a[2] <= b
    /\ a[1] = "metric" => \E h \in BaseOf(c) : a[2] \in Inner(c, h)
    /\ a[1] = "validation" => a[2] \in BaseOf(c) /\ a[3] \in Inner(c, a[2])
    /\ a[1] \in Based => a[2] = b \/ a[2] \in BlocksBefore(c, b)
    /\ a[1] = "forecast" => a[2] = b
    /\ a[1] = "block" => a[2] \in BlocksBefore(c, b)
    /\ a[1] = "gates" => a[2] = b \/ RowsKnown(c, a[2]) # {}

\* A year and the blocks before it are in the base of the schedule.
LEMMA InBase ==
    ASSUME NEW c \in Calendars, NEW b \in Annual, NEW h, h = b \/ h \in BlocksBefore(c, b)
    PROVE  h \in BaseOf(c)
BY DEF BaseOf

\* The blocks before a block before a year are before the year.
LEMMA BlocksDown ==
    ASSUME NEW c \in Calendars, NEW b \in Annual, NEW h, h = b \/ h \in BlocksBefore(c, b),
           NEW k \in BlocksBefore(c, h)
    PROVE  k \in BlocksBefore(c, b) /\ k \in Cutoffs /\ k < h /\ k <= b
<1>1. b \in Cutoffs
  BY HalfAssumption
<1>2. h \in Cutoffs /\ h <= b
  BY <1>1, BlockFacts, HalfAssumption DEF Cutoffs
<1>3. k \in Cutoffs /\ k < h
  BY <1>2, BlockFacts
<1>4. k \in BlocksBefore(c, b)
  BY <1>1, <1>2, BlockFacts
<1> QED
  BY <1>1, <1>2, <1>3, <1>4, HalfAssumption DEF Cutoffs

\* What is in the scope of a year.
LEMMA ScopeOf ==
    ASSUME NEW c \in Calendars, NEW b \in Annual, NEW h \in Cutoffs, h <= b
    PROVE  /\ Scope(c, <<"view", h>>, b)
           /\ Scope(c, <<"tensor", h>>, b)
           /\ \A k \in BaseOf(c) : h \in Inner(c, k) => Scope(c, <<"metric", h>>, b)
           /\ \A k \in Cutoffs : h \in BaseOf(c) /\ k \in Inner(c, h) => Scope(c, <<"validation", h, k>>, b)
           /\ h = b \/ h \in BlocksBefore(c, b) => Scope(c, <<"models", h>>, b) /\ Scope(c, <<"risk", h>>, b)
           /\ h \in BlocksBefore(c, b) => Scope(c, <<"block", h>>, b)
           /\ h = b \/ (h \in BlocksBefore(c, b) /\ RowsKnown(c, h) # {}) => Scope(c, <<"gates", h>>, b)
           /\ h = b => Scope(c, <<"forecast", h>>, b)
<1>1. \A kind \in Single : <<kind, h>> \in Artifacts
  BY ArtifactParts
<1>2. \A k \in Cutoffs : <<"validation", h, k>> \in Artifacts
  BY ArtifactParts
<1>3. Scope(c, <<"view", h>>, b)
  BY <1>1 DEF Scope, Single, Based
<1>4. Scope(c, <<"tensor", h>>, b)
  BY <1>1 DEF Scope, Single, Based
<1>5. ASSUME NEW k \in BaseOf(c), h \in Inner(c, k) PROVE Scope(c, <<"metric", h>>, b)
  BY <1>1, <1>5 DEF Scope, Single, Based
<1>6. ASSUME NEW k \in Cutoffs, h \in BaseOf(c), k \in Inner(c, h) PROVE Scope(c, <<"validation", h, k>>, b)
  BY <1>2, <1>6 DEF Scope, Based
<1>7. ASSUME h = b \/ h \in BlocksBefore(c, b) PROVE Scope(c, <<"models", h>>, b) /\ Scope(c, <<"risk", h>>, b)
  BY <1>1, <1>7 DEF Scope, Single
<1>8. ASSUME h \in BlocksBefore(c, b) PROVE Scope(c, <<"block", h>>, b)
  BY <1>1, <1>8 DEF Scope, Single
<1>9. ASSUME h = b \/ (h \in BlocksBefore(c, b) /\ RowsKnown(c, h) # {}) PROVE Scope(c, <<"gates", h>>, b)
  BY <1>1, <1>9 DEF Scope, Single
<1>10. ASSUME h = b PROVE Scope(c, <<"forecast", h>>, b)
  BY <1>1, <1>10 DEF Scope, Single
<1> QED
  BY <1>3, <1>4, <1>5, <1>6, <1>7, <1>8, <1>9, <1>10

\* What the rows before a cutoff rest on is in the scope of the year.
LEMMA RowsDown ==
    ASSUME NEW c \in Calendars, NEW b \in Annual, NEW h, h = b \/ h \in BlocksBefore(c, b),
           NEW n, RowAsks(c, h, n)
    PROVE  Scope(c, n, b) /\ n[2] <= h
<1>1. b \in Cutoffs /\ b <= b
  BY HalfAssumption DEF Cutoffs
<1>2. h \in Cutoffs /\ h <= b
  BY <1>1, BlockFacts, HalfAssumption DEF Cutoffs
<1>3. h <= h
  BY <1>2, HalfAssumption DEF Cutoffs
<1>4. CASE n = <<"view", h>>
  <2>1. Scope(c, <<"view", h>>, b) /\ n[2] = h
    BY <1>2, <1>4, ScopeOf
  <2> QED
    BY <1>3, <1>4, <2>1
<1>5. CASE \E k \in BlocksBefore(c, h) : n = <<"block", k>>
  <2>1. PICK k \in BlocksBefore(c, h) : n = <<"block", k>> /\ n[2] = k
    BY <1>5
  <2>2. k \in BlocksBefore(c, b) /\ k \in Cutoffs /\ k < h /\ k <= b
    BY BlocksDown
  <2>3. Scope(c, <<"block", k>>, b)
    BY <2>2, ScopeOf
  <2>4. k <= h
    BY <1>2, <2>2, HalfAssumption DEF Cutoffs
  <2> QED
    BY <2>1, <2>3, <2>4
<1> QED
  BY <1>4, <1>5 DEF RowAsks

\* Whatever an artifact in the scope of a year asks for is in it, and is of no
\* later cutoff.
LEMMA ScopeDown ==
    ASSUME NEW c \in Calendars, NEW b \in Annual, NEW a, Scope(c, a, b), NEW n, Asks(c, a, n)
    PROVE  Scope(c, n, b) /\ n[2] <= a[2]
<1>1. a \in Artifacts /\ b \in Cutoffs
  BY HalfAssumption DEF Scope
<1>2. PICK h \in Cutoffs : h = a[2]
  BY <1>1, ArtifactParts
<1>3. h <= b /\ h <= h
  BY <1>2, HalfAssumption DEF Scope, Cutoffs
<1> DEFINE Goal == Scope(c, n, b) /\ n[2] <= h
<1>4. CASE a[1] = "tensor" /\ \E k \in 1..a[2] : n = <<"view", k>>
  <2>1. PICK k \in 1..h : n = <<"view", k>> /\ n[2] = k
    BY <1>2, <1>4
  <2>2. k \in Cutoffs /\ k <= b /\ k <= h
    BY <1>1, <1>3, HalfAssumption DEF Cutoffs
  <2>3. Scope(c, <<"view", k>>, b)
    BY <2>2, ScopeOf
  <2> QED
    BY <1>2, <2>1, <2>2, <2>3
<1>5. CASE a[1] = "metric" /\ n = <<"tensor", a[2]>>
  <2>1. n = <<"tensor", h>> /\ n[2] = h
    BY <1>2, <1>5
  <2>2. Scope(c, <<"tensor", h>>, b)
    BY <1>3, ScopeOf
  <2> QED
    BY <1>2, <1>3, <2>1, <2>2
<1>6. CASE a[1] = "validation" /\ n \in {<<"metric", a[3]>>, <<"view", a[3]>>, <<"view", a[2]>>}
  <2>1. h \in BaseOf(c) /\ a[3] \in Inner(c, h)
    BY <1>2, <1>6 DEF Scope
  <2>2. PICK k \in Inner(c, h) : k = a[3]
    BY <2>1
  <2>3. k \in Cutoffs /\ k < h
    BY InnerFacts
  <2>4. k <= b /\ k <= h
    BY <1>1, <1>3, <2>3, HalfAssumption DEF Cutoffs
  <2>5. Scope(c, <<"view", k>>, b) /\ Scope(c, <<"view", h>>, b) /\ Scope(c, <<"metric", k>>, b)
    <3>1. Scope(c, <<"view", h>>, b)
      BY <1>3, ScopeOf
    <3>2. Scope(c, <<"view", k>>, b)
      BY <2>3, <2>4, ScopeOf
    <3>3. Scope(c, <<"metric", k>>, b)
      BY <2>1, <2>3, <2>4, ScopeOf
    <3> QED
      BY <3>1, <3>2, <3>3
  <2>6. n = <<"metric", k>> \/ n = <<"view", k>> \/ n = <<"view", h>>
    BY <1>2, <1>6, <2>2
  <2>7. n[2] = k \/ n[2] = h
    BY <2>6
  <2>8. n[2] <= h
    BY <1>3, <2>4, <2>7
  <2> QED
    BY <1>2, <2>5, <2>6, <2>8
<1>7. CASE /\ a[1] = "models"
           /\ \/ \E k \in Inner(c, a[2]) : n \in {<<"tensor", k>>, <<"metric", k>>, <<"validation", a[2], k>>}
              \/ n \in {<<"tensor", a[2]>>, <<"view", a[2]>>}
  <2>1. h = b \/ h \in BlocksBefore(c, b)
    BY <1>2, <1>7 DEF Scope, Based
  <2>2. h \in BaseOf(c)
    BY <2>1, InBase
  <2>3. CASE \E k \in Inner(c, a[2]) : n \in {<<"tensor", k>>, <<"metric", k>>, <<"validation", a[2], k>>}
    <3>1. PICK k \in Inner(c, h) : n \in {<<"tensor", k>>, <<"metric", k>>, <<"validation", h, k>>}
      BY <1>2, <2>3
    <3>2. k \in Cutoffs /\ k < h
      BY InnerFacts
    <3>3. k <= b /\ k <= h
      BY <1>1, <1>3, <3>2, HalfAssumption DEF Cutoffs
    <3>4. Scope(c, <<"tensor", k>>, b)
      BY <3>2, <3>3, ScopeOf
    <3>5. Scope(c, <<"metric", k>>, b)
      BY <2>2, <3>2, <3>3, ScopeOf
    <3>6. Scope(c, <<"validation", h, k>>, b)
      BY <1>3, <2>2, <3>2, ScopeOf
    <3>7. n[2] = k \/ n[2] = h
      BY <3>1
    <3>8. n[2] <= h
      BY <1>3, <3>3, <3>7
    <3> QED
      BY <1>2, <3>1, <3>4, <3>5, <3>6, <3>8
  <2>4. CASE n \in {<<"tensor", a[2]>>, <<"view", a[2]>>}
    <3>1. n \in {<<"tensor", h>>, <<"view", h>>} /\ n[2] = h
      BY <1>2, <2>4
    <3>2. Scope(c, <<"tensor", h>>, b) /\ Scope(c, <<"view", h>>, b)
      BY <1>3, ScopeOf
    <3> QED
      BY <1>2, <1>3, <3>1, <3>2
  <2> QED
    BY <1>7, <2>3, <2>4
<1>8. CASE a[1] = "block" /\ n \in {<<"models", a[2]>>, <<"risk", a[2]>>, <<"view", a[2]>>}
  <2>1. h = b \/ h \in BlocksBefore(c, b)
    BY <1>2, <1>8 DEF Scope, Based
  <2>2. n \in {<<"models", h>>, <<"risk", h>>, <<"view", h>>} /\ n[2] = h
    BY <1>2, <1>8
  <2>3. Scope(c, <<"models", h>>, b) /\ Scope(c, <<"risk", h>>, b) /\ Scope(c, <<"view", h>>, b)
    BY <1>3, <2>1, ScopeOf
  <2> QED
    BY <1>2, <1>3, <2>2, <2>3
<1>9. CASE a[1] = "risk" /\ RowAsks(c, a[2], n)
  <2>1. h = b \/ h \in BlocksBefore(c, b)
    BY <1>2, <1>9 DEF Scope, Based
  <2>2. RowAsks(c, h, n)
    BY <1>2, <1>9
  <2> QED
    BY <1>2, <2>1, <2>2, RowsDown
<1>10. CASE /\ a[1] = "gates"
            /\ \/ n = <<"risk", a[2]>>
               \/ RowAsks(c, a[2], n)
               \/ \E k \in BlocksBefore(c, a[2]) :
                     \/ RowAsks(c, k, n)
                     \/ RowsKnown(c, k) # {} /\ n \in {<<"block", k>>, <<"gates", k>>}
  <2>1. h = b \/ h \in BlocksBefore(c, b)
    BY <1>2, <1>10 DEF Scope, Based
  <2>2. CASE n = <<"risk", h>>
    <3>1. Scope(c, <<"risk", h>>, b) /\ n[2] = h
      BY <1>3, <2>1, <2>2, ScopeOf
    <3> QED
      BY <1>2, <1>3, <2>2, <3>1
  <2>3. CASE RowAsks(c, h, n)
    BY <1>2, <2>1, <2>3, RowsDown
  <2>4. CASE \E k \in BlocksBefore(c, h) :
                \/ RowAsks(c, k, n)
                \/ RowsKnown(c, k) # {} /\ n \in {<<"block", k>>, <<"gates", k>>}
    <3>1. PICK k \in BlocksBefore(c, h) :
              \/ RowAsks(c, k, n)
              \/ RowsKnown(c, k) # {} /\ n \in {<<"block", k>>, <<"gates", k>>}
      BY <2>4
    <3>2. k \in BlocksBefore(c, b) /\ k \in Cutoffs /\ k < h /\ k <= b
      BY <2>1, BlocksDown
    <3>3. CASE RowAsks(c, k, n)
      <4>1. Scope(c, n, b) /\ n[2] <= k
        BY <3>2, <3>3, RowsDown
      <4>2. n[2] \in Cutoffs
        BY <4>1, ArtifactParts DEF Scope
      <4>3. n[2] <= h
        BY <3>2, <4>1, <4>2, HalfAssumption DEF Cutoffs
      <4> QED
        BY <1>2, <4>1, <4>3
    <3>4. CASE RowsKnown(c, k) # {} /\ n \in {<<"block", k>>, <<"gates", k>>}
      <4>1. Scope(c, <<"block", k>>, b)
        BY <3>2, ScopeOf
      <4>2. Scope(c, <<"gates", k>>, b)
        BY <3>2, <3>4, ScopeOf
      <4>3. n[2] = k /\ k <= h
        BY <3>2, <3>4, HalfAssumption DEF Cutoffs
      <4> QED
        BY <1>2, <3>4, <4>1, <4>2, <4>3
    <3> QED
      BY <3>1, <3>3, <3>4
  <2> QED
    BY <1>2, <1>10, <2>2, <2>3, <2>4
<1>11. CASE a[1] = "forecast" /\ n \in {<<"models", a[2]>>, <<"risk", a[2]>>, <<"gates", a[2]>>, <<"view", a[2]>>}
  <2>1. h = b
    BY <1>2, <1>11 DEF Scope
  <2>2. n \in {<<"models", h>>, <<"risk", h>>, <<"gates", h>>, <<"view", h>>} /\ n[2] = h
    BY <1>2, <1>11
  <2>3. /\ Scope(c, <<"models", h>>, b) /\ Scope(c, <<"risk", h>>, b)
        /\ Scope(c, <<"gates", h>>, b) /\ Scope(c, <<"view", h>>, b)
    BY <1>3, <2>1, ScopeOf
  <2> QED
    BY <1>2, <1>3, <2>2, <2>3
<1> QED
  BY <1>4, <1>5, <1>6, <1>7, <1>8, <1>9, <1>10, <1>11 DEF Asks

\* In the scope of a year, only the artifacts of its own cutoff may be refused.
LEMMA ScopeRefused ==
    ASSUME NEW c \in Calendars, NEW b \in Annual, NEW a, Scope(c, a, b), RefusesOf(c, a)
    PROVE  a[2] = b
<1>1. a \in Artifacts /\ b \in Cutoffs
  BY HalfAssumption DEF Scope
<1>2. a[2] \in Cutoffs
  BY <1>1, ArtifactParts
<1>3. CASE a[1] = "view" /\ KnownBefore(c, a[2]) = {}
  BY <1>2, <1>3, AlwaysKnown
<1>4. CASE a[1] = "models" /\ TooShort(c, a[2])
  <2>1. a[2] = b \/ a[2] \in BlocksBefore(c, b)
    BY <1>4 DEF Scope, Based
  <2>2. a[2] \in BlocksBefore(c, b) => ~TooShort(c, a[2])
    BY <1>1, BlockFacts
  <2> QED
    BY <1>4, <2>1, <2>2
<1>5. CASE a[1] = "gates" /\ RowsKnown(c, a[2]) = {}
  BY <1>5 DEF Scope
<1> QED
  BY <1>3, <1>4, <1>5 DEF RefusesOf

-----------------------------------------------------------------------------
(* The demands of a process. *)

\* A process asks for artifacts in the scope of the year it was started for.
Demands(c, s) ==
    /\ s \in Seq(Artifacts)
    /\ s # <<>> => /\ Last(s)[2] \in Annual
                   /\ \A i \in 1..Len(s) : Scope(c, s[i], Last(s)[2])

\* An idle process demands nothing.
LEMMA DemandNone ==
    ASSUME NEW c
    PROVE  Demands(c, <<>>)
BY DEF Demands

\* A process that starts demands one artifact of a year.
LEMMA DemandOne ==
    ASSUME NEW c, NEW a \in Artifacts, a[2] \in Annual, Scope(c, a, a[2])
    PROVE  Demands(c, <<a>>)
<1>1. PICK s : s = <<a>>
  OBVIOUS
<1>2. s \in Seq(Artifacts) /\ Len(s) = 1 /\ s[1] = a
  BY <1>1
<1>3. Last(s) = a
  BY <1>2 DEF Last
<1>4. \A i \in 1..Len(s) : s[i] = a
  BY <1>2
<1>5. Demands(c, s)
  BY <1>2, <1>3, <1>4 DEF Demands
<1> QED
  BY <1>1, <1>5

\* What the innermost demand asks for is demanded.
LEMMA DemandMore ==
    ASSUME NEW c, NEW s, Demands(c, s), s # <<>>, NEW n, Scope(c, n, Last(s)[2])
    PROVE  Demands(c, <<n>> \o s)
<1>1. n \in Artifacts /\ s \in Seq(Artifacts)
  BY DEF Demands, Scope
<1>2. PICK m \in Nat : m = Len(s) /\ m > 0
  BY <1>1
<1>3. PICK t : t = <<n>> \o s
  OBVIOUS
<1>4. /\ t \in Seq(Artifacts) /\ Len(t) = m + 1 /\ t[1] = n
      /\ \A i \in 2..(m + 1) : t[i] = s[i - 1]
  BY <1>1, <1>2, <1>3
<1>5. Last(t) = Last(s)
  <2>1. t[m + 1] = s[m]
    BY <1>2, <1>4
  <2> QED
    BY <1>2, <1>4, <2>1 DEF Last
<1>6. ASSUME NEW i \in 1..(m + 1) PROVE Scope(c, t[i], Last(s)[2])
  <2>1. CASE i = 1
    BY <1>4, <2>1
  <2>2. CASE i # 1
    <3>1. i \in 2..(m + 1) /\ i - 1 \in 1..m
      BY <1>2, <2>2
    <3>2. t[i] = s[i - 1]
      BY <1>4, <3>1
    <3>3. Scope(c, s[i - 1], Last(s)[2])
      BY <1>2, <3>1 DEF Demands
    <3> QED
      BY <3>2, <3>3
  <2> QED
    BY <2>1, <2>2
<1>7. Last(s)[2] \in Annual
  BY DEF Demands
<1>8. Demands(c, t)
  BY <1>4, <1>5, <1>6, <1>7 DEF Demands
<1> QED
  BY <1>3, <1>8

\* So is what is left when it returns.
LEMMA DemandLess ==
    ASSUME NEW c, NEW s, Demands(c, s), s # <<>>
    PROVE  Demands(c, Tail(s))
<1>1. s \in Seq(Artifacts)
  BY DEF Demands
<1>2. PICK m \in Nat : m + 1 = Len(s)
  <2>1. PICK k \in Nat : k = Len(s) /\ k > 0
    BY <1>1
  <2>2. k - 1 \in Nat /\ (k - 1) + 1 = Len(s)
    BY <2>1
  <2> QED
    BY <2>2
<1>3. PICK t : t = Tail(s)
  OBVIOUS
<1>4. t \in Seq(Artifacts) /\ Len(t) = m /\ \A i \in 1..m : t[i] = s[i + 1]
  BY <1>1, <1>2, <1>3
<1>5. CASE t = <<>>
  BY <1>3, <1>5, DemandNone
<1>6. CASE t # <<>>
  <2>1. m > 0
    BY <1>4, <1>6
  <2>2. Last(t) = Last(s)
    <3>1. t[m] = s[m + 1]
      BY <1>4, <2>1
    <3> QED
      BY <1>2, <1>4, <3>1 DEF Last
  <2>3. ASSUME NEW i \in 1..m PROVE Scope(c, t[i], Last(s)[2])
    <3>1. t[i] = s[i + 1] /\ i + 1 \in 1..(m + 1)
      BY <1>4
    <3>2. Scope(c, s[i + 1], Last(s)[2])
      BY <1>2, <3>1 DEF Demands
    <3> QED
      BY <3>1, <3>2
  <2>4. Last(s)[2] \in Annual
    BY DEF Demands
  <2>5. Demands(c, t)
    BY <1>4, <2>2, <2>3, <2>4 DEF Demands
  <2> QED
    BY <1>3, <2>5
<1> QED
  BY <1>5, <1>6

\* The innermost demand.
LEMMA DemandTop ==
    ASSUME NEW c, NEW s, Demands(c, s), s # <<>>
    PROVE  Head(s) \in Artifacts /\ Last(s)[2] \in Annual /\ Scope(c, Head(s), Last(s)[2])
<1>1. s \in Seq(Artifacts)
  BY DEF Demands
<1>2. PICK m \in Nat : m = Len(s) /\ m > 0
  BY <1>1
<1>3. 1 \in 1..m /\ Head(s) = s[1]
  BY <1>1, <1>2
<1>4. Last(s)[2] \in Annual /\ Scope(c, s[1], Last(s)[2])
  BY <1>2, <1>3 DEF Demands
<1> QED
  BY <1>3, <1>4 DEF Scope

-----------------------------------------------------------------------------
(* The study. *)

\* Some year's study comes to it.
Wanted(c, a) == \E b \in Annual : Scope(c, a, b)

\* Only days of the calendar, with outcomes that were known before the cutoff.
Timely(c, a, days) ==
    \A d \in days : d \in c.days /\ c.ready[d] < c.start[a[2]]

\* Processes demand, and have made, what the study of a year comes to; whatever
\* was saved rests on timely outcomes.
StudyInv ==
    /\ calendar \in Calendars
    /\ DOMAIN saved = Artifacts
    /\ DOMAIN stacks = Workers
    /\ \A w \in Workers : Demands(calendar, stacks[w])
    /\ \A a \in Artifacts : saved[a] # None => Wanted(calendar, a)
    /\ \A a \in Artifacts : saved[a] \notin {None, Torn} => Timely(calendar, a, saved[a])

\* What a function reads itself is timely.
LEMMA OwnTimely ==
    ASSUME NEW c \in Calendars, NEW a \in Artifacts
    PROVE  Timely(c, a, OwnOf(c, a))
<1>1. a[1] = "view" => Timely(c, a, KnownBefore(c, a[2]))
  BY DEF Timely, KnownBefore
<1>2. a[1] = "gates" => Timely(c, a, Outcomes(c, a[2]))
  BY DEF Timely, Outcomes, DaysOf
<1>3. Timely(c, a, {})
  BY DEF Timely
<1>4. CASE a[1] = "view"
  <2>1. OwnOf(c, a) = KnownBefore(c, a[2])
    BY <1>4 DEF OwnOf
  <2> QED
    BY <1>1, <1>4, <2>1
<1>5. CASE a[1] = "gates"
  <2>1. OwnOf(c, a) = Outcomes(c, a[2])
    BY <1>5 DEF OwnOf
  <2> QED
    BY <1>2, <1>5, <2>1
<1>6. CASE a[1] # "view" /\ a[1] # "gates"
  <2>1. OwnOf(c, a) = {}
    BY <1>6 DEF OwnOf
  <2> QED
    BY <1>3, <2>1
<1> QED
  BY <1>4, <1>5, <1>6

\* What is timely for an artifact is so for one of a later cutoff.
LEMMA TimelyLater ==
    ASSUME NEW c \in Calendars, NEW a \in Artifacts, NEW n \in Artifacts, n[2] <= a[2],
           NEW days, Timely(c, n, days)
    PROVE  Timely(c, a, days)
<1>1. a[2] \in Cutoffs /\ n[2] \in Cutoffs
  BY ArtifactParts
<1>2. c.start[n[2]] \in Int /\ c.start[a[2]] \in Int /\ c.start[n[2]] <= c.start[a[2]]
  BY <1>1, StartOrder
<1>3. \A d \in c.days : c.ready[d] \in Int
  BY CalendarAssumption
<1> QED
  BY <1>2, <1>3 DEF Timely

\* The study starts in the invariant.
LEMMA StudyStarts == StudyInit => StudyInv
<1> SUFFICES ASSUME StudyInit PROVE StudyInv
  OBVIOUS
<1>1. calendar \in Calendars /\ DOMAIN saved = Artifacts /\ DOMAIN stacks = Workers
  BY DEF StudyInit
<1>2. \A a \in Artifacts : saved[a] = None
  BY DEF StudyInit
<1>3. \A w \in Workers : Demands(calendar, stacks[w])
  BY DemandNone DEF StudyInit
<1> QED
  BY <1>1, <1>2, <1>3 DEF StudyInv

\* A process whose demands change demands what its year comes to.
LEMMA StackChange ==
    ASSUME StudyInv, NEW w \in Workers, NEW s, Demands(calendar, s),
           stacks' = [stacks EXCEPT ![w] = s], calendar' = calendar
    PROVE  /\ calendar' \in Calendars /\ DOMAIN stacks' = Workers
           /\ \A v \in Workers : Demands(calendar', stacks'[v])
<1>1. calendar \in Calendars /\ DOMAIN stacks = Workers
  BY DEF StudyInv
<1>2. DOMAIN stacks' = Workers
  BY <1>1
<1>3. ASSUME NEW v \in Workers PROVE Demands(calendar', stacks'[v])
  <2>1. stacks'[v] = IF v = w THEN s ELSE stacks[v]
    BY <1>1
  <2>2. Demands(calendar, stacks[v])
    BY DEF StudyInv
  <2>3. Demands(calendar, stacks'[v])
    BY <2>1, <2>2
  <2> QED
    BY <2>3
<1> QED
  BY <1>1, <1>2, <1>3

\* Nothing else changes when nothing is saved.
LEMMA StackStep ==
    ASSUME StudyInv, NEW w \in Workers, NEW s, Demands(calendar, s),
           stacks' = [stacks EXCEPT ![w] = s], UNCHANGED <<calendar, saved>>
    PROVE  StudyInv'
<1>1. calendar' = calendar /\ saved' = saved
  OBVIOUS
<1>2. /\ calendar' \in Calendars /\ DOMAIN stacks' = Workers
      /\ \A v \in Workers : Demands(calendar', stacks'[v])
  BY <1>1, StackChange
<1>3. DOMAIN saved' = Artifacts
  BY <1>1 DEF StudyInv
<1>4. \A a \in Artifacts : saved'[a] # None => Wanted(calendar', a)
  BY <1>1 DEF StudyInv
<1>5. \A a \in Artifacts : saved'[a] \notin {None, Torn} => Timely(calendar', a, saved'[a])
  BY <1>1 DEF StudyInv
<1> QED
  BY <1>2, <1>3, <1>4, <1>5 DEF StudyInv

\* The tables hold what they are tables of.
LEMMA TablesHold ==
    ASSUME NEW c \in Calendars, NEW a \in Artifacts
    PROVE  Needs[c][a] = NeedsOf(c, a) /\ Own[c][a] = OwnOf(c, a) /\ (a \in Refusing[c] <=> RefusesOf(c, a))
BY DEF Needs, Own, Refusing

\* What is lacking of an artifact is what it needs and is not saved whole.
LEMMA LackingRange ==
    ASSUME StudyInv, NEW a \in Artifacts
    PROVE  /\ Lacking(a) \in Seq(Artifacts)
           /\ ToSet(Lacking(a)) = ToSet(NeedsOf(calendar, a)) \intersect {n \in Artifacts : saved[n] \in {None, Torn}}
           /\ NeedsOf(calendar, a) \in Seq(Artifacts)
<1>1. calendar \in Calendars
  BY DEF StudyInv
<1>2. PICK S : S = {n \in Artifacts : saved[n] \in {None, Torn}}
  OBVIOUS
<1>3. PICK s \in Seq(Artifacts) : s = NeedsOf(calendar, a)
  BY <1>1, NeedsAsked
<1>4. Lacking(a) = Those(s, S)
  BY <1>1, <1>2, <1>3, TablesHold DEF Lacking
<1>5. Those(s, S) \in Seq(Artifacts \intersect S) /\ ToSet(Those(s, S)) = ToSet(s) \intersect S
  BY ThoseType
<1>6. Artifacts \intersect S = S /\ S \subseteq Artifacts
  BY <1>2
<1>7. PICK l \in Seq(S) : l = Lacking(a)
  BY <1>4, <1>5, <1>6
<1>8. l \in Seq(Artifacts)
  BY <1>6
<1>9. Lacking(a) \in Seq(Artifacts)
  BY <1>7, <1>8
<1>10. ToSet(Lacking(a)) = ToSet(NeedsOf(calendar, a)) \intersect S
  BY <1>3, <1>4, <1>5, Zenon
<1>11. NeedsOf(calendar, a) \in Seq(Artifacts)
  BY <1>3, Zenon
<1> QED
  BY <1>2, <1>9, <1>10, <1>11, Zenon

\* The command line keeps the invariant: a year's models and forecast are in its
\* scope.
LEMMA BeginKeeps ==
    ASSUME StudyInv, NEW w \in Workers, Begin(w)
    PROVE  StudyInv'
<1>1. PICK h \in Annual, kind \in {"models", "forecast"} :
          stacks' = [stacks EXCEPT ![w] = << <<kind, h>> >>]
  BY DEF Begin
<1>2. calendar \in Calendars /\ UNCHANGED <<calendar, saved>>
  BY DEF Begin, StudyInv
<1>3. h \in Cutoffs /\ h <= h
  BY HalfAssumption DEF Cutoffs
<1>4. Scope(calendar, <<"models", h>>, h) /\ Scope(calendar, <<"forecast", h>>, h)
  BY <1>2, <1>3, ScopeOf
<1>5. PICK a : a = <<kind, h>>
  OBVIOUS
<1>6. Scope(calendar, a, a[2]) /\ a \in Artifacts /\ a[2] \in Annual
  <2>1. a[2] = h
    BY <1>5
  <2>2. Scope(calendar, a, h)
    BY <1>4, <1>5
  <2> QED
    BY <2>1, <2>2 DEF Scope
<1>7. Demands(calendar, <<a>>)
  BY <1>6, DemandOne
<1>8. stacks' = [stacks EXCEPT ![w] = <<a>>]
  BY <1>1, <1>5
<1> QED
  BY <1>2, <1>7, <1>8, StackStep

\* So does the reuse of a saved artifact,
LEMMA ReuseKeeps ==
    ASSUME StudyInv, NEW w \in Workers, Reuse(w)
    PROVE  StudyInv'
<1>1. PICK s : s = stacks[w] /\ s # <<>> /\ Demands(calendar, s)
  BY DEF Reuse, StudyInv
<1>2. PICK t : t = IF saved[Top(w)] = Torn THEN <<>> ELSE Tail(s)
  OBVIOUS
<1>3. Demands(calendar, <<>>) /\ Demands(calendar, Tail(s))
  BY <1>1, DemandNone, DemandLess
<1>4. Demands(calendar, t)
  BY <1>2, <1>3
<1>5. stacks' = [stacks EXCEPT ![w] = t] /\ UNCHANGED <<calendar, saved>>
  BY <1>1, <1>2 DEF Reuse
<1> QED
  BY <1>4, <1>5, StackStep

\* the death of a process,
LEMMA KillKeeps ==
    ASSUME StudyInv, NEW w \in Workers, Kill(w)
    PROVE  StudyInv'
<1>1. stacks' = [stacks EXCEPT ![w] = <<>>] /\ UNCHANGED <<calendar, saved>>
  BY DEF Kill
<1> QED
  BY <1>1, DemandNone, StackStep

\* a demand for what is lacking, since it is in the scope of the same year,
LEMMA CallKeeps ==
    ASSUME StudyInv, NEW w \in Workers, Call(w)
    PROVE  StudyInv'
<1>1. PICK s : s = stacks[w] /\ s # <<>> /\ Demands(calendar, s)
  BY DEF Call, StudyInv
<1>2. PICK a : a = Top(w)
  OBVIOUS
<1>3. a = Head(s)
  BY <1>1, <1>2 DEF Top
<1>4. UNCHANGED <<calendar, saved>> /\ calendar \in Calendars
  BY DEF Call, StudyInv
<1>5. a \in Artifacts /\ Last(s)[2] \in Annual /\ Scope(calendar, a, Last(s)[2])
  BY <1>1, <1>3, DemandTop
<1>6. CASE a \in Refusing[calendar]
  <2>1. stacks' = [stacks EXCEPT ![w] = <<>>]
    BY <1>2, <1>6 DEF Call
  <2> QED
    BY <1>4, <2>1, DemandNone, StackStep
<1>7. CASE a \notin Refusing[calendar]
  <2>1. Lacking(a) # <<>> /\ stacks' = [stacks EXCEPT ![w] = <<Head(Lacking(a))>> \o stacks[w]]
    BY <1>2, <1>7 DEF Call
  <2>2. PICK l \in Seq(Artifacts) : l = Lacking(a)
    BY <1>5, LackingRange
  <2>3. PICK n : n = Head(l)
    OBVIOUS
  <2>4. n \in ToSet(l)
    <3>1. Len(l) > 0
      BY <2>1, <2>2
    <3>2. n = l[1] /\ 1 \in DOMAIN l
      BY <2>3, <3>1
    <3> QED
      BY <3>2 DEF ToSet
  <2>5. n \in ToSet(NeedsOf(calendar, a))
    BY <1>5, <2>2, <2>4, LackingRange
  <2>6. Asks(calendar, a, n)
    BY <1>4, <1>5, <2>5, NeedsAsked
  <2>7. Scope(calendar, n, Last(s)[2])
    BY <1>4, <1>5, <2>6, ScopeDown
  <2>8. Demands(calendar, <<n>> \o s)
    BY <1>1, <2>7, DemandMore
  <2>9. PICK t : t = <<n>> \o s
    OBVIOUS
  <2>10. stacks' = [stacks EXCEPT ![w] = t]
    BY <1>1, <2>1, <2>2, <2>3, <2>9
  <2>11. Demands(calendar, t)
    BY <2>8, <2>9
  <2> QED
    BY <1>4, <2>10, <2>11, StackStep
<1> QED
  BY <1>6, <1>7

\* An artifact that is saved, whole or torn, while a process demands it.
LEMMA SaveStep ==
    ASSUME StudyInv, NEW w \in Workers, NEW s, Demands(calendar, s),
           stacks' = [stacks EXCEPT ![w] = s], calendar' = calendar,
           NEW a \in Artifacts, Wanted(calendar, a), NEW days,
           saved' = [saved EXCEPT ![a] = days],
           days \notin {None, Torn} => Timely(calendar, a, days)
    PROVE  StudyInv'
<1>1. /\ calendar' \in Calendars /\ DOMAIN stacks' = Workers
      /\ \A v \in Workers : Demands(calendar', stacks'[v])
  BY StackChange
<1>2. DOMAIN saved = Artifacts
  BY DEF StudyInv
<1>3. DOMAIN saved' = Artifacts
  BY <1>2
<1>4. \A b \in Artifacts : saved'[b] = IF b = a THEN days ELSE saved[b]
  BY <1>2
<1>5. ASSUME NEW b \in Artifacts, saved'[b] # None PROVE Wanted(calendar', b)
  <2>1. Wanted(calendar, b)
    BY <1>4, <1>5 DEF StudyInv
  <2> QED
    BY <2>1
<1>6. ASSUME NEW b \in Artifacts, saved'[b] \notin {None, Torn} PROVE Timely(calendar', b, saved'[b])
  <2>1. CASE b = a
    <3>1. saved'[b] = days
      BY <1>4, <2>1
    <3>2. Timely(calendar, a, days)
      BY <1>6, <3>1
    <3>3. Timely(calendar', a, days)
      BY <3>2
    <3> QED
      BY <2>1, <3>1, <3>3
  <2>2. CASE b # a
    <3>1. saved'[b] = saved[b]
      BY <1>4, <2>2
    <3>2. Timely(calendar, b, saved[b])
      BY <1>6, <3>1 DEF StudyInv
    <3>3. Timely(calendar', b, saved[b])
      BY <3>2
    <3> QED
      BY <3>1, <3>3
  <2> QED
    BY <2>1, <2>2
<1> QED
  BY <1>1, <1>3, <1>5, <1>6 DEF StudyInv

\* and an artifact that is made: it rests on what its functions read themselves
\* and on artifacts of no later cutoff.
LEMMA MakeKeeps ==
    ASSUME StudyInv, NEW w \in Workers, Make(w)
    PROVE  StudyInv'
<1>1. PICK s : s = stacks[w] /\ s # <<>> /\ Demands(calendar, s)
  BY DEF Make, StudyInv
<1>2. PICK a : a = Top(w)
  OBVIOUS
<1>3. a = Head(s)
  BY <1>1, <1>2 DEF Top
<1>4. calendar' = calendar /\ calendar \in Calendars
  BY DEF Make, StudyInv
<1>5. a \in Artifacts /\ Last(s)[2] \in Annual /\ Scope(calendar, a, Last(s)[2])
  BY <1>1, <1>3, DemandTop
<1>6. Wanted(calendar, a)
  BY <1>5 DEF Wanted
<1>7. Lacking(a) = <<>>
  BY <1>2 DEF Make
<1>8. PICK needs \in Seq(Artifacts) : needs = NeedsOf(calendar, a)
  BY <1>4, <1>5, NeedsAsked
<1>9. PICK days : days = Own[calendar][a] \union UNION {saved[n] : n \in ToSet(Needs[calendar][a])}
  OBVIOUS
<1>10. CASE /\ saved' = [saved EXCEPT ![a] = days]
            /\ stacks' = [stacks EXCEPT ![w] = Tail(s)]
  <2>1. Demands(calendar, Tail(s))
    BY <1>1, DemandLess
  <2>2. ASSUME NEW n \in ToSet(needs) PROVE n \in Artifacts /\ n[2] <= a[2] /\ Timely(calendar, n, saved[n])
    <3>1. Asks(calendar, a, n)
      BY <1>4, <1>5, <1>8, <2>2, NeedsAsked
    <3>2. Scope(calendar, n, Last(s)[2]) /\ n[2] <= a[2]
      BY <1>4, <1>5, <3>1, ScopeDown
    <3>3. n \in Artifacts
      BY <3>2 DEF Scope
    <3>4. ToSet(Lacking(a)) = {}
      BY <1>7 DEF ToSet
    <3>5. saved[n] \notin {None, Torn}
      BY <1>5, <1>8, <2>2, <3>3, <3>4, LackingRange
    <3> QED
      BY <3>2, <3>3, <3>5 DEF StudyInv
  <2>3. ASSUME NEW n \in ToSet(needs) PROVE Timely(calendar, a, saved[n])
    BY <1>4, <1>5, <2>2, TimelyLater
  <2>4. Timely(calendar, a, OwnOf(calendar, a))
    BY <1>4, <1>5, OwnTimely
  <2>5. days = OwnOf(calendar, a) \union UNION {saved[n] : n \in ToSet(needs)}
    BY <1>4, <1>5, <1>8, <1>9, TablesHold
  <2>6. Timely(calendar, a, days)
    BY <2>3, <2>4, <2>5 DEF Timely
  <2> QED
    BY <1>4, <1>5, <1>6, <1>10, <2>1, <2>6, SaveStep
<1>11. CASE /\ saved' = [saved EXCEPT ![a] = Torn]
            /\ stacks' = [stacks EXCEPT ![w] = <<>>]
  <2>1. Demands(calendar, <<>>)
    BY DemandNone
  <2>2. Torn \notin {None, Torn} => Timely(calendar, a, Torn)
    OBVIOUS
  <2> QED
    BY <1>4, <1>5, <1>6, <1>11, <2>1, <2>2, SaveStep
<1>12. \/ /\ saved' = [saved EXCEPT ![a] = days]
          /\ stacks' = [stacks EXCEPT ![w] = Tail(s)]
       \/ /\ saved' = [saved EXCEPT ![a] = Torn]
          /\ stacks' = [stacks EXCEPT ![w] = <<>>]
  BY <1>1, <1>2, <1>9 DEF Make
<1> QED
  BY <1>10, <1>11, <1>12

\* Every step keeps the invariant.
LEMMA StudySteps == StudyInv /\ [StudyNext]_studyVars => StudyInv'
<1> SUFFICES ASSUME StudyInv, [StudyNext]_studyVars PROVE StudyInv'
  OBVIOUS
<1>1. CASE UNCHANGED studyVars
  BY <1>1 DEF StudyInv, studyVars
<1>2. CASE StudyNext
  <2>1. PICK w \in Workers : Begin(w) \/ Reuse(w) \/ Call(w) \/ Make(w) \/ Kill(w)
    BY <1>2 DEF StudyNext
  <2> QED
    BY <2>1, BeginKeeps, ReuseKeeps, CallKeeps, MakeKeeps, KillKeeps
<1> QED
  BY <1>1, <1>2

\* The invariant gives the property.
LEMMA StudyHolds == StudyInv => StudySound
<1> SUFFICES ASSUME StudyInv PROVE StudySound
  OBVIOUS
<1>1. calendar \in Calendars
  BY DEF StudyInv
<1>2. NoLookAhead
  BY DEF StudyInv, Timely, NoLookAhead
<1>3. ASSUME NEW h \in Cutoffs, saved[<<"models", h>>] # None PROVE h \in Base[calendar]
  <2>1. PICK a \in Artifacts : a = <<"models", h>> /\ a[1] = "models" /\ a[2] = h
    BY ArtifactParts DEF Single
  <2>2. PICK b \in Annual : Scope(calendar, a, b)
    BY <1>3, <2>1 DEF StudyInv, Wanted
  <2>3. h = b \/ h \in BlocksBefore(calendar, b)
    BY <2>1, <2>2 DEF Scope, Based
  <2>4. h \in BaseOf(calendar)
    BY <1>1, <2>3, InBase
  <2> QED
    BY <1>1, <2>4 DEF Base
<1>4. ASSUME NEW k \in Cutoffs, saved[<<"metric", k>>] # None PROVE k \in InnerCutoffs[calendar]
  <2>1. PICK a \in Artifacts : a = <<"metric", k>> /\ a[1] = "metric" /\ a[2] = k
    BY ArtifactParts DEF Single
  <2>2. PICK b \in Annual : Scope(calendar, a, b)
    BY <1>4, <2>1 DEF StudyInv, Wanted
  <2>3. PICK h \in BaseOf(calendar) : k \in Inner(calendar, h)
    BY <2>1, <2>2 DEF Scope
  <2> QED
    BY <1>1, <2>3 DEF InnerCutoffs
<1>5. ASSUME NEW w \in Workers, stacks[w] # <<>>, Top(w) \in Refusing[calendar]
      PROVE  Top(w)[2] = Last(stacks[w])[2]
  <2>1. PICK s : s = stacks[w] /\ s # <<>> /\ Demands(calendar, s) /\ Top(w) = Head(s)
    BY <1>5 DEF StudyInv, Top
  <2>2. Head(s) \in Artifacts /\ Last(s)[2] \in Annual /\ Scope(calendar, Head(s), Last(s)[2])
    BY <2>1, DemandTop
  <2>3. RefusesOf(calendar, Head(s))
    BY <1>1, <1>5, <2>1, <2>2, TablesHold
  <2> QED
    BY <1>1, <2>1, <2>2, <2>3, ScopeRefused
<1> QED
  BY <1>2, <1>3, <1>4, <1>5 DEF StudySound, WithinSchedule, OnlyYearsRefused

\* Whatever the state study saves for a cutoff rests on outcomes available before
\* it, it fits only at the cutoffs of its schedule, and a history is too short only
\* where the study was asked (state_meta.py, state_study.py).
THEOREM StudiesAlwaysSound == StudySpec => []StudySound
BY StudyStarts, StudySteps, StudyHolds, PTL DEF StudySpec

-----------------------------------------------------------------------------
(* The search of neighbours.  Rows are taken one after the other; those    *)
(* that a shortlist gave are as many as all rows would have given up to    *)
(* the same distance, because each of them can be paired with one of the   *)
(* same date that all rows give.                                           *)

\* f has what is taken after each of the first m rows was considered.
Takes(f, found, k, m) ==
    f = [r \in 0 .. m |->
            IF r = 0 THEN {} ELSE IF r \in found THEN Considered(f[r - 1], r, k) ELSE f[r - 1]]

\* The function by which Select is defined exists.
LEMMA TakesExists ==
    ASSUME NEW found, NEW k, NEW m \in Nat
    PROVE  \E f : Takes(f, found, k, m)
<1> DEFINE T == {n \in Nat : \E f : Takes(f, found, k, n)}
<1>1. 0 \in T
  <2>1. Takes([r \in 0 .. 0 |-> {}], found, k, 0)
    BY DEF Takes
  <2> QED
    BY <2>1
<1>2. ASSUME NEW n \in Nat, n \in T PROVE n + 1 \in T
  <2>1. PICK f : Takes(f, found, k, n)
    BY <1>2
  <2>2. \A i \in 0 .. n : f[i] = IF i = 0 THEN {} ELSE IF i \in found THEN Considered(f[i - 1], i, k) ELSE f[i - 1]
    BY <2>1, Zenon DEF Takes
  <2>3. PICK last : last = IF n + 1 \in found THEN Considered(f[n], n + 1, k) ELSE f[n]
    OBVIOUS
  <2>4. PICK g : g = [i \in 0 .. n + 1 |-> IF i = n + 1 THEN last ELSE f[i]]
    OBVIOUS
  <2>5. g[n + 1] = last /\ \A i \in 0 .. n : g[i] = f[i]
    BY <2>4
  <2>6. ASSUME NEW i \in 0 .. n + 1
        PROVE  g[i] = IF i = 0 THEN {} ELSE IF i \in found THEN Considered(g[i - 1], i, k) ELSE g[i - 1]
    <3>1. CASE i = n + 1
      <4>1. i # 0 /\ i - 1 = n /\ g[i - 1] = f[n]
        BY <3>1, <2>5
      <4> QED
        BY <4>1, <3>1, <2>3, <2>5
    <3>2. CASE i = 0
      <4>1. 0 \in 0 .. n
        OBVIOUS
      <4>2. g[0] = f[0] /\ f[0] = {}
        BY <4>1, <2>2, <2>5, Zenon
      <4> QED
        BY <4>2, <3>2
    <3>3. CASE i \in 1 .. n
      <4>1. i # 0 /\ i \in 0 .. n /\ i - 1 \in 0 .. n
        BY <3>3
      <4>2. g[i] = f[i] /\ g[i - 1] = f[i - 1]
        BY <4>1, <2>5
      <4>3. f[i] = IF i \in found THEN Considered(f[i - 1], i, k) ELSE f[i - 1]
        BY <4>1, <2>2
      <4> QED
        BY <4>1, <4>2, <4>3
    <3> QED
      BY <3>1, <3>2, <3>3
  <2>7. g = [i \in 0 .. n + 1 |-> g[i]]
    BY <2>4
  <2>8. Takes(g, found, k, n + 1)
    BY <2>6, <2>7, Zenon DEF Takes
  <2> QED
    BY <2>8
<1> HIDE DEF T
<1>3. m \in T
  BY <1>1, <1>2, NatSetInduction
<1> QED
  BY <1>3 DEF T

\* One row after another.
StepByStep(f, found, k, m) ==
    \A n \in Nat : n + 1 <= m => f[n + 1] = IF n + 1 \in found THEN Considered(f[n], n + 1, k) ELSE f[n]
LEMMA TakesStep ==
    ASSUME NEW found, NEW k, NEW m \in Nat, NEW f, Takes(f, found, k, m)
    PROVE  f[0] = {} /\ StepByStep(f, found, k, m)
<1>1. \A i \in 0 .. m : f[i] = IF i = 0 THEN {} ELSE IF i \in found THEN Considered(f[i - 1], i, k) ELSE f[i - 1]
  BY Zenon DEF Takes
<1>2. f[0] = {}
  <2>1. 0 \in 0 .. m
    OBVIOUS
  <2> QED
    BY <2>1, <1>1, Zenon
<1>3. ASSUME NEW n \in Nat, n + 1 <= m
      PROVE  f[n + 1] = IF n + 1 \in found THEN Considered(f[n], n + 1, k) ELSE f[n]
  <2>1. n + 1 \in 0 .. m /\ n + 1 # 0 /\ (n + 1) - 1 = n
    BY <1>3
  <2> QED
    BY <2>1, <1>1
<1> QED
  BY <1>2, <1>3 DEF StepByStep

\* What is selected is what such a function comes to.
LEMMA SelectTakes ==
    ASSUME NEW found, NEW k, Count \in Nat
    PROVE  \E f : Takes(f, found, k, Count) /\ Select(found, k) = f[Count]
<1>1. PICK f : f = CHOOSE e : Takes(e, found, k, Count)
  OBVIOUS
<1>2. Takes(f, found, k, Count)
  BY <1>1, TakesExists, Zenon
<1>3. Select(found, k) = f[Count]
  BY <1>1, Zenon DEF Select, Takes
<1> QED
  BY <1>2, <1>3

\* What is taken was found among the rows considered, and is not too much.
LEMMA TakesWithin ==
    ASSUME NEW found, NEW k \in Nat, NEW m \in Nat, NEW f, Takes(f, found, k, m)
    PROVE  \A n \in Nat : n <= m =>
              f[n] \subseteq (1 .. n) \intersect found /\ IsFiniteSet(f[n]) /\ Cardinality(f[n]) \in 0 .. k
<1> DEFINE P(n) == f[n] \subseteq (1 .. n) \intersect found /\ IsFiniteSet(f[n]) /\ Cardinality(f[n]) \in 0 .. k
           T == {n \in Nat : n <= m => P(n)}
<1>0. \A i \in Nat : i + 1 <= m => f[i + 1] = IF i + 1 \in found THEN Considered(f[i], i + 1, k) ELSE f[i]
  <2>1. StepByStep(f, found, k, m)
    BY TakesStep
  <2> QED
    BY <2>1 DEF StepByStep
<1>1. 0 \in T
  <2>1. f[0] = {}
    BY TakesStep
  <2> QED
    BY <2>1, FS_EmptySet
<1>2. ASSUME NEW n \in Nat, n \in T PROVE n + 1 \in T
  <2> SUFFICES ASSUME n + 1 <= m PROVE P(n + 1)
    OBVIOUS
  <2>1. P(n)
    BY <1>2
  <2>2. PICK old, new : old = f[n] /\ new = f[n + 1]
    OBVIOUS
  <2>3. new = IF n + 1 \in found THEN Considered(old, n + 1, k) ELSE old
    BY <2>2, <1>0
  <2>4. CASE new = old
    BY <2>1, <2>2, <2>4
  <2>5. CASE new # old
    <3>1. n + 1 \in found /\ Cardinality(old) < k /\ new = old \union {n + 1}
      BY <2>3, <2>5 DEF Considered
    <3>2. n + 1 \notin old /\ IsFiniteSet(old) /\ Cardinality(old) \in 0 .. k
      BY <2>1, <2>2
    <3>3. IsFiniteSet(new) /\ Cardinality(new) = Cardinality(old) + 1
      BY <3>1, <3>2, FS_AddElement, Zenon
    <3>4. new \subseteq (1 .. n + 1) \intersect found
      BY <3>1, <2>1, <2>2
    <3> QED
      BY <3>1, <3>2, <3>3, <3>4, <2>2
  <2> QED
    BY <2>4, <2>5
<1> HIDE DEF T
<1>3. Nat \subseteq T
  BY <1>1, <1>2, NatSetInduction
<1> QED
  BY <1>3 DEF T

\* What is taken of the first rows is not taken back.
KeptFrom(f, p, m) == f[m] \intersect (1 .. p) = f[p]

\* What is taken of the first rows is what is taken in the end among them.
LEMMA TakesGrow ==
    ASSUME NEW found, NEW k \in Nat, NEW m \in Nat, NEW f, Takes(f, found, k, m), NEW p \in 0 .. m
    PROVE  KeptFrom(f, p, m)
<1> DEFINE T == {n \in Nat : p <= n /\ n <= m => f[n] \intersect (1 .. p) = f[p]}
<1>w. \A i \in Nat : i <= m => f[i] \subseteq 1 .. i
  BY TakesWithin, Zenon
<1>0. \A i \in Nat : i + 1 <= m => f[i + 1] = IF i + 1 \in found THEN Considered(f[i], i + 1, k) ELSE f[i]
  <2>1. StepByStep(f, found, k, m)
    BY TakesStep
  <2> QED
    BY <2>1 DEF StepByStep
<1>1. 0 \in T
  <2>1. p <= 0 => p = 0
    OBVIOUS
  <2>2. f[0] = {}
    BY TakesStep
  <2> QED
    BY <2>1, <2>2
<1>2. ASSUME NEW n \in Nat, n \in T PROVE n + 1 \in T
  <2> SUFFICES ASSUME p <= n + 1, n + 1 <= m PROVE f[n + 1] \intersect (1 .. p) = f[p]
    OBVIOUS
  <2>1. CASE p = n + 1
    <3>1. f[n + 1] \subseteq 1 .. n + 1
      BY <1>w
    <3> QED
      BY <3>1, <2>1
  <2>2. CASE p <= n
    <3>1. f[n] \intersect (1 .. p) = f[p]
      BY <1>2, <2>2
    <3>2. f[n + 1] = IF n + 1 \in found THEN Considered(f[n], n + 1, k) ELSE f[n]
      BY <1>0
    <3>3. f[n + 1] \subseteq f[n] \union {n + 1} /\ f[n] \subseteq f[n + 1]
      BY <3>2 DEF Considered
    <3>4. n + 1 \notin 1 .. p
      BY <2>2
    <3> QED
      BY <3>1, <3>3, <3>4
  <2> QED
    BY <2>1, <2>2
<1> HIDE DEF T
<1>3. m \in T
  BY <1>1, <1>2, NatSetInduction
<1> QED
  BY <1>3 DEF T, KeptFrom

\* Nothing is taken once there is enough.
LEMMA TakesStop ==
    ASSUME NEW found, NEW k \in Nat, NEW m \in Nat, NEW f, Takes(f, found, k, m), NEW p \in 0 .. m,
           Cardinality(f[p]) = k
    PROVE  f[m] = f[p]
<1> DEFINE T == {n \in Nat : p <= n /\ n <= m => f[n] = f[p]}
<1>0. \A i \in Nat : i + 1 <= m => f[i + 1] = IF i + 1 \in found THEN Considered(f[i], i + 1, k) ELSE f[i]
  <2>1. StepByStep(f, found, k, m)
    BY TakesStep
  <2> QED
    BY <2>1 DEF StepByStep
<1>1. 0 \in T
  OBVIOUS
<1>2. ASSUME NEW n \in Nat, n \in T PROVE n + 1 \in T
  <2> SUFFICES ASSUME p <= n, n + 1 <= m PROVE f[n + 1] = f[p]
    OBVIOUS
  <2>1. f[n] = f[p] /\ ~(Cardinality(f[n]) < k)
    BY <1>2
  <2>2. f[n + 1] = IF n + 1 \in found THEN Considered(f[n], n + 1, k) ELSE f[n]
    BY <1>0
  <2> QED
    BY <2>1, <2>2 DEF Considered
<1> HIDE DEF T
<1>3. m \in T
  BY <1>1, <1>2, NatSetInduction
<1> QED
  BY <1>3 DEF T

\* The rows taken depend on what was found among the rows considered.
LEMMA TakesAgree ==
    ASSUME NEW found, NEW more, NEW k, NEW m \in Nat,
           NEW f, Takes(f, found, k, m), NEW g, Takes(g, more, k, m), NEW p \in 0 .. m,
           \A r \in 1 .. p : r \in found <=> r \in more
    PROVE  f[p] = g[p]
<1> DEFINE T == {n \in Nat : n <= p => f[n] = g[n]}
<1>0. \A i \in Nat : i + 1 <= m => f[i + 1] = IF i + 1 \in found THEN Considered(f[i], i + 1, k) ELSE f[i]
  <2>1. StepByStep(f, found, k, m)
    BY TakesStep
  <2> QED
    BY <2>1 DEF StepByStep
<1>00. \A i \in Nat : i + 1 <= m => g[i + 1] = IF i + 1 \in more THEN Considered(g[i], i + 1, k) ELSE g[i]
  <2>1. StepByStep(g, more, k, m)
    BY TakesStep
  <2> QED
    BY <2>1 DEF StepByStep
<1>1. 0 \in T
  BY TakesStep
<1>2. ASSUME NEW n \in Nat, n \in T PROVE n + 1 \in T
  <2> SUFFICES ASSUME n + 1 <= p PROVE f[n + 1] = g[n + 1]
    OBVIOUS
  <2>1. f[n] = g[n] /\ (n + 1 \in found <=> n + 1 \in more)
    BY <1>2
  <2>2. f[n + 1] = IF n + 1 \in found THEN Considered(f[n], n + 1, k) ELSE f[n]
    BY <1>0
  <2>3. g[n + 1] = IF n + 1 \in more THEN Considered(g[n], n + 1, k) ELSE g[n]
    BY <1>00
  <2> QED
    BY <2>1, <2>2, <2>3
<1> HIDE DEF T
<1>3. p \in T
  BY <1>1, <1>2, NatSetInduction
<1> QED
  BY <1>3 DEF T

---------------------------------------------------------------------------
(* Pairs of rows of the same date. *)

OfDate(taken, d) == {q \in taken : dates[q] = d}

Paired(some, all) ==
    \E h \in [some -> all] :
        /\ \A q, r \in some : h[q] = h[r] => q = r
        /\ \A q \in some : dates[h[q]] = dates[q]

\* So there are no more of them.
LEMMA PairedCount ==
    ASSUME NEW some, NEW all, Paired(some, all), IsFiniteSet(all)
    PROVE  Cardinality(some) <= Cardinality(all)
<1>1. PICK h \in [some -> all] : \A q, r \in some : h[q] = h[r] => q = r
  BY DEF Paired
<1>2. h \in Injection(some, all)
  BY <1>1 DEF Injection, IsInjective
<1> QED
  BY <1>2, FS_Injection

\* A row that both take.
LEMMA PairedBoth ==
    ASSUME NEW some, NEW all, Paired(some, all), NEW r, r \notin some, r \notin all
    PROVE  Paired(some \union {r}, all \union {r})
<1>1. PICK h \in [some -> all] :
         /\ \A p, q \in some : h[p] = h[q] => p = q
         /\ \A q \in some : dates[h[q]] = dates[q]
  BY DEF Paired
<1>2. PICK more : more = [q \in some \union {r} |-> IF q = r THEN r ELSE h[q]]
  OBVIOUS
<1>3. more[r] = r /\ \A q \in some : more[q] = h[q] /\ h[q] \in all
  BY <1>1, <1>2
<1>4. more \in [some \union {r} -> all \union {r}]
  BY <1>2, <1>3
<1>5. \A p, q \in some \union {r} : more[p] = more[q] => p = q
  BY <1>1, <1>3
<1>6. \A q \in some \union {r} : dates[more[q]] = dates[q]
  BY <1>1, <1>3
<1> QED
  BY <1>4, <1>5, <1>6 DEF Paired

\* A row that only some take, where all have one more of its date.
LEMMA PairedSpare ==
    ASSUME NEW some, NEW all, Paired(some, all), IsFiniteSet(some), NEW r, r \notin some,
           ~(Cardinality(OfDate(all, dates[r])) <= Cardinality(OfDate(some, dates[r])))
    PROVE  Paired(some \union {r}, all)
<1>1. PICK h \in [some -> all] :
         /\ \A p, q \in some : h[p] = h[q] => p = q
         /\ \A q \in some : dates[h[q]] = dates[q]
  BY DEF Paired
<1>2. PICK mine, theirs : mine = OfDate(some, dates[r]) /\ theirs = OfDate(all, dates[r])
  OBVIOUS
<1>3. mine \subseteq some /\ IsFiniteSet(mine)
  <2>1. mine \subseteq some
    BY <1>2 DEF OfDate
  <2> QED
    BY <2>1, FS_Subset
<1>4. PICK spare \in theirs : \A q \in mine : h[q] # spare
  <2> SUFFICES ASSUME \A e \in theirs : \E q \in mine : h[q] = e PROVE FALSE
    OBVIOUS
  <2>1. PICK part : part = [q \in mine |-> h[q]]
    OBVIOUS
  <2>2. \A q \in mine : part[q] = h[q] /\ h[q] \in theirs
    BY <2>1, <1>1, <1>2 DEF OfDate
  <2>3. part \in [mine -> theirs]
    BY <2>1, <2>2
  <2>4. part \in Surjection(mine, theirs)
    BY <2>2, <2>3 DEF Surjection
  <2>5. Cardinality(theirs) <= Cardinality(mine)
    BY <2>4, <1>3, FS_Surjection
  <2> QED
    BY <2>5, <1>2
<1>5. spare \in all /\ dates[spare] = dates[r] /\ \A q \in some : h[q] # spare
  <2>1. spare \in all /\ dates[spare] = dates[r]
    BY <1>2 DEF OfDate
  <2>2. ASSUME NEW q \in some, h[q] = spare PROVE FALSE
    <3>1. q \in mine
      BY <2>1, <2>2, <1>1, <1>2 DEF OfDate
    <3> QED
      BY <3>1, <2>2, <1>4
  <2> QED
    BY <2>1, <2>2
<1>6. PICK more : more = [q \in some \union {r} |-> IF q = r THEN spare ELSE h[q]]
  OBVIOUS
<1>7. more[r] = spare /\ \A q \in some : more[q] = h[q] /\ h[q] \in all
  BY <1>1, <1>6
<1>8. more \in [some \union {r} -> all]
  BY <1>5, <1>6, <1>7
<1>9. \A p, q \in some \union {r} : more[p] = more[q] => p = q
  BY <1>1, <1>5, <1>7
<1>10. \A q \in some \union {r} : dates[more[q]] = dates[q]
  BY <1>1, <1>5, <1>7
<1> QED
  BY <1>8, <1>9, <1>10 DEF Paired

\* One more row is considered in both.
LEMMA PairedConsidered ==
    ASSUME NEW some, NEW all, Paired(some, all), IsFiniteSet(some), IsFiniteSet(all),
           NEW k \in Nat, Cardinality(all) < k, NEW r, r \notin some, r \notin all,
           NEW less, less \in {some, Considered(some, r, k)}, NEW more, more = Considered(all, r, k), Divisor \in Nat \ {0}
    PROVE  Paired(less, more)
<1>1. Share(k) \in Int
  BY DEF Share
<1>2. /\ Cardinality(OfDate(some, dates[r])) \in Nat /\ Cardinality(OfDate(all, dates[r])) \in Nat
      /\ \A s, t : Paired(s, all) /\ all \subseteq t => Paired(s, t)
  <2>1. OfDate(some, dates[r]) \subseteq some /\ OfDate(all, dates[r]) \subseteq all
    BY DEF OfDate
  <2>2. IsFiniteSet(OfDate(some, dates[r])) /\ IsFiniteSet(OfDate(all, dates[r]))
    BY <2>1, FS_Subset
  <2>3. ASSUME NEW s, NEW t, Paired(s, all), all \subseteq t PROVE Paired(s, t)
    BY <2>3 DEF Paired
  <2> QED
    BY <2>2, <2>3, FS_CardinalityType
<1>3. CASE less = some
  <2>1. all \subseteq more
    BY DEF Considered
  <2> QED
    BY <2>1, <1>2, <1>3
<1>4. CASE less # some
  <2>1. less = some \union {r} /\ Cardinality(OfDate(some, dates[r])) < Share(k)
    BY <1>4 DEF Considered, OfDate
  <2>2. CASE Cardinality(OfDate(all, dates[r])) < Share(k)
    <3>1. more = all \union {r}
      BY <2>2 DEF Considered, OfDate
    <3> QED
      BY <3>1, <2>1, PairedBoth
  <2>3. CASE ~(Cardinality(OfDate(all, dates[r])) < Share(k))
    <3>1. more = all
      BY <2>3 DEF Considered, OfDate
    <3>2. ~(Cardinality(OfDate(all, dates[r])) <= Cardinality(OfDate(some, dates[r])))
      BY <2>1, <2>3, <1>1, <1>2
    <3> QED
      BY <3>1, <3>2, <2>1, PairedSpare
  <2> QED
    BY <2>2, <2>3
<1> QED
  BY <1>3, <1>4

\* Of more rows at least as many are taken.
LEMMA TakesMore ==
    ASSUME NEW found, NEW more, found \subseteq more, NEW k \in Nat, NEW m \in Nat,
           NEW f, Takes(f, found, k, m), NEW g, Takes(g, more, k, m), NEW p \in 0 .. m
    PROVE  Cardinality(f[p]) <= Cardinality(g[p])
<1> DEFINE P(n) == Cardinality(g[n]) = k \/ Paired(f[n], g[n])
           T == {n \in Nat : n <= m => P(n)}
<1>0. \A i \in Nat : i + 1 <= m => f[i + 1] = IF i + 1 \in found THEN Considered(f[i], i + 1, k) ELSE f[i]
  <2>1. StepByStep(f, found, k, m)
    BY TakesStep
  <2> QED
    BY <2>1 DEF StepByStep
<1>00. \A i \in Nat : i + 1 <= m => g[i + 1] = IF i + 1 \in more THEN Considered(g[i], i + 1, k) ELSE g[i]
  <2>1. StepByStep(g, more, k, m)
    BY TakesStep
  <2> QED
    BY <2>1 DEF StepByStep
<1>1. \A i \in Nat : i <= m =>
         /\ f[i] \subseteq 1 .. i /\ IsFiniteSet(f[i]) /\ Cardinality(f[i]) \in 0 .. k
         /\ g[i] \subseteq 1 .. i /\ IsFiniteSet(g[i]) /\ Cardinality(g[i]) \in 0 .. k
  <2>1. \A i \in Nat : i <= m => f[i] \subseteq (1 .. i) \intersect found /\ IsFiniteSet(f[i]) /\ Cardinality(f[i]) \in 0 .. k
    BY TakesWithin, Zenon
  <2>2. \A i \in Nat : i <= m => g[i] \subseteq (1 .. i) \intersect more /\ IsFiniteSet(g[i]) /\ Cardinality(g[i]) \in 0 .. k
    BY TakesWithin, Zenon
  <2> QED
    BY <2>1, <2>2, Zenon
<1>2. 0 \in T
  <2>1. f[0] = {} /\ g[0] = {}
    BY TakesStep, Zenon
  <2>2. Paired({}, {})
    <3>1. [q \in {} |-> q] \in [{} -> {}]
      OBVIOUS
    <3> QED
      BY <3>1 DEF Paired
  <2> QED
    BY <2>1, <2>2
<1>3. ASSUME NEW n \in Nat, n \in T PROVE n + 1 \in T
  <2> SUFFICES ASSUME n + 1 <= m PROVE P(n + 1)
    OBVIOUS
  <2>1. PICK a, b, c, d : a = f[n] /\ b = g[n] /\ c = f[n + 1] /\ d = g[n + 1]
    OBVIOUS
  <2>2. /\ c = IF n + 1 \in found THEN Considered(a, n + 1, k) ELSE a
        /\ d = IF n + 1 \in more THEN Considered(b, n + 1, k) ELSE b
    BY <2>1, <1>0, <1>00
  <2>3. /\ IsFiniteSet(a) /\ IsFiniteSet(b) /\ Cardinality(b) \in 0 .. k
        /\ n + 1 \notin a /\ n + 1 \notin b
    <3>1. n <= m /\ n + 1 \notin 1 .. n
      OBVIOUS
    <3> QED
      BY <3>1, <2>1, <1>1
  <2>4. Cardinality(b) = k \/ Paired(a, b)
    BY <2>1, <1>3
  <2>5. CASE Cardinality(b) = k
    <3>1. d = b
      BY <2>2, <2>5 DEF Considered
    <3> QED
      BY <3>1, <2>1, <2>5
  <2>6. CASE Cardinality(b) # k
    <3>1. Cardinality(b) < k /\ Paired(a, b)
      BY <2>3, <2>4, <2>6
    <3>2. CASE n + 1 \in more
      <4>1. d = Considered(b, n + 1, k) /\ c \in {a, Considered(a, n + 1, k)}
        BY <3>2, <2>2
      <4>2. Paired(c, d)
        BY <4>1, <3>1, <2>3, PairedConsidered, SearchAssumption
      <4> QED
        BY <4>2, <2>1
    <3>3. CASE n + 1 \notin more
      BY <3>1, <3>3, <2>1, <2>2
    <3> QED
      BY <3>2, <3>3
  <2> QED
    BY <2>5, <2>6
<1> HIDE DEF T
<1>4. p \in T
  BY <1>2, <1>3, NatSetInduction
<1>5. P(p) /\ IsFiniteSet(g[p]) /\ Cardinality(f[p]) \in 0 .. k
  BY <1>4, <1>1 DEF T
<1>6. CASE Cardinality(g[p]) = k
  BY <1>5, <1>6
<1>7. CASE Paired(f[p], g[p])
  BY <1>5, <1>7, PairedCount
<1> QED
  BY <1>5, <1>6, <1>7

---------------------------------------------------------------------------
(* Shortlists. *)

\* Where the first rows are all there, and enough of them were taken of less,
\* nothing else is taken of all rows.
LEMMA SelectExactly ==
    ASSUME NEW found, NEW more, found \subseteq more, more \subseteq Memory, NEW k \in Nat,
           NEW p \in 0 .. Count, 1 .. p \subseteq more,
           Select(found, k) \subseteq 1 .. p, Cardinality(Select(found, k)) = k
    PROVE  Select(more, k) = Select(Memory, k)
<1>0. Count \in Nat /\ p \in 0 .. Count /\ k \in Nat
  BY SearchAssumption
<1>1. PICK f : Takes(f, found, k, Count) /\ Select(found, k) = f[Count]
  BY <1>0, SelectTakes, Zenon
<1>2. PICK g : Takes(g, more, k, Count) /\ Select(more, k) = g[Count]
  BY <1>0, SelectTakes, Zenon
<1>3. PICK h : Takes(h, Memory, k, Count) /\ Select(Memory, k) = h[Count]
  BY <1>0, SelectTakes, Zenon
<1>4. f[p] = f[Count]
  <2>1. PICK m : m = Count
    OBVIOUS
  <2>2. m \in Nat /\ p \in 0 .. m /\ Takes(f, found, k, m)
    BY <2>1, <1>0, <1>1
  <2>3. KeptFrom(f, p, m)
    BY <2>2, TakesGrow, Zenon
  <2>4. f[m] \intersect (1 .. p) = f[p]
    BY <2>3 DEF KeptFrom
  <2> QED
    BY <2>1, <2>4, <1>1
<1>5. Cardinality(f[p]) <= Cardinality(g[p])
  BY <1>0, <1>1, <1>2, TakesMore, Zenon
<1>6. Cardinality(g[p]) \in 0 .. k
  <2>1. p \in Nat /\ p <= Count
    BY <1>0
  <2> QED
    BY <2>1, <1>0, <1>2, TakesWithin, Zenon
<1>7. Cardinality(g[p]) = k
  BY <1>1, <1>4, <1>5, <1>6
<1>8. g[p] = h[p]
  <2>1. \A r \in 1 .. p : r \in more <=> r \in Memory
    OBVIOUS
  <2> QED
    BY <2>1, <1>0, <1>2, <1>3, TakesAgree, SMTT(30)
<1>9. g[Count] = g[p]
  BY <1>0, <1>2, <1>7, TakesStop, SMTT(30)
<1>10. h[Count] = h[p]
  <2>1. Cardinality(h[p]) = k
    BY <1>7, <1>8
  <2> QED
    BY <2>1, <1>0, <1>3, TakesStop, SMTT(30)
<1> QED
  BY <1>2, <1>3, <1>8, <1>9, <1>10

\* What is selected was found.
LEMMA SelectWithin ==
    ASSUME NEW found, NEW k \in Nat
    PROVE  Select(found, k) \subseteq found \intersect Memory /\ IsFiniteSet(Select(found, k))
<1>0. Count \in Nat /\ Count <= Count
  BY SearchAssumption
<1>1. PICK f : Takes(f, found, k, Count) /\ Select(found, k) = f[Count]
  BY <1>0, SelectTakes, Zenon
<1>2. f[Count] \subseteq (1 .. Count) \intersect found /\ IsFiniteSet(f[Count])
  BY <1>0, <1>1, TakesWithin, Zenon
<1> QED
  BY <1>1, <1>2 DEF Memory

MemorySorted ==
    /\ distance \in [Memory -> Int] /\ group \in [Memory -> Groups]
    /\ \A q, r \in Memory : q <= r => distance[q] <= distance[r]

SearchInv ==
    /\ MemorySorted
    /\ limit \in Nat \ {0}
    /\ SearchExact

\* The last of some rows.
LEMMA LastRow ==
    ASSUME NEW s \in SUBSET Memory, s # {}
    PROVE  \E r \in s : \A q \in s : q <= r
<1>1. s \in SUBSET Nat /\ Count \in Nat /\ \A r \in s : r <= Count
  BY SearchAssumption DEF Memory
<1>2. Max(s) \in s /\ \A q \in s : q <= Max(s)
  BY <1>1, BoundedMax
<1> QED
  BY <1>2

LEMMA FarthestIs ==
    ASSUME MemorySorted, NEW s \in SUBSET Memory, s # {}
    PROVE  \E r \in s : Farthest(s) = distance[r] /\ \A q \in s : distance[q] <= distance[r]
<1>1. PICK last \in s : \A q \in s : q <= last
  BY LastRow
<1>2. \A q \in s : distance[q] <= distance[last]
  BY <1>1 DEF MemorySorted
<1>3. \E d \in {distance[r] : r \in s} : \A r \in s : distance[r] <= d
  BY <1>2
<1>4. PICK d : d = Farthest(s)
  OBVIOUS
<1>5. d \in {distance[r] : r \in s} /\ \A r \in s : distance[r] <= d
  BY <1>3, <1>4, Zenon DEF Farthest
<1> QED
  BY <1>4, <1>5

\* The rows of a tree are in memory.
LEMMA GroupFinite ==
    ASSUME NEW g, NEW found
    PROVE  /\ IsFiniteSet(GroupRows(g)) /\ IsFiniteSet(found \intersect GroupRows(g))
           /\ Cardinality(GroupRows(g)) \in Nat /\ GroupRows(g) \subseteq Memory
<1>1. IsFiniteSet(Memory)
  <2>1. 1 \in Int /\ Count \in Int
    BY SearchAssumption
  <2> QED
    BY <2>1, FS_Interval, Zenon DEF Memory
<1>2. GroupRows(g) \subseteq Memory /\ found \intersect GroupRows(g) \subseteq Memory
  BY DEF GroupRows
<1>3. IsFiniteSet(GroupRows(g)) /\ IsFiniteSet(found \intersect GroupRows(g))
  BY <1>1, <1>2, FS_Subset
<1> QED
  BY <1>2, <1>3, FS_CardinalityType

\* Shortlists as long as their trees are all there is.
LEMMA ExhaustedFound ==
    ASSUME MemorySorted, limit \in Nat, NEW found \in Shortlists,
           \A g \in Groups : limit >= Cardinality(GroupRows(g))
    PROVE  found = Memory
<1>1. found \subseteq Memory
  BY DEF Shortlists
<1>2. ASSUME NEW r \in Memory PROVE r \in found
  <2>1. PICK g \in Groups : g = group[r]
    BY DEF MemorySorted
  <2>2. r \in GroupRows(g) /\ Nearest(g, found \intersect GroupRows(g))
    BY <2>1 DEF GroupRows, Shortlists
  <2>3. PICK all, some : all = GroupRows(g) /\ some = found \intersect GroupRows(g)
    OBVIOUS
  <2>4. IsFiniteSet(all) /\ Cardinality(all) \in Nat /\ limit >= Cardinality(all) /\ some \subseteq all
    BY <2>3, GroupFinite
  <2>5. Cardinality(some) = Cardinality(all)
    BY <2>2, <2>3, <2>4 DEF Nearest, Least
  <2>6. some = all
    BY <2>4, <2>5, FS_Subset
  <2> QED
    BY <2>2, <2>3, <2>6
<1> QED
  BY <1>1, <1>2

\* What a shortlist leaves out of a tree is not nearer than what is beyond it.
LEMMA BeyondLeft ==
    ASSUME MemorySorted, limit \in Nat \ {0}, NEW found \in Shortlists, NEW r \in Memory, r \notin found
    PROVE  \E g \in Groups : Beyond(g, found) <= distance[r] /\ Beyond(g, found) \in Int
<1>1. PICK g \in Groups : g = group[r]
  BY DEF MemorySorted
<1>2. r \in GroupRows(g) /\ Nearest(g, found \intersect GroupRows(g))
  BY <1>1 DEF GroupRows, Shortlists
<1>3. PICK all, some : all = GroupRows(g) /\ some = found \intersect GroupRows(g)
  OBVIOUS
<1>4. /\ IsFiniteSet(all) /\ IsFiniteSet(some) /\ Cardinality(all) \in Nat
      /\ some \subseteq all /\ all \subseteq Memory
  BY <1>3, GroupFinite
<1>5. some # {}
  <2>1. Cardinality(all) # 0
    BY <1>2, <1>3, <1>4, FS_EmptySet
  <2>2. Cardinality(some) # 0
    BY <2>1, <1>2, <1>3, <1>4 DEF Nearest, Least
  <2> QED
    BY <2>2, FS_EmptySet
<1>6. PICK last \in some : Farthest(some) = distance[last]
  BY <1>4, <1>5, FarthestIs
<1>7. distance[last] <= distance[r]
  BY <1>2, <1>3, <1>6 DEF Nearest
<1>8. Beyond(g, found) = distance[last] /\ distance[last] \in Int
  <2>1. Beyond(g, found) = distance[last]
    BY <1>2, <1>3, <1>6 DEF Beyond
  <2> QED
    BY <2>1, <1>4, <1>6 DEF MemorySorted
<1> QED
  BY <1>7, <1>8

\* A query that is ready selects what it would from all rows.
LEMMA ReadySelects ==
    ASSUME MemorySorted, limit \in Nat \ {0}, NEW found \in Shortlists, NEW results, results = [k \in Ks |-> Select(found, k)],
           NEW boundary, boundary = Boundary(results), \A k \in Ks : Cardinality(results[k]) = k,
           NEW ties, ties = IF \A g \in Groups : Beyond(g, found) > boundary THEN {}
                            ELSE {r \in Memory : distance[r] <= boundary},
           NEW k \in Ks
    PROVE  Select(found \union ties, k) = Select(Memory, k)
<1>1. found \subseteq Memory /\ ties \subseteq Memory
  BY DEF Shortlists
<1>2. \A j \in Ks : j \in Nat \ {0} /\ results[j] = Select(found, j)
  BY SearchAssumption
<1>3. \A j \in Ks : results[j] \subseteq Memory /\ results[j] # {}
  BY <1>2, SelectWithin, FS_EmptySet
<1>4. PICK taken : taken = UNION {results[j] : j \in Ks}
  OBVIOUS
<1>5. taken \in SUBSET Memory /\ taken # {} /\ boundary = Farthest(taken)
  BY <1>3, <1>4 DEF Boundary
<1>6. PICK far \in taken : boundary = distance[far] /\ \A q \in taken : distance[q] <= boundary
  BY <1>5, FarthestIs
<1>7. PICK near : near = {r \in Memory : distance[r] <= boundary}
  OBVIOUS
<1>8. near \in SUBSET Memory /\ far \in near /\ taken \subseteq near /\ boundary \in Int
  BY <1>5, <1>6, <1>7 DEF MemorySorted
<1>9. PICK p \in near : \A q \in near : q <= p
  BY <1>8, LastRow
<1>10. near = 1 .. p /\ p \in 0 .. Count
  <2>1. p \in 1 .. Count /\ Count \in Nat
    BY <1>8, <1>9, SearchAssumption DEF Memory
  <2>2. near \subseteq 1 .. p
    BY <2>1, <1>8, <1>9 DEF Memory
  <2>3. ASSUME NEW q \in 1 .. p PROVE q \in near
    <3>1. q \in Memory /\ p \in Memory /\ q <= p
      BY <2>1 DEF Memory
    <3>2. distance[q] <= distance[p] /\ distance[p] <= boundary /\ distance[p] \in Int /\ distance[q] \in Int
      BY <3>1, <1>7, <1>9 DEF MemorySorted
    <3> QED
      BY <3>1, <3>2, <1>7, <1>8
  <2>4. near = 1 .. p
    BY <2>2, <2>3
  <2>5. p \in 0 .. Count
    BY <2>1
  <2> QED
    BY <2>4, <2>5
<1>11. near \subseteq found \union ties
  <2>1. CASE \A g \in Groups : Beyond(g, found) > boundary
    <3>1. ASSUME NEW r \in near, r \notin found PROVE FALSE
      <4>1. PICK g \in Groups : Beyond(g, found) <= distance[r] /\ Beyond(g, found) \in Int
        BY <3>1, <1>8, BeyondLeft
      <4>2. distance[r] <= boundary /\ Beyond(g, found) > boundary /\ distance[r] \in Int
        BY <2>1, <3>1, <1>7, <1>8 DEF MemorySorted
      <4> QED
        BY <4>1, <4>2, <1>8
    <3> QED
      BY <3>1
  <2>2. CASE ~\A g \in Groups : Beyond(g, found) > boundary
    BY <2>2, <1>7
  <2> QED
    BY <2>1, <2>2
<1>12. Select(found, k) \subseteq 1 .. p /\ Cardinality(Select(found, k)) = k /\ k \in Nat
  BY <1>2, <1>4, <1>8, <1>10
<1>13. found \subseteq found \union ties /\ found \union ties \subseteq Memory /\ 1 .. p \subseteq found \union ties
  BY <1>1, <1>10, <1>11
<1>14. Select(found \union ties, k) = Select(Memory, k)
  <2>1. PICK more : more = found \union ties
    OBVIOUS
  <2>2. found \subseteq more /\ more \subseteq Memory /\ 1 .. p \subseteq more
    BY <2>1, <1>13
  <2>3. p \in 0 .. Count /\ k \in Nat
    BY <1>10, <1>12
  <2>4. Select(more, k) = Select(Memory, k)
    BY <2>2, <2>3, <1>12, SelectExactly, SMTT(30)
  <2> QED
    BY <2>1, <2>4
<1> QED
  BY <1>14

---------------------------------------------------------------------------
(* The steps. *)

\* The largest number of neighbours asked for.
LEMMA LargestIs == Largest \in Nat \ {0}
<1>1. Ks \in SUBSET Nat /\ Ks # {} /\ IsFiniteSet(Ks)
  BY SearchAssumption
<1>2. PICK seq \in Seq(Ks) : \A e \in Ks : \E n \in 1 .. Len(seq) : seq[n] = e
  BY <1>1 DEF IsFiniteSet
<1>3. \A e \in Ks : e \in ToSet(seq)
  <2>1. DOMAIN seq = 1 .. Len(seq)
    OBVIOUS
  <2> QED
    BY <2>1, <1>2 DEF ToSet
<1>4. PICK b \in Nat : \A e \in Ks : e <= b
  <2> DEFINE same == [e \in Ks |-> e]
  <2>1. same \in [Ks -> Nat] /\ \A e \in Ks : same[e] = e
    BY <1>1
  <2> HIDE DEF same
  <2>2. PICK b \in Nat : \A e \in ToSet(seq) : same[e] <= b
    BY <2>1, SeqBounded
  <2> QED
    BY <2>1, <2>2, <1>3
<1>5. Max(Ks) \in Ks /\ \A j \in Ks : j <= Max(Ks)
  BY <1>1, <1>4, BoundedMax
<1>6. \E k \in Ks : \A j \in Ks : k >= j
  BY <1>1, <1>5
<1>7. Largest \in Ks
  BY <1>6, Zenon DEF Largest
<1> QED
  BY <1>7, SearchAssumption

\* Distances that grow by nothing or one are sorted.
LEMMA SearchInitInv ==
    ASSUME SearchInit
    PROVE  SearchInv
<1>1. /\ distance \in [Memory -> 0 .. Count - 1] /\ group \in [Memory -> Groups]
      /\ \A r \in 2 .. Count : distance[r] - distance[r - 1] \in {0, 1}
      /\ limit = Widen * Largest /\ answer = None
  BY Zenon DEF SearchInit
<1>2. distance \in [Memory -> Int]
  BY <1>1
<1> DEFINE T == {n \in Nat : \A q \in Memory : q + n \in Memory => distance[q] <= distance[q + n]}
<1>3. 0 \in T
  <2>1. \A q \in Memory : q + 0 = q /\ distance[q] \in Int
    BY <1>2 DEF Memory
  <2> QED
    BY <2>1
<1>4. ASSUME NEW n \in Nat, n \in T PROVE n + 1 \in T
  <2> SUFFICES ASSUME NEW q \in Memory, q + (n + 1) \in Memory PROVE distance[q] <= distance[q + (n + 1)]
    OBVIOUS
  <2>1. q \in Nat \ {0} /\ Count \in Nat /\ q + (n + 1) <= Count
    BY SearchAssumption DEF Memory
  <2>2. q + n \in Memory /\ q + (n + 1) \in 2 .. Count /\ (q + (n + 1)) - 1 = q + n
    BY <2>1 DEF Memory
  <2>3. distance[q] <= distance[q + n]
    BY <2>2, <1>4
  <2>4. PICK a, b, c : a = distance[q] /\ b = distance[q + n] /\ c = distance[q + (n + 1)]
    OBVIOUS
  <2>5. a \in Int /\ b \in Int /\ c \in Int /\ a <= b
    BY <2>2, <2>3, <2>4, <1>2
  <2>6. c - b \in {0, 1}
    BY <2>2, <2>4, <1>1
  <2>7. a <= c
    BY <2>5, <2>6
  <2> QED
    BY <2>4, <2>7
<1> HIDE DEF T
<1>5. Nat \subseteq T
  BY <1>3, <1>4, NatSetInduction
<1>6. ASSUME NEW q \in Memory, NEW r \in Memory, q <= r PROVE distance[q] <= distance[r]
  <2>1. r - q \in Nat /\ q + (r - q) = r
    BY <1>6, SearchAssumption DEF Memory
  <2>2. r - q \in T
    BY <2>1, <1>5
  <2> QED
    BY <2>1, <2>2 DEF T
<1>7. limit \in Nat \ {0}
  <2>1. PICK w, l : w = Widen /\ l = Largest
    OBVIOUS
  <2>2. w \in Nat /\ l \in Nat /\ w >= 1 /\ l >= 1
    BY <2>1, LargestIs, SearchAssumption
  <2>3. w * l \in Nat /\ w * l >= 1
    BY <2>2
  <2> QED
    BY <2>1, <2>3, <1>1
<1> QED
  BY <1>1, <1>2, <1>6, <1>7 DEF SearchInv, MemorySorted, SearchExact

\* A query is answered from what is in memory, or asks for longer shortlists.
LEMMA QueryInv ==
    ASSUME SearchInv, Query
    PROVE  SearchInv'
<1> DEFINE results(found) == [k \in Ks |-> Select(found, k)]
           exhausted == \A g \in Groups : limit >= Cardinality(GroupRows(g))
           complete(found) == \A k \in Ks : Cardinality(results(found)[k]) = k
           ties(found) == IF \A g \in Groups : Beyond(g, found) > Boundary(results(found)) THEN {}
                          ELSE {r \in Memory : distance[r] <= Boundary(results(found))}
<1>1. distance' = distance /\ dates' = dates /\ group' = group /\ answer = None
  BY DEF Query
<1>2. PICK found \in Shortlists :
         \/ limit' = 2 * limit /\ answer' = answer
         \/ /\ answer' = [k \in Ks |-> Select(found \union ties(found), k)] /\ limit' = limit
            /\ exhausted \/ complete(found)
  BY DEF Query
<1>3. MemorySorted' /\ limit' \in Nat \ {0}
  <2>1. MemorySorted'
    BY <1>1 DEF SearchInv, MemorySorted
  <2>2. limit \in Nat \ {0}
    BY DEF SearchInv
  <2> QED
    BY <2>1, <2>2, <1>2
<1>4. \A f, k : Select(f, k)' = Select(f, k)
  BY <1>1 DEF Select, Considered, Share
<1>5. CASE answer' = answer
  BY <1>1, <1>3, <1>5 DEF SearchInv, SearchExact
<1>6. CASE /\ answer' = [k \in Ks |-> Select(found \union ties(found), k)]
           /\ exhausted \/ complete(found)
  <2>1. MemorySorted /\ limit \in Nat \ {0}
    BY DEF SearchInv
  <2>2. ASSUME NEW k \in Ks PROVE Select(found \union ties(found), k) = Select(Memory, k)
    <3>1. CASE exhausted
      <4>1. found = Memory /\ ties(found) \subseteq Memory
        BY <2>1, <3>1, ExhaustedFound
      <4>2. found \union ties(found) = Memory
        BY <4>1
      <4> QED
        BY <4>2
    <3>2. CASE complete(found)
      <4>1. PICK rs, b, t : rs = results(found) /\ b = Boundary(rs) /\ t = ties(found)
        OBVIOUS
      <4>2. t = IF \A g \in Groups : Beyond(g, found) > b THEN {} ELSE {r \in Memory : distance[r] <= b}
        BY <4>1
      <4>3. Select(found \union t, k) = Select(Memory, k)
        BY <4>1, <4>2, <3>2, <2>1, ReadySelects
      <4> QED
        BY <4>1, <4>3
    <3> QED
      BY <3>1, <3>2, <1>6
  <2>3. \A k \in Ks : answer'[k] = Select(Memory, k)'
    BY <1>4, <1>6, <2>2
  <2>4. SearchExact'
    BY <2>3, Zenon DEF SearchExact, Predict
  <2> QED
    BY <2>4, <1>3 DEF SearchInv
<1> QED
  BY <1>2, <1>5, <1>6

\* SearchExact, for every memory, number of neighbours and share of a date.
THEOREM SearchAlwaysExact == SearchSpec => []SearchExact
<1>1. SearchInit => SearchInv
  BY SearchInitInv
<1>2. SearchInv /\ [SearchNext]_searchVars => SearchInv'
  <2>1. ASSUME SearchInv, UNCHANGED searchVars PROVE SearchInv'
    <3>1. \A f, k : Select(f, k)' = Select(f, k)
      BY <2>1 DEF searchVars, Select, Considered, Share
    <3>2. MemorySorted' /\ limit' \in Nat \ {0}
      BY <2>1 DEF searchVars, SearchInv, MemorySorted
    <3>3. SearchExact'
      BY <2>1, <3>1, Zenon DEF searchVars, SearchInv, SearchExact, Predict
    <3> QED
      BY <3>2, <3>3 DEF SearchInv
  <2> QED
    BY <2>1, QueryInv DEF SearchNext
<1>3. SearchInv => SearchExact
  BY DEF SearchInv
<1> QED
  BY <1>1, <1>2, <1>3, PTL DEF SearchSpec

-----------------------------------------------------------------------------
(* Chains of prices. *)

\* A row of either table, with its place in a chain.
Placed(r) ==
    /\ r.session \in Int /\ r.start \in Int /\ r.start <= r.session
    /\ r.close \in Int /\ r.preclose \in Int /\ r.factor \in Int

OneEach(table) == \A r, q \in table : r.security = q.security /\ r.session = q.session => r = q

\* A row that goes on with a chain where another one left it.
Continues(n, r) ==
    /\ r.security = n.security /\ r.start = n.start /\ r.session = n.session - 1
    /\ Adjusted(n) - Adjusted(r) = n.close - n.preclose

\* The rows of one session, each of which begins a chain or goes on with one,
\* leave the chains of a table without a hole.
LEMMA ChainsGrow ==
    ASSUME NEW T, NEW N, NEW d \in Int, Unbroken(T), OneEach(T), OneEach(N),
           \A r \in T : Placed(r) /\ r.session < d,
           \A n \in N : Placed(n) /\ n.session = d /\ (n.start = d \/ \E r \in T : Continues(n, r))
    PROVE  Unbroken(T \cup N) /\ OneEach(T \cup N)
<1>1. OneEach(T \cup N)
  BY DEF OneEach, Placed
<1>2. ASSUME NEW r \in T \cup N, NEW q \in T \cup N,
             r.security = q.security, r.start = q.start, r.session < q.session
      PROVE  \E n \in Of(T \cup N, r, r.session + 1) : Adjusted(n) - Adjusted(r) = n.close - n.preclose
  <2>1. CASE q \in T
    <3>1. r \in T
      BY <1>2, <2>1 DEF Placed
    <3>2. PICK n \in Of(T, r, r.session + 1) : Adjusted(n) - Adjusted(r) = n.close - n.preclose
      BY <1>2, <2>1, <3>1 DEF Unbroken
    <3> QED
      BY <3>2 DEF Of
  <2>2. CASE q \in N
    <3>1. r \in T /\ r.session < d /\ q.session = d /\ Placed(r) /\ Placed(q)
      BY <1>2, <2>2 DEF Placed
    <3>2. q.start # d
      BY <1>2, <3>1 DEF Placed
    <3>3. PICK p \in T : Continues(q, p)
      BY <2>2, <3>2
    <3>4. CASE r.session = p.session
      <4>1. r = p
        BY <1>2, <3>1, <3>3, <3>4 DEF Continues, OneEach
      <4>2. q \in Of(T \cup N, r, r.session + 1)
        BY <1>2, <2>2, <3>1, <3>3, <3>4 DEF Of, Continues, Placed
      <4> QED
        BY <3>3, <4>1, <4>2 DEF Continues
    <3>5. CASE r.session # p.session
      <4>1. r.session < p.session /\ r.security = p.security /\ r.start = p.start
        BY <1>2, <3>1, <3>3, <3>5 DEF Continues, Placed
      <4>2. PICK n \in Of(T, r, r.session + 1) : Adjusted(n) - Adjusted(r) = n.close - n.preclose
        BY <3>1, <4>1 DEF Unbroken
      <4> QED
        BY <4>2 DEF Of
    <3> QED
      BY <3>4, <3>5
  <2> QED
    BY <2>1, <2>2
<1> QED
  BY <1>1, <1>2 DEF Unbroken

\* What comes before the rest of a table has no hole of its own.
LEMMA ChainsEarlier ==
    ASSUME NEW T, NEW W, Unbroken(T \cup W), \A r \in T \cup W : Placed(r),
           \A r \in T, w \in W : r.session < w.session
    PROVE  Unbroken(T)
<1>1. ASSUME NEW r \in T, NEW q \in T,
             r.security = q.security, r.start = q.start, r.session < q.session
      PROVE  \E n \in Of(T, r, r.session + 1) : Adjusted(n) - Adjusted(r) = n.close - n.preclose
  <2>1. PICK n \in Of(T \cup W, r, r.session + 1) : Adjusted(n) - Adjusted(r) = n.close - n.preclose
    BY <1>1 DEF Unbroken
  <2>2. n \in T
    BY <1>1, <2>1 DEF Of, Placed
  <2> QED
    BY <2>1, <2>2 DEF Of
<1> QED
  BY <1>1 DEF Unbroken

\* Rows that a chain cannot tell apart.
Alike(r, q) ==
    /\ r.security = q.security /\ r.session = q.session /\ r.start = q.start
    /\ r.close = q.close /\ r.preclose = q.preclose /\ r.factor = q.factor

LEMMA ChainsAlike ==
    ASSUME NEW A, NEW B, Unbroken(A),
           \A b \in B : \E a \in A : Alike(a, b),
           \A a \in A : \E b \in B : Alike(a, b)
    PROVE  Unbroken(B)
<1>1. ASSUME NEW r \in B, NEW q \in B,
             r.security = q.security, r.start = q.start, r.session < q.session
      PROVE  \E n \in Of(B, r, r.session + 1) : Adjusted(n) - Adjusted(r) = n.close - n.preclose
  <2>1. PICK a \in A : Alike(a, r)
    OBVIOUS
  <2>2. PICK c \in A : Alike(c, q)
    OBVIOUS
  <2>3. a.security = c.security /\ a.start = c.start /\ a.session < c.session
    BY <1>1, <2>1, <2>2 DEF Alike
  <2>4. PICK e \in Of(A, a, a.session + 1) : Adjusted(e) - Adjusted(a) = e.close - e.preclose
    BY <2>3 DEF Unbroken
  <2>5. PICK n \in B : Alike(e, n)
    BY <2>4 DEF Of
  <2>6. n \in Of(B, r, r.session + 1)
    BY <2>1, <2>4, <2>5 DEF Of, Alike
  <2>7. Adjusted(n) - Adjusted(r) = n.close - n.preclose
    BY <2>1, <2>4, <2>5 DEF Adjusted, Alike
  <2> QED
    BY <2>6, <2>7
<1> QED
  BY <1>1 DEF Unbroken

-----------------------------------------------------------------------------
(* Reviewed rows, and the bars of ReferenceNormalizer. *)

\* Rows of the provider, one of each security.
Provided(raw) == \A s \in Security : Quoted(raw[s])

\* The row that is normalised is one of prices, reviewed or not.
LEMMA RowQuoted ==
    ASSUME manifest \in Manifests, NEW d, NEW s \in Security, NEW raw, Provided(raw)
    PROVE  Quoted(RowRead(d, s, raw))
<1>1. CASE \E r \in Bound(d, raw) : r.security = s
  <2>1. PICK r \in Bound(d, raw) : r = CHOOSE q \in Bound(d, raw) : q.security = s
    BY <1>1
  <2>2. RowRead(d, s, raw) = r.row
    BY <1>1, <2>1 DEF RowRead
  <2>3. r \in manifest.reviews
    BY <2>1 DEF Bound
  <2> QED
    BY <2>2, <2>3, ReviewAssumption
<1>2. CASE ~ \E r \in Bound(d, raw) : r.security = s
  <2>1. RowRead(d, s, raw) = raw[s]
    BY <1>2 DEF RowRead
  <2> QED
    BY <2>1 DEF Provided
<1> QED
  BY <1>1, <1>2

\* What the normaliser holds of a security is a bar it gave.
HeldBar(held, table, s, d) ==
    held # None =>
        /\ held.ordinal \in Int /\ held.ordinal < d
        /\ held.close \in Int /\ held.factor \in Int /\ held.start \in Int
        /\ \E b \in table : /\ b.security = s /\ b.session = held.ordinal /\ b.start = held.start
                            /\ Adjusted(b) = held.close + held.factor

BarsChained ==
    /\ OneEach(bars) /\ Unbroken(bars)
    /\ \A b \in bars : Placed(b) /\ b.session < ordinal
    /\ \A s \in Security : HeldBar(reference[s], bars, s, ordinal)

\* A bar begins a chain, or goes on with that of the bar held.
LEMMA BarLinked ==
    ASSUME NEW table, NEW d \in Int, NEW s, NEW prev, HeldBar(prev, table, s, d), NEW row, Quoted(row),
           \A b \in table : Placed(b),
           NEW n, n = Bar(d, s, prev, row)
    PROVE  /\ Placed(n) /\ n.session = d /\ n.security = s /\ n.close = row.close
           /\ n.start = d \/ \E r \in table : Continues(n, r)
<1>1. n.session = d /\ n.security = s /\ n.close = row.close /\ n.preclose = row.preclose
  BY DEF Bar
<1>2. CASE Continuous(d, prev)
  <2>1. prev # None /\ prev.ordinal = d - 1
    BY <1>2 DEF Continuous
  <2>2. n.factor = prev.factor + prev.close - row.preclose /\ n.start = prev.start
    BY <1>2 DEF Bar, FactorAfter
  <2>3. PICK r \in table : /\ r.security = s /\ r.session = prev.ordinal /\ r.start = prev.start
                           /\ Adjusted(r) = prev.close + prev.factor
    BY <2>1 DEF HeldBar
  <2>4. prev.close \in Int /\ prev.factor \in Int /\ prev.start \in Int
    BY <2>1 DEF HeldBar
  <2>5. Placed(n)
    BY <1>1, <2>1, <2>2, <2>3, <2>4 DEF Placed, Quoted
  <2>6. Adjusted(n) - Adjusted(r) = n.close - n.preclose
    BY <1>1, <2>2, <2>3, <2>4 DEF Adjusted, Quoted
  <2>7. Continues(n, r)
    BY <1>1, <2>1, <2>2, <2>3, <2>6 DEF Continues
  <2> QED
    BY <1>1, <2>5, <2>7
<1>3. CASE ~Continuous(d, prev)
  <2>1. n.factor = 0 /\ n.start = d
    BY <1>3 DEF Bar
  <2> QED
    BY <1>1, <2>1 DEF Placed, Quoted
<1> QED
  BY <1>2, <1>3

\* One session of ReferenceNormalizer.
LEMMA BarsStep ==
    ASSUME BarsChained, ordinal \in Int, NEW rows, \A s \in Security : Quoted(rows[s]),
           NEW taken, taken = DayBars(ordinal, rows)
    PROVE  /\ OneEach(bars \cup taken) /\ Unbroken(bars \cup taken)
           /\ \A b \in bars \cup taken : Placed(b) /\ b.session < ordinal + 1
           /\ \A s \in Security : HeldBar(Held(ordinal, s, rows[s], taken), bars \cup taken, s, ordinal + 1)
<1> DEFINE BarOf(s) == Bar(ordinal, s, reference[s], rows[s])
<1>1. \A b \in taken : b.security \in Security /\ b = BarOf(b.security)
  BY DEF DayBars, Bar
<1>2. \A s \in Security : /\ Placed(BarOf(s)) /\ BarOf(s).session = ordinal /\ BarOf(s).security = s
                          /\ BarOf(s).start = ordinal \/ \E r \in bars : Continues(BarOf(s), r)
  BY BarLinked DEF BarsChained
<1>3. OneEach(taken)
  BY <1>1 DEF OneEach
<1>4. \A n \in taken : Placed(n) /\ n.session = ordinal /\ (n.start = ordinal \/ \E r \in bars : Continues(n, r))
  BY <1>1, <1>2
<1>5. Unbroken(bars \cup taken) /\ OneEach(bars \cup taken)
  BY <1>3, <1>4, ChainsGrow DEF BarsChained
<1>6. \A b \in bars \cup taken : Placed(b) /\ b.session < ordinal + 1
  BY <1>4 DEF BarsChained, Placed
<1>7. ASSUME NEW s \in Security
      PROVE  HeldBar(Held(ordinal, s, rows[s], taken), bars \cup taken, s, ordinal + 1)
  <2>1. CASE rows[s].kind = "missing"
    <3>1. Held(ordinal, s, rows[s], taken) = reference[s]
      BY <2>1 DEF Held
    <3>2. HeldBar(reference[s], bars, s, ordinal)
      BY DEF BarsChained
    <3>3. HeldBar(reference[s], bars \cup taken, s, ordinal + 1)
      BY <3>2 DEF HeldBar
    <3> QED
      BY <3>1, <3>3
  <2>2. CASE rows[s].kind # "missing" /\ \E b \in taken : b.security = s
    <3>1. PICK b \in taken : b.security = s /\ b = CHOOSE c \in taken : c.security = s
      BY <2>2
    <3> DEFINE h == [ordinal |-> ordinal, close |-> b.close, factor |-> b.factor, start |-> b.start, streak |-> b.streak]
    <3>2. Held(ordinal, s, rows[s], taken) = h
      BY <2>2, <3>1 DEF Held
    <3>3. Placed(b) /\ b.session = ordinal
      BY <1>4, <3>1
    <3>4. h.ordinal = ordinal /\ h.close = b.close /\ h.factor = b.factor /\ h.start = b.start
      OBVIOUS
    <3> HIDE DEF h
    <3>5. b \in bars \cup taken /\ Adjusted(b) = h.close + h.factor
      BY <3>4 DEF Adjusted
    <3>6. \E c \in bars \cup taken : /\ c.security = s /\ c.session = h.ordinal /\ c.start = h.start
                                    /\ Adjusted(c) = h.close + h.factor
      BY <3>1, <3>3, <3>4, <3>5, Zenon
    <3>7. h.ordinal \in Int /\ h.ordinal < ordinal + 1 /\ h.close \in Int /\ h.factor \in Int /\ h.start \in Int
      BY <3>3, <3>4 DEF Placed
    <3>8. HeldBar(h, bars \cup taken, s, ordinal + 1)
      BY <3>6, <3>7, Zenon DEF HeldBar
    <3> QED
      BY <3>2, <3>8
  <2>3. CASE rows[s].kind # "missing" /\ ~ \E b \in taken : b.security = s
    <3>1. Held(ordinal, s, rows[s], taken) = None
      BY <2>3 DEF Held
    <3> QED
      BY <3>1 DEF HeldBar
  <2> QED
    BY <2>1, <2>2, <2>3
<1> QED
  BY <1>5, <1>6, <1>7

-----------------------------------------------------------------------------
(* The prices of OutcomePriceNormalizer, published and waiting. *)

PriceRow ==
    [security : Security, session : Int, close : Int, preclose : Int, available : Int, factor : Int,
     start : Int, sparse : BOOLEAN, trade : BOOLEAN, confirmed : Int \cup {None}]

Published(s) == {p \in prices : p.security = s}

\* What the normaliser remembers of a security is its newest price.
Remembered(prev, table, s, d) ==
    /\ prev.ordinal = d - 1
    /\ prev.close \in Int /\ prev.factor \in Int /\ prev.start \in Int /\ prev.available \in Int
    /\ \E p \in table : /\ p.security = s /\ p.session = d - 1 /\ p.start = prev.start
                        /\ Adjusted(p) = prev.close + prev.factor

\* The published and the waiting prices of a security are chains without a
\* hole, and those that wait come last, in the chain that is remembered.
PriceChain(s, table, waiting, prev, d) ==
    /\ table \subseteq PriceRow /\ waiting \in Seq(PriceRow)
    /\ \A p \in table \cup Range(waiting) : p.security = s /\ Placed(p) /\ p.session < d
    /\ OneEach(table \cup Range(waiting))
    /\ Unbroken(table \cup Range(waiting))
    /\ \A p \in table, w \in Range(waiting) : p.session < w.session
    /\ \A w \in Range(waiting) : prev # None /\ w.start = prev.start
    /\ prev # None => Remembered(prev, table \cup Range(waiting), s, d)

PricesChained ==
    /\ prices \subseteq PriceRow
    /\ SparseConfirmed
    /\ \A s \in Security : PriceChain(s, Published(s), pending[s], previous[s], ordinal)

\* The builder leaves no calendar gap, so that what is remembered is the anchor.
LEMMA Anchored ==
    ASSUME NEW s, NEW d \in Int, NEW table, PriceChain(s, table, pending[s], previous[s], d)
    PROVE  Anchor(d, s) = previous[s] /\ Waiting(d, s) = pending[s]
<1>1. CASE previous[s] # None
  <2>1. Continuous(d, previous[s])
    BY <1>1 DEF PriceChain, Remembered, Continuous
  <2> QED
    BY <2>1 DEF Anchor, Waiting
<1>2. CASE previous[s] = None
  BY <1>2 DEF Anchor, Waiting, Continuous
<1> QED
  BY <1>1, <1>2

\* A new price begins a chain, or goes on with that of the price remembered.
Linked(n, all, s, d, row) ==
    /\ n \in PriceRow /\ Placed(n) /\ n.session = d /\ n.security = s
    /\ n.start = d \/ \E r \in all : Continues(n, r)
    /\ previous[s] # None => n.start = previous[s].start
    /\ n.sparse = (row.kind = "blank") /\ n.trade = Confirms(row)

LEMMA PriceLinked ==
    ASSUME NEW s \in Security, NEW d \in Int, NEW table,
           PriceChain(s, table, pending[s], previous[s], d), NEW row, Quoted(row)
    PROVE  Linked(Price(d, s, row), table \cup Range(pending[s]), s, d, row)
<1> DEFINE a == previous[s]
<1>a. PICK n : n = Price(d, s, row)
  OBVIOUS
<1>b. PICK all : all = table \cup Range(pending[s])
  OBVIOUS
<1>0. Anchor(d, s) = a
  BY Anchored
<1>1. /\ n.session = d /\ n.security = s /\ n.close = row.close /\ n.preclose = row.preclose
      /\ n.sparse = (row.kind = "blank") /\ n.trade = Confirms(row)
  BY <1>a DEF Price
<1>2. At(d, Evening) \in Int
  BY DEF At, Evening
<1>3. CASE a # None
  <2>1. Remembered(a, all, s, d)
    BY <1>b, <1>3 DEF PriceChain
  <2>2. n.factor = a.factor + a.close - row.preclose /\ n.start = a.start
    BY <1>a, <1>0, <1>3 DEF Price, FactorAfter
  <2>3. PICK r \in all : /\ r.security = s /\ r.session = d - 1 /\ r.start = a.start
                         /\ Adjusted(r) = a.close + a.factor
    BY <2>1 DEF Remembered
  <2>4. a.close \in Int /\ a.factor \in Int /\ a.start \in Int /\ a.available \in Int
    BY <2>1 DEF Remembered
  <2>5. Placed(r)
    BY <1>b DEF PriceChain
  <2>6. Placed(n)
    BY <1>1, <2>2, <2>3, <2>4, <2>5 DEF Placed, Quoted
  <2>7. Adjusted(n) - Adjusted(r) = n.close - n.preclose
    BY <1>1, <2>2, <2>3, <2>4 DEF Adjusted, Quoted
  <2>8. Continues(n, r)
    BY <1>1, <2>2, <2>3, <2>7 DEF Continues
  <2>9. Later(At(d, Evening), a.available) \in Int
    BY <1>2, <2>4 DEF Later
  <2>10. n \in PriceRow
    BY <1>a, <1>0, <1>2, <1>3, <2>4, <2>9 DEF Price, PriceRow, FactorAfter, Quoted, Confirms
  <2> QED
    BY <1>a, <1>b, <1>1, <2>2, <2>6, <2>8, <2>10 DEF Linked
<1>4. CASE a = None
  <2>1. n.factor = 0 /\ n.start = d
    BY <1>a, <1>0, <1>4 DEF Price
  <2>2. Placed(n)
    BY <1>1, <2>1 DEF Placed, Quoted
  <2>3. n \in PriceRow
    BY <1>a, <1>0, <1>2, <1>4 DEF Price, PriceRow, Quoted, Confirms
  <2> QED
    BY <1>a, <1>b, <1>1, <1>4, <2>1, <2>2, <2>3 DEF Linked
<1> QED
  BY <1>3, <1>4

\* A waiting price that a trade confirms stays where it is.
LEMMA ConfirmedRow ==
    ASSUME NEW p \in PriceRow, NEW row, NEW n \in PriceRow
    PROVE  /\ Confirmed(p, row, n) \in PriceRow /\ Alike(p, Confirmed(p, row, n))
           /\ Confirmed(p, row, n).available >= n.available
<1> DEFINE t == Later(p.available, n.available)
           c == IF row.kind = "amounts" THEN n.available ELSE At(n.session, Evening)
<1>1. p.available \in Int /\ n.available \in Int /\ n.session \in Int
  BY DEF PriceRow
<1>2. t \in Int /\ t >= n.available
  BY <1>1 DEF Later
<1>3. c \in Int
  BY <1>1 DEF At, Evening
<1>4. Confirmed(p, row, n) = [p EXCEPT !.available = t, !.confirmed = c]
  BY DEF Confirmed
<1> HIDE DEF t, c
<1> QED
  BY <1>2, <1>3, <1>4 DEF PriceRow, Alike

LEMMA RangeAppended ==
    ASSUME NEW S, NEW w \in Seq(S), NEW e \in S
    PROVE  Append(w, e) \in Seq(S) /\ Range(Append(w, e)) = Range(w) \cup {e}
<1>1. Append(w, e) \in Seq(S) /\ Len(Append(w, e)) = Len(w) + 1
  OBVIOUS
<1>2. \A i \in 1 .. Len(w) : Append(w, e)[i] = w[i]
  OBVIOUS
<1>3. Append(w, e)[Len(w) + 1] = e
  OBVIOUS
<1>4. DOMAIN w = 1 .. Len(w) /\ DOMAIN Append(w, e) = 1 .. Len(w) + 1 /\ Len(w) \in Nat
  BY <1>1
<1>5. 1 .. Len(w) + 1 = 1 .. Len(w) \cup {Len(w) + 1}
  BY <1>4
<1> QED
  BY <1>1, <1>2, <1>3, <1>4, <1>5 DEF Range

\* What is confirmed is published beside the trade that confirms it.
TradeBehind(rows) ==
    \A p \in rows : p.sparse =>
        \E q \in rows : /\ q.security = p.security /\ q.start = p.start /\ q.session > p.session
                        /\ q.trade /\ p.available >= q.available

\* What is remembered of a price is the place of that price.
StandsFor(h, n, all, s, d) == h # None /\ h.start = n.start /\ Remembered(h, all, s, d)

LEMMA RememberedPrice ==
    ASSUME NEW s, NEW d \in Int, NEW row, NEW n \in PriceRow, n = Price(d, s, row), n.session = d,
           NEW all, n \in all, n.security = s
    PROVE  StandsFor(PreviousAfter(d, s, row, TRUE), n, all, s, d + 1)
<1> DEFINE h == [ordinal |-> d, close |-> n.close, factor |-> n.factor, start |-> n.start, available |-> n.available]
<1>1. PreviousAfter(d, s, row, TRUE) = h
  BY DEF PreviousAfter
<1>2. n.close \in Int /\ n.factor \in Int /\ n.start \in Int /\ n.available \in Int
  BY DEF PriceRow
<1>3. h \in [ordinal : Int, close : Int, factor : Int, start : Int, available : Int]
  BY <1>2
<1>4. h # None
  BY <1>3, RememberedAssumption
<1>5. h.ordinal = d /\ h.close = n.close /\ h.factor = n.factor /\ h.start = n.start /\ h.available = n.available
  OBVIOUS
<1> HIDE DEF h
<1>6. Adjusted(n) = h.close + h.factor
  BY <1>5 DEF Adjusted
<1>7. d + 1 - 1 = d
  OBVIOUS
<1>8. \E p \in all : p.security = s /\ p.session = d + 1 - 1 /\ p.start = h.start /\ Adjusted(p) = h.close + h.factor
  BY <1>5, <1>6, <1>7, Zenon
<1>9. h.ordinal = d + 1 - 1 /\ h.close \in Int /\ h.factor \in Int /\ h.start \in Int /\ h.available \in Int
  BY <1>2, <1>5, <1>7
<1>10. Remembered(h, all, s, d + 1)
  BY <1>8, <1>9 DEF Remembered
<1> QED
  BY <1>1, <1>4, <1>5, <1>10 DEF StandsFor

\* One session of OutcomePriceNormalizer for one security.
Advances(s, table, more, waiting, prev, d) ==
    /\ PriceChain(s, table \cup more, waiting, prev, d + 1)
    /\ more \subseteq PriceRow /\ \A p \in more : p.security = s
    /\ TradeBehind(more)

LEMMA PriceStep ==
    ASSUME NEW s \in Security, NEW d \in Int, NEW table, PriceChain(s, table, pending[s], previous[s], d),
           NEW row, Quoted(row), NEW taken \in BOOLEAN
    PROVE  Advances(s, table, Emitted(d, s, row, taken), PendingAfter(d, s, row, taken),
                    PreviousAfter(d, s, row, taken), d)
<1>m. PICK more : more = Emitted(d, s, row, taken)
  OBVIOUS
<1>q. SUFFICES Advances(s, table, more, PendingAfter(d, s, row, taken), PreviousAfter(d, s, row, taken), d)
  BY <1>m, Zenon
<1> DEFINE w == pending[s]
           all == table \cup Range(w)
           n == Price(d, s, row)
           after == PreviousAfter(d, s, row, taken)
<1>1. Waiting(d, s) = w
  BY Anchored
<1>2. /\ n \in PriceRow /\ Placed(n) /\ n.session = d /\ n.security = s
      /\ n.start = d \/ \E r \in all : Continues(n, r)
      /\ previous[s] # None => n.start = previous[s].start
      /\ n.sparse = (row.kind = "blank") /\ n.trade = Confirms(row)
  <2>1. Linked(n, all, s, d, row)
    BY PriceLinked, Zenon
  <2> HIDE DEF n, all
  <2> QED
    BY <2>1 DEF Linked
<1>3. /\ table \subseteq PriceRow /\ w \in Seq(PriceRow)
      /\ \A p \in all : p.security = s /\ Placed(p) /\ p.session < d
      /\ OneEach(all) /\ Unbroken(all)
      /\ \A p \in table, q \in Range(w) : p.session < q.session
      /\ \A q \in Range(w) : previous[s] # None /\ q.start = previous[s].start
  BY DEF PriceChain
<1>4. Range(w) \subseteq PriceRow
  BY <1>3 DEF Range
<1>5. Emitted(d, s, row, taken) =
        IF ~taken THEN {}
        ELSE IF w # <<>> /\ Confirms(row) THEN {Confirmed(p, row, n) : p \in Range(w)} \cup {n}
        ELSE IF n.sparse \/ w # <<>> THEN {} ELSE {n}
  BY <1>1 DEF Emitted
<1>6. PendingAfter(d, s, row, taken) =
        IF ~taken \/ (w # <<>> /\ Confirms(row)) THEN <<>>
        ELSE IF n.sparse \/ w # <<>> THEN Append(w, n) ELSE <<>>
  BY <1>1 DEF PendingAfter
<1>7. Unbroken(all \cup {n}) /\ OneEach(all \cup {n})
  <2>1. OneEach({n})
    BY DEF OneEach
  <2>2. \A r \in all : Placed(r) /\ r.session < d
    BY <1>3
  <2>3. \A m \in {n} : Placed(m) /\ m.session = d /\ (m.start = d \/ \E r \in all : Continues(m, r))
    BY <1>2
  <2> HIDE DEF all, n
  <2> QED
    BY <1>3, <2>1, <2>2, <2>3, ChainsGrow
<1>8. \A p \in all \cup {n} : p.security = s /\ Placed(p) /\ p.session < d + 1
  BY <1>2, <1>3 DEF Placed
<1>9. <<>> \in Seq(PriceRow) /\ Range(<<>>) = {}
  BY DEF Range
<1>10. taken => \A T : n \in T => after # None /\ after.start = n.start /\ Remembered(after, T, s, d + 1)
  <2> SUFFICES ASSUME taken, NEW T, n \in T
               PROVE  after # None /\ after.start = n.start /\ Remembered(after, T, s, d + 1)
    OBVIOUS
  <2>1. after = PreviousAfter(d, s, row, TRUE)
    OBVIOUS
  <2>2. PICK m : m = n
    OBVIOUS
  <2>3. m \in PriceRow /\ m = Price(d, s, row) /\ m.session = d /\ m.security = s /\ m \in T
    BY <1>2, <2>2
  <2> HIDE DEF n, after
  <2>4. StandsFor(PreviousAfter(d, s, row, TRUE), m, T, s, d + 1)
    BY <2>3, RememberedPrice, Zenon
  <2> QED
    BY <2>1, <2>2, <2>4 DEF StandsFor
<1> HIDE DEF all, n, after, w
<1>11. CASE ~taken
  <2>1. more = {} /\ PendingAfter(d, s, row, taken) = <<>> /\ after = None
    BY <1>m, <1>5, <1>6, <1>11 DEF PreviousAfter, after
  <2>2. Unbroken(table)
    BY <1>3, ChainsEarlier DEF all
  <2>3. OneEach(table)
    BY <1>3 DEF all, OneEach
  <2>4. \A p \in table : p.security = s /\ Placed(p) /\ p.session < d + 1
    BY <1>8 DEF all
  <2>5. table \cup more = table /\ table \cup Range(<<>>) = table
    BY <1>9, <2>1
  <2>6. PriceChain(s, table, <<>>, None, d + 1)
    BY <1>3, <1>9, <2>2, <2>3, <2>4, <2>5 DEF PriceChain
  <2> QED
    BY <2>1, <2>5, <2>6 DEF TradeBehind, Advances, after
<1>12. CASE taken /\ w # <<>> /\ Confirms(row)
  <2> DEFINE set == {Confirmed(p, row, n) : p \in Range(w)}
  <2>1. more = set \cup {n} /\ PendingAfter(d, s, row, taken) = <<>>
    BY <1>m, <1>5, <1>6, <1>12
  <2>2. \A p \in Range(w) : /\ Confirmed(p, row, n) \in PriceRow /\ Alike(p, Confirmed(p, row, n))
                            /\ Confirmed(p, row, n).available >= n.available
    BY <1>2, <1>4, ConfirmedRow
  <2>3. \A b \in table \cup more : \E a \in all \cup {n} : Alike(a, b)
    <3>1. \A b \in table \cup {n} : Alike(b, b)
      BY DEF Alike
    <3> QED
      BY <2>1, <2>2, <3>1 DEF all
  <2>4. \A a \in all \cup {n} : \E b \in table \cup more : Alike(a, b)
    <3>1. \A b \in table \cup {n} : Alike(b, b)
      BY DEF Alike
    <3> QED
      BY <2>1, <2>2, <3>1 DEF all
  <2>5. Unbroken(table \cup more)
    BY <1>7, <2>3, <2>4, ChainsAlike
  <2>6. \A p \in table \cup more : p.security = s /\ Placed(p) /\ p.session < d + 1
    BY <1>8, <2>3 DEF Alike, Placed
  <2>7. OneEach(table \cup more)
    <3> SUFFICES ASSUME NEW a \in table \cup more, NEW b \in table \cup more,
                        a.security = b.security, a.session = b.session
                 PROVE  a = b
      BY DEF OneEach
    <3>1. \A p \in table : p.session < d
      BY <1>3 DEF all
    <3>2. \A p \in set : \E q \in Range(w) : p = Confirmed(q, row, n) /\ p.session = q.session /\ p.security = q.security
      BY <2>2 DEF Alike
    <3>3. \A p \in set : p.session < d /\ \A q \in table : q.session < p.session
      BY <1>3, <3>2 DEF all
    <3>4. CASE a \in table
      <4>1. a.session < d /\ b \in table \cup set \cup {n} /\ a.session \in Int
        BY <1>3, <3>1, <3>4, <2>1 DEF all, Placed
      <4>2. b \in table
        BY <4>1, <1>2, <3>3, <3>4
      <4> QED
        BY <4>2, <3>4, <1>3 DEF OneEach, all
    <3>5. CASE a \in set
      <4>1. a.session < d /\ b \in table \cup set \cup {n} /\ a.session \in Int
        BY <1>3, <3>2, <3>3, <3>5, <2>1 DEF all, Placed
      <4>2. b \in set
        BY <4>1, <1>2, <3>3, <3>5
      <4>3. PICK p \in Range(w) : a = Confirmed(p, row, n) /\ a.session = p.session /\ a.security = p.security
        BY <3>2, <3>5
      <4>4. PICK q \in Range(w) : b = Confirmed(q, row, n) /\ b.session = q.session /\ b.security = q.security
        BY <3>2, <4>2
      <4>5. p = q
        BY <1>3, <4>3, <4>4 DEF OneEach, all
      <4> QED
        BY <4>3, <4>4, <4>5
    <3>6. CASE a = n
      <4>1. b \in table \cup set \cup {n} /\ b.session = d
        BY <1>2, <3>6, <2>1
      <4>2. b \notin table /\ b \notin set
        BY <4>1, <1>2, <3>1, <3>3
      <4> QED
        BY <4>1, <4>2, <3>6
    <3> QED
      BY <2>1, <3>4, <3>5, <3>6
  <2>8. more \subseteq PriceRow
    BY <1>2, <2>1, <2>2
  <2>9. after # None /\ Remembered(after, table \cup more, s, d + 1)
    BY <1>10, <1>12, <2>1
  <2>10. table \cup more \cup Range(<<>>) = table \cup more
    BY <1>9
  <2>11. PriceChain(s, table \cup more, <<>>, after, d + 1)
    BY <1>3, <1>9, <2>5, <2>6, <2>7, <2>8, <2>9, <2>10 DEF PriceChain
  <2>12. TradeBehind(more)
    <3>1. n.trade /\ ~n.sparse
      BY <1>2, <1>12 DEF Confirms
    <3>2. ASSUME NEW p \in set
          PROVE  /\ n.security = p.security /\ n.start = p.start /\ n.session > p.session
                 /\ p.available >= n.available
      <4>1. PICK q \in Range(w) : p = Confirmed(q, row, n)
        OBVIOUS
      <4>2. Alike(q, p) /\ p.available >= n.available
        BY <4>1, <2>2
      <4>3. q.security = s /\ q.session < d /\ previous[s] # None /\ q.start = previous[s].start /\ q.session \in Int
        BY <1>3 DEF all, Placed
      <4> QED
        BY <1>2, <4>2, <4>3 DEF Alike
    <3> QED
      BY <2>1, <3>1, <3>2 DEF TradeBehind
  <2> QED
    BY <2>1, <2>6, <2>8, <2>11, <2>12 DEF Advances, after
<1>13. CASE taken /\ ~(w # <<>> /\ Confirms(row)) /\ (n.sparse \/ w # <<>>)
  <2>1. more = {} /\ PendingAfter(d, s, row, taken) = Append(w, n)
    BY <1>m, <1>5, <1>6, <1>13
  <2>2. Append(w, n) \in Seq(PriceRow) /\ Range(Append(w, n)) = Range(w) \cup {n}
    BY <1>2, <1>3, RangeAppended
  <2>3. table \cup more \cup Range(Append(w, n)) = all \cup {n} /\ table \cup more = table
    BY <2>1, <2>2 DEF all
  <2>4. after # None /\ after.start = n.start /\ Remembered(after, all \cup {n}, s, d + 1)
    BY <1>10, <1>13
  <2>5. \A p \in table, q \in Range(w) \cup {n} : p.session < q.session
    BY <1>2, <1>3 DEF all
  <2>6. \A q \in Range(w) \cup {n} : q.start = after.start
    BY <1>2, <1>3, <2>4
  <2>7. PriceChain(s, table \cup more, Append(w, n), after, d + 1)
    BY <1>3, <1>7, <1>8, <2>2, <2>3, <2>4, <2>5, <2>6 DEF PriceChain
  <2> QED
    BY <2>1, <2>7 DEF TradeBehind, Advances, after
<1>14. CASE taken /\ ~(w # <<>> /\ Confirms(row)) /\ ~(n.sparse \/ w # <<>>)
  <2>1. more = {n} /\ PendingAfter(d, s, row, taken) = <<>>
    BY <1>m, <1>5, <1>6, <1>14
  <2>2. w = <<>>
    BY <1>14
  <2>3. all = table /\ table \cup more = all \cup {n} /\ all \cup {n} \cup Range(<<>>) = all \cup {n}
    BY <1>9, <2>1, <2>2 DEF all
  <2>4. after # None /\ Remembered(after, all \cup {n}, s, d + 1)
    BY <1>10, <1>14
  <2>5. PriceChain(s, all \cup {n}, <<>>, after, d + 1)
    BY <1>2, <1>3, <1>7, <1>8, <1>9, <2>3, <2>4 DEF PriceChain
  <2>6. ~n.sparse
    BY <1>14
  <2> QED
    BY <1>2, <2>1, <2>3, <2>5, <2>6 DEF TradeBehind, Advances, after
<1> QED
  BY <1>11, <1>12, <1>13, <1>14

\* Prices that no trade confirmed are dropped without a hole.
LEMMA PriceDropped ==
    ASSUME NEW s, NEW table, NEW waiting, NEW prev, NEW d, PriceChain(s, table, waiting, prev, d)
    PROVE  PriceChain(s, table, <<>>, None, d) /\ Unbroken(table)
<1>1. \A r \in table \cup Range(waiting) : Placed(r)
  BY DEF PriceChain
<1>2. Unbroken(table)
  BY <1>1, ChainsEarlier DEF PriceChain
<1>3. OneEach(table)
  BY DEF PriceChain, OneEach
<1>4. <<>> \in Seq(PriceRow) /\ Range(<<>>) = {}
  BY DEF Range
<1>5. table \cup Range(<<>>) = table
  BY <1>4
<1> QED
  BY <1>2, <1>3, <1>4, <1>5 DEF PriceChain

-----------------------------------------------------------------------------
(* The builder. *)

MarketInvariant ==
    /\ manifest \in Manifests /\ ordinal \in Int
    /\ BarsChained
    /\ PricesChained
    /\ OpensWhole

LEMMA MarketBegins == MarketInit => MarketInvariant
<1> SUFFICES ASSUME MarketInit PROVE MarketInvariant
  OBVIOUS
<1>1. /\ manifest \in Manifests /\ ordinal = 0 /\ bars = {} /\ prices = {} /\ disk = None
      /\ reference = [s \in Security |-> None] /\ previous = [s \in Security |-> None]
      /\ pending = [s \in Security |-> <<>>]
  BY DEF MarketInit, ChainsInit
<1>2. BarsChained
  BY <1>1 DEF BarsChained, OneEach, Unbroken, HeldBar
<1>3. <<>> \in Seq(PriceRow) /\ Range(<<>>) = {}
  BY DEF Range
<1>4. ASSUME NEW s \in Security PROVE PriceChain(s, Published(s), pending[s], previous[s], ordinal)
  <2>1. Published(s) = {} /\ pending[s] = <<>> /\ previous[s] = None
    BY <1>1 DEF Published
  <2>2. {} \cup Range(<<>>) = {}
    BY <1>3
  <2> QED
    BY <1>3, <2>1, <2>2 DEF PriceChain, OneEach, Unbroken
<1>5. PricesChained
  BY <1>1, <1>4 DEF PricesChained, SparseConfirmed
<1>6. OpensWhole
  BY <1>1 DEF OpensWhole, Opens
<1> QED
  BY <1>1, <1>2, <1>5, <1>6 DEF MarketInvariant

\* One session of both normalisers.
LEMMA DayKeeps ==
    ASSUME manifest \in Manifests, ordinal \in Int, BarsChained, PricesChained,
           NEW raw, Provided(raw), NormaliseDay(raw)
    PROVE  manifest' \in Manifests /\ ordinal' \in Int /\ BarsChained' /\ PricesChained'
<1>1. PICK d : d = ordinal
  OBVIOUS
<1>2. PICK rows : rows = [s \in Security |-> RowRead(d, s, raw)]
  OBVIOUS
<1>3. PICK taken : taken = DayBars(d, rows)
  OBVIOUS
<1>4. PICK priced : priced = [s \in Security |-> PriceTaken(d, s, rows[s], \E b \in taken : b.security = s)]
  OBVIOUS
<1>5. /\ ordinal' = d + 1
      /\ reference' = [s \in Security |-> Held(d, s, rows[s], taken)]
      /\ bars' = bars \cup taken
      /\ prices' = prices \cup UNION {Emitted(d, s, rows[s], priced[s]) : s \in Security}
      /\ pending' = [s \in Security |-> PendingAfter(d, s, rows[s], priced[s])]
      /\ previous' = [s \in Security |-> PreviousAfter(d, s, rows[s], priced[s])]
      /\ manifest' = manifest
  BY <1>1, <1>2, <1>3, <1>4 DEF NormaliseDay
<1>6. \A s \in Security : Quoted(rows[s])
  BY <1>2, RowQuoted
<1>7. BarsChained'
  <2>1. /\ OneEach(bars \cup taken) /\ Unbroken(bars \cup taken)
        /\ \A b \in bars \cup taken : Placed(b) /\ b.session < d + 1
        /\ \A s \in Security : HeldBar(Held(d, s, rows[s], taken), bars \cup taken, s, d + 1)
    BY <1>1, <1>3, <1>6, BarsStep
  <2> QED
    BY <1>5, <2>1 DEF BarsChained
<1>8. \A s \in Security : priced[s] \in BOOLEAN
  BY <1>4 DEF PriceTaken
<1>9. ASSUME NEW s \in Security
      PROVE  /\ PriceChain(s, Published(s) \cup Emitted(d, s, rows[s], priced[s]), pending'[s], previous'[s], d + 1)
             /\ Emitted(d, s, rows[s], priced[s]) \subseteq PriceRow
             /\ \A p \in Emitted(d, s, rows[s], priced[s]) : p.security = s
             /\ TradeBehind(Emitted(d, s, rows[s], priced[s]))
  <2>1. PriceChain(s, Published(s), pending[s], previous[s], d)
    BY <1>1 DEF PricesChained
  <2>2. Quoted(rows[s]) /\ priced[s] \in BOOLEAN /\ d \in Int
    BY <1>1, <1>6, <1>8
  <2>3. pending'[s] = PendingAfter(d, s, rows[s], priced[s]) /\ previous'[s] = PreviousAfter(d, s, rows[s], priced[s])
    BY <1>5
  <2>4. Advances(s, Published(s), Emitted(d, s, rows[s], priced[s]), PendingAfter(d, s, rows[s], priced[s]),
                 PreviousAfter(d, s, rows[s], priced[s]), d)
    BY <2>1, <2>2, PriceStep, Zenon
  <2> QED
    BY <2>3, <2>4 DEF Advances
<1>10. \A p \in prices' : p \in prices \/ \E s \in Security : p \in Emitted(d, s, rows[s], priced[s])
  BY <1>5
<1>11. ASSUME NEW s \in Security PROVE Published(s)' = Published(s) \cup Emitted(d, s, rows[s], priced[s])
  <2>1. Published(s)' = {p \in prices' : p.security = s}
    BY DEF Published
  <2>2. \A p \in prices' : p.security = s => p \in Published(s) \cup Emitted(d, s, rows[s], priced[s])
    BY <1>9, <1>10 DEF Published
  <2>3. \A p \in Emitted(d, s, rows[s], priced[s]) : p \in prices' /\ p.security = s
    BY <1>5, <1>9
  <2>4. Published(s) \subseteq prices'
    BY <1>5 DEF Published
  <2> QED
    BY <2>1, <2>2, <2>3, <2>4 DEF Published
<1>12. prices' \subseteq PriceRow
  BY <1>9, <1>10 DEF PricesChained
<1>13. SparseConfirmed'
  <2> SUFFICES ASSUME NEW p \in prices', p.sparse
               PROVE  \E q \in prices' : /\ q.security = p.security /\ q.start = p.start
                                         /\ q.session > p.session /\ q.trade /\ p.available >= q.available
    BY DEF SparseConfirmed
  <2>1. CASE p \in prices
    BY <2>1, <1>5 DEF PricesChained, SparseConfirmed
  <2>2. CASE p \notin prices
    <3>1. PICK s \in Security : p \in Emitted(d, s, rows[s], priced[s])
      BY <1>10, <2>2
    <3>2. PICK q \in Emitted(d, s, rows[s], priced[s]) :
             /\ q.security = p.security /\ q.start = p.start
             /\ q.session > p.session /\ q.trade /\ p.available >= q.available
      BY <1>9, <3>1 DEF TradeBehind
    <3>3. q \in prices'
      BY <1>5, <3>2
    <3> QED
      BY <3>2, <3>3
  <2> QED
    BY <2>1, <2>2
<1>14. PricesChained'
  <2>1. ASSUME NEW s \in Security PROVE PriceChain(s, Published(s)', pending'[s], previous'[s], ordinal')
    BY <1>5, <1>9, <1>11, Zenon
  <2> QED
    BY <1>12, <1>13, <2>1 DEF PricesChained
<1> QED
  BY <1>1, <1>5, <1>7, <1>14

LEMMA MarketSteps ==
    ASSUME MarketInvariant, [MarketNext]_marketVars
    PROVE  MarketInvariant'
<1>1. CASE StartBuild
  <2>1. UNCHANGED chains /\ disk' = NoRows
    BY <1>1 DEF StartBuild, Untouched
  <2>2. ~disk'.metadata
    BY <2>1 DEF NoRows
  <2>3. BarsChained' /\ PricesChained' /\ manifest' \in Manifests /\ ordinal' \in Int
    BY <2>1 DEF MarketInvariant, BarsChained, PricesChained, SparseConfirmed, Published, chains
  <2> QED
    BY <2>2, <2>3 DEF MarketInvariant, OpensWhole, Opens
<1>2. CASE BuildDay
  <2>1. phase = "building" /\ phase' = "building"
    BY <1>2 DEF BuildDay
  <2>2. PICK raw \in [Security -> UNION {Raw[s] : s \in Security}] :
           (\A s \in Security : raw[s] \in Raw[s]) /\ NormaliseDay(raw)
    BY <1>2 DEF BuildDay
  <2>3. Provided(raw)
    BY <2>2, RawAssumption DEF Provided
  <2>4. manifest' \in Manifests /\ ordinal' \in Int /\ BarsChained' /\ PricesChained'
    BY <2>2, <2>3, DayKeeps DEF MarketInvariant
  <2>5. ~Opens
    BY <2>1 DEF MarketInvariant, OpensWhole
  <2>6. disk' = disk \/ ~disk'.metadata
    BY <1>2 DEF BuildDay
  <2>7. ~Opens'
    BY <2>5, <2>6 DEF Opens
  <2> QED
    BY <2>4, <2>7 DEF MarketInvariant, OpensWhole
<1>3. CASE StopBuild
  <2>1. UNCHANGED chains /\ disk' = disk /\ phase = "building"
    BY <1>3 DEF StopBuild, Untouched
  <2>2. BarsChained' /\ PricesChained' /\ manifest' \in Manifests /\ ordinal' \in Int
    BY <2>1 DEF MarketInvariant, BarsChained, PricesChained, SparseConfirmed, Published, chains
  <2>3. ~Opens'
    BY <2>1 DEF MarketInvariant, OpensWhole, Opens
  <2> QED
    BY <2>2, <2>3 DEF MarketInvariant, OpensWhole
<1>4. CASE FinishBuild
  <2>1. /\ UNCHANGED <<manifest, ordinal, reference, bars, prices, pools, reviewed>>
        /\ pending' = [s \in Security |-> <<>>] /\ previous' = [s \in Security |-> None]
        /\ ordinal = Sessions /\ AllReviewed /\ phase' = "done"
    BY <1>4 DEF FinishBuild, FinishPrices
  <2>2. disk' = [sessions |-> ordinal, bars |-> bars, prices |-> prices, pools |-> pools,
                 exits |-> Exits, metadata |-> TRUE]
    BY <1>4 DEF FinishBuild
  <2>3. BarsChained' /\ manifest' \in Manifests /\ ordinal' \in Int
    BY <2>1 DEF MarketInvariant, BarsChained
  <2>4. PricesChained'
    <3>1. SparseConfirmed' /\ prices' \subseteq PriceRow
      BY <2>1 DEF MarketInvariant, PricesChained, SparseConfirmed
    <3>2. ASSUME NEW s \in Security PROVE PriceChain(s, Published(s)', pending'[s], previous'[s], ordinal')
      <4>1. PriceChain(s, Published(s), pending[s], previous[s], ordinal)
        BY DEF MarketInvariant, PricesChained
      <4>2. PriceChain(s, Published(s), <<>>, None, ordinal)
        BY <4>1, PriceDropped, Zenon
      <4>3. Published(s)' = Published(s) /\ pending'[s] = <<>> /\ previous'[s] = None /\ ordinal' = ordinal
        BY <2>1 DEF Published
      <4> QED
        BY <4>2, <4>3, Zenon
    <3> QED
      BY <3>1, <3>2 DEF PricesChained
  <2>5. disk'.sessions = Sessions /\ disk'.bars = bars' /\ disk'.prices = prices'
    BY <2>1, <2>2
  <2>6. AllReviewed'
    BY <2>1 DEF AllReviewed
  <2>7. OpensWhole'
    BY <2>1, <2>5, <2>6 DEF OpensWhole
  <2> QED
    BY <2>3, <2>4, <2>7 DEF MarketInvariant
<1>5. CASE UNCHANGED marketVars
  <2>1. UNCHANGED chains /\ disk' = disk /\ phase' = phase
    BY <1>5 DEF marketVars
  <2>2. BarsChained' /\ PricesChained' /\ manifest' \in Manifests /\ ordinal' \in Int
    BY <2>1 DEF MarketInvariant, BarsChained, PricesChained, SparseConfirmed, Published, chains
  <2>3. OpensWhole'
    BY <2>1 DEF MarketInvariant, OpensWhole, Opens, AllReviewed, chains
  <2> QED
    BY <2>2, <2>3 DEF MarketInvariant
<1> QED
  BY <1>1, <1>2, <1>3, <1>4, <1>5 DEF MarketNext

LEMMA MarketAlways == MarketSpec => []MarketInvariant
<1>1. MarketInvariant /\ [MarketNext]_marketVars => MarketInvariant'
  BY MarketSteps
<1> QED
  BY <1>1, MarketBegins, PTL DEF MarketSpec

\* The chains of prices have no hole over suspensions, changed references and
\* reviewed rows, and a halted price is published once a later trade of its
\* chain confirmed it, and no sooner (build_store over both normalisers).
THEOREM ChainsAlwaysSound == MarketSpec => []ChainsSound
<1>1. MarketInvariant => ChainsSound
  <2> SUFFICES ASSUME MarketInvariant PROVE ChainsSound
    OBVIOUS
  <2>1. Unbroken(bars) /\ SparseConfirmed /\ prices \subseteq PriceRow
    BY DEF MarketInvariant, BarsChained, PricesChained
  <2>2. ASSUME NEW s \in Security PROVE Unbroken(Published(s))
    <3>1. PriceChain(s, Published(s), pending[s], previous[s], ordinal)
      BY DEF MarketInvariant, PricesChained
    <3> QED
      BY <3>1, PriceDropped, Zenon
  <2>3. ASSUME NEW r \in prices, NEW q \in prices,
               r.security = q.security, r.start = q.start, r.session < q.session
        PROVE  \E n \in Of(prices, r, r.session + 1) : Adjusted(n) - Adjusted(r) = n.close - n.preclose
    <3>1. r.security \in Security
      BY <2>1 DEF PriceRow
    <3>2. r \in Published(r.security) /\ q \in Published(r.security) /\ Published(r.security) \subseteq prices
      BY <2>3 DEF Published
    <3>3. PICK n \in Of(Published(r.security), r, r.session + 1) : Adjusted(n) - Adjusted(r) = n.close - n.preclose
      BY <2>2, <2>3, <3>1, <3>2 DEF Unbroken
    <3> QED
      BY <3>2, <3>3 DEF Of
  <2>4. Unbroken(prices)
    BY <2>3 DEF Unbroken
  <2> QED
    BY <2>1, <2>4 DEF ChainsSound, ChainsUnbroken
<1> QED
  BY <1>1, MarketAlways, PTL

-----------------------------------------------------------------------------
(* The readers. *)

\* On a day whose horizon ends in the calendar, the rows that a label is made
\* of are among those that both readers are given.
LEMMA SlicesAgree ==
    ASSUME NEW s, NEW d \in Session, d + Horizon < Sessions,
           NEW e \in {d, d + 1, d + Horizon}
    PROVE  /\ RowOf(ReadLabelDay(d).prices, s, e) = RowOf(ReadDay(d).outcomes.prices, s, e)
           /\ RowOf(ReadLabelDay(d).exits, s, d + Horizon) = RowOf(ReadDay(d).outcomes.exits, s, d + Horizon)
<1> DEFINE few == {d, LastOf(d)} \cup ({d + 1} \cap Session)
           all == d .. LastOf(d)
<1>1. /\ Sessions \in Nat /\ Horizon \in Nat /\ Horizon >= 1 /\ d \in Nat /\ d < Sessions
      /\ LastOf(d) = d + Horizon /\ d + 1 \in Session
  BY SessionsAssumption, HorizonAssumption DEF Session, LastOf
<1>2. \A f \in {d, d + 1, d + Horizon} : f \in few /\ f \in all
  BY <1>1
<1>3. ReadLabelDay(d) = Slice(d, few) /\ ReadDay(d).outcomes = Slice(d, all)
  BY DEF ReadLabelDay, ReadDay
<1>4. /\ Slice(d, few).prices = OutcomeSlice(d, few) /\ Slice(d, all).prices = OutcomeSlice(d, all)
      /\ Slice(d, few).exits = ExitSlice(d, few) /\ Slice(d, all).exits = ExitSlice(d, all)
  BY DEF Slice
<1> HIDE DEF few, all
<1>5. RowOf(OutcomeSlice(d, few), s, e) = RowOf(OutcomeSlice(d, all), s, e)
  BY <1>2 DEF RowOf, OutcomeSlice
<1>6. RowOf(ExitSlice(d, few), s, d + Horizon) = RowOf(ExitSlice(d, all), s, d + Horizon)
  BY <1>2 DEF RowOf, ExitSlice
<1> QED
  BY <1>3, <1>4, <1>5, <1>6

\* What a reader of features alone is given of the bars.
LEMMA FeaturesAgree ==
    ASSUME NEW d \in Session
    PROVE  /\ ReadFeatureDay(d).pools = ReadDay(d).inputs.pools
           /\ ReadFeatureDay(d).bars = {b \in ReadDay(d).inputs.bars : b.session <= d}
<1>1. /\ d \in Int /\ LastOf(d) \in Int /\ LastOf(d) >= d /\ d - Lookback \in Int
  BY SessionsAssumption, HorizonAssumption DEF Session, LastOf
<1>2. ReadFeatureDay(d) = FeatureInputs(d, d) /\ ReadDay(d).inputs = FeatureInputs(d, LastOf(d))
  BY DEF ReadFeatureDay, ReadDay
<1>3. FeatureInputs(d, d).pools = FeatureInputs(d, LastOf(d)).pools
  BY DEF FeatureInputs
<1>4. FeatureInputs(d, d).bars = {b \in FeatureInputs(d, LastOf(d)).bars : b.session <= d}
  <2>1. \A b : b.session \in (d - Lookback) .. d <=> b.session \in (d - Lookback) .. LastOf(d) /\ b.session <= d
    BY <1>1
  <2>2. \A b : b.session \in (d - Lookback) .. d => ~(b.session > d)
    BY <1>1
  <2>3. \A l : FeatureInputs(d, l).bars =
                 {b \in disk.bars : /\ b.session \in (d - Lookback) .. l
                                    /\ b.session > d => b.start \in ChainAt(disk.bars, b.security, d)}
    BY DEF FeatureInputs
  <2> QED
    BY <2>1, <2>2, <2>3
<1> QED
  BY <1>2, <1>3, <1>4

LEMMA ObservationsAgree ==
    ASSUME NEW d \in Session, NEW s
    PROVE  Observation(ReadLabelDay(d), s, d) = Observation(ReadDay(d).outcomes, s, d)
<1>1. CASE d + Horizon >= Sessions
  BY <1>1 DEF Observation
<1>2. CASE ~(d + Horizon >= Sessions)
  <2>1. d + Horizon < Sessions
    BY <1>2, SessionsAssumption, HorizonAssumption DEF Session
  <2>2. PICK few : few = ReadLabelDay(d)
    OBVIOUS
  <2>3. PICK all : all = ReadDay(d).outcomes
    OBVIOUS
  <2>4. \A e \in {d, d + 1, d + Horizon} : RowOf(few.prices, s, e) = RowOf(all.prices, s, e)
    BY <2>1, <2>2, <2>3, SlicesAgree, Zenon
  <2>5. RowOf(few.exits, s, d + Horizon) = RowOf(all.exits, s, d + Horizon)
    BY <2>1, <2>2, <2>3, SlicesAgree, Zenon
  <2>6. Endings(few, s, d + Horizon) = Endings(all, s, d + Horizon)
    BY <2>4, <2>5 DEF Endings
  <2>7. RowOf(few.prices, s, d) = RowOf(all.prices, s, d) /\ RowOf(few.prices, s, d + 1) = RowOf(all.prices, s, d + 1)
    BY <2>4
  <2>8. Observation(few, s, d) = Observation(all, s, d)
    BY <2>6, <2>7, Zenon DEF Observation
  <2> QED
    BY <2>2, <2>3, <2>8
<1> QED
  BY <1>1, <1>2

\* A store that opens is one whose build was finished, whatever was committed
\* before it stopped, and its three readers agree about a scoring day
\* (MarketStore.read_day, read_feature_day, read_label_day).
THEOREM StoreAlwaysSound == MarketSpec => []StoreSound
<1>1. ReadersAgree
  BY FeaturesAgree, ObservationsAgree, Zenon DEF ReadersAgree
<1>2. MarketInvariant => StoreSound
  BY <1>1 DEF MarketInvariant, StoreSound
<1> QED
  BY <1>2, MarketAlways, PTL
=============================================================================
