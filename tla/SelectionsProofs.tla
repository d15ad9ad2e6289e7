-------------------------- MODULE SelectionsProofs --------------------------
(***************************************************************************)
(* Induction over numbers and over sequences, and what Those selects.      *)
(*                                                                         *)
(* An induction theorem takes a predicate, which the provers cannot give a *)
(* value.  Here the predicate is the set of the values that have it, and   *)
(* the induction a consequence of WFMin: a set of numbers has a least one. *)
(***************************************************************************)
EXTENDS Selections, SequencesExt, SequenceTheorems, WellFoundedInduction, TLAPS

\* A set that has 0 and the successor of each of its numbers has them all.
LEMMA NatSetInduction ==
    ASSUME NEW T, 0 \in T, \A n \in Nat : n \in T => n + 1 \in T
    PROVE  Nat \subseteq T
<1> DEFINE less == OpToRel(<, Nat)
           left == Nat \ T
<1>1. IsWellFoundedOn(less, Nat)
  BY NatLessThanWellFounded
<1>2. ASSUME left # {} PROVE FALSE
  <2>1. \E x \in left : \A y \in left : ~ (<<y, x>> \in less)
    <3> HIDE DEF less
    <3> QED
      BY <1>1, <1>2, WFMin
  <2>2. PICK x \in left : \A y \in left : ~ (<<y, x>> \in less)
    BY <2>1
  <2>3. \A y \in left : ~(y < x)
    BY <2>2 DEF OpToRel
  <2>4. x # 0 /\ x \in Nat /\ x - 1 \in Nat /\ x - 1 < x
    OBVIOUS
  <2>5. x - 1 \in T
    BY <2>3, <2>4
  <2> QED
    BY <2>4, <2>5
<1> QED
  BY <1>2

\* A set that has the empty sequence, and with a sequence every longer by one.
LEMMA SeqSetInduction ==
    ASSUME NEW X, NEW P, <<>> \in P,
           \A s \in Seq(X) : \A e \in X : s \in P => Append(s, e) \in P
    PROVE  Seq(X) \subseteq P
<1> DEFINE T == {n \in Nat : \A s \in Seq(X) : Len(s) = n => s \in P}
<1>1. 0 \in T
  <2>1. \A s \in Seq(X) : Len(s) = 0 => s = <<>>
    OBVIOUS
  <2> QED
    BY <2>1
<1>2. ASSUME NEW n \in Nat, n \in T PROVE n + 1 \in T
  <2>1. ASSUME NEW s \in Seq(X), Len(s) = n + 1 PROVE s \in P
    <3>1. s # <<>>
      BY <2>1
    <3>2. PICK front \in Seq(X), e \in X : s = Append(front, e)
      BY <3>1, SequenceEmptyOrAppend
    <3>3. Len(front) = n
      BY <2>1, <3>2
    <3>4. front \in P
      BY <1>2, <3>3
    <3> QED
      BY <3>2, <3>4
  <2> QED
    BY <2>1
<1> HIDE DEF T
<1>3. Nat \subseteq T
  BY <1>1, <1>2, NatSetInduction
<1>4. \A s \in Seq(X) : Len(s) \in Nat
  OBVIOUS
<1> QED
  BY <1>3, <1>4 DEF T

---------------------------------------------------------------------------
(* The recursion of Those. *)

\* f is what Those selects of every front of s, to the one of length m.
Selects(f, s, S, m) ==
    f = [n \in 0 .. m |->
            IF n = 0 THEN <<>>
            ELSE IF s[n] \in S THEN Append(f[n - 1], s[n]) ELSE f[n - 1]]

\* The function by which Those is defined exists.
LEMMA SelectsExists ==
    ASSUME NEW s, NEW S, NEW m \in Nat
    PROVE  \E f : Selects(f, s, S, m)
<1> DEFINE T == {n \in Nat : \E f : Selects(f, s, S, n)}
<1>1. 0 \in T
  <2>1. Selects([n \in 0 .. 0 |-> <<>>], s, S, 0)
    BY DEF Selects
  <2> QED
    BY <2>1
<1>2. ASSUME NEW n \in Nat, n \in T PROVE n + 1 \in T
  <2>1. PICK f : Selects(f, s, S, n)
    BY <1>2
  <2> DEFINE g == [k \in 0 .. n + 1 |->
                      IF k = n + 1 THEN IF s[k] \in S THEN Append(f[n], s[k]) ELSE f[n] ELSE f[k]]
  <2>2. Selects(g, s, S, n + 1)
    <3>1. g = [k \in 0 .. n + 1 |-> g[k]]
      OBVIOUS
    <3>2. ASSUME NEW k \in 0 .. n + 1
          PROVE  g[k] = IF k = 0 THEN <<>>
                        ELSE IF s[k] \in S THEN Append(g[k - 1], s[k]) ELSE g[k - 1]
      <4>1. CASE k = n + 1
        BY <4>1
      <4>2. CASE k = 0
        BY <2>1, <4>2 DEF Selects
      <4>3. CASE k \in 1 .. n
        <5>1. g[k] = f[k] /\ g[k - 1] = f[k - 1]
          BY <4>3
        <5>2. \A i \in 0 .. n : f[i] = IF i = 0 THEN <<>>
                                       ELSE IF s[i] \in S THEN Append(f[i - 1], s[i]) ELSE f[i - 1]
          BY <2>1, Zenon DEF Selects
        <5>3. k \in 0 .. n /\ k # 0
          BY <4>3
        <5>4. f[k] = IF s[k] \in S THEN Append(f[k - 1], s[k]) ELSE f[k - 1]
          BY <5>2, <5>3, Zenon
        <5> HIDE DEF g
        <5> QED
          BY <5>1, <5>3, <5>4
      <4> QED
        BY <4>1, <4>2, <4>3
    <3> HIDE DEF g
    <3> QED
      BY <3>1, <3>2 DEF Selects
  <2> QED
    BY <2>2
<1> HIDE DEF T
<1>3. Nat \subseteq T
  BY <1>1, <1>2, NatSetInduction
<1> QED
  BY <1>3 DEF T

\* Those satisfies the equations of its recursion.
LEMMA ThoseSelects ==
    ASSUME NEW s, NEW S, Len(s) \in Nat
    PROVE  \E f : Selects(f, s, S, Len(s)) /\ Those(s, S) = f[Len(s)]
<1> DEFINE those == CHOOSE f : f = [n \in 0 .. Len(s) |->
                        IF n = 0 THEN <<>>
                        ELSE IF s[n] \in S THEN Append(f[n - 1], s[n]) ELSE f[n - 1]]
<1>1. \E f : Selects(f, s, S, Len(s))
  BY SelectsExists
<1>2. Selects(those, s, S, Len(s))
  BY <1>1, Zenon DEF Selects
<1>3. Those(s, S) = those[Len(s)]
  BY DEF Those
<1> HIDE DEF those
<1> QED
  BY <1>2, <1>3

\* What is selected of a front does not depend on what comes after it.
LEMMA SelectsFront ==
    ASSUME NEW s, NEW t, NEW S, NEW m \in Nat, NEW k \in Nat, m <= k,
           \A i \in 1 .. m : s[i] = t[i],
           NEW f, Selects(f, s, S, m), NEW g, Selects(g, t, S, k)
    PROVE  \A n \in 0 .. m : f[n] = g[n]
<1> DEFINE T == {n \in Nat : n <= m => f[n] = g[n]}
<1>1. \A i \in 0 .. m : f[i] = IF i = 0 THEN <<>>
                               ELSE IF s[i] \in S THEN Append(f[i - 1], s[i]) ELSE f[i - 1]
  BY Zenon DEF Selects
<1>2. \A i \in 0 .. k : g[i] = IF i = 0 THEN <<>>
                               ELSE IF t[i] \in S THEN Append(g[i - 1], t[i]) ELSE g[i - 1]
  BY Zenon DEF Selects
<1>3. 0 \in T
  <2>1. 0 \in 0 .. m /\ 0 \in 0 .. k
    OBVIOUS
  <2> QED
    BY <1>1, <1>2, <2>1
<1>4. ASSUME NEW n \in Nat, n \in T PROVE n + 1 \in T
  <2>1. SUFFICES ASSUME n + 1 <= m PROVE f[n + 1] = g[n + 1]
    OBVIOUS
  <2>2. n + 1 \in 0 .. m /\ n + 1 \in 0 .. k /\ n + 1 # 0 /\ (n + 1) - 1 = n /\ n + 1 \in 1 .. m
    BY <2>1
  <2>3. f[n] = g[n] /\ s[n + 1] = t[n + 1]
    BY <1>4, <2>1, <2>2
  <2>4. f[n + 1] = IF s[n + 1] \in S THEN Append(f[n], s[n + 1]) ELSE f[n]
    BY <1>1, <2>2
  <2>5. g[n + 1] = IF t[n + 1] \in S THEN Append(g[n], t[n + 1]) ELSE g[n]
    BY <1>2, <2>2
  <2> QED
    BY <2>3, <2>4, <2>5
<1> HIDE DEF T
<1>5. Nat \subseteq T
  BY <1>3, <1>4, NatSetInduction
<1> QED
  BY <1>5 DEF T

\* Nothing is selected of nothing.
LEMMA ThoseEmpty ==
    ASSUME NEW S
    PROVE  Those(<<>>, S) = <<>>
<1>1. Len(<<>>) = 0
  OBVIOUS
<1>2. PICK f : Selects(f, <<>>, S, 0) /\ Those(<<>>, S) = f[0]
  BY <1>1, ThoseSelects
<1>3. f[0] = <<>>
  BY <1>2 DEF Selects
<1> QED
  BY <1>2, <1>3

\* One element more is selected or not.
LEMMA ThoseAppend ==
    ASSUME NEW X, NEW s \in Seq(X), NEW e \in X, NEW S
    PROVE  Those(Append(s, e), S) = IF e \in S THEN Append(Those(s, S), e) ELSE Those(s, S)
<1>1. PICK m \in Nat : m = Len(s)
  OBVIOUS
<1>2. PICK t : t = Append(s, e)
  OBVIOUS
<1>3. Len(t) = m + 1 /\ t[m + 1] = e /\ \A i \in 1 .. m : s[i] = t[i]
  BY <1>1, <1>2
<1>4. PICK f : Selects(f, s, S, m) /\ Those(s, S) = f[m]
  BY <1>1, ThoseSelects
<1>5. PICK k \in Nat : k = m + 1 /\ m <= k /\ m \in 0 .. m
  BY <1>1
<1>6. PICK g : Selects(g, t, S, k) /\ Those(t, S) = g[k]
  BY <1>3, <1>5, ThoseSelects
<1>7. \A n \in 0 .. m : f[n] = g[n]
  BY <1>3, <1>4, <1>5, <1>6, SelectsFront
<1>8. \A i \in 0 .. k : g[i] = IF i = 0 THEN <<>>
                               ELSE IF t[i] \in S THEN Append(g[i - 1], t[i]) ELSE g[i - 1]
  BY <1>6, Zenon DEF Selects
<1>9. k \in 0 .. k /\ k # 0 /\ k - 1 = m
  BY <1>5
<1>10. g[k] = IF e \in S THEN Append(g[m], e) ELSE g[m]
  BY <1>3, <1>5, <1>8, <1>9
<1> QED
  BY <1>2, <1>4, <1>5, <1>6, <1>7, <1>10

---------------------------------------------------------------------------
(* What is selected. *)

\* An element more.
LEMMA ToSetAppend ==
    ASSUME NEW X, NEW s \in Seq(X), NEW e \in X
    PROVE  ToSet(Append(s, e)) = ToSet(s) \union {e}
<1>1. DOMAIN s = 1 .. Len(s) /\ DOMAIN Append(s, e) = 1 .. Len(s) + 1 /\ Len(s) \in Nat
  OBVIOUS
<1>2. Append(s, e)[Len(s) + 1] = e /\ \A i \in 1 .. Len(s) : Append(s, e)[i] = s[i]
  OBVIOUS
<1>3. 1 .. Len(s) + 1 = (1 .. Len(s)) \union {Len(s) + 1}
  BY <1>1
<1> QED
  BY <1>1, <1>2, <1>3 DEF ToSet

\* Those has the elements of the sequence that are in the set.
LEMMA ThoseType ==
    ASSUME NEW X, NEW s \in Seq(X), NEW S
    PROVE  Those(s, S) \in Seq(X \intersect S) /\ ToSet(Those(s, S)) = ToSet(s) \intersect S
<1> DEFINE P == {t \in Seq(X) : /\ Those(t, S) \in Seq(X \intersect S)
                                /\ ToSet(Those(t, S)) = ToSet(t) \intersect S}
<1>1. <<>> \in P
  <2>1. <<>> \in Seq(X) /\ <<>> \in Seq(X \intersect S) /\ DOMAIN <<>> = {}
    OBVIOUS
  <2>2. ToSet(<<>>) = {}
    BY <2>1 DEF ToSet
  <2> QED
    BY <2>1, <2>2, ThoseEmpty
<1>2. ASSUME NEW t \in Seq(X), NEW e \in X, t \in P PROVE Append(t, e) \in P
  <2>0. PICK those \in Seq(X \intersect S) : those = Those(t, S) /\ ToSet(those) = ToSet(t) \intersect S
    BY <1>2
  <2>1. Append(t, e) \in Seq(X) /\ ToSet(Append(t, e)) = ToSet(t) \union {e}
    BY ToSetAppend
  <2>2. CASE e \in S
    <3>1. Those(Append(t, e), S) = Append(those, e) /\ e \in X \intersect S
      BY <2>0, <2>2, ThoseAppend
    <3>2. Append(those, e) \in Seq(X \intersect S) /\ ToSet(Append(those, e)) = ToSet(those) \union {e}
      BY <3>1, ToSetAppend
    <3> QED
      BY <2>0, <2>1, <2>2, <3>1, <3>2
  <2>3. CASE e \notin S
    <3>1. Those(Append(t, e), S) = those
      BY <2>0, <2>3, ThoseAppend
    <3> QED
      BY <2>0, <2>1, <2>3, <3>1
  <2> QED
    BY <2>2, <2>3
<1> HIDE DEF P
<1>3. Seq(X) \subseteq P
  BY <1>1, <1>2, SeqSetInduction
<1> QED
  BY <1>3 DEF P

\* Concatenation is associative.
LEMMA ConcatGroups ==
    ASSUME NEW X, NEW s \in Seq(X), NEW t \in Seq(X), NEW u \in Seq(X)
    PROVE  s \o t \o u = s \o (t \o u)
BY ConcatAssociative

---------------------------------------------------------------------------
(* Places: what Those selects is an increasing enumeration of positions. *)

\* g numbers the positions of s that are selected, in their order.
Enumerates(g, s, S, those) ==
    /\ g \in [1 .. Len(those) -> 1 .. Len(s)]
    /\ \A i, j \in 1 .. Len(those) : i < j => g[i] < g[j]
    /\ \A i \in 1 .. Len(those) : those[i] = s[g[i]] /\ s[g[i]] \in S
    /\ \A p \in 1 .. Len(s) : s[p] \in S => \E i \in 1 .. Len(those) : g[i] = p

\* The enumeration of a sequence longer by one.
LEMMA EnumeratesAppend ==
    ASSUME NEW X, NEW s \in Seq(X), NEW e \in X, NEW S, NEW those \in Seq(X),
           NEW g, Enumerates(g, s, S, those)
    PROVE  \E h : Enumerates(h, Append(s, e), S, IF e \in S THEN Append(those, e) ELSE those)
<1>1. PICK m \in Nat, n \in Nat : m = Len(s) /\ n = Len(those)
  OBVIOUS
<1>2. PICK t : t = Append(s, e)
  OBVIOUS
<1>3. Len(t) = m + 1 /\ t[m + 1] = e /\ \A p \in 1 .. m : t[p] = s[p]
  BY <1>1, <1>2
<1>4. /\ g \in [1 .. n -> 1 .. m]
      /\ \A i, j \in 1 .. n : i < j => g[i] < g[j]
      /\ \A i \in 1 .. n : those[i] = s[g[i]] /\ s[g[i]] \in S
      /\ \A p \in 1 .. m : s[p] \in S => \E i \in 1 .. n : g[i] = p
  BY <1>1 DEF Enumerates
<1>5. CASE e \notin S
  <2>1. g \in [1 .. n -> 1 .. m + 1]
    BY <1>4
  <2>2. \A p \in 1 .. m + 1 : t[p] \in S => p \in 1 .. m /\ s[p] \in S
    BY <1>3, <1>5
  <2>3. \A i \in 1 .. n : those[i] = t[g[i]] /\ t[g[i]] \in S
    BY <1>3, <1>4
  <2>4. Enumerates(g, t, S, those)
    BY <1>1, <1>3, <1>4, <2>1, <2>2, <2>3 DEF Enumerates
  <2> QED
    BY <1>2, <1>5, <2>4
<1>6. CASE e \in S
  <2>1. PICK u : u = Append(those, e)
    OBVIOUS
  <2>2. Len(u) = n + 1 /\ u[n + 1] = e /\ \A i \in 1 .. n : u[i] = those[i]
    BY <1>1, <2>1
  <2>3. PICK h : h = [i \in 1 .. n + 1 |-> IF i = n + 1 THEN m + 1 ELSE g[i]]
    OBVIOUS
  <2>4. h[n + 1] = m + 1 /\ \A i \in 1 .. n : h[i] = g[i] /\ g[i] \in 1 .. m
    BY <1>4, <2>3
  <2>5. h \in [1 .. n + 1 -> 1 .. m + 1]
    BY <1>4, <2>3
  <2>6. \A i, j \in 1 .. n + 1 : i < j => h[i] < h[j]
    <3> SUFFICES ASSUME NEW i \in 1 .. n + 1, NEW j \in 1 .. n + 1, i < j
                 PROVE  h[i] < h[j]
      OBVIOUS
    <3>1. i \in 1 .. n /\ h[i] = g[i] /\ g[i] \in 1 .. m
      BY <2>4
    <3>2. CASE j = n + 1
      BY <2>4, <3>1, <3>2
    <3>3. CASE j # n + 1
      <4>1. j \in 1 .. n /\ h[j] = g[j]
        BY <2>4, <3>3
      <4>2. g[i] < g[j]
        BY <1>4, <3>1, <4>1
      <4> QED
        BY <3>1, <4>1, <4>2
    <3> QED
      BY <3>2, <3>3
  <2>7. \A i \in 1 .. n + 1 : u[i] = t[h[i]] /\ t[h[i]] \in S
    BY <1>3, <1>4, <1>6, <2>2, <2>4
  <2>8. \A p \in 1 .. m + 1 : t[p] \in S => \E i \in 1 .. n + 1 : h[i] = p
    <3> SUFFICES ASSUME NEW p \in 1 .. m + 1, t[p] \in S
                 PROVE  \E i \in 1 .. n + 1 : h[i] = p
      OBVIOUS
    <3>1. CASE p = m + 1
      BY <2>4, <3>1
    <3>2. CASE p \in 1 .. m
      <4>1. PICK i \in 1 .. n : g[i] = p
        BY <1>3, <1>4, <3>2
      <4> QED
        BY <2>4, <4>1
    <3> QED
      BY <3>1, <3>2
  <2>9. Enumerates(h, t, S, u)
    BY <1>3, <2>2, <2>5, <2>6, <2>7, <2>8 DEF Enumerates
  <2> QED
    BY <1>2, <1>6, <2>1, <2>9
<1> QED
  BY <1>5, <1>6

\* What Those selects has an enumeration.
LEMMA ThosePlaces ==
    ASSUME NEW X, NEW s \in Seq(X), NEW S
    PROVE  \E g : Enumerates(g, s, S, Those(s, S))
<1> DEFINE P == {t \in Seq(X) : \E g : Enumerates(g, t, S, Those(t, S))}
<1>1. <<>> \in P
  <2>1. Enumerates(<<>>, <<>>, S, <<>>)
    BY DEF Enumerates
  <2> QED
    BY <2>1, ThoseEmpty
<1>2. ASSUME NEW t \in Seq(X), NEW e \in X, t \in P PROVE Append(t, e) \in P
  <2>1. PICK those : those = Those(t, S)
    OBVIOUS
  <2>2. those \in Seq(X)
    <3>1. those \in Seq(X \intersect S)
      BY <2>1, ThoseType
    <3> QED
      BY <3>1
  <2>3. PICK g : Enumerates(g, t, S, those)
    BY <1>2, <2>1
  <2>4. \E h : Enumerates(h, Append(t, e), S, IF e \in S THEN Append(those, e) ELSE those)
    BY <2>2, <2>3, EnumeratesAppend
  <2>5. Those(Append(t, e), S) = IF e \in S THEN Append(those, e) ELSE those
    BY <2>1, ThoseAppend
  <2>6. Append(t, e) \in Seq(X) /\ \E h : Enumerates(h, Append(t, e), S, Those(Append(t, e), S))
    BY <2>4, <2>5
  <2> QED
    BY <2>6
<1> HIDE DEF P
<1>3. Seq(X) \subseteq P
  BY <1>1, <1>2, SeqSetInduction
<1> QED
  BY <1>3 DEF P

\* The same without the enumeration: what is selected, and in which order.
Filters(those, s, S) ==
    /\ \A i \in DOMAIN those : \E p \in DOMAIN s : those[i] = s[p] /\ s[p] \in S
    /\ \A p \in DOMAIN s : s[p] \in S => \E i \in DOMAIN those : those[i] = s[p]
    /\ \A i, j \in DOMAIN those : i < j =>
          \E p, q \in DOMAIN s : p < q /\ those[i] = s[p] /\ those[j] = s[q]
    /\ \A p, q \in DOMAIN s : p < q /\ s[p] \in S /\ s[q] \in S =>
          \E i, j \in DOMAIN those : i < j /\ those[i] = s[p] /\ those[j] = s[q]

\* Those filters.
LEMMA ThoseOrder ==
    ASSUME NEW X, NEW s \in Seq(X), NEW S, NEW those, those = Those(s, S)
    PROVE  those \in Seq(X) /\ Filters(those, s, S)
<1>2. those \in Seq(X)
  <2>1. those \in Seq(X \intersect S)
    BY ThoseType
  <2> QED
    BY <2>1
<1>3. PICK g : Enumerates(g, s, S, those)
  BY ThosePlaces
<1>4. /\ 1 .. Len(s) = DOMAIN s /\ 1 .. Len(those) = DOMAIN those
      /\ \A i \in DOMAIN s : i \in Int
      /\ \A i \in DOMAIN those : i \in Int
  BY <1>2
<1>5. /\ g \in [DOMAIN those -> DOMAIN s]
      /\ \A i, j \in DOMAIN those : i < j => g[i] < g[j]
      /\ \A i \in DOMAIN those : those[i] = s[g[i]] /\ s[g[i]] \in S
      /\ \A p \in DOMAIN s : s[p] \in S => \E i \in DOMAIN those : g[i] = p
  BY <1>3, <1>4 DEF Enumerates
<1>6. \A i \in DOMAIN those : \E p \in DOMAIN s : those[i] = s[p] /\ s[p] \in S
  <2> SUFFICES ASSUME NEW i \in DOMAIN those
               PROVE  \E p \in DOMAIN s : those[i] = s[p] /\ s[p] \in S
    BY Zenon
  <2>1. g[i] \in DOMAIN s /\ those[i] = s[g[i]] /\ s[g[i]] \in S
    BY <1>5
  <2> QED
    BY <2>1
<1>7. \A p \in DOMAIN s : s[p] \in S => \E i \in DOMAIN those : those[i] = s[p]
  BY <1>5
<1>8. \A i, j \in DOMAIN those : i < j => \E p, q \in DOMAIN s : p < q /\ those[i] = s[p] /\ those[j] = s[q]
  <2> SUFFICES ASSUME NEW i \in DOMAIN those, NEW j \in DOMAIN those, i < j
               PROVE  \E p, q \in DOMAIN s : p < q /\ those[i] = s[p] /\ those[j] = s[q]
    OBVIOUS
  <2>1. g[i] \in DOMAIN s /\ g[j] \in DOMAIN s /\ g[i] < g[j] /\ those[i] = s[g[i]] /\ those[j] = s[g[j]]
    BY <1>5
  <2> QED
    BY <2>1
<1>9. ASSUME NEW p \in DOMAIN s, NEW q \in DOMAIN s, p < q, s[p] \in S, s[q] \in S
      PROVE  \E i, j \in DOMAIN those : i < j /\ those[i] = s[p] /\ those[j] = s[q]
  <2>1. PICK i \in DOMAIN those : g[i] = p
    BY <1>5, <1>9
  <2>2. PICK j \in DOMAIN those : g[j] = q
    BY <1>5, <1>9
  <2>3. i < j
    <3>1. j < i => g[j] < g[i]
      BY <1>5
    <3>2. ~(j < i) /\ i # j
      <4>1. p \in Int /\ q \in Int /\ i \in Int /\ j \in Int
        BY <1>4
      <4> QED
        BY <1>9, <2>1, <2>2, <3>1, <4>1
    <3> QED
      BY <1>4, <3>2
  <2> QED
    BY <1>5, <2>1, <2>2, <2>3
<1>10. \A p, q \in DOMAIN s : p < q /\ s[p] \in S /\ s[q] \in S =>
           \E i, j \in DOMAIN those : i < j /\ those[i] = s[p] /\ those[j] = s[q]
  BY <1>9
<1> QED
  BY <1>2, <1>6, <1>7, <1>8, <1>10, Zenon DEF Filters

\* Those asks of the set only whether it has the elements of the sequence.
LEMMA ThoseSame ==
    ASSUME NEW X, NEW s \in Seq(X), NEW S, NEW T, \A i \in DOMAIN s : s[i] \in S <=> s[i] \in T
    PROVE  Those(s, S) = Those(s, T)
<1> DEFINE P == {t \in Seq(X) : (\A e \in ToSet(t) : e \in S <=> e \in T) => Those(t, S) = Those(t, T)}
<1>1. <<>> \in P
  BY ThoseEmpty
<1>2. ASSUME NEW t \in Seq(X), NEW e \in X, t \in P PROVE Append(t, e) \in P
  <2>1. ToSet(Append(t, e)) = ToSet(t) \union {e} /\ Append(t, e) \in Seq(X)
    BY ToSetAppend
  <2>2. ASSUME \A x \in ToSet(Append(t, e)) : x \in S <=> x \in T
        PROVE  Those(Append(t, e), S) = Those(Append(t, e), T)
    <3>1. Those(t, S) = Those(t, T) /\ (e \in S <=> e \in T)
      BY <1>2, <2>1, <2>2
    <3>2. Those(Append(t, e), S) = IF e \in S THEN Append(Those(t, S), e) ELSE Those(t, S)
      BY ThoseAppend
    <3>3. Those(Append(t, e), T) = IF e \in T THEN Append(Those(t, T), e) ELSE Those(t, T)
      BY ThoseAppend
    <3> QED
      BY <3>1, <3>2, <3>3, Zenon
  <2> QED
    BY <2>1, <2>2
<1> HIDE DEF P
<1>3. s \in P
  BY <1>1, <1>2, SeqSetInduction
<1>4. \A e \in ToSet(s) : e \in S <=> e \in T
  BY DEF ToSet
<1> QED
  BY <1>3, <1>4 DEF P

\* All are selected.
LEMMA ThoseAll ==
    ASSUME NEW X, NEW s \in Seq(X), NEW S, \A i \in DOMAIN s : s[i] \in S
    PROVE  Those(s, S) = s
<1> DEFINE P == {t \in Seq(X) : (\A e \in ToSet(t) : e \in S) => Those(t, S) = t}
<1>1. <<>> \in P
  BY ThoseEmpty
<1>2. ASSUME NEW t \in Seq(X), NEW e \in X, t \in P PROVE Append(t, e) \in P
  <2>1. ToSet(Append(t, e)) = ToSet(t) \union {e} /\ Append(t, e) \in Seq(X)
    BY ToSetAppend
  <2>2. ASSUME \A x \in ToSet(Append(t, e)) : x \in S PROVE Those(Append(t, e), S) = Append(t, e)
    <3>1. Those(t, S) = t /\ e \in S
      BY <1>2, <2>1, <2>2
    <3>2. Those(Append(t, e), S) = IF e \in S THEN Append(Those(t, S), e) ELSE Those(t, S)
      BY ThoseAppend
    <3> QED
      BY <3>1, <3>2, Zenon
  <2> QED
    BY <2>1, <2>2
<1> HIDE DEF P
<1>3. s \in P
  BY <1>1, <1>2, SeqSetInduction
<1>4. \A e \in ToSet(s) : e \in S
  BY DEF ToSet
<1> QED
  BY <1>3, <1>4 DEF P

\* None is selected.
LEMMA ThoseNone ==
    ASSUME NEW X, NEW s \in Seq(X), NEW S, \A i \in DOMAIN s : s[i] \notin S
    PROVE  Those(s, S) = <<>>
<1>1. PICK those : those = Those(s, S)
  OBVIOUS
<1>2. those \in Seq(X) /\ \A i \in DOMAIN those : \E p \in DOMAIN s : those[i] = s[p] /\ s[p] \in S
  <2>1. those \in Seq(X) /\ Filters(those, s, S)
    BY <1>1, ThoseOrder
  <2> QED
    BY <2>1, Zenon DEF Filters
<1>3. \A i \in DOMAIN those : FALSE
  BY <1>2
<1> QED
  BY <1>1, <1>2, <1>3

\* Append is last.
LEMMA ConcatAppend ==
    ASSUME NEW X, NEW s \in Seq(X), NEW t \in Seq(X), NEW e \in X
    PROVE  s \o Append(t, e) = Append(s \o t, e)
<1>1. Append(t, e) = t \o <<e>> /\ <<e>> \in Seq(X)
  BY AppendIsConcat
<1>2. s \o t \in Seq(X)
  BY ConcatProperties
<1>3. Append(s \o t, e) = (s \o t) \o <<e>>
  BY <1>2, AppendIsConcat
<1> QED
  BY <1>1, <1>3, ConcatAssociative

\* Selecting from two sequences, one after the other.
LEMMA ThoseConcat ==
    ASSUME NEW X, NEW s \in Seq(X), NEW t \in Seq(X), NEW S
    PROVE  Those(s \o t, S) = Those(s, S) \o Those(t, S)
<1> DEFINE P == {u \in Seq(X) : Those(s \o u, S) = Those(s, S) \o Those(u, S)}
<1>0. Those(s, S) \in Seq(X)
  BY ThoseOrder
<1>1. <<>> \in P
  <2>1. s \o <<>> = s /\ Those(s, S) \o <<>> = Those(s, S)
    BY <1>0, ConcatEmptySeq
  <2>2. Those(<<>>, S) = <<>> /\ <<>> \in Seq(X)
    BY ThoseEmpty
  <2>3. Those(s \o <<>>, S) = Those(s, S) \o Those(<<>>, S)
    BY <2>1, <2>2, Zenon
  <2> QED
    BY <2>2, <2>3
<1>2. ASSUME NEW u \in Seq(X), NEW e \in X, u \in P PROVE Append(u, e) \in P
  <2>1. PICK a \in Seq(X), b \in Seq(X) : a = Those(s, S) /\ b = Those(u, S) /\ Those(s \o u, S) = a \o b
    <3>1. Those(u, S) \in Seq(X)
      BY ThoseOrder
    <3> QED
      BY <1>0, <1>2, <3>1
  <2>2. s \o Append(u, e) = Append(s \o u, e) /\ s \o u \in Seq(X) /\ Append(u, e) \in Seq(X)
    BY ConcatAppend, AppendProperties, ConcatProperties
  <2>3. Those(Append(s \o u, e), S) = IF e \in S THEN Append(a \o b, e) ELSE a \o b
    <3>1. Those(Append(s \o u, e), S) = IF e \in S THEN Append(Those(s \o u, S), e) ELSE Those(s \o u, S)
      BY <2>2, ThoseAppend
    <3> QED
      BY <2>1, <3>1, Zenon
  <2>4. Those(Append(u, e), S) = IF e \in S THEN Append(b, e) ELSE b
    <3>1. Those(Append(u, e), S) = IF e \in S THEN Append(Those(u, S), e) ELSE Those(u, S)
      BY ThoseAppend
    <3> QED
      BY <2>1, <3>1, Zenon
  <2>5. a \o Append(b, e) = Append(a \o b, e)
    BY ConcatAppend
  <2>6. Those(s \o Append(u, e), S) = a \o Those(Append(u, e), S)
    <3>1. CASE e \in S
      BY <2>2, <2>3, <2>4, <2>5, <3>1, Zenon
    <3>2. CASE e \notin S
      BY <2>2, <2>3, <2>4, <2>5, <3>2, Zenon
    <3> QED
      BY <3>1, <3>2
  <2> QED
    BY <2>1, <2>2, <2>6
<1> HIDE DEF P
<1>3. t \in P
  BY <1>1, <1>2, SeqSetInduction
<1> QED
  BY <1>3 DEF P

\* The same fact as a predicate, to be expanded where it is needed.
Joins(s, t, S) == Those(s \o t, S) = Those(s, S) \o Those(t, S)

\* Selecting from two sequences, as that predicate.
LEMMA ThoseJoin ==
    ASSUME NEW X, NEW s \in Seq(X), NEW t \in Seq(X), NEW S
    PROVE  Joins(s, t, S)
<1>1. Those(s \o t, S) = Those(s, S) \o Those(t, S)
  BY ThoseConcat
<1> QED
  BY <1>1, Zenon DEF Joins

\* A sequence cut in two.
LEMMA Cut ==
    ASSUME NEW X, NEW s \in Seq(X), NEW k \in 0 .. Len(s), NEW m \in k .. Len(s)
    PROVE  /\ SubSeq(s, 1, k) \in Seq(X) /\ SubSeq(s, k + 1, m) \in Seq(X)
           /\ Len(SubSeq(s, 1, k)) = k /\ Len(SubSeq(s, k + 1, m)) = m - k
           /\ \A i \in 1 .. k : SubSeq(s, 1, k)[i] = s[i]
           /\ \A i \in 1 .. m - k : SubSeq(s, k + 1, m)[i] = s[k + i]
           /\ SubSeq(s, 1, k) \o SubSeq(s, k + 1, m) = SubSeq(s, 1, m)
           /\ SubSeq(s, 1, Len(s)) = s
<1>1. PICK n \in Nat : n = Len(s)
  OBVIOUS
<1>2. k \in Nat /\ m \in Nat /\ k <= m /\ m <= n
  BY <1>1
<1>3. \A i \in 1 .. n : s[i] \in X
  BY <1>1
<1>4. /\ SubSeq(s, 1, k) \in Seq(X) /\ Len(SubSeq(s, 1, k)) = IF 1 <= k THEN k - 1 + 1 ELSE 0
      /\ \A i \in 1 .. k - 1 + 1 : SubSeq(s, 1, k)[i] = s[1 + i - 1]
  <2>1. \A i \in 1 .. k : s[i] \in X
    BY <1>2, <1>3
  <2> QED
    BY <1>2, <2>1, SubSeqProperties
<1>5. /\ SubSeq(s, k + 1, m) \in Seq(X)
      /\ Len(SubSeq(s, k + 1, m)) = IF k + 1 <= m THEN m - (k + 1) + 1 ELSE 0
      /\ \A i \in 1 .. m - (k + 1) + 1 : SubSeq(s, k + 1, m)[i] = s[k + 1 + i - 1]
  <2>1. \A i \in k + 1 .. m : s[i] \in X
    BY <1>2, <1>3
  <2> QED
    BY <1>2, <2>1, SubSeqProperties
<1>6. SubSeq(s, 1, k) \o SubSeq(s, k + 1, m) = SubSeq(s, 1, m)
  <2>1. 1 \in 1 .. Len(s) + 1 /\ k \in 1 - 1 .. Len(s) /\ m \in k .. Len(s)
    BY <1>1, <1>2
  <2> QED
    BY <2>1, ConcatAdjacentSubSeq
<1>7. SubSeq(s, 1, Len(s)) = s
  BY SubSeqFull
<1>8. /\ (IF 1 <= k THEN k - 1 + 1 ELSE 0) = k /\ k - 1 + 1 = k
      /\ (IF k + 1 <= m THEN m - (k + 1) + 1 ELSE 0) = m - k /\ m - (k + 1) + 1 = m - k
  BY <1>2
<1>9. \A i \in 1 .. k : SubSeq(s, 1, k)[i] = s[i]
  <2>1. \A i \in 1 .. k : 1 + i - 1 = i
    BY <1>2
  <2> QED
    BY <1>4, <1>8, <2>1
<1>10. \A i \in 1 .. m - k : SubSeq(s, k + 1, m)[i] = s[k + i]
  <2>1. \A i \in 1 .. m - k : k + 1 + i - 1 = k + i
    BY <1>2
  <2> QED
    BY <1>5, <1>8, <2>1
<1> QED
  BY <1>4, <1>5, <1>6, <1>7, <1>8, <1>9, <1>10, Zenon

\* What is selected is an interval of the positions.
LEMMA ThoseInterval ==
    ASSUME NEW X, NEW s \in Seq(X), NEW S, NEW k \in 0 .. Len(s), NEW m \in k .. Len(s),
           \A i \in DOMAIN s : s[i] \in S <=> k < i /\ i <= m
    PROVE  Those(s, S) = SubSeq(s, k + 1, m)
<1>1. PICK n \in Nat : n = Len(s) /\ DOMAIN s = 1 .. n
  OBVIOUS
<1>2. k \in Nat /\ m \in Nat /\ k <= m /\ m <= n
  BY <1>1
<1>3. PICK a, b, c : a = SubSeq(s, 1, k) /\ b = SubSeq(s, k + 1, m) /\ c = SubSeq(s, m + 1, n)
  OBVIOUS
<1>4. a \in Seq(X) /\ Len(a) = k /\ \A i \in 1 .. k : a[i] = s[i]
  BY <1>3, Cut
<1>5. b \in Seq(X) /\ Len(b) = m - k /\ \A i \in 1 .. m - k : b[i] = s[k + i]
  BY <1>3, Cut
<1>6. c \in Seq(X) /\ Len(c) = n - m /\ \A i \in 1 .. n - m : c[i] = s[m + i]
  <2>1. m \in 0 .. Len(s) /\ n \in m .. Len(s)
    BY <1>1, <1>2
  <2> QED
    BY <1>3, <2>1, Cut
<1>7. a \o b = SubSeq(s, 1, m)
  BY <1>3, Cut
<1>8. (a \o b) \o c = s
  <2>1. m \in 0 .. Len(s) /\ n \in m .. Len(s)
    BY <1>1, <1>2
  <2>2. SubSeq(s, 1, m) \o c = SubSeq(s, 1, n)
    <3>1. SubSeq(s, 1, m) \o SubSeq(s, m + 1, n) = SubSeq(s, 1, n)
      BY <2>1, Cut
    <3> QED
      BY <1>3, <3>1, Zenon
  <2>3. SubSeq(s, 1, n) = s
    BY <1>1, SubSeqFull
  <2> QED
    BY <1>7, <2>2, <2>3
<1>9. Those(a, S) = <<>>
  <2>1. \A i \in DOMAIN a : a[i] \notin S
    BY <1>1, <1>2, <1>4
  <2> QED
    BY <1>4, <2>1, ThoseNone
<1>10. Those(b, S) = b
  <2>1. \A i \in DOMAIN b : b[i] \in S
    <3> SUFFICES ASSUME NEW i \in 1 .. m - k PROVE b[i] \in S
      BY <1>5
    <3>1. b[i] = s[k + i] /\ k + i \in 1 .. n /\ k < k + i /\ k + i <= m
      BY <1>2, <1>5
    <3> QED
      BY <1>1, <3>1
  <2> QED
    BY <1>5, <2>1, ThoseAll
<1>11. Those(c, S) = <<>>
  <2>1. \A i \in DOMAIN c : c[i] \notin S
    <3> SUFFICES ASSUME NEW i \in 1 .. n - m PROVE c[i] \notin S
      BY <1>6
    <3>1. c[i] = s[m + i] /\ m + i \in 1 .. n /\ ~(m + i <= m)
      BY <1>2, <1>6
    <3> QED
      BY <1>1, <3>1
  <2> QED
    BY <1>6, <2>1, ThoseNone
<1>12. Those(s, S) = (Those(a, S) \o Those(b, S)) \o Those(c, S)
  <2>1. PICK d \in Seq(X) : d = a \o b
    BY <1>4, <1>5, ConcatProperties
  <2>2. Those((a \o b) \o c, S) = Those(a \o b, S) \o Those(c, S)
    <3>1. Joins(d, c, S)
      BY <1>6, ThoseJoin
    <3> QED
      BY <2>1, <3>1, Zenon DEF Joins
  <2>3. Those(a \o b, S) = Those(a, S) \o Those(b, S)
    <3>1. Joins(a, b, S)
      BY <1>4, <1>5, ThoseJoin
    <3> QED
      BY <3>1, Zenon DEF Joins
  <2> QED
    BY <1>8, <2>2, <2>3
<1>13. (<<>> \o b) \o <<>> = b
  BY <1>5, ConcatEmptySeq
<1> QED
  BY <1>3, <1>9, <1>10, <1>11, <1>12, <1>13, Zenon

\* The last that is selected.
LEMMA ThoseLast ==
    ASSUME NEW X, NEW s \in Seq(X), NEW S, NEW p \in DOMAIN s, s[p] \in S,
           \A q \in DOMAIN s : p < q => s[q] \notin S
    PROVE  Those(s, S) # <<>> /\ Last(Those(s, S)) = s[p]
<1>1. PICK those : those = Those(s, S)
  OBVIOUS
<1>2. those \in Seq(X)
  BY <1>1, ThoseOrder
<1>3. PICK g : Enumerates(g, s, S, those)
  BY <1>1, ThosePlaces
<1>4. PICK m \in Nat, n \in Nat : m = Len(s) /\ n = Len(those) /\ DOMAIN s = 1 .. m
  BY <1>2
<1>5. /\ g \in [1 .. n -> 1 .. m]
      /\ \A i, j \in 1 .. n : i < j => g[i] < g[j]
      /\ \A i \in 1 .. n : those[i] = s[g[i]] /\ s[g[i]] \in S
      /\ \E i \in 1 .. n : g[i] = p
  BY <1>3, <1>4 DEF Enumerates
<1>6. PICK i \in 1 .. n : g[i] = p
  BY <1>5
<1>7. n \in 1 .. n /\ g[n] \in 1 .. m
  BY <1>5, <1>6
<1>8. i = n
  <2>1. i < n => p < g[n]
    BY <1>5, <1>6, <1>7
  <2>2. ~(p < g[n])
    BY <1>4, <1>5, <1>7
  <2> QED
    BY <1>6, <1>7, <2>1, <2>2
<1>9. those[n] = s[p] /\ those # <<>>
  BY <1>2, <1>4, <1>5, <1>6, <1>7, <1>8
<1> QED
  BY <1>1, <1>4, <1>9 DEF Last

\* An increasing sequence of m numbers.
Increases(a, m) ==
    /\ \A i \in 1 .. m : a[i] \in Int
    /\ \A i, j \in 1 .. m : i < j => a[i] < a[j]

\* It has numbers of another, and with one the smaller ones.
Fills(a, m, b, n) ==
    /\ \A i \in 1 .. m : \E j \in 1 .. n : a[i] = b[j]
    /\ \A i \in 1 .. m : \A j \in 1 .. n : b[j] < a[i] => \E k \in 1 .. m : a[k] = b[j]

\* It is a front of the other.
Fronts(a, m, b, n) == m <= n /\ \A i \in 1 .. m : a[i] = b[i]

\* So it is a front of the other.
LEMMA IncreasingAgree ==
    ASSUME NEW m \in Nat, NEW n \in Nat, NEW a, NEW b,
           Increases(a, m), Increases(b, n), Fills(a, m, b, n)
    PROVE  Fronts(a, m, b, n)
<1> USE DEF Increases, Fills
<1> DEFINE T == {i \in Nat : \A k \in 1 .. i : k <= m => k <= n /\ a[k] = b[k]}
<1>1. 0 \in T
  OBVIOUS
<1>2. ASSUME NEW i \in Nat, i \in T PROVE i + 1 \in T
  <2>1. ASSUME i + 1 <= m PROVE i + 1 <= n /\ a[i + 1] = b[i + 1]
    <3>1. i + 1 \in 1 .. m
      BY <2>1
    <3>2. PICK j \in 1 .. n : a[i + 1] = b[j]
      BY <3>1
    <3>3. ~(j <= i)
      <4>1. ASSUME j <= i PROVE FALSE
        <5>1. j \in 1 .. m /\ j < i + 1 /\ a[j] = b[j]
          BY <1>2, <2>1, <4>1
        <5>2. a[j] < a[i + 1]
          BY <3>1, <5>1
        <5> QED
          BY <3>1, <3>2, <5>1, <5>2
      <4> QED
        BY <4>1
    <3>4. ~(i + 1 < j)
      <4>1. ASSUME i + 1 < j PROVE FALSE
        <5>1. i + 1 \in 1 .. n /\ b[i + 1] < b[j]
          BY <4>1
        <5>2. PICK k \in 1 .. m : a[k] = b[i + 1]
          BY <3>1, <3>2, <5>1
        <5>3. a[k] < a[i + 1]
          BY <3>2, <5>1, <5>2
        <5>4. ~(i + 1 <= k)
          <6>1. i + 1 < k => a[i + 1] < a[k]
            BY <3>1
          <6>2. a[i + 1] \in Int /\ a[k] \in Int
            BY <3>1
          <6>3. ~(i + 1 < k)
            BY <5>3, <6>1, <6>2
          <6>4. i + 1 # k
            BY <5>3, <6>2
          <6> QED
            BY <6>3, <6>4
        <5>5. k \in 1 .. i /\ k <= n /\ a[k] = b[k] /\ k < i + 1
          BY <1>2, <5>4
        <5>6. b[k] < b[i + 1]
          BY <5>1, <5>5
        <5> QED
          BY <5>1, <5>2, <5>5, <5>6
      <4> QED
        BY <4>1
    <3>5. j = i + 1
      BY <3>3, <3>4
    <3> QED
      BY <3>2, <3>5
  <2> QED
    BY <1>2, <2>1
<1> HIDE DEF T
<1>3. m \in T
  BY <1>1, <1>2, NatSetInduction
<1>4. \A k \in 1 .. m : k <= n /\ a[k] = b[k]
  BY <1>3 DEF T
<1>5. m <= n
  <2>1. CASE m = 0
    BY <2>1
  <2>2. CASE m # 0
    <3>1. m \in 1 .. m
      BY <2>2
    <3> QED
      BY <1>4, <3>1
  <2> QED
    BY <2>1, <2>2
<1> QED
  BY <1>4, <1>5 DEF Fronts

\* A set of numbers that has with a number the smaller ones.
LEMMA DownClosed ==
    ASSUME NEW n \in Nat, NEW G \in SUBSET (1 .. n), \A i \in G : \A j \in 1 .. i : j \in G
    PROVE  \E m \in 0 .. n : G = 1 .. m
<1> DEFINE T == {k \in Nat : k <= n => \E m \in 0 .. k : G \intersect (1 .. k) = 1 .. m}
<1>1. 0 \in T
  <2>1. G \intersect (1 .. 0) = 1 .. 0 /\ 0 \in 0 .. 0
    OBVIOUS
  <2> QED
    BY <2>1
<1>2. ASSUME NEW k \in Nat, k \in T PROVE k + 1 \in T
  <2>1. ASSUME k + 1 <= n PROVE \E m \in 0 .. k + 1 : G \intersect (1 .. k + 1) = 1 .. m
    <3>1. PICK m \in 0 .. k : G \intersect (1 .. k) = 1 .. m
      BY <1>2, <2>1
    <3>2. CASE k + 1 \in G
      <4>1. G \intersect (1 .. k + 1) = 1 .. k + 1
        BY <3>2
      <4> QED
        BY <4>1
    <3>3. CASE k + 1 \notin G
      <4>1. G \intersect (1 .. k + 1) = G \intersect (1 .. k)
        BY <3>3
      <4> QED
        BY <3>1, <4>1
    <3> QED
      BY <3>2, <3>3
  <2> QED
    BY <2>1
<1> HIDE DEF T
<1>3. n \in T
  BY <1>1, <1>2, NatSetInduction
<1>4. PICK m \in 0 .. n : G \intersect (1 .. n) = 1 .. m
  BY <1>3 DEF T
<1>5. G = G \intersect (1 .. n)
  OBVIOUS
<1> QED
  BY <1>4, <1>5

\* The values of a function of a sequence's elements are bounded.
LEMMA SeqBounded ==
    ASSUME NEW X, NEW f \in [X -> Nat], NEW s \in Seq(X)
    PROVE  \E b \in Nat : \A e \in ToSet(s) : f[e] <= b
<1> DEFINE P == {t \in Seq(X) : \E b \in Nat : \A e \in ToSet(t) : f[e] <= b}
<1>1. <<>> \in P
  <2>1. ToSet(<<>>) = {} /\ <<>> \in Seq(X)
    BY DEF ToSet
  <2>2. 0 \in Nat /\ \A e \in ToSet(<<>>) : f[e] <= 0
    BY <2>1
  <2> QED
    BY <2>1, <2>2
<1>2. ASSUME NEW t \in Seq(X), NEW e \in X, t \in P PROVE Append(t, e) \in P
  <2>1. ToSet(Append(t, e)) = ToSet(t) \union {e} /\ Append(t, e) \in Seq(X)
    BY ToSetAppend
  <2>2. PICK b \in Nat : \A d \in ToSet(t) : f[d] <= b
    BY <1>2
  <2>3. PICK c \in Nat : c = f[e]
    OBVIOUS
  <2>4. \A d \in ToSet(t) : f[d] \in Nat
    BY DEF ToSet
  <2>5. b + c \in Nat /\ \A d \in ToSet(Append(t, e)) : f[d] <= b + c
    BY <2>1, <2>2, <2>3, <2>4
  <2> QED
    BY <2>1, <2>5
<1> HIDE DEF P
<1>3. s \in P
  BY <1>1, <1>2, SeqSetInduction
<1> QED
  BY <1>3 DEF P

\* A bounded set of numbers has a greatest one.
LEMMA BoundedMax ==
    ASSUME NEW G \in SUBSET Nat, G # {}, NEW b \in Nat, \A x \in G : x <= b
    PROVE  Max(G) \in G /\ \A x \in G : x <= Max(G)
<1> DEFINE T == {k \in Nat : (\A x \in G : x <= k) => \E x \in G : \A y \in G : y <= x}
<1>1. 0 \in T
  <2>1. ASSUME \A x \in G : x <= 0 PROVE \E x \in G : \A y \in G : y <= x
    <3>1. PICK x \in G : TRUE
      OBVIOUS
    <3>2. x = 0
      BY <2>1
    <3> QED
      BY <2>1, <3>2
  <2> QED
    BY <2>1
<1>2. ASSUME NEW k \in Nat, k \in T PROVE k + 1 \in T
  <2>1. ASSUME \A x \in G : x <= k + 1 PROVE \E x \in G : \A y \in G : y <= x
    <3>1. CASE k + 1 \in G
      BY <2>1, <3>1
    <3>2. CASE k + 1 \notin G
      <4>1. \A x \in G : x <= k
        BY <2>1, <3>2
      <4> QED
        BY <1>2, <4>1
    <3> QED
      BY <3>1, <3>2
  <2> QED
    BY <2>1
<1> HIDE DEF T
<1>3. b \in T
  BY <1>1, <1>2, NatSetInduction
<1>4. \E x \in G : \A y \in G : x >= y
  <2>1. PICK x \in G : \A y \in G : y <= x
    BY <1>3 DEF T
  <2> QED
    BY <2>1
<1>5. Max(G) \in G /\ \A y \in G : Max(G) >= y
  BY <1>4, Zenon DEF Max
<1> QED
  BY <1>5

---------------------------------------------------------------------------
(* Flattening a sequence of sequences. *)

\* f is what the first sequences make together, for each number of them to m.
Flattens(f, seqs, m) == f = [i \in 1 .. m |-> IF i = 1 THEN seqs[i] ELSE f[i - 1] \o seqs[i]]

\* The function by which FlattenSeq is defined exists.
LEMMA FlattensExists ==
    ASSUME NEW seqs, NEW m \in Nat
    PROVE  \E f : Flattens(f, seqs, m)
<1> DEFINE T == {n \in Nat : \E f : Flattens(f, seqs, n)}
<1>1. 0 \in T
  <2>1. Flattens([n \in 1 .. 0 |-> <<>>], seqs, 0)
    BY DEF Flattens
  <2> QED
    BY <2>1
<1>2. ASSUME NEW n \in Nat, n \in T PROVE n + 1 \in T
  <2>1. PICK f : Flattens(f, seqs, n)
    BY <1>2
  <2> DEFINE next == IF n = 0 THEN seqs[n + 1] ELSE f[n] \o seqs[n + 1]
             g == [k \in 1 .. n + 1 |-> IF k = n + 1 THEN next ELSE f[k]]
  <2> HIDE DEF next
  <2>2. ASSUME NEW k \in 1 .. n + 1
        PROVE  g[k] = IF k = 1 THEN seqs[k] ELSE g[k - 1] \o seqs[k]
    <3>1. CASE k = n + 1 /\ n = 0
      BY <3>1 DEF next
    <3>2. CASE k = n + 1 /\ n # 0
      <4>1. g[k] = next /\ g[k - 1] = f[n]
        BY <3>2
      <4>2. next = f[n] \o seqs[k]
        BY <3>2, Zenon DEF next
      <4>3. k # 1
        BY <3>2
      <4> HIDE DEF g
      <4> QED
        BY <4>1, <4>2, <4>3, Zenon
    <3>3. CASE k \in 1 .. n
      <4>1. \A i \in 1 .. n : f[i] = IF i = 1 THEN seqs[i] ELSE f[i - 1] \o seqs[i]
        BY <2>1, Zenon DEF Flattens
      <4>2. f[k] = IF k = 1 THEN seqs[k] ELSE f[k - 1] \o seqs[k]
        BY <3>3, <4>1, Zenon
      <4>3. g[k] = f[k] /\ (k # 1 => g[k - 1] = f[k - 1])
        BY <3>3
      <4> HIDE DEF g
      <4> QED
        BY <4>2, <4>3, Zenon
    <3> QED
      BY <3>1, <3>2, <3>3
  <2>3. g = [k \in 1 .. n + 1 |-> g[k]]
    OBVIOUS
  <2> HIDE DEF g
  <2>4. Flattens(g, seqs, n + 1)
    BY <2>2, <2>3, Zenon DEF Flattens
  <2> QED
    BY <2>4
<1> HIDE DEF T
<1>3. Nat \subseteq T
  BY <1>1, <1>2, NatSetInduction
<1> QED
  BY <1>3 DEF T

\* What two sequences hold together.
LEMMA ToSetConcat ==
    ASSUME NEW X, NEW s \in Seq(X), NEW t \in Seq(X)
    PROVE  s \o t \in Seq(X) /\ ToSet(s \o t) = ToSet(s) \union ToSet(t)
<1>1. /\ s \o t \in Seq(X) /\ Len(s \o t) = Len(s) + Len(t)
      /\ \A i \in 1 .. Len(s) + Len(t) : (s \o t)[i] = IF i <= Len(s) THEN s[i] ELSE t[i - Len(s)]
  BY ConcatProperties
<1>2. /\ Len(s) \in Nat /\ Len(t) \in Nat /\ DOMAIN s = 1 .. Len(s) /\ DOMAIN t = 1 .. Len(t)
      /\ DOMAIN (s \o t) = 1 .. Len(s) + Len(t)
  BY <1>1
<1>3. PICK u : u = s \o t
  OBVIOUS
<1>4. ASSUME NEW i \in DOMAIN t PROVE t[i] = u[Len(s) + i] /\ Len(s) + i \in DOMAIN u
  BY <1>1, <1>2, <1>3
<1>5. ASSUME NEW i \in DOMAIN s PROVE s[i] = u[i] /\ i \in DOMAIN u
  BY <1>1, <1>2, <1>3
<1>6. ASSUME NEW i \in DOMAIN u PROVE (i \in DOMAIN s /\ u[i] = s[i]) \/ (i - Len(s) \in DOMAIN t /\ u[i] = t[i - Len(s)])
  BY <1>1, <1>2, <1>3
<1>7. ToSet(u) = ToSet(s) \union ToSet(t)
  BY <1>4, <1>5, <1>6 DEF ToSet
<1> QED
  BY <1>1, <1>3, <1>7

\* A flattened sequence holds only what one of its parts holds.
LEMMA FlattenRange ==
    ASSUME NEW X, NEW seqs \in Seq(Seq(X))
    PROVE  /\ FlattenSeq(seqs) \in Seq(X)
           /\ \A e \in ToSet(FlattenSeq(seqs)) : \E i \in DOMAIN seqs : e \in ToSet(seqs[i])
<1>1. PICK m \in Nat : m = Len(seqs) /\ DOMAIN seqs = 1 .. m
  OBVIOUS
<1>2. CASE m = 0
  <2>1. FlattenSeq(seqs) = <<>> /\ seqs = <<>>
    BY <1>1, <1>2 DEF FlattenSeq
  <2>2. ToSet(<<>>) = {} /\ <<>> \in Seq(X)
    BY DEF ToSet
  <2> QED
    BY <2>1, <2>2
<1>3. CASE m # 0
  <2> DEFINE flatten == CHOOSE f : f = [i \in 1 .. Len(seqs) |-> IF i = 1 THEN seqs[i] ELSE f[i - 1] \o seqs[i]]
             Held(s) == s \in Seq(X) /\ \A e \in ToSet(s) : \E i \in DOMAIN seqs : e \in ToSet(seqs[i])
             T == {n \in Nat : n \in 1 .. m => Held(flatten[n])}
  <2>1. Flattens(flatten, seqs, Len(seqs))
    <3>1. \E f : Flattens(f, seqs, Len(seqs))
      BY <1>1, FlattensExists
    <3> QED
      BY <3>1, Zenon DEF Flattens
  <2>2. FlattenSeq(seqs) = flatten[m]
    BY <1>1, <1>3 DEF FlattenSeq
  <2> HIDE DEF flatten
  <2>3. \A i \in 1 .. m : flatten[i] = IF i = 1 THEN seqs[i] ELSE flatten[i - 1] \o seqs[i]
    BY <1>1, <2>1, Zenon DEF Flattens
  <2>4. 0 \in T
    OBVIOUS
  <2>5. ASSUME NEW n \in Nat, n \in T PROVE n + 1 \in T
    <3>1. CASE n + 1 \in 1 .. m
      <4>1. seqs[n + 1] \in Seq(X) /\ n + 1 \in DOMAIN seqs
        BY <1>1, <3>1
      <4>2. CASE n = 0
        <5>1. flatten[n + 1] = seqs[n + 1]
          BY <2>3, <3>1, <4>2
        <5> QED
          BY <4>1, <5>1
      <4>3. CASE n # 0
        <5>1. flatten[n + 1] = flatten[n] \o seqs[n + 1]
          <6>1. PICK k \in 1 .. m : k = n + 1
            BY <3>1
          <6>2. k - 1 = n /\ k # 1
            BY <4>3, <6>1
          <6>3. flatten[k] = IF k = 1 THEN seqs[k] ELSE flatten[k - 1] \o seqs[k]
            BY <2>3, Zenon
          <6> QED
            BY <6>1, <6>2, <6>3, Zenon
        <5>2. Held(flatten[n])
          BY <2>5, <3>1, <4>3
        <5>3. flatten[n] \o seqs[n + 1] \in Seq(X)
              /\ ToSet(flatten[n] \o seqs[n + 1]) = ToSet(flatten[n]) \union ToSet(seqs[n + 1])
          BY <4>1, <5>2, ToSetConcat
        <5>4. Held(flatten[n] \o seqs[n + 1])
          BY <4>1, <5>2, <5>3
        <5>5. Held(flatten[n + 1])
          BY <5>1, <5>4, Zenon
        <5> HIDE DEF Held
        <5> QED
          BY <5>5
      <4> QED
        BY <4>2, <4>3
    <3> QED
      BY <3>1
  <2> HIDE DEF T
  <2>6. Nat \subseteq T
    BY <2>4, <2>5, NatSetInduction
  <2>7. Held(flatten[m])
    <3>1. m \in T /\ m \in 1 .. m
      BY <1>1, <1>3, <2>6
    <3> HIDE DEF Held
    <3> QED
      BY <3>1 DEF T
  <2> QED
    BY <2>2, <2>7
<1> QED
  BY <1>2, <1>3
=============================================================================
