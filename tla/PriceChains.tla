---------------------------- MODULE PriceChains ----------------------------
(***************************************************************************)
(* The two forward-only price normalisers of the quant market store:       *)
(* ReferenceNormalizer, whose bars feed features and eligibility, and      *)
(* OutcomePriceNormalizer, whose prices serve labels alone.                *)
(*                                                                         *)
(* A price matters through products, quotients and equality, so prices and *)
(* factors are written as logarithms: a product is a sum.  The opening     *)
(* price follows the closing price.  A session is its ordinal, and a time  *)
(* is a slot of a session.                                                 *)
(***************************************************************************)
EXTENDS Nothing, Integers, Sequences, FiniteSets, SequencesExt

CONSTANTS
    Security,   \* stable security ids
    Sessions,   \* how many trading sessions the calendar has
    Streak,     \* consecutive sessions before a security is eligible (61)
    Manifests   \* documents a build may be given, each a record of
                \*   reviews       [session, security, expected, row]
                \*   conversions   used by MarketStore
                \*   liquidations  [security, published, effective]

ASSUME SessionsAssumption == Sessions \in Nat

Session == 0 .. Sessions - 1

At(session, slot) == 4 * session + slot
Midnight == 0
Close == 1      \* 15:00
Evening == 2    \* 21:00, when a session's records are taken as available
Scoring == 3    \* 21:30
SessionOf(time) == time \div 4

Later(s, t) == IF s < t THEN t ELSE s

(***************************************************************************)
(* What the provider says of one security in one session.                  *)
(*   missing     no row                                                    *)
(*   conflict    aliases of the security disagree in a price               *)
(*   amounts     aliases agree in all but the amount, all of them traded   *)
(*   unusable    a row some requirement refuses                            *)
(*   blank       a reported halt with a flat price and no activity figures *)
(*   traded, idle, halted   complete rows; idle trades without activity    *)
(***************************************************************************)
Priced == {"amounts", "blank", "traded", "idle", "halted"}
WholeRow == {"traded", "idle", "halted"}

----------------------------------------------------------------------------
(***************************************************************************)
(* Reviewed manifests change a raw row before it is normalised: a repair   *)
(* writes the zeros of a proven suspension, a choice selects one alias of  *)
(* a conflict.  Each is bound to the very row it was reviewed for.         *)
(***************************************************************************)
ReviewShape(r) ==
    \/ r.expected.kind \in {"conflict", "amounts"} /\ r.row.kind \in WholeRow
    \/ /\ r.expected.kind \in {"blank", "halted"}
       /\ r.expected.close = r.expected.preclose
       /\ r.row = [r.expected EXCEPT !.kind = "halted"]

KeyOf(r) == <<r.session, r.security>>

\* Prices are numbers in every row, also in one that is not used.
Quoted(row) == row.close \in Int /\ row.preclose \in Int

ASSUME ReviewAssumption == \A m \in Manifests : \A r \in m.reviews : Quoted(r.row)

\* What the readers of the manifests require of them.
Accepted(m) ==
    /\ \A r \in m.reviews : ReviewShape(r)
    /\ \A r, q \in m.reviews : KeyOf(r) = KeyOf(q) => r = q

\* What PreviousAfter remembers of a price is not the value for none.
ASSUME RememberedAssumption ==
    None \notin [ordinal : Int, close : Int, factor : Int, start : Int, available : Int]

----------------------------------------------------------------------------
VARIABLES
    manifest,   \* the reviewed documents of this build
    ordinal,    \* the next session to normalise
    reference,  \* ReferenceNormalizer.previous
    previous,   \* OutcomePriceNormalizer.previous
    pending,    \* OutcomePriceNormalizer.pending: prices that wait for a trade
    bars,       \* rows of the bars table
    prices,     \* rows of the outcome_prices table
    pools,      \* rows of the universes table, by session
    reviewed    \* the reviewed choices and repairs applied so far

chains == <<manifest, ordinal, reference, previous, pending, bars, prices, pools, reviewed>>

ChainsInit ==
    /\ manifest \in {m \in Manifests : Accepted(m)}
    /\ ordinal = 0
    /\ reference = [s \in Security |-> None]
    /\ previous = [s \in Security |-> None]
    /\ pending = [s \in Security |-> <<>>]
    /\ bars = {}
    /\ prices = {}
    /\ pools = [d \in {} |-> {}]
    /\ reviewed = {}

----------------------------------------------------------------------------
Bound(d, raw) == {r \in manifest.reviews : r.session = d /\ raw[r.security].kind # "missing"}

\* The builder stops at a row that is not the one reviewed.
ReviewsFit(d, raw) == \A r \in Bound(d, raw) : raw[r.security] = r.expected

RowRead(d, s, raw) ==
    IF \E r \in Bound(d, raw) : r.security = s
    THEN (CHOOSE r \in Bound(d, raw) : r.security = s).row
    ELSE raw[s]

AllReviewed == reviewed = {KeyOf(r) : r \in manifest.reviews}

----------------------------------------------------------------------------
(***************************************************************************)
(* ReferenceNormalizer.day for one security.                               *)
(***************************************************************************)
AnyPrevious(d, prev) == prev # None
Continuous(d, prev) == prev # None /\ prev.ordinal = d - 1

\* A changed reference of a halted security is believed only when every
\* price of the row moved with it.
HaltCoherent(prev, row) == row.kind = "halted" => prev.close = row.preclose \/ row.close = row.preclose

BarTaken(d, prev, row) == row.kind \in WholeRow /\ (Continuous(d, prev) => HaltCoherent(prev, row))

FactorAfter(prev, row) == prev.factor + prev.close - row.preclose

Bar(d, s, prev, row) ==
    [security |-> s, session |-> d, close |-> row.close, preclose |-> row.preclose,
     factor |-> IF Continuous(d, prev) THEN FactorAfter(prev, row) ELSE 0,
     start |-> IF Continuous(d, prev) THEN prev.start ELSE d,
     streak |-> IF Continuous(d, prev) THEN prev.streak + 1 ELSE 1,
     tradable |-> row.kind # "halted", active |-> row.kind = "traded"]

DayBars(d, rows) ==
    {Bar(d, s, reference[s], rows[s]) : s \in {t \in Security : BarTaken(d, reference[t], rows[t])}}

Held(d, s, row, taken) ==
    IF row.kind = "missing" THEN reference[s]
    ELSE IF \E b \in taken : b.security = s
         THEN LET b == CHOOSE b \in taken : b.security = s
              IN [ordinal |-> d, close |-> b.close, factor |-> b.factor, start |-> b.start, streak |-> b.streak]
         ELSE None

----------------------------------------------------------------------------
(***************************************************************************)
(* The universe: a bar of enough history that trades, unless its security  *)
(* is being liquidated and that was published on an earlier session.       *)
(***************************************************************************)
Excluded(s, d) == \E e \in manifest.liquidations : e.security = s /\ e.published < d /\ e.effective <= d

Eligible(b) == b.streak >= Streak /\ b.tradable /\ b.active /\ ~Excluded(b.security, b.session)

Pool(taken) == {b.security : b \in {c \in taken : Eligible(c)}}

PoolsAfter(d, pool) == IF Cardinality(pool) >= 2 THEN [e \in DOMAIN pools \cup {d} |-> IF e = d THEN pool ELSE pools[e]]
                       ELSE pools

----------------------------------------------------------------------------
(***************************************************************************)
(* OutcomePriceNormalizer.day for one security.  A calendar gap breaks the *)
(* chain first, and then every failed requirement does.                    *)
(***************************************************************************)
Anchor(d, s) == IF Continuous(d, previous[s]) THEN previous[s] ELSE None

\* _full: a complete feature row; _amount_consensus; _sparse: a halt without
\* activity figures that keeps the price it had.
PriceTaken(d, s, row, barTaken) ==
    \/ row.kind = "amounts"
    \/ row.kind \in WholeRow /\ barTaken /\ (Anchor(d, s) # None => HaltCoherent(Anchor(d, s), row))
    \/ /\ row.kind = "blank"
       /\ Anchor(d, s) # None
       /\ row.close = row.preclose
       /\ row.preclose = Anchor(d, s).close

\* Trading with a positive volume and amount.
Confirms(row) == row.kind \in {"traded", "amounts"}

Price(d, s, row) ==
    LET a == Anchor(d, s)
    IN [security |-> s, session |-> d, close |-> row.close, preclose |-> row.preclose,
        available |-> IF a = None THEN At(d, Evening) ELSE Later(At(d, Evening), a.available),
        factor |-> IF a = None THEN 0 ELSE FactorAfter(a, row),
        start |-> IF a = None THEN d ELSE a.start,
        sparse |-> row.kind = "blank", trade |-> Confirms(row), confirmed |-> None]

\* Pending prices that outlive a calendar gap were dropped with their chain.
Waiting(d, s) == IF previous[s] # None /\ ~Continuous(d, previous[s]) THEN <<>> ELSE pending[s]

\* A consensus of aliases confirms when its own record is available, a bar
\* when the bar is.
Confirmed(p, row, record) ==
    [p EXCEPT !.available = Later(p.available, record.available),
              !.confirmed = IF row.kind = "amounts" THEN record.available ELSE At(record.session, Evening)]

EmittedAtOnce(d, s, row, taken) == IF taken THEN {Price(d, s, row)} ELSE {}

Emitted(d, s, row, taken) ==
    LET record == Price(d, s, row)
        waiting == Waiting(d, s)
    IN IF ~taken THEN {}
       ELSE IF waiting # <<>> /\ Confirms(row)
            THEN {Confirmed(p, row, record) : p \in Range(waiting)} \cup {record}
       ELSE IF record.sparse \/ waiting # <<>> THEN {} ELSE {record}

PendingAfter(d, s, row, taken) ==
    LET record == Price(d, s, row)
        waiting == Waiting(d, s)
    IN IF ~taken \/ (waiting # <<>> /\ Confirms(row)) THEN <<>>
       ELSE IF record.sparse \/ waiting # <<>> THEN Append(waiting, record) ELSE <<>>

PreviousAfter(d, s, row, taken) ==
    IF ~taken THEN None
    ELSE LET p == Price(d, s, row)
         IN [ordinal |-> d, close |-> p.close, factor |-> p.factor, start |-> p.start, available |-> p.available]

----------------------------------------------------------------------------
(***************************************************************************)
(* One session: both normalisers run, then the tables take their rows.     *)
(***************************************************************************)
NormaliseDay(raw) ==
    LET d == ordinal
        rows == [s \in Security |-> RowRead(d, s, raw)]
        taken == DayBars(d, rows)
        priced == [s \in Security |-> PriceTaken(d, s, rows[s], \E b \in taken : b.security = s)]
    IN /\ d \in Session
       /\ ReviewsFit(d, raw)
       /\ ordinal' = d + 1
       /\ reference' = [s \in Security |-> Held(d, s, rows[s], taken)]
       /\ bars' = bars \cup taken
       /\ pools' = PoolsAfter(d, Pool(taken))
       /\ prices' = prices \cup UNION {Emitted(d, s, rows[s], priced[s]) : s \in Security}
       /\ pending' = [s \in Security |-> PendingAfter(d, s, rows[s], priced[s])]
       /\ previous' = [s \in Security |-> PreviousAfter(d, s, rows[s], priced[s])]
       /\ UNCHANGED manifest
       /\ reviewed' = reviewed \cup {KeyOf(r) : r \in Bound(d, raw)}

\* finish: a tail no trade confirmed is discarded.
FinishPrices ==
    /\ pending' = [s \in Security |-> <<>>]
    /\ previous' = [s \in Security |-> None]
    /\ UNCHANGED <<manifest, ordinal, reference, bars, prices, pools, reviewed>>

----------------------------------------------------------------------------
(***************************************************************************)
(* Properties.                                                             *)
(***************************************************************************)
Adjusted(r) == r.close + r.factor

Of(table, r, d) == {q \in table : q.security = r.security /\ q.start = r.start /\ q.session = d}

\* A chain has no hole, and one session's move is its close over the
\* reference the provider gave for that session.
Unbroken(table) ==
    \A r, q \in table :
        r.security = q.security /\ r.start = q.start /\ r.session < q.session =>
            \E n \in Of(table, r, r.session + 1) :
                Adjusted(n) - Adjusted(r) = n.close - n.preclose
=============================================================================
