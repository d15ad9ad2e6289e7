---------------------------- MODULE MarketStore ----------------------------
(***************************************************************************)
(* build_store, which normalises the whole calendar into one SQLite file,  *)
(* and MarketStore, which opens such a file and serves one scoring day.    *)
(*                                                                         *)
(* The builder creates the file exclusively, commits on some days, and     *)
(* writes the metadata with the last commit.  It may stop at any point.    *)
(* The rows of a table that is being built are the variables of            *)
(* PriceChains; `disk' is what a reader of the file would find.            *)
(***************************************************************************)
EXTENDS PriceChains

CONSTANTS
    Raw,        \* the raw rows a security may have, by security
    CommitEvery, \* commit after every so many days (25)
    Horizon,    \* sessions from scoring to the end of the label (20)
    Lookback,   \* sessions of features before the scoring day (60)
    Warmup      \* sessions a scoring day needs before it (79)

ASSUME RawAssumption == \A s \in Security : \A row \in Raw[s] : Quoted(row)
ASSUME HorizonAssumption == Horizon \in Nat \ {0} /\ Lookback \in Nat

VARIABLES
    phase,      \* of the builder: idle, building, stopped, done
    disk        \* None, or the committed content of the destination

marketVars == <<chains, phase, disk>>

NoRows ==
    [sessions |-> 0, bars |-> {}, prices |-> {}, pools |-> [d \in {} |-> {}], exits |-> {}, metadata |-> FALSE]

MarketInit ==
    /\ ChainsInit
    /\ phase = "idle"
    /\ disk = None

----------------------------------------------------------------------------
(***************************************************************************)
(* build_exit_references: after a conversion the old security is valued by *)
(* its successor, in the chain the old one ended with.  Any requirement    *)
(* that fails stops the build.                                             *)
(***************************************************************************)
RowOf(table, s, d) == {r \in table : r.security = s /\ r.session = d}
The(rows) == CHOOSE r \in rows : TRUE

ConversionFits(c) ==
    LET old == RowOf(prices, c.old, c.oldAnchor)
        new == RowOf(prices, c.successor, c.first)
    IN /\ old # {} /\ new # {}
       /\ c.first > c.effective =>
            /\ The(new).start = c.first
            /\ \A p \in prices : p.security = c.successor => p.session >= c.first
       /\ \A p \in prices : p.security = c.old /\ p.session <= c.effective => p.session <= c.oldAnchor
       /\ c.last \in Session
       /\ \A d \in c.first .. c.last :
            /\ RowOf(prices, c.old, d) = {}
            /\ \E q \in RowOf(prices, c.successor, d) : q.start = The(new).start

Exit(c, d) ==
    LET old == The(RowOf(prices, c.old, c.oldAnchor))
        new == The(RowOf(prices, c.successor, c.first))
        quote == The(RowOf(prices, c.successor, d))
    IN [security |-> c.old, session |-> d, start |-> old.start,
        value |-> old.factor + c.ratio + Adjusted(quote) - new.factor,
        available |-> Later(Later(quote.available, At(c.confirmed, Evening)),
                            Later(old.available, new.available))]

Exits == {Exit(e[1], e[2]) : e \in {f \in manifest.conversions \X Session : f[2] \in f[1].first .. f[1].last}}

----------------------------------------------------------------------------
Untouched == UNCHANGED chains

\* The destination must not exist; it is then created exclusively.
StartBuild ==
    /\ phase = "idle"
    /\ disk = None
    /\ phase' = "building"
    /\ disk' = NoRows
    /\ Untouched

BuildDay ==
    /\ phase = "building"
    /\ \E raw \in [Security -> UNION {Raw[s] : s \in Security}] :
        /\ \A s \in Security : raw[s] \in Raw[s]
        /\ NormaliseDay(raw)
    /\ disk' = IF ordinal % CommitEvery = 0
               THEN [sessions |-> ordinal + 1, bars |-> bars', prices |-> prices', pools |-> pools',
                     exits |-> {}, metadata |-> FALSE]
               ELSE disk
    /\ UNCHANGED phase

\* A row that is not as reviewed raises out of the loop; so does a stop.
StopBuild ==
    /\ phase = "building"
    /\ phase' = "stopped"
    /\ UNCHANGED disk
    /\ Untouched

FinishEarly ==
    /\ phase = "building"
    /\ FinishPrices
    /\ disk' = [sessions |-> ordinal, bars |-> bars, prices |-> prices, pools |-> pools,
                exits |-> {}, metadata |-> TRUE]
    /\ phase' = "done"

FinishBuild ==
    /\ phase = "building"
    /\ ordinal = Sessions
    /\ AllReviewed
    /\ FinishPrices
    /\ \A c \in manifest.conversions : ConversionFits(c)
    /\ disk' = [sessions |-> ordinal, bars |-> bars, prices |-> prices, pools |-> pools,
                exits |-> Exits, metadata |-> TRUE]
    /\ phase' = "done"

\* Another attempt finds the destination and refuses before it writes.
MarketNext == StartBuild \/ BuildDay \/ StopBuild \/ FinishBuild

MarketSpec == MarketInit /\ [][MarketNext]_marketVars

----------------------------------------------------------------------------
(***************************************************************************)
(* Reading.  `through' bounds a reader of features alone.                  *)
(***************************************************************************)
Opens == disk # None /\ disk.metadata

Warm(d) == d >= Warmup

ChainAt(table, s, d) == {r.start : r \in RowOf(table, s, d)}

\* Bars after the scoring day serve only in the chain of that day.
FeatureInputs(d, last) ==
    [bars |-> {b \in disk.bars : /\ b.session \in (d - Lookback) .. last
                                 /\ b.session > d => b.start \in ChainAt(disk.bars, b.security, d)},
     pools |-> [e \in DOMAIN disk.pools \cap (d - Horizon + 1) .. d |-> disk.pools[e]]]

LastOf(d) == IF d + Horizon < Sessions THEN d + Horizon ELSE Sessions - 1

\* Outcome prices serve in the chain that held on the scoring day.
OutcomeSlice(d, wanted) ==
    {p \in disk.prices : p.session \in wanted /\ p.start \in ChainAt(disk.prices, p.security, d)}

ExitSlice(d, wanted) ==
    {x \in disk.exits : x.session \in wanted \ {d} /\ x.start \in ChainAt(disk.prices, x.security, d)}

Slice(d, wanted) == [prices |-> OutcomeSlice(d, wanted), exits |-> ExitSlice(d, wanted)]

ReadDay(d) == [inputs |-> FeatureInputs(d, LastOf(d)), outcomes |-> Slice(d, d .. LastOf(d))]
ReadFeatureDay(d) == FeatureInputs(d, d)
LabelsWithoutEntry(d) == Slice(d, {d, LastOf(d)})
ReadLabelDay(d) == Slice(d, {d, LastOf(d)} \cup ({d + 1} \cap Session))

----------------------------------------------------------------------------
(***************************************************************************)
(* What the label builder makes of a security's outcome prices: the return *)
(* from the session after scoring to the end of the horizon, with the time *)
(* both prices were known.                                                 *)
(***************************************************************************)
\* The end of the horizon is a price, or else the value of a conversion.
Endings(slice, s, d) ==
    LET priced == {[start |-> p.start, value |-> Adjusted(p), available |-> p.available] : p \in RowOf(slice.prices, s, d)}
        valued == {[start |-> x.start, value |-> x.value, available |-> x.available] : x \in RowOf(slice.exits, s, d)}
    IN IF priced # {} THEN priced ELSE valued

Observation(slice, s, d) ==
    LET usable == {e \in RowOf(slice.prices, s, d) \X RowOf(slice.prices, s, d + 1) \X Endings(slice, s, d + Horizon) :
                      /\ e[1].available <= At(d, Scoring)
                      /\ e[1].start = e[2].start /\ e[2].start = e[3].start}
    IN IF d + Horizon >= Sessions \/ usable = {} THEN None
       ELSE LET e == The(usable)
            IN [value |-> e[3].value - Adjusted(e[2]), ready |-> Later(e[2].available, e[3].available)]

----------------------------------------------------------------------------
(***************************************************************************)
(* Properties.                                                             *)
(***************************************************************************)
\* A price chain has no hole, in the bars and in the label prices alike, and
\* carries each session's move whole: suspensions, changed references and
\* prices that waited for a trade do not leak into it.
ChainsUnbroken == Unbroken(bars) /\ Unbroken(prices)

\* A halted price without activity figures is published only once a later
\* trade of its chain was available, and no sooner.
SparseConfirmed ==
    \A p \in prices : p.sparse =>
        \E q \in prices : /\ q.security = p.security /\ q.start = p.start
                          /\ q.session > p.session /\ q.trade
                          /\ p.available >= q.available

\* A store that opens holds the whole calendar, none of it a session short,
\* and no price that still waits.
OpensWhole ==
    Opens => /\ phase = "done"
             /\ disk.sessions = Sessions
             /\ disk.bars = bars /\ disk.prices = prices
             /\ AllReviewed

\* The features of a day are those of the full reader with everything later
\* removed, and the three positions of the label reader give the same outcome.
ReadersAgree ==
    Opens => \A d \in Session : Warm(d) =>
        /\ ReadFeatureDay(d).pools = ReadDay(d).inputs.pools
        /\ ReadFeatureDay(d).bars = {b \in ReadDay(d).inputs.bars : b.session <= d}
        /\ d \in DOMAIN disk.pools => \A s \in disk.pools[d] :
              Observation(ReadLabelDay(d), s, d) = Observation(ReadDay(d).outcomes, s, d)

\* The chains of prices have no hole over suspensions, changed names and
\* reviewed rows, and a halted price is published only once a trade confirmed
\* it.
ChainsSound == ChainsUnbroken /\ SparseConfirmed

\* A store that opens is one whose build was finished, whatever was committed
\* before it stopped, and its three readers agree about a scoring day.
StoreSound == OpensWhole /\ ReadersAgree
=============================================================================
