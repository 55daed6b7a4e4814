---------------------------- MODULE OrderPrices ----------------------------
(***************************************************************************)
(* The prices this code chooses by itself: the quotes of the maker         *)
(* (strategy.py, MakerPolicy.quotes), at most one per side, around the     *)
(* middle of the book's top and within an inventory limit; and the limit   *)
(* of a marketable order (client_orders.py, fair_price_band and            *)
(* marketable_limit_price), within the band around the index price and no  *)
(* worse than the caller allows.                                           *)
(*                                                                         *)
(* A price is a number of units; basis points and multipliers are numbers  *)
(* of 1/Scale, and arithmetic is exact, so prices are compared after       *)
(* multiplying out.  The code computes in Decimal, quotes with 28 digits   *)
(* and marketable_limit_price with 80, so it agrees with this module while *)
(* the products fit in that many digits.  The top of the book is the one   *)
(* DepthBook answers with.  A quantity that LOT_SIZE rejects makes every   *)
(* call raise and is left out.                                             *)
(* Operators only; PureCalls calls them.                                   *)
(***************************************************************************)
EXTENDS Integers

CONSTANTS
    Scale,          \* n = Scale is the whole
    Ticks,          \* tick sizes
    HalfSpread,     \* half_spread_bps
    Quantity, MaxPosition, MaxNotional,
    MinPrice, MaxPrice,   \* the market's PRICE_FILTER
    MinNotional,    \* and MIN_NOTIONAL
    MaxAge,         \* book.max_age_ms
    Positions,      \* bound: the inventories observed
    Bands,          \* the bands a market may advertise: [down, up]
    BandBps,        \* the configured half-widths of the fall-back band
    Indexes, WorstPrices  \* bound: prices

NoBand == [down |-> 0, up |-> 0]

ASSUME PriceBounds ==
    /\ Scale \in Nat \ {0} /\ HalfSpread \in 1..Scale
    /\ {Quantity, MaxPosition, MaxNotional, MinPrice, MinNotional} \subseteq Nat \ {0}
    /\ MaxPrice \in Nat /\ MaxAge \in Nat /\ Positions \subseteq Int
    /\ \A b \in Bands : b.down \in 1..(Scale - 1) /\ b.up \in Nat /\ b.up > Scale
    /\ BandBps \subseteq 1..(Scale - 1)
    /\ Ticks \union Indexes \union WorstPrices \subseteq Nat \ {0}

Sides == {"BUY", "SELL"}

\* The arguments of a call: age is negative for an observation from the future,
\* outstanding says that an earlier quote may be live, worst = 0 that the caller
\* names no worst price.
Tops == {t \in [bid : 1..MaxPrice, ask : 1..MaxPrice] : t.bid < t.ask}

QuotesCalls == [kind : {"quotes"}, tick : Ticks, position : Positions,
                age : -1..(MaxAge + 1), outstanding : BOOLEAN, top : Tops]

\* Execution multipliers come with resting ones, in the same PERCENT_PRICE filter.
MarketableCalls ==
    {c \in [kind : {"marketable"}, tick : Ticks, side : Sides, index : Indexes,
            worst : WorstPrices \union {0}, resting : Bands \union {NoBand},
            execution : Bands \union {NoBand}, bps : BandBps] :
        c.resting = NoBand => c.execution = NoBand}
-----------------------------------------------------------------------------
Least(x, y) == IF x <= y THEN x ELSE y
Greatest(x, y) == IF x >= y THEN x ELSE y
Floor(n, d) == n \div d
Ceiling(n, d) == -((-n) \div d)

(* MakerPolicy.quotes.  mid - offset and mid + offset are                   *)
(* (bid + ask) (Scale -+ HalfSpread) / (2 Scale).                           *)

BelowMid(c) == (c.top.bid + c.top.ask) * (Scale - HalfSpread)
AboveMid(c) == (c.top.bid + c.top.ask) * (Scale + HalfSpread)
TickUnit(c) == 2 * Scale * c.tick

TowardsMiddle(c, side) ==                  \* mutant: rounds the other way
    IF side = "BUY" THEN Least(c.top.bid, Ceiling(BelowMid(c), TickUnit(c)) * c.tick)
    ELSE Greatest(c.top.ask, Floor(AboveMid(c), TickUnit(c)) * c.tick)
QuotePrice(c, side) ==
    IF side = "BUY" THEN Least(c.top.bid, Floor(BelowMid(c), TickUnit(c)) * c.tick)
    ELSE Greatest(c.top.ask, Ceiling(AboveMid(c), TickUnit(c)) * c.tick)

Within(p) == p \in -MaxPosition..MaxPosition
AfterFill(c, side) == c.position + (IF side = "BUY" THEN Quantity ELSE -Quantity)

\* A side whose fill would exceed the limit is left out; a price that
\* validate_order or the notional cap refuses raises.
FillNotCounted(c, side) == Within(c.position)  \* mutant
HasRoom(c, side) == Within(AfterFill(c, side))
Valid(p, tick) == p \in MinPrice..MaxPrice /\ p % tick = 0 /\ p * Quantity >= MinNotional

MayQuote(c) ==
    /\ c.age \in 0..MaxAge /\ ~c.outstanding /\ Within(c.position)
    /\ \A s \in Sides : HasRoom(c, s) => /\ Valid(QuotePrice(c, s), c.tick)
                                         /\ QuotePrice(c, s) * Quantity <= MaxNotional

\* The price on each side, 0 for a side left out.
QuotesOf(c) == [s \in Sides |-> IF HasRoom(c, s) THEN QuotePrice(c, s) ELSE 0]
-----------------------------------------------------------------------------
(* marketable_limit_price.  Bands and bounds are times Scale. *)

Configured(c) == [down |-> Scale - c.bps, up |-> Scale + c.bps]

ExecutionOnly(c) ==                        \* mutant: no intersection
    IF c.execution # NoBand THEN c.execution ELSE Configured(c)
fair_price_band(c) ==
    LET selected == IF c.execution # NoBand THEN c.execution ELSE Configured(c)
    IN  IF c.resting = NoBand THEN selected
        ELSE [down |-> Greatest(c.resting.down, selected.down),
              up |-> Least(c.resting.up, selected.up)]

Lower(c) == c.index * fair_price_band(c).down
Upper(c) == c.index * fair_price_band(c).up
Bound(c) == IF c.side = "BUY"
            THEN IF c.worst = 0 THEN Upper(c) ELSE Least(c.worst * Scale, Upper(c))
            ELSE IF c.worst = 0 THEN Lower(c) ELSE Greatest(c.worst * Scale, Lower(c))

\* ROUND_FLOOR for a buy, ROUND_CEILING for a sell.
AlwaysDown(c) == Floor(Bound(c), c.tick * Scale) * c.tick  \* mutant: one direction
ToTick(c) == IF c.side = "BUY" THEN Floor(Bound(c), c.tick * Scale) * c.tick
             ELSE Ceiling(Bound(c), c.tick * Scale) * c.tick

Admissible(c, p) == Lower(c) <= p * Scale /\ p * Scale <= Upper(c) /\ p > 0
=============================================================================
