--------------------------- MODULE MCOrderClient ---------------------------
(* Small instances of OrderClient for TLC. *)
EXTENDS OrderClient, TLC

CONSTANTS a, b, c, f, r, w, m, n

\* Three bids of this client: a maker's of one lot, a taker's of two that may fill on
\* entry, wholly or in part, and a maker's in a second market.  Another process bids
\* for two lots in the first.
Market == [x \in Orders \union Sweeps |-> IF x = c THEN "ETH" ELSE "BTC"]
Flat == [s \in Symbols |-> 0]
AllBuy == [x \in Orders |-> "BUY"]
OneOrTwo == [x \in Orders |-> IF x \in {b, f} THEN 2 ELSE 1]
OneLot == [x \in Orders |-> 1]
MakersAndTaker == [x \in Orders |-> IF x = b THEN "GTC" ELSE "POST_ONLY"]

\* Bound: the checks relate two orders, so the client has two of them in play, in one
\* market or in two, or one of them and a sweep or the other process's order.
InPlay == {i \in Intents : prepared[i] # 0}
              \union {i \in Others : order[i] # Absent}
              \union {s \in Sweeps : SweepOf(s) \in attempted}
TwoInPlay == \E pair \in {{a, b}, {a, c}, {a, f}, {b, w}} : InPlay \subseteq pair

\* The nonces are drawn in any order and only compared.  Under fairness, where TLC
\* takes no symmetry, one order of drawing them stands for the other.
AnyNonce == Permutations(Nonces)
InTurn == n \in nonces => m \in nonces
=============================================================================
