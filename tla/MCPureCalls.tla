--------------------------- MODULE MCPureCalls ---------------------------
(* A small instance of PureCalls for TLC. *)
EXTENDS PureCalls

\* From beyond one limit to beyond the other.
SomePositions == -6..6

\* Multipliers of twentieths: a wide band, a narrow one and a lopsided one.
SomeBands == {[down |-> 14, up |-> 26], [down |-> 18, up |-> 22], [down |-> 16, up |-> 30]}
SomeIndexes == 1..13
SomeWorstPrices == 1..16
SomeTicks == 1..3
=============================================================================
