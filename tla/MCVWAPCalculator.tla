-------------------------- MODULE MCVWAPCalculator --------------------------
(***************************************************************************)
(* The instance of VWAPCalculator for TLC.  A tick is half a second.          *)
(***************************************************************************)
EXTENDS VWAPCalculator, TLC

Ask(side, minutes) == [side |-> side, target_vwap |-> 100, quantity |-> 2, minutes |-> minutes]

\* The first order of a day decides on the calculator's hours.
OneEach == {Ask("BUY", 6), Ask("SELL", 1)}

\* Around the start, the turns of a minute, and the edge of five minutes: at 662 a trade
\* of 62 is just five minutes old, those of 0 and 2 are stale.
HalfSeconds == {0, 2, 62, 662}

\* current_vwap on either side of the target, within and beyond 1 %.
Prices == {98, 101}
Symmetry == Permutations(OrderId)
=============================================================================
