----------------------------- MODULE MCCarWindow -----------------------------
(***************************************************************************)
(* An instance of CarWindow for TLC: a car so large that each border is a  *)
(* few steps away, and clicks on both sides of every edge of the layout.   *)
(***************************************************************************)
EXTENDS CarWindowInv

CONSTANTS a, b

LargeWidth == screenWidth - 4
LargeHeight == windowYBoundary - 2
Size == TextFrame(MaxChars) + 1

Clicks == {<<849, 760>>, <<850, 740>>, <<899, 789>>, <<900, 760>>, <<1199, 760>>,
           <<1200, 740>>, <<1250, 790>>, <<1251, 790>>, <<0, 705>>, <<1498, 729>>,
           <<1499, 710>>, <<1500, 705>>, <<1598, 729>>, <<1495, 805>>, <<1496, 804>>}
=============================================================================
