----------------------------- MODULE MCRoundTrip ------------------------------
(* Instances of RoundTrip: house numbers 0 to 5; the left side asserts any  *)
(* range with any parity or none, the right side one of four.               *)
EXTENDS RoundTrip

MCNumbers == 0 .. 5

MCLeftSides == SideAttributes(MCNumbers)

MCRightSides ==
  {[from |-> Null, to |-> 4, parity |-> "E"],
   [from |-> 0, to |-> 4, parity |-> "E"],
   [from |-> 5, to |-> 1, parity |-> "O"],
   [from |-> 3, to |-> 3, parity |-> "B"]}
=============================================================================
