--------------------------- MODULE MCApiExchange ---------------------------
(* Model values for ApiExchange: two parameters, one of which takes every  *)
(* value and the other a few.  The 18 others take 58 bytes at most.        *)
EXTENDS ApiExchange, TLC

CONSTANTS gain, wah, short, medium, long, none

TwoParams == {gain, wah}
ThreeNames == {short, medium, long}
Lengths == (none :> 0) @@ (short :> 12) @@ (medium :> 31) @@ (long :> 32)
Tags == (gain :> 1) @@ (wah :> 2)
ThreeIds == 1 .. 3
ThreeBytes == {0, 1, 127}
Thousandths == 0 .. 1000
Others == {0, 503, 1000}
ManyParameters ==
    {(gain :> k) @@ (wah :> t) : k \in Thousandths, t \in Others}
=============================================================================
