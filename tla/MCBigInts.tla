------------------------------ MODULE MCBigInts ------------------------------
(* Limbs of four bits and ternary text: two digits to a chunk.             *)
EXTENDS BigInts
SomeLimbs == {0, 1, 8, 15}
TwoLimbs == {a + 16 * b : a, b \in SomeLimbs}
SignedTwoLimbs == TwoLimbs \cup {-n : n \in TwoLimbs}
OneNegative == TwoLimbs \cup {-255}
OnlyZero == {0}
SomeBitCounts == {0, 1, 4, 5, 8, 9, 15}
SomeHalves == -35 .. 35
SomeRadices == {2, 3, 5, 10}
SomeFirst == {0, 256, 1265, -1280}
==============================================================================
