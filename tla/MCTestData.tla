----------------------------- MODULE MCTestData -----------------------------
EXTENDS TestData, TLC
CONSTANTS b1, b2, c1, c2, f1, f2
MCBench == {b1, b2}
\* in a Git job c2 has a submodule besides its file
MCTree == c1 :> {f1, f2} @@ c2 :> {f2}
Sym == Permutations(MCBench)
=============================================================================
