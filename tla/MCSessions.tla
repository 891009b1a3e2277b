----------------------------- MODULE MCSessions -----------------------------
\* Two browsers of one user; the first has two tabs open.
EXTENDS Sessions, TLC

CONSTANTS b1, b2, t1, t2, t3

\* The two tabs of the first browser are alike.
Symmetry == Permutations({t1, t2})

TwoTabsAndOne == (t1 :> b1) @@ (t2 :> b1) @@ (t3 :> b2)
=============================================================================
