---- MODULE MCMobileMoney ----
EXTENDS MobileMoney, TLC

CONSTANTS h1, h2, t1, t2, none

Symmetry == Permutations({h1, h2}) \cup Permutations({t1, t2})
====
