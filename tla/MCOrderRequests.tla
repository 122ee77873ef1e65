---- MODULE MCOrderRequests ----
EXTENDS OrderRequests, TLC

CONSTANTS i1, i2, r1, w1, w2, none

\* No tax, no discount; and a discount that one line's price cannot bear.
MCTerms == {[tax_rate |-> 0, discount |-> 0, shipping |-> 0],
            [tax_rate |-> 0, discount |-> 2, shipping |-> 0]}
PlainTerms == {[tax_rate |-> 0, discount |-> 0, shipping |-> 0]}

Symmetry == Permutations({w1, w2}) \cup Permutations({i1, i2})
====
