---- MODULE MCOrderLedger ----
(* Bounds for checking OrderLedger: two lines, two quantities, a free sheet  *)
(* of terms and one with tax, discount and shipping, three payments of one   *)
(* cent or two of two.                                                       *)
EXTENDS OrderLedger, TLC

CONSTANTS i1, i2, r1, r2

MCTerms == {[tax_rate |-> 0,  discount |-> 0, shipping |-> 0],
            [tax_rate |-> 50, discount |-> 2, shipping |-> 1]}

\* Lines are interchangeable, and so are refund requests.
Symmetry == Permutations({i1, i2}) \cup Permutations({r1, r2})
====
