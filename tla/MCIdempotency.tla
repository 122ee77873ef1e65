---- MODULE MCIdempotency ----
EXTENDS Idempotency

CONSTANTS q1, q2, q3, none, processing

\* Redis fails at every call but the one that records the answer: losing that
\* write lets the lock expire over a committed payment.
MCFaults == {"claim", "read", "release"}
====
