---- MODULE MCApiClient ----
EXTENDS ApiClient

CONSTANTS q1, q2, q3, guardian, none
====
