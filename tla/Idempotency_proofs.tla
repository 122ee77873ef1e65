--------------------------- MODULE Idempotency_proofs ---------------------------
(***************************************************************************)
(* The retries of a request are executed once, for any number of them, if  *)
(* no handler outlives its lock and the write that records the answer does *)
(* not fail: the two assumptions the code makes without checking them.     *)
(***************************************************************************)
EXTENDS Idempotency, TLAPS

\* The lock is held by one request, which finds the mark in the key.
HolderHasKey == \A r \in Requests : Holds(r) => key = Processing
OneHolder    == \A r, s \in Requests : Holds(r) /\ Holds(s) => r = s

\* Once an answer is recorded the key keeps it: nobody holds the lock any more.
AnswerKept == \A r \in Requests :
  /\ req[r].guarded /\ req[r].phase = "cached" => key = r
  /\ req[r].guarded /\ req[r].phase = "answered" => key = req[r].answer
  /\ req[r].guarded /\ r \in committed => key = r

\* What a request knows: only one that was answered has an answer, a waiting one
\* has reads left, Redis has not failed one that never ran, and one that releases
\* the lock once took it.
Knows == \A r \in Requests :
  /\ req[r].phase \in {"new", "waiting"} => req[r].guarded /\ req[r].reads < Reads
  /\ req[r].phase = "failing" => req[r].guarded
  /\ req[r].phase = "answered" <=> req[r].answer \in Requests
  /\ r \in committed => req[r].phase = "answered"

IInv == TypeOK /\ HolderHasKey /\ OneHolder /\ AnswerKept /\ Knows
LEMMA InitInvariant == Init => IInv
  BY MarkAssumption, ReadsAssumption DEF Init, IInv, TypeOK, Request, Live, Over,
     HolderHasKey, OneHolder, AnswerKept, Knows, Holds

\* Every step keeps the invariant.  A claim finds the key empty, so no answer was
\* recorded and nobody holds the lock; the lock outlives its holders, so a release
\* or a recorded answer is always that of the one holder.
LEMMA StepInvariant ==
  ASSUME HandlersBeatTTL, "cache" \notin RedisFaults, IInv, [Next]_vars
  PROVE  IInv'
  <1> USE MarkAssumption, ReadsAssumption DEF Request, Live, Over, Holds
  <1>1. ASSUME NEW r \in Requests, Claim(r) PROVE IInv'
    <2>1. TypeOK'
      BY <1>1 DEF IInv, TypeOK, Claim, Goto
    <2>2. HolderHasKey' /\ OneHolder'
      BY <1>1 DEF IInv, TypeOK, HolderHasKey, OneHolder, AnswerKept, Knows, Claim, Goto
    <2>3. AnswerKept' /\ Knows'
      BY <1>1 DEF IInv, TypeOK, HolderHasKey, OneHolder, AnswerKept, Knows, Claim, Goto
    <2> QED BY <2>1, <2>2, <2>3 DEF IInv
  <1>2. ASSUME NEW r \in Requests, ClaimRefused(r) PROVE IInv'
    <2>1. TypeOK'
      BY <1>2 DEF IInv, TypeOK, ClaimRefused, Goto
    <2>2. HolderHasKey' /\ OneHolder'
      BY <1>2 DEF IInv, TypeOK, HolderHasKey, OneHolder, AnswerKept, Knows, ClaimRefused, Goto
    <2>3. AnswerKept' /\ Knows'
      BY <1>2 DEF IInv, TypeOK, HolderHasKey, OneHolder, AnswerKept, Knows, ClaimRefused, Goto
    <2> QED BY <2>1, <2>2, <2>3 DEF IInv
  <1>3. ASSUME NEW r \in Requests, Replay(r) PROVE IInv'
    <2>1. TypeOK'
      BY <1>3 DEF IInv, TypeOK, Replay
    <2>2. HolderHasKey' /\ OneHolder'
      BY <1>3 DEF IInv, TypeOK, HolderHasKey, OneHolder, AnswerKept, Knows, Replay
    <2>3. AnswerKept' /\ Knows'
      BY <1>3 DEF IInv, TypeOK, HolderHasKey, OneHolder, AnswerKept, Knows, Replay
    <2> QED BY <2>1, <2>2, <2>3 DEF IInv
  <1>4. ASSUME NEW r \in Requests, ReadAgain(r) PROVE IInv'
    <2>1. TypeOK'
      <3> DEFINE new == [req[r] EXCEPT
                           !.reads = req[r].reads + 1,
                           !.phase = IF req[r].reads + 1 = Reads THEN "conflict" ELSE "waiting"]
      <3>1. req[r] \in Request /\ req[r].reads + 1 \in 0..Reads
        BY <1>4 DEF IInv, TypeOK, Knows, ReadAgain
      <3>2. new \in Request
        BY <3>1
      <3>3. req' = [req EXCEPT ![r] = new]
        BY <1>4 DEF ReadAgain
      <3> HIDE DEF new
      <3> QED BY <1>4, <3>2, <3>3 DEF IInv, TypeOK, ReadAgain
    <2>2. HolderHasKey' /\ OneHolder'
      BY <1>4 DEF IInv, TypeOK, HolderHasKey, OneHolder, AnswerKept, Knows, ReadAgain
    <2>3. AnswerKept' /\ Knows'
      BY <1>4 DEF IInv, TypeOK, HolderHasKey, OneHolder, AnswerKept, Knows, ReadAgain
    <2> QED BY <2>1, <2>2, <2>3 DEF IInv
  <1>5. ASSUME NEW r \in Requests, Execute(r) PROVE IInv'
    <2>1. TypeOK'
      BY <1>5 DEF IInv, TypeOK, Execute, Goto
    <2>2. HolderHasKey' /\ OneHolder'
      BY <1>5 DEF IInv, TypeOK, HolderHasKey, OneHolder, AnswerKept, Knows, Execute, Goto
    <2>3. AnswerKept' /\ Knows'
      BY <1>5 DEF IInv, TypeOK, HolderHasKey, OneHolder, AnswerKept, Knows, Execute, Goto
    <2> QED BY <2>1, <2>2, <2>3 DEF IInv
  <1>6. ASSUME NEW r \in Requests, ExecuteRaises(r) PROVE IInv'
    <2>1. TypeOK'
      BY <1>6 DEF IInv, TypeOK, ExecuteRaises, Goto
    <2>2. HolderHasKey' /\ OneHolder'
      BY <1>6 DEF IInv, TypeOK, HolderHasKey, OneHolder, AnswerKept, Knows, ExecuteRaises, Goto
    <2>3. AnswerKept' /\ Knows'
      BY <1>6 DEF IInv, TypeOK, HolderHasKey, OneHolder, AnswerKept, Knows, ExecuteRaises, Goto
    <2> QED BY <2>1, <2>2, <2>3 DEF IInv
  <1>7. ASSUME NEW r \in Requests, Release(r) PROVE IInv'
    <2>0. key' \in {None, key}
      BY <1>7 DEF Release
    <2>1. TypeOK'
      BY <1>7, <2>0 DEF IInv, TypeOK, Release, Goto
    <2>2. HolderHasKey' /\ OneHolder'
      BY <1>7, <2>0 DEF IInv, TypeOK, HolderHasKey, OneHolder, AnswerKept, Knows, Release, Goto
    <2>3. AnswerKept' /\ Knows'
      BY <1>7, <2>0 DEF IInv, TypeOK, HolderHasKey, OneHolder, AnswerKept, Knows, Release, Goto
    <2> QED BY <2>1, <2>2, <2>3 DEF IInv
  <1>8. ASSUME NEW r \in Requests, CacheAnswer(r) PROVE IInv'
    <2>1. TypeOK'
      BY <1>8 DEF IInv, TypeOK, CacheAnswer, Goto
    <2>2. HolderHasKey' /\ OneHolder'
      BY <1>8 DEF IInv, TypeOK, HolderHasKey, OneHolder, AnswerKept, Knows, CacheAnswer, Goto
    <2>3. AnswerKept' /\ Knows'
      BY <1>8 DEF IInv, TypeOK, HolderHasKey, OneHolder, AnswerKept, Knows, CacheAnswer, Goto
    <2> QED BY <2>1, <2>2, <2>3 DEF IInv
  <1>9. ASSUME NEW r \in Requests, Commit(r) PROVE IInv'
    <2>1. TypeOK'
      BY <1>9 DEF IInv, TypeOK, Commit
    <2>2. HolderHasKey' /\ OneHolder'
      BY <1>9 DEF IInv, TypeOK, HolderHasKey, OneHolder, AnswerKept, Knows, Commit
    <2>3. AnswerKept' /\ Knows'
      BY <1>9 DEF IInv, TypeOK, HolderHasKey, OneHolder, AnswerKept, Knows, Commit
    <2> QED BY <2>1, <2>2, <2>3 DEF IInv
  <1>10. ASSUME NEW r \in Requests, ClaimRaises(r) PROVE IInv'
    <2>1. TypeOK'
      BY <1>10 DEF IInv, TypeOK, ClaimRaises, RunUnguarded
    <2>2. HolderHasKey' /\ OneHolder'
      BY <1>10 DEF IInv, TypeOK, HolderHasKey, OneHolder, AnswerKept, Knows, ClaimRaises, RunUnguarded
    <2>3. AnswerKept' /\ Knows'
      BY <1>10 DEF IInv, TypeOK, HolderHasKey, OneHolder, AnswerKept, Knows, ClaimRaises, RunUnguarded
    <2> QED BY <2>1, <2>2, <2>3 DEF IInv
  <1>11. ASSUME NEW r \in Requests, ReadRaises(r) PROVE IInv'
    <2>1. TypeOK'
      BY <1>11 DEF IInv, TypeOK, ReadRaises, RunUnguarded
    <2>2. HolderHasKey' /\ OneHolder'
      BY <1>11 DEF IInv, TypeOK, HolderHasKey, OneHolder, AnswerKept, Knows, ReadRaises, RunUnguarded
    <2>3. AnswerKept' /\ Knows'
      BY <1>11 DEF IInv, TypeOK, HolderHasKey, OneHolder, AnswerKept, Knows, ReadRaises, RunUnguarded
    <2> QED BY <2>1, <2>2, <2>3 DEF IInv
  <1>12. ASSUME NEW r \in Requests, CommitRaises(r) PROVE IInv'
    <2>1. TypeOK'
      BY <1>12 DEF IInv, TypeOK, CommitRaises, Goto
    <2>2. HolderHasKey' /\ OneHolder'
      BY <1>12 DEF IInv, TypeOK, HolderHasKey, OneHolder, AnswerKept, Knows, CommitRaises, Goto
    <2>3. AnswerKept' /\ Knows'
      BY <1>12 DEF IInv, TypeOK, HolderHasKey, OneHolder, AnswerKept, Knows, CommitRaises, Goto
    <2> QED BY <2>1, <2>2, <2>3 DEF IInv
  <1>13. ASSUME NEW r \in Requests, Crash(r) PROVE IInv'
    <2>1. TypeOK'
      BY <1>13 DEF IInv, TypeOK, Crash, Goto
    <2>2. HolderHasKey' /\ OneHolder'
      BY <1>13 DEF IInv, TypeOK, HolderHasKey, OneHolder, AnswerKept, Knows, Crash, Goto
    <2>3. AnswerKept' /\ Knows'
      BY <1>13 DEF IInv, TypeOK, HolderHasKey, OneHolder, AnswerKept, Knows, Crash, Goto
    <2> QED BY <2>1, <2>2, <2>3 DEF IInv
  <1>14. CASE LockExpires
    BY <1>14 DEF IInv, TypeOK, HolderHasKey, OneHolder, AnswerKept, Knows, LockExpires
  <1>15. CASE UNCHANGED vars
    BY <1>15 DEF IInv, TypeOK, HolderHasKey, OneHolder, AnswerKept, Knows, vars
  <1> QED
    BY <1>1, <1>2, <1>3, <1>4, <1>5, <1>6, <1>7, <1>8, <1>9, <1>10, <1>11, <1>12, <1>13, <1>14, <1>15 DEF Next, Proceed, Fault

\* The strengthening is inductive as long as no handler outlasts its key.
THEOREM Invariant ==
  ASSUME HandlersBeatTTL, "cache" \notin RedisFaults
  PROVE  Spec => []IInv
  <1>1. IInv /\ [Next]_vars => IInv'
    BY StepInvariant
  <1> QED BY InitInvariant, <1>1, PTL DEF Spec

\* However many retries of one request arrive, wait, fail, crash or find Redis
\* down, those it guards write at most one payment.
THEOREM ExecutedOnce ==
  ASSUME HandlersBeatTTL, "cache" \notin RedisFaults
  PROVE  Spec => []AtMostOnce
  <1>1. IInv => AtMostOnce
    BY DEF IInv, AtMostOnce, AnswerKept, TypeOK
  <1> QED BY Invariant, <1>1, PTL

\* All who are answered under one key are told of the same payment.
THEOREM SameAnswer ==
  ASSUME HandlersBeatTTL, "cache" \notin RedisFaults
  PROVE  Spec => []AnswersAgree
  <1>1. IInv => AnswersAgree
    BY DEF IInv, AnswersAgree, AnswerKept
  <1> QED BY Invariant, <1>1, PTL
=============================================================================
