------------------------------ MODULE Idempotency ------------------------------
(***************************************************************************)
(* The guard POST /payments and POST /orders share: the retries of one     *)
(* request carry one X-Idempotency-Key, and a Redis key decides which of   *)
(* them executes and what the others are answered.                         *)
(*                                                                         *)
(* The key holds nothing, the mark PROCESSING (30 s) or the answer of the  *)
(* request that executed (24 h: retries are assumed to come within it).    *)
(* A request executes in a database session that get_db commits only after *)
(* the handler returned, that is after the answer is in Redis.             *)
(***************************************************************************)
EXTENDS Naturals

CONSTANTS
  Requests,         \* deliveries of one request with one key
  Reads,            \* GETs of a waiting request before it gives up (21 in the code)
  RedisFaults,      \* the Redis calls that may raise
  HandlersBeatTTL,  \* no handler runs longer than its lock lives
  None, Processing  \* no value; the mark of the lock

ASSUME ReadsAssumption == Reads \in Nat \ {0}
ASSUME MarkAssumption  == /\ None \notin Requests /\ Processing \notin Requests
                          /\ None # Processing
ASSUME FaultAssumption == RedisFaults \subseteq {"claim", "read", "cache", "release"}
ASSUME TTLAssumption   == HandlersBeatTTL \in BOOLEAN

VARIABLES
  key,        \* the Redis key
  committed,  \* the requests whose execution is in the database
  req         \* what each request is doing

vars == <<key, committed, req>>

Live == {"new", "waiting", "running", "executed", "cached", "failing"}
Over == {"answered", "conflict", "failed", "dead"}

\* guarded: the handler's redis_key is set; answer: whose execution it reports.
Request == [phase : Live \cup Over, guarded : BOOLEAN,
            reads : 0..Reads, answer : Requests \cup {None}]

TypeOK == /\ key \in Requests \cup {None, Processing}
          /\ committed \subseteq Requests
          /\ req \in [Requests -> Request]

Init == /\ key = None
        /\ committed = {}
        /\ req = [r \in Requests |->
                    [phase |-> "new", guarded |-> TRUE, reads |-> 0, answer |-> None]]

Goto(r, phase) == req' = [req EXCEPT ![r].phase = phase]

\* Without Redis the request runs unguarded (fail-open).
RunUnguarded(r) == req' = [req EXCEPT ![r] = [@ EXCEPT !.phase = "running", !.guarded = FALSE]]

\* The request holds the lock, or believes it does.
Holds(r) == req[r].guarded /\ req[r].phase \in {"running", "executed", "failing"}

\* A GET, then a SET: both of two requests find no answer and go on.
ClaimAfterGet(r) ==
  /\ req[r].phase = "new"
  /\ key \notin Requests
  /\ key' = Processing
  /\ Goto(r, "running")
  /\ UNCHANGED committed

\* SET key PROCESSING NX EX 30
Claim(r) ==
  /\ req[r].phase = "new"
  /\ key = None
  /\ key' = Processing
  /\ Goto(r, "running")
  /\ UNCHANGED committed

ClaimRefused(r) ==
  /\ req[r].phase = "new"
  /\ key # None
  /\ Goto(r, "waiting")
  /\ UNCHANGED <<key, committed>>

\* SET raised, its effect done or not.
ClaimRaises(r) ==
  /\ "claim" \in RedisFaults
  /\ req[r].phase = "new"
  /\ key' \in {key, IF key = None THEN Processing ELSE key}
  /\ RunUnguarded(r)
  /\ UNCHANGED committed

\* The waiting request finds the answer of another.
Replay(r) ==
  /\ req[r].phase = "waiting"
  /\ key \in Requests
  /\ req' = [req EXCEPT ![r] = [@ EXCEPT !.phase = "answered", !.answer = key]]
  /\ UNCHANGED <<key, committed>>

\* It reads until the answer is there.
ReadForEver(r) ==
  /\ req[r].phase = "waiting"
  /\ key \notin Requests
  /\ UNCHANGED vars

\* It finds none: sleeps and reads again, or gives up with a 409.
ReadAgain(r) ==
  /\ req[r].phase = "waiting"
  /\ key \notin Requests
  /\ req' = [req EXCEPT ![r] = [@ EXCEPT
                !.reads = req[r].reads + 1,
                !.phase = IF req[r].reads + 1 = Reads THEN "conflict" ELSE "waiting"]]
  /\ UNCHANGED <<key, committed>>

ReadRaises(r) ==
  /\ "read" \in RedisFaults
  /\ req[r].phase = "waiting"
  /\ RunUnguarded(r)
  /\ UNCHANGED <<key, committed>>

\* uc.execute, in the session.
Execute(r) ==
  /\ req[r].phase = "running"
  /\ Goto(r, "executed")
  /\ UNCHANGED <<key, committed>>

\* uc.execute raised: a guarded request still has the lock to release.
ExecuteRaises(r) ==
  /\ req[r].phase = "running"
  /\ Goto(r, IF req[r].guarded THEN "failing" ELSE "failed")
  /\ UNCHANGED <<key, committed>>

\* DEL key, whatever it holds by now and whoever set it; get_db rolls back.
Release(r) ==
  /\ req[r].phase = "failing"
  /\ key' \in {None} \cup IF "release" \in RedisFaults THEN {key} ELSE {}
  /\ Goto(r, "failed")
  /\ UNCHANGED committed

\* SET key <answer> EX 86400; an error is ignored.
CacheAnswer(r) ==
  /\ req[r].phase = "executed"
  /\ IF req[r].guarded
       THEN key' \in {r} \cup IF "cache" \in RedisFaults THEN {key} ELSE {}
       ELSE UNCHANGED key
  /\ Goto(r, "cached")
  /\ UNCHANGED committed

\* get_db commits, then the answer is sent.
Commit(r) ==
  /\ req[r].phase = "cached"
  /\ committed' = committed \cup {r}
  /\ req' = [req EXCEPT ![r] = [@ EXCEPT !.phase = "answered", !.answer = r]]
  /\ UNCHANGED key

\* A failed commit frees the key for the next retry.
CommitRaisesAndFrees(r) ==
  /\ req[r].phase = "cached"
  /\ Goto(r, "failed")
  /\ key' = None
  /\ UNCHANGED committed

\* The commit raises (a lost connection; a session left unusable by an audit row
\* that could not be flushed): get_db rolls back, Redis keeps the answer.
CommitRaises(r) ==
  /\ req[r].phase = "cached"
  /\ Goto(r, "failed")
  /\ UNCHANGED <<key, committed>>

\* The process dies: the session is rolled back, Redis keeps the key.
Crash(r) ==
  /\ req[r].phase \in Live \ {"new"}
  /\ Goto(r, "dead")
  /\ UNCHANGED <<key, committed>>

\* The mark is set without EX.
LockNeverExpires == FALSE /\ UNCHANGED vars

\* The 30 s of the lock are over.
LockExpires ==
  /\ key = Processing
  /\ HandlersBeatTTL => \A r \in Requests : ~Holds(r)
  /\ key' = None
  /\ UNCHANGED <<committed, req>>

Proceed(r) ==
  \/ Claim(r) \/ ClaimRefused(r) \/ Replay(r) \/ ReadAgain(r)
  \/ Execute(r) \/ ExecuteRaises(r) \/ Release(r)
  \/ CacheAnswer(r) \/ Commit(r)

Fault(r) == ClaimRaises(r) \/ ReadRaises(r) \/ CommitRaises(r) \/ Crash(r)

Next == LockExpires \/ \E r \in Requests : Proceed(r) \/ Fault(r)

\* The event loop resumes every task and Redis expires its keys; nothing has to
\* fail.
Spec == /\ Init /\ [][Next]_vars
        /\ \A r \in Requests : WF_vars(Proceed(r))
        /\ WF_vars(LockExpires)

-----------------------------------------------------------------------------
\* The retries of one request write one payment (one order): of those that Redis
\* guards, at most one is ever committed.
AtMostOnce == \A r, s \in committed : req[r].guarded /\ req[s].guarded => r = s

\* Whoever is answered under one key, first request or retry, is told of the same
\* payment, a rolled back commit in between included.
AnswersAgree ==
  \A r, s \in Requests :
    /\ req[r].phase = "answered" /\ req[s].phase = "answered"
    /\ req[r].guarded /\ req[s].guarded
    => req[r].answer = req[s].answer

\* A request that died or failed with the lock never blocks its key for ever.
KeyIsFreed == key = Processing ~> key # Processing

\* No retry waits for ever for an answer that no one will give.
RequestsEnd == \A r \in Requests : req[r].phase = "waiting" ~> req[r].phase \in Over

\* "renvoyer la reponse initiale" (payments.py:45): the answer a retry is given is
\* that of a payment that exists, or is about to.
AnswerNotRolledBack ==
  \A r \in Requests :
    req[r].phase = "answered" =>
      req[r].answer \in committed \/ req[req[r].answer].phase = "cached"
=============================================================================
