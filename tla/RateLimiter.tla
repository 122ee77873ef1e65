----------------------------- MODULE RateLimiter -----------------------------
(***************************************************************************)
(* The sliding window of one key (rate_limiter.py): a sorted set in Redis  *)
(* that every server process shares and, when a call to Redis raises, a    *)
(* list in the memory of the process. Redis counts the requests it         *)
(* refuses, the memory does not. Time is counted in ticks; a request is    *)
(* checked in the tick in which it took its timestamp.                     *)
(***************************************************************************)
EXTENDS Naturals, Functions

CONSTANTS
  Processes,  \* server processes
  Calls,      \* requests allowed in a window
  Period,     \* length of a window, in ticks
  Horizon,    \* bound: the last tick
  MaxPerTick  \* bound: requests in one tick

Ticks  == 0..Horizon
Redis  == "redis"
Stores == Processes \cup {Redis}

VARIABLES
  now,       \* the current tick
  store,     \* the timestamps each store keeps, as a number for each tick
  asked,     \* history: the requests of each tick
  admitted   \* history: those that passed, by the store that counted them

vars == <<now, store, asked, admitted>>

Counts == [Ticks -> Nat]

TypeOK == /\ now \in Ticks
          /\ store \in [Stores -> Counts]
          /\ asked \in Counts
          /\ admitted \in [Stores -> Counts]

Nothing == [t \in Ticks |-> 0]
Init == /\ now = 0
        /\ store = [s \in Stores |-> Nothing]
        /\ asked = Nothing
        /\ admitted = [s \in Stores |-> Nothing]

Window(t) == {u \in Ticks : u <= t /\ u + Period > t}

\* ZREMRANGEBYSCORE key 0 (now - period); t > window_start
Pruned(f) == [t \in Ticks |-> IF t + Period > now THEN f[t] ELSE 0]

Counted(f) == [Pruned(f) EXCEPT ![now] = @ + 1]

Ask == asked[now] < MaxPerTick /\ asked' = [asked EXCEPT ![now] = @ + 1]

\* The timestamp is added, then counted: count > calls is a 429.
CheckRedis ==
  /\ Ask
  /\ store' = [store EXCEPT ![Redis] = Counted(@)]
  /\ admitted' = IF SumFunctionOnSet(store'[Redis], Ticks) > Calls THEN admitted
                 ELSE [admitted EXCEPT ![Redis][now] = @ + 1]
  /\ UNCHANGED now

\* A list of the length allowed still lets one in.
MemCheckOneMore(p) ==
  /\ Ask
  /\ \E r \in {store[Redis], Counted(store[Redis])} :
       IF SumFunctionOnSet(Pruned(store[p]), Ticks) > Calls
         THEN /\ store' = [store EXCEPT ![Redis] = r, ![p] = Pruned(@)]
              /\ UNCHANGED admitted
         ELSE /\ store' = [store EXCEPT ![Redis] = r, ![p] = Counted(@)]
              /\ admitted' = [admitted EXCEPT ![p][now] = @ + 1]
  /\ UNCHANGED now

\* The pipeline raised, executed or not: _mem_check decides.
MemCheck(p) ==
  /\ Ask
  /\ \E r \in {store[Redis], Counted(store[Redis])} :
       IF SumFunctionOnSet(Pruned(store[p]), Ticks) >= Calls
         THEN /\ store' = [store EXCEPT ![Redis] = r, ![p] = Pruned(@)]
              /\ UNCHANGED admitted
         ELSE /\ store' = [store EXCEPT ![Redis] = r, ![p] = Counted(@)]
              /\ admitted' = [admitted EXCEPT ![p][now] = @ + 1]
  /\ UNCHANGED now

Tick == now < Horizon /\ now' = now + 1 /\ UNCHANGED <<store, asked, admitted>>

\* EXPIRE key period: the set goes when nothing was added for a whole period.
RedisExpires ==
  /\ \A t \in Window(now) : store[Redis][t] = 0
  /\ store[Redis] # Nothing
  /\ store' = [store EXCEPT ![Redis] = Nothing]
  /\ UNCHANGED <<now, asked, admitted>>

\* A process that restarts begins a new list, and so a new budget.
Restart(p) ==
  /\ store[p] # Nothing
  /\ store' = [store EXCEPT ![p] = Nothing]
  /\ admitted' = [admitted EXCEPT ![p] = Nothing]
  /\ UNCHANGED <<now, asked>>

Next == CheckRedis \/ (\E p \in Processes : MemCheck(p) \/ Restart(p)) \/ Tick \/ RedisExpires

Spec == Init /\ [][Next]_vars

-----------------------------------------------------------------------------
\* Each store lets no more than Calls requests through in any window, however calls
\* to Redis fail and recover in between. (All of them together may let through one
\* budget per store: the README says so.)
BudgetPerStore ==
  \A s \in Stores, t \in Ticks : SumFunctionOnSet(admitted[s], Window(t)) <= Calls

=============================================================================
