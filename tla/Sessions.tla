------------------------------ MODULE Sessions ------------------------------
(***************************************************************************)
(* What a user's browser meets before and around the orders, side by side: *)
(* the sessions (whose names this module extends), the settings pages, the *)
(* rate limiter and the notifications.  As in Commerce, each component has *)
(* variables of its own.                                                   *)
(***************************************************************************)
EXTENDS Accounts

CONSTANTS
  Permissions,                                  \* Settings
  Processes, Calls, Period, Horizon, MaxPerTick \* RateLimiter

VARIABLES
  profile, organization, signature, granted, saving, saved,   \* Settings
  now, store, asked, admitted,                                \* RateLimiter
  payments, paying, stream, inbox, fetch, list, missed        \* Notifications

Save   == INSTANCE Settings WITH req <- saving, log <- saved
Limit  == INSTANCE RateLimiter
Notify == INSTANCE Notifications WITH req <- paying

\* Nothing has been read, or there is no row, is no value the code could have read.
ASSUME SettingsAssumption ==
  None \notin Save!Profile /\ None \notin Save!Organization /\ None \notin Save!Operations
ASSUME LimiterAssumption ==
  /\ Limit!Redis \notin Processes
  /\ Calls \in Nat /\ Period \in Nat \ {0} /\ Horizon \in Nat

-----------------------------------------------------------------------------
\* What each component states, under the name it has there.
UploadsSurvive      == Save!UploadsSurvive
BudgetPerStore      == Limit!BudgetPerStore
ListsFollowPayments == Notify!ListsFollowPayments
=============================================================================
