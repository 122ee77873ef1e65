---- MODULE MCSessions ----
\* What a user's browser meets before and around the orders: the sessions, the settings
\* pages, the rate limiter and the notifications. As in MCCommerce, each behaviour is one
\* of the component in focus.
EXTENDS Sessions, FiniteSets, TLC

CONSTANTS r1, r2, r3, r4, b1, b2, e1, none

VARIABLE focus

Interchangeable == Permutations({r1, r2, r3, r4}) \cup Permutations({b1, b2})

settingsVars == <<profile, organization, signature, granted, saving, saved>>
limiterVars  == <<now, store, asked, admitted>>
streamVars   == <<payments, paying, stream, inbox, fetch, list, missed>>
everything   == <<focus, vars, settingsVars, limiterVars, streamVars>>

SessionsInit == /\ focus \in {"accounts", "settings", "limiter", "notifications"}
                /\ Init /\ Save!Init /\ Limit!Init /\ Notify!Init

\* Bound: the requests of Settings.
MaxSettingsRequests == 3
InBounds == Cardinality({r \in Requests : saving'[r].phase # "new"}) <= MaxSettingsRequests

\* Bound: the payments announced.
MaxPayments == 2
FewPayments == Cardinality({r \in Requests : paying'[r] # "new"}) <= MaxPayments

AccountsNext == /\ focus = "accounts" /\ Next
                /\ UNCHANGED <<focus, settingsVars, limiterVars, streamVars>>
SettingsNext == /\ focus = "settings" /\ Save!Next /\ InBounds
                /\ UNCHANGED <<focus, vars, limiterVars, streamVars>>
LimiterNext == /\ focus = "limiter" /\ Limit!Next
               /\ UNCHANGED <<focus, vars, settingsVars, streamVars>>
NotificationsNext == /\ focus = "notifications" /\ Notify!Next /\ FewPayments
                     /\ UNCHANGED <<focus, vars, settingsVars, limiterVars>>

SessionsNext == AccountsNext \/ SettingsNext \/ LimiterNext \/ NotificationsNext
SessionsSpec == SessionsInit /\ [][SessionsNext]_everything
====
