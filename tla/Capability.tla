----------------------------- MODULE Capability -----------------------------
(***************************************************************************)
(* What a secret that gives access promises, whatever it is made of: a     *)
(* refresh token (Accounts) or a share link (Portal). It is issued once,   *)
(* it is used only while it is live, and once replaced, revoked or expired *)
(* it is dead for good.                                                    *)
(***************************************************************************)
CONSTANTS Ids,   \* the secrets there may be
          Users  \* who may use them

VARIABLES live,  \* those that give access
          dead,  \* those that gave it once
          uses   \* history: <<i, u>> when u was let in by i

Init == live = {} /\ dead = {} /\ uses = {}

\* These no longer give access.
Gone(S) == S \subseteq live /\ dead' = dead \cup S

\* A new secret, that may take the place of others.
Issue(i, replaced) ==
  /\ i \notin live \cup dead
  /\ Gone(replaced)
  /\ live' = (live \ replaced) \cup {i}
  /\ UNCHANGED uses

Revoke(revoked) ==
  /\ Gone(revoked)
  /\ live' = live \ revoked
  /\ UNCHANGED uses

Use(i, u) ==
  /\ i \in live
  /\ uses' = uses \cup {<<i, u>>}
  /\ UNCHANGED <<live, dead>>

Next == \/ \E i \in Ids, S \in SUBSET Ids : Issue(i, S)
        \/ \E S \in SUBSET Ids : Revoke(S)
        \/ \E i \in Ids, u \in Users : Use(i, u)

Spec == Init /\ [][Next]_<<live, dead, uses>>
=============================================================================
