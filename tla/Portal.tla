------------------------------- MODULE Portal -------------------------------
(***************************************************************************)
(* The share links of one order (portal.py). Creating a link deletes those *)
(* it has read and adds its own; revoking deletes those it has read; both  *)
(* read, and later commit, in a session that locks nothing. A visitor's    *)
(* request reads the token, and later the order.                           *)
(***************************************************************************)
CONSTANTS
  Requests,   \* the requests, each of them one call of one endpoint; a link is
              \* named after the request that created it
  None        \* no link; not a request

VARIABLES
  order,    \* whether the order is there, or deleted
  links,    \* the rows of client_portal_tokens
  expired,  \* the links whose 30 days are over
  req       \* what each request is doing and has read

vars == <<order, links, expired, req>>

\* after: the requests over when this one began (history).
Request == [op : {"share", "revoke", "view", None},
            phase : {"new", "read", "done", "notFound", "gone"},
            seen : SUBSET Requests, link : Requests \cup {None}, after : SUBSET Requests]

TypeOK == /\ order \in {"there", "deleted"}
          /\ links \subseteq Requests
          /\ expired \subseteq Requests
          /\ req \in [Requests -> Request]

Init == /\ order = "there"
        /\ links = {}
        /\ expired = {}
        /\ req = [r \in Requests |-> [op |-> None, phase |-> "new", seen |-> {},
                                      link |-> None, after |-> {}]]

Over == {r \in Requests : req[r].phase \in {"done", "notFound", "gone"}}

Read(r, op, link, phase) ==
  /\ req[r].phase = "new"
  /\ req' = [req EXCEPT ![r] = [op |-> op, phase |-> phase, seen |-> links,
                                link |-> link, after |-> Over]]
  /\ UNCHANGED <<order, links, expired>>

Commit(r, op, rows) ==
  /\ req[r].op = op /\ req[r].phase = "read"
  /\ links' = rows
  /\ req' = [req EXCEPT ![r].phase = "done"]
  /\ UNCHANGED <<order, expired>>

-----------------------------------------------------------------------------
BeginShare(r) == Read(r, "share", None, IF order = "there" THEN "read" ELSE "notFound")

\* The old links stay.
ShareBeside(r) == Commit(r, "share", links \cup {r})
Share(r) == Commit(r, "share", (links \ req[r].seen) \cup {r})

BeginRevoke(r) == Read(r, "revoke", None, IF links = {} THEN "notFound" ELSE "read")
Revoke(r) == Commit(r, "revoke", links \ req[r].seen)

\* The 30 days are not looked at.
BeginViewUnexpired(r, l) ==
  Read(r, "view", l, IF l \in links THEN "read" ELSE "notFound")

\* The link is checked in the table, then the order is.
BeginView(r, l) ==
  Read(r, "view", l, IF l \in links \ expired THEN "read" ELSE "notFound")
View(r) ==
  /\ req[r].op = "view" /\ req[r].phase = "read"
  /\ req' = [req EXCEPT ![r].phase = IF order = "there" THEN "done" ELSE "gone"]
  /\ UNCHANGED <<order, links, expired>>

LinkExpires(l) == /\ l \in links \ expired
                  /\ expired' = expired \cup {l}
                  /\ UNCHANGED <<order, links, req>>

\* DeleteOrderUseCase: the links stay in their table.
DeleteOrder == /\ order = "there"
               /\ order' = "deleted"
               /\ UNCHANGED <<links, expired, req>>

Next == \/ \E r \in Requests : \/ BeginShare(r) \/ Share(r)
                               \/ BeginRevoke(r) \/ Revoke(r)
                               \/ (\E l \in Requests : BeginView(r, l)) \/ View(r)
        \/ \E l \in Requests : LinkExpires(l)
        \/ DeleteOrder

Spec == Init /\ [][Next]_vars

-----------------------------------------------------------------------------
\* "un seul lien actif" (portal.py:97) as far as the code keeps it: two links of an
\* order are alive together only if their creations overlapped.
LinksAloneUnlessOverlapping ==
  \A a, b \in links : a # b => a \notin req[b].after

\* The links that were created, and the visits they let in.
Shared == {r \in Requests : req[r].op = "share" /\ req[r].phase = "done"}
Visits == {v \in Requests : req[v].op = "view" /\ req[v].phase \in {"read", "done", "gone"}}

Usable == links \ expired
Dead   == (Shared \ links) \cup expired
LetIn  == {<<req[v].link, v>> : v \in Visits}

Capabilities == INSTANCE Capability WITH
  Ids <- Requests, Users <- Requests, live <- Usable, dead <- Dead, uses <- LetIn

\* A customer is let in by a link that is live; a link that was replaced, revoked or
\* has expired never lets anyone in again, whatever requests were under way.
LinksAreCapabilities == Capabilities!Spec
=============================================================================
