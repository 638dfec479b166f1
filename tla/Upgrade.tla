------------------------------ MODULE Upgrade ------------------------------
(***************************************************************************)
(* What registry.Open promises of a database that older releases may have  *)
(* written: it is brought to the current schema in one step, which keeps   *)
(* its rows and makes each of them findable, before anybody uses it.       *)
(***************************************************************************)
CONSTANTS
  Users,  \* connections that open the database
  Rows    \* rows it may have

VARIABLES
  current, \* has the database the current schema?
  rows,    \* the rows it has
  found,   \* the rows a search finds; of no interest before the upgrade
  using    \* the connections that are open

vars == <<current, rows, found, using>>

Init ==
  /\ current \in BOOLEAN
  /\ rows \subseteq Rows
  /\ found = IF current THEN rows ELSE {}
  /\ using = {}

UpgradeSchema ==
  /\ ~current /\ current' = TRUE
  /\ found' = rows
  /\ UNCHANGED <<rows, using>>

Open(u) ==
  /\ current
  /\ using' = using \cup {u}
  /\ UNCHANGED <<current, rows, found>>

Close(u) ==
  /\ using' = using \ {u}
  /\ UNCHANGED <<current, rows, found>>

Add(u, r) ==
  /\ u \in using
  /\ rows' = rows \cup {r} /\ found' = found \cup {r}
  /\ UNCHANGED <<current, using>>

Next ==
  \/ UpgradeSchema
  \/ \E u \in Users : Open(u) \/ Close(u) \/ \E r \in Rows : Add(u, r)

Spec == Init /\ [][Next]_vars
=============================================================================
