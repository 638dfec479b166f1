----------------------------- MODULE Connector -----------------------------
(***************************************************************************)
(* What the broker is promised of a connection to a downstream server: the *)
(* server is asked to run the selected capability at most once, and only   *)
(* if what it offers live is what was selected; an answer is an answer to  *)
(* that request; afterwards nothing is left of the connection.             *)
(***************************************************************************)
VARIABLES
  same,     \* does the server offer what was selected?
  stage,    \* "new", "open" or "closed"
  asked,    \* has the server been asked to run it?
  answered  \* has the broker its answer?

vars == <<same, stage, asked, answered>>

Init ==
  /\ same \in BOOLEAN
  /\ stage = "new"
  /\ asked = FALSE /\ answered = FALSE

Open ==
  /\ stage = "new" /\ same
  /\ stage' = "open"
  /\ UNCHANGED <<same, asked, answered>>

Ask ==
  /\ stage = "open" /\ ~asked
  /\ asked' = TRUE
  /\ UNCHANGED <<same, stage, answered>>

Answer ==
  /\ stage = "open" /\ asked /\ ~answered
  /\ answered' = TRUE
  /\ UNCHANGED <<same, stage, asked>>

Close ==
  /\ stage' = "closed"
  /\ UNCHANGED <<same, asked, answered>>

Next == Open \/ Ask \/ Answer \/ Close

Spec == Init /\ [][Next]_vars
=============================================================================
