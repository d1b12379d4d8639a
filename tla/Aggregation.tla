---------------------------- MODULE Aggregation ----------------------------
(***************************************************************************)
(* What the election of the task array promises, whatever the database and *)
(* the containers do: once nobody has anything left to crawl, at most one  *)
(* task is made the leader, and only the leader publishes the report.      *)
(***************************************************************************)
CONSTANT Tasks

VARIABLES
  working,    \* tasks that may still have jobs to crawl
  leaders,    \* the task that aggregates, if one has been chosen
  publishers  \* tasks that have sent the report

vars == <<working, leaders, publishers>>

Init ==
  /\ working = Tasks
  /\ leaders = {}
  /\ publishers = {}

\* A task ends its crawl, in whichever way.
Finish(t) ==
  /\ t \in working
  /\ working' = working \ {t}
  /\ UNCHANGED <<leaders, publishers>>

\* The first claim wins, and only when all work is over.
Elect(t) ==
  /\ working = {} /\ leaders = {}
  /\ leaders' = {t}
  /\ UNCHANGED <<working, publishers>>

Publish(t) ==
  /\ t \in leaders
  /\ publishers' = publishers \cup {t}
  /\ UNCHANGED <<working, leaders>>

Next == \E t \in Tasks : Finish(t) \/ Elect(t) \/ Publish(t)

Spec == Init /\ [][Next]_vars
=============================================================================
