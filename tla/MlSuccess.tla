----------------------------- MODULE MlSuccess -----------------------------
(***************************************************************************)
(* The barrier of the ML job after a crawl in which every task succeeded.  *)
(***************************************************************************)
EXTENDS MlBarrier

VARIABLE failed  \* history: tasks whose row has ever said FAILED

MlInit == Init /\ failed = {}

MlNext == Next /\ failed' = failed \cup {t \in Tasks : row'[t] = "FAILED"}

MlSpec == MlInit /\ [][MlNext]_<<vars, failed>>

\* Nothing went wrong and every crawl succeeded.
AllSucceeded ==
  /\ Undisturbed /\ AllStopped
  /\ failed = {} /\ Registered = Tasks

\* When every task has succeeded the completion ratio is complete and the
\* barrier lets the ML pipeline through.
SuccessPassesBarrier == AllSucceeded => Judge = "enough"
=============================================================================
