----------------------------- MODULE MlBarrier -----------------------------
(***************************************************************************)
(* What the ML pipeline job makes of the task rows, after a crawl or, by   *)
(* its own schedule, during one (run_ml_pipeline.py).                      *)
(***************************************************************************)
EXTENDS TaskArray

CONSTANT MinRatio  \* min_success_ratio, in per cent

ASSUME MlBarrierAssumption == MinRatio \in 0 .. 100

Registered == {t \in Tasks : row[t] # "ABSENT"}
Completed == {t \in Tasks : row[t] = "COMPLETED"}

Judge_OfRegistered ==
  IF Registered = {} THEN "empty"
  ELSE IF Cardinality(Completed) * 100 >= MinRatio * Cardinality(Registered)
       THEN "enough" ELSE "short"

\* verify_barrier_completion on the rows it has read: every task must be
\* registered, and enough of all tasks COMPLETED.  "empty" lets the job go on
\* regardless, as does a read that raises.
Judge ==
  IF Registered = {} THEN "empty"
  ELSE IF Registered # Tasks THEN "missing"
  ELSE IF Cardinality(Completed) * 100 >= MinRatio * TaskCount
       THEN "enough" ELSE "short"

\* A barrier that passes on the ratio has counted only finished crawls: the
\* results of enough tasks are stored, however early the ML job asks.
PassMeansCrawled ==
  Judge = "enough" =>
    Cardinality(results \cup Jobless) * 100 >= MinRatio * TaskCount
=============================================================================
