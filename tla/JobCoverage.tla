---------------------------- MODULE JobCoverage ----------------------------
(***************************************************************************)
(* The task array with the jobs that distribute_jobs deals out to it.      *)
(***************************************************************************)
EXTENDS MlBarrier, Distribution

CONSTANT Jobs  \* CRAWL_JOBS, as far as the filters of the command line let them

ASSUME JobCoverageAssumption ==
  /\ Jobs \in Seq([company : STRING, type : STRING])
  /\ Jobless = {t \in Tasks : Share(Jobs, t, TaskCount) = {}}

\* When nothing has failed and every row is settled, the report has each job of
\* the list from exactly one task: none is dealt to nobody or to two tasks, and
\* none is crawled by a task that the report does not wait for.
EachJobReportedOnce ==
  Undisturbed /\ (\A t \in Tasks : row[t] \in Terminal) =>
    \A r \in reports : r.complete =>
      \A k \in DOMAIN Jobs :
        Cardinality({t \in r.covers : k \in Share(Jobs, t, TaskCount)}) = 1
=============================================================================
