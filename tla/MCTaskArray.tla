---------------------------- MODULE MCTaskArray ----------------------------
\* The task array with the jobs that --sites mitsui,sumifu,nomura leaves of
\* three tasks: nomura's go to the first one, the third one gets none.
EXTENDS JobCoverage

SomeJobs ==
  << [company |-> "mitsui", type |-> "kodate"],
     [company |-> "nomura", type |-> "mansion"],
     [company |-> "sumifu", type |-> "mansion"] >>
=============================================================================
