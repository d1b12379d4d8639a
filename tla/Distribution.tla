---------------------------- MODULE Distribution ----------------------------
(***************************************************************************)
(* How the jobs of a crawl are dealt out to the tasks of the array         *)
(* (package/utils/task_distribution.py).  A job is a company and a type of *)
(* property; a task's share is the set of its jobs' positions in the list. *)
(* The order within a share, mansions of the host company first, is left   *)
(* out.                                                                    *)
(***************************************************************************)
EXTENDS Integers, Sequences, FiniteSets

MAJOR_5_COMPANIES == {"mitsui", "sumifu", "tokyu", "nomura", "misawa"}
TRUST_3_COMPANIES == {"smtrc", "sumai1", "mizuho"}
UNCRAWLED_COMPANIES == {"kenbiya", "ietan", "haseko", "adcast", "toho"}
Investments == {"invest_kodate", "invest_apartment", "invest_building", "investment"}

BIG_3_COMPANIES == <<"mitsui", "sumifu", "tokyu">>
BIG_4_COMPANIES == <<"mitsui", "sumifu", "tokyu", "nomura">>

\* The fixed table of eight tasks, read from above.
Assign8TaskIndex(job) ==
  LET mansion == job.type = "mansion" IN
  IF job.company = "homes" THEN 5
  ELSE IF job.company = "athome" THEN IF mansion THEN 6 ELSE 7
  ELSE IF job.type \in Investments THEN 3
  ELSE IF job.company \in MAJOR_5_COMPANIES THEN
    CASE mansion -> 0
      [] job.type = "kodate" -> 1
      [] job.type = "tochi" -> 2
      [] OTHER -> 3
  ELSE IF job.company = "daikyo" THEN IF mansion THEN 0 ELSE 1
  ELSE IF job.company \in TRUST_3_COMPANIES THEN 2
  ELSE IF job.company \in UNCRAWLED_COMPANIES THEN 6
  ELSE IF mansion THEN 7 ELSE 4

Hosts_Four(count) == BIG_4_COMPANIES

\* With three or four tasks each has a company of its own.
Hosts(count) == IF count = 4 THEN BIG_4_COMPANIES ELSE BIG_3_COMPANIES

OfHost(job, task, count) == Hosts(count)[task + 1] = job.company

IsOther(job, count) ==
  \A i \in DOMAIN Hosts(count) : Hosts(count)[i] # job.company

\* enumerate(other_jobs) counts from 0.
OtherIndex(jobs, k, count) ==
  Cardinality({j \in 1 .. (k - 1) : IsOther(jobs[j], count)})

\* distribute_jobs for task_index = task and task_count = count.
Share(jobs, task, count) ==
  {k \in DOMAIN jobs :
     IF count <= 1 THEN TRUE
     ELSE IF count \in {3, 4} THEN
       \/ OfHost(jobs[k], task, count)
       \/ IsOther(jobs[k], count) /\ OtherIndex(jobs, k, count) % count = task
     ELSE IF count = 8 THEN Assign8TaskIndex(jobs[k]) = task
     ELSE (k - 1) % count = task}
=============================================================================
