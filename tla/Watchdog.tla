------------------------------ MODULE Watchdog ------------------------------
(***************************************************************************)
(* When the job loop takes a crawler for hung (crawler_watchdog.py): the   *)
(* crawler touches its progress file, the parent reads the file's time     *)
(* every SampleEvery seconds and compares the last activity it knows of    *)
(* with the start of its own turn.  One crawler; seconds are clock ticks.  *)
(*                                                                         *)
(* A definition named D_X is D with a bug X put in: see TaskArray.tla.     *)
(***************************************************************************)
EXTENDS Integers

CONSTANTS
  Threshold,    \* HANG_THRESHOLD_SEC, 300
  Grace,        \* INITIAL_DISCOVERY_GRACE_SEC, 1800
  SampleEvery,  \* check_interval_sec, 15
  TurnTime,     \* the longest a turn of the loop takes before it looks: it reaps
                \* others first, and kills those that it has looked at before
  RestTime,     \* the longest from there to the next turn: snapshots, kills and
                \* messages of others, starts of jobs with 2 s each, the sleep
  MaxClock      \* bound: last clock tick

ASSUME WatchdogAssumption ==
  /\ Threshold \in Nat \ {0} /\ Grace \in Nat
  /\ SampleEvery \in Nat /\ TurnTime \in Nat /\ RestTime \in Nat /\ MaxClock \in Nat

VARIABLES
  clock,
  mtime,      \* time of the progress file
  startT,     \* start_t
  lastAct,    \* last_act: the last activity the parent knows of
  counted,    \* prev_db_cnt > 0
  lastCheck,  \* last_check_t
  now,        \* now, read at the top of the turn
  at,         \* where the loop is: "top", "look" or, to kill, "snapshot"
  rested,     \* when it last looked
  process     \* "alive", "exited" or "killed"

vars == <<clock, mtime, startT, lastAct, counted, lastCheck, now, at, rested, process>>

\* Types, and no time lies in the future.
TypeOK ==
  /\ clock \in Nat /\ mtime \in Nat /\ startT \in Nat /\ lastAct \in Nat
  /\ counted \in BOOLEAN
  /\ lastCheck \in Nat /\ now \in Nat /\ rested \in Nat
  /\ at \in {"top", "look", "snapshot"}
  /\ process \in {"alive", "exited", "killed"}
  /\ \A time \in {mtime, startT, lastAct, now, rested} : time <= clock
  /\ startT <= lastAct /\ lastCheck <= now

\* The file is touched before Popen; the loop then sleeps.
Init ==
  /\ clock \in {0, 1}
  /\ mtime = 0
  /\ startT = clock /\ lastAct = clock /\ lastCheck = clock
  /\ counted = FALSE
  /\ now = clock /\ rested = clock
  /\ at = "top"
  /\ process = "alive"

-----------------------------------------------------------------------------
(* The crawler                                                             *)

\* touch_crawler_progress: a page was fetched, a property was saved.
Touch ==
  /\ process = "alive"
  /\ mtime' = clock
  /\ UNCHANGED <<clock, startT, lastAct, counted, lastCheck, now, at, rested, process>>

Exit ==
  /\ process = "alive" /\ at = "top"
  /\ process' = "exited"
  /\ UNCHANGED <<clock, mtime, startT, lastAct, counted, lastCheck, now, at, rested>>

-----------------------------------------------------------------------------
(* The parent                                                              *)

TurnBegins ==
  /\ process = "alive" /\ at = "top"
  /\ now' = clock
  /\ at' = "look"
  /\ UNCHANGED <<clock, mtime, startT, lastAct, counted, lastCheck, rested, process>>

Sampled_OnlyWhenOld == now - lastCheck > SampleEvery + 1

\* update_watchdog_progress: is it time to read the file again?
Sampled == now - lastCheck >= SampleEvery

Sees == Sampled /\ mtime > lastAct

Known == IF Sees THEN mtime ELSE lastAct

IsHung_NoGrace(act, cnt) ==
  IF act > startT THEN now - act > Threshold ELSE now - startT > Threshold

IsHung_GraceForever(act, cnt) == now - act > Threshold + Grace

\* check_job_hung, on the last activity and on whether anything was counted.
IsHung(act, cnt) ==
  IF act > startT THEN now - act > Threshold
  ELSE IF ~cnt THEN now - startT > (IF Grace > Threshold THEN Grace ELSE Threshold)
  ELSE now - act > Threshold

Look ==
  /\ at = "look"
  /\ lastAct' = Known
  /\ counted' = (counted \/ Sees)
  /\ lastCheck' = IF Sampled THEN now ELSE lastCheck
  /\ at' = IF IsHung(lastAct', counted') THEN "snapshot" ELSE "top"
  /\ rested' = clock
  /\ UNCHANGED <<clock, mtime, startT, now, process>>

\* The snapshot has been taken: the process group is killed.
Kill ==
  /\ at = "snapshot"
  /\ at' = "top"
  /\ process' = "killed"
  /\ UNCHANGED <<clock, mtime, startT, lastAct, counted, lastCheck, now, rested>>

\* A turn looks within TurnTime, and the next one begins within RestTime.
Tick ==
  /\ clock < MaxClock
  /\ at = "look" => clock < now + TurnTime
  /\ at = "top" /\ process = "alive" => clock < rested + RestTime
  /\ clock' = clock + 1
  /\ UNCHANGED <<mtime, startT, lastAct, counted, lastCheck, now, at, rested, process>>

Next ==
  \/ Touch \/ Exit
  \/ TurnBegins \/ Look \/ Kill
  \/ Tick
  \/ process # "alive" /\ UNCHANGED vars

Spec == Init /\ [][Next]_vars

-----------------------------------------------------------------------------
Judged == at = "look" /\ at' = "snapshot"

\* Progress that is at least SampleEvery old when the turn begins, and not
\* older than the threshold, saves the crawler.
RecentProgressSaves ==
  [][Judged => ~(mtime >= now - Threshold /\ mtime <= now - SampleEvery)]_vars

\* The first listing is given its grace: nothing is killed before it is over
\* unless it has shown activity.
GraceIsGiven == [][Judged => mtime > startT \/ now - startT > Grace]_vars

\* A crawler that worked and then fell silent is taken for hung in time: one
\* turn may just have begun, and it, its rest and the next turn take their longest.
HungIsNoticed ==
  process = "alive" /\ at # "snapshot" /\ mtime > startT
    => clock - mtime <= Threshold + RestTime + 2 * TurnTime
=============================================================================
