--------------------------- MODULE WatchdogProofs ---------------------------
(***************************************************************************)
(* What the watchdog guarantees for every threshold, grace and interval.   *)
(***************************************************************************)
EXTENDS Watchdog, TLAPS

\* The parent's copies of the times stay in order.
LEMMA StepType == TypeOK /\ [Next]_vars => TypeOK'
<1> SUFFICES ASSUME TypeOK, [Next]_vars PROVE TypeOK'
  OBVIOUS
<1> USE DEF TypeOK
<1>1. CASE Touch
  BY <1>1 DEF Touch
<1>2. CASE Exit
  BY <1>2 DEF Exit
<1>3. CASE TurnBegins
  BY <1>3 DEF TurnBegins
<1>4. CASE Look
  BY <1>4 DEF Look, Known, Sees, Sampled
<1>5. CASE Kill
  BY <1>5 DEF Kill
<1>6. CASE Tick
  BY <1>6 DEF Tick
<1>7. CASE UNCHANGED vars
  BY <1>7 DEF vars
<1> QED BY <1>1, <1>2, <1>3, <1>4, <1>5, <1>6, <1>7 DEF Next

\* Type correctness, with no time in the future.
THEOREM TypeCorrect == Spec => []TypeOK
<1>1. Init => TypeOK
  <2> SUFFICES ASSUME Init PROVE TypeOK
    OBVIOUS
  <2>1. clock \in Nat /\ 0 <= clock
    BY DEF Init
  <2>2. \A time \in {mtime, startT, lastAct, now, rested} : time <= clock
    BY <2>1 DEF Init
  <2> QED BY <2>1, <2>2 DEF Init, TypeOK
<1> QED BY <1>1, StepType, PTL DEF Spec

\* Activity the parent has not seen is younger than its last sample, and
\* something was counted exactly when the crawler was seen to be active, so
\* that the last branch of check_job_hung is never taken.
SampleInv ==
  /\ mtime > lastAct => mtime >= lastCheck
  /\ counted <=> lastAct > startT

\* Every step keeps what the parent has sampled within its period.
LEMMA StepSample == TypeOK /\ SampleInv /\ [Next]_vars => SampleInv'
<1> SUFFICES ASSUME TypeOK, SampleInv, [Next]_vars PROVE SampleInv'
  OBVIOUS
<1> USE DEF TypeOK, SampleInv
<1>1. CASE Touch
  BY <1>1 DEF Touch
<1>2. CASE Exit
  BY <1>2 DEF Exit
<1>3. CASE TurnBegins
  BY <1>3 DEF TurnBegins
<1>4. CASE Look
  <2>1. mtime > lastAct' => mtime >= lastCheck'
    BY <1>4 DEF Look, Known, Sees, Sampled
  <2>2. CASE Sees
    <3>1. lastAct' > startT
      BY <1>4, <2>2 DEF Look, Known, Sees
    <3>2. counted' /\ mtime' = mtime /\ startT' = startT
      BY <1>4, <2>2 DEF Look
    <3> QED BY <2>1, <3>1, <3>2
  <2>3. CASE ~Sees
    <3>1. lastAct' = lastAct /\ counted' = counted /\ mtime' = mtime /\ startT' = startT
      BY <1>4, <2>3 DEF Look, Known
    <3> QED BY <2>1, <3>1
  <2> QED BY <2>2, <2>3
<1>5. CASE Kill
  BY <1>5 DEF Kill
<1>6. CASE Tick
  BY <1>6 DEF Tick
<1>7. CASE UNCHANGED vars
  BY <1>7 DEF vars
<1> QED BY <1>1, <1>2, <1>3, <1>4, <1>5, <1>6, <1>7 DEF Next

\* A crawler is sampled first when it is started.
LEMMA InitSample == Init => SampleInv
BY DEF Init, SampleInv

\* A step that takes the crawler for hung is a look of the parent.
LEMMA JudgedByLook == TypeOK /\ [Next]_vars /\ Judged => Look
BY DEF Next, Judged, Touch, Exit, TurnBegins, Kill, Tick, vars

\* Progress between SampleEvery and Threshold ago is always seen in time.
THEOREM ProgressSeenInTime == Spec => RecentProgressSaves
<1> DEFINE Saved == Judged => ~(mtime >= now - Threshold /\ mtime <= now - SampleEvery)
<1>1. TypeOK /\ SampleInv /\ [Next]_vars => Saved
  <2> SUFFICES ASSUME TypeOK, SampleInv, [Next]_vars, Judged,
                      mtime >= now - Threshold, mtime <= now - SampleEvery
               PROVE  FALSE
    OBVIOUS
  <2>1. Look /\ IsHung(Known, counted')
    BY JudgedByLook DEF Judged, Look
  <2>2. mtime <= Known
    BY WatchdogAssumption DEF Known, Sees, Sampled, SampleInv, TypeOK
  <2>3. Known \in Nat /\ startT <= Known /\ now - Known <= Threshold
    BY <2>2, WatchdogAssumption DEF Known, Sees, TypeOK
  <2>4. Known <= startT /\ now - startT > Threshold
    BY <2>1, <2>3, WatchdogAssumption DEF IsHung, TypeOK
  <2> QED BY <2>3, <2>4, WatchdogAssumption DEF TypeOK
<1>2. TypeOK /\ SampleInv /\ [Next]_vars => [Saved]_vars
  BY <1>1
<1> QED BY <1>2, InitSample, StepSample, TypeCorrect, PTL DEF Spec, RecentProgressSaves

\* A crawler that has not been active yet gets its whole grace.
THEOREM FirstListingHasGrace == Spec => GraceIsGiven
<1> DEFINE Given == Judged => mtime > startT \/ now - startT > Grace
<1> DEFINE ActInv == lastAct > startT => mtime > startT
<1>1. Init => ActInv
  BY DEF Init
<1>2. TypeOK /\ ActInv /\ [Next]_vars => ActInv'
  BY DEF TypeOK, Next, Touch, Exit, TurnBegins, Look, Known, Sees, Kill, Tick, vars
<1>3. TypeOK /\ SampleInv /\ ActInv /\ [Next]_vars => Given
  <2> SUFFICES ASSUME TypeOK, SampleInv, ActInv, [Next]_vars, Judged, mtime <= startT
               PROVE  now - startT > Grace
    BY DEF TypeOK
  <2>1. Look /\ IsHung(Known, counted')
    BY JudgedByLook DEF Judged, Look
  <2>2. Known = lastAct /\ lastAct = startT /\ ~counted /\ ~counted'
    BY <2>1 DEF Look, Known, Sees, SampleInv, TypeOK
  <2> QED BY <2>1, <2>2, WatchdogAssumption DEF IsHung, TypeOK
<1>4. TypeOK /\ SampleInv /\ ActInv /\ [Next]_vars => [Given]_vars
  BY <1>3
<1> QED BY <1>1, <1>2, <1>4, InitSample, StepSample, TypeCorrect, PTL DEF Spec, GraceIsGiven

-----------------------------------------------------------------------------
(* A silent crawler is noticed, when the file is read often enough for the *)
(* threshold: in production every 15 s against 300 s.                       *)

OftenSampled == SampleEvery <= Threshold + 1

\* Activity the parent knows of comes from the file, or is the start.
KnownInv == lastAct > startT => lastAct <= mtime

\* A crawler that a turn has let live had been active Threshold before that
\* turn began at the latest; the next turn follows within RestTime.
NoticeInv ==
  process = "alive" =>
    /\ at = "top" =>
         /\ rested <= now + TurnTime /\ clock <= rested + RestTime
         /\ mtime > startT => now - mtime <= Threshold
    /\ at = "look" =>
         /\ clock <= now + TurnTime
         /\ mtime > startT => now - mtime <= Threshold + TurnTime + RestTime

\* A turn that does not take the crawler for hung knows of activity within the
\* threshold, or has not yet seen a change younger than the sample period.
LEMMA LookNotices ==
  ASSUME OftenSampled, TypeOK, SampleInv, KnownInv, Look,
         mtime > startT, at' = "top"
  PROVE  now - mtime <= Threshold
<1> USE WatchdogAssumption DEF TypeOK
<1>1. ~IsHung(Known, counted') /\ Known \in Nat
  BY DEF Look, Known
<1>2. CASE mtime > lastAct /\ ~Sampled
  BY <1>2 DEF Sampled, SampleInv, OftenSampled
<1>3. CASE mtime <= lastAct \/ Sampled
  <2>1. Known = mtime
    BY <1>3 DEF Known, Sees, KnownInv
  <2> QED BY <1>1, <2>1 DEF IsHung
<1> QED BY <1>2, <1>3

\* Every step keeps the age of what the last turn knew within its bounds.
LEMMA StepNotice ==
  ASSUME OftenSampled, TypeOK, SampleInv, KnownInv, NoticeInv, [Next]_vars
  PROVE  KnownInv' /\ NoticeInv'
<1> USE WatchdogAssumption DEF TypeOK, KnownInv, NoticeInv
<1>1. CASE Touch
  BY <1>1 DEF Touch
<1>2. CASE Exit
  BY <1>2 DEF Exit
<1>3. CASE TurnBegins
  BY <1>3 DEF TurnBegins
<1>4. CASE Look
  <2>1. KnownInv'
    BY <1>4 DEF Look, Known, Sees
  <2>2. at' = "top" => (mtime > startT => now - mtime <= Threshold)
    BY <1>4, LookNotices
  <2>3. /\ rested' = clock /\ at' # "look"
        /\ UNCHANGED <<clock, mtime, startT, now, process>>
    BY <1>4 DEF Look
  <2> QED BY <1>4, <2>1, <2>2, <2>3 DEF Look
<1>5. CASE Kill
  BY <1>5 DEF Kill
<1>6. CASE Tick
  BY <1>6 DEF Tick
<1>7. CASE UNCHANGED vars
  BY <1>7 DEF vars
<1> QED BY <1>1, <1>2, <1>3, <1>4, <1>5, <1>6, <1>7 DEF Next

\* With a file that is read often enough a crawler that worked and fell silent
\* is killed in bounded time: check_job_hung of run_all_crawlers' loop.
THEOREM SilenceIsNoticed ==
  ASSUME OftenSampled
  PROVE  Spec => []HungIsNoticed
<1>1. Init => KnownInv /\ NoticeInv
  BY WatchdogAssumption DEF Init, KnownInv, NoticeInv
<1>2. TypeOK /\ NoticeInv => HungIsNoticed
  BY WatchdogAssumption DEF TypeOK, NoticeInv, HungIsNoticed
<1>3. TypeOK /\ SampleInv /\ KnownInv /\ NoticeInv /\ [Next]_vars
        => KnownInv' /\ NoticeInv'
  BY StepNotice
<1> QED BY <1>1, <1>2, <1>3, InitSample, StepSample, TypeCorrect, PTL DEF Spec
=============================================================================
