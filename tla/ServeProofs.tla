----------------------------- MODULE ServeProofs -----------------------------
(***************************************************************************)
(* Theorems about Serve, for every schedule, every grace period, every set  *)
(* of configurations and every set of faults.  They need no fairness.       *)
(***************************************************************************)
EXTENDS Serve, WellFoundedInduction, TLAPS

-----------------------------------------------------------------------------
(* The inductive invariant.                                                 *)

\* A container that is meant to stop has had its SIGTERM, since a process is
\* only started in one that is not.
StopHeard == ~wanted => ctx = "cancelled"

\* What is reported is the end of a run that was not interrupted.
ReportsRuns == pc = "notifying" => outcome \in {"ok", "failed"}

\* Once the timer has started a run at this time, it was set to a later one.
NextIsLater == fired /\ pc = "waiting" => timer > 0

ServeInvariant ==
    TypeOK /\ StopHeard /\ ReportsRuns /\ NextIsLater
    /\ WaitsForNextTick /\ NeverKilledMidUpload

-----------------------------------------------------------------------------
(* The schedule.                                                            *)

\* Every set of naturals has a least member.
LEMMA Least ==
    ASSUME NEW S, S \subseteq Nat, S # {}
    PROVE  \E m \in S : \A k \in S : m <= k
<1> DEFINE R == OpToRel(<, Nat)
<1>1. IsWellFoundedOn(R, Nat)
  BY NatLessThanWellFounded
<1>2. PICK m \in S : \A k \in S : <<k, m>> \notin R
  <2> HIDE DEF R
  <2> QED BY <1>1, WFMin
<1>3. \A k \in S : k < m => <<k, m>> \in R
  BY DEF OpToRel
<1> HIDE DEF R
<1>4. ASSUME NEW k \in S PROVE m <= k
  <2>1. k \in Nat /\ m \in Nat
    OBVIOUS
  <2>2. ~(k < m)
    BY <1>2, <1>3
  <2> QED BY <2>1, <2>2
<1> QED BY <1>4

\* sched.Next finds the first tick after now, at most one cycle away.
LEMMA UntilNextIsNext ==
    ASSUME NEW t \in 0..(Period - 1)
    PROVE  /\ UntilNext(t) \in 1..Period
           /\ (t + UntilNext(t)) % Period \in Ticks
           /\ \A e \in 1..(UntilNext(t) - 1) : (t + e) % Period \notin Ticks
<1> USE ServeAssumption
<1> DEFINE S == {d \in 1..Period : (t + d) % Period \in Ticks}
<1>1. S # {}
  <2>1. PICK k \in 0..(Period - 1) : k \in Ticks
    OBVIOUS
  <2>2. CASE k > t
    <3>1. k - t \in 1..Period /\ (t + (k - t)) % Period = k
      BY <2>2
    <3> QED BY <2>1, <3>1
  <2>3. CASE ~(k > t)
    <3>1. k - t + Period \in 1..Period /\ (t + (k - t + Period)) % Period = k
      BY <2>3
    <3> QED BY <2>1, <3>1
  <2> QED BY <2>2, <2>3
<1>2. PICK m \in S : \A d \in S : m <= d
  <2>1. S \subseteq Nat
    OBVIOUS
  <2> QED BY <1>1, <2>1, Least
<1>3. \A e \in 1..(m - 1) : (t + e) % Period \notin Ticks
  <2> SUFFICES ASSUME NEW e \in 1..(m - 1), (t + e) % Period \in Ticks
               PROVE  FALSE
    OBVIOUS
  <2>1. e \in 1..Period /\ e < m /\ m \in Nat
    OBVIOUS
  <2>2. e \in S
    BY <2>1
  <2> QED BY <1>2, <2>1, <2>2
<1>4. \E d \in 1..Period :
        /\ (t + d) % Period \in Ticks
        /\ \A e \in 1..(d - 1) : (t + e) % Period \notin Ticks
  BY <1>3
<1> QED BY <1>4 DEF UntilNext

\* A unit of time moves the present and the timer towards the same tick.
LEMMA TickStays ==
    ASSUME NEW t \in 0..(Period - 1), NEW d \in 1..Period
    PROVE  (((t + 1) % Period) + (d - 1)) % Period = (t + d) % Period
BY ServeAssumption

-----------------------------------------------------------------------------
(* ServeInvariant.                                                          *)

\* No process runs when the system starts.
LEMMA InitServe == Init => ServeInvariant
<1> SUFFICES ASSUME Init PROVE ServeInvariant
  OBVIOUS
<1>1. /\ 0 \in 0..(Period - 1) /\ 0 \in 0..Period /\ 0 \in 0..Grace
  BY ServeAssumption
<1>2. TypeOK
  BY <1>1 DEF Init, TypeOK, Services
<1>3. /\ StopHeard /\ ReportsRuns /\ NextIsLater
      /\ WaitsForNextTick /\ NeverKilledMidUpload
  BY DEF Init, StopHeard, ReportsRuns, NextIsLater, WaitsForNextTick,
         NeverKilledMidUpload
<1> QED BY <1>2, <1>3 DEF ServeInvariant

\* The loop sets its timer to the next tick.
LEMMA RearmStep ==
    ASSUME TypeOK, UNCHANGED now, Rearm
    PROVE  /\ timer' \in 1..Period /\ pc' = "waiting"
           /\ WaitsForNextTick'
BY UntilNextIsNext DEF TypeOK, Rearm, WaitsForNextTick

\* A wait goes on as long as neither time nor the timer changes.
LEMMA WaitStep ==
    ASSUME WaitsForNextTick, UNCHANGED <<now, timer>>,
           pc' = "waiting" => pc = "waiting"
    PROVE  WaitsForNextTick'
BY DEF WaitsForNextTick

\* No step breaks ServeInvariant.
LEMMA ServeStep == ServeInvariant /\ [Next]_vars => ServeInvariant'
<1> SUFFICES ASSUME ServeInvariant, [Next]_vars PROVE ServeInvariant'
  OBVIOUS
<1> USE ServeAssumption
<1> USE DEF ServeInvariant, TypeOK, StopHeard, ReportsRuns, NextIsLater,
            NeverKilledMidUpload, Running, Services
<1>1. ASSUME Start, UNCHANGED setting PROVE ServeInvariant'
  BY <1>1, RearmStep, WaitStep DEF Start, EnterLoop, BeginRun
<1>2. ASSUME Seed, UNCHANGED setting PROVE ServeInvariant'
  BY <1>2, RearmStep, WaitStep DEF Seed, EnterLoop, BeginRun
<1>3. ASSUME Fetch, UNCHANGED setting PROVE ServeInvariant'
  BY <1>3, RearmStep, WaitStep DEF Fetch, EndRun
<1>4. ASSUME Work, UNCHANGED setting PROVE ServeInvariant'
  <2> USE <1>4
  <2>1. /\ pc = "working"
        /\ UNCHANGED <<now, ctx, fired, told, wanted, grace, db, up, setting>>
        /\ backup' \in BOOLEAN
    BY DEF Work
  <2>2. \/ EndRun("failed")
        \/ ctx = "cancelled" /\ EndRun("interrupted")
        \/ /\ ctx = "active" /\ pc' = "uploading"
           /\ UNCHANGED <<timer, outcome>>
    BY DEF Work
  <2>3. CASE EndRun("failed")
    BY <2>1, <2>3, RearmStep, WaitStep DEF EndRun
  <2>4. CASE ctx = "cancelled" /\ EndRun("interrupted")
    BY <2>1, <2>4, RearmStep, WaitStep DEF EndRun
  <2>5. CASE ctx = "active" /\ pc' = "uploading" /\ UNCHANGED <<timer, outcome>>
    BY <2>1, <2>5, WaitStep
  <2> QED BY <2>2, <2>3, <2>4, <2>5
<1>5. ASSUME Upload, UNCHANGED setting PROVE ServeInvariant'
  <2> USE <1>5
  <2>1. /\ pc = "uploading"
        /\ UNCHANGED <<now, ctx, fired, told, wanted, grace, db, up, setting>>
        /\ backup' \in BOOLEAN
    BY DEF Upload
  <2>2. \/ EndRun("failed")
        \/ ctx = "cancelled" /\ EndRun("interrupted")
        \/ EndRun("ok")
    BY DEF Upload
  <2>3. CASE EndRun("failed")
    BY <2>1, <2>3, RearmStep, WaitStep DEF EndRun
  <2>4. CASE ctx = "cancelled" /\ EndRun("interrupted")
    BY <2>1, <2>4, RearmStep, WaitStep DEF EndRun
  <2>5. CASE EndRun("ok")
    BY <2>1, <2>5, WaitStep DEF EndRun
  <2> QED BY <2>2, <2>3, <2>4, <2>5
<1>6. ASSUME Notify, UNCHANGED setting PROVE ServeInvariant'
  BY <1>6, RearmStep DEF Notify
<1>7. ASSUME Fire, UNCHANGED setting PROVE ServeInvariant'
  BY <1>7, WaitStep DEF Fire, BeginRun
<1>8. ASSUME Exit, UNCHANGED setting PROVE ServeInvariant'
  BY <1>8, WaitStep DEF Exit
<1>9. ASSUME Kill, UNCHANGED setting PROVE ServeInvariant'
  BY <1>9, WaitStep DEF Kill, Die
<1>10. ASSUME Advance, UNCHANGED setting PROVE ServeInvariant'
  <2> USE <1>10
  <2>1. TypeOK'
    <3>1. timer' \in 0..Period
      BY DEF Advance, Urgent
    <3>2. now' \in 0..(Period - 1) /\ grace' \in 0..Grace
      BY DEF Advance
    <3> QED BY <3>1, <3>2 DEF Advance
  <2>2. StopHeard' /\ ReportsRuns' /\ NextIsLater'
    BY DEF Advance
  <2>3. NeverKilledMidUpload'
    BY DEF Advance, Urgent
  <2>4. ASSUME pc' = "waiting"
        PROVE  /\ (now' + timer') % Period \in Ticks
               /\ \A e \in 1..(timer' - 1) : (now' + e) % Period \notin Ticks
    <3>1. /\ pc = "waiting" /\ timer \in 1..Period /\ timer' = timer - 1
          /\ now \in 0..(Period - 1) /\ now' = (now + 1) % Period
      BY <2>4 DEF Advance, Urgent
    <3>2. (now' + timer') % Period = (now + timer) % Period
      BY <3>1, TickStays
    <3>3. ASSUME NEW e \in 1..(timer' - 1)
          PROVE  (now' + e) % Period \notin Ticks
      <4>1. /\ e + 1 \in 1..(timer - 1) /\ e + 1 \in 1..Period
            /\ (e + 1) - 1 = e
        BY <3>1
      <4>2. (now' + e) % Period = (now + (e + 1)) % Period
        BY <3>1, <4>1, TickStays
      <4> QED BY <3>1, <4>1, <4>2 DEF WaitsForNextTick
    <3> QED BY <3>1, <3>2, <3>3 DEF WaitsForNextTick
  <2> QED BY <2>1, <2>2, <2>3, <2>4 DEF WaitsForNextTick
<1>11. ASSUME Stop, UNCHANGED setting PROVE ServeInvariant'
  <2>1. /\ wanted' = FALSE /\ grace' = Grace /\ ctx' = "cancelled"
        /\ UNCHANGED <<setting, now, pc, timer, fired, outcome, told, db,
                       backup, up>>
    BY <1>11 DEF Stop
  <2>2. TypeOK'
    <3>1. Grace \in 0..Grace /\ FALSE \in BOOLEAN
      OBVIOUS
    <3> QED BY <2>1, <3>1
  <2>3. NeverKilledMidUpload'
    BY <2>1
  <2> QED BY <2>1, <2>2, <2>3, WaitStep
<1>12. ASSUME Crash, UNCHANGED setting PROVE ServeInvariant'
  BY <1>12, WaitStep DEF Crash, Die
<1>13. ASSUME ComposeUp, UNCHANGED setting PROVE ServeInvariant'
  BY <1>13, WaitStep DEF ComposeUp, proc
<1>14. ASSUME LoseDisk, UNCHANGED setting PROVE ServeInvariant'
  BY <1>14, WaitStep DEF LoseDisk, proc
<1>15. ASSUME ExportByHand, UNCHANGED setting PROVE ServeInvariant'
  BY <1>15, WaitStep DEF ExportByHand, proc
<1>16. ASSUME Outage, UNCHANGED setting PROVE ServeInvariant'
  <2>1. /\ up' \subseteq Services
        /\ UNCHANGED <<setting, now, pc, ctx, timer, fired, outcome, told,
                       wanted, grace, db, backup>>
    BY <1>16 DEF Outage, proc
  <2> QED BY <2>1, WaitStep
<1>17. ASSUME StepFails, UNCHANGED setting PROVE ServeInvariant'
  <2>1. /\ backup' \in BOOLEAN
        /\ UNCHANGED <<setting, now, fired, told, wanted, grace, db, up>>
    BY <1>17 DEF StepFails
  <2>2. CASE EndRun("failed") /\ UNCHANGED ctx
    BY <2>1, <2>2, RearmStep, WaitStep DEF EndRun
  <2>3. CASE pc' = "down" /\ ctx' = "cancelled" /\ UNCHANGED <<timer, outcome>>
    BY <2>1, <2>3, WaitStep
  <2> QED BY <1>17, <2>2, <2>3 DEF StepFails
<1>18. CASE UNCHANGED vars
  BY <1>18, WaitStep DEF vars
<1> QED BY <1>1, <1>2, <1>3, <1>4, <1>5, <1>6, <1>7, <1>8, <1>9, <1>10,
          <1>11, <1>12, <1>13, <1>14, <1>15, <1>16, <1>17, <1>18
          DEF Next, Process, Docker, Time, World

-----------------------------------------------------------------------------
(* The theorems.                                                            *)

\* ServeInvariant holds in every reachable state.
THEOREM ServeCorrect == Spec => []ServeInvariant
BY InitServe, ServeStep, PTL DEF Spec

\* Every variable keeps its type; an interrupted run is never reported.
THEOREM TypeCorrect == Spec => []TypeOK
<1>1. ServeInvariant => TypeOK
  BY DEF ServeInvariant
<1> QED BY <1>1, ServeCorrect, PTL

\* However long runs take and whenever the process starts, a process that
\* waits wakes up at the first tick of the schedule after now (Serve's loop).
THEOREM WaitsCorrect == Spec => []WaitsForNextTick
<1>1. ServeInvariant => WaitsForNextTick
  BY DEF ServeInvariant
<1> QED BY <1>1, ServeCorrect, PTL

\* No upload is left to be killed when the grace period of a stop is over.
THEOREM NeverKilled == Spec => []NeverKilledMidUpload
<1>1. ServeInvariant => NeverKilledMidUpload
  BY DEF ServeInvariant
<1> QED BY <1>1, ServeCorrect, PTL

\* The timer starts at most one run at each tick, a restart of the process
\* or a run that is over at once included.
THEOREM OneRun == Spec => OneRunPerTick
<1>1. ServeInvariant /\ [Next]_vars =>
        [pc = "waiting" /\ pc' \in Running => ~fired]_vars
  <2> SUFFICES ASSUME ServeInvariant, [Next]_vars,
                      pc = "waiting", pc' \in Running, fired
               PROVE  FALSE
    OBVIOUS
  <2>1. timer > 0
    BY DEF ServeInvariant, NextIsLater
  <2>2. ~Fire
    BY <2>1 DEF Fire, ServeInvariant, TypeOK
  <2> QED BY <2>2
     DEF Next, Process, Docker, Time, World, vars, Running, Start, Seed, Fetch,
         Work, Upload, StepFails, EndRun, Rearm, Notify, Exit, Advance, Stop,
         Kill, Crash, Die, ComposeUp, LoseDisk, ExportByHand, Outage, proc
<1> QED BY <1>1, ServeCorrect, PTL DEF Spec, OneRunPerTick

=============================================================================
