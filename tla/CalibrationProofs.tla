-------------------------- MODULE CalibrationProofs --------------------------
(***************************************************************************)
(* Theorems about Calibration, for any number of samples and any streak.   *)
(***************************************************************************)
EXTENDS Calibration, SequenceTheorems, TLAPS

USE CalibrationAssumption

-----------------------------------------------------------------------------
(***************************************************************************)
(* The code keeps no mark of the sample a job, an event or a result belongs *)
(* to.  That none is taken for another's rests on where each sample is:    *)
(* those behind are over, those ahead untouched, and only the present one  *)
(* has a job that can write.                                               *)
(***************************************************************************)
Behind ==
  \A s \in Sample : s < sample => job[s].phase = "over" /\ container[s] = "removed"

Ahead ==
  \A s \in Sample :
    s > sample \/ (s = sample /\ at = "create") => job[s] = Idle /\ container[s] = "absent"

Watching == at \in {"arming", "t0", "kill", "wait", "poll"}

\* The job has reached the container, or said that it could not.
Seen == job[sample].reached \/ result = [of |-> sample, floor |-> "error"]

Present ==
  /\ at = "post" => job[sample] = Idle
  /\ Watching /\ result # NoResult =>
       /\ result.of = sample /\ job[sample].phase = "over"
       /\ result.floor # "error" => job[sample].reached
  /\ Watching /\ armed => Seen
  /\ at \in {"t0", "kill", "wait", "poll"} => Seen
  /\ at \in {"wait", "poll"} => container[sample] \in {"killed", "dead"}
  /\ at = "drop" /\ outcome = "running" => job[sample].phase = "over"
  /\ \A s \in Sample : job[s].phase \in {"t0", "attempts"} => job[s].reached

\* How many values there are, and when the calibration has ended.
Account ==
  /\ outcome = "running" => Len(values) = IF at = "drop" THEN sample ELSE sample - 1
  /\ outcome = "calibrated" => Len(values) = Samples
  /\ at = "over" => outcome # "running"
  /\ at \notin {"drop", "over"} => outcome = "running"
  /\ at = "drop" => outcome # "calibrated"

\* The present sample's container goes with the sample.
Gone == at = "over" /\ ~mishap => container[sample] \in {"absent", "removed"}

\* What every step keeps.
Inv == Behind /\ Ahead /\ Present /\ Account /\ ValuesAreOwn /\ Gone

-----------------------------------------------------------------------------
\* Values are appended one at a time.
LEMMA PollAppends ==
  ASSUME TypeOK, result \in Result, Len(values) < Samples
  PROVE  /\ Append(values, result) \in Seq(Result)
         /\ Len(Append(values, result)) = Len(values) + 1
         /\ Append(values, result)[Len(values) + 1] = result
         /\ \A i \in 1..Len(values) : Append(values, result)[i] = values[i]
BY AppendProperties DEF TypeOK

\* A step of a job keeps every variable in its type.
LEMMA JobKeepsType ==
  ASSUME TypeOK, NEW s \in Sample, Works(s)
  PROVE  TypeOK'
<1> USE DEF TypeOK, JobOnly, hostVars, stateVars
<1>1. CASE Reaches(s)
  BY <1>1 DEF Reaches, Job
<1>2. CASE NeverReaches(s)
  BY <1>2 DEF NeverReaches, Job, Result
<1>3. CASE Begins(s)
  BY <1>3 DEF Begins, Job
<1>4. CASE Attempt(s)
  <2>1. job[s] \in Job /\ (job[s].refused < Streak => job[s].refused + 1 \in 0..Streak)
    BY DEF Job
  <2> DEFINE accepted == [job[s] EXCEPT !.accepted = TRUE, !.refused = 0]
             refused == [job[s] EXCEPT !.refused = @ + 1]
             other == [job[s] EXCEPT !.refused = 0]
  <2>2. accepted \in Job /\ other \in Job /\ (job[s].refused < Streak => refused \in Job)
    <3>1. 0 \in 0..Streak
      OBVIOUS
    <3>2. other \in Job
      BY <2>1, <3>1 DEF Job
    <3>3. accepted = [other EXCEPT !.accepted = TRUE]
      BY <2>1 DEF Job
    <3>4. [other EXCEPT !.accepted = TRUE] \in Job
      BY <3>2 DEF Job
    <3>5. job[s].refused < Streak => refused \in Job
      BY <2>1 DEF Job
    <3> QED BY <3>2, <3>3, <3>4, <3>5
  <2>3. \/ job' = [job EXCEPT ![s] = accepted]
        \/ job' = [job EXCEPT ![s] = refused]
        \/ job' = [job EXCEPT ![s] = other]
    BY <1>4 DEF Attempt
  <2> QED BY <1>4, <2>2, <2>3 DEF Attempt
<1>5. CASE Writes(s)
  <2>1. result' \in Result
    BY <1>5 DEF Writes, Result
  <2>2. job' \in [Sample -> Job]
    BY <1>5 DEF Writes, Job
  <2> QED BY <1>5, <2>1, <2>2 DEF Writes
<1> QED BY <1>1, <1>2, <1>3, <1>4, <1>5 DEF Works

\* Every reachable state is well typed, and every step of the host, a job, a
\* container or the clock keeps every part of Inv.
THEOREM CalibrationSafe == Spec => []TypeOK /\ []Inv
<1>1. Init => TypeOK
  <2> SUFFICES ASSUME Init PROVE TypeOK
    OBVIOUS
  <2>1. values \in Seq(Result) /\ Len(values) = 0
    BY EmptySeq DEF Init
  <2>2. Idle \in Job /\ 1 \in Sample
    BY DEF Idle, Job, Sample
  <2>3. job \in [Sample -> Job] /\ container \in [Sample -> Phase]
    BY <2>2 DEF Init, Phase
  <2>4. /\ at = "create" /\ sample = 1 /\ outcome = "running" /\ Len(values) <= Samples
        /\ result = NoResult /\ armed = FALSE /\ t0 = {} /\ mishap = FALSE
    BY <2>1 DEF Init
  <2> QED BY <2>1, <2>2, <2>3, <2>4 DEF TypeOK
<1>2. Init => Inv
  <2> SUFFICES ASSUME Init PROVE Inv
    OBVIOUS
  <2>1. Len(values) = 0 /\ 1 \in Sample
    BY EmptySeq DEF Init, Sample
  <2> QED
    BY <2>1 DEF Init, Inv, Behind, Ahead, Present, Account, ValuesAreOwn, Gone, Watching,
                Sample, Idle
<1>3. TypeOK /\ Inv /\ [Next]_vars => TypeOK'
  <2> SUFFICES ASSUME TypeOK, Inv, [Next]_vars PROVE TypeOK'
    OBVIOUS
  <2> USE DEF TypeOK, HostOnly, Proceeds, Abandons, Errors, hostVars, stateVars
  <2>1. CASE CreateAuxiliary
    BY <2>1 DEF CreateAuxiliary, Phase
  <2>2. CASE StartJob
    BY <2>2 DEF StartJob, Job
  <2>3. CASE Armed \/ ArmingExpires \/ CallFails \/ ReachesT0 \/ WaitForExit \/ PollExpires
    BY <2>3 DEF Armed, ArmingExpires, CallFails, ReachesT0, WaitForExit, PollExpires
  <2>4. CASE Kill
    BY <2>4 DEF Kill, Phase
  <2>5. CASE Poll
    <3>1. CASE IsValue(result)
      <4>1. result \in Result /\ Len(values) < Samples
        BY <2>5 DEF Poll, Inv, Account, Sample
      <4>2. values' = Append(values, result) /\ at' = "drop" /\ UNCHANGED <<sample, outcome>>
        BY <2>5, <3>1 DEF Poll
      <4>3. values' \in Seq(Result) /\ Len(values') = Len(values) + 1
        BY <4>1, <4>2, PollAppends
      <4>4. Len(values) \in Nat
        BY LenProperties
      <4> QED BY <2>5, <4>1, <4>2, <4>3, <4>4 DEF Poll
    <3>2. CASE ~IsValue(result)
      BY <2>5, <3>2 DEF Poll
    <3> QED BY <3>1, <3>2
  <2>6. CASE Drop
    <3>1. container' \in [Sample -> Phase] /\ at' \in {"over", "create"} /\ mishap' \in BOOLEAN
      BY <2>6 DEF Drop, Follows, Phase
    <3>2. sample' \in Sample
      BY <2>6 DEF Drop, Follows, Sample
    <3>3. outcome' \in {"running", "calibrated", "unavailable", "raised"}
      BY <2>6 DEF Drop, Follows
    <3> QED BY <2>6, <3>1, <3>2, <3>3 DEF Drop
  <2>7. ASSUME NEW s \in Sample, Works(s) PROVE TypeOK'
    BY <2>7, JobKeepsType
  <2>8. ASSUME NEW s \in Sample, Changes(s) \/ PassesT0(s) PROVE TypeOK'
    BY <2>8 DEF Changes, PassesT0, Phase
  <2>9. CASE Over \/ UNCHANGED vars
    BY <2>9 DEF Over, vars
  <2> QED BY <2>1, <2>2, <2>3, <2>4, <2>5, <2>6, <2>7, <2>8, <2>9 DEF Next, Host
<1>4. TypeOK /\ TypeOK' /\ Inv /\ [Next]_vars => Inv'
  <2> SUFFICES ASSUME TypeOK, TypeOK', Inv, [Next]_vars PROVE Inv'
    OBVIOUS
  <2> USE DEF Inv, HostOnly, Proceeds, Abandons, Errors, hostVars, stateVars
  <2>1. CASE CreateAuxiliary
    <3> USE <2>1 DEF CreateAuxiliary
    <3>1. Behind' /\ Ahead'
      BY DEF Behind, Ahead, TypeOK, Sample
    <3>2. Present'
      BY DEF Present, Watching, Ahead, TypeOK, Idle
    <3>3. Account' /\ Gone'
      BY DEF Account, Gone, Ahead, TypeOK
    <3>4. ValuesAreOwn'
      BY DEF ValuesAreOwn, Account, TypeOK, Sample
    <3> QED BY <3>1, <3>2, <3>3, <3>4
  <2>2. CASE StartJob
    <3> USE <2>2 DEF StartJob
    <3>1. Behind' /\ Ahead'
      BY DEF Behind, Ahead, TypeOK, Sample
    <3>2. Present'
      BY DEF Present, Watching, TypeOK
    <3>3. Account' /\ Gone'
      BY DEF Account, Gone
    <3>4. ValuesAreOwn'
      BY DEF ValuesAreOwn, Account, TypeOK, Sample, Job
    <3> QED BY <3>1, <3>2, <3>3, <3>4
  <2>3. CASE Armed \/ ArmingExpires \/ CallFails \/ ReachesT0 \/ PollExpires
    <3> USE <2>3 DEF Armed, ArmingExpires, CallFails, ReachesT0, PollExpires
    <3>1. Behind' /\ Ahead' /\ ValuesAreOwn'
      BY DEF Behind, Ahead, ValuesAreOwn
    <3>2. Present'
      BY DEF Present, Watching, Seen
    <3>3. Account' /\ Gone'
      BY DEF Account, Gone
    <3> QED BY <3>1, <3>2, <3>3
  <2>4. CASE Kill
    <3> USE <2>4 DEF Kill
    <3>1. Behind' /\ Ahead'
      BY DEF Behind, Ahead, TypeOK, Sample
    <3>2. Present'
      BY DEF Present, Watching, Seen, TypeOK
    <3>3. Account' /\ Gone'
      BY DEF Account, Gone
    <3>4. ValuesAreOwn'
      BY DEF ValuesAreOwn, Account, TypeOK, Sample
    <3> QED BY <3>1, <3>2, <3>3, <3>4
  <2>5. CASE WaitForExit
    <3> USE <2>5 DEF WaitForExit
    <3>1. Behind' /\ Ahead' /\ ValuesAreOwn'
      BY DEF Behind, Ahead, ValuesAreOwn
    <3>2. Present'
      BY DEF Present, Watching, Seen
    <3>3. Account' /\ Gone'
      BY DEF Account, Gone
    <3> QED BY <3>1, <3>2, <3>3
  <2>6. CASE Poll
    <3> USE <2>6 DEF Poll
    <3>1. Behind' /\ Ahead'
      BY DEF Behind, Ahead
    <3>2. Present'
      BY DEF Present, Watching, Seen
    <3>3. Gone'
      BY DEF Gone
    <3>4. Account' /\ ValuesAreOwn'
      <4>1. CASE IsValue(result)
        <5>1. result \in Result /\ sample \in Sample /\ Len(values) = sample - 1
          BY DEF TypeOK, Account
        <5>2. /\ values' = Append(values, result) /\ at' = "drop"
              /\ UNCHANGED <<sample, outcome, container, job>> /\ outcome = "running"
          BY <4>1 DEF Account
        <5>3. /\ Len(values') = sample /\ values'[sample] = result
              /\ \A i \in 1..(sample - 1) : values'[i] = values[i]
          BY <5>1, <5>2, PollAppends DEF Sample
        <5>4. /\ result.of = sample /\ result.floor # "error" /\ job[sample].reached
              /\ container[sample] \in {"killed", "dead"}
          BY <4>1 DEF Present, Watching, IsValue
        <5>5. Account'
          BY <5>2, <5>3 DEF Account
        <5>6. ASSUME NEW i \in 1..Len(values')
              PROVE  /\ values'[i].of = i /\ values'[i].floor # "error"
                     /\ job'[i].reached /\ container'[i] \in {"killed", "dead", "removed"}
          <6>1. CASE i = sample
            BY <5>2, <5>3, <5>4, <6>1
          <6>2. CASE i # sample
            <7>1. i \in 1..(sample - 1) /\ i \in 1..Len(values)
              BY <5>1, <5>3, <5>6, <6>2 DEF Sample
            <7> QED BY <5>2, <5>3, <7>1 DEF ValuesAreOwn
          <6> QED BY <6>1, <6>2
        <5> QED BY <5>5, <5>6 DEF ValuesAreOwn
      <4>2. CASE ~IsValue(result)
        BY <4>2 DEF Account, ValuesAreOwn
      <4> QED BY <4>1, <4>2
    <3> QED BY <3>1, <3>2, <3>3, <3>4
  <2>7. CASE Drop
    <3> USE <2>7 DEF Drop, Follows
    <3>1. Behind'
      BY DEF Behind, Present, TypeOK, Sample
    <3>2. Ahead'
      BY DEF Ahead, TypeOK, Sample
    <3>3. Present'
      BY DEF Present, Watching
    <3>4. Account'
      <4>1. CASE outcome # "running" \/ (at' = "over" /\ outcome' = "raised")
        BY <4>1 DEF Account
      <4>2. CASE outcome = "running" /\ Follows
        <5>1. Len(values) = sample /\ sample \in 1..Samples /\ values' = values
          BY <4>2 DEF Account, TypeOK, Sample
        <5>2. CASE sample = Samples
          BY <4>2, <5>1, <5>2 DEF Account
        <5>3. CASE sample # Samples
          BY <4>2, <5>1, <5>3 DEF Account
        <5> QED BY <5>2, <5>3
      <4>3. Follows \/ (at' = "over" /\ outcome' = "raised")
        BY <2>7, Zenon DEF Drop
      <4> QED BY <4>1, <4>2, <4>3
    <3>5. ValuesAreOwn' /\ Gone'
      BY DEF ValuesAreOwn, Gone, TypeOK, Sample
    <3> QED BY <3>1, <3>2, <3>3, <3>4, <3>5
  <2>8. ASSUME NEW s \in Sample, Works(s) PROVE Inv'
    <3>1. s = sample /\ at \notin {"create", "post"} /\ job[s].phase \in {"ready", "t0", "attempts"}
      BY <2>8 DEF Works, Reaches, NeverReaches, Begins, Attempt, Writes, Behind, Ahead, Present,
                  Idle, TypeOK, Sample
    <3>2. /\ UNCHANGED <<hostVars, container, mishap>>
          /\ \A t \in Sample \ {s} : job'[t] = job[t]
          /\ job[s].reached => job'[s].reached
          /\ job'[s].phase \in {"t0", "attempts"} => job'[s].reached
      BY <2>8 DEF Works, Reaches, NeverReaches, Begins, Attempt, Writes, JobOnly, TypeOK, Job,
                  Present
    <3>3. Behind' /\ Ahead'
      BY <3>1, <3>2 DEF Behind, Ahead, TypeOK, Sample
    <3>4. Account' /\ Gone'
      BY <3>2 DEF Account, Gone
    <3>5. ValuesAreOwn'
      BY <3>2 DEF ValuesAreOwn, TypeOK, Sample
    <3>6. Present'
      <4> USE <3>1, <3>2 DEF JobOnly, TypeOK, Present, Watching, Seen
      <4>1. CASE Reaches(s)
        BY <4>1 DEF Reaches, Job
      <4>2. CASE NeverReaches(s)
        BY <4>2 DEF NeverReaches, Job
      <4>3. CASE Begins(s)
        BY <4>3 DEF Begins, Job
      <4>4. CASE Attempt(s)
        BY <4>4 DEF Attempt, Job
      <4>5. CASE Writes(s)
        BY <4>5 DEF Writes, Job
      <4> QED BY <2>8, <4>1, <4>2, <4>3, <4>4, <4>5 DEF Works
    <3> QED BY <3>3, <3>4, <3>5, <3>6
  <2>9. ASSUME NEW s \in Sample, Changes(s) PROVE Inv'
    <3> USE <2>9 DEF Changes
    <3>1. Behind' /\ Ahead'
      BY DEF Behind, Ahead, TypeOK
    <3>2. Present' /\ Account'
      BY DEF Present, Account, Watching, Seen, TypeOK
    <3>3. ValuesAreOwn' /\ Gone'
      BY DEF ValuesAreOwn, Gone, TypeOK, Sample
    <3> QED BY <3>1, <3>2, <3>3
  <2>10. ASSUME NEW s \in Sample, PassesT0(s) PROVE Inv'
    BY <2>10 DEF PassesT0, Behind, Ahead, Present, Account, ValuesAreOwn, Gone, Watching, Seen
  <2>11. CASE Over \/ UNCHANGED vars
    BY <2>11 DEF Over, vars, Behind, Ahead, Present, Account, ValuesAreOwn, Gone, Watching, Seen
  <2> QED
    BY <2>1, <2>2, <2>3, <2>4, <2>5, <2>6, <2>7, <2>8, <2>9, <2>10, <2>11 DEF Next, Host
<1> QED BY <1>1, <1>2, <1>3, <1>4, PTL DEF Spec

-----------------------------------------------------------------------------
\* What is counted is the sample's own, for any number of samples.
THEOREM ValuesSafe == Spec => []ValuesAreOwn
<1>1. Inv => ValuesAreOwn
  BY DEF Inv
<1> QED BY <1>1, CalibrationSafe, PTL

\* Nothing is killed that the sidecar has not reached or given up on.
THEOREM KillSafe == Spec => []KillIsAwaited
<1>1. Inv => KillIsAwaited
  BY DEF Inv, Present, KillIsAwaited, Seen
<1> QED BY <1>1, CalibrationSafe, PTL

\* STATE's one slot is never shared by two jobs.
THEOREM JobSafe == Spec => []OneJobAtATime
<1>1. TypeOK /\ Inv => OneJobAtATime
  BY DEF Inv, Behind, Ahead, OneJobAtATime, Runs, Idle, TypeOK, Sample
<1> QED BY <1>1, CalibrationSafe, PTL

\* A calibration has all of its samples.
THEOREM AllSafe == Spec => []AllOrNothing
<1>1. Inv => AllOrNothing
  BY DEF Inv, Account, AllOrNothing
<1> QED BY <1>1, CalibrationSafe, PTL

\* No container of a calibration that is over is left but by a failed delete.
THEOREM LeftSafe == Spec => []NoneIsLeft
<1>1. TypeOK /\ Inv => NoneIsLeft
  BY DEF Inv, Behind, Ahead, Gone, NoneIsLeft, TypeOK, Sample
<1> QED BY <1>1, CalibrationSafe, PTL

=============================================================================
