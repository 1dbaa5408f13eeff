---------------------------- MODULE SidecarProofs ----------------------------
(***************************************************************************)
(* The default experiment, with the traffic driven by the sidecar, is      *)
(* safe for every value of its constants, and implements Grace.            *)
(***************************************************************************)
EXTENDS SidecarShutdown, TLAPS

-----------------------------------------------------------------------------
\* The inductive invariant, besides TypeOK.

\* Where the signaller is tells which signals were taken note of.
SignalOrder ==
  /\ task.signaller = "until_t0" <=> "sigterm" \notin stamped
  /\ task.signaller \in {"until_t0", "posting", "acked", "grace"} => "sigkill" \notin stamped

\* Before the start is answered no task of the host has run, after the group
\* both have ended.
HostOrder ==
  /\ phase = "starting" => task.signaller = "until_t0" /\ task.waiter = "waiting"
  /\ phase \in {"die_wait", "polling", "measured"} =>
       task.waiter = "done" /\ task.signaller = "done"

\* The exit is taken note of once, from a report of the daemon; a SIGTERM that was
\* delivered came before it.
ExitOrder ==
  /\ task.waiter = "waiting" <=> "exit" \notin stamped
  /\ "exit" \in stamped => target.reported
  /\ task.signaller \in {"acked", "grace", "killing", "done"} /\ "exit" \in stamped =>
       "sigterm" \in earlier["exit"]

\* What is left of the grace period and what has passed since SIGTERM make up a
\* whole grace period.
GraceAccount == task.signaller = "grace" => sinceT0 + left.grace >= HardWait

\* Nothing is measured before a request has crossed the socket.
Arming ==
  /\ task.clock # "arming" => {"request_armed", "shutdown_armed"} \subseteq fired
  /\ "t0" \in stamped => task.clock = "done"
  /\ "shutdown_armed" \in fired => "request_armed" \in fired \/ job = "failed"
  /\ phase \notin {"starting", "raised"} => "shutdown_armed" \in fired
  /\ "sigterm" \in stamped => "shutdown_armed" \in fired

\* A streak of refusals begins after T0, and so does the accept stop it becomes.
Streaks ==
  /\ streak > 0 => "t0" \in streakAt
  /\ "accept_stop" \in stamped => "t0" \in earlier["accept_stop"]
  /\ reported.accept_stop =>
       /\ phase = "measured" /\ "accept_stop" \in stamped
       /\ "sigkill" \notin earlier["accept_stop"]

Inv == SignalOrder /\ HostOrder /\ ExitOrder /\ GraceAccount /\ Arming /\ Streaks

-----------------------------------------------------------------------------
\* Every reachable state is one the two processes can be in.

USE SidecarAssumption

\* The streak stays within its bound because the watcher leaves when it is reached.
TypeInv == TypeOK /\ (task.accept # "done" => streak < RefusedStreak)

THEOREM TypeCorrect == Spec => []TypeOK
<1>1. Init => TypeInv
  <2> SUFFICES ASSUME Init PROVE TypeInv
    OBVIOUS
  <2>1. HostType /\ TaskType /\ JobType /\ TargetType
    BY DEF Init, HostType, TaskType, JobType, TargetType
  <2>2. StreakType /\ StampType /\ streak < RefusedStreak
    BY DEF Init, StreakType, StampType, Stamp
  <2>3. TimeType
    BY DEF Init, TimeType
  <2> QED BY <2>1, <2>2, <2>3 DEF TypeInv, TypeOK
<1>2. TypeInv /\ [Next]_vars => TypeInv'
  <2> SUFFICES ASSUME TypeInv, [Next]_vars PROVE TypeInv'
    OBVIOUS
  <2> USE DEF TypeInv, TypeOK, Goto, hostVars, jobVars, stampVars
  <2>1. CASE HostSteps
    <3>1. CASE StartAnswered
      <4>1. HostType'
        BY <3>1 DEF StartAnswered, HostType, hostVars
      <4>2. TimeType'
        BY <3>1 DEF StartAnswered, TimeType, Starts, Timer
      <4> QED BY <3>1, <4>1, <4>2 DEF StartAnswered,
             TaskType, JobType, StreakType, StampType, TargetType
    <3>2. CASE StartRefused
      <4>1. HostType'
        BY <3>2 DEF StartRefused, HostType, hostVars, Raise
      <4> QED BY <3>2, <4>1 DEF StartRefused,
             TaskType, JobType, StreakType, StampType, TimeType, TargetType, Raise
    <3>3. CASE WaiterSeesExit
      <4>1. TaskType'
        BY <3>3 DEF WaiterSeesExit, TaskType
      <4>2. StampType'
        BY <3>3 DEF WaiterSeesExit, StampType, Take, Stamp
      <4> QED BY <3>3, <4>1, <4>2 DEF WaiterSeesExit,
             HostType, JobType, StreakType, TimeType, TargetType
    <3>4. CASE WaiterTimesOut
      <4>1. HostType'
        BY <3>4 DEF WaiterTimesOut, HostType, hostVars, Raise
      <4> QED BY <3>4, <4>1 DEF WaiterTimesOut,
             TaskType, JobType, StreakType, StampType, TimeType, TargetType, Raise
    <3>5. CASE TasksJoin
      <4>1. HostType'
        BY <3>5 DEF TasksJoin, HostType, hostVars
      <4>2. TimeType'
        BY <3>5 DEF TasksJoin, TimeType, Starts, Timer
      <4> QED BY <3>5, <4>1, <4>2 DEF TasksJoin,
             TaskType, JobType, StreakType, StampType, TargetType
    <3>6. CASE PollStarts
      <4>1. HostType'
        BY <3>6 DEF PollStarts, HostType, hostVars
      <4>2. TimeType'
        BY <3>6 DEF PollStarts, TimeType, Starts, Timer
      <4> QED BY <3>6, <4>1, <4>2 DEF PollStarts,
             TaskType, JobType, StreakType, StampType, TargetType
    <3>7. CASE PollAnswered
      <4>1. StopIsReported \in BOOLEAN /\ Reached("drop") \in BOOLEAN
        BY DEF StopIsReported, Reached
      <4>2. reported' \in [requests: BOOLEAN, drop: BOOLEAN, accept_stop: BOOLEAN]
        BY <3>7, <4>1, Zenon DEF PollAnswered, JobType
      <4>3. HostType'
        BY <3>7, <4>2 DEF PollAnswered, HostType
      <4> QED BY <3>7, <4>3 DEF PollAnswered,
           TaskType, JobType, StreakType, StampType, TimeType, TargetType
    <3>8. CASE PollFails
      <4>1. HostType'
        BY <3>8 DEF PollFails, HostType, hostVars, Raise
      <4> QED BY <3>8, <4>1 DEF PollFails,
             TaskType, JobType, StreakType, StampType, TimeType, TargetType, Raise
    <3> QED BY <2>1, <3>1, <3>2, <3>3, <3>4, <3>5, <3>6, <3>7, <3>8 DEF HostSteps
  <2>2. CASE Signaller
    <3>1. CASE SignallerWakes
      <4>1. TaskType'
        BY <3>1 DEF SignallerWakes, TaskType
      <4>2. StampType'
        BY <3>1 DEF SignallerWakes, StampType, Take, Stamp
      <4> QED BY <3>1, <4>1, <4>2 DEF SignallerWakes,
             HostType, JobType, StreakType, TimeType, TargetType
    <3>2. CASE SigtermDelivered
      <4>1. TaskType'
        BY <3>2 DEF SigtermDelivered, TaskType
      <4>2. TargetType'
        BY <3>2 DEF SigtermDelivered, TargetType
      <4> QED BY <3>2, <4>1, <4>2 DEF SigtermDelivered,
             HostType, JobType, StreakType, StampType, TimeType
    <3>3. CASE SigtermFails
      <4>1. HostType'
        BY <3>3 DEF SigtermFails, HostType, hostVars, Raise
      <4> QED BY <3>3, <4>1 DEF SigtermFails,
             TaskType, JobType, StreakType, StampType, TimeType, TargetType, Raise
    <3>4. CASE SigtermAcked
      <4>1. TaskType'
        BY <3>4 DEF SigtermAcked, TaskType
      <4>2. TimeType'
        BY <3>4 DEF SigtermAcked, TimeType, Starts, Timer
      <4> QED BY <3>4, <4>1, <4>2 DEF SigtermAcked,
             HostType, JobType, StreakType, StampType, TargetType
    <3>5. CASE GraceEnds
      <4>1. TaskType'
        BY <3>5 DEF GraceEnds, TaskType
      <4> QED BY <3>5, <4>1 DEF GraceEnds,
             HostType, JobType, StreakType, StampType, TimeType, TargetType
    <3>6. CASE SigkillSent
      <4>1. TaskType'
        BY <3>6 DEF SigkillSent, TaskType
      <4>2. StampType'
        BY <3>6 DEF SigkillSent, StampType, Take, Stamp
      <4> QED BY <3>6, <4>1, <4>2 DEF SigkillSent,
             HostType, JobType, StreakType, TimeType, TargetType
    <3>7. CASE SigkillPosted
      <4>1. TaskType'
        BY <3>7 DEF SigkillPosted, TaskType, Dies
      <4>2. TimeType'
        BY <3>7 DEF SigkillPosted, TimeType, Starts, Timer, Dies
      <4>3. TargetType'
        BY <3>7 DEF SigkillPosted, TargetType, Dies
      <4> QED BY <3>7, <4>1, <4>2, <4>3 DEF SigkillPosted,
             HostType, JobType, StreakType, StampType, Dies
    <3> QED BY <2>2, <3>1, <3>2, <3>3, <3>4, <3>5, <3>6, <3>7 DEF Signaller
  <2>3. CASE CallFails
    <3>1. HostType'
      BY <2>3 DEF CallFails, HostType, hostVars, Raise
    <3> QED BY <2>3, <3>1 DEF CallFails,
           TaskType, JobType, StreakType, StampType, TimeType, TargetType, Raise
  <2>4. CASE Accept
    <3>1. CASE AcceptBegins
      <4>1. TaskType' /\ JobType'
        BY <3>1 DEF AcceptBegins, TaskType, JobType
      <4>2. streak' < RefusedStreak
        BY <3>1 DEF AcceptBegins, Side
      <4> QED BY <3>1, <4>1, <4>2 DEF AcceptBegins,
           HostType, StreakType, StampType, TimeType, TargetType
    <3>2. CASE AcceptLeaves
      <4>1. TaskType'
        BY <3>2 DEF AcceptLeaves, TaskType
      <4> QED BY <3>2, <4>1 DEF AcceptLeaves,
             HostType, JobType, StreakType, StampType, TimeType, TargetType
    <3>3. ASSUME NEW refused \in BOOLEAN, AcceptEnds(refused) PROVE TypeInv'
      <4>1. streak < RefusedStreak
        BY <3>3 DEF AcceptEnds, Side
      <4>2. StreakType'
        BY <3>3, <4>1 DEF AcceptEnds, StreakType, StampType
      <4>3. StampType'
        BY <3>3, <4>2 DEF AcceptEnds, StreakType, StampType, Stamp
      <4>4. TaskType'
        BY <3>3 DEF AcceptEnds, TaskType
      <4>5. task'.accept # "done" => streak' < RefusedStreak
        BY <3>3, <4>2 DEF AcceptEnds, StreakIsTerminal, StreakType, TaskType
      <4> QED BY <3>3, <4>2, <4>3, <4>4, <4>5 DEF AcceptEnds,
           HostType, JobType, TimeType, TargetType
    <3> QED BY <2>4, <3>1, <3>2, <3>3 DEF Accept
  <2>5. ASSUME NEW r \in Request, RequestSent(r) \/ RequestEnds(r) PROVE TypeInv'
    <3>1. JobType'
      BY <2>5 DEF RequestSent, RequestEnds, JobType
    <3> QED BY <2>5, <3>1 DEF RequestSent, RequestEnds,
         HostType, TaskType, StreakType, StampType, TimeType, TargetType
  <2>6. CASE Traffic
    <3>1. CASE TrafficLaunches
      <4>1. TaskType'
        BY <3>1 DEF TrafficLaunches, TaskType
      <4>2. JobType'
        BY <3>1 DEF TrafficLaunches, JobType
      <4>3. task'.accept = task.accept
        BY <3>1 DEF TrafficLaunches, TaskType
      <4> QED BY <3>1, <4>1, <4>2, <4>3 DEF TrafficLaunches,
             HostType, StreakType, StampType, TimeType, TargetType
    <3>2. CASE TrafficCollects
      <4>1. TaskType'
        BY <3>2 DEF TrafficCollects, TaskType
      <4>2. JobType'
        BY <3>2 DEF TrafficCollects, JobType
      <4> QED BY <3>2, <4>1, <4>2 DEF TrafficCollects,
             HostType, StreakType, StampType, TimeType, TargetType
    <3> QED BY <2>6, <3>1, <3>2 DEF Traffic
  <2>7. CASE Clock
    <3>1. CASE ClockArms
      <4>1. TaskType'
        BY <3>1 DEF ClockArms, TaskType
      <4>2. JobType'
        BY <3>1 DEF ClockArms, JobType
      <4> QED BY <3>1, <4>1, <4>2 DEF ClockArms,
             HostType, StreakType, StampType, TimeType, TargetType
    <3>2. CASE ClockReachesT0
      <4>1. TaskType'
        BY <3>2 DEF ClockReachesT0, TaskType
      <4>2. JobType'
        BY <3>2 DEF ClockReachesT0, JobType
      <4>3. StampType'
        BY <3>2 DEF ClockReachesT0, StampType, Take, Stamp
      <4>4. TimeType'
        <5>1. HardWait + ReadinessMargin \in Nat /\ JobTime \in Nat
          BY DEF JobTime
        <5>2. left' \in [Timer -> Nat]
          BY <3>2, <5>1 DEF ClockReachesT0, TimeType, Timer
        <5> QED BY <3>2, <5>2 DEF ClockReachesT0, TimeType
      <4> QED BY <3>2, <4>1, <4>2, <4>3, <4>4 DEF ClockReachesT0,
             HostType, StreakType, TargetType
    <3> QED BY <2>7, <3>1, <3>2 DEF Clock
  <2>8. CASE Readiness
    <3>1. CASE ReadinessBegins
      <4>1. TaskType'
        BY <3>1 DEF ReadinessBegins, TaskType
      <4>2. TimeType'
        BY <3>1 DEF ReadinessBegins, TimeType, Starts, Timer
      <4> QED BY <3>1, <4>1, <4>2 DEF ReadinessBegins,
             HostType, JobType, StreakType, StampType, TargetType
    <3>2. CASE ReadinessPasses
      <4>1. TaskType'
        BY <3>2 DEF ReadinessPasses, TaskType
      <4> QED BY <3>2, <4>1 DEF ReadinessPasses,
             HostType, JobType, StreakType, StampType, TimeType, TargetType
    <3>3. CASE ReadinessFails
      <4>1. TaskType'
        BY <3>3 DEF ReadinessFails, TaskType
      <4>2. StampType'
        BY <3>3 DEF ReadinessFails, StampType, Take, Stamp
      <4> QED BY <3>3, <4>1, <4>2 DEF ReadinessFails,
             HostType, JobType, StreakType, TimeType, TargetType
    <3>4. CASE ReadinessAbandoned
      <4>1. TaskType'
        BY <3>4 DEF ReadinessAbandoned, TaskType
      <4> QED BY <3>4, <4>1 DEF ReadinessAbandoned,
             HostType, JobType, StreakType, StampType, TimeType, TargetType
    <3> QED BY <2>8, <3>1, <3>2, <3>3, <3>4 DEF Readiness
  <2>9. CASE Body \/ JobFails
    <3>1. JobType'
      BY <2>9 DEF Body, JobStops, JobEnds, JobFails, JobType
    <3> QED BY <2>9, <3>1 DEF Body, JobStops, JobEnds, JobFails,
           HostType, TaskType, StreakType, StampType, TimeType, TargetType
  <2>10. CASE DaemonReports \/ TargetChanges
    <3>1. TargetType'
      BY <2>10 DEF DaemonReports, TargetChanges, TargetType
    <3> QED BY <2>10, <3>1 DEF DaemonReports, TargetChanges,
           HostType, TaskType, JobType, StreakType, StampType, TimeType
  <2>11. CASE TargetExits
    <3>1. TimeType'
      BY <2>11 DEF TargetExits, TimeType, Starts, Timer, Dies
    <3>2. TargetType'
      BY <2>11 DEF TargetExits, TargetType, Dies
    <3> QED BY <2>11, <3>1, <3>2 DEF TargetExits,
           HostType, TaskType, JobType, StreakType, StampType, Dies
  <2>12. CASE Tick
    <3>1. TimeType'
      BY <2>12 DEF Tick, TimeType, Timer, Down
    <3> QED BY <2>12, <3>1 DEF Tick,
           HostType, TaskType, JobType, StreakType, StampType, TargetType
  <2>13. CASE UNCHANGED vars
    BY <2>13 DEF vars, HostType, TaskType, JobType, StreakType, StampType, TimeType, TargetType
  <2> QED
    BY <2>1, <2>2, <2>3, <2>4, <2>5, <2>6, <2>7, <2>8, <2>9, <2>10, <2>11, <2>12, <2>13
    DEF Next, SidecarSteps, RequestStep, Over
<1> QED BY <1>1, <1>2, PTL DEF Spec, TypeInv

-----------------------------------------------------------------------------
\* The inductive invariant holds of every reachable state.

THEOREM SidecarSafe == Spec => []Inv
<1>1. Init => Inv
  BY DEF Init, Inv, SignalOrder, HostOrder, ExitOrder, GraceAccount, Arming, Streaks
<1>2. TypeOK /\ Inv /\ [Next]_vars => Inv'
  <2> SUFFICES ASSUME TypeOK, Inv, [Next]_vars PROVE Inv'
    OBVIOUS
  <2> USE DEF Goto, Raise, Starts, Take, Reached, Host, Side, hostVars, jobVars, stampVars,
              Inv, SignalOrder, HostOrder, ExitOrder, GraceAccount, Arming, Streaks,
              TypeOK, HostType, TaskType, JobType, StreakType, StampType, TimeType, TargetType
  <2>1. CASE HostSteps
    <3>1. CASE StartAnswered
      BY <3>1 DEF StartAnswered, Timer
    <3>2. CASE StartRefused
      BY <3>2 DEF StartRefused
    <3>3. CASE WaiterSeesExit
      BY <3>3 DEF WaiterSeesExit, Stamp
    <3>4. CASE WaiterTimesOut
      BY <3>4 DEF WaiterTimesOut
    <3>5. CASE TasksJoin
      BY <3>5 DEF TasksJoin, Timer
    <3>6. CASE PollStarts
      BY <3>6 DEF PollStarts, Timer
    <3>7. CASE PollAnswered
      BY <3>7 DEF PollAnswered, StopIsReported
    <3>8. CASE PollFails
      BY <3>8 DEF PollFails
    <3> QED BY <2>1, <3>1, <3>2, <3>3, <3>4, <3>5, <3>6, <3>7, <3>8 DEF HostSteps
  <2>2. CASE Signaller
    <3>1. CASE SignallerWakes
      BY <3>1 DEF SignallerWakes, Stamp
    <3>2. CASE SigtermDelivered
      BY <3>2 DEF SigtermDelivered
    <3>3. CASE SigtermFails
      BY <3>3 DEF SigtermFails
    <3>4. CASE SigtermAcked
      BY <3>4 DEF SigtermAcked, Timer
    <3>5. CASE GraceEnds
      BY <3>5 DEF GraceEnds
    <3>6. CASE SigkillSent
      BY <3>6 DEF SigkillSent, KillIsDue, Stamp
    <3>7. CASE SigkillPosted
      BY <3>7 DEF SigkillPosted, Dies, Timer
    <3> QED BY <2>2, <3>1, <3>2, <3>3, <3>4, <3>5, <3>6, <3>7 DEF Signaller
  <2>3. CASE CallFails
    BY <2>3 DEF CallFails
  <2>4. CASE Live /\ Accept
    <3>1. CASE AcceptBegins
      BY <3>1 DEF AcceptBegins
    <3>2. CASE AcceptLeaves
      BY <3>2 DEF AcceptLeaves
    <3>3. ASSUME NEW refused \in BOOLEAN, AcceptEnds(refused) PROVE Inv'
      <4>1. reported.accept_stop = FALSE
        BY <2>4 DEF Live
      <4>2. streak' > 0 => "t0" \in streakAt'
        BY <3>3 DEF AcceptEnds, Counts
      <4>3. earlier'["exit"] = earlier["exit"]
        BY <3>3 DEF AcceptEnds, Stamp
      <4>4. "accept_stop" \in stamped' => "t0" \in earlier'["accept_stop"]
        BY <3>3, <4>2 DEF AcceptEnds, StreakIsTerminal, Stamp
      <4>5. \A x \in Stamp \ {"accept_stop"} : x \in stamped' <=> x \in stamped
        BY <3>3 DEF AcceptEnds
      <4>6. Streaks'
        BY <3>3, <4>1, <4>2, <4>4 DEF AcceptEnds
      <4>7. task'.waiter = task.waiter /\ task'.signaller = task.signaller
            /\ task'.clock = task.clock
        BY <3>3 DEF AcceptEnds
      <4> QED BY <3>3, <4>3, <4>5, <4>6, <4>7 DEF AcceptEnds, Stamp
    <3> QED BY <2>4, <3>1, <3>2, <3>3 DEF Accept
  <2>5. CASE RequestStep
    BY <2>5 DEF RequestStep, RequestSent, RequestEnds
  <2>6. CASE Traffic
    BY <2>6 DEF Traffic, TrafficLaunches, TrafficCollects
  <2>7. CASE Live /\ Clock
    <3>1. CASE ClockArms
      BY <3>1 DEF ClockArms, Armed
    <3>2. CASE ClockReachesT0
      BY <3>2 DEF ClockReachesT0, Stamp, Timer
    <3> QED BY <2>7, <3>1, <3>2 DEF Clock
  <2>8. CASE Readiness
    BY <2>8
    DEF Readiness, ReadinessBegins, ReadinessPasses, ReadinessFails, ReadinessAbandoned,
                Stamp, Timer
  <2>9. CASE Body \/ JobFails
    BY <2>9 DEF Body, JobStops, JobEnds, JobFails
  <2>10. CASE DaemonReports \/ TargetChanges
    BY <2>10 DEF DaemonReports, TargetChanges
  <2>11. CASE TargetExits
    BY <2>11 DEF TargetExits, Dies, Timer
  <2>12. CASE Tick
    <3>1. task.signaller = "grace" => left.grace > 0 \/ phase = "raised"
      BY <2>12 DEF Tick, Live, Prompt, HostIsDue, Timer
    <3>2. left'.grace = Down(left.grace)
      BY <2>12 DEF Tick, Timer
    <3>3. GraceAccount'
      BY <2>12, <3>1, <3>2 DEF Tick, Down, Live, Timer
    <3> QED BY <2>12, <3>3 DEF Tick
  <2>13. CASE UNCHANGED vars
    BY <2>13 DEF vars
  <2> QED
    BY <2>1, <2>2, <2>3, <2>4, <2>5, <2>6, <2>7, <2>8, <2>9, <2>10, <2>11, <2>12, <2>13
    DEF Next, SidecarSteps, Over
<1> QED BY <1>1, <1>2, TypeCorrect, PTL DEF Spec

-----------------------------------------------------------------------------
\* Neither the sidecar's T0 nor the host's SIGTERM comes before a request has
\* crossed the socket, unless the job has failed: the start is answered only by a
\* sidecar that is armed (sidecar_entry.py 254-261, 505-514).
THEOREM MeasuredSafe == Spec => []MeasuredInsideRequest
<1>1. Inv => MeasuredInsideRequest
  BY DEF Inv, Arming, MeasuredInsideRequest, Reached
<1> QED BY <1>1, SidecarSafe, PTL

\* The accept stop that is reported came after T0 and before any SIGKILL: the
\* streak it ends began after T0, and a later one is left out of the report
\* (context.py 209, traffic_probe.py 291-295).
THEOREM AcceptKillSafe == Spec => []AcceptStopBeforeKill
<1>1. Inv => AcceptStopBeforeKill
  BY DEF Inv, Streaks, AcceptStopBeforeKill
<1> QED BY <1>1, SidecarSafe, PTL

-----------------------------------------------------------------------------
\* Deadlines: what the margins of the two processes have to be to each other.

\* Once a request has crossed the socket all have been launched, and a reported
\* death is one.
Launched ==
  /\ Request # {} /\ "request_armed" \in fired => task.traffic # "until_launch"
  /\ \A r \in Request : requests[r] = "waiting" <=> task.traffic = "until_launch"
  /\ task.traffic = "done" /\ Request # {} => collected
  /\ target.reported => ~target.alive

\* While results of requests are missing the job has time left, and more of it
\* than the host waits for the exit.
JobOutlastsExit ==
  /\ phase \in {"starting", "tasks"} => left.exit <= HardWait + WaitMargin
  /\ Live /\ Request # {} /\ ~collected =>
       /\ job \notin {"stopping", "ended"}
       /\ job = "running" /\ Reached("t0") =>
            /\ left.job > 0
            /\ phase = "starting" => left.job = HardWait + JobMargin
            /\ Host("waiter", "waiting") => left.exit < left.job
  /\ phase = "measured" /\ Request # {} => reported.requests

\* A host that waits for the exit for less than the job may take after it gets a
\* result for every request, whatever the target does: when the exit is known the
\* connections are broken, and the job has time left to collect what they ended in
\* (sidecar_entry.py 286-306, traffic_probe.py 242).
THEOREM RequestsSafe ==
  ASSUME WaitMargin < JobMargin
  PROVE  Spec => []RequestsAreReported
<1> DEFINE JInv == Launched /\ JobOutlastsExit
<1>1. Init => JInv
  BY DEF Init, Launched, JobOutlastsExit, Reached, Timer
<1>2. TypeOK /\ Inv /\ JInv /\ [Next]_vars => JInv'
  <2> SUFFICES ASSUME TypeOK, Inv, JInv, [Next]_vars PROVE JInv'
    OBVIOUS
  <2> USE DEF Goto, Raise, Starts, Take, Reached, Host, Side, Live, hostVars, jobVars,
              stampVars, Launched, JobOutlastsExit,
              TypeOK, HostType, TaskType, JobType, StampType, TimeType, TargetType
  <2>1. CASE HostSteps
    <3>1. CASE StartAnswered
      BY <3>1 DEF StartAnswered, Timer
    <3>2. CASE StartRefused
      BY <3>2 DEF StartRefused
    <3>3. CASE WaiterSeesExit
      BY <3>3 DEF WaiterSeesExit, Stamp
    <3>4. CASE WaiterTimesOut
      BY <3>4 DEF WaiterTimesOut
    <3>5. CASE TasksJoin
      BY <3>5 DEF TasksJoin, Timer
    <3>6. CASE PollStarts
      BY <3>6 DEF PollStarts, Timer
    <3>7. CASE PollAnswered
      BY <3>7 DEF PollAnswered
    <3>8. CASE PollFails
      BY <3>8 DEF PollFails
    <3> QED BY <2>1, <3>1, <3>2, <3>3, <3>4, <3>5, <3>6, <3>7, <3>8 DEF HostSteps
  <2>2. CASE Signaller
    <3>1. CASE SignallerWakes
      BY <3>1 DEF SignallerWakes, Stamp
    <3>2. CASE SigtermDelivered \/ GraceEnds
      BY <3>2 DEF SigtermDelivered, GraceEnds
    <3>3. CASE SigtermFails
      BY <3>3 DEF SigtermFails
    <3>4. CASE SigtermAcked
      BY <3>4 DEF SigtermAcked, Timer
    <3>5. CASE SigkillSent
      BY <3>5 DEF SigkillSent, Stamp
    <3>6. CASE SigkillPosted
      BY <3>6 DEF SigkillPosted, Dies, Timer
    <3> QED BY <2>2, <3>1, <3>2, <3>3, <3>4, <3>5, <3>6 DEF Signaller
  <2>3. CASE CallFails
    BY <2>3 DEF CallFails
  <2>4. CASE Accept
    <3>1. CASE AcceptBegins \/ AcceptLeaves
      BY <3>1 DEF AcceptBegins, AcceptLeaves
    <3>2. ASSUME NEW refused \in BOOLEAN, AcceptEnds(refused) PROVE JInv'
      <4>1. "t0" \in stamped' <=> "t0" \in stamped
        BY <3>2 DEF AcceptEnds
      <4>2. task'.waiter = task.waiter /\ task'.traffic = task.traffic
        BY <3>2 DEF AcceptEnds
      <4> QED BY <3>2, <4>1, <4>2 DEF AcceptEnds
    <3> QED BY <2>4, <3>1, <3>2 DEF Accept
  <2>5. ASSUME NEW r \in Request, RequestSent(r) \/ RequestEnds(r) PROVE JInv'
    BY <2>5 DEF RequestSent, RequestEnds
  <2>6. CASE Traffic
    BY <2>6 DEF Traffic, TrafficLaunches, TrafficCollects
  <2>7. CASE Clock
    <3>1. CASE ClockArms
      BY <3>1 DEF ClockArms
    <3>2. CASE ClockReachesT0
      <4>1. left' = [left EXCEPT !.readiness = HardWait + ReadinessMargin,
                                 !.job = HardWait + JobMargin]
        BY <3>2 DEF ClockReachesT0, JobTime
      <4>2. left'.job = HardWait + JobMargin /\ left'.exit = left.exit
            /\ left.exit \in Nat
        BY <4>1 DEF Timer
      <4>3. Launched'
        BY <3>2 DEF ClockReachesT0
      <4>4. JobOutlastsExit'
        BY <3>2, <4>2 DEF ClockReachesT0
      <4> QED BY <4>3, <4>4
    <3> QED BY <2>7, <3>1, <3>2 DEF Clock
  <2>8. CASE Readiness
    BY <2>8 DEF Readiness, ReadinessBegins, ReadinessPasses, ReadinessFails,
                ReadinessAbandoned, Timer, Stamp
  <2>9. CASE Body \/ JobFails
    BY <2>9 DEF Body, JobStops, JobIsOver, AllSeen, JobEnds, JobFails
  <2>10. CASE DaemonReports \/ TargetChanges
    BY <2>10 DEF DaemonReports, TargetChanges
  <2>11. CASE TargetExits
    BY <2>11 DEF TargetExits, Reacts, Dies, Timer
  <2>12. CASE Tick
    <3>1. left'.job = Down(left.job) /\ left'.exit = Down(left.exit)
      BY <2>12 DEF Tick, Timer
    <3>2. Launched'
      BY <2>12 DEF Tick
    <3>3. ASSUME Request # {}, ~collected, job = "running", Reached("t0")
          PROVE  phase = "tasks" /\ task.waiter = "waiting"
      <4>1. "request_armed" \in fired
        BY <3>3 DEF Inv, Arming
      <4>2. task.traffic = "running" /\ \A r \in Request : requests[r] # "waiting"
        BY <3>3, <4>1
      <4>3. target.alive
        <5>1. ~ \A r \in Request : requests[r] = "ended"
          BY <2>12, <3>3, <4>2 DEF Tick, Prompt, JobIsDue
        <5>2. PICK r \in Request : requests[r] \in {"connecting", "sent"}
          BY <4>2, <5>1
        <5> QED BY <2>12, <3>3, <5>2 DEF Tick, Prompt, JobIsDue
      <4>4. task.waiter = "waiting"
        BY <4>3 DEF Inv, ExitOrder
      <4>5. phase # "starting"
        <5>1. "shutdown_armed" \in fired
          BY <3>3 DEF Inv, Arming
        <5> QED BY <2>12, <5>1 DEF Tick, Prompt, HostIsDue
      <4> QED BY <2>12, <4>4, <4>5 DEF Tick, Inv, HostOrder
    <3>4. phase = "tasks" /\ task.waiter = "waiting" => left.exit > 0
      BY <2>12 DEF Tick, Prompt, HostIsDue, Timer
    <3>5. JobOutlastsExit'
      BY <2>12, <3>1, <3>3, <3>4 DEF Tick, Down, Timer
    <3> QED BY <3>2, <3>5
  <2>13. CASE UNCHANGED vars
    BY <2>13 DEF vars
  <2> QED
    BY <2>1, <2>2, <2>3, <2>4, <2>5, <2>6, <2>7, <2>8, <2>9, <2>10, <2>11, <2>12, <2>13
    DEF Next, SidecarSteps, RequestStep, Over
<1>3. JInv => RequestsAreReported
  BY DEF JobOutlastsExit, RequestsAreReported
<1> QED BY <1>1, <1>2, <1>3, TypeCorrect, SidecarSafe, PTL DEF Spec

\* While a result is polled for the poll has more time left than what the job waits
\* for: its deadline while it runs, the last probe's thread once it stops.
PollOutlastsJob ==
  /\ Reached("sigterm") => left.t0 = 0
  /\ Reached("t0") => /\ left.job <= HardWait + JobMargin
                      /\ left.readiness <= HardWait + ReadinessMargin
  /\ task.readiness = "probing" =>
       /\ Reached("t0")
       /\ left.probe <= ProbeTime /\ left.probe <= left.readiness + ProbeTime
  /\ job = "stopping" => Reached("t0")
  /\ ~Reached("t0") /\ job = "running" /\ "shutdown_armed" \in fired =>
       task.clock = "until_t0"
  /\ phase = "polling" =>
       /\ Reached("sigterm")
       /\ job # "ended" => left.poll > 0
       /\ ~Reached("t0") /\ job = "running" => left.poll = HardWait + PollMargin
       /\ Reached("t0") /\ job = "running" => left.poll > left.job
       /\ Reached("t0") /\ job \in {"running", "stopping"} =>
            /\ left.poll >= left.readiness + PollMargin - ReadinessMargin
               \/ left.readiness = 0
            /\ task.readiness = "probing" => left.poll > left.probe
  /\ error # "poll_timeout"

\* A poll whose timeout is later than the job's deadline, and later than the last
\* probe can end, finds a result or a failed job: the cancelled group that waits for
\* a probe's thread does not outlast it (traffic_probe.py 278, sidecar_entry.py 247).
THEOREM ResultSafe ==
  ASSUME JobMargin < PollMargin, ReadinessMargin + ProbeTime < PollMargin
  PROVE  Spec => []ResultIsInTime
<1>1. Init => PollOutlastsJob
  BY DEF Init, PollOutlastsJob, Reached
<1>2. TypeOK /\ Inv /\ PollOutlastsJob /\ [Next]_vars => PollOutlastsJob'
  <2> SUFFICES ASSUME TypeOK, Inv, PollOutlastsJob, [Next]_vars PROVE PollOutlastsJob'
    OBVIOUS
  <2> USE DEF Goto, Raise, Starts, Take, Reached, Host, Side, Live, hostVars, jobVars,
              stampVars, PollOutlastsJob,
              TypeOK, HostType, TaskType, JobType, StampType, TimeType, TargetType
  <2>1. CASE HostSteps
    <3>1. CASE StartAnswered
      BY <3>1 DEF StartAnswered, Timer
    <3>2. CASE StartRefused
      BY <3>2 DEF StartRefused
    <3>3. CASE WaiterSeesExit
      BY <3>3 DEF WaiterSeesExit, Stamp
    <3>4. CASE WaiterTimesOut
      BY <3>4 DEF WaiterTimesOut
    <3>5. CASE TasksJoin
      BY <3>5 DEF TasksJoin, Timer
    <3>6. CASE PollStarts
      <4>1. left'.poll = HardWait + PollMargin
            /\ \A x \in Timer \ {"poll"} : left'[x] = left[x] /\ left[x] \in Nat
        BY <3>6 DEF PollStarts, Timer
      <4>2. Reached("sigterm")
        BY <3>6 DEF PollStarts, Inv, HostOrder, SignalOrder
      <4> QED BY <3>6, <4>1, <4>2 DEF PollStarts, Timer
    <3>7. CASE PollAnswered
      BY <3>7 DEF PollAnswered
    <3>8. CASE PollFails
      BY <3>8 DEF PollFails
    <3> QED BY <2>1, <3>1, <3>2, <3>3, <3>4, <3>5, <3>6, <3>7, <3>8 DEF HostSteps
  <2>2. CASE Signaller
    <3>1. CASE SignallerWakes
      BY <3>1 DEF SignallerWakes, Stamp
    <3>2. CASE SigtermDelivered \/ GraceEnds
      BY <3>2 DEF SigtermDelivered, GraceEnds
    <3>3. CASE SigtermFails
      BY <3>3 DEF SigtermFails
    <3>4. CASE SigtermAcked
      BY <3>4 DEF SigtermAcked, Timer
    <3>5. CASE SigkillSent
      BY <3>5 DEF SigkillSent, Stamp
    <3>6. CASE SigkillPosted
      BY <3>6 DEF SigkillPosted, Dies, Timer
    <3> QED BY <2>2, <3>1, <3>2, <3>3, <3>4, <3>5, <3>6 DEF Signaller
  <2>3. CASE CallFails
    BY <2>3 DEF CallFails
  <2>4. CASE Accept
    <3>1. CASE AcceptBegins \/ AcceptLeaves
      BY <3>1 DEF AcceptBegins, AcceptLeaves
    <3>2. ASSUME NEW refused \in BOOLEAN, AcceptEnds(refused) PROVE PollOutlastsJob'
      <4>1. \A x \in {"t0", "sigterm"} : x \in stamped' <=> x \in stamped
        BY <3>2 DEF AcceptEnds
      <4>2. task'.readiness = task.readiness /\ task'.clock = task.clock
        BY <3>2 DEF AcceptEnds
      <4> QED BY <3>2, <4>1, <4>2 DEF AcceptEnds
    <3> QED BY <2>4, <3>1, <3>2 DEF Accept
  <2>5. ASSUME NEW r \in Request, RequestSent(r) \/ RequestEnds(r) PROVE PollOutlastsJob'
    BY <2>5 DEF RequestSent, RequestEnds
  <2>6. CASE Traffic
    BY <2>6 DEF Traffic, TrafficLaunches, TrafficCollects
  <2>7. CASE Clock
    <3>1. CASE ClockArms
      BY <3>1 DEF ClockArms
    <3>2. CASE ClockReachesT0
      <4>1. left' = [left EXCEPT !.readiness = HardWait + ReadinessMargin,
                                 !.job = HardWait + JobMargin]
        BY <3>2 DEF ClockReachesT0, JobTime
      <4>2. /\ left'.job = HardWait + JobMargin /\ left'.readiness = HardWait + ReadinessMargin
            /\ \A x \in Timer \ {"job", "readiness"} : left'[x] = left[x]
        BY <4>1 DEF Timer
      <4>3. ~Reached("t0") /\ task.readiness # "probing"
        BY <3>2 DEF ClockReachesT0, Inv, Arming
      <4> QED BY <3>2, <4>2, <4>3 DEF ClockReachesT0, Timer
    <3> QED BY <2>7, <3>1, <3>2 DEF Clock
  <2>8. CASE Readiness
    <3>1. CASE ReadinessBegins
      BY <3>1 DEF ReadinessBegins, Timer
    <3>2. CASE ReadinessPasses
      BY <3>2 DEF ReadinessPasses
    <3>3. CASE ReadinessFails
      BY <3>3 DEF ReadinessFails, Stamp
    <3>4. CASE ReadinessAbandoned
      BY <3>4 DEF ReadinessAbandoned
    <3> QED BY <2>8, <3>1, <3>2, <3>3, <3>4 DEF Readiness
  <2>9. CASE Body \/ JobFails
    BY <2>9 DEF Body, JobStops, JobEnds, JobFails
  <2>10. CASE DaemonReports \/ TargetChanges
    BY <2>10 DEF DaemonReports, TargetChanges
  <2>11. CASE TargetExits
    BY <2>11 DEF TargetExits, Dies, Timer
  <2>12. CASE Tick
    <3>1. \A x \in Timer : left'[x] = Down(left[x]) /\ left[x] \in Nat
      BY <2>12 DEF Tick
    <3>2. phase = "polling" => /\ job \in {"running", "stopping"}
                               /\ job = "stopping" => task.readiness = "probing"
      BY <2>12 DEF Tick, Prompt, HostIsDue, JobIsDue
    <3>3. job \in {"running", "stopping"} /\ task.readiness = "probing" => left.probe > 0
      BY <2>12, <3>1 DEF Tick, Prompt, JobIsDue, Timer
    <3>4. phase = "polling" => Reached("t0")
      BY <2>12, <3>2 DEF Tick, Prompt, JobIsDue, Inv, Arming
    <3>5. job = "running" /\ Reached("t0") => left.job > 0
      BY <2>12, <3>1 DEF Tick, Prompt, JobIsDue, JobIsOver, Timer
    <3>6. ~Reached("t0") /\ job = "running" /\ "shutdown_armed" \in fired => left.t0 > 0
      BY <2>12, <3>1 DEF Tick, Prompt, JobIsDue, Timer
    <3> QED BY <2>12, <3>1, <3>2, <3>3, <3>4, <3>5, <3>6 DEF Tick, Down, Timer
  <2>13. CASE UNCHANGED vars
    BY <2>13 DEF vars
  <2> QED
    BY <2>1, <2>2, <2>3, <2>4, <2>5, <2>6, <2>7, <2>8, <2>9, <2>10, <2>11, <2>12, <2>13
    DEF Next, SidecarSteps, RequestStep, Over
<1>3. PollOutlastsJob => ResultIsInTime
  BY DEF PollOutlastsJob, ResultIsInTime
<1> QED BY <1>1, <1>2, <1>3, TypeCorrect, SidecarSafe, PTL DEF Spec

-----------------------------------------------------------------------------
\* What does not touch the phase, the three timestamps and the clock is not seen.
LEMMA UnseenStep ==
  ASSUME Live, Live', sinceT0' = sinceT0, earlier'["exit"] = earlier["exit"],
         \A x \in {"sigterm", "sigkill", "exit"} : x \in stamped' <=> x \in stamped
  PROVE  UNCHANGED G!vars
BY DEF G!vars, StageNow, ExitNow, Live, Reached

\* An exception of the host is a failed experiment.
LEMMA RaiseFails ==
  ASSUME NEW why, Live, Raise(why)
  PROVE  G!Fail
BY DEF Live, Raise, stampVars, G!Fail, G!Running, StageNow, ExitNow, Reached

\* Every behaviour of the sidecar experiment is one of Grace: one SIGTERM, a full
\* grace period, a SIGKILL only then and only without an exit, a measurement only
\* of an exit after the SIGTERM (sidecar_entry.py, traffic_probe.py 200-300).
THEOREM SidecarImplementsGrace == Spec => ImplementsGrace
<1>1. Init => G!Init
  BY DEF Init, G!Init, StageNow, ExitNow, Live, Reached
<1>2. TypeOK /\ Inv /\ [Next]_vars => [G!Next]_(G!vars)
  <2> SUFFICES ASSUME TypeOK, Inv, [Next]_vars PROVE [G!Next]_(G!vars)
    OBVIOUS
  <2> USE DEF Goto, Starts, Reached, Host, Side, hostVars, jobVars, stampVars
  <2>1. CASE HostSteps
    <3>1. CASE StartAnswered \/ TasksJoin \/ PollStarts
      BY <3>1, UnseenStep DEF StartAnswered, TasksJoin, PollStarts, Live
    <3>2. CASE StartRefused \/ WaiterTimesOut \/ PollFails
      BY <3>2, RaiseFails DEF StartRefused, WaiterTimesOut, PollFails, Live, G!Next
    <3>3. CASE WaiterSeesExit
      <4>1. "exit" \notin stamped
        BY <3>3 DEF WaiterSeesExit, Inv, ExitOrder
      <4>2. earlier'["exit"] = stamped /\ stamped' = stamped \cup {"exit"}
        BY <3>3 DEF WaiterSeesExit, Take, TypeOK, StampType, Stamp
      <4>3. "sigkill" \in stamped => "sigterm" \in stamped
        BY DEF Inv, SignalOrder
      <4>4. G!ExitObserved
        BY <3>3, <4>1, <4>2, <4>3
        DEF WaiterSeesExit, Live, G!ExitObserved, G!Running, StageNow, ExitNow
      <4> QED BY <4>4 DEF G!Next
    <3>4. CASE PollAnswered
      <4>1. "exit" \in stamped /\ "sigterm" \in earlier["exit"]
        BY <3>4 DEF PollAnswered, Inv, HostOrder, ExitOrder
      <4>2. G!Measure
        BY <3>4, <4>1 DEF PollAnswered, Live, G!Measure, G!Running, StageNow, ExitNow
      <4> QED BY <4>2 DEF G!Next
    <3> QED BY <2>1, <3>1, <3>2, <3>3, <3>4 DEF HostSteps
  <2>2. CASE Signaller
    <3>1. CASE SignallerWakes
      <4>1. "sigterm" \notin stamped /\ "sigkill" \notin stamped
        BY <3>1 DEF SignallerWakes, Inv, SignalOrder
      <4>2. earlier'["exit"] = earlier["exit"] /\ stamped' = stamped \cup {"sigterm"}
        BY <3>1 DEF SignallerWakes, Take, TypeOK, StampType, Stamp
      <4>3. G!Sigterm
        BY <3>1, <4>1, <4>2 DEF SignallerWakes, Live, G!Sigterm, StageNow, ExitNow
      <4> QED BY <4>3 DEF G!Next
    <3>2. CASE SigtermDelivered \/ SigtermAcked \/ GraceEnds \/ SigkillPosted
      BY <3>2, UnseenStep DEF SigtermDelivered, SigtermAcked, GraceEnds, SigkillPosted, Live
    <3>3. CASE SigtermFails
      BY <3>3, RaiseFails DEF SigtermFails, Live, G!Next
    <3>4. CASE SigkillSent
      <4>1. "sigterm" \in stamped /\ "sigkill" \notin stamped /\ "exit" \notin stamped
        BY <3>4 DEF SigkillSent, KillIsDue, Inv, SignalOrder
      <4>2. sinceT0 = HardWait
        BY <3>4 DEF SigkillSent, KillIsDue, Inv, GraceAccount, TypeOK, TimeType, Timer
      <4>3. earlier'["exit"] = earlier["exit"] /\ stamped' = stamped \cup {"sigkill"}
        BY <3>4 DEF SigkillSent, Take, TypeOK, StampType, Stamp
      <4>4. G!Sigkill
        BY <3>4, <4>1, <4>2, <4>3 DEF SigkillSent, Live, G!Sigkill, StageNow, ExitNow
      <4> QED BY <4>4 DEF G!Next
    <3> QED BY <2>2, <3>1, <3>2, <3>3, <3>4 DEF Signaller
  <2>3. CASE CallFails
    BY <2>3, RaiseFails DEF CallFails, Live, G!Next
  <2>4. CASE SidecarSteps
    <3>1. ASSUME NEW refused \in BOOLEAN, AcceptEnds(refused) PROVE UNCHANGED G!vars
      <4>1. earlier'["exit"] = earlier["exit"]
        BY <3>1 DEF AcceptEnds, TypeOK, StampType, Stamp
      <4>2. \A x \in {"sigterm", "sigkill", "exit"} : x \in stamped' <=> x \in stamped
        BY <3>1 DEF AcceptEnds
      <4> QED BY <2>4, <3>1, <4>1, <4>2, UnseenStep DEF AcceptEnds, SidecarSteps, Live
    <3>2. CASE AcceptBegins \/ AcceptLeaves \/ RequestStep \/ Traffic \/ Body
      BY <2>4, <3>2, UnseenStep
      DEF AcceptBegins, AcceptLeaves, RequestStep, RequestSent, RequestEnds, Traffic,
          TrafficLaunches, TrafficCollects, Body, JobStops, JobEnds, SidecarSteps, Live
    <3>3. CASE Clock \/ Readiness
      BY <2>4, <3>3, UnseenStep
      DEF Clock, ClockArms, ClockReachesT0, Readiness, ReadinessBegins, ReadinessPasses,
          ReadinessFails, ReadinessAbandoned, Take, SidecarSteps, Live, TypeOK,
          StampType, Stamp
    <3> QED BY <2>4, <3>1, <3>2, <3>3 DEF SidecarSteps, Accept
  <2>5. CASE Live /\ JobFails
    BY <2>5, UnseenStep DEF JobFails, Live
  <2>6. CASE DaemonReports \/ TargetChanges \/ TargetExits
    BY <2>6, UnseenStep DEF DaemonReports, TargetChanges, TargetExits, Reacts, Live
  <2>7. CASE Tick
    <3>1. CASE Reached("sigterm") /\ sinceT0 < HardWait
      <4>1. G!TimePasses
        BY <2>7, <3>1 DEF Tick, Live, G!TimePasses, StageNow, ExitNow
      <4> QED BY <4>1 DEF G!Next
    <3>2. CASE ~(Reached("sigterm") /\ sinceT0 < HardWait)
      BY <2>7, <3>2, UnseenStep DEF Tick, Live
    <3> QED BY <3>1, <3>2
  <2>8. CASE UNCHANGED vars
    BY <2>8 DEF vars, G!vars, StageNow, ExitNow, Live
  <2> QED
    BY <2>1, <2>2, <2>3, <2>4, <2>5, <2>6, <2>7, <2>8 DEF Next, Over
<1> QED BY <1>1, <1>2, TypeCorrect, SidecarSafe, PTL DEF Spec, ImplementsGrace, G!Spec

=============================================================================
