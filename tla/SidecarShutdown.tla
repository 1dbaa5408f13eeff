-------------------------- MODULE SidecarShutdown --------------------------
(***************************************************************************)
(* The shutdown experiment as it runs by default: the host                 *)
(* (runtime/traffic_probe.py, shutdown) signals and observes the target,   *)
(* the sidecar (runtime/sidecar_entry.py, _shutdown_job) drives the        *)
(* traffic.  They share a point in time, T0, fixed before the sidecar is   *)
(* asked to arm, and two HTTP calls: a start that is answered when the     *)
(* sidecar is armed and a poll for the result.                             *)
(*                                                                         *)
(* Time and steps are those of Shutdown: a tick of about a second, timers  *)
(* that count down, no tick while something is due (Prompt).  The clocks   *)
(* of the two processes are one clock, and a wake-up is on time.           *)
(***************************************************************************)
EXTENDS Integers

CONSTANTS
  Request,         \* the in-flight requests; {}: in-flight measurement is off
  HardWait,        \* min(shutdown budget, timeouts.shutdown), in ticks
  WaitMargin,      \* what exit_waiter's timeout adds to it (2000 ms)
  ReadinessMargin, \* what readiness_watcher's deadline adds to it (2000 ms)
  JobMargin,       \* what the job's deadline adds to it (2500 ms)
  PollMargin,      \* what the poll's timeout adds to it (5000 ms)
  Setup,           \* how far ahead of the launch the start is asked for (300 ms)
  Lead,            \* how long after the launch T0 is (sigterm_after)
  ArmWait,         \* how long the start waits for the sidecar to arm (10 s)
  ProbeTime,       \* bound: how long a readiness probe takes (2 s for each operation)
  ReportLag,       \* how late the daemon may report a death
  RefusedStreak,   \* TERMINAL_REFUSED_STREAK
  Faults           \* whether the daemon and the control port may fail

ASSUME SidecarAssumption ==
  /\ {HardWait, RefusedStreak} \subseteq Nat \ {0}
  /\ {WaitMargin, ReadinessMargin, JobMargin, PollMargin, Setup, Lead, ArmWait,
      ProbeTime, ReportLag} \subseteq Nat
  /\ Faults \in BOOLEAN

VARIABLES
  phase,      \* the host: starting the sidecar, its tasks, polling, ended
  error,      \* the exception that ended it, if one did
  task,       \* where each task of the host and of the sidecar is
  prestop,    \* whether the drain strategy is PRESTOP (never changes)
  job,        \* the sidecar's job
  requests,   \* each in-flight request
  collected,  \* whether the job's list of requests is filled
  fired,      \* the events that are set in the sidecar
  left,       \* the countdown of each timer
  streak,     \* refused, and
  streakAt,   \* the timestamps taken before the streak's first refusal
  stamped,    \* the timestamps of both processes taken so far
  earlier,    \* for each, the timestamps taken before it
  reported,   \* what the host has put into the report from the result
  target,     \* the container: the process, its listener, its readiness
  sinceT0     \* history: ticks since SIGTERM, counted up to HardWait

hostVars == <<phase, error, reported>>
jobVars == <<prestop, job, requests, collected, fired, streak, streakAt>>
stampVars == <<stamped, earlier>>
vars == <<phase, error, task, prestop, job, requests, collected, fired, left, streak,
          streakAt, stamped, earlier, reported, target, sinceT0>>

Stamp == {"t0", "sigterm", "sigkill", "exit", "accept_stop", "drop"}
Timer == {"arm", "launch", "t0", "exit", "grace", "die", "poll",
          "readiness", "probe", "job", "report"}

HostType ==
  /\ phase \in {"starting", "tasks", "die_wait", "polling", "measured", "raised"}
  /\ error \in {"none", "not_armed", "control", "daemon", "no_exit_report",
                "poll_timeout", "job"}
  /\ reported \in [requests: BOOLEAN, drop: BOOLEAN, accept_stop: BOOLEAN]

TaskType ==
  task \in [waiter:    {"waiting", "done"},
            signaller: {"until_t0", "posting", "acked", "grace", "killing", "done"},
            accept:    {"idle", "connecting", "done"},
            traffic:   {"until_launch", "running", "done"},
            clock:     {"arming", "until_t0", "done"},
            readiness: {"idle", "probing", "done"}]

JobType ==
  /\ prestop \in BOOLEAN /\ job \in {"running", "stopping", "ended", "failed"}
  /\ requests \in [Request -> {"waiting", "connecting", "sent", "ended"}]
  /\ collected \in BOOLEAN
  /\ fired \subseteq {"accept_armed", "request_armed", "shutdown_armed", "stop_accept"}

StreakType == streak \in 0..RefusedStreak /\ streakAt \subseteq Stamp

StampType == stamped \subseteq Stamp /\ earlier \in [Stamp -> SUBSET Stamp]

TimeType == left \in [Timer -> Nat] /\ sinceT0 \in 0..HardWait

TargetType == target \in [alive: BOOLEAN, listening: BOOLEAN, ready: BOOLEAN,
                          termed: BOOLEAN, reported: BOOLEAN]

TypeOK == /\ HostType /\ TaskType /\ JobType /\ StreakType /\ StampType /\ TimeType
          /\ TargetType

Init ==
  /\ phase = "starting" /\ error = "none"
  /\ task = [waiter |-> "waiting", signaller |-> "until_t0", accept |-> "idle",
             traffic |-> "until_launch", clock |-> "arming", readiness |-> "idle"]
  /\ prestop \in BOOLEAN
  /\ job = "running" /\ requests = [r \in Request |-> "waiting"] /\ collected = FALSE
  /\ fired = {}
  /\ left = [x \in Timer |->
               CASE x = "arm" -> ArmWait [] x = "launch" -> Setup
                 [] x = "t0" -> Setup + (IF Request = {} THEN 0 ELSE Lead)
                 [] OTHER -> 0]
  /\ streak = 0 /\ streakAt = {}
  /\ stamped = {} /\ earlier = [x \in Stamp |-> {}]
  /\ reported = [requests |-> FALSE, drop |-> FALSE, accept_stop |-> FALSE]
  /\ target = [alive |-> TRUE, listening |-> TRUE, ready |-> TRUE,
               termed |-> FALSE, reported |-> FALSE]
  /\ sinceT0 = 0

-----------------------------------------------------------------------------
Host(t, place) == phase = "tasks" /\ task[t] = place
Side(t, place) == job = "running" /\ task[t] = place
Goto(t, place) == task' = [task EXCEPT ![t] = place]
Reached(x) == x \in stamped

Take(x) ==
  /\ stamped' = stamped \cup {x}
  /\ earlier' = [earlier EXCEPT ![x] = stamped]

Starts(timer, n) == left' = [left EXCEPT ![timer] = n]

Raise(why) ==
  /\ phase' = "raised" /\ error' = why
  /\ UNCHANGED <<task, jobVars, left, stampVars, reported, target, sinceT0>>

Dies == target' = [target EXCEPT !.alive = FALSE, !.listening = FALSE, !.ready = FALSE]

-----------------------------------------------------------------------------
\* The host: POST /shutdown/start, answered when the sidecar is armed.

StartAnswered ==
  /\ phase = "starting" /\ "shutdown_armed" \in fired
  /\ phase' = "tasks"
  /\ Starts("exit", HardWait + WaitMargin)
  /\ UNCHANGED <<error, task, jobVars, stampVars, reported, target, sinceT0>>

\* Seeded fault: the arming is waited for without a timeout.
StartRefusedIfFailed ==
  /\ phase = "starting" /\ job = "failed" /\ "shutdown_armed" \notin fired
  /\ Raise("not_armed")

StartRefused ==
  /\ phase = "starting" /\ left.arm = 0 /\ "shutdown_armed" \notin fired
  /\ Raise("not_armed")

\* exit_waiter.
WaiterSeesExit ==
  /\ Host("waiter", "waiting") /\ target.reported
  /\ Take("exit") /\ Goto("waiter", "done")
  /\ UNCHANGED <<hostVars, jobVars, left, target, sinceT0>>

WaiterTimesOut ==
  /\ Host("waiter", "waiting") /\ left.exit = 0 /\ Raise("no_exit_report")

\* signal_and_enforce.
SignallerWakes ==
  /\ Host("signaller", "until_t0") /\ left.t0 = 0
  /\ Take("sigterm") /\ Goto("signaller", "posting")
  /\ UNCHANGED <<hostVars, jobVars, left, target, sinceT0>>

SigtermDelivered ==
  /\ Host("signaller", "posting") /\ ~target.reported
  /\ target' = [target EXCEPT !.termed = target.alive]
  /\ Goto("signaller", "acked")
  /\ UNCHANGED <<hostVars, jobVars, left, stampVars, sinceT0>>

\* The kill call answers an error for a container known not to be running.
SigtermFails ==
  /\ Host("signaller", "posting") /\ ~target.alive /\ Raise("daemon")

SigtermAcked ==
  /\ Host("signaller", "acked")
  /\ Starts("grace", HardWait) /\ Goto("signaller", "grace")
  /\ UNCHANGED <<hostVars, jobVars, stampVars, target, sinceT0>>

GraceEnds ==
  /\ Host("signaller", "grace") /\ Reached("exit")
  /\ Goto("signaller", "done")
  /\ UNCHANGED <<hostVars, jobVars, left, stampVars, target, sinceT0>>

\* Seeded fault: exit_ns is not looked at again when the grace period is over.
KillIsDueUnseen == left.grace = 0

KillIsDue == left.grace = 0 /\ ~Reached("exit")

SigkillSent ==
  /\ Host("signaller", "grace") /\ KillIsDue
  /\ Take("sigkill") /\ Goto("signaller", "killing")
  /\ UNCHANGED <<hostVars, jobVars, left, target, sinceT0>>

\* A DockerError of the kill call is swallowed, an unreachable daemon is not.
SigkillPosted ==
  /\ Host("signaller", "killing") /\ Goto("signaller", "done")
  /\ \/ Dies /\ (IF target.alive THEN Starts("report", ReportLag) ELSE UNCHANGED left)
     \/ (Faults \/ ~target.alive) /\ UNCHANGED <<target, left>>
  /\ UNCHANGED <<hostVars, jobVars, stampVars, sinceT0>>

\* The group is over: the die frame is waited for a moment, then the result.
TasksJoin ==
  /\ Host("waiter", "done") /\ task.signaller = "done"
  /\ phase' = "die_wait" /\ Starts("die", 1)
  /\ UNCHANGED <<error, task, jobVars, stampVars, reported, target, sinceT0>>

PollStarts ==
  /\ phase = "die_wait"
  /\ phase' = "polling" /\ Starts("poll", HardWait + PollMargin)
  /\ UNCHANGED <<error, task, jobVars, stampVars, reported, target, sinceT0>>

\* Seeded fault: the accept stop is reported whenever it was.
StopAlwaysReported == Reached("accept_stop")

\* An accept stop that follows the SIGKILL is left out.
StopIsReported == Reached("accept_stop") /\ "sigkill" \notin earlier["accept_stop"]

PollAnswered ==
  /\ phase = "polling" /\ job = "ended"
  /\ reported' = [requests |-> collected, drop |-> Reached("drop"),
                  accept_stop |-> StopIsReported]
  /\ phase' = "measured"
  /\ UNCHANGED <<error, task, jobVars, left, stampVars, target, sinceT0>>

PollFails ==
  /\ phase = "polling"
  /\ \/ job = "failed" /\ Raise("job")
     \/ left.poll = 0 /\ job # "ended" /\ Raise("poll_timeout")

\* A call to the daemon or to the control port gets no answer.
CallFails ==
  /\ Faults
  /\ \/ phase \in {"starting", "polling"} /\ Raise("control")
     \/ Host("waiter", "waiting") /\ Raise("daemon")
     \/ /\ phase = "tasks" /\ task.signaller \in {"posting", "acked", "killing"}
        /\ Raise("daemon")

Signaller == \/ SignallerWakes \/ SigtermDelivered \/ SigtermFails \/ SigtermAcked
             \/ GraceEnds \/ SigkillSent \/ SigkillPosted
HostSteps == \/ StartAnswered \/ StartRefused \/ WaiterSeesExit \/ WaiterTimesOut
             \/ TasksJoin \/ PollStarts \/ PollAnswered \/ PollFails

-----------------------------------------------------------------------------
\* The sidecar: accept_watcher.  It counts a refusal when T0 is behind it at the
\* end of the attempt.

AcceptBegins ==
  /\ Side("accept", "idle") /\ "stop_accept" \notin fired
  /\ fired' = fired \cup {"accept_armed"} /\ Goto("accept", "connecting")
  /\ UNCHANGED <<hostVars, prestop, job, requests, collected, left, streak,
                 streakAt, stampVars, target, sinceT0>>

AcceptLeaves ==
  /\ Side("accept", "idle") /\ "stop_accept" \in fired
  /\ Goto("accept", "done")
  /\ UNCHANGED <<hostVars, jobVars, left, stampVars, target, sinceT0>>

Counts(refused) == Reached("t0") /\ refused

StreakIsTerminal(n) == n >= RefusedStreak

AcceptEnds(refused) ==
  LET n == IF Counts(refused) THEN streak + 1 ELSE 0
      at == IF ~Counts(refused) THEN {} ELSE IF streak = 0 THEN stamped ELSE streakAt
  IN
  /\ Side("accept", "connecting")
  /\ refused => ~target.listening
  /\ streak' = n /\ streakAt' = at
  /\ IF StreakIsTerminal(n)
     THEN /\ stamped' = stamped \cup {"accept_stop"}
          /\ earlier' = [earlier EXCEPT !["accept_stop"] = at]
          /\ Goto("accept", "done")
     ELSE UNCHANGED stampVars /\ Goto("accept", "idle")
  /\ UNCHANGED <<hostVars, prestop, job, requests, collected, fired, left,
                 target, sinceT0>>

-----------------------------------------------------------------------------
\* inflight_traffic and the requests it launches.

TrafficLaunches ==
  /\ Side("traffic", "until_launch")
  /\ IF Request = {}
     THEN /\ fired' = fired \cup {"request_armed"} /\ Goto("traffic", "done")
          /\ UNCHANGED requests
     ELSE /\ left.launch = 0 /\ Goto("traffic", "running")
          /\ requests' = [r \in Request |-> "connecting"]
          /\ UNCHANGED fired
  /\ UNCHANGED <<hostVars, prestop, job, collected, left, streak, streakAt,
                 stampVars, target, sinceT0>>

RequestSent(r) ==
  /\ job = "running" /\ requests[r] = "connecting" /\ target.listening
  /\ requests' = [requests EXCEPT ![r] = "sent"]
  /\ fired' = fired \cup {"request_armed"}
  /\ UNCHANGED <<hostVars, prestop, task, job, collected, left, streak,
                 streakAt, stampVars, target, sinceT0>>

RequestEnds(r) ==
  /\ job = "running"
  /\ requests[r] = "sent" \/ (requests[r] = "connecting" /\ ~target.listening)
  /\ requests' = [requests EXCEPT ![r] = "ended"]
  /\ UNCHANGED <<hostVars, prestop, task, job, collected, fired, left, streak,
                 streakAt, stampVars, target, sinceT0>>

TrafficCollects ==
  /\ Side("traffic", "running") /\ \A r \in Request : requests[r] = "ended"
  /\ collected' = TRUE /\ Goto("traffic", "done")
  /\ UNCHANGED <<hostVars, prestop, job, requests, fired, left, streak,
                 streakAt, stampVars, target, sinceT0>>

-----------------------------------------------------------------------------
\* clock: arm, wait for T0, start what T0 starts.

\* Seeded fault: the in-flight request is not waited for.
ArmedWithoutRequest == "accept_armed" \in fired

Armed == {"accept_armed", "request_armed"} \subseteq fired

ClockArms ==
  /\ Side("clock", "arming") /\ Armed
  /\ fired' = fired \cup {"shutdown_armed"} /\ Goto("clock", "until_t0")
  /\ UNCHANGED <<hostVars, prestop, job, requests, collected, left, streak,
                 streakAt, stampVars, target, sinceT0>>

\* Seeded fault: the job gives the requests no time beyond the grace period.
JobTimeWithoutMargin == HardWait

JobTime == HardWait + JobMargin

ClockReachesT0 ==
  /\ Side("clock", "until_t0") /\ left.t0 = 0
  /\ Take("t0") /\ Goto("clock", "done")
  /\ fired' = IF prestop THEN fired \cup {"stop_accept"} ELSE fired
  /\ left' = [left EXCEPT !.readiness = HardWait + ReadinessMargin, !.job = JobTime]
  /\ UNCHANGED <<hostVars, prestop, job, requests, collected, streak, streakAt,
                 target, sinceT0>>

-----------------------------------------------------------------------------
\* readiness_watcher probes from a thread, which no cancellation stops.

ReadinessBegins ==
  /\ Side("readiness", "idle") /\ Reached("t0") /\ left.readiness > 0
  /\ Starts("probe", ProbeTime) /\ Goto("readiness", "probing")
  /\ UNCHANGED <<hostVars, jobVars, stampVars, target, sinceT0>>

ReadinessPasses ==
  /\ Side("readiness", "probing") /\ target.listening /\ target.ready
  /\ Goto("readiness", "idle")
  /\ UNCHANGED <<hostVars, jobVars, left, stampVars, target, sinceT0>>

ReadinessFails ==
  /\ Side("readiness", "probing")
  /\ ~target.listening \/ ~target.ready \/ left.probe = 0
  /\ Take("drop") /\ Goto("readiness", "done")
  /\ UNCHANGED <<hostVars, jobVars, left, target, sinceT0>>

ReadinessAbandoned ==
  /\ job = "stopping" /\ task.readiness = "probing"
  /\ Goto("readiness", "done")
  /\ UNCHANGED <<hostVars, jobVars, left, stampVars, target, sinceT0>>

-----------------------------------------------------------------------------
\* The body of the job: it is over when there is nothing left to see, or at its
\* deadline; the cancelled group waits for the probe's thread.

AllSeen ==
  /\ prestop \/ Reached("accept_stop")
  /\ Reached("drop")
  /\ Request = {} \/ collected

\* Seeded fault: the job has no deadline.
OverWhenAllSeen == AllSeen

JobIsOver == AllSeen \/ left.job = 0

JobStops ==
  /\ job = "running" /\ Reached("t0") /\ JobIsOver
  /\ job' = "stopping"
  /\ UNCHANGED <<hostVars, prestop, task, requests, collected, fired, left,
                 streak, streakAt, stampVars, target, sinceT0>>

JobEnds ==
  /\ job = "stopping" /\ task.readiness # "probing"
  /\ job' = "ended"
  /\ UNCHANGED <<hostVars, prestop, task, requests, collected, fired, left,
                 streak, streakAt, stampVars, target, sinceT0>>

\* An exception of the job arms it, so that the start does not wait for it.
JobFails ==
  /\ Faults /\ job = "running"
  /\ job' = "failed" /\ fired' = fired \cup {"shutdown_armed"}
  /\ UNCHANGED <<hostVars, prestop, task, requests, collected, left, streak,
                 streakAt, stampVars, target, sinceT0>>

Accept == AcceptBegins \/ AcceptLeaves \/ \E refused \in BOOLEAN : AcceptEnds(refused)
RequestStep == \E r \in Request : RequestSent(r) \/ RequestEnds(r)
Traffic == TrafficLaunches \/ TrafficCollects
Clock == ClockArms \/ ClockReachesT0
Readiness == ReadinessBegins \/ ReadinessPasses \/ ReadinessFails \/ ReadinessAbandoned
Body == JobStops \/ JobEnds

-----------------------------------------------------------------------------
\* The daemon, the target and the clock.

Live == phase \notin {"measured", "raised"}

DaemonReports ==
  /\ Live /\ ~target.alive /\ ~target.reported
  /\ target' = [target EXCEPT !.reported = TRUE]
  /\ UNCHANGED <<hostVars, task, jobVars, left, stampVars, sinceT0>>

\* A healthy target reacts to SIGTERM, a faulty one without being asked.
Reacts == Live /\ target.alive /\ (target.termed \/ Faults)

TargetChanges ==
  /\ Reacts
  /\ \/ target' = [target EXCEPT !.listening = ~@]
     \/ target.ready /\ target' = [target EXCEPT !.ready = FALSE]
  /\ UNCHANGED <<hostVars, task, jobVars, left, stampVars, sinceT0>>

TargetExits ==
  /\ Reacts /\ Dies /\ Starts("report", ReportLag)
  /\ UNCHANGED <<hostVars, task, jobVars, stampVars, sinceT0>>

\* Due before the next tick, at the host,
HostIsDue ==
  \/ phase = "starting" /\ ("shutdown_armed" \in fired \/ left.arm = 0)
  \/ Host("waiter", "waiting") /\ (target.reported \/ left.exit = 0)
  \/ Host("signaller", "until_t0") /\ left.t0 = 0
  \/ \E place \in {"posting", "acked", "killing"} : Host("signaller", place)
  \/ Host("signaller", "grace") /\ (left.grace = 0 \/ Reached("exit"))
  \/ Host("waiter", "done") /\ task.signaller = "done"
  \/ phase = "die_wait" /\ left.die = 0
  \/ phase = "polling" /\ (job \in {"ended", "failed"} \/ left.poll = 0)

\* and in the sidecar: the connections of a dead target break at once.
JobIsDue ==
  \/ Side("traffic", "until_launch") /\ (Request = {} \/ left.launch = 0)
  \/ Side("traffic", "running") /\ \A r \in Request : requests[r] = "ended"
  \/ /\ job = "running" /\ ~target.alive
     /\ \E r \in Request : requests[r] \in {"connecting", "sent"}
  \/ Side("clock", "arming") /\ Armed
  \/ Side("clock", "until_t0") /\ left.t0 = 0
  \/ job \in {"running", "stopping"} /\ task.readiness = "probing" /\ left.probe = 0
  \/ job = "running" /\ Reached("t0") /\ JobIsOver
  \/ job = "stopping" /\ task.readiness # "probing"

Prompt ==
  HostIsDue \/ JobIsDue \/ (~target.alive /\ ~target.reported /\ left.report = 0)

Down(n) == IF n > 0 THEN n - 1 ELSE 0

Tick ==
  /\ Live /\ ~Prompt
  /\ left' = [x \in Timer |-> Down(left[x])]
  /\ sinceT0' =
       IF Reached("sigterm") /\ sinceT0 < HardWait THEN sinceT0 + 1 ELSE sinceT0
  /\ UNCHANGED <<hostVars, task, jobVars, stampVars, target>>

\* The experiment is over; what the sidecar still does is of no interest.
Over == ~Live /\ UNCHANGED vars

SidecarSteps ==
  Live /\ (Accept \/ RequestStep \/ Traffic \/ Clock \/ Readiness \/ Body)

Next == \/ HostSteps \/ Signaller \/ CallFails \/ SidecarSteps \/ (Live /\ JobFails)
        \/ DaemonReports \/ TargetChanges \/ TargetExits \/ Tick \/ Over

Spec == Init /\ [][Next]_vars

\* The event loops run what can run, a request ends at its timeout at the latest
\* (traffic_probe.py 214-216), the daemon reports a death and time passes; nothing
\* is assumed of the target.
Fairness ==
  /\ WF_vars(HostSteps) /\ WF_vars(Signaller)
  /\ WF_vars(Live /\ Accept) /\ WF_vars(Live /\ RequestStep) /\ WF_vars(Live /\ Traffic)
  /\ WF_vars(Live /\ Clock) /\ WF_vars(Live /\ Readiness) /\ WF_vars(Live /\ Body)
  /\ WF_vars(DaemonReports) /\ WF_vars(Tick)

FairSpec == Spec /\ Fairness

-----------------------------------------------------------------------------
\* What the experiment promises.

\* Neither the sidecar's T0 nor the host's SIGTERM comes before a request has
\* crossed the socket, unless the job has failed (sidecar_entry.py 254-261, 505-514).
MeasuredInsideRequest ==
  Request # {} /\ "request_armed" \notin fired =>
    /\ ~Reached("t0")
    /\ Reached("sigterm") => job = "failed"

\* A measured experiment has a result for every in-flight request: the job's
\* deadline does not cut off a target that used its whole grace period
\* (sidecar_entry.py 286-306, traffic_probe.py 242).
RequestsAreReported ==
  phase = "measured" /\ Request # {} => reported.requests

\* The poll finds a result unless the job failed or the control port does not
\* answer: its timeout is later than the job's deadline (traffic_probe.py 278).
ResultIsInTime == error # "poll_timeout"

\* The accept stop that is reported came after T0 and before any SIGKILL
\* (context.py 209, traffic_probe.py 291-295).
AcceptStopBeforeKill ==
  reported.accept_stop =>
    "t0" \in earlier["accept_stop"] /\ "sigkill" \notin earlier["accept_stop"]

\* The experiment ends, whatever fails (config/loader.py 261: startup and
\* shutdown are bounded by timeouts.startup and timeouts.shutdown).
ExperimentEnds == <>(phase \in {"measured", "raised"})

-----------------------------------------------------------------------------
\* The experiment as an observer of its signals and of the exit sees it.

StageNow ==
  CASE phase = "raised"   -> "failed"
    [] phase = "measured" -> "measured"
    [] Live -> IF Reached("sigkill") THEN "killed"
               ELSE IF Reached("sigterm") THEN "grace" ELSE "before"

ExitNow ==
  IF ~Reached("exit") THEN "no"
  ELSE IF "sigkill" \in earlier["exit"] THEN "afterKill"
  ELSE IF "sigterm" \in earlier["exit"] THEN "inGrace" ELSE "beforeSigterm"

G == INSTANCE Grace WITH stage <- StageNow, elapsed <- sinceT0, exit <- ExitNow

\* The sidecar path implements what every experiment promises.
ImplementsGrace == G!Spec

=============================================================================
