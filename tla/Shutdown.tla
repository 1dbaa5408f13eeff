------------------------------ MODULE Shutdown ------------------------------
(***************************************************************************)
(* engine/lifecycle.py, _shutdown: the host-path shutdown experiment.      *)
(*                                                                         *)
(* Five tasks and the body of one anyio task group share a RunReport and   *)
(* five events.  The loop is single-threaded, so a task runs from one      *)
(* await to the next in one step; every await is a place where another     *)
(* task, the daemon, the target or the clock may come first.               *)
(*                                                                         *)
(* Time is counted in ticks of about a second.  A timer is a countdown, a  *)
(* Tick decrements all of them, and no Tick happens while a task has       *)
(* something to do at once (Prompt): callbacks and daemon calls answer     *)
(* well within a tick.  A probe may take any time: its own timeout and     *)
(* pause (500, 50 and 20 ms) are shorter than a tick and not modelled.     *)
(*                                                                         *)
(* A report timestamp is represented by what the report's readers do with  *)
(* it, comparing it with another: stamped is the set of timestamps taken   *)
(* and earlier[x] the set of those that were taken before x.               *)
(***************************************************************************)
EXTENDS Integers, Sequences

CONSTANTS
  Request,       \* the in-flight requests; {}: in-flight measurement is off
  HardWait,      \* min(shutdown budget, timeouts.shutdown), in ticks
  WaitMargin,    \* what exit_waiter's own timeout adds to it (2000 ms)
  Plans,         \* the settings a run may have: the drain strategy, sigterm_after
  DieGrace,      \* how long the die frame is waited for (_DIE_FRAME_GRACE_MS)
  ReportLag,     \* how late the daemon may report a death
  RefusedStreak, \* TERMINAL_REFUSED_STREAK
  EarlyFailure,  \* whether the target may fail before it gets a SIGTERM
  DaemonFaults   \* whether a daemon call may fail

ASSUME ShutdownAssumption ==
  /\ HardWait \in Nat \ {0}
  /\ WaitMargin \in Nat
  /\ Plans \subseteq [prestop: BOOLEAN, delay: Nat]
  /\ DieGrace \in Nat /\ ReportLag \in Nat
  /\ RefusedStreak \in Nat \ {0}
  /\ EarlyFailure \in BOOLEAN /\ DaemonFaults \in BOOLEAN

VARIABLES
  plan,       \* PRESTOP or not, and report.sigterm_after_ms (never changes)
  phase,      \* the experiment: tasks running, waiting for a frame, ended
  error,      \* the exception that ended it, if one did
  task,       \* where each task of the group is
  requests,   \* each in-flight request, as run_long_requests sees it
  fired,      \* the anyio.Events that are set
  left,       \* the countdown of each timer
  sample,     \* what the readiness probe in progress got, if it got anything
  fresh,      \* whether the connection attempt in progress began after T0
  streak,     \* refused_streak and
  streakAt,   \* the timestamps taken before the streak's first refusal
  attempts,   \* the tail of report.accept_attempts
  stamped,    \* the report's timestamps taken so far
  earlier,    \* for each, the timestamps taken before it
  drop,       \* the probe result behind readiness_drop_mode
  dieFrame,   \* whether report.daemon_events has the die frame
  target,     \* the container: the process, its listener, its readiness
  sinceT0     \* history: ticks since T0, counted up to HardWait

acceptVars == <<fresh, streak, streakAt, attempts>>
stampVars == <<stamped, earlier>>
probeVars == <<sample, drop>>
vars == <<plan, phase, error, task, requests, fired, left, sample, fresh, streak,
          streakAt, attempts, stamped, earlier, drop, dieFrame, target, sinceT0>>

-----------------------------------------------------------------------------
Stamp == {"sigterm", "drop", "accept_stop", "sigkill", "exit"}
Event == {"sigterm_sent", "exited", "accept_probe_armed",
          "inflight_request_armed", "stop_accept_probe"}
Attempt == [fresh: BOOLEAN, refused: BOOLEAN]

\* What a readiness probe gets: an expected status, another status, or no answer.
Probe == {"none", "ok", "status", "unreachable"}

\* What each group of variables may be.
PhaseType ==
  /\ plan \in Plans
  /\ phase \in {"tasks", "die_wait", "returned", "raised"}
  /\ error \in {"none", "no_exit_report", "wait_failed", "signal_failed"}

TaskType ==
  task \in [waiter:    {"waiting", "done"},
            sender:    {"arming", "sleeping", "posting", "acked", "done"},
            accept:    {"idle", "connecting", "done"},
            readiness: {"await_sent", "idle", "probing", "done"},
            enforcer:  {"await_sent", "grace", "posting", "done"}]

RequestType ==
  requests \in [Request -> {"connecting", "sent", "completed", "broken", "unsent"}]

TimerType ==
  /\ left \in [exit: 0..(HardWait + WaitMargin), sigterm: 0..plan.delay,
               grace: 0..HardWait, die: 0..DieGrace, report: 0..ReportLag]
  /\ sinceT0 \in 0..HardWait

AcceptType ==
  /\ fresh \in BOOLEAN
  /\ streak \in 0..RefusedStreak
  /\ streakAt \subseteq Stamp
  /\ attempts \in Seq(Attempt) /\ Len(attempts) <= RefusedStreak

ReportType ==
  /\ stamped \subseteq Stamp
  /\ earlier \in [Stamp -> SUBSET Stamp]
  /\ sample \in Probe /\ drop \in Probe
  /\ dieFrame \in BOOLEAN

TargetType ==
  target \in [alive: BOOLEAN, listening: BOOLEAN, ready: BOOLEAN,
              termed: BOOLEAN, reported: BOOLEAN]

TypeOK == /\ PhaseType /\ TaskType /\ RequestType /\ fired \subseteq Event
          /\ TimerType /\ AcceptType /\ ReportType /\ TargetType

\* Seeded fault: exit_waiter gives the daemon no time beyond the grace period.
WaitWithoutMargin == HardWait

\* The bound of exit_waiter's long poll, which is armed before the signal.
ExitWait == HardWait + WaitMargin

\* How long the sender sleeps: sigterm_after is for in-flight measurement only.
SignalDelay == IF Request = {} THEN 0 ELSE plan.delay

Init ==
  /\ plan \in Plans
  /\ phase = "tasks" /\ error = "none"
  /\ task = [waiter |-> "waiting", sender |-> "arming", accept |-> "idle",
             readiness |-> "await_sent", enforcer |-> "await_sent"]
  /\ requests = [r \in Request |-> "connecting"]
  /\ fired = {}
  /\ left = [exit |-> ExitWait, sigterm |-> 0, grace |-> 0,
             die |-> 0, report |-> 0]
  /\ sample = "none" /\ drop = "none"
  /\ fresh = FALSE /\ streak = 0 /\ streakAt = {} /\ attempts = <<>>
  /\ stamped = {} /\ earlier = [x \in Stamp |-> {}]
  /\ dieFrame = FALSE
  /\ target = [alive |-> TRUE, listening |-> TRUE, ready |-> TRUE,
               termed |-> FALSE, reported |-> FALSE]
  /\ sinceT0 = 0

-----------------------------------------------------------------------------
Running == phase = "tasks"

\* A task is at one await and goes on to the next.
At(t, place) == Running /\ task[t] = place
Goto(t, place) == task' = [task EXCEPT ![t] = place]

\* now_ns() is stored in the report under the name x.
Take(x) ==
  /\ stamped' = stamped \cup {x}
  /\ earlier' = [earlier EXCEPT ![x] = stamped]

\* An exception leaves the task group, which cancels every other task.
Raise(why) ==
  /\ phase' = "raised"
  /\ error' = why
  /\ UNCHANGED <<task, requests, fired, left, acceptVars, stampVars, probeVars,
                 dieFrame, target, sinceT0, plan>>

-----------------------------------------------------------------------------
\* exit_waiter: one long poll on the daemon, bounded by its own timeout, which
\* starts when the task does.

WaiterSeesExit ==
  /\ At("waiter", "waiting")
  /\ target.reported
  /\ Take("exit")
  /\ fired' = fired \cup {"exited"}
  /\ Goto("waiter", "done")
  /\ UNCHANGED <<phase, error, requests, left, acceptVars, probeVars, dieFrame,
                 target, sinceT0, plan>>

WaiterTimesOut ==
  /\ At("waiter", "waiting")
  /\ left.exit = 0
  /\ Raise("no_exit_report")

WaiterFails ==
  /\ At("waiter", "waiting")
  /\ DaemonFaults
  /\ Raise("wait_failed")

Waiter == WaiterSeesExit \/ WaiterTimesOut \/ WaiterFails

-----------------------------------------------------------------------------
\* signal_sender: wait until the accept probe runs and, when in-flight traffic
\* is measured, until a request has crossed the socket; sleep; SIGTERM.

\* Seeded fault: the in-flight request is not waited for.
SenderStartsWithoutRequest == "accept_probe_armed" \in fired

SenderMayStart ==
  /\ "accept_probe_armed" \in fired
  /\ Request # {} => "inflight_request_armed" \in fired

SenderSleeps ==
  /\ At("sender", "arming")
  /\ SenderMayStart
  /\ left' = [left EXCEPT !.sigterm = SignalDelay]
  /\ Goto("sender", "sleeping")
  /\ UNCHANGED <<phase, error, requests, fired, acceptVars, stampVars, probeVars,
                 dieFrame, target, sinceT0, plan>>

\* T0.  The PRESTOP stop is set in the same step: no await separates them.
SenderSignals ==
  /\ At("sender", "sleeping")
  /\ left.sigterm = 0
  /\ Take("sigterm")
  /\ fired' = IF plan.prestop THEN fired \cup {"stop_accept_probe"} ELSE fired
  /\ Goto("sender", "posting")
  /\ UNCHANGED <<phase, error, requests, left, acceptVars, probeVars, dieFrame,
                 target, sinceT0, plan>>

\* Seeded fault: a failed SIGTERM call is taken for a delivered one.
SigtermErrorSwallowed ==
  /\ At("sender", "posting")
  /\ Goto("sender", "acked")
  /\ UNCHANGED <<phase, error, requests, fired, left, acceptVars, stampVars,
                 probeVars, dieFrame, target, sinceT0, plan>>

\* The kill call answers an error for a container known not to be running.
SigtermFails ==
  /\ At("sender", "posting") \/ At("sender", "acked")
  /\ DaemonFaults \/ (task.sender = "posting" /\ ~target.alive)
  /\ Raise("signal_failed")

SenderAcked ==
  /\ At("sender", "acked")
  /\ fired' = fired \cup {"sigterm_sent"}
  /\ Goto("sender", "done")
  /\ UNCHANGED <<phase, error, requests, left, acceptVars, stampVars, probeVars,
                 dieFrame, target, sinceT0, plan>>

Sender == SenderSleeps \/ SenderSignals \/ SigtermFails \/ SenderAcked

-----------------------------------------------------------------------------
\* accept_watcher: one fresh connection after another, until three attempts
\* in a row that began after T0 were refused.

\* Seeded fault: the loop does not look at stop_accept_probe.
AcceptIgnoresStop == "exited" \notin fired

AcceptGoesOn == fired \cap {"exited", "stop_accept_probe"} = {}

AcceptBegins ==
  /\ At("accept", "idle")
  /\ AcceptGoesOn
  /\ fired' = fired \cup {"accept_probe_armed"}
  /\ fresh' = ("sigterm" \in stamped)
  /\ Goto("accept", "connecting")
  /\ UNCHANGED <<phase, error, requests, left, streak, streakAt, attempts,
                 stampVars, probeVars, dieFrame, target, sinceT0, plan>>

\* Seeded fault: leaving the loop before the first attempt arms nothing.
AcceptLeavesUnarmed ==
  /\ At("accept", "idle")
  /\ ~AcceptGoesOn
  /\ Goto("accept", "done")
  /\ UNCHANGED <<phase, error, requests, fired, left, acceptVars, stampVars,
                 probeVars, dieFrame, target, sinceT0, plan>>

AcceptLeaves ==
  /\ At("accept", "idle")
  /\ ~AcceptGoesOn
  /\ fired' = fired \cup {"accept_probe_armed"}
  /\ Goto("accept", "done")
  /\ UNCHANGED <<phase, error, requests, left, acceptVars, stampVars, probeVars,
                 dieFrame, target, sinceT0, plan>>

\* The tail of report.accept_attempts that a streak can be read from.
Appended(refused) ==
  LET a == [fresh |-> fresh, refused |-> refused] IN
  IF Len(attempts) < RefusedStreak THEN Append(attempts, a)
                                   ELSE Append(Tail(attempts), a)

\* Seeded fault: a refusal counts whenever its attempt began.
CountsBeforeT0(refused) == refused

\* Whether the attempt that just ended counts towards the streak.
Counts(refused) == fresh /\ refused

\* Seeded fault: one refusal too many is asked for.
StreakOffByOne(n) == n > RefusedStreak

StreakIsTerminal(n) == n >= RefusedStreak

AcceptEnds(refused) ==
  LET n == IF Counts(refused) THEN streak + 1 ELSE 0
      at == IF ~Counts(refused) THEN {}
            ELSE IF streak = 0 THEN stamped ELSE streakAt
  IN
  /\ At("accept", "connecting")
  /\ refused => ~target.listening
  /\ attempts' = Appended(refused)
  /\ fresh' = FALSE
  /\ streak' = n
  /\ streakAt' = at
  /\ IF StreakIsTerminal(n)
     THEN /\ stamped' = stamped \cup {"accept_stop"}
          /\ earlier' = [earlier EXCEPT !["accept_stop"] = at]
          /\ Goto("accept", "done")
     ELSE /\ UNCHANGED stampVars
          /\ Goto("accept", "idle")
  /\ UNCHANGED <<phase, error, requests, fired, left, probeVars, dieFrame, target,
                 sinceT0, plan>>

Accept == AcceptBegins \/ AcceptLeaves \/ \E refused \in BOOLEAN : AcceptEnds(refused)

-----------------------------------------------------------------------------
\* readiness_watcher: probe after SIGTERM until a probe fails or the exit is
\* known.  The probe is answered at one moment, the task resumes at another.

ReadinessBegins ==
  /\ \/ At("readiness", "await_sent") /\ "sigterm_sent" \in fired
     \/ At("readiness", "idle")
  /\ Goto("readiness", IF "exited" \in fired THEN "done" ELSE "probing")
  /\ UNCHANGED <<phase, error, requests, fired, left, acceptVars, stampVars,
                 probeVars, dieFrame, target, sinceT0, plan>>

ReadinessAnswered ==
  /\ At("readiness", "probing")
  /\ sample = "none"
  /\ sample' = IF ~target.alive \/ ~target.listening THEN "unreachable"
               ELSE IF ~target.ready THEN "status" ELSE "ok"
  /\ UNCHANGED <<phase, error, task, requests, fired, left, acceptVars, stampVars,
                 drop, dieFrame, target, sinceT0, plan>>

\* Seeded fault: the exit is not looked at after the probe.
DropWhateverTheExit == sample # "ok"

\* A failed probe is a drop only while the exit has not been observed.
IsDrop == sample # "ok" /\ "exited" \notin fired

ReadinessResumes ==
  /\ At("readiness", "probing")
  /\ sample # "none"
  /\ IF IsDrop THEN Take("drop") /\ drop' = sample
               ELSE UNCHANGED <<stampVars, drop>>
  /\ sample' = "none"
  /\ Goto("readiness", IF sample = "ok" THEN "idle" ELSE "done")
  /\ UNCHANGED <<phase, error, requests, fired, left, acceptVars, dieFrame, target,
                 sinceT0, plan>>

Readiness == ReadinessBegins \/ ReadinessAnswered \/ ReadinessResumes

-----------------------------------------------------------------------------
\* enforcer: SIGKILL when the grace period ended with no exit observed.

\* Seeded fault: the grace period starts with the task, not with SIGTERM.
EnforcerStartsUnsignalled ==
  /\ At("enforcer", "await_sent")
  /\ left' = [left EXCEPT !.grace = HardWait]
  /\ Goto("enforcer", "grace")
  /\ UNCHANGED <<phase, error, requests, fired, acceptVars, stampVars, probeVars,
                 dieFrame, target, sinceT0, plan>>

EnforcerStarts ==
  /\ At("enforcer", "await_sent")
  /\ "sigterm_sent" \in fired
  /\ left' = [left EXCEPT !.grace = HardWait]
  /\ Goto("enforcer", "grace")
  /\ UNCHANGED <<phase, error, requests, fired, acceptVars, stampVars, probeVars,
                 dieFrame, target, sinceT0, plan>>

EnforcerSeesExit ==
  /\ At("enforcer", "grace")
  /\ "exited" \in fired
  /\ Goto("enforcer", "done")
  /\ UNCHANGED <<phase, error, requests, fired, left, acceptVars, stampVars,
                 probeVars, dieFrame, target, sinceT0, plan>>

\* Seeded fault: the exit is not looked at when the timer has run out.
GraceIsOverUnseen == left.grace = 0

GraceIsOver == left.grace = 0 /\ "exited" \notin fired

EnforcerKills ==
  /\ At("enforcer", "grace")
  /\ GraceIsOver
  /\ Take("sigkill")
  /\ Goto("enforcer", "posting")
  /\ UNCHANGED <<phase, error, requests, fired, left, acceptVars, probeVars,
                 dieFrame, target, sinceT0, plan>>

\* The SIGKILL takes effect, or the call fails and the DockerError is swallowed.
Dies == /\ target' = [target EXCEPT !.alive = FALSE, !.listening = FALSE]
        /\ left' = [left EXCEPT !.report = ReportLag]

EnforcerPosted ==
  /\ At("enforcer", "posting")
  /\ \/ target.alive /\ Dies
     \/ (~target.alive \/ DaemonFaults) /\ UNCHANGED <<target, left>>
  /\ Goto("enforcer", "done")
  /\ UNCHANGED <<phase, error, requests, fired, acceptVars, stampVars, probeVars,
                 dieFrame, sinceT0, plan>>

\* An unreachable daemon raises DockerUnavailable, which is no DockerError.
EnforcerFails ==
  /\ At("enforcer", "posting")
  /\ DaemonFaults
  /\ Raise("signal_failed")

Enforcer == \/ EnforcerStarts \/ EnforcerSeesExit \/ EnforcerKills \/ EnforcerPosted
            \/ EnforcerFails

-----------------------------------------------------------------------------
\* The body of the group: run_long_requests, then exited.wait(); and what
\* follows the group.

RequestSent(r) ==
  /\ Running /\ requests[r] = "connecting"
  /\ target.listening
  /\ requests' = [requests EXCEPT ![r] = "sent"]
  /\ fired' = fired \cup {"inflight_request_armed"}
  /\ UNCHANGED <<phase, error, task, left, acceptVars, stampVars, probeVars,
                 dieFrame, target, sinceT0, plan>>

RequestEnds(r) ==
  /\ Running
  /\ \/ /\ requests[r] = "connecting" /\ ~target.listening
        /\ requests' = [requests EXCEPT ![r] = "unsent"]
     \/ /\ requests[r] = "sent"
        /\ \E how \in {"completed", "broken"} :
             requests' = [requests EXCEPT ![r] = how]
  /\ UNCHANGED <<phase, error, task, fired, left, acceptVars, stampVars, probeVars,
                 dieFrame, target, sinceT0, plan>>

RequestStep(r) == RequestSent(r) \/ RequestEnds(r)

TasksJoin ==
  /\ Running
  /\ \A t \in DOMAIN task : task[t] = "done"
  /\ \A r \in Request : requests[r] \notin {"connecting", "sent"}
  /\ "exited" \in fired
  /\ phase' = "die_wait"
  /\ left' = [left EXCEPT !.die = DieGrace]
  /\ UNCHANGED <<error, task, requests, fired, acceptVars, stampVars, probeVars,
                 dieFrame, target, sinceT0, plan>>

Returns ==
  /\ phase = "die_wait"
  /\ dieFrame \/ left.die = 0
  /\ phase' = "returned"
  /\ UNCHANGED <<error, task, requests, fired, left, acceptVars, stampVars,
                 probeVars, dieFrame, target, sinceT0, plan>>

Body == TasksJoin \/ Returns

-----------------------------------------------------------------------------
\* The daemon and the target, as the tasks can tell them apart.

DaemonTakesSigterm ==
  /\ At("sender", "posting")
  /\ ~target.reported
  /\ target' = [target EXCEPT !.termed = target.alive]
  /\ Goto("sender", "acked")
  /\ UNCHANGED <<phase, error, requests, fired, left, acceptVars, stampVars,
                 probeVars, dieFrame, sinceT0, plan>>

DaemonReports ==
  /\ Running
  /\ ~target.alive /\ ~target.reported
  /\ target' = [target EXCEPT !.reported = TRUE]
  /\ UNCHANGED <<phase, error, task, requests, fired, left, acceptVars, stampVars,
                 probeVars, dieFrame, sinceT0, plan>>

Daemon == DaemonTakesSigterm \/ DaemonReports

DieFrameArrives ==
  /\ phase \in {"tasks", "die_wait"}
  /\ ~target.alive /\ ~dieFrame
  /\ dieFrame' = TRUE
  /\ UNCHANGED <<phase, error, task, requests, fired, left, acceptVars, stampVars,
                 probeVars, target, sinceT0, plan>>

\* A healthy target reacts to SIGTERM, in any order and to any extent; an
\* unhealthy one does the same without being asked.
Reacts == Running /\ target.alive /\ (target.termed \/ EarlyFailure)

TargetChanges ==
  /\ Reacts
  /\ \/ target' = [target EXCEPT !.listening = ~@]
     \/ target.ready /\ target' = [target EXCEPT !.ready = FALSE]
  /\ UNCHANGED <<phase, error, task, requests, fired, left, acceptVars, stampVars,
                 probeVars, dieFrame, sinceT0, plan>>

TargetExits ==
  /\ Reacts
  /\ Dies
  /\ UNCHANGED <<phase, error, task, requests, fired, acceptVars, stampVars,
                 probeVars, dieFrame, sinceT0, plan>>

Environment == DieFrameArrives \/ TargetChanges \/ TargetExits

-----------------------------------------------------------------------------
\* Time.

\* Something is to happen before another tick is over.
Prompt ==
  \/ Running /\ ~target.alive /\ ~target.reported /\ left.report = 0
  \/ At("waiter", "waiting") /\ (target.reported \/ left.exit = 0)
  \/ At("sender", "arming") /\ SenderMayStart
  \/ At("sender", "sleeping") /\ left.sigterm = 0
  \/ At("sender", "posting") \/ At("sender", "acked")
  \/ At("accept", "idle") /\ "accept_probe_armed" \notin fired
  \/ At("enforcer", "await_sent") /\ "sigterm_sent" \in fired
  \/ At("enforcer", "grace") /\ ("exited" \in fired \/ left.grace = 0)
  \/ At("enforcer", "posting")
  \/ Running /\ \E r \in Request : requests[r] = "connecting"
  \/ phase = "die_wait" /\ (dieFrame \/ left.die = 0)

Down(n) == IF n > 0 THEN n - 1 ELSE 0

Tick ==
  /\ phase \in {"tasks", "die_wait"}
  /\ ~Prompt
  /\ left' = [x \in DOMAIN left |-> Down(left[x])]
  /\ sinceT0' = IF "sigterm" \in stamped /\ sinceT0 < HardWait
                THEN sinceT0 + 1 ELSE sinceT0
  /\ UNCHANGED <<phase, error, task, requests, fired, acceptVars, stampVars,
                 probeVars, dieFrame, target, plan>>

\* The experiment is over: nothing more happens.
Over == phase \in {"returned", "raised"} /\ UNCHANGED vars

Next ==
  \/ Waiter \/ Sender \/ Accept \/ Readiness \/ Enforcer
  \/ \E r \in Request : RequestStep(r)
  \/ Body \/ Daemon \/ Environment \/ Tick \/ Over

Spec == Init /\ [][Next]_vars

\* The event loop runs every task that can run; every await on a socket or on
\* the daemon is bounded by a timeout, so it ends; time passes.  Nothing is
\* assumed of the target or of the event stream.
Fairness ==
  /\ WF_vars(WaiterSeesExit \/ WaiterTimesOut) /\ WF_vars(Sender) /\ WF_vars(Accept)
  /\ WF_vars(Readiness) /\ WF_vars(Enforcer) /\ WF_vars(Body)
  /\ WF_vars(Daemon) /\ WF_vars(Tick)
  /\ \A r \in Request : WF_vars(RequestStep(r))

FairSpec == Spec /\ Fairness

-----------------------------------------------------------------------------
\* What the experiment promises.

\* SIGKILL is sent only after a full grace period that followed SIGTERM, and
\* only while no exit has been observed (lifecycle.py 851-865).
KillAfterGrace ==
  "sigkill" \in stamped =>
    /\ "sigterm" \in earlier["sigkill"]
    /\ "exit" \notin earlier["sigkill"]
    /\ sinceT0 = HardWait

\* T0 follows a request that has crossed the socket, so the in-flight contract
\* measures something (lifecycle.py 748-752).
SignalInsideRequest ==
  "sigterm" \in stamped /\ Request # {} =>
    \E r \in Request : requests[r] \in {"sent", "completed", "broken"}

\* An experiment that is reported has a T4 and it follows T0: a target that
\* dies before T0 never yields a (negative) shutdown duration.
MeasuredInOrder ==
  phase \in {"die_wait", "returned"} =>
    "exit" \in stamped /\ "sigterm" \in earlier["exit"]

\* accept_probe_stopped_ns rests on evidence in the report: the last
\* RefusedStreak attempts all began after T0 and were all refused, and the
\* timestamp itself is not before T0 (lifecycle.py 788-798).
AcceptStopHasEvidence ==
  "accept_stop" \in stamped =>
    /\ Len(attempts) = RefusedStreak
    /\ \A i \in 1..RefusedStreak : attempts[i] = [fresh |-> TRUE, refused |-> TRUE]
    /\ "sigterm" \in earlier["accept_stop"]

\* Under PRESTOP no connection attempt begins after T0: neither one in
\* progress nor one on record (lifecycle.py 756-761).
PreStopStaysQuiet ==
  plan.prestop => ~fresh /\ \A i \in DOMAIN attempts : ~attempts[i].fresh

\* A readiness drop is dated after T0 and never after the observed exit
\* (lifecycle.py 825-830).
DropInsideShutdown ==
  drop # "none" =>
    "sigterm" \in earlier["drop"] /\ "exit" \notin earlier["drop"]

\* A run given up for want of an exit report has sent a SIGKILL before, with two
\* exceptions, each with its cause: the sender slept through all of the waiter's
\* margin, or no request ever let it start (lifecycle.py 728-735, 748-754, 851-865).
NoReportIsExplained ==
  error = "no_exit_report" /\ "sigkill" \notin stamped =>
    \/ SignalDelay >= WaitMargin
    \/ Request # {} /\ "inflight_request_armed" \notin fired

\* Once a request has crossed the socket the experiment ends, with a measurement
\* or an error, whatever the target and the daemon do (lifecycle.py 748-865).
ArmedLeadsToEnd ==
  "inflight_request_armed" \in fired ~> phase \in {"returned", "raised"}

\* The shutdown experiment ends (config/loader.py 261: startup and shutdown
\* are bounded by timeouts.startup and timeouts.shutdown).
ShutdownEnds == <>(phase \in {"returned", "raised"})

-----------------------------------------------------------------------------
\* The experiment as an observer of its signals and of the exit sees it.

StageNow ==
  CASE phase = "raised"                 -> "failed"
    [] phase = "returned"               -> "measured"
    [] phase \in {"tasks", "die_wait"}  ->
         IF "sigkill" \in stamped THEN "killed"
         ELSE IF "sigterm" \in stamped THEN "grace" ELSE "before"

ExitNow ==
  IF "exit" \notin stamped THEN "no"
  ELSE IF "sigkill" \in earlier["exit"] THEN "afterKill"
  ELSE IF "sigterm" \in earlier["exit"] THEN "inGrace" ELSE "beforeSigterm"

G == INSTANCE Grace WITH stage <- StageNow, elapsed <- sinceT0, exit <- ExitNow

\* The host-path experiment implements what every experiment promises.
ImplementsGrace == G!Spec

=============================================================================
