------------------------------- MODULE Startup -------------------------------
(***************************************************************************)
(* engine/lifecycle.py, _gate_dependency, _startup and _startup_sidecar,   *)
(* with the loops they wait in: probes/http.py on the host, /wait_tcp and  *)
(* /startup of runtime/sidecar_entry.py.                                   *)
(*                                                                         *)
(* A dependency is waited for until its port accepts; the target is        *)
(* started; its port and then its readiness are waited for.  Every loop    *)
(* attempts, rests, and goes on while its deadline has not passed, which   *)
(* it looks at between attempts only.                                      *)
(*                                                                         *)
(* now counts from the beginning of the phase at hand, the dependency's or *)
(* the target's.  What a container will do is drawn when its phase begins; *)
(* an attempt takes any time up to its timeout and meets the container in  *)
(* some moment of it, so that an attempt and the rest after it are one     *)
(* step.  The clocks of the host and of the sidecar are one clock here.    *)
(***************************************************************************)
EXTENDS Integers

CONSTANTS
  Budget,        \* timeouts.startup
  GateBudget,    \* services.<name>.wait_for.budget
  MinReadiness,  \* what is left for readiness at least, on the host
  TcpTimeout,    \* of one connection attempt
  TcpInterval,   \* between two of them
  ProbeTime,     \* bound: how long one readiness probe takes
  PollInterval,  \* READINESS_POLL_INTERVAL_MS
  MaxOverhead    \* bound: how long the start of the target takes

ASSUME StartupAssumption ==
  /\ {Budget, GateBudget, MinReadiness, TcpTimeout, ProbeTime, MaxOverhead}
       \subseteq Nat \ {0}
  /\ {TcpInterval, PollInterval} \subseteq Nat \ {0}
  /\ TcpInterval <= PollInterval

VARIABLES
  path,      \* where attempts are made from, and what is in between
  at,        \* what the run waits for
  now,       \* the clock
  deadline,  \* of the loop it is in
  dependency, \* from when on the dependency accepts connections
  target,    \* when the target listens, serves and dies
  report,    \* gate, container_started_ns, tcp_open_ns, readiness_ok_ns, failure
  hasty,     \* history: what cut a loop short of its deadline
  idle       \* history: how long the run rested while the target served

vars == <<path, at, now, deadline, dependency, target, report, hasty, idle>>
peers == <<dependency, target>>

\* The sidecar; the host, with a route to the containers; the host before a
\* published port.
Path == {"sidecar", "host", "proxied"}

\* A turn of any loop: a connection, a probe and a rest.
Turn == TcpTimeout + ProbeTime + PollInterval

\* No time the clock reaches.
Latest == MaxOverhead + Budget + GateBudget + MinReadiness + 2 * Turn
Never == Latest + 1
Moment == 0..Never

Failure == {"none", "control", "dependency", "never_opened", "not_ready", "exited"}

TypeOK ==
  /\ path \in Path
  /\ at \in {"gate", "start", "port", "readiness", "connect", "probe", "inspect", "over"}
  /\ now \in 0..Latest /\ deadline \in 0..Latest
  /\ dependency \in Moment
  /\ target \in [listens: Moment, serves: Moment, dies: Moment]
  /\ report \in [gate: {"none", "connected", "skipped"}, started: Moment, tcp: Moment,
                 ready: Moment, failure: Failure]
  /\ hasty \in {"no", "call", "garbled"} /\ idle \in Nat

-----------------------------------------------------------------------------
\* The container at the other end.

\* What may become of a target that is born at b.
Lives(b) ==
  LET Some == b..(b + Budget) \cup {Never} IN
  {p \in [listens: Some, serves: Some, dies: Some] : p.listens <= p.serves}

Alive(t) == t < target.dies
Listens(t) == target.listens <= t /\ Alive(t)
Serves(t) == target.serves <= t /\ Alive(t)

\* A published port's forwarder accepts before the application does, and after
\* it is gone.
Accepts(t) == Listens(t) \/ (path = "proxied" /\ at = "port")

\* An attempt of at most limit, as its end and the moment it met the container.
\* A connection is given up on after TcpTimeout.  A probe has no timeout as a
\* whole: its clients allow 2 s for each operation on the socket, so ProbeTime
\* bounds what a peer makes of that, and may be any multiple of it.
Attempts(limit) ==
  {a \in [end: now..(now + limit), met: now..(now + limit)] : a.met <= a.end}

\* What a readiness probe comes back with: the expected status, another one or
\* none at all, or bytes that are not an HTTP answer.
Answers(t) ==
  IF Serves(t) THEN {"expected"}
  ELSE IF Listens(t) THEN {"other", "garbled"} ELSE {"other"}

\* The time between a and b in which the target served.
Served(a, b) ==
  LET from == IF target.serves > a THEN target.serves ELSE a
      to == IF target.dies < b THEN target.dies ELSE b
  IN IF from < to THEN to - from ELSE 0

-----------------------------------------------------------------------------
\* The loops.

Unset == [gate |-> "none", started |-> Never, tcp |-> Never, ready |-> Never,
          failure |-> "none"]

\* The dependency has been created when its gate begins.
Init ==
  /\ path \in Path
  /\ at = "gate" /\ now = 0 /\ deadline = GateBudget
  /\ dependency \in 0..GateBudget \cup {Never}
  /\ target = [listens |-> Never, serves |-> Never, dies |-> Never]
  /\ report = Unset /\ hasty = "no" /\ idle = 0

\* Rests for an interval after an attempt that ended at t.
Rests(t, interval) == now' = t + interval /\ idle' = idle + Served(t, t + interval)

\* Seeded fault: an attempt must have room to end before the deadline.
InTimeWithRoom == now + ProbeTime < deadline
\* The loop's condition.
InTime == now < deadline

OutOfTime == ~InTime

Ends(failure) == at' = "over" /\ report' = [report EXCEPT !.failure = failure]

-----------------------------------------------------------------------------
\* The dependency's gate (lifecycle.py 322).

\* The run ends, in the dependency's name.
GateFails == Ends("dependency") /\ UNCHANGED now

\* A host that reaches container addresses through a proxy has no route to a
\* dependency.
SkipGate ==
  /\ at = "gate" /\ path = "proxied"
  /\ at' = "start" /\ report' = [report EXCEPT !.gate = "skipped"]
  /\ UNCHANGED <<path, now, deadline, peers, hasty, idle>>

\* One turn of wait_for_tcp, on the host or in the sidecar.
WaitForDependency ==
  /\ at = "gate" /\ path # "proxied" /\ InTime
  /\ \E a \in Attempts(TcpTimeout) :
       IF dependency <= a.met
       THEN /\ at' = "start" /\ now' = a.end
            /\ report' = [report EXCEPT !.gate = "connected"] /\ UNCHANGED idle
       ELSE Rests(a.end, TcpInterval) /\ UNCHANGED <<at, report>>
  /\ UNCHANGED <<path, deadline, peers, hasty>>

GateExpires ==
  /\ at = "gate" /\ path # "proxied" /\ OutOfTime
  /\ GateFails
  /\ UNCHANGED <<path, deadline, peers, hasty, idle>>

\* The control call of a gate has no answer: no StartupFailure, and nobody's name.
GateCallFails ==
  /\ at = "gate" /\ path = "sidecar"
  /\ Ends("control")
  /\ UNCHANGED <<path, now, deadline, peers, hasty, idle>>

-----------------------------------------------------------------------------
\* The target (lifecycle.py 170).

\* The target is born while the start call is under way; its start is stamped
\* when the call has come back.
StartTarget ==
  /\ at = "start"
  /\ \E overhead \in 0..MaxOverhead : \E born \in 0..overhead :
       /\ now' = overhead /\ deadline' = overhead + Budget
       /\ target' \in Lives(born)
       /\ report' = [report EXCEPT !.started = overhead]
  /\ at' = IF path = "sidecar" THEN "connect" ELSE "port"
  /\ idle' = 0 /\ UNCHANGED <<path, dependency, hasty>>

\* What is left of the budget for readiness once the port is open.
ReadinessBudget(t) ==
  LET left == Budget - (t - report.started)
  IN IF left < MinReadiness THEN MinReadiness ELSE left

\* On the host: one turn of wait_for_tcp.
WaitForPort ==
  /\ at = "port" /\ InTime
  /\ \E a \in Attempts(TcpTimeout) :
       IF Accepts(a.met)
       THEN /\ at' = "readiness" /\ now' = a.end
            /\ report' = [report EXCEPT !.tcp = a.end]
            /\ deadline' = a.end + ReadinessBudget(a.end) /\ UNCHANGED idle
       ELSE Rests(a.end, TcpInterval) /\ UNCHANGED <<at, report, deadline>>
  /\ UNCHANGED <<path, peers, hasty>>

\* Seeded fault: the loop rests before its next probe as well as after this one.
ProbeAgainSlowly(t, interval, next) ==
  at' = next /\ Rests(t, 2 * interval) /\ UNCHANGED <<report, hasty>>

\* A failed probe of either loop, and the rest after it.
ProbeAgain(t, interval, next) ==
  at' = next /\ Rests(t, interval) /\ UNCHANGED <<report, hasty>>

ProbePasses(t) ==
  /\ at' = "over" /\ now' = t
  /\ report' = [report EXCEPT !.ready = t]
  /\ UNCHANGED <<hasty, idle>>

\* On the host: one turn of wait_for_readiness.  What is not an HTTP answer is an
\* httpx.HTTPError, and a probe that failed.
WaitForReadiness ==
  /\ at = "readiness" /\ InTime
  /\ \E a \in Attempts(ProbeTime) : \E answer \in Answers(a.met) :
       IF answer = "expected" THEN ProbePasses(a.end)
       ELSE ProbeAgain(a.end, PollInterval, "readiness")
  /\ UNCHANGED <<path, deadline, peers>>

\* In the sidecar: a turn of /startup connects until that has succeeded once, ...
SidecarConnects ==
  /\ at = "connect" /\ InTime /\ at' = "probe"
  /\ IF report.tcp # Never THEN UNCHANGED <<now, report>>
     ELSE \E a \in Attempts(TcpTimeout) :
            /\ now' = a.end
            /\ report' = [report EXCEPT !.tcp = IF Listens(a.met) THEN a.end ELSE Never]
  /\ UNCHANGED <<path, deadline, peers, hasty, idle>>

\* ... and probes.  An answer that is not HTTP raises an HTTPException, which
\* _http_probe does not catch: the handler ends without an answer of its own.
SidecarProbes ==
  /\ at = "probe"
  /\ \E a \in Attempts(ProbeTime) : \E answer \in Answers(a.met) :
       \/ answer = "expected" /\ ProbePasses(a.end)
       \/ answer = "other" /\ ProbeAgain(a.end, TcpInterval, "connect")
       \/ /\ answer = "garbled" /\ now' = a.end
          /\ at' = "inspect" /\ hasty' = "garbled" /\ UNCHANGED <<report, idle>>
  /\ UNCHANGED <<path, deadline, peers>>

\* A loop's deadline has passed: a 408 of the sidecar, None on the host.
StartupExpires ==
  /\ at \in {"port", "readiness", "connect"} /\ OutOfTime
  /\ at' = "inspect"
  /\ UNCHANGED <<path, now, deadline, peers, report, hasty, idle>>

\* The control call has no answer: an httpx.HTTPError.
CallFails ==
  /\ path = "sidecar" /\ at \in {"connect", "probe"}
  /\ at' = "inspect" /\ hasty' = "call"
  /\ UNCHANGED <<path, now, deadline, peers, report, idle>>

\* Every failure of the target is described by what has become of it.
Inspect ==
  /\ at = "inspect"
  /\ Ends(IF ~Alive(now) THEN "exited"
          ELSE IF path # "sidecar" /\ report.tcp = Never THEN "never_opened" ELSE "not_ready")
  /\ UNCHANGED <<path, now, deadline, peers, hasty, idle>>

Over == at = "over" /\ UNCHANGED vars

Gates == SkipGate \/ WaitForDependency \/ GateExpires \/ GateCallFails
HostWaits == WaitForPort \/ WaitForReadiness
SidecarWaits == SidecarConnects \/ SidecarProbes \/ CallFails

Waits == Gates \/ StartTarget \/ HostWaits \/ SidecarWaits \/ StartupExpires \/ Inspect

Next == Waits \/ Over

Spec == Init /\ [][Next]_vars

-----------------------------------------------------------------------------
\* What a start-up promises.

TargetFailed == report.failure \in {"never_opened", "not_ready", "exited"}

\* The target is started only after its dependency accepted a connection, except
\* where the host has no route to it: no failure is the target's that a missing
\* dependency may have caused unseen (lifecycle.py 331-338).
TargetStartsBehindGate ==
  report.started # Never => dependency < Never \/ path = "proxied"

\* A target that serves early enough for a whole turn of its loop before the
\* budget ends, and stays, is found ready, and such a dependency accepting: there
\* is no unlucky arrangement of attempts and rests in which the loops miss it.
SteadyPeerIsFound ==
  /\ TargetFailed /\ hasty = "no" =>
       \/ target.dies < Never
       \/ target.serves + TcpTimeout + ProbeTime + PollInterval > report.started + Budget
  /\ report.failure = "dependency" =>
       dependency + TcpTimeout + TcpInterval > GateBudget

\* Nobody is given up on before the budget is used up, unless the sidecar's call
\* ended without an answer of its own (http.py 78, 99; sidecar_entry.py 415, 444).
NobodyIsGivenUpEarly ==
  /\ TargetFailed /\ hasty = "no" => now >= report.started + Budget
  /\ report.failure = "dependency" => now >= GateBudget

\* Of the time between the target's being ready and the stamp that says so the run
\* rested one polling interval at most, which is what startup_resolution_ms adds:
\* SP001 warns of no overrun that the tool slept through (context.py 262).
OneIntervalIsLost == report.ready # Never => idle <= PollInterval

\* The stamps of a report are in order, none is earlier than what it stamps, and a
\* TCP stamp that is called meaningful was not given by a port's forwarder.
StampsAreReal ==
  /\ report.ready # Never => target.serves <= report.ready /\ report.started <= report.ready
  /\ report.tcp # Never =>
       /\ report.started <= report.tcp /\ report.tcp <= report.ready
       /\ path # "proxied" => target.listens <= report.tcp

\* The price of a deadline that is looked at between attempts only: a loop
\* outlasts it by its last turn at most, and the host's two loops by what the
\* second is given at least.  The caller of a loop has to allow for as much: the
\* host gives a call to the sidecar 5 s beyond its budget, which is more than a
\* turn of probes of 2 s, but not of every probe (traffic_probe.py 90, 123).
OverrunIsOneTurn ==
  LET budget == IF report.started = Never THEN GateBudget ELSE report.started + Budget
      extra == IF path = "sidecar" THEN 0 ELSE MinReadiness + TcpTimeout
  IN at # "start" => now <= budget + Turn + extra

=============================================================================
