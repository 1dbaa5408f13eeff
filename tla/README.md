# RolloutKit in TLA+

RolloutKit runs a container image, sends it SIGTERM and judges how it behaves
until it is gone. What it reports is only as good as its own experiment: a
SIGKILL sent too early, a timestamp taken on the wrong side of T0, or an
experiment that never ends is a wrong verdict about somebody else's program.
These modules specify that experiment from the source under `src/rolloutkit/`
(paths below are relative to it), model-check it with TLC and prove the
properties that matter most with TLAPS.

## The system

| Part | State | Operations | Hard behaviour |
|---|---|---|---|
| Host-path shutdown experiment, `engine/lifecycle.py` `_shutdown` | the `RunReport` timestamps, five events, five tasks and a body in one task group | wait for the exit, send SIGTERM, open fresh connections, probe readiness, enforce the grace period, run the in-flight requests, wait for the die frame | every await is a scheduling point; timers that start at different moments; the target and the daemon act on their own |
| Run lifecycle, `run_experiment` | network, started containers, sidecar or fallback, phase | create, start, gate, start up, calibrate, baseline, shut down, clean up | any call may fail at any point; the cleanup runs on every way out |
| Sidecar shutdown, `runtime/traffic_probe.py`, `runtime/sidecar_entry.py` | the host's report, the sidecar's `STATE`, a job thread | start, arm, T0 on two clocks, result, poll | two processes, an agreed instant that may have passed, results cut off by a deadline |
| Sidecar control protocol, `Handler` | `STATE` | `/wait_tcp`, `/startup`, `/baseline`, `/jitter`, `/shutdown/*`, `/calibration/*` | a start that waits for the arming, a poll that must outlast the job |
| Teardown calibration, `measure_teardown_floor` | auxiliary containers | start, kill, measure, remove | a container left behind, a floor measured from a listener that never listened |
| Docker client, `runtime/docker.py` | none of its own | create, start, kill, wait, events, remove | a call fails between two others |
| Traffic, `traffic/`, `probes/` | one request or attempt | connect, send, read, classify | where exactly a connection died |
| Run report, `engine/context.py`, `runtime/base.py` | timestamps, frames | durations, `accept_stopped_ns`, `sigkill_effective` | a missing, repeated or misordered timestamp |
| Preconditions and contracts, `engine/preconditions.py`, `contracts/` | a finished report | SP001 to SP006, blocked results | a verdict from something that was not measured |
| Session, `evidence/model.py`, `engine/runner.py`, `cli/main.py` | the runs' results | aggregate, block, exit code | repeats that disagree |
| Configuration, `config/` | a validated `Config` | five sources of an option, `${VAR}`, defaults, rules between settings | values at a boundary, sources read before they are merged |
| Start-up, `_gate_dependency`, `_startup*`, `probes/http.py` | a deadline and three timestamps | poll a port, poll readiness, inspect | deadlines looked at between attempts only, containers that come up and die at any time |
| Catalog, `contracts/catalog.py` | none | what `explain` says of each verdict | the same branches are written down twice |
| Reporters, redaction, provenance, endpoint discovery | none | formatting and lookup | none that a model checker reaches |

`run_experiment` calls everything above the report; the experiment fills the
report; the contracts read it; the session combines the contracts' results.
The experiment has two implementations, one driving traffic from the host and
one from a sidecar container, chosen by whether the sidecar started.

What makes each part correct:

* the experiment: SIGKILL only after a full grace period with no observed exit;
  an exit is measured only when it follows SIGTERM; T0 lies inside a request;
  the end of accepting rests on evidence; no probing where the strategy forbids
  it; it ends;
* the lifecycle: what was created is removed, on every way out, and the error
  that is reported is the one that ended the run;
* the sidecar: its T0 lies inside a request too, and its results reach the host;
* the calibration: what is counted is the sample's own, measured from a listener
  that was there;
* the start-up: who serves in time is found, and polling costs one interval at most;
* a request: its outcome says where the connection died, and once it has landed it stays;
* the verdicts: a contract passes only on a measurement, the worst clause that holds
  is the one published, and the catalog lists what can be published;
* the session: the exit code reflects a blocking result if there is one, and a pass
  under a gate is one that was measured.

`PROJECT.json` lists every part with what is modelled of it, the hazards of
the code at their lines, and for each definition the lines it stands for.

## The modules

| Module | Models | State and actions |
|---|---|---|
| `Grace` | what an experiment promises, whatever the vantage point | a stage, the ticks since SIGTERM and where the exit was observed; abstract |
| `Shutdown` | `_shutdown` in `engine/lifecycle.py` | the settings of the run are in `plan`, each task of the group is a program counter in `task`, moved at its awaits; anyio events are the set `fired`; report timestamps are `stamped`, with the timestamps that were there first in `earlier` |
| `SidecarShutdown` | `TrafficProbe.shutdown` and `_shutdown_job` | the host's tasks and the sidecar's, the start call, the agreed T0, the result poll, the probe thread that no cancellation stops |
| `RunLifecycle` | `run_experiment` and the calls it makes in `runtime/docker.py` and `runtime/traffic_probe.py` | `at` is the call the run is waiting for, `started` the list its `finally` block removes, `exists` what is at the daemon |
| `Startup` | `_gate_dependency`, `_startup`, `_startup_sidecar`, `probes/http.py`, `/wait_tcp`, `/startup` | one clock, the deadline of the loop at hand, what the dependency and the target will do; an attempt and the rest after it are one step of any length |
| `Calibration` | `measure_teardown_floor` and the sidecar's calibration job | the host's place in a sample, `STATE` with its event and result, the job threads, the auxiliary containers |
| `RequestClient` | `traffic/client.py`, `traffic/accept_probe.py`, `traffic/generator.py` | one program counter per request, what its peer has sent and what the client has read, deadlines that may pass at any await, the event bus |
| `RunReport` | `engine/context.py`, `traffic/baseline.py`, `runtime/base.py` | operators: the values that are derived from a report |
| `Contracts` | `contracts/`, `engine/preconditions.py` | operators: each contract as a sequence of clauses, each precondition as a predicate |
| `Catalog` | `contracts/catalog.py` | the branches, their statuses and strategies |
| `Verdicts` | the plan of the in-flight traffic and the evaluation of the contracts | baseline, experiment, one step per contract; EXTENDS `Contracts` and `Catalog` |
| `Config` | `config/loader.py`, `config/models.py` | operators: where a value comes from, the defaults, the rules |
| `Session` | `cli/main.py`, `engine/runner.py`, `evidence/model.py` | load, one step per repeat, aggregate and exit; EXTENDS `Config` |
| `ShutdownProofs`, `SidecarProofs`, `RunLifecycleProofs`, `StartupProofs`, `CalibrationProofs`, `RequestClientProofs`, `VerdictsProofs`, `SessionProofs` | theorems about the modules they are named for | |
| `MC*` | instances for TLC | |

How they fit together. `RunLifecycle` has one step for each call of a run and
knows of a phase only whether it fails; `Startup`, `Calibration`, `Shutdown`
and `SidecarShutdown` are the inside of the phases. `RequestClient` is the
inside of a request, of which `Shutdown` and `SidecarShutdown` keep the
crossing of the socket and the end. `Verdicts` takes a report in which the
times are numbers, ordered as the experiments leave them, and `Session` takes
verdicts of which it knows the statuses the catalog allows.

One action is the code between two awaits of one task. What a task does there
is atomic in the code too, since the tasks share one event loop; between two
actions everybody else may act, the daemon and the target among them. The
sidecar's jobs are threads: what they share is `STATE`, and an action holds at
most one access to it.

**Time.** In the two experiments a tick is about a second. Timers count down
(`left`) and a tick is not allowed while something is due (`Prompt`): a timer
that is up, an event that is set, an answer that is there. So a wake-up is on
time at the scale of a tick, while the order of everything that falls into the
same tick is free. That is where the races are: the exit that is observed as
the grace period ends, the refusal on either side of T0. The periodic probes
are not due at any tick; they may happen at any time, also more often than the
code's interval. `Startup` has a clock of its own unit in which each attempt
takes any time up to a bound: `TcpTimeout` is the timeout of a connect, `ProbeTime` is
the longest a readiness probe takes. The latter is a bound on the peer and not one of
the code, whose clients allow two seconds for each operation on the socket
(`probes/http.py` 61, `runtime/sidecar_entry.py` 42): an answer that trickles in may
take any multiple of them. The theorems about `Startup` hold for every value of it. In `Calibration` and `RequestClient` a
timeout may expire whenever it is waited for. `Verdicts` counts milliseconds.

**Timestamps.** The experiments take timestamps and never compare them. A
timestamp is therefore the set of those taken before it, and "later than" is
membership. In `SidecarShutdown` the two processes stamp one common order: the
skew between the clocks of the host and the container, which share one kernel
in the supported setup, is not modelled.

**The daemon** accepts a signal, knows of a death when it happens, and reports
it up to `ReportLag` ticks later or later still. A call may be answered,
refused, or lost on its way out or back; where the code distinguishes a
`DockerError` from an unreachable daemon, so do the models. **The target** may
close and reopen its listener, turn unready, hang, and exit at any time after
SIGTERM; with `EarlyFailure` (or `Faults`) also before it.

**Interrupts** (`RunLifecycle`) cancel the main task at the await it is in. The
`finally` block runs outside a shielded scope, so a second one may cut it short.

## The abstract specification

`Grace` is what both vantage points must agree on: one SIGTERM; SIGKILL only
when `HardWait` ticks have passed since, with no exit observed; a measurement
only of an exit observed after SIGTERM; failure at any time.
`Shutdown!ImplementsGrace` and `SidecarShutdown!ImplementsGrace` map the report
to it: the stage is read off the phase and the timestamps, the exit is classed
by the timestamps before it. The mapping makes the order of two timestamps
visible as the state of the abstract experiment at the second one, so an exit
dated before SIGTERM that is measured all the same is a step `Grace` has not got.
Both refinements are model-checked and proved.

## The runs

| Run | Question | Bounds |
|---|---|---|
| `shutdown` | host path, with and without PRESTOP, a failing target and failing daemon calls: is the accept stop backed by its streak of fresh refusals, is a drop dated inside the shutdown, no early kill, T0 inside a request, a measured exit follows T0, no connection after T0 under PRESTOP, is an exit that goes unreported without a SIGKILL explained by a late SIGTERM or an unarmed sender, implements `Grace`, ends once a request has crossed the socket | one request, streak 2, grace 2, a `sigterm_after` inside `exit_waiter`'s margin and one beyond it, fairness |
| `sidecar` | default path, both strategies, everything may fail: T0 and SIGTERM follow a request, every request has a result in a measured experiment, the poll outlasts the job, a reported accept stop follows T0 and precedes SIGKILL, implements `Grace`, ends | one request, streak 2, grace 2, margins 2/2/3/5, fairness |
| `run` | what a run creates is removed on every way out, no clean-up failure replaces the run's error, no calibration container is there during the shutdown | two dependencies, one gated, every fault, two interrupts |
| `startup` | is a peer that serves in time and stays up found, on all three paths; what does polling cost | budget 6, gate budget 4, longest probe and interval 2, every time at which a container listens, serves and dies |
| `calibration` | is a value its own sample's; is anything killed that the sidecar has not reached or given up on; does it end | three samples, streak 2, fairness |
| `client` | does an outcome say where the connection died; is a landed outcome ever taken back; does everything settle | two requests, or one and an accept probe, every framing, fairness |
| `verdicts` | is what is published in the catalog, under the strategies it names; is the worst clause published; is the blame for silence laid on who was silent only, and on all of them but those whose refusals after the kill are counted; is a pass ever given to something that was late, uncovered or not measured | every strategy, both paths, every measured time on either side of each limit |
| `session` | does a steady failure block, does a gate see a repeat that did not measure; does a weaker source of an option make a difference | every source of every option, every rule's boundary, three repeats of two contracts, every gate and failure |
| `hang`, `run_exit_code`, `no_lead`, `late_refusal` | what a comment or a docstring says of the code, and the code does not do | as small as shows it |

Why these bounds are enough to meet the cases. A grace period of two ticks has
a beginning, a middle and an end. The margins are ordered as the constants of
the code are (2000 < 2500 < 5000 ms, `ArmWait` longer than the set-up and the
lead), which is all that the comparisons between timers depend on, as the
theorems `RequestsSafe` and `ResultSafe` confirm; a probe (`ProbeTime` 2) may
outlast the tick in which the job is cancelled. Requests do
not interact with one another except through "at least one" and "all", which
one request does not tell apart: that difference is left to the theorems (`SignalSafe`,
`RequestsSafe`), which hold for any set of requests. A streak of two is the shortest that
can be broken by an accepted connection and begin on the wrong side of T0 or of
SIGKILL. Two dependencies make a list from which one removal may fail while
another must still happen; two interrupts are one in the body and one in the
clean-up. Three samples have one that is neither first nor last, whose job may
be left behind by the host and meet a later start. In `startup` an attempt may
take 0 to 2 units of a budget of 6, so that a deadline may pass in an attempt,
in a rest and at either end of them. In `verdicts` the plans vary one group of
settings at a time around a healthy service, since the contracts read disjoint
parts of the report except for the facts that `Verdicts` carries from one to
the next. Three repeats can agree, disagree once, and disagree in the last one.
A run of this size has between two thousand and two million states.

`CHECK_DEADLOCK FALSE` is set where the modelled program ends and has no step
left: `client`, `verdicts`, `no_lead`, `late_refusal` and `session`. The others
stutter once they are over.

Two properties name an exception. `NoReportIsExplained` allows an exit wait that
runs out before the SIGKILL where the sender sleeps through the margin, or never
starts for want of a request on the socket: both happen, the first in a plan of
`shutdown`, the second is what `hang` shows.
`SilenceIsBlocked` says that a silent process is blamed and its contracts are
blocked, but where the host's accept probe recorded refusals
(`KillMayPassForReaction`); `late_refusal` shows what happens there. Its other half,
that whoever is blamed or blocked was silent, has no exception.

## Fairness

`shutdown`, `hang`, `sidecar`, `client` and `calibration` assume weak fairness,
of each task and of the sidecar's threads: an event loop runs what can run, and
every await on a socket or on the daemon has a timeout. For that reason requests
end: `timeout_ms` bounds them, which `client` has as the fairness of
`DeadlinePasses`, and the calibration's host goes on: every call and poll of it
has a timeout that may expire. Weak fairness of the daemon's report of a death,
and of time. Nothing is assumed of a target or a peer: it may hang for ever,
flap, fall silent, or never react to a signal. In `calibration` nothing is
assumed of the job, which may find its streak never. Strong fairness is used nowhere.

## Findings

Each is a run that TLC must find violated; `PROJECT.json` quotes both sides.

* `hang`: nothing bounds the wait for `inflight_request_armed`; when no request
  crosses the socket the host-path experiment never ends. The sidecar path,
  whose start has a timeout, does not have this (`ExperimentEnds`).
* `run_exit_code`: a control port that stops answering is exit code 4, not 3.
* `no_lead`: a configured in-flight path whose baseline requests all fail ends a
  sidecar run with a `TypeError` instead of the verdict there is for it.
* `late_refusal`: on the host path the refusals of a container that was killed, whose
  exit has not been observed, are recorded as the end of accepting and read as a
  reaction to SIGTERM. A process that does nothing until it is killed can pass SP005,
  against the docstring of `accept_stopped_ns` and the catalog. The sidecar path
  leaves such a streak out (`AcceptStopBeforeKill`).

Observed while modelling; no run has them as its finding:

* a `sigterm_after` longer than `exit_waiter`'s margin of two seconds, which the rules
  allow (`config/models.py` 180-193), uses it up: the run ends with "did not report
  container exit after SIGKILL" (`engine/lifecycle.py` 734) and none was sent, though
  the daemon answers. `NoReportIsExplained` names the case, and `shutdown` has a plan for it;
* a `ROLLOUTKIT_PORT` in a dotenv file or an inline value, and another in the process:
  `test` takes the process's, whose option reads it, and `validate` the file's
  (`config/loader.py` 137, 181), although lines 117-119 say that both commands mean
  the same;
* an `env_file` of the target takes precedence over `--env` in the expansion of `${VAR}`
  (`config/loader.py` 417), and the command line over the `env_file` in the target's
  environment (176), against lines 129-132; services are expanded twice;
* the guard against recording a death as a readiness drop tests the daemon's
  report, which may be later than the probe;
* the best-effort calibration lets a `TimeoutError` of its poll and some of the
  Docker client's exceptions escape; a job's thread that stamps T0 after the kill
  could measure a floor of zero;
* an interrupt during the sidecar's health wait is converted to a `DockerError`
  (`runtime/traffic_probe.py` 53), and the run continues from the host;
* FAIL in one repeat and ERROR or WARN in another is FLAKY, which does not block;
  a FLAKY contract with an INCONCLUSIVE repeat does block, as required and
  unmeasured;
* `timeouts.shutdown` below the shutdown budget kills early, and SP006 then blames
  the budget; an `in_app` window may exceed the budget;
* the client takes a 1xx response for the final one; the sidecar's readiness probe
  catches `OSError` only, so that an answer that is not HTTP ends a sidecar run at
  once where the host path would go on trying.

## What is proved

Every theorem holds for all values of the constants that the module's
assumption admits: any set of requests, services or actors, any number of
samples, any budget, lag or interval. `Verdicts` assumes of its plans a strategy
of the code and whole numbers for window and budget, `Session` of its contracts that
none is FLAKY in one repeat (`PlansAssumption`, `ReachableAssumption`): what the
validated models leave. `Possible` is the other hypothesis of the theorems about
verdicts: it says what a measured experiment can have seen of the target, times that
are numbers, finitely many attempts (some of which may have timed out without a
connection), and the order in which the experiments leave them.

| Module | Theorems |
|---|---|
| `ShutdownProofs` | `TypeCorrect`; `KillSafe`: SIGKILL follows SIGTERM by a full grace period, with no exit observed; `DropSafe`: a drop lies between T0 and the observed exit; `SignalSafe`: T0 follows a request that crossed the socket; `MeasureSafe`: what is reported has an exit after its SIGTERM; `NoReportSafe`: a missing exit report is one after SIGKILL, unless the sender slept through `WaitMargin` or was never armed; `AcceptStopSafe`: the accept stop rests on the last attempts on record, all fresh and refused; `PreStopSafe`: no connection attempt begins after T0 under PRESTOP; `HostImplementsGrace`: `Shutdown` implements `Grace` |
| `SidecarProofs` | `TypeCorrect`; `MeasuredSafe`: T0 lies inside a request; `AcceptKillSafe`: a reported accept stop lies between T0 and SIGKILL; `RequestsSafe`: every request has a result, if `WaitMargin < JobMargin`; `ResultSafe`: the poll finds the result, if `JobMargin < PollMargin` and `ReadinessMargin + ProbeTime < PollMargin`; `SidecarImplementsGrace` |
| `RunLifecycleProofs` | `TypeCorrect`, `NothingSafe`, `RemovedSafe`, `CauseSafe`, `QuietSafe`: the four properties of the run |
| `StartupProofs` | `SteadyPeerSafe`, `IntervalSafe`, `StampsSafe`, `PatienceSafe`, `OverrunSafe`, `GateSafe`: who serves in time is found; polling costs one interval; stamps are real; nobody is given up early; a loop outlasts its deadline by one turn at most; the target starts behind its gate |
| `CalibrationProofs` | `ValuesSafe`, `KillSafe`, `JobSafe`, `AllSafe`, `LeftSafe`: values are their sample's own; nothing unreached is killed; one job at a time; all samples or none; no container is left |
| `RequestClientProofs` | `TypeCorrect`, `WholeSafe`, `AcceptedSafe`, `ArmedSafe`, `RecordSafe`, and the action property `LandedSafe` |
| `VerdictsProofs` | `TypeCorrect`; `CatalogSafe`: what is published is in the catalog; `WorstSafe`: the worst clause that holds is published; `SilenceSafe`: who is blamed for silence was silent, and who was silent is blamed and blocked, unless refusals on the host path may pass for a reaction; `InflightSafe`, `DeadlineSafe`, `CoveredSafe`: what a pass of SP005, SP006 and SP004 says of what happened |
| `SessionProofs` | `TypeCorrect`; `SteadySafe`, `GatedSafe`: what the exit code says of the repeats |

Two theorems have hypotheses. The code's values meet those about its own
constants: `WaitMargin` is 2000 ms, `JobMargin` 2500, `PollMargin` 5000,
`ReadinessMargin` 2000. `ProbeTime` in `ResultSafe` is about the target: the poll
finds the result if no readiness probe takes three seconds or more. A target that
connects, sends and answers each within the two seconds of a socket operation may
take longer, and then the thread join of the job can outlast the poll. A change to
one of these constants that keeps the inequalities keeps the theorems; they say
which differences matter, where the runs show one instance.

How the arguments go. None of the properties is inductive; each module of
proofs first strengthens them to an invariant of its own.

* `Shutdown`: `SignalOrder` ties the sender's place to the timestamps and
  events, so `sigterm_sent` implies a SIGTERM on record. `GraceAccount` says
  that the enforcer's timer and the ticks since T0 add up to at least the
  grace period, so its timer cannot be up early. `ExitOrder` dates an exit
  before SIGTERM only while the sender's call is still going to fail.
  `RequestGate` has `inflight_request_armed` stand for a request that was sent.
  `TypeOK` itself needs that the accept loop has returned when the streak is
  full. The accept stop needs that the streak is a suffix of the record
  (`StreakOnRecord`), with a lemma about the bounded list it is kept in.
  `NoReportSafe` adds an account of the waiter's timer through every stage of
  the sender and the enforcer (`WaitOutlastsGrace`): it has lost no more than
  `SignalDelay` when the grace period begins, the time the sender sleeps. A request
  that is armed is what starts that sleep at the waiter's own beginning (`ArmedAtOnce`);
  otherwise the sender is left at its event for ever (`NeverArmed`).
* `SidecarShutdown`: the same parts for the merged signaller, `Arming` for the
  chain from the request's event over the start call to both stamps, and two
  accounts of timers across the processes: while results are missing the job
  has more time left than the host waits for the exit (`JobOutlastsExit`);
  while it polls, the poll has more time left than the job and its last probe
  (`PollOutlastsJob`).
* refinement: every action either leaves phase, three timestamps and clock
  alone (`UnseenStep`), raises (`RaiseFails`), or is one named step of `Grace`.
* `RunLifecycle`: while every call is answered, what exists at the daemon is
  the network, what is in `started` and the container of the call at hand
  (`Known`); on the way out, the same for the part of the list that is still to
  be removed (`Left`, `Removed`).
* `Startup`: what the deadline, the clock and the peer's times are to each
  other at each await (`Places`), with lemmas that bound an attempt.
* `Calibration`: jobs of earlier samples are over or behind their T0, later ones
  have not begun (`Behind`, `Ahead`), and the one slot of `STATE` belongs to the
  present sample (`Present`, `Account`).
* `Verdicts`: what is published is the verdict of each contract, in order, on a
  report with the facts of those before it (`InOrder`), and that report records
  one experiment (`Measured`). The facts are all that changes in between and no
  clause reads them (`SameClauses`), so each theorem is about one contract and
  one experiment. `DecideIs` and `PublishIs` say once what first and worst mean
  for any list of clauses that ends; the lists have their shapes by cases.
  `SilentIs` is the link from the record back to what happened, which fails only for
  refusals the host recorded after the kill, and `DurationIs`
  the one from the daemon's frames, with any of them lost, to the truth.
* extremes: the first of a list, the last connection and the first frame are
  least and greatest members of finite sets. That these exist (`Extremes`) would
  be an induction over the set; it is proved by a smallest counterexample in the
  well-founded order of finite sets instead.
* `Session`: each repeat is typed, the aggregate is the worst of what there is
  (`WorstExists`, `VerdictIsAggregate`), and the exit code is the gate's answer
  to the repeats (`GateDecides`).
* `RequestClient`: the life of one actor (`Life`) and of its events on the bus
  (`Recorded`); actors share only the event and the bus.

Model-checked only: liveness (`ArmedLeadsToEnd`, `ExperimentEnds`,
`EverythingSettles`, `CalibrationEnds`; ENABLED and fairness are outside this
prover's reach), and `CommandLineDecides`, which TLC decides for every
subset of an option's sources. Every other property of a passing run is a theorem. The
statistics the models read (`TwiceMedian`, `RoundQuarter`) are used by the theorems as
they stand; that they compute what the code computes is left to the comparison
with the source.

## Not modelled, and why

Endpoint discovery, image handling and version checks, URL and YAML parsing,
duration syntax, the parsing of HTTP bytes, the Compose import, reporters,
redaction and provenance are I/O, parsing and wording. `verify_keep_alive` has
no state beyond one connection. The exit after a keyboard interrupt is the
command-line library's. The texts of the catalog, the contracts' messages and
their evidence are wording. The skew of two clocks, the cost of a poll and
intervals below the unit of a module are below the resolution here.

## What is left

* the clocks of host and sidecar as two clocks with a bounded skew, which T0
  and the timestamps of `/startup` would then be read against;
* `Config` up to the Compose import, and the Docker client's handling of an
  interrupted stream;
* the composition of `RequestClient` with `Shutdown`, whose requests are so far
  abstracted to the four phases the experiment waits for.
