---------------------------- MODULE RunLifecycle ----------------------------
(***************************************************************************)
(* engine/lifecycle.py, run_experiment: what one run creates at the Docker *)
(* daemon, and what of it is left when the run is over.                    *)
(*                                                                         *)
(* A run is sequential: at is the call it is waiting for.  Every call may  *)
(* fail, and a call that got no answer may have had its effect all the     *)
(* same.  The exceptions are told apart because the handlers do: the       *)
(* fallback catches some of them, the cleanup catches Exception, the       *)
(* command line maps them to exit codes.  An interrupt cancels the main    *)
(* task at the await it is in: it is no Exception, and it is raised once.  *)
(*                                                                         *)
(* The phases between the target's start and the shutdown appear by the    *)
(* containers they create and the exceptions they let out.                 *)
(***************************************************************************)
EXTENDS Integers, Sequences, Functions

CONSTANTS
  Service,        \* the configured dependencies
  Gated,          \* those with a wait_for
  Fault,          \* how a daemon call may fail
  SidecarFaults,  \* whether the sidecar or its control port may fail
  MaxInterrupts   \* how often the user may interrupt the run

ASSUME RunAssumption ==
  /\ Gated \subseteq Service
  /\ Service \cap {"network", "probe", "target", "pid1", "floor"} = {}
  /\ Fault \subseteq {"refused", "lost", "unavailable"}
  /\ MaxInterrupts \in Nat
  /\ SidecarFaults \in BOOLEAN

VARIABLES
  at,          \* the call the run is waiting for
  cur,         \* the container being created, started or deleted
  started,     \* started: what the finally block removes, oldest first
  rest,        \* how many of them it has not come to yet
  exists,      \* what exists at the daemon
  gated,       \* the gates that are behind the run
  location,    \* report.probe_location, once it is decided
  error,       \* the exception on its way out, if there is one
  cause,       \* history: the exception that ended the run
  mishaps,     \* history: whether a call got no answer, or a delete failed
  interrupts   \* history: how often the run was interrupted

vars == <<at, cur, started, rest, exists, gated, location, error, cause,
          mishaps, interrupts>>
countVars == <<mishaps, interrupts>>
runVars == <<started, gated, location>>

Container == {"probe", "target", "pid1", "floor"} \cup Service
Resource == Container \cup {"network"}

Error == {"none", "DockerError", "DockerUnavailable", "HTTPError", "TimeoutError",
          "StartupFailure", "ProbePackagingError", "Interrupt"}

Call == {"network", "archive", "probe", "start", "discard", "health", "probe_logs",
         "probe_remove", "ping", "next", "startup", "startup_failed", "jitter", "image",
         "pid1", "floor", "measure", "drop", "baseline", "shutdown", "logs", "close",
         "remove"}

TypeOK ==
  /\ at \in Call \cup {"over", "cut"}
  /\ cur \in Container /\ started \in Seq(Container) /\ rest \in 0..Len(started)
  /\ exists \subseteq Resource /\ gated \subseteq Service
  /\ location \in {"undecided", "sidecar", "host_fallback"}
  /\ {error, cause} \subseteq Error
  /\ mishaps \subseteq {"unanswered", "undeleted"}
  /\ interrupts \in 0..MaxInterrupts

Init ==
  /\ at = "network" /\ cur = "probe" /\ started = <<>> /\ rest = 0
  /\ exists = {} /\ gated = {} /\ location = "undecided"
  /\ error = "none" /\ cause = "none"
  /\ mishaps = {} /\ interrupts = 0

-----------------------------------------------------------------------------
\* How calls end and where exceptions go.

Interruptible == interrupts < MaxInterrupts

\* A failed call: the exception it raises ("status": an answer of 400 or more,
\* which some callers turn into a DockerError), and whether it took effect.
Failures ==
  {f \in [error: {"status", "DockerError", "DockerUnavailable", "Interrupt"}, done: BOOLEAN] :
     \/ "refused" \in Fault     /\ f = [error |-> "status", done |-> FALSE]
     \/ "unavailable" \in Fault /\ f = [error |-> "DockerUnavailable", done |-> FALSE]
     \/ "lost" \in Fault        /\ f.error = "DockerError"
     \/ Interruptible           /\ f.error = "Interrupt"}

\* How a deleting call ends.
Deletions == Failures \cup {[error |-> "none", done |-> TRUE]}

Raised(e) == IF e = "status" THEN "DockerError" ELSE e

\* What the history keeps of it: the interrupts, the calls that make or inspect
\* a container and got no answer, the deletes that failed.
Counts(e) ==
  /\ interrupts' = IF e = "Interrupt" THEN interrupts + 1 ELSE interrupts
  /\ UNCHANGED mishaps

CountsCall(f, mishap, errors) ==
  /\ interrupts' = IF f.error = "Interrupt" THEN interrupts + 1 ELSE interrupts
  /\ mishaps' = IF f.error \in errors THEN mishaps \cup {mishap} ELSE mishaps

CountsAnswer(f) == CountsCall(f, "unanswered", {"DockerError", "DockerUnavailable"})
CountsDelete(f) == CountsCall(f, "undeleted", {"status"} \cup (Error \ {"none"}))

\* The run goes on to its next call.
Goes(place) == at' = place /\ UNCHANGED <<error, cause, rest, runVars>>

\* Seeded fault: the newest container is not among those to be removed.
UnwindWithoutNewest(e) ==
  /\ at' = "logs" /\ error' = e /\ cause' = e
  /\ UNCHANGED runVars
  /\ rest' = IF started = <<>> THEN 0 ELSE Len(started) - 1

\* An exception leaves the try block; the finally block begins.
Unwind(e) ==
  /\ at' = "logs" /\ error' = e /\ cause' = e
  /\ UNCHANGED runVars
  /\ rest' = Len(started)

\* PROBE_FALLBACK.
FallsBack(e) == e \in {"DockerError", "HTTPError", "TimeoutError"}

\* Container c could not be had, which e says.  The host makes
\* up for the sidecar, and the calibration is done without; otherwise the run
\* is over.
GivesUp(c, e) ==
  IF c = "probe" /\ FallsBack(e)
  THEN /\ location' = "host_fallback"
       /\ at' = "ping" /\ error' = "none"
       /\ UNCHANGED <<cause, rest, started, gated>>
  ELSE IF c = "floor" /\ location = "sidecar" /\ e = "DockerError"
  THEN at' = "baseline" /\ error' = "none" /\ UNCHANGED <<cause, rest, runVars>>
  ELSE Unwind(e)

\* The exception is kept while the container is cleaned up.
Pends(e, place) == error' = e /\ at' = place /\ UNCHANGED <<cause, rest, runVars>>

Makes(f, c) == exists' = IF f.done THEN exists \cup {c} ELSE exists
Deletes(f, c) == exists' = IF f.done THEN exists \ {c} ELSE exists

-----------------------------------------------------------------------------
\* create_network is outside the try block: after it there is no finally.
CreateNetwork ==
  /\ at = "network"
  /\ \/ exists' = {"network"} /\ Goes("archive") /\ UNCHANGED countVars
     \/ \E f \in Failures :
          /\ Makes(f, "network") /\ CountsAnswer(f)
          /\ at' = "cut" /\ error' = Raised(f.error)
          /\ cause' = Raised(f.error)
          /\ UNCHANGED <<rest, runVars>>
  /\ UNCHANGED cur

\* start_traffic_probe assembles its payload before it creates anything; a broken
\* installation cannot.
AssembleArchive ==
  /\ at = "archive"
  /\ Goes("probe") \/ Unwind("ProbePackagingError")
  /\ UNCHANGED <<cur, exists, countVars>>

\* The order of the run: the sidecar, the dependencies, the target behind the
\* gates, and the auxiliary containers of the calibration.
Wanted(c) ==
  \/ c \in {"probe", "pid1", "floor"} /\ at = c
  \/ c \in Service /\ at = "next" /\ c \notin Range(started)
  \/ c = "target" /\ at = "next" /\ Service \subseteq Range(started) /\ gated = Gated

\* _create_probe's containers: a refusal means doing without.
Auxiliary(c) == c = "pid1" \/ (c = "floor" /\ location = "host_fallback")

\* What follows the calibration's containers: a long budget is not calibrated.
After(c) == IF c = "pid1" THEN {"floor", "baseline"} ELSE {"baseline"}

GoesAfter(c) == \E call \in After(c) : Goes(call)

\* ensure_image or image_exists, and POST /containers/create.
CreateContainer(c) ==
  /\ Wanted(c) /\ cur' = c
  /\ \/ exists' = exists \cup {c} /\ Goes("start") /\ UNCHANGED countVars
     \/ Auxiliary(c) /\ GoesAfter(c) /\ UNCHANGED <<exists, countVars>>
     \/ \E f \in Failures :
          /\ Makes(f, c) /\ CountsAnswer(f)
          /\ IF Auxiliary(c) /\ f.error = "status" THEN GoesAfter(c)
             ELSE GivesUp(c, Raised(f.error))

\* Seeded fault: a start that was refused is not followed by a delete.
DiscardsNothing(c, e) == c = "probe" \/ Auxiliary(c)

\* Whether a failed start is followed by a delete.  runtime.start deletes what
\* it was refused, not what it got no answer about; the others have a finally.
Discards(c, e) == c = "probe" \/ Auxiliary(c) \/ e = "status"

\* The host's sample kills its container inside a task group, which wraps what
\* that call raises: the handler for DockerError does not see it.
KillUnanswered(c, f) == c = "floor" /\ f.error # "status"

\* POST start and GET json; for the sidecar also the upload of its payload, for
\* an auxiliary container the measurement, whose failure means doing without.
StartContainer(c) ==
  /\ at = "start" /\ cur = c
  /\ \/ /\ c \in Service \cup {"target"}
        /\ started' = Append(started, c)
        /\ at' = IF c = "target" THEN "startup" ELSE "next"
        /\ UNCHANGED <<error, cause, rest, gated, location, countVars>>
     \/ /\ \/ c = "probe" /\ Goes("health")
           \/ Auxiliary(c) /\ Goes("discard")
           \/ c = "floor" /\ ~Auxiliary(c) /\ Goes("measure")
        /\ UNCHANGED countVars
     \/ \E f \in Failures :
          /\ CountsAnswer(f)
          /\ IF Auxiliary(c) /\ f.error # "Interrupt"
             THEN Goes("discard") \/ (KillUnanswered(c, f) /\ Pends(f.error, "discard"))
             ELSE IF Discards(c, f.error) THEN Pends(Raised(f.error), "discard")
             ELSE GivesUp(c, Raised(f.error))
     \/ SidecarFaults /\ c = "probe" /\ Pends("TimeoutError", "discard") /\ UNCHANGED countVars
  /\ UNCHANGED <<cur, exists>>

\* The delete.  A start goes on with its own exception unless the delete raised
\* one; _discard_probe swallows what is not an interrupt.
DiscardContainer(c) ==
  /\ at = "discard" /\ cur = c
  /\ \E f \in Deletions :
       LET e == IF f.error \in {"none", "status"} THEN error ELSE f.error IN
       /\ Deletes(f, c) /\ CountsDelete(f)
       /\ IF Auxiliary(c)
          THEN IF f.error = "Interrupt" THEN Unwind("Interrupt")
               ELSE IF error # "none" THEN Unwind(error)
               ELSE GoesAfter(c)
          ELSE GivesUp(c, IF e = "TimeoutError" THEN "DockerError" ELSE e)
  /\ UNCHANGED cur

-----------------------------------------------------------------------------
\* TrafficProbe.start polls /health.  On any exception, the interrupt included,
\* it reads the logs, removes the container and raises a DockerError instead.
ProbeHealth ==
  /\ at = "health"
  /\ \/ /\ started' = <<"probe">> /\ location' = "sidecar" /\ at' = "next"
        /\ UNCHANGED <<error, cause, rest, gated, countVars>>
     \/ SidecarFaults /\ Pends("TimeoutError", "probe_logs") /\ UNCHANGED countVars
     \/ Interruptible /\ Pends("Interrupt", "probe_logs") /\ Counts("Interrupt")
  /\ UNCHANGED <<cur, exists>>

ProbeLogs ==
  /\ at = "probe_logs"
  /\ \/ Goes("probe_remove") /\ UNCHANGED countVars
     \/ \E f \in Failures :
          f.error # "status" /\ CountsAnswer(f) /\ GivesUp("probe", f.error)
  /\ UNCHANGED <<cur, exists>>

ProbeRemove ==
  /\ at = "probe_remove"
  /\ \E f \in Deletions :
       LET e == IF f.error \in {"none", "status"} THEN "DockerError" ELSE f.error IN
       Deletes(f, "probe") /\ CountsDelete(f) /\ GivesUp("probe", e)
  /\ UNCHANGED cur

-----------------------------------------------------------------------------
\* The calls between them, by what they let out.

\* A call to the sidecar's control port: no answer, or an error answer.
SidecarErrors ==
  IF SidecarFaults /\ location = "sidecar" THEN {"DockerError", "HTTPError"} ELSE {}

Interrupted == IF Interruptible THEN {"Interrupt"} ELSE {}

\* What a call to the daemon may raise: by itself, or also for its status.
Unanswered == {f.error : f \in Failures} \ {"status"}
DaemonErrors == {Raised(f.error) : f \in Failures}

Passes(place, errors) ==
  /\ \/ Goes(place) /\ UNCHANGED countVars
     \/ \E e \in errors \cup Interrupted : Unwind(e) /\ Counts(e)
  /\ UNCHANGED <<cur, exists>>

\* The status of /_ping is not looked at.
Ping == at = "ping" /\ Passes("next", Unanswered)

\* _gate_dependency: a gate is passed, or skipped where the host has no route.
\* The dependency's logs are read with every Exception swallowed.
Gate(s) ==
  /\ at = "next" /\ Service \subseteq Range(started) /\ s \in Gated \ gated
  /\ \/ /\ gated' = gated \cup {s}
        /\ UNCHANGED <<at, error, cause, rest, started, location, countVars>>
     \/ \E e \in SidecarErrors \cup Interrupted \cup
                 {"StartupFailure"} : Unwind(e) /\ Counts(e)
  /\ UNCHANGED <<cur, exists>>

\* _startup and _startup_sidecar: both inspect the container and read its logs
\* before they say what went wrong.
Startup ==
  /\ at = "startup"
  /\ \/ Goes(IF location = "sidecar" THEN "jitter" ELSE "image") /\ UNCHANGED countVars
     \/ Goes("startup_failed") /\ UNCHANGED countVars
     \/ Interruptible /\ Unwind("Interrupt") /\ Counts("Interrupt")
  /\ UNCHANGED <<cur, exists>>

StartupFailed ==
  /\ at = "startup_failed"
  /\ \E e \in {"StartupFailure"} \cup DaemonErrors : Unwind(e) /\ Counts(e)
  /\ UNCHANGED <<cur, exists>>

Jitter == at = "jitter" /\ Passes("image", SidecarErrors)

\* inspect_image: a DockerError is swallowed, an unreachable daemon is not.
InspectImage == at = "image" /\ Passes("pid1", Unanswered \ {"DockerError"})

\* One of the sidecar's five calibration samples; the container is removed in a
\* finally block of its own.
Measure ==
  /\ at = "measure"
  /\ \/ Pends("none", "drop") /\ UNCHANGED countVars
     \/ \E e \in SidecarErrors \cup DaemonErrors \cup Interrupted \cup
                 IF SidecarFaults THEN {"TimeoutError"} ELSE {} :
          Pends(IF e = "DockerError" THEN "none" ELSE e, "drop") /\ Counts(e)
  /\ UNCHANGED <<cur, exists>>

DropFloor ==
  /\ at = "drop"
  /\ \E f \in Deletions :
       LET e == IF f.error \in {"none", "status"} THEN error ELSE f.error IN
       /\ Deletes(f, "floor") /\ CountsDelete(f)
       /\ IF e = "none" THEN Goes("baseline") ELSE Unwind(e)
  /\ UNCHANGED cur

Baseline == at = "baseline" /\ Passes("shutdown", SidecarErrors)

\* The experiment; the sidecar's result is polled for until a TimeoutError.
ShutDown ==
  at = "shutdown" /\
    LET late == IF SidecarErrors # {} THEN {"TimeoutError"} ELSE {} IN
    /\ \/ /\ at' = "logs" /\ rest' = Len(started)
          /\ UNCHANGED <<error, cause, runVars, countVars>>
       \/ \E e \in SidecarErrors \cup DaemonErrors \cup late : Unwind(e) /\ Counts(e)
    /\ UNCHANGED <<cur, exists>>

-----------------------------------------------------------------------------
\* The finally block.  Exceptions are swallowed; an interrupt ends the block.

CutShort == at' = "cut" /\ error' = "Interrupt"

Tidies(place) == at' = place /\ UNCHANGED error

CleanLogs ==
  /\ at = "logs"
  /\ \/ Tidies("close") /\ UNCHANGED countVars
     \/ Interruptible /\ "target" \in Range(started) /\ CutShort /\ Counts("Interrupt")
  /\ UNCHANGED <<cur, exists, cause, rest, runVars>>

CleanClose ==
  /\ at = "close"
  /\ \/ Tidies("remove") /\ UNCHANGED countVars
     \/ Interruptible /\ location = "sidecar" /\ CutShort /\ Counts("Interrupt")
  /\ UNCHANGED <<cur, exists, cause, rest, runVars>>

\* Seeded fault: an exception of one removal ends the loop.
StopsAtFirst(f) == f.error \in {"Interrupt", "DockerError", "DockerUnavailable"}

\* What one removal raises past its own try block.
Escapes(f) == f.error = "Interrupt"

\* One removal, after which the block goes on at place or ends.
Removes(f, place) ==
  /\ CountsDelete(f)
  /\ IF Escapes(f) THEN at' = "cut" /\ error' = f.error ELSE Tidies(place)

CleanRemove ==
  /\ at = "remove" /\ rest > 0
  /\ \E f \in Deletions : Deletes(f, started[rest]) /\ Removes(f, "remove")
  /\ rest' = rest - 1
  /\ UNCHANGED <<cur, cause, runVars>>

\* Docker refuses to remove a network a running container is attached to.
CleanNetwork ==
  /\ at = "remove" /\ rest = 0
  /\ \E f \in Deletions :
       /\ \/ Deletes(f, "network")
          \/ exists # {"network"} /\ UNCHANGED exists
       /\ Removes(f, "over")
  /\ UNCHANGED <<cur, cause, rest, runVars>>

\* The run is over.
Over == at \in {"over", "cut"} /\ UNCHANGED vars

Starts == \E c \in Container : CreateContainer(c) \/ StartContainer(c) \/ DiscardContainer(c)
Fallbacks == ProbeHealth \/ ProbeLogs \/ ProbeRemove \/ Ping
Phases == \/ CreateNetwork \/ AssembleArchive \/ Startup \/ StartupFailed \/ Jitter
          \/ InspectImage \/ Measure \/ DropFloor \/ Baseline \/ ShutDown
          \/ \E s \in Gated : Gate(s)
Cleanup == CleanLogs \/ CleanClose \/ CleanRemove \/ CleanNetwork

Next == Starts \/ Fallbacks \/ Phases \/ Cleanup \/ Over

Spec == Init /\ [][Next]_vars

-----------------------------------------------------------------------------
\* What a run promises.

\* "over": the finally block has run to its end; "cut": it has not.
Ended == at \in {"over", "cut"}

\* While the daemon answers and no delete fails, an uninterrupted run leaves
\* nothing behind, whatever it is refused and whatever goes wrong with the sidecar,
\* a dependency or the target (lifecycle.py 268-289, docker.py 301-333, 409-418).
NothingLeft == Ended /\ mishaps = {} /\ interrupts = 0 => exists = {}

\* Whatever call goes unanswered and wherever the run is interrupted outside its
\* finally block, the containers it knows are removed unless a delete failed, and
\* the network is only left to a container (lifecycle.py 280-288).
StartedIsRemoved ==
  at = "over" /\ "undeleted" \notin mishaps =>
    exists \cap Range(started) = {} /\ exists # {"network"}

\* No exception of the cleanup takes the place of the run's own, and a run that
\* went well is reported even if its cleanup fails (lifecycle.py 276).
CauseIsKept == Ended /\ error # "Interrupt" => error = cause

\* While SIGTERM is sent and the exit observed no container of the calibration
\* is at the daemon, whose work would land in the timing (lifecycle.py 563).
QuietShutdown ==
  at = "shutdown" /\ mishaps = {} => exists \cap {"pid1", "floor"} = {}

-----------------------------------------------------------------------------
\* What the comments and documents of the code say of it.

\* cli/main.py _run, runner.py run_session: the exit code of an exception.
ExitCode(e) ==
  IF e \in {"DockerError", "DockerUnavailable", "StartupFailure", "ProbePackagingError"}
  THEN 3 ELSE 4

\* runner.py 16: "Docker or the target environment failed us. Exit code 3, never
\* a FAIL".
EnvironmentFailureIsThree ==
  Ended /\ error \notin {"none", "Interrupt"} => ExitCode(error) = 3

=============================================================================
