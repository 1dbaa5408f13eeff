----------------------------- MODULE Calibration -----------------------------
(***************************************************************************)
(* runtime/traffic_probe.py, measure_teardown_floor, and what serves it in *)
(* runtime/sidecar_entry.py: /calibration/start, /calibration/result and   *)
(* the job.                                                                *)
(*                                                                         *)
(* For each sample the host starts a container of its own, asks the        *)
(* sidecar to watch it, kills it at T0 and collects what the sidecar saw.  *)
(* STATE is shared by the handler's threads and by the jobs, and a job     *)
(* that nobody waits for any more goes on.  Which sample a job, a result   *)
(* or a value belongs to is history: the code carries no such mark.        *)
(* Timeouts may expire whenever they are waited for.                       *)
(***************************************************************************)
EXTENDS Integers, Sequences

CONSTANTS
  Samples,  \* samples of a calibration
  Streak    \* TERMINAL_REFUSED_STREAK

ASSUME CalibrationAssumption == Samples \in Nat \ {0} /\ Streak \in Nat \ {0}

VARIABLES
  at,        \* the host: what it waits for
  sample,    \* the sample it is at
  outcome,   \* how the calibration ends
  values,    \* the samples it has, as the results they were read from
  result,    \* STATE.calibration_result
  armed,     \* STATE.calibration_armed
  job,       \* the sidecar's job threads
  t0,        \* the samples whose T0 has passed
  container, \* the auxiliary containers at the daemon
  mishap     \* history: whether a delete was not answered

hostVars == <<at, sample, outcome, values>>
stateVars == <<result, armed>>
vars == <<hostVars, stateVars, job, t0, container, mishap>>

Sample == 1..Samples

NoResult == [of |-> 0, floor |-> "none"]
Result == [of : Sample, floor : {"zero", "measured", "error"}]

\* A container that is killed accepts connections until it is gone.
Phase == {"absent", "booting", "listening", "killed", "dead", "exited", "removed"}
Accepts(s) == container[s] = "listening" \/ container[s] = "killed"

\* reached: a connection succeeded before the job was armed; refused: the streak;
\* accepted: whether an attempt after T0 was.
Job == [phase : {"none", "ready", "t0", "attempts", "over"}, reached : BOOLEAN,
        refused : 0..Streak, accepted : BOOLEAN]
Idle == [phase |-> "none", reached |-> FALSE, refused |-> 0, accepted |-> FALSE]

TypeOK ==
  /\ at \in {"create", "post", "arming", "t0", "kill", "wait", "poll", "drop", "over"}
  /\ sample \in Sample /\ outcome \in {"running", "calibrated", "unavailable", "raised"}
  /\ values \in Seq(Result) /\ Len(values) <= Samples
  /\ result \in Result \cup {NoResult} /\ armed \in BOOLEAN
  /\ job \in [Sample -> Job] /\ t0 \subseteq Sample
  /\ container \in [Sample -> Phase] /\ mishap \in BOOLEAN

Init ==
  /\ at = "create" /\ sample = 1 /\ outcome = "running" /\ values = <<>>
  /\ result = NoResult /\ armed = FALSE
  /\ job = [s \in Sample |-> Idle] /\ t0 = {}
  /\ container = [s \in Sample |-> "absent"] /\ mishap = FALSE

-----------------------------------------------------------------------------
\* The host (traffic_probe.py 298).

HostOnly == UNCHANGED <<stateVars, job, t0, container, mishap>>

Proceeds(place) == at' = place /\ UNCHANGED <<sample, outcome, values>>

\* The sample is over, and with it the calibration; the finally block remains.
Abandons(how) == at' = "drop" /\ outcome' = how /\ UNCHANGED <<sample, values>>

\* A DockerError means doing without; httpx.HTTPError, DockerUnavailable and the
\* poll's TimeoutError are not DockerErrors, and end the run.
Errors == {"unavailable", "raised"}

\* runtime.start, which deletes what it could not start.
CreateAuxiliary ==
  /\ at = "create"
  /\ \/ Proceeds("post") /\ container' = [container EXCEPT ![sample] = "booting"]
     \/ \E how \in Errors :
          at' = "over" /\ outcome' = how /\ UNCHANGED <<sample, values, container>>
  /\ UNCHANGED <<stateVars, job, t0, mishap>>

\* The handler forgets the last result, clears the event and starts a thread.
StartJob ==
  /\ at = "post" /\ Proceeds("arming")
  /\ result' = NoResult /\ armed' = FALSE
  /\ job' = [job EXCEPT ![sample].phase = "ready"]
  /\ UNCHANGED <<t0, container, mishap>>

\* The handler answers once the event is set, ...
Armed == at = "arming" /\ armed /\ Proceeds("t0") /\ HostOnly

\* ... or after ten seconds with a 500.
ArmingExpires == at = "arming" /\ ~armed /\ Abandons("unavailable") /\ HostOnly

\* A call to the sidecar has no answer, whether it was taken or not.
CallFails == at \in {"post", "arming", "poll"} /\ Abandons("raised") /\ HostOnly

ReachesT0 == at = "t0" /\ sample \in t0 /\ Proceeds("kill") /\ HostOnly

\* Docker refuses to kill what does not run.
Kill ==
  /\ at = "kill"
  /\ \/ /\ container[sample] \in {"booting", "listening"}
        /\ container' = [container EXCEPT ![sample] = "killed"]
        /\ Proceeds("wait") \/ (\E how \in Errors : Abandons(how))
     \/ /\ UNCHANGED container
        /\ \/ container[sample] = "exited" /\ Abandons("unavailable")
           \/ \E how \in Errors : Abandons(how)
  /\ UNCHANGED <<stateVars, job, t0, mishap>>

\* runtime.wait: whether it saw the exit or its timeout is not looked at.
WaitForExit ==
  /\ at = "wait"
  /\ Proceeds("poll") \/ (\E how \in Errors : Abandons(how))
  /\ HostOnly

\* Seeded fault: a result is taken for a number whatever it says.
IsAnything(r) == TRUE

\* result.get("error").
IsValue(r) == r.floor # "error"

Poll ==
  /\ at = "poll" /\ result # NoResult
  /\ IF IsValue(result)
     THEN at' = "drop" /\ values' = Append(values, result) /\ UNCHANGED <<sample, outcome>>
     ELSE Abandons("unavailable")
  /\ HostOnly

\* Seeded fault: the poll has no timeout.
PollsOn == at = "poll" /\ result = NoResult /\ UNCHANGED vars

\* fail_after raises a TimeoutError.
PollExpires == at = "poll" /\ result = NoResult /\ Abandons("raised") /\ HostOnly

\* What follows a sample.
Follows ==
  IF outcome # "running" THEN at' = "over" /\ UNCHANGED <<sample, outcome>>
  ELSE IF sample = Samples THEN at' = "over" /\ outcome' = "calibrated" /\ UNCHANGED sample
  ELSE at' = "create" /\ sample' = sample + 1 /\ UNCHANGED outcome

\* The finally block: DELETE, whose status is not looked at.  An exception of it
\* replaces what the sample came to.
Drop ==
  /\ at = "drop" /\ UNCHANGED values
  /\ \/ /\ container' = [container EXCEPT ![sample] = "removed"]
        /\ Follows /\ UNCHANGED mishap
     \/ /\ mishap' = TRUE /\ at' = "over" /\ outcome' = "raised" /\ UNCHANGED <<sample, container>>
  /\ UNCHANGED <<stateVars, job, t0>>

-----------------------------------------------------------------------------
\* The sidecar's jobs (sidecar_entry.py 325).

JobOnly == UNCHANGED <<hostVars, t0, container, mishap>>

\* Seeded fault: the event is set when the job starts.
ArmedAtOnce(s) ==
  /\ job[s].phase = "ready" /\ job' = [job EXCEPT ![s].phase = "t0"]
  /\ armed' = TRUE /\ UNCHANGED result /\ JobOnly

\* One connection has succeeded: the event is set.
Reaches(s) ==
  /\ job[s].phase = "ready" /\ Accepts(s)
  /\ job' = [job EXCEPT ![s].phase = "t0", ![s].reached = TRUE]
  /\ armed' = TRUE /\ UNCHANGED result /\ JobOnly

\* None has within five seconds: the exception is the result.
NeverReaches(s) ==
  /\ job[s].phase = "ready" /\ ~Accepts(s)
  /\ job' = [job EXCEPT ![s].phase = "over"]
  /\ armed' = TRUE /\ result' = [of |-> s, floor |-> "error"] /\ JobOnly

Begins(s) ==
  /\ job[s].phase = "t0" /\ s \in t0
  /\ job' = [job EXCEPT ![s].phase = "attempts"] /\ UNCHANGED stateVars /\ JobOnly

\* One attempt: accepted, refused or timed out.
Attempt(s) ==
  /\ job[s].phase = "attempts" /\ job[s].refused < Streak
  /\ \/ Accepts(s) /\ job' = [job EXCEPT ![s].accepted = TRUE, ![s].refused = 0]
     \/ ~Accepts(s) /\ job' = [job EXCEPT ![s].refused = @ + 1]
     \/ job' = [job EXCEPT ![s].refused = 0]
  /\ UNCHANGED stateVars /\ JobOnly

Writes(s) ==
  /\ job[s].phase = "attempts" /\ job[s].refused = Streak
  /\ job' = [job EXCEPT ![s].phase = "over"]
  /\ result' = [of |-> s, floor |-> IF job[s].accepted THEN "measured" ELSE "zero"]
  /\ UNCHANGED armed /\ JobOnly

\* The containers and the clock.
Changes(s) ==
  /\ \/ container[s] = "booting" /\ container' = [container EXCEPT ![s] = "listening"]
     \/ container[s] \in {"booting", "listening"} /\ container' = [container EXCEPT ![s] = "exited"]
     \/ container[s] = "killed" /\ container' = [container EXCEPT ![s] = "dead"]
  /\ UNCHANGED <<hostVars, stateVars, job, t0, mishap>>

\* T0 is fixed 300 ms ahead, before the sidecar is asked to arm.
PassesT0(s) ==
  /\ at \notin {"create", "over"} /\ s = sample /\ s \notin t0 /\ t0' = t0 \cup {s}
  /\ UNCHANGED <<hostVars, stateVars, job, container, mishap>>

Over == at = "over" /\ UNCHANGED vars

Host == \/ CreateAuxiliary \/ StartJob \/ Armed \/ ArmingExpires \/ ReachesT0 \/ Kill
        \/ WaitForExit \/ Poll \/ PollExpires \/ Drop
Works(s) == Reaches(s) \/ NeverReaches(s) \/ Begins(s) \/ Attempt(s) \/ Writes(s)

Next == \/ Host \/ CallFails \/ Over
        \/ \E s \in Sample : Works(s) \/ Changes(s) \/ PassesT0(s)

Spec == Init /\ [][Next]_vars

\* The host's code runs and its timeouts expire; T0 passes.
FairSpec ==
  /\ Spec
  /\ WF_vars(Host) /\ \A s \in Sample : WF_vars(PassesT0(s))

-----------------------------------------------------------------------------
\* What a calibration promises.

\* Whatever is counted is what the job of its own sample saw of its own container,
\* which it had reached, and which the host then killed while it ran: never the
\* result of an earlier sample, the zero of a listener that was not up yet, or the
\* end of a container that exited by itself (sidecar_entry.py 331).
ValuesAreOwn ==
  \A i \in 1..Len(values) :
    /\ values[i].of = i /\ values[i].floor # "error"
    /\ job[i].reached /\ container[i] \in {"killed", "dead", "removed"}

\* A calibration has all its samples, and one that was given up on is none
\* (traffic_probe.py 328, 331).
AllOrNothing == outcome = "calibrated" => Len(values) = Samples

\* The host kills only what the sidecar has reached, or has said it could not: an
\* event that is set is the present job's, not one of a job left behind.
KillIsAwaited ==
  at \in {"kill", "wait", "poll"} => job[sample].reached \/ result = [of |-> sample, floor |-> "error"]

Runs(s) == job[s].phase \in {"ready", "t0", "attempts"}

\* No job is started while one runs that would write where it writes, or set the
\* event it sets: STATE has room for one (sidecar_entry.py 512).
OneJobAtATime == \A s, t \in Sample : Runs(s) /\ Runs(t) => s = t

\* No auxiliary container outlives the calibration unless its delete failed
\* (traffic_probe.py 333).
NoneIsLeft ==
  at = "over" /\ ~mishap => \A s \in Sample : container[s] \in {"absent", "removed"}

\* The calibration comes to an end, even if its job never does.
CalibrationEnds == <>(at = "over")

=============================================================================
