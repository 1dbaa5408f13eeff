---------------------------- MODULE ShutdownProofs ----------------------------
(***************************************************************************)
(* Theorems about Shutdown, for every value of its constants: any set of   *)
(* requests, any budget, any sigterm_after, any lag of the daemon.  First  *)
(* the timestamps and the tasks, then what an accept stop rests on and the *)
(* silence PRESTOP asks for, last that the experiment implements Grace:    *)
(* one SIGTERM, a full grace period, a SIGKILL only then and only without  *)
(* an exit, a measurement only of an exit after the SIGTERM.               *)
(***************************************************************************)
EXTENDS Shutdown, SequenceTheorems, TLAPS

\* The tail of report.accept_attempts stays a short sequence of attempts.
LEMMA AppendedType ==
  ASSUME RefusedStreak \in Nat \ {0}, fresh \in BOOLEAN,
         attempts \in Seq(Attempt), Len(attempts) <= RefusedStreak,
         NEW refused \in BOOLEAN
  PROVE  Appended(refused) \in Seq(Attempt) /\ Len(Appended(refused)) <= RefusedStreak
<1> DEFINE a == [fresh |-> fresh, refused |-> refused]
<1>1. a \in Attempt
  BY DEF Attempt
<1>2. CASE Len(attempts) < RefusedStreak
  <2>1. Append(attempts, a) \in Seq(Attempt) /\ Len(Append(attempts, a)) = Len(attempts) + 1
    BY <1>1, AppendProperties
  <2> QED BY <1>2, <2>1, LenProperties DEF Appended
<1>3. CASE ~(Len(attempts) < RefusedStreak)
  <2>1. attempts # <<>> /\ Len(attempts) = RefusedStreak
    BY <1>3, LenProperties, EmptySeq
  <2>2. Tail(attempts) \in Seq(Attempt) /\ Len(Tail(attempts)) = Len(attempts) - 1
    BY <2>1, HeadTailProperties
  <2>3. /\ Append(Tail(attempts), a) \in Seq(Attempt)
        /\ Len(Append(Tail(attempts), a)) = Len(Tail(attempts)) + 1
    BY <1>1, <2>2, AppendProperties
  <2> QED BY <1>3, <2>1, <2>2, <2>3 DEF Appended
<1> QED BY <1>2, <1>3

USE ShutdownAssumption

\* A run has one plan, whose delay is a whole number.
LEMMA DelayType ==
  ASSUME PhaseType
  PROVE  plan.delay \in Nat /\ SignalDelay \in 0..plan.delay
<1>1. plan \in [prestop: BOOLEAN, delay: Nat]
  BY DEF PhaseType
<1> QED BY <1>1 DEF SignalDelay

LEMMA PlanStays ==
  ASSUME [Next]_vars
  PROVE  plan' = plan /\ SignalDelay' = SignalDelay
<1> USE DEF Raise
<1>1. CASE Waiter \/ Sender
  BY <1>1 DEF Waiter, WaiterSeesExit, WaiterTimesOut, WaiterFails,
              Sender, SenderSleeps, SenderSignals, SigtermFails, SenderAcked, SignalDelay
<1>2. CASE Accept \/ Readiness
  BY <1>2 DEF Accept, AcceptBegins, AcceptLeaves, AcceptEnds,
              Readiness, ReadinessBegins, ReadinessAnswered, ReadinessResumes, SignalDelay
<1>3. CASE Enforcer \/ \E r \in Request : RequestStep(r)
  BY <1>3 DEF Enforcer, EnforcerStarts, EnforcerSeesExit, EnforcerKills, EnforcerPosted,
              EnforcerFails, RequestStep, RequestSent, RequestEnds, SignalDelay
<1>4. CASE Body \/ Daemon
  BY <1>4 DEF Body, TasksJoin, Returns, Daemon, DaemonTakesSigterm, DaemonReports, SignalDelay
<1>5. CASE Environment \/ Tick \/ Over \/ UNCHANGED vars
  BY <1>5 DEF Environment, DieFrameArrives, TargetChanges, TargetExits, Tick, Over, vars,
              SignalDelay
<1> QED BY <1>1, <1>2, <1>3, <1>4, <1>5 DEF Next

\* The type invariant alone is not inductive: that refused_streak stays within
\* its bound rests on the loop having returned when the bound was reached.
TypeInv == TypeOK /\ (task.accept # "done" => streak < RefusedStreak)

\* Every reachable state is one the report and the tasks can be in.
THEOREM TypeCorrect == Spec => []TypeOK
<1>1. Init => TypeInv
  <2> SUFFICES ASSUME Init PROVE TypeInv
    OBVIOUS
  <2>1. PhaseType /\ TaskType /\ RequestType /\ fired \subseteq Event
    BY DEF Init, PhaseType, TaskType, RequestType
  <2>2. TimerType
    BY DEF Init, TimerType, ExitWait
  <2>3. AcceptType
    <3>1. attempts \in Seq(Attempt) /\ Len(attempts) = 0
      BY EmptySeq DEF Init
    <3>2. streak \in 0..RefusedStreak /\ Len(attempts) <= RefusedStreak
      BY <3>1 DEF Init
    <3>3. fresh \in BOOLEAN /\ streakAt \subseteq Stamp
      BY DEF Init
    <3> QED BY <3>1, <3>2, <3>3 DEF AcceptType
  <2>4. ReportType /\ TargetType
    BY DEF Init, ReportType, TargetType, Stamp, Probe
  <2>5. streak < RefusedStreak
    BY DEF Init
  <2> QED BY <2>1, <2>2, <2>3, <2>4, <2>5 DEF TypeOK, TypeInv
<1>2. TypeInv /\ [Next]_vars => TypeInv'
  <2> SUFFICES ASSUME TypeInv, [Next]_vars PROVE TypeInv'
    OBVIOUS
  <2> USE DEF TypeInv, TypeOK, Goto, acceptVars, stampVars, probeVars
  <2>0. plan' = plan /\ plan.delay \in Nat /\ SignalDelay \in 0..plan.delay
    BY PlanStays, DelayType
  <2>1. CASE Waiter
    <3>1. CASE WaiterSeesExit
      <4> USE <3>1 DEF WaiterSeesExit
      <4>1. TaskType'
        BY DEF TaskType
      <4>2. (fired \subseteq Event)'
        BY DEF Event
      <4>3. ReportType'
        BY DEF ReportType, Stamp, Probe, Take
      <4> QED BY <4>1, <4>2, <4>3 DEF PhaseType, RequestType, TimerType, AcceptType, TargetType
    <3>2. CASE WaiterTimesOut
      <4> USE <3>2 DEF WaiterTimesOut
      <4>1. PhaseType'
        BY DEF PhaseType, Raise
      <4> QED BY <4>1 DEF TaskType, RequestType, TimerType, AcceptType, ReportType, TargetType, Raise
    <3>3. CASE WaiterFails
      <4> USE <3>3 DEF WaiterFails
      <4>1. PhaseType'
        BY DEF PhaseType, Raise
      <4> QED BY <4>1 DEF TaskType, RequestType, TimerType, AcceptType, ReportType, TargetType, Raise
    <3> QED BY <2>1, <3>1, <3>2, <3>3 DEF Waiter
  <2>2. CASE Sender
    <3>1. CASE SenderSleeps
      <4> USE <3>1 DEF SenderSleeps
      <4>1. TaskType'
        BY DEF TaskType
      <4>2. TimerType'
        BY <2>0 DEF TimerType
      <4> QED BY <4>1, <4>2 DEF PhaseType, RequestType, AcceptType, ReportType, TargetType
    <3>2. CASE SenderSignals
      <4> USE <3>2 DEF SenderSignals
      <4>1. TaskType'
        BY DEF TaskType
      <4>2. (fired \subseteq Event)'
        BY DEF Event
      <4>3. ReportType'
        BY DEF ReportType, Stamp, Probe, Take
      <4> QED BY <4>1, <4>2, <4>3 DEF PhaseType, RequestType, TimerType, AcceptType, TargetType
    <3>3. CASE SigtermFails
      <4> USE <3>3 DEF SigtermFails
      <4>1. PhaseType'
        BY DEF PhaseType, Raise
      <4> QED BY <4>1 DEF TaskType, RequestType, TimerType, AcceptType, ReportType, TargetType, Raise
    <3>4. CASE SenderAcked
      <4> USE <3>4 DEF SenderAcked
      <4>1. TaskType'
        BY DEF TaskType
      <4>2. (fired \subseteq Event)'
        BY DEF Event
      <4> QED BY <4>1, <4>2 DEF PhaseType, RequestType, TimerType, AcceptType, ReportType, TargetType
    <3> QED BY <2>2, <3>1, <3>2, <3>3, <3>4 DEF Sender
  <2>3. CASE Accept
    <3>1. CASE AcceptBegins
      <4> USE <3>1 DEF AcceptBegins
      <4>1. TaskType'
        BY DEF TaskType
      <4>2. (fired \subseteq Event)'
        BY DEF Event
      <4>3. AcceptType'
        BY DEF AcceptType
      <4>4. streak' < RefusedStreak
        BY DEF At
      <4> QED BY <4>1, <4>2, <4>3, <4>4 DEF PhaseType, RequestType, TimerType, ReportType, TargetType
    <3>2. CASE AcceptLeaves
      <4> USE <3>2 DEF AcceptLeaves
      <4>1. TaskType'
        BY DEF TaskType
      <4>2. (fired \subseteq Event)'
        BY DEF Event
      <4> QED BY <4>1, <4>2 DEF PhaseType, RequestType, TimerType, AcceptType, ReportType, TargetType
    <3>3. ASSUME NEW refused \in BOOLEAN, AcceptEnds(refused) PROVE TypeInv'
      <4> USE <3>3 DEF AcceptEnds
      <4>1. TaskType'
        BY DEF TaskType
      <4>2. AcceptType'
        <5>1. attempts' \in Seq(Attempt) /\ Len(attempts') <= RefusedStreak
          BY AppendedType DEF AcceptType
        <5>2. streak' \in 0..RefusedStreak
          <6>1. CASE Counts(refused)
            BY <6>1 DEF AcceptType, TaskType, At
          <6>2. CASE ~Counts(refused)
            BY <6>2 DEF AcceptType
          <6> QED BY <6>1, <6>2
        <5>3. streakAt' \subseteq Stamp
          BY DEF AcceptType, ReportType
        <5> QED BY <5>1, <5>2, <5>3 DEF AcceptType
      <4>3. ReportType'
        <5>1. stamped' \subseteq Stamp /\ earlier' \in [Stamp -> SUBSET Stamp]
          <6> DEFINE at == IF ~Counts(refused) THEN {}
                           ELSE IF streak = 0 THEN stamped ELSE streakAt
          <6>1. at \in SUBSET Stamp
            BY DEF AcceptType, ReportType
          <6>2. "accept_stop" \in Stamp
            BY DEF Stamp
          <6>3. \/ UNCHANGED <<stamped, earlier>>
                \/ /\ stamped' = stamped \cup {"accept_stop"}
                   /\ earlier' = [earlier EXCEPT !["accept_stop"] = at]
            OBVIOUS
          <6> HIDE DEF at
          <6> QED BY <6>1, <6>2, <6>3 DEF ReportType
        <5> QED BY <5>1 DEF ReportType
      <4>4. task'.accept # "done" => streak' < RefusedStreak
        BY DEF TaskType, AcceptType, StreakIsTerminal
      <4> QED BY <4>1, <4>2, <4>3, <4>4 DEF PhaseType, RequestType, TimerType, TargetType
    <3> QED BY <2>3, <3>1, <3>2, <3>3 DEF Accept
  <2>4. CASE Readiness
    <3>1. CASE ReadinessBegins
      <4> USE <3>1 DEF ReadinessBegins
      <4>1. TaskType'
        BY DEF TaskType
      <4> QED BY <4>1 DEF PhaseType, RequestType, TimerType, AcceptType, ReportType, TargetType
    <3>2. CASE ReadinessAnswered
      <4> USE <3>2 DEF ReadinessAnswered
      <4>1. ReportType'
        BY DEF ReportType, Stamp, Probe
      <4> QED BY <4>1 DEF PhaseType, TaskType, RequestType, TimerType, AcceptType, TargetType
    <3>3. CASE ReadinessResumes
      <4> USE <3>3 DEF ReadinessResumes
      <4>1. TaskType'
        BY DEF TaskType
      <4>2. ReportType'
        BY DEF ReportType, Stamp, Probe, Take
      <4> QED BY <4>1, <4>2 DEF PhaseType, RequestType, TimerType, AcceptType, TargetType
    <3> QED BY <2>4, <3>1, <3>2, <3>3 DEF Readiness
  <2>5. CASE Enforcer
    <3>1. CASE EnforcerStarts
      <4> USE <3>1 DEF EnforcerStarts
      <4>1. TaskType'
        BY DEF TaskType
      <4>2. TimerType'
        BY DEF TimerType
      <4> QED BY <4>1, <4>2 DEF PhaseType, RequestType, AcceptType, ReportType, TargetType
    <3>2. CASE EnforcerSeesExit
      <4> USE <3>2 DEF EnforcerSeesExit
      <4>1. TaskType'
        BY DEF TaskType
      <4> QED BY <4>1 DEF PhaseType, RequestType, TimerType, AcceptType, ReportType, TargetType
    <3>3. CASE EnforcerKills
      <4> USE <3>3 DEF EnforcerKills
      <4>1. TaskType'
        BY DEF TaskType
      <4>2. ReportType'
        BY DEF ReportType, Stamp, Probe, Take
      <4> QED BY <4>1, <4>2 DEF PhaseType, RequestType, TimerType, AcceptType, TargetType
    <3>4. CASE EnforcerPosted
      <4> USE <3>4 DEF EnforcerPosted
      <4>1. TaskType'
        BY DEF TaskType
      <4>2. TargetType'
        BY DEF TargetType, Dies
      <4>3. TimerType'
        BY DEF TimerType, Dies
      <4> QED BY <4>1, <4>2, <4>3 DEF PhaseType, RequestType, AcceptType, ReportType
    <3>5. CASE EnforcerFails
      <4> USE <3>5 DEF EnforcerFails
      <4>1. PhaseType'
        BY DEF PhaseType, Raise
      <4> QED
        BY <4>1 DEF TaskType, RequestType, TimerType, AcceptType, ReportType, TargetType, Raise
    <3> QED BY <2>5, <3>1, <3>2, <3>3, <3>4, <3>5 DEF Enforcer
  <2>6. ASSUME NEW r \in Request, RequestStep(r) PROVE TypeInv'
    <3>1. CASE RequestSent(r)
      <4> USE <3>1 DEF RequestSent
      <4>1. RequestType'
        BY DEF RequestType
      <4>2. (fired \subseteq Event)'
        BY DEF Event
      <4> QED BY <4>1, <4>2 DEF PhaseType, TaskType, TimerType, AcceptType, ReportType, TargetType
    <3>2. CASE RequestEnds(r)
      <4> USE <3>2 DEF RequestEnds
      <4>1. RequestType'
        BY DEF RequestType
      <4> QED BY <4>1 DEF PhaseType, TaskType, TimerType, AcceptType, ReportType, TargetType
    <3> QED BY <2>6, <3>1, <3>2 DEF RequestStep
  <2>7. CASE Body
    <3>1. CASE TasksJoin
      <4> USE <3>1 DEF TasksJoin
      <4>1. PhaseType'
        BY DEF PhaseType, Raise
      <4>2. TimerType'
        BY DEF TimerType
      <4> QED BY <4>1, <4>2 DEF TaskType, RequestType, AcceptType, ReportType, TargetType
    <3>2. CASE Returns
      <4> USE <3>2 DEF Returns
      <4>1. PhaseType'
        BY DEF PhaseType, Raise
      <4> QED BY <4>1 DEF TaskType, RequestType, TimerType, AcceptType, ReportType, TargetType
    <3> QED BY <2>7, <3>1, <3>2 DEF Body
  <2>8. CASE Daemon
    <3>1. CASE DaemonTakesSigterm
      <4> USE <3>1 DEF DaemonTakesSigterm
      <4>1. TaskType'
        BY DEF TaskType
      <4>2. TargetType'
        BY DEF TargetType
      <4> QED BY <4>1, <4>2 DEF PhaseType, RequestType, TimerType, AcceptType, ReportType
    <3>2. CASE DaemonReports
      <4> USE <3>2 DEF DaemonReports
      <4>1. TargetType'
        BY DEF TargetType
      <4> QED BY <4>1 DEF PhaseType, TaskType, RequestType, TimerType, AcceptType, ReportType
    <3> QED BY <2>8, <3>1, <3>2 DEF Daemon
  <2>9. CASE Environment
    <3>1. CASE DieFrameArrives
      <4> USE <3>1 DEF DieFrameArrives
      <4>1. ReportType'
        BY DEF ReportType, Stamp, Probe
      <4> QED BY <4>1 DEF PhaseType, TaskType, RequestType, TimerType, AcceptType, TargetType
    <3>2. CASE TargetChanges
      <4> USE <3>2 DEF TargetChanges
      <4>1. TargetType'
        BY DEF TargetType
      <4> QED BY <4>1 DEF PhaseType, TaskType, RequestType, TimerType, AcceptType, ReportType
    <3>3. CASE TargetExits
      <4> USE <3>3 DEF TargetExits
      <4>1. TargetType'
        BY DEF TargetType, Dies
      <4>2. TimerType'
        BY DEF TimerType, Dies
      <4> QED BY <4>1, <4>2 DEF PhaseType, TaskType, RequestType, AcceptType, ReportType
    <3> QED BY <2>9, <3>1, <3>2, <3>3 DEF Environment

  <2>10. CASE Tick
    <3>1. TimerType'
      BY <2>0, <2>10 DEF Tick, Down, TimerType
    <3> QED BY <2>10, <3>1 DEF Tick, PhaseType, TaskType, RequestType, AcceptType, ReportType, TargetType
  <2>11. CASE UNCHANGED vars
    BY <2>11 DEF vars, PhaseType, TaskType, RequestType, TimerType, AcceptType, ReportType, TargetType
  <2> QED
    BY <2>1, <2>2, <2>3, <2>4, <2>5, <2>6, <2>7, <2>8, <2>9, <2>10, <2>11
    DEF Next, Over
<1>3. TypeInv => TypeOK
  BY DEF TypeInv
<1> QED
  BY <1>1, <1>2, <1>3, PTL DEF Spec

-----------------------------------------------------------------------------
(***************************************************************************)
(* The safety of the experiment.  None of the properties is inductive: each *)
(* rests on where the tasks are when an event is set or a timestamp taken.  *)
(***************************************************************************)

\* T0 is stamped by the sender; what waits for it starts after it.
SignalOrder ==
  /\ "sigterm" \in stamped <=> task.sender \in {"posting", "acked", "done"}
  /\ "sigterm_sent" \in fired => task.sender = "done"
  /\ task.enforcer # "await_sent" => "sigterm_sent" \in fired
  /\ task.readiness # "await_sent" => "sigterm_sent" \in fired

\* The exit is stamped by the waiter, after the daemon reported it.  If that
\* came before T0 the SIGTERM call will fail: the daemon knows already.
ExitOrder ==
  /\ "exited" \in fired <=> "exit" \in stamped
  /\ task.waiter = "waiting" <=> "exit" \notin stamped
  /\ "exit" \in stamped => target.reported
  /\ "exit" \in stamped /\ "sigterm" \notin earlier["exit"] =>
       task.sender \notin {"acked", "done"}

\* What is left of the grace period and what has gone by make up all of it.
GraceAccount ==
  task.enforcer = "grace" => sinceT0 + left.grace >= HardWait

\* The sender passes the gate only behind a request on the wire.
RequestGate ==
  /\ task.sender # "arming" /\ Request # {} => "inflight_request_armed" \in fired
  /\ "inflight_request_armed" \in fired =>
       \E r \in Request : requests[r] \in {"sent", "completed", "broken"}

\* Past the task group every task has ended and the exit is known.
Joined ==
  phase \in {"die_wait", "returned"} =>
    task.sender = "done" /\ "exited" \in fired

\* What every step keeps: the parts above with the two properties that are
\* inductive relative to them.
Inv == /\ SignalOrder /\ ExitOrder /\ GraceAccount /\ RequestGate /\ Joined
       /\ KillAfterGrace /\ DropInsideShutdown

\* The strengthening is invariant: every step of every task keeps all of it.
THEOREM ShutdownSafe == Spec => []Inv
<1>1. Init => Inv
  BY DEF Init, Inv, SignalOrder, ExitOrder, GraceAccount, RequestGate, Joined,
         KillAfterGrace, DropInsideShutdown
<1>2. TypeOK /\ Inv /\ [Next]_vars => Inv'
  <2> SUFFICES ASSUME TypeOK, Inv, [Next]_vars PROVE Inv'
    OBVIOUS
  <2> USE DEF TypeOK, Inv, Goto, Running, acceptVars, stampVars, probeVars
  <2>1. CASE Waiter
    <3>1. CASE WaiterSeesExit
      <4> USE <3>1 DEF WaiterSeesExit
      <4>1. SignalOrder'
        BY DEF SignalOrder, TaskType, Take, Stamp, At
      <4>2. ExitOrder'
        BY DEF ExitOrder, TaskType, ReportType, TargetType, Take, Stamp, SignalOrder, At
      <4>3. GraceAccount'
        BY DEF GraceAccount, TaskType, TimerType, SignalOrder, At
      <4>4. RequestGate'
        BY DEF RequestGate, TaskType, RequestType, At
      <4>5. Joined'
        BY DEF Joined, TaskType, At
      <4>6. KillAfterGrace'
        BY DEF KillAfterGrace, ReportType, TimerType, Take, Stamp, SignalOrder, ExitOrder, GraceAccount, At
      <4>7. DropInsideShutdown'
        BY DEF DropInsideShutdown, ReportType, Take, Stamp, SignalOrder, ExitOrder, At
      <4> QED BY <4>1, <4>2, <4>3, <4>4, <4>5, <4>6, <4>7
    <3>2. CASE WaiterTimesOut
      BY <3>2 DEF WaiterTimesOut, Raise, SignalOrder, ExitOrder, GraceAccount, RequestGate, Joined, KillAfterGrace, DropInsideShutdown
    <3>3. CASE WaiterFails
      BY <3>3 DEF WaiterFails, Raise, SignalOrder, ExitOrder, GraceAccount, RequestGate, Joined, KillAfterGrace, DropInsideShutdown
    <3> QED BY <2>1, <3>1, <3>2, <3>3 DEF Waiter
  <2>2. CASE Sender
    <3>1. CASE SenderSleeps
      <4> USE <3>1 DEF SenderSleeps, SignalDelay
      <4>1. SignalOrder'
        BY DEF SignalOrder, TaskType, At
      <4>2. ExitOrder'
        BY DEF ExitOrder, TaskType, ReportType, TargetType, SignalOrder, At
      <4>3. GraceAccount'
        BY DEF GraceAccount, TaskType, TimerType, SignalOrder, At
      <4>4. RequestGate'
        BY DEF SenderMayStart, RequestGate, TaskType, RequestType, At
      <4>5. Joined'
        BY DEF Joined, TaskType, At
      <4> QED BY <4>1, <4>2, <4>3, <4>4, <4>5 DEF KillAfterGrace, DropInsideShutdown
    <3>2. CASE SenderSignals
      <4> USE <3>2 DEF SenderSignals
      <4>1. SignalOrder'
        BY DEF SignalOrder, TaskType, Take, Stamp, At
      <4>2. ExitOrder'
        BY DEF ExitOrder, TaskType, ReportType, TargetType, Take, Stamp, SignalOrder, At
      <4>3. GraceAccount'
        BY DEF GraceAccount, TaskType, TimerType, SignalOrder, At
      <4>4. RequestGate'
        BY DEF RequestGate, TaskType, RequestType, At
      <4>5. Joined'
        BY DEF Joined, TaskType, At
      <4>6. KillAfterGrace'
        BY DEF KillAfterGrace, ReportType, TimerType, Take, Stamp, SignalOrder, ExitOrder, GraceAccount, At
      <4>7. DropInsideShutdown'
        BY DEF DropInsideShutdown, ReportType, Take, Stamp, SignalOrder, ExitOrder, At
      <4> QED BY <4>1, <4>2, <4>3, <4>4, <4>5, <4>6, <4>7
    <3>3. CASE SigtermFails
      BY <3>3 DEF SigtermFails, Raise, SignalOrder, ExitOrder, GraceAccount, RequestGate, Joined, KillAfterGrace, DropInsideShutdown
    <3>4. CASE SenderAcked
      <4> USE <3>4 DEF SenderAcked
      <4>1. SignalOrder'
        BY DEF SignalOrder, TaskType, At
      <4>2. ExitOrder'
        BY DEF ExitOrder, TaskType, ReportType, TargetType, SignalOrder, At
      <4>3. GraceAccount'
        BY DEF GraceAccount, TaskType, TimerType, SignalOrder, At
      <4>4. RequestGate'
        BY DEF RequestGate, TaskType, RequestType, At
      <4>5. Joined'
        BY DEF Joined, TaskType, At
      <4> QED BY <4>1, <4>2, <4>3, <4>4, <4>5 DEF KillAfterGrace, DropInsideShutdown
    <3> QED BY <2>2, <3>1, <3>2, <3>3, <3>4 DEF Sender
  <2>3. CASE Accept
    <3>1. CASE AcceptBegins
      <4> USE <3>1 DEF AcceptBegins
      <4>1. SignalOrder'
        BY DEF SignalOrder, TaskType, At
      <4>2. ExitOrder'
        BY DEF ExitOrder, TaskType, ReportType, TargetType, SignalOrder, At
      <4>3. GraceAccount'
        BY DEF GraceAccount, TaskType, TimerType, SignalOrder, At
      <4>4. RequestGate'
        BY DEF RequestGate, TaskType, RequestType, At
      <4>5. Joined'
        BY DEF Joined, TaskType, At
      <4> QED BY <4>1, <4>2, <4>3, <4>4, <4>5 DEF KillAfterGrace, DropInsideShutdown
    <3>2. CASE AcceptLeaves
      <4> USE <3>2 DEF AcceptLeaves
      <4>1. SignalOrder'
        BY DEF SignalOrder, TaskType, At
      <4>2. ExitOrder'
        BY DEF ExitOrder, TaskType, ReportType, TargetType, SignalOrder, At
      <4>3. GraceAccount'
        BY DEF GraceAccount, TaskType, TimerType, SignalOrder, At
      <4>4. RequestGate'
        BY DEF RequestGate, TaskType, RequestType, At
      <4>5. Joined'
        BY DEF Joined, TaskType, At
      <4> QED BY <4>1, <4>2, <4>3, <4>4, <4>5 DEF KillAfterGrace, DropInsideShutdown
    <3>3. ASSUME NEW refused \in BOOLEAN, AcceptEnds(refused) PROVE Inv'
      <4> USE <3>3 DEF AcceptEnds
      <4>1. SignalOrder'
        BY DEF SignalOrder, TaskType, Stamp, At
      <4>2. ExitOrder'
        BY DEF ExitOrder, TaskType, ReportType, TargetType, Stamp, SignalOrder, At
      <4>3. GraceAccount'
        BY DEF GraceAccount, TaskType, TimerType, SignalOrder, At
      <4>4. RequestGate'
        BY DEF RequestGate, TaskType, RequestType, At
      <4>5. Joined'
        BY DEF Joined, TaskType, At
      <4>6. KillAfterGrace'
        BY DEF KillAfterGrace, ReportType, TimerType, Stamp, SignalOrder, ExitOrder, GraceAccount, At
      <4>7. DropInsideShutdown'
        BY DEF DropInsideShutdown, ReportType, Stamp, SignalOrder, ExitOrder, At
      <4> QED BY <4>1, <4>2, <4>3, <4>4, <4>5, <4>6, <4>7
    <3> QED BY <2>3, <3>1, <3>2, <3>3 DEF Accept
  <2>4. CASE Readiness
    <3>1. CASE ReadinessBegins
      <4> USE <3>1 DEF ReadinessBegins
      <4>1. SignalOrder'
        BY DEF SignalOrder, TaskType, At
      <4>2. ExitOrder'
        BY DEF ExitOrder, TaskType, ReportType, TargetType, SignalOrder, At
      <4>3. GraceAccount'
        BY DEF GraceAccount, TaskType, TimerType, SignalOrder, At
      <4>4. RequestGate'
        BY DEF RequestGate, TaskType, RequestType, At
      <4>5. Joined'
        BY DEF Joined, TaskType, At
      <4> QED BY <4>1, <4>2, <4>3, <4>4, <4>5 DEF KillAfterGrace, DropInsideShutdown
    <3>2. CASE ReadinessAnswered
      BY <3>2 DEF ReadinessAnswered, SignalOrder, ExitOrder, GraceAccount, RequestGate, Joined, KillAfterGrace, DropInsideShutdown
    <3>3. CASE ReadinessResumes
      <4> USE <3>3 DEF ReadinessResumes
      <4>1. SignalOrder'
        BY DEF SignalOrder, TaskType, Take, Stamp, At
      <4>2. ExitOrder'
        BY DEF ExitOrder, TaskType, ReportType, TargetType, Take, Stamp, SignalOrder, At
      <4>3. GraceAccount'
        BY DEF GraceAccount, TaskType, TimerType, SignalOrder, At
      <4>4. RequestGate'
        BY DEF RequestGate, TaskType, RequestType, At
      <4>5. Joined'
        BY DEF Joined, TaskType, At
      <4>6. KillAfterGrace'
        BY DEF KillAfterGrace, ReportType, TimerType, Take, Stamp, SignalOrder, ExitOrder, GraceAccount, At
      <4>7. DropInsideShutdown'
        BY DEF IsDrop, Probe, DropInsideShutdown, ReportType, Take, Stamp, SignalOrder, ExitOrder, At
      <4> QED BY <4>1, <4>2, <4>3, <4>4, <4>5, <4>6, <4>7
    <3> QED BY <2>4, <3>1, <3>2, <3>3 DEF Readiness
  <2>5. CASE Enforcer
    <3>1. CASE EnforcerStarts
      <4> USE <3>1 DEF EnforcerStarts
      <4>1. SignalOrder'
        BY DEF SignalOrder, TaskType, At
      <4>2. ExitOrder'
        BY DEF ExitOrder, TaskType, ReportType, TargetType, SignalOrder, At
      <4>3. GraceAccount'
        BY DEF GraceAccount, TaskType, TimerType, SignalOrder, At
      <4>4. RequestGate'
        BY DEF RequestGate, TaskType, RequestType, At
      <4>5. Joined'
        BY DEF Joined, TaskType, At
      <4> QED BY <4>1, <4>2, <4>3, <4>4, <4>5 DEF KillAfterGrace, DropInsideShutdown
    <3>2. CASE EnforcerSeesExit
      <4> USE <3>2 DEF EnforcerSeesExit
      <4>1. SignalOrder'
        BY DEF SignalOrder, TaskType, At
      <4>2. ExitOrder'
        BY DEF ExitOrder, TaskType, ReportType, TargetType, SignalOrder, At
      <4>3. GraceAccount'
        BY DEF GraceAccount, TaskType, TimerType, SignalOrder, At
      <4>4. RequestGate'
        BY DEF RequestGate, TaskType, RequestType, At
      <4>5. Joined'
        BY DEF Joined, TaskType, At
      <4> QED BY <4>1, <4>2, <4>3, <4>4, <4>5 DEF KillAfterGrace, DropInsideShutdown
    <3>3. CASE EnforcerKills
      <4> USE <3>3 DEF EnforcerKills
      <4>1. SignalOrder'
        BY DEF SignalOrder, TaskType, Take, Stamp, At
      <4>2. ExitOrder'
        BY DEF ExitOrder, TaskType, ReportType, TargetType, Take, Stamp, SignalOrder, At
      <4>3. GraceAccount'
        BY DEF GraceAccount, TaskType, TimerType, SignalOrder, At
      <4>4. RequestGate'
        BY DEF RequestGate, TaskType, RequestType, At
      <4>5. Joined'
        BY DEF Joined, TaskType, At
      <4>6. KillAfterGrace'
        BY DEF GraceIsOver, TaskType, KillAfterGrace, ReportType, TimerType, Take, Stamp, SignalOrder, ExitOrder, GraceAccount, At
      <4>7. DropInsideShutdown'
        BY DEF DropInsideShutdown, ReportType, Take, Stamp, SignalOrder, ExitOrder, At
      <4> QED BY <4>1, <4>2, <4>3, <4>4, <4>5, <4>6, <4>7
    <3>4. CASE EnforcerPosted
      <4> USE <3>4 DEF EnforcerPosted
      <4>1. SignalOrder'
        BY DEF SignalOrder, TaskType, Dies, At
      <4>2. ExitOrder'
        BY DEF ExitOrder, TaskType, ReportType, TargetType, Dies, SignalOrder, At
      <4>3. GraceAccount'
        BY DEF GraceAccount, TaskType, TimerType, Dies, SignalOrder, At
      <4>4. RequestGate'
        BY DEF RequestGate, TaskType, RequestType, Dies, At
      <4>5. Joined'
        BY DEF Joined, TaskType, Dies, At
      <4> QED BY <4>1, <4>2, <4>3, <4>4, <4>5 DEF KillAfterGrace, DropInsideShutdown
    <3>5. CASE EnforcerFails
      BY <3>5 DEF EnforcerFails, Raise, SignalOrder, ExitOrder, GraceAccount, RequestGate,
                  Joined, KillAfterGrace, DropInsideShutdown
    <3> QED BY <2>5, <3>1, <3>2, <3>3, <3>4, <3>5 DEF Enforcer
  <2>6. ASSUME NEW r \in Request, RequestStep(r) PROVE Inv'
    <3>1. CASE RequestSent(r)
      <4> USE <3>1 DEF RequestSent
      <4>1. SignalOrder'
        BY DEF SignalOrder, TaskType, At
      <4>2. ExitOrder'
        BY DEF ExitOrder, TaskType, ReportType, TargetType, SignalOrder, At
      <4>3. RequestGate'
        BY DEF RequestGate, TaskType, RequestType, At
      <4>4. Joined'
        BY DEF Joined, TaskType, At
      <4> QED BY <4>1, <4>2, <4>3, <4>4 DEF GraceAccount, KillAfterGrace, DropInsideShutdown
    <3>2. CASE RequestEnds(r)
      <4> USE <3>2 DEF RequestEnds
      <4>1. RequestGate'
        BY DEF RequestGate, TaskType, RequestType, At
      <4> QED BY <4>1 DEF SignalOrder, ExitOrder, GraceAccount, Joined, KillAfterGrace, DropInsideShutdown
    <3> QED BY <2>6, <3>1, <3>2 DEF RequestStep
  <2>7. CASE Body
    <3>1. CASE TasksJoin
      <4> USE <3>1 DEF TasksJoin
      <4>1. GraceAccount'
        BY DEF GraceAccount, TaskType, TimerType, SignalOrder, At
      <4>2. Joined'
        BY DEF Joined, TaskType, At
      <4> QED BY <4>1, <4>2 DEF SignalOrder, ExitOrder, RequestGate, KillAfterGrace, DropInsideShutdown
    <3>2. CASE Returns
      <4> USE <3>2 DEF Returns
      <4>1. Joined'
        BY DEF Joined, TaskType, At
      <4> QED BY <4>1 DEF SignalOrder, ExitOrder, GraceAccount, RequestGate, KillAfterGrace, DropInsideShutdown
    <3> QED BY <2>7, <3>1, <3>2 DEF Body
  <2>8. CASE Daemon
    <3>1. CASE DaemonTakesSigterm
      <4> USE <3>1 DEF DaemonTakesSigterm
      <4>1. SignalOrder'
        BY DEF SignalOrder, TaskType, At
      <4>2. ExitOrder'
        BY DEF ExitOrder, TaskType, ReportType, TargetType, SignalOrder, At
      <4>3. GraceAccount'
        BY DEF GraceAccount, TaskType, TimerType, SignalOrder, At
      <4>4. RequestGate'
        BY DEF RequestGate, TaskType, RequestType, At
      <4>5. Joined'
        BY DEF Joined, TaskType, At
      <4> QED BY <4>1, <4>2, <4>3, <4>4, <4>5 DEF KillAfterGrace, DropInsideShutdown
    <3>2. CASE DaemonReports
      <4> USE <3>2 DEF DaemonReports
      <4>1. ExitOrder'
        BY DEF ExitOrder, TaskType, ReportType, TargetType, SignalOrder, At
      <4> QED BY <4>1 DEF SignalOrder, GraceAccount, RequestGate, Joined, KillAfterGrace, DropInsideShutdown
    <3> QED BY <2>8, <3>1, <3>2 DEF Daemon
  <2>9. CASE Environment
    <3>1. CASE DieFrameArrives
      BY <3>1 DEF DieFrameArrives, SignalOrder, ExitOrder, GraceAccount, RequestGate, Joined, KillAfterGrace, DropInsideShutdown
    <3>2. CASE TargetChanges
      <4> USE <3>2 DEF TargetChanges
      <4>1. ExitOrder'
        BY DEF ExitOrder, TaskType, ReportType, TargetType, SignalOrder, At
      <4> QED BY <4>1 DEF SignalOrder, GraceAccount, RequestGate, Joined, KillAfterGrace, DropInsideShutdown
    <3>3. CASE TargetExits
      <4> USE <3>3 DEF TargetExits
      <4>1. ExitOrder'
        BY DEF ExitOrder, TaskType, ReportType, TargetType, Dies, SignalOrder, At
      <4>2. GraceAccount'
        BY DEF GraceAccount, TaskType, TimerType, Dies, SignalOrder, At
      <4> QED BY <4>1, <4>2 DEF SignalOrder, RequestGate, Joined, KillAfterGrace, DropInsideShutdown
    <3> QED BY <2>9, <3>1, <3>2, <3>3 DEF Environment
  <2>10. CASE Tick
    <3> USE <2>10 DEF Tick
    <3>1. GraceAccount'
      BY DEF GraceAccount, SignalOrder, TaskType, TimerType, Down
    <3>2. KillAfterGrace'
      BY DEF KillAfterGrace, TimerType
    <3> QED BY <3>1, <3>2 DEF SignalOrder, ExitOrder, RequestGate, Joined, DropInsideShutdown
  <2>11. CASE UNCHANGED vars
    BY <2>11 DEF vars, SignalOrder, ExitOrder, GraceAccount, RequestGate, Joined,
                 KillAfterGrace, DropInsideShutdown
  <2> QED
    BY <2>1, <2>2, <2>3, <2>4, <2>5, <2>6, <2>7, <2>8, <2>9, <2>10, <2>11
    DEF Next, Over
<1> QED
  BY <1>1, <1>2, TypeCorrect, PTL DEF Spec

-----------------------------------------------------------------------------
\* No container is killed early, and none that is known to have exited.
THEOREM KillSafe == Spec => []KillAfterGrace
<1>1. Inv => KillAfterGrace
  BY DEF Inv
<1> QED BY <1>1, ShutdownSafe, PTL

\* A readiness drop lies between T0 and the observed exit.
THEOREM DropSafe == Spec => []DropInsideShutdown
<1>1. Inv => DropInsideShutdown
  BY DEF Inv
<1> QED BY <1>1, ShutdownSafe, PTL

\* With in-flight requests configured, T0 never precedes all of them.
THEOREM SignalSafe == Spec => []SignalInsideRequest
<1>1. Inv => SignalInsideRequest
  BY DEF Inv, SignalOrder, RequestGate, SignalInsideRequest
<1> QED BY <1>1, ShutdownSafe, PTL

\* An experiment that returns a report has an exit after its SIGTERM.
THEOREM MeasureSafe == Spec => []MeasuredInOrder
<1>1. Inv => MeasuredInOrder
  BY DEF Inv, ExitOrder, Joined, MeasuredInOrder
<1> QED BY <1>1, ShutdownSafe, PTL

-----------------------------------------------------------------------------
\* The accept probe is armed before any time passes, and a request that has been
\* sent has said so.
ArmedAtOnce ==
  /\ task.accept # "idle" => "accept_probe_armed" \in fired
  /\ \A r \in Request : requests[r] \in {"sent", "completed", "broken"} =>
       "inflight_request_armed" \in fired

\* Every request has failed to connect, and the sender will never start.
NeverArmed ==
  /\ Request # {} /\ "inflight_request_armed" \notin fired
  /\ \A r \in Request : requests[r] = "unsent"

\* What the waiter has left covers what has to go by before the SIGKILL.
WaitOutlastsGrace ==
  Running /\ task.waiter = "waiting" =>
    /\ task.sender = "arming" => left.exit = ExitWait \/ NeverArmed
    /\ task.sender = "sleeping" => left.exit + SignalDelay >= ExitWait + left.sigterm
    /\ task.sender \in {"posting", "acked"} => left.exit + SignalDelay >= ExitWait
    /\ task.sender = "done" /\ task.enforcer = "await_sent" =>
         "sigterm_sent" \in fired /\ left.exit + SignalDelay >= ExitWait
    /\ task.enforcer = "grace" => left.exit + SignalDelay >= WaitMargin + left.grace
    /\ task.enforcer \in {"posting", "done"} => "sigkill" \in stamped

\* An exit that is not reported is one that a SIGKILL was sent for, unless the sender
\* slept through the waiter's margin or never started, whatever the target and the
\* daemon do (lifecycle.py 722-754, 851-865).
THEOREM NoReportSafe == Spec => []NoReportIsExplained
<1> DEFINE GivenUp == error = "no_exit_report" => phase = "raised"
           WInv == ArmedAtOnce /\ WaitOutlastsGrace /\ NoReportIsExplained /\ GivenUp
<1>1. Init => WInv
  BY DEF Init, ArmedAtOnce, WaitOutlastsGrace, NoReportIsExplained
<1>2. TypeOK /\ Inv /\ WInv /\ [Next]_vars => WInv'
  <2> SUFFICES ASSUME TypeOK, Inv, WInv, [Next]_vars PROVE WInv'
    OBVIOUS
  <2> USE DEF ArmedAtOnce, NeverArmed, WaitOutlastsGrace, NoReportIsExplained,
              At, Running, Goto, Take, Raise,
              ExitWait, stampVars, Inv, SignalOrder, ExitOrder,
              TypeOK, TaskType, RequestType, TimerType, ReportType, TargetType, PhaseType
  <2> USE ShutdownAssumption
  <2>0. SignalDelay \in Nat /\ SignalDelay' = SignalDelay
    BY DelayType, PlanStays
  <2>1. CASE Waiter
    BY <2>0, <2>1 DEF Waiter, WaiterSeesExit, WaiterTimesOut, WaiterFails
  <2>2. CASE Sender
    <3>1. CASE SenderSleeps
      <4>1. ~NeverArmed
        BY <3>1 DEF SenderSleeps, SenderMayStart
      <4> QED BY <2>0, <3>1, <4>1 DEF SenderSleeps
    <3> QED BY <2>0, <2>2, <3>1 DEF Sender, SenderSignals, SigtermFails, SenderAcked
  <2>3. CASE Accept
    <3>1. CASE AcceptBegins \/ AcceptLeaves
      BY <2>0, <3>1 DEF AcceptBegins, AcceptLeaves
    <3>2. ASSUME NEW refused \in BOOLEAN, AcceptEnds(refused) PROVE WInv'
      <4>1. "sigkill" \in stamped' <=> "sigkill" \in stamped
        BY <3>2 DEF AcceptEnds
      <4>2. /\ task'.waiter = task.waiter /\ task'.sender = task.sender
            /\ task'.enforcer = task.enforcer /\ "accept_probe_armed" \in fired
        BY <3>2 DEF AcceptEnds
      <4> QED BY <2>0, <3>2, <4>1, <4>2 DEF AcceptEnds
    <3> QED BY <2>3, <3>1, <3>2 DEF Accept
  <2>4. CASE Readiness
    BY <2>0, <2>4 DEF Readiness, ReadinessBegins, ReadinessAnswered, ReadinessResumes
  <2>5. CASE Enforcer
    BY <2>0, <2>5 DEF Enforcer, EnforcerStarts, EnforcerSeesExit, EnforcerKills,
                EnforcerPosted, EnforcerFails, GraceIsOver, Dies
  <2>6. ASSUME NEW r \in Request, RequestStep(r) PROVE WInv'
    <3>1. ~(Running /\ NeverArmed)
      BY <2>6 DEF RequestStep, RequestSent, RequestEnds
    <3> QED BY <2>0, <2>6, <3>1 DEF RequestStep, RequestSent, RequestEnds
  <2>7. CASE Body
    BY <2>0, <2>7 DEF Body, TasksJoin, Returns
  <2>8. CASE Daemon
    BY <2>0, <2>8 DEF Daemon, DaemonTakesSigterm, DaemonReports
  <2>9. CASE Environment
    BY <2>0, <2>9 DEF Environment, DieFrameArrives, TargetChanges, TargetExits, Reacts, Dies
  <2>10. CASE Tick
    <3>1. ArmedAtOnce' /\ NoReportIsExplained' /\ GivenUp'
      BY <2>0, <2>10 DEF Tick
    <3>2. ASSUME At("sender", "arming") PROVE NeverArmed
      <4>1. ~SenderMayStart /\ "accept_probe_armed" \in fired
        BY <2>10, <3>2 DEF Tick, Prompt
      <4>2. \A r \in Request : requests[r] # "connecting"
        BY <2>10, <3>2 DEF Tick, Prompt
      <4> QED BY <4>1, <4>2 DEF SenderMayStart
    <3>3. /\ left'.exit = Down(left.exit) /\ left'.sigterm = Down(left.sigterm)
          /\ left'.grace = Down(left.grace)
      BY <2>10 DEF Tick
    <3>4. /\ At("sender", "sleeping") => left.sigterm > 0
          /\ ~At("sender", "posting") /\ ~At("sender", "acked")
          /\ At("enforcer", "grace") => left.grace > 0
          /\ ~(At("enforcer", "await_sent") /\ "sigterm_sent" \in fired)
      BY <2>10 DEF Tick, Prompt
    <3>5. WaitOutlastsGrace'
      BY <2>0, <2>10, <3>2, <3>3, <3>4 DEF Tick, Down
    <3> QED BY <3>1, <3>5
  <2>11. CASE UNCHANGED vars
    BY <2>0, <2>11 DEF vars
  <2> QED
    BY <2>1, <2>2, <2>3, <2>4, <2>5, <2>6, <2>7, <2>8, <2>9, <2>10, <2>11 DEF Next, Over
<1>3. WInv => NoReportIsExplained
  OBVIOUS
<1> QED BY <1>1, <1>2, <1>3, TypeCorrect, ShutdownSafe, PTL DEF Spec

-----------------------------------------------------------------------------
(* The accept probe.                                                       *)

\* What Appended keeps: the new attempt comes last, the others keep their order
\* and only the first may go.
LEMMA AppendedTail ==
  ASSUME RefusedStreak \in Nat \ {0}, fresh \in BOOLEAN,
         attempts \in Seq(Attempt), Len(attempts) <= RefusedStreak,
         NEW refused \in BOOLEAN
  PROVE  LET q == Appended(refused)
             n == Len(attempts)
             dropped == IF n < RefusedStreak THEN 0 ELSE 1
         IN /\ Len(q) = n + 1 - dropped
            /\ q[Len(q)] = [fresh |-> fresh, refused |-> refused]
            /\ \A i \in 1..(Len(q) - 1) : q[i] = attempts[i + dropped]
<1> DEFINE a == [fresh |-> fresh, refused |-> refused]
<1>1. a \in Attempt /\ Len(attempts) \in Nat
  BY LenProperties DEF Attempt
<1>2. CASE Len(attempts) < RefusedStreak
  <2>1. /\ Len(Append(attempts, a)) = Len(attempts) + 1
        /\ Append(attempts, a)[Len(attempts) + 1] = a
        /\ \A i \in 1..Len(attempts) : Append(attempts, a)[i] = attempts[i]
    BY <1>1, AppendProperties
  <2> QED BY <1>1, <1>2, <2>1 DEF Appended
<1>3. CASE ~(Len(attempts) < RefusedStreak)
  <2>1. attempts # <<>> /\ Len(attempts) = RefusedStreak
    BY <1>1, <1>3, EmptySeq
  <2>2. /\ Tail(attempts) \in Seq(Attempt) /\ Len(Tail(attempts)) = Len(attempts) - 1
        /\ \A i \in 1..Len(Tail(attempts)) : Tail(attempts)[i] = attempts[i + 1]
    BY <2>1, HeadTailProperties
  <2>3. /\ Len(Append(Tail(attempts), a)) = Len(Tail(attempts)) + 1
        /\ Append(Tail(attempts), a)[Len(Tail(attempts)) + 1] = a
        /\ \A i \in 1..Len(Tail(attempts)) : Append(Tail(attempts), a)[i] = Tail(attempts)[i]
    BY <1>1, <2>2, AppendProperties
  <2>4. Appended(refused) = Append(Tail(attempts), a)
    BY <1>3 DEF Appended
  <2> QED BY <1>1, <1>3, <2>1, <2>2, <2>3, <2>4
<1> QED BY <1>2, <1>3

\* The streak is on record: its attempts are the last ones, all of them fresh
\* and refused, and its first is dated after T0.
StreakOnRecord ==
  /\ streak <= Len(attempts)
  /\ \A i \in 1..Len(attempts) :
       i > Len(attempts) - streak => attempts[i] = [fresh |-> TRUE, refused |-> TRUE]
  /\ fresh => "sigterm" \in stamped
  /\ streak > 0 => "sigterm" \in streakAt

\* The loop ends with the streak that dates the stop.
StopIsLast ==
  /\ task.accept # "done" => streak < RefusedStreak
  /\ "accept_stop" \in stamped =>
       /\ task.accept = "done" /\ streak = RefusedStreak
       /\ "sigterm" \in earlier["accept_stop"]

AcceptInv == StreakOnRecord /\ StopIsLast

\* What the accept watcher's end is made of.
LEMMA EndKeepsRecord ==
  ASSUME TypeOK, AcceptInv, NEW refused \in BOOLEAN, AcceptEnds(refused)
  PROVE  AcceptInv'
<1> DEFINE n == IF Counts(refused) THEN streak + 1 ELSE 0
<1> USE DEF TypeOK, AcceptInv, AcceptEnds, At
<1>1. /\ attempts \in Seq(Attempt) /\ Len(attempts) \in 0..RefusedStreak
      /\ fresh \in BOOLEAN /\ streak \in 0..RefusedStreak
  BY LenProperties DEF AcceptType
<1>2. streak < RefusedStreak /\ "accept_stop" \notin stamped
  BY DEF StopIsLast
<1>3. streak' = n /\ attempts' = Appended(refused) /\ n \in 0..RefusedStreak
  BY <1>1, <1>2
<1>4. PICK dropped \in {0, 1} :
        /\ dropped = (IF Len(attempts) < RefusedStreak THEN 0 ELSE 1)
        /\ Len(attempts') = Len(attempts) + 1 - dropped
        /\ attempts'[Len(attempts')] = [fresh |-> fresh, refused |-> refused]
        /\ \A i \in 1..(Len(attempts') - 1) : attempts'[i] = attempts[i + dropped]
  <2> DEFINE d == IF Len(attempts) < RefusedStreak THEN 0 ELSE 1
  <2>1. /\ Len(attempts') = Len(attempts) + 1 - d
        /\ attempts'[Len(attempts')] = [fresh |-> fresh, refused |-> refused]
        /\ \A i \in 1..(Len(attempts') - 1) : attempts'[i] = attempts[i + d]
    BY <1>1, <1>3, AppendedTail
  <2> WITNESS d \in {0, 1}
  <2> QED BY <2>1
<1>5. StreakOnRecord'
  <2>1. n <= Len(attempts')
    BY <1>1, <1>2, <1>4 DEF StreakOnRecord
  <2>2. ASSUME NEW i \in 1..Len(attempts'), i > Len(attempts') - n
        PROVE  attempts'[i] = [fresh |-> TRUE, refused |-> TRUE]
    <3>1. Counts(refused) /\ n = streak + 1
      BY <1>1, <1>4, <2>2
    <3>2. CASE i = Len(attempts')
      BY <1>1, <1>4, <3>1, <3>2 DEF Counts
    <3>3. CASE i # Len(attempts')
      <4>1. i \in 1..(Len(attempts') - 1) /\ i + dropped \in 1..Len(attempts)
        BY <1>1, <1>4, <3>3
      <4>2. i + dropped > Len(attempts) - streak
        BY <1>1, <1>4, <2>2, <3>1
      <4> QED BY <1>4, <4>1, <4>2 DEF StreakOnRecord
    <3> QED BY <3>2, <3>3
  <2>3. fresh' => "sigterm" \in stamped'
    OBVIOUS
  <2>4. n > 0 => "sigterm" \in streakAt'
    BY <1>1 DEF StreakOnRecord, Counts
  <2> QED BY <1>3, <2>1, <2>2, <2>3, <2>4 DEF StreakOnRecord
<1>6. StopIsLast'
  <2>1. "sigterm" \in streakAt' \/ n = 0
    BY <1>1 DEF StreakOnRecord, Counts
  <2>2. CASE StreakIsTerminal(n)
    <3>1. n = RefusedStreak
      BY <1>3, <2>2 DEF StreakIsTerminal
    <3>2. task' = [task EXCEPT !["accept"] = "done"] /\ task'.accept = "done"
      BY <2>2 DEF Goto, TaskType
    <3>3. earlier'["accept_stop"] = streakAt'
      BY <2>2 DEF ReportType, Stamp
    <3> QED BY <1>3, <2>1, <3>1, <3>2, <3>3 DEF StopIsLast
  <2>3. CASE ~StreakIsTerminal(n)
    <3>1. n < RefusedStreak
      BY <1>3, <2>3 DEF StreakIsTerminal
    <3>2. stamped' = stamped
      BY <2>3 DEF stampVars
    <3> QED BY <1>2, <1>3, <3>1, <3>2 DEF StopIsLast
  <2> QED BY <2>2, <2>3
<1> QED BY <1>5, <1>6

\* No other step touches the record, the streak or an accept stop.
LEMMA OthersKeepRecord ==
  ASSUME TypeOK, AcceptInv,
         UNCHANGED <<streak, streakAt, attempts>>,
         fresh' => "sigterm" \in stamped',
         stamped \subseteq stamped',
         "accept_stop" \in stamped' => "accept_stop" \in stamped,
         earlier'["accept_stop"] = earlier["accept_stop"],
         task.accept = "done" => task'.accept = "done"
  PROVE  AcceptInv'
BY DEF AcceptInv, StreakOnRecord, StopIsLast

\* What the tasks other than the accept watcher leave alone.
LEMMA OthersAreOthers ==
  ASSUME TypeOK, AcceptInv, Next, ~Accept
  PROVE  AcceptInv'
<1> USE DEF TypeOK, Goto, Take, Raise, acceptVars, stampVars, At
<1>1. fresh => "sigterm" \in stamped
  BY DEF AcceptInv, StreakOnRecord
<1>2. earlier \in [Stamp -> SUBSET Stamp] /\ "accept_stop" \in Stamp
  BY DEF ReportType, Stamp
<1>3. CASE Waiter
  BY <1>1, <1>2, <1>3, OthersKeepRecord
  DEF Waiter, WaiterSeesExit, WaiterTimesOut, WaiterFails, TaskType
<1>4. CASE Sender
  BY <1>1, <1>2, <1>4, OthersKeepRecord
  DEF Sender, SenderSleeps, SenderSignals, SigtermFails, SenderAcked, TaskType
<1>5. CASE Readiness
  BY <1>1, <1>2, <1>5, OthersKeepRecord
  DEF Readiness, ReadinessBegins, ReadinessAnswered, ReadinessResumes, TaskType
<1>6. CASE Enforcer
  BY <1>1, <1>2, <1>6, OthersKeepRecord
  DEF Enforcer, EnforcerStarts, EnforcerSeesExit, EnforcerKills, EnforcerPosted,
      EnforcerFails, TaskType
<1>7. ASSUME NEW r \in Request, RequestStep(r) PROVE AcceptInv'
  BY <1>1, <1>7, OthersKeepRecord DEF RequestStep, RequestSent, RequestEnds
<1>8. CASE Body \/ Daemon
  BY <1>1, <1>8, OthersKeepRecord
  DEF Body, TasksJoin, Returns, Daemon, DaemonTakesSigterm, DaemonReports, TaskType
<1>9. CASE Environment \/ Tick \/ Over
  BY <1>1, <1>9, OthersKeepRecord
  DEF Environment, DieFrameArrives, TargetChanges, TargetExits, Tick, Over, vars
<1> QED BY <1>3, <1>4, <1>5, <1>6, <1>7, <1>8, <1>9 DEF Next

\* An accept stop rests on a full streak of fresh refusals, dated after T0.
THEOREM AcceptStopSafe == Spec => []AcceptStopHasEvidence
<1>1. Init => AcceptInv
  <2> SUFFICES ASSUME Init PROVE AcceptInv
    OBVIOUS
  <2>1. Len(attempts) = 0
    BY EmptySeq DEF Init
  <2> QED BY <2>1 DEF Init, AcceptInv, StreakOnRecord, StopIsLast
<1>2. TypeOK /\ AcceptInv /\ [Next]_vars => AcceptInv'
  <2> SUFFICES ASSUME TypeOK, AcceptInv, [Next]_vars PROVE AcceptInv'
    OBVIOUS
  <2>1. CASE AcceptBegins \/ AcceptLeaves
    <3>1. fresh' => "sigterm" \in stamped
      BY <2>1, Zenon DEF AcceptBegins, AcceptLeaves, acceptVars, AcceptInv, StreakOnRecord
    <3>2. \/ task' = [task EXCEPT !["accept"] = "connecting"] /\ task.accept = "idle"
          \/ task' = [task EXCEPT !["accept"] = "done"]
      BY <2>1 DEF AcceptBegins, AcceptLeaves, At, Goto
    <3>3. /\ UNCHANGED <<streak, streakAt, attempts>>
          /\ stamped' = stamped /\ earlier' = earlier
      BY <2>1, Zenon DEF AcceptBegins, AcceptLeaves, acceptVars, stampVars
    <3> QED BY <3>1, <3>2, <3>3, OthersKeepRecord DEF TypeOK, TaskType
  <2>2. ASSUME NEW refused \in BOOLEAN, AcceptEnds(refused) PROVE AcceptInv'
    BY <2>2, EndKeepsRecord
  <2>3. CASE Next /\ ~Accept
    BY <2>3, OthersAreOthers
  <2>4. CASE UNCHANGED vars
    BY <2>4, OthersKeepRecord DEF vars, AcceptInv, StreakOnRecord
  <2> QED BY <2>1, <2>2, <2>3, <2>4 DEF Accept
<1>3. TypeOK /\ AcceptInv => AcceptStopHasEvidence
  <2> SUFFICES ASSUME TypeOK, AcceptInv, "accept_stop" \in stamped
               PROVE  AcceptStopHasEvidence
    BY DEF AcceptStopHasEvidence
  <2>1. streak = RefusedStreak /\ Len(attempts) = RefusedStreak
    BY LenProperties DEF TypeOK, AcceptType, AcceptInv, StreakOnRecord, StopIsLast
  <2> QED BY <2>1 DEF AcceptInv, StreakOnRecord, StopIsLast, AcceptStopHasEvidence
<1> QED BY <1>1, <1>2, <1>3, TypeCorrect, PTL DEF Spec

-----------------------------------------------------------------------------
\* Under PRESTOP the probe has been told to stop since T0.
Told == plan.prestop /\ "sigterm" \in stamped => "stop_accept_probe" \in fired

\* The sender sets the event in the step that stamps T0, so that the loop cannot
\* begin an attempt between the two.
THEOREM PreStopSafe == Spec => []PreStopStaysQuiet
<1> DEFINE Quiet == Told /\ PreStopStaysQuiet
<1>1. Init => Quiet
  <2> SUFFICES ASSUME Init PROVE Quiet
    OBVIOUS
  <2>1. DOMAIN attempts = {}
    BY EmptySeq DEF Init
  <2> QED BY <2>1 DEF Init, Told, PreStopStaysQuiet
<1>2. TypeOK /\ Quiet /\ [Next]_vars => Quiet'
  <2> SUFFICES ASSUME TypeOK, Quiet, [Next]_vars PROVE Quiet'
    OBVIOUS
  <2> USE DEF Told, PreStopStaysQuiet, Goto, Take, Raise, acceptVars, stampVars, At
  <2>0. plan' = plan
    BY PlanStays
  <2>1. CASE Accept
    <3>1. CASE AcceptBegins \/ AcceptLeaves
      <4>1. stamped' = stamped /\ attempts' = attempts /\ fired \subseteq fired'
        BY <3>1 DEF AcceptBegins, AcceptLeaves
      <4>2. CASE AcceptBegins
        <5>1. plan.prestop => "sigterm" \notin stamped
          BY <4>2 DEF AcceptBegins, AcceptGoesOn
        <5>2. fresh' = ("sigterm" \in stamped)
          BY <4>2, Zenon DEF AcceptBegins
        <5>3. plan.prestop => ~fresh'
          BY <5>1, <5>2, Zenon
        <5> QED BY <2>0, <4>1, <5>3
      <4>3. CASE AcceptLeaves
        <5>1. fresh' = fresh
          BY <4>3 DEF AcceptLeaves
        <5> QED BY <2>0, <4>1, <5>1
      <4> QED BY <3>1, <4>2, <4>3
    <3>2. ASSUME NEW refused \in BOOLEAN, AcceptEnds(refused) PROVE Quiet'
      <4>1. Told'
        BY <3>2 DEF AcceptEnds
      <4>2. ASSUME plan.prestop, NEW i \in DOMAIN attempts' PROVE ~attempts'[i].fresh
        <5> DEFINE n == Len(attempts)
                   d == IF n < RefusedStreak THEN 0 ELSE 1
        <5>1. /\ attempts \in Seq(Attempt) /\ n \in 0..RefusedStreak /\ DOMAIN attempts = 1..n
              /\ fresh \in BOOLEAN
          BY LenProperties DEF TypeOK, AcceptType
        <5>2. attempts' = Appended(refused) /\ attempts' \in Seq(Attempt)
          BY <3>2, <5>1, AppendedType DEF AcceptEnds
        <5>3. /\ Len(attempts') = n + 1 - d
              /\ attempts'[Len(attempts')] = [fresh |-> fresh, refused |-> refused]
              /\ \A k \in 1..(Len(attempts') - 1) : attempts'[k] = attempts[k + d]
          <6>0. n <= RefusedStreak
            BY <5>1
          <6>1. /\ Len(Appended(refused)) = n + 1 - d
                /\ Appended(refused)[Len(Appended(refused))] = [fresh |-> fresh, refused |-> refused]
                /\ \A k \in 1..(Len(Appended(refused)) - 1) : Appended(refused)[k] = attempts[k + d]
            BY <5>1, <6>0, ShutdownAssumption, AppendedTail, Zenon
          <6> QED BY <5>2, <6>1
        <5>4. i \in 1..Len(attempts')
          BY <4>2, <5>2, LenProperties
        <5>5. CASE i = Len(attempts')
          BY <4>2, <5>3, <5>5
        <5>6. CASE i # Len(attempts')
          <6>1. i \in 1..(Len(attempts') - 1) /\ i + d \in DOMAIN attempts
            BY <5>1, <5>3, <5>4, <5>6
          <6> QED BY <4>2, <5>3, <6>1
        <5> QED BY <5>5, <5>6
      <4> QED BY <2>0, <3>2, <4>1, <4>2 DEF AcceptEnds
    <3> QED BY <2>1, <3>1, <3>2 DEF Accept
  <2>2. CASE Sender
    BY <2>2 DEF Sender, SenderSleeps, SenderSignals, SigtermFails, SenderAcked
  <2>3. CASE Waiter \/ Readiness
    BY <2>3 DEF Waiter, WaiterSeesExit, WaiterTimesOut, WaiterFails,
                Readiness, ReadinessBegins, ReadinessAnswered, ReadinessResumes
  <2>4. CASE Enforcer
    BY <2>4 DEF Enforcer, EnforcerStarts, EnforcerSeesExit, EnforcerKills, EnforcerPosted,
                EnforcerFails
  <2>5. ASSUME NEW r \in Request, RequestStep(r) PROVE Quiet'
    BY <2>5 DEF RequestStep, RequestSent, RequestEnds
  <2>6. CASE Body \/ Daemon
    BY <2>6 DEF Body, TasksJoin, Returns, Daemon, DaemonTakesSigterm, DaemonReports
  <2>7. CASE Environment \/ Tick \/ Over \/ UNCHANGED vars
    BY <2>7 DEF Environment, DieFrameArrives, TargetChanges, TargetExits, Tick, Over, vars
  <2> QED BY <2>1, <2>2, <2>3, <2>4, <2>5, <2>6, <2>7 DEF Next
<1>3. Quiet => PreStopStaysQuiet
  OBVIOUS
<1> QED BY <1>1, <1>2, <1>3, TypeCorrect, PTL DEF Spec

-----------------------------------------------------------------------------
(* The refinement of Grace.                                                *)

\* A SIGKILL follows the SIGTERM, and there is one at most.
KillOrder ==
  "sigkill" \in stamped =>
    "sigterm" \in stamped /\ task.enforcer \in {"posting", "done"}

\* The one timestamp of a SIGKILL is taken by an enforcer that ends behind it.
THEOREM KillOrderKept == Spec => []KillOrder
<1>1. Init => KillOrder
  BY DEF Init, KillOrder
<1>2. TypeOK /\ Inv /\ KillOrder /\ [Next]_vars => KillOrder'
  <2> SUFFICES ASSUME TypeOK, Inv, KillOrder, [Next]_vars PROVE KillOrder'
    OBVIOUS
  <2> USE DEF KillOrder, At, Goto, Take, Raise, stampVars
  <2>1. CASE Waiter
    BY <2>1 DEF Waiter, WaiterSeesExit, WaiterTimesOut, WaiterFails, TypeOK, TaskType
  <2>2. CASE Sender
    BY <2>2 DEF Sender, SenderSleeps, SenderSignals, SigtermFails, SenderAcked, TypeOK, TaskType
  <2>3. CASE Accept
    BY <2>3 DEF Accept, AcceptBegins, AcceptLeaves, AcceptEnds, TypeOK, TaskType
  <2>4. CASE Readiness
    BY <2>4 DEF Readiness, ReadinessBegins, ReadinessAnswered, ReadinessResumes, TypeOK, TaskType
  <2>5. CASE Enforcer
    <3>1. task.enforcer # "await_sent" => "sigterm" \in stamped
      BY DEF Inv, SignalOrder
    <3> QED BY <2>5, <3>1 DEF Enforcer, EnforcerStarts, EnforcerSeesExit, EnforcerKills,
                              EnforcerPosted, EnforcerFails, TypeOK, TaskType
  <2>6. ASSUME NEW r \in Request, RequestStep(r) PROVE KillOrder'
    BY <2>6 DEF RequestStep, RequestSent, RequestEnds
  <2>7. CASE Body
    BY <2>7 DEF Body, TasksJoin, Returns
  <2>8. CASE Daemon
    BY <2>8 DEF Daemon, DaemonTakesSigterm, DaemonReports, TypeOK, TaskType
  <2>9. CASE Environment
    BY <2>9 DEF Environment, DieFrameArrives, TargetChanges, TargetExits
  <2>10. CASE Tick
    BY <2>10 DEF Tick
  <2>11. CASE UNCHANGED vars
    BY <2>11 DEF vars
  <2> QED
    BY <2>1, <2>2, <2>3, <2>4, <2>5, <2>6, <2>7, <2>8, <2>9, <2>10, <2>11 DEF Next, Over
<1> QED BY <1>1, <1>2, TypeCorrect, ShutdownSafe, PTL DEF Spec

-----------------------------------------------------------------------------
\* What does not touch the phase, the three timestamps and the clock is not seen.
LEMMA UnseenStep ==
  ASSUME phase' = phase, sinceT0' = sinceT0, earlier'["exit"] = earlier["exit"],
         \A x \in {"sigterm", "sigkill", "exit"} : x \in stamped' <=> x \in stamped
  PROVE  UNCHANGED G!vars
BY DEF G!vars, StageNow, ExitNow

\* An exception of any task is a failed experiment.
LEMMA RaiseFails ==
  ASSUME NEW why, Running, Raise(why)
  PROVE  G!Fail
BY DEF Running, Raise, stampVars, G!Fail, G!Running, StageNow, ExitNow

\* Every behaviour of the host-path experiment is one of Grace.
THEOREM HostImplementsGrace == Spec => ImplementsGrace
<1>1. Init => G!Init
  BY DEF Init, G!Init, StageNow, ExitNow
<1>2. TypeOK /\ Inv /\ KillOrder /\ [Next]_vars => [G!Next]_(G!vars)
  <2> SUFFICES ASSUME TypeOK, Inv, KillOrder, [Next]_vars PROVE [G!Next]_(G!vars)
    OBVIOUS
  <2>1. CASE Waiter
    <3>1. CASE WaiterSeesExit
      <4>1. "exit" \notin stamped
        BY <3>1 DEF WaiterSeesExit, At, Inv, ExitOrder
      <4>2. earlier'["exit"] = stamped /\ stamped' = stamped \cup {"exit"}
        BY <3>1 DEF WaiterSeesExit, Take, TypeOK, ReportType, Stamp
      <4>3. G!ExitObserved
        BY <3>1, <4>1, <4>2 DEF WaiterSeesExit, At, Running, G!ExitObserved, G!Running,
                                StageNow, ExitNow
      <4> QED BY <4>3 DEF G!Next
    <3> QED BY <2>1, <3>1, RaiseFails DEF Waiter, WaiterTimesOut, WaiterFails, At, G!Next
  <2>2. CASE Sender
    <3>1. CASE SenderSignals
      <4>1. "sigterm" \notin stamped /\ "sigkill" \notin stamped
        BY <3>1 DEF SenderSignals, At, Inv, SignalOrder, KillOrder
      <4>2. earlier'["exit"] = earlier["exit"] /\ stamped' = stamped \cup {"sigterm"}
        BY <3>1 DEF SenderSignals, Take, TypeOK, ReportType, Stamp
      <4>3. G!Sigterm
        BY <3>1, <4>1, <4>2 DEF SenderSignals, At, Running, G!Sigterm, StageNow, ExitNow
      <4> QED BY <4>3 DEF G!Next
    <3>2. CASE SenderSleeps \/ SenderAcked
      BY <3>2, UnseenStep DEF SenderSleeps, SenderAcked, stampVars
    <3>3. CASE SigtermFails
      BY <3>3, RaiseFails DEF SigtermFails, At, G!Next
    <3> QED BY <2>2, <3>1, <3>2, <3>3 DEF Sender
  <2>3. CASE Accept
    <3>1. CASE AcceptBegins \/ AcceptLeaves
      BY <3>1, UnseenStep DEF AcceptBegins, AcceptLeaves, stampVars
    <3>2. ASSUME NEW refused \in BOOLEAN, AcceptEnds(refused) PROVE UNCHANGED G!vars
      BY <3>2, UnseenStep DEF AcceptEnds, stampVars, TypeOK, ReportType, Stamp
    <3> QED BY <2>3, <3>1, <3>2 DEF Accept
  <2>4. CASE Readiness
    BY <2>4, UnseenStep DEF Readiness, ReadinessBegins, ReadinessAnswered, ReadinessResumes,
                            Take, stampVars, TypeOK, ReportType, Stamp
  <2>5. CASE Enforcer
    <3>1. CASE EnforcerKills
      <4>1. "sigterm" \in stamped /\ "sigkill" \notin stamped /\ "exit" \notin stamped
        BY <3>1 DEF EnforcerKills, At, GraceIsOver, Inv, SignalOrder, ExitOrder, KillOrder
      <4>2. sinceT0 = HardWait
        BY <3>1, ShutdownAssumption
        DEF EnforcerKills, At, GraceIsOver, Inv, GraceAccount, TypeOK, TimerType
      <4>3. earlier'["exit"] = earlier["exit"] /\ stamped' = stamped \cup {"sigkill"}
        BY <3>1 DEF EnforcerKills, Take, TypeOK, ReportType, Stamp
      <4>4. G!Sigkill
        BY <3>1, <4>1, <4>2, <4>3
        DEF EnforcerKills, At, Running, G!Sigkill, StageNow, ExitNow
      <4> QED BY <4>4 DEF G!Next
    <3>2. CASE EnforcerStarts \/ EnforcerSeesExit \/ EnforcerPosted
      BY <3>2, UnseenStep DEF EnforcerStarts, EnforcerSeesExit, EnforcerPosted, stampVars
    <3>3. CASE EnforcerFails
      BY <3>3, RaiseFails DEF EnforcerFails, At, G!Next
    <3> QED BY <2>5, <3>1, <3>2, <3>3 DEF Enforcer
  <2>6. ASSUME NEW r \in Request, RequestStep(r) PROVE UNCHANGED G!vars
    BY <2>6, UnseenStep DEF RequestStep, RequestSent, RequestEnds, stampVars
  <2>7. CASE Body
    <3>1. CASE TasksJoin
      BY <3>1 DEF TasksJoin, Running, stampVars, G!vars, StageNow, ExitNow
    <3>2. CASE Returns
      <4>1. "exit" \in stamped /\ "sigterm" \in earlier["exit"]
        BY <3>2 DEF Returns, Inv, Joined, ExitOrder
      <4>2. G!Measure
        BY <3>2, <4>1 DEF Returns, stampVars, G!Measure, G!Running, StageNow, ExitNow
      <4> QED BY <4>2 DEF G!Next
    <3> QED BY <2>7, <3>1, <3>2 DEF Body
  <2>8. CASE Daemon
    BY <2>8, UnseenStep DEF Daemon, DaemonTakesSigterm, DaemonReports, stampVars
  <2>9. CASE Environment
    BY <2>9, UnseenStep
    DEF Environment, DieFrameArrives, TargetChanges, TargetExits, stampVars
  <2>10. CASE Tick
    <3>1. CASE "sigterm" \in stamped /\ sinceT0 < HardWait
      <4>1. G!TimePasses
        BY <2>10, <3>1 DEF Tick, stampVars, G!TimePasses, StageNow, ExitNow
      <4> QED BY <4>1 DEF G!Next
    <3>2. CASE ~("sigterm" \in stamped /\ sinceT0 < HardWait)
      BY <2>10, <3>2, UnseenStep DEF Tick, stampVars
    <3> QED BY <3>1, <3>2
  <2>11. CASE UNCHANGED vars
    BY <2>11, UnseenStep DEF vars, stampVars
  <2> QED
    BY <2>1, <2>2, <2>3, <2>4, <2>5, <2>6, <2>7, <2>8, <2>9, <2>10, <2>11 DEF Next, Over
<1> QED
  BY <1>1, <1>2, TypeCorrect, ShutdownSafe, KillOrderKept, PTL
  DEF Spec, ImplementsGrace, G!Spec

=============================================================================
