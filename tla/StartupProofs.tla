---------------------------- MODULE StartupProofs ----------------------------
(***************************************************************************)
(* Theorems about Startup, for every budget, timeout and interval within   *)
(* StartupAssumption.                                                      *)
(***************************************************************************)
EXTENDS Startup, TLAPS

USE StartupAssumption

\* Constants as the provers need them: no moment a loop reaches is Never.
LEMMA Bounds ==
  /\ Budget \in Nat /\ GateBudget \in Nat /\ MinReadiness \in Nat /\ TcpTimeout \in Nat
  /\ ProbeTime \in Nat /\ MaxOverhead \in Nat
  /\ TcpInterval \in Nat /\ PollInterval \in Nat
  /\ Budget > 0 /\ GateBudget > 0 /\ MinReadiness > 0 /\ TcpTimeout > 0 /\ ProbeTime > 0
  /\ TcpInterval <= PollInterval /\ Turn = TcpTimeout + ProbeTime + PollInterval
  /\ Latest \in Nat /\ Never = Latest + 1
  /\ MaxOverhead + Budget + MinReadiness + 2 * TcpTimeout + ProbeTime + PollInterval <= Latest
  /\ GateBudget + TcpTimeout + TcpInterval <= Latest
BY DEF Latest, Never, Turn

-----------------------------------------------------------------------------
(***************************************************************************)
(* What is known at each place of a start-up.  The bounds of the clock     *)
(* there rest on what a loop's last turn can take, and that a peer has not *)
(* been missed on the last failed attempt: it ended at most a turn after   *)
(* the peer was there.                                                     *)
(***************************************************************************)
Started == report.started
Alone == report.tcp = Never /\ report.ready = Never /\ report.failure = "none" /\ hasty = "no"
Lasts == target.dies = Never

AtGate ==
  at = "gate" =>
    /\ Started = Never /\ Alone /\ deadline = GateBudget
    /\ now <= GateBudget + TcpTimeout + TcpInterval
    /\ now = 0 \/ (path # "proxied" /\ now < dependency + TcpTimeout + TcpInterval)
    /\ target.serves = Never

AtStart ==
  at = "start" =>
    /\ Started = Never /\ Alone /\ now <= GateBudget + TcpTimeout
    /\ dependency < Never \/ path = "proxied"

Begun ==
  at \in {"port", "readiness", "connect", "probe", "inspect"} =>
    /\ Started \in 0..MaxOverhead /\ Started <= now
    /\ report.ready = Never /\ report.failure = "none"
    /\ dependency < Never \/ path = "proxied"

AtPort ==
  at = "port" =>
    /\ path # "sidecar" /\ hasty = "no" /\ report.tcp = Never /\ deadline = Started + Budget
    /\ now <= deadline + TcpTimeout + TcpInterval
    /\ Lasts => now = Started \/ now < target.listens + TcpTimeout + TcpInterval

AtReadiness ==
  at = "readiness" =>
    /\ path # "sidecar" /\ hasty = "no"
    /\ Started <= report.tcp /\ report.tcp <= now /\ report.tcp < Started + Budget + TcpTimeout
    /\ deadline = report.tcp + ReadinessBudget(report.tcp)
    /\ now <= deadline + ProbeTime + PollInterval
    /\ Lasts => now = report.tcp \/ now < target.serves + ProbeTime + PollInterval

AtConnect ==
  at = "connect" =>
    /\ path = "sidecar" /\ hasty = "no" /\ deadline = Started + Budget
    /\ now <= deadline + TcpTimeout + ProbeTime + TcpInterval
    /\ Lasts => now = Started \/ now < target.serves + ProbeTime + TcpInterval

AtProbe ==
  at = "probe" =>
    /\ path = "sidecar" /\ hasty = "no" /\ deadline = Started + Budget
    /\ now <= deadline + TcpTimeout

\* A target is given up on with its budget used up, and not one that serves.
GivenUp ==
  hasty = "no" =>
    /\ now >= Started + Budget
    /\ Lasts => target.serves + TcpTimeout + ProbeTime + PollInterval > Started + Budget

InBudget ==
  now <= Started + Budget + Turn + IF path = "sidecar" THEN 0 ELSE MinReadiness + TcpTimeout

AtInspect == at = "inspect" => GivenUp /\ InBudget

AtOver ==
  at = "over" =>
    /\ report.failure \in {"none", "never_opened", "not_ready", "exited"} =>
         Started \in 0..MaxOverhead /\ InBudget /\ (dependency < Never \/ path = "proxied")
    /\ report.failure \in {"control", "dependency"} =>
         Started = Never /\ report.tcp = Never /\ report.ready = Never
         /\ now <= GateBudget + TcpTimeout + TcpInterval
    /\ TargetFailed => GivenUp /\ report.ready = Never
    /\ report.failure = "dependency" =>
         now >= GateBudget /\ dependency + TcpTimeout + TcpInterval > GateBudget

Places == /\ AtGate /\ AtStart /\ Begun /\ AtPort /\ AtReadiness /\ AtConnect /\ AtProbe
          /\ AtInspect /\ AtOver

\* The TCP stamp is never later than the clock; the target has rested through
\* one interval of its serving at most, or is dead.
Stamped ==
  /\ report.tcp # Never => report.tcp <= now
  /\ StampsAreReal

Rested ==
  /\ idle = 0 \/ (idle <= PollInterval /\ target.serves <= now) \/ target.dies <= now
  /\ OneIntervalIsLost
  /\ at = "gate" \/ at = "start" => idle = 0

\* The types, with the order of what a target does.
TypeInv == TypeOK /\ target.listens <= target.serves

-----------------------------------------------------------------------------
\* An attempt ends within its timeout, and met the peer before.
LEMMA AttemptBounds ==
  ASSUME TypeOK, NEW limit \in Nat, NEW a \in Attempts(limit)
  PROVE  /\ a.end \in Nat /\ a.met \in Nat
         /\ now <= a.met /\ a.met <= a.end /\ a.end <= now + limit
BY DEF Attempts, TypeOK

\* A rest adds to the time slept through what of it the target served.
LEMMA ServedBounds ==
  ASSUME TypeOK, NEW x \in Nat, NEW interval \in Nat
  PROVE  /\ Served(x, x + interval) \in 0..interval
         /\ Served(x, x + interval) # 0 => target.serves < x + interval /\ x < target.dies
BY Bounds DEF Served, TypeOK, Moment

\* The host's second loop gets what is left of the budget, or its minimum.
LEMMA ReadinessBounds ==
  ASSUME TypeOK, NEW t \in Nat
  PROVE  /\ ReadinessBudget(t) \in Nat /\ ReadinessBudget(t) >= MinReadiness
         /\ t + ReadinessBudget(t) >= Started + Budget
         /\ t + ReadinessBudget(t) <= Started + Budget \/ ReadinessBudget(t) = MinReadiness
BY Bounds DEF ReadinessBudget, TypeOK, Moment, Started

\* A failed attempt and its rest: a target that was not serving when the attempt met
\* it has not been slept through before, unless it is dead.
LEMMA RestStep ==
  ASSUME TypeInv, Rested, report.ready = Never, UNCHANGED <<target, report>>,
         at' # "gate" /\ at' # "start",
         NEW end \in Nat, NEW met \in Nat, NEW interval \in Nat,
         now <= met, met <= end, interval <= PollInterval, Rests(end, interval),
         ~Serves(met)
  PROVE  Rested' /\ now' = end + interval /\ idle' \in Nat
<1>1. now' = end + interval /\ idle' = idle + Served(end, end + interval)
  BY DEF Rests
<1>2. /\ Served(end, end + interval) \in 0..interval
      /\ Served(end, end + interval) # 0 => target.serves < end + interval
  BY ServedBounds DEF TypeInv
<1>3. target.serves > met \/ target.dies <= met
  BY DEF Serves, Alive, TypeInv, TypeOK, Moment
<1>4. idle' \in Nat
  BY <1>1, <1>2 DEF TypeInv, TypeOK
<1>5. idle' = 0 \/ (idle' <= PollInterval /\ target.serves <= now') \/ target.dies <= now'
  BY <1>1, <1>2, <1>3, Bounds DEF Rested, TypeInv, TypeOK, Moment
<1> QED BY <1>1, <1>4, <1>5 DEF Rested, OneIntervalIsLost

\* The clock and the types hold at every place.
THEOREM StartupSafe == Spec => [](TypeInv /\ Places /\ Stamped /\ Rested)
<1> DEFINE Inv == TypeInv /\ Places /\ Stamped /\ Rested
<1>1. Init => Inv
  <2> SUFFICES ASSUME Init PROVE Inv
    OBVIOUS
  <2>1. TypeInv
    BY Bounds DEF Init, TypeInv, TypeOK, Unset, Moment, Failure, Path
  <2>2. Places
    BY Bounds DEF Init, Places, AtGate, AtStart, Begun, AtPort, AtReadiness, AtConnect, AtProbe,
                  AtInspect, AtOver, Started, Alone, Unset
  <2>3. Stamped /\ Rested
    BY Bounds DEF Init, Stamped, Rested, StampsAreReal, OneIntervalIsLost, Unset
  <2> QED BY <2>1, <2>2, <2>3
<1>2. Inv /\ [Next]_vars => Inv'
  <2> SUFFICES ASSUME Inv, [Next]_vars PROVE Inv'
    OBVIOUS
  <2> USE Bounds DEF peers, TypeInv
  <2>1. CASE SkipGate \/ GateCallFails
    <3> USE <2>1 DEF SkipGate, GateCallFails, Ends
    <3>1. TypeInv'
      BY DEF TypeOK, Failure, Moment
    <3>2. Places'
      BY DEF TypeOK, Places, AtGate, AtStart, Begun, AtPort, AtReadiness, AtConnect, AtProbe,
             AtInspect, AtOver, Started, Alone, TargetFailed
    <3>3. Stamped' /\ Rested'
      BY DEF TypeOK, Stamped, Rested, StampsAreReal, OneIntervalIsLost
    <3> QED BY <3>1, <3>2, <3>3
  <2>2. CASE WaitForDependency
    <3> USE <2>2 DEF WaitForDependency, InTime
    <3>1. PICK a \in Attempts(TcpTimeout) :
            IF dependency <= a.met
            THEN /\ at' = "start" /\ now' = a.end
                 /\ report' = [report EXCEPT !.gate = "connected"] /\ UNCHANGED idle
            ELSE Rests(a.end, TcpInterval) /\ UNCHANGED <<at, report>>
      OBVIOUS
    <3>2. /\ a.end \in Nat /\ a.met \in Nat
          /\ now <= a.met /\ a.met <= a.end /\ a.end <= now + TcpTimeout
      BY AttemptBounds
    <3>3. /\ now < GateBudget /\ Started = Never /\ Alone /\ idle = 0 /\ deadline = GateBudget
          /\ target.serves = Never /\ at = "gate" /\ path # "proxied"
          /\ path' = path /\ deadline' = deadline /\ dependency' = dependency /\ target' = target
          /\ hasty' = hasty
      BY DEF Places, AtGate, Rested
    <3>4. CASE dependency <= a.met
      <4>0. at' = "start" /\ now' = a.end /\ report' = [report EXCEPT !.gate = "connected"]
            /\ idle' = idle
        BY <3>1, <3>4
      <4> HIDE <2>2 DEF WaitForDependency
      <4> USE <4>0, <3>2, <3>3, <3>4
      <4>1. TypeInv'
        BY DEF TypeOK, Moment
      <4>2. Places'
        <5>1. dependency < Never
          BY DEF TypeOK, Moment
        <5>2. AtStart'
          BY <5>1 DEF AtStart, Started, Alone, TypeOK
        <5> QED BY <5>2 DEF Places, AtGate, Begun, AtPort, AtReadiness, AtConnect, AtProbe,
                            AtInspect, AtOver
      <4>3. Stamped' /\ Rested'
        BY DEF TypeOK, Stamped, Rested, StampsAreReal, OneIntervalIsLost, Alone
      <4> QED BY <4>1, <4>2, <4>3
    <3>5. CASE ~(dependency <= a.met)
      <4>1. now' = a.end + TcpInterval /\ idle' = idle + Served(a.end, a.end + TcpInterval)
            /\ UNCHANGED <<at, report>>
        BY <3>1, <3>5 DEF Rests
      <4> HIDE <2>2 DEF WaitForDependency
      <4>2. Served(a.end, a.end + TcpInterval) = 0
        BY <3>2, <3>3 DEF Served, TypeOK, Moment
      <4> USE <3>2, <3>3, <3>5, <4>1, <4>2
      <4>3. TypeInv'
        BY DEF TypeOK
      <4>4. Places'
        <5>1. AtGate'
          BY DEF TypeOK, AtGate, Started, Alone, Moment
        <5> QED BY <5>1 DEF Places, AtStart, Begun, AtPort, AtReadiness, AtConnect, AtProbe,
                            AtInspect, AtOver
      <4>5. Stamped' /\ Rested'
        BY DEF TypeOK, Stamped, Rested, StampsAreReal, OneIntervalIsLost, Alone
      <4> QED BY <4>3, <4>4, <4>5
    <3> QED BY <3>4, <3>5
  <2>3. CASE GateExpires
    <3> USE <2>3 DEF GateExpires, OutOfTime, InTime, GateFails, Ends
    <3>1. /\ now >= GateBudget /\ Started = Never /\ Alone /\ now < dependency + TcpTimeout + TcpInterval
          /\ now <= GateBudget + TcpTimeout + TcpInterval
      BY DEF Places, AtGate, TypeOK
    <3>2. TypeInv'
      BY DEF TypeOK, Failure
    <3>3. Places'
      <4>1. AtOver'
        BY <3>1 DEF TypeOK, AtOver, Started, Alone, TargetFailed, Moment
      <4> QED BY <4>1 DEF Places, AtGate, AtStart, Begun, AtPort, AtReadiness, AtConnect, AtProbe,
                          AtInspect
    <3>4. Stamped' /\ Rested'
      BY <3>1 DEF TypeOK, Stamped, Rested, StampsAreReal, OneIntervalIsLost, Alone
    <3> QED BY <3>2, <3>3, <3>4
  <2>4. CASE StartTarget
    <3> USE <2>4 DEF StartTarget
    <3>1. PICK overhead \in 0..MaxOverhead : \E born \in 0..overhead :
            /\ now' = overhead /\ deadline' = overhead + Budget
            /\ target' \in Lives(born)
            /\ report' = [report EXCEPT !.started = overhead]
      OBVIOUS
    <3>2. PICK born \in 0..overhead : target' \in Lives(born)
      BY <3>1
    <3>3. overhead \in Nat /\ born \in Nat /\ overhead <= MaxOverhead /\ born <= overhead
      OBVIOUS
    <3>4. /\ Alone /\ (dependency < Never \/ path = "proxied")
      BY DEF Places, AtStart
    <3>5. at' \in {"connect", "port"} /\ (at' = "connect" <=> path = "sidecar")
      BY DEF TypeOK
    <3>6. target' \in [listens: Moment, serves: Moment, dies: Moment]
          /\ target'.listens <= target'.serves
      <4>1. born \in Moment /\ born..(born + Budget) \subseteq Moment /\ Never \in Moment
        BY <3>3 DEF Moment
      <4> HIDE <2>4 DEF StartTarget
      <4> QED BY <3>2, <4>1 DEF Lives
    <3>7. TypeInv'
      BY <3>1, <3>3, <3>5, <3>6 DEF TypeOK, Moment
    <3>8. hasty = "no" /\ hasty' = hasty /\ path' = path /\ dependency' = dependency
      BY <3>4 DEF Alone
    <3>9. Places'
      <4>1. Started' = now' /\ Started' \in 0..MaxOverhead /\ deadline' = Started' + Budget
            /\ report'.tcp = Never /\ report'.ready = Never /\ report'.failure = "none"
        BY <3>1, <3>3, <3>4 DEF TypeOK, Started, Alone
      <4> HIDE <2>4 DEF StartTarget
      <4>2. Begun'
        BY <3>4, <3>8, <4>1 DEF Begun
      <4>3. AtPort'
        BY <3>3, <3>5, <3>8, <4>1 DEF AtPort, Started
      <4>4. AtConnect'
        BY <3>3, <3>5, <3>8, <4>1 DEF AtConnect, Started
      <4> QED BY <4>2, <4>3, <4>4, <3>5 DEF Places, AtGate, AtStart, AtReadiness, AtProbe, AtInspect, AtOver
    <3>10. Stamped' /\ Rested'
      BY <3>1, <3>4 DEF TypeOK, Stamped, Rested, StampsAreReal, OneIntervalIsLost, Alone
    <3> QED BY <3>7, <3>9, <3>10
  <2>5. CASE WaitForPort
    <3> USE <2>5 DEF WaitForPort, InTime
    <3>1. PICK a \in Attempts(TcpTimeout) :
            IF Accepts(a.met)
            THEN /\ at' = "readiness" /\ now' = a.end
                 /\ report' = [report EXCEPT !.tcp = a.end]
                 /\ deadline' = a.end + ReadinessBudget(a.end) /\ UNCHANGED idle
            ELSE Rests(a.end, TcpInterval) /\ UNCHANGED <<at, report, deadline>>
      OBVIOUS
    <3>2. /\ a.end \in Nat /\ a.met \in Nat
          /\ now <= a.met /\ a.met <= a.end /\ a.end <= now + TcpTimeout
      BY AttemptBounds
    <3>3. /\ at = "port" /\ path # "sidecar" /\ hasty = "no" /\ report.tcp = Never
          /\ deadline = Started + Budget /\ now < deadline
          /\ report.ready = Never /\ report.failure = "none"
          /\ Started \in 0..MaxOverhead /\ Started <= now
          /\ dependency < Never \/ path = "proxied"
          /\ path' = path /\ dependency' = dependency /\ target' = target /\ hasty' = hasty
      BY DEF Places, AtPort, Begun
    <3>4. CASE Accepts(a.met)
      <4>1. /\ at' = "readiness" /\ now' = a.end /\ idle' = idle
            /\ report' = [report EXCEPT !.tcp = a.end]
            /\ deadline' = a.end + ReadinessBudget(a.end)
        BY <3>1, <3>4
      <4> HIDE <2>5 DEF WaitForPort
      <4> USE <4>1, <3>2, <3>3
      <4>2. /\ ReadinessBudget(a.end) \in Nat
            /\ a.end + ReadinessBudget(a.end) <= Started + Budget
               \/ ReadinessBudget(a.end) = MinReadiness
        BY ReadinessBounds
      <4>3. TypeInv'
        BY <4>2 DEF TypeOK, Moment
      <4>4. Started' = Started /\ report'.tcp = a.end /\ report'.ready = Never
            /\ report'.failure = "none"
        BY DEF TypeOK, Started
      <4>10. ReadinessBudget(report.tcp)' = ReadinessBudget(a.end)
        BY <4>4 DEF Started, ReadinessBudget
      <4>5. AtReadiness'
        BY <4>2, <4>4, <4>10 DEF AtReadiness, TypeOK
      <4>6. Begun'
        BY <4>4 DEF Begun, TypeOK
      <4>7. Places'
        BY <4>5, <4>6 DEF Places, AtGate, AtStart, AtPort, AtConnect, AtProbe, AtInspect, AtOver
      <4>8. Stamped'
        <5>1. path # "proxied" => target.listens <= a.end
          BY <3>4 DEF Accepts, Listens, TypeOK, Moment
        <5> QED BY <5>1, <4>4 DEF Stamped, StampsAreReal, Started, TypeOK, Moment
      <4>9. Rested'
        BY <4>4 DEF Rested, OneIntervalIsLost, TypeOK, Moment
      <4> QED BY <4>3, <4>7, <4>8, <4>9
    <3>5. CASE ~Accepts(a.met)
      <4>1. Rests(a.end, TcpInterval) /\ at' = at /\ report' = report /\ deadline' = deadline
        BY <3>1, <3>5
      <4> HIDE <2>5 DEF WaitForPort
      <4>2. ~Listens(a.met)
        BY <3>5 DEF Accepts
      <4>3. ~Serves(a.met)
        BY <4>2, <3>2 DEF Listens, Serves, TypeOK, Moment
      <4>4. Rested' /\ now' = a.end + TcpInterval /\ idle' \in Nat
        BY <4>1, <4>3, <3>2, <3>3, RestStep
      <4> HIDE <4>1
      <4>5. at' = at /\ report' = report /\ deadline' = deadline
        BY <4>1
      <4> USE <3>2, <3>3, <4>4, <4>5
      <4>6. TypeInv'
        BY DEF TypeOK
      <4>7. AtPort'
        BY <4>2 DEF AtPort, Places, Lasts, Listens, Alive, TypeOK, Moment, Started
      <4>8. Begun'
        BY DEF Begun, Started, TypeOK
      <4>9. Places'
        BY <4>7, <4>8 DEF Places, AtGate, AtStart, AtReadiness, AtConnect, AtProbe, AtInspect, AtOver
      <4>10. Stamped'
        BY DEF Stamped, StampsAreReal, Started
      <4> QED BY <4>6, <4>9, <4>10
    <3> QED BY <3>4, <3>5
  <2>6. CASE WaitForReadiness
    <3> USE <2>6 DEF WaitForReadiness, InTime
    <3>1. PICK a \in Attempts(ProbeTime) : \E answer \in Answers(a.met) :
            IF answer = "expected" THEN ProbePasses(a.end)
            ELSE ProbeAgain(a.end, PollInterval, "readiness")
      OBVIOUS
    <3>2. PICK answer \in Answers(a.met) :
            IF answer = "expected" THEN ProbePasses(a.end)
            ELSE ProbeAgain(a.end, PollInterval, "readiness")
      BY <3>1
    <3>3. /\ a.end \in Nat /\ a.met \in Nat
          /\ now <= a.met /\ a.met <= a.end /\ a.end <= now + ProbeTime
      BY AttemptBounds
    <3>4. /\ at = "readiness" /\ path # "sidecar" /\ hasty = "no" /\ now < deadline
          /\ Started <= report.tcp /\ report.tcp <= now /\ report.tcp < Started + Budget + TcpTimeout
          /\ deadline = report.tcp + ReadinessBudget(report.tcp)
          /\ report.ready = Never /\ report.failure = "none"
          /\ Started \in 0..MaxOverhead /\ Started <= now
          /\ dependency < Never \/ path = "proxied"
          /\ path' = path /\ dependency' = dependency /\ target' = target /\ deadline' = deadline
      BY DEF Places, AtReadiness, Begun, peers
    <3>5. /\ ReadinessBudget(report.tcp) \in Nat
          /\ deadline <= Started + Budget \/ deadline = report.tcp + MinReadiness
      <4>1. report.tcp \in Nat
        BY DEF TypeOK, Moment
      <4> QED BY <4>1, <3>4, ReadinessBounds
    <3>6. CASE answer = "expected"
      <4>1. ProbePasses(a.end)
        BY <3>2, <3>6
      <4>2. Serves(a.met)
        BY <3>6 DEF Answers
      <4> HIDE <2>6 DEF WaitForReadiness
      <4>3. /\ at' = "over" /\ now' = a.end /\ report' = [report EXCEPT !.ready = a.end]
            /\ hasty' = hasty /\ idle' = idle
        BY <4>1 DEF ProbePasses
      <4> USE <3>3, <3>4, <3>5, <4>3
      <4>4. TypeInv'
        BY DEF TypeOK, Moment
      <4>5. Started' = Started /\ report'.tcp = report.tcp /\ report'.ready = a.end
            /\ report'.failure = "none"
        BY DEF TypeOK, Started
      <4>6. InBudget'
        BY <4>5 DEF InBudget, TypeOK, Moment
      <4>7. AtOver'
        BY <4>5, <4>6 DEF AtOver, TargetFailed
      <4>8. Places'
        BY <4>7 DEF Places, AtGate, AtStart, Begun, AtPort, AtReadiness, AtConnect, AtProbe, AtInspect
      <4>9. Stamped'
        BY <4>2, <4>5 DEF Stamped, StampsAreReal, Started, Serves, TypeOK, Moment
      <4>10. Rested'
        BY <4>2, <4>5 DEF Rested, OneIntervalIsLost, Serves, Alive, TypeOK, Moment
      <4> QED BY <4>4, <4>8, <4>9, <4>10
    <3>7. CASE answer # "expected"
      <4>1. Rests(a.end, PollInterval) /\ at' = at /\ report' = report /\ hasty' = hasty
        BY <3>2, <3>7, <3>4 DEF ProbeAgain
      <4>2. ~Serves(a.met)
        BY <3>7 DEF Answers
      <4> HIDE <2>6 DEF WaitForReadiness
      <4>3. Rested' /\ now' = a.end + PollInterval /\ idle' \in Nat
        BY <4>1, <4>2, <3>3, <3>4, RestStep
      <4>4. at' = at /\ report' = report /\ hasty' = hasty
        BY <4>1
      <4> USE <3>3, <3>4, <3>5, <4>3, <4>4
      <4>5. TypeInv'
        BY DEF TypeOK, Moment
      <4>6. ReadinessBudget(report.tcp)' = ReadinessBudget(report.tcp)
        BY DEF ReadinessBudget
      <4>7. Lasts' => now' < target.serves + ProbeTime + PollInterval
        BY <4>2 DEF Lasts, Serves, Alive, TypeOK, Moment
      <4>8. AtReadiness'
        BY <4>6, <4>7 DEF AtReadiness, Started, TypeOK, Moment
      <4>9. Begun'
        BY DEF Begun, Started, TypeOK
      <4>10. Places'
        BY <4>8, <4>9 DEF Places, AtGate, AtStart, AtPort, AtConnect, AtProbe, AtInspect, AtOver
      <4>11. Stamped'
        BY DEF Stamped, StampsAreReal, Started, TypeOK, Moment
      <4> QED BY <4>5, <4>10, <4>11, <4>3
    <3> QED BY <3>6, <3>7
  <2>7. CASE SidecarConnects
    <3> USE <2>7 DEF SidecarConnects, InTime
    <3>1. /\ at = "connect" /\ path = "sidecar" /\ hasty = "no" /\ deadline = Started + Budget
          /\ now < deadline /\ report.ready = Never /\ report.failure = "none"
          /\ Started \in 0..MaxOverhead /\ Started <= now /\ dependency < Never
          /\ at' = "probe" /\ path' = path /\ dependency' = dependency /\ target' = target
          /\ deadline' = deadline /\ hasty' = hasty /\ idle' = idle
      BY DEF Places, AtConnect, Begun
    <3>2. /\ now' \in Nat /\ now <= now' /\ now' <= now + TcpTimeout
          /\ \/ report' = report
             \/ report' = [report EXCEPT !.tcp = now'] /\ target.listens <= now'
      <4>1. CASE report.tcp # Never
        BY <4>1 DEF TypeOK
      <4>2. CASE report.tcp = Never
        <5>1. PICK a \in Attempts(TcpTimeout) :
                /\ now' = a.end
                /\ report' = [report EXCEPT !.tcp = IF Listens(a.met) THEN a.end ELSE Never]
          BY <4>2
        <5>2. /\ a.end \in Nat /\ a.met \in Nat
              /\ now <= a.met /\ a.met <= a.end /\ a.end <= now + TcpTimeout
          BY AttemptBounds
        <5>3. CASE Listens(a.met)
          BY <5>1, <5>2, <5>3 DEF Listens, TypeOK, Moment
        <5>4. CASE ~Listens(a.met)
          BY <4>2, <5>1, <5>2, <5>4 DEF TypeOK
        <5> QED BY <5>3, <5>4
      <4> QED BY <4>1, <4>2
    <3> HIDE <2>7 DEF SidecarConnects
    <3> USE <3>1, <3>2
    <3>3. TypeInv'
      BY DEF TypeOK, Moment
    <3>4. /\ Started' = Started /\ report'.ready = Never /\ report'.failure = "none"
          /\ report'.tcp = report.tcp \/ (report'.tcp = now' /\ target.listens <= now')
      BY DEF TypeOK, Started
    <3>5. AtProbe' /\ Begun'
      BY <3>4 DEF AtProbe, Begun, TypeOK
    <3>6. Places'
      BY <3>5 DEF Places, AtGate, AtStart, AtPort, AtReadiness, AtConnect, AtInspect, AtOver
    <3>7. Stamped'
      BY <3>4 DEF Stamped, StampsAreReal, Started, TypeOK, Moment
    <3>8. Rested'
      BY <3>4 DEF Rested, OneIntervalIsLost, TypeOK, Moment
    <3> QED BY <3>3, <3>6, <3>7, <3>8
  <2>8. CASE SidecarProbes
    <3> USE <2>8 DEF SidecarProbes
    <3>1. PICK a \in Attempts(ProbeTime) : \E answer \in Answers(a.met) :
            \/ answer = "expected" /\ ProbePasses(a.end)
            \/ answer = "other" /\ ProbeAgain(a.end, TcpInterval, "connect")
            \/ /\ answer = "garbled" /\ now' = a.end
               /\ at' = "inspect" /\ hasty' = "garbled" /\ UNCHANGED <<report, idle>>
      OBVIOUS
    <3>2. PICK answer \in Answers(a.met) :
            \/ answer = "expected" /\ ProbePasses(a.end)
            \/ answer = "other" /\ ProbeAgain(a.end, TcpInterval, "connect")
            \/ /\ answer = "garbled" /\ now' = a.end
               /\ at' = "inspect" /\ hasty' = "garbled" /\ UNCHANGED <<report, idle>>
      BY <3>1
    <3>3. /\ a.end \in Nat /\ a.met \in Nat
          /\ now <= a.met /\ a.met <= a.end /\ a.end <= now + ProbeTime
      BY AttemptBounds
    <3>4. /\ at = "probe" /\ path = "sidecar" /\ hasty = "no" /\ deadline = Started + Budget
          /\ now <= deadline + TcpTimeout /\ report.ready = Never /\ report.failure = "none"
          /\ Started \in 0..MaxOverhead /\ Started <= now /\ dependency < Never
          /\ path' = path /\ dependency' = dependency /\ target' = target /\ deadline' = deadline
      BY DEF Places, AtProbe, Begun
    <3>5. CASE answer = "expected"
      <4>1. ProbePasses(a.end)
        BY <3>2, <3>5
      <4>2. Serves(a.met)
        BY <3>5 DEF Answers
      <4> HIDE <2>8 DEF SidecarProbes
      <4>3. /\ at' = "over" /\ now' = a.end /\ report' = [report EXCEPT !.ready = a.end]
            /\ hasty' = hasty /\ idle' = idle
        BY <4>1 DEF ProbePasses
      <4> USE <3>3, <3>4, <4>3
      <4>4. TypeInv'
        BY DEF TypeOK, Moment
      <4>5. Started' = Started /\ report'.tcp = report.tcp /\ report'.ready = a.end
            /\ report'.failure = "none"
        BY DEF TypeOK, Started
      <4>6. InBudget'
        BY <4>5 DEF InBudget, TypeOK, Moment
      <4>7. AtOver'
        BY <4>5, <4>6 DEF AtOver, TargetFailed
      <4>8. Places'
        BY <4>7 DEF Places, AtGate, AtStart, Begun, AtPort, AtReadiness, AtConnect, AtProbe, AtInspect
      <4>9. Stamped'
        BY <4>2, <4>5 DEF Stamped, StampsAreReal, Started, Serves, TypeOK, Moment
      <4>10. Rested'
        BY <4>2, <4>5 DEF Rested, OneIntervalIsLost, Serves, Alive, TypeOK, Moment
      <4> QED BY <4>4, <4>8, <4>9, <4>10
    <3>6. CASE answer = "other"
      <4>1. Rests(a.end, TcpInterval) /\ at' = "connect" /\ report' = report /\ hasty' = hasty
        BY <3>2, <3>6 DEF ProbeAgain
      <4>2. ~Serves(a.met)
        BY <3>6 DEF Answers
      <4> HIDE <2>8 DEF SidecarProbes
      <4>3. Rested' /\ now' = a.end + TcpInterval /\ idle' \in Nat
        BY <4>1, <4>2, <3>3, <3>4, RestStep
      <4>4. at' = "connect" /\ report' = report /\ hasty' = hasty
        BY <4>1
      <4> USE <3>3, <3>4, <4>3, <4>4
      <4>5. TypeInv'
        BY DEF TypeOK, Moment
      <4>6. Lasts' => now' < target.serves + ProbeTime + TcpInterval
        BY <4>2 DEF Lasts, Serves, Alive, TypeOK, Moment
      <4>7. AtConnect'
        BY <4>6 DEF AtConnect, Started, TypeOK, Moment
      <4>8. Begun'
        BY DEF Begun, Started, TypeOK
      <4>9. Places'
        BY <4>7, <4>8 DEF Places, AtGate, AtStart, AtPort, AtReadiness, AtProbe, AtInspect, AtOver
      <4>10. Stamped'
        BY DEF Stamped, StampsAreReal, Started, TypeOK, Moment
      <4> QED BY <4>5, <4>9, <4>10, <4>3
    <3>7. CASE answer = "garbled"
      <4>1. now' = a.end /\ at' = "inspect" /\ hasty' = "garbled" /\ report' = report /\ idle' = idle
        BY <3>2, <3>7
      <4> HIDE <2>8 DEF SidecarProbes
      <4> USE <3>3, <3>4, <4>1
      <4>2. TypeInv'
        BY DEF TypeOK, Moment
      <4>3. InBudget'
        BY DEF InBudget, Started, TypeOK
      <4>4. AtInspect' /\ Begun'
        BY <4>3 DEF AtInspect, GivenUp, Begun, Started, TypeOK
      <4>5. Places'
        BY <4>4 DEF Places, AtGate, AtStart, AtPort, AtReadiness, AtConnect, AtProbe, AtOver
      <4>6. Stamped' /\ Rested'
        BY DEF Stamped, StampsAreReal, Rested, OneIntervalIsLost, TypeOK, Moment
      <4> QED BY <4>2, <4>5, <4>6
    <3> QED BY <3>2, <3>5, <3>6, <3>7
  <2>9. CASE StartupExpires
    <3> USE <2>9 DEF StartupExpires, OutOfTime, InTime
    <3>1. /\ at \in {"port", "readiness", "connect"} /\ now >= deadline
          /\ at' = "inspect" /\ path' = path /\ now' = now /\ deadline' = deadline
          /\ dependency' = dependency /\ target' = target /\ report' = report
          /\ hasty' = hasty /\ idle' = idle
      BY DEF TypeOK
    <3> HIDE <2>9 DEF StartupExpires
    <3>2. GivenUp /\ InBudget /\ Started \in Nat
      <4>1. Started \in Nat /\ Started <= now
        BY <3>1 DEF Places, Begun
      <4>2. CASE at = "port"
        BY <3>1, <4>1, <4>2 DEF Places, AtPort, GivenUp, InBudget, Lasts, TypeOK, Moment
      <4>3. CASE at = "connect"
        BY <3>1, <4>1, <4>3 DEF Places, AtConnect, GivenUp, InBudget, Lasts, TypeOK, Moment
      <4>4. CASE at = "readiness"
        <5>1. report.tcp \in Nat
          BY DEF TypeOK, Moment
        <5>2. /\ ReadinessBudget(report.tcp) \in Nat /\ ReadinessBudget(report.tcp) >= MinReadiness
              /\ report.tcp + ReadinessBudget(report.tcp) >= Started + Budget
              /\ report.tcp + ReadinessBudget(report.tcp) <= Started + Budget
                 \/ ReadinessBudget(report.tcp) = MinReadiness
          BY <5>1, ReadinessBounds
        <5>3. GivenUp
          BY <3>1, <4>1, <4>4, <5>1, <5>2 DEF Places, AtReadiness, GivenUp, Lasts, TypeOK, Moment
        <5>4. InBudget
          BY <3>1, <4>1, <4>4, <5>1, <5>2 DEF Places, AtReadiness, InBudget, TypeOK
        <5> QED BY <4>1, <5>3, <5>4
      <4> QED BY <3>1, <4>2, <4>3, <4>4, <4>1
    <3> USE <3>1, <3>2
    <3>3. TypeInv'
      BY DEF TypeOK
    <3>4. GivenUp' /\ InBudget'
      BY DEF GivenUp, InBudget, Started, Lasts
    <3>5. Begun'
      BY DEF Places, Begun, Started
    <3>6. Places'
      BY <3>4, <3>5 DEF Places, AtGate, AtStart, AtPort, AtReadiness, AtConnect, AtProbe, AtInspect, AtOver
    <3>7. Stamped' /\ Rested'
      BY DEF Stamped, StampsAreReal, Rested, OneIntervalIsLost
    <3> QED BY <3>3, <3>6, <3>7
  <2>10. CASE CallFails
    <3> USE <2>10 DEF CallFails
    <3>1. /\ at \in {"connect", "probe"} /\ path = "sidecar"
          /\ at' = "inspect" /\ path' = path /\ now' = now /\ deadline' = deadline
          /\ dependency' = dependency /\ target' = target /\ report' = report
          /\ hasty' = "call" /\ idle' = idle
      OBVIOUS
    <3> HIDE <2>10 DEF CallFails
    <3> USE <3>1
    <3>2. TypeInv'
      BY DEF TypeOK
    <3>3. InBudget'
      BY DEF Places, AtConnect, AtProbe, Begun, InBudget, Started, TypeOK
    <3>4. AtInspect' /\ Begun'
      BY <3>3 DEF Places, AtInspect, GivenUp, Begun, Started
    <3>5. Places'
      BY <3>4 DEF Places, AtGate, AtStart, AtPort, AtReadiness, AtConnect, AtProbe, AtOver
    <3>6. Stamped' /\ Rested'
      BY DEF Stamped, StampsAreReal, Rested, OneIntervalIsLost
    <3> QED BY <3>2, <3>5, <3>6
  <2>11. CASE Inspect
    <3> USE <2>11 DEF Inspect, Ends
    <3>1. PICK failure \in {"exited", "never_opened", "not_ready"} :
            /\ at = "inspect" /\ at' = "over" /\ report' = [report EXCEPT !.failure = failure]
            /\ path' = path /\ now' = now /\ deadline' = deadline
            /\ dependency' = dependency /\ target' = target /\ hasty' = hasty /\ idle' = idle
      OBVIOUS
    <3> HIDE <2>11 DEF Inspect
    <3> USE <3>1
    <3>2. TypeInv'
      BY DEF TypeOK, Failure
    <3>3. /\ Started' = Started /\ report'.tcp = report.tcp /\ report'.ready = report.ready
          /\ report'.failure = failure
      BY DEF TypeOK, Started
    <3>4. GivenUp' /\ InBudget'
      BY <3>3 DEF Places, AtInspect, GivenUp, InBudget, Lasts
    <3>5. AtOver'
      BY <3>3, <3>4 DEF Places, Begun, AtOver
    <3>6. Places'
      BY <3>5 DEF Places, AtGate, AtStart, Begun, AtPort, AtReadiness, AtConnect, AtProbe, AtInspect
    <3>7. Stamped' /\ Rested'
      BY <3>3 DEF Stamped, StampsAreReal, Rested, OneIntervalIsLost, Started
    <3> QED BY <3>2, <3>6, <3>7
  <2>12. CASE UNCHANGED vars
    <3> USE <2>12 DEF vars
    <3>1. TypeInv'
      BY DEF TypeOK
    <3>2. Places'
      BY DEF Places, AtGate, AtStart, Begun, AtPort, AtReadiness, AtConnect, AtProbe, AtInspect,
             AtOver, GivenUp, InBudget, Started, Alone, Lasts, ReadinessBudget, TargetFailed
    <3>3. Stamped' /\ Rested'
      BY DEF Stamped, StampsAreReal, Rested, OneIntervalIsLost
    <3> QED BY <3>1, <3>2, <3>3
  <2> QED BY <2>1, <2>2, <2>3, <2>4, <2>5, <2>6, <2>7, <2>8, <2>9, <2>10, <2>11, <2>12
          DEF Next, Over, Waits, Gates, HostWaits, SidecarWaits
<1> QED BY <1>1, <1>2, PTL DEF Spec

-----------------------------------------------------------------------------
(***************************************************************************)
(* What a start-up promises, from StartupSafe.                             *)
(***************************************************************************)

\* No loop misses a peer that was there early enough to be met: the last attempt
\* that failed met it before it was there, and was the last for want of time.
THEOREM SteadyPeerSafe == Spec => []SteadyPeerIsFound
<1>1. TypeInv /\ Places => SteadyPeerIsFound
  <2> SUFFICES ASSUME TypeInv, Places PROVE SteadyPeerIsFound
    OBVIOUS
  <2>1. TargetFailed => at = "over"
    BY DEF Places, AtGate, AtStart, Begun, Alone, TargetFailed, TypeInv, TypeOK
  <2>2. report.failure = "dependency" => at = "over"
    BY DEF Places, AtGate, AtStart, Begun, Alone, TypeInv, TypeOK
  <2> QED BY <2>1, <2>2 DEF Places, AtOver, GivenUp, Lasts, SteadyPeerIsFound, Started,
                            TypeInv, TypeOK, Moment
<1> QED BY <1>1, StartupSafe, PTL

\* Between a target's being ready and its stamp lies one polling interval of rest at
\* most, for every interval and every length of an attempt.
THEOREM IntervalSafe == Spec => []OneIntervalIsLost
<1>1. Rested => OneIntervalIsLost
  BY DEF Rested
<1> QED BY <1>1, StartupSafe, PTL

\* Stamps are in order and never earlier than what they stamp.
THEOREM StampsSafe == Spec => []StampsAreReal
<1>1. Stamped => StampsAreReal
  BY DEF Stamped
<1> QED BY <1>1, StartupSafe, PTL

\* A target is given up on at the end of its budget at the earliest, and a dependency
\* at the end of its own.
THEOREM PatienceSafe == Spec => []NobodyIsGivenUpEarly
<1>1. TypeInv /\ Places => NobodyIsGivenUpEarly
  BY DEF Places, AtGate, AtStart, Begun, Alone, AtOver, GivenUp, NobodyIsGivenUpEarly, TargetFailed,
         Started, TypeInv, TypeOK
<1> QED BY <1>1, StartupSafe, PTL

\* A loop outlasts its deadline by its last turn at most, for every length of the
\* attempts in it.
THEOREM OverrunSafe == Spec => []OverrunIsOneTurn
<1>1. TypeInv /\ Places => OverrunIsOneTurn
  <2> SUFFICES ASSUME TypeInv, Places, at # "start" PROVE OverrunIsOneTurn
    BY DEF OverrunIsOneTurn
  <2> USE Bounds DEF OverrunIsOneTurn, TypeInv, TypeOK, Moment, Started
  <2>1. CASE at = "gate"
    BY <2>1 DEF Places, AtGate
  <2>2. CASE at = "port"
    BY <2>2 DEF Places, AtPort, Begun
  <2>3. CASE at = "connect" \/ at = "probe"
    BY <2>3 DEF Places, AtConnect, AtProbe, Begun
  <2>4. CASE at = "readiness"
    <3>1. /\ report.tcp \in Nat
          /\ ReadinessBudget(report.tcp) \in Nat
          /\ report.tcp + ReadinessBudget(report.tcp) <= Started + Budget
             \/ ReadinessBudget(report.tcp) = MinReadiness
      BY ReadinessBounds
    <3> QED BY <2>4, <3>1 DEF Places, AtReadiness, Begun
  <2>5. CASE at = "inspect"
    BY <2>5 DEF Places, AtInspect, InBudget, Begun
  <2>6. CASE at = "over"
    BY <2>6 DEF Places, AtOver, InBudget, Failure
  <2> QED BY <2>1, <2>2, <2>3, <2>4, <2>5, <2>6
<1> QED BY <1>1, StartupSafe, PTL

\* No target is started before its dependency accepted, where that can be seen.
THEOREM GateSafe == Spec => []TargetStartsBehindGate
<1>1. TypeInv /\ Places => TargetStartsBehindGate
  BY DEF Places, AtGate, AtStart, Begun, AtOver, Started, TargetStartsBehindGate, TypeInv, TypeOK,
         Failure
<1> QED BY <1>1, StartupSafe, PTL

=============================================================================
