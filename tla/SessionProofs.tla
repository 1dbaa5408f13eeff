---------------------------- MODULE SessionProofs ----------------------------
(***************************************************************************)
(* Theorems about Session, for any sources, contracts, errors and number   *)
(* of repeats: what the exit code of a session says of its repeats.        *)
(***************************************************************************)
EXTENDS Session, SequenceTheorems, TLAPS

(* The repeats of a contract and the gate.                                 *)

\* A contract's aggregate is a status.
LEMMA AggregateType == \A c \in Contract : Aggregate(c) \in Status
BY DEF Aggregate, Status

\* Repeats that agree wherever they were measured are the contract's status.
LEMMA SteadyAggregate ==
  ASSUME NEW c \in Contract, NEW s \in Status \ {"INCONCLUSIVE"},
         s \in StatusesOf(c), StatusesOf(c) \subseteq {s, "INCONCLUSIVE"}
  PROVE  Aggregate(c) = s
<1>1. Considered(c) = {s}
  BY DEF Considered
<1>2. \E x \in Status : Considered(c) = {x}
  BY <1>1
<1>3. (CHOOSE x \in Status : Considered(c) = {x}) = s
  BY <1>1
<1> QED BY <1>2, <1>3 DEF Aggregate

\* A set of statuses has a worst one.
LEMMA WorstExists ==
  ASSUME NEW S \in SUBSET Status, S # {}
  PROVE  \E s \in S : \A t \in S : Severity[s] >= Severity[t]
<1>1. CASE "ERROR" \in S
  BY <1>1 DEF Status, Severity
<1>2. CASE "ERROR" \notin S /\ "FAIL" \in S
  BY <1>2 DEF Status, Severity
<1>3. CASE S \cap {"ERROR", "FAIL"} = {} /\ "FLAKY" \in S
  BY <1>3 DEF Status, Severity
<1>4. CASE S \cap {"ERROR", "FAIL", "FLAKY"} = {} /\ "WARN" \in S
  BY <1>4 DEF Status, Severity
<1>5. CASE S \cap {"ERROR", "FAIL", "FLAKY", "WARN"} = {} /\ "INCONCLUSIVE" \in S
  BY <1>5 DEF Status, Severity
<1>6. CASE S \cap {"ERROR", "FAIL", "FLAKY", "WARN", "INCONCLUSIVE"} = {} /\ "SKIP" \in S
  BY <1>6 DEF Status, Severity
<1>7. CASE S = {"PASS"}
  BY <1>7 DEF Status, Severity
<1>8. S \cap {"ERROR", "FAIL", "FLAKY", "WARN", "INCONCLUSIVE", "SKIP"} = {} => S = {"PASS"}
  BY DEF Status
<1> QED BY <1>1, <1>2, <1>3, <1>4, <1>5, <1>6, <1>7, <1>8

\* The verdict of the report is the aggregate of a contract, or a pass.
LEMMA VerdictIsAggregate ==
  VerdictStatus = "PASS" \/ \E c \in Contract : VerdictStatus = Aggregate(c)
<1> DEFINE measured == {Aggregate(c) : c \in Contract} \ {"SKIP", "INCONCLUSIVE"}
           worst == CHOOSE s \in measured : \A t \in measured : Severity[s] >= Severity[t]
<1>1. CASE measured = {}
  BY <1>1 DEF VerdictStatus
<1>2. CASE measured # {}
  <2>1. measured \in SUBSET Status
    BY AggregateType
  <2>2. \E s \in measured : \A t \in measured : Severity[s] >= Severity[t]
    BY <1>2, <2>1, WorstExists
  <2>3. worst \in measured
    BY <2>2
  <2> QED BY <1>2, <2>3 DEF VerdictStatus
<1> QED BY <1>1, <1>2

\* What the gate lets through was measured and does not block.
LEMMA GateLetsThrough ==
  ASSUME gate \in Gate, gate.failOn # "none", ~gate.allow, BlockingResults(gate) = {}
  PROVE  /\ \A c \in Contract : ~Unmeasured(c)
         /\ VerdictStatus \notin BLOCKING[gate.failOn]
<1>1. \A c \in Contract : ~Unmeasured(c) /\ Aggregate(c) \notin BLOCKING[gate.failOn]
  BY DEF BlockingResults
<1>2. "PASS" \notin BLOCKING[gate.failOn]
  BY DEF BLOCKING, Gate, FailOn
<1> QED BY <1>1, <1>2, VerdictIsAggregate

-----------------------------------------------------------------------------
(* The session.                                                            *)

\* What a repeat yields: a status per contract, or nothing under measure.
Yields == IF sources.command = "test" THEN Results ELSE {<<>>}

TypeOK ==
  /\ stage \in {"given", "loaded", "running", "ended", "exited"}
  /\ sources \in Sources
  /\ config \in {{}, {Config(sources)}}
  /\ repeat \in 1..MaxRepeat
  /\ runs \in Seq(Yields)
  /\ raised \in {{}} \cup {{e} : e \in Errors}
  /\ gate \in Gate
  /\ code \in {{}} \cup {{k} : k \in 0..4}

\* The configuration is what the sources load, and only a refused command goes
\* on without one.
Loaded ==
  /\ config # {} => config = {Config(sources)} /\ Loads(sources)
  /\ stage = "given" => config = {}
  /\ stage \in {"loaded", "running", "ended"} => config # {}

\* Nothing is raised before a repeat, and a session that raised nothing ends with
\* all of its repeats.
Repeats ==
  /\ Len(runs) <= repeat
  /\ stage \in {"given", "loaded", "running"} => raised = {}
  /\ stage = "ended" /\ raised = {} => Len(runs) = repeat

\* A judged session has all its repeats, and its code is the gate's answer.
GateDecides ==
  Judged =>
    /\ Len(runs) = repeat
    /\ code = {IF BlockingResults(gate) # {} THEN ExitCode.violated ELSE ExitCode.ok}

Inv == TypeOK /\ Loaded /\ Repeats /\ GateDecides

\* The gate's answer depends on the repeats and the options alone.
LEMMA AnswerStays ==
  UNCHANGED <<runs, gate>> => BlockingResults(gate)' = BlockingResults(gate)
BY DEF BlockingResults, Aggregate, Considered, StatusesOf, Unmeasured

\* Every reachable state is one a command can be in, and its parts fit together.
THEOREM SessionSafe == Spec => []Inv
<1>1. Init => Inv
  <2> SUFFICES ASSUME Init PROVE Inv
    OBVIOUS
  <2>1. repeat \in 1..MaxRepeat
    BY MaxRepeatAssumption DEF Init
  <2>2. gate \in Gate
    <3>1. [failOn |-> "none", allow |-> FALSE] \in Gate
      BY DEF Gate, FailOn
    <3>2. gate \in Gate \/ gate \in {[failOn |-> "none", allow |-> FALSE]}
      BY DEF Init
    <3> QED BY <3>1, <3>2
  <2>3. runs \in Seq(Yields) /\ Len(runs) = 0
    BY EmptySeq DEF Init
  <2>4. raised \in {{}} \cup {{e} : e \in Errors}
    BY DEF Init
  <2> QED BY <2>1, <2>2, <2>3, <2>4 DEF Init, Inv, TypeOK, Loaded, Repeats, GateDecides, Judged
<1>2. Inv /\ [Next]_vars => Inv'
  <2> SUFFICES ASSUME Inv, [Next]_vars PROVE Inv'
    OBVIOUS
  <2> USE DEF Inv, TypeOK, Loaded, Repeats, GateDecides, Judged
  <2>1. CASE Load
    BY <2>1 DEF Load, LoadConfig, Yields
  <2>2. CASE Refuse
    BY <2>2 DEF Refuse, Exit, ExitCode, Yields
  <2>3. CASE Validate
    BY <2>3 DEF Validate, Exit, ExitCode, Yields
  <2>4. CASE Start
    BY <2>4 DEF Start, Yields
  <2>5. CASE RunEnds
    <3>1. PICK results \in Yields : runs' = Append(runs, results)
      BY <2>5 DEF RunEnds, Yields
    <3>2. runs' \in Seq(Yields) /\ Len(runs') = Len(runs) + 1
      BY <3>1, AppendProperties
    <3>3. Len(runs) \in Nat
      BY LenProperties
    <3> QED BY <2>5, <3>2, <3>3 DEF RunEnds, Yields
  <2>6. CASE RunRaises
    BY <2>6 DEF RunRaises, Yields
  <2>7. CASE RunsOut
    BY <2>7 DEF RunsOut, Yields
  <2>8. CASE Report
    <3>1. UNCHANGED <<sources, config, repeat, runs, raised, gate>>
      BY <2>8 DEF Report
    <3>2. BlockingResults(gate)' = BlockingResults(gate)
      BY <3>1, AnswerStays
    <3>3. \/ sources.command = "test" /\ BlockingResults(gate) # {} /\ code' = {1}
          \/ ~(sources.command = "test" /\ BlockingResults(gate) # {}) /\ code' = {0}
      BY <2>8 DEF Report, Exit, ExitCode
    <3>4. stage' = "exited" /\ Len(runs) = repeat
      BY <2>8 DEF Report, Exit
    <3>5. GateDecides'
      BY <3>1, <3>2, <3>3, <3>4 DEF ExitCode
    <3> QED BY <3>1, <3>3, <3>4, <3>5 DEF Yields
  <2>9. CASE GiveUp
    BY <2>9 DEF GiveUp, Exit, CodeOf, ExitCode, Yields
  <2>10. CASE UNCHANGED vars
    <3>1. BlockingResults(gate)' = BlockingResults(gate)
      BY <2>10, AnswerStays DEF vars
    <3> QED BY <2>10, <3>1 DEF vars, Yields
  <2> QED BY <2>1, <2>2, <2>3, <2>4, <2>5, <2>6, <2>7, <2>8, <2>9, <2>10 DEF Next
<1> QED BY <1>1, <1>2, PTL DEF Spec

\* The type invariant, for any sources and contracts.
THEOREM TypeCorrect == Spec => []TypeOK
<1>1. Inv => TypeOK
  BY DEF Inv
<1> QED BY <1>1, SessionSafe, PTL

\* One blocking status in every measured repeat of a contract stops the pipeline.
THEOREM SteadySafe == Spec => []SteadyFailureBlocks
<1>1. Inv => SteadyFailureBlocks
  <2> SUFFICES ASSUME Inv, Judged, NEW c \in Contract, NEW s \in BLOCKING[gate.failOn],
                      s \in StatusesOf(c), StatusesOf(c) \subseteq {s, "INCONCLUSIVE"}
               PROVE  ExitsWith("violated")
    BY DEF SteadyFailureBlocks
  <2>1. gate.failOn \in {"none", "error", "warn"}
    BY DEF Inv, TypeOK, Gate, FailOn
  <2>2. s \in {"FAIL", "ERROR", "WARN"}
    BY <2>1 DEF BLOCKING
  <2>3. Aggregate(c) = s
    BY <2>2, SteadyAggregate DEF Status
  <2>4. BlockingResults(gate) # {}
    BY <2>3 DEF BlockingResults
  <2>5. code = {ExitCode.violated}
    BY <2>4 DEF Inv, GateDecides
  <2> QED BY <2>5 DEF ExitsWith, ExitCode
<1> QED BY <1>1, SessionSafe, PTL

\* A gate that allows nothing unmeasured and exits 0 has seen every repeat
\* measured, and a verdict that does not block.
THEOREM GatedSafe == Spec => []GatedPassIsMeasured
<1>1. Inv => GatedPassIsMeasured
  <2> SUFFICES ASSUME Inv, Judged, Gating, ~gate.allow, ExitsWith("ok")
               PROVE  /\ Len(runs) = repeat
                      /\ \A c \in Contract :
                           ~\E i \in 1..repeat : runs[i][c] \in {"SKIP", "INCONCLUSIVE"}
                      /\ VerdictStatus \notin BLOCKING[gate.failOn]
    BY DEF GatedPassIsMeasured
  <2>1. Len(runs) = repeat /\ DOMAIN runs = 1..repeat
    BY LenProperties DEF Inv, TypeOK, GateDecides
  <2>2. BlockingResults(gate) = {}
    BY DEF Inv, GateDecides, ExitsWith, ExitCode
  <2>3. (\A c \in Contract : ~Unmeasured(c)) /\ VerdictStatus \notin BLOCKING[gate.failOn]
    BY <2>2, GateLetsThrough DEF Inv, TypeOK, Gating
  <2> QED BY <2>1, <2>3 DEF Unmeasured
<1> QED BY <1>1, SessionSafe, PTL

=============================================================================
