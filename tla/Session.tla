------------------------------- MODULE Session -------------------------------
(***************************************************************************)
(* One command, from its configuration to its exit code: test, measure or  *)
(* validate (cli/main.py), the repeats of the experiment                   *)
(* (engine/runner.py), their aggregation (evidence/model.py) and the gate. *)
(*                                                                         *)
(* A repeat either yields a verdict per contract or raises; what it raises *)
(* is a bag of exceptions, wrapped in a group when a task group was in the *)
(* way.                                                                    *)
(***************************************************************************)
EXTENDS Config

CONSTANTS
  Sources,        \* what a command may be given
  Contract,       \* the contracts evaluated
  Reachable(_),   \* the statuses a contract can have
  Errors,         \* what a repeat may raise: [leaves, grouped]
  MaxRepeat

ASSUME MaxRepeatAssumption == MaxRepeat \in Nat \ {0}

Status == {"PASS", "FAIL", "WARN", "SKIP", "INCONCLUSIVE", "ERROR", "FLAKY"}
FailOn == {"none", "error", "warn"}

ASSUME ReachableAssumption ==
  \A c \in Contract : Reachable(c) \subseteq Status \ {"FLAKY"}

VARIABLES
  stage,    \* "given", "loaded", "running", "ended" or "exited"
  sources,  \* what the command was given
  config,   \* what it loaded, {} before
  repeat,   \* --repeat
  runs,     \* the verdicts of the repeats that ended
  raised,   \* what the session raised, {} if nothing
  gate,     \* --fail-on and --allow-inconclusive
  code      \* the exit code, {} before

vars == <<stage, sources, config, repeat, runs, raised, gate, code>>

ExitCode == [ok |-> 0, violated |-> 1, config |-> 2, infrastructure |-> 3, internal |-> 4]

Gate == [failOn : FailOn, allow : BOOLEAN]
Results == {r \in [Contract -> Status] : \A c \in Contract : r[c] \in Reachable(c)}

Init ==
  /\ stage = "given"
  /\ sources \in Sources
  /\ config = {}
  /\ repeat \in IF sources.command = "validate" THEN {1} ELSE 1..MaxRepeat
  /\ gate \in IF sources.command = "test" THEN Gate ELSE {[failOn |-> "none", allow |-> FALSE]}
  /\ runs = <<>>
  /\ raised = {}
  /\ code = {}

-----------------------------------------------------------------------------
(* Aggregation of the repeats of one contract.                             *)

Severity ==
  [ERROR |-> 5, FAIL |-> 4, FLAKY |-> 3, WARN |-> 2, INCONCLUSIVE |-> 1, SKIP |-> 1,
   PASS |-> 0]

StatusesOf(c) == {runs[i][c] : i \in DOMAIN runs}

\* Seeded fault: an unmeasured repeat counts as a verdict that differs.
ConsideredAll(c) == StatusesOf(c)

\* Repeats that could not be measured are set aside if another one was.
Considered(c) ==
  LET measured == StatusesOf(c) \ {"INCONCLUSIVE"}
  IN  IF measured # {} THEN measured ELSE StatusesOf(c)

Aggregate(c) ==
  IF \E s \in Status : Considered(c) = {s}
  THEN CHOOSE s \in Status : Considered(c) = {s}
  ELSE "FLAKY"

\* The verdict a report shows for the session.
VerdictStatus ==
  LET measured == {Aggregate(c) : c \in Contract} \ {"SKIP", "INCONCLUSIVE"}
  IN  IF measured = {} THEN "PASS"
      ELSE CHOOSE s \in measured : \A t \in measured : Severity[s] >= Severity[t]

\* Seeded fault: only the last repeat is asked whether it was measured.
UnmeasuredAtLast(c) == runs[Len(runs)][c] \in {"SKIP", "INCONCLUSIVE"}

Unmeasured(c) == \E i \in DOMAIN runs : runs[i][c] \in {"SKIP", "INCONCLUSIVE"}

-----------------------------------------------------------------------------
(* The gate.                                                               *)

BLOCKING ==
  [none |-> {}, error |-> {"FAIL", "ERROR"}, warn |-> {"FAIL", "ERROR", "WARN"}]

BlockingResults(g) ==
  {c \in Contract :
     \/ Aggregate(c) \in BLOCKING[g.failOn]
     \/ g.failOn # "none" /\ ~g.allow /\ Unmeasured(c)}

-----------------------------------------------------------------------------
(* What a failed session is reported as.                                   *)

INFRASTRUCTURE == {"unavailable", "infrastructure", "docker", "packaging"}

\* run_session turns a bare failure of the start or of the daemon into an
\* InfrastructureError; in a group they stay what they are.
Surfaced(e) ==
  IF ~e.grouped /\ e.leaves \subseteq {"startup", "docker"}
  THEN [e EXCEPT !.leaves = {"infrastructure"}] ELSE e

CodeOf(e) ==
  IF Surfaced(e).leaves \subseteq INFRASTRUCTURE
  THEN ExitCode.infrastructure ELSE ExitCode.internal

-----------------------------------------------------------------------------
(* The command.                                                            *)

Exit(c) == stage' = "exited" /\ code' = {c}

Load ==
  /\ stage = "given"
  /\ stage' = "loaded"
  /\ config' = LoadConfig(sources)
  /\ config' # {}
  /\ UNCHANGED <<sources, repeat, runs, raised, gate, code>>

Refuse ==
  /\ stage = "given"
  /\ LoadConfig(sources) = {}
  /\ Exit(ExitCode.config)
  /\ UNCHANGED <<sources, config, repeat, runs, raised, gate>>

Validate ==
  /\ stage = "loaded"
  /\ sources.command = "validate"
  /\ Exit(ExitCode.ok)
  /\ UNCHANGED <<sources, config, repeat, runs, raised, gate>>

Start ==
  /\ stage = "loaded"
  /\ sources.command # "validate"
  /\ stage' = "running"
  /\ UNCHANGED <<sources, config, repeat, runs, raised, gate, code>>

\* A repeat ends; measure evaluates no contract.
RunEnds ==
  /\ stage = "running"
  /\ Len(runs) < repeat
  /\ \E results \in IF sources.command = "test" THEN Results ELSE {<<>>} :
       runs' = Append(runs, results)
  /\ UNCHANGED <<stage, sources, config, repeat, raised, gate, code>>

\* The session is given up with the repeats it already has.
RunRaises ==
  /\ stage = "running"
  /\ Len(runs) < repeat
  /\ \E e \in Errors : raised' = {e}
  /\ stage' = "ended"
  /\ UNCHANGED <<sources, config, repeat, runs, gate, code>>

RunsOut ==
  /\ stage = "running"
  /\ Len(runs) = repeat
  /\ stage' = "ended"
  /\ UNCHANGED <<sources, config, repeat, runs, raised, gate, code>>

Report ==
  /\ stage = "ended"
  /\ raised = {}
  /\ Exit(IF sources.command = "test" /\ BlockingResults(gate) # {}
          THEN ExitCode.violated ELSE ExitCode.ok)
  /\ UNCHANGED <<sources, config, repeat, runs, raised, gate>>

GiveUp ==
  /\ stage = "ended"
  /\ \E e \in raised : Exit(CodeOf(e))
  /\ UNCHANGED <<sources, config, repeat, runs, raised, gate>>

Next ==
  \/ Load \/ Refuse \/ Validate \/ Start
  \/ RunEnds \/ RunRaises \/ RunsOut \/ Report \/ GiveUp

Spec == Init /\ [][Next]_vars

-----------------------------------------------------------------------------
(* Properties.                                                             *)

Judged == stage = "exited" /\ sources.command = "test" /\ raised = {} /\ config # {}
Gating == gate.failOn # "none"
ExitsWith(k) == code = {ExitCode[k]}

\* A contract with one and the same blocking status in every repeat that was
\* measured stops the pipeline: no repeat without a measurement can hide it
\* (evidence/model.py 48-61, cli/main.py 431-443).
SteadyFailureBlocks ==
  Judged =>
    \A c \in Contract, s \in BLOCKING[gate.failOn] :
      s \in StatusesOf(c) /\ StatusesOf(c) \subseteq {s, "INCONCLUSIVE"}
        => ExitsWith("violated")

\* Under a gate that allows nothing unmeasured, exit 0 says that every contract
\* was measured in every one of the repeats asked for, and that the verdict in
\* the report does not block (cli/main.py 434-443, evidence/model.py 103-125).
GatedPassIsMeasured ==
  Judged /\ Gating /\ ~gate.allow /\ ExitsWith("ok") =>
    /\ Len(runs) = repeat
    /\ \A c \in Contract : ~\E i \in 1..repeat : runs[i][c] \in {"SKIP", "INCONCLUSIVE"}
    /\ VerdictStatus \notin BLOCKING[gate.failOn]

\* "Explicit command-line values win over process environment. Both override the
\* file" (config/loader.py 178-179): what a weaker source says of an option makes
\* no difference to the settings loaded, in whatever order the sources are read
\* and merged, and whether the section it belongs to is there or disabled.
CommandLineDecides ==
  stage = "loaded" =>
    \A o \in Option :
      LET unfiled == [sources EXCEPT !.yaml[o] = {}]
          alone == [unfiled EXCEPT !.pairs[o] = {}, !.files[o] = {},
                                   !.process[o] = {}, !.envFile[o] = {}]
      IN  /\ sources.cli[o] # {} => LoadConfig(alone) = config
          /\ Override(sources, o) # {} => LoadConfig(unfiled) = config

=============================================================================
