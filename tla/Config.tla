------------------------------- MODULE Config -------------------------------
(***************************************************************************)
(* config/loader.py and config/models.py: one configuration out of the     *)
(* command line, the environment, dotenv files and the YAML file, and the  *)
(* rules it must obey before anything is started.                          *)
(*                                                                         *)
(* A value that may be absent is a set with at most one element.  Only the *)
(* settings that have a second source or take part in a rule are here.     *)
(* The sources of one command are a record s:                              *)
(*   command  which command loads them,                                    *)
(*   cli      its options, by Option,                                      *)
(*   pairs, files, process, envFile                                        *)
(*            what --env, --env-file, the process and the target's         *)
(*            env_file define, by Name,                                    *)
(*   env      what the target's env section gives to VAR,                  *)
(*   refers   whether the target's section refers to ${VAR},               *)
(*   yaml     the settings of the YAML file.                               *)
(***************************************************************************)
EXTENDS Integers, Sequences

Option == {"image", "port", "ready_url", "inflight_path", "grace", "drain"}

\* ROLLOUTKIT_<option>, and one variable of the target's own.
Name == Option \cup {"VAR"}

FirstGiven(values) ==
  IF \A i \in DOMAIN values : values[i] = {} THEN {}
  ELSE values[CHOOSE i \in DOMAIN values :
                values[i] # {} /\ \A j \in 1..(i - 1) : values[j] = {}]

Given(values, default) == IF values = {} THEN default ELSE CHOOSE v \in values : TRUE

-----------------------------------------------------------------------------
(* Where a value comes from.                                               *)

\* What ${VAR} and the ROLLOUTKIT_ names are looked up in.
Environment(s, name) ==
  FirstGiven(<<s.envFile[name], s.pairs[name], s.files[name], s.process[name]>>)

\* The command line gives a ROLLOUTKIT_ variable for the option, except for
\* the image, which is an argument, and under validate, which declares none.
CommandLine(s, o) ==
  IF s.command = "validate" \/ o = "image" THEN s.cli[o]
  ELSE FirstGiven(<<s.cli[o], s.process[o]>>)

\* Seeded fault: the merged environment is asked before the command line.
OverrideByEnvironment(s, o) == FirstGiven(<<Environment(s, o), CommandLine(s, o)>>)

Override(s, o) == FirstGiven(<<CommandLine(s, o), Environment(s, o)>>)

Setting(s, o) == FirstGiven(<<Override(s, o), s.yaml[o]>>)

\* The variable as the target's container gets it.
TargetEnv(s) == FirstGiven(<<s.pairs["VAR"], s.files["VAR"], s.env, s.envFile["VAR"]>>)

DefaultDuration == 5000

\* YAML null disables the contract; a path from elsewhere enables it again.
Inflight(s) ==
  LET path == Override(s, "inflight_path")
      section == IF s.yaml.inflight = {"null"} THEN {} ELSE s.yaml.inflight
  IN  IF s.yaml.inflight = {"null"} /\ path = {} THEN {}
      ELSE {[path |-> FirstGiven(<<path, s.yaml.inflight_path>>),
             duration |-> IF section = {} THEN DefaultDuration
                          ELSE Given(s.yaml.duration, DefaultDuration),
             sigtermAfter |-> IF section = {} THEN {} ELSE s.yaml.sigtermAfter]}

Config(s) ==
  [image     |-> Setting(s, "image"),
   port      |-> Setting(s, "port"),
   readiness |-> Given(Setting(s, "ready_url"), "/ready"),
   inflight  |-> Inflight(s),
   grace     |-> Given(Setting(s, "grace"), 30000),
   strategy  |-> Given(Setting(s, "drain"), "none"),
   window    |-> Given(s.yaml.window, 0),
   preStop   |-> s.yaml.preStop,
   budget    |-> Given(s.yaml.startupBudget, 15000),
   wall      |-> Given(s.yaml.startupTimeout, 90000),
   services  |-> s.yaml.services,
   env       |-> TargetEnv(s),
   expanded  |-> IF s.refers THEN Environment(s, "VAR") ELSE {}]

-----------------------------------------------------------------------------
(* What is refused.                                                        *)

AcceptProbeIntervalMs == 50
DependencyGateIntervalMs == 50
MinWindowProbeSamples == 20
MinGatePollSamples == 3

ShutdownBudget(c) == c.grace - c.preStop.duration

SleepHasDuration(c) == c.preStop.type = "sleep" => c.preStop.duration > 0
InAppHasWindow(c) == c.strategy = "in_app" => c.window > 0
BudgetIsPositive(c) == ShutdownBudget(c) > 0
LeadIsInsideRequest(c) == \A i \in c.inflight : \A lead \in i.sigtermAfter : lead < i.duration

WindowIsMeasurable(c) ==
  c.strategy = "in_app" => c.window > MinWindowProbeSamples * AcceptProbeIntervalMs

StartupBudgetIsReachable(c) == c.budget < c.wall

NamesAreFree(c) == \A d \in c.services : d.name # "target"

GatesCanPoll(c) ==
  \A d \in c.services : \A b \in d.waitFor : b > MinGatePollSamples * DependencyGateIntervalMs

NoRemovedSetting(s) == "timeouts.overall" \notin s.yaml.removed

Loads(s) ==
  LET c == Config(s) IN
  /\ s.refers => c.expanded # {}
  /\ c.image # {} /\ c.port # {}
  /\ NoRemovedSetting(s)
  /\ SleepHasDuration(c) /\ InAppHasWindow(c) /\ BudgetIsPositive(c)
  /\ LeadIsInsideRequest(c)
  /\ NamesAreFree(c)
  /\ WindowIsMeasurable(c)
  /\ StartupBudgetIsReachable(c)
  /\ GatesCanPoll(c)

\* The configuration, or {} for a ConfigError.
LoadConfig(s) == IF Loads(s) THEN {Config(s)} ELSE {}

=============================================================================
