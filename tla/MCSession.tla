----------------------------- MODULE MCSession -----------------------------
(***************************************************************************)
(* Instances of Session.  Two contracts with every status the catalog      *)
(* knows of them; the sources vary where one option or one rule's numbers  *)
(* come from, around a command that loads.  Those are given to validate,   *)
(* which starts nothing, the repeats follow from three of them.            *)
(***************************************************************************)
EXTENDS Session, TLC

C == INSTANCE Catalog

MCReachable(c) == {v.status : v \in C!CATALOG[c]}

Leaves == {"docker", "packaging", "startup", "other"}
MCErrors ==
  {[leaves |-> {l}, grouped |-> FALSE] : l \in Leaves \cup {"unavailable"}}
    \cup [leaves : SUBSET Leaves \ {{}}, grouped : {TRUE}]

-----------------------------------------------------------------------------
Nothing == [n \in Name |-> {}]

Yaml ==
  [o \in Option |-> {}] @@
  [inflight |-> {}, duration |-> {}, sigtermAfter |-> {}, window |-> {5000},
   preStop |-> [type |-> "none", duration |-> 0], startupBudget |-> {},
   startupTimeout |-> {}, services |-> {}, removed |-> {}]

Base ==
  [command |-> "validate", pairs |-> Nothing, files |-> Nothing, process |-> Nothing,
   envFile |-> Nothing, env |-> {}, refers |-> FALSE,
   cli |-> [Nothing EXCEPT !["image"] = {"cli"}, !["port"] = {8000}],
   yaml |-> Yaml]

(* One option, given by any of its sources.                                *)
Source == {"cli", "pairs", "files", "process", "envFile", "yaml"}

ValueFrom(o, f) ==
  CASE o = "port"  -> CASE f = "cli" -> 1 [] f = "process" -> 2 [] f = "yaml" -> 3 [] OTHER -> 4
    [] o = "grace" -> CASE f = "cli" -> 10000 [] f = "process" -> 20000 [] OTHER -> 40000
    [] o = "drain" -> CASE f = "cli" -> "prestop" [] f = "process" -> "none" [] OTHER -> "in_app"
    [] OTHER       -> f

OptionFrom(o, given) ==
  [f \in DOMAIN Base |->
     IF f \in Source
     THEN [Base[f] EXCEPT ![o] = IF f \in given THEN {ValueFrom(o, f)} ELSE {}]
     ELSE Base[f]]

PrecedenceSources ==
  {OptionFrom(o, given) : o \in Option, given \in SUBSET Source}

(* The in-flight section of the file, with a path from elsewhere or not.   *)
InflightSources ==
  {[OptionFrom("inflight_path", given) EXCEPT
      !.yaml.inflight = section, !.yaml.duration = d, !.yaml.sigtermAfter = l] :
     given \in SUBSET {"cli", "process", "yaml"}, section \in {{}, {"null"}, {"section"}},
     d \in {{}, {3000}}, l \in {{}, {3000}, {4999}, {5000}}}

(* The numbers of each rule, on and next to its boundary.                  *)
WithYaml(y) == [Base EXCEPT !.yaml = y @@ Yaml]

RuleSources ==
  {WithYaml([drain |-> {"in_app"}, window |-> w]) : w \in {{}, {999}, {1000}, {1001}}}
    \cup {WithYaml([startupBudget |-> b, startupTimeout |-> w]) :
            b \in {{}, {89999}, {90000}}, w \in {{}, {15000}, {15001}}}
    \cup {WithYaml([services |-> {[name |-> n, waitFor |-> b]}]) :
            n \in {"db", "target"}, b \in {{}, {149}, {150}, {151}}}
    \cup {WithYaml([grace |-> g, preStop |-> [type |-> t, duration |-> d]]) :
            g \in {{}, {5000}}, t \in {"none", "sleep"}, d \in {0, 4999, 5000}}
    \cup {WithYaml([removed |-> {"timeouts.overall"}])}

(* One variable of the target, given by any of its sources.                *)
VariableSources ==
  {[f \in DOMAIN Base |->
      IF f \in {"pairs", "files", "process", "envFile"}
      THEN [Base[f] EXCEPT !["VAR"] = IF f \in given THEN {f} ELSE {}]
      ELSE CASE f = "env"    -> IF f \in given THEN {f} ELSE {}
             [] f = "refers" -> refers
             [] OTHER        -> Base[f]] :
     given \in SUBSET {"pairs", "files", "process", "envFile", "env"}, refers \in BOOLEAN}

MCSources ==
  PrecedenceSources \cup InflightSources \cup RuleSources \cup VariableSources
    \cup {[Base EXCEPT !.command = c] : c \in {"test", "measure"}}
    \cup {[WithYaml([startupBudget |-> {90000}]) EXCEPT !.command = "test"]}

=============================================================================
