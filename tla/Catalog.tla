------------------------------- MODULE Catalog -------------------------------
(***************************************************************************)
(* The contract catalog, contracts/catalog.py: what `explain` tells a      *)
(* reader about each verdict a report can name, with the drain strategies  *)
(* under which it is reachable.  The explanations themselves are left out. *)
(***************************************************************************)

Strategies == {"prestop", "in_app", "none"}

VerdictFor(branch, status, strategies) ==
  [branch |-> branch, status |-> status, appliesTo |-> strategies]

Verdict(branch, status) == VerdictFor(branch, status, Strategies)

StartupVerdicts ==
  {Verdict("within_budget", "PASS"),
   Verdict("within_resolution", "PASS"),
   Verdict("over_budget", "WARN")}

ReadinessVerdicts ==
  {Verdict("stable", "PASS"),
   Verdict("same_as_health", "WARN"),
   Verdict("latency_over_budget", "WARN"),
   Verdict("flapping", "FAIL"),
   Verdict("incorrect", "FAIL")}

SignalVerdicts ==
  {Verdict("shutdown_observed", "PASS"),
   Verdict("shutdown_not_started", "FAIL"),
   Verdict("signal_discarded", "FAIL"),
   Verdict("killed", "FAIL")}

DrainDecided ==
  {VerdictFor("prestop_not_applicable", "PASS", {"prestop"}),
   VerdictFor("none_uncovered", "WARN", {"none"}),
   VerdictFor("in_app_covered", "PASS", {"in_app"}),
   VerdictFor("in_app_thin_margin", "WARN", {"in_app"}),
   VerdictFor("in_app_readiness_not_signaled", "WARN", {"in_app"}),
   VerdictFor("in_app_listener_closed_early", "FAIL", {"in_app"}),
   VerdictFor("accept_then_reset", "FAIL", {"in_app"})}

DrainRefused ==
  {VerdictFor("shutdown_never_started", "INCONCLUSIVE", {"in_app"}),
   VerdictFor("port_proxy_likely", "INCONCLUSIVE", {"in_app"}),
   VerdictFor("accept_window_unmeasured", "INCONCLUSIVE", {"in_app"}),
   Verdict("budget_below_teardown_floor", "INCONCLUSIVE")}

InflightVerdicts ==
  {Verdict("all_completed", "PASS"),
   Verdict("requests_destroyed", "FAIL"),
   Verdict("nothing_in_flight", "ERROR"),
   Verdict("disabled", "SKIP"),
   Verdict("readiness_fallback_below_resolution", "INCONCLUSIVE"),
   Verdict("shutdown_never_started", "INCONCLUSIVE"),
   Verdict("baseline_not_2xx", "INCONCLUSIVE")}

DeadlineVerdicts ==
  {Verdict("within_budget", "PASS"),
   Verdict("thin_margin", "WARN"),
   Verdict("past_deadline", "FAIL"),
   Verdict("budget_below_teardown_floor", "INCONCLUSIVE")}

CATALOG ==
  [SP001 |-> StartupVerdicts, SP002 |-> ReadinessVerdicts,
   SP003 |-> SignalVerdicts, SP004 |-> DrainDecided \cup DrainRefused,
   SP005 |-> InflightVerdicts, SP006 |-> DeadlineVerdicts]

=============================================================================
