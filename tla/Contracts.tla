------------------------------ MODULE Contracts ------------------------------
(***************************************************************************)
(* The six contracts as decisions over a finished report, and the          *)
(* preconditions the engine resolves before it publishes one.              *)
(*                                                                         *)
(* A contract is a sequence of clauses in the order the code asks them:    *)
(* the first that holds is the verdict, and the last always holds.         *)
(***************************************************************************)
EXTENDS RunReport

Clause(branch, status, holds) ==
  [branch |-> branch, status |-> status, holds |-> holds]

Decide(clauses) ==
  LET c == clauses[Least({i \in DOMAIN clauses : clauses[i].holds})]
  IN  [branch |-> c.branch, status |-> c.status]

-----------------------------------------------------------------------------
(* SP001: ready within the startup budget, to the resolution of the run.   *)

StartupClauses(r) ==
  LET overrun == r.before.ready - r.config.startupBudget
  IN  <<Clause("within_resolution", "PASS",
               overrun > 0 /\ \E x \in StartupResolution(r) : overrun <= x),
        Clause("over_budget", "WARN", overrun > 0),
        Clause("within_budget", "PASS", TRUE)>>

(* SP002: ten identical, expected answers, within the latency budget.      *)

ReadinessClauses(r) ==
  LET samples == r.before.samples
      Samples == {samples[i] : i \in DOMAIN samples}
  IN  <<Clause("flapping", "FAIL", Cardinality({s.outcome : s \in Samples}) > 1),
        Clause("incorrect", "FAIL", \E s \in Samples : ~s.ok),
        Clause("same_as_health", "WARN",
               \E h \in r.before.health : h = samples[1].response),
        Clause("latency_over_budget", "WARN",
               Greatest({s.latency : s \in Samples}) > r.config.latencyBudget),
        Clause("stable", "PASS", TRUE)>>

-----------------------------------------------------------------------------
(* SP003: did the process act on the signal, whatever its exit status.     *)

ReactionSigns(r) ==
  [readinessChanged |-> \E d \in r.after.drop : BeforeKill(r, d.at),
   acceptStopped    |-> AcceptStopped(r) # {},
   processExited    |-> ~SigkillEffective(r)]

ShutdownStarted(r) ==
  LET signs == ReactionSigns(r) IN \E s \in DOMAIN signs : signs[s]

SignalClauses(r) ==
  <<Clause("signal_discarded", "FAIL",
           ~ShutdownStarted(r) /\ r.before.handler = "missing"),
    Clause("shutdown_not_started", "FAIL", ~ShutdownStarted(r)),
    Clause("killed", "FAIL", SigkillEffective(r)),
    Clause("shutdown_observed", "PASS", TRUE)>>

-----------------------------------------------------------------------------
(* SP004: new connections are accepted for the declared window after T0.   *)

(* Within the window is up to its last instant. *)
ResetsInside(r) == {a \in AcceptThenReset(r) : a.started <= r.config.window}

(* Why the accept window is not a measurement, as a set of causes. *)
AcceptWindowCause(r) ==
  IF LastAccepted(r) = {} THEN {"never_accepted"}
  ELSE IF \A t \in LastAccepted(r) : t >= -AcceptProbeInterval THEN {}
  ELSE {"last_accept_before_t0"}

ListenerClosedEarly(r) == \A t \in LastAccepted(r) : t < r.config.window
ReadinessNotSignaled(r) == \A d \in r.after.drop : d.mode # "status_change"

(* The reserve is under a fifth of the window. *)
ThinReserve(r) ==
  \A t \in LastAccepted(r) : 5 * (t - r.config.window) < r.config.window

(* A plausible error: an advisory is asked before the failures. *)
AdvisoryFirstClauses(r) ==
  <<Clause("in_app_readiness_not_signaled", "WARN", ReadinessNotSignaled(r)),
    Clause("accept_then_reset", "FAIL", ResetsInside(r) # {}),
    Clause("in_app_listener_closed_early", "FAIL", ListenerClosedEarly(r)),
    Clause("in_app_thin_margin", "WARN", ThinReserve(r)),
    Clause("in_app_covered", "PASS", TRUE)>>

InAppClauses(r) ==
  <<Clause("accept_then_reset", "FAIL", ResetsInside(r) # {}),
    Clause("in_app_listener_closed_early", "FAIL", ListenerClosedEarly(r)),
    Clause("in_app_readiness_not_signaled", "WARN", ReadinessNotSignaled(r)),
    Clause("in_app_thin_margin", "WARN", ThinReserve(r)),
    Clause("in_app_covered", "PASS", TRUE)>>

DrainClauses(r) ==
  CASE r.config.strategy = "prestop" -> <<Clause("prestop_not_applicable", "PASS", TRUE)>>
    [] r.config.strategy = "none" -> <<Clause("none_uncovered", "WARN", TRUE)>>
    [] OTHER -> InAppClauses(r)

-----------------------------------------------------------------------------
(* SP005: every request that was open at T0 is completed.                  *)

WasInFlight(q) == (\E t \in q.connected : t <= 0) /\ q.finished > 0

BrokenOutcomes == {"reset_before_response", "reset_mid_response", "timeout"}
Outcomes == {"completed", "refused"} \cup BrokenOutcomes

InFlight(r) == {q \in r.after.requests : WasInFlight(q)}

InflightClauses(r) ==
  <<Clause("nothing_in_flight", "ERROR", InFlight(r) = {}),
    Clause("requests_destroyed", "FAIL",
           \E q \in InFlight(r) : q.outcome \in BrokenOutcomes),
    Clause("all_completed", "PASS", TRUE)>>

(* SP006: a voluntary exit within the budget, with a fifth of it to spare. *)

DeadlineClauses(r) ==
  LET margin == r.config.budget - ShutdownDuration(r)
  IN  <<Clause("past_deadline", "FAIL", margin < 0 \/ SigkillEffective(r)),
        Clause("thin_margin", "WARN", 5 * margin < r.config.budget),
        Clause("within_budget", "PASS", TRUE)>>

Clauses(id, r) ==
  CASE id = "SP001" -> StartupClauses(r)
    [] id = "SP002" -> ReadinessClauses(r)
    [] id = "SP003" -> SignalClauses(r)
    [] id = "SP004" -> DrainClauses(r)
    [] id = "SP005" -> InflightClauses(r)
    [] id = "SP006" -> DeadlineClauses(r)

-----------------------------------------------------------------------------
(* Preconditions.                                                          *)

TeardownCalibrationMaxBudget == 2000
StddevK == 3

(* A long budget needs no calibration; a short one must exceed the         *)
(* measured floor of the daemon by three standard deviations.              *)
BudgetResolvable(r) ==
  \/ r.config.budget > TeardownCalibrationMaxBudget
  \/ \E c \in r.before.calibration : r.config.budget > c.floor + StddevK * c.stddev

Satisfied(p, r) ==
  CASE p = "inflight_enabled" -> r.config.inflight # "disabled"
    [] p = "readiness_fallback_resolvable" ->
         \/ r.target # "readiness_fallback"
         \/ FallbackResolvable(r.fallbackP50, r.fallbackJitter)
    [] p = "shutdown_started" -> "shutdown_started" \in r.facts
    [] p = "baseline_steady_state_2xx" -> \E b \in r.baseline : Healthy(b)
    [] p = "shutdown_budget_resolvable" -> BudgetResolvable(r)
    [] p = "direct_connection_path" -> InApp(r) => ~r.before.proxy
    [] p = "accept_window_measured" -> InApp(r) => AcceptWindowCause(r) = {}

(* What a report says when the precondition does not hold. *)
Refusal(p) ==
  CASE p = "inflight_enabled" -> [branch |-> "disabled", status |-> "SKIP"]
    [] p = "readiness_fallback_resolvable" ->
         [branch |-> "readiness_fallback_below_resolution", status |-> "INCONCLUSIVE"]
    [] p = "shutdown_started" -> [branch |-> "shutdown_never_started", status |-> "INCONCLUSIVE"]
    [] p = "baseline_steady_state_2xx" -> [branch |-> "baseline_not_2xx", status |-> "INCONCLUSIVE"]
    [] p = "shutdown_budget_resolvable" ->
         [branch |-> "budget_below_teardown_floor", status |-> "INCONCLUSIVE"]
    [] p = "direct_connection_path" -> [branch |-> "port_proxy_likely", status |-> "INCONCLUSIVE"]
    [] p = "accept_window_measured" ->
         [branch |-> "accept_window_unmeasured", status |-> "INCONCLUSIVE"]

(* A plausible error: the timing gates are kept for every strategy. *)
AllDrainPreconditions(r) ==
  <<"shutdown_started", "direct_connection_path",
    "shutdown_budget_resolvable", "accept_window_measured">>

DrainPreconditions(r) ==
  IF InApp(r)
    THEN <<"shutdown_started", "direct_connection_path",
           "shutdown_budget_resolvable", "accept_window_measured">>
    ELSE <<"direct_connection_path", "shutdown_budget_resolvable">>

(* A plausible error: the baseline is not asked for. *)
InflightWithoutBaseline ==
  <<"inflight_enabled", "readiness_fallback_resolvable", "shutdown_started">>

InflightPreconditions ==
  <<"inflight_enabled", "readiness_fallback_resolvable",
    "shutdown_started", "baseline_steady_state_2xx">>

Preconditions(id, r) ==
  CASE id = "SP004" -> DrainPreconditions(r)
    [] id = "SP005" -> InflightPreconditions
    [] id = "SP006" -> <<"shutdown_budget_resolvable">>
    [] OTHER -> <<>>

=============================================================================
