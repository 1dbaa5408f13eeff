----------------------------- MODULE MCVerdicts -----------------------------
(***************************************************************************)
(* Instances of Verdicts.  The plans vary one group of settings and        *)
(* measurements at a time around a healthy service that drains itself; the *)
(* experiments put every time on either side of the limit it is compared   *)
(* with.                                                                   *)
(***************************************************************************)
EXTENDS Verdicts

Window == 1200
ShortBudget == 1500
LongBudget == 5000

Sample(outcome, ok, latency, response) ==
  [outcome |-> outcome, ok |-> ok, latency |-> latency, response |-> response]
Request(outcome, status, duration) ==
  [outcome |-> outcome, status |-> status, duration |-> duration]

Config ==
  [strategy |-> "in_app", window |-> Window, budget |-> ShortBudget,
   shutdownTimeout |-> 60000, startupBudget |-> 1000, latencyBudget |-> 500,
   inflight |-> "configured", sigtermAfter |-> {}]

Good == Sample("200", TRUE, 10, "ready")

Before ==
  [place |-> "sidecar", ready |-> 1000, overhead |-> {100},
   samples |-> <<Good, Good, Good>>, health |-> {}, jitter |-> {500},
   requests |-> <<Request("completed", 200, 5), Request("completed", 204, 1)>>,
   proxy |-> FALSE, calibration |-> {[floor |-> 90, stddev |-> 10]},
   handler |-> "installed"]

Plan1(c, b) == [config |-> c, before |-> b]

(* Strategy, place, budget and what the fallback's window depends on. *)
StrategyPlans ==
  {Plan1([Config EXCEPT !.strategy = s, !.inflight = i, !.budget = g],
         [Before EXCEPT !.place = p,
            !.calibration = IF g = LongBudget THEN {} ELSE @]) :
     s \in Strategies, i \in {"configured", "disabled"},
     g \in {ShortBudget, LongBudget}, p \in {"sidecar", "host_fallback"}}

FallbackPlans ==
  {Plan1([Config EXCEPT !.inflight = "readiness_fallback"],
         [Before EXCEPT !.place = p, !.jitter = j,
            !.samples = <<[Good EXCEPT !.latency = l], [Good EXCEPT !.latency = l], Good>>]) :
     p \in {"sidecar", "host_fallback"}, j \in {{}, {0}, {200}, {299}, {300}, {301}},
     l \in {2, 3}}

(* Startup and readiness, whose contracts do not look at the experiment. *)
SteadyPlans ==
  {Plan1([Config EXCEPT !.inflight = "disabled"],
         [Before EXCEPT !.ready = t, !.overhead = o, !.samples = <<a, b, b>>, !.health = h]) :
     t \in {1000, 1001, 1200, 1201}, o \in {{}, {100}},
     a \in {Good, Sample("503", FALSE, 500, "down")},
     b \in {Good, [Good EXCEPT !.latency = 501], Sample("503", FALSE, 10, "down")},
     h \in {{}, {"ready"}, {"down"}}}

(* What the preconditions look at. *)
GatePlans ==
  {Plan1([Config EXCEPT !.budget = g, !.shutdownTimeout = w],
         [Before EXCEPT !.calibration = c, !.proxy = x,
            !.place = IF x THEN "host_fallback" ELSE "sidecar"]) :
     g \in {119, 120, 121, ShortBudget}, w \in {1000, 60000},
     c \in {{}, {[floor |-> 90, stddev |-> 10]}}, x \in BOOLEAN}

BaselinePlans ==
  {Plan1([Config EXCEPT !.sigtermAfter = s],
         [Before EXCEPT !.requests = <<a, b>>, !.handler = h]) :
     s \in {{}, {2}}, h \in {"installed", "missing", "unmeasured"},
     a \in {Request("completed", 200, 1), Request("timeout", 0, 0)},
     b \in {Request("completed", 299, 3), Request("completed", 300, 3), Request("refused", 0, 0)}}

AllPlans == StrategyPlans \cup FallbackPlans \cup SteadyPlans \cup GatePlans \cup BaselinePlans

-----------------------------------------------------------------------------
Attempt(started, connected, outcome) ==
  [started |-> started, connected |-> connected, outcome |-> outcome]

Answered(t) == Attempt(t, {t}, "response")

End(delivered, died, lag, code, frames) ==
  [delivered |-> delivered, died |-> died, lag |-> lag, code |-> code, frames |-> frames]

Seen(end, attempts, refused, drop, requests) ==
  [delivered |-> end.delivered, died |-> end.died, lag |-> end.lag, code |-> end.code,
   frames |-> end.frames, attempts |-> attempts, refused |-> refused, drop |-> drop,
   requests |-> requests]

Sent(connected, finished, outcome) ==
  [connected |-> connected, finished |-> finished, outcome |-> outcome]

Kept(r) == IF r.enabled THEN {Sent({-2}, 90, "completed")} ELSE {}

(* Under preStop the stream of probes stops at T0. *)
Probed(r) == {Answered(IF r.config.strategy = "prestop" THEN -20 ELSE 50)}

Leaves(r) == End(0, HardWait(r) - 5, 2, "own", "all")
IsKilled(r) == End(0, HardWait(r) + 8, 1, "sigkill", "all")

NoDrop == {}
Drop(t, mode) == {[at |-> t, mode |-> mode]}
Drops(r) ==
  {NoDrop, Drop(10, "status_change"), Drop(10, "unreachable"),
   Drop(HardWait(r) + 2, "unreachable")}

(* The accept probe's stream, thinned out to what decides: its last        *)
(* connections, and those that failed. *)
Streams(r) ==
  {{}, {Answered(-51)}, {Answered(-50)}, {Answered(1199)}, {Answered(1200)},
   {Answered(1250), Answered(HardWait(r) + 3)}, {Answered(1439)}, {Answered(1440)},
   {Answered(1440), Attempt(1200, {1201}, "reset")},
   {Answered(1440), Attempt(1201, {1201}, "reset")},
   {Answered(1440), Attempt(-1, {0}, "reset")},
   {Answered(-200), Attempt(-100, {}, "timeout"), Attempt(20, {}, "connection_refused")}}

StreamExperiments(r) ==
  {Seen(end, attempts, refused, drop, Kept(r)) :
     end \in {Leaves(r), IsKilled(r)}, attempts \in Streams(r), drop \in Drops(r),
     refused \in {{}, {20}, {1450}, {HardWait(r) + 4}}}

EndExperiments(r) ==
  {Seen(End(delivered, delivered + died, lag, code, frames), Probed(r), {}, drop, Kept(r)) :
     delivered \in {0, 5}, lag \in {2, 90}, code \in {"own", "sigterm", "sigkill"},
     died \in {100, (4 * r.config.budget) \div 5, (4 * r.config.budget) \div 5 + 1,
               HardWait(r) - 1, HardWait(r), HardWait(r) + 1, HardWait(r) + 8},
     frames \in {"all", "noDie", "none"}, drop \in {NoDrop, Drop(10, "unreachable")}}

RequestExperiments(r) ==
  {Seen(end, Probed(r), {}, drop, requests) :
     end \in {Leaves(r), IsKilled(r)}, drop \in {NoDrop, Drop(10, "unreachable")},
     requests \in
       {{Sent({-2}, 0, "completed")}, {Sent({0}, 1, "completed")},
        {Sent({-2}, 90, "completed"), Sent({1}, 90, "reset_before_response")},
        {Sent({-2}, 90, "completed"), Sent({-2}, 90, "reset_mid_response")},
        {Sent({-2}, 90, "completed"), Sent({}, 30, "refused")},
        {Sent({-2}, 1600, "timeout")}, {Sent({-2}, 90, "completed"), Sent({}, 30, "timeout")},
        {Sent({-2}, -1, "completed"), Sent({}, 0, "refused")}}}

(* Startup and readiness do not meet the experiment again: one will do. *)
MCExperiments(r) ==
  IF r.before.samples # <<Good, Good, Good>> /\ ~IsFallback(r)
    THEN {Seen(Leaves(r), Probed(r), {}, NoDrop, Kept(r))}
    ELSE StreamExperiments(r) \cup EndExperiments(r) \cup RequestExperiments(r)

(* Every baseline request fails, for the run that shows what comes of it. *)
DeadBaseline ==
  {Plan1(Config, [Before EXCEPT !.requests = <<Request("timeout", 0, 0), Request("refused", 0, 0)>>])}

(* A process that ignores SIGTERM and is killed, on the host path: its     *)
(* death takes a while to be observed, and the accept probe is refused     *)
(* three times meanwhile.                                                  *)
HostPlans == {p \in StrategyPlans : p.before.place = "host_fallback"}

KilledUnobserved(r) ==
  {Seen(End(0, HardWait(r) + 2, 150, "sigkill", frames), Probed(r), {HardWait(r) + 3},
        NoDrop, Kept(r)) : frames \in {"all", "noDie", "none"}}

=============================================================================
