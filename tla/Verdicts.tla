------------------------------ MODULE Verdicts ------------------------------
(***************************************************************************)
(* From the measurements of one run to its published verdicts: the in-     *)
(* flight window is planned from the baseline, the shutdown experiment     *)
(* adds what was seen from the signal on, and the contracts are evaluated  *)
(* one after the other, each behind its preconditions, the facts one finds *)
(* out being there for the next.                                           *)
(*                                                                         *)
(* The experiment is one step here.  What it can have seen is a record e   *)
(* of what happened:                                                       *)
(*   delivered, died   when the daemon delivered SIGTERM, when the process *)
(*                     was dead, code the status it left,                  *)
(*   lag               until the death was observed by the run,            *)
(*   frames            which of the daemon's frames came through,          *)
(*   attempts, refused the accept probe's attempts and the beginning of    *)
(*                     the streak of refusals that ended it,               *)
(*   drop              when readiness was seen to fail, and how,           *)
(*   requests          the in-flight requests.                             *)
(***************************************************************************)
EXTENDS Contracts, Catalog

CONSTANTS
  Plans,          \* pairs of a configuration and what precedes the signal
  Experiments(_), \* what may happen in the experiment of a report
  KillDelay       \* SIGKILL sent to death, at most

\* What the configuration's rules leave (config/loader.py, config/models.py).
ASSUME PlansAssumption ==
  \A p \in Plans : /\ p.config.strategy \in Strategies
                   /\ {p.config.window, p.config.budget} \subseteq Int

VARIABLES
  stage,    \* "baseline", "armed", "contracts", "judged" or "crashed"
  report,   \* the RunReport
  results,  \* the published verdicts, in order
  happened  \* what happened in the experiment, {} before it

vars == <<stage, report, results, happened>>

Stage == {"baseline", "armed", "contracts", "judged", "crashed"}
Status == {"PASS", "FAIL", "WARN", "SKIP", "INCONCLUSIVE", "ERROR"}

NoObservation ==
  [sigkill |-> {}, exit |-> 0, code |-> "own", frames |-> <<>>, stopped |-> {},
   drop |-> {}, attempts |-> {}, requests |-> {}]

Init ==
  /\ stage = "baseline"
  /\ results = <<>>
  /\ happened = {}
  /\ \E p \in Plans :
       report = [config |-> p.config, before |-> p.before, after |-> NoObservation,
                 target |-> "", baseline |-> {}, fallbackP50 |-> {}, fallbackJitter |-> {},
                 enabled |-> FALSE, lead |-> {}, facts |-> {}]

-----------------------------------------------------------------------------
(* The baseline.                                                           *)

OnSidecar(r) == r.before.place = "sidecar"
IsFallback(r) == r.config.inflight = "readiness_fallback"

(* How long before T0 the requests start: as configured, or half of what   *)
(* a request takes.                                                        *)
Lead(r) ==
  IF r.config.sigtermAfter # {} THEN r.config.sigtermAfter
  ELSE IF IsFallback(r) THEN {AtLeastOne(RoundQuarter(p)) : p \in ReadinessP50(r)}
  ELSE SuggestedSigtermAfter(r.before.requests)

(* The host does not measure a window the verdict will refuse; the sidecar *)
(* measures whatever it was asked for, and the window is refused after.    *)
Baseline(r, resolvable) ==
  IF r.config.inflight = "disabled" \/ (~OnSidecar(r) /\ ~resolvable)
    THEN {}
    ELSE {r.before.requests}

Plan(resolvable) ==
  LET enabled == report.config.inflight # "disabled" /\ resolvable
  IN  [report EXCEPT
         !.target = report.config.inflight,
         !.fallbackP50 = IF IsFallback(report) THEN ReadinessP50(report) ELSE {},
         !.fallbackJitter = IF IsFallback(report) THEN report.before.jitter ELSE {},
         !.baseline = Baseline(report, resolvable),
         !.enabled = enabled,
         !.lead = IF enabled THEN Lead(report) ELSE {}]

FinishBaseline ==
  /\ stage = "baseline"
  /\ report' = Plan(IsFallback(report) =>
                 FallbackResolvable(ReadinessP50(report), report.before.jitter))
  /\ stage' = "armed"
  /\ UNCHANGED <<results, happened>>

(* The sidecar's T0 is the lead and a margin from now: None and a number   *)
(* do not add up.                                                          *)
LeadIsMissing == OnSidecar(report) /\ report.enabled /\ report.lead = {}

ArmWithoutLead ==
  /\ stage = "armed"
  /\ LeadIsMissing
  /\ stage' = "crashed"
  /\ UNCHANGED <<report, results, happened>>

-----------------------------------------------------------------------------
(* The experiment.                                                         *)

HardWait(r) ==
  IF r.config.budget < r.config.shutdownTimeout THEN r.config.budget
                                                ELSE r.config.shutdownTimeout

KilledAt(r, e) == e.delivered + HardWait(r)
KillSent(r, e) == e.died + e.lag > KilledAt(r, e)

(* What can happen to a target in an experiment that is measured.          *)
Possible(r, e) ==
  /\ {e.delivered, e.died, e.lag} \subseteq Nat
  /\ IsFiniteSet(e.attempts)
  /\ \A a \in e.attempts : IsFiniteSet(a.connected) /\ a.connected \subseteq Int
  /\ e.delivered <= e.died /\ e.died <= KilledAt(r, e) + KillDelay
  /\ \A d \in e.drop : d.at \in e.delivered..(e.died + e.lag)
                       /\ (d.mode = "status_change" => d.at <= e.died)
  /\ \A t \in e.refused : r.config.strategy # "prestop" /\ t \in 0..(e.died + e.lag)
  /\ \A a \in e.attempts :
       /\ r.config.strategy = "prestop" => a.started <= 0
       /\ \A t \in a.connected :
            /\ ~r.before.proxy => t <= e.died
            /\ \A s \in e.refused : t < s
  /\ (e.requests # {}) <=> r.enabled
  /\ r.enabled => \E q \in e.requests : \E t \in q.connected : t <= 0
  /\ \A q \in e.requests :
       /\ q.outcome \in Outcomes
       /\ q.outcome = "completed" => q.finished <= e.died
       /\ q.outcome = "refused" => q.connected = {}
       /\ q.connected = {} => q.outcome \in {"refused", "timeout"}

(* The daemon's frames are in order; the SIGKILL has one if it found       *)
(* the process alive.                                                      *)
Frames(r, e) ==
  LET kill == [action |-> "kill", at |-> e.delivered]
      again == [action |-> "kill", at |-> KilledAt(r, e)]
      die == [action |-> "die", at |-> e.died]
  IN  (IF e.frames = "none" THEN <<>>
       ELSE IF KillSent(r, e) /\ KilledAt(r, e) <= e.died THEN <<kill, again>>
       ELSE <<kill>>)
      \o (IF e.frames = "all" THEN <<die>> ELSE <<>>)

(* The sidecar leaves out a streak that began after SIGKILL. *)
Recorded(r, e) ==
  LET sigkill == IF KillSent(r, e) THEN {KilledAt(r, e)} ELSE {}
  IN  [sigkill |-> sigkill, exit |-> e.died + e.lag, code |-> e.code,
       frames |-> Frames(r, e),
       stopped |-> {t \in e.refused : OnSidecar(r) => \A k \in sigkill : t < k},
       drop |-> e.drop, attempts |-> e.attempts, requests |-> e.requests]

Shutdown ==
  /\ stage = "armed"
  /\ ~LeadIsMissing
  /\ \E e \in Experiments(report) :
       /\ Possible(report, e)
       /\ report' = [report EXCEPT !.after = Recorded(report, e)]
       /\ happened' = {e}
  /\ stage' = "contracts"
  /\ UNCHANGED results

-----------------------------------------------------------------------------
(* The contracts.                                                          *)

(* A plausible error: the contract that finds the reaction is evaluated    *)
(* after those that need to know of it.                                    *)
SignalsLast == <<"SP001", "SP002", "SP004", "SP005", "SP006", "SP003">>

AllContracts == <<"SP001", "SP002", "SP003", "SP004", "SP005", "SP006">>

FactsOf(id, r) ==
  IF id = "SP003" /\ ShutdownStarted(r) THEN {"shutdown_started"} ELSE {}

(* The first precondition that is not met refuses a contract.  One that is *)
(* switched off is not evaluated; one that is refused keeps its verdict in *)
(* the evidence, unpublished.                                              *)
Publish(id, r) ==
  LET asked == Preconditions(id, r)
      unmet == {i \in DOMAIN asked : ~Satisfied(asked[i], r)}
      published == IF unmet = {} THEN Decide(Clauses(id, r))
                                 ELSE Refusal(asked[Least(unmet)])
  IN  [id |-> id, branch |-> published.branch, status |-> published.status,
       refused |-> unmet # {},
       candidate |-> IF published.status = "SKIP" THEN {} ELSE {Decide(Clauses(id, r))}]

EvaluateContract ==
  /\ stage = "contracts"
  /\ LET id == AllContracts[Len(results) + 1]
     IN  /\ results' = Append(results, Publish(id, report))
         /\ report' = [report EXCEPT !.facts = @ \cup FactsOf(id, report)]
  /\ stage' = IF Len(results') = Len(AllContracts) THEN "judged" ELSE "contracts"
  /\ UNCHANGED happened

Next == FinishBaseline \/ ArmWithoutLead \/ Shutdown \/ EvaluateContract

Spec == Init /\ [][Next]_vars

-----------------------------------------------------------------------------
(* Properties.                                                             *)

Judged == stage = "judged"
Published(id) == CHOOSE x \in {results[i] : i \in DOMAIN results} : x.id = id
Happened == CHOOSE e \in happened : TRUE

(* What a reader may look up is what a report can say: every published     *)
(* verdict is in the catalog, with that status and under that strategy     *)
(* (catalog.py, "one reachable branch", against preconditions.py and the   *)
(* contracts).                                                             *)
CatalogAgrees ==
  \A i \in DOMAIN results :
    \E v \in CATALOG[results[i].id] :
      /\ v.branch = results[i].branch
      /\ v.status = results[i].status
      /\ report.config.strategy \in v.appliesTo

(* Nothing happened between SIGTERM and SIGKILL that a load balancer or a  *)
(* client could have seen.                                                 *)
Silent ==
  LET e == Happened
      InTime(t) == KillSent(report, e) => t < KilledAt(report, e)
  IN  /\ e.code = "sigkill"
      /\ \A d \in e.drop : ~InTime(d.at)
      /\ \A t \in e.refused : ~InTime(t)
      /\ \A q \in e.requests : ~(q.outcome = "refused" /\ q.finished >= 0 /\ InTime(q.finished))

(* A streak of refusals is on the record of a run whose accept probe ran   *)
(* on the host, where it is not compared with the forced kill: what the    *)
(* killed process refused can be taken for its answer to SIGTERM           *)
(* (context.py accept_stopped_ns).  SilenceIsNoCleanSweep is what it costs. *)
KillMayPassForReaction == ~OnSidecar(report) /\ Happened.refused # {}

(* No process that reacted to SIGTERM is blamed for ignoring it, or refused *)
(* a verdict for want of a reaction.  One that ignores it fails SP003 for  *)
(* that, and no contract about its shutdown publishes a finding, unless    *)
(* refusals of the killed process passed for a reaction (signals.py        *)
(* _shutdown_started, preconditions.py _shutdown_started,                  *)
(* evaluate_contracts).                                                    *)
SilenceIsBlocked ==
  LET blamed == Published("SP003").branch \in {"signal_discarded", "shutdown_not_started"}
  IN  Judged =>
        /\ blamed => Silent
        /\ \A i \in DOMAIN results : results[i].branch = "shutdown_never_started" => Silent
        /\ Silent /\ ~KillMayPassForReaction =>
             /\ blamed
             /\ Published("SP005").status \in {"SKIP", "INCONCLUSIVE"}
             /\ InApp(report) => Published("SP004").status = "INCONCLUSIVE"

Severity ==
  [ERROR |-> 5, FAIL |-> 4, WARN |-> 2, INCONCLUSIVE |-> 1, SKIP |-> 1, PASS |-> 0]

(* When several clauses of a contract hold, the worst of them is           *)
(* published (drain.py IN_APP_PRECEDENCE, "worst first"); only SP001       *)
(* prefers a pass, to an overrun it cannot resolve.                        *)
WorstClauseWins ==
  \A i \in DOMAIN results :
    LET x == results[i]
        clauses == Clauses(x.id, report)
    IN  x.id # "SP001" /\ ~x.refused =>
          \A c \in {clauses[j] : j \in DOMAIN clauses} :
            c.holds => Severity[c.status] <= Severity[x.status]

(* SP006 lets nothing through that was killed, or dead later after the     *)
(* delivery of SIGTERM than the budget allows, whichever clock the         *)
(* duration was read from (deadline.py, base.py daemon_interval_ms).       *)
DeadlineIsHonest ==
  Judged /\ Published("SP006").status \in {"PASS", "WARN"} =>
    /\ Happened.code # "sigkill"
    /\ Happened.died - Happened.delivered <= report.config.budget

(* A covered window was covered by a process that was not being killed:    *)
(* a connection was established a fifth after its end, none that was       *)
(* opened inside it was reset, and the drain was announced (drain.py       *)
(* evaluate, context.py last_accepted_ns).                                 *)
CoveredWindowIsReal ==
  Judged /\ Published("SP004").branch = "in_app_covered" =>
    LET window == report.config.window
    IN  /\ \E a \in Happened.attempts : \E t \in a.connected :
             /\ 5 * t >= 6 * window
             /\ KillSent(report, Happened) => t < KilledAt(report, Happened)
        /\ \A a \in Happened.attempts :
             a.started \in 0..window /\ a.connected # {} => a.outcome # "reset"
        /\ \E d \in Happened.drop : d.mode = "status_change"

(* SP005 passes only on requests that were open at T0, every one of them   *)
(* completed by a process that had answered 2xx throughout the baseline    *)
(* (inflight.py _was_in_flight, PRECONDITIONS; baseline.py healthy).       *)
InflightPassIsMeasured ==
  Judged /\ Published("SP005").status = "PASS" =>
    LET open == {q \in Happened.requests :
                   (\E t \in q.connected : t <= 0) /\ q.finished > 0}
    IN  /\ open # {} /\ \A q \in open : q.outcome = "completed"
        /\ \A i \in DOMAIN report.before.requests :
             report.before.requests[i].outcome = "completed"
             /\ report.before.requests[i].status \in 200..299

-----------------------------------------------------------------------------
(* What the documents say of the code, and the code does not do.           *)

(* "Ask the service whether it works, and refuse to publish a verdict      *)
(* about a service that does not" (traffic/baseline.py): a service that    *)
(* completes no baseline request is a verdict, not an internal error.      *)
BrokenBaselineIsJudged == stage # "crashed"

(* "The precondition that stops a process which ignores SIGTERM from       *)
(* reporting a clean sweep" (catalog.py, limits of SP005): its in-flight   *)
(* requests are not published as completed by a graceful shutdown.  The    *)
(* accept probe of the host records the refusals that follow the forced    *)
(* kill, and accept_stopped_ns, "before any forced kill", takes them.      *)
SilenceIsNoCleanSweep == Judged /\ Published("SP005").status = "PASS" => ~Silent

=============================================================================
