---------------------------- MODULE VerdictsProofs ----------------------------
(***************************************************************************)
(* Theorems about Verdicts, for any configuration, any measurements before *)
(* the signal and any experiment: what a published verdict says of what    *)
(* happened.                                                               *)
(***************************************************************************)
EXTENDS Verdicts, FiniteSetTheorems, SequenceTheorems, TLAPS

(* Extremes of finite sets of integers.                                    *)

\* A finite set of times has a first and a last one: the smallest set without
\* would have one when any of its members is taken away.
LEMMA Extremes ==
  ASSUME NEW S \in SUBSET Int, IsFiniteSet(S), S # {}
  PROVE  /\ Least(S) \in S /\ \A x \in S : Least(S) <= x
         /\ Greatest(S) \in S /\ \A x \in S : x <= Greatest(S)
<1> DEFINE Bounded(U) == /\ \E x \in U : \A y \in U : x <= y
                         /\ \E x \in U : \A y \in U : y <= x
           bad == {U \in FiniteSubsetsOf(Int) : U # {} /\ ~Bounded(U)}
<1>1. bad = {}
  <2> SUFFICES ASSUME bad # {} PROVE FALSE
    OBVIOUS
  <2>1. \E U \in bad : \A V \in bad : ~(<<V, U>> \in StrictSubsetOrdering(Int))
    BY FS_StrictSubsetOrderingWellFounded, WFMin
  <2>2. PICK U \in bad : \A V \in bad : ~(<<V, U>> \in StrictSubsetOrdering(Int))
    BY <2>1
  <2>3. U \in SUBSET Int /\ IsFiniteSet(U) /\ U # {} /\ ~Bounded(U)
    BY DEF FiniteSubsetsOf
  <2>4. PICK m \in U : TRUE
    BY <2>3
  <2> DEFINE V == U \ {m}
  <2>5. V \in FiniteSubsetsOf(Int)
    BY <2>3, FS_RemoveElement DEF FiniteSubsetsOf
  <2>6. <<V, U>> \in StrictSubsetOrdering(Int)
    BY <2>3, <2>4 DEF StrictSubsetOrdering
  <2>7. V = {} \/ Bounded(V)
    BY <2>2, <2>5, <2>6
  <2>8. CASE V = {}
    <3>1. U = {m} /\ m \in Int
      BY <2>3, <2>8
    <3> QED BY <2>3, <3>1
  <2>9. CASE Bounded(V)
    <3>1. PICK a \in V : \A y \in V : a <= y
      BY <2>9
    <3>2. PICK b \in V : \A y \in V : y <= b
      BY <2>9
    <3>3. \E x \in U : \A y \in U : x <= y
      <4>1. CASE a <= m
        BY <2>3, <3>1, <4>1
      <4>2. CASE ~(a <= m)
        BY <2>3, <2>4, <3>1, <4>2
      <4> QED BY <4>1, <4>2
    <3>4. \E x \in U : \A y \in U : y <= x
      <4>1. CASE m <= b
        BY <2>3, <3>2, <4>1
      <4>2. CASE ~(m <= b)
        BY <2>3, <2>4, <3>2, <4>2
      <4> QED BY <4>1, <4>2
    <3> QED BY <2>3, <3>3, <3>4
  <2> QED BY <2>7, <2>8, <2>9
<1>2. Bounded(S)
  BY <1>1 DEF FiniteSubsetsOf
<1>3. Least(S) \in S /\ \A x \in S : Least(S) <= x
  BY <1>2 DEF Least
<1>4. Greatest(S) \in S /\ \A x \in S : x <= Greatest(S)
  BY <1>2 DEF Greatest
<1> QED BY <1>3, <1>4

\* A member that is no later than any other is the first one.
LEMMA FirstIs ==
  ASSUME NEW S \in SUBSET Int, NEW m \in S, \A x \in S : m <= x
  PROVE  Least(S) = m
<1>1. Least(S) \in S /\ \A x \in S : Least(S) <= x
  BY DEF Least
<1>2. Least(S) \in Int /\ m \in Int /\ Least(S) <= m /\ m <= Least(S)
  BY <1>1
<1> QED BY <1>2

\* A sequence of clauses that ends with one that holds is decided by the first
\* that does.
LEMMA DecideIs ==
  ASSUME NEW clauses, NEW n \in Nat \ {0}, DOMAIN clauses = 1..n, clauses[n].holds
  PROVE  \E i \in 1..n :
           /\ clauses[i].holds
           /\ \A j \in 1..(i - 1) : ~clauses[j].holds
           /\ Decide(clauses) = [branch |-> clauses[i].branch, status |-> clauses[i].status]
<1> DEFINE S == {i \in DOMAIN clauses : clauses[i].holds}
           first == Least(S)
<1>1. S \in SUBSET Int /\ S # {}
  OBVIOUS
<1>2. IsFiniteSet(S)
  <2>1. IsFiniteSet(1..n)
    BY FS_Interval
  <2> QED BY <2>1, FS_Subset
<1>3. first \in S /\ \A x \in S : first <= x
  BY <1>1, <1>2, Extremes
<1>4. ASSUME NEW j \in 1..(first - 1) PROVE ~clauses[j].holds
  <2>1. j \in DOMAIN clauses /\ ~(first <= j)
    BY <1>3
  <2> QED BY <1>3, <2>1
<1>5. Decide(clauses) = [branch |-> clauses[first].branch, status |-> clauses[first].status]
  BY DEF Decide
<1> QED BY <1>3, <1>4, <1>5

-----------------------------------------------------------------------------
(* The clauses of each contract.                                           *)

Ids == {"SP001", "SP002", "SP003", "SP004", "SP005", "SP006"}

\* The last clause of every contract always holds.
Decidable(clauses) ==
  \E n \in Nat \ {0} : DOMAIN clauses = 1..n /\ clauses[n].holds

\* What a clause of a contract may be: in the catalog, under the strategy.
Catalogued(id, strategy, x) ==
  \E v \in CATALOG[id] :
    v.branch = x.branch /\ v.status = x.status /\ strategy \in v.appliesTo

\* The later a clause, the milder its status.
WorstFirst(clauses) ==
  \A i, j \in DOMAIN clauses :
    i <= j => Severity[clauses[j].status] <= Severity[clauses[i].status]

\* The shape of the six lists of clauses, whatever the report: they end, what
\* they say is in the catalog, and all but the first have the worst clause first.
LEMMA StartupShape ==
  ASSUME NEW r, r.config.strategy \in Strategies
  PROVE  /\ Decidable(StartupClauses(r))
         /\ \A i \in DOMAIN StartupClauses(r) :
              Catalogued("SP001", r.config.strategy, StartupClauses(r)[i])
<1> DEFINE c == StartupClauses(r)
<1>1. /\ DOMAIN c = 1..3 /\ c[3].holds
      /\ c[1].branch = "within_resolution" /\ c[1].status = "PASS"
      /\ c[2].branch = "over_budget" /\ c[2].status = "WARN"
      /\ c[3].branch = "within_budget" /\ c[3].status = "PASS"
  BY DEF StartupClauses, Clause
<1> HIDE DEF c
<1>2. Decidable(c)
  BY <1>1, 3 \in Nat \ {0} DEF Decidable
<1>3. ASSUME NEW i \in DOMAIN c PROVE Catalogued("SP001", r.config.strategy, c[i])
  <2>1. \/ i = 1 /\ Verdict("within_resolution", "PASS") \in CATALOG["SP001"]
        \/ i = 2 /\ Verdict("over_budget", "WARN") \in CATALOG["SP001"]
        \/ i = 3 /\ Verdict("within_budget", "PASS") \in CATALOG["SP001"]
    BY <1>1, <1>3 DEF CATALOG, StartupVerdicts
  <2> QED BY <1>1, <2>1 DEF Catalogued, Verdict, VerdictFor
<1> QED BY <1>2, <1>3 DEF c

LEMMA ReadinessShape ==
  ASSUME NEW r, r.config.strategy \in Strategies
  PROVE  /\ Decidable(ReadinessClauses(r)) /\ WorstFirst(ReadinessClauses(r))
         /\ \A i \in DOMAIN ReadinessClauses(r) :
              Catalogued("SP002", r.config.strategy, ReadinessClauses(r)[i])
<1> DEFINE c == ReadinessClauses(r)
<1>1. /\ DOMAIN c = 1..5 /\ c[5].holds
      /\ c[1].branch = "flapping" /\ c[1].status = "FAIL"
      /\ c[2].branch = "incorrect" /\ c[2].status = "FAIL"
      /\ c[3].branch = "same_as_health" /\ c[3].status = "WARN"
      /\ c[4].branch = "latency_over_budget" /\ c[4].status = "WARN"
      /\ c[5].branch = "stable" /\ c[5].status = "PASS"
  BY DEF ReadinessClauses, Clause
<1> HIDE DEF c
<1>2. Decidable(c)
  BY <1>1, 5 \in Nat \ {0} DEF Decidable
<1>3. WorstFirst(c)
  BY <1>1 DEF WorstFirst, Severity
<1>4. ASSUME NEW i \in DOMAIN c PROVE Catalogued("SP002", r.config.strategy, c[i])
  <2>1. \/ i = 1 /\ Verdict("flapping", "FAIL") \in CATALOG["SP002"]
        \/ i = 2 /\ Verdict("incorrect", "FAIL") \in CATALOG["SP002"]
        \/ i = 3 /\ Verdict("same_as_health", "WARN") \in CATALOG["SP002"]
        \/ i = 4 /\ Verdict("latency_over_budget", "WARN") \in CATALOG["SP002"]
        \/ i = 5 /\ Verdict("stable", "PASS") \in CATALOG["SP002"]
    BY <1>1, <1>4 DEF CATALOG, ReadinessVerdicts
  <2> QED BY <1>1, <2>1 DEF Catalogued, Verdict, VerdictFor
<1> QED BY <1>2, <1>3, <1>4 DEF c

LEMMA SignalShape ==
  ASSUME NEW r, r.config.strategy \in Strategies
  PROVE  /\ Decidable(SignalClauses(r)) /\ WorstFirst(SignalClauses(r))
         /\ \A i \in DOMAIN SignalClauses(r) :
              Catalogued("SP003", r.config.strategy, SignalClauses(r)[i])
<1> DEFINE c == SignalClauses(r)
<1>1. /\ DOMAIN c = 1..4 /\ c[4].holds
      /\ c[1].branch = "signal_discarded" /\ c[1].status = "FAIL"
      /\ c[2].branch = "shutdown_not_started" /\ c[2].status = "FAIL"
      /\ c[3].branch = "killed" /\ c[3].status = "FAIL"
      /\ c[4].branch = "shutdown_observed" /\ c[4].status = "PASS"
  BY DEF SignalClauses, Clause
<1> HIDE DEF c
<1>2. Decidable(c)
  BY <1>1, 4 \in Nat \ {0} DEF Decidable
<1>3. WorstFirst(c)
  BY <1>1 DEF WorstFirst, Severity
<1>4. ASSUME NEW i \in DOMAIN c PROVE Catalogued("SP003", r.config.strategy, c[i])
  <2>1. \/ i = 1 /\ Verdict("signal_discarded", "FAIL") \in CATALOG["SP003"]
        \/ i = 2 /\ Verdict("shutdown_not_started", "FAIL") \in CATALOG["SP003"]
        \/ i = 3 /\ Verdict("killed", "FAIL") \in CATALOG["SP003"]
        \/ i = 4 /\ Verdict("shutdown_observed", "PASS") \in CATALOG["SP003"]
    BY <1>1, <1>4 DEF CATALOG, SignalVerdicts
  <2> QED BY <1>1, <2>1 DEF Catalogued, Verdict, VerdictFor
<1> QED BY <1>2, <1>3, <1>4 DEF c

LEMMA InAppShape ==
  ASSUME NEW r, r.config.strategy = "in_app"
  PROVE  /\ Decidable(InAppClauses(r)) /\ WorstFirst(InAppClauses(r))
         /\ \A i \in DOMAIN InAppClauses(r) :
              Catalogued("SP004", r.config.strategy, InAppClauses(r)[i])
<1> DEFINE c == InAppClauses(r)
<1>1. /\ DOMAIN c = 1..5 /\ c[5].holds
      /\ c[1].branch = "accept_then_reset" /\ c[1].status = "FAIL"
      /\ c[2].branch = "in_app_listener_closed_early" /\ c[2].status = "FAIL"
      /\ c[3].branch = "in_app_readiness_not_signaled" /\ c[3].status = "WARN"
      /\ c[4].branch = "in_app_thin_margin" /\ c[4].status = "WARN"
      /\ c[5].branch = "in_app_covered" /\ c[5].status = "PASS"
  BY DEF InAppClauses, Clause
<1> HIDE DEF c
<1>2. Decidable(c)
  BY <1>1, 5 \in Nat \ {0} DEF Decidable
<1>3. WorstFirst(c)
  BY <1>1 DEF WorstFirst, Severity
<1>4. ASSUME NEW i \in DOMAIN c PROVE Catalogued("SP004", r.config.strategy, c[i])
  <2>1. \/ i = 1 /\ VerdictFor("accept_then_reset", "FAIL", {"in_app"}) \in CATALOG["SP004"]
        \/ i = 2 /\ VerdictFor("in_app_listener_closed_early", "FAIL", {"in_app"}) \in CATALOG["SP004"]
        \/ i = 3 /\ VerdictFor("in_app_readiness_not_signaled", "WARN", {"in_app"}) \in CATALOG["SP004"]
        \/ i = 4 /\ VerdictFor("in_app_thin_margin", "WARN", {"in_app"}) \in CATALOG["SP004"]
        \/ i = 5 /\ VerdictFor("in_app_covered", "PASS", {"in_app"}) \in CATALOG["SP004"]
    BY <1>1, <1>4 DEF CATALOG, DrainDecided, DrainRefused
  <2> QED BY <1>1, <2>1 DEF Catalogued, Verdict, VerdictFor
<1> QED BY <1>2, <1>3, <1>4 DEF c

LEMMA InflightShape ==
  ASSUME NEW r, r.config.strategy \in Strategies
  PROVE  /\ Decidable(InflightClauses(r)) /\ WorstFirst(InflightClauses(r))
         /\ \A i \in DOMAIN InflightClauses(r) :
              Catalogued("SP005", r.config.strategy, InflightClauses(r)[i])
<1> DEFINE c == InflightClauses(r)
<1>1. /\ DOMAIN c = 1..3 /\ c[3].holds
      /\ c[1].branch = "nothing_in_flight" /\ c[1].status = "ERROR"
      /\ c[2].branch = "requests_destroyed" /\ c[2].status = "FAIL"
      /\ c[3].branch = "all_completed" /\ c[3].status = "PASS"
  BY DEF InflightClauses, Clause
<1> HIDE DEF c
<1>2. Decidable(c)
  BY <1>1, 3 \in Nat \ {0} DEF Decidable
<1>3. WorstFirst(c)
  BY <1>1 DEF WorstFirst, Severity
<1>4. ASSUME NEW i \in DOMAIN c PROVE Catalogued("SP005", r.config.strategy, c[i])
  <2>1. \/ i = 1 /\ Verdict("nothing_in_flight", "ERROR") \in CATALOG["SP005"]
        \/ i = 2 /\ Verdict("requests_destroyed", "FAIL") \in CATALOG["SP005"]
        \/ i = 3 /\ Verdict("all_completed", "PASS") \in CATALOG["SP005"]
    BY <1>1, <1>4 DEF CATALOG, InflightVerdicts
  <2> QED BY <1>1, <2>1 DEF Catalogued, Verdict, VerdictFor
<1> QED BY <1>2, <1>3, <1>4 DEF c

LEMMA DeadlineShape ==
  ASSUME NEW r, r.config.strategy \in Strategies
  PROVE  /\ Decidable(DeadlineClauses(r)) /\ WorstFirst(DeadlineClauses(r))
         /\ \A i \in DOMAIN DeadlineClauses(r) :
              Catalogued("SP006", r.config.strategy, DeadlineClauses(r)[i])
<1> DEFINE c == DeadlineClauses(r)
<1>1. /\ DOMAIN c = 1..3 /\ c[3].holds
      /\ c[1].branch = "past_deadline" /\ c[1].status = "FAIL"
      /\ c[2].branch = "thin_margin" /\ c[2].status = "WARN"
      /\ c[3].branch = "within_budget" /\ c[3].status = "PASS"
  BY DEF DeadlineClauses, Clause
<1> HIDE DEF c
<1>2. Decidable(c)
  BY <1>1, 3 \in Nat \ {0} DEF Decidable
<1>3. WorstFirst(c)
  BY <1>1 DEF WorstFirst, Severity
<1>4. ASSUME NEW i \in DOMAIN c PROVE Catalogued("SP006", r.config.strategy, c[i])
  <2>1. \/ i = 1 /\ Verdict("past_deadline", "FAIL") \in CATALOG["SP006"]
        \/ i = 2 /\ Verdict("thin_margin", "WARN") \in CATALOG["SP006"]
        \/ i = 3 /\ Verdict("within_budget", "PASS") \in CATALOG["SP006"]
    BY <1>1, <1>4 DEF CATALOG, DeadlineVerdicts
  <2> QED BY <1>1, <2>1 DEF Catalogued, Verdict, VerdictFor
<1> QED BY <1>2, <1>3, <1>4 DEF c

LEMMA DrainShape ==
  ASSUME NEW r, r.config.strategy \in Strategies
  PROVE  /\ Decidable(DrainClauses(r)) /\ WorstFirst(DrainClauses(r))
         /\ \A i \in DOMAIN DrainClauses(r) :
              Catalogued("SP004", r.config.strategy, DrainClauses(r)[i])
<1> DEFINE c == DrainClauses(r)
<1>1. CASE r.config.strategy = "in_app"
  <2>1. c = InAppClauses(r)
    BY <1>1 DEF DrainClauses
  <2> QED BY <1>1, <2>1, InAppShape
<1>2. CASE r.config.strategy \in {"prestop", "none"}
  <2>1. /\ DOMAIN c = 1..1 /\ c[1].holds
        /\ \/ /\ r.config.strategy = "prestop"
              /\ c[1].branch = "prestop_not_applicable" /\ c[1].status = "PASS"
           \/ /\ r.config.strategy = "none"
              /\ c[1].branch = "none_uncovered" /\ c[1].status = "WARN"
    BY <1>2 DEF DrainClauses, Clause
  <2> HIDE DEF c
  <2>2. Decidable(c)
    BY <2>1, 1 \in Nat \ {0} DEF Decidable
  <2>3. WorstFirst(c)
    BY <2>1 DEF WorstFirst, Severity
  <2>4. /\ VerdictFor("prestop_not_applicable", "PASS", {"prestop"}) \in CATALOG["SP004"]
        /\ VerdictFor("none_uncovered", "WARN", {"none"}) \in CATALOG["SP004"]
    BY DEF CATALOG, DrainDecided
  <2>5. ASSUME NEW i \in DOMAIN c PROVE Catalogued("SP004", r.config.strategy, c[i])
    <3>1. i = 1
      BY <2>1
    <3> QED BY <2>1, <2>4, <3>1 DEF Catalogued, VerdictFor
  <2> QED BY <2>2, <2>3, <2>5 DEF c
<1> QED BY <1>1, <1>2 DEF Strategies

\* All of them.
LEMMA ClausesShape ==
  ASSUME NEW id \in Ids, NEW r, r.config.strategy \in Strategies
  PROVE  /\ Decidable(Clauses(id, r))
         /\ id # "SP001" => WorstFirst(Clauses(id, r))
         /\ \A i \in DOMAIN Clauses(id, r) :
              Catalogued(id, r.config.strategy, Clauses(id, r)[i])
<1>1. CASE id = "SP001"
  <2>1. Clauses(id, r) = StartupClauses(r)
    BY <1>1 DEF Clauses
  <2> QED BY <1>1, <2>1, StartupShape
<1>2. CASE id = "SP002"
  <2>1. Clauses(id, r) = ReadinessClauses(r)
    BY <1>2 DEF Clauses
  <2> QED BY <1>2, <2>1, ReadinessShape
<1>3. CASE id = "SP003"
  <2>1. Clauses(id, r) = SignalClauses(r)
    BY <1>3 DEF Clauses
  <2> QED BY <1>3, <2>1, SignalShape
<1>4. CASE id = "SP004"
  <2>1. Clauses(id, r) = DrainClauses(r)
    BY <1>4 DEF Clauses
  <2> QED BY <1>4, <2>1, DrainShape
<1>5. CASE id = "SP005"
  <2>1. Clauses(id, r) = InflightClauses(r)
    BY <1>5 DEF Clauses
  <2> QED BY <1>5, <2>1, InflightShape
<1>6. CASE id = "SP006"
  <2>1. Clauses(id, r) = DeadlineClauses(r)
    BY <1>6 DEF Clauses
  <2> QED BY <1>6, <2>1, DeadlineShape
<1> QED BY <1>1, <1>2, <1>3, <1>4, <1>5, <1>6 DEF Ids

-----------------------------------------------------------------------------
(* The preconditions of each contract, and what is published.              *)

\* A sequence of preconditions that is short, and none of which refuses with a
\* verdict the catalog does not have.
LEMMA PreconditionsShape ==
  ASSUME NEW id \in Ids, NEW r, r.config.strategy \in Strategies
  PROVE  /\ \E n \in 0..4 : DOMAIN Preconditions(id, r) = 1..n
         /\ \A i \in DOMAIN Preconditions(id, r) :
              ~Satisfied(Preconditions(id, r)[i], r) =>
                Catalogued(id, r.config.strategy, Refusal(Preconditions(id, r)[i]))
<1> DEFINE p == Preconditions(id, r)
<1>1. CASE id \in {"SP001", "SP002", "SP003"}
  <2>1. DOMAIN p = 1..0
    BY <1>1 DEF Preconditions
  <2> QED BY <2>1, 0 \in 0..4
<1>2. CASE id = "SP004"
  <2>1. /\ Refusal("shutdown_started")
             = [branch |-> "shutdown_never_started", status |-> "INCONCLUSIVE"]
        /\ Refusal("direct_connection_path")
             = [branch |-> "port_proxy_likely", status |-> "INCONCLUSIVE"]
        /\ Refusal("shutdown_budget_resolvable")
             = [branch |-> "budget_below_teardown_floor", status |-> "INCONCLUSIVE"]
        /\ Refusal("accept_window_measured")
             = [branch |-> "accept_window_unmeasured", status |-> "INCONCLUSIVE"]
    BY DEF Refusal
  <2>2. /\ VerdictFor("shutdown_never_started", "INCONCLUSIVE", {"in_app"}) \in CATALOG[id]
        /\ VerdictFor("port_proxy_likely", "INCONCLUSIVE", {"in_app"}) \in CATALOG[id]
        /\ Verdict("budget_below_teardown_floor", "INCONCLUSIVE") \in CATALOG[id]
        /\ VerdictFor("accept_window_unmeasured", "INCONCLUSIVE", {"in_app"}) \in CATALOG[id]
    BY <1>2 DEF CATALOG, DrainRefused
  <2>3. CASE InApp(r)
    <3>1. /\ DOMAIN p = 1..4
          /\ p[1] = "shutdown_started" /\ p[2] = "direct_connection_path"
          /\ p[3] = "shutdown_budget_resolvable" /\ p[4] = "accept_window_measured"
      BY <1>2, <2>3 DEF Preconditions, DrainPreconditions
    <3>2. \A i \in DOMAIN p : Catalogued(id, r.config.strategy, Refusal(p[i]))
      BY <2>1, <2>2, <2>3, <3>1 DEF Catalogued, Verdict, VerdictFor, InApp
    <3> QED BY <3>1, <3>2, 4 \in 0..4
  <2>4. CASE ~InApp(r)
    <3>1. /\ DOMAIN p = 1..2
          /\ p[1] = "direct_connection_path" /\ p[2] = "shutdown_budget_resolvable"
      BY <1>2, <2>4 DEF Preconditions, DrainPreconditions
    <3>2. Satisfied(p[1], r)
      BY <2>4, <3>1 DEF Satisfied
    <3>3. Catalogued(id, r.config.strategy, Refusal(p[2]))
      BY <2>1, <2>2, <3>1 DEF Catalogued, Verdict, VerdictFor
    <3> QED BY <3>1, <3>2, <3>3, 2 \in 0..4
  <2> QED BY <2>3, <2>4
<1>3. CASE id = "SP005"
  <2>1. /\ DOMAIN p = 1..4
        /\ p[1] = "inflight_enabled" /\ p[2] = "readiness_fallback_resolvable"
        /\ p[3] = "shutdown_started" /\ p[4] = "baseline_steady_state_2xx"
    BY <1>3 DEF Preconditions, InflightPreconditions
  <2>2. /\ Refusal("inflight_enabled") = [branch |-> "disabled", status |-> "SKIP"]
        /\ Refusal("readiness_fallback_resolvable")
             = [branch |-> "readiness_fallback_below_resolution", status |-> "INCONCLUSIVE"]
        /\ Refusal("shutdown_started")
             = [branch |-> "shutdown_never_started", status |-> "INCONCLUSIVE"]
        /\ Refusal("baseline_steady_state_2xx")
             = [branch |-> "baseline_not_2xx", status |-> "INCONCLUSIVE"]
    BY DEF Refusal
  <2>3. /\ Verdict("disabled", "SKIP") \in CATALOG[id]
        /\ Verdict("readiness_fallback_below_resolution", "INCONCLUSIVE") \in CATALOG[id]
        /\ Verdict("shutdown_never_started", "INCONCLUSIVE") \in CATALOG[id]
        /\ Verdict("baseline_not_2xx", "INCONCLUSIVE") \in CATALOG[id]
    BY <1>3 DEF CATALOG, InflightVerdicts
  <2>4. \A i \in DOMAIN p : Catalogued(id, r.config.strategy, Refusal(p[i]))
    BY <2>1, <2>2, <2>3 DEF Catalogued, Verdict, VerdictFor
  <2> QED BY <2>1, <2>4, 4 \in 0..4
<1>4. CASE id = "SP006"
  <2>1. DOMAIN p = 1..1 /\ p[1] = "shutdown_budget_resolvable"
    BY <1>4 DEF Preconditions
  <2>2. Refusal("shutdown_budget_resolvable")
          = [branch |-> "budget_below_teardown_floor", status |-> "INCONCLUSIVE"]
    BY DEF Refusal
  <2>3. Verdict("budget_below_teardown_floor", "INCONCLUSIVE") \in CATALOG[id]
    BY <1>4 DEF CATALOG, DeadlineVerdicts
  <2>4. \A i \in DOMAIN p : Catalogued(id, r.config.strategy, Refusal(p[i]))
    BY <2>1, <2>2, <2>3 DEF Catalogued, Verdict, VerdictFor
  <2> QED BY <2>1, <2>4, 1 \in 0..4
<1> QED BY <1>1, <1>2, <1>3, <1>4 DEF Ids

\* A contract is published as its first clause that holds or, if a precondition
\* is not met, as the refusal of one that is not.
LEMMA PublishIs ==
  ASSUME NEW id \in Ids, NEW r, r.config.strategy \in Strategies
  PROVE  LET x == Publish(id, r)
             c == Clauses(id, r)
             p == Preconditions(id, r)
         IN  /\ x.id = id
             /\ \/ /\ ~x.refused /\ \A k \in DOMAIN p : Satisfied(p[k], r)
                   /\ \E i \in DOMAIN c :
                        /\ c[i].holds /\ \A j \in 1..(i - 1) : ~c[j].holds
                        /\ x.branch = c[i].branch /\ x.status = c[i].status
                \/ /\ x.refused
                   /\ \E k \in DOMAIN p : /\ ~Satisfied(p[k], r)
                                          /\ x.branch = Refusal(p[k]).branch
                                          /\ x.status = Refusal(p[k]).status
<1> DEFINE c == Clauses(id, r)
           p == Preconditions(id, r)
           unmet == {k \in DOMAIN p : ~Satisfied(p[k], r)}
           x == Publish(id, r)
<1>1. CASE unmet = {}
  <2>1. /\ x.id = id /\ ~x.refused
        /\ x.branch = Decide(c).branch /\ x.status = Decide(c).status
    BY <1>1 DEF Publish
  <2>2. PICK n \in Nat \ {0} : DOMAIN c = 1..n /\ c[n].holds
    BY ClausesShape DEF Decidable
  <2>3. PICK i \in 1..n : /\ c[i].holds /\ \A j \in 1..(i - 1) : ~c[j].holds
                          /\ Decide(c) = [branch |-> c[i].branch, status |-> c[i].status]
    BY <2>2, DecideIs
  <2>4. x.branch = c[i].branch /\ x.status = c[i].status
    BY <2>1, <2>3
  <2>5. \A k \in DOMAIN p : Satisfied(p[k], r)
    BY <1>1
  <2> QED BY <2>1, <2>2, <2>3, <2>4, <2>5
<1>2. CASE unmet # {}
  <2>1. /\ x.id = id /\ x.refused
        /\ x.branch = Refusal(p[Least(unmet)]).branch
        /\ x.status = Refusal(p[Least(unmet)]).status
    BY <1>2 DEF Publish
  <2>2. PICK n \in 0..4 : DOMAIN p = 1..n
    BY PreconditionsShape
  <2>3. unmet \in SUBSET Int /\ IsFiniteSet(unmet)
    BY <2>2, FS_Interval, FS_Subset
  <2>4. Least(unmet) \in unmet
    BY <1>2, <2>3, Extremes
  <2> QED BY <2>1, <2>4
<1> QED BY <1>1, <1>2

-----------------------------------------------------------------------------
(* The contracts do not look at the facts, the preconditions do.           *)

SameMeasurements(r, s) == r.config = s.config /\ r.before = s.before /\ r.after = s.after

\* A contract's clauses are those of the configuration and the measurements.
LEMMA SameClauses ==
  ASSUME NEW r, NEW s, SameMeasurements(r, s), NEW id \in Ids
  PROVE  /\ Clauses(id, r) = Clauses(id, s)
         /\ ShutdownStarted(r) = ShutdownStarted(s)
<1> USE DEF SameMeasurements
<1>1. StartupClauses(r) = StartupClauses(s)
  BY DEF StartupClauses, StartupResolution
<1>2. ReadinessClauses(r) = ReadinessClauses(s)
  BY DEF ReadinessClauses
<1>3. /\ \A t : BeforeKill(r, t) = BeforeKill(s, t)
      /\ SigkillEffective(r) = SigkillEffective(s)
  BY DEF BeforeKill, SigkillEffective
<1>4. AcceptStopped(r) = AcceptStopped(s)
  BY <1>3, Zenon DEF AcceptStopped
<1>5. ShutdownStarted(r) = ShutdownStarted(s)
  <2>1. ReactionSigns(r) = ReactionSigns(s)
    BY <1>3, <1>4, Zenon DEF ReactionSigns
  <2> QED BY <2>1 DEF ShutdownStarted
<1>6. SignalClauses(r) = SignalClauses(s)
  BY <1>3, <1>5, Zenon DEF SignalClauses
<1>7. DrainClauses(r) = DrainClauses(s)
  <2>1. ConnectedTimes(r) = ConnectedTimes(s)
    BY DEF ConnectedTimes
  <2>2. LastAccepted(r) = LastAccepted(s)
    BY <1>3, <2>1, Zenon DEF LastAccepted
  <2>3. ResetsInside(r) = ResetsInside(s)
    BY Zenon DEF ResetsInside, AcceptThenReset
  <2>4. InAppClauses(r) = InAppClauses(s)
    BY <2>2, <2>3, Zenon
    DEF InAppClauses, ListenerClosedEarly, ReadinessNotSignaled, ThinReserve
  <2> QED BY <2>4 DEF DrainClauses
<1>8. InflightClauses(r) = InflightClauses(s)
  BY Zenon DEF InflightClauses, InFlight
<1>9. DeadlineClauses(r) = DeadlineClauses(s)
  BY <1>3, Zenon DEF DeadlineClauses, ShutdownDuration, ShutdownFrom
<1> QED BY <1>1, <1>2, <1>5, <1>6, <1>7, <1>8, <1>9, Zenon DEF Clauses

\* What can happen, and what is recorded of it, depends on the plan.
LEMMA SameExperiment ==
  ASSUME NEW r, NEW s, NEW e,
         r.config = s.config, r.before = s.before, r.enabled = s.enabled
  PROVE  /\ Possible(r, e) = Possible(s, e)
         /\ Recorded(r, e) = Recorded(s, e)
<1>1. KilledAt(r, e) = KilledAt(s, e) /\ KillSent(r, e) = KillSent(s, e)
  BY DEF KilledAt, KillSent, HardWait
<1>2. Possible(r, e) = Possible(s, e)
  BY <1>1, Zenon DEF Possible
<1>3. Frames(r, e) = Frames(s, e)
  BY <1>1, Zenon DEF Frames
<1>4. Recorded(r, e) = Recorded(s, e)
  BY <1>1, <1>3, Zenon DEF Recorded, OnSidecar
<1> QED BY <1>2, <1>4

-----------------------------------------------------------------------------
(* The invariant.                                                          *)

Fields == {"config", "before", "after", "target", "baseline", "fallbackP50",
           "fallbackJitter", "enabled", "lead", "facts"}

IsReport(r) == r = [f \in Fields |-> r[f]]

Branches == {v.branch : v \in UNION {CATALOG[id] : id \in Ids}}

Decision == [branch : Branches, status : Status]

Result == [id : Ids, branch : Branches, status : Status, refused : BOOLEAN,
           candidate : SUBSET Decision]

TypeOK ==
  /\ stage \in Stage
  /\ IsReport(report)
  /\ \E p \in Plans : report.config = p.config /\ report.before = p.before
  /\ report.baseline \subseteq {report.before.requests}
  /\ results \in Seq(Result)

\* What the contract in place i is told of the others.
FactsAt(i, r) == IF i > 3 /\ ShutdownStarted(r) THEN {"shutdown_started"} ELSE {}
ReportAt(i, r) == [r EXCEPT !.facts = FactsAt(i, r)]

\* The verdicts are those of the contracts in order, each with what the ones
\* before it found out.
InOrder ==
  /\ Len(results) <= 6
  /\ \A i \in 1..Len(results) : results[i] = Publish(AllContracts[i], ReportAt(i, report))
  /\ report.facts = FactsAt(Len(results) + 1, report)
  /\ stage = "contracts" => Len(results) < 6
  /\ stage = "judged" => Len(results) = 6
  /\ stage \in {"baseline", "armed", "crashed"} => Len(results) = 0

\* The report records one possible experiment.
Measured ==
  stage \in {"contracts", "judged"} =>
    \E e \in happened :
      happened = {e} /\ Possible(report, e) /\ report.after = Recorded(report, e)

Inv == TypeOK /\ InOrder /\ Measured

\* The statuses of the catalog are the six of a contract.
LEMMA CatalogStatus == \A id \in Ids : \A v \in CATALOG[id] : v.status \in Status
<1> SUFFICES ASSUME NEW id \in Ids, NEW v \in CATALOG[id] PROVE v.status \in Status
  OBVIOUS
<1> USE DEF CATALOG, Verdict, VerdictFor, Status
<1>1. CASE id = "SP001"
  BY <1>1 DEF StartupVerdicts
<1>2. CASE id = "SP002"
  BY <1>2 DEF ReadinessVerdicts
<1>3. CASE id = "SP003"
  BY <1>3 DEF SignalVerdicts
<1>4. CASE id = "SP004"
  BY <1>4 DEF DrainDecided, DrainRefused
<1>5. CASE id = "SP005"
  BY <1>5 DEF InflightVerdicts
<1>6. CASE id = "SP006"
  BY <1>6 DEF DeadlineVerdicts
<1> QED BY <1>1, <1>2, <1>3, <1>4, <1>5, <1>6 DEF Ids

\* What is published is a verdict of the catalog.
LEMMA PublishCatalogued ==
  ASSUME NEW id \in Ids, NEW r, r.config.strategy \in Strategies
  PROVE  Catalogued(id, r.config.strategy, Publish(id, r))
<1> DEFINE x == Publish(id, r)
           c == Clauses(id, r)
           p == Preconditions(id, r)
<1>1. CASE \E i \in DOMAIN c : x.branch = c[i].branch /\ x.status = c[i].status
  BY <1>1, ClausesShape DEF Catalogued
<1>2. CASE \E k \in DOMAIN p : /\ ~Satisfied(p[k], r)
                               /\ x.branch = Refusal(p[k]).branch
                               /\ x.status = Refusal(p[k]).status
  BY <1>2, PreconditionsShape DEF Catalogued
<1> QED BY <1>1, <1>2, PublishIs

\* What is published has its type.
LEMMA PublishType ==
  ASSUME NEW id \in Ids, NEW r, r.config.strategy \in Strategies
  PROVE  Publish(id, r) \in Result
<1> DEFINE x == Publish(id, r)
           c == Clauses(id, r)
           d == Decide(c)
<1>1. \A y : Catalogued(id, r.config.strategy, y) => y.branch \in Branches /\ y.status \in Status
  BY CatalogStatus DEF Catalogued, Branches
<1>2. x.branch \in Branches /\ x.status \in Status
  BY <1>1, PublishCatalogued
<1>3. d \in Decision
  <2>1. PICK n \in Nat \ {0} : DOMAIN c = 1..n /\ c[n].holds
    BY ClausesShape DEF Decidable
  <2>2. PICK i \in 1..n : d = [branch |-> c[i].branch, status |-> c[i].status]
    BY <2>1, DecideIs
  <2>3. Catalogued(id, r.config.strategy, c[i])
    BY <2>1, ClausesShape
  <2> QED BY <1>1, <2>2, <2>3 DEF Decision
<1>4. /\ x = [id |-> x.id, branch |-> x.branch, status |-> x.status, refused |-> x.refused,
              candidate |-> x.candidate]
      /\ x.id = id /\ x.refused \in BOOLEAN /\ x.candidate \in {{}, {d}}
  BY DEF Publish
<1> QED BY <1>2, <1>3, <1>4 DEF Result

\* The six contracts, by place.
LEMMA Places ==
  /\ Len(AllContracts) = 6
  /\ AllContracts[1] = "SP001" /\ AllContracts[2] = "SP002" /\ AllContracts[3] = "SP003"
  /\ AllContracts[4] = "SP004" /\ AllContracts[5] = "SP005" /\ AllContracts[6] = "SP006"
BY DEF AllContracts

\* Where the facts, and the facts alone, change, nothing that has been published
\* would be published otherwise.
LEMMA FactsAreApart ==
  ASSUME DOMAIN report = Fields, NEW F, report' = [report EXCEPT !.facts = F]
  PROVE  /\ \A f \in Fields \ {"facts"} : report'[f] = report[f]
         /\ report'.facts = F /\ DOMAIN report' = Fields
         /\ ShutdownStarted(report') = ShutdownStarted(report)
         /\ \A i : FactsAt(i, report') = FactsAt(i, report)
         /\ \A i : ReportAt(i, report') = ReportAt(i, report)
<1>1. /\ \A f \in Fields \ {"facts"} : report'[f] = report[f]
      /\ report'.facts = F /\ DOMAIN report' = Fields
  BY DEF Fields
<1>2. SameMeasurements(report', report)
  BY <1>1 DEF SameMeasurements, Fields
<1>3. ShutdownStarted(report') = ShutdownStarted(report)
  BY <1>2, SameClauses DEF Ids
<1>4. \A i : FactsAt(i, report') = FactsAt(i, report)
  BY <1>3, Zenon DEF FactsAt
<1>5. ASSUME NEW i PROVE ReportAt(i, report') = ReportAt(i, report)
  <2> DEFINE G == FactsAt(i, report)
  <2>1. ReportAt(i, report) = [report EXCEPT !.facts = G]
    BY DEF ReportAt
  <2>2. ReportAt(i, report') = [report' EXCEPT !.facts = G]
    BY <1>4 DEF ReportAt
  <2> HIDE DEF G
  <2>3. [report' EXCEPT !.facts = G] = [report EXCEPT !.facts = G]
    BY DEF Fields
  <2> QED BY <2>1, <2>2, <2>3
<1> QED BY <1>1, <1>3, <1>4, <1>5

\* The next contract is published after what is known so far.
LEMMA ContractStep ==
  ASSUME Inv, EvaluateContract
  PROVE  Inv'
<1> DEFINE n == Len(results) + 1
           id == AllContracts[n]
<1>1. /\ stage = "contracts" /\ results' = Append(results, Publish(id, report))
      /\ report' = [report EXCEPT !.facts = @ \cup FactsOf(id, report)]
      /\ happened' = happened
      /\ stage' = IF Len(results') = 6 THEN "judged" ELSE "contracts"
  BY Places DEF EvaluateContract
<1>2. /\ results \in Seq(Result) /\ Len(results) \in 0..5
      /\ IsReport(report) /\ report.facts = FactsAt(n, report)
  <2>1. results \in Seq(Result) /\ IsReport(report)
    BY DEF Inv, TypeOK
  <2>2. report.facts = FactsAt(n, report)
    BY DEF Inv, InOrder
  <2>3. PICK k \in Nat : k = Len(results)
    BY <2>1, LenProperties
  <2>4. k < 6
    BY <1>1, <2>3 DEF Inv, InOrder
  <2>5. k \in 0..5
    BY <2>4
  <2> QED BY <2>1, <2>2, <2>3, <2>5
<1>3. n \in 1..6 /\ id \in Ids /\ (id = "SP003" <=> n = 3)
  <2>1. n \in {1, 2, 3, 4, 5, 6}
    <3>1. PICK k \in 0..5 : k = Len(results)
      BY <1>2
    <3>2. k + 1 \in {1, 2, 3, 4, 5, 6}
      OBVIOUS
    <3> QED BY <3>1, <3>2
  <2> QED BY <2>1, Places DEF Ids
<1>4. report.config.strategy \in Strategies
  BY PlansAssumption DEF Inv, TypeOK
<1>5. Publish(id, report) \in Result
  BY <1>3, <1>4, PublishType
<1>6. /\ results' \in Seq(Result) /\ Len(results') = n /\ results'[n] = Publish(id, report)
      /\ \A i \in 1..Len(results) : results'[i] = results[i]
  BY <1>1, <1>2, <1>5, AppendProperties
<1> DEFINE F == report.facts \cup FactsOf(id, report)
<1>7. report' = [report EXCEPT !.facts = F]
  BY <1>1
<1>8. /\ \A f \in Fields \ {"facts"} : report'[f] = report[f]
      /\ report'.facts = F /\ IsReport(report')
      /\ \A i : FactsAt(i, report') = FactsAt(i, report)
      /\ \A i : ReportAt(i, report') = ReportAt(i, report)
  <2> HIDE DEF F
  <2>1. DOMAIN report = Fields
    BY <1>2 DEF IsReport
  <2>2. IsReport(report')
    BY <1>7, <2>1 DEF IsReport
  <2> QED BY <1>7, <2>1, <2>2, FactsAreApart
<1>9. report = ReportAt(n, report)
  <2>1. [report EXCEPT !.facts = report.facts] = report
    BY <1>2 DEF IsReport, Fields
  <2> QED BY <1>2, <2>1 DEF ReportAt
<1>10. F = FactsAt(n + 1, report)
  <2>1. CASE n = 3
    <3>1. n + 1 > 3 /\ ~(n > 3)
      BY <2>1
    <3> QED BY <1>2, <1>3, <2>1, <3>1 DEF FactsAt, FactsOf
  <2>2. CASE n # 3
    <3>1. n + 1 > 3 <=> n > 3
      BY <1>3, <2>2
    <3>2. FactsOf(id, report) = {}
      BY <1>3, <2>2 DEF FactsOf
    <3> QED BY <1>2, <3>1, <3>2 DEF FactsAt
  <2> QED BY <2>1, <2>2
<1>11. TypeOK'
  <2>1. /\ report'.config = report.config /\ report'.before = report.before
        /\ report'.baseline = report.baseline
    BY <1>8 DEF Fields
  <2>2. stage' \in Stage
    BY <1>1 DEF Stage
  <2> QED BY <1>6, <1>8, <2>1, <2>2 DEF Inv, TypeOK
<1>12. InOrder'
  <2>1. ASSUME NEW i \in 1..n PROVE results'[i] = Publish(AllContracts[i], ReportAt(i, report'))
    <3>1. CASE i = n
      BY <1>6, <1>8, <1>9, <3>1
    <3>2. CASE i # n
      <4>1. i \in 1..Len(results)
        BY <1>2, <3>2
      <4> QED BY <1>6, <1>8, <4>1 DEF Inv, InOrder
    <3> QED BY <3>1, <3>2
  <2>2. report'.facts = FactsAt(n + 1, report')
    BY <1>8, <1>10
  <2>3. /\ stage' \in {"contracts", "judged"}
        /\ stage' = "contracts" => n < 6
        /\ stage' = "judged" => n = 6
    BY <1>1, <1>3, <1>6
  <2> QED BY <1>3, <1>6, <2>1, <2>2, <2>3 DEF InOrder
<1>13. Measured'
  <2>1. /\ report'.config = report.config /\ report'.before = report.before
        /\ report'.enabled = report.enabled /\ report'.after = report.after
    BY <1>8 DEF Fields
  <2>2. PICK e \in happened :
          happened = {e} /\ Possible(report, e) /\ report.after = Recorded(report, e)
    BY <1>1 DEF Inv, Measured
  <2>3. Possible(report', e) /\ report'.after = Recorded(report', e)
    BY <2>1, <2>2, SameExperiment
  <2> QED BY <1>1, <2>2, <2>3 DEF Measured
<1> QED BY <1>11, <1>12, <1>13 DEF Inv

\* Before the contracts there is nothing to be told.
LEMMA NothingPublished ==
  ASSUME NEW r, NEW n, n = 0
  PROVE  FactsAt(n + 1, r) = {} /\ 1..n = {} /\ n < 6
<1>1. ~(n + 1 > 3) /\ n < 6 /\ 1..n = {}
  OBVIOUS
<1> QED BY <1>1 DEF FactsAt

\* Every reachable state has the verdicts of the contracts so far, in order, of a
\* report that records one possible experiment.
THEOREM VerdictsSafe == Spec => []Inv
<1>1. Init => Inv
  <2> SUFFICES ASSUME Init PROVE Inv
    OBVIOUS
  <2>1. PICK p \in Plans :
          report = [config |-> p.config, before |-> p.before, after |-> NoObservation,
                    target |-> "", baseline |-> {}, fallbackP50 |-> {}, fallbackJitter |-> {},
                    enabled |-> FALSE, lead |-> {}, facts |-> {}]
    BY DEF Init
  <2>2. /\ IsReport(report) /\ report.facts = {} /\ report.baseline = {}
        /\ report.config = p.config /\ report.before = p.before
    BY <2>1 DEF IsReport, Fields
  <2>3. results \in Seq(Result) /\ Len(results) = 0 /\ stage = "baseline"
    BY EmptySeq DEF Init
  <2>4. TypeOK
    BY <2>2, <2>3 DEF TypeOK, Stage
  <2>5. InOrder
    BY <2>2, <2>3, NothingPublished DEF InOrder
  <2> QED BY <2>3, <2>4, <2>5 DEF Inv, Measured
<1>2. Inv /\ [Next]_vars => Inv'
  <2> SUFFICES ASSUME Inv, [Next]_vars PROVE Inv'
    OBVIOUS
  <2>1. CASE FinishBaseline
    <3>1. PICK resolvable : report' = Plan(resolvable)
      BY <2>1 DEF FinishBaseline
    <3>2. stage = "baseline" /\ stage' = "armed" /\ results' = results /\ happened' = happened
      BY <2>1 DEF FinishBaseline
    <3>3. IsReport(report) /\ report.facts = {} /\ Len(results) = 0
      <4>1. Len(results) = 0 /\ report.facts = FactsAt(Len(results) + 1, report)
        BY <3>2 DEF Inv, InOrder
      <4> QED BY <4>1, NothingPublished DEF Inv, TypeOK
    <3>4. /\ IsReport(report')
          /\ report'.config = report.config /\ report'.before = report.before
          /\ report'.facts = {} /\ report'.baseline = Baseline(report, resolvable)
      BY <3>1, <3>3 DEF Plan, IsReport, Fields
    <3>5. Baseline(report, resolvable) \subseteq {report'.before.requests}
      BY <3>4 DEF Baseline
    <3>6. TypeOK'
      BY <3>2, <3>4, <3>5 DEF Inv, TypeOK, Stage
    <3>7. Len(results') = 0 /\ report'.facts = {} /\ stage' = "armed"
      BY <3>2, <3>3, <3>4
    <3>8. InOrder'
      BY <3>7, NothingPublished DEF InOrder
    <3> QED BY <3>2, <3>6, <3>8 DEF Inv, Measured
  <2>2. CASE ArmWithoutLead
    <3>1. /\ stage = "armed" /\ stage' = "crashed" /\ report' = report
          /\ results' = results /\ happened' = happened
      BY <2>2 DEF ArmWithoutLead
    <3> QED BY <3>1 DEF Inv, TypeOK, InOrder, Measured, Stage
  <2>3. CASE Shutdown
    <3>1. PICK e \in Experiments(report) :
            /\ Possible(report, e) /\ happened' = {e}
            /\ report' = [report EXCEPT !.after = Recorded(report, e)]
      BY <2>3 DEF Shutdown
    <3>2. stage = "armed" /\ stage' = "contracts" /\ results' = results
      BY <2>3 DEF Shutdown
    <3>3. IsReport(report) /\ report.facts = {} /\ Len(results) = 0
      <4>1. Len(results) = 0 /\ report.facts = FactsAt(Len(results) + 1, report)
        BY <3>2 DEF Inv, InOrder
      <4> QED BY <4>1, NothingPublished DEF Inv, TypeOK
    <3>4. /\ IsReport(report')
          /\ report'.config = report.config /\ report'.before = report.before
          /\ report'.enabled = report.enabled /\ report'.baseline = report.baseline
          /\ report'.facts = {} /\ report'.after = Recorded(report, e)
      <4> DEFINE observed == Recorded(report, e)
      <4>1. report' = [report EXCEPT !.after = observed]
        BY <3>1
      <4> HIDE DEF observed
      <4>2. /\ IsReport(report')
            /\ report'.config = report.config /\ report'.before = report.before
            /\ report'.enabled = report.enabled /\ report'.baseline = report.baseline
            /\ report'.facts = {} /\ report'.after = observed
        BY <3>3, <4>1 DEF IsReport, Fields
      <4> QED BY <4>2 DEF observed
    <3>5. TypeOK'
      BY <3>2, <3>4 DEF Inv, TypeOK, Stage
    <3>6. Len(results') = 0 /\ report'.facts = {} /\ stage' = "contracts"
      BY <3>2, <3>3, <3>4
    <3>7. InOrder'
      BY <3>6, NothingPublished DEF InOrder
    <3>8. Possible(report', e) /\ report'.after = Recorded(report', e)
      BY <3>1, <3>4, SameExperiment
    <3>9. Measured'
      BY <3>1, <3>8 DEF Measured
    <3> QED BY <3>5, <3>7, <3>9 DEF Inv
  <2>4. CASE EvaluateContract
    BY <2>4, ContractStep
  <2>5. CASE UNCHANGED vars
    BY <2>5 DEF vars, Inv, TypeOK, InOrder, Measured
  <2> QED BY <2>1, <2>2, <2>3, <2>4, <2>5 DEF Next
<1> QED BY <1>1, <1>2, PTL DEF Spec

-----------------------------------------------------------------------------
(* What a reachable state says.                                            *)

\* A contract reads the report the others read, but for the facts.
LEMMA ReportAtIs ==
  ASSUME NEW r, IsReport(r), NEW i
  PROVE  /\ SameMeasurements(ReportAt(i, r), r)
         /\ ReportAt(i, r).facts = FactsAt(i, r)
         /\ ReportAt(i, r).baseline = r.baseline
<1> DEFINE F == FactsAt(i, r)
<1>1. ReportAt(i, r) = [r EXCEPT !.facts = F]
  BY DEF ReportAt
<1> HIDE DEF F
<1>2. DOMAIN r = Fields
  BY DEF IsReport
<1>3. /\ SameMeasurements(ReportAt(i, r), r)
      /\ ReportAt(i, r).facts = F
      /\ ReportAt(i, r).baseline = r.baseline
  BY <1>1, <1>2 DEF SameMeasurements, Fields
<1> QED BY <1>3 DEF F

\* The verdict in a place is that of the contract of that place.
LEMMA Reading ==
  ASSUME Inv, NEW i \in DOMAIN results
  PROVE  /\ i \in 1..6 /\ AllContracts[i] \in Ids
         /\ results[i] = Publish(AllContracts[i], ReportAt(i, report))
         /\ results[i].id = AllContracts[i]
         /\ report.config.strategy \in Strategies
         /\ SameMeasurements(ReportAt(i, report), report)
         /\ ReportAt(i, report).config.strategy = report.config.strategy
<1>1. results \in Seq(Result)
  BY DEF Inv, TypeOK
<1>2. PICK k \in Nat : k = Len(results) /\ DOMAIN results = 1..k
  BY <1>1, LenProperties
<1>3. k <= 6
  BY <1>2 DEF Inv, InOrder
<1>4. i \in 1..6 /\ i \in 1..Len(results)
  BY <1>2, <1>3
<1>5. AllContracts[i] \in Ids
  <2>1. i \in {1, 2, 3, 4, 5, 6}
    BY <1>4
  <2> QED BY <2>1, Places DEF Ids
<1>6. results[i] = Publish(AllContracts[i], ReportAt(i, report))
  BY <1>4 DEF Inv, InOrder
<1>7. report.config.strategy \in Strategies
  BY PlansAssumption DEF Inv, TypeOK
<1>8. SameMeasurements(ReportAt(i, report), report)
  BY ReportAtIs DEF Inv, TypeOK
<1>9. results[i].id = AllContracts[i]
  BY <1>6 DEF Publish
<1>10. ReportAt(i, report).config.strategy = report.config.strategy
  BY <1>8 DEF SameMeasurements
<1> QED BY <1>4, <1>5, <1>6, <1>7, <1>8, <1>9, <1>10

\* In the end there is one of each.
LEMMA JudgedReading ==
  ASSUME Inv, Judged, NEW i \in 1..6
  PROVE  /\ i \in DOMAIN results
         /\ Published(AllContracts[i]) = results[i]
<1>1. results \in Seq(Result) /\ Len(results) = 6
  BY DEF Inv, TypeOK, InOrder, Judged
<1>2. DOMAIN results = 1..6
  BY <1>1, LenProperties
<1>3. \A j \in DOMAIN results : results[j].id = AllContracts[j]
  BY Reading
<1>4. ASSUME NEW j \in 1..6, AllContracts[j] = AllContracts[i] PROVE j = i
  <2>1. i \in {1, 2, 3, 4, 5, 6} /\ j \in {1, 2, 3, 4, 5, 6}
    OBVIOUS
  <2> QED BY <1>4, <2>1, Places
<1> DEFINE X == {results[j] : j \in DOMAIN results}
<1>5. results[i] \in X /\ results[i].id = AllContracts[i]
  BY <1>2, <1>3
<1>6. \A x \in X : x.id = AllContracts[i] => x = results[i]
  BY <1>2, <1>3, <1>4
<1>7. (CHOOSE x \in X : x.id = AllContracts[i]) = results[i]
  <2> HIDE DEF X
  <2> QED BY <1>5, <1>6
<1> QED BY <1>2, <1>7 DEF Published

\* What happened is what was recorded.
LEMMA HappenedIs ==
  ASSUME Inv, stage \in {"contracts", "judged"}
  PROVE  Possible(report, Happened) /\ report.after = Recorded(report, Happened)
<1>1. PICK e \in happened :
        happened = {e} /\ Possible(report, e) /\ report.after = Recorded(report, e)
  BY DEF Inv, Measured
<1>2. Happened = e
  BY <1>1 DEF Happened
<1> QED BY <1>1, <1>2

-----------------------------------------------------------------------------
(* The verdicts, one by one.                                               *)

\* The type invariant.
THEOREM TypeCorrect == Spec => []TypeOK
<1>1. Inv => TypeOK
  BY DEF Inv
<1> QED BY <1>1, VerdictsSafe, PTL

\* Whatever is measured, the verdict that is published is in the catalog, with
\* that status and under that strategy.
THEOREM CatalogSafe == Spec => []CatalogAgrees
<1>1. Inv => CatalogAgrees
  <2> SUFFICES ASSUME Inv, NEW i \in DOMAIN results
               PROVE  Catalogued(results[i].id, report.config.strategy, results[i])
    BY DEF CatalogAgrees, Catalogued
  <2> QED BY Reading, PublishCatalogued
<1> QED BY <1>1, VerdictsSafe, PTL

\* Whatever is measured, no clause that holds is worse than the published one.
THEOREM WorstSafe == Spec => []WorstClauseWins
<1>1. Inv => WorstClauseWins
  <2> SUFFICES ASSUME Inv, NEW i \in DOMAIN results,
                      results[i].id # "SP001", ~results[i].refused,
                      NEW j \in DOMAIN Clauses(results[i].id, report),
                      Clauses(results[i].id, report)[j].holds
               PROVE  Severity[Clauses(results[i].id, report)[j].status]
                        <= Severity[results[i].status]
    BY DEF WorstClauseWins
  <2> DEFINE id == AllContracts[i]
             r == ReportAt(i, report)
             c == Clauses(id, r)
  <2>1. /\ id \in Ids /\ results[i] = Publish(id, r) /\ results[i].id = id
        /\ r.config.strategy \in Strategies
        /\ SameMeasurements(r, report)
    BY Reading
  <2>2. c = Clauses(results[i].id, report)
    BY <2>1, SameClauses
  <2> HIDE DEF id, r
  <2>3. PICK k \in DOMAIN c : /\ c[k].holds /\ \A m \in 1..(k - 1) : ~c[m].holds
                              /\ results[i].status = c[k].status
    BY <2>1, PublishIs
  <2>4. WorstFirst(c)
    BY <2>1, ClausesShape
  <2>5. PICK n \in Nat \ {0} : DOMAIN c = 1..n
    BY <2>1, ClausesShape DEF Decidable
  <2>6. j \in 1..n /\ k \in 1..n /\ c[j].holds
    BY <2>2, <2>5
  <2>7. k <= j
    <3>1. CASE j \in 1..(k - 1)
      BY <2>3, <2>6, <3>1
    <3>2. CASE ~(j \in 1..(k - 1))
      BY <2>6, <3>2
    <3> QED BY <3>1, <3>2
  <2>8. Severity[c[j].status] <= Severity[c[k].status]
    BY <2>4, <2>5, <2>6, <2>7 DEF WorstFirst
  <2> QED BY <2>2, <2>3, <2>8
<1> QED BY <1>1, VerdictsSafe, PTL

-----------------------------------------------------------------------------
(* The reaction to the signal.                                             *)

\* A recorded time is before the kill if no kill was sent, or if it is earlier.
LEMMA BeforeKillIs ==
  ASSUME NEW e, report.after = Recorded(report, e), NEW t
  PROVE  BeforeKill(report, t) <=> (KillSent(report, e) => t < KilledAt(report, e))
<1>1. report.after.sigkill = IF KillSent(report, e) THEN {KilledAt(report, e)} ELSE {}
  BY DEF Recorded
<1> QED BY <1>1 DEF BeforeKill

\* The contracts say that a shutdown was started of every run in which something
\* happened before the kill, and of no others but where the host's accept probe
\* recorded refusals.
LEMMA SilentIs ==
  ASSUME Inv, stage \in {"contracts", "judged"}
  PROVE  /\ ~ShutdownStarted(report) => Silent
         /\ Silent /\ ~KillMayPassForReaction => ~ShutdownStarted(report)
<1> DEFINE e == Happened
           InTime(t) == KillSent(report, e) => t < KilledAt(report, e)
           late == {q \in e.requests : q.outcome = "refused" /\ q.finished >= 0
                                                             /\ InTime(q.finished)}
<1>1. report.after = Recorded(report, e)
  BY HappenedIs
<1>2. /\ report.after.code = e.code /\ report.after.drop = e.drop
      /\ report.after.requests = e.requests
  BY <1>1 DEF Recorded
<1>3. \A t : BeforeKill(report, t) <=> InTime(t)
  BY <1>1, BeforeKillIs, Zenon
<1>4. report.after.stopped = {t \in e.refused : OnSidecar(report) => InTime(t)}
  <2>1. report.after.stopped
          = {t \in e.refused : OnSidecar(report) => \A k \in report.after.sigkill : t < k}
    BY <1>1 DEF Recorded
  <2> QED BY <1>3, <2>1 DEF BeforeKill
<1>5. AcceptStopped(report) = {} <=> report.after.stopped = {} /\ late = {}
  <2> DEFINE refusals == {q.finished : q \in {x \in report.after.requests :
                            x.outcome = "refused" /\ x.finished >= 0
                                                  /\ BeforeKill(report, x.finished)}}
  <2>1. refusals = {} <=> late = {}
    BY <1>2, <1>3
  <2>2. AcceptStopped(report) = {} <=> report.after.stopped = {} /\ refusals = {}
    <3> HIDE DEF refusals
    <3>1. AcceptStopped(report) = IF report.after.stopped # {} THEN report.after.stopped
                                  ELSE IF refusals # {} THEN {Least(refusals)} ELSE {}
      BY DEF AcceptStopped, refusals
    <3> QED BY <3>1
  <2> QED BY <2>1, <2>2
<1>6. ShutdownStarted(report) <=> \/ \E d \in report.after.drop : BeforeKill(report, d.at)
                                  \/ AcceptStopped(report) # {}
                                  \/ ~SigkillEffective(report)
  <2> DEFINE signs == ReactionSigns(report)
  <2>1. /\ DOMAIN signs = {"readinessChanged", "acceptStopped", "processExited"}
        /\ signs["readinessChanged"] = \E d \in report.after.drop : BeforeKill(report, d.at)
        /\ signs["acceptStopped"] = (AcceptStopped(report) # {})
        /\ signs["processExited"] = ~SigkillEffective(report)
    BY DEF ReactionSigns
  <2>2. ShutdownStarted(report) <=> \E s \in DOMAIN signs : signs[s]
    BY DEF ShutdownStarted
  <2> HIDE DEF signs
  <2> QED BY <2>1, <2>2, Zenon
<1>7. Silent <=> /\ e.code = "sigkill"
                 /\ \A d \in e.drop : ~InTime(d.at)
                 /\ \A t \in e.refused : ~InTime(t)
                 /\ late = {}
  BY DEF Silent
<1>11. KillMayPassForReaction <=> ~OnSidecar(report) /\ e.refused # {}
  BY DEF KillMayPassForReaction
<1> HIDE DEF e, InTime
<1>8. report.after.stopped = {} <=> \A t \in e.refused : ~InTime(t) /\ OnSidecar(report)
  BY <1>4
<1>9. (\E d \in report.after.drop : BeforeKill(report, d.at)) <=> \E d \in e.drop : InTime(d.at)
  BY <1>2, <1>3
<1>10. SigkillEffective(report) <=> e.code = "sigkill"
  BY <1>2 DEF SigkillEffective
<1> QED BY <1>5, <1>6, <1>7, <1>8, <1>9, <1>10, <1>11

\* No contract finds by itself that the shutdown never started, and only one
\* precondition does.
LEMMA WhoBlames ==
  ASSUME NEW id \in Ids, NEW r, r.config.strategy \in Strategies
  PROVE  /\ \A i \in DOMAIN Clauses(id, r) :
              Clauses(id, r)[i].branch # "shutdown_never_started"
         /\ \A k \in DOMAIN Preconditions(id, r) :
              Refusal(Preconditions(id, r)[k]).branch = "shutdown_never_started"
                => Preconditions(id, r)[k] = "shutdown_started" /\ id \in {"SP004", "SP005"}
<1> DEFINE c == Clauses(id, r)
           p == Preconditions(id, r)
<1>1. \A i \in DOMAIN c : c[i].branch # "shutdown_never_started"
  <2>1. CASE id = "SP001"
    BY <2>1 DEF Clauses, StartupClauses, Clause
  <2>2. CASE id = "SP002"
    BY <2>2 DEF Clauses, ReadinessClauses, Clause
  <2>3. CASE id = "SP003"
    BY <2>3 DEF Clauses, SignalClauses, Clause
  <2>4. CASE id = "SP004"
    <3>1. c = DrainClauses(r)
      BY <2>4 DEF Clauses
    <3>2. \A i \in DOMAIN InAppClauses(r) : InAppClauses(r)[i].branch # "shutdown_never_started"
      BY DEF InAppClauses, Clause
    <3>3. CASE r.config.strategy = "in_app"
      BY <3>1, <3>2, <3>3 DEF DrainClauses
    <3>4. CASE r.config.strategy \in {"prestop", "none"}
      BY <3>1, <3>4 DEF DrainClauses, Clause
    <3> QED BY <3>3, <3>4 DEF Strategies
  <2>5. CASE id = "SP005"
    BY <2>5 DEF Clauses, InflightClauses, Clause
  <2>6. CASE id = "SP006"
    BY <2>6 DEF Clauses, DeadlineClauses, Clause
  <2> QED BY <2>1, <2>2, <2>3, <2>4, <2>5, <2>6 DEF Ids
<1>2. ASSUME NEW k \in DOMAIN p, Refusal(p[k]).branch = "shutdown_never_started"
      PROVE  p[k] = "shutdown_started" /\ id \in {"SP004", "SP005"}
  <2>1. /\ id \in {"SP004", "SP005", "SP006"}
        /\ p[k] \in {"shutdown_started", "direct_connection_path", "shutdown_budget_resolvable",
                     "accept_window_measured", "inflight_enabled",
                     "readiness_fallback_resolvable", "baseline_steady_state_2xx"}
        /\ id = "SP006" => p[k] = "shutdown_budget_resolvable"
    BY <1>2 DEF Preconditions, DrainPreconditions, InflightPreconditions, Ids
  <2>2. \A x \in {"direct_connection_path", "shutdown_budget_resolvable",
                  "accept_window_measured", "inflight_enabled",
                  "readiness_fallback_resolvable", "baseline_steady_state_2xx"} :
          Refusal(x).branch # "shutdown_never_started"
    BY DEF Refusal
  <2> QED BY <1>2, <2>1, <2>2
<1> QED BY <1>1, <1>2

\* SP003 has one of its first two verdicts exactly where nothing was started.
LEMMA SignalVerdict ==
  ASSUME NEW r, r.config.strategy \in Strategies
  PROVE  Publish("SP003", r).branch \in {"signal_discarded", "shutdown_not_started"}
           <=> ~ShutdownStarted(r)
<1> DEFINE c == SignalClauses(r)
           x == Publish("SP003", r)
<1>1. /\ DOMAIN c = 1..4
      /\ c[1].holds = (~ShutdownStarted(r) /\ r.before.handler = "missing")
      /\ c[2].holds = ~ShutdownStarted(r)
      /\ c[1].branch = "signal_discarded" /\ c[2].branch = "shutdown_not_started"
      /\ c[3].branch = "killed" /\ c[4].branch = "shutdown_observed"
  BY DEF SignalClauses, Clause
<1>2. Clauses("SP003", r) = c /\ DOMAIN Preconditions("SP003", r) = {}
  BY DEF Clauses, Preconditions
<1> HIDE DEF c, x
<1>3. PICK i \in DOMAIN c : c[i].holds /\ (\A j \in 1..(i - 1) : ~c[j].holds)
                            /\ x.branch = c[i].branch
  BY <1>2, PublishIs DEF Ids, x
<1>4. i \in {1, 2, 3, 4}
  BY <1>1
<1>5. CASE i \in {1, 2}
  BY <1>1, <1>3, <1>5 DEF x
<1>6. CASE i \in {3, 4}
  <2>1. 2 \in 1..(i - 1)
    BY <1>6
  <2> QED BY <1>1, <1>3, <1>6, <2>1 DEF x
<1> QED BY <1>4, <1>5, <1>6

\* Where the shutdown was not started the contracts about it are refused.
LEMMA SilentRefusals ==
  ASSUME NEW r, r.config.strategy \in Strategies, r.facts = {}
  PROVE  /\ Publish("SP005", r).status \in {"SKIP", "INCONCLUSIVE"}
         /\ InApp(r) => Publish("SP004", r).status = "INCONCLUSIVE"
<1>1. ~Satisfied("shutdown_started", r)
  BY DEF Satisfied
<1>2. Publish("SP005", r).status \in {"SKIP", "INCONCLUSIVE"}
  <2> DEFINE p == Preconditions("SP005", r)
             x == Publish("SP005", r)
  <2>1. p = InflightPreconditions
    BY DEF Preconditions
  <2>2. 3 \in DOMAIN p /\ p[3] = "shutdown_started"
    BY <2>1 DEF InflightPreconditions
  <2>3. PICK k \in DOMAIN p : x.status = Refusal(p[k]).status
    <3> HIDE DEF p, x
    <3>1. ~Satisfied(p[3], r)
      BY <1>1, <2>2
    <3> QED BY <2>2, <3>1, PublishIs DEF Ids, p, x
  <2>4. p[k] \in {"inflight_enabled", "readiness_fallback_resolvable", "shutdown_started",
                  "baseline_steady_state_2xx"}
    BY <2>1 DEF InflightPreconditions
  <2>5. \A y \in {"inflight_enabled", "readiness_fallback_resolvable", "shutdown_started",
                  "baseline_steady_state_2xx"} : Refusal(y).status \in {"SKIP", "INCONCLUSIVE"}
    BY DEF Refusal
  <2> QED BY <2>3, <2>4, <2>5
<1>3. ASSUME InApp(r) PROVE Publish("SP004", r).status = "INCONCLUSIVE"
  <2> DEFINE p == Preconditions("SP004", r)
             x == Publish("SP004", r)
  <2>1. p = <<"shutdown_started", "direct_connection_path",
              "shutdown_budget_resolvable", "accept_window_measured">>
    BY <1>3 DEF Preconditions, DrainPreconditions
  <2>2. 1 \in DOMAIN p /\ p[1] = "shutdown_started"
    BY <2>1
  <2>3. PICK k \in DOMAIN p : x.status = Refusal(p[k]).status
    <3> HIDE DEF p, x
    <3>1. ~Satisfied(p[1], r)
      BY <1>1, <2>2
    <3> QED BY <2>2, <3>1, PublishIs DEF Ids, p, x
  <2>4. p[k] \in {"shutdown_started", "direct_connection_path",
                  "shutdown_budget_resolvable", "accept_window_measured"}
    BY <2>1
  <2>5. \A y \in {"shutdown_started", "direct_connection_path",
                  "shutdown_budget_resolvable", "accept_window_measured"} :
          Refusal(y).status = "INCONCLUSIVE"
    BY DEF Refusal
  <2> QED BY <2>3, <2>4, <2>5
<1> QED BY <1>2, <1>3

\* No process that reacted is blamed for ignoring SIGTERM, or refused for want of a
\* reaction; one that ignores it is blamed, and no contract about its shutdown
\* publishes a finding, unless its refusals after the kill passed for a reaction.
THEOREM SilenceSafe == Spec => []SilenceIsBlocked
<1>1. ASSUME Inv, Judged
      PROVE  /\ ~ShutdownStarted(report) => Silent
             /\ Silent /\ ~KillMayPassForReaction => ~ShutdownStarted(report)
  BY <1>1, SilentIs DEF Judged
<1>2. ASSUME Inv, Judged, NEW i \in 1..6
      PROVE  /\ Published(AllContracts[i]) = Publish(AllContracts[i], ReportAt(i, report))
             /\ ReportAt(i, report).config.strategy \in Strategies
             /\ ShutdownStarted(ReportAt(i, report)) = ShutdownStarted(report)
             /\ ReportAt(i, report).facts = FactsAt(i, report)
             /\ InApp(ReportAt(i, report)) = InApp(report)
  <2>1. i \in DOMAIN results /\ Published(AllContracts[i]) = results[i]
    BY <1>2, JudgedReading
  <2>2. /\ results[i] = Publish(AllContracts[i], ReportAt(i, report))
        /\ ReportAt(i, report).config.strategy \in Strategies
        /\ SameMeasurements(ReportAt(i, report), report)
    BY <1>2, <2>1, Reading
  <2>3. ReportAt(i, report).facts = FactsAt(i, report)
    BY <1>2, ReportAtIs DEF Inv, TypeOK
  <2>4. ShutdownStarted(ReportAt(i, report)) = ShutdownStarted(report)
    BY <2>2, SameClauses DEF Ids
  <2>5. InApp(ReportAt(i, report)) = InApp(report)
    BY <2>2 DEF SameMeasurements, InApp
  <2> QED BY <2>1, <2>2, <2>3, <2>4, <2>5
<1>3. ASSUME Inv, Judged
      PROVE  Published("SP003").branch \in {"signal_discarded", "shutdown_not_started"}
               <=> ~ShutdownStarted(report)
  <2>1. /\ Published("SP003") = Publish("SP003", ReportAt(3, report))
        /\ ReportAt(3, report).config.strategy \in Strategies
        /\ ShutdownStarted(ReportAt(3, report)) = ShutdownStarted(report)
    BY <1>2, <1>3, Places, 3 \in 1..6
  <2> QED BY <2>1, SignalVerdict
<1>4. ASSUME Inv, Judged, ~ShutdownStarted(report)
      PROVE  /\ Published("SP005").status \in {"SKIP", "INCONCLUSIVE"}
             /\ InApp(report) => Published("SP004").status = "INCONCLUSIVE"
  <2>1. \A i : FactsAt(i, report) = {}
    BY <1>4 DEF FactsAt
  <2>2. /\ Published("SP005") = Publish("SP005", ReportAt(5, report))
        /\ ReportAt(5, report).config.strategy \in Strategies
        /\ ReportAt(5, report).facts = {}
    BY <1>2, <1>4, <2>1, Places, 5 \in 1..6
  <2>3. /\ Published("SP004") = Publish("SP004", ReportAt(4, report))
        /\ ReportAt(4, report).config.strategy \in Strategies
        /\ ReportAt(4, report).facts = {}
        /\ InApp(ReportAt(4, report)) = InApp(report)
    BY <1>2, <1>4, <2>1, Places, 4 \in 1..6
  <2>4. Published("SP005").status \in {"SKIP", "INCONCLUSIVE"}
    BY <2>2, SilentRefusals
  <2>5. InApp(report) => Published("SP004").status = "INCONCLUSIVE"
    BY <2>3, SilentRefusals
  <2> QED BY <2>4, <2>5
<1>5. ASSUME Inv, Judged, NEW i \in DOMAIN results,
             results[i].branch = "shutdown_never_started"
      PROVE  Silent
  <2> DEFINE id == AllContracts[i]
             r == ReportAt(i, report)
             p == Preconditions(id, r)
  <2>1. i \in 1..6 /\ id \in Ids /\ results[i] = Publish(id, r) /\ r.config.strategy \in Strategies
    BY <1>5, Reading
  <2>2. r.facts = FactsAt(i, report)
    BY <1>2, <1>5, <2>1
  <2> HIDE DEF id, r
  <2>3. PICK k \in DOMAIN p : /\ ~Satisfied(p[k], r)
                              /\ Refusal(p[k]).branch = "shutdown_never_started"
    BY <1>5, <2>1, PublishIs, WhoBlames
  <2>4. p[k] = "shutdown_started" /\ id \in {"SP004", "SP005"}
    BY <2>1, <2>3, WhoBlames
  <2>5. i > 3
    <3>1. i \in {1, 2, 3, 4, 5, 6}
      BY <2>1
    <3>2. i \in {4, 5}
      BY <2>4, <3>1, Places DEF id
    <3> QED BY <3>2
  <2>6. "shutdown_started" \notin r.facts
    BY <2>3, <2>4 DEF Satisfied
  <2>7. ~ShutdownStarted(report)
    BY <2>2, <2>5, <2>6 DEF FactsAt
  <2> QED BY <1>1, <1>5, <2>7
<1>6. Inv => SilenceIsBlocked
  <2> SUFFICES ASSUME Inv, Judged PROVE SilenceIsBlocked
    BY DEF SilenceIsBlocked
  <2>1. Silent /\ ~KillMayPassForReaction =>
          /\ Published("SP003").branch \in {"signal_discarded", "shutdown_not_started"}
          /\ Published("SP005").status \in {"SKIP", "INCONCLUSIVE"}
          /\ InApp(report) => Published("SP004").status = "INCONCLUSIVE"
    BY <1>1, <1>3, <1>4
  <2> QED BY <1>1, <1>3, <1>5, <2>1 DEF SilenceIsBlocked
<1> QED BY <1>6, VerdictsSafe, PTL

-----------------------------------------------------------------------------
(* What a verdict says of what happened.                                   *)

\* What is read of the last state by a contract and by a property.
LEMMA ContractReads ==
  ASSUME Inv, Judged, NEW i \in 1..6
  PROVE  /\ Published(AllContracts[i]) = Publish(AllContracts[i], ReportAt(i, report))
         /\ ReportAt(i, report).config = report.config
         /\ ReportAt(i, report).before = report.before
         /\ ReportAt(i, report).after = Recorded(report, Happened)
         /\ ReportAt(i, report).baseline \subseteq {report.before.requests}
         /\ ReportAt(i, report).facts = FactsAt(i, report)
         /\ report.config.strategy \in Strategies
         /\ {report.config.window, report.config.budget} \subseteq Int
         /\ Possible(report, Happened)
<1>1. i \in DOMAIN results /\ Published(AllContracts[i]) = results[i]
  BY JudgedReading
<1>2. results[i] = Publish(AllContracts[i], ReportAt(i, report))
  BY <1>1, Reading
<1>3. /\ SameMeasurements(ReportAt(i, report), report)
      /\ ReportAt(i, report).baseline = report.baseline
      /\ ReportAt(i, report).facts = FactsAt(i, report)
  BY ReportAtIs DEF Inv, TypeOK
<1>4. Possible(report, Happened) /\ report.after = Recorded(report, Happened)
  BY HappenedIs DEF Judged
<1>5. /\ report.config.strategy \in Strategies
      /\ {report.config.window, report.config.budget} \subseteq Int
  BY PlansAssumption DEF Inv, TypeOK
<1>6. report.baseline \subseteq {report.before.requests}
  BY DEF Inv, TypeOK
<1> QED BY <1>1, <1>2, <1>3, <1>4, <1>5, <1>6 DEF SameMeasurements

\* SP005 passes with every precondition met and neither of its other clauses.
LEMMA InflightPass ==
  ASSUME NEW r, r.config.strategy \in Strategies, Publish("SP005", r).status = "PASS"
  PROVE  /\ InFlight(r) # {} /\ \A q \in InFlight(r) : q.outcome \notin BrokenOutcomes
         /\ \E b \in r.baseline : Healthy(b)
<1> DEFINE c == InflightClauses(r)
           p == InflightPreconditions
           x == Publish("SP005", r)
<1>1. Clauses("SP005", r) = c /\ Preconditions("SP005", r) = p
  BY DEF Clauses, Preconditions
<1>2. /\ DOMAIN c = 1..3
      /\ c[1].holds = (InFlight(r) = {})
      /\ c[2].holds = (\E q \in InFlight(r) : q.outcome \in BrokenOutcomes)
      /\ c[1].status = "ERROR" /\ c[2].status = "FAIL"
  <2> DEFINE nothing == InFlight(r) = {}
             destroyed == \E q \in InFlight(r) : q.outcome \in BrokenOutcomes
  <2>1. c = <<Clause("nothing_in_flight", "ERROR", nothing),
              Clause("requests_destroyed", "FAIL", destroyed),
              Clause("all_completed", "PASS", TRUE)>>
    BY Zenon DEF InflightClauses
  <2> HIDE DEF c, nothing, destroyed
  <2>2. /\ DOMAIN c = 1..3 /\ c[1].holds = nothing /\ c[2].holds = destroyed
        /\ c[1].status = "ERROR" /\ c[2].status = "FAIL"
    BY <2>1 DEF Clause
  <2> QED BY <2>2 DEF nothing, destroyed
<1>3. /\ DOMAIN p = 1..4 /\ p[4] = "baseline_steady_state_2xx"
      /\ \A k \in DOMAIN p : p[k] \in {"inflight_enabled", "readiness_fallback_resolvable",
                                       "shutdown_started", "baseline_steady_state_2xx"}
  BY DEF InflightPreconditions
<1>4. \A y \in {"inflight_enabled", "readiness_fallback_resolvable", "shutdown_started",
                "baseline_steady_state_2xx"} : Refusal(y).status # "PASS"
  BY DEF Refusal
<1> HIDE DEF c, p, x
<1>5. x.status = "PASS"
  BY DEF x
<1>6. /\ \A k \in DOMAIN p : Satisfied(p[k], r)
      /\ \E i \in DOMAIN c : c[i].holds /\ (\A j \in 1..(i - 1) : ~c[j].holds)
                             /\ x.status = c[i].status
  <2>1. \A k \in DOMAIN p : x.status # Refusal(p[k]).status
    BY <1>3, <1>4, <1>5
  <2> QED BY <1>1, <2>1, PublishIs DEF Ids, x
<1>7. PICK i \in DOMAIN c : (\A j \in 1..(i - 1) : ~c[j].holds) /\ x.status = c[i].status
  BY <1>6
<1>8. i = 3
  BY <1>2, <1>5, <1>7
<1>9. ~c[1].holds /\ ~c[2].holds
  BY <1>7, <1>8
<1>10. Satisfied("baseline_steady_state_2xx", r)
  BY <1>3, <1>6
<1>11. \E b \in r.baseline : Healthy(b)
  BY <1>10 DEF Satisfied
<1>12. InFlight(r) # {} /\ \A q \in InFlight(r) : q.outcome \notin BrokenOutcomes
  BY <1>2, <1>9
<1> QED BY <1>11, <1>12

\* SP005 passes only on requests that were open at T0, every one of them completed
\* by a process that had answered 2xx throughout the baseline.
THEOREM InflightSafe == Spec => []InflightPassIsMeasured
<1>1. Inv => InflightPassIsMeasured
  <2> DEFINE e == Happened
             r == ReportAt(5, report)
             open == {q \in e.requests : (\E t \in q.connected : t <= 0) /\ q.finished > 0}
  <2> SUFFICES ASSUME Inv, Judged, Published("SP005").status = "PASS"
               PROVE  /\ open # {} /\ \A q \in open : q.outcome = "completed"
                      /\ \A i \in DOMAIN report.before.requests :
                           report.before.requests[i].outcome = "completed"
                           /\ report.before.requests[i].status \in 200..299
    BY DEF InflightPassIsMeasured
  <2>1. /\ Published("SP005") = Publish("SP005", r)
        /\ r.config.strategy \in Strategies
        /\ r.after = Recorded(report, e)
        /\ r.baseline \subseteq {report.before.requests}
        /\ Possible(report, e)
    BY ContractReads, Places, 5 \in 1..6
  <2> HIDE DEF r
  <2>2. /\ InFlight(r) # {} /\ \A q \in InFlight(r) : q.outcome \notin BrokenOutcomes
        /\ \E b \in r.baseline : Healthy(b)
    BY <2>1, InflightPass
  <2>3. InFlight(r) = open
    BY <2>1 DEF InFlight, WasInFlight, Recorded
  <2>4. ASSUME NEW q \in open PROVE q.outcome = "completed"
    <3>1. /\ q.outcome \in Outcomes /\ q.connected # {}
          /\ q.outcome = "refused" => q.connected = {}
      BY <2>1 DEF Possible
    <3> QED BY <2>2, <2>3, <3>1 DEF Outcomes
  <2>5. Healthy(report.before.requests)
    BY <2>1, <2>2
  <2> QED BY <2>2, <2>3, <2>4, <2>5 DEF Healthy
<1> QED BY <1>1, VerdictsSafe, PTL

\* Frames are appended.
LEMMA Joined ==
  ASSUME NEW a, NEW b, NEW c
  PROVE  <<a>> \o <<c>> = <<a, c>> /\ <<a, b>> \o <<c>> = <<a, b, c>>
<1> DEFINE S == {a, b, c}
<1>1. /\ <<a>> \in Seq(S) /\ <<c>> \in Seq(S) /\ <<a, b>> \in Seq(S)
      /\ <<a, c>> \in Seq(S) /\ <<a, b, c>> \in Seq(S)
  OBVIOUS
<1> HIDE DEF S
<1>2. <<a>> \o <<c>> = <<a, c>>
  <2> DEFINE x == <<a>> \o <<c>>
  <2>1. x \in Seq(S) /\ Len(x) = 2 /\ x[1] = a /\ x[2] = c
    BY <1>1, ConcatProperties
  <2> HIDE DEF x
  <2>2. Len(x) = Len(<<a, c>>) /\ \A i \in 1..Len(x) : x[i] = <<a, c>>[i]
    BY <2>1
  <2> QED BY <1>1, <2>1, <2>2, SeqEqual DEF x
<1>3. <<a, b>> \o <<c>> = <<a, b, c>>
  <2> DEFINE x == <<a, b>> \o <<c>>
  <2>1. x \in Seq(S) /\ Len(x) = 3 /\ x[1] = a /\ x[2] = b /\ x[3] = c
    BY <1>1, ConcatProperties
  <2> HIDE DEF x
  <2>2. Len(x) = Len(<<a, b, c>>) /\ \A i \in 1..Len(x) : x[i] = <<a, b, c>>[i]
    BY <2>1
  <2> QED BY <1>1, <2>1, <2>2, SeqEqual DEF x
<1> QED BY <1>2, <1>3

\* The duration is the daemon's where both frames came through, whichever of the
\* kills is in the stream as well, and no shorter than the truth where they did not.
LEMMA DurationIs ==
  ASSUME NEW r, NEW s, NEW e, Possible(s, e), r.after = Recorded(s, e)
  PROVE  ShutdownDuration(r) \in {e.died - e.delivered, e.died + e.lag}
<1> DEFINE f == Frames(s, e)
           kill == [action |-> "kill", at |-> e.delivered]
           again == [action |-> "kill", at |-> KilledAt(s, e)]
           die == [action |-> "die", at |-> e.died]
           Actions == {f[i].action : i \in DOMAIN f}
           First(a) == Least({i \in DOMAIN f : f[i].action = a})
           interval == DaemonInterval(f, "kill", "die")
<1>1. /\ r.after.frames = f /\ r.after.exit = e.died + e.lag
      /\ ShutdownDuration(r) = ShutdownFrom(interval, r)
  BY DEF Recorded, ShutdownDuration
<1>2. interval = IF {"kill", "die"} \subseteq Actions
                   THEN {f[First("die")].at - f[First("kill")].at} ELSE {}
  BY Zenon DEF DaemonInterval
<1>3. f \in {<<>>, <<die>>, <<kill>>, <<kill, again>>, <<kill, die>>, <<kill, again, die>>}
  <2> DEFINE kills == IF e.frames = "none" THEN <<>>
                      ELSE IF KillSent(s, e) /\ KilledAt(s, e) <= e.died THEN <<kill, again>>
                      ELSE <<kill>>
             dies == IF e.frames = "all" THEN <<die>> ELSE <<>>
  <2>1. f = kills \o dies
    BY Zenon DEF Frames
  <2>2. kills \in {<<>>, <<kill>>, <<kill, again>>} /\ dies \in {<<>>, <<die>>}
    BY Zenon
  <2> HIDE DEF f, kills, dies, kill, again, die
  <2>3. CASE dies = <<>>
    BY <2>1, <2>2, <2>3
  <2>4. CASE dies = <<die>>
    <3>1. CASE kills = <<>>
      BY <2>1, <2>4, <3>1
    <3>2. CASE kills = <<kill>>
      BY <2>1, <2>4, <3>2, Joined
    <3>3. CASE kills = <<kill, again>>
      BY <2>1, <2>4, <3>3, Joined
    <3>4. kills = <<>> \/ kills = <<kill>> \/ kills = <<kill, again>>
      BY <2>2
    <3> QED BY <3>1, <3>2, <3>3, <3>4, Zenon
  <2>5. dies = <<>> \/ dies = <<die>>
    BY <2>2
  <2> QED BY <2>3, <2>4, <2>5, Zenon
<1>4. CASE f \in {<<kill, die>>, <<kill, again, die>>}
  <2>1. /\ DOMAIN f \in {1..2, 1..3} /\ 1 \in DOMAIN f /\ f[1] = kill
        /\ \A i \in DOMAIN f : f[i].action = "die" => f[i] = die
        /\ \E i \in DOMAIN f : f[i].action = "die"
    BY <1>4
  <2> DEFINE S(a) == {i \in DOMAIN f : f[i].action = a}
  <2>2. \A a : S(a) \in SUBSET Int /\ IsFiniteSet(S(a))
    <3>1. IsFiniteSet(1..2) /\ IsFiniteSet(1..3)
      <4>1. 1 \in Int /\ 2 \in Int /\ 3 \in Int
        OBVIOUS
      <4> QED BY <4>1, FS_Interval, Zenon
    <3>2. IsFiniteSet(DOMAIN f) /\ DOMAIN f \subseteq Int
      BY <2>1, <3>1
    <3> QED BY <3>2, FS_Subset
  <2>3. 1 \in S("kill") /\ S("die") # {} /\ \A i \in S("kill") : 1 <= i
    BY <2>1
  <2>4. First("kill") = 1
    <3> DEFINE K == S("kill")
    <3>1. K \in SUBSET Int /\ IsFiniteSet(K) /\ 1 \in K /\ \A i \in K : 1 <= i
      BY <2>2, <2>3
    <3>2. First("kill") = Least(K)
      OBVIOUS
    <3> HIDE DEF K, First
    <3>3. Least(K) = 1
      BY <3>1, FirstIs
    <3> QED BY <3>2, <3>3, Zenon
  <2>5. f[First("die")] = die
    <3>1. Least(S("die")) \in S("die")
      BY <2>2, <2>3, Extremes
    <3> QED BY <2>1, <3>1
  <2>6. {"kill", "die"} \subseteq Actions
    BY <2>1
  <2> HIDE DEF Actions, First
  <2>7. interval = {e.died - e.delivered}
    BY <1>2, <2>1, <2>4, <2>5, <2>6
  <2> QED BY <1>1, <2>7 DEF ShutdownFrom
<1>5. CASE f \in {<<>>, <<die>>, <<kill>>, <<kill, again>>}
  <2>1. ~({"kill", "die"} \subseteq Actions)
    BY <1>5
  <2>2. interval = {}
    BY <1>2, <2>1
  <2> QED BY <1>1, <2>2 DEF ShutdownFrom
<1> QED BY <1>3, <1>4, <1>5

\* SP006 lets nothing through that was killed or past its budget.
LEMMA DeadlinePass ==
  ASSUME NEW r, r.config.strategy \in Strategies,
         Publish("SP006", r).status \in {"PASS", "WARN"}
  PROVE  ~(r.config.budget - ShutdownDuration(r) < 0) /\ ~SigkillEffective(r)
<1> DEFINE c == DeadlineClauses(r)
           p == <<"shutdown_budget_resolvable">>
           x == Publish("SP006", r)
<1>1. Clauses("SP006", r) = c /\ Preconditions("SP006", r) = p
  BY DEF Clauses, Preconditions
<1>2. /\ DOMAIN c = 1..3 /\ c[1].status = "FAIL"
      /\ c[1].holds = (r.config.budget - ShutdownDuration(r) < 0 \/ SigkillEffective(r))
  BY DEF DeadlineClauses, Clause
<1>3. \A k \in DOMAIN p : Refusal(p[k]).status = "INCONCLUSIVE"
  BY DEF Refusal
<1> HIDE DEF c, p, x
<1>4. x.status \in {"PASS", "WARN"}
  BY DEF x
<1>5. PICK i \in DOMAIN c : (\A j \in 1..(i - 1) : ~c[j].holds) /\ x.status = c[i].status
  BY <1>1, <1>3, <1>4, PublishIs DEF Ids, x
<1>6. 1 \in 1..(i - 1)
  BY <1>2, <1>4, <1>5
<1>7. ~c[1].holds
  BY <1>5, <1>6
<1> QED BY <1>2, <1>7

\* SP006 lets nothing through that was killed, or dead later after the delivery
\* of SIGTERM than the budget allows, whichever clock the duration was read from.
THEOREM DeadlineSafe == Spec => []DeadlineIsHonest
<1>1. Inv => DeadlineIsHonest
  <2> DEFINE e == Happened
             r == ReportAt(6, report)
  <2> SUFFICES ASSUME Inv, Judged, Published("SP006").status \in {"PASS", "WARN"}
               PROVE  e.code # "sigkill" /\ e.died - e.delivered <= report.config.budget
    BY DEF DeadlineIsHonest
  <2>1. /\ Published("SP006") = Publish("SP006", r)
        /\ r.config = report.config /\ r.config.strategy \in Strategies
        /\ r.after = Recorded(report, e)
        /\ report.config.budget \in Int
        /\ Possible(report, e)
    BY ContractReads, Places, 6 \in 1..6
  <2> HIDE DEF r, e
  <2>2. ~(r.config.budget - ShutdownDuration(r) < 0) /\ ~SigkillEffective(r)
    BY <2>1, DeadlinePass
  <2>3. e.delivered \in Nat /\ e.died \in Nat /\ e.lag \in Nat
    BY <2>1 DEF Possible
  <2>4. ShutdownDuration(r) \in {e.died - e.delivered, e.died + e.lag}
    BY <2>1, DurationIs
  <2>5. e.died - e.delivered <= report.config.budget
    BY <2>1, <2>2, <2>3, <2>4
  <2>6. e.code # "sigkill"
    BY <2>1, <2>2 DEF Recorded, SigkillEffective
  <2> QED BY <2>5, <2>6
<1> QED BY <1>1, VerdictsSafe, PTL

\* The window is covered where no clause that says otherwise holds.
LEMMA Covered ==
  ASSUME NEW r, r.config.strategy \in Strategies, Publish("SP004", r).branch = "in_app_covered"
  PROVE  /\ ResetsInside(r) = {} /\ ~ListenerClosedEarly(r)
         /\ ~ReadinessNotSignaled(r) /\ ~ThinReserve(r)
<1> DEFINE c == DrainClauses(r)
           p == Preconditions("SP004", r)
           x == Publish("SP004", r)
<1>1. Clauses("SP004", r) = c
  BY DEF Clauses
<1>2. \A k \in DOMAIN p : p[k] \in {"shutdown_started", "direct_connection_path",
                                    "shutdown_budget_resolvable", "accept_window_measured"}
  BY DEF Preconditions, DrainPreconditions
<1>3. \A y \in {"shutdown_started", "direct_connection_path",
                "shutdown_budget_resolvable", "accept_window_measured"} :
        Refusal(y).branch # "in_app_covered"
  BY DEF Refusal
<1>4. PICK i \in DOMAIN c : (\A j \in 1..(i - 1) : ~c[j].holds) /\ c[i].branch = "in_app_covered"
  <2> HIDE DEF c, p, x
  <2>1. x.branch = "in_app_covered"
    BY DEF x
  <2>2. \A k \in DOMAIN p : x.branch # Refusal(p[k]).branch
    BY <1>2, <1>3, <2>1
  <2> QED BY <1>1, <2>1, <2>2, PublishIs DEF Ids, x, p
<1>5. c = InAppClauses(r)
  <2>1. CASE r.config.strategy \in {"prestop", "none"}
    BY <1>4, <2>1 DEF DrainClauses, Clause
  <2>2. CASE r.config.strategy = "in_app"
    BY <2>2 DEF DrainClauses
  <2> QED BY <2>1, <2>2 DEF Strategies
<1>6. /\ DOMAIN c = 1..5
      /\ c[1].holds = (ResetsInside(r) # {}) /\ c[2].holds = ListenerClosedEarly(r)
      /\ c[3].holds = ReadinessNotSignaled(r) /\ c[4].holds = ThinReserve(r)
      /\ c[1].branch = "accept_then_reset" /\ c[2].branch = "in_app_listener_closed_early"
      /\ c[3].branch = "in_app_readiness_not_signaled" /\ c[4].branch = "in_app_thin_margin"
  BY <1>5 DEF InAppClauses, Clause
<1> HIDE DEF c
<1>7. i = 5
  BY <1>4, <1>6
<1>8. ~c[1].holds /\ ~c[2].holds /\ ~c[3].holds /\ ~c[4].holds
  BY <1>4, <1>7
<1> QED BY <1>6, <1>8

\* The last connection before the kill is one that was established.
LEMMA LastAcceptedIs ==
  ASSUME NEW r, IsFiniteSet(r.after.attempts),
         \A a \in r.after.attempts : IsFiniteSet(a.connected) /\ a.connected \subseteq Int,
         NEW t \in LastAccepted(r)
  PROVE  /\ t \in Int /\ BeforeKill(r, t)
         /\ \E a \in r.after.attempts : t \in a.connected
<1> DEFINE C == {a.connected : a \in r.after.attempts}
           S == {u \in ConnectedTimes(r) : BeforeKill(r, u)}
<1>1. IsFiniteSet(C)
  <2>1. [a \in r.after.attempts |-> a.connected] \in Surjection(r.after.attempts, C)
    BY DEF Surjection
  <2> QED BY <2>1, FS_Surjection
<1>2. IsFiniteSet(UNION C)
  BY <1>1, FS_UNION
<1>3. ConnectedTimes(r) = UNION C
  BY DEF ConnectedTimes
<1>4. UNION C \subseteq Int
  OBVIOUS
<1>5. S \in SUBSET Int /\ IsFiniteSet(S)
  BY <1>2, <1>3, <1>4, FS_Subset
<1>6. S # {} /\ t = Greatest(S)
  BY DEF LastAccepted, LastOf
<1>7. t \in S
  BY <1>5, <1>6, Extremes
<1>8. \E a \in r.after.attempts : t \in a.connected
  BY <1>3, <1>7
<1> QED BY <1>5, <1>7, <1>8

\* A covered window was covered by a process that was not being killed: a
\* connection was established a fifth after its end, none that was opened inside
\* it was reset, and the drain was announced.
THEOREM CoveredSafe == Spec => []CoveredWindowIsReal
<1>1. Inv => CoveredWindowIsReal
  <2> DEFINE e == Happened
             r == ReportAt(4, report)
             window == report.config.window
  <2> SUFFICES ASSUME Inv, Judged, Published("SP004").branch = "in_app_covered"
               PROVE  /\ \E a \in e.attempts : \E t \in a.connected :
                           /\ 5 * t >= 6 * window
                           /\ KillSent(report, e) => t < KilledAt(report, e)
                      /\ \A a \in e.attempts :
                           a.started \in 0..window /\ a.connected # {} => a.outcome # "reset"
                      /\ \E d \in e.drop : d.mode = "status_change"
    BY DEF CoveredWindowIsReal
  <2>1. /\ Published("SP004") = Publish("SP004", r)
        /\ r.config = report.config /\ r.config.strategy \in Strategies
        /\ r.after = Recorded(report, e)
        /\ window \in Int
        /\ Possible(report, e)
    BY ContractReads, Places, 4 \in 1..6
  <2> HIDE DEF r, e
  <2>2. /\ ResetsInside(r) = {} /\ ~ListenerClosedEarly(r)
        /\ ~ReadinessNotSignaled(r) /\ ~ThinReserve(r)
    BY <2>1, Covered
  <2>3. r.after.attempts = e.attempts /\ r.after.drop = e.drop
    BY <2>1 DEF Recorded
  <2>4. /\ IsFiniteSet(e.attempts)
        /\ \A a \in e.attempts : IsFiniteSet(a.connected) /\ a.connected \subseteq Int
    BY <2>1 DEF Possible
  <2>5. PICK t \in LastAccepted(r) : ~(5 * (t - window) < window)
    BY <2>1, <2>2 DEF ThinReserve
  <2>6. /\ t \in Int /\ BeforeKill(r, t)
        /\ \E a \in e.attempts : t \in a.connected
    BY <2>3, <2>4, LastAcceptedIs
  <2>7. 5 * t >= 6 * window
    BY <2>1, <2>5, <2>6
  <2>8. KillSent(report, e) => t < KilledAt(report, e)
    BY <2>1, <2>6 DEF BeforeKill, Recorded
  <2>9. ASSUME NEW a \in e.attempts, a.started \in 0..window, a.connected # {}
        PROVE  a.outcome # "reset"
    BY <2>1, <2>2, <2>3, <2>9 DEF ResetsInside, AcceptThenReset
  <2>10. \E d \in e.drop : d.mode = "status_change"
    BY <2>2, <2>3 DEF ReadinessNotSignaled
  <2> QED BY <2>6, <2>7, <2>8, <2>9, <2>10
<1> QED BY <1>1, VerdictsSafe, PTL

=============================================================================
