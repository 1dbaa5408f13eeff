------------------------------ MODULE RunReport ------------------------------
(***************************************************************************)
(* What the contracts read off the report of one run.  Times are whole     *)
(* milliseconds from T0, the moment SIGTERM was sent; the jitter of the    *)
(* probe path, which is far smaller, is in microseconds.  A value the code *)
(* may leave None is a set with at most one element, so that "None or      *)
(* before" reads \A and "not None and before" reads \E.                    *)
(*                                                                         *)
(* A report r has                                                          *)
(*   r.config    what was asked for,                                       *)
(*   r.before    what was measured before the signal,                      *)
(*   r.after     what was measured from the signal on,                     *)
(*   r.enabled, r.lead   whether in-flight requests are sent, and how long *)
(*               before the signal,                                        *)
(*   r.facts     what the contracts found out so far.                      *)
(***************************************************************************)
EXTENDS Integers, Sequences, FiniteSets

Optional(S) == {{}} \cup {{x} : x \in S}

Least(S) == CHOOSE x \in S : \A y \in S : x <= y
Greatest(S) == CHOOSE x \in S : \A y \in S : y <= x

(* The k-th value of s in ascending order. *)
Ranked(s, k) ==
  CHOOSE x \in {s[i] : i \in DOMAIN s} :
    /\ Cardinality({i \in DOMAIN s : s[i] < x}) < k
    /\ Cardinality({i \in DOMAIN s : s[i] <= x}) >= k

(* The median is the mean of the two middle values, one and the same if    *)
(* their number is odd: their sum is the median in half milliseconds.      *)
TwiceMedian(s) == Ranked(s, (Len(s) + 1) \div 2) + Ranked(s, Len(s) \div 2 + 1)

ReadinessPollInterval == 100
AcceptProbeInterval == 50

InApp(r) == r.config.strategy = "in_app"

-----------------------------------------------------------------------------
(* The exit.                                                               *)

BeforeKill(r, t) == \A k \in r.after.sigkill : t < k

(* The daemon reported status 137, whoever sent the signal. *)
SigkillEffective(r) == r.after.code = "sigkill"

(* Between the first frame of one action and the first of another. *)
DaemonInterval(frames, start, end) ==
  LET first(a) == Least({i \in DOMAIN frames : frames[i].action = a})
  IN  IF {start, end} \subseteq {frames[i].action : i \in DOMAIN frames}
        THEN {frames[first(end)].at - frames[first(start)].at}
        ELSE {}

(* A plausible error in it: the last frame of each action is taken. *)
LastDaemonInterval(frames, start, end) ==
  LET last(a) == Greatest({i \in DOMAIN frames : frames[i].action = a})
  IN  IF {start, end} \subseteq {frames[i].action : i \in DOMAIN frames}
        THEN {frames[last(end)].at - frames[last(start)].at}
        ELSE {}

ShutdownFrom(interval, r) ==
  IF interval # {} THEN CHOOSE d \in interval : TRUE ELSE r.after.exit

ShutdownDurationByLast(r) ==
  ShutdownFrom(LastDaemonInterval(r.after.frames, "kill", "die"), r)

(* The daemon's own figure where there is one, ours otherwise. *)
ShutdownDuration(r) ==
  ShutdownFrom(DaemonInterval(r.after.frames, "kill", "die"), r)

-----------------------------------------------------------------------------
(* New connections.                                                        *)

(* The first refusal after SIGTERM: the one the accept probe stopped at,   *)
(* or else a refused in-flight request's, if it precedes a forced kill.    *)
AcceptStopped(r) ==
  LET refusals == {q.finished : q \in {x \in r.after.requests :
                     x.outcome = "refused" /\ x.finished >= 0
                                           /\ BeforeKill(r, x.finished)}}
  IN  IF r.after.stopped # {} THEN r.after.stopped
      ELSE IF refusals # {} THEN {Least(refusals)} ELSE {}

ConnectedTimes(r) == UNION {a.connected : a \in r.after.attempts}

LastOf(S) == IF S = {} THEN {} ELSE {Greatest(S)}

LastAcceptedAtAll(r) == LastOf(ConnectedTimes(r))

(* How long after T0 a connection was still established; T0 is 0, so this  *)
(* is the accept window too.                                               *)
LastAccepted(r) == LastOf({t \in ConnectedTimes(r) : BeforeKill(r, t)})

AcceptThenReset(r) ==
  {a \in r.after.attempts : a.started >= 0 /\ a.connected # {} /\ a.outcome = "reset"}

-----------------------------------------------------------------------------
(* Before the signal.                                                      *)

StartupResolution(r) == {o + ReadinessPollInterval : o \in r.before.overhead}

Latencies(r) == [i \in DOMAIN r.before.samples |-> r.before.samples[i].latency]

(* In half milliseconds. *)
ReadinessP50(r) == IF r.before.samples = <<>> THEN {} ELSE {TwiceMedian(Latencies(r))}

Completed(s) == SelectSeq(s, LAMBDA x : x.outcome = "completed")

(* Strict: one request that did not complete or was not answered 2xx, and  *)
(* the request path was broken before anything was signalled.              *)
Healthy(s) ==
  s # <<>> /\ \A i \in DOMAIN s : s[i].outcome = "completed" /\ s[i].status \in 200..299

(* Python's round of n/4: a half goes to the even neighbour. *)
RoundQuarter(n) ==
  LET down == n \div 4
  IN  IF n % 4 = 3 \/ (n % 4 = 2 /\ down % 2 = 1) THEN down + 1 ELSE down

AtLeastOne(n) == IF n < 1 THEN 1 ELSE n

(* Half the median of the completed requests, or None if none completed. *)
SuggestedSigtermAfter(s) ==
  LET done == Completed(s)
  IN  IF done = <<>> THEN {}
      ELSE {AtLeastOne(RoundQuarter(TwiceMedian([i \in DOMAIN done |-> done[i].duration])))}

MinJitterRatio == 10
MinReadinessWindow == 3

(* Whether the readiness endpoint holds a request open long enough to be   *)
(* told from the noise of the probe path.                                  *)
FallbackResolvable(p50, jitter) ==
  \E p \in p50, j \in jitter :
    j > 0 /\ 500 * p >= MinJitterRatio * j /\ p >= 2 * MinReadinessWindow

=============================================================================
