-------------------------------- MODULE Grace --------------------------------
(***************************************************************************)
(* What a shutdown experiment promises, whatever the vantage point the     *)
(* traffic is driven from: one SIGTERM, a full grace period, a SIGKILL     *)
(* only when the period ran out with no exit observed, and a measurement   *)
(* only of an exit that was observed after the SIGTERM.  Everything else   *)
(* an experiment does (probing, requests, daemon frames) is invisible      *)
(* here.  The host path (Shutdown) and the sidecar path (SidecarShutdown)  *)
(* are shown to implement this.                                            *)
(***************************************************************************)
EXTENDS Integers

CONSTANT HardWait       \* the grace period, in ticks

VARIABLES
  stage,    \* where the experiment is
  elapsed,  \* ticks since the SIGTERM, counted up to HardWait
  exit      \* when the exit was observed, relative to the signals

vars == <<stage, elapsed, exit>>

Stage == {"before", "grace", "killed", "measured", "failed"}
ExitSeen == {"no", "beforeSigterm", "inGrace", "afterKill"}

TypeOK ==
  /\ stage \in Stage
  /\ elapsed \in 0..HardWait
  /\ exit \in ExitSeen

Init ==
  /\ stage = "before"
  /\ elapsed = 0
  /\ exit = "no"

Running == stage \in {"before", "grace", "killed"}

Sigterm ==
  /\ stage = "before"
  /\ stage' = "grace"
  /\ UNCHANGED <<elapsed, exit>>

TimePasses ==
  /\ stage \in {"grace", "killed"}
  /\ elapsed < HardWait
  /\ elapsed' = elapsed + 1
  /\ UNCHANGED <<stage, exit>>

Sigkill ==
  /\ stage = "grace"
  /\ elapsed = HardWait
  /\ exit = "no"
  /\ stage' = "killed"
  /\ UNCHANGED <<elapsed, exit>>

ExitObserved ==
  /\ Running
  /\ exit = "no"
  /\ exit' = CASE stage = "before" -> "beforeSigterm"
               [] stage = "grace"  -> "inGrace"
               [] stage = "killed" -> "afterKill"
  /\ UNCHANGED <<stage, elapsed>>

Measure ==
  /\ Running
  /\ exit \in {"inGrace", "afterKill"}
  /\ stage' = "measured"
  /\ UNCHANGED <<elapsed, exit>>

Fail ==
  /\ Running
  /\ stage' = "failed"
  /\ UNCHANGED <<elapsed, exit>>

Next == Sigterm \/ TimePasses \/ Sigkill \/ ExitObserved \/ Measure \/ Fail

Spec == Init /\ [][Next]_vars

=============================================================================
