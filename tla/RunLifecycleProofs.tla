------------------------- MODULE RunLifecycleProofs --------------------------
(***************************************************************************)
(* Theorems about RunLifecycle, for any dependencies, gates and faults and *)
(* any number of interrupts.  What exists at the daemon is what the run    *)
(* has put down in started, the network, and the container of the call it  *)
(* is waiting for, unless a call went unanswered or a delete failed; the   *)
(* finally block takes them away from the newest to the oldest.            *)
(***************************************************************************)
EXTENDS RunLifecycle, SequenceTheorems, TLAPS

\* The finally block and what is behind it; the calls made while an exception is kept;
\* those a container depends on that started does not know; those before the first.
Cleaning == {"logs", "close", "remove", "over", "cut"}
Pending == {"discard", "probe_logs", "probe_remove", "drop"}
Probing == {"health", "probe_logs", "probe_remove"}
Holding == {"start", "discard", "measure", "drop"} \cup Probing
First == {"network", "archive", "probe"} \cup Probing
Free == {"ping", "next", "startup", "startup_failed", "jitter", "image", "pid1", "floor",
         "baseline", "shutdown"}

Kept == {"probe", "target"} \cup Service

Types ==
  /\ at \in Call \cup {"over", "cut"} /\ cur \in Container
  /\ started \in Seq(Kept) /\ rest \in 0..Len(started)
  /\ exists \subseteq Resource /\ gated \subseteq Service
  /\ location \in {"undecided", "sidecar", "host_fallback"}
  /\ error \in Error /\ cause \in Error
  /\ mishaps \subseteq {"unanswered", "undeleted"}
  /\ interrupts \in 0..MaxInterrupts

\* The exception on its way, and the one the cleanup began with.
Errors ==
  /\ at \notin Cleaning => cause = "none"
  /\ at \notin Cleaning \cup Pending => error = "none"
  /\ at \in Cleaning => error = cause \/ error = "Interrupt"

\* The containers of the calls that have one of their own.
Places ==
  /\ at \in First \/ (at \in {"start", "discard"} /\ cur = "probe") => started = <<>>
  /\ at \in Probing => cur = "probe"
  /\ at \in {"measure", "drop"} => cur = "floor"

Named == {"network"} \cup Range(started)

\* While the run goes on, with every call answered and no delete failed.
Known ==
  /\ at = "network" => exists = {}
  /\ mishaps = {} /\ at \notin Cleaning =>
       exists \subseteq Named \cup IF at \in Holding THEN {cur} ELSE {}

\* In the finally block and after it: an uninterrupted run with none of these mishaps.
Left ==
  mishaps = {} /\ interrupts = 0 =>
    /\ at \in {"logs", "close"} => exists \subseteq Named
    /\ at = "remove" => exists \subseteq {"network"} \cup {started[i] : i \in 1..rest}
    /\ at \in {"over", "cut"} => exists = {}

\* What the finally block has come to, if no delete failed.
Removed ==
  /\ at \in {"logs", "close"} => rest = Len(started)
  /\ at \in {"remove", "over"} /\ "undeleted" \notin mishaps =>
       \A i \in 1..Len(started) : i > rest => started[i] \notin exists
  /\ at = "over" => rest = 0 /\ ("undeleted" \notin mishaps => exists # {"network"})

Inv == Types /\ Errors /\ Places /\ Known /\ Left /\ Removed

\* What every step keeps well typed by itself.
Frame == cur' \in Container /\ exists' \subseteq Resource
         /\ mishaps' \subseteq {"unanswered", "undeleted"} /\ interrupts' \in 0..MaxInterrupts

-----------------------------------------------------------------------------
\* A refused call, or one to a daemon that is gone, had no effect.
LEMMA FailureFacts ==
  ASSUME NEW f \in Failures
  PROVE  /\ f.error \in {"status", "DockerError", "DockerUnavailable", "Interrupt"}
         /\ f.done \in BOOLEAN /\ (f.error \in {"status", "DockerUnavailable"} => ~f.done)
         /\ f.error = "Interrupt" => interrupts < MaxInterrupts
         /\ Raised(f.error) \in Error /\ Raised(f.error) # "none"
         /\ Raised(f.error) = "Interrupt" => f.error = "Interrupt"
BY DEF Failures, Interruptible, Raised, Error

LEMMA DeletionFacts ==
  ASSUME NEW f \in Deletions
  PROVE  /\ f.error \in {"none", "status", "DockerError", "DockerUnavailable", "Interrupt"}
         /\ f.done \in BOOLEAN /\ (f.error = "none" => f.done)
         /\ f.error = "Interrupt" => interrupts < MaxInterrupts
<1>1. CASE f \in Failures
  BY <1>1, FailureFacts
<1>2. CASE f = [error |-> "none", done |-> TRUE]
  BY <1>2
<1> QED BY <1>1, <1>2 DEF Deletions

\* An exception leaves the try block with what started knows.
LEMMA UnwindStep ==
  ASSUME Inv, Frame, NEW e \in Error, Unwind(e), at \notin Cleaning,
         mishaps' = {} /\ interrupts' = 0 => exists' \subseteq Named
  PROVE  Inv'
<1>1. at' = "logs" /\ error' = e /\ cause' = e /\ rest' = Len(started)
      /\ started' = started /\ gated' = gated /\ location' = location
  BY DEF Unwind, runVars
<1>2. Named' = Named
  BY <1>1 DEF Named
<1>3. Types'
  BY <1>1 DEF Inv, Types, Frame, Call
<1>4. Errors' /\ Places'
  BY <1>1 DEF Errors, Places, Cleaning, First, Probing
<1>5. Known' /\ Left' /\ Removed'
  BY <1>1, <1>2 DEF Known, Left, Removed, Cleaning
<1> QED BY <1>3, <1>4, <1>5 DEF Inv

\* The run goes on to a call that concerns no container of its own.
LEMMA FreeStep ==
  ASSUME Inv, Frame, NEW place \in Free, at' = place, error' = "none", cause' = cause,
         rest' = rest, started' \in Seq(Kept), Len(started') >= Len(started),
         gated' \subseteq Service, location' \in {"undecided", "sidecar", "host_fallback"},
         at \notin Cleaning, mishaps' = {} => exists' \subseteq Named'
  PROVE  Inv'
<1>1. Types'
  BY DEF Inv, Types, Frame, Call, Free, Error
<1>2. Errors' /\ Places'
  BY DEF Inv, Errors, Places, Cleaning, Pending, First, Probing, Free
<1>3. Known' /\ Left' /\ Removed'
  BY DEF Known, Left, Removed, Cleaning, Free, Holding, Probing
<1> QED BY <1>1, <1>2, <1>3 DEF Inv

\* The run goes on to a call for the container at hand.
LEMMA HoldStep ==
  ASSUME Inv, Frame, NEW place \in Holding, at' = place, error' \in Error,
         place \notin Pending => error' = "none",
         cause' = cause, rest' = rest, UNCHANGED runVars, at \notin Cleaning,
         Places', mishaps' = {} => exists' \subseteq Named \cup {cur'}
  PROVE  Inv'
<1>1. started' = started /\ gated' = gated /\ location' = location /\ Named' = Named
  BY DEF runVars, Named
<1>2. Types'
  BY <1>1 DEF Inv, Types, Frame, Call, Holding, Probing
<1>3. Errors'
  BY DEF Inv, Errors, Cleaning, Holding, Probing
<1>4. Known' /\ Left' /\ Removed'
  BY <1>1 DEF Known, Left, Removed, Cleaning, Holding, Probing
<1> QED BY <1>2, <1>3, <1>4 DEF Inv

\* Doing without a container, or the end of the run.
LEMMA GivesUpStep ==
  ASSUME Inv, Frame, NEW c \in Container, NEW e \in Error, GivesUp(c, e), at \notin Cleaning,
         mishaps' = {} => (interrupts' # 0 /\ e = "Interrupt") \/ exists' \subseteq Named
  PROVE  Inv'
<1>1. CASE c = "probe" /\ FallsBack(e)
  <2>1. /\ at' = "ping" /\ error' = "none" /\ location' = "host_fallback"
        /\ cause' = cause /\ rest' = rest /\ started' = started /\ gated' = gated
    BY <1>1 DEF GivesUp
  <2>2. e # "Interrupt"
    BY <1>1 DEF FallsBack
  <2>3. "ping" \in Free /\ Named' = Named
    BY <2>1 DEF Free, Named
  <2> QED BY <2>1, <2>2, <2>3, FreeStep DEF Inv, Types
<1>2. CASE ~(c = "probe" /\ FallsBack(e)) /\ c = "floor" /\ location = "sidecar" /\ e = "DockerError"
  <2>1. at' = "baseline" /\ error' = "none" /\ UNCHANGED <<cause, rest, runVars>>
    BY <1>2 DEF GivesUp
  <2>2. "baseline" \in Free /\ Named' = Named
    BY <2>1 DEF Free, Named, runVars
  <2> QED BY <1>2, <2>1, <2>2, FreeStep DEF Inv, Types, runVars
<1>3. CASE Unwind(e)
  BY <1>3, UnwindStep
<1> QED BY <1>1, <1>2, <1>3 DEF GivesUp

\* What the calls of a phase let out.
LEMMA ErrorSets ==
  /\ SidecarErrors \subseteq Error \ {"Interrupt"}
  /\ DaemonErrors \subseteq Error /\ Unanswered \subseteq Error /\ Interrupted \subseteq Error
  /\ "Interrupt" \in DaemonErrors \cup Unanswered \cup Interrupted => interrupts < MaxInterrupts
<1>1. SidecarErrors \subseteq Error \ {"Interrupt"} /\ Interrupted \subseteq Error
      /\ ("Interrupt" \in Interrupted => interrupts < MaxInterrupts)
  BY DEF SidecarErrors, Interrupted, Interruptible, Error
<1>2. DaemonErrors \subseteq Error /\ ("Interrupt" \in DaemonErrors => interrupts < MaxInterrupts)
  BY FailureFacts DEF DaemonErrors
<1>3. Unanswered \subseteq Error /\ ("Interrupt" \in Unanswered => interrupts < MaxInterrupts)
  BY FailureFacts DEF Unanswered, Error
<1> QED BY <1>1, <1>2, <1>3

\* What the history counts is within its bounds.
LEMMA CountsFrame ==
  ASSUME Inv, NEW e, Counts(e), e = "Interrupt" => interrupts < MaxInterrupts
  PROVE  /\ mishaps' = mishaps /\ interrupts' \in 0..MaxInterrupts
         /\ e = "Interrupt" => interrupts' # 0
         /\ e # "Interrupt" => interrupts' = interrupts
BY RunAssumption DEF Inv, Types, Counts

LEMMA CountsCallFrame ==
  ASSUME Inv, NEW f \in Deletions, NEW mishap \in {"unanswered", "undeleted"}, NEW errors,
         CountsCall(f, mishap, errors)
  PROVE  /\ mishaps' \subseteq {"unanswered", "undeleted"} /\ interrupts' \in 0..MaxInterrupts
         /\ f.error = "Interrupt" => interrupts' # 0
         /\ f.error # "Interrupt" => interrupts' = interrupts
         /\ f.error \in errors => mishap \in mishaps'
         /\ f.error \notin errors => mishaps' = mishaps
         /\ mishaps \subseteq mishaps'
BY RunAssumption, DeletionFacts DEF Inv, Types, CountsCall

\* Between two calls that concern no container of their own.
LEMMA FreeKnows ==
  ASSUME Inv, at \in Free
  PROVE  at \notin Cleaning /\ error = "none" /\ cause = "none" /\ cur \in Container
         /\ (mishaps = {} => exists \subseteq Named) /\ exists \subseteq Resource
         /\ started \in Seq(Kept)
BY DEF Inv, Types, Errors, Known, Free, Cleaning, Pending, Holding, Probing

\* A call in between passes or raises.
LEMMA PassesStep ==
  ASSUME Inv, at \in Free, NEW place \in Free, NEW errors, Passes(place, errors),
         errors \subseteq Error, "Interrupt" \in errors => interrupts < MaxInterrupts
  PROVE  Inv'
<1>1. cur' = cur /\ exists' = exists
  BY DEF Passes
<1>2. CASE Goes(place) /\ UNCHANGED countVars
  <2>1. Named' = Named
    BY <1>2 DEF Goes, runVars, Named
  <2> QED BY <1>1, <1>2, <2>1, FreeKnows, FreeStep DEF Goes, runVars, countVars, Inv, Types, Frame
<1>3. ASSUME NEW e \in errors \cup Interrupted, Unwind(e), Counts(e) PROVE Inv'
  <2>1. e \in Error /\ (e = "Interrupt" => interrupts < MaxInterrupts)
    BY <1>3, ErrorSets
  <2>2. mishaps' = mishaps /\ interrupts' \in 0..MaxInterrupts
    BY <1>3, <2>1, CountsFrame
  <2> QED BY <1>1, <1>3, <2>1, <2>2, FreeKnows, UnwindStep DEF Inv, Types, Frame
<1> QED BY <1>2, <1>3 DEF Passes

\* What is started joins what the run knows.
LEMMA AppendKnows ==
  ASSUME started \in Seq(Kept), NEW c \in Kept, started' = Append(started, c)
  PROVE  started' \in Seq(Kept) /\ Len(started') >= Len(started) /\ Named' = Named \cup {c}
<1>1. /\ started' \in Seq(Kept) /\ Len(started') = Len(started) + 1
      /\ \A i \in 1..Len(started) : started'[i] = started[i]
      /\ started'[Len(started) + 1] = c /\ Len(started) \in Nat
  BY AppendProperties
<1>2. DOMAIN started = 1..Len(started) /\ DOMAIN started' = 1..(Len(started) + 1)
  BY <1>1
<1>3. Range(started)' = Range(started) \cup {c}
  BY <1>1, <1>2 DEF Range
<1> QED BY <1>1, <1>3 DEF Named

\* The calls of a container.
LEMMA CreateStep ==
  ASSUME Inv, NEW c \in Container, CreateContainer(c)
  PROVE  Inv'
<1>1. at \in Free \/ (at = "probe" /\ started = <<>>)
  BY DEF CreateContainer, Wanted, Free, Inv, Places, First
<1>2. /\ at \notin Cleaning /\ error = "none" /\ cause = "none" /\ exists \subseteq Resource
      /\ (mishaps = {} => exists \subseteq Named) /\ cur' = c
      /\ interrupts \in 0..MaxInterrupts /\ mishaps \subseteq {"unanswered", "undeleted"}
      /\ started \in Seq(Kept) /\ gated \subseteq Service
      /\ location \in {"undecided", "sidecar", "host_fallback"}
  BY <1>1 DEF CreateContainer, Inv, Types, Errors, Known, Free, Cleaning, Pending, Holding, Probing
<1>3. c = "probe" => started = <<>>
  BY <1>1, RunAssumption DEF CreateContainer, Wanted, Free
<1>4. CASE exists' = exists \cup {c} /\ Goes("start") /\ UNCHANGED countVars
  <2>1. Frame
    BY <1>2, <1>4 DEF Frame, countVars, Resource
  <2>2. Places'
    BY <1>2, <1>3, <1>4 DEF Goes, runVars, Places, First, Probing
  <2>3. "start" \in Holding
    BY DEF Holding
  <2> QED BY <1>2, <1>4, <2>1, <2>2, <2>3, HoldStep DEF Goes, countVars, Error
<1>5. ASSUME GoesAfter(c), Frame, mishaps' = {} => exists' \subseteq Named PROVE Inv'
  <2>1. PICK place \in Free : Goes(place)
    BY <1>5 DEF GoesAfter, After, Free
  <2>2. Named' = Named
    BY <2>1 DEF Goes, runVars, Named
  <2> QED BY <1>2, <1>5, <2>1, <2>2, FreeStep DEF Goes, runVars
<1>6. CASE GoesAfter(c) /\ UNCHANGED <<exists, countVars>>
  BY <1>2, <1>5, <1>6 DEF Frame, countVars
<1>7. ASSUME NEW f \in Failures, Makes(f, c), CountsAnswer(f),
             IF Auxiliary(c) /\ f.error = "status" THEN GoesAfter(c) ELSE GivesUp(c, Raised(f.error))
      PROVE  Inv'
  <2>1. Frame /\ mishaps \subseteq mishaps' /\ (f.error = "Interrupt" => interrupts' # 0)
        /\ (f.error \in {"DockerError", "DockerUnavailable"} => mishaps' # {})
    BY <1>2, <1>7, FailureFacts, CountsCallFrame DEF CountsAnswer, Deletions, Frame, Makes, Resource
  <2>2. f.error = "status" => exists' = exists
    BY <1>7, FailureFacts DEF Makes
  <2>3. CASE Auxiliary(c) /\ f.error = "status"
    BY <1>2, <1>5, <1>7, <2>1, <2>2, <2>3
  <2>4. CASE GivesUp(c, Raised(f.error))
    <3>1. mishaps' = {} => (interrupts' # 0 /\ Raised(f.error) = "Interrupt") \/ exists' \subseteq Named
      BY <1>2, <2>1, <2>2, FailureFacts DEF Raised
    <3> QED BY <1>2, <2>1, <2>4, <3>1, FailureFacts, GivesUpStep
  <2> QED BY <1>7, <2>3, <2>4
<1> QED BY <1>4, <1>6, <1>7 DEF CreateContainer

LEMMA StartStep ==
  ASSUME Inv, NEW c \in Container, StartContainer(c)
  PROVE  Inv'
<1>1. /\ at = "start" /\ cur = c /\ cur' = c /\ exists' = exists
      /\ at \notin Cleaning /\ error = "none" /\ cause = "none" /\ exists \subseteq Resource
      /\ (mishaps = {} => exists \subseteq Named \cup {c})
      /\ interrupts \in 0..MaxInterrupts /\ mishaps \subseteq {"unanswered", "undeleted"}
      /\ started \in Seq(Kept) /\ gated \subseteq Service
      /\ location \in {"undecided", "sidecar", "host_fallback"}
      /\ c = "probe" => started = <<>>
  BY DEF StartContainer, Inv, Types, Errors, Known, Places, Cleaning, Pending, Holding
<1>2. CASE /\ c \in Service \cup {"target"}
           /\ started' = Append(started, c)
           /\ at' = IF c = "target" THEN "startup" ELSE "next"
           /\ UNCHANGED <<error, cause, rest, gated, location, countVars>>
  <2>1. c \in Kept /\ at' \in Free
    BY <1>2 DEF Kept, Free
  <2>2. started' \in Seq(Kept) /\ Len(started') >= Len(started) /\ Named' = Named \cup {c}
    BY <1>1, <1>2, <2>1, AppendKnows
  <2>3. Frame
    BY <1>1, <1>2 DEF Frame, countVars
  <2> QED BY <1>1, <1>2, <2>1, <2>2, <2>3, FreeStep DEF countVars
<1>3. ASSUME NEW place \in {"health", "discard", "measure"}, at' = place, error' \in Error,
             place # "discard" => error' = "none", cause' = cause, rest' = rest, UNCHANGED runVars,
             place = "health" => c = "probe", place = "measure" => c = "floor",
             Frame, mishaps \subseteq mishaps'
      PROVE  Inv'
  <2>1. Places'
    BY <1>1, <1>3 DEF runVars, Places, First, Probing
  <2>2. place \in Holding /\ (place \notin Pending => error' = "none")
    BY <1>3 DEF Holding, Probing, Pending
  <2> QED BY <1>1, <1>3, <2>1, <2>2, HoldStep
<1>4. CASE /\ \/ c = "probe" /\ Goes("health")
              \/ Auxiliary(c) /\ Goes("discard")
              \/ c = "floor" /\ ~Auxiliary(c) /\ Goes("measure")
           /\ UNCHANGED countVars
  BY <1>1, <1>3, <1>4 DEF Goes, countVars, Frame, Error
<1>5. ASSUME NEW f \in Failures, CountsAnswer(f),
             IF Auxiliary(c) /\ f.error # "Interrupt"
             THEN Goes("discard") \/ (KillUnanswered(c, f) /\ Pends(f.error, "discard"))
             ELSE IF Discards(c, f.error) THEN Pends(Raised(f.error), "discard")
             ELSE GivesUp(c, Raised(f.error))
      PROVE  Inv'
  <2>1. Frame /\ mishaps \subseteq mishaps' /\ (f.error = "Interrupt" => interrupts' # 0)
        /\ (f.error \in {"DockerError", "DockerUnavailable"} => mishaps' # {})
    BY <1>1, <1>5, FailureFacts, CountsCallFrame DEF CountsAnswer, Deletions, Frame
  <2>2. CASE Goes("discard")
    BY <1>1, <1>3, <2>1, <2>2 DEF Goes, Error
  <2>3. CASE KillUnanswered(c, f) /\ Pends(f.error, "discard")
    BY <1>1, <1>3, <2>1, <2>3, FailureFacts DEF KillUnanswered, Pends, Error
  <2>4. CASE Pends(Raised(f.error), "discard")
    BY <1>1, <1>3, <2>1, <2>4, FailureFacts DEF Pends
  <2>5. CASE ~Discards(c, f.error) /\ GivesUp(c, Raised(f.error))
    <3>1. mishaps' = {} => interrupts' # 0 /\ Raised(f.error) = "Interrupt"
      BY <2>1, <2>5, FailureFacts DEF Discards, Raised
    <3> QED BY <1>1, <2>1, <2>5, <3>1, FailureFacts, GivesUpStep
  <2> QED BY <1>5, <2>2, <2>3, <2>4, <2>5
<1>6. CASE c = "probe" /\ Pends("TimeoutError", "discard") /\ UNCHANGED countVars
  BY <1>1, <1>3, <1>6 DEF Pends, countVars, Frame, Error
<1> QED BY <1>2, <1>4, <1>5, <1>6 DEF StartContainer

\* A deleted container is gone, unless the delete is among the mishaps.
LEMMA DeleteFrame ==
  ASSUME Inv, NEW c \in Resource, NEW f \in Deletions, Deletes(f, c), CountsDelete(f), cur' \in Container
  PROVE  /\ Frame /\ mishaps \subseteq mishaps' /\ exists' \subseteq exists
         /\ f.error # "none" => "undeleted" \in mishaps'
         /\ f.error = "none" => mishaps' = mishaps /\ interrupts' = interrupts /\ exists' = exists \ {c}
         /\ f.error = "Interrupt" => interrupts' # 0
<1>1. f.error # "none" => f.error \in {"status"} \cup (Error \ {"none"})
  BY DeletionFacts DEF Error
<1>2. exists' \subseteq exists /\ (f.error = "none" => exists' = exists \ {c})
  BY DeletionFacts DEF Deletes
<1>3. exists \subseteq Resource
  BY DEF Inv, Types
<1> QED BY <1>1, <1>2, <1>3, CountsCallFrame DEF CountsDelete, Frame

LEMMA DiscardStep ==
  ASSUME Inv, NEW c \in Container, DiscardContainer(c)
  PROVE  Inv'
<1>1. /\ at = "discard" /\ cur = c /\ cur' = c /\ at \notin Cleaning /\ cause = "none"
      /\ (mishaps = {} => exists \subseteq Named \cup {c}) /\ error \in Error
      /\ started \in Seq(Kept) /\ gated \subseteq Service
      /\ location \in {"undecided", "sidecar", "host_fallback"}
  BY DEF DiscardContainer, Inv, Types, Errors, Known, Cleaning, Holding
<1>2. PICK f \in Deletions :
        LET e == IF f.error \in {"none", "status"} THEN error ELSE f.error IN
        /\ Deletes(f, c) /\ CountsDelete(f)
        /\ IF Auxiliary(c)
           THEN IF f.error = "Interrupt" THEN Unwind("Interrupt")
                ELSE IF error # "none" THEN Unwind(error)
                ELSE GoesAfter(c)
           ELSE GivesUp(c, IF e = "TimeoutError" THEN "DockerError" ELSE e)
  BY DEF DiscardContainer
<1> DEFINE e == IF f.error \in {"none", "status"} THEN error ELSE f.error
           g == IF e = "TimeoutError" THEN "DockerError" ELSE e
<1>3. Frame /\ (mishaps' = {} => exists' \subseteq Named)
  BY <1>1, <1>2, DeleteFrame DEF Resource
<1>4. g \in Error
  BY <1>1, DeletionFacts DEF Error
<1>5. CASE Auxiliary(c)
  <2>1. CASE f.error = "Interrupt" \/ error # "none"
    BY <1>1, <1>2, <1>3, <1>5, <2>1, UnwindStep DEF Error
  <2>2. CASE error = "none" /\ GoesAfter(c)
    <3>1. PICK place \in Free : Goes(place)
      BY <2>2 DEF GoesAfter, After, Free
    <3>2. Named' = Named
      BY <3>1 DEF Goes, runVars, Named
    <3> QED BY <1>1, <1>3, <2>2, <3>1, <3>2, FreeStep DEF Goes, runVars
  <2> QED BY <1>2, <1>5, <2>1, <2>2
<1>6. CASE ~Auxiliary(c)
  <2>1. GivesUp(c, g)
    BY <1>2, <1>6
  <2> HIDE DEF g
  <2> QED BY <1>1, <1>3, <1>4, <2>1, GivesUpStep
<1> QED BY <1>5, <1>6

\* A call for the sidecar, before anything else has been started.
LEMMA ProbeSteps ==
  ASSUME Inv, ProbeHealth \/ ProbeLogs \/ ProbeRemove
  PROVE  Inv'
<1>1. /\ at \in Probing /\ cur = "probe" /\ cur' = cur /\ at \notin Cleaning /\ cause = "none"
      /\ started = <<>> /\ (mishaps = {} => exists \subseteq Named \cup {"probe"})
      /\ exists \subseteq Resource /\ error \in Error
      /\ interrupts \in 0..MaxInterrupts /\ mishaps \subseteq {"unanswered", "undeleted"}
      /\ gated \subseteq Service /\ location \in {"undecided", "sidecar", "host_fallback"}
  BY DEF ProbeHealth, ProbeLogs, ProbeRemove, Inv, Types, Errors, Known, Places, Cleaning, Holding,
         First, Probing
<1>2. ASSUME NEW place \in {"probe_logs", "probe_remove"}, at' = place, error' \in Error,
             cause' = cause, rest' = rest, UNCHANGED runVars, exists' = exists,
             Frame, mishaps \subseteq mishaps'
      PROVE  Inv'
  <2>1. Places'
    BY <1>1, <1>2 DEF runVars, Places, First, Probing
  <2>2. place \in Holding /\ place \in Pending
    BY <1>2 DEF Holding, Probing, Pending
  <2> QED BY <1>1, <1>2, <2>1, <2>2, HoldStep
<1>3. CASE ProbeHealth
  <2>1. CASE /\ started' = <<"probe">> /\ location' = "sidecar" /\ at' = "next"
             /\ UNCHANGED <<error, cause, rest, gated, countVars>>
    <3>1. error = "none" /\ exists' = exists
      BY <1>1, <1>3 DEF ProbeHealth, Inv, Errors, Cleaning, Pending
    <3>2. "probe" \in Kept /\ started' = Append(started, "probe") /\ started \in Seq(Kept)
      BY <1>1, <2>1 DEF Kept
    <3>3. started' \in Seq(Kept) /\ Len(started') >= Len(started) /\ Named' = Named \cup {"probe"}
      BY <3>2, AppendKnows
    <3>4. Frame /\ mishaps' = mishaps /\ "next" \in Free
      BY <1>1, <2>1, <3>1 DEF Inv, Types, countVars, Frame, Free
    <3> QED BY <1>1, <2>1, <3>1, <3>3, <3>4, FreeStep
  <2>2. CASE Pends("TimeoutError", "probe_logs") /\ UNCHANGED countVars
    <3>1. Frame /\ mishaps' = mishaps /\ exists' = exists /\ "TimeoutError" \in Error
      BY <1>1, <1>3, <2>2 DEF ProbeHealth, Inv, Types, countVars, Frame, Error
    <3> QED BY <1>2, <2>2, <3>1 DEF Pends
  <2>3. CASE Interruptible /\ Pends("Interrupt", "probe_logs") /\ Counts("Interrupt")
    <3>1. mishaps' = mishaps /\ interrupts' \in 0..MaxInterrupts
      BY <2>3, CountsFrame DEF Interruptible
    <3>2. Frame /\ exists' = exists /\ "Interrupt" \in Error
      BY <1>1, <1>3, <3>1 DEF ProbeHealth, Inv, Types, Frame, Error
    <3> QED BY <1>2, <2>3, <3>1, <3>2 DEF Pends
  <2> QED BY <1>3, <2>1, <2>2, <2>3 DEF ProbeHealth
<1>4. CASE ProbeLogs
  <2>1. CASE Goes("probe_remove") /\ UNCHANGED countVars
    <3>1. Frame /\ mishaps' = mishaps /\ exists' = exists
      BY <1>1, <1>4, <2>1 DEF ProbeLogs, Inv, Types, countVars, Frame
    <3> QED BY <1>1, <1>2, <2>1, <3>1 DEF Goes
  <2>2. ASSUME NEW f \in Failures, f.error # "status", CountsAnswer(f), GivesUp("probe", f.error)
        PROVE  Inv'
    <3>1. exists' = exists /\ "probe" \in Container /\ f.error \in Error
      BY <1>4, <2>2, FailureFacts DEF ProbeLogs, Container, Error
    <3>2. Frame /\ (f.error = "Interrupt" => interrupts' # 0)
          /\ (f.error \in {"DockerError", "DockerUnavailable"} => mishaps' # {})
      BY <1>1, <2>2, <3>1, FailureFacts, CountsCallFrame DEF CountsAnswer, Deletions, Frame
    <3>3. mishaps' = {} => interrupts' # 0 /\ f.error = "Interrupt"
      BY <2>2, <3>2, FailureFacts
    <3> QED BY <1>1, <2>2, <3>1, <3>2, <3>3, GivesUpStep
  <2> QED BY <1>4, <2>1, <2>2 DEF ProbeLogs
<1>5. CASE ProbeRemove
  <2>1. PICK f \in Deletions :
          LET e == IF f.error \in {"none", "status"} THEN "DockerError" ELSE f.error IN
          Deletes(f, "probe") /\ CountsDelete(f) /\ GivesUp("probe", e)
    BY <1>5 DEF ProbeRemove
  <2> DEFINE e == IF f.error \in {"none", "status"} THEN "DockerError" ELSE f.error
  <2>2. e \in Error /\ "probe" \in Container /\ "probe" \in Resource
    BY DeletionFacts DEF Error, Container, Resource
  <2>3. Frame /\ (mishaps' = {} => exists' \subseteq Named)
    BY <1>1, <2>1, <2>2, DeleteFrame DEF Inv, Types
  <2>4. GivesUp("probe", e)
    BY <2>1
  <2> HIDE DEF e
  <2> QED BY <1>1, <2>2, <2>3, <2>4, GivesUpStep
<1> QED BY <1>3, <1>4, <1>5

\* A call that concerns no container and lets an exception out.
LEMMA RaiseStep ==
  ASSUME Inv, at \in Free, NEW e \in Error, Unwind(e), Counts(e),
         e = "Interrupt" => interrupts < MaxInterrupts, UNCHANGED <<cur, exists>>
  PROVE  Inv'
<1>1. mishaps' = mishaps /\ interrupts' \in 0..MaxInterrupts
  BY CountsFrame
<1> QED BY <1>1, FreeKnows, UnwindStep DEF Inv, Types, Frame

\* ... and that passes.
LEMMA PassStep ==
  ASSUME Inv, at \in Free, NEW place \in Free, Goes(place), UNCHANGED countVars,
         UNCHANGED <<cur, exists>>
  PROVE  Inv'
<1>1. Named' = Named
  BY DEF Goes, runVars, Named
<1> QED BY <1>1, FreeKnows, FreeStep DEF Goes, runVars, countVars, Inv, Types, Frame

\* The phases of a run that create nothing.
LEMMA PhaseSteps ==
  ASSUME Inv, \/ Ping \/ Startup \/ StartupFailed \/ Jitter \/ InspectImage \/ Baseline \/ ShutDown
              \/ \E s \in Gated : Gate(s)
  PROVE  Inv'
<1>1. CASE Ping
  BY <1>1, PassesStep, ErrorSets DEF Ping, Free
<1>2. CASE Jitter
  BY <1>2, PassesStep, ErrorSets DEF Jitter, Free
<1>3. CASE InspectImage
  BY <1>3, PassesStep, ErrorSets DEF InspectImage, Free
<1>4. CASE Baseline
  BY <1>4, PassesStep, ErrorSets DEF Baseline, Free
<1>5. CASE Startup
  <2>1. at \in Free /\ UNCHANGED <<cur, exists>>
    BY <1>5 DEF Startup, Free
  <2>2. ASSUME NEW place \in Free, Goes(place), UNCHANGED countVars PROVE Inv'
    BY <2>1, <2>2, PassStep
  <2>3. CASE Interruptible /\ Unwind("Interrupt") /\ Counts("Interrupt")
    BY <2>1, <2>3, RaiseStep DEF Interruptible, Error
  <2> QED BY <1>5, <2>2, <2>3 DEF Startup, Free
<1>6. CASE StartupFailed
  <2>1. at \in Free /\ UNCHANGED <<cur, exists>>
    BY <1>6 DEF StartupFailed, Free
  <2>2. PICK e \in {"StartupFailure"} \cup DaemonErrors : Unwind(e) /\ Counts(e)
    BY <1>6 DEF StartupFailed
  <2>3. e \in Error /\ (e = "Interrupt" => interrupts < MaxInterrupts)
    BY ErrorSets DEF Error
  <2> QED BY <2>1, <2>2, <2>3, RaiseStep
<1>7. CASE ShutDown
  <2>1. at \in Free /\ UNCHANGED <<cur, exists>>
    BY <1>7 DEF ShutDown, Free
  <2>2. CASE /\ at' = "logs" /\ rest' = Len(started)
             /\ UNCHANGED <<error, cause, runVars, countVars>>
    <3>1. Unwind("none") /\ mishaps' = mishaps /\ interrupts' = interrupts
      BY <2>1, <2>2, FreeKnows DEF Unwind, countVars
    <3> QED BY <2>1, <3>1, FreeKnows, UnwindStep DEF Inv, Types, Frame, Error
  <2>3. ASSUME NEW e \in (Error \ {"Interrupt"}) \cup DaemonErrors, Unwind(e), Counts(e) PROVE Inv'
    BY <2>1, <2>3, RaiseStep, ErrorSets
  <2>4. CASE \E e \in SidecarErrors \cup DaemonErrors \cup {"TimeoutError"} : Unwind(e) /\ Counts(e)
    <3>1. PICK e \in SidecarErrors \cup DaemonErrors \cup {"TimeoutError"} : Unwind(e) /\ Counts(e)
      BY <2>4
    <3>2. e \in (Error \ {"Interrupt"}) \cup DaemonErrors
      <4>1. "TimeoutError" \in Error \ {"Interrupt"}
        BY DEF Error
      <4> QED BY <4>1, ErrorSets
    <3> QED BY <2>3, <3>1, <3>2
  <2> QED BY <1>7, <2>2, <2>4 DEF ShutDown
<1>8. ASSUME NEW s \in Gated, Gate(s) PROVE Inv'
  <2>1. at = "next" /\ at \in Free /\ UNCHANGED <<cur, exists>>
    BY <1>8 DEF Gate, Free
  <2>2. CASE /\ gated' = gated \cup {s}
             /\ UNCHANGED <<at, error, cause, rest, started, location, countVars>>
    <3>1. Named' = Named /\ gated' \subseteq Service
      BY <2>2, RunAssumption DEF Named, Inv, Types
    <3> QED BY <2>1, <2>2, <3>1, FreeKnows, FreeStep DEF countVars, Inv, Types, Frame
  <2>3. ASSUME NEW e \in SidecarErrors \cup Interrupted \cup {"StartupFailure"}, Unwind(e), Counts(e)
        PROVE  Inv'
    <3>1. e \in Error /\ (e = "Interrupt" => interrupts < MaxInterrupts)
      BY <2>3, ErrorSets DEF Error
    <3> QED BY <2>1, <2>3, <3>1, RaiseStep
  <2> QED BY <1>8, <2>2, <2>3 DEF Gate
<1> QED BY <1>1, <1>2, <1>3, <1>4, <1>5, <1>6, <1>7, <1>8

\* What is created outside the try block, and before the first container.
LEMMA FirstSteps ==
  ASSUME Inv, CreateNetwork \/ AssembleArchive
  PROVE  Inv'
<1>1. /\ at \in {"network", "archive"} /\ at \notin Cleaning /\ error = "none" /\ cause = "none"
      /\ started = <<>> /\ cur' = cur /\ (mishaps = {} => exists \subseteq Named)
      /\ (at = "network" => exists = {})
  BY DEF CreateNetwork, AssembleArchive, Inv, Errors, Known, Places, Cleaning, Pending, Holding,
         First, Probing
<1>2. ASSUME NEW place \in {"archive", "probe"}, Goes(place), Frame, mishaps' = mishaps,
             mishaps' = {} => exists' \subseteq Named
      PROVE  Inv'
  <2>1. Named' = Named /\ started' = started
    BY <1>2 DEF Goes, runVars, Named
  <2>2. Types'
    BY <1>2 DEF Inv, Types, Frame, Goes, runVars, Call
  <2>3. Errors' /\ Places'
    BY <1>1, <1>2 DEF Goes, runVars, Errors, Places, Cleaning, First, Probing
  <2>4. Known' /\ Left' /\ Removed'
    BY <1>2, <2>1 DEF Goes, Known, Left, Removed, Cleaning, Holding, Probing
  <2> QED BY <2>2, <2>3, <2>4 DEF Inv
<1>3. CASE CreateNetwork
  <2>1. CASE exists' = {"network"} /\ Goes("archive") /\ UNCHANGED countVars
    BY <1>1, <1>2, <2>1 DEF Inv, Types, Frame, countVars, Named, Resource
  <2>2. ASSUME NEW f \in Failures, Makes(f, "network"), CountsAnswer(f), at' = "cut",
               error' = Raised(f.error), cause' = Raised(f.error), UNCHANGED <<rest, runVars>>
        PROVE  Inv'
    <3>1. Frame /\ mishaps \subseteq mishaps' /\ (f.error = "Interrupt" => interrupts' # 0)
          /\ (f.error \in {"DockerError", "DockerUnavailable"} => mishaps' # {})
      BY <1>1, <2>2, FailureFacts, CountsCallFrame
         DEF CountsAnswer, Deletions, Frame, Makes, Resource, Inv, Types
    <3>2. mishaps' = {} /\ interrupts' = 0 => exists' = {}
      BY <1>1, <1>3, <2>2, <3>1, FailureFacts DEF Makes, CreateNetwork
    <3>3. Types'
      BY <2>2, <3>1, FailureFacts DEF Inv, Types, Frame, runVars
    <3>4. Errors' /\ Places'
      BY <2>2 DEF Errors, Places, Cleaning, First, Probing
    <3>5. Known' /\ Left' /\ Removed'
      BY <2>2, <3>2 DEF Known, Left, Removed, Cleaning
    <3> QED BY <3>3, <3>4, <3>5 DEF Inv
  <2> QED BY <1>3, <2>1, <2>2 DEF CreateNetwork
<1>4. CASE AssembleArchive
  <2>1. Frame /\ mishaps' = mishaps /\ exists' = exists
    BY <1>4 DEF AssembleArchive, Inv, Types, Frame, countVars
  <2>2. "ProbePackagingError" \in Error
    BY DEF Error
  <2> QED BY <1>1, <1>2, <1>4, <2>1, <2>2, UnwindStep DEF AssembleArchive
<1> QED BY <1>3, <1>4

\* The sidecar's samples, whose containers have a finally block of their own.
LEMMA FloorSteps ==
  ASSUME Inv, Measure \/ DropFloor
  PROVE  Inv'
<1>1. /\ at \in {"measure", "drop"} /\ cur = "floor" /\ cur' = cur /\ at \notin Cleaning
      /\ cause = "none" /\ error \in Error /\ exists \subseteq Resource
      /\ (mishaps = {} => exists \subseteq Named \cup {"floor"}) /\ started \in Seq(Kept)
      /\ interrupts \in 0..MaxInterrupts /\ mishaps \subseteq {"unanswered", "undeleted"}
      /\ gated \subseteq Service /\ location \in {"undecided", "sidecar", "host_fallback"}
      /\ "floor" \in Container /\ "floor" \in Resource
  BY DEF Measure, DropFloor, Inv, Types, Errors, Known, Places, Cleaning, Holding, Container, Resource
<1>2. CASE Measure
  <2>1. ASSUME NEW e \in Error, Pends(e, "drop"), mishaps' = mishaps, interrupts' \in 0..MaxInterrupts
        PROVE  Inv'
    <3>1. Frame /\ exists' = exists
      BY <1>1, <1>2, <2>1 DEF Measure, Frame
    <3>2. Places'
      BY <1>1, <2>1 DEF Pends, Places, First, Probing
    <3>3. "drop" \in Holding /\ "drop" \in Pending
      BY DEF Holding, Pending
    <3> QED BY <1>1, <2>1, <3>1, <3>2, <3>3, HoldStep DEF Pends
  <2>2. CASE Pends("none", "drop") /\ UNCHANGED countVars
    BY <1>1, <2>1, <2>2 DEF countVars, Error
  <2>3. CASE \E e \in SidecarErrors \cup DaemonErrors \cup Interrupted \cup
                 IF SidecarFaults THEN {"TimeoutError"} ELSE {} :
               Pends(IF e = "DockerError" THEN "none" ELSE e, "drop") /\ Counts(e)
    <3>1. PICK e \in SidecarErrors \cup DaemonErrors \cup Interrupted \cup {"TimeoutError"} :
            Pends(IF e = "DockerError" THEN "none" ELSE e, "drop") /\ Counts(e)
      BY <2>3
    <3>2. "TimeoutError" \in Error \ {"Interrupt"} /\ "none" \in Error
      BY DEF Error
    <3>3. e \in Error /\ (e = "Interrupt" => interrupts < MaxInterrupts)
      BY <3>2, ErrorSets
    <3> QED BY <2>1, <3>1, <3>2, <3>3, CountsFrame
  <2> QED BY <1>2, <2>2, <2>3 DEF Measure
<1>3. CASE DropFloor
  <2>1. PICK f \in Deletions :
          LET e == IF f.error \in {"none", "status"} THEN error ELSE f.error IN
          /\ Deletes(f, "floor") /\ CountsDelete(f)
          /\ IF e = "none" THEN Goes("baseline") ELSE Unwind(e)
    BY <1>3 DEF DropFloor
  <2> DEFINE e == IF f.error \in {"none", "status"} THEN error ELSE f.error
  <2>2. e \in Error /\ (e = "none" => error = "none")
    BY <1>1, DeletionFacts DEF Error
  <2>3. Frame /\ (mishaps' = {} => exists' \subseteq Named)
    BY <1>1, <2>1, DeleteFrame
  <2>4. IF e = "none" THEN Goes("baseline") ELSE Unwind(e)
    BY <2>1
  <2> HIDE DEF e
  <2>5. CASE Goes("baseline") /\ e = "none"
    <3>1. Named' = Named /\ "baseline" \in Free
      BY <2>5 DEF Goes, runVars, Named, Free
    <3> QED BY <1>1, <2>2, <2>3, <2>5, <3>1, FreeStep DEF Goes, runVars
  <2>6. CASE Unwind(e)
    BY <1>1, <2>2, <2>3, <2>6, UnwindStep
  <2> QED BY <2>4, <2>5, <2>6
<1> QED BY <1>2, <1>3

-----------------------------------------------------------------------------
\* The finally block.
LEMMA CleanSteps ==
  ASSUME Inv, Cleanup
  PROVE  Inv'
<1>1. /\ at \in Cleaning /\ at \notin {"over", "cut"} /\ cur' = cur /\ UNCHANGED <<cause, runVars>>
      /\ interrupts \in 0..MaxInterrupts /\ mishaps \subseteq {"unanswered", "undeleted"}
      /\ started \in Seq(Kept) /\ Len(started) \in Nat /\ rest \in 0..Len(started)
      /\ exists \subseteq Resource /\ error \in Error
  BY DEF Cleanup, CleanLogs, CleanClose, CleanRemove, CleanNetwork, Cleaning, Inv, Types
<1>2. \A i \in 1..Len(started) : started[i] \in Kept /\ started[i] # "network"
  BY <1>1, RunAssumption DEF Kept
<1>3. Named' = Named /\ started' = started
  BY <1>1 DEF Named, runVars
<1>4. Range(started) = {started[i] : i \in 1..Len(started)}
  BY <1>1 DEF Range
<1>5. ASSUME at' \in Cleaning, error' = error \/ error' = "Interrupt", Frame, rest' \in 0..Len(started),
             Left', Removed'
      PROVE  Inv'
  <2>1. Types'
    BY <1>1, <1>5 DEF Inv, Types, Frame, runVars, Cleaning, Call, Error
  <2>2. Errors' /\ Places'
    BY <1>1, <1>5 DEF Inv, Errors, Places, Cleaning, Pending, First, Probing
  <2>3. Known'
    BY <1>5 DEF Known, Cleaning
  <2> QED BY <1>5, <2>1, <2>2, <2>3 DEF Inv
<1>6. ASSUME CutShort, Counts("Interrupt"), Interruptible, UNCHANGED <<cur, exists, rest>> PROVE Inv'
  <2>1. interrupts' # 0 /\ Frame
    BY <1>1, <1>6, CountsFrame DEF Interruptible, Frame, Inv, Types
  <2>2. Left' /\ Removed'
    BY <1>6, <2>1 DEF CutShort, Left, Removed
  <2> QED BY <1>1, <1>5, <1>6, <2>1, <2>2 DEF CutShort, Cleaning
<1>7. CASE CleanLogs
  <2>1. CASE Tidies("close") /\ UNCHANGED countVars
    <3>1. Frame
      BY <1>1, <1>7, <2>1 DEF CleanLogs, Frame, countVars, Inv, Types
    <3>2. Left' /\ Removed'
      BY <1>3, <1>7, <2>1 DEF CleanLogs, Tidies, countVars, Inv, Left, Removed
    <3> QED BY <1>1, <1>5, <1>7, <2>1, <3>1, <3>2 DEF CleanLogs, Tidies, Cleaning
  <2> QED BY <1>6, <1>7, <2>1 DEF CleanLogs
<1>8. CASE CleanClose
  <2>1. CASE Tidies("remove") /\ UNCHANGED countVars
    <3>1. Frame
      BY <1>1, <1>8, <2>1 DEF CleanClose, Frame, countVars, Inv, Types
    <3>2. /\ at = "close" /\ at' = "remove" /\ rest' = rest /\ rest = Len(started) /\ exists' = exists
          /\ mishaps' = mishaps /\ interrupts' = interrupts
      BY <1>8, <2>1 DEF CleanClose, Tidies, countVars, Inv, Removed
    <3>3. Left'
      BY <1>3, <1>4, <3>2 DEF Inv, Left, Named
    <3>4. Removed'
      BY <1>1, <1>3, <3>2 DEF Removed
    <3> QED BY <1>1, <1>5, <2>1, <3>1, <3>2, <3>3, <3>4 DEF Tidies, Cleaning
  <2> QED BY <1>6, <1>8, <2>1 DEF CleanClose
<1>9. CASE CleanRemove
  <2>1. PICK f \in Deletions : Deletes(f, started[rest]) /\ Removes(f, "remove")
    BY <1>9 DEF CleanRemove
  <2>2. /\ at = "remove" /\ rest > 0 /\ rest' = rest - 1 /\ rest \in 1..Len(started)
        /\ started[rest] \in Resource /\ CountsDelete(f) /\ cur' \in Container
    BY <1>1, <1>2, <1>9, <2>1
       DEF CleanRemove, Removes, Kept, Resource, Container, Inv, Types
  <2>3. /\ Frame /\ mishaps \subseteq mishaps' /\ exists' \subseteq exists
        /\ f.error # "none" => "undeleted" \in mishaps'
        /\ f.error = "none" => /\ mishaps' = mishaps /\ interrupts' = interrupts
                               /\ exists' = exists \ {started[rest]}
        /\ f.error = "Interrupt" => interrupts' # 0
    BY <2>1, <2>2, DeleteFrame
  <2>4. /\ at' \in {"remove", "cut"} /\ (at' = "cut" => f.error = "Interrupt")
        /\ error' = error \/ error' = "Interrupt"
    BY <2>1 DEF Removes, Escapes, Tidies
  <2>5. mishaps' = {} /\ interrupts' = 0 =>
          at' = "remove" /\ exists' \subseteq {"network"} \cup {started[i] : i \in 1..rest'}
    <3> SUFFICES ASSUME mishaps' = {}, interrupts' = 0
                 PROVE  at' = "remove" /\ exists' \subseteq {"network"} \cup {started[i] : i \in 1..rest'}
      OBVIOUS
    <3>1. f.error = "none" /\ exists \subseteq {"network"} \cup {started[i] : i \in 1..rest}
      BY <2>2, <2>3 DEF Inv, Left
    <3>2. \A i \in 1..rest : i = rest \/ i \in 1..rest'
      BY <2>2
    <3> QED BY <2>3, <2>4, <3>1, <3>2
  <2>6. Left'
    BY <1>3, <2>4, <2>5 DEF Left
  <2>7. at' = "remove" /\ "undeleted" \notin mishaps' =>
          \A i \in 1..Len(started) : i > rest' => started[i] \notin exists'
    <3> SUFFICES ASSUME "undeleted" \notin mishaps', NEW i \in 1..Len(started), i > rest'
                 PROVE  started[i] \notin exists'
      OBVIOUS
    <3>1. i = rest \/ i > rest
      BY <2>2
    <3>2. i > rest => started[i] \notin exists
      BY <2>2, <2>3 DEF Inv, Removed
    <3> QED BY <2>3, <3>1, <3>2
  <2>8. Removed'
    BY <1>3, <2>4, <2>7 DEF Removed
  <2> QED BY <1>5, <2>2, <2>3, <2>4, <2>6, <2>8 DEF Cleaning
<1>10. CASE CleanNetwork
  <2>1. PICK f \in Deletions :
          /\ \/ Deletes(f, "network")
             \/ exists # {"network"} /\ UNCHANGED exists
          /\ Removes(f, "over")
    BY <1>10 DEF CleanNetwork
  <2>2. /\ at = "remove" /\ rest = 0 /\ rest' = 0 /\ CountsDelete(f) /\ cur' \in Container
        /\ "network" \in Resource
    BY <1>1, <1>10, <2>1 DEF CleanNetwork, Removes, Resource, Inv, Types
  <2>3. /\ at' \in {"over", "cut"} /\ (at' = "cut" => f.error = "Interrupt")
        /\ error' = error \/ error' = "Interrupt"
    BY <2>1 DEF Removes, Escapes, Tidies
  <2>4. /\ Frame /\ mishaps \subseteq mishaps' /\ exists' \subseteq exists
        /\ f.error # "none" => "undeleted" \in mishaps'
        /\ f.error = "none" => /\ mishaps' = mishaps /\ interrupts' = interrupts
                               /\ exists' # {"network"}
                               /\ exists' = exists \ {"network"} \/ exists' = exists
        /\ f.error = "Interrupt" => interrupts' # 0
    <3>1. CASE Deletes(f, "network")
      BY <2>2, <3>1, DeleteFrame
    <3>2. CASE exists # {"network"} /\ exists' = exists
      <4>1. f.error # "none" => f.error \in {"status"} \cup (Error \ {"none"})
        BY DeletionFacts DEF Error
      <4>2. f.error = "none" => f.error \notin {"status"} \cup (Error \ {"none"})
        BY DEF Error
      <4> QED BY <1>1, <2>2, <3>2, <4>1, <4>2, CountsCallFrame DEF CountsDelete, Frame
    <3> QED BY <2>1, <3>1, <3>2
  <2>5. Left'
    <3> SUFFICES ASSUME mishaps' = {}, interrupts' = 0
                 PROVE  at' \in {"over", "cut"} => exists' = {}
      BY <2>3 DEF Left
    <3>1. f.error = "none" /\ exists \subseteq {"network"}
      BY <2>2, <2>4 DEF Inv, Left
    <3> QED BY <2>4, <3>1
  <2>6. Removed'
    BY <1>3, <2>2, <2>3, <2>4 DEF Inv, Removed
  <2> QED BY <1>1, <1>5, <2>2, <2>3, <2>4, <2>5, <2>6 DEF Cleaning
<1> QED BY <1>7, <1>8, <1>9, <1>10 DEF Cleanup

-----------------------------------------------------------------------------
(***************************************************************************)
(* What a run promises, for any services, gates, faults and interrupts.    *)
(***************************************************************************)

\* What exists at the daemon is accounted for at every call of a run.
THEOREM RunSafe == Spec => []Inv
<1>1. Init => Inv
  <2> SUFFICES ASSUME Init PROVE Inv
    OBVIOUS
  <2> USE DEF Init
  <2>1. Types
    <3>1. started \in Seq(Kept) /\ Len(started) = 0
      OBVIOUS
    <3> QED BY <3>1, RunAssumption DEF Types, Call, Container, Error
  <2>2. Errors /\ Places
    BY DEF Errors, Places, Cleaning, Probing
  <2>3. Known /\ Left /\ Removed
    BY DEF Known, Left, Removed, Cleaning
  <2> QED BY <2>1, <2>2, <2>3 DEF Inv
<1>2. Inv /\ [Next]_vars => Inv'
  <2> SUFFICES ASSUME Inv, [Next]_vars PROVE Inv'
    OBVIOUS
  <2>1. ASSUME NEW c \in Container, CreateContainer(c) \/ StartContainer(c) \/ DiscardContainer(c)
        PROVE  Inv'
    BY <2>1, CreateStep, StartStep, DiscardStep
  <2>2. CASE Fallbacks
    BY <2>2, ProbeSteps, PhaseSteps DEF Fallbacks
  <2>3. CASE Phases
    BY <2>3, FirstSteps, FloorSteps, PhaseSteps DEF Phases
  <2>4. CASE Cleanup
    BY <2>4, CleanSteps
  <2>5. CASE UNCHANGED vars
    <3> USE <2>5 DEF vars, Inv
    <3>1. Types' /\ Errors' /\ Places'
      BY DEF Types, Errors, Places
    <3>2. Known' /\ Left' /\ Removed'
      BY DEF Known, Left, Removed, Named
    <3> QED BY <3>1, <3>2
  <2> QED BY <2>1, <2>2, <2>3, <2>4, <2>5 DEF Next, Starts, Over
<1> QED BY <1>1, <1>2, PTL DEF Spec

\* Every reachable state is well typed.
THEOREM TypeCorrect == Spec => []TypeOK
<1>1. Types => TypeOK
  <2> SUFFICES ASSUME Types PROVE TypeOK
    OBVIOUS
  <2>1. Kept \subseteq Container
    BY DEF Kept, Container
  <2>2. started \in Seq(Container)
    BY <2>1 DEF Types
  <2> QED BY <2>2 DEF Types, TypeOK
<1> QED BY <1>1, RunSafe, PTL DEF Inv

\* An uninterrupted run whose calls are answered and whose deletes succeed leaves
\* nothing at the daemon, however many services it has and whatever fails.
THEOREM NothingSafe == Spec => []NothingLeft
<1>1. Inv => NothingLeft
  BY DEF Inv, Left, NothingLeft, Ended
<1> QED BY <1>1, RunSafe, PTL

\* Where the finally block ran to its end, what it knew of is gone unless a delete
\* failed.
THEOREM RemovedSafe == Spec => []StartedIsRemoved
<1>1. Inv => StartedIsRemoved
  <2> SUFFICES ASSUME Inv, at = "over", "undeleted" \notin mishaps
               PROVE  exists \cap Range(started) = {} /\ exists # {"network"}
    BY DEF StartedIsRemoved
  <2>1. rest = 0 /\ exists # {"network"} /\ started \in Seq(Kept)
        /\ \A i \in 1..Len(started) : started[i] \notin exists
    BY DEF Inv, Removed, Types
  <2> QED BY <2>1 DEF Range
<1> QED BY <1>1, RunSafe, PTL

\* The exception a run ends with is its own, unless the cleanup was interrupted.
THEOREM CauseSafe == Spec => []CauseIsKept
<1>1. Inv => CauseIsKept
  BY DEF Inv, Errors, Cleaning, CauseIsKept, Ended
<1> QED BY <1>1, RunSafe, PTL

\* The calibration has no container left when the SIGTERM is sent.
THEOREM QuietSafe == Spec => []QuietShutdown
<1>1. Inv => QuietShutdown
  <2> SUFFICES ASSUME Inv, at = "shutdown", mishaps = {}
               PROVE  exists \cap {"pid1", "floor"} = {}
    BY DEF QuietShutdown
  <2>1. exists \subseteq Named
    BY DEF Inv, Known, Cleaning, Holding, Probing
  <2>2. Range(started) \subseteq Kept
    BY DEF Inv, Types, Range
  <2>3. "pid1" \notin Kept /\ "floor" \notin Kept
    BY RunAssumption DEF Kept
  <2> QED BY <2>1, <2>2, <2>3 DEF Named
<1> QED BY <1>1, RunSafe, PTL

=============================================================================
