------------------------- MODULE RequestClientProofs -------------------------
(***************************************************************************)
(* Theorems about RequestClient, for any long requests and probes.  Every  *)
(* step moves one actor; what is known of an actor (Life) depends on that  *)
(* actor alone, so that a step has to be looked at for its own only.       *)
(***************************************************************************)
EXTENDS RequestClient, SequenceTheorems, TLAPS

Place == {"idle", "connecting", "sending", "reading", "closing", "settled"}
Result == [outcome : Outcome \cup AcceptOutcome, connected : BOOLEAN, sent : BOOLEAN,
           firstByte : BOOLEAN, finished : BOOLEAN]
Event == {"REQUEST_STARTED", "REQUEST_COMPLETED", "CONNECTION_REFUSED", "REQUEST_RESET"}
Peer == [framing : Framing, sent : 0..3, end : {"open", "closed", "reset"}]

TypeInv ==
  /\ population \in Populations /\ population \subseteq Actor
  /\ pc \in [Actor -> Place] /\ result \in [Actor -> Result]
  /\ peer \in [Actor -> Peer] /\ read \in [Actor -> 0..3]
  /\ expired \subseteq Actor /\ armed \in BOOLEAN
  /\ bus \in [Actor -> Seq(Event)]

\* What a long request and a probe may end with once they are connected.
Ended(a) == IF a \in Request THEN Broken \cup {"completed"} ELSE AcceptOutcome \ {"connection_refused"}

\* ... and if they never were.
Unmet(a) == IF a \in Request THEN {"refused", "timeout"} ELSE {"connection_refused", "timeout"}

Whole(a) ==
  \/ peer[a].framing = "delimited" /\ read[a] = 3
  \/ peer[a].framing = "bodyless" /\ read[a] >= 2
  \/ /\ peer[a].framing = "unframed" /\ read[a] >= 2
     /\ peer[a].end = "closed" /\ read[a] = peer[a].sent

\* What is known of an actor at each place of its life.
Life(a) ==
  /\ pc[a] \in {"idle", "connecting"} => ~result[a].connected /\ ~result[a].sent
  /\ pc[a] \in {"sending", "reading", "closing"} => result[a].connected
  /\ pc[a] = "reading" => result[a].sent
  /\ pc[a] \in {"idle", "connecting", "sending", "reading"} => result[a].outcome = "timeout"
  /\ pc[a] = "closing" => result[a].outcome \in Ended(a)
  /\ pc[a] = "settled" =>
       result[a].outcome \in IF result[a].connected THEN Ended(a) ELSE Unmet(a)
  /\ a \in Request /\ result[a].outcome = "completed" => result[a].sent /\ Whole(a)
  /\ read[a] <= peer[a].sent

\* What the bus holds of a long request.
Recorded(a) ==
  bus[a] = CASE pc[a] = "idle"    -> <<>>
             [] pc[a] = "settled" -> <<"REQUEST_STARTED", EventOf(result[a].outcome)>>
             [] OTHER             -> <<"REQUEST_STARTED">>

Returned ==
  \A outcomes \in returned :
    /\ outcomes = [a \in Request |-> result[a].outcome]
    /\ \A a \in Request : Settled(a)

Inv ==
  /\ TypeInv /\ ArmedMeansSent /\ Returned
  /\ \A a \in Actor : Life(a)
  /\ \A a \in Request : Recorded(a)

-----------------------------------------------------------------------------
\* The fields of a result after a request ends.
LEMMA SettlesFields ==
  ASSUME TypeInv, NEW a \in Actor, NEW r \in Result, Settles(a, r)
  PROVE  /\ pc'[a] = "settled" /\ result'[a].outcome = r.outcome
         /\ result'[a].connected = r.connected /\ result'[a].sent = r.sent
         /\ \A b \in Actor \ {a} : pc'[b] = pc[b] /\ result'[b] = result[b] /\ bus'[b] = bus[b]
         /\ bus'[a] = IF a \in Request THEN Append(bus[a], EventOf(r.outcome)) ELSE bus[a]
         /\ pc' \in [Actor -> Place] /\ result' \in [Actor -> Result]
         /\ bus' \in [Actor -> Seq(Event)]
<1>1. [r EXCEPT !.finished = TRUE] \in Result
  BY DEF Result
<1>2. EventOf(r.outcome) \in Event
  BY DEF EventOf, Event
<1>3. [r EXCEPT !.finished = TRUE].outcome = r.outcome
      /\ [r EXCEPT !.finished = TRUE].connected = r.connected
      /\ [r EXCEPT !.finished = TRUE].sent = r.sent
  BY DEF Result
<1>4. bus' \in [Actor -> Seq(Event)]
  <2>1. Append(bus[a], EventOf(r.outcome)) \in Seq(Event)
    BY <1>2 DEF TypeInv
  <2> QED BY <2>1 DEF Settles, TypeInv
<1> QED BY <1>1, <1>3, <1>4 DEF Settles, TypeInv, Place

\* ... and after a response has been classified.
LEMMA FinishesFields ==
  ASSUME TypeInv, NEW a \in Actor, NEW outcome \in Outcome \cup AcceptOutcome,
         Finishes(a, outcome)
  PROVE  /\ pc'[a] = "closing" /\ result'[a].outcome = outcome
         /\ result'[a].connected = result[a].connected /\ result'[a].sent = result[a].sent
         /\ \A b \in Actor \ {a} : pc'[b] = pc[b] /\ result'[b] = result[b]
         /\ pc' \in [Actor -> Place] /\ result' \in [Actor -> Result] /\ bus' = bus
BY DEF Finishes, TypeInv, Place, Result

\* Sequences of one and two elements are what Append makes of shorter ones.
LEMMA AppendShort ==
  ASSUME NEW e, NEW f
  PROVE  Append(<<>>, e) = <<e>> /\ Append(<<e>>, f) = <<e, f>>
<1>1. Append(<<>>, e) = <<e>>
  OBVIOUS
<1> DEFINE S == {e, f}
<1>2. <<e>> \in Seq(S) /\ f \in S /\ Len(<<e>>) = 1
  OBVIOUS
<1>3. /\ Append(<<e>>, f) \in Seq(S) /\ Len(Append(<<e>>, f)) = 2
      /\ Append(<<e>>, f)[1] = e /\ Append(<<e>>, f)[2] = f
  BY <1>2, AppendProperties
<1>4. <<e, f>> \in Seq(S) /\ Len(<<e, f>>) = 2 /\ <<e, f>>[1] = e /\ <<e, f>>[2] = f
  OBVIOUS
<1> HIDE DEF S
<1>5. \A i \in 1..2 : Append(<<e>>, f)[i] = <<e, f>>[i]
  <2>1. \A i \in 1..2 : i = 1 \/ i = 2
    OBVIOUS
  <2> QED BY <1>3, <1>4, <2>1
<1>6. Append(<<e>>, f) = <<e, f>>
  BY <1>3, <1>4, <1>5, SeqEqual
<1> QED BY <1>1, <1>6

\* The end of a request is recorded after its start, with its outcome.
LEMMA RecordedEnd ==
  ASSUME NEW a \in Actor, NEW outcome, Recorded(a), pc[a] \notin {"idle", "settled"},
         bus'[a] = Append(bus[a], EventOf(outcome)),
         pc'[a] = "settled", result'[a].outcome = outcome
  PROVE  Recorded(a)'
<1>1. bus[a] = <<"REQUEST_STARTED">>
  BY DEF Recorded
<1>2. Append(bus[a], EventOf(outcome)) = <<"REQUEST_STARTED", EventOf(outcome)>>
  BY <1>1, AppendShort
<1>3. EventOf(result[a].outcome)' = EventOf(outcome)
  BY DEF EventOf
<1> QED BY <1>2, <1>3 DEF Recorded

\* A step of one actor leaves the others, and what has been returned, as they were.
LEMMA OneMoves ==
  ASSUME Inv, TypeInv', NEW a \in Actor,
         population' = population, returned' = returned,
         pc[a] # "settled",
         \A b \in Actor \ {a} : /\ pc'[b] = pc[b] /\ result'[b] = result[b] /\ peer'[b] = peer[b]
                                /\ read'[b] = read[b] /\ bus'[b] = bus[b],
         Life(a)', a \in Request => Recorded(a)',
         \/ armed' = armed /\ result'[a].sent = result[a].sent
         \/ armed' = (armed \/ a \in Request) /\ result'[a].sent
  PROVE  Inv'
<1>1. \A b \in Actor \ {a} : Life(b)'
  BY DEF Inv, Life, Ended, Unmet, Whole, Request
<1>2. \A b \in Request \ {a} : Recorded(b)'
  BY DEF Inv, TypeInv, Recorded, Request
<1>3. ArmedMeansSent'
  <2>1. CASE a \in Request
    BY <2>1 DEF Inv, TypeInv, ArmedMeansSent, Request
  <2>2. CASE a \notin Request
    BY <2>2 DEF Inv, TypeInv, ArmedMeansSent, Request
  <2> QED BY <2>1, <2>2
<1>4. Returned'
  <2> SUFFICES ASSUME NEW outcomes \in returned
               PROVE  /\ outcomes = [b \in Request |-> result'[b].outcome]
                      /\ \A b \in Request : pc'[b] = "settled"
    BY DEF Returned, Request, Settled
  <2>1. outcomes = [b \in Request |-> result[b].outcome] /\ \A b \in Request : pc[b] = "settled"
    BY DEF Inv, Returned, Settled
  <2>2. a \notin Request
    BY <2>1
  <2>3. \A b \in Request : result'[b] = result[b] /\ pc'[b] = pc[b]
    BY <2>2 DEF Inv, TypeInv, Request
  <2> QED BY <2>1, <2>3
<1> QED BY <1>1, <1>2, <1>3, <1>4 DEF Inv, Request

-----------------------------------------------------------------------------
\* The parts of a step that its own actor has to be looked at for.
LEMMA InvStep == Inv /\ [Next]_vars => Inv'
<1> SUFFICES ASSUME Inv, [Next]_vars PROVE Inv'
  OBVIOUS
<1> USE DEF Request, Probe
<1>1. TypeInv /\ \A a \in Actor : Life(a)
  BY DEF Inv
<1>2. ASSUME NEW a \in Actor, Start(a) PROVE Inv'
  <2> USE <1>2 DEF Start
  <2>1. TypeInv'
    <3>1. Append(bus[a], "REQUEST_STARTED") \in Seq(Event)
      BY <1>1 DEF TypeInv, Event
    <3> QED BY <1>1, <3>1 DEF TypeInv, Place
  <2>2. Life(a)'
    BY <1>1 DEF Life, Whole, TypeInv
  <2>3. a \in Request => Recorded(a)'
    <3>1. a \in Request => bus[a] = <<>>
      BY DEF Inv, Recorded
    <3>2. pc'[a] = "connecting" /\ (a \in Request => bus'[a] = Append(bus[a], "REQUEST_STARTED"))
      BY <1>1 DEF TypeInv
    <3>3. a \in Request => bus'[a] = <<"REQUEST_STARTED">>
      BY <3>1, <3>2, AppendShort
    <3> QED BY <3>2, <3>3 DEF Recorded
  <2> QED BY <1>1, <2>1, <2>2, <2>3, OneMoves DEF TypeInv
<1>3. ASSUME NEW a \in Actor, Connects(a) PROVE Inv'
  <2> USE <1>3 DEF Connects
  <2>1. TypeInv'
    BY <1>1 DEF TypeInv, Place, Result
  <2>2. result'[a].connected /\ result'[a].sent = result[a].sent
        /\ result'[a].outcome = result[a].outcome /\ pc'[a] = "sending"
    BY <1>1 DEF TypeInv, Result
  <2>3. Life(a)'
    BY <1>1, <2>2 DEF Life, Whole, TypeInv
  <2>4. a \in Request => Recorded(a)'
    BY <1>1, <2>2 DEF Inv, Recorded, TypeInv
  <2> QED BY <1>1, <2>1, <2>2, <2>3, <2>4, OneMoves DEF TypeInv
<1>4. ASSUME NEW a \in Actor, ConnectFails(a) PROVE Inv'
  <2>1. PICK outcome \in Unmet(a) : Settles(a, [result[a] EXCEPT !.outcome = outcome])
    BY <1>4 DEF ConnectFails, Unmet
  <2> DEFINE r == [result[a] EXCEPT !.outcome = outcome]
  <2>2. outcome \in Outcome \cup AcceptOutcome
    BY DEF Unmet, Outcome, AcceptOutcome
  <2>3. r \in Result /\ r.outcome = outcome /\ r.connected = result[a].connected
        /\ r.sent = result[a].sent /\ Settles(a, r)
    BY <1>1, <2>1, <2>2 DEF TypeInv, Result
  <2> HIDE DEF r
  <2>4. /\ pc'[a] = "settled" /\ result'[a].outcome = outcome
        /\ result'[a].connected = result[a].connected /\ result'[a].sent = result[a].sent
        /\ \A b \in Actor \ {a} : pc'[b] = pc[b] /\ result'[b] = result[b] /\ bus'[b] = bus[b]
        /\ bus'[a] = IF a \in Request THEN Append(bus[a], EventOf(outcome)) ELSE bus[a]
        /\ pc' \in [Actor -> Place] /\ result' \in [Actor -> Result] /\ bus' \in [Actor -> Seq(Event)]
    BY <1>1, <2>3, SettlesFields
  <2> USE <1>4 DEF ConnectFails
  <2>5. TypeInv'
    BY <1>1, <2>4 DEF TypeInv
  <2>6. Life(a)'
    BY <1>1, <2>4 DEF Life, Whole, TypeInv, Unmet
  <2>7. a \in Request => Recorded(a)'
    BY <2>4, RecordedEnd DEF Inv
  <2> QED BY <1>1, <2>4, <2>5, <2>6, <2>7, OneMoves DEF TypeInv
<1>5. ASSUME NEW a \in Actor, Sends(a) PROVE Inv'
  <2> USE <1>5 DEF Sends
  <2>1. result'[a].sent /\ result'[a].connected = result[a].connected
        /\ result'[a].outcome = result[a].outcome /\ pc'[a] = "reading"
        /\ result' \in [Actor -> Result] /\ pc' \in [Actor -> Place]
    BY <1>1 DEF TypeInv, Result, Place
  <2>2. armed' \in BOOLEAN
    BY Zenon
  <2>3. TypeInv'
    BY <1>1, <2>1, <2>2 DEF TypeInv
  <2>4. Life(a)'
    BY <1>1, <2>1 DEF Life, Whole, TypeInv
  <2>5. a \in Request => Recorded(a)'
    BY <1>1, <2>1 DEF Inv, Recorded, TypeInv
  <2>6. armed' = (armed \/ a \in Request)
    BY Zenon
  <2> QED BY <1>1, <2>1, <2>3, <2>4, <2>5, <2>6, OneMoves DEF TypeInv
<1>6. ASSUME NEW a \in Actor, NEW outcome \in Ended(a), Finishes(a, outcome),
             pc[a] \in {"sending", "reading"},
             UNCHANGED <<population, peer, read, expired, armed, returned>>,
             a \in Request /\ outcome = "completed" => result[a].sent /\ Whole(a)
      PROVE  Inv'
  <2> USE <1>6
  <2>1. outcome \in Outcome \cup AcceptOutcome
    BY DEF Ended, Broken, Outcome, AcceptOutcome
  <2>2. /\ pc'[a] = "closing" /\ result'[a].outcome = outcome
        /\ result'[a].connected = result[a].connected /\ result'[a].sent = result[a].sent
        /\ \A b \in Actor \ {a} : pc'[b] = pc[b] /\ result'[b] = result[b]
        /\ pc' \in [Actor -> Place] /\ result' \in [Actor -> Result] /\ bus' = bus
    BY <1>1, <2>1, FinishesFields
  <2>3. TypeInv'
    BY <1>1, <2>2 DEF TypeInv
  <2>4. Life(a)'
    BY <1>1, <2>2 DEF Life, Whole, TypeInv, Ended
  <2>5. a \in Request => Recorded(a)'
    BY <1>1, <2>2 DEF Inv, Recorded, TypeInv
  <2> QED BY <1>1, <2>2, <2>3, <2>4, <2>5, OneMoves DEF TypeInv
<1>7. ASSUME NEW a \in Actor, SendFails(a) PROVE Inv'
  BY <1>6, <1>7 DEF SendFails, Ended, Broken, AcceptOutcome
<1>8. ASSUME NEW a \in Actor, Receives(a) PROVE Inv'
  <2> USE <1>8 DEF Receives, Pending
  <2>1. /\ result'[a].connected = result[a].connected /\ result'[a].sent = result[a].sent
        /\ result'[a].outcome = result[a].outcome /\ pc[a] = "reading"
        /\ result[a].outcome = "timeout" /\ result' \in [Actor -> Result]
    BY <1>1 DEF TypeInv, Result, Life
  <2>5. read[a] \in 0..3 /\ peer[a].sent \in 0..3
    BY <1>1 DEF TypeInv, Peer
  <2>6. read'[a] = read[a] + 1 /\ read'[a] <= peer[a].sent
    BY <1>1, <2>5 DEF TypeInv
  <2>2. TypeInv'
    BY <1>1, <2>1, <2>5, <2>6 DEF TypeInv
  <2>3. Life(a)'
    BY <1>1, <2>1, <2>6 DEF Life, TypeInv
  <2>4. a \in Request => Recorded(a)'
    BY <1>1, <2>1 DEF Inv, Recorded, TypeInv
  <2> QED BY <1>1, <2>1, <2>2, <2>3, <2>4, OneMoves DEF TypeInv
<1>9. ASSUME NEW a \in Actor, Completes(a) PROVE Inv'
  <2>1. result[a].sent /\ Whole(a)
    BY <1>1, <1>9 DEF Completes, IsWhole, Whole, AtEof, Pending, Life, TypeInv, Peer
  <2> QED BY <1>6, <1>9, <2>1 DEF Completes, Ended
<1>10. ASSUME NEW a \in Actor, Breaks(a) PROVE Inv'
  BY <1>6, <1>10 DEF Breaks, Break, Ended, Broken
<1>11. ASSUME NEW a \in Actor, ProbeReceives(a) PROVE Inv'
  BY <1>6, <1>11 DEF ProbeReceives, Break, Ended, AcceptOutcome
<1>12. ASSUME NEW a \in Actor, NEW r \in Result, Settles(a, r),
              pc[a] \in {"connecting", "sending", "reading", "closing"},
              r.connected = result[a].connected, r.sent = result[a].sent,
              r.outcome = "timeout" \/ (r.outcome = result[a].outcome /\ pc[a] = "closing"),
              UNCHANGED <<population, peer, read, expired, armed, returned>>
       PROVE  Inv'
  <2> USE <1>12
  <2>1. /\ pc'[a] = "settled" /\ result'[a].outcome = r.outcome
        /\ result'[a].connected = result[a].connected /\ result'[a].sent = result[a].sent
        /\ \A b \in Actor \ {a} : pc'[b] = pc[b] /\ result'[b] = result[b] /\ bus'[b] = bus[b]
        /\ bus'[a] = IF a \in Request THEN Append(bus[a], EventOf(r.outcome)) ELSE bus[a]
        /\ pc' \in [Actor -> Place] /\ result' \in [Actor -> Result] /\ bus' \in [Actor -> Seq(Event)]
    BY <1>1, SettlesFields
  <2>2. TypeInv'
    BY <1>1, <2>1 DEF TypeInv
  <2>3. Life(a)'
    BY <1>1, <2>1 DEF Life, Whole, TypeInv, Ended, Unmet, Broken, AcceptOutcome
  <2>4. a \in Request => Recorded(a)'
    BY <2>1, RecordedEnd DEF Inv
  <2> QED BY <1>1, <2>1, <2>2, <2>3, <2>4, OneMoves DEF TypeInv
<1>13. ASSUME NEW a \in Actor, Closes(a) PROVE Inv'
  BY <1>1, <1>12, <1>13 DEF Closes, TypeInv
<1>14. ASSUME NEW a \in Actor, Expires(a) PROVE Inv'
  <2> DEFINE r == IF Overrules(a) THEN [result[a] EXCEPT !.outcome = "timeout"] ELSE result[a]
  <2>1. r \in Result /\ r.connected = result[a].connected /\ r.sent = result[a].sent
    BY <1>1 DEF TypeInv, Result, Outcome
  <2>2. r.outcome = "timeout" \/ (r.outcome = result[a].outcome /\ pc[a] = "closing")
    BY <1>1, <1>14 DEF TypeInv, Result, Overrules, Expires, Life
  <2>3. /\ Settles(a, r) /\ pc[a] \in {"connecting", "sending", "reading", "closing"}
        /\ UNCHANGED <<population, peer, read, expired, armed, returned>>
    BY <1>14 DEF Expires
  <2> HIDE DEF r
  <2> QED BY <1>12, <2>1, <2>2, <2>3
<1>15. ASSUME NEW a \in Actor, DeadlinePasses(a) PROVE Inv'
  BY <1>15 DEF DeadlinePasses, Inv, TypeInv, ArmedMeansSent, Returned, Settled, Life, Recorded, Whole,
               Ended, Unmet
<1>16. ASSUME NEW a \in Actor, HasConnection(a), peer[a].end = "open", peer' \in [Actor -> Peer],
              peer'[a].sent >= peer[a].sent,
              \A b \in Actor \ {a} : peer'[b] = peer[b],
              UNCHANGED <<population, pc, result, read, expired, armed, bus, returned>>
       PROVE  Inv'
  <2> USE <1>16
  <2>1. TypeInv'
    BY <1>1 DEF TypeInv
  <2>2. pc[a] \in {"sending", "reading"} /\ result[a].outcome = "timeout"
    BY <1>1 DEF HasConnection, Life
  <2>3. Life(a)'
    <3>1. read[a] \in 0..3 /\ peer[a].sent \in 0..3 /\ peer'[a].sent \in 0..3
      BY <1>1 DEF TypeInv, Peer
    <3>2. read[a] <= peer'[a].sent
      BY <1>1, <3>1 DEF Life
    <3> QED BY <1>1, <2>2, <3>2 DEF Life, Ended, Unmet
  <2>4. a \in Request => Recorded(a)'
    BY DEF Inv, Recorded
  <2> QED BY <1>1, <2>1, <2>2, <2>3, <2>4, OneMoves
<1>17. ASSUME NEW a \in Actor, PeerSends(a) \/ PeerEnds(a, "closed") \/ PeerEnds(a, "reset") PROVE Inv'
  <2>1. peer' \in [Actor -> Peer] /\ peer'[a].sent >= peer[a].sent
    <3>1. peer[a] \in Peer /\ peer[a].sent \in 0..3
      BY <1>1 DEF TypeInv, Peer
    <3>2. CASE PeerSends(a)
      <4>1. [peer[a] EXCEPT !.sent = @ + 1] \in Peer /\ [peer[a] EXCEPT !.sent = @ + 1].sent >= peer[a].sent
        BY <3>1, <3>2 DEF PeerSends, Peer
      <4>2. peer' = [peer EXCEPT ![a] = [peer[a] EXCEPT !.sent = @ + 1]]
        BY <1>1, <3>2 DEF PeerSends, TypeInv
      <4> QED BY <1>1, <4>1, <4>2 DEF TypeInv
    <3>3. ASSUME NEW how \in {"closed", "reset"}, PeerEnds(a, how)
          PROVE  peer' \in [Actor -> Peer] /\ peer'[a].sent >= peer[a].sent
      <4>1. [peer[a] EXCEPT !.end = how] \in Peer /\ [peer[a] EXCEPT !.end = how].sent >= peer[a].sent
        BY <3>1 DEF Peer
      <4>2. peer' = [peer EXCEPT ![a] = [peer[a] EXCEPT !.end = how]]
        BY <1>1, <3>3 DEF PeerEnds, TypeInv
      <4> QED BY <1>1, <4>1, <4>2 DEF TypeInv
    <3> QED BY <1>17, <3>2, <3>3
  <2> QED BY <1>1, <1>16, <1>17, <2>1 DEF PeerSends, PeerEnds, TypeInv
<1>18. CASE Return
  BY <1>18 DEF Return, Inv, TypeInv, ArmedMeansSent, Returned, Settled, Life, Recorded, Whole,
               Ended, Unmet
<1>19. CASE UNCHANGED vars
  BY <1>19 DEF vars, Inv, TypeInv, ArmedMeansSent, Returned, Settled, Life, Recorded, Whole,
               Ended, Unmet
<1> QED BY <1>2, <1>3, <1>4, <1>5, <1>7, <1>8, <1>9, <1>10, <1>11, <1>13, <1>14, <1>15, <1>17,
           <1>18, <1>19 DEF Next, Client

-----------------------------------------------------------------------------
(***************************************************************************)
(* What the client promises, for any number of requests and probes.        *)
(***************************************************************************)

\* Every actor is somewhere in its life, and everything is well typed.
THEOREM ClientSafe == Spec => []Inv
<1>1. Init => Inv
  <2> SUFFICES ASSUME Init PROVE Inv
    OBVIOUS
  <2> USE DEF Init
  <2>1. NoResult \in Result /\ NoResult.outcome = "timeout"
        /\ ~NoResult.connected /\ ~NoResult.sent
    BY DEF NoResult, Result, Outcome
  <2>2. TypeInv
    <3>1. population \in Populations /\ population \subseteq Actor
      BY PopulationAssumption
    <3>2. {[framing |-> f, sent |-> 0, end |-> "open"] : f \in Framing} \subseteq Peer
      BY DEF Peer
    <3>3. peer \in [Actor -> Peer]
      BY <3>2
    <3>4. <<>> \in Seq(Event)
      OBVIOUS
    <3>5. pc \in [Actor -> Place] /\ result \in [Actor -> Result] /\ bus \in [Actor -> Seq(Event)]
      BY <2>1, <3>4 DEF Place
    <3>6. read \in [Actor -> 0..3]
      OBVIOUS
    <3>7. expired \subseteq Actor /\ armed \in BOOLEAN
      BY Zenon
    <3> QED BY <3>1, <3>3, <3>5, <3>6, <3>7 DEF TypeInv
  <2>3. \A a \in Actor : Life(a)
    BY <2>1, <2>2 DEF Life, TypeInv, Peer
  <2>4. ArmedMeansSent /\ Returned /\ \A a \in Request : Recorded(a)
    BY <2>1, <2>2 DEF ArmedMeansSent, Returned, Recorded, Request, TypeInv
  <2> QED BY <2>2, <2>3, <2>4 DEF Inv
<1> QED BY <1>1, InvStep, PTL DEF Spec

\* Every reachable state is well typed, the outcomes by the kind of their actor.
THEOREM TypeCorrect == Spec => []TypeOK
<1>1. Inv => TypeOK
  <2> SUFFICES ASSUME Inv PROVE TypeOK
    OBVIOUS
  <2>1. \A a \in Actor :
          /\ result[a].outcome \in IF a \in Request THEN Outcome ELSE AcceptOutcome
          /\ \A f \in {"connected", "sent", "firstByte", "finished"} : result[a][f] \in BOOLEAN
    <3> SUFFICES ASSUME NEW a \in Actor
                 PROVE  /\ result[a].outcome \in IF a \in Request THEN Outcome ELSE AcceptOutcome
                        /\ \A f \in {"connected", "sent", "firstByte", "finished"} : result[a][f] \in BOOLEAN
      OBVIOUS
    <3>1. result[a] \in Result /\ pc[a] \in Place /\ Life(a)
      BY DEF Inv, TypeInv
    <3>2. result[a].outcome \in IF a \in Request THEN Outcome ELSE AcceptOutcome
      BY <3>1 DEF Life, Place, Ended, Unmet, Broken, Outcome, AcceptOutcome
    <3>3. \A f \in {"connected", "sent", "firstByte", "finished"} : result[a][f] \in BOOLEAN
      BY <3>1 DEF Result
    <3> QED BY <3>2, <3>3
  <2>2. ASSUME NEW a \in Request PROVE Len(bus[a]) <= 2
    <3> DEFINE e == EventOf(result[a].outcome)
    <3>1. bus[a] = <<>> \/ bus[a] = <<"REQUEST_STARTED">> \/ bus[a] = <<"REQUEST_STARTED", e>>
      BY DEF Inv, Recorded
    <3> HIDE DEF e
    <3>2. CASE bus[a] = <<>>
      BY <3>2
    <3>3. CASE bus[a] = <<"REQUEST_STARTED">>
      BY <3>3
    <3>4. CASE bus[a] = <<"REQUEST_STARTED", e>>
      BY <3>4
    <3> QED BY <3>1, <3>2, <3>3, <3>4
  <2>3. returned \subseteq [Request -> Outcome]
    BY <2>1 DEF Inv, TypeInv, Returned, Request
  <2> QED BY <2>1, <2>2, <2>3 DEF Inv, TypeInv, TypeOK, Place, Peer
<1> QED BY <1>1, ClientSafe, PTL

\* A request is completed only by the whole of a response, however its end is found.
THEOREM WholeSafe == Spec => []CompletedIsWhole
<1>1. Inv => CompletedIsWhole
  BY DEF Inv, TypeInv, Life, Whole, CompletedIsWhole, Request
<1> QED BY <1>1, ClientSafe, PTL

\* An accepted request is never a refused one, which is what the contracts count by.
THEOREM AcceptedSafe == Spec => []AcceptedIsNeverRefused
<1>1. Inv => AcceptedIsNeverRefused
  BY DEF Inv, TypeInv, Life, Ended, Unmet, AcceptedIsNeverRefused, Request, Probe, Settled
<1> QED BY <1>1, ClientSafe, PTL

\* The event the SIGTERM waits for is set exactly when a request has been sent.
THEOREM ArmedSafe == Spec => []ArmedMeansSent
<1>1. Inv => ArmedMeansSent
  BY DEF Inv
<1> QED BY <1>1, ClientSafe, PTL

\* What is returned is what the bus has recorded, one start and one end of each.
THEOREM RecordSafe == Spec => []ReturnedIsRecorded
<1>1. Inv => ReturnedIsRecorded
  BY DEF Inv, Returned, Recorded, Settled, ReturnedIsRecorded, Request
<1> QED BY <1>1, ClientSafe, PTL

\* A deadline never overrules a response that has landed.
THEOREM LandedSafe == Spec => CompletedStays
<1>1. Inv /\ [Next]_vars => [\A a \in Request :
        result[a].outcome = "completed" => result'[a].outcome = "completed"]_vars
  <2> SUFFICES ASSUME Inv, Next, NEW a \in Request, result[a].outcome = "completed"
               PROVE  result'[a].outcome = "completed"
    OBVIOUS
  <2> USE DEF Request, Probe
  <2>1. TypeInv /\ a \in Actor /\ pc[a] \in {"closing", "settled"}
    BY DEF Inv, TypeInv, Life, Place
  <2>2. ASSUME NEW b \in Actor, Client(b) PROVE result'[a].outcome = "completed"
    <3>1. CASE b # a
      BY <2>1, <2>2, <3>1 DEF Client, Start, Connects, ConnectFails, Sends, SendFails, Receives, Completes,
           Breaks, Break, ProbeReceives, Closes, Expires, Settles, Finishes, TypeInv
    <3>2. CASE b = a
      <4>1. Closes(a) \/ Expires(a)
        BY <2>1, <2>2, <3>2 DEF Client, Start, Connects, ConnectFails, Sends, SendFails, Receives,
             Completes, Breaks, ProbeReceives
      <4>2. Settles(a, result[a])
        BY <2>1, <4>1 DEF Closes, Expires, Overrules
      <4> QED BY <2>1, <4>2, SettlesFields DEF TypeInv
    <3> QED BY <3>1, <3>2
  <2>3. ASSUME NEW b \in Actor,
               DeadlinePasses(b) \/ PeerSends(b) \/ PeerEnds(b, "closed") \/ PeerEnds(b, "reset")
        PROVE  result'[a].outcome = "completed"
    BY <2>3 DEF DeadlinePasses, PeerSends, PeerEnds
  <2>4. CASE Return
    BY <2>4 DEF Return
  <2> QED BY <2>2, <2>3, <2>4 DEF Next
<1> QED BY <1>1, ClientSafe, PTL DEF Spec, CompletedStays

=============================================================================
