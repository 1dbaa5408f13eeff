---------------------------- MODULE RequestClient ----------------------------
(***************************************************************************)
(* traffic/client.py, accept_probe.py and generator.py: one request on its *)
(* own connection, from the handshake to the classification of its end, by *)
(* the long requests of the in-flight experiment and by the accept probe,  *)
(* which judges the same peer more coarsely.                               *)
(*                                                                         *)
(* A response is what the client must see of it: 0 nothing, 1 some of its  *)
(* head, 2 the whole head, 3 the body too.  Each connection has a deadline *)
(* that may pass at any moment and interrupts whatever is awaited then,    *)
(* the closing of the connection included.                                 *)
(***************************************************************************)
EXTENDS Integers, Sequences, FiniteSets

CONSTANTS
  Actor,       \* long requests of one experiment and attempts of the accept probe
  Populations  \* which of them may be the long requests

ASSUME PopulationAssumption == \A p \in Populations : p \subseteq Actor

\* How the end of a response is found: by its length or chunks, by having no
\* body, by the end of the connection; or it is no response at all.
Framing == {"delimited", "bodyless", "unframed", "malformed"}

VARIABLES
  population, \* the actors that are long requests
  pc,       \* where each actor is
  result,   \* RequestResult or AcceptAttempt: see NoResult
  peer,     \* what the peer has sent, and how it ended the connection
  read,     \* what the client has received of it
  expired,  \* actors whose deadline has passed
  armed,    \* request_sent_event
  bus,      \* the events recorded of each request
  returned  \* what run_long_requests returned, {} before

vars == <<population, pc, result, peer, read, expired, armed, bus, returned>>

Request == population
Probe == Actor \ population

Outcome ==
  {"completed", "refused", "reset_before_response", "reset_mid_response", "timeout"}
AcceptOutcome ==
  {"response", "closed_without_response", "connection_refused", "timeout", "reset"}

NoResult ==
  [outcome |-> "timeout", connected |-> FALSE, sent |-> FALSE, firstByte |-> FALSE,
   finished |-> FALSE]

Init ==
  /\ population \in Populations
  /\ pc = [a \in Actor |-> "idle"]
  /\ result = [a \in Actor |-> NoResult]
  /\ peer \in [Actor -> {[framing |-> f, sent |-> 0, end |-> "open"] : f \in Framing}]
  /\ read = [a \in Actor |-> 0]
  /\ expired = {}
  /\ armed = FALSE
  /\ bus = [a \in Actor |-> <<>>]
  /\ returned = {}

-----------------------------------------------------------------------------
(* The peer, which owes nothing: it may answer, close, reset or say        *)
(* nothing for ever.  What it does once the client closes is not seen.     *)

HasConnection(a) == pc[a] \in {"sending", "reading"}

PeerSends(a) ==
  /\ HasConnection(a)
  /\ peer[a].end = "open"
  /\ peer[a].sent < 3
  /\ peer' = [peer EXCEPT ![a].sent = @ + 1]
  /\ UNCHANGED <<population, pc, result, read, expired, armed, bus, returned>>

PeerEnds(a, how) ==
  /\ HasConnection(a)
  /\ peer[a].end = "open"
  /\ peer' = [peer EXCEPT ![a].end = how]
  /\ UNCHANGED <<population, pc, result, read, expired, armed, bus, returned>>

DeadlinePasses(a) ==
  /\ pc[a] \notin {"idle", "settled"}
  /\ a \notin expired
  /\ expired' = expired \cup {a}
  /\ UNCHANGED <<population, pc, result, peer, read, armed, bus, returned>>

-----------------------------------------------------------------------------
(* How a request ends.                                                     *)

EventOf(outcome) ==
  CASE outcome = "completed" -> "REQUEST_COMPLETED"
    [] outcome = "refused"   -> "CONNECTION_REFUSED"
    [] OTHER                 -> "REQUEST_RESET"

\* perform_request returns, and the request is on the bus before anything else.
Settles(a, r) ==
  /\ pc' = [pc EXCEPT ![a] = "settled"]
  /\ result' = [result EXCEPT ![a] = [r EXCEPT !.finished = TRUE]]
  /\ bus' = IF a \in Request THEN [bus EXCEPT ![a] = Append(@, EventOf(r.outcome))] ELSE bus

Finishes(a, outcome) ==
  /\ pc' = [pc EXCEPT ![a] = "closing"]
  /\ result' = [result EXCEPT ![a].outcome = outcome, ![a].finished = TRUE]
  /\ UNCHANGED <<bus>>

\* Seeded fault: any byte of a response makes a broken request a completed one.
BreakAfterHead(a) ==
  Finishes(a, IF a \in Probe THEN "reset"
              ELSE IF read[a] >= 2 THEN "completed"
              ELSE "reset_before_response")

\* A connection died.  Whether that is a defect depends on where it died.
Break(a) ==
  Finishes(a, IF a \in Probe THEN "reset"
              ELSE IF result[a].firstByte THEN "reset_mid_response"
              ELSE "reset_before_response")

-----------------------------------------------------------------------------
(* The connection.                                                         *)

Start(a) ==
  /\ pc[a] = "idle"
  /\ pc' = [pc EXCEPT ![a] = "connecting"]
  /\ bus' = IF a \in Request THEN [bus EXCEPT ![a] = Append(@, "REQUEST_STARTED")] ELSE bus
  /\ UNCHANGED <<population, result, peer, read, expired, armed, returned>>

Connects(a) ==
  /\ pc[a] = "connecting"
  /\ pc' = [pc EXCEPT ![a] = "sending"]
  /\ result' = [result EXCEPT ![a].connected = TRUE]
  /\ UNCHANGED <<population, peer, read, expired, armed, bus, returned>>

\* Seeded fault: an error of the handshake counts as a reset connection.
ConnectFailsByReset(a) ==
  /\ pc[a] = "connecting"
  /\ \E outcome \in {"timeout", IF a \in Probe THEN "reset" ELSE "reset_before_response"} :
       Settles(a, [result[a] EXCEPT !.outcome = outcome])
  /\ UNCHANGED <<population, peer, read, expired, armed, returned>>

\* Whatever the error, nothing was in flight: only packets that vanished are
\* told apart from a listener that is gone.
ConnectFails(a) ==
  /\ pc[a] = "connecting"
  /\ \E outcome \in {"timeout", IF a \in Probe THEN "connection_refused" ELSE "refused"} :
       Settles(a, [result[a] EXCEPT !.outcome = outcome])
  /\ UNCHANGED <<population, peer, read, expired, armed, returned>>

\* The event is one for all the requests of an experiment; the probe has none.
Sends(a) ==
  /\ pc[a] = "sending"
  /\ pc' = [pc EXCEPT ![a] = "reading"]
  /\ result' = [result EXCEPT ![a].sent = TRUE]
  /\ armed' = (armed \/ a \in Request)
  /\ UNCHANGED <<population, peer, read, expired, bus, returned>>

SendFails(a) ==
  /\ pc[a] = "sending"
  /\ peer[a].end = "reset"
  /\ Finishes(a, IF a \in Probe THEN "reset" ELSE "reset_before_response")
  /\ UNCHANGED <<population, peer, read, expired, armed, returned>>

-----------------------------------------------------------------------------
(* The response.                                                           *)

Pending(a) == read[a] < peer[a].sent

AtEof(a) == peer[a].end = "closed" /\ ~Pending(a)

\* A body without framing ends with the connection.
IsWhole(a) ==
  CASE peer[a].framing = "delimited" -> read[a] = 3
    [] peer[a].framing = "bodyless"  -> read[a] >= 2
    [] peer[a].framing = "unframed"  -> read[a] >= 2 /\ AtEof(a)
    [] OTHER                         -> FALSE

Receives(a) ==
  /\ pc[a] = "reading"
  /\ a \in Request
  /\ ~IsWhole(a)
  /\ Pending(a)
  /\ read' = [read EXCEPT ![a] = @ + 1]
  /\ result' = [result EXCEPT ![a].firstByte = TRUE]
  /\ UNCHANGED <<population, pc, peer, expired, armed, bus, returned>>

Completes(a) ==
  /\ pc[a] = "reading"
  /\ a \in Request
  /\ IsWhole(a)
  /\ Finishes(a, "completed")
  /\ UNCHANGED <<population, peer, read, expired, armed, returned>>

\* FIN before the response was whole, RST at any moment, or no HTTP.
Breaks(a) ==
  /\ pc[a] = "reading"
  /\ a \in Request
  /\ ~IsWhole(a)
  /\ \/ AtEof(a)
     \/ peer[a].end = "reset"
     \/ peer[a].framing = "malformed" /\ read[a] > 0
  /\ Break(a)
  /\ UNCHANGED <<population, peer, read, expired, armed, returned>>

\* The probe looks at one receive only.
ProbeReceives(a) ==
  /\ pc[a] = "reading"
  /\ a \in Probe
  /\ \/ Pending(a) /\ Finishes(a, "response")
     \/ AtEof(a) /\ Finishes(a, "closed_without_response")
     \/ peer[a].end = "reset" /\ Break(a)
  /\ UNCHANGED <<population, peer, read, expired, armed, returned>>

-----------------------------------------------------------------------------
(* The end.                                                                *)

Closes(a) ==
  /\ pc[a] = "closing"
  /\ Settles(a, result[a])
  /\ UNCHANGED <<population, peer, read, expired, armed, returned>>

\* Seeded fault: the deadline overrules a response that has landed.
OverrulesAll(a) == TRUE

\* A request that landed just as the scope expired stays completed.
Overrules(a) == a \in Probe \/ result[a].outcome # "completed"

\* Seeded fault: the deadline covers the handshake and the request only.
ExpiresBeforeResponse(a) ==
  /\ pc[a] \in {"connecting", "sending"}
  /\ a \in expired
  /\ Settles(a, [result[a] EXCEPT !.outcome = "timeout"])
  /\ UNCHANGED <<population, peer, read, expired, armed, returned>>

Expires(a) ==
  /\ pc[a] \in {"connecting", "sending", "reading", "closing"}
  /\ a \in expired
  /\ Settles(a, IF Overrules(a) THEN [result[a] EXCEPT !.outcome = "timeout"] ELSE result[a])
  /\ UNCHANGED <<population, peer, read, expired, armed, returned>>

\* The task group of run_long_requests has no task left.
Return ==
  /\ returned = {}
  /\ \A a \in Request : pc[a] = "settled"
  /\ returned' = {[a \in Request |-> result[a].outcome]}
  /\ UNCHANGED <<population, pc, result, peer, read, expired, armed, bus>>

Client(a) ==
  \/ Start(a) \/ Connects(a) \/ ConnectFails(a) \/ Sends(a) \/ SendFails(a)
  \/ Receives(a) \/ Completes(a) \/ Breaks(a) \/ ProbeReceives(a)
  \/ Closes(a) \/ Expires(a)

Next ==
  \/ \E a \in Actor :
       \/ Client(a)
       \/ DeadlinePasses(a)
       \/ PeerSends(a)
       \/ PeerEnds(a, "closed") \/ PeerEnds(a, "reset")
  \/ Return

Spec == Init /\ [][Next]_vars

\* The event loop resumes what can go on and time passes; the peer owes nothing.
Fairness ==
  /\ \A a \in Actor : WF_vars(Client(a)) /\ WF_vars(DeadlinePasses(a))
  /\ WF_vars(Return)

FairSpec == Spec /\ Fairness

-----------------------------------------------------------------------------
(* Properties.                                                             *)

TypeOK ==
  /\ population \in Populations
  /\ pc \in [Actor -> {"idle", "connecting", "sending", "reading", "closing", "settled"}]
  /\ \A a \in Actor :
       /\ result[a].outcome \in IF a \in Request THEN Outcome ELSE AcceptOutcome
       /\ \A f \in {"connected", "sent", "firstByte", "finished"} : result[a][f] \in BOOLEAN
  /\ peer \in [Actor -> [framing : Framing, sent : 0..3, end : {"open", "closed", "reset"}]]
  /\ read \in [Actor -> 0..3]
  /\ expired \subseteq Actor
  /\ armed \in BOOLEAN
  /\ \A a \in Request : Len(bus[a]) <= 2
  /\ returned \subseteq [Request -> Outcome]

\* client.py 37-41.
Broken == {"reset_before_response", "reset_mid_response", "timeout"}

Settled(a) == pc[a] = "settled"

\* A request is completed only if the whole response arrived: up to its length
\* or last chunk, or, where only the end of the connection ends it, up to a FIN
\* and never a RST (client.py 348-375).
CompletedIsWhole ==
  \A a \in Request : result[a].outcome = "completed" =>
    /\ result[a].sent
    /\ \/ peer[a].framing = "delimited" /\ read[a] = 3
       \/ peer[a].framing = "bodyless" /\ read[a] >= 2
       \/ /\ peer[a].framing = "unframed" /\ read[a] >= 2
          /\ peer[a].end = "closed" /\ read[a] = peer[a].sent

\* What the contracts count rests on it: a request that was accepted ends
\* completed or broken, a refused one was never accepted, and neither was a
\* probe that was refused; a probe that never connected was refused or heard
\* nothing (client.py 37-41, 211-224; contracts/drain.py 330-336).
AcceptedIsNeverRefused ==
  /\ \A a \in Request : Settled(a) =>
       IF result[a].connected
       THEN result[a].outcome \in Broken \cup {"completed"}
       ELSE result[a].outcome \in {"refused", "timeout"}
  /\ \A a \in Probe : Settled(a) =>
       IF result[a].connected
       THEN result[a].outcome # "connection_refused"
       ELSE result[a].outcome \in {"connection_refused", "timeout"}

\* The signal is timed by the event: it is set exactly when some request has
\* been handed to its socket (client.py 299-302, engine/lifecycle.py 748-753).
ArmedMeansSent == armed <=> \E a \in Request : result[a].sent

\* What run_long_requests returns is what the bus has recorded: every request
\* once started and once ended, with the outcome it returns, though the closing
\* of a connection may still overturn one (generator.py 13-45, 66-87).
ReturnedIsRecorded ==
  \A outcomes \in returned : \A a \in Request :
    bus[a] = <<"REQUEST_STARTED", EventOf(outcomes[a])>>

\* A response that has landed is never overruled by the deadline that expires
\* while the connection is closed (client.py 194-199).
CompletedStays ==
  [][\A a \in Request :
       result[a].outcome = "completed" => result'[a].outcome = "completed"]_vars

\* Every long request and every probe settles, whatever the peer does or fails
\* to do, and the requests are returned (client.py 180-203, generator.py 83-87).
EverythingSettles == <>(returned # {} /\ \A a \in Actor : Settled(a))

=============================================================================
