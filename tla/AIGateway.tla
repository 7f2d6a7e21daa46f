------------------------------ MODULE AIGateway ------------------------------
(***************************************************************************)
(* AIServiceProxy.handleGenerateRequest as a callback among Node's events: *)
(* when it listens for the end of the client's connection, what aborts the *)
(* upstream call, and when the response ends.                              *)
(*                                                                         *)
(* Node and Express are external.  The handler runs in the 'end' event of  *)
(* the request's body.  Since Node 16 the 'close' event of a request is    *)
(* emitted when its body has been read, in the tick after 'end', before    *)
(* any awaited promise resumes; it says nothing of the connection.  The    *)
(* project runs on Node 20 (CONTRIBUTING.md line 11).                      *)
(***************************************************************************)
EXTENDS Naturals

CONSTANT Requests  \* HTTP requests for a review

VARIABLES
  hasCode,    \* hasCode[r]: the code came in the body
  handler,    \* handler[r]: what handleGenerateRequest awaits
  closed,     \* closed[r]: the close event of the request was emitted
  listening,  \* listening[r]: the handler listens for it
  aborted,    \* aborted[r]: abortController.signal.aborted
  upstream,   \* upstream[r]: the call to the AI service
  response,   \* response[r]: "open" until res.end
  client      \* client[r]: is the client connected?

gatewayVars == <<hasCode, handler, closed, listening, aborted, upstream, response, client>>

-----------------------------------------------------------------------------
(* "resolving": getOrCreateSessionAsync is awaited; "calling": the headers   *)
(* of the AI service's response; "reading": its body.                        *)
Waits == {"unused", "resolving", "calling", "reading", "returned"}

Upstream == {"none", "running", "over", "aborted"}

GatewayInit ==
  /\ hasCode \in [Requests -> BOOLEAN]
  /\ handler = [r \in Requests |-> "unused"]
  /\ closed = [r \in Requests |-> FALSE]
  /\ listening = [r \in Requests |-> FALSE]
  /\ aborted = [r \in Requests |-> FALSE]
  /\ upstream = [r \in Requests |-> "none"]
  /\ response = [r \in Requests |-> "open"]
  /\ client = [r \in Requests |-> "connected"]

-----------------------------------------------------------------------------
(* The code is there: listen for the close event, and call the AI service.   *)
Generate(r) ==
  /\ listening' = [listening EXCEPT ![r] = TRUE]
  /\ upstream' = [upstream EXCEPT ![r] = "running"]
  /\ handler' = [handler EXCEPT ![r] = "calling"]
  /\ UNCHANGED response

(* A wrong version of ResolveSession: the handler listens first of all. *)
ResolveSessionListening(r) ==
  /\ handler' = [handler EXCEPT ![r] = "resolving"]
  /\ listening' = [listening EXCEPT ![r] = TRUE]
  /\ UNCHANGED <<upstream, response>>

(* No code in the body: ask for the session of the room. *)
ResolveSession(r) ==
  /\ handler' = [handler EXCEPT ![r] = "resolving"]
  /\ UNCHANGED <<listening, upstream, response>>

(* The body of the request has arrived. *)
HandleGenerateRequest(r) ==
  /\ handler[r] = "unused"
  /\ IF hasCode[r] THEN Generate(r) ELSE ResolveSession(r)
  /\ UNCHANGED <<hasCode, closed, aborted, client>>

(* The request emits 'close'. *)
RequestCloses(r) ==
  /\ handler[r] # "unused"
  /\ ~closed[r]
  /\ closed' = [closed EXCEPT ![r] = TRUE]
  /\ IF listening[r] /\ response[r] = "open"
       THEN /\ aborted' = [aborted EXCEPT ![r] = TRUE]
            /\ upstream' = [upstream EXCEPT ![r] = "aborted"]
       ELSE UNCHANGED <<aborted, upstream>>
  /\ UNCHANGED <<hasCode, handler, listening, response, client>>

(* What the handler awaits is settled: never before the close event. *)
Resumes(r, wait) == handler[r] = wait /\ closed[r]

Return(r) == handler' = [handler EXCEPT ![r] = "returned"]

EndResponse(r) == response' = [response EXCEPT ![r] = "ended"] /\ Return(r)

(* The session is there: its document is reviewed, or is empty and refused.  *)
SessionResolved(r) ==
  /\ Resumes(r, "resolving")
  /\ \/ Generate(r)
     \/ EndResponse(r) /\ UNCHANGED <<listening, upstream>>
  /\ UNCHANGED <<hasCode, closed, aborted, client>>

UpstreamAnswers(r) ==
  /\ Resumes(r, "calling")
  /\ upstream[r] = "running"
  /\ handler' = [handler EXCEPT ![r] = "reading"]
  /\ UNCHANGED <<hasCode, closed, listening, aborted, upstream, response, client>>

(* The body of the AI service's response is over. *)
UpstreamEnds(r) ==
  /\ Resumes(r, "reading")
  /\ upstream[r] = "running"
  /\ upstream' = [upstream EXCEPT ![r] = "over"]
  /\ EndResponse(r)
  /\ UNCHANGED <<hasCode, closed, listening, aborted, client>>

(* A wrong version of UpstreamFails: the error is sent only while there are  *)
(* headers to send it with.                                                  *)
UpstreamFailsSilently(r) ==
  /\ Resumes(r, "calling") \/ Resumes(r, "reading")
  /\ upstream[r] = "running"
  /\ upstream' = [upstream EXCEPT ![r] = "over"]
  /\ IF handler[r] = "calling" THEN EndResponse(r) ELSE Return(r) /\ UNCHANGED response
  /\ UNCHANGED <<hasCode, closed, listening, aborted, client>>

(* The call fails, at once or while its response is read: an error event     *)
(* ends the response.                                                        *)
UpstreamFails(r) ==
  /\ Resumes(r, "calling") \/ Resumes(r, "reading")
  /\ upstream[r] = "running"
  /\ upstream' = [upstream EXCEPT ![r] = "over"]
  /\ EndResponse(r)
  /\ UNCHANGED <<hasCode, closed, listening, aborted, client>>

(* The call was aborted: the handler returns, and leaves the response open.  *)
AbortCaught(r) ==
  /\ Resumes(r, "calling") \/ Resumes(r, "reading")
  /\ aborted[r]
  /\ Return(r)
  /\ UNCHANGED <<hasCode, closed, listening, aborted, upstream, response, client>>

(* The client goes away.  The request was closed long before. *)
ClientLeaves(r) ==
  /\ handler[r] # "unused"
  /\ closed[r]
  /\ client[r] = "connected"
  /\ client' = [client EXCEPT ![r] = "gone"]
  /\ UNCHANGED <<hasCode, handler, closed, listening, aborted, upstream, response>>

(* Node's share of a request that has arrived: events and settled promises.  *)
NodeStep(r) == RequestCloses(r) \/ SessionResolved(r) \/ AbortCaught(r)

(* The AI service's share. *)
UpstreamStep(r) == UpstreamAnswers(r) \/ UpstreamEnds(r) \/ UpstreamFails(r)

GatewayNext ==
  \/ \E r \in Requests : HandleGenerateRequest(r)
  \/ \E r \in Requests : NodeStep(r)
  \/ \E r \in Requests : UpstreamStep(r)
  \/ \E r \in Requests : ClientLeaves(r)

GatewaySpec == GatewayInit /\ [][GatewayNext]_gatewayVars

(* Node goes on; the AI service may take as long as it likes. *)
NodeFairSpec == GatewaySpec /\ \A r \in Requests : WF_gatewayVars(NodeStep(r))

(* The AI service answers, ends or breaks (its provider has a timeout).      *)
FairGatewaySpec == NodeFairSpec /\ \A r \in Requests : WF_gatewayVars(UpstreamStep(r))

-----------------------------------------------------------------------------
GatewayTypeOK ==
  /\ hasCode \in [Requests -> BOOLEAN]
  /\ handler \in [Requests -> Waits]
  /\ closed \in [Requests -> BOOLEAN]
  /\ listening \in [Requests -> BOOLEAN]
  /\ aborted \in [Requests -> BOOLEAN]
  /\ upstream \in [Requests -> Upstream]
  /\ response \in [Requests -> {"open", "ended"}]
  /\ client \in [Requests -> {"connected", "gone"}]

(* A review that the browser's buttons ask for, which sends no code, is      *)
(* aborted only if its client has gone: the early close event of its request *)
(* aborts none.  It passes while the review awaits its session               *)
(* (AIServiceProxy lines 30 and 60).                                         *)
ReviewsOfRoomRun ==
  \A r \in Requests : ~hasCode[r] /\ aborted[r] => client[r] = "gone"

(* A handler that has returned has ended its response, or its call was       *)
(* aborted: no way out leaves a client that is still wanted without an end.  *)
ReturnedMeansEnded ==
  \A r \in Requests : handler[r] = "returned" => response[r] = "ended" \/ aborted[r]

(* Every request is dealt with: its response ends, or its call is aborted.   *)
RequestsEnd ==
  \A r \in Requests : handler[r] # "unused" ~> response[r] = "ended" \/ aborted[r]

(* "Monitor client disconnect to trigger cancellation" (AIServiceProxy line  *)
(* 59), one half: only a client that left has its call aborted.              *)
AbortsOnlyTheGone == \A r \in Requests : aborted[r] => client[r] = "gone"

(* The other half: when the client leaves, the call does not run on.         *)
DisconnectCancels ==
  \A r \in Requests : client[r] = "gone" ~> upstream[r] # "running"
=============================================================================
