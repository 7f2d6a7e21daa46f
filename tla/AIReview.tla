------------------------------ MODULE AIReview ------------------------------
(***************************************************************************)
(* AI reviews in one browser tab: the useAIReview hook and its status, the *)
(* requests AIClient.generateStream runs, and the server-sent events that  *)
(* the AI service emits and the backend's AIServiceProxy relays.           *)
(*                                                                         *)
(* An event is two lines, "event: <kind>" and "data: <payload>".  What the *)
(* browser reads at a time is a chunk: any number of the lines that are    *)
(* there.  A payload is abstracted to the kind of event it was made for.   *)
(*                                                                         *)
(* The browser runs one task at a time.  abort() rejects the fetch or the  *)
(* read a request waits for, and the code that handles the rejection runs  *)
(* before the next task: aborting and settling is one step.                *)
(***************************************************************************)
EXTENDS Integers, Sequences

CONSTANTS
  Requests,   \* requests the tab makes, in any order
  MaxTokens,  \* BOUND: tokens the model generates for a request
  None        \* no request, no response

ASSUME NoRequestAssumption == None \notin Requests
ASSUME MaxTokensAssumption == MaxTokens \in Nat

VARIABLES
  status,        \* the state of useAIReview
  streamingText, \* the request whose text it shows, or None
  response,      \* currentResponse: an item of the history, or None
  markers,       \* the item whose issues are marked in the editor, or None
  history,       \* reviewHistory, newest first
  controller,    \* the request that abortControllerRef belongs to, or None
  request,       \* request[r]: what generateStream keeps for r
  stream,        \* stream[r]: the response to r, from the service to the tab
  torn           \* history: an event of r was torn apart on its way

hookVars == <<status, streamingText, response, markers, history, controller>>
reviewVars == <<hookVars, request, stream, torn>>

-----------------------------------------------------------------------------
ReviewStatus == {"idle", "loading", "streaming", "success", "cancelled", "failed"}
Outcomes == {"complete", "error"}
Kinds == {"status", "token"} \cup Outcomes

(* A "garbled" line is what a connection that broke in the middle of a line  *)
(* leaves, glued to what is sent after it.                                   *)
Line == [part : {"event", "data"}, kind : Kinds \cup {"garbled"}]
EventLine(k) == [part |-> "event", kind |-> k]
DataLine(k) == [part |-> "data", kind |-> k]

(* buffered: tokenBuffer is not empty; flushing: the interval of the flush   *)
(* loop is on; reported: the outcomes the hook was told.                     *)
Request == [phase : {"unused", "fetching", "reading", "settled"},
            buffered : BOOLEAN, flushing : BOOLEAN, reported : SUBSET Outcomes]

(* stage: "waiting" for the service, "generating" after its status event,    *)
(* "finished" after its outcome; the response is over when it has "ended",   *)
(* or "failed" on the way; wire: the lines that were sent and not read.      *)
Stream == [stage : {"none", "waiting", "generating", "finished", "ended", "failed"},
           tokens : 0 .. MaxTokens, wire : Seq(Line)]

HistoryItem == [id : Requests, payload : Kinds]

ASSUME NoItemAssumption == None \notin HistoryItem

Open(r) == request[r].phase \in {"fetching", "reading"}
Busy == status \in {"loading", "streaming"}

(* A wrong version of AllRead: what is buffered is not waited for. *)
AllReadEarly(r) ==
  request[r].phase = "reading" /\ stream[r].stage \in {"ended", "failed"}

(* The response to r has been read to its end. *)
AllRead(r) ==
  /\ request[r].phase = "reading"
  /\ stream[r].stage \in {"ended", "failed"}
  /\ stream[r].wire = <<>>

ReviewInit ==
  /\ status = "idle"
  /\ streamingText = None
  /\ response = None
  /\ markers = None
  /\ history = <<>>
  /\ controller = None
  /\ request = [r \in Requests |-> [phase |-> "unused", buffered |-> FALSE,
                                    flushing |-> FALSE, reported |-> {}]]
  /\ stream = [r \in Requests |-> [stage |-> "none", tokens |-> 0, wire |-> <<>>]]
  /\ torn = [r \in Requests |-> FALSE]

-----------------------------------------------------------------------------
(* What may come next while the provider generates: another token, the end   *)
(* of its stream, or an exception.                                           *)
Generates(r) ==
  Outcomes \cup (IF stream[r].tokens < MaxTokens THEN {"token"} ELSE {})

(* The AI service emits its status event, then tokens, then one outcome.     *)
NextKinds(r) ==
  CASE stream[r].stage = "waiting"    -> {"status"}
    [] stream[r].stage = "generating" -> Generates(r)
    [] OTHER                          -> {}

Emit(r, k) ==
  /\ k \in NextKinds(r)
  /\ stream' = [stream EXCEPT
                  ![r].stage = IF k \in Outcomes THEN "finished" ELSE "generating",
                  ![r].tokens = IF k = "token" THEN @ + 1 ELSE @,
                  ![r].wire = @ \o <<EventLine(k), DataLine(k)>>]
  /\ UNCHANGED <<hookVars, request, torn>>

EndResponse(r) ==
  /\ stream[r].stage = "finished"
  /\ stream' = [stream EXCEPT ![r].stage = "ended"]
  /\ UNCHANGED <<hookVars, request, torn>>

(* The proxy loses the service, between two events or within the lines of    *)
(* the next one: it appends an error event of its own to whatever it sent.   *)
UpstreamFails(r) ==
  /\ stream[r].stage \in {"waiting", "generating", "finished"}
  /\ \E cut \in {<<EventLine("error")>>, <<EventLine("garbled")>>}
                  \cup {<<EventLine(k), DataLine("garbled")>> : k \in NextKinds(r)} :
       /\ stream' = [stream EXCEPT ![r].stage = "failed",
                                   ![r].wire = @ \o cut \o <<DataLine("error")>>]
       /\ torn' = [torn EXCEPT ![r] = @ \/ cut # <<EventLine("error")>>]
  /\ UNCHANGED <<hookVars, request>>

-----------------------------------------------------------------------------
(* A request settles: stopFlushLoop clears the interval and shows the text   *)
(* that came in once more, which makes the status "streaming".               *)
Settled(q) == [q EXCEPT !.phase = "settled", !.flushing = FALSE]
Disconnected(t) == [t EXCEPT !.stage = "ended", !.wire = <<>>]

ShowText(r, otherStatus, otherText) ==
  /\ status' = IF request[r].buffered THEN "streaming" ELSE otherStatus
  /\ streamingText' = IF request[r].buffered THEN r ELSE otherText

(* abort() and the handling of the AbortError, for the request controller    *)
(* stands for, in a step that leaves the hook as given otherwise; q and t    *)
(* are the requests and streams of that step.                                *)
AbortController(q, t, newStatus, newText) ==
  IF controller # None /\ Open(controller)
    THEN /\ request' = [q EXCEPT ![controller] = Settled(@)]
         /\ stream' = [t EXCEPT ![controller] = Disconnected(@)]
         /\ ShowText(controller, newStatus, newText)
    ELSE /\ request' = q /\ stream' = t
         /\ status' = newStatus /\ streamingText' = newText

(* A wrong version of RequestAIOperation: it does not abort what is open.    *)
RequestAnother(r) ==
  /\ request[r].phase = "unused" /\ ~Busy
  /\ controller' = r
  /\ status' = "loading" /\ streamingText' = None
  /\ request' = [request EXCEPT ![r].phase = "fetching"]
  /\ stream' = [stream EXCEPT ![r].stage = "waiting"]
  /\ markers' = None
  /\ UNCHANGED <<response, history, torn>>

(* requestAIOperation, from a button that is disabled while the hook is      *)
(* busy.  A request that is still open (its outcome was shown, or the hook   *)
(* was cleared) is aborted; its last text arrives AFTER the hook was reset.  *)
RequestAIOperation(r) ==
  /\ request[r].phase = "unused" /\ ~Busy
  /\ controller' = r
  /\ AbortController([request EXCEPT ![r].phase = "fetching"],
                     [stream EXCEPT ![r].stage = "waiting"], "loading", None)
  /\ markers' = None
  /\ UNCHANGED <<response, history, torn>>

(* cancelReview, from a button that is there while the hook is busy. *)
CancelReview ==
  /\ Busy
  /\ controller' = None
  /\ AbortController(request, stream, "cancelled", streamingText)
  /\ UNCHANGED <<response, markers, history, torn>>

(* A wrong version of ClearDiagnostics: the editor is forgotten. *)
ClearDiagnosticsKeeps ==
  /\ status' = "idle" /\ streamingText' = None /\ response' = None
  /\ UNCHANGED <<markers, history, controller, request, stream, torn>>

(* clearDiagnostics, from a button that is always there; nothing is aborted. *)
ClearDiagnostics ==
  /\ status' = "idle" /\ streamingText' = None /\ response' = None
  /\ markers' = None
  /\ UNCHANGED <<history, controller, request, stream, torn>>

(* The markers and line decorations for the issues of an item take the place *)
(* of those of the old one; what is no review has no issues to show.         *)
Marked(old, item) == IF item.payload = "complete" THEN item ELSE old

(* From the list of the drawer, whatever runs meanwhile. *)
SelectHistoryItem ==
  /\ Len(history) > 1
  /\ \E i \in 1 .. Len(history) : /\ response' = history[i]
                                 /\ markers' = Marked(markers, history[i])
  /\ UNCHANGED <<status, streamingText, history, controller, request, stream, torn>>

-----------------------------------------------------------------------------
(* The headers of the response arrive. *)
FetchResolves(r) ==
  /\ request[r].phase = "fetching"
  /\ request' = [request EXCEPT ![r].phase = "reading", ![r].flushing = TRUE]
  /\ UNCHANGED <<hookVars, stream, torn>>

(* The connection to the gateway breaks, or the gateway refuses the request: *)
(* stopFlushLoop, then onError.                                              *)
ConnectionFails(r) ==
  /\ Open(r)
  /\ request' = [request EXCEPT ![r] =
                    [Settled(@) EXCEPT !.reported = request[r].reported \cup {"error"}]]
  /\ stream' = [stream EXCEPT ![r] = Disconnected(@)]
  /\ status' = "failed"
  /\ streamingText' = IF request[r].buffered THEN r ELSE streamingText
  /\ UNCHANGED <<response, markers, history, controller, torn>>

(* The flush loop shows what is buffered, every 40 ms. *)
FlushTick(r) ==
  /\ request[r].flushing /\ request[r].buffered
  /\ status' = "streaming" /\ streamingText' = r
  /\ UNCHANGED <<response, markers, history, controller, request, stream, torn>>

(* What a line does to t: the hook, the request q, and the event that the    *)
(* lines before it in the SAME chunk have named.                             *)
StopFlushLoop(t) ==
  [t EXCEPT !.q.flushing = FALSE, !.showsText = @ \/ t.q.buffered,
            !.status = IF t.q.buffered THEN "streaming" ELSE @]

KeepTen(items) == SubSeq(items, 1, IF Len(items) < 10 THEN Len(items) ELSE 10)

OnComplete(t, item) ==
  [StopFlushLoop(t) EXCEPT !.status = "success", !.response = item,
                           !.markers = Marked(@, item),
                           !.history = KeepTen(<<item>> \o @),
                           !.q.reported = @ \cup {"complete"}]

OnError(t) ==
  [StopFlushLoop(t) EXCEPT !.status = "failed", !.q.reported = @ \cup {"error"}]

(* Wrong versions of ReadLine: an error is handled like a completion; what   *)
(* is no JSON is passed on.                                                  *)
ReadLineMixedUp(t, r, line) ==
  IF line.part = "event" THEN [t EXCEPT !.event = line.kind]
  ELSE IF line.kind # "garbled" /\ t.event \in Outcomes
    THEN OnComplete(t, [id |-> r, payload |-> line.kind])
    ELSE t

ReadLineUnparsed(t, r, line) ==
  IF line.part = "event" THEN [t EXCEPT !.event = line.kind]
  ELSE CASE t.event = "complete" -> OnComplete(t, [id |-> r, payload |-> line.kind])
         [] t.event = "error"    -> OnError(t)
         [] OTHER                -> t

(* What data does that can be parsed. *)
ReadData(t, r, line) ==
  CASE t.event = "status"   -> [t EXCEPT !.status = "streaming"]
    [] t.event = "token"    -> [t EXCEPT !.q.buffered = @ \/ line.kind = "token"]
    [] t.event = "complete" -> OnComplete(t, [id |-> r, payload |-> line.kind])
    [] t.event = "error"    -> OnError(t)
    [] OTHER                -> t

ReadLine(t, r, line) ==
  IF line.part = "event" THEN [t EXCEPT !.event = line.kind]
  ELSE IF line.kind = "garbled" THEN t  \* JSON.parse throws, and is ignored
  ELSE ReadData(t, r, line)

(* before and what the hook, the request and the event are after each of the *)
(* lines of a chunk.                                                         *)
AfterLines(before, r, lines) ==
  LET after[i \in 0 .. Len(lines)] ==
        IF i = 0 THEN before ELSE ReadLine(after[i - 1], r, lines[i])
  IN after

(* One turn of the read loop: the first n lines have arrived. *)
ReadChunk(r, n) ==
  LET wire == stream[r].wire
      before == [event |-> "message", status |-> status, showsText |-> FALSE,
                 response |-> response, markers |-> markers, history |-> history,
                 q |-> request[r]]
      after == AfterLines(before, r, SubSeq(wire, 1, n))[n]
  IN /\ request[r].phase = "reading"
     /\ n \in 1 .. Len(wire)
     /\ status' = after.status
     /\ streamingText' = IF after.showsText THEN r ELSE streamingText
     /\ response' = after.response
     /\ markers' = after.markers
     /\ history' = after.history
     /\ request' = [request EXCEPT ![r] = after.q]
     /\ stream' = [stream EXCEPT ![r].wire = SubSeq(wire, n + 1, Len(wire))]
     /\ torn' = [torn EXCEPT ![r] = @ \/ wire[n].part = "event"]
     /\ UNCHANGED controller

(* Wrong versions of StreamDone: the flush loop is left on; the read loop    *)
(* does not end.                                                             *)
StreamDoneFlushing(r) ==
  /\ AllRead(r)
  /\ request' = [request EXCEPT ![r].phase = "settled"]
  /\ UNCHANGED <<hookVars, stream, torn>>

StreamDoneLoops(r) ==
  /\ AllRead(r)
  /\ ShowText(r, status, streamingText)
  /\ UNCHANGED <<response, markers, history, controller, request, stream, torn>>

(* The response is over: the read loop ends, and stopFlushLoop runs again.   *)
StreamDone(r) ==
  /\ AllRead(r)
  /\ request' = [request EXCEPT ![r] = Settled(@)]
  /\ ShowText(r, status, streamingText)
  /\ UNCHANGED <<response, markers, history, controller, stream, torn>>

Serve(r) == EndResponse(r) \/ UpstreamFails(r) \/ \E k \in Kinds : Emit(r, k)
Receive(r) == \E n \in 1 .. Len(stream[r].wire) : ReadChunk(r, n)

ReviewNext ==
  \/ \E r \in Requests : RequestAIOperation(r)
  \/ CancelReview
  \/ ClearDiagnostics
  \/ SelectHistoryItem
  \/ \E r \in Requests : FetchResolves(r)
  \/ \E r \in Requests : ConnectionFails(r)
  \/ \E r \in Requests : FlushTick(r)
  \/ \E r \in Requests : Receive(r)
  \/ \E r \in Requests : StreamDone(r)
  \/ \E r \in Requests : Serve(r)

(* The service and the proxy go on (the service has a request timeout), and  *)
(* the browser delivers what has arrived.  Nothing is assumed of the user.   *)
ReviewFairness ==
  \A r \in Requests : /\ WF_reviewVars(Serve(r))
                      /\ WF_reviewVars(FetchResolves(r))
                      /\ WF_reviewVars(Receive(r))
                      /\ WF_reviewVars(StreamDone(r))

ReviewSpec == ReviewInit /\ [][ReviewNext]_reviewVars
FairReviewSpec == ReviewSpec /\ ReviewFairness

-----------------------------------------------------------------------------
ReviewTypeOK ==
  /\ status \in ReviewStatus
  /\ streamingText \in Requests \cup {None}
  /\ response \in HistoryItem \cup {None}
  /\ markers \in HistoryItem \cup {None}
  /\ history \in Seq(HistoryItem)
  /\ controller \in Requests \cup {None}
  /\ request \in [Requests -> Request]
  /\ stream \in [Requests -> Stream]
  /\ torn \in [Requests -> BOOLEAN]

(* A request whose response is still being read is the one that the hook can *)
(* cancel: cancelling, clearing, outcomes that arrive before the response    *)
(* ends and new requests never leave a second one running behind it, which   *)
(* could report into a review that is not its own (useAIReview 61-67).       *)
OnlyControllerRuns ==
  \A r \in Requests : Open(r) => controller = r

(* The flush loop of a request ends with it, however it ends, so a finished  *)
(* review never takes over the text of the next one (aiClient 75-83).        *)
FlushLoopEnds ==
  \A r \in Requests : request[r].flushing => request[r].phase = "reading"

(* A response that was delivered to its end has told the hook its outcome,   *)
(* unless one of its events was torn apart.                                  *)
OutcomeUnlessTorn ==
  \A r \in Requests :
    request[r].phase = "settled" /\ controller = r /\ ~torn[r]
      => request[r].reported # {}

(* The history holds a review at most once, and only reviews the service     *)
(* completed: never what an error event carried, unless it was torn apart.   *)
HistoryIsGenuine ==
  /\ \A i, j \in 1 .. Len(history) : history[i].id = history[j].id => i = j
  /\ \A i \in 1 .. Len(history) :
       history[i].payload = "complete" \/ torn[history[i].id]

(* What is marked in the editor is what the drawer shows, however requests,  *)
(* outcomes, clearing and the history follow one another; unless the drawer  *)
(* shows what a torn event carried, which is no review.                      *)
MarkersMatchDrawer ==
  markers # None => /\ response # None
                    /\ response = markers \/ response.payload # "complete"

(* Every request settles, whatever the user does to the hook meanwhile.      *)
RequestsSettle ==
  \A r \in Requests : Open(r) ~> request[r].phase = "settled"

(* "Review complete" (useAIReview line 102): once the hook says so of a      *)
(* review the service completed, it is busy again only when the user makes   *)
(* another request.                                                          *)
CompleteStands ==
  [][status = "success" /\ stream[controller].stage # "failed" /\ Busy'
       => \E r \in Requests : request[r].phase = "unused" /\ Open(r)']_reviewVars

(* "Transparently pipe ALL SSE events from upstream to client"               *)
(* (AIServiceProxy line 85): a response that the service has completed and    *)
(* the browser has read to its end has told the hook its outcome.            *)
OutcomeReachesHook ==
  \A r \in Requests :
    AllRead(r) /\ stream[r].stage = "ended" => request[r].reported # {}
=============================================================================
