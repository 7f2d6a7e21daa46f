---------------------------- MODULE AIGatewayProofs ----------------------------
(***************************************************************************)
(* Proofs about AIGateway, for any number of requests.                     *)
(***************************************************************************)
EXTENDS AIGateway, TLAPS

(* No step of the handler, of Node or of the AI service breaks the types. *)
LEMMA GatewayTypeStep ==
  ASSUME GatewayTypeOK, [GatewayNext]_gatewayVars
  PROVE  GatewayTypeOK'
<1>. USE DEF GatewayTypeOK, Waits, Upstream
<1>1. ASSUME NEW r \in Requests, HandleGenerateRequest(r)
      PROVE  GatewayTypeOK'
  BY <1>1 DEF HandleGenerateRequest, Generate, ResolveSession
<1>2. ASSUME NEW r \in Requests, RequestCloses(r)
      PROVE  GatewayTypeOK'
  BY <1>2 DEF RequestCloses
<1>3. ASSUME NEW r \in Requests, SessionResolved(r)
      PROVE  GatewayTypeOK'
  BY <1>3 DEF SessionResolved, Generate, EndResponse, Return
<1>4. ASSUME NEW r \in Requests, AbortCaught(r)
      PROVE  GatewayTypeOK'
  BY <1>4 DEF AbortCaught, Return
<1>5. ASSUME NEW r \in Requests, UpstreamAnswers(r)
      PROVE  GatewayTypeOK'
  BY <1>5 DEF UpstreamAnswers
<1>6. ASSUME NEW r \in Requests, UpstreamEnds(r)
      PROVE  GatewayTypeOK'
  BY <1>6 DEF UpstreamEnds, EndResponse, Return
<1>7. ASSUME NEW r \in Requests, UpstreamFails(r)
      PROVE  GatewayTypeOK'
  BY <1>7 DEF UpstreamFails, EndResponse, Return
<1>8. ASSUME NEW r \in Requests, ClientLeaves(r)
      PROVE  GatewayTypeOK'
  BY <1>8 DEF ClientLeaves
<1>9. CASE UNCHANGED gatewayVars
  BY <1>9 DEF gatewayVars
<1>. QED
  BY <1>1, <1>2, <1>3, <1>4, <1>5, <1>6, <1>7, <1>8, <1>9
     DEF GatewayNext, NodeStep, UpstreamStep

(* Every reachable state of the AI gateway is well typed. *)
THEOREM GatewayTypeCorrect == GatewaySpec => []GatewayTypeOK
<1>1. GatewayInit => GatewayTypeOK
  BY DEF GatewayInit, GatewayTypeOK, Waits, Upstream
<1>. QED  BY <1>1, GatewayTypeStep, PTL DEF GatewaySpec

-----------------------------------------------------------------------------
(* A handler that waits for its session starts to listen when the close      *)
(* event of its request has passed, and a handler that has not begun hears   *)
(* nothing.                                                                  *)
ListensLate ==
  \A r \in Requests :
    ~hasCode[r] => ~aborted[r] /\ (listening[r] => closed[r])

(* The reviews of the room's text are never aborted: the event that would    *)
(* abort them passes while they await the session.                           *)
LEMMA ListensLateStep ==
  ASSUME GatewayTypeOK, ListensLate, [GatewayNext]_gatewayVars
  PROVE  ListensLate'
<1>. USE DEF GatewayTypeOK, ListensLate
<1>1. ASSUME NEW r \in Requests, HandleGenerateRequest(r)
      PROVE  ListensLate'
  BY <1>1 DEF HandleGenerateRequest, Generate, ResolveSession
<1>2. ASSUME NEW r \in Requests, RequestCloses(r)
      PROVE  ListensLate'
  BY <1>2 DEF RequestCloses
<1>3. ASSUME NEW r \in Requests, SessionResolved(r)
      PROVE  ListensLate'
  BY <1>3 DEF SessionResolved, Resumes, Generate, EndResponse, Return
<1>4. ASSUME NEW r \in Requests,
             AbortCaught(r) \/ UpstreamStep(r) \/ ClientLeaves(r)
      PROVE  UNCHANGED <<hasCode, aborted, listening, closed>>
  BY <1>4 DEF AbortCaught, UpstreamStep, UpstreamAnswers, UpstreamEnds, UpstreamFails,
              ClientLeaves
<1>5. CASE UNCHANGED gatewayVars
  BY <1>5 DEF gatewayVars
<1>. QED  BY <1>1, <1>2, <1>3, <1>4, <1>5 DEF GatewayNext, NodeStep

(* The reviews that the browser's buttons ask for are aborted only if their  *)
(* client has gone; no early close event aborts them (AIServiceProxy lines   *)
(* 30 and 60).                                                               *)
THEOREM RoomReviewsRun == GatewaySpec => []ReviewsOfRoomRun
<1>1. GatewayInit => ListensLate
  BY DEF GatewayInit, ListensLate
<1>2. ListensLate => ReviewsOfRoomRun
  BY DEF ListensLate, ReviewsOfRoomRun
<1>. QED  BY <1>1, <1>2, GatewayTypeCorrect, ListensLateStep, PTL DEF GatewaySpec

-----------------------------------------------------------------------------
(* The handler returns only with its response ended or its call aborted, and *)
(* neither is ever undone.                                                   *)
LEMMA ReturnedStep ==
  ASSUME GatewayTypeOK, ReturnedMeansEnded, [GatewayNext]_gatewayVars
  PROVE  ReturnedMeansEnded'
<1>. USE DEF GatewayTypeOK, ReturnedMeansEnded, Return, EndResponse
<1>1. ASSUME NEW r \in Requests, HandleGenerateRequest(r)
      PROVE  ReturnedMeansEnded'
  BY <1>1 DEF HandleGenerateRequest, Generate, ResolveSession
<1>2. ASSUME NEW r \in Requests, RequestCloses(r)
      PROVE  ReturnedMeansEnded'
  BY <1>2 DEF RequestCloses
<1>3. ASSUME NEW r \in Requests, SessionResolved(r)
      PROVE  ReturnedMeansEnded'
  BY <1>3 DEF SessionResolved, Generate
<1>4. ASSUME NEW r \in Requests, AbortCaught(r)
      PROVE  ReturnedMeansEnded'
  BY <1>4 DEF AbortCaught
<1>5. ASSUME NEW r \in Requests, UpstreamAnswers(r)
      PROVE  ReturnedMeansEnded'
  BY <1>5 DEF UpstreamAnswers
<1>6. ASSUME NEW r \in Requests, UpstreamEnds(r) \/ UpstreamFails(r)
      PROVE  ReturnedMeansEnded'
  BY <1>6 DEF UpstreamEnds, UpstreamFails
<1>7. ASSUME NEW r \in Requests, ClientLeaves(r)
      PROVE  ReturnedMeansEnded'
  BY <1>7 DEF ClientLeaves
<1>8. CASE UNCHANGED gatewayVars
  BY <1>8 DEF gatewayVars
<1>. QED
  BY <1>1, <1>2, <1>3, <1>4, <1>5, <1>6, <1>7, <1>8
     DEF GatewayNext, NodeStep, UpstreamStep

(* A handler that has returned has ended its response, or its call was       *)
(* aborted, whichever way it returned.                                       *)
THEOREM HandlersEndResponses == GatewaySpec => []ReturnedMeansEnded
<1>1. GatewayInit => ReturnedMeansEnded
  BY DEF GatewayInit, ReturnedMeansEnded
<1>. QED  BY <1>1, GatewayTypeCorrect, ReturnedStep, PTL DEF GatewaySpec
=============================================================================
