------------------------------ MODULE RoomSync ------------------------------
(***************************************************************************)
(* One room on one backend node, seen as copies of a document that are     *)
(* brought together: the hook useYjs with its WebsocketProvider in every   *)
(* browser, the WebSocket connections, and RoomSession's half of the       *)
(* y-protocols handshake.                                                  *)
(*                                                                         *)
(* A document is the set of the edits it has received (Yjs documents merge *)
(* by union).  Sync Step 1 carries what its sender has; the answer, Step   *)
(* 2, carries what the sender of Step 1 lacks and is merged like any other *)
(* update.  A connection delivers in order until it closes, and what is    *)
(* under way then is lost.  The WebsocketProvider is external.             *)
(***************************************************************************)
EXTENDS Integers, Sequences, FiniteSets

CONSTANTS
  Browsers,  \* browser tabs, on different computers
  Sessions,  \* BOUND: RoomSession objects of the room at a time
  Edits,     \* document updates
  None       \* no session

ASSUME CopiesAssumption == Browsers \cap Sessions = {}
ASSUME NoneAssumption == None \notin Browsers \cup Sessions

VARIABLES
  status,      \* status[b]: the ConnectionStatus that useYjs shows
  text,        \* text[b]: the edits in the Y.Doc of browser b
  up,          \* up[b]: messages on their way from b to the server
  down,        \* down[b]: messages on their way from the server to b
  serving,     \* serving[b]: the session that b's connection waits for or has
  attached,    \* attached[b]: addClient ran and the message listener is on
  life,        \* life[s]: how far session s got
  doc,         \* doc[s]: the edits in the Y.Doc of session s
  registered,  \* RoomSessionManager.sessions.get(room), or None
  idleTimer,   \* idleTimer[s]: s.destroyTimeout is armed
  stored,      \* the edits of the room's newest snapshot
  typed,       \* history: the edits somebody made
  missed       \* history: missed[b]: b's Sync Step 1 met no listener

browserVars == <<status, text>>
wireVars == <<up, down, serving, attached, missed>>
sessionVars == <<life, doc, registered, idleTimer>>
syncVars == <<status, text, up, down, serving, attached, life, doc, registered,
              idleTimer, stored, typed, missed>>

-----------------------------------------------------------------------------
(* "reconnecting" after a connection was lost, until the provider's backoff  *)
(* is over; "disconnected" when no page shows the room.                      *)
ConnectionStatus == {"disconnected", "connecting", "connected", "reconnecting"}

(* A destroyed session goes on answering the sockets that are bound to it.   *)
Lives == {"unused", "hydrating", "ready", "destroyed"}

Message == [type : {"step1", "update"}, edits : SUBSET Edits]
Step1(es) == [type |-> "step1", edits |-> es]
Update(es) == [type |-> "update", edits |-> es]

(* The sockets session s would answer, and RoomSession.clients. *)
Bound(s) == {b \in Browsers : serving[b] = s /\ attached[b]}
Clients(s) == IF life[s] = "destroyed" THEN {} ELSE Bound(s)

SyncInit ==
  /\ status = [b \in Browsers |-> "disconnected"]
  /\ text = [b \in Browsers |-> {}]
  /\ up = [b \in Browsers |-> <<>>]
  /\ down = [b \in Browsers |-> <<>>]
  /\ serving = [b \in Browsers |-> None]
  /\ attached = [b \in Browsers |-> FALSE]
  /\ life = [s \in Sessions |-> "unused"]
  /\ doc = [s \in Sessions |-> {}]
  /\ registered = None
  /\ idleTimer = [s \in Sessions |-> FALSE]
  /\ stored \in SUBSET Edits
  /\ typed = stored
  /\ missed = [b \in Browsers |-> FALSE]

-----------------------------------------------------------------------------
(* The effect of useYjs: a new Y.Doc, and a provider that connects. *)
OpenRoom(b) ==
  /\ status[b] = "disconnected"
  /\ status' = [status EXCEPT ![b] = "connecting"]
  /\ UNCHANGED <<text, wireVars, sessionVars, stored, typed>>

(* A wrong version of AddClients: nobody is asked for anything. *)
AddClientsQuiet(s, W) ==
  /\ attached' = [b \in Browsers |-> attached[b] \/ b \in W]
  /\ idleTimer' = [idleTimer EXCEPT ![s] = W = {}]
  /\ UNCHANGED down

(* addClient, for the connections W: they are sent the session's Step 1.  A  *)
(* hydration whose connection is gone adds it all the same, and the          *)
(* heartbeat that removes it arms the eviction timer.                        *)
AddClients(s, W) ==
  /\ attached' = [b \in Browsers |-> attached[b] \/ b \in W]
  /\ idleTimer' = [idleTimer EXCEPT ![s] = W = {}]
  /\ down' = [b \in Browsers |-> IF b \in W THEN Append(down[b], Step1(doc'[s]))
                                            ELSE down[b]]

(* The provider's connection is accepted, and it sends Step 1.  The session  *)
(* that is registered takes it at once; with none, the connection handler    *)
(* makes one and awaits its hydration.                                       *)
Connect(b) ==
  /\ status[b] = "connecting"
  /\ status' = [status EXCEPT ![b] = "connected"]
  /\ up' = [up EXCEPT ![b] = <<Step1(text[b])>>]
  /\ missed' = [missed EXCEPT ![b] = FALSE]
  /\ UNCHANGED doc
  /\ \/ /\ registered # None
        /\ serving' = [serving EXCEPT ![b] = registered]
        /\ AddClients(registered, {b})
        /\ UNCHANGED life
     \/ \E s \in Sessions :
          /\ registered = None
          /\ life[s] = "unused"
          /\ life' = [life EXCEPT ![s] = "hydrating"]
          /\ serving' = [serving EXCEPT ![b] = s]
          /\ UNCHANGED <<attached, down, idleTimer>>
  /\ UNCHANGED <<text, registered, stored, typed>>

(* What becomes of the connection of b when it closes, on both sides: a     *)
(* session with no client left arms its eviction timer, a destroyed one too. *)
Disconnect(b) ==
  /\ up' = [up EXCEPT ![b] = <<>>]
  /\ down' = [down EXCEPT ![b] = <<>>]
  /\ serving' = [serving EXCEPT ![b] = None]
  /\ attached' = [attached EXCEPT ![b] = FALSE]
  /\ idleTimer' = [s \in Sessions |->
                     idleTimer[s] \/ (b \in Bound(s) /\ Clients(s) \subseteq {b})]
  /\ UNCHANGED <<missed, life, doc, registered, stored>>

(* The network, the client or the heartbeat ends a connection. *)
ConnectionLost(b) ==
  /\ status[b] = "connected"
  /\ status' = [status EXCEPT ![b] = "reconnecting"]
  /\ Disconnect(b)
  /\ UNCHANGED <<text, typed>>

(* The provider's backoff is over. *)
Reconnect(b) ==
  /\ status[b] = "reconnecting"
  /\ status' = [status EXCEPT ![b] = "connecting"]
  /\ UNCHANGED <<text, wireVars, sessionVars, stored, typed>>

(* The cleanup of the effect destroys the provider and the Y.Doc. *)
LeaveRoom(b) ==
  /\ status[b] # "disconnected"
  /\ status' = [status EXCEPT ![b] = "disconnected"]
  /\ text' = [text EXCEPT ![b] = {}]
  /\ Disconnect(b)
  /\ UNCHANGED typed

(* The user of b types.  The provider sends the update if it is connected.   *)
Type(b, e) ==
  /\ status[b] # "disconnected"
  /\ e \notin typed
  /\ typed' = typed \cup {e}
  /\ text' = [text EXCEPT ![b] = @ \cup {e}]
  /\ up' = [up EXCEPT ![b] = IF status[b] = "connected"
                               THEN Append(@, Update({e})) ELSE @]
  /\ UNCHANGED <<status, down, serving, attached, missed, sessionVars, stored>>

(* The provider reads a message: Step 1 is answered, the rest is merged. *)
BrowserReads(b) ==
  /\ down[b] # <<>>
  /\ down' = [down EXCEPT ![b] = Tail(@)]
  /\ LET m == Head(down[b])
     IN IF m.type = "step1"
          THEN /\ up' = [up EXCEPT ![b] = Append(@, Update(text[b] \ m.edits))]
               /\ UNCHANGED text
          ELSE /\ text' = [text EXCEPT ![b] = @ \cup m.edits]
               /\ UNCHANGED up
  /\ UNCHANGED <<status, serving, attached, missed, sessionVars, stored, typed>>

-----------------------------------------------------------------------------
(* A wrong version of Broadcast: what comes from another node goes no        *)
(* further.                                                                  *)
BroadcastLocal(s, es, sender) ==
  [b \in Browsers |-> IF sender # None /\ b \in Clients(s) \ {sender}
                        THEN Append(down[b], Update(es)) ELSE down[b]]

(* broadcast: the update goes to the clients of s but the one it is from. *)
Broadcast(s, es, sender) ==
  [b \in Browsers |-> IF b \in Clients(s) \ {sender}
                        THEN Append(down[b], Update(es)) ELSE down[b]]

(* Session s merges es; when something is new, its update listener, which a  *)
(* destroyed document has no more, broadcasts that.                          *)
ApplyUpdate(s, es, sender) ==
  /\ doc' = [doc EXCEPT ![s] = @ \cup es]
  /\ down' = IF es \subseteq doc[s] THEN down ELSE Broadcast(s, es \ doc[s], sender)

(* handleMessage: Step 1 is answered, the rest is applied. *)
HandleMessage(s, b, m) ==
  IF m.type = "step1"
    THEN /\ down' = [down EXCEPT ![b] = Append(@, Update(doc[s] \ m.edits))]
         /\ UNCHANGED doc
    ELSE ApplyUpdate(s, m.edits, b)

(* A message arrives at the server.  While the connection handler awaits the *)
(* session it has no listener, and is lost.                                  *)
ServerReads(b) ==
  /\ up[b] # <<>>
  /\ up' = [up EXCEPT ![b] = Tail(@)]
  /\ IF attached[b]
       THEN /\ HandleMessage(serving[b], b, Head(up[b]))
            /\ UNCHANGED missed
       ELSE /\ missed' = [missed EXCEPT ![b] = @ \/ Head(up[b]).type = "step1"]
            /\ UNCHANGED <<doc, down>>
  /\ UNCHANGED <<status, text, serving, attached, life, registered, idleTimer,
                 stored, typed>>

(* An edit from another node reaches session s over Redis. *)
RemoteUpdate(s, e) ==
  /\ life[s] \in {"hydrating", "ready"}
  /\ e \notin doc[s]
  /\ typed' = typed \cup {e}
  /\ ApplyUpdate(s, {e}, None)
  /\ UNCHANGED <<status, text, up, serving, attached, missed, life, registered,
                 idleTimer, stored>>

(* Wrong versions of Hydrated: the snapshot takes the place of what the      *)
(* session received meanwhile; the row is inserted, not what it holds.       *)
HydratedOver(s, found) == found
HydratedRow(s, found) == doc[s] \cup {found}

(* applyUpdate on the document of a session that other nodes may have        *)
(* reached already.                                                          *)
Hydrated(s, found) == doc[s] \cup found

(* The hydration of s is over, with the snapshot or, if the query failed,    *)
(* without: s is registered, whatever is registered, and the connection that *)
(* waited for it is added.                                                   *)
HydrateDone(s) ==
  /\ life[s] = "hydrating"
  /\ life' = [life EXCEPT ![s] = "ready"]
  /\ \E found \in {stored, {}} : doc' = [doc EXCEPT ![s] = Hydrated(s, found)]
  /\ registered' = s
  /\ AddClients(s, {b \in Browsers : serving[b] = s /\ ~attached[b]})
  /\ UNCHANGED <<status, text, up, serving, missed, stored, typed>>

(* The eviction timer of s fires: whatever is registered is destroyed.       *)
IdleTimerFires(s) ==
  /\ idleTimer[s]
  /\ IF registered = None
       THEN /\ idleTimer' = [idleTimer EXCEPT ![s] = FALSE]
            /\ UNCHANGED life
       ELSE /\ idleTimer' = [idleTimer EXCEPT ![s] = FALSE, ![registered] = FALSE]
            /\ life' = [life EXCEPT ![registered] = "destroyed"]
  /\ registered' = None
  /\ UNCHANGED <<browserVars, wireVars, doc, stored, typed>>

(* BOUND: a destroyed session that nothing refers to is garbage. *)
Collect(s) ==
  /\ life[s] = "destroyed"
  /\ ~idleTimer[s]
  /\ \A b \in Browsers : serving[b] # s
  /\ life' = [life EXCEPT ![s] = "unused"]
  /\ doc' = [doc EXCEPT ![s] = {}]
  /\ UNCHANGED <<browserVars, wireVars, registered, idleTimer, stored, typed>>

(* A save lands, of a live session or of one that is gone (RoomPersistence). *)
SnapshotSaved(s) ==
  /\ life[s] # "unused"
  /\ stored' = doc[s]
  /\ UNCHANGED <<browserVars, wireVars, sessionVars, typed>>

(* The process dies and comes back. *)
ServerRestart ==
  /\ status' = [b \in Browsers |-> IF status[b] = "connected"
                                     THEN "reconnecting" ELSE status[b]]
  /\ up' = [b \in Browsers |-> <<>>]
  /\ down' = [b \in Browsers |-> <<>>]
  /\ serving' = [b \in Browsers |-> None]
  /\ attached' = [b \in Browsers |-> FALSE]
  /\ life' = [s \in Sessions |-> "unused"]
  /\ doc' = [s \in Sessions |-> {}]
  /\ registered' = None
  /\ idleTimer' = [s \in Sessions |-> FALSE]
  /\ UNCHANGED <<text, missed, stored, typed>>

SyncNext ==
  \/ \E b \in Browsers : OpenRoom(b)
  \/ \E b \in Browsers : Connect(b)
  \/ \E b \in Browsers : ConnectionLost(b)
  \/ \E b \in Browsers : Reconnect(b)
  \/ \E b \in Browsers : LeaveRoom(b)
  \/ \E b \in Browsers, e \in Edits : Type(b, e)
  \/ \E b \in Browsers : BrowserReads(b)
  \/ \E b \in Browsers : ServerReads(b)
  \/ \E s \in Sessions, e \in Edits : RemoteUpdate(s, e)
  \/ \E s \in Sessions : HydrateDone(s)
  \/ \E s \in Sessions : IdleTimerFires(s)
  \/ \E s \in Sessions : Collect(s)
  \/ \E s \in Sessions : SnapshotSaved(s)
  \/ ServerRestart

SyncSpec == SyncInit /\ [][SyncNext]_syncVars

(* Connections deliver, and awaited queries return or throw.  Nobody has to  *)
(* connect, type or stay.                                                    *)
SyncFairness ==
  /\ \A b \in Browsers : WF_syncVars(BrowserReads(b)) /\ WF_syncVars(ServerReads(b))
  /\ \A s \in Sessions : WF_syncVars(HydrateDone(s))

FairSyncSpec == SyncSpec /\ SyncFairness

-----------------------------------------------------------------------------
SyncTypeOK ==
  /\ status \in [Browsers -> ConnectionStatus]
  /\ text \in [Browsers -> SUBSET Edits]
  /\ up \in [Browsers -> Seq(Message)]
  /\ down \in [Browsers -> Seq(Message)]
  /\ serving \in [Browsers -> Sessions \cup {None}]
  /\ attached \in [Browsers -> BOOLEAN]
  /\ life \in [Sessions -> Lives]
  /\ doc \in [Sessions -> SUBSET Edits]
  /\ registered \in Sessions \cup {None}
  /\ idleTimer \in [Sessions -> BOOLEAN]
  /\ stored \in SUBSET Edits
  /\ typed \in SUBSET Edits
  /\ missed \in [Browsers -> BOOLEAN]

(* Nothing is under way between b and the session that serves it. *)
AtRest(b) == attached[b] /\ up[b] = <<>> /\ down[b] = <<>>

(* Whatever was typed while the connection was being made, was down or       *)
(* waited for the hydration, a browser at rest has given its session         *)
(* everything it has: addClient's Step 1 asks for it ("Send initial Yjs Sync *)
(* Step 1 to new client", RoomSession line 155), and it is sent only when    *)
(* messages are heard.                                                       *)
ServerHasAll ==
  \A b \in Browsers : AtRest(b) => text[b] \subseteq doc[serving[b]]

(* The other direction holds of a browser whose own Step 1 was heard, as     *)
(* long as its session is not destroyed under it: no interleaving of         *)
(* broadcasts, handshakes, hydration and reconnection leaves a gap.          *)
BrowserHasAllUnlessMissed ==
  \A b \in Browsers :
    AtRest(b) /\ ~missed[b] /\ life[serving[b]] # "destroyed"
      => doc[serving[b]] \subseteq text[b]

(* "document state convergence" (docs/ARCHITECTURE.md line 44): a browser at *)
(* rest with the room's live session shows what the session has.             *)
BrowserHasAll ==
  \A b \in Browsers :
    AtRest(b) /\ life[serving[b]] = "ready" => doc[serving[b]] \subseteq text[b]

(* "Lock-free multi-client editing with eventual consistency" (README.md     *)
(* line 26): when everybody is at rest and was heard, everybody sees the     *)
(* same.                                                                     *)
PeersAgree ==
  (\A b \in Browsers : AtRest(b) /\ ~missed[b])
    => \A a, b \in Browsers : text[a] = text[b]

(* An edit of a browser, typed before, during or after its connection was    *)
(* made, gets to everybody whom its session serves and has heard, as long as *)
(* the two stay and the session is not destroyed.                            *)
EditsReachPeers ==
  \A a, b \in Browsers, e \in Edits :
    e \in text[a] /\ attached[a] /\ attached[b] /\ serving[a] = serving[b] /\ ~missed[b]
      ~> \/ e \in text[b]
         \/ ~attached[a] \/ ~attached[b] \/ serving[a] # serving[b]
         \/ life[serving[a]] = "destroyed"

(* All copies of the room's document. *)
Copies == [r \in Browsers \cup Sessions |-> IF r \in Browsers THEN text[r] ELSE doc[r]]

CopiesInUse ==
  {b \in Browsers : status[b] # "disconnected"} \cup {s \in Sessions : life[s] # "unused"}

Document == INSTANCE SharedDocument
              WITH Replicas <- Browsers \cup Sessions, copy <- Copies,
                   inUse <- CopiesInUse, written <- typed

(* Browsers and sessions make up one shared document: edits come from users  *)
(* only, and a copy in use loses none to a merge, a handshake, a             *)
(* reconnection or a late hydration.                                         *)
SharedDocumentSpec == Document!Spec
=============================================================================
