----------------------------- MODULE RoomServer -----------------------------
(***************************************************************************)
(* The life of one room on one backend node: RoomSessionManager's registry *)
(* and its asynchronous creation of sessions, RoomSession's clients and    *)
(* idle eviction timer, and the WebSocket gateway with its heartbeat, on   *)
(* top of the timers and writes of RoomPersistence.                        *)
(*                                                                         *)
(* Node runs one callback at a time, so a callback up to its next await is *)
(* one action.  getOrCreateSessionAsync awaits two database queries before *)
(* it registers the session it made; everything else may run in between.   *)
(***************************************************************************)
EXTENDS RoomPersistence

CONSTANTS
  Sockets,         \* BOUND: WebSocket connections to the room at a time
  HydrateCanFail   \* BOOLEAN: may the query of hydrateRoomState throw?

ASSUME HydrateCanFailAssumption == HydrateCanFail \in BOOLEAN

VARIABLES
  registered,      \* RoomSessionManager.sessions.get(room), or None
  status,          \* status[s]: how far getOrCreateSessionAsync got with s
  fetched,         \* fetched[s]: the snapshot the hydration of s was given
  sock,            \* sock[w]: a connection, from the upgrade to its removal
  clients,         \* clients[s]: RoomSession.clients
  idleTimer        \* idleTimer[s]: s.destroyTimeout is armed

serverVars == <<registered, status, fetched, sock, clients, idleTimer>>
vars == <<persistVars, serverVars>>

-----------------------------------------------------------------------------
(* A session object that does not exist yet is "unused"; hydrateRoomState    *)
(* awaits its queries ("hydrating"), has its answer ("fetched"), is done.    *)
Statuses == {"unused", "hydrating", "fetched", "ready"}

(* link: what the socket is; "closing" after an error or terminate(), until  *)
(* its close event; "closed" is a closed socket a session still refers to.   *)
(* attached: addClient ran and the message, close and error listeners are    *)
(* on; before that the connection handler awaits its session.                *)
Connection == [link : {"unused", "open", "closing", "closed"},
               attached : BOOLEAN, isAlive : BOOLEAN,
               session : Sessions \cup {None}]

NoConnection == [link |-> "unused", attached |-> FALSE, isAlive |-> FALSE,
                 session |-> None]

Opened(s, attached) == [link |-> "open", attached |-> attached,
                        isAlive |-> TRUE, session |-> s]

ServerInit ==
  /\ PersistInit
  /\ registered = None
  /\ status = [s \in Sessions |-> "unused"]
  /\ fetched = [s \in Sessions |-> {}]
  /\ sock = [w \in Sockets |-> NoConnection]
  /\ clients = [s \in Sessions |-> {}]
  /\ idleTimer = [s \in Sessions |-> FALSE]

-----------------------------------------------------------------------------
(* getOrCreateSessionAsync finds nothing registered: a new RoomSession, and  *)
(* its hydration is asked for.                                               *)
CreateSession(s) ==
  /\ registered = None
  /\ status[s] = "unused"
  /\ status' = [status EXCEPT ![s] = "hydrating"]

(* A wrong version of AddClients: a pending eviction is not cancelled. *)
AddClientsIdle(s, W) ==
  /\ clients' = [clients EXCEPT ![s] = @ \cup W]
  /\ UNCHANGED idleTimer

(* RoomSession.addClient, for the sockets W. *)
AddClients(s, W) ==
  /\ clients' = [clients EXCEPT ![s] = @ \cup W]
  /\ idleTimer' = [idleTimer EXCEPT ![s] = IF W = {} THEN @ ELSE FALSE]

(* A wrong version of RemoveClients: eviction is armed with the flush only,  *)
(* so that a session with nothing to save is never evicted.                  *)
RemoveClientsClean(s, W) ==
  /\ clients' = [clients EXCEPT ![s] = @ \ W]
  /\ IF clients[s] \subseteq W /\ isDirty[s]
       THEN /\ FlushPendingSave(s)
            /\ idleTimer' = [idleTimer EXCEPT ![s] = TRUE]
       ELSE UNCHANGED <<persistVars, idleTimer>>

(* RoomSession.removeClient, for each of the sockets W: once nobody is left, *)
(* pending edits are flushed and the eviction timer is armed, whatever       *)
(* became of the session meanwhile.                                          *)
RemoveClients(s, W) ==
  /\ clients' = [clients EXCEPT ![s] = @ \ W]
  /\ IF clients[s] \subseteq W
       THEN /\ FlushPendingSave(s)
            /\ idleTimer' = [idleTimer EXCEPT ![s] = TRUE]
       ELSE UNCHANGED <<persistVars, idleTimer>>

(* A connection for the room: the registered session takes it at once; with  *)
(* none, the handler makes a session and awaits its hydration.               *)
Connect(w) ==
  /\ sock[w].link = "unused"
  /\ \/ /\ registered # None
        /\ AddClients(registered, {w})
        /\ sock' = [sock EXCEPT ![w] = Opened(registered, TRUE)]
        /\ UNCHANGED status
     \/ \E s \in Sessions :
          /\ CreateSession(s)
          /\ sock' = [sock EXCEPT ![w] = Opened(s, FALSE)]
          /\ UNCHANGED <<clients, idleTimer>>
  /\ UNCHANGED <<persistVars, registered, fetched>>

(* handleGenerateRequest without code asks for the session of the room, too. *)
ReviewRequest ==
  /\ \E s \in Sessions : CreateSession(s)
  /\ UNCHANGED <<persistVars, registered, fetched, sock, clients, idleTimer>>

(* The queries of getLatestSnapshot are answered, or fail: hydrateRoomState  *)
(* swallows the exception and goes on with an empty document.                *)
HydrateReads(s) ==
  /\ status[s] = "hydrating"
  /\ status' = [status EXCEPT ![s] = "fetched"]
  /\ \E found \in {snapshot} \cup (IF HydrateCanFail THEN {{}} ELSE {}) :
       fetched' = [fetched EXCEPT ![s] = found]
  /\ UNCHANGED <<persistVars, registered, sock, clients, idleTimer>>

(* A wrong version of HydrateDone: the update listener is not on yet when    *)
(* the snapshot is applied.                                                  *)
HydrateDoneSilent(s) ==
  /\ status[s] = "fetched"
  /\ status' = [status EXCEPT ![s] = "ready"]
  /\ doc' = [doc EXCEPT ![s] = @ \cup fetched[s]]
  /\ registered' = s
  /\ UNCHANGED <<destroyed, isDirty, pendingDebounce, pendingRetry, chain, snapshot,
                 exposed, fetched, sock, clients, idleTimer>>

(* The hydration resumes: it applies the snapshot (an update like any other, *)
(* so it marks the session dirty), registers the session OVER whatever is    *)
(* registered, and the connection that waited for it is added, even if it    *)
(* has closed since.                                                         *)
HydrateDone(s) ==
  LET waiting == {w \in Sockets : sock[w].session = s /\ ~sock[w].attached}
  IN /\ status[s] = "fetched"
     /\ status' = [status EXCEPT ![s] = "ready"]
     /\ \/ ApplyUpdate(s, fetched[s])
        \/ fetched[s] \subseteq doc[s] /\ UNCHANGED persistVars
     /\ registered' = s
     /\ AddClients(s, waiting)
     /\ sock' = [w \in Sockets |-> IF w \in waiting
                                    THEN [sock[w] EXCEPT !.attached = TRUE]
                                    ELSE sock[w]]
     /\ UNCHANGED fetched

(* A binary message from w: only an attached socket has a message listener. *)
Edit(w, e) ==
  /\ sock[w].link = "open" /\ sock[w].attached
  /\ ApplyUpdate(sock[w].session, {e})
  /\ UNCHANGED serverVars

(* The error event: removeClient runs, the close event is still to come. *)
SocketError(w) ==
  /\ sock[w].link = "open" /\ sock[w].attached
  /\ RemoveClients(sock[w].session, {w})
  /\ sock' = [sock EXCEPT ![w].link = "closing"]
  /\ UNCHANGED <<registered, status, fetched>>

(* The close event of a socket that has no listener yet goes unnoticed. *)
SocketCloses(w) ==
  /\ sock[w].link \in {"open", "closing"}
  /\ \/ /\ sock[w].attached
        /\ RemoveClients(sock[w].session, {w})
        /\ sock' = [sock EXCEPT ![w] = NoConnection]
     \/ /\ ~sock[w].attached
        /\ sock' = [sock EXCEPT ![w].link = "closed"]
        /\ UNCHANGED <<persistVars, clients, idleTimer>>
  /\ UNCHANGED <<registered, status, fetched>>

Pong(w) ==
  /\ sock[w].link = "open"
  /\ sock' = [sock EXCEPT ![w].isAlive = TRUE]
  /\ UNCHANGED <<persistVars, registered, status, fetched, clients, idleTimer>>

(* A wrong version of ToReap: sockets that closed are skipped, as broadcast  *)
(* does.                                                                     *)
ToReapOpen == {w \in clients[registered] : ~sock[w].isAlive /\ sock[w].link = "open"}

(* The clients that did not answer the last ping. *)
ToReap == {w \in clients[registered] : ~sock[w].isAlive}

(* A wrong version of Terminated: the connection stays up. *)
TerminatedNot(w) == sock[w]

(* client.terminate(): a socket that is closed already has no close event    *)
(* left, the others get theirs.                                              *)
Terminated(w) ==
  IF sock[w].link = "closed" THEN NoConnection ELSE [sock[w] EXCEPT !.link = "closing"]

(* One pass of the heartbeat over the registered session: clients that did   *)
(* not answer the last ping are removed and terminated, the others are       *)
(* pinged.                                                                   *)
Heartbeat ==
  /\ registered # None
  /\ clients[registered] # {}
  /\ IF ToReap = {} THEN UNCHANGED <<persistVars, clients, idleTimer>>
                    ELSE RemoveClients(registered, ToReap)
  /\ sock' = [w \in Sockets |->
                CASE w \in ToReap -> Terminated(w)
                  [] w \in clients[registered] \ ToReap -> [sock[w] EXCEPT !.isAlive = FALSE]
                  [] OTHER -> sock[w]]
  /\ UNCHANGED <<registered, status, fetched>>

(* A wrong version of IdleTimerFires: the evicted session stays registered.  *)
IdleTimerFiresKeeps(s) ==
  /\ idleTimer[s]
  /\ registered # None
  /\ DestroyDoc(registered)
  /\ clients' = [clients EXCEPT ![registered] = {}]
  /\ idleTimer' = [idleTimer EXCEPT ![s] = FALSE, ![registered] = FALSE]
  /\ UNCHANGED <<registered, status, fetched, sock>>

(* The eviction timer of s fires: onIdleEvict removes and destroys whatever  *)
(* session is registered for the ROOM.                                       *)
IdleTimerFires(s) ==
  /\ idleTimer[s]
  /\ IF registered = None
       THEN /\ idleTimer' = [idleTimer EXCEPT ![s] = FALSE]
            /\ UNCHANGED <<persistVars, clients, registered>>
       ELSE /\ DestroyDoc(registered)
            /\ clients' = [clients EXCEPT ![registered] = {}]
            /\ idleTimer' = [idleTimer EXCEPT ![s] = FALSE, ![registered] = FALSE]
            /\ registered' = None
  /\ UNCHANGED <<status, fetched, sock>>

(* The process dies, its connections with it. *)
ServerRestart ==
  /\ Restart
  /\ registered' = None
  /\ status' = [s \in Sessions |-> "unused"]
  /\ fetched' = [s \in Sessions |-> {}]
  /\ sock' = [w \in Sockets |-> NoConnection]
  /\ clients' = [s \in Sessions |-> {}]
  /\ idleTimer' = [s \in Sessions |-> FALSE]

SaveDebounced(s) == DebounceFires(s) /\ UNCHANGED serverVars
SaveStep(c) == ChainStep(c) /\ UNCHANGED serverVars

ServerNext ==
  \/ \E w \in Sockets : Connect(w)
  \/ ReviewRequest
  \/ \E s \in Sessions : HydrateReads(s)
  \/ \E s \in Sessions : HydrateDone(s)
  \/ \E w \in Sockets, e \in Edits : Edit(w, e)
  \/ \E w \in Sockets : SocketError(w)
  \/ \E w \in Sockets : SocketCloses(w)
  \/ \E w \in Sockets : Pong(w)
  \/ Heartbeat
  \/ \E s \in Sessions : IdleTimerFires(s)
  \/ \E s \in Sessions : SaveDebounced(s)
  \/ \E c \in Chains : SaveStep(c)
  \/ ServerRestart

(* Timers fire, awaited queries return or throw, and a socket that is being  *)
(* closed gets its close event.  Nothing is assumed of the clients.          *)
ServerFairness ==
  /\ WF_vars(Heartbeat)
  /\ \A s \in Sessions : /\ WF_vars(HydrateReads(s))
                         /\ WF_vars(HydrateDone(s))
                         /\ WF_vars(IdleTimerFires(s))
                         /\ WF_vars(SaveDebounced(s))
  /\ \A c \in Chains : WF_vars(SaveStep(c))
  /\ \A w \in Sockets : WF_vars(sock[w].link = "closing" /\ SocketCloses(w))

ServerSpec == ServerInit /\ [][ServerNext]_vars
FairServerSpec == ServerSpec /\ ServerFairness

-----------------------------------------------------------------------------
ServerTypeOK ==
  /\ TypeOK
  /\ registered \in Sessions \cup {None}
  /\ status \in [Sessions -> Statuses]
  /\ fetched \in [Sessions -> SUBSET Edits]
  /\ sock \in [Sockets -> Connection]
  /\ clients \in [Sessions -> SUBSET Sockets]
  /\ idleTimer \in [Sessions -> BOOLEAN]
  /\ \A w \in Sockets : sock[w].link # "unused" => sock[w].session \in Sessions

(* The clients of a session and the sockets bound to it agree: a session     *)
(* broadcasts to every open socket whose edits it accepts, until it is       *)
(* destroyed, and to no socket that belongs to another session.  Close,      *)
(* error, heartbeat and hydration all edit both sides.                       *)
MembershipAgrees ==
  /\ \A w \in Sockets :
       sock[w].link = "open" /\ sock[w].attached
         => w \in clients[sock[w].session] \/ destroyed[sock[w].session]
  /\ \A s \in Sessions : \A w \in clients[s] :
       sock[w].session = s /\ sock[w].attached

(* An armed eviction timer means that its own session has no client          *)
(* ("Cancel idle destroy timeout if room was idling", RoomSession line 146). *)
IdleTimerMeansEmpty ==
  \A s \in Sessions : idleTimer[s] => clients[s] = {}

(* The registry never hands out a session that is destroyed or that has not  *)
(* finished hydrating.                                                       *)
RegisteredIsUsable ==
  registered # None => Live(registered) /\ status[registered] = "ready"

(* A session is destroyed under its clients only by the timer of ANOTHER     *)
(* session object of the same room.                                          *)
BusyEvictionIsForeign ==
  [][\A s \in Sessions :
       Live(s) /\ ~Live(s)' /\ clients[s] # {}
         => \E r \in Sessions \ {s} : idleTimer[r] /\ ~idleTimer'[r]]_vars

(* A client that closed while it waited for its session, and whose close     *)
(* event nobody heard, leaves the registered session in the end.             *)
GhostsReaped ==
  \A w \in Sockets, s \in Sessions :
    w \in clients[s] /\ sock[w].link = "closed" /\ registered = s
      ~> w \notin clients[s] \/ registered # s

(* A room everybody left is evicted in the end, however its sockets went     *)
(* away, unless somebody connects: heartbeat, disconnect flush and eviction  *)
(* timer hand over to each other.                                            *)
AbandonedRoomEvicted ==
  \A s \in Sessions :
    registered = s /\ (clients[s] # {} \/ idleTimer[s])
      ~> registered # s \/ \E w \in Sockets : sock[w].link = "open"

(* "If last client disconnected, flush pending save immediately and schedule *)
(* 60s idle eviction" (RoomSession line 187): only a room without clients is *)
(* evicted.                                                                  *)
EvictsOnlyIdle ==
  [][\A s \in Sessions : Live(s) /\ ~Live(s)' => clients[s] = {}]_vars

(* "Room remains dirty in memory for next save attempt"                      *)
(* (RoomPersistenceService line 151): a dirty session is not thrown away     *)
(* when no timer and no write is left that will save it.                     *)
DirtyRoomRemains ==
  [][\A s \in Sessions : isDirty[s] /\ Live(s) /\ ~Live(s)' => Covered(s)]_vars

(* "Unsubscribe from Redis channels when 0 local clients remain or room is   *)
(* evicted" (RedisPubSubService line 163): a registered session without      *)
(* clients, which keeps its room subscribed, gets a client or is evicted.    *)
EmptyRoomReleased ==
  \A s \in Sessions :
    registered = s /\ clients[s] = {} ~> registered # s \/ clients[s] # {}
=============================================================================
