---------------------------- MODULE RoomPresence ----------------------------
(***************************************************************************)
(* Who is in a room: the awareness states (name, color, cursor) that the   *)
(* pages of the room, through useYjs and its WebsocketProvider, and the    *)
(* sessions of the backend nodes, through RoomSession and Redis, keep of   *)
(* one another.                                                            *)
(*                                                                         *)
(* y-protocols and y-websocket are external.  A state carries the clock of *)
(* its own client.  A replica applies a state that is newer than what it   *)
(* knows, or the removal of what it shows; it remembers the clock of what  *)
(* was removed.  A client that hears of its own removal asserts itself     *)
(* with the next clock, and so it does every 15 seconds; a state that was  *)
(* not renewed for 30 seconds is removed.  A provider sends on whatever    *)
(* changed, and when its connection closes it removes all states but its   *)
(* own.  The sessions' own states, which stay empty and are listed         *)
(* nowhere, are left out.                                                  *)
(***************************************************************************)
EXTENDS Integers, Sequences

CONSTANTS
  Clients,    \* client ids: one for each Y.Doc, so one for each page opened
  Nodes,      \* backend nodes, each with one session of the room at a time
  Sockets,    \* BOUND: connections that the nodes know of at a time
  FaultKinds, \* what may be lost: of "connection", "message" and "session"
  MaxFaults,  \* BOUND: how often
  None        \* no connection; no sender

ASSUME ReplicasAssumption == Clients \cap Nodes = {}
ASSUME NoneAssumption == None \notin Clients \cup Nodes \cup Sockets
ASSUME MaxFaultsAssumption == MaxFaults \in Nat

VARIABLES
  page,    \* page[c]: the page with client id c is "new", "open" or "left"
  link,    \* link[c]: the connection of c's provider, or None
  sock,    \* sock[w]: what a node knows of connection w
  ids,     \* ids[w]: clientAwarenessIDs, the clients whose states came by w
  ready,   \* ready[n]: the session of node n is hydrated
  shown,   \* shown[r]: the clients whose state replica r has
  clock,   \* clock[r][c]: the latest clock of c that r knows, 0 if none
  up,      \* up[w]: updates on their way from the client to the node
  down,    \* down[w]: updates on their way from the node to the client
  relay,   \* relay[n]: updates on their way from Redis to node n
  faults,  \* BOUND: faults so far
  relayed  \* history: relayed[n]: the clients that n was told of by Redis

presenceVars == <<page, link, sock, ids, ready, shown, clock, up, down, relay,
                  faults, relayed>>

-----------------------------------------------------------------------------
Replicas == Clients \cup Nodes

NoConnection == [client |-> None, node |-> None, attached |-> FALSE]

Connection == [client : Clients, node : Nodes, attached : BOOLEAN] \cup {NoConnection}

Entry == [client : Clients, clock : Nat, present : BOOLEAN]

(* RoomSession.clients of the session of node n. *)
Attached(n) == {w \in Sockets : sock[w].node = n /\ sock[w].attached}

PresenceInit ==
  /\ page = [c \in Clients |-> "new"]
  /\ link = [c \in Clients |-> None]
  /\ sock = [w \in Sockets |-> NoConnection]
  /\ ids = [w \in Sockets |-> {}]
  /\ ready = [n \in Nodes |-> FALSE]
  /\ shown = [r \in Replicas |-> {}]
  /\ clock = [r \in Replicas |-> [c \in Clients |-> 0]]
  /\ up = [w \in Sockets |-> <<>>]
  /\ down = [w \in Sockets |-> <<>>]
  /\ relay = [n \in Nodes |-> <<>>]
  /\ faults = 0
  /\ relayed = [n \in Nodes |-> {}]

-----------------------------------------------------------------------------
(* encodeAwarenessUpdate, of what replica r knows after the step. *)
Encoded(r, cs) ==
  {[client |-> c, clock |-> clock'[r][c], present |-> c \in shown'[r]] : c \in cs}

(* The entries of update u that replica r applies. *)
Applied(r, u) ==
  {m \in u : \/ clock[r][m.client] < m.clock
             \/ /\ clock[r][m.client] = m.clock
                /\ ~m.present
                /\ m.client \in shown[r]}

OwnRemoval(r, m) == m.client = r /\ ~m.present /\ r \in shown[r]

(* applyAwarenessUpdate, at replica r. *)
ApplyAwarenessUpdate(r, u) ==
  LET news == Applied(r, u)
  IN /\ clock' = [clock EXCEPT ![r] =
          [c \in Clients |-> IF \E m \in news : m.client = c
             THEN LET m == CHOOSE m \in news : m.client = c
                  IN IF OwnRemoval(r, m) THEN m.clock + 1 ELSE m.clock
             ELSE @[c]]]
     /\ shown' = [shown EXCEPT ![r] =
          (@ \ {m.client : m \in {x \in news : ~x.present /\ ~OwnRemoval(r, x)}})
             \cup {m.client : m \in {x \in news : x.present}}]

(* The clients that its update event names: not those that were unknown and  *)
(* are removed.                                                              *)
Changed(r, u) ==
  {m.client : m \in {x \in Applied(r, u) : x.present \/ clock[r][x.client] > 0}}

(* A provider sends to the node it is connected to. *)
Send(c, u) ==
  up' = IF link[c] = None \/ u = {} THEN up
        ELSE [up EXCEPT ![link[c]] = Append(@, u)]

(* publishAwareness: every other node is sent u, but those that Redis or the *)
(* status of the connection keeps it from.                                   *)
PublishAwareness(n, u) ==
  \E reached \in SUBSET (Nodes \ {n}) :
    /\ relay' = [m \in Nodes |-> IF m \in reached THEN Append(relay[m], u) ELSE relay[m]]
    /\ reached = Nodes \ {n} \/ "message" \in FaultKinds
    /\ faults' = IF reached = Nodes \ {n} THEN faults ELSE faults + 1
    /\ faults' <= MaxFaults

(* broadcast, to the sockets ws; one whose client is gone takes it nowhere.  *)
Broadcast(ws, u) ==
  down' = [w \in Sockets |-> IF w \in ws /\ link[sock[w].client] = w /\ u # {}
                               THEN Append(down[w], u) ELSE down[w]]

(* A wrong version of AwarenessUpdated: only who is there is told.           *)
AwarenessUpdatedShown(n, cs, sender) ==
  IF cs \cap shown'[n] = {}
    THEN UNCHANGED <<down, relay, faults>>
    ELSE /\ Broadcast(Attached(n) \ {sender}, Encoded(n, cs \cap shown'[n]))
         /\ PublishAwareness(n, Encoded(n, cs \cap shown'[n]))

(* The update event of the session of n, for the clients cs: everybody but   *)
(* the sender is told, and so are the other nodes.                           *)
AwarenessUpdated(n, cs, sender) ==
  IF cs = {}
    THEN UNCHANGED <<down, relay, faults>>
    ELSE /\ Broadcast(Attached(n) \ {sender}, Encoded(n, cs))
         /\ PublishAwareness(n, Encoded(n, cs))

-----------------------------------------------------------------------------
(* useYjs makes a Y.Doc and its provider.  The awareness starts with an      *)
(* empty state at clock 0, which nobody else applies.                        *)
OpenPage(c) ==
  /\ page[c] = "new"
  /\ page' = [page EXCEPT ![c] = "open"]
  /\ shown' = [shown EXCEPT ![c] = {c}]
  /\ UNCHANGED <<link, sock, ids, ready, clock, up, down, relay, faults, relayed>>

(* setLocalState and setLocalStateField: the next clock, for everybody. *)
SetLocalState(c) ==
  /\ clock' = [clock EXCEPT ![c][c] = @ + 1]
  /\ Send(c, {[client |-> c, clock |-> clock[c][c] + 1, present |-> TRUE]})
  /\ UNCHANGED <<page, link, sock, ids, ready, shown, down, relay, faults, relayed>>

(* The effect that sets name and color once the provider is there. *)
SetUser(c) ==
  /\ page[c] = "open"
  /\ clock[c][c] = 0
  /\ SetLocalState(c)

(* Nothing on its way says that c is there. *)
Unannounced(c) ==
  LET says(q) == \E i \in 1 .. Len(q) : \E m \in q[i] :
                   m.client = c /\ m.clock = clock[c][c] /\ m.present
  IN ~ \/ \E w \in Sockets : says(up[w]) \/ says(down[w])
       \/ \E n \in Nodes : says(relay[n])

(* The node that c is connected to hears it. *)
Heard(c) == link[c] # None /\ sock[link[c]].attached

(* The 15 seconds are over.  BOUND: only when it makes a difference: c is    *)
(* heard and somebody else who is does not show it, or it is not connected   *)
(* and somebody shows its latest state.                                      *)
Renew(c) ==
  /\ page[c] = "open"
  /\ clock[c][c] > 0
  /\ Unannounced(c)
  /\ \/ /\ Heard(c)
        /\ \E r \in {n \in Nodes : ready[n]} \cup {d \in Clients : Heard(d)} : c \notin shown[r]
     \/ /\ link[c] = None
        /\ \E r \in Replicas \ {c} : c \in shown[r] /\ clock[r][c] = clock[c][c]
  /\ SetLocalState(c)

(* addClient sends a new client who is there. *)
Greeting(n) ==
  IF shown[n] = {} THEN <<>>
  ELSE <<{[client |-> d, clock |-> clock[n][d], present |-> TRUE] : d \in shown[n]}>>

(* The provider connects, and sends its own state again with the clock it    *)
(* has.  The connection handler adds it at once, or awaits the hydration.    *)
(* BOUND: one connection at a time waits for a hydration (two make two       *)
(* sessions, see RoomSync).                                                  *)
Connect(c, n) ==
  /\ page[c] = "open" /\ link[c] = None
  /\ ready[n] \/ \A v \in Sockets : sock[v].node # n
  /\ \E w \in Sockets : sock[w] = NoConnection
  /\ LET w == CHOOSE w \in Sockets : sock[w] = NoConnection
     IN /\ link' = [link EXCEPT ![c] = w]
        /\ sock' = [sock EXCEPT ![w] = [client |-> c, node |-> n, attached |-> ready[n]]]
        /\ up' = [up EXCEPT ![w] =
                    <<{[client |-> c, clock |-> clock[c][c], present |-> TRUE]}>>]
        /\ down' = [down EXCEPT ![w] = IF ready[n] THEN Greeting(n) ELSE <<>>]
  /\ UNCHANGED <<page, ids, ready, shown, clock, relay, faults, relayed>>

(* A wrong version of HydrateDone: who waited is not added. *)
HydrateDoneAlone(n) ==
  /\ ~ready[n]
  /\ \E w \in Sockets : sock[w].node = n
  /\ ready' = [ready EXCEPT ![n] = TRUE]
  /\ UNCHANGED <<page, link, sock, ids, shown, clock, up, down, relay, faults, relayed>>

(* The session of n is hydrated; who waited for it is added. *)
HydrateDone(n) ==
  LET waiting == {w \in Sockets : sock[w].node = n}
  IN /\ ~ready[n]
     /\ waiting # {}
     /\ ready' = [ready EXCEPT ![n] = TRUE]
     /\ sock' = [w \in Sockets |-> IF w \in waiting THEN [sock[w] EXCEPT !.attached = TRUE]
                                                    ELSE sock[w]]
     /\ down' = [w \in Sockets |-> IF w \in waiting /\ link[sock[w].client] = w
                                     THEN Greeting(n) ELSE down[w]]
     /\ UNCHANGED <<page, link, ids, shown, clock, up, relay, faults, relayed>>

(* The provider reads an update, and sends on what it changed. *)
BrowserReads(c) ==
  LET w == link[c]
      u == Head(down[w])
  IN /\ w # None
     /\ down[w] # <<>>
     /\ down' = [down EXCEPT ![w] = Tail(@)]
     /\ ApplyAwarenessUpdate(c, u)
     /\ Send(c, Encoded(c, Changed(c, u)))
     /\ UNCHANGED <<page, link, sock, ids, ready, relay, faults, relayed>>

(* Wrong versions of SocketIDs: the list is added, not what is in it; only   *)
(* clients that were unknown are added.                                      *)
SocketIDsNested(owned, n, cs) == (owned \ cs) \cup {cs \cap shown'[n]}

SocketIDsAdded(owned, n, cs) ==
  (owned \ (cs \ shown'[n])) \cup {c \in cs \cap shown'[n] : clock[n][c] = 0}

(* The clients whose states a socket answers for, after cs were changed.     *)
SocketIDs(owned, n, cs) == (owned \ cs) \cup (cs \cap shown'[n])

(* handleMessage: an awareness update arrives from w.  While the connection  *)
(* handler awaits the hydration, it has no listener.                         *)
ServerReads(w) ==
  LET n == sock[w].node
      u == Head(up[w])
      cs == Changed(n, u)
  IN /\ up[w] # <<>>
     /\ up' = [up EXCEPT ![w] = Tail(@)]
     /\ IF sock[w].attached
          THEN /\ ApplyAwarenessUpdate(n, u)
               /\ ids' = [ids EXCEPT ![w] = SocketIDs(@, n, cs)]
               /\ AwarenessUpdated(n, cs, w)
               /\ relayed' = [relayed EXCEPT ![n] = @ \ cs]
          ELSE UNCHANGED <<shown, clock, ids, down, relay, faults, relayed>>
     /\ UNCHANGED <<page, link, sock, ready>>

(* handleRemoteAwareness: an update from another node, which goes to this    *)
(* node's clients only.  A session that is not made yet has no callbacks.    *)
RemoteAwareness(n) ==
  LET u == Head(relay[n])
      cs == Changed(n, u)
  IN /\ relay[n] # <<>>
     /\ relay' = [relay EXCEPT ![n] = Tail(@)]
     /\ IF ready[n] \/ \E w \in Sockets : sock[w].node = n
          THEN /\ ApplyAwarenessUpdate(n, u)
               /\ Broadcast(Attached(n), Encoded(n, cs))
               /\ relayed' = [relayed EXCEPT ![n] = @ \cup cs]
          ELSE UNCHANGED <<shown, clock, down, relayed>>
     /\ UNCHANGED <<page, link, sock, ids, ready, up, faults>>

-----------------------------------------------------------------------------
(* removeAwarenessStates at replica r, for other clients than r itself: the  *)
(* clocks stay.                                                              *)
RemoveAwarenessStates(r, cs) ==
  /\ shown' = [shown EXCEPT ![r] = @ \ cs]
  /\ UNCHANGED clock

(* c's provider has no connection any more: what was under way to it is      *)
(* lost, and what was under way from it may be.                              *)
Unlinked(c) ==
  /\ link' = [link EXCEPT ![c] = None]
  /\ down' = [w \in Sockets |-> IF w = link[c] THEN <<>> ELSE down[w]]

(* The network or the node ends the connection of c, or c takes it for dead. *)
ConnectionLost(c) ==
  /\ link[c] # None
  /\ "connection" \in FaultKinds
  /\ faults < MaxFaults /\ faults' = faults + 1
  /\ Unlinked(c)
  /\ up' \in {up, [up EXCEPT ![link[c]] = <<>>]}
  /\ RemoveAwarenessStates(c, shown[c] \ {c})
  /\ UNCHANGED <<page, sock, ids, ready, relay, relayed>>

(* The cleanup of useYjs destroys the provider, which says nothing; when the *)
(* tab is closed the provider says that c is gone.                           *)
LeavePage(c) ==
  /\ page[c] = "open"
  /\ page' = [page EXCEPT ![c] = "left"]
  /\ \/ UNCHANGED <<clock, up>>
     \/ /\ clock' = [clock EXCEPT ![c][c] = @ + 1]
        /\ Send(c, {[client |-> c, clock |-> clock[c][c] + 1, present |-> FALSE]})
  /\ Unlinked(c)
  /\ shown' = [shown EXCEPT ![c] = {}]
  /\ UNCHANGED <<sock, ids, ready, relay, faults, relayed>>

(* A wrong version of RemoveClient: the ids are deleted before they are read. *)
RemoveClientBlank(w) ==
  /\ sock[w].attached
  /\ link[sock[w].client] # w
  /\ sock' = [sock EXCEPT ![w] = NoConnection]
  /\ ids' = [ids EXCEPT ![w] = {}]
  /\ up' = [up EXCEPT ![w] = <<>>]
  /\ UNCHANGED <<page, link, ready, shown, clock, down, relay, faults, relayed>>

(* A wrong version of RemoveClient: the removal takes the next clock, so     *)
(* that nobody ignores it.                                                   *)
RemoveClientAnew(w) ==
  LET n == sock[w].node
      gone == ids[w] \cap shown[n]
  IN /\ sock[w].attached
     /\ link[sock[w].client] # w
     /\ sock' = [sock EXCEPT ![w] = NoConnection]
     /\ ids' = [ids EXCEPT ![w] = {}]
     /\ up' = [up EXCEPT ![w] = <<>>]
     /\ shown' = [shown EXCEPT ![n] = @ \ gone]
     /\ clock' = [clock EXCEPT ![n] = [c \in Clients |-> IF c \in gone THEN @[c] + 1 ELSE @[c]]]
     /\ AwarenessUpdated(n, gone, w)
     /\ UNCHANGED <<page, link, ready, relayed>>

(* removeClient, on the close event of a connection or from the heartbeat,   *)
(* some time after its client has gone: the states that came by it are       *)
(* removed for everybody.                                                    *)
RemoveClient(w) ==
  LET n == sock[w].node
      gone == ids[w] \cap shown[n]
  IN /\ sock[w].attached
     /\ link[sock[w].client] # w
     /\ sock' = [sock EXCEPT ![w] = NoConnection]
     /\ ids' = [ids EXCEPT ![w] = {}]
     /\ up' = [up EXCEPT ![w] = <<>>]
     /\ RemoveAwarenessStates(n, gone)
     /\ AwarenessUpdated(n, gone, w)
     /\ UNCHANGED <<page, link, ready, relayed>>

(* A state that replica r has was not renewed for 30 seconds: its client has *)
(* left, or has a later state that r did not hear of.                        *)
Outdated(r, c) ==
  /\ c \in shown[r]
  /\ c # r
  /\ page[c] = "left" \/ clock[c][c] > clock[r][c]

NodeForgets(n, c) ==
  /\ Outdated(n, c)
  /\ RemoveAwarenessStates(n, {c})
  /\ AwarenessUpdated(n, {c}, None)
  /\ UNCHANGED <<page, link, sock, ids, ready, up, relayed>>

BrowserForgets(d, c) ==
  /\ Outdated(d, c)
  /\ RemoveAwarenessStates(d, {c})
  /\ Send(d, Encoded(d, {c}))
  /\ UNCHANGED <<page, link, sock, ids, ready, down, relay, faults, relayed>>

(* The session of node n is gone with its connections: the process died, or  *)
(* it evicted the room (never under its clients here: see RoomServer).       *)
SessionLost(n) ==
  LET cut == {w \in Sockets : sock[w].node = n}
      alone == {c \in Clients : link[c] \in cut}
  IN /\ ready[n]
     /\ "session" \in FaultKinds
     /\ faults < MaxFaults /\ faults' = faults + 1
     /\ ready' = [ready EXCEPT ![n] = FALSE]
     /\ link' = [c \in Clients |-> IF c \in alone THEN None ELSE link[c]]
     /\ sock' = [w \in Sockets |-> IF w \in cut THEN NoConnection ELSE sock[w]]
     /\ ids' = [w \in Sockets |-> IF w \in cut THEN {} ELSE ids[w]]
     /\ up' = [w \in Sockets |-> IF w \in cut THEN <<>> ELSE up[w]]
     /\ down' = [w \in Sockets |-> IF w \in cut THEN <<>> ELSE down[w]]
     /\ relay' = [relay EXCEPT ![n] = <<>>]
     /\ shown' = [r \in Replicas |-> CASE r = n -> {}
                                       [] r \in alone -> shown[r] \cap {r}
                                       [] OTHER -> shown[r]]
     /\ clock' = [clock EXCEPT ![n] = [c \in Clients |-> 0]]
     /\ relayed' = [relayed EXCEPT ![n] = {}]
     /\ UNCHANGED page

PresenceNext ==
  \/ \E c \in Clients : OpenPage(c)
  \/ \E c \in Clients : SetUser(c)
  \/ \E c \in Clients : Renew(c)
  \/ \E c \in Clients, n \in Nodes : Connect(c, n)
  \/ \E n \in Nodes : HydrateDone(n)
  \/ \E c \in Clients : BrowserReads(c)
  \/ \E w \in Sockets : ServerReads(w)
  \/ \E n \in Nodes : RemoteAwareness(n)
  \/ \E c \in Clients : ConnectionLost(c)
  \/ \E c \in Clients : LeavePage(c)
  \/ \E w \in Sockets : RemoveClient(w)
  \/ \E n \in Nodes, c \in Clients : NodeForgets(n, c)
  \/ \E d \in Clients, c \in Clients : BrowserForgets(d, c)
  \/ \E n \in Nodes : SessionLost(n)

PresenceSpec == PresenceInit /\ [][PresenceNext]_presenceVars

(* React runs its effects, connections and Redis deliver, hydrations end,    *)
(* the heartbeat finds the connections whose client is gone, and clients     *)
(* renew.  Nobody has to stay connected, and states need not time out.       *)
PresenceFairness ==
  /\ \A c \in Clients : /\ WF_presenceVars(SetUser(c))
                        /\ WF_presenceVars(Renew(c))
                        /\ WF_presenceVars(BrowserReads(c))
  /\ \A w \in Sockets : /\ WF_presenceVars(ServerReads(w))
                        /\ WF_presenceVars(RemoveClient(w))
  /\ \A n \in Nodes : /\ WF_presenceVars(HydrateDone(n))
                      /\ WF_presenceVars(RemoteAwareness(n))

FairPresenceSpec == PresenceSpec /\ PresenceFairness

(* ... and the interval of every Awareness looks for outdated states. *)
TimelyPresenceSpec ==
  /\ FairPresenceSpec
  /\ \A c \in Clients : /\ \A n \in Nodes : WF_presenceVars(NodeForgets(n, c))
                        /\ \A d \in Clients : WF_presenceVars(BrowserForgets(d, c))

-----------------------------------------------------------------------------
(* useYjs lists the states with a user: all but the empty first one. *)
AwarenessUsers(c) == {d \in shown[c] : clock[c][d] > 0}

PresenceTypeOK ==
  /\ page \in [Clients -> {"new", "open", "left"}]
  /\ link \in [Clients -> Sockets \cup {None}]
  /\ sock \in [Sockets -> Connection]
  /\ ids \in [Sockets -> SUBSET Clients]
  /\ ready \in [Nodes -> BOOLEAN]
  /\ shown \in [Replicas -> SUBSET Clients]
  /\ clock \in [Replicas -> [Clients -> Nat]]
  /\ up \in [Sockets -> Seq(SUBSET Entry)]
  /\ down \in [Sockets -> Seq(SUBSET Entry)]
  /\ relay \in [Nodes -> Seq(SUBSET Entry)]
  /\ faults \in 0 .. MaxFaults
  /\ relayed \in [Nodes -> SUBSET Clients]

(* Nobody knows a later clock of a client than the client itself: else its   *)
(* renewals would be ignored and it would be invisible for good.             *)
NobodyAhead == \A r \in Replicas, c \in Clients : clock[r][c] <= clock[c][c]

(* Every state that a session has from a client of its own belongs to a      *)
(* connection, so that removeClient of that connection will remove it;       *)
(* however states were sent on, reasserted, timed out or sent by a client's  *)
(* next connection while the last one is still there.                        *)
StatesAreOwned ==
  \A n \in Nodes : \A c \in shown[n] :
    c \in relayed[n] \/ \E w \in Attached(n) : c \in ids[w]

(* All pages are open and connected to one node. *)
AllTogether ==
  \E n \in Nodes : \A c \in Clients :
    page[c] = "open" /\ link[c] # None /\ sock[link[c]].node = n

(* Pages that stay connected to a node list one another in the end, however  *)
(* often they came and went before.                                          *)
EverybodyListed ==
  <>[]AllTogether => <>[](\A c, d \in Clients : c \in AwarenessUsers(d))

(* Who has left is not listed for ever: the removal of its connections       *)
(* removes it, whatever they did to each other's states before.              *)
TheLeftVanish ==
  \A c \in Clients : page[c] = "left" ~> [](\A r \in Replicas : c \notin shown[r])

(* Nothing is on its way. *)
AllDelivered ==
  /\ \A w \in Sockets : up[w] = <<>> /\ down[w] = <<>>
  /\ \A n \in Nodes : relay[n] = <<>>

(* "Send current awareness states to new client" (RoomSession line 158): a   *)
(* client that is connected, with everything delivered, lists whom the       *)
(* session shows.                                                            *)
NewClientsAreTold ==
  \A c \in Clients :
    /\ AllDelivered
    /\ link[c] # None
    /\ sock[link[c]].attached
    => shown[sock[link[c]].node] \ {c} \subseteq AwarenessUsers(c)

(* "Remove a WebSocket client from this room session and clean up awareness" *)
(* (RoomSession line 174): who left a session it was connected to alone is   *)
(* not shown there once that connection was removed.                         *)
LeavingCleansUp ==
  [][\A w \in Sockets :
       LET c == sock[w].client
       IN c # None /\ page[c] = "left" /\ sock'[w] = NoConnection
            => c \notin shown'[sock[w].node]]_presenceVars
=============================================================================
