------------------------------ MODULE RoomRelay ------------------------------
(***************************************************************************)
(* One room on several backend nodes: RedisPubSubService relays document   *)
(* updates between the sessions of the nodes, over connections that        *)
(* RedisManager opens and whose ups and downs it merges into ONE status.   *)
(*                                                                         *)
(* Redis and its client library are external.  The library queues the      *)
(* commands it cannot send, in order, and sends them when the connection   *)
(* is ready; it subscribes again to what it was subscribed to.  Redis      *)
(* hands a message to the nodes that are subscribed when it arrives, and   *)
(* keeps nothing.  A document is the set of its edits; so is a message and *)
(* a row of the database, which all nodes share.                           *)
(*                                                                         *)
(* A session hears Redis and publishes from its constructor on, though     *)
(* RoomSessionManager registers it only when the database has answered;    *)
(* two first joins of a room may make two sessions on one node.            *)
(***************************************************************************)
EXTENDS Integers, Sequences

CONSTANTS
  Nodes,       \* backend nodes
  Sessions,    \* RoomSession objects of the room, on all nodes
  Home,        \* Home[s]: the node of session s
  Edits,       \* document updates
  MaxOutages,  \* BOUND: connections, and attempts to connect, that fail
  None         \* no session

ASSUME HomeAssumption == Home \in [Sessions -> Nodes]
ASSUME NoSessionAssumption == None \notin Sessions
ASSUME MaxOutagesAssumption == MaxOutages \in Nat

VARIABLES
  session,    \* session[s]: "unused", "hydrating", "live" or "destroyed"
  registered, \* registered[n]: RoomSessionManager's session of the room, or None
  callbacks,  \* callbacks[n]: the session activeSubscriptions refers to, or None
  doc,        \* doc[s]: the edits in the document of s
  snapshot,   \* the edits in the newest row of the room
  status,     \* status[n]: RedisManager.status is 'connected'
  ready,      \* ready[n][k]: the connection k of node n is up
  pubQueue,   \* pubQueue[n]: messages that node n has published, not sent yet
  subQueue,   \* subQueue[n]: (un)subscribe commands, not carried out yet
  subscribed, \* subscribed[n]: Redis has n as a subscriber of the room
  resume,     \* resume[n]: the library will subscribe again
  inbox,      \* inbox[n]: messages on their way from Redis to node n
  outages,    \* BOUND: how many of them failed so far
  sources,    \* history: sources[e]: nodes that have e from a client or a row
  shared,     \* history: the sessions that met another one on their node
  skipped     \* history: skipped[n]: n did not subscribe though it could have

roomVars == <<session, registered, callbacks, shared>>
docVars == <<doc, snapshot, sources>>
wireVars == <<status, ready, resume, subscribed, inbox, outages>>
relayVars == <<roomVars, docVars, wireVars, pubQueue, subQueue, skipped>>

-----------------------------------------------------------------------------
Connections == {"pub", "sub"}
Commands == {"subscribe", "unsubscribe"}

RelayInit ==
  /\ session = [s \in Sessions |-> "unused"]
  /\ registered = [n \in Nodes |-> None]
  /\ callbacks = [n \in Nodes |-> None]
  /\ doc = [s \in Sessions |-> {}]
  /\ snapshot = {}
  /\ status = [n \in Nodes |-> FALSE]
  /\ ready = [n \in Nodes |-> [k \in Connections |-> FALSE]]
  /\ pubQueue = [n \in Nodes |-> <<>>]
  /\ subQueue = [n \in Nodes |-> <<>>]
  /\ subscribed = [n \in Nodes |-> FALSE]
  /\ resume = [n \in Nodes |-> FALSE]
  /\ inbox = [n \in Nodes |-> {}]
  /\ outages = 0
  /\ sources = [e \in Edits |-> {}]
  /\ shared = {}
  /\ skipped = [n \in Nodes |-> FALSE]

-----------------------------------------------------------------------------
(* A command for the subscriber connection, unless the status says that      *)
(* Redis is away; nobody asks which of the connections is.                   *)
IfConnected(n, command) ==
  subQueue' = [subQueue EXCEPT ![n] = IF status[n] THEN Append(@, command) ELSE @]

(* publishUpdate: dropped while the status says that Redis is away.  A        *)
(* document that learns nothing new has nothing to publish.                  *)
Publish(n, E) ==
  pubQueue' = [pubQueue EXCEPT ![n] = IF status[n] /\ E # {} THEN Append(@, E) ELSE @]

(* The sessions in memory on the node of s. *)
Alive(t) == session[t] \in {"hydrating", "live"}
Siblings(s) == {t \in Sessions : Alive(t) /\ Home[t] = Home[s]}

(* A wrong version of SubscribeRoom: it returns early while Redis is away,    *)
(* before it registers the callbacks.                                        *)
SubscribeRoomSkips(s) ==
  LET n == Home[s] IN
  /\ callbacks' = [callbacks EXCEPT ![n] = IF status[n] THEN s ELSE @]
  /\ IfConnected(n, "subscribe")
  /\ skipped' = [skipped EXCEPT ![n] = ~status[n] /\ ready[n]["sub"]]

(* subscribeRoom: the callbacks of s, over those of any other session of the *)
(* room.                                                                     *)
SubscribeRoom(s) ==
  LET n == Home[s] IN
  /\ callbacks' = [callbacks EXCEPT ![n] = s]
  /\ IfConnected(n, "subscribe")
  /\ skipped' = [skipped EXCEPT ![n] = ~status[n] /\ ready[n]["sub"]]

(* unsubscribeRoom forgets the room's callbacks, whoever's they are. *)
UnsubscribeRoom(n) ==
  /\ callbacks' = [callbacks EXCEPT ![n] = None]
  /\ IfConnected(n, "unsubscribe")

(* getOrCreateSessionAsync finds no session of the room: the constructor of  *)
(* RoomSession subscribes, and the query for the newest row begins.          *)
CreateSession(s) ==
  /\ session[s] = "unused"
  /\ registered[Home[s]] = None
  /\ session' = [session EXCEPT ![s] = "hydrating"]
  /\ SubscribeRoom(s)
  /\ shared' = IF Siblings(s) = {} THEN shared ELSE shared \cup Siblings(s) \cup {s}
  /\ UNCHANGED <<registered, docVars, wireVars, pubQueue>>

(* The database answers, or fails: the row is merged without an origin, so   *)
(* what is new in it is published like a client's update, and the session is *)
(* registered, over one whose query was faster.                              *)
HydrateDone(s) ==
  /\ session[s] = "hydrating"
  /\ session' = [session EXCEPT ![s] = "live"]
  /\ registered' = [registered EXCEPT ![Home[s]] = s]
  /\ \E found \in {snapshot, {}} :
       /\ doc' = [doc EXCEPT ![s] = @ \cup found]
       /\ Publish(Home[s], found \ doc[s])
       /\ sources' = [e \in Edits |-> IF e \in found THEN sources[e] \cup {Home[s]}
                                      ELSE sources[e]]
  /\ UNCHANGED <<callbacks, shared, snapshot, wireVars, subQueue, skipped>>

(* removeSession destroys the registered session, whoever's timer asks. *)
DestroySession(n) ==
  /\ registered[n] # None
  /\ session' = [session EXCEPT ![registered[n]] = "destroyed"]
  /\ registered' = [registered EXCEPT ![n] = None]
  /\ UnsubscribeRoom(n)
  /\ UNCHANGED <<shared, docVars, wireVars, pubQueue, skipped>>

(* A client's update: new edits are published, by a replaced session too. *)
LocalEdit(s, e) ==
  /\ session[s] = "live"
  /\ e \notin doc[s]
  /\ doc' = [doc EXCEPT ![s] = @ \cup {e}]
  /\ Publish(Home[s], {e})
  /\ sources' = [sources EXCEPT ![e] = @ \cup {Home[s]}]
  /\ UNCHANGED <<roomVars, snapshot, wireVars, subQueue, skipped>>

(* A row of session s is stored: what its document held when the save began, *)
(* some of what it holds now.  Retries go on after the session is destroyed. *)
SnapshotSaved(s) ==
  /\ session[s] # "unused"
  /\ snapshot' \in SUBSET doc[s]
  /\ UNCHANGED <<roomVars, doc, sources, wireVars, pubQueue, subQueue, skipped>>

(* A wrong version of RemoteUpdate: the origin of the update is not looked   *)
(* at, so it is published again.                                             *)
RemoteUpdateEchoed(n, E) ==
  /\ E \in inbox[n]
  /\ inbox' = [inbox EXCEPT ![n] = @ \ {E}]
  /\ LET s == callbacks[n]
     IN IF s # None
          THEN doc' = [doc EXCEPT ![s] = @ \cup E] /\ Publish(n, E \ doc[s])
          ELSE UNCHANGED <<doc, pubQueue>>
  /\ UNCHANGED <<roomVars, snapshot, sources, status, ready, resume, subscribed,
                 outages, subQueue, skipped>>

(* handleRemoteUpdate: session s merges E, whatever became of it, and does   *)
(* not publish it again.                                                     *)
HandleRemoteUpdate(s, E) == doc' = [doc EXCEPT ![s] = @ \cup E]

(* The message listener hands the edits to the session that registered its   *)
(* callbacks last, or to nobody.                                             *)
RemoteUpdate(n, E) ==
  /\ E \in inbox[n]
  /\ inbox' = [inbox EXCEPT ![n] = @ \ {E}]
  /\ IF callbacks[n] = None THEN UNCHANGED doc ELSE HandleRemoteUpdate(callbacks[n], E)
  /\ UNCHANGED <<roomVars, snapshot, sources, status, ready, resume, subscribed,
                 outages, pubQueue, subQueue, skipped>>

-----------------------------------------------------------------------------
(* Redis takes the oldest message of node n and hands it to the subscribers; *)
(* a node ignores its own.                                                   *)
RedisRelays(n) ==
  /\ ready[n]["pub"]
  /\ pubQueue[n] # <<>>
  /\ pubQueue' = [pubQueue EXCEPT ![n] = Tail(@)]
  /\ inbox' = [m \in Nodes |-> IF m # n /\ subscribed[m]
                                 THEN inbox[m] \cup {Head(pubQueue[n])} ELSE inbox[m]]
  /\ UNCHANGED <<roomVars, docVars, status, ready, resume, subscribed, outages,
                 subQueue, skipped>>

RedisSubscribes(n) ==
  /\ ready[n]["sub"]
  /\ subQueue[n] # <<>>
  /\ subscribed' = [subscribed EXCEPT ![n] = Head(subQueue[n]) = "subscribe"]
  /\ subQueue' = [subQueue EXCEPT ![n] = Tail(@)]
  /\ UNCHANGED <<roomVars, docVars, status, ready, resume, inbox, outages, pubQueue,
                 skipped>>

(* A wrong version of Resubscribe: what was registered during the outage is   *)
(* forgotten.                                                                *)
ResubscribeNot(n) == <<>>

(* The ready listener of the service subscribes every registered room. *)
Resubscribe(n) == IF callbacks[n] # None THEN <<"subscribe">> ELSE <<>>

(* 'connect' and 'ready' of ONE connection set the status of them all.  The   *)
(* subscriber's has two consequences more, the library's and the service's.  *)
ConnectionReady(n, k) ==
  /\ ~ready[n][k]
  /\ ready' = [ready EXCEPT ![n][k] = TRUE]
  /\ status' = [status EXCEPT ![n] = TRUE]
  /\ IF k = "sub"
       THEN /\ subQueue' = [subQueue EXCEPT
                              ![n] = (IF resume[n] THEN <<"subscribe">> ELSE <<>>)
                                       \o @ \o Resubscribe(n)]
            /\ resume' = [resume EXCEPT ![n] = FALSE]
            /\ skipped' = [skipped EXCEPT ![n] = FALSE]
       ELSE UNCHANGED <<subQueue, resume, skipped>>
  /\ UNCHANGED <<roomVars, docVars, subscribed, inbox, outages, pubQueue>>

(* 'close' of ONE connection, too: it was up, or an attempt to bring it up    *)
(* failed.                                                                   *)
ConnectionCloses(n, k) ==
  /\ outages < MaxOutages
  /\ outages' = outages + 1
  /\ ready' = [ready EXCEPT ![n][k] = FALSE]
  /\ status' = [status EXCEPT ![n] = FALSE]
  /\ IF k = "sub"
       THEN /\ subscribed' = [subscribed EXCEPT ![n] = FALSE]
            /\ resume' = [resume EXCEPT ![n] = @ \/ subscribed[n]]
            /\ inbox' = [inbox EXCEPT ![n] = {}]
       ELSE UNCHANGED <<subscribed, resume, inbox>>
  /\ UNCHANGED <<roomVars, docVars, pubQueue, subQueue, skipped>>

RelayNext ==
  \/ \E s \in Sessions : CreateSession(s)
  \/ \E s \in Sessions : HydrateDone(s)
  \/ \E n \in Nodes : DestroySession(n)
  \/ \E s \in Sessions, e \in Edits : LocalEdit(s, e)
  \/ \E s \in Sessions : SnapshotSaved(s)
  \/ \E n \in Nodes, E \in SUBSET Edits : RemoteUpdate(n, E)
  \/ \E n \in Nodes : RedisRelays(n)
  \/ \E n \in Nodes : RedisSubscribes(n)
  \/ \E n \in Nodes, k \in Connections : ConnectionReady(n, k)
  \/ \E n \in Nodes, k \in Connections : ConnectionCloses(n, k)

RelaySpec == RelayInit /\ [][RelayNext]_relayVars

-----------------------------------------------------------------------------
RelayTypeOK ==
  /\ session \in [Sessions -> {"unused", "hydrating", "live", "destroyed"}]
  /\ registered \in [Nodes -> Sessions \cup {None}]
  /\ callbacks \in [Nodes -> Sessions \cup {None}]
  /\ doc \in [Sessions -> SUBSET Edits]
  /\ snapshot \in SUBSET Edits
  /\ status \in [Nodes -> BOOLEAN]
  /\ ready \in [Nodes -> [Connections -> BOOLEAN]]
  /\ pubQueue \in [Nodes -> Seq(SUBSET Edits)]
  /\ subQueue \in [Nodes -> Seq(Commands)]
  /\ subscribed \in [Nodes -> BOOLEAN]
  /\ resume \in [Nodes -> BOOLEAN]
  /\ inbox \in [Nodes -> SUBSET (SUBSET Edits)]
  /\ outages \in 0 .. MaxOutages
  /\ sources \in [Edits -> SUBSET Nodes]
  /\ shared \in SUBSET Sessions
  /\ skipped \in [Nodes -> BOOLEAN]

(* Both maps of a node lead to sessions of its own that are not destroyed:   *)
(* an update from another node is never fed to a destroyed document.         *)
MapsAreLive ==
  \A n \in Nodes :
    /\ registered[n] # None
         => Home[registered[n]] = n /\ session[registered[n]] = "live"
    /\ callbacks[n] # None => Home[callbacks[n]] = n /\ Alive(callbacks[n])

(* The session that clients join hears the other nodes: activeSubscriptions  *)
(* refers to the session that RoomSessionManager has registered, through     *)
(* evictions, new sessions and outages of Redis, as long as that session     *)
(* never shared its node with another one of the room.  (If it did, the      *)
(* younger of them, or nobody after one of them is destroyed, has the        *)
(* callbacks.)                                                               *)
AloneIsRelayed ==
  \A n \in Nodes : registered[n] \in Sessions \ shared => callbacks[n] = registered[n]

(* "Subscribe to remote transport messages across nodes" (RoomSession line    *)
(* 47): the session that clients join hears the other nodes.                 *)
RegisteredIsRelayed ==
  \A n \in Nodes : registered[n] # None => callbacks[n] = registered[n]

(* Nodes do not echo: a node publishes only what it has from a client of its *)
(* own or from the database, and nothing that it merely heard from Redis     *)
(* ("Publish to distributed transport if update originated locally",         *)
(* RoomSession line 64), so relayed edits do not go round for ever.  What a  *)
(* session finds in the database counts as local there.                      *)
NoEcho ==
  \A n \in Nodes : \A i \in 1 .. Len(pubQueue[n]) :
    \A e \in pubQueue[n][i] : n \in sources[e]

(* Nothing is left to be done about the subscription of node n. *)
Quiet(n) ==
  /\ \A k \in Connections : ready[n][k]
  /\ subQueue[n] = <<>>

(* When all is up and quiet, a node with registered callbacks hears the      *)
(* other nodes, unless it did not subscribe because of an outage of ANOTHER  *)
(* connection than the subscriber's.                                         *)
HearsUnlessSkipped ==
  \A n \in Nodes : Quiet(n) /\ callbacks[n] # None => subscribed[n] \/ skipped[n]

(* "Restore subscriptions upon Redis reconnection" (RedisPubSubService line  *)
(* 68): when all is up and quiet, a node with registered callbacks hears the *)
(* other nodes.                                                              *)
HearsPeers ==
  \A n \in Nodes : Quiet(n) /\ callbacks[n] # None => subscribed[n]

Document == INSTANCE SharedDocument
              WITH Replicas <- Sessions, copy <- doc,
                   inUse <- {s \in Sessions : session[s] # "unused"},
                   written <- {e \in Edits : sources[e] # {}}

(* The sessions of a room, on all nodes, make up one shared document: what   *)
(* they hold was sent by a client of some node, the rows they were hydrated  *)
(* from included, and messages that are lost or late take nothing away.      *)
SharedDocumentSpec == Document!Spec
=============================================================================
