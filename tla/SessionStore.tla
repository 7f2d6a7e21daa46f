---------------------------- MODULE SessionStore ----------------------------
(***************************************************************************)
(* RedisSessionStore: one Redis key per room that says which node has it   *)
(* and how many clients it has there.  Every node writes it, with a GET    *)
(* that is awaited and a SETEX that follows, and deletes it when it evicts *)
(* the room.  So does every session of the room on a node: two first joins *)
(* may make two of them, of which RoomSessionManager knows the later one.   *)
(*                                                                         *)
(* Redis and its client library are external: a connection carries out a   *)
(* node's commands in order, and those of different nodes in any order.    *)
(* A command that cannot be sent is queued, but none is made while the     *)
(* status says that Redis is away.                                         *)
(***************************************************************************)
EXTENDS Naturals, Sequences

CONSTANTS
  Nodes,       \* backend nodes
  Sessions,    \* RoomSession objects of the room, on all nodes
  Home,        \* Home[s]: the node of session s
  MaxClients,  \* BOUND: clients of a session
  MaxCommands, \* BOUND: commands of a node that are under way
  None         \* no session, no record

ASSUME HomeAssumption == Home \in [Sessions -> Nodes]
ASSUME NoSessionAssumption == None \notin Sessions
ASSUME MaxClientsAssumption == MaxClients \in Nat \ {0}
ASSUME MaxCommandsAssumption == MaxCommands \in Nat

VARIABLES
  session,    \* session[s]: "unused", "hydrating", "live" or "destroyed"
  registered, \* registered[n]: RoomSessionManager's session of the room, or None
  clients,    \* clients[s]: the size of the set of clients of s
  strays,     \* strays[s]: clients of s when it was destroyed under them
  status,     \* status[n]: RedisManager.status is 'connected'
  commands,   \* commands[n]: n's commands that Redis has not carried out
  record,     \* the value of the room's key, or None
  told        \* history: told[n]: the session whose clients n told Redis last

roomVars == <<session, registered, clients, strays>>
storeVars == <<roomVars, status, commands, record, told>>

-----------------------------------------------------------------------------
(* A "get" carries what its setSession will store. *)
Command == [op : {"get", "setex"}, count : 0 .. MaxClients]
             \cup [op : {"del"}, count : {0}]

Metadata == [backendNodeId : Nodes, clientCount : 0 .. MaxClients, expires : BOOLEAN]

StoreInit ==
  /\ session = [s \in Sessions |-> "unused"]
  /\ registered = [n \in Nodes |-> None]
  /\ clients = [s \in Sessions |-> 0]
  /\ strays = [s \in Sessions |-> 0]
  /\ status = [n \in Nodes |-> TRUE]
  /\ commands = [n \in Nodes |-> <<>>]
  /\ record = None
  /\ told = [n \in Nodes |-> None]

-----------------------------------------------------------------------------
(* A command for Redis, unless the status says that it is away. *)
Send(n, op, count) ==
  /\ Len(commands[n]) < MaxCommands
  /\ commands' = [commands EXCEPT ![n] = IF status[n]
                    THEN Append(@, [op |-> op, count |-> count]) ELSE @]

(* setSession of session s, up to its await.  Nothing is told while the       *)
(* status says that Redis is away.                                           *)
SetSession(s, count) ==
  /\ Send(Home[s], "get", count)
  /\ told' = [told EXCEPT ![Home[s]] = IF status[Home[s]] THEN s ELSE None]

(* getOrCreateSessionAsync finds no session of the room. *)
CreateSession(s) ==
  /\ session[s] = "unused"
  /\ registered[Home[s]] = None
  /\ session' = [session EXCEPT ![s] = "hydrating"]
  /\ UNCHANGED <<registered, clients, strays, status, commands, record, told>>

(* The database has answered: s is registered, over one whose query was      *)
(* faster, for the first client of s or for an AI request.                   *)
HydrateDone(s) ==
  /\ session[s] = "hydrating"
  /\ session' = [session EXCEPT ![s] = "live"]
  /\ registered' = [registered EXCEPT ![Home[s]] = s]
  /\ \/ /\ clients' = [clients EXCEPT ![s] = 1]
        /\ SetSession(s, 1)
     \/ UNCHANGED <<clients, commands, told>>
  /\ UNCHANGED <<strays, status, record>>

(* A wrong version of AddClient: the record is written first. *)
AddClientLate(n) ==
  LET s == registered[n] IN
  /\ s # None
  /\ clients[s] < MaxClients
  /\ clients' = [clients EXCEPT ![s] = @ + 1]
  /\ SetSession(s, clients[s])
  /\ UNCHANGED <<session, registered, strays, status, record>>

(* addClient of the session that is registered. *)
AddClient(n) ==
  LET s == registered[n] IN
  /\ s # None
  /\ clients[s] < MaxClients
  /\ clients' = [clients EXCEPT ![s] = @ + 1]
  /\ SetSession(s, clients'[s])
  /\ UNCHANGED <<session, registered, strays, status, record>>

(* removeClient of a live session, registered or replaced. *)
RemoveClient(s) ==
  /\ session[s] = "live"
  /\ clients[s] > 0
  /\ clients' = [clients EXCEPT ![s] = @ - 1]
  /\ SetSession(s, clients'[s])
  /\ UNCHANGED <<session, registered, strays, status, record>>

(* removeClient of a destroyed session, whose set of clients is empty; the   *)
(* node may have another session of the room.                                *)
StrayLeaves(s) ==
  /\ strays[s] > 0
  /\ strays' = [strays EXCEPT ![s] = @ - 1]
  /\ Send(Home[s], "get", 0)
  /\ told' = [told EXCEPT ![Home[s]] = None]
  /\ UNCHANGED <<session, registered, clients, status, record>>

(* removeSession destroys the registered session, whether or not it has      *)
(* clients left (RoomServer), and deletes the record, whoever wrote it.      *)
Evict(n) ==
  LET s == registered[n] IN
  /\ s # None
  /\ session' = [session EXCEPT ![s] = "destroyed"]
  /\ registered' = [registered EXCEPT ![n] = None]
  /\ strays' = [strays EXCEPT ![s] = clients[s]]
  /\ clients' = [clients EXCEPT ![s] = 0]
  /\ Send(n, "del", 0)
  /\ told' = [told EXCEPT ![n] = IF @ = s THEN None ELSE @]
  /\ UNCHANGED <<status, record>>

(* A wrong version of Stored: a key that stays. *)
StoredForGood(n, count) ==
  [backendNodeId |-> n, clientCount |-> count, expires |-> FALSE]

(* What SETEX stores: the node, the count, and a time to live. *)
Stored(n, count) == [backendNodeId |-> n, clientCount |-> count, expires |-> TRUE]

(* Redis carries out the oldest command of n.  The answer to a GET makes     *)
(* setSession go on: its SETEX goes behind the commands made meanwhile.      *)
CarryOut(n) ==
  /\ commands[n] # <<>>
  /\ LET c == Head(commands[n])
     IN /\ commands' = [commands EXCEPT
                          ![n] = IF c.op = "get" THEN Append(Tail(@), [c EXCEPT !.op = "setex"])
                                                 ELSE Tail(@)]
        /\ record' = CASE c.op = "get"   -> record
                       [] c.op = "setex" -> Stored(n, c.count)
                       [] c.op = "del"   -> None
  /\ UNCHANGED <<roomVars, status, told>>

(* SESSION_TTL_SECONDS have passed since the last SETEX. *)
Expire ==
  /\ record # None
  /\ record.expires
  /\ record' = None
  /\ UNCHANGED <<roomVars, status, commands, told>>

(* The status of node n changes; what was queued stays queued. *)
StatusChanges(n) ==
  /\ status' = [status EXCEPT ![n] = ~@]
  /\ UNCHANGED <<roomVars, commands, record, told>>

StoreNext ==
  \/ \E s \in Sessions : CreateSession(s)
  \/ \E s \in Sessions : HydrateDone(s)
  \/ \E n \in Nodes : AddClient(n)
  \/ \E s \in Sessions : RemoveClient(s)
  \/ \E s \in Sessions : StrayLeaves(s)
  \/ \E n \in Nodes : Evict(n)
  \/ \E n \in Nodes : CarryOut(n)
  \/ \E n \in Nodes : StatusChanges(n)
  \/ Expire

StoreSpec == StoreInit /\ [][StoreNext]_storeVars

(* Redis gets its commands in the end, and forgets a key that expires.       *)
StoreFairness == WF_storeVars(Expire) /\ \A n \in Nodes : WF_storeVars(CarryOut(n))
FairStoreSpec == StoreSpec /\ StoreFairness

-----------------------------------------------------------------------------
StoreTypeOK ==
  /\ session \in [Sessions -> {"unused", "hydrating", "live", "destroyed"}]
  /\ registered \in [Nodes -> Sessions \cup {None}]
  /\ clients \in [Sessions -> 0 .. MaxClients]
  /\ strays \in [Sessions -> 0 .. MaxClients]
  /\ status \in [Nodes -> BOOLEAN]
  /\ commands \in [Nodes -> Seq(Command)]
  /\ record \in Metadata \cup {None}
  /\ told \in [Nodes -> Sessions \cup {None}]

(* A record that names node n gives the number of clients of a session n      *)
(* has: of the one that told it last, once n's commands have been carried    *)
(* out.  Overlapping joins and leaves, evictions, and other nodes do not mix *)
(* it up.  That is the registered session, unless another live session of    *)
(* the room on n lost a client since; and nothing is said when the last      *)
(* update met an outage or was made by a destroyed session, or when the      *)
(* session that made it was destroyed.                                       *)
RecordIsCurrent ==
  \A n \in Nodes :
    record # None /\ commands[n] = <<>> /\ told[n] # None
      => (record.backendNodeId = n => record.clientCount = clients[told[n]])

(* Nobody is there, or on the way; a session that was replaced in the        *)
(* registry may be left, for nothing destroys it.                            *)
Abandoned ==
  /\ \A n \in Nodes : registered[n] = None
  /\ \A s \in Sessions : session[s] # "hydrating" /\ clients[s] = 0 /\ strays[s] = 0

(* A room that everybody has left for good leaves no record for good: not    *)
(* even when an update overtakes the deletion, or an outage swallows it.     *)
RecordsVanish == <>[]Abandoned => <>[](record = None)

(* "Delete transient session record from Redis upon room eviction"           *)
(* (RedisSessionStore line 98): when every node has evicted the room, Redis  *)
(* is at hand, and every command was carried out, there is no record.        *)
EvictionDeletes ==
  /\ \A s \in Sessions : session[s] \in {"unused", "destroyed"}
  /\ \A n \in Nodes : commands[n] = <<>> /\ status[n]
  => record = None
=============================================================================
