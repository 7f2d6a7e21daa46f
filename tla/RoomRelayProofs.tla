--------------------------- MODULE RoomRelayProofs ---------------------------
(***************************************************************************)
(* Proofs about RoomRelay, for any number of nodes, sessions, updates and  *)
(* outages.                                                                *)
(***************************************************************************)
EXTENDS RoomRelay, TLAPS

USE HomeAssumption, NoSessionAssumption, MaxOutagesAssumption
USE DEF roomVars, docVars, wireVars, SubscribeRoom, UnsubscribeRoom

-----------------------------------------------------------------------------
(* Concatenating sequences gives a sequence. *)
LEMMA ConcatType ==
  ASSUME NEW S, NEW a \in Seq(S), NEW b \in Seq(S), NEW c \in Seq(S)
  PROVE  a \o b \o c \in Seq(S)
OBVIOUS

(* Append puts its element last, and is a concatenation. *)
LEMMA AppendLast ==
  ASSUME NEW S, NEW q \in Seq(S), NEW e \in S
  PROVE  /\ Append(q, e) # <<>>
         /\ Append(q, e)[Len(Append(q, e))] = e
         /\ q \o <<e>> = Append(q, e)
<1>1. Len(Append(q, e)) = Len(q) + 1 /\ Append(q, e)[Len(q) + 1] = e
  OBVIOUS
<1>. QED  BY <1>1

(* Taking the first of several elements leaves the last. *)
LEMMA TailLast ==
  ASSUME NEW S, NEW q \in Seq(S), Len(q) > 1
  PROVE  Tail(q) # <<>> /\ Tail(q)[Len(Tail(q))] = q[Len(q)]
<1>. DEFINE t == Tail(q)
<1>1. q # <<>> /\ t \in Seq(S) /\ Len(t) = Len(q) - 1
  OBVIOUS
<1>2. t[Len(q) - 1] = q[Len(q)]
  OBVIOUS
<1>. HIDE DEF t
<1>3. t # <<>>
  <2>1. Len(t) # 0
    BY <1>1
  <2>. QED  BY <2>1
<1>4. t # <<>> /\ t[Len(t)] = q[Len(q)]
  BY <1>1, <1>2, <1>3
<1>. QED  BY <1>4 DEF t

(* A queue that is not empty has one element, or more. *)
LEMMA OneOrMore ==
  ASSUME NEW S, NEW q \in Seq(S), q # <<>>
  PROVE  Len(q) = 1 \/ Len(q) > 1
<1>1. Len(q) \in Nat /\ Len(q) # 0
  OBVIOUS
<1>2. \A l \in Nat : l # 0 => l = 1 \/ l > 1
  OBVIOUS
<1>. QED  BY <1>1, <1>2, Zenon

(* The queues of at most one subscription are queues of commands. *)
LEMMA OneCommand == <<"subscribe">> \in Seq(Commands) /\ <<>> \in Seq(Commands)
<1>1. "subscribe" \in Commands
  BY DEF Commands
<1>. QED  BY <1>1

(* A subscription that is appended is last. *)
LEMMA AppendSubscribe ==
  ASSUME NEW q \in Seq(Commands)
  PROVE  /\ Append(q, "subscribe") # <<>>
         /\ Append(q, "subscribe")[Len(Append(q, "subscribe"))] = "subscribe"
<1>1. "subscribe" \in Commands
  BY DEF Commands
<1>. QED  BY <1>1, AppendLast, Zenon

(* A message that is published is a set of updates at the end of the queue. *)
LEMMA PublishType ==
  ASSUME RelayTypeOK, NEW n \in Nodes, NEW E \in SUBSET Edits, Publish(n, E)
  PROVE  pubQueue' \in [Nodes -> Seq(SUBSET Edits)]
<1>1. pubQueue[n] \in Seq(SUBSET Edits) /\ Append(pubQueue[n], E) \in Seq(SUBSET Edits)
  BY DEF RelayTypeOK
<1>2. \E q \in Seq(SUBSET Edits) : pubQueue' = [pubQueue EXCEPT ![n] = q]
  BY <1>1 DEF Publish
<1>. QED  BY <1>2 DEF RelayTypeOK

(* The sessions, Redis and the connections keep the types. *)
LEMMA RelayTypeStep ==
  ASSUME RelayTypeOK, [RelayNext]_relayVars
  PROVE  RelayTypeOK'
<1>. USE DEF RelayTypeOK, Connections, Commands
<1>1. ASSUME NEW s \in Sessions, CreateSession(s)
      PROVE  RelayTypeOK'
  <2>. Home[s] \in Nodes
    OBVIOUS
  <2>1. shared' \in SUBSET Sessions
    BY <1>1 DEF CreateSession, Siblings
  <2>. QED  BY <1>1, <2>1 DEF CreateSession, IfConnected
<1>2. ASSUME NEW n \in Nodes, DestroySession(n)
      PROVE  RelayTypeOK'
  BY <1>2 DEF DestroySession, IfConnected
<1>3. ASSUME NEW s \in Sessions, NEW e \in Edits, LocalEdit(s, e)
      PROVE  RelayTypeOK'
  <2>. Home[s] \in Nodes
    OBVIOUS
  <2>1. pubQueue' \in [Nodes -> Seq(SUBSET Edits)]
    BY <1>3, PublishType DEF LocalEdit
  <2>. QED  BY <1>3, <2>1 DEF LocalEdit
<1>4. ASSUME NEW n \in Nodes, NEW E \in SUBSET Edits, RemoteUpdate(n, E)
      PROVE  RelayTypeOK'
  <2>1. doc' \in [Sessions -> SUBSET Edits]
    <3>1. CASE callbacks[n] = None
      BY <1>4, <3>1 DEF RemoteUpdate
    <3>2. CASE callbacks[n] # None
      <4>1. callbacks[n] \in Sessions
        BY <3>2
      <4>2. doc' = [doc EXCEPT ![callbacks[n]] = @ \cup E]
        BY <1>4, <3>2 DEF RemoteUpdate, HandleRemoteUpdate
      <4>. QED  BY <4>1, <4>2
    <3>. QED  BY <3>1, <3>2
  <2>2. inbox' \in [Nodes -> SUBSET (SUBSET Edits)]
    BY <1>4 DEF RemoteUpdate
  <2>. QED  BY <1>4, <2>1, <2>2 DEF RemoteUpdate
<1>5. ASSUME NEW n \in Nodes, RedisRelays(n)
      PROVE  RelayTypeOK'
  <2>1. Head(pubQueue[n]) \in SUBSET Edits /\ Tail(pubQueue[n]) \in Seq(SUBSET Edits)
    <3>1. pubQueue[n] \in Seq(SUBSET Edits) /\ pubQueue[n] # <<>>
      BY <1>5 DEF RedisRelays
    <3>. QED  BY <3>1
  <2>2. inbox' \in [Nodes -> SUBSET (SUBSET Edits)]
    <3>. DEFINE h == Head(pubQueue[n])
    <3>1. inbox' = [m \in Nodes |-> IF m # n /\ subscribed[m]
                                     THEN inbox[m] \cup {h} ELSE inbox[m]]
      BY <1>5 DEF RedisRelays
    <3>. HIDE DEF h
    <3>2. h \in SUBSET Edits
      BY <2>1 DEF h
    <3>. QED  BY <3>1, <3>2
  <2>3. pubQueue' \in [Nodes -> Seq(SUBSET Edits)]
    BY <1>5, <2>1 DEF RedisRelays
  <2>. QED  BY <1>5, <2>2, <2>3 DEF RedisRelays
<1>6. ASSUME NEW n \in Nodes, RedisSubscribes(n)
      PROVE  RelayTypeOK'
  BY <1>6 DEF RedisSubscribes
<1>7. ASSUME NEW n \in Nodes, NEW k \in Connections, ConnectionReady(n, k)
      PROVE  RelayTypeOK'
  <2>1. (IF resume[n] THEN <<"subscribe">> ELSE <<>>) \o subQueue[n] \o Resubscribe(n)
          \in Seq(Commands)
    <3>1. (IF resume[n] THEN <<"subscribe">> ELSE <<>>) \in Seq(Commands)
      BY OneCommand, Zenon
    <3>2. Resubscribe(n) \in Seq(Commands)
      BY OneCommand, Zenon DEF Resubscribe
    <3>3. subQueue[n] \in Seq(Commands)
      OBVIOUS
    <3>. QED  BY <3>1, <3>2, <3>3, ConcatType
  <2>2. CASE k = "sub"
    <3>1. \E q \in Seq(Commands) : subQueue' = [subQueue EXCEPT ![n] = q]
      BY <1>7, <2>1, <2>2 DEF ConnectionReady
    <3>2. subQueue' \in [Nodes -> Seq(Commands)]
      BY <3>1
    <3>. QED  BY <1>7, <2>2, <3>2 DEF ConnectionReady
  <2>3. CASE k # "sub"
    BY <1>7, <2>3 DEF ConnectionReady
  <2>. QED  BY <2>2, <2>3
<1>8. ASSUME NEW n \in Nodes, NEW k \in Connections, ConnectionCloses(n, k)
      PROVE  RelayTypeOK'
  <2>2. CASE k = "sub"
    <3>1. subscribed' \in [Nodes -> BOOLEAN] /\ inbox' \in [Nodes -> SUBSET (SUBSET Edits)]
      BY <1>8, <2>2 DEF ConnectionCloses
    <3>2. resume[n] \/ subscribed[n] \in BOOLEAN
      OBVIOUS
    <3>3. resume' \in [Nodes -> BOOLEAN]
      BY <1>8, <2>2, Zenon DEF ConnectionCloses
    <3>. QED  BY <1>8, <2>2, <3>1, <3>3 DEF ConnectionCloses
  <2>3. CASE k # "sub"
    BY <1>8, <2>3 DEF ConnectionCloses
  <2>. QED  BY <2>2, <2>3
<1>9. ASSUME NEW s \in Sessions, HydrateDone(s)
      PROVE  RelayTypeOK'
  <2>. Home[s] \in Nodes
    OBVIOUS
  <2>1. PICK found \in {snapshot, {}} :
               /\ doc' = [doc EXCEPT ![s] = @ \cup found]
               /\ Publish(Home[s], found \ doc[s])
               /\ sources' = [e \in Edits |-> IF e \in found THEN sources[e] \cup {Home[s]}
                                              ELSE sources[e]]
    BY <1>9 DEF HydrateDone
  <2>2. found \in SUBSET Edits
    OBVIOUS
  <2>3. pubQueue' \in [Nodes -> Seq(SUBSET Edits)]
    BY <2>1, <2>2, PublishType
  <2>4. doc' \in [Sessions -> SUBSET Edits] /\ sources' \in [Edits -> SUBSET Nodes]
    BY <2>1, <2>2
  <2>. QED  BY <1>9, <2>3, <2>4 DEF HydrateDone
<1>10. ASSUME NEW s \in Sessions, SnapshotSaved(s)
       PROVE  RelayTypeOK'
  BY <1>10 DEF SnapshotSaved
<1>11. CASE UNCHANGED relayVars
  BY <1>11 DEF relayVars
<1>. HIDE DEF RelayTypeOK, Connections, Commands
<1>. QED
  BY <1>1, <1>2, <1>3, <1>4, <1>5, <1>6, <1>7, <1>8, <1>9, <1>10, <1>11 DEF RelayNext

(* Every reachable state of the relay is well typed. *)
THEOREM RelayTypeCorrect == RelaySpec => []RelayTypeOK
<1>1. RelayInit => RelayTypeOK
  BY DEF RelayInit, RelayTypeOK, Connections
<1>. QED  BY <1>1, RelayTypeStep, PTL DEF RelaySpec

-----------------------------------------------------------------------------
(* Only three steps touch the sessions and the two maps that lead to them. *)
LEMMA OtherSteps ==
  ASSUME [RelayNext]_relayVars,
         ~\E s \in Sessions : CreateSession(s) \/ HydrateDone(s),
         ~\E n \in Nodes : DestroySession(n)
  PROVE  UNCHANGED roomVars
BY DEF RelayNext, relayVars, LocalEdit, SnapshotSaved, RemoteUpdate, RedisRelays,
       RedisSubscribes, ConnectionReady, ConnectionCloses

(* The registered session is destroyed and leaves both maps. *)
LEMMA MapsStep ==
  ASSUME RelayTypeOK, MapsAreLive, [RelayNext]_relayVars
  PROVE  MapsAreLive'
<1>. USE DEF RelayTypeOK, MapsAreLive, Alive
<1>1. ASSUME NEW s \in Sessions, CreateSession(s)
      PROVE  MapsAreLive'
  <2>1. \A n \in Nodes : (callbacks[n] # None => callbacks[n] # s)
                         /\ (registered[n] # None => registered[n] # s)
    BY <1>1 DEF CreateSession
  <2>. QED  BY <1>1, <2>1 DEF CreateSession
<1>2. ASSUME NEW s \in Sessions, HydrateDone(s)
      PROVE  MapsAreLive'
  BY <1>2 DEF HydrateDone
<1>3. ASSUME NEW n \in Nodes, DestroySession(n)
      PROVE  MapsAreLive'
  <2>1. \A m \in Nodes : m # n => (callbacks[m] # None => callbacks[m] # registered[n])
                                  /\ (registered[m] # None => registered[m] # registered[n])
    BY <1>3 DEF DestroySession
  <2>. QED  BY <1>3, <2>1 DEF DestroySession
<1>4. CASE UNCHANGED roomVars
  BY <1>4
<1>. HIDE DEF RelayTypeOK, MapsAreLive, Alive
<1>. QED  BY <1>1, <1>2, <1>3, <1>4, OtherSteps

(* activeSubscriptions never leads to the document of a destroyed session,   *)
(* though one session may replace or remove the callbacks of another.        *)
THEOREM MapsCorrect == RelaySpec => []MapsAreLive
<1>1. RelayInit => MapsAreLive
  BY DEF RelayInit, MapsAreLive
<1>. QED  BY <1>1, MapsStep, RelayTypeCorrect, PTL DEF RelaySpec

-----------------------------------------------------------------------------
(* AloneIsRelayed is not inductive: it says nothing of a session that is     *)
(* still hydrating, nor of what else is on its node.                         *)
AloneInv ==
  \A s \in Sessions :
    Alive(s) /\ s \notin shared
      => /\ callbacks[Home[s]] = s
         /\ \A t \in Siblings(s) : t = s

(* A new session makes all the sessions of its node shared, or is alone; the *)
(* destroyed session was the only one of its node, or the others are shared. *)
LEMMA AloneStep ==
  ASSUME RelayTypeOK, MapsAreLive, AloneInv, [RelayNext]_relayVars
  PROVE  AloneInv'
<1>. USE DEF RelayTypeOK, AloneInv, Alive, Siblings
<1>1. ASSUME NEW s \in Sessions, CreateSession(s)
      PROVE  AloneInv'
  <2>1. /\ session' = [session EXCEPT ![s] = "hydrating"]
        /\ callbacks' = [callbacks EXCEPT ![Home[s]] = s]
        /\ shared' = IF Siblings(s) = {} THEN shared ELSE shared \cup Siblings(s) \cup {s}
    BY <1>1 DEF CreateSession
  <2>2. ASSUME NEW t \in Sessions, Alive(t)', t \notin shared'
        PROVE  callbacks'[Home[t]] = t /\ \A u \in Siblings(t)' : u = t
    <3>1. CASE t = s
      <4>1. Siblings(s) = {}
        BY <2>1, <2>2, <3>1
      <4>2. \A u \in Sessions : Alive(u)' /\ Home[u] = Home[s] => u = s
        BY <2>1, <4>1
      <4>. QED  BY <2>1, <3>1, <4>2
    <3>2. CASE t # s
      <4>1. Alive(t) /\ t \notin shared
        BY <2>1, <2>2, <3>2
      <4>2. Home[t] # Home[s]
        BY <2>1, <2>2, <4>1
      <4>. QED  BY <2>1, <3>2, <4>1, <4>2
    <3>. QED  BY <3>1, <3>2
  <2>. QED  BY <2>2
<1>2. ASSUME NEW s \in Sessions, HydrateDone(s)
      PROVE  AloneInv'
  BY <1>2 DEF HydrateDone
<1>3. ASSUME NEW n \in Nodes, DestroySession(n)
      PROVE  AloneInv'
  <2>. DEFINE r == registered[n]
  <2>1. /\ r \in Sessions /\ Home[r] = n /\ Alive(r)
        /\ session' = [session EXCEPT ![r] = "destroyed"]
        /\ callbacks' = [callbacks EXCEPT ![n] = None] /\ shared' = shared
    BY <1>3 DEF DestroySession, MapsAreLive
  <2>. HIDE DEF r
  <2>2. ASSUME NEW s \in Sessions, Alive(s)', s \notin shared'
        PROVE  callbacks'[Home[s]] = s /\ \A t \in Siblings(s)' : t = s
    <3>1. s # r /\ Alive(s) /\ s \notin shared
      BY <2>1, <2>2
    <3>2. Home[s] # n
      BY <2>1, <3>1
    <3>. QED  BY <2>1, <3>1, <3>2
  <2>. QED  BY <2>2
<1>4. CASE UNCHANGED roomVars
  BY <1>4
<1>. HIDE DEF RelayTypeOK, AloneInv, Alive, Siblings
<1>. QED  BY <1>1, <1>2, <1>3, <1>4, OtherSteps

(* A registered session that was never beside another one of its room has    *)
(* the callbacks of its node, whatever Redis and earlier sessions do.        *)
THEOREM AloneCorrect == RelaySpec => []AloneIsRelayed
<1>1. RelayInit => AloneInv
  BY DEF RelayInit, AloneInv, Alive
<1>2. RelayTypeOK /\ MapsAreLive /\ AloneInv => AloneIsRelayed
  BY DEF MapsAreLive, AloneInv, AloneIsRelayed, Alive
<1>. QED  BY <1>1, <1>2, AloneStep, MapsCorrect, RelayTypeCorrect, PTL DEF RelaySpec

-----------------------------------------------------------------------------
(* What a node publishes has its source there. *)
LEMMA PublishEcho ==
  ASSUME RelayTypeOK, NoEcho, NEW n \in Nodes, NEW E \in SUBSET Edits, Publish(n, E),
         \A f \in Edits : sources[f] \subseteq sources'[f],
         \A f \in E : n \in sources'[f]
  PROVE  NoEcho'
<1>. USE DEF RelayTypeOK, NoEcho
<1>1. SUFFICES ASSUME NEW m \in Nodes, NEW i \in 1 .. Len(pubQueue'[m]),
                      NEW f \in pubQueue'[m][i]
               PROVE  m \in sources'[f]
  OBVIOUS
<1>2. pubQueue[m] \in Seq(SUBSET Edits)
  OBVIOUS
<1>3. CASE i \in 1 .. Len(pubQueue[m]) /\ pubQueue'[m][i] = pubQueue[m][i]
  <2>1. pubQueue[m][i] \in SUBSET Edits
    BY <1>2, <1>3
  <2>. QED  BY <1>1, <1>3, <2>1
<1>4. CASE m = n /\ pubQueue'[m][i] = E
  BY <1>1, <1>4
<1>5. CASE m # n \/ pubQueue'[n] = pubQueue[n]
  <2>1. pubQueue'[m] = pubQueue[m]
    BY <1>5 DEF Publish
  <2>. QED  BY <1>1, <1>3, <2>1
<1>6. CASE m = n /\ pubQueue'[n] = Append(pubQueue[n], E)
  <2>1. /\ Len(pubQueue'[n]) = Len(pubQueue[n]) + 1
        /\ pubQueue'[n][Len(pubQueue[n]) + 1] = E
        /\ \A l \in 1 .. Len(pubQueue[n]) : pubQueue'[n][l] = pubQueue[n][l]
    BY <1>2, <1>6
  <2>. QED  BY <1>1, <1>2, <1>3, <1>4, <1>6, <2>1
<1>. QED  BY <1>5, <1>6 DEF Publish

(* A message enters the publisher's queue with an edit of a client, or with  *)
(* a row of the database.                                                    *)
LEMMA EchoStep ==
  ASSUME RelayTypeOK, NoEcho, [RelayNext]_relayVars
  PROVE  NoEcho'
<1>1. ASSUME NEW s \in Sessions, NEW e \in Edits, LocalEdit(s, e)
      PROVE  NoEcho'
  <2>1. Home[s] \in Nodes /\ {e} \in SUBSET Edits
    OBVIOUS
  <2>2. \A f \in Edits : sources[f] \subseteq sources'[f]
    BY <1>1 DEF LocalEdit, RelayTypeOK
  <2>3. \A f \in {e} : Home[s] \in sources'[f]
    BY <1>1 DEF LocalEdit, RelayTypeOK
  <2>. QED  BY <1>1, <2>1, <2>2, <2>3, PublishEcho DEF LocalEdit
<1>2. ASSUME NEW s \in Sessions, HydrateDone(s)
      PROVE  NoEcho'
  <2>1. PICK found \in {snapshot, {}} :
               /\ Publish(Home[s], found \ doc[s])
               /\ sources' = [e \in Edits |-> IF e \in found THEN sources[e] \cup {Home[s]}
                                              ELSE sources[e]]
    BY <1>2 DEF HydrateDone
  <2>2. Home[s] \in Nodes /\ found \ doc[s] \in SUBSET Edits
    BY DEF RelayTypeOK
  <2>3. \A f \in Edits : sources[f] \subseteq sources'[f]
    BY <2>1
  <2>4. \A f \in found \ doc[s] : Home[s] \in sources'[f]
    BY <2>1, <2>2
  <2>. QED  BY <2>1, <2>2, <2>3, <2>4, PublishEcho
<1>3. ASSUME NEW n \in Nodes, RedisRelays(n)
      PROVE  NoEcho'
  <2>. USE DEF RelayTypeOK, NoEcho
  <2>1. SUFFICES ASSUME NEW m \in Nodes, NEW i \in 1 .. Len(pubQueue'[m]),
                        NEW f \in pubQueue'[m][i]
                 PROVE  m \in sources[f]
    BY <1>3 DEF RedisRelays
  <2>2. CASE m # n
    BY <1>3, <2>1, <2>2 DEF RedisRelays
  <2>3. CASE m = n
    <3>1. pubQueue[n] \in Seq(SUBSET Edits) /\ pubQueue[n] # <<>>
          /\ pubQueue'[n] = Tail(pubQueue[n])
      BY <1>3 DEF RedisRelays
    <3>2. i + 1 \in 1 .. Len(pubQueue[n]) /\ pubQueue'[n][i] = pubQueue[n][i + 1]
      BY <2>1, <2>3, <3>1
    <3>. QED  BY <2>1, <2>3, <3>2
  <2>. QED  BY <2>2, <2>3
<1>4. CASE UNCHANGED <<pubQueue, sources>>
  BY <1>4 DEF NoEcho
<1>5. ~(\E s \in Sessions, e \in Edits : LocalEdit(s, e))
        /\ ~(\E s \in Sessions : HydrateDone(s)) /\ ~(\E n \in Nodes : RedisRelays(n))
        => UNCHANGED <<pubQueue, sources>>
  BY DEF RelayNext, relayVars, CreateSession, DestroySession, SnapshotSaved, RemoteUpdate,
         RedisSubscribes, ConnectionReady, ConnectionCloses
<1>. QED  BY <1>1, <1>2, <1>3, <1>4, <1>5

(* Nodes publish only what they have from their own clients or from the      *)
(* database, and never what they heard from each other.                      *)
THEOREM EchoCorrect == RelaySpec => []NoEcho
<1>1. RelayInit => NoEcho
  BY DEF RelayInit, NoEcho
<1>. QED  BY <1>1, EchoStep, RelayTypeCorrect, PTL DEF RelaySpec

-----------------------------------------------------------------------------
(* The last command on its way to Redis for node n is a subscription. *)
SubscribesLast(n) ==
  /\ subQueue[n] # <<>>
  /\ subQueue[n][Len(subQueue[n])] = "subscribe"

(* HearsUnlessSkipped is not inductive: it says nothing of a queue that is   *)
(* not empty.  While the subscriber is up, a registered room is subscribed,  *)
(* or is about to be by the LAST command, or was skipped.                    *)
HearsInv ==
  \A n \in Nodes :
    callbacks[n] # None /\ ready[n]["sub"]
      => \/ skipped[n]
         \/ SubscribesLast(n)
         \/ subQueue[n] = <<>> /\ subscribed[n]

(* The steps of the relay keep the strengthening. *)
LEMMA HearsStep ==
  ASSUME RelayTypeOK, HearsInv, [RelayNext]_relayVars
  PROVE  HearsInv'
<1>. USE DEF RelayTypeOK, HearsInv, SubscribesLast, Connections, Commands
<1>1. ASSUME NEW s \in Sessions, CreateSession(s)
      PROVE  HearsInv'
  <2>. Home[s] \in Nodes
    OBVIOUS
  <2>1. \A n \in Nodes : n # Home[s] =>
          UNCHANGED <<callbacks[n], ready[n], skipped[n], subQueue[n], subscribed[n]>>
    BY <1>1 DEF CreateSession, IfConnected
  <2>2. CASE status[Home[s]]
    <3>1. subQueue'[Home[s]] = Append(subQueue[Home[s]], "subscribe")
      BY <1>1, <2>2 DEF CreateSession, IfConnected
    <3>2. subQueue[Home[s]] \in Seq(Commands)
      OBVIOUS
    <3>3. subQueue'[Home[s]] # <<>>
           /\ subQueue'[Home[s]][Len(subQueue'[Home[s]])] = "subscribe"
      <4>1. /\ Append(subQueue[Home[s]], "subscribe") # <<>>
            /\ Append(subQueue[Home[s]], "subscribe")
                 [Len(Append(subQueue[Home[s]], "subscribe"))] = "subscribe"
        BY <3>2, AppendSubscribe, Zenon
      <4>. QED  BY <3>1, <4>1, Zenon
    <3>4. SubscribesLast(Home[s])'
      BY <3>3
    <3>5. SUFFICES ASSUME NEW n \in Nodes, n # Home[s]
                   PROVE  (callbacks[n] # None /\ ready[n]["sub"]
                             => \/ skipped[n]
                                \/ SubscribesLast(n)
                                \/ subQueue[n] = <<>> /\ subscribed[n])'
      BY <3>4, Zenon
    <3>. QED  BY <2>1, <3>5
  <2>3. CASE ~status[Home[s]]
    <3>1. skipped'[Home[s]] = ready[Home[s]]["sub"] /\ ready' = ready
      BY <1>1, <2>3 DEF CreateSession
    <3>. QED  BY <2>1, <3>1
  <2>. QED  BY <2>2, <2>3
<1>2. ASSUME NEW d \in Nodes, DestroySession(d)
      PROVE  HearsInv'
  <2>1. \A n \in Nodes : n # d =>
          UNCHANGED <<callbacks[n], ready[n], skipped[n], subQueue[n], subscribed[n]>>
    BY <1>2 DEF DestroySession, IfConnected
  <2>2. callbacks'[d] = None
    BY <1>2 DEF DestroySession
  <2>3. SUFFICES ASSUME NEW n \in Nodes, n # d
                 PROVE  (callbacks[n] # None /\ ready[n]["sub"]
                           => \/ skipped[n]
                              \/ SubscribesLast(n)
                              \/ subQueue[n] = <<>> /\ subscribed[n])'
    BY <2>2
  <2>. QED  BY <2>1, <2>3
<1>3. ASSUME NEW n \in Nodes, RedisSubscribes(n)
      PROVE  HearsInv'
  <2>1. SUFFICES ASSUME NEW m \in Nodes
                 PROVE  (callbacks[m] # None /\ ready[m]["sub"]
                           => \/ skipped[m]
                              \/ SubscribesLast(m)
                              \/ subQueue[m] = <<>> /\ subscribed[m])'
    OBVIOUS
  <2>2. CASE m # n
    BY <1>3, <2>2 DEF RedisSubscribes
  <2>3. CASE m = n
    <3>1. subQueue[n] \in Seq(Commands) /\ subQueue[n] # <<>>
           /\ subQueue'[n] = Tail(subQueue[n])
           /\ subscribed'[n] = (Head(subQueue[n]) = "subscribe")
      BY <1>3 DEF RedisSubscribes
    <3>2. CASE Len(subQueue[n]) = 1
      BY <1>3, <2>3, <3>1, <3>2 DEF RedisSubscribes
    <3>3. CASE Len(subQueue[n]) > 1
      <4>1. subQueue'[n] # <<>>
             /\ subQueue'[n][Len(subQueue'[n])] = subQueue[n][Len(subQueue[n])]
        BY <3>1, <3>3, TailLast
      <4>. QED  BY <1>3, <2>3, <3>1, <4>1 DEF RedisSubscribes
    <3>4. Len(subQueue[n]) = 1 \/ Len(subQueue[n]) > 1
      BY <3>1, OneOrMore, Zenon
    <3>. QED  BY <3>2, <3>3, <3>4, Zenon
  <2>. QED  BY <2>2, <2>3
<1>4. ASSUME NEW n \in Nodes, NEW k \in Connections, ConnectionReady(n, k)
      PROVE  HearsInv'
  <2>1. CASE k # "sub"
    BY <1>4, <2>1 DEF ConnectionReady
  <2>2. CASE k = "sub"
    <3>1. \A m \in Nodes : m # n =>
            UNCHANGED <<callbacks[m], ready[m], skipped[m], subQueue[m], subscribed[m]>>
      BY <1>4, <2>2 DEF ConnectionReady
    <3>2. CASE callbacks[n] = None
      BY <1>4, <3>1, <3>2 DEF ConnectionReady
    <3>3. CASE callbacks[n] # None
      <4>1. PICK q \in Seq(Commands) : subQueue'[n] = q \o <<"subscribe">>
        <5>1. (IF resume[n] THEN <<"subscribe">> ELSE <<>>) \o subQueue[n] \in Seq(Commands)
          <6>1. (IF resume[n] THEN <<"subscribe">> ELSE <<>>) \in Seq(Commands)
            BY OneCommand, Zenon
          <6>. QED  BY <6>1
        <5>2. subQueue'[n]
                = (IF resume[n] THEN <<"subscribe">> ELSE <<>>) \o subQueue[n] \o <<"subscribe">>
          BY <1>4, <2>2, <3>3 DEF ConnectionReady, Resubscribe
        <5>. QED  BY <5>1, <5>2
      <4>2. SubscribesLast(n)'
        BY <4>1, AppendLast
      <4>. SUFFICES ASSUME NEW m \in Nodes, callbacks'[m] # None /\ ready'[m]["sub"]
                    PROVE  \/ skipped'[m]
                           \/ SubscribesLast(m)'
                           \/ subQueue'[m] = <<>> /\ subscribed'[m]
        OBVIOUS
      <4>3. CASE m = n
        BY <4>2, <4>3
      <4>4. CASE m # n
        BY <3>1, <4>4
      <4>. QED  BY <4>3, <4>4
    <3>. QED  BY <3>2, <3>3
  <2>. QED  BY <2>1, <2>2
<1>5. ASSUME NEW n \in Nodes, NEW k \in Connections, ConnectionCloses(n, k)
      PROVE  HearsInv'
  <2>1. CASE k # "sub"
    BY <1>5, <2>1 DEF ConnectionCloses
  <2>2. CASE k = "sub"
    BY <1>5, <2>2 DEF ConnectionCloses
  <2>. QED  BY <2>1, <2>2
<1>6. CASE UNCHANGED <<callbacks, ready, skipped, subQueue, subscribed>>
  BY <1>6
<1>. HIDE DEF RelayTypeOK, HearsInv, SubscribesLast, Connections, Commands
<1>7. \/ \E s \in Sessions : CreateSession(s)
      \/ \E n \in Nodes : DestroySession(n) \/ RedisSubscribes(n)
      \/ \E n \in Nodes, k \in Connections : ConnectionReady(n, k) \/ ConnectionCloses(n, k)
      \/ UNCHANGED <<callbacks, ready, skipped, subQueue, subscribed>>
  BY DEF RelayNext, relayVars, HydrateDone, LocalEdit, SnapshotSaved, RemoteUpdate,
         RedisRelays
<1>. QED  BY <1>1, <1>2, <1>3, <1>4, <1>5, <1>6, <1>7

(* However the connections fail, a registered room that was not skipped      *)
(* hears its peers as soon as all is up and quiet.                           *)
THEOREM HearsCorrect == RelaySpec => []HearsUnlessSkipped
<1>1. RelayInit => HearsInv
  BY DEF RelayInit, HearsInv
<1>2. HearsInv => HearsUnlessSkipped
  BY DEF HearsInv, HearsUnlessSkipped, Quiet, SubscribesLast, Connections
<1>. QED  BY <1>1, <1>2, HearsStep, RelayTypeCorrect, PTL DEF RelaySpec

-----------------------------------------------------------------------------
Written == {e \in Edits : sources[e] # {}}
SessionsInUse == {s \in Sessions : session[s] # "unused"}

(* What a session holds, the newest row, and what is on its way to a node    *)
(* was sent by a client of some node; NoEcho says so of what is on its way   *)
(* to Redis.                                                                 *)
WrittenInv ==
  /\ \A s \in Sessions : doc[s] \subseteq Written
  /\ snapshot \subseteq Written
  /\ \A n \in Nodes : \A E \in inbox[n] : E \subseteq Written

(* Each step of the relay is a step of the shared document, or none. *)
LEMMA RelayDocumentStep ==
  ASSUME RelayTypeOK, MapsAreLive, NoEcho, WrittenInv, [RelayNext]_relayVars
  PROVE  WrittenInv' /\ [Document!Next]_(Document!sharedVars)
<1>. USE DEF RelayTypeOK, SessionsInUse, Written, Document!sharedVars
<1>a. ASSUME UNCHANGED <<session, docVars>>, inbox' \in [Nodes -> SUBSET (SUBSET Written)]
      PROVE  WrittenInv' /\ [Document!Next]_(Document!sharedVars)
  <2>1. Written' = Written /\ SessionsInUse' = SessionsInUse
    BY <1>a
  <2>. QED  BY <1>a, <2>1 DEF WrittenInv
<1>1. ASSUME NEW s \in Sessions, CreateSession(s)
      PROVE  WrittenInv' /\ [Document!Next]_(Document!sharedVars)
  <2>1. UNCHANGED <<doc, snapshot, inbox, sources>>
        /\ session' = [session EXCEPT ![s] = "hydrating"]
    BY <1>1 DEF CreateSession
  <2>2. SessionsInUse' = SessionsInUse \cup {s}
    BY <2>1
  <2>3. Document!Create(s)
    BY <2>1, <2>2 DEF Document!Create
  <2>. QED  BY <2>1, <2>3 DEF WrittenInv, Document!Next
<1>2. ASSUME NEW n \in Nodes, DestroySession(n)
      PROVE  WrittenInv' /\ [Document!Next]_(Document!sharedVars)
  <2>1. UNCHANGED <<doc, snapshot, inbox, sources>>
        /\ registered[n] \in Sessions /\ session[registered[n]] = "live"
        /\ session' = [session EXCEPT ![registered[n]] = "destroyed"]
    BY <1>2 DEF DestroySession, MapsAreLive
  <2>2. SessionsInUse' = SessionsInUse
    BY <2>1
  <2>. QED  BY <2>1, <2>2 DEF WrittenInv
<1>3. ASSUME NEW s \in Sessions, NEW e \in Edits, LocalEdit(s, e)
      PROVE  WrittenInv' /\ [Document!Next]_(Document!sharedVars)
  <2>. Home[s] \in Nodes
    OBVIOUS
  <2>1. /\ UNCHANGED <<session, snapshot, inbox>> /\ session[s] = "live" /\ e \notin doc[s]
        /\ doc' = [doc EXCEPT ![s] = doc[s] \cup {e}]
        /\ sources' = [sources EXCEPT ![e] = sources[e] \cup {Home[s]}]
    BY <1>3 DEF LocalEdit
  <2>2. Written' = Written \cup {e}
    <3>1. sources'[e] # {} /\ \A f \in Edits \ {e} : sources'[f] = sources[f]
      BY <2>1
    <3>. QED  BY <3>1
  <2>3. Document!Write(s, e)
    BY <2>1, <2>2 DEF Document!Write
  <2>4. WrittenInv'
    <3>. HIDE DEF Written
    <3>. QED  BY <2>1, <2>2 DEF WrittenInv
  <2>. QED  BY <2>3, <2>4 DEF Document!Next
<1>4. ASSUME NEW n \in Nodes, NEW E \in SUBSET Edits, RemoteUpdate(n, E)
      PROVE  WrittenInv' /\ [Document!Next]_(Document!sharedVars)
  <2>1. /\ UNCHANGED <<session, snapshot, sources>> /\ E \in inbox[n]
        /\ inbox' = [inbox EXCEPT ![n] = inbox[n] \ {E}]
    BY <1>4 DEF RemoteUpdate
  <2>2. E \subseteq Written /\ inbox' \in [Nodes -> SUBSET (SUBSET Written)]
    <3>. HIDE DEF Written
    <3>. QED  BY <2>1 DEF WrittenInv
  <2>3. CASE callbacks[n] = None
    BY <1>4, <1>a, <2>1, <2>2, <2>3 DEF RemoteUpdate
  <2>4. CASE callbacks[n] # None
    <3>. DEFINE s == callbacks[n]
    <3>1. s \in Sessions /\ session[s] # "unused"
      <4>1. s \in Sessions /\ Alive(s)
        <5>. HIDE DEF Alive, Written, SessionsInUse
        <5>. QED  BY <2>4 DEF MapsAreLive
      <4>. HIDE DEF s
      <4>. QED  BY <4>1 DEF Alive
    <3>2. doc' = [doc EXCEPT ![s] = doc[s] \cup E]
      BY <1>4, <2>4 DEF RemoteUpdate, HandleRemoteUpdate
    <3>. HIDE DEF s
    <3>3. Document!Merge(s, E)
      BY <2>1, <2>2, <3>1, <3>2 DEF Document!Merge
    <3>4. WrittenInv'
      <4>1. Written' = Written
        BY <2>1
      <4>. HIDE DEF Written
      <4>. QED  BY <2>1, <2>2, <3>1, <3>2, <4>1 DEF WrittenInv
    <3>. QED  BY <3>1, <3>3, <3>4 DEF Document!Next
  <2>. QED  BY <2>3, <2>4
<1>5. ASSUME NEW n \in Nodes, RedisRelays(n)
      PROVE  WrittenInv' /\ [Document!Next]_(Document!sharedVars)
  <2>1. Head(pubQueue[n]) \subseteq Written
    <3>1. pubQueue[n] # <<>> /\ pubQueue[n] \in Seq(SUBSET Edits)
      BY <1>5 DEF RedisRelays
    <3>2. 1 \in 1 .. Len(pubQueue[n]) /\ Head(pubQueue[n]) = pubQueue[n][1]
          /\ Head(pubQueue[n]) \in SUBSET Edits
      BY <3>1
    <3>. QED  BY <3>2 DEF NoEcho
  <2>2. inbox' \in [Nodes -> SUBSET (SUBSET Written)]
    <3>1. inbox' = [m \in Nodes |-> IF m # n /\ subscribed[m]
                                     THEN inbox[m] \cup {Head(pubQueue[n])} ELSE inbox[m]]
      BY <1>5 DEF RedisRelays
    <3>. DEFINE h == Head(pubQueue[n])
    <3>. HIDE DEF Written, h
    <3>2. \A m \in Nodes : inbox[m] \in SUBSET (SUBSET Written)
      BY DEF WrittenInv
    <3>3. h \in SUBSET Written
      BY <2>1 DEF h
    <3>4. \A m \in Nodes : inbox[m] \cup {h} \in SUBSET (SUBSET Written)
      BY <3>2, <3>3
    <3>5. inbox' = [m \in Nodes |-> IF m # n /\ subscribed[m]
                                     THEN inbox[m] \cup {h} ELSE inbox[m]]
      BY <3>1 DEF h
    <3>. QED  BY <3>2, <3>4, <3>5
  <2>. QED  BY <1>5, <1>a, <2>2 DEF RedisRelays
<1>6. ASSUME NEW n \in Nodes, NEW k \in Connections,
             ConnectionReady(n, k) \/ ConnectionCloses(n, k) \/ RedisSubscribes(n)
      PROVE  WrittenInv' /\ [Document!Next]_(Document!sharedVars)
  <2>1. inbox' = inbox \/ inbox' = [inbox EXCEPT ![n] = {}]
    BY <1>6 DEF ConnectionReady, ConnectionCloses, RedisSubscribes
  <2>2. inbox' \in [Nodes -> SUBSET (SUBSET Written)]
    <3>. HIDE DEF Written
    <3>. QED  BY <2>1 DEF WrittenInv
  <2>. QED  BY <1>6, <1>a, <2>2 DEF ConnectionReady, ConnectionCloses, RedisSubscribes
<1>7. ASSUME NEW s \in Sessions, HydrateDone(s)
      PROVE  WrittenInv' /\ [Document!Next]_(Document!sharedVars)
  <2>1. PICK found \in {snapshot, {}} :
               /\ doc' = [doc EXCEPT ![s] = @ \cup found]
               /\ sources' = [e \in Edits |-> IF e \in found THEN sources[e] \cup {Home[s]}
                                              ELSE sources[e]]
    BY <1>7 DEF HydrateDone
  <2>2. /\ UNCHANGED <<snapshot, inbox>> /\ session[s] = "hydrating"
        /\ session' = [session EXCEPT ![s] = "live"]
    BY <1>7 DEF HydrateDone
  <2>3. found \in SUBSET Edits /\ found \subseteq Written
    BY DEF WrittenInv
  <2>4. Written' = Written
    BY <2>1, <2>3
  <2>5. SessionsInUse' = SessionsInUse /\ s \in SessionsInUse
    BY <2>2
  <2>6. Document!Merge(s, found)
    BY <2>1, <2>3, <2>4, <2>5 DEF Document!Merge
  <2>7. WrittenInv'
    <3>. HIDE DEF Written
    <3>. QED  BY <2>1, <2>2, <2>3, <2>4 DEF WrittenInv
  <2>. QED  BY <2>3, <2>6, <2>7 DEF Document!Next
<1>8. ASSUME NEW s \in Sessions, SnapshotSaved(s)
      PROVE  WrittenInv' /\ [Document!Next]_(Document!sharedVars)
  <2>1. UNCHANGED <<session, doc, sources, inbox>> /\ snapshot' \subseteq doc[s]
    BY <1>8 DEF SnapshotSaved
  <2>2. Written' = Written /\ SessionsInUse' = SessionsInUse
    BY <2>1
  <2>. HIDE DEF Written
  <2>3. WrittenInv'
    BY <2>1, <2>2 DEF WrittenInv
  <2>. QED  BY <2>1, <2>2, <2>3 DEF Written
<1>9. CASE UNCHANGED relayVars
  BY <1>9 DEF relayVars, WrittenInv
<1>10. "sub" \in Connections
  BY DEF Connections
<1>. HIDE DEF RelayTypeOK, SessionsInUse, Written, Document!sharedVars
<1>. QED
  BY <1>1, <1>2, <1>3, <1>4, <1>5, <1>6, <1>7, <1>8, <1>9, <1>10 DEF RelayNext

(* The sessions of a room implement one shared document, on however many     *)
(* nodes they are: what they hold was sent by a client of some node, and     *)
(* nothing that is lost, late or delivered to the wrong session takes an     *)
(* edit away from them.                                                      *)
THEOREM RelayRefinesDocument == RelaySpec => SharedDocumentSpec
<1>1. RelayInit => WrittenInv /\ Document!Init
  BY DEF RelayInit, WrittenInv, Document!Init
<1>2. RelayTypeOK /\ MapsAreLive /\ NoEcho /\ WrittenInv /\ [RelayNext]_relayVars
        => WrittenInv' /\ [Document!Next]_(Document!sharedVars)
  BY RelayDocumentStep
<1>. QED
  BY <1>1, <1>2, RelayTypeCorrect, MapsCorrect, EchoCorrect, PTL
     DEF RelaySpec, SharedDocumentSpec, Document!Spec
=============================================================================
