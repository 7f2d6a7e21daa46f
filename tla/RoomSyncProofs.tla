---------------------------- MODULE RoomSyncProofs ----------------------------
(***************************************************************************)
(* Proofs about RoomSync, for any sets of browsers, sessions and edits.    *)
(***************************************************************************)
EXTENDS RoomSync, TLAPS

USE CopiesAssumption, NoneAssumption

-----------------------------------------------------------------------------
(* The messages in a queue. *)
Sent(q) == {q[i] : i \in 1 .. Len(q)}

(* A message that is sent joins those that are under way. *)
LEMMA SentAppend ==
  ASSUME NEW S, NEW q \in Seq(S), NEW m \in S
  PROVE  Append(q, m) \in Seq(S) /\ Sent(Append(q, m)) = Sent(q) \cup {m}
<1>. DEFINE a == Append(q, m)
<1>1. a \in Seq(S) /\ Len(a) = Len(q) + 1 /\ Len(q) \in Nat
  OBVIOUS
<1>2. \A i \in 1 .. Len(q) : a[i] = q[i]
  OBVIOUS
<1>3. a[Len(q) + 1] = m
  OBVIOUS
<1>. HIDE DEF a
<1>4. \A i : i \in 1 .. Len(a) <=> i \in 1 .. Len(q) \/ i = Len(q) + 1
  BY <1>1
<1>5. Sent(a) = Sent(q) \cup {m}
  BY <1>2, <1>3, <1>4 DEF Sent
<1>. QED  BY <1>1, <1>5 DEF a

(* A message that is read is one of them, and the rest stay. *)
LEMMA SentTail ==
  ASSUME NEW S, NEW q \in Seq(S), q # <<>>
  PROVE  /\ Head(q) \in S /\ Tail(q) \in Seq(S)
         /\ Sent(q) = {Head(q)} \cup Sent(Tail(q))
<1>. DEFINE t == Tail(q)
<1>1. t \in Seq(S) /\ Len(t) = Len(q) - 1 /\ Len(q) \in Nat /\ Len(q) > 0 /\ Head(q) \in S
  OBVIOUS
<1>2. \A i \in 1 .. Len(t) : t[i] = q[i + 1]
  OBVIOUS
<1>3. Head(q) = q[1]
  OBVIOUS
<1>. HIDE DEF t
<1>4. \A i \in 1 .. Len(q) : i = 1 \/ (i - 1 \in 1 .. Len(t) /\ q[i] = t[i - 1])
  BY <1>1, <1>2
<1>5. \A i \in 1 .. Len(t) : i + 1 \in 1 .. Len(q)
  BY <1>1
<1>6. Sent(q) = {q[1]} \cup Sent(t)
  <2>1. \A i \in 1 .. Len(q) : q[i] \in {q[1]} \cup Sent(t)
    BY <1>4 DEF Sent
  <2>2. q[1] \in Sent(q)
    <3>1. 1 \in 1 .. Len(q)
      BY <1>1
    <3> QED  BY <3>1 DEF Sent
  <2>3. \A i \in 1 .. Len(t) : t[i] \in Sent(q)
    BY <1>2, <1>5 DEF Sent
  <2> QED  BY <2>1, <2>2, <2>3 DEF Sent
<1>. QED  BY <1>1, <1>3, <1>6 DEF t

(* Queues of no message and of one. *)
LEMMA SentNone == Sent(<<>>) = {}
BY DEF Sent

LEMMA SentOne ==
  ASSUME NEW m \in Message
  PROVE  <<m>> \in Seq(Message) /\ Sent(<<m>>) = {m}
<1>1. <<m>> \in Seq(Message) /\ Len(<<m>>) = 1 /\ <<m>>[1] = m
  OBVIOUS
<1>2. 1 .. 1 = {1}
  OBVIOUS
<1>. QED  BY <1>1, <1>2 DEF Sent

(* The two kinds of messages. *)
LEMMA MessageKinds ==
  ASSUME NEW es \in SUBSET Edits
  PROVE  /\ Step1(es) \in Message /\ Step1(es).type = "step1" /\ Step1(es).edits = es
         /\ Update(es) \in Message /\ Update(es).type = "update" /\ Update(es).edits = es
BY DEF Step1, Update, Message

-----------------------------------------------------------------------------
(* What the server's helpers do to the queues: they append one message to    *)
(* some of them.                                                             *)
LEMMA AddClientsType ==
  ASSUME SyncTypeOK, NEW s \in Sessions, NEW W \in SUBSET Browsers,
         doc' \in [Sessions -> SUBSET Edits], AddClients(s, W)
  PROVE  /\ attached' \in [Browsers -> BOOLEAN]
         /\ idleTimer' \in [Sessions -> BOOLEAN]
         /\ down' \in [Browsers -> Seq(Message)]
         /\ \A b \in Browsers :
              /\ attached'[b] <=> attached[b] \/ b \in W
              /\ b \notin W => down'[b] = down[b]
              /\ b \in W => /\ down'[b] = Append(down[b], Step1(doc'[s]))
                            /\ Sent(down'[b]) = Sent(down[b]) \cup {Step1(doc'[s])}
<1>1. Step1(doc'[s]) \in Message
  BY MessageKinds
<1>2. \A b \in Browsers :
        /\ Append(down[b], Step1(doc'[s])) \in Seq(Message)
        /\ Sent(Append(down[b], Step1(doc'[s]))) = Sent(down[b]) \cup {Step1(doc'[s])}
  BY <1>1, SentAppend DEF SyncTypeOK
<1>3. \A b \in Browsers :
        /\ attached'[b] = (attached[b] \/ b \in W)
        /\ down'[b] = IF b \in W THEN Append(down[b], Step1(doc'[s])) ELSE down[b]
  BY DEF AddClients
<1>4. attached' \in [Browsers -> BOOLEAN]
  BY Zenon DEF AddClients, SyncTypeOK
<1>5. down' \in [Browsers -> Seq(Message)]
  BY <1>2 DEF AddClients, SyncTypeOK
<1>6. (W = {}) \in BOOLEAN
  OBVIOUS
<1>7. idleTimer' \in [Sessions -> BOOLEAN]
  BY <1>6 DEF AddClients, SyncTypeOK
<1>. QED  BY <1>2, <1>3, <1>4, <1>5, <1>7

LEMMA BroadcastType ==
  ASSUME SyncTypeOK, NEW s, NEW es \in SUBSET Edits, NEW sender
  PROVE  Broadcast(s, es, sender) \in [Browsers -> Seq(Message)]
<1>1. \A b \in Browsers : Append(down[b], Update(es)) \in Seq(Message)
  BY MessageKinds, SentAppend DEF SyncTypeOK
<1>. QED  BY <1>1 DEF Broadcast, SyncTypeOK

LEMMA ApplyUpdateType ==
  ASSUME SyncTypeOK, NEW s \in Sessions, NEW es \in SUBSET Edits, NEW sender,
         ApplyUpdate(s, es, sender)
  PROVE  /\ doc' \in [Sessions -> SUBSET Edits]
         /\ down' \in [Browsers -> Seq(Message)]
<1>1. es \ doc[s] \in SUBSET Edits
  OBVIOUS
<1>2. Broadcast(s, es \ doc[s], sender) \in [Browsers -> Seq(Message)]
  BY <1>1, BroadcastType
<1>3. doc' \in [Sessions -> SUBSET Edits]
  BY DEF ApplyUpdate, SyncTypeOK
<1>. QED  BY <1>2, <1>3 DEF ApplyUpdate, SyncTypeOK

(* A browser's connection closes. *)
LEMMA DisconnectType ==
  ASSUME SyncTypeOK, NEW b \in Browsers, Disconnect(b)
  PROVE  /\ up' \in [Browsers -> Seq(Message)]
         /\ down' \in [Browsers -> Seq(Message)]
         /\ serving' \in [Browsers -> Sessions \cup {None}]
         /\ attached' \in [Browsers -> BOOLEAN]
         /\ idleTimer' \in [Sessions -> BOOLEAN]
         /\ UNCHANGED <<missed, life, doc, registered, stored>>
<1>1. up' \in [Browsers -> Seq(Message)] /\ down' \in [Browsers -> Seq(Message)]
  BY DEF Disconnect, SyncTypeOK
<1>2. serving' \in [Browsers -> Sessions \cup {None}] /\ attached' \in [Browsers -> BOOLEAN]
  BY DEF Disconnect, SyncTypeOK
<1>3. \A s \in Sessions :
        (idleTimer[s] \/ (b \in Bound(s) /\ Clients(s) \subseteq {b})) \in BOOLEAN
  OBVIOUS
<1>4. idleTimer' \in [Sessions -> BOOLEAN]
  BY <1>3, Zenon DEF Disconnect
<1>. QED  BY <1>1, <1>2, <1>4 DEF Disconnect

(* How connections, sessions and the registry hang together. *)
Linked ==
  /\ \A b \in Browsers :
       attached[b] => /\ status[b] = "connected"
                      /\ serving[b] \in Sessions
                      /\ life[serving[b]] \in {"ready", "destroyed"}
  /\ \A b \in Browsers : status[b] # "connected" => serving[b] = None
  /\ \A b \in Browsers : ~attached[b] => down[b] = <<>>
  /\ registered # None => life[registered] = "ready"

(* The hook, the provider, the connections and the sessions keep the types.  *)
LEMMA SyncTypeStep ==
  ASSUME SyncTypeOK, Linked, [SyncNext]_syncVars
  PROVE  SyncTypeOK'
<1>. USE DEF SyncTypeOK, ConnectionStatus, Lives, wireVars, sessionVars, browserVars
<1>1. ASSUME NEW b \in Browsers, OpenRoom(b) \/ Reconnect(b)
      PROVE  SyncTypeOK'
  BY <1>1 DEF OpenRoom, Reconnect
<1>2. ASSUME NEW b \in Browsers, Connect(b)
      PROVE  SyncTypeOK'
  <2>1. <<Step1(text[b])>> \in Seq(Message)
    BY MessageKinds, SentOne
  <2>2. /\ up' \in [Browsers -> Seq(Message)]
        /\ status' \in [Browsers -> ConnectionStatus]
        /\ missed' \in [Browsers -> BOOLEAN]
    BY <1>2, <2>1 DEF Connect
  <2>3. CASE registered # None /\ serving' = [serving EXCEPT ![b] = registered]
             /\ AddClients(registered, {b}) /\ UNCHANGED life
    <3>1. registered \in Sessions /\ {b} \in SUBSET Browsers
          /\ doc' \in [Sessions -> SUBSET Edits]
      BY <1>2, <2>3 DEF Connect
    <3>. QED  BY <1>2, <2>2, <2>3, <3>1, AddClientsType DEF Connect
  <2>4. CASE \E s \in Sessions : /\ life' = [life EXCEPT ![s] = "hydrating"]
                                 /\ serving' = [serving EXCEPT ![b] = s]
                                 /\ UNCHANGED <<attached, down, idleTimer>>
    BY <1>2, <2>2, <2>4 DEF Connect
  <2>. QED  BY <1>2, <2>3, <2>4 DEF Connect
<1>3. ASSUME NEW b \in Browsers, ConnectionLost(b)
      PROVE  SyncTypeOK'
  BY <1>3, DisconnectType DEF ConnectionLost
<1>4. ASSUME NEW b \in Browsers, LeaveRoom(b)
      PROVE  SyncTypeOK'
  BY <1>4, DisconnectType DEF LeaveRoom
<1>5. ASSUME NEW b \in Browsers, NEW e \in Edits, Type(b, e)
      PROVE  SyncTypeOK'
  <2>1. Append(up[b], Update({e})) \in Seq(Message)
    BY MessageKinds, SentAppend
  <2>2. up' \in [Browsers -> Seq(Message)]
    BY <1>5, <2>1 DEF Type
  <2>3. typed' \in SUBSET Edits /\ text' \in [Browsers -> SUBSET Edits]
    BY <1>5 DEF Type
  <2>. QED  BY <1>5, <2>2, <2>3 DEF Type
<1>6. ASSUME NEW b \in Browsers, BrowserReads(b)
      PROVE  SyncTypeOK'
  <2>. DEFINE m == Head(down[b])
  <2>1. m \in Message /\ Tail(down[b]) \in Seq(Message)
    BY <1>6, SentTail DEF BrowserReads
  <2>2. text[b] \ m.edits \in SUBSET Edits /\ m.edits \in SUBSET Edits
    BY <2>1 DEF Message
  <2>3. Append(up[b], Update(text[b] \ m.edits)) \in Seq(Message)
    BY <2>2, MessageKinds, SentAppend
  <2>4. down' \in [Browsers -> Seq(Message)]
    BY <1>6, <2>1 DEF BrowserReads
  <2>. DEFINE answer == Append(up[b], Update(text[b] \ m.edits))
              merged == text[b] \cup m.edits
  <2>5. \/ up' = [up EXCEPT ![b] = answer] /\ UNCHANGED text
        \/ text' = [text EXCEPT ![b] = merged] /\ UNCHANGED up
    BY <1>6 DEF BrowserReads
  <2>6. answer \in Seq(Message) /\ merged \in SUBSET Edits
    BY <2>2, <2>3
  <2>. HIDE DEF m, answer, merged
  <2>7. up \in [Browsers -> Seq(Message)] /\ text \in [Browsers -> SUBSET Edits]
    BY DEF SyncTypeOK
  <2>8. CASE up' = [up EXCEPT ![b] = answer] /\ UNCHANGED text
    <3>1. up' \in [Browsers -> Seq(Message)]
      BY ONLY <2>6, <2>7, <2>8
    <3>. QED  BY <1>6, <2>4, <2>7, <2>8, <3>1 DEF BrowserReads
  <2>9. CASE text' = [text EXCEPT ![b] = merged] /\ UNCHANGED up
    <3>1. text' \in [Browsers -> SUBSET Edits]
      BY ONLY <2>6, <2>7, <2>9
    <3>. QED  BY <1>6, <2>4, <2>7, <2>9, <3>1 DEF BrowserReads
  <2>. QED  BY <2>5, <2>8, <2>9
<1>7. ASSUME NEW b \in Browsers, ServerReads(b)
      PROVE  SyncTypeOK'
  <2>. DEFINE m == Head(up[b])
              s == serving[b]
  <2>1. m \in Message /\ Tail(up[b]) \in Seq(Message)
    BY <1>7, SentTail DEF ServerReads
  <2>2. up' \in [Browsers -> Seq(Message)]
    BY <1>7, <2>1 DEF ServerReads
  <2>3. CASE attached[b]
    <3>1. s \in Sessions /\ doc[s] \ m.edits \in SUBSET Edits /\ m.edits \in SUBSET Edits
      BY <2>1, <2>3 DEF Linked, Message
    <3>2. HandleMessage(s, b, m) /\ UNCHANGED missed
      BY <1>7, <2>3 DEF ServerReads
    <3>3. CASE m.type = "step1"
      <4>1. Append(down[b], Update(doc[s] \ m.edits)) \in Seq(Message)
        BY <3>1, MessageKinds, SentAppend
      <4>2. down' = [down EXCEPT ![b] = Append(@, Update(doc[s] \ m.edits))] /\ doc' = doc
        BY <3>2, <3>3 DEF HandleMessage
      <4>. HIDE DEF m, s
      <4>3. down' \in [Browsers -> Seq(Message)]
        BY <4>1, <4>2
      <4>. QED  BY <1>7, <2>2, <3>2, <4>2, <4>3 DEF ServerReads
    <3>4. CASE m.type # "step1"
      <4>1. ApplyUpdate(s, m.edits, b)
        BY <3>2, <3>4 DEF HandleMessage
      <4>. HIDE DEF m, s
      <4>. QED  BY <1>7, <2>2, <3>1, <3>2, <4>1, ApplyUpdateType DEF ServerReads
    <3>. QED  BY <3>3, <3>4
  <2>4. CASE ~attached[b]
    <3>1. missed' \in [Browsers -> BOOLEAN]
      <4>1. (missed[b] \/ m.type = "step1") \in BOOLEAN
        OBVIOUS
      <4>. QED  BY <1>7, <2>4, <4>1, Zenon DEF ServerReads
    <3>. QED  BY <1>7, <2>2, <2>4, <3>1 DEF ServerReads
  <2>. QED  BY <2>3, <2>4
<1>8. ASSUME NEW s \in Sessions, NEW e \in Edits, RemoteUpdate(s, e)
      PROVE  SyncTypeOK'
  <2>1. doc' \in [Sessions -> SUBSET Edits] /\ down' \in [Browsers -> Seq(Message)]
    BY <1>8, ApplyUpdateType DEF RemoteUpdate
  <2>2. typed' \in SUBSET Edits
    BY <1>8 DEF RemoteUpdate
  <2>. QED  BY <1>8, <2>1, <2>2 DEF RemoteUpdate
<1>9. ASSUME NEW s \in Sessions, HydrateDone(s)
      PROVE  SyncTypeOK'
  <2>1. doc' \in [Sessions -> SUBSET Edits]
    BY <1>9 DEF HydrateDone, Hydrated
  <2>. DEFINE W == {b \in Browsers : serving[b] = s /\ ~attached[b]}
  <2>2. AddClients(s, W) /\ W \in SUBSET Browsers
    BY <1>9 DEF HydrateDone
  <2>. HIDE DEF W
  <2>. QED  BY <1>9, <2>1, <2>2, AddClientsType DEF HydrateDone
<1>10. ASSUME NEW s \in Sessions, IdleTimerFires(s)
       PROVE  SyncTypeOK'
  <2>1. CASE registered = None
    BY <1>10, <2>1 DEF IdleTimerFires
  <2>2. CASE registered # None
    BY <1>10, <2>2 DEF IdleTimerFires
  <2>. QED  BY <2>1, <2>2
<1>11. ASSUME NEW s \in Sessions, Collect(s) \/ SnapshotSaved(s)
       PROVE  SyncTypeOK'
  BY <1>11 DEF Collect, SnapshotSaved
<1>12. CASE ServerRestart
  BY <1>12 DEF ServerRestart
<1>13. CASE UNCHANGED syncVars
  BY <1>13 DEF syncVars
<1>. QED
  BY <1>1, <1>2, <1>3, <1>4, <1>5, <1>6, <1>7, <1>8, <1>9, <1>10, <1>11, <1>12, <1>13
     DEF SyncNext

-----------------------------------------------------------------------------
(* A session that merges es tells its other clients what is new, and only    *)
(* them.                                                                     *)
LEMMA ApplyUpdateMerges ==
  ASSUME SyncTypeOK, NEW s \in Sessions, NEW es \in SUBSET Edits, NEW sender,
         ApplyUpdate(s, es, sender)
  PROVE  doc'[s] = doc[s] \cup es /\ \A r \in Sessions \ {s} : doc'[r] = doc[r]
BY DEF ApplyUpdate, SyncTypeOK

LEMMA ApplyUpdateSkips ==
  ASSUME NEW s, NEW es, NEW sender, ApplyUpdate(s, es, sender),
         NEW b \in Browsers, b \notin Clients(s) \/ b = sender
  PROVE  down'[b] = down[b]
BY DEF ApplyUpdate, Broadcast

(* What of es is new to session s. *)
News(s, es) == es \ doc[s]

LEMMA ApplyUpdateTells ==
  ASSUME NEW s, NEW es, NEW sender, ApplyUpdate(s, es, sender),
         NEW b \in Browsers, b \in Clients(s), b # sender
  PROVE  \/ News(s, es) = {} /\ down'[b] = down[b]
         \/ down'[b] = Append(down[b], Update(News(s, es)))
BY DEF ApplyUpdate, Broadcast, News

(* What the closing of a connection leaves behind. *)
LEMMA DisconnectLeaves ==
  ASSUME SyncTypeOK, NEW b \in Browsers, Disconnect(b)
  PROVE  /\ ~attached'[b] /\ serving'[b] = None /\ up'[b] = <<>> /\ down'[b] = <<>>
         /\ \A a \in Browsers \ {b} :
              /\ attached'[a] = attached[a] /\ serving'[a] = serving[a]
              /\ up'[a] = up[a] /\ down'[a] = down[a]
         /\ UNCHANGED <<missed, life, doc, registered, stored>>
BY DEF Disconnect, SyncTypeOK

(* Listeners, connections and the registry are changed together. *)
LEMMA LinkedStep ==
  ASSUME SyncTypeOK, Linked, [SyncNext]_syncVars
  PROVE  Linked'
<1>. USE DEF Linked, wireVars, sessionVars, browserVars
<1>1. ASSUME NEW b \in Browsers, OpenRoom(b) \/ Reconnect(b)
      PROVE  Linked'
  BY <1>1 DEF OpenRoom, Reconnect, SyncTypeOK
<1>2. ASSUME NEW b \in Browsers, Connect(b)
      PROVE  Linked'
  <2>1. /\ status'[b] = "connected" /\ ~attached[b] /\ registered' = registered
        /\ \A a \in Browsers \ {b} : status'[a] = status[a]
    BY <1>2 DEF Connect, SyncTypeOK
  <2>2. CASE registered # None /\ serving' = [serving EXCEPT ![b] = registered]
             /\ AddClients(registered, {b}) /\ UNCHANGED life
    <3>1. registered \in Sessions /\ {b} \in SUBSET Browsers
          /\ doc' \in [Sessions -> SUBSET Edits]
      BY <1>2, <2>2 DEF Connect, SyncTypeOK
    <3>2. /\ attached'[b]
          /\ \A a \in Browsers \ {b} : (attached'[a] <=> attached[a]) /\ down'[a] = down[a]
      <4>1. \A a \in Browsers :
              /\ attached'[a] <=> attached[a] \/ a \in {b}
              /\ a \notin {b} => down'[a] = down[a]
        BY <2>2, <3>1, AddClientsType
      <4>. HIDE DEF Linked
      <4>2. b \in {b} /\ \A a \in Browsers \ {b} : a \in Browsers /\ a \notin {b}
        OBVIOUS
      <4>3. attached'[b]
        BY <4>1, <4>2
      <4>4. \A a \in Browsers \ {b} : (attached'[a] <=> attached[a]) /\ down'[a] = down[a]
        BY <4>1, <4>2
      <4>. QED  BY <4>3, <4>4
    <3>6. /\ serving'[b] = registered
          /\ \A a \in Browsers \ {b} : serving'[a] = serving[a]
      BY <2>2 DEF SyncTypeOK
    <3>3. registered # None /\ life[registered] = "ready" /\ life' = life
      BY <2>2
    <3>4. \A a \in Browsers : a = b \/ a \in Browsers \ {b}
      OBVIOUS
    <3>5. \A a \in Browsers :
            /\ attached'[a] => /\ status'[a] = "connected"
                               /\ serving'[a] \in Sessions
                               /\ life'[serving'[a]] \in {"ready", "destroyed"}
            /\ status'[a] # "connected" => serving'[a] = None
            /\ ~attached'[a] => down'[a] = <<>>
      BY <2>1, <3>1, <3>2, <3>3, <3>4, <3>6
    <3>. QED  BY <2>1, <3>3, <3>5
  <2>3. ASSUME NEW s \in Sessions, registered = None, life[s] = "unused",
               life' = [life EXCEPT ![s] = "hydrating"],
               serving' = [serving EXCEPT ![b] = s],
               UNCHANGED <<attached, down, idleTimer>>
        PROVE  Linked'
    <3>1. \A a \in Browsers \ {b} : serving'[a] = serving[a]
      BY <2>3 DEF SyncTypeOK
    <3>2. \A r \in Sessions \ {s} : life'[r] = life[r]
      BY <2>3 DEF SyncTypeOK
    <3>. QED  BY <2>1, <2>3, <3>1, <3>2
  <2>. QED  BY <1>2, <2>2, <2>3 DEF Connect
<1>3. ASSUME NEW b \in Browsers, ConnectionLost(b) \/ LeaveRoom(b)
      PROVE  Linked'
  <2>1. status' = [status EXCEPT ![b] = "reconnecting"]
        \/ status' = [status EXCEPT ![b] = "disconnected"]
    BY <1>3 DEF ConnectionLost, LeaveRoom
  <2>2. Disconnect(b)
    BY <1>3 DEF ConnectionLost, LeaveRoom
  <2>3. /\ status'[b] # "connected"
        /\ \A a \in Browsers \ {b} : status'[a] = status[a]
    BY <2>1 DEF SyncTypeOK
  <2>4. /\ ~attached'[b] /\ serving'[b] = None /\ down'[b] = <<>>
        /\ \A a \in Browsers \ {b} :
             attached'[a] = attached[a] /\ serving'[a] = serving[a] /\ down'[a] = down[a]
        /\ UNCHANGED <<life, registered>>
    BY <2>2, DisconnectLeaves
  <2>. QED  BY <2>3, <2>4
<1>4. ASSUME NEW b \in Browsers, NEW e \in Edits, Type(b, e)
      PROVE  Linked'
  BY <1>4 DEF Type
<1>5. ASSUME NEW b \in Browsers, BrowserReads(b)
      PROVE  Linked'
  BY <1>5 DEF BrowserReads, SyncTypeOK
<1>6. ASSUME NEW s \in Sessions, NEW es \in SUBSET Edits, NEW sender,
             ApplyUpdate(s, es, sender),
             UNCHANGED <<status, serving, attached, life, registered>>
      PROVE  Linked'
  <2>1. \A b \in Browsers : ~attached[b] => b \notin Clients(s)
    BY DEF Clients, Bound
  <2>2. \A b \in Browsers : ~attached[b] => down'[b] = down[b]
    BY <1>6, <2>1, ApplyUpdateSkips
  <2>. QED  BY <1>6, <2>2
<1>7. ASSUME NEW b \in Browsers, ServerReads(b)
      PROVE  Linked'
  <2>. DEFINE m == Head(up[b])
  <2>1. UNCHANGED <<status, serving, attached, life, registered>>
    BY <1>7 DEF ServerReads
  <2>2. CASE ~attached[b]
    BY <1>7, <2>1, <2>2 DEF ServerReads
  <2>3. CASE attached[b] /\ m.type = "step1"
    <3>1. \A a \in Browsers \ {b} : down'[a] = down[a]
      BY <1>7, <2>3 DEF ServerReads, HandleMessage, SyncTypeOK
    <3>. QED  BY <2>1, <2>3, <3>1
  <2>4. CASE attached[b] /\ m.type # "step1"
    <3>1. serving[b] \in Sessions /\ m.edits \in SUBSET Edits
      <4>1. m \in Message
        BY <1>7, SentTail DEF ServerReads, SyncTypeOK
      <4>. QED  BY <2>4, <4>1 DEF Message
    <3>2. ApplyUpdate(serving[b], m.edits, b)
      BY <1>7, <2>4 DEF ServerReads, HandleMessage
    <3>. HIDE DEF m, Linked
    <3>. QED  BY <1>6, <2>1, <3>1, <3>2
  <2>. QED  BY <2>2, <2>3, <2>4
<1>8. ASSUME NEW s \in Sessions, NEW e \in Edits, RemoteUpdate(s, e)
      PROVE  Linked'
  <2>. HIDE DEF Linked
  <2>. QED  BY <1>6, <1>8 DEF RemoteUpdate
<1>9. ASSUME NEW s \in Sessions, HydrateDone(s)
      PROVE  Linked'
  <2>. DEFINE W == {b \in Browsers : serving[b] = s /\ ~attached[b]}
  <2>1. AddClients(s, W) /\ W \in SUBSET Browsers
    BY <1>9 DEF HydrateDone
  <2>2. /\ doc' \in [Sessions -> SUBSET Edits]
        /\ life' = [life EXCEPT ![s] = "ready"]
        /\ registered' = s
        /\ UNCHANGED <<status, serving>>
    BY <1>9 DEF HydrateDone, Hydrated, SyncTypeOK
  <2>3. \A b \in Browsers : /\ attached'[b] <=> attached[b] \/ b \in W
                            /\ b \notin W => down'[b] = down[b]
    BY <2>1, <2>2, AddClientsType
  <2>4. \A b \in W : status[b] = "connected" /\ serving[b] = s
    OBVIOUS
  <2>. HIDE DEF W
  <2>. QED  BY <2>2, <2>3, <2>4 DEF SyncTypeOK
<1>10. ASSUME NEW s \in Sessions, IdleTimerFires(s)
       PROVE  Linked'
  <2>1. CASE registered = None
    BY <1>10, <2>1 DEF IdleTimerFires
  <2>2. CASE registered # None
    <3>1. /\ life' = [life EXCEPT ![registered] = "destroyed"] /\ registered' = None
          /\ UNCHANGED <<browserVars, wireVars>>
      BY <1>10, <2>2 DEF IdleTimerFires
    <3>2. \A t \in Sessions : life'[t] = life[t] \/ life'[t] = "destroyed"
      BY <3>1 DEF SyncTypeOK
    <3>. QED  BY <3>1, <3>2
  <2>. QED  BY <2>1, <2>2
<1>11. ASSUME NEW s \in Sessions, Collect(s)
       PROVE  Linked'
  BY <1>11 DEF Collect, SyncTypeOK
<1>12. ASSUME NEW s \in Sessions, SnapshotSaved(s)
       PROVE  Linked'
  BY <1>12 DEF SnapshotSaved
<1>13. CASE ServerRestart
  BY <1>13 DEF ServerRestart
<1>14. CASE UNCHANGED syncVars
  BY <1>14 DEF syncVars
<1>. QED
  BY <1>1, <1>2, <1>3, <1>4, <1>5, <1>7, <1>8, <1>9, <1>10, <1>11, <1>12, <1>13, <1>14
     DEF SyncNext

LEMMA LinkedInvariant == SyncSpec => [](SyncTypeOK /\ Linked)
<1>1. SyncInit => SyncTypeOK /\ Linked
  BY DEF SyncInit, SyncTypeOK, Linked, ConnectionStatus, Lives
<1>. QED  BY <1>1, SyncTypeStep, LinkedStep, PTL DEF SyncSpec

(* Every reachable state of browsers, connections and sessions is well       *)
(* typed.                                                                    *)
THEOREM SyncTypeCorrect == SyncSpec => []SyncTypeOK
BY LinkedInvariant, PTL

-----------------------------------------------------------------------------
(* What is under way to and from browser b makes up for what its copy and    *)
(* its session's do not share:                                               *)
(*  - nobody sends what it does not have;                                    *)
(*  - what b has, its session has, or an update tells it, or b will be asked;*)
(*  - as long as b's own Step 1 is not missed, it waits for a listener, and  *)
(*    what a live session has then is in b, or on its way, or asked for.     *)
UpKnown(b) == \A m \in Sent(up[b]) : m.edits \subseteq text[b]

DownKnown(b) == attached[b] => \A m \in Sent(down[b]) : m.edits \subseteq doc[serving[b]]

BrowserIsHeard(b) ==
  attached[b] => \A e \in text[b] :
                   \/ e \in doc[serving[b]]
                   \/ \E m \in Sent(up[b]) : m.type = "update" /\ e \in m.edits
                   \/ \E m \in Sent(down[b]) : m.type = "step1"

StepOneWaits(b) ==
  serving[b] # None /\ ~attached[b] /\ ~missed[b] => \E m \in Sent(up[b]) : m.type = "step1"

BrowserIsTold(b) ==
  attached[b] /\ ~missed[b] /\ life[serving[b]] # "destroyed" =>
    \A e \in doc[serving[b]] :
      \/ e \in text[b]
      \/ \E m \in Sent(down[b]) : m.type = "update" /\ e \in m.edits
      \/ \E m \in Sent(up[b]) : m.type = "step1"

Queues(b) ==
  UpKnown(b) /\ DownKnown(b) /\ BrowserIsHeard(b) /\ StepOneWaits(b) /\ BrowserIsTold(b)

QueueInv == \A b \in Browsers : Queues(b)

(* A browser that has no connection. *)
LEMMA QueuesGone ==
  ASSUME NEW a \in Browsers, up'[a] = <<>>, ~attached'[a], serving'[a] = None
  PROVE  Queues(a)'
<1>1. Sent(up'[a]) = {}
  BY SentNone
<1>. QED
  BY <1>1 DEF Queues, UpKnown, DownKnown, BrowserIsHeard, StepOneWaits, BrowserIsTold

(* A browser whose connection and session are not touched. *)
LEMMA QueuesFrame ==
  ASSUME Linked, NEW a \in Browsers, Queues(a),
         text'[a] = text[a], up'[a] = up[a], down'[a] = down[a],
         serving'[a] = serving[a], attached'[a] <=> attached[a], missed'[a] <=> missed[a],
         attached[a] => /\ doc'[serving[a]] = doc[serving[a]]
                        /\ \/ life'[serving[a]] = life[serving[a]]
                           \/ life'[serving[a]] = "destroyed"
  PROVE  Queues(a)'
<1>1. UpKnown(a)' /\ StepOneWaits(a)'
  BY DEF Queues, UpKnown, StepOneWaits
<1>2. DownKnown(a)' /\ BrowserIsHeard(a)'
  BY DEF Queues, DownKnown, BrowserIsHeard
<1>3. BrowserIsTold(a)'
  BY DEF Queues, BrowserIsTold
<1>. QED  BY <1>1, <1>2, <1>3 DEF Queues

(* A browser whose connection is taken by a session: the session asks it.    *)
LEMMA QueuesAttach ==
  ASSUME SyncTypeOK, NEW a \in Browsers, NEW s \in Sessions,
         doc' \in [Sessions -> SUBSET Edits],
         UpKnown(a)', down[a] = <<>>, serving'[a] = s, attached'[a],
         Sent(down'[a]) = Sent(down[a]) \cup {Step1(doc'[s])},
         ~missed'[a] => \E m \in Sent(up'[a]) : m.type = "step1"
  PROVE  Queues(a)'
<1>1. /\ Step1(doc'[s]) \in Sent(down'[a])
      /\ \A m \in Sent(down'[a]) : m = Step1(doc'[s])
  BY SentNone
<1>2. Step1(doc'[s]).type = "step1" /\ Step1(doc'[s]).edits = doc'[s]
  BY MessageKinds
<1>3. DownKnown(a)' /\ BrowserIsHeard(a)'
  BY <1>1, <1>2 DEF DownKnown, BrowserIsHeard
<1>4. StepOneWaits(a)' /\ BrowserIsTold(a)'
  BY DEF StepOneWaits, BrowserIsTold
<1>. QED  BY <1>3, <1>4 DEF Queues

(* A session merges es: every other client of it is told what is new. *)
LEMMA QueuesHear ==
  ASSUME SyncTypeOK, Linked, NEW s \in Sessions, NEW es \in SUBSET Edits, NEW sender,
         ApplyUpdate(s, es, sender), UNCHANGED <<life, serving, attached, missed, text>>,
         NEW a \in Browsers, a # sender, up'[a] = up[a], Queues(a)
  PROVE  Queues(a)'
<1>1. doc'[s] = doc[s] \cup es /\ \A r \in Sessions \ {s} : doc'[r] = doc[r]
  BY ApplyUpdateMerges
<1>2. CASE ~(attached[a] /\ serving[a] = s)
  <2>1. a \notin Clients(s)
    BY <1>2 DEF Clients, Bound
  <2>2. attached[a] => serving[a] \in Sessions \ {s}
    BY <1>2 DEF Linked
  <2>3. down'[a] = down[a]
    BY <2>1, ApplyUpdateSkips
  <2>. QED  BY <1>1, <2>2, <2>3, QueuesFrame
<1>3. CASE attached[a] /\ serving[a] = s
  <2>1. /\ News(s, es) \in SUBSET Edits
        /\ Update(News(s, es)) \in Message
        /\ Update(News(s, es)).type = "update"
        /\ Update(News(s, es)).edits = News(s, es)
    <3>1. News(s, es) \in SUBSET Edits
      BY DEF News
    <3>. QED  BY <3>1, MessageKinds
  <2>2. \A e \in es : e \in doc[s] \/ e \in News(s, es)
    BY DEF News
  <2>3. \A e \in News(s, es) : e \in es
    BY DEF News
  <2>4. \/ down'[a] = down[a] /\ (News(s, es) = {} \/ life[s] = "destroyed")
        \/ down'[a] = Append(down[a], Update(News(s, es)))
    <3>1. CASE life[s] = "destroyed"
      <4>1. a \notin Clients(s)
        BY <3>1 DEF Clients
      <4>. QED  BY <3>1, <4>1, ApplyUpdateSkips
    <3>2. CASE life[s] # "destroyed"
      <4>1. a \in Clients(s)
        BY <1>3, <3>2 DEF Clients, Bound
      <4>. QED  BY <4>1, ApplyUpdateTells
    <3>. QED  BY <3>1, <3>2
  <2>5. /\ \A m \in Sent(down[a]) : m \in Sent(down'[a])
        /\ \A m \in Sent(down'[a]) : m \in Sent(down[a]) \/ m = Update(News(s, es))
        /\ \/ News(s, es) = {} \/ life[s] = "destroyed"
           \/ Update(News(s, es)) \in Sent(down'[a])
    <3>1. CASE down'[a] = Append(down[a], Update(News(s, es)))
      <4>1. Sent(down'[a]) = Sent(down[a]) \cup {Update(News(s, es))}
        BY <2>1, <3>1, SentAppend DEF SyncTypeOK
      <4>. QED  BY <4>1
    <3>. QED  BY <2>4, <3>1
  <2>6. UpKnown(a)' /\ StepOneWaits(a)'
    BY DEF Queues, UpKnown, StepOneWaits
  <2>7. DownKnown(a)'
    BY <1>1, <1>3, <2>1, <2>3, <2>5 DEF Queues, DownKnown
  <2>8. BrowserIsHeard(a)'
    BY <1>1, <1>3, <2>5 DEF Queues, BrowserIsHeard
  <2>9. BrowserIsTold(a)'
    BY <1>1, <1>3, <2>1, <2>2, <2>5 DEF Queues, BrowserIsTold
  <2>. QED  BY <2>6, <2>7, <2>8, <2>9 DEF Queues
<1>. QED  BY <1>2, <1>3

(* Every step of browsers, connections and sessions keeps the queues so.     *)
LEMMA QueueStep ==
  ASSUME SyncTypeOK, SyncTypeOK', Linked, QueueInv, [SyncNext]_syncVars
  PROVE  QueueInv'
<1>. SUFFICES ASSUME NEW a \in Browsers
              PROVE  Queues(a)'
  BY DEF QueueInv
<1>0. Queues(a) /\ (attached[a] => serving[a] \in Sessions)
  BY DEF QueueInv, Linked
<1>. USE DEF wireVars, sessionVars, browserVars
<1>1. ASSUME NEW b \in Browsers, OpenRoom(b) \/ Reconnect(b)
      PROVE  Queues(a)'
  BY <1>0, <1>1, QueuesFrame DEF OpenRoom, Reconnect
<1>2. ASSUME NEW b \in Browsers, Connect(b)
      PROVE  Queues(a)'
  <2>1. /\ up' = [up EXCEPT ![b] = <<Step1(text[b])>>]
        /\ missed' = [missed EXCEPT ![b] = FALSE]
        /\ UNCHANGED <<doc, text>>
        /\ ~attached[b] /\ down[b] = <<>>
    BY <1>2 DEF Connect, Linked
  <2>2. up'[b] = <<Step1(text[b])>> /\ ~missed'[b]
    BY <2>1 DEF SyncTypeOK
  <2>3. Sent(up'[b]) = {Step1(text[b])} /\ Step1(text[b]).edits = text[b]
        /\ Step1(text[b]).type = "step1"
    BY <2>2, SentOne, MessageKinds DEF SyncTypeOK
  <2>4. UpKnown(b)' /\ \E m \in Sent(up'[b]) : m.type = "step1"
    BY <2>1, <2>3 DEF UpKnown
  <2>5. a # b => up'[a] = up[a] /\ (missed'[a] <=> missed[a])
    BY <2>1 DEF SyncTypeOK
  <2>6. CASE registered # None /\ serving' = [serving EXCEPT ![b] = registered]
             /\ AddClients(registered, {b}) /\ UNCHANGED life
    <3>1. registered \in Sessions /\ {b} \in SUBSET Browsers
          /\ doc' \in [Sessions -> SUBSET Edits]
      BY <2>6 DEF SyncTypeOK
    <3>2. /\ attached'[a] <=> attached[a] \/ a \in {b}
          /\ a \notin {b} => down'[a] = down[a]
          /\ a \in {b} => Sent(down'[a]) = Sent(down[a]) \cup {Step1(doc'[registered])}
      <4>. DEFINE W == {b}
      <4>1. W \in SUBSET Browsers /\ AddClients(registered, W)
        BY <2>6, <3>1
      <4>. HIDE DEF W
      <4>2. /\ attached'[a] <=> attached[a] \/ a \in W
            /\ a \notin W => down'[a] = down[a]
            /\ a \in W => Sent(down'[a]) = Sent(down[a]) \cup {Step1(doc'[registered])}
        BY <3>1, <4>1, AddClientsType
      <4>. QED  BY <4>2 DEF W
    <3>3. serving'[b] = registered /\ (a # b => serving'[a] = serving[a])
      BY <2>6 DEF SyncTypeOK
    <3>4. CASE a = b
      BY <2>1, <2>4, <3>1, <3>2, <3>3, <3>4, QueuesAttach
    <3>5. CASE a # b
      BY <1>0, <2>1, <2>5, <2>6, <3>2, <3>3, <3>5, QueuesFrame
    <3>. QED  BY <3>4, <3>5
  <2>7. ASSUME NEW s \in Sessions, life[s] = "unused",
               life' = [life EXCEPT ![s] = "hydrating"],
               serving' = [serving EXCEPT ![b] = s],
               UNCHANGED <<attached, down, idleTimer>>
        PROVE  Queues(a)'
    <3>1. CASE a = b
      <4>1. Queues(b)'
        BY <2>1, <2>4, <2>7
           DEF Queues, DownKnown, BrowserIsHeard, StepOneWaits, BrowserIsTold
      <4>. QED  BY <3>1, <4>1
    <3>2. CASE a # b
      <4>1. serving'[a] = serving[a]
        BY <2>7, <3>2 DEF SyncTypeOK
      <4>2. attached[a] => serving[a] # s
        BY <2>7 DEF Linked
      <4>3. attached[a] => life'[serving[a]] = life[serving[a]]
        BY <1>0, <2>7, <4>2 DEF SyncTypeOK
      <4>. QED  BY <1>0, <2>1, <2>5, <2>7, <3>2, <4>1, <4>3, QueuesFrame
    <3>. QED  BY <3>1, <3>2
  <2>. QED  BY <1>2, <2>6, <2>7 DEF Connect
<1>3. ASSUME NEW b \in Browsers, ConnectionLost(b) \/ LeaveRoom(b)
      PROVE  Queues(a)'
  <2>1. Disconnect(b)
    BY <1>3 DEF ConnectionLost, LeaveRoom
  <2>2. CASE a = b
    BY <2>1, <2>2, DisconnectLeaves, QueuesGone
  <2>3. CASE a # b
    <3>1. text'[a] = text[a]
      BY <1>3, <2>3 DEF ConnectionLost, LeaveRoom, SyncTypeOK
    <3>2. /\ attached'[a] = attached[a] /\ serving'[a] = serving[a]
          /\ up'[a] = up[a] /\ down'[a] = down[a]
          /\ UNCHANGED <<missed, life, doc>>
      BY <2>1, <2>3, DisconnectLeaves
    <3>. QED  BY <1>0, <3>1, <3>2, QueuesFrame
  <2>. QED  BY <2>2, <2>3
<1>4. ASSUME NEW b \in Browsers, NEW e \in Edits, Type(b, e)
      PROVE  Queues(a)'
  <2>1. UNCHANGED <<down, serving, attached, missed, life, doc>>
    BY <1>4 DEF Type
  <2>2. CASE a # b
    <3>1. text'[a] = text[a] /\ up'[a] = up[a]
      BY <1>4, <2>2 DEF Type, SyncTypeOK
    <3>. QED  BY <1>0, <2>1, <3>1, QueuesFrame
  <2>3. CASE a = b /\ status[a] = "connected"
    <3>1. text'[a] = text[a] \cup {e} /\ up'[a] = Append(up[a], Update({e}))
      BY <1>4, <2>3 DEF Type, SyncTypeOK
    <3>2. /\ Update({e}) \in Message /\ Update({e}).type = "update"
          /\ Update({e}).edits = {e}
      BY MessageKinds
    <3>3. Sent(up'[a]) = Sent(up[a]) \cup {Update({e})}
      BY <3>1, <3>2, SentAppend DEF SyncTypeOK
    <3>4. UpKnown(a)'
      BY <1>0, <3>1, <3>2, <3>3 DEF Queues, UpKnown
    <3>5. DownKnown(a)' /\ StepOneWaits(a)'
      BY <1>0, <2>1, <3>3 DEF Queues, DownKnown, StepOneWaits
    <3>6. BrowserIsHeard(a)'
      BY <1>0, <2>1, <3>1, <3>2, <3>3 DEF Queues, BrowserIsHeard
    <3>7. BrowserIsTold(a)'
      BY <1>0, <2>1, <3>1, <3>3 DEF Queues, BrowserIsTold
    <3>. QED  BY <3>4, <3>5, <3>6, <3>7 DEF Queues
  <2>4. CASE a = b /\ status[a] # "connected"
    <3>1. up'[a] = up[a] /\ text[a] \subseteq text'[a]
      BY <1>4, <2>4 DEF Type, SyncTypeOK
    <3>2. ~attached[a] /\ serving[a] = None
      BY <2>4 DEF Linked
    <3>. QED
      BY <1>0, <2>1, <3>1, <3>2
         DEF Queues, UpKnown, DownKnown, BrowserIsHeard, StepOneWaits, BrowserIsTold
  <2>. QED  BY <2>2, <2>3, <2>4
<1>5. ASSUME NEW b \in Browsers, BrowserReads(b)
      PROVE  Queues(a)'
  <2>. DEFINE m == Head(down[b])
              answer == Update(text[b] \ m.edits)
  <2>1. UNCHANGED <<serving, attached, missed, life, doc>>
    BY <1>5 DEF BrowserReads
  <2>2. CASE a # b
    <3>1. text'[a] = text[a] /\ up'[a] = up[a] /\ down'[a] = down[a]
      BY <1>5, <2>2 DEF BrowserReads, SyncTypeOK
    <3>. QED  BY <1>0, <2>1, <3>1, QueuesFrame
  <2>3. CASE a = b
    <3>1. m \in Message /\ down'[a] = Tail(down[a]) /\ attached[a]
          /\ Sent(down[a]) = {m} \cup Sent(down'[a])
      <4>1. down[a] # <<>> /\ down[a] \in Seq(Message) /\ down'[a] = Tail(down[a])
        BY <1>5, <2>3 DEF BrowserReads, SyncTypeOK
      <4>2. attached[a]
        BY <4>1 DEF Linked
      <4>. QED  BY <2>3, <4>1, <4>2, SentTail
    <3>2. m.edits \in SUBSET Edits /\ m.edits \subseteq doc[serving[a]]
      BY <1>0, <3>1 DEF Queues, DownKnown, Message
    <3>3. DownKnown(a)'
      BY <1>0, <2>1, <3>1 DEF Queues, DownKnown
    <3>4. CASE m.type = "step1"
      <4>1. text' = text /\ up'[a] = Append(up[a], answer)
        BY <1>5, <2>3, <3>4 DEF BrowserReads, SyncTypeOK
      <4>2. answer \in Message /\ answer.type = "update" /\ answer.edits = text[b] \ m.edits
        <5>1. text[b] \ m.edits \in SUBSET Edits
          BY DEF SyncTypeOK
        <5>. QED  BY <5>1, MessageKinds
      <4>. HIDE DEF answer
      <4>3. Sent(up'[a]) = Sent(up[a]) \cup {answer}
        BY <4>1, <4>2, SentAppend DEF SyncTypeOK
      <4>. HIDE DEF m
      <4>4. UpKnown(a)' /\ StepOneWaits(a)'
        BY <1>0, <2>1, <2>3, <4>1, <4>2, <4>3 DEF Queues, UpKnown, StepOneWaits
      <4>5. BrowserIsHeard(a)'
        BY <2>1, <2>3, <3>2, <4>1, <4>2, <4>3 DEF BrowserIsHeard
      <4>6. BrowserIsTold(a)'
        BY <1>0, <2>1, <3>1, <3>4, <4>1, <4>3 DEF Queues, BrowserIsTold
      <4>. QED  BY <3>3, <4>4, <4>5, <4>6 DEF Queues
    <3>5. CASE m.type # "step1"
      <4>1. up' = up /\ text'[a] = text[a] \cup m.edits
        BY <1>5, <2>3, <3>5 DEF BrowserReads, SyncTypeOK
      <4>. HIDE DEF m
      <4>2. UpKnown(a)' /\ StepOneWaits(a)'
        BY <1>0, <2>1, <4>1 DEF Queues, UpKnown, StepOneWaits
      <4>3. BrowserIsHeard(a)'
        BY <1>0, <2>1, <3>1, <3>2, <3>5, <4>1 DEF Queues, BrowserIsHeard
      <4>4. BrowserIsTold(a)'
        BY <1>0, <2>1, <3>1, <4>1 DEF Queues, BrowserIsTold
      <4>. QED  BY <3>3, <4>2, <4>3, <4>4 DEF Queues
    <3>. QED  BY <3>4, <3>5
  <2>. QED  BY <2>2, <2>3
<1>6. ASSUME NEW b \in Browsers, ServerReads(b)
      PROVE  Queues(a)'
  <2>. DEFINE m == Head(up[b])
              s == serving[b]
              answer == Update(doc[s] \ m.edits)
  <2>1. UNCHANGED <<status, text, serving, attached, life>>
    BY <1>6 DEF ServerReads
  <2>2. m \in Message /\ m.edits \in SUBSET Edits /\ m.edits \subseteq text[b]
        /\ Sent(up[b]) = {m} \cup Sent(up'[b])
    <3>1. up[b] # <<>> /\ up[b] \in Seq(Message) /\ up'[b] = Tail(up[b])
      BY <1>6 DEF ServerReads, SyncTypeOK
    <3>2. m \in Message /\ Sent(up[b]) = {m} \cup Sent(up'[b])
      BY <3>1, SentTail
    <3>. QED  BY <3>2 DEF QueueInv, Queues, UpKnown, Message
  <2>3. a # b => up'[a] = up[a] /\ (missed'[a] <=> missed[a])
    BY <1>6 DEF ServerReads, SyncTypeOK
  <2>4. CASE ~attached[b]
    <3>1. doc' = doc /\ down' = down
      BY <1>6, <2>4 DEF ServerReads
    <3>2. CASE a # b
      BY <1>0, <2>1, <2>3, <3>1, <3>2, QueuesFrame
    <3>3. CASE a = b
      <4>1. missed'[a] <=> missed[a] \/ m.type = "step1"
        <5>1. missed' = [missed EXCEPT ![b] = missed[b] \/ m.type = "step1"]
          BY <1>6, <2>4 DEF ServerReads
        <5>. HIDE DEF m
        <5>. QED  BY <3>3, <5>1 DEF SyncTypeOK
      <4>. HIDE DEF m
      <4>2. UpKnown(a)' /\ StepOneWaits(a)'
        BY <1>0, <2>1, <2>2, <3>3, <4>1 DEF Queues, UpKnown, StepOneWaits
      <4>3. DownKnown(a)' /\ BrowserIsHeard(a)' /\ BrowserIsTold(a)'
        BY <2>1, <2>4, <3>3 DEF DownKnown, BrowserIsHeard, BrowserIsTold
      <4>. QED  BY <4>2, <4>3 DEF Queues
    <3>. QED  BY <3>2, <3>3
  <2>5. CASE attached[b]
    <3>1. HandleMessage(s, b, m) /\ missed' = missed /\ s \in Sessions
      BY <1>6, <2>5 DEF ServerReads, Linked
    <3>2. CASE m.type = "step1"
      <4>1. doc' = doc /\ down' = [down EXCEPT ![b] = Append(@, answer)]
        BY <3>1, <3>2 DEF HandleMessage
      <4>2. CASE a # b
        <5>1. down'[a] = down[a]
          BY <4>1, <4>2
        <5>. QED  BY <1>0, <2>1, <2>3, <4>1, <4>2, <5>1, QueuesFrame
      <4>3. CASE a = b
        <5>1. answer \in Message /\ answer.type = "update"
              /\ answer.edits = doc[s] \ m.edits
          <6>1. doc[s] \ m.edits \in SUBSET Edits
            BY <3>1 DEF SyncTypeOK
          <6>. QED  BY <6>1, MessageKinds
        <5>. HIDE DEF answer, m, s
        <5>2. Sent(down'[a]) = Sent(down[a]) \cup {answer}
          BY <4>1, <4>3, <5>1, SentAppend DEF SyncTypeOK
        <5>. USE DEF s
        <5>3. UpKnown(a)' /\ StepOneWaits(a)'
          BY <1>0, <2>1, <2>2, <2>5, <4>3 DEF Queues, UpKnown, StepOneWaits
        <5>4. DownKnown(a)'
          BY <1>0, <2>1, <4>1, <4>3, <5>1, <5>2 DEF Queues, DownKnown
        <5>5. BrowserIsHeard(a)'
          BY <1>0, <2>1, <2>2, <3>2, <4>1, <4>3, <5>2 DEF Queues, BrowserIsHeard
        <5>6. BrowserIsTold(a)'
          BY <2>1, <2>2, <4>1, <4>3, <5>1, <5>2 DEF BrowserIsTold
        <5>. QED  BY <5>3, <5>4, <5>5, <5>6 DEF Queues
      <4>. QED  BY <4>2, <4>3
    <3>3. CASE m.type # "step1"
      <4>1. ApplyUpdate(s, m.edits, b)
        BY <3>1, <3>3 DEF HandleMessage
      <4>. HIDE DEF m
      <4>2. CASE a # b
        <5>. HIDE DEF s
        <5>. QED  BY <1>0, <2>1, <2>2, <2>3, <3>1, <4>1, <4>2, QueuesHear
      <4>3. CASE a = b
        <5>1. doc'[s] = doc[s] \cup m.edits
          BY <2>2, <3>1, <4>1, ApplyUpdateMerges
        <5>2. down'[b] = down[b]
          BY <4>1, ApplyUpdateSkips
        <5>3. UpKnown(a)' /\ StepOneWaits(a)'
          BY <1>0, <2>1, <2>2, <2>5, <4>3 DEF Queues, UpKnown, StepOneWaits
        <5>4. DownKnown(a)'
          BY <1>0, <2>1, <4>3, <5>1, <5>2 DEF Queues, DownKnown
        <5>5. BrowserIsHeard(a)'
          BY <1>0, <2>1, <2>2, <4>3, <5>1, <5>2 DEF Queues, BrowserIsHeard
        <5>6. BrowserIsTold(a)'
          BY <1>0, <2>1, <2>2, <3>1, <3>3, <4>3, <5>1, <5>2 DEF Queues, BrowserIsTold
        <5>. QED  BY <5>3, <5>4, <5>5, <5>6 DEF Queues
      <4>. QED  BY <4>2, <4>3
    <3>. QED  BY <3>2, <3>3
  <2>. QED  BY <2>4, <2>5
<1>7. ASSUME NEW s \in Sessions, NEW e \in Edits, RemoteUpdate(s, e)
      PROVE  Queues(a)'
  <2>1. ApplyUpdate(s, {e}, None) /\ {e} \in SUBSET Edits /\ a # None
        /\ UNCHANGED <<life, serving, attached, missed, text, up>>
    BY <1>7 DEF RemoteUpdate
  <2>. QED  BY <1>0, <2>1, QueuesHear
<1>8. ASSUME NEW s \in Sessions, HydrateDone(s)
      PROVE  Queues(a)'
  <2>. DEFINE W == {b \in Browsers : serving[b] = s /\ ~attached[b]}
  <2>1. AddClients(s, W) /\ W \in SUBSET Browsers
    BY <1>8 DEF HydrateDone
  <2>2. /\ doc' \in [Sessions -> SUBSET Edits]
        /\ \A r \in Sessions \ {s} : doc'[r] = doc[r] /\ life'[r] = life[r]
        /\ life[s] = "hydrating"
        /\ UNCHANGED <<text, up, serving, missed>>
    BY <1>8 DEF HydrateDone, SyncTypeOK
  <2>3. /\ attached'[a] <=> attached[a] \/ a \in W
        /\ a \notin W => down'[a] = down[a]
        /\ a \in W => Sent(down'[a]) = Sent(down[a]) \cup {Step1(doc'[s])}
    <3>. HIDE DEF W
    <3>. QED  BY <2>1, <2>2, AddClientsType
  <2>4. CASE a \in W
    <3>1. serving[a] = s /\ ~attached[a] /\ down[a] = <<>> /\ s # None
      BY <2>4 DEF Linked
    <3>2. UpKnown(a)' /\ (~missed'[a] => \E m \in Sent(up'[a]) : m.type = "step1")
      BY <1>0, <2>2, <3>1 DEF Queues, UpKnown, StepOneWaits
    <3>3. serving'[a] = s /\ attached'[a]
      BY <2>2, <2>3, <2>4, <3>1
    <3>. HIDE DEF W
    <3>. QED  BY <2>2, <2>3, <2>4, <3>1, <3>2, <3>3, QueuesAttach
  <2>5. CASE a \notin W
    <3>1. attached[a] => serving[a] \in Sessions \ {s}
      BY <1>0, <2>2 DEF Linked
    <3>. HIDE DEF W
    <3>. QED  BY <1>0, <2>2, <2>3, <2>5, <3>1, QueuesFrame
  <2>. QED  BY <2>4, <2>5
<1>9. ASSUME NEW s \in Sessions, IdleTimerFires(s)
      PROVE  Queues(a)'
  <2>1. UNCHANGED <<text, up, down, serving, attached, missed, doc>>
    BY <1>9 DEF IdleTimerFires
  <2>2. attached[a] => \/ life'[serving[a]] = life[serving[a]]
                       \/ life'[serving[a]] = "destroyed"
    BY <1>0, <1>9 DEF IdleTimerFires, SyncTypeOK
  <2>. QED  BY <1>0, <2>1, <2>2, QueuesFrame
<1>10. ASSUME NEW s \in Sessions, Collect(s)
       PROVE  Queues(a)'
  <2>1. UNCHANGED <<text, up, down, serving, attached, missed>> /\ serving[a] # s
    BY <1>10 DEF Collect
  <2>2. attached[a] => /\ doc'[serving[a]] = doc[serving[a]]
                       /\ life'[serving[a]] = life[serving[a]]
    BY <1>0, <1>10, <2>1 DEF Collect, SyncTypeOK
  <2>. QED  BY <1>0, <2>1, <2>2, QueuesFrame
<1>11. ASSUME NEW s \in Sessions, SnapshotSaved(s)
       PROVE  Queues(a)'
  BY <1>0, <1>11, QueuesFrame DEF SnapshotSaved
<1>12. CASE ServerRestart
  <2>1. up'[a] = <<>> /\ ~attached'[a] /\ serving'[a] = None
    BY <1>12 DEF ServerRestart
  <2>. QED  BY <2>1, QueuesGone
<1>13. CASE UNCHANGED syncVars
  BY <1>0, <1>13, QueuesFrame DEF syncVars
<1>. QED
  BY <1>1, <1>2, <1>3, <1>4, <1>5, <1>6, <1>7, <1>8, <1>9, <1>10, <1>11, <1>12, <1>13
     DEF SyncNext

LEMMA QueueInvariant == SyncSpec => [](SyncTypeOK /\ Linked /\ QueueInv)
<1>1. SyncInit => QueueInv
  BY SentNone
     DEF SyncInit, QueueInv, Queues, UpKnown, DownKnown, BrowserIsHeard, StepOneWaits,
         BrowserIsTold
<1>2. SyncTypeOK /\ SyncTypeOK' /\ Linked /\ QueueInv /\ [SyncNext]_syncVars => QueueInv'
  BY QueueStep
<1>. QED  BY <1>1, <1>2, LinkedInvariant, PTL DEF SyncSpec

(* With nothing under way, a session has everything that the browsers it     *)
(* serves have, whatever was typed before, during or after the handshake.    *)
THEOREM ServerCorrect == SyncSpec => []ServerHasAll
<1>1. QueueInv => ServerHasAll
  BY SentNone DEF QueueInv, Queues, BrowserIsHeard, ServerHasAll, AtRest
<1>. QED  BY <1>1, QueueInvariant, PTL

(* And a browser whose Step 1 met a listener has everything that its session *)
(* has, as long as that is not destroyed.                                    *)
THEOREM BrowserCorrect == SyncSpec => []BrowserHasAllUnlessMissed
<1>1. QueueInv => BrowserHasAllUnlessMissed
  BY SentNone DEF QueueInv, Queues, BrowserIsTold, BrowserHasAllUnlessMissed, AtRest
<1>. QED  BY <1>1, QueueInvariant, PTL

-----------------------------------------------------------------------------
(* Every edit in a copy, or in the snapshot, was made by somebody. *)
TypedInv ==
  /\ \A b \in Browsers : text[b] \subseteq typed
  /\ \A s \in Sessions : doc[s] \subseteq typed
  /\ stored \subseteq typed

(* One copy merges E, or none changes, in terms of SharedDocument. *)
LEMMA CopiesAlike ==
  ASSUME UNCHANGED <<text, doc>>
  PROVE  Copies' = Copies
BY DEF Copies

LEMMA BrowserMerges ==
  ASSUME NEW b \in Browsers, NEW E, doc' = doc, text \in [Browsers -> SUBSET Edits],
         text' = [text EXCEPT ![b] = text[b] \cup E]
  PROVE  Copies' = [Copies EXCEPT ![b] = Copies[b] \cup E]
BY DEF Copies

LEMMA SessionMerges ==
  ASSUME NEW s \in Sessions, NEW E, text' = text, doc \in [Sessions -> SUBSET Edits],
         doc' = [doc EXCEPT ![s] = doc[s] \cup E]
  PROVE  Copies' = [Copies EXCEPT ![s] = Copies[s] \cup E]
BY DEF Copies

(* A document that is merged into stays typed and in use. *)
LEMMA MergeStep ==
  ASSUME NEW r \in Browsers \cup Sessions, NEW E \in SUBSET Edits, E \subseteq typed,
         r \in CopiesInUse, CopiesInUse' = CopiesInUse, typed' = typed,
         Copies' = [Copies EXCEPT ![r] = Copies[r] \cup E]
  PROVE  Document!Next
<1>1. Document!Merge(r, E)
  BY DEF Document!Merge
<1>. QED  BY <1>1 DEF Document!Next

LEMMA WriteStep ==
  ASSUME NEW r \in Browsers \cup Sessions, NEW e \in Edits, e \notin Copies[r],
         r \in CopiesInUse, CopiesInUse' = CopiesInUse, typed' = typed \cup {e},
         Copies' = [Copies EXCEPT ![r] = Copies[r] \cup {e}]
  PROVE  Document!Next
<1>1. Document!Write(r, e)
  BY DEF Document!Write
<1>. QED  BY <1>1 DEF Document!Next

LEMMA CreateStep ==
  ASSUME NEW r \in Browsers \cup Sessions, CopiesInUse' = CopiesInUse \cup {r},
         Copies' = Copies, typed' = typed
  PROVE  Document!Next
<1>1. Document!Create(r)
  BY DEF Document!Create
<1>. QED  BY <1>1 DEF Document!Next

LEMMA DiscardStep ==
  ASSUME NEW R \in SUBSET (Browsers \cup Sessions), CopiesInUse' = CopiesInUse \ R,
         Copies' = [r \in Browsers \cup Sessions |-> IF r \in R THEN {} ELSE Copies[r]],
         typed' = typed
  PROVE  Document!Next
<1>1. Document!Discard(R)
  BY DEF Document!Discard
<1>. QED  BY <1>1 DEF Document!Next

(* Each step of RoomSync is a step of the shared document, or none. *)
LEMMA DocumentStep ==
  ASSUME SyncTypeOK, SyncTypeOK', Linked, QueueInv, TypedInv, [SyncNext]_syncVars
  PROVE  TypedInv' /\ [Document!Next]_(Document!sharedVars)
<1>. USE DEF wireVars, sessionVars, browserVars
<1>a. ASSUME UNCHANGED <<text, doc, typed>>, stored' = stored \/ stored' \subseteq typed,
             CopiesInUse' = CopiesInUse
      PROVE  TypedInv' /\ [Document!Next]_(Document!sharedVars)
  BY <1>a, CopiesAlike DEF TypedInv, Document!sharedVars
<1>b. ASSUME UNCHANGED <<text, doc, typed, stored>>, NEW r \in Browsers \cup Sessions,
             CopiesInUse' = CopiesInUse \cup {r}
      PROVE  TypedInv' /\ [Document!Next]_(Document!sharedVars)
  BY <1>b, CopiesAlike, CreateStep DEF TypedInv
<1>1. ASSUME NEW b \in Browsers, OpenRoom(b)
      PROVE  TypedInv' /\ [Document!Next]_(Document!sharedVars)
  <2>1. CopiesInUse' = CopiesInUse \cup {b}
    BY <1>1 DEF OpenRoom, CopiesInUse, SyncTypeOK
  <2>. QED  BY <1>1, <1>b, <2>1 DEF OpenRoom
<1>2. ASSUME NEW b \in Browsers, ConnectionLost(b) \/ Reconnect(b)
      PROVE  TypedInv' /\ [Document!Next]_(Document!sharedVars)
  <2>1. UNCHANGED <<text, doc, typed, stored, life>>
    BY <1>2 DEF ConnectionLost, Reconnect, Disconnect
  <2>2. \A a \in Browsers : status'[a] # "disconnected" <=> status[a] # "disconnected"
    BY <1>2 DEF ConnectionLost, Reconnect, SyncTypeOK
  <2>3. CopiesInUse' = CopiesInUse
    BY <2>1, <2>2 DEF CopiesInUse
  <2>. QED  BY <1>a, <2>1, <2>3
<1>3. ASSUME NEW b \in Browsers, Connect(b)
      PROVE  TypedInv' /\ [Document!Next]_(Document!sharedVars)
  <2>1. UNCHANGED <<text, doc, typed, stored>>
    BY <1>3 DEF Connect
  <2>2. \A a \in Browsers : status'[a] # "disconnected" <=> status[a] # "disconnected"
    BY <1>3 DEF Connect, SyncTypeOK
  <2>3. CASE UNCHANGED life
    <3>1. CopiesInUse' = CopiesInUse
      BY <2>2, <2>3 DEF CopiesInUse
    <3>. QED  BY <1>a, <2>1, <3>1
  <2>4. ASSUME NEW s \in Sessions, life' = [life EXCEPT ![s] = "hydrating"]
        PROVE  TypedInv' /\ [Document!Next]_(Document!sharedVars)
    <3>1. \A r \in Sessions : life'[r] # "unused" <=> life[r] # "unused" \/ r = s
      BY <2>4 DEF SyncTypeOK
    <3>2. CopiesInUse' = CopiesInUse \cup {s}
      BY <2>2, <3>1 DEF CopiesInUse
    <3>. QED  BY <1>b, <2>1, <3>2
  <2>. QED  BY <1>3, <2>3, <2>4 DEF Connect
<1>4. ASSUME NEW b \in Browsers, LeaveRoom(b)
      PROVE  TypedInv' /\ [Document!Next]_(Document!sharedVars)
  <2>1. UNCHANGED <<doc, typed, stored, life>> /\ text' = [text EXCEPT ![b] = {}]
        /\ status' = [status EXCEPT ![b] = "disconnected"]
    BY <1>4 DEF LeaveRoom, Disconnect
  <2>2. TypedInv'
    BY <2>1 DEF TypedInv, SyncTypeOK
  <2>3. CopiesInUse' = CopiesInUse \ {b}
    BY <2>1 DEF CopiesInUse, SyncTypeOK
  <2>4. Copies' = [r \in Browsers \cup Sessions |-> IF r \in {b} THEN {} ELSE Copies[r]]
    BY <2>1 DEF Copies, SyncTypeOK
  <2>. QED  BY <2>1, <2>2, <2>3, <2>4, DiscardStep
<1>5. ASSUME NEW b \in Browsers, NEW e \in Edits, Type(b, e)
      PROVE  TypedInv' /\ [Document!Next]_(Document!sharedVars)
  <2>1. /\ UNCHANGED <<status, doc, stored, life>>
        /\ text' = [text EXCEPT ![b] = text[b] \cup {e}]
        /\ typed' = typed \cup {e} /\ e \notin typed /\ status[b] # "disconnected"
    BY <1>5 DEF Type
  <2>2. TypedInv'
    BY <2>1 DEF TypedInv, SyncTypeOK
  <2>3. CopiesInUse' = CopiesInUse /\ b \in CopiesInUse
    BY <2>1 DEF CopiesInUse
  <2>4. Copies' = [Copies EXCEPT ![b] = Copies[b] \cup {e}]
    BY <2>1, BrowserMerges DEF SyncTypeOK
  <2>5. e \notin Copies[b]
    BY <2>1 DEF Copies, TypedInv
  <2>. QED  BY <2>1, <2>2, <2>3, <2>4, <2>5, WriteStep
<1>6. ASSUME NEW b \in Browsers, BrowserReads(b)
      PROVE  TypedInv' /\ [Document!Next]_(Document!sharedVars)
  <2>. DEFINE m == Head(down[b])
  <2>1. UNCHANGED <<status, doc, typed, stored, life>>
    BY <1>6 DEF BrowserReads
  <2>2. CopiesInUse' = CopiesInUse
    BY <2>1 DEF CopiesInUse
  <2>3. CASE m.type = "step1"
    BY <1>6, <1>a, <2>1, <2>2, <2>3 DEF BrowserReads
  <2>4. CASE m.type # "step1"
    <3>1. text' = [text EXCEPT ![b] = text[b] \cup m.edits]
      BY <1>6, <2>4 DEF BrowserReads
    <3>2. attached[b] /\ m \in Message /\ m \in Sent(down[b])
      <4>1. down[b] # <<>> /\ down[b] \in Seq(Message)
        BY <1>6 DEF BrowserReads, SyncTypeOK
      <4>. QED  BY <4>1, SentTail DEF Linked
    <3>3. m.edits \in SUBSET Edits /\ m.edits \subseteq typed
      <4>1. serving[b] \in Sessions
        BY <3>2 DEF Linked
      <4>. QED  BY <3>2, <4>1 DEF QueueInv, Queues, DownKnown, TypedInv, Message
    <3>4. b \in CopiesInUse
      BY <3>2 DEF Linked, CopiesInUse
    <3>. HIDE DEF m
    <3>5. Copies' = [Copies EXCEPT ![b] = Copies[b] \cup m.edits]
      BY <2>1, <3>1, BrowserMerges DEF SyncTypeOK
    <3>6. TypedInv'
      BY <2>1, <3>1, <3>3 DEF TypedInv, SyncTypeOK
    <3>. QED  BY <2>1, <2>2, <3>3, <3>4, <3>5, <3>6, MergeStep
  <2>. QED  BY <2>3, <2>4
<1>c. ASSUME NEW s \in Sessions, NEW E \in SUBSET Edits, E \subseteq typed,
             doc' = [doc EXCEPT ![s] = doc[s] \cup E], life[s] # "unused",
             CopiesInUse' = CopiesInUse, UNCHANGED <<text, typed, stored>>
      PROVE  TypedInv' /\ [Document!Next]_(Document!sharedVars)
  <2>1. s \in CopiesInUse
    BY <1>c DEF CopiesInUse
  <2>2. Copies' = [Copies EXCEPT ![s] = Copies[s] \cup E]
    BY <1>c, SessionMerges DEF SyncTypeOK
  <2>3. TypedInv'
    BY <1>c DEF TypedInv, SyncTypeOK
  <2>. QED  BY <1>c, <2>1, <2>2, <2>3, MergeStep
<1>7. ASSUME NEW b \in Browsers, ServerReads(b)
      PROVE  TypedInv' /\ [Document!Next]_(Document!sharedVars)
  <2>. DEFINE m == Head(up[b])
              s == serving[b]
  <2>1. UNCHANGED <<status, text, typed, stored, life>>
    BY <1>7 DEF ServerReads
  <2>2. CopiesInUse' = CopiesInUse
    BY <2>1 DEF CopiesInUse
  <2>3. CASE ~attached[b] \/ m.type = "step1"
    <3>1. doc' = doc
      BY <1>7, <2>3 DEF ServerReads, HandleMessage
    <3>. QED  BY <1>a, <2>1, <2>2, <3>1
  <2>4. CASE attached[b] /\ m.type # "step1"
    <3>1. m \in Message /\ m \in Sent(up[b])
      <4>1. up[b] # <<>> /\ up[b] \in Seq(Message)
        BY <1>7 DEF ServerReads, SyncTypeOK
      <4>. QED  BY <4>1, SentTail
    <3>2. m.edits \in SUBSET Edits /\ m.edits \subseteq typed
      BY <3>1 DEF QueueInv, Queues, UpKnown, TypedInv, Message
    <3>3. s \in Sessions /\ life[s] # "unused"
      BY <2>4 DEF Linked
    <3>4. doc' = [doc EXCEPT ![s] = doc[s] \cup m.edits]
      BY <1>7, <2>4 DEF ServerReads, HandleMessage, ApplyUpdate
    <3>. HIDE DEF m, s
    <3>. QED  BY <1>c, <2>1, <2>2, <3>2, <3>3, <3>4
  <2>. QED  BY <2>3, <2>4
<1>8. ASSUME NEW s \in Sessions, NEW e \in Edits, RemoteUpdate(s, e)
      PROVE  TypedInv' /\ [Document!Next]_(Document!sharedVars)
  <2>1. /\ UNCHANGED <<status, text, stored, life>>
        /\ doc' = [doc EXCEPT ![s] = doc[s] \cup {e}]
        /\ typed' = typed \cup {e} /\ e \notin doc[s] /\ life[s] # "unused"
    BY <1>8 DEF RemoteUpdate, ApplyUpdate
  <2>2. CopiesInUse' = CopiesInUse /\ s \in CopiesInUse
    BY <2>1 DEF CopiesInUse
  <2>3. Copies' = [Copies EXCEPT ![s] = Copies[s] \cup {e}] /\ e \notin Copies[s]
    <3>1. e \notin Copies[s]
      BY <2>1 DEF Copies
    <3>. QED  BY <2>1, <3>1, SessionMerges DEF SyncTypeOK
  <2>4. TypedInv'
    BY <2>1 DEF TypedInv, SyncTypeOK
  <2>. QED  BY <2>1, <2>2, <2>3, <2>4, WriteStep
<1>9. ASSUME NEW s \in Sessions, HydrateDone(s)
      PROVE  TypedInv' /\ [Document!Next]_(Document!sharedVars)
  <2>1. UNCHANGED <<status, text, typed, stored>> /\ life[s] = "hydrating"
        /\ life' = [life EXCEPT ![s] = "ready"]
    BY <1>9 DEF HydrateDone
  <2>2. CopiesInUse' = CopiesInUse
    BY <2>1 DEF CopiesInUse, SyncTypeOK
  <2>3. PICK found \in {stored, {}} : doc' = [doc EXCEPT ![s] = doc[s] \cup found]
    BY <1>9 DEF HydrateDone, Hydrated
  <2>4. found \in SUBSET Edits /\ found \subseteq typed
    BY <2>3 DEF TypedInv, SyncTypeOK
  <2>. QED  BY <1>c, <2>1, <2>2, <2>3, <2>4
<1>10. ASSUME NEW s \in Sessions, IdleTimerFires(s)
       PROVE  TypedInv' /\ [Document!Next]_(Document!sharedVars)
  <2>1. UNCHANGED <<status, text, doc, typed, stored>>
    BY <1>10 DEF IdleTimerFires
  <2>2. \A r \in Sessions : life'[r] # "unused" <=> life[r] # "unused"
    BY <1>10 DEF IdleTimerFires, Linked, SyncTypeOK
  <2>3. CopiesInUse' = CopiesInUse
    BY <2>1, <2>2 DEF CopiesInUse
  <2>. QED  BY <1>a, <2>1, <2>3
<1>11. ASSUME NEW s \in Sessions, Collect(s)
       PROVE  TypedInv' /\ [Document!Next]_(Document!sharedVars)
  <2>1. UNCHANGED <<status, text, typed, stored>> /\ doc' = [doc EXCEPT ![s] = {}]
        /\ life' = [life EXCEPT ![s] = "unused"]
    BY <1>11 DEF Collect
  <2>2. TypedInv'
    BY <2>1 DEF TypedInv, SyncTypeOK
  <2>3. CopiesInUse' = CopiesInUse \ {s}
    BY <2>1 DEF CopiesInUse, SyncTypeOK
  <2>4. Copies' = [r \in Browsers \cup Sessions |-> IF r \in {s} THEN {} ELSE Copies[r]]
    BY <2>1 DEF Copies, SyncTypeOK
  <2>. QED  BY <2>1, <2>2, <2>3, <2>4, DiscardStep
<1>12. ASSUME NEW s \in Sessions, SnapshotSaved(s)
       PROVE  TypedInv' /\ [Document!Next]_(Document!sharedVars)
  <2>1. UNCHANGED <<status, text, doc, typed, life>> /\ stored' \subseteq typed
    BY <1>12 DEF SnapshotSaved, TypedInv
  <2>2. CopiesInUse' = CopiesInUse
    BY <2>1 DEF CopiesInUse
  <2>. QED  BY <1>a, <2>1, <2>2
<1>13. CASE ServerRestart
  <2>1. /\ UNCHANGED <<text, typed, stored>>
        /\ doc' = [s \in Sessions |-> {}] /\ life' = [s \in Sessions |-> "unused"]
        /\ \A b \in Browsers : status'[b] # "disconnected" <=> status[b] # "disconnected"
    BY <1>13 DEF ServerRestart
  <2>2. TypedInv'
    BY <2>1 DEF TypedInv
  <2>3. CopiesInUse' = CopiesInUse \ Sessions
    BY <2>1 DEF CopiesInUse
  <2>4. Copies' = [r \in Browsers \cup Sessions |-> IF r \in Sessions THEN {} ELSE Copies[r]]
    BY <2>1 DEF Copies
  <2>. QED  BY <2>1, <2>2, <2>3, <2>4, DiscardStep
<1>14. CASE UNCHANGED syncVars
  <2>1. CopiesInUse' = CopiesInUse
    BY <1>14 DEF syncVars, CopiesInUse
  <2>. QED  BY <1>14, <1>a, <2>1 DEF syncVars
<1>. QED
  BY <1>1, <1>2, <1>3, <1>4, <1>5, <1>6, <1>7, <1>8, <1>9, <1>10, <1>11, <1>12, <1>13,
     <1>14 DEF SyncNext

(* Browsers, connections and sessions implement one shared document: an edit *)
(* in a copy was made by somebody, and a copy in use loses none.             *)
THEOREM SyncRefinesDocument == SyncSpec => SharedDocumentSpec
<1>1. SyncInit => TypedInv /\ Document!Init
  <2>1. SyncInit => TypedInv
    BY DEF SyncInit, TypedInv
  <2>2. SyncInit => CopiesInUse = {} /\ Copies = [r \in Browsers \cup Sessions |-> {}]
    BY DEF SyncInit, CopiesInUse, Copies
  <2>. QED  BY <2>1, <2>2 DEF SyncInit, Document!Init
<1>2. /\ SyncTypeOK /\ SyncTypeOK' /\ Linked /\ QueueInv /\ TypedInv
      /\ [SyncNext]_syncVars
      => TypedInv' /\ [Document!Next]_(Document!sharedVars)
  BY DocumentStep
<1>. QED
  BY <1>1, <1>2, QueueInvariant, PTL DEF SyncSpec, SharedDocumentSpec, Document!Spec

(* A page that stays open and a session that stays loses no edit, whatever   *)
(* is read, merged, hydrated, reconnected or evicted around it: Yjs merges   *)
(* only add, and no handler empties a document (RoomSession 109-115, 218-227;*)
(* RoomPersistenceService 37-60).                                            *)
NothingLost ==
  [][/\ \A b \in Browsers : status[b] # "disconnected" /\ status'[b] # "disconnected"
          => text[b] \subseteq text'[b]
     /\ \A s \in Sessions : life[s] # "unused" /\ life'[s] # "unused"
          => doc[s] \subseteq doc'[s]]_syncVars

(* The shared document promises as much of its copies in use, and every page *)
(* that stays open and every session that stays is one of them (RoomSession  *)
(* 109-115, 218-227).                                                        *)
THEOREM NothingLostCorrect == SyncSpec => NothingLost
<1>1. ASSUME [Document!Next]_(Document!sharedVars), NEW r \in Browsers \cup Sessions,
             r \in CopiesInUse, r \in CopiesInUse'
      PROVE  Copies[r] \subseteq Copies'[r]
  <2>1. Copies \in [Browsers \cup Sessions -> {Copies[p] : p \in Browsers \cup Sessions}]
    BY DEF Copies
  <2>2. ASSUME NEW p \in Browsers \cup Sessions, NEW e \in Edits, Document!Write(p, e)
        PROVE  Copies[r] \subseteq Copies'[r]
    <3>1. Copies' = [Copies EXCEPT ![p] = Copies[p] \cup {e}]
      BY <2>2 DEF Document!Write
    <3>. QED  BY <2>1, <3>1
  <2>3. ASSUME NEW p \in Browsers \cup Sessions, NEW E \in SUBSET Edits, Document!Merge(p, E)
        PROVE  Copies[r] \subseteq Copies'[r]
    <3>1. Copies' = [Copies EXCEPT ![p] = Copies[p] \cup E]
      BY <2>3 DEF Document!Merge
    <3>. QED  BY <2>1, <3>1
  <2>4. ASSUME NEW p \in Browsers \cup Sessions, Document!Create(p)
        PROVE  Copies[r] \subseteq Copies'[r]
    BY <2>4 DEF Document!Create
  <2>5. ASSUME NEW R \in SUBSET (Browsers \cup Sessions), Document!Discard(R)
        PROVE  Copies[r] \subseteq Copies'[r]
    <3>1. r \notin R /\ Copies' = [p \in Browsers \cup Sessions |-> IF p \in R THEN {} ELSE Copies[p]]
      BY <1>1, <2>5 DEF Document!Discard
    <3>. QED  BY <3>1
  <2>6. CASE UNCHANGED Document!sharedVars
    BY <2>6 DEF Document!sharedVars
  <2>. QED  BY <1>1, <2>2, <2>3, <2>4, <2>5, <2>6 DEF Document!Next
<1>2. ASSUME [Document!Next]_(Document!sharedVars)
      PROVE  /\ \A b \in Browsers : status[b] # "disconnected" /\ status'[b] # "disconnected"
                  => text[b] \subseteq text'[b]
             /\ \A s \in Sessions : life[s] # "unused" /\ life'[s] # "unused"
                  => doc[s] \subseteq doc'[s]
  <2>1. ASSUME NEW b \in Browsers, status[b] # "disconnected", status'[b] # "disconnected"
        PROVE  text[b] \subseteq text'[b]
    <3>1. b \in CopiesInUse /\ b \in CopiesInUse'
      BY <2>1 DEF CopiesInUse
    <3>2. Copies[b] \subseteq Copies'[b]
      BY <1>1, <1>2, <3>1
    <3>. QED  BY <3>2 DEF Copies
  <2>2. ASSUME NEW s \in Sessions, life[s] # "unused", life'[s] # "unused"
        PROVE  doc[s] \subseteq doc'[s]
    <3>1. s \in CopiesInUse /\ s \in CopiesInUse'
      BY <2>2 DEF CopiesInUse
    <3>2. Copies[s] \subseteq Copies'[s] /\ s \notin Browsers
      BY <1>1, <1>2, <3>1
    <3>. QED  BY <3>2 DEF Copies
  <2>. QED  BY <2>1, <2>2
<1>. QED
  BY <1>2, SyncRefinesDocument, PTL DEF SharedDocumentSpec, Document!Spec, NothingLost
=============================================================================
