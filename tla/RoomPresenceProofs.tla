-------------------------- MODULE RoomPresenceProofs --------------------------
(***************************************************************************)
(* Proofs about RoomPresence, for any number of pages, nodes, connections  *)
(* and faults.                                                             *)
(***************************************************************************)
EXTENDS RoomPresence, TLAPS

USE ReplicasAssumption, NoneAssumption, MaxFaultsAssumption DEF Replicas

-----------------------------------------------------------------------------
(* The updates in a queue. *)
Sent(q) == {q[i] : i \in 1 .. Len(q)}

(* An update that is sent joins those that are under way. *)
LEMMA SentAppend ==
  ASSUME NEW S, NEW q \in Seq(S), NEW m \in S
  PROVE  Append(q, m) \in Seq(S) /\ Sent(Append(q, m)) = Sent(q) \cup {m}
<1>. DEFINE a == Append(q, m)
<1>1. a \in Seq(S) /\ Len(a) = Len(q) + 1 /\ Len(q) \in Nat
  OBVIOUS
<1>2. \A i \in 1 .. Len(q) : a[i] = q[i]
  OBVIOUS
<1>3. a[Len(q) + 1] = m
  OBVIOUS
<1>. HIDE DEF a
<1>4. \A i : i \in 1 .. Len(a) <=> i \in 1 .. Len(q) \/ i = Len(q) + 1
  BY <1>1
<1>5. Sent(a) = Sent(q) \cup {m}
  BY <1>2, <1>3, <1>4 DEF Sent
<1>. QED  BY <1>1, <1>5 DEF a

(* An update that is read is one of them, and the rest stay. *)
LEMMA SentTail ==
  ASSUME NEW S, NEW q \in Seq(S), q # <<>>
  PROVE  /\ Head(q) \in S /\ Tail(q) \in Seq(S)
         /\ Sent(q) = {Head(q)} \cup Sent(Tail(q))
<1>. DEFINE t == Tail(q)
<1>1. t \in Seq(S) /\ Len(t) = Len(q) - 1 /\ Len(q) \in Nat /\ Len(q) > 0 /\ Head(q) \in S
  OBVIOUS
<1>2. \A i \in 1 .. Len(t) : t[i] = q[i + 1]
  OBVIOUS
<1>3. Head(q) = q[1]
  OBVIOUS
<1>. HIDE DEF t
<1>4. \A i \in 1 .. Len(q) : i = 1 \/ (i - 1 \in 1 .. Len(t) /\ q[i] = t[i - 1])
  BY <1>1, <1>2
<1>5. \A i \in 1 .. Len(t) : i + 1 \in 1 .. Len(q)
  BY <1>1
<1>6. Sent(q) = {q[1]} \cup Sent(t)
  <2>1. \A i \in 1 .. Len(q) : q[i] \in {q[1]} \cup Sent(t)
    BY <1>4 DEF Sent
  <2>2. q[1] \in Sent(q)
    <3>1. 1 \in 1 .. Len(q)
      BY <1>1
    <3> QED  BY <3>1 DEF Sent
  <2>3. \A i \in 1 .. Len(t) : t[i] \in Sent(q)
    BY <1>2, <1>5 DEF Sent
  <2> QED  BY <2>1, <2>2, <2>3 DEF Sent
<1>. QED  BY <1>1, <1>3, <1>6 DEF t

(* Queues of no update and of one. *)
LEMMA SentFew ==
  /\ Sent(<<>>) = {}
  /\ \A S : \A u \in S : <<u>> \in Seq(S) /\ Sent(<<u>>) = {u}
<1>1. Sent(<<>>) = {}
  BY DEF Sent
<1>2. ASSUME NEW S, NEW u \in S
      PROVE  <<u>> \in Seq(S) /\ Sent(<<u>>) = {u}
  <2>1. <<u>> \in Seq(S) /\ Len(<<u>>) = 1 /\ <<u>>[1] = u
    OBVIOUS
  <2>2. 1 .. 1 = {1}
    OBVIOUS
  <2>. QED  BY <2>1, <2>2 DEF Sent
<1>. QED  BY <1>1, <1>2

-----------------------------------------------------------------------------
(* What an update does to the replica that applies it. *)
Clocks == [Replicas -> [Clients -> Nat]]
States == [Replicas -> SUBSET Clients]

LEMMA AppliedEntries ==
  ASSUME NEW r, NEW u \in SUBSET Entry
  PROVE  Applied(r, u) \in SUBSET Entry /\ Applied(r, u) \subseteq u
BY DEF Applied

LEMMA ChangedClients ==
  ASSUME NEW r, NEW u \in SUBSET Entry
  PROVE  /\ Changed(r, u) \in SUBSET Clients
         /\ \A m \in Applied(r, u) : m.present => m.client \in Changed(r, u)
BY DEF Applied, Changed, Entry

(* A client's clock is that of an entry that was applied, or one more for    *)
(* the replica's own; it never goes back.                                    *)
LEMMA ApplyClocks ==
  ASSUME PresenceTypeOK, NEW r \in Replicas, NEW u \in SUBSET Entry,
         ApplyAwarenessUpdate(r, u)
  PROVE  /\ clock' \in Clocks
         /\ \A q \in Replicas \ {r} : clock'[q] = clock[q]
         /\ \A c \in Clients :
              /\ clock[r][c] <= clock'[r][c]
              /\ \/ clock'[r][c] = clock[r][c]
                 \/ c = r
                 \/ \E m \in u : m.client = c /\ clock'[r][c] = m.clock
<1>. DEFINE news == Applied(r, u)
            told(c) == \E m \in news : m.client = c
            pick(c) == CHOOSE m \in news : m.client = c
            new(c) == IF told(c)
                        THEN IF OwnRemoval(r, pick(c)) THEN pick(c).clock + 1
                                                       ELSE pick(c).clock
                        ELSE clock[r][c]
<1>1. clock' = [clock EXCEPT ![r] = [c \in Clients |-> new(c)]]
  BY DEF ApplyAwarenessUpdate, PresenceTypeOK
<1>2. \A c \in Clients : told(c) => pick(c) \in news /\ pick(c).client = c
  OBVIOUS
<1>3. \A m \in news : /\ m \in u /\ m.client \in Clients /\ m.clock \in Nat
                      /\ clock[r][m.client] <= m.clock
  <2>1. \A m \in Entry : m.client \in Clients /\ m.clock \in Nat
    BY DEF Entry
  <2>2. \A c \in Clients : clock[r][c] \in Nat
    BY DEF PresenceTypeOK
  <2>. QED  BY <2>1, <2>2 DEF Applied
<1>. HIDE DEF news, pick
<1>4. \A c \in Clients : clock[r][c] \in Nat
  BY DEF PresenceTypeOK
<1>5. \A c \in Clients :
        /\ new(c) \in Nat /\ clock[r][c] <= new(c)
        /\ \/ new(c) = clock[r][c]
           \/ c = r
           \/ \E m \in u : m.client = c /\ new(c) = m.clock
  <2>. TAKE c \in Clients
  <2>1. CASE ~told(c)
    BY <1>4, <2>1
  <2>2. CASE told(c) /\ OwnRemoval(r, pick(c))
    BY <1>2, <1>3, <1>4, <2>2 DEF OwnRemoval
  <2>3. CASE told(c) /\ ~OwnRemoval(r, pick(c))
    BY <1>2, <1>3, <1>4, <2>3
  <2>. QED  BY <2>1, <2>2, <2>3
<1>. HIDE DEF new
<1>. QED  BY <1>1, <1>5 DEF PresenceTypeOK, Clocks

(* Only the replica itself comes to show something else, and what it shows   *)
(* newly its update event names.                                             *)
LEMMA ApplyStates ==
  ASSUME PresenceTypeOK, NEW r \in Replicas, NEW u \in SUBSET Entry,
         ApplyAwarenessUpdate(r, u)
  PROVE  /\ shown' \in States
         /\ \A q \in Replicas \ {r} : shown'[q] = shown[q]
         /\ \A c \in shown'[r] : c \in shown[r] \/ c \in Changed(r, u)
<1>. DEFINE news == Applied(r, u)
            off == {m.client : m \in {x \in news : ~x.present /\ ~OwnRemoval(r, x)}}
            on == {m.client : m \in {x \in news : x.present}}
<1>1. shown' = [shown EXCEPT ![r] = (shown[r] \ off) \cup on]
  BY DEF ApplyAwarenessUpdate
<1>2. on \in SUBSET Clients /\ \A c \in on : c \in Changed(r, u)
  <2>1. \A m \in news : m.client \in Clients
    BY DEF Applied, Entry
  <2>. QED  BY <2>1, ChangedClients
<1>. HIDE DEF on, off
<1>. QED  BY <1>1, <1>2 DEF PresenceTypeOK, States

-----------------------------------------------------------------------------
(* The updates that join the queues tell what some replica knows.            *)

Known(u) == \A m \in u : \E r \in Replicas : m.clock = clock'[r][m.client]

Grows(q, p) ==
  /\ p \in Seq(SUBSET Entry)
  /\ \A u \in Sent(p) : u \in Sent(q) \/ Known(u)

LEMMA GrowsSame ==
  ASSUME NEW q \in Seq(SUBSET Entry)
  PROVE  Grows(q, q) /\ Grows(q, <<>>)
<1>1. <<>> \in Seq(SUBSET Entry)
  OBVIOUS
<1>. QED  BY <1>1, SentFew DEF Grows

LEMMA GrowsAppend ==
  ASSUME NEW q \in Seq(SUBSET Entry), NEW u \in SUBSET Entry, Known(u)
  PROVE  Grows(q, Append(q, u)) /\ Grows(q, <<u>>)
<1>1. Grows(q, Append(q, u))
  BY SentAppend DEF Grows
<1>2. <<u>> \in Seq(SUBSET Entry) /\ Sent(<<u>>) = {u}
  BY SentFew
<1>3. Grows(q, <<u>>)
  BY <1>2 DEF Grows
<1>. QED  BY <1>1, <1>3

LEMMA GrowsTail ==
  ASSUME NEW q \in Seq(SUBSET Entry), q # <<>>
  PROVE  Grows(q, Tail(q)) /\ Head(q) \in SUBSET Entry /\ Head(q) \in Sent(q)
BY SentTail DEF Grows

LEMMA EncodedEntries ==
  ASSUME NEW r \in Replicas, NEW cs \in SUBSET Clients,
         clock' \in Clocks, shown' \in States
  PROVE  Encoded(r, cs) \in SUBSET Entry /\ Known(Encoded(r, cs))
<1>. SUFFICES ASSUME NEW c \in cs
              PROVE  LET m == [client |-> c, clock |-> clock'[r][c], present |-> c \in shown'[r]]
                     IN m \in Entry /\ m.clock = clock'[r][m.client]
  BY DEF Encoded, Known
<1>1. (c \in shown'[r]) \in BOOLEAN
  OBVIOUS
<1>. QED  BY <1>1 DEF Entry, Clocks

LEMMA SendType ==
  ASSUME PresenceTypeOK, NEW c \in Clients, NEW u \in SUBSET Entry, Known(u), Send(c, u)
  PROVE  /\ up' \in [Sockets -> Seq(SUBSET Entry)]
         /\ \A w \in Sockets : Grows(up[w], up'[w])
<1>1. \A w \in Sockets : up[w] \in Seq(SUBSET Entry)
  BY DEF PresenceTypeOK
<1>2. \A w \in Sockets : Grows(up[w], up[w]) /\ Grows(up[w], Append(up[w], u))
  BY <1>1, GrowsSame, GrowsAppend
<1>3. \A w \in Sockets : Append(up[w], u) \in Seq(SUBSET Entry)
  BY <1>2 DEF Grows
<1>. QED  BY <1>1, <1>2, <1>3 DEF Send, PresenceTypeOK

LEMMA BroadcastType ==
  ASSUME PresenceTypeOK, NEW ws \in SUBSET Sockets, NEW u \in SUBSET Entry, Known(u),
         Broadcast(ws, u)
  PROVE  /\ down' \in [Sockets -> Seq(SUBSET Entry)]
         /\ \A w \in Sockets : Grows(down[w], down'[w])
<1>1. \A w \in Sockets : down[w] \in Seq(SUBSET Entry)
  BY DEF PresenceTypeOK
<1>2. \A w \in Sockets : Grows(down[w], down[w]) /\ Grows(down[w], Append(down[w], u))
  BY <1>1, GrowsSame, GrowsAppend
<1>3. \A w \in Sockets : Append(down[w], u) \in Seq(SUBSET Entry)
  BY <1>2 DEF Grows
<1>. QED  BY <1>1, <1>2, <1>3 DEF Broadcast, PresenceTypeOK

LEMMA PublishType ==
  ASSUME PresenceTypeOK, NEW n \in Nodes, NEW u \in SUBSET Entry, Known(u),
         PublishAwareness(n, u)
  PROVE  /\ relay' \in [Nodes -> Seq(SUBSET Entry)]
         /\ \A m \in Nodes : Grows(relay[m], relay'[m])
         /\ faults' \in 0 .. MaxFaults
<1>1. PICK reached \in SUBSET (Nodes \ {n}) :
        /\ relay' = [m \in Nodes |-> IF m \in reached THEN Append(relay[m], u) ELSE relay[m]]
        /\ faults' = IF reached = Nodes \ {n} THEN faults ELSE faults + 1
        /\ faults' <= MaxFaults
  BY DEF PublishAwareness
<1>2. \A m \in Nodes : relay[m] \in Seq(SUBSET Entry)
  BY DEF PresenceTypeOK
<1>3. \A m \in Nodes : Grows(relay[m], relay[m]) /\ Grows(relay[m], Append(relay[m], u))
  BY <1>2, GrowsSame, GrowsAppend
<1>4. \A m \in Nodes : Append(relay[m], u) \in Seq(SUBSET Entry)
  BY <1>3 DEF Grows
<1>5. faults \in 0 .. MaxFaults
  BY DEF PresenceTypeOK
<1>6. faults' \in 0 .. MaxFaults
  BY <1>1, <1>5
<1>. QED  BY <1>1, <1>2, <1>3, <1>4, <1>6

(* The queues after a step hold what they held and what is known then. *)
QueuesGrow ==
  /\ up' \in [Sockets -> Seq(SUBSET Entry)]
  /\ down' \in [Sockets -> Seq(SUBSET Entry)]
  /\ relay' \in [Nodes -> Seq(SUBSET Entry)]
  /\ \A w \in Sockets : Grows(up[w], up'[w]) /\ Grows(down[w], down'[w])
  /\ \A n \in Nodes : Grows(relay[n], relay'[n])

(* Queues that a step leaves alone. *)
LEMMA QueuesStay ==
  ASSUME PresenceTypeOK
  PROVE  /\ up \in [Sockets -> Seq(SUBSET Entry)]
         /\ down \in [Sockets -> Seq(SUBSET Entry)]
         /\ relay \in [Nodes -> Seq(SUBSET Entry)]
         /\ \A w \in Sockets : Grows(up[w], up[w]) /\ Grows(down[w], down[w])
         /\ \A n \in Nodes : Grows(relay[n], relay[n])
<1>1. /\ up \in [Sockets -> Seq(SUBSET Entry)]
      /\ down \in [Sockets -> Seq(SUBSET Entry)]
      /\ relay \in [Nodes -> Seq(SUBSET Entry)]
  BY DEF PresenceTypeOK
<1>. QED  BY <1>1, GrowsSame

LEMMA AwarenessUpdatedType ==
  ASSUME PresenceTypeOK, NEW n \in Nodes, NEW cs \in SUBSET Clients, NEW sender,
         clock' \in Clocks, shown' \in States, AwarenessUpdated(n, cs, sender)
  PROVE  /\ down' \in [Sockets -> Seq(SUBSET Entry)]
         /\ \A w \in Sockets : Grows(down[w], down'[w])
         /\ relay' \in [Nodes -> Seq(SUBSET Entry)]
         /\ \A m \in Nodes : Grows(relay[m], relay'[m])
         /\ faults' \in 0 .. MaxFaults
<1>1. CASE cs = {}
  BY <1>1, QueuesStay DEF AwarenessUpdated, PresenceTypeOK
<1>2. CASE cs # {}
  <2>. DEFINE ws == Attached(n) \ {sender}
              u == Encoded(n, cs)
  <2>1. ws \in SUBSET Sockets
    BY DEF Attached
  <2>2. u \in SUBSET Entry /\ Known(u)
    BY EncodedEntries
  <2>3. Broadcast(ws, u) /\ PublishAwareness(n, u)
    BY <1>2 DEF AwarenessUpdated
  <2>. HIDE DEF ws, u
  <2>. QED  BY <2>1, <2>2, <2>3, BroadcastType, PublishType
<1>. QED  BY <1>1, <1>2

-----------------------------------------------------------------------------
(* Type correctness, and what the queues come to hold, action by action.     *)

StepOK == PresenceTypeOK' /\ QueuesGrow

LEMMA ClocksAndStates ==
  ASSUME PresenceTypeOK
  PROVE  clock \in Clocks /\ shown \in States
BY DEF PresenceTypeOK, Clocks, States

(* A state with a clock that some replica knows can be sent. *)
LEMMA OneEntry ==
  ASSUME NEW c \in Clients, NEW k \in Nat, NEW b \in BOOLEAN, NEW r \in Replicas,
         clock'[r][c] = k
  PROVE  LET u == {[client |-> c, clock |-> k, present |-> b]}
         IN u \in SUBSET Entry /\ Known(u)
<1>1. [client |-> c, clock |-> k, present |-> b] \in Entry
  BY DEF Entry
<1>. QED  BY <1>1 DEF Known

LEMMA GreetingType ==
  ASSUME PresenceTypeOK, NEW n \in Nodes, NEW q \in Seq(SUBSET Entry), UNCHANGED clock
  PROVE  Greeting(n) \in Seq(SUBSET Entry) /\ Grows(q, Greeting(n))
<1>. DEFINE u == {[client |-> d, clock |-> clock[n][d], present |-> TRUE] : d \in shown[n]}
<1>1. u \in SUBSET Entry /\ Known(u)
  <2>. SUFFICES ASSUME NEW d \in shown[n]
                PROVE  LET m == [client |-> d, clock |-> clock[n][d], present |-> TRUE]
                       IN m \in Entry /\ m.clock = clock'[n][m.client]
    BY DEF Known
  <2>1. d \in Clients /\ clock[n][d] \in Nat
    BY DEF PresenceTypeOK
  <2>. QED  BY <2>1 DEF Entry
<1>2. Greeting(n) = IF shown[n] = {} THEN <<>> ELSE <<u>>
  BY DEF Greeting
<1>. HIDE DEF u
<1>3. Grows(q, <<>>) /\ Grows(q, <<u>>)
  BY <1>1, GrowsSame, GrowsAppend
<1>4. Grows(q, Greeting(n))
  BY <1>2, <1>3
<1>. QED  BY <1>4 DEF Grows

LEMMA OpenPageType ==
  ASSUME PresenceTypeOK, NEW c \in Clients, OpenPage(c)
  PROVE  StepOK
BY QueuesStay DEF OpenPage, PresenceTypeOK, StepOK, QueuesGrow

LEMMA SetLocalStateType ==
  ASSUME PresenceTypeOK, NEW c \in Clients, SetLocalState(c)
  PROVE  StepOK
<1>. DEFINE k == clock[c][c] + 1
            u == {[client |-> c, clock |-> k, present |-> TRUE]}
<1>1. clock[c][c] \in Nat /\ clock' = [clock EXCEPT ![c][c] = @ + 1]
  BY DEF PresenceTypeOK, SetLocalState
<1>2. clock' \in Clocks /\ clock'[c][c] = k /\ k \in Nat
  BY <1>1 DEF PresenceTypeOK, Clocks
<1>3. u \in SUBSET Entry /\ Known(u)
  BY <1>2, OneEntry
<1>4. Send(c, u)
  BY DEF SetLocalState
<1>. HIDE DEF u, k
<1>5. up' \in [Sockets -> Seq(SUBSET Entry)] /\ \A w \in Sockets : Grows(up[w], up'[w])
  BY <1>3, <1>4, SendType
<1>. QED  BY <1>2, <1>5, QueuesStay
          DEF SetLocalState, PresenceTypeOK, StepOK, QueuesGrow, Clocks

LEMMA ConnectType ==
  ASSUME PresenceTypeOK, NEW c \in Clients, NEW n \in Nodes, Connect(c, n)
  PROVE  StepOK
<1>1. PICK w \in Sockets :
        /\ sock[w] = NoConnection
        /\ link' = [link EXCEPT ![c] = w]
        /\ sock' = [sock EXCEPT ![w] = [client |-> c, node |-> n, attached |-> ready[n]]]
        /\ up' = [up EXCEPT ![w] = <<{[client |-> c, clock |-> clock[c][c], present |-> TRUE]}>>]
        /\ down' = [down EXCEPT ![w] = IF ready[n] THEN Greeting(n) ELSE <<>>]
  BY DEF Connect
<1>2. UNCHANGED <<page, ids, ready, shown, clock, relay, faults, relayed>>
  BY DEF Connect
<1>. DEFINE u == {[client |-> c, clock |-> clock[c][c], present |-> TRUE]}
            g == IF ready[n] THEN Greeting(n) ELSE <<>>
<1>3. clock[c][c] \in Nat
  BY DEF PresenceTypeOK
<1>4. u \in SUBSET Entry /\ Known(u)
  BY <1>2, <1>3, OneEntry
<1>5. up' = [up EXCEPT ![w] = <<u>>] /\ down' = [down EXCEPT ![w] = g]
  BY <1>1
<1>6. up[w] \in Seq(SUBSET Entry) /\ down[w] \in Seq(SUBSET Entry)
  BY DEF PresenceTypeOK
<1>7. Grows(down[w], g)
  BY <1>2, <1>6, GreetingType, GrowsSame
<1>. HIDE DEF u, g
<1>8. Grows(up[w], <<u>>)
  BY <1>4, <1>6, GrowsAppend
<1>9. <<u>> \in Seq(SUBSET Entry) /\ g \in Seq(SUBSET Entry)
  BY <1>7, <1>8 DEF Grows
<1>10. QueuesGrow
  BY <1>2, <1>5, <1>7, <1>8, <1>9, QueuesStay DEF QueuesGrow
<1>11. [client |-> c, node |-> n, attached |-> ready[n]] \in Connection
  BY DEF PresenceTypeOK, Connection
<1>12. sock' \in [Sockets -> Connection] /\ link' \in [Clients -> Sockets \cup {None}]
  BY <1>1, <1>11 DEF PresenceTypeOK
<1>. QED  BY <1>2, <1>10, <1>12 DEF PresenceTypeOK, StepOK, QueuesGrow

LEMMA HydrateDoneType ==
  ASSUME PresenceTypeOK, NEW n \in Nodes, HydrateDone(n)
  PROVE  StepOK
<1>. DEFINE waiting == {w \in Sockets : sock[w].node = n}
<1>1. /\ waiting # {}
      /\ ready' = [ready EXCEPT ![n] = TRUE]
      /\ sock' = [w \in Sockets |-> IF w \in waiting THEN [sock[w] EXCEPT !.attached = TRUE]
                                                     ELSE sock[w]]
      /\ down' = [w \in Sockets |-> IF w \in waiting /\ link[sock[w].client] = w
                                      THEN Greeting(n) ELSE down[w]]
      /\ UNCHANGED <<page, link, ids, shown, clock, up, relay, faults, relayed>>
  BY DEF HydrateDone
<1>2. \A w \in Sockets : down[w] \in Seq(SUBSET Entry)
  BY DEF PresenceTypeOK
<1>3. \A w \in Sockets : Grows(down[w], Greeting(n)) /\ Greeting(n) \in Seq(SUBSET Entry)
  BY <1>1, <1>2, GreetingType
<1>4. \A w \in Sockets : Grows(down[w], down[w])
  BY <1>2, GrowsSame
<1>5. /\ down' \in [Sockets -> Seq(SUBSET Entry)]
      /\ \A w \in Sockets : Grows(down[w], down'[w])
  BY <1>1, <1>2, <1>3, <1>4
<1>6. \A w \in waiting : [sock[w] EXCEPT !.attached = TRUE] \in Connection
  <2>. TAKE w \in waiting
  <2>1. sock[w] \in Connection /\ sock[w].node = n
    BY DEF PresenceTypeOK
  <2>2. sock[w] # NoConnection
    BY <2>1 DEF NoConnection
  <2>. QED  BY <2>1, <2>2 DEF Connection
<1>7. sock' \in [Sockets -> Connection]
  BY <1>1, <1>6 DEF PresenceTypeOK
<1>. HIDE DEF waiting
<1>. QED  BY <1>1, <1>5, <1>7, QueuesStay DEF PresenceTypeOK, StepOK, QueuesGrow

LEMMA BrowserReadsType ==
  ASSUME PresenceTypeOK, NEW c \in Clients, BrowserReads(c)
  PROVE  StepOK
<1>. DEFINE w == link[c]
            u == Head(down[w])
            v == Encoded(c, Changed(c, u))
<1>1. /\ w \in Sockets /\ down[w] # <<>>
      /\ down' = [down EXCEPT ![w] = Tail(@)]
      /\ ApplyAwarenessUpdate(c, u)
      /\ Send(c, v)
      /\ UNCHANGED <<page, link, sock, ids, ready, relay, faults, relayed>>
  BY DEF BrowserReads, PresenceTypeOK
<1>2. down[w] \in Seq(SUBSET Entry)
  BY <1>1 DEF PresenceTypeOK
<1>3. Grows(down[w], Tail(down[w])) /\ u \in SUBSET Entry
  BY <1>1, <1>2, GrowsTail
<1>4. clock' \in Clocks /\ shown' \in States
  BY <1>1, <1>3, ApplyClocks, ApplyStates
<1>5. v \in SUBSET Entry /\ Known(v)
  BY <1>3, <1>4, ChangedClients, EncodedEntries
<1>. HIDE DEF w, v
<1>6. up' \in [Sockets -> Seq(SUBSET Entry)] /\ \A x \in Sockets : Grows(up[x], up'[x])
  BY <1>1, <1>5, SendType
<1>7. Tail(down[w]) \in Seq(SUBSET Entry)
  BY <1>3 DEF Grows
<1>8. /\ down' \in [Sockets -> Seq(SUBSET Entry)]
      /\ \A x \in Sockets : Grows(down[x], down'[x])
  BY <1>1, <1>3, <1>7, QueuesStay
<1>. QED  BY <1>1, <1>4, <1>6, <1>8, QueuesStay
          DEF PresenceTypeOK, StepOK, QueuesGrow, Clocks, States

LEMMA ServerReadsType ==
  ASSUME PresenceTypeOK, NEW w \in Sockets, ServerReads(w)
  PROVE  StepOK
<1>. DEFINE n == sock[w].node
            u == Head(up[w])
            cs == Changed(n, u)
<1>1. /\ up[w] # <<>>
      /\ up' = [up EXCEPT ![w] = Tail(@)]
      /\ UNCHANGED <<page, link, sock, ready>>
  BY DEF ServerReads
<1>2. up[w] \in Seq(SUBSET Entry)
  BY DEF PresenceTypeOK
<1>3. Grows(up[w], Tail(up[w])) /\ u \in SUBSET Entry
  BY <1>1, <1>2, GrowsTail
<1>4. Tail(up[w]) \in Seq(SUBSET Entry)
  BY <1>3 DEF Grows
<1>5. /\ up' \in [Sockets -> Seq(SUBSET Entry)]
      /\ \A x \in Sockets : Grows(up[x], up'[x])
  BY <1>1, <1>3, <1>4, QueuesStay
<1>6. CASE sock[w].attached
  <2>1. n \in Nodes
    BY <1>6 DEF PresenceTypeOK, Connection, NoConnection
  <2>2. /\ ApplyAwarenessUpdate(n, u)
        /\ ids' = [ids EXCEPT ![w] = SocketIDs(@, n, cs)]
        /\ AwarenessUpdated(n, cs, w)
        /\ relayed' = [relayed EXCEPT ![n] = @ \ cs]
    BY <1>6 DEF ServerReads
  <2>3. clock' \in Clocks /\ shown' \in States
    BY <1>3, <2>1, <2>2, ApplyClocks, ApplyStates
  <2>4. cs \in SUBSET Clients
    BY <1>3, <2>1, ChangedClients
  <2>. HIDE DEF cs, n
  <2>5. /\ down' \in [Sockets -> Seq(SUBSET Entry)]
        /\ \A x \in Sockets : Grows(down[x], down'[x])
        /\ relay' \in [Nodes -> Seq(SUBSET Entry)]
        /\ \A m \in Nodes : Grows(relay[m], relay'[m])
        /\ faults' \in 0 .. MaxFaults
    BY <2>1, <2>2, <2>3, <2>4, AwarenessUpdatedType
  <2>6. SocketIDs(ids[w], n, cs) \in SUBSET Clients
    BY <2>4 DEF SocketIDs, PresenceTypeOK
  <2>7. ids' \in [Sockets -> SUBSET Clients] /\ relayed' \in [Nodes -> SUBSET Clients]
    BY <2>2, <2>4, <2>6 DEF PresenceTypeOK
  <2>. QED  BY <1>1, <1>5, <2>3, <2>5, <2>7
            DEF PresenceTypeOK, StepOK, QueuesGrow, Clocks, States
<1>7. CASE ~sock[w].attached
  <2>1. UNCHANGED <<shown, clock, ids, down, relay, faults, relayed>>
    BY <1>7 DEF ServerReads
  <2>. QED  BY <1>1, <1>5, <2>1, QueuesStay DEF PresenceTypeOK, StepOK, QueuesGrow
<1>. QED  BY <1>6, <1>7

LEMMA RemoteAwarenessType ==
  ASSUME PresenceTypeOK, NEW n \in Nodes, RemoteAwareness(n)
  PROVE  StepOK
<1>. DEFINE u == Head(relay[n])
            cs == Changed(n, u)
            session == ready[n] \/ \E w \in Sockets : sock[w].node = n
<1>1. /\ relay[n] # <<>>
      /\ relay' = [relay EXCEPT ![n] = Tail(@)]
      /\ UNCHANGED <<page, link, sock, ids, ready, up, faults>>
  BY DEF RemoteAwareness
<1>2. relay[n] \in Seq(SUBSET Entry)
  BY DEF PresenceTypeOK
<1>3. Grows(relay[n], Tail(relay[n])) /\ u \in SUBSET Entry
  BY <1>1, <1>2, GrowsTail
<1>4. Tail(relay[n]) \in Seq(SUBSET Entry)
  BY <1>3 DEF Grows
<1>5. /\ relay' \in [Nodes -> Seq(SUBSET Entry)]
      /\ \A m \in Nodes : Grows(relay[m], relay'[m])
  BY <1>1, <1>3, <1>4, QueuesStay
<1>6. CASE session
  <2>. DEFINE ws == Attached(n)
              v == Encoded(n, cs)
  <2>1. /\ ApplyAwarenessUpdate(n, u)
        /\ Broadcast(ws, v)
        /\ relayed' = [relayed EXCEPT ![n] = @ \cup cs]
    BY <1>6 DEF RemoteAwareness
  <2>2. clock' \in Clocks /\ shown' \in States
    BY <1>3, <2>1, ApplyClocks, ApplyStates
  <2>3. cs \in SUBSET Clients
    BY <1>3, ChangedClients
  <2>4. v \in SUBSET Entry /\ Known(v) /\ ws \in SUBSET Sockets
    BY <2>2, <2>3, EncodedEntries DEF Attached
  <2>. HIDE DEF cs, ws, v
  <2>5. /\ down' \in [Sockets -> Seq(SUBSET Entry)]
        /\ \A x \in Sockets : Grows(down[x], down'[x])
    BY <2>1, <2>4, BroadcastType
  <2>6. relayed' \in [Nodes -> SUBSET Clients]
    BY <2>1, <2>3 DEF PresenceTypeOK
  <2>. QED  BY <1>1, <1>5, <2>2, <2>5, <2>6, QueuesStay
            DEF PresenceTypeOK, StepOK, QueuesGrow, Clocks, States
<1>7. CASE ~session
  <2>1. UNCHANGED <<shown, clock, down, relayed>>
    BY <1>7 DEF RemoteAwareness
  <2>. QED  BY <1>1, <1>5, <2>1, QueuesStay DEF PresenceTypeOK, StepOK, QueuesGrow
<1>. QED  BY <1>6, <1>7

LEMMA UnlinkedType ==
  ASSUME PresenceTypeOK, NEW c \in Clients, Unlinked(c)
  PROVE  /\ link' \in [Clients -> Sockets \cup {None}]
         /\ down' \in [Sockets -> Seq(SUBSET Entry)]
         /\ \A w \in Sockets : Grows(down[w], down'[w])
<1>1. \A w \in Sockets : down[w] \in Seq(SUBSET Entry)
  BY DEF PresenceTypeOK
<1>2. \A w \in Sockets : /\ Grows(down[w], down[w]) /\ Grows(down[w], <<>>)
                         /\ <<>> \in Seq(SUBSET Entry)
  BY <1>1, GrowsSame DEF Grows
<1>. QED  BY <1>1, <1>2 DEF Unlinked, PresenceTypeOK

LEMMA RemovalType ==
  ASSUME PresenceTypeOK, NEW r \in Replicas, NEW cs, RemoveAwarenessStates(r, cs)
  PROVE  clock' \in Clocks /\ shown' \in States /\ UNCHANGED clock
BY DEF RemoveAwarenessStates, PresenceTypeOK, Clocks, States

LEMMA ConnectionLostType ==
  ASSUME PresenceTypeOK, NEW c \in Clients, ConnectionLost(c)
  PROVE  StepOK
<1>1. /\ faults' \in 0 .. MaxFaults
      /\ UNCHANGED <<page, sock, ids, ready, relay, relayed>>
  BY DEF ConnectionLost, PresenceTypeOK
<1>2. clock' \in Clocks /\ shown' \in States
  BY RemovalType DEF ConnectionLost
<1>3. up' \in {up, [up EXCEPT ![link[c]] = <<>>]}
  BY DEF ConnectionLost
<1>4. \A w \in Sockets : up[w] \in Seq(SUBSET Entry)
  BY DEF PresenceTypeOK
<1>5. \A w \in Sockets : /\ Grows(up[w], up[w]) /\ Grows(up[w], <<>>)
                         /\ <<>> \in Seq(SUBSET Entry)
  BY <1>4, GrowsSame DEF Grows
<1>6. /\ up' \in [Sockets -> Seq(SUBSET Entry)]
      /\ \A w \in Sockets : Grows(up[w], up'[w])
  <2>1. CASE up' = up
    BY <2>1, QueuesStay
  <2>2. CASE up' = [up EXCEPT ![link[c]] = <<>>]
    <3>1. up \in [Sockets -> Seq(SUBSET Entry)]
      BY DEF PresenceTypeOK
    <3>2. link[c] \in Sockets
      BY DEF ConnectionLost, PresenceTypeOK
    <3>. QED  BY <1>5, <2>2, <3>1, <3>2
  <2>. QED  BY <1>3, <2>1, <2>2
<1>7. /\ link' \in [Clients -> Sockets \cup {None}]
      /\ down' \in [Sockets -> Seq(SUBSET Entry)]
      /\ \A w \in Sockets : Grows(down[w], down'[w])
  BY UnlinkedType DEF ConnectionLost
<1>. QED  BY <1>1, <1>2, <1>6, <1>7, QueuesStay
          DEF PresenceTypeOK, StepOK, QueuesGrow, Clocks, States

LEMMA LeavePageType ==
  ASSUME PresenceTypeOK, NEW c \in Clients, LeavePage(c)
  PROVE  StepOK
<1>1. /\ page' = [page EXCEPT ![c] = "left"]
      /\ shown' = [shown EXCEPT ![c] = {}]
      /\ UNCHANGED <<sock, ids, ready, relay, faults, relayed>>
  BY DEF LeavePage
<1>2. /\ link' \in [Clients -> Sockets \cup {None}]
      /\ down' \in [Sockets -> Seq(SUBSET Entry)]
      /\ \A w \in Sockets : Grows(down[w], down'[w])
  BY UnlinkedType DEF LeavePage
<1>3. /\ clock' \in Clocks
      /\ up' \in [Sockets -> Seq(SUBSET Entry)]
      /\ \A w \in Sockets : Grows(up[w], up'[w])
  <2>. DEFINE k == clock[c][c] + 1
              u == {[client |-> c, clock |-> k, present |-> FALSE]}
  <2>1. CASE UNCHANGED <<clock, up>>
    BY <2>1, QueuesStay, ClocksAndStates
  <2>2. CASE clock' = [clock EXCEPT ![c][c] = @ + 1] /\ Send(c, u)
    <3>1. clock' \in Clocks /\ clock'[c][c] = k /\ k \in Nat
      BY <2>2 DEF PresenceTypeOK, Clocks
    <3>2. u \in SUBSET Entry /\ Known(u)
      BY <3>1, OneEntry
    <3>. HIDE DEF u, k
    <3>. QED  BY <2>2, <3>1, <3>2, SendType
  <2>. QED  BY <2>1, <2>2 DEF LeavePage
<1>. QED  BY <1>1, <1>2, <1>3, QueuesStay DEF PresenceTypeOK, StepOK, QueuesGrow, Clocks

LEMMA RemoveClientType ==
  ASSUME PresenceTypeOK, NEW w \in Sockets, RemoveClient(w)
  PROVE  StepOK
<1>. DEFINE n == sock[w].node
            gone == ids[w] \cap shown[n]
<1>1. /\ sock' = [sock EXCEPT ![w] = NoConnection]
      /\ ids' = [ids EXCEPT ![w] = {}]
      /\ up' = [up EXCEPT ![w] = <<>>]
      /\ RemoveAwarenessStates(n, gone)
      /\ AwarenessUpdated(n, gone, w)
      /\ UNCHANGED <<page, link, ready, relayed>>
  BY DEF RemoveClient
<1>2. n \in Nodes
  BY DEF RemoveClient, PresenceTypeOK, Connection, NoConnection
<1>3. gone \in SUBSET Clients
  BY DEF PresenceTypeOK
<1>. HIDE DEF n, gone
<1>4. clock' \in Clocks /\ shown' \in States
  BY <1>1, <1>2, RemovalType
<1>5. /\ down' \in [Sockets -> Seq(SUBSET Entry)]
      /\ \A x \in Sockets : Grows(down[x], down'[x])
      /\ relay' \in [Nodes -> Seq(SUBSET Entry)]
      /\ \A m \in Nodes : Grows(relay[m], relay'[m])
      /\ faults' \in 0 .. MaxFaults
  BY <1>1, <1>2, <1>3, <1>4, AwarenessUpdatedType
<1>6. up[w] \in Seq(SUBSET Entry)
  BY DEF PresenceTypeOK
<1>7. Grows(up[w], <<>>) /\ <<>> \in Seq(SUBSET Entry)
  BY <1>6, GrowsSame DEF Grows
<1>8. up' \in [Sockets -> Seq(SUBSET Entry)] /\ \A x \in Sockets : Grows(up[x], up'[x])
  BY <1>1, <1>7, QueuesStay
<1>9. sock' \in [Sockets -> Connection] /\ ids' \in [Sockets -> SUBSET Clients]
  BY <1>1 DEF PresenceTypeOK, Connection
<1>. QED  BY <1>1, <1>4, <1>5, <1>8, <1>9
          DEF PresenceTypeOK, StepOK, QueuesGrow, Clocks, States

LEMMA NodeForgetsType ==
  ASSUME PresenceTypeOK, NEW n \in Nodes, NEW c \in Clients, NodeForgets(n, c)
  PROVE  StepOK
<1>1. clock' \in Clocks /\ shown' \in States
  BY RemovalType DEF NodeForgets
<1>. DEFINE cs == {c}
<1>2. AwarenessUpdated(n, cs, None) /\ cs \in SUBSET Clients
  BY DEF NodeForgets
<1>. HIDE DEF cs
<1>3. /\ down' \in [Sockets -> Seq(SUBSET Entry)]
      /\ \A x \in Sockets : Grows(down[x], down'[x])
      /\ relay' \in [Nodes -> Seq(SUBSET Entry)]
      /\ \A m \in Nodes : Grows(relay[m], relay'[m])
      /\ faults' \in 0 .. MaxFaults
  BY <1>1, <1>2, AwarenessUpdatedType
<1>. QED  BY <1>1, <1>3, QueuesStay
          DEF NodeForgets, PresenceTypeOK, StepOK, QueuesGrow, Clocks, States

LEMMA BrowserForgetsType ==
  ASSUME PresenceTypeOK, NEW d \in Clients, NEW c \in Clients, BrowserForgets(d, c)
  PROVE  StepOK
<1>1. clock' \in Clocks /\ shown' \in States
  BY RemovalType DEF BrowserForgets
<1>. DEFINE cs == {c}
<1>2. Send(d, Encoded(d, cs)) /\ cs \in SUBSET Clients
  BY DEF BrowserForgets
<1>. HIDE DEF cs
<1>3. Encoded(d, cs) \in SUBSET Entry /\ Known(Encoded(d, cs))
  BY <1>1, <1>2, EncodedEntries
<1>4. up' \in [Sockets -> Seq(SUBSET Entry)] /\ \A w \in Sockets : Grows(up[w], up'[w])
  BY <1>2, <1>3, SendType
<1>. QED  BY <1>1, <1>4, QueuesStay
          DEF BrowserForgets, PresenceTypeOK, StepOK, QueuesGrow, Clocks, States

LEMMA SessionLostType ==
  ASSUME PresenceTypeOK, NEW n \in Nodes, SessionLost(n)
  PROVE  StepOK
<1>. DEFINE cut == {w \in Sockets : sock[w].node = n}
            alone == {c \in Clients : link[c] \in cut}
<1>1. /\ faults' \in 0 .. MaxFaults
      /\ ready' = [ready EXCEPT ![n] = FALSE]
      /\ relayed' = [relayed EXCEPT ![n] = {}]
      /\ UNCHANGED page
  BY DEF SessionLost, PresenceTypeOK
<1>2. /\ link' = [c \in Clients |-> IF c \in alone THEN None ELSE link[c]]
      /\ sock' = [w \in Sockets |-> IF w \in cut THEN NoConnection ELSE sock[w]]
      /\ ids' = [w \in Sockets |-> IF w \in cut THEN {} ELSE ids[w]]
  BY DEF SessionLost
<1>3. /\ up' = [w \in Sockets |-> IF w \in cut THEN <<>> ELSE up[w]]
      /\ down' = [w \in Sockets |-> IF w \in cut THEN <<>> ELSE down[w]]
      /\ relay' = [relay EXCEPT ![n] = <<>>]
  BY DEF SessionLost
<1>4. /\ shown' = [r \in Replicas |-> CASE r = n -> {}
                                        [] r \in alone -> shown[r] \cap {r}
                                        [] OTHER -> shown[r]]
      /\ clock' = [clock EXCEPT ![n] = [c \in Clients |-> 0]]
  BY DEF SessionLost
<1>. HIDE DEF cut, alone
<1>5. \A w \in Sockets : Grows(up[w], <<>>) /\ Grows(down[w], <<>>)
  BY GrowsSame, QueuesStay
<1>6. Grows(relay[n], <<>>)
  BY GrowsSame, QueuesStay
<1>7. <<>> \in Seq(SUBSET Entry)
  OBVIOUS
<1>8. QueuesGrow
  BY <1>3, <1>5, <1>6, <1>7, QueuesStay DEF QueuesGrow
<1>9. /\ link' \in [Clients -> Sockets \cup {None}]
      /\ sock' \in [Sockets -> Connection]
      /\ ids' \in [Sockets -> SUBSET Clients]
      /\ ready' \in [Nodes -> BOOLEAN]
      /\ relayed' \in [Nodes -> SUBSET Clients]
  BY <1>1, <1>2 DEF PresenceTypeOK, Connection
<1>10. shown' \in [Replicas -> SUBSET Clients]
  <2>1. \A r \in Replicas : shown[r] \in SUBSET Clients
    BY DEF PresenceTypeOK
  <2>. QED  BY <1>4, <2>1
<1>11. clock' \in [Replicas -> [Clients -> Nat]]
  BY <1>4 DEF PresenceTypeOK
<1>. QED  BY <1>1, <1>8, <1>9, <1>10, <1>11 DEF PresenceTypeOK, StepOK, QueuesGrow

LEMMA PresenceTypeInit == PresenceInit => PresenceTypeOK
<1>1. <<>> \in Seq(SUBSET Entry)
  OBVIOUS
<1>2. [c \in Clients |-> 0] \in [Clients -> Nat]
  OBVIOUS
<1>. QED  BY <1>1, <1>2 DEF PresenceInit, PresenceTypeOK, Connection

LEMMA PresenceTypeStep ==
  ASSUME PresenceTypeOK, [PresenceNext]_presenceVars
  PROVE  StepOK
<1>1. CASE UNCHANGED presenceVars
  BY <1>1, QueuesStay DEF presenceVars, PresenceTypeOK, StepOK, QueuesGrow
<1>2. CASE PresenceNext
  BY <1>2, OpenPageType, SetLocalStateType, ConnectType, HydrateDoneType, BrowserReadsType,
     ServerReadsType, RemoteAwarenessType, ConnectionLostType, LeavePageType,
     RemoveClientType, NodeForgetsType, BrowserForgetsType, SessionLostType
  DEF PresenceNext, SetUser, Renew
<1>. QED  BY <1>1, <1>2

(* Every reachable state of the presence model is well typed. *)
THEOREM PresenceTypeCorrect == PresenceSpec => []PresenceTypeOK
<1>1. PresenceTypeOK /\ [PresenceNext]_presenceVars => PresenceTypeOK'
  BY PresenceTypeStep DEF StepOK
<1>. QED  BY <1>1, PresenceTypeInit, PTL DEF PresenceSpec

-----------------------------------------------------------------------------
(* Nobody is ahead of a client, nor is an update that is on its way.  A step *)
(* lets a replica learn a clock from such an update, or the client itself    *)
(* move on, and what it sends is what some replica then knows.               *)

Told(q) ==
  \A u \in Sent(q) : \A m \in u : m.client \in Clients => m.clock <= clock[m.client][m.client]

AheadInv ==
  /\ NobodyAhead
  /\ \A w \in Sockets : Told(up[w]) /\ Told(down[w])
  /\ \A n \in Nodes : Told(relay[n])

(* The clocks of a step: a client's own does not go back, and another        *)
(* replica learns no later one than the client has.                          *)
ClocksFollow ==
  /\ \A c \in Clients : clock[c][c] <= clock'[c][c]
  /\ \A r \in Replicas, c \in Clients :
       r # c => \/ clock'[r][c] <= clock[r][c]
                \/ clock'[r][c] <= clock[c][c]

LEMMA ClocksStay ==
  ASSUME PresenceTypeOK, UNCHANGED clock
  PROVE  ClocksFollow
<1>1. \A r \in Replicas, c \in Clients : clock[r][c] \in Nat
  BY DEF PresenceTypeOK
<1>. QED  BY <1>1 DEF ClocksFollow

(* A replica that applies what was told. *)
LEMMA ApplyFollows ==
  ASSUME PresenceTypeOK, NEW r \in Replicas, NEW u \in SUBSET Entry,
         ApplyAwarenessUpdate(r, u),
         \A m \in u : m.clock <= clock[m.client][m.client]
  PROVE  ClocksFollow
<1>1. \A q \in Replicas, c \in Clients : clock[q][c] \in Nat
  BY DEF PresenceTypeOK
<1>2. \A q \in Replicas \ {r} : clock'[q] = clock[q]
  BY ApplyClocks
<1>3. \A c \in Clients :
        /\ clock[r][c] <= clock'[r][c]
        /\ \/ clock'[r][c] = clock[r][c]
           \/ c = r
           \/ \E m \in u : m.client = c /\ clock'[r][c] = m.clock
  BY ApplyClocks
<1>4. \A c \in Clients : clock[c][c] <= clock'[c][c]
  <2>. TAKE c \in Clients
  <2>1. CASE c = r
    BY <1>3, <2>1
  <2>2. CASE c # r
    BY <1>1, <1>2, <2>2
  <2>. QED  BY <2>1, <2>2
<1>5. ASSUME NEW q \in Replicas, NEW c \in Clients, q # c
      PROVE  \/ clock'[q][c] <= clock[q][c]
             \/ clock'[q][c] <= clock[c][c]
  <2>1. CASE q # r
    BY <1>1, <1>2, <2>1
  <2>2. CASE q = r /\ clock'[r][c] = clock[r][c]
    BY <1>1, <2>2
  <2>3. CASE q = r /\ \E m \in u : m.client = c /\ clock'[r][c] = m.clock
    BY <2>3
  <2>. QED  BY <1>3, <1>5, <2>1, <2>2, <2>3
<1>. QED  BY <1>4, <1>5 DEF ClocksFollow

LEMMA OwnClockFollows ==
  ASSUME PresenceTypeOK, NEW c \in Clients, clock' = [clock EXCEPT ![c][c] = @ + 1]
  PROVE  ClocksFollow
<1>1. \A r \in Replicas, d \in Clients : clock[r][d] \in Nat
  BY DEF PresenceTypeOK
<1>2. clock'[c][c] = clock[c][c] + 1
  BY DEF PresenceTypeOK
<1>3. \A r \in Replicas, d \in Clients : r # c \/ d # c => clock'[r][d] = clock[r][d]
  BY DEF PresenceTypeOK
<1>. QED  BY <1>1, <1>2, <1>3 DEF ClocksFollow

LEMMA HeadIsTold ==
  ASSUME NEW q \in Seq(SUBSET Entry), q # <<>>, Told(q)
  PROVE  Head(q) \in SUBSET Entry /\ \A m \in Head(q) : m.clock <= clock[m.client][m.client]
<1>1. Head(q) \in SUBSET Entry /\ Head(q) \in Sent(q)
  BY GrowsTail
<1>2. \A m \in Entry : m.client \in Clients
  BY DEF Entry
<1>. QED  BY <1>1, <1>2 DEF Told

LEMMA ClocksStep ==
  ASSUME PresenceTypeOK, AheadInv, [PresenceNext]_presenceVars
  PROVE  ClocksFollow
<1>1. CASE UNCHANGED clock
  BY <1>1, ClocksStay
<1>2. CASE \E c \in Clients : SetLocalState(c) \/ LeavePage(c)
  <2>1. PICK c \in Clients : SetLocalState(c) \/ LeavePage(c)
    BY <1>2
  <2>. QED  BY <1>1, <2>1, OwnClockFollows DEF SetLocalState, LeavePage
<1>3. CASE \E c \in Clients : BrowserReads(c)
  <2>1. PICK c \in Clients : BrowserReads(c)
    BY <1>3
  <2>. DEFINE w == link[c]
  <2>2. w \in Sockets /\ down[w] # <<>> /\ ApplyAwarenessUpdate(c, Head(down[w]))
    BY <2>1 DEF BrowserReads, PresenceTypeOK
  <2>3. down[w] \in Seq(SUBSET Entry) /\ Told(down[w])
    BY <2>2 DEF PresenceTypeOK, AheadInv
  <2>. HIDE DEF w
  <2>. QED  BY <2>2, <2>3, HeadIsTold, ApplyFollows
<1>4. CASE \E w \in Sockets : ServerReads(w) /\ sock[w].attached
  <2>1. PICK w \in Sockets : ServerReads(w) /\ sock[w].attached
    BY <1>4
  <2>2. up[w] # <<>> /\ ApplyAwarenessUpdate(sock[w].node, Head(up[w]))
    BY <2>1 DEF ServerReads
  <2>3. up[w] \in Seq(SUBSET Entry) /\ Told(up[w])
    BY DEF PresenceTypeOK, AheadInv
  <2>4. sock[w].node \in Nodes
    BY <2>1 DEF PresenceTypeOK, Connection, NoConnection
  <2>. QED  BY <2>2, <2>3, <2>4, HeadIsTold, ApplyFollows
<1>5. CASE \E n \in Nodes : RemoteAwareness(n) /\ ApplyAwarenessUpdate(n, Head(relay[n]))
  <2>1. PICK n \in Nodes : RemoteAwareness(n) /\ ApplyAwarenessUpdate(n, Head(relay[n]))
    BY <1>5
  <2>2. relay[n] # <<>>
    BY <2>1 DEF RemoteAwareness
  <2>3. relay[n] \in Seq(SUBSET Entry) /\ Told(relay[n])
    BY DEF PresenceTypeOK, AheadInv
  <2>. QED  BY <2>1, <2>2, <2>3, HeadIsTold, ApplyFollows
<1>6. CASE \E n \in Nodes : SessionLost(n)
  <2>1. PICK n \in Nodes : clock' = [clock EXCEPT ![n] = [c \in Clients |-> 0]]
    BY <1>6 DEF SessionLost
  <2>2. \A r \in Replicas, c \in Clients : clock[r][c] \in Nat
    BY DEF PresenceTypeOK
  <2>3. \A r \in Replicas, c \in Clients :
          /\ r # n => clock'[r][c] = clock[r][c]
          /\ clock'[n][c] = 0
    BY <2>1 DEF PresenceTypeOK
  <2>4. \A c \in Clients : c # n
    OBVIOUS
  <2>. QED  BY <2>2, <2>3, <2>4 DEF ClocksFollow
<1>7. CASE UNCHANGED presenceVars
  BY <1>1, <1>7 DEF presenceVars
<1>8. CASE PresenceNext
  <2>1. ASSUME NEW c \in Clients
        PROVE  /\ OpenPage(c) => UNCHANGED clock
               /\ ConnectionLost(c) => UNCHANGED clock
               /\ \A n \in Nodes : Connect(c, n) \/ NodeForgets(n, c) => UNCHANGED clock
               /\ \A d \in Clients : BrowserForgets(d, c) => UNCHANGED clock
    BY DEF OpenPage, ConnectionLost, Connect, NodeForgets, BrowserForgets,
           RemoveAwarenessStates
  <2>2. \A w \in Sockets : /\ RemoveClient(w) => UNCHANGED clock
                           /\ ServerReads(w) /\ ~sock[w].attached => UNCHANGED clock
    BY DEF RemoveClient, RemoveAwarenessStates, ServerReads
  <2>3. \A n \in Nodes :
          /\ HydrateDone(n) => UNCHANGED clock
          /\ RemoteAwareness(n) =>
               ApplyAwarenessUpdate(n, Head(relay[n])) \/ UNCHANGED clock
    BY DEF HydrateDone, RemoteAwareness
  <2>. QED  BY <1>1, <1>2, <1>3, <1>4, <1>5, <1>6, <1>8, <2>1, <2>2, <2>3
            DEF PresenceNext, SetUser, Renew
<1>. QED  BY <1>7, <1>8

LEMMA ToldFollows ==
  ASSUME PresenceTypeOK, PresenceTypeOK', ClocksFollow, NobodyAhead',
         NEW q \in Seq(SUBSET Entry), NEW p, Told(q), Grows(q, p)
  PROVE  \A u \in Sent(p) : \A m \in u :
           m.client \in Clients => m.clock <= clock'[m.client][m.client]
<1>. SUFFICES ASSUME NEW u \in Sent(p), NEW m \in u, m.client \in Clients
              PROVE  m.clock <= clock'[m.client][m.client]
  OBVIOUS
<1>1. clock[m.client][m.client] \in Nat /\ clock'[m.client][m.client] \in Nat
  BY DEF PresenceTypeOK
<1>2. CASE u \in Sent(q)
  <2>1. u \in SUBSET Entry
    <3>1. \A i \in 1 .. Len(q) : q[i] \in SUBSET Entry
      OBVIOUS
    <3>. QED  BY <1>2, <3>1 DEF Sent
  <2>2. m.clock \in Nat
    BY <2>1 DEF Entry
  <2>3. m.clock <= clock[m.client][m.client]
    BY <1>2 DEF Told
  <2>. QED  BY <1>1, <2>2, <2>3 DEF ClocksFollow
<1>3. CASE Known(u)
  BY <1>3 DEF Known, NobodyAhead
<1>. QED  BY <1>2, <1>3 DEF Grows

LEMMA AheadStep ==
  ASSUME PresenceTypeOK, AheadInv, [PresenceNext]_presenceVars
  PROVE  AheadInv'
<1>1. PresenceTypeOK' /\ QueuesGrow
  BY PresenceTypeStep DEF StepOK
<1>2. ClocksFollow
  BY ClocksStep
<1>3. NobodyAhead'
  <2>. SUFFICES ASSUME NEW r \in Replicas, NEW c \in Clients
                PROVE  clock'[r][c] <= clock'[c][c]
    BY DEF NobodyAhead
  <2>1. /\ clock[r][c] \in Nat /\ clock[c][c] \in Nat
        /\ clock'[r][c] \in Nat /\ clock'[c][c] \in Nat
    BY <1>1 DEF PresenceTypeOK
  <2>2. clock[r][c] <= clock[c][c]
    BY DEF AheadInv, NobodyAhead
  <2>. QED  BY <1>2, <2>1, <2>2 DEF ClocksFollow
<1>4. \A w \in Sockets : Told(up[w])' /\ Told(down[w])'
  <2>. TAKE w \in Sockets
  <2>1. Told(up[w]) /\ Told(down[w])
    BY DEF AheadInv
  <2>2. up[w] \in Seq(SUBSET Entry) /\ down[w] \in Seq(SUBSET Entry)
    BY DEF PresenceTypeOK
  <2>3. Grows(up[w], up'[w]) /\ Grows(down[w], down'[w])
    BY <1>1 DEF QueuesGrow
  <2>. QED  BY <1>1, <1>2, <1>3, <2>1, <2>2, <2>3, ToldFollows DEF Told
<1>5. \A n \in Nodes : Told(relay[n])'
  <2>. TAKE n \in Nodes
  <2>1. Told(relay[n]) /\ relay[n] \in Seq(SUBSET Entry)
    BY DEF AheadInv, PresenceTypeOK
  <2>2. Grows(relay[n], relay'[n])
    BY <1>1 DEF QueuesGrow
  <2>. QED  BY <1>1, <1>2, <1>3, <2>1, <2>2, ToldFollows DEF Told
<1>. QED  BY <1>3, <1>4, <1>5 DEF AheadInv

LEMMA AheadInit == PresenceInit => AheadInv
<1>. SUFFICES ASSUME PresenceInit
              PROVE  AheadInv
  OBVIOUS
<1>1. NobodyAhead
  <2>1. \A r \in Replicas, c \in Clients : clock[r][c] = 0
    BY DEF PresenceInit
  <2>2. \A c \in Clients : c \in Replicas
    OBVIOUS
  <2>. SUFFICES ASSUME NEW r \in Replicas, NEW c \in Clients
                PROVE  clock[r][c] <= clock[c][c]
    BY DEF NobodyAhead
  <2>3. clock[r][c] = 0 /\ clock[c][c] = 0 /\ 0 <= 0
    BY <2>1, <2>2
  <2>. QED  BY <2>3, Zenon
<1>2. Told(<<>>)
  BY SentFew DEF Told
<1>. QED  BY <1>1, <1>2 DEF PresenceInit, AheadInv

(* No replica and no update under way has a later clock of a client than the *)
(* client itself, whatever was lost, reordered or removed.                   *)
THEOREM NobodyAheadCorrect == PresenceSpec => []NobodyAhead
<1>1. PresenceTypeOK /\ AheadInv /\ [PresenceNext]_presenceVars => AheadInv'
  BY AheadStep
<1>2. AheadInv => NobodyAhead
  BY DEF AheadInv
<1>. QED  BY <1>1, <1>2, AheadInit, PresenceTypeCorrect, PTL DEF PresenceSpec

-----------------------------------------------------------------------------
(* Every state of a session belongs to a connection or came by Redis.        *)

Owned(n, c) == c \in relayed[n] \/ \E w \in Attached(n) : c \in ids[w]

(* A connection that stays attached keeps its node. *)
LEMMA OwnedByRest ==
  ASSUME NEW n \in Nodes, NEW c \in Clients, Owned(n, c),
         c \in relayed[n] => c \in relayed'[n],
         \A w \in Sockets : sock[w].node = n /\ sock[w].attached /\ c \in ids[w] =>
           sock'[w].node = n /\ sock'[w].attached /\ c \in ids'[w]
  PROVE  Owned(n, c)'
BY DEF Owned, Attached

LEMMA OwnedServerReads ==
  ASSUME PresenceTypeOK, StatesAreOwned, NEW w \in Sockets, ServerReads(w)
  PROVE  StatesAreOwned'
<1>. DEFINE n == sock[w].node
            u == Head(up[w])
            cs == Changed(n, u)
<1>1. UNCHANGED sock /\ up[w] # <<>> /\ up[w] \in Seq(SUBSET Entry)
  BY DEF ServerReads, PresenceTypeOK
<1>2. u \in SUBSET Entry
  BY <1>1, GrowsTail
<1>3. CASE sock[w].attached
  <2>1. n \in Nodes
    BY <1>3 DEF PresenceTypeOK, Connection, NoConnection
  <2>2. /\ ApplyAwarenessUpdate(n, u)
        /\ ids' = [ids EXCEPT ![w] = SocketIDs(@, n, cs)]
        /\ relayed' = [relayed EXCEPT ![n] = @ \ cs]
    BY <1>3 DEF ServerReads
  <2>3. /\ \A q \in Replicas \ {n} : shown'[q] = shown[q]
        /\ \A c \in shown'[n] : c \in shown[n] \/ c \in cs
        /\ shown' \in States
    BY <1>2, <2>1, <2>2, ApplyStates
  <2>4. ids'[w] = (ids[w] \ cs) \cup (cs \cap shown'[n])
    BY <2>2 DEF SocketIDs, PresenceTypeOK
  <2>5. \A v \in Sockets \ {w} : ids'[v] = ids[v]
    BY <2>2 DEF PresenceTypeOK
  <2>6. /\ relayed'[n] = relayed[n] \ cs
        /\ \A m \in Nodes \ {n} : relayed'[m] = relayed[m]
    BY <2>1, <2>2 DEF PresenceTypeOK
  <2>. HIDE DEF cs, n, u
  <2>7. n = sock[w].node
    BY DEF n
  <2>. SUFFICES ASSUME NEW m \in Nodes, NEW c \in shown'[m]
                PROVE  Owned(m, c)'
    BY DEF StatesAreOwned, Owned
  <2>8. c \in Clients
    BY <2>3 DEF States
  <2>9. CASE m = n /\ c \in cs
    BY <1>1, <1>3, <2>4, <2>7, <2>9 DEF Owned, Attached
  <2>10. CASE m = n /\ c \notin cs
    <3>1. Owned(n, c)
      BY <2>1, <2>3, <2>10 DEF StatesAreOwned, Owned
    <3>. QED  BY <1>1, <2>4, <2>5, <2>6, <2>8, <2>10, <3>1, OwnedByRest
  <2>11. CASE m # n
    <3>1. Owned(m, c)
      BY <2>3, <2>11 DEF StatesAreOwned, Owned
    <3>. QED  BY <1>1, <2>5, <2>6, <2>7, <2>8, <2>11, <3>1, OwnedByRest
  <2>. QED  BY <2>9, <2>10, <2>11
<1>4. CASE ~sock[w].attached
  <2>1. UNCHANGED <<shown, ids, relayed>>
    BY <1>4 DEF ServerReads
  <2>. QED  BY <1>1, <2>1 DEF StatesAreOwned, Attached
<1>. QED  BY <1>3, <1>4

LEMMA OwnedRemoteAwareness ==
  ASSUME PresenceTypeOK, StatesAreOwned, NEW n \in Nodes, RemoteAwareness(n)
  PROVE  StatesAreOwned'
<1>. DEFINE u == Head(relay[n])
            cs == Changed(n, u)
<1>1. /\ UNCHANGED <<sock, ids>>
      /\ relay[n] # <<>> /\ relay[n] \in Seq(SUBSET Entry)
  BY DEF RemoteAwareness, PresenceTypeOK
<1>2. u \in SUBSET Entry
  BY <1>1, GrowsTail
<1>3. CASE ApplyAwarenessUpdate(n, u) /\ relayed' = [relayed EXCEPT ![n] = @ \cup cs]
  <2>1. /\ \A q \in Replicas \ {n} : shown'[q] = shown[q]
        /\ \A c \in shown'[n] : c \in shown[n] \/ c \in cs
    BY <1>2, <1>3, ApplyStates
  <2>2. /\ relayed'[n] = relayed[n] \cup cs
        /\ \A m \in Nodes \ {n} : relayed'[m] = relayed[m]
    BY <1>3 DEF PresenceTypeOK
  <2>. HIDE DEF cs
  <2>. QED  BY <1>1, <2>1, <2>2 DEF StatesAreOwned, Attached
<1>4. CASE UNCHANGED <<shown, relayed>>
  BY <1>1, <1>4 DEF StatesAreOwned, Attached
<1>. QED  BY <1>3, <1>4 DEF RemoteAwareness

LEMMA OwnedRemoveClient ==
  ASSUME PresenceTypeOK, StatesAreOwned, NEW w \in Sockets, RemoveClient(w)
  PROVE  StatesAreOwned'
<1>. DEFINE n == sock[w].node
            gone == ids[w] \cap shown[n]
<1>1. /\ sock' = [sock EXCEPT ![w] = NoConnection]
      /\ ids' = [ids EXCEPT ![w] = {}]
      /\ shown' = [shown EXCEPT ![n] = @ \ gone]
      /\ UNCHANGED relayed
  BY DEF RemoveClient, RemoveAwarenessStates
<1>2. n \in Nodes
  BY DEF RemoveClient, PresenceTypeOK, Connection, NoConnection
<1>3. /\ shown'[n] = shown[n] \ (ids[w] \cap shown[n])
      /\ \A m \in Nodes \ {n} : shown'[m] = shown[m]
  BY <1>1, <1>2 DEF PresenceTypeOK
<1>4. \A v \in Sockets \ {w} : sock'[v] = sock[v] /\ ids'[v] = ids[v]
  BY <1>1 DEF PresenceTypeOK
<1>. HIDE DEF gone
<1>5. \A m \in Nodes : \A c \in shown'[m] : c \in shown[m] /\ (m = n => c \notin ids[w])
  BY <1>3
<1>6. ASSUME NEW m \in Nodes, NEW c \in shown'[m]
      PROVE  Owned(m, c)'
  <2>1. Owned(m, c)
    BY <1>5, <1>6 DEF StatesAreOwned, Owned
  <2>2. \A v \in Attached(m) : c \in ids[v] => v # w
    BY <1>5, <1>6 DEF Attached
  <2>. QED  BY <1>1, <1>4, <2>1, <2>2 DEF Owned, Attached
<1>. QED  BY <1>6 DEF StatesAreOwned, Owned

LEMMA OwnedSessionLost ==
  ASSUME PresenceTypeOK, StatesAreOwned, NEW n \in Nodes, SessionLost(n)
  PROVE  StatesAreOwned'
<1>. DEFINE cut == {w \in Sockets : sock[w].node = n}
            alone == {c \in Clients : link[c] \in cut}
<1>1. /\ sock' = [w \in Sockets |-> IF w \in cut THEN NoConnection ELSE sock[w]]
      /\ ids' = [w \in Sockets |-> IF w \in cut THEN {} ELSE ids[w]]
      /\ relayed' = [relayed EXCEPT ![n] = {}]
  BY DEF SessionLost
<1>2. shown' = [r \in Replicas |-> CASE r = n -> {}
                                     [] r \in alone -> shown[r] \cap {r}
                                     [] OTHER -> shown[r]]
  BY DEF SessionLost
<1>3. \A m \in Nodes : m \notin alone
  OBVIOUS
<1>. HIDE DEF alone
<1>4. /\ shown'[n] = {}
      /\ \A m \in Nodes \ {n} : shown'[m] = shown[m] /\ relayed'[m] = relayed[m]
  BY <1>1, <1>2, <1>3 DEF PresenceTypeOK
<1>5. \A w \in Sockets : sock[w].node # n => sock'[w] = sock[w] /\ ids'[w] = ids[w]
  BY <1>1
<1>. HIDE DEF cut
<1>6. ASSUME NEW m \in Nodes, NEW c \in shown'[m]
      PROVE  Owned(m, c)'
  <2>1. m # n /\ c \in shown[m]
    BY <1>4, <1>6
  <2>2. Owned(m, c)
    BY <2>1 DEF StatesAreOwned, Owned
  <2>. QED  BY <1>4, <1>5, <2>1, <2>2 DEF Owned, Attached
<1>. QED  BY <1>6 DEF StatesAreOwned, Owned

LEMMA OwnedPages ==
  ASSUME PresenceTypeOK, StatesAreOwned, NEW c \in Clients,
         \/ OpenPage(c) \/ SetLocalState(c) \/ BrowserReads(c)
         \/ ConnectionLost(c) \/ LeavePage(c)
         \/ \E d \in Clients : BrowserForgets(c, d)
  PROVE  StatesAreOwned'
<1>1. UNCHANGED <<sock, ids, relayed>>
  BY DEF OpenPage, SetLocalState, BrowserReads, ConnectionLost, LeavePage, BrowserForgets
<1>2. \A n \in Nodes : shown'[n] = shown[n]
  <2>1. \A n \in Nodes : n # c /\ n \in Replicas \ {c}
    OBVIOUS
  <2>2. CASE \/ OpenPage(c) \/ SetLocalState(c) \/ ConnectionLost(c) \/ LeavePage(c)
             \/ \E d \in Clients : BrowserForgets(c, d)
    <3>1. \/ UNCHANGED shown
          \/ \E S : shown' = [shown EXCEPT ![c] = S]
          \/ \E S : shown' = [shown EXCEPT ![c] = @ \ S]
      BY <2>2 DEF OpenPage, SetLocalState, ConnectionLost, LeavePage, BrowserForgets,
                  RemoveAwarenessStates
    <3>. QED  BY <2>1, <3>1 DEF PresenceTypeOK
  <2>3. CASE BrowserReads(c)
    <3>. DEFINE w == link[c]
                u == Head(down[w])
    <3>1. /\ w \in Sockets /\ down[w] # <<>> /\ ApplyAwarenessUpdate(c, u)
          /\ down[w] \in Seq(SUBSET Entry)
      BY <2>3 DEF BrowserReads, PresenceTypeOK
    <3>2. u \in SUBSET Entry
      BY <3>1, GrowsTail
    <3>. HIDE DEF u
    <3>. QED  BY <2>1, <3>1, <3>2, ApplyStates
  <2>. QED  BY <2>2, <2>3
<1>. QED  BY <1>1, <1>2 DEF StatesAreOwned, Attached

LEMMA OwnedConnect ==
  ASSUME PresenceTypeOK, StatesAreOwned, NEW c \in Clients, NEW n \in Nodes, Connect(c, n)
  PROVE  StatesAreOwned'
<1>1. PICK w \in Sockets :
        /\ sock[w] = NoConnection
        /\ sock' = [sock EXCEPT ![w] = [client |-> c, node |-> n, attached |-> ready[n]]]
  BY DEF Connect
<1>2. UNCHANGED <<ids, shown, relayed>>
  BY DEF Connect
<1>3. \A m \in Nodes : Attached(m) \subseteq Attached(m)'
  <2>1. ~sock[w].attached
    BY <1>1 DEF NoConnection
  <2>2. \A v \in Sockets \ {w} : sock'[v] = sock[v]
    BY <1>1 DEF PresenceTypeOK
  <2>. QED  BY <2>1, <2>2 DEF Attached
<1>. QED  BY <1>2, <1>3 DEF StatesAreOwned

LEMMA OwnedHydrateDone ==
  ASSUME PresenceTypeOK, StatesAreOwned, NEW n \in Nodes, HydrateDone(n)
  PROVE  StatesAreOwned'
<1>1. /\ UNCHANGED <<ids, shown, relayed>>
      /\ sock' = [w \in Sockets |-> IF w \in {v \in Sockets : sock[v].node = n}
                                      THEN [sock[w] EXCEPT !.attached = TRUE] ELSE sock[w]]
  BY DEF HydrateDone
<1>2. \A w \in Sockets : sock[w] \in Connection
  BY DEF PresenceTypeOK
<1>3. \A x \in Connection : [x EXCEPT !.attached = TRUE].node = x.node
                            /\ [x EXCEPT !.attached = TRUE].attached
  BY DEF Connection, NoConnection
<1>4. \A m \in Nodes : Attached(m) \subseteq Attached(m)'
  <2>. SUFFICES ASSUME NEW m \in Nodes, NEW w \in Attached(m)
                PROVE  w \in Sockets /\ sock'[w].node = m /\ sock'[w].attached
    BY DEF Attached
  <2>1. w \in Sockets /\ sock[w].node = m /\ sock[w].attached
    BY DEF Attached
  <2>. QED  BY <1>1, <1>2, <1>3, <2>1
<1>. QED  BY <1>1, <1>4 DEF StatesAreOwned

LEMMA OwnedNodeForgets ==
  ASSUME PresenceTypeOK, StatesAreOwned, NEW n \in Nodes, NEW c \in Clients, NodeForgets(n, c)
  PROVE  StatesAreOwned'
<1>1. /\ UNCHANGED <<sock, ids, relayed>>
      /\ shown' = [shown EXCEPT ![n] = @ \ {c}]
  BY DEF NodeForgets, RemoveAwarenessStates
<1>2. \A m \in Nodes : \A d \in shown'[m] : d \in shown[m]
  BY <1>1 DEF PresenceTypeOK
<1>. QED  BY <1>1, <1>2 DEF StatesAreOwned, Attached

LEMMA OwnedStep ==
  ASSUME PresenceTypeOK, StatesAreOwned, [PresenceNext]_presenceVars
  PROVE  StatesAreOwned'
<1>1. CASE UNCHANGED presenceVars
  BY <1>1 DEF presenceVars, StatesAreOwned, Attached
<1>2. CASE PresenceNext
  BY <1>2, OwnedServerReads, OwnedRemoteAwareness, OwnedRemoveClient, OwnedSessionLost,
     OwnedPages, OwnedConnect, OwnedHydrateDone, OwnedNodeForgets
  DEF PresenceNext, SetUser, Renew
<1>. QED  BY <1>1, <1>2

(* removeClient finds every state of its clients: none is left without a     *)
(* connection that answers for it, but for those that came by Redis.         *)
THEOREM OwnedCorrect == PresenceSpec => []StatesAreOwned
<1>1. PresenceInit => StatesAreOwned
  BY DEF PresenceInit, StatesAreOwned
<1>2. PresenceTypeOK /\ StatesAreOwned /\ [PresenceNext]_presenceVars => StatesAreOwned'
  BY OwnedStep
<1>. QED  BY <1>1, <1>2, PresenceTypeCorrect, PTL DEF PresenceSpec
=============================================================================
