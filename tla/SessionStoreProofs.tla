-------------------------- MODULE SessionStoreProofs --------------------------
(***************************************************************************)
(* Proofs about SessionStore, for any nodes and sessions, and any numbers  *)
(* of clients and of commands under way.                                   *)
(***************************************************************************)
EXTENDS SessionStore, SequenceTheorems, TLAPS

USE HomeAssumption, NoSessionAssumption, MaxClientsAssumption, MaxCommandsAssumption
USE DEF roomVars

-----------------------------------------------------------------------------
(* What node n has under way when it makes a command: one more at the end,   *)
(* or nothing new while the status says that Redis is away.                  *)
LEMMA SendType ==
  ASSUME StoreTypeOK, NEW n \in Nodes, NEW op, NEW count,
         [op |-> op, count |-> count] \in Command, Send(n, op, count)
  PROVE  commands' \in [Nodes -> Seq(Command)]
<1>. DEFINE c == [op |-> op, count |-> count]
<1>1. commands[n] \in Seq(Command)
  BY DEF StoreTypeOK
<1>2. Append(commands[n], c) \in Seq(Command)
  BY <1>1
<1>3. commands' = [commands EXCEPT ![n] = IF status[n] THEN Append(commands[n], c)
                                                       ELSE commands[n]]
  BY DEF Send
<1>. HIDE DEF c
<1>. QED  BY <1>1, <1>2, <1>3 DEF StoreTypeOK

(* The updates of the key that addClient and removeClient make. *)
LEMMA SetSessionType ==
  ASSUME StoreTypeOK, NEW s \in Sessions, NEW count \in 0 .. MaxClients,
         SetSession(s, count)
  PROVE  commands' \in [Nodes -> Seq(Command)] /\ told' \in [Nodes -> Sessions \cup {None}]
<1>. Home[s] \in Nodes
  OBVIOUS
<1>1. [op |-> "get", count |-> count] \in Command
  BY DEF Command
<1>2. commands' \in [Nodes -> Seq(Command)]
  BY <1>1, SendType DEF SetSession
<1>. QED  BY <1>2 DEF SetSession, StoreTypeOK

(* Joins, leaves, evictions and Redis keep the types. *)
LEMMA StoreTypeStep ==
  ASSUME StoreTypeOK, [StoreNext]_storeVars
  PROVE  StoreTypeOK'
<1>1. ASSUME NEW n \in Nodes, AddClient(n)
      PROVE  StoreTypeOK'
  <2>. DEFINE s == registered[n]
  <2>1. s \in Sessions /\ clients[s] < MaxClients
        /\ clients' = [clients EXCEPT ![s] = @ + 1] /\ SetSession(s, clients'[s])
    BY <1>1 DEF AddClient, StoreTypeOK
  <2>. HIDE DEF s
  <2>2. clients[s] + 1 \in 0 .. MaxClients /\ clients'[s] = clients[s] + 1
    BY <2>1 DEF StoreTypeOK
  <2>3. commands' \in [Nodes -> Seq(Command)] /\ told' \in [Nodes -> Sessions \cup {None}]
    BY <2>1, <2>2, SetSessionType
  <2>4. clients' \in [Sessions -> 0 .. MaxClients]
    BY <2>1, <2>2 DEF StoreTypeOK
  <2>. QED  BY <1>1, <2>3, <2>4 DEF AddClient, StoreTypeOK
<1>2. ASSUME NEW s \in Sessions, RemoveClient(s)
      PROVE  StoreTypeOK'
  <2>1. clients[s] - 1 \in 0 .. MaxClients /\ clients'[s] = clients[s] - 1
    BY <1>2 DEF RemoveClient, StoreTypeOK
  <2>2. commands' \in [Nodes -> Seq(Command)] /\ told' \in [Nodes -> Sessions \cup {None}]
    BY <1>2, <2>1, SetSessionType DEF RemoveClient
  <2>. QED  BY <1>2, <2>1, <2>2 DEF RemoveClient, StoreTypeOK
<1>3. ASSUME NEW s \in Sessions, StrayLeaves(s)
      PROVE  StoreTypeOK'
  <2>1. [op |-> "get", count |-> 0] \in Command /\ Home[s] \in Nodes
    BY DEF Command
  <2>2. commands' \in [Nodes -> Seq(Command)]
    BY <1>3, <2>1, SendType DEF StrayLeaves
  <2>3. strays[s] - 1 \in 0 .. MaxClients
    BY <1>3 DEF StrayLeaves, StoreTypeOK
  <2>4. strays' \in [Sessions -> 0 .. MaxClients]
        /\ told' \in [Nodes -> Sessions \cup {None}]
    BY <1>3, <2>3 DEF StrayLeaves, StoreTypeOK
  <2>. QED  BY <1>3, <2>2, <2>4 DEF StrayLeaves, StoreTypeOK
<1>4. ASSUME NEW n \in Nodes, Evict(n)
      PROVE  StoreTypeOK'
  <2>. DEFINE s == registered[n]
  <2>1. [op |-> "del", count |-> 0] \in Command
    BY DEF Command
  <2>2. commands' \in [Nodes -> Seq(Command)]
    BY <1>4, <2>1, SendType DEF Evict
  <2>3. /\ s \in Sessions
        /\ session' = [session EXCEPT ![s] = "destroyed"]
        /\ registered' = [registered EXCEPT ![n] = None]
        /\ strays' = [strays EXCEPT ![s] = clients[s]]
        /\ clients' = [clients EXCEPT ![s] = 0]
        /\ told' = [told EXCEPT ![n] = IF @ = s THEN None ELSE @]
        /\ UNCHANGED <<status, record>>
    BY <1>4 DEF Evict, StoreTypeOK
  <2>. HIDE DEF s
  <2>4. clients[s] \in 0 .. MaxClients /\ 0 \in 0 .. MaxClients
    BY <2>3 DEF StoreTypeOK
  <2>5. /\ session' \in [Sessions -> {"unused", "hydrating", "live", "destroyed"}]
        /\ registered' \in [Nodes -> Sessions \cup {None}]
        /\ clients' \in [Sessions -> 0 .. MaxClients]
        /\ strays' \in [Sessions -> 0 .. MaxClients]
        /\ told' \in [Nodes -> Sessions \cup {None}]
    BY <2>3, <2>4 DEF StoreTypeOK
  <2>. QED  BY <2>2, <2>3, <2>5 DEF StoreTypeOK
<1>5. ASSUME NEW n \in Nodes, CarryOut(n)
      PROVE  StoreTypeOK'
  <2>. DEFINE c == Head(commands[n])
  <2>1. commands[n] \in Seq(Command) /\ commands[n] # <<>>
    BY <1>5 DEF CarryOut, StoreTypeOK
  <2>2. c \in Command /\ Tail(commands[n]) \in Seq(Command)
    BY <2>1
  <2>3. c.op = "get" => [c EXCEPT !.op = "setex"] \in Command
    BY <2>2 DEF Command
  <2>4. c.count \in 0 .. MaxClients /\ c.op \in {"get", "setex", "del"}
    BY <2>2 DEF Command
  <2>5. /\ commands' = [commands EXCEPT ![n] =
                          IF c.op = "get" THEN Append(Tail(@), [c EXCEPT !.op = "setex"])
                                          ELSE Tail(@)]
        /\ c.op = "get" => record' = record
        /\ c.op = "setex" => record' = Stored(n, c.count)
        /\ c.op = "del" => record' = None
    BY <1>5 DEF CarryOut
  <2>. HIDE DEF c
  <2>6. commands' \in [Nodes -> Seq(Command)]
    BY <2>2, <2>3, <2>5 DEF StoreTypeOK
  <2>7. Stored(n, c.count) \in Metadata
    BY <2>4 DEF Stored, Metadata
  <2>8. record' \in Metadata \cup {None}
    BY <2>4, <2>5, <2>7 DEF StoreTypeOK
  <2>. QED  BY <1>5, <2>6, <2>8 DEF CarryOut, StoreTypeOK
<1>6. ASSUME NEW n \in Nodes, StatusChanges(n)
      PROVE  StoreTypeOK'
  BY <1>6 DEF StatusChanges, StoreTypeOK
<1>7. CASE Expire
  BY <1>7 DEF Expire, StoreTypeOK
<1>8. CASE UNCHANGED storeVars
  BY <1>8 DEF storeVars, StoreTypeOK
<1>9. ASSUME NEW s \in Sessions, CreateSession(s)
      PROVE  StoreTypeOK'
  BY <1>9 DEF CreateSession, StoreTypeOK
<1>10. ASSUME NEW s \in Sessions, HydrateDone(s)
       PROVE  StoreTypeOK'
  <2>1. 1 \in 0 .. MaxClients
    OBVIOUS
  <2>2. SetSession(s, 1)
          => commands' \in [Nodes -> Seq(Command)] /\ told' \in [Nodes -> Sessions \cup {None}]
    BY <2>1, SetSessionType
  <2>3. commands' \in [Nodes -> Seq(Command)] /\ told' \in [Nodes -> Sessions \cup {None}]
    BY <1>10, <2>2 DEF HydrateDone, StoreTypeOK
  <2>4. clients' \in [Sessions -> 0 .. MaxClients]
    BY <1>10, <2>1 DEF HydrateDone, StoreTypeOK
  <2>. QED  BY <1>10, <2>3, <2>4 DEF HydrateDone, StoreTypeOK
<1>. QED
  BY <1>1, <1>2, <1>3, <1>4, <1>5, <1>6, <1>7, <1>8, <1>9, <1>10 DEF StoreNext

(* Every reachable state of the nodes, their commands and the key is well    *)
(* typed; in particular no count of clients becomes negative.                *)
THEOREM StoreTypeCorrect == StoreSpec => []StoreTypeOK
<1>1. StoreInit => StoreTypeOK
  BY DEF StoreInit, StoreTypeOK
<1>. QED  BY <1>1, StoreTypeStep, PTL DEF StoreSpec
-----------------------------------------------------------------------------
(* RecordIsCurrent is not inductive: it speaks of a node whose commands have *)
(* been carried out.  While some are under way, the LAST update among them   *)
(* counts: the last GET, for its SETEX will follow all that is there now, or *)
(* the SETEX at the end when there is no GET.  When the last command of all  *)
(* is the deletion of another session of the room, no record will be left.   *)
TellsLast(cs, count) ==
  \/ \E i \in 1 .. Len(cs) : /\ cs[i] = [op |-> "get", count |-> count]
                            /\ \A j \in i + 1 .. Len(cs) : cs[j].op # "get"
  \/ /\ cs # <<>>
     /\ cs[Len(cs)] = [op |-> "setex", count |-> count] \/ cs[Len(cs)].op = "del"
     /\ \A j \in 1 .. Len(cs) : cs[j].op # "get"

RecordTells(n, count) ==
  record # None /\ record.backendNodeId = n => record.clientCount = count

(* The last update that node n made is the last that Redis will hear. *)
NodeTells(n) ==
  told[n] # None
    => /\ Home[told[n]] = n
       /\ \/ TellsLast(commands[n], clients[told[n]])
          \/ commands[n] = <<>> /\ RecordTells(n, clients[told[n]])

RecordInv == \A n \in Nodes : NodeTells(n)

(* The registered session of a node is one of its own. *)
RegisteredAtHome == \A n \in Nodes : registered[n] # None => Home[registered[n]] = n

(* An update that was just made is the last one. *)
LEMMA UpdateIsLast ==
  ASSUME NEW cs \in Seq(Command), NEW count
  PROVE  TellsLast(Append(cs, [op |-> "get", count |-> count]), count)
<1>. DEFINE g == [op |-> "get", count |-> count]
            i == Len(cs) + 1
<1>1. Len(Append(cs, g)) = i /\ Append(cs, g)[i] = g /\ i \in 1 .. i
  <2>1. cs \in Seq(Command \cup {g}) /\ g \in Command \cup {g}
    OBVIOUS
  <2>. HIDE DEF g
  <2>. QED  BY <2>1, AppendProperties, LenProperties
<1>2. \A j \in i + 1 .. i : FALSE
  BY LenProperties
<1>. QED  BY <1>1, <1>2 DEF TellsLast

(* Carrying out the oldest command leaves the last update the last, or it    *)
(* was the only command, and a SETEX or a deletion.                          *)
LEMMA LastStaysLast ==
  ASSUME NEW cs \in Seq(Command), cs # <<>>, NEW count, TellsLast(cs, count)
  PROVE  LET c == Head(cs)
             rest == IF c.op = "get" THEN Append(Tail(cs), [c EXCEPT !.op = "setex"])
                                     ELSE Tail(cs)
         IN  \/ TellsLast(rest, count)
             \/ c.op = "setex" /\ c.count = count /\ rest = <<>>
             \/ c.op = "del" /\ rest = <<>>
<1>. DEFINE c == Head(cs)
            t == Tail(cs)
            x == [c EXCEPT !.op = "setex"]
<1>1. /\ c = cs[1] /\ c \in Command /\ t \in Seq(Command)
      /\ Len(t) = Len(cs) - 1 /\ Len(cs) \in Nat /\ Len(cs) > 0
      /\ \A j \in 1 .. Len(t) : t[j] = cs[j + 1]
  BY HeadTailProperties, LenProperties
<1>2. CASE c.op = "get"
  <2>. DEFINE r == Append(t, x)
  <2>1. x \in Command /\ x.op = "setex" /\ x.count = c.count
    BY <1>1, <1>2 DEF Command
  <2>2. /\ r \in Seq(Command) /\ Len(r) = Len(t) + 1 /\ r[Len(t) + 1] = x
        /\ \A j \in 1 .. Len(t) : r[j] = t[j]
    <3>. HIDE DEF x, t
    <3>. QED  BY <1>1, <2>1, AppendProperties
  <2>3. PICK i \in 1 .. Len(cs) : /\ cs[i] = [op |-> "get", count |-> count]
                                 /\ \A j \in i + 1 .. Len(cs) : cs[j].op # "get"
    BY <1>1, <1>2 DEF TellsLast
  <2>. HIDE DEF r, x, c, t
  <2>4. CASE i = 1
    <3>1. x = [op |-> "setex", count |-> count]
      <4>1. c = [op |-> "get", count |-> count]
        BY <1>1, <2>3, <2>4
      <4>. QED  BY <4>1 DEF x
    <3>2. \A j \in 1 .. Len(r) : r[j].op # "get"
      BY <1>1, <2>1, <2>2, <2>3, <2>4
    <3>3. r # <<>> /\ r[Len(r)] = x
      BY <1>1, <2>2
    <3>. QED  BY <1>2, <3>1, <3>2, <3>3 DEF TellsLast, r, t, x, c
  <2>5. CASE i # 1
    <3>1. i - 1 \in 1 .. Len(r) /\ r[i - 1] = [op |-> "get", count |-> count]
      BY <1>1, <2>2, <2>3, <2>5
    <3>2. \A j \in (i - 1) + 1 .. Len(r) : r[j].op # "get"
      BY <1>1, <2>1, <2>2, <2>3, <2>5
    <3>3. TellsLast(r, count)
      BY <3>1, <3>2 DEF TellsLast
    <3>. QED  BY <1>2, <3>3 DEF r, t, x, c
  <2>. QED  BY <2>4, <2>5
<1>3. CASE c.op # "get"
  <2>. HIDE DEF c, t
  <2>1. ASSUME NEW i \in 1 .. Len(cs), cs[i] = [op |-> "get", count |-> count],
               \A j \in i + 1 .. Len(cs) : cs[j].op # "get"
        PROVE  TellsLast(t, count)
    <3>1. i # 1
      BY <1>1, <1>3, <2>1
    <3>2. i - 1 \in 1 .. Len(t) /\ t[i - 1] = [op |-> "get", count |-> count]
      BY <1>1, <2>1, <3>1
    <3>3. \A j \in (i - 1) + 1 .. Len(t) : t[j].op # "get"
      BY <1>1, <2>1, <3>1
    <3>. QED  BY <3>2, <3>3 DEF TellsLast
  <2>2. ASSUME cs[Len(cs)] = [op |-> "setex", count |-> count] \/ cs[Len(cs)].op = "del",
               \A j \in 1 .. Len(cs) : cs[j].op # "get"
        PROVE  \/ TellsLast(t, count)
               \/ c.op = "setex" /\ c.count = count /\ t = <<>>
               \/ c.op = "del" /\ t = <<>>
    <3>1. CASE Len(cs) = 1
      BY <1>1, <2>2, <3>1
    <3>2. CASE Len(cs) # 1
      <4>1. t # <<>> /\ t[Len(t)] = cs[Len(cs)]
        BY <1>1, <3>2
      <4>2. \A j \in 1 .. Len(t) : t[j].op # "get"
        BY <1>1, <2>2
      <4>. QED  BY <2>2, <4>1, <4>2 DEF TellsLast
    <3>. QED  BY <3>1, <3>2
  <2>. QED  BY <1>3, <2>1, <2>2 DEF TellsLast, c, t
<1>. QED  BY <1>2, <1>3

(* A deletion behind the last update leaves it the last one; behind nothing  *)
(* at all, it will be the last command.                                      *)
LEMMA DeletionIsLast ==
  ASSUME NEW cs \in Seq(Command), NEW count, TellsLast(cs, count) \/ cs = <<>>
  PROVE  TellsLast(Append(cs, [op |-> "del", count |-> 0]), count)
<1>. DEFINE d == [op |-> "del", count |-> 0]
            r == Append(cs, d)
<1>1. /\ Len(r) = Len(cs) + 1 /\ r[Len(cs) + 1] = d /\ Len(cs) \in Nat
      /\ \A j \in 1 .. Len(cs) : r[j] = cs[j]
  <2>1. d \in Command
    BY DEF Command
  <2>. HIDE DEF d
  <2>. QED  BY <2>1, AppendProperties, LenProperties
<1>2. d.op = "del"
  OBVIOUS
<1>. HIDE DEF r, d
<1>3. CASE \E i \in 1 .. Len(cs) : /\ cs[i] = [op |-> "get", count |-> count]
                                   /\ \A j \in i + 1 .. Len(cs) : cs[j].op # "get"
  <2>1. PICK i \in 1 .. Len(cs) : /\ cs[i] = [op |-> "get", count |-> count]
                                 /\ \A j \in i + 1 .. Len(cs) : cs[j].op # "get"
    BY <1>3
  <2>2. i \in 1 .. Len(r) /\ r[i] = [op |-> "get", count |-> count]
    BY <1>1, <2>1
  <2>3. \A j \in i + 1 .. Len(r) : r[j].op # "get"
    BY <1>1, <1>2, <2>1
  <2>. QED  BY <2>2, <2>3 DEF TellsLast, r, d
<1>4. CASE \A j \in 1 .. Len(cs) : cs[j].op # "get"
  <2>1. r # <<>> /\ r[Len(r)].op = "del"
    BY <1>1, <1>2
  <2>2. \A j \in 1 .. Len(r) : r[j].op # "get"
    BY <1>1, <1>2, <1>4
  <2>. QED  BY <2>1, <2>2 DEF TellsLast, r, d
<1>5. cs = <<>> => \A j \in 1 .. Len(cs) : cs[j].op # "get"
  OBVIOUS
<1>. QED  BY <1>3, <1>4, <1>5 DEF TellsLast

(* An update makes a node tell the clients of the session that made it, or   *)
(* nothing.                                                                  *)
LEMMA SetSessionTells ==
  ASSUME StoreTypeOK, RecordInv, NEW s \in Sessions, SetSession(s, clients'[s]),
         \A t \in Sessions \ {s} : clients'[t] = clients[t], record' = record
  PROVE  RecordInv'
<1>. DEFINE n == Home[s]
<1>0. n \in Nodes
  OBVIOUS
<1>1. /\ status[n] => commands'[n] = Append(commands[n], [op |-> "get", count |-> clients'[s]])
      /\ told'[n] = IF status[n] THEN s ELSE None
      /\ \A m \in Nodes \ {n} : commands'[m] = commands[m] /\ told'[m] = told[m]
  BY <1>0 DEF SetSession, Send, StoreTypeOK
<1>2. commands[n] \in Seq(Command)
  BY <1>0 DEF StoreTypeOK
<1>. HIDE DEF n
<1>3. NodeTells(n)'
  <2>1. TellsLast(Append(commands[n], [op |-> "get", count |-> clients'[s]]), clients'[s])
    BY <1>2, UpdateIsLast
  <2>2. told'[n] # None => told'[n] = s /\ TellsLast(commands'[n], clients'[s])
    BY <1>1, <2>1
  <2>. QED  BY <2>2 DEF NodeTells, n
<1>4. ASSUME NEW m \in Nodes, m # n
      PROVE  NodeTells(m)'
  <2>1. NodeTells(m) /\ commands'[m] = commands[m] /\ told'[m] = told[m]
    BY <1>1, <1>4 DEF RecordInv
  <2>2. told[m] # None => clients'[told[m]] = clients[told[m]]
    <3>1. told[m] # None => told[m] \in Sessions /\ Home[told[m]] = m
      BY <2>1 DEF NodeTells, StoreTypeOK
    <3>. QED  BY <1>4, <3>1 DEF n
  <2>. QED  BY <2>1, <2>2 DEF NodeTells, RecordTells
<1>. QED  BY <1>3, <1>4 DEF RecordInv

(* A node that a step leaves alone goes on telling what it told.             *)
LEMMA OthersTell ==
  ASSUME RecordInv, NEW m \in Nodes,
         told'[m] = told[m], told[m] # None => clients'[told[m]] = clients[told[m]],
         commands'[m] = commands[m],
         record' = record \/ record' = None \/ record'.backendNodeId # m
  PROVE  NodeTells(m)'
<1>1. NodeTells(m)
  BY DEF RecordInv
<1>2. \A count : RecordTells(m, count) => RecordTells(m, count)'
  BY DEF RecordTells
<1>. QED  BY <1>1, <1>2 DEF NodeTells

(* A session stays on its node.                                              *)
LEMMA HomeStep ==
  ASSUME StoreTypeOK, RegisteredAtHome, [StoreNext]_storeVars
  PROVE  RegisteredAtHome'
<1>1. ASSUME NEW s \in Sessions, HydrateDone(s)
      PROVE  RegisteredAtHome'
  BY <1>1 DEF HydrateDone, RegisteredAtHome, StoreTypeOK
<1>2. ASSUME NEW n \in Nodes, Evict(n)
      PROVE  RegisteredAtHome'
  BY <1>2 DEF Evict, RegisteredAtHome, StoreTypeOK
<1>3. CASE UNCHANGED registered
  BY <1>3 DEF RegisteredAtHome
<1>4. ~(\E s \in Sessions : HydrateDone(s)) /\ ~(\E n \in Nodes : Evict(n))
        => UNCHANGED registered
  BY DEF StoreNext, storeVars, CreateSession, AddClient, RemoveClient, StrayLeaves,
         CarryOut, StatusChanges, Expire
<1>. QED  BY <1>1, <1>2, <1>3, <1>4

(* Joins, leaves, evictions and Redis keep the last update the right one.    *)
LEMMA RecordStep ==
  ASSUME StoreTypeOK, RegisteredAtHome, RecordInv, [StoreNext]_storeVars
  PROVE  RecordInv'
<1>1. ASSUME NEW n \in Nodes, AddClient(n)
      PROVE  RecordInv'
  <2>. DEFINE s == registered[n]
  <2>1. s \in Sessions /\ clients' = [clients EXCEPT ![s] = @ + 1]
        /\ SetSession(s, clients'[s]) /\ record' = record
    BY <1>1 DEF AddClient, StoreTypeOK
  <2>. HIDE DEF s
  <2>2. \A t \in Sessions \ {s} : clients'[t] = clients[t]
    BY <2>1 DEF StoreTypeOK
  <2>. QED  BY <2>1, <2>2, SetSessionTells
<1>2. ASSUME NEW s \in Sessions, RemoveClient(s)
      PROVE  RecordInv'
  <2>1. /\ \A t \in Sessions \ {s} : clients'[t] = clients[t]
        /\ SetSession(s, clients'[s]) /\ record' = record
    BY <1>2 DEF RemoveClient, StoreTypeOK
  <2>. QED  BY <2>1, SetSessionTells
<1>3. ASSUME NEW s \in Sessions, HydrateDone(s)
      PROVE  RecordInv'
  <2>1. CASE clients' = [clients EXCEPT ![s] = 1] /\ SetSession(s, 1)
    <3>1. /\ \A t \in Sessions \ {s} : clients'[t] = clients[t]
          /\ clients'[s] = 1 /\ record' = record
      BY <1>3, <2>1 DEF HydrateDone, StoreTypeOK
    <3>. QED  BY <2>1, <3>1, SetSessionTells
  <2>2. CASE UNCHANGED <<clients, commands, told>>
    <3>1. \A m \in Nodes : NodeTells(m)'
      BY <1>3, <2>2, OthersTell DEF HydrateDone
    <3>. QED  BY <3>1 DEF RecordInv
  <2>. QED  BY <1>3, <2>1, <2>2 DEF HydrateDone
<1>4. ASSUME NEW s \in Sessions, StrayLeaves(s)
      PROVE  RecordInv'
  <2>. SUFFICES ASSUME NEW m \in Nodes
                PROVE  NodeTells(m)'
    BY DEF RecordInv
  <2>1. CASE m = Home[s]
    <3>1. told'[m] = None
      BY <1>4, <2>1 DEF StrayLeaves, StoreTypeOK
    <3>. QED  BY <3>1 DEF NodeTells
  <2>2. CASE m # Home[s]
    <3>1. /\ told'[m] = told[m] /\ commands'[m] = commands[m] /\ clients' = clients
          /\ record' = record
      BY <1>4, <2>2 DEF StrayLeaves, Send, StoreTypeOK
    <3>. QED  BY <3>1, OthersTell
  <2>. QED  BY <2>1, <2>2
<1>5. ASSUME NEW n \in Nodes, Evict(n)
      PROVE  RecordInv'
  <2>. DEFINE s == registered[n]
  <2>1. /\ s \in Sessions /\ Home[s] = n
        /\ clients' = [clients EXCEPT ![s] = 0]
        /\ told' = [told EXCEPT ![n] = IF @ = s THEN None ELSE @]
        /\ Send(n, "del", 0) /\ record' = record
    BY <1>5 DEF Evict, RegisteredAtHome, StoreTypeOK
  <2>. HIDE DEF s
  <2>2. ASSUME NEW m \in Nodes, m # n
        PROVE  NodeTells(m)'
    <3>1. told'[m] = told[m] /\ commands'[m] = commands[m]
      BY <2>1, <2>2 DEF Send, StoreTypeOK
    <3>2. told[m] # None => told[m] \in Sessions /\ Home[told[m]] = m
      BY DEF RecordInv, NodeTells, StoreTypeOK
    <3>3. told[m] # None => clients'[told[m]] = clients[told[m]]
      BY <2>1, <2>2, <3>2 DEF StoreTypeOK
    <3>. QED  BY <2>1, <3>1, <3>3, OthersTell
  <2>3. NodeTells(n)'
    <3>1. CASE told'[n] = None
      BY <3>1 DEF NodeTells
    <3>2. CASE told'[n] # None
      <4>1. told'[n] = told[n] /\ told[n] # s /\ told[n] \in Sessions
        BY <2>1, <3>2 DEF StoreTypeOK
      <4>2. clients'[told[n]] = clients[told[n]]
        BY <2>1, <4>1 DEF StoreTypeOK
      <4>3. commands[n] \in Seq(Command) /\ status[n] \in BOOLEAN
            /\ commands'[n] = IF status[n]
                 THEN Append(commands[n], [op |-> "del", count |-> 0]) ELSE commands[n]
        BY <2>1 DEF Send, StoreTypeOK
      <4>4. NodeTells(n)
        BY DEF RecordInv
      <4>5. CASE status[n]
        <5>1. TellsLast(commands[n], clients[told[n]]) \/ commands[n] = <<>>
          BY <3>2, <4>1, <4>4 DEF NodeTells
        <5>2. TellsLast(commands'[n], clients[told[n]])
          BY <4>3, <4>5, <5>1, DeletionIsLast
        <5>. QED  BY <3>2, <4>1, <4>2, <4>4, <5>2 DEF NodeTells
      <4>6. CASE ~status[n]
        BY <2>1, <4>1, <4>2, <4>3, <4>6, OthersTell
      <4>. QED  BY <4>3, <4>5, <4>6
    <3>. QED  BY <3>1, <3>2
  <2>. QED  BY <2>2, <2>3 DEF RecordInv
<1>6. ASSUME NEW n \in Nodes, CarryOut(n)
      PROVE  RecordInv'
  <2>. SUFFICES ASSUME NEW m \in Nodes
                PROVE  NodeTells(m)'
    BY DEF RecordInv
  <2>. DEFINE c == Head(commands[n])
              rest == IF c.op = "get" THEN Append(Tail(commands[n]), [c EXCEPT !.op = "setex"])
                                      ELSE Tail(commands[n])
  <2>1. /\ commands[n] \in Seq(Command) /\ commands[n] # <<>>
        /\ commands'[n] = rest
        /\ \A k \in Nodes \ {n} : commands'[k] = commands[k]
        /\ UNCHANGED <<clients, told>>
    BY <1>6 DEF CarryOut, StoreTypeOK
  <2>2. c \in Command
    BY <2>1
  <2>3. /\ c.op \in {"get", "setex", "del"}
        /\ c.op = "get" => record' = record
        /\ c.op = "setex" => record' = Stored(n, c.count)
        /\ c.op = "del" => record' = None
    BY <1>6, <2>2 DEF CarryOut, Command
  <2>4. CASE m # n
    <3>1. record' = record \/ record' = None \/ record'.backendNodeId # m
      BY <2>3, <2>4 DEF Stored
    <3>. QED  BY <2>1, <2>4, <3>1, OthersTell
  <2>5. CASE m = n /\ told[n] # None
    <3>. DEFINE count == clients[told[n]]
    <3>0. NodeTells(n)
      BY DEF RecordInv
    <3>1. TellsLast(commands[n], count)
      BY <2>1, <2>5, <3>0 DEF NodeTells
    <3>2. \/ TellsLast(rest, count)
          \/ c.op = "setex" /\ c.count = count /\ rest = <<>>
          \/ c.op = "del" /\ rest = <<>>
      <4>. HIDE DEF count
      <4>. QED  BY <2>1, <3>1, LastStaysLast
    <3>. HIDE DEF c, rest
    <3>3. c.op = "setex" /\ c.count = count => RecordTells(n, count)'
      BY <2>1, <2>3 DEF RecordTells, Stored
    <3>4. c.op = "del" => RecordTells(n, count)'
      BY <2>3 DEF RecordTells
    <3>. QED  BY <2>1, <2>5, <3>0, <3>2, <3>3, <3>4 DEF NodeTells
  <2>6. CASE m = n /\ told[n] = None
    BY <2>1, <2>6 DEF NodeTells
  <2>. QED  BY <2>4, <2>5, <2>6
<1>7. CASE UNCHANGED <<clients, commands, told>> /\ (record' = record \/ record' = None)
  <2>1. \A m \in Nodes : NodeTells(m)'
    BY <1>7, OthersTell
  <2>. QED  BY <2>1 DEF RecordInv
<1>8. (\E s \in Sessions : CreateSession(s)) \/ (\E n \in Nodes : StatusChanges(n))
        \/ Expire \/ UNCHANGED storeVars
        => UNCHANGED <<clients, commands, told>> /\ (record' = record \/ record' = None)
  BY DEF CreateSession, StatusChanges, Expire, storeVars
<1>. QED  BY <1>1, <1>2, <1>3, <1>4, <1>5, <1>6, <1>7, <1>8 DEF StoreNext

(* The record of a room that names a node gives the number of clients of the *)
(* session that told it last, once the node's commands have been carried     *)
(* out, whatever joins, leaves, evictions, other sessions of the room and    *)
(* other nodes came in between (RedisSessionStore 43-66).                    *)
THEOREM RecordCorrect == StoreSpec => []RecordIsCurrent
<1>1. StoreInit => RegisteredAtHome /\ RecordInv
  BY DEF StoreInit, RegisteredAtHome, RecordInv, NodeTells
<1>2. RecordInv => RecordIsCurrent
  <2>. SUFFICES ASSUME RecordInv, NEW n \in Nodes, record # None, commands[n] = <<>>,
                       told[n] # None, record.backendNodeId = n
                PROVE  record.clientCount = clients[told[n]]
    BY DEF RecordIsCurrent
  <2>1. \A count : ~TellsLast(<<>>, count)
    BY DEF TellsLast
  <2>. QED  BY <2>1 DEF RecordInv, NodeTells, RecordTells
<1>. QED  BY <1>1, <1>2, StoreTypeCorrect, HomeStep, RecordStep, PTL DEF StoreSpec
=============================================================================
