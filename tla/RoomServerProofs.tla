--------------------------- MODULE RoomServerProofs ---------------------------
(***************************************************************************)
(* Proofs about RoomPersistence, about RoomServer, which extends it, and   *)
(* about Shutdown, which extends that, in this order: for any sets of      *)
(* sessions, sockets, edits and save chains and any MaxSaveRetries.  Every *)
(* step of the server and of the shutdown is a step of RoomPersistence or  *)
(* leaves its variables alone, so what is proved there holds here.         *)
(***************************************************************************)
EXTENDS Shutdown, TLAPS

(***************************************************************************)
(* The persistence service: RoomPersistence.                               *)
(***************************************************************************)

(* What happens to a room but for its save chains and restarts. *)
CallerStep ==
  \/ \E s \in Sessions, es \in SUBSET Edits : ApplyUpdate(s, es)
  \/ \E s \in Sessions : DestroyDoc(s) \/ FlushPendingSave(s) \/ DebounceFires(s)

(* What starting, or skipping, a save does to the chains: used for the three *)
(* actions that call executeSave.                                            *)
LEMMA ExecuteSaveType ==
  ASSUME TypeOK, NEW c \in Chains, NEW s \in Sessions, NEW n \in Nat,
         ExecuteSave(c, s, n)
  PROVE  /\ chain' \in [Chains -> SaveChain]
         /\ \A d \in Chains : chain'[d].phase # "free" => chain'[d].session \in Sessions
         /\ exposed' \in SUBSET Edits
         /\ \A d \in Chains \ {c} : chain'[d] = chain[d]
<1>1. LiveEdits \in SUBSET Edits
  BY DEF LiveEdits, TypeOK
<1>2. CASE isDirty[s]
  <2>1. [phase |-> "writing", session |-> s, attempt |-> n, state |-> doc[s]] \in SaveChain
    BY DEF TypeOK, SaveChain, Phases
  <2>2. /\ chain' = [chain EXCEPT ![c] = [phase |-> "writing", session |-> s,
                                          attempt |-> n, state |-> doc[s]]]
        /\ exposed' = exposed \cup (LiveEdits \ doc[s])
    BY <1>2 DEF ExecuteSave
  <2> QED
    BY <1>1, <2>1, <2>2 DEF TypeOK
<1>3. CASE ~isDirty[s]
  <2>1. FreeChain \in SaveChain
    BY DEF FreeChain, SaveChain, Phases
  <2>2. chain' = [chain EXCEPT ![c] = FreeChain] /\ exposed' = exposed
    BY <1>3 DEF ExecuteSave
  <2> QED
    BY <2>1, <2>2 DEF TypeOK, FreeChain
<1> QED
  BY <1>2, <1>3

(* Every step of the service, its timers, the database or the process keeps  *)
(* the types: in particular a chain that is not free always has a session.   *)
LEMMA TypeStep ==
  ASSUME TypeOK, [PersistNext]_persistVars
  PROVE  TypeOK'
<1> USE NoneAssumption, MaxSaveRetriesAssumption
<1>1. ASSUME NEW s \in Sessions, NEW es \in SUBSET Edits, ApplyUpdate(s, es)
      PROVE  TypeOK'
  <2>1. CASE Live(s)
    BY <1>1, <2>1 DEF TypeOK, ApplyUpdate, ScheduleDebouncedSave
  <2>2. CASE ~Live(s)
    BY <1>1, <2>2 DEF TypeOK, ApplyUpdate
  <2> QED
    BY <2>1, <2>2
<1>2. ASSUME NEW s \in Sessions, DestroyDoc(s)
      PROVE  TypeOK'
  BY <1>2 DEF TypeOK, DestroyDoc
<1>3. ASSUME NEW s \in Sessions, FlushPendingSave(s)
      PROVE  TypeOK'
  <2>1. PICK c \in Chains : ExecuteSave(c, s, 1)
    BY <1>3 DEF FlushPendingSave
  <2> QED
    BY <1>3, <2>1, ExecuteSaveType DEF TypeOK, FlushPendingSave
<1>4. ASSUME NEW s \in Sessions, DebounceFires(s)
      PROVE  TypeOK'
  BY <1>3, <1>4 DEF DebounceFires
<1>5. ASSUME NEW c \in Chains, DbCommit(c)
      PROVE  TypeOK'
  BY <1>5 DEF TypeOK, DbCommit, SaveChain, Phases
<1>6. ASSUME NEW c \in Chains, SaveSucceeds(c)
      PROVE  TypeOK'
  BY <1>6 DEF TypeOK, SaveSucceeds, FreeChain, SaveChain, Phases
<1>7. ASSUME NEW c \in Chains, SaveFails(c)
      PROVE  TypeOK'
  <2>1. CASE chain[c].attempt <= MaxSaveRetries
    BY <1>7, <2>1 DEF TypeOK, SaveFails, RetriesLeft, InFlight, SaveChain, Phases
  <2>2. CASE ~(chain[c].attempt <= MaxSaveRetries)
    BY <1>7, <2>2 DEF TypeOK, SaveFails, RetriesLeft, FreeChain, SaveChain, Phases
  <2> QED
    BY <2>1, <2>2
<1>8. ASSUME NEW c \in Chains, RetryFires(c)
      PROVE  TypeOK'
  <2>1. chain[c].session \in Sessions /\ chain[c].attempt + 1 \in Nat
    BY <1>8 DEF TypeOK, RetryFires, NextAttempt, SaveChain
  <2> QED
    BY <1>8, <2>1, ExecuteSaveType DEF TypeOK, RetryFires, NextAttempt
<1>9. ASSUME Restart
      PROVE  TypeOK'
  BY <1>9 DEF TypeOK, Restart, FreeChain, SaveChain, Phases
<1>10. CASE UNCHANGED persistVars
  BY <1>10 DEF TypeOK, persistVars
<1> QED
  BY <1>1, <1>2, <1>3, <1>4, <1>5, <1>6, <1>7, <1>8, <1>9, <1>10
  DEF PersistNext, ChainStep

(* Type correctness of the persistence service. *)
THEOREM TypeCorrect == PersistSpec => []TypeOK
<1>1. PersistInit => TypeOK
  BY DEF PersistInit, TypeOK, FreeChain, SaveChain, Phases
<1>2. TypeOK /\ [PersistNext]_persistVars => TypeOK'
  BY TypeStep
<1> QED
  BY <1>1, <1>2, PTL DEF PersistSpec

-----------------------------------------------------------------------------
(* The retry slot of the room never points at a chain that is not waiting    *)
(* for its timer.                                                            *)
LEMMA RetrySlotStep ==
  ASSUME TypeOK, RetrySlotArmed, [PersistNext]_persistVars
  PROVE  RetrySlotArmed'
<1> USE NoneAssumption, MaxSaveRetriesAssumption DEF RetrySlotArmed
<1>1. ASSUME NEW s \in Sessions, NEW es \in SUBSET Edits, ApplyUpdate(s, es)
      PROVE  RetrySlotArmed'
  BY <1>1 DEF ApplyUpdate
<1>2. ASSUME NEW s \in Sessions, DestroyDoc(s)
      PROVE  RetrySlotArmed'
  BY <1>2 DEF DestroyDoc
<1>3. ASSUME NEW s \in Sessions, FlushPendingSave(s)
      PROVE  RetrySlotArmed'
  <2>1. PICK c \in Chains : chain[c].phase = "free" /\ ExecuteSave(c, s, 1)
    BY <1>3 DEF FlushPendingSave
  <2>2. pendingRetry # None => pendingRetry \in Chains /\ pendingRetry # c
    BY <2>1 DEF TypeOK
  <2> QED
    BY <1>3, <2>1, <2>2, ExecuteSaveType DEF FlushPendingSave
<1>4. ASSUME NEW s \in Sessions, DebounceFires(s)
      PROVE  RetrySlotArmed'
  BY <1>3, <1>4 DEF DebounceFires
<1>5. ASSUME NEW c \in Chains, DbCommit(c)
      PROVE  RetrySlotArmed'
  <2>1. pendingRetry # None => pendingRetry \in Chains /\ pendingRetry # c
    BY <1>5 DEF TypeOK, DbCommit
  <2> QED
    BY <1>5, <2>1 DEF TypeOK, DbCommit
<1>6. ASSUME NEW c \in Chains, SaveSucceeds(c)
      PROVE  RetrySlotArmed'
  BY <1>6 DEF SaveSucceeds
<1>7. ASSUME NEW c \in Chains, SaveFails(c)
      PROVE  RetrySlotArmed'
  <2>1. CASE chain[c].attempt <= MaxSaveRetries
    BY <1>7, <2>1 DEF TypeOK, SaveFails, RetriesLeft, SaveChain
  <2>2. CASE ~(chain[c].attempt <= MaxSaveRetries)
    <3>1. pendingRetry # None => pendingRetry \in Chains /\ pendingRetry # c
      BY <1>7 DEF TypeOK, SaveFails, RetriesLeft, InFlight
    <3> QED
      BY <1>7, <2>2, <3>1 DEF TypeOK, SaveFails, RetriesLeft
  <2> QED
    BY <2>1, <2>2
<1>8. ASSUME NEW c \in Chains, RetryFires(c)
      PROVE  RetrySlotArmed'
  BY <1>8 DEF RetryFires
<1>9. ASSUME Restart
      PROVE  RetrySlotArmed'
  BY <1>9 DEF Restart
<1>10. CASE UNCHANGED persistVars
  BY <1>10 DEF persistVars
<1> QED
  BY <1>1, <1>2, <1>3, <1>4, <1>5, <1>6, <1>7, <1>8, <1>9, <1>10
  DEF PersistNext, ChainStep

(* Clearing the tracked retry timer never stops a write under way. *)
THEOREM RetrySlotCorrect == PersistSpec => []RetrySlotArmed
<1>1. PersistInit => RetrySlotArmed
  BY DEF PersistInit, RetrySlotArmed
<1>2. TypeOK /\ RetrySlotArmed /\ [PersistNext]_persistVars => RetrySlotArmed'
  BY RetrySlotStep
<1> QED
  BY <1>1, <1>2, TypeCorrect, PTL DEF PersistSpec

-----------------------------------------------------------------------------
(* Why a clean session lacks nothing but exposed edits.  DurableUnlessExposed *)
(* is not inductive: when a write returns, one must know what was in the     *)
(* database and in the document, whatever else ran since it was encoded.     *)

(* A write whose row is still to come carries every edit of a live session   *)
(* that is not exposed.                                                      *)
CarriesUnexposed(c) ==
  chain[c].phase = "writing" =>
    \A s \in Sessions : Live(s) => doc[s] \ chain[c].state \subseteq exposed

(* A write under way carries only edits its own session has. *)
CarriesOwn(c) ==
  chain[c].state \subseteq doc[chain[c].session]

(* When the answer to c is on its way, the database has what c's session     *)
(* has, but for exposed edits, even when another write came after c's row.   *)
CommittedIsDurable(c) ==
  chain[c].phase = "committed" /\ Live(chain[c].session)
    => doc[chain[c].session] \ snapshot \subseteq exposed

DurableInv ==
  /\ \A c \in Chains : InFlight(c) => CarriesUnexposed(c) /\ CarriesOwn(c)
  /\ \A c \in Chains : CommittedIsDurable(c)
  /\ DurableUnlessExposed

(* Calling executeSave keeps the invariant: the edits that other sessions    *)
(* have and this write does not carry become exposed.                        *)
LEMMA ExecuteSaveDurable ==
  ASSUME TypeOK, DurableInv, NEW c \in Chains, NEW s \in Sessions, NEW n \in Nat,
         ExecuteSave(c, s, n),
         UNCHANGED <<doc, destroyed, isDirty, snapshot>>
  PROVE  DurableInv'
<1>1. CASE isDirty[s]
  <2>1. /\ chain' = [chain EXCEPT ![c] = [phase |-> "writing", session |-> s,
                                          attempt |-> n, state |-> doc[s]]]
        /\ exposed' = exposed \cup (LiveEdits \ doc[s])
    BY <1>1 DEF ExecuteSave
  <2>2. \A r \in Sessions : Live(r) => doc[r] \subseteq LiveEdits
    BY DEF LiveEdits
  <2>3. ASSUME NEW d \in Chains, InFlight(d)'
        PROVE  CarriesUnexposed(d)' /\ CarriesOwn(d)'
    <3>1. CASE d = c
      <4>1. chain'[d].state = doc[s] /\ chain'[d].session = s
        BY <2>1, <3>1 DEF TypeOK
      <4> QED
        BY <2>1, <2>2, <4>1 DEF CarriesUnexposed, CarriesOwn, Live
    <3>2. CASE d # c
      <4>1. chain'[d] = chain[d]
        BY <2>1, <3>2 DEF TypeOK
      <4> QED
        BY <2>1, <2>3, <4>1 DEF DurableInv, InFlight, CarriesUnexposed, CarriesOwn, Live
    <3> QED
      BY <3>1, <3>2
  <2>4. ASSUME NEW d \in Chains
        PROVE  CommittedIsDurable(d)'
    BY <2>1 DEF TypeOK, DurableInv, CommittedIsDurable, Live
  <2>5. DurableUnlessExposed'
    BY <2>1 DEF DurableInv, DurableUnlessExposed, Live
  <2> QED
    BY <2>3, <2>4, <2>5 DEF DurableInv
<1>2. CASE ~isDirty[s]
  <2>1. chain' = [chain EXCEPT ![c] = FreeChain] /\ exposed' = exposed
    BY <1>2 DEF ExecuteSave
  <2>2. ASSUME NEW d \in Chains
        PROVE  \/ chain'[d] = chain[d]
               \/ chain'[d].phase = "free"
    BY <2>1 DEF TypeOK, FreeChain
  <2>3. ASSUME NEW d \in Chains, InFlight(d)'
        PROVE  CarriesUnexposed(d)' /\ CarriesOwn(d)'
    BY <2>1, <2>2, <2>3 DEF DurableInv, InFlight, CarriesUnexposed, CarriesOwn, Live
  <2>4. ASSUME NEW d \in Chains
        PROVE  CommittedIsDurable(d)'
    BY <2>1, <2>2 DEF DurableInv, CommittedIsDurable, Live
  <2>5. DurableUnlessExposed'
    BY <2>1 DEF DurableInv, DurableUnlessExposed, Live
  <2> QED
    BY <2>3, <2>4, <2>5 DEF DurableInv
<1> QED
  BY <1>1, <1>2

(* An update that lands during a write is exposed unless the write carries   *)
(* it already; it makes its session dirty.                                   *)
LEMMA ApplyUpdateDurable ==
  ASSUME TypeOK, DurableInv, NEW s \in Sessions, NEW es \in SUBSET Edits,
         ApplyUpdate(s, es)
  PROVE  DurableInv'
<1>1. /\ doc' = [doc EXCEPT ![s] = @ \cup es]
      /\ UNCHANGED <<destroyed, chain, snapshot>>
  BY DEF ApplyUpdate
<1>2. \A r \in Sessions : doc[r] \subseteq doc'[r] /\ (r # s => doc'[r] = doc[r])
  BY <1>1 DEF TypeOK
<1>3. exposed \subseteq exposed'
  BY DEF ApplyUpdate
<1>4. ASSUME Live(s)
      PROVE  /\ isDirty' = [isDirty EXCEPT ![s] = TRUE]
             /\ \A c \in Chains : InFlight(c) => es \ chain[c].state \subseteq exposed'
  BY <1>4 DEF ApplyUpdate, ScheduleDebouncedSave
<1>5. ASSUME NEW c \in Chains, InFlight(c)'
      PROVE  CarriesUnexposed(c)' /\ CarriesOwn(c)'
  <2>1. InFlight(c) /\ CarriesUnexposed(c) /\ CarriesOwn(c)
    BY <1>1, <1>5 DEF InFlight, DurableInv
  <2>2. CarriesOwn(c)'
    <3>1. chain[c].session \in Sessions
      BY <2>1 DEF TypeOK, InFlight
    <3> QED
      BY <1>1, <1>2, <2>1, <3>1 DEF CarriesOwn
  <2>3. ASSUME chain[c].phase = "writing", NEW r \in Sessions, Live(r)'
        PROVE  doc'[r] \ chain'[c].state \subseteq exposed'
    <3>1. doc[r] \ chain[c].state \subseteq exposed
      BY <1>1, <2>1, <2>3 DEF CarriesUnexposed, Live
    <3>2. CASE r = s
      <4>1. doc'[r] = doc[r] \cup es
        BY <1>1, <3>2 DEF TypeOK
      <4>2. es \ chain[c].state \subseteq exposed'
        BY <1>1, <1>4, <2>1, <2>3, <3>2 DEF Live
      <4> QED
        BY <1>1, <1>3, <3>1, <4>1, <4>2
    <3>3. CASE r # s
      BY <1>1, <1>2, <1>3, <3>1, <3>3
    <3> QED
      BY <3>2, <3>3
  <2> QED
    BY <1>1, <2>2, <2>3 DEF CarriesUnexposed
<1>6. ASSUME NEW c \in Chains
      PROVE  CommittedIsDurable(c)'
  <2> SUFFICES ASSUME chain[c].phase = "committed", Live(chain[c].session)
               PROVE  doc'[chain[c].session] \ snapshot \subseteq exposed'
    BY <1>1 DEF CommittedIsDurable, Live
  <2> DEFINE r == chain[c].session
  <2>1. r \in Sessions
    BY DEF TypeOK
  <2>2. InFlight(c) /\ CarriesOwn(c)
    BY DEF InFlight, DurableInv
  <2>3. doc[r] \ snapshot \subseteq exposed
    BY DEF DurableInv, CommittedIsDurable
  <2>4. CASE r = s
    <3>1. es \ chain[c].state \subseteq exposed'
      BY <1>4, <2>2, <2>4
    <3>2. doc'[r] = doc[r] \cup es /\ chain[c].state \subseteq doc[r]
      BY <1>1, <2>1, <2>2, <2>4 DEF TypeOK, CarriesOwn
    <3> QED
      BY <1>3, <2>3, <3>1, <3>2
  <2>5. CASE r # s
    BY <1>2, <1>3, <2>1, <2>3, <2>5
  <2> QED
    BY <2>4, <2>5
<1>7. DurableUnlessExposed'
  <2> SUFFICES ASSUME NEW r \in Sessions, Live(r)', ~isDirty'[r]
               PROVE  doc'[r] \ snapshot' \subseteq exposed'
    BY DEF DurableUnlessExposed
  <2>1. r # s
    BY <1>1, <1>4 DEF Live, TypeOK
  <2>2. isDirty'[r] = isDirty[r]
    BY <2>1 DEF TypeOK, ApplyUpdate, ScheduleDebouncedSave
  <2> QED
    BY <1>1, <1>2, <1>3, <2>1, <2>2 DEF DurableInv, DurableUnlessExposed, Live
<1> QED
  BY <1>5, <1>6, <1>7 DEF DurableInv

(* Every step keeps the invariant. *)
LEMMA DurableStep ==
  ASSUME TypeOK, DurableInv, [PersistNext]_persistVars
  PROVE  DurableInv'
<1>1. ASSUME NEW s \in Sessions, NEW es \in SUBSET Edits, ApplyUpdate(s, es)
      PROVE  DurableInv'
  BY <1>1, ApplyUpdateDurable
<1>2. ASSUME NEW s \in Sessions, DestroyDoc(s)
      PROVE  DurableInv'
  <2>1. UNCHANGED <<doc, isDirty, chain, snapshot, exposed>>
    BY <1>2 DEF DestroyDoc
  <2>2. \A r \in Sessions : Live(r)' => Live(r)
    BY <1>2 DEF TypeOK, DestroyDoc, Live
  <2>3. \A c \in Chains : chain[c].phase = "committed" => chain[c].session \in Sessions
    BY DEF TypeOK
  <2> QED
    BY <2>1, <2>2, <2>3 DEF DurableInv, InFlight, CarriesUnexposed, CarriesOwn,
                            CommittedIsDurable, DurableUnlessExposed
<1>3. ASSUME NEW s \in Sessions, FlushPendingSave(s)
      PROVE  DurableInv'
  <2>1. PICK c \in Chains : ExecuteSave(c, s, 1)
    BY <1>3 DEF FlushPendingSave
  <2> QED
    BY <1>3, <2>1, ExecuteSaveDurable DEF FlushPendingSave
<1>4. ASSUME NEW s \in Sessions, DebounceFires(s)
      PROVE  DurableInv'
  BY <1>3, <1>4 DEF DebounceFires
<1>5. ASSUME NEW c \in Chains, DbCommit(c)
      PROVE  DurableInv'
  <2>1. /\ UNCHANGED <<doc, destroyed, isDirty>>
        /\ snapshot' = chain[c].state
        /\ exposed \ snapshot' \subseteq exposed'
    BY <1>5 DEF DbCommit
  <2>2. ASSUME NEW d \in Chains
        PROVE  /\ chain'[d].state = chain[d].state
               /\ chain'[d].session = chain[d].session
               /\ InFlight(d)' => InFlight(d)
               /\ (chain[d].phase = "writing")' => chain[d].phase = "writing"
    BY <1>5 DEF TypeOK, DbCommit, InFlight, SaveChain
  <2>3. \A s \in Sessions : Live(s)' => doc'[s] \ snapshot' \subseteq exposed'
    BY <1>5, <2>1 DEF DbCommit, DurableInv, InFlight, CarriesUnexposed, Live
  <2>4. ASSUME NEW d \in Chains, InFlight(d)'
        PROVE  CarriesOwn(d)'
    BY <2>1, <2>2, <2>4 DEF DurableInv, CarriesOwn
  <2>5. ASSUME NEW d \in Chains, InFlight(d)', (chain[d].phase = "writing")'
        PROVE  CarriesUnexposed(d)'
    <3>1. exposed \ chain[d].state \subseteq exposed'
      BY <1>5, <2>2, <2>5 DEF DbCommit
    <3> QED
      BY <2>1, <2>2, <2>5, <3>1 DEF DurableInv, CarriesUnexposed, Live
  <2>6. ASSUME NEW d \in Chains
        PROVE  CommittedIsDurable(d)'
    BY <2>2, <2>3 DEF TypeOK, InFlight, CommittedIsDurable
  <2>7. DurableUnlessExposed'
    BY <2>3 DEF DurableUnlessExposed
  <2>8. \A d \in Chains : InFlight(d)' => CarriesUnexposed(d)'
    BY <2>5 DEF CarriesUnexposed
  <2> QED
    BY <2>4, <2>6, <2>7, <2>8 DEF DurableInv
<1>6. ASSUME NEW c \in Chains, SaveSucceeds(c)
      PROVE  DurableInv'
  <2>1. UNCHANGED <<doc, destroyed, snapshot, exposed>>
    BY <1>6 DEF SaveSucceeds
  <2>2. \A d \in Chains : chain'[d] = chain[d] \/ chain'[d].phase = "free"
    BY <1>6 DEF SaveSucceeds, FreeChain
  <2>3. DurableUnlessExposed'
    <3> SUFFICES ASSUME NEW s \in Sessions, Live(s)', ~isDirty'[s]
                 PROVE  doc'[s] \ snapshot' \subseteq exposed'
      BY DEF DurableUnlessExposed
    <3>1. CASE s = chain[c].session
      BY <1>6, <2>1, <3>1 DEF SaveSucceeds, DurableInv, CommittedIsDurable, Live
    <3>2. CASE s # chain[c].session
      BY <1>6, <2>1, <3>2 DEF TypeOK, SaveSucceeds, DurableInv, DurableUnlessExposed, Live
    <3> QED
      BY <3>1, <3>2
  <2> QED
    BY <2>1, <2>2, <2>3 DEF DurableInv, InFlight, CarriesUnexposed, CarriesOwn,
                            CommittedIsDurable, Live
<1>7. ASSUME NEW c \in Chains, SaveFails(c)
      PROVE  DurableInv'
  <2>1. UNCHANGED <<doc, destroyed, isDirty, snapshot, exposed>>
    BY <1>7 DEF SaveFails
  <2>2. \A d \in Chains : chain'[d] = chain[d] \/ chain'[d].phase \in {"free", "backoff"}
    BY <1>7 DEF TypeOK, SaveFails, RetriesLeft, FreeChain, SaveChain
  <2> QED
    BY <2>1, <2>2 DEF DurableInv, InFlight, CarriesUnexposed, CarriesOwn,
                      CommittedIsDurable, DurableUnlessExposed, Live
<1>8. ASSUME NEW c \in Chains, RetryFires(c)
      PROVE  DurableInv'
  <2>1. chain[c].session \in Sessions /\ chain[c].attempt + 1 \in Nat
    BY <1>8 DEF TypeOK, RetryFires, NextAttempt, SaveChain
  <2> QED
    BY <1>8, <2>1, ExecuteSaveDurable DEF RetryFires, NextAttempt
<1>9. ASSUME Restart
      PROVE  DurableInv'
  BY <1>9 DEF Restart, FreeChain, DurableInv, InFlight, CommittedIsDurable,
              DurableUnlessExposed
<1>10. CASE UNCHANGED persistVars
  BY <1>10 DEF persistVars, DurableInv, InFlight, CarriesUnexposed, CarriesOwn,
               CommittedIsDurable, DurableUnlessExposed, Live
<1> QED
  BY <1>1, <1>2, <1>3, <1>4, <1>5, <1>6, <1>7, <1>8, <1>9, <1>10
  DEF PersistNext, ChainStep

(* So it holds of every reachable state. *)
LEMMA DurableInvariant == PersistSpec => []DurableInv
<1>1. PersistInit => DurableInv
  BY DEF PersistInit, FreeChain, DurableInv, InFlight, CommittedIsDurable,
         DurableUnlessExposed
<1>2. TypeOK /\ DurableInv /\ [PersistNext]_persistVars => DurableInv'
  BY DurableStep
<1> QED
  BY <1>1, <1>2, TypeCorrect, PTL DEF PersistSpec

(* A live session that calls itself clean lacks nothing in the database but  *)
(* edits that a write in flight passed by.                                   *)
THEOREM Durability == PersistSpec => []DurableUnlessExposed
<1>1. DurableInv => DurableUnlessExposed
  BY DEF DurableInv
<1> QED
  BY <1>1, DurableInvariant, PTL

-----------------------------------------------------------------------------
(* A save that starts or is skipped on chain c leaves no dirty session       *)
(* without cover that had it.                                                *)
LEMMA ExecuteSaveCovers ==
  ASSUME TypeOK, NEW c \in Chains, NEW r \in Sessions, NEW n \in Nat,
         ExecuteSave(c, r, n),
         chain[c].phase = "free" \/ chain[c].session = r,
         NEW s \in Sessions, isDirty[s],
         \E d \in Chains : chain[d].phase # "free" /\ chain[d].session = s
  PROVE  \E d \in Chains : chain'[d].phase # "free" /\ chain'[d].session = s
<1>1. PICK d \in Chains : chain[d].phase # "free" /\ chain[d].session = s
  OBVIOUS
<1>2. CASE d = c
  BY <1>1, <1>2 DEF TypeOK, ExecuteSave
<1>3. CASE d # c
  BY <1>1, <1>3, ExecuteSaveType
<1> QED
  BY <1>2, <1>3

(* A dirty session keeps a timer or a write until its last attempt failed,   *)
(* or another session of the room took the shared slots.                     *)
THEOREM StaysCovered == PersistSpec => DirtyStaysCovered
<1> USE NoneAssumption, MaxSaveRetriesAssumption
<1> DEFINE Excused(s) == GivesUp(s) \/ \E r \in Sessions \ {s} : StepOf(r)
           HasChain(s) == \E c \in Chains : chain[c].phase # "free"
                                            /\ chain[c].session = s
<1>1. ASSUME TypeOK, [PersistNext]_persistVars, NEW s \in Sessions,
             isDirty[s] => Covered(s), isDirty'[s], ~Covered(s)'
      PROVE  Excused(s)
  <2>1. ASSUME NEW r \in Sessions, NEW es \in SUBSET Edits, ApplyUpdate(r, es)
        PROVE  Excused(s)
    <3>1. CASE r # s
      BY <2>1, <3>1 DEF StepOf
    <3>2. CASE r = s /\ Live(s)
      BY <1>1, <2>1, <3>2 DEF ApplyUpdate, ScheduleDebouncedSave, Covered
    <3>3. CASE r = s /\ ~Live(s)
      BY <1>1, <2>1, <3>3 DEF ApplyUpdate, Covered
    <3> QED
      BY <3>1, <3>2, <3>3
  <2>2. ASSUME NEW r \in Sessions, DestroyDoc(r)
        PROVE  Excused(s)
    BY <1>1, <2>2 DEF DestroyDoc, Covered
  <2>3. ASSUME NEW r \in Sessions, FlushPendingSave(r)
        PROVE  Excused(s)
    <3>1. CASE r # s
      BY <2>3, <3>1 DEF StepOf
    <3>2. CASE r = s
      <4>1. PICK c \in Chains : ExecuteSave(c, s, 1)
        BY <2>3, <3>2 DEF FlushPendingSave
      <4>2. isDirty[s]
        BY <1>1, <2>3 DEF FlushPendingSave
      <4>3. chain'[c].phase = "writing" /\ chain'[c].session = s
        BY <1>1, <4>1, <4>2 DEF ExecuteSave, TypeOK
      <4> QED
        BY <1>1, <4>3 DEF Covered
    <3> QED
      BY <3>1, <3>2
  <2>4. ASSUME NEW r \in Sessions, DebounceFires(r)
        PROVE  Excused(s)
    BY <2>3, <2>4 DEF DebounceFires
  <2>5. ASSUME NEW c \in Chains, DbCommit(c)
        PROVE  Excused(s)
    <3>1. \A d \in Chains : /\ chain'[d].session = chain[d].session
                            /\ chain[d].phase # "free" => chain'[d].phase # "free"
      BY <1>1, <2>5 DEF TypeOK, DbCommit, SaveChain
    <3> QED
      BY <1>1, <2>5, <3>1 DEF DbCommit, Covered
  <2>6. ASSUME NEW c \in Chains, SaveSucceeds(c)
        PROVE  Excused(s)
    <3>1. chain[c].session \in Sessions
      BY <1>1, <2>6 DEF TypeOK, SaveSucceeds
    <3>2. chain[c].session # s
      BY <1>1, <2>6 DEF SaveSucceeds, TypeOK
    <3> QED
      BY <2>6, <3>1, <3>2 DEF StepOf
  <2>7. ASSUME NEW c \in Chains, SaveFails(c)
        PROVE  Excused(s)
    <3>1. CASE chain[c].attempt > MaxSaveRetries /\ chain[c].session = s
      BY <2>7, <3>1 DEF GivesUp
    <3>2. CASE chain[c].attempt > MaxSaveRetries /\ chain[c].session # s
      <4>1. \A d \in Chains : chain[d].session = s => chain'[d] = chain[d]
        BY <1>1, <2>7, <3>2 DEF SaveFails, RetriesLeft, TypeOK, SaveChain
      <4> QED
        BY <1>1, <2>7, <4>1 DEF SaveFails, Covered
    <3>3. CASE ~(chain[c].attempt > MaxSaveRetries)
      <4>1. chain[c].attempt <= MaxSaveRetries
        BY <1>1, <3>3 DEF TypeOK, SaveChain
      <4>2. \A d \in Chains : /\ chain'[d].session = chain[d].session
                              /\ chain[d].phase # "free" => chain'[d].phase # "free"
        BY <1>1, <2>7, <4>1 DEF TypeOK, SaveFails, RetriesLeft, SaveChain
      <4> QED
        BY <1>1, <2>7, <4>2 DEF SaveFails, Covered
    <3> QED
      BY <3>1, <3>2, <3>3
  <2>8. ASSUME NEW c \in Chains, RetryFires(c)
        PROVE  Excused(s)
    <3>1. chain[c].session \in Sessions /\ chain[c].attempt + 1 \in Nat
      BY <1>1, <2>8 DEF TypeOK, RetryFires, NextAttempt, SaveChain
    <3>2. isDirty[s] /\ pendingDebounce' = pendingDebounce
      BY <1>1, <2>8 DEF RetryFires
    <3>3. HasChain(s)
      BY <1>1, <3>2 DEF Covered
    <3>4. HasChain(s)'
      BY <1>1, <2>8, <3>1, <3>2, <3>3, ExecuteSaveCovers DEF RetryFires, NextAttempt
    <3> QED
      BY <1>1, <3>4 DEF Covered
  <2>9. ASSUME Restart
        PROVE  Excused(s)
    BY <1>1, <2>9 DEF Restart
  <2>10. CASE UNCHANGED persistVars
    BY <1>1, <2>10 DEF persistVars, Covered
  <2> QED
    BY <1>1, <2>1, <2>2, <2>3, <2>4, <2>5, <2>6, <2>7, <2>8, <2>9, <2>10
    DEF PersistNext, ChainStep
<1>2. TypeOK /\ [PersistNext]_persistVars => KeepsCover
  BY <1>1 DEF KeepsCover
<1> QED
  BY <1>2, TypeCorrect, PTL DEF PersistSpec, DirtyStaysCovered

-----------------------------------------------------------------------------
(***************************************************************************)
(* Sessions, registry and gateway: RoomServer.                             *)
(***************************************************************************)

(* What the server does while its process runs, but for the save chains. *)
ServerWork ==
  \/ \E w \in Sockets : Connect(w) \/ SocketError(w) \/ SocketCloses(w) \/ Pong(w)
  \/ \E w \in Sockets, e \in Edits : Edit(w, e)
  \/ \E s \in Sessions :
       HydrateReads(s) \/ HydrateDone(s) \/ IdleTimerFires(s) \/ SaveDebounced(s)
  \/ ReviewRequest
  \/ Heartbeat

(* The persistence service cannot tell the server from the general           *)
(* environment RoomPersistence gives it.                                     *)
LEMMA WorkRefines ==
  ASSUME ServerTypeOK, ServerWork
  PROVE  [CallerStep]_persistVars
<1>1. \A s \in Sessions, W \in SUBSET Sockets :
        RemoveClients(s, W) => [CallerStep]_persistVars
  BY DEF RemoveClients, CallerStep, persistVars
<1>2. ASSUME NEW w \in Sockets, Connect(w)
      PROVE  UNCHANGED persistVars
  BY <1>2 DEF Connect
<1>3. ASSUME NEW s \in Sessions, HydrateReads(s)
      PROVE  UNCHANGED persistVars
  BY <1>3 DEF HydrateReads
<1>4. ASSUME NEW s \in Sessions, HydrateDone(s)
      PROVE  [CallerStep]_persistVars
  <2>1. fetched[s] \in SUBSET Edits
    BY DEF ServerTypeOK
  <2> QED
    BY <1>4, <2>1 DEF HydrateDone, CallerStep
<1>5. ASSUME NEW w \in Sockets, NEW e \in Edits, Edit(w, e)
      PROVE  [CallerStep]_persistVars
  <2>1. sock[w].session \in Sessions /\ {e} \in SUBSET Edits
    BY <1>5 DEF ServerTypeOK, Edit
  <2> QED
    BY <1>5, <2>1 DEF Edit, CallerStep
<1>6. ASSUME NEW w \in Sockets, SocketError(w)
      PROVE  [CallerStep]_persistVars
  BY <1>1, <1>6 DEF ServerTypeOK, SocketError
<1>7. ASSUME NEW w \in Sockets, SocketCloses(w)
      PROVE  [CallerStep]_persistVars
  <2>1. sock[w].session \in Sessions
    BY <1>7 DEF ServerTypeOK, SocketCloses
  <2> QED
    BY <1>1, <1>7, <2>1 DEF SocketCloses
<1>8. ASSUME NEW w \in Sockets, Pong(w)
      PROVE  UNCHANGED persistVars
  BY <1>8 DEF Pong
<1>9. ASSUME Heartbeat
      PROVE  [CallerStep]_persistVars
  <2>1. registered \in Sessions
    BY <1>9 DEF ServerTypeOK, Heartbeat
  <2> QED
    <3>1. ToReap \in SUBSET Sockets
      BY <2>1 DEF ServerTypeOK, ToReap
    <3> QED
      BY <1>1, <1>9, <2>1, <3>1 DEF Heartbeat
<1>10. ASSUME NEW s \in Sessions, IdleTimerFires(s)
       PROVE  [CallerStep]_persistVars
  BY <1>10 DEF ServerTypeOK, IdleTimerFires, CallerStep
<1>11. ASSUME NEW s \in Sessions, SaveDebounced(s)
       PROVE  CallerStep
  BY <1>11 DEF SaveDebounced, CallerStep
<1>12. ReviewRequest => UNCHANGED persistVars
  BY DEF ReviewRequest
<1> QED
  BY <1>2, <1>3, <1>4, <1>5, <1>6, <1>7, <1>8, <1>9, <1>10, <1>11, <1>12
     DEF ServerWork

(* So every step of the server is one of the persistence service, or leaves  *)
(* its variables alone.                                                      *)
LEMMA StepRefines ==
  ASSUME ServerTypeOK, [ServerNext]_vars
  PROVE  [PersistNext]_persistVars
<1>1. ServerWork \/ (\E c \in Chains : SaveStep(c)) \/ ServerRestart \/ UNCHANGED vars
  BY DEF ServerNext, ServerWork
<1>2. /\ CallerStep => PersistNext
      /\ (\E c \in Chains : SaveStep(c)) => PersistNext
  BY DEF CallerStep, SaveStep, PersistNext
<1>3. ServerRestart => PersistNext
  BY DEF ServerRestart, PersistNext
<1>4. UNCHANGED vars => UNCHANGED persistVars
  BY DEF vars
<1> QED
  BY <1>1, <1>2, <1>3, <1>4, WorkRefines

-----------------------------------------------------------------------------
(* The fields of the connections that actions build. *)
LEMMA ConnectionFields ==
  /\ /\ NoConnection \in Connection
     /\ NoConnection.link = "unused"
     /\ ~NoConnection.attached
     /\ NoConnection.session = None
  /\ \A s \in Sessions :
       /\ Opened(s, TRUE) \in Connection /\ Opened(s, FALSE) \in Connection
       /\ Opened(s, TRUE).link = "open" /\ Opened(s, FALSE).link = "open"
       /\ Opened(s, TRUE).attached /\ ~Opened(s, FALSE).attached
       /\ Opened(s, TRUE).session = s /\ Opened(s, FALSE).session = s
  /\ \A c \in Connection :
       /\ [c EXCEPT !.link = "closing"] \in Connection
       /\ [c EXCEPT !.link = "closing"].link = "closing"
       /\ [c EXCEPT !.link = "closing"].attached = c.attached
       /\ [c EXCEPT !.link = "closing"].session = c.session
  /\ \A c \in Connection :
       /\ [c EXCEPT !.isAlive = FALSE] \in Connection
       /\ [c EXCEPT !.isAlive = FALSE].link = c.link
       /\ [c EXCEPT !.isAlive = FALSE].attached = c.attached
       /\ [c EXCEPT !.isAlive = FALSE].session = c.session
BY DEF Connection, NoConnection, Opened

-----------------------------------------------------------------------------
(* What MembershipAgrees needs to be inductive: a free slot is a fresh one,  *)
(* so that hydration finds only sockets that really wait.                    *)
ConnectionInv ==
  /\ MembershipAgrees
  /\ \A w \in Sockets : sock[w].link = "unused" => sock[w] = NoConnection

(* Type correctness, one action at a time; what RoomPersistence declares is  *)
(* left to its own lemma.  That a socket the heartbeat terminates has a      *)
(* session comes from ConnectionInv.                                         *)
LEMMA ServerTypeStep ==
  ASSUME ServerTypeOK, ConnectionInv, [ServerNext]_vars
  PROVE  ServerTypeOK'
<1> USE NoneAssumption DEF Connection, Statuses
<1>1. TypeOK'
  BY StepRefines, TypeStep DEF ServerTypeOK
<1>2. ASSUME NEW s \in Sessions, NEW W \in SUBSET Sockets, RemoveClients(s, W)
      PROVE  /\ clients' \in [Sessions -> SUBSET Sockets]
             /\ idleTimer' \in [Sessions -> BOOLEAN]
  BY <1>2 DEF ServerTypeOK, RemoveClients
<1>3. ASSUME NEW s \in Sessions, NEW W \in SUBSET Sockets, AddClients(s, W)
      PROVE  /\ clients' \in [Sessions -> SUBSET Sockets]
             /\ idleTimer' \in [Sessions -> BOOLEAN]
  <2>1. clients' \in [Sessions -> SUBSET Sockets]
    BY <1>3 DEF ServerTypeOK, AddClients
  <2>2. (IF W = {} THEN idleTimer[s] ELSE FALSE) \in BOOLEAN
    BY DEF ServerTypeOK
  <2>3. idleTimer' \in [Sessions -> BOOLEAN]
    BY <1>3, <2>2 DEF ServerTypeOK, AddClients
  <2> QED
    BY <2>1, <2>3
<1>4. ASSUME NEW w \in Sockets, Connect(w)
      PROVE  ServerTypeOK'
  <2>1. CASE registered # None
    <3>1. registered \in Sessions
      BY <2>1 DEF ServerTypeOK
    <3>2. CASE AddClients(registered, {w}) /\ UNCHANGED status
               /\ sock' = [sock EXCEPT ![w] = Opened(registered, TRUE)]
      BY <1>1, <1>3, <1>4, <3>1, <3>2 DEF Connect, ServerTypeOK, Opened
    <3> QED
      BY <1>4, <2>1, <3>2 DEF Connect, CreateSession
  <2>2. CASE registered = None
    <3>1. PICK s \in Sessions : /\ CreateSession(s)
                                /\ sock' = [sock EXCEPT ![w] = Opened(s, FALSE)]
                                /\ UNCHANGED <<clients, idleTimer>>
      BY <1>4, <2>2 DEF Connect
    <3> QED
      BY <1>1, <1>4, <3>1 DEF Connect, ServerTypeOK, CreateSession, Opened
  <2> QED
    BY <2>1, <2>2
<1>5. ASSUME ReviewRequest
      PROVE  ServerTypeOK'
  BY <1>1, <1>5 DEF ReviewRequest, ServerTypeOK, CreateSession
<1>6. ASSUME NEW s \in Sessions, HydrateReads(s)
      PROVE  ServerTypeOK'
  <2>1. PICK found \in {snapshot} \cup (IF HydrateCanFail THEN {{}} ELSE {}) :
          fetched' = [fetched EXCEPT ![s] = found]
    BY <1>6 DEF HydrateReads
  <2>2. found \in SUBSET Edits
    BY <2>1 DEF ServerTypeOK, TypeOK
  <2> QED
    BY <1>1, <1>6, <2>1, <2>2 DEF HydrateReads, ServerTypeOK
<1>7. ASSUME NEW s \in Sessions, HydrateDone(s)
      PROVE  ServerTypeOK'
  <2> DEFINE waiting == {w \in Sockets : sock[w].session = s /\ ~sock[w].attached}
  <2>1. AddClients(s, waiting)
    BY <1>7 DEF HydrateDone
  <2>2. sock' = [w \in Sockets |-> IF w \in waiting
                                    THEN [sock[w] EXCEPT !.attached = TRUE]
                                    ELSE sock[w]]
    BY <1>7 DEF HydrateDone
  <2>3. ASSUME NEW w \in Sockets
        PROVE  /\ sock'[w] \in Connection
               /\ sock'[w].link # "unused" => sock'[w].session \in Sessions
    <3>1. sock[w] \in Connection /\ (sock[w].link # "unused" => sock[w].session \in Sessions)
      BY DEF ServerTypeOK
    <3> QED
      BY <2>2, <3>1
  <2>4. sock' \in [Sockets -> Connection]
    BY <2>2, <2>3
  <2> HIDE DEF waiting
  <2>5. waiting \in SUBSET Sockets
    BY DEF waiting
  <2> QED
    BY <1>1, <1>3, <1>7, <2>1, <2>3, <2>4, <2>5 DEF HydrateDone, ServerTypeOK
<1>8. ASSUME NEW w \in Sockets, NEW e \in Edits, Edit(w, e)
      PROVE  ServerTypeOK'
  BY <1>1, <1>8 DEF Edit, ServerTypeOK, serverVars
<1>9. ASSUME NEW w \in Sockets, SocketError(w)
      PROVE  ServerTypeOK'
  BY <1>1, <1>2, <1>9 DEF SocketError, ServerTypeOK
<1>10. ASSUME NEW w \in Sockets, SocketCloses(w)
       PROVE  ServerTypeOK'
  <2>1. sock[w].session \in Sessions
    BY <1>10 DEF ServerTypeOK, SocketCloses
  <2>2. CASE sock[w].attached
    <3>1. NoConnection \in Connection
      BY DEF NoConnection
    <3>2. /\ RemoveClients(sock[w].session, {w})
          /\ sock' = [sock EXCEPT ![w] = NoConnection]
          /\ UNCHANGED <<registered, status, fetched>>
      BY <1>10, <2>2 DEF SocketCloses
    <3> QED
      BY <1>1, <1>2, <2>1, <3>1, <3>2 DEF ServerTypeOK, NoConnection
  <2>3. CASE ~sock[w].attached
    BY <1>1, <1>10, <2>1, <2>3 DEF SocketCloses, ServerTypeOK
  <2> QED
    BY <2>2, <2>3
<1>11. ASSUME NEW w \in Sockets, Pong(w)
       PROVE  ServerTypeOK'
  BY <1>1, <1>11 DEF Pong, ServerTypeOK
<1>12. ASSUME Heartbeat
       PROVE  ServerTypeOK'
  <2>1. registered \in Sessions /\ ToReap \in SUBSET Sockets
    BY <1>12 DEF ServerTypeOK, Heartbeat, ToReap
  <2>2. /\ clients' \in [Sessions -> SUBSET Sockets]
        /\ idleTimer' \in [Sessions -> BOOLEAN]
    BY <1>2, <1>12, <2>1 DEF Heartbeat, ServerTypeOK
  <2>3. ASSUME NEW w \in Sockets
        PROVE  /\ sock'[w] \in Connection
               /\ sock'[w].link # "unused" => sock'[w].session \in Sessions
    <3>1. /\ sock[w] \in Connection
          /\ sock[w].link # "unused" => sock[w].session \in Sessions
          /\ w \in clients[registered] => sock[w].session \in Sessions
      BY <2>1 DEF ServerTypeOK, ConnectionInv, MembershipAgrees
    <3>2. \/ sock'[w] = Terminated(w) /\ w \in clients[registered]
          \/ sock'[w] = [sock[w] EXCEPT !.isAlive = FALSE]
          \/ sock'[w] = sock[w]
      BY <1>12 DEF Heartbeat, ToReap
    <3> QED
      BY <3>1, <3>2, ConnectionFields DEF Terminated
  <2>4. sock' \in [Sockets -> Connection]
    BY <1>12, <2>3 DEF Heartbeat
  <2> QED
    BY <1>1, <1>12, <2>2, <2>3, <2>4 DEF Heartbeat, ServerTypeOK
<1>13. ASSUME NEW s \in Sessions, IdleTimerFires(s)
       PROVE  ServerTypeOK'
  BY <1>1, <1>13 DEF IdleTimerFires, ServerTypeOK
<1>14. ASSUME NEW s \in Sessions, SaveDebounced(s)
       PROVE  ServerTypeOK'
  BY <1>1, <1>14 DEF SaveDebounced, ServerTypeOK, serverVars
<1>15. ASSUME NEW c \in Chains, SaveStep(c)
       PROVE  ServerTypeOK'
  BY <1>1, <1>15 DEF SaveStep, ServerTypeOK, serverVars
<1>16. ASSUME ServerRestart
       PROVE  ServerTypeOK'
  BY <1>1, <1>16 DEF ServerRestart, ServerTypeOK, NoConnection
<1>17. CASE UNCHANGED vars
  BY <1>1, <1>17 DEF vars, serverVars, ServerTypeOK
<1> QED
  BY <1>4, <1>5, <1>6, <1>7, <1>8, <1>9, <1>10, <1>11, <1>12, <1>13, <1>14, <1>15,
     <1>16, <1>17 DEF ServerNext

(* Both sides of the membership agree again after every step. *)
LEMMA ConnectionStep ==
  ASSUME ServerTypeOK, ConnectionInv, [ServerNext]_vars
  PROVE  ConnectionInv'
<1> USE NoneAssumption
<1>1. ASSUME NEW w \in Sockets, Connect(w)
      PROVE  ConnectionInv'
  <2>1. sock[w] = NoConnection /\ \A s \in Sessions : w \notin clients[s]
    BY <1>1, ConnectionFields DEF Connect, ConnectionInv, MembershipAgrees
  <2>2. destroyed' = destroyed
    BY <1>1 DEF Connect, persistVars
  <2>3. CASE registered # None
    <3>1. registered \in Sessions
      BY <2>3 DEF ServerTypeOK
    <3>2. /\ clients' = [clients EXCEPT ![registered] = @ \cup {w}]
          /\ sock' = [sock EXCEPT ![w] = Opened(registered, TRUE)]
      BY <1>1, <2>3 DEF Connect, AddClients, CreateSession
    <3>3. /\ sock'[w].link = "open" /\ sock'[w].attached
          /\ sock'[w].session = registered
          /\ \A v \in Sockets \ {w} : sock'[v] = sock[v]
      <4>1. /\ Opened(registered, TRUE).link = "open"
            /\ Opened(registered, TRUE).attached
            /\ Opened(registered, TRUE).session = registered
        BY <3>1, ConnectionFields
      <4>2. /\ sock'[w] = Opened(registered, TRUE)
            /\ \A v \in Sockets \ {w} : sock'[v] = sock[v]
        BY <3>2 DEF ServerTypeOK
      <4> QED
        BY <4>1, <4>2
    <3>4. /\ clients'[registered] = clients[registered] \cup {w}
          /\ \A s \in Sessions \ {registered} : clients'[s] = clients[s]
      BY <3>1, <3>2 DEF ServerTypeOK
    <3> QED
      BY <2>1, <2>2, <3>1, <3>3, <3>4 DEF ServerTypeOK, ConnectionInv, MembershipAgrees
  <2>4. CASE registered = None
    <3>1. PICK s \in Sessions : /\ sock' = [sock EXCEPT ![w] = Opened(s, FALSE)]
                                /\ UNCHANGED clients
      BY <1>1, <2>4 DEF Connect
    <3>2. /\ sock'[w].link = "open" /\ ~sock'[w].attached
          /\ \A v \in Sockets \ {w} : sock'[v] = sock[v]
      <4>1. Opened(s, FALSE).link = "open" /\ ~Opened(s, FALSE).attached
        BY ConnectionFields
      <4>2. sock'[w] = Opened(s, FALSE) /\ \A v \in Sockets \ {w} : sock'[v] = sock[v]
        BY <3>1 DEF ServerTypeOK
      <4> QED
        BY <4>1, <4>2
    <3>3. clients' = clients /\ destroyed' = destroyed
      BY <2>2, <3>1
    <3> QED
      BY <2>1, <3>2, <3>3 DEF ServerTypeOK, ConnectionInv, MembershipAgrees
  <2> QED
    BY <2>3, <2>4
<1>2. ASSUME NEW s \in Sessions, HydrateDone(s)
      PROVE  ConnectionInv'
  <2> DEFINE waiting == {w \in Sockets : sock[w].session = s /\ ~sock[w].attached}
  <2>1. clients' = [clients EXCEPT ![s] = @ \cup waiting]
    BY <1>2 DEF HydrateDone, AddClients
  <2>2. sock' = [w \in Sockets |-> IF w \in waiting
                                    THEN [sock[w] EXCEPT !.attached = TRUE]
                                    ELSE sock[w]]
    BY <1>2 DEF HydrateDone
  <2>3. destroyed' = destroyed
    BY <1>2 DEF HydrateDone, ApplyUpdate, persistVars
  <2>4. \A w \in waiting : /\ sock[w].link # "unused"
                           /\ \A r \in Sessions : w \notin clients[r]
    BY DEF ConnectionInv, MembershipAgrees, NoConnection
  <2>5. ASSUME NEW w \in Sockets
        PROVE  /\ sock'[w].link = sock[w].link
               /\ sock'[w].session = sock[w].session
               /\ w \notin waiting => sock'[w] = sock[w]
               /\ w \in waiting => sock'[w].attached
    BY <2>2 DEF ServerTypeOK, Connection
  <2>6. ASSUME NEW w \in Sockets
        PROVE  sock[w].session \in Sessions => clients[sock[w].session] \subseteq clients'[sock[w].session]
    BY <2>1 DEF ServerTypeOK
  <2>7. \A w \in waiting : w \in clients'[s] /\ sock[w].session = s
    BY <2>1 DEF ServerTypeOK
  <2>8. ASSUME NEW w \in Sockets, sock'[w].link = "open", sock'[w].attached
        PROVE  w \in clients'[sock'[w].session] \/ destroyed'[sock'[w].session]
    <3>1. CASE w \in waiting
      BY <2>5, <2>7, <3>1
    <3>2. CASE w \notin waiting
      BY <2>3, <2>5, <2>6, <2>8, <3>2 DEF ServerTypeOK, ConnectionInv, MembershipAgrees
    <3> QED
      BY <3>1, <3>2
  <2>9. ASSUME NEW r \in Sessions, NEW w \in clients'[r]
        PROVE  sock'[w].session = r /\ sock'[w].attached
    <3>1. w \in Sockets
      BY <2>1 DEF ServerTypeOK
    <3>2. CASE w \in waiting
      BY <2>1, <2>4, <2>5, <2>7, <3>1, <3>2 DEF ServerTypeOK
    <3>3. CASE w \notin waiting
      BY <2>1, <2>5, <3>1, <3>3 DEF ServerTypeOK, ConnectionInv, MembershipAgrees
    <3> QED
      BY <3>2, <3>3
  <2>10. \A w \in Sockets : sock'[w].link = "unused" => sock'[w] = NoConnection
    BY <2>4, <2>5 DEF ConnectionInv
  <2> QED
    BY <2>8, <2>9, <2>10 DEF ConnectionInv, MembershipAgrees
<1>3. ASSUME NEW w \in Sockets, NEW e \in Edits, Edit(w, e)
      PROVE  ConnectionInv'
  BY <1>3 DEF Edit, serverVars, ApplyUpdate, ConnectionInv, MembershipAgrees
<1>4. ASSUME NEW s \in Sessions, NEW W \in SUBSET Sockets, RemoveClients(s, W)
      PROVE  /\ clients' = [clients EXCEPT ![s] = @ \ W]
             /\ destroyed' = destroyed
  BY <1>4 DEF RemoveClients, FlushPendingSave, persistVars
<1>5. ASSUME NEW w \in Sockets, SocketError(w)
      PROVE  ConnectionInv'
  <2>1. sock[w].session \in Sessions
    BY <1>5 DEF ServerTypeOK, SocketError
  <2>2. /\ clients' = [clients EXCEPT ![sock[w].session] = @ \ {w}]
        /\ destroyed' = destroyed
    BY <1>4, <1>5, <2>1 DEF SocketError
  <2> QED
    BY <1>5, <2>1, <2>2, ConnectionFields DEF SocketError, ServerTypeOK, Connection, ConnectionInv, MembershipAgrees
<1>6. ASSUME NEW w \in Sockets, SocketCloses(w)
      PROVE  ConnectionInv'
  <2>1. sock[w].session \in Sessions
    BY <1>6 DEF ServerTypeOK, SocketCloses
  <2>2. CASE sock[w].attached
    <3>1. /\ clients' = [clients EXCEPT ![sock[w].session] = @ \ {w}]
          /\ destroyed' = destroyed
      BY <1>4, <1>6, <2>1, <2>2 DEF SocketCloses
    <3>2. sock' = [sock EXCEPT ![w] = NoConnection]
      BY <1>6, <2>2 DEF SocketCloses
    <3> QED
      BY <2>1, <3>1, <3>2, ConnectionFields DEF ServerTypeOK, ConnectionInv, MembershipAgrees
  <2>3. CASE ~sock[w].attached
    <3>1. /\ sock' = [sock EXCEPT ![w].link = "closed"]
          /\ UNCHANGED <<clients, destroyed>>
      BY <1>6, <2>3 DEF SocketCloses, persistVars
    <3> QED
      BY <2>3, <3>1 DEF ServerTypeOK, Connection, ConnectionInv, MembershipAgrees
  <2> QED
    BY <2>2, <2>3
<1>7. ASSUME NEW w \in Sockets, Pong(w)
      PROVE  ConnectionInv'
  BY <1>7 DEF Pong, persistVars, ServerTypeOK, Connection, ConnectionInv, MembershipAgrees
<1>8. ASSUME Heartbeat
      PROVE  ConnectionInv'
  <2>1. registered \in Sessions /\ ToReap \in SUBSET clients[registered]
    BY <1>8 DEF ServerTypeOK, Heartbeat, ToReap
  <2>2. /\ clients' = [clients EXCEPT ![registered] = @ \ ToReap]
        /\ destroyed' = destroyed
    <3>1. CASE ToReap = {}
      BY <1>8, <2>1, <3>1 DEF Heartbeat, persistVars, ServerTypeOK
    <3>2. CASE ToReap # {}
      <4>1. ToReap \in SUBSET Sockets
        BY <2>1 DEF ServerTypeOK
      <4> QED
        BY <1>4, <1>8, <2>1, <3>2, <4>1 DEF Heartbeat
    <3> QED
      BY <3>1, <3>2
  <2>3. ASSUME NEW w \in Sockets
        PROVE  \/ w \in ToReap /\ sock'[w] = NoConnection
               \/ w \in ToReap /\ sock'[w] = [sock[w] EXCEPT !.link = "closing"]
               \/ w \in clients[registered] \ ToReap /\ sock'[w] = [sock[w] EXCEPT !.isAlive = FALSE]
               \/ w \notin clients[registered] /\ sock'[w] = sock[w]
    BY <1>8, <2>1 DEF Heartbeat, Terminated
  <2>4. ASSUME NEW w \in Sockets
        PROVE  /\ w \in ToReap => sock'[w].link \in {"unused", "closing"}
               /\ w \notin ToReap => /\ sock'[w].link = sock[w].link
                                     /\ sock'[w].attached = sock[w].attached
                                     /\ sock'[w].session = sock[w].session
               /\ w \notin clients[registered] => sock'[w] = sock[w]
               /\ sock'[w].link = "unused" /\ w \in ToReap => sock'[w] = NoConnection
    <3>1. sock[w] \in Connection
      BY DEF ServerTypeOK
    <3>2. /\ [sock[w] EXCEPT !.link = "closing"].link = "closing"
          /\ [sock[w] EXCEPT !.isAlive = FALSE].link = sock[w].link
          /\ [sock[w] EXCEPT !.isAlive = FALSE].attached = sock[w].attached
          /\ [sock[w] EXCEPT !.isAlive = FALSE].session = sock[w].session
      BY <3>1, ConnectionFields
    <3> QED
      BY <2>1, <2>3, <3>2, ConnectionFields
  <2>5. ASSUME NEW w \in Sockets, sock'[w].link = "open", sock'[w].attached
        PROVE  w \in clients'[sock'[w].session] \/ destroyed'[sock'[w].session]
    <3>1. w \notin ToReap
      BY <2>4, <2>5
    <3> QED
      BY <2>2, <2>4, <2>5, <3>1 DEF ServerTypeOK, ConnectionInv, MembershipAgrees
  <2>6. ASSUME NEW r \in Sessions, NEW w \in clients'[r]
        PROVE  sock'[w].session = r /\ sock'[w].attached
    <3>1. w \in Sockets /\ w \in clients[r] /\ sock[w].session = r /\ sock[w].attached
      BY <2>1, <2>2 DEF ServerTypeOK, ConnectionInv, MembershipAgrees
    <3>2. w \notin ToReap
      BY <2>1, <2>2, <3>1 DEF ServerTypeOK, ConnectionInv, MembershipAgrees
    <3> QED
      BY <2>4, <3>1, <3>2
  <2>7. ASSUME NEW w \in Sockets, sock'[w].link = "unused"
        PROVE  sock'[w] = NoConnection
    <3>1. CASE w \in ToReap
      BY <2>4, <2>7, <3>1
    <3>2. CASE w \notin ToReap
      <4>1. sock[w] = NoConnection
        BY <2>4, <2>7, <3>2 DEF ConnectionInv
      <4>2. w \notin clients[registered]
        BY <2>1, <4>1, ConnectionFields DEF ConnectionInv, MembershipAgrees
      <4> QED
        BY <2>4, <4>1, <4>2
    <3> QED
      BY <3>1, <3>2
  <2> QED
    BY <2>5, <2>6, <2>7 DEF ConnectionInv, MembershipAgrees
<1>9. ASSUME NEW s \in Sessions, IdleTimerFires(s)
      PROVE  ConnectionInv'
  <2>1. CASE registered = None
    BY <1>9, <2>1 DEF IdleTimerFires, persistVars, ConnectionInv, MembershipAgrees
  <2>2. CASE registered # None
    BY <1>9, <2>2
    DEF IdleTimerFires, DestroyDoc, ServerTypeOK, TypeOK, ConnectionInv, MembershipAgrees
  <2> QED
    BY <2>1, <2>2
<1>10. ASSUME NEW s \in Sessions, SaveDebounced(s)
       PROVE  ConnectionInv'
  BY <1>10 DEF SaveDebounced, DebounceFires, FlushPendingSave, serverVars, ConnectionInv,
               MembershipAgrees
<1>11. ASSUME NEW c \in Chains, SaveStep(c)
       PROVE  ConnectionInv'
  <2>1. destroyed' = destroyed
    BY <1>11 DEF SaveStep, ChainStep, DbCommit, SaveSucceeds, SaveFails, RetryFires
  <2> QED
    BY <1>11, <2>1 DEF SaveStep, serverVars, ConnectionInv, MembershipAgrees
<1>12. ASSUME ServerRestart
       PROVE  ConnectionInv'
  BY <1>12 DEF ServerRestart, NoConnection, ConnectionInv, MembershipAgrees
<1>13. ASSUME NEW s \in Sessions, HydrateReads(s)
       PROVE  ConnectionInv'
  BY <1>13 DEF HydrateReads, persistVars, ConnectionInv, MembershipAgrees
<1>14. CASE ReviewRequest
  BY <1>14 DEF ReviewRequest, persistVars, ConnectionInv, MembershipAgrees
<1>15. CASE UNCHANGED vars
  BY <1>15 DEF vars, persistVars, serverVars, ConnectionInv, MembershipAgrees
<1> QED
  BY <1>1, <1>2, <1>3, <1>5, <1>6, <1>7, <1>8, <1>9, <1>10, <1>11, <1>12, <1>13, <1>14,
     <1>15 DEF ServerNext

(* The two invariants that need each other. *)
LEMMA ServerInvariant == ServerSpec => [](ServerTypeOK /\ ConnectionInv)
<1>1. ServerInit => ServerTypeOK
  BY DEF ServerInit, ServerTypeOK, PersistInit, TypeOK, FreeChain, SaveChain, Phases,
         Statuses, Connection, NoConnection
<1>2. ServerInit => ConnectionInv
  BY DEF ServerInit, ConnectionInv, MembershipAgrees, NoConnection
<1>3. ServerTypeOK /\ ConnectionInv /\ [ServerNext]_vars => ServerTypeOK' /\ ConnectionInv'
  BY ServerTypeStep, ConnectionStep
<1> QED
  BY <1>1, <1>2, <1>3, PTL DEF ServerSpec

(* Type correctness of the room on its server. *)
THEOREM ServerTypeCorrect == ServerSpec => []ServerTypeOK
BY ServerInvariant, PTL

(* A session's clients are the open sockets bound to it. *)
THEOREM MembershipCorrect == ServerSpec => []MembershipAgrees
<1>1. ConnectionInv => MembershipAgrees
  BY DEF ConnectionInv
<1> QED
  BY <1>1, ServerInvariant, PTL

(* The server with its sockets and timers implements the persistence service *)
(* in its general environment.                                               *)
THEOREM ServerRefinesPersistence == ServerSpec => PersistSpec
<1>1. ServerInit => PersistInit
  BY DEF ServerInit
<1>2. ServerTypeOK /\ [ServerNext]_vars => [PersistNext]_persistVars
  BY StepRefines
<1> QED
  BY <1>1, <1>2, ServerTypeCorrect, PTL DEF ServerSpec, PersistSpec

(* Whatever sockets, heartbeat, evictions and hydrations do, a clean live    *)
(* session lacks nothing in the database but exposed edits.                  *)
COROLLARY ServerDurability == ServerSpec => []DurableUnlessExposed
BY ServerRefinesPersistence, Durability, PTL
-----------------------------------------------------------------------------
(* What each step does to the documents that are destroyed: only an eviction *)
(* timer destroys one, and the process that restarts has none.               *)
LEMMA OnlyTimersDestroy ==
  ASSUME [ServerNext]_vars,
         \A s \in Sessions : ~IdleTimerFires(s),
         ~ServerRestart
  PROVE  destroyed' = destroyed
<1>1. \A s, W : RemoveClients(s, W) => destroyed' = destroyed
  BY DEF RemoveClients, FlushPendingSave, persistVars
<1>2. ASSUME NEW w \in Sockets, Connect(w) \/ SocketError(w) \/ SocketCloses(w) \/ Pong(w)
      PROVE  destroyed' = destroyed
  BY <1>1, <1>2 DEF Connect, SocketError, SocketCloses, Pong, persistVars
<1>3. ASSUME NEW s \in Sessions, HydrateReads(s) \/ HydrateDone(s) \/ SaveDebounced(s)
      PROVE  destroyed' = destroyed
  BY <1>3 DEF HydrateReads, HydrateDone, ApplyUpdate, SaveDebounced, DebounceFires,
              FlushPendingSave, persistVars
<1>4. ASSUME NEW w \in Sockets, NEW e \in Edits, Edit(w, e)
      PROVE  destroyed' = destroyed
  BY <1>4 DEF Edit, ApplyUpdate
<1>5. ReviewRequest \/ Heartbeat => destroyed' = destroyed
  BY <1>1 DEF ReviewRequest, Heartbeat, persistVars
<1>6. ASSUME NEW c \in Chains, SaveStep(c)
      PROVE  destroyed' = destroyed
  BY <1>6 DEF SaveStep, ChainStep, DbCommit, SaveSucceeds, SaveFails, RetryFires
<1>7. UNCHANGED vars => destroyed' = destroyed
  BY DEF vars, persistVars
<1> QED
  BY <1>2, <1>3, <1>4, <1>5, <1>6, <1>7 DEF ServerNext

-----------------------------------------------------------------------------
(* Whoever adds a client disarms the eviction timer, and whoever arms it has *)
(* removed the last client.                                                  *)
LEMMA IdleTimerStep ==
  ASSUME ServerTypeOK, IdleTimerMeansEmpty, [ServerNext]_vars
  PROVE  IdleTimerMeansEmpty'
<1> USE NoneAssumption
<1>1. ASSUME NEW s \in Sessions, NEW W, AddClients(s, W)
      PROVE  IdleTimerMeansEmpty'
  <2>1. CASE W = {}
    BY <1>1, <2>1 DEF AddClients, ServerTypeOK, IdleTimerMeansEmpty
  <2>2. CASE W # {}
    BY <1>1, <2>2 DEF AddClients, ServerTypeOK, IdleTimerMeansEmpty
  <2> QED
    BY <2>1, <2>2
<1>2. ASSUME NEW s \in Sessions, NEW W, RemoveClients(s, W)
      PROVE  IdleTimerMeansEmpty'
  <2>1. CASE clients[s] \subseteq W
    BY <1>2, <2>1 DEF RemoveClients, ServerTypeOK, IdleTimerMeansEmpty
  <2>2. CASE ~ clients[s] \subseteq W
    BY <1>2, <2>2 DEF RemoveClients, ServerTypeOK, IdleTimerMeansEmpty
  <2> QED
    BY <2>1, <2>2
<1>3. UNCHANGED <<clients, idleTimer>> => IdleTimerMeansEmpty'
  BY DEF IdleTimerMeansEmpty
<1>4. ASSUME NEW w \in Sockets, Connect(w)
      PROVE  IdleTimerMeansEmpty'
  <2>1. registered # None => registered \in Sessions
    BY DEF ServerTypeOK
  <2> QED
    BY <1>1, <1>3, <1>4, <2>1 DEF Connect
<1>5. ASSUME NEW s \in Sessions, HydrateDone(s)
      PROVE  IdleTimerMeansEmpty'
  BY <1>1, <1>5 DEF HydrateDone
<1>6. ASSUME NEW w \in Sockets, SocketError(w) \/ SocketCloses(w)
      PROVE  IdleTimerMeansEmpty'
  <2>1. sock[w].session \in Sessions
    BY <1>6 DEF SocketError, SocketCloses, ServerTypeOK
  <2> QED
    BY <1>2, <1>3, <1>6, <2>1 DEF SocketError, SocketCloses
<1>7. ASSUME Heartbeat
      PROVE  IdleTimerMeansEmpty'
  <2>1. registered \in Sessions
    BY <1>7 DEF Heartbeat, ServerTypeOK
  <2> QED
    BY <1>2, <1>3, <1>7, <2>1 DEF Heartbeat
<1>8. ASSUME NEW s \in Sessions, IdleTimerFires(s)
      PROVE  IdleTimerMeansEmpty'
  <2>1. CASE registered = None
    BY <1>8, <2>1 DEF IdleTimerFires, ServerTypeOK, IdleTimerMeansEmpty
  <2>2. CASE registered # None
    BY <1>8, <2>2 DEF IdleTimerFires, ServerTypeOK, IdleTimerMeansEmpty
  <2> QED
    BY <2>1, <2>2
<1>9. ASSUME ServerRestart
      PROVE  IdleTimerMeansEmpty'
  BY <1>9 DEF ServerRestart, IdleTimerMeansEmpty
<1>10. ASSUME NEW s \in Sessions, HydrateReads(s) \/ SaveDebounced(s)
       PROVE  UNCHANGED <<clients, idleTimer>>
  BY <1>10 DEF HydrateReads, SaveDebounced, serverVars
<1>11. ASSUME NEW w \in Sockets, Pong(w) \/ \E e \in Edits : Edit(w, e)
       PROVE  UNCHANGED <<clients, idleTimer>>
  BY <1>11 DEF Pong, Edit, serverVars
<1>12. ASSUME NEW c \in Chains, SaveStep(c)
       PROVE  UNCHANGED <<clients, idleTimer>>
  BY <1>12 DEF SaveStep, serverVars
<1>13. ReviewRequest \/ UNCHANGED vars => UNCHANGED <<clients, idleTimer>>
  BY DEF ReviewRequest, vars, serverVars
<1> QED
  BY <1>3, <1>4, <1>5, <1>6, <1>7, <1>8, <1>9, <1>10, <1>11, <1>12, <1>13 DEF ServerNext

(* An armed eviction timer means an empty session. *)
THEOREM IdleTimerCorrect == ServerSpec => []IdleTimerMeansEmpty
<1>1. ServerInit => IdleTimerMeansEmpty
  BY DEF ServerInit, IdleTimerMeansEmpty
<1>2. ServerTypeOK /\ IdleTimerMeansEmpty /\ [ServerNext]_vars => IdleTimerMeansEmpty'
  BY IdleTimerStep
<1> QED
  BY <1>1, <1>2, ServerTypeCorrect, PTL DEF ServerSpec

(* Only the eviction timer of another session object can destroy a session   *)
(* that still has clients.                                                   *)
THEOREM BusyEvictionCorrect == ServerSpec => BusyEvictionIsForeign
<1> DEFINE Foreign ==
      \A s \in Sessions :
        Live(s) /\ ~Live(s)' /\ clients[s] # {}
          => \E r \in Sessions \ {s} : idleTimer[r] /\ ~idleTimer'[r]
<1>1. ASSUME ServerTypeOK, IdleTimerMeansEmpty, [ServerNext]_vars
      PROVE  Foreign
  <2> SUFFICES ASSUME NEW s \in Sessions, Live(s), ~Live(s)', clients[s] # {}
               PROVE  \E r \in Sessions \ {s} : idleTimer[r] /\ ~idleTimer'[r]
    OBVIOUS
  <2>1. ~ServerRestart
    BY DEF ServerRestart, Restart, Live
  <2>2. PICK r \in Sessions : IdleTimerFires(r)
    BY <1>1, <2>1, OnlyTimersDestroy DEF Live
  <2>3. registered = s
    BY <1>1, <2>2 DEF IdleTimerFires, DestroyDoc, Live, persistVars, ServerTypeOK, TypeOK
  <2>4. idleTimer[r] /\ r # s
    BY <1>1, <2>2 DEF IdleTimerFires, IdleTimerMeansEmpty
  <2>5. ~idleTimer'[r]
    <3>1. idleTimer' = [idleTimer EXCEPT ![r] = FALSE, ![s] = FALSE]
      BY <2>2, <2>3, NoneAssumption DEF IdleTimerFires
    <3> QED
      BY <1>1, <3>1, <2>4 DEF ServerTypeOK
  <2> QED
    BY <2>4, <2>5
<1>2. ServerTypeOK /\ IdleTimerMeansEmpty /\ [ServerNext]_vars => [Foreign]_vars
  BY <1>1
<1> QED
  BY <1>2, ServerTypeCorrect, IdleTimerCorrect, PTL DEF ServerSpec, BusyEvictionIsForeign

-----------------------------------------------------------------------------
(* What RegisteredIsUsable needs to be inductive: only sessions that are     *)
(* through with their hydration are ever destroyed, so that hydration does   *)
(* not register a destroyed one.                                             *)
RegistryInv ==
  /\ RegisteredIsUsable
  /\ \A s \in Sessions : destroyed[s] => status[s] = "ready"

LEMMA RegistryStep ==
  ASSUME ServerTypeOK, RegistryInv, [ServerNext]_vars
  PROVE  RegistryInv'
<1> USE NoneAssumption
<1>1. registered # None => registered \in Sessions
  BY DEF ServerTypeOK
<1>2. ASSUME NEW s \in Sessions, IdleTimerFires(s)
      PROVE  RegistryInv'
  BY <1>1, <1>2
  DEF IdleTimerFires, DestroyDoc, persistVars, ServerTypeOK, TypeOK, RegistryInv,
      RegisteredIsUsable, Live
<1>3. ASSUME ServerRestart
      PROVE  RegistryInv'
  BY <1>3 DEF ServerRestart, Restart, RegistryInv, RegisteredIsUsable
<1>4. CASE \E w \in Sockets : Connect(w)
  <2>1. destroyed' = destroyed /\ registered' = registered
    BY <1>4 DEF Connect, persistVars
  <2>2. status' = status \/ \E s \in Sessions : CreateSession(s)
    BY <1>4 DEF Connect
  <2> QED
    BY <1>1, <2>1, <2>2 DEF CreateSession, ServerTypeOK, RegistryInv, RegisteredIsUsable, Live
<1>5. CASE ReviewRequest
  BY <1>1, <1>5 DEF ReviewRequest, CreateSession, persistVars, ServerTypeOK, RegistryInv,
                    RegisteredIsUsable, Live
<1>6. ASSUME NEW s \in Sessions, HydrateReads(s)
      PROVE  RegistryInv'
  BY <1>1, <1>6 DEF HydrateReads, persistVars, ServerTypeOK, RegistryInv,
                    RegisteredIsUsable, Live
<1>7. ASSUME NEW s \in Sessions, HydrateDone(s)
      PROVE  RegistryInv'
  <2>1. destroyed' = destroyed
    BY <1>7 DEF HydrateDone, ApplyUpdate, persistVars
  <2>2. /\ status[s] = "fetched" /\ registered' = s
        /\ status' = [status EXCEPT ![s] = "ready"]
    BY <1>7 DEF HydrateDone
  <2> QED
    BY <2>1, <2>2 DEF ServerTypeOK, RegistryInv, RegisteredIsUsable, Live
<1>8. ASSUME UNCHANGED <<destroyed, registered, status>>
      PROVE  RegistryInv'
  BY <1>8 DEF RegistryInv, RegisteredIsUsable, Live
<1>9. ASSUME NEW w \in Sockets,
             SocketError(w) \/ SocketCloses(w) \/ Pong(w) \/ \E e \in Edits : Edit(w, e)
      PROVE  UNCHANGED <<registered, status>>
  BY <1>9 DEF SocketError, SocketCloses, Pong, Edit, serverVars
<1>10. Heartbeat \/ UNCHANGED vars => UNCHANGED <<registered, status>>
  BY DEF Heartbeat, vars, serverVars
<1>11. ASSUME NEW s \in Sessions, SaveDebounced(s)
       PROVE  UNCHANGED <<registered, status>>
  BY <1>11 DEF SaveDebounced, serverVars
<1>12. ASSUME NEW c \in Chains, SaveStep(c)
       PROVE  UNCHANGED <<registered, status>>
  BY <1>12 DEF SaveStep, serverVars
<1>13. \/ destroyed' = destroyed
       \/ \E s \in Sessions : IdleTimerFires(s)
       \/ ServerRestart
  BY OnlyTimersDestroy
<1>14. \/ UNCHANGED <<registered, status>>
       \/ ReviewRequest \/ ServerRestart
       \/ \E w \in Sockets : Connect(w)
       \/ \E s \in Sessions : HydrateReads(s) \/ HydrateDone(s) \/ IdleTimerFires(s)
  BY <1>9, <1>10, <1>11, <1>12 DEF ServerNext
<1> QED
  BY <1>2, <1>3, <1>4, <1>5, <1>6, <1>7, <1>8, <1>13, <1>14

(* The registry hands out live, hydrated sessions only. *)
THEOREM RegistryCorrect == ServerSpec => []RegisteredIsUsable
<1>1. ServerInit => RegistryInv
  BY DEF ServerInit, PersistInit, RegistryInv, RegisteredIsUsable
<1>2. ServerTypeOK /\ RegistryInv /\ [ServerNext]_vars => RegistryInv'
  BY RegistryStep
<1>3. RegistryInv => RegisteredIsUsable
  BY DEF RegistryInv
<1> QED
  BY <1>1, <1>2, <1>3, ServerTypeCorrect, PTL DEF ServerSpec

-----------------------------------------------------------------------------
(***************************************************************************)
(* The graceful shutdown: Shutdown.                                        *)
(***************************************************************************)

(* What goes on besides the shutdown is work of the room server. *)
LEMMA MeanwhileIsWork == Meanwhile => ServerWork
BY DEF Meanwhile, ServerWork

(* A flush of the registered session, or none, is the service's business.    *)
LEMMA FlushAllType ==
  ASSUME ServerTypeOK, FlushAll
  PROVE  /\ [CallerStep]_persistVars
         /\ flushing' \in Chains \cup {None}
         /\ outcome' \in Outcomes
<1>1. registered # None => registered \in Sessions
  BY DEF ServerTypeOK
<1> QED
  BY <1>1 DEF FlushAll, CallerStep, persistVars, Outcomes

(* Every step of the process, in the view of the persistence service. *)
LEMMA ShutdownStepKinds ==
  ASSUME ServerTypeOK, [ShutdownNext]_allVars
  PROVE  \/ [CallerStep]_persistVars
         \/ \E c \in Chains : SaveStepMeanwhile(c)
         \/ ServerRestart /\ phase' # "flushing" /\ (flushing' = flushing \/ flushing' = None)
<1>1. ASSUME Meanwhile
      PROVE  [CallerStep]_persistVars
  BY <1>1, MeanwhileIsWork, WorkRefines
<1>2. ASSUME Signal
      PROVE  [CallerStep]_persistVars
  BY <1>2, FlushAllType DEF Signal
<1>3. ASSUME DestroySessions
      PROVE  [CallerStep]_persistVars
  BY <1>3 DEF DestroySessions, ServerTypeOK, CallerStep
<1>4. RedisQuits => UNCHANGED persistVars
  BY DEF RedisQuits, vars
<1>5. ServerClosed \/ ForceExit => ServerRestart /\ phase' # "flushing" /\ flushing' = flushing
  BY DEF ServerClosed, ForceExit, Exit
<1>6. ASSUME Boot
      PROVE  \/ UNCHANGED persistVars
             \/ ServerRestart /\ phase' # "flushing" /\ flushing' = None
  BY <1>6 DEF Boot, vars
<1>7. UNCHANGED allVars => UNCHANGED persistVars
  BY DEF allVars, vars
<1> QED
  BY <1>1, <1>2, <1>3, <1>4, <1>5, <1>6, <1>7 DEF ShutdownNext

(* So each is a step of RoomPersistence, or leaves its variables alone. *)
LEMMA ShutdownStepRefines ==
  ASSUME ServerTypeOK, [ShutdownNext]_allVars
  PROVE  [PersistNext]_persistVars
<1>1. CallerStep => PersistNext
  BY DEF CallerStep, PersistNext
<1>2. \A c \in Chains : SaveStepMeanwhile(c) => PersistNext
  BY DEF SaveStepMeanwhile, SaveStep, PersistNext
<1>3. ServerRestart => PersistNext
  BY DEF ServerRestart, PersistNext
<1> QED
  BY <1>1, <1>2, <1>3, ShutdownStepKinds

(* A step of the process is one of the room server, or one of the two by     *)
(* which the shutdown itself changes the room.                               *)
LEMMA ShutdownServerStep ==
  ASSUME [ShutdownNext]_allVars
  PROVE  [ServerNext]_vars \/ Signal \/ DestroySessions
<1>1. ServerWork => ServerNext
  BY DEF ServerWork, ServerNext
<1>2. \A c \in Chains : SaveStepMeanwhile(c) => ServerNext
  BY DEF SaveStepMeanwhile, ServerNext
<1>3. ServerRestart => ServerNext
  BY DEF ServerNext
<1>4. Meanwhile => ServerNext
  BY <1>1, MeanwhileIsWork
<1>5. ServerClosed \/ ForceExit => ServerRestart
  BY DEF ServerClosed, ForceExit, Exit
<1>6. Boot => ServerRestart \/ UNCHANGED vars
  BY DEF Boot
<1>7. RedisQuits \/ UNCHANGED allVars => UNCHANGED vars
  BY DEF RedisQuits, allVars
<1> QED
  BY <1>2, <1>3, <1>4, <1>5, <1>6, <1>7 DEF ShutdownNext

(* The room keeps its types and its membership through a shutdown.           *)
LEMMA ServerStaysTyped ==
  ASSUME ServerTypeOK, ConnectionInv, [ShutdownNext]_allVars
  PROVE  ServerTypeOK' /\ ConnectionInv'
<1> USE NoneAssumption
<1>1. CASE [ServerNext]_vars
  BY <1>1, ServerTypeStep, ConnectionStep
<1>2. TypeOK'
  BY ShutdownStepRefines, TypeStep DEF ServerTypeOK
<1>3. ASSUME Signal
      PROVE  ServerTypeOK' /\ ConnectionInv'
  <2>1. destroyed' = destroyed
    BY <1>3 DEF Signal, FlushAll, FlushPendingSave, persistVars
  <2> QED
    BY <1>2, <1>3, <2>1 DEF Signal, serverVars, ServerTypeOK, ConnectionInv, MembershipAgrees
<1>4. ASSUME DestroySessions
      PROVE  ServerTypeOK' /\ ConnectionInv'
  <2>1. CASE registered = None
    BY <1>2, <1>4, <2>1
    DEF DestroySessions, persistVars, ServerTypeOK, ConnectionInv, MembershipAgrees
  <2>2. CASE registered # None
    <3>1. registered \in Sessions
      BY <2>2 DEF ServerTypeOK
    <3>2. /\ destroyed' = [destroyed EXCEPT ![registered] = TRUE]
          /\ clients' = [clients EXCEPT ![registered] = {}]
          /\ idleTimer' = [idleTimer EXCEPT ![registered] = FALSE]
          /\ registered' = None
          /\ UNCHANGED <<status, fetched, sock>>
      BY <1>4, <2>2 DEF DestroySessions, DestroyDoc
    <3>3. ServerTypeOK'
      BY <1>2, <3>1, <3>2 DEF ServerTypeOK
    <3>4. ConnectionInv'
      BY <3>1, <3>2 DEF ServerTypeOK, TypeOK, ConnectionInv, MembershipAgrees
    <3> QED
      BY <3>3, <3>4
  <2> QED
    BY <2>1, <2>2
<1> QED
  BY <1>1, <1>3, <1>4, ShutdownServerStep

(* A shutdown leaves the room as well typed as RoomServer does. *)
LEMMA ServerInShutdown == ShutdownSpec => [](ServerTypeOK /\ ConnectionInv)
<1>1. ShutdownInit => ServerTypeOK /\ ConnectionInv
  <2>1. ServerInit => ServerTypeOK
    BY DEF ServerInit, ServerTypeOK, PersistInit, TypeOK, FreeChain, SaveChain, Phases,
           Statuses, Connection, NoConnection
  <2>2. ServerInit => ConnectionInv
    BY DEF ServerInit, ConnectionInv, MembershipAgrees, NoConnection
  <2> QED
    BY <2>1, <2>2 DEF ShutdownInit
<1> QED
  BY <1>1, ServerStaysTyped, PTL DEF ShutdownSpec

(* The process with its shutdown implements the persistence service in its   *)
(* general environment.                                                      *)
THEOREM ShutdownRefinesPersistence == ShutdownSpec => PersistSpec
<1>1. ShutdownInit => PersistInit
  BY DEF ShutdownInit, ServerInit
<1> QED
  BY <1>1, ServerInShutdown, ShutdownStepRefines, PTL DEF ShutdownSpec, PersistSpec

(* Shutting down takes no guarantee back: while sessions are flushed and     *)
(* destroyed among edits, retries and closing sockets, a clean live session  *)
(* still lacks nothing in the database but exposed edits (index 118-148).    *)
COROLLARY ShutdownDurability == ShutdownSpec => []DurableUnlessExposed
BY ShutdownRefinesPersistence, Durability, PTL

(* Nor does a session list clients that are not its open sockets, although   *)
(* sockets go on closing while the shutdown awaits its saves (index 118-148).*)
COROLLARY ShutdownMembership == ShutdownSpec => []MembershipAgrees
<1>1. ConnectionInv => MembershipAgrees
  BY DEF ConnectionInv
<1> QED
  BY <1>1, ServerInShutdown, PTL

-----------------------------------------------------------------------------
(* Every reachable state of the process, its shutdown included, is well      *)
(* typed.                                                                    *)
THEOREM ShutdownTypeCorrect == ShutdownSpec => []ShutdownTypeOK
<1>1. ShutdownInit /\ ServerTypeOK => ShutdownTypeOK
  BY DEF ShutdownInit, ShutdownTypeOK, PhasesOfExit, Outcomes
<1>2. ASSUME ShutdownTypeOK, ServerTypeOK', [ShutdownNext]_allVars
      PROVE  ShutdownTypeOK'
  <2>. USE DEF ShutdownTypeOK, PhasesOfExit, Outcomes
  <2>1. CASE Meanwhile /\ UNCHANGED shutdownVars
    BY <1>2, <2>1 DEF shutdownVars
  <2>2. ASSUME NEW c \in Chains, SaveStepMeanwhile(c)
        PROVE  ShutdownTypeOK'
    BY <1>2, <2>2 DEF SaveStepMeanwhile
  <2>3. CASE Signal
    <3>1. held' \in SUBSET Edits
      BY <1>2, <2>3 DEF Signal, ServerTypeOK, TypeOK
    <3>2. flushed' \in Sessions \cup {None}
      BY <1>2, <2>3 DEF Signal, ServerTypeOK
    <3> QED
      BY <1>2, <2>3, <3>1, <3>2, FlushAllType DEF Signal
  <2>4. CASE DestroySessions \/ RedisQuits
    BY <1>2, <2>4 DEF DestroySessions, RedisQuits
  <2>5. CASE ServerClosed \/ ForceExit
    BY <1>2, <2>5 DEF ServerClosed, ForceExit, Exit
  <2>6. CASE Boot
    BY <1>2, <2>6 DEF Boot
  <2>7. CASE UNCHANGED allVars
    BY <1>2, <2>7 DEF allVars, shutdownVars
  <2> QED
    BY <1>2, <2>1, <2>2, <2>3, <2>4, <2>5, <2>6, <2>7 DEF ShutdownNext
<1> QED
  BY <1>1, <1>2, ServerInShutdown, PTL DEF ShutdownSpec

-----------------------------------------------------------------------------
(* Callers of the service start a save on a free chain only, so they leave   *)
(* the writes under way alone.                                               *)
LEMMA CallersKeepWrites ==
  ASSUME TypeOK, [CallerStep]_persistVars, NEW d \in Chains, InFlight(d)
  PROVE  chain'[d] = chain[d]
<1>1. ASSUME NEW s \in Sessions, FlushPendingSave(s)
      PROVE  chain'[d] = chain[d]
  <2>1. PICK c \in Chains : chain[c].phase = "free" /\ ExecuteSave(c, s, 1)
    BY <1>1 DEF FlushPendingSave
  <2>2. c # d
    BY <2>1 DEF InFlight
  <2> QED
    BY <2>1, <2>2, ExecuteSaveType
<1>2. ASSUME NEW s \in Sessions, DestroyDoc(s) \/ \E es \in SUBSET Edits : ApplyUpdate(s, es)
      PROVE  chain'[d] = chain[d]
  BY <1>2 DEF DestroyDoc, ApplyUpdate
<1>3. UNCHANGED persistVars => chain'[d] = chain[d]
  BY DEF persistVars
<1> QED
  BY <1>1, <1>2, <1>3 DEF CallerStep, DebounceFires

(* A save chain leaves the writes of the others alone: what a success stops  *)
(* is a waiting retry, for the retry slot holds nothing else.                *)
LEMMA ChainsKeepWrites ==
  ASSUME TypeOK, RetrySlotArmed, NEW c \in Chains, ChainStep(c),
         NEW d \in Chains \ {c}, InFlight(d)
  PROVE  chain'[d] = chain[d]
<1>1. d # pendingRetry
  BY NoneAssumption DEF RetrySlotArmed, InFlight
<1>2. ASSUME RetryFires(c)
      PROVE  chain'[d] = chain[d]
  <2>1. chain[c].session \in Sessions /\ chain[c].attempt + 1 \in Nat
    BY <1>2 DEF TypeOK, RetryFires, SaveChain
  <2> QED
    BY <1>2, <2>1, ExecuteSaveType DEF RetryFires, NextAttempt
<1>3. SaveSucceeds(c) => chain'[d] = chain[d]
  BY <1>1 DEF SaveSucceeds
<1>4. DbCommit(c) \/ SaveFails(c) => chain'[d] = chain[d]
  BY DEF DbCommit, SaveFails, TypeOK
<1> QED
  BY <1>2, <1>3, <1>4 DEF ChainStep

(* Documents only grow while the process runs.                               *)
LEMMA DocumentsGrow ==
  ASSUME TypeOK, NEW s \in Sessions,
         [CallerStep]_persistVars \/ \E c \in Chains : ChainStep(c)
  PROVE  doc[s] \subseteq doc'[s]
<1>1. ASSUME NEW r \in Sessions, NEW es \in SUBSET Edits, ApplyUpdate(r, es)
      PROVE  doc[s] \subseteq doc'[s]
  BY <1>1 DEF ApplyUpdate, TypeOK
<1>2. ASSUME NEW r \in Sessions, DestroyDoc(r) \/ FlushPendingSave(r) \/ DebounceFires(r)
      PROVE  doc' = doc
  BY <1>2 DEF DestroyDoc, FlushPendingSave, DebounceFires
<1>3. ASSUME NEW c \in Chains, ChainStep(c)
      PROVE  doc' = doc
  BY <1>3 DEF ChainStep, DbCommit, SaveSucceeds, SaveFails, RetryFires
<1>4. UNCHANGED persistVars => doc' = doc
  BY DEF persistVars
<1> QED
  BY <1>1, <1>2, <1>3, <1>4 DEF CallerStep

(* What a live session holds, and is saved but for exposed edits, stays so:  *)
(* a row that lacks some of it is one whose write passed it by.              *)
LEMMA SavedStaysSaved ==
  ASSUME TypeOK, DurableInv, NEW s \in Sessions, Live(s),
         [CallerStep]_persistVars \/ \E c \in Chains : ChainStep(c),
         NEW E \in SUBSET doc[s], E \ snapshot \subseteq exposed
  PROVE  E \ snapshot' \subseteq exposed'
<1>1. ASSUME NEW c \in Chains, DbCommit(c)
      PROVE  E \ snapshot' \subseteq exposed'
  BY <1>1 DEF DbCommit, DurableInv, InFlight, CarriesUnexposed
<1>2. ASSUME snapshot' = snapshot, exposed \subseteq exposed'
      PROVE  E \ snapshot' \subseteq exposed'
  BY <1>2
<1>3. ASSUME NEW c \in Chains, SaveSucceeds(c) \/ SaveFails(c) \/ RetryFires(c)
      PROVE  snapshot' = snapshot /\ exposed \subseteq exposed'
  BY <1>3 DEF SaveSucceeds, SaveFails, RetryFires, ExecuteSave
<1>4. ASSUME NEW r \in Sessions, FlushPendingSave(r) \/ DebounceFires(r)
      PROVE  snapshot' = snapshot /\ exposed \subseteq exposed'
  BY <1>4 DEF DebounceFires, FlushPendingSave, ExecuteSave
<1>5. ASSUME NEW r \in Sessions, DestroyDoc(r) \/ \E es \in SUBSET Edits : ApplyUpdate(r, es)
      PROVE  snapshot' = snapshot /\ exposed \subseteq exposed'
  BY <1>5 DEF DestroyDoc, ApplyUpdate
<1>6. UNCHANGED persistVars => snapshot' = snapshot /\ exposed \subseteq exposed'
  BY DEF persistVars
<1> QED
  BY <1>1, <1>2, <1>3, <1>4, <1>5, <1>6 DEF CallerStep, ChainStep

-----------------------------------------------------------------------------
(* What FlushSaves needs to be inductive: the flush is awaited in its own    *)
(* phase only, the chain it waits for is a write of the flushed session, and *)
(* that session's document still holds what it held at the signal.           *)
FlushInv ==
  /\ AwaitsAWrite
  /\ flushing # None => phase = "flushing"
  /\ phase = "flushing" /\ flushed # None => held \subseteq doc[flushed]
  /\ FlushSaves

(* All that a step of a running shutdown relies on. *)
Known == ShutdownTypeOK /\ RetrySlotArmed /\ DurableInv /\ FlushInv

(* The signal: the flush is a write of the registered session that carries   *)
(* its document, or there is nothing to flush.                               *)
LEMMA SignalFlushes ==
  ASSUME Known, Signal
  PROVE  FlushInv'
<1> USE NoneAssumption
<1>. DEFINE r == registered
<1>1. /\ phase' = "flushing" /\ flushed' = r
      /\ TypeOK /\ r \in Sessions \cup {None}
  BY DEF Known, ShutdownTypeOK, ServerTypeOK, Signal
<1>2. doc' = doc /\ destroyed' = destroyed
  BY DEF Signal, FlushAll, FlushPendingSave, persistVars
<1>3. flushed' # None => held' = doc[r]
  BY <1>1 DEF Signal
<1>4. CASE r # None /\ isDirty[r]
  <2>1. PICK c \in Chains : /\ chain[c].phase = "free"
                            /\ chain'[c].phase # "free"
                            /\ flushing' = c
    BY <1>4 DEF Signal, FlushAll
  <2>2. PICK d \in Chains : chain[d].phase = "free" /\ ExecuteSave(d, r, 1)
    BY <1>4 DEF Signal, FlushAll, FlushPendingSave
  <2>3. c = d
    BY <1>1, <1>4, <2>1, <2>2, ExecuteSaveType
  <2>4. chain'[c].phase = "writing" /\ chain'[c].session = r
    BY <1>1, <1>4, <2>2, <2>3 DEF ExecuteSave, TypeOK
  <2>5. outcome' = "pending"
    BY <1>4 DEF Signal, FlushAll
  <2> QED
    BY <1>1, <1>2, <1>3, <2>1, <2>4, <2>5 DEF FlushInv, AwaitsAWrite, FlushSaves, InFlight
<1>5. CASE ~(r # None /\ isDirty[r])
  <2>1. flushing' = None /\ UNCHANGED persistVars
    BY <1>5 DEF Signal, FlushAll
  <2>2. ASSUME r # None, Live(r)
        PROVE  doc[r] \ snapshot \subseteq exposed
    BY <1>1, <1>5, <2>2 DEF Known, DurableInv, DurableUnlessExposed
  <2> QED
    BY <1>1, <1>2, <1>3, <2>1, <2>2 DEF FlushInv, AwaitsAWrite, FlushSaves, Live, persistVars
<1> QED
  BY <1>4, <1>5

(* A step that keeps the shutdown's own state and the awaited write.         *)
LEMMA FlushGoesOn ==
  ASSUME Known, UNCHANGED <<phase, flushing, outcome, flushed, held>>,
         [CallerStep]_persistVars \/ \E c \in Chains : ChainStep(c),
         flushing # None => chain'[flushing].session = flushed /\ InFlight(flushing)'
  PROVE  FlushInv'
<1>1. TypeOK /\ DurableInv /\ flushed \in Sessions \cup {None}
  BY DEF Known, ShutdownTypeOK, ServerTypeOK
<1>2. AwaitsAWrite' /\ (flushing' # None => phase' = "flushing")
  BY DEF Known, FlushInv, AwaitsAWrite, InFlight
<1>3. ASSUME phase = "flushing", flushed # None
      PROVE  held \subseteq doc[flushed] /\ held \subseteq doc'[flushed]
  BY <1>1, <1>3, DocumentsGrow DEF Known, FlushInv
<1>4. ASSUME phase = "flushing", outcome = "saved", flushed # None, Live(flushed)'
      PROVE  held \ snapshot' \subseteq exposed'
  <2>1. Live(flushed)
    <3>1. \A s \in Sessions : Live(s)' => Live(s)
      BY <1>1 DEF CallerStep, ChainStep, ApplyUpdate, DestroyDoc, FlushPendingSave, DebounceFires,
             DbCommit, SaveSucceeds, SaveFails, RetryFires, persistVars, Live, TypeOK
    <3> QED
      BY <1>1, <1>4, <3>1
  <2>2. held \ snapshot \subseteq exposed
    BY <1>4, <2>1 DEF Known, FlushInv, FlushSaves
  <2> QED
    BY <1>1, <1>3, <1>4, <2>1, <2>2, SavedStaysSaved
<1> QED
  BY <1>2, <1>3, <1>4 DEF FlushInv, FlushSaves, Live

(* A step of a save chain: the awaited one resolves the flush when its       *)
(* attempt ends, and a success means that its session's document is saved.   *)
LEMMA SaveStepFlushes ==
  ASSUME Known, NEW c \in Chains, SaveStepMeanwhile(c)
  PROVE  FlushInv'
<1>1. /\ TypeOK /\ RetrySlotArmed /\ DurableInv /\ ChainStep(c)
      /\ flushing \in Chains \cup {None} /\ flushed \in Sessions \cup {None}
      /\ UNCHANGED <<phase, flushed, held>>
  BY DEF Known, ShutdownTypeOK, ServerTypeOK, SaveStepMeanwhile, SaveStep
<1>2. flushing # None => InFlight(flushing) /\ chain[flushing].session = flushed
  BY DEF Known, FlushInv, AwaitsAWrite
<1>3. CASE UNCHANGED <<flushing, outcome>> /\ c # flushing
  <2>1. flushing # None => chain'[flushing] = chain[flushing]
    BY <1>1, <1>2, <1>3, ChainsKeepWrites
  <2> QED
    BY <1>1, <1>2, <1>3, <2>1, FlushGoesOn DEF InFlight
<1>4. CASE UNCHANGED <<flushing, outcome>> /\ c = flushing /\ DbCommit(c)
  <2>1. chain'[c].phase = "committed" /\ chain'[c].session = chain[c].session
    BY <1>1, <1>4 DEF DbCommit, TypeOK, SaveChain
  <2> QED
    BY <1>1, <1>2, <1>4, <2>1, FlushGoesOn DEF InFlight
<1>5. CASE c = flushing /\ ~DbCommit(c) /\ flushing' = None
           /\ outcome' = (IF SaveSucceeds(c) THEN "saved" ELSE "failed")
  <2>1. phase = "flushing" /\ chain[c].session = flushed /\ flushed \in Sessions
    BY <1>1, <1>2, <1>5, NoneAssumption DEF Known, FlushInv, InFlight, TypeOK
  <2>2. held \subseteq doc[flushed] /\ doc' = doc
    BY <1>1, <2>1, NoneAssumption
       DEF Known, FlushInv, ChainStep, DbCommit, SaveSucceeds, SaveFails, RetryFires
  <2>3. ASSUME outcome' = "saved", Live(flushed)'
        PROVE  held \ snapshot' \subseteq exposed'
    <3>1. SaveSucceeds(c)
      BY <1>5, <2>3
    <3>2. CommittedIsDurable(c) /\ UNCHANGED <<destroyed, snapshot, exposed>>
      BY <1>1, <3>1 DEF DurableInv, SaveSucceeds
    <3> QED
      BY <1>1, <2>1, <2>2, <2>3, <3>1, <3>2 DEF CommittedIsDurable, SaveSucceeds, Live
  <2> QED
    BY <1>1, <1>5, <2>1, <2>2, <2>3 DEF FlushInv, AwaitsAWrite, FlushSaves
<1> QED
  BY <1>3, <1>4, <1>5 DEF SaveStepMeanwhile

(* Every step of the process keeps the invariant of the flush. *)
LEMMA FlushStep ==
  ASSUME Known, [ShutdownNext]_allVars
  PROVE  FlushInv'
<1>1. ServerTypeOK /\ TypeOK /\ flushing \in Chains \cup {None}
  BY DEF Known, ShutdownTypeOK, ServerTypeOK
<1>2. CASE Meanwhile /\ UNCHANGED shutdownVars
  <2>1. [CallerStep]_persistVars
    BY <1>1, <1>2, MeanwhileIsWork, WorkRefines
  <2>2. flushing # None => InFlight(flushing) /\ chain[flushing].session = flushed
    BY DEF Known, FlushInv, AwaitsAWrite
  <2>3. flushing # None => chain'[flushing] = chain[flushing]
    BY <1>1, <2>1, <2>2, CallersKeepWrites
  <2> QED
    BY <1>2, <2>1, <2>2, <2>3, FlushGoesOn DEF shutdownVars, InFlight
<1>3. ASSUME NEW c \in Chains, SaveStepMeanwhile(c)
      PROVE  FlushInv'
  BY <1>3, SaveStepFlushes
<1>4. CASE Signal
  BY <1>4, SignalFlushes
<1>5. ASSUME phase' # "flushing", flushing' = None
      PROVE  FlushInv'
  BY <1>5 DEF FlushInv, AwaitsAWrite, FlushSaves
<1>6. DestroySessions \/ Boot => phase' # "flushing" /\ flushing' = None
  BY DEF DestroySessions, Boot
<1>7. RedisQuits \/ ServerClosed \/ ForceExit => phase' # "flushing" /\ flushing' = None
  BY DEF RedisQuits, ServerClosed, ForceExit, Exit, Known, FlushInv
<1>8. CASE UNCHANGED allVars
  BY <1>8 DEF allVars, shutdownVars, vars, persistVars, Known, FlushInv, AwaitsAWrite,
              FlushSaves, InFlight, Live
<1> QED
  BY <1>2, <1>3, <1>4, <1>5, <1>6, <1>7, <1>8 DEF ShutdownNext

LEMMA FlushInvariant == ShutdownSpec => []FlushInv
<1>1. ShutdownInit => FlushInv
  BY DEF ShutdownInit, FlushInv, AwaitsAWrite, FlushSaves
<1>2. Known /\ [ShutdownNext]_allVars => FlushInv'
  BY FlushStep
<1>3. ShutdownTypeOK /\ RetrySlotArmed /\ DurableInv /\ FlushInv => Known
  BY DEF Known
<1> QED
  BY <1>1, <1>2, <1>3, ShutdownTypeCorrect, ShutdownRefinesPersistence, RetrySlotCorrect,
     DurableInvariant, PTL DEF ShutdownSpec

(* What the shutdown waits for is a write under way: no success, failure or  *)
(* retry of another chain ever leaves it waiting for nothing.                *)
THEOREM WaitsForAWrite == ShutdownSpec => []AwaitsAWrite
<1>1. FlushInv => AwaitsAWrite
  BY DEF FlushInv
<1> QED
  BY <1>1, FlushInvariant, PTL

(* A successful flush has saved what its session held at the signal, but     *)
(* edits that a write in flight passed by, and that stays so as long as the  *)
(* session is there (index.ts lines 126-127).                                *)
THEOREM FlushCorrect == ShutdownSpec => []FlushSaves
<1>1. FlushInv => FlushSaves
  BY DEF FlushInv
<1> QED
  BY <1>1, FlushInvariant, PTL
=============================================================================
