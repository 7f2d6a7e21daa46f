--------------------------- MODULE RoomPersistence ---------------------------
(***************************************************************************)
(* How one backend node keeps the newest database snapshot of one room in  *)
(* step with the document its sessions hold in memory: the debounce and    *)
(* retry timers of RoomPersistenceService and the writes they start.       *)
(*                                                                         *)
(* The service keeps its timers in maps keyed by the ROOM, while every     *)
(* timer closes over a SESSION.  A room may have several sessions at a     *)
(* time (an evicted one with saves still pending beside its successor, or  *)
(* two created by concurrent first joins), so Sessions is a set.  Rooms do *)
(* not share any state of the service: one room stands for all.            *)
(*                                                                         *)
(* A document is the set of the edits it has merged (Yjs documents merge   *)
(* by union).  An executeSave call, from its first statement to the last   *)
(* retry it arms, is a save chain, carried by a member of Chains.          *)
(***************************************************************************)
EXTENDS Integers, FiniteSets

CONSTANTS
  Sessions,        \* RoomSession objects of the room
  Edits,           \* document updates
  Chains,          \* BOUND: save chains that can be under way at a time
  MaxSaveRetries,  \* CONFIG.MAX_SAVE_RETRIES
  None             \* no session, no chain

ASSUME NoneAssumption == None \notin Sessions \cup Chains
ASSUME MaxSaveRetriesAssumption == MaxSaveRetries \in Nat

VARIABLES
  doc,             \* doc[s]: the edits in session s's Y.Doc
  destroyed,       \* destroyed[s]: s.doc.destroy() ran, its listeners are gone
  isDirty,         \* isDirty[s]: RoomSession.isDirty
  pendingDebounce, \* the session the room's debounce timer closes over
  pendingRetry,    \* the chain whose retry timer pendingRetryTimers holds
  chain,           \* chain[c]: where the save chain c stands
  snapshot,        \* the edits of the newest CodeSnapshot row of the room
  exposed          \* history: edits a write passed by, until they are saved

persistVars == <<doc, destroyed, isDirty, pendingDebounce, pendingRetry,
                 chain, snapshot, exposed>>

-----------------------------------------------------------------------------
(* "writing": saveSnapshot is awaited and its row is not there yet;          *)
(* "committed": the row is there, the answer is on its way; "backoff": the   *)
(* attempt failed and a retry timer is armed.                                *)
Phases == {"free", "writing", "committed", "backoff"}

SaveChain == [phase : Phases, session : Sessions \cup {None},
              attempt : Nat, state : SUBSET Edits]

FreeChain == [phase |-> "free", session |-> None, attempt |-> 0, state |-> {}]

InFlight(c) == chain[c].phase \in {"writing", "committed"}

Live(s) == ~destroyed[s]

(* The edits some live session holds. *)
LiveEdits == UNION {doc[s] : s \in {r \in Sessions : Live(r)}}

(* Something is still going to save s: the debounce timer or a chain. *)
Covered(s) ==
  \/ pendingDebounce = s
  \/ \E c \in Chains : chain[c].phase # "free" /\ chain[c].session = s

-----------------------------------------------------------------------------
PersistInit ==
  /\ doc = [s \in Sessions |-> {}]
  /\ destroyed = [s \in Sessions |-> FALSE]
  /\ isDirty = [s \in Sessions |-> FALSE]
  /\ pendingDebounce = None
  /\ pendingRetry = None
  /\ chain = [c \in Chains |-> FreeChain]
  /\ snapshot = {}
  /\ exposed = {}

(* The update listener of a live session calls scheduleDebouncedSave: the    *)
(* session is dirty, and the room's timer now closes over this session.      *)
ScheduleDebouncedSave(s) ==
  /\ isDirty' = [isDirty EXCEPT ![s] = TRUE]
  /\ pendingDebounce' = s

(* Edits es reach the document of s, from a client, another node or          *)
(* hydration.  Yjs emits 'update' only when something is new, and a          *)
(* destroyed document has no listener left.                                  *)
ApplyUpdate(s, es) ==
  /\ ~ es \subseteq doc[s]
  /\ doc' = [doc EXCEPT ![s] = @ \cup es]
  /\ IF Live(s)
       THEN /\ ScheduleDebouncedSave(s)
            /\ exposed' = exposed \cup {e \in es : \E c \in Chains :
                                         InFlight(c) /\ e \notin chain[c].state}
       ELSE UNCHANGED <<isDirty, pendingDebounce, exposed>>
  /\ UNCHANGED <<destroyed, pendingRetry, chain, snapshot>>

(* RoomSession.destroy: no timer of the service is touched, nothing is saved. *)
DestroyDoc(s) ==
  /\ Live(s)
  /\ destroyed' = [destroyed EXCEPT ![s] = TRUE]
  /\ UNCHANGED <<doc, isDirty, pendingDebounce, pendingRetry, chain, snapshot,
                 exposed>>

(* executeSave(s, attempt) on chain c, up to the await: nothing for a clean  *)
(* session, otherwise the document as it is NOW is encoded and sent.         *)
ExecuteSave(c, s, attempt) ==
  IF isDirty[s]
    THEN /\ chain' = [chain EXCEPT ![c] = [phase |-> "writing", session |-> s,
                                           attempt |-> attempt, state |-> doc[s]]]
         /\ exposed' = exposed \cup (LiveEdits \ doc[s])
    ELSE /\ chain' = [chain EXCEPT ![c] = FreeChain]
         /\ UNCHANGED exposed

(* flushPendingSave: clears the ROOM's debounce timer, whoever armed it, and *)
(* leaves retry timers alone.                                                *)
FlushPendingSave(s) ==
  /\ pendingDebounce' = None
  /\ \E c \in Chains : chain[c].phase = "free" /\ ExecuteSave(c, s, 1)
  /\ UNCHANGED <<doc, destroyed, isDirty, pendingRetry, snapshot>>

DebounceFires(s) ==
  /\ pendingDebounce = s
  /\ FlushPendingSave(s)

(* The row of chain c is inserted and is the newest of the room.  What it    *)
(* holds is exposed no more, unless a write still under way lacks it.        *)
DbCommit(c) ==
  /\ chain[c].phase = "writing"
  /\ chain' = [chain EXCEPT ![c].phase = "committed"]
  /\ snapshot' = chain[c].state
  /\ exposed' = exposed \ {e \in chain[c].state : \A d \in Chains :
                             chain[d].phase = "writing" => e \in chain[d].state}
  /\ UNCHANGED <<doc, destroyed, isDirty, pendingDebounce, pendingRetry>>

(* saveSnapshot resolved.  isDirty is cleared whatever happened to the       *)
(* document meanwhile, and so is the tracked retry timer of the room.        *)
SaveSucceeds(c) ==
  /\ chain[c].phase = "committed"
  /\ isDirty' = [isDirty EXCEPT ![chain[c].session] = FALSE]
  /\ chain' = [d \in Chains |->
                 IF d = c \/ d = pendingRetry THEN FreeChain ELSE chain[d]]
  /\ pendingRetry' = None
  /\ UNCHANGED <<doc, destroyed, pendingDebounce, snapshot, exposed>>

(* Is another attempt to be made after the one that failed? *)
RetriesLeftWrong(c) == chain[c].attempt < MaxSaveRetries  \* a wrong version
RetriesLeft(c) == chain[c].attempt <= MaxSaveRetries

(* A wrong version of SaveFails: a failure taken for a success. *)
SaveFailsForgets(c) ==
  /\ InFlight(c)
  /\ isDirty' = [isDirty EXCEPT ![chain[c].session] = FALSE]
  /\ chain' = [chain EXCEPT ![c] = FreeChain]
  /\ UNCHANGED <<doc, destroyed, pendingDebounce, pendingRetry, snapshot, exposed>>

(* saveSnapshot threw: the database refused the write, or the row is there   *)
(* and the answer was lost.  The new retry timer takes the room's slot; the  *)
(* timer that was there stays armed and is no longer tracked.                *)
SaveFails(c) ==
  /\ InFlight(c)
  /\ IF RetriesLeft(c)
       THEN /\ chain' = [chain EXCEPT ![c].phase = "backoff", ![c].state = {}]
            /\ pendingRetry' = c
       ELSE /\ chain' = [chain EXCEPT ![c] = FreeChain]
            /\ UNCHANGED pendingRetry
  /\ UNCHANGED <<doc, destroyed, isDirty, pendingDebounce, snapshot, exposed>>

NextAttemptWrong(c) == chain[c].attempt  \* a wrong version
NextAttempt(c) == chain[c].attempt + 1

(* A wrong version of RetryFires: the slot still holds the timer that fired. *)
RetryFiresTracked(c) ==
  /\ chain[c].phase = "backoff"
  /\ ExecuteSave(c, chain[c].session, NextAttempt(c))
  /\ UNCHANGED <<doc, destroyed, isDirty, pendingDebounce, pendingRetry, snapshot>>

(* A retry timer fires and empties the room's slot, whoever is in it. *)
RetryFires(c) ==
  /\ chain[c].phase = "backoff"
  /\ pendingRetry' = None
  /\ ExecuteSave(c, chain[c].session, NextAttempt(c))
  /\ UNCHANGED <<doc, destroyed, isDirty, pendingDebounce, snapshot>>

(* The process dies and comes back: only the database survives. *)
Restart ==
  /\ doc' = [s \in Sessions |-> {}]
  /\ destroyed' = [s \in Sessions |-> FALSE]
  /\ isDirty' = [s \in Sessions |-> FALSE]
  /\ pendingDebounce' = None
  /\ pendingRetry' = None
  /\ chain' = [c \in Chains |-> FreeChain]
  /\ exposed' = {}
  /\ UNCHANGED snapshot

(* What timers and the database do on their own. *)
ChainStep(c) ==
  \/ DbCommit(c)
  \/ SaveSucceeds(c)
  \/ SaveFails(c)
  \/ RetryFires(c)

PersistNext ==
  \/ \E s \in Sessions, es \in SUBSET Edits : ApplyUpdate(s, es)
  \/ \E s \in Sessions : DestroyDoc(s)
  \/ \E s \in Sessions : FlushPendingSave(s)
  \/ \E s \in Sessions : DebounceFires(s)
  \/ \E c \in Chains : ChainStep(c)
  \/ Restart

(* Armed timers fire, and an awaited database call returns or throws.        *)
PersistFairness ==
  /\ \A s \in Sessions : WF_persistVars(DebounceFires(s))
  /\ \A c \in Chains : WF_persistVars(ChainStep(c))

PersistSpec == PersistInit /\ [][PersistNext]_persistVars
FairPersistSpec == PersistSpec /\ PersistFairness

-----------------------------------------------------------------------------
TypeOK ==
  /\ doc \in [Sessions -> SUBSET Edits]
  /\ destroyed \in [Sessions -> BOOLEAN]
  /\ isDirty \in [Sessions -> BOOLEAN]
  /\ pendingDebounce \in Sessions \cup {None}
  /\ pendingRetry \in Chains \cup {None}
  /\ chain \in [Chains -> SaveChain]
  /\ \A c \in Chains : chain[c].phase # "free" => chain[c].session \in Sessions
  /\ snapshot \in SUBSET Edits
  /\ exposed \in SUBSET Edits

(* The room's retry slot always holds a timer that is armed: so the success  *)
(* path, which stops the chain in the slot, stops a waiting retry and never  *)
(* a write under way (executeSave, lines 121-126).                           *)
RetrySlotArmed ==
  pendingRetry # None => chain[pendingRetry].phase = "backoff"

(* A live session that calls itself clean lacks nothing in the database but  *)
(* edits that some write in flight passed by and none has saved for good     *)
(* since: no failure, lost answer, retry, flush, second session or restart   *)
(* can make it forget any other ("DO NOT clear isDirty until successful      *)
(* write!", executeSave line 116).                                           *)
DurableUnlessExposed ==
  \A s \in Sessions : Live(s) /\ ~isDirty[s] => doc[s] \ snapshot \subseteq exposed

(* The steps of session r that touch the room's timers. *)
StepOf(r) ==
  \/ \E es \in SUBSET Edits : ApplyUpdate(r, es)
  \/ FlushPendingSave(r)
  \/ \E c \in Chains : chain[c].session = r /\ SaveSucceeds(c)

(* The last attempt of a chain of s fails: executeSave gives up (149-153). *)
GivesUp(s) ==
  \E c \in Chains : /\ chain[c].session = s
                    /\ chain[c].attempt > MaxSaveRetries
                    /\ SaveFails(c)

KeepsCover ==
  \A s \in Sessions :
    (isDirty[s] => Covered(s)) /\ isDirty'[s] /\ ~Covered(s)'
      => GivesUp(s) \/ \E r \in Sessions \ {s} : StepOf(r)

(* A session with something to save keeps a timer or a write for it until    *)
(* its attempt number MaxSaveRetries + 1 has failed, unless another session  *)
(* of the room takes the shared timer slot away (executeSave, 137-153).      *)
DirtyStaysCovered == [][KeepsCover]_persistVars

(* Every save chain ends: it succeeds, gives up, or finds nothing to save    *)
(* (the retries of executeSave are bounded).                                 *)
SaveChainsEnd ==
  \A c \in Chains : (chain[c].phase # "free") ~> (chain[c].phase = "free")

(* In a room with one session, unsaved edits that a timer or a write covers  *)
(* are saved, or the session gets to its last attempt: no interleaving of    *)
(* edits, flushes and retries drops them earlier.                            *)
OnLastAttempt(s) ==
  \E c \in Chains : /\ chain[c].session = s
                    /\ InFlight(c)
                    /\ chain[c].attempt > MaxSaveRetries

SavedOrLastAttempt ==
  \A s \in Sessions :
    isDirty[s] /\ Covered(s) ~> (~isDirty[s] \/ OnLastAttempt(s))

(* What "a debounced background snapshot save (10s idle)" (line 64) promises: *)
(* when every timer of a live session has fired and no write is under way,   *)
(* the database holds its document, or the session is still marked dirty.    *)
SettledMeansSaved ==
  \A s \in Sessions :
    Live(s) /\ ~isDirty[s] /\ ~Covered(s) => doc[s] \subseteq snapshot
=============================================================================
