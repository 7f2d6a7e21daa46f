------------------------------ MODULE Shutdown ------------------------------
(***************************************************************************)
(* How the backend process ends: gracefulShutdown of index.ts on top of    *)
(* RoomServer.  It stops new connections, flushes the dirty room, destroys *)
(* the registered session, waits for Redis, closes the HTTP server and     *)
(* exits; what it awaits leaves room for everything that goes on besides:  *)
(* edits, hydrations, timers, and other rooms' flushes.                    *)
(***************************************************************************)
EXTENDS RoomServer

VARIABLES
  phase,     \* how far gracefulShutdown got
  flushing,  \* the save chain it awaits for this room, or None
  outcome,   \* of that chain's attempt
  flushed,   \* history: the session registered at the signal, or None
  held       \* history: its edits at the signal

shutdownVars == <<phase, flushing, outcome, flushed, held>>
allVars == <<vars, shutdownVars>>

(* "flushing": flushAllSessionsAsync is awaited; "quitting": disconnectAll;  *)
(* "closing": server.close was called and the timer of five seconds runs.    *)
PhasesOfExit == {"running", "flushing", "quitting", "closing", "exited"}

Outcomes == {"pending", "saved", "failed"}

ShutdownInit ==
  /\ ServerInit
  /\ phase = "running"
  /\ flushing = None
  /\ outcome = "pending"
  /\ flushed = None
  /\ held = {}

-----------------------------------------------------------------------------
(* A wrong version of FlushAll: the write is not awaited. *)
FlushAllForgets ==
  /\ flushing' = None
  /\ outcome' = "saved"
  /\ IF registered # None /\ isDirty[registered]
       THEN FlushPendingSave(registered)
       ELSE UNCHANGED persistVars

(* flushAll: a dirty session is flushed, and the first attempt is awaited. *)
FlushAll ==
  IF registered # None /\ isDirty[registered]
    THEN /\ FlushPendingSave(registered)
         /\ \E c \in Chains : /\ chain[c].phase = "free"
                              /\ chain'[c].phase # "free"
                              /\ flushing' = c
         /\ outcome' = "pending"
    ELSE /\ flushing' = None
         /\ outcome' = "saved"
         /\ UNCHANGED persistVars

(* SIGINT or SIGTERM: wss.close takes no more connections and leaves those   *)
(* there are alone.                                                          *)
Signal ==
  /\ phase = "running"
  /\ phase' = "flushing"
  /\ flushed' = registered
  /\ held' = IF registered = None THEN {} ELSE doc[registered]
  /\ FlushAll
  /\ UNCHANGED serverVars

(* A step of a save chain.  The flush resolves with its first attempt, be it *)
(* a success or a failure: executeSave catches the exception.                *)
SaveStepMeanwhile(c) ==
  /\ SaveStep(c)
  /\ \/ /\ c # flushing \/ DbCommit(c)
        /\ UNCHANGED <<flushing, outcome>>
     \/ /\ c = flushing
        /\ ~DbCommit(c)
        /\ flushing' = None
        /\ outcome' = IF SaveSucceeds(c) THEN "saved" ELSE "failed"
  /\ UNCHANGED <<phase, flushed, held>>

(* The flush is over, of the other rooms too: what is registered now is      *)
(* removed and destroyed.                                                    *)
DestroySessions ==
  /\ phase = "flushing"
  /\ flushing = None
  /\ phase' = "quitting"
  /\ IF registered = None
       THEN UNCHANGED <<persistVars, clients, idleTimer, registered>>
       ELSE /\ DestroyDoc(registered)
            /\ clients' = [clients EXCEPT ![registered] = {}]
            /\ idleTimer' = [idleTimer EXCEPT ![registered] = FALSE]
            /\ registered' = None
  /\ UNCHANGED <<status, fetched, sock, flushing, outcome, flushed, held>>

(* disconnectAll resolves: every client library got its QUIT answered.       *)
RedisQuits ==
  /\ phase = "quitting"
  /\ phase' = "closing"
  /\ UNCHANGED <<vars, flushing, outcome, flushed, held>>

(* process.exit: only the database survives. *)
Exit ==
  /\ phase' = "exited"
  /\ ServerRestart
  /\ UNCHANGED <<flushing, outcome, flushed, held>>

(* The callback of server.close: no connection is left. *)
ServerClosed ==
  /\ phase = "closing"
  /\ \A w \in Sockets : sock[w].link \notin {"open", "closing"}
  /\ Exit

(* A wrong version of ForceExit: the timer waits for the connections, too. *)
ForceExitLate == ServerClosed

(* The timer of five seconds fires. *)
ForceExit ==
  /\ phase = "closing"
  /\ Exit

(* The process is started again, after an exit or a crash. *)
Boot ==
  /\ \/ phase = "exited" /\ UNCHANGED vars
     \/ phase # "exited" /\ ServerRestart
  /\ phase' = "running"
  /\ flushing' = None
  /\ outcome' = "pending"
  /\ flushed' = None
  /\ held' = {}

(* What goes on while the process runs.  wss.close stops upgrades, and the   *)
(* heartbeat when the last connection is gone; server.close stops requests.  *)
Meanwhile ==
  \/ phase = "running" /\ \E w \in Sockets : Connect(w)
  \/ phase # "closing" /\ ReviewRequest
  \/ \E s \in Sessions : HydrateReads(s)
  \/ \E s \in Sessions : HydrateDone(s)
  \/ \E w \in Sockets, e \in Edits : Edit(w, e)
  \/ \E w \in Sockets : SocketError(w)
  \/ \E w \in Sockets : SocketCloses(w)
  \/ \E w \in Sockets : Pong(w)
  \/ /\ phase = "running" \/ \E w \in Sockets : sock[w].link \in {"open", "closing"}
     /\ Heartbeat
  \/ \E s \in Sessions : IdleTimerFires(s)
  \/ \E s \in Sessions : SaveDebounced(s)

ShutdownNext ==
  \/ phase # "exited" /\ Meanwhile /\ UNCHANGED shutdownVars
  \/ phase # "exited" /\ \E c \in Chains : SaveStepMeanwhile(c)
  \/ Signal
  \/ DestroySessions
  \/ RedisQuits
  \/ ServerClosed
  \/ ForceExit
  \/ Boot

ShutdownSpec == ShutdownInit /\ [][ShutdownNext]_allVars

(* Awaited saves return or throw, timers fire, and the function goes on.     *)
(* Clients need not leave, and nothing is assumed of Redis here.             *)
ShutdownFairness ==
  /\ \A c \in Chains : WF_allVars(phase # "exited" /\ SaveStepMeanwhile(c))
  /\ WF_allVars(DestroySessions)
  /\ WF_allVars(ForceExit)

FairShutdownSpec == ShutdownSpec /\ ShutdownFairness

(* ... and with Redis there to answer. *)
FairShutdownSpecWithRedis == FairShutdownSpec /\ WF_allVars(RedisQuits)

-----------------------------------------------------------------------------
ShutdownTypeOK ==
  /\ ServerTypeOK
  /\ phase \in PhasesOfExit
  /\ flushing \in Chains \cup {None}
  /\ outcome \in Outcomes
  /\ flushed \in Sessions \cup {None}
  /\ held \in SUBSET Edits

(* A successful flush is what it says: as long as the session it flushed is  *)
(* there, the newest snapshot lacks nothing it held at the signal, but edits *)
(* that a write in flight passed by; whatever is typed, retried or saved by  *)
(* another session of the room while other rooms are still flushed.          *)
FlushSaves ==
  phase = "flushing" /\ outcome = "saved" /\ flushed # None
    => (Live(flushed) => held \ snapshot \subseteq exposed)

(* The write that the shutdown waits for is under way: it always ends.       *)
AwaitsAWrite == flushing # None => InFlight(flushing) /\ chain[flushing].session = flushed

(* A signalled process exits, as long as Redis answers: whoever is still     *)
(* connected, and however the database behaves.                              *)
ShutdownEnds == (phase = "flushing") ~> (phase \in {"exited", "running"})

(* "Flush pending snapshots to PostgreSQL for all dirty rooms before exit"   *)
(* (index.ts line 126): the process does not exit while the newest snapshot  *)
(* lacks what the room's session held at the signal (but the edits that a    *)
(* write in flight passed by).                                               *)
ExitSavesRoom ==
  [][phase # "exited" /\ phase' = "exited" => held \subseteq snapshot \cup exposed]_allVars

(* "Force exit if server shutdown takes too long (5 seconds timeout)"        *)
(* (index.ts line 143): a signalled process exits, whatever it waits for.    *)
ExitIsForced == ShutdownEnds
=============================================================================
