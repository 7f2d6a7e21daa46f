--------------------------- MODULE SharedDocument ---------------------------
(***************************************************************************)
(* What the Yjs documents of one room promise together, wherever they are: *)
(* every edit in a copy was written by somebody, and a copy never loses an *)
(* edit as long as it is in use.  RoomSync (browsers and sessions) and     *)
(* RoomRelay (sessions on several nodes) implement it.                     *)
(***************************************************************************)
CONSTANTS
  Replicas,  \* the copies of the room's document
  Edits      \* document updates

VARIABLES
  copy,      \* copy[r]: the edits that copy r has merged
  inUse,     \* the copies there are
  written    \* the edits somebody made

sharedVars == <<copy, inUse, written>>

Init ==
  /\ written \in SUBSET Edits
  /\ copy = [r \in Replicas |-> {}]
  /\ inUse = {}

(* A user makes the edit e, in copy r or where r hears of it first. *)
Write(r, e) ==
  /\ r \in inUse
  /\ e \notin copy[r]
  /\ copy' = [copy EXCEPT ![r] = @ \cup {e}]
  /\ written' = written \cup {e}
  /\ UNCHANGED inUse

(* Copy r merges edits that it heard of. *)
Merge(r, E) ==
  /\ r \in inUse
  /\ E \subseteq written
  /\ copy' = [copy EXCEPT ![r] = @ \cup E]
  /\ UNCHANGED <<inUse, written>>

(* A new copy is made, empty. *)
Create(r) ==
  /\ inUse' = inUse \cup {r}
  /\ UNCHANGED <<copy, written>>

(* The copies R are thrown away, and may be made again. *)
Discard(R) ==
  /\ inUse' = inUse \ R
  /\ copy' = [r \in Replicas |-> IF r \in R THEN {} ELSE copy[r]]
  /\ UNCHANGED written

Next ==
  \/ \E r \in Replicas, e \in Edits : Write(r, e)
  \/ \E r \in Replicas, E \in SUBSET Edits : Merge(r, E)
  \/ \E r \in Replicas : Create(r)
  \/ \E R \in SUBSET Replicas : Discard(R)

Spec == Init /\ [][Next]_sharedVars
=============================================================================
