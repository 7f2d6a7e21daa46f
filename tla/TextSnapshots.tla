---------------------------- MODULE TextSnapshots ----------------------------
(***************************************************************************)
(* The two kinds of snapshot rows of a room and what they do to the        *)
(* identity of its text.  RoomPersistenceService stores the Yjs state with *)
(* the text; the REST route POST /api/rooms/:id/snapshots, and rows of     *)
(* before stateBytes, hold the text alone.  hydrateRoomState inserts such  *)
(* a text into the document as if somebody had typed it again: to Yjs      *)
(* these are new characters, whatever other copies hold.                   *)
(*                                                                         *)
(* A document is a set of pieces, a text and who inserted it.  One node    *)
(* with one session of the room at a time; the pages that are connected to *)
(* it have its document (RoomSync is about how they get it), the others    *)
(* keep what they had and give it to the session when they reconnect.      *)
(***************************************************************************)
EXTENDS Naturals

CONSTANTS
  Browsers,      \* pages of the room
  Texts,         \* pieces of text, all different
  MaxFallbacks,  \* BOUND: hydrations from text
  None           \* no row; a row without stateBytes

ASSUME BrowsersAssumption == Browsers \cap Nat = {}
ASSUME MaxFallbacksAssumption == MaxFallbacks \in Nat

VARIABLES
  row,        \* the newest snapshot row, or None
  live,       \* the room has a session
  doc,        \* the pieces in the session's Y.Doc
  connected,  \* the pages that are connected to the session
  text,       \* text[b]: the pieces in the Y.Doc of page b
  typed,      \* texts that somebody typed
  fallbacks,  \* BOUND: hydrations from text so far
  mixed       \* history: one of them met a page that had a copy already

snapshotVars == <<row, live, doc, connected, text, typed, fallbacks, mixed>>

-----------------------------------------------------------------------------
Pieces == [text : Texts, by : Browsers \cup 1 .. MaxFallbacks]

(* What a copy shows, as far as each text counts once. *)
Shown(pieces) == {p.text : p \in pieces}

Row == [content : SUBSET Texts, stateBytes : (SUBSET Pieces) \cup {None}]

TextRow(content) == [content |-> content, stateBytes |-> None]

SnapshotsInit ==
  /\ typed \in SUBSET Texts
  /\ row \in {None, TextRow(typed)}
  /\ row = None => typed = {}
  /\ live = FALSE
  /\ doc = {}
  /\ connected = {}
  /\ text = [b \in Browsers |-> {}]
  /\ fallbacks = 0
  /\ mixed = FALSE

-----------------------------------------------------------------------------
(* POST /api/rooms/:id/snapshots, with some of the room's text. *)
PostSnapshot(content) ==
  /\ content \subseteq typed
  /\ row' = TextRow(content)
  /\ UNCHANGED <<live, doc, connected, text, typed, fallbacks, mixed>>

(* executeSave succeeds: text and state of the session's document.           *)
Save ==
  /\ live
  /\ row' = [content |-> Shown(doc), stateBytes |-> doc]
  /\ UNCHANGED <<live, doc, connected, text, typed, fallbacks, mixed>>

(* yText.insert of the content of a row, into the pieces p. *)
Inserted(p, content) ==
  /\ fallbacks < MaxFallbacks
  /\ fallbacks' = fallbacks + 1
  /\ doc' = p \cup {[text |-> t, by |-> fallbacks + 1] : t \in content}
  /\ mixed' = (mixed \/ \E b \in Browsers : text[b] # {})

(* A wrong version of Hydrate: the text is inserted, too. *)
HydrateBoth ==
  /\ ~live
  /\ live' = TRUE
  /\ IF row = None
       THEN doc' = {} /\ UNCHANGED <<fallbacks, mixed>>
       ELSE Inserted(IF row.stateBytes = None THEN {} ELSE row.stateBytes, row.content)
  /\ UNCHANGED <<row, connected, text, typed>>

(* hydrateRoomState of a new session: the state if the row has it and it is  *)
(* not empty, else the text; nothing if there is neither or the query fails. *)
Hydrate ==
  /\ ~live
  /\ live' = TRUE
  /\ \/ /\ row # None
        /\ row.stateBytes # None
        /\ doc' = row.stateBytes
        /\ UNCHANGED <<fallbacks, mixed>>
     \/ /\ row # None
        /\ row.stateBytes = None
        /\ row.content # {}
        /\ Inserted({}, row.content)
     \/ doc' = {} /\ UNCHANGED <<fallbacks, mixed>>
  /\ UNCHANGED <<row, connected, text, typed>>

(* The session and the connected pages C come to hold the pieces p. *)
Shared(C, p) ==
  /\ doc' = p
  /\ text' = [b \in Browsers |-> IF b \in C THEN p ELSE text[b]]

(* A page is opened, or reconnects with what it has. *)
Join(b) ==
  /\ live
  /\ b \notin connected
  /\ connected' = connected \cup {b}
  /\ Shared(connected', doc \cup text[b])
  /\ UNCHANGED <<row, live, typed, fallbacks, mixed>>

(* A page types, connected or not. *)
Type(b, t) ==
  /\ t \notin typed
  /\ typed' = typed \cup {t}
  /\ LET p == text[b] \cup {[text |-> t, by |-> b]}
     IN IF b \in connected THEN Shared(connected, p)
        ELSE text' = [text EXCEPT ![b] = p] /\ UNCHANGED doc
  /\ UNCHANGED <<row, live, connected, fallbacks, mixed>>

(* The connection of b is lost; or its page is closed, or left. *)
Disconnect(b) ==
  /\ connected' = connected \ {b}
  /\ \/ b \in connected /\ UNCHANGED text
     \/ text' = [text EXCEPT ![b] = {}]
  /\ UNCHANGED <<row, live, doc, typed, fallbacks, mixed>>

(* The room is evicted, or the process dies: pages outlive the session.      *)
SessionEnds ==
  /\ live
  /\ live' = FALSE
  /\ doc' = {}
  /\ connected' = {}
  /\ UNCHANGED <<row, text, typed, fallbacks, mixed>>

SnapshotsNext ==
  \/ \E content \in SUBSET Texts : PostSnapshot(content)
  \/ Save
  \/ Hydrate
  \/ \E b \in Browsers : Join(b)
  \/ \E b \in Browsers, t \in Texts : Type(b, t)
  \/ \E b \in Browsers : Disconnect(b)
  \/ SessionEnds

SnapshotsSpec == SnapshotsInit /\ [][SnapshotsNext]_snapshotVars

-----------------------------------------------------------------------------
SnapshotsTypeOK ==
  /\ row \in Row \cup {None}
  /\ live \in BOOLEAN
  /\ doc \in SUBSET Pieces
  /\ connected \in SUBSET Browsers
  /\ text \in [Browsers -> SUBSET Pieces]
  /\ typed \in SUBSET Texts
  /\ fallbacks \in 0 .. MaxFallbacks
  /\ mixed \in BOOLEAN

Once(pieces) == \A p, q \in pieces : p.text = q.text => p = q

(* The two kinds of rows may take turns, sessions come and go and saves be   *)
(* missed: as long as no page had a copy when a text was inserted again, no  *)
(* copy and no row holds a text twice.                                       *)
TextOnceUnlessMixed ==
  ~mixed => /\ Once(doc)
            /\ \A b \in Browsers : Once(text[b])
            /\ row # None /\ row.stateBytes # None => Once(row.stateBytes)

(* "Backward compatible: uses binary stateBytes if available, falls back to  *)
(* plain text content" (RoomPersistenceService line 39): whatever the kind   *)
(* of the row, nobody sees a text twice that was typed once.                 *)
TextOnce == \A b \in Browsers : Once(text[b])
=============================================================================
