------------------------- MODULE TextSnapshotsProofs -------------------------
(***************************************************************************)
(* Proofs about TextSnapshots, for any sets of pages and texts and any     *)
(* number of hydrations from text.                                         *)
(***************************************************************************)
EXTENDS TextSnapshots, TLAPS

USE BrowsersAssumption, MaxFallbacksAssumption

-----------------------------------------------------------------------------
(* The pieces that a row has, and all pieces there are of the room. *)
Kept == IF row = None \/ row.stateBytes = None THEN {} ELSE row.stateBytes

Everywhere == doc \cup (UNION {text[b] : b \in Browsers}) \cup Kept

(* A row of a text is no row with a state. *)
LEMMA TextRowKeepsNothing ==
  ASSUME NEW content
  PROVE  TextRow(content).stateBytes = None /\ TextRow(content).content = content
BY DEF TextRow

(* The pieces that hydration from text makes are pieces, and hold each text  *)
(* once.                                                                     *)
LEMMA InsertedPieces ==
  ASSUME NEW content \in SUBSET Texts, NEW i \in 1 .. MaxFallbacks
  PROVE  /\ {[text |-> t, by |-> i] : t \in content} \in SUBSET Pieces
         /\ Once({[text |-> t, by |-> i] : t \in content})
         /\ \A p \in {[text |-> t, by |-> i] : t \in content} : p.text \in content
BY DEF Pieces, Once

(* Saves, hydrations, joins and typing keep the types. *)
LEMMA SnapshotsTypeStep ==
  ASSUME SnapshotsTypeOK, [SnapshotsNext]_snapshotVars
  PROVE  SnapshotsTypeOK'
<1>. USE DEF SnapshotsTypeOK
<1>1. ASSUME NEW content \in SUBSET Texts, PostSnapshot(content)
      PROVE  SnapshotsTypeOK'
  BY <1>1 DEF PostSnapshot, TextRow, Row
<1>2. CASE Save
  <2>1. Shown(doc) \in SUBSET Texts
    BY DEF Shown, Pieces
  <2>. QED  BY <1>2, <2>1 DEF Save, Row
<1>3. CASE Hydrate
  <2>1. CASE row # None /\ row.stateBytes # None /\ doc' = row.stateBytes
             /\ UNCHANGED <<fallbacks, mixed>>
    BY <1>3, <2>1 DEF Hydrate, Row
  <2>2. CASE row # None /\ Inserted({}, row.content)
    <3>1. row.content \in SUBSET Texts /\ fallbacks + 1 \in 1 .. MaxFallbacks
      BY <2>2 DEF Row, Inserted
    <3>2. doc' \in SUBSET Pieces /\ fallbacks' \in 0 .. MaxFallbacks
      <4>. DEFINE made == {[text |-> x, by |-> fallbacks + 1] : x \in row.content}
      <4>1. doc' = made /\ fallbacks' = fallbacks + 1
        BY <2>2 DEF Inserted
      <4>2. made \in SUBSET Pieces
        BY <3>1 DEF Pieces
      <4>. QED  BY <3>1, <4>1, <4>2
    <3>3. mixed' \in BOOLEAN
      <4>1. (mixed \/ \E b \in Browsers : text[b] # {}) \in BOOLEAN
        OBVIOUS
      <4>. QED  BY <2>2, <4>1, Zenon DEF Inserted
    <3>. QED  BY <1>3, <3>2, <3>3 DEF Hydrate
  <2>3. CASE doc' = {} /\ UNCHANGED <<fallbacks, mixed>>
    BY <1>3, <2>3 DEF Hydrate
  <2>. QED  BY <1>3, <2>1, <2>2, <2>3 DEF Hydrate
<1>4. ASSUME NEW b \in Browsers, Join(b)
      PROVE  SnapshotsTypeOK'
  <2>1. doc \cup text[b] \in SUBSET Pieces
    OBVIOUS
  <2>2. doc' \in SUBSET Pieces /\ text' \in [Browsers -> SUBSET Pieces]
    BY <1>4, <2>1 DEF Join, Shared
  <2>. QED  BY <1>4, <2>2 DEF Join
<1>5. ASSUME NEW b \in Browsers, NEW t \in Texts, Type(b, t)
      PROVE  SnapshotsTypeOK'
  <2>. DEFINE p == text[b] \cup {[text |-> t, by |-> b]}
  <2>1. p \in SUBSET Pieces
    BY DEF Pieces
  <2>2. \/ doc' = p /\ text' = [a \in Browsers |-> IF a \in connected THEN p ELSE text[a]]
        \/ text' = [text EXCEPT ![b] = p] /\ doc' = doc
    BY <1>5 DEF Type, Shared
  <2>. HIDE DEF p
  <2>3. doc' \in SUBSET Pieces /\ text' \in [Browsers -> SUBSET Pieces]
    BY <2>1, <2>2
  <2>. QED  BY <1>5, <2>3 DEF Type
<1>6. ASSUME NEW b \in Browsers, Disconnect(b)
      PROVE  SnapshotsTypeOK'
  BY <1>6 DEF Disconnect
<1>7. CASE SessionEnds
  BY <1>7 DEF SessionEnds
<1>8. CASE UNCHANGED snapshotVars
  BY <1>8 DEF snapshotVars
<1>. QED  BY <1>1, <1>2, <1>3, <1>4, <1>5, <1>6, <1>7, <1>8 DEF SnapshotsNext

(* Every reachable state of rows, session and pages is well typed. *)
THEOREM SnapshotsTypeCorrect == SnapshotsSpec => []SnapshotsTypeOK
<1>1. SnapshotsInit => SnapshotsTypeOK
  <2>1. ASSUME SnapshotsInit
        PROVE  row \in Row \cup {None}
    <3>1. typed \in SUBSET Texts /\ row \in {None, TextRow(typed)}
      BY <2>1 DEF SnapshotsInit
    <3>2. TextRow(typed) \in Row
      BY <3>1 DEF TextRow, Row
    <3>. QED  BY <3>1, <3>2
  <2>2. SnapshotsInit => 0 \in 0 .. MaxFallbacks
    OBVIOUS
  <2>. QED  BY <2>1, <2>2 DEF SnapshotsInit, SnapshotsTypeOK
<1>. QED  BY <1>1, SnapshotsTypeStep, PTL DEF SnapshotsSpec

-----------------------------------------------------------------------------
(* TextOnceUnlessMixed is not inductive: copies that hold each text once may *)
(* not agree on its pieces, and then a merge brings two together.  All the   *)
(* pieces there are, in copies and in the row, hold each text once; and what *)
(* is typed next is in none of them.                                         *)
OnceInv ==
  /\ ~mixed => Once(Everywhere)
  /\ \A p \in Everywhere : p.text \in typed
  /\ row # None => row.content \subseteq typed

(* A step that brings no piece that was nowhere. *)
LEMMA NothingNew ==
  ASSUME OnceInv, Everywhere' \subseteq Everywhere, mixed' <=> mixed, typed' = typed,
         row' # None => row'.content \subseteq typed
  PROVE  OnceInv'
<1>1. ~mixed => Once(Everywhere')
  BY DEF OnceInv, Once
<1>2. Once(Everywhere') => Once(Everywhere)'
  BY DEF Once
<1>. QED  BY <1>1, <1>2 DEF OnceInv

(* Saves, hydrations, joins and typing keep the strengthening. *)
LEMMA OnceStep ==
  ASSUME SnapshotsTypeOK, OnceInv, [SnapshotsNext]_snapshotVars
  PROVE  OnceInv'
<1>1. ASSUME NEW content \in SUBSET Texts, PostSnapshot(content)
      PROVE  OnceInv'
  <2>1. row' # None => row'.stateBytes = None /\ row'.content \subseteq typed
    BY <1>1, TextRowKeepsNothing DEF PostSnapshot
  <2>2. Everywhere' \subseteq Everywhere
    BY <1>1, <2>1 DEF PostSnapshot, Everywhere, Kept
  <2>. QED  BY <1>1, <2>1, <2>2, NothingNew DEF PostSnapshot
<1>2. CASE Save
  <2>1. row' # None => row'.stateBytes = doc /\ row'.content = Shown(doc)
    BY <1>2 DEF Save
  <2>2. Kept' \subseteq doc
    BY <2>1 DEF Kept
  <2>4. Everywhere' \subseteq Everywhere
    BY <1>2, <2>2 DEF Save, Everywhere
  <2>3. Shown(doc) \subseteq typed
    BY DEF Shown, OnceInv, Everywhere
  <2>. QED  BY <1>2, <2>1, <2>3, <2>4, NothingNew DEF Save
<1>3. CASE Hydrate
  <2>1. UNCHANGED <<row, connected, text, typed>>
    BY <1>3 DEF Hydrate
  <2>2. CASE row # None /\ row.stateBytes # None /\ doc' = row.stateBytes
             /\ UNCHANGED <<fallbacks, mixed>>
    <3>2. Kept' = Kept /\ doc' = Kept
      BY <2>1, <2>2 DEF Kept
    <3>1. Everywhere' \subseteq Everywhere
      BY <2>1, <3>2 DEF Everywhere
    <3>. QED  BY <2>1, <2>2, <3>1, NothingNew DEF OnceInv
  <2>3. CASE doc' = {} /\ UNCHANGED <<fallbacks, mixed>>
    <3>1. Everywhere' \subseteq Everywhere
      BY <2>1, <2>3 DEF Everywhere, Kept
    <3>. QED  BY <2>1, <2>3, <3>1, NothingNew DEF OnceInv
  <2>4. CASE row # None /\ row.stateBytes = None /\ Inserted({}, row.content)
    <3>1. row.content \in SUBSET Texts /\ fallbacks + 1 \in 1 .. MaxFallbacks
      BY <2>4 DEF Row, Inserted, SnapshotsTypeOK
    <3>2. Once(doc') /\ \A p \in doc' : p.text \in row.content
      BY <2>4, <3>1, InsertedPieces DEF Inserted
    <3>3. mixed' <=> mixed \/ \E b \in Browsers : text[b] # {}
      BY <2>4 DEF Inserted
    <3>4. Kept' = {}
      BY <2>1, <2>4 DEF Kept
    <3>5. ~mixed' => Everywhere' = doc'
      BY <2>1, <3>3, <3>4 DEF Everywhere
    <3>6. \A p \in Everywhere' : p.text \in typed
      BY <2>1, <2>4, <3>2, <3>4 DEF Everywhere, OnceInv
    <3>7. ~mixed' => Once(Everywhere)'
      BY <3>2, <3>5 DEF Once
    <3>. QED  BY <2>1, <3>6, <3>7 DEF OnceInv
  <2>. QED  BY <1>3, <2>2, <2>3, <2>4 DEF Hydrate
<1>4. ASSUME NEW b \in Browsers, Join(b)
      PROVE  OnceInv'
  <2>1. /\ UNCHANGED <<row, typed, mixed>> /\ doc' = doc \cup text[b]
        /\ \A a \in Browsers : text'[a] \subseteq doc \cup text[b] \cup text[a]
    BY <1>4 DEF Join, Shared, SnapshotsTypeOK
  <2>2. Everywhere' \subseteq Everywhere
    BY <2>1 DEF Everywhere, Kept
  <2>. QED  BY <2>1, <2>2, NothingNew DEF OnceInv
<1>5. ASSUME NEW b \in Browsers, NEW t \in Texts, Type(b, t)
      PROVE  OnceInv'
  <2>. DEFINE piece == [text |-> t, by |-> b]
  <2>1. /\ UNCHANGED <<row, mixed>> /\ typed' = typed \cup {t} /\ t \notin typed
        /\ doc' \subseteq doc \cup text[b] \cup {piece}
        /\ \A a \in Browsers : text'[a] \subseteq text[a] \cup text[b] \cup {piece}
    BY <1>5 DEF Type, Shared, SnapshotsTypeOK
  <2>2. piece.text = t
    OBVIOUS
  <2>. HIDE DEF piece
  <2>3. Everywhere' \subseteq Everywhere \cup {piece}
    BY <2>1 DEF Everywhere, Kept
  <2>4. \A p \in Everywhere : p.text # t
    BY <2>1 DEF OnceInv
  <2>5. ~mixed => Once(Everywhere \cup {piece})
    BY <2>2, <2>4 DEF OnceInv, Once
  <2>6. ~mixed' => Once(Everywhere')
    BY <2>1, <2>3, <2>5 DEF Once
  <2>7. Once(Everywhere') => Once(Everywhere)'
    BY DEF Once
  <2>8. \A p \in Everywhere' : p.text \in typed'
    BY <2>1, <2>2, <2>3 DEF OnceInv
  <2>. QED  BY <2>1, <2>6, <2>7, <2>8 DEF OnceInv
<1>6. ASSUME NEW b \in Browsers, Disconnect(b)
      PROVE  OnceInv'
  <2>1. /\ UNCHANGED <<row, doc, typed, mixed>>
        /\ \A a \in Browsers : text'[a] \subseteq text[a]
    BY <1>6 DEF Disconnect, SnapshotsTypeOK
  <2>2. Everywhere' \subseteq Everywhere
    BY <2>1 DEF Everywhere, Kept
  <2>. QED  BY <2>1, <2>2, NothingNew DEF OnceInv
<1>7. CASE SessionEnds
  <2>1. UNCHANGED <<row, text, typed, mixed>> /\ doc' = {}
    BY <1>7 DEF SessionEnds
  <2>2. Everywhere' \subseteq Everywhere
    BY <2>1 DEF Everywhere, Kept
  <2>. QED  BY <2>1, <2>2, NothingNew DEF OnceInv
<1>8. CASE UNCHANGED snapshotVars
  <2>1. UNCHANGED <<row, doc, text, typed, mixed>>
    BY <1>8 DEF snapshotVars
  <2>2. Everywhere' \subseteq Everywhere
    BY <2>1 DEF Everywhere, Kept
  <2>. QED  BY <2>1, <2>2, NothingNew DEF OnceInv
<1>. QED  BY <1>1, <1>2, <1>3, <1>4, <1>5, <1>6, <1>7, <1>8 DEF SnapshotsNext

(* As long as no page had a copy when a text was inserted again, nobody and  *)
(* no row holds a text twice, whatever rows take turns.                      *)
THEOREM TextCorrect == SnapshotsSpec => []TextOnceUnlessMixed
<1>1. SnapshotsInit => OnceInv
  BY TextRowKeepsNothing DEF SnapshotsInit, OnceInv, Once, Everywhere, Kept
<1>2. OnceInv => TextOnceUnlessMixed
  <2>1. doc \subseteq Everywhere /\ \A b \in Browsers : text[b] \subseteq Everywhere
    BY DEF Everywhere
  <2>2. row # None /\ row.stateBytes # None => row.stateBytes \subseteq Everywhere
    BY DEF Everywhere, Kept
  <2>3. \A Q : Once(Everywhere) /\ Q \subseteq Everywhere => Once(Q)
    BY DEF Once
  <2>4. Once(Everywhere) => Once(doc) /\ \A b \in Browsers : Once(text[b])
    BY <2>1, <2>3
  <2>5. Once(Everywhere) /\ row # None /\ row.stateBytes # None => Once(row.stateBytes)
    BY <2>2, <2>3
  <2>. QED  BY <2>4, <2>5 DEF OnceInv, TextOnceUnlessMixed
<1>. QED  BY <1>1, <1>2, OnceStep, SnapshotsTypeCorrect, PTL DEF SnapshotsSpec
=============================================================================
