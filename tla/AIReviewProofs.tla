---------------------------- MODULE AIReviewProofs ----------------------------
(***************************************************************************)
(* Proofs about AIReview, for any number of requests and of tokens.        *)
(***************************************************************************)
EXTENDS AIReview, SequenceTheorems, FiniteSetTheorems, TLAPS

USE NoRequestAssumption, MaxTokensAssumption, NoItemAssumption

-----------------------------------------------------------------------------
(* Induction over the naturals, for the members of a set.  A set with 0 and  *)
(* with the successor of each of its numbers has them all: a number n that   *)
(* it lacks would make i |-> i + 1 an injection of its numbers up to n into  *)
(* those among them that are not 0.                                          *)
LEMMA Induction ==
  ASSUME NEW S, 0 \in S, \A i \in S \cap Nat : i + 1 \in S
  PROVE  Nat \subseteq S
<1>. SUFFICES ASSUME NEW n \in Nat, n \notin S
              PROVE  FALSE
  OBVIOUS
<1>. DEFINE A == S \cap (0 .. n)
            f == [i \in A |-> i + 1]
<1>1. IsFiniteSet(A) /\ 0 \in A
  <2>1. IsFiniteSet(0 .. n)
    BY FS_Interval
  <2>. QED  BY <2>1, FS_Subset
<1>2. IsFiniteSet(A \ {0}) /\ Cardinality(A \ {0}) = Cardinality(A) - 1
  BY <1>1, FS_RemoveElement
<1>3. Cardinality(A \ {0}) < Cardinality(A)
  <2>1. Cardinality(A) \in Nat
    BY <1>1, FS_CardinalityType
  <2>. QED  BY <1>2, <2>1
<1>4. f \in [A -> A \ {0}]
  <2>1. ASSUME NEW i \in A
        PROVE  i + 1 \in A \ {0}
    <3>1. i + 1 \in S /\ i # n
      OBVIOUS
    <3>. QED  BY <3>1
  <2>. QED  BY <2>1
<1>5. \E x, y \in A : x # y /\ f[x] = f[y]
  <2>. HIDE DEF A, f
  <2>. QED  BY <1>1, <1>2, <1>3, <1>4, FS_PigeonHole
<1>. QED  BY <1>5

-----------------------------------------------------------------------------
(* The recursion of AfterLines is well defined. *)
LEMMA AfterLinesDef ==
  ASSUME NEW before, NEW r, NEW lines, Len(lines) \in Nat
  PROVE  LET after == AfterLines(before, r, lines)
         IN  after = [i \in 0 .. Len(lines) |->
                        IF i = 0 THEN before ELSE ReadLine(after[i - 1], r, lines[i])]
<1>. DEFINE Reads(g, k) ==
              g = [i \in 0 .. k |-> IF i = 0 THEN before ELSE ReadLine(g[i - 1], r, lines[i])]
            Good == {k \in Nat : \E g : Reads(g, k)}
<1>1. 0 \in Good
  <2>1. Reads([i \in 0 .. 0 |-> before], 0)
    OBVIOUS
  <2>. QED  BY <2>1
<1>2. ASSUME NEW k \in Good \cap Nat
      PROVE  k + 1 \in Good
  <2>1. PICK g : Reads(g, k)
    OBVIOUS
  <2>. DEFINE h == [i \in 0 .. k + 1 |->
                      IF i <= k THEN g[i] ELSE ReadLine(g[k], r, lines[k + 1])]
  <2>2. ASSUME NEW i \in 0 .. k + 1
        PROVE  h[i] = IF i = 0 THEN before ELSE ReadLine(h[i - 1], r, lines[i])
    <3>1. CASE i = 0
      BY <2>1, <3>1
    <3>2. CASE i \in 1 .. k
      <4>1. h[i] = g[i] /\ h[i - 1] = g[i - 1]
        BY <3>2
      <4>2. g[i] = ReadLine(g[i - 1], r, lines[i])
        BY <2>1, <3>2
      <4>. QED  BY <3>2, <4>1, <4>2
    <3>3. CASE i = k + 1
      <4>1. h[i] = ReadLine(g[k], r, lines[i]) /\ h[i - 1] = g[k]
        BY <3>3
      <4>. QED  BY <3>3, <4>1
    <3>. QED  BY <3>1, <3>2, <3>3
  <2>3. Reads(h, k + 1)
    BY <2>2
  <2>. HIDE DEF h, Reads
  <2>. QED  BY <2>3
<1>3. Len(lines) \in Good
  <2>. HIDE DEF Good
  <2>. QED  BY <1>1, <1>2, Induction
<1>4. PICK g : Reads(g, Len(lines))
  BY <1>3
<1>. QED  BY <1>4 DEF AfterLines

(* What holds at the j-th of n lines and is carried from each line to the    *)
(* next holds from the j-th line on.                                         *)
LEMMA LinesKeep ==
  ASSUME NEW n \in Nat, NEW j \in 0 .. n, NEW S, j \in S,
         \A i \in j + 1 .. n : i - 1 \in S => i \in S
  PROVE  \A i \in j .. n : i \in S
<1>. DEFINE T == {k \in Nat : j + k <= n => j + k \in S}
<1>1. 0 \in T
  OBVIOUS
<1>2. ASSUME NEW k \in T \cap Nat
      PROVE  k + 1 \in T
  <2>. SUFFICES ASSUME j + (k + 1) <= n
                PROVE  j + (k + 1) \in S
    OBVIOUS
  <2>. DEFINE i == j + (k + 1)
  <2>1. i \in j + 1 .. n /\ i - 1 = j + k /\ i - 1 \in S
    OBVIOUS
  <2>. QED  BY <2>1
<1>3. Nat \subseteq T
  <2>. HIDE DEF T
  <2>. QED  BY <1>1, <1>2, Induction
<1>. SUFFICES ASSUME NEW i \in j .. n
              PROVE  i \in S
  OBVIOUS
<1>4. i - j \in T /\ j + (i - j) = i
  BY <1>3
<1>. QED  BY <1>4

-----------------------------------------------------------------------------
(* What a turn of the read loop works on. *)
Turn == [event : Kinds \cup {"message", "garbled"}, status : ReviewStatus,
         showsText : BOOLEAN, response : HistoryItem \cup {None},
         markers : HistoryItem \cup {None}, history : Seq(HistoryItem), q : Request]

(* Stopping the flush loop shows the text that came in, and nothing else.    *)
LEMMA StopFlushLoopTurn ==
  ASSUME NEW t \in Turn
  PROVE  LET u == StopFlushLoop(t)
         IN  /\ u \in Turn
             /\ u.event = t.event /\ u.response = t.response
             /\ u.markers = t.markers /\ u.history = t.history
             /\ u.q.phase = t.q.phase /\ u.q.reported = t.q.reported
             /\ ~u.q.flushing
BY DEF StopFlushLoop, Turn, Request, ReviewStatus

(* The history keeps at most ten of what is put before it. *)
LEMMA KeepTenItems ==
  ASSUME NEW h \in Seq(HistoryItem), NEW item \in HistoryItem
  PROVE  LET k == KeepTen(<<item>> \o h)
         IN  /\ k \in Seq(HistoryItem)
             /\ Len(k) \in 1 .. Len(h) + 1
             /\ k[1] = item
             /\ \A i \in 2 .. Len(k) : k[i] = h[i - 1]
<1>. DEFINE w == <<item>> \o h
            m == IF Len(w) < 10 THEN Len(w) ELSE 10
<1>1. /\ w \in Seq(HistoryItem) /\ Len(w) = Len(h) + 1 /\ Len(h) \in Nat
      /\ w[1] = item /\ \A i \in 2 .. Len(w) : w[i] = h[i - 1]
  <2>1. <<item>> \in Seq(HistoryItem) /\ Len(<<item>>) = 1 /\ <<item>>[1] = item
    OBVIOUS
  <2>. QED  BY <2>1, ConcatProperties, LenProperties
<1>. HIDE DEF w
<1>2. m \in 1 .. Len(w)
  BY <1>1
<1>3. /\ SubSeq(w, 1, m) \in Seq(HistoryItem)
      /\ Len(SubSeq(w, 1, m)) = m
      /\ \A i \in 1 .. m : SubSeq(w, 1, m)[i] = w[i]
  <2>. HIDE DEF m
  <2>. QED  BY <1>1, <1>2, SubSeqProperties
<1>4. KeepTen(w) = SubSeq(w, 1, m)
  BY DEF KeepTen
<1>. HIDE DEF m
<1>5. /\ KeepTen(w) \in Seq(HistoryItem)
      /\ Len(KeepTen(w)) \in 1 .. Len(h) + 1
      /\ KeepTen(w)[1] = item
      /\ \A i \in 2 .. Len(KeepTen(w)) : KeepTen(w)[i] = h[i - 1]
  BY <1>1, <1>2, <1>3, <1>4
<1>. QED  BY <1>5 DEF w

(* A line completes the review when the event that was named in its chunk is *)
(* "complete", and the line is data that can be parsed.                      *)
Completes(t, line) ==
  line.part = "data" /\ line.kind # "garbled" /\ t.event = "complete"

Item(r, line) == [id |-> r, payload |-> line.kind]

(* All that the proofs need to know of ReadLine. *)
LEMMA ReadLineFacts ==
  ASSUME NEW t \in Turn, NEW r \in Requests, NEW line \in Line
  PROVE  LET u == ReadLine(t, r, line)
         IN  /\ u \in Turn
             /\ u.q.phase = t.q.phase
             /\ u.q.flushing => t.q.flushing
             /\ t.q.reported \subseteq u.q.reported
             /\ u.event = IF line.part = "event" THEN line.kind ELSE t.event
             /\ line.part = "data" /\ line.kind # "garbled" /\ t.event \in Outcomes
                  => t.event \in u.q.reported
             /\ IF Completes(t, line)
                  THEN /\ u.response = Item(r, line)
                       /\ u.markers = Marked(t.markers, Item(r, line))
                       /\ u.history = KeepTen(<<Item(r, line)>> \o t.history)
                  ELSE /\ u.response = t.response /\ u.markers = t.markers
                       /\ u.history = t.history
<1>. DEFINE u == ReadLine(t, r, line)
            v == StopFlushLoop(t)
<1>1. line.part \in {"event", "data"} /\ line.kind \in Kinds \cup {"garbled"}
  BY DEF Line
<1>2. CASE line.part = "event"
  <2>1. u = [t EXCEPT !.event = line.kind]
    BY <1>2 DEF ReadLine
  <2>. QED  BY <1>1, <1>2, <2>1 DEF Turn, Completes
<1>3. CASE line.part = "data" /\ line.kind = "garbled"
  <2>1. u = t
    BY <1>3 DEF ReadLine
  <2>. QED  BY <1>3, <2>1 DEF Completes
<1>4. CASE line.part = "data" /\ line.kind # "garbled" /\ t.event = "status"
  <2>1. u = [t EXCEPT !.status = "streaming"]
    BY <1>4 DEF ReadLine, ReadData
  <2>. QED  BY <1>4, <2>1 DEF Turn, Completes, ReviewStatus, Outcomes
<1>5. CASE line.part = "data" /\ line.kind # "garbled" /\ t.event = "token"
  <2>1. u = [t EXCEPT !.q.buffered = t.q.buffered \/ line.kind = "token"]
    BY <1>5 DEF ReadLine, ReadData
  <2>2. (t.q.buffered \/ line.kind = "token") \in BOOLEAN
    OBVIOUS
  <2>3. u = [t EXCEPT !.q = [t.q EXCEPT !.buffered = t.q.buffered \/ line.kind = "token"]]
    BY <2>1 DEF Turn
  <2>. HIDE DEF u
  <2>4. [t.q EXCEPT !.buffered = t.q.buffered \/ line.kind = "token"] \in Request
    BY <2>2, Zenon DEF Turn, Request
  <2>5. u \in Turn
    BY <2>3, <2>4 DEF Turn
  <2>6. /\ u.event = t.event /\ u.response = t.response /\ u.markers = t.markers
        /\ u.history = t.history /\ u.q.phase = t.q.phase
        /\ u.q.flushing = t.q.flushing /\ u.q.reported = t.q.reported
    BY <2>3 DEF Turn, Request
  <2>. QED  BY <1>5, <2>5, <2>6 DEF Completes, Outcomes, u
<1>6. CASE line.part = "data" /\ line.kind # "garbled" /\ t.event = "complete"
  <2>. DEFINE item == Item(r, line)
              h == KeepTen(<<item>> \o t.history)
  <2>1. item \in HistoryItem
    BY <1>1, <1>6 DEF Item, HistoryItem
  <2>2. h \in Seq(HistoryItem)
    BY <2>1, KeepTenItems DEF Turn
  <2>3. u = OnComplete(t, item)
    BY <1>6 DEF ReadLine, ReadData, Item
  <2>. HIDE DEF item, h
  <2>4. v \in Turn /\ v.event = t.event /\ v.markers = t.markers /\ v.history = t.history
        /\ v.q.phase = t.q.phase /\ v.q.reported = t.q.reported /\ ~v.q.flushing
    BY StopFlushLoopTurn
  <2>5. u = [v EXCEPT !.status = "success", !.response = item,
                      !.markers = Marked(v.markers, item),
                      !.history = KeepTen(<<item>> \o v.history),
                      !.q.reported = v.q.reported \cup {"complete"}]
    BY <2>3 DEF OnComplete
  <2>6. Marked(v.markers, item) \in HistoryItem \cup {None}
    BY <2>1, <2>4 DEF Marked, Turn
  <2>. HIDE DEF v, u
  <2>7. u \in Turn
    BY <2>1, <2>2, <2>4, <2>5, <2>6 DEF Turn, Request, ReviewStatus, Outcomes, h
  <2>8. /\ u.event = t.event /\ u.response = item /\ u.markers = Marked(t.markers, item)
        /\ u.history = h /\ u.q.phase = t.q.phase /\ ~u.q.flushing
        /\ u.q.reported = t.q.reported \cup {"complete"}
    BY <2>4, <2>5 DEF Turn, Request, h
  <2>. QED  BY <1>6, <2>7, <2>8 DEF Completes, item, h, u
<1>7. CASE line.part = "data" /\ line.kind # "garbled" /\ t.event = "error"
  <2>1. u = OnError(t)
    BY <1>7 DEF ReadLine, ReadData
  <2>2. v \in Turn /\ v.event = t.event /\ v.markers = t.markers /\ v.history = t.history
        /\ v.response = t.response
        /\ v.q.phase = t.q.phase /\ v.q.reported = t.q.reported /\ ~v.q.flushing
    BY StopFlushLoopTurn
  <2>3. u = [v EXCEPT !.status = "failed", !.q.reported = v.q.reported \cup {"error"}]
    BY <2>1 DEF OnError
  <2>. HIDE DEF v, u
  <2>4. u \in Turn
    BY <2>2, <2>3 DEF Turn, Request, ReviewStatus, Outcomes
  <2>5. /\ u.event = t.event /\ u.response = t.response /\ u.markers = t.markers
        /\ u.history = t.history /\ u.q.phase = t.q.phase /\ ~u.q.flushing
        /\ u.q.reported = t.q.reported \cup {"error"}
    BY <2>2, <2>3 DEF Turn, Request
  <2>. QED  BY <1>7, <2>4, <2>5 DEF Completes, u
<1>8. CASE line.part = "data" /\ line.kind # "garbled"
           /\ t.event \notin {"status", "token", "complete", "error"}
  <2>1. u = t
    BY <1>8 DEF ReadLine, ReadData
  <2>. QED  BY <1>8, <2>1 DEF Completes, Outcomes
<1>. QED  BY <1>1, <1>2, <1>3, <1>4, <1>5, <1>6, <1>7, <1>8

-----------------------------------------------------------------------------
(* What is appended comes after what was there. *)
LEMMA Appended ==
  ASSUME NEW s \in Seq(Line), NEW t \in Seq(Line)
  PROVE  /\ s \o t \in Seq(Line)
         /\ Len(s \o t) = Len(s) + Len(t) /\ Len(s) \in Nat /\ Len(t) \in Nat
         /\ \A i \in 1 .. Len(s) : (s \o t)[i] = s[i]
         /\ \A i \in 1 .. Len(t) : (s \o t)[Len(s) + i] = t[i]
<1>1. Len(s) \in Nat /\ Len(t) \in Nat
  BY LenProperties
<1>2. /\ s \o t \in Seq(Line) /\ Len(s \o t) = Len(s) + Len(t)
      /\ \A i \in 1 .. Len(s) + Len(t) :
           (s \o t)[i] = IF i <= Len(s) THEN s[i] ELSE t[i - Len(s)]
  BY ConcatProperties
<1>3. ASSUME NEW i \in 1 .. Len(s)
      PROVE  (s \o t)[i] = s[i]
  BY <1>1, <1>2
<1>4. ASSUME NEW i \in 1 .. Len(t)
      PROVE  (s \o t)[Len(s) + i] = t[i]
  <2>1. Len(s) + i \in 1 .. Len(s) + Len(t) /\ ~(Len(s) + i <= Len(s))
        /\ Len(s) + i - Len(s) = i
    BY <1>1
  <2>. QED  BY <1>2, <2>1
<1>. QED  BY <1>1, <1>2, <1>3, <1>4

(* Lines that are sent, and what a chunk leaves of them. *)
LEMMA LinesSent ==
  ASSUME NEW w \in Seq(Line), NEW k \in Kinds \cup {"garbled"}, NEW l \in Kinds \cup {"garbled"}
  PROVE  LET v == w \o <<EventLine(k), DataLine(l)>>
         IN  /\ v \in Seq(Line) /\ Len(v) = Len(w) + 2
             /\ \A i \in 1 .. Len(w) : v[i] = w[i]
             /\ v[Len(w) + 1] = EventLine(k) /\ v[Len(w) + 2] = DataLine(l)
<1>. DEFINE e == <<EventLine(k), DataLine(l)>>
<1>1. /\ e \in Seq(Line) /\ Len(e) = 2 /\ e[1] = EventLine(k) /\ e[2] = DataLine(l)
  BY DEF EventLine, DataLine, Line
<1>2. Len(w) \in Nat
  BY LenProperties
<1>. HIDE DEF e
<1>3. /\ w \o e \in Seq(Line) /\ Len(w \o e) = Len(w) + 2
      /\ \A i \in 1 .. Len(w) : (w \o e)[i] = w[i]
      /\ (w \o e)[Len(w) + 1] = e[1] /\ (w \o e)[Len(w) + 2] = e[2]
  <2>1. /\ w \o e \in Seq(Line) /\ Len(w \o e) = Len(w) + Len(e)
        /\ \A i \in 1 .. Len(w) : (w \o e)[i] = w[i]
        /\ \A i \in 1 .. Len(e) : (w \o e)[Len(w) + i] = e[i]
    BY <1>1, Appended
  <2>. QED  BY <1>1, <2>1
<1>. QED  BY <1>1, <1>3 DEF e

LEMMA LinesLeft ==
  ASSUME NEW w \in Seq(Line), NEW n \in 1 .. Len(w)
  PROVE  LET v == SubSeq(w, n + 1, Len(w))
         IN  /\ v \in Seq(Line) /\ Len(v) = Len(w) - n
             /\ \A i \in 1 .. Len(v) : v[i] = w[n + i]
<1>1. Len(w) \in Nat /\ n + 1 \in Int /\ \A i \in n + 1 .. Len(w) : w[i] \in Line
  <2>1. Len(w) \in Nat /\ \A i \in 1 .. Len(w) : w[i] \in Line
    BY LenProperties, ElementOfSeq
  <2>. QED  BY <2>1
<1>2. /\ SubSeq(w, n + 1, Len(w)) \in Seq(Line)
      /\ Len(SubSeq(w, n + 1, Len(w))) = IF n + 1 <= Len(w) THEN Len(w) - (n + 1) + 1 ELSE 0
      /\ \A i \in 1 .. Len(w) - (n + 1) + 1 : SubSeq(w, n + 1, Len(w))[i] = w[n + 1 + i - 1]
  BY <1>1, SubSeqProperties
<1>. QED  BY <1>1, <1>2

(* What the proxy appends when it loses the service: one line of an event,   *)
(* or two of which the second is cut off, and the data of its own.           *)
LEMMA CutLines ==
  ASSUME NEW w \in Seq(Line), NEW k \in Kinds \cup {"garbled"}
  PROVE  LET v == w \o <<EventLine(k)>> \o <<DataLine("error")>>
             u == w \o <<EventLine(k), DataLine("garbled")>> \o <<DataLine("error")>>
         IN  /\ v \in Seq(Line) /\ Len(v) = Len(w) + 2
             /\ \A i \in 1 .. Len(w) : v[i] = w[i]
             /\ v[Len(w) + 1] = EventLine(k) /\ v[Len(w) + 2] = DataLine("error")
             /\ u \in Seq(Line) /\ Len(u) = Len(w) + 3
             /\ \A i \in 1 .. Len(w) : u[i] = w[i]
             /\ u[Len(w) + 1] = EventLine(k) /\ u[Len(w) + 2] = DataLine("garbled")
             /\ u[Len(w) + 3] = DataLine("error")
<1>. DEFINE e == <<EventLine(k)>>
            d == <<DataLine("error")>>
            c == <<EventLine(k), DataLine("garbled")>>
<1>1. /\ e \in Seq(Line) /\ Len(e) = 1 /\ e[1] = EventLine(k)
      /\ d \in Seq(Line) /\ Len(d) = 1 /\ d[1] = DataLine("error")
      /\ Len(w) \in Nat
  BY LenProperties DEF EventLine, DataLine, Line, Kinds, Outcomes
<1>2. /\ w \o c \in Seq(Line) /\ Len(w \o c) = Len(w) + 2
      /\ \A i \in 1 .. Len(w) : (w \o c)[i] = w[i]
      /\ (w \o c)[Len(w) + 1] = EventLine(k) /\ (w \o c)[Len(w) + 2] = DataLine("garbled")
  BY LinesSent
<1>. HIDE DEF e, d, c
<1>3. /\ w \o e \in Seq(Line) /\ Len(w \o e) = Len(w) + 1
      /\ \A i \in 1 .. Len(w) : (w \o e)[i] = w[i]
      /\ (w \o e)[Len(w) + 1] = EventLine(k)
  BY <1>1, ConcatProperties
<1>4. /\ w \o e \o d \in Seq(Line) /\ Len(w \o e \o d) = Len(w) + 2
      /\ \A i \in 1 .. Len(w) : (w \o e \o d)[i] = w[i]
      /\ (w \o e \o d)[Len(w) + 1] = EventLine(k)
      /\ (w \o e \o d)[Len(w) + 2] = DataLine("error")
  <2>. DEFINE p == w \o e
  <2>1. /\ p \o d \in Seq(Line) /\ Len(p \o d) = Len(p) + 1
        /\ \A i \in 1 .. Len(p) : (p \o d)[i] = p[i]
        /\ (p \o d)[Len(p) + 1] = d[1]
    <3>1. p \in Seq(Line) /\ Len(p) \in Nat
      BY <1>1, <1>3
    <3>. HIDE DEF p
    <3>2. /\ p \o d \in Seq(Line) /\ Len(p \o d) = Len(p) + Len(d)
          /\ \A i \in 1 .. Len(p) : (p \o d)[i] = p[i]
          /\ \A i \in 1 .. Len(d) : (p \o d)[Len(p) + i] = d[i]
      BY <1>1, <3>1, Appended
    <3>. QED  BY <1>1, <3>1, <3>2
  <2>. QED  BY <1>1, <1>3, <2>1
<1>5. /\ w \o c \o d \in Seq(Line) /\ Len(w \o c \o d) = Len(w) + 3
      /\ \A i \in 1 .. Len(w) : (w \o c \o d)[i] = w[i]
      /\ (w \o c \o d)[Len(w) + 1] = EventLine(k)
      /\ (w \o c \o d)[Len(w) + 2] = DataLine("garbled")
      /\ (w \o c \o d)[Len(w) + 3] = DataLine("error")
  <2>. DEFINE p == w \o c
  <2>1. /\ p \o d \in Seq(Line) /\ Len(p \o d) = Len(p) + 1
        /\ \A i \in 1 .. Len(p) : (p \o d)[i] = p[i]
        /\ (p \o d)[Len(p) + 1] = d[1]
    <3>1. p \in Seq(Line) /\ Len(p) \in Nat
      BY <1>1, <1>2
    <3>. HIDE DEF p
    <3>2. /\ p \o d \in Seq(Line) /\ Len(p \o d) = Len(p) + Len(d)
          /\ \A i \in 1 .. Len(p) : (p \o d)[i] = p[i]
          /\ \A i \in 1 .. Len(d) : (p \o d)[Len(p) + i] = d[i]
      BY <1>1, <3>1, Appended
    <3>. QED  BY <1>1, <3>1, <3>2
  <2>. QED  BY <1>1, <1>2, <2>1
<1>. QED  BY <1>4, <1>5 DEF e, d, c

(* What a step of the service or of the proxy does to the lines of r: an     *)
(* event of two whole lines, or one that is torn.                            *)
Sends(old, new, k, l) ==
  /\ new \in Seq(Line) /\ Len(new) = Len(old) + 2
  /\ \A i \in 1 .. Len(old) : new[i] = old[i]
  /\ new[Len(old) + 1] = EventLine(k) /\ new[Len(old) + 2] = DataLine(l)

SendsTorn(old, new, k) ==
  /\ new \in Seq(Line) /\ Len(new) = Len(old) + 3
  /\ \A i \in 1 .. Len(old) : new[i] = old[i]
  /\ new[Len(old) + 1] = EventLine(k) /\ new[Len(old) + 2] = DataLine("garbled")
  /\ new[Len(old) + 3] = DataLine("error")

(* The service emits only what may come next, and that is an event. *)
LEMMA NextKindsAre ==
  ASSUME NEW r \in Requests
  PROVE  /\ NextKinds(r) \subseteq Kinds
         /\ stream[r].stage = "waiting" => NextKinds(r) = {"status"}
         /\ stream[r].stage = "generating" => NextKinds(r) = Generates(r)
         /\ stream[r].stage \notin {"waiting", "generating"} => NextKinds(r) = {}
BY DEF NextKinds, Generates, Kinds, Outcomes

LEMMA EmitFacts ==
  ASSUME ReviewTypeOK, NEW r \in Requests, NEW k \in Kinds, Emit(r, k)
  PROVE  /\ k \in NextKinds(r)
         /\ Sends(stream[r].wire, stream'[r].wire, k, k)
         /\ stream'[r].stage = IF k \in Outcomes THEN "finished" ELSE "generating"
         /\ stream' \in [Requests -> Stream]
         /\ \A p \in Requests \ {r} : stream'[p] = stream[p]
         /\ UNCHANGED <<hookVars, request, torn>>
<1>. DEFINE v == stream[r].wire \o <<EventLine(k), DataLine(k)>>
            m == IF k = "token" THEN stream[r].tokens + 1 ELSE stream[r].tokens
            g == IF k \in Outcomes THEN "finished" ELSE "generating"
<1>1. stream[r] \in Stream /\ stream[r].wire \in Seq(Line)
  BY DEF ReviewTypeOK, Stream
<1>2. Sends(stream[r].wire, v, k, k)
  BY <1>1, LinesSent DEF Sends
<1>3. stream' = [stream EXCEPT ![r].stage = g, ![r].tokens = m, ![r].wire = v]
  BY DEF Emit
<1>4. m \in 0 .. MaxTokens
  <2>1. k = "token" => stream[r].tokens < MaxTokens
    BY NextKindsAre DEF Emit, Generates, Outcomes
  <2>. QED  BY <1>1, <2>1 DEF Stream
<1>5. g \in {"finished", "generating"}
  OBVIOUS
<1>. HIDE DEF v, m, g
<1>6. v \in Seq(Line)
  BY <1>2 DEF Sends
<1>7. stream' \in [Requests -> Stream]
  BY <1>1, <1>3, <1>4, <1>5, <1>6 DEF ReviewTypeOK, Stream
<1>8. /\ stream'[r].wire = v /\ stream'[r].stage = g
      /\ \A p \in Requests \ {r} : stream'[p] = stream[p]
  BY <1>1, <1>3 DEF ReviewTypeOK, Stream
<1>. QED  BY <1>2, <1>7, <1>8 DEF Emit, g

LEMMA FailFacts ==
  ASSUME ReviewTypeOK, NEW r \in Requests, UpstreamFails(r)
  PROVE  /\ stream[r].stage \in {"waiting", "generating", "finished"}
         /\ stream'[r].stage = "failed"
         /\ \/ /\ Sends(stream[r].wire, stream'[r].wire, "error", "error")
               /\ torn'[r] = torn[r]
            \/ Sends(stream[r].wire, stream'[r].wire, "garbled", "error") /\ torn'[r]
            \/ /\ \E k \in NextKinds(r) : SendsTorn(stream[r].wire, stream'[r].wire, k)
               /\ torn'[r]
         /\ stream' \in [Requests -> Stream] /\ torn' \in [Requests -> BOOLEAN]
         /\ \A p \in Requests \ {r} : stream'[p] = stream[p] /\ torn'[p] = torn[p]
         /\ UNCHANGED <<hookVars, request>>
<1>. DEFINE w == stream[r].wire
<1>1. stream[r] \in Stream /\ w \in Seq(Line) /\ torn[r] \in BOOLEAN
  BY DEF ReviewTypeOK, Stream
<1>2. PICK cut \in {<<EventLine("error")>>, <<EventLine("garbled")>>}
                    \cup {<<EventLine(k), DataLine("garbled")>> : k \in NextKinds(r)} :
        /\ stream' = [stream EXCEPT ![r].stage = "failed",
                                    ![r].wire = w \o cut \o <<DataLine("error")>>]
        /\ torn' = [torn EXCEPT ![r] = torn[r] \/ cut # <<EventLine("error")>>]
  BY DEF UpstreamFails
<1>. DEFINE v == w \o cut \o <<DataLine("error")>>
            b == (torn[r] \/ cut # <<EventLine("error")>>)
<1>3. b \in BOOLEAN
  OBVIOUS
<1>4. \/ Sends(w, v, "error", "error") /\ b = torn[r]
      \/ Sends(w, v, "garbled", "error") /\ b
      \/ (\E k \in NextKinds(r) : SendsTorn(w, v, k)) /\ b
  <2>1. CASE cut = <<EventLine("error")>>
    <3>1. Sends(w, v, "error", "error")
      BY <1>1, <2>1, CutLines DEF Sends, Kinds, Outcomes
    <3>2. b = torn[r]
      BY <1>1, <2>1
    <3>. QED  BY <3>1, <3>2
  <2>2. CASE cut = <<EventLine("garbled")>>
    <3>1. Sends(w, v, "garbled", "error")
      BY <1>1, <2>2, CutLines DEF Sends
    <3>2. cut # <<EventLine("error")>>
      BY <2>2 DEF EventLine
    <3>. QED  BY <3>1, <3>2
  <2>3. ASSUME NEW k \in NextKinds(r), cut = <<EventLine(k), DataLine("garbled")>>
        PROVE  SendsTorn(w, v, k) /\ b
    <3>1. k \in Kinds
      BY NextKindsAre
    <3>2. SendsTorn(w, v, k)
      BY <1>1, <2>3, <3>1, CutLines DEF SendsTorn
    <3>3. cut # <<EventLine("error")>>
      <4>1. Len(cut) = 2 /\ Len(<<EventLine("error")>>) = 1
        BY <2>3
      <4>. QED  BY <4>1
    <3>. QED  BY <3>2, <3>3
  <2>. QED  BY <2>1, <2>2, <2>3
<1>5. v \in Seq(Line)
  BY <1>4 DEF Sends, SendsTorn
<1>6. stream' = [stream EXCEPT ![r].stage = "failed", ![r].wire = v] /\ torn' = [torn EXCEPT ![r] = b]
  BY <1>2
<1>. HIDE DEF v, b
<1>7. stream' \in [Requests -> Stream] /\ torn' \in [Requests -> BOOLEAN]
  <2>1. stream' \in [Requests -> Stream]
    BY <1>1, <1>5, <1>6 DEF ReviewTypeOK, Stream
  <2>2. torn' \in [Requests -> BOOLEAN]
    BY <1>3, <1>6, Zenon DEF ReviewTypeOK
  <2>. QED  BY <2>1, <2>2
<1>8. /\ stream'[r].stage = "failed" /\ stream'[r].wire = v /\ torn'[r] = b
      /\ \A p \in Requests \ {r} : stream'[p] = stream[p] /\ torn'[p] = torn[p]
  BY <1>6 DEF ReviewTypeOK, Stream
<1>. QED  BY <1>4, <1>7, <1>8 DEF UpstreamFails

(* A turn of the read loop as the states before, between and after its       *)
(* lines.                                                                    *)
Reads(r, n, a) ==
  /\ a[0] = [event |-> "message", status |-> status, showsText |-> FALSE,
             response |-> response, markers |-> markers, history |-> history,
             q |-> request[r]]
  /\ \A i \in 1 .. n : a[i] = ReadLine(a[i - 1], r, stream[r].wire[i])
  /\ \A i \in 0 .. n : a[i] \in Turn
  /\ \A i \in 1 .. n : stream[r].wire[i] \in Line
  /\ n \in 1 .. Len(stream[r].wire)
  /\ request[r].phase = "reading"
  /\ status' = a[n].status
  /\ streamingText' = IF a[n].showsText THEN r ELSE streamingText
  /\ response' = a[n].response
  /\ markers' = a[n].markers
  /\ history' = a[n].history
  /\ request' = [request EXCEPT ![r] = a[n].q]
  /\ stream' = [stream EXCEPT ![r].wire = SubSeq(stream[r].wire, n + 1, Len(stream[r].wire))]
  /\ torn' = [torn EXCEPT ![r] = torn[r] \/ stream[r].wire[n].part = "event"]
  /\ controller' = controller

LEMMA ChunkIsRead ==
  ASSUME ReviewTypeOK, NEW r \in Requests, NEW n, ReadChunk(r, n)
  PROVE  \E a : Reads(r, n, a)
<1>. DEFINE w == stream[r].wire
            lines == SubSeq(w, 1, n)
            before == [event |-> "message", status |-> status, showsText |-> FALSE,
                       response |-> response, markers |-> markers, history |-> history,
                       q |-> request[r]]
            a == AfterLines(before, r, lines)
<1>1. /\ w \in Seq(Line) /\ Len(w) \in Nat /\ n \in 1 .. Len(w)
      /\ request[r].phase = "reading"
  BY LenProperties DEF ReadChunk, ReviewTypeOK, Stream
<1>2. \A i \in 1 .. n : w[i] \in Line
  <2>. HIDE DEF w
  <2>. QED  BY <1>1, ElementOfSeq
<1>3. Len(lines) = n /\ \A i \in 1 .. n : lines[i] = w[i]
  <2>. HIDE DEF w
  <2>1. /\ Len(SubSeq(w, 1, n)) = IF 1 <= n THEN n - 1 + 1 ELSE 0
        /\ \A i \in 1 .. n - 1 + 1 : SubSeq(w, 1, n)[i] = w[1 + i - 1]
    BY <1>1, <1>2, SubSeqProperties
  <2>. QED  BY <1>1, <2>1
<1>4. before \in Turn
  BY DEF ReviewTypeOK, Turn
<1>5. a = [i \in 0 .. n |-> IF i = 0 THEN before ELSE ReadLine(a[i - 1], r, lines[i])]
  <2>. HIDE DEF before, lines
  <2>1. Len(lines) \in Nat
    BY <1>1, <1>3
  <2>. QED  BY <1>3, <2>1, AfterLinesDef
<1>6. a[0] = before /\ \A i \in 1 .. n : a[i] = ReadLine(a[i - 1], r, w[i])
  <2>. HIDE DEF a, before, lines, w
  <2>. QED  BY <1>1, <1>3, <1>5
<1>7. \A i \in 0 .. n : a[i] \in Turn
  <2>1. ASSUME NEW i \in 1 .. n, a[i - 1] \in Turn
        PROVE  a[i] \in Turn
    <3>1. ReadLine(a[i - 1], r, w[i]) \in Turn
      <4>. HIDE DEF a, w
      <4>. QED  BY <1>2, <2>1, ReadLineFacts
    <3>. HIDE DEF a, w
    <3>. QED  BY <1>6, <3>1
  <2>. HIDE DEF a, before, w
  <2>. DEFINE S == {i \in 0 .. n : a[i] \in Turn}
  <2>2. n \in Nat /\ 0 \in 0 .. n /\ 0 \in S
    BY <1>1, <1>4, <1>6
  <2>3. \A i \in 0 + 1 .. n : i - 1 \in S => i \in S
    BY <2>1
  <2>. HIDE DEF S
  <2>4. \A i \in 0 .. n : i \in S
    BY <2>2, <2>3, LinesKeep
  <2>. QED  BY <2>4 DEF S
<1>8. /\ status' = a[n].status
      /\ streamingText' = IF a[n].showsText THEN r ELSE streamingText
      /\ response' = a[n].response
      /\ markers' = a[n].markers
      /\ history' = a[n].history
      /\ request' = [request EXCEPT ![r] = a[n].q]
      /\ stream' = [stream EXCEPT ![r].wire = SubSeq(w, n + 1, Len(w))]
      /\ torn' = [torn EXCEPT ![r] = torn[r] \/ w[n].part = "event"]
      /\ controller' = controller
  BY DEF ReadChunk
<1>. HIDE DEF a
<1>. QED  BY <1>1, <1>2, <1>6, <1>7, <1>8 DEF Reads

-----------------------------------------------------------------------------
(* What is aborted settles, and nothing else changes but what the caller     *)
(* changes.                                                                  *)
LEMMA AbortFacts ==
  ASSUME ReviewTypeOK, NEW q \in [Requests -> Request], NEW t \in [Requests -> Stream],
         NEW newStatus \in ReviewStatus, NEW newText \in Requests \cup {None},
         AbortController(q, t, newStatus, newText)
  PROVE  /\ request' \in [Requests -> Request] /\ stream' \in [Requests -> Stream]
         /\ status' \in ReviewStatus /\ streamingText' \in Requests \cup {None}
         /\ \A r \in Requests :
              IF r = controller /\ Open(r)
                THEN request'[r] = Settled(q[r]) /\ stream'[r] = Disconnected(t[r])
                ELSE request'[r] = q[r] /\ stream'[r] = t[r]
<1>1. \A x \in Request : Settled(x) \in Request
  BY DEF Settled, Request
<1>2. \A x \in Stream : Disconnected(x) \in Stream
  <2>1. <<>> \in Seq(Line)
    OBVIOUS
  <2>. QED  BY <2>1 DEF Disconnected, Stream
<1>3. CASE controller # None /\ Open(controller)
  <2>1. controller \in Requests
    BY <1>3 DEF ReviewTypeOK
  <2>2. /\ request' = [q EXCEPT ![controller] = Settled(q[controller])]
        /\ stream' = [t EXCEPT ![controller] = Disconnected(t[controller])]
    BY <1>3 DEF AbortController
  <2>3. /\ request' \in [Requests -> Request] /\ stream' \in [Requests -> Stream]
    BY <1>1, <1>2, <2>1, <2>2
  <2>4. status' \in ReviewStatus /\ streamingText' \in Requests \cup {None}
    BY <1>3, <2>1 DEF AbortController, ShowText, ReviewStatus
  <2>5. ASSUME NEW r \in Requests
        PROVE  IF r = controller /\ Open(r)
                 THEN request'[r] = Settled(q[r]) /\ stream'[r] = Disconnected(t[r])
                 ELSE request'[r] = q[r] /\ stream'[r] = t[r]
    BY <1>3, <2>1, <2>2
  <2>. QED  BY <2>3, <2>4, <2>5
<1>4. CASE ~(controller # None /\ Open(controller))
  BY <1>4 DEF AbortController
<1>. QED  BY <1>3, <1>4

(* What a request of the hook does to the one it makes. *)
LEMMA RequestFacts ==
  ASSUME ReviewTypeOK, NEW r \in Requests, RequestAIOperation(r)
  PROVE  \E q \in [Requests -> Request], t \in [Requests -> Stream] :
           /\ AbortController(q, t, "loading", None)
           /\ "loading" \in ReviewStatus /\ controller' = r /\ request[r].phase = "unused"
           /\ \A p \in Requests \ {r} : q[p] = request[p] /\ t[p] = stream[p]
           /\ request'[r] = q[r] /\ q[r].phase = "fetching" /\ q[r].flushing = request[r].flushing
           /\ stream'[r] = t[r] /\ t[r].stage = "waiting" /\ t[r].wire = stream[r].wire
<1>. DEFINE q == [request EXCEPT ![r].phase = "fetching"]
            t == [stream EXCEPT ![r].stage = "waiting"]
<1>1. q \in [Requests -> Request] /\ t \in [Requests -> Stream]
  <2>1. [request[r] EXCEPT !.phase = "fetching"] \in Request
    BY DEF ReviewTypeOK, Request
  <2>2. [stream[r] EXCEPT !.stage = "waiting"] \in Stream
    BY DEF ReviewTypeOK, Stream
  <2>. QED  BY <2>1, <2>2 DEF ReviewTypeOK
<1>2. /\ \A p \in Requests \ {r} : q[p] = request[p] /\ t[p] = stream[p]
      /\ q[r].phase = "fetching" /\ q[r].flushing = request[r].flushing
      /\ t[r].stage = "waiting" /\ t[r].wire = stream[r].wire
  BY DEF ReviewTypeOK, Request, Stream
<1>3. AbortController(q, t, "loading", None) /\ controller' = r /\ request[r].phase = "unused"
  BY DEF RequestAIOperation
<1>. HIDE DEF q, t
<1>4. "loading" \in ReviewStatus
  BY DEF ReviewStatus
<1>5. request'[r] = q[r] /\ stream'[r] = t[r]
  <2>1. ~Open(r)
    BY <1>3 DEF Open
  <2>. QED  BY <1>1, <1>3, <1>4, <2>1, AbortFacts
<1>. QED  BY <1>1, <1>2, <1>3, <1>4, <1>5

(* Cutting a response off at the browser is well typed, and so is settling.  *)
LEMMA SettledType ==
  ASSUME ReviewTypeOK, NEW r \in Requests, NEW E \in SUBSET Outcomes
  PROVE  /\ [Settled(request[r]) EXCEPT !.reported = request[r].reported \cup E] \in Request
         /\ Settled(request[r]) \in Request
         /\ Disconnected(stream[r]) \in Stream
<1>1. <<>> \in Seq(Line)
  OBVIOUS
<1>2. Disconnected(stream[r]) \in Stream
  BY <1>1 DEF Disconnected, Stream, ReviewTypeOK
<1>3. request[r] \in Request
  BY DEF ReviewTypeOK
<1>. QED  BY <1>2, <1>3 DEF Settled, Request

(* The service, the browser and the user keep the types. *)
LEMMA ReviewTypeStep ==
  ASSUME ReviewTypeOK, [ReviewNext]_reviewVars
  PROVE  ReviewTypeOK'
<1>1. ASSUME NEW r \in Requests, RequestAIOperation(r)
      PROVE  ReviewTypeOK'
  <2>1. PICK q \in [Requests -> Request], t \in [Requests -> Stream] :
          AbortController(q, t, "loading", None) /\ "loading" \in ReviewStatus
    BY <1>1, RequestFacts
  <2>2. /\ request' \in [Requests -> Request] /\ stream' \in [Requests -> Stream]
        /\ status' \in ReviewStatus /\ streamingText' \in Requests \cup {None}
    BY <2>1, AbortFacts
  <2>. QED  BY <1>1, <2>2 DEF RequestAIOperation, ReviewTypeOK
<1>2. CASE CancelReview
  <2>1. "cancelled" \in ReviewStatus
    BY DEF ReviewStatus
  <2>2. AbortController(request, stream, "cancelled", streamingText)
    BY <1>2 DEF CancelReview
  <2>3. /\ request' \in [Requests -> Request] /\ stream' \in [Requests -> Stream]
        /\ status' \in ReviewStatus /\ streamingText' \in Requests \cup {None}
    BY <2>1, <2>2, AbortFacts DEF ReviewTypeOK
  <2>. QED  BY <1>2, <2>3 DEF CancelReview, ReviewTypeOK
<1>3. CASE ClearDiagnostics
  BY <1>3 DEF ClearDiagnostics, ReviewTypeOK, ReviewStatus
<1>4. CASE SelectHistoryItem
  <2>1. PICK i \in 1 .. Len(history) : response' = history[i]
                                       /\ markers' = Marked(markers, history[i])
    BY <1>4 DEF SelectHistoryItem
  <2>2. history[i] \in HistoryItem
    BY ElementOfSeq DEF ReviewTypeOK
  <2>3. response' \in HistoryItem \cup {None} /\ markers' \in HistoryItem \cup {None}
    BY <2>1, <2>2 DEF Marked, ReviewTypeOK
  <2>. QED  BY <1>4, <2>3 DEF SelectHistoryItem, ReviewTypeOK
<1>5. ASSUME NEW r \in Requests, FetchResolves(r)
      PROVE  ReviewTypeOK'
  <2>1. [request[r] EXCEPT !.phase = "reading", !.flushing = TRUE] \in Request
    BY DEF ReviewTypeOK, Request
  <2>2. request' = [request EXCEPT ![r] = [request[r] EXCEPT !.phase = "reading",
                                                             !.flushing = TRUE]]
    BY <1>5 DEF FetchResolves, ReviewTypeOK, Request
  <2>3. request' \in [Requests -> Request]
    BY <2>1, <2>2 DEF ReviewTypeOK
  <2>. QED  BY <1>5, <2>3 DEF FetchResolves, ReviewTypeOK, hookVars
<1>6. ASSUME NEW r \in Requests, ConnectionFails(r)
      PROVE  ReviewTypeOK'
  <2>1. {"error"} \in SUBSET Outcomes
    BY DEF Outcomes
  <2>2. /\ request' \in [Requests -> Request]
        /\ stream' \in [Requests -> Stream]
    BY <1>6, <2>1, SettledType DEF ConnectionFails, ReviewTypeOK
  <2>3. status' \in ReviewStatus /\ streamingText' \in Requests \cup {None}
    BY <1>6 DEF ConnectionFails, ReviewTypeOK, ReviewStatus
  <2>. QED  BY <1>6, <2>2, <2>3 DEF ConnectionFails, ReviewTypeOK
<1>7. ASSUME NEW r \in Requests, FlushTick(r)
      PROVE  ReviewTypeOK'
  BY <1>7 DEF FlushTick, ReviewTypeOK, ReviewStatus
<1>8. ASSUME NEW r \in Requests, NEW n, ReadChunk(r, n)
      PROVE  ReviewTypeOK'
  <2>1. PICK a : Reads(r, n, a)
    BY <1>8, ChunkIsRead
  <2>2. n \in 1 .. Len(stream[r].wire) /\ stream[r].wire \in Seq(Line)
    BY <2>1 DEF Reads, ReviewTypeOK, Stream
  <2>3. a[n] \in Turn
    BY <2>1, <2>2, LenProperties DEF Reads
  <2>4. /\ status' \in ReviewStatus /\ streamingText' \in Requests \cup {None}
        /\ response' \in HistoryItem \cup {None} /\ markers' \in HistoryItem \cup {None}
        /\ history' \in Seq(HistoryItem) /\ controller' \in Requests \cup {None}
        /\ request' \in [Requests -> Request]
    BY <2>1, <2>3 DEF Reads, Turn, ReviewTypeOK
  <2>5. stream' \in [Requests -> Stream]
    <3>. DEFINE left == SubSeq(stream[r].wire, n + 1, Len(stream[r].wire))
    <3>1. left \in Seq(Line)
      BY <2>2, LinesLeft
    <3>2. stream' = [stream EXCEPT ![r].wire = left]
      BY <2>1 DEF Reads
    <3>. HIDE DEF left
    <3>. QED  BY <3>1, <3>2 DEF ReviewTypeOK, Stream
  <2>6. torn' \in [Requests -> BOOLEAN]
    <3>1. torn' = [torn EXCEPT ![r] = torn[r] \/ stream[r].wire[n].part = "event"]
      BY <2>1 DEF Reads
    <3>2. (torn[r] \/ stream[r].wire[n].part = "event") \in BOOLEAN
      OBVIOUS
    <3>. QED  BY <3>1, <3>2, Zenon DEF ReviewTypeOK
  <2>. QED  BY <2>4, <2>5, <2>6 DEF ReviewTypeOK
<1>9. ASSUME NEW r \in Requests, StreamDone(r)
      PROVE  ReviewTypeOK'
  <2>1. request' \in [Requests -> Request]
    BY <1>9, SettledType DEF StreamDone, ReviewTypeOK
  <2>2. status' \in ReviewStatus /\ streamingText' \in Requests \cup {None}
    BY <1>9 DEF StreamDone, ShowText, ReviewTypeOK, ReviewStatus
  <2>. QED  BY <1>9, <2>1, <2>2 DEF StreamDone, ReviewTypeOK
<1>10. ASSUME NEW r \in Requests, EndResponse(r)
       PROVE  ReviewTypeOK'
  <2>1. [stream[r] EXCEPT !.stage = "ended"] \in Stream
    BY DEF ReviewTypeOK, Stream
  <2>2. stream' \in [Requests -> Stream]
    BY <1>10, <2>1 DEF EndResponse, ReviewTypeOK
  <2>. QED  BY <1>10, <2>2 DEF EndResponse, hookVars, ReviewTypeOK
<1>11. ASSUME NEW r \in Requests, UpstreamFails(r)
       PROVE  ReviewTypeOK'
  BY <1>11, FailFacts DEF ReviewTypeOK, hookVars
<1>12. ASSUME NEW r \in Requests, NEW k \in Kinds, Emit(r, k)
       PROVE  ReviewTypeOK'
  BY <1>12, EmitFacts DEF ReviewTypeOK, hookVars
<1>13. CASE UNCHANGED reviewVars
  BY <1>13 DEF reviewVars, hookVars, ReviewTypeOK
<1>. QED
  BY <1>1, <1>2, <1>3, <1>4, <1>5, <1>6, <1>7, <1>8, <1>9, <1>10, <1>11, <1>12, <1>13
     DEF ReviewNext, Receive, Serve

(* Every reachable state of the hook, its requests and their responses is    *)
(* well typed; no garbled line becomes an item of the history.               *)
THEOREM ReviewTypeCorrect == ReviewSpec => []ReviewTypeOK
<1>1. ReviewInit => ReviewTypeOK
  BY DEF ReviewInit, ReviewTypeOK, ReviewStatus, Request, Stream
<1>. QED  BY <1>1, ReviewTypeStep, PTL DEF ReviewSpec

-----------------------------------------------------------------------------
(* A turn of the read loop leaves the request reading, does not turn the     *)
(* flush loop on, and takes no outcome back.                                 *)
LEMMA ChunkRequest ==
  ASSUME ReviewTypeOK, NEW r \in Requests, NEW n, NEW a, Reads(r, n, a)
  PROVE  /\ n \in Nat /\ n \in 1 .. Len(stream[r].wire)
         /\ request'[r] = a[n].q /\ a[n].q.phase = "reading" /\ request[r].phase = "reading"
         /\ a[n].q.flushing => request[r].flushing
         /\ \A i \in 0 .. n : a[i].q.reported \subseteq a[n].q.reported
         /\ request[r].reported \subseteq a[n].q.reported
         /\ \A p \in Requests \ {r} : request'[p] = request[p]
<1>1. n \in Nat /\ n \in 1 .. Len(stream[r].wire)
  BY LenProperties DEF Reads, ReviewTypeOK, Stream
<1>2. ASSUME NEW i \in 1 .. n
      PROVE  /\ i - 1 \in 0 .. n
             /\ a[i].q.phase = a[i - 1].q.phase
             /\ a[i].q.flushing => a[i - 1].q.flushing
             /\ a[i - 1].q.reported \subseteq a[i].q.reported
  <2>1. i - 1 \in 0 .. n /\ a[i - 1] \in Turn /\ stream[r].wire[i] \in Line
        /\ a[i] = ReadLine(a[i - 1], r, stream[r].wire[i])
    BY <1>1 DEF Reads
  <2>. DEFINE t == a[i - 1]
              line == stream[r].wire[i]
              u == ReadLine(t, r, line)
  <2>2. t \in Turn /\ line \in Line /\ a[i] = u
    BY <2>1
  <2>. HIDE DEF t, line
  <2>3. u.q.phase = t.q.phase /\ (u.q.flushing => t.q.flushing) /\ t.q.reported \subseteq u.q.reported
    BY <2>2, ReadLineFacts
  <2>. HIDE DEF u
  <2>. QED  BY <2>1, <2>2, <2>3 DEF t
<1>3. a[0].q = request[r] /\ request[r].phase = "reading"
  BY DEF Reads
<1>4. \A i \in 0 .. n : a[i].q.phase = "reading" /\ (a[i].q.flushing => request[r].flushing)
  <2>. DEFINE S == {i \in 0 .. n : a[i].q.phase = "reading"
                                  /\ (a[i].q.flushing => request[r].flushing)}
  <2>1. 0 \in S /\ 0 \in 0 .. n
    BY <1>1, <1>3
  <2>2. \A i \in 0 + 1 .. n : i - 1 \in S => i \in S
    BY <1>1, <1>2
  <2>. HIDE DEF S
  <2>3. \A i \in 0 .. n : i \in S
    BY <1>1, <2>1, <2>2, LinesKeep
  <2>. QED  BY <2>3 DEF S
<1>5. ASSUME NEW j \in 0 .. n
      PROVE  a[j].q.reported \subseteq a[n].q.reported
  <2>. DEFINE S == {i \in j .. n : a[j].q.reported \subseteq a[i].q.reported}
  <2>1. j \in S
    BY <1>1
  <2>2. \A i \in j + 1 .. n : i - 1 \in S => i \in S
    BY <1>1, <1>2
  <2>. HIDE DEF S
  <2>3. \A i \in j .. n : i \in S
    BY <1>1, <2>1, <2>2, LinesKeep
  <2>4. n \in j .. n
    BY <1>1
  <2>. QED  BY <2>3, <2>4 DEF S
<1>6. request' = [request EXCEPT ![r] = a[n].q]
  BY DEF Reads
<1>7. request'[r] = a[n].q /\ \A p \in Requests \ {r} : request'[p] = request[p]
  BY <1>6 DEF ReviewTypeOK
<1>8. n \in 0 .. n /\ 0 \in 0 .. n
  BY <1>1
<1>. QED  BY <1>1, <1>3, <1>4, <1>5, <1>7, <1>8

(* A request that ends settles, and its flush loop is off. *)
LEMMA SettledIs ==
  ASSUME NEW q \in Request
  PROVE  /\ Settled(q).phase = "settled" /\ ~Settled(q).flushing
         /\ Settled(q).reported = q.reported /\ Settled(q).buffered = q.buffered
BY DEF Settled, Request

(* Nothing that was open stays so when the hook aborts. *)
LEMMA AbortCloses ==
  ASSUME ReviewTypeOK, OnlyControllerRuns,
         NEW q \in [Requests -> Request], NEW t \in [Requests -> Stream],
         NEW newStatus \in ReviewStatus, NEW newText \in Requests \cup {None},
         AbortController(q, t, newStatus, newText),
         NEW p \in Requests, q[p] = request[p]
  PROVE  ~Open(p)'
<1>1. IF p = controller /\ Open(p)
        THEN request'[p] = Settled(q[p]) ELSE request'[p] = q[p]
  BY AbortFacts
<1>2. CASE p = controller /\ Open(p)
  BY <1>1, <1>2, SettledIs DEF Open
<1>3. CASE ~(p = controller /\ Open(p))
  BY <1>1, <1>3 DEF Open, OnlyControllerRuns
<1>. QED  BY <1>2, <1>3

-----------------------------------------------------------------------------
LEMMA ControllerStep ==
  ASSUME ReviewTypeOK, OnlyControllerRuns, [ReviewNext]_reviewVars
  PROVE  OnlyControllerRuns'
<1>. SUFFICES ASSUME NEW p \in Requests, Open(p)'
              PROVE  controller' = p
  BY DEF OnlyControllerRuns
<1>. DEFINE Stays == Open(p) /\ controller' = controller
<1>1. Stays => controller' = p
  BY DEF OnlyControllerRuns
<1>2. ASSUME NEW r \in Requests, RequestAIOperation(r)
      PROVE  controller' = p
  <2>1. PICK q \in [Requests -> Request], t \in [Requests -> Stream] :
          /\ AbortController(q, t, "loading", None)
          /\ "loading" \in ReviewStatus /\ controller' = r
          /\ \A o \in Requests \ {r} : q[o] = request[o]
    BY <1>2, RequestFacts
  <2>2. p # r => ~Open(p)'
    BY <2>1, AbortCloses
  <2>. QED  BY <2>1, <2>2
<1>3. CASE CancelReview
  <2>1. "cancelled" \in ReviewStatus /\ AbortController(request, stream, "cancelled", streamingText)
    BY <1>3 DEF CancelReview, ReviewStatus
  <2>2. ~Open(p)'
    BY <2>1, AbortCloses DEF ReviewTypeOK
  <2>. QED  BY <2>2
<1>4. ASSUME NEW r \in Requests, FetchResolves(r)
      PROVE  Stays
  BY <1>4 DEF FetchResolves, hookVars, Open, ReviewTypeOK, Request
<1>5. ASSUME NEW r \in Requests, ConnectionFails(r)
      PROVE  Stays
  <2>1. request'[r].phase = "settled" /\ \A o \in Requests \ {r} : request'[o] = request[o]
    BY <1>5 DEF ConnectionFails, Settled, ReviewTypeOK, Request
  <2>. QED  BY <1>5, <2>1 DEF ConnectionFails, Open
<1>6. ASSUME NEW r \in Requests, NEW n, ReadChunk(r, n)
      PROVE  Stays
  <2>1. PICK a : Reads(r, n, a)
    BY <1>6, ChunkIsRead
  <2>2. request[r].phase = "reading" /\ \A o \in Requests \ {r} : request'[o] = request[o]
    BY <2>1, ChunkRequest
  <2>. QED  BY <2>1, <2>2 DEF Reads, Open
<1>7. ASSUME NEW r \in Requests, StreamDone(r)
      PROVE  Stays
  <2>1. request'[r].phase = "settled" /\ \A o \in Requests \ {r} : request'[o] = request[o]
    BY <1>7 DEF StreamDone, Settled, ReviewTypeOK, Request
  <2>. QED  BY <1>7, <2>1 DEF StreamDone, Open
<1>8. CASE UNCHANGED <<request, controller>>
  BY <1>1, <1>8 DEF Open
<1>. QED
  BY <1>1, <1>2, <1>3, <1>4, <1>5, <1>6, <1>7, <1>8
     DEF ReviewNext, Receive, Serve, ClearDiagnostics, SelectHistoryItem, FlushTick,
         EndResponse, UpstreamFails, Emit, reviewVars, hookVars

LEMMA FlushStep ==
  ASSUME ReviewTypeOK, FlushLoopEnds, [ReviewNext]_reviewVars
  PROVE  FlushLoopEnds'
<1>. SUFFICES ASSUME NEW p \in Requests, request'[p].flushing
              PROVE  request'[p].phase = "reading"
  BY DEF FlushLoopEnds
<1>. DEFINE Same(r) == \A o \in Requests \ {r} : request'[o] = request[o]
<1>1. request[p].flushing => request[p].phase = "reading"
  BY DEF FlushLoopEnds
<1>2. ASSUME NEW q \in [Requests -> Request], NEW t \in [Requests -> Stream],
             NEW newStatus \in ReviewStatus, NEW newText \in Requests \cup {None},
             AbortController(q, t, newStatus, newText)
      PROVE  request'[p] = q[p]
  <2>1. IF p = controller /\ Open(p)
          THEN request'[p] = Settled(q[p]) ELSE request'[p] = q[p]
    BY <1>2, AbortFacts
  <2>2. ~Settled(q[p]).flushing
    BY SettledIs
  <2>. QED  BY <2>1, <2>2
<1>3. ASSUME NEW r \in Requests, RequestAIOperation(r)
      PROVE  request'[p].phase = "reading"
  <2>1. PICK q \in [Requests -> Request], t \in [Requests -> Stream] :
          /\ AbortController(q, t, "loading", None)
          /\ "loading" \in ReviewStatus /\ request[r].phase = "unused"
          /\ \A o \in Requests \ {r} : q[o] = request[o]
          /\ q[r].flushing = request[r].flushing
    BY <1>3, RequestFacts
  <2>2. request'[p] = q[p]
    BY <1>2, <2>1
  <2>. QED  BY <1>1, <2>1, <2>2
<1>4. CASE CancelReview
  <2>1. "cancelled" \in ReviewStatus /\ AbortController(request, stream, "cancelled", streamingText)
    BY <1>4 DEF CancelReview, ReviewStatus
  <2>2. request'[p] = request[p]
    BY <1>2, <2>1 DEF ReviewTypeOK
  <2>. QED  BY <1>1, <2>2
<1>5. ASSUME NEW r \in Requests, FetchResolves(r)
      PROVE  request'[p].phase = "reading"
  BY <1>1, <1>5 DEF FetchResolves, ReviewTypeOK, Request
<1>6. ASSUME NEW r \in Requests, ConnectionFails(r)
      PROVE  request'[p].phase = "reading"
  <2>1. ~request'[r].flushing /\ Same(r)
    BY <1>6 DEF ConnectionFails, Settled, ReviewTypeOK, Request
  <2>. QED  BY <1>1, <2>1
<1>7. ASSUME NEW r \in Requests, NEW n, ReadChunk(r, n)
      PROVE  request'[p].phase = "reading"
  <2>1. PICK a : Reads(r, n, a)
    BY <1>7, ChunkIsRead
  <2>2. request'[r].phase = "reading" /\ Same(r)
    BY <2>1, ChunkRequest
  <2>. QED  BY <1>1, <2>2
<1>8. ASSUME NEW r \in Requests, StreamDone(r)
      PROVE  request'[p].phase = "reading"
  <2>1. ~request'[r].flushing /\ Same(r)
    BY <1>8 DEF StreamDone, Settled, ReviewTypeOK, Request
  <2>. QED  BY <1>1, <2>1
<1>9. CASE UNCHANGED request
  BY <1>1, <1>9
<1>. QED
  BY <1>3, <1>4, <1>5, <1>6, <1>7, <1>8, <1>9
     DEF ReviewNext, Receive, Serve, ClearDiagnostics, SelectHistoryItem, FlushTick,
         EndResponse, UpstreamFails, Emit, reviewVars, hookVars

(* A request whose response is still being read is the one that the hook can *)
(* cancel: cancelling, clearing, outcomes that arrive before the response    *)
(* ends and new requests never leave a second one running behind it          *)
(* (useAIReview 61-67).                                                      *)
THEOREM ControllerCorrect == ReviewSpec => []OnlyControllerRuns
<1>1. ReviewInit => OnlyControllerRuns
  BY DEF ReviewInit, OnlyControllerRuns, Open
<1>. QED  BY <1>1, ReviewTypeCorrect, ControllerStep, PTL DEF ReviewSpec

(* The flush loop of a request ends with it, however it ends, so a finished  *)
(* review never takes over the text of the next one (aiClient 75-83).        *)
THEOREM FlushCorrect == ReviewSpec => []FlushLoopEnds
<1>1. ReviewInit => FlushLoopEnds
  BY DEF ReviewInit, FlushLoopEnds
<1>. QED  BY <1>1, ReviewTypeCorrect, FlushStep, PTL DEF ReviewSpec

-----------------------------------------------------------------------------
(* The markers m go with what the drawer shows. *)
Match(m, shown) == m # None => shown # None /\ (shown = m \/ shown.payload # "complete")

(* Showing an item keeps them together. *)
LEMMA ShownMatches ==
  ASSUME NEW m, NEW item \in HistoryItem
  PROVE  Match(Marked(m, item), item)
BY DEF Match, Marked

LEMMA ItemIs ==
  ASSUME NEW r \in Requests, NEW line \in Line, line.kind # "garbled"
  PROVE  /\ Item(r, line) \in HistoryItem
         /\ Item(r, line).id = r /\ Item(r, line).payload = line.kind
BY DEF Item, HistoryItem, Line

LEMMA MarkersStep ==
  ASSUME ReviewTypeOK, MarkersMatchDrawer, [ReviewNext]_reviewVars
  PROVE  MarkersMatchDrawer'
<1>1. MarkersMatchDrawer = Match(markers, response)
      /\ MarkersMatchDrawer' = Match(markers', response')
  BY DEF MarkersMatchDrawer, Match
<1>2. CASE markers' = None
  BY <1>2 DEF MarkersMatchDrawer
<1>3. CASE UNCHANGED <<markers, response>>
  BY <1>3 DEF MarkersMatchDrawer
<1>4. CASE SelectHistoryItem
  <2>1. PICK i \in 1 .. Len(history) : response' = history[i]
                                       /\ markers' = Marked(markers, history[i])
    BY <1>4 DEF SelectHistoryItem
  <2>2. history[i] \in HistoryItem
    BY ElementOfSeq DEF ReviewTypeOK
  <2>3. Match(markers', response')
    BY <2>1, <2>2, ShownMatches
  <2>. QED  BY <1>1, <2>3
<1>5. ASSUME NEW r \in Requests, NEW n, ReadChunk(r, n)
      PROVE  MarkersMatchDrawer'
  <2>1. PICK a : Reads(r, n, a)
    BY <1>5, ChunkIsRead
  <2>2. n \in Nat /\ 0 \in 0 .. n /\ n \in 0 .. n
    BY <2>1, ChunkRequest
  <2>. DEFINE S == {i \in 0 .. n : Match(a[i].markers, a[i].response)}
  <2>3. 0 \in S
    BY <1>1, <2>1, <2>2 DEF Reads
  <2>4. ASSUME NEW i \in 0 + 1 .. n, i - 1 \in S
        PROVE  i \in S
    <3>. DEFINE t == a[i - 1]
                line == stream[r].wire[i]
                u == ReadLine(t, r, line)
    <3>1. t \in Turn /\ line \in Line /\ a[i] = u /\ Match(t.markers, t.response)
      BY <2>1, <2>4 DEF Reads
    <3>. HIDE DEF t, line
    <3>2. IF Completes(t, line)
            THEN u.response = Item(r, line) /\ u.markers = Marked(t.markers, Item(r, line))
            ELSE u.response = t.response /\ u.markers = t.markers
      BY <3>1, ReadLineFacts
    <3>. HIDE DEF u
    <3>3. Completes(t, line) => Item(r, line) \in HistoryItem
      BY <3>1, ItemIs DEF Completes
    <3>4. Match(u.markers, u.response)
      BY <3>1, <3>2, <3>3, ShownMatches
    <3>. QED  BY <3>1, <3>4
  <2>. HIDE DEF S
  <2>5. \A i \in 0 .. n : i \in S
    BY <2>2, <2>3, <2>4, LinesKeep
  <2>6. Match(a[n].markers, a[n].response)
    BY <2>2, <2>5 DEF S
  <2>. QED  BY <1>1, <2>1, <2>6 DEF Reads
<1>. QED
  BY <1>2, <1>3, <1>4, <1>5
     DEF ReviewNext, RequestAIOperation, CancelReview, ClearDiagnostics, FetchResolves,
         ConnectionFails, FlushTick, Receive, StreamDone, Serve, EndResponse, UpstreamFails,
         Emit, reviewVars, hookVars

(* What is marked in the editor is what the drawer shows, however requests,  *)
(* outcomes, clearing and the history follow one another; unless the drawer  *)
(* shows what a torn event carried, which is no review (useAIReview 74-81,   *)
(* 100-119).                                                                 *)
THEOREM MarkersCorrect == ReviewSpec => []MarkersMatchDrawer
<1>1. ReviewInit => MarkersMatchDrawer
  BY DEF ReviewInit, MarkersMatchDrawer
<1>. QED  BY <1>1, ReviewTypeCorrect, MarkersStep, PTL DEF ReviewSpec

-----------------------------------------------------------------------------
(* The lines of whole events: every event line is followed by data of its    *)
(* kind, and every data line follows the event line it belongs to.           *)
Whole(w) ==
  /\ \A i \in 1 .. Len(w) : w[i].part = "event" => i < Len(w) /\ w[i + 1] = DataLine(w[i].kind)
  /\ \A i \in 1 .. Len(w) : w[i].part = "data" => i > 1 /\ w[i - 1] = EventLine(w[i].kind)

Names(line, kinds) == line.part = "event" /\ line.kind \in kinds
Readable(line) == line.part = "data" /\ line.kind # "garbled"

(* The lines complete a review at most once: the event is named once, and no *)
(* two readable lines follow it without another event between them.          *)
NoCompletion(w) == \A c \in 1 .. Len(w) : ~Names(w[c], {"complete"})
CompletesOnce(w) ==
  \A c \in 1 .. Len(w) : Names(w[c], {"complete"}) =>
    /\ \A d \in 1 .. Len(w) : Names(w[d], {"complete"}) => d = c
    /\ \A i, j \in c + 1 .. Len(w) :
         i < j /\ Readable(w[i]) /\ Readable(w[j]) => \E e \in i + 1 .. j - 1 : w[e].part = "event"

Ids(h) == {h[i].id : i \in 1 .. Len(h)}

(* The lines that a chunk of n lines leaves. *)
Rest(old, new, n) ==
  /\ new \in Seq(Line) /\ Len(new) = Len(old) - n
  /\ \A i \in 1 .. Len(new) : new[i] = old[n + i]

LEMMA NoLines ==
  Whole(<<>>) /\ NoCompletion(<<>>) /\ CompletesOnce(<<>>)
BY DEF Whole, NoCompletion, CompletesOnce

LEMMA NoneCompletesOnce ==
  ASSUME NEW w, NoCompletion(w)
  PROVE  CompletesOnce(w)
BY DEF NoCompletion, CompletesOnce

(* Reading does not change what the lines that are left are. *)
LEMMA RestLines ==
  ASSUME NEW w \in Seq(Line), NEW n \in 1 .. Len(w), NEW v, Rest(w, v, n)
  PROVE  /\ Whole(w) /\ w[n].part # "event" => Whole(v)
         /\ NoCompletion(w) => NoCompletion(v)
         /\ CompletesOnce(w) => CompletesOnce(v)
<1>1. Len(w) \in Nat /\ Len(v) \in Nat /\ n \in Nat /\ Len(v) = Len(w) - n
  BY LenProperties DEF Rest
<1>2. ASSUME NEW i \in 1 .. Len(v)
      PROVE  n + i \in 1 .. Len(w) /\ v[i] = w[n + i] /\ w[n + i] \in Line
  <2>1. n + i \in 1 .. Len(w)
    BY <1>1
  <2>. QED  BY <2>1, ElementOfSeq DEF Rest
<1>3. ASSUME Whole(w), w[n].part # "event"
      PROVE  Whole(v)
  <2>1. ASSUME NEW i \in 1 .. Len(v), v[i].part = "event"
        PROVE  i < Len(v) /\ v[i + 1] = DataLine(v[i].kind)
    <3>1. n + i < Len(w) /\ w[n + i + 1] = DataLine(w[n + i].kind)
      BY <1>2, <1>3, <2>1 DEF Whole
    <3>2. i + 1 \in 1 .. Len(v) /\ n + (i + 1) = n + i + 1
      BY <1>1, <3>1
    <3>. QED  BY <1>1, <1>2, <3>1, <3>2
  <2>2. ASSUME NEW i \in 1 .. Len(v), v[i].part = "data"
        PROVE  i > 1 /\ v[i - 1] = EventLine(v[i].kind)
    <3>1. w[n + i - 1] = EventLine(w[n + i].kind)
      BY <1>2, <1>3, <2>2 DEF Whole
    <3>2. i # 1
      <4>1. ASSUME i = 1
            PROVE  w[n].part = "event"
        BY <1>1, <3>1, <4>1 DEF EventLine
      <4>. QED  BY <1>3, <4>1
    <3>3. i - 1 \in 1 .. Len(v) /\ n + (i - 1) = n + i - 1 /\ i > 1
      BY <1>1, <3>2
    <3>. QED  BY <1>2, <3>1, <3>3
  <2>. QED  BY <2>1, <2>2 DEF Whole
<1>4. ASSUME NoCompletion(w)
      PROVE  NoCompletion(v)
  BY <1>2, <1>4 DEF NoCompletion
<1>5. ASSUME CompletesOnce(w)
      PROVE  CompletesOnce(v)
  <2>. SUFFICES ASSUME NEW c \in 1 .. Len(v), Names(v[c], {"complete"})
                PROVE  /\ \A d \in 1 .. Len(v) : Names(v[d], {"complete"}) => d = c
                       /\ \A i, j \in c + 1 .. Len(v) :
                            i < j /\ Readable(v[i]) /\ Readable(v[j])
                              => \E e \in i + 1 .. j - 1 : v[e].part = "event"
    BY DEF CompletesOnce
  <2>1. n + c \in 1 .. Len(w) /\ Names(w[n + c], {"complete"})
    BY <1>2
  <2>2. /\ \A d \in 1 .. Len(w) : Names(w[d], {"complete"}) => d = n + c
        /\ \A i, j \in n + c + 1 .. Len(w) :
             i < j /\ Readable(w[i]) /\ Readable(w[j])
               => \E e \in i + 1 .. j - 1 : w[e].part = "event"
    BY <1>5, <2>1 DEF CompletesOnce
  <2>3. ASSUME NEW d \in 1 .. Len(v), Names(v[d], {"complete"})
        PROVE  d = c
    <3>1. n + d = n + c
      BY <1>2, <2>2, <2>3
    <3>. QED  BY <1>1, <3>1
  <2>4. ASSUME NEW i \in c + 1 .. Len(v), NEW j \in c + 1 .. Len(v),
               i < j, Readable(v[i]), Readable(v[j])
        PROVE  \E e \in i + 1 .. j - 1 : v[e].part = "event"
    <3>1. i \in 1 .. Len(v) /\ j \in 1 .. Len(v)
      BY <1>1
    <3>2. /\ n + i \in n + c + 1 .. Len(w) /\ n + j \in n + c + 1 .. Len(w)
          /\ n + i < n + j /\ Readable(w[n + i]) /\ Readable(w[n + j])
      BY <1>1, <1>2, <2>4, <3>1
    <3>3. PICK e \in n + i + 1 .. n + j - 1 : w[e].part = "event"
      BY <2>2, <3>2
    <3>4. e - n \in i + 1 .. j - 1 /\ e - n \in 1 .. Len(v) /\ n + (e - n) = e
      BY <1>1
    <3>. QED  BY <1>2, <3>3, <3>4
  <2>. QED  BY <2>3, <2>4
<1>. QED  BY <1>3, <1>4, <1>5

(* Nor does what is sent after them. *)
LEMMA SentLines ==
  ASSUME NEW w \in Seq(Line), NEW v, NEW k \in Kinds \cup {"garbled"},
         NEW l \in Kinds \cup {"garbled"}, Sends(w, v, k, l)
  PROVE  /\ Whole(w) /\ k = l => Whole(v)
         /\ NoCompletion(w) /\ k # "complete" => NoCompletion(v)
         /\ CompletesOnce(w) /\ k # "complete" => CompletesOnce(v)
         /\ NoCompletion(w) => CompletesOnce(v)
<1>. DEFINE m == Len(w)
<1>1. m \in Nat /\ Len(v) = m + 2 /\ \A i \in 1 .. m : v[i] = w[i] /\ w[i] \in Line
  BY LenProperties, ElementOfSeq DEF Sends
<1>2. /\ v[m + 1].part = "event" /\ v[m + 1].kind = k
      /\ v[m + 2].part = "data" /\ v[m + 2].kind = l
      /\ v[m + 1] = EventLine(k) /\ v[m + 2] = DataLine(l)
  BY DEF Sends, EventLine, DataLine
<1>3. \A i \in 1 .. Len(v) : i \in 1 .. m \/ i = m + 1 \/ i = m + 2
  BY <1>1
<1>. HIDE DEF m
<1>4. ASSUME Whole(w), k = l
      PROVE  Whole(v)
  <2>1. ASSUME NEW i \in 1 .. Len(v), v[i].part = "event"
        PROVE  i < Len(v) /\ v[i + 1] = DataLine(v[i].kind)
    <3>1. CASE i \in 1 .. m
      <4>1. i < m /\ w[i + 1] = DataLine(w[i].kind)
        BY <1>1, <1>4, <2>1, <3>1 DEF Whole, m
      <4>. QED  BY <1>1, <3>1, <4>1
    <3>2. CASE i = m + 1
      BY <1>1, <1>2, <1>4, <3>2
    <3>3. CASE i = m + 2
      BY <1>2, <2>1, <3>3
    <3>. QED  BY <1>3, <3>1, <3>2, <3>3
  <2>2. ASSUME NEW i \in 1 .. Len(v), v[i].part = "data"
        PROVE  i > 1 /\ v[i - 1] = EventLine(v[i].kind)
    <3>1. CASE i \in 1 .. m
      <4>1. i > 1 /\ w[i - 1] = EventLine(w[i].kind)
        BY <1>1, <1>4, <2>2, <3>1 DEF Whole, m
      <4>. QED  BY <1>1, <3>1, <4>1
    <3>2. CASE i = m + 1
      BY <1>2, <2>2, <3>2
    <3>3. CASE i = m + 2
      BY <1>1, <1>2, <1>4, <3>3
    <3>. QED  BY <1>3, <3>1, <3>2, <3>3
  <2>. QED  BY <2>1, <2>2 DEF Whole
<1>5. ASSUME NoCompletion(w), k # "complete"
      PROVE  NoCompletion(v)
  <2>. SUFFICES ASSUME NEW c \in 1 .. Len(v)
                PROVE  ~Names(v[c], {"complete"})
    BY DEF NoCompletion
  <2>1. c \in 1 .. m => ~Names(w[c], {"complete"})
    BY <1>5 DEF NoCompletion, m
  <2>. QED  BY <1>1, <1>2, <1>3, <1>5, <2>1 DEF Names
<1>6. ASSUME CompletesOnce(w), k # "complete"
      PROVE  CompletesOnce(v)
  <2>. SUFFICES ASSUME NEW c \in 1 .. Len(v), Names(v[c], {"complete"})
                PROVE  /\ \A d \in 1 .. Len(v) : Names(v[d], {"complete"}) => d = c
                       /\ \A i, j \in c + 1 .. Len(v) :
                            i < j /\ Readable(v[i]) /\ Readable(v[j])
                              => \E e \in i + 1 .. j - 1 : v[e].part = "event"
    BY DEF CompletesOnce
  <2>1. ASSUME NEW d \in 1 .. Len(v), Names(v[d], {"complete"})
        PROVE  d \in 1 .. m /\ Names(w[d], {"complete"})
    BY <1>1, <1>2, <1>3, <1>6, <2>1 DEF Names
  <2>2. /\ c \in 1 .. m
        /\ \A d \in 1 .. m : Names(w[d], {"complete"}) => d = c
        /\ \A i, j \in c + 1 .. m :
             i < j /\ Readable(w[i]) /\ Readable(w[j])
               => \E e \in i + 1 .. j - 1 : w[e].part = "event"
    BY <1>6, <2>1 DEF CompletesOnce, m
  <2>3. ASSUME NEW i \in c + 1 .. Len(v), NEW j \in c + 1 .. Len(v),
               i < j, Readable(v[i]), Readable(v[j])
        PROVE  \E e \in i + 1 .. j - 1 : v[e].part = "event"
    <3>1. i # m + 1 /\ j # m + 1
      BY <1>2, <2>3 DEF Readable
    <3>2. i \in c + 1 .. m /\ (j \in c + 1 .. m \/ j = m + 2)
      BY <1>1, <2>2, <2>3, <3>1
    <3>3. CASE j \in c + 1 .. m
      <4>1. Readable(w[i]) /\ Readable(w[j])
        BY <1>1, <2>2, <2>3, <3>2, <3>3
      <4>2. PICK e \in i + 1 .. j - 1 : w[e].part = "event"
        BY <2>2, <2>3, <3>2, <3>3, <4>1
      <4>3. e \in 1 .. m
        BY <1>1, <2>2, <3>2, <3>3
      <4>. QED  BY <1>1, <4>2, <4>3
    <3>4. CASE j = m + 2
      <4>1. m + 1 \in i + 1 .. j - 1
        BY <1>1, <2>2, <3>2, <3>4
      <4>. QED  BY <1>2, <4>1
    <3>. QED  BY <3>2, <3>3, <3>4
  <2>. QED  BY <2>1, <2>2, <2>3
<1>7. ASSUME NoCompletion(w)
      PROVE  CompletesOnce(v)
  <2>. SUFFICES ASSUME NEW c \in 1 .. Len(v), Names(v[c], {"complete"})
                PROVE  /\ \A d \in 1 .. Len(v) : Names(v[d], {"complete"}) => d = c
                       /\ \A i, j \in c + 1 .. Len(v) :
                            i < j /\ Readable(v[i]) /\ Readable(v[j])
                              => \E e \in i + 1 .. j - 1 : v[e].part = "event"
    BY DEF CompletesOnce
  <2>1. ASSUME NEW d \in 1 .. Len(v), Names(v[d], {"complete"})
        PROVE  d = m + 1
    <3>1. d \in 1 .. m => ~Names(w[d], {"complete"})
      BY <1>7 DEF NoCompletion, m
    <3>. QED  BY <1>1, <1>2, <1>3, <2>1, <3>1 DEF Names
  <2>2. c = m + 1 /\ c + 1 .. Len(v) = {m + 2}
    BY <1>1, <2>1
  <2>. QED  BY <1>1, <2>1, <2>2
<1>. QED  BY <1>4, <1>5, <1>6, <1>7

(* Only one line can be read of an event that is torn after its name. *)
LEMMA TornLines ==
  ASSUME NEW w \in Seq(Line), NEW v, NEW k \in Kinds, SendsTorn(w, v, k), NoCompletion(w)
  PROVE  CompletesOnce(v)
<1>. DEFINE m == Len(w)
<1>1. m \in Nat /\ Len(v) = m + 3 /\ \A i \in 1 .. m : v[i] = w[i]
  BY LenProperties DEF SendsTorn
<1>2. /\ v[m + 2].part = "data" /\ v[m + 2].kind = "garbled" /\ v[m + 3].part = "data"
  BY DEF SendsTorn, DataLine
<1>. HIDE DEF m
<1>3. ASSUME NEW d \in 1 .. Len(v), Names(v[d], {"complete"})
      PROVE  d = m + 1
  <2>1. d \in 1 .. m => ~Names(w[d], {"complete"})
    BY DEF NoCompletion, m
  <2>2. d \in 1 .. m \/ d = m + 1 \/ d = m + 2 \/ d = m + 3
    BY <1>1
  <2>. QED  BY <1>1, <1>2, <1>3, <2>1, <2>2 DEF Names
<1>4. ASSUME NEW i \in m + 2 .. Len(v), NEW j \in m + 2 .. Len(v), i < j
      PROVE  ~Readable(v[i])
  <2>1. i = m + 2
    BY <1>1, <1>4
  <2>. QED  BY <1>2, <2>1 DEF Readable
<1>5. (m + 1) + 1 = m + 2
  BY <1>1
<1>. QED  BY <1>3, <1>4, <1>5 DEF CompletesOnce

(* What is on its way to the browser. *)
WireAt(r) ==
  /\ ~torn[r] => Whole(stream[r].wire)
  /\ CompletesOnce(stream[r].wire)
  /\ stream[r].stage \in {"none", "waiting", "generating"} => NoCompletion(stream[r].wire)
  /\ request[r].phase = "unused" => stream[r].stage = "none"

WireInv == \A r \in Requests : WireAt(r)

(* What a turn of the read loop does to the lines. *)
LEMMA ChunkWire ==
  ASSUME ReviewTypeOK, NEW r \in Requests, NEW n, NEW a, Reads(r, n, a)
  PROVE  /\ stream[r].wire \in Seq(Line) /\ n \in 1 .. Len(stream[r].wire)
         /\ Rest(stream[r].wire, stream'[r].wire, n)
         /\ stream'[r].stage = stream[r].stage
         /\ torn'[r] = (torn[r] \/ stream[r].wire[n].part = "event")
         /\ \A p \in Requests \ {r} : stream'[p] = stream[p] /\ torn'[p] = torn[p]
<1>. DEFINE left == SubSeq(stream[r].wire, n + 1, Len(stream[r].wire))
            b == (torn[r] \/ stream[r].wire[n].part = "event")
<1>1. stream[r].wire \in Seq(Line) /\ n \in 1 .. Len(stream[r].wire)
  BY DEF Reads, ReviewTypeOK, Stream
<1>2. Rest(stream[r].wire, left, n)
  BY <1>1, LinesLeft DEF Rest
<1>3. stream' = [stream EXCEPT ![r].wire = left] /\ torn' = [torn EXCEPT ![r] = b]
  BY DEF Reads
<1>. HIDE DEF left, b
<1>4. /\ stream'[r].wire = left /\ stream'[r].stage = stream[r].stage
      /\ torn'[r] = b
      /\ \A p \in Requests \ {r} : stream'[p] = stream[p] /\ torn'[p] = torn[p]
  BY <1>3 DEF ReviewTypeOK, Stream
<1>. QED  BY <1>1, <1>2, <1>4 DEF b

(* A response that is cut off at the browser is over, and nothing is left of *)
(* it to be read.                                                            *)
LEMMA DisconnectedIs ==
  ASSUME NEW t \in Stream
  PROVE  Disconnected(t).stage = "ended" /\ Disconnected(t).wire = <<>>
BY DEF Disconnected, Stream

LEMMA WireStep ==
  ASSUME ReviewTypeOK, WireInv, [ReviewNext]_reviewVars
  PROVE  WireInv'
<1>. SUFFICES ASSUME NEW p \in Requests
              PROVE  WireAt(p)'
  BY DEF WireInv
<1>. DEFINE Same == /\ stream'[p] = stream[p] /\ torn'[p] = torn[p]
                    /\ request'[p].phase = "unused" => request[p].phase = "unused"
            Over == /\ stream'[p].stage = "ended" /\ stream'[p].wire = <<>>
                    /\ request'[p].phase # "unused"
            Others(r) == \A o \in Requests \ {r} : /\ stream'[o] = stream[o] /\ torn'[o] = torn[o]
                                                   /\ request'[o] = request[o]
<1>1. WireAt(p) /\ stream[p].wire \in Seq(Line) /\ stream[p] \in Stream /\ request[p] \in Request
  BY DEF WireInv, ReviewTypeOK, Stream
<1>2. Same => WireAt(p)'
  BY <1>1 DEF WireAt
<1>3. Over => WireAt(p)'
  BY NoLines DEF WireAt
<1>4. ASSUME NEW q \in [Requests -> Request], NEW t \in [Requests -> Stream],
             NEW newStatus \in ReviewStatus, NEW newText \in Requests \cup {None},
             AbortController(q, t, newStatus, newText), UNCHANGED torn,
             q[p] = request[p], t[p] = stream[p]
      PROVE  WireAt(p)'
  <2>1. IF p = controller /\ Open(p)
          THEN request'[p] = Settled(q[p]) /\ stream'[p] = Disconnected(t[p])
          ELSE request'[p] = q[p] /\ stream'[p] = t[p]
    BY <1>4, AbortFacts
  <2>2. CASE p = controller /\ Open(p)
    <3>1. Over
      BY <2>1, <2>2, SettledIs, DisconnectedIs
    <3>. QED  BY <1>3, <3>1
  <2>3. CASE ~(p = controller /\ Open(p))
    BY <1>2, <1>4, <2>1, <2>3
  <2>. QED  BY <2>2, <2>3
<1>5. ASSUME NEW r \in Requests, RequestAIOperation(r)
      PROVE  WireAt(p)'
  <2>1. PICK q \in [Requests -> Request], t \in [Requests -> Stream] :
          /\ AbortController(q, t, "loading", None)
          /\ "loading" \in ReviewStatus /\ request[r].phase = "unused"
          /\ \A o \in Requests \ {r} : q[o] = request[o] /\ t[o] = stream[o]
          /\ request'[r] = q[r] /\ q[r].phase = "fetching"
          /\ stream'[r] = t[r] /\ t[r].stage = "waiting" /\ t[r].wire = stream[r].wire
    BY <1>5, RequestFacts
  <2>2. UNCHANGED torn
    BY <1>5 DEF RequestAIOperation
  <2>3. CASE p = r
    <3>1. stream[p].stage = "none" /\ NoCompletion(stream[p].wire)
      BY <1>1, <2>1, <2>3 DEF WireAt
    <3>. QED  BY <1>1, <2>1, <2>2, <2>3, <3>1 DEF WireAt
  <2>4. CASE p # r
    BY <1>4, <2>1, <2>2, <2>4
  <2>. QED  BY <2>3, <2>4
<1>6. CASE CancelReview
  <2>1. /\ "cancelled" \in ReviewStatus /\ UNCHANGED torn
        /\ AbortController(request, stream, "cancelled", streamingText)
    BY <1>6 DEF CancelReview, ReviewStatus
  <2>. QED  BY <1>4, <2>1 DEF ReviewTypeOK
<1>7. ASSUME NEW r \in Requests, FetchResolves(r)
      PROVE  WireAt(p)'
  BY <1>2, <1>7 DEF FetchResolves, ReviewTypeOK, Request
<1>8. ASSUME NEW r \in Requests, ConnectionFails(r)
      PROVE  WireAt(p)'
  <2>1. Others(r)
    BY <1>8 DEF ConnectionFails, ReviewTypeOK
  <2>2. request'[r].phase = "settled" /\ stream'[r] = Disconnected(stream[r])
    BY <1>8 DEF ConnectionFails, Settled, ReviewTypeOK, Request
  <2>3. p = r => Over
    BY <1>1, <2>2, DisconnectedIs
  <2>. QED  BY <1>2, <1>3, <2>1, <2>3
<1>9. ASSUME NEW r \in Requests, NEW n, ReadChunk(r, n)
      PROVE  WireAt(p)'
  <2>1. PICK a : Reads(r, n, a)
    BY <1>9, ChunkIsRead
  <2>2. Others(r)
    BY <2>1, ChunkRequest, ChunkWire
  <2>3. /\ n \in 1 .. Len(stream[r].wire)
        /\ Rest(stream[r].wire, stream'[r].wire, n)
        /\ stream'[r].stage = stream[r].stage /\ request'[r].phase = "reading"
        /\ torn'[r] = (torn[r] \/ stream[r].wire[n].part = "event")
    BY <2>1, ChunkRequest, ChunkWire
  <2>4. CASE p = r
    <3>1. /\ Whole(stream[p].wire) /\ stream[p].wire[n].part # "event" => Whole(stream'[p].wire)
          /\ NoCompletion(stream[p].wire) => NoCompletion(stream'[p].wire)
          /\ CompletesOnce(stream[p].wire) => CompletesOnce(stream'[p].wire)
      BY <1>1, <2>3, <2>4, RestLines
    <3>. QED  BY <1>1, <2>3, <2>4, <3>1 DEF WireAt
  <2>. QED  BY <1>2, <2>2, <2>4
<1>10. ASSUME NEW r \in Requests, StreamDone(r)
       PROVE  WireAt(p)'
  <2>1. request'[r].phase = "settled" /\ \A o \in Requests \ {r} : request'[o] = request[o]
    BY <1>10 DEF StreamDone, Settled, ReviewTypeOK, Request
  <2>2. UNCHANGED <<stream, torn>>
    BY <1>10 DEF StreamDone
  <2>. QED  BY <1>2, <2>1, <2>2
<1>11. ASSUME NEW r \in Requests, EndResponse(r)
       PROVE  WireAt(p)'
  <2>1. /\ stream'[r].stage = "ended" /\ stream[r].stage = "finished"
        /\ stream'[r].wire = stream[r].wire
        /\ \A o \in Requests \ {r} : stream'[o] = stream[o]
        /\ UNCHANGED <<request, torn>>
    BY <1>11 DEF EndResponse, ReviewTypeOK, Stream
  <2>. QED  BY <1>1, <2>1 DEF WireAt
<1>12. ASSUME NEW r \in Requests, UpstreamFails(r)
       PROVE  WireAt(p)'
  <2>. DEFINE w == stream[r].wire
              v == stream'[r].wire
  <2>1. /\ stream[r].stage \in {"waiting", "generating", "finished"}
        /\ stream'[r].stage = "failed"
        /\ \/ Sends(w, v, "error", "error") /\ torn'[r] = torn[r]
           \/ Sends(w, v, "garbled", "error") /\ torn'[r]
           \/ (\E k \in NextKinds(r) : SendsTorn(w, v, k)) /\ torn'[r]
        /\ \A o \in Requests \ {r} : stream'[o] = stream[o] /\ torn'[o] = torn[o]
        /\ UNCHANGED request
    BY <1>12, FailFacts
  <2>2. CASE p # r
    BY <1>2, <2>1, <2>2
  <2>3. CASE p = r
    <3>1. w \in Seq(Line) /\ CompletesOnce(w) /\ (~torn[r] => Whole(w))
          /\ (stream[r].stage \in {"waiting", "generating"} => NoCompletion(w))
          /\ request[r].phase # "unused"
      BY <1>1, <2>1, <2>3 DEF WireAt
    <3>2. {"error", "garbled"} \subseteq Kinds \cup {"garbled"}
      BY DEF Kinds, Outcomes
    <3>. HIDE DEF w, v
    <3>3. CASE Sends(w, v, "error", "error") /\ torn'[r] = torn[r]
      <4>1. CompletesOnce(v) /\ (~torn'[r] => Whole(v))
        BY <3>1, <3>2, <3>3, SentLines
      <4>. QED  BY <2>1, <2>3, <3>1, <4>1 DEF WireAt, v
    <3>4. CASE Sends(w, v, "garbled", "error") /\ torn'[r]
      <4>1. CompletesOnce(v)
        BY <3>1, <3>2, <3>4, SentLines
      <4>. QED  BY <2>1, <2>3, <3>1, <3>4, <4>1 DEF WireAt, v
    <3>5. ASSUME NEW k \in NextKinds(r), SendsTorn(w, v, k), torn'[r]
          PROVE  WireAt(p)'
      <4>1. k \in Kinds /\ stream[r].stage \in {"waiting", "generating"}
        BY NextKindsAre
      <4>2. CompletesOnce(v)
        BY <3>1, <3>5, <4>1, TornLines
      <4>. QED  BY <2>1, <2>3, <3>1, <3>5, <4>2 DEF WireAt, v
    <3>. QED  BY <2>1, <3>3, <3>4, <3>5
  <2>. QED  BY <2>2, <2>3
<1>13. ASSUME NEW r \in Requests, NEW k \in Kinds, Emit(r, k)
       PROVE  WireAt(p)'
  <2>1. /\ k \in NextKinds(r)
        /\ Sends(stream[r].wire, stream'[r].wire, k, k)
        /\ stream'[r].stage = IF k \in Outcomes THEN "finished" ELSE "generating"
        /\ \A o \in Requests \ {r} : stream'[o] = stream[o]
        /\ UNCHANGED <<request, torn>>
    BY <1>13, EmitFacts
  <2>2. CASE p # r
    BY <1>2, <2>1, <2>2
  <2>3. CASE p = r
    <3>1. stream[p].stage \in {"waiting", "generating"}
      BY <2>1, <2>3, NextKindsAre
    <3>2. NoCompletion(stream[p].wire) /\ request[p].phase # "unused"
          /\ (~torn[p] => Whole(stream[p].wire))
      BY <1>1, <3>1 DEF WireAt
    <3>3. /\ CompletesOnce(stream'[p].wire) /\ (~torn[p] => Whole(stream'[p].wire))
          /\ k # "complete" => NoCompletion(stream'[p].wire)
      BY <1>1, <2>1, <2>3, <3>2, SentLines
    <3>4. stream'[p].stage \in {"none", "waiting", "generating"} => k # "complete"
      BY <2>1, <2>3 DEF Outcomes
    <3>. QED  BY <2>1, <3>2, <3>3, <3>4 DEF WireAt
  <2>. QED  BY <2>2, <2>3
<1>14. CASE UNCHANGED <<request, stream, torn>>
  BY <1>2, <1>14
<1>. QED
  BY <1>5, <1>6, <1>7, <1>8, <1>9, <1>10, <1>11, <1>12, <1>13, <1>14
     DEF ReviewNext, Receive, Serve, ClearDiagnostics, SelectHistoryItem, FlushTick,
         reviewVars, hookVars

-----------------------------------------------------------------------------
(* The outcome of a response was reported, or is still on its way. *)
OutcomeAt(r) ==
  /\ request[r].phase = "settled" /\ controller = r /\ ~torn[r] => request[r].reported # {}
  /\ Open(r) /\ ~torn[r] /\ stream[r].stage \in {"finished", "ended", "failed"}
       => \/ request[r].reported # {}
          \/ \E i \in 1 .. Len(stream[r].wire) : Names(stream[r].wire[i], Outcomes)

OutcomeInv == \A r \in Requests : OutcomeAt(r)

(* A chunk that tears no event apart reports the outcomes that it names. *)
LEMMA NamedIsReported ==
  ASSUME ReviewTypeOK, NEW r \in Requests, NEW n, NEW a, Reads(r, n, a),
         Whole(stream[r].wire), stream[r].wire[n].part # "event",
         NEW i \in 1 .. n, Names(stream[r].wire[i], Outcomes)
  PROVE  request'[r].reported # {}
<1>. DEFINE w == stream[r].wire
<1>1. /\ n \in Nat /\ n \in 1 .. Len(w) /\ request'[r] = a[n].q
      /\ \A j \in 0 .. n : a[j].q.reported \subseteq a[n].q.reported
  BY ChunkRequest
<1>2. i # n /\ w[i].part = "event" /\ w[i].kind \in Outcomes
  BY DEF Names
<1>3. i + 1 \in 1 .. n /\ i \in 0 .. n /\ i + 1 \in 0 .. n /\ i - 1 \in 0 .. n /\ (i + 1) - 1 = i
  BY <1>1, <1>2
<1>4. w[i + 1] = DataLine(w[i].kind)
  <2>1. i \in 1 .. Len(w)
    BY <1>1
  <2>. QED  BY <1>2, <2>1 DEF Whole
<1>5. /\ a[i] = ReadLine(a[i - 1], r, w[i]) /\ a[i + 1] = ReadLine(a[i], r, w[i + 1])
      /\ a[i - 1] \in Turn /\ a[i] \in Turn /\ w[i] \in Line /\ w[i + 1] \in Line
  BY <1>3 DEF Reads
<1>. HIDE DEF w
<1>6. a[i].event = w[i].kind
  <2>. DEFINE t == a[i - 1]
              line == w[i]
  <2>1. t \in Turn /\ line \in Line /\ line.part = "event"
    BY <1>2, <1>5
  <2>. HIDE DEF t, line
  <2>2. ReadLine(t, r, line).event = line.kind
    BY <2>1, ReadLineFacts
  <2>. QED  BY <1>5, <2>2 DEF t, line
<1>7. w[i + 1].part = "data" /\ w[i + 1].kind # "garbled"
  BY <1>2, <1>4 DEF DataLine, Outcomes
<1>8. a[i].event \in a[i + 1].q.reported
  <2>. DEFINE t == a[i]
              line == w[i + 1]
  <2>1. /\ t \in Turn /\ line \in Line /\ line.part = "data" /\ line.kind # "garbled"
        /\ t.event \in Outcomes
    BY <1>2, <1>5, <1>6, <1>7
  <2>. HIDE DEF t, line
  <2>2. t.event \in ReadLine(t, r, line).q.reported
    BY <2>1, ReadLineFacts
  <2>. QED  BY <1>5, <2>2 DEF t, line
<1>. QED  BY <1>1, <1>3, <1>8

LEMMA OutcomeStep ==
  ASSUME ReviewTypeOK, OnlyControllerRuns, WireInv, OutcomeInv, [ReviewNext]_reviewVars
  PROVE  OutcomeInv'
<1>. SUFFICES ASSUME NEW p \in Requests
              PROVE  OutcomeAt(p)'
  BY DEF OutcomeInv
<1>. DEFINE Same == stream'[p] = stream[p] /\ torn'[p] = torn[p] /\ request'[p] = request[p]
            Others(r) == \A o \in Requests \ {r} : /\ stream'[o] = stream[o] /\ torn'[o] = torn[o]
                                                   /\ request'[o] = request[o]
<1>1. OutcomeAt(p)
  BY DEF OutcomeInv
<1>2. ASSUME Same, UNCHANGED controller
      PROVE  OutcomeAt(p)'
  BY <1>1, <1>2 DEF OutcomeAt, Open
<1>3. ASSUME NEW r \in Requests, RequestAIOperation(r)
      PROVE  OutcomeAt(p)'
  <2>1. PICK q \in [Requests -> Request], t \in [Requests -> Stream] :
          /\ AbortController(q, t, "loading", None)
          /\ "loading" \in ReviewStatus /\ controller' = r
          /\ \A o \in Requests \ {r} : q[o] = request[o]
          /\ request'[r] = q[r] /\ q[r].phase = "fetching"
          /\ stream'[r] = t[r] /\ t[r].stage = "waiting"
    BY <1>3, RequestFacts
  <2>2. CASE p = r
    BY <2>1, <2>2 DEF OutcomeAt
  <2>3. CASE p # r
    <3>1. ~Open(p)' /\ controller' # p
      BY <2>1, <2>3, AbortCloses
    <3>. QED  BY <3>1 DEF OutcomeAt
  <2>. QED  BY <2>2, <2>3
<1>4. CASE CancelReview
  <2>1. /\ "cancelled" \in ReviewStatus /\ controller' = None
        /\ AbortController(request, stream, "cancelled", streamingText)
    BY <1>4 DEF CancelReview, ReviewStatus
  <2>2. ~Open(p)'
    BY <2>1, AbortCloses DEF ReviewTypeOK
  <2>. QED  BY <2>1, <2>2 DEF OutcomeAt
<1>5. ASSUME NEW r \in Requests, FetchResolves(r)
      PROVE  OutcomeAt(p)'
  <2>1. /\ request[r].phase = "fetching" /\ request'[r].phase = "reading"
        /\ request'[r].reported = request[r].reported /\ Others(r)
        /\ UNCHANGED <<stream, torn, controller>>
    BY <1>5 DEF FetchResolves, hookVars, ReviewTypeOK, Request
  <2>. QED  BY <1>1, <1>2, <2>1 DEF OutcomeAt, Open
<1>6. ASSUME NEW r \in Requests, ConnectionFails(r)
      PROVE  OutcomeAt(p)'
  <2>1. Others(r) /\ UNCHANGED controller
    BY <1>6 DEF ConnectionFails, ReviewTypeOK
  <2>2. "error" \in request'[r].reported
    BY <1>6 DEF ConnectionFails, Settled, ReviewTypeOK, Request
  <2>. QED  BY <1>2, <2>1, <2>2 DEF OutcomeAt
<1>7. ASSUME NEW r \in Requests, NEW n, ReadChunk(r, n)
      PROVE  OutcomeAt(p)'
  <2>1. PICK a : Reads(r, n, a)
    BY <1>7, ChunkIsRead
  <2>2. Others(r) /\ UNCHANGED controller
    BY <2>1, ChunkRequest, ChunkWire DEF Reads
  <2>. DEFINE w == stream[r].wire
              v == stream'[r].wire
  <2>3. /\ w \in Seq(Line) /\ n \in 1 .. Len(w) /\ Rest(w, v, n)
        /\ stream'[r].stage = stream[r].stage
        /\ request[r].phase = "reading" /\ request'[r].phase = "reading"
        /\ request[r].reported \subseteq request'[r].reported
        /\ torn'[r] = (torn[r] \/ w[n].part = "event")
    BY <2>1, ChunkRequest, ChunkWire
  <2>4. CASE p = r
    <3>. SUFFICES ASSUME ~torn'[p], stream'[p].stage \in {"finished", "ended", "failed"},
                         request'[p].reported = {}
                  PROVE  \E i \in 1 .. Len(v) : Names(v[i], Outcomes)
      BY <2>3, <2>4 DEF OutcomeAt
    <3>1. ~torn[r] /\ Whole(w) /\ w[n].part # "event"
      BY <2>3, <2>4 DEF WireInv, WireAt
    <3>2. PICK i \in 1 .. Len(w) : Names(w[i], Outcomes)
      BY <1>1, <2>3, <2>4, <3>1 DEF OutcomeAt, Open
    <3>3. i \notin 1 .. n
      BY <2>1, <2>4, <3>1, <3>2, NamedIsReported
    <3>. HIDE DEF w, v
    <3>4. i - n \in 1 .. Len(v) /\ n + (i - n) = i
      BY <2>3, <3>3, LenProperties DEF Rest
    <3>5. v[i - n] = w[i]
      BY <2>3, <3>4 DEF Rest
    <3>. QED  BY <3>2, <3>4, <3>5
  <2>. QED  BY <1>2, <2>2, <2>4
<1>8. ASSUME NEW r \in Requests, StreamDone(r)
      PROVE  OutcomeAt(p)'
  <2>1. Others(r) /\ UNCHANGED <<controller, torn>>
    BY <1>8 DEF StreamDone, ReviewTypeOK
  <2>2. request'[r].phase = "settled" /\ request'[r].reported = request[r].reported
    BY <1>8 DEF StreamDone, Settled, ReviewTypeOK, Request
  <2>3. Open(r) /\ stream[r].stage \in {"finished", "ended", "failed"} /\ Len(stream[r].wire) = 0
    BY <1>8 DEF StreamDone, AllRead, Open
  <2>4. CASE p = r
    <3>1. ~torn[p] => request[p].reported # {}
      BY <1>1, <2>3, <2>4 DEF OutcomeAt
    <3>. QED  BY <2>1, <2>2, <2>4, <3>1 DEF OutcomeAt, Open
  <2>. QED  BY <1>2, <2>1, <2>4
<1>9. ASSUME NEW r \in Requests, EndResponse(r)
      PROVE  OutcomeAt(p)'
  <2>1. /\ stream'[r].stage = "ended" /\ stream[r].stage = "finished"
        /\ stream'[r].wire = stream[r].wire /\ Others(r)
        /\ UNCHANGED <<request, torn, controller>>
    BY <1>9 DEF EndResponse, hookVars, ReviewTypeOK, Stream
  <2>. QED  BY <1>1, <1>2, <2>1 DEF OutcomeAt, Open
<1>10. ASSUME NEW r \in Requests, UpstreamFails(r)
       PROVE  OutcomeAt(p)'
  <2>. DEFINE w == stream[r].wire
              v == stream'[r].wire
  <2>1. /\ \/ Sends(w, v, "error", "error") /\ torn'[r] = torn[r]
           \/ torn'[r]
        /\ Others(r) /\ UNCHANGED <<request, controller>>
    BY <1>10, FailFacts DEF hookVars
  <2>2. CASE torn'[r]
    <3>1. p = r => torn'[p]
      BY <2>2
    <3>. QED  BY <1>2, <2>1, <3>1 DEF OutcomeAt
  <2>3. CASE Sends(w, v, "error", "error") /\ torn'[r] = torn[r]
    <3>1. Len(w) + 1 \in 1 .. Len(v) /\ Names(v[Len(w) + 1], Outcomes)
      <4>1. Len(w) \in Nat
        BY LenProperties DEF ReviewTypeOK, Stream
      <4>. HIDE DEF w, v
      <4>. QED  BY <2>3, <4>1 DEF Sends, Names, EventLine, Outcomes
    <3>. QED  BY <1>1, <1>2, <2>1, <2>3, <3>1 DEF OutcomeAt, Open
  <2>. QED  BY <2>1, <2>2, <2>3
<1>11. ASSUME NEW r \in Requests, NEW k \in Kinds, Emit(r, k)
       PROVE  OutcomeAt(p)'
  <2>. DEFINE w == stream[r].wire
              v == stream'[r].wire
  <2>1. /\ Sends(w, v, k, k)
        /\ stream'[r].stage = IF k \in Outcomes THEN "finished" ELSE "generating"
        /\ Others(r) /\ UNCHANGED <<request, torn, controller>>
    BY <1>11, EmitFacts DEF hookVars
  <2>2. k \in Outcomes => Len(w) + 1 \in 1 .. Len(v) /\ Names(v[Len(w) + 1], Outcomes)
    <3>1. Len(w) \in Nat
      BY LenProperties DEF ReviewTypeOK, Stream
    <3>. HIDE DEF w, v
    <3>. QED  BY <2>1, <3>1 DEF Sends, Names, EventLine
  <2>. QED  BY <1>1, <1>2, <2>1, <2>2 DEF OutcomeAt, Open
<1>12. CASE UNCHANGED <<request, stream, torn, controller>>
  BY <1>2, <1>12
<1>. QED
  BY <1>3, <1>4, <1>5, <1>6, <1>7, <1>8, <1>9, <1>10, <1>11, <1>12
     DEF ReviewNext, Receive, Serve, ClearDiagnostics, SelectHistoryItem, FlushTick,
         reviewVars, hookVars

(* In the beginning nothing was requested. *)
LEMMA InitRequest ==
  ASSUME ReviewInit, NEW r \in Requests
  PROVE  /\ request[r].phase = "unused" /\ request[r].reported = {}
         /\ stream[r].stage = "none" /\ stream[r].wire = <<>> /\ torn[r] = FALSE
BY DEF ReviewInit

(* What is on its way is made of whole events, and completes a review once.  *)
LEMMA WireCorrect == ReviewSpec => []WireInv
<1>1. ReviewInit => WireInv
  BY NoLines, InitRequest DEF WireInv, WireAt
<1>. QED  BY <1>1, ReviewTypeCorrect, WireStep, PTL DEF ReviewSpec

(* A response that was delivered to its end has told the hook its outcome,   *)
(* unless one of its events was torn apart: because lines that are not torn  *)
(* are those of whole events, a chunk that reads the name of an outcome      *)
(* reads its data, too (aiClient 107-160, AIServiceProxy 85-122).            *)
THEOREM OutcomeCorrect == ReviewSpec => []OutcomeUnlessTorn
<1>1. ReviewInit => OutcomeInv
  BY InitRequest DEF OutcomeInv, OutcomeAt, Open
<1>2. OutcomeInv => OutcomeUnlessTorn
  BY DEF OutcomeInv, OutcomeAt, OutcomeUnlessTorn
<1>. QED
  BY <1>1, <1>2, ReviewTypeCorrect, ControllerCorrect, WireCorrect, OutcomeStep, PTL DEF ReviewSpec

-----------------------------------------------------------------------------
(* No item is there twice; only torn responses have other than completions.  *)
Once(h) == \A i, j \in 1 .. Len(h) : h[i].id = h[j].id => i = j
Completed(h, isTorn) == \A i \in 1 .. Len(h) : h[i].payload = "complete" \/ isTorn[h[i].id]

(* What is in the history cannot be completed again. *)
Final(r) ==
  /\ request[r].phase # "unused"
  /\ stream[r].stage \in {"finished", "ended", "failed"}
  /\ NoCompletion(stream[r].wire)

HistoryInv ==
  /\ Once(history) /\ Completed(history, torn)
  /\ \A r \in Ids(history) : Final(r)

(* The history after another item was put before it. *)
LEMMA PutFirst ==
  ASSUME NEW h \in Seq(HistoryItem), NEW item \in HistoryItem
  PROVE  LET k == KeepTen(<<item>> \o h)
         IN  /\ Ids(k) \subseteq Ids(h) \cup {item.id}
             /\ Once(h) /\ item.id \notin Ids(h) => Once(k)
             /\ \A isTorn : Completed(h, isTorn) /\ (item.payload = "complete" \/ isTorn[item.id])
                            => Completed(k, isTorn)
<1>. DEFINE k == KeepTen(<<item>> \o h)
<1>1. /\ Len(k) \in 1 .. Len(h) + 1 /\ k[1] = item /\ Len(h) \in Nat
      /\ \A i \in 2 .. Len(k) : k[i] = h[i - 1]
  BY KeepTenItems, LenProperties
<1>. HIDE DEF k
<1>2. ASSUME NEW i \in 1 .. Len(k)
      PROVE  \/ i = 1 /\ k[i] = item
             \/ i # 1 /\ i - 1 \in 1 .. Len(h) /\ k[i] = h[i - 1] /\ h[i - 1].id \in Ids(h)
  <2>1. CASE i = 1
    BY <1>1, <2>1
  <2>2. CASE i # 1
    <3>1. i \in 2 .. Len(k) /\ i - 1 \in 1 .. Len(h)
      BY <1>1, <2>2
    <3>. QED  BY <1>1, <2>2, <3>1 DEF Ids
  <2>. QED  BY <2>1, <2>2
<1>3. Ids(k) \subseteq Ids(h) \cup {item.id}
  <2>. SUFFICES ASSUME NEW i \in 1 .. Len(k)
                PROVE  k[i].id \in Ids(h) \cup {item.id}
    BY DEF Ids
  <2>. QED  BY <1>2
<1>4. ASSUME Once(h), item.id \notin Ids(h)
      PROVE  Once(k)
  <2>. SUFFICES ASSUME NEW i \in 1 .. Len(k), NEW j \in 1 .. Len(k), k[i].id = k[j].id
                PROVE  i = j
    BY DEF Once
  <2>1. CASE i = 1 \/ j = 1
    BY <1>2, <1>4, <2>1
  <2>2. CASE i # 1 /\ j # 1
    <3>1. i - 1 \in 1 .. Len(h) /\ j - 1 \in 1 .. Len(h) /\ h[i - 1].id = h[j - 1].id
      BY <1>2, <2>2
    <3>2. i - 1 = j - 1
      BY <1>4, <3>1 DEF Once
    <3>. QED  BY <3>2
  <2>. QED  BY <2>1, <2>2
<1>5. ASSUME NEW isTorn, Completed(h, isTorn), item.payload = "complete" \/ isTorn[item.id]
      PROVE  Completed(k, isTorn)
  <2>. SUFFICES ASSUME NEW i \in 1 .. Len(k)
                PROVE  k[i].payload = "complete" \/ isTorn[k[i].id]
    BY DEF Completed
  <2>. QED  BY <1>2, <1>5 DEF Completed
<1>. QED  BY <1>3, <1>4, <1>5 DEF k

(* The event of a chunk was named by one of its lines, and only data follows *)
(* that line.                                                                *)
LEMMA EventWasNamed ==
  ASSUME ReviewTypeOK, NEW r \in Requests, NEW n, NEW a, Reads(r, n, a)
  PROVE  \A i \in 0 .. n : a[i].event # "message" =>
           \E c \in 1 .. i : /\ Names(stream[r].wire[c], {a[i].event})
                            /\ \A m \in c + 1 .. i : stream[r].wire[m].part = "data"
<1>. DEFINE w == stream[r].wire
            P(i) == a[i].event # "message" =>
                      \E c \in 1 .. i : /\ Names(w[c], {a[i].event})
                                       /\ \A m \in c + 1 .. i : w[m].part = "data"
            S == {i \in 0 .. n : P(i)}
<1>1. n \in Nat
  BY ChunkRequest
<1>2. 0 \in S /\ 0 \in 0 .. n
  <2>1. a[0].event = "message"
    BY DEF Reads
  <2>. QED  BY <1>1, <2>1
<1>3. ASSUME NEW i \in 0 + 1 .. n, i - 1 \in S
      PROVE  i \in S
  <2>1. i \in 1 .. n /\ i - 1 \in 0 .. n
    BY <1>1
  <2>2. /\ a[i - 1] \in Turn /\ w[i] \in Line /\ a[i] = ReadLine(a[i - 1], r, w[i])
    BY <2>1 DEF Reads
  <2>. HIDE DEF w
  <2>3. a[i].event = IF w[i].part = "event" THEN w[i].kind ELSE a[i - 1].event
    <3>. DEFINE t == a[i - 1]
                line == w[i]
    <3>1. t \in Turn /\ line \in Line
      BY <2>2
    <3>. HIDE DEF t, line
    <3>2. ReadLine(t, r, line).event = IF line.part = "event" THEN line.kind ELSE t.event
      BY <3>1, ReadLineFacts
    <3>. QED  BY <2>2, <3>2 DEF t, line
  <2>. SUFFICES P(i)
    BY <2>1
  <2>4. CASE w[i].part = "event"
    <3>1. Names(w[i], {a[i].event})
      BY <2>3, <2>4 DEF Names
    <3>2. i \in 1 .. i /\ i + 1 .. i = {}
      BY <2>1
    <3>. QED  BY <2>1, <3>1, <3>2
  <2>5. CASE w[i].part # "event" /\ a[i].event # "message"
    <3>1. w[i].part = "data" /\ a[i].event = a[i - 1].event
      BY <2>2, <2>3, <2>5 DEF Line
    <3>2. PICK c \in 1 .. i - 1 : /\ Names(w[c], {a[i].event})
                                  /\ \A m \in c + 1 .. i - 1 : w[m].part = "data"
      BY <1>3, <2>5, <3>1
    <3>3. c \in 1 .. i /\ \A m \in c + 1 .. i : m \in c + 1 .. i - 1 \/ m = i
      BY <2>1
    <3>. QED  BY <2>1, <3>1, <3>2, <3>3
  <2>6. CASE a[i].event = "message"
    BY <2>6
  <2>. QED  BY <2>4, <2>5, <2>6
<1>. HIDE DEF S
<1>4. \A i \in 0 .. n : i \in S
  BY <1>1, <1>2, <1>3, LinesKeep
<1>. QED  BY <1>4 DEF S

(* What a line of a chunk does to the history. *)
LEMMA LineHistory ==
  ASSUME ReviewTypeOK, NEW r \in Requests, NEW n, NEW a, Reads(r, n, a), NEW i \in 1 .. n
  PROVE  LET item == Item(r, stream[r].wire[i])
         IN  /\ a[i - 1].history \in Seq(HistoryItem)
             /\ IF Completes(a[i - 1], stream[r].wire[i])
                  THEN /\ item \in HistoryItem /\ item.id = r
                       /\ item.payload = stream[r].wire[i].kind
                       /\ a[i].history = KeepTen(<<item>> \o a[i - 1].history)
                  ELSE a[i].history = a[i - 1].history
<1>. DEFINE t == a[i - 1]
            line == stream[r].wire[i]
<1>1. n \in Nat /\ i - 1 \in 0 .. n
  <2>1. n \in Nat
    BY ChunkRequest
  <2>. QED  BY <2>1
<1>2. t \in Turn /\ line \in Line /\ a[i] = ReadLine(t, r, line)
  BY <1>1 DEF Reads
<1>. HIDE DEF t, line
<1>3. t.history \in Seq(HistoryItem)
  BY <1>2 DEF Turn
<1>4. IF Completes(t, line)
        THEN ReadLine(t, r, line).history = KeepTen(<<Item(r, line)>> \o t.history)
        ELSE ReadLine(t, r, line).history = t.history
  BY <1>2, ReadLineFacts
<1>5. Completes(t, line) => /\ Item(r, line) \in HistoryItem /\ Item(r, line).id = r
                           /\ Item(r, line).payload = line.kind
  BY <1>2, ItemIs DEF Completes
<1>. QED  BY <1>2, <1>3, <1>4, <1>5 DEF t, line

(* A chunk puts its request into the history at most once, and only after it *)
(* has read the one line that names the completion.                          *)
LEMMA ChunkOnce ==
  ASSUME ReviewTypeOK, NEW r \in Requests, NEW n, NEW a, Reads(r, n, a),
         Once(history), CompletesOnce(stream[r].wire),
         r \in Ids(history) => NoCompletion(stream[r].wire)
  PROVE  /\ Once(a[n].history) /\ Ids(a[n].history) \subseteq Ids(history) \cup {r}
         /\ r \in Ids(a[n].history) =>
              r \in Ids(history) \/ \E c \in 1 .. n : Names(stream[r].wire[c], {"complete"})
<1>. DEFINE w == stream[r].wire
            Read(i) == \E c, m \in 1 .. i : /\ c < m /\ Names(w[c], {"complete"})
                                           /\ Readable(w[m])
            P(i) == /\ Once(a[i].history) /\ Ids(a[i].history) \subseteq Ids(history) \cup {r}
                    /\ r \in Ids(a[i].history) => r \in Ids(history) \/ Read(i)
            S == {i \in 0 .. n : P(i)}
<1>1. n \in Nat /\ n \in 1 .. Len(w) /\ Len(w) \in Nat
  BY ChunkRequest, LenProperties DEF ReviewTypeOK, Stream
<1>2. 0 \in S
  <2>1. a[0].history = history
    BY DEF Reads
  <2>. QED  BY <1>1, <2>1
<1>3. ASSUME NEW i \in 0 + 1 .. n, i - 1 \in S
      PROVE  i \in S
  <2>1. i \in 1 .. n /\ i - 1 \in 0 .. n /\ i \in 0 .. n
    BY <1>1
  <2>2. P(i - 1)
    BY <1>3
  <2>. DEFINE item == Item(r, w[i])
  <2>3. /\ a[i - 1].history \in Seq(HistoryItem)
        /\ IF Completes(a[i - 1], w[i])
             THEN /\ item \in HistoryItem /\ item.id = r
                  /\ a[i].history = KeepTen(<<item>> \o a[i - 1].history)
             ELSE a[i].history = a[i - 1].history
    BY <2>1, LineHistory
  <2>. HIDE DEF item
  <2>4. CASE ~Completes(a[i - 1], w[i])
    <3>1. Read(i - 1) => Read(i)
      BY <2>1
    <3>. HIDE DEF Read
    <3>. QED  BY <2>1, <2>2, <2>3, <2>4, <3>1
  <2>5. CASE Completes(a[i - 1], w[i])
    <3>1. a[i - 1].event = "complete" /\ Readable(w[i])
      BY <2>5 DEF Completes, Readable
    <3>2. PICK c \in 1 .. i - 1 : /\ Names(w[c], {"complete"})
                                  /\ \A m \in c + 1 .. i - 1 : w[m].part = "data"
      <4>1. \E c \in 1 .. i - 1 : /\ Names(w[c], {a[i - 1].event})
                                 /\ \A m \in c + 1 .. i - 1 : w[m].part = "data"
        BY <2>1, <3>1, EventWasNamed
      <4>. QED  BY <3>1, <4>1
    <3>3. c \in 1 .. Len(w) /\ i \in c + 1 .. Len(w) /\ c < i /\ c \in 1 .. i /\ i \in 1 .. i
      BY <1>1, <2>1
    <3>4. Read(i)
      BY <3>1, <3>2, <3>3
    <3>5. r \notin Ids(history)
      BY <3>2, <3>3 DEF NoCompletion
    <3>6. ~Read(i - 1)
      <4>. SUFFICES ASSUME NEW d \in 1 .. i - 1, NEW m \in 1 .. i - 1, d < m,
                           Names(w[d], {"complete"}), Readable(w[m])
                    PROVE  FALSE
        OBVIOUS
      <4>1. d \in 1 .. Len(w)
        BY <1>1, <2>1
      <4>2. d = c
        BY <3>2, <3>3, <4>1 DEF CompletesOnce
      <4>3. m \in c + 1 .. Len(w) /\ m < i
        BY <1>1, <2>1, <4>2
      <4>4. PICK e \in m + 1 .. i - 1 : w[e].part = "event"
        BY <3>1, <3>2, <3>3, <4>3 DEF CompletesOnce
      <4>5. e \in c + 1 .. i - 1
        BY <2>1, <4>3
      <4>. QED  BY <3>2, <4>4, <4>5
    <3>7. r \notin Ids(a[i - 1].history)
      BY <2>2, <3>5, <3>6
    <3>8. /\ Ids(a[i].history) \subseteq Ids(a[i - 1].history) \cup {r}
          /\ Once(a[i].history)
      <4>. DEFINE h == a[i - 1].history
      <4>1. h \in Seq(HistoryItem) /\ item \in HistoryItem /\ item.id = r
            /\ a[i].history = KeepTen(<<item>> \o h) /\ Once(h) /\ r \notin Ids(h)
        BY <2>2, <2>3, <2>5, <3>7
      <4>. HIDE DEF h
      <4>2. /\ Ids(KeepTen(<<item>> \o h)) \subseteq Ids(h) \cup {item.id}
            /\ Once(KeepTen(<<item>> \o h))
        BY <4>1, PutFirst
      <4>. QED  BY <4>1, <4>2 DEF h
    <3>. HIDE DEF Read
    <3>. QED  BY <2>1, <2>2, <3>4, <3>8
  <2>. QED  BY <2>4, <2>5
<1>. HIDE DEF S
<1>4. n \in S
  <2>1. 0 \in 0 .. n /\ n \in 0 .. n
    BY <1>1
  <2>2. \A i \in 0 .. n : i \in S
    BY <1>1, <1>2, <1>3, <2>1, LinesKeep
  <2>. QED  BY <2>1, <2>2
<1>5. P(n)
  BY <1>4 DEF S
<1>. QED  BY <1>5

(* Unless an event is torn, what completes the review is the completion.     *)
LEMMA ChunkCompleted ==
  ASSUME ReviewTypeOK, NEW r \in Requests, NEW n, NEW a, Reads(r, n, a),
         Completed(history, torn), torn[r] \/ Whole(stream[r].wire)
  PROVE  Completed(a[n].history, torn')
<1>. DEFINE w == stream[r].wire
            S == {i \in 0 .. n : Completed(a[i].history, torn')}
<1>1. n \in Nat /\ n \in 1 .. Len(w) /\ Len(w) \in Nat
  BY ChunkRequest, LenProperties DEF ReviewTypeOK, Stream
<1>2. \A p \in Requests : torn[p] => torn'[p]
  BY ChunkWire
<1>3. 0 \in S
  <2>1. a[0].history = history
    BY DEF Reads
  <2>2. \A i \in 1 .. Len(history) : history[i].id \in Requests
    BY ElementOfSeq DEF ReviewTypeOK, HistoryItem
  <2>. QED  BY <1>1, <1>2, <2>1, <2>2 DEF Completed
<1>4. ASSUME NEW i \in 0 + 1 .. n, i - 1 \in S
      PROVE  i \in S
  <2>1. i \in 1 .. n /\ i - 1 \in 0 .. n /\ i \in 0 .. n
    BY <1>1
  <2>2. Completed(a[i - 1].history, torn')
    BY <1>4
  <2>. DEFINE item == Item(r, w[i])
  <2>3. /\ a[i - 1].history \in Seq(HistoryItem)
        /\ IF Completes(a[i - 1], w[i])
             THEN /\ item \in HistoryItem /\ item.id = r /\ item.payload = w[i].kind
                  /\ a[i].history = KeepTen(<<item>> \o a[i - 1].history)
             ELSE a[i].history = a[i - 1].history
    BY <2>1, LineHistory
  <2>. HIDE DEF item
  <2>4. CASE ~Completes(a[i - 1], w[i])
    BY <2>1, <2>2, <2>3, <2>4
  <2>5. CASE Completes(a[i - 1], w[i])
    <3>1. item.payload = "complete" \/ torn'[item.id]
      <4>1. CASE torn[r]
        BY <1>2, <2>3, <2>5, <4>1
      <4>2. CASE Whole(w)
        <5>1. i \in 1 .. Len(w) /\ w[i].part = "data" /\ a[i - 1].event = "complete"
          BY <1>1, <2>1, <2>5 DEF Completes
        <5>2. i > 1 /\ w[i - 1] = EventLine(w[i].kind)
          BY <4>2, <5>1 DEF Whole
        <5>3. PICK c \in 1 .. i - 1 : /\ Names(w[c], {"complete"})
                                      /\ \A m \in c + 1 .. i - 1 : w[m].part = "data"
          <6>1. \E c \in 1 .. i - 1 : /\ Names(w[c], {a[i - 1].event})
                                     /\ \A m \in c + 1 .. i - 1 : w[m].part = "data"
            BY <2>1, <5>1, EventWasNamed
          <6>. QED  BY <5>1, <6>1
        <5>4. w[i - 1].part = "event" /\ w[i - 1].kind = w[i].kind
          BY <5>2 DEF EventLine
        <5>5. c = i - 1
          <6>1. i - 1 \notin c + 1 .. i - 1
            BY <5>3, <5>4
          <6>. QED  BY <2>1, <6>1
        <5>. QED  BY <2>3, <2>5, <5>3, <5>4, <5>5 DEF Names
      <4>. QED  BY <4>1, <4>2
    <3>2. Completed(a[i].history, torn')
      <4>. DEFINE h == a[i - 1].history
      <4>1. h \in Seq(HistoryItem) /\ item \in HistoryItem
            /\ a[i].history = KeepTen(<<item>> \o h) /\ Completed(h, torn')
        BY <2>2, <2>3, <2>5
      <4>. HIDE DEF h
      <4>2. Completed(KeepTen(<<item>> \o h), torn')
        BY <3>1, <4>1, PutFirst
      <4>. QED  BY <4>1, <4>2
    <3>. QED  BY <2>1, <3>2
  <2>. QED  BY <2>4, <2>5
<1>. HIDE DEF S
<1>5. n \in S
  <2>1. 0 \in 0 .. n /\ n \in 0 .. n
    BY <1>1
  <2>2. \A i \in 0 .. n : i \in S
    BY <1>1, <1>3, <1>4, <2>1, LinesKeep
  <2>. QED  BY <2>1, <2>2
<1>. QED  BY <1>5 DEF S

(* What is completed stays final, while nothing is put into the history. *)
LEMMA FinalStays ==
  ASSUME ReviewTypeOK, WireInv, NEW p \in Requests, Final(p), [ReviewNext]_reviewVars,
         \A n : ~ReadChunk(p, n)
  PROVE  Final(p)'
<1>. DEFINE Same == stream'[p] = stream[p] /\ request'[p] = request[p]
            Over == /\ stream'[p].stage = "ended" /\ stream'[p].wire = <<>>
                    /\ request'[p].phase # "unused"
            Others(r) == \A o \in Requests \ {r} : stream'[o] = stream[o] /\ request'[o] = request[o]
<1>1. Same => Final(p)'
  BY DEF Final
<1>2. Over => Final(p)'
  BY NoLines DEF Final
<1>3. request[p] \in Request /\ stream[p] \in Stream /\ stream[p].wire \in Seq(Line)
  BY DEF ReviewTypeOK, Stream
<1>4. ASSUME NEW q \in [Requests -> Request], NEW t \in [Requests -> Stream],
             NEW newStatus \in ReviewStatus, NEW newText \in Requests \cup {None},
             AbortController(q, t, newStatus, newText),
             q[p] = request[p], t[p] = stream[p]
      PROVE  Final(p)'
  <2>1. IF p = controller /\ Open(p)
          THEN request'[p] = Settled(q[p]) /\ stream'[p] = Disconnected(t[p])
          ELSE request'[p] = q[p] /\ stream'[p] = t[p]
    BY <1>4, AbortFacts
  <2>2. CASE p = controller /\ Open(p)
    <3>1. Over
      BY <2>1, <2>2, SettledIs, DisconnectedIs
    <3>. QED  BY <1>2, <3>1
  <2>3. CASE ~(p = controller /\ Open(p))
    BY <1>1, <1>4, <2>1, <2>3
  <2>. QED  BY <2>2, <2>3
<1>5. ASSUME NEW r \in Requests, RequestAIOperation(r)
      PROVE  Final(p)'
  <2>1. PICK q \in [Requests -> Request], t \in [Requests -> Stream] :
          /\ AbortController(q, t, "loading", None)
          /\ "loading" \in ReviewStatus /\ request[r].phase = "unused"
          /\ \A o \in Requests \ {r} : q[o] = request[o] /\ t[o] = stream[o]
    BY <1>5, RequestFacts
  <2>2. p # r
    BY <2>1 DEF Final
  <2>. QED  BY <1>4, <2>1, <2>2
<1>6. CASE CancelReview
  <2>1. /\ "cancelled" \in ReviewStatus
        /\ AbortController(request, stream, "cancelled", streamingText)
    BY <1>6 DEF CancelReview, ReviewStatus
  <2>. QED  BY <1>4, <2>1 DEF ReviewTypeOK
<1>7. ASSUME NEW r \in Requests, FetchResolves(r)
      PROVE  Final(p)'
  <2>1. request'[r].phase = "reading" /\ Others(r) /\ UNCHANGED stream
    BY <1>7 DEF FetchResolves, ReviewTypeOK, Request
  <2>. QED  BY <1>1, <2>1 DEF Final
<1>8. ASSUME NEW r \in Requests, ConnectionFails(r)
      PROVE  Final(p)'
  <2>1. Others(r)
    BY <1>8 DEF ConnectionFails, ReviewTypeOK
  <2>2. request'[r].phase = "settled" /\ stream'[r] = Disconnected(stream[r])
    BY <1>8 DEF ConnectionFails, Settled, ReviewTypeOK, Request
  <2>3. p = r => Over
    BY <1>3, <2>2, DisconnectedIs
  <2>. QED  BY <1>1, <1>2, <2>1, <2>3
<1>9. ASSUME NEW r \in Requests, NEW n, ReadChunk(r, n)
      PROVE  Final(p)'
  <2>1. PICK a : Reads(r, n, a)
    BY <1>9, ChunkIsRead
  <2>2. Others(r)
    BY <2>1, ChunkRequest, ChunkWire
  <2>. QED  BY <1>1, <1>9, <2>2
<1>10. ASSUME NEW r \in Requests, StreamDone(r)
       PROVE  Final(p)'
  <2>1. request'[r].phase = "settled" /\ Others(r) /\ UNCHANGED stream
    BY <1>10 DEF StreamDone, Settled, ReviewTypeOK, Request
  <2>. QED  BY <1>1, <2>1 DEF Final
<1>11. ASSUME NEW r \in Requests, EndResponse(r)
       PROVE  Final(p)'
  <2>1. /\ stream'[r].stage = "ended" /\ stream'[r].wire = stream[r].wire
        /\ Others(r) /\ UNCHANGED request
    BY <1>11 DEF EndResponse, ReviewTypeOK, Stream
  <2>. QED  BY <1>1, <2>1 DEF Final
<1>12. ASSUME NEW r \in Requests, UpstreamFails(r)
       PROVE  Final(p)'
  <2>. DEFINE w == stream[r].wire
              v == stream'[r].wire
  <2>1. /\ stream'[r].stage = "failed"
        /\ \/ Sends(w, v, "error", "error")
           \/ Sends(w, v, "garbled", "error")
           \/ (\E k \in NextKinds(r) : SendsTorn(w, v, k))
        /\ Others(r) /\ UNCHANGED request
    BY <1>12, FailFacts
  <2>2. CASE p # r
    BY <1>1, <2>1, <2>2
  <2>3. CASE p = r
    <3>1. w \in Seq(Line) /\ NoCompletion(w) /\ NextKinds(r) = {}
      <4>1. stream[r].stage \notin {"waiting", "generating"}
        BY <2>3 DEF Final
      <4>. QED  BY <1>3, <2>3, <4>1, NextKindsAre DEF Final
    <3>2. {"error", "garbled"} \subseteq Kinds \cup {"garbled"}
      BY DEF Kinds, Outcomes
    <3>. HIDE DEF w, v
    <3>3. NoCompletion(v)
      BY <2>1, <3>1, <3>2, SentLines
    <3>. QED  BY <2>1, <2>3, <3>3 DEF Final, v
  <2>. QED  BY <2>2, <2>3
<1>13. ASSUME NEW r \in Requests, NEW k \in Kinds, Emit(r, k)
       PROVE  Final(p)'
  <2>1. k \in NextKinds(r) /\ Others(r)
    BY <1>13, EmitFacts
  <2>2. p # r
    BY <2>1, NextKindsAre DEF Final
  <2>. QED  BY <1>1, <2>1, <2>2
<1>14. CASE UNCHANGED <<request, stream>>
  BY <1>1, <1>14
<1>. QED
  BY <1>5, <1>6, <1>7, <1>8, <1>9, <1>10, <1>11, <1>12, <1>13, <1>14
     DEF ReviewNext, Receive, Serve, ClearDiagnostics, SelectHistoryItem, FlushTick,
         reviewVars, hookVars

(* An event that is torn stays so. *)
LEMMA TornStays ==
  ASSUME ReviewTypeOK, NEW p \in Requests, torn[p], [ReviewNext]_reviewVars
  PROVE  torn'[p]
<1>1. ASSUME NEW r \in Requests, NEW n, ReadChunk(r, n)
      PROVE  torn'[p]
  <2>1. PICK a : Reads(r, n, a)
    BY <1>1, ChunkIsRead
  <2>. QED  BY <2>1, ChunkWire
<1>2. ASSUME NEW r \in Requests, UpstreamFails(r)
      PROVE  torn'[p]
  BY <1>2, FailFacts
<1>3. CASE UNCHANGED torn
  BY <1>3
<1>. QED
  BY <1>1, <1>2, <1>3
     DEF ReviewNext, RequestAIOperation, CancelReview, ClearDiagnostics, SelectHistoryItem,
         FetchResolves, ConnectionFails, FlushTick, Receive, StreamDone, Serve, EndResponse,
         Emit, reviewVars, hookVars

LEMMA HistoryStep ==
  ASSUME ReviewTypeOK, WireInv, HistoryInv, [ReviewNext]_reviewVars
  PROVE  HistoryInv'
<1>1. \A i \in 1 .. Len(history) : history[i].id \in Requests
  BY ElementOfSeq DEF ReviewTypeOK, HistoryItem
<1>2. Ids(history) \subseteq Requests
  BY <1>1 DEF Ids
<1>3. CASE UNCHANGED history /\ \A r \in Requests : \A n : ~ReadChunk(r, n)
  <2>1. Completed(history, torn')
    BY <1>1, TornStays DEF HistoryInv, Completed
  <2>2. ASSUME NEW p \in Ids(history)
        PROVE  Final(p)'
    BY <1>2, <1>3, FinalStays DEF HistoryInv
  <2>. QED  BY <1>3, <2>1, <2>2 DEF HistoryInv, Once, Ids
<1>4. ASSUME NEW r \in Requests, NEW n, ReadChunk(r, n)
      PROVE  HistoryInv'
  <2>1. PICK a : Reads(r, n, a)
    BY <1>4, ChunkIsRead
  <2>. DEFINE w == stream[r].wire
              v == stream'[r].wire
  <2>2. /\ WireAt(r) /\ w \in Seq(Line) /\ n \in 1 .. Len(w) /\ Rest(w, v, n)
        /\ stream'[r].stage = stream[r].stage /\ stream[r] \in Stream
        /\ request'[r].phase = "reading" /\ history' = a[n].history
        /\ \A o \in Requests \ {r} : stream'[o] = stream[o] /\ request'[o] = request[o]
    <3>1. WireAt(r) /\ stream[r] \in Stream
      BY DEF WireInv, ReviewTypeOK
    <3>2. /\ w \in Seq(Line) /\ n \in 1 .. Len(w) /\ Rest(w, v, n)
          /\ stream'[r].stage = stream[r].stage
          /\ \A o \in Requests \ {r} : stream'[o] = stream[o]
      BY <2>1, ChunkWire
    <3>3. request'[r].phase = "reading" /\ \A o \in Requests \ {r} : request'[o] = request[o]
      BY <2>1, ChunkRequest
    <3>4. history' = a[n].history
      BY <2>1 DEF Reads
    <3>. QED  BY <3>1, <3>2, <3>3, <3>4
  <2>3. /\ Once(history) /\ CompletesOnce(w) /\ (torn[r] \/ Whole(w))
        /\ Completed(history, torn) /\ (r \in Ids(history) => Final(r))
    BY <2>2 DEF HistoryInv, WireAt
  <2>4. /\ Once(history') /\ Ids(history') \subseteq Ids(history) \cup {r}
        /\ r \in Ids(history') =>
              r \in Ids(history) \/ \E c \in 1 .. n : Names(w[c], {"complete"})
    BY <2>1, <2>2, <2>3, ChunkOnce DEF Final
  <2>5. Completed(history', torn')
    BY <2>1, <2>2, <2>3, ChunkCompleted
  <2>6. ASSUME r \in Ids(history')
        PROVE  Final(r)'
    <3>1. CASE r \in Ids(history)
      <4>1. NoCompletion(v)
        <5>. HIDE DEF w, v
        <5>1. NoCompletion(w)
          BY <2>3, <3>1 DEF Final, w
        <5>. QED  BY <2>2, <5>1, RestLines
      <4>. QED  BY <2>2, <2>3, <3>1, <4>1 DEF Final
    <3>2. ASSUME NEW c \in 1 .. n, Names(w[c], {"complete"})
          PROVE  Final(r)'
      <4>1. c \in 1 .. Len(w) /\ Len(w) \in Nat
        BY <2>2, LenProperties
      <4>2. ~NoCompletion(w)
        BY <3>2, <4>1 DEF NoCompletion
      <4>3. stream[r].stage \in {"finished", "ended", "failed"}
        BY <2>2, <4>2 DEF WireAt, Stream
      <4>4. NoCompletion(v)
        <5>. SUFFICES ASSUME NEW i \in 1 .. Len(v), Names(v[i], {"complete"})
                      PROVE  FALSE
          BY DEF NoCompletion
        <5>. HIDE DEF w, v
        <5>1. n + i \in 1 .. Len(w) /\ v[i] = w[n + i] /\ n + i # c
          BY <2>2, <4>1 DEF Rest
        <5>. QED  BY <2>3, <3>2, <4>1, <5>1 DEF CompletesOnce
      <4>. QED  BY <2>2, <4>3, <4>4 DEF Final
    <3>. QED  BY <2>4, <2>6, <3>1, <3>2
  <2>7. ASSUME NEW p \in Ids(history')
        PROVE  Final(p)'
    <3>1. CASE p = r
      BY <2>6, <3>1
    <3>2. CASE p # r
      <4>1. p \in Ids(history) /\ p \in Requests \ {r}
        BY <1>2, <2>4, <3>2
      <4>. QED  BY <2>2, <4>1 DEF HistoryInv, Final
    <3>. QED  BY <3>1, <3>2
  <2>. QED  BY <2>4, <2>5, <2>7 DEF HistoryInv, Once, Ids
<1>. QED
  BY <1>3, <1>4
     DEF ReviewNext, RequestAIOperation, CancelReview, ClearDiagnostics, SelectHistoryItem,
         FetchResolves, ConnectionFails, FlushTick, Receive, StreamDone, Serve, EndResponse,
         UpstreamFails, Emit, reviewVars, hookVars

(* The history holds a review at most once, and only reviews the service     *)
(* completed: never what an error event carried, unless it was torn apart.   *)
(* A completion is named once on its way, only one line after its name can   *)
(* be read, and what was read does not come again (useAIReview 100-127).     *)
THEOREM HistoryCorrect == ReviewSpec => []HistoryIsGenuine
<1>1. ReviewInit => HistoryInv
  BY DEF ReviewInit, HistoryInv, Once, Completed, Ids
<1>2. HistoryInv => HistoryIsGenuine
  BY DEF HistoryInv, Once, Completed, HistoryIsGenuine
<1>. QED  BY <1>1, <1>2, ReviewTypeCorrect, WireCorrect, HistoryStep, PTL DEF ReviewSpec
=============================================================================
