-------------------------- MODULE DetectionProofs --------------------------
(***************************************************************************)
(* The safety of Detection for any writers, calls, rules, sizes and any    *)
(* ring: who is accused on the windows, what is passed on, and when the    *)
(* verdict is exact.                                                       *)
(***************************************************************************)
EXTENDS Detection, SequenceTheorems, TLAPS

\* What a call has in its first segment.
Written(c) == Window(c.first, 1, Len(c.first))

Paths == {"absolute", "misplaced", "basename"}

\* The events that tell where their writer is to write how much, and whose windows
\* show only what it writes.
OwnEvent ==
  {e \in [writer : Writers, offset : Nat, count : Nat, head : SUBSET Rules, tail : SUBSET Rules] :
     /\ e \in Events
     /\ e.offset = call[e.writer].pos /\ e.count = Len(call[e.writer].first)
     /\ e.head \cup e.tail \subseteq Written(call[e.writer])}

OwnLine == [event : OwnEvent, path : Paths]

OwnVerdict ==
  {v \in [writer : Writers, matched : SUBSET Rules, path : Paths,
          by : {"windows", "file"}, undisturbed : BOOLEAN] :
     v.by = "windows" => v.matched \subseteq Written(call[v.writer])}

\* The inductive invariant: what is under way is as harmless as what has arrived.
OnlyOwn ==
  /\ call \in [Writers -> Calls]
  /\ proc \in [Writers -> {"store", "elsewhere", "gone"}]
  /\ ring \in Seq(OwnEvent) /\ Len(ring) <= RingCapacity
  /\ lines \in Seq(OwnLine)
  /\ verdicts \in Seq(OwnVerdict)

LEMMA WindowWithin ==
  ASSUME NEW S, NEW cells \in Seq(S), NEW from \in Int, NEW to \in Int
  PROVE  /\ Window(cells, from, to) \subseteq Window(cells, 1, Len(cells))
         /\ Window(cells, from, to) \subseteq Rules
  BY DEF Window

\* The kprobes copy a part of the buffer or nothing.
LEMMA CapturesOwn ==
  ASSUME call \in [Writers -> Calls], NEW w \in Writers, NEW e \in Capture(w, call[w])
  PROVE  e \in OwnEvent
<1> DEFINE c == call[w]
<1>1. c \in Calls /\ c.first \in Seq(Rules \cup {"plain"}) /\ c.pos \in Nat
  BY DetectionAssumption DEF CallType
<1>2. Len(c.first) \in Nat /\ Half \in Nat
  BY <1>1, DetectionAssumption
<1>3. /\ Window(c.first, 1, Half) \subseteq Written(c)
      /\ Window(c.first, 1, Half) \subseteq Rules
      /\ Window(c.first, Len(c.first) - Half + 1, Len(c.first)) \subseteq Written(c)
      /\ Window(c.first, Len(c.first) - Half + 1, Len(c.first)) \subseteq Rules
  BY <1>1, <1>2, WindowWithin DEF Written
<1>4. \A X : Copy(X) \subseteq {X, {}}
  BY DEF Copy
<1>5. e \in Events
  BY <1>1 DEF Events
<1>6. CASE c.kind = "write"
  <2>1. e \in memwrite_vfs_write(w, c)
    BY <1>6 DEF Capture
  <2>2. /\ e.writer = w /\ e.offset = c.pos /\ e.count = Len(c.first)
        /\ e = [writer |-> e.writer, offset |-> e.offset, count |-> e.count,
                head |-> e.head, tail |-> e.tail]
        /\ e.head \in {Window(c.first, 1, Half), {}}
        /\ e.tail \in {Window(c.first, Len(c.first) - Half + 1, Len(c.first)), {}}
    BY <2>1, <1>4 DEF memwrite_vfs_write
  <2> QED
    BY <2>2, <1>1, <1>2, <1>3, <1>5 DEF OwnEvent
<1>7. CASE c.kind # "write"
  <2>1. e \in memwrite_vfs_writev(w, c)
    BY <1>7 DEF Capture
  <2>2. /\ e.writer = w /\ e.offset = c.pos /\ e.count = Len(c.first)
        /\ e = [writer |-> e.writer, offset |-> e.offset, count |-> e.count,
                head |-> e.head, tail |-> e.tail]
        /\ e.head \in {Window(c.first, 1, Half), {}}
        /\ e.tail = {}
    BY <2>1, <1>4 DEF memwrite_vfs_writev
  <2> QED
    BY <2>2, <1>1, <1>2, <1>3, <1>5 DEF OwnEvent
<1> QED
  BY <1>6, <1>7

LEMMA VerdictOwn ==
  ASSUME NEW l \in OwnLine
  PROVE  Verdict(l) \in OwnVerdict
<1>1. /\ l.event \in OwnEvent /\ l.path \in Paths
      /\ l.event.writer \in Writers
      /\ l.event.head \cup l.event.tail \subseteq Written(call[l.event.writer])
      /\ l.event.head \cup l.event.tail \subseteq Rules
  BY DEF OwnLine, OwnEvent
<1>2. scan_file_range(l.path, l.event.offset, l.event.count) \subseteq Rules
  BY DEF scan_file_range, Window
<1>3. (newest = {l.event.writer}) \in BOOLEAN
  OBVIOUS
<1>4. CASE scan_windows(l.event) # {}
  <2>1. Verdict(l) = [writer |-> l.event.writer, matched |-> scan_windows(l.event),
                      path |-> l.path, by |-> "windows",
                      undisturbed |-> newest = {l.event.writer}]
    BY <1>4 DEF Verdict
  <2> QED
    BY <1>1, <1>3, <2>1 DEF OwnVerdict, scan_windows
<1>5. CASE scan_windows(l.event) = {}
  <2>1. Verdict(l) = [writer |-> l.event.writer,
                      matched |-> scan_file_range(l.path, l.event.offset, l.event.count),
                      path |-> l.path, by |-> "file",
                      undisturbed |-> newest = {l.event.writer}]
    BY <1>5 DEF Verdict
  <2> QED
    BY <1>1, <1>2, <1>3, <2>1 DEF OwnVerdict
<1> QED
  BY <1>4, <1>5

LEMMA OwnStep == OnlyOwn /\ [Next]_vars => OnlyOwn'
<1> SUFFICES ASSUME OnlyOwn, [Next]_vars PROVE OnlyOwn'
  OBVIOUS
<1>1. call' = call
  BY DEF Next, Enter, Land, Leave, handle_event, process, vars, writing
<1>2. OwnEvent' = OwnEvent /\ OwnLine' = OwnLine /\ OwnVerdict' = OwnVerdict
  BY <1>1 DEF OwnEvent, OwnLine, OwnVerdict
<1>3. ASSUME NEW w \in Writers, Enter(w) PROVE OnlyOwn'
  <2>1. ASSUME NEW e \in Capture(w, call[w]), ring' = Append(ring, e)
        PROVE  ring' \in Seq(OwnEvent)
    <3>1. e \in OwnEvent
      BY <2>1, CapturesOwn DEF OnlyOwn
    <3> QED
      BY <2>1, <3>1 DEF OnlyOwn
  <2>2. ring' \in Seq(OwnEvent)
    BY <1>3, <2>1 DEF Enter, OnlyOwn
  <2>3. Len(ring') <= RingCapacity
    <3>1. CASE UNCHANGED ring
      BY <3>1 DEF OnlyOwn
    <3>2. ASSUME NEW e, ring' = Append(ring, e), Len(ring) < RingCapacity
          PROVE  Len(ring') <= RingCapacity
      <4>1. ring \in Seq(OwnEvent)
        BY DEF OnlyOwn
      <4>2. Len(ring') = Len(ring) + 1 /\ Len(ring) \in Nat
        BY <3>2, <4>1
      <4> QED
        BY <3>2, <4>2, DetectionAssumption
    <3> QED
      BY <1>3, <3>1, <3>2 DEF Enter
  <2> QED
    BY <1>1, <1>2, <1>3, <2>2, <2>3 DEF Enter, OnlyOwn
<1>4. ASSUME NEW w \in Writers, Land(w) PROVE OnlyOwn'
  BY <1>1, <1>2, <1>4 DEF Land, OnlyOwn
<1>5. ASSUME NEW w \in Writers, Leave(w) PROVE OnlyOwn'
  BY <1>1, <1>2, <1>5 DEF Leave, OnlyOwn, writing
<1>6. CASE handle_event
  <2>1. Head(ring) \in OwnEvent /\ Tail(ring) \in Seq(OwnEvent)
    BY <1>6 DEF handle_event, OnlyOwn
  <2>2. Head(ring).writer \in Writers
    BY <2>1 DEF OwnEvent
  <2>3. proc[Head(ring).writer] \in {"store", "elsewhere", "gone"}
    BY <2>2 DEF OnlyOwn
  <2>4. resolve_path(Head(ring).writer) \in Paths
    BY <2>3, Zenon DEF resolve_path, Paths
  <2>5. lines' \in Seq(OwnLine)
    BY <1>6, <2>1, <2>4 DEF handle_event, OnlyOwn, OwnLine
  <2>6. Len(Tail(ring)) <= RingCapacity
    BY <1>6, DetectionAssumption DEF handle_event, OnlyOwn
  <2> QED
    BY <1>1, <1>2, <1>6, <2>1, <2>5, <2>6 DEF handle_event, OnlyOwn
<1>7. CASE process
  <2>1. Head(lines) \in OwnLine /\ Tail(lines) \in Seq(OwnLine)
    BY <1>7 DEF process, OnlyOwn
  <2>2. verdicts' \in Seq(OwnVerdict)
    BY <1>7, <2>1, VerdictOwn DEF process, OnlyOwn
  <2> QED
    BY <1>1, <1>2, <1>7, <2>1, <2>2 DEF process, OnlyOwn
<1>8. CASE UNCHANGED vars
  BY <1>2, <1>8 DEF vars, OnlyOwn
<1> QED
  BY <1>3, <1>4, <1>5, <1>6, <1>7, <1>8 DEF Next

LEMMA OwnInvariant == Spec => []OnlyOwn
<1>1. Init => OnlyOwn
  BY DetectionAssumption DEF Init, OnlyOwn
<1> QED
  BY <1>1, OwnStep, PTL DEF Spec

\* Whatever the writers do and however late loader and analyzer are, a process is
\* accused on its windows only of signatures that its own buffer holds.
THEOREM WindowHitsAreOwn == Spec => []WindowHitIsOwn
<1>1. OnlyOwn => WindowHitIsOwn
  <2> SUFFICES ASSUME OnlyOwn, NEW i \in 1..Len(verdicts), verdicts[i].by = "windows"
               PROVE  verdicts[i].matched \subseteq Written(call[verdicts[i].writer])
    BY DEF WindowHitIsOwn, Written
  <2>1. verdicts[i] \in OwnVerdict
    BY DEF OnlyOwn
  <2> QED
    BY <2>1 DEF OwnVerdict
<1> QED
  BY <1>1, OwnInvariant, PTL

-----------------------------------------------------------------------------
\* The three parts of PassedInOrder.
WritersOf(s) == [i \in 1..Len(s) |-> s[i].writer]
LineWriters(s) == [i \in 1..Len(s) |-> s[i].event.writer]

LEMMA WritersOfAppend ==
  ASSUME NEW S, NEW s \in Seq(S), NEW e \in S
  PROVE  WritersOf(Append(s, e)) = WritersOf(s) \o <<e.writer>>
  BY DEF WritersOf

LEMMA LineWritersAppend ==
  ASSUME NEW S, NEW s \in Seq(S), NEW l \in S
  PROVE  LineWriters(Append(s, l)) = LineWriters(s) \o <<l.event.writer>>
  BY DEF LineWriters

LEMMA WritersOfSplit ==
  ASSUME NEW S, NEW s \in Seq(S), s # <<>>
  PROVE  WritersOf(s) = <<Head(s).writer>> \o WritersOf(Tail(s))
  BY DEF WritersOf

LEMMA LineWritersSplit ==
  ASSUME NEW S, NEW s \in Seq(S), s # <<>>
  PROVE  LineWriters(s) = <<Head(s).event.writer>> \o LineWriters(Tail(s))
  BY DEF LineWriters

\* An element may be counted to either of two neighbours.
Moves(a, x, b, c) ==
  /\ a \o (<<x>> \o b) \o c = (a \o <<x>>) \o b \o c
  /\ a \o b \o (<<x>> \o c) = a \o (b \o <<x>>) \o c
  /\ (a \o b \o c) \o <<x>> = a \o b \o (c \o <<x>>)

LEMMA Moved ==
  \A a, b, c \in Seq(Writers), x \in Writers : Moves(a, x, b, c)
<1> SUFFICES ASSUME NEW a \in Seq(Writers), NEW b \in Seq(Writers), NEW c \in Seq(Writers),
                    NEW x \in Writers
             PROVE  Moves(a, x, b, c)
  OBVIOUS
<1>1. <<x>> \in Seq(Writers)
  OBVIOUS
<1>2. a \o (<<x>> \o b) = (a \o <<x>>) \o b
  BY <1>1, ConcatAssociative
<1>3. a \o b \in Seq(Writers)
  BY ConcatProperties
<1>4. (a \o b) \o (<<x>> \o c) = ((a \o b) \o <<x>>) \o c
  BY <1>1, <1>3, ConcatAssociative
<1>5. (a \o b) \o <<x>> = a \o (b \o <<x>>)
  BY <1>1, ConcatAssociative
<1>6. ((a \o b) \o c) \o <<x>> = (a \o b) \o (c \o <<x>>)
  BY <1>1, <1>3, ConcatAssociative
<1> QED
  BY <1>2, <1>4, <1>5, <1>6 DEF Moves

\* Every sequence of events or lines has a sequence of writers.
LEMMA WritersTyped ==
  /\ \A s \in Seq(OwnEvent) : WritersOf(s) \in Seq(Writers)
  /\ \A s \in Seq(OwnVerdict) : WritersOf(s) \in Seq(Writers)
  /\ \A s \in Seq(OwnLine) : LineWriters(s) \in Seq(Writers)
<1>1. ASSUME NEW s \in Seq(OwnEvent) PROVE WritersOf(s) \in Seq(Writers)
  <2>1. \A i \in 1..Len(s) : s[i].writer \in Writers
    <3>1. \A i \in 1..Len(s) : s[i] \in OwnEvent
      OBVIOUS
    <3> QED
      BY <3>1 DEF OwnEvent
  <2>2. Len(s) \in Nat
    OBVIOUS
  <2> QED
    BY <2>1, <2>2 DEF WritersOf
<1>2. ASSUME NEW s \in Seq(OwnVerdict) PROVE WritersOf(s) \in Seq(Writers)
  <2>1. \A i \in 1..Len(s) : s[i].writer \in Writers
    <3>1. \A i \in 1..Len(s) : s[i] \in OwnVerdict
      OBVIOUS
    <3> QED
      BY <3>1 DEF OwnVerdict
  <2>2. Len(s) \in Nat
    OBVIOUS
  <2> QED
    BY <2>1, <2>2 DEF WritersOf
<1>3. ASSUME NEW s \in Seq(OwnLine) PROVE LineWriters(s) \in Seq(Writers)
  <2>1. \A i \in 1..Len(s) : s[i].event.writer \in Writers
    <3>1. \A i \in 1..Len(s) : s[i] \in OwnLine
      OBVIOUS
    <3>2. \A i \in 1..Len(s) : s[i].event \in OwnEvent
      BY <3>1 DEF OwnLine
    <3> QED
      BY <3>2 DEF OwnEvent
  <2>2. Len(s) \in Nat
    OBVIOUS
  <2> QED
    BY <2>1, <2>2 DEF LineWriters
<1> QED
  BY <1>1, <1>2, <1>3

InOrder == captured = WritersOf(verdicts) \o LineWriters(lines) \o WritersOf(ring)

LEMMA OrderStep == OnlyOwn /\ InOrder /\ [Next]_vars => InOrder'
<1> SUFFICES ASSUME OnlyOwn, InOrder, [Next]_vars PROVE InOrder'
  OBVIOUS
<1> DEFINE v == WritersOf(verdicts)
           l == LineWriters(lines)
           r == WritersOf(ring)
<1>1. v \in Seq(Writers) /\ l \in Seq(Writers) /\ r \in Seq(Writers)
  BY WritersTyped DEF OnlyOwn
<1>2. ASSUME NEW w \in Writers, Enter(w) PROVE InOrder'
  <2>1. UNCHANGED <<verdicts, lines>>
    BY <1>2 DEF Enter
  <2>2. CASE UNCHANGED <<ring, captured>>
    BY <2>1, <2>2 DEF InOrder, WritersOf, LineWriters
  <2>3. ASSUME NEW e \in Capture(w, call[w]), ring' = Append(ring, e), captured' = Append(captured, w)
        PROVE  InOrder'
    <3>1. e.writer = w /\ e \in OwnEvent
      <4>1. e.writer = w
        <5>1. CASE call[w].kind = "write"
          BY <2>3, <5>1 DEF Capture, memwrite_vfs_write
        <5>2. CASE call[w].kind # "write"
          BY <2>3, <5>2 DEF Capture, memwrite_vfs_writev
        <5> QED
          BY <5>1, <5>2
      <4> QED
        BY <4>1, <2>3, CapturesOwn DEF OnlyOwn
    <3>2. WritersOf(ring)' = r \o <<w>>
      BY <2>3, <3>1, WritersOfAppend DEF OnlyOwn
    <3>3. captured' = (v \o l \o r) \o <<w>>
      BY <2>3, <1>1 DEF InOrder
    <3>4. captured' = v \o l \o (r \o <<w>>)
      <4> HIDE DEF v, l, r
      <4>1. Moves(v, w, l, r)
        BY <1>1, Moved
      <4> QED
        BY <3>3, <4>1, Zenon DEF Moves
    <3> QED
      BY <2>1, <3>2, <3>4 DEF InOrder, WritersOf, LineWriters
  <2> QED
    BY <1>2, <2>2, <2>3 DEF Enter
<1>3. ASSUME NEW w \in Writers, Land(w) \/ Leave(w) PROVE InOrder'
  BY <1>3 DEF Land, Leave, InOrder, WritersOf, LineWriters
<1>4. CASE handle_event
  <2> DEFINE e == Head(ring)
             new == [event |-> e, path |-> resolve_path(e.writer)]
  <2>1. UNCHANGED <<verdicts, captured>> /\ ring' = Tail(ring) /\ lines' = Append(lines, new)
        /\ ring # <<>>
    BY <1>4 DEF handle_event
  <2>2. e \in OwnEvent /\ e.writer \in Writers
    BY <2>1 DEF OnlyOwn, OwnEvent
  <2>3. r = <<e.writer>> \o WritersOf(Tail(ring))
    BY <2>1, WritersOfSplit DEF OnlyOwn
  <2>4. WritersOf(Tail(ring)) \in Seq(Writers)
    <3>1. Tail(ring) \in Seq(OwnEvent)
      BY <2>1 DEF OnlyOwn
    <3> QED
      BY <3>1, WritersTyped
  <2>5. LineWriters(lines)' = l \o <<e.writer>>
    <3>1. lines \in Seq(OwnLine \cup {new}) /\ new.event.writer = e.writer
      <4>1. lines \in Seq(OwnLine)
        BY DEF OnlyOwn
      <4>2. new.event.writer = e.writer
        OBVIOUS
      <4> HIDE DEF new, e
      <4> QED
        BY <4>1, <4>2
    <3> HIDE DEF new, e
    <3>2. LineWriters(Append(lines, new)) = l \o <<new.event.writer>>
      BY <3>1, LineWritersAppend
    <3> QED
      BY <2>1, <3>1, <3>2
  <2> HIDE DEF e, new
  <2>6. captured' = v \o (l \o <<e.writer>>) \o WritersOf(Tail(ring))
    <3>1. captured' = v \o l \o (<<e.writer>> \o WritersOf(Tail(ring)))
      BY <2>1, <2>3 DEF InOrder
    <3> HIDE DEF v, l, r
    <3>2. Moves(v, e.writer, l, WritersOf(Tail(ring)))
      BY <2>2, <2>4, <1>1, Moved
    <3> QED
      BY <3>1, <3>2, Zenon DEF Moves
  <2> QED
    BY <2>1, <2>5, <2>6 DEF InOrder, WritersOf
<1>5. CASE process
  <2> DEFINE h == Head(lines)
             w == h.event.writer
  <2>1. UNCHANGED <<ring, captured>> /\ lines' = Tail(lines) /\ lines # <<>>
        /\ verdicts' = Append(verdicts, Verdict(h))
    BY <1>5 DEF process
  <2>2. h \in OwnLine /\ w \in Writers
    <3>1. h \in OwnLine
      BY <2>1 DEF OnlyOwn
    <3>2. h.event \in OwnEvent
      BY <3>1 DEF OwnLine
    <3> QED
      BY <3>1, <3>2 DEF OwnEvent
  <2>3. l = <<w>> \o LineWriters(Tail(lines))
    BY <2>1, LineWritersSplit DEF OnlyOwn
  <2>4. LineWriters(Tail(lines)) \in Seq(Writers)
    <3>1. Tail(lines) \in Seq(OwnLine)
      BY <2>1 DEF OnlyOwn
    <3> QED
      BY <3>1, WritersTyped
  <2>5. Verdict(h).writer = w
    BY DEF Verdict
  <2>6. Verdict(h) \in OwnVerdict
    BY <2>2, VerdictOwn
  <2> HIDE DEF h, w
  <2>7. WritersOf(verdicts)' = v \o <<w>>
    BY <2>1, <2>5, <2>6, WritersOfAppend DEF OnlyOwn
  <2>8. captured' = (v \o <<w>>) \o LineWriters(Tail(lines)) \o r
    <3>1. captured' = v \o (<<w>> \o LineWriters(Tail(lines))) \o r
      BY <2>1, <2>3 DEF InOrder
    <3> HIDE DEF v, l, r
    <3>2. Moves(v, w, LineWriters(Tail(lines)), r)
      BY <2>2, <2>4, <1>1, Moved
    <3> QED
      BY <3>1, <3>2, Zenon DEF Moves
  <2> QED
    BY <2>1, <2>7, <2>8 DEF InOrder, WritersOf, LineWriters
<1>6. CASE UNCHANGED vars
  BY <1>6 DEF vars, InOrder, WritersOf, LineWriters
<1> QED
  BY <1>2, <1>3, <1>4, <1>5, <1>6 DEF Next

\* For any ring and any number of writers: every event captured is passed on once, in
\* the order of the kprobes, whether it is a hit or not.
THEOREM AllPassedInOrder == Spec => []PassedInOrder
<1>1. Init => InOrder
  BY DEF Init, InOrder, WritersOf, LineWriters
<1>2. InOrder => PassedInOrder
  BY DEF InOrder, PassedInOrder, WritersOf, LineWriters
<1> QED
  BY <1>1, <1>2, OwnInvariant, OrderStep, PTL DEF Spec

-----------------------------------------------------------------------------
\* The store as TypeOK has it.
Stored ==
  /\ file \in Seq(Rules \cup {"plain"})
  /\ status \in [Writers -> {"idle", "inside", "done"}]
  /\ landing \in [Writers -> [at : Nat, n : Nat]]
  /\ newest \in {{}} \cup {{w} : w \in Writers}

\* The store holds at data's place what has landed there.
Holds(cells, data, at, n) ==
  /\ n <= Len(data)
  /\ \A j \in 1..n : at + j \in 1..Len(cells) /\ cells[at + j] = data[j]

\* What landed last is still there, and whoever wrote it is done.
NewestThere ==
  \A w \in Writers : newest = {w} =>
    status[w] = "done" /\ Holds(file, Data(call[w]), landing[w].at, landing[w].n)

LEMMA DataTyped ==
  ASSUME NEW c \in Calls
  PROVE  /\ Data(c) \in Seq(Rules \cup {"plain"}) /\ c.pos \in Nat
         /\ c.first \in Seq(Rules \cup {"plain"})
         /\ c.rest = <<>> => Data(c) = c.first
<1> DEFINE S == Rules \cup {"plain"}
<1>1. c.first \in Seq(S) /\ c.rest \in Seq(S) /\ c.pos \in Nat
  BY DetectionAssumption, Zenon DEF CallType
<1>2. ASSUME NEW f \in Seq(S), NEW r \in Seq(S)
      PROVE  f \o r \in Seq(S) /\ (r = <<>> => f \o r = f)
  <2> HIDE DEF S
  <2> QED
    OBVIOUS
<1>3. c.first \o c.rest \in Seq(S) /\ (c.rest = <<>> => c.first \o c.rest = c.first)
  BY <1>1, <1>2, Zenon
<1> QED
  BY <1>1, <1>3, Zenon DEF Data

\* A splice puts the data where it was meant to go, and without data nothing.
LEMMA SplicedHolds ==
  ASSUME NEW S, "plain" \in S, file \in Seq(S), NEW data \in Seq(S), NEW at \in Nat
  PROVE  /\ Spliced(data, at) \in Seq(S)
         /\ Holds(Spliced(data, at), data, at, Len(data))
         /\ Len(data) = 0 => Spliced(data, at) = file
<1> DEFINE end == at + Len(data)
           len == IF Len(data) = 0 \/ end <= Len(file) THEN Len(file) ELSE end
           s == Spliced(data, at)
<1>1. Len(data) \in Nat /\ Len(file) \in Nat /\ len \in Nat /\ end \in Nat
  OBVIOUS
<1>2. s = [i \in 1..len |-> IF at < i /\ i <= end THEN data[i - at]
                            ELSE IF i <= Len(file) THEN file[i] ELSE "plain"]
  BY Zenon DEF Spliced
<1>3. ASSUME NEW i \in 1..len PROVE s[i] \in S
  <2>1. CASE at < i /\ i <= end
    <3>1. i - at \in 1..Len(data)
      BY <1>1, <2>1
    <3> QED
      BY <1>2, <2>1, <3>1
  <2>2. CASE ~(at < i /\ i <= end)
    BY <1>2, <2>2
  <2> QED
    BY <2>1, <2>2
<1>4. s \in Seq(S) /\ Len(s) = len
  <2>1. s \in [1..len -> S]
    <3> HIDE DEF len, end, s
    <3> QED
      BY <1>2, <1>3
  <2> HIDE DEF len, s
  <2> QED
    BY <1>1, <2>1, LenProperties
<1>5. ASSUME NEW j \in 1..Len(data) PROVE at + j \in 1..len /\ s[at + j] = data[j]
  <2>1. at + j \in 1..len /\ at < at + j /\ at + j <= end /\ (at + j) - at = j
    BY <1>1
  <2> QED
    BY <1>2, <2>1
<1>6. Len(data) = 0 => s = file
  <2> SUFFICES ASSUME Len(data) = 0 PROVE s = file
    OBVIOUS
  <2>1. len = Len(file) /\ end = at
    BY <1>1
  <2>2. \A i \in 1..Len(file) : s[i] = file[i]
    BY <1>1, <1>2, <2>1
  <2> HIDE DEF s
  <2> QED
    BY <1>4, <2>1, <2>2, SeqEqual
<1> QED
  BY <1>1, <1>4, <1>5, <1>6 DEF Holds

LEMMA StoreStep ==
  OnlyOwn /\ Stored /\ NewestThere /\ [Next]_vars => Stored' /\ NewestThere'
<1> SUFFICES ASSUME OnlyOwn, Stored, NewestThere, [Next]_vars PROVE Stored' /\ NewestThere'
  OBVIOUS
<1>1. call' = call /\ call \in [Writers -> Calls]
  BY DEF Next, Enter, Land, Leave, handle_event, process, vars, writing, OnlyOwn
<1>2. ASSUME UNCHANGED <<file, landing, newest>>,
             status' \in [Writers -> {"idle", "inside", "done"}],
             \A w \in Writers : status[w] = "done" => status'[w] = "done"
      PROVE  Stored' /\ NewestThere'
  BY <1>1, <1>2 DEF Stored, NewestThere
<1>3. ASSUME NEW w \in Writers, Enter(w) PROVE Stored' /\ NewestThere'
  BY <1>2, <1>3 DEF Enter, Stored
<1>4. ASSUME NEW w \in Writers, Land(w) PROVE Stored' /\ NewestThere'
  <2> DEFINE S == Rules \cup {"plain"}
             d == Data(call[w])
             at == IF call[w].append THEN Len(file) ELSE call[w].pos
  <2>1. PICK n \in 0..Len(d) :
          /\ file' = Spliced(SubSeq(d, 1, n), at)
          /\ landing' = [landing EXCEPT ![w] = [at |-> at, n |-> n]]
          /\ newest' = IF n > 0 THEN {w} ELSE newest
    <3>1. Len(d) \in Nat
      BY <1>1, DataTyped
    <3>2. (IF Faults THEN 0..Len(d) ELSE {Len(d)}) \subseteq 0..Len(d)
      BY <3>1
    <3> QED
      BY <1>4, <3>2, Zenon DEF Land
  <2>2. status[w] = "inside" /\ status' = [status EXCEPT ![w] = "done"]
    BY <1>4 DEF Land
  <2>3. d \in Seq(S) /\ at \in Nat /\ file \in Seq(S) /\ "plain" \in S
    BY <1>1, DataTyped DEF Stored
  <2> HIDE DEF S, d, at
  <2>4. /\ SubSeq(d, 1, n) \in Seq(S) /\ Len(SubSeq(d, 1, n)) = n
        /\ \A j \in 1..n : SubSeq(d, 1, n)[j] = d[j]
    BY <2>1, <2>3
  <2>5. /\ file' \in Seq(S)
        /\ Holds(file', SubSeq(d, 1, n), at, n)
        /\ n = 0 => file' = file
    BY <2>1, <2>3, <2>4, SplicedHolds
  <2>6. Holds(file', d, at, n)
    BY <2>1, <2>4, <2>5 DEF Holds
  <2>7. /\ landing' \in [Writers -> [at : Nat, n : Nat]]
        /\ landing'[w].at = at /\ landing'[w].n = n
        /\ \A v \in Writers : v # w => landing'[v] = landing[v]
    BY <2>1, <2>3 DEF Stored
  <2>8. /\ status' \in [Writers -> {"idle", "inside", "done"}]
        /\ status'[w] = "done" /\ \A v \in Writers : v # w => status'[v] = status[v]
    BY <2>2 DEF Stored
  <2>9. Stored'
    BY <2>1, <2>5, <2>7, <2>8 DEF Stored, S
  <2>10. NewestThere'
    <3> SUFFICES ASSUME NEW v \in Writers, newest' = {v}
                 PROVE  /\ status'[v] = "done"
                        /\ Holds(file', Data(call'[v]), landing'[v].at, landing'[v].n)
      BY DEF NewestThere
    <3>1. CASE n > 0
      <4>1. v = w
        BY <2>1, <3>1
      <4> QED
        BY <1>1, <2>6, <2>7, <2>8, <4>1 DEF d
    <3>2. CASE n = 0
      <4>1. newest = {v} /\ file' = file
        BY <2>1, <2>5, <3>2
      <4>2. status[v] = "done" /\ Holds(file, Data(call[v]), landing[v].at, landing[v].n)
        BY <4>1 DEF NewestThere
      <4>3. v # w
        BY <2>2, <4>2
      <4> QED
        BY <1>1, <2>7, <2>8, <4>1, <4>2, <4>3
    <3> QED
      BY <2>1, <3>1, <3>2
  <2> QED
    BY <2>9, <2>10
<1>5. CASE handle_event \/ process \/ \E w \in Writers : Leave(w)
  BY <1>2, <1>5 DEF handle_event, process, Leave, writing, Stored
<1>6. CASE UNCHANGED vars
  BY <1>2, <1>6 DEF vars, Stored
<1> QED
  BY <1>3, <1>4, <1>5, <1>6 DEF Next

LEMMA StoreInvariant == Spec => [](Stored /\ NewestThere)
<1>1. Init => Stored /\ NewestThere
  BY DEF Init, Stored, NewestThere, Nothing
<1> QED
  BY <1>1, StoreStep, OwnInvariant, PTL DEF Spec

-----------------------------------------------------------------------------
\* A verdict as ExactWhenQuiet wants it, and that the wait for it is over: when the
\* verdict's writer was the last to land, it is done, and will not land again.
Exact(v) ==
  /\ v.matched \subseteq Written(call[v.writer])
  /\ v.matched = {} <=> Written(call[v.writer]) = {}

Settled(v) ==
  /\ v.undisturbed => status[v.writer] = "done"
  /\ Quiet(v) => Exact(v)

AllSettled == \A i \in 1..Len(verdicts) : Settled(verdicts[i])

\* A range of the file that holds a buffer shows what the buffer shows.
LEMMA SameWindow ==
  ASSUME NEW S, NEW cells \in Seq(S), NEW data \in Seq(S), NEW at \in Nat,
         Holds(cells, data, at, Len(data))
  PROVE  Window(cells, at + 1, at + Len(data)) = Window(data, 1, Len(data))
<1>1. Len(data) \in Nat /\ Len(cells) \in Nat
  OBVIOUS
<1>2. ASSUME NEW i \in 1..Len(cells), at + 1 <= i, i <= at + Len(data)
      PROVE  \E j \in 1..Len(data) : cells[i] = data[j]
  <2>1. i - at \in 1..Len(data) /\ at + (i - at) = i
    BY <1>1, <1>2
  <2>2. cells[at + (i - at)] = data[i - at]
    BY <2>1 DEF Holds
  <2> QED
    BY <2>1, <2>2
<1>3. ASSUME NEW j \in 1..Len(data)
      PROVE  \E i \in 1..Len(cells) : at + 1 <= i /\ i <= at + Len(data) /\ cells[i] = data[j]
  <2>1. at + j \in 1..Len(cells) /\ cells[at + j] = data[j]
    BY DEF Holds
  <2>2. at + 1 <= at + j /\ at + j <= at + Len(data)
    BY <1>1
  <2> QED
    BY <2>1, <2>2
<1>4. {cells[i] : i \in {j \in 1..Len(cells) : at + 1 <= j /\ j <= at + Len(data)}}
        = {data[i] : i \in {j \in 1..Len(data) : 1 <= j /\ j <= Len(data)}}
  <2> DEFINE C == {cells[i] : i \in {j \in 1..Len(cells) : at + 1 <= j /\ j <= at + Len(data)}}
             D == {data[i] : i \in {j \in 1..Len(data) : 1 <= j /\ j <= Len(data)}}
  <2>1. \A x \in C : \E i \in 1..Len(cells) : at + 1 <= i /\ i <= at + Len(data) /\ x = cells[i]
    BY Zenon
  <2>2. \A x : x \in D <=> \E j \in 1..Len(data) : x = data[j]
    BY <1>1
  <2>3. \A x : x \in C <=> \E i \in 1..Len(cells) : at + 1 <= i /\ i <= at + Len(data) /\ x = cells[i]
    BY Zenon
  <2> HIDE DEF C, D
  <2>4. \A x \in C : x \in D
    BY <1>2, <2>2, <2>3
  <2>5. \A x \in D : x \in C
    BY <1>3, <2>2, <2>3
  <2> QED
    BY <2>4, <2>5 DEF C, D
<1> QED
  BY <1>4, Zenon DEF Window

\* The re-reading is exact when its writer was the last to land, and landed all of one
\* buffer at the position that the kprobe saw.
LEMMA VerdictExact ==
  ASSUME OnlyOwn, Stored, NewestThere, NEW l \in OwnLine, Quiet(Verdict(l))
  PROVE  Exact(Verdict(l))
<1> DEFINE w == l.event.writer
           c == call[w]
           v == Verdict(l)
           n == Len(c.first)
<1>1. /\ w \in Writers /\ l.event.offset = c.pos /\ l.event.count = n
      /\ scan_windows(l.event) \subseteq Written(c)
  BY DEF OwnLine, OwnEvent, scan_windows
<1>2. /\ v.writer = w /\ v.path = l.path
      /\ v.undisturbed = (newest = {w})
      /\ v.matched = IF scan_windows(l.event) # {} THEN scan_windows(l.event)
                     ELSE scan_file_range(l.path, l.event.offset, l.event.count)
  BY Zenon DEF Verdict
<1> HIDE DEF v
<1>3. /\ l.path = "absolute" /\ newest = {w} /\ c.rest = <<>>
      /\ landing[w] = [at |-> c.pos, n |-> n] /\ n <= MaxScan
  BY <1>2, Zenon DEF Quiet, v
<1>4. CASE scan_windows(l.event) # {}
  <2>1. v.matched = scan_windows(l.event)
    BY <1>2, <1>4, Zenon
  <2>2. v.matched \subseteq Written(c) /\ v.matched # {}
    BY <1>1, <1>4, <2>1
  <2> QED
    BY <1>2, <2>2 DEF Exact, v
<1>5. CASE scan_windows(l.event) = {}
  <2>1. /\ c \in Calls /\ Data(c) = c.first /\ c.pos \in Nat
        /\ c.first \in Seq(Rules \cup {"plain"})
    <3>1. c \in Calls
      BY <1>1 DEF OnlyOwn
    <3> QED
      BY <1>3, <3>1, DataTyped
  <2>2. Holds(file, c.first, c.pos, n)
    <3>1. Holds(file, Data(c), landing[w].at, landing[w].n)
      BY <1>1, <1>3, Zenon DEF NewestThere
    <3>2. landing[w].at = c.pos /\ landing[w].n = n
      BY <1>3
    <3> QED
      BY <2>1, <3>1, <3>2
  <2>3. Least(n, MaxScan) = n
    BY <1>3 DEF Least
  <2>4. v.matched = Window(file, c.pos + 1, c.pos + n)
    <3>1. v.matched = scan_file_range(l.path, l.event.offset, l.event.count)
      BY <1>2, <1>5, Zenon
    <3> QED
      BY <1>1, <1>3, <2>3, <3>1 DEF scan_file_range
  <2>5. v.matched = Written(c)
    <3>1. file \in Seq(Rules \cup {"plain"})
      BY DEF Stored
    <3> QED
      BY <2>1, <2>2, <2>4, <3>1, SameWindow, Zenon DEF Written
  <2> QED
    BY <1>2, <2>5 DEF Exact, v
<1> QED
  BY <1>4, <1>5

\* A verdict that is settled stays so: its writer is done, or it was disturbed.
LEMMA SettledKept ==
  ASSUME OnlyOwn, Stored, [Next]_vars, NEW v, v.writer \in Writers, Settled(v)
  PROVE  Settled(v)'
<1> DEFINE w == v.writer
<1>1. call' = call
  BY DEF Next, Enter, Land, Leave, handle_event, process, vars, writing
<1>2. status[w] = "done" => status'[w] = "done" /\ landing'[w] = landing[w]
  <2>1. CASE \E u \in Writers : Enter(u) \/ Land(u)
    BY <2>1 DEF Enter, Land, Stored
  <2>2. CASE handle_event \/ process \/ UNCHANGED vars \/ \E u \in Writers : Leave(u)
    BY <2>2 DEF handle_event, process, vars, Leave, writing
  <2> QED
    BY <2>1, <2>2 DEF Next
<1>3. v.undisturbed => status'[w] = "done"
  BY <1>2, Zenon DEF Settled
<1>4. ASSUME Quiet(v)' PROVE Exact(v)'
  <2>1. v.undisturbed /\ status[w] = "done"
    BY <1>4, Zenon DEF Quiet, Settled
  <2>2. Quiet(v)
    BY <1>1, <1>2, <1>4, <2>1, Zenon DEF Quiet
  <2>3. Exact(v)
    BY <2>2, Zenon DEF Settled
  <2> QED
    BY <1>1, <2>3, Zenon DEF Exact, Written, Window
<1> QED
  BY <1>3, <1>4, Zenon DEF Settled

LEMMA SettledStep ==
  OnlyOwn /\ Stored /\ NewestThere /\ AllSettled /\ [Next]_vars => AllSettled'
<1> SUFFICES ASSUME OnlyOwn, Stored, NewestThere, AllSettled, [Next]_vars PROVE AllSettled'
  OBVIOUS
<1>1. verdicts \in Seq(OwnVerdict) /\ Len(verdicts) \in Nat
  BY DEF OnlyOwn
<1>2. ASSUME NEW i \in 1..Len(verdicts), NEW v, v = verdicts[i] PROVE Settled(v)'
  <2>1. v.writer \in Writers /\ Settled(v)
    BY <1>1, <1>2 DEF OwnVerdict, AllSettled
  <2> QED
    BY <2>1, SettledKept
<1>3. CASE UNCHANGED verdicts
  <2> SUFFICES ASSUME NEW i \in 1..Len(verdicts) PROVE Settled(verdicts[i])'
    BY <1>3 DEF AllSettled
  <2>1. PICK v : v = verdicts[i]
    OBVIOUS
  <2>2. Settled(v)'
    BY <1>2, <2>1
  <2>3. verdicts'[i] = v
    BY <1>3, <2>1
  <2> QED
    BY <2>2, <2>3 DEF Settled, Quiet, Exact
<1>4. CASE process
  <2>1. PICK v : v = Verdict(Head(lines))
    OBVIOUS
  <2>2. Head(lines) \in OwnLine /\ verdicts' = Append(verdicts, v)
    BY <1>4, <2>1 DEF process, OnlyOwn
  <2>3. v \in OwnVerdict
    BY <2>1, <2>2, VerdictOwn
  <2>4. /\ v.writer = Head(lines).event.writer
        /\ v.undisturbed = (newest = {Head(lines).event.writer})
    BY <2>1, Zenon DEF Verdict
  <2>5. v.writer \in Writers
    BY <2>3 DEF OwnVerdict
  <2>6. v.undisturbed => status[v.writer] = "done"
    BY <2>4, <2>5, Zenon DEF NewestThere
  <2>7. Quiet(v) => Exact(v)
    BY <2>1, <2>2, VerdictExact
  <2>8. Settled(v)'
    BY <2>5, <2>6, <2>7, SettledKept DEF Settled
  <2> SUFFICES ASSUME NEW i \in 1..Len(verdicts) + 1 PROVE Settled(verdicts[i])'
    BY <1>1, <2>2, <2>3 DEF AllSettled
  <2>9. PICK x : x = verdicts'[i]
    OBVIOUS
  <2>10. Settled(x)'
    <3>1. CASE i \in 1..Len(verdicts)
      <4>1. x = verdicts[i]
        BY <1>1, <2>2, <2>3, <2>9, <3>1
      <4> QED
        BY <1>2, <3>1, <4>1
    <3>2. CASE i = Len(verdicts) + 1
      <4>1. x = v
        BY <1>1, <2>2, <2>3, <2>9, <3>2
      <4> QED
        BY <2>8, <4>1
    <3> QED
      BY <1>1, <3>1, <3>2
  <2> QED
    BY <2>9, <2>10 DEF Settled, Quiet, Exact
<1> QED
  BY <1>3, <1>4 DEF Next, Enter, Land, Leave, handle_event, vars

\* Both halves of the invariant hold throughout.
LEMMA SettledInvariant == Spec => []AllSettled
<1>1. Init => AllSettled
  BY DEF Init, AllSettled
<1> QED
  BY <1>1, SettledStep, OwnInvariant, StoreInvariant, PTL DEF Spec

\* A verdict on a write of one buffer that landed whole, at the position the kprobe saw
\* and within MAX_SCAN, with nobody landing after it before the analyzer read the file,
\* is exact: a hit if and only if the data has a signature, and only of its own.
THEOREM ExactHolds == Spec => []ExactWhenQuiet
<1>1. AllSettled => ExactWhenQuiet
  BY Zenon DEF AllSettled, Settled, Exact, Written, ExactWhenQuiet
<1> QED
  BY <1>1, SettledInvariant, PTL

\* The store, the calls, the ring and what goes on from it stay in their types, and
\* the ring within its capacity.
THEOREM TypeCorrect == Spec => []TypeOK
<1>1. OnlyOwn /\ Stored => TypeOK
  <2> SUFFICES ASSUME OnlyOwn, Stored PROVE TypeOK
    OBVIOUS
  <2>1. /\ \A i \in 1..Len(ring) : ring[i] \in Events
        /\ Len(ring) <= RingCapacity
    BY DEF OnlyOwn, OwnEvent
  <2>2. \A i \in 1..Len(lines) : lines[i].event \in Events /\ lines[i].path \in Paths
    <3>1. \A l \in OwnLine : l.event \in Events /\ l.path \in Paths
      BY DEF OwnLine, OwnEvent
    <3> QED
      BY <3>1 DEF OnlyOwn
  <2>3. \A i \in 1..Len(verdicts) :
          verdicts[i].writer \in Writers /\ verdicts[i].matched \subseteq Rules
    <3>1. \A v \in OwnVerdict : v.writer \in Writers /\ v.matched \subseteq Rules
      BY DEF OwnVerdict
    <3> QED
      BY <3>1 DEF OnlyOwn
  <2> QED
    BY <2>1, <2>2, <2>3, Zenon DEF OnlyOwn, Stored, Paths, TypeOK
<1> QED
  BY <1>1, OwnInvariant, StoreInvariant, PTL
=============================================================================
