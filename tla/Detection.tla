------------------------------ MODULE Detection ------------------------------
(***************************************************************************)
(* How a write to a memory store becomes a verdict.                        *)
(*                                                                         *)
(*   memwrite.bpf.c  a kprobe at the ENTRY of vfs_write / vfs_writev copies *)
(*                   two windows of the user's buffer into the ring buffer; *)
(*   memwrite.c      the loader resolves a path from /proc/<pid>/cwd, later;*)
(*   poison.rs       the analyzer scans the windows, and only if they are  *)
(*                   clean re-reads [offset, offset + count) of the file,  *)
(*                   later still.                                          *)
(*                                                                         *)
(* Meanwhile the writes go on: the captured one may not have landed when   *)
(* the file is read, another may have landed on top of it, and the process *)
(* may be gone.                                                            *)
(*                                                                         *)
(* There is one store, whose name matches the watch prefix.  Buffers and   *)
(* the file are sequences of cells, a cell being a stretch of text that    *)
(* holds one signature or none ("plain"), so that no signature straddles   *)
(* two cells; lengths and offsets count cells.  A writer makes one call.   *)
(* Reading the file is one step.                                           *)
(***************************************************************************)
EXTENDS Integers, Sequences

CONSTANTS
  Writers,       \* processes that write to the store
  Calls,         \* the calls they may make, see CallType
  Rules,         \* the signatures of PoisonAnalyzer.rules
  Half,          \* PAYLOAD_HALF, in cells
  MaxScan,       \* MAX_SCAN, in cells
  RingCapacity,  \* how many events the ring buffer holds
  Faults         \* whether user pages may be absent and writes may fall short

\* A call: its kind, its first segment and the segments after it, the position
\* the kernel passes to vfs_write, and whether the file is open for O_APPEND.
CallType(c) ==
  /\ c.kind \in {"write", "writev"}
  /\ c.first \in Seq(Rules \cup {"plain"})
  /\ c.rest \in Seq(Rules \cup {"plain"})
  /\ c.kind = "write" => c.rest = <<>>
  /\ c.pos \in Nat
  /\ c.append \in BOOLEAN

ASSUME DetectionAssumption ==
  /\ Half \in Nat \ {0}
  /\ MaxScan \in Nat \ {0}
  /\ RingCapacity \in Nat \ {0}
  /\ Faults \in BOOLEAN
  /\ "plain" \notin Rules
  /\ \A c \in Calls : CallType(c)

VARIABLES
  file,      \* the store
  status,    \* status[w] \in {"idle", "inside", "done"}: w and its call
  call,      \* call[w]: what w calls
  landing,   \* landing[w]: where the data of w went, and how much of it
  newest,    \* history: who landed last
  proc,      \* proc[w]: where /proc/<w>/cwd leads: to the store or not
  ring,      \* the ring buffer
  lines,     \* the JSONL between the loader and the analyzer
  verdicts,  \* what the analyzer has passed on, in order
  captured   \* history: the writers whose event got into the ring, in order

vars == <<file, status, call, landing, newest, proc, ring, lines, verdicts, captured>>

writing == <<file, status, call, landing, newest>>

-----------------------------------------------------------------------------
Data(c) == c.first \o c.rest

\* Mutant: a blank rule is not filtered out, and so matches any text.
Window_BlankRule(cells, from, to) ==
  {cells[i] : i \in {j \in 1..Len(cells) : from <= j /\ j <= to}}

\* The signatures in cells from, ..., to of a sequence of cells.
Window(cells, from, to) ==
  {cells[i] : i \in {j \in 1..Len(cells) : from <= j /\ j <= to}} \cap Rules

\* What is found if the copy from user memory succeeds: all or nothing.
Copy(window) == IF Faults THEN {window, {}} ELSE {window}

\* Mutant: head_len stays what it was when the copy fails, over whatever an
\* earlier event left in that memory.
memwrite_vfs_write_StaleHead(w, c) ==
  LET n == Len(c.first) IN
  [writer : {w}, offset : {c.pos}, count : {n},
   head : Copy(Window(c.first, 1, Half)) \cup SUBSET Rules,
   tail : IF n > Half THEN Copy(Window(c.first, n - Half + 1, n)) ELSE {{}}]

\* The events a vfs_write of c by w may be captured as.
memwrite_vfs_write(w, c) ==
  LET n == Len(c.first) IN
  [writer : {w}, offset : {c.pos}, count : {n},
   head : Copy(Window(c.first, 1, Half)),
   tail : IF n > Half THEN Copy(Window(c.first, n - Half + 1, n)) ELSE {{}}]

\* vfs_writev: the first segment only, and its head only if it is a full one.
memwrite_vfs_writev(w, c) ==
  [writer : {w}, offset : {c.pos}, count : {Len(c.first)},
   head : IF Len(c.first) >= Half THEN Copy(Window(c.first, 1, Half)) ELSE {{}},
   tail : {{}}]

Capture(w, c) ==
  IF c.kind = "write" THEN memwrite_vfs_write(w, c) ELSE memwrite_vfs_writev(w, c)

-----------------------------------------------------------------------------
Nothing == [at |-> 0, n |-> 0]

Init ==
  /\ file = <<>>
  /\ status = [w \in Writers |-> "idle"]
  /\ call \in [Writers -> Calls]
  /\ landing = [w \in Writers |-> Nothing]
  /\ newest = {}
  /\ proc \in [Writers -> {"store", "elsewhere"}]
  /\ ring = <<>>
  /\ lines = <<>>
  /\ verdicts = <<>>
  /\ captured = <<>>

\* w enters vfs_write or vfs_writev and the probe runs: no event for an empty
\* buffer or an iovec that cannot be read, none when the ring is full.
Enter(w) ==
  /\ status[w] = "idle"
  /\ status' = [status EXCEPT ![w] = "inside"]
  /\ \/ /\ Len(call[w].first) > 0
        /\ Len(ring) < RingCapacity
        /\ \E e \in Capture(w, call[w]) : ring' = Append(ring, e)
        /\ captured' = Append(captured, w)
     \/ /\ \/ Len(call[w].first) = 0
           \/ Len(ring) = RingCapacity
           \/ Faults /\ call[w].kind = "writev"
        /\ UNCHANGED <<ring, captured>>
  /\ UNCHANGED <<file, call, landing, newest, proc, lines, verdicts>>

\* The file after `data` has been written at offset `at`; a hole reads as zeros.
Spliced(data, at) ==
  LET end == at + Len(data)
      len == IF Len(data) = 0 \/ end <= Len(file) THEN Len(file) ELSE end
  IN [i \in 1..len |-> IF at < i /\ i <= end THEN data[i - at]
                       ELSE IF i <= Len(file) THEN file[i] ELSE "plain"]

\* The call goes through, or falls short of its n cells, and returns.
Land(w) ==
  /\ status[w] = "inside"
  /\ \E n \in (IF Faults THEN 0..Len(Data(call[w])) ELSE {Len(Data(call[w]))}) :
       LET at == IF call[w].append THEN Len(file) ELSE call[w].pos
       IN /\ file' = Spliced(SubSeq(Data(call[w]), 1, n), at)
          /\ landing' = [landing EXCEPT ![w] = [at |-> at, n |-> n]]
          /\ newest' = IF n > 0 THEN {w} ELSE newest
  /\ status' = [status EXCEPT ![w] = "done"]
  /\ UNCHANGED <<call, proc, ring, lines, verdicts, captured>>

\* w changes its directory, or exits once its call has returned.
Leave(w) ==
  /\ \/ proc[w] = "store" /\ proc' = [proc EXCEPT ![w] = "elsewhere"]
     \/ status[w] = "done" /\ proc[w] # "gone" /\ proc' = [proc EXCEPT ![w] = "gone"]
  /\ UNCHANGED <<writing, ring, lines, verdicts, captured>>

\* The path for the event of w: cwd and basename, or the basename alone.
resolve_path(w) ==
  CASE proc[w] = "store"     -> "absolute"
    [] proc[w] = "elsewhere" -> "misplaced"
    [] proc[w] = "gone"      -> "basename"

\* The loader prints the next event as a line of JSON.
handle_event ==
  /\ ring # <<>>
  /\ ring' = Tail(ring)
  /\ lines' = Append(lines, [event |-> Head(ring), path |-> resolve_path(Head(ring).writer)])
  /\ UNCHANGED <<writing, proc, verdicts, captured>>

scan_windows(e) == e.head \cup e.tail

Least(a, b) == IF a <= b THEN a ELSE b

\* Mutant: the range is taken to start at the first byte of the file.
scan_file_range_FromStart(path, offset, count) ==
  IF path = "absolute" THEN Window(file, 1, Least(count, MaxScan)) ELSE {}

\* What the file holds now at the range captured.  At a wrong path the code reads
\* whatever file is there, if any, and here nothing: what it would find there says
\* nothing of the write, and every property of this verdict asks for the right path.
scan_file_range(path, offset, count) ==
  IF path = "absolute"
    THEN Window(file, offset + 1, offset + Least(count, MaxScan))
    ELSE {}

\* The verdict on line l: the path always contains the prefix, for the name does.
Verdict(l) ==
  LET inWindows == scan_windows(l.event)
      matched   == IF inWindows # {} THEN inWindows
                   ELSE scan_file_range(l.path, l.event.offset, l.event.count)
  IN [writer |-> l.event.writer, matched |-> matched, path |-> l.path,
      by |-> IF inWindows # {} THEN "windows" ELSE "file",
      undisturbed |-> newest = {l.event.writer}]

\* Mutant: an event without a hit is filtered out.
process_KeepsHitsOnly ==
  /\ lines # <<>>
  /\ lines' = Tail(lines)
  /\ verdicts' = IF Verdict(Head(lines)).matched # {}
                   THEN Append(verdicts, Verdict(Head(lines))) ELSE verdicts
  /\ UNCHANGED <<writing, proc, ring, captured>>

\* PoisonAnalyzer::process for the next line.
process ==
  /\ lines # <<>>
  /\ lines' = Tail(lines)
  /\ verdicts' = Append(verdicts, Verdict(Head(lines)))
  /\ UNCHANGED <<writing, proc, ring, captured>>

Next ==
  \/ \E w \in Writers : Enter(w)
  \/ \E w \in Writers : Land(w)
  \/ \E w \in Writers : Leave(w)
  \/ handle_event
  \/ process

Spec == Init /\ [][Next]_vars

-----------------------------------------------------------------------------
Events == UNION {Capture(w, c) : w \in Writers, c \in Calls}

\* Type invariant.
TypeOK ==
  /\ file \in Seq(Rules \cup {"plain"})
  /\ status \in [Writers -> {"idle", "inside", "done"}]
  /\ call \in [Writers -> Calls]
  /\ landing \in [Writers -> [at : Nat, n : Nat]]
  /\ newest \in {{}} \cup {{w} : w \in Writers}
  /\ proc \in [Writers -> {"store", "elsewhere", "gone"}]
  /\ \A i \in 1..Len(ring) : ring[i] \in Events
  /\ Len(ring) <= RingCapacity
  /\ \A i \in 1..Len(lines) :
       lines[i].event \in Events /\ lines[i].path \in {"absolute", "misplaced", "basename"}
  /\ \A i \in 1..Len(verdicts) :
       verdicts[i].writer \in Writers /\ verdicts[i].matched \subseteq Rules

\* The analyzer is a pass-through: whatever has been captured, hit or not, is
\* passed on once, in the order of the kprobes (poison.rs:16, "non-hit events
\* pass through untouched").
PassedInOrder ==
  captured = [i \in 1..Len(verdicts) |-> verdicts[i].writer]
             \o [i \in 1..Len(lines) |-> lines[i].event.writer]
             \o [i \in 1..Len(ring) |-> ring[i].writer]

\* Whatever the interleaving, a process is only accused on its windows of what
\* it wrote itself (memwrite_vfs_write, scan_windows).
WindowHitIsOwn ==
  \A i \in 1..Len(verdicts) :
    LET v == verdicts[i] IN
    v.by = "windows" =>
      v.matched \subseteq Window(call[v.writer].first, 1, Len(call[v.writer].first))

\* The writes the compensation is made for: one buffer, at the position the
\* probe sees, within MAX_SCAN, landed in full by the time of the verdict with
\* nobody landing after it, and found at the path.
Quiet(v) ==
  LET c == call[v.writer] IN
  /\ v.path = "absolute"
  /\ v.undisturbed
  /\ c.rest = <<>>
  /\ landing[v.writer] = [at |-> c.pos, n |-> Len(c.first)]
  /\ Len(c.first) <= MaxScan

\* For such a write the verdict is exact: a hit if and only if the data written
\* has a signature, wherever it lies, and no signature it does not have.
ExactWhenQuiet ==
  \A i \in 1..Len(verdicts) :
    LET v == verdicts[i]
        written == Window(call[v.writer].first, 1, Len(call[v.writer].first))
    IN Quiet(v) => /\ v.matched \subseteq written
                   /\ (v.matched = {}) <=> (written = {})

-----------------------------------------------------------------------------
\* README.md:53 promises that re-reading the range brings "100% coverage".
\* With one writer that stays where it is, no faults and room in the ring, each
\* write that has landed should have been found poisoned if it is.
Coverage ==
  \A i \in 1..Len(verdicts) :
    LET c == call[verdicts[i].writer] IN
    /\ status[verdicts[i].writer] = "done"
    /\ verdicts[i].path = "absolute"
    /\ c.kind = "write" /\ ~c.append /\ Len(c.first) <= MaxScan
    /\ Window(c.first, 1, Len(c.first)) # {}
    => verdicts[i].matched # {}
=============================================================================
