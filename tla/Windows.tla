------------------------------ MODULE Windows ------------------------------
(***************************************************************************)
(* The arithmetic of what is looked at of one write: the two windows that  *)
(* the kprobes copy (bpf/memwrite.bpf.c) and the range of the file that    *)
(* the PoisonAnalyzer reads again.  Pure operators; Detection has what     *)
(* they are part of.  Bytes are numbered from 0, a window is a set of them.*)
(***************************************************************************)
EXTENDS Integers

CONSTANTS
  Half,      \* PAYLOAD_HALF, 128
  U32, U64,  \* 2^32 and 2^64
  MaxScan    \* MAX_SCAN, 4 MiB

ASSUME WindowsAssumption ==
  /\ Half \in Nat \ {0} /\ MaxScan \in Nat \ {0}
  /\ U32 \in Nat /\ U64 \in Nat
  /\ 2 * Half <= U32 /\ U32 <= U64

Least(a, b) == IF a < b THEN a ELSE b

\* vfs_write: the first Half bytes; the mask keeps the length below 2 * Half.
HeadWindow(count) == 0 .. (Least(count, Half) % (2 * Half)) - 1

\* Mutant: the last Half bytes are taken of a short write too.
TailWindow_Unguarded(count) ==
  LET off == ((count % U32) - Half) % U32 IN off .. off + Half - 1

\* The last Half bytes of what 32 bits hold of the length.
TailWindow(count) ==
  LET tc == count % U32 IN IF tc > Half THEN tc - Half .. tc - 1 ELSE {}

\* vfs_writev: the head of the first segment if that is long enough, no tail.
SegmentWindow(len) == IF len >= Half THEN 0 .. Half - 1 ELSE {}

\* The offset of the event: vfs_write replaces a negative position by 0.
WriteOffset(pos) == IF pos < 0 THEN 0 ELSE pos

\* vfs_writev reads the position into an unsigned field as it is.
WritevOffset(pos) == pos % U64

\* Mutant: only the start of the slice is kept within the file.
FileSlice_OpenEnd(offset, count, len) ==
  [start |-> Least(offset, len), end |-> Least(offset + Least(count, MaxScan), U64 - 1)]

\* scan_file_range's slice of a file of `len` bytes, [start, end); the sum saturates.
FileSlice(offset, count, len) ==
  [start |-> Least(offset, len),
   end |-> Least(Least(offset + Least(count, MaxScan), U64 - 1), len)]

\* The bytes that are scanned; without the test, start > end would be a panic.
Scanned(offset, count, len) ==
  LET s == FileSlice(offset, count, len) IN IF s.start >= s.end THEN {} ELSE s.start .. s.end - 1

-----------------------------------------------------------------------------
\* The first and the last Half bytes of a write, all of a short one.
Start(count) == 0 .. Least(count, Half) - 1
End(count) == IF count > Half THEN count - Half .. count - 1 ELSE {}

\* A window is always inside of the write, whatever becomes of the length in 32
\* bits: nothing that was not written is taken for a part of it.  The start of every
\* vfs_write is seen; its end exactly if it is shorter than 4 GiB, for from there on
\* the tail window is not "the last PAYLOAD_HALF bytes" (memwrite.bpf.c:124) but some
\* from further in front.  The start of a writev's segment is seen exactly if the
\* segment has Half bytes.
WindowsAreEnds(count) ==
  LET seen == HeadWindow(count) \cup TailWindow(count) IN
    /\ seen \cup SegmentWindow(count) \subseteq 0 .. count - 1
    /\ Start(count) \subseteq seen
    /\ End(count) \subseteq seen <=> count < U32
    /\ Start(count) \subseteq SegmentWindow(count) <=> count >= Half

\* Whatever an event claims, only bytes of the file are read (slicing beyond it is
\* a panic, which would end the stream), and only of the write; of a write that has
\* landed whole they are its first MaxScan bytes.
RereadIsWrite(call, pos, count, len) ==
  LET offset == IF call = "writev" THEN WritevOffset(pos) ELSE WriteOffset(pos)
      range == Scanned(offset, count, len) IN
    /\ range \subseteq (0 .. len - 1) \cap (offset .. offset + count - 1)
    /\ pos >= 0 /\ pos + count <= len => range = pos .. pos + Least(count, MaxScan) - 1
=============================================================================
