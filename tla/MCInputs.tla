------------------------------ MODULE MCInputs ------------------------------
(* The operators on what comes from outside, over all small inputs: an input is
   chosen at the start, and only the log goes on from there. *)
EXTENDS Windows, Watch, Rules, Diagnostics

VARIABLE input

\* A write is 1 to 20 bytes long, in a file of up to 20; the words are of 3 and 5 bits.
Writes ==
  [kind : {"write"}, call : {"write", "writev"}, pos : -3..15, count : 1..20,
   len : {n \in 0..20 : n < U64}]

Args == [kind : {"prefix"}, arg : BoundedSeq({"a", "b", Comma}, BufferSize + 1)]

Lines(n) == BoundedSeq({Blank, Hash, "s", "S"}, n)

Files ==
  [kind : {"rules"}, file : {{l, m} : l, m \in Lines(2)} \cup {{l} : l \in Lines(3)} \cup {{}}]

Init ==
  /\ InitDiagnostics
  /\ \/ input \in Writes
     \/ input \in Args
     \/ input \in Files
     \/ input = [kind |-> "log"]

Next == input.kind = "log" /\ Log /\ UNCHANGED input

Spec == Init /\ [][Next]_<<input, diagnostics, logged>>

FileNames == BoundedSeq({"a", "b"}, BufferSize)
Dirs == {<<>>, <<"b", "/">>}
Payloads == BoundedSeq({Blank, Hash, "s", "S", "t"}, 2)

\* The windows that the kprobes copy are inside of every write, also of one whose
\* length does not fit into 32 bits, and vfs_write's hold both of its ends exactly if
\* the length does.
EndsSeen == input.kind = "write" => WindowsAreEnds(input.count)

\* What the analyzer reads again of a file is what the event says was written, and
\* never beyond the file, whatever position and length the event claims.
RangeRead ==
  input.kind = "write" => RereadIsWrite(input.call, input.pos, input.count, input.len)

\* Of every --memwrite-prefix that fits the buffer, empty fields and all, only files
\* asked for are watched by the kprobe, all of them unless there are more names than
\* the kprobe has room for, and what it watches is re-read by the analyzer.
StoresWatched == input.kind = "prefix" => WatchedAsAsked(input.arg, FileNames, Dirs)

\* README.md:59 and 126: a list of up to eight prefixes is watched.  The buffer of the
\* loader is as long as one of them.
EightAreWatched == input.kind = "prefix" => EightPrefixes(input.arg, FileNames)

\* Of every file of rules each line that is one is found in any case, a note behind it
\* included, and no blank or commented line flags anything.
RulesUsed == input.kind = "rules" => RulesAsWritten(input.file, Payloads)
=============================================================================
