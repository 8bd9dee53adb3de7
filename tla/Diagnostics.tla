---------------------------- MODULE Diagnostics ----------------------------
(***************************************************************************)
(* The lines that the log shows inside of the TUI (collector/src/main.rs): *)
(* a queue of eight behind a mutex, a line that repeats the last one not   *)
(* being added.  The mutex is taken for each line, so that a line is one   *)
(* step; the lines of a record stay together, since the logger has a lock  *)
(* of its own, but nothing here depends on where a record ends.            *)
(***************************************************************************)
EXTENDS Integers, FiniteSets, Sequences

CONSTANTS
  Messages,  \* the lines that are logged, trimmed: "" is a blank one
  MaxLines,  \* MAX, 8
  MaxLogged  \* bound: how many lines are logged

ASSUME DiagnosticsAssumption == MaxLines \in Nat \ {0} /\ MaxLogged \in Nat

VARIABLES
  diagnostics,  \* TUI_DIAGNOSTICS
  logged        \* history: every line that was not blank

InitDiagnostics == diagnostics = <<>> /\ logged = <<>>

\* Mutant: a line that is anywhere in the queue is not added again.
push_tui_diagnostic_Unique(queue, message) ==
  IF \E i \in DOMAIN queue : queue[i] = message THEN queue
  ELSE IF Len(queue) < MaxLines THEN Append(queue, message) ELSE Append(Tail(queue), message)

push_tui_diagnostic(queue, message) ==
  IF queue # <<>> /\ queue[Len(queue)] = message THEN queue
  ELSE IF Len(queue) < MaxLines THEN Append(queue, message) ELSE Append(Tail(queue), message)

\* TuiDiagnosticWriter::write takes the lines in turn and skips the blank ones.
Log ==
  /\ Len(logged) < MaxLogged
  /\ \E line \in Messages \ {""} :
       /\ diagnostics' = push_tui_diagnostic(diagnostics, line)
       /\ logged' = Append(logged, line)

recent_tui_diagnostics(limit) ==
  SubSeq(diagnostics, IF limit < Len(diagnostics) THEN Len(diagnostics) - limit + 1 ELSE 1,
         Len(diagnostics))

-----------------------------------------------------------------------------
\* The places of the log where a line does not repeat the one before.
Fresh(lines) == {i \in DOMAIN lines : i = 1 \/ lines[i] # lines[i - 1]}

After(places, i) == Cardinality({j \in places : j > i})

\* What the TUI shows is the end of the log without its immediate repetitions: as
\* many of its lines as were asked for and are kept, the last one always included,
\* and each at its place from the end, however much was logged before.
RecentIsHistory ==
  \A limit \in 0 .. MaxLines + 1 :
    LET shown == recent_tui_diagnostics(limit)
        fresh == Fresh(logged) IN
      /\ \A n \in {limit, MaxLines, Cardinality(fresh)} : Len(shown) <= n
      /\ Len(shown) \in {limit, MaxLines, Cardinality(fresh)}
      /\ \A k \in 1 .. Len(shown) :
           \E i \in fresh : After(fresh, i) = Len(shown) - k /\ shown[k] = logged[i]
=============================================================================
