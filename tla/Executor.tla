------------------------------ MODULE Executor ------------------------------
(***************************************************************************)
(* overlay/agentsight-capture/src/runners/common.rs: BinaryExecutor turns  *)
(* the standard output of a probe process into a stream of JSON values,    *)
(* ProbeProcessGuard ends the probe's process group with the stream, and   *)
(* BinaryRunner makes an event of each value.                              *)
(*                                                                         *)
(* As root the probe is a child that may be signalled.  Otherwise the      *)
(* child is `sudo -n <probe>`: the collector may not signal it, and asks   *)
(* `sudo -n kill` to, which works while sudo's credentials last.           *)
(*                                                                         *)
(* The stream is lazy: its body, the guard included, begins when it is     *)
(* polled first.  Whoever polls it may drop it at any suspension.  The     *)
(* probe (any program) and the kernel are at the end of the module.        *)
(***************************************************************************)
EXTENDS Integers, Sequences

CONSTANTS
  TimestampField,  \* BinaryRunner.timestamp_field
  MaxLines,        \* bound: how many lines the probe prints
  PipeCapacity,    \* how many lines the stdout pipe holds
  Faults           \* whether read() and wait() may fail

ASSUME ExecutorAssumption ==
  /\ TimestampField \in {"timestamp", "timestamp_ns"}
  /\ MaxLines \in Nat
  /\ PipeCapacity \in Nat \ {0}
  /\ Faults \in BOOLEAN

VARIABLES
  sudo,      \* needs_sudo
  delayed,   \* whether there is a startup delay
  creds,     \* whether `sudo -n` still works
  pc,        \* where get_json_stream, then the stream, is
  guard,     \* ProbeProcessGuard: not there yet, its pgid, or None
  sigterms,  \* history: how often SIGTERM went to the process group
  emitted,   \* history: what the stream has yielded, as events
  broken,    \* history: whether read() or wait() failed
  probe,     \* the child process
  code,      \* its exit status, once it is exiting
  killer,    \* history: what made it exit
  stdout,    \* its side of the pipe
  early,     \* history: whether it closed stdout while running
  pipe,      \* the lines in the pipe
  printed    \* history: the lines printed

vars == <<sudo, delayed, creds, pc, guard, sigterms, emitted, broken, probe,
          code, killer, stdout, early, pipe, printed>>

setting == <<sudo, delayed>>
process == <<probe, code, killer, stdout, early>>
output == <<pipe, printed>>

\* A line: whether it parses as a JSON object, and the fields it then has.
Lines == [json : {TRUE}, fields : {{TimestampField, "pid", "comm"}, {"pid"}}]
         \cup [json : {FALSE}, fields : {{}}]

-----------------------------------------------------------------------------
\* The event made of a JSON object: the record, or a diagnostic in its place.
parse_json_event(fields, type) ==
  IF {TimestampField, "pid", "comm"} \subseteq fields THEN type ELSE "diagnostic"

\* Mutant: one name of the timestamp only.
runner_error_json_OneTimestamp == {"timestamp_ns", "pid", "comm"}

\* The fields of the object that reports a failure.
runner_error_json == {"timestamp", "timestamp_ns", "pid", "comm"}

RunnerError == parse_json_event(runner_error_json, "runner_error")

\* What a line adds to them: an event if it is a JSON object.
AddItem(items, line) ==
  IF line.json THEN Append(items, parse_json_event(line.fields, "event")) ELSE items

\* What the lines become: one event for each JSON object.
Items(lines) ==
  LET upTo[n \in 0..Len(lines)] ==
        IF n = 0 THEN <<>> ELSE AddItem(upTo[n - 1], lines[n])
  IN upTo[Len(lines)]

-----------------------------------------------------------------------------
Init ==
  /\ sudo \in BOOLEAN
  /\ delayed \in BOOLEAN
  /\ sudo => delayed           \* 200 ms for sudo, 1500 ms with --binary-path
  /\ creds = TRUE
  /\ pc = "starting"
  /\ guard = "none"
  /\ sigterms = 0
  /\ emitted = <<>>
  /\ broken = FALSE
  /\ probe = "none" /\ code = "none" /\ killer = "none"
  /\ stdout = "open" /\ early = FALSE
  /\ pipe = <<>> /\ printed = <<>>

\* The probe is gone for the kernel's signals from here on: its status is
\* settled, its descriptors are closed, it will be a zombie.
Exits(c, by) ==
  /\ probe' = "exiting"
  /\ code' = c
  /\ killer' = by
  /\ stdout' = "closed"
  /\ UNCHANGED early

\* cmd.spawn(), in a process group of its own.
Spawn ==
  /\ pc = "starting"
  /\ \/ /\ pc' = IF delayed THEN "delay" ELSE "unpolled"
        /\ probe' = "running"
     \/ /\ pc' = "start_error"
        /\ UNCHANGED probe
  /\ UNCHANGED <<setting, creds, guard, sigterms, emitted, broken, code,
                 killer, stdout, early, output>>

\* After the startup delay, try_wait(): a probe that is over is an error.
StartupCheck ==
  /\ pc = "delay"
  /\ IF probe = "zombie"
       THEN pc' = "start_error" /\ probe' = "reaped"
       ELSE pc' = "unpolled" /\ UNCHANGED probe
  /\ UNCHANGED <<setting, creds, guard, sigterms, emitted, broken, code,
                 killer, stdout, early, output>>

\* The body of the stream begins.
FirstPoll ==
  /\ pc = "unpolled"
  /\ pc' = "reading"
  /\ guard' = "armed"
  /\ UNCHANGED <<setting, creds, sigterms, emitted, broken, process, output>>

\* Mutant: a line that is no JSON ends the loop.
ReadLine_StopsAtNoise ==
  /\ pc = "reading"
  /\ pipe # <<>>
  /\ pipe' = Tail(pipe)
  /\ IF Head(pipe).json THEN UNCHANGED pc ELSE pc' = "terminating"
  /\ emitted' = emitted \o Items(<<Head(pipe)>>)
  /\ UNCHANGED <<setting, creds, guard, sigterms, broken, process, printed>>

\* read_until() gives a line: yielded if it is a JSON object, logged if not.
ReadLine ==
  /\ pc = "reading"
  /\ pipe # <<>>
  /\ pipe' = Tail(pipe)
  /\ emitted' = emitted \o Items(<<Head(pipe)>>)
  /\ UNCHANGED <<setting, creds, pc, guard, sigterms, broken, process, printed>>

\* Mutant: Ok(0) is taken for an empty line.
ReadEof_Continues ==
  /\ pc = "reading"
  /\ pipe = <<>> /\ stdout = "closed"
  /\ UNCHANGED vars

\* read_until() gives Ok(0).
ReadEof ==
  /\ pc = "reading"
  /\ pipe = <<>> /\ stdout = "closed"
  /\ pc' = "terminating"
  /\ UNCHANGED <<setting, creds, guard, sigterms, emitted, broken, process, output>>

\* read_until() gives an error other than Interrupted.
ReadFails ==
  /\ pc = "reading" /\ Faults
  /\ pc' = "terminating"
  /\ broken' = TRUE
  /\ UNCHANGED <<setting, creds, guard, sigterms, emitted, process, output>>

\* killpg as root, `sudo -n kill` otherwise.
Signalled == IF sudo /\ ~creds THEN sigterms ELSE sigterms + 1

\* Mutant: pgid is read, not taken.
Terminate_KeepsPgid ==
  /\ pc = "terminating"
  /\ pc' = "killing"
  /\ sigterms' = Signalled
  /\ UNCHANGED <<setting, creds, guard, emitted, broken, process, output>>

\* guard.terminate(): SIGTERM to the group.
Terminate ==
  /\ pc = "terminating"
  /\ pc' = "killing"
  /\ guard' = "taken"
  /\ sigterms' = Signalled
  /\ UNCHANGED <<setting, creds, emitted, broken, process, output>>

\* SIGKILL to the child: sudo, which is root's, is not impressed.
Killed ==
  IF ~sudo /\ probe = "running" THEN Exits("bad", "kill") ELSE UNCHANGED process

\* try_wait() itself fails: the child is dropped, and killed on drop.
StartupCheckFails ==
  /\ pc = "delay" /\ Faults
  /\ pc' = "start_error"
  /\ Killed
  /\ UNCHANGED <<setting, creds, guard, sigterms, emitted, broken, output>>

\* child.kill() sends SIGKILL; it then waits, as child.wait() does.
Kill ==
  /\ pc = "killing"
  /\ pc' = "waiting"
  /\ Killed
  /\ UNCHANGED <<setting, creds, guard, sigterms, emitted, broken, output>>

\* child.wait() resolves: the guard is disarmed, a bad status is yielded.
Wait ==
  /\ pc = "waiting" /\ probe = "zombie"
  /\ probe' = "reaped"
  /\ guard' = "taken"
  /\ IF code = "ok" THEN pc' = "ended" /\ UNCHANGED emitted
                    ELSE pc' = "failing" /\ emitted' = Append(emitted, RunnerError)
  /\ UNCHANGED <<setting, creds, sigterms, broken, code, killer, stdout, early, output>>

WaitFails ==
  /\ pc = "waiting" /\ Faults
  /\ pc' = "failing"
  /\ emitted' = Append(emitted, RunnerError)
  /\ broken' = TRUE
  /\ UNCHANGED <<setting, creds, guard, sigterms, process, output>>

\* The poll after the runner_error: the stream is over.
Finish ==
  /\ pc = "failing"
  /\ pc' = "ended"
  /\ UNCHANGED <<setting, creds, guard, sigterms, emitted, broken, process, output>>

\* Mutant: the guard terminates the pid it was made for, taken or not.
Drop_SignalsAgain ==
  /\ pc \in {"unpolled", "reading", "waiting", "failing"}
  /\ pc' = "dropped"
  /\ guard' = IF guard = "armed" THEN "taken" ELSE guard
  /\ sigterms' = IF guard # "none" THEN Signalled ELSE sigterms
  /\ Killed
  /\ UNCHANGED <<setting, creds, emitted, broken, output>>

\* Mutant: no kill_on_drop.
Drop_NoKillOnDrop ==
  /\ pc \in {"unpolled", "reading", "waiting", "failing"}
  /\ pc' = "dropped"
  /\ guard' = IF guard = "armed" THEN "taken" ELSE guard
  /\ sigterms' = IF guard = "armed" THEN Signalled ELSE sigterms
  /\ UNCHANGED <<setting, creds, emitted, broken, process, output>>

\* The stream is dropped where it is suspended: first the guard, if the body
\* has begun, then the child, which is killed on drop.
Drop ==
  /\ pc \in {"unpolled", "reading", "waiting", "failing"}
  /\ pc' = "dropped"
  /\ guard' = IF guard = "armed" THEN "taken" ELSE guard
  /\ sigterms' = IF guard = "armed" THEN Signalled ELSE sigterms
  /\ Killed
  /\ UNCHANGED <<setting, creds, emitted, broken, output>>

Over == pc \in {"ended", "dropped", "start_error"}

-----------------------------------------------------------------------------
\* The probe prints; a full pipe blocks it, a pipe without a reader kills it.
PrintLine(l) ==
  /\ probe = "running" /\ stdout = "open"
  /\ IF Over
       THEN Exits("bad", "pipe") /\ UNCHANGED output
       ELSE /\ Len(pipe) < PipeCapacity /\ Len(printed) < MaxLines
            /\ pipe' = Append(pipe, l)
            /\ printed' = Append(printed, l)
            /\ UNCHANGED process
  /\ UNCHANGED <<setting, creds, pc, guard, sigterms, emitted, broken>>

\* It closes its standard output and goes on.
CloseStdout ==
  /\ probe = "running" /\ stdout = "open"
  /\ stdout' = "closed"
  /\ early' = TRUE
  /\ UNCHANGED <<setting, creds, pc, guard, sigterms, emitted, broken, probe,
                 code, killer, output>>

\* It exits.
ProbeExits(c) ==
  /\ probe = "running"
  /\ Exits(c, "itself")
  /\ UNCHANGED <<setting, creds, pc, guard, sigterms, emitted, broken, output>>

\* It exits because of SIGTERM.
ProbeTermed(c) ==
  /\ probe = "running" /\ sigterms > 0
  /\ Exits(c, "term")
  /\ UNCHANGED <<setting, creds, pc, guard, sigterms, emitted, broken, output>>

Zombie ==
  /\ probe = "exiting"
  /\ probe' = "zombie"
  /\ UNCHANGED <<setting, creds, pc, guard, sigterms, emitted, broken, code,
                 killer, stdout, early, output>>

\* Once the Child is dropped tokio's orphan queue reaps it.
Orphan ==
  /\ pc \in {"dropped", "start_error"} /\ probe = "zombie"
  /\ probe' = "reaped"
  /\ UNCHANGED <<setting, creds, pc, guard, sigterms, emitted, broken, code,
                 killer, stdout, early, output>>

Expire ==
  /\ sudo /\ creds
  /\ creds' = FALSE
  /\ UNCHANGED <<setting, pc, guard, sigterms, emitted, broken, process, output>>

Next ==
  \/ Spawn
  \/ StartupCheck
  \/ StartupCheckFails
  \/ FirstPoll
  \/ ReadLine
  \/ ReadEof
  \/ ReadFails
  \/ Terminate
  \/ Kill
  \/ Wait
  \/ WaitFails
  \/ Finish
  \/ Drop
  \/ \E l \in Lines : PrintLine(l)
  \/ CloseStdout
  \/ \E c \in {"ok", "bad"} : ProbeExits(c) \/ ProbeTermed(c)
  \/ Zombie
  \/ Orphan
  \/ Expire

Spec == Init /\ [][Next]_vars

\* Whoever holds the stream polls it until it is over or dropped.
PollFairness ==
  /\ WF_vars(StartupCheck)
  /\ WF_vars(FirstPoll)
  /\ WF_vars(ReadLine)
  /\ WF_vars(ReadEof)
  /\ WF_vars(Terminate)
  /\ WF_vars(Kill)
  /\ WF_vars(Wait)
  /\ WF_vars(Finish)

\* The kernel finishes an exit, and a probe obeys SIGTERM in the end.
ProbeFairness ==
  /\ WF_vars(Zombie)
  /\ WF_vars(\E c \in {"ok", "bad"} : ProbeTermed(c))

FairSpec == Spec /\ PollFairness /\ ProbeFairness

-----------------------------------------------------------------------------
\* Type invariant; the group is sent SIGTERM once at most.
TypeOK ==
  /\ sudo \in BOOLEAN /\ delayed \in BOOLEAN /\ creds \in BOOLEAN
  /\ pc \in {"starting", "delay", "unpolled", "reading", "terminating", "killing",
             "waiting", "failing", "ended", "dropped", "start_error"}
  /\ guard \in {"none", "armed", "taken"}
  /\ sigterms \in 0..1
  /\ emitted \in Seq({"event", "diagnostic", "runner_error"})
  /\ broken \in BOOLEAN
  /\ probe \in {"none", "running", "exiting", "zombie", "reaped"}
  /\ code \in {"none", "ok", "bad"}
  /\ killer \in {"none", "itself", "term", "kill", "pipe"}
  /\ stdout \in {"open", "closed"}
  /\ early \in BOOLEAN
  /\ pipe \in Seq(Lines) /\ Len(pipe) <= PipeCapacity
  /\ printed \in Seq(Lines) /\ Len(printed) <= MaxLines

\* What is yielded is what the probe has printed, in order; a stream that has
\* come to its end yielded all of it, whenever the probe exited, and after it
\* the failure of the probe, if it failed, as an event the session recognises
\* (for either name of the timestamp field).
StreamIsFaithful ==
  /\ pc = "reading" => emitted \o Items(pipe) = Items(printed)
  /\ pc = "ended" /\ ~broken =>
       emitted = Items(printed) \o IF code = "bad" THEN <<"runner_error">> ELSE <<>>

\* The status that is judged is the probe's own: the executor's SIGTERM and
\* SIGKILL after the end of file do not turn an exit into a failure, unless the
\* probe had closed its output without exiting.
StatusIsOwn ==
  pc \in {"failing", "ended"} /\ ~early /\ ~broken => killer = "itself"

\* The process group is not signalled after its leader has been reaped, when
\* the number may belong to another process.
NoStraySignal == [][sigterms' > sigterms => probe # "reaped"]_vars

\* The end of the probe, or of its output, ends the stream; only a sudo that
\* does not let itself be killed keeps it waiting.
EofEndsStream ==
  pc # "starting" /\ stdout = "closed" /\ (probe # "running" \/ ~sudo) ~> Over

\* No probe outlives its stream.  Under sudo that takes credentials that still
\* hold and a stream that has been polled: before that there is no guard, and
\* kill_on_drop may not kill sudo.
ProbeStops ==
  /\ Over /\ ~sudo ~> probe # "running"
  /\ []creds => (Over /\ guard # "none" ~> probe # "running")
=============================================================================
