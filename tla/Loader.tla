------------------------------- MODULE Loader -------------------------------
(***************************************************************************)
(* overlay/bpf/memwrite.c, the loader, with the ring buffer through which  *)
(* the kprobes of memwrite.bpf.c reach it and the pipe through which it    *)
(* reaches the collector.                                                  *)
(*                                                                         *)
(* A kprobe reserves a record, fills it in and submits it; other CPUs do   *)
(* the same meanwhile.  libbpf's ring_buffer__poll waits for the ring,     *)
(* then hands record after record to handle_event up to one that has not   *)
(* been submitted, and returns how many it were: it looks at no flag.      *)
(* A signal may come at any time; it interrupts the wait, nothing else.    *)
(***************************************************************************)
EXTENDS Integers, Sequences

CONSTANTS
  Cpus,
  MaxEvents,     \* bound: how many writes match the prefix in the loader's life, so
                 \* that a poll always comes to the end of the ring
  RingCapacity,  \* how many records fit into the 256 KiB of the ring
  PipeCapacity,  \* how many lines fit into the stdout pipe
  Faults         \* whether a step of the setup, or the poll, may fail

ASSUME LoaderAssumption ==
  /\ MaxEvents \in Nat
  /\ RingCapacity \in Nat \ {0}
  /\ PipeCapacity \in Nat \ {0}
  /\ Faults \in BOOLEAN

VARIABLES
  pc,        \* where main is
  err,       \* its variable err
  stop,      \* the flag of sig_handler
  count,     \* how many records this ring_buffer__poll has consumed
  code,      \* the exit status; Running before, Signalled if a signal killed it
  failure,   \* history: the step that failed, "none" if none did
  attached,  \* whether the kprobes are
  cpu,       \* cpu[c]: the record c is at, 0 if none
  filled,    \* the records filled in
  ring,      \* the records reserved and not consumed, in order
  done,      \* the records submitted
  reserved,  \* history: how many records have been reserved
  missed,    \* history: how many writes found the ring full
  lines,     \* the pipe
  printed,   \* history: the records printed, each with whether it was filled in
  reader     \* whether the collector still has its end of the pipe

vars == <<pc, err, stop, count, code, failure, attached, cpu, filled, ring, done,
          reserved, missed, lines, printed, reader>>

main == <<pc, err, count, code, failure, attached>>
probes == <<cpu, filled, done, reserved, missed>>
pipe == <<lines, printed, reader>>

Running == -1
Signalled == 256
EINTR == 4
EOTHER == 9     \* any other error

Status(e) == e % 256

-----------------------------------------------------------------------------
Init ==
  /\ pc = "open"
  /\ err = 0
  /\ stop = FALSE
  /\ count = 0
  /\ code = Running
  /\ failure = "none"
  /\ attached = FALSE
  /\ cpu = [c \in Cpus |-> 0]
  /\ filled = {}
  /\ ring = <<>>
  /\ done = {}
  /\ reserved = 0
  /\ missed = 0
  /\ lines = <<>>
  /\ printed = <<>>
  /\ reader = TRUE

\* The setup, with the signal handlers in place from its first step on.
SetupStep(stage, next) ==
  /\ pc = stage
  /\ pc' = next
  /\ attached' = (attached \/ stage = "attach")
  /\ UNCHANGED <<err, count, code, failure, stop, ring, probes, pipe>>

\* A failure of open returns 1, one of load or attach leaves err negative; one
\* of ring_buffer__new leaves err as attach has set it.
SetupFails ==
  /\ Faults
  /\ pc \in {"open", "load", "attach", "ring"}
  /\ pc' = IF pc = "open" THEN "exited" ELSE "cleanup"
  /\ code' = IF pc = "open" THEN 1 ELSE code
  /\ err' = IF pc \in {"load", "attach"} THEN -EOTHER ELSE err
  /\ failure' = pc
  /\ UNCHANGED <<count, attached, stop, ring, probes, pipe>>

\* sig_handler, for SIGINT and SIGTERM.  In the poll it makes epoll_wait return
\* -EINTR (the loop continues), unless it came just before.
sig_handler ==
  /\ pc # "exited" /\ ~stop
  /\ stop' = TRUE
  /\ \/ UNCHANGED main
     \/ pc = "poll" /\ pc' = "loop" /\ err' = -EINTR /\ UNCHANGED <<count, code, failure, attached>>
  /\ UNCHANGED <<ring, probes, pipe>>

\* Mutant: the loop is endless.
LoopTest_IgnoresStop ==
  /\ pc = "loop"
  /\ pc' = "poll"
  /\ UNCHANGED <<err, count, code, failure, attached, stop, ring, probes, pipe>>

\* while (!stop)
LoopTest ==
  /\ pc = "loop"
  /\ pc' = IF stop THEN "cleanup" ELSE "poll"
  /\ UNCHANGED <<err, count, code, failure, attached, stop, ring, probes, pipe>>

\* Mutant: a poll that timed out is taken for one that failed.
PollReturns_ZeroIsError(result) ==
  /\ err' = result
  /\ pc' = IF result <= 0 THEN "cleanup" ELSE "loop"
  /\ UNCHANGED <<code, attached, stop, ring, probes, pipe>>

\* ring_buffer__poll has returned: an error (EINTR is sig_handler's) is final.
PollReturns(result) ==
  /\ err' = result
  /\ pc' = IF result < 0 THEN "cleanup" ELSE "loop"
  /\ UNCHANGED <<code, attached, stop, ring, probes, pipe>>

PollTimesOut ==
  /\ pc = "poll" /\ ring = <<>>
  /\ PollReturns(0)
  /\ UNCHANGED <<count, failure>>

PollFails ==
  /\ pc = "poll" /\ Faults
  /\ PollReturns(-EOTHER)
  /\ failure' = "poll"
  /\ UNCHANGED count

\* There is something in the ring, submitted or not.
PollReady ==
  /\ pc = "poll" /\ ring # <<>>
  /\ pc' = "consume"
  /\ count' = 0
  /\ UNCHANGED <<err, code, failure, attached, stop, ring, probes, pipe>>

\* Mutant: a full pipe loses the line.
handle_event_LosesLine ==
  /\ pc = "consume" /\ ring # <<>> /\ Head(ring) \in done /\ reader
  /\ lines' = IF Len(lines) < PipeCapacity THEN Append(lines, Head(ring)) ELSE lines
  /\ printed' = IF Len(lines) < PipeCapacity
                  THEN Append(printed, [id |-> Head(ring), whole |-> Head(ring) \in filled])
                  ELSE printed
  /\ ring' = Tail(ring)
  /\ count' = count + 1
  /\ UNCHANGED <<pc, err, code, failure, attached, stop, probes, reader>>

\* handle_event prints the first record, a full pipe keeps it waiting, and the
\* record is consumed.
handle_event ==
  /\ pc = "consume" /\ ring # <<>> /\ Head(ring) \in done /\ reader
  /\ Len(lines) < PipeCapacity
  /\ lines' = Append(lines, Head(ring))
  /\ printed' = Append(printed, [id |-> Head(ring), whole |-> Head(ring) \in filled])
  /\ ring' = Tail(ring)
  /\ count' = count + 1
  /\ UNCHANGED <<pc, err, code, failure, attached, stop, probes, reader>>

\* Without a reader the flush raises SIGPIPE, which kills the loader.
BrokenPipe ==
  /\ pc = "consume" /\ ring # <<>> /\ Head(ring) \in done /\ ~reader
  /\ pc' = "exited"
  /\ code' = Signalled
  /\ attached' = FALSE
  /\ UNCHANGED <<err, count, failure, stop, ring, probes, pipe>>

\* The ring is empty, or its first record has not been submitted.
PollDone ==
  /\ pc = "consume"
  /\ ring # <<>> => Head(ring) \notin done
  /\ PollReturns(count)
  /\ UNCHANGED <<count, failure>>

\* Mutant: the loader exits without detaching the kprobes.
Cleanup_StaysAttached ==
  /\ pc = "cleanup"
  /\ pc' = "exited"
  /\ code' = Status(err)
  /\ UNCHANGED <<err, count, failure, attached, stop, ring, probes, pipe>>

\* Mutant: whatever ended the loop, a stop is reported as a success.
Cleanup_StopIsSuccess ==
  /\ pc = "cleanup"
  /\ pc' = "exited"
  /\ code' = IF stop THEN 0 ELSE Status(err)
  /\ attached' = FALSE
  /\ UNCHANGED <<err, count, failure, stop, ring, probes, pipe>>

\* cleanup: free, detach, `return err`.
Cleanup ==
  /\ pc = "cleanup"
  /\ pc' = "exited"
  /\ code' = Status(err)
  /\ attached' = FALSE
  /\ UNCHANGED <<err, count, failure, stop, ring, probes, pipe>>

-----------------------------------------------------------------------------
\* Mutant: the result of the reservation is not checked.
Reserve_Unchecked(c) ==
  /\ attached /\ cpu[c] = 0
  /\ reserved + missed < MaxEvents
  /\ reserved' = reserved + 1
  /\ cpu' = [cpu EXCEPT ![c] = reserved + 1]
  /\ ring' = Append(ring, reserved + 1)
  /\ UNCHANGED <<main, stop, missed, filled, done, pipe>>

\* A write to a store enters a kprobe on c: bpf_ringbuf_reserve.
Reserve(c) ==
  /\ attached /\ cpu[c] = 0
  /\ reserved + missed < MaxEvents
  /\ IF Len(ring) < RingCapacity
       THEN /\ reserved' = reserved + 1
            /\ cpu' = [cpu EXCEPT ![c] = reserved + 1]
            /\ ring' = Append(ring, reserved + 1)
            /\ UNCHANGED missed
       ELSE /\ missed' = missed + 1
            /\ UNCHANGED <<cpu, ring, reserved>>
  /\ UNCHANGED <<main, stop, filled, done, pipe>>

\* The fields and the windows are stored.
Fill(c) ==
  /\ cpu[c] # 0 /\ cpu[c] \notin filled
  /\ filled' = filled \cup {cpu[c]}
  /\ UNCHANGED <<main, stop, ring, cpu, done, reserved, missed, pipe>>

\* Mutant: the record is submitted where it is reserved.
Submit_BeforeFill(c) ==
  /\ cpu[c] # 0 /\ cpu[c] \notin done
  /\ done' = done \cup {cpu[c]}
  /\ cpu' = IF cpu[c] \in filled THEN [cpu EXCEPT ![c] = 0] ELSE cpu
  /\ UNCHANGED <<main, stop, ring, filled, reserved, missed, pipe>>

\* bpf_ringbuf_submit.
Submit(c) ==
  /\ cpu[c] # 0 /\ cpu[c] \in filled
  /\ done' = done \cup {cpu[c]}
  /\ cpu' = [cpu EXCEPT ![c] = 0]
  /\ UNCHANGED <<main, stop, ring, filled, reserved, missed, pipe>>

\* The collector reads a line, or lets go of the pipe.
ReadLine ==
  /\ reader /\ lines # <<>>
  /\ lines' = Tail(lines)
  /\ UNCHANGED <<main, stop, ring, probes, printed, reader>>

LetGo ==
  /\ reader
  /\ reader' = FALSE
  /\ UNCHANGED <<main, stop, ring, probes, lines, printed>>

Next ==
  \/ SetupStep("open", "load")
  \/ SetupStep("load", "attach")
  \/ SetupStep("attach", "ring")
  \/ SetupStep("ring", "loop")
  \/ SetupFails
  \/ sig_handler
  \/ LoopTest
  \/ PollTimesOut
  \/ PollFails
  \/ PollReady
  \/ handle_event
  \/ BrokenPipe
  \/ PollDone
  \/ Cleanup
  \/ \E c \in Cpus : Reserve(c) \/ Fill(c) \/ Submit(c)
  \/ ReadLine
  \/ LetGo

Spec == Init /\ [][Next]_vars

\* The loader runs when it can, a kprobe that has begun ends, and the collector
\* reads what it holds the pipe for.
FairSpec ==
  /\ Spec
  /\ WF_vars(LoopTest)
  /\ WF_vars(PollTimesOut)
  /\ WF_vars(PollReady)
  /\ WF_vars(handle_event)
  /\ WF_vars(BrokenPipe)
  /\ WF_vars(PollDone)
  /\ WF_vars(Cleanup)
  /\ \A c \in Cpus : WF_vars(Fill(c)) /\ WF_vars(Submit(c))
  /\ WF_vars(ReadLine)

-----------------------------------------------------------------------------
\* Type invariant.
TypeOK ==
  /\ pc \in {"open", "load", "attach", "ring", "loop", "poll", "consume", "cleanup", "exited"}
  /\ err \in {-EINTR, -EOTHER} \cup 0..MaxEvents
  /\ stop \in BOOLEAN
  /\ count \in 0..MaxEvents
  /\ code \in {Running, Signalled} \cup 0..255
  /\ (pc = "exited") <=> (code # Running)
  /\ failure \in {"none", "open", "load", "attach", "ring", "poll"}
  /\ attached \in BOOLEAN
  /\ cpu \in [Cpus -> 0..MaxEvents]
  /\ filled \subseteq 1..reserved
  /\ done \subseteq 1..reserved
  /\ ring \in Seq(1..reserved) /\ Len(ring) <= RingCapacity
  /\ reserved + missed \in 0..MaxEvents
  /\ lines \in Seq(1..reserved) /\ Len(lines) <= PipeCapacity
  /\ reader \in BOOLEAN

\* Whatever the CPUs and the pipe do, the records are printed in the order of
\* their reservation, each once, none of those that got into the ring skipped.
PrintedInOrder ==
  [i \in 1..Len(printed) |-> printed[i].id] \o ring = [i \in 1..reserved |-> i]

\* No line is printed of a record that another CPU is still filling in.
PrintedWhole == \A i \in 1..Len(printed) : printed[i].whole

\* The exit status is all that the collector learns of the loader's end: it is
\* 0 only after a stop that found nothing wrong, whatever came in which order,
\* or when the ring buffer could not be made (which err, left 0 by attach, does
\* not tell).
StatusTells ==
  pc = "exited" /\ code = 0 => failure = "ring" \/ (stop /\ failure = "none")

\* Ring, loader and pipe together are the feed: what has a place in the ring is printed
\* whole, in order and once, unless the loader ends first; a write is missed only when
\* the ring is full; and with the loader the kprobes are gone.
Feed == INSTANCE EventFeed
  WITH Room <- RingCapacity, PipeRoom <- PipeCapacity, accepted <- reserved, missed <- missed,
       delivered <- printed, unread <- lines, over <- pc = "exited"

FeedSpec == Feed!Spec

\* A write that got into the ring is printed, unless the loader is stopped, a
\* poll fails or the reader is lost: no wakeup is lost, a poll that finds
\* nothing ends nothing, and a slow CPU only delays those behind it.
EventPrinted ==
  \A i \in 1..MaxEvents :
    pc = "poll" /\ reserved >= i ~>
      \/ \E k \in 1..Len(printed) : printed[k].id = i
      \/ stop \/ err < 0 \/ ~reader

\* A signal ends the loader as soon as the ring has been drained once, wherever
\* it comes; also in the setup, where it skips the loop.  That the ring is drained
\* is the bound's doing: libbpf goes on as long as there are records, without looking
\* at stop, so that writes which always come faster than lines are printed would
\* keep it from ever ending.
SignalEnds == stop /\ pc \in {"loop", "poll", "consume"} ~> pc = "exited"

=============================================================================
