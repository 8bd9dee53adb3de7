------------------------------- MODULE Session -------------------------------
(***************************************************************************)
(* The loops of overlay/collector/src/cmd_trace.rs that drive a capture    *)
(* session, with the signal handler of main.rs that is to stop them:       *)
(*                                                                         *)
(*   drive  drive_stream_until_shutdown, used by run_trace (`record`) and  *)
(*          run_debug_runner                                               *)
(*   silent run_trace_silent_until_cancel, with a oneshot to cancel it     *)
(*   drain  drain_stream_for, with a deadline                              *)
(*   serve  run_report_serve (main.rs), which has no stream                *)
(*                                                                         *)
(* The handler task wakes the loop with Notify::notify_waiters, which      *)
(* leaves no permit behind: it reaches a Notified future that exists, and  *)
(* each turn of a loop makes a new one.                                    *)
(*                                                                         *)
(* The stream is AgentRunner's merge of the runners' streams (AgentSight,  *)
(* not in this repository): it offers what any of the runners offers and   *)
(* ends when all of them have.  A runner's last item may be a runner_error.*)
(***************************************************************************)
EXTENDS Integers, FiniteSets

CONSTANTS
  Runners,     \* the runners of the agent
  MaxSignals   \* bound: how many SIGINT / SIGTERM the process is sent

ASSUME SessionAssumption == MaxSignals \in Nat

VARIABLES
  mode,       \* which of the four loops
  offer,      \* offer[r]: what runner r has ready for the stream
  live,       \* the runners whose stream has not ended
  sent,       \* how many signals have been sent
  signal,     \* whether a signal waits for the handler task
  handler,    \* where the handler task is
  requested,  \* SHUTDOWN_REQUESTED
  pc,         \* where the loop is
  notified,   \* whether its Notified future has been woken
  cancel,     \* whether the oneshot has resolved: sent, or its sender dropped
  elapsed,    \* whether the deadline has passed
  result,     \* what the loop has returned
  failed      \* history: the runners that have failed

vars == <<mode, offer, live, sent, signal, handler, requested, pc, notified,
          cancel, elapsed, result, failed>>

stream == <<offer, live, failed>>
handling == <<sent, signal, handler, requested>>
timers == <<cancel, elapsed>>

-----------------------------------------------------------------------------
Init ==
  /\ mode \in {"drive", "silent", "drain", "serve"}
  /\ offer = [r \in Runners |-> "nothing"]
  /\ live = Runners
  /\ sent = 0
  /\ signal = FALSE
  /\ handler = "listening"
  /\ requested = FALSE
  /\ pc = "startup"       \* the handler is spawned before the command is run
  /\ notified = FALSE
  /\ cancel = FALSE
  /\ elapsed = FALSE
  /\ result = "none"
  /\ failed = {}

\* The runners, which the stream merges.
Offer(r) ==
  /\ r \in live /\ offer[r] = "nothing"
  /\ offer' = [offer EXCEPT ![r] = "event"]
  /\ UNCHANGED <<mode, live, failed, handling, pc, notified, timers, result>>

Fail(r) ==
  /\ r \in live /\ offer[r] = "nothing"
  /\ offer' = [offer EXCEPT ![r] = "runner_error"]
  /\ live' = live \ {r}
  /\ failed' = failed \cup {r}
  /\ UNCHANGED <<mode, handling, pc, notified, timers, result>>

End(r) ==
  /\ r \in live /\ offer[r] = "nothing"
  /\ live' = live \ {r}
  /\ UNCHANGED <<mode, offer, failed, handling, pc, notified, timers, result>>

-----------------------------------------------------------------------------
\* SIGINT or SIGTERM: from the terminal, or from systemd (KillSignal=SIGINT).
Interrupt ==
  /\ sent < MaxSignals
  /\ sent' = sent + 1
  /\ signal' = TRUE
  /\ UNCHANGED <<mode, stream, handler, requested, pc, notified, timers, result>>

\* setup_signal_handler's task: the select! on the two signals resolves, once,
\* and notify_shutdown stores the flag.
HandleSignal ==
  /\ handler = "listening" /\ signal
  /\ signal' = FALSE
  /\ requested' = TRUE
  /\ handler' = "notifying"
  /\ UNCHANGED <<mode, stream, sent, pc, notified, timers, result>>

\* Mutant: the task listens again.
NotifyWaiters_ListensAgain ==
  /\ handler = "notifying"
  /\ handler' = "listening"
  /\ notified' = (notified \/ pc = "select")
  /\ UNCHANGED <<mode, stream, sent, signal, requested, pc, timers, result>>

\* Mutant: somebody else's Notify is used.
NotifyWaiters_OtherNotify ==
  /\ handler = "notifying"
  /\ handler' = "finished"
  /\ UNCHANGED <<mode, stream, sent, signal, requested, pc, notified, timers, result>>

\* notify_waiters(): only a future that exists is woken.
NotifyWaiters ==
  /\ handler = "notifying"
  /\ handler' = "finished"
  /\ notified' = (notified \/ pc = "select")
  /\ UNCHANGED <<mode, stream, sent, signal, requested, pc, timers, result>>

-----------------------------------------------------------------------------
\* The loop is reached, or its next turn begins: select! makes a new Notified.
Turn ==
  /\ pc \in {"startup", "body"}
  /\ pc' = "select"
  /\ notified' = FALSE
  /\ UNCHANGED <<mode, stream, handling, timers, result>>

Return(r) ==
  /\ pc' = "returned"
  /\ result' = r

HasStream == mode # "serve"

\* Mutant: an error of a runner is treated like any event.
Take_IgnoresError(r) ==
  /\ pc = "select" /\ HasStream
  /\ offer[r] # "nothing"
  /\ offer' = [offer EXCEPT ![r] = "nothing"]
  /\ pc' = "body"
  /\ UNCHANGED <<mode, live, failed, handling, notified, timers, result>>

\* stream.next() yields the item of runner r: a runner_error ends the session.
Take(r) ==
  /\ pc = "select" /\ HasStream
  /\ offer[r] # "nothing"
  /\ offer' = [offer EXCEPT ![r] = "nothing"]
  /\ IF offer[r] = "runner_error" THEN Return("error")
                                  ELSE pc' = "body" /\ UNCHANGED result
  /\ UNCHANGED <<mode, live, failed, handling, notified, timers>>

Exhausted == live = {} /\ \A r \in Runners : offer[r] = "nothing"

\* Mutant: None is taken for a pause.
StreamEnds_Continues ==
  /\ pc = "select" /\ HasStream
  /\ Exhausted
  /\ pc' = "body"
  /\ UNCHANGED <<mode, stream, handling, notified, timers, result>>

\* stream.next() yields None.
StreamEnds ==
  /\ pc = "select" /\ HasStream
  /\ Exhausted
  /\ Return("ok")
  /\ UNCHANGED <<mode, stream, handling, notified, timers>>

\* shutdown.notified() resolves.
SeeShutdown ==
  /\ pc = "select"
  /\ notified
  /\ Return("ok")
  /\ UNCHANGED <<mode, stream, handling, notified, timers>>

\* Mutant: select! is biased, the stream first.
SeeCancel_Biased ==
  /\ pc = "select" /\ mode = "silent"
  /\ cancel
  /\ \A r \in Runners : offer[r] = "nothing"
  /\ Return("ok")
  /\ UNCHANGED <<mode, stream, handling, notified, timers>>

\* &mut cancel resolves.
SeeCancel ==
  /\ pc = "select" /\ mode = "silent"
  /\ cancel
  /\ Return("ok")
  /\ UNCHANGED <<mode, stream, handling, notified, timers>>

\* &mut deadline resolves.
SeeDeadline ==
  /\ pc = "select" /\ mode = "drain"
  /\ elapsed
  /\ Return("ok")
  /\ UNCHANGED <<mode, stream, handling, notified, timers>>

Cancel ==
  /\ mode = "silent" /\ ~cancel
  /\ cancel' = TRUE
  /\ UNCHANGED <<mode, stream, handling, pc, notified, elapsed, result>>

Elapse ==
  /\ mode = "drain" /\ ~elapsed
  /\ elapsed' = TRUE
  /\ UNCHANGED <<mode, stream, handling, pc, notified, cancel, result>>

Next ==
  \/ \E r \in Runners : Offer(r) \/ Fail(r) \/ End(r) \/ Take(r)
  \/ Interrupt
  \/ HandleSignal
  \/ NotifyWaiters
  \/ Turn
  \/ StreamEnds
  \/ SeeShutdown
  \/ SeeCancel
  \/ SeeDeadline
  \/ Cancel
  \/ Elapse

Spec == Init /\ [][Next]_vars

\* The runtime polls the tasks that are ready; select! picks at random among
\* the branches that are, and the merge of the streams starves none of them.
\* Nothing makes a runner offer, fail or end, or a signal, a cancellation or
\* the deadline come.
FairSpec ==
  /\ Spec
  /\ WF_vars(HandleSignal)
  /\ WF_vars(NotifyWaiters)
  /\ WF_vars(Turn)
  /\ WF_vars(StreamEnds)
  /\ \A r \in Runners : SF_vars(Take(r))
  /\ SF_vars(SeeShutdown)
  /\ SF_vars(SeeCancel)
  /\ SF_vars(SeeDeadline)

-----------------------------------------------------------------------------
\* Type invariant.
TypeOK ==
  /\ mode \in {"drive", "silent", "drain", "serve"}
  /\ offer \in [Runners -> {"nothing", "event", "runner_error"}]
  /\ live \subseteq Runners
  /\ sent \in 0..MaxSignals
  /\ signal \in BOOLEAN
  /\ handler \in {"listening", "notifying", "finished"}
  /\ requested = (handler # "listening")
  /\ pc \in {"startup", "select", "body", "returned"}
  /\ notified \in BOOLEAN
  /\ cancel \in BOOLEAN
  /\ elapsed \in BOOLEAN
  /\ result \in {"none", "ok", "error"}
  /\ (pc = "returned") <=> (result # "none")
  /\ failed \in SUBSET (Runners \ live)

\* A session whose probe has failed does not end as if the probes had merely
\* finished: the loop goes through every item before it sees the end of the
\* stream, and returns the first runner_error among them.
ErrorReported ==
  pc = "returned" /\ Exhausted /\ failed # {} => result = "error"

\* One runner that fails ends the session, however much the others offer
\* (runner_error_from_event in each of the loops).
FailureEndsSession ==
  \A r \in Runners : HasStream /\ offer[r] = "runner_error" ~> pc = "returned"

\* When the last runner is over, so is the session.
StreamEndStops == HasStream /\ live = {} ~> pc = "returned"

\* A busy stream does not keep the loop from seeing that it is cancelled, or
\* that its time is up.
TimerStops ==
  /\ mode = "silent" /\ cancel ~> pc = "returned"
  /\ mode = "drain" /\ elapsed ~> pc = "returned"

\* No runner has an item ready.
Silent == \A r \in Runners : offer[r] = "nothing"

\* A signal that finds the loop waiting ends it, if the runners are silent from
\* then on.  (With an item ready select! may pick the item, and the wakeup is
\* lost with the Notified it drops.)
SignalStopsWaitingLoop ==
  [](handler = "notifying" /\ pc = "select" /\ []Silent => <>(pc = "returned"))

-----------------------------------------------------------------------------
\* overlay/deploy/systemd/memguard.service:17 stops the service with SIGINT and
\* says that `record` then ends by its shutdown branch.  A signal handled while
\* the loop is not inside select! (before the first turn, or in the body of a
\* turn) wakes nobody, and nothing looks at SHUTDOWN_REQUESTED.
SignalStops == requested ~> pc = "returned"
=============================================================================
