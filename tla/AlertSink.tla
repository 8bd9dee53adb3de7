------------------------------ MODULE AlertSink ------------------------------
(***************************************************************************)
(* overlay/ext/analysis/src/analyzers/alert_sink.rs, and the part of       *)
(* run_trace (overlay/collector/src/cmd_trace.rs) that ends its life.      *)
(*                                                                         *)
(* The event stream hands every poison hit to an unbounded channel; a      *)
(* background task, the flusher, moves them into the pending window and    *)
(* pushes the window on a timer tick, first to WeCom, then to ServerChan.  *)
(* When both senders of the channel are gone the flusher pushes what is    *)
(* left and returns.  The process waits for nobody: once run_trace has     *)
(* dropped the stream and the agent it exits, and the flusher with it.     *)
(*                                                                         *)
(* An alert is its number in the order of acceptance; titles, bodies and   *)
(* URLs are abstracted to the scheme of the URL, which the HTTP client     *)
(* tells apart.                                                            *)
(***************************************************************************)
EXTENDS Integers, Sequences

CONSTANTS
  MaxAlerts,      \* bound: how many poison hits the stream produces
  UriCapacity     \* how many alerts fit into the URI of a ServerChan GET

ASSUME AlertSinkAssumption ==
  /\ MaxAlerts \in Nat
  /\ UriCapacity \in Nat

Channels == {"wecom", "serverchan"}

VARIABLES
  cfg,        \* the AlertConfig
  lossy,      \* whether the network may lose a request that could be sent
  senders,    \* who still holds an UnboundedSender
  accepted,   \* number of alerts sent into the channel
  chan,       \* the mpsc channel
  pending,    \* the flusher's window
  tick,       \* whether the interval has a tick ready
  pc,         \* where the flusher is suspended
  last,       \* whether the flush under way is the one before `break`
  arrived,    \* whether the endpoint has got the request under way
  flushed,    \* history: the alerts of the flush_alerts calls that returned
  offered,    \* history: the alerts for which post_json / get_url was called
  received,   \* history: the alerts that reached the channel's endpoint
  exited      \* the process is gone

vars == <<cfg, lossy, senders, accepted, chan, pending, tick, pc, last, arrived,
          flushed, offered, received, exited>>

history == <<flushed, offered, received>>

setting == <<cfg, lossy>>

-----------------------------------------------------------------------------
\* --alert-base: absent, an http or https URL, or one that is no URL.
AlertConfig ==
  [wecom : BOOLEAN, serverchan : BOOLEAN, dry_run : BOOLEAN,
   base : {"none", "http", "https", "malformed"}]

enabled(c) == c.dry_run \/ c.wecom \/ c.serverchan

\* The channels flush_alerts goes through, dry_run returning before both.
Used(c) == {ch \in Channels : c[ch] /\ ~c.dry_run}

\* Mutant: override_url keeps the scheme of the API constant instead of the
\* one of the base.
Scheme_KeepsApiScheme(c) == IF c.base = "http" THEN "https" ELSE c.base

\* Both API constants are https URLs; --alert-base replaces the scheme.
Scheme(c) == IF c.base = "none" THEN "https" ELSE c.base

\* The client is build_http(): its connector only opens plain http.
Connects(c) == Scheme(c) = "http"

\* Request::builder().body() succeeds: the URL parses, and the one URL that
\* holds the whole window, ServerChan's, is not longer than a URI may be.
Builds(c, ch, window) ==
  /\ Scheme(c) # "malformed"
  /\ ch = "serverchan" => Len(window) <= UriCapacity

-----------------------------------------------------------------------------
\* cmd_trace attaches a sink only to a configuration that is enabled.
Init ==
  /\ cfg \in {c \in AlertConfig : enabled(c)}
  /\ lossy \in BOOLEAN
  /\ senders = {"sink", "stream"}
  /\ accepted = 0
  /\ chan = <<>>
  /\ pending = <<>>
  /\ tick = TRUE                       \* tokio's first tick is immediate
  /\ pc = "select"
  /\ last = FALSE
  /\ arrived = FALSE
  /\ flushed = <<>>
  /\ offered = [c \in Channels |-> <<>>]
  /\ received = [c \in Channels |-> <<>>]
  /\ exited = FALSE

\* The stream reaches an event with data.poison: StreamSink::push.
Push ==
  /\ "stream" \in senders
  /\ enabled(cfg)
  /\ accepted < MaxAlerts
  /\ accepted' = accepted + 1
  /\ chan' = Append(chan, accepted + 1)
  /\ UNCHANGED <<setting, senders, pending, tick, pc, last, arrived, history, exited>>

\* The interval elapses; MissedTickBehavior::Skip keeps one tick at most.
TimerFires ==
  /\ ~tick
  /\ pc \notin {"returned", "aborted"}
  /\ tick' = TRUE
  /\ UNCHANGED <<setting, senders, accepted, chan, pending, pc, last, arrived,
                 history, exited>>

\* Mutant: pending.clear() is forgotten.
FlushReturns_KeepsPending(window, final) ==
  /\ flushed' = flushed \o window
  /\ pending' = window
  /\ pc' = IF final THEN "returned" ELSE "select"
  /\ last' = FALSE

\* flush_alerts has returned for the alerts in `window`.
FlushReturns(window, final) ==
  /\ flushed' = flushed \o window
  /\ pending' = <<>>
  /\ pc' = IF final THEN "returned" ELSE "select"
  /\ last' = FALSE

\* flush_alerts from where the channels `left` are still to be tried up to its
\* next suspension, in client.request(), or to its end.  A request that cannot
\* be built is logged and its channel skipped.
flush_alerts(left, window, final) ==
  LET sendable == {ch \in left : Builds(cfg, ch, window)}
      called   == IF "wecom" \in sendable THEN {"wecom"} ELSE left
  IN /\ offered' = [ch \in Channels |->
                      IF ch \in called THEN offered[ch] \o window ELSE offered[ch]]
     /\ arrived' = FALSE
     /\ UNCHANGED received
     /\ \/ sendable = {} /\ FlushReturns(window, final)
        \/ /\ sendable # {}
           /\ pc' = IF "wecom" \in sendable THEN "wecom" ELSE "serverchan"
           /\ pending' = window
           /\ last' = final
           /\ UNCHANGED flushed

\* Mutant: the test for an empty window is gone.
OnTick_PushesEmpty ==
  /\ pc = "select"
  /\ tick
  /\ tick' = FALSE
  /\ flush_alerts(Used(cfg), pending, FALSE)
  /\ UNCHANGED <<setting, senders, accepted, chan, exited>>

\* select!, first branch.
OnTick ==
  /\ pc = "select"
  /\ tick
  /\ tick' = FALSE
  /\ IF pending # <<>>
       THEN flush_alerts(Used(cfg), pending, FALSE)
       ELSE UNCHANGED <<pending, pc, last, arrived, history>>
  /\ UNCHANGED <<setting, senders, accepted, chan, exited>>

\* select!, second branch: recv() yields an alert.
OnAlert ==
  /\ pc = "select"
  /\ chan # <<>>
  /\ pending' = Append(pending, Head(chan))
  /\ chan' = Tail(chan)
  /\ UNCHANGED <<setting, senders, accepted, tick, pc, last, arrived, history, exited>>

\* Mutant: the window left when the channel closes is forgotten.
OnClosed_NoDrain ==
  /\ pc = "select"
  /\ chan = <<>>
  /\ senders = {}
  /\ pc' = "returned"
  /\ UNCHANGED <<pending, last, arrived, history>>
  /\ UNCHANGED <<setting, senders, accepted, chan, tick, exited>>

\* select!, second branch: recv() yields None, the last window is drained.
OnClosed ==
  /\ pc = "select"
  /\ chan = <<>>
  /\ senders = {}
  /\ IF pending # <<>>
       THEN flush_alerts(Used(cfg), pending, TRUE)
       ELSE pc' = "returned" /\ UNCHANGED <<pending, last, arrived, history>>
  /\ UNCHANGED <<setting, senders, accepted, chan, tick, exited>>

\* The endpoint of the channel under way gets the request.
Arrive ==
  /\ pc \in Channels
  /\ ~exited
  /\ Connects(cfg)
  /\ ~arrived
  /\ arrived' = TRUE
  /\ received' = [received EXCEPT ![pc] = @ \o pending]
  /\ UNCHANGED <<setting, senders, accepted, chan, pending, tick, pc, last,
                 flushed, offered, exited>>

\* Mutant: the first request that fails ends flush_alerts.
Resolve_StopsAtFailure ==
  /\ pc \in Channels
  /\ arrived \/ ~Connects(cfg) \/ lossy
  /\ flush_alerts(IF pc = "wecom" /\ arrived THEN Used(cfg) \ {"wecom"} ELSE {},
                  pending, last)
  /\ UNCHANGED <<setting, senders, accepted, chan, tick, exited>>

\* Mutant: a request whose answer is lost is sent again.
Resolve_Retries ==
  /\ pc \in Channels
  /\ arrived \/ ~Connects(cfg) \/ lossy
  /\ \/ flush_alerts(IF pc = "wecom" THEN Used(cfg) \ {"wecom"} ELSE {},
                     pending, last)
     \/ /\ lossy
        /\ arrived' = FALSE
        /\ UNCHANGED <<pending, pc, last, history>>
  /\ UNCHANGED <<setting, senders, accepted, chan, tick, exited>>

\* client.request() resolves, to a response or to an error: both are logged,
\* neither is retried, and the status of a response is not looked at.
Resolve ==
  /\ pc \in Channels
  /\ arrived \/ ~Connects(cfg) \/ lossy
  /\ flush_alerts(IF pc = "wecom" THEN Used(cfg) \ {"wecom"} ELSE {}, pending, last)
  /\ UNCHANGED <<setting, senders, accepted, chan, tick, exited>>

-----------------------------------------------------------------------------
\* run_trace: the loop has ended, `drop(stream)`.
DropStream ==
  /\ "stream" \in senders
  /\ senders' = senders \ {"stream"}
  /\ UNCHANGED <<setting, accepted, chan, pending, tick, pc, last, arrived,
                 history, exited>>

\* `drop(agent)`: the runner, its analyzers and so the AlertSink.
DropAgent ==
  /\ senders = {"sink"}
  /\ senders' = {}
  /\ UNCHANGED <<setting, accepted, chan, pending, tick, pc, last, arrived,
                 history, exited>>

\* main returns (or calls process::exit): the runtime and its tasks are gone.
Exit ==
  /\ senders = {}
  /\ ~exited
  /\ exited' = TRUE
  /\ pc' = IF pc = "returned" THEN pc ELSE "aborted"
  /\ UNCHANGED <<setting, senders, accepted, chan, pending, tick, last, arrived,
                 history>>

Next ==
  \/ Push
  \/ TimerFires
  \/ OnTick
  \/ OnAlert
  \/ OnClosed
  \/ Arrive
  \/ Resolve
  \/ DropStream
  \/ DropAgent
  \/ Exit

Spec == Init /\ [][Next]_vars

\* The runtime polls a task that is ready, select! picks among ready branches
\* at random, and time passes.  Nothing makes the stream produce a hit or end.
CodeFairness ==
  /\ WF_vars(TimerFires)
  /\ WF_vars(OnTick)
  /\ WF_vars(OnAlert)
  /\ WF_vars(OnClosed)
  /\ WF_vars(~Connects(cfg) /\ Resolve)     \* the connector refuses at once

\* What the code assumes of the network: a request that can be sent arrives,
\* unless it is lost, and is answered or fails.
EndpointFairness == WF_vars(Arrive) /\ WF_vars(Resolve)

CodeSpec == Spec /\ CodeFairness

FairSpec == CodeSpec /\ EndpointFairness

-----------------------------------------------------------------------------
\* Type invariant.  A request is only ever under way for a channel that is
\* configured and for a window with something in it: no channel is sent an
\* empty push on an idle tick (the `is_empty` tests of run_flusher).
TypeOK ==
  /\ cfg \in AlertConfig
  /\ lossy \in BOOLEAN
  /\ senders \in {{"sink", "stream"}, {"sink"}, {}}
  /\ accepted \in 0..MaxAlerts
  /\ chan \in Seq(1..accepted)
  /\ pending \in Seq(1..accepted)
  /\ tick \in BOOLEAN
  /\ pc \in Channels \cup {"select", "returned", "aborted"}
  /\ last \in BOOLEAN
  /\ arrived \in BOOLEAN
  /\ flushed \in Seq(1..accepted)
  /\ offered \in [Channels -> Seq(1..accepted)]
  /\ received \in [Channels -> Seq(1..accepted)]
  /\ exited \in BOOLEAN
  /\ pc \in Channels => pc \in Used(cfg) /\ pending # <<>>

\* Between the stream and the channels no alert is lost, doubled or reordered:
\* what has been flushed, the window and the mpsc channel are, in this order,
\* all the alerts accepted, whatever the timer and the endpoints did.
Conserve == flushed \o pending \o chan = [i \in 1..accepted |-> i]

\* One channel failing never costs the other one its push: once flush_alerts
\* has returned, every configured channel has been tried with exactly the
\* alerts flushed (and none under --alert-dry-run).
EveryChannelTried ==
  pc \in {"select", "returned"} =>
    \A ch \in Channels :
      offered[ch] = IF ch \in Used(cfg) THEN flushed ELSE <<>>

\* The flusher implements the outbox: each channel receives each push whole or
\* not at all, in order, and never twice, even when answers are lost.
Outbox == INSTANCE AlertOutbox
  WITH taken <- accepted, retired <- Len(flushed), inbox <- received

OutboxSpec == Outbox!Spec

\* As long as the process lives an alert is flushed in the end, by a tick or by
\* the drain when the channel closes (run_flusher).
EveryAlertFlushed ==
  \A i \in 1..MaxAlerts :
    accepted >= i ~> Len(flushed) >= i \/ exited

\* With a plain-http endpoint that answers and no request lost, WeCom gets every alert unless the
\* process exits first; whatever ServerChan does.
WecomReceives ==
  \A i \in 1..MaxAlerts :
    accepted >= i /\ "wecom" \in Used(cfg) /\ cfg.base = "http" /\ ~lossy
      ~> exited \/ \E k \in 1..Len(received["wecom"]) : received["wecom"][k] = i

-----------------------------------------------------------------------------
\* alert_sink.rs:214-215: the flusher will "drain the last window when the
\* channel closes".  Nobody awaits its handle, so the process may be gone first.
ExitDrains == exited => Len(flushed) = accepted

\* README.md:25 promises WeCom and ServerChan alerts within seconds.  When no
\* request is lost on the network and none is too long, what flush_alerts has
\* pushed should have arrived.
PushArrives ==
  pc \in {"select", "returned"} =>
    \A ch \in Used(cfg) : cfg.base # "malformed" /\ Len(flushed) <= UriCapacity =>
      lossy \/ received[ch] = flushed
=============================================================================
