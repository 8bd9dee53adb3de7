# MemGuard in TLA+

Specifications, model-checking runs and machine-checked proofs for MemGuard
(`overlay/`), a layer on top of AgentSight that watches the memory stores of LLM
agents: kprobes capture what is written to them, an analyzer looks for poisoning
signatures, a sink notifies WeCom and ServerChan.

Paths below are relative to the repository. AgentSight itself is not part of the
repository: what the code needs of it is named as an assumption.

## 1. The system

```
 writer ──vfs_write──▶ kprobe ──ring buffer──▶ loader ──JSONL pipe──▶ BinaryExecutor
                                                                        │ stream
        AlertSink ◀── PoisonAnalyzer ◀── TimestampNormalizer ◀──────────┘
            │ channel                         (AgentSight)
         flusher task ──HTTP──▶ WeCom, ServerChan
                                   AgentRunner merges the runners' streams (AgentSight)
 signal handler task ──Notify──▶ run_trace's loop ◀─────────────────────┘
```

| component | source | state | operations | interacts by |
|---|---|---|---|---|
| memwrite kprobes | `bpf/memwrite.bpf.c` | ring buffer, watch prefixes | `memwrite_vfs_write`, `memwrite_vfs_writev` | run at the entry of the write, before the data lands; records to the loader |
| loader | `bpf/memwrite.c` | `stop`, `err`, position in the ring | setup, poll loop, `handle_event`, `sig_handler`, exit status | lines into a pipe, `/proc/<pid>/cwd` |
| executor | `agentsight-capture/src/runners/common.rs` | child process, guard, position in the stream | spawn, startup check, read, terminate, wait, drop | pipe from the probe, signals to it, a lazy stream to the session |
| analyzer | `ext/analysis/src/analyzers/poison.rs` | rules | `scan_windows`, `scan_file_range`, `process` | transforms the stream, reads the store |
| alert sink | `ext/analysis/src/analyzers/alert_sink.rs` | channel, pending window | push, tick, recv, `flush_alerts` | channel from the stream to a task nobody awaits, HTTP |
| session loops | `collector/src/cmd_trace.rs` | position of the loop, the `Notified` future | `drive_stream_until_shutdown`, `drain_stream_for`, `run_trace_silent_until_cancel`, `run_report_serve` | merged stream, oneshot, deadline, `Notify` |
| signal handler | `collector/src/main.rs` | `SHUTDOWN_REQUESTED`, the `Notify` | `setup_signal_handler`, `notify_shutdown` | wakes the loops |
| start of a session | `collector/src/main.rs`, `cmd_trace.rs` | options, `TraceConfig`, the runners built and started, the server | dispatch, container and binary lookup, seeds, `build_trace_agent_with_view`, server start, `agent.run()` | arguments of the probes, analyzers of each runner, exit status |
| TUI diagnostics | `collector/src/main.rs` | a queue of eight lines | push, read | mutex, between the logger and the TUI |
| deployment | `deploy/systemd` | state of the unit | start script, restart on failure, stop, kill | environment file, signals, exit status |
| inputs | `memwrite.c`, `memwrite.bpf.c`, `poison.rs`, `cmd_trace.rs` | none | splitting of `--prefix`, `match_prefix`, rules files, windows, ranges | |

What is hard in it, and what must hold:

* **Time passes between the write and the verdict.** The event is made before the
  data is in the file, the path is found later, the file is read later still, and
  other processes write meanwhile. The verdict must not accuse a process of what it
  did not write, and must be exact when nothing interfered.
* **The flusher** is one task that receives, waits for a timer and awaits HTTP
  requests. Alerts must not be lost, doubled or reordered on the way, and the two
  channels must not depend on each other.
* **The ends.** Probes die, are terminated, are dropped; sessions end by signals,
  errors, deadlines and the end of the streams. An error must not be lost, a probe
  must not outlive its stream, a stray pid must not be signalled, a busy stream must
  not starve the other branches.
* **The start.** A dozen steps may fail, the later ones with a server and probes already
  running. What was asked for must be wired up in the right order, a mistake is to be found
  before anything runs, a stop must win, and systemd must bring the detection back.
* **The edges of the inputs.** Lengths of 4 GiB, positions beyond the file, lists with empty
  fields, blank rules.
* **Bounds.** The ring and the pipe are finite and the loader stands between them.

`PROJECT.json` lists every hazard with its line and the properties about it.

## 2. The modules

### AlertOutbox, AlertSink, AlertOutboxProofs, AlertSinkProofs

`AlertSink` models the sink with all its interleavings. Each action is the code
between two suspension points: `Push` is the closure in `AlertSink::process` down to
`StreamSink::push`; `OnTick`, `OnAlert` and `OnClosed` are the branches of the
`select!` in `run_flusher`; `flush_alerts` is an operator that goes from the channels
left to the next `client.request().await` or to its end, and `Resolve` continues
there when the request resolves. `DropStream`, `DropAgent` and `Exit` are the end of
`run_trace` and of `main`. Alerts are numbers in order of acceptance. Of the
configuration the model keeps which channels have a key, `dry_run` and what
`--alert-base` makes of the URL (absent, http, https, no URL at all); of the payload
whether the URI of the ServerChan GET is too long (`UriCapacity`).

`AlertOutbox` says what such a notifier promises and nothing about how: a push is a
run of consecutive alerts, each channel gets it whole or not at all, and no push comes
twice. `AlertSink` implements it with `taken <- accepted, retired <- Len(flushed),
inbox <- received` (property `OutboxSpec`).

### Detection, MCDetection, DetectionProofs

`Detection` follows a write from the entry of `vfs_write` to the verdict. Buffers and
the store are sequences of cells; a cell holds one signature or none, so the windows
of 128 bytes become windows of `Half` cells and "contains the signature" becomes
membership. `Enter` is the kprobe (which events it may produce is the operator
`Capture`: a failing copy of user memory empties a window), `Land` the write itself,
external, later and possibly short; `handle_event` the loader, which resolves the path
by where the process is *then* (`resolve_path`), `process` the analyzer, which passes
every event on. Reading the file is one step: the code reads the whole file by
`tokio::fs::read`, a torn read is not modelled. At a wrong path the code reads whatever file
is there and the model none; the properties about that verdict ask for the right path.

### Session, SessionProofs

The three loops over the stream and the one of `report serve`, told apart by `mode`;
one model, because they share the `Notify` and differ in one branch each. `Turn` is
the start of a turn of `select!`, where the `Notified` future is made; `Take`,
`StreamEnds`, `SeeShutdown`, `SeeCancel` and `SeeDeadline` are its branches; `body`
is the time in which the loop runs code outside `select!` and has no future.
`HandleSignal` and `NotifyWaiters` are the two statements at the end of
`notify_shutdown`; in between the loop may do anything. Not modelled: the printing.

### Executor, ExecutorProofs

`get_json_stream` from `spawn` to the end of the stream. The program counter names the
suspension points (`delay`, `unpolled`, `reading`, `waiting`, `failing`), at all of
which but the first the stream may be dropped (a startup check that fails,
`StartupCheckFails`, drops the child before there is one); the synchronous stretch between the
end of file and `wait()` is cut into `Terminate` and `Kill`, because the probe goes on
meanwhile. A process is `running`, `exiting` (status settled, descriptors closed),
`zombie`, `reaped`. As root the child may be signalled; otherwise it is a `sudo` that
may not, and `sudo -n kill` works while the credentials hold (`Expire`). A line is
characterised by whether it is JSON and which fields it has: `parse_json_event` makes a
diagnostic of one without the needed fields, and the `runner_error` goes through the
same function. The task that logs stderr is left out: it only reads.

### EventFeed, Loader, LoaderProofs

`main` of the loader with the ring and the pipe. `Reserve`, `Fill` and `Submit` are
the three stages of a kprobe on a CPU; `PollReady`, `handle_event` and `PollDone`
follow libbpf's `ring_buffer__poll`, which hands over records up to the first that is
not submitted and does not look at `stop`. `sig_handler` may come at any step; inside
the poll it may or may not interrupt `epoll_wait` (it may come just before). `Status`
is the truncation of `return err` to eight bits; `failure` remembers the step that failed,
which the code does not, so that `StatusTells` can relate it to the exit status. `MaxEvents`
bounds the writes of the loader's whole life, so that a poll always comes to the end of the ring.
libbpf goes on as long as there are new records: under writes that come faster than lines are
printed it would never return and `stop` never be seen, which the model does not have.

`EventFeed` says what ring, loader and pipe promise together: what is accepted is delivered
whole, in order and once, an event is missed only when as many wait as there is room for, and
with the end of the feed everything stops but the reading of what is left in the pipe. `Loader`
implements it with `accepted <- reserved, delivered <- printed, unread <- lines, over <- pc =
"exited"` (property `FeedSpec`): a reservation is an `Accept` or a `Miss`, `handle_event` is
`Deliver`, the three ways to exit are `End`, and the stages of a kprobe and of the poll are hidden.

### Record, MCRecord, RecordProofs

One process from its command line to its exit, and the unit that starts it again. Each
action is a step of the start (`Dispatch`, `ResolveContainer`, ..., `StartServer`,
`StartRunner`) with the ways in which that step fails; every failure is `Leave`, the `?` of
`run_trace` with the drop of its locals. The `TraceConfig` keeps the monitors and which
filters, path, rules and channels there are; a runner is its kind, the names of its
arguments and its analyzers. Three callers: a shell with any options, systemd with those of
`run-memguard.sh`, AgentSight's other commands with the configurations in `OtherConfigs`, which
`MCRecord` gives. `wrong` is what is wrong with the configuration on this host, of six things that
may be (`Mistakes`): a step whose mistake is in `wrong` fails, and fails again after a restart.
Every other failure is an accident, which may come as often as it likes until `Calm` happens,
if it ever does. What is a module of
its own elsewhere is one step here: the loop (`SeeFailure`, `StreamEnds`, `Shutdown`), a
probe (`ProbeEnds`), the drop of a stream (`Dropped`, which is `Executor`'s `Drop`: killed as
root, and by the guard alone under sudo). `StopUnit`, `KillUnit`, `UnitEnds` and `Restart`
are the unit. `record -- <command>` leaves the model at `run_exec`, which is AgentSight's.

### Windows, Watch, Rules, Diagnostics, MCInputs, InputsProofs

Operators, each a translation of a stretch of code, next to a reference that says what it
is for. `Windows`: lengths and positions with the width of their words (`U32`, `U64`), a
window being a set of byte numbers. `Watch`: `--memwrite-prefix` through `snprintf`,
`strtok_r` and the rodata, `match_prefix`, and the analyzer's `split(',')` of the same text; a
text is a sequence of characters, and a field is the position of the border that it begins
behind. `Rules`: the lines of a rules file, cleaned twice, and the match; a file is the set of its
lines, since their order and repetition matter to the severity alone. `Diagnostics`: the queue of
the TUI, the only one with state; a step logs one line, because the mutex is taken per line.
`MCInputs` chooses an input at the start and lets the log go on, so that one run has all of them.

## 3. The runs

| run | bounds | shows |
|---|---|---|
| `sink` | 3 alerts, 1 fits a URI, requests may be lost or not | types, `Conserve`, `EveryChannelTried`, the refinement `OutboxSpec`, `EveryAlertFlushed`, `WecomReceives` |
| `sink_exit` (violation) | 2 alerts | the last window may be lost at exit |
| `sink_https` (violation) | 2 alerts | no push arrives over https |
| `detection_safety` | 2 writers, 8 kinds of calls, windows of 2, scans of 5 cells, ring of 1 | `PassedInOrder`, `WindowHitIsOwn`, `ExactWhenQuiet` |
| `detection_coverage` (violation) | 1 writer, no faults | the compensation may read too early |
| `session_loops` | 2 runners, 2 signals | the four ways a session ends |
| `session_signal` (violation) | 2 runners, 1 signal | a signal may be lost |
| `executor_probe` | 2 lines, pipe of 1, failures | `StreamIsFaithful`, `StatusIsOwn`, `NoStraySignal`, `EofEndsStream`, `ProbeStops` |
| `loader_ring` | 2 CPUs, 3 writes, ring of 2, pipe of 1, failures | `PrintedInOrder`, `PrintedWhole`, `StatusTells`, the refinement `FeedSpec`, `EventPrinted`, `SignalEnds` |
| `record` | all options, 2 channels, 6 sets of mistakes, every step failing, any number of starts | `AlertsWired`, `TrafficSeen`, `ConfigErrorIsEarly`, `StopWins`, `DetectionReturns` |
| `inputs` | words of 3 and 5 bits, texts of up to 7 characters, files of 2 lines, 6 log lines | `EndsSeen`, `RangeRead`, `StoresWatched`, `RulesUsed`, `RecentIsHistory` |
| `prefix_eight` (violation) | buffer of 6, 2 prefixes | a legal list of prefixes may not fit |

Why the bounds suffice. Three alerts give a window that is full, one that is being
pushed and one in the channel at the same time; with `UriCapacity = 1` there are
windows that fit and windows that do not. Two writers and a store of a few cells give
every overlap of ranges, and the eight calls are one for each way in which windows,
segments, positions and `MAX_SCAN` can miss a signature. Two runners are needed for one
to fail while the other is busy. A pipe and a ring shorter than the number of lines and
events let both fill up. `record` has no bound on its starts. A channel and the dry run are the
two that differ, and ServerChan goes the way of WeCom; each mistake is there alone, but for two
that stand together. In `inputs` every constant is small enough for the inputs
to go past it (lengths beyond both words, arguments beyond the buffer, more names than
prefixes, more lines than the queue holds). Larger values of the bounds give longer runs of the same steps.

`CHECK_DEADLOCK FALSE` everywhere: all of these systems end (the process exits, the loop
returns, the probe is reaped, the writers have made their calls).

Each property has a mutant, an operator next to the definition it replaces, that is a
plausible bug and breaks the property under the same run.

### Fairness

* `AlertSink`: weak fairness of the timer, of each `select!` branch (tokio polls a woken
  task, and `select!` picks at random among the ready branches) and of a request the
  connector refuses. That endpoints answer is `EndpointFairness`, a separate assumption,
  because the code has no timeout. Under `CodeSpec`, which leaves it out, `EveryAlertFlushed`
  is false: an endpoint that accepts the connection and does not answer stops every later
  flush, while the unbounded channel grows.
* `Session`: weak fairness of the handler, of `Turn` and of the end of the stream; strong
  fairness of the branches, because `select!` is fair by chance and a branch that is ready
  again and again is taken; strong fairness of each runner's items, an assumption on
  AgentRunner's merge. No runner has to offer anything, no signal has to come.
* `Executor`: the holder polls the stream unless it drops it; the kernel finishes an exit;
  a probe obeys SIGTERM. Whether sudo's credentials last is up to the environment, and
  `ProbeStops` names them.
* `Record`: the process goes on with its start and looks at what the stream offers; systemd
  restarts (`Restart=on-failure`, without end: with `RestartSec=5` the default limit of five
  starts in ten seconds is never met), ends the unit, and kills what is left of it after a stop
  (`TimeoutStopSec=30`). No probe has to end, no signal has to be seen, nobody has to stop the
  unit, and accidents need not cease: `DetectionReturns` speaks of what follows if they do.
* `Loader`: the loader runs, a kprobe that began ends, the collector reads as long as it
  holds the pipe.

## 4. What the runs found

* The flusher is not awaited at exit: the last window may be lost (`sink_exit`).
* The HTTP client cannot open https, and the default URLs are https (`sink_https`).
* The compensation reads the file once, possibly before the write has landed
  (`detection_coverage`).
* A signal outside `select!` is lost for good (`session_signal`). Also inside: when an
  item is ready at the same time, `select!` may take the item and drop the woken future.
  This is why `SignalStopsWaitingLoop` asks for silent runners.
* Up to eight prefixes are promised, but the list goes through a buffer as long as one of
  them (`prefix_eight`): of a longer list the last prefix is cut short, and then watches more
  files than were asked for, or is missing.

Met while modelling, and in the models without a run of their own:

* Comments behind a rule are promised (examples/poison-rules.txt:2, "行内注释") and not there:
  cmd_trace.rs:261-262 and poison.rs:73-74 drop the lines that begin with `#` and keep the others
  whole, so that `rule # note` only matches a payload with the note in it. `RulesUsed` states it
  as the code has it.
* From 4 GiB on the tail window is not "the last PAYLOAD_HALF bytes" (memwrite.bpf.c:124): the
  length is cut to 32 bits. `EndsSeen` states for which lengths it is.
* Two mistakes in a configuration are found late. A wrong `--memwrite-path` only fails when the
  memwrite runner has its turn in `agent.run()` (cmd_trace.rs:443), with the server and other
  probes up, and without root it is sudo that fails; under systemd this is a restart every five
  seconds. A wrong `--alert-base` only fails with the first push, and is only logged.
  `ConfigErrorIsEarly` names both.
* For a pid the path of a binary with OpenSSL inside is never looked for (cmd_trace.rs:412-416):
  without `--binary-path` its traffic is not seen. `TrafficSeen` names this case.
* A failing sslsniff or process runner ends the session, and the detection with it
  (`Session`'s `Take`), although docs/design.md:131-132 has it that a missing OpenSSL is only a
  warning to the memwrite chain; under systemd the restart repairs it (`DetectionReturns`).
* A loader stopped by a signal exits with 252 (`-EINTR`), or with the number of records of its
  last poll (`Loader`'s `Cleanup`); under systemd, which signals the whole control group, this
  can end `record` with an error instead of by its shutdown branch.
* A probe that ends with 0, as the loader does when the ring buffer cannot be made, ends the
  detection without a word: `StatusTells` and `Detecting` both have to except it.
* Without root, a start that fails after a probe has been started leaves that probe running
  (`Record`'s `Dropped`): the guard that would stop it exists from the first poll on only.
* `record -- <command>` takes the memwrite and alert options and ignores them.
* `report --db X summary` reads the latest database, not X: of all the subcommands summary alone
  does not look at the outer option (main.rs:509-514).
* The severity of a finding counts matched rules, so that a rule that stands in the file three
  times makes a finding critical; poison.rs:48-49 speaks of distinct signatures.
* Rules are read when the agent is built: a change of the file needs a restart.

## 5. The proofs

Every invariant and every refinement that a run checks is a theorem as well, and so is the
action property `NoStraySignal`: the run shows it on a small instance, the proof for every value of
the constants. Each module is proved from the assumption on its own constants alone.

| module | about | for every |
|---|---|---|
| `AlertOutboxProofs`, `AlertSinkProofs` | `AlertOutbox`, `AlertSink` | number of alerts, length of a URI, network that loses requests or not; any set of channels |
| `DetectionProofs` | `Detection` | writers, calls, rules, sizes of windows, scan and ring |
| `SessionProofs` | `Session` | runners and number of signals |
| `ExecutorProofs` | `Executor` | number of lines, capacity of the pipe, name of the timestamp, failing or not |
| `LoaderProofs` | `Loader`, `EventFeed` | CPUs, number of events, capacity of ring and pipe, failing or not |
| `RecordProofs` | `Record` | channels, sets of mistakes, configurations of other commands; any number of starts |
| `InputsProofs` | `MCInputs` and the modules it extends | sizes of windows, words, buffers and queue; most lemmas also for any set of characters |

The assumptions give the constants their types (numbers, positive sizes, calls made of signatures
and plain cells, one of the two names that a probe's timestamp may have, channels and mistakes
among those there are), and two things more, both
true of the code's values: twice `PAYLOAD_HALF` fits into 32 bits, which are not more than 64
(`WindowsAssumption`); and the buffer for the list of prefixes is not longer than a name may be, both
being 64 (`WatchAssumption`).

### The sink

* `TypeCorrect`: `TypeOK` is inductive as it stands, since it says that a request under way has a
  channel in `Used(cfg)` and a window that is not empty.
* `AlertsConserved` (`Conserve`): inductive together with `TypeOK`; `FlushConserves` says that a
  flush moves the window or leaves it where it is, and the other steps move one alert along
  `flushed \o pending \o chan`.
* `ChannelsTried` (`EveryChannelTried`): the property speaks of the states in which no flush is
  under way, so it is not inductive; `Tried` says in addition what has been offered to whom while
  the request to WeCom, or to ServerChan, is awaited.
* `OutboxInvariant` and `SinkImplementsOutbox` (`OutboxSpec`): a step that delivers must deliver the
  next alerts and must be the first to do so, which follows from `Backlog`: what a channel has
  received are alerts of the pushes that are over, except when the request under way has arrived,
  and then those of the window too. `WindowIsNext` gets from `Conserve` that the window is the run
  of alerts after the flushed ones.
* `InOrderOnceHolds` (`AlertOutboxProofs`): in the outbox no channel sees an alert twice or
  two in the wrong order; `SinkInOrderOnce` is the same of the sink's endpoints, by the
  refinement.

### The detection

* `WindowHitsAreOwn` (`WindowHitIsOwn`): the inductive invariant `OnlyOwn` follows an event on its
  way: what is in the ring, in the pipe and among the verdicts carries only signatures of the buffer
  of its own writer. `CapturesOwn` has it of a new event (a copy of a part of the buffer, or
  nothing), `VerdictOwn` of a new verdict.
* `AllPassedInOrder` (`PassedInOrder`): each step moves one writer over the border of two
  neighbouring parts of `captured` (`Moves`) or adds one at the end; `OnlyOwn` gives the types.
* `ExactHolds` (`ExactWhenQuiet`): a verdict is made once, but what it is judged by, who landed and
  who was disturbed, goes on. `Settled` says of each verdict what `ExactWhenQuiet` does, in a form
  that later landings keep (`SettledKept`). For a new verdict `VerdictExact` needs to know what the
  analyzer finds in the file: `NewestThere`, that the data of the last writer to land is where it
  landed; `SameWindow` carries this from the file to the window. The hypotheses are those of the
  property: one buffer, landed whole, where the kprobe saw it, within `MAX_SCAN`, nobody after it.
* `TypeCorrect`: from `OnlyOwn` and `Stored`.

### The session

* `TypeCorrect`: inductive as it stands.
* `ErrorsReported` (`ErrorReported`): the property speaks of a session that is over, so `ErrorKept`
  says what is true before: after a failure the runner_error of some failed runner still waits in
  the stream, or the loop has returned it. Taking the items of other runners, and items that are no
  errors, does not touch it.

### The executor

* `NoStraySignalHolds` (`NoStraySignal`): `GuardHeld` says of each program counter whether the guard
  has not been made, is armed or has been taken, and that a probe is reaped only after that; it is
  inductive with the types (`TypeCorrect`).
* `StatusIsOwnHolds` (`StatusIsOwn`): the executor sends SIGTERM and SIGKILL *before* it waits for
  the status. `EndIsOwn` says why this changes nothing: output that ended before the probe closed it
  itself ended with the probe, and then only the probe can have ended it.
* `StreamIsFaithfulHolds` (`StreamIsFaithful`): `Delivered` says for each stage what has been yielded
  and what is still in the pipe. Since `Items`, which makes events of lines, is defined by recursion,
  this rests on what it does with a line more at the end (`ItemsAppend`) and a line less at the head
  (`ItemsHead`). Those are proved by `Induction`, which gets induction over numbers from the library's
  well-founded order (a set that leaves numbers out has a least one), and `Recursion`, that the
  function exists at all.

### The loader

* `TypeCorrect`: inductive with `Counted` (consumed and waiting records are among the reserved).
* `PrintedOrderHolds` (`PrintedInOrder`): `Ordered` is the property itself, with the types; printed
  and ring are cut at another place by each `handle_event`.
* `PrintedWholeHolds` (`PrintedWhole`): needs that what is submitted is filled in.
* `StatusHolds` (`StatusTells`): `FailureKept` says that a failure leads to the cleanup at once, and
  what is known there of `err`, stop and failure: that of the poll or of a step of the setup is in
  `err`, that of `ring_buffer__new` is not.
* `LoaderImplementsFeed` (`FeedSpec`): each action is `Accept`, `Miss`, `Deliver`, `Read`, `End` or
  changes nothing of the feed (`Hidden`). That the delivered event is the next one is
  `PrintedInOrder`, that it is whole `PrintedWhole`, and that nothing is accepted or missed after the
  end is `AttachedRuns`: the kprobes are there only while main is between their attachment and exit.

### The start of a session

One inductive invariant, `IInv`: `Configured` (the configuration is still the one that the options
make, but for the path of the binary), `AgentBuilt` (the runners so far are those configured, in
their order, each made from the configuration as it still is), `RunnersUp` (the first `up` of them
have been started), `Booted` (before `starting` there is no server and no probe, and nobody has seen
anything), `StageSound` (each stage leaves behind what it would have found wrong), `ShownSound` and
`PathAsked` (the same of what others can see, and of the path of the probe) and the types. From it:

* `ConfigErrorIsEarlyHolds`: the first part is `ShownSound`, which needs `StageSound` at the step
  that starts the server and at the first probe, seven stages after the first check. The second part:
  who drives has passed all stages and started all runners, hence the memwrite probe if its path can
  be wrong (`PathAsked`), and as root that start has tried the path.
* `AlertsWiredHolds`, `TrafficSeenHolds`: from `Configured`, `AgentBuilt` and `RunnersUp`. What has
  been asked for is in the options, several steps and a `TraceConfig` away from the runner that has
  to have it. `AlertsWired` then follows the event through the analyzers in their order (`Through`),
  since an alert takes the time that the event has when it comes to the sink.

### The inputs

* `WindowsHold`, `RereadHolds`, and with them `EndsSeenHolds`, `RangeReadHolds`: for every length and
  position. A window ends within the write, and holds its end exactly if the length fits the word:
  of a longer one the last byte is in neither window. `WordBounds` says what is left of a number in a word of any width; the rest is linear
  arithmetic.
* `StoresHold`, `StoresWatchedHolds`: the names that `strtok_r` finds are exactly the names there
  are (`TokenIsName`, `NameIsToken`, and `NextBorderIs` for where a field ends); a list that fits the
  buffer is not cut, nor is a name of it (`WatchedOfFitting`); and a path that ends in a watched name
  contains one of the fields, empty ones included, that the analyzer looks for (`PrefixWithin`).
* `RulesHold`, `RulesUsedHolds`: to trim twice is to trim once (`TrimAgain`), so that the second
  cleaning changes nothing; no rule is blank (`RulesAre`), and a rule is found in every text that
  holds it (`RuleFound`) and in none that is shorter (`ShorterIsClean`), such as the rule without
  the note behind it.
* `RecentHolds` (`RecentIsHistory`): the property asks for the end of the queue only. `HistoryKept`
  is about all of it: each line of the queue stands in the log at a place that repeats nothing, with
  as many such places after it as there are lines after it in the queue. `FreshGrows` and `AfterGrows`
  say what one line more does to the places.

### What stays with TLC

The twelve temporal properties under fairness (`EveryAlertFlushed`, `WecomReceives`, the four ways a
session ends, `EofEndsStream`, `ProbeStops`, `EventPrinted`, `SignalEnds`, `StopWins`, `DetectionReturns`):
liveness and ENABLED are out of the prover's reach. So is everything that the violation runs show,
which is shown by a trace.

The models are written so that they can be reasoned about. The prover cannot expand an operator
that takes an operator, such as a fold; lists are therefore described by the places of their
elements, not by a loop over them.

## 6. Not modelled, and the plan

Not modelled because it is I/O or another project's: the web server itself, the commands other
than `record`, AgentSight's runners and analyzers, the installer's copying, CI. Of `report` this
repository has the choice of a database by nested options (main.rs:502-601), without state; the
one thing to say about it is in section 4.

Next, in this order:

1. A refinement of `Executor` by a stream that yields what was printed and then its status, and of
   `Session` by a session that ends once and with the first error, so that the chain from the kprobe
   to the analyzer is one of specifications.
2. The step from `EventFeed` to `Detection`'s ring and pipe, which are written out there.
3. Lemmas that the liveness arguments rest on (that a stage is left only for the next one), as
   action properties.
