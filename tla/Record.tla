------------------------------- MODULE Record -------------------------------
(***************************************************************************)
(* One AgentSight process from its command line to its exit, and the unit  *)
(* that starts it again: run_with_extractor (collector/src/main.rs), then  *)
(* run_trace and build_trace_agent_with_view (collector/src/cmd_trace.rs), *)
(* and deploy/systemd.                                                     *)
(*                                                                         *)
(* The process turns its options into a TraceConfig, the configuration     *)
(* into a list of runners with arguments and analyzers, starts the server  *)
(* and then runner after runner, and drives the merged stream.  Every step *)
(* may fail and then what was started before is dropped.  A runner that is *)
(* a program of its own is called a probe.                                 *)
(*                                                                         *)
(* The loop that drives the stream is in Session, a single probe in        *)
(* Executor, the alert sink in AlertSink; here they are one step each.     *)
(***************************************************************************)
EXTENDS Integers, Sequences

CONSTANTS
  Channels,      \* the ways `record` may be told to alert somebody
  Wrongs,        \* the sets of mistakes a configuration may have
  OtherConfigs   \* the configurations of AgentSight's other commands

VARIABLES
  caller,   \* who wants the trace: a shell, systemd, another AgentSight command
  opts,     \* the options of `record`
  root,     \* whether the process is root; it runs its probes by sudo if not
  embeds,   \* whether the program to attach to has OpenSSL linked into it
  wrong,    \* the mistakes in the configuration; a restart does not mend them
  unit,     \* the state of memguard.service; "none" without it
  calm,     \* environment: from now on nothing fails that is configured well
  pc,       \* where the process is
  cfg,      \* the TraceConfig
  agent,    \* the AgentRunner: its runners in order
  up,       \* how many of them have been started
  server,   \* whether the web server runs
  probe,    \* the state of each probe
  cause,    \* why the process has ended
  exposed   \* history: whether this process has had a server or a probe running

world == <<caller, opts, root, embeds, wrong>>
vars == <<world, unit, calm, pc, cfg, agent, up, server, probe, cause, exposed>>

Monitors == {"ssl", "stdio", "process", "memwrite", "system"}
Probes == Monitors \ {"system"}

MemOptions ==
  [asked : BOOLEAN, path : BOOLEAN, rules : BOOLEAN,
   channels : SUBSET Channels]

\* The options of `record` that matter here.  -c takes a name or a list of
\* them; clap rejects -c with -p.
CommandLine ==
  [target : {"none", "pid", "comm", "comms"}, command : BOOLEAN,
   binary : {"none", "host", "container"}, server : BOOLEAN, mem : MemOptions]

TraceConfig ==
  [monitors : SUBSET Monitors, pid : BOOLEAN, session : BOOLEAN,
   comm : {"none", "one", "list"}, binary : {"none", "host", "container"},
   server : BOOLEAN, mem : MemOptions]

\* What may be wrong with a configuration whose options are complete: no such
\* container, rules that cannot be read, no database there, an address that is
\* taken, no probe at the path, an alert base nobody answers at.
Mistakes == {"container", "rules", "db", "listen", "probe_path", "base"}

ASSUME RecordAssumption ==
  /\ Channels \subseteq {"wecom", "serverchan", "dry_run"}
  /\ Wrongs \subseteq SUBSET Mistakes
  /\ OtherConfigs \subseteq TraceConfig

\* Those that a configuration can have.
Possible(c) ==
  {m \in Mistakes :
     CASE m = "container" -> c.binary = "container"
       [] m = "rules" -> "memwrite" \in c.monitors /\ c.mem.rules
       [] m = "db" -> TRUE
       [] m = "listen" -> c.server
       [] m = "probe_path" -> "memwrite" \in c.monitors
       [] m = "base" -> "memwrite" \in c.monitors /\ c.mem.channels # {}}

\* What run-memguard.sh makes of its environment file.
ScriptArgs ==
  [target : {"comm", "comms"}, command : {FALSE}, binary : {"none"}, server : {FALSE},
   mem : {m \in MemOptions : m.asked /\ m.path /\ ~m.rules}]

\* A command that is not `record` has none of its options.
NoOptions ==
  [target |-> "none", command |-> FALSE, binary |-> "none", server |-> FALSE,
   mem |-> [asked |-> FALSE, path |-> FALSE, rules |-> FALSE, channels |-> {}]]

\* The monitors of every `record`.
for_record == {"ssl", "process", "system"}

\* TraceConfig { .. ..TraceConfig::for_record() }
FromRecord(o) ==
  [monitors |-> for_record
                  \cup (IF o.target = "pid" THEN {"stdio"} ELSE {})
                  \cup (IF o.mem.asked THEN {"memwrite"} ELSE {}),
   pid |-> o.target = "pid", session |-> FALSE,
   comm |-> CASE o.target = "comm" -> "one" [] o.target = "comms" -> "list" [] OTHER -> "none",
   binary |-> o.binary, server |-> o.server, mem |-> o.mem]

Flag(name, given) == IF given THEN {name} ELSE {}

\* Mutant: the filter on the name is passed on whatever else is known.
build_ssl_args_AlwaysComm(c) ==
  Flag("-p", c.pid /\ ~c.session) \cup Flag("--session", c.session)
    \cup Flag("-c", c.comm # "none") \cup Flag("--binary-path", c.binary # "none")

build_ssl_args(c) ==
  Flag("-p", c.pid /\ ~c.session) \cup Flag("--session", c.session)
    \cup Flag("-c", c.comm # "none" /\ c.binary = "none")
    \cup Flag("--binary-path", c.binary # "none")

\* The process runner's arguments; the system runner is given the same filters.
build_process_args(c) ==
  Flag("-p", c.pid) \cup Flag("--session", c.session) \cup Flag("-c", c.comm # "none")

build_stdio_args(c) == {"-p"} \cup Flag("--session", c.session)

\* Mutant: the sink is put before the analyzer whose findings it reports.
MemwriteChain_SinkFirst(c) ==
  <<"TimestampNormalizer">>
    \o (IF c.mem.channels # {} THEN <<"AlertSink">> ELSE <<>>) \o <<"PoisonAnalyzer">>

\* The analyzers of the memwrite runner; AlertConfig::enabled() adds the sink.
MemwriteChain(c) ==
  <<"TimestampNormalizer", "PoisonAnalyzer">>
    \o (IF c.mem.channels # {} THEN <<"AlertSink">> ELSE <<>>)

-----------------------------------------------------------------------------
life == <<unit, calm>>
boot == <<up, server, probe, exposed>>

NoProbe == [k \in Probes |-> "none"]
Running == {k \in Probes : probe[k] = "running"}

Init ==
  /\ root \in BOOLEAN /\ embeds \in BOOLEAN
  /\ calm = FALSE
  /\ \/ caller = "shell" /\ unit = "none" /\ opts \in CommandLine /\ pc = "cli" /\ cfg = <<>>
     \/ /\ caller = "systemd" /\ root /\ unit = "active"
        /\ opts \in ScriptArgs
        /\ pc = "cli" /\ cfg = <<>>
     \/ /\ caller = "agentsight" /\ unit = "none"
        /\ opts = NoOptions
        /\ pc = "resolve" /\ cfg \in OtherConfigs
  /\ wrong \in Wrongs
  /\ wrong \subseteq Possible(IF caller = "agentsight" THEN cfg ELSE FromRecord(opts))
  /\ agent = <<>> /\ up = 0
  /\ server = FALSE
  /\ probe = NoProbe
  /\ cause = "none"
  /\ exposed = FALSE

-----------------------------------------------------------------------------
\* What dropping the streams makes of the probes.  As root they are killed,
\* started or not (kill_on_drop).  A sudo can only be stopped by the guard, which
\* exists once the stream has been polled, and may fail to.
Dropped ==
  {[k \in Probes |-> IF k \in gone THEN "over" ELSE probe[k]] :
     gone \in IF root THEN {Running} ELSE IF pc = "driving" THEN SUBSET Running ELSE {{}}}

\* run_trace returns: its locals are dropped, main exits, with 1 on an error.
Leave(reason) ==
  /\ pc' = "exited"
  /\ cause' = reason
  /\ server' = FALSE
  /\ probe' \in Dropped
  /\ UNCHANGED <<world, life, cfg, agent, up, exposed>>

\* The process goes on from one stage to the next.
Pass(from, to) == pc = from /\ pc' = to /\ UNCHANGED <<world, life, cause>>

\* Whether what a mistake makes impossible may fail; without it, for other reasons.
MayFail(m) == m \in wrong \/ ~calm

Add(kind, args, chain) ==
  agent' = IF kind \in cfg.monitors
             THEN Append(agent, [kind |-> kind, args |-> args, chain |-> chain])
             ELSE agent

\* BinaryExtractor::new() and run_with_extractor.  A command goes to run_exec, which
\* knows nothing of the options of memwrite.
Dispatch ==
  \/ /\ opts.command /\ opts.target = "none"
     /\ Pass("cli", "exec") /\ UNCHANGED <<cfg, agent, boot>>
  \/ /\ pc = "cli"
     /\ opts.command <=> opts.target # "none"
     /\ Leave("options")
  \/ pc = "cli" /\ ~calm /\ Leave("extractor")
  \/ /\ ~opts.command /\ opts.target # "none"
     /\ Pass("cli", "resolve")
     /\ cfg' = FromRecord(opts)
     /\ UNCHANGED <<agent, boot>>

\* A container reference becomes a path on the host.
ResolveContainer ==
  \/ /\ Pass("resolve", "discover")
     /\ "container" \notin wrong
     /\ cfg' = IF cfg.binary = "container" THEN [cfg EXCEPT !.binary = "host"] ELSE cfg
     /\ UNCHANGED <<agent, boot>>
  \/ pc = "resolve" /\ cfg.binary = "container" /\ MayFail("container") /\ Leave("container")

\* Without a path, one may be found by the name, if it embeds OpenSSL.
DiscoverBinary ==
  /\ Pass("discover", "seeds")
  /\ \/ UNCHANGED cfg
     \/ /\ "ssl" \in cfg.monitors /\ cfg.binary = "none" /\ cfg.comm = "one" /\ embeds
        /\ cfg' = [cfg EXCEPT !.binary = "host"]
  /\ UNCHANGED <<agent, boot>>

prepare_process_seeds ==
  \/ Pass("seeds", "ssl") /\ UNCHANGED <<cfg, agent, boot>>
  \/ pc = "seeds" /\ "process" \in cfg.monitors /\ ~calm /\ Leave("snapshot")

BuildSsl ==
  /\ Pass("ssl", "stdio")
  /\ Add("ssl", build_ssl_args(cfg), <<"TimestampNormalizer">>)
  /\ UNCHANGED <<cfg, boot>>

\* stdio needs a pid, and its probe a path.
BuildStdio ==
  \/ /\ Pass("stdio", "process")
     /\ "stdio" \in cfg.monitors => cfg.pid
     /\ Add("stdio", build_stdio_args(cfg), <<"TimestampNormalizer">>)
     /\ UNCHANGED <<cfg, boot>>
  \/ pc = "stdio" /\ "stdio" \in cfg.monitors /\ ~cfg.pid /\ Leave("options")
  \/ pc = "stdio" /\ "stdio" \in cfg.monitors /\ cfg.pid /\ Leave("no_probe")

BuildProcess ==
  /\ Pass("process", "memwrite")
  /\ Add("process", build_process_args(cfg), <<"TimestampNormalizer">>)
  /\ UNCHANGED <<cfg, boot>>

\* memwrite needs a path; the rules file is read here, once.
BuildMemwrite ==
  \/ /\ Pass("memwrite", "system")
     /\ "memwrite" \in cfg.monitors => cfg.mem.path
     /\ "rules" \notin wrong
     /\ Add("memwrite", {"--prefix"}, MemwriteChain(cfg))
     /\ UNCHANGED <<cfg, boot>>
  \/ /\ pc = "memwrite" /\ "memwrite" \in cfg.monitors
     /\ ~cfg.mem.path
     /\ Leave("options")
  \/ /\ pc = "memwrite" /\ "memwrite" \in cfg.monitors
     /\ cfg.mem.path /\ cfg.mem.rules /\ MayFail("rules")
     /\ Leave("rules")

BuildSystem ==
  /\ Pass("system", "sinks")
  /\ Add("system", build_process_args(cfg), <<"TimestampNormalizer">>)
  /\ UNCHANGED <<cfg, boot>>

\* At least one monitor, and a database that can be opened.
BuildSinks ==
  \/ /\ Pass("sinks", "server")
     /\ cfg.monitors # {} /\ "db" \notin wrong
     /\ UNCHANGED <<cfg, agent, boot>>
  \/ pc = "sinks" /\ cfg.monitors = {} /\ Leave("options")
  \/ pc = "sinks" /\ cfg.monitors # {} /\ MayFail("db") /\ Leave("db")

\* Mutant: whether the server is still there is only looked at in the loop.
StartServer_CheckedLate ==
  \/ /\ Pass("server", "starting")
     /\ server' = cfg.server
     /\ exposed' = cfg.server
     /\ UNCHANGED <<cfg, agent, up, probe>>
  \/ pc = "driving" /\ cfg.server /\ MayFail("listen") /\ Leave("server")

\* start_web_server_if_enabled: a bad address, or a server gone after 100 ms.
StartServer ==
  \/ /\ Pass("server", "starting")
     /\ "listen" \notin wrong
     /\ server' = cfg.server
     /\ exposed' = cfg.server
     /\ UNCHANGED <<cfg, agent, up, probe>>
  \/ pc = "server" /\ cfg.server /\ MayFail("listen") /\ Leave("server")

\* Mutant: a runner that does not start is skipped.
StartRunner_Skips ==
  /\ pc = "starting" /\ up < Len(agent)
  /\ LET kind == agent[up + 1].kind IN
       /\ up' = up + 1
       /\ \/ /\ probe' = IF kind \in Probes THEN [probe EXCEPT ![kind] = "running"] ELSE probe
             /\ exposed' = (exposed \/ kind \in Probes)
          \/ kind \in Probes /\ UNCHANGED <<probe, exposed>>
       /\ UNCHANGED <<world, life, pc, cfg, agent, server, cause>>

\* AgentRunner::run starts runner after runner; the first that fails ends it.  A
\* sudo is started whatever it is to run.
StartRunner ==
  /\ pc = "starting" /\ up < Len(agent)
  /\ LET kind == agent[up + 1].kind IN
       \/ /\ root /\ kind = "memwrite" => "probe_path" \notin wrong
          /\ up' = up + 1
          /\ probe' = IF kind \in Probes THEN [probe EXCEPT ![kind] = "running"] ELSE probe
          /\ exposed' = (exposed \/ kind \in Probes)
          /\ UNCHANGED <<world, life, pc, cfg, agent, server, cause>>
       \/ /\ kind \in Probes
          /\ ~calm \/ (kind = "memwrite" /\ "probe_path" \in wrong)
          /\ Leave("start")

Drive ==
  /\ up = Len(agent)
  /\ Pass("starting", "driving")
  /\ UNCHANGED <<cfg, agent, boot>>

\* A probe ends, with a bad status, as does a sudo that finds no program, or with 0.
ProbeEnds ==
  \E k \in Running, how \in {"failed", "over"} :
    /\ how = "failed" => ~calm \/ (k = "memwrite" /\ "probe_path" \in wrong)
    /\ probe' = [probe EXCEPT ![k] = how]
    /\ UNCHANGED <<world, life, pc, cfg, agent, up, server, cause, exposed>>

\* The loop takes the runner_error of a probe that failed.
SeeFailure ==
  /\ pc = "driving"
  /\ \E k \in Probes : probe[k] = "failed"
  /\ Leave("probe")

\* All the runners' streams are over; the system runner's never is.
StreamEnds ==
  /\ pc = "driving"
  /\ \A i \in 1..Len(agent) : agent[i].kind \in Probes /\ probe[agent[i].kind] = "over"
  /\ Leave("ended")

\* The loop sees the shutdown signal, systemd's or somebody else's.  Session has
\* what becomes of one that comes before.
Shutdown == pc = "driving" /\ Leave("signal")

-----------------------------------------------------------------------------
\* From some time on nothing more fails by accident, if the environment so wishes.
Calm ==
  /\ ~calm
  /\ calm' = TRUE
  /\ UNCHANGED <<world, unit, pc, cfg, agent, boot, cause>>

StopUnit ==
  /\ unit = "active"
  /\ unit' = "stopping"
  /\ UNCHANGED <<world, calm, pc, cfg, agent, boot, cause>>

\* Mutant: no TimeoutStopSec: a process that has missed its SIGINT is waited for.
KillUnit_NoTimeout ==
  /\ unit = "active" /\ ~calm
  /\ pc # "exited" /\ pc # "exec"
  /\ Leave("killed")

\* SIGKILL, by MemoryMax or after TimeoutStopSec, to all that is in the unit.
KillUnit ==
  /\ unit = "stopping" \/ (unit = "active" /\ ~calm)
  /\ pc # "exited" /\ pc # "exec"
  /\ Leave("killed")

\* An exit with 0, or after a stop, is final.
UnitEnds ==
  /\ pc = "exited"
  /\ unit = "stopping" \/ (unit = "active" /\ cause \in {"ended", "signal"})
  /\ unit' = "inactive"
  /\ UNCHANGED <<world, calm, pc, cfg, agent, boot, cause>>

\* Mutant: Restart=on-abnormal, for which an exit with 1 is an orderly one.
Restart_OnAbnormal ==
  /\ unit = "active" /\ pc = "exited" /\ cause = "killed"
  /\ pc' = "cli" /\ cfg' = <<>> /\ agent' = <<>> /\ up' = 0
  /\ server' = FALSE /\ probe' = NoProbe /\ cause' = "none" /\ exposed' = FALSE
  /\ UNCHANGED <<world, life>>

\* Restart=on-failure, after RestartSec.
Restart ==
  /\ unit = "active" /\ pc = "exited" /\ cause \notin {"ended", "signal"}
  /\ pc' = "cli" /\ cfg' = <<>> /\ agent' = <<>> /\ up' = 0
  /\ server' = FALSE /\ probe' = NoProbe /\ cause' = "none" /\ exposed' = FALSE
  /\ UNCHANGED <<world, life>>

\* The process itself, up to the loop.
Start ==
  \/ Dispatch
  \/ ResolveContainer
  \/ DiscoverBinary
  \/ prepare_process_seeds
  \/ BuildSsl
  \/ BuildStdio
  \/ BuildProcess
  \/ BuildMemwrite
  \/ BuildSystem
  \/ BuildSinks
  \/ StartServer
  \/ StartRunner
  \/ Drive

Next ==
  \/ Start
  \/ ProbeEnds
  \/ SeeFailure
  \/ StreamEnds
  \/ Shutdown
  \/ Calm
  \/ StopUnit
  \/ KillUnit
  \/ UnitEnds
  \/ Restart

Spec == Init /\ [][Next]_vars

\* The process runs; systemd restarts what it has to and, once it is to stop, does
\* not wait for ever.  No probe has to end, no signal has to be seen, and nothing has
\* to become calm.
FairSpec ==
  /\ Spec
  /\ WF_vars(Start) /\ WF_vars(SeeFailure) /\ WF_vars(UnitEnds) /\ WF_vars(Restart)
  /\ WF_vars(unit = "stopping" /\ KillUnit)

-----------------------------------------------------------------------------
KindsUpTo(n) == {agent[i].kind : i \in 1..n}

\* When build_trace_agent_with_view comes to a kind of runner.
Turn(kind) ==
  CHOOSE n \in 1..5 : <<"ssl", "stdio", "process", "memwrite", "system">>[n] = kind

\* Type invariant.  The agent holds the configured runners, each once, in the
\* order of the code, and a probe has only a state once its runner is started.
TypeOK ==
  /\ caller \in {"shell", "systemd", "agentsight"} /\ root \in BOOLEAN /\ embeds \in BOOLEAN
  /\ opts \in CommandLine /\ wrong \subseteq Mistakes /\ calm \in BOOLEAN
  /\ unit \in {"none", "active", "stopping", "inactive"}
  /\ cfg \in TraceConfig \cup {<<>>}
  /\ up \in 0..Len(agent)
  /\ \A i \in 1..Len(agent) :
       /\ agent[i].kind \in Monitors
       /\ \A j \in 1..(i - 1) : Turn(agent[j].kind) < Turn(agent[i].kind)
  /\ pc \in {"starting", "driving"} => KindsUpTo(Len(agent)) = cfg.monitors
  /\ server \in BOOLEAN /\ exposed \in BOOLEAN
  /\ probe \in [Probes -> {"none", "running", "failed", "over"}]
  /\ \A k \in Probes : probe[k] # "none" <=> k \in KindsUpTo(up)

\* Whom flush_alerts tells: a dry run only writes the log.
Told(channels) == IF "dry_run" \in channels THEN {"log"} ELSE channels

\* What an analyzer makes of an event that carries a signature.  An alert takes the
\* time the event has when it comes by.
Analyzed(ev, analyzer, channels) ==
  CASE analyzer = "TimestampNormalizer" -> [ev EXCEPT !.time = "epoch"]
    [] analyzer = "PoisonAnalyzer" -> [ev EXCEPT !.poison = TRUE]
    [] analyzer = "AlertSink" ->
         IF ev.poison THEN [ev EXCEPT !.alerts = Told(channels) \X {ev.time}] ELSE ev

\* What the analyzers of a runner make of it, one after the other.
Through(chain, channels) ==
  LET upTo[n \in 0..Len(chain)] ==
        IF n = 0 THEN [time |-> "boot", poison |-> FALSE, alerts |-> {}]
                 ELSE Analyzed(upTo[n - 1], chain[n], channels)
  IN upTo[Len(chain)]

\* From the command line to the channel: once a `record` that was asked to watch
\* the stores is driving, a write that carries a signature is found, and each of the
\* channels given is told, with the time of the epoch and not the time since boot that
\* the probe prints; a dry run tells nobody and writes the log.
AlertsWired ==
  pc = "driving" /\ caller # "agentsight" =>
    LET memwrite == {i \in 1..Len(agent) : agent[i].kind = "memwrite"}
        asked == opts.mem.channels
        told == IF "dry_run" \in asked THEN {"log"} ELSE asked
    IN
      IF opts.mem.asked
        THEN \E i \in memwrite :
               /\ memwrite = {i}
               /\ Through(agent[i].chain, cfg.mem.channels)
                    = [time |-> "epoch", poison |-> TRUE, alerts |-> told \X {"epoch"}]
        ELSE memwrite = {}

\* What sslsniff sees of the program to attach to: OpenSSL inside of it is only
\* hooked by its path, and then the traffic is on a thread of another name.
SeesTarget(args) ==
  /\ embeds => "--binary-path" \in args
  /\ "-c" \in args => ~embeds

\* A `record` on a target never loses the target's traffic to a filter of its own
\* making, and never listens to everybody.  It sees nothing of a program that embeds
\* OpenSSL and whose path it does not have: by name it may not find one, and for a pid
\* it never looks.
TrafficSeen ==
  pc = "driving" /\ caller # "agentsight" =>
    \A i \in 1..Len(agent) :
      /\ agent[i].kind = "ssl" /\ opts.target \in {"comm", "pid"} =>
           SeesTarget(agent[i].args) \/ (embeds /\ cfg.binary = "none")
      /\ agent[i].kind # "memwrite" => agent[i].args # {}

\* Options that do not go together.
OptionError(c) ==
  \/ c.monitors = {}
  \/ "memwrite" \in c.monitors /\ ~c.mem.path
  \/ "stdio" \in c.monitors /\ ~c.pid

\* When a mistake in the configuration is found.  Nothing others could see, a server
\* or a probe, is up before all of it has been found good but for two: the path of the
\* probe, which is only tried when the memwrite runner has its turn, and the base of
\* the alerts, which is only tried by the first push.  Who drives has found the path
\* good too, unless it is sudo that tries it.
ConfigErrorIsEarly ==
  /\ exposed => wrong \subseteq {"probe_path", "base"} /\ ~OptionError(cfg)
  /\ pc = "driving" => wrong \subseteq {"base"} \cup (IF root THEN {} ELSE {"probe_path"})

\* A stop wins over everything the process and systemd may be doing at the time: a
\* start that has not come to the loop, whose SIGINT is lost, a failure that is about
\* to be restarted, a loop that never sees the signal.  The unit ends and stays ended.
StopWins == unit = "stopping" ~> [](unit = "inactive" /\ pc = "exited" /\ Running = {})

\* The detection runs: the memwrite probe is there or has ended with 0, which nobody
\* notices, and no failure waits to be seen.
Detecting ==
  /\ pc = "driving"
  /\ probe["memwrite"] \in {"running", "over"}
  /\ \A k \in Probes : probe[k] # "failed"

\* Under systemd the detection comes back and stays, whatever has failed before, a
\* step of a start, a probe or the process killed, and however often, once nothing more
\* fails by accident: the error ends the process, its status makes systemd start it
\* again, and the script's options configure the probe anew.  Somebody may stop it; and
\* a mistake in the configuration, but for the base of the alerts, is for ever.
DetectionReturns ==
  unit = "active" /\ calm /\ wrong \subseteq {"base"} ~> [](Detecting \/ unit # "active")
=============================================================================
