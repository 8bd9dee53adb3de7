---------------------------- MODULE RecordProofs ----------------------------
(***************************************************************************)
(* The safety of Record for any channels, any mistakes and whatever        *)
(* configurations AgentSight's other commands make.                        *)
(***************************************************************************)
EXTENDS Record, SequenceTheorems, TLAPS

Stages == {"cli", "exec", "resolve", "discover", "seeds", "ssl", "stdio", "process", "memwrite",
           "system", "sinks", "server", "starting", "driving", "exited"}

\* What does not change, and the unit.
WorldTyped ==
  /\ caller \in {"shell", "systemd", "agentsight"}
  /\ root \in BOOLEAN /\ embeds \in BOOLEAN
  /\ opts \in CommandLine /\ wrong \subseteq Mistakes /\ calm \in BOOLEAN
  /\ unit \in {"none", "active", "stopping", "inactive"}
  /\ pc \in Stages

\* There is a configuration from the end of the command line on.
CfgTyped ==
  /\ cfg \in TraceConfig \/ cfg = <<>>
  /\ pc \notin {"cli", "exec", "exited"} => cfg \in TraceConfig

\* A server, a probe or something that others have seen of the process is there only
\* once the runners are being started.
Booted ==
  /\ server \in BOOLEAN /\ exposed \in BOOLEAN
  /\ probe \in [Probes -> {"none", "running", "failed", "over"}]
  /\ pc \notin {"starting", "driving", "exited"} =>
       up = 0 /\ probe = NoProbe /\ ~server /\ ~exposed

\* Who can have a wrong path for the probe has asked for the probe.
PathAsked ==
  /\ caller = "agentsight" => unit = "none" /\ pc # "cli"
  /\ caller # "agentsight" /\ "probe_path" \in wrong => opts.mem.asked
  /\ pc \notin {"cli", "exec", "exited"} /\ "probe_path" \in wrong => "memwrite" \in cfg.monitors

\* Each stage of the start leaves behind what it would have found wrong.
StageSound ==
  /\ pc \in {"discover", "seeds", "ssl", "stdio", "process", "memwrite", "system", "sinks",
             "server", "starting", "driving"} => "container" \notin wrong
  /\ pc \in {"process", "memwrite", "system", "sinks", "server", "starting", "driving"} =>
       ("stdio" \in cfg.monitors => cfg.pid)
  /\ pc \in {"system", "sinks", "server", "starting", "driving"} =>
       ("memwrite" \in cfg.monitors => cfg.mem.path) /\ "rules" \notin wrong
  /\ pc \in {"server", "starting", "driving"} => cfg.monitors # {} /\ "db" \notin wrong
  /\ pc \in {"starting", "driving"} => "listen" \notin wrong

\* What is there for others to see has come after all of that, and the path of the probe
\* has been tried, but for a sudo's, where the probe has been started.
ShownSound ==
  /\ pc = "driving" => up = Len(agent)
  /\ exposed => wrong \subseteq {"probe_path", "base"} /\ ~OptionError(cfg)
  /\ root /\ probe["memwrite"] # "none" => "probe_path" \notin wrong

\* The runners there can be.
Wanted(c) ==
  {[kind |-> "ssl", args |-> build_ssl_args(c), chain |-> <<"TimestampNormalizer">>],
   [kind |-> "stdio", args |-> build_stdio_args(c), chain |-> <<"TimestampNormalizer">>],
   [kind |-> "process", args |-> build_process_args(c), chain |-> <<"TimestampNormalizer">>],
   [kind |-> "memwrite", args |-> {"--prefix"}, chain |-> MemwriteChain(c)],
   [kind |-> "system", args |-> build_process_args(c), chain |-> <<"TimestampNormalizer">>]}

\* How many kinds of runner have had their turn.
Turns ==
  IF pc = "stdio" THEN 1
  ELSE IF pc = "process" THEN 2
  ELSE IF pc = "memwrite" THEN 3
  ELSE IF pc = "system" THEN 4
  ELSE IF pc \in {"sinks", "server", "starting", "driving"} THEN 5 ELSE 0

\* The runners so far are those of the kinds that have had their turn and are
\* configured, in that order, each made from the configuration as it still is.
AgentBuilt ==
  /\ agent = <<>> \/ agent \in Seq(Wanted(cfg))
  /\ \A i \in 1..Len(agent) : \A j \in 1..(i - 1) : Turn(agent[j].kind) < Turn(agent[i].kind)
  /\ pc # "exited" =>
       KindsUpTo(Len(agent)) = {k \in Monitors : Turn(k) <= Turns /\ k \in cfg.monitors}

\* The runners that have been started are the first ones, and a probe has a state
\* once it is one of them.
RunnersUp ==
  /\ up \in 0..Len(agent)
  /\ \A k \in Probes : probe[k] # "none" <=> k \in KindsUpTo(up)

\* A `record` has the configuration its options make but for the path of the binary,
\* which is looked for.
Configured ==
  caller # "agentsight" /\ pc \notin {"cli", "exec", "exited"} =>
    /\ opts.target # "none"
    /\ cfg = [FromRecord(opts) EXCEPT !.binary = cfg.binary]

IInv ==
  /\ WorldTyped /\ CfgTyped /\ Booted /\ AgentBuilt /\ RunnersUp /\ Configured
  /\ PathAsked /\ StageSound /\ ShownSound

\* The order of the kinds, as numbers.
LEMMA Turned ==
  /\ Turn("ssl") = 1 /\ Turn("stdio") = 2 /\ Turn("process") = 3
  /\ Turn("memwrite") = 4 /\ Turn("system") = 5
  /\ \A k \in Monitors : Turn(k) \in 1..5 /\ \A l \in Monitors : Turn(k) = Turn(l) => k = l
<1>1. /\ Turn("ssl") = 1 /\ Turn("stdio") = 2 /\ Turn("process") = 3
      /\ Turn("memwrite") = 4 /\ Turn("system") = 5
  BY DEF Turn
<1> QED
  BY <1>1 DEF Monitors

-----------------------------------------------------------------------------
\* The types of what is read from the command line and made of it.
LEMMA FromRecordTyped ==
  ASSUME NEW o \in CommandLine
  PROVE  FromRecord(o) \in TraceConfig
<1>1. /\ o.binary \in {"none", "host", "container"}
      /\ o.server \in BOOLEAN /\ o.mem \in MemOptions
  BY Zenon DEF CommandLine
<1>2. FromRecord(o).monitors \in SUBSET Monitors
  BY DEF FromRecord, for_record, Monitors
<1>3. (o.target = "pid") \in BOOLEAN
  BY Zenon
<1>4. (CASE o.target = "comm" -> "one" [] o.target = "comms" -> "list" [] OTHER -> "none")
        \in {"none", "one", "list"}
  BY Zenon
<1> QED
  BY <1>1, <1>2, <1>3, <1>4, Zenon DEF FromRecord, TraceConfig

LEMMA HostTyped ==
  ASSUME NEW c \in TraceConfig
  PROVE  [c EXCEPT !.binary = "host"] \in TraceConfig
  BY DEF TraceConfig

LEMMA ScriptTyped == ScriptArgs \subseteq CommandLine
<1>1. \A o \in ScriptArgs : o \in CommandLine
  BY Zenon DEF ScriptArgs, CommandLine
<1> QED
  BY <1>1

\* What is possible with a configuration is one of the mistakes.
LEMMA PossibleTyped ==
  ASSUME NEW c
  PROVE  /\ Possible(c) \subseteq Mistakes
         /\ "probe_path" \in Possible(c) => "memwrite" \in c.monitors
  BY Zenon DEF Possible

\* Dropping the streams gives no probe a state that had none.
LEMMA DroppedTyped ==
  ASSUME probe \in [Probes -> {"none", "running", "failed", "over"}], NEW p \in Dropped
  PROVE  /\ p \in [Probes -> {"none", "running", "failed", "over"}]
         /\ \A k \in Probes : p[k] # "none" <=> probe[k] # "none"
  BY DEF Dropped, Running

-----------------------------------------------------------------------------
LEMMA Starts == Init => IInv
<1> SUFFICES ASSUME Init PROVE IInv
  OBVIOUS
<1>1. WorldTyped
  <2>1. opts \in CommandLine
    <3>1. NoOptions \in CommandLine
      BY DEF NoOptions, CommandLine, MemOptions
    <3> QED
      BY <3>1, ScriptTyped DEF Init
  <2>2. root \in BOOLEAN /\ embeds \in BOOLEAN
    BY Zenon DEF Init
  <2>3. /\ caller \in {"shell", "systemd", "agentsight"} /\ pc \in {"cli", "resolve"}
        /\ unit \in {"none", "active"}
    BY Zenon DEF Init
  <2>4. calm \in BOOLEAN /\ wrong \subseteq Mistakes
    BY PossibleTyped, Zenon DEF Init
  <2> QED
    BY <2>1, <2>2, <2>3, <2>4 DEF WorldTyped, Stages
<1>2. CfgTyped
  <2>1. CASE caller = "agentsight"
    <3>1. cfg \in TraceConfig
      BY <2>1, RecordAssumption DEF Init
    <3> QED
      BY <3>1 DEF CfgTyped
  <2>2. CASE caller # "agentsight"
    BY <2>2 DEF Init, CfgTyped
  <2> QED
    BY <2>1, <2>2
<1>3. Booted
  <2>1. server \in BOOLEAN /\ exposed \in BOOLEAN
    BY Zenon DEF Init
  <2> QED
    BY <2>1 DEF Init, Booted, NoProbe
<1>4. pc \in {"cli", "resolve"} /\ Turns = 0
  BY DEF Init, Turns
<1>5. AgentBuilt
  <2>1. agent = <<>> /\ KindsUpTo(Len(agent)) = {}
    BY DEF Init, KindsUpTo
  <2>2. \A k \in Monitors : Turn(k) \in 1..5
    BY Turned
  <2>3. {k \in Monitors : Turn(k) <= Turns /\ k \in cfg.monitors} = {}
    BY <1>4, <2>2
  <2>4. Len(agent) = 0
    BY <2>1
  <2> QED
    BY <2>1, <2>3, <2>4 DEF AgentBuilt
<1>6. RunnersUp
  BY DEF Init, RunnersUp, NoProbe, KindsUpTo
<1>7. Configured
  BY DEF Init, Configured
<1>8. PathAsked
  <2>1. caller = "agentsight" /\ "probe_path" \in wrong => "memwrite" \in cfg.monitors
    BY PossibleTyped DEF Init
  <2>2. caller # "agentsight" /\ "probe_path" \in wrong => opts.mem.asked
    BY PossibleTyped DEF Init, FromRecord, for_record
  <2>3. /\ caller = "agentsight" => unit = "none" /\ pc = "resolve"
        /\ caller # "agentsight" => pc = "cli"
    BY Zenon DEF Init
  <2> QED
    BY <2>1, <2>2, <2>3 DEF PathAsked
<1>9. StageSound /\ ShownSound
  BY <1>4 DEF Init, StageSound, ShownSound, NoProbe, Probes, Monitors
<1> QED
  BY <1>1, <1>2, <1>3, <1>5, <1>6, <1>7, <1>8, <1>9 DEF IInv

-----------------------------------------------------------------------------
\* The options, the caller and the host stay what they are.
LEMMA WorldKept == [Next]_vars => UNCHANGED world
<1> SUFFICES ASSUME [Next]_vars PROVE UNCHANGED world
  OBVIOUS
<1> USE DEF Pass, Leave
<1>1. CASE Dispatch \/ ResolveContainer \/ DiscoverBinary \/ prepare_process_seeds
  BY <1>1, Zenon DEF Dispatch, ResolveContainer, DiscoverBinary, prepare_process_seeds
<1>2. CASE BuildSsl \/ BuildStdio \/ BuildProcess \/ BuildMemwrite \/ BuildSystem \/ BuildSinks
  BY <1>2, Zenon DEF BuildSsl, BuildStdio, BuildProcess, BuildMemwrite, BuildSystem, BuildSinks
<1>3. CASE StartServer \/ StartRunner \/ Drive
  BY <1>3, Zenon DEF StartServer, StartRunner, Drive
<1>4. CASE ProbeEnds \/ SeeFailure \/ StreamEnds \/ Shutdown
  BY <1>4, Zenon DEF ProbeEnds, SeeFailure, StreamEnds, Shutdown
<1>5. CASE Calm \/ StopUnit \/ KillUnit \/ UnitEnds \/ Restart
  BY <1>5, Zenon DEF Calm, StopUnit, KillUnit, UnitEnds, Restart
<1>6. CASE UNCHANGED vars
  BY <1>6, Zenon DEF vars
<1> QED
  BY <1>1, <1>2, <1>3, <1>4, <1>5, <1>6, Zenon DEF Next, Start

LEMMA WorldStep == WorldTyped /\ [Next]_vars => WorldTyped'
<1> SUFFICES ASSUME WorldTyped, [Next]_vars PROVE WorldTyped'
  OBVIOUS
<1>1. UNCHANGED world
  BY WorldKept
<1>2. pc' \in Stages /\ unit' \in {"none", "active", "stopping", "inactive"}
  <2> USE DEF WorldTyped, Pass, Leave, Stages, life
  <2>1. CASE Dispatch \/ ResolveContainer \/ DiscoverBinary \/ prepare_process_seeds
    BY <2>1 DEF Dispatch, ResolveContainer, DiscoverBinary, prepare_process_seeds
  <2>2. CASE BuildSsl \/ BuildStdio \/ BuildProcess \/ BuildMemwrite \/ BuildSystem \/ BuildSinks
    BY <2>2 DEF BuildSsl, BuildStdio, BuildProcess, BuildMemwrite, BuildSystem, BuildSinks
  <2>3. CASE StartServer \/ StartRunner \/ Drive
    BY <2>3 DEF StartServer, StartRunner, Drive
  <2>4. CASE ProbeEnds \/ SeeFailure \/ StreamEnds \/ Shutdown
    BY <2>4 DEF ProbeEnds, SeeFailure, StreamEnds, Shutdown
  <2>5. CASE Calm \/ StopUnit \/ KillUnit \/ UnitEnds \/ Restart
    BY <2>5 DEF Calm, StopUnit, KillUnit, UnitEnds, Restart
  <2>6. CASE UNCHANGED vars
    BY <2>6 DEF vars
  <2> QED
    BY <2>1, <2>2, <2>3, <2>4, <2>5, <2>6 DEF Next, Start
<1>3. calm' \in BOOLEAN
  <2>1. calm' = calm \/ calm' = TRUE
    <3> USE DEF Pass, Leave, life
    <3>1. CASE Dispatch \/ ResolveContainer \/ DiscoverBinary \/ prepare_process_seeds
      BY <3>1, Zenon DEF Dispatch, ResolveContainer, DiscoverBinary, prepare_process_seeds
    <3>2. CASE BuildSsl \/ BuildStdio \/ BuildProcess \/ BuildMemwrite \/ BuildSystem \/ BuildSinks
      BY <3>2, Zenon
         DEF BuildSsl, BuildStdio, BuildProcess, BuildMemwrite, BuildSystem, BuildSinks
    <3>3. CASE StartServer \/ StartRunner \/ Drive
      BY <3>3, Zenon DEF StartServer, StartRunner, Drive
    <3>4. CASE ProbeEnds \/ SeeFailure \/ StreamEnds \/ Shutdown
      BY <3>4, Zenon DEF ProbeEnds, SeeFailure, StreamEnds, Shutdown
    <3>5. CASE Calm \/ StopUnit \/ KillUnit \/ UnitEnds \/ Restart
      BY <3>5, Zenon DEF Calm, StopUnit, KillUnit, UnitEnds, Restart
    <3>6. CASE UNCHANGED vars
      BY <3>6, Zenon DEF vars
    <3> QED
      BY <3>1, <3>2, <3>3, <3>4, <3>5, <3>6, Zenon DEF Next, Start
  <2> QED
    BY <2>1, Zenon DEF WorldTyped
<1>4. (wrong \subseteq Mistakes)'
  BY <1>1 DEF WorldTyped, world, Mistakes
<1> QED
  BY <1>1, <1>2, <1>3, <1>4, Zenon DEF WorldTyped, world

LEMMA CfgStep == WorldTyped /\ CfgTyped /\ [Next]_vars => CfgTyped'
<1> SUFFICES ASSUME WorldTyped, CfgTyped, [Next]_vars PROVE CfgTyped'
  OBVIOUS
<1> USE DEF CfgTyped, Pass
<1>1. ASSUME NEW reason, Leave(reason) PROVE CfgTyped'
  BY <1>1 DEF Leave
<1>2. CASE Dispatch
  <2>1. FromRecord(opts) \in TraceConfig
    BY FromRecordTyped DEF WorldTyped
  <2> QED
    BY <1>1, <1>2, <2>1 DEF Dispatch
<1>3. CASE ResolveContainer \/ DiscoverBinary
  <2>1. cfg \in TraceConfig => [cfg EXCEPT !.binary = "host"] \in TraceConfig
    BY HostTyped
  <2> QED
    BY <1>1, <1>3, <2>1 DEF ResolveContainer, DiscoverBinary
<1>4. CASE prepare_process_seeds
  BY <1>1, <1>4 DEF prepare_process_seeds
<1>5. CASE BuildSsl \/ BuildStdio \/ BuildProcess \/ BuildMemwrite \/ BuildSystem \/ BuildSinks
  BY <1>1, <1>5 DEF BuildSsl, BuildStdio, BuildProcess, BuildMemwrite, BuildSystem, BuildSinks
<1>6. CASE StartServer \/ StartRunner \/ Drive
  BY <1>1, <1>6 DEF StartServer, StartRunner, Drive
<1>7. CASE ProbeEnds \/ SeeFailure \/ StreamEnds \/ Shutdown
  BY <1>1, <1>7 DEF ProbeEnds, SeeFailure, StreamEnds, Shutdown
<1>8. CASE Calm \/ StopUnit \/ KillUnit \/ UnitEnds \/ Restart
  BY <1>1, <1>8 DEF Calm, StopUnit, KillUnit, UnitEnds, Restart
<1>9. CASE UNCHANGED vars
  BY <1>9 DEF vars
<1> QED
  BY <1>2, <1>3, <1>4, <1>5, <1>6, <1>7, <1>8, <1>9 DEF Next, Start

\* The part of Booted that is Boolean.
LEMMA FlagsStep ==
  WorldTyped /\ CfgTyped /\ server \in BOOLEAN /\ exposed \in BOOLEAN /\ [Next]_vars
    => server' \in BOOLEAN /\ exposed' \in BOOLEAN
<1> SUFFICES ASSUME WorldTyped, CfgTyped, server \in BOOLEAN, exposed \in BOOLEAN, [Next]_vars
             PROVE  server' \in BOOLEAN /\ exposed' \in BOOLEAN
  OBVIOUS
<1> USE DEF Pass, boot
<1>1. ASSUME NEW reason, Leave(reason) PROVE server' \in BOOLEAN /\ exposed' \in BOOLEAN
  BY <1>1, Zenon DEF Leave
<1>2. CASE Dispatch \/ ResolveContainer \/ DiscoverBinary \/ prepare_process_seeds
  BY <1>1, <1>2, Zenon DEF Dispatch, ResolveContainer, DiscoverBinary, prepare_process_seeds
<1>3. CASE BuildSsl \/ BuildStdio \/ BuildProcess \/ BuildMemwrite \/ BuildSystem \/ BuildSinks
  BY <1>1, <1>3, Zenon
     DEF BuildSsl, BuildStdio, BuildProcess, BuildMemwrite, BuildSystem, BuildSinks
<1>4. CASE StartServer
  <2>1. pc = "server" => cfg \in TraceConfig
    BY DEF CfgTyped
  <2>2. pc = "server" => cfg.server \in BOOLEAN
    BY <2>1, Zenon DEF TraceConfig
  <2> QED
    BY <1>1, <1>4, <2>2, Zenon DEF StartServer
<1>5. CASE StartRunner
  <2> DEFINE isProbe == agent[up + 1].kind \in Probes
  <2>1. (exposed \/ isProbe) \in BOOLEAN
    BY Zenon
  <2> QED
    BY <1>1, <1>5, <2>1, Zenon DEF StartRunner
<1>6. CASE Drive
  BY <1>6, Zenon DEF Drive
<1>7. CASE ProbeEnds \/ SeeFailure \/ StreamEnds \/ Shutdown
  BY <1>1, <1>7, Zenon DEF ProbeEnds, SeeFailure, StreamEnds, Shutdown
<1>8. CASE Calm \/ StopUnit \/ KillUnit \/ UnitEnds \/ Restart
  BY <1>1, <1>8, Zenon DEF Calm, StopUnit, KillUnit, UnitEnds, Restart
<1>9. CASE UNCHANGED vars
  BY <1>9, Zenon DEF vars
<1> QED
  BY <1>2, <1>3, <1>4, <1>5, <1>6, <1>7, <1>8, <1>9, Zenon DEF Next, Start

LEMMA BootStep == WorldTyped /\ CfgTyped /\ Booted /\ [Next]_vars => Booted'
<1> SUFFICES ASSUME WorldTyped, CfgTyped, Booted, [Next]_vars PROVE Booted'
  OBVIOUS
<1>0. server' \in BOOLEAN /\ exposed' \in BOOLEAN
  BY FlagsStep DEF Booted
<1> USE <1>0 DEF Pass, boot
<1>1. ASSUME NEW reason, Leave(reason) PROVE Booted'
  BY <1>1, DroppedTyped DEF Leave, Booted
<1>2. CASE Dispatch \/ ResolveContainer \/ DiscoverBinary \/ prepare_process_seeds
  BY <1>1, <1>2 DEF Dispatch, ResolveContainer, DiscoverBinary, prepare_process_seeds, Booted
<1>3. CASE BuildSsl \/ BuildStdio \/ BuildProcess \/ BuildMemwrite \/ BuildSystem \/ BuildSinks
  BY <1>1, <1>3
     DEF BuildSsl, BuildStdio, BuildProcess, BuildMemwrite, BuildSystem, BuildSinks, Booted
<1>4. CASE StartServer
  BY <1>1, <1>4 DEF StartServer, Booted
<1>5. CASE StartRunner
  <2> DEFINE kind == agent[up + 1].kind
  <2>1. CASE Leave("start")
    BY <1>1, <2>1
  <2>2. CASE /\ probe' = IF kind \in Probes THEN [probe EXCEPT ![kind] = "running"] ELSE probe
             /\ pc = "starting" /\ UNCHANGED pc
    <3>1. probe' \in [Probes -> {"none", "running", "failed", "over"}]
      BY <2>2 DEF Booted
    <3> QED
      BY <2>2, <3>1 DEF Booted
  <2> QED
    BY <1>5, <2>1, <2>2 DEF StartRunner
<1>6. CASE Drive
  BY <1>6 DEF Drive, Booted
<1>7. CASE ProbeEnds
  <2>1. PICK k \in Running, how \in {"failed", "over"} :
          /\ probe' = [probe EXCEPT ![k] = how]
          /\ UNCHANGED <<world, life, pc, cfg, agent, up, server, cause, exposed>>
    BY <1>7 DEF ProbeEnds
  <2>2. probe' \in [Probes -> {"none", "running", "failed", "over"}]
    BY <2>1 DEF Booted
  <2>3. pc \in {"starting", "driving", "exited"}
    BY <2>1 DEF Booted, Running, NoProbe
  <2> QED
    BY <2>1, <2>2, <2>3 DEF Booted
<1>8. CASE SeeFailure \/ StreamEnds \/ Shutdown \/ KillUnit
  BY <1>1, <1>8 DEF SeeFailure, StreamEnds, Shutdown, KillUnit
<1>9. CASE Calm \/ StopUnit \/ UnitEnds
  BY <1>9 DEF Calm, StopUnit, UnitEnds, Booted
<1>10. CASE Restart
  BY <1>10 DEF Restart, Booted, NoProbe
<1>11. CASE UNCHANGED vars
  BY <1>11 DEF vars, Booted
<1> QED
  BY <1>2, <1>3, <1>4, <1>5, <1>6, <1>7, <1>8, <1>9, <1>10, <1>11 DEF Next, Start

-----------------------------------------------------------------------------
\* Nothing has been built before the first kind's turn.
LEMMA NothingBuilt == AgentBuilt /\ pc # "exited" /\ Turns = 0 => agent = <<>>
<1> SUFFICES ASSUME AgentBuilt, pc # "exited", Turns = 0, agent \in Seq(Wanted(cfg)), agent # <<>>
             PROVE  FALSE
  BY DEF AgentBuilt
<1>1. 1 \in 1..Len(agent)
  OBVIOUS
<1>2. agent[1].kind \in KindsUpTo(Len(agent))
  BY <1>1 DEF KindsUpTo
<1> QED
  BY <1>2, Turned DEF AgentBuilt

\* Steps that build nothing and give no kind its turn.
LEMMA AgentKept ==
  ASSUME AgentBuilt, UNCHANGED <<agent, cfg>>,
         pc' = "exited" \/ (pc # "exited" /\ Turns' = Turns)
  PROVE  AgentBuilt'
<1>1. /\ (agent = <<>> \/ agent \in Seq(Wanted(cfg)))'
      /\ \A i \in 1..Len(agent') : \A j \in 1..(i - 1) : Turn(agent'[j].kind) < Turn(agent'[i].kind)
  BY DEF AgentBuilt, Wanted, build_ssl_args, build_stdio_args, build_process_args, MemwriteChain
<1>2. pc' # "exited" =>
        KindsUpTo(Len(agent))' = {k \in Monitors : Turn(k) <= Turns' /\ k \in cfg'.monitors}
  BY DEF AgentBuilt, KindsUpTo
<1> QED
  BY <1>1, <1>2 DEF AgentBuilt

\* A kind has its turn: its runner is put behind the others, if it is configured.
LEMMA AgentAdds ==
  ASSUME AgentBuilt, NEW kind \in Monitors, NEW args, NEW chain,
         [kind |-> kind, args |-> args, chain |-> chain] \in Wanted(cfg),
         Add(kind, args, chain), cfg' = cfg,
         pc # "exited", pc' # "exited", Turns' = Turns + 1, Turn(kind) = Turns + 1
  PROVE  AgentBuilt'
<1> DEFINE r == [kind |-> kind, args |-> args, chain |-> chain]
           W == Wanted(cfg)
<1>1. Wanted(cfg)' = W
  BY DEF Wanted, build_ssl_args, build_stdio_args, build_process_args, MemwriteChain
<1>2. agent \in Seq(W)
  <2>1. <<>> \in Seq(W)
    OBVIOUS
  <2> QED
    BY <2>1, Zenon DEF AgentBuilt
<1>3. r \in W /\ r.kind = kind
  OBVIOUS
<1>4. Turns \in Int
  BY DEF Turns
<1>5. \A i \in 1..Len(agent) : agent[i].kind \in Monitors /\ Turn(agent[i].kind) <= Turns
  BY DEF AgentBuilt, KindsUpTo
<1> HIDE DEF r, W
<1>6. CASE kind \in cfg.monitors
  <2>1. agent' = Append(agent, r)
    BY <1>6 DEF Add, r
  <2>2. /\ agent' \in Seq(W) /\ Len(agent') = Len(agent) + 1 /\ Len(agent) \in Nat
        /\ agent'[Len(agent) + 1] = r
        /\ \A i \in 1..Len(agent) : agent'[i] = agent[i]
    BY <1>2, <1>3, <2>1, AppendProperties
  <2>3. ASSUME NEW i \in 1..Len(agent'), NEW j \in 1..(i - 1)
        PROVE  Turn(agent'[j].kind) < Turn(agent'[i].kind)
    <3>1. j \in 1..Len(agent) /\ agent'[j] = agent[j] /\ j \in Nat
      BY <2>2
    <3>2. CASE i = Len(agent) + 1
      <4>1. Turn(agent'[i].kind) = Turns + 1
        BY <1>3, <2>2, <3>2
      <4>2. Turn(agent[j].kind) <= Turns /\ Turn(agent[j].kind) \in Int
        BY <1>5, <3>1, Turned
      <4> QED
        BY <1>4, <3>1, <4>1, <4>2
    <3>3. CASE i # Len(agent) + 1
      <4>1. i \in 1..Len(agent) /\ agent'[i] = agent[i]
        BY <2>2, <3>3
      <4> QED
        BY <3>1, <4>1 DEF AgentBuilt
    <3> QED
      BY <3>2, <3>3
  <2>4. KindsUpTo(Len(agent))' = KindsUpTo(Len(agent)) \cup {kind}
    BY <1>3, <2>2 DEF KindsUpTo
  <2>5. {k \in Monitors : Turn(k) <= Turns + 1 /\ k \in cfg.monitors}
          = {k \in Monitors : Turn(k) <= Turns /\ k \in cfg.monitors} \cup {kind}
    BY <1>4, <1>6, Turned
  <2>6. KindsUpTo(Len(agent))' = {k \in Monitors : Turn(k) <= Turns' /\ k \in cfg'.monitors}
    BY <2>4, <2>5 DEF AgentBuilt
  <2> QED
    BY <1>1, <2>2, <2>3, <2>6 DEF AgentBuilt
<1>7. CASE kind \notin cfg.monitors
  <2>1. agent' = agent
    BY <1>7 DEF Add
  <2>2. {k \in Monitors : Turn(k) <= Turns + 1 /\ k \in cfg.monitors}
          = {k \in Monitors : Turn(k) <= Turns /\ k \in cfg.monitors}
    BY <1>4, <1>7, Turned
  <2>3. KindsUpTo(Len(agent))' = {k \in Monitors : Turn(k) <= Turns' /\ k \in cfg'.monitors}
    BY <2>1, <2>2 DEF AgentBuilt, KindsUpTo
  <2> QED
    BY <1>1, <1>2, <2>1, <2>3 DEF AgentBuilt
<1> QED
  BY <1>6, <1>7

LEMMA AgentStep == AgentBuilt /\ [Next]_vars => AgentBuilt'
<1> SUFFICES ASSUME AgentBuilt, [Next]_vars PROVE AgentBuilt'
  OBVIOUS
<1> USE DEF Pass
<1>1. ASSUME NEW reason, Leave(reason) PROVE AgentBuilt'
  BY <1>1, AgentKept DEF Leave
<1>2. ASSUME UNCHANGED <<agent, cfg, pc>> PROVE AgentBuilt'
  BY <1>2, AgentKept DEF Turns
<1>3. ASSUME agent' = <<>>, pc' # "exited", Turns' = 0 PROVE AgentBuilt'
  <2>1. KindsUpTo(Len(agent))' = {}
    BY <1>3 DEF KindsUpTo
  <2>2. {k \in Monitors : Turn(k) <= 0 /\ k \in cfg'.monitors} = {}
    BY Turned
  <2> QED
    BY <1>3, <2>1, <2>2 DEF AgentBuilt
<1>4. CASE Dispatch \/ ResolveContainer \/ DiscoverBinary \/ prepare_process_seeds
  <2>1. pc \in {"cli", "resolve", "discover", "seeds"}
    BY <1>4 DEF Dispatch, ResolveContainer, DiscoverBinary, prepare_process_seeds, Leave
  <2>2. agent = <<>>
    BY <2>1, NothingBuilt DEF Turns
  <2> QED
    BY <1>1, <1>3, <1>4, <2>2
       DEF Dispatch, ResolveContainer, DiscoverBinary, prepare_process_seeds, Turns
<1>5. CASE BuildSsl
  BY <1>5, Turned, AgentAdds DEF BuildSsl, Turns, Wanted, Monitors
<1>6. CASE BuildStdio
  BY <1>1, <1>6, Turned, AgentAdds DEF BuildStdio, Turns, Wanted, Monitors
<1>7. CASE BuildProcess
  BY <1>7, Turned, AgentAdds DEF BuildProcess, Turns, Wanted, Monitors
<1>8. CASE BuildMemwrite
  BY <1>1, <1>8, Turned, AgentAdds DEF BuildMemwrite, Turns, Wanted, Monitors
<1>9. CASE BuildSystem
  BY <1>9, Turned, AgentAdds DEF BuildSystem, Turns, Wanted, Monitors
<1>10. CASE BuildSinks \/ StartServer \/ Drive
  BY <1>1, <1>10, AgentKept DEF BuildSinks, StartServer, Drive, Turns, boot
<1>11. CASE StartRunner \/ ProbeEnds
  BY <1>1, <1>2, <1>11 DEF StartRunner, ProbeEnds
<1>12. CASE SeeFailure \/ StreamEnds \/ Shutdown \/ KillUnit
  BY <1>1, <1>12 DEF SeeFailure, StreamEnds, Shutdown, KillUnit
<1>13. CASE Calm \/ StopUnit \/ UnitEnds
  BY <1>2, <1>13 DEF Calm, StopUnit, UnitEnds
<1>14. CASE Restart
  BY <1>3, <1>14 DEF Restart, Turns
<1>15. CASE UNCHANGED vars
  BY <1>2, <1>15 DEF vars
<1> QED
  BY <1>4, <1>5, <1>6, <1>7, <1>8, <1>9, <1>10, <1>11, <1>12, <1>13, <1>14, <1>15 DEF Next, Start

-----------------------------------------------------------------------------
LEMMA RunnersStep ==
  CfgTyped /\ Booted /\ AgentBuilt /\ RunnersUp /\ AgentBuilt' /\ [Next]_vars => RunnersUp'
<1> SUFFICES ASSUME CfgTyped, Booted, AgentBuilt, RunnersUp, AgentBuilt', [Next]_vars
             PROVE  RunnersUp'
  OBVIOUS
<1> USE DEF Pass, boot
<1>1. ASSUME NEW reason, Leave(reason) PROVE RunnersUp'
  <2>1. \A k \in Probes : probe'[k] # "none" <=> probe[k] # "none"
    BY <1>1, DroppedTyped, Zenon DEF Leave, Booted
  <2> QED
    BY <1>1, <2>1 DEF Leave, RunnersUp, KindsUpTo
<1>2. ASSUME UNCHANGED <<agent, up, probe>> PROVE RunnersUp'
  BY <1>2 DEF RunnersUp, KindsUpTo
<1>3. ASSUME up' = 0, probe' = NoProbe PROVE RunnersUp'
  <2>1. Len(agent') \in Nat
    BY DEF AgentBuilt
  <2> QED
    BY <1>3, <2>1 DEF RunnersUp, KindsUpTo, NoProbe
<1>4. CASE Dispatch \/ ResolveContainer \/ DiscoverBinary \/ prepare_process_seeds
  BY <1>1, <1>2, <1>4 DEF Dispatch, ResolveContainer, DiscoverBinary, prepare_process_seeds
<1>5. CASE BuildSsl \/ BuildStdio \/ BuildProcess \/ BuildMemwrite \/ BuildSystem
  BY <1>1, <1>3, <1>5 DEF BuildSsl, BuildStdio, BuildProcess, BuildMemwrite, BuildSystem, Booted
<1>6. CASE BuildSinks \/ StartServer \/ Drive
  BY <1>1, <1>2, <1>6 DEF BuildSinks, StartServer, Drive
<1>7. CASE StartRunner
  <2> DEFINE kind == agent[up + 1].kind
  <2>1. CASE Leave("start")
    BY <1>1, <2>1
  <2>2. CASE /\ up' = up + 1 /\ agent' = agent
             /\ probe' = IF kind \in Probes THEN [probe EXCEPT ![kind] = "running"] ELSE probe
    <3>1. up < Len(agent) /\ up \in Nat /\ Len(agent) \in Nat
      BY <1>7 DEF StartRunner, RunnersUp, AgentBuilt
    <3>2. up' \in 0..Len(agent')
      BY <2>2, <3>1
    <3>3. KindsUpTo(up)' = KindsUpTo(up) \cup {kind}
      BY <2>2, <3>1 DEF KindsUpTo
    <3>4. \A k \in Probes : probe'[k] = IF k = kind THEN "running" ELSE probe[k]
      BY <2>2 DEF Booted
    <3> QED
      BY <3>2, <3>3, <3>4 DEF RunnersUp
  <2> QED
    BY <1>7, <2>1, <2>2 DEF StartRunner
<1>8. CASE ProbeEnds
  <2>1. PICK k \in Running, how \in {"failed", "over"} :
          probe' = [probe EXCEPT ![k] = how] /\ UNCHANGED <<agent, up>>
    BY <1>8 DEF ProbeEnds
  <2>2. \A l \in Probes : probe'[l] # "none" <=> probe[l] # "none"
    BY <2>1 DEF Booted, Running
  <2> QED
    BY <2>1, <2>2 DEF RunnersUp, KindsUpTo
<1>9. CASE SeeFailure \/ StreamEnds \/ Shutdown \/ KillUnit
  BY <1>1, <1>9 DEF SeeFailure, StreamEnds, Shutdown, KillUnit
<1>10. CASE Calm \/ StopUnit \/ UnitEnds
  BY <1>2, <1>10 DEF Calm, StopUnit, UnitEnds
<1>11. CASE Restart
  BY <1>3, <1>11 DEF Restart
<1>12. CASE UNCHANGED vars
  BY <1>2, <1>12 DEF vars
<1> QED
  BY <1>4, <1>5, <1>6, <1>7, <1>8, <1>9, <1>10, <1>11, <1>12 DEF Next, Start

LEMMA ConfiguredStep ==
  WorldTyped /\ CfgTyped /\ Configured /\ [Next]_vars => Configured'
<1> SUFFICES ASSUME WorldTyped, CfgTyped, Configured, [Next]_vars PROVE Configured'
  OBVIOUS
<1>0. UNCHANGED <<caller, opts>>
  BY WorldKept DEF world
<1> USE <1>0 DEF Pass
<1> DEFINE F == FromRecord(opts)
<1>1. F \in TraceConfig /\ FromRecord(opts)' = F
  BY FromRecordTyped DEF WorldTyped
<1> HIDE DEF F
<1>2. ASSUME NEW reason, Leave(reason) PROVE Configured'
  BY <1>2 DEF Leave, Configured
<1>3. ASSUME cfg' = cfg, pc' \notin {"cli", "exec", "exited"} => pc \notin {"cli", "exec", "exited"}
      PROVE  Configured'
  BY <1>1, <1>3 DEF Configured, F
<1>4. CASE Dispatch
  <2>1. CASE pc' = "resolve"
    <3>1. cfg' = F /\ opts.target # "none"
      BY <1>4, <2>1 DEF Dispatch, Leave, F
    <3>2. F = [F EXCEPT !.binary = F.binary]
      BY <1>1 DEF TraceConfig
    <3> QED
      BY <1>1, <3>1, <3>2 DEF Configured
  <2>2. CASE pc' # "resolve"
    BY <1>2, <1>4, <2>2 DEF Dispatch, Configured
  <2> QED
    BY <2>1, <2>2
<1>5. CASE ResolveContainer \/ DiscoverBinary
  <2>1. CASE cfg' = [cfg EXCEPT !.binary = "host"] /\ pc \in {"resolve", "discover"}
    <3>1. caller # "agentsight" => opts.target # "none" /\ cfg = [F EXCEPT !.binary = cfg.binary]
      BY <2>1 DEF Configured, F
    <3>2. caller # "agentsight" => cfg' = [F EXCEPT !.binary = "host"] /\ cfg'.binary = "host"
      BY <1>1, <2>1, <3>1 DEF TraceConfig
    <3> QED
      BY <1>1, <3>1, <3>2 DEF Configured
  <2> QED
    BY <1>2, <1>3, <1>5, <2>1 DEF ResolveContainer, DiscoverBinary
<1>6. CASE prepare_process_seeds \/ BuildSsl \/ BuildStdio \/ BuildProcess \/ BuildMemwrite
  BY <1>2, <1>3, <1>6
     DEF prepare_process_seeds, BuildSsl, BuildStdio, BuildProcess, BuildMemwrite
<1>7. CASE BuildSystem \/ BuildSinks \/ StartServer \/ StartRunner \/ Drive
  BY <1>2, <1>3, <1>7 DEF BuildSystem, BuildSinks, StartServer, StartRunner, Drive
<1>8. CASE ProbeEnds \/ SeeFailure \/ StreamEnds \/ Shutdown
  BY <1>2, <1>3, <1>8 DEF ProbeEnds, SeeFailure, StreamEnds, Shutdown
<1>9. CASE Calm \/ StopUnit \/ KillUnit \/ UnitEnds
  BY <1>2, <1>3, <1>9 DEF Calm, StopUnit, KillUnit, UnitEnds
<1>10. CASE Restart
  BY <1>10 DEF Restart, Configured
<1>11. CASE UNCHANGED vars
  BY <1>3, <1>11 DEF vars
<1> QED
  BY <1>4, <1>5, <1>6, <1>7, <1>8, <1>9, <1>10, <1>11 DEF Next, Start

-----------------------------------------------------------------------------
LEMMA AskedStep == WorldTyped /\ CfgTyped /\ PathAsked /\ [Next]_vars => PathAsked'
<1> SUFFICES ASSUME WorldTyped, CfgTyped, PathAsked, [Next]_vars PROVE PathAsked'
  OBVIOUS
<1>0. UNCHANGED <<caller, opts, wrong>>
  BY WorldKept DEF world
<1> USE <1>0 DEF Pass, PathAsked, life
<1>1. ASSUME NEW reason, Leave(reason) PROVE PathAsked'
  BY <1>1 DEF Leave
<1>2. CASE Dispatch
  <2>1. opts.mem.asked => "memwrite" \in FromRecord(opts).monitors
    BY DEF FromRecord
  <2> QED
    BY <1>1, <1>2, <2>1 DEF Dispatch
<1>3. CASE ResolveContainer \/ DiscoverBinary
  <2>1. CASE cfg' = cfg
    BY <1>1, <1>3, <2>1 DEF ResolveContainer, DiscoverBinary
  <2>2. CASE cfg' = [cfg EXCEPT !.binary = "host"]
    <3>1. cfg \in TraceConfig => cfg'.monitors = cfg.monitors
      BY <2>2 DEF TraceConfig
    <3> QED
      BY <1>1, <1>3, <2>2, <3>1 DEF ResolveContainer, DiscoverBinary, CfgTyped
  <2>3. CASE Leave("container")
    BY <1>1, <2>3
  <2> QED
    BY <1>3, <2>1, <2>2, <2>3 DEF ResolveContainer, DiscoverBinary
<1>4. CASE prepare_process_seeds \/ BuildSsl \/ BuildStdio \/ BuildProcess \/ BuildMemwrite
  BY <1>1, <1>4
     DEF prepare_process_seeds, BuildSsl, BuildStdio, BuildProcess, BuildMemwrite
<1>5. CASE BuildSystem \/ BuildSinks \/ StartServer \/ StartRunner \/ Drive
  BY <1>1, <1>5 DEF BuildSystem, BuildSinks, StartServer, StartRunner, Drive
<1>6. CASE ProbeEnds \/ SeeFailure \/ StreamEnds \/ Shutdown
  BY <1>1, <1>6 DEF ProbeEnds, SeeFailure, StreamEnds, Shutdown
<1>7. CASE Calm \/ StopUnit \/ KillUnit \/ UnitEnds \/ Restart
  BY <1>1, <1>7 DEF Calm, StopUnit, KillUnit, UnitEnds, Restart
<1>8. CASE UNCHANGED vars
  BY <1>8 DEF vars
<1> QED
  BY <1>2, <1>3, <1>4, <1>5, <1>6, <1>7, <1>8 DEF Next, Start

LEMMA StageStep == StageSound /\ [Next]_vars => StageSound'
<1> SUFFICES ASSUME StageSound, [Next]_vars PROVE StageSound'
  OBVIOUS
<1>0. wrong' = wrong
  BY WorldKept DEF world
<1> USE <1>0 DEF Pass, StageSound
<1>1. ASSUME NEW reason, Leave(reason) PROVE StageSound'
  BY <1>1 DEF Leave
<1>2. CASE Dispatch \/ ResolveContainer \/ DiscoverBinary \/ prepare_process_seeds
  BY <1>1, <1>2 DEF Dispatch, ResolveContainer, DiscoverBinary, prepare_process_seeds
<1>3. CASE BuildSsl \/ BuildStdio \/ BuildProcess
  BY <1>1, <1>3 DEF BuildSsl, BuildStdio, BuildProcess
<1>4. CASE BuildMemwrite \/ BuildSystem \/ BuildSinks
  BY <1>1, <1>4 DEF BuildMemwrite, BuildSystem, BuildSinks
<1>5. CASE StartServer \/ StartRunner \/ Drive
  BY <1>1, <1>5 DEF StartServer, StartRunner, Drive
<1>6. CASE ProbeEnds \/ SeeFailure \/ StreamEnds \/ Shutdown
  BY <1>1, <1>6 DEF ProbeEnds, SeeFailure, StreamEnds, Shutdown
<1>7. CASE Calm \/ StopUnit \/ KillUnit \/ UnitEnds \/ Restart
  BY <1>1, <1>7 DEF Calm, StopUnit, KillUnit, UnitEnds, Restart
<1>8. CASE UNCHANGED vars
  BY <1>8 DEF vars
<1> QED
  BY <1>2, <1>3, <1>4, <1>5, <1>6, <1>7, <1>8 DEF Next, Start

\* Who starts the runners has all of the configuration behind him that is looked at
\* before.
LEMMA AllSound ==
  ASSUME WorldTyped, StageSound, pc \in {"starting", "driving"}
  PROVE  wrong \subseteq {"probe_path", "base"} /\ ~OptionError(cfg)
  BY DEF WorldTyped, StageSound, OptionError, Mistakes

LEMMA ShownStep ==
  WorldTyped /\ Booted /\ StageSound /\ StageSound' /\ WorldTyped' /\ ShownSound /\ [Next]_vars
    => ShownSound'
<1> SUFFICES ASSUME WorldTyped, Booted, StageSound, StageSound', WorldTyped', ShownSound, [Next]_vars
             PROVE  ShownSound'
  OBVIOUS
<1>0. UNCHANGED <<wrong, root>>
  BY WorldKept DEF world
<1> DEFINE Sound(c) == wrong \subseteq {"probe_path", "base"} /\ ~OptionError(c)
<1>s. pc' \in {"starting", "driving"} => Sound(cfg')
  BY <1>0 DEF WorldTyped, StageSound, OptionError, Mistakes
<1>k. ASSUME cfg' = cfg PROVE Sound(cfg') <=> Sound(cfg)
  BY <1>k
<1>p. "memwrite" \in Probes
  BY DEF Probes, Monitors
<1>d. /\ pc = "driving" => up = Len(agent)
      /\ exposed => Sound(cfg)
      /\ root /\ probe["memwrite"] # "none" => "probe_path" \notin wrong
  BY DEF ShownSound
<1>q. ASSUME pc' = "driving" => up' = Len(agent'),
             exposed' => Sound(cfg'),
             root /\ probe'["memwrite"] # "none" => "probe_path" \notin wrong
      PROVE  ShownSound'
  BY <1>0, <1>q DEF ShownSound, OptionError
<1> HIDE DEF Sound
<1> USE DEF Pass, boot
<1>1. ASSUME NEW reason, Leave(reason) PROVE ShownSound'
  <2>1. probe'["memwrite"] # "none" <=> probe["memwrite"] # "none"
    BY <1>1, <1>p, DroppedTyped, Zenon DEF Leave, Booted
  <2> QED
    BY <1>1, <1>d, <1>q, <1>k, <2>1 DEF Leave
<1>2. ASSUME ~exposed', probe' = NoProbe, pc' # "driving" PROVE ShownSound'
  BY <1>2, <1>p, <1>q DEF NoProbe
<1>3. CASE Dispatch \/ ResolveContainer \/ DiscoverBinary \/ prepare_process_seeds
  BY <1>1, <1>2, <1>3 DEF Dispatch, ResolveContainer, DiscoverBinary, prepare_process_seeds, Booted
<1>4. CASE BuildSsl \/ BuildStdio \/ BuildProcess
  BY <1>1, <1>2, <1>4 DEF BuildSsl, BuildStdio, BuildProcess, Booted
<1>5. CASE BuildMemwrite \/ BuildSystem \/ BuildSinks
  BY <1>1, <1>2, <1>5 DEF BuildMemwrite, BuildSystem, BuildSinks, Booted
<1>6. CASE StartServer
  <2>1. CASE pc' = "starting" /\ probe' = probe /\ probe = NoProbe
    BY <1>p, <1>q, <1>s, <2>1 DEF NoProbe
  <2> QED
    BY <1>1, <1>6, <2>1 DEF StartServer, Booted
<1>7. CASE StartRunner
  <2> DEFINE kind == agent[up + 1].kind
  <2>1. CASE Leave("start")
    BY <1>1, <2>1
  <2>2. CASE /\ root /\ kind = "memwrite" => "probe_path" \notin wrong
             /\ probe' = IF kind \in Probes THEN [probe EXCEPT ![kind] = "running"] ELSE probe
             /\ pc = "starting" /\ pc' = pc
    <3>1. root /\ probe'["memwrite"] # "none" => "probe_path" \notin wrong
      BY <1>d, <2>2, <1>p DEF Booted
    <3> QED
      BY <1>q, <1>s, <2>2, <3>1
  <2> QED
    BY <1>7, <2>1, <2>2 DEF StartRunner
<1>8. CASE Drive
  BY <1>8, <1>d, <1>q, <1>s DEF Drive
<1>9. CASE ProbeEnds
  <2>1. PICK k \in Running, how \in {"failed", "over"} :
          /\ probe' = [probe EXCEPT ![k] = how]
          /\ UNCHANGED <<world, life, pc, cfg, agent, up, server, cause, exposed>>
    BY <1>9 DEF ProbeEnds
  <2>2. probe'["memwrite"] # "none" => probe["memwrite"] # "none"
    BY <2>1, <1>p DEF Booted, Running
  <2> QED
    BY <1>d, <1>q, <1>k, <2>1, <2>2
<1>10. CASE SeeFailure \/ StreamEnds \/ Shutdown \/ KillUnit
  BY <1>1, <1>10 DEF SeeFailure, StreamEnds, Shutdown, KillUnit
<1>11. CASE Calm \/ StopUnit \/ UnitEnds
  BY <1>d, <1>q, <1>k, <1>11 DEF Calm, StopUnit, UnitEnds
<1>12. CASE Restart
  BY <1>2, <1>12 DEF Restart
<1>13. CASE UNCHANGED vars
  BY <1>d, <1>q, <1>k, <1>13 DEF vars
<1> QED
  BY <1>3, <1>4, <1>5, <1>6, <1>7, <1>8, <1>9, <1>10, <1>11, <1>12, <1>13 DEF Next, Start

LEMMA Invariant == Spec => []IInv
<1>1. Init => IInv
  BY Starts
<1>2. IInv /\ [Next]_vars => IInv'
  BY WorldStep, CfgStep, BootStep, AgentStep, RunnersStep, ConfiguredStep, AskedStep, StageStep,
     ShownStep
     DEF IInv
<1> QED
  BY <1>1, <1>2, PTL DEF Spec

-----------------------------------------------------------------------------
\* The agent has the configured runners, each once, in the order of the code, and a
\* probe has a state once its runner is started, in every start of the process.
THEOREM TypeCorrect == Spec => []TypeOK
<1>1. IInv => TypeOK
  <2> SUFFICES ASSUME IInv PROVE TypeOK
    OBVIOUS
  <2>1. WorldTyped /\ CfgTyped /\ Booted /\ AgentBuilt /\ RunnersUp
    BY DEF IInv
  <2>2. cfg \in TraceConfig \cup {<<>>}
    BY <2>1 DEF CfgTyped
  <2>3. \A i \in 1..Len(agent) :
          /\ agent[i].kind \in Monitors
          /\ \A j \in 1..(i - 1) : Turn(agent[j].kind) < Turn(agent[i].kind)
    <3>1. \A r \in Wanted(cfg) : r.kind \in Monitors
      BY DEF Wanted, Monitors
    <3> QED
      BY <2>1, <3>1 DEF AgentBuilt
  <2>4. pc \in {"starting", "driving"} => KindsUpTo(Len(agent)) = cfg.monitors
    <3> SUFFICES ASSUME pc \in {"starting", "driving"} PROVE KindsUpTo(Len(agent)) = cfg.monitors
      OBVIOUS
    <3>1. cfg.monitors \subseteq Monitors
      BY <2>1 DEF CfgTyped, TraceConfig
    <3>2. Turns = 5
      BY DEF Turns
    <3>3. KindsUpTo(Len(agent)) = {k \in Monitors : Turn(k) <= 5 /\ k \in cfg.monitors}
      BY <2>1, <3>2 DEF AgentBuilt
    <3>4. \A k \in Monitors : Turn(k) <= 5
      BY Turned
    <3> QED
      BY <3>1, <3>3, <3>4
  <2> QED
    BY <2>1, <2>2, <2>3, <2>4, Zenon DEF WorldTyped, Booted, RunnersUp, TypeOK
<1> QED
  BY <1>1, Invariant, PTL

\* With whatever mistakes in whichever configuration, nothing others could see is up
\* before all of it has been found good but the path of the probe and the base of the
\* alerts; who drives, and is root, has found the path good too.
THEOREM ConfigErrorIsEarlyHolds == Spec => []ConfigErrorIsEarly
<1>1. IInv => ConfigErrorIsEarly
  <2> SUFFICES ASSUME IInv PROVE ConfigErrorIsEarly
    OBVIOUS
  <2>1. exposed => wrong \subseteq {"probe_path", "base"} /\ ~OptionError(cfg)
    BY DEF IInv, ShownSound
  <2>2. ASSUME pc = "driving"
        PROVE  wrong \subseteq {"base"} \cup (IF root THEN {} ELSE {"probe_path"})
    <3>1. wrong \subseteq {"probe_path", "base"}
      BY <2>2, AllSound DEF IInv
    <3>2. ASSUME root, "probe_path" \in wrong PROVE FALSE
      <4>1. "memwrite" \in cfg.monitors /\ "memwrite" \in Monitors /\ "memwrite" \in Probes
        BY <2>2, <3>2 DEF IInv, PathAsked, Monitors, Probes
      <4>2. "memwrite" \in KindsUpTo(Len(agent))
        <5>1. Turns = 5
          BY <2>2 DEF Turns
        <5> QED
          BY <2>2, <4>1, <5>1, Turned DEF IInv, AgentBuilt
      <4>3. probe["memwrite"] # "none"
        BY <2>2, <4>1, <4>2 DEF IInv, RunnersUp, ShownSound
      <4> QED
        BY <3>2, <4>3 DEF IInv, ShownSound
    <3> QED
      BY <3>1, <3>2
  <2> QED
    BY <2>1, <2>2 DEF ConfigErrorIsEarly
<1> QED
  BY <1>1, Invariant, PTL

-----------------------------------------------------------------------------
\* An event as the analyzers leave it, one after the other.
Raw == [time |-> "boot", poison |-> FALSE, alerts |-> {}]
Dated == [time |-> "epoch", poison |-> FALSE, alerts |-> {}]
Found(alerts) == [time |-> "epoch", poison |-> TRUE, alerts |-> alerts]

LEMMA Analyses ==
  ASSUME NEW channels
  PROVE  /\ Analyzed(Raw, "TimestampNormalizer", channels) = Dated
         /\ Analyzed(Dated, "PoisonAnalyzer", channels) = Found({})
         /\ Analyzed(Found({}), "AlertSink", channels) = Found(Told(channels) \X {"epoch"})
<1>1. Analyzed(Raw, "TimestampNormalizer", channels) = Dated
  BY DEF Analyzed, Raw, Dated
<1>2. Analyzed(Dated, "PoisonAnalyzer", channels) = Found({})
  BY DEF Analyzed, Dated, Found
<1>3. Analyzed(Found({}), "AlertSink", channels) = Found(Told(channels) \X {"epoch"})
  BY DEF Analyzed, Found
<1> QED
  BY <1>1, <1>2, <1>3

\* What Through counts up to.
Counts(g, chain, channels) ==
  g = [n \in 0..Len(chain) |-> IF n = 0 THEN Raw ELSE Analyzed(g[n - 1], chain[n], channels)]

\* Through goes analyzer by analyzer, if there is a way to.
LEMMA ThroughCounts ==
  ASSUME NEW chain, NEW channels, NEW h, Counts(h, chain, channels)
  PROVE  \E g : Through(chain, channels) = g[Len(chain)] /\ Counts(g, chain, channels)
<1> DEFINE P(g) == g = [n \in 0..Len(chain) |->
                          IF n = 0 THEN Raw ELSE Analyzed(g[n - 1], chain[n], channels)]
           upTo == CHOOSE g : P(g)
<1>1. Through(chain, channels) = upTo[Len(chain)]
  BY DEF Through, Raw
<1>2. P(upTo)
  <2>1. P(h)
    BY DEF Counts
  <2> HIDE DEF P
  <2> QED
    BY <2>1, Zenon
<1>3. Counts(upTo, chain, channels)
  <2> HIDE DEF upTo
  <2> QED
    BY <1>2 DEF Counts
<1> HIDE DEF upTo
<1> QED
  BY <1>1, <1>3

\* The analyzers of the memwrite runner, in their order, make of a signature a finding
\* that is told to the channels, if there are any.
LEMMA ChainTells ==
  ASSUME NEW c
  PROVE  Through(MemwriteChain(c), c.mem.channels) = Found(Told(c.mem.channels) \X {"epoch"})
<1> DEFINE ch == c.mem.channels
           s == MemwriteChain(c)
           f == Found(Told(ch) \X {"epoch"})
           h == [n \in 0..Len(s) |-> IF n = 0 THEN Raw
                                     ELSE IF n = 1 THEN Dated
                                     ELSE IF n = 2 THEN Found({}) ELSE f]
<1>1. /\ s[1] = "TimestampNormalizer" /\ s[2] = "PoisonAnalyzer"
      /\ \/ Len(s) = 2 /\ ch = {}
         \/ Len(s) = 3 /\ s[3] = "AlertSink"
  BY DEF MemwriteChain
<1>2. /\ Analyzed(Raw, s[1], ch) = Dated
      /\ Analyzed(Dated, s[2], ch) = Found({})
      /\ Len(s) = 3 => Analyzed(Found({}), s[3], ch) = f
      /\ Len(s) = 2 => f = Found({})
  <2>1. ch = {} => Told(ch) \X {"epoch"} = {}
    BY DEF Told
  <2> QED
    BY <1>1, <2>1, Analyses
<1> HIDE DEF s, f, ch
<1>3. Counts(h, s, ch)
  <2>1. \A n \in 0..Len(s) : n = 0 \/ n = 1 \/ n = 2 \/ (n = 3 /\ Len(s) = 3)
    <3>1. CASE Len(s) = 2
      BY <3>1
    <3>2. CASE Len(s) = 3
      BY <3>2
    <3> QED
      BY <1>1, <3>1, <3>2
  <2>2. /\ h[0] = Raw /\ h[1] = Dated /\ h[2] = Found({})
        /\ Len(s) = 3 => h[3] = f
    BY <1>1
  <2>3. \A n \in 0..Len(s) : h[n] = IF n = 0 THEN Raw ELSE Analyzed(h[n - 1], s[n], ch)
    BY <1>2, <2>1, <2>2
  <2>4. h = [n \in 0..Len(s) |-> h[n]]
    OBVIOUS
  <2> HIDE DEF h
  <2> QED
    BY <2>3, <2>4 DEF Counts
<1> HIDE DEF h
<1>4. PICK g : Through(s, ch) = g[Len(s)] /\ Counts(g, s, ch)
  BY <1>3, ThroughCounts, Zenon
<1>5. g[0] = Raw /\ \A n \in 1..Len(s) : g[n] = Analyzed(g[n - 1], s[n], ch)
  <2>1. Len(s) \in Nat
    BY <1>1
  <2> QED
    BY <1>4, <2>1 DEF Counts
<1>6. g[1] = Dated /\ g[2] = Found({})
  BY <1>1, <1>2, <1>5
<1>7. Len(s) = 3 => g[3] = f
  BY <1>1, <1>2, <1>5, <1>6
<1>8. Through(s, ch) = f
  BY <1>1, <1>2, <1>4, <1>6, <1>7
<1> QED
  BY <1>8 DEF s, f, ch

\* What a driving `record` has of its options.
LEMMA RecordDrives ==
  ASSUME IInv, pc = "driving", caller # "agentsight"
  PROVE  /\ cfg \in TraceConfig /\ opts \in CommandLine /\ opts.target # "none"
         /\ cfg = [FromRecord(opts) EXCEPT !.binary = cfg.binary]
         /\ agent = <<>> \/ agent \in Seq(Wanted(cfg))
         /\ KindsUpTo(Len(agent)) = cfg.monitors
<1>1. cfg \in TraceConfig
  BY DEF IInv, CfgTyped
<1>2. KindsUpTo(Len(agent)) = cfg.monitors
  <2>1. Turns = 5
    BY DEF Turns
  <2>2. KindsUpTo(Len(agent)) = {k \in Monitors : Turn(k) <= 5 /\ k \in cfg.monitors}
    BY <2>1 DEF IInv, AgentBuilt
  <2>3. cfg.monitors \subseteq Monitors
    BY <1>1 DEF TraceConfig
  <2>4. \A k \in Monitors : Turn(k) <= 5
    BY Turned
  <2> QED
    BY <2>2, <2>3, <2>4
<1> QED
  BY <1>1, <1>2, Zenon DEF IInv, WorldTyped, AgentBuilt, Configured

\* A `record` that was asked to watch the stores and is driving has one memwrite runner,
\* whose analyzers find a signature and tell exactly the channels that were given, or the
\* log alone, with the time of the epoch; one that was not asked has none.
THEOREM AlertsWiredHolds == Spec => []AlertsWired
<1>1. IInv => AlertsWired
  <2> SUFFICES ASSUME IInv, pc = "driving", caller # "agentsight" PROVE AlertsWired
    BY DEF AlertsWired
  <2> DEFINE memwrite == {i \in 1..Len(agent) : agent[i].kind = "memwrite"}
  <2>1. /\ cfg \in TraceConfig /\ opts \in CommandLine
        /\ cfg = [FromRecord(opts) EXCEPT !.binary = cfg.binary]
        /\ agent = <<>> \/ agent \in Seq(Wanted(cfg))
        /\ KindsUpTo(Len(agent)) = cfg.monitors
    BY RecordDrives
  <2>2. cfg.mem = opts.mem /\ cfg.monitors = FromRecord(opts).monitors
    BY <2>1 DEF FromRecord
  <2>3. "memwrite" \in KindsUpTo(Len(agent)) <=> opts.mem.asked
    BY <2>1, <2>2 DEF FromRecord, for_record
  <2>4. CASE opts.mem.asked
    <3>1. PICK i \in 1..Len(agent) : agent[i].kind = "memwrite"
      BY <2>3, <2>4 DEF KindsUpTo
    <3>2. memwrite = {i}
      <4>1. Len(agent) \in Nat
        BY <2>1
      <4>2. \A j, k \in 1..Len(agent) : j < k => j \in 1..(k - 1)
        BY <4>1
      <4>3. \A j, k \in memwrite : ~(j < k)
        BY <4>2, Turned DEF IInv, AgentBuilt
      <4> QED
        BY <3>1, <4>1, <4>3
    <3>3. agent[i] \in Wanted(cfg)
      BY <2>1, <3>1
    <3>4. agent[i].chain = MemwriteChain(cfg)
      BY <3>1, <3>3 DEF Wanted
    <3>5. Through(agent[i].chain, cfg.mem.channels) = Found(Told(opts.mem.channels) \X {"epoch"})
      BY <2>1, <2>2, <3>4, ChainTells
    <3> QED
      BY <2>4, <3>2, <3>5, Zenon DEF AlertsWired, Found, Told
  <2>5. CASE ~opts.mem.asked
    <3>1. memwrite = {}
      BY <2>3, <2>5 DEF KindsUpTo
    <3> QED
      BY <2>5, <3>1, Zenon DEF AlertsWired
  <2> QED
    BY <2>4, <2>5, Zenon
<1> QED
  BY <1>1, Invariant, PTL

\* A driving `record` sees its target's traffic: sslsniff is given the path of a binary
\* that embeds OpenSSL and then no name, and every runner that takes a filter has one.
THEOREM TrafficSeenHolds == Spec => []TrafficSeen
<1>1. IInv => TrafficSeen
  <2> SUFFICES ASSUME IInv, pc = "driving", caller # "agentsight", NEW i \in 1..Len(agent)
               PROVE  /\ agent[i].kind = "ssl" /\ opts.target \in {"comm", "pid"} =>
                           SeesTarget(agent[i].args) \/ (embeds /\ cfg.binary = "none")
                      /\ agent[i].kind # "memwrite" => agent[i].args # {}
    BY Zenon DEF TrafficSeen
  <2>1. /\ opts \in CommandLine /\ opts.target # "none"
        /\ cfg = [FromRecord(opts) EXCEPT !.binary = cfg.binary]
        /\ agent = <<>> \/ agent \in Seq(Wanted(cfg))
    BY RecordDrives
  <2>2. agent[i] \in Wanted(cfg)
    BY <2>1
  <2>3. ~cfg.session /\ (cfg.pid \/ cfg.comm # "none")
    <3>1. opts.target \in {"pid", "comm", "comms"}
      BY <2>1 DEF CommandLine
    <3>2. cfg.session = FALSE /\ cfg.pid = (opts.target = "pid")
      BY <2>1, Zenon DEF FromRecord
    <3>3. opts.target # "pid" => cfg.comm # "none"
      BY <2>1, <3>1, Zenon DEF FromRecord
    <3> QED
      BY <3>2, <3>3, Zenon
  <2>4. /\ "-p" \in build_ssl_args(cfg) <=> cfg.pid
        /\ "-c" \in build_ssl_args(cfg) <=> cfg.comm # "none" /\ cfg.binary = "none"
        /\ "--binary-path" \in build_ssl_args(cfg) <=> cfg.binary # "none"
    BY <2>3 DEF build_ssl_args, Flag
  <2>5. build_ssl_args(cfg) # {} /\ build_process_args(cfg) # {} /\ build_stdio_args(cfg) # {}
    BY <2>3, <2>4 DEF build_process_args, build_stdio_args, Flag
  <2>6. SeesTarget(build_ssl_args(cfg)) \/ (embeds /\ cfg.binary = "none")
    BY <2>4, Zenon DEF SeesTarget
  <2>7. /\ agent[i].kind = "ssl" => agent[i].args = build_ssl_args(cfg)
        /\ agent[i].kind # "memwrite" =>
             agent[i].args \in {build_ssl_args(cfg), build_process_args(cfg), build_stdio_args(cfg)}
    BY <2>2 DEF Wanted
  <2> QED
    BY <2>5, <2>6, <2>7
<1> QED
  BY <1>1, Invariant, PTL
=============================================================================
