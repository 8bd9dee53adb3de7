------------------------------ MODULE MCRecord ------------------------------
(***************************************************************************)
(* Model-checking values for Record: the configurations of AgentSight's    *)
(* other commands.                                                         *)
(***************************************************************************)
EXTENDS Record

\* Any monitors, by name or not, with a container or not, with a server or not, and
\* memwrite among the monitors with or without its path.
MCOtherConfigs ==
  {c \in TraceConfig :
     /\ c.comm \in {"none", "one"} /\ c.binary # "host"
     /\ ~c.session /\ (c.comm = "none" \/ ~c.pid)
     /\ c.mem.asked = ("memwrite" \in c.monitors)
     /\ c.mem.path => c.mem.asked
     /\ ~c.mem.rules /\ c.mem.channels = {}}
=============================================================================
