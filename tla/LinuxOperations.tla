-------------------------- MODULE LinuxOperations ---------------------------
(***************************************************************************)
(* The Linux backend as the daemon sees it.  Module Daemon takes every     *)
(* operation of the tunnel for one step and assumes what it may leave      *)
(* behind; here those assumptions are stated of LinuxTunnel, whose         *)
(* operations are many steps with a failure at each.                       *)
(*                                                                         *)
(* History variables remember which operation is under way and what the    *)
(* daemon last saw: what was so when the last operation returned.          *)
(***************************************************************************)
EXTENDS LinuxTunnel

VARIABLES
    op,     \* the operation called last
    opened, \* the rules in force were made for a tunnel with a bypass
    seen    \* State and kernel when the last operation returned

histories == <<op, opened, seen>>

\* What the daemon finds when it has control.
Sight == [current |-> conn,
          armed |-> conn # NoServer /\ killswitch,
          routed |-> conn # NoServer /\ plan # {},
          exit |-> Exit,
          on |-> nft,
          bypass |-> opened]

InitOperations ==
    /\ Init
    /\ op = "none"
    /\ opened = FALSE
    /\ seen = Sight

\* The operation that a step calls.
Called ==
    CASE pc = "idle" /\ pc' = "up_bypass"  -> "up"
      [] pc = "idle" /\ pc' = "sw_remove"  -> "switch"
      [] pc = "idle" /\ pc' = "down_iface" -> "down"
      [] OTHER -> op

\* The rules are the tunnel's own from EngageKillswitch to Release.
Opened ==
    IF pc = "up_engage" /\ pc' = "up_create" /\ killswitch THEN plan # {}
    ELSE opened /\ nft'

NextOperations ==
    /\ Next
    /\ op' = Called
    /\ opened' = Opened
    /\ seen' = IF pc' = "idle" THEN Sight' ELSE seen

SpecOperations ==
    InitOperations /\ [][NextOperations]_<<vars, histories>>

\* The daemon's tunnel: what it last saw, under the configuration that the
\* tunnel was made for.
Seen == INSTANCE Daemon WITH
    Countries <- {}, Configs <- {}, Rtts <- {}, Scores <- {}, None <- NoServer,
    MaxLatency <- 0, Threshold <- 0,
    phase <- "running", cached <- FALSE, ranking <- {}, pending <- NoServer,
    dismissed <- NoServer, cooling <- FALSE, refused <- NoServer,
    restoring <- NoServer, tuning <- FALSE, probe <- NoServer,
    config <- [ks |-> killswitch, bypass |-> plan # {}],
    owns <- seen.current # NoServer,
    armed <- seen.armed,
    routed <- seen.routed,
    current <- seen.current,
    exit <- seen.exit,
    nft <- [on |-> seen.on, bypass |-> seen.bypass]

\* Every operation that returns, wherever it failed, leaves the tunnel in one
\* of the states that the daemon's requests assume of it: up and
\* switch_endpoint take effect or leave the traffic with the old server, the
\* new one or none; only up and down touch the kill switch, and only their own.
OutcomesAsAssumed ==
    [][Step /\ pc' = "idle" =>
         \/ op = "up" /\ (Seen!Established(target) \/ Seen!EstablishFailed(target))
         \/ op = "switch" /\ (Seen!Retargeted(target) \/ Seen!RetargetFailed(target))
         \/ op = "down" /\ (Seen!TornDown \/ Seen!TearDownFailed)]_<<vars, histories>>

\* Between two operations nothing changes where traffic comes out and whether
\* the kill switch is in force, whatever the servers of the fleet send.
QuietBetween == pc = "idle" => Exit = seen.exit /\ nft = seen.on
=============================================================================
