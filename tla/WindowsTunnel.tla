--------------------------- MODULE WindowsTunnel ---------------------------
(***************************************************************************)
(* The Windows tunnel backend (vpnmgr-tunnel/src/windows.rs) with its      *)
(* bypass routes (bypass.rs) and its kill switch (killswitch_windows.rs),  *)
(* one step per program it runs.  WireGuard runs as a service of its own,  *)
(* which outlives the daemon and reads its configuration from a file; the  *)
(* kill switch is the machine's default outbound action, whose previous    *)
(* value is recorded in another file.  Every program may fail, the daemon  *)
(* may be killed between any two, and the machine may be restarted.  The   *)
(* system's own routes stay as they are here; LinuxTunnel has them change. *)
(***************************************************************************)
CONSTANTS
    Servers,     \* endpoints of the fleet
    NoServer,
    Torn,        \* a configuration file that is not one
    Bypassable,  \* destinations a bypass plan may name
    Lan,         \* private ranges
    Needed,      \* link-local, multicast, DHCP, and UDP to the WireGuard port
    Internet     \* any other destination

ASSUME ServerAssumption == NoServer \notin Servers /\ Torn \notin Servers
                           /\ NoServer # Torn
ASSUME DestAssumption == Internet \notin Bypassable \cup Lan \cup Needed

VARIABLES
    \* The WindowsTunnel value and the State that owns it
    pc,          \* next step of the operation in progress, or "idle"
    dropping,    \* down is being run by Drop
    target,      \* endpoint of the operation's TunnelSpec
    conn,        \* State.current
    installed,   \* WindowsTunnel.installed
    killswitch,  \* WindowsTunnel.killswitch.is_some()
    lan,         \* Killswitch.allow_lan
    plan,        \* the bypass plan handed over by the caller
    bypass,      \* Bypass.installed
    \* The WireGuard service
    service,     \* it is running
    peer,        \* endpoint of its peer
    strict,      \* it drops whatever does not enter the tunnel
    knows,       \* servers that know the port it listens on
    conf,        \* server that its configuration file names
    split,       \* that file has the default route in two halves
    \* Routes and firewall
    routes,      \* destinations that are routed specifically
    default,     \* default outbound action
    allow,       \* destinations that a rule of the group admits
    record,      \* the previous default action, on disk
    \* History
    foreign,     \* destinations the system itself had routed
    original,    \* default outbound action the system itself had
    stale,       \* destinations admitted by rules that could not be removed
    rotated,     \* the port was changed after the endpoint last was
    dirty        \* something was left behind that nothing takes away

object == <<installed, killswitch, lan, plan, bypass>>
wg == <<service, peer, strict, knows>>
files == <<conf, split>>
firewall == <<default, allow, record>>
history == <<foreign, original, stale, rotated, dirty>>
vars == <<pc, dropping, target, conn, object, wg, files, routes, firewall, history>>

Actions == {"Allow", "Block"}
Destinations == Bypassable \cup Lan \cup Needed \cup {Internet}

PcValues == {"idle",
             "up_clear", "up_bypass", "up_config", "up_install", "up_engage",
             "up_rollback",
             "sw_set", "sw_rotate", "sw_config",
             "down_service", "down_release", "down_bypass", "drop", "fields"}

ObjectTypes ==
    /\ pc \in PcValues
    /\ dropping \in BOOLEAN
    /\ target \in Servers \cup {NoServer}
    /\ conn \in Servers \cup {NoServer}
    /\ installed \in BOOLEAN
    /\ killswitch \in BOOLEAN
    /\ lan \in BOOLEAN
    /\ plan \in SUBSET Bypassable
    /\ bypass \in SUBSET Bypassable

ServiceTypes ==
    /\ service \in BOOLEAN
    /\ peer \in Servers \cup {NoServer}
    /\ strict \in BOOLEAN
    /\ knows \in SUBSET Servers
    /\ conf \in Servers \cup {NoServer, Torn}
    /\ split \in BOOLEAN

SystemTypes ==
    /\ routes \in SUBSET Bypassable
    /\ default \in Actions
    /\ allow \in SUBSET (Destinations \ {Internet})
    /\ record \in Actions \cup {"None"}

HistoryTypes ==
    /\ foreign \in SUBSET Bypassable
    /\ original \in Actions
    /\ stale \in SUBSET (Destinations \ {Internet})
    /\ rotated \in BOOLEAN
    /\ dirty \in BOOLEAN

TypeOK == ObjectTypes /\ ServiceTypes /\ SystemTypes /\ HistoryTypes

\* A machine without a tunnel, whatever its routes and its firewall profile.
Init ==
    /\ pc = "idle"
    /\ dropping = FALSE
    /\ target = NoServer
    /\ conn = NoServer
    /\ installed = FALSE
    /\ killswitch = FALSE
    /\ lan = FALSE
    /\ plan = {}
    /\ bypass = {}
    /\ service = FALSE
    /\ peer = NoServer
    /\ strict = FALSE
    /\ knows = {}
    /\ conf = NoServer
    /\ split = FALSE
    /\ foreign \in SUBSET Bypassable
    /\ routes = foreign
    /\ original \in Actions
    /\ default = original
    /\ allow = {}
    /\ record = "None"
    /\ stale = {}
    /\ rotated = FALSE
    /\ dirty = FALSE

-----------------------------------------------------------------------------
(* Programs shared by the operations                                       *)

\* `wireguard.exe /uninstalltunnelservice`.  It fails without a service.
RemoveService ==
    /\ service
    /\ service' = FALSE
    /\ peer' = NoServer
    /\ strict' = FALSE
    /\ knows' = {}

\* The service starts from its file.  Its port is new, so no server knows it.
\* WireGuard adds filters of its own unless the default route is split.
StartService(s, halves) ==
    /\ service' = TRUE
    /\ peer' = s
    /\ strict' = ~halves
    /\ knows' = {}

\* write_config.  The default route is split when something is bypassed.
WriteConfig_Whole ==
    /\ conf' = target
    /\ split' = FALSE

WriteConfig ==
    /\ conf' = target
    /\ split' = (bypass # {})

\* It fails before the file is opened, or after that.
WriteConfigFails ==
    /\ conf' \in {conf, Torn}
    /\ UNCHANGED split

\* What the script writes to the restore file: only if there is none, so that
\* a second engage does not record the first one's Block.
Recorded_Always == default
Recorded == IF record = "None" THEN default ELSE record

\* What the rules that engage adds admit besides the tunnel.
Accepted == Needed \cup (IF lan THEN Lan ELSE {}) \cup bypass

\* The rules of the group are removed, but for those that stay silently
\* (-ErrorAction SilentlyContinue), and others are added.
ReplaceRules(kept, added) ==
    /\ allow' = kept \cup added
    /\ stale' = kept

\* The script of engage: clear the group, record, add rules, block.
Engage ==
    \E kept \in SUBSET allow :
        /\ ReplaceRules(kept, Accepted)
        /\ record' = Recorded
        /\ default' = "Block"

\* The script stops at its first error.
EngageFails ==
    /\ \/ UNCHANGED <<allow, stale, record>>
       \/ \E kept \in SUBSET allow, added \in SUBSET Accepted :
            /\ ReplaceRules(kept, added)
            /\ record' \in {record, Recorded}
            /\ added # {} => record' = Recorded
    /\ UNCHANGED default

\* The record is applied without looking whether there is one.
Release_Unchecked ==
    \E kept \in SUBSET allow :
        /\ ReplaceRules(kept, {})
        /\ record' = "None"
        /\ default' = record

\* The script of release goes on after an error, so that the record is removed
\* even if Set-NetFirewallProfile could not apply it.  Without a record it
\* guesses.
Release ==
    \E kept \in SUBSET allow :
        /\ ReplaceRules(kept, {})
        /\ record' = "None"
        /\ \/ record # "None" /\ default' \in {record, default}
           \/ record = "None" /\ default' = "Allow"

\* PowerShell did not run, the guess could not be set, or the file not removed.
ReleaseFails ==
    /\ \/ UNCHANGED <<allow, stale, default>>
       \/ \E kept \in SUBSET allow :
            /\ ReplaceRules(kept, {})
            /\ \/ record = "None" /\ UNCHANGED default
               \/ record # "None" /\ default' \in {default, record}
    /\ UNCHANGED record

\* Bypass::remove forgets every route it recorded, including one that netsh
\* could not delete.
RemoveBypass ==
    \E stuck \in SUBSET bypass :
        /\ routes' = routes \ (bypass \ stuck)
        /\ bypass' = {}
        /\ dirty' = (dirty \/ stuck # {})

-----------------------------------------------------------------------------
(* up: leftovers, bypass, configuration, service, kill switch              *)

Up(s, ks, al, p) ==
    /\ pc = "idle"
    /\ conn = NoServer
    /\ pc' = "up_clear"
    /\ target' = s
    /\ killswitch' = ks
    /\ lan' = al
    /\ plan' = p
    /\ installed' = FALSE
    /\ bypass' = {}
    /\ UNCHANGED <<dropping, conn, wg, files, routes, firewall, history>>

\* TunnelSpec::validate refuses the specification.
UpRejected ==
    /\ pc = "up_clear"
    /\ pc' = "drop"
    /\ UNCHANGED <<dropping, target, conn, object, wg, files, routes, firewall, history>>

\* A service that a killed daemon left behind is removed, if possible.
ClearService ==
    /\ pc = "up_clear"
    /\ pc' = "up_bypass"
    /\ \/ RemoveService
       \/ UNCHANGED wg
    /\ UNCHANGED <<dropping, target, conn, object, files, routes, firewall, history>>

\* Bypass::install leaves a route that exists alone, and does not record it.
Unrouted == plan \ routes

InstallBypass ==
    /\ pc = "up_bypass"
    /\ pc' = "up_config"
    /\ \E added \in SUBSET Unrouted :
        /\ bypass' = added
        /\ routes' = routes \cup added
    /\ UNCHANGED <<dropping, target, conn, installed, killswitch, lan, plan, wg, files,
                   firewall, history>>

\* Nothing undoes what up has written when it fails from here on.
UpConfig ==
    /\ pc = "up_config"
    /\ \/ /\ pc' = "up_install"
          /\ WriteConfig
          /\ UNCHANGED dirty
       \/ /\ pc' = "drop"
          /\ WriteConfigFails
          /\ dirty' = TRUE
    /\ UNCHANGED <<dropping, target, conn, object, wg, routes, firewall, foreign,
                   original, stale, rotated>>

\* A service of the same name makes the installation fail.
InstallService ==
    /\ pc = "up_install"
    /\ \/ /\ ~service
          /\ StartService(target, split)
          /\ rotated' = TRUE
          /\ pc' = "up_engage"
          /\ UNCHANGED dirty
       \/ /\ pc' = "drop"
          /\ dirty' = TRUE
          /\ UNCHANGED <<wg, rotated>>
    /\ UNCHANGED <<dropping, target, conn, object, files, routes, firewall, foreign,
                   original, stale>>

\* A failure that is logged rather than returned.
EngageKillswitch_BestEffort ==
    /\ pc = "up_engage"
    /\ pc' = "idle"
    /\ conn' = target
    /\ installed' = TRUE
    /\ (killswitch /\ Engage) \/ UNCHANGED <<firewall, stale>>
    /\ UNCHANGED <<dropping, target, killswitch, lan, plan, bypass, wg, files, routes,
                   foreign, original, rotated, dirty>>

\* The kill switch is taken out of the tunnel and put back once it is engaged.
EngageKillswitch ==
    /\ pc = "up_engage"
    /\ \/ /\ killswitch
          /\ Engage
          /\ pc' = "idle"
          /\ conn' = target
          /\ installed' = TRUE
          /\ UNCHANGED killswitch
       \/ /\ ~killswitch
          /\ pc' = "idle"
          /\ conn' = target
          /\ installed' = TRUE
          /\ UNCHANGED <<killswitch, firewall, stale>>
       \/ /\ killswitch
          /\ EngageFails
          /\ killswitch' = FALSE
          /\ pc' = "up_rollback"
          /\ UNCHANGED <<conn, installed>>
    /\ UNCHANGED <<dropping, target, lan, plan, bypass, wg, files, routes, foreign,
                   original, rotated, dirty>>

\* engage undoes itself; the service stays, for installed is still FALSE.
RollBack ==
    /\ pc = "up_rollback"
    /\ pc' = "drop"
    /\ Release \/ ReleaseFails
    /\ dirty' = TRUE
    /\ UNCHANGED <<dropping, target, conn, object, wg, files, routes, foreign,
                   original, rotated>>

-----------------------------------------------------------------------------
(* switch_endpoint: endpoint, port, configuration                          *)

Switch(s) ==
    /\ pc = "idle"
    /\ conn # NoServer
    /\ pc' = "sw_set"
    /\ target' = s
    /\ UNCHANGED <<dropping, conn, object, wg, files, routes, firewall, history>>

\* `wg set peer endpoint`; or the specification is refused, or wg fails.
SetEndpoint ==
    /\ pc = "sw_set"
    /\ \/ /\ service
          /\ peer' = target
          /\ rotated' = FALSE
          /\ pc' = "sw_rotate"
       \/ /\ pc' = "idle"
          /\ UNCHANGED <<peer, rotated>>
    /\ UNCHANGED <<dropping, target, conn, object, service, strict, knows, files,
                   routes, firewall, foreign, original, stale, dirty>>

\* The port is not really a new one.
RotateListenPort_Same ==
    /\ pc = "sw_rotate"
    /\ pc' = "sw_config"
    /\ rotated' = TRUE
    /\ UNCHANGED <<dropping, target, conn, object, wg, files, routes, firewall,
                   foreign, original, stale, dirty>>

\* `wg set listen-port 0`.  A failure is only logged.
RotateListenPort ==
    /\ pc = "sw_rotate"
    /\ pc' = "sw_config"
    /\ \/ knows' = {} /\ rotated' = TRUE
       \/ UNCHANGED <<knows, rotated>>
    /\ UNCHANGED <<dropping, target, conn, object, service, peer, strict, files,
                   routes, firewall, foreign, original, stale, dirty>>

\* The tunnel moves and the file stays.
SwitchConfig_Skipped ==
    /\ pc = "sw_config"
    /\ pc' = "idle"
    /\ conn' = target
    /\ UNCHANGED <<dropping, target, object, wg, files, routes, firewall, history>>

SwitchConfig ==
    /\ pc = "sw_config"
    /\ pc' = "idle"
    /\ \/ WriteConfig /\ conn' = target
       \/ WriteConfigFails /\ UNCHANGED conn
    /\ UNCHANGED <<dropping, target, object, wg, routes, firewall, history>>

-----------------------------------------------------------------------------
(* down, which Drop calls again when it did not get to its end             *)

Down ==
    /\ pc = "idle"
    /\ conn # NoServer
    /\ pc' = "down_service"
    /\ UNCHANGED <<dropping, target, conn, object, wg, files, routes, firewall, history>>

\* Where an error of down returns to.
Failed == IF dropping THEN "fields" ELSE "drop"

DownService ==
    /\ pc = "down_service"
    /\ \/ /\ RemoveService
          /\ pc' = "down_release"
          /\ UNCHANGED dirty
       \/ /\ pc' = Failed
          /\ dirty' = TRUE
          /\ UNCHANGED wg
    /\ UNCHANGED <<dropping, target, conn, object, files, routes, firewall, foreign,
                   original, stale, rotated>>

\* The kill switch is forgotten by down.
DownRelease_Skipped ==
    /\ pc = "down_release"
    /\ pc' = "down_bypass"
    /\ UNCHANGED <<dropping, target, conn, object, wg, files, routes, firewall, history>>

DownRelease ==
    /\ pc = "down_release"
    /\ \/ /\ killswitch
          /\ Release
          /\ pc' = "down_bypass"
          /\ dirty' = (dirty \/ allow' # {})
       \/ /\ ~killswitch
          /\ pc' = "down_bypass"
          /\ UNCHANGED <<firewall, stale, dirty>>
       \/ /\ killswitch
          /\ ReleaseFails
          /\ pc' = Failed
          /\ dirty' = TRUE
    /\ UNCHANGED <<dropping, target, conn, object, wg, files, routes, foreign,
                   original, rotated>>

\* The routes, and the file with the keys.
DownBypass ==
    /\ pc = "down_bypass"
    /\ pc' = IF dropping THEN "fields" ELSE "drop"
    /\ installed' = FALSE
    /\ \E stuck \in SUBSET bypass, kept \in BOOLEAN :
        /\ routes' = routes \ (bypass \ stuck)
        /\ bypass' = {}
        /\ conf' = IF kept THEN conf ELSE NoServer
        /\ dirty' = (dirty \/ stuck # {} \/ kept)
    /\ UNCHANGED <<dropping, target, conn, killswitch, lan, plan, wg, split, firewall,
                   foreign, original, stale, rotated>>

\* disconnect forgets the connection whatever down returned, and drops the
\* tunnel; an up that failed drops it too.
Drop ==
    /\ pc = "drop"
    /\ conn' = NoServer
    /\ dropping' = installed
    /\ pc' = IF installed THEN "down_service" ELSE "fields"
    /\ UNCHANGED <<target, object, wg, files, routes, firewall, history>>

\* The fields are dropped last, and Bypass's own Drop removes its routes.
DropFields ==
    /\ pc = "fields"
    /\ pc' = "idle"
    /\ RemoveBypass
    /\ dropping' = FALSE
    /\ installed' = FALSE
    /\ killswitch' = FALSE
    /\ lan' = FALSE
    /\ plan' = {}
    /\ UNCHANGED <<target, conn, wg, files, firewall, foreign, original, stale, rotated>>

-----------------------------------------------------------------------------
(* What happens to the machine, and the fleet (external)                   *)

Forgotten ==
    /\ pc' = "idle"
    /\ dropping' = FALSE
    /\ conn' = NoServer
    /\ installed' = FALSE
    /\ killswitch' = FALSE
    /\ lan' = FALSE
    /\ plan' = {}
    /\ bypass' = {}
    /\ dirty' = TRUE

Running == pc # "idle" \/ conn # NoServer

\* The daemon is killed; the service, the routes and the firewall stay.
Crash ==
    /\ Running
    /\ Forgotten
    /\ UNCHANGED <<target, wg, files, routes, firewall, foreign, original, stale, rotated>>

\* The machine restarts: routes were only in memory, the firewall profile is
\* kept, and Windows starts the service from its file.
Reboot ==
    /\ Running \/ service
    /\ Forgotten
    /\ routes' = foreign
    /\ \/ service /\ conf \in Servers /\ StartService(conf, split)
       \/ service /\ conf \notin Servers /\ RemoveService
       \/ ~service /\ UNCHANGED wg
    /\ UNCHANGED <<target, files, firewall, foreign, original, stale, rotated>>

\* A packet reaches the endpoint, which learns the port.
Transmit ==
    /\ service
    /\ peer # NoServer
    /\ knows' = knows \cup {peer}
    /\ UNCHANGED <<pc, dropping, target, conn, object, service, peer, strict, files,
                   routes, firewall, history>>

\* A server that knows the port completes a handshake or sends data of its
\* session.  All share one key, so the endpoint follows.
Answer(s) ==
    /\ service
    /\ s \in knows
    /\ peer' = s
    /\ UNCHANGED <<pc, dropping, target, conn, object, service, strict, knows, files,
                   routes, firewall, history>>

-----------------------------------------------------------------------------

UpSteps == \/ UpRejected \/ ClearService \/ InstallBypass \/ UpConfig
           \/ InstallService \/ EngageKillswitch \/ RollBack
SwitchSteps == SetEndpoint \/ RotateListenPort \/ SwitchConfig
DownSteps == DownService \/ DownRelease \/ DownBypass \/ Drop \/ DropFields

Call == \/ \E s \in Servers, ks, al \in BOOLEAN, p \in SUBSET Bypassable :
                (al => ks) /\ Up(s, ks, al, p)
        \/ \E s \in Servers : Switch(s)
        \/ Down

Machine == Crash \/ Reboot \/ Transmit \/ \E s \in Servers : Answer(s)

Next == UpSteps \/ SwitchSteps \/ DownSteps \/ Call \/ Machine

Spec == Init /\ [][Next]_vars

-----------------------------------------------------------------------------
(* Where an application's packet goes                                      *)

\* Windows takes the longest matching prefix, so any specific route wins.
Tunnelled(d) == service /\ d \notin routes

Dropped(d) == ~Tunnelled(d) /\ (strict \/ (default = "Block" /\ d \notin allow))

InTheClear(d) == ~Tunnelled(d) /\ ~Dropped(d)

-----------------------------------------------------------------------------
(* Properties                                                              *)

\* up has returned Ok, and down has not gone past the kill switch.
Standing == /\ conn # NoServer
            /\ pc \in {"idle", "sw_set", "sw_rotate", "sw_config", "down_service",
                       "down_release"}

\* "What is allowed out" (killswitch_windows.rs).  From up's success until down
\* or a request lifts the kill switch, a packet leaves unencrypted only for
\* what the link and WireGuard need, for a private range if allow_lan is set,
\* for a destination of the user's bypass plan, and for one that a rule of an
\* earlier kill switch admits which the script tried and failed to remove:
\* through switches that fail half way, and in down after the service has gone.
KillswitchConfines ==
    Standing /\ killswitch
        => \A d \in Destinations :
             InTheClear(d) => \/ d \in Needed \cup (IF lan THEN Lan ELSE {}) \cup plan
                              \/ d \in stale

\* The record is the system's own default action, and there is one whenever
\* the default action is not the system's.
Truthful ==
    /\ record \in {"None", original}
    /\ record = "None" => default = original

\* release removed a record that it had not applied.
Unapplied == record # "None" /\ record' = "None" /\ default' # record

\* release found no record and took the system's action for Allow.
Guessed == record = "None" /\ default' = "Allow"

\* "a second engage cannot overwrite the real previous value with 'Block'"
\* (killswitch_windows.rs).  The record stops being truthful in no engage, first
\* or repeated, whole or failed, and in no crash or restart: only in a release
\* (down's, or the rollback of a failed engage) that went on after it could not
\* apply the record, or that had none and guessed wrong.  After the former the
\* next engage does record 'Block'.
RecordTruthful ==
    [][Truthful /\ ~Truthful'
        => pc \in {"down_release", "up_rollback"} /\ (Unapplied \/ Guessed)]_vars

\* "The config on disk is what the service replays after a restart, so it
\* has to move with the tunnel": between operations the file never names
\* another server than the one reported, whichever step of a switch failed.
ConfFollows == pc = "idle" /\ conn # NoServer => conf \in {conn, Torn}

\* What the bypass routes around the tunnel is dropped neither by WireGuard's
\* own filters nor by the kill switch, as long as the connection stands.
BypassPermitted ==
    pc = "idle" /\ conn # NoServer /\ (killswitch \/ default = "Allow")
        => \A d \in bypass : InTheClear(d)

\* A tunnel that is gone has left nothing behind, unless a clean-up program
\* failed, rules could not be removed, the daemon was killed, or up failed
\* after it wrote its file.
NoResidue ==
    pc = "idle" /\ conn = NoServer /\ ~dirty
        => /\ ~service
           /\ conf = NoServer
           /\ routes = foreign
           /\ allow = {}
           /\ record = "None"

\* "A fresh listen port makes its packets arrive nowhere": once a switch has
\* rotated the port and the endpoint is the server asked for, no packet of a
\* server that was left moves it any more.
EndpointSettled ==
    [][pc = "idle" /\ conn # NoServer /\ rotated /\ peer = conn
        => peer' \in {conn, NoServer}]_vars

\* The same sentence read for the whole switch: when the port has been
\* rotated, the server that was left has not taken the endpoint back.
RotationPrevents == pc = "sw_config" /\ rotated => peer = target

=============================================================================
