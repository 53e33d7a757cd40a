---------------------------- MODULE LinuxTunnel ----------------------------
(***************************************************************************)
(* The Linux tunnel backend (vpnmgr-tunnel/src/linux.rs) with its bypass   *)
(* routes (bypass.rs) and its kill switch (killswitch.rs), one step per    *)
(* call that changes the kernel.  Every call may fail; the daemon may be   *)
(* killed between any two of them; the servers of the fleet, which all     *)
(* present the same peer key, may answer at any moment; and the system may *)
(* add and take away routes while the tunnel is up.                        *)
(*                                                                         *)
(* Servers are WireGuard endpoints.  A destination is an address that a    *)
(* bypass plan may name (Bypassable), a private range (Lan), what the link *)
(* needs (Link: link-local, multicast, DHCP) or Internet, which stands for *)
(* every other address.                                                    *)
(***************************************************************************)
EXTENDS Naturals

CONSTANTS
    Servers,     \* endpoints of the fleet
    NoServer,
    Ports,       \* UDP source ports the kernel can pick
    NoPort,
    Bypassable,  \* destinations a bypass plan may name
    Lan,         \* private ranges
    Link,        \* link-local and multicast addresses, and DHCP
    Internet,    \* any other destination
    MaxRules     \* bound: an operation that adds a policy rule is called only
                 \* while fewer copies than this are in place

ASSUME ServerAssumption == NoServer \notin Servers
ASSUME PortAssumption == NoPort \notin Ports
ASSUME DestAssumption == Internet \notin Bypassable \cup Lan \cup Link
ASSUME RuleAssumption == MaxRules \in Nat \ {0}

VARIABLES
    \* The LinuxTunnel value and the State that owns it
    pc,          \* next kernel call of the operation in progress, or "idle"
    target,      \* endpoint of the operation's TunnelSpec
    conn,        \* State.current: the server the last operation reported
    created,     \* LinuxTunnel.created
    killswitch,  \* LinuxTunnel.killswitch.is_some()
    lan,         \* Killswitch.allow_lan
    plan,        \* the bypass plan handed over by the caller
    installed,   \* Bypass.installed
    \* The kernel
    iface,       \* the interface exists
    peer,        \* endpoint of the one peer, NoServer when there is no peer
    session,     \* server whose session keys the peer holds
    port,        \* listen port of the interface
    table,       \* the policy table holds the tunnel's default route
    rules,       \* copies of the `not fwmark` rule that looks that table up
    ours,        \* destinations with a route that a Bypass added to main
    foreign,     \* destinations with a route of the system's own in main
    nft,         \* the kill switch table is loaded
    allow,       \* destinations that the loaded table accepts
    \* The fleet
    knows,       \* the port each server last received a packet from
    \* History
    late,        \* recorded destinations that the system has routed since
    dirty        \* a clean-up call failed, or the daemon was killed

object == <<created, killswitch, lan, plan, installed>>
wg == <<iface, peer, session, port>>
routing == <<table, rules>>
main == <<ours, foreign>>
firewall == <<nft, allow>>
history == <<late, dirty>>
vars == <<pc, target, conn, object, wg, routing, main, firewall, knows, history>>

Destinations == Bypassable \cup Lan \cup Link \cup {Internet}

PcValues == {"idle",
             "up_bypass", "up_engage", "up_create", "up_configure", "up_route",
             "up_prune", "up_dns", "up_undo",
             "sw_remove", "sw_rotate", "sw_peer", "sw_route", "sw_prune",
             "down_iface", "down_bypass", "down_release", "drop"}

TypeOK ==
    /\ pc \in PcValues
    /\ target \in Servers \cup {NoServer}
    /\ conn \in Servers \cup {NoServer}
    /\ created \in BOOLEAN
    /\ killswitch \in BOOLEAN
    /\ lan \in BOOLEAN
    /\ plan \in SUBSET Bypassable
    /\ installed \in SUBSET Bypassable
    /\ iface \in BOOLEAN
    /\ peer \in Servers \cup {NoServer}
    /\ session \in Servers \cup {NoServer}
    /\ port \in Ports \cup {NoPort}
    /\ table \in BOOLEAN
    /\ rules \in Nat
    /\ ours \in SUBSET Bypassable
    /\ foreign \in SUBSET Bypassable
    /\ nft \in BOOLEAN
    /\ allow \in SUBSET (Destinations \ {Internet})
    /\ knows \in [Servers -> Ports \cup {NoPort}]
    /\ late \in SUBSET Bypassable
    /\ dirty \in BOOLEAN

\* A machine without a tunnel, whatever routes the system already has.
Init ==
    /\ pc = "idle"
    /\ target = NoServer
    /\ conn = NoServer
    /\ created = FALSE
    /\ killswitch = FALSE
    /\ lan = FALSE
    /\ plan = {}
    /\ installed = {}
    /\ iface = FALSE
    /\ peer = NoServer
    /\ session = NoServer
    /\ port = NoPort
    /\ table = FALSE
    /\ rules = 0
    /\ ours = {}
    /\ foreign \in SUBSET Bypassable
    /\ nft = FALSE
    /\ allow = {}
    /\ knows = [s \in Servers |-> NoPort]
    /\ late = {}
    /\ dirty = FALSE

-----------------------------------------------------------------------------
(* Kernel calls, shared by the operations                                  *)

\* Port 0 asks the kernel for an ephemeral port: never the one in use, and
\* (out of some 28000) not one that a server still has on record.
FreshPorts_Pinned == IF port = NoPort THEN Ports ELSE {port}
FreshPorts == Ports \ ({knows[s] : s \in Servers} \cup {port})

\* remove_interface takes the peer, the routes and the policy rules with it.
RemoveInterface ==
    /\ iface
    /\ iface' = FALSE
    /\ peer' = NoServer
    /\ session' = NoServer
    /\ port' = NoPort
    /\ table' = FALSE
    /\ rules' = 0

\* Killswitch::release, which replaces the table by nothing.
Release ==
    /\ nft' = FALSE
    /\ allow' = {}

\* `ip route del` names only a destination, and takes one route to it: of two,
\* the one with the lower metric, which for IPv6 may be the system's own.
Withdraw(dests) ==
    \E theirs \in SUBSET (dests \cap foreign) :
        /\ dests \cap foreign \subseteq ours \cup theirs
        /\ foreign' = foreign \ theirs
        /\ ours' = ours \ (dests \ theirs)

\* Bypass::remove forgets every route it recorded, including one that could
\* not be withdrawn.
RemoveBypass ==
    \E stuck \in SUBSET installed :
        /\ Withdraw(installed \ stuck)
        /\ installed' = {}
        /\ late' = {}
        /\ dirty' = (dirty \/ installed \cap ours' # {})

\* configure_peer_routing: the default route, and one more copy of the rule.
\* A failure may leave any part of it behind.
ConfigurePeerRouting ==
    /\ table' = TRUE
    /\ rules' = rules + 1
    /\ UNCHANGED <<target, conn, object, wg, main, firewall, knows, history>>

ConfigurePeerRoutingFails ==
    /\ table' \in {table, TRUE}
    /\ rules' \in {rules, rules + 1}
    /\ UNCHANGED <<target, conn, object, wg, main, firewall, knows, history>>

\* prune_rule deletes while more than one copy is left, or until `ip rule`
\* fails, which is only logged.
Duplicated_Any == rules > 0
Duplicated == rules > 1

PruneRule ==
    /\ pc \in {"up_prune", "sw_prune"}
    /\ Duplicated
    /\ rules' = rules - 1
    /\ UNCHANGED <<pc, target, conn, object, wg, table, main, firewall,
                   knows, history>>

-----------------------------------------------------------------------------
(* up: bypass, kill switch, interface, peer, routes, DNS                   *)

Up(s, ks, al, p) ==
    /\ pc = "idle"
    /\ conn = NoServer
    /\ rules < MaxRules
    /\ pc' = "up_bypass"
    /\ target' = s
    /\ killswitch' = ks
    /\ lan' = al
    /\ plan' = p
    /\ created' = FALSE
    /\ installed' = {}
    /\ UNCHANGED <<conn, wg, routing, main, firewall, knows, history>>

\* TunnelSpec::validate refuses the specification before anything is touched.
UpRejected ==
    /\ pc = "up_bypass"
    /\ pc' = "drop"
    /\ UNCHANGED <<target, conn, object, wg, routing, main, firewall, knows,
                   history>>

\* Bypass::install skips a route that exists and does not record it; a route
\* that cannot be added is not recorded either.
Unrouted == plan \ (ours \cup foreign)

\* What exists counts as installed.
InstallBypass_RecordsAll ==
    /\ pc = "up_bypass"
    /\ installed' = plan
    /\ ours' = ours \cup Unrouted
    /\ pc' = "up_engage"
    /\ UNCHANGED <<target, conn, created, killswitch, lan, plan, wg, routing, foreign,
                   firewall, knows, history>>

InstallBypass ==
    /\ pc = "up_bypass"
    /\ \E added \in SUBSET Unrouted :
        /\ installed' = added
        /\ ours' = ours \cup added
    /\ pc' = "up_engage"
    /\ UNCHANGED <<target, conn, created, killswitch, lan, plan, wg, routing, foreign,
                   firewall, knows, history>>

\* What the script of the kill switch lets out besides the tunnel: the link's
\* own traffic, private ranges if the user says so, and the bypass.  A script
\* without its last line drops nothing.
Accepted_Undropped == Destinations
Accepted == Link \cup (IF lan THEN Lan ELSE {}) \cup installed

\* A failure that is logged rather than returned.
EngageKillswitch_BestEffort ==
    /\ pc = "up_engage"
    /\ pc' = "up_create"
    /\ \/ killswitch /\ nft' = TRUE /\ allow' = Accepted
       \/ UNCHANGED firewall
    /\ UNCHANGED <<target, conn, object, wg, routing, main, knows, history>>

EngageKillswitch ==
    /\ pc = "up_engage"
    /\ \/ /\ killswitch
          /\ nft' = TRUE
          /\ allow' = Accepted
          /\ pc' = "up_create"
       \/ /\ ~killswitch
          /\ pc' = "up_create"
          /\ UNCHANGED firewall
       \/ /\ killswitch        \* engage()? returns before bring_up
          /\ pc' = "drop"
          /\ UNCHANGED firewall
    /\ UNCHANGED <<target, conn, object, wg, routing, main, knows, history>>

\* The interface is made but not remembered as ours.
CreateInterface_Untracked ==
    /\ pc = "up_create"
    /\ \/ iface' = TRUE /\ pc' = "up_configure"
       \/ pc' = "up_undo" /\ UNCHANGED iface
    /\ UNCHANGED <<target, conn, object, peer, session, port, routing, main,
                   firewall, knows, history>>

CreateInterface ==
    /\ pc = "up_create"
    /\ \/ /\ iface' = TRUE
          /\ created' = TRUE
          /\ pc' = "up_configure"
       \/ /\ pc' = "up_undo"
          /\ UNCHANGED <<iface, created>>
    /\ UNCHANGED <<target, conn, killswitch, lan, plan, installed, peer, session, port,
                   routing, main, firewall, knows, history>>

\* configure_interface sets port and peer in one call, then re-applies the
\* addresses, which flushes the policy table.  On an interface that a killed
\* daemon left behind, the old session may or may not survive.
ConfigureInterface ==
    /\ pc = "up_configure"
    /\ \/ /\ pc' = "up_route"
          /\ port' \in FreshPorts
          /\ peer' = target
          /\ session' \in {session, NoServer}
          /\ table' = FALSE
       \/ /\ pc' = "up_undo"
          /\ port' \in FreshPorts
          /\ peer' = target
          /\ session' \in {session, NoServer}
          /\ table' \in {table, FALSE}
       \/ /\ pc' = "up_undo"
          /\ UNCHANGED <<port, peer, session, table>>
    /\ UNCHANGED <<target, conn, object, iface, rules, main, firewall, knows,
                   history>>

UpRoute ==
    /\ pc = "up_route"
    /\ \/ /\ pc' = "up_prune"
          /\ ConfigurePeerRouting
       \/ /\ pc' = "up_undo"
          /\ ConfigurePeerRoutingFails

UpPruned ==
    /\ pc = "up_prune"
    /\ pc' = "up_dns"
    /\ UNCHANGED <<target, conn, object, wg, routing, main, firewall, knows,
                   history>>

\* The last call of bring_up; on success establish records the connection.
ConfigureDns ==
    /\ pc = "up_dns"
    /\ \/ /\ pc' = "idle"
          /\ conn' = target
       \/ /\ pc' = "up_undo"
          /\ UNCHANGED conn
    /\ UNCHANGED <<target, object, wg, routing, main, firewall, knows, history>>

\* bring_up failed: withdraw the bypass, release the kill switch, and let the
\* error drop the tunnel.
UndoUp ==
    /\ pc = "up_undo"
    /\ pc' = "drop"
    /\ RemoveBypass
    /\ \/ killswitch /\ Release
       \/ UNCHANGED firewall      \* no kill switch, or nft failed: logged
    /\ UNCHANGED <<target, conn, created, killswitch, lan, plan, wg, routing, knows>>

-----------------------------------------------------------------------------
(* switch_endpoint: the five calls of retarget, each of which may end it   *)

Switch(s) ==
    /\ pc = "idle"
    /\ conn # NoServer
    /\ rules < MaxRules
    /\ pc' = "sw_remove"
    /\ target' = s
    /\ UNCHANGED <<conn, object, wg, routing, main, firewall, knows, history>>

\* The session with the old server goes first.
RemovePeer ==
    /\ pc = "sw_remove"
    /\ \/ /\ pc' = "sw_rotate"
          /\ peer' = NoServer
          /\ session' = NoServer
       \/ /\ pc' = "idle"
          /\ UNCHANGED <<peer, session>>
    /\ UNCHANGED <<target, conn, object, iface, port, routing, main, firewall,
                   knows, history>>

RotateListenPort ==
    /\ pc = "sw_rotate"
    /\ \/ /\ pc' = "sw_peer"
          /\ port' \in FreshPorts
          /\ table' = FALSE
       \/ /\ pc' = "idle"
          /\ port' \in FreshPorts
          /\ table' \in {table, FALSE}
       \/ /\ pc' = "idle"
          /\ UNCHANGED <<port, table>>
    /\ UNCHANGED <<target, conn, object, iface, peer, session, rules, main,
                   firewall, knows, history>>

ConfigurePeer ==
    /\ pc = "sw_peer"
    /\ \/ /\ pc' = "sw_route"
          /\ peer' = target
       \/ /\ pc' = "idle"
          /\ UNCHANGED peer
    /\ UNCHANGED <<target, conn, object, iface, session, port, routing, main,
                   firewall, knows, history>>

\* The routes are thought to survive the port rotation.
SwitchRoute_Skipped ==
    /\ pc = "sw_route"
    /\ pc' = "sw_prune"
    /\ UNCHANGED <<target, conn, object, wg, routing, main, firewall, knows,
                   history>>

SwitchRoute ==
    /\ pc = "sw_route"
    /\ \/ /\ pc' = "sw_prune"
          /\ ConfigurePeerRouting
       \/ /\ pc' = "idle"
          /\ ConfigurePeerRoutingFails

SwitchDone ==
    /\ pc = "sw_prune"
    /\ pc' = "idle"
    /\ conn' = target
    /\ UNCHANGED <<target, object, wg, routing, main, firewall, knows, history>>

-----------------------------------------------------------------------------
(* down, and Drop for LinuxTunnel                                          *)

Down ==
    /\ pc = "idle"
    /\ conn # NoServer
    /\ pc' = "down_iface"
    /\ UNCHANGED <<target, conn, object, wg, routing, main, firewall, knows,
                   history>>

DownInterface ==
    /\ pc = "down_iface"
    /\ pc' = "down_bypass"
    /\ created' = FALSE
    /\ \/ RemoveInterface /\ UNCHANGED dirty
       \/ dirty' = TRUE /\ UNCHANGED <<wg, routing>>
    /\ UNCHANGED <<target, conn, killswitch, lan, plan, installed, main, firewall,
                   knows, late>>

DownBypass ==
    /\ pc = "down_bypass"
    /\ pc' = "down_release"
    /\ RemoveBypass
    /\ UNCHANGED <<target, conn, created, killswitch, lan, plan, wg, routing, firewall,
                   knows>>

\* disconnect forgets the connection whatever down returned.
DownRelease ==
    /\ pc = "down_release"
    /\ pc' = "drop"
    /\ conn' = NoServer
    /\ \/ killswitch /\ Release
       \/ UNCHANGED firewall      \* nothing to release, or nft failed
    /\ UNCHANGED <<target, object, wg, routing, main, knows, history>>

\* Drop retries the release but not a removal that down has already tried;
\* the fields are dropped after it, and Bypass's own Drop removes its routes.
Drop ==
    /\ pc = "drop"
    /\ pc' = "idle"
    /\ \E stuck \in SUBSET installed, lost, held \in BOOLEAN :
        /\ IF created /\ ~lost THEN RemoveInterface
                               ELSE UNCHANGED <<wg, routing>>
        /\ IF killswitch /\ ~held THEN Release ELSE UNCHANGED firewall
        /\ Withdraw(installed \ stuck)
        /\ dirty' = (\/ dirty
                     \/ installed \cap ours' # {}
                     \/ created /\ lost
                     \/ killswitch /\ held)
    /\ created' = FALSE
    /\ killswitch' = FALSE
    /\ lan' = FALSE
    /\ plan' = {}
    /\ installed' = {}
    /\ late' = {}
    /\ UNCHANGED <<target, conn, knows>>

-----------------------------------------------------------------------------
(* The daemon is killed: its memory is gone, the kernel keeps everything.  *)

Crash ==
    /\ pc # "idle" \/ conn # NoServer
    /\ pc' = "idle"
    /\ conn' = NoServer
    /\ created' = FALSE
    /\ killswitch' = FALSE
    /\ lan' = FALSE
    /\ plan' = {}
    /\ installed' = {}
    /\ late' = {}
    /\ dirty' = TRUE
    /\ UNCHANGED <<target, wg, routing, main, firewall, knows>>

-----------------------------------------------------------------------------
(* The fleet (external).  One peer key serves every server, so the kernel  *)
(* accepts any of them and moves the endpoint to whoever authenticated.    *)

Listening == iface /\ port # NoPort /\ peer # NoServer

\* A handshake, keepalive or data packet reaches the endpoint, which learns
\* the port it came from.
Transmit ==
    /\ Listening
    /\ knows' = [knows EXCEPT ![peer] = port]
    /\ UNCHANGED <<pc, target, conn, object, wg, routing, main, firewall, history>>

\* A server that knows the port completes a handshake.  The one we are
\* pointed at answers ours; any other opens its own.
Handshake(s) ==
    /\ Listening
    /\ knows[s] = port
    /\ peer' = s
    /\ session' = s
    /\ UNCHANGED <<pc, target, conn, object, iface, port, routing, main,
                   firewall, knows, history>>

\* A data packet of an established session arrives.
Data(s) ==
    /\ Listening
    /\ knows[s] = port
    /\ session = s
    /\ peer' = s
    /\ UNCHANGED <<pc, target, conn, object, iface, session, port, routing,
                   main, firewall, knows, history>>

-----------------------------------------------------------------------------
(* The system (external): a network manager, DHCP or the administrator adds *)
(* a route of its own, with a metric of its own, or takes one away; losing  *)
(* a link takes those of the Bypass as well.                                *)

AddRoute(d) ==
    /\ foreign' = foreign \cup {d}
    /\ late' = late \cup ({d} \cap installed)
    /\ UNCHANGED <<pc, target, conn, object, wg, routing, ours, firewall, knows,
                   dirty>>

TakeRoute(d) ==
    /\ foreign' = foreign \ {d}
    /\ UNCHANGED <<pc, target, conn, object, wg, routing, ours, firewall, knows,
                   history>>

PurgeRoute(d) ==
    /\ d \in ours
    /\ ours' = ours \ {d}
    /\ UNCHANGED <<pc, target, conn, object, wg, routing, foreign, firewall, knows,
                   history>>

-----------------------------------------------------------------------------

UpSteps == \/ UpRejected \/ InstallBypass \/ EngageKillswitch \/ CreateInterface
           \/ ConfigureInterface \/ UpRoute \/ UpPruned \/ ConfigureDns \/ UndoUp
SwitchSteps == \/ RemovePeer \/ RotateListenPort \/ ConfigurePeer \/ SwitchRoute
               \/ SwitchDone
DownSteps == DownInterface \/ DownBypass \/ DownRelease \/ Drop

\* The steps of an operation that has been called.
Step == UpSteps \/ SwitchSteps \/ DownSteps \/ PruneRule

Call == \/ \E s \in Servers, ks, al \in BOOLEAN, p \in SUBSET Bypassable :
                (al => ks) /\ Up(s, ks, al, p)
        \/ \E s \in Servers : Switch(s)
        \/ Down

Fleet == Transmit \/ \E s \in Servers : Handshake(s) \/ Data(s)

System == \E d \in Bypassable : AddRoute(d) \/ TakeRoute(d) \/ PurgeRoute(d)

Next == Step \/ Call \/ Crash \/ Fleet \/ System

Spec == Init /\ [][Next]_vars

-----------------------------------------------------------------------------
(* Where an application's packet goes                                      *)

\* The bypass routes of the main table are looked up first (the rule with
\* suppress_prefixlength 0), then the tunnel's table, then main's default.
Tunnelled(d) == d \notin ours \cup foreign /\ rules > 0 /\ table

Dropped(d) == ~Tunnelled(d) /\ nft /\ d \notin allow

InTheClear(d) == ~Tunnelled(d) /\ ~Dropped(d)

\* The server that packets for ordinary addresses come out of.
Exit == IF iface /\ Tunnelled(Internet) THEN peer ELSE NoServer

-----------------------------------------------------------------------------
(* Properties                                                              *)

\* A displaced server can open a handshake that the kernel cannot tell from
\* the intended one, and old sessions keep sending data.  Whatever arrives,
\* the endpoint only ever becomes the server of the operation in progress,
\* or none while retarget replaces the peer.
EndpointOnlyByCaller == [][peer' # peer => peer' \in {NoServer, target}]_vars

\* "There is never a moment with no rule directing traffic into the tunnel"
\* (prune_duplicate_policy_rules): not while routing is reinstalled on top of
\* leftovers, not while duplicates are deleted one by one, and not after a
\* switch that failed half way.
RuleNeverMissing ==
    conn # NoServer /\ pc \notin {"down_bypass", "down_release"} => rules > 0

\* "What is allowed out" (killswitch.rs).  From the moment up has engaged the
\* kill switch until down or a request (module Daemon) lifts it, a packet leaves
\* unencrypted only for the link's own needs, for a private range if allow_lan
\* is set, and for a destination the user's bypass plan names: through the
\* empty policy table in the middle of a switch, after a failed switch, while
\* the interface is created or removed, whatever an earlier tunnel's rules
\* admitted, and whatever routes the system adds in the meantime.
KillswitchConfines ==
    killswitch /\ pc \notin {"up_bypass", "up_engage", "drop"}
        => \A d \in Destinations :
             InTheClear(d) => d \in Link \cup (IF lan THEN Lan ELSE {}) \cup plan

\* "Routes that already exist are left alone and not recorded, so removing the
\* bypass later cannot delete something the system set up itself" (bypass.rs).
\* So it is of every route that was there when the bypass was installed, over
\* failed ups, switches, crashes and routes that come and go.  It is not of one
\* that the system set up afterwards at a destination the Bypass had recorded:
\* `ip route del` may take that one.
ForeignRoutesKept == [][~System => foreign \ foreign' \subseteq late]_vars

\* A tunnel that is gone, after down or after an up that failed at any of its
\* calls, has left nothing behind unless a clean-up call itself failed, or hit
\* the system's route instead: no interface, no rule, no kill switch, and no
\* route of its own.
NoResidue ==
    pc = "idle" /\ conn = NoServer /\ ~dirty
        => /\ ~iface
           /\ rules = 0
           /\ ~nft
           /\ ours = {}

Contract == INSTANCE Tunnel WITH wanted <- target, exit <- Exit, guarded <- nft

\* The backend keeps the contract of TunnelBackend through every failure,
\* crash and late packet.
KeepsContract == Contract!Spec

=============================================================================
