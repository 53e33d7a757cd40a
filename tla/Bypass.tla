------------------------------- MODULE Bypass -------------------------------
(***************************************************************************)
(* Which destinations go around the tunnel: Bypass::plan over the machine  *)
(* as new_tunnel finds it, installed route by route, kept while the        *)
(* tunnel is up and withdrawn with it, while VPNs come and go, links       *)
(* change, the configuration is reloaded and the daemon may die.           *)
(*                                                                         *)
(* Addresses are numbers of Width bits and a route wins over another that  *)
(* covers the same address if its prefix is longer, as in both kernels;    *)
(* what no route but a default covers goes into the tunnel.  On Linux a    *)
(* VPN keeps its routes in a table of its own or in main; on Windows there *)
(* is one table, which is the second case.                                 *)
(***************************************************************************)
EXTENDS Integers

CONSTANTS
    Width,     \* bits of an address
    Private,   \* PRIVATE_V4 and PRIVATE_V6
    Never,     \* the prefixes of NEVER_MIRROR
    Links,     \* physical interfaces
    Vpns,      \* interfaces named like those of a VPN, other than ours
    NoLink,    \* a family has no default route
    Settings,  \* the [bypass] sections a file may hold
    Clients,   \* the sets of addresses and nameservers a tunnel may use
    Answers,   \* what a configured host may resolve to
    Served,    \* the sets of prefixes that a VPN may route to itself
    Attached,  \* the prefixes that the system itself may route
    MaxMoves   \* bound on what happens around the daemon

Address == [v6 : BOOLEAN, bits : 0..(2^Width - 1)]

\* A prefix whose host bits are zero.
Prefix == {p \in [v6 : BOOLEAN, net : 0..(2^Width - 1), len : 0..Width] :
             p.net % 2^(Width - p.len) = 0}

\* The [bypass] section; its hosts are given by what they resolve to.
Section == [cidrs : SUBSET Prefix, hosts : BOOLEAN, otherVpns : BOOLEAN,
            lan : BOOLEAN]

\* The section of a file that has none.
DefaultSection ==
    [cidrs |-> {}, hosts |-> FALSE, otherVpns |-> TRUE, lan |-> TRUE]

ASSUME BypassConstants ==
    /\ Width \in Nat
    /\ Private \subseteq Prefix
    /\ Never \subseteq Prefix
    /\ Links \intersect Vpns = {}
    /\ NoLink \notin Links \union Vpns
    /\ Settings \subseteq Section
    /\ Clients \subseteq SUBSET Address
    /\ Answers \subseteq SUBSET Address
    /\ Served \subseteq SUBSET Prefix
    /\ Attached \subseteq Prefix
    /\ MaxMoves \in Nat

VARIABLES
    config,     \* State.config.bypass
    own,        \* State.client: addresses and nameservers
    link,       \* the interface of each family's default route
    main,       \* the table main, its default routes aside
    tables,     \* what each VPN routes in a table of its own
    phase,      \* where the tunnel is
    plan,       \* the routes still to be installed
    installed,  \* Bypass.installed
    basis,      \* what the tunnel and its plan were made from
    waived,     \* planned destinations routed by others, or not at all
    moves       \* how much has happened around the daemon

machine == <<link, main, tables, moves>>

settings == <<config, own>>

vars == <<settings, machine, phase, plan, installed, basis, waived>>

Devices == Links \union Vpns

Entry == [dest : Prefix, dev : Devices]

\* Why a route is planned, in the order plan collects them.
Mirror == 1
Lan    == 2
Cidr   == 3
Host   == 4

Route == [dest : Prefix, dev : Devices, rank : {Mirror, Lan, Cidr, Host}]

\* The entry that the system is asked to add for a route.
EntryOf(r) == [dest |-> r.dest, dev |-> r.dev]

-----------------------------------------------------------------------------
(* Prefixes.                                                               *)

\* cidr_contains: equal under the mask.
CidrContains(p, a) ==
    LET shift == 2^(Width - p.len)
    IN  p.v6 = a.v6 /\ p.net \div shift = a.bits \div shift

\* A host's address as a destination.
Single(a) == [v6 |-> a.v6, net |-> a.bits, len |-> Width]

\* The addresses of a prefix, as the kernel sees it.
Covers(p, a) ==
    p.v6 = a.v6 /\ a.bits \in p.net..(p.net + 2^(Width - p.len) - 1)

\* The kernel: r is the route that a packet to a takes.
Decides(r, a) ==
    /\ Covers(r.dest, a)
    /\ \A q \in main : Covers(q.dest, a) => q.dest.len <= r.dest.len

RouteExists(dest) == \E r \in main : r.dest = dest

\* The interface is up.
Alive(dev) ==
    \/ \E v6 \in BOOLEAN : link[v6] = dev
    \/ \E e \in main : e.dev = dev
    \/ dev \in Vpns /\ tables[dev] # {}

-----------------------------------------------------------------------------
(* Bypass::plan.                                                           *)

\* lan_ranges: a range the tunnel lives in is left out as a whole.
LanRanges == {p \in Private : \A a \in own : ~CidrContains(p, a)}

\* default_gateways, in the families that could be listed.
DefaultGateways(heard) ==
    [v6 \in BOOLEAN |-> IF v6 \in heard THEN link[v6] ELSE NoLink]

\* A family without a gateway is not noticed.
ViaGateway_Unchecked(dests, gateways, rank) ==
    {[dest |-> p, dev |-> gateways[p.v6], rank |-> rank] : p \in dests}

\* via_gateway: no route without a gateway of the destination's family.
ViaGateway(dests, gateways, rank) ==
    {r \in [dest : dests, dev : Devices, rank : {rank}] :
       r.dev = gateways[r.dest.v6]}

\* The VPNs that route a prefix, wherever.
Serving(p) == {d \in Vpns : p \in tables[d] \/ [dest |-> p, dev |-> d] \in main}

\* What is mirrored: no default route, and nothing per interface.
Mirrorable == {p \in Prefix : p.len # 0 /\ p \notin Never /\ Serving(p) # {}}

\* other_vpn_routes: of several VPNs that serve a prefix, the one listed first.
OtherVpnRoutes(heard, first) ==
    {[dest |-> p, dev |-> first[p], rank |-> Mirror] :
       p \in {q \in Mirrorable : q.v6 \in heard}}

\* Routes that agree in everything but their reason are planned once.
Dedup(routes) ==
    {r \in routes : r.rank = Mirror \/
       \A q \in routes : q.rank # Mirror /\ q.dest = r.dest => r.rank <= q.rank}

\* Everything the request asks for, given what could be listed and resolved.
Planned(heard, first, answer) ==
    LET gateways == DefaultGateways(heard)
    IN  Dedup((IF config.otherVpns THEN OtherVpnRoutes(heard, first) ELSE {})
          \union (IF config.lan THEN ViaGateway(LanRanges, gateways, Lan) ELSE {})
          \union ViaGateway(config.cidrs, gateways, Cidr)
          \union (IF config.hosts
                  THEN ViaGateway({Single(a) : a \in answer}, gateways, Host)
                  ELSE {}))

\* new_tunnel, at the start of a connect.
NewTunnel ==
    /\ phase = "down"
    /\ \E heard \in SUBSET BOOLEAN, answer \in Answers,
          first \in {f \in [Mirrorable -> Vpns] :
                       \A p \in Mirrorable : f[p] \in Serving(p)} :
         /\ plan' = Planned(heard, first, answer)
         /\ basis' = [own |-> own, routes |-> Planned(heard, first, answer)]
    /\ phase' = "installing"
    /\ waived' = {}
    /\ UNCHANGED <<settings, machine, installed>>

-----------------------------------------------------------------------------
(* Installing, withdrawing.                                                *)

\* The LAN ranges come before the mirrored routes.
Foremost_LanFirst(r) ==
    \A q \in plan : q.dest = r.dest => r.rank >= q.rank

\* The sort is stable and equal destinations end up side by side; the order
\* of different ones does not matter.
Foremost(r) == \A q \in plan : q.dest = r.dest => r.rank <= q.rank

Skip(r) ==
    /\ RouteExists(r.dest)
    /\ waived' = IF \/ EntryOf(r) \in main
                    \/ \E i \in installed : i.dest = r.dest
                 THEN waived ELSE waived \union {r.dest}
    /\ UNCHANGED <<main, installed>>

Add(r) ==
    /\ ~RouteExists(r.dest)
    /\ main' = main \union {EntryOf(r)}
    /\ installed' = installed \union {r}
    /\ UNCHANGED waived

\* The program that adds the route, or asks for it, failed.
AddFails(r) ==
    /\ waived' = waived \union {r.dest}
    /\ UNCHANGED <<main, installed>>

\* A route over an interface that is gone cannot be added.
Install(r) ==
    /\ phase = "installing"
    /\ r \in plan
    /\ Foremost(r)
    /\ plan' = plan \ {r}
    /\ \/ Skip(r)
       \/ Alive(r.dev) /\ Add(r)
       \/ AddFails(r)
    /\ UNCHANGED <<settings, link, tables, phase, basis, moves>>

\* The rest of up succeeds, or fails and withdraws the routes again.
UpEnds ==
    /\ phase = "installing"
    /\ plan = {}
    /\ phase' \in {"up", "removing"}
    /\ UNCHANGED <<settings, machine, plan, installed, basis, waived>>

Down ==
    /\ phase = "up"
    /\ phase' = "removing"
    /\ UNCHANGED <<settings, machine, plan, installed, basis, waived>>

\* sys_del names the destination only.
WithoutDestination(r) == {e \in main : e.dest # r.dest}

\* Its failure is not retried.
Remove(r) ==
    /\ phase = "removing"
    /\ r \in installed
    /\ installed' = installed \ {r}
    /\ main' \in {main, WithoutDestination(r)}
    /\ UNCHANGED <<settings, link, tables, phase, plan, basis, waived, moves>>

Removed ==
    /\ phase = "removing"
    /\ installed = {}
    /\ phase' = "down"
    /\ UNCHANGED <<settings, machine, plan, installed, basis, waived>>

-----------------------------------------------------------------------------
(* What happens around it.                                                 *)

Moved == moves < MaxMoves /\ moves' = moves + 1

\* The file is read again; a tunnel that is up keeps what it was built with.
Reload ==
    /\ Moved
    /\ config' \in Settings
    /\ own' \in Clients
    /\ UNCHANGED <<link, main, tables, phase, plan, installed, basis, waived>>

\* The routes stay; the record of them does not.
Crash ==
    /\ Moved
    /\ phase # "down"
    /\ phase' = "down"
    /\ plan' = {}
    /\ installed' = {}
    /\ UNCHANGED <<settings, link, main, tables, basis, waived>>

\* The VPN routes its prefixes in its own table or in main.
VpnStarts(d) ==
    /\ Moved
    /\ ~Alive(d)
    /\ \E s \in Served :
         \/ /\ tables' = [tables EXCEPT ![d] = s]
            /\ UNCHANGED main
         \/ /\ main' = main \union [dest : {p \in s : p.len # 0 /\ ~RouteExists(p)},
                                    dev : {d}]
            /\ UNCHANGED tables
    /\ UNCHANGED <<settings, link, phase, plan, installed, basis, waived>>

\* Its routes go with its interface; a plan that mirrored them is void.
VpnStops(d) ==
    /\ Moved
    /\ main' = {e \in main : e.dev # d}
    /\ tables' = [tables EXCEPT ![d] = {}]
    /\ waived' = waived \union {r.dest : r \in {q \in basis.routes : q.dev = d}}
    /\ UNCHANGED <<settings, link, phase, plan, installed, basis>>

LinkChanges ==
    /\ Moved
    /\ link' \in [BOOLEAN -> Links \union {NoLink}]
    /\ main' = {e \in main : e.dev \in Links => \E v6 \in BOOLEAN : link'[v6] = e.dev}
    /\ UNCHANGED <<settings, tables, phase, plan, installed, basis, waived>>

\* The system routes a prefix of its own, on an interface that is up.
SystemRoutes ==
    /\ Moved
    /\ \E p \in Attached, l \in Links :
         /\ ~RouteExists(p)
         /\ link[p.v6] = l
         /\ main' = main \union {[dest |-> p, dev |-> l]}
    /\ UNCHANGED <<settings, link, tables, phase, plan, installed, basis, waived>>

Init ==
    /\ config \in Settings
    /\ own \in Clients
    /\ link \in [BOOLEAN -> Links \union {NoLink}]
    /\ main = {}
    /\ tables \in [Vpns -> Served]
    /\ phase = "down"
    /\ plan = {}
    /\ installed = {}
    /\ basis = [own |-> {}, routes |-> {}]
    /\ waived = {}
    /\ moves = 0

Next ==
    \/ NewTunnel
    \/ \E r \in plan : Install(r)
    \/ UpEnds
    \/ Down
    \/ \E r \in installed : Remove(r)
    \/ Removed
    \/ Reload
    \/ Crash
    \/ \E d \in Vpns : VpnStarts(d) \/ VpnStops(d)
    \/ LinkChanges
    \/ SystemRoutes

Spec == Init /\ [][Next]_vars

-----------------------------------------------------------------------------
(* Properties.                                                             *)

TypeOK ==
    /\ config \in Settings
    /\ own \in Clients
    /\ link \in [BOOLEAN -> Links \union {NoLink}]
    /\ main \subseteq Entry
    /\ tables \in [Vpns -> SUBSET Prefix]
    /\ phase \in {"down", "installing", "up", "removing"}
    /\ plan \subseteq Route
    /\ installed \subseteq Route
    /\ basis \in [own : SUBSET Address, routes : SUBSET Route]
    /\ waived \subseteq Prefix
    /\ moves \in 0..MaxMoves

\* No address that the tunnel itself uses is carried out of it by a LAN
\* range, not even if the configuration has changed since.
OwnAddressesInside ==
    phase = "up" =>
      \A a \in basis.own : \A r \in installed :
        ~(r.rank = Lan /\ \E e \in main : e.dest = r.dest /\ Decides(e, a))

\* What another VPN served when the tunnel came up still goes to it, unless a
\* more specific route claims it: no LAN range and no configured destination
\* of the same size takes it over, and none of it falls into the tunnel.
OtherVpnsKept ==
    phase = "up" =>
      \A r \in basis.routes : \A a \in Address :
        r.rank = Mirror /\ r.dest \notin waived /\ Covers(r.dest, a) =>
          \E e \in main :
            Decides(e, a) /\ (e.dev = r.dev \/ e.dest.len > r.dest.len)

\* Both features keep what they are for.
RoutedAsAsked == OwnAddressesInside /\ OtherVpnsKept
=============================================================================
