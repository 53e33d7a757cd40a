---------------------------- MODULE BypassProofs ----------------------------
(***************************************************************************)
(* Proofs about Bypass for addresses of any width, any private ranges, any *)
(* VPNs and links, and any history of what happens around the daemon.      *)
(***************************************************************************)
EXTENDS Bypass, FiniteSetTheorems, WellFoundedInduction, TLAPS

-----------------------------------------------------------------------------
(* The inductive invariant, in parts                                       *)

\* Without a tunnel nothing is planned or recorded; with one the plan has been
\* worked off.
Recorded ==
    /\ phase = "down" => plan = {} /\ installed = {}
    /\ phase # "installing" => plan = {}

\* What is planned or installed was planned for this tunnel.
Based == phase # "down" => plan \union installed \subseteq basis.routes

\* A LAN range that was planned contains no address of the tunnel.
LanClear ==
    \A r \in basis.routes : r.rank = Lan =>
      \A a \in basis.own : ~CidrContains(r.dest, a)

\* What another VPN serves is mirrored once, over that VPN.
MirrorsApart ==
    \A r \in basis.routes : r.rank = Mirror =>
      /\ r.dev \in Vpns
      /\ \A q \in basis.routes : q.rank = Mirror /\ q.dest = r.dest => q = r

\* A mirrored route has its turn before any other to the same destination.
MirrorsFirst ==
    \A r \in plan : r.rank = Mirror => \A i \in installed : i.dest # r.dest

\* While the tunnel comes up, and while it is up, a mirrored route is still to
\* be installed, or is there, or was waived.
MirrorsKept ==
    phase \in {"installing", "up"} =>
      \A r \in basis.routes :
        r.rank = Mirror => r \in plan \/ EntryOf(r) \in main \/ r.dest \in waived

Inv == /\ TypeOK /\ Recorded /\ Based /\ LanClear /\ MirrorsApart /\ MirrorsFirst
       /\ MirrorsKept

-----------------------------------------------------------------------------
(* Numbers                                                                 *)

\* A set of naturals that is not empty has a least element.
LEMMA Least ==
    ASSUME NEW S \in SUBSET Nat, S # {}
    PROVE  \E m \in S : \A k \in S : m <= k
<1> DEFINE Upto(m) == {k \in S : k <= m}
           F == {Upto(m) : m \in S}
<1>1. F \subseteq FiniteSubsetsOf(Nat)
  <2>1. \A m \in S : IsFiniteSet(Upto(m))
    BY FS_BoundedSetOfNaturals
  <2>2. QED
    BY <2>1 DEF FiniteSubsetsOf
<1>2. F # {}
  OBVIOUS
<1>3. PICK x \in F : \A y \in F : ~(<<y, x>> \in StrictSubsetOrdering(Nat))
  <2> HIDE DEF F
  <2> QED
    BY <1>1, <1>2, FS_StrictSubsetOrderingWellFounded, WFMin
<1>4. PICK m \in S : x = Upto(m)
  BY <1>3
<1>5. ASSUME NEW k \in S, k < m PROVE FALSE
  <2>1. k \in Nat /\ m \in Nat
    OBVIOUS
  <2>2. Upto(k) \subseteq x
    <3>1. \A j \in S : j \in Nat /\ (j <= k => j <= m)
      BY <1>5, <2>1
    <3>2. QED
      BY <1>4, <3>1
  <2>3. m \in x /\ m \notin Upto(k)
    BY <1>4, <1>5, <2>1
  <2>4. <<Upto(k), x>> \in StrictSubsetOrdering(Nat)
    BY <1>4, <2>2, <2>3 DEF StrictSubsetOrdering
  <2>5. QED
    BY <1>3, <2>4
<1>6. QED
  BY <1>5

\* One that is bounded has a greatest.
LEMMA Greatest ==
    ASSUME NEW S \in SUBSET Nat, S # {}, NEW n \in Nat, \A k \in S : k <= n
    PROVE  \E m \in S : \A k \in S : k <= m
<1> DEFINE D == {n - k : k \in S}
<1>1. D \in SUBSET Nat /\ D # {}
  <2>1. \A k \in S : n - k \in Nat
    OBVIOUS
  <2>2. QED
    BY <2>1
<1>2. PICK d \in D : \A c \in D : d <= c
  BY <1>1, Least
<1>3. PICK m \in S : d = n - m
  BY <1>2
<1>4. \A k \in S : n - m <= n - k
  BY <1>2, <1>3
<1>5. QED
  BY <1>4

\* Powers of two count the subsets of a set.
LEMMA Powers == ASSUME NEW n \in Nat PROVE 2^n \in Nat /\ 2^n # 0
<1>1. IsFiniteSet(1..n) /\ Cardinality(1..n) = n
  BY FS_Interval
<1>2. IsFiniteSet(SUBSET (1..n)) /\ Cardinality(SUBSET (1..n)) = 2^n
  BY <1>1, FS_SUBSET
<1>3. QED
  BY <1>2, FS_CardinalityType, FS_EmptySet

LEMMA ZerothPower == 2^0 = 1
<1>1. IsFiniteSet({}) /\ Cardinality({}) = 0
  BY FS_EmptySet
<1>2. Cardinality(SUBSET {}) = 2^Cardinality({})
  BY <1>1, FS_SUBSET
<1>3. SUBSET {} = {{}}
  OBVIOUS
<1>4. Cardinality(SUBSET {}) = 1
  BY <1>3, FS_Singleton
<1>5. QED
  BY <1>1, <1>2, <1>4

\* The numbers of an aligned block are those with its quotient.
LEMMA SameBlock ==
    ASSUME NEW s \in Nat, s # 0, NEW n \in Nat, n % s = 0, NEW b \in Nat
    PROVE  b \in n..(n + s - 1) <=> n \div s = b \div s
<1>1. b \in n..(n + s - 1) => n \div s = b \div s
  OBVIOUS
<1>2. n \div s = b \div s => b \in n..(n + s - 1)
  OBVIOUS
<1>3. QED
  BY <1>1, <1>2

-----------------------------------------------------------------------------
(* Prefixes                                                                *)

\* cidr_contains, which compares under a mask, finds in a range exactly the
\* addresses that the kernel finds there, whatever the width.
THEOREM MaskExact ==
    ASSUME NEW p \in Prefix, NEW a \in Address
    PROVE  CidrContains(p, a) <=> Covers(p, a)
<1> DEFINE s == 2^(Width - p.len)
<1>1. Width - p.len \in Nat
  BY BypassConstants DEF Prefix
<1>2. s \in Nat /\ s # 0
  BY <1>1, Powers
<1>3. 2^Width \in Nat /\ 2^Width # 0
  BY BypassConstants, Powers
<1>4. p.net \in Nat /\ a.bits \in Nat
  BY <1>3 DEF Prefix, Address
<1>5. p.net % s = 0
  BY DEF Prefix
<1> HIDE DEF s
<1>6. a.bits \in p.net..(p.net + s - 1) <=> p.net \div s = a.bits \div s
  BY <1>2, <1>4, <1>5, SameBlock
<1>7. QED
  BY <1>6 DEF CidrContains, Covers, s

\* The address of a host is a prefix of full length.
LEMMA SinglePrefix == ASSUME NEW a \in Address PROVE Single(a) \in Prefix
<1>1. 2^Width \in Nat /\ 2^Width # 0
  BY BypassConstants, Powers
<1>2. a.bits \in 0..(2^Width - 1) /\ a.bits \in Nat
  BY <1>1 DEF Address
<1>3. Width - Width = 0 /\ Width \in 0..Width
  BY BypassConstants
<1>4. 2^(Width - Width) = 1
  BY <1>3, ZerothPower
<1>5. a.bits % 2^(Width - Width) = 0
  BY <1>2, <1>4
<1>6. Single(a) \in [v6 : BOOLEAN, net : 0..(2^Width - 1), len : 0..Width]
  BY <1>2, <1>3 DEF Single, Address
<1>7. QED
  BY <1>5, <1>6 DEF Single, Prefix

\* Of the routes that cover an address the kernel finds one that decides, at
\* least as long as any given.
LEMMA SomeDecides ==
    ASSUME main \subseteq Entry, NEW a, NEW e \in main, Covers(e.dest, a)
    PROVE  \E d \in main : Decides(d, a) /\ d.dest.len >= e.dest.len
<1> DEFINE C == {q \in main : Covers(q.dest, a)}
           L == {q.dest.len : q \in C}
<1>1. \A q \in main : q.dest.len \in 0..Width
  BY DEF Entry, Prefix
<1>2. Width \in Nat
  BY BypassConstants
<1>3. L \in SUBSET Nat /\ L # {} /\ \A k \in L : k <= Width
  BY <1>1, <1>2
<1>4. PICK m \in L : \A k \in L : k <= m
  BY <1>2, <1>3, Greatest
<1>5. PICK d \in C : d.dest.len = m
  BY <1>4
<1>6. \A q \in C : q.dest.len <= d.dest.len
  BY <1>4, <1>5
<1>7. Decides(d, a)
  BY <1>6 DEF Decides
<1>8. d \in main /\ e.dest.len <= d.dest.len
  BY <1>6
<1>9. e.dest.len \in Nat /\ d.dest.len \in Nat
  BY <1>1, <1>2, <1>8
<1>10. QED
  BY <1>7, <1>8, <1>9

-----------------------------------------------------------------------------
(* The plan                                                                *)

\* Routes through a gateway are routes, for the reason given.
LEMMA GatewayRoutes ==
    ASSUME NEW dests \in SUBSET Prefix, NEW gateways, NEW rank \in {Lan, Cidr, Host}
    PROVE  /\ ViaGateway(dests, gateways, rank) \subseteq Route
           /\ \A r \in ViaGateway(dests, gateways, rank) :
                r.rank = rank /\ r.dest \in dests
  BY DEF ViaGateway, Route

\* Mirrored routes are routes over VPNs, one for each destination.
LEMMA MirrorRoutes ==
    ASSUME NEW heard, NEW first \in [Mirrorable -> Vpns]
    PROVE  /\ OtherVpnRoutes(heard, first) \subseteq Route
           /\ \A r \in OtherVpnRoutes(heard, first) :
                r.rank = Mirror /\ r.dev \in Vpns /\ r.dev = first[r.dest]
  BY DEF OtherVpnRoutes, Mirrorable, Route, Devices

\* What plan promises: routes, LAN ranges without an address of the tunnel,
\* and one mirrored route for each destination.
LEMMA PlanSound ==
    ASSUME TypeOK, NEW heard, NEW answer \in Answers,
           NEW first \in [Mirrorable -> Vpns]
    PROVE  LET routes == Planned(heard, first, answer)
           IN  /\ routes \subseteq Route
               /\ \A r \in routes : r.rank = Lan =>
                    \A a \in own : ~CidrContains(r.dest, a)
               /\ \A r \in routes : r.rank = Mirror => r.dev \in Vpns
               /\ \A r, q \in routes :
                    r.rank = Mirror /\ q.rank = Mirror /\ q.dest = r.dest => q = r
<1> DEFINE gateways == DefaultGateways(heard)
           mirrors == OtherVpnRoutes(heard, first)
           lans == ViaGateway(LanRanges, gateways, Lan)
           cidrs == ViaGateway(config.cidrs, gateways, Cidr)
           hosts == ViaGateway({Single(a) : a \in answer}, gateways, Host)
           routes == Planned(heard, first, answer)
<1>1. /\ mirrors \subseteq Route
      /\ \A r \in mirrors : r.rank = Mirror /\ r.dev \in Vpns /\ r.dev = first[r.dest]
  BY MirrorRoutes
<1>2. LanRanges \in SUBSET Prefix
  BY BypassConstants DEF LanRanges
<1>3. config.cidrs \in SUBSET Prefix
  BY BypassConstants DEF TypeOK, Section
<1>4. {Single(a) : a \in answer} \in SUBSET Prefix
  BY BypassConstants, SinglePrefix
<1>5. lans \subseteq Route /\ \A r \in lans : r.rank = Lan /\ r.dest \in LanRanges
  BY <1>2, GatewayRoutes
<1>6. cidrs \subseteq Route /\ \A r \in cidrs : r.rank = Cidr
  BY <1>3, GatewayRoutes
<1>7. hosts \subseteq Route /\ \A r \in hosts : r.rank = Host
  BY <1>4, GatewayRoutes
<1>8. routes \subseteq mirrors \union lans \union cidrs \union hosts
  BY DEF Planned, Dedup
<1> HIDE DEF mirrors, lans, cidrs, hosts, routes
<1>9. routes \subseteq Route
  BY <1>1, <1>5, <1>6, <1>7, <1>8
<1>10. \A r \in routes : r.rank = Lan => r \in lans
  BY <1>1, <1>6, <1>7, <1>8 DEF Mirror, Lan, Cidr, Host
<1>11. \A r \in routes : r.rank = Mirror => r \in mirrors
  BY <1>5, <1>6, <1>7, <1>8 DEF Mirror, Lan, Cidr, Host
<1>12. \A r \in routes : r.rank = Lan => \A a \in own : ~CidrContains(r.dest, a)
  BY <1>5, <1>10 DEF LanRanges
<1>13. \A r, q \in routes :
         r.rank = Mirror /\ q.rank = Mirror /\ q.dest = r.dest => q = r
  <2> SUFFICES ASSUME NEW r \in routes, NEW q \in routes,
                      r.rank = Mirror, q.rank = Mirror, q.dest = r.dest
               PROVE  q = r
    OBVIOUS
  <2>1. r.dev = q.dev
    BY <1>1, <1>11
  <2>2. r \in Route /\ q \in Route
    BY <1>9
  <2>3. QED
    BY <2>1, <2>2 DEF Route
<1>14. \A r \in routes : r.rank = Mirror => r.dev \in Vpns
  BY <1>1, <1>11
<1>15. QED
  BY <1>9, <1>12, <1>13, <1>14 DEF routes

-----------------------------------------------------------------------------
(* Each step keeps the invariant                                           *)

USE DEF vars, machine, settings

\* Before the first tunnel.
LEMMA InvInit == Init => Inv
<1> SUFFICES ASSUME Init PROVE Inv
  OBVIOUS
<1>1. TypeOK
  BY BypassConstants DEF Init, TypeOK
<1>2. QED
  BY <1>1 DEF Init, Inv, Recorded, Based, LanClear, MirrorsApart, MirrorsFirst,
              MirrorsKept

\* A plan is made.
LEMMA NewTunnelInv == Inv /\ NewTunnel => Inv'
<1> SUFFICES ASSUME Inv, NewTunnel PROVE Inv'
  OBVIOUS
<1>1. PICK heard \in SUBSET BOOLEAN, answer \in Answers,
           first \in [Mirrorable -> Vpns] :
        /\ plan' = Planned(heard, first, answer)
        /\ basis' = [own |-> own, routes |-> Planned(heard, first, answer)]
  BY DEF NewTunnel
<1> DEFINE routes == Planned(heard, first, answer)
<1>2. /\ routes \subseteq Route
      /\ \A r \in routes : r.rank = Lan => \A a \in own : ~CidrContains(r.dest, a)
      /\ \A r \in routes : r.rank = Mirror => r.dev \in Vpns
      /\ \A r, q \in routes :
           r.rank = Mirror /\ q.rank = Mirror /\ q.dest = r.dest => q = r
  BY PlanSound DEF Inv
<1>3. plan' = routes /\ basis'.own = own /\ basis'.routes = routes
      /\ basis' = [own |-> own, routes |-> routes]
  BY <1>1
<1> HIDE DEF routes
<1>4. /\ phase = "down" /\ phase' = "installing" /\ waived' = {}
      /\ UNCHANGED <<settings, machine, installed>>
  BY DEF NewTunnel
<1>5. installed' = {}
  BY <1>4 DEF Inv, Recorded
<1>6. own \in SUBSET Address
  BY BypassConstants DEF Inv, TypeOK
<1>7. TypeOK'
  BY <1>2, <1>3, <1>4, <1>6 DEF Inv, TypeOK
<1>8. Recorded' /\ Based' /\ MirrorsFirst' /\ MirrorsKept'
  BY <1>3, <1>4, <1>5 DEF Recorded, Based, MirrorsFirst, MirrorsKept
<1>9. LanClear' /\ MirrorsApart'
  BY <1>2, <1>3 DEF LanClear, MirrorsApart, CidrContains
<1>10. QED
  BY <1>7, <1>8, <1>9 DEF Inv

\* A route of the plan has had its turn.
LEMMA InstallInv == ASSUME Inv, NEW r \in plan, Install(r) PROVE Inv'
<1>1. /\ phase = "installing" /\ phase' = phase /\ plan' = plan \ {r}
      /\ UNCHANGED <<settings, link, tables, basis, moves>>
  BY DEF Install
<1>2. r \in Route /\ r \in basis.routes /\ plan \subseteq basis.routes
      /\ installed \subseteq basis.routes /\ basis.routes \subseteq Route
  BY <1>1 DEF Inv, TypeOK, Based
<1>3. EntryOf(r) \in Entry /\ r.dest \in Prefix
  BY <1>2 DEF EntryOf, Entry, Route
<1>4. \/ main' = main /\ installed' = installed
      \/ main' = main \union {EntryOf(r)} /\ installed' = installed \union {r}
  BY DEF Install, Skip, Add, AddFails
<1>5. waived' = waived \/ waived' = waived \union {r.dest}
  BY DEF Install, Skip, Add, AddFails
<1>6. TypeOK'
  BY <1>1, <1>2, <1>3, <1>4, <1>5 DEF Inv, TypeOK
<1>7. Recorded' /\ Based'
  BY <1>1, <1>2, <1>4 DEF Inv, Recorded, Based
<1>8. LanClear' /\ MirrorsApart'
  BY <1>1 DEF Inv, LanClear, MirrorsApart, CidrContains
<1>9. MirrorsFirst'
  <2> SUFFICES ASSUME NEW q \in plan \ {r}, q.rank = Mirror,
                      NEW i \in installed', i.dest = q.dest
               PROVE  FALSE
    BY <1>1 DEF MirrorsFirst
  <2>1. i = r
    BY <1>4 DEF Inv, MirrorsFirst
  <2>2. r.rank <= q.rank
    BY <2>1 DEF Install, Foremost
  <2>3. r.rank = Mirror
    BY <1>2, <2>2 DEF Route, Mirror, Lan, Cidr, Host
  <2>4. q = r
    BY <1>2, <2>1, <2>3 DEF Inv, MirrorsApart
  <2>5. QED
    BY <2>4
<1>10. MirrorsKept'
  <2> SUFFICES ASSUME NEW q \in basis.routes, q.rank = Mirror
               PROVE  q \in plan' \/ EntryOf(q) \in main' \/ q.dest \in waived'
    BY <1>1 DEF MirrorsKept, EntryOf
  <2>1. q \in plan \/ EntryOf(q) \in main \/ q.dest \in waived
    BY <1>1 DEF Inv, MirrorsKept
  <2>2. CASE q # r
    BY <1>1, <1>4, <1>5, <2>1, <2>2
  <2>3. CASE q = r
    <3>1. \A i \in installed : i.dest # r.dest
      BY <2>3 DEF Inv, MirrorsFirst
    <3>2. CASE Skip(r)
      BY <2>3, <3>1, <3>2 DEF Skip
    <3>3. CASE Add(r)
      BY <2>3, <3>3 DEF Add
    <3>4. CASE AddFails(r)
      BY <2>3, <3>4 DEF AddFails
    <3>5. QED
      BY <3>2, <3>3, <3>4 DEF Install
  <2>4. QED
    BY <2>2, <2>3
<1>11. QED
  BY <1>6, <1>7, <1>8, <1>9, <1>10 DEF Inv

\* The routes are in place, or are withdrawn.
LEMMA PhaseInv ==
    ASSUME Inv, UpEnds \/ Down \/ Removed PROVE Inv'
<1>1. /\ phase' \in {"up", "removing", "down"} /\ plan = {}
      /\ phase' = "up" => phase = "installing"
      /\ phase' = "down" => installed = {}
      /\ phase # "down"
      /\ UNCHANGED <<settings, machine, plan, installed, basis, waived>>
  BY DEF UpEnds, Down, Removed, Inv, Recorded
<1>2. TypeOK'
  BY <1>1 DEF Inv, TypeOK
<1>3. Recorded' /\ Based' /\ MirrorsFirst'
  BY <1>1 DEF Inv, Recorded, Based, MirrorsFirst
<1>4. LanClear' /\ MirrorsApart'
  BY <1>1 DEF Inv, LanClear, MirrorsApart, CidrContains
<1>5. MirrorsKept'
  BY <1>1 DEF Inv, MirrorsKept, EntryOf
<1>6. QED
  BY <1>2, <1>3, <1>4, <1>5 DEF Inv

\* One more route is withdrawn.
LEMMA RemoveInv == ASSUME Inv, NEW r \in installed, Remove(r) PROVE Inv'
<1>1. /\ phase = "removing" /\ installed' \subseteq installed /\ main' \subseteq main
      /\ UNCHANGED <<settings, link, tables, phase, plan, basis, waived, moves>>
  BY DEF Remove, WithoutDestination
<1>2. TypeOK'
  BY <1>1 DEF Inv, TypeOK
<1>3. Recorded' /\ Based' /\ MirrorsFirst' /\ MirrorsKept'
  BY <1>1 DEF Inv, Recorded, Based, MirrorsFirst, MirrorsKept
<1>4. LanClear' /\ MirrorsApart'
  BY <1>1 DEF Inv, LanClear, MirrorsApart, CidrContains
<1>5. QED
  BY <1>2, <1>3, <1>4 DEF Inv

\* The daemon dies.
LEMMA CrashInv == Inv /\ Crash => Inv'
<1> SUFFICES ASSUME Inv, Crash PROVE Inv'
  OBVIOUS
<1>1. /\ phase' = "down" /\ plan' = {} /\ installed' = {} /\ moves' \in 0..MaxMoves
      /\ UNCHANGED <<settings, link, main, tables, basis, waived>>
  BY BypassConstants DEF Crash, Moved, Inv, TypeOK
<1>2. TypeOK'
  BY <1>1 DEF Inv, TypeOK
<1>3. Recorded' /\ Based' /\ MirrorsFirst' /\ MirrorsKept'
  BY <1>1 DEF Recorded, Based, MirrorsFirst, MirrorsKept
<1>4. LanClear' /\ MirrorsApart'
  BY <1>1 DEF Inv, LanClear, MirrorsApart, CidrContains
<1>5. QED
  BY <1>2, <1>3, <1>4 DEF Inv

\* What happens around the daemon leaves its record alone; a mirrored route
\* goes only with its VPN, which waives it.
LEMMA AroundInv ==
    ASSUME Inv, UNCHANGED <<phase, plan, installed, basis>>, TypeOK',
           waived \subseteq waived',
           \A r \in basis.routes : r.rank = Mirror /\ EntryOf(r) \in main =>
             EntryOf(r) \in main' \/ r.dest \in waived'
    PROVE  Inv'
<1>1. Recorded' /\ Based' /\ MirrorsFirst'
  BY DEF Inv, Recorded, Based, MirrorsFirst
<1>2. LanClear' /\ MirrorsApart'
  BY DEF Inv, LanClear, MirrorsApart, CidrContains
<1>3. MirrorsKept'
  BY DEF Inv, MirrorsKept, EntryOf
<1>4. QED
  BY <1>1, <1>2, <1>3 DEF Inv

LEMMA MovedType == ASSUME TypeOK, Moved PROVE moves' \in 0..MaxMoves
  BY BypassConstants DEF Moved, TypeOK

\* The file is read again, or nothing happens at all.
LEMMA ReloadInv == Inv /\ (Reload \/ UNCHANGED vars) => Inv'
<1> SUFFICES ASSUME Inv, Reload \/ UNCHANGED vars PROVE Inv'
  OBVIOUS
<1>1. /\ UNCHANGED <<link, main, tables, phase, plan, installed, basis, waived>>
      /\ config' \in Settings /\ own' \in Clients /\ moves' \in 0..MaxMoves
  BY MovedType DEF Reload, Inv, TypeOK
<1>2. TypeOK'
  BY <1>1 DEF Inv, TypeOK
<1>3. QED
  BY <1>1, <1>2, AroundInv

\* A VPN comes up.
LEMMA VpnStartsInv == ASSUME Inv, NEW d \in Vpns, VpnStarts(d) PROVE Inv'
<1>1. /\ UNCHANGED <<settings, link, phase, plan, installed, basis, waived>>
      /\ moves' \in 0..MaxMoves
  BY MovedType DEF VpnStarts, Inv
<1>2. PICK s \in Served :
        \/ tables' = [tables EXCEPT ![d] = s] /\ UNCHANGED main
        \/ /\ main' = main \union [dest : {p \in s : p.len # 0 /\ ~RouteExists(p)},
                                   dev : {d}]
           /\ UNCHANGED tables
  BY DEF VpnStarts
<1>3. s \in SUBSET Prefix
  BY BypassConstants
<1>4. main \subseteq main'
  BY <1>2
<1>5. main' \subseteq Entry
  BY <1>2, <1>3 DEF Inv, TypeOK, Entry, Devices
<1>6. tables' \in [Vpns -> SUBSET Prefix]
  BY <1>2, <1>3 DEF Inv, TypeOK
<1>7. TypeOK'
  BY <1>1, <1>5, <1>6 DEF Inv, TypeOK
<1>8. QED
  BY <1>1, <1>4, <1>7, AroundInv

\* A VPN goes down.
LEMMA VpnStopsInv == ASSUME Inv, NEW d \in Vpns, VpnStops(d) PROVE Inv'
<1>1. /\ UNCHANGED <<settings, link, phase, plan, installed, basis>>
      /\ moves' \in 0..MaxMoves
      /\ main' = {e \in main : e.dev # d}
      /\ tables' = [tables EXCEPT ![d] = {}]
      /\ waived' = waived \union {r.dest : r \in {q \in basis.routes : q.dev = d}}
  BY MovedType DEF VpnStops, Inv
<1>2. basis.routes \subseteq Route
  BY DEF Inv, TypeOK
<1>3. waived' \subseteq Prefix
  BY <1>1, <1>2 DEF Inv, TypeOK, Route
<1>4. TypeOK'
  BY <1>1, <1>3 DEF Inv, TypeOK
<1>5. \A r \in basis.routes : EntryOf(r) \in main =>
        EntryOf(r) \in main' \/ r.dest \in waived'
  BY <1>1 DEF EntryOf
<1>6. QED
  BY <1>1, <1>4, <1>5, AroundInv

\* A link comes or goes; a VPN is no link.
LEMMA LinkChangesInv == Inv /\ LinkChanges => Inv'
<1> SUFFICES ASSUME Inv, LinkChanges PROVE Inv'
  OBVIOUS
<1>1. /\ UNCHANGED <<settings, tables, phase, plan, installed, basis, waived>>
      /\ moves' \in 0..MaxMoves
      /\ link' \in [BOOLEAN -> Links \union {NoLink}]
      /\ main' = {e \in main : e.dev \in Links => \E v6 \in BOOLEAN : link'[v6] = e.dev}
  BY MovedType DEF LinkChanges, Inv
<1>2. TypeOK'
  BY <1>1 DEF Inv, TypeOK
<1>3. \A r \in basis.routes : r.rank = Mirror /\ EntryOf(r) \in main =>
        EntryOf(r) \in main'
  <2>1. \A r \in basis.routes : r.rank = Mirror => r.dev \notin Links
    BY BypassConstants DEF Inv, MirrorsApart
  <2>2. QED
    BY <1>1, <2>1 DEF EntryOf
<1>4. QED
  BY <1>1, <1>2, <1>3, AroundInv

\* The system routes something.
LEMMA SystemRoutesInv == Inv /\ SystemRoutes => Inv'
<1> SUFFICES ASSUME Inv, SystemRoutes PROVE Inv'
  OBVIOUS
<1>1. /\ UNCHANGED <<settings, link, tables, phase, plan, installed, basis, waived>>
      /\ moves' \in 0..MaxMoves
  BY MovedType DEF SystemRoutes, Inv
<1>2. PICK p \in Attached, l \in Links : main' = main \union {[dest |-> p, dev |-> l]}
  BY DEF SystemRoutes
<1>3. [dest |-> p, dev |-> l] \in Entry
  BY BypassConstants DEF Entry, Devices
<1>4. TypeOK'
  BY <1>1, <1>2, <1>3 DEF Inv, TypeOK
<1>5. QED
  BY <1>1, <1>2, <1>4, AroundInv

-----------------------------------------------------------------------------

\* Every step, of the daemon and around it, keeps the invariant.
THEOREM Invariance == Spec => []Inv
<1>1. Inv /\ [Next]_vars => Inv'
  <2> SUFFICES ASSUME Inv, [Next]_vars PROVE Inv'
    OBVIOUS
  <2>1. CASE NewTunnel
    BY <2>1, NewTunnelInv
  <2>2. CASE \E r \in plan : Install(r)
    BY <2>2, InstallInv
  <2>3. CASE UpEnds \/ Down \/ Removed
    BY <2>3, PhaseInv
  <2>4. CASE \E r \in installed : Remove(r)
    BY <2>4, RemoveInv
  <2>5. CASE Reload \/ UNCHANGED vars
    BY <2>5, ReloadInv
  <2>6. CASE Crash
    BY <2>6, CrashInv
  <2>7. CASE \E d \in Vpns : VpnStarts(d) \/ VpnStops(d)
    BY <2>7, VpnStartsInv, VpnStopsInv
  <2>8. CASE LinkChanges
    BY <2>8, LinkChangesInv
  <2>9. CASE SystemRoutes
    BY <2>9, SystemRoutesInv
  <2>10. QED
    BY <2>1, <2>2, <2>3, <2>4, <2>5, <2>6, <2>7, <2>8, <2>9 DEF Next
<1>2. QED
  BY <1>1, InvInit, PTL DEF Spec

\* Whatever is planned, installed and recorded keeps its type; in particular
\* no route is planned without a device.
THEOREM TypeCorrect == Spec => []TypeOK
<1>1. Inv => TypeOK
  BY DEF Inv
<1>2. QED
  BY <1>1, Invariance, PTL

\* A LAN range that is installed covers no address of the tunnel.
LEMMA Inside == Inv => OwnAddressesInside
<1> SUFFICES ASSUME Inv, phase = "up", NEW a \in basis.own, NEW r \in installed,
                    r.rank = Lan, NEW e \in main, e.dest = r.dest, Decides(e, a)
             PROVE  FALSE
  BY DEF OwnAddressesInside
<1>1. r \in basis.routes
  BY DEF Inv, Based
<1>2. ~CidrContains(r.dest, a)
  BY <1>1 DEF Inv, LanClear
<1>3. r.dest \in Prefix /\ a \in Address
  BY <1>1 DEF Inv, TypeOK, Route
<1>4. Covers(r.dest, a)
  BY DEF Decides
<1>5. QED
  BY <1>2, <1>3, <1>4, MaskExact

\* A mirrored route that was not waived decides, or a longer one does.
LEMMA Kept == Inv => OtherVpnsKept
<1> SUFFICES ASSUME Inv, phase = "up", NEW r \in basis.routes, NEW a \in Address,
                    r.rank = Mirror, r.dest \notin waived, Covers(r.dest, a)
             PROVE  \E e \in main :
                      Decides(e, a) /\ (e.dev = r.dev \/ e.dest.len > r.dest.len)
  BY DEF OtherVpnsKept
<1> DEFINE f == EntryOf(r)
<1>1. f \in main
  BY DEF Inv, MirrorsKept, Recorded
<1>2. f.dest = r.dest /\ f.dev = r.dev
  BY DEF EntryOf
<1>3. main \subseteq Entry
  BY DEF Inv, TypeOK
<1> HIDE DEF f
<1>4. PICK d \in main : Decides(d, a) /\ d.dest.len >= f.dest.len
  BY <1>1, <1>2, <1>3, SomeDecides
<1>5. d.dest.len \in Int /\ f.dest.len \in Int
  BY <1>1, <1>3 DEF Entry, Prefix
<1>6. CASE d.dest.len > f.dest.len
  BY <1>2, <1>4, <1>6
<1>7. CASE d.dest.len = f.dest.len
  <2>1. Decides(f, a)
    BY <1>2, <1>4, <1>7 DEF Decides
  <2>2. QED
    BY <1>1, <1>2, <2>1
<1>8. QED
  BY <1>4, <1>5, <1>6, <1>7

\* For addresses of any width and any VPNs: no LAN range carries an address of
\* the tunnel out of it, and what another VPN served is still its own.
THEOREM Routing == Spec => []RoutedAsAsked
<1>1. Inv => RoutedAsAsked
  BY Inside, Kept DEF RoutedAsAsked
<1>2. QED
  BY <1>1, Invariance, PTL

=============================================================================
