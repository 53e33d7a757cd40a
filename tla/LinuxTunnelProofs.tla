-------------------------- MODULE LinuxTunnelProofs -------------------------
(***************************************************************************)
(* Proofs about LinuxTunnel for any fleet, any set of ports and of         *)
(* destinations, and any bound on the calls that duplicate a rule.         *)
(***************************************************************************)
EXTENDS LinuxOperations, TLAPS

-----------------------------------------------------------------------------
(* The inductive invariant, in parts                                       *)

UpPcs == {"up_bypass", "up_engage", "up_create", "up_configure", "up_route",
          "up_prune", "up_dns", "up_undo"}
SwitchPcs == {"sw_remove", "sw_rotate", "sw_peer", "sw_route", "sw_prune"}
DownPcs == {"down_iface", "down_bypass", "down_release"}

\* Which calls run with and without a reported connection.
Connection ==
    /\ pc \in UpPcs \cup {"drop"} => conn = NoServer
    /\ pc \in SwitchPcs \cup DownPcs => conn # NoServer
    /\ pc \in UpPcs \cup SwitchPcs => target # NoServer

\* Where the interface must exist, and that rules never outlive it.
Interface ==
    /\ pc \in {"up_configure", "up_route", "up_prune", "up_dns", "down_iface"}
            \cup SwitchPcs => iface
    /\ pc = "idle" /\ conn # NoServer => iface
    /\ rules > 0 => iface

\* Once a rule has been added, one stays for as long as the operation that
\* added it, or the connection, does.
Ruled ==
    /\ pc \in {"up_prune", "up_dns"} => rules > 0
    /\ conn # NoServer /\ pc \notin {"down_bypass", "down_release"} => rules > 0

\* The listen port is a secret between the kernel and the one peer.  While
\* retarget replaces the peer there is none, and between the rotation and
\* configure_peer nobody knows the port at all.
Secret ==
    /\ peer # NoServer /\ port # NoPort
            => \A s \in Servers : knows[s] = port => s = peer
    /\ pc \in {"sw_rotate", "sw_peer"} => peer = NoServer
    /\ pc = "sw_peer" /\ port # NoPort => \A s \in Servers : knows[s] # port

\* What the routing steps have achieved so far.
Routed ==
    /\ pc \in {"up_route", "up_prune", "up_dns", "sw_route", "sw_prune"}
            => peer = target
    /\ pc \in {"up_prune", "up_dns", "sw_prune"} => table

\* The bypass records only routes of the plan to destinations that the system
\* did not route then.
Recorded ==
    /\ installed \subseteq plan
    /\ installed \cap foreign \subseteq late

\* Between engaging and releasing, the rules in force are this tunnel's.
Guarded ==
    killswitch /\ pc \notin {"up_bypass", "up_engage", "drop"}
        => nft /\ allow \subseteq Link \cup (IF lan THEN Lan ELSE {}) \cup plan

\* As long as no clean-up failed, the tunnel object accounts for everything.
Accounted ==
    /\ pc = "up_bypass" => installed = {}
    /\ pc = "idle" /\ conn = NoServer
            => ~created /\ ~killswitch /\ installed = {}
    /\ ~dirty => /\ iface => created
                 /\ nft => killswitch
                 /\ ours \subseteq installed

Inv == /\ TypeOK /\ Connection /\ Interface /\ Ruled /\ Secret
       /\ Routed /\ Recorded /\ Guarded /\ Accounted
-----------------------------------------------------------------------------
(* The invariant is inductive                                              *)

USE DEF vars, object, wg, routing, main, firewall, history

\* A machine without a tunnel satisfies the invariant.
LEMMA InvInit == Init => Inv
<1> SUFFICES ASSUME Init PROVE Inv
  OBVIOUS
<1> USE ServerAssumption, PortAssumption DEF Init
<1>2. TypeOK
  BY DEF TypeOK, PcValues
<1>3. Connection /\ Interface /\ Ruled
  BY DEF Connection, Interface, Ruled, UpPcs, SwitchPcs, DownPcs
<1>4. Secret /\ Routed /\ Recorded /\ Guarded /\ Accounted
  BY DEF Secret, Routed, Recorded, Guarded, Accounted
<1>5. QED
  BY <1>2, <1>3, <1>4 DEF Inv

\* The steps of up preserve it.
LEMMA UpInv == Inv /\ UpSteps => Inv'
<1> SUFFICES ASSUME Inv, UpSteps PROVE Inv'
  OBVIOUS
<1> USE ServerAssumption, PortAssumption
<1> USE DEF Inv, TypeOK, PcValues, Connection, Interface, Ruled,
       Secret, Routed, Recorded, Guarded, Accounted, UpPcs, SwitchPcs, DownPcs
<1>1. CASE UpRejected
  BY <1>1 DEF UpRejected
<1>2. CASE InstallBypass
  <2>1. TypeOK'
    BY <1>2 DEF InstallBypass, Unrouted
  <2>2. Connection' /\ Interface' /\ Ruled'
    BY <1>2 DEF InstallBypass, Unrouted
  <2>3. Secret' /\ Routed'
    BY <1>2 DEF InstallBypass, Unrouted
  <2>4. Recorded' /\ Guarded' /\ Accounted'
    BY <1>2 DEF InstallBypass, Unrouted
  <2>5. QED
    BY <2>1, <2>2, <2>3, <2>4
<1>3. CASE EngageKillswitch
  <2>0. Accepted \in SUBSET (Destinations \ {Internet})
    BY DestAssumption DEF Accepted, Destinations
  <2>1. TypeOK'
    <3>1. allow' \in {allow, Accepted} /\ nft' \in BOOLEAN /\ pc' \in {"up_create", "drop"}
      BY <1>3 DEF EngageKillswitch
    <3>2. allow' \in SUBSET (Destinations \ {Internet})
      BY <2>0, <3>1
    <3>3. QED
      BY <1>3, <3>1, <3>2 DEF EngageKillswitch
  <2>2. Connection' /\ Interface' /\ Ruled'
    BY <1>3 DEF EngageKillswitch, Accepted
  <2>3. Secret' /\ Routed'
    BY <1>3 DEF EngageKillswitch, Accepted
  <2>4. Recorded' /\ Guarded' /\ Accounted'
    BY <1>3 DEF EngageKillswitch, Accepted
  <2>5. QED
    BY <2>1, <2>2, <2>3, <2>4
<1>4. CASE CreateInterface
  <2>1. TypeOK'
    BY <1>4 DEF CreateInterface
  <2>2. Connection' /\ Interface' /\ Ruled'
    BY <1>4 DEF CreateInterface
  <2>3. Secret' /\ Routed'
    BY <1>4 DEF CreateInterface
  <2>4. Recorded' /\ Guarded' /\ Accounted'
    BY <1>4 DEF CreateInterface
  <2>5. QED
    BY <2>1, <2>2, <2>3, <2>4
<1>5. CASE ConfigureInterface
  BY <1>5 DEF ConfigureInterface, FreshPorts
<1>6. CASE UpRoute
  <2>1. CASE pc' = "up_prune" /\ ConfigurePeerRouting
    <3>1. rules' > 0 /\ rules' \in Nat
      BY <1>6, <2>1 DEF UpRoute, ConfigurePeerRouting
    <3>2. TypeOK'
      BY <2>1, <3>1 DEF ConfigurePeerRouting
    <3>3. QED
      BY <1>6, <2>1, <3>1, <3>2 DEF UpRoute, ConfigurePeerRouting
  <2>2. CASE pc' = "up_undo" /\ ConfigurePeerRoutingFails
    <3>1. rules' \in Nat /\ rules' >= rules
      BY <1>6, <2>2 DEF UpRoute, ConfigurePeerRoutingFails
    <3>2. table' \in BOOLEAN
      BY <2>2 DEF ConfigurePeerRoutingFails
    <3>3. TypeOK'
      BY <2>2, <3>1, <3>2 DEF ConfigurePeerRoutingFails
    <3>4. QED
      BY <1>6, <2>2, <3>1, <3>3 DEF UpRoute, ConfigurePeerRoutingFails
  <2>3. QED
    BY <1>6, <2>1, <2>2 DEF UpRoute
<1>7. CASE UpPruned
  BY <1>7 DEF UpPruned
<1>8. CASE ConfigureDns
  BY <1>8 DEF ConfigureDns
<1>9. CASE UndoUp
  <2>1. ~dirty' => ~dirty /\ ours' \subseteq installed'
    BY <1>9 DEF UndoUp, RemoveBypass, Withdraw
  <2>2. nft' => nft
    BY <1>9 DEF UndoUp, Release
  <2>3. Accounted'
    BY <1>9, <2>1, <2>2 DEF UndoUp
  <2>4. TypeOK' /\ Recorded'
    BY <1>9 DEF UndoUp, RemoveBypass, Withdraw, Release
  <2>5. QED
    BY <1>9, <2>3, <2>4 DEF UndoUp
<1>10. QED
  BY <1>1, <1>2, <1>3, <1>4, <1>5, <1>6, <1>7, <1>8, <1>9 DEF UpSteps

\* The steps of switch_endpoint preserve it.
LEMMA SwitchInv == Inv /\ SwitchSteps => Inv'
<1> SUFFICES ASSUME Inv, SwitchSteps PROVE Inv'
  OBVIOUS
<1> USE ServerAssumption, PortAssumption
<1> USE DEF Inv, TypeOK, PcValues, Connection, Interface, Ruled,
       Secret, Routed, Recorded, Guarded, Accounted, UpPcs, SwitchPcs, DownPcs
<1>1. CASE RemovePeer
  BY <1>1 DEF RemovePeer
<1>2. CASE RotateListenPort
  BY <1>2 DEF RotateListenPort, FreshPorts
<1>3. CASE ConfigurePeer
  BY <1>3 DEF ConfigurePeer
<1>4. CASE SwitchRoute
  <2>1. CASE pc' = "sw_prune" /\ ConfigurePeerRouting
    <3>1. rules' > 0 /\ rules' \in Nat
      BY <1>4, <2>1 DEF SwitchRoute, ConfigurePeerRouting
    <3>2. TypeOK'
      BY <2>1, <3>1 DEF ConfigurePeerRouting
    <3>3. QED
      BY <1>4, <2>1, <3>1, <3>2 DEF SwitchRoute, ConfigurePeerRouting
  <2>2. CASE pc' = "idle" /\ ConfigurePeerRoutingFails
    <3>1. rules' \in Nat /\ rules' >= rules
      BY <1>4, <2>2 DEF SwitchRoute, ConfigurePeerRoutingFails
    <3>2. table' \in BOOLEAN
      BY <2>2 DEF ConfigurePeerRoutingFails
    <3>3. TypeOK'
      BY <2>2, <3>1, <3>2 DEF ConfigurePeerRoutingFails
    <3>4. QED
      BY <1>4, <2>2, <3>1, <3>3 DEF SwitchRoute, ConfigurePeerRoutingFails
  <2>3. QED
    BY <1>4, <2>1, <2>2 DEF SwitchRoute
<1>5. CASE SwitchDone
  BY <1>5 DEF SwitchDone
<1>6. QED
  BY <1>1, <1>2, <1>3, <1>4, <1>5 DEF SwitchSteps

\* The steps of down, and Drop, preserve it.
LEMMA DownInv == Inv /\ DownSteps => Inv'
<1> SUFFICES ASSUME Inv, DownSteps PROVE Inv'
  OBVIOUS
<1> USE ServerAssumption, PortAssumption
<1> USE DEF Inv, TypeOK, PcValues, Connection, Interface, Ruled,
       Secret, Routed, Recorded, Guarded, Accounted, UpPcs, SwitchPcs, DownPcs
<1>1. CASE DownInterface
  <2>1. rules' = 0 \/ rules' = rules
    BY <1>1 DEF DownInterface, RemoveInterface
  <2>2. rules' \in Nat
    BY <1>1, <2>1 DEF DownInterface
  <2>3. TypeOK'
    BY <1>1, <2>2 DEF DownInterface, RemoveInterface
  <2>4. rules' > 0 => iface'
    <3>1. CASE RemoveInterface
      BY <3>1 DEF RemoveInterface
    <3>2. CASE UNCHANGED <<wg, routing>>
      BY <3>2
    <3>3. QED
      BY <1>1, <3>1, <3>2 DEF DownInterface, RemoveInterface
  <2>5. QED
    BY <1>1, <2>2, <2>3, <2>4 DEF DownInterface, RemoveInterface
<1>2. CASE DownBypass
  <2>1. ~dirty' => ~dirty /\ ours' \subseteq installed'
    BY <1>2 DEF DownBypass, RemoveBypass, Withdraw
  <2>2. TypeOK' /\ Recorded'
    BY <1>2 DEF DownBypass, RemoveBypass, Withdraw
  <2>3. Accounted'
    BY <1>2, <2>1 DEF DownBypass
  <2>4. QED
    BY <1>2, <2>2, <2>3 DEF DownBypass
<1>3. CASE DownRelease
  <2>1. TypeOK'
    BY <1>3 DEF DownRelease, Release
  <2>2. Connection' /\ Interface' /\ Ruled'
    BY <1>3 DEF DownRelease, Release
  <2>3. Secret' /\ Routed'
    BY <1>3 DEF DownRelease, Release
  <2>4. Recorded' /\ Guarded' /\ Accounted'
    BY <1>3 DEF DownRelease, Release
  <2>5. QED
    BY <2>1, <2>2, <2>3, <2>4
<1>4. CASE Drop
  <2>1. rules' = 0 \/ rules' = rules
    BY <1>4 DEF Drop, RemoveInterface
  <2>2. rules' \in Nat
    BY <1>4, <2>1 DEF Drop
  <2>3. TypeOK'
    BY <1>4, <2>2 DEF Drop, Withdraw, RemoveInterface, Release
  <2>4. Connection'
    BY <1>4 DEF Drop, Withdraw, RemoveInterface, Release
  <2>5. Interface'
    BY <1>4 DEF Drop, Withdraw, RemoveInterface, Release
  <2>6. Ruled'
    BY <1>4 DEF Drop, Withdraw, RemoveInterface, Release
  <2>7. Secret'
    BY <1>4 DEF Drop, Withdraw, RemoveInterface, Release
  <2>8. Routed'
    BY <1>4 DEF Drop, Withdraw, RemoveInterface, Release
  <2>9. Recorded'
    BY <1>4 DEF Drop, Withdraw, RemoveInterface, Release
  <2>10. Guarded'
    BY <1>4 DEF Drop, Withdraw, RemoveInterface, Release
  <2>11. Accounted'
    BY <1>4 DEF Drop, Withdraw, RemoveInterface, Release
  <2>12. QED
    BY <1>4, <2>2, <2>3, <2>4, <2>5, <2>6, <2>7, <2>8, <2>9, <2>10, <2>11
<1>5. QED
  BY <1>1, <1>2, <1>3, <1>4 DEF DownSteps

\* Calls, crashes, packets of the fleet and the system's routes preserve it.
LEMMA OtherInv == Inv /\ (PruneRule \/ Call \/ Crash \/ Fleet \/ System) => Inv'
<1> SUFFICES ASSUME Inv, PruneRule \/ Call \/ Crash \/ Fleet \/ System PROVE Inv'
  OBVIOUS
<1> USE ServerAssumption, PortAssumption
<1> USE DEF Inv, TypeOK, PcValues, Connection, Interface, Ruled,
       Secret, Routed, Recorded, Guarded, Accounted, UpPcs, SwitchPcs, DownPcs
<1>1. CASE PruneRule
  BY <1>1 DEF PruneRule, Duplicated
<1>2. ASSUME NEW s \in Servers, NEW ks \in BOOLEAN, NEW al \in BOOLEAN,
             NEW p \in SUBSET Bypassable, Up(s, ks, al, p)
      PROVE  Inv'
  BY <1>2 DEF Up
<1>3. ASSUME NEW s \in Servers, Switch(s) PROVE Inv'
  BY <1>3 DEF Switch
<1>4. CASE Down
  BY <1>4 DEF Down
<1>5. CASE Crash
  BY <1>5 DEF Crash
<1>6. CASE Transmit
  BY <1>6 DEF Transmit, Listening
<1>7. ASSUME NEW s \in Servers, Handshake(s) PROVE Inv'
  BY <1>7 DEF Handshake, Listening
<1>8. ASSUME NEW s \in Servers, Data(s) PROVE Inv'
  BY <1>8 DEF Data, Listening
<1>9. ASSUME NEW d \in Bypassable, AddRoute(d) \/ TakeRoute(d) PROVE Inv'
  BY <1>9 DEF AddRoute, TakeRoute
<1>10. ASSUME NEW d \in Bypassable, PurgeRoute(d) PROVE Inv'
  BY <1>10 DEF PurgeRoute
<1>11. QED
  BY <1>1, <1>2, <1>3, <1>4, <1>5, <1>6, <1>7, <1>8, <1>9, <1>10
     DEF Call, Fleet, System

\* So every step does.
LEMMA InvNext == Inv /\ [Next]_vars => Inv'
<1>1. Inv /\ UNCHANGED vars => Inv'
  BY DEF Inv, TypeOK, PcValues, Connection, Interface, Ruled,
       Secret, Routed, Recorded, Guarded, Accounted, UpPcs, SwitchPcs, DownPcs
<1>2. QED
  BY <1>1, UpInv, SwitchInv, DownInv, OtherInv DEF Next, Step

\* The invariant holds in every reachable state.
THEOREM Invariance == Spec => []Inv
BY InvInit, InvNext, PTL DEF Spec

-----------------------------------------------------------------------------
(* What follows from it                                                    *)

\* Type correctness, including that the rules of the kill switch never admit
\* the rest of the Internet.
THEOREM TypeCorrect == Spec => []TypeOK
BY Invariance, PTL DEF Inv

\* prune_duplicate_policy_rules: no moment of a connection is without the
\* rule that directs traffic into the tunnel.
THEOREM RuleStays == Spec => []RuleNeverMissing
<1>1. Inv => RuleNeverMissing
  BY DEF Inv, Ruled, RuleNeverMissing
<1>2. QED
  BY <1>1, Invariance, PTL

\* With the kill switch engaged, nothing leaves in the clear but the bypass,
\* the link's own traffic and, under allow_lan, private ranges.
THEOREM Confinement == Spec => []KillswitchConfines
<1>1. Inv => KillswitchConfines
  BY DEF Inv, Guarded, KillswitchConfines, InTheClear, Dropped
<1>2. QED
  BY <1>1, Invariance, PTL

\* Bypass::install and Bypass::remove leave the system's own routes alone,
\* but for one set up later at a destination that the Bypass had recorded.
THEOREM ForeignRoutes == Spec => ForeignRoutesKept
<1> DEFINE Kept == ~System => foreign \ foreign' \subseteq late
<1>1. Inv /\ [Next]_vars => Kept
  <2> SUFFICES ASSUME Inv, [Next]_vars, ~System
               PROVE  foreign \ foreign' \subseteq late
    OBVIOUS
  <2> USE DEF Inv, Recorded
  <2>1. CASE UndoUp \/ DownBypass \/ Drop
    <3>1. \E dests \in SUBSET installed : Withdraw(dests)
      BY <2>1 DEF UndoUp, DownBypass, Drop, RemoveBypass
    <3>2. QED
      BY <3>1 DEF Withdraw
  <2>2. CASE UpSteps /\ ~UndoUp
    BY <2>2 DEF UpSteps, UpRejected, InstallBypass, EngageKillswitch, CreateInterface,
                ConfigureInterface, UpRoute, ConfigurePeerRouting,
                ConfigurePeerRoutingFails, UpPruned, ConfigureDns
  <2>3. CASE SwitchSteps
    BY <2>3 DEF SwitchSteps, RemovePeer, RotateListenPort, ConfigurePeer, SwitchRoute,
                ConfigurePeerRouting, ConfigurePeerRoutingFails, SwitchDone
  <2>4. CASE DownInterface \/ DownRelease
    BY <2>4 DEF DownInterface, DownRelease
  <2>5. CASE PruneRule \/ Call \/ Crash \/ Fleet
    BY <2>5 DEF PruneRule, Call, Up, Switch, Down, Crash, Fleet, Transmit, Handshake,
                Data
  <2>6. QED
    BY <2>1, <2>2, <2>3, <2>4, <2>5 DEF Next, Step, DownSteps
<1>2. QED
  BY <1>1, Invariance, PTL DEF Spec, ForeignRoutesKept

\* down, and an up that fails at any call, clean up completely.
THEOREM CleanEnd == Spec => []NoResidue
<1>1. Inv => NoResidue
  <2> SUFFICES ASSUME Inv, pc = "idle", conn = NoServer, ~dirty
               PROVE  ~iface /\ rules = 0 /\ ~nft /\ ours = {}
    BY DEF NoResidue
  <2>1. ~iface /\ ~nft /\ ours = {}
    BY DEF Inv, Accounted
  <2>2. rules = 0
    BY <2>1 DEF Inv, TypeOK, Interface
  <2>3. QED
    BY <2>1, <2>2
<1>2. QED
  BY <1>1, Invariance, PTL

\* No packet of the fleet, and no step of an operation, points the tunnel at
\* a server other than the one the caller asked for.
THEOREM EndpointIntegrity == Spec => EndpointOnlyByCaller
<1> DEFINE Kept == peer' # peer => peer' \in {NoServer, target}
<1>1. Inv /\ [Next]_vars => Kept
  <2> SUFFICES ASSUME Inv, [Next]_vars PROVE Kept
    OBVIOUS
  <2>1. CASE UpSteps
    BY <2>1 DEF UpSteps, UpRejected, InstallBypass, EngageKillswitch, CreateInterface,
                ConfigureInterface, UpRoute, ConfigurePeerRouting,
                ConfigurePeerRoutingFails, UpPruned, ConfigureDns, UndoUp
  <2>2. CASE SwitchSteps
    BY <2>2 DEF SwitchSteps, RemovePeer, RotateListenPort, ConfigurePeer, SwitchRoute,
                ConfigurePeerRouting, ConfigurePeerRoutingFails, SwitchDone
  <2>3. CASE DownSteps
    BY <2>3 DEF DownSteps, DownInterface, DownBypass, DownRelease, Drop, RemoveInterface
  <2>4. CASE PruneRule \/ Call \/ Crash \/ Transmit \/ System
    BY <2>4 DEF PruneRule, Call, Up, Switch, Down, Crash, Transmit, System, AddRoute,
                TakeRoute, PurgeRoute
  <2>5. ASSUME NEW s \in Servers, Handshake(s) \/ Data(s) PROVE Kept
    BY <2>5 DEF Handshake, Data, Listening, Inv, Secret
  <2>6. CASE UNCHANGED vars
    BY <2>6
  <2>7. QED
    BY <2>1, <2>2, <2>3, <2>4, <2>5, <2>6 DEF Next, Step, Fleet
<1>2. QED
  BY <1>1, Invariance, PTL DEF Spec, EndpointOnlyByCaller

-----------------------------------------------------------------------------
(* The backend implements the contract of module Tunnel                    *)

USE DEF Contract!Next, Contract!vars, Contract!Ask, Contract!Guard, Contract!Attach,
        Contract!Detach, Contract!Report, Contract!TearDown

\* What Exit is, before and after a step.
LEMMA ExitIs ==
    ASSUME Inv, Inv'
    PROVE  /\ Exit = IF iface /\ rules > 0 /\ table THEN peer ELSE NoServer
           /\ Exit' = IF iface' /\ rules' > 0 /\ table' THEN peer' ELSE NoServer
BY DestAssumption DEF Exit, Tunnelled, Inv, TypeOK

\* The steps of up refine Guard, Attach, Detach, Report, TearDown or nothing.
LEMMA UpContract == Inv /\ Inv' /\ UpSteps => [Contract!Next]_(Contract!vars)
<1> SUFFICES ASSUME Inv, Inv', UpSteps PROVE [Contract!Next]_(Contract!vars)
  OBVIOUS
<1>1. CASE UpRejected \/ InstallBypass \/ UpPruned
  <2>1. UNCHANGED <<target, conn, nft, iface, rules, table, peer>>
    BY <1>1 DEF UpRejected, InstallBypass, UpPruned
  <2>2. QED
    BY <2>1, ExitIs
<1>2. CASE EngageKillswitch
  BY <1>2, ExitIs DEF EngageKillswitch, Inv, Connection, UpPcs
<1>3. CASE CreateInterface
  BY <1>3, ExitIs DEF CreateInterface, Inv, Interface
<1>4. CASE ConfigureInterface
  <2>1. UNCHANGED <<target, conn, nft, iface, rules>>
    BY <1>4 DEF ConfigureInterface
  <2>2. Exit' \in {Exit, target, NoServer}
    <3>1. CASE peer' = target
      BY <3>1, ExitIs
    <3>2. CASE UNCHANGED <<peer, table>>
      BY <2>1, <3>2, ExitIs
    <3>3. QED
      BY <1>4, <3>1, <3>2 DEF ConfigureInterface
  <2>3. QED
    BY <2>1, <2>2
<1>5. CASE UpRoute
  BY <1>5, ExitIs DEF UpRoute, ConfigurePeerRouting, ConfigurePeerRoutingFails, Inv,
                      Routed, TypeOK
<1>6. CASE ConfigureDns
  BY <1>6, ExitIs DEF ConfigureDns, Inv, Routed, Ruled, Interface, Connection, UpPcs
<1>7. CASE UndoUp
  BY <1>7, ExitIs DEF UndoUp, Release, Inv, Connection, UpPcs
<1>8. QED
  BY <1>1, <1>2, <1>3, <1>4, <1>5, <1>6, <1>7 DEF UpSteps

\* The steps of switch_endpoint refine Detach, Attach, Report or nothing.
LEMMA SwitchContract == Inv /\ Inv' /\ SwitchSteps => [Contract!Next]_(Contract!vars)
<1> SUFFICES ASSUME Inv, Inv', SwitchSteps PROVE [Contract!Next]_(Contract!vars)
  OBVIOUS
<1>1. CASE RemovePeer
  BY <1>1, ExitIs DEF RemovePeer
<1>2. CASE RotateListenPort
  <2>1. UNCHANGED <<target, conn, nft>> /\ peer = NoServer /\ peer' = NoServer
    BY <1>2 DEF RotateListenPort, Inv, Secret
  <2>2. QED
    BY <2>1, ExitIs
<1>3. CASE ConfigurePeer
  BY <1>3, ExitIs DEF ConfigurePeer
<1>4. CASE SwitchRoute
  BY <1>4, ExitIs DEF SwitchRoute, ConfigurePeerRouting, ConfigurePeerRoutingFails,
                      Inv, Routed, TypeOK
<1>5. CASE SwitchDone
  BY <1>5, ExitIs DEF SwitchDone, Inv, Routed, Ruled, Interface, Connection, SwitchPcs
<1>6. QED
  BY <1>1, <1>2, <1>3, <1>4, <1>5 DEF SwitchSteps

\* The steps of down refine Detach, TearDown or nothing.
LEMMA DownContract == Inv /\ Inv' /\ DownSteps => [Contract!Next]_(Contract!vars)
<1> SUFFICES ASSUME Inv, Inv', DownSteps PROVE [Contract!Next]_(Contract!vars)
  OBVIOUS
<1>1. CASE DownInterface
  BY <1>1, ExitIs DEF DownInterface, RemoveInterface
<1>2. CASE DownBypass
  <2>1. UNCHANGED <<target, conn, nft, iface, rules, table, peer>>
    BY <1>2 DEF DownBypass
  <2>2. QED
    BY <2>1, ExitIs
<1>3. CASE DownRelease
  BY <1>3, ExitIs DEF DownRelease, Release
<1>4. CASE Drop
  <2>1. UNCHANGED target /\ conn' = NoServer /\ nft' \in {nft, FALSE}
    BY <1>4 DEF Drop, Release, Inv, Connection
  <2>2. Exit' \in {Exit, NoServer}
    BY <1>4, ExitIs DEF Drop, RemoveInterface
  <2>3. QED
    BY <2>1, <2>2
<1>5. QED
  BY <1>1, <1>2, <1>3, <1>4 DEF DownSteps

\* A call refines Ask, a crash TearDown; pruning, packets and the system's
\* routes refine nothing.
LEMMA OtherContract ==
    Inv /\ Inv' /\ (PruneRule \/ Call \/ Crash \/ Fleet \/ System)
        => [Contract!Next]_(Contract!vars)
<1> SUFFICES ASSUME Inv, Inv', PruneRule \/ Call \/ Crash \/ Fleet \/ System
             PROVE  [Contract!Next]_(Contract!vars)
  OBVIOUS
<1>1. CASE PruneRule
  BY <1>1, ExitIs DEF PruneRule, Duplicated, Inv, TypeOK
<1>2. ASSUME NEW s \in Servers, NEW ks \in BOOLEAN, NEW al \in BOOLEAN,
             NEW p \in SUBSET Bypassable, Up(s, ks, al, p)
      PROVE  Contract!Next
  BY <1>2, ExitIs DEF Up
<1>3. ASSUME NEW s \in Servers, Switch(s) PROVE Contract!Next
  BY <1>3, ExitIs DEF Switch
<1>4. CASE Down
  BY <1>4, ExitIs DEF Down
<1>5. CASE Crash
  BY <1>5, ExitIs DEF Crash
<1>6. CASE Fleet
  <2>1. UNCHANGED <<target, conn, nft, iface, rules, table>>
    BY <1>6 DEF Fleet, Transmit, Handshake, Data
  <2>2. peer' = peer
    BY <1>6 DEF Fleet, Transmit, Handshake, Data, Listening, Inv, Secret
  <2>3. QED
    BY <2>1, <2>2, ExitIs
<1>7. CASE System
  <2>1. UNCHANGED <<target, conn, nft, iface, rules, table, peer>>
    BY <1>7 DEF System, AddRoute, TakeRoute, PurgeRoute
  <2>2. QED
    BY <2>1, ExitIs
<1>8. QED
  BY <1>1, <1>2, <1>3, <1>4, <1>5, <1>6, <1>7 DEF Call

\* The Linux backend implements the contract its caller relies on: traffic
\* comes out of a server only because the caller asked for it, success is
\* reported only when it does, and the kill switch outlasts the connection.
THEOREM Refinement == Spec => KeepsContract
<1>1. Init => Contract!Init
  BY DEF Init, Contract!Init, Exit
<1>2. Inv /\ Inv' /\ [Next]_vars => [Contract!Next]_(Contract!vars)
  <2>1. Inv /\ Inv' /\ UNCHANGED vars => UNCHANGED Contract!vars
    BY ExitIs
  <2>2. QED
    BY <2>1, UpContract, SwitchContract, DownContract, OtherContract DEF Next, Step
<1>3. QED
  BY <1>1, <1>2, Invariance, PTL DEF Spec, KeepsContract, Contract!Spec

-----------------------------------------------------------------------------
(* What the daemon assumes of an operation is what the backend leaves      *)

HIDE DEF Contract!Next, Contract!vars, Contract!Ask, Contract!Guard, Contract!Attach,
         Contract!Detach, Contract!Report, Contract!TearDown
USE DEF histories

\* The operation that is under way.
UnderWay ==
    /\ pc \in UpPcs => op = "up"
    /\ pc \in SwitchPcs => op = "switch"
    /\ pc \in DownPcs => op = "down"
    /\ pc = "drop" => op \in {"up", "down"}

\* What the daemon last saw is still so while no operation is under way.
Current == pc = "idle" => seen = Sight

\* Only rules that are in force admit anything.
Closed == opened \in BOOLEAN /\ (opened => nft)

RulesSeen == nft = seen.on /\ opened = seen.bypass

\* up has left the traffic where it was, taken it to its server or stopped it,
\* and has replaced the rules only if it has a kill switch of its own.
Raising ==
    pc # "idle" /\ op = "up" =>
      /\ seen.current = NoServer /\ seen.armed = FALSE /\ seen.routed = FALSE
      /\ Exit \in {seen.exit, target, NoServer}
      /\ \/ RulesSeen
         \/ killswitch /\ nft = FALSE /\ opened = FALSE
         \/ killswitch /\ nft = TRUE /\ (opened <=> plan # {})
      /\ killswitch /\ pc \in {"up_create", "up_configure", "up_route", "up_prune",
                               "up_dns"} => nft = TRUE /\ (opened <=> plan # {})

\* switch_endpoint does not touch the rules.
Moving ==
    pc \in SwitchPcs =>
      /\ seen.current = conn /\ seen.armed = killswitch
      /\ seen.routed \in BOOLEAN /\ (seen.routed <=> plan # {})
      /\ Exit \in {seen.exit, target, NoServer}
      /\ RulesSeen

\* down takes the traffic nowhere, and lifts only the tunnel's own rules.
Lowering ==
    pc # "idle" /\ op = "down" =>
      /\ seen.current # NoServer /\ seen.armed = killswitch
      /\ Exit \in {seen.exit, NoServer}
      /\ RulesSeen \/ (killswitch /\ nft = FALSE /\ opened = FALSE)

Observed == UnderWay /\ Current /\ Closed /\ Raising /\ Moving /\ Lowering

\* Where the traffic may go with a step.
LEMMA ExitFollows ==
    ASSUME Inv, Inv', Step
    PROVE  /\ Exit' \in {Exit, target, NoServer}
           /\ DownSteps => Exit' \in {Exit, NoServer}
<1>1. [Contract!Next]_(Contract!vars)
  BY UpContract, SwitchContract, DownContract, OtherContract DEF Step
<1>2. Exit' \in {Exit, target, NoServer}
  BY <1>1 DEF Contract!Next, Contract!vars, Contract!Ask, Contract!Guard,
              Contract!Attach, Contract!Detach, Contract!Report, Contract!TearDown
<1>3. ASSUME DownSteps PROVE Exit' \in {Exit, NoServer}
  <2>1. CASE DownInterface
    BY <2>1, ExitIs DEF DownInterface, RemoveInterface
  <2>2. CASE DownBypass \/ DownRelease
    <3>1. UNCHANGED <<iface, rules, table, peer>>
      BY <2>2 DEF DownBypass, DownRelease
    <3>2. QED
      BY <3>1, ExitIs
  <2>3. CASE Drop
    BY <2>3, ExitIs DEF Drop, RemoveInterface
  <2>4. QED
    BY <1>3, <2>1, <2>2, <2>3 DEF DownSteps
<1>4. QED
  BY <1>2, <1>3

\* The control flow of up, and what its steps do to the rules in force.
Engaged == {"up_create", "up_configure", "up_route", "up_prune", "up_dns"}

LEMMA UpFlow ==
    ASSUME UpSteps
    PROVE  /\ pc \in UpPcs /\ pc' \in UpPcs \cup {"drop", "idle"}
           /\ UNCHANGED <<target, killswitch, plan>>
           /\ IF pc' = "idle" THEN pc = "up_dns" /\ conn' = target ELSE conn' = conn
           /\ pc' \in Engaged \cup {"idle"} => pc \in Engaged \cup {"up_engage"}
           /\ pc = "up_engage" => pc' \in {"up_create", "drop"}
           /\ pc' = "up_create" => pc = "up_engage"
           /\ IF pc = "up_engage" /\ pc' = "up_create" /\ killswitch THEN nft' = TRUE
              ELSE nft' = nft \/ (pc' = "drop" /\ killswitch /\ nft' = FALSE)
<1> USE DEF UpPcs, Engaged
<1>1. CASE UpRejected \/ InstallBypass \/ CreateInterface \/ UpPruned \/ ConfigureDns
  BY <1>1 DEF UpRejected, InstallBypass, CreateInterface, UpPruned, ConfigureDns
<1>2. CASE EngageKillswitch
  BY <1>2 DEF EngageKillswitch
<1>3. CASE ConfigureInterface
  BY <1>3 DEF ConfigureInterface
<1>4. CASE UpRoute
  BY <1>4 DEF UpRoute, ConfigurePeerRouting, ConfigurePeerRoutingFails
<1>5. CASE UndoUp
  BY <1>5 DEF UndoUp, Release
<1>6. QED
  BY <1>1, <1>2, <1>3, <1>4, <1>5 DEF UpSteps

\* The control flow of switch_endpoint, which leaves the rules in force alone.
LEMMA SwitchFlow ==
    ASSUME SwitchSteps
    PROVE  /\ pc \in SwitchPcs /\ pc' \in SwitchPcs \cup {"idle"}
           /\ UNCHANGED <<target, killswitch, plan, nft>>
           /\ conn' = conn \/ (pc = "sw_prune" /\ pc' = "idle" /\ conn' = target)
<1> USE DEF SwitchPcs
<1>1. CASE RemovePeer \/ ConfigurePeer \/ SwitchDone
  BY <1>1 DEF RemovePeer, ConfigurePeer, SwitchDone
<1>2. CASE RotateListenPort
  BY <1>2 DEF RotateListenPort
<1>3. CASE SwitchRoute
  BY <1>3 DEF SwitchRoute, ConfigurePeerRouting, ConfigurePeerRoutingFails
<1>4. QED
  BY <1>1, <1>2, <1>3 DEF SwitchSteps

\* The control flow of down and of Drop.
LEMMA DownFlow ==
    ASSUME Inv, DownSteps
    PROVE  /\ pc \in DownPcs \cup {"drop"}
           /\ pc' \in {"down_bypass", "down_release", "drop", "idle"}
           /\ target' = target
           /\ IF pc' = "idle" THEN pc = "drop" /\ conn' = NoServer
              ELSE pc \in DownPcs /\ UNCHANGED <<killswitch, plan>>
           /\ nft' = nft \/ (killswitch /\ nft' = FALSE)
<1> USE DEF DownPcs
<1>1. CASE DownInterface
  BY <1>1 DEF DownInterface
<1>2. CASE DownBypass
  BY <1>2 DEF DownBypass
<1>3. CASE DownRelease
  BY <1>3 DEF DownRelease, Release
<1>4. CASE Drop
  <2>1. nft' = nft \/ (killswitch /\ nft' = FALSE)
    BY <1>4 DEF Drop, Release
  <2>2. QED
    BY <1>4, <2>1 DEF Drop, Inv, Connection
<1>5. QED
  BY <1>1, <1>2, <1>3, <1>4 DEF DownSteps

\* The state in which the daemon starts.
LEMMA ObservedInit == InitOperations => Observed
BY DEF InitOperations, Init, Observed, UnderWay, Current, Closed, Raising, Moving,
       Lowering, UpPcs, SwitchPcs, DownPcs

\* When an operation returns, the daemon sees what is so, and nothing else is
\* left to show.
LEMMA ObservedIdle ==
    ASSUME Inv, Inv', Observed, NextOperations, pc' = "idle"
    PROVE  Observed'
<1>1. seen' = Sight'
  BY DEF NextOperations
<1>2. Closed'
  <2>1. opened' = (opened /\ nft')
    BY DEF NextOperations, Opened
  <2>2. QED
    BY <2>1 DEF Observed, Closed, Inv, TypeOK
<1>3. QED
  BY <1>1, <1>2 DEF Observed, UnderWay, Current, Raising, Moving, Lowering, UpPcs,
                    SwitchPcs, DownPcs

\* The steps of up keep to what Raising says.
LEMMA UpObserved ==
    ASSUME Inv, Inv', Observed, NextOperations, UpSteps, pc' # "idle"
    PROVE  Observed'
<1>1. op = "up" /\ op' = "up" /\ seen' = seen /\ pc # "idle"
  BY UpFlow DEF Observed, UnderWay, NextOperations, Called, UpPcs
<1>2. /\ nft \in BOOLEAN /\ nft' \in BOOLEAN /\ opened \in BOOLEAN
      /\ killswitch \in BOOLEAN
  BY DEF Inv, TypeOK, Observed, Closed
<1>3. /\ pc' # "idle" /\ UNCHANGED <<target, killswitch, plan, conn>>
      /\ pc' \in UpPcs \cup {"drop"}
  BY UpFlow
<1>4. CASE pc = "up_engage" /\ pc' = "up_create" /\ killswitch
  <2>1. nft' = TRUE /\ opened' = (plan # {})
    BY <1>4, UpFlow DEF NextOperations, Opened
  <2>2. Raising'
    BY <1>1, <1>3, <1>4, <2>1, ExitFollows DEF Observed, Raising, Step
  <2>3. Closed'
    BY <2>1 DEF Closed
  <2>4. QED
    BY <1>1, <1>3, <2>2, <2>3 DEF Observed, UnderWay, Current, Moving, Lowering,
                                  UpPcs, SwitchPcs, DownPcs
<1>5. CASE ~(pc = "up_engage" /\ pc' = "up_create" /\ killswitch)
  <2>1. opened' = (opened /\ nft')
    BY <1>5 DEF NextOperations, Opened
  <2>2. nft' = nft \/ (pc' = "drop" /\ killswitch /\ nft' = FALSE)
    BY <1>5, UpFlow
  <2>3. nft' = nft => opened' = opened
    BY <1>2, <2>1 DEF Observed, Closed
  <2>4. nft' = FALSE => opened' = FALSE
    BY <1>2, <2>1
  <2>5. Closed'
    BY <1>2, <2>1 DEF Closed
  <2>6. Raising'
    <3>1. Exit' \in {seen.exit, target, NoServer}
      BY <1>1, ExitFollows DEF Observed, Raising, Step
    <3>2. \/ RulesSeen'
          \/ killswitch /\ nft' = FALSE /\ opened' = FALSE
          \/ killswitch /\ nft' = TRUE /\ (opened' <=> plan # {})
      BY <1>1, <1>3, <2>2, <2>3, <2>4 DEF Observed, Raising, RulesSeen
    <3>3. ASSUME killswitch, pc' \in Engaged
          PROVE  nft' = TRUE /\ (opened' <=> plan # {})
      <4>1. pc \in Engaged /\ nft' = nft
        BY <1>5, <2>2, <3>3, UpFlow DEF Engaged
      <4>2. QED
        BY <1>1, <2>3, <3>3, <4>1 DEF Observed, Raising, Engaged
    <3>4. QED
      BY <1>1, <1>3, <3>1, <3>2, <3>3 DEF Observed, Raising, Engaged
  <2>7. QED
    BY <1>1, <1>3, <2>5, <2>6 DEF Observed, UnderWay, Current, Moving, Lowering,
                                  UpPcs, SwitchPcs, DownPcs
<1>6. QED
  BY <1>4, <1>5

\* The steps of switch_endpoint keep to what Moving says.
LEMMA SwitchObserved ==
    ASSUME Inv, Inv', Observed, NextOperations, SwitchSteps, pc' # "idle"
    PROVE  Observed'
<1>1. op = "switch" /\ op' = "switch" /\ seen' = seen
  BY SwitchFlow DEF Observed, UnderWay, NextOperations, Called, SwitchPcs
<1>2. /\ pc \in SwitchPcs /\ pc' \in SwitchPcs
      /\ UNCHANGED <<target, killswitch, plan, nft, conn>>
  BY SwitchFlow
<1>3. opened' = opened
  <2>1. opened' = (opened /\ nft')
    BY <1>2 DEF NextOperations, Opened, SwitchPcs
  <2>2. QED
    BY <1>2, <2>1 DEF Observed, Closed, Inv, TypeOK
<1>4. Moving'
  BY <1>1, <1>2, <1>3, ExitFollows DEF Observed, Moving, RulesSeen, Step
<1>5. QED
  BY <1>1, <1>2, <1>3, <1>4 DEF Observed, UnderWay, Current, Closed, Raising, Lowering,
                                UpPcs, SwitchPcs, DownPcs

\* The steps of down keep to what Lowering says.
LEMMA DownObserved ==
    ASSUME Inv, Inv', Observed, NextOperations, DownSteps, pc' # "idle"
    PROVE  Observed'
<1>1. op = "down" /\ op' = "down" /\ seen' = seen
  BY DownFlow DEF Observed, UnderWay, NextOperations, Called, DownPcs
<1>2. /\ pc \in DownPcs /\ pc' \in {"down_bypass", "down_release", "drop"}
      /\ UNCHANGED <<target, killswitch, plan>>
      /\ nft' = nft \/ (killswitch /\ nft' = FALSE)
  BY DownFlow
<1>3. opened' = (opened /\ nft')
  BY <1>2 DEF NextOperations, Opened, DownPcs
<1>4. /\ nft' = nft => opened' = opened
      /\ nft' = FALSE => opened' = FALSE
      /\ Closed'
  BY <1>3 DEF Observed, Closed, Inv, TypeOK
<1>5. Lowering'
  BY <1>1, <1>2, <1>4, ExitFollows DEF Observed, Lowering, RulesSeen, Step, DownPcs
<1>6. QED
  BY <1>1, <1>2, <1>4, <1>5 DEF Observed, UnderWay, Current, Raising, Moving,
                                UpPcs, SwitchPcs, DownPcs

\* Pruning takes no traffic anywhere.
LEMMA PruneObserved ==
    ASSUME Inv, Inv', Observed, NextOperations, PruneRule
    PROVE  Observed'
<1>1. /\ pc \in {"up_prune", "sw_prune"} /\ pc' = pc
      /\ UNCHANGED <<target, conn, killswitch, plan, nft, iface, table, peer>>
      /\ rules > 0 /\ rules' > 0
  BY DEF PruneRule, Duplicated, Inv, TypeOK
<1>2. Exit' = Exit
  BY <1>1, ExitIs
<1>3. op' = op /\ seen' = seen /\ opened' = (opened /\ nft')
  BY <1>1 DEF NextOperations, Called, Opened
<1>4. opened' = opened
  BY <1>1, <1>3 DEF Observed, Closed, Inv, TypeOK
<1>5. QED
  BY <1>1, <1>2, <1>3, <1>4 DEF Observed, UnderWay, Current, Closed, Raising, Moving,
                                Lowering, RulesSeen, UpPcs, SwitchPcs, DownPcs

\* A call changes nothing that the daemon has seen.
LEMMA CallObserved ==
    ASSUME Inv, Inv', Observed, NextOperations, Call
    PROVE  Observed'
<1> USE DEF UpPcs, SwitchPcs, DownPcs
<1>1. /\ pc = "idle" /\ pc' \in {"up_bypass", "sw_remove", "down_iface"}
      /\ UNCHANGED <<conn, nft, iface, rules, table, peer>>
  BY DEF Call, Up, Switch, Down
<1>2. Exit' = Exit
  BY <1>1, ExitIs
<1>3. seen' = seen /\ seen = Sight /\ opened' = (opened /\ nft')
  BY <1>1 DEF NextOperations, Opened, Observed, Current
<1>4. opened' = opened /\ Closed'
  BY <1>1, <1>3 DEF Observed, Closed, Inv, TypeOK
<1>5. /\ seen.current = conn /\ seen.exit = Exit
      /\ seen.armed = (conn # NoServer /\ killswitch)
      /\ seen.routed = (conn # NoServer /\ plan # {})
      /\ RulesSeen /\ RulesSeen'
  BY <1>1, <1>3, <1>4 DEF Sight, RulesSeen
<1>6. CASE pc' = "up_bypass"
  <2>1. op' = "up" /\ conn = NoServer
    BY <1>1, <1>6 DEF NextOperations, Called, Call, Up, Switch, Down
  <2>2. seen.armed = FALSE /\ seen.routed = FALSE
    BY <1>5, <2>1
  <2>3. QED
    BY <1>1, <1>2, <1>3, <1>4, <1>5, <1>6, <2>1, <2>2
       DEF Observed, UnderWay, Current, Raising, Moving, Lowering
<1>7. CASE pc' \in {"sw_remove", "down_iface"}
  <2>1. /\ conn # NoServer /\ UNCHANGED <<killswitch, plan>>
        /\ killswitch \in BOOLEAN
    BY <1>7 DEF Call, Up, Switch, Down, Inv, TypeOK
  <2>2. op' = IF pc' = "sw_remove" THEN "switch" ELSE "down"
    BY <1>1, <1>7 DEF NextOperations, Called
  <2>3. /\ seen.armed = killswitch
        /\ seen.routed \in BOOLEAN /\ (seen.routed <=> plan # {})
    BY <1>5, <2>1
  <2>4. QED
    BY <1>1, <1>2, <1>3, <1>4, <1>5, <1>7, <2>1, <2>2, <2>3
       DEF Observed, UnderWay, Current, Raising, Moving, Lowering
<1>8. QED
  BY <1>1, <1>6, <1>7

\* No packet of the fleet and no route of the system's changes what the
\* daemon has seen.
LEMMA FleetObserved ==
    ASSUME Inv, Inv', Observed, NextOperations, Fleet \/ System
    PROVE  Observed'
<1>1. UNCHANGED <<pc, target, conn, killswitch, plan, nft, iface, rules, table>>
  BY DEF Fleet, Transmit, Handshake, Data, System, AddRoute, TakeRoute, PurgeRoute
<1>2. peer' = peer
  BY DEF Fleet, Transmit, Handshake, Data, Listening, System, AddRoute, TakeRoute,
         PurgeRoute, Inv, Secret
<1>3. Exit' = Exit
  BY <1>1, <1>2, ExitIs
<1>4. op' = op /\ opened' = (opened /\ nft')
  BY <1>1 DEF NextOperations, Called, Opened
<1>5. opened' = opened
  BY <1>1, <1>4 DEF Observed, Closed, Inv, TypeOK
<1>6. Sight' = Sight
  BY <1>1, <1>3, <1>5 DEF Sight
<1>7. seen' = seen
  BY <1>1, <1>6 DEF NextOperations, Observed, Current
<1>8. QED
  BY <1>1, <1>3, <1>4, <1>5, <1>6, <1>7
     DEF Observed, UnderWay, Current, Closed, Raising, Moving, Lowering, RulesSeen

LEMMA ObservedNext ==
    ASSUME Inv, Inv', Observed, [NextOperations]_<<vars, histories>>
    PROVE  Observed'
<1>1. CASE UNCHANGED <<vars, histories>>
  <2>1. Exit' = Exit
    BY <1>1, ExitIs
  <2>2. QED
    BY <1>1, <2>1 DEF Observed, UnderWay, Current, Closed, Raising, Moving, Lowering,
                      RulesSeen, Sight
<1>2. CASE NextOperations
  <2>1. CASE Crash
    BY <1>2, <2>1, ObservedIdle DEF Crash
  <2>2. CASE Step /\ pc' = "idle"
    BY <1>2, <2>2, ObservedIdle
  <2>3. CASE Step /\ pc' # "idle"
    BY <1>2, <2>3, UpObserved, SwitchObserved, DownObserved, PruneObserved DEF Step
  <2>4. QED
    BY <1>2, <2>1, <2>2, <2>3, CallObserved, FleetObserved DEF NextOperations, Next
<1>3. QED
  BY <1>1, <1>2

\* The two invariants together, over the operations as the daemon sees them.
LEMMA OperationsInvariance == SpecOperations => [](Inv /\ Observed)
<1>1. InitOperations => Inv /\ Observed
  BY ObservedInit, InvInit DEF InitOperations
<1>2. Inv /\ Observed /\ [NextOperations]_<<vars, histories>> => Inv' /\ Observed'
  <2> SUFFICES ASSUME Inv, Observed, [NextOperations]_<<vars, histories>>
               PROVE  Inv' /\ Observed'
    OBVIOUS
  <2>1. [Next]_vars
    BY DEF NextOperations
  <2>2. Inv'
    BY <2>1, InvNext
  <2>3. QED
    BY <2>2, ObservedNext
<1>3. QED
  BY <1>1, <1>2, PTL DEF SpecOperations

\* Between two operations, traffic stays where the last one left it.
THEOREM Quiet == SpecOperations => []QuietBetween
<1>1. Observed => QuietBetween
  BY DEF Observed, Current, QuietBetween, Sight
<1>2. QED
  BY <1>1, OperationsInvariance, PTL

\* What the daemon finds when an operation has returned.
LEMMA Returned ==
    ASSUME NextOperations, pc' = "idle"
    PROVE  /\ seen'.current = conn'
           /\ seen'.armed = (conn' # NoServer /\ killswitch')
           /\ seen'.routed = (conn' # NoServer /\ plan' # {})
           /\ seen'.exit = Exit'
           /\ seen'.on = nft'
           /\ seen'.bypass = opened'
           /\ opened' = (opened /\ nft')
<1>1. seen' = Sight' /\ opened' = (opened /\ nft')
  BY DEF NextOperations, Opened
<1>2. QED
  BY <1>1 DEF Sight

\* up succeeded: what Daemon calls Established.
LEMMA UpReturns ==
    ASSUME Inv, Inv', Observed, NextOperations, UpSteps, pc' = "idle"
    PROVE  op = "up" /\ Seen!Established(target)
<1>1. /\ pc = "up_dns" /\ conn' = target /\ op = "up"
      /\ UNCHANGED <<target, killswitch, plan, nft>>
  BY UpFlow DEF Observed, UnderWay, UpPcs
<1>2. target # NoServer /\ killswitch \in BOOLEAN /\ nft \in BOOLEAN
  BY <1>1 DEF Inv, Connection, TypeOK, UpPcs
<1>3. Exit' = target
  <2>1. iface' /\ rules' > 0 /\ table' /\ peer' = target
    BY <1>1 DEF UpSteps, UpRejected, InstallBypass, EngageKillswitch, CreateInterface,
                ConfigureInterface, UpRoute, UpPruned, ConfigureDns, UndoUp, Inv,
                Interface, Ruled, Routed
  <2>2. QED
    BY <2>1, ExitIs
<1>4. opened' = opened
  BY <1>1, Returned DEF Observed, Closed, Inv, TypeOK
<1>5. /\ seen'.armed = killswitch
      /\ seen'.routed = (plan # {})
      /\ (seen'.current # NoServer) = TRUE
  BY <1>1, <1>2, Returned
<1>6. IF killswitch THEN nft = TRUE /\ opened = (plan # {}) ELSE RulesSeen
  BY <1>1 DEF Observed, Raising, Closed
<1>7. [on |-> seen'.on, bypass |-> seen'.bypass]
        = IF killswitch THEN [on |-> TRUE, bypass |-> plan # {}]
          ELSE [on |-> seen.on, bypass |-> seen.bypass]
  BY <1>1, <1>4, <1>6, Returned DEF RulesSeen
<1>8. QED
  BY <1>1, <1>3, <1>5, <1>7, Returned DEF Seen!Established, Seen!Owned

\* switch_endpoint returned: what Daemon calls Retargeted or RetargetFailed.
LEMMA SwitchReturns ==
    ASSUME Inv, Inv', Observed, NextOperations, SwitchSteps, pc' = "idle"
    PROVE  op = "switch" /\ (Seen!Retargeted(target) \/ Seen!RetargetFailed(target))
<1>1. /\ pc \in SwitchPcs /\ op = "switch" /\ conn # NoServer /\ target # NoServer
      /\ UNCHANGED <<target, killswitch, plan, nft>>
      /\ killswitch \in BOOLEAN /\ conn' # NoServer
  BY SwitchFlow DEF Observed, UnderWay, Inv, Connection, TypeOK
<1>2. opened' = opened
  BY <1>1, Returned DEF Observed, Closed, Inv, TypeOK
<1>3. seen'.armed = seen.armed
  BY <1>1, Returned DEF Observed, Moving
<1>4. seen'.routed = seen.routed
  BY <1>1, Returned DEF Observed, Moving
<1>5. (seen'.current # NoServer) = (seen.current # NoServer)
  BY <1>1, Returned DEF Observed, Moving
<1>6. seen'.on = seen.on /\ seen'.bypass = seen.bypass
  BY <1>1, <1>2, Returned DEF Observed, Moving, RulesSeen
<1>7. Exit' \in {seen.exit, target, NoServer}
  BY <1>1, ExitFollows DEF Observed, Moving, Step
<1>8. CASE conn' = conn
  BY <1>1, <1>3, <1>4, <1>5, <1>6, <1>7, <1>8, Returned
     DEF Observed, Moving, Seen!RetargetFailed, Seen!tunnel
<1>9. CASE pc = "sw_prune" /\ conn' = target
  <2>1. iface' /\ rules' > 0 /\ table' /\ peer' = target
    BY <1>1, <1>9 DEF SwitchSteps, RemovePeer, RotateListenPort, ConfigurePeer,
                SwitchRoute, SwitchDone, Inv, Interface, Ruled, Routed
  <2>2. Exit' = target
    BY <2>1, ExitIs
  <2>3. QED
    BY <1>1, <1>3, <1>4, <1>5, <1>6, <1>9, <2>2, Returned
       DEF Seen!Retargeted, Seen!tunnel
<1>10. QED
  BY <1>8, <1>9, SwitchFlow

\* The tunnel was dropped: up failed, or down is over.
LEMMA DropReturns ==
    ASSUME Inv, Inv', Observed, NextOperations, DownSteps, pc' = "idle"
    PROVE  \/ op = "up" /\ Seen!EstablishFailed(target)
           \/ op = "down" /\ Seen!TearDownFailed
<1>1. /\ pc = "drop" /\ conn' = NoServer /\ target' = target
      /\ nft' = nft \/ (killswitch /\ nft' = FALSE)
  BY DownFlow
<1>2. op \in {"up", "down"}
  BY <1>1 DEF Observed, UnderWay
<1>3. seen'.armed = FALSE /\ seen'.routed = FALSE /\ seen'.current = NoServer
  BY <1>1, Returned
<1>4. /\ nft' = nft => opened' = opened
      /\ nft' = FALSE => opened' = FALSE
  BY Returned DEF Observed, Closed, Inv, TypeOK
<1>5. seen'.on = nft' /\ seen'.bypass = opened' /\ seen'.exit = Exit'
  BY Returned
<1>6. CASE op = "up"
  <2>1. seen.armed = FALSE /\ seen.routed = FALSE /\ seen.current = NoServer
    BY <1>1, <1>6 DEF Observed, Raising
  <2>2. Exit' \in {seen.exit, target, NoServer}
    BY <1>1, <1>6, ExitFollows DEF Observed, Raising, Step
  <2>3. \/ nft' = seen.on /\ opened' = seen.bypass
        \/ killswitch /\ nft' = FALSE /\ opened' = FALSE
        \/ killswitch /\ nft' = TRUE /\ opened' = (plan # {})
    BY <1>1, <1>4, <1>6 DEF Observed, Raising, RulesSeen, Closed
  <2>4. [on |-> seen'.on, bypass |-> seen'.bypass]
          \in IF killswitch
              THEN {[on |-> FALSE, bypass |-> FALSE],
                    [on |-> seen.on, bypass |-> seen.bypass],
                    [on |-> TRUE, bypass |-> plan # {}]}
              ELSE {[on |-> seen.on, bypass |-> seen.bypass]}
    BY <1>5, <2>3
  <2>5. QED
    BY <1>3, <1>5, <1>6, <2>1, <2>2, <2>4
       DEF Seen!EstablishFailed, Seen!tunnel, Seen!Off
<1>7. CASE op = "down"
  <2>1. seen.armed = killswitch
    BY <1>1, <1>7 DEF Observed, Lowering
  <2>2. Exit' \in {seen.exit, NoServer}
    BY <1>1, <1>7, ExitFollows DEF Observed, Lowering, Step
  <2>3. \/ nft' = seen.on /\ opened' = seen.bypass
        \/ killswitch /\ nft' = FALSE /\ opened' = FALSE
    BY <1>1, <1>4, <1>7 DEF Observed, Lowering, RulesSeen
  <2>4. [on |-> seen'.on, bypass |-> seen'.bypass]
          \in IF seen.armed
              THEN {[on |-> FALSE, bypass |-> FALSE],
                    [on |-> seen.on, bypass |-> seen.bypass]}
              ELSE {[on |-> seen.on, bypass |-> seen.bypass]}
    BY <1>5, <2>1, <2>3
  <2>5. QED
    BY <1>3, <1>5, <1>7, <2>2, <2>4
       DEF Seen!TearDownFailed, Seen!TearDown, Seen!Off
<1>8. QED
  BY <1>2, <1>6, <1>7

\* Whatever fails inside it, an operation of the Linux backend returns in one
\* of the states that the requests of module Daemon assume.
THEOREM Outcomes == SpecOperations => OutcomesAsAssumed
<1> DEFINE Assumed ==
      Step /\ pc' = "idle" =>
        \/ op = "up" /\ (Seen!Established(target) \/ Seen!EstablishFailed(target))
        \/ op = "switch" /\ (Seen!Retargeted(target) \/ Seen!RetargetFailed(target))
        \/ op = "down" /\ (Seen!TornDown \/ Seen!TearDownFailed)
<1>1. Inv /\ Inv' /\ Observed /\ [NextOperations]_<<vars, histories>>
        => [Assumed]_<<vars, histories>>
  <2> SUFFICES ASSUME Inv, Inv', Observed, NextOperations, Step, pc' = "idle"
               PROVE  Assumed
    OBVIOUS
  <2>1. ~PruneRule
    BY DEF PruneRule
  <2>2. QED
    BY <2>1, UpReturns, SwitchReturns, DropReturns DEF Step
<1>2. QED
  BY <1>1, OperationsInvariance, PTL DEF SpecOperations, OutcomesAsAssumed

=============================================================================
