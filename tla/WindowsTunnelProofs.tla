------------------------- MODULE WindowsTunnelProofs ------------------------
(***************************************************************************)
(* Proofs about WindowsTunnel for any fleet and any set of bypassable      *)
(* destinations.                                                           *)
(***************************************************************************)
EXTENDS WindowsTunnel, TLAPS

-----------------------------------------------------------------------------
(* The inductive invariant, in parts                                       *)

UpPcs == {"up_clear", "up_bypass", "up_config", "up_install", "up_engage",
          "up_rollback"}
SwitchPcs == {"sw_set", "sw_rotate", "sw_config"}
DownPcs == {"down_service", "down_release", "down_bypass"}

\* Which steps run with a reported connection, and which are Drop's.
Phases ==
    /\ pc \in UpPcs \cup {"fields"} => conn = NoServer
    /\ pc \in UpPcs => ~installed
    /\ pc \in SwitchPcs => conn # NoServer
    /\ pc \in UpPcs \cup SwitchPcs => target # NoServer
    /\ dropping => conn = NoServer /\ pc \in DownPcs \cup {"fields"}
    /\ ~dropping /\ pc \in DownPcs => conn # NoServer
    /\ pc = "idle" /\ conn = NoServer => bypass = {}
    /\ pc \in {"up_clear", "up_bypass"} => bypass = {}

\* The bypass records only routes of the plan that were not there before.
Recording ==
    /\ bypass \subseteq plan
    /\ bypass \subseteq routes
    /\ bypass \cap foreign = {}
    /\ foreign \subseteq routes
    /\ ~dirty => routes = foreign \cup bypass

\* While the connection stands the rules in force are those up engaged.
Guarded ==
    Standing /\ killswitch => default = "Block" /\ allow = stale \cup Accepted

\* The file names the server of the connection, or of the up in progress, and
\* is split exactly when there is a bypass.
Filed ==
    /\ pc \in {"up_install", "up_engage"} => conf = target
    /\ pc = "up_install" => split = (bypass # {})
    /\ pc \in SwitchPcs \cup {"idle"} /\ conn # NoServer => conf \in {conn, Torn}

\* WireGuard's own filters and a bypass exclude each other.
Halves ==
    /\ pc = "up_engage" => (strict => bypass = {})
    /\ pc \in SwitchPcs \cup {"idle"} /\ conn # NoServer => (strict => bypass = {})

\* Nothing is in the firewall.
Unruled == allow = {} /\ record = "None"

\* What is in place at each step as long as nothing was left behind.
Accounted ==
    ~dirty =>
        /\ pc \in {"up_clear", "up_bypass", "up_config", "drop", "fields"}
                => ~service /\ conf = NoServer /\ Unruled
        /\ pc = "idle" /\ conn = NoServer => ~service /\ conf = NoServer /\ Unruled
        /\ pc \in {"up_install", "up_engage"} => Unruled
        /\ Standing => killswitch \/ Unruled
        /\ pc \in {"down_release", "down_bypass"} => ~service
        /\ pc = "down_bypass" => Unruled
        /\ pc = "drop" => ~installed
        /\ ~dropping

\* After a rotation only the peer can have learnt the port.
Settled == rotated => knows \subseteq {peer}

Inv == /\ TypeOK /\ Phases /\ Recording /\ Guarded /\ Filed
       /\ Halves /\ Accounted /\ Settled

-----------------------------------------------------------------------------
(* The invariant is inductive                                              *)

USE DEF vars, object, wg, files, firewall, history

\* A machine without a tunnel satisfies the invariant.
LEMMA InvInit == Init => Inv
BY ServerAssumption DEF Init, Inv, TypeOK, ObjectTypes, ServiceTypes, SystemTypes,
   HistoryTypes, PcValues, Actions, Phases, Recording, Guarded, Accepted, Filed,
   Halves, Unruled, Accounted, Settled, Standing, UpPcs, SwitchPcs, DownPcs

\* Types are preserved by every step on their own.
LEMMA TypeNext == TypeOK /\ [Next]_vars => TypeOK'
<1> SUFFICES ASSUME TypeOK, [Next]_vars PROVE TypeOK'
  OBVIOUS
<1> USE DEF TypeOK, ObjectTypes, ServiceTypes, SystemTypes, HistoryTypes, PcValues,
       Actions
<1>1. CASE UpSteps
  <2> USE <1>1 DEF UpSteps, UpRejected, ClearService, InstallBypass, UpConfig,
         InstallService, EngageKillswitch, RollBack, RemoveService, Unrouted,
         WriteConfig, WriteConfigFails, StartService, Engage, EngageFails,
         Recorded, Release, ReleaseFails, ReplaceRules
  <2>0. Accepted \in SUBSET (Destinations \ {Internet})
    BY DestAssumption DEF Accepted, Destinations
  <2>1. ObjectTypes'
    OBVIOUS
  <2>2. ServiceTypes'
    OBVIOUS
  <2>3. SystemTypes'
    BY <2>0
  <2>4. HistoryTypes'
    OBVIOUS
  <2>5. QED
    BY <2>1, <2>2, <2>3, <2>4
<1>2. CASE SwitchSteps
  <2> USE <1>2 DEF SwitchSteps, SetEndpoint, RotateListenPort, SwitchConfig,
         WriteConfig, WriteConfigFails
  <2>1. ObjectTypes'
    OBVIOUS
  <2>2. ServiceTypes'
    OBVIOUS
  <2>3. SystemTypes'
    OBVIOUS
  <2>4. HistoryTypes'
    OBVIOUS
  <2>5. QED
    BY <2>1, <2>2, <2>3, <2>4
<1>3. CASE DownSteps
  <2> USE <1>3 DEF DownSteps, DownService, DownRelease, DownBypass, Drop,
         DropFields, RemoveService, Failed, Release, ReleaseFails, ReplaceRules,
         RemoveBypass
  <2>1. ObjectTypes'
    OBVIOUS
  <2>2. ServiceTypes'
    OBVIOUS
  <2>3. SystemTypes'
    OBVIOUS
  <2>4. HistoryTypes'
    OBVIOUS
  <2>5. QED
    BY <2>1, <2>2, <2>3, <2>4
<1>4. CASE Call
  <2> USE <1>4 DEF Call, Up, Switch, Down
  <2>1. ObjectTypes'
    OBVIOUS
  <2>2. ServiceTypes'
    OBVIOUS
  <2>3. SystemTypes'
    OBVIOUS
  <2>4. HistoryTypes'
    OBVIOUS
  <2>5. QED
    BY <2>1, <2>2, <2>3, <2>4
<1>5. CASE Machine
  <2> USE <1>5 DEF Machine, Crash, Forgotten, Reboot, StartService,
         RemoveService, Transmit, Answer
  <2>1. ObjectTypes'
    OBVIOUS
  <2>2. ServiceTypes'
    OBVIOUS
  <2>3. SystemTypes'
    OBVIOUS
  <2>4. HistoryTypes'
    OBVIOUS
  <2>5. QED
    BY <2>1, <2>2, <2>3, <2>4
<1>6. QED
  BY <1>1, <1>2, <1>3, <1>4, <1>5 DEF Next

\* The steps of up preserve it.
LEMMA UpInv == Inv /\ UpSteps => Inv'
<1> SUFFICES ASSUME Inv, UpSteps PROVE Inv'
  OBVIOUS
<1> USE ServerAssumption
<1>0. TypeOK'
  BY TypeNext DEF Inv, Next
<1> USE DEF Inv, TypeOK, ObjectTypes, ServiceTypes, SystemTypes, HistoryTypes,
       PcValues, Actions, Phases, Recording, Guarded, Accepted,
       Filed, Halves, Unruled, Accounted, Settled, Standing,
       UpPcs, SwitchPcs, DownPcs
<1>1. CASE UpRejected
  BY <1>0, <1>1 DEF UpRejected
<1>2. CASE ClearService
  <2>1. Phases'
    BY <1>2 DEF ClearService, RemoveService
  <2>2. Recording' /\ Halves' /\ Settled'
    BY <1>2 DEF ClearService, RemoveService
  <2>3. Guarded'
    BY <1>2 DEF ClearService, RemoveService
  <2>4. Filed' /\ Accounted'
    BY <1>2 DEF ClearService, RemoveService
  <2>5. QED
    BY <1>0, <2>1, <2>2, <2>3, <2>4
<1>3. CASE InstallBypass
  <2>1. Phases'
    BY <1>3 DEF InstallBypass, Unrouted
  <2>2. Recording' /\ Halves' /\ Settled'
    <3>1. PICK added \in SUBSET (plan \ routes) :
            bypass' = added /\ routes' = routes \cup added
      BY <1>3 DEF InstallBypass, Unrouted
    <3>2. Recording'
      BY <1>3, <3>1 DEF InstallBypass
    <3>3. QED
      BY <1>3, <3>2 DEF InstallBypass
  <2>3. Guarded'
    BY <1>3 DEF InstallBypass, Unrouted
  <2>4. Filed' /\ Accounted'
    BY <1>3 DEF InstallBypass, Unrouted
  <2>5. QED
    BY <1>0, <2>1, <2>2, <2>3, <2>4
<1>4. CASE UpConfig
  <2>1. Phases'
    BY <1>4 DEF UpConfig, WriteConfig, WriteConfigFails
  <2>2. Recording' /\ Halves' /\ Settled'
    BY <1>4 DEF UpConfig, WriteConfig, WriteConfigFails
  <2>3. Guarded'
    BY <1>4 DEF UpConfig, WriteConfig, WriteConfigFails
  <2>4. Filed' /\ Accounted'
    BY <1>4 DEF UpConfig, WriteConfig, WriteConfigFails
  <2>5. QED
    BY <1>0, <2>1, <2>2, <2>3, <2>4
<1>5. CASE InstallService
  <2>1. Phases'
    BY <1>5 DEF InstallService, StartService
  <2>2. Recording' /\ Halves' /\ Settled'
    BY <1>5 DEF InstallService, StartService
  <2>3. Guarded'
    BY <1>5 DEF InstallService, StartService
  <2>4. Filed' /\ Accounted'
    BY <1>5 DEF InstallService, StartService
  <2>5. QED
    BY <1>0, <2>1, <2>2, <2>3, <2>4
<1>6. CASE EngageKillswitch
  <2>1. Phases'
    BY <1>6 DEF EngageKillswitch, Engage, EngageFails, ReplaceRules, Recorded
  <2>2. Recording' /\ Halves' /\ Settled'
    BY <1>6 DEF EngageKillswitch, Engage, EngageFails, ReplaceRules, Recorded
  <2>3. Guarded'
    BY <1>6 DEF EngageKillswitch, Engage, EngageFails, ReplaceRules, Recorded
  <2>4. Filed' /\ Accounted'
    BY <1>6 DEF EngageKillswitch, Engage, EngageFails, ReplaceRules, Recorded
  <2>5. QED
    BY <1>0, <2>1, <2>2, <2>3, <2>4
<1>7. CASE RollBack
  <2>1. Phases'
    BY <1>7 DEF RollBack, Release, ReleaseFails, ReplaceRules
  <2>2. Recording' /\ Halves' /\ Settled'
    BY <1>7 DEF RollBack, Release, ReleaseFails, ReplaceRules
  <2>3. Guarded'
    BY <1>7 DEF RollBack, Release, ReleaseFails, ReplaceRules
  <2>4. Filed' /\ Accounted'
    BY <1>7 DEF RollBack, Release, ReleaseFails, ReplaceRules
  <2>5. QED
    BY <1>0, <2>1, <2>2, <2>3, <2>4
<1>8. QED
  BY <1>1, <1>2, <1>3, <1>4, <1>5, <1>6, <1>7 DEF UpSteps

\* The steps of switch_endpoint preserve it.
LEMMA SwitchInv == Inv /\ SwitchSteps => Inv'
<1> SUFFICES ASSUME Inv, SwitchSteps PROVE Inv'
  OBVIOUS
<1> USE ServerAssumption
<1>0. TypeOK'
  BY TypeNext DEF Inv, Next
<1> USE DEF Inv, TypeOK, ObjectTypes, ServiceTypes, SystemTypes, HistoryTypes,
       PcValues, Actions, Phases, Recording, Guarded, Accepted,
       Filed, Halves, Unruled, Accounted, Settled, Standing,
       UpPcs, SwitchPcs, DownPcs
<1>1. CASE SetEndpoint
  <2>1. Phases'
    BY <1>1 DEF SetEndpoint
  <2>2. Recording' /\ Halves' /\ Settled'
    BY <1>1 DEF SetEndpoint
  <2>3. Guarded'
    BY <1>1 DEF SetEndpoint
  <2>4. Filed' /\ Accounted'
    BY <1>1 DEF SetEndpoint
  <2>5. QED
    BY <1>0, <2>1, <2>2, <2>3, <2>4
<1>2. CASE RotateListenPort
  <2>1. Phases'
    BY <1>2 DEF RotateListenPort
  <2>2. Recording' /\ Halves' /\ Settled'
    BY <1>2 DEF RotateListenPort
  <2>3. Guarded'
    BY <1>2 DEF RotateListenPort
  <2>4. Filed' /\ Accounted'
    BY <1>2 DEF RotateListenPort
  <2>5. QED
    BY <1>0, <2>1, <2>2, <2>3, <2>4
<1>3. CASE SwitchConfig
  <2>1. Phases'
    BY <1>3 DEF SwitchConfig, WriteConfig, WriteConfigFails
  <2>2. Recording' /\ Halves' /\ Settled'
    BY <1>3 DEF SwitchConfig, WriteConfig, WriteConfigFails
  <2>3. Guarded'
    BY <1>3 DEF SwitchConfig, WriteConfig, WriteConfigFails
  <2>4. Filed' /\ Accounted'
    BY <1>3 DEF SwitchConfig, WriteConfig, WriteConfigFails
  <2>5. QED
    BY <1>0, <2>1, <2>2, <2>3, <2>4
<1>4. QED
  BY <1>1, <1>2, <1>3 DEF SwitchSteps

\* The steps of down, and Drop, preserve it.
LEMMA DownInv == Inv /\ DownSteps => Inv'
<1> SUFFICES ASSUME Inv, DownSteps PROVE Inv'
  OBVIOUS
<1> USE ServerAssumption
<1>0. TypeOK'
  BY TypeNext DEF Inv, Next
<1> USE DEF Inv, TypeOK, ObjectTypes, ServiceTypes, SystemTypes, HistoryTypes,
       PcValues, Actions, Phases, Recording, Guarded, Accepted,
       Filed, Halves, Unruled, Accounted, Settled, Standing,
       UpPcs, SwitchPcs, DownPcs
<1>1. CASE DownService
  <2>1. Phases'
    BY <1>1 DEF DownService, RemoveService, Failed
  <2>2. Recording' /\ Halves' /\ Settled'
    BY <1>1 DEF DownService, RemoveService, Failed
  <2>3. Guarded'
    BY <1>1 DEF DownService, RemoveService, Failed
  <2>4. Filed' /\ Accounted'
    BY <1>1 DEF DownService, RemoveService, Failed
  <2>5. QED
    BY <1>0, <2>1, <2>2, <2>3, <2>4
<1>2. CASE DownRelease
  <2>1. Phases'
    BY <1>2 DEF DownRelease, Release, ReleaseFails, ReplaceRules, Failed
  <2>2. Recording' /\ Halves' /\ Settled'
    BY <1>2 DEF DownRelease, Release, ReleaseFails, ReplaceRules, Failed
  <2>3. Guarded'
    BY <1>2 DEF DownRelease, Release, ReleaseFails, ReplaceRules, Failed
  <2>4. Filed' /\ Accounted'
    BY <1>2 DEF DownRelease, Release, ReleaseFails, ReplaceRules, Failed
  <2>5. QED
    BY <1>0, <2>1, <2>2, <2>3, <2>4
<1>3. CASE DownBypass
  <2>1. Phases'
    BY <1>3 DEF DownBypass
  <2>2. Recording' /\ Halves' /\ Settled'
    BY <1>3 DEF DownBypass
  <2>3. Guarded'
    BY <1>3 DEF DownBypass
  <2>4. Filed' /\ Accounted'
    BY <1>3 DEF DownBypass
  <2>5. QED
    BY <1>0, <2>1, <2>2, <2>3, <2>4
<1>4. CASE Drop
  <2>1. Phases'
    BY <1>4 DEF Drop
  <2>2. Recording' /\ Halves' /\ Settled'
    BY <1>4 DEF Drop
  <2>3. Guarded'
    BY <1>4 DEF Drop
  <2>4. Filed' /\ Accounted'
    BY <1>4 DEF Drop
  <2>5. QED
    BY <1>0, <2>1, <2>2, <2>3, <2>4
<1>5. CASE DropFields
  <2>1. Phases'
    BY <1>5 DEF DropFields, RemoveBypass
  <2>2. Recording' /\ Halves' /\ Settled'
    BY <1>5 DEF DropFields, RemoveBypass
  <2>3. Guarded'
    BY <1>5 DEF DropFields, RemoveBypass
  <2>4. Filed' /\ Accounted'
    BY <1>5 DEF DropFields, RemoveBypass
  <2>5. QED
    BY <1>0, <2>1, <2>2, <2>3, <2>4
<1>6. QED
  BY <1>1, <1>2, <1>3, <1>4, <1>5 DEF DownSteps

\* Calls, crashes, restarts and packets of the fleet preserve it.
LEMMA OtherInv == Inv /\ (Call \/ Machine) => Inv'
<1> SUFFICES ASSUME Inv, Call \/ Machine PROVE Inv'
  OBVIOUS
<1> USE ServerAssumption
<1>0. TypeOK'
  BY TypeNext DEF Inv, Next
<1> USE DEF Inv, TypeOK, ObjectTypes, ServiceTypes, SystemTypes, HistoryTypes,
       PcValues, Actions, Phases, Recording, Guarded, Accepted,
       Filed, Halves, Unruled, Accounted, Settled, Standing,
       UpPcs, SwitchPcs, DownPcs
<1>1. ASSUME NEW s \in Servers, NEW ks \in BOOLEAN, NEW al \in BOOLEAN,
             NEW p \in SUBSET Bypassable, Up(s, ks, al, p)
      PROVE  Inv'
  BY <1>0, <1>1 DEF Up
<1>2. ASSUME NEW s \in Servers, Switch(s) PROVE Inv'
  BY <1>0, <1>2 DEF Switch
<1>3. CASE Down
  BY <1>0, <1>3 DEF Down
<1>4. CASE Crash
  BY <1>0, <1>4 DEF Crash, Forgotten
<1>5. CASE Reboot
  BY <1>0, <1>5 DEF Reboot, Forgotten, StartService, RemoveService
<1>6. CASE Transmit
  BY <1>0, <1>6 DEF Transmit
<1>7. ASSUME NEW s \in Servers, Answer(s) PROVE Inv'
  BY <1>0, <1>7 DEF Answer
<1> HIDE DEF Inv
<1>8. QED
  BY <1>1, <1>2, <1>3, <1>4, <1>5, <1>6, <1>7 DEF Call, Machine

\* So every step does.
LEMMA InvNext == Inv /\ [Next]_vars => Inv'
<1>1. Inv /\ UNCHANGED vars => Inv'
  BY DEF Inv, TypeOK, ObjectTypes, ServiceTypes, SystemTypes, HistoryTypes,
       PcValues, Actions, Phases, Recording, Guarded, Accepted,
     Filed, Halves, Unruled, Accounted, Settled, Standing,
     UpPcs, SwitchPcs, DownPcs
<1>2. QED
  BY <1>1, UpInv, SwitchInv, DownInv, OtherInv DEF Next

\* The invariant holds in every reachable state.
THEOREM Invariance == Spec => []Inv
BY InvInit, InvNext, PTL DEF Spec

-----------------------------------------------------------------------------
(* What follows from it                                                    *)

\* Every field, file and firewall setting keeps its type.
THEOREM TypeCorrect == Spec => []TypeOK
BY Invariance, PTL DEF Inv

\* Under the kill switch only the link's and WireGuard's own traffic, private
\* ranges under allow_lan, the bypass plan and what rules admit that could not
\* be removed leave unencrypted, between any two programs of switch and down.
THEOREM Confinement == Spec => []KillswitchConfines
<1>1. Inv => KillswitchConfines
  BY DEF Inv, KillswitchConfines, Guarded, Accepted, Recording, InTheClear, Dropped,
     Tunnelled
<1>2. QED
  BY <1>1, Invariance, PTL

\* No engage, crash or restart makes the record wrong: only a release that did
\* not apply it, or that had none to apply.
THEOREM RecordKept == Spec => RecordTruthful
<1> DEFINE Kept == Truthful /\ ~Truthful'
                     => pc \in {"down_release", "up_rollback"} /\ (Unapplied \/ Guessed)
<1>1. Inv /\ [Next]_vars => Kept
  <2> SUFFICES ASSUME Inv, [Next]_vars, Truthful, ~Truthful'
               PROVE  pc \in {"down_release", "up_rollback"} /\ (Unapplied \/ Guessed)
    OBVIOUS
  <2>1. ~UNCHANGED <<record, default, original>>
    BY DEF Truthful
  <2>2. ~(UpRejected \/ ClearService \/ InstallBypass \/ UpConfig \/ InstallService)
    BY <2>1 DEF UpRejected, ClearService, InstallBypass, UpConfig, InstallService
  <2>3. ~(SwitchSteps \/ Call \/ Machine)
    BY <2>1 DEF SwitchSteps, SetEndpoint, RotateListenPort, SwitchConfig, Call, Up,
                Switch, Down, Machine, Crash, Reboot, Transmit, Answer
  <2>4. ~(DownService \/ DownBypass \/ Drop \/ DropFields)
    BY <2>1 DEF DownService, DownBypass, Drop, DropFields
  <2>5. ~EngageKillswitch
    BY <2>1 DEF EngageKillswitch, Engage, EngageFails, Recorded, Truthful, Inv, TypeOK,
                SystemTypes, Actions
  <2>6. CASE RollBack \/ DownRelease
    <3>1. original' = original /\ pc \in {"down_release", "up_rollback"}
      BY <2>6 DEF RollBack, DownRelease
    <3>2. ~ReleaseFails
      BY <3>1 DEF ReleaseFails, Truthful
    <3>3. Release
      BY <2>1, <2>6, <3>2 DEF RollBack, DownRelease
    <3>4. Unapplied \/ Guessed
      BY <3>1, <3>3 DEF Release, Truthful, Unapplied, Guessed
    <3>5. QED
      BY <3>1, <3>4
  <2>7. QED
    BY <2>1, <2>2, <2>3, <2>4, <2>5, <2>6 DEF Next, UpSteps, DownSteps
<1>2. QED
  BY <1>1, Invariance, PTL DEF Spec, RecordTruthful

\* A restart of the service never returns to a server that was left.
THEOREM FileFollows == Spec => []ConfFollows
<1>1. Inv => ConfFollows
  BY DEF Inv, ConfFollows, Filed
<1>2. QED
  BY <1>1, Invariance, PTL

\* Routing, WireGuard's filters and the kill switch agree about the bypass.
THEOREM BypassOpen == Spec => []BypassPermitted
<1>1. Inv => BypassPermitted
  BY DEF Inv, BypassPermitted, Guarded, Accepted, Recording, Halves, Standing, InTheClear,
     Dropped, Tunnelled
<1>2. QED
  BY <1>1, Invariance, PTL

\* A tunnel that is gone left nothing behind, the listed failures aside.
THEOREM CleanEnd == Spec => []NoResidue
<1>1. Inv => NoResidue
  BY DEF Inv, NoResidue, Accounted, Unruled, Recording, Phases
<1>2. QED
  BY <1>1, Invariance, PTL

\* Once the port is rotated and the endpoint is the server asked for, no
\* packet and no restart moves it.
THEOREM EndpointStays == Spec => EndpointSettled
<1>1. Inv /\ [Next]_vars
        => [pc = "idle" /\ conn # NoServer /\ rotated /\ peer = conn
               => peer' \in {conn, NoServer}]_vars
  <2> SUFFICES ASSUME Inv, Next, pc = "idle", conn # NoServer, rotated, peer = conn
               PROVE  peer' \in {conn, NoServer}
    OBVIOUS
  <2>1. ~(UpSteps \/ SwitchSteps \/ DownSteps)
    BY DEF UpSteps, UpRejected, ClearService, InstallBypass, UpConfig,
       InstallService, EngageKillswitch, RollBack, SwitchSteps, SetEndpoint,
       RotateListenPort, SwitchConfig, DownSteps, DownService, DownRelease,
       DownBypass, Drop, DropFields
  <2>2. Call => peer' = peer
    BY DEF Call, Up, Switch, Down
  <2>3. Crash \/ Transmit => peer' = peer
    BY DEF Crash, Transmit
  <2>4. Reboot => peer' \in {conn, NoServer}
    BY ServerAssumption DEF Reboot, StartService, RemoveService, Inv, Filed
  <2>5. ASSUME NEW s \in Servers, Answer(s) PROVE peer' = peer
    BY <2>5 DEF Answer, Inv, Settled
  <2>6. QED
    BY <2>1, <2>2, <2>3, <2>4, <2>5 DEF Next, Machine
<1>2. QED
  BY <1>1, Invariance, PTL DEF Spec, EndpointSettled

=============================================================================
