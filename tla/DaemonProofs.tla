---------------------------- MODULE DaemonProofs ----------------------------
(***************************************************************************)
(* Proofs about Daemon for any fleet, any filters and any thresholds.      *)
(***************************************************************************)
EXTENDS Daemon, TLAPS

-----------------------------------------------------------------------------
(* The inductive invariant, in parts                                       *)

\* A stopped daemon has no memory.
Blank ==
    phase = "stopped"
        => /\ ~owns
           /\ current = NoServer
           /\ pending = NoServer
           /\ ranking = {}
           /\ restoring = NoServer
           /\ ~tuning
           /\ ~cooling
           /\ refused = NoServer

\* A pass goes on only over a connection; a restoration only without one.
Busy ==
    /\ tuning => current # NoServer /\ restoring = NoServer
    /\ restoring # NoServer => current = NoServer

\* State remembers a refusal for as long as it stands.
Remembered == refused # NoServer => cooling /\ dismissed = refused

Inv ==
    /\ TypeOK
    /\ Blank
    /\ Busy
    /\ TunnelMatchesCurrent
    /\ ProposalAllowed
    /\ RankingEligible
    /\ Remembered

-----------------------------------------------------------------------------

USE DEF vars, tunnel, world, pass, refusal, prompts

\* The filters only ever shrink the set of servers.
LEMMA AllowedEligible ==
    \A c : Allowed(c) \subseteq Eligible(c) /\ \A z : AllowedIn(z, c) \subseteq Eligible(c)
BY DEF Allowed, AllowedIn

\* Only `auto` decides on a switch.
LEMMA SwitchIsAuto ==
    ASSUME NEW a, NEW t, t.policy \in Policies, Decide(a, t) = "Switch"
    PROVE  t.policy = "auto"
<1>1. ASSUME NEW d \in BOOLEAN, Act(t.policy, d) = "Switch" PROVE t.policy = "auto"
  BY <1>1 DEF Act, Policies
<1>2. (a.declined = a.current) \in BOOLEAN
  OBVIOUS
<1>3. DecideDegraded(a, t) = "Switch" => t.policy = "auto"
  BY <1>1, <1>2 DEF DecideDegraded
<1>4. QED
  BY <1>1, <1>3 DEF Decide

\* A server that answers and is under a dismissal is never the subject of a
\* proposal.
LEMMA DismissedIsQuiet ==
    ASSUME NEW a, NEW t, t.policy \in Policies,
           a.rtt # None, a.declined = a.current
    PROVE  Decide(a, t) # "Propose"
<1>1. Act(t.policy, TRUE) # "Propose"
  BY DEF Act, Policies
<1>2. DecideDegraded(a, t) # "Propose"
  BY <1>1 DEF DecideDegraded
<1>3. QED
  BY <1>2 DEF Decide

\* What a sweep decides on is a server it reached.
LEMMA DecisionReached ==
    ASSUME NEW reached, NEW d \in Decisions(reached)
    PROVE  /\ d.to \in reached
           /\ \E a \in Assessments(reached) : d.kind = Decide(a, Settings)
BY DEF Decisions, Assessments

-----------------------------------------------------------------------------
(* What the operations on the tunnel do to the fields of State             *)

Ends == Servers \cup {NoServer}

\* The kill switches that may be in force.
Rulesets == [on : BOOLEAN, bypass : BOOLEAN]

\* The types that an operation on the tunnel has to keep.
TunnelTyped ==
    /\ owns \in BOOLEAN /\ armed \in BOOLEAN /\ routed \in BOOLEAN
    /\ current \in Ends
    /\ exit \in Ends
    /\ nft \in Rulesets

\* Nothing but these is ever loaded.
LEMMA RulesetTypes ==
    ASSUME TypeOK
    PROVE  Off \in Rulesets /\ nft \in Rulesets
           /\ [on |-> TRUE, bypass |-> config.bypass] \in Rulesets
<1>1. config.bypass \in BOOLEAN
  BY DEF TypeOK
<1>2. QED
  BY <1>1 DEF TypeOK, Off, Rulesets

\* An establishment, whole or stopped short, owns a tunnel to a server.
LEMMA EstablishedFacts ==
    ASSUME TypeOK, NEW s \in Servers, NEW t \in Servers,
           Established(s) \/ StoppedShort(s, t)
    PROVE  TunnelTyped' /\ owns' /\ current' = s
<1>1. config.ks \in BOOLEAN /\ config.bypass \in BOOLEAN
  BY DEF TypeOK
<1>2. owns' = TRUE /\ armed' \in BOOLEAN /\ routed' \in BOOLEAN /\ current' = s
  BY <1>1 DEF Established, StoppedShort, Owned
<1>3. nft' \in Rulesets
  BY RulesetTypes DEF Established, StoppedShort, Owned
<1>4. exit' \in Ends
  BY DEF Established, StoppedShort, Ends
<1>5. QED
  BY <1>2, <1>3, <1>4 DEF TunnelTyped, Ends

\* A failure to establish changes no field of State.
LEMMA EstablishFailedFacts ==
    ASSUME TypeOK, NEW s \in Servers, EstablishFailed(s)
    PROVE  TunnelTyped' /\ UNCHANGED <<owns, armed, routed, current>>
<1>1. nft' \in {Off, nft, [on |-> TRUE, bypass |-> config.bypass]}
  BY DEF EstablishFailed
<1>2. nft' \in Rulesets
  BY <1>1, RulesetTypes
<1>3. exit' \in Ends
  BY DEF EstablishFailed, TypeOK, Ends
<1>4. QED
  BY <1>2, <1>3 DEF EstablishFailed, TunnelTyped, TypeOK, Ends

\* A move keeps the tunnel, and its failure keeps the record of it too.
LEMMA RetargetFacts ==
    ASSUME TypeOK, NEW s \in Servers, Retargeted(s) \/ RetargetFailed(s)
    PROVE  /\ TunnelTyped'
           /\ UNCHANGED <<owns, armed, routed, nft>>
           /\ current' \in {current, s}
BY RulesetTypes DEF Retargeted, RetargetFailed, TunnelTyped, TypeOK, Ends

\* A teardown forgets the connection whether it succeeds or not.
LEMMA TearDownFacts ==
    ASSUME TypeOK, TornDown \/ TearDownFailed \/ (TearDown /\ UNCHANGED world)
    PROVE  /\ TunnelTyped'
           /\ ~owns' /\ ~armed' /\ ~routed'
           /\ current' = NoServer
<1>1. nft' \in Rulesets
  BY RulesetTypes DEF TornDown, TearDownFailed
<1>2. exit' \in Ends
  BY DEF TornDown, TearDownFailed, TypeOK, Ends
<1>3. owns' = FALSE /\ armed' = FALSE /\ routed' = FALSE /\ current' = NoServer
  BY DEF TornDown, TearDownFailed, TearDown
<1>4. QED
  BY <1>1, <1>2, <1>3 DEF TunnelTyped, Ends

-----------------------------------------------------------------------------
(* The invariant                                                           *)

\* The types of the fields that no operation on the tunnel touches.
Settled ==
    /\ phase \in {"running", "stopped"}
    /\ config \in [named : SUBSET Servers, zoned : SUBSET Servers,
                   black : SUBSET Servers, policy : Policies,
                   ks : BOOLEAN, bypass : BOOLEAN]
    /\ restoring \in Ends
    /\ tuning \in BOOLEAN
    /\ probe \in [real : Rtts \cup {None}, seen : Rtts \cup {None}]

Noted ==
    /\ cached \in BOOLEAN
    /\ ranking \in SUBSET Servers
    /\ pending \in Ends
    /\ dismissed \in Ends
    /\ cooling \in BOOLEAN
    /\ refused \in Ends

LEMMA TypeParts == TypeOK <=> TunnelTyped /\ Settled /\ Noted
BY DEF TypeOK, TunnelTyped, Settled, Noted, Ends, Rulesets

\* State::load.
LEMMA InvInit == Init => Inv
<1> SUFFICES ASSUME Init PROVE Inv
  OBVIOUS
<1>1. Off \in Rulesets /\ Unprobed \in [real : Rtts \cup {None}, seen : Rtts \cup {None}]
  BY DEF Off, Unprobed, Rulesets
<1>2. TunnelTyped
  BY <1>1 DEF Init, TunnelTyped, Ends
<1>3. Settled /\ Noted
  BY <1>1, ConfigAssumption DEF Init, Settled, Noted, Ends
<1>4. TypeOK
  BY <1>2, <1>3, TypeParts
<1>5. QED
  BY <1>4 DEF Init, Inv, Blank, Busy, TunnelMatchesCurrent, ProposalAllowed,
              RankingEligible, Remembered

\* A step of a running daemon under filters that stay.
LEMMA RunningStep ==
    ASSUME Inv, phase = "running", UNCHANGED <<phase, config>>,
           TunnelTyped', Settled', Noted',
           owns' <=> current' # NoServer,
           Busy', Remembered',
           pending' \in {pending, NoServer} \cup Allowed(config),
           ranking' \subseteq Eligible(config)
    PROVE  Inv'
<1>1. TypeOK'
  BY TypeParts, PTL
<1>2. Blank' /\ TunnelMatchesCurrent' /\ RankingEligible'
  BY DEF Inv, Blank, TunnelMatchesCurrent, RankingEligible, Eligible
<1>3. ProposalAllowed'
  BY DEF Inv, ProposalAllowed, Allowed, Eligible
<1>4. QED
  BY <1>1, <1>2, <1>3 DEF Inv

\* What a running daemon outside a pass and a baseline looks like.
LEMMA LockedFacts ==
    ASSUME Inv
    PROVE  /\ TunnelTyped /\ Settled /\ Noted
           /\ ranking \subseteq Eligible(config)
           /\ Allowed(config) \subseteq Servers
           /\ Allowed(config) \subseteq Eligible(config)
           /\ NoServer \notin Servers
BY TypeParts, AllowedEligible, NoServerAssumption
   DEF Inv, RankingEligible, Allowed, Eligible, Settled

\* A list that is fetched or not leaves the cache flag a flag.
LEMMA ListTyped == ASSUME TypeOK, ListOk \/ ListFails PROVE cached' \in BOOLEAN
BY DEF ListOk, ListFails, TypeOK

\* What answers a sweep was among its candidates.
LEMMA AnsweringSubset ==
    ASSUME NEW cs, NEW reached \in Answering(cs) PROVE reached \subseteq cs
BY DEF Answering

\* A refusal is kept, or given up on both sides.
Forgiven == dismissed' = NoServer /\ cooling' = FALSE /\ refused' = NoServer

LEMMA RefusalFacts ==
    ASSUME Inv, UNCHANGED refusal \/ Forgiven
    PROVE  /\ dismissed' \in Ends /\ cooling' \in BOOLEAN /\ refused' \in Ends
           /\ Remembered'
BY LockedFacts DEF Inv, Remembered, Forgiven, Noted, Ends

\* Requests that connect or move.
LEMMA MovesInv ==
    ASSUME Inv, NEW s \in Servers, ConnectNamed(s) \/ Switch(s) PROVE Inv'
<1> USE DEF Inv, Locked
<1>0. TypeOK
  OBVIOUS
<1>1. CASE ConnectNamed(s)
  <2>1. TunnelTyped' /\ (owns' <=> current' # NoServer)
    BY <1>0, <1>1, EstablishedFacts, EstablishFailedFacts, NoServerAssumption
       DEF ConnectNamed, TunnelMatchesCurrent
  <2>2. Settled' /\ Noted'
    BY <1>1, ListTyped, LockedFacts DEF ConnectNamed, Settled, Noted
  <2>3. Busy' /\ Remembered'
    BY <1>1, <2>1, LockedFacts, RefusalFacts DEF ConnectNamed, Busy, Settled
  <2>4. QED
    BY <1>1, <2>1, <2>2, <2>3, LockedFacts, RunningStep DEF ConnectNamed
<1>2. CASE Switch(s)
  <2>1. Retargeted(s) \/ RetargetFailed(s)
    BY <1>2 DEF Switch, Switched
  <2>2. TunnelTyped' /\ owns' = owns /\ current' \in {current, s}
    BY <1>0, <2>1, RetargetFacts
  <2>3. owns' <=> current' # NoServer
    BY <1>2, <2>2, NoServerAssumption DEF Switch, TunnelMatchesCurrent
  <2>4. dismissed' \in Ends /\ cooling' \in BOOLEAN /\ refused' \in Ends /\ Remembered'
    BY <1>2, RefusalFacts DEF Switch, Switched, Forgiven
  <2>5. Settled' /\ Noted'
    BY <1>2, <2>4, ListTyped, LockedFacts DEF Switch, Settled, Noted
  <2>6. Busy'
    BY <1>2, <2>2, LockedFacts DEF Switch, Busy, Settled
  <2>7. QED
    BY <1>2, <2>2, <2>3, <2>4, <2>5, <2>6, LockedFacts, RunningStep DEF Switch
<1>3. QED
  BY <1>1, <1>2

\* Connecting to the best of a sweep.
LEMMA ConnectBestInv == ASSUME Inv, ConnectBest PROVE Inv'
<1> USE DEF Inv, Locked
<1>0. TypeOK
  OBVIOUS
<1>1. PICK reached \in Answering(Allowed(config)) \ {{}} :
          /\ ranking' = reached
          /\ \E c, d \in reached :
                Established(c) \/ EstablishFailed(c) \/ StoppedShort(c, d)
  BY DEF ConnectBest
<1>2. reached \subseteq Allowed(config) /\ reached \subseteq Servers
  BY <1>1, AnsweringSubset, LockedFacts
<1>3. PICK c \in Servers, d \in Servers :
          Established(c) \/ EstablishFailed(c) \/ StoppedShort(c, d)
  BY <1>1, <1>2
<1>4. TunnelTyped' /\ (owns' <=> current' # NoServer)
  BY <1>0, <1>3, EstablishedFacts, EstablishFailedFacts, NoServerAssumption
     DEF TunnelMatchesCurrent
<1>5. Settled' /\ Noted'
  BY <1>1, <1>2, ListTyped, LockedFacts DEF ConnectBest, Settled, Noted
<1>6. Busy' /\ Remembered'
  BY LockedFacts, RefusalFacts DEF ConnectBest, Busy, Settled
<1>7. QED
  BY <1>1, <1>2, <1>4, <1>5, <1>6, LockedFacts, RunningStep DEF ConnectBest

\* Requests that take the tunnel down, for good or for a baseline.
LEMMA DownInv == ASSUME Inv, Disconnect \/ BaselineDown PROVE Inv'
<1> USE DEF Inv, Locked
<1>0. TypeOK
  OBVIOUS
<1>1. TornDown \/ TearDownFailed
  BY DEF Disconnect, BaselineDown
<1>2. TunnelTyped' /\ ~owns' /\ current' = NoServer
  BY <1>0, <1>1, TearDownFacts
<1>3. restoring' \in Ends /\ tuning' = tuning /\ ~tuning
  BY LockedFacts DEF Disconnect, BaselineDown, TunnelTyped, Settled
<1>4. Settled' /\ Noted'
  BY <1>3, LockedFacts DEF Disconnect, BaselineDown, Settled, Noted
<1>5. Busy'
  BY <1>2, <1>3 DEF Busy
<1>6. Remembered'
  BY RefusalFacts DEF Disconnect, BaselineDown
<1>7. QED
  BY <1>2, <1>4, <1>5, <1>6, LockedFacts, RunningStep DEF Disconnect, BaselineDown

\* The end of a baseline.
LEMMA RestoreInv == ASSUME Inv, BaselineRestore PROVE Inv'
<1> USE DEF Inv
<1>0. TypeOK /\ restoring \in Servers
  BY DEF BaselineRestore, TypeOK
<1>1. TunnelTyped' /\ (owns' <=> current' # NoServer)
  <2>1. CASE Established(restoring) \/ EstablishFailed(restoring)
    BY <1>0, <2>1, EstablishedFacts, EstablishFailedFacts, NoServerAssumption
       DEF TunnelMatchesCurrent
  <2>2. CASE UNCHANGED <<tunnel, current, world>>
    BY <2>2, LockedFacts DEF TunnelMatchesCurrent, TunnelTyped
  <2>3. QED
    BY <2>1, <2>2 DEF BaselineRestore
<1>2. Settled' /\ Noted'
  BY ListTyped, LockedFacts DEF BaselineRestore, Settled, Noted, Ends
<1>3. Busy' /\ Remembered'
  BY RefusalFacts DEF BaselineRestore, Busy
<1>4. QED
  BY <1>1, <1>2, <1>3, LockedFacts, RunningStep DEF BaselineRestore

\* Requests that only look, and the edges of the prompt.
LEMMA LooksInv ==
    ASSUME Inv, FetchList \/ TuneDisconnected \/ Dismiss \/ CooldownEnds
    PROVE  Inv'
<1>1. phase = "running"
  BY DEF FetchList, TuneDisconnected, Dismiss, Locked, CooldownEnds, Inv, Blank,
         TypeOK
<1>2. UNCHANGED <<phase, config, owns, armed, routed, current, ranking, restoring,
                  exit, nft, tuning, probe>>
  BY DEF FetchList, TuneDisconnected, Dismiss, CooldownEnds
<1>3. cached' \in BOOLEAN /\ pending' \in {pending, NoServer}
  BY LockedFacts DEF FetchList, TuneDisconnected, Dismiss, CooldownEnds, ListOk,
                     Record, Noted
<1>4. dismissed' \in Ends /\ cooling' \in BOOLEAN /\ refused' \in Ends /\ Remembered'
  <2>1. CASE FetchList \/ TuneDisconnected \/ UNCHANGED refusal
    BY <2>1, RefusalFacts DEF FetchList, TuneDisconnected
  <2>2. CASE Dismiss /\ current # NoServer
    BY <2>2, LockedFacts DEF Dismiss, Remembered, TunnelTyped
  <2>3. CASE CooldownEnds
    BY <2>3, LockedFacts DEF CooldownEnds, Remembered, Noted, Ends
  <2>4. QED
    BY <2>1, <2>2, <2>3 DEF Dismiss
<1>5. TunnelTyped' /\ Settled' /\ Noted'
  BY <1>2, <1>3, <1>4, LockedFacts DEF TunnelTyped, Settled, Noted, Ends
<1>6. Busy' /\ (owns' <=> current' # NoServer)
  BY <1>2 DEF Inv, Busy, TunnelMatchesCurrent
<1>7. QED
  BY <1>1, <1>2, <1>3, <1>4, <1>5, <1>6, LockedFacts, RunningStep

\* A sweep on request, over the filters in force or over a country.
LEMMA TestInv ==
    ASSUME Inv, NEW cs \in SUBSET Eligible(config), Test(cs) PROVE Inv'
<1> USE DEF Inv, Locked
<1>1. PICK reached \in Answering(cs) \ {{}} : ranking' = reached
  BY DEF Test
<1>2. ranking' \subseteq Eligible(config) /\ ranking' \subseteq Servers
  BY <1>1, AnsweringSubset, LockedFacts DEF Eligible, Settled
<1>3. TunnelTyped' /\ Settled' /\ Noted'
  BY <1>2, ListTyped, LockedFacts DEF Test, TunnelTyped, Settled, Noted
<1>4. Busy' /\ Remembered' /\ (owns' <=> current' # NoServer)
  BY RefusalFacts DEF Test, Busy, TunnelMatchesCurrent
<1>5. QED
  BY <1>2, <1>3, <1>4, RunningStep DEF Test

\* The first half of a pass, and the two ways it ends without a sweep.
LEMMA ProbeInv ==
    ASSUME Inv, NEW rtt \in Rtts \cup {None}, TuneProbe(rtt) PROVE Inv'
<1> USE DEF Inv, Locked
<1>1. probe' \in [real : Rtts \cup {None}, seen : Rtts \cup {None}]
  BY DEF TuneProbe
<1>2. TunnelTyped' /\ Settled' /\ Noted'
  BY <1>1, ListTyped, LockedFacts DEF TuneProbe, TunnelTyped, Settled, Noted
<1>3. Busy' /\ Remembered' /\ (owns' <=> current' # NoServer)
  BY RefusalFacts DEF TuneProbe, Busy, TunnelMatchesCurrent
<1>4. QED
  BY <1>2, <1>3, LockedFacts, RunningStep DEF TuneProbe

LEMMA PassTyped == PassEnds /\ Settled /\ UNCHANGED <<phase, config, restoring>> => Settled'
<1> SUFFICES ASSUME PassEnds, Settled, UNCHANGED <<phase, config, restoring>>
             PROVE  Settled'
  OBVIOUS
<1>1. Unprobed \in [real : Rtts \cup {None}, seen : Rtts \cup {None}]
  BY DEF Unprobed
<1>2. QED
  BY <1>1 DEF PassEnds, Settled, Ends

LEMMA EndsInv == ASSUME Inv, TuneHealthy \/ TuneFails PROVE Inv'
<1>1. phase = "running"
  BY DEF TuneHealthy, TuneFails, Inv, Blank, TypeOK
<1>2. UNCHANGED <<phase, config, owns, armed, routed, current, ranking, dismissed,
                  cooling, refused, restoring, exit, nft>> /\ tuning' = FALSE
  BY DEF TuneHealthy, TuneFails, PassEnds
<1>3. pending' \in {pending, NoServer} /\ cached' \in BOOLEAN
  BY LockedFacts DEF TuneHealthy, TuneFails, Record, ListOk, ListFails, Noted
<1>4. Settled'
  BY PassTyped, LockedFacts DEF TuneHealthy, TuneFails
<1>5. TunnelTyped' /\ Noted'
  BY <1>2, <1>3, LockedFacts DEF TunnelTyped, Noted, Ends
<1>6. Busy' /\ Remembered' /\ (owns' <=> current' # NoServer)
  BY <1>2 DEF Inv, Busy, Remembered, TunnelMatchesCurrent
<1>7. QED
  BY <1>1, <1>2, <1>3, <1>4, <1>5, <1>6, LockedFacts, RunningStep

\* What the conclusion of a sweep leaves, whichever way it goes.
LEMMA ConcludeFacts ==
    ASSUME Inv, current # NoServer, NEW kind, NEW to \in Allowed(config),
           Conclude(kind, to)
    PROVE  /\ TunnelTyped'
           /\ owns' /\ current' # NoServer
           /\ pending' \in {pending, NoServer} \cup Allowed(config)
           /\ UNCHANGED refusal \/ Forgiven
<1>1. TypeOK /\ owns /\ to \in Servers /\ NoServer \notin Servers
  BY LockedFacts DEF Inv, TunnelMatchesCurrent
<1>2. pending' \in {pending, NoServer} \cup Allowed(config)
  BY DEF Conclude, Record
<1>3. UNCHANGED refusal \/ Forgiven
  BY DEF Conclude, Switched, Forgiven
<1>4. CASE Retargeted(to) \/ RetargetFailed(to)
  BY <1>1, <1>2, <1>3, <1>4, RetargetFacts
<1>5. CASE UNCHANGED <<owns, armed, routed, current, exit, nft>>
  BY <1>1, <1>2, <1>3, <1>5, LockedFacts DEF TunnelTyped
<1>6. QED
  BY <1>4, <1>5 DEF Conclude, Switched

LEMMA SweepInv == ASSUME Inv, TuneSweep PROVE Inv'
<1>1. phase = "running" /\ current # NoServer /\ restoring = NoServer
  BY DEF TuneSweep, Inv, Blank, Busy, TypeOK
<1>2. Settled' /\ cached' \in BOOLEAN /\ tuning' = FALSE /\ UNCHANGED <<phase, config, restoring>>
  BY PassTyped, ListTyped, LockedFacts DEF TuneSweep, PassEnds, Inv
<1>3. PICK reached \in Answering(Allowed(config)) :
        \/ /\ reached = {}
           /\ Record("NothingReachable", NoServer)
           /\ UNCHANGED <<ranking, tunnel, current, world, refusal>>
        \/ /\ reached # {}
           /\ ranking' = reached
           /\ \E d \in Decisions(reached) : Conclude(d.kind, d.to)
  BY DEF TuneSweep
<1>4. reached \subseteq Allowed(config)
  BY AnsweringSubset
<1>5. /\ TunnelTyped'
      /\ owns' /\ current' # NoServer
      /\ pending' \in {pending, NoServer} \cup Allowed(config)
      /\ UNCHANGED refusal \/ Forgiven
      /\ ranking' \subseteq Eligible(config) /\ ranking' \subseteq Servers
  <2>1. CASE reached = {}
    BY <1>1, <1>3, <2>1, LockedFacts
       DEF Record, Inv, TunnelMatchesCurrent, TunnelTyped, Noted
  <2>2. CASE reached # {}
    <3>1. PICK d \in Decisions(reached) : Conclude(d.kind, d.to)
      BY <1>3, <2>2
    <3>2. d.to \in Allowed(config)
      BY <1>4, DecisionReached
    <3>3. ranking' \subseteq Eligible(config) /\ ranking' \subseteq Servers
      BY <1>3, <1>4, <2>2, LockedFacts
    <3>4. QED
      BY <1>1, <3>1, <3>2, <3>3, ConcludeFacts
  <2>3. QED
    BY <2>1, <2>2
<1>6. pending' \in Ends
  BY <1>5, LockedFacts DEF Noted, Ends
<1>7. Noted' /\ Remembered'
  BY <1>2, <1>5, <1>6, RefusalFacts DEF Noted, Ends
<1>8. Busy'
  BY <1>1, <1>2 DEF Busy
<1>9. QED
  BY <1>1, <1>2, <1>5, <1>7, <1>8, RunningStep

LEMMA ApproveInv == ASSUME Inv, Approve PROVE Inv'
<1> USE DEF Inv, Locked
<1>1. TypeOK /\ pending \in Servers
  BY DEF Approve, TypeOK
<1>2. CASE /\ current # NoServer
           /\ ListOk
           /\ \/ Switched(pending)
              \/ RetargetFailed(pending) /\ UNCHANGED refusal
  <2>1. TunnelTyped' /\ owns' = owns /\ current' \in {current, pending}
    BY <1>1, <1>2, RetargetFacts DEF Switched
  <2>2. owns' <=> current' # NoServer
    BY <1>1, <1>2, <2>1, NoServerAssumption DEF TunnelMatchesCurrent
  <2>3. dismissed' \in Ends /\ cooling' \in BOOLEAN /\ refused' \in Ends /\ Remembered'
    BY <1>2, RefusalFacts DEF Switched, Forgiven
  <2>4. Settled' /\ Noted'
    BY <1>2, <2>3, ListTyped, LockedFacts DEF Approve, Settled, Noted, Ends
  <2>5. Busy'
    BY DEF Approve, Busy
  <2>6. QED
    BY <2>1, <2>2, <2>3, <2>4, <2>5, LockedFacts, RunningStep DEF Approve
<1>3. CASE UNCHANGED <<cached, tunnel, current, world, refusal>>
  <2>1. TunnelTyped' /\ Settled' /\ Noted'
    BY <1>3, LockedFacts DEF Approve, TunnelTyped, Settled, Noted, Ends
  <2>2. Busy' /\ Remembered' /\ (owns' <=> current' # NoServer)
    BY <1>3, RefusalFacts DEF Approve, Busy, TunnelMatchesCurrent
  <2>3. QED
    BY <2>1, <2>2, LockedFacts, RunningStep DEF Approve
<1>4. QED
  BY <1>2, <1>3 DEF Approve

\* A reload passes both caches through the filters it installs.
LEMMA ReloadInv == ASSUME Inv, NEW c \in Configs, Reload(c) PROVE Inv'
<1>1. phase = "running" /\ phase' = "running" /\ config' = c /\ restoring = NoServer /\ ~tuning
  BY DEF Reload, Locked
<1>2. pending' \in {NoServer} \cup Allowed(c) /\ pending' \in {pending, NoServer}
  BY DEF Reload, FilteredProposal
<1>3. ranking' \subseteq Eligible(c) /\ ranking' \subseteq ranking
  BY AllowedEligible DEF Reload, FilteredRanking
<1>4. TunnelTyped' /\ Settled'
  BY <1>1, ConfigAssumption, LockedFacts DEF Reload, TunnelTyped, Settled
<1>5. Noted'
  BY <1>2, <1>3, LockedFacts DEF Reload, Noted, Ends
<1>6. TypeOK'
  BY <1>4, <1>5, TypeParts, PTL
<1>7. Blank' /\ Busy' /\ TunnelMatchesCurrent' /\ Remembered'
  BY <1>1 DEF Reload, Inv, Blank, Busy, TunnelMatchesCurrent, Remembered
<1>8. ProposalAllowed' /\ RankingEligible'
  BY <1>1, <1>2, <1>3 DEF ProposalAllowed, RankingEligible, Allowed, Eligible
<1>9. QED
  BY <1>6, <1>7, <1>8 DEF Inv

LEMMA KillswitchInv == ASSUME Inv, KillswitchOn \/ KillswitchOff PROVE Inv'
<1>1. PICK b \in BOOLEAN : config' = [config EXCEPT !.ks = b]
  BY DEF KillswitchOn, KillswitchOff
<1>2. UNCHANGED <<phase, cached, owns, armed, routed, current, ranking, pending,
                  dismissed, cooling, refused, restoring, exit, tuning, probe>>
      /\ phase = "running"
  BY DEF KillswitchOn, KillswitchOff, Locked
<1>3. nft' \in Rulesets
  <2>1. [on |-> TRUE, bypass |-> FALSE] \in Rulesets
    BY DEF Rulesets
  <2>2. QED
    BY <2>1, RulesetTypes DEF KillswitchOn, KillswitchOff, Inv
<1>4. Settled'
  BY <1>1, <1>2, LockedFacts DEF Settled
<1>5. TunnelTyped' /\ Noted'
  BY <1>2, <1>3, LockedFacts DEF TunnelTyped, Noted
<1>6. TypeOK'
  BY <1>4, <1>5, TypeParts, PTL
<1>7. config'.named = config.named /\ config'.zoned = config.zoned
      /\ config'.black = config.black
  BY <1>1, LockedFacts DEF Settled
<1>8. Blank' /\ Busy' /\ TunnelMatchesCurrent' /\ Remembered'
  BY <1>2 DEF Inv, Blank, Busy, TunnelMatchesCurrent, Remembered
<1>9. ProposalAllowed' /\ RankingEligible'
  BY <1>2, <1>7 DEF Inv, ProposalAllowed, RankingEligible, Allowed, Eligible
<1>10. QED
  BY <1>6, <1>8, <1>9 DEF Inv

\* The process ends, in order or not, and starts again.
LEMMA ProcessInv ==
    ASSUME Inv, Shutdown \/ Crash \/ \E c \in Configs : Start(c) PROVE Inv'
<1>1. CASE Shutdown \/ Crash
  <2>1. Forgotten
    BY <1>1 DEF Shutdown, Crash
  <2>2. TunnelTyped' /\ ~owns' /\ current' = NoServer
    <3>1. CASE TornDown \/ TearDownFailed \/ (TearDown /\ UNCHANGED world)
      BY <3>1, TearDownFacts DEF Inv
    <3>2. CASE ~owns /\ UNCHANGED <<tunnel, current, world>>
      BY <3>2, LockedFacts DEF TunnelTyped, Inv, TunnelMatchesCurrent
    <3>3. QED
      BY <1>1, <3>1, <3>2 DEF Shutdown, Crash
  <2>3. Settled' /\ Noted'
    BY <2>1, LockedFacts DEF Forgotten, PassEnds, Unprobed, Settled, Noted, Ends
  <2>4. TypeOK'
    BY <2>2, <2>3, TypeParts, PTL
  <2>5. QED
    BY <2>1, <2>2, <2>4 DEF Forgotten, PassEnds, Inv, Blank, Busy,
       TunnelMatchesCurrent, ProposalAllowed, RankingEligible, Remembered
<1>2. CASE \E c \in Configs : Start(c)
  <2>1. PICK c \in Configs : Start(c)
    BY <1>2
  <2>2. TunnelTyped' /\ Settled' /\ Noted'
    BY <2>1, ConfigAssumption, LockedFacts DEF Start, TunnelTyped, Settled, Noted
  <2>3. TypeOK'
    BY <2>2, TypeParts, PTL
  <2>4. QED
    BY <2>1, <2>3 DEF Start, Inv, Blank, Busy, TunnelMatchesCurrent,
       ProposalAllowed, RankingEligible, Remembered
<1>3. QED
  BY <1>1, <1>2

\* A step in which nothing changes.
LEMMA StutterInv == ASSUME Inv, UNCHANGED vars PROVE Inv'
BY DEF Inv, TypeOK, Blank, Busy, TunnelMatchesCurrent, ProposalAllowed,
       RankingEligible, Allowed, Eligible, Remembered

LEMMA InvNext == ASSUME Inv, [Next]_vars PROVE Inv'
<1>1. CASE User
  <2>1. Allowed(config) \in SUBSET Eligible(config)
        /\ \A z : AllowedIn(z, config) \in SUBSET Eligible(config)
    BY AllowedEligible
  <2>2. QED
    BY <1>1, <2>1, MovesInv, ConnectBestInv, DownInv, LooksInv, TestInv, ApproveInv,
       ReloadInv, KillswitchInv DEF User
<1>2. CASE Tune
  BY <1>2, LooksInv, ProbeInv, EndsInv, SweepInv DEF Tune
<1>3. CASE BaselineRestore \/ CooldownEnds
  BY <1>3, RestoreInv, LooksInv
<1>4. CASE Process
  BY <1>4, ProcessInv DEF Process
<1>5. QED
  BY <1>1, <1>2, <1>3, <1>4, StutterInv DEF Next

-----------------------------------------------------------------------------
(* Theorems                                                                *)

\* The invariant holds of every history of requests, failures and crashes.
THEOREM Invariance == Spec => []Inv
<1>1. Inv /\ [Next]_vars => Inv'
  BY InvNext
<1>2. QED
  BY InvInit, <1>1, PTL DEF Spec

\* Every field of State keeps its type.
THEOREM TypeCorrect == Spec => []TypeOK
<1>1. Inv => TypeOK
  BY DEF Inv
<1>2. QED
  BY Invariance, <1>1, PTL

\* The daemon owns a tunnel exactly when it records a connection, after any
\* sequence of requests of which any may fail.
THEOREM Connection == Spec => []TunnelMatchesCurrent
<1>1. Inv => TunnelMatchesCurrent
  BY DEF Inv
<1>2. QED
  BY Invariance, <1>1, PTL

\* The filters in force accept the server that a pending proposal names.
THEOREM Proposals == Spec => []ProposalAllowed
<1>1. Inv => ProposalAllowed
  BY DEF Inv
<1>2. QED
  BY Invariance, <1>1, PTL

\* The cached ranking holds no server that the filters in force refuse, the
\* country whitelist aside.
THEOREM Rankings == Spec => []RankingEligible
<1>1. Inv => RankingEligible
  BY DEF Inv
<1>2. QED
  BY Invariance, <1>1, PTL

-----------------------------------------------------------------------------
(* Action properties                                                       *)

\* Requests wait for the mutex: while a pass goes on, only the pass itself,
\* the clock and the end of the process take a step.
LEMMA PassAlone ==
    ASSUME Inv, tuning, Next
    PROVE  TuneHealthy \/ TuneSweep \/ TuneFails \/ CooldownEnds \/ Crash
<1>1. restoring = NoServer /\ phase = "running"
  BY DEF Inv, Busy, Blank, TypeOK
<1>2. ~Locked
  BY DEF Locked
<1>3. ~User
  BY <1>2 DEF User, ConnectNamed, Switch, ConnectBest, Disconnect, BaselineDown,
     FetchList, Test, Approve, Dismiss, Reload, KillswitchOn, KillswitchOff
<1>4. ~BaselineRestore
  BY <1>1 DEF BaselineRestore
<1>5. Process => Crash
  BY <1>1, <1>2 DEF Process, Shutdown, Start
<1>6. QED
  BY <1>2, <1>3, <1>4, <1>5 DEF Next, Tune, TuneDisconnected, TuneProbe

\* While the user's refusal stands, whatever requests, failures and passes came
\* in between, a pass that finds the same server slow parks no proposal: State
\* remembers a refusal for as long as it stands (Remembered).
THEOREM Dismissals == Spec => DismissalRespected
<1>1. ASSUME Inv, [Next]_vars, tuning, probe.seen # None, refused = current
      PROVE  pending' \in {pending, NoServer}
  <2>1. CASE TuneSweep
    <3>1. PICK reached \in Answering(Allowed(config)) :
            \/ Record("NothingReachable", NoServer)
            \/ \E d \in Decisions(reached) : Conclude(d.kind, d.to)
      BY <2>1 DEF TuneSweep
    <3>2. CASE \E d \in Decisions(reached) : Conclude(d.kind, d.to)
      <4>1. PICK d \in Decisions(reached) : Conclude(d.kind, d.to)
        BY <3>2
      <4>2. PICK a \in Assessments(reached) : d.kind = Decide(a, Settings)
        BY DecisionReached
      <4>3. a.rtt # None /\ a.declined = a.current
        <5>1. current # NoServer
          BY <1>1 DEF Inv, Busy
        <5>2. ActiveDismissal = current
          BY <1>1, <5>1 DEF Inv, Remembered, ActiveDismissal
        <5>3. QED
          BY <1>1, <5>2 DEF Assessments
      <4>4. Settings.policy \in Policies
        BY <1>1 DEF Inv, TypeOK, Settings
      <4>5. d.kind # "Propose"
        BY <4>2, <4>3, <4>4, DismissedIsQuiet
      <4>6. QED
        BY <4>1, <4>5 DEF Conclude, Record
    <3>3. QED
      BY <3>1, <3>2 DEF Record
  <2>2. CASE TuneHealthy \/ TuneFails \/ CooldownEnds \/ Crash \/ UNCHANGED vars
    BY <2>2 DEF TuneHealthy, TuneFails, CooldownEnds, Crash, Forgotten, Record
  <2>3. QED
    BY <1>1, <2>1, <2>2, PassAlone
<1>2. ASSUME Inv, [Next]_vars
      PROVE  [tuning /\ probe.seen # None /\ refused = current
               => pending' \in {pending, NoServer}]_vars
  BY <1>1, <1>2
<1>3. QED
  BY Invariance, <1>2, PTL DEF Spec, DismissalRespected

\* Under `ask` and `never` no tuning pass touches the tunnel.
THEOREM Policy == Spec => OnlyAutoMoves
<1>1. ASSUME Inv, [Next]_vars, tuning, phase' = "running", config.policy # "auto"
      PROVE  UNCHANGED <<current, exit, nft>>
  <2>1. CASE TuneSweep
    <3>1. PICK reached \in Answering(Allowed(config)) :
            \/ UNCHANGED <<current, world>>
            \/ \E d \in Decisions(reached) : Conclude(d.kind, d.to)
      BY <2>1 DEF TuneSweep
    <3>2. CASE \E d \in Decisions(reached) : Conclude(d.kind, d.to)
      <4>1. PICK d \in Decisions(reached) : Conclude(d.kind, d.to)
        BY <3>2
      <4>2. PICK a \in Assessments(reached) : d.kind = Decide(a, Settings)
        BY DecisionReached
      <4>3. Settings.policy \in Policies /\ Settings.policy # "auto"
        BY <1>1 DEF Inv, TypeOK, Settings
      <4>4. d.kind # "Switch"
        BY <4>2, <4>3, SwitchIsAuto
      <4>5. QED
        BY <4>1, <4>4 DEF Conclude
    <3>3. QED
      BY <3>1, <3>2
  <2>2. CASE TuneHealthy \/ TuneFails \/ CooldownEnds \/ UNCHANGED vars
    BY <2>2 DEF TuneHealthy, TuneFails, CooldownEnds
  <2>3. ~Crash
    BY <1>1 DEF Crash, Forgotten
  <2>4. QED
    BY <1>1, <2>1, <2>2, <2>3, PassAlone
<1>2. ASSUME Inv, [Next]_vars
      PROVE  [tuning /\ phase' = "running" /\ config.policy # "auto"
               => UNCHANGED <<current, exit, nft>>]_vars
  BY <1>1, <1>2
<1>3. QED
  BY Invariance, <1>2, PTL DEF Spec, OnlyAutoMoves

\* Nothing that goes wrong while a connection stands lifts its kill switch.
THEOREM NeverLifted == Spec => LiftedOnlyOnRequest
<1>1. ASSUME Inv, [Next]_vars, current # NoServer, current' # NoServer,
             nft.on, ~nft'.on
      PROVE  ~config'.ks
  <2>0. nft' # nft
    BY <1>1
  <2>1. CASE User
    <3>1. ~ConnectBest /\ \A s \in Servers : ~ConnectNamed(s)
      BY <1>1 DEF ConnectBest, ConnectNamed
    <3>2. ~Disconnect /\ ~BaselineDown
      BY <1>1 DEF Disconnect, BaselineDown, TornDown, TearDownFailed, TearDown
    <3>3. ASSUME NEW s \in Servers PROVE ~Switch(s)
      BY <2>0 DEF Switch, Switched, Retargeted, RetargetFailed
    <3>4. ~FetchList /\ ~Approve /\ ~Dismiss
      BY <2>0 DEF FetchList, Approve, Dismiss, Switched, Retargeted, RetargetFailed
    <3>5. \A cs : ~Test(cs) /\ ~Reload(cs)
      BY <2>0 DEF Test, Reload
    <3>6. ~KillswitchOn
      BY <1>1 DEF KillswitchOn
    <3>7. KillswitchOff
      BY <2>1, <3>1, <3>2, <3>3, <3>4, <3>5, <3>6 DEF User
    <3>8. config'.ks = FALSE
      BY <1>1, <3>7 DEF KillswitchOff, Inv, TypeOK
    <3>9. QED
      BY <3>8
  <2>2. CASE Tune
    <3>1. ~TuneDisconnected /\ ~TuneHealthy /\ ~TuneFails /\ \A r : ~TuneProbe(r)
      BY <2>0 DEF TuneDisconnected, TuneHealthy, TuneFails, TuneProbe
    <3>2. ~TuneSweep
      BY <2>0 DEF TuneSweep, Conclude, Switched, Retargeted, RetargetFailed
    <3>3. QED
      BY <2>2, <3>1, <3>2 DEF Tune
  <2>3. CASE BaselineRestore
    BY <1>1, <2>3 DEF BaselineRestore, Inv, Busy
  <2>4. CASE CooldownEnds
    BY <2>0, <2>4 DEF CooldownEnds
  <2>5. CASE Process
    <3>1. ~Crash
      BY <1>1 DEF Crash, TearDown
    <3>2. ~Shutdown
      BY <1>1, <2>0 DEF Shutdown, TornDown, TearDownFailed, TearDown
    <3>3. \A c : ~Start(c)
      BY <2>0 DEF Start
    <3>4. QED
      BY <2>5, <3>1, <3>2, <3>3 DEF Process
  <2>6. QED
    BY <1>1, <2>0, <2>1, <2>2, <2>3, <2>4, <2>5 DEF Next
<1>2. ASSUME Inv, [Next]_vars
      PROVE  [current # NoServer /\ current' # NoServer /\ nft.on /\ ~nft'.on
               => ~config'.ks]_vars
  BY <1>1, <1>2
<1>3. QED
  BY Invariance, <1>2, PTL DEF Spec, LiftedOnlyOnRequest

=============================================================================
