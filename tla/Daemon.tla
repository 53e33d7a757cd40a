-------------------------------- MODULE Daemon ------------------------------
(***************************************************************************)
(* The daemon's State (vpnmgrd/src/state.rs) and the requests that change  *)
(* it (vpnmgrd/src/main.rs, handle).  A request holds the mutex of the     *)
(* State until it has answered, so each is one step, except baseline,      *)
(* which is observable half way through because the tunnel is down.        *)
(*                                                                         *)
(* The tunnel is used through its contract: exit is where traffic comes    *)
(* out, and a failed operation may leave any of the states that the        *)
(* backend can fail in (module LinuxTunnel).  A configuration is abstracted *)
(* to the servers that its server whitelist and max_load admit (named),    *)
(* those whose country is whitelisted (zoned), those its blacklists refuse *)
(* (black), the switch policy, and whether the kill switch and a bypass    *)
(* are configured.                                                         *)
(***************************************************************************)
EXTENDS Tuner

CONSTANTS
    Servers,
    Countries,   \* the servers of each country, as sets
    Configs,     \* what the configuration file may hold when it is read
    Rtts,        \* round trips a probe may measure
    Scores,      \* scores a ranking may give
    MaxLatency,  \* autotune.max_latency_ms
    Threshold    \* autotune.improvement_threshold, in percent

ASSUME ConfigAssumption ==
    Configs \subseteq [named : SUBSET Servers, zoned : SUBSET Servers,
                       black : SUBSET Servers, policy : Policies,
                       ks : BOOLEAN, bypass : BOOLEAN]
ASSUME NoServerAssumption == NoServer \notin Servers
ASSUME NumberAssumption ==
    /\ Rtts \subseteq Nat
    /\ Scores \subseteq Nat
    /\ None \notin Rtts \cup Scores
    /\ MaxLatency \in Nat
    /\ Threshold \in 0..100
ASSUME CountryAssumption == Countries \subseteq SUBSET Servers

VARIABLES
    phase,      \* "running" or "stopped"
    config,     \* State.config
    cached,     \* State.servers holds a list
    owns,       \* State.tunnel is Some
    armed,      \* that tunnel carries a kill switch of its own
    routed,     \* that tunnel has bypass routes installed
    current,    \* State.current
    ranking,    \* servers of State.last_ranking
    pending,    \* State.pending, the server proposed
    dismissed,  \* State.dismissed, the server stayed on
    cooling,    \* that dismissal is younger than DISMISSAL_COOLDOWN
    refused,    \* history: where the user last declined to move, see Dismiss
    restoring,  \* server a baseline in progress has to restore
    exit,       \* kernel: server that traffic comes out of
    nft,        \* kernel: the kill switch, and whether it admits the bypass
    tuning,     \* a tuning pass has probed the current server and goes on
    probe       \* what that server would have answered, what the pass saw

tunnel == <<owns, armed, routed>>
world == <<exit, nft>>
pass == <<tuning, probe>>
refusal == <<dismissed, cooling, refused>>
prompts == <<pending, refusal>>
vars == <<phase, config, cached, tunnel, current, ranking, prompts, restoring,
          world, pass>>

Off == [on |-> FALSE, bypass |-> FALSE]
Unprobed == [real |-> None, seen |-> None]

\* The servers that filter::Ruleset accepts, and what is accepted when a
\* country argument replaces the country whitelist.
Eligible(c) == c.named \ c.black
Allowed(c) == Eligible(c) \cap c.zoned
AllowedIn(country, c) == Eligible(c) \cap country

TypeOK ==
    /\ phase \in {"running", "stopped"}
    /\ config \in [named : SUBSET Servers, zoned : SUBSET Servers,
                   black : SUBSET Servers, policy : Policies,
                   ks : BOOLEAN, bypass : BOOLEAN]
    /\ cached \in BOOLEAN
    /\ owns \in BOOLEAN
    /\ armed \in BOOLEAN
    /\ routed \in BOOLEAN
    /\ current \in Servers \cup {NoServer}
    /\ ranking \in SUBSET Servers
    /\ pending \in Servers \cup {NoServer}
    /\ dismissed \in Servers \cup {NoServer}
    /\ cooling \in BOOLEAN
    /\ refused \in Servers \cup {NoServer}
    /\ restoring \in Servers \cup {NoServer}
    /\ exit \in Servers \cup {NoServer}
    /\ nft \in [on : BOOLEAN, bypass : BOOLEAN]
    /\ tuning \in BOOLEAN
    /\ probe \in [real : Rtts \cup {None}, seen : Rtts \cup {None}]

\* State::load, on a machine where nothing is left of an earlier daemon.
Init ==
    /\ phase = "running"
    /\ config \in Configs
    /\ cached = FALSE
    /\ owns = FALSE
    /\ armed = FALSE
    /\ routed = FALSE
    /\ current = NoServer
    /\ ranking = {}
    /\ pending = NoServer
    /\ dismissed = NoServer
    /\ cooling = FALSE
    /\ refused = NoServer
    /\ restoring = NoServer
    /\ exit = NoServer
    /\ nft = Off
    /\ tuning = FALSE
    /\ probe = Unprobed

\* A request that is given the mutex.
Locked == phase = "running" /\ restoring = NoServer /\ ~tuning

-----------------------------------------------------------------------------
(* What the firewall and the routing let through                           *)

\* State::prober marks its sockets only when there is a current connection;
\* an unmarked probe shares the fate of any other packet.
ProbesMarked == current # NoServer
ProbesAnswered == ProbesMarked \/ exit # NoServer \/ ~nft.on

\* The HTTP client is never marked.
FetchAnswered == exit # NoServer \/ ~nft.on

\* server_list: a cached copy, or else a fetch that succeeds.
ListOk ==
    /\ cached \/ FetchAnswered
    /\ cached' = TRUE
ListFails ==
    /\ ~cached
    /\ UNCHANGED cached

\* sweep over some candidates: those that answer, if any.
Answering(candidates) == IF ProbesAnswered THEN SUBSET candidates ELSE {{}}

-----------------------------------------------------------------------------
(* The tunnel, as the daemon drives it                                     *)

\* establish: new_tunnel takes the kill switch from the config, and up
\* replaces the rules in force by its own.
Owned(s) ==
    /\ owns' = TRUE
    /\ armed' = config.ks
    /\ routed' = config.bypass
    /\ current' = s
    /\ nft' = IF config.ks THEN [on |-> TRUE, bypass |-> config.bypass] ELSE nft

Established(s) ==
    /\ Owned(s)
    /\ exit' = s

\* connect_best established s and then failed to move on to t.
StoppedShort(s, t) ==
    /\ Owned(s)
    /\ exit' \in {s, t, NoServer}

\* up failed and the tunnel was dropped.  Its own kill switch is released
\* with it, unless nft fails; the interface is gone, unless that fails.
EstablishFailed(s) ==
    /\ exit' \in {exit, s, NoServer}
    /\ nft' \in (IF config.ks
                 THEN {Off, nft, [on |-> TRUE, bypass |-> config.bypass]}
                 ELSE {nft})
    /\ UNCHANGED <<tunnel, current>>

\* switch_endpoint, followed by the assignment of current.
Retargeted(s) ==
    /\ current' = s
    /\ exit' = s
    /\ UNCHANGED <<tunnel, nft>>

\* switch_endpoint failed at one of its calls; current is left as it was.
RetargetFailed_Cleans(s) ==
    /\ exit' = NoServer
    /\ nft' = Off
    /\ UNCHANGED <<tunnel, current>>

RetargetFailed(s) ==
    /\ exit' \in {exit, s, NoServer}
    /\ UNCHANGED <<tunnel, current, nft>>

\* disconnect: the connection is forgotten whatever down returns.
TearDown ==
    /\ owns' = FALSE
    /\ armed' = FALSE
    /\ routed' = FALSE
    /\ current' = NoServer
TornDown ==
    /\ TearDown
    /\ exit' = NoServer
    /\ nft' = IF armed THEN Off ELSE nft
TearDownFailed_Early ==
    /\ owns' = FALSE
    /\ armed' = FALSE
    /\ routed' = FALSE
    /\ exit' \in {exit, NoServer}
    /\ nft' \in (IF armed THEN {Off, nft} ELSE {nft})
    /\ UNCHANGED current
TearDownFailed ==
    /\ TearDown
    /\ exit' \in {exit, NoServer}
    /\ nft' \in (IF armed THEN {Off, nft} ELSE {nft})

-----------------------------------------------------------------------------
(* Requests that connect and move                                          *)

\* A server is named: it is taken at face value, filters or not.
ConnectNamed(s) ==
    /\ Locked
    /\ current = NoServer
    /\ ListOk
    /\ ProbesAnswered
    /\ Established(s) \/ EstablishFailed(s)
    /\ UNCHANGED <<phase, config, ranking, prompts, restoring, pass>>

\* connect_best after its sweep: it settles on c, or cannot bring the tunnel
\* up, or ends with an error on c when moving on to d fails.
ConnectBest ==
    /\ Locked
    /\ current = NoServer
    /\ ListOk
    /\ \E reached \in Answering(Allowed(config)) \ {{}} :
        /\ ranking' = reached
        /\ \E c, d \in reached :
              Established(c) \/ EstablishFailed(c) \/ StoppedShort(c, d)
    /\ UNCHANGED <<phase, config, prompts, restoring, pass>>

\* The move itself clears an earlier refusal, but not the proposal.
Switched(s) ==
    /\ Retargeted(s)
    /\ dismissed' = NoServer
    /\ cooling' = FALSE
    /\ refused' = NoServer

Switch_ForgetsFirst(s) ==
    /\ Locked
    /\ current # NoServer
    /\ ListOk
    /\ ProbesAnswered
    /\ \/ Switched(s)
       \/ /\ RetargetFailed(s)
          /\ dismissed' = NoServer
          /\ cooling' = FALSE
          /\ UNCHANGED refused
    /\ UNCHANGED <<phase, config, ranking, pending, restoring, pass>>

Switch(s) ==
    /\ Locked
    /\ current # NoServer
    /\ ListOk
    /\ ProbesAnswered
    /\ \/ Switched(s)
       \/ RetargetFailed(s) /\ UNCHANGED refusal
    /\ UNCHANGED <<phase, config, ranking, pending, restoring, pass>>

Disconnect ==
    /\ Locked
    /\ owns
    /\ TornDown \/ TearDownFailed
    /\ UNCHANGED <<phase, config, cached, ranking, prompts, restoring, pass>>

\* baseline: measure, take the tunnel down, measure again, reconnect.  When
\* taking it down fails the request ends there.
BaselineDown ==
    /\ Locked
    /\ current # NoServer
    /\ \/ TornDown /\ restoring' = current
       \/ TearDownFailed /\ UNCHANGED restoring
    /\ UNCHANGED <<phase, config, cached, ranking, prompts, pass>>

BaselineRestore ==
    /\ phase = "running"
    /\ restoring # NoServer
    /\ restoring' = NoServer
    /\ \/ /\ ListOk
          /\ ProbesAnswered
          /\ Established(restoring) \/ EstablishFailed(restoring)
       \/ ListOk /\ UNCHANGED <<tunnel, current, world>>    \* no answer
       \/ ListFails /\ UNCHANGED <<tunnel, current, world>>
    /\ UNCHANGED <<phase, config, ranking, prompts, pass>>

-----------------------------------------------------------------------------
(* Requests that only look                                                 *)

\* servers, or a request that fetched the list and then failed.
FetchList ==
    /\ Locked
    /\ ~cached
    /\ ListOk
    /\ UNCHANGED <<phase, config, tunnel, current, ranking, prompts,
                   restoring, world, pass>>

\* test: the ranking of the last sweep that reached anything is kept.
Test(candidates) ==
    /\ Locked
    /\ ListOk
    /\ \E reached \in Answering(candidates) \ {{}} : ranking' = reached
    /\ UNCHANGED <<phase, config, tunnel, current, prompts, restoring,
                   world, pass>>

-----------------------------------------------------------------------------
(* Tuning: probe the current server, and sweep only if it is struggling    *)

Settings == [policy |-> config.policy, maxLatency |-> MaxLatency,
             threshold |-> Threshold]

ActiveDismissal == IF cooling THEN dismissed ELSE NoServer

Healthy(rtt) == rtt # None /\ rtt <= MaxLatency

\* record: a proposal is parked, and any other outcome withdraws the last one.
Record(kind, to) == pending' = IF kind = "Propose" THEN to ELSE NoServer

PassEnds == tuning' = FALSE /\ probe' = Unprobed

TuneDisconnected ==
    /\ Locked
    /\ current = NoServer
    /\ Record("NotConnected", NoServer)
    /\ UNCHANGED <<phase, config, cached, tunnel, current, ranking, refusal,
                   restoring, world, pass>>

TuneProbe_Zero(rtt) ==
    /\ Locked
    /\ current # NoServer
    /\ tuning' = TRUE
    /\ \/ ListOk /\ probe' = [real |-> rtt, seen |-> rtt]
       \/ ListFails /\ probe' = [real |-> rtt, seen |-> 0]
    /\ UNCHANGED <<phase, config, tunnel, current, ranking, prompts, restoring,
                   world>>

\* probe_current on a server that would answer in rtt (None: not at all).
\* Without a server list it reports silence.
TuneProbe(rtt) ==
    /\ Locked
    /\ current # NoServer
    /\ tuning' = TRUE
    /\ \/ ListOk /\ probe' = [real |-> rtt, seen |-> rtt]
       \/ ListFails /\ probe' = [real |-> rtt, seen |-> None]
    /\ UNCHANGED <<phase, config, tunnel, current, ranking, prompts, restoring,
                   world>>

\* The cheap path: the pass is over.
TuneHealthy ==
    /\ tuning
    /\ Healthy(probe.seen)
    /\ Record("Healthy", NoServer)
    /\ PassEnds
    /\ UNCHANGED <<phase, config, cached, tunnel, current, ranking, refusal,
                   restoring, world>>

\* What the sweep may show after it reached some servers.
Assessments(reached) ==
    {a \in [current : {current}, rtt : {probe.seen}, score : Scores \cup {None},
            best : reached, bestRtt : Rtts, bestScore : Scores,
            declined : {ActiveDismissal}] :
        /\ a.score = None <=> current \notin reached
        /\ a.score # None => a.score <= a.bestScore
        /\ a.best = current => a.score = a.bestScore}

Decisions(reached) ==
    {[kind |-> Decide(a, Settings), to |-> a.best] : a \in Assessments(reached)}

\* Only `auto` moves the tunnel here.  When the move fails, at its probe or
\* later, the pass ends with an error and records nothing.
Conclude(kind, to) ==
    \/ /\ kind = "Switch"
       /\ Switched(to)
       /\ Record(kind, to)
    \/ /\ kind = "Switch"
       /\ RetargetFailed(to) \/ UNCHANGED <<tunnel, current, world>>
       /\ UNCHANGED prompts
    \/ /\ kind # "Switch"
       /\ Record(kind, to)
       /\ UNCHANGED <<tunnel, current, world, refusal>>

TuneSweep ==
    /\ tuning
    /\ ~Healthy(probe.seen)
    /\ Allowed(config) # {}
    /\ ListOk
    /\ \E reached \in Answering(Allowed(config)) :
        \/ /\ reached = {}
           /\ Record("NothingReachable", NoServer)
           /\ UNCHANGED <<ranking, tunnel, current, world, refusal>>
        \/ /\ reached # {}
           /\ ranking' = reached
           /\ \E d \in Decisions(reached) : Conclude(d.kind, d.to)
    /\ PassEnds
    /\ UNCHANGED <<phase, config, restoring>>

\* The sweep ends with an error: no list, or no server that the filters allow.
TuneFails ==
    /\ tuning
    /\ ~Healthy(probe.seen)
    /\ ListFails \/ (Allowed(config) = {} /\ ListOk)
    /\ PassEnds
    /\ UNCHANGED <<phase, config, tunnel, current, ranking, prompts, restoring,
                   world>>

\* approve takes the proposal first, and loses it when the move fails.
Approve ==
    /\ Locked
    /\ pending # NoServer
    /\ pending' = NoServer
    /\ \/ /\ current # NoServer
          /\ ListOk
          /\ ProbesAnswered
          /\ \/ Switched(pending)
             \/ RetargetFailed(pending) /\ UNCHANGED refusal
       \/ UNCHANGED <<cached, tunnel, current, world, refusal>>
    /\ UNCHANGED <<phase, config, ranking, restoring, pass>>

\* dismiss records where the user chose to stay.  The history remembers the
\* same on the user's side: the refusal stands until they move, the cooldown
\* ends, they refuse somewhere else or the daemon ends.
Dismiss ==
    /\ Locked
    /\ pending # NoServer
    /\ pending' = NoServer
    /\ \/ /\ current # NoServer
          /\ dismissed' = current
          /\ cooling' = TRUE
          /\ refused' = current
       \/ current = NoServer /\ UNCHANGED refusal
    /\ UNCHANGED <<phase, config, cached, tunnel, current, ranking,
                   restoring, world, pass>>

\* DISMISSAL_COOLDOWN passes.
CooldownEnds ==
    /\ cooling
    /\ cooling' = FALSE
    /\ refused' = NoServer
    /\ UNCHANGED <<phase, config, cached, tunnel, current, ranking, pending,
                   dismissed, restoring, world, pass>>

-----------------------------------------------------------------------------
(* Configuration and kill switch                                           *)

\* reload, once the file has been read.  A file that does not load changes
\* nothing.
FilteredProposal_Kept(c) == pending
FilteredProposal(c) == IF pending \in Allowed(c) THEN pending ELSE NoServer

FilteredRanking_Kept(c) == ranking
FilteredRanking(c) == ranking \cap Allowed(c)

Reload(c) ==
    /\ Locked
    /\ config' = c
    /\ cached' = FALSE
    /\ ranking' = FilteredRanking(c)
    /\ pending' = FilteredProposal(c)
    /\ UNCHANGED <<phase, tunnel, current, refusal, restoring, world, pass>>

KillswitchOn ==
    /\ Locked
    /\ nft' = [on |-> TRUE, bypass |-> FALSE]
    /\ config' = [config EXCEPT !.ks = TRUE]
    /\ UNCHANGED <<phase, cached, tunnel, current, ranking, prompts,
                   restoring, exit, pass>>

KillswitchOff ==
    /\ Locked
    /\ nft' = Off
    /\ config' = [config EXCEPT !.ks = FALSE]
    /\ UNCHANGED <<phase, cached, tunnel, current, ranking, prompts,
                   restoring, exit, pass>>

-----------------------------------------------------------------------------
(* The process                                                             *)

Forgotten ==
    /\ phase' = "stopped"
    /\ cached' = FALSE
    /\ ranking' = {}
    /\ pending' = NoServer
    /\ dismissed' = NoServer
    /\ cooling' = FALSE
    /\ refused' = NoServer
    /\ restoring' = NoServer
    /\ PassEnds
    /\ UNCHANGED config

\* run_daemon leaves its loop, waits for the mutex and disconnects.
Shutdown ==
    /\ Locked
    /\ Forgotten
    /\ \/ owns /\ (TornDown \/ TearDownFailed)
       \/ ~owns /\ UNCHANGED <<tunnel, current, world>>

\* A hard kill leaves the interface and the firewall as they are.
Crash ==
    /\ phase = "running"
    /\ Forgotten
    /\ TearDown
    /\ UNCHANGED world

Start(c) ==
    /\ phase = "stopped"
    /\ phase' = "running"
    /\ config' = c
    /\ UNCHANGED <<cached, tunnel, current, ranking, prompts, restoring, world, pass>>

-----------------------------------------------------------------------------

User ==
    \/ \E s \in Servers : ConnectNamed(s) \/ Switch(s)
    \/ ConnectBest
    \/ Disconnect
    \/ BaselineDown
    \/ FetchList
    \/ \E country \in Countries : Test(AllowedIn(country, config))
    \/ Test(Allowed(config))
    \/ Approve
    \/ Dismiss
    \/ \E c \in Configs : Reload(c)
    \/ KillswitchOn
    \/ KillswitchOff

Tune ==
    \/ TuneDisconnected
    \/ \E rtt \in Rtts \cup {None} : TuneProbe(rtt)
    \/ TuneHealthy
    \/ TuneSweep
    \/ TuneFails

Process == Shutdown \/ Crash \/ \E c \in Configs : Start(c)

Next == User \/ Tune \/ BaselineRestore \/ CooldownEnds \/ Process

Spec == Init /\ [][Next]_vars

-----------------------------------------------------------------------------
(* Properties                                                              *)

\* State.tunnel and State.current agree: is_connected, which decides whether
\* an exit tears anything down, looks only at the second, and so do prober,
\* connect and status.  No failure of up, switch_endpoint, down or of a
\* baseline's restoration separates them.
TunnelMatchesCurrent == owns <=> current # NoServer

\* A proposal that the user may still approve names a server the filters in
\* force accept, although it outlives reloads, moves and reconnections.
ProposalAllowed == pending # NoServer => pending \in Allowed(config)

\* What the last ranking offers to connect to is never a server that a
\* blacklist, the server whitelist or the load limit in force refuses: a
\* country argument of `test` suspends the country whitelist only, and a later
\* reload may refuse what was ranked before.
RankingEligible == ranking \subseteq Eligible(config)

\* A dismissal holds for as long as the user stays where they were and its
\* cooldown runs: however many passes, failed moves, reloads, disconnections
\* and returns lie in between, a pass that finds that server slow does not ask
\* again.  The premise is the user's refusal, not what State remembers of it.
DismissalRespected ==
    [][tuning /\ probe.seen # None /\ refused = current
            => pending' \in {pending, NoServer}]_vars

\* While a connection stands, through moves that fail half way, tuning
\* passes, reloads and edits of the file, the kill switch is lifted only when
\* the configuration in force has it off.
LiftedOnlyOnRequest ==
    [][current # NoServer /\ current' # NoServer /\ nft.on /\ ~nft'.on
            => ~config'.ks]_vars

\* Under `ask` and `never` a tuning pass leaves the tunnel alone: it changes
\* where traffic comes out only under `auto`.
OnlyAutoMoves ==
    [][tuning /\ phase' = "running" /\ config.policy # "auto"
            => UNCHANGED <<current, exit, nft>>]_vars

\* "A healthy server is never disturbed, and costs one probe to confirm"
\* (vpnmgrd/src/tuner.rs:10): a pass over a server that answers in time
\* neither moves the tunnel nor proposes to.
HealthyUndisturbed ==
    [][tuning /\ phase' = "running" /\ Healthy(probe.real)
            => exit' = exit /\ pending' \in {pending, NoServer}]_vars

\* "Whatever happens to the direct measurement, the tunnel goes back up"
\* (vpnmgrd/src/state.rs:896): nothing the daemon itself left in place stops
\* the probe that restoring begins with.
BaselineRestorable == restoring # NoServer => ProbesAnswered

=============================================================================
