# vpnmgr: formal models, checks and proofs

vpnmgr keeps a machine on a fast AirVPN server: a privileged daemon owns a
WireGuard tunnel, probes the fleet, ranks and verifies servers, and moves the
tunnel when the current server degrades. This directory holds TLA+ models of its
core, the TLC configurations that check them on small instances, and TLAPS proofs
that the most important properties hold for every instance.

Paths below are relative to `crates/`.

## 1. Inventory

| Component | State it keeps | Operations | What makes it correct |
|---|---|---|---|
| Linux tunnel backend (`vpnmgr-tunnel/src/linux.rs`) | `created`, kill switch, bypass plan; in the kernel: interface, peer, listen port, policy table, rules | `up`, `switch_endpoint`, `down`, `Drop`, rule pruning | traffic is confined in every intermediate state; a displaced server cannot pull the endpoint back; nothing is left behind |
| Bypass routes (`bypass.rs`) | `installed` | `plan`, `install`, `remove` | no LAN range covers the tunnel's own addresses, other VPNs keep what they serve; withdraws its own routes and not the system's |
| Kill switch (`killswitch.rs`) | one nftables table | `engage`, `release` | admits the tunnel, marked packets, the bypass, what the link needs (link-local, multicast, DHCP) and, if `allow_lan` is set, private ranges; on Windows also UDP to the WireGuard port |
| Daemon state (`vpnmgrd/src/state.rs`) | `State`: config, server cache, tunnel, current, ranking, pending, dismissed, timestamps | one method per request, `autotune` | the fields agree with each other and with the filters and policy in force, although every call may fail |
| Tuning decision (`tuner.rs`) | none (pure) | `decide`, `act` | only `auto` moves; a dismissal is respected |
| Verified selection (`state.rs`, `connect_best`) | `direct_mbps`, best so far | connect, measure, settle | keeps the fastest server it measured |
| Tasks (`vpnmgrd/src/main.rs`) | the mutex, `last_tune_at`, the scheduler's sleep | accept loop, `serve`/`handle`, `scheduler`, shutdown | a due pass runs, not twice; a stop completes and is final |
| Filters, scoring, configuration (`vpnmgr-core`) | none | `judge`, `apply`, `rank`, `relative_improvement`, `validate` | accepted servers only; a stable order |
| Prober (`vpnmgr-probe/src/lib.rs`) | per-probe samples, the semaphore | `probe`, `probe_many`, `sweep` | handshakes of a sweep stay within the limit and off the live endpoint; a silent server is never ranked; the faster entry wins; a sweep ends |
| Windows backend (`windows.rs`, `killswitch_windows.rs`) | `installed`, kill switch, bypass plan; outside the process: the WireGuard service and its file, firewall rules, default action, restore file | the same trait | as on Linux, and the two files stay true across crashes and restarts |
| Tray (`vpnmgr-tray`) | last status, ranking and server list, action queue; on Windows the menu and its ids | menu actions, refresh by worker and poller, snapshots | a click means what was on the menu and is carried out; the menu comes to show the truth |
| Service wrapper (`vpnmgrd/src/service.rs`) | the `Notify` behind a stop | control handler, states reported | a stop ends in `Stopped`, and only then |
| IPC (`vpnmgr-ipc`), CLI, notifications | connection | framing, one request at a time | pure I/O |

How they interact. A client connection sends one JSON request at a time; `handle`
takes the mutex of `State` and keeps it across every `await` until it has an
answer, so requests and tuning passes are serialised. `State` drives the tunnel
through the trait `TunnelBackend`; the backend issues netlink calls and runs `ip`
and `nft`, any of which can fail. The scheduler task shares the same mutex.
Servers of the fleet share one peer key, so the kernel cannot tell them apart and
accepts a handshake from any of them.

What is hard: partial failure inside an operation of five to eight kernel calls; the
process being killed between two of them and the next one starting on the leftovers;
packets of a server that was left arriving late; routes that the system adds and takes
away under an installed bypass; caches (`pending`, `last_ranking`, `dismissed`, the
server list) that outlive the configuration they were computed under; two owners of one
nftables table; the scheduler's sleep-and-recheck against manual passes; a stop against
requests in flight or a daemon that is still starting; dozens of probes around one
semaphore whose handshakes are lost, refused and answered in any order; a tray whose
refreshes overlap, over a daemon that other clients drive; routes planned from a routing
table that other VPNs change. `PROJECT.json` lists these hazards line by line.

## 2. Modules

| Module | Models | Level |
|---|---|---|
| `Tunnel` | the contract of `TunnelBackend` | abstract |
| `LinuxTunnel` | `linux.rs`, `bypass.rs` (install/remove), `killswitch.rs` | one step per kernel call; shown to implement `Tunnel` |
| `LinuxOperations` | the same backend as the daemon sees it: history variables and what `Daemon` assumes of each operation | composes `LinuxTunnel` and `Daemon` |
| `WindowsTunnel` | `windows.rs`, `bypass.rs` (install/remove), `killswitch_windows.rs` | one step per program that is run |
| `Tuner` | `tuner.rs` (`decide`, `act`), `relative_improvement` | operators |
| `Daemon` | `State` and every request that changes it; filters | one step per request, two for `baseline` and a tuning pass; extends `Tuner` |
| `Selection` | `connect_best`, `target_mbps`, `acceptance_mbps` | one step per call of the loop |
| `SelectionOperations` | `connect_best` with the tunnel it drives, and what `Daemon` assumes of the whole request | composes `Selection` and `Daemon` |
| `Runtime` | `run_daemon` from start-up to exit, `serve`/`handle`, `scheduler`, `time_until_next_tune`, the service wrapper | tasks and the mutex, time in ticks |
| `Config` | sections, defaults and `validate` of `config.rs` | operators |
| `Sweep` | `filter.rs`, `vpnmgr-probe` (`probe`, `probe_many`, `sweep`), `rank` of `score.rs` | one step per handshake of one task; extends `Config` |
| `Bypass` | `bypass.rs` on both platforms (`plan`, `install`, `remove`) | one step per route; the rest of the machine moves on its own |
| `Tray` | `vpnmgr-tray` on both platforms | one step per request, queue operation or turn of an event loop |
| `MCLinuxTunnel`, `MCWindowsTunnel`, `MCDaemon`, `MCSweep`, `MCBypass`, `MCTray` | small instances for TLC | |
| `LinuxTunnelProofs`, `WindowsTunnelProofs`, `DaemonProofs`, `SelectionProofs`, `RuntimeProofs`, `SweepProofs`, `BypassProofs`, `TrayProofs` | theorems | |

Definitions whose name carries a suffix (`Better_Latest`, `Recheck_Trusting`, ...)
are the mutated forms of the definition that follows them: plausible bugs that the
named property must detect.

### LinuxTunnel
`pc` names the next kernel call of the operation in progress; each action is one call
with its success and its failures. The variables fall into the fields of `LinuxTunnel`
and `Bypass` (`created`, `killswitch`, `plan`, `installed`), the kernel (`iface`,
`peer`, `session`, `port`, `table`, `rules`, `nft`, `allow`, and in the main table
`ours`, the routes a bypass added, and `foreign`, the system's own), the fleet's
knowledge of our port (`knows`), and two history variables (`late`: recorded
destinations that the system has routed since; `dirty`: a clean-up call failed or the
daemon was killed). `AddRoute`, `TakeRoute` and `PurgeRoute` let the system change its
routes, and take away those of a bypass with a link, at any moment. `ip route del` names
only a destination (`Withdraw`): where the bypass and the system both have a route, it
takes the one with the lower metric, which for IPv6 may be either. The kernel and the
WireGuard library are external: what `configure_interface`, `configure_peer_routing` and
`remove_interface` do is taken from the comments and the order of calls in `linux.rs`
(in particular, that re-applying the interface configuration flushes the policy table,
and that each `configure_peer_routing` adds one more copy of the rule). A failed
external call may leave any part of its work behind. A destination is a bypassable
address, a private range (`Lan`), something the link needs (`Link`) or `Internet`, which
stands for all others; `Accepted` is what the script of the kill switch lets out. IPv4
and IPv6 and the two kinds of rule are not told apart. `MaxRules` guards only the calls
of `up` and `switch_endpoint`: no operation under way is cut short by it. An ephemeral
port is assumed not to be one that some server still remembers.

### LinuxOperations
`Daemon` takes every operation of the tunnel for one step and assumes what it may
leave behind; in `LinuxTunnel` an operation is many steps. `op` remembers which one is
under way, `opened` whether the rules in force were made for a tunnel with a bypass, and
`seen` what was so when the last operation returned. `Seen` is an instance of `Daemon`
whose tunnel is `seen`, so that the step in which an operation returns can be compared
with the actions `Established`, `EstablishFailed`, ... themselves.

### WindowsTunnel
The same shape for the other backend. What differs is outside the process and survives
it: the WireGuard service (`service`, `peer`, `strict`), its configuration file (`conf`,
`split`; a write that fails may leave it `Torn`), the firewall (`default`, `allow`) and
the restore file (`record`). A script of the kill switch may stop at any command:
`engage` stops at its first error, `release` goes on after one. Both remove the rules of
earlier runs with errors silenced, so any of them may stay (`stale`), and `release` may
remove the record without having applied it. `Needed` stands for what every kill switch
admits: the link's traffic and UDP to the WireGuard port. Ports are abstracted to
`knows`, the servers that know the port in use, which a new port empties. `dropping`
marks the second run of `down`, from `Drop`. Only a restart of the whole machine
restarts the service; one firewall profile stands for all. `uninstalltunnelservice`
fails when there is no service, and a service of the same name makes the installation
fail, as the comment in `up` says. WireGuard's filters (`strict`) come on exactly when
the default route is not split.

`WindowsTunnel` is not claimed to implement `Tunnel`: a server that was left can
become the exit (finding 4), which the contract forbids.

### Daemon
The tunnel appears through its contract: `exit` (where traffic comes out) and `nft`.
`Established`, `Retargeted`, `TornDown` are the successful operations;
`EstablishFailed`, `RetargetFailed`, `TearDownFailed`, `StoppedShort` allow every state
that `LinuxTunnel` and `Selection` can fail in, which is proved (`Outcomes`,
`OneRequest`). A configuration is the sets of servers its lists admit, the policy, and
two flags. A tuning pass is two steps: what `probe_current` sees (`probe`), and what
follows. `probe.real` is what the server would have answered, `probe.seen` what the pass
was told. Firewall and routing decide which probes and fetches can be answered at all
(`ProbesAnswered`, `FetchAnswered`). `refused` is the user's side of a dismissal: where
they declined to move, until they move, decline elsewhere, the cooldown ends or the
daemon does; `dismissed` and `cooling` are what `State` remembers of it. The age of the
server cache is abstracted: a stale copy is used when a fetch fails, so only whether
there is a copy matters. Throughput history, `last_sweep` and `last_tune` are only shown
to the user and are left out.

### Selection
Candidates are places in the ranking. Rates are integers; the bar is kept in units
of Mbit/s / 10000 so that `target * accept_fraction` is exact (the code uses
floating point). `direct` survives a failed line measurement, as in the code.
`SelectionOperations` adds the tunnel: `establish` and `move_to` are the operations of
`Daemon` (instance `Live`), and the whole request is compared with `Daemon`'s step
(instance `Request`, over what was so before it). The run `selection` checks both modules
at once.

### Runtime
A task holds the mutex from the step that takes it to the step that ends its request or
pass. `abort` takes effect at the scheduler's next await and drops its guard. A stop is
`Teardown` (under a guard that main keeps), `Release` (the body of `run_daemon` ends and
drops it) and `Exit` (the runtime is dropped with every task, and the last of them takes
the tunnel along); between the last two a request that waited for the mutex may still be
served. A teardown that fails is only logged, and leaves part of the tunnel behind
(`tunnel = "left"`). Ages beyond `Horizon`, which is at least the largest interval, are
not told apart. A daemon starts in three steps that may each fail: the file is read
(`Load`), the socket or pipe is bound and the scheduler spawned (`Bind`), and only then
the accept loop begins to wait for a stop (`Listen`). `mode` says who may ask it to
stop: a signal, or a service control manager, whose notification nobody keeps: one that
comes before `Listen` is lost (`EarlyStop`). `manager` is what whoever started the
daemon believes; a new process is started only once it believes the old one gone.

### Config and Sweep
`Config` holds the settings that `validate` looks at, with the defaults of a missing
section; fractions are counted in hundredths, and names and countries have been
normalised. `Sweep` goes from such a file to a ranking. Every endpoint of an accepted
server is a task: it waits for a permit, makes `samples` handshakes one after another
and ends, or panics on the way, which drops its permit and makes its result a failed
one. A handshake is answered after any of `Rtts`, refused by a cookie (which is a
timing too), answered by something that does not verify, lost, or fails locally.
Names are numbers in the order of the names, as the sort's last tie-break needs. The
three component scores are tables of which only the direction is assumed, so what is
shown of the ranking does not rest on the floating-point formulas. The median is the
lower middle of the sorted samples. A list that cannot be had (`ListFails`) or filters
that match nothing end the sweep before the first probe. Noise and sockets are external.
`probe_current` and `probe_named` are not sweeps: they pass no filter, and the former
goes to the live endpoint on purpose; `Daemon` has their outcome.

### Bypass
An address has `Width` bits and a family; a route decides where a packet goes if it is
the longest prefix that covers it, and what only a default route covers goes into the
tunnel. `NewTunnel` plans from the machine as it is at that moment (which families
could be listed, which of several VPNs is found first, what a host resolves to);
`Install` takes the routes in the order of the stable sort. Between any two steps a VPN
may start or stop, a link come or go, the system add a route, the file be reloaded or
the daemon die: `MaxMoves` bounds how often. `waived` collects the destinations the
property cannot speak of: those that were routed by somebody else when their turn
came, whose route could not be added, or whose VPN has stopped since.

### Tray
One module for both programs; `platform` selects which. On Linux the worker and the
poller refresh the shared `VpnTray` independently, and a refresh is three requests,
between which anything may happen to the daemon. On Windows the UI thread drains events,
then snapshots, each of which replaces the menu and the ids in it (`ui.menu` tells two
successive menus apart), while one client thread polls, carries out clicks and sends
snapshots. The daemon is what a client sees of it: `Serve` gives for each request the
states it may leave and whether it succeeds, every failure included. `Elsewhere` lets
other clients and the scheduler do the same, and `test` and `baseline`, which the tray
does not offer: a test of one country ranks servers outside the country whitelist
(`byCountry`). `killswitch` and `speedtest` change nothing the tray reads.
`DaemonRestarts` takes it away and brings it back. Labels, icons, ages and the limit of
twelve entries are left out.

## 3. Runs

| Run | Checks | Bounds and why they suffice |
|---|---|---|
| `linux_tunnel` | confinement, rule never missing, foreign routes, no residue, endpoint integrity, refinement of `Tunnel` | 2 servers (one to leave, one to go to), 3 ports (one in use, one that a server remembers, one fresh), one destination of each kind, `MaxRules` 3 (a duplicate left by a failed prune and one more on top). Servers and ports are symmetric. About 368,000 states |
| `windows_tunnel` | confinement, truth of the two files, bypass permitted, no residue, endpoint settled | 2 servers (symmetric), one destination of each kind, both default actions a system may have had. About 2,991,000 states |
| `daemon` | consistency of `State`, filters, dismissal, policy, kill switch | 3 servers in 2 countries; 4 configurations covering each policy, each list that can exclude a server and the empty selection; a fast and a slow round trip, two scores. About 324,000 states |
| `runtime` | passes run when due and not twice, a stop completes, is reported and is final | 2 clients, so that one can wait behind another; 2 intervals, so that a reload lengthens and shortens; ticks up to 4; both ways of being stopped. About 147,000 states |
| `selection` | the fastest measured server is kept; the request leaves what `Daemon` assumes | rankings of up to 4, shortlist of 3, four rates around the bar, ties included; every setting of kill switch and bypass, over whatever a killed daemon left. About 59,000 states |
| `sweep` | limits and targets of the handshakes, outcome against timing, the ranking, the sweep ends | 3 servers, one with two entries, one not healthy; 2 permits for 3 probes, so that one must wait; 3 handshakes where their order matters and 1 where tasks interleave; 10 files, 4 of which `validate` must refuse, one with a single positive weight, so that scores tie; loads that do not follow the names. About 46,000 states |
| `bypass` | own addresses outside every LAN range, other VPNs keep what they serve | 4 addresses in each family, so that prefixes nest three deep; 2 VPNs (symmetric) that serve a private range, a part of it, a default route or a link-local prefix; 2 events around the daemon. About 662,000 states |
| `tray` | clicks are understood and carried out, the menu settles on the truth | both platforms; 2 servers of which the filters allow one or the other, with and without a country whitelist; 2 clicks or changes from elsewhere, a queue of 2, one snapshot in flight. About 671,000 states |
| `first_pass` | violation: finding 1 | one client |
| `daemon_baseline` | violation: finding 2 | as `daemon` |
| `daemon_healthy` | violation: finding 3 | as `daemon` |
| `windows_rotation` | violation: finding 4 | as `windows_tunnel` |

A sweep comes to an end, so `sweep` does not look for deadlocks (`SweepEnds` says that
it stops nowhere else); every other passing run does.

### Fairness
No liveness is claimed of the two backends and of `Daemon` and `Selection`. `Runtime`:
time passes and the runtime polls ready tasks (WF); a request or pass ends because every
await in it has a timeout (WF on `Finish`, `PassEnds`); tokio's mutex is FIFO, so a task
that waits for it gets it although others take it in between (SF on the steps that
acquire it). Nothing forces clients to ask or an operator to stop. `Sweep`: weak
fairness of the whole; tasks are polled and every handshake has a timeout. `Tray`: its
tasks and threads run and the daemon answers (WF: every await of a request has a
timeout, and the kernel calls and programs it runs return); `tokio::select!` picks a
ready branch at random, so a waiting click is taken although the poll keeps coming due
(SF). The user, other clients and restarts of the daemon are not fair. `SettlesOnTruth`
assumes, in the formula, that the tray stays open, the daemon stops changing and the
server list can be fetched every so often when it is needed.

## 4. Findings

1. The first scheduled pass never runs. `time_until_next_tune` answers
   `min(interval, 60 s)` for as long as no pass has been recorded, and `scheduler`
   re-checks that it is zero before it runs one.
2. `killswitch on` at runtime engages rules that the tunnel does not own.
   `baseline`'s `disconnect` leaves them in place and its reconnection probes
   without a mark, so the tunnel cannot be restored.
3. `probe_current` turns a failed fetch of the server list into silence, so a
   transient failure can move the tunnel off a healthy server.
4. On Windows the endpoint is rewritten while the old session and port are live, and
   the port rotated afterwards. A packet of the server being left that arrives in
   between takes the endpoint back; the rotation does not undo it, and the switch
   reports success. The Linux backend discards the session and the port first.

Smaller divergences noted on the way, without a run: `switch_endpoint` does disturb
routes (`vpnmgr-tunnel/src/lib.rs:201` says it must not; the code re-creates them and
explains why); a bypass destination the system already routes is not told to the kill
switch; `vpnmgr test <country>` leaves a ranking outside the country whitelist until the
next sweep or reload, and the tray offers it, although `vpnmgr-tray/src/linux.rs:805`
says the picker "must only show what the config allows" (hence `RankingEligible` and
`SettlesOnTruth` speak of the other lists then); after a failed line measurement the bar
comes from an earlier measurement, not from "the configured target" (`state.rs:437`);
`state.rs:412` and `config.rs:254` still name `min_mbps` as the bar of the selection,
which is a fraction of a measured or configured target. On Windows: an `up` that fails
after it has written its file leaves the file with the keys, and one whose `engage`
fails leaves the service running; `release` removes the record of the default action
even when it could not be applied, after which the next `engage` records `Block` as the
system's own, against the comment that it "cannot overwrite the real previous value"
(`RecordTruthful` names this release as the exception); rules of an earlier kill switch
are removed with errors silenced, and one that stays goes on admitting what it did
(`stale` in `KillswitchConfines`); when `release` fails, `Drop` runs `down` again, which
stops at the service that is already gone, so the kill switch is not retried;
`service_exists` speaks of adopting a tunnel after a restart, while `up` removes it.

In `state.rs`: `killswitch on` at runtime replaces rules that admit the bypass by rules
that do not; there is one dismissal at a time, so refusing to leave one server forgets
the refusal to leave another; `connect_best` names the first of the shortlist when
nothing could be measured, while the tunnel is on the last.

In `bypass.rs`: only a literal default route is kept from being mirrored, so a VPN
that covers everything with two halves (`0.0.0.0/1`, `128.0.0.0/1`) has both mirrored;
`sys_del` names only the destination, so a route that the system set up later at a
destination of the bypass, beside its route or in the place of one that went with its
link, may be deleted, although `bypass.rs:274` says that removing the bypass "cannot
delete something the system set up itself" (`ForeignRoutesKept` speaks of the routes that
were there before; `late` are the exception); configured networks and
mirrored routes are not checked against the tunnel's own addresses, LAN ranges are
(hence `OwnAddressesInside` speaks of these).

In the tray: on Windows picking a server while connected sends `Connect`, which the
daemon refuses, where Linux sends `Switch`; "Switch to X" approves whatever is pending
when the request arrives; a list of servers from before a restart of the daemon stays
on the menu for as long as a new one cannot be had; the Windows tray logs what its
documentation says it shows in a balloon.

In `main.rs`: the guard of the teardown is dropped with the body of `run_daemon`, before
the runtime is, so a request that waited for the mutex can still begin in between and
bring a tunnel up, which ends with the process.

Elsewhere: a service stopped before its accept loop waits never learns of it
(`EarlyStop`); in `throughput.rs` the client's total timeout ends a slow transfer with
an error before the loop can report what it measured; `validate` lets NaN through and
does not bound `interval_minutes`.

## 5. Theorems

All hold for every value of the constants that satisfies the ASSUMEs (which only
say that the special values are distinct and that numbers are numbers; intervals
are positive, as `Config::validate` demands).

* `LinuxTunnelProofs`. None of the safety properties is inductive: each needs to know
  what has been done at each value of `pc`. The invariant relates `pc` to the kernel
  (which steps imply that the interface exists, that the peer is `target`, that the
  table is filled, that the kill switch admits no more than its exceptions and the
  plan), what the bypass recorded to the routes the system had (`Recorded`), and the
  fleet to the port (`Secret`): no server other than the peer knows the port in use, and
  nobody does between the rotation and `configure_peer`. From it follow `TypeCorrect`,
  `RuleStays`, `Confinement`, `CleanEnd`, the action properties `ForeignRoutes` and
  `EndpointIntegrity`, and `Refinement`: every step maps to a step of `Tunnel` or to a
  stutter, under `wanted <- target`, `exit <- Exit`, `guarded <- nft`.
* `WindowsTunnelProofs`. The invariant says for each step what is in place: which phase
  has a connection (`Phases`), that the bypass recorded only its own routes
  (`Recording`), that the rules in force are those `up` engaged (`Guarded`), what the
  file names (`Filed`, `Halves`), what exists as long as nothing was left behind
  (`Accounted`), and that after a rotation only the peer can know the port (`Settled`).
  From it: `Confinement`, `FileFollows`, `BypassOpen`, `CleanEnd` and the action
  properties `EndpointStays` and `RecordKept`, for which only `engage` and `release`
  matter.
* `DaemonProofs`. `Inv` adds to the checked invariants that a stopped daemon has no
  memory (`Blank`), that it remembers a refusal for as long as the user's stands
  (`Remembered`) and that a pass only goes on over a connection, a restoration only
  without one (`Busy`). One lemma per group of requests; then `TypeCorrect`,
  `Connection`, `Proposals`, `Rankings`, and from `PassAlone` (while a pass goes on only
  the pass, the clock and a crash step) the action properties `Dismissals`, `Policy`
  and `NeverLifted`, the first two through lemmas about `Decide`.
* `SelectionProofs`. The loop invariant: everything measured so far is below the bar
  and `best` is the earliest of the fastest. It gives `Optimal`.
* `RuntimeProofs`. `TeardownIsFinal` and `NoPassTooSoon`. The invariant: main holds the
  mutex from the teardown until it leaves (`MainHolds`), a process that has ended has no
  tasks (`Ended`), a pass holds the mutex (`PassHolds`), nothing is up and nobody is
  served during start-up and the manager is told last (`Managed`), and only a connection
  with a request holds the mutex (`Serving`).
* `SweepProofs`. `HandshakesContained` needs the count: free permits and probes under
  way add up to the concurrency (`PermitsCounted`, by the cardinality of a finite set
  that gains or loses one element). `UsableIffTimed` is strengthened to probes that go
  on (`TimedThroughout`). `HasSamplesLeft` bounds the samples and keeps the live
  endpoint from ever running; it needs that an accepted file asks for at least one
  sample (`FileValid`). One lemma, `ProbeKeepsInv`, says what any replacement of one
  task must satisfy; each action is an instance of it. The fleet is any finite set and
  the file any that is in the type of `Config`.
* `BypassProofs`. `MaskExact`: the comparison under a mask in `cidr_contains` finds
  exactly the addresses the kernel finds, for any width. The invariant follows a route
  from plan to removal: what is planned or installed was planned for this tunnel
  (`Recorded`, `Based`), a planned LAN range holds no own address (`LanClear`), what
  another VPN serves is mirrored once and over that VPN (`MirrorsApart`), has its turn
  before any other route to the same destination (`MirrorsFirst`), and is then still to
  come, in the main table or waived (`MirrorsKept`). It gives `Routing`, both halves of
  `RoutedAsAsked`, over any history of VPNs and links.
* `TrayProofs`. `ClicksUnderstood` needs that the UI thread looks at snapshots only
  when no event waits (`DrainedFirst`), and the types of the client thread that it never
  takes Quit from the queue (`QuitKept`). The queues are of any length.
* The ranking (`Honest` in `SweepProofs`). Induction over sequences is out of reach, so
  the argument is about sets: a finite set under a strict total order has an enumeration
  (`Sorted`), because among the subsets without one there would be a least, by the
  library's theorem that the strict subset ordering is well founded. With it,
  `FastestExists`, `MedianTaken`, `ScoreDirected` and `PrecedesOrders` say what each part
  of `rank` returns.
* Composition. `Outcomes`: whatever fails inside it, an operation of `LinuxTunnel`
  returns in one of the states that `Daemon` assumes of it, and `Quiet`: nothing changes
  between operations, so a daemon that looks at the tunnel only when it has control
  loses nothing. The invariant (`Observed`) says for each operation under way where
  traffic may be and whose rules are in force. `OneRequest` does the same for
  `connect_best` over those operations (`Driven`: from the second candidate on, the
  tunnel stands on the candidate before). So what `DaemonProofs` shows of
  `Daemon` does not rest on a guess about the kernel calls below it. Outside this
  comparison are a daemon killed in the middle of an operation and the kill switch
  toggled at runtime, which does not go through the backend. `OneRequest` is also checked
  by TLC, as `RequestAsAssumed` in the run `selection`; `Outcomes` and `Quiet` are proved
  only.

Every safety invariant and every action property that a run checks is also proved. Only
model-checked: liveness (`DuePassRuns`, `ShutdownCompletes`, `SweepEnds`,
`ClicksServed`, `SettlesOnTruth`), which is outside the prover's reach, and the
violations, which are counterexamples.

Two statements were corrected on the way. That the kill switch confines traffic to the
tunnel and the bypass plan is false of both platforms, whose rules admit more;
`KillswitchConfines` now names the exceptions. `RankingHonest` used to say that no server
stands before one that is better in some signal and worse in none. That is false: with
a weight of zero, or where a score saturates, two servers tie although one has less
load, and the name decides. What holds for all weights is that such a server is just as
fast and later by name.

## 6. Not modelled

* Text: WireGuard configurations, keys, JSON framing, rendering, labels and icons of
  the tray. They keep no state and their conversions are tested input by input.
* I/O whose outcome is a value or a failure: the throughput measurement
  (`throughput.rs`), the provider's HTTP API, host names. They appear as a choice over
  their outcomes (`Selection`, `Daemon`, `Bypass`).
* Desktop notifications (`notify.rs`) and the command line client: fire and forget, or
  one request and its answer.
* Registering and removing the Windows service, the tray's lock against a second
  instance.
* State that is only shown: throughput history, `last_sweep`, the kill switch's counter.
* The cryptography of a handshake, the kernel and WireGuard itself, which are external.

## 7. Plan

Done: `Tunnel` and `LinuxTunnel` with their refinement; `WindowsTunnel`; `Tuner` and
`Daemon`; `Selection`; `Runtime` with start-up and the service; `Config` and `Sweep`;
`Bypass`; `Tray`; the proofs of all their safety properties; the composition of
`LinuxTunnel` and of `Selection` with `Daemon`.

Next, in this order:

1. The composition for `WindowsTunnel`: what its operations leave of the firewall and
   the bypass (where traffic comes out cannot be as `Daemon` assumes, finding 4).
2. What the tray assumes of a request (`Serve`) against the requests of `Daemon`.
3. That the scheduler's re-check under the lock (`Runtime`) gives `Daemon` its passes
   one at a time.
