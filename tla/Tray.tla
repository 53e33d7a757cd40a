-------------------------------- MODULE Tray --------------------------------
(***************************************************************************)
(* vpnmgr-tray: the icon whose menu drives the daemon, on both platforms.  *)
(*                                                                         *)
(* Linux: the menu is computed from the shared VpnTray.  Two tasks change  *)
(* it: the worker, which carries out clicks one at a time and refreshes    *)
(* after each, and the poller, which refreshes every ten seconds.          *)
(*                                                                         *)
(* Windows: the UI thread owns the menu and drains clicks and snapshots    *)
(* from channels; one client thread polls, carries out clicks and sends    *)
(* snapshots back.                                                         *)
(*                                                                         *)
(* The daemon is reduced to what a client sees of it.  Every request is    *)
(* one step, because handle holds the mutex for the whole of it; a refresh *)
(* is three requests, between which anything may happen.  Labels, ages and *)
(* byte counts are left out, so is the limit of twelve entries, and        *)
(* rankings are sets of names.                                             *)
(***************************************************************************)
EXTENDS Naturals, Sequences

CONSTANTS
    Servers,     \* the fleet
    NoServer,    \* no connection, or no proposal
    Unknown,     \* a refresh did not learn this
    Filters,     \* what configurations may allow, see TrayConstants
    Countries,   \* the servers of each country, as sets
    Answering,   \* the sets of servers that may answer a sweep
    Platforms,   \* the builds considered
    MaxQueue,    \* bound on clicks that wait to be carried out
    MaxUpdates,  \* bound on snapshots that wait when the poll comes due
    MaxMoves     \* bound on clicks and on what others do to the daemon

ASSUME TrayConstants ==
    /\ NoServer \notin Servers
    /\ \A S \in SUBSET Servers : Unknown # S
    /\ \A S \in [current : Servers \union {NoServer},
               pending : Servers \union {NoServer}] : Unknown # S
    \* All the filters together, and all but the country whitelist.
    /\ Filters \subseteq [allowed : SUBSET Servers, eligible : SUBSET Servers]
    /\ \A f \in Filters : f.allowed \subseteq f.eligible
    /\ Countries \subseteq SUBSET Servers
    /\ Answering \subseteq SUBSET Servers
    /\ Platforms \subseteq {"linux", "windows"}
    /\ MaxQueue \in Nat
    /\ MaxUpdates \in Nat
    /\ MaxMoves \in Nat

VARIABLES
    platform,  \* which of the two programs this is
    daemon,    \* the daemon as its clients see it
    moves,     \* how often the user has clicked and others have changed it
    tray,      \* VpnTray, or the Snapshot the menu was built from
    queue,     \* clicks on their way to the task that carries them out
    job,       \* the request being carried out and whether the last one failed
    reader,    \* the refreshes of the worker and of the poller
    updates,   \* Windows: snapshots on their way to the UI thread
    events,    \* Windows: menu events not yet looked up in the MenuMap
    ui         \* Windows: where the event loop is, and which menu is shown

vars == <<platform, daemon, moves, tray, queue, job, reader, updates,
          events, ui>>

Options == Servers \union {NoServer}

Status == [current : Options, pending : Options]

Lists == SUBSET Servers

\* What a menu item stands for; pick is Action::Connect with a server.
Action == [op : {"best", "disconnect", "autotune", "edit", "approve",
                 "dismiss", "quit"}, server : {NoServer}]
            \union [op : {"pick"}, server : Servers]

Request == [op : {"best", "disconnect", "autotune", "reload", "approve",
                  "dismiss"}, server : {NoServer}]
             \union [op : {"connect", "switch"}, server : Servers]

Do(op) == [op |-> op, server |-> NoServer]

Refreshers == {"worker", "poller"}

world == <<platform, daemon, moves>>

window == <<updates, events, ui>>

-----------------------------------------------------------------------------
(* The daemon, as the tray's requests meet it.                             *)

\* byCountry: the ranking is that of a sweep of one country.
Daemon == [up : BOOLEAN, current : Options, pending : Options,
           ranking : Lists, byCountry : BOOLEAN, filters : Filters]

\* State::status.
Report == [current |-> daemon.current, pending |-> daemon.pending]

Refused == {[daemon |-> daemon, ok |-> FALSE]}

Done(d) == [daemon |-> d, ok |-> TRUE]

Failed(d) == [daemon |-> d, ok |-> FALSE]

\* State::sweep: those of the candidates that answer, if any does.
SweptOver(candidates, country) ==
    {[daemon EXCEPT !.ranking = r, !.byCountry = country] :
       r \in {candidates \intersect a : a \in Answering} \ {{}}}

Swept == SweptOver(daemon.filters.allowed, FALSE)

\* A country given to `test` takes the place of the country whitelist.
SweptIn(country) ==
    SweptOver(daemon.filters.eligible \intersect country, TRUE)

\* connect without a server; it can fail with a tunnel up on a candidate.
ServeBest ==
    IF daemon.current # NoServer THEN Refused
    ELSE Refused \union
         UNION {{Failed(d)} \union
                {[daemon |-> [d EXCEPT !.current = s], ok |-> b] :
                   s \in d.ranking, b \in BOOLEAN} : d \in Swept}

\* A named server is taken at face value, but only while disconnected.
ServeConnect(s) ==
    Refused \union {Done([daemon EXCEPT !.current = t]) :
                      t \in {x \in {s} : daemon.current = NoServer}}

ServeSwitch(s) ==
    Refused \union {Done([daemon EXCEPT !.current = t]) :
                      t \in {x \in {s} : daemon.current # NoServer}}

\* The record of the connection goes even if the teardown failed.
ServeDisconnect ==
    {[daemon |-> [daemon EXCEPT !.current = NoServer], ok |-> b] :
       b \in {daemon.current # NoServer, FALSE}}

\* A pass that ends without a proposal withdraws the last one.
ServeAutotune ==
    LET settled(d) == [d EXCEPT !.pending = NoServer]
    IN  {Done(settled(daemon))} \union
        (IF daemon.current = NoServer THEN {}
         ELSE Refused \union
              UNION {{Failed(d), Done(settled(d))}
                       \union {Done([d EXCEPT !.pending = s]) : s \in d.ranking}
                       \union {Done([settled(d) EXCEPT !.current = s]) :
                                 s \in d.ranking} : d \in Swept})

\* The proposal is taken before the move is tried.
ServeApprove ==
    LET taken == [daemon EXCEPT !.pending = NoServer]
    IN  {Failed(taken)} \union
        {Done([taken EXCEPT !.current = p]) :
           p \in {x \in {daemon.pending} \ {NoServer} :
                    daemon.current # NoServer}}

ServeDismiss ==
    {[daemon |-> [daemon EXCEPT !.pending = NoServer],
      ok |-> daemon.pending # NoServer]}

\* A file that does not parse leaves everything as it was.
ServeReload ==
    Refused \union
    {Done([daemon EXCEPT !.filters = f,
                         !.ranking = @ \intersect f.allowed,
                         !.byCountry = FALSE,
                         !.pending = IF @ \in f.allowed THEN @ ELSE NoServer]) :
       f \in Filters}

\* Requests of vpnmgr that the tray has no item for.  Those that are not here
\* (killswitch, speedtest) change nothing that it reads.
ServeTest ==
    Refused \union {Done(d) : d \in Swept \union UNION {SweptIn(c) : c \in Countries}}

\* The tunnel is taken down and put back up, unless one of the two fails.
ServeBaseline ==
    Refused \union {Done(daemon), Failed([daemon EXCEPT !.current = NoServer])}

\* handle: what a request may do to the daemon and whether it succeeds.
Serve(request) ==
    CASE request.op = "best"       -> ServeBest
      [] request.op = "connect"    -> ServeConnect(request.server)
      [] request.op = "switch"     -> ServeSwitch(request.server)
      [] request.op = "disconnect" -> ServeDisconnect
      [] request.op = "autotune"   -> ServeAutotune
      [] request.op = "approve"    -> ServeApprove
      [] request.op = "dismiss"    -> ServeDismiss
      [] request.op = "reload"     -> ServeReload

\* Another client or the scheduler changes the daemon.
Elsewhere ==
    /\ moves < MaxMoves
    /\ moves' = moves + 1
    /\ daemon.up
    /\ \E a \in ServeTest \union ServeBaseline
                 \union UNION {Serve(request) : request \in Request} :
         daemon' = a.daemon
    /\ UNCHANGED <<platform, tray, queue, job, reader, window>>

\* The daemon stops or crashes; what it knew is gone when it starts again,
\* perhaps with another configuration.
DaemonRestarts ==
    /\ moves < MaxMoves
    /\ moves' = moves + 1
    /\ \E f \in Filters :
         daemon' = [up |-> ~daemon.up, current |-> NoServer,
                    pending |-> NoServer, ranking |-> {}, byCountry |-> FALSE,
                    filters |-> IF daemon.up THEN daemon.filters ELSE f]
    /\ UNCHANGED <<platform, tray, queue, job, reader, window>>

-----------------------------------------------------------------------------
(* The menu.                                                               *)

\* VpnTray::connected.
Connected == tray.status # Unknown /\ tray.status.current # NoServer

Proposed == tray.status # Unknown /\ tray.status.pending # NoServer

\* The measured ranking, and the list of servers until there is one.
QuickConnectEntries ==
    IF tray.ranking # {} THEN tray.ranking ELSE tray.servers

\* The two items that wait on the user; they are never greyed out.
Proposal == IF Proposed THEN {Do("approve"), Do("dismiss")} ELSE {}

\* Nothing that cannot work is offered: not while busy, not while unreachable.
Idle == ~tray.busy /\ tray.status # Unknown

LinuxRoutine ==
    IF ~Idle THEN {}
    ELSE {Do("autotune"), Do("edit")} \union
         (IF Connected THEN {Do("disconnect")} ELSE {Do("best")})

LinuxPicks ==
    IF Idle THEN [op : {"pick"}, server : QuickConnectEntries] ELSE {}

LinuxMenu == Proposal \union LinuxRoutine \union LinuxPicks \union {Do("quit")}

\* The Windows menu stays enabled while a request runs.
WindowsMenu ==
    Proposal \union {Do("quit")} \union
    (IF tray.status = Unknown THEN {}
     ELSE {Do("autotune"), Do("edit")} \union
          (IF Connected THEN {Do("disconnect")} ELSE {Do("best")}) \union
          [op : {"pick"}, server : QuickConnectEntries])

-----------------------------------------------------------------------------
(* A refresh: status, ranking and, before any sweep, the server list.      *)

Fresh(pc) == [pc |-> pc, status |-> Unknown, ranking |-> Unknown,
              servers |-> Unknown, busy |-> FALSE]

AskStatus(r) ==
    /\ reader[r].pc = "status"
    /\ reader' = [reader EXCEPT ![r].status = IF daemon.up THEN Report
                                              ELSE Unknown,
                                ![r].pc = IF daemon.up THEN "ranking"
                                          ELSE "show"]
    /\ UNCHANGED <<world, tray, queue, job, window>>

\* A ranking that cannot be had counts as an empty one.
AskRanking(r) ==
    /\ reader[r].pc = "ranking"
    /\ LET ranking == IF daemon.up THEN daemon.ranking ELSE {}
       IN  reader' = [reader EXCEPT ![r].ranking = ranking,
                                    ![r].pc = IF ranking = {} THEN "servers"
                                              ELSE "show"]
    /\ UNCHANGED <<world, tray, queue, job, window>>

\* The daemon answers with the servers its filters allow, unless it cannot
\* fetch the provider's list.
AskServers(r) ==
    /\ reader[r].pc = "servers"
    /\ \E servers \in {Unknown} \union {f \in {daemon.filters.allowed} : daemon.up} :
         reader' = [reader EXCEPT ![r].servers = servers, ![r].pc = "show"]
    /\ UNCHANGED <<world, tray, queue, job, window>>

\* A status that could not be read leaves the old one in place.
Refreshed_KeepsStatus(r) ==
    [tray EXCEPT !.status = IF reader[r].status = Unknown THEN @
                            ELSE reader[r].status,
                 !.ranking = IF reader[r].ranking = Unknown THEN @
                             ELSE reader[r].ranking,
                 !.servers = IF reader[r].servers = Unknown THEN @
                             ELSE reader[r].servers]

\* What the last update of a Linux refresh leaves of the tray: lists that
\* were not fetched stay as they are.
Refreshed(r) ==
    [tray EXCEPT !.status = reader[r].status,
                 !.ranking = IF reader[r].ranking = Unknown THEN @
                             ELSE reader[r].ranking,
                 !.servers = IF reader[r].servers = Unknown THEN @
                             ELSE reader[r].servers]

\* main refreshes once before it starts the poller; here the worker does.
LinuxShow(r) ==
    /\ platform = "linux"
    /\ reader[r].pc = "show"
    /\ tray' = Refreshed(r)
    /\ reader' = [reader EXCEPT ![r] = Fresh("idle"),
                                !["poller"] = IF r = "poller" \/ @.pc = "off"
                                              THEN Fresh("idle") ELSE @]
    /\ UNCHANGED <<world, queue, job, window>>

-----------------------------------------------------------------------------
(* Linux: clicks, the worker and the poller.                               *)

\* dispatch: the activate callback of an item of the current menu.
LinuxClick ==
    /\ platform = "linux"
    /\ Len(queue) < MaxQueue
    /\ moves < MaxMoves
    /\ moves' = moves + 1
    /\ \E a \in LinuxMenu : queue' = Append(queue, a)
    /\ UNCHANGED <<platform, daemon, tray, job, reader, window>>

\* Picking a server means "switch" once the tray believes a tunnel exists.
LinuxRequest(a) ==
    CASE a.op = "pick" /\ Connected -> [op |-> "switch", server |-> a.server]
      [] a.op = "pick" /\ ~Connected -> [op |-> "connect", server |-> a.server]
      [] a.op = "edit" -> Do("reload")
      [] OTHER -> a

\* No request is under way (the one named here is meaningless).
Idling == [pc |-> "idle", request |-> Do("dismiss"), failed |-> FALSE]

WorkerFree == job.pc = "idle" /\ reader["worker"].pc = "idle"

\* Quit is sent to the daemon like any other action.
LinuxTake_QuitSent ==
    /\ platform = "linux"
    /\ WorkerFree
    /\ queue # <<>>
    /\ queue' = Tail(queue)
    /\ job' = [job EXCEPT !.pc = "mark", !.request = LinuxRequest(Head(queue))]
    /\ UNCHANGED <<world, tray, reader, window>>

\* The worker returns on Quit, and main then shuts the tray down.
LinuxTake ==
    /\ platform = "linux"
    /\ WorkerFree
    /\ queue # <<>>
    /\ queue' = Tail(queue)
    /\ IF Head(queue).op = "quit"
       THEN /\ ui' = [ui EXCEPT !.open = FALSE]
            /\ UNCHANGED job
       ELSE /\ job' = [job EXCEPT !.pc = "mark",
                                  !.request = LinuxRequest(Head(queue))]
            /\ UNCHANGED ui
    /\ UNCHANGED <<world, tray, reader, updates, events>>

LinuxMark ==
    /\ platform = "linux"
    /\ job.pc = "mark"
    /\ job' = [job EXCEPT !.pc = "send"]
    /\ tray' = [tray EXCEPT !.busy = TRUE, !.error = FALSE]
    /\ UNCHANGED <<world, queue, reader, window>>

\* client::request: no daemon means an error and no effect; otherwise the
\* daemon answers when it has carried the request out.
Answered(ok) ==
    \/ ~daemon.up /\ ~ok /\ UNCHANGED daemon
    \/ daemon.up /\ \E a \in Serve(job.request) : daemon' = a.daemon /\ ok = a.ok

LinuxSend ==
    /\ platform = "linux"
    /\ job.pc = "send"
    /\ \E ok \in BOOLEAN :
         /\ Answered(ok)
         /\ job' = [job EXCEPT !.pc = "done", !.failed = ~ok]
    /\ UNCHANGED <<platform, moves, tray, queue, reader, window>>

\* The worker returns when a request fails.
LinuxAnswered_Ends ==
    /\ platform = "linux"
    /\ job.pc = "done"
    /\ job' = [Idling EXCEPT !.failed = job.failed]
    /\ tray' = [tray EXCEPT !.busy = FALSE, !.error = job.failed]
    /\ reader' = [reader EXCEPT !["worker"] =
                    Fresh(IF job.failed THEN "off" ELSE "status")]
    /\ UNCHANGED <<world, queue, window>>

\* An error answer is shown just as a failure to reach the daemon is.
LinuxAnswered ==
    /\ platform = "linux"
    /\ job.pc = "done"
    /\ job' = [Idling EXCEPT !.failed = job.failed]
    /\ tray' = [tray EXCEPT !.busy = FALSE, !.error = job.failed]
    /\ reader' = [reader EXCEPT !["worker"] = Fresh("status")]
    /\ UNCHANGED <<world, queue, window>>

PollerWakes ==
    /\ platform = "linux"
    /\ reader["poller"].pc = "idle"
    /\ reader' = [reader EXCEPT !["poller"] = Fresh("status")]
    /\ UNCHANGED <<world, tray, queue, job, window>>

-----------------------------------------------------------------------------
(* Windows: the UI thread's loop (pump, menu events, snapshots).           *)

\* The pump dispatches clicks on the menu that is shown.
WindowsClick ==
    /\ platform = "windows"
    /\ ui.at = "pump"
    /\ Len(events) + Len(queue) < MaxQueue
    /\ moves < MaxMoves
    /\ moves' = moves + 1
    /\ \E a \in WindowsMenu :
         events' = Append(events, [menu |-> ui.menu, action |-> a])
    /\ UNCHANGED <<platform, daemon, tray, queue, job, reader, updates, ui>>

\* Snapshots are drained before the clicks.
UiPumped_UpdatesFirst ==
    /\ platform = "windows"
    /\ ui.at = "pump"
    /\ events # <<>> \/ updates # <<>>
    /\ ui' = [ui EXCEPT !.at = "updates"]
    /\ UNCHANGED <<world, tray, queue, job, reader, updates, events>>

\* A round of the loop that finds nothing to do changes nothing.
UiPumped ==
    /\ platform = "windows"
    /\ ui.at = "pump"
    /\ events # <<>> \/ updates # <<>>
    /\ ui' = [ui EXCEPT !.at = "events"]
    /\ UNCHANGED <<world, tray, queue, job, reader, updates, events>>

\* An event whose id is not in the map of the current menu is ignored.
UiEvent ==
    /\ platform = "windows"
    /\ ui.at = "events"
    /\ events # <<>>
    /\ events' = Tail(events)
    /\ LET known == Head(events).menu = ui.menu
           a == Head(events).action
       IN  /\ ui' = [ui EXCEPT !.open = ~(known /\ a.op = "quit")]
           /\ queue' = IF known /\ a.op # "quit" THEN Append(queue, a) ELSE queue
    /\ UNCHANGED <<world, tray, job, reader, updates>>

\* The events are drained before the snapshots.
UiEventsDrained ==
    /\ platform = "windows"
    /\ ui.at = "events"
    /\ events = <<>>
    /\ ui' = [ui EXCEPT !.at = "updates"]
    /\ UNCHANGED <<world, tray, queue, job, reader, updates, events>>

\* Every snapshot builds a new menu with new ids.
UiUpdate ==
    /\ platform = "windows"
    /\ ui.at = "updates"
    /\ updates # <<>>
    /\ updates' = Tail(updates)
    /\ tray' = Head(updates)
    /\ ui' = [ui EXCEPT !.menu = 1 - @]
    /\ UNCHANGED <<world, queue, job, reader, events>>

UiUpdatesDrained ==
    /\ platform = "windows"
    /\ ui.at = "updates"
    /\ updates = <<>>
    /\ ui' = [ui EXCEPT !.at = "pump"]
    /\ UNCHANGED <<world, tray, queue, job, reader, updates, events>>

-----------------------------------------------------------------------------
(* Windows: daemon_loop on the client thread.                              *)

WindowsTick ==
    /\ platform = "windows"
    /\ WorkerFree
    /\ Len(updates) < MaxUpdates
    /\ reader' = [reader EXCEPT !["worker"] = Fresh("status")]
    /\ UNCHANGED <<world, tray, queue, job, window>>

WindowsRequest(a) ==
    CASE a.op = "pick" -> [op |-> "connect", server |-> a.server]
      [] a.op = "edit" -> Do("reload")
      [] OTHER -> a

\* A busy snapshot comes first, except around the editor.
WindowsTake ==
    /\ platform = "windows"
    /\ WorkerFree
    /\ queue # <<>>
    /\ queue' = Tail(queue)
    /\ LET edit == Head(queue).op = "edit"
       IN  /\ job' = [job EXCEPT !.pc = IF edit THEN "send" ELSE "mark",
                                 !.request = WindowsRequest(Head(queue))]
           /\ reader' = IF edit THEN reader
                        ELSE [reader EXCEPT !["worker"] =
                                [Fresh("status") EXCEPT !.busy = TRUE]]
    /\ UNCHANGED <<world, tray, window>>

\* The answer is not looked at; only a failure to get one is logged.
WindowsSend ==
    /\ platform = "windows"
    /\ job.pc = "send"
    /\ \E ok \in BOOLEAN : Answered(ok)
    /\ job' = Idling
    /\ reader' = [reader EXCEPT !["worker"] = Fresh("status")]
    /\ UNCHANGED <<platform, moves, tray, queue, window>>

\* A snapshot starts from nothing: lists that were not fetched are empty.
Snapshot ==
    LET r == reader["worker"]
    IN  [status |-> r.status,
         ranking |-> IF r.ranking = Unknown THEN {} ELSE r.ranking,
         servers |-> IF r.servers = Unknown THEN {} ELSE r.servers,
         busy |-> r.busy, error |-> FALSE]

WindowsShow ==
    /\ platform = "windows"
    /\ reader["worker"].pc = "show"
    /\ updates' = Append(updates, Snapshot)
    /\ reader' = [reader EXCEPT !["worker"] = Fresh("idle")]
    /\ job' = [job EXCEPT !.pc = IF @ = "mark" THEN "send" ELSE @]
    /\ UNCHANGED <<world, tray, queue, events, ui>>

-----------------------------------------------------------------------------
(* The program starts, ends and is started again.                          *)

Blank == [status |-> Unknown, ranking |-> {}, servers |-> {}, busy |-> FALSE,
          error |-> FALSE]

Starting == [r \in Refreshers |-> Fresh(IF r = "worker" THEN "status" ELSE "off")]

\* The tray is started over a new daemon, or over one that has swept and
\* connected and may have a proposal.
Init ==
    /\ platform \in Platforms
    /\ daemon \in {d \in Daemon :
                    /\ d.up
                    /\ d.ranking = IF d.current = NoServer THEN {}
                                   ELSE d.filters.allowed
                    /\ ~d.byCountry
                    /\ d.pending \in d.ranking \union {NoServer}}
    /\ moves = 0
    /\ tray = Blank
    /\ queue = <<>>
    /\ job = Idling
    /\ reader = Starting
    /\ updates = <<>>
    /\ events = <<>>
    /\ ui = [open |-> TRUE, at |-> "pump", menu |-> 0]

\* Nothing of a tray outlives its process.
Launch ==
    /\ ~ui.open
    /\ tray' = Blank
    /\ queue' = <<>>
    /\ job' = Idling
    /\ reader' = Starting
    /\ updates' = <<>>
    /\ events' = <<>>
    /\ ui' = [open |-> TRUE, at |-> "pump", menu |-> 0]
    /\ UNCHANGED <<world>>

Refresh(r) == AskStatus(r) \/ AskRanking(r) \/ AskServers(r)

Worker ==
    \/ Refresh("worker")
    \/ LinuxShow("worker") \/ LinuxTake \/ LinuxMark \/ LinuxSend
    \/ LinuxAnswered
    \/ WindowsTick \/ WindowsTake \/ WindowsSend \/ WindowsShow

Poller == PollerWakes \/ Refresh("poller") \/ LinuxShow("poller")

UiThread ==
    UiPumped \/ UiEvent \/ UiEventsDrained \/ UiUpdate \/ UiUpdatesDrained

Next ==
    \/ ui.open /\ (Worker \/ Poller \/ UiThread \/ LinuxClick \/ WindowsClick)
    \/ Launch
    \/ Elsewhere
    \/ DaemonRestarts

Spec == Init /\ [][Next]_vars

\* The tasks run, the daemon answers every request (each await in it has a
\* timeout, each kernel call returns),
\* and select picks a ready branch at random, so a waiting click is taken.
FairSpec ==
    /\ Spec
    /\ WF_vars(ui.open /\ Worker)
    /\ WF_vars(ui.open /\ Poller)
    /\ WF_vars(ui.open /\ UiThread)
    /\ SF_vars(ui.open /\ WindowsTake)

-----------------------------------------------------------------------------
(* Properties.                                                             *)

\* What a refresh has read or a snapshot shows keeps its type; in particular
\* only requests the daemon knows are sent.
TypeOK ==
    /\ platform \in Platforms
    /\ daemon \in Daemon
    /\ moves \in 0..MaxMoves
    /\ tray \in [status : Status \union {Unknown}, ranking : Lists,
                 servers : Lists, busy : BOOLEAN, error : BOOLEAN]
    /\ queue \in Seq(Action)
    /\ job \in [pc : {"idle", "mark", "send", "done"}, request : Request,
                failed : BOOLEAN]
    /\ reader \in [Refreshers ->
                     [pc : {"off", "idle", "status", "ranking", "servers", "show"},
                      status : Status \union {Unknown},
                      ranking : Lists \union {Unknown},
                      servers : Lists \union {Unknown}, busy : BOOLEAN]]
    /\ updates \in Seq([status : Status \union {Unknown}, ranking : Lists,
                        servers : Lists, busy : BOOLEAN, error : BOOLEAN])
    /\ events \in Seq([menu : {0, 1}, action : Action])
    /\ ui \in [open : BOOLEAN, at : {"pump", "events", "updates"}, menu : {0, 1}]

\* Windows: although every snapshot replaces the menu and its ids, a click is
\* always looked up in the map of the menu it was made on, so none is lost.
ClicksUnderstood ==
    \A i \in DOMAIN events : events[i].menu = ui.menu

\* What the tray shows is what the daemon would answer now, and what it offers
\* to connect to are servers the filters in force allow; all filters but the
\* country whitelist, if the daemon last swept a country it was asked to test.
Truthful ==
    /\ tray.status = IF daemon.up THEN Report ELSE Unknown
    /\ daemon.up => QuickConnectEntries \subseteq
                      (IF daemon.byCountry THEN daemon.filters.eligible
                                           ELSE daemon.filters.allowed)

\* The server list can be had every so often whenever it is needed.
ListComes == []<>(\/ ~daemon.up
                  \/ daemon.ranking # {}
                  \/ \E r \in Refreshers : reader[r].servers # Unknown)

\* A tray that stays open over a daemon nothing changes any more ends up
\* showing its status and offering only servers that its filters, as far as
\* the last sweep used them, allow, although refreshes overlap, mix answers of
\* different times and keep old lists.
SettlesOnTruth ==
    (<>[]ui.open /\ <>[][FALSE]_daemon /\ ListComes) => <>[]Truthful

\* A click that waits is carried out, however often the poll comes due.
ClicksServed == queue # <<>> ~> (job.pc # "idle" \/ ~ui.open)
=============================================================================
