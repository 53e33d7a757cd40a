------------------------------- MODULE Runtime ------------------------------
(***************************************************************************)
(* The tasks of the daemon (vpnmgrd/src/main.rs): main, the tuning         *)
(* scheduler, and one task per client connection.  They share the State    *)
(* through one mutex, which a request or a tuning pass holds across every  *)
(* await it makes.  Time is counted in ticks and enters through the        *)
(* scheduler's arithmetic only (time_until_next_tune).                     *)
(*                                                                         *)
(* The process is started and stopped by a manager: systemd or a terminal, *)
(* whose signals end it, or the Windows service control manager, whose     *)
(* stop arrives as a notification (vpnmgrd/src/service.rs).                *)
(***************************************************************************)
EXTENDS Naturals

CONSTANTS
    Clients,     \* client connections
    Scheduler, Main, Nobody,   \* the other holders of the mutex
    Modes,       \* how a daemon may be launched
    Intervals,   \* autotune.interval_minutes that a file may configure
    Stagger,     \* the 60 seconds before a first pass
    Horizon      \* bound: ages beyond it are not told apart

ASSUME TaskAssumption ==
    /\ Scheduler # Main
    /\ Nobody \notin Clients \cup {Scheduler, Main}
    /\ Clients \cap {Scheduler, Main} = {}
    /\ Modes \subseteq {"signal", "service"}
\* Config::validate refuses an interval of zero.
ASSUME TimeAssumption ==
    /\ Intervals \subseteq Nat \ {0}
    /\ Stagger \in Nat \ {0}
    /\ Horizon \in Nat
    /\ \A i \in Intervals : i <= Horizon

VARIABLES
    mode,       \* a signal stops the daemon, or the service control manager
    manager,    \* what the manager knows of it
    asked,      \* it has been asked to stop
    stage,      \* where main is
    holder,     \* the task that holds the mutex
    sched,      \* where the scheduler is
    sleepLeft,  \* what remains of its sleep
    client,     \* the request each connection is serving, or "idle"
    tunnel,     \* "up": State.tunnel is Some; "left": it is not, but taking
                \* one down failed and left something of it in the kernel
    tuned,      \* State.last_tune_at is Some
    age,        \* its age, up to Horizon
    interval    \* State.config.autotune.interval()

tuner == <<sched, sleepLeft>>
record == <<tuned, age>>
managed == <<mode, manager, asked>>
vars == <<managed, stage, holder, tuner, client, tunnel, record, interval>>

\* Requests by what they do to the variables above; "query" is all others.
Requests == {"connect", "disconnect", "autotune", "reload", "query"}

Starting == {"loading", "binding", "listening"}

Stages == Starting \cup {"serving", "stopping", "torn", "leaving", "exited"}

\* "aborted": there is no such task.
SchedStates == {"compute", "asleep", "recheck", "pass", "aborted"}

TypeOK ==
    /\ mode \in Modes
    /\ manager \in {"running", "stopped"}
    /\ asked \in BOOLEAN
    /\ stage \in Stages
    /\ holder \in Clients \cup {Scheduler, Main, Nobody}
    /\ sched \in SchedStates
    /\ sleepLeft \in 0..(Horizon + Stagger)
    /\ client \in [Clients -> Requests \cup {"idle"}]
    /\ tunnel \in {"none", "up", "left"}
    /\ tuned \in BOOLEAN
    /\ age \in 0..Horizon
    /\ interval \in Intervals

\* main, or the entry point of the service, which first reports Running.
Init ==
    /\ mode \in Modes
    /\ manager = "running"
    /\ asked = FALSE
    /\ stage = "loading"
    /\ holder = Nobody
    /\ sched = "aborted"
    /\ sleepLeft = 0
    /\ client = [c \in Clients |-> "idle"]
    /\ tunnel = "none"
    /\ tuned = FALSE
    /\ age = 0
    /\ interval \in Intervals

-----------------------------------------------------------------------------
(* Start-up                                                                *)

\* exit(1), or the default action of a signal.  Nothing is up yet.
Dies ==
    /\ stage' = "exited"
    /\ manager' = "stopped"
    /\ sched' = "aborted"
    /\ holder' = Nobody

\* State::load, of the file and the keys.
Load ==
    /\ stage = "loading"
    /\ \/ stage' = "binding" /\ UNCHANGED <<manager, sched, holder>>
       \/ Dies
    /\ UNCHANGED <<mode, asked, sleepLeft, client, tunnel, record, interval>>

\* The socket or the pipe; then the scheduler is spawned.
Bind ==
    /\ stage = "binding"
    /\ \/ stage' = "listening" /\ sched' = "compute" /\ UNCHANGED <<manager, holder>>
       \/ Dies
    /\ UNCHANGED <<mode, asked, sleepLeft, client, tunnel, record, interval>>

\* The first round of the accept loop polls shutdown_signal, which installs the
\* handlers and begins to wait for the notification.
Listen ==
    /\ stage = "listening"
    /\ stage' = "serving"
    /\ UNCHANGED <<managed, holder, tuner, client, tunnel, record, interval>>

\* Before that a signal kills the process, and a notification, which is kept
\* for nobody, is lost.
EarlyStop ==
    /\ stage \in Starting
    /\ asked' = TRUE
    /\ \/ mode = "signal" /\ Dies
       \/ mode = "service" /\ UNCHANGED <<manager, stage, sched, holder>>
    /\ UNCHANGED <<mode, sleepLeft, client, tunnel, record, interval>>

-----------------------------------------------------------------------------
(* The scheduler task                                                      *)

AtMost(a, b) == IF a < b THEN a ELSE b

\* time_until_next_tune
TimeUntilNextTune_Fixed == AtMost(interval, Stagger)
TimeUntilNextTune_Unsaturated ==
    IF tuned THEN interval - age ELSE AtMost(interval, Stagger)
TimeUntilNextTune ==
    IF tuned THEN (IF age < interval THEN interval - age ELSE 0)
             ELSE AtMost(interval, Stagger)

Compute ==
    /\ sched = "compute"
    /\ holder = Nobody
    /\ sleepLeft' = TimeUntilNextTune
    /\ sched' = "asleep"
    /\ UNCHANGED <<managed, stage, holder, client, tunnel, record, interval>>

Wake ==
    /\ sched = "asleep"
    /\ sleepLeft = 0
    /\ sched' = "recheck"
    /\ UNCHANGED <<managed, stage, holder, sleepLeft, client, tunnel, record, interval>>

\* autotune stamps the pass before anything else.
Stamped == tuned' = TRUE /\ age' = 0

\* Re-checked under the lock: a manual pass may have run meanwhile.
Recheck_Trusting ==
    /\ sched = "recheck"
    /\ holder = Nobody
    /\ sched' = "pass"
    /\ holder' = Scheduler
    /\ Stamped
    /\ UNCHANGED <<managed, stage, sleepLeft, client, tunnel, interval>>

Recheck ==
    /\ sched = "recheck"
    /\ holder = Nobody
    /\ \/ /\ TimeUntilNextTune # 0
          /\ sched' = "compute"
          /\ UNCHANGED <<holder, record>>
       \/ /\ TimeUntilNextTune = 0
          /\ sched' = "pass"
          /\ holder' = Scheduler
          /\ Stamped
    /\ UNCHANGED <<managed, stage, sleepLeft, client, tunnel, interval>>

\* The pass returned, with a report or an error.  It may have moved the
\* tunnel; it neither creates nor removes one.
PassEnds ==
    /\ sched = "pass"
    /\ sched' = "compute"
    /\ holder' = Nobody
    /\ UNCHANGED <<managed, stage, sleepLeft, client, tunnel, record, interval>>

-----------------------------------------------------------------------------
(* Connections.  A request that has been read runs to its end, even when    *)
(* the client has gone.                                                    *)

Ask(c, r) ==
    /\ stage \in {"serving", "stopping", "torn", "leaving"}
    /\ client[c] = "idle"
    /\ client' = [client EXCEPT ![c] = r]
    /\ UNCHANGED <<managed, stage, holder, tuner, tunnel, record, interval>>

\* handle has the lock.
Begin(c) ==
    /\ client[c] # "idle"
    /\ holder = Nobody
    /\ holder' = c
    /\ IF client[c] = "autotune" THEN Stamped ELSE UNCHANGED record
    /\ UNCHANGED <<managed, stage, tuner, client, tunnel, interval>>

\* What a request may make of the tunnel.  "connect" stands for connect and for
\* baseline, which disconnects and reconnects: either may leave it up, down,
\* or half cleaned up.
Down == IF tunnel = "up" THEN {"none", "left"} ELSE {tunnel}

After(r) ==
    CASE r = "connect"    -> {"none", "up", "left"}
      [] r = "disconnect" -> Down
      [] OTHER            -> {tunnel}

Finish(c) ==
    /\ holder = c
    /\ holder' = Nobody
    /\ client' = [client EXCEPT ![c] = "idle"]
    /\ tunnel' \in After(client[c])
    /\ interval' \in IF client[c] = "reload" THEN Intervals ELSE {interval}
    /\ UNCHANGED <<managed, stage, tuner, record>>

-----------------------------------------------------------------------------
(* Main: a signal, or the notification, ends the accept loop               *)

Stop ==
    /\ stage = "serving"
    /\ stage' = "stopping"
    /\ asked' = TRUE
    /\ UNCHANGED <<mode, manager, holder, tuner, client, tunnel, record, interval>>

\* tuner_task.abort() takes effect at the scheduler's next await, and drops
\* the guard it holds.
Aborted_KeepsGuard ==
    /\ stage \in {"stopping", "torn", "leaving"}
    /\ sched # "aborted"
    /\ sched' = "aborted"
    /\ UNCHANGED <<managed, stage, holder, sleepLeft, client, tunnel, record, interval>>

Aborted ==
    /\ stage \in {"stopping", "torn", "leaving"}
    /\ sched # "aborted"
    /\ sched' = "aborted"
    /\ holder' = IF holder = Scheduler THEN Nobody ELSE holder
    /\ UNCHANGED <<managed, stage, sleepLeft, client, tunnel, record, interval>>

\* disconnect, under a guard that lives until run_daemon returns.  When it
\* fails that is logged, and the shutdown goes on.
Teardown_Unguarded ==
    /\ stage = "stopping"
    /\ holder = Nobody
    /\ stage' = "torn"
    /\ tunnel' \in Down
    /\ UNCHANGED <<managed, holder, tuner, client, record, interval>>

Teardown ==
    /\ stage = "stopping"
    /\ holder = Nobody
    /\ holder' = Main
    /\ stage' = "torn"
    /\ tunnel' \in Down
    /\ UNCHANGED <<managed, tuner, client, record, interval>>

\* The body of run_daemon ends and drops the guard.  Its tasks still run, so a
\* request that waits for the mutex now has it.
Release ==
    /\ stage = "torn"
    /\ stage' = "leaving"
    /\ holder' = Nobody
    /\ UNCHANGED <<managed, tuner, client, tunnel, record, interval>>

\* The runtime is dropped: every task ends at the await it is in, and the last
\* of them takes the State along, whose tunnel, if any, is taken down.
Exit ==
    /\ stage = "leaving"
    /\ stage' = "exited"
    /\ holder' = Nobody
    /\ sched' = "aborted"
    /\ client' = [c \in Clients |-> "idle"]
    /\ tunnel' \in Down
    /\ manager' = IF mode = "signal" THEN "stopped" ELSE manager
    /\ UNCHANGED <<mode, asked, sleepLeft, record, interval>>

\* The service reports Stopped after run_daemon has returned.
ReportStopped ==
    /\ stage = "exited"
    /\ manager = "running"
    /\ manager' = "stopped"
    /\ UNCHANGED <<mode, asked, stage, holder, tuner, client, tunnel, record, interval>>

\* The daemon is started again.
Restart ==
    /\ manager = "stopped"
    /\ mode' \in Modes
    /\ manager' = "running"
    /\ asked' = FALSE
    /\ stage' = "loading"
    /\ sleepLeft' = 0
    /\ tuned' = FALSE
    /\ age' = 0
    /\ interval' \in Intervals
    /\ UNCHANGED <<holder, sched, client, tunnel>>

-----------------------------------------------------------------------------

Tick ==
    /\ stage # "exited"
    /\ sleepLeft' = IF sleepLeft > 0 THEN sleepLeft - 1 ELSE 0
    /\ age' = IF tuned /\ age < Horizon THEN age + 1 ELSE age
    /\ UNCHANGED <<managed, stage, holder, sched, client, tunnel, tuned, interval>>

Next ==
    \/ Load \/ Bind \/ Listen \/ EarlyStop
    \/ Compute \/ Wake \/ Recheck \/ PassEnds
    \/ \E c \in Clients : Begin(c) \/ Finish(c) \/ \E r \in Requests : Ask(c, r)
    \/ Stop \/ Aborted \/ Teardown \/ Release \/ Exit \/ ReportStopped \/ Restart
    \/ Tick

Spec == Init /\ [][Next]_vars

\* Time passes and tasks are polled; every request and pass ends, since each
\* await in it has a timeout; and the mutex is served in FIFO order, so who
\* waits for it gets it (SF) although others take it in between.
Fairness ==
    /\ WF_vars(Tick) /\ WF_vars(Wake) /\ WF_vars(PassEnds)
    /\ \A c \in Clients : SF_vars(Begin(c)) /\ WF_vars(Finish(c))
    /\ WF_vars(Load) /\ WF_vars(Bind) /\ WF_vars(Listen)
    /\ WF_vars(Aborted) /\ WF_vars(Release) /\ WF_vars(Exit) /\ WF_vars(ReportStopped)
    /\ SF_vars(Compute) /\ SF_vars(Recheck) /\ SF_vars(Teardown)

FairSpec == Spec /\ Fairness

-----------------------------------------------------------------------------
(* Properties                                                              *)

\* A manual pass "postpones the next scheduled one" (scheduler's comment): a
\* scheduled pass never follows another within the interval in force, though
\* a manual pass may begin while the scheduler sleeps, or waits for the lock
\* after waking, and a reload may lengthen the interval.  Of a first pass,
\* which follows none, it says nothing.
NoRedundantPass ==
    [][sched # "pass" /\ sched' = "pass" => (tuned => age >= interval)]_vars

\* Once main has taken the tunnel down, no request that was waiting for the
\* lock or arrives late brings one up for as long as main holds it.  One that
\* gets the lock in the moment between run_daemon's end and the runtime's may
\* ("leaving"), but does not outlive the process: a manager that believes the
\* daemon stopped, killed while it started or unable to start finds no tunnel,
\* or what a failed clean-up left of one.
TornDownForGood ==
    stage \in {"torn", "exited"} \/ manager = "stopped" => tunnel # "up"

\* Once a first pass has been recorded, a due pass is run, whatever requests,
\* manual passes and reloads come in between.
DuePassRuns == tuned /\ age >= interval ~> age = 0 \/ stage # "serving"

\* A stop request is carried out although a pass or requests hold the lock,
\* and the manager learns of it: a signal at whatever time it comes, the
\* notification of a service once the daemon waits for it.
ShutdownCompletes ==
    stage = "stopping" \/ (asked /\ mode = "signal") ~> manager = "stopped"

\* "Run a tuning pass whenever one falls due" (vpnmgrd/src/main.rs:389), the
\* first being staggered, not skipped (vpnmgrd/src/state.rs:1039).
FirstPassRuns == stage = "serving" ~> tuned \/ stage # "serving"

=============================================================================
