----------------------------- MODULE TrayProofs -----------------------------
(***************************************************************************)
(* Proofs about Tray, on both platforms, for any servers and filters, any  *)
(* length of its queues and any number of clicks and changes elsewhere.    *)
(***************************************************************************)
EXTENDS Tray, SequenceTheorems, TLAPS

-----------------------------------------------------------------------------
(* The inductive invariant, in parts                                       *)

\* Snapshots are looked at only when no click waits to be looked up.
DrainedFirst == ui.at = "updates" => events = <<>>

\* Windows: the UI thread keeps Quit to itself, so the client thread, which
\* sends whatever it takes, never gets it.
QuitKept ==
    platform = "windows" => \A i \in DOMAIN queue : queue[i].op # "quit"

Inv == TypeOK /\ ClicksUnderstood /\ DrainedFirst /\ QuitKept

\* The sets that TypeOK is made of.
Shown == [status : Status \union {Unknown}, ranking : Lists, servers : Lists,
          busy : BOOLEAN, error : BOOLEAN]

Jobs == [pc : {"idle", "mark", "send", "done"}, request : Request,
         failed : BOOLEAN]

Reading == [pc : {"off", "idle", "status", "ranking", "servers", "show"},
            status : Status \union {Unknown}, ranking : Lists \union {Unknown},
            servers : Lists \union {Unknown}, busy : BOOLEAN]

Events == [menu : {0, 1}, action : Action]

Windows == [open : BOOLEAN, at : {"pump", "events", "updates"}, menu : {0, 1}]

\* TypeOK in terms of them.
LEMMA Types ==
    TypeOK <=> /\ platform \in Platforms /\ daemon \in Daemon
               /\ moves \in 0..MaxMoves /\ tray \in Shown
               /\ queue \in Seq(Action) /\ job \in Jobs
               /\ reader \in [Refreshers -> Reading] /\ updates \in Seq(Shown)
               /\ events \in Seq(Events) /\ ui \in Windows
  BY DEF TypeOK, Shown, Jobs, Reading, Events, Windows

-----------------------------------------------------------------------------
(* The daemon                                                              *)

\* A connection or a proposal is replaced.
LEMMA Redirected ==
    ASSUME NEW d \in Daemon, NEW c \in Options, NEW p \in Options
    PROVE  /\ [d EXCEPT !.current = c] \in Daemon
           /\ [d EXCEPT !.pending = p] \in Daemon
  BY DEF Daemon

\* A sweep, of the servers allowed or of a country, leaves a ranking of servers.
LEMMA SweptTyped ==
    ASSUME daemon \in Daemon
    PROVE  Swept \subseteq Daemon /\ \A c : SweptIn(c) \subseteq Daemon
<1>1. daemon.filters.allowed \in SUBSET Servers /\ daemon.filters.eligible \in SUBSET Servers
  <2>1. daemon.filters \in Filters
    BY DEF Daemon
  <2>2. QED
    BY <2>1, TrayConstants
<1>2. \A r \in SUBSET Servers, b \in BOOLEAN :
        [daemon EXCEPT !.ranking = r, !.byCountry = b] \in Daemon
  BY DEF Daemon, Lists
<1>3. ASSUME NEW cs \in SUBSET Servers, NEW b \in BOOLEAN
      PROVE  SweptOver(cs, b) \subseteq Daemon
  BY <1>2 DEF SweptOver
<1>4. \A c : daemon.filters.eligible \intersect c \in SUBSET Servers
  BY <1>1
<1>5. QED
  BY <1>1, <1>3, <1>4 DEF Swept, SweptIn

\* Whatever a request does, the daemon stays what it is.
LEMMA Served ==
    ASSUME daemon \in Daemon,
           NEW a \in ServeTest \union ServeBaseline
                        \union UNION {Serve(request) : request \in Request}
    PROVE  a.daemon \in Daemon /\ a.ok \in BOOLEAN
<1> DEFINE Answers == [daemon : Daemon, ok : BOOLEAN]
<1>1. \A d \in Daemon, b \in BOOLEAN : [daemon |-> d, ok |-> b] \in Answers
  OBVIOUS
<1>2. \A x \in Answers : x.daemon \in Daemon /\ x.ok \in BOOLEAN
  OBVIOUS
<1> HIDE DEF Answers
<1>3. Refused \subseteq Answers
  BY <1>1 DEF Refused
<1>4. \A d \in Daemon : Done(d) \in Answers /\ Failed(d) \in Answers
  BY <1>1 DEF Done, Failed
<1>5. /\ daemon.current \in Options /\ daemon.pending \in Options
      /\ NoServer \in Options /\ Servers \subseteq Options
  BY DEF Daemon, Options
<1>6. \A d \in Daemon : d.ranking \subseteq Options
  BY DEF Daemon, Lists, Options
<1>7. \A d \in Daemon, c \in Options :
        [d EXCEPT !.current = c] \in Daemon /\ [d EXCEPT !.pending = c] \in Daemon
  BY Redirected
<1>8. Swept \subseteq Daemon /\ \A c : SweptIn(c) \subseteq Daemon
  BY SweptTyped
<1>9. ServeBest \subseteq Answers
  <2> DEFINE Trial(d) == {[daemon |-> [d EXCEPT !.current = s], ok |-> b] :
                            s \in d.ranking, b \in BOOLEAN}
  <2>1. ASSUME NEW d \in Swept PROVE {Failed(d)} \union Trial(d) \subseteq Answers
    <3>1. d \in Daemon
      BY <1>8
    <3>2. \A s \in d.ranking : [d EXCEPT !.current = s] \in Daemon
      BY <1>6, <1>7, <3>1
    <3>3. Trial(d) \subseteq Answers
      BY <1>1, <3>2
    <3>4. QED
      BY <1>4, <3>1, <3>3
  <2> HIDE DEF Trial
  <2>2. UNION {{Failed(d)} \union Trial(d) : d \in Swept} \subseteq Answers
    BY <2>1
  <2>3. QED
    BY <1>3, <2>2 DEF ServeBest, Trial
<1>10. \A s \in Servers : ServeConnect(s) \subseteq Answers /\ ServeSwitch(s) \subseteq Answers
  BY <1>3, <1>4, <1>5, <1>7 DEF ServeConnect, ServeSwitch
<1>11. ServeDisconnect \subseteq Answers
  <2>1. {daemon.current # NoServer, FALSE} \subseteq BOOLEAN
    BY Zenon
  <2>2. [daemon EXCEPT !.current = NoServer] \in Daemon
    BY <1>5, <1>7
  <2>3. QED
    BY <1>1, <2>1, <2>2, Zenon DEF ServeDisconnect
<1>12. ServeAutotune \subseteq Answers
  <2> DEFINE settled(d) == [d EXCEPT !.pending = NoServer]
             Suggested(d) == {Done([d EXCEPT !.pending = s]) : s \in d.ranking}
             Switched(d) == {Done([settled(d) EXCEPT !.current = s]) : s \in d.ranking}
             Pass(d) == {Failed(d), Done(settled(d))} \union Suggested(d)
                          \union Switched(d)
  <2>1. \A d \in Daemon : settled(d) \in Daemon
    BY <1>5, <1>7
  <2>2. ASSUME NEW d \in Swept PROVE Pass(d) \subseteq Answers
    <3>1. d \in Daemon /\ settled(d) \in Daemon
      BY <1>8, <2>1
    <3>2. \A s \in d.ranking : /\ [d EXCEPT !.pending = s] \in Daemon
                               /\ [settled(d) EXCEPT !.current = s] \in Daemon
      BY <1>6, <1>7, <3>1
    <3>3. Suggested(d) \subseteq Answers /\ Switched(d) \subseteq Answers
      BY <1>4, <3>2
    <3>4. QED
      BY <1>4, <3>1, <3>3
  <2> HIDE DEF Pass
  <2>3. UNION {Pass(d) : d \in Swept} \subseteq Answers
    BY <2>2
  <2>4. Done(settled(daemon)) \in Answers
    BY <1>4, <2>1
  <2> HIDE DEF settled
  <2>5. ServeAutotune \subseteq {Done(settled(daemon))} \union Refused
                                  \union UNION {Pass(d) : d \in Swept}
    BY Zenon DEF ServeAutotune, Pass, settled
  <2>6. QED
    BY <1>3, <2>3, <2>4, <2>5
<1>13. ServeApprove \subseteq Answers
  BY <1>4, <1>5, <1>7 DEF ServeApprove
<1>14. ServeDismiss \subseteq Answers
  <2>1. (daemon.pending # NoServer) \in BOOLEAN
    BY Zenon
  <2>2. [daemon EXCEPT !.pending = NoServer] \in Daemon
    BY <1>5, <1>7
  <2>3. QED
    BY <1>1, <2>1, <2>2, Zenon DEF ServeDismiss
<1>15. ServeReload \subseteq Answers
  <2>1. \A f \in Filters, r \in SUBSET Servers, p \in Options :
          [daemon EXCEPT !.filters = f, !.ranking = r, !.byCountry = FALSE,
                         !.pending = p] \in Daemon
    BY DEF Daemon, Lists
  <2>2. daemon.ranking \in SUBSET Servers
    BY DEF Daemon, Lists
  <2>3. QED
    BY <1>3, <1>4, <1>5, <2>1, <2>2 DEF ServeReload
<1>16. \A request \in Request : Serve(request) \subseteq Answers
  BY <1>9, <1>10, <1>11, <1>12, <1>13, <1>14, <1>15 DEF Serve, Request
<1>17. ServeTest \subseteq Answers /\ ServeBaseline \subseteq Answers
  BY <1>3, <1>4, <1>5, <1>7, <1>8 DEF ServeTest, ServeBaseline
<1>18. QED
  BY <1>2, <1>16, <1>17

-----------------------------------------------------------------------------
(* Steps that leave the clicks on their way alone                          *)

\* A step that moves no click and turns no page of the UI thread's loop.
LEMMA QuietInv ==
    ASSUME Inv, UNCHANGED <<platform, queue, events, ui>>,
           daemon' \in Daemon, moves' \in 0..MaxMoves, tray' \in Shown,
           job' \in Jobs, reader' \in [Refreshers -> Reading],
           updates' \in Seq(Shown)
    PROVE  Inv'
<1>1. TypeOK'
  BY DEF Inv, TypeOK, Shown, Jobs, Reading
<1>2. ClicksUnderstood' /\ DrainedFirst' /\ QuitKept'
  BY DEF Inv, ClicksUnderstood, DrainedFirst, QuitKept
<1>3. QED
  BY <1>1, <1>2 DEF Inv

\* A refresh that begins.
LEMMA FreshReading ==
    ASSUME NEW pc \in {"off", "idle", "status", "ranking", "servers", "show"}
    PROVE  Fresh(pc) \in Reading
  BY DEF Fresh, Reading

\* A refresh moves on.
LEMMA ReaderMoves ==
    ASSUME TypeOK, NEW r \in Refreshers, NEW x \in Reading
    PROVE  [reader EXCEPT ![r] = x] \in [Refreshers -> Reading]
<1>1. reader \in [Refreshers -> Reading]
  BY Types
<1>2. QED
  BY <1>1

\* One of the requests of a refresh is answered.
LEMMA RefreshInv ==
    ASSUME Inv, NEW r \in Refreshers, Refresh(r) PROVE Inv'
<1>1. /\ daemon \in Daemon /\ moves \in 0..MaxMoves /\ tray \in Shown /\ job \in Jobs
      /\ updates \in Seq(Shown) /\ reader \in [Refreshers -> Reading]
  BY Types DEF Inv
<1>2. UNCHANGED <<world, tray, queue, job, window>>
  BY DEF Refresh, AskStatus, AskRanking, AskServers
<1>3. reader[r] \in Reading
  BY <1>1
<1>4. reader' \in [Refreshers -> Reading]
  <2>1. CASE AskStatus(r)
    <3>1. Report \in Status
      BY <1>1 DEF Report, Status, Daemon
    <3> DEFINE x == [reader[r] EXCEPT !.status = IF daemon.up THEN Report ELSE Unknown,
                                      !.pc = IF daemon.up THEN "ranking" ELSE "show"]
    <3>2. x \in Reading
      BY <1>3, <3>1 DEF Reading
    <3>3. reader' = [reader EXCEPT ![r] = x]
      BY <1>1, <2>1 DEF AskStatus
    <3>4. QED
      BY <3>2, <3>3, ReaderMoves DEF Inv
  <2>2. CASE AskRanking(r)
    <3> DEFINE ranking == IF daemon.up THEN daemon.ranking ELSE {}
               x == [reader[r] EXCEPT !.ranking = ranking,
                                      !.pc = IF ranking = {} THEN "servers" ELSE "show"]
    <3>1. ranking \in Lists
      BY <1>1 DEF Daemon, Lists
    <3>2. x \in Reading
      BY <1>3, <3>1 DEF Reading
    <3>3. reader' = [reader EXCEPT ![r] = x]
      BY <1>1, <2>2 DEF AskRanking
    <3>4. QED
      BY <3>2, <3>3, ReaderMoves DEF Inv
  <2>3. CASE AskServers(r)
    <3>1. PICK servers \in {Unknown} \union {f \in {daemon.filters.allowed} : daemon.up} :
            reader' = [reader EXCEPT ![r].servers = servers, ![r].pc = "show"]
      BY <2>3 DEF AskServers
    <3> DEFINE x == [reader[r] EXCEPT !.servers = servers, !.pc = "show"]
    <3>2. servers \in Lists \union {Unknown}
      <4>1. daemon.filters \in Filters
        BY <1>1 DEF Daemon
      <4>2. QED
        BY <3>1, <4>1, TrayConstants DEF Lists
    <3>3. x \in Reading
      BY <1>3, <3>2 DEF Reading
    <3>4. reader' = [reader EXCEPT ![r] = x]
      BY <1>1, <3>1
    <3>5. QED
      BY <3>3, <3>4, ReaderMoves DEF Inv
  <2>4. QED
    BY <2>1, <2>2, <2>3 DEF Refresh
<1>5. QED
  BY <1>1, <1>2, <1>4, QuietInv DEF world, window

\* Linux: a refresh puts what it read into the tray.
LEMMA LinuxShowInv ==
    ASSUME Inv, NEW r \in Refreshers, LinuxShow(r) PROVE Inv'
<1>1. /\ daemon \in Daemon /\ moves \in 0..MaxMoves /\ tray \in Shown /\ job \in Jobs
      /\ updates \in Seq(Shown) /\ reader \in [Refreshers -> Reading]
  BY Types DEF Inv
<1>2. reader[r] \in Reading
  BY <1>1
<1>3. tray' \in Shown
  <2>1. tray' = Refreshed(r)
    BY DEF LinuxShow
  <2>2. QED
    BY <1>1, <1>2, <2>1 DEF Refreshed, Reading, Shown
<1>4. reader' \in [Refreshers -> Reading]
  <2>1. Fresh("idle") \in Reading
    BY FreshReading
  <2>2. QED
    BY <1>1, <2>1 DEF LinuxShow
<1>5. UNCHANGED <<world, queue, job, window>>
  BY DEF LinuxShow
<1>6. QED
  BY <1>1, <1>3, <1>4, <1>5, QuietInv DEF world, window

\* A request that is answered, or that meets no daemon.
LEMMA AnsweredTyped ==
    ASSUME Inv, NEW ok \in BOOLEAN, Answered(ok) PROVE daemon' \in Daemon
<1>1. daemon \in Daemon /\ job.request \in Request
  BY Types DEF Inv, Jobs
<1>2. QED
  BY <1>1, Served DEF Answered

\* Linux: the worker marks the tray busy, sends and reports.
LEMMA LinuxWorkInv ==
    ASSUME Inv, LinuxMark \/ LinuxSend \/ LinuxAnswered \/ PollerWakes PROVE Inv'
<1>1. /\ daemon \in Daemon /\ moves \in 0..MaxMoves /\ tray \in Shown /\ job \in Jobs
      /\ updates \in Seq(Shown) /\ reader \in [Refreshers -> Reading]
  BY Types DEF Inv
<1>2. \A r \in Refreshers :
        [reader EXCEPT ![r] = Fresh("status")] \in [Refreshers -> Reading]
  BY ReaderMoves, FreshReading DEF Inv
<1>3. "worker" \in Refreshers /\ "poller" \in Refreshers
  BY DEF Refreshers
<1>4. CASE LinuxMark
  <2>1. UNCHANGED <<world, queue, reader, window>>
    BY <1>4 DEF LinuxMark
  <2>2. tray' \in Shown /\ job' \in Jobs
    BY <1>1, <1>4 DEF LinuxMark, Shown, Jobs
  <2>3. QED
    BY <1>1, <2>1, <2>2, QuietInv DEF world, window
<1>5. CASE LinuxSend
  <2>1. PICK ok \in BOOLEAN :
          Answered(ok) /\ job' = [job EXCEPT !.pc = "done", !.failed = ~ok]
    BY <1>5 DEF LinuxSend
  <2>2. daemon' \in Daemon
    BY <2>1, AnsweredTyped
  <2>3. job' \in Jobs
    BY <1>1, <2>1 DEF Jobs
  <2>4. UNCHANGED <<platform, moves, tray, queue, reader, window>>
    BY <1>5 DEF LinuxSend
  <2>5. QED
    BY <1>1, <2>2, <2>3, <2>4, QuietInv DEF window
<1>6. CASE LinuxAnswered
  <2>1. UNCHANGED <<world, queue, window>>
    BY <1>6 DEF LinuxAnswered
  <2>2. tray' \in Shown
    BY <1>1, <1>6 DEF LinuxAnswered, Shown, Jobs
  <2>3. job' \in Jobs
    BY <1>1, <1>6 DEF LinuxAnswered, Jobs, Idling, Do, Request
  <2>4. reader' \in [Refreshers -> Reading]
    BY <1>2, <1>3, <1>6 DEF LinuxAnswered
  <2>5. QED
    BY <1>1, <2>1, <2>2, <2>3, <2>4, QuietInv DEF world, window
<1>7. CASE PollerWakes
  <2>1. UNCHANGED <<world, tray, queue, job, window>>
    BY <1>7 DEF PollerWakes
  <2>2. reader' \in [Refreshers -> Reading]
    BY <1>2, <1>3, <1>7 DEF PollerWakes
  <2>3. QED
    BY <1>1, <2>1, <2>2, QuietInv DEF world, window
<1>8. QED
  BY <1>4, <1>5, <1>6, <1>7

-----------------------------------------------------------------------------
(* The queues                                                              *)

\* A member is added at the end.
LEMMA Queued ==
    ASSUME NEW S, NEW q \in Seq(S), NEW x \in S
    PROVE  /\ Append(q, x) \in Seq(S)
           /\ \A i \in DOMAIN Append(q, x) :
                Append(q, x)[i] = x \/ (i \in DOMAIN q /\ Append(q, x)[i] = q[i])
<1>1. /\ Append(q, x) \in Seq(S) /\ Len(Append(q, x)) = Len(q) + 1
      /\ \A i \in 1..Len(q) : Append(q, x)[i] = q[i]
      /\ Append(q, x)[Len(q) + 1] = x
  BY AppendProperties
<1>2. DOMAIN q = 1..Len(q) /\ DOMAIN Append(q, x) = 1..Len(Append(q, x))
      /\ Len(q) \in Nat
  BY <1>1, LenProperties
<1>3. QED
  BY <1>1, <1>2

\* The first is taken off.
LEMMA Dequeued ==
    ASSUME NEW S, NEW q \in Seq(S), q # <<>>
    PROVE  /\ Head(q) \in S /\ 1 \in DOMAIN q /\ Head(q) = q[1]
           /\ Tail(q) \in Seq(S)
           /\ \A i \in DOMAIN Tail(q) :
                i + 1 \in DOMAIN q /\ Tail(q)[i] = q[i + 1]
<1>1. /\ Head(q) \in S /\ Tail(q) \in Seq(S) /\ Len(Tail(q)) = Len(q) - 1
      /\ \A i \in 1..Len(Tail(q)) : Tail(q)[i] = q[i + 1]
  BY HeadTailProperties
<1>2. /\ DOMAIN q = 1..Len(q) /\ Len(q) \in Nat
      /\ DOMAIN Tail(q) = 1..Len(Tail(q))
  BY <1>1, LenProperties
<1>3. Len(q) # 0
  BY EmptySeq
<1>4. Head(q) = q[1]
  OBVIOUS
<1>5. QED
  BY <1>1, <1>2, <1>3, <1>4

\* Every item of a menu stands for an action.
LEMMA Menus ==
    ASSUME TypeOK PROVE LinuxMenu \subseteq Action /\ WindowsMenu \subseteq Action
<1>1. QuickConnectEntries \subseteq Servers
  BY DEF TypeOK, QuickConnectEntries, Lists
<1>2. [op : {"pick"}, server : QuickConnectEntries] \subseteq Action
  BY <1>1 DEF Action
<1>3. \A op \in {"best", "disconnect", "autotune", "edit", "approve", "dismiss", "quit"} :
        Do(op) \in Action
  BY DEF Do, Action
<1>4. Proposal \subseteq Action /\ LinuxRoutine \subseteq Action
  BY <1>3 DEF Proposal, LinuxRoutine
<1>5. QED
  BY <1>2, <1>3, <1>4 DEF LinuxMenu, WindowsMenu, LinuxPicks

\* Every action but Quit becomes a request the daemon knows.
LEMMA Requests ==
    ASSUME NEW a \in Action, a.op # "quit"
    PROVE  LinuxRequest(a) \in Request /\ WindowsRequest(a) \in Request
<1>1. CASE a.op = "pick"
  BY <1>1 DEF LinuxRequest, WindowsRequest, Action, Request
<1>2. CASE a.op = "edit"
  BY <1>2 DEF LinuxRequest, WindowsRequest, Request, Do
<1>3. CASE a.op \notin {"pick", "edit"}
  <2>1. a \in Request
    BY <1>3 DEF Action, Request
  <2>2. QED
    BY <1>3, <2>1 DEF LinuxRequest, WindowsRequest
<1>4. QED
  BY <1>1, <1>2, <1>3

-----------------------------------------------------------------------------
(* Steps that move clicks                                                  *)

\* Linux: an item of the menu is activated.
LEMMA LinuxClickInv == ASSUME Inv, LinuxClick PROVE Inv'
<1>1. PICK a \in LinuxMenu : queue' = Append(queue, a)
  BY DEF LinuxClick
<1>2. queue \in Seq(Action) /\ moves \in 0..MaxMoves /\ MaxMoves \in Nat
  BY TrayConstants, Types DEF Inv
<1>3. queue' \in Seq(Action)
  BY <1>1, <1>2, Menus, Queued DEF Inv
<1>4. moves' \in 0..MaxMoves
  BY <1>2 DEF LinuxClick
<1>5. platform = "linux" /\ UNCHANGED <<platform, daemon, tray, job, reader, window>>
  BY DEF LinuxClick
<1>6. TypeOK'
  BY <1>3, <1>4, <1>5 DEF Inv, TypeOK, window
<1>7. ClicksUnderstood' /\ DrainedFirst' /\ QuitKept'
  BY <1>5 DEF Inv, ClicksUnderstood, DrainedFirst, QuitKept, window
<1>8. QED
  BY <1>6, <1>7 DEF Inv

\* Linux: the worker takes a click, and ends on Quit.
LEMMA LinuxTakeInv == ASSUME Inv, LinuxTake PROVE Inv'
<1>1. /\ queue \in Seq(Action) /\ queue # <<>> /\ queue' = Tail(queue)
      /\ job \in Jobs /\ ui \in Windows
  BY Types DEF Inv, LinuxTake
<1>2. Head(queue) \in Action /\ queue' \in Seq(Action)
  BY <1>1, Dequeued
<1>3. platform = "linux" /\ UNCHANGED <<world, tray, reader, updates, events>>
  BY DEF LinuxTake
<1>4. job' \in Jobs /\ ui' \in Windows /\ ui'.at = ui.at /\ ui'.menu = ui.menu
  <2>1. CASE Head(queue).op = "quit"
    BY <1>1, <2>1 DEF LinuxTake, Windows
  <2>2. CASE Head(queue).op # "quit"
    <3>1. LinuxRequest(Head(queue)) \in Request
      BY <1>2, <2>2, Requests
    <3>2. QED
      BY <1>1, <2>2, <3>1 DEF LinuxTake, Jobs
  <2>3. QED
    BY <2>1, <2>2
<1>5. TypeOK'
  BY <1>2, <1>3, <1>4 DEF Inv, TypeOK, world, Jobs, Windows
<1>6. ClicksUnderstood' /\ DrainedFirst' /\ QuitKept'
  BY <1>3, <1>4 DEF Inv, ClicksUnderstood, DrainedFirst, QuitKept, world
<1>7. QED
  BY <1>5, <1>6 DEF Inv

\* Windows: the pump delivers a click on the menu that is shown.
LEMMA WindowsClickInv == ASSUME Inv, WindowsClick PROVE Inv'
<1>1. PICK a \in WindowsMenu :
        events' = Append(events, [menu |-> ui.menu, action |-> a])
  BY DEF WindowsClick
<1> DEFINE x == [menu |-> ui.menu, action |-> a]
<1>2. /\ events \in Seq(Events) /\ moves \in 0..MaxMoves /\ MaxMoves \in Nat
      /\ ui \in Windows
  BY TrayConstants, Types DEF Inv
<1>3. x \in Events
  BY <1>1, <1>2, Menus DEF Inv, Events, Windows
<1>4. /\ events' \in Seq(Events)
      /\ \A i \in DOMAIN events' :
           events'[i] = x \/ (i \in DOMAIN events /\ events'[i] = events[i])
  <2> HIDE DEF x
  <2>1. events' = Append(events, x)
    BY <1>1 DEF x
  <2>2. QED
    BY <1>2, <1>3, <2>1, Queued
<1>5. moves' \in 0..MaxMoves
  BY <1>2 DEF WindowsClick
<1>6. /\ ui.at = "pump"
      /\ UNCHANGED <<platform, daemon, tray, queue, job, reader, updates, ui>>
  BY DEF WindowsClick
<1>7. TypeOK'
  BY <1>4, <1>5, <1>6 DEF Inv, TypeOK, Events
<1>8. ClicksUnderstood'
  BY <1>4, <1>6 DEF Inv, ClicksUnderstood
<1>9. DrainedFirst' /\ QuitKept'
  BY <1>6 DEF Inv, DrainedFirst, QuitKept
<1>10. QED
  BY <1>7, <1>8, <1>9 DEF Inv

\* Windows: the UI thread looks a click up.
LEMMA UiEventInv == ASSUME Inv, UiEvent PROVE Inv'
<1> DEFINE known == Head(events).menu = ui.menu
           a == Head(events).action
<1>1. /\ events \in Seq(Events) /\ events # <<>> /\ queue \in Seq(Action)
      /\ ui \in Windows
  BY Types DEF Inv, UiEvent
<1>2. /\ Head(events) \in Events /\ Tail(events) \in Seq(Events)
      /\ \A i \in DOMAIN Tail(events) :
           i + 1 \in DOMAIN events /\ Tail(events)[i] = events[i + 1]
  BY <1>1, Dequeued
<1>3. a \in Action
  BY <1>2 DEF Events
<1>4. /\ ui.at = "events" /\ events' = Tail(events)
      /\ ui' = [ui EXCEPT !.open = ~(known /\ a.op = "quit")]
      /\ queue' = IF known /\ a.op # "quit" THEN Append(queue, a) ELSE queue
      /\ UNCHANGED <<world, tray, job, reader, updates>>
  BY DEF UiEvent
<1>5. ui' \in Windows /\ ui'.at = "events" /\ ui'.menu = ui.menu
  <2>1. (~(known /\ a.op = "quit")) \in BOOLEAN
    BY Zenon
  <2>2. QED
    BY <1>1, <1>4, <2>1 DEF Windows
<1> HIDE DEF known, a
<1>6. /\ queue' \in Seq(Action)
      /\ \A i \in DOMAIN queue' :
           \/ queue'[i] = a /\ a.op # "quit"
           \/ i \in DOMAIN queue /\ queue'[i] = queue[i]
  BY <1>1, <1>3, <1>4, Queued
<1>7. TypeOK'
  BY <1>2, <1>4, <1>5, <1>6 DEF Inv, TypeOK, world, Windows, Events
<1>8. ClicksUnderstood'
  BY <1>2, <1>4, <1>5 DEF Inv, ClicksUnderstood
<1>9. DrainedFirst'
  BY <1>5 DEF DrainedFirst
<1>10. QuitKept'
  BY <1>4, <1>6 DEF Inv, QuitKept, world
<1>11. QED
  BY <1>7, <1>8, <1>9, <1>10 DEF Inv

\* Windows: the loop of the UI thread goes from the pump to the clicks, to
\* the snapshots and back; a snapshot is taken only when no click waits.
LEMMA UiLoopInv ==
    ASSUME Inv, UiPumped \/ UiEventsDrained \/ UiUpdate \/ UiUpdatesDrained PROVE Inv'
<1>1. /\ updates \in Seq(Shown) /\ tray \in Shown /\ ui \in Windows
  BY Types DEF Inv
<1>2. UNCHANGED <<world, queue, job, reader, events>>
  BY DEF UiPumped, UiEventsDrained, UiUpdate, UiUpdatesDrained
<1>3. /\ updates' \in Seq(Shown) /\ tray' \in Shown /\ ui' \in Windows
      /\ ui'.menu # ui.menu => events = <<>>
      /\ ui'.at = "updates" => events = <<>>
  <2>1. CASE UiPumped
    BY <1>1, <2>1 DEF UiPumped, Windows
  <2>2. CASE UiEventsDrained
    BY <1>1, <2>2 DEF UiEventsDrained, Windows
  <2>3. CASE UiUpdate
    <3>1. /\ updates # <<>> /\ updates' = Tail(updates) /\ tray' = Head(updates)
          /\ ui' = [ui EXCEPT !.menu = 1 - @] /\ events = <<>>
      BY <2>3 DEF UiUpdate, Inv, DrainedFirst
    <3>2. updates' \in Seq(Shown) /\ tray' \in Shown
      BY <1>1, <3>1, Dequeued
    <3>3. 1 - ui.menu \in {0, 1}
      BY <1>1 DEF Windows
    <3>4. QED
      BY <1>1, <3>1, <3>2, <3>3 DEF Windows
  <2>4. CASE UiUpdatesDrained
    BY <1>1, <2>4 DEF UiUpdatesDrained, Windows
  <2>5. QED
    BY <2>1, <2>2, <2>3, <2>4
<1>4. TypeOK'
  BY <1>2, <1>3 DEF Inv, TypeOK, world, Windows, Shown
<1>5. ClicksUnderstood'
  BY <1>2, <1>3 DEF Inv, ClicksUnderstood
<1>6. DrainedFirst' /\ QuitKept'
  BY <1>2, <1>3 DEF Inv, DrainedFirst, QuitKept, world
<1>7. QED
  BY <1>4, <1>5, <1>6 DEF Inv

\* Windows: the client thread takes a click, which is never Quit.
LEMMA WindowsTakeInv == ASSUME Inv, WindowsTake PROVE Inv'
<1> DEFINE edit == Head(queue).op = "edit"
<1>1. /\ queue \in Seq(Action) /\ queue # <<>> /\ queue' = Tail(queue)
      /\ job \in Jobs /\ reader \in [Refreshers -> Reading]
      /\ platform = "windows" /\ UNCHANGED <<world, tray, window>>
  BY Types DEF Inv, WindowsTake
<1>2. /\ Head(queue) \in Action /\ queue' \in Seq(Action)
      /\ 1 \in DOMAIN queue /\ Head(queue) = queue[1]
      /\ \A i \in DOMAIN queue' : i + 1 \in DOMAIN queue /\ queue'[i] = queue[i + 1]
  BY <1>1, Dequeued
<1>3. Head(queue).op # "quit"
  BY <1>1, <1>2 DEF Inv, QuitKept
<1>4. job' \in Jobs
  <2>1. WindowsRequest(Head(queue)) \in Request
    BY <1>2, <1>3, Requests
  <2>2. QED
    BY <1>1, <2>1 DEF WindowsTake, Jobs
<1>5. reader' \in [Refreshers -> Reading]
  <2>1. Fresh("status") \in Reading
    BY FreshReading
  <2>2. [Fresh("status") EXCEPT !.busy = TRUE] \in Reading
    BY <2>1 DEF Reading
  <2>3. "worker" \in Refreshers
    BY DEF Refreshers
  <2>4. QED
    BY <1>1, <2>2, <2>3 DEF WindowsTake
<1>6. TypeOK'
  BY <1>1, <1>2, <1>4, <1>5 DEF Inv, TypeOK, world, window, Jobs, Reading
<1>7. ClicksUnderstood' /\ DrainedFirst'
  BY <1>1 DEF Inv, ClicksUnderstood, DrainedFirst, window
<1>8. QuitKept'
  BY <1>1, <1>2 DEF Inv, QuitKept, world
<1>9. QED
  BY <1>6, <1>7, <1>8 DEF Inv

-----------------------------------------------------------------------------
(* The client thread, the daemon and the start of the tray                 *)

\* What a snapshot is made of.
LEMMA SnapshotTyped == ASSUME TypeOK PROVE Snapshot \in Shown
<1>1. reader["worker"] \in Reading
  BY Types DEF Refreshers
<1>2. QED
  BY <1>1 DEF Snapshot, Reading, Shown, Lists

\* Windows: the client thread polls, sends and reports.
LEMMA WindowsWorkInv ==
    ASSUME Inv, WindowsTick \/ WindowsSend \/ WindowsShow PROVE Inv'
<1>1. /\ daemon \in Daemon /\ moves \in 0..MaxMoves /\ tray \in Shown /\ job \in Jobs
      /\ updates \in Seq(Shown) /\ reader \in [Refreshers -> Reading]
  BY Types DEF Inv
<1>2. /\ [reader EXCEPT !["worker"] = Fresh("status")] \in [Refreshers -> Reading]
      /\ [reader EXCEPT !["worker"] = Fresh("idle")] \in [Refreshers -> Reading]
  BY ReaderMoves, FreshReading DEF Inv, Refreshers
<1>3. CASE WindowsTick
  <2>1. UNCHANGED <<world, tray, queue, job, window>>
    BY <1>3 DEF WindowsTick
  <2>2. reader' \in [Refreshers -> Reading]
    BY <1>2, <1>3 DEF WindowsTick
  <2>3. QED
    BY <1>1, <2>1, <2>2, QuietInv DEF world, window
<1>4. CASE WindowsSend
  <2>1. daemon' \in Daemon
    BY <1>4, AnsweredTyped DEF WindowsSend
  <2>2. job' \in Jobs
    BY <1>4 DEF WindowsSend, Jobs, Idling, Do, Request
  <2>3. reader' \in [Refreshers -> Reading]
    BY <1>2, <1>4 DEF WindowsSend
  <2>4. UNCHANGED <<platform, moves, tray, queue, window>>
    BY <1>4 DEF WindowsSend
  <2>5. QED
    BY <1>1, <2>1, <2>2, <2>3, <2>4, QuietInv DEF window
<1>5. CASE WindowsShow
  <2>1. updates' \in Seq(Shown)
    <3>1. updates' = Append(updates, Snapshot) /\ Snapshot \in Shown
      BY <1>5, SnapshotTyped DEF Inv, WindowsShow
    <3>2. QED
      BY <1>1, <3>1, Queued
  <2>2. job' \in Jobs
    BY <1>1, <1>5 DEF WindowsShow, Jobs
  <2>3. reader' \in [Refreshers -> Reading]
    BY <1>2, <1>5 DEF WindowsShow
  <2>4. UNCHANGED <<world, tray, queue, events, ui>>
    BY <1>5 DEF WindowsShow
  <2>5. QED
    BY <1>1, <2>1, <2>2, <2>3, <2>4, QuietInv DEF world
<1>6. QED
  BY <1>3, <1>4, <1>5

\* The daemon is used by others, stops or starts.
LEMMA ElsewhereInv == ASSUME Inv, Elsewhere \/ DaemonRestarts PROVE Inv'
<1>1. /\ daemon \in Daemon /\ moves \in 0..MaxMoves /\ tray \in Shown /\ job \in Jobs
      /\ updates \in Seq(Shown) /\ reader \in [Refreshers -> Reading]
      /\ MaxMoves \in Nat
  BY TrayConstants, Types DEF Inv
<1>2. moves' \in 0..MaxMoves /\ UNCHANGED <<platform, tray, queue, job, reader, window>>
  BY <1>1 DEF Elsewhere, DaemonRestarts
<1>3. daemon' \in Daemon
  <2>1. CASE Elsewhere
    BY <1>1, <2>1, Served DEF Elsewhere
  <2>2. CASE DaemonRestarts
    <3>1. PICK f \in Filters :
            daemon' = [up |-> ~daemon.up, current |-> NoServer,
                       pending |-> NoServer, ranking |-> {}, byCountry |-> FALSE,
                       filters |-> IF daemon.up THEN daemon.filters ELSE f]
      BY <2>2 DEF DaemonRestarts
    <3>2. (~daemon.up) \in BOOLEAN
      BY Zenon
    <3>3. (IF daemon.up THEN daemon.filters ELSE f) \in Filters
      BY <1>1 DEF Daemon
    <3>4. QED
      BY <3>1, <3>2, <3>3 DEF Daemon, Options, Lists
  <2>3. QED
    BY <2>1, <2>2
<1>4. QED
  BY <1>1, <1>2, <1>3, QuietInv DEF window

\* What a tray that has just been started knows.
LEMMA Started ==
    /\ Blank \in Shown /\ Idling \in Jobs /\ Starting \in [Refreshers -> Reading]
    /\ [open |-> TRUE, at |-> "pump", menu |-> 0] \in Windows
<1>1. Blank \in Shown
  BY DEF Blank, Shown, Lists
<1>2. Idling \in Jobs
  BY DEF Idling, Jobs, Do, Request
<1>3. Starting \in [Refreshers -> Reading]
  BY FreshReading DEF Starting
<1>4. QED
  BY <1>1, <1>2, <1>3 DEF Windows

\* The tray is started again.
LEMMA LaunchInv == ASSUME Inv, Launch PROVE Inv'
<1>1. /\ tray' \in Shown /\ job' \in Jobs /\ reader' \in [Refreshers -> Reading]
      /\ ui' \in Windows /\ queue' = <<>> /\ updates' = <<>> /\ events' = <<>>
      /\ UNCHANGED world
  BY Started DEF Launch
<1>2. TypeOK'
  BY <1>1 DEF Inv, TypeOK, world, Shown, Jobs, Reading, Windows
<1>3. ClicksUnderstood' /\ DrainedFirst' /\ QuitKept'
  BY <1>1 DEF ClicksUnderstood, DrainedFirst, QuitKept
<1>4. QED
  BY <1>2, <1>3 DEF Inv

LEMMA InitInv == Init => Inv
<1> SUFFICES ASSUME Init PROVE Inv
  OBVIOUS
<1>1. /\ tray \in Shown /\ job \in Jobs /\ reader \in [Refreshers -> Reading]
      /\ ui \in Windows /\ queue = <<>> /\ updates = <<>> /\ events = <<>>
  BY Started DEF Init
<1>2. platform \in Platforms /\ daemon \in Daemon /\ moves \in 0..MaxMoves
  BY TrayConstants DEF Init
<1>3. TypeOK
  BY <1>1, <1>2, Types
<1>4. ClicksUnderstood /\ DrainedFirst /\ QuitKept
  BY <1>1 DEF ClicksUnderstood, DrainedFirst, QuitKept
<1>5. QED
  BY <1>3, <1>4 DEF Inv

-----------------------------------------------------------------------------

\* Every step of either tray, of its user and of its daemon keeps the
\* invariant.
THEOREM Invariance == Spec => []Inv
<1>1. Inv /\ [Next]_vars => Inv'
  <2> SUFFICES ASSUME Inv, [Next]_vars PROVE Inv'
    OBVIOUS
  <2>1. CASE Worker
    <3>1. "worker" \in Refreshers
      BY DEF Refreshers
    <3>2. QED
      BY <2>1, <3>1, RefreshInv, LinuxShowInv, LinuxTakeInv, LinuxWorkInv,
         WindowsTakeInv, WindowsWorkInv DEF Worker
  <2>2. CASE Poller
    <3>1. "poller" \in Refreshers
      BY DEF Refreshers
    <3>2. QED
      BY <2>2, <3>1, RefreshInv, LinuxShowInv, LinuxWorkInv DEF Poller
  <2>3. CASE UiThread
    BY <2>3, UiEventInv, UiLoopInv DEF UiThread
  <2>4. CASE LinuxClick
    BY <2>4, LinuxClickInv
  <2>5. CASE WindowsClick
    BY <2>5, WindowsClickInv
  <2>6. CASE Launch
    BY <2>6, LaunchInv
  <2>7. CASE Elsewhere \/ DaemonRestarts
    BY <2>7, ElsewhereInv
  <2>8. CASE UNCHANGED vars
    BY <2>8 DEF vars, Inv, TypeOK, ClicksUnderstood, DrainedFirst, QuitKept
  <2>9. QED
    BY <2>1, <2>2, <2>3, <2>4, <2>5, <2>6, <2>7, <2>8 DEF Next
<1>2. QED
  BY <1>1, InitInv, PTL DEF Spec

\* For any fleet and any filters a tray shows only servers of the fleet and
\* sends only requests that the daemon knows: LinuxTake ends the worker on
\* Quit, and on Windows the UI thread does not pass Quit on.
THEOREM TypeCorrect == Spec => []TypeOK
<1>1. Inv => TypeOK
  BY DEF Inv
<1>2. QED
  BY <1>1, Invariance, PTL

\* However many clicks and snapshots wait, a click is looked up in the map of
\* the menu it was made on: a snapshot that would replace the menu is taken
\* only after the last click before it.
THEOREM Understood == Spec => []ClicksUnderstood
<1>1. Inv => ClicksUnderstood
  BY DEF Inv
<1>2. QED
  BY <1>1, Invariance, PTL

=============================================================================
