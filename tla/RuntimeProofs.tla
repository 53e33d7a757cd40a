---------------------------- MODULE RuntimeProofs ---------------------------
(***************************************************************************)
(* Proofs about Runtime for any number of connections and any intervals.   *)
(***************************************************************************)
EXTENDS Runtime, TLAPS

-----------------------------------------------------------------------------
(* The inductive invariant, in parts                                       *)

\* Main keeps the mutex from the teardown until run_daemon returns.
MainHolds == stage = "torn" => holder = Main

\* When the process has ended no task is left, nor a request.
Ended ==
    stage = "exited"
        => /\ holder = Nobody
           /\ sched = "aborted"
           /\ \A c \in Clients : client[c] = "idle"

\* A pass in progress holds the mutex.
PassHolds == sched = "pass" => holder = Scheduler

\* The manager calls the daemon stopped only once the process has ended, and
\* while it starts there is neither a request nor a tunnel.
Managed ==
    /\ manager = "stopped" => stage = "exited"
    /\ stage \in Starting => tunnel # "up" /\ \A c \in Clients : client[c] = "idle"
    /\ stage \in Starting => holder \notin Clients

\* A request is under way when its connection holds the mutex.
Serving == \A c \in Clients : holder = c => client[c] # "idle"

Inv == /\ TypeOK /\ MainHolds /\ Ended /\ PassHolds /\ Managed /\ Serving
       /\ TornDownForGood

-----------------------------------------------------------------------------

USE DEF vars, tuner, record, managed, Stages, Starting

\* What the scheduler sleeps fits the bound of its clock.
LEMMA SleepBound ==
    ASSUME TypeOK PROVE TimeUntilNextTune \in 0..(Horizon + Stagger)
<1>1. /\ interval \in Nat /\ interval <= Horizon
      /\ age \in Nat
      /\ Horizon \in Nat /\ Stagger \in Nat
  BY TimeAssumption DEF TypeOK
<1>2. QED
  BY <1>1 DEF TimeUntilNextTune, AtMost

\* A daemon that has just started.
LEMMA InvInit == Init => Inv
<1> SUFFICES ASSUME Init PROVE Inv
  OBVIOUS
<1>1. 0 \in 0..(Horizon + Stagger) /\ 0 \in 0..Horizon
  BY TimeAssumption
<1>2. TypeOK
  BY <1>1 DEF Init, TypeOK, SchedStates
<1>3. QED
  BY <1>2, TaskAssumption DEF Init, Inv, MainHolds, Ended, PassHolds, Managed, Serving,
                           TornDownForGood

\* Types are preserved.
LEMMA TypeNext == TypeOK /\ [Next]_vars => TypeOK'
<1> SUFFICES ASSUME TypeOK, [Next]_vars PROVE TypeOK'
  OBVIOUS
<1>0. 0 \in 0..(Horizon + Stagger) /\ 0 \in 0..Horizon
  BY TimeAssumption
<1> USE DEF TypeOK
<1>1. CASE Compute
  BY <1>1, SleepBound DEF Compute, SchedStates
<1>2. CASE Wake
  BY <1>2 DEF Wake, SchedStates
<1>3. CASE Recheck
  BY <1>0, <1>3 DEF Recheck, Stamped, SchedStates
<1>4. CASE PassEnds
  BY <1>4 DEF PassEnds, SchedStates
<1>5. ASSUME NEW c \in Clients, Begin(c) PROVE TypeOK'
  <2>1. tuned' \in BOOLEAN /\ age' \in 0..Horizon
    BY <1>0, <1>5 DEF Begin, Stamped
  <2>2. QED
    BY <1>5, <2>1 DEF Begin
<1>6. ASSUME NEW c \in Clients, Finish(c) PROVE TypeOK'
  <2>1. tunnel' \in {"none", "up", "left"}
    BY <1>6 DEF Finish, After, Down
  <2>2. interval' \in Intervals
    BY <1>6 DEF Finish
  <2>3. client' \in [Clients -> Requests \cup {"idle"}]
    BY <1>6 DEF Finish
  <2>4. QED
    BY <1>6, <2>1, <2>2, <2>3 DEF Finish
<1>7. ASSUME NEW c \in Clients, NEW r \in Requests, Ask(c, r) PROVE TypeOK'
  BY <1>7 DEF Ask
<1>8. CASE Stop
  BY <1>8 DEF Stop
<1>9. CASE Aborted
  BY <1>9 DEF Aborted, SchedStates
<1>10. CASE Teardown
  BY <1>10 DEF Teardown, Down
<1>11. CASE Release \/ Exit
  BY <1>11 DEF Release, Exit, Down, SchedStates
<1>12. CASE Restart
  BY <1>0, <1>12 DEF Restart, SchedStates
<1>13. CASE Tick
  <2>1. sleepLeft' \in 0..(Horizon + Stagger)
    BY <1>13, TimeAssumption DEF Tick
  <2>2. age' \in 0..Horizon
    BY <1>13, TimeAssumption DEF Tick
  <2>3. QED
    BY <1>13, <2>1, <2>2 DEF Tick
<1>14. CASE UNCHANGED vars
  BY <1>14
<1>15. CASE Load
  BY <1>15 DEF Load, Dies, SchedStates
<1>16. CASE Bind
  BY <1>16 DEF Bind, Dies, SchedStates
<1>17. CASE Listen
  BY <1>17 DEF Listen
<1>18. CASE EarlyStop
  BY <1>18 DEF EarlyStop, Dies, SchedStates
<1>19. CASE ReportStopped
  BY <1>19 DEF ReportStopped
<1>20. QED
  BY <1>15, <1>16, <1>17, <1>18, <1>19, <1>1, <1>2, <1>3, <1>4, <1>5, <1>6, <1>7, <1>8, <1>9, <1>10, <1>11, <1>12,
     <1>13, <1>14 DEF Next

\* Every step preserves the invariant.
LEMMA InvNext == Inv /\ [Next]_vars => Inv'
<1> DEFINE Rest == MainHolds /\ Ended /\ PassHolds /\ Managed /\ Serving /\ TornDownForGood
<1> SUFFICES ASSUME Inv, [Next]_vars PROVE Rest'
  BY TypeNext DEF Inv
<1> USE TaskAssumption DEF Inv, MainHolds, Ended, PassHolds, Managed, Serving, TornDownForGood
<1>1. CASE Compute \/ Wake \/ Recheck \/ PassEnds
  <2>1. UNCHANGED <<managed, stage, client, tunnel>> /\ stage # "exited"
    BY <1>1 DEF Compute, Wake, Recheck, PassEnds
  <2>2. QED
    BY <1>1, <2>1 DEF Compute, Wake, Recheck, PassEnds
<1>2. ASSUME NEW c \in Clients, Begin(c) PROVE Rest'
  BY <1>2 DEF Begin
<1>3. ASSUME NEW c \in Clients, Finish(c) PROVE Rest'
  <2>1. stage \notin Starting /\ stage \notin {"torn", "exited"} /\ manager # "stopped"
    BY <1>3 DEF Finish
  <2>2. UNCHANGED <<stage, manager>> /\ holder' = Nobody /\ sched' = sched
    BY <1>3 DEF Finish
  <2>3. sched # "pass"
    BY <1>3 DEF Finish
  <2>4. QED
    BY <2>1, <2>2, <2>3
<1>4. ASSUME NEW c \in Clients, NEW r \in Requests, Ask(c, r) PROVE Rest'
  <2>1. r # "idle"
    BY DEF Requests
  <2>2. QED
    BY <1>4, <2>1 DEF Ask, TypeOK
<1>5. CASE Stop
  BY <1>5 DEF Stop
<1>6. CASE Aborted
  BY <1>6 DEF Aborted
<1>7. CASE Teardown
  BY <1>7 DEF Teardown, Down
<1>8. CASE Release \/ Exit
  BY <1>8 DEF Release, Exit, Down
<1>9. CASE Restart
  BY <1>9 DEF Restart
<1>10. CASE Tick
  BY <1>10 DEF Tick
<1>11. CASE UNCHANGED vars
  BY <1>11
<1>12. CASE Load \/ Bind
  BY <1>12 DEF Load, Bind, Dies
<1>13. CASE Listen
  BY <1>13 DEF Listen
<1>14. CASE EarlyStop
  BY <1>14 DEF EarlyStop, Dies
<1>15. CASE ReportStopped
  BY <1>15 DEF ReportStopped
<1>16. QED
  BY <1>1, <1>2, <1>3, <1>4, <1>5, <1>6, <1>7, <1>8, <1>9, <1>10, <1>11, <1>12,
     <1>13, <1>14, <1>15 DEF Next

-----------------------------------------------------------------------------

\* Type correctness of the daemon's tasks.
THEOREM TypeCorrect == Spec => []TypeOK
BY InvInit, InvNext, PTL DEF Spec, Inv

\* However many requests wait for the mutex at the teardown, none of them
\* brings the tunnel back up before main releases it, and no tunnel outlives
\* the process.
THEOREM TeardownIsFinal == Spec => []TornDownForGood
BY InvInit, InvNext, PTL DEF Spec, Inv

\* No scheduled pass follows another pass within the interval in force.
THEOREM NoPassTooSoon == Spec => NoRedundantPass
<1>1. ASSUME TypeOK, [Next]_vars
      PROVE  [sched # "pass" /\ sched' = "pass" => (tuned => age >= interval)]_vars
  <2>1. interval \in Nat /\ interval # 0 /\ age \in Nat
    BY <1>1, TimeAssumption DEF TypeOK
  <2>2. TimeUntilNextTune = 0 => (tuned => age >= interval)
    BY <2>1, TimeAssumption DEF TimeUntilNextTune, AtMost
  <2>3. sched # "pass" /\ sched' = "pass" => Recheck
    BY <1>1 DEF Next, Compute, Wake, PassEnds, Begin, Finish, Ask, Stop, Aborted,
                Teardown, Release, Exit, Restart, Tick, Load, Bind, Listen, EarlyStop,
                ReportStopped, Dies
  <2>4. QED
    BY <2>2, <2>3 DEF Recheck
<1>2. QED
  BY <1>1, TypeCorrect, PTL DEF Spec, NoRedundantPass

=============================================================================
