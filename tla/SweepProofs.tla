----------------------------- MODULE SweepProofs ----------------------------
(***************************************************************************)
(* Proofs about Sweep for any list of servers, any files and any number of *)
(* endpoints, permits and samples.                                         *)
(***************************************************************************)
EXTENDS Sweep, FiniteSetTheorems, SequenceTheorems, WellFoundedInduction, TLAPS

-----------------------------------------------------------------------------
(* The inductive invariant, in parts                                       *)

\* Past the filter the file has been found valid.
FileValid == phase \notin {"load", "refused"} => Valid(config)

\* Every permit is free or with a probe that is under way.
PermitsCounted ==
    phase \notin {"load", "refused", "filter", "no list"} =>
      permits + Cardinality(Underway) = config.probe.concurrency

\* A probe that goes on has samples left to take and is not that of the live
\* endpoint.
HasSamplesLeft ==
    \A e \in DOMAIN task :
      Running(e) => task[e].taken < config.probe.samples /\ e # excluded

\* UsableIffTimed for probes that have not ended, too.
TimedThroughout ==
    \A e \in DOMAIN task : IsUsable(task[e].outcome) <=> task[e].samples # <<>>

\* A probe that has not begun is as it was spawned.
FreshTasks ==
    \A e \in DOMAIN task : task[e].pc = "waiting" => task[e] = Unprobed

SentContained == sent \subseteq Endpoints \ {excluded}

Inv == /\ TypeOK /\ FileValid /\ PermitsCounted /\ HasSamplesLeft
       /\ TimedThroughout /\ FreshTasks /\ SentContained

-----------------------------------------------------------------------------

USE DEF vars

\* There are finitely many endpoints.
LEMMA FiniteEndpoints == IsFiniteSet(Endpoints)
<1>1. IsFiniteSet(Servers \X Entries)
  BY SweepConstants, FS_Product
<1>2. Endpoints \subseteq Servers \X Entries
  BY SweepConstants DEF Endpoints
<1>3. QED
  BY <1>1, <1>2, FS_Subset

\* What the configuration gives the probes.
LEMMA Settings ==
    ASSUME TypeOK
    PROVE  /\ config.probe.concurrency \in Nat
           /\ config.probe.samples \in Nat
           /\ permits \in Int
<1>1. /\ config.probe.concurrency \in Nat
      /\ config.probe.samples \in Nat
  BY SweepConstants DEF TypeOK, Configs, Probe
<1>2. permits \in 0..config.probe.concurrency
  BY DEF TypeOK
<1>3. QED
  BY <1>1, <1>2

\* The filters, and with them the endpoints, depend on the file alone.
LEMMA EndpointsStay ==
    ASSUME UNCHANGED config PROVE Endpoints' = Endpoints
  BY DEF Endpoints, Accepted, Accepts

\* The probes under way are finitely many.
LEMMA UnderwayFinite ==
    ASSUME TypeOK
    PROVE  IsFiniteSet(Underway) /\ Cardinality(Underway) \in Nat
<1>1. Underway \subseteq Endpoints
  BY DEF Underway, TypeOK, Probed
<1>2. QED
  BY <1>1, FiniteEndpoints, FS_Subset, FS_CardinalityType

\* The daemon has read a file.
LEMMA InvInit == Init => Inv
<1> SUFFICES ASSUME Init PROVE Inv
  OBVIOUS
<1>1. config.probe.concurrency \in Nat
  BY SweepConstants DEF Init, Configs, Probe
<1>2. TypeOK
  BY <1>1 DEF Init, TypeOK, Probed
<1>3. QED
  BY <1>2 DEF Init, Inv, FileValid, PermitsCounted, HasSamplesLeft, TimedThroughout,
              FreshTasks, SentContained

-----------------------------------------------------------------------------
(* A step of one probe                                                     *)

\* The permits that a task holds.
Held(t) == IF t.pc \in {"ready", "sent"} THEN 1 ELSE 0

\* Whatever replaces the task of e, permits and probes under way add up.
LEMMA PermitsAddUp ==
    ASSUME TypeOK, PermitsCounted,
           NEW e \in DOMAIN task, NEW x \in Task,
           task' = [task EXCEPT ![e] = x],
           permits' = permits + Held(task[e]) - Held(x), permits' >= 0,
           UNCHANGED <<config, phase>>
    PROVE  /\ permits' + Cardinality(Underway') = config.probe.concurrency
           /\ permits' \in 0..config.probe.concurrency
<1>1. phase \notin {"load", "refused", "filter", "no list"}
  BY DEF TypeOK, Probed
<1>2. permits \in Int /\ config.probe.concurrency \in Nat
  BY Settings
<1>3. /\ IsFiniteSet(Underway) /\ Cardinality(Underway) \in Nat
      /\ permits + Cardinality(Underway) = config.probe.concurrency
  BY <1>1, UnderwayFinite DEF PermitsCounted
<1>4. DOMAIN task' = DOMAIN task /\ task'[e] = x
      /\ \A f \in DOMAIN task : f # e => task'[f] = task[f]
  BY DEF TypeOK
<1>5. CASE Held(task[e]) = 1 /\ Held(x) = 1
  <2>1. Underway' = Underway
    BY <1>4, <1>5 DEF Underway, Running, Held
  <2>2. QED
    BY <1>2, <1>3, <1>5, <2>1
<1>6. CASE Held(task[e]) = 0 /\ Held(x) = 0
  <2>1. Underway' = Underway
    BY <1>4, <1>6 DEF Underway, Running, Held
  <2>2. QED
    BY <1>2, <1>3, <1>6, <2>1
<1>7. CASE Held(task[e]) = 0 /\ Held(x) = 1
  <2>1. Underway' = Underway \cup {e} /\ e \notin Underway
    BY <1>4, <1>7 DEF Underway, Running, Held
  <2>2. Cardinality(Underway') = Cardinality(Underway) + 1
    BY <1>3, <2>1, FS_AddElement
  <2>3. QED
    BY <1>2, <1>3, <1>7, <2>2
<1>8. CASE Held(task[e]) = 1 /\ Held(x) = 0
  <2>1. Underway' = Underway \ {e} /\ e \in Underway
    BY <1>4, <1>8 DEF Underway, Running, Held
  <2>2. Cardinality(Underway') = Cardinality(Underway) - 1
    BY <1>3, <2>1, FS_RemoveElement
  <2>3. Cardinality(Underway) >= 1
    BY <1>3, <2>1, FS_EmptySet
  <2>4. QED
    BY <1>2, <1>3, <1>8, <2>2, <2>3
<1>9. QED
  BY <1>5, <1>6, <1>7, <1>8 DEF Held

\* What a step of one probe must keep, once the permits add up.
LEMMA ProbeKeepsInv ==
    ASSUME Inv, NEW e \in DOMAIN task, NEW x \in Task,
           task' = [task EXCEPT ![e] = x],
           permits' = permits + Held(task[e]) - Held(x), permits' >= 0,
           x.pc \in {"ready", "sent"} =>
             x.taken < config.probe.samples /\ e # excluded,
           IsUsable(x.outcome) <=> x.samples # <<>>,
           x.pc # "waiting",
           sent' = sent \/ (sent' = sent \cup {e} /\ e # excluded),
           UNCHANGED <<config, excluded, phase>>
    PROVE  Inv'
<1> USE DEF Inv
<1>1. /\ task \in [Probed -> Task] /\ DOMAIN task = Probed
      /\ task' \in [Probed -> Task] /\ DOMAIN task' = Probed
      /\ task'[e] = x
      /\ \A f \in Probed : f # e => task'[f] = task[f]
  BY DEF TypeOK
<1>2. Endpoints' = Endpoints /\ Task' = Task
  BY EndpointsStay DEF Task
<1>3. Probed' = Probed
  BY <1>2 DEF Probed
<1>4. /\ permits' + Cardinality(Underway') = config.probe.concurrency
      /\ permits' \in 0..config.probe.concurrency
  BY PermitsAddUp
<1>5. e \in Endpoints /\ e \in Listed
  BY <1>1 DEF Probed, Endpoints
<1>6. TypeOK'
  BY <1>1, <1>2, <1>3, <1>4, <1>5 DEF TypeOK
<1>7. FileValid'
  BY DEF FileValid, Valid
<1>8. PermitsCounted'
  BY <1>4 DEF PermitsCounted
<1>9. HasSamplesLeft'
  BY <1>1 DEF HasSamplesLeft, Running
<1>10. TimedThroughout'
  BY <1>1 DEF TimedThroughout
<1>11. FreshTasks'
  BY <1>1 DEF FreshTasks
<1>12. SentContained'
  BY <1>2, <1>5 DEF SentContained
<1>13. QED
  BY <1>6, <1>7, <1>8, <1>9, <1>10, <1>11, <1>12

\* What the invariant says of one probe.
LEMMA OfTask ==
    ASSUME Inv, NEW e \in DOMAIN task
    PROVE  /\ task[e] \in Task
           /\ phase \notin {"load", "refused"}
           /\ config.probe.samples \in Nat /\ config.probe.samples > 0
           /\ permits \in Int /\ permits >= 0
           /\ task[e].pc = "waiting" => task[e] = Unprobed
           /\ task[e].pc \in {"ready", "sent"} =>
                task[e].taken < config.probe.samples /\ e # excluded
           /\ IsUsable(task[e].outcome) <=> task[e].samples # <<>>
<1> USE DEF Inv
<1>1. task[e] \in Task /\ phase \notin {"load", "refused"}
  BY DEF TypeOK, Probed
<1>2. config.probe.samples \in Nat /\ config.probe.concurrency \in Nat
  BY Settings
<1>3. config.probe.samples > 0
  BY <1>1, <1>2 DEF FileValid, Valid, ProbeValid
<1>4. permits \in Int /\ permits >= 0
  <2>1. permits \in 0..config.probe.concurrency
    BY DEF TypeOK
  <2>2. QED
    BY <1>2, <2>1
<1>5. /\ task[e].pc = "waiting" => task[e] = Unprobed
      /\ task[e].pc \in {"ready", "sent"} =>
           task[e].taken < config.probe.samples /\ e # excluded
      /\ IsUsable(task[e].outcome) <=> task[e].samples # <<>>
  BY DEF FreshTasks, HasSamplesLeft, Running, TimedThroughout
<1>6. QED
  BY <1>1, <1>2, <1>3, <1>4, <1>5

\* A probe that has made no handshake is a task, wherever it stands.
LEMMA UntimedTask ==
    ASSUME TypeOK,
           NEW pc \in {"waiting", "ready", "sent", "done"}, NEW outcome \in Outcomes
    PROVE  /\ [Unprobed EXCEPT !.pc = pc] \in Task
           /\ [Unprobed EXCEPT !.pc = pc, !.outcome = outcome] \in Task
<1>1. 0 \in 0..config.probe.samples
  BY Settings
<1>2. <<>> \in Seq(Rtts)
  OBVIOUS
<1>3. Unprobed \in Task
  BY <1>1, <1>2 DEF Task, Unprobed, Outcomes
<1>4. QED
  BY <1>3 DEF Task

\* The permit is taken, or the live endpoint is skipped.
LEMMA AcquireInv ==
    ASSUME Inv, NEW e \in DOMAIN task, Acquire(e) PROVE Inv'
<1>1. task[e] = Unprobed /\ config.probe.samples \in Nat
      /\ config.probe.samples > 0 /\ permits \in Int /\ permits >= 0
  BY OfTask DEF Acquire
<1>2. task \in [Probed -> Task]
  BY DEF Inv, TypeOK
<1>3. CASE e = excluded
  <2> DEFINE x == [Unprobed EXCEPT !.pc = "done", !.outcome = "skipped"]
  <2>1. x \in Task
    BY UntimedTask DEF Inv, Outcomes
  <2>2. task' = [task EXCEPT ![e] = x]
    BY <1>1, <1>2, <1>3 DEF Acquire
  <2>3. permits' = permits + Held(task[e]) - Held(x) /\ permits' >= 0
    BY <1>1, <1>3 DEF Acquire, Held, Unprobed
  <2>4. /\ x.pc = "done" /\ sent' = sent
        /\ IsUsable(x.outcome) <=> x.samples # <<>>
        /\ UNCHANGED <<config, excluded, phase>>
    BY DEF Acquire, Unprobed, IsUsable
  <2>5. QED
    BY <2>1, <2>2, <2>3, <2>4, ProbeKeepsInv
<1>4. CASE e # excluded
  <2> DEFINE x == [Unprobed EXCEPT !.pc = "ready"]
  <2>1. x \in Task
    BY UntimedTask DEF Inv, Outcomes
  <2>2. task' = [task EXCEPT ![e] = x]
    BY <1>1, <1>2, <1>4 DEF Acquire
  <2>3. permits' = permits + Held(task[e]) - Held(x) /\ permits' >= 0
    BY <1>1, <1>4 DEF Acquire, Held, Unprobed
  <2>4. /\ x.pc = "ready" /\ x.taken < config.probe.samples /\ sent' = sent
        /\ IsUsable(x.outcome) <=> x.samples # <<>>
        /\ UNCHANGED <<config, excluded, phase>>
    BY <1>1 DEF Acquire, Unprobed, IsUsable
  <2>5. QED
    BY <1>4, <2>1, <2>2, <2>3, <2>4, ProbeKeepsInv
<1>5. QED
  BY <1>3, <1>4

\* The initiation goes out.
LEMMA SendInv ==
    ASSUME Inv, NEW e \in DOMAIN task, Send(e) PROVE Inv'
<1> DEFINE x == [task[e] EXCEPT !.pc = "sent"]
<1>1. /\ task[e] \in Task /\ permits \in Int /\ permits >= 0
      /\ task[e].taken < config.probe.samples /\ e # excluded
      /\ IsUsable(task[e].outcome) <=> task[e].samples # <<>>
  BY OfTask DEF Send
<1>2. task \in [Probed -> Task]
  BY DEF Inv, TypeOK
<1>3. x \in Task /\ x.taken = task[e].taken /\ x.samples = task[e].samples
      /\ x.outcome = task[e].outcome /\ x.pc = "sent"
  BY <1>1 DEF Task
<1>4. task' = [task EXCEPT ![e] = x]
  BY <1>2 DEF Send
<1>5. permits' = permits + Held(task[e]) - Held(x) /\ permits' >= 0
  BY <1>1, <1>3 DEF Send, Held
<1>6. sent' = sent \cup {e} /\ UNCHANGED <<config, excluded, phase>>
  BY DEF Send
<1>7. QED
  BY <1>1, <1>3, <1>4, <1>5, <1>6, ProbeKeepsInv

\* A handshake is over: one more sample is taken, and the outcome agrees with
\* the timings.
LEMMA TakenInv ==
    ASSUME Inv, NEW e \in DOMAIN task, task[e].pc \in {"ready", "sent"},
           NEW samples \in Seq(Rtts), NEW outcome \in Outcomes,
           IsUsable(outcome) <=> samples # <<>>,
           Taken(e, samples, outcome),
           UNCHANGED <<config, excluded, phase, sent, ranking>>
    PROVE  Inv'
<1> DEFINE last == task[e].taken + 1 = config.probe.samples
           x == [pc |-> IF last THEN "done" ELSE "ready",
                 samples |-> samples, outcome |-> outcome,
                 taken |-> task[e].taken + 1]
<1>1. /\ task[e] \in Task /\ permits \in Int /\ permits >= 0
      /\ config.probe.samples \in Nat
      /\ task[e].taken < config.probe.samples /\ e # excluded
  BY OfTask
<1>2. task[e].taken \in Nat
  BY <1>1 DEF Task
<1>3. x \in Task
  BY <1>1, <1>2 DEF Task
<1>4. task' = [task EXCEPT ![e] = x]
  BY DEF Taken
<1>5. permits' = permits + Held(task[e]) - Held(x) /\ permits' >= 0
  BY <1>1 DEF Taken, Held
<1>6. x.pc \in {"ready", "sent"} => x.taken < config.probe.samples
  BY <1>1, <1>2
<1>7. x.pc # "waiting" /\ (IsUsable(x.outcome) <=> x.samples # <<>>)
  OBVIOUS
<1>8. QED
  BY <1>1, <1>3, <1>4, <1>5, <1>6, <1>7, ProbeKeepsInv

\* A handshake that gives no timing.
LEMMA FailureInv ==
    ASSUME Inv, NEW e \in DOMAIN task, task[e].pc \in {"ready", "sent"},
           NEW outcome \in {"unreachable", "rejected", "failed"},
           Failure(e, outcome),
           UNCHANGED <<config, excluded, phase, sent, ranking>>
    PROVE  Inv'
<1> DEFINE o == IF task[e].samples = <<>> THEN outcome ELSE task[e].outcome
<1>1. /\ task[e] \in Task
      /\ IsUsable(task[e].outcome) <=> task[e].samples # <<>>
  BY OfTask
<1>2. /\ task[e].samples \in Seq(Rtts) /\ o \in Outcomes
      /\ IsUsable(o) <=> task[e].samples # <<>>
  BY <1>1 DEF Task, Outcomes, IsUsable
<1>3. Taken(e, task[e].samples, o)
  BY DEF Failure
<1>4. QED
  BY <1>2, <1>3, TakenInv

\* Another sample makes a sequence of samples that is not empty.
LEMMA Extended ==
    ASSUME NEW s \in Seq(Rtts), NEW rtt \in Rtts
    PROVE  Append(s, rtt) \in Seq(Rtts) /\ Append(s, rtt) # <<>>
  BY AppendProperties

\* A handshake that gives one.
LEMMA AnswerInv ==
    ASSUME Inv, NEW e \in DOMAIN task, Answer(e) PROVE Inv'
<1>1. PICK rtt \in Rtts, outcome \in {"reachable", "rate limited"} :
        Success(e, rtt, outcome)
  BY DEF Answer
<1> DEFINE o == IF task[e].outcome = "reachable" THEN "reachable" ELSE outcome
           q == Append(task[e].samples, rtt)
<1>2. task[e] \in Task /\ task[e].pc \in {"ready", "sent"}
  BY OfTask DEF Answer
<1>3. q \in Seq(Rtts) /\ q # <<>>
  <2>1. task[e].samples \in Seq(Rtts)
    BY <1>2 DEF Task
  <2>2. QED
    BY <2>1, Extended
<1>4. o \in Outcomes /\ IsUsable(o)
  BY DEF Outcomes, IsUsable
<1>5. Taken(e, q, o)
  BY <1>1 DEF Success
<1>6. UNCHANGED <<config, excluded, phase, sent, ranking>>
  BY DEF Answer
<1>7. QED
  BY <1>2, <1>3, <1>4, <1>5, <1>6, TakenInv

\* The task unwinds, and its permit with it.
LEMMA PanicInv ==
    ASSUME Inv, NEW e \in DOMAIN task, Panic(e) PROVE Inv'
<1> DEFINE x == [Unprobed EXCEPT !.pc = "done", !.outcome = "failed"]
<1>1. /\ task[e].pc \in {"ready", "sent"} /\ permits \in Int /\ permits >= 0
  BY OfTask DEF Panic, Running
<1>2. x \in Task
  BY UntimedTask DEF Inv, Outcomes
<1>3. permits' = permits + Held(task[e]) - Held(x) /\ permits' >= 0
  BY <1>1 DEF Panic, Held, Unprobed
<1>4. x.pc = "done" /\ (IsUsable(x.outcome) <=> x.samples # <<>>)
  BY DEF Unprobed, IsUsable
<1>5. /\ task' = [task EXCEPT ![e] = x] /\ sent' = sent
      /\ UNCHANGED <<config, excluded, phase>>
  BY DEF Panic
<1>6. QED
  BY <1>2, <1>3, <1>4, <1>5, ProbeKeepsInv

-----------------------------------------------------------------------------
(* The steps of the sweep as a whole                                       *)

\* Nothing is under way before the probes are spawned.
LEMMA LoadInv == Inv /\ (Load \/ ListFails) => Inv'
<1> SUFFICES ASSUME Inv, Load \/ ListFails PROVE Inv'
  OBVIOUS
<1> USE DEF Inv
<1>1. /\ phase' \in {"filter", "refused", "no list"}
      /\ UNCHANGED <<config, excluded, task, permits, sent>>
      /\ (phase' # "refused" => Valid(config))
  BY DEF Load, ListFails, FileValid
<1>2. Endpoints' = Endpoints /\ Task' = Task
  BY <1>1, EndpointsStay DEF Task
<1>3. Probed' = Probed
  BY <1>1 DEF Load, ListFails, Probed
<1>4. TypeOK'
  BY <1>1, <1>2, <1>3 DEF TypeOK
<1>5. FileValid' /\ PermitsCounted'
  BY <1>1 DEF FileValid, PermitsCounted, Valid
<1>6. HasSamplesLeft' /\ TimedThroughout' /\ FreshTasks'
  BY <1>1 DEF HasSamplesLeft, TimedThroughout, FreshTasks, Running
<1>7. SentContained'
  BY <1>1, <1>2 DEF SentContained
<1>8. QED
  BY <1>4, <1>5, <1>6, <1>7

\* Every probe waits and every permit is free.
LEMMA LaunchInv == Inv /\ Launch => Inv'
<1> SUFFICES ASSUME Inv, Launch PROVE Inv'
  OBVIOUS
<1> USE DEF Inv
<1>1. /\ phase = "filter" /\ phase' \in {"no candidates", "probing"}
      /\ task' = [e \in Endpoints |-> Unprobed]
      /\ permits' = config.probe.concurrency
      /\ UNCHANGED <<config, excluded, sent>>
  BY DEF Launch
<1>2. Endpoints' = Endpoints /\ Task' = Task
  BY <1>1, EndpointsStay DEF Task
<1>3. Probed' = Endpoints
  BY <1>1, <1>2 DEF Probed
<1>4. config.probe.concurrency \in Nat /\ config.probe.samples \in Nat
  BY Settings
<1>5. Unprobed \in Task
  <2>1. [Unprobed EXCEPT !.pc = "waiting"] \in Task
    BY UntimedTask DEF Outcomes
  <2>2. [Unprobed EXCEPT !.pc = "waiting"] = Unprobed
    BY DEF Unprobed
  <2>3. QED
    BY <2>1, <2>2
<1>6. task' \in [Probed' -> Task']
  BY <1>1, <1>2, <1>3, <1>5
<1>7. permits' \in 0..config.probe.concurrency
  <2>1. permits' = config.probe.concurrency
    BY <1>1
  <2>2. QED
    BY <1>4, <2>1
<1>8. TypeOK'
  BY <1>1, <1>6, <1>7 DEF TypeOK
<1>9. Underway' = {}
  BY <1>1 DEF Underway, Running, Unprobed
<1>10. permits' + Cardinality(Underway') = config.probe.concurrency
  <2>1. permits' = config.probe.concurrency /\ Cardinality(Underway') = 0
    BY <1>1, <1>9, FS_EmptySet
  <2>2. QED
    BY <1>4, <2>1
<1>11. FileValid' /\ PermitsCounted'
  BY <1>1, <1>10 DEF FileValid, PermitsCounted, Valid
<1>12. HasSamplesLeft' /\ TimedThroughout' /\ FreshTasks'
  BY <1>1 DEF HasSamplesLeft, TimedThroughout, FreshTasks, Running, Unprobed, IsUsable
<1>13. SentContained'
  BY <1>1, <1>2 DEF SentContained
<1>14. QED
  BY <1>8, <1>11, <1>12, <1>13

\* A step that leaves the probes as they are, once they have been spawned.
LEMMA RestInv ==
    ASSUME Inv, UNCHANGED <<config, excluded, task, permits, sent>>,
           \/ UNCHANGED phase
           \/ phase = "probing" /\ phase' \in {"all unreachable", "ranked"}
    PROVE  Inv'
<1> USE DEF Inv
<1>1. Endpoints' = Endpoints /\ Task' = Task
  BY EndpointsStay DEF Task
<1>2. Probed' = Probed
  BY <1>1 DEF Probed
<1>3. TypeOK'
  BY <1>1, <1>2 DEF TypeOK
<1>4. FileValid'
  BY DEF FileValid, Valid
<1>5. Underway' = Underway
  BY DEF Underway, Running
<1>6. PermitsCounted'
  BY <1>5 DEF PermitsCounted
<1>7. HasSamplesLeft' /\ TimedThroughout' /\ FreshTasks'
  BY DEF HasSamplesLeft, TimedThroughout, FreshTasks, Running
<1>8. SentContained'
  BY <1>1 DEF SentContained
<1>9. QED
  BY <1>3, <1>4, <1>6, <1>7, <1>8

-----------------------------------------------------------------------------

\* Every step of a sweep keeps the invariant.
THEOREM Invariance == Spec => []Inv
<1>1. Inv /\ [Next]_vars => Inv'
  <2> SUFFICES ASSUME Inv, [Next]_vars PROVE Inv'
    OBVIOUS
  <2>1. CASE Load \/ ListFails
    BY <2>1, LoadInv
  <2>2. CASE Launch
    BY <2>2, LaunchInv
  <2>3. ASSUME NEW e \in DOMAIN task, ProbeStep(e) PROVE Inv'
    <3>1. CASE Acquire(e)
      BY <3>1, AcquireInv
    <3>2. CASE Send(e)
      BY <3>2, SendInv
    <3>3. CASE SendFails(e)
      BY <3>3, FailureInv DEF SendFails
    <3>4. CASE Answer(e)
      BY <3>4, AnswerInv
    <3>5. CASE NoAnswer(e)
      BY <3>5, FailureInv DEF NoAnswer
    <3>6. CASE Panic(e)
      BY <3>6, PanicInv
    <3>7. QED
      BY <2>3, <3>1, <3>2, <3>3, <3>4, <3>5, <3>6 DEF ProbeStep
  <2>4. CASE Collect
    <3>1. /\ UNCHANGED <<config, excluded, task, permits, sent>>
          /\ phase = "probing" /\ phase' \in {"all unreachable", "ranked"}
      BY <2>4 DEF Collect
    <3>2. QED
      BY <3>1, RestInv
  <2>5. CASE UNCHANGED vars
    BY <2>5, RestInv
  <2>6. QED
    BY <2>1, <2>2, <2>3, <2>4, <2>5 DEF Next
<1>2. QED
  BY <1>1, InvInit, PTL DEF Spec

\* For any fleet and any file no probe takes more samples than asked for, no
\* permit is lost and none is made up.
THEOREM TypeCorrect == Spec => []TypeOK
<1>1. Inv => TypeOK
  BY DEF Inv
<1>2. QED
  BY <1>1, Invariance, PTL

\* For any fleet and any file the semaphore bounds the handshakes under way,
\* and the live endpoint and servers that are filtered out get none.
THEOREM Contained == Spec => []HandshakesContained
<1>1. Inv => HandshakesContained
  <2> SUFFICES ASSUME Inv PROVE HandshakesContained
    OBVIOUS
  <2>1. sent \subseteq Endpoints \ {excluded}
    BY DEF Inv, SentContained
  <2>2. config.probe.concurrency \in Nat /\ Cardinality(Underway) \in Nat
    BY Settings, UnderwayFinite DEF Inv
  <2>3. CASE phase \in {"load", "refused", "filter", "no list"}
    <3>1. Underway = {}
      BY <2>3 DEF Inv, TypeOK, Probed, Underway
    <3>2. QED
      BY <2>1, <2>2, <3>1, FS_EmptySet DEF HandshakesContained
  <2>4. CASE phase \notin {"load", "refused", "filter", "no list"}
    <3>1. permits + Cardinality(Underway) = config.probe.concurrency
      BY <2>4 DEF Inv, PermitsCounted
    <3>2. permits \in 0..config.probe.concurrency
      BY DEF Inv, TypeOK
    <3>3. QED
      BY <2>1, <2>2, <3>1, <3>2 DEF HandshakesContained
  <2>5. QED
    BY <2>3, <2>4
<1>2. QED
  BY <1>1, Invariance, PTL

\* For any number of samples, and whatever order answers and failures come in,
\* a probe counts exactly when it has a timing.
THEOREM TimedIffUsable == Spec => []UsableIffTimed
<1>1. Inv => UsableIffTimed
  BY DEF Inv, TimedThroughout, UsableIffTimed
<1>2. QED
  BY <1>1, Invariance, PTL

-----------------------------------------------------------------------------
(* Orders on finite sets.  An order is a set of pairs.                     *)

\* R is a strict total order on S when the three hold.
Transitive(R, S) ==
    \A x, y, z \in S : <<x, y>> \in R /\ <<y, z>> \in R => <<x, z>> \in R

Irreflexive(R, S) == \A x \in S : <<x, x>> \notin R

Total(R, S) == \A x, y \in S : x = y \/ <<x, y>> \in R \/ <<y, x>> \in R

\* q lists S in the order of R.
Enumerates(q, S, R) ==
    /\ q \in [1..Cardinality(S) -> S]
    /\ \A i, j \in 1..Cardinality(S) : i < j => <<q[i], q[j]>> \in R

\* A finite set that is not empty has a first member.
LEMMA First ==
    ASSUME NEW S, IsFiniteSet(S), S # {},
           NEW R, Transitive(R, S), Irreflexive(R, S)
    PROVE  \E x \in S : \A y \in S : <<y, x>> \notin R
<1> DEFINE Below(x) == {y \in S : <<y, x>> \in R}
           F == {Below(x) : x \in S}
<1>1. F \subseteq FiniteSubsetsOf(S)
  <2>1. \A x \in S : IsFiniteSet(Below(x))
    BY FS_Subset
  <2>2. QED
    BY <2>1 DEF FiniteSubsetsOf
<1>2. F # {}
  OBVIOUS
<1>3. PICK b \in F : \A c \in F : ~(<<c, b>> \in StrictSubsetOrdering(S))
  <2> HIDE DEF F
  <2> QED
    BY <1>1, <1>2, FS_StrictSubsetOrderingWellFounded, WFMin
<1>4. PICK x \in S : b = Below(x)
  BY <1>3
<1>5. ASSUME NEW y \in S, <<y, x>> \in R PROVE FALSE
  <2>1. Below(y) \subseteq b
    BY <1>4, <1>5 DEF Transitive
  <2>2. y \in b /\ y \notin Below(y)
    BY <1>4, <1>5 DEF Irreflexive
  <2>3. <<Below(y), b>> \in StrictSubsetOrdering(S)
    BY <1>4, <2>1, <2>2 DEF StrictSubsetOrdering
  <2>4. QED
    BY <1>3, <2>3
<1>6. QED
  BY <1>5

\* Adding a first member to an enumeration.
LEMMA Prepended ==
    ASSUME NEW T, IsFiniteSet(T), NEW R, NEW x \in T,
           \A y \in T \ {x} : <<x, y>> \in R,
           NEW p, Enumerates(p, T \ {x}, R)
    PROVE  \E q : Enumerates(q, T, R)
<1> DEFINE n == Cardinality(T)
           q == [i \in 1..n |-> IF i = 1 THEN x ELSE p[i - 1]]
<1>1. n \in Nat /\ Cardinality(T \ {x}) = n - 1
  BY FS_RemoveElement, FS_CardinalityType
<1>2. p \in [1..(n - 1) -> T \ {x}]
      /\ \A i, j \in 1..(n - 1) : i < j => <<p[i], p[j]>> \in R
  BY <1>1 DEF Enumerates
<1>3. \A i \in 1..n : i # 1 => i - 1 \in 1..(n - 1)
  BY <1>1
<1> HIDE DEF n
<1>4. q \in [1..n -> T]
  BY <1>2, <1>3
<1>5. ASSUME NEW i \in 1..n, NEW j \in 1..n, i < j PROVE <<q[i], q[j]>> \in R
  <2>1. j # 1 /\ j - 1 \in 1..(n - 1) /\ q[j] = p[j - 1] /\ p[j - 1] \in T \ {x}
    BY <1>1, <1>2, <1>3, <1>5
  <2>2. CASE i = 1
    BY <2>1, <2>2
  <2>3. CASE i # 1
    <3>1. i - 1 \in 1..(n - 1) /\ i - 1 < j - 1 /\ q[i] = p[i - 1]
      BY <1>1, <1>3, <1>5, <2>3
    <3>2. QED
      BY <1>2, <2>1, <3>1
  <2>4. QED
    BY <2>2, <2>3
<1>6. Enumerates(q, T, R)
  BY <1>4, <1>5 DEF Enumerates, n
<1>7. QED
  BY <1>6

\* A finite set can be enumerated in the order of any strict total order.
LEMMA Sorted ==
    ASSUME NEW S, IsFiniteSet(S), NEW R,
           Transitive(R, S), Irreflexive(R, S), Total(R, S)
    PROVE  \E q : Enumerates(q, S, R)
<1> DEFINE Bad == {T \in SUBSET S : ~(\E q : Enumerates(q, T, R))}
<1>1. SUFFICES ASSUME Bad # {} PROVE FALSE
  OBVIOUS
<1>2. Bad \subseteq FiniteSubsetsOf(S)
  BY FS_Subset DEF FiniteSubsetsOf
<1>3. PICK T \in Bad : \A U \in Bad : ~(<<U, T>> \in StrictSubsetOrdering(S))
  <2> HIDE DEF Bad
  <2> QED
    BY <1>1, <1>2, FS_StrictSubsetOrderingWellFounded, WFMin
<1>4. T \subseteq S /\ IsFiniteSet(T) /\ ~(\E q : Enumerates(q, T, R))
  BY <1>3, FS_Subset
<1>5. T # {}
  <2>1. ASSUME T = {} PROVE FALSE
    <3>1. Cardinality(T) = 0
      BY <2>1, FS_EmptySet
    <3>2. 1..Cardinality(T) = {}
      BY <3>1
    <3>3. [i \in {} |-> i] \in [1..Cardinality(T) -> T]
      BY <3>2
    <3>4. Enumerates([i \in {} |-> i], T, R)
      BY <3>2, <3>3 DEF Enumerates
    <3>5. QED
      BY <1>4, <3>4
  <2>2. QED
    BY <2>1
<1>6. PICK x \in T : \A y \in T : <<y, x>> \notin R
  <2>1. Transitive(R, T) /\ Irreflexive(R, T)
    BY <1>4 DEF Transitive, Irreflexive
  <2>2. QED
    BY <1>4, <1>5, <2>1, First
<1>7. \A y \in T \ {x} : <<x, y>> \in R
  BY <1>4, <1>6 DEF Total
<1>8. T \ {x} \notin Bad
  <2>1. <<T \ {x}, T>> \in StrictSubsetOrdering(S)
    BY <1>4, <1>6 DEF StrictSubsetOrdering
  <2>2. QED
    BY <1>3, <2>1
<1>9. PICK p : Enumerates(p, T \ {x}, R)
  BY <1>4, <1>8
<1>10. QED
  BY <1>4, <1>6, <1>7, <1>9, Prepended

\* Such an enumeration has every member, and each once.
LEMMA Complete ==
    ASSUME NEW S, IsFiniteSet(S), NEW R, Irreflexive(R, S),
           NEW q, Enumerates(q, S, R)
    PROVE  /\ \A x \in S : \E i \in 1..Cardinality(S) : q[i] = x
           /\ \A i, j \in 1..Cardinality(S) : i < j => q[i] # q[j]
<1> DEFINE n == Cardinality(S)
<1>1. n \in Nat
  BY FS_CardinalityType
<1> HIDE DEF n
<1>2. q \in [1..n -> S] /\ \A i, j \in 1..n : i < j => <<q[i], q[j]>> \in R
  BY DEF Enumerates, n
<1>3. \A i, j \in 1..n : i < j => q[i] # q[j]
  BY <1>2 DEF Irreflexive
<1>4. q \in Injection(1..n, S)
  <2>1. \A i, j \in 1..n : q[i] = q[j] => i = j
    BY <1>1, <1>3
  <2>2. QED
    BY <1>2, <2>1 DEF Injection, IsInjective
<1>5. Cardinality(1..n) = n
  BY <1>1, FS_Interval
<1>6. q \in Surjection(1..n, S)
  BY <1>4, <1>5, FS_Injection DEF n
<1>7. QED
  BY <1>3, <1>6 DEF Surjection, n

\* A finite, non-empty set has a member of least value, and one of greatest.
LEMMA Extremes ==
    ASSUME NEW S, IsFiniteSet(S), S # {}, NEW f \in [S -> Nat]
    PROVE  /\ \E x \in S : \A y \in S : f[x] <= f[y]
           /\ \E x \in S : \A y \in S : f[y] <= f[x]
<1> DEFINE Up == {e \in S \X S : f[e[1]] < f[e[2]]}
           Down == {e \in S \X S : f[e[1]] > f[e[2]]}
<1>1. \A x, y \in S : /\ <<x, y>> \in Up <=> f[x] < f[y]
                      /\ <<x, y>> \in Down <=> f[x] > f[y]
  OBVIOUS
<1>2. \A x \in S : f[x] \in Nat
  OBVIOUS
<1> HIDE DEF Up, Down
<1>3. /\ Transitive(Up, S) /\ Irreflexive(Up, S)
      /\ Transitive(Down, S) /\ Irreflexive(Down, S)
  BY <1>1, <1>2 DEF Transitive, Irreflexive
<1>4. \E x \in S : \A y \in S : <<y, x>> \notin Up
  BY <1>3, First
<1>5. \E x \in S : \A y \in S : <<y, x>> \notin Down
  BY <1>3, First
<1>6. \E x \in S : \A y \in S : f[x] <= f[y]
  <2>1. PICK x \in S : \A y \in S : <<y, x>> \notin Up
    BY <1>4
  <2>2. ASSUME NEW y \in S PROVE f[x] <= f[y]
    <3>1. ~(f[y] < f[x])
      BY <1>1, <2>1
    <3>2. f[x] \in Nat /\ f[y] \in Nat
      BY <1>2
    <3>3. QED
      BY <3>1, <3>2
  <2>3. QED
    BY <2>2
<1>7. \E x \in S : \A y \in S : f[y] <= f[x]
  <2>1. PICK x \in S : \A y \in S : <<y, x>> \notin Down
    BY <1>5
  <2>2. ASSUME NEW y \in S PROVE f[y] <= f[x]
    <3>1. ~(f[y] > f[x])
      BY <1>1, <2>1
    <3>2. f[x] \in Nat /\ f[y] \in Nat
      BY <1>2
    <3>3. QED
      BY <3>1, <3>2
  <2>3. QED
    BY <2>2
<1>8. QED
  BY <1>6, <1>7

-----------------------------------------------------------------------------
(* What the samples amount to                                              *)

\* The lower middle of the samples exists, so the median is one of them.
LEMMA MedianTaken ==
    ASSUME NEW s \in Seq(Rtts), s # <<>>
    PROVE  \E n \in DOMAIN s : Median(s) = s[n]
<1> DEFINE mid == (Len(s) - 1) \div 2
           Upto(m) == {i \in DOMAIN s : s[i] <= m}
           Below(m) == {i \in DOMAIN s : s[i] < m}
           High == {i \in DOMAIN s : Cardinality(Upto(s[i])) > mid}
<1>1. /\ Len(s) \in Nat /\ Len(s) # 0 /\ DOMAIN s = 1..Len(s)
      /\ \A i \in DOMAIN s : s[i] \in Nat
  <2>1. Len(s) \in Nat /\ DOMAIN s = 1..Len(s)
    BY LenProperties
  <2>2. Len(s) # 0
    BY EmptySeq
  <2>3. \A i \in DOMAIN s : s[i] \in Rtts
    BY <2>1, ElementOfSeq
  <2>4. QED
    BY <2>1, <2>2, <2>3, SweepConstants
<1>2. mid \in Nat /\ mid < Len(s)
  BY <1>1
<1>3. IsFiniteSet(DOMAIN s) /\ Cardinality(DOMAIN s) = Len(s) /\ DOMAIN s # {}
  <2>1. IsFiniteSet(1..Len(s)) /\ Cardinality(1..Len(s)) = Len(s)
    BY <1>1, FS_Interval
  <2>2. 1 \in DOMAIN s
    BY <1>1
  <2>3. QED
    BY <1>1, <2>1, <2>2
<1>4. /\ \A T \in SUBSET DOMAIN s : IsFiniteSet(T) /\ Cardinality(T) \in Nat
      /\ \A T \in SUBSET DOMAIN s : T # {} =>
           /\ \E x \in T : \A y \in T : s[x] <= s[y]
           /\ \E x \in T : \A y \in T : s[y] <= s[x]
  <2> SUFFICES ASSUME NEW T \in SUBSET DOMAIN s
               PROVE  /\ IsFiniteSet(T) /\ Cardinality(T) \in Nat
                      /\ T # {} => /\ \E x \in T : \A y \in T : s[x] <= s[y]
                                   /\ \E x \in T : \A y \in T : s[y] <= s[x]
    OBVIOUS
  <2>1. IsFiniteSet(T) /\ Cardinality(T) \in Nat
    BY <1>3, FS_Subset, FS_CardinalityType
  <2> DEFINE g == [i \in T |-> s[i]]
  <2>2. g \in [T -> Nat] /\ \A i \in T : g[i] = s[i]
    BY <1>1
  <2> HIDE DEF g
  <2>3. T # {} => /\ \E x \in T : \A y \in T : g[x] <= g[y]
                  /\ \E x \in T : \A y \in T : g[y] <= g[x]
    BY <2>1, <2>2, Extremes
  <2>4. QED
    BY <2>1, <2>2, <2>3
<1> HIDE DEF mid
<1>5. High # {}
  <2>1. PICK x \in DOMAIN s : \A y \in DOMAIN s : s[y] <= s[x]
    BY <1>3, <1>4
  <2>2. Upto(s[x]) = DOMAIN s
    BY <2>1
  <2>3. Cardinality(Upto(s[x])) > mid
    <3> HIDE DEF Upto
    <3> QED
      BY <1>1, <1>2, <1>3, <2>2
  <2>4. QED
    BY <2>3
<1>6. PICK x \in High : \A y \in High : s[x] <= s[y]
  BY <1>4, <1>5
<1>7. Cardinality(Below(s[x])) <= mid
  <2>1. CASE Below(s[x]) = {}
    <3> HIDE DEF Below
    <3> QED
      BY <1>2, <2>1, FS_EmptySet
  <2>2. CASE Below(s[x]) # {}
    <3>1. PICK y \in Below(s[x]) : \A z \in Below(s[x]) : s[z] <= s[y]
      BY <1>4, <2>2
    <3>2. y \in DOMAIN s /\ s[y] < s[x]
      BY <3>1
    <3>3. y \notin High
      BY <1>1, <1>6, <3>2
    <3>4. Below(s[x]) = Upto(s[y])
      BY <1>1, <1>6, <3>1, <3>2
    <3>5. Cardinality(Upto(s[y])) \in Nat
      BY <1>4
    <3>6. ~(Cardinality(Upto(s[y])) > mid)
      BY <3>2, <3>3
    <3> HIDE DEF Upto, Below
    <3>7. QED
      BY <1>2, <3>4, <3>5, <3>6
  <2>3. QED
    BY <2>1, <2>2
<1>8. \E m \in {s[i] : i \in DOMAIN s} :
        Cardinality(Below(m)) <= mid /\ Cardinality(Upto(m)) > mid
  BY <1>6, <1>7
<1>9. Median(s) = CHOOSE m \in {s[i] : i \in DOMAIN s} :
                    Cardinality(Below(m)) <= mid /\ Cardinality(Upto(m)) > mid
  BY DEF Median, mid
<1> HIDE DEF Upto, Below
<1>10. Median(s) \in {s[i] : i \in DOMAIN s}
  BY <1>8, <1>9
<1>11. QED
  BY <1>10

\* A probe is usable exactly when it has samples, and its time is one of them.
LEMMA UsableTimed ==
    ASSUME TypeOK, TimedThroughout
    PROVE  /\ Usable = {e \in DOMAIN task : task[e].samples # <<>>}
           /\ IsFiniteSet(Usable) /\ Usable \subseteq Listed
           /\ \A e \in Usable : e[1] \in Servers /\ e[2] \in Nat
           /\ \A e \in Usable : /\ Rtt(e) \in Rtts /\ Rtt(e) \in Nat
                                /\ \E n \in DOMAIN task[e].samples :
                                     Rtt(e) = task[e].samples[n]
<1>1. /\ DOMAIN task \subseteq Endpoints
      /\ \A e \in DOMAIN task : task[e].samples \in Seq(Rtts)
  BY DEF TypeOK, Probed, Task
<1>2. ASSUME NEW e \in DOMAIN task, task[e].samples # <<>>
      PROVE  /\ Rtt(e) \in Rtts /\ Rtt(e) \in Nat /\ Rtt(e) # None
             /\ \E n \in DOMAIN task[e].samples : Rtt(e) = task[e].samples[n]
  <2>1. PICK n \in DOMAIN task[e].samples : Median(task[e].samples) = task[e].samples[n]
    BY <1>1, <1>2, MedianTaken
  <2>2. n \in 1..Len(task[e].samples)
    BY <1>1, <2>1, LenProperties
  <2>3. task[e].samples[n] \in Rtts
    BY <1>1, <2>2, ElementOfSeq
  <2>4. QED
    BY <2>1, <2>3, SweepConstants DEF Rtt
<1>3. Usable = {e \in DOMAIN task : task[e].samples # <<>>}
  BY <1>2 DEF Usable, TimedThroughout
<1>4. Usable \subseteq Endpoints /\ Usable \subseteq Listed
  BY <1>1, <1>3 DEF Endpoints
<1>5. IsFiniteSet(Usable)
  BY <1>4, FiniteEndpoints, FS_Subset
<1>6. \A e \in Usable : e[1] \in Servers /\ e[2] \in Nat
  BY <1>4, SweepConstants
<1>7. QED
  BY <1>2, <1>3, <1>4, <1>5, <1>6

\* A server that answered has a fastest entry.
LEMMA FastestExists ==
    ASSUME TypeOK, TimedThroughout, NEW u \in Usable
    PROVE  /\ Fastest(u[1]) \in Usable /\ Fastest(u[1])[1] = u[1]
           /\ \A f \in Usable : f[1] = u[1] => Rtt(Fastest(u[1])) <= Rtt(f)
<1> DEFINE s == u[1]
           S == {e \in Usable : e[1] = s}
           Quicker(e, f) == Rtt(e) < Rtt(f) \/ (Rtt(e) = Rtt(f) /\ e[2] < f[2])
           R == {p \in S \X S : Quicker(p[1], p[2])}
<1>1. /\ IsFiniteSet(Usable)
      /\ \A e \in Usable : e[2] \in Nat /\ Rtt(e) \in Nat
  BY UsableTimed
<1>2. IsFiniteSet(S) /\ S # {}
  BY <1>1, FS_Subset
<1>3. \A e, f \in S : <<e, f>> \in R <=> Quicker(e, f)
  OBVIOUS
<1>4. \A e \in S : e \in Usable /\ e[2] \in Nat /\ Rtt(e) \in Nat
  BY <1>1
<1> HIDE DEF S, R
<1>5. Transitive(R, S) /\ Irreflexive(R, S)
  BY <1>3, <1>4 DEF Transitive, Irreflexive
<1>6. PICK e \in S : \A f \in S : <<f, e>> \notin R
  BY <1>2, <1>5, First
<1>7. \A f \in S : Rtt(e) < Rtt(f) \/ (Rtt(e) = Rtt(f) /\ e[2] <= f[2])
  <2> SUFFICES ASSUME NEW f \in S
               PROVE  Rtt(e) < Rtt(f) \/ (Rtt(e) = Rtt(f) /\ e[2] <= f[2])
    OBVIOUS
  <2>1. ~Quicker(f, e)
    BY <1>3, <1>6
  <2>2. QED
    BY <1>4, <2>1
<1> DEFINE P(x) == /\ x[1] = s
                   /\ \A f \in Usable : f[1] = s =>
                        Rtt(x) < Rtt(f) \/ (Rtt(x) = Rtt(f) /\ x[2] <= f[2])
<1>8. e \in Usable /\ P(e)
  BY <1>4, <1>6, <1>7 DEF S
<1>9. Fastest(s) = CHOOSE x \in Usable : P(x)
  BY DEF Fastest
<1> HIDE DEF P
<1>10. Fastest(s) \in Usable /\ P(Fastest(s))
  BY <1>8, <1>9
<1>11. QED
  BY <1>1, <1>10 DEF P

\* What is measured of each server, once.
LEMMA MeasuredTyped ==
    ASSUME TypeOK, TimedThroughout
    PROVE  /\ IsFiniteSet(Measured) /\ Measured \subseteq Candidate
           /\ \A m \in Measured :
                /\ m.endpoint \in Usable /\ m.endpoint[1] = m.server
                /\ m.rtt = Rtt(m.endpoint)
                /\ \A f \in Usable : f[1] = m.server => m.rtt <= Rtt(f)
           /\ \A l, m \in Measured : l.server = m.server => l = m
           /\ {m.server : m \in Measured} = {e[1] : e \in Usable}
<1> DEFINE S == {e[1] : e \in Usable}
           M(s) == [server |-> s, endpoint |-> Fastest(s), rtt |-> Rtt(Fastest(s))]
<1>1. /\ Usable \subseteq Listed
      /\ \A e \in Usable : e[1] \in Servers /\ Rtt(e) \in Rtts
  BY UsableTimed
<1>2. ASSUME NEW s \in S
      PROVE  /\ Fastest(s) \in Usable /\ Fastest(s)[1] = s
             /\ \A f \in Usable : f[1] = s => Rtt(Fastest(s)) <= Rtt(f)
  <2>1. PICK u \in Usable : s = u[1]
    OBVIOUS
  <2>2. QED
    BY <2>1, FastestExists
<1>3. S \subseteq Servers
  BY <1>1
<1> HIDE DEF S
<1>4. Measured = {M(s) : s \in S}
  BY DEF Measured, S
<1>5. \A s \in S : /\ M(s) \in Candidate /\ M(s).server = s
                   /\ M(s).endpoint = Fastest(s) /\ M(s).rtt = Rtt(Fastest(s))
  BY <1>1, <1>2, <1>3 DEF Candidate
<1> HIDE DEF M
<1>6. IsFiniteSet(Measured)
  <2> DEFINE g == [s \in S |-> M(s)]
  <2>1. IsFiniteSet(S)
    BY <1>3, SweepConstants, FS_Subset
  <2>2. g \in Surjection(S, Measured)
    BY <1>4 DEF Surjection
  <2>3. QED
    BY <2>1, <2>2, FS_Surjection
<1>7. \A m \in Measured : \E s \in S : m = M(s)
  BY <1>4
<1>8. ASSUME NEW m \in Measured
      PROVE  /\ m \in Candidate
             /\ m.endpoint \in Usable /\ m.endpoint[1] = m.server
             /\ m.rtt = Rtt(m.endpoint)
             /\ \A f \in Usable : f[1] = m.server => m.rtt <= Rtt(f)
  <2>1. PICK s \in S : m = M(s)
    BY <1>7
  <2>2. m.server = s /\ m.endpoint = Fastest(s) /\ m.rtt = Rtt(Fastest(s))
    BY <1>5, <2>1
  <2>3. QED
    BY <1>2, <1>5, <2>1, <2>2
<1>9. \A l, m \in Measured : l.server = m.server => l = m
  BY <1>5, <1>7
<1>10. {m.server : m \in Measured} = S
  BY <1>4, <1>5
<1>11. QED
  BY <1>6, <1>8, <1>9, <1>10 DEF S

-----------------------------------------------------------------------------
(* The ranking                                                             *)

\* A weight that is not negative keeps the direction of a score.
LEMMA Weighted ==
    ASSUME NEW w \in Nat, NEW x \in Nat, NEW y \in Nat
    PROVE  w * x \in Nat /\ (x >= y => w * x >= w * y)
  OBVIOUS

\* A server that is worse in no signal has no lower score.
LEMMA ScoreDirected ==
    ASSUME TypeOK, WeightsValid(config.autotune.weights), NEW fastest \in Rtts
    PROVE  /\ \A a \in Candidate : Score(a, fastest) \in Nat
           /\ \A a, b \in Candidate :
                Dominates(a, b) => Score(a, fastest) >= Score(b, fastest)
<1> DEFINE w == config.autotune.weights
           r(a) == RttScore[<<a.rtt, fastest>>]
           l(a) == LoadScore[LoadOf[a.server]]
           h(a) == HeadroomScore[Headroom[a.server]]
<1>1. w.rtt \in Nat /\ w.load \in Nat /\ w.headroom \in Nat
  <2>1. w \in Weights
    BY SweepConstants DEF TypeOK, Configs, Autotune
  <2>2. QED
    BY <2>1 DEF Weights, WeightsValid
<1>2. \A a \in Candidate :
        /\ a.rtt \in Rtts /\ LoadOf[a.server] \in Loads
        /\ Headroom[a.server] \in Headrooms
  BY DEF Candidate, Loads, Headrooms
<1>3. \A a \in Candidate : r(a) \in Nat /\ l(a) \in Nat /\ h(a) \in Nat
  BY <1>2, ScoreConstants
<1>4. \A a, b \in Candidate :
        Dominates(a, b) => r(a) >= r(b) /\ l(a) >= l(b) /\ h(a) >= h(b)
  BY <1>2, ScoreConstants DEF Dominates
<1>5. \A a : Score(a, fastest) = w.rtt * r(a) + w.load * l(a) + w.headroom * h(a)
  BY DEF Score
<1> HIDE DEF w, r, l, h
<1>6. \A a \in Candidate : /\ w.rtt * r(a) \in Nat /\ w.load * l(a) \in Nat
                           /\ w.headroom * h(a) \in Nat
  BY <1>1, <1>3, Weighted
<1>7. \A a \in Candidate : Score(a, fastest) \in Nat
  BY <1>5, <1>6
<1>8. ASSUME NEW a \in Candidate, NEW b \in Candidate, Dominates(a, b)
      PROVE  Score(a, fastest) >= Score(b, fastest)
  <2>1. /\ w.rtt * r(a) >= w.rtt * r(b)
        /\ w.load * l(a) >= w.load * l(b)
        /\ w.headroom * h(a) >= w.headroom * h(b)
    BY <1>1, <1>3, <1>4, <1>8, Weighted
  <2> DEFINE ra == w.rtt * r(a)  rb == w.rtt * r(b)
             la == w.load * l(a)  lb == w.load * l(b)
             ha == w.headroom * h(a)  hb == w.headroom * h(b)
  <2>2. /\ ra \in Nat /\ rb \in Nat /\ la \in Nat /\ lb \in Nat
        /\ ha \in Nat /\ hb \in Nat
    BY <1>6
  <2>3. Score(a, fastest) = ra + la + ha /\ Score(b, fastest) = rb + lb + hb
    BY <1>5
  <2>4. ra >= rb /\ la >= lb /\ ha >= hb
    BY <2>1
  <2> HIDE DEF ra, rb, la, lb, ha, hb
  <2>5. QED
    BY <2>2, <2>3, <2>4
<1>9. QED
  BY <1>7, <1>8

\* The comparison puts what is measured into a strict total order.
LEMMA PrecedesOrders ==
    ASSUME TypeOK, TimedThroughout, WeightsValid(config.autotune.weights),
           NEW fastest \in Rtts, NEW R,
           \A a, b \in Measured : <<a, b>> \in R <=> Precedes(a, b, fastest)
    PROVE  Transitive(R, Measured) /\ Irreflexive(R, Measured) /\ Total(R, Measured)
<1>1. \A a \in Measured : /\ a.rtt \in Nat /\ a.server \in Nat
                          /\ Score(a, fastest) \in Nat
  <2>1. \A a \in Candidate : /\ a.rtt \in Nat /\ a.server \in Nat
                             /\ Score(a, fastest) \in Nat
    BY ScoreDirected, SweepConstants DEF Candidate
  <2>2. QED
    BY <2>1, MeasuredTyped
<1>2. \A a, b \in Measured : a # b => a.server # b.server
  BY MeasuredTyped
<1>3. Transitive(R, Measured)
  BY <1>1 DEF Transitive, Precedes
<1>4. Irreflexive(R, Measured)
  BY <1>1 DEF Irreflexive, Precedes
<1>5. Total(R, Measured)
  <2> SUFFICES ASSUME NEW a \in Measured, NEW b \in Measured, a # b
               PROVE  <<a, b>> \in R \/ <<b, a>> \in R
    BY DEF Total
  <2>1. /\ a.rtt \in Nat /\ a.server \in Nat /\ Score(a, fastest) \in Nat
        /\ b.rtt \in Nat /\ b.server \in Nat /\ Score(b, fastest) \in Nat
        /\ a.server # b.server
    BY <1>1, <1>2
  <2>2. Precedes(a, b, fastest) \/ Precedes(b, a, fastest)
    BY <2>1 DEF Precedes
  <2>3. QED
    BY <2>2
<1>6. QED
  BY <1>3, <1>4, <1>5

\* The time that the latency scores are relative to was measured.
LEMMA FastestMeasured ==
    ASSUME TypeOK, TimedThroughout, Measured # {}
    PROVE  FastestOf(Measured) \in Rtts
<1> DEFINE f == [m \in Measured |-> m.rtt]
<1>1. IsFiniteSet(Measured) /\ Measured \subseteq Candidate
  BY MeasuredTyped
<1>2. \A m \in Measured : m.rtt \in Rtts /\ m.rtt \in Nat
  BY <1>1, SweepConstants DEF Candidate
<1>3. f \in [Measured -> Nat] /\ \A m \in Measured : f[m] = m.rtt
  BY <1>2
<1> HIDE DEF f
<1>4. PICK l \in Measured : \A m \in Measured : f[l] <= f[m]
  BY <1>1, <1>3, Extremes
<1>5. \E x \in {m.rtt : m \in Measured} : \A m \in Measured : x <= m.rtt
  BY <1>3, <1>4
<1>6. FastestOf(Measured) \in {m.rtt : m \in Measured}
  BY <1>5 DEF FastestOf
<1>7. QED
  BY <1>2, <1>6

\* So rank returns all that was measured, each once and in that order.
LEMMA RankedSorted ==
    ASSUME TypeOK, TimedThroughout, WeightsValid(config.autotune.weights),
           Measured # {}
    PROVE  LET q == Ranked(Measured)
               n == Cardinality(Measured)
           IN  /\ n \in Nat /\ DOMAIN q = 1..n
               /\ \A i \in DOMAIN q : q[i] \in Measured
               /\ \A m \in Measured : \E i \in DOMAIN q : q[i] = m
               /\ \A i, j \in DOMAIN q : i < j =>
                    /\ q[i] # q[j]
                    /\ Precedes(q[i], q[j], FastestOf(Measured))
<1> DEFINE q == Ranked(Measured)
           n == Cardinality(Measured)
           fastest == FastestOf(Measured)
           R == {p \in Measured \X Measured : Precedes(p[1], p[2], fastest)}
<1>1. IsFiniteSet(Measured) /\ Measured \subseteq Candidate
  BY MeasuredTyped
<1>2. n \in Nat
  BY <1>1, FS_CardinalityType
<1>3. fastest \in Rtts
  BY FastestMeasured
<1>4. \A a, b \in Measured : <<a, b>> \in R <=> Precedes(a, b, fastest)
  OBVIOUS
<1> HIDE DEF R, fastest
<1>5. Transitive(R, Measured) /\ Irreflexive(R, Measured) /\ Total(R, Measured)
  BY <1>3, <1>4, PrecedesOrders
<1>6. PICK p : Enumerates(p, Measured, R)
  BY <1>1, <1>5, Sorted
<1> DEFINE P(x) == \A i, j \in 1..n : i < j => Precedes(x[i], x[j], fastest)
<1>7. p \in [1..n -> Measured] /\ P(p)
  BY <1>4, <1>6 DEF Enumerates
<1>8. q = CHOOSE x \in [1..n -> Measured] : P(x)
  BY DEF Ranked, fastest
<1> HIDE DEF P, q
<1>9. q \in [1..n -> Measured] /\ P(q)
  BY <1>7, <1>8
<1>10. Enumerates(q, Measured, R)
  BY <1>4, <1>9 DEF Enumerates, P
<1>11. /\ \A x \in Measured : \E i \in 1..n : q[i] = x
       /\ \A i, j \in 1..n : i < j => q[i] # q[j]
  BY <1>1, <1>5, <1>10, Complete
<1>12. QED
  BY <1>2, <1>9, <1>11 DEF P, q, fastest

\* What a sweep collects is an honest ranking of what was probed.
LEMMA CollectHonest ==
    ASSUME TypeOK, TimedThroughout, Valid(config), Measured # {},
           ranking' = Ranked(Measured), UNCHANGED task
    PROVE  RankingHonest'
<1> DEFINE q == Ranked(Measured)
           fastest == FastestOf(Measured)
<1>1. WeightsValid(config.autotune.weights)
  BY DEF Valid
<1>2. /\ Cardinality(Measured) \in Nat /\ DOMAIN q = 1..Cardinality(Measured)
      /\ \A i \in DOMAIN q : q[i] \in Measured
      /\ \A m \in Measured : \E i \in DOMAIN q : q[i] = m
      /\ \A i, j \in DOMAIN q : i < j =>
           q[i] # q[j] /\ Precedes(q[i], q[j], fastest)
  BY <1>1, RankedSorted
<1>3. fastest \in Rtts
  BY <1>1, FastestMeasured
<1>4. ranking' = q /\ \A e : Rtt(e)' = Rtt(e)
  BY DEF Rtt
<1> HIDE DEF q, fastest
<1>5. /\ Usable = {e \in DOMAIN task : task[e].samples # <<>>}
      /\ \A e \in Usable : \E n \in DOMAIN task[e].samples :
                              Rtt(e) = task[e].samples[n]
  BY UsableTimed
<1>6. /\ Measured \subseteq Candidate
      /\ \A m \in Measured :
           /\ m.endpoint \in Usable /\ m.endpoint[1] = m.server
           /\ m.rtt = Rtt(m.endpoint)
           /\ \A f \in Usable : f[1] = m.server => m.rtt <= Rtt(f)
      /\ \A l, m \in Measured : l.server = m.server => l = m
      /\ {m.server : m \in Measured} = {e[1] : e \in Usable}
  BY MeasuredTyped
<1>7. {q[i].server : i \in DOMAIN q} =
        {e[1] : e \in {f \in DOMAIN task : task[f].samples # <<>>}}
  <2>1. {q[i].server : i \in DOMAIN q} = {m.server : m \in Measured}
    BY <1>2
  <2>2. QED
    BY <1>5, <1>6, <2>1
<1>8. \A i, j \in DOMAIN q : i < j => q[i].server # q[j].server
  BY <1>2, <1>6
<1>9. ASSUME NEW i \in DOMAIN q
      PROVE  /\ q[i].endpoint[1] = q[i].server
             /\ \A e \in DOMAIN task :
                  e[1] = q[i].server /\ task[e].samples # <<>> => q[i].rtt <= Rtt(e)
             /\ \E n \in DOMAIN task[q[i].endpoint].samples :
                  q[i].rtt = task[q[i].endpoint].samples[n]
  <2> DEFINE m == q[i]
  <2>1. m \in Measured
    BY <1>2
  <2> HIDE DEF m
  <2>2. /\ m.endpoint[1] = m.server
        /\ \A e \in DOMAIN task :
             e[1] = m.server /\ task[e].samples # <<>> => m.rtt <= Rtt(e)
        /\ \E n \in DOMAIN task[m.endpoint].samples :
             m.rtt = task[m.endpoint].samples[n]
    BY <1>5, <1>6, <2>1
  <2>3. QED
    BY <2>2 DEF m
<1>10. ASSUME NEW i \in DOMAIN q, NEW j \in DOMAIN q, i < j, Dominates(q[j], q[i])
       PROVE  q[i].rtt = q[j].rtt /\ q[i].server < q[j].server
  <2> DEFINE a == q[i]
             b == q[j]
  <2>1. a \in Candidate /\ b \in Candidate /\ Precedes(a, b, fastest)
    BY <1>2, <1>6, <1>10
  <2>2. /\ Score(a, fastest) \in Nat /\ Score(b, fastest) \in Nat
        /\ Score(b, fastest) >= Score(a, fastest)
    BY <1>1, <1>3, <1>10, <2>1, ScoreDirected
  <2>3. /\ a.rtt \in Nat /\ b.rtt \in Nat /\ b.rtt <= a.rtt
    BY <1>10, <2>1, SweepConstants DEF Candidate, Dominates
  <2>4. a.rtt = b.rtt /\ a.server < b.server
    BY <2>1, <2>2, <2>3 DEF Precedes
  <2>5. QED
    BY <2>4
<1>11. {ranking'[i].server : i \in DOMAIN ranking'} =
         {e[1] : e \in {f \in DOMAIN task' : task'[f].samples # <<>>}}
  BY <1>4, <1>7
<1>12. \A i \in DOMAIN ranking' :
         /\ ranking'[i].endpoint[1] = ranking'[i].server
         /\ \A e \in DOMAIN task' :
              e[1] = ranking'[i].server /\ task'[e].samples # <<>> =>
                ranking'[i].rtt <= Rtt(e)'
         /\ \E n \in DOMAIN task'[ranking'[i].endpoint].samples :
              ranking'[i].rtt = task'[ranking'[i].endpoint].samples[n]
  BY <1>4, <1>9
<1>13. \A i, j \in DOMAIN ranking' :
         /\ i < j => ranking'[i].server # ranking'[j].server
         /\ i < j /\ Dominates(ranking'[j], ranking'[i]) =>
              ranking'[i].rtt = ranking'[j].rtt /\ ranking'[i].server < ranking'[j].server
  BY <1>4, <1>8, <1>10
<1>14. QED
  BY <1>11, <1>12, <1>13 DEF RankingHonest, Dominates

\* Nothing changes once the ranking is there: every probe has ended.
Finished == phase = "ranked" => \A e \in DOMAIN task : task[e].pc = "done"

\* The ranking stays honest.
LEMMA HonestStep ==
    Inv /\ Finished /\ RankingHonest /\ [Next]_vars => Finished' /\ RankingHonest'
<1> SUFFICES ASSUME Inv, Finished, RankingHonest, [Next]_vars
             PROVE  Finished' /\ RankingHonest'
  OBVIOUS
<1>1. CASE Load \/ ListFails \/ Launch
  BY <1>1 DEF Load, ListFails, Launch, Finished, RankingHonest
<1>2. ASSUME NEW e \in DOMAIN task, ProbeStep(e) PROVE Finished' /\ RankingHonest'
  <2>1. task[e].pc # "done"
    BY <1>2 DEF ProbeStep, Acquire, Send, SendFails, Answer, NoAnswer, Panic, Running
  <2>2. phase # "ranked"
    BY <2>1 DEF Finished
  <2>3. phase' = phase
    BY <1>2 DEF ProbeStep, Acquire, Send, SendFails, Answer, NoAnswer, Panic
  <2>4. QED
    BY <2>2, <2>3 DEF Finished, RankingHonest
<1>3. CASE Collect
  <2>1. /\ \A e \in DOMAIN task : task[e].pc = "done"
        /\ UNCHANGED task /\ phase = "probing"
        /\ phase' = IF Measured = {} THEN "all unreachable" ELSE "ranked"
        /\ Measured # {} => ranking' = Ranked(Measured)
    BY <1>3 DEF Collect
  <2>2. Finished'
    BY <2>1 DEF Finished
  <2>3. CASE Measured = {}
    BY <2>1, <2>2, <2>3 DEF RankingHonest
  <2>4. CASE Measured # {}
    <3>1. Valid(config) /\ TypeOK /\ TimedThroughout
      BY <2>1 DEF Inv, FileValid
    <3>2. QED
      BY <2>1, <2>2, <2>4, <3>1, CollectHonest
  <2>5. QED
    BY <2>3, <2>4
<1>4. CASE UNCHANGED vars
  <2>1. \A e : Rtt(e)' = Rtt(e)
    BY <1>4 DEF Rtt
  <2>2. QED
    BY <1>4, <2>1 DEF Finished, RankingHonest, Dominates
<1>5. QED
  BY <1>1, <1>2, <1>3, <1>4 DEF Next

\* For any fleet, any number of entries and samples, any weights the
\* configuration accepts and any scores that point the right way, rank returns
\* each server that answered once, on its fastest entry and with a time that
\* was measured there; a server that is worse in no signal than one before it is
\* just as fast and later by name.
THEOREM Honest == Spec => []RankingHonest
<1>1. Init => Finished /\ RankingHonest
  BY DEF Init, Finished, RankingHonest
<1>2. QED
  BY <1>1, HonestStep, Invariance, PTL DEF Spec

=============================================================================
