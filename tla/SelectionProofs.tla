--------------------------- MODULE SelectionProofs --------------------------
(***************************************************************************)
(* Proofs about Selection for any number of candidates, any rates and any  *)
(* settings of the acceptance bar.                                         *)
(***************************************************************************)
EXTENDS SelectionOperations, TLAPS

-----------------------------------------------------------------------------
(* The inductive invariant, in parts                                       *)

\* The loop of connect_best: what lies behind idx has been dealt with, and
\* best is the fastest of it.
Loop ==
    pc \in {"try", "carry", "measure"}
        => /\ \A j \in measured : j < idx
           /\ \A j \in measured : mbps[j] * 10000 < bar
           /\ best = 0 => measured = {}
           /\ best # 0 => Fastest(best)

\* The candidate being measured is the one the tunnel points at.
Trying == pc \in {"carry", "measure"} => current = idx /\ idx <= n

\* Nothing is carried over from one call to the next.
Fresh == pc \in {"idle", "rank"} => measured = {} /\ best = 0 /\ idx = 1

Inv == TypeOK /\ Loop /\ Trying /\ Fresh /\ SettlesOnFastest

-----------------------------------------------------------------------------

USE DEF vars, outcome

\* The acceptance bar is a number.
LEMMA BarNat == ASSUME NEW line \in Nat PROVE AcceptanceMbps(line) \in Nat
<1>1. TargetMbps(line) \in Nat
  BY SelectionAssumption DEF TargetMbps
<1>2. TargetMbps(line) * AcceptPct \in Nat
  BY <1>1, SelectionAssumption
<1>3. QED
  BY <1>2, SelectionAssumption DEF AcceptanceMbps, Most

\* Before the first call there is nothing to show.
LEMMA InvInit == Init => Inv
<1> SUFFICES ASSUME Init PROVE Inv
  OBVIOUS
<1>1. n \in 0..MaxRanked /\ idx \in 1..(n + 1)
  BY SelectionAssumption DEF Init
<1>2. TypeOK
  BY <1>1, SelectionAssumption DEF Init, TypeOK, Ranks
<1>3. QED
  BY <1>2 DEF Init, Inv, Loop, Trying, Fresh, SettlesOnFastest

\* A sample below the bar keeps best the fastest.
LEMMA SampleInv ==
    ASSUME Inv, NEW rate \in Rates, Sample(rate) PROVE Inv'
<1> USE SelectionAssumption DEF Inv
<1>1. /\ rate \in Nat /\ idx \in Ranks /\ idx \in Nat /\ n \in Nat /\ bar \in Nat
      /\ current = idx /\ idx <= n
      /\ measured \subseteq Ranks
      /\ mbps \in [Ranks -> Nat]
  BY DEF Sample, Trying, TypeOK, Ranks
<1>2. /\ mbps'[idx] = rate
      /\ \A j \in measured : j \in Ranks /\ j < idx /\ mbps'[j] = mbps[j] /\ mbps[j] \in Nat
      /\ \A j \in measured : mbps[j] * 10000 < bar
      /\ measured' = measured \cup {idx}
      /\ current' = current /\ bar' = bar /\ n' = n
  BY <1>1 DEF Sample, Loop, Ranks
<1>3. mbps' \in [Ranks -> Nat] /\ measured' \subseteq Ranks
  BY <1>1 DEF Sample
<1>4. CASE rate * 10000 >= bar /\ answer' = idx /\ pc' = "done"
  <2>1. TypeOK'
    BY <1>1, <1>3, <1>4 DEF Sample, TypeOK, Ranks
  <2>2. \A j \in measured : mbps[j] < rate
    BY <1>1, <1>2, <1>4
  <2>3. SettlesOnFastest'
    BY <1>1, <1>2, <1>4, <2>2 DEF SettlesOnFastest, Fastest
  <2>4. QED
    BY <1>4, <2>1, <2>3 DEF Loop, Trying, Fresh
<1>5. CASE /\ rate * 10000 < bar
           /\ best' = IF Better(rate) THEN idx ELSE best
           /\ idx' = idx + 1
           /\ pc' = "try"
  <2>1. TypeOK'
    BY <1>1, <1>3, <1>5 DEF Sample, TypeOK, Ranks
  <2>2. best = 0 => measured = {}
    BY DEF Loop, Sample
  <2>3. best # 0 => best \in measured /\ Fastest(best)
    BY DEF Loop, Sample, Fastest
  <2>4. Fastest(best)'
    <3>1. CASE best = 0
      BY <1>1, <1>2, <1>5, <2>2, <3>1 DEF Better, Fastest
    <3>2. CASE best # 0 /\ rate > mbps[best]
      <4>1. best' = idx
        BY <1>5, <3>2 DEF Better
      <4>2. mbps[best] \in Nat
        BY <1>2, <2>3, <3>2
      <4>3. ASSUME NEW j \in measured PROVE mbps'[j] < mbps'[idx]
        <5>1. mbps[j] \in Nat /\ mbps'[j] = mbps[j] /\ mbps'[idx] = rate
          BY <1>2
        <5>2. mbps[j] < mbps[best] \/ mbps[j] = mbps[best]
          BY <2>3, <3>2 DEF Fastest
        <5>3. QED
          BY <1>1, <3>2, <4>2, <5>1, <5>2
      <4>4. QED
        BY <1>1, <1>2, <4>1, <4>3 DEF Fastest
    <3>3. CASE best # 0 /\ ~(rate > mbps[best])
      BY <1>1, <1>2, <1>5, <2>3, <3>3 DEF Better, Fastest, Ranks
    <3>4. QED
      BY <3>1, <3>2, <3>3
  <2>5. Loop'
    BY <1>1, <1>2, <1>5, <2>4 DEF Loop, Ranks, Fastest
  <2>6. QED
    BY <1>5, <2>1, <2>5 DEF Trying, Fresh, SettlesOnFastest
<1>6. QED
  BY <1>4, <1>5 DEF Sample

\* Every step preserves the invariant.
LEMMA InvNext == Inv /\ [Next]_vars => Inv'
<1> SUFFICES ASSUME Inv, [Next]_vars PROVE Inv'
  OBVIOUS
<1> USE SelectionAssumption DEF Inv, TypeOK, Ranks
<1>1. CASE Start \/ StartUnmeasured
  <2>1. direct' \in Nat /\ measuring' \in BOOLEAN
    BY <1>1 DEF Start, StartUnmeasured
  <2>2. TypeOK'
    BY <1>1, <2>1 DEF Start, StartUnmeasured
  <2>3. pc = "idle" /\ pc' = "rank" /\ UNCHANGED <<idx, measured, best>>
    BY <1>1 DEF Start, StartUnmeasured
  <2>4. Loop' /\ Trying' /\ Fresh' /\ SettlesOnFastest'
    BY <2>3 DEF Loop, Trying, Fresh, SettlesOnFastest
  <2>5. QED
    BY <2>2, <2>4
<1>2. ASSUME NEW ranked \in Ranks, Rank(ranked) PROVE Inv'
  <2>1. AcceptanceMbps(direct) \in Nat
    BY BarNat
  <2>2. n' \in 0..MaxRanked
    BY <1>2 DEF Rank, Least
  <2>3. measured = {} /\ best = 0 /\ idx = 1
    BY <1>2 DEF Rank, Fresh
  <2>4. QED
    BY <1>2, <2>1, <2>2, <2>3 DEF Rank, Loop, Trying, Fresh, SettlesOnFastest
<1>3. CASE RankFails
  BY <1>3 DEF RankFails, Loop, Trying, Fresh, SettlesOnFastest
<1>4. CASE Unverified
  <2>1. measured = {}
    BY <1>4 DEF Unverified, Loop
  <2>2. QED
    BY <1>4, <2>1 DEF Unverified, Loop, Trying, Fresh, SettlesOnFastest
<1>5. CASE Try
  <2>1. TypeOK'
    BY <1>5 DEF Try
  <2>2. Fastest(best)' <=> Fastest(best)
    BY <1>5 DEF Try, Fastest
  <2>3. Loop'
    BY <1>5, <2>2 DEF Try, Loop
  <2>4. Trying' /\ Fresh' /\ SettlesOnFastest'
    BY <1>5 DEF Try, Trying, Fresh, SettlesOnFastest
  <2>5. QED
    BY <2>1, <2>3, <2>4
<1>6. CASE Carry
  <2>1. Fastest(best)' <=> Fastest(best)
    BY <1>6 DEF Carry, Fastest
  <2>2. TypeOK' /\ Loop'
    BY <1>6, <2>1 DEF Carry, Loop
  <2>3. Trying' /\ Fresh' /\ SettlesOnFastest'
    BY <1>6 DEF Carry, Trying, Fresh, SettlesOnFastest
  <2>4. QED
    BY <2>2, <2>3
<1>7. CASE NoHandshake \/ NoSample
  <2>1. \A j \in measured : j < idx'
    BY <1>7 DEF NoHandshake, NoSample, Skip, Loop, Trying
  <2>2. /\ pc \in {"carry", "measure"}
        /\ pc' = "try"
        /\ idx' = idx + 1
        /\ UNCHANGED <<direct, measuring, bar, n, current, outcome>>
    BY <1>7 DEF NoHandshake, NoSample, Skip
  <2>3. idx' \in 1..(n' + 1)
    BY <2>2 DEF Trying
  <2>4. TypeOK'
    BY <2>2, <2>3
  <2>5. Fastest(best)' <=> Fastest(best)
    BY <2>2 DEF Fastest
  <2>6. Loop'
    BY <2>1, <2>2, <2>5 DEF Loop
  <2>7. QED
    BY <2>2, <2>4, <2>6 DEF Trying, Fresh, SettlesOnFastest
<1>8. ASSUME NEW rate \in Rates, Sample(rate) PROVE Inv'
  BY <1>8, SampleInv
<1>9. CASE Settle
  <2>1. TypeOK'
    BY <1>9 DEF Settle
  <2>2. Loop' /\ Trying' /\ Fresh'
    BY <1>9 DEF Settle, Loop, Trying, Fresh
  <2>3. CASE current' = best /\ answer' = best /\ pc' = "done"
    <3>1. Fastest(answer)'
      BY <1>9, <2>3 DEF Settle, Loop, Fastest
    <3>2. \A j \in measured' : mbps'[j] * 10000 < bar'
      BY <1>9 DEF Settle, Loop
    <3>3. SettlesOnFastest'
      BY <2>3, <3>1, <3>2 DEF SettlesOnFastest
    <3>4. QED
      BY <2>1, <2>2, <3>3
  <2>4. CASE pc' = "error"
    <3>1. SettlesOnFastest'
      <4> HIDE DEF Inv, TypeOK
      <4> QED
        BY <2>4 DEF SettlesOnFastest
    <3>2. QED
      BY <2>1, <2>2, <3>1
  <2>5. QED
    BY <1>9, <2>3, <2>4 DEF Settle
<1>10. CASE Fallback
  <2>1. TypeOK'
    BY <1>10 DEF Fallback
  <2>2. measured' = {} /\ pc' = "done"
    BY <1>10 DEF Fallback, Loop
  <2>3. Loop' /\ Trying' /\ Fresh' /\ SettlesOnFastest'
    BY <2>2 DEF Loop, Trying, Fresh, SettlesOnFastest
  <2>4. QED
    BY <2>1, <2>3
<1>11. CASE Disconnect
  BY <1>11 DEF Disconnect, Loop, Trying, Fresh, SettlesOnFastest
<1>12. CASE UNCHANGED vars
  <2>1. (Fastest(best)' <=> Fastest(best)) /\ (Fastest(answer)' <=> Fastest(answer))
    BY <1>12 DEF Fastest
  <2>2. TypeOK' /\ Loop' /\ Trying' /\ Fresh'
    BY <1>12, <2>1 DEF Loop, Trying, Fresh
  <2>3. SettlesOnFastest'
    BY <1>12, <2>1 DEF SettlesOnFastest
  <2>4. QED
    BY <2>2, <2>3
<1>13. QED
  BY <1>1, <1>2, <1>3, <1>4, <1>5, <1>6, <1>7, <1>8, <1>9, <1>10, <1>11, <1>12 DEF Next

\* Type correctness of connect_best; in particular the loop index stays on the
\* shortlist.
THEOREM TypeCorrect == Spec => []TypeOK
BY InvInit, InvNext, PTL DEF Spec, Inv

\* connect_best settles on the fastest server it measured, for a shortlist of
\* any length and any acceptance bar.
THEOREM Optimal == Spec => []SettlesOnFastest
BY InvInit, InvNext, PTL DEF Spec, Inv

-----------------------------------------------------------------------------
(* What the daemon assumes of the request is what the loop leaves          *)

USE DEF operations, driven

\* The tunnel was brought up by this request and carries traffic to c.
Standing(c) ==
    /\ owns = TRUE /\ armed = config.ks /\ routed = config.bypass
    /\ current = c /\ exit = c
    /\ nft = IF config.ks THEN [on |-> TRUE, bypass |-> config.bypass]
             ELSE before.nft

\* The loop is on the candidate it tried last.
Driven ==
    /\ pc \in {"idle", "rank"} \/ (pc = "try" /\ idx = 1)
            => before = Sight /\ current = 0
    /\ pc \in {"done", "error"} => before = Sight
    /\ pc \in {"carry", "measure"} => Standing(idx)
    /\ pc = "try" /\ idx > 1 => Standing(idx - 1)

\* What is in place when a request returns is what the next one finds.
LEMMA Found ==
    ASSUME before = Sight
    PROVE  /\ before.owns = owns /\ before.armed = armed /\ before.routed = routed
           /\ before.current = current /\ before.exit = exit /\ before.nft = nft
BY DEF Sight

LEMMA Left ==
    ASSUME before' = Sight'
    PROVE  /\ before'.owns = owns' /\ before'.armed = armed' /\ before'.routed = routed'
           /\ before'.current = current' /\ before'.exit = exit' /\ before'.nft = nft'
BY DEF Sight

\* Which call each step of the loop makes, and how it ends.
LEMMA Driving ==
    ASSUME Inv, Driven, NextOperations
    PROVE  /\ pc = "try" /\ idx = 1 =>
                IF pc' = "error" THEN Live!EstablishFailed(1) ELSE Live!Established(1)
           /\ pc = "try" /\ idx > 1 =>
                \/ Asked # 0 /\ pc' # "error" /\ Live!Retargeted(Asked)
                \/ Asked # 0 /\ pc' = "error" /\ Live!RetargetFailed(Asked)
                \/ pc' = "done" /\ UNCHANGED <<driven, current>>
           /\ pc \notin {"try", "done", "error"} => UNCHANGED <<driven, current>>
           /\ pc' # "idle" => config' = config
           /\ before' = IF pc' \in {"idle", "done", "error"} THEN Sight' ELSE before
<1> USE SelectionAssumption
<1>1. n \in Nat /\ idx \in Nat /\ 1 <= idx /\ current \in Nat
  BY DEF Inv, TypeOK
<1>2. ASSUME pc = "try", idx = 1
      PROVE  IF pc' = "error" THEN Live!EstablishFailed(1) ELSE Live!Established(1)
  <2>1. current = 0 /\ (Live!Established(1) \/ Live!EstablishFailed(1))
    BY <1>2 DEF NextOperations, Drive, Driven
  <2>2. Unverified \/ Try
    BY <1>1, <1>2 DEF NextOperations, Next, Start, StartUnmeasured, Rank, RankFails,
                 Carry, NoHandshake, NoSample, Sample, Settle, Fallback, Disconnect
  <2>3. IF pc' = "error" THEN current' = current ELSE current' = 1
    BY <1>2, <2>2 DEF Unverified, Try
  <2>4. QED
    BY <2>1, <2>3 DEF Live!Established, Live!Owned, Live!EstablishFailed
<1>3. ASSUME pc = "try", idx > 1
      PROVE  \/ Asked # 0 /\ pc' # "error" /\ Live!Retargeted(Asked)
             \/ Asked # 0 /\ pc' = "error" /\ Live!RetargetFailed(Asked)
             \/ pc' = "done" /\ UNCHANGED <<driven, current>>
  <2>1. Try \/ Settle \/ Fallback
    BY <1>1, <1>3 DEF Inv, TypeOK, NextOperations, Next, Start, StartUnmeasured, Rank,
                 RankFails, Unverified, Carry, NoHandshake, NoSample, Sample, Disconnect
  <2>2. \/ /\ Asked \notin {0, current}
           /\ Live!Retargeted(Asked) \/ Live!RetargetFailed(Asked)
        \/ Asked \in {0, current} /\ UNCHANGED driven
    BY <1>1, <1>3 DEF NextOperations, Drive
  <2>3. current = idx - 1
    BY <1>3 DEF Driven, Standing
  <2>4. CASE Try
    <3>1. Asked = idx /\ Asked \notin {0, current}
      BY <1>1, <1>3, <2>3, <2>4 DEF Try, Asked
    <3>2. IF pc' = "error" THEN current' = current ELSE current' = Asked
      BY <2>4, <3>1 DEF Try
    <3>3. QED
      BY <2>2, <3>1, <3>2 DEF Live!Retargeted, Live!RetargetFailed
  <2>5. CASE Settle
    <3>1. Asked = best /\ best # 0
      BY <1>1, <2>5 DEF Settle, Asked
    <3>2. \/ pc' = "error" /\ current' = current /\ current # best
          \/ pc' = "done" /\ current' = best
      BY <2>5 DEF Settle
    <3>3. QED
      BY <2>2, <3>1, <3>2 DEF Live!Retargeted, Live!RetargetFailed
  <2>6. CASE Fallback
    BY <1>1, <2>2, <2>6 DEF Fallback, Asked
  <2>7. QED
    BY <2>1, <2>4, <2>5, <2>6
<1>4. ASSUME pc \notin {"try", "done", "error"}
      PROVE  UNCHANGED <<driven, current>>
  BY <1>4 DEF NextOperations, Drive, Next, Start, StartUnmeasured, Rank, RankFails,
              Unverified, Try, Carry, NoHandshake, NoSample, Skip, Sample, Settle,
              Fallback, Disconnect
<1>5. QED
  BY <1>2, <1>3, <1>4 DEF NextOperations

\* How the loop goes on.
LEMMA LoopFlow ==
    ASSUME Inv, Next
    PROVE  /\ pc = "idle" => pc' = "rank"
           /\ pc = "rank" => pc' \in {"try", "error"} /\ UNCHANGED idx
           /\ pc = "try" => pc' \in {"carry", "done", "error"} /\ UNCHANGED idx
           /\ pc = "try" /\ pc' = "carry" => idx <= n
           /\ pc \in {"carry", "measure"} =>
                \/ pc' = "measure" /\ UNCHANGED idx
                \/ pc' = "try" /\ idx' = idx + 1
                \/ pc' = "done"
           /\ pc \in {"done", "error"} => pc' = "idle" /\ current' = 0
BY DEF Next, Start, StartUnmeasured, Rank, RankFails, Unverified, Try, Carry,
       NoHandshake, NoSample, Skip, Sample, Settle, Fallback, Disconnect

\* Every step of the loop, and the disconnection after it, keeps to Driven.
LEMMA DrivenNext ==
    ASSUME Inv, Inv', Driven, [NextOperations]_<<vars, operations>>
    PROVE  Driven'
<1> USE SelectionAssumption
<1>1. CASE UNCHANGED <<vars, operations>>
  BY <1>1 DEF Driven, Standing, Sight
<1>2. CASE NextOperations
  <2>0. Next
    BY <1>2 DEF NextOperations
  <2>1. CASE pc' \in {"done", "error"}
    BY <1>2, <2>1, Driving DEF Driven
  <2>2. CASE pc \in {"done", "error"}
    BY <1>2, <2>0, <2>2, Driving, LoopFlow DEF Driven
  <2>3. CASE pc \in {"idle", "rank"} /\ pc' \notin {"done", "error"}
    <3>1. UNCHANGED <<driven, current, before>> /\ pc' \in {"rank", "try"}
      BY <1>2, <2>0, <2>3, Driving, LoopFlow
    <3>2. idx' = 1
      BY <2>0, <2>3 DEF Inv, Fresh, Next, Start, StartUnmeasured, Rank, RankFails,
              Unverified, Try, Carry, NoHandshake, NoSample, Skip, Sample, Settle,
              Fallback, Disconnect
    <3>3. Sight' = Sight
      BY <3>1 DEF Sight
    <3>4. QED
      BY <2>3, <3>1, <3>2, <3>3 DEF Driven
  <2>4. CASE pc = "try" /\ pc' \notin {"done", "error"}
    <3>1. pc' = "carry" /\ idx' = idx /\ idx <= n /\ UNCHANGED <<config, before>>
      BY <1>2, <2>0, <2>4, Driving, LoopFlow
    <3>2. CASE idx = 1
      <4>1. Live!Established(1) /\ before = Sight
        BY <1>2, <2>4, <3>2, Driving DEF Driven
      <4>2. Standing(1)'
        BY <3>1, <4>1, Found DEF Live!Established, Live!Owned, Standing
      <4>3. QED
        BY <3>1, <3>2, <4>2 DEF Driven
    <3>3. CASE idx > 1
      <4>1. Live!Retargeted(idx) /\ Standing(idx - 1)
        BY <1>2, <2>4, <3>1, <3>3, Driving DEF Driven, Asked
      <4>2. Standing(idx)'
        BY <3>1, <4>1 DEF Live!Retargeted, Live!tunnel, Standing
      <4>3. QED
        BY <3>1, <4>2 DEF Driven
    <3>4. QED
      BY <3>2, <3>3 DEF Inv, TypeOK
  <2>5. CASE pc \in {"carry", "measure"} /\ pc' \notin {"done", "error"}
    <3>1. UNCHANGED <<driven, current, before, config>>
      BY <1>2, <2>0, <2>5, Driving, LoopFlow
    <3>2. Standing(idx)
      BY <2>5 DEF Driven
    <3>3. CASE pc' = "measure" /\ idx' = idx
      BY <3>1, <3>2, <3>3 DEF Driven, Standing
    <3>4. CASE pc' = "try" /\ idx' = idx + 1
      <4>1. idx' - 1 = idx /\ idx' # 1
        BY <3>4 DEF Inv, TypeOK
      <4>2. QED
        BY <3>1, <3>2, <3>4, <4>1 DEF Driven, Standing
    <3>5. QED
      BY <2>0, <2>5, <3>3, <3>4, LoopFlow
  <2>6. QED
    BY <2>1, <2>2, <2>3, <2>4, <2>5 DEF Inv, TypeOK
<1>3. QED
  BY <1>1, <1>2

LEMMA OperationsInvariance == SpecOperations => [](Inv /\ Driven)
<1>1. InitOperations => Inv /\ Driven
  BY InvInit DEF InitOperations, Init, Driven
<1>2. Inv /\ Driven /\ [NextOperations]_<<vars, operations>> => Inv' /\ Driven'
  <2> SUFFICES ASSUME Inv, Driven, [NextOperations]_<<vars, operations>>
               PROVE  Inv' /\ Driven'
    OBVIOUS
  <2>1. [Next]_vars
    BY DEF NextOperations
  <2>2. Inv'
    BY <2>1, InvNext
  <2>3. QED
    BY <2>2, DrivenNext
<1>3. QED
  BY <1>1, <1>2, PTL DEF SpecOperations

\* connect_best, which drives the tunnel through any number of candidates, is
\* one step to the rest of the daemon: the step that module Daemon assumes.
THEOREM OneRequest == SpecOperations => RequestAsAssumed
<1> USE SelectionAssumption
<1> DEFINE Assumed ==
      /\ pc' = "done" => Request!Established(current')
      /\ pc # "rank" /\ pc' = "error" =>
           \/ Request!EstablishFailed(1)
           \/ \E c, d \in 1..n : Request!StoppedShort(c, d)
      /\ pc = "rank" /\ pc' = "error" => UNCHANGED before
<1>1. Inv /\ Driven /\ [NextOperations]_<<vars, operations>>
        => [Assumed]_<<vars, operations>>
  <2> SUFFICES ASSUME Inv, Driven, NextOperations PROVE Assumed
    OBVIOUS
  <2>0. Next /\ n \in Nat /\ idx \in Nat /\ 1 <= idx /\ idx <= n + 1
    BY DEF NextOperations, Inv, TypeOK
  <2>1. ASSUME pc' = "done" PROVE Request!Established(current')
    <3>1. before' = Sight' /\ config' = config
      BY <2>1, Driving
    <3>2. CASE pc = "try" /\ idx = 1
      <4>1. Live!Established(1) /\ before = Sight
        BY <2>1, <3>2, Driving DEF Driven
      <4>2. QED
        BY <3>1, <4>1, Found, Left
           DEF Live!Established, Live!Owned, Request!Established, Request!Owned
    <3>3. CASE pc = "try" /\ idx > 1
      <4>1. Standing(idx - 1)
        BY <3>3 DEF Driven
      <4>2. owns' = owns /\ armed' = armed /\ routed' = routed /\ nft' = nft
            /\ exit' = current'
        <5>1. Live!Retargeted(Asked) \/ UNCHANGED <<driven, current>>
          BY <2>1, <3>3, Driving
        <5>2. CASE Live!Retargeted(Asked)
          BY <5>2 DEF Live!Retargeted, Live!tunnel
        <5>3. CASE UNCHANGED <<driven, current>>
          BY <4>1, <5>3 DEF Standing
        <5>4. QED
          BY <5>1, <5>2, <5>3
      <4>3. QED
        BY <3>1, <4>1, <4>2, Left DEF Standing, Request!Established, Request!Owned
    <3>4. CASE pc \in {"carry", "measure"}
      BY <3>1, <3>4, Driving, Left
         DEF Driven, Standing, Request!Established, Request!Owned
    <3>5. QED
      BY <2>0, <2>1, <3>2, <3>3, <3>4, LoopFlow DEF Inv, TypeOK
  <2>2. ASSUME pc = "try", pc' = "error"
        PROVE  \/ Request!EstablishFailed(1)
               \/ \E c, d \in 1..n : Request!StoppedShort(c, d)
    <3>1. before' = Sight'
      BY <2>2, Driving
    <3>2. CASE idx = 1
      <4>1. Live!EstablishFailed(1) /\ before = Sight
        BY <2>2, <3>2, Driving DEF Driven
      <4>2. QED
        BY <3>1, <4>1, Found, Left
           DEF Live!EstablishFailed, Live!tunnel, Live!Off, Request!EstablishFailed,
               Request!tunnel, Request!Off
    <3>3. CASE idx > 1
      <4>1. Live!RetargetFailed(Asked) /\ Asked # 0 /\ Standing(idx - 1)
        BY <2>2, <3>3, Driving DEF Driven
      <4>2. Asked \in 1..n /\ idx - 1 \in 1..n
        <5>1. CASE idx <= n
          BY <2>0, <3>3, <5>1 DEF Asked
        <5>2. CASE ~(idx <= n)
          <6>1. best = Asked /\ best \in measured /\ best < idx /\ best \in Nat
            BY <2>2, <4>1, <5>2 DEF Asked, Inv, Loop, Fastest, TypeOK
          <6>2. QED
            BY <2>0, <3>3, <4>1, <5>2, <6>1
        <5>3. QED
          BY <5>1, <5>2
      <4>3. Request!StoppedShort(idx - 1, Asked)
        BY <3>1, <4>1, Left
           DEF Live!RetargetFailed, Live!tunnel, Standing, Request!StoppedShort,
               Request!Owned
      <4>4. QED
        BY <4>2, <4>3
    <3>4. QED
      BY <2>0, <3>2, <3>3
  <2>3. ASSUME pc = "rank", pc' = "error" PROVE UNCHANGED before
    BY <2>3, Driving DEF Driven, Sight
  <2>4. QED
    BY <2>0, <2>1, <2>2, <2>3, LoopFlow DEF Inv, TypeOK
<1>2. QED
  BY <1>1, OperationsInvariance, PTL DEF SpecOperations, RequestAsAssumed

=============================================================================
