------------------------------ MODULE Selection -----------------------------
(***************************************************************************)
(* connect_best (vpnmgrd/src/state.rs): the ranking says which servers     *)
(* should be fast; this connects to the first few in turn, measures each   *)
(* through the tunnel, and keeps the first that is fast enough or else the *)
(* fastest.  Candidates are named by their place in the ranking, 0 being   *)
(* no server.  Each call on the tunnel and each measurement may fail.      *)
(***************************************************************************)
EXTENDS Naturals

CONSTANTS
    MaxRanked,   \* bound: servers a sweep may rank
    Rates,       \* throughput a measurement may show, in Mbit/s
    Verify,      \* autotune.verify_candidates
    Explicit,    \* autotune.target_mbps, or None
    None,
    Default,     \* DEFAULT_TARGET_MBPS
    AcceptPct,   \* autotune.accept_fraction, in percent
    MinMbps      \* autotune.min_mbps

ASSUME SelectionAssumption ==
    /\ MaxRanked \in Nat \ {0}
    /\ Rates \subseteq Nat
    /\ Verify \in Nat
    /\ Explicit \in Nat \cup {None}
    /\ Default \in Nat
    /\ AcceptPct \in 0..100
    /\ MinMbps \in Nat

VARIABLES
    pc,        \* where connect_best is
    direct,    \* State.direct_mbps, 0 before it is measured
    measuring, \* should_measure
    bar,       \* the acceptance bar, in units of Mbps / 10000
    n,         \* length of the shortlist
    idx,       \* the candidate being tried
    current,   \* State.current
    measured,  \* candidates that were measured
    mbps,      \* what they delivered
    best,      \* the best that stayed below the bar
    answer     \* the server the request names in its answer

outcome == <<measured, mbps, best, answer>>
vars == <<pc, direct, measuring, bar, n, idx, current, outcome>>

Ranks == 1..MaxRanked

TypeOK ==
    /\ pc \in {"idle", "rank", "try", "carry", "measure", "done", "error"}
    /\ direct \in Nat
    /\ measuring \in BOOLEAN
    /\ bar \in Nat
    /\ n \in 0..MaxRanked
    /\ idx \in 1..(n + 1)
    /\ current \in 0..MaxRanked
    /\ measured \in SUBSET Ranks
    /\ mbps \in [Ranks -> Nat]
    /\ best \in 0..MaxRanked
    /\ answer \in 0..MaxRanked

Init ==
    /\ pc = "idle"
    /\ direct = 0
    /\ measuring = FALSE
    /\ bar = 0
    /\ n = 0
    /\ idx = 1
    /\ current = 0
    /\ measured = {}
    /\ mbps = [i \in Ranks |-> 0]
    /\ best = 0
    /\ answer = 0

-----------------------------------------------------------------------------
(* The acceptance bar (vpnmgr-core/src/config.rs)                          *)

Least(a, b) == IF a < b THEN a ELSE b
Most(a, b) == IF a > b THEN a ELSE b

\* target_mbps, times 100: an explicit target, else nine tenths of the line
\* rate if that is known, else the default.
TargetMbps(line) ==
    IF Explicit # None THEN Explicit * 100
    ELSE IF line > 0 THEN line * 90
    ELSE Default * 100

\* acceptance_mbps, times 10000: a fraction of the target, floored at min_mbps.
AcceptanceMbps(line) == Most(TargetMbps(line) * AcceptPct, MinMbps * 10000)

-----------------------------------------------------------------------------

\* A connect that measures: the line first, while the tunnel is down.  When
\* that fails, what an earlier call found stays.
Start ==
    /\ pc = "idle"
    /\ pc' = "rank"
    /\ measuring' = TRUE
    /\ direct' \in Rates \cup {direct}
    /\ UNCHANGED <<bar, n, idx, current, outcome>>

\* A connect that does not: the ranking alone decides.
StartUnmeasured ==
    /\ pc = "idle"
    /\ pc' = "rank"
    /\ measuring' = FALSE
    /\ UNCHANGED <<direct, bar, n, idx, current, outcome>>

\* The sweep ranks some servers, of which the first Verify are tried.
Rank(ranked) ==
    /\ pc = "rank"
    /\ pc' = "try"
    /\ bar' = AcceptanceMbps(direct)
    /\ n' = IF measuring THEN Least(Verify, ranked) ELSE 0
    /\ UNCHANGED <<direct, measuring, idx, current, outcome>>

\* The sweep failed, or reached nothing.
RankFails ==
    /\ pc = "rank"
    /\ pc' = "error"
    /\ UNCHANGED <<direct, measuring, bar, n, idx, current, outcome>>

\* attempts == 0: establish the first and answer with it.
Unverified ==
    /\ pc = "try"
    /\ n = 0
    /\ \/ current' = 1 /\ answer' = 1 /\ pc' = "done"
       \/ pc' = "error" /\ UNCHANGED <<current, answer>>
    /\ UNCHANGED <<direct, measuring, bar, n, idx, measured, mbps, best>>

\* establish for the first candidate, move_to for the others.
Try ==
    /\ pc = "try"
    /\ idx <= n
    /\ \/ current' = idx /\ pc' = "carry"
       \/ pc' = "error" /\ UNCHANGED current
    /\ UNCHANGED <<direct, measuring, bar, n, idx, outcome>>

Skip_Twice ==
    /\ pc' = "try"
    /\ idx' = idx + 2
    /\ UNCHANGED <<direct, measuring, bar, n, current, outcome>>

Skip ==
    /\ pc' = "try"
    /\ idx' = idx + 1
    /\ UNCHANGED <<direct, measuring, bar, n, current, outcome>>

\* wait_until_carrying
Carry ==
    /\ pc = "carry"
    /\ pc' = "measure"
    /\ UNCHANGED <<direct, measuring, bar, n, idx, current, outcome>>

NoHandshake == pc = "carry" /\ Skip

NoSample == pc = "measure" /\ Skip

\* The sample replaces the best so far only if it is strictly faster.
Better_Latest(rate) == best = 0 \/ rate >= mbps[best]
Better(rate) == best = 0 \/ rate > mbps[best]

Sample(rate) ==
    /\ pc = "measure"
    /\ measured' = measured \cup {idx}
    /\ mbps' = [mbps EXCEPT ![idx] = rate]
    /\ \/ /\ rate * 10000 >= bar
          /\ answer' = idx
          /\ pc' = "done"
          /\ UNCHANGED <<idx, best>>
       \/ /\ rate * 10000 < bar
          /\ best' = IF Better(rate) THEN idx ELSE best
          /\ idx' = idx + 1
          /\ pc' = "try"
          /\ UNCHANGED answer
    /\ UNCHANGED <<direct, measuring, bar, n, current>>

\* Nothing cleared the bar: go back to the best that was measured.
Settle ==
    /\ pc = "try"
    /\ n > 0
    /\ idx > n
    /\ best # 0
    /\ \/ current' = best /\ answer' = best /\ pc' = "done"
       \/ current # best /\ pc' = "error" /\ UNCHANGED <<current, answer>>
    /\ UNCHANGED <<direct, measuring, bar, n, idx, measured, mbps, best>>

\* Nothing was measured either: answer with the first of the shortlist.
Fallback ==
    /\ pc = "try"
    /\ n > 0
    /\ idx > n
    /\ best = 0
    /\ answer' = 1
    /\ pc' = "done"
    /\ UNCHANGED <<direct, measuring, bar, n, idx, current, measured, mbps, best>>

\* The request is answered; the user disconnects and may connect again.
Disconnect ==
    /\ pc \in {"done", "error"}
    /\ pc' = "idle"
    /\ idx' = 1
    /\ n' = 0
    /\ current' = 0
    /\ measured' = {}
    /\ mbps' = [i \in Ranks |-> 0]
    /\ best' = 0
    /\ answer' = 0
    /\ UNCHANGED <<direct, measuring, bar>>

Next ==
    \/ Start \/ StartUnmeasured
    \/ \E ranked \in Ranks : Rank(ranked)
    \/ RankFails
    \/ Unverified
    \/ Try
    \/ Carry \/ NoHandshake \/ NoSample
    \/ \E rate \in Rates : Sample(rate)
    \/ Settle \/ Fallback
    \/ Disconnect

Spec == Init /\ [][Next]_vars

-----------------------------------------------------------------------------
(* Properties                                                              *)

\* Reference: the earliest of the fastest that were measured.
Fastest(i) ==
    /\ i \in measured
    /\ \A j \in measured :
          mbps[j] < mbps[i] \/ (mbps[j] = mbps[i] /\ i <= j)

\* The answer of a selection that measured anything is the fastest server it
\* measured, no other one would have passed the bar, and the tunnel points at
\* it although it went on to others in between.
SettlesOnFastest ==
    pc = "done" /\ measured # {}
        => /\ answer = current
           /\ Fastest(answer)
           /\ \A j \in measured \ {answer} : mbps[j] * 10000 < bar
=============================================================================
