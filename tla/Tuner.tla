-------------------------------- MODULE Tuner -------------------------------
(***************************************************************************)
(* The auto-tuner's decision (vpnmgrd/src/tuner.rs): a pure function of    *)
(* what a tuning pass observed and of the [autotune] settings.             *)
(*                                                                         *)
(* An assessment a has                                                     *)
(*   current   the connected server, NoServer when there is none           *)
(*   rtt       its round trip as measured this pass, or None               *)
(*   score     its score in the ranking, or None when it was not ranked    *)
(*   best      the best candidate of the sweep, NoServer when none answered *)
(*   bestRtt, bestScore                                                    *)
(*   declined  the server under an unexpired dismissal, or NoServer        *)
(* Settings t have policy, maxLatency and threshold, the last in percent.  *)
(***************************************************************************)
EXTENDS Naturals

CONSTANTS NoServer, None

Policies == {"ask", "auto", "never"}

Kinds == {"NotConnected", "NothingReachable", "Healthy", "AlreadyBest",
          "NoBetterAvailable", "Switch", "Propose", "Suppressed", "Blocked"}

\* relative_improvement(current, candidate) >= threshold, on integers.  A
\* candidate that is no better improves by 0, one over a score of 0 by 1.
ScoreImproves(score, bestScore, threshold) ==
    \/ threshold = 0
    \/ /\ bestScore > score
       /\ score = 0 \/ (bestScore - score) * 100 >= threshold * score

\* The fallback on latency for a current server the filters left out.
LatencyImproves(rtt, bestRtt, threshold) ==
    \/ threshold = 0
    \/ bestRtt < rtt /\ (rtt - bestRtt) * 100 >= threshold * rtt

Improves(a, t) ==
    IF a.score # None THEN ScoreImproves(a.score, a.bestScore, t.threshold)
                      ELSE LatencyImproves(a.rtt, a.bestRtt, t.threshold)

\* act: the switch policy applied to a move that is worth making.  A
\* dismissal quiets the prompt; it does not bind `auto`.
Act_Eager(policy, declined) ==
    CASE policy # "ask" -> "Switch"
      [] policy = "ask" /\ declined -> "Suppressed"
      [] policy = "ask" /\ ~declined -> "Propose"

Act(policy, declined) ==
    CASE policy = "auto" -> "Switch"
      [] policy = "ask" /\ declined -> "Suppressed"
      [] policy = "ask" /\ ~declined -> "Propose"
      [] policy = "never" -> "Blocked"

\* A server that still answers, above maxLatency.
DecideDegraded(a, t) ==
    CASE a.best = a.current -> "AlreadyBest"
      [] a.best # a.current /\ ~Improves(a, t) -> "NoBetterAvailable"
      [] a.best # a.current /\ Improves(a, t) ->
            Act(t.policy, a.declined = a.current)

\* decide: the early returns in their order.  A silent server is left before
\* anything else is compared, and no dismissal covers it.
Decide(a, t) ==
    IF a.current = NoServer THEN "NotConnected"
    ELSE IF a.best = NoServer THEN "NothingReachable"
    ELSE IF a.rtt = None THEN Act(t.policy, FALSE)
    ELSE IF a.rtt <= t.maxLatency THEN "Healthy"
    ELSE DecideDegraded(a, t)

=============================================================================
