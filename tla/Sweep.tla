------------------------------- MODULE Sweep --------------------------------
(***************************************************************************)
(* The measurement behind connect, test and a tuning pass, from the        *)
(* configuration file to the ranking: filter the provider's list, send     *)
(* WireGuard handshakes to every entry of every server that is left, keep  *)
(* the fastest entry of each and rank them.                                *)
(*                                                                         *)
(* Every endpoint is probed by a task of its own; a semaphore bounds how   *)
(* many run at a time.  A probe is a number of handshakes, each of which   *)
(* may be answered, refused, lost or fail locally, and the task may panic. *)
(*                                                                         *)
(* Names and countries are numbers, in the order of the names.  The three  *)
(* component scores are tables: only their direction matters, and the      *)
(* assumptions state it.                                                   *)
(***************************************************************************)
EXTENDS Config, Sequences, FiniteSets

CONSTANTS
    Servers,       \* the provider's list, as naturals
    Entries,       \* WG_ENTRIES
    Listed,        \* the endpoints <<server, entry>> that have an address
    Country,       \* of each server
    LoadOf,        \* of each server
    Headroom,      \* of each server
    Healthy,       \* the servers the provider reports as healthy
    Addresses,     \* the addresses that a tunnel may be given
    Files,         \* what the configuration file may hold
    Rtts,          \* the round-trip times a handshake may take
    RttScore,      \* of a round-trip time and the fastest one
    LoadScore,     \* of a load
    HeadroomScore, \* of a headroom, given the machine's target
    None           \* no round-trip time, no excluded endpoint

Loads == {LoadOf[s] : s \in Servers}

Headrooms == {Headroom[s] : s \in Servers}

ASSUME SweepConstants ==
    /\ Servers \subseteq Nat /\ IsFiniteSet(Servers)
    /\ Entries \subseteq Nat /\ IsFiniteSet(Entries)
    /\ Listed \subseteq Servers \X Entries
    /\ Healthy \subseteq Servers
    /\ Rtts \subseteq Nat
    /\ None \notin Nat /\ None \notin Servers \X Entries
    /\ Files \subseteq Configs(Servers, {Country[s] : s \in Servers}, Addresses)

\* The scores fall with latency and load and rise with spare capacity.
ASSUME ScoreConstants ==
    /\ LoadOf \in [Servers -> Nat]
    /\ Headroom \in [Servers -> Nat]
    /\ RttScore \in [Rtts \X Rtts -> Nat]
    /\ \A a, b, f \in Rtts : a <= b => RttScore[<<a, f>>] >= RttScore[<<b, f>>]
    /\ LoadScore \in [Loads -> Nat]
    /\ \A a, b \in Loads : a <= b => LoadScore[a] >= LoadScore[b]
    /\ HeadroomScore \in [Headrooms -> Nat]
    /\ \A a, b \in Headrooms : a >= b => HeadroomScore[a] >= HeadroomScore[b]

VARIABLES
    config,    \* the configuration
    excluded,  \* the endpoint of the live tunnel, which is not probed
    phase,     \* where the sweep is
    task,      \* the probe of each endpoint
    permits,   \* free permits of the semaphore
    sent,      \* endpoints a handshake was sent to
    ranking    \* the result, best first

vars == <<config, excluded, phase, task, permits, sent, ranking>>

-----------------------------------------------------------------------------
(* The filters.                                                            *)

\* Ruleset::judge lets a server pass.  An empty whitelist allows everything.
\* A sweep of one country is that of a file with this country whitelist.
Accepts(s) ==
    LET rules == config.filters IN
    /\ s \notin rules.serverBlack
    /\ Country[s] \notin rules.countryBlack
    /\ rules.serverWhite = {} \/ s \in rules.serverWhite
    /\ rules.countryWhite = {} \/ Country[s] \in rules.countryWhite
    /\ LoadOf[s] <= rules.maxLoad

\* apply: health comes first.
Accepted == {s \in Servers : s \in Healthy /\ Accepts(s)}

\* One probe for every entry of every accepted server.
Endpoints == {e \in Listed : e[1] \in Accepted}

-----------------------------------------------------------------------------
(* Probing.                                                                *)

Outcomes == {"reachable", "rate limited", "unreachable", "rejected", "failed",
             "skipped"}

IsUsable(outcome) == outcome \in {"reachable", "rate limited"}

Unprobed == [pc |-> "waiting", samples |-> <<>>, outcome |-> "unreachable",
             taken |-> 0]

Task == [pc : {"waiting", "ready", "sent", "done"}, samples : Seq(Rtts),
         outcome : Outcomes, taken : 0..config.probe.samples]

Running(e) == task[e].pc \in {"ready", "sent"}

Underway == {e \in DOMAIN task : Running(e)}

Init ==
    /\ config \in Files
    /\ excluded \in Listed \union {None}
    /\ phase = "load"
    /\ task = [e \in {} |-> Unprobed]
    /\ permits = 0
    /\ sent = {}
    /\ ranking = <<>>

\* The daemon does not start, or does not take up, a file that is not valid.
Load ==
    /\ phase = "load"
    /\ phase' = IF Valid(config) THEN "filter" ELSE "refused"
    /\ UNCHANGED <<config, excluded, task, permits, sent, ranking>>

\* There is no cached server list and it cannot be fetched.
ListFails ==
    /\ phase = "filter"
    /\ phase' = "no list"
    /\ UNCHANGED <<config, excluded, task, permits, sent, ranking>>

\* Filters that match nothing are an error; otherwise every probe is spawned.
Launch ==
    /\ phase = "filter"
    /\ phase' = IF Accepted = {} THEN "no candidates" ELSE "probing"
    /\ task' = [e \in Endpoints |-> Unprobed]
    /\ permits' = config.probe.concurrency
    /\ UNCHANGED <<config, excluded, sent, ranking>>

\* The permit is dropped where it is acquired (let _ = ...).
Acquire_Dropped(e) ==
    /\ task[e].pc = "waiting"
    /\ permits > 0
    /\ task' = IF e = excluded
               THEN [task EXCEPT ![e].pc = "done", ![e].outcome = "skipped"]
               ELSE [task EXCEPT ![e].pc = "ready"]
    /\ UNCHANGED <<config, excluded, phase, permits, sent, ranking>>

\* A probe begins when it gets a permit.  That of the live endpoint ends at
\* once, and gives its permit back.
Acquire(e) ==
    /\ task[e].pc = "waiting"
    /\ permits > 0
    /\ IF e = excluded
       THEN /\ task' = [task EXCEPT ![e].pc = "done", ![e].outcome = "skipped"]
            /\ UNCHANGED permits
       ELSE /\ task' = [task EXCEPT ![e].pc = "ready"]
            /\ permits' = permits - 1
    /\ UNCHANGED <<config, excluded, phase, sent, ranking>>

\* The probe ends with its last sample; the permit is dropped with it.
Taken(e, samples, outcome) ==
    LET last == task[e].taken + 1 = config.probe.samples
    IN  /\ task' = [task EXCEPT ![e] =
                      [pc |-> IF last THEN "done" ELSE "ready",
                       samples |-> samples, outcome |-> outcome,
                       taken |-> task[e].taken + 1]]
        /\ permits' = IF last THEN permits + 1 ELSE permits

\* A sample; a later cookie reply does not downgrade a clean handshake.
Success(e, rtt, outcome) ==
    Taken(e, Append(task[e].samples, rtt),
          IF task[e].outcome = "reachable" THEN "reachable" ELSE outcome)

\* The last handshake decides.
Failure_Latest(e, outcome) == Taken(e, task[e].samples, outcome)

\* A handshake that yields no timing says nothing once another has.
Failure(e, outcome) ==
    Taken(e, task[e].samples,
          IF task[e].samples = <<>> THEN outcome ELSE task[e].outcome)

\* The initiation is sent, from a socket that bypasses the tunnel.
Send(e) ==
    /\ task[e].pc = "ready"
    /\ sent' = sent \union {e}
    /\ task' = [task EXCEPT ![e].pc = "sent"]
    /\ UNCHANGED <<config, excluded, phase, permits, ranking>>

\* The socket, its mark, or the initiation could not be had.
SendFails(e) ==
    /\ task[e].pc = "ready"
    /\ \E outcome \in {"failed", "rejected"} : Failure(e, outcome)
    /\ UNCHANGED <<config, excluded, phase, sent, ranking>>

\* A response that verifies, or a cookie from a server under load.
Answer(e) ==
    /\ task[e].pc = "sent"
    /\ \E rtt \in Rtts, outcome \in {"reachable", "rate limited"} :
         Success(e, rtt, outcome)
    /\ UNCHANGED <<config, excluded, phase, sent, ranking>>

\* A timeout, a response that does not verify, or something else entirely.
NoAnswer(e) ==
    /\ task[e].pc = "sent"
    /\ \E outcome \in {"unreachable", "rejected", "failed"} : Failure(e, outcome)
    /\ UNCHANGED <<config, excluded, phase, sent, ranking>>

\* A result is made up for the probe while its task goes on.
Panic_Twice(e) ==
    /\ task[e].pc # "waiting"
    /\ task' = [task EXCEPT ![e] = [Unprobed EXCEPT !.pc = "done",
                                                    !.outcome = "failed"]]
    /\ permits' = permits + 1
    /\ UNCHANGED <<config, excluded, phase, sent, ranking>>

\* A probe that panics is replaced by a failed result; unwinding drops its
\* permit.
Panic(e) ==
    /\ Running(e)
    /\ task' = [task EXCEPT ![e] = [Unprobed EXCEPT !.pc = "done",
                                                    !.outcome = "failed"]]
    /\ permits' = permits + 1
    /\ UNCHANGED <<config, excluded, phase, sent, ranking>>

-----------------------------------------------------------------------------
(* What the samples amount to.                                             *)

\* The lower middle of the sorted samples: no more than half of them lie below
\* it, and at least half are not above it.
Median(samples) ==
    IF samples = <<>> THEN None
    ELSE CHOOSE m \in {samples[i] : i \in DOMAIN samples} :
           LET mid == (Len(samples) - 1) \div 2
           IN  /\ Cardinality({i \in DOMAIN samples : samples[i] < m}) <= mid
               /\ Cardinality({i \in DOMAIN samples : samples[i] <= m}) > mid

Rtt(e) == Median(task[e].samples)

Usable == {e \in DOMAIN task : IsUsable(task[e].outcome) /\ Rtt(e) # None}

\* The last usable entry of a server.
Fastest_Last(s) ==
    CHOOSE e \in Usable :
      /\ e[1] = s
      /\ \A f \in Usable : f[1] = s => f[2] <= e[2]

\* sweep: the fastest usable entry of a server, the first of two that tie.
Fastest(s) ==
    CHOOSE e \in Usable :
      /\ e[1] = s
      /\ \A f \in Usable : f[1] = s =>
           Rtt(e) < Rtt(f) \/ (Rtt(e) = Rtt(f) /\ e[2] <= f[2])

Measured == {[server |-> s, endpoint |-> Fastest(s), rtt |-> Rtt(Fastest(s))] :
               s \in {e[1] : e \in Usable}}

-----------------------------------------------------------------------------
(* Ranking.                                                                *)

Candidate == [server : Servers, endpoint : Listed, rtt : Rtts]

\* The weighted sum; dividing by the total weight does not change the order.
Score(m, fastest) ==
    LET weights == config.autotune.weights IN
    weights.rtt * RttScore[<<m.rtt, fastest>>]
      + weights.load * LoadScore[LoadOf[m.server]]
      + weights.headroom * HeadroomScore[Headroom[m.server]]

\* The comparison of the sort: score, then latency, then name.
Precedes(a, b, fastest) ==
    \/ Score(a, fastest) > Score(b, fastest)
    \/ /\ Score(a, fastest) = Score(b, fastest)
       /\ \/ a.rtt < b.rtt
          \/ a.rtt = b.rtt /\ a.server < b.server

FastestOf(ms) == CHOOSE r \in {m.rtt : m \in ms} : \A m \in ms : r <= m.rtt

\* rank: best first.
Ranked(ms) ==
    CHOOSE q \in [1..Cardinality(ms) -> ms] :
      \A i, j \in 1..Cardinality(ms) :
        i < j => Precedes(q[i], q[j], FastestOf(ms))

\* Every task has been awaited.  If none was answered the last ranking stays.
Collect ==
    /\ phase = "probing"
    /\ \A e \in DOMAIN task : task[e].pc = "done"
    /\ phase' = IF Measured = {} THEN "all unreachable" ELSE "ranked"
    /\ ranking' = IF Measured = {} THEN ranking ELSE Ranked(Measured)
    /\ UNCHANGED <<config, excluded, task, permits, sent>>

ProbeStep(e) == Acquire(e) \/ Send(e) \/ SendFails(e) \/ Answer(e) \/ NoAnswer(e)
              \/ Panic(e)

Next ==
    \/ Load
    \/ ListFails \/ Launch
    \/ \E e \in DOMAIN task : ProbeStep(e)
    \/ Collect

Spec == Init /\ [][Next]_vars

\* Every task is polled, and every handshake ends with its timeout.
FairSpec == Spec /\ WF_vars(Next)

-----------------------------------------------------------------------------
(* Properties.                                                             *)

\* There is a task for every endpoint once the sweep has begun.
Probed == IF phase \in {"load", "refused", "filter", "no list"} THEN {} ELSE Endpoints

\* No probe takes more samples than asked for, and the permits of the
\* semaphore stay between none and all.
TypeOK ==
    /\ config \in Files
    /\ excluded \in Listed \union {None}
    /\ phase \in {"load", "refused", "filter", "no list", "probing",
                  "no candidates", "all unreachable", "ranked"}
    /\ task \in [Probed -> Task]
    /\ permits \in 0..config.probe.concurrency
    /\ sent \subseteq Listed

\* Of a sweep over the fleet: no more handshakes than configured are under way
\* at a time, every one goes to an entry of a server the filters accept, and
\* none to the endpoint of the live tunnel.  The probes of one named server and
\* of the current one are not sweeps: they pass no filter, and the latter is
\* sent to the live endpoint on purpose.
HandshakesContained ==
    /\ Cardinality(Underway) <= config.probe.concurrency
    /\ sent \subseteq Endpoints \ {excluded}

\* Whatever order successes and failures of a probe come in, its outcome
\* counts towards the ranking exactly when it has a timing.
UsableIffTimed ==
    \A e \in DOMAIN task :
      task[e].pc = "done" =>
        (IsUsable(task[e].outcome) <=> task[e].samples # <<>>)

\* a is at least as good as b in each of the three signals.
Dominates(a, b) ==
    /\ a.rtt <= b.rtt
    /\ LoadOf[a.server] <= LoadOf[b.server]
    /\ Headroom[a.server] >= Headroom[b.server]

\* The ranking holds each server that answered once, on its fastest entry and
\* with a time that was measured there, and nothing else.  Whatever the weights
\* and wherever a score saturates, a server that is worse in no signal than one
\* before it is just as fast and later by name: equals are always in the same
\* order, so that the tuner does not go back and forth between them.
RankingHonest ==
    phase = "ranked" =>
      /\ {ranking[i].server : i \in DOMAIN ranking} =
           {e[1] : e \in {f \in DOMAIN task : task[f].samples # <<>>}}
      /\ \A i, j \in DOMAIN ranking :
           i < j => ranking[i].server # ranking[j].server
      /\ \A i \in DOMAIN ranking :
           /\ ranking[i].endpoint[1] = ranking[i].server
           /\ \A e \in DOMAIN task :
                e[1] = ranking[i].server /\ task[e].samples # <<>> =>
                  ranking[i].rtt <= Rtt(e)
           /\ \E n \in DOMAIN task[ranking[i].endpoint].samples :
                ranking[i].rtt = task[ranking[i].endpoint].samples[n]
      /\ \A i, j \in DOMAIN ranking :
           i < j /\ Dominates(ranking[j], ranking[i]) =>
             /\ ranking[i].rtt = ranking[j].rtt
             /\ ranking[i].server < ranking[j].server

\* A sweep comes to an end: under any file that was accepted, with servers
\* that stay silent and probes that panic, every probe gets its turn.
SweepEnds ==
    <>(phase \in {"refused", "no list", "no candidates", "all unreachable", "ranked"})
=============================================================================
