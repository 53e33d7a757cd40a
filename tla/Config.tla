------------------------------- MODULE Config -------------------------------
(***************************************************************************)
(* What a configuration file says once it has been parsed, what a section  *)
(* that is missing stands for, and what validate refuses.  Fractions are   *)
(* counted in hundredths; names and countries have been trimmed and        *)
(* lowered.  A section has the settings that validate looks at; the        *)
(* sections [bypass], [killswitch] and [throughput] have none, and the     *)
(* modules that use them declare them.                                     *)
(***************************************************************************)
EXTENDS Integers

CONSTANT Unset   \* an optional number that the file does not give

ASSUME UnsetIsNoNumber == Unset \notin Int

Weights == [rtt : Int, load : Int, headroom : Int]

Autotune == [interval : Nat, target : Int \union {Unset}, accept : Int,
             margin : Int, improvement : Int, weights : Weights]

Probe == [concurrency : Nat, timeout : Nat, samples : Nat]

\* Which servers are eligible; an empty whitelist stands for all of them.
Filters(servers, countries) ==
    [countryWhite : SUBSET countries, countryBlack : SUBSET countries,
     serverWhite : SUBSET servers, serverBlack : SUBSET servers, maxLoad : Nat]

Configs(servers, countries, addresses) ==
    [filters : Filters(servers, countries), autotune : Autotune, probe : Probe,
     addresses : SUBSET addresses]

\* Filters::default: an omitted section accepts every country and server.
DefaultFilters ==
    [countryWhite |-> {}, countryBlack |-> {}, serverWhite |-> {},
     serverBlack |-> {}, maxLoad |-> 85]

DefaultWeights == [rtt |-> 60, load |-> 10, headroom |-> 30]

DefaultAutotune ==
    [interval |-> 30, target |-> Unset, accept |-> 60, margin |-> 200,
     improvement |-> 25, weights |-> DefaultWeights]

DefaultProbe == [concurrency |-> 32, timeout |-> 1500, samples |-> 3]

\* from_imported: what `vpnmgr import` writes.
FromImported(addresses) ==
    [filters |-> DefaultFilters, autotune |-> DefaultAutotune,
     probe |-> DefaultProbe, addresses |-> addresses]

\* A name that is allowed and forbidden at once is refused.
FiltersValid(f) ==
    /\ f.maxLoad <= 200
    /\ f.countryWhite \intersect f.countryBlack = {}
    /\ f.serverWhite \intersect f.serverBlack = {}

\* A semaphore without permits is not noticed.
ProbeValid_AnyConcurrency(p) == p.samples > 0 /\ p.timeout > 0

ProbeValid(p) == p.concurrency > 0 /\ p.samples > 0 /\ p.timeout > 0

AutotuneValid(a) ==
    /\ a.interval > 0
    /\ a.target # Unset => a.target > 0
    /\ a.accept \in 0..100
    /\ a.margin > 0
    /\ a.improvement \in 0..100

\* The weights are divided by their sum.
WeightsValid(w) ==
    /\ w.rtt >= 0 /\ w.load >= 0 /\ w.headroom >= 0
    /\ w.rtt + w.load + w.headroom > 0

\* Config::validate.
Valid(c) ==
    /\ FiltersValid(c.filters)
    /\ ProbeValid(c.probe)
    /\ AutotuneValid(c.autotune)
    /\ WeightsValid(c.autotune.weights)
    /\ c.addresses # {}
=============================================================================
