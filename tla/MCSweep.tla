------------------------------ MODULE MCSweep -------------------------------
EXTENDS Sweep

\* Server 1 has two entries, the others one; 2 is less busy, 3 is not healthy.
MCListed == {<<1, 1>>, <<1, 3>>, <<2, 1>>, <<3, 1>>}
MCCountry == [s \in {1, 2, 3} |-> s % 2]
MCLoad == [s \in {1, 2, 3} |-> CASE s = 1 -> 20 [] s = 2 -> 10 [] s = 3 -> 30]
MCHeadroom == [s \in {1, 2, 3} |-> 100]

\* Two probes at a time; one handshake each for all servers, three for server 1.
\* One file weighs the spare capacity alone, of which all servers have as much.
Filtered(f) == [FromImported({1}) EXCEPT !.filters = f,
                                         !.probe.concurrency = 2,
                                         !.probe.samples = 1]
Whole == Filtered(DefaultFilters)
MCFiles == {Whole,
            [Filtered([DefaultFilters EXCEPT !.serverWhite = {1}])
               EXCEPT !.probe.samples = 3],
            [Whole EXCEPT !.autotune.weights = [rtt |-> 0, load |-> 0, headroom |-> 30]],
            Filtered([DefaultFilters EXCEPT !.maxLoad = 10]),
            Filtered([DefaultFilters EXCEPT !.countryBlack = {1}]),
            Filtered([DefaultFilters EXCEPT !.serverWhite = {3}]),
            Filtered([DefaultFilters EXCEPT !.serverWhite = {1}, !.serverBlack = {1}]),
            [Whole EXCEPT !.probe.concurrency = 0],
            [Whole EXCEPT !.probe.samples = 0],
            [Whole EXCEPT !.autotune.weights = [rtt |-> 0, load |-> 0, headroom |-> 0]],
            [Whole EXCEPT !.autotune.target = 0]}

\* Latency decides unless it is equal.
MCRttScore == [p \in {1, 2} \X {1, 2} |-> IF p[1] <= p[2] THEN 10 ELSE 5]
MCLoadScore == [l \in {10, 20, 30} |-> 10 - (l \div 10)]
MCHeadroomScore == [h \in {100} |-> 10]
=============================================================================
