------------------------------- MODULE MCTray -------------------------------
EXTENDS Tray

CONSTANTS s1, s2

\* Two servers in two countries, and configurations that allow one or the
\* other: the first by its country whitelist, the second by its blacklist.
MCServers == {s1, s2}
MCCountries == {{s1}, {s2}}
MCFilters == {[allowed |-> {s1}, eligible |-> {s1, s2}],
              [allowed |-> {s2}, eligible |-> {s2}]}
MCAnswering == {{s1, s2}}
=============================================================================
