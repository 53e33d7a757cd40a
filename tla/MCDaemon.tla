------------------------------- MODULE MCDaemon -----------------------------
(* Daemon on three servers in two countries, for TLC.                      *)
EXTENDS Daemon

CONSTANTS s1, s2, s3

MCServers == {s1, s2, s3}
MCCountries == {{s1, s2}, {s3}}

\* Every policy; kill switch and bypass on and off; a country whitelist, a
\* server whitelist and a blacklist that each exclude a server the others
\* admit; and filters that leave nothing.
MCConfigs ==
    {[named |-> MCServers, zoned |-> {s1, s2}, black |-> {},
      policy |-> "ask", ks |-> TRUE, bypass |-> TRUE],
     [named |-> {s2, s3}, zoned |-> MCServers, black |-> {},
      policy |-> "auto", ks |-> FALSE, bypass |-> TRUE],
     [named |-> MCServers, zoned |-> MCServers, black |-> {s2},
      policy |-> "never", ks |-> FALSE, bypass |-> FALSE],
     [named |-> {s1}, zoned |-> MCServers, black |-> {s1},
      policy |-> "ask", ks |-> TRUE, bypass |-> FALSE]}
=============================================================================
