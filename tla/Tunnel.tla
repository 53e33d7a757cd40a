------------------------------- MODULE Tunnel -------------------------------
(***************************************************************************)
(* What a tunnel backend promises its caller: the contract of the trait    *)
(* TunnelBackend (vpnmgr-tunnel/src/lib.rs) as the daemon relies on it.    *)
(* Traffic comes out of a server only because the caller asked for that    *)
(* server; an operation reports success only when it does; and the kill    *)
(* switch is lifted only together with the connection.                     *)
(***************************************************************************)
CONSTANTS Servers, NoServer

VARIABLES
    wanted,   \* server of the last up or switch_endpoint that was called
    conn,     \* server of the last one that returned Ok and still stands
    exit,     \* server that ordinary traffic comes out of, if it is tunnelled
    guarded   \* the kill switch is in force

vars == <<wanted, conn, exit, guarded>>

TypeOK ==
    /\ wanted \in Servers \cup {NoServer}
    /\ conn \in Servers \cup {NoServer}
    /\ exit \in Servers \cup {NoServer}
    /\ guarded \in BOOLEAN

Init ==
    /\ wanted = NoServer
    /\ conn = NoServer
    /\ exit = NoServer
    /\ guarded = FALSE

\* up or switch_endpoint is called.
Ask(s) ==
    /\ wanted' = s
    /\ UNCHANGED <<conn, exit, guarded>>

\* up engages the kill switch.
Guard ==
    /\ conn = NoServer
    /\ guarded' = TRUE
    /\ UNCHANGED <<wanted, conn, exit>>

\* The tunnel carries traffic to the server asked for.
Attach ==
    /\ exit' = wanted
    /\ UNCHANGED <<wanted, conn, guarded>>

\* The tunnel stops carrying traffic.
Detach ==
    /\ exit' = NoServer
    /\ UNCHANGED <<wanted, conn, guarded>>

\* The operation returns Ok.
Report ==
    /\ wanted # NoServer
    /\ exit = wanted
    /\ conn' = wanted
    /\ UNCHANGED <<wanted, exit, guarded>>

\* down, the clean-up of a failed up, or the end of the daemon.
TearDown ==
    /\ conn' = NoServer
    /\ exit' \in {exit, NoServer}
    /\ guarded' \in {guarded, FALSE}
    /\ UNCHANGED wanted

Next ==
    \/ \E s \in Servers : Ask(s)
    \/ Guard
    \/ Attach
    \/ Detach
    \/ Report
    \/ TearDown

Spec == Init /\ [][Next]_vars

=============================================================================
