------------------------------ MODULE MCBypass ------------------------------
EXTENDS Bypass, TLC

CONSTANTS eth, tun, wg

\* Four addresses in each family; net/len in the older or the newer one.
V4(net, len) == [v6 |-> FALSE, net |-> net, len |-> len]
V6(net, len) == [v6 |-> TRUE, net |-> net, len |-> len]
At(v6, bits) == [v6 |-> v6, bits |-> bits]

\* The lower half of each is private.
MCPrivate == {V4(0, 1), V6(0, 1)}
MCNever == {V6(3, 2)}

\* A tunnel with its nameserver in private or in public space.
MCClients == {{At(FALSE, 1)}, {At(FALSE, 2)}}
MCAnswers == {{}, {At(FALSE, 0)}}
MCSettings ==
    {DefaultSection,
     [cidrs |-> {V4(0, 1)}, hosts |-> TRUE, otherVpns |-> TRUE, lan |-> FALSE]}

\* A VPN that is down, one that serves a private range, and one that serves
\* part of it, a default route and a link-local prefix.
MCServed == {{}, {V4(0, 1)}, {V4(0, 2), V4(0, 0), V6(3, 2)}}
MCAttached == {V4(0, 2)}

\* The VPNs are interchangeable.
Interchangeable == Permutations({tun, wg})
=============================================================================
