------------------------------ MODULE MCEngines ------------------------------
EXTENDS Engines

CONSTANTS c1, c2, s1, s2

\* Both streams on one core, or each on its own.
OnOne == [s \in Streams |-> c1]
OnTwo == [s \in Streams |-> IF s = s1 THEN c1 ELSE c2]

Of(modes, splits, gros, gsos, sizes, flushes, retries, layouts) ==
    [mode : modes, split : splits, gro : gros, gso : gsos, bufsz : sizes, flush : flushes,
     retry : retries, lcore : layouts]

Off == {FALSE}
No == {"off"}
Both == {OnOne, OnTwo}

MCConfs ==
    UNION {Of({"io", "icmpecho"}, No, No, Off, {0}, Off, BOOLEAN, Both),
           Of({"rxonly", "ieee1588"}, No, No, Off, {0}, Off, Off, Both),
           Of({"txonly"}, {"off"}, No, Off, {0}, Off, BOOLEAN, {OnTwo}),
           Of({"txonly"}, {"rand"}, No, Off, {0}, Off, BOOLEAN, {OnOne}),
           Of({"flowgen"}, No, No, Off, {0}, Off, BOOLEAN, {OnOne}),
           Of({"csum"}, {"off", "on"}, No, Off, {0}, Off, BOOLEAN, Both),
           Of({"csum"}, {"off", "on"}, {"burst", "context"}, Off, {0}, Off, BOOLEAN, {OnOne}),
           Of({"csum"}, No, {"context"}, Off, {0}, Off, Off, {OnTwo}),
           Of({"csum"}, No, No, {TRUE}, {0}, Off, BOOLEAN, {OnOne}),
           Of({"noisy"}, No, No, Off, {0}, Off, BOOLEAN, Both),
           Of({"noisy"}, No, No, Off, {3}, BOOLEAN, BOOLEAN, {OnOne}),
           Of({"noisy"}, No, No, Off, {1}, {TRUE}, Off, {OnTwo})}

\* Packets: plain ones, tunnels with packets in them, and tunnels that carry nothing.
P(l3, l4, port, payload, il3, il4, zero, izero, long, len) ==
    [l3 |-> l3, l4 |-> l4, port |-> port, payload |-> payload, il3 |-> il3, il4 |-> il4,
     zero |-> zero, izero |-> izero, long |-> long, len |-> len]

\* 60 and 300 bytes: the second fails the test of the length, though it is a multiple of 4.
Single == {P(l3, "udp", "plain", "none", "none", "none", z, FALSE, FALSE, 60) : l3 \in {"ipv4", "ipv6"}, z \in BOOLEAN}
     \cup {P(l3, "tcp", "plain", "none", "none", "none", FALSE, FALSE, g, 60) : l3 \in {"ipv4", "ipv6"}, g \in BOOLEAN}
     \cup {P(l3, "sctp", "plain", "none", "none", "none", FALSE, FALSE, FALSE, n) : l3 \in {"ipv4", "ipv6"}, n \in {60, 300}}
     \cup {P("none", "none", "plain", "none", "none", "none", FALSE, FALSE, FALSE, 60)}

Inner(l3, l4, port, payload, z) ==
    {P(l3, l4, port, payload, "ipv6", "udp", z, u, FALSE, 60) : u \in BOOLEAN}
    \cup {P(l3, l4, port, payload, "ipv4", "tcp", z, FALSE, g, 60) : g \in BOOLEAN}

Nothing(l3, l4, port, payload, z) == {P(l3, l4, port, payload, "none", "none", z, FALSE, FALSE, 60)}

MCPackets == UNION (
    {Single} \cup
    {Inner("ipv4", "udp", port, "ip", z) : port \in {"gtp", "vxlan gpe", "geneve"}, z \in BOOLEAN} \cup
    {Inner("ipv6", "udp", "vxlan", "frame", z) : z \in BOOLEAN} \cup
    {Inner("ipv4", l4, "plain", "ip", z) : l4 \in {"gre", "ipip"}, z \in BOOLEAN} \cup
    {Nothing("ipv4", "udp", "gtp", payload, FALSE) : payload \in {"control", "none"}} \cup
    {Nothing("ipv4", "udp", port, "frame", FALSE) : port \in {"vxlan", "vxlan gpe", "geneve"}} \cup
    {Nothing("ipv6", l4, "plain", "none", FALSE) : l4 \in {"gre", "ipip"}} \cup
    {Nothing("ipv4", "udp", "geneve", "none", FALSE)})

MCOffloads == {{}, {"ip"}, {"outer udp"}, {"ip", "udp", "tcp", "sctp"},
               {"ip", "udp", "tcp", "sctp", "outer ip", "outer udp"}}
=============================================================================
