---------------------------- MODULE DemoOptions ----------------------------
(***************************************************************************)
(* How a demo server starts (cpp-14-build/src/main.cc): parser_init takes  *)
(* the options of its command line pair by pair, main() checks the ports   *)
(* they name, starts them one after the other and waits for their links.   *)
(*                                                                         *)
(* A list of MAC addresses is a sequence that says of each whether it has  *)
(* six parts; numbers that stoi refuses end the program before main()      *)
(* looks at them and are left out.                                         *)
(***************************************************************************)
EXTENDS Integers, SequencesExt

CONSTANTS
    NbDevices,      \* Ethernet devices of the host
    MaxItems,       \* bound: items of a list
    MaxPairs        \* bound: pairs of an option and its value

VARIABLES
    ingress_mac,        \* addresses kept of --ingress-side-server-mac
    egress_mac,         \* addresses kept of --egress-side-server-mac
    ingress_port_id,    \* _ingress_side_port_id, -1: none
    egress_port_id,     \* _egress_side_port_id
    port_mask,          \* ports whose bit is set
    started,            \* ports that have been started
    state,              \* where main() is, or how it ended
    pairs               \* pairs read so far (bound)

options == <<ingress_mac, egress_mac, ingress_port_id, egress_port_id>>
vars == <<options, port_mask, started, state, pairs>>

Init ==
    /\ ingress_mac = 0 /\ egress_mac = 0
    /\ ingress_port_id = -1
    /\ egress_port_id = << >>
    /\ port_mask = {} /\ started = {}
    /\ state = "options"
    /\ pairs = 0

-----------------------------------------------------------------------------
Numbers == 0 .. NbDevices \cup {-1}
MacLists == BoundedSeq(BOOLEAN, MaxItems)
PortLists == BoundedSeq(Numbers, MaxItems)

\* The items of a list join those of earlier options of its name; a bad one ends the list
\* and throws all of them away.
Kept(have, list, good) == IF ToSet(list) \subseteq good THEN have \o list ELSE << >>

KeptMacs(n, list) == Len(Kept([i \in 1 .. n |-> TRUE], list, {TRUE}))

Pair ==
    /\ state = "options"
    /\ pairs < MaxPairs
    /\ pairs' = pairs + 1
    /\ UNCHANGED <<port_mask, started, state>>

IngressMac == Pair /\ (\E list \in MacLists : ingress_mac' = KeptMacs(ingress_mac, list))
              /\ UNCHANGED <<egress_mac, ingress_port_id, egress_port_id>>

EgressMac == Pair /\ (\E list \in MacLists : egress_mac' = KeptMacs(egress_mac, list))
             /\ UNCHANGED <<ingress_mac, ingress_port_id, egress_port_id>>

\* The last one given counts; a negative number is none.
IngressPort == Pair /\ ingress_port_id' \in Numbers
               /\ UNCHANGED <<ingress_mac, egress_mac, egress_port_id>>

EgressPorts == Pair /\ (\E list \in PortLists : egress_port_id' = Kept(egress_port_id, list, Nat))
               /\ UNCHANGED <<ingress_mac, egress_mac, ingress_port_id>>

\* The line ends, or with an option that is not known or has no value.
EndOfOptions ==
    /\ state = "options"
    /\ state' = IF ingress_mac = 0 \/ egress_mac = 0 \/ ingress_port_id = -1 \/ egress_port_id = << >>
                THEN "usage" ELSE "check ports"
    /\ UNCHANGED <<options, port_mask, started, pairs>>

-----------------------------------------------------------------------------
PortsNamed == {ingress_port_id} \cup ToSet(egress_port_id)
NamedTwice == ~IsInjective(<<ingress_port_id>> \o egress_port_id)

nb_ports == 1

CheckPorts ==
    /\ state = "check ports"
    /\ IF NamedTwice \/ \E p \in PortsNamed : p >= nb_ports
       THEN state' = "invalid ports" /\ UNCHANGED port_mask
       ELSE state' = "start ports" /\ port_mask' = PortsNamed
    /\ UNCHANGED <<options, started, pairs>>

\* Ports are configured and started in ascending order; the first that fails ends it.
StartPort ==
    /\ state = "start ports"
    /\ \E p \in PortsNamed \ started :
          /\ \A q \in PortsNamed \ started : p <= q
          /\ \/ started' = started \cup {p} /\ UNCHANGED state
             \/ state' = "port failed" /\ UNCHANGED started
    /\ UNCHANGED <<options, port_mask, pairs>>

\* Every link must come up within nine seconds.
CheckLinks ==
    /\ state = "start ports"
    /\ started = PortsNamed
    /\ state' \in {"running", "links down"}
    /\ UNCHANGED <<options, port_mask, started, pairs>>

Next ==
    \/ IngressMac \/ EgressMac \/ IngressPort \/ EgressPorts \/ EndOfOptions
    \/ CheckPorts \/ StartPort \/ CheckLinks

Spec == Init /\ [][Next]_vars

-----------------------------------------------------------------------------
\* The usage text asks for an ingress-side port and a list of egress-side ports: a line that
\* names different ports, each of a device of the host, is not refused for its ports. (The
\* number of devices is a 1 in the code, with the call that counts them in a comment, so that
\* no line with two different ports is ever accepted.)
AcceptedLinesStart ==
    state = "invalid ports" => NamedTwice \/ \E p \in PortsNamed : p >= NbDevices
=============================================================================
