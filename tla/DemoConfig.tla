----------------------------- MODULE DemoConfig -----------------------------
(***************************************************************************)
(* What a pair of demo servers is started with (cpp-14-build/src/main.cc): *)
(* the ingress side of one host takes frames from local servers, copies    *)
(* each of them to every link and stamps them with a sequence number; the  *)
(* egress side of its peer forwards the first copy and drops the others.   *)
(***************************************************************************)
EXTENDS Naturals, Sequences, FiniteSets

CONSTANTS
    NbLinks,            \* egress-side ports, the redundant links of the pair
    NbIngressServers,   \* ingress_server_count() of the sending host
    NbEgressServers,    \* egress_server_count() of the receiving host
    MAX_PKT_BURST,      \* 32 in the code
    CounterMod,         \* 2^40 in the code: the width of the stamped counter
    TxDesc,             \* descriptors of a transmit ring (512)
    RxDesc,             \* descriptors of a receive ring (128)
    NbMbuf,             \* size of the sending host's mbuf pool (8192)
    MaxFrames,          \* bound: frames accepted from each server
    MaxRestarts,        \* bound: restarts of each host
    MaxFlaps            \* bound: failures of links

ASSUME LinksAssumption == NbLinks \in Nat \ {0}

\* The index travels in one byte (uint8_t server_index of update_source_mac).
ASSUME ServersAssumption == /\ NbIngressServers \in 1 .. 256
                            /\ NbEgressServers \in 1 .. 256

ASSUME WidthsAssumption == /\ MAX_PKT_BURST \in Nat \ {0}
                           /\ CounterMod \in Nat \ {0}
                           /\ TxDesc \in Nat \ {0}
                           /\ RxDesc \in Nat \ {0}
                           /\ NbMbuf \in Nat

ASSUME BoundsAssumption == /\ MaxFrames \in Nat
                           /\ MaxRestarts \in Nat
                           /\ MaxFlaps \in Nat

Links == 1 .. NbLinks                         \* in the order of _egress_side_port_id
IngressServers == 0 .. (NbIngressServers - 1)
EgressServers == 0 .. (NbEgressServers - 1)

\* A stamped frame: srv and seq are the two parts of the rewritten source MAC.
\* The other two are not in the frame: inc numbers the run of the sending
\* process that stamped it and id the frame among those its server offered.
Packet == [srv : IngressServers, seq : Nat, inc : Nat, id : Nat]

\* update_source_mac keeps the low 40 bits of the counter.
update_source_mac(server_index, server_counter, run, frame) ==
    [srv |-> server_index, seq |-> server_counter % CounterMod,
     inc |-> run, id |-> frame]
=============================================================================
