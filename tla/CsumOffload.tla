----------------------------- MODULE CsumOffload -----------------------------
(***************************************************************************)
(* What the "csum" engine (csumonly.c) does to the checksums of a packet:  *)
(* it parses the headers into info, looks for a tunnel, and then computes  *)
(* each checksum or leaves it to the port. info is cleared once for a      *)
(* burst, not for each packet. A header is known by its place: the inner   *)
(* one of a tunnel or the only one (ip, l4), and the outer one (oip, oudp).*)
(***************************************************************************)
EXTENDS Integers, Sequences

CONSTANTS
    Packets,        \* the packets that may arrive
    Offloads,       \* bound: the settings of txp->dev_conf.txmode.offloads tried
    BurstLen        \* bound: packets of a burst

L3 == {"ipv4", "ipv6", "none"}
L4 == {"udp", "tcp", "sctp", "gre", "ipip", "none"}
Ports == {"plain", "gtp", "vxlan gpe", "vxlan", "geneve"}

\* What follows the tunnel header: an IP packet, a frame, neither, or a GTP control message.
Payloads == {"ip", "frame", "control", "none"}

\* zero: the two bytes where an outer UDP header has its checksum are 0; izero: the same of the
\* inner header. long: it exceeds the segment size of TSO. len: the length of the inner, or
\* only, IP packet.
PacketType == [l3 : L3, l4 : L4, port : Ports, payload : Payloads, il3 : L3, il4 : L4,
               zero : BOOLEAN, izero : BOOLEAN, long : BOOLEAN, len : Nat]

\* There is an inner header just when something with headers is carried; what is carried over GTP
\* is not a frame.
Carries(p) ==
    /\ p.payload = "ip" => p.il3 # "none"
    /\ p.payload \in {"control", "none"} => p.il3 = "none"
    /\ p.payload = "frame" => p.port # "gtp"
    /\ p.il3 = "none" => p.il4 = "none"

ASSUME PacketsAssumption == Packets \subseteq PacketType /\ \A p \in Packets : Carries(p)
ASSUME OffloadsAssumption == Offloads \subseteq SUBSET {"ip", "udp", "tcp", "sctp", "outer ip", "outer udp"}
ASSUME BurstLenAssumption == BurstLen \in Nat

VARIABLES
    txp,        \* the settings of the port the packets are sent to
    info,       \* struct testpmd_offload_info
    sent        \* the packets of the burst and what was done to each

Settings == [tx_offloads : Offloads, tso : BOOLEAN, tunnel_tso : BOOLEAN, gso : BOOLEAN, parse_tunnel : BOOLEAN]

cvars == <<txp, info, sent>>

Cleared == [ethertype |-> "none", l4_proto |-> "none", is_tunnel |-> FALSE,
            outer_ethertype |-> "none", outer_l4_proto |-> "none"]

-----------------------------------------------------------------------------
\* parse_ipv4() and parse_ipv6() fill the protocol; the caller knows the type.
parse_ip(i, l3, l4) == [i EXCEPT !.ethertype = l3, !.l4_proto = l4]

\* A frame that is not IP has no protocol.
parse_ethernet(i, l3, l4) == parse_ip(i, l3, IF l3 = "none" THEN "none" ELSE l4)

update_tunnel_outer(i) ==
    [i EXCEPT !.is_tunnel = TRUE, !.outer_ethertype = i.ethertype, !.outer_l4_proto = i.l4_proto]

\* A control message has no inner packet; data that is not IP leaves the outer type in place.
parse_gtp(i, p) ==
    LET o == update_tunnel_outer(i)
    IN CASE p.payload = "control" -> parse_ip(o, "none", "none")
         [] p.payload = "ip" -> parse_ip(o, p.il3, p.il4)
         [] OTHER -> o

parse_vxlan(i, p) == parse_ethernet(update_tunnel_outer(i), p.il3, p.il4)

\* Mutant: a tunnel before it is known what is carried.
parse_typed_Early(i, p) ==
    CASE p.payload = "ip" -> parse_ip(update_tunnel_outer(i), p.il3, p.il4)
      [] p.payload = "frame" -> parse_ethernet(update_tunnel_outer(i), p.il3, p.il4)
      [] OTHER -> update_tunnel_outer(i)

\* vxlan-gpe, geneve and gre say what they carry; anything but IP and frames is no tunnel.
parse_typed(i, p) ==
    CASE p.payload = "ip" -> parse_ip(update_tunnel_outer(i), p.il3, p.il4)
      [] p.payload = "frame" -> parse_ethernet(update_tunnel_outer(i), p.il3, p.il4)
      [] OTHER -> i

\* IP in IP is known by the version of the inner header; outer_l4_proto is not written.
parse_encap_ip(i, p) ==
    IF p.payload = "ip"
    THEN [parse_ip(i, p.il3, p.il4) EXCEPT !.is_tunnel = TRUE, !.outer_ethertype = i.ethertype]
    ELSE i

\* Mutant: is_tunnel stays as the packet before left it.
Parsed_Sticky(t, i, p) ==
    LET e == parse_ethernet(i, p.l3, p.l4)
    IN IF ~t.parse_tunnel THEN e
       ELSE CASE e.l4_proto = "udp" /\ p.port = "gtp" -> parse_gtp(e, p)
              [] e.l4_proto = "udp" /\ p.port = "vxlan" -> parse_vxlan(e, p)
              [] e.l4_proto = "udp" /\ p.port \in {"vxlan gpe", "geneve"} -> parse_typed(e, p)
              [] e.l4_proto = "gre" -> parse_typed(e, p)
              [] e.l4_proto = "ipip" -> parse_encap_ip(e, p)
              [] OTHER -> e

\* The dissection of a packet, when t are the settings of the port.
Parsed(t, i, p) ==
    LET e == parse_ethernet([i EXCEPT !.is_tunnel = FALSE], p.l3, p.l4)
    IN IF ~t.parse_tunnel THEN e
       ELSE CASE e.l4_proto = "udp" /\ p.port = "gtp" -> parse_gtp(e, p)
              [] e.l4_proto = "udp" /\ p.port = "vxlan" -> parse_vxlan(e, p)
              [] e.l4_proto = "udp" /\ p.port \in {"vxlan gpe", "geneve"} -> parse_typed(e, p)
              [] e.l4_proto = "gre" -> parse_typed(e, p)
              [] e.l4_proto = "ipip" -> parse_encap_ip(e, p)
              [] OTHER -> e

-----------------------------------------------------------------------------
\* What became of each checksum, what inner headers the outer UDP checksum was computed over,
\* and whether something else may have been written to.
Ways == {"as received", "hardware", "software", "zeroed"}
Outcome == [ip : Ways, l4 : Ways, oip : Ways, oudp : Ways, over : {<<>>} \cup (Ways \X Ways), stray : BOOLEAN]
Untouched == [ip |-> "as received", l4 |-> "as received", oip |-> "as received",
              oudp |-> "as received", over |-> <<>>, stray |-> FALSE]

By(t, offload, otherwise) == IF offload \in t.tx_offloads THEN "hardware" ELSE otherwise

\* Which packets the port is to cut into segments.
Tso(t, i, p) == p.long /\ IF i.is_tunnel THEN t.tunnel_tso ELSE t.tso

\* Does info describe the header that the pointer l3_hdr was moved to?
Faithful(i, p) == i.is_tunnel => p.payload \in {"ip", "frame"}

UdpIsZero(i, p) == IF i.is_tunnel THEN p.izero ELSE p.zero

\* ipv4_hdr->total_length & 0x3 on a little-endian host: the length is in network order, so
\* the bits tested are those of its upper byte. Of an IPv6 header the test reads a part of the
\* flow label, which is 0 here.
LengthTest(i, p) == i.ethertype = "ipv4" => (p.len \div 256) % 4 = 0

inner_ip(t, i, p) ==
    IF i.ethertype = "ipv6" THEN "as received"
    ELSE IF i.l4_proto = "tcp" /\ Tso(t, i, p) THEN "hardware" ELSE By(t, "ip", "software")

inner_l4(t, i, p) ==
    CASE i.l4_proto = "udp" -> IF UdpIsZero(i, p) THEN "as received" ELSE By(t, "udp", "software")
      [] i.l4_proto = "tcp" -> IF Tso(t, i, p) THEN "hardware" ELSE By(t, "tcp", "software")
      [] i.l4_proto = "sctp" -> IF LengthTest(i, p) THEN By(t, "sctp", "zeroed") ELSE "zeroed"
      [] OTHER -> "as received"

process_inner_cksums(t, r, i, p) ==
    IF i.ethertype = "none" THEN r
    ELSE IF ~Faithful(i, p) THEN [r EXCEPT !.stray = TRUE]
    ELSE [r EXCEPT !.ip = inner_ip(t, i, p), !.l4 = inner_l4(t, i, p)]

\* An outer_l4_proto of another packet makes it write where the packet has no UDP header.
process_outer_cksums(t, r, i, p) ==
    LET tso_enabled == i.l4_proto = "tcp" /\ i.ethertype # "none" /\ (Tso(t, i, p) \/ t.gso)
        done == [r EXCEPT !.oip = IF i.outer_ethertype = "ipv4" THEN By(t, "outer ip", "software") ELSE @]
        oudp == IF tso_enabled THEN By(t, "outer udp", "zeroed")
                ELSE By(t, "outer udp", IF p.zero THEN "as received" ELSE "software")
    IN IF i.outer_l4_proto # "udp" \/ oudp = "as received" THEN done
       ELSE IF p.l4 # "udp" THEN [done EXCEPT !.stray = TRUE]
       ELSE [done EXCEPT !.oudp = oudp, !.over = <<r.ip, r.l4>>]

\* Mutant: the outer headers first.
Treated_OuterFirst(t, i, p) ==
    process_inner_cksums(t, IF i.is_tunnel THEN process_outer_cksums(t, Untouched, i, p) ELSE Untouched, i, p)

\* The checksums of inner headers are processed first, then those of outer headers.
Treated(t, i, p) ==
    LET r == process_inner_cksums(t, Untouched, i, p)
    IN IF i.is_tunnel THEN process_outer_cksums(t, r, i, p) ELSE r

-----------------------------------------------------------------------------
CInit ==
    /\ txp \in Settings
    /\ info = Cleared
    /\ sent = <<>>

\* pkt_burst_checksum_forward(): a burst begins, and its packets are handled one by one.
NextBurst ==
    /\ sent # <<>>
    /\ info' = Cleared
    /\ sent' = <<>>
    /\ UNCHANGED txp

Forward(p) ==
    /\ Len(sent) < BurstLen
    /\ info' = Parsed(txp, info, p)
    /\ sent' = Append(sent, [pkt |-> p, done |-> Treated(txp, Parsed(txp, info, p), p)])
    /\ UNCHANGED txp

CNext == NextBurst \/ \E p \in Packets : Forward(p)

CSpec == CInit /\ [][CNext]_cvars

-----------------------------------------------------------------------------
\* The packet k follows one with an outer UDP header in its burst, and is IP in IP.
AfterUdpTunnel(k) ==
    sent[k].pkt.l4 = "ipip" /\ \E j \in 1 .. k - 1 : Parsed(txp, Cleared, sent[j].pkt).outer_l4_proto = "udp"

\* What is done to a packet does not depend on the packets before it in the burst, although
\* info is not cleared between them; but for IP in IP, which leaves outer_l4_proto as it was
\* (csumonly.c:440).
EachAlone ==
    \A k \in DOMAIN sent :
        AfterUdpTunnel(k) \/ sent[k].done = Treated(txp, Parsed(txp, Cleared, sent[k].pkt), sent[k].pkt)

\* Nothing but checksums is written, but in that case and when the data behind a GTP header is
\* not IP: then the parser returns with the type of the outer header (csumonly.c:231). The
\* comment at csumonly.c:767 promises more: what is not supported is not touched.
StrayWritesExplained ==
    \A k \in DOMAIN sent : sent[k].done.stray =>
        AfterUdpTunnel(k) \/ (sent[k].pkt.port = "gtp" /\ sent[k].pkt.payload = "none")

\* An outer UDP checksum computed in software covers the inner headers as they are when they
\* leave the program, and is not put on a packet that the port or GSO cuts into segments; and no
\* checksum is left out but that of SCTP, which has no software path.
ChecksumsFinal ==
    \A k \in DOMAIN sent :
        LET r == sent[k].done
        IN /\ r.oudp = "software" => /\ r.over = <<r.ip, r.l4>>
                                     /\ ~(sent[k].pkt.il4 = "tcp" /\ (txp.gso \/ (txp.tunnel_tso /\ sent[k].pkt.long)))
           /\ r.l4 = "zeroed" => "sctp" \in {sent[k].pkt.l4, sent[k].pkt.il4}

CTypeOK ==
    /\ txp \in Settings
    /\ info \in [ethertype : L3, l4_proto : L4, is_tunnel : BOOLEAN, outer_ethertype : L3, outer_l4_proto : L4]
    /\ sent \in Seq([pkt : Packets, done : Outcome])
=============================================================================
