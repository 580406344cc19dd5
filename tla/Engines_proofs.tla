-------------------------- MODULE Engines_proofs ----------------------------
(***************************************************************************)
(* What the forwarding engines do, for any number of cores, streams and    *)
(* mbufs, bursts of any length, all layouts and all settings. First what   *)
(* csum does to the checksums of a burst: it keeps its types, treats each  *)
(* packet as if it were the first of its burst, and writes to nothing but  *)
(* checksums, but where the properties name a case. Then the way of the    *)
(* mbufs: that none is lost or handed on twice, that the counters account  *)
(* for what was received, and that generated flows follow each other.      *)
(***************************************************************************)
EXTENDS Engines, FiniteSetTheorems, TLAPS

Info == [ethertype : L3, l4_proto : L4, is_tunnel : BOOLEAN, outer_ethertype : L3, outer_l4_proto : L4]

-----------------------------------------------------------------------------
(* Types. *)

LEMMA HeadersKeepInfo ==
    ASSUME NEW i \in Info, NEW l3 \in L3, NEW l4 \in L4
    PROVE  /\ parse_ip(i, l3, l4) \in Info
           /\ parse_ethernet(i, l3, l4) \in Info
           /\ update_tunnel_outer(i) \in Info
           /\ [i EXCEPT !.is_tunnel = FALSE] \in Info
<1>1. "none" \in L4
  BY DEF L4
<1>2. \A x \in L4 : parse_ip(i, l3, x) \in Info
  BY DEF parse_ip, Info
<1>3. update_tunnel_outer(i) \in Info /\ [i EXCEPT !.is_tunnel = FALSE] \in Info
  BY DEF update_tunnel_outer, Info
<1> QED
  BY <1>1, <1>2, <1>3 DEF parse_ethernet

LEMMA TunnelsKeepInfo ==
    ASSUME NEW i \in Info, NEW p \in Packets
    PROVE  /\ parse_gtp(i, p) \in Info
           /\ parse_vxlan(i, p) \in Info
           /\ parse_typed(i, p) \in Info
           /\ parse_encap_ip(i, p) \in Info
<1>1. p.il3 \in L3 /\ p.il4 \in L4 /\ "none" \in L3 /\ "none" \in L4
  BY PacketsAssumption DEF PacketType, L3, L4
<1> DEFINE o == update_tunnel_outer(i)
<1>2. o \in Info
  BY <1>1, HeadersKeepInfo
<1> HIDE DEF o
<1>3. /\ parse_ip(o, p.il3, p.il4) \in Info
      /\ parse_ip(o, "none", "none") \in Info
      /\ parse_ethernet(o, p.il3, p.il4) \in Info
  BY <1>1, <1>2, HeadersKeepInfo
<1>4. parse_gtp(i, p) \in Info
  <2>1. \/ parse_gtp(i, p) = parse_ip(o, "none", "none")
        \/ parse_gtp(i, p) = parse_ip(o, p.il3, p.il4)
        \/ parse_gtp(i, p) = o
    BY Zenon DEF parse_gtp, o
  <2> QED
    BY <1>2, <1>3, <2>1
<1>5. parse_vxlan(i, p) \in Info
  BY <1>3 DEF parse_vxlan, o
<1>6. parse_typed(i, p) \in Info
  <2>1. \/ parse_typed(i, p) = parse_ip(o, p.il3, p.il4)
        \/ parse_typed(i, p) = parse_ethernet(o, p.il3, p.il4)
        \/ parse_typed(i, p) = i
    BY Zenon DEF parse_typed, o
  <2> QED
    BY <1>3, <2>1
<1>7. parse_encap_ip(i, p) \in Info
  <2> DEFINE e == parse_ip(i, p.il3, p.il4)
  <2>1. e \in Info
    BY <1>1, HeadersKeepInfo
  <2> HIDE DEF e
  <2>2. [e EXCEPT !.is_tunnel = TRUE, !.outer_ethertype = i.ethertype] \in Info
    BY <2>1 DEF Info
  <2> QED
    BY <2>2 DEF parse_encap_ip, e
<1> QED
  BY <1>4, <1>5, <1>6, <1>7

LEMMA ParsedKeepsInfo ==
    ASSUME NEW t \in Settings, NEW i \in Info, NEW p \in Packets
    PROVE  Parsed(t, i, p) \in Info
<1> DEFINE e == parse_ethernet([i EXCEPT !.is_tunnel = FALSE], p.l3, p.l4)
<1>1. p.l3 \in L3 /\ p.l4 \in L4
  BY PacketsAssumption DEF PacketType
<1>2. e \in Info
  BY <1>1, HeadersKeepInfo
<1> HIDE DEF e
<1>3. Parsed(t, i, p) \in {e, parse_gtp(e, p), parse_vxlan(e, p), parse_typed(e, p), parse_encap_ip(e, p)}
  BY Zenon DEF Parsed, e
<1> QED
  BY <1>2, <1>3, TunnelsKeepInfo

-----------------------------------------------------------------------------
LEMMA InnerType ==
    ASSUME NEW t \in Settings, NEW i \in Info, NEW p \in Packets
    PROVE  inner_ip(t, i, p) \in Ways /\ inner_l4(t, i, p) \in Ways
<1>1. {By(t, "ip", "software"), By(t, "udp", "software"), By(t, "tcp", "software"), By(t, "sctp", "zeroed")} \subseteq Ways
  BY DEF By, Ways
<1>2. {"as received", "hardware", "zeroed"} \subseteq Ways
  BY DEF Ways
<1>3. inner_ip(t, i, p) \in {"as received", "hardware", By(t, "ip", "software")}
  BY Zenon DEF inner_ip
<1>4. inner_l4(t, i, p) \in {"as received", "hardware", "zeroed", By(t, "udp", "software"), By(t, "tcp", "software"),
                         By(t, "sctp", "zeroed")}
  BY Zenon DEF inner_l4
<1> QED
  BY <1>1, <1>2, <1>3, <1>4

LEMMA TreatedType ==
    ASSUME NEW t \in Settings, NEW i \in Info, NEW p \in Packets
    PROVE  Treated(t, i, p) \in Outcome
<1> DEFINE r == process_inner_cksums(t, Untouched, i, p)
<1>1. Untouched \in Outcome
  BY DEF Untouched, Outcome, Ways
<1>2. r \in Outcome
  <2>1. [Untouched EXCEPT !.stray = TRUE] \in Outcome
    BY <1>1 DEF Outcome
  <2>2. [Untouched EXCEPT !.ip = inner_ip(t, i, p), !.l4 = inner_l4(t, i, p)] \in Outcome
    BY <1>1, InnerType DEF Outcome
  <2> QED
    BY <1>1, <2>1, <2>2 DEF process_inner_cksums
<1> HIDE DEF r
<1>3. process_outer_cksums(t, r, i, p) \in Outcome
  <2>1. \A w \in Ways : By(t, "outer ip", w) \in Ways /\ By(t, "outer udp", w) \in Ways
    BY DEF By, Ways
  <2>2. {"zeroed", "as received", "software"} \subseteq Ways
    BY DEF Ways
  <2>3. \A w \in Ways : [r EXCEPT !.oip = w] \in Outcome
    BY <1>2 DEF Outcome
  <2>4. \A d \in Outcome, w \in Ways : /\ [d EXCEPT !.stray = TRUE] \in Outcome
                                     /\ [d EXCEPT !.oudp = w, !.over = <<r.ip, r.l4>>] \in Outcome
    BY <1>2 DEF Outcome
  <2>5. PICK d \in Outcome, w \in Ways :
          process_outer_cksums(t, r, i, p) \in {d, [d EXCEPT !.stray = TRUE],
                                             [d EXCEPT !.oudp = w, !.over = <<r.ip, r.l4>>]}
    <3> DEFINE oip == IF i.outer_ethertype = "ipv4" THEN By(t, "outer ip", "software") ELSE r.oip
               tso_enabled == i.l4_proto = "tcp" /\ i.ethertype # "none" /\ (Tso(t, i, p) \/ t.gso)
               oudp == IF tso_enabled THEN By(t, "outer udp", "zeroed")
                       ELSE By(t, "outer udp", IF p.zero THEN "as received" ELSE "software")
               done == [r EXCEPT !.oip = oip]
    <3>1. r.oip \in Ways
      BY <1>2 DEF Outcome
    <3>2. oip \in Ways
      BY <2>1, <2>2, <3>1
    <3>3. oudp \in Ways
      BY <2>1, <2>2
    <3>4. done \in Outcome
      BY <2>3, <3>2
    <3>5. process_outer_cksums(t, r, i, p) \in {done, [done EXCEPT !.stray = TRUE],
                                             [done EXCEPT !.oudp = oudp, !.over = <<r.ip, r.l4>>]}
      BY DEF process_outer_cksums
    <3> HIDE DEF oudp, done
    <3> QED
      BY <3>3, <3>4, <3>5
  <2> QED
    BY <2>4, <2>5
<1> QED
  BY <1>2, <1>3 DEF Treated, r

LEMMA TypeStep == CTypeOK /\ [CNext]_cvars => CTypeOK'
<1> SUFFICES ASSUME CTypeOK, [CNext]_cvars PROVE CTypeOK'
  OBVIOUS
<1>1. CASE NextBurst
  <2>1. Cleared \in Info
    BY DEF Cleared, Info, L3, L4
  <2>2. info' \in Info /\ sent' \in Seq([pkt : Packets, done : Outcome])
    BY <1>1, <2>1 DEF NextBurst
  <2> QED
    BY <1>1, <2>2 DEF NextBurst, CTypeOK, Info
<1>2. ASSUME NEW p \in Packets, Forward(p) PROVE CTypeOK'
  <2> DEFINE new == [pkt |-> p, done |-> Treated(txp, Parsed(txp, info, p), p)]
  <2>1. info' \in Info
    BY <1>2, ParsedKeepsInfo DEF Forward, CTypeOK, Info
  <2>2. Treated(txp, Parsed(txp, info, p), p) \in Outcome
    BY ParsedKeepsInfo, TreatedType DEF CTypeOK, Info
  <2>3. new \in [pkt : Packets, done : Outcome] /\ sent' = Append(sent, new)
    BY <1>2, <2>2 DEF Forward
  <2>4. sent' \in Seq([pkt : Packets, done : Outcome])
    <3> HIDE DEF new
    <3> QED
      BY <2>3 DEF CTypeOK
  <2> QED
    BY <1>2, <2>1, <2>4 DEF Forward, CTypeOK, Info
<1>3. CASE UNCHANGED cvars
  BY <1>3 DEF cvars, CTypeOK
<1> QED
  BY <1>1, <1>2, <1>3 DEF CNext

\* info is always a description of headers, whatever packets follow one another in a burst, and
\* each checksum ends in one of the four ways.
THEOREM TypeCorrect == CSpec => []CTypeOK
<1>1. CInit => CTypeOK
  <2> SUFFICES ASSUME CInit PROVE CTypeOK
    OBVIOUS
  <2>1. Cleared \in Info /\ sent \in Seq([pkt : Packets, done : Outcome])
    BY DEF Cleared, Info, L3, L4, CInit
  <2> QED
    BY <2>1 DEF CInit, CTypeOK, Info
<1> QED
  BY <1>1, TypeStep, PTL DEF CSpec

-----------------------------------------------------------------------------
(* What the dissection of a packet keeps of the packet before it. *)

SameInner(a, b) == a.ethertype = b.ethertype /\ a.l4_proto = b.l4_proto /\ a.is_tunnel = b.is_tunnel

\* The header of the packet itself is described anew.
Header(i, p) == parse_ethernet([i EXCEPT !.is_tunnel = FALSE], p.l3, p.l4)

LEMMA HeaderIsNew ==
    ASSUME NEW i \in Info, NEW p \in Packets
    PROVE  /\ Header(i, p) \in Info
           /\ Header(i, p).ethertype = p.l3
           /\ Header(i, p).l4_proto = IF p.l3 = "none" THEN "none" ELSE p.l4
           /\ Header(i, p).is_tunnel = FALSE
           /\ Header(i, p).outer_ethertype = i.outer_ethertype
           /\ Header(i, p).outer_l4_proto = i.outer_l4_proto
<1> DEFINE c == [i EXCEPT !.is_tunnel = FALSE]
<1>1. p.l3 \in L3 /\ p.l4 \in L4
  BY PacketsAssumption DEF PacketType
<1>2. c \in Info /\ c.is_tunnel = FALSE /\ c.outer_ethertype = i.outer_ethertype /\ c.outer_l4_proto = i.outer_l4_proto
  BY DEF Info
<1> HIDE DEF c
<1>3. parse_ethernet(c, p.l3, p.l4) \in Info
  BY <1>1, <1>2, HeadersKeepInfo
<1> QED
  BY <1>2, <1>3 DEF Header, parse_ethernet, parse_ip, Info, c

\* A tunnel header is described by the header before it.
LEMMA OuterIsNew ==
    ASSUME NEW e \in Info, NEW f \in Info, SameInner(e, f)
    PROVE  update_tunnel_outer(e) = update_tunnel_outer(f)
BY DEF update_tunnel_outer, Info, SameInner

\* The inner header of IP in IP: all is described anew but the protocol before it.
LEMMA EncapIsNew ==
    ASSUME NEW e \in Info, NEW p \in Packets, p.payload = "ip"
    PROVE  /\ parse_encap_ip(e, p).ethertype = p.il3
           /\ parse_encap_ip(e, p).l4_proto = p.il4
           /\ parse_encap_ip(e, p).is_tunnel = TRUE
           /\ parse_encap_ip(e, p).outer_ethertype = e.ethertype
           /\ parse_encap_ip(e, p).outer_l4_proto = e.outer_l4_proto
BY DEF parse_encap_ip, parse_ip, Info

\* What two dissections of a packet p have in common, when the first begins with i and the
\* second with a cleared info.
Alike(r, c, i, p) ==
    /\ SameInner(r, c)
    /\ r.is_tunnel => r.outer_ethertype = c.outer_ethertype
    /\ \/ r.is_tunnel => r.outer_l4_proto = c.outer_l4_proto
       \/ p.l4 = "ipip" /\ r.outer_l4_proto = i.outer_l4_proto /\ c.outer_l4_proto = "none"
    /\ r.outer_l4_proto = c.outer_l4_proto \/ r.outer_l4_proto = i.outer_l4_proto

LEMMA ParsedAlike ==
    ASSUME NEW t \in Settings, NEW i \in Info, NEW p \in Packets
    PROVE  Alike(Parsed(t, i, p), Parsed(t, Cleared, p), i, p)
<1> DEFINE e == Header(i, p)
           f == Header(Cleared, p)
<1>1. Cleared \in Info /\ Cleared.outer_l4_proto = "none"
  BY DEF Cleared, Info, L3, L4
<1>2. /\ e \in Info /\ f \in Info
      /\ SameInner(e, f)
      /\ e.is_tunnel = FALSE
      /\ e.outer_l4_proto = i.outer_l4_proto /\ f.outer_l4_proto = "none"
      /\ e.l4_proto = "ipip" => p.l4 = "ipip"
  <2>1. /\ e \in Info /\ e.ethertype = p.l3 /\ e.l4_proto = IF p.l3 = "none" THEN "none" ELSE p.l4
        /\ e.is_tunnel = FALSE /\ e.outer_l4_proto = i.outer_l4_proto
    BY HeaderIsNew
  <2>2. /\ f \in Info /\ f.ethertype = p.l3 /\ f.l4_proto = IF p.l3 = "none" THEN "none" ELSE p.l4
        /\ f.is_tunnel = FALSE /\ f.outer_l4_proto = "none"
    BY <1>1, HeaderIsNew
  <2> HIDE DEF e, f
  <2>3. e.l4_proto = "ipip" => p.l4 = "ipip"
    BY <2>1
  <2> QED
    BY <2>1, <2>2, <2>3 DEF SameInner
<1>3. \/ Parsed(t, i, p) = e /\ Parsed(t, Cleared, p) = f
      \/ Parsed(t, i, p) = parse_gtp(e, p) /\ Parsed(t, Cleared, p) = parse_gtp(f, p)
      \/ Parsed(t, i, p) = parse_vxlan(e, p) /\ Parsed(t, Cleared, p) = parse_vxlan(f, p)
      \/ Parsed(t, i, p) = parse_typed(e, p) /\ Parsed(t, Cleared, p) = parse_typed(f, p)
      \/ e.l4_proto = "ipip" /\ Parsed(t, i, p) = parse_encap_ip(e, p) /\ Parsed(t, Cleared, p) = parse_encap_ip(f, p)
  <2>1. e.l4_proto = f.l4_proto
    BY <1>2 DEF SameInner
  <2> DEFINE x == e.l4_proto
  <2>2. Parsed(t, i, p) = IF ~t.parse_tunnel THEN e
                       ELSE CASE x = "udp" /\ p.port = "gtp" -> parse_gtp(e, p)
                              [] x = "udp" /\ p.port = "vxlan" -> parse_vxlan(e, p)
                              [] x = "udp" /\ p.port \in {"vxlan gpe", "geneve"} -> parse_typed(e, p)
                              [] x = "gre" -> parse_typed(e, p)
                              [] x = "ipip" -> parse_encap_ip(e, p)
                              [] OTHER -> e
    BY DEF Parsed, Header
  <2>3. Parsed(t, Cleared, p) = IF ~t.parse_tunnel THEN f
                       ELSE CASE x = "udp" /\ p.port = "gtp" -> parse_gtp(f, p)
                              [] x = "udp" /\ p.port = "vxlan" -> parse_vxlan(f, p)
                              [] x = "udp" /\ p.port \in {"vxlan gpe", "geneve"} -> parse_typed(f, p)
                              [] x = "gre" -> parse_typed(f, p)
                              [] x = "ipip" -> parse_encap_ip(f, p)
                              [] OTHER -> f
    BY <2>1 DEF Parsed, Header
  <2> HIDE DEF e, f
  <2> QED
    BY <2>2, <2>3, Zenon
<1> HIDE DEF e, f
<1>4. update_tunnel_outer(e) = update_tunnel_outer(f)
  BY <1>2, OuterIsNew
<1>5. parse_gtp(e, p) = parse_gtp(f, p) /\ parse_vxlan(e, p) = parse_vxlan(f, p)
  BY <1>4, Zenon DEF parse_gtp, parse_vxlan
<1>6. \/ parse_typed(e, p) = parse_typed(f, p)
      \/ parse_typed(e, p) = e /\ parse_typed(f, p) = f
  BY <1>4, Zenon DEF parse_typed
<1>7. Alike(e, f, i, p)
  BY <1>2 DEF Alike, SameInner
<1>8. \A r : Alike(r, r, i, p)
  BY DEF Alike, SameInner
<1>9. CASE p.payload = "ip" /\ e.l4_proto = "ipip"
  <2>1. Alike(parse_encap_ip(e, p), parse_encap_ip(f, p), i, p)
    <3> DEFINE r == parse_encap_ip(e, p)
               c == parse_encap_ip(f, p)
    <3>1. /\ r.ethertype = p.il3 /\ r.l4_proto = p.il4 /\ r.is_tunnel = TRUE
          /\ r.outer_ethertype = e.ethertype /\ r.outer_l4_proto = e.outer_l4_proto
      BY <1>2, <1>9, EncapIsNew
    <3>2. /\ c.ethertype = p.il3 /\ c.l4_proto = p.il4 /\ c.is_tunnel = TRUE
          /\ c.outer_ethertype = f.ethertype /\ c.outer_l4_proto = f.outer_l4_proto
      BY <1>2, <1>9, EncapIsNew
    <3> HIDE DEF r, c
    <3>3. Alike(r, c, i, p)
      BY <1>2, <1>9, <3>1, <3>2 DEF Alike, SameInner
    <3> QED
      BY <3>3 DEF r, c
  <2> QED
    BY <1>3, <1>5, <1>6, <1>7, <1>8, <2>1
<1>10. CASE p.payload # "ip" \/ e.l4_proto # "ipip"
  <2>1. e.l4_proto = "ipip" => parse_encap_ip(e, p) = e /\ parse_encap_ip(f, p) = f
    BY <1>10 DEF parse_encap_ip
  <2> QED
    BY <1>3, <1>5, <1>6, <1>7, <1>8, <2>1
<1> QED
  BY <1>9, <1>10

\* What is done to a packet depends on these parts of info only.
LEMMA TreatedAlike ==
    ASSUME NEW t \in Settings, NEW r \in Info, NEW c \in Info, NEW p \in Packets,
           SameInner(r, c),
           r.is_tunnel => r.outer_ethertype = c.outer_ethertype,
           r.is_tunnel => (r.outer_l4_proto = "udp" <=> c.outer_l4_proto = "udp")
    PROVE  Treated(t, r, p) = Treated(t, c, p)
<1>1. r.ethertype = c.ethertype /\ r.l4_proto = c.l4_proto /\ r.is_tunnel = c.is_tunnel
  BY DEF SameInner
<1>2. (Tso(t, r, p) <=> Tso(t, c, p)) /\ (Faithful(r, p) <=> Faithful(c, p))
      /\ (UdpIsZero(r, p) <=> UdpIsZero(c, p)) /\ (LengthTest(r, p) <=> LengthTest(c, p))
  BY <1>1 DEF Tso, Faithful, UdpIsZero, LengthTest
<1>3. inner_ip(t, r, p) = inner_ip(t, c, p)
  BY <1>1, <1>2 DEF inner_ip
<1>4. inner_l4(t, r, p) = inner_l4(t, c, p)
  BY <1>1, <1>2, Zenon DEF inner_l4
<1>5. process_inner_cksums(t, Untouched, r, p) = process_inner_cksums(t, Untouched, c, p)
  BY <1>1, <1>2, <1>3, <1>4 DEF process_inner_cksums
<1> DEFINE d == process_inner_cksums(t, Untouched, r, p)
<1>6. CASE r.is_tunnel
  <2>1. process_outer_cksums(t, d, r, p) = process_outer_cksums(t, d, c, p)
    <3> HIDE DEF d
    <3> QED
      BY <1>1, <1>2, <1>6 DEF process_outer_cksums
  <2> QED
    BY <1>1, <1>5, <1>6, <2>1 DEF Treated
<1>7. CASE ~r.is_tunnel
  BY <1>1, <1>5, <1>7 DEF Treated
<1> QED
  BY <1>6, <1>7

\* info names UDP before a tunnel only when a packet of the burst has it there.
OuterUdpHasSource ==
    info.outer_l4_proto = "udp" =>
        \E j \in DOMAIN sent : Parsed(txp, Cleared, sent[j].pkt).outer_l4_proto = "udp"

EachInv == EachAlone /\ OuterUdpHasSource

LEMMA ElementIs ==
    ASSUME NEW S, NEW s \in Seq(S), NEW k \in DOMAIN s
    PROVE  s[k] \in S
OBVIOUS

LEMMA AppendIs ==
    ASSUME NEW S, NEW s \in Seq(S), NEW e \in S
    PROVE  /\ Len(s) \in Nat /\ DOMAIN s = 1 .. Len(s)
           /\ DOMAIN Append(s, e) = 1 .. Len(s) + 1
           /\ Append(s, e)[Len(s) + 1] = e
           /\ \A k \in 1 .. Len(s) : Append(s, e)[k] = s[k] /\ s[k] \in S
OBVIOUS

LEMMA EachForward ==
    ASSUME CTypeOK, EachInv, NEW p \in Packets, Forward(p)
    PROVE  EachInv'
<1> DEFINE r == Parsed(txp, info, p)
           c == Parsed(txp, Cleared, p)
           new == [pkt |-> p, done |-> Treated(txp, r, p)]
           n == Len(sent)
<1>1. info \in Info /\ Cleared \in Info /\ r \in Info /\ c \in Info /\ txp \in Settings
  BY ParsedKeepsInfo DEF CTypeOK, Info, Cleared, L3, L4
<1>2. txp' = txp /\ info' = r /\ sent' = Append(sent, new)
  BY DEF Forward
<1>3. new \in [pkt : Packets, done : Outcome] /\ new.pkt = p /\ new.done = Treated(txp, r, p)
  BY <1>1, TreatedType
<1>4. Alike(r, c, info, p)
  BY <1>1, ParsedAlike
<1>5. /\ n \in Nat /\ DOMAIN sent = 1 .. n /\ DOMAIN sent' = 1 .. n + 1
      /\ sent'[n + 1] = new
      /\ \A k \in 1 .. n : sent'[k] = sent[k]
  <2> HIDE DEF new
  <2> QED
    BY <1>2, <1>3, AppendIs DEF CTypeOK
<1> HIDE DEF r, c, new, n
<1>6. OuterUdpHasSource'
  <2> SUFFICES ASSUME r.outer_l4_proto = "udp"
               PROVE  \E j \in 1 .. n + 1 : Parsed(txp, Cleared, sent'[j].pkt).outer_l4_proto = "udp"
    BY <1>2, <1>5 DEF OuterUdpHasSource
  <2>1. CASE c.outer_l4_proto = "udp"
    <3>1. n + 1 \in 1 .. n + 1
      BY <1>5
    <3> QED
      BY <1>3, <1>5, <2>1, <3>1 DEF c
  <2>2. CASE info.outer_l4_proto = "udp"
    <3>1. PICK j \in 1 .. n : Parsed(txp, Cleared, sent[j].pkt).outer_l4_proto = "udp"
      BY <1>5, <2>2 DEF EachInv, OuterUdpHasSource
    <3>2. j \in 1 .. n + 1
      BY <1>5
    <3> QED
      BY <1>5, <3>1, <3>2
  <2> QED
    BY <1>4, <2>1, <2>2 DEF Alike
<1>7. EachAlone'
  <2> SUFFICES ASSUME NEW k \in 1 .. n + 1
               PROVE  AfterUdpTunnel(k)' \/ sent'[k].done = Treated(txp, Parsed(txp, Cleared, sent'[k].pkt), sent'[k].pkt)
    BY <1>2, <1>5 DEF EachAlone
  <2>1. CASE k \in 1 .. n
    <3>1. \A j \in 1 .. k - 1 : j \in 1 .. n
      BY <1>5, <2>1
    <3>2. AfterUdpTunnel(k) => AfterUdpTunnel(k)'
      BY <1>2, <1>5, <2>1, <3>1 DEF AfterUdpTunnel
    <3> QED
      BY <1>5, <2>1, <3>2 DEF EachInv, EachAlone
  <2>2. CASE k = n + 1
    <3>1. sent'[k].pkt = p /\ sent'[k].done = Treated(txp, r, p)
      BY <1>3, <1>5, <2>2
    <3>2. CASE p.l4 = "ipip" /\ info.outer_l4_proto = "udp"
      <4>1. PICK j \in 1 .. n : Parsed(txp, Cleared, sent[j].pkt).outer_l4_proto = "udp"
        BY <1>5, <3>2 DEF EachInv, OuterUdpHasSource
      <4>2. j \in 1 .. k - 1
        BY <1>5, <2>2
      <4>3. AfterUdpTunnel(k)'
        BY <1>2, <1>5, <3>1, <3>2, <4>1, <4>2 DEF AfterUdpTunnel
      <4> QED
        BY <4>3
    <3>3. CASE ~(p.l4 = "ipip" /\ info.outer_l4_proto = "udp")
      <4>1. r.is_tunnel => (r.outer_l4_proto = "udp" <=> c.outer_l4_proto = "udp")
        BY <1>4, <3>3 DEF Alike
      <4>2. Treated(txp, r, p) = Treated(txp, c, p)
        BY <1>1, <1>4, <4>1, TreatedAlike DEF Alike
      <4> QED
        BY <3>1, <4>2 DEF c
    <3> QED
      BY <3>2, <3>3
  <2> QED
    BY <1>5, <2>1, <2>2
<1> QED
  BY <1>6, <1>7 DEF EachInv

LEMMA EachStep == CTypeOK /\ EachInv /\ [CNext]_cvars => EachInv'
<1> SUFFICES ASSUME CTypeOK, EachInv, [CNext]_cvars PROVE EachInv'
  OBVIOUS
<1>1. CASE NextBurst
  <2>1. DOMAIN sent' = {} /\ info'.outer_l4_proto = "none"
    BY <1>1 DEF NextBurst, Cleared
  <2> QED
    BY <2>1 DEF EachInv, EachAlone, OuterUdpHasSource
<1>2. CASE UNCHANGED cvars
  BY <1>2 DEF cvars, EachInv, EachAlone, AfterUdpTunnel, OuterUdpHasSource
<1> QED
  BY <1>1, <1>2, EachForward DEF CNext

LEMMA EachInit == CInit => EachInv
<1> SUFFICES ASSUME CInit PROVE EachInv
  OBVIOUS
<1>1. DOMAIN sent = {} /\ info.outer_l4_proto = "none"
  BY DEF CInit, Cleared
<1> QED
  BY <1>1 DEF EachInv, EachAlone, OuterUdpHasSource

LEMMA EachAlways == CSpec => []EachInv
  BY EachInit, EachStep, TypeCorrect, PTL DEF CSpec

\* Although info is not cleared between the packets of a burst, what is done to a packet does
\* not depend on those before it, but for IP in IP after a tunnel over UDP.
THEOREM PacketsTreatedAlone == CSpec => []EachAlone
<1>1. EachInv => EachAlone
  BY DEF EachInv
<1> QED
  BY <1>1, EachAlways, PTL

-----------------------------------------------------------------------------
(* What a packet that is dissected can have done to it. *)

\* What r says of the packet p, whatever info was before.
Describes(r, p) ==
    /\ r.l4_proto \in {p.l4, p.il4, "none"}
    /\ r.is_tunnel => \/ p.payload \in {"ip", "frame"}
                      \/ r.ethertype = "none"
                      \/ p.port = "gtp" /\ p.payload = "none"
    /\ r.is_tunnel /\ p.il4 = "tcp" => r.l4_proto = "tcp" /\ r.ethertype # "none"
    /\ r.is_tunnel /\ r.outer_l4_proto = "udp" => p.l4 \in {"udp", "ipip"}

\* The headers inside a tunnel whose outer header is described by e.
Inside(e, l3, l4) == parse_ip(update_tunnel_outer(e), l3, l4)

LEMMA InsideIs ==
    ASSUME NEW e \in Info, NEW l3 \in L3, NEW l4 \in L4
    PROVE  /\ Inside(e, l3, l4).ethertype = l3
           /\ Inside(e, l3, l4).l4_proto = l4
           /\ Inside(e, l3, l4).outer_l4_proto = e.l4_proto
           /\ update_tunnel_outer(e).l4_proto = e.l4_proto
           /\ update_tunnel_outer(e).outer_l4_proto = e.l4_proto
BY DEF Inside, parse_ip, update_tunnel_outer, Info

\* The results of a dissection.
LEMMA ParsedIs ==
    ASSUME NEW t \in Settings, NEW i \in Info, NEW p \in Packets
    PROVE  \/ Parsed(t, i, p) = Header(i, p)
           \/ /\ Parsed(t, i, p) = Inside(Header(i, p), "none", "none")
              /\ Header(i, p).l4_proto = "udp" /\ p.payload = "control"
           \/ /\ Parsed(t, i, p) = Inside(Header(i, p), p.il3, p.il4)
              /\ Header(i, p).l4_proto \in {"udp", "gre"} /\ (p.payload \in {"ip", "frame"} \/ p.il3 = "none")
           \/ /\ Parsed(t, i, p) = update_tunnel_outer(Header(i, p))
              /\ Header(i, p).l4_proto = "udp" /\ p.port = "gtp" /\ p.payload = "none"
           \/ /\ Parsed(t, i, p) = parse_encap_ip(Header(i, p), p)
              /\ Header(i, p).l4_proto = "ipip" /\ p.payload = "ip"
<1> DEFINE e == Header(i, p)
<1>1. /\ p.payload \in Payloads
      /\ p.payload \in {"control", "none"} => p.il3 = "none"
      /\ p.payload = "frame" => p.port # "gtp"
      /\ p.il3 = "none" => p.il4 = "none"
  BY PacketsAssumption DEF PacketType, Carries
<1>2. parse_ethernet(update_tunnel_outer(e), p.il3, p.il4) = Inside(e, p.il3, p.il4)
  BY <1>1 DEF parse_ethernet, Inside
<1>3. \/ Parsed(t, i, p) = e
      \/ e.l4_proto = "udp" /\ p.port = "gtp" /\ Parsed(t, i, p) = parse_gtp(e, p)
      \/ e.l4_proto = "udp" /\ Parsed(t, i, p) = parse_vxlan(e, p)
      \/ e.l4_proto \in {"udp", "gre"} /\ Parsed(t, i, p) = parse_typed(e, p)
      \/ e.l4_proto = "ipip" /\ Parsed(t, i, p) = parse_encap_ip(e, p)
  <2>1. Parsed(t, i, p) = IF ~t.parse_tunnel THEN e
                       ELSE CASE e.l4_proto = "udp" /\ p.port = "gtp" -> parse_gtp(e, p)
                              [] e.l4_proto = "udp" /\ p.port = "vxlan" -> parse_vxlan(e, p)
                              [] e.l4_proto = "udp" /\ p.port \in {"vxlan gpe", "geneve"} -> parse_typed(e, p)
                              [] e.l4_proto = "gre" -> parse_typed(e, p)
                              [] e.l4_proto = "ipip" -> parse_encap_ip(e, p)
                              [] OTHER -> e
    BY DEF Parsed, Header
  <2> HIDE DEF e
  <2> QED
    BY <2>1, Zenon
<1> HIDE DEF e
<1>4. \/ parse_gtp(e, p) = Inside(e, "none", "none") /\ p.payload = "control"
      \/ parse_gtp(e, p) = Inside(e, p.il3, p.il4) /\ p.payload = "ip"
      \/ parse_gtp(e, p) = update_tunnel_outer(e) /\ p.payload \notin {"control", "ip"}
  BY Zenon DEF parse_gtp, Inside
<1>5. parse_vxlan(e, p) = Inside(e, p.il3, p.il4)
  BY <1>2 DEF parse_vxlan
<1>6. \/ parse_typed(e, p) = Inside(e, p.il3, p.il4) /\ p.payload \in {"ip", "frame"}
      \/ parse_typed(e, p) = e
  BY <1>2, Zenon DEF parse_typed, Inside
<1>7. p.payload # "ip" => parse_encap_ip(e, p) = e
  BY DEF parse_encap_ip
<1>8. p.payload \in {"ip", "frame", "control", "none"}
  BY <1>1 DEF Payloads
<1>9. CASE e.l4_proto = "udp" /\ p.port = "gtp" /\ Parsed(t, i, p) = parse_gtp(e, p)
  BY <1>1, <1>4, <1>8, <1>9 DEF e
<1>10. CASE e.l4_proto = "udp" /\ Parsed(t, i, p) = parse_vxlan(e, p)
  BY <1>1, <1>5, <1>8, <1>10 DEF e
<1>11. CASE e.l4_proto \in {"udp", "gre"} /\ Parsed(t, i, p) = parse_typed(e, p)
  BY <1>6, <1>11 DEF e
<1>12. CASE e.l4_proto = "ipip" /\ Parsed(t, i, p) = parse_encap_ip(e, p)
  BY <1>7, <1>12 DEF e
<1> QED
  BY <1>3, <1>9, <1>10, <1>11, <1>12 DEF e

LEMMA ParsedDescribes ==
    ASSUME NEW t \in Settings, NEW i \in Info, NEW p \in Packets
    PROVE  /\ Describes(Parsed(t, i, p), p)
           /\ i.outer_l4_proto # "udp" =>
                 (Parsed(t, i, p).is_tunnel /\ Parsed(t, i, p).outer_l4_proto = "udp" => p.l4 = "udp")
<1> DEFINE e == Header(i, p)
           r == Parsed(t, i, p)
<1>1. /\ p.il3 \in L3 /\ p.il4 \in L4 /\ "none" \in L3 /\ "none" \in L4
      /\ p.payload = "ip" => p.il3 # "none"
      /\ p.payload \in {"control", "none"} => p.il3 = "none"
      /\ p.il3 = "none" => p.il4 = "none"
  BY PacketsAssumption DEF PacketType, Carries, L3, L4
<1>2. /\ e \in Info /\ e.l4_proto \in {p.l4, "none"} /\ e.is_tunnel = FALSE
      /\ e.outer_l4_proto = i.outer_l4_proto
  BY HeaderIsNew
<1>3. /\ \A l3 \in L3, l4 \in L4 : /\ Inside(e, l3, l4).ethertype = l3
                                  /\ Inside(e, l3, l4).l4_proto = l4
                                  /\ Inside(e, l3, l4).outer_l4_proto = e.l4_proto
      /\ update_tunnel_outer(e).l4_proto = e.l4_proto
      /\ update_tunnel_outer(e).outer_l4_proto = e.l4_proto
  <2> HIDE DEF e
  <2>1. ASSUME NEW l3 \in L3, NEW l4 \in L4
        PROVE  /\ Inside(e, l3, l4).ethertype = l3
               /\ Inside(e, l3, l4).l4_proto = l4
               /\ Inside(e, l3, l4).outer_l4_proto = e.l4_proto
    BY <1>2, InsideIs
  <2>2. /\ update_tunnel_outer(e).l4_proto = e.l4_proto
        /\ update_tunnel_outer(e).outer_l4_proto = e.l4_proto
    BY <1>1, <1>2, InsideIs
  <2> QED
    BY <2>1, <2>2
<1> HIDE DEF e, r
<1>4. CASE r = e
  BY <1>2, <1>4 DEF Describes, r
<1>5. CASE r = Inside(e, "none", "none") /\ e.l4_proto = "udp" /\ p.payload = "control"
  BY <1>1, <1>2, <1>3, <1>5 DEF Describes, r
<1>6. CASE /\ r = Inside(e, p.il3, p.il4)
           /\ e.l4_proto \in {"udp", "gre"} /\ (p.payload \in {"ip", "frame"} \/ p.il3 = "none")
  BY <1>1, <1>2, <1>3, <1>6 DEF Describes, r
<1>7. CASE r = update_tunnel_outer(e) /\ e.l4_proto = "udp" /\ p.port = "gtp" /\ p.payload = "none"
  BY <1>1, <1>2, <1>3, <1>7 DEF Describes, r
<1>8. CASE r = parse_encap_ip(e, p) /\ e.l4_proto = "ipip" /\ p.payload = "ip"
  <2>1. /\ r.ethertype = p.il3 /\ r.l4_proto = p.il4 /\ r.outer_l4_proto = i.outer_l4_proto
    BY <1>2, <1>8, EncapIsNew
  <2> QED
    BY <1>1, <1>2, <1>8, <2>1 DEF Describes, r
<1> QED
  BY <1>4, <1>5, <1>6, <1>7, <1>8, ParsedIs DEF e, r

\* What is done to the inner headers, and to the outer ones after them.
LEMMA TreatedIs ==
    ASSUME NEW t \in Settings, NEW i \in Info, NEW p \in Packets, Describes(i, p)
    PROVE  /\ Treated(t, i, p).stray =>
                 \/ p.port = "gtp" /\ p.payload = "none"
                 \/ i.is_tunnel /\ i.outer_l4_proto = "udp" /\ p.l4 # "udp"
           /\ Treated(t, i, p).oudp = "software" =>
                 /\ Treated(t, i, p).over = <<Treated(t, i, p).ip, Treated(t, i, p).l4>>
                 /\ ~(p.il4 = "tcp" /\ (t.gso \/ (t.tunnel_tso /\ p.long)))
           /\ Treated(t, i, p).l4 = "zeroed" => "sctp" \in {p.l4, p.il4}
<1> DEFINE d == process_inner_cksums(t, Untouched, i, p)
<1>1. /\ d.stray => i.ethertype # "none" /\ ~Faithful(i, p)
      /\ d.oudp = "as received"
      /\ d.l4 = "zeroed" => i.l4_proto = "sctp"
      /\ d \in Outcome
  <2>1. inner_l4(t, i, p) = "zeroed" => i.l4_proto = "sctp"
    <3>1. \A w : By(t, w, "software") # "zeroed"
      BY DEF By
    <3>2. i.l4_proto = "sctp" \/ inner_l4(t, i, p) \in {"as received", "hardware", By(t, "udp", "software"),
                                                     By(t, "tcp", "software")}
      BY Zenon DEF inner_l4
    <3> QED
      BY <3>1, <3>2
  <2>2. Untouched \in Outcome
    BY DEF Untouched, Outcome, Ways
  <2>3. CASE i.ethertype = "none"
    BY <2>2, <2>3 DEF process_inner_cksums, Untouched
  <2>4. CASE i.ethertype # "none" /\ ~Faithful(i, p)
    BY <2>2, <2>4 DEF process_inner_cksums, Untouched, Outcome
  <2>5. CASE i.ethertype # "none" /\ Faithful(i, p)
    <3> DEFINE a == inner_ip(t, i, p)
               b == inner_l4(t, i, p)
    <3>1. a \in Ways /\ b \in Ways /\ (b = "zeroed" => i.l4_proto = "sctp")
      BY <2>1, InnerType
    <3>2. d = [Untouched EXCEPT !.ip = a, !.l4 = b]
      BY <2>5 DEF process_inner_cksums
    <3> HIDE DEF a, b, d
    <3> QED
      BY <2>2, <3>1, <3>2 DEF Untouched, Outcome
  <2> QED
    BY <2>3, <2>4, <2>5
<1>2. d.stray => p.port = "gtp" /\ p.payload = "none"
  BY <1>1 DEF Faithful, Describes
<1>3. d.l4 = "zeroed" => "sctp" \in {p.l4, p.il4}
  BY <1>1 DEF Describes
<1> HIDE DEF d
<1>4. CASE ~i.is_tunnel
  <2>1. Treated(t, i, p) = d
    BY <1>4 DEF Treated, d
  <2> QED
    BY <1>1, <1>2, <1>3, <2>1
<1>5. CASE i.is_tunnel
  <2> DEFINE tso_enabled == i.l4_proto = "tcp" /\ i.ethertype # "none" /\ (Tso(t, i, p) \/ t.gso)
             oip == IF i.outer_ethertype = "ipv4" THEN By(t, "outer ip", "software") ELSE d.oip
             oudp == IF tso_enabled THEN By(t, "outer udp", "zeroed")
                     ELSE By(t, "outer udp", IF p.zero THEN "as received" ELSE "software")
             done == [d EXCEPT !.oip = oip]
             r == Treated(t, i, p)
  <2>1. r = IF i.outer_l4_proto # "udp" \/ oudp = "as received" THEN done
            ELSE IF p.l4 # "udp" THEN [done EXCEPT !.stray = TRUE]
            ELSE [done EXCEPT !.oudp = oudp, !.over = <<d.ip, d.l4>>]
    BY <1>5 DEF Treated, process_outer_cksums, d
  <2>2. oudp = "software" => ~tso_enabled
    BY DEF By
  <2>3. tso_enabled \/ ~(p.il4 = "tcp" /\ (t.gso \/ (t.tunnel_tso /\ p.long)))
    BY <1>5 DEF Describes, Tso
  <2> HIDE DEF tso_enabled, oip, oudp, r
  <2>4. /\ done.stray = d.stray /\ done.oudp = d.oudp /\ done.ip = d.ip /\ done.l4 = d.l4
        /\ DOMAIN done = {"ip", "l4", "oip", "oudp", "over", "stray"}
    BY <1>1 DEF Outcome
  <2> HIDE DEF done
  <2>5. CASE r = done
    BY <1>1, <1>2, <1>3, <2>4, <2>5 DEF r
  <2>6. CASE r = [done EXCEPT !.stray = TRUE] /\ i.outer_l4_proto = "udp" /\ p.l4 # "udp"
    <3>1. r.oudp = done.oudp /\ r.l4 = done.l4
      BY <2>4, <2>6
    <3> QED
      BY <1>1, <1>3, <1>5, <2>4, <2>6, <3>1 DEF r
  <2>7. CASE r = [done EXCEPT !.oudp = oudp, !.over = <<d.ip, d.l4>>]
    <3>1. /\ r.oudp = oudp /\ r.over = <<d.ip, d.l4>>
          /\ r.ip = d.ip /\ r.l4 = d.l4 /\ r.stray = d.stray
      BY <2>4, <2>7
    <3> QED
      BY <1>2, <1>3, <2>2, <2>3, <3>1 DEF r
  <2> QED
    BY <2>1, <2>5, <2>6, <2>7
<1> QED
  BY <1>4, <1>5

\* Nothing but checksums is written, but in the cases of the property.
THEOREM StrayWritesOnlyThere == CSpec => []StrayWritesExplained
<1>1. CTypeOK /\ EachInv => StrayWritesExplained
  <2> SUFFICES ASSUME CTypeOK, EachInv, NEW k \in DOMAIN sent, sent[k].done.stray, ~AfterUdpTunnel(k)
               PROVE  sent[k].pkt.port = "gtp" /\ sent[k].pkt.payload = "none"
    BY DEF StrayWritesExplained
  <2> DEFINE p == sent[k].pkt
             c == Parsed(txp, Cleared, p)
  <2>1. p \in Packets /\ txp \in Settings /\ Cleared \in Info /\ Cleared.outer_l4_proto # "udp"
    <3>1. sent[k] \in [pkt : Packets, done : Outcome]
      BY ElementIs DEF CTypeOK
    <3> QED
      BY <3>1 DEF CTypeOK, Cleared, Info, L3, L4
  <2> HIDE DEF p
  <2>2. c \in Info /\ Describes(c, p) /\ (c.is_tunnel /\ c.outer_l4_proto = "udp" => p.l4 = "udp")
    BY <2>1, ParsedKeepsInfo, ParsedDescribes
  <2>3. Treated(txp, c, p).stray
    BY DEF EachInv, EachAlone, p
  <2> HIDE DEF c
  <2> QED
    BY <2>1, <2>2, <2>3, TreatedIs DEF p
<1> QED
  BY <1>1, EachAlways, TypeCorrect, PTL

\* What was done to each packet was done for some info.
DoneForSomeInfo ==
    \A k \in DOMAIN sent : \E i \in Info :
        sent[k].done = Treated(txp, Parsed(txp, i, sent[k].pkt), sent[k].pkt)

LEMMA DoneStep == CTypeOK /\ DoneForSomeInfo /\ [CNext]_cvars => DoneForSomeInfo'
<1> SUFFICES ASSUME CTypeOK, DoneForSomeInfo, [CNext]_cvars PROVE DoneForSomeInfo'
  OBVIOUS
<1>1. CASE NextBurst
  <2>1. DOMAIN sent' = {}
    BY <1>1 DEF NextBurst
  <2> QED
    BY <2>1 DEF DoneForSomeInfo
<1>2. ASSUME NEW p \in Packets, Forward(p) PROVE DoneForSomeInfo'
  <2> DEFINE new == [pkt |-> p, done |-> Treated(txp, Parsed(txp, info, p), p)]
             n == Len(sent)
  <2>1. info \in Info /\ txp' = txp /\ sent' = Append(sent, new)
    BY <1>2 DEF Forward, CTypeOK, Info
  <2>2. new \in [pkt : Packets, done : Outcome] /\ new.pkt = p /\ new.done = Treated(txp, Parsed(txp, info, p), p)
    BY <2>1, ParsedKeepsInfo, TreatedType DEF CTypeOK
  <2> HIDE DEF new
  <2>3. /\ n \in Nat /\ DOMAIN sent = 1 .. n /\ DOMAIN sent' = 1 .. n + 1
        /\ sent'[n + 1] = new
        /\ \A k \in 1 .. n : sent'[k] = sent[k]
    BY <2>1, <2>2, AppendIs DEF CTypeOK
  <2> HIDE DEF n
  <2> SUFFICES ASSUME NEW k \in 1 .. n + 1
               PROVE  \E i \in Info : sent'[k].done = Treated(txp, Parsed(txp, i, sent'[k].pkt), sent'[k].pkt)
    BY <2>1, <2>3 DEF DoneForSomeInfo
  <2>4. CASE k \in 1 .. n
    BY <2>3, <2>4 DEF DoneForSomeInfo
  <2>5. CASE k = n + 1
    BY <2>1, <2>2, <2>3, <2>5
  <2> QED
    BY <2>3, <2>4, <2>5
<1>3. CASE UNCHANGED cvars
  BY <1>3 DEF cvars, DoneForSomeInfo
<1> QED
  BY <1>1, <1>2, <1>3 DEF CNext

\* Outer checksums in software cover the inner headers as they leave, are not put on packets that
\* are still to be cut, and no checksum is left out but that of SCTP.
THEOREM ChecksumsAreFinal == CSpec => []ChecksumsFinal
<1>1. CInit => DoneForSomeInfo
  <2> SUFFICES ASSUME CInit PROVE DOMAIN sent = {}
    BY DEF DoneForSomeInfo
  <2> QED
    BY DEF CInit
<1>2. CTypeOK /\ DoneForSomeInfo => ChecksumsFinal
  <2> SUFFICES ASSUME CTypeOK, DoneForSomeInfo, NEW k \in DOMAIN sent
               PROVE  /\ sent[k].done.oudp = "software" =>
                            /\ sent[k].done.over = <<sent[k].done.ip, sent[k].done.l4>>
                            /\ ~(sent[k].pkt.il4 = "tcp" /\ (txp.gso \/ (txp.tunnel_tso /\ sent[k].pkt.long)))
                      /\ sent[k].done.l4 = "zeroed" => "sctp" \in {sent[k].pkt.l4, sent[k].pkt.il4}
    BY DEF ChecksumsFinal
  <2>1. PICK i \in Info : sent[k].done = Treated(txp, Parsed(txp, i, sent[k].pkt), sent[k].pkt)
    BY DEF DoneForSomeInfo
  <2> DEFINE p == sent[k].pkt
             r == Parsed(txp, i, p)
  <2>2. p \in Packets /\ txp \in Settings
    <3>1. sent[k] \in [pkt : Packets, done : Outcome]
      BY ElementIs DEF CTypeOK
    <3> QED
      BY <3>1 DEF CTypeOK
  <2> HIDE DEF p
  <2>3. r \in Info /\ Describes(r, p)
    BY <2>2, ParsedKeepsInfo, ParsedDescribes
  <2>4. sent[k].done = Treated(txp, r, p)
    BY <2>1 DEF p
  <2> HIDE DEF r
  <2> QED
    BY <2>2, <2>3, <2>4, TreatedIs DEF p
<1> QED
  BY <1>1, <1>2, DoneStep, TypeCorrect, PTL DEF CSpec

-----------------------------------------------------------------------------
(* Who holds which mbuf. A holder is a core, the GRO tables or the FIFO;   *)
(* of what it holds, some are the first segments of packets, and it knows  *)
(* the others by their chains only. Here o and g are values of owner and   *)
(* segs, and L the packets each holder knows of.                           *)

Holders == Cores \cup {"gro", "fifo"}
Away == {"pool", "nic"}

Good(o, g, L) ==
    /\ \A p \in Holders : \A m \in L[p] : m \in Mbufs /\ o[m] = p
    /\ \A m \in Mbufs : \A x \in g[m] : o[x] = o[m] /\ g[x] = {}
    /\ \A m, n \in Mbufs : \A x \in g[m] : x \in g[n] => m = n
    /\ \A m \in Mbufs : o[m] \in {"pool", "nic"} => g[m] = {}
    /\ \A p \in Holders : \A h \in L[p] : \A m \in Mbufs : h \notin g[m]

\* Nothing is held that is not known of.
Full(o, g, L) ==
    \A p \in Holders : \A m \in Mbufs : o[m] = p => m \in L[p] \/ \E h \in L[p] : m \in g[h]

Chain(g, S) == S \cup UNION {g[m] : m \in S}

\* How the values after a step follow from those before it.
Moved(o2, o, S, to) ==
    o2 \in [Mbufs -> Places] /\ \A m \in Mbufs : o2[m] = IF m \in S THEN to ELSE o[m]
Cut(g2, g, S) ==
    g2 \in [Mbufs -> SUBSET Mbufs] /\ \A m \in Mbufs : g2[m] = IF m \in S THEN {} ELSE g[m]
Chained(g2, g, k, S) ==
    g2 \in [Mbufs -> SUBSET Mbufs] /\ \A m \in Mbufs : g2[m] = IF m = k THEN S ELSE g[m]
Merged(g2, g, k, S) ==
    /\ g2 \in [Mbufs -> SUBSET Mbufs]
    /\ \A m \in Mbufs : g2[m] = IF m = k THEN g[m] \cup Chain(g, S) ELSE IF m \in S THEN {} ELSE g[m]
More(L2, L, p, S) ==
    L2 \in [Holders -> SUBSET Mbufs] /\ \A q \in Holders : L2[q] = IF q = p THEN L[q] \cup S ELSE L[q]
Fewer(L2, L, p, S) ==
    L2 \in [Holders -> SUBSET Mbufs] /\ \A q \in Holders : L2[q] = IF q = p THEN L[q] \ S ELSE L[q]
Handed(L2, L, p, q, S) ==
    /\ L2 \in [Holders -> SUBSET Mbufs] /\ L2[p] = L[p] \ S /\ L2[q] = L[q] \cup S
    /\ \A r \in Holders : r # p /\ r # q => L2[r] = L[r]

LEMMA PlacesDiffer ==
    /\ "pool" \notin Holders /\ "nic" \notin Holders /\ "gro" \notin Cores /\ "fifo" \notin Cores
    /\ Places = Holders \cup {"pool", "nic"}
BY BurstAssumption DEF Holders, Places

\* A core takes mbufs of the pool, each as a packet.
LEMMA TakeKeeps ==
    ASSUME NEW o \in [Mbufs -> Places], NEW g \in [Mbufs -> SUBSET Mbufs], NEW L \in [Holders -> SUBSET Mbufs],
           Good(o, g, L), NEW c \in Cores, NEW S \in SUBSET Mbufs, \A m \in S : o[m] = "pool",
           NEW o2, Moved(o2, o, S, c),
           NEW L2, More(L2, L, c, S)
    PROVE  /\ Good(o2, g, L2)
           /\ Full(o, g, L) => Full(o2, g, L2)
<1>1. c \in Holders /\ c \in Places
  BY DEF Holders, Places
<1>2. o2 \in [Mbufs -> Places] /\ L2 \in [Holders -> SUBSET Mbufs]
  BY <1>1 DEF Moved, More
<1>3. \A m \in Mbufs : o2[m] = IF m \in S THEN c ELSE o[m]
  BY DEF Moved, More
<1>4. \A p \in Holders : L2[p] = IF p = c THEN L[p] \cup S ELSE L[p]
  BY <1>1 DEF Moved, More
<1>5. \A m \in Mbufs : \A x \in g[m] : x \notin S /\ m \notin S
  BY PlacesDiffer, <1>1 DEF Good
<1>6. Good(o2, g, L2)
  <2>1. \A p \in Holders : \A m \in L2[p] : m \in Mbufs /\ o2[m] = p
    BY <1>1, <1>2, <1>3, <1>4, PlacesDiffer DEF Good
  <2>2. \A m \in Mbufs : \A x \in g[m] : o2[x] = o2[m] /\ g[x] = {}
    BY <1>3, <1>5 DEF Good
  <2>3. \A m \in Mbufs : o2[m] \in {"pool", "nic"} => g[m] = {}
    BY <1>1, <1>3, PlacesDiffer DEF Good
  <2>4. \A p \in Holders : \A h \in L2[p] : \A m \in Mbufs : h \notin g[m]
    <3> SUFFICES ASSUME NEW p \in Holders, NEW h \in L2[p], NEW m \in Mbufs PROVE h \notin g[m]
      OBVIOUS
    <3>1. h \in L[p] \/ h \in S
      BY <1>4
    <3>2. h \in L[p] => h \notin g[m]
      BY DEF Good
    <3>3. h \in S => h \notin g[m]
      BY <1>5
    <3> QED
      BY <3>1, <3>2, <3>3
  <2>5. \A m, n \in Mbufs : \A x \in g[m] : x \in g[n] => m = n
    BY DEF Good
  <2> QED
    BY <2>1, <2>2, <2>3, <2>4, <2>5 DEF Good
<1>7. ASSUME Full(o, g, L) PROVE Full(o2, g, L2)
  <2> SUFFICES ASSUME NEW p \in Holders, NEW m \in Mbufs, o2[m] = p
               PROVE  m \in L2[p] \/ \E h \in L2[p] : m \in g[h]
    BY DEF Full
  <2>1. CASE m \in S
    BY <1>3, <1>4, <2>1
  <2>2. CASE m \notin S
    <3>1. m \in L[p] \/ \E h \in L[p] : m \in g[h]
      BY <1>3, <1>7, <2>2 DEF Full
    <3>2. L[p] \subseteq L2[p]
      BY <1>4
    <3> QED
      BY <3>1, <3>2
  <2> QED
    BY <2>1, <2>2
<1> QED
  BY <1>2, <1>6, <1>7

\* A holder gives packets, with their chains, to the port or back to the pool.
LEMMA GiveKeeps ==
    ASSUME NEW o \in [Mbufs -> Places], NEW g \in [Mbufs -> SUBSET Mbufs], NEW L \in [Holders -> SUBSET Mbufs],
           Good(o, g, L), NEW p \in Holders, NEW S, S \subseteq L[p], NEW to \in Away,
           NEW o2, Moved(o2, o, Chain(g, S), to),
           NEW g2, Cut(g2, g, S),
           NEW L2, Fewer(L2, L, p, S)
    PROVE  /\ Good(o2, g2, L2)
           /\ Full(o, g, L) => Full(o2, g2, L2)
<1>1. to \in Places /\ to \notin Holders
  BY PlacesDiffer DEF Away
<1>2. o2 \in [Mbufs -> Places] /\ g2 \in [Mbufs -> SUBSET Mbufs] /\ L2 \in [Holders -> SUBSET Mbufs]
  BY <1>1 DEF Moved, Cut, Fewer
<1>3. /\ \A m \in Mbufs : o2[m] = IF m \in Chain(g, S) THEN to ELSE o[m]
      /\ \A m \in Mbufs : g2[m] = IF m \in S THEN {} ELSE g[m]
      /\ \A q \in Holders : L2[q] = IF q = p THEN L[q] \ S ELSE L[q]
  BY DEF Moved, Cut, Fewer
<1>4. \A m \in Mbufs : m \in Chain(g, S) => m \in S \/ \E h \in S : m \in g[h]
  BY DEF Chain
<1>5. \A m \in Mbufs : (m \in S \/ \E h \in S : m \in g[h]) => m \in Chain(g, S)
  BY DEF Chain
<1>6. \A m \in S : m \in Mbufs /\ o[m] = p
  BY DEF Good
<1>7. \A m \in Chain(g, S) \cap Mbufs : o[m] = p
  BY <1>4, <1>6 DEF Good
<1>8. \A q \in Holders : \A h \in L2[q] : h \notin Chain(g, S) /\ h \in L[q]
  <2> SUFFICES ASSUME NEW q \in Holders, NEW h \in L2[q] PROVE h \notin Chain(g, S) /\ h \in L[q]
    OBVIOUS
  <2>0. h \in L[q] /\ (q = p => h \notin S)
    <3>1. L2[q] = IF q = p THEN L[q] \ S ELSE L[q]
      BY <1>3
    <3> QED
      BY <3>1
  <2>1. h \in L[q] /\ h \in Mbufs /\ o[h] = q /\ (q = p => h \notin S)
    BY <2>0 DEF Good
  <2>2. h \notin S
    BY <1>6, <2>1
  <2>3. \A m \in S : h \notin g[m]
    BY <1>6, <2>1 DEF Good
  <2> QED
    BY <1>4, <2>1, <2>2, <2>3
<1>9. \A m \in Mbufs : \A x \in g2[m] : x \notin Chain(g, S) /\ x \in g[m] /\ m \notin S /\ m \notin Chain(g, S)
  <2> SUFFICES ASSUME NEW m \in Mbufs, NEW x \in g2[m]
               PROVE  x \notin Chain(g, S) /\ x \in g[m] /\ m \notin S /\ m \notin Chain(g, S)
    OBVIOUS
  <2>1. x \in g[m] /\ m \notin S /\ x \in Mbufs
    BY <1>3
  <2>2. x \notin S
    BY <1>6, <2>1 DEF Good
  <2>3. \A h \in S : x \notin g[h]
    BY <1>6, <2>1 DEF Good
  <2>4. \A h \in S : m \notin g[h]
    BY <1>6, <2>1 DEF Good
  <2> QED
    BY <1>4, <2>1, <2>2, <2>3, <2>4
<1>10. Good(o2, g2, L2)
  <2>1. \A q \in Holders : \A m \in L2[q] : m \in Mbufs /\ o2[m] = q
    BY <1>3, <1>8 DEF Good
  <2>2. \A m \in Mbufs : \A x \in g2[m] : o2[x] = o2[m] /\ g2[x] = {}
    <3> SUFFICES ASSUME NEW m \in Mbufs, NEW x \in g2[m] PROVE o2[x] = o2[m] /\ g2[x] = {}
      OBVIOUS
    <3>1. x \in Mbufs /\ x \in g[m] /\ x \notin Chain(g, S) /\ m \notin Chain(g, S)
      BY <1>9
    <3>2. o[x] = o[m] /\ g[x] = {}
      BY <3>1 DEF Good
    <3> QED
      BY <1>3, <3>1, <3>2
  <2>3. \A m \in Mbufs : o2[m] \in {"pool", "nic"} => g2[m] = {}
    <3> SUFFICES ASSUME NEW m \in Mbufs, o2[m] \in {"pool", "nic"}, g2[m] # {} PROVE FALSE
      OBVIOUS
    <3>1. PICK x \in g2[m] : TRUE
      OBVIOUS
    <3>2. m \notin Chain(g, S) /\ x \in g[m]
      BY <1>9
    <3> QED
      BY <1>3, <3>2 DEF Good
  <2>4. \A q \in Holders : \A h \in L2[q] : \A m \in Mbufs : h \notin g2[m]
    BY <1>3, <1>8 DEF Good
  <2>5. \A m, n \in Mbufs : \A x \in g2[m] : x \in g2[n] => m = n
    BY <1>9 DEF Good
  <2> QED
    BY <2>1, <2>2, <2>3, <2>4, <2>5 DEF Good
<1>11. ASSUME Full(o, g, L) PROVE Full(o2, g2, L2)
  <2> SUFFICES ASSUME NEW q \in Holders, NEW m \in Mbufs, o2[m] = q
               PROVE  m \in L2[q] \/ \E h \in L2[q] : m \in g2[h]
    BY DEF Full
  <2>1. m \notin Chain(g, S) /\ o[m] = q
    BY <1>1, <1>3
  <2>2. m \in L[q] \/ \E h \in L[q] : m \in g[h]
    BY <1>11, <2>1 DEF Full
  <2>3. CASE m \in L[q]
    BY <1>3, <1>5, <2>1, <2>3
  <2>4. ASSUME NEW h \in L[q], m \in g[h] PROVE m \in L2[q] \/ \E k \in L2[q] : m \in g2[k]
    <3>1. h \in Mbufs /\ h \notin S
      BY <1>5, <2>1, <2>4 DEF Good
    <3>2. h \in L2[q] /\ g2[h] = g[h]
      BY <1>3, <3>1
    <3> QED
      BY <2>4, <3>2
  <2> QED
    BY <2>2, <2>3, <2>4
<1> QED
  BY <1>2, <1>10, <1>11

\* A holder gives packets, with their chains, to another holder.
LEMMA HandKeeps ==
    ASSUME NEW o \in [Mbufs -> Places], NEW g \in [Mbufs -> SUBSET Mbufs], NEW L \in [Holders -> SUBSET Mbufs],
           Good(o, g, L), NEW p \in Holders, NEW q \in Holders, p # q, NEW S, S \subseteq L[p],
           NEW o2, Moved(o2, o, Chain(g, S), q),
           NEW L2, Handed(L2, L, p, q, S)
    PROVE  /\ Good(o2, g, L2)
           /\ Full(o, g, L) => Full(o2, g, L2)
<1>1. q \in Places /\ q \notin {"pool", "nic"}
  BY PlacesDiffer
<1>2. o2 \in [Mbufs -> Places] /\ L2 \in [Holders -> SUBSET Mbufs]
  BY <1>1 DEF Moved, Handed
<1>3. /\ \A m \in Mbufs : o2[m] = IF m \in Chain(g, S) THEN q ELSE o[m]
      /\ L2[p] = L[p] \ S /\ L2[q] = L[q] \cup S
      /\ \A r \in Holders : r # p /\ r # q => L2[r] = L[r]
  BY DEF Moved, Handed
<1>4. \A m \in Mbufs : m \in Chain(g, S) <=> (m \in S \/ \E h \in S : m \in g[h])
  BY DEF Chain
<1>6. \A m \in S : m \in Mbufs /\ o[m] = p
  BY DEF Good
<1>7. \A m \in Mbufs : \A x \in g[m] : x \in Chain(g, S) <=> m \in Chain(g, S)
  <2> SUFFICES ASSUME NEW m \in Mbufs, NEW x \in g[m] PROVE x \in Chain(g, S) <=> m \in Chain(g, S)
    OBVIOUS
  <2>1. x \in Mbufs /\ x \notin S /\ g[x] = {}
    BY <1>6 DEF Good
  <2>2. \A h \in S : x \in g[h] => h = m
    BY <1>6 DEF Good
  <2>3. \A h \in S : m \notin g[h]
    BY <1>6 DEF Good
  <2> QED
    BY <1>4, <2>1, <2>2, <2>3
<1>8. \A r \in Holders : \A h \in L[r] : h \in Chain(g, S) => h \in S
  BY <1>4, <1>6 DEF Good
<1>9. \A r \in Holders : \A h \in L2[r] : /\ h \in Chain(g, S) => h \in S /\ r = q
                                          /\ h \notin Chain(g, S) => h \in L[r]
  <2> SUFFICES ASSUME NEW r \in Holders, NEW h \in L2[r]
               PROVE  /\ h \in Chain(g, S) => h \in S /\ r = q
                      /\ h \notin Chain(g, S) => h \in L[r]
    OBVIOUS
  <2>1. CASE r = q
    <3>1. h \in L[q] \/ h \in S
      BY <1>3, <2>1
    <3> QED
      BY <1>4, <1>6, <1>8, <2>1, <3>1
  <2>2. CASE r = p
    <3>1. h \in L[p] /\ h \notin S
      BY <1>3, <2>2
    <3> QED
      BY <1>8, <2>2, <3>1
  <2>3. CASE r # p /\ r # q
    <3>1. h \in L[r] /\ h \in Mbufs /\ o[h] = r
      BY <1>3, <2>3 DEF Good
    <3>2. h \notin S
      BY <1>6, <2>3, <3>1
    <3> QED
      BY <1>8, <3>1, <3>2
  <2> QED
    BY <2>1, <2>2, <2>3
<1>10. Good(o2, g, L2)
  <2>1. \A r \in Holders : \A m \in L2[r] : m \in Mbufs /\ o2[m] = r
    BY <1>2, <1>3, <1>9 DEF Good
  <2>2. \A m \in Mbufs : \A x \in g[m] : o2[x] = o2[m] /\ g[x] = {}
    BY <1>3, <1>7 DEF Good
  <2>3. \A m \in Mbufs : o2[m] \in {"pool", "nic"} => g[m] = {}
    BY <1>1, <1>3 DEF Good
  <2>4. \A r \in Holders : \A h \in L2[r] : \A m \in Mbufs : h \notin g[m]
    BY <1>9 DEF Good
  <2>5. \A m, n \in Mbufs : \A x \in g[m] : x \in g[n] => m = n
    BY DEF Good
  <2> QED
    BY <2>1, <2>2, <2>3, <2>4, <2>5 DEF Good
<1>11. ASSUME Full(o, g, L) PROVE Full(o2, g, L2)
  <2> SUFFICES ASSUME NEW r \in Holders, NEW m \in Mbufs, o2[m] = r
               PROVE  m \in L2[r] \/ \E h \in L2[r] : m \in g[h]
    BY DEF Full
  <2>1. CASE m \in Chain(g, S)
    <3>1. r = q /\ S \subseteq L2[r]
      BY <1>3, <2>1
    <3> QED
      BY <1>4, <2>1, <3>1
  <2>2. CASE m \notin Chain(g, S)
    <3>1. o[m] = r /\ (m \in L[r] \/ \E h \in L[r] : m \in g[h])
      BY <1>3, <1>11, <2>2 DEF Full
    <3>2. \A h \in L[r] : h \notin S => h \in L2[r]
      <4>1. CASE r = q
        BY <1>3, <4>1
      <4>2. CASE r = p
        BY <1>3, <4>2
      <4> QED
        BY <1>3, <4>1, <4>2
    <3>3. m \notin S /\ \A h \in S : m \notin g[h]
      BY <1>4, <2>2
    <3> QED
      BY <3>1, <3>2, <3>3
  <2> QED
    BY <2>1, <2>2
<1> QED
  BY <1>2, <1>10, <1>11

\* A core takes mbufs of the pool and chains them to a packet it holds that has no chain.
LEMMA ChainKeeps ==
    ASSUME NEW o \in [Mbufs -> Places], NEW g \in [Mbufs -> SUBSET Mbufs], NEW L \in [Holders -> SUBSET Mbufs],
           Good(o, g, L), NEW c \in Cores, NEW k \in L[c], g[k] = {},
           NEW S \in SUBSET Mbufs, \A m \in S : o[m] = "pool",
           NEW o2, Moved(o2, o, S, c),
           NEW g2, Chained(g2, g, k, S)
    PROVE  /\ Good(o2, g2, L)
           /\ Full(o, g, L) => Full(o2, g2, L)
<1>1. c \in Holders /\ c \in Places /\ c \notin {"pool", "nic"} /\ k \in Mbufs /\ o[k] = c
  BY PlacesDiffer DEF Holders, Places, Good
<1>2. o2 \in [Mbufs -> Places] /\ g2 \in [Mbufs -> SUBSET Mbufs]
  BY <1>1 DEF Moved, Chained
<1>3. /\ \A m \in Mbufs : o2[m] = IF m \in S THEN c ELSE o[m]
      /\ \A m \in Mbufs : g2[m] = IF m = k THEN S ELSE g[m]
  BY <1>1 DEF Moved, Chained
<1>4. \A m \in S : m \in Mbufs /\ g[m] = {} /\ m # k /\ \A n \in Mbufs : m \notin g[n]
  BY <1>1 DEF Good
<1>5. \A p \in Holders : \A h \in L[p] : h \notin S
  BY PlacesDiffer DEF Good
<1>6. Good(o2, g2, L)
  <2>1. \A p \in Holders : \A m \in L[p] : m \in Mbufs /\ o2[m] = p
    BY <1>3, <1>5 DEF Good
  <2>2. \A m \in Mbufs : \A x \in g2[m] : o2[x] = o2[m] /\ g2[x] = {}
    <3> SUFFICES ASSUME NEW m \in Mbufs, NEW x \in g2[m] PROVE o2[x] = o2[m] /\ g2[x] = {}
      OBVIOUS
    <3>1. CASE m = k
      BY <1>1, <1>3, <1>4, <1>5, <3>1
    <3>2. CASE m # k
      <4>1. x \in g[m] /\ x \in Mbufs /\ x \notin S /\ m \notin S /\ x # k
        BY <1>1, <1>3, <1>4, <3>2 DEF Good
      <4> QED
        BY <1>3, <4>1 DEF Good
    <3> QED
      BY <3>1, <3>2
  <2>3. \A m \in Mbufs : o2[m] \in {"pool", "nic"} => g2[m] = {}
    BY <1>1, <1>3, <1>5 DEF Good
  <2>4. \A p \in Holders : \A h \in L[p] : \A m \in Mbufs : h \notin g2[m]
    BY <1>3, <1>5 DEF Good
  <2>5. \A m, n \in Mbufs : \A x \in g2[m] : x \in g2[n] => m = n
    BY <1>3, <1>4 DEF Good
  <2> QED
    BY <2>1, <2>2, <2>3, <2>4, <2>5 DEF Good
<1>7. ASSUME Full(o, g, L) PROVE Full(o2, g2, L)
  <2> SUFFICES ASSUME NEW p \in Holders, NEW m \in Mbufs, o2[m] = p
               PROVE  m \in L[p] \/ \E h \in L[p] : m \in g2[h]
    BY DEF Full
  <2>1. CASE m \in S
    BY <1>1, <1>3, <2>1
  <2>2. CASE m \notin S
    <3>1. m \in L[p] \/ \E h \in L[p] : m \in g[h]
      BY <1>3, <1>7, <2>2 DEF Full
    <3>2. \A h \in L[p] : m \in g[h] => m \in g2[h]
      BY <1>3 DEF Good
    <3> QED
      BY <3>1, <3>2
  <2> QED
    BY <2>1, <2>2
<1> QED
  BY <1>2, <1>6, <1>7

\* A core appends packets, with their chains, to the chain of another it holds.
LEMMA MergeKeeps ==
    ASSUME NEW o \in [Mbufs -> Places], NEW g \in [Mbufs -> SUBSET Mbufs], NEW L \in [Holders -> SUBSET Mbufs],
           Good(o, g, L), NEW c \in Cores, NEW S, S \subseteq L[c], NEW k \in L[c], k \notin S,
           NEW g2, Merged(g2, g, k, S),
           NEW L2, Fewer(L2, L, c, S)
    PROVE  /\ Good(o, g2, L2)
           /\ Full(o, g, L) => Full(o, g2, L2)
<1>1. c \in Holders /\ c \notin {"pool", "nic"} /\ k \in Mbufs /\ o[k] = c
  BY PlacesDiffer DEF Holders, Good
<1>2. \A m \in Mbufs : m \in Chain(g, S) <=> (m \in S \/ \E h \in S : m \in g[h])
  BY <1>1 DEF Chain
<1>3. \A m \in S : m \in Mbufs /\ o[m] = c
  BY <1>1 DEF Good
<1>4. Chain(g, S) \subseteq Mbufs
  BY <1>3 DEF Chain
<1>5. g2 \in [Mbufs -> SUBSET Mbufs] /\ L2 \in [Holders -> SUBSET Mbufs]
  BY <1>1, <1>4 DEF Merged, Fewer
<1>6. /\ \A m \in Mbufs : m \notin S /\ m # k => g2[m] = g[m]
      /\ g2[k] = g[k] \cup Chain(g, S)
      /\ \A m \in S : g2[m] = {}
      /\ L2[c] = L[c] \ S
      /\ \A r \in Holders : r # c => L2[r] = L[r]
  BY <1>1, <1>3 DEF Merged, Fewer
<1>7. \A m \in Chain(g, S) : o[m] = c /\ m # k /\ g2[m] = {}
  <2> SUFFICES ASSUME NEW m \in Chain(g, S) PROVE o[m] = c /\ m # k /\ g2[m] = {}
    OBVIOUS
  <2>1. CASE m \in S
    BY <1>3, <1>6, <2>1
  <2>2. ASSUME NEW h \in S, m \in g[h] PROVE o[m] = c /\ m # k /\ g2[m] = {}
    BY <1>1, <1>3, <1>6, <2>2 DEF Good
  <2> QED
    BY <1>2, <1>4, <2>1, <2>2
<1>8. Good(o, g2, L2)
  <2>1. \A p \in Holders : \A m \in L2[p] : m \in Mbufs /\ o[m] = p /\ m \in L[p]
    BY <1>6 DEF Good
  <2>2. \A m \in Mbufs : \A x \in g2[m] : o[x] = o[m] /\ g2[x] = {}
    <3> SUFFICES ASSUME NEW m \in Mbufs, NEW x \in g2[m] PROVE o[x] = o[m] /\ g2[x] = {}
      OBVIOUS
    <3>1. CASE x \in g[m]
      <4>1. x \in Mbufs /\ o[x] = o[m] /\ g[x] = {} /\ x # k
        BY <1>1, <3>1 DEF Good
      <4> QED
        BY <1>6, <4>1
    <3>2. CASE x \notin g[m]
      BY <1>1, <1>6, <1>7, <3>2
    <3> QED
      BY <3>1, <3>2
  <2>3. \A m \in Mbufs : o[m] \in {"pool", "nic"} => g2[m] = {}
    BY <1>1, <1>3, <1>6 DEF Good
  <2>4. \A p \in Holders : \A h \in L2[p] : \A m \in Mbufs : h \notin g2[m]
    <3> SUFFICES ASSUME NEW p \in Holders, NEW h \in L2[p], NEW m \in Mbufs PROVE h \notin g2[m]
      OBVIOUS
    <3>1. h \in L[p] /\ h \in Mbufs /\ o[h] = p /\ \A n \in Mbufs : h \notin g[n]
      BY <2>1 DEF Good
    <3>2. h \notin Chain(g, S)
      BY <1>2, <1>3, <1>6, <3>1
    <3> QED
      BY <1>6, <3>1, <3>2
  <2>5. \A m, n \in Mbufs : \A x \in g2[m] : x \in g2[n] => m = n
    <3> SUFFICES ASSUME NEW m \in Mbufs, NEW n \in Mbufs, NEW x \in g2[m], x \in g2[n], m # n PROVE FALSE
      OBVIOUS
    <3>1. m \notin S /\ n \notin S /\ x \in Mbufs
      BY <1>5, <1>6
    <3>2. ASSUME NEW a \in Mbufs, NEW b \in Mbufs, a # b, b # k, b \notin S, x \in g2[a], x \in g2[b], a \notin S PROVE FALSE
      <4>1. x \in g[b] /\ x \notin g[a]
        BY <1>6, <3>2 DEF Good
      <4>2. a = k /\ x \in Chain(g, S)
        BY <1>6, <3>2, <4>1
      <4>3. PICK h \in S : x \in g[h]
        BY <1>1, <1>2, <1>3, <3>1, <3>2, <4>1, <4>2 DEF Good
      <4> QED
        BY <1>3, <3>2, <4>1, <4>3 DEF Good
    <3> QED
      BY <3>1, <3>2
  <2> QED
    BY <2>1, <2>2, <2>3, <2>4, <2>5 DEF Good
<1>9. ASSUME Full(o, g, L) PROVE Full(o, g2, L2)
  <2> SUFFICES ASSUME NEW p \in Holders, NEW m \in Mbufs, o[m] = p
               PROVE  m \in L2[p] \/ \E h \in L2[p] : m \in g2[h]
    BY DEF Full
  <2>1. m \in L[p] \/ \E h \in L[p] : m \in g[h]
    BY <1>9 DEF Full
  <2>2. CASE m \in Chain(g, S)
    BY <1>6, <1>7, <2>2
  <2>3. CASE m \notin Chain(g, S)
    <3>1. m \notin S /\ \A h \in S : m \notin g[h]
      BY <1>2, <2>3
    <3>2. \A h \in L[p] : h \notin S => h \in L2[p] /\ g[h] \subseteq g2[h]
      <4> SUFFICES ASSUME NEW h \in L[p], h \notin S PROVE h \in L2[p] /\ g[h] \subseteq g2[h]
        OBVIOUS
      <4>1. h \in L2[p] /\ h \in Mbufs
        BY <1>6
      <4> QED
        BY <1>6, <4>1
    <3> QED
      BY <2>1, <3>1, <3>2
  <2> QED
    BY <2>2, <2>3
<1> QED
  BY <1>5, <1>8, <1>9

-----------------------------------------------------------------------------
(* Bursts: what they hold, and what parts of them hold. *)

Apart(q) == \A i, j \in 1 .. Len(q) : q[i] = q[j] => i = j

\* The packets of q from the place after a to place b.
Part(q, a, b) == {q[i] : i \in (a + 1) .. b}

LEMMA PartIs ==
    ASSUME NEW T, NEW q \in Seq(T), NEW a \in Nat, NEW b \in Nat, b <= Len(q)
    PROVE  /\ Elements(q) = Part(q, 0, Len(q)) /\ Elements(q) \subseteq T
           /\ SubSeq(q, a + 1, b) \in Seq(T) /\ Elements(SubSeq(q, a + 1, b)) = Part(q, a, b)
           /\ Part(q, a, b) \subseteq Elements(q)
           /\ a <= b => Len(SubSeq(q, a + 1, b)) = b - a
           /\ b <= a => Part(q, a, b) = {}
<1>0. Len(q) \in Nat /\ DOMAIN q = 1 .. Len(q) /\ \A i \in 1 .. Len(q) : q[i] \in T
  OBVIOUS
<1>1. Elements(q) = Part(q, 0, Len(q)) /\ Elements(q) \subseteq T
  BY <1>0 DEF Elements, Part
<1>2. Part(q, a, b) \subseteq Elements(q)
  BY <1>0 DEF Elements, Part
<1> DEFINE p == SubSeq(q, a + 1, b)
<1>3. CASE a < b
  <2>1. p = [i \in 1 .. b - a |-> q[a + i]]
    BY <1>3
  <2>2. \A i \in 1 .. b - a : q[a + i] \in T /\ a + i \in (a + 1) .. b
    BY <1>0, <1>3
  <2> HIDE DEF p
  <2>3. p \in Seq(T) /\ Len(p) = b - a /\ DOMAIN p = 1 .. b - a
    BY <1>3, <2>1, <2>2
  <2>4. Elements(p) = Part(q, a, b)
    <3>1. \A i \in (a + 1) .. b : i - a \in 1 .. b - a /\ a + (i - a) = i
      BY <1>3
    <3> QED
      BY <2>1, <2>2, <2>3, <3>1 DEF Elements, Part
  <2> QED
    BY <1>1, <1>2, <1>3, <2>3, <2>4 DEF p
<1>4. CASE b <= a
  <2>1. p = << >>
    BY <1>4
  <2>2. Part(q, a, b) = {}
    BY <1>4 DEF Part
  <2> HIDE DEF p
  <2>3. Elements(p) = {} /\ p \in Seq(T) /\ Len(p) = 0
    BY <2>1 DEF Elements
  <2>4. a <= b => b - a = 0
    BY <1>4
  <2> QED
    BY <1>1, <1>2, <2>2, <2>3, <2>4 DEF p
<1> QED
  BY <1>3, <1>4

LEMMA RestIs ==
    ASSUME NEW T, NEW q \in Seq(T), NEW a \in Nat
    PROVE  /\ Rest(q, a) \in Seq(T)
           /\ Elements(Rest(q, a)) = Part(q, a, Len(q))
BY PartIs DEF Rest

\* In a burst without repetition parts do not share packets.
LEMMA PartsDiffer ==
    ASSUME NEW T, NEW q \in Seq(T), Apart(q), NEW a \in Nat, NEW b \in Nat, a <= b, b <= Len(q)
    PROVE  /\ Part(q, b, Len(q)) = Part(q, a, Len(q)) \ Part(q, a, b)
           /\ Part(q, a, b) \subseteq Part(q, a, Len(q))
<1>1. Len(q) \in Nat
  OBVIOUS
<1>2. Part(q, a, b) \subseteq Part(q, a, Len(q)) /\ Part(q, b, Len(q)) \subseteq Part(q, a, Len(q))
  BY <1>1 DEF Part
<1>3. \A x \in Part(q, b, Len(q)) : x \notin Part(q, a, b)
  <2> SUFFICES ASSUME NEW i \in (b + 1) .. Len(q), NEW j \in (a + 1) .. b, q[i] = q[j] PROVE FALSE
    BY DEF Part
  <2>1. i \in 1 .. Len(q) /\ j \in 1 .. Len(q) /\ i # j
    BY <1>1
  <2> QED
    BY <2>1 DEF Apart
<1>4. \A x \in Part(q, a, Len(q)) : x \in Part(q, a, b) \/ x \in Part(q, b, Len(q))
  <2> SUFFICES ASSUME NEW i \in (a + 1) .. Len(q) PROVE q[i] \in Part(q, a, b) \/ q[i] \in Part(q, b, Len(q))
    BY DEF Part
  <2>1. i \in (a + 1) .. b \/ i \in (b + 1) .. Len(q)
    BY <1>1
  <2> QED
    BY <2>1 DEF Part
<1> QED
  BY <1>2, <1>3, <1>4

LEMMA FirstIsApart ==
    ASSUME NEW T, NEW q \in Seq(T), NEW n \in Nat, n <= Len(q)
    PROVE  /\ SubSeq(q, 1, n) \in Seq(T) /\ Len(SubSeq(q, 1, n)) = n
           /\ \A i \in 1 .. n : SubSeq(q, 1, n)[i] = q[i]
           /\ Elements(SubSeq(q, 1, n)) = Part(q, 0, n)
           /\ Apart(q) => Apart(SubSeq(q, 1, n))
<1>1. Len(q) \in Nat
  OBVIOUS
<1> DEFINE p == SubSeq(q, 1, n)
<1>2. p \in Seq(T) /\ Len(p) = n /\ Elements(p) = Part(q, 0, n)
  <2>1. 0 + 1 = 1 /\ 0 \in Nat /\ n - 0 = n /\ 0 <= n
    OBVIOUS
  <2> QED
    BY <2>1, PartIs
<1>3. \A i \in 1 .. n : p[i] = q[i]
  <2>1. CASE n = 0
    BY <2>1
  <2>2. CASE n # 0
    BY <1>1, <2>2
  <2> QED
    BY <2>1, <2>2
<1>4. ASSUME Apart(q) PROVE Apart(p)
  <2> HIDE DEF p
  <2>1. \A i \in 1 .. n : i \in 1 .. Len(q)
    BY <1>1
  <2> QED
    BY <1>2, <1>3, <1>4, <2>1 DEF Apart
<1> QED
  BY <1>2, <1>3, <1>4

\* One burst after another.
Joined(s, q, r) == s = q \o r

LEMMA JoinedIs ==
    ASSUME NEW T, NEW q \in Seq(T), NEW r \in Seq(T), NEW s, Joined(s, q, r)
    PROVE  /\ s \in Seq(T) /\ Len(s) = Len(q) + Len(r)
           /\ Elements(s) = Elements(q) \cup Elements(r)
           /\ \A i \in 1 .. Len(q) : s[i] = q[i]
           /\ \A i \in 1 .. Len(r) : s[Len(q) + i] = r[i]
           /\ Apart(q) /\ Apart(r) /\ Elements(q) \cap Elements(r) = {} => Apart(s)
<1> DEFINE m == Len(q)
           n == Len(r)
<1>1. /\ m \in Nat /\ n \in Nat /\ DOMAIN q = 1 .. m /\ DOMAIN r = 1 .. n
      /\ s \in Seq(T) /\ Len(s) = m + n /\ DOMAIN s = 1 .. m + n
  BY DEF Joined
<1>2. /\ \A i \in 1 .. m : s[i] = q[i]
      /\ \A i \in 1 .. n : s[m + i] = r[i]
  BY DEF Joined
<1> HIDE DEF m, n
<1>3. \A i \in 1 .. m + n : i \in 1 .. m \/ (i - m \in 1 .. n /\ m + (i - m) = i)
  BY <1>1
<1>4. \A i \in 1 .. n : m + i \in 1 .. m + n
  BY <1>1
<1>5. \A i \in 1 .. m : i \in 1 .. m + n
  BY <1>1
<1>6. Elements(s) = Elements(q) \cup Elements(r)
  <2>1. Elements(s) \subseteq Elements(q) \cup Elements(r)
    <3> SUFFICES ASSUME NEW i \in 1 .. m + n PROVE s[i] \in Elements(q) \cup Elements(r)
      BY <1>1 DEF Elements
    <3>1. CASE i \in 1 .. m
      BY <1>1, <1>2, <3>1 DEF Elements
    <3>2. CASE i - m \in 1 .. n /\ m + (i - m) = i
      <4>1. s[i] = r[i - m]
        BY <1>2, <3>2
      <4> QED
        BY <1>1, <3>2, <4>1 DEF Elements
    <3> QED
      BY <1>3, <3>1, <3>2
  <2>2. Elements(q) \subseteq Elements(s) /\ Elements(r) \subseteq Elements(s)
    BY <1>1, <1>2, <1>4, <1>5 DEF Elements
  <2> QED
    BY <2>1, <2>2
<1>7. ASSUME Apart(q), Apart(r), Elements(q) \cap Elements(r) = {} PROVE Apart(s)
  <2> SUFFICES ASSUME NEW i \in 1 .. m + n, NEW j \in 1 .. m + n, s[i] = s[j] PROVE i = j
    BY <1>1 DEF Apart
  <2>0. /\ \A a \in 1 .. m : q[a] \in Elements(q)
        /\ \A a \in 1 .. n : r[a] \in Elements(r)
    BY <1>1 DEF Elements
  <2>1. CASE i \in 1 .. m /\ j \in 1 .. m
    BY <1>2, <1>7, <2>1 DEF Apart, m
  <2>2. CASE i - m \in 1 .. n /\ m + (i - m) = i /\ j - m \in 1 .. n /\ m + (j - m) = j
    <3>1. r[i - m] = r[j - m]
      BY <1>2, <2>2
    <3>2. i - m = j - m
      BY <1>7, <2>2, <3>1 DEF Apart, n
    <3> QED
      BY <1>1, <2>2, <3>2
  <2>3. CASE i \in 1 .. m /\ j - m \in 1 .. n /\ m + (j - m) = j
    <3>1. s[i] = q[i] /\ s[j] = r[j - m]
      BY <1>2, <2>3
    <3> QED
      BY <1>7, <2>0, <2>3, <3>1
  <2>4. CASE j \in 1 .. m /\ i - m \in 1 .. n /\ m + (i - m) = i
    <3>1. s[j] = q[j] /\ s[i] = r[i - m]
      BY <1>2, <2>4
    <3> QED
      BY <1>7, <2>0, <2>4, <3>1
  <2> QED
    BY <1>3, <2>1, <2>2, <2>3, <2>4
<1> QED
  BY <1>1, <1>2, <1>6, <1>7 DEF m, n

\* A place of a burst gets another packet.
LEMMA PutIs ==
    ASSUME NEW T, NEW q \in Seq(T), NEW k \in 1 .. Len(q), NEW x \in T
    PROVE  LET p == [q EXCEPT ![k] = x]
           IN  /\ p \in Seq(T) /\ Len(p) = Len(q)
               /\ Apart(q) => Elements(p) = (Elements(q) \ {q[k]}) \cup {x}
               /\ Apart(q) /\ x \notin Elements(q) => Apart(p)
<1> DEFINE p == [q EXCEPT ![k] = x]
           n == Len(q)
<1>1. n \in Nat /\ DOMAIN q = 1 .. n /\ p \in Seq(T) /\ Len(p) = n /\ DOMAIN p = 1 .. n
  OBVIOUS
<1>2. \A i \in 1 .. n : p[i] = IF i = k THEN x ELSE q[i]
  OBVIOUS
<1>3. k \in 1 .. n
  OBVIOUS
<1> HIDE DEF p, n
<1>4. ASSUME Apart(q) PROVE Elements(p) = (Elements(q) \ {q[k]}) \cup {x}
  <2>1. Elements(p) \subseteq (Elements(q) \ {q[k]}) \cup {x}
    BY <1>1, <1>2, <1>3, <1>4 DEF Elements, Apart, n
  <2>2. (Elements(q) \ {q[k]}) \cup {x} \subseteq Elements(p)
    BY <1>1, <1>2, <1>3 DEF Elements
  <2> QED
    BY <2>1, <2>2
<1>5. ASSUME Apart(q), x \notin Elements(q) PROVE Apart(p)
  <2>1. \A i \in 1 .. n : q[i] # x
    BY <1>1, <1>5 DEF Elements
  <2>2. \A i, j \in 1 .. n : q[i] = q[j] => i = j
    BY <1>5 DEF Apart, n
  <2> QED
    BY <1>1, <1>2, <2>1, <2>2 DEF Apart
<1> QED
  BY <1>1, <1>4, <1>5 DEF p, n

LEMMA LinedUp ==
    ASSUME NEW S \in SUBSET Mbufs
    PROVE  /\ IsFiniteSet(S) /\ Cardinality(S) \in Nat
           /\ InOrder(S) \in Seq(Mbufs) /\ Len(InOrder(S)) = Cardinality(S)
           /\ Apart(InOrder(S)) /\ Elements(InOrder(S)) = S
<1>0. NbMbufs \in Nat /\ S \in SUBSET (0 .. NbMbufs)
  BY BurstAssumption DEF Mbufs
<1> DEFINE c == Cardinality(S)
           q == InOrder(S)
<1>1. c \in Nat /\ Enumerates(q, S)
  BY <1>0, InOrderEnumerates
<1>2. IsFiniteSet(S)
  <2>1. IsFiniteSet(0 .. NbMbufs)
    BY <1>0, FS_Interval
  <2> QED
    BY <1>0, <2>1, FS_Subset
<1>3. /\ q \in [1 .. c -> S]
      /\ \A i, j \in 1 .. c : i < j => q[i] < q[j]
      /\ \A k \in S : \E i \in 1 .. c : q[i] = k
  BY <1>1 DEF Enumerates
<1> HIDE DEF q, c
<1>4. q \in Seq(Mbufs) /\ Len(q) = c /\ DOMAIN q = 1 .. c
  BY <1>1, <1>3
<1>5. Elements(q) = S
  BY <1>3, <1>4 DEF Elements
<1>6. Apart(q)
  <2> SUFFICES ASSUME NEW i \in 1 .. c, NEW j \in 1 .. c, q[i] = q[j], i # j PROVE FALSE
    BY <1>4 DEF Apart
  <2>0. q[i] \in S /\ q[j] \in S /\ \A x \in S : x \in Nat
    BY <1>0, <1>3, <1>4
  <2>1. q[i] \in Nat /\ q[j] \in Nat
    BY <2>0
  <2>2. i < j \/ j < i
    BY <1>1
  <2> QED
    BY <1>3, <2>1, <2>2
<1> QED
  BY <1>1, <1>2, <1>4, <1>5, <1>6 DEF q, c

\* What the pool gives: as many mbufs as were asked for, all different.
LEMMA PoolGives ==
    ASSUME NEW n \in Nat, n <= Cardinality(Pool)
    PROVE  /\ FromPool(n) \in Seq(Mbufs) /\ Len(FromPool(n)) = n
           /\ Apart(FromPool(n)) /\ Elements(FromPool(n)) \subseteq Pool
<1> DEFINE q == InOrder(Pool)
<1>1. Pool \in SUBSET Mbufs
  BY DEF Pool
<1>2. q \in Seq(Mbufs) /\ Len(q) = Cardinality(Pool) /\ Apart(q) /\ Elements(q) = Pool /\ Len(q) \in Nat
  BY <1>1, LinedUp
<1> HIDE DEF q
<1>3. FromPool(n) = SubSeq(q, 1, n)
  BY DEF FromPool, q
<1>4. Part(q, 0, n) \subseteq Pool
  BY <1>2, PartIs
<1> QED
  BY <1>2, <1>3, <1>4, FirstIsApart

\* The pool gives something when it is not empty.
LEMMA PoolHasOne ==
    /\ Cardinality(Pool) \in Nat
    /\ Pool # {} => 1 <= Cardinality(Pool)
<1>1. Pool \in SUBSET Mbufs
  BY DEF Pool
<1>2. IsFiniteSet(Pool) /\ Cardinality(Pool) \in Nat
  BY <1>1, LinedUp
<1>3. Cardinality(Pool) = 0 <=> Pool = {}
  BY <1>2, FS_EmptySet
<1> QED
  BY <1>2, <1>3

\* What is kept of a burst: the packets of it that are in a set.
LEMMA KeptIs ==
    ASSUME NEW T, NEW q \in Seq(T), NEW S
    PROVE  /\ Kept(q, S) \in Seq(T)
           /\ Elements(Kept(q, S)) = Elements(q) \cap S
           /\ Apart(q) => Apart(Kept(q, S))
<1> DEFINE P == {i \in DOMAIN q : q[i] \in S}
           p == Only(q, P)
<1>0. P \in SUBSET (DOMAIN q) /\ DOMAIN q = 1 .. Len(q) /\ Len(q) \in Nat /\ Kept(q, S) = p
  BY DEF Kept
<1>3. /\ \A k \in P : k \in 1 .. Len(q) /\ q[k] \in S
      /\ \A k \in 1 .. Len(q) : q[k] \in S => k \in P
  BY <1>0
<1> HIDE DEF P
<1>1. p \in Seq(T)
  BY <1>0, OnlyThose
<1>2. PICK m \in [DOMAIN p -> P] :
         /\ \A i \in DOMAIN p : p[i] = q[m[i]]
         /\ \A i, j \in DOMAIN p : i < j => m[i] < m[j]
         /\ \A k \in P : \E i \in DOMAIN p : m[i] = k
  BY <1>0, OnlyThose
<1> HIDE DEF p
<1>4. DOMAIN p = 1 .. Len(p) /\ Len(p) \in Nat
  BY <1>1
<1>5. Elements(p) = Elements(q) \cap S
  <2>1. \A i \in DOMAIN p : p[i] \in Elements(q) \cap S
    BY <1>0, <1>2, <1>3 DEF Elements
  <2>2. \A k \in 1 .. Len(q) : q[k] \in S => \E i \in DOMAIN p : p[i] = q[k]
    BY <1>2, <1>3
  <2> QED
    BY <1>0, <2>1, <2>2 DEF Elements
<1>6. ASSUME Apart(q) PROVE Apart(p)
  <2> SUFFICES ASSUME NEW i \in 1 .. Len(p), NEW j \in 1 .. Len(p), p[i] = p[j], i # j PROVE FALSE
    BY DEF Apart
  <2>1. m[i] \in 1 .. Len(q) /\ m[j] \in 1 .. Len(q) /\ q[m[i]] = q[m[j]]
    BY <1>2, <1>3, <1>4
  <2>2. m[i] = m[j]
    BY <1>6, <2>1 DEF Apart
  <2>3. i < j \/ j < i
    BY <1>4
  <2>4. m[i] < m[j] \/ m[j] < m[i]
    BY <1>2, <1>4, <2>3
  <2> QED
    BY <2>1, <2>2, <2>4
<1> QED
  BY <1>0, <1>1, <1>5, <1>6

-----------------------------------------------------------------------------
(* What a core keeps on its stack: the kinds of its variables, and what    *)
(* each place of the code knows of them.                                   *)

FirstPcs == {"first", "retry first", "sent"}
FifoPcs == {"room", "store", "make room", "refill", "oldest", "retry oldest", "drop",
            "flush", "retry flush", "drop flush", "flush on"}
Pcs == {"idle", "discard", "filter", "ptp", "alloc", "prepare", "generate", "copy", "gso",
        "send", "finish"} \cup FirstPcs \cup FifoPcs

CpuType == [pc : Pcs, s : Streams \cup {0}, pkts : Seq(Mbufs), nb : Nat, tx : Nat, lim : Nat,
            tries : Nat, tmp : Seq(Mbufs), t : Nat]

\* The engines that have a place in their code.
Serves(pc, o) ==
    /\ pc \in {"send", "finish"} => o.mode \in {"io", "icmpecho", "txonly", "flowgen", "csum"}
    /\ pc = "discard" => o.mode \in {"rxonly", "flowgen"}
    /\ pc = "filter" => o.mode = "icmpecho"
    /\ pc = "ptp" => o.mode = "ieee1588"
    /\ pc \in {"alloc", "prepare"} => o.mode = "txonly"
    /\ pc = "generate" => o.mode = "flowgen"
    /\ pc \in {"copy", "gso"} => o.mode = "csum"
    /\ pc \in FirstPcs => o.mode = "noisy" /\ o.bufsz = 0
    /\ pc \in FifoPcs => o.mode = "noisy" /\ o.bufsz > 0
    /\ pc \in {"retry first", "retry oldest", "retry flush"} => o.retry
    /\ pc \in {"retry flush", "drop flush", "flush on"} => o.flush

\* What the variables of core c hold.
Fits(r, c, o) ==
    /\ Serves(r.pc, o)
    /\ r.pc = "idle" => r = IdleCpu
    /\ r.pc # "idle" => r.s \in Streams /\ o.lcore[r.s] = c
    /\ r.pc # "prepare" => Len(r.pkts) = r.nb
    /\ r.pc = "prepare" => r.nb < Len(r.pkts) /\ Len(r.pkts) <= NbPktPerBurst
    /\ r.pc = "alloc" => r.nb < NbPktPerBurst
    /\ o.mode \in {"noisy", "flowgen"} => r.nb <= NbPktPerBurst
    /\ r.pc = "send" => r.tx <= r.lim /\ r.lim <= r.nb
    /\ r.pc = "finish" => r.tx <= r.nb
    /\ r.pc \in {"copy", "gso"} => r.t <= r.nb
    /\ r.pc = "copy" => r.tmp = << >>
    /\ r.pc = "retry first" => r.tmp = r.pkts
    /\ r.pc = "refill" => Len(r.tmp) <= r.nb
    /\ r.pc \in {"retry first", "retry oldest"} => r.t <= r.nb
    /\ r.pc = "sent" => (~o.retry => r.tx <= r.nb)
    /\ r.pc = "drop" => (~o.retry => r.tx <= Len(r.tmp))
    /\ r.pc \in {"retry flush", "drop flush"} => r.lim <= Len(r.tmp)
    /\ r.pc \in {"filter", "alloc", "prepare", "generate"} => r.tx = 0

CpuInv ==
    /\ conf \in Confs
    /\ cpu \in [Cores -> CpuType]
    /\ \A c \in Cores : Fits(cpu[c], c, conf)

\* Core c goes on with r.
Goes(c, r) == r \in CpuType /\ cpu' = [cpu EXCEPT ![c] = r] /\ conf' = conf

LEMMA GoesKeeps ==
    ASSUME CpuInv, NEW c \in Cores, NEW r, Goes(c, r), Fits(r, c, conf)
    PROVE  /\ CpuInv'
           /\ cpu'[c] = r
           /\ \A d \in Cores : d # c => cpu'[d] = cpu[d]
<1>1. /\ cpu' \in [Cores -> CpuType] /\ cpu'[c] = r
      /\ \A d \in Cores : d # c => cpu'[d] = cpu[d]
  BY DEF CpuInv, Goes
<1>2. \A d \in Cores : Fits(cpu'[d], d, conf')
  BY <1>1 DEF CpuInv, Goes
<1> QED
  BY <1>1, <1>2 DEF CpuInv, Goes

LEMMA IdleIs ==
    /\ IdleCpu \in CpuType
    /\ IdleCpu.pc = "idle" /\ IdleCpu.s = 0 /\ IdleCpu.pkts = << >> /\ IdleCpu.nb = 0 /\ IdleCpu.tx = 0
    /\ IdleCpu.lim = 0 /\ IdleCpu.tries = 0 /\ IdleCpu.tmp = << >> /\ IdleCpu.t = 0
BY DEF IdleCpu, CpuType, Pcs

LEMMA IdleFits ==
    ASSUME CpuInv, NEW c \in Cores
    PROVE  Fits(IdleCpu, c, conf)
<1>1. Len(<< >>) = 0 /\ 0 <= NbPktPerBurst /\ NbPktPerBurst \in Nat
  BY BurstAssumption
<1>2. Serves("idle", conf)
  BY DEF Serves, FirstPcs, FifoPcs
<1> DEFINE r == IdleCpu
<1>3. r.pc = "idle" /\ r.pkts = << >> /\ r.nb = 0
  BY IdleIs
<1>4. r = IdleCpu
  OBVIOUS
<1> HIDE DEF r
<1>5. Fits(r, c, conf)
  BY <1>1, <1>2, <1>3, <1>4 DEF Fits
<1> QED
  BY <1>5 DEF r

LEMMA ModeIs ==
    ASSUME CpuInv
    PROVE  /\ conf.mode \in {"io", "rxonly", "icmpecho", "ieee1588", "txonly", "flowgen", "csum", "noisy"}
           /\ conf.lcore \in [Streams -> Cores] /\ conf.bufsz \in Nat
           /\ conf.retry \in BOOLEAN /\ conf.gso \in BOOLEAN /\ conf.flush \in BOOLEAN
           /\ conf.flush => conf.bufsz > 0
           /\ conf.gro \in {"off", "burst", "context"}
BY ConfsAssumption DEF CpuInv

\* A burst that was received.
Got(r, pc, s, n) ==
    /\ r.pc = pc /\ r.s = s /\ r.pkts = FromPool(n) /\ r.nb = n /\ r.tx = 0 /\ r.lim = n
    /\ r.tries = 0 /\ r.tmp = << >> /\ r.t = 0

LEMMA ReceiveIs ==
    ASSUME CpuInv, NEW c \in Cores, NEW s \in Streams, Turn(c, s), NEW n \in Nat, NEW pc \in Pcs,
           Receive(c, s, n, pc), conf' = conf
    PROVE  \E r : Goes(c, r) /\ Got(r, pc, s, n)
<1> DEFINE q == FromPool(n)
           r == [IdleCpu EXCEPT !.pc = pc, !.s = s, !.pkts = q, !.nb = n, !.lim = n]
<1>1. q \in Seq(Mbufs)
  BY PoolGives DEF Receive
<1>2. cpu' = [cpu EXCEPT ![c] = r]
  BY DEF Receive
<1> HIDE DEF q
<1>3. r \in CpuType
  BY <1>1, IdleIs DEF CpuType
<1>4. /\ r.pc = pc /\ r.s = s /\ r.pkts = q /\ r.nb = n /\ r.tx = 0 /\ r.lim = n
      /\ r.tries = 0 /\ r.tmp = << >> /\ r.t = 0
  BY IdleIs DEF CpuType
<1> HIDE DEF r
<1>6. Goes(c, r) /\ Got(r, pc, s, n)
  BY <1>2, <1>3, <1>4 DEF Goes, Got, q
<1> QED
  BY <1>6

\* Where a burst may go on when it was received.
LEMMA GotFits ==
    ASSUME CpuInv, NEW c \in Cores, NEW s \in Streams, Turn(c, s), NEW n \in Nat, n <= Cardinality(Pool),
           NEW pc \in {"discard", "filter", "ptp", "copy", "send", "first", "room"}, Serves(pc, conf),
           conf.mode \in {"noisy", "flowgen"} => n <= NbPktPerBurst,
           NEW r, r \in CpuType, Got(r, pc, s, n)
    PROVE  Fits(r, c, conf)
<1>1. Len(FromPool(n)) = n
  BY PoolGives
<1>2. conf.lcore[s] = c
  BY DEF Turn
<1>3. /\ r.pc = pc /\ r.s = s /\ r.nb = n /\ r.tx = 0 /\ r.lim = n /\ r.t = 0 /\ r.tmp = << >>
      /\ Len(r.pkts) = n
  BY <1>1 DEF Got
<1>4. pc \notin {"idle", "prepare", "alloc", "finish", "gso", "retry first", "retry oldest", "sent", "drop", "drop flush", "retry flush", "generate", "refill"}
  OBVIOUS
<1>5. 0 <= n /\ n <= n
  OBVIOUS
<1>6. \A o : Serves(pc, o) /\ o.lcore[s] = c /\ (o.mode \in {"noisy", "flowgen"} => n <= NbPktPerBurst) => Fits(r, c, o)
  BY <1>3, <1>4, <1>5 DEF Fits
<1> QED
  BY <1>2, <1>6

-----------------------------------------------------------------------------
(* Which packets a core is to hand on, by the place of the code it is at,  *)
(* and what holds of all holders together.                                 *)

HoldsAll == {"discard", "filter", "ptp", "alloc", "prepare", "generate", "copy", "first", "room",
             "store", "make room"}

InHand(r, o) ==
    IF r.pc \in HoldsAll \/ (r.pc = "gso" /\ ~o.gso) THEN Elements(r.pkts)
    ELSE IF r.pc \in {"send", "finish", "sent"} THEN Part(r.pkts, r.tx, Len(r.pkts))
    ELSE IF r.pc = "gso" THEN Part(r.pkts, r.t, Len(r.pkts)) \cup Elements(r.tmp)
    ELSE IF r.pc = "refill" THEN Elements(r.pkts) \cup Elements(r.tmp)
    ELSE IF r.pc = "oldest" THEN Elements(r.tmp)
    ELSE IF r.pc = "drop" THEN Part(r.tmp, r.tx, Len(r.tmp))
    ELSE IF r.pc \in {"retry first", "retry oldest"} THEN Part(r.tmp, r.t, Len(r.tmp))
    ELSE IF r.pc \in {"retry flush", "drop flush"} THEN Part(r.tmp, r.lim, Len(r.tmp))
    ELSE {}

\* What each holder knows of.
Live == [p \in Holders |->
            IF p \in Cores THEN InHand(cpu[p], conf)
            ELSE IF p = "gro" THEN UNION {gro[c] : c \in Cores} ELSE Elements(fifo)]

\* When each packet is handed on once, and when none is lost.
Careful == conf.mode = "noisy" => ~conf.retry \/ conf.bufsz = 0 \/ (~conf.flush /\ AmpleFifo)
Keeping == conf.mode = "noisy" => ~conf.retry /\ (conf.bufsz = 0 \/ AmpleFifo)

\* No packet is twice in the arrays of a core, and what is to be prepared has no chain yet.
NoneTwice(r, g) ==
    /\ Apart(r.pkts) /\ Apart(r.tmp)
    /\ r.pc = "refill" => Elements(r.pkts) \cap Elements(r.tmp) = {}
    /\ r.pc = "gso" => Part(r.pkts, r.t, Len(r.pkts)) \cap Elements(r.tmp) = {}
    /\ r.pc \in {"alloc", "prepare"} => \A x \in Part(r.pkts, r.nb, Len(r.pkts)) : g[x] = {}

\* An ample FIFO has room for the burst, or gives back as many packets as were received.
Room(r, f) == conf.mode = "noisy" /\ AmpleFifo =>
    /\ r.pc = "store" => conf.bufsz - Len(f) >= r.nb
    /\ r.pc = "make room" => conf.bufsz - Len(f) < r.nb
    /\ r.pc = "refill" => Len(r.tmp) = r.nb /\ conf.bufsz - Len(f) >= r.nb
    /\ r.pc \in {"oldest", "retry oldest"} => Len(r.tmp) = r.nb

HoldTypes ==
    /\ owner \in [Mbufs -> Places]
    /\ segs \in [Mbufs -> SUBSET Mbufs]
    /\ gro \in [Cores -> SUBSET Mbufs]
    /\ fifo \in Seq(Mbufs) /\ Len(fifo) <= conf.bufsz
    /\ misused \in BOOLEAN
    /\ conf.mode = "noisy" => \A m \in Mbufs : segs[m] = {}
    /\ conf.mode # "noisy" => fifo = << >>

OwnInv ==
    Careful => /\ misused = FALSE
               /\ Good(owner, segs, Live)
               /\ \A c \in Cores : NoneTwice(cpu[c], segs) /\ Room(cpu[c], fifo)
               /\ Apart(fifo)
               /\ \A c, d \in Cores : c # d => gro[c] \cap gro[d] = {}

FullInv == Keeping => Full(owner, segs, Live)

Held3 == CpuInv /\ HoldTypes /\ OwnInv /\ FullInv

LEMMA KeepingIsCareful == CpuInv /\ Keeping => Careful
BY ModeIs DEF Keeping, Careful

LEMMA InHandType ==
    ASSUME NEW r \in CpuType, NEW o
    PROVE  InHand(r, o) \in SUBSET Mbufs
<1>1. r.pkts \in Seq(Mbufs) /\ r.tmp \in Seq(Mbufs) /\ {r.tx, r.t, r.lim} \subseteq Nat
  BY DEF CpuType
<1>2. Len(r.pkts) \in Nat /\ Len(r.tmp) \in Nat
  BY <1>1
<1>3. /\ \A a \in {r.tx, r.t, r.lim} : Part(r.pkts, a, Len(r.pkts)) \subseteq Mbufs
      /\ \A a \in {r.tx, r.t, r.lim} : Part(r.tmp, a, Len(r.tmp)) \subseteq Mbufs
      /\ Elements(r.pkts) \subseteq Mbufs /\ Elements(r.tmp) \subseteq Mbufs
  <2>1. ASSUME NEW q \in Seq(Mbufs), NEW a \in Nat
        PROVE  Part(q, a, Len(q)) \subseteq Mbufs /\ Elements(q) \subseteq Mbufs
    <3>1. Len(q) \in Nat /\ Len(q) <= Len(q)
      OBVIOUS
    <3> QED
      BY <3>1, PartIs
  <2> QED
    BY <1>1, <2>1
<1> QED
  BY <1>3 DEF InHand

LEMMA LiveIs ==
    ASSUME CpuInv, HoldTypes
    PROVE  /\ Live \in [Holders -> SUBSET Mbufs]
           /\ \A c \in Cores : Live[c] = InHand(cpu[c], conf)
           /\ Live["gro"] = UNION {gro[c] : c \in Cores}
           /\ Live["fifo"] = Elements(fifo)
<1>1. \A c \in Cores : c \in Holders /\ c # "gro" /\ c # "fifo" /\ InHand(cpu[c], conf) \in SUBSET Mbufs
  BY PlacesDiffer, InHandType DEF Holders, CpuInv
<1>2. UNION {gro[c] : c \in Cores} \in SUBSET Mbufs /\ Elements(fifo) \in SUBSET Mbufs
  BY PartIs DEF HoldTypes, Elements
<1>3. "gro" \in Holders /\ "fifo" \in Holders /\ "gro" \notin Cores /\ "fifo" \notin Cores
  BY PlacesDiffer DEF Holders
<1> QED
  BY <1>1, <1>2, <1>3 DEF Live

\* Less that is known of is as good.
LEMMA LessIsGood ==
    ASSUME NEW o, NEW g, NEW L, Good(o, g, L), NEW L2, \A p \in Holders : L2[p] \subseteq L[p]
    PROVE  Good(o, g, L2)
BY DEF Good

\* What follows when core c goes on with r, and the queues stay as they are.
LEMMA LiveGoes ==
    ASSUME CpuInv, HoldTypes, NEW c \in Cores, NEW r, Goes(c, r), UNCHANGED <<gro, fifo>>
    PROVE  Live' = [Live EXCEPT ![c] = InHand(r, conf)]
<1>1. /\ cpu'[c] = r /\ conf' = conf /\ \A d \in Cores : d # c => cpu'[d] = cpu[d]
  BY DEF CpuInv, Goes
<1>2. c \in Holders
  BY DEF Holders
<1>3. Live' = [p \in Holders |->
            IF p \in Cores THEN InHand(cpu'[p], conf)
            ELSE IF p = "gro" THEN UNION {gro[d] : d \in Cores} ELSE Elements(fifo)]
  BY <1>1 DEF Live
<1>4. \A p \in Holders : Live'[p] = IF p = c THEN InHand(r, conf) ELSE Live[p]
  <2> SUFFICES ASSUME NEW p \in Holders PROVE Live'[p] = IF p = c THEN InHand(r, conf) ELSE Live[p]
    OBVIOUS
  <2>1. CASE p = c
    BY <1>1, <1>3, <2>1
  <2>2. CASE p # c
    <3>1. p \in Cores => cpu'[p] = cpu[p]
      BY <1>1, <2>2
    <3> QED
      BY <1>3, <2>2, <3>1 DEF Live
  <2> QED
    BY <2>1, <2>2
<1>5. Live = [p \in Holders |-> Live[p]] /\ Live' = [p \in Holders |-> Live'[p]]
  BY <1>3 DEF Live
<1> QED
  BY <1>2, <1>4, <1>5

\* What a step of core c must do when it goes on with r; L2 is what the holders know of then.
SafeStep(c, r, L2) ==
    /\ misused' = FALSE
    /\ Good(owner', segs', L2) /\ \A p \in Holders : Live'[p] \subseteq L2[p]
    /\ NoneTwice(r, segs') /\ Room(r, fifo')
    /\ \A x \in Mbufs : owner[x] # c /\ segs[x] = {} /\ owner[x] # "pool" => segs'[x] = {}

SafeQueues(c) ==
    /\ Apart(fifo') /\ \A d, e \in Cores : d # e => gro'[d] \cap gro'[e] = {}
    /\ \A d \in Cores : d # c => Room(cpu[d], fifo')

FullStep(L2) ==
    Full(owner, segs, Live) => Full(owner', segs', L2) /\ \A p \in Holders : L2[p] = Live'[p]

LEMMA AnyGoes ==
    ASSUME Held3, HoldTypes', NEW c \in Cores, NEW r, Goes(c, r), Fits(r, c, conf), NEW L2,
           Careful => SafeStep(c, r, L2), Careful => SafeQueues(c), Keeping => FullStep(L2)
    PROVE  Held3'
<1>1. CpuInv' /\ cpu'[c] = r /\ \A d \in Cores : d # c => cpu'[d] = cpu[d]
  BY GoesKeeps DEF Held3
<1>4. conf' = conf /\ (Careful' <=> Careful) /\ (Keeping' <=> Keeping)
  BY DEF Goes, Careful, Keeping, AmpleFifo, OneCore
<1>5. OwnInv'
  <2> SUFFICES ASSUME Careful
               PROVE  /\ misused' = FALSE
                      /\ Good(owner', segs', Live')
                      /\ \A d \in Cores : NoneTwice(cpu'[d], segs') /\ Room(cpu[d], fifo)'
                      /\ Apart(fifo')
                      /\ \A d, e \in Cores : d # e => gro'[d] \cap gro'[e] = {}
    BY <1>4 DEF OwnInv
  <2> USE DEF SafeStep, SafeQueues
  <2>1. Good(owner', segs', Live')
    BY LessIsGood
  <2>2. ASSUME NEW d \in Cores PROVE NoneTwice(cpu'[d], segs')
    <3>1. CASE d = c
      BY <1>1, <3>1
    <3>2. CASE d # c
      <4> DEFINE q == cpu[d]
      <4>1. NoneTwice(q, segs) /\ q \in CpuType /\ cpu'[d] = q
        BY <1>1, <3>2 DEF Held3, OwnInv, CpuInv
      <4>2. ASSUME q.pc \in {"alloc", "prepare"}, NEW x \in Part(q.pkts, q.nb, Len(q.pkts)) PROVE segs'[x] = {}
        <5>1. x \in Elements(q.pkts)
          <6>1. q.pkts \in Seq(Mbufs) /\ q.nb \in Nat
            BY <4>1 DEF CpuType
          <6>2. Len(q.pkts) \in Nat /\ Len(q.pkts) <= Len(q.pkts)
            BY <6>1
          <6> QED
            BY <4>2, <6>1, <6>2, PartIs
        <5>2. x \in Live[d] /\ d \in Holders
          BY <4>2, <5>1, LiveIs DEF InHand, HoldsAll, Held3, Holders
        <5>3. x \in Mbufs /\ owner[x] = d /\ segs[x] = {}
          BY <4>1, <4>2, <5>2 DEF NoneTwice, Held3, OwnInv, Good
        <5>4. owner[x] # "pool" /\ owner[x] # c
          BY <3>2, <5>2, <5>3, PlacesDiffer
        <5> QED
          BY <5>3, <5>4
      <4> HIDE DEF q
      <4> QED
        BY <4>1, <4>2 DEF NoneTwice
    <3> QED
      BY <3>1, <3>2
  <2>3. ASSUME NEW d \in Cores PROVE Room(cpu[d], fifo)'
    <3>1. Room(cpu[d], fifo)' <=> Room(cpu'[d], fifo')
      BY <1>4 DEF Room, AmpleFifo, OneCore
    <3>2. CASE d = c
      BY <1>1, <3>1, <3>2
    <3>3. CASE d # c
      BY <1>1, <3>1, <3>3
    <3> QED
      BY <3>2, <3>3
  <2> QED
    BY <2>1, <2>2, <2>3
<1>6. FullInv'
  <2> SUFFICES ASSUME Keeping PROVE Full(owner', segs', Live')
    BY <1>4 DEF FullInv
  <2>1. Careful /\ Full(owner, segs, Live)
    BY KeepingIsCareful DEF Held3, FullInv
  <2> QED
    BY <2>1 DEF Full, FullStep
<1> QED
  BY <1>1, <1>5, <1>6 DEF Held3

LEMMA OwnGoes ==
    ASSUME Held3, HoldTypes', NEW c \in Cores, NEW r, Goes(c, r), Fits(r, c, conf), UNCHANGED <<gro, fifo>>,
           NEW L2 \in [Holders -> SUBSET Mbufs],
           Careful => /\ misused' = FALSE
                      /\ Good(owner', segs', L2) /\ InHand(r, conf) \subseteq L2[c]
                      /\ \A p \in Holders : p # c => L2[p] = Live[p]
                      /\ NoneTwice(r, segs') /\ Room(r, fifo)
                      /\ \A x \in Mbufs : owner[x] # c /\ segs[x] = {} /\ owner[x] # "pool" => segs'[x] = {},
           Keeping /\ Full(owner, segs, Live) => Full(owner', segs', L2) /\ L2[c] = InHand(r, conf)
    PROVE  Held3'
<1>1. Live' = [Live EXCEPT ![c] = InHand(r, conf)]
  BY LiveGoes DEF Held3
<1>2. c \in Holders /\ Live \in [Holders -> SUBSET Mbufs]
  BY LiveIs DEF Held3, Holders
<1>3. \A p \in Holders : Live'[p] = IF p = c THEN InHand(r, conf) ELSE Live[p]
  BY <1>1, <1>2
<1>4. Careful => \A p \in Holders : Live'[p] \subseteq L2[p]
  BY <1>3
<1>5. Keeping => Careful
  BY KeepingIsCareful DEF Held3
<1>6. Keeping => FullStep(L2)
  BY <1>3, <1>5 DEF FullStep
<1>7. Careful => SafeQueues(c)
  <2>1. fifo' = fifo /\ gro' = gro
    OBVIOUS
  <2> QED
    BY <2>1 DEF Held3, OwnInv, SafeQueues
<1>8. Careful => SafeStep(c, r, L2)
  BY <1>4 DEF SafeStep
<1> QED
  BY <1>6, <1>7, <1>8, AnyGoes

\* A core gives some of what it holds to the port or the pool and goes on with the rest.
LEMMA GiveGoes ==
    ASSUME Held3, NEW c \in Cores, NEW r, Goes(c, r), Fits(r, c, conf), UNCHANGED <<gro, fifo>>,
           NEW S, NEW to \in Away, Give(c, S, to),
           Careful => /\ S \subseteq InHand(cpu[c], conf)
                      /\ InHand(r, conf) \subseteq InHand(cpu[c], conf) \ S
                      /\ NoneTwice(r, segs) /\ Room(r, fifo),
           Keeping => InHand(r, conf) = InHand(cpu[c], conf) \ S
    PROVE  Held3'
<1> DEFINE o2 == [m \in Mbufs |-> IF m \in Whole(S) THEN to ELSE owner[m]]
           g2 == [m \in Mbufs |-> IF m \in S THEN {} ELSE segs[m]]
           H == InHand(cpu[c], conf)
           L2 == [Live EXCEPT ![c] = H \ S]
<1>1. owner' = o2 /\ segs' = g2 /\ misused' = (misused \/ \E m \in S : m = Junk \/ owner[m] # c)
  BY DEF Give
<1>2. Live \in [Holders -> SUBSET Mbufs] /\ Live[c] = H /\ c \in Holders
  BY LiveIs DEF Held3, Holders
<1>3. L2 \in [Holders -> SUBSET Mbufs] /\ L2[c] = H \ S /\ \A p \in Holders : p # c => L2[p] = Live[p]
  BY <1>2
<1>4. owner \in [Mbufs -> Places] /\ segs \in [Mbufs -> SUBSET Mbufs] /\ misused \in BOOLEAN
  BY DEF Held3, HoldTypes
<1>5. HoldTypes'
  <2>1. o2 \in [Mbufs -> Places] /\ g2 \in [Mbufs -> SUBSET Mbufs]
    BY <1>4, PlacesDiffer DEF Away
  <2>2. conf' = conf /\ misused' \in BOOLEAN
    BY <1>1, <1>4 DEF Goes
  <2>3. \A m \in Mbufs : segs[m] = {} => g2[m] = {}
    OBVIOUS
  <2> HIDE DEF o2, g2
  <2> QED
    BY <1>1, <2>1, <2>2, <2>3 DEF Held3, HoldTypes
<1>6. ASSUME Careful
      PROVE  /\ misused' = FALSE
             /\ Good(o2, g2, L2)
             /\ Full(owner, segs, Live) => Full(o2, g2, L2)
             /\ NoneTwice(r, g2)
  <2>1. S \in SUBSET Live[c] /\ S \subseteq Mbufs
    BY <1>2, <1>6
  <2>2. Good(owner, segs, Live) /\ misused = FALSE
    BY <1>6 DEF Held3, OwnInv
  <2>3. \A m \in S : m # Junk /\ owner[m] = c
    <3>1. Junk \notin Mbufs
      BY BurstAssumption DEF Mbufs, Junk
    <3> QED
      BY <1>2, <2>1, <2>2, <3>1 DEF Good
  <2>4. Whole(S) = Chain(segs, S)
    BY <2>1 DEF Whole, Chain
  <2>5. Good(o2, g2, L2) /\ (Full(owner, segs, Live) => Full(o2, g2, L2))
    <3>1. Moved(o2, owner, Chain(segs, S), to)
      BY <1>4, <2>4, PlacesDiffer DEF Away, Moved
    <3>2. Cut(g2, segs, S)
      BY <1>4 DEF Cut
    <3>3. Fewer(L2, Live, c, S)
      BY <1>2, <1>3 DEF Fewer
    <3> HIDE DEF o2, g2, L2, H
    <3> QED
      <4>1. c \in Holders /\ Live \in [Holders -> SUBSET Mbufs] /\ L2 \in [Holders -> SUBSET Mbufs] /\ S \subseteq Live[c]
        BY <1>2, <1>3, <2>1
      <4> QED
        BY <4>1, <1>4, <2>2, <3>1, <3>2, <3>3, GiveKeeps
  <2>6. NoneTwice(r, g2)
    <3>1. \A x \in Mbufs : segs[x] = {} => g2[x] = {}
      OBVIOUS
    <3>2. Part(r.pkts, r.nb, Len(r.pkts)) \subseteq Mbufs
      <4>1. r.pkts \in Seq(Mbufs) /\ r.nb \in Nat
        BY DEF Goes, CpuType
      <4>2. Len(r.pkts) \in Nat /\ Len(r.pkts) <= Len(r.pkts)
        BY <4>1
      <4> QED
        BY <4>1, <4>2, PartIs
    <3> HIDE DEF g2
    <3> QED
      BY <1>6, <3>1, <3>2 DEF NoneTwice
  <2> QED
    BY <1>1, <2>2, <2>3, <2>5, <2>6
<1>7. \A x \in Mbufs : segs[x] = {} => g2[x] = {}
  OBVIOUS
<1>8. Keeping => L2[c] = InHand(r, conf)
  BY <1>3
<1>9. Careful => InHand(r, conf) \subseteq L2[c] /\ Room(r, fifo)
  BY <1>3
<1>10. Keeping => Careful
  BY KeepingIsCareful DEF Held3
<1> HIDE DEF o2, g2, L2, H
<1>11. Careful => /\ misused' = FALSE
                  /\ Good(owner', segs', L2) /\ InHand(r, conf) \subseteq L2[c]
                  /\ \A p \in Holders : p # c => L2[p] = Live[p]
                  /\ NoneTwice(r, segs') /\ Room(r, fifo)
                  /\ \A x \in Mbufs : owner[x] # c /\ segs[x] = {} /\ owner[x] # "pool" => segs'[x] = {}
  BY <1>1, <1>3, <1>6, <1>7, <1>9
<1>12. Keeping /\ Full(owner, segs, Live) => Full(owner', segs', L2) /\ L2[c] = InHand(r, conf)
  BY <1>1, <1>6, <1>8, <1>10
<1> QED
  BY <1>3, <1>5, <1>11, <1>12, OwnGoes

\* A core takes mbufs of the pool.
LEMMA TakeGoes ==
    ASSUME Held3, NEW c \in Cores, NEW r, Goes(c, r), Fits(r, c, conf), UNCHANGED <<gro, fifo, segs, misused>>,
           NEW S, S \subseteq Pool, owner' = [m \in Mbufs |-> IF m \in S THEN c ELSE owner[m]],
           Careful => /\ InHand(r, conf) = InHand(cpu[c], conf) \cup S
                      /\ NoneTwice(r, segs) /\ Room(r, fifo)
    PROVE  Held3'
<1> DEFINE o2 == [m \in Mbufs |-> IF m \in S THEN c ELSE owner[m]]
           H == InHand(cpu[c], conf)
           L2 == [Live EXCEPT ![c] = Live[c] \cup S]
<1>2. Live \in [Holders -> SUBSET Mbufs] /\ Live[c] = H /\ c \in Holders
  BY LiveIs DEF Held3, Holders
<1>1. S \in SUBSET Mbufs /\ \A m \in S : owner[m] = "pool"
  BY DEF Pool
<1>3. L2 \in [Holders -> SUBSET Mbufs] /\ L2[c] = H \cup S /\ \A p \in Holders : p # c => L2[p] = Live[p]
  BY <1>1, <1>2
<1>4. owner \in [Mbufs -> Places] /\ segs \in [Mbufs -> SUBSET Mbufs]
  BY DEF Held3, HoldTypes
<1>5. HoldTypes'
  <2>1. o2 \in [Mbufs -> Places]
    BY <1>4 DEF Places
  <2>2. conf' = conf
    BY DEF Goes
  <2> HIDE DEF o2
  <2> QED
    BY <2>1, <2>2 DEF Held3, HoldTypes, o2
<1>6. ASSUME Careful
      PROVE  /\ misused' = FALSE
             /\ Good(o2, segs, L2)
             /\ Full(owner, segs, Live) => Full(o2, segs, L2)
  <2>2. Good(owner, segs, Live) /\ misused' = FALSE
    BY <1>6 DEF Held3, OwnInv
  <2>3. Moved(o2, owner, S, c)
    BY <1>4 DEF Places, Moved
  <2>5. More(L2, Live, c, S)
    BY <1>2, <1>3 DEF More
  <2> HIDE DEF H, o2, L2
  <2>4. Good(o2, segs, L2) /\ (Full(owner, segs, Live) => Full(o2, segs, L2))
    BY <1>1, <1>2, <1>3, <1>4, <2>2, <2>3, <2>5, TakeKeeps
  <2> QED
    BY <2>2, <2>4
<1>8. Careful => InHand(r, conf) = L2[c] /\ Room(r, fifo) /\ NoneTwice(r, segs)
  BY <1>3
<1>10. Keeping => Careful
  BY KeepingIsCareful DEF Held3
<1>11. owner' = o2 /\ segs' = segs
  OBVIOUS
<1> HIDE DEF o2, L2, H
<1>12. Careful => /\ misused' = FALSE
                  /\ Good(owner', segs', L2) /\ InHand(r, conf) \subseteq L2[c]
                  /\ \A p \in Holders : p # c => L2[p] = Live[p]
                  /\ NoneTwice(r, segs') /\ Room(r, fifo)
                  /\ \A x \in Mbufs : owner[x] # c /\ segs[x] = {} /\ owner[x] # "pool" => segs'[x] = {}
  BY <1>3, <1>6, <1>8, <1>11
<1>13. Keeping /\ Full(owner, segs, Live) => Full(owner', segs', L2) /\ L2[c] = InHand(r, conf)
  BY <1>6, <1>8, <1>10, <1>11
<1> QED
  BY <1>3, <1>5, <1>12, <1>13, OwnGoes

\* A core goes on without moving a packet.
LEMMA StayGoes ==
    ASSUME Held3, NEW c \in Cores, NEW r, Goes(c, r), Fits(r, c, conf), UNCHANGED <<gro, fifo, owner, segs, misused>>,
           Careful => /\ InHand(r, conf) \subseteq InHand(cpu[c], conf)
                      /\ NoneTwice(r, segs) /\ Room(r, fifo),
           Keeping => InHand(r, conf) = InHand(cpu[c], conf)
    PROVE  Held3'
<1>2. Live \in [Holders -> SUBSET Mbufs] /\ Live[c] = InHand(cpu[c], conf) /\ c \in Holders
  BY LiveIs DEF Held3, Holders
<1>5. HoldTypes'
  BY DEF Held3, HoldTypes, Goes
<1>6. Careful => misused' = FALSE /\ Good(owner, segs, Live)
  BY DEF Held3, OwnInv
<1>7. owner' = owner /\ segs' = segs
  OBVIOUS
<1>10. Keeping => Careful
  BY KeepingIsCareful DEF Held3
<1>12. Careful => /\ misused' = FALSE
                  /\ Good(owner', segs', Live) /\ InHand(r, conf) \subseteq Live[c]
                  /\ \A p \in Holders : p # c => Live[p] = Live[p]
                  /\ NoneTwice(r, segs') /\ Room(r, fifo)
                  /\ \A x \in Mbufs : owner[x] # c /\ segs[x] = {} /\ owner[x] # "pool" => segs'[x] = {}
  BY <1>2, <1>6, <1>7
<1>13. Keeping /\ Full(owner, segs, Live) => Full(owner', segs', Live) /\ Live[c] = InHand(r, conf)
  BY <1>2, <1>7
<1> QED
  BY <1>2, <1>5, <1>12, <1>13, OwnGoes

-----------------------------------------------------------------------------
(* The steps of the engines, one by one. *)

\* What is known of a core before it takes a step.
LEMMA CoreKnows ==
    ASSUME Held3, NEW c \in Cores, NEW u, u = cpu[c]
    PROVE  /\ u \in CpuType /\ Fits(u, c, conf) /\ u.pc \in Pcs /\ u.s \in Streams \cup {0}
           /\ u.pkts \in Seq(Mbufs) /\ u.tmp \in Seq(Mbufs) /\ Len(u.pkts) \in Nat /\ Len(u.tmp) \in Nat
           /\ u.nb \in Nat /\ u.tx \in Nat /\ u.lim \in Nat /\ u.tries \in Nat /\ u.t \in Nat
           /\ Careful => NoneTwice(u, segs) /\ Room(u, fifo) /\ Good(owner, segs, Live) /\ misused = FALSE
           /\ InHand(u, conf) \in SUBSET Mbufs
           /\ Careful => \A m \in InHand(u, conf) : m \in Mbufs /\ owner[m] = c
<1>1. u \in CpuType /\ Fits(u, c, conf)
  BY DEF Held3, CpuInv
<1>2. /\ u.pc \in Pcs /\ u.s \in Streams \cup {0}
      /\ u.pkts \in Seq(Mbufs) /\ u.tmp \in Seq(Mbufs)
      /\ u.nb \in Nat /\ u.tx \in Nat /\ u.lim \in Nat /\ u.tries \in Nat /\ u.t \in Nat
  BY <1>1 DEF CpuType
<1>3. Len(u.pkts) \in Nat /\ Len(u.tmp) \in Nat
  BY <1>2
<1>4. Careful => NoneTwice(u, segs) /\ Room(u, fifo) /\ Good(owner, segs, Live) /\ misused = FALSE
  BY DEF Held3, OwnInv
<1>5. InHand(u, conf) \in SUBSET Mbufs
  BY <1>1, InHandType
<1>6. Live[c] = InHand(u, conf) /\ c \in Holders
  BY LiveIs DEF Held3, Holders
<1>7. Careful => \A m \in InHand(u, conf) : m \in Mbufs /\ owner[m] = c
  BY <1>4, <1>6 DEF Good
<1> QED
  BY <1>1, <1>2, <1>3, <1>4, <1>5, <1>7

RoomPcs == {"store", "make room", "refill", "oldest", "retry oldest"}

LEMMA RoomElsewhere ==
    ASSUME NEW r, conf.mode # "noisy" \/ r.pc \notin RoomPcs, NEW f
    PROVE  Room(r, f)
BY DEF Room, RoomPcs

PairPcs == {"refill", "gso", "alloc", "prepare"}

LEMMA NothingTwice ==
    ASSUME NEW r, Apart(r.pkts), Apart(r.tmp), r.pc \notin PairPcs, NEW g
    PROVE  NoneTwice(r, g)
BY DEF NoneTwice, PairPcs

LEMMA EmptyIsApart == Apart(<< >>) /\ Elements(<< >>) = {}
BY DEF Apart, Elements

\* What is received is taken from the pool.
Starts == {"discard", "filter", "ptp", "copy", "send", "first", "room"}

LEMMA ReceiveKeeps ==
    ASSUME Held3, NEW c \in Cores, NEW s \in Streams, Turn(c, s), NEW n \in Nat, NEW pc \in Starts,
           Serves(pc, conf), conf.mode \in {"noisy", "flowgen"} => n <= NbPktPerBurst,
           Receive(c, s, n, pc), UNCHANGED <<conf, gro, fifo>>
    PROVE  Held3'
<1>0. n <= Cardinality(Pool) /\ CpuInv /\ conf' = conf /\ pc \in Pcs
  BY DEF Receive, Held3, Starts, Pcs, FirstPcs, FifoPcs
<1>1. PICK r : Goes(c, r) /\ Got(r, pc, s, n)
  BY <1>0, ReceiveIs
<1>2. r \in CpuType
  BY <1>1 DEF Goes
<1>3. Fits(r, c, conf)
  BY <1>0, <1>1, <1>2, GotFits DEF Starts
<1> DEFINE q == FromPool(n)
           S == Elements(q)
<1>4. q \in Seq(Mbufs) /\ Len(q) = n /\ Apart(q) /\ S \subseteq Pool
  BY <1>0, PoolGives
<1>5. owner' = [m \in Mbufs |-> IF m \in S THEN c ELSE owner[m]] /\ UNCHANGED <<segs, misused>>
  BY DEF Receive
<1> HIDE DEF q
<1>6. r.pc = pc /\ r.pkts = q /\ r.nb = n /\ r.tx = 0 /\ r.tmp = << >>
  BY <1>1 DEF Got, q
<1>7. InHand(r, conf) = S
  <2>1. S = Part(q, 0, Len(q))
    <3>1. Len(q) \in Nat /\ Len(q) <= Len(q) /\ 0 \in Nat
      BY <1>4
    <3> QED
      BY <1>4, <3>1, PartIs
  <2> QED
    BY <1>6, <2>1 DEF InHand, HoldsAll, Starts
<1>8. InHand(cpu[c], conf) = {}
  BY DEF Turn, InHand, HoldsAll
<1>9. NoneTwice(r, segs) /\ Room(r, fifo)
  <2>1. Apart(<< >>)
    BY DEF Apart
  <2>2. r.pc \notin {"refill", "gso", "alloc", "prepare"} /\ r.pc \notin RoomPcs
    BY <1>6 DEF Starts, RoomPcs
  <2>3. Apart(r.pkts) /\ Apart(r.tmp)
    BY <1>4, <1>6, <2>1
  <2> QED
    BY <2>2, <2>3, RoomElsewhere DEF NoneTwice
<1>10. Careful => /\ InHand(r, conf) = InHand(cpu[c], conf) \cup S
                  /\ NoneTwice(r, segs) /\ Room(r, fifo)
  BY <1>7, <1>8, <1>9
<1> HIDE DEF S
<1> QED
  BY <1>1, <1>3, <1>4, <1>5, <1>10, TakeGoes

LEMMA ForwardKeeps ==
    ASSUME Held3, NEW c \in Cores, NEW s \in Streams, UNCHANGED <<gro, fifo>>,
           IoForward(c, s) \/ RxOnly(c, s) \/ FlowGen(c, s) \/ IcmpEcho(c, s) \/ Ieee1588(c, s) \/ CsumReceive(c, s)
           \/ NoisyReceive(c, s)
    PROVE  Held3'
<1>1. PICK n \in Nat, pc \in Starts :
         /\ Turn(c, s) /\ Receive(c, s, n, pc) /\ conf' = conf /\ Serves(pc, conf)
         /\ conf.mode \in {"noisy", "flowgen"} => n <= NbPktPerBurst
  <2> DEFINE P(n, pc) == /\ Turn(c, s) /\ Receive(c, s, n, pc) /\ conf' = conf /\ Serves(pc, conf)
                         /\ conf.mode \in {"noisy", "flowgen"} => n <= NbPktPerBurst
  <2>0. NbPktPerBurst \in Nat \ {0}
    BY BurstAssumption
  <2>1. CASE IoForward(c, s)
    <3>1. PICK n \in Bursts : Receive(c, s, n, "send")
      BY <2>1 DEF IoForward
    <3>2. P(n, "send") /\ n \in Nat
      BY <2>0, <2>1, <3>1 DEF IoForward, Serves, Bursts, FirstPcs, FifoPcs
    <3> QED
      BY <3>2 DEF Starts
  <2>2. CASE RxOnly(c, s)
    <3>1. PICK n \in Bursts : Receive(c, s, n, "discard")
      BY <2>2 DEF RxOnly
    <3>2. P(n, "discard") /\ n \in Nat
      BY <2>0, <2>2, <3>1 DEF RxOnly, Serves, Bursts, FirstPcs, FifoPcs
    <3> QED
      BY <3>2 DEF Starts
  <2>3. CASE FlowGen(c, s)
    <3>1. PICK n \in {0} \cup Bursts : Receive(c, s, n, "discard")
      BY <2>3 DEF FlowGen
    <3>2. P(n, "discard") /\ n \in Nat
      BY <2>0, <2>3, <3>1 DEF FlowGen, Serves, Bursts, FirstPcs, FifoPcs
    <3> QED
      BY <3>2 DEF Starts
  <2>4. CASE IcmpEcho(c, s)
    <3>1. PICK n \in Bursts : Receive(c, s, n, "filter")
      BY <2>4 DEF IcmpEcho
    <3>2. P(n, "filter") /\ n \in Nat
      BY <2>0, <2>4, <3>1 DEF IcmpEcho, Serves, Bursts, FirstPcs, FifoPcs
    <3> QED
      BY <3>2 DEF Starts
  <2>5. CASE Ieee1588(c, s)
    <3>2. P(1, "ptp")
      BY <2>5 DEF Ieee1588, Serves, FirstPcs, FifoPcs
    <3> QED
      BY <3>2 DEF Starts
  <2>6. CASE CsumReceive(c, s)
    <3>1. PICK n \in Bursts : Receive(c, s, n, "copy")
      BY <2>6 DEF CsumReceive, Bursts
    <3>2. P(n, "copy") /\ n \in Nat
      BY <2>0, <2>6, <3>1 DEF CsumReceive, Serves, Bursts, FirstPcs, FifoPcs
    <3> QED
      BY <3>2 DEF Starts
  <2>7. CASE NoisyReceive(c, s)
    <3>1. PICK n \in Bursts : Receive(c, s, n, IF Buffering THEN "room" ELSE "first")
      BY <2>7 DEF NoisyReceive, Bursts
    <3>0. conf.bufsz \in Nat
      BY ModeIs DEF Held3
    <3>2. CASE Buffering
      <4>1. P(n, "room") /\ n \in Nat
        BY <2>0, <2>7, <3>1, <3>2 DEF NoisyReceive, Serves, Bursts, FirstPcs, FifoPcs, Buffering
      <4> QED
        BY <4>1 DEF Starts
    <3>3. CASE ~Buffering
      <4>1. P(n, "first") /\ n \in Nat
        BY <2>0, <2>7, <3>0, <3>1, <3>3 DEF NoisyReceive, Serves, Bursts, FirstPcs, FifoPcs, Buffering
      <4> QED
        BY <4>1 DEF Starts
    <3> QED
      BY <3>2, <3>3
  <2> QED
    BY <2>1, <2>2, <2>3, <2>4, <2>5, <2>6, <2>7
<1>2. UNCHANGED <<conf, gro, fifo>>
  BY <1>1
<1> QED
  BY <1>1, <1>2, ReceiveKeeps

LEMMA SendKeeps ==
    ASSUME Held3, NEW c \in Cores, Send(c), UNCHANGED <<gro, fifo>>
    PROVE  Held3'
<1> DEFINE u == cpu[c]
<1>1. u = cpu[c]
  OBVIOUS
<1>2. PICK k \in 0 .. (u.lim - u.tx) :
         LET far == u.tx + k
             again == far < u.nb /\ conf.retry /\ u.tries < BurstTxRetryNum
         IN  /\ Give(c, Elements(SubSeq(u.pkts, u.tx + 1, far)), "nic")
             /\ cpu' = [cpu EXCEPT ![c] = IF again THEN [u EXCEPT !.tx = far, !.lim = u.nb, !.tries = u.tries + 1]
                                                   ELSE [u EXCEPT !.tx = far, !.pc = "finish"]]
  BY DEF Send
<1>3. u.pc = "send" /\ conf' = conf
  BY DEF Send
<1> HIDE DEF u
<1>4. /\ u \in CpuType /\ Fits(u, c, conf) /\ u.pkts \in Seq(Mbufs) /\ Len(u.pkts) \in Nat
      /\ u.nb \in Nat /\ u.tx \in Nat /\ u.lim \in Nat /\ u.tries \in Nat
      /\ Careful => NoneTwice(u, segs)
  BY <1>1, CoreKnows
<1>5. /\ Len(u.pkts) = u.nb /\ u.tx <= u.lim /\ u.lim <= u.nb /\ u.s \in Streams /\ conf.lcore[u.s] = c
      /\ Serves("send", conf) /\ (conf.mode \in {"noisy", "flowgen"} => u.nb <= NbPktPerBurst)
  BY <1>3, <1>4 DEF Fits
<1> DEFINE far == u.tx + k
           again == far < u.nb /\ conf.retry /\ u.tries < BurstTxRetryNum
           r == IF again THEN [u EXCEPT !.tx = far, !.lim = u.nb, !.tries = u.tries + 1]
                         ELSE [u EXCEPT !.tx = far, !.pc = "finish"]
           S == Elements(SubSeq(u.pkts, u.tx + 1, far))
<1>6. Give(c, S, "nic") /\ cpu' = [cpu EXCEPT ![c] = r]
  BY <1>2
<1>7. far \in Nat /\ u.tx <= far /\ far <= u.lim /\ far <= u.nb
  BY <1>4, <1>5
<1>8. r \in CpuType /\ r.pc = (IF again THEN "send" ELSE "finish") /\ r.s = u.s /\ r.pkts = u.pkts /\ r.nb = u.nb
      /\ r.tx = far /\ r.lim = (IF again THEN u.nb ELSE u.lim) /\ r.tmp = u.tmp
  <2> DEFINE n1 == u.tries + 1
             a == [u EXCEPT !.tx = far, !.lim = u.nb, !.tries = n1]
             b == [u EXCEPT !.tx = far, !.pc = "finish"]
  <2>0. n1 \in Nat
    BY <1>4
  <2>4. r = IF again THEN a ELSE b
    OBVIOUS
  <2> HIDE DEF n1, far, again, r
  <2>1. /\ a \in CpuType /\ a.pc = "send" /\ a.s = u.s /\ a.pkts = u.pkts /\ a.nb = u.nb
        /\ a.tx = far /\ a.lim = u.nb /\ a.tmp = u.tmp
    BY <1>3, <1>4, <1>7, <2>0 DEF CpuType
  <2>2. /\ b \in CpuType /\ b.pc = "finish" /\ b.s = u.s /\ b.pkts = u.pkts /\ b.nb = u.nb
        /\ b.tx = far /\ b.lim = u.lim /\ b.tmp = u.tmp
    BY <1>3, <1>4, <1>7 DEF CpuType, Pcs
  <2> HIDE DEF a, b
  <2> QED
    BY <2>1, <2>2, <2>4
<1> HIDE DEF far, again, r
<1>9. S = Part(u.pkts, u.tx, far)
  BY <1>4, <1>5, <1>7, PartIs
<1>10. Goes(c, r)
  BY <1>3, <1>6, <1>8 DEF Goes
<1>11. Fits(r, c, conf)
  <2>1. Serves(r.pc, conf)
    BY <1>5, <1>8 DEF Serves, FirstPcs, FifoPcs
  <2>2. r.pc \in {"send", "finish"}
    BY <1>8
  <2>3. r.nb <= r.nb /\ (r.pc = "send" => r.lim = r.nb)
    BY <1>4, <1>8
  <2>4. \A o : Serves(r.pc, o) /\ o.lcore[r.s] = c /\ (o.mode \in {"noisy", "flowgen"} => r.nb <= NbPktPerBurst)
                  => Fits(r, c, o)
    BY <1>5, <1>7, <1>8, <2>2, <2>3 DEF Fits
  <2> QED
    BY <1>5, <1>8, <2>1, <2>4
<1>12. InHand(u, conf) = Part(u.pkts, u.tx, Len(u.pkts)) /\ InHand(r, conf) = Part(u.pkts, far, Len(u.pkts))
  BY <1>3, <1>8 DEF InHand, HoldsAll
<1>13. Careful => /\ S \subseteq InHand(cpu[c], conf)
                  /\ InHand(r, conf) = InHand(cpu[c], conf) \ S
                  /\ NoneTwice(r, segs) /\ Room(r, fifo)
  <2> SUFFICES ASSUME Careful
               PROVE  /\ S \subseteq InHand(u, conf)
                      /\ InHand(r, conf) = InHand(u, conf) \ S
                      /\ NoneTwice(r, segs) /\ Room(r, fifo)
    BY <1>1
  <2>1. Apart(u.pkts) /\ Apart(u.tmp)
    BY <1>4 DEF NoneTwice
  <2>2. S \subseteq InHand(u, conf) /\ InHand(r, conf) = InHand(u, conf) \ S
    BY <1>4, <1>5, <1>7, <1>9, <1>12, <2>1, PartsDiffer
  <2>3. NoneTwice(r, segs)
    BY <1>8, <2>1 DEF NoneTwice
  <2>4. Room(r, fifo)
    BY <1>8, RoomElsewhere DEF RoomPcs
  <2> QED
    BY <2>2, <2>3, <2>4
<1>14. Keeping => InHand(r, conf) = InHand(cpu[c], conf) \ S
  BY <1>13, KeepingIsCareful DEF Held3
<1> HIDE DEF S
<1>15. Careful => /\ S \subseteq InHand(cpu[c], conf)
                  /\ InHand(r, conf) \subseteq InHand(cpu[c], conf) \ S
                  /\ NoneTwice(r, segs) /\ Room(r, fifo)
  BY <1>13
<1>16. "nic" \in Away
  BY DEF Away
<1> QED
  BY <1>6, <1>10, <1>11, <1>14, <1>15, <1>16, GiveGoes

\* A core leaves the engine when it has given away all it held.
LEMMA EndsKeeps ==
    ASSUME Held3, NEW c \in Cores, UNCHANGED <<conf, gro, fifo>>, cpu' = [cpu EXCEPT ![c] = IdleCpu],
           NEW S, NEW to \in Away, Give(c, S, to), S = InHand(cpu[c], conf)
    PROVE  Held3'
<1> DEFINE r == IdleCpu
<1>1. Goes(c, r) /\ Fits(r, c, conf)
  BY IdleIs, IdleFits DEF Goes, Held3
<1>2. r.pc = "idle" /\ r.pkts = << >> /\ r.tmp = << >>
  BY IdleIs
<1> HIDE DEF r
<1>3. InHand(r, conf) = {}
  BY <1>2 DEF InHand, HoldsAll
<1>4. NoneTwice(r, segs) /\ Room(r, fifo)
  BY <1>2, RoomElsewhere, EmptyIsApart, NothingTwice DEF PairPcs, RoomPcs
<1>5. Careful => /\ S \subseteq InHand(cpu[c], conf)
                 /\ InHand(r, conf) \subseteq InHand(cpu[c], conf) \ S
                 /\ NoneTwice(r, segs) /\ Room(r, fifo)
  BY <1>3, <1>4
<1>6. Keeping => InHand(r, conf) = InHand(cpu[c], conf) \ S
  BY <1>3
<1> QED
  BY <1>1, <1>5, <1>6, GiveGoes

LEMMA LeavesKeeps ==
    ASSUME Held3, NEW c \in Cores, UNCHANGED <<conf, gro, fifo, owner, segs, misused>>,
           cpu' = [cpu EXCEPT ![c] = IdleCpu], InHand(cpu[c], conf) = {}
    PROVE  Held3'
<1> DEFINE r == IdleCpu
<1>1. Goes(c, r) /\ Fits(r, c, conf)
  BY IdleIs, IdleFits DEF Goes, Held3
<1>2. r.pc = "idle" /\ r.pkts = << >> /\ r.tmp = << >>
  BY IdleIs
<1> HIDE DEF r
<1>3. InHand(r, conf) = {}
  BY <1>2 DEF InHand, HoldsAll
<1>4. NoneTwice(r, segs) /\ Room(r, fifo)
  BY <1>2, RoomElsewhere, EmptyIsApart, NothingTwice DEF PairPcs, RoomPcs
<1>5. Careful => InHand(r, conf) \subseteq InHand(cpu[c], conf) /\ NoneTwice(r, segs) /\ Room(r, fifo)
  BY <1>3, <1>4
<1>6. Keeping => InHand(r, conf) = InHand(cpu[c], conf)
  BY <1>3
<1> QED
  BY <1>1, <1>5, <1>6, StayGoes

LEMMA FinishKeeps ==
    ASSUME Held3, NEW c \in Cores, Finish(c), UNCHANGED <<gro, fifo>>
    PROVE  Held3'
<1> DEFINE S == Elements(Rest(cpu[c].pkts, cpu[c].tx))
<1>1. cpu[c].pc = "finish" /\ Give(c, S, "pool") /\ cpu' = [cpu EXCEPT ![c] = IdleCpu] /\ UNCHANGED <<conf, gro, fifo>>
  BY DEF Finish
<1>2. cpu[c].pkts \in Seq(Mbufs) /\ cpu[c].tx \in Nat
  BY CoreKnows
<1>3. S = InHand(cpu[c], conf)
  BY <1>1, <1>2, RestIs DEF InHand, HoldsAll
<1>4. "pool" \in Away
  BY DEF Away
<1> HIDE DEF S
<1> QED
  BY <1>1, <1>3, <1>4, EndsKeeps

\* The port gives mbufs back: no holder notices.
LEMMA TxDoneKeeps ==
    ASSUME Held3, TxDone, UNCHANGED <<gro, fifo>>
    PROVE  Held3'
<1>1. /\ owner' = [m \in Mbufs |-> IF owner[m] = "nic" THEN "pool" ELSE owner[m]]
      /\ UNCHANGED <<conf, segs, cpu, misused, gro, fifo>>
  BY DEF TxDone
<1>2. CpuInv' /\ Live' = Live /\ (Careful' <=> Careful) /\ (Keeping' <=> Keeping)
  BY <1>1 DEF Held3, CpuInv, Live, Careful, Keeping, AmpleFifo, OneCore
<1>3. owner \in [Mbufs -> Places] /\ segs \in [Mbufs -> SUBSET Mbufs]
  BY DEF Held3, HoldTypes
<1>4. HoldTypes'
  BY <1>1, <1>3 DEF Held3, HoldTypes, Places
<1>5. \A m \in Mbufs : owner'[m] = IF owner[m] = "nic" THEN "pool" ELSE owner[m]
  BY <1>1
<1>6. ASSUME Good(owner, segs, Live) PROVE Good(owner', segs, Live)
  <2>1. \A p \in Holders : \A m \in Live[p] : m \in Mbufs /\ owner'[m] = p
    BY <1>5, <1>6, PlacesDiffer DEF Good
  <2>2. \A m \in Mbufs : \A x \in segs[m] : owner'[x] = owner'[m] /\ segs[x] = {}
    BY <1>3, <1>5, <1>6 DEF Good
  <2>3. \A m \in Mbufs : owner'[m] \in {"pool", "nic"} => segs[m] = {}
    BY <1>5, <1>6 DEF Good
  <2> QED
    BY <1>6, <2>1, <2>2, <2>3 DEF Good
<1>7. ASSUME Full(owner, segs, Live) PROVE Full(owner', segs, Live)
  <2>1. \A p \in Holders : \A m \in Mbufs : owner'[m] = p => owner[m] = p
    BY <1>5, PlacesDiffer
  <2> QED
    BY <1>7, <2>1 DEF Full
<1>8. OwnInv'
  <2> SUFFICES ASSUME Careful
               PROVE  /\ misused' = FALSE /\ Good(owner', segs', Live')
                      /\ \A c \in Cores : NoneTwice(cpu'[c], segs') /\ Room(cpu[c], fifo)'
                      /\ Apart(fifo')
                      /\ \A c, d \in Cores : c # d => gro'[c] \cap gro'[d] = {}
    BY <1>2 DEF OwnInv
  <2>1. \A c \in Cores : Room(cpu[c], fifo)' <=> Room(cpu[c], fifo)
    BY <1>1 DEF Room, AmpleFifo, OneCore
  <2>2. /\ misused = FALSE /\ Good(owner, segs, Live)
        /\ \A c \in Cores : NoneTwice(cpu[c], segs) /\ Room(cpu[c], fifo)
        /\ Apart(fifo)
        /\ \A c, d \in Cores : c # d => gro[c] \cap gro[d] = {}
    BY DEF Held3, OwnInv
  <2> QED
    BY <1>1, <1>2, <1>6, <2>1, <2>2
<1>9. FullInv'
  BY <1>1, <1>2, <1>7 DEF Held3, FullInv
<1> QED
  BY <1>2, <1>4, <1>8, <1>9 DEF Held3

-----------------------------------------------------------------------------
(* rxonly, flowgen, icmpecho and ieee1588. *)

LEMMA DiscardKeeps ==
    ASSUME Held3, NEW c \in Cores, Discard(c), UNCHANGED <<gro, fifo>>
    PROVE  Held3'
<1> DEFINE u == cpu[c]
           g == [IdleCpu EXCEPT !.pc = "generate", !.s = u.s]
           S == Elements(u.pkts)
<1>1. u.pc = "discard" /\ Give(c, S, "pool") /\ conf' = conf /\ "pool" \in Away
  BY DEF Discard, Away
<1>2. S = InHand(u, conf)
  BY <1>1 DEF InHand, HoldsAll
<1>3. CASE conf.mode = "rxonly"
  <2>1. cpu' = [cpu EXCEPT ![c] = IdleCpu] /\ UNCHANGED <<conf, gro, fifo>>
    BY <1>1, <1>3 DEF Discard
  <2> HIDE DEF S
  <2> QED
    BY <1>1, <1>2, <2>1, EndsKeeps
<1>4. CASE conf.mode # "rxonly"
  <2>1. cpu' = [cpu EXCEPT ![c] = g]
    BY <1>4 DEF Discard
  <2>2. Fits(u, c, conf) /\ u.s \in Streams \cup {0}
    BY CoreKnows
  <2> HIDE DEF u
  <2>3. conf.mode = "flowgen" /\ u.s \in Streams /\ conf.lcore[u.s] = c
    BY <1>1, <1>4, <2>2 DEF Fits, Serves
  <2>4. /\ g \in CpuType /\ g.pc = "generate" /\ g.s = u.s /\ g.pkts = << >> /\ g.nb = 0 /\ g.tx = 0
        /\ g.tmp = << >>
    BY <2>2, IdleIs DEF CpuType, Pcs
  <2> HIDE DEF g, S
  <2>5. Goes(c, g)
    BY <1>1, <2>1, <2>4 DEF Goes
  <2>6. Fits(g, c, conf)
    <3>1. \A o : o.mode = "flowgen" /\ o.lcore[g.s] = c => Fits(g, c, o)
      <4>1. Len(<< >>) = 0 /\ 0 <= NbPktPerBurst
        BY BurstAssumption
      <4> QED
        BY <2>3, <2>4, <4>1 DEF Fits, Serves, FirstPcs, FifoPcs
    <3> QED
      BY <2>3, <2>4, <3>1
  <2>7. InHand(g, conf) = {}
    BY <2>4 DEF InHand, HoldsAll, Elements
  <2>8. NoneTwice(g, segs) /\ Room(g, fifo)
    BY <2>4, RoomElsewhere, EmptyIsApart, NothingTwice DEF PairPcs, RoomPcs
  <2>9. Careful => /\ S \subseteq InHand(cpu[c], conf)
                   /\ InHand(g, conf) \subseteq InHand(cpu[c], conf) \ S
                   /\ NoneTwice(g, segs) /\ Room(g, fifo)
    BY <1>2, <2>7, <2>8 DEF u
  <2>10. Keeping => InHand(g, conf) = InHand(cpu[c], conf) \ S
    BY <1>2, <2>7 DEF u
  <2> QED
    BY <1>1, <2>5, <2>6, <2>9, <2>10, GiveGoes
<1> QED
  BY <1>3, <1>4

LEMMA PtpKeeps ==
    ASSUME Held3, NEW c \in Cores, NotPtpSync(c) \/ PtpSync(c), UNCHANGED <<gro, fifo>>
    PROVE  Held3'
<1> DEFINE S == Elements(cpu[c].pkts)
<1>1. PICK to \in Away : Give(c, S, to)
  <2>1. CASE NotPtpSync(c)
    BY <2>1 DEF NotPtpSync, Away
  <2>2. CASE PtpSync(c)
    <3>1. PICK taken \in BOOLEAN : Give(c, S, IF taken THEN "nic" ELSE "pool")
      BY <2>2 DEF PtpSync
    <3> HIDE DEF S
    <3>2. CASE taken
      BY <3>1, <3>2 DEF Away
    <3>3. CASE ~taken
      BY <3>1, <3>3 DEF Away
    <3> QED
      BY <3>2, <3>3
  <2> QED
    BY <2>1, <2>2
<1>2. cpu[c].pc = "ptp" /\ cpu' = [cpu EXCEPT ![c] = IdleCpu] /\ UNCHANGED <<conf, gro, fifo>>
  BY DEF NotPtpSync, PtpSync
<1>3. S = InHand(cpu[c], conf)
  BY <1>2 DEF InHand, HoldsAll
<1> HIDE DEF S
<1> QED
  BY <1>1, <1>2, <1>3, EndsKeeps

LEMMA FilterKeeps ==
    ASSUME Held3, NEW c \in Cores, Filter(c), UNCHANGED <<gro, fifo>>
    PROVE  Held3'
<1> DEFINE u == cpu[c]
<1>1. /\ u \in CpuType /\ Fits(u, c, conf) /\ u.pkts \in Seq(Mbufs) /\ Len(u.pkts) \in Nat
      /\ u.nb \in Nat /\ u.tx \in Nat /\ u.lim \in Nat
      /\ Careful => NoneTwice(u, segs)
  BY CoreKnows
<1>2. PICK requests \in SUBSET Elements(u.pkts) :
         /\ Give(c, Elements(u.pkts) \ requests, "pool")
         /\ cpu' = [cpu EXCEPT ![c] = LET replies == Kept(u.pkts, requests)
                                      IN  IF replies = <<>> THEN IdleCpu
                                          ELSE [u EXCEPT !.pc = "send", !.pkts = replies, !.nb = Len(replies),
                                                         !.lim = Len(replies)]]
  BY DEF Filter
<1>3. u.pc = "filter" /\ conf.mode = "icmpecho" /\ conf' = conf /\ "pool" \in Away
  BY DEF Filter, Away
<1> DEFINE q == Kept(u.pkts, requests)
           n == Len(q)
           S == Elements(u.pkts) \ requests
           r == [u EXCEPT !.pc = "send", !.pkts = q, !.nb = n, !.lim = n]
<1>4. Give(c, S, "pool") /\ cpu' = [cpu EXCEPT ![c] = IF q = << >> THEN IdleCpu ELSE r]
  BY <1>2
<1>5. InHand(u, conf) = Elements(u.pkts)
  BY <1>3 DEF InHand, HoldsAll
<1> HIDE DEF u
<1>6. q \in Seq(Mbufs) /\ Elements(q) = requests /\ (Apart(u.pkts) => Apart(q))
  <2>1. q \in Seq(Mbufs) /\ Elements(q) = Elements(u.pkts) \cap requests /\ (Apart(u.pkts) => Apart(q))
    BY <1>1, KeptIs
  <2> HIDE DEF q
  <2> QED
    BY <1>2, <2>1
<1>7. n \in Nat
  BY <1>6
<1> HIDE DEF q, S
<1>8. CASE q = << >>
  <2>1. S = InHand(cpu[c], conf)
    BY <1>5, <1>6, <1>8 DEF Elements, S, u
  <2>2. cpu' = [cpu EXCEPT ![c] = IdleCpu] /\ UNCHANGED <<conf, gro, fifo>>
    BY <1>3, <1>4, <1>8
  <2> QED
    BY <1>3, <1>4, <2>1, <2>2, EndsKeeps
<1>9. CASE q # << >>
  <2> HIDE DEF n
  <2>1. r \in CpuType /\ r.pc = "send" /\ r.s = u.s /\ r.pkts = q /\ r.nb = n /\ r.lim = n /\ r.tx = u.tx /\ r.tmp = u.tmp
    BY <1>1, <1>6, <1>7 DEF CpuType, Pcs
  <2>2. u.tx = 0 /\ u.s \in Streams /\ conf.lcore[u.s] = c
    BY <1>1, <1>3 DEF Fits
  <2>3. cpu' = [cpu EXCEPT ![c] = r]
    BY <1>4, <1>9
  <2> HIDE DEF r
  <2>4. Goes(c, r)
    BY <1>3, <2>1, <2>3 DEF Goes
  <2>5. Fits(r, c, conf)
    <3>1. \A o : o.mode = "icmpecho" /\ o.lcore[r.s] = c => Fits(r, c, o)
      BY <1>7, <2>1, <2>2 DEF Fits, Serves, FirstPcs, FifoPcs, n
    <3> QED
      BY <1>3, <2>1, <2>2, <3>1
  <2>6. InHand(r, conf) = requests
    <3>1. InHand(r, conf) = Part(q, 0, Len(q))
      BY <2>1, <2>2 DEF InHand, HoldsAll
    <3>2. Len(q) \in Nat /\ Len(q) <= Len(q) /\ 0 \in Nat
      BY <1>6
    <3> QED
      BY <1>6, <3>1, <3>2, PartIs
  <2>7. S \subseteq InHand(u, conf) /\ InHand(r, conf) = InHand(u, conf) \ S
    BY <1>5, <2>6 DEF S
  <2>8. Careful => NoneTwice(r, segs) /\ Room(r, fifo)
    <3>1. Careful => Apart(r.pkts) /\ Apart(r.tmp)
      BY <1>1, <1>6, <2>1 DEF NoneTwice
    <3> QED
      BY <2>1, <3>1, RoomElsewhere DEF NoneTwice, RoomPcs
  <2>9. Careful => /\ S \subseteq InHand(cpu[c], conf)
                   /\ InHand(r, conf) \subseteq InHand(cpu[c], conf) \ S
                   /\ NoneTwice(r, segs) /\ Room(r, fifo)
    BY <2>7, <2>8 DEF u
  <2>10. Keeping => InHand(r, conf) = InHand(cpu[c], conf) \ S
    BY <2>7 DEF u
  <2> QED
    BY <1>3, <1>4, <2>4, <2>5, <2>9, <2>10, GiveGoes
<1> QED
  BY <1>8, <1>9

-----------------------------------------------------------------------------
(* txonly and flowgen. *)

\* All of a burst is its part from the first packet to the last.
LEMMA AllIsPart ==
    ASSUME NEW q \in Seq(Mbufs)
    PROVE  Elements(q) = Part(q, 0, Len(q)) /\ Elements(q) \in SUBSET Mbufs /\ Part(q, 0, 0) = {}
<1>1. Len(q) \in Nat /\ Len(q) <= Len(q) /\ 0 \in Nat /\ 0 <= 0 /\ 0 <= Len(q)
  OBVIOUS
<1> QED
  BY <1>1, PartIs

LEMMA StopIs ==
    ASSUME Held3, NEW c \in Cores, cpu[c].pc \in {"alloc", "prepare"},
           NEW n \in Nat, n <= Len(cpu[c].pkts), NEW r, r = Stop(c, n)
    PROVE  /\ r \in CpuType /\ Fits(r, c, conf)
           /\ InHand(r, conf) = Part(cpu[c].pkts, 0, n)
           /\ Careful => Room(r, fifo) /\ \A g : NoneTwice(r, g)
<1> DEFINE u == cpu[c]
<1>1. /\ u \in CpuType /\ Fits(u, c, conf) /\ u.pkts \in Seq(Mbufs) /\ Len(u.pkts) \in Nat
      /\ u.nb \in Nat /\ u.tx \in Nat /\ u.lim \in Nat
      /\ Careful => NoneTwice(u, segs)
  BY CoreKnows
<1>2. u.pc \in {"alloc", "prepare"} /\ n <= Len(u.pkts)
  OBVIOUS
<1>3. CASE n = 0
  <2>1. r = IdleCpu
    BY <1>3 DEF Stop
  <2>2. r \in CpuType /\ Fits(r, c, conf) /\ r.pc = "idle" /\ r.pkts = << >> /\ r.tmp = << >>
    BY <2>1, IdleIs, IdleFits DEF Held3
  <2>3. InHand(r, conf) = {}
    BY <2>2 DEF InHand, HoldsAll
  <2>4. Room(r, fifo) /\ \A g : NoneTwice(r, g)
    BY <2>2, RoomElsewhere, EmptyIsApart, NothingTwice DEF PairPcs, RoomPcs
  <2> HIDE DEF u
  <2> QED
    BY <1>1, <1>3, <2>2, <2>3, <2>4, AllIsPart DEF u
<1>4. CASE n # 0
  <2> DEFINE q == SubSeq(u.pkts, 1, n)
  <2>1. r = [u EXCEPT !.pc = "send", !.pkts = q, !.nb = n, !.lim = n]
    BY <1>4 DEF Stop
  <2> HIDE DEF u
  <2>2. q \in Seq(Mbufs) /\ Len(q) = n /\ Elements(q) = Part(u.pkts, 0, n) /\ (Apart(u.pkts) => Apart(q))
    BY <1>1, <1>2, FirstIsApart
  <2> HIDE DEF q
  <2>3. r \in CpuType /\ r.pc = "send" /\ r.s = u.s /\ r.pkts = q /\ r.nb = n /\ r.lim = n /\ r.tx = u.tx /\ r.tmp = u.tmp
    BY <1>1, <2>1, <2>2 DEF CpuType, Pcs
  <2>4. u.tx = 0 /\ u.s \in Streams /\ conf.lcore[u.s] = c /\ conf.mode = "txonly"
    BY <1>1, <1>2 DEF Fits, Serves
  <2>5. Fits(r, c, conf)
    <3>1. \A o : o.mode = "txonly" /\ o.lcore[r.s] = c => Fits(r, c, o)
      BY <2>2, <2>3, <2>4 DEF Fits, Serves, FirstPcs, FifoPcs
    <3> QED
      BY <2>3, <2>4, <3>1
  <2>6. InHand(r, conf) = Part(u.pkts, 0, n)
    BY <2>2, <2>3, <2>4, AllIsPart DEF InHand, HoldsAll
  <2>7. Careful => Apart(r.pkts) /\ Apart(r.tmp)
    BY <1>1, <2>2, <2>3 DEF NoneTwice
  <2>8. Careful => Room(r, fifo) /\ \A g : NoneTwice(r, g)
    BY <2>3, <2>7, RoomElsewhere, NothingTwice DEF PairPcs, RoomPcs
  <2> QED
    BY <2>3, <2>5, <2>6, <2>8 DEF u
<1> QED
  BY <1>3, <1>4

\* One mbuf of the pool more at the end of the burst.
LEMMA OneMore ==
    ASSUME Held3, NEW c \in Cores, Pool # {}, InHand(cpu[c], conf) = Elements(cpu[c].pkts),
           NEW x, x = FromPool(1)[1], NEW p, Joined(p, cpu[c].pkts, FromPool(1))
    PROVE  /\ x \in Pool /\ p \in Seq(Mbufs) /\ Len(p) = Len(cpu[c].pkts) + 1
           /\ Elements(p) = Elements(cpu[c].pkts) \cup {x}
           /\ p[Len(cpu[c].pkts) + 1] = x
           /\ Careful => Apart(p)
<1> DEFINE q == cpu[c].pkts
           f == FromPool(1)
<1>1. q \in Seq(Mbufs) /\ Len(q) \in Nat
  BY CoreKnows
<1>2. Careful => Apart(q) /\ \A m \in Elements(q) : owner[m] = c
  <2> DEFINE u == cpu[c]
  <2>1. Careful => NoneTwice(u, segs) /\ \A m \in InHand(u, conf) : owner[m] = c
    BY CoreKnows
  <2>2. Careful => Apart(u.pkts)
    BY <2>1 DEF NoneTwice
  <2> QED
    BY <2>1, <2>2
<1> HIDE DEF q
<1>3. f \in Seq(Mbufs) /\ Len(f) = 1 /\ Apart(f) /\ Elements(f) \subseteq Pool
  BY PoolHasOne, PoolGives
<1>4. x = f[1] /\ Joined(p, q, f)
  BY DEF q
<1> HIDE DEF f
<1>5. Elements(f) = {x}
  <2>1. DOMAIN f = {1}
    BY <1>3
  <2> QED
    BY <1>4, <2>1 DEF Elements
<1>6. x \in Pool
  BY <1>3, <1>5
<1>7. /\ p \in Seq(Mbufs) /\ Len(p) = Len(q) + 1 /\ Elements(p) = Elements(q) \cup {x}
      /\ Apart(q) /\ Apart(f) /\ Elements(q) \cap {x} = {} => Apart(p)
      /\ p[Len(q) + 1] = x
  <2>0. q \in Seq(Mbufs) /\ f \in Seq(Mbufs) /\ Joined(p, q, f)
    BY <1>1, <1>3, <1>4
  <2>1. p \in Seq(Mbufs) /\ Len(p) = Len(q) + Len(f)
    BY <2>0, JoinedIs
  <2>2. Elements(p) = Elements(q) \cup Elements(f)
    BY <2>0, JoinedIs
  <2>3. \A i \in 1 .. Len(f) : p[Len(q) + i] = f[i]
    BY <2>0, JoinedIs
  <2>5. Apart(q) /\ Apart(f) /\ Elements(q) \cap Elements(f) = {} => Apart(p)
    BY <2>0, JoinedIs
  <2>4. 1 \in 1 .. Len(f)
    BY <1>3
  <2> QED
    BY <1>3, <1>4, <1>5, <2>1, <2>2, <2>3, <2>4, <2>5
<1>9. Careful => x \notin Elements(q)
  BY <1>2, <1>6, PlacesDiffer DEF Pool, Holders
<1> QED
  BY <1>2, <1>3, <1>5, <1>6, <1>7, <1>9 DEF q

LEMMA TxOnlyKeeps ==
    ASSUME Held3, NEW c \in Cores, NEW s \in Streams, TxOnly(c, s), UNCHANGED <<gro, fifo>>
    PROVE  Held3'
<1> DEFINE q == IF Cardinality(Pool) >= NbPktPerBurst THEN FromPool(NbPktPerBurst) ELSE <<>>
           S == Elements(q)
           r == [IdleCpu EXCEPT !.s = s, !.pkts = q, !.pc = IF q = <<>> THEN "alloc" ELSE "prepare"]
<1>1. /\ conf.mode = "txonly" /\ Turn(c, s) /\ UNCHANGED <<conf, gro, fifo, segs, misused>>
      /\ owner' = [m \in Mbufs |-> IF m \in S THEN c ELSE owner[m]]
      /\ cpu' = [cpu EXCEPT ![c] = r]
  BY DEF TxOnly
<1>0. NbPktPerBurst \in Nat \ {0}
  BY BurstAssumption
<1>2. /\ q \in Seq(Mbufs) /\ Apart(q) /\ S \subseteq Pool
      /\ q = << >> \/ Len(q) = NbPktPerBurst
  <2>1. CASE Cardinality(Pool) >= NbPktPerBurst
    <3>1. q = FromPool(NbPktPerBurst) /\ NbPktPerBurst <= Cardinality(Pool)
      BY <1>0, <2>1, PoolHasOne
    <3> HIDE DEF q
    <3> QED
      BY <1>0, <3>1, PoolGives
  <2>2. CASE ~(Cardinality(Pool) >= NbPktPerBurst)
    <3>1. q = << >>
      BY <2>2
    <3> HIDE DEF q
    <3> QED
      BY <3>1, EmptyIsApart
  <2> QED
    BY <2>1, <2>2
<1> HIDE DEF q, S
<1>3. /\ r \in CpuType /\ r.pc = (IF q = << >> THEN "alloc" ELSE "prepare") /\ r.s = s /\ r.pkts = q /\ r.nb = 0
      /\ r.tx = 0 /\ r.tmp = << >>
  BY <1>2, IdleIs DEF CpuType, Pcs
<1> HIDE DEF r
<1>4. Goes(c, r)
  BY <1>1, <1>3 DEF Goes
<1>5. Fits(r, c, conf)
  <2>1. q # << >> => 0 < Len(q) /\ Len(q) <= NbPktPerBurst
    BY <1>0, <1>2
  <2>2. q = << >> => Len(q) = 0
    OBVIOUS
  <2>3. \A o : o.mode = "txonly" /\ o.lcore[r.s] = c => Fits(r, c, o)
    BY <1>0, <1>3, <2>1, <2>2 DEF Fits, Serves, FirstPcs, FifoPcs
  <2> QED
    BY <1>1, <1>3, <2>3 DEF Turn
<1>6. InHand(r, conf) = S /\ InHand(cpu[c], conf) = {}
  BY <1>1, <1>3 DEF InHand, HoldsAll, Turn, S
<1>7. Careful => NoneTwice(r, segs) /\ Room(r, fifo)
  <2>1. Room(r, fifo)
    BY <1>1, RoomElsewhere
  <2>2. Part(q, 0, Len(q)) = S
    BY <1>2, AllIsPart DEF S
  <2>3. Careful => \A x \in S : segs[x] = {}
    BY <1>2, CoreKnows DEF Pool, Good
  <2> QED
    BY <1>2, <1>3, <2>1, <2>2, <2>3, EmptyIsApart DEF NoneTwice
<1>8. Careful => /\ InHand(r, conf) = InHand(cpu[c], conf) \cup S
                 /\ NoneTwice(r, segs) /\ Room(r, fifo)
  BY <1>6, <1>7
<1> QED
  BY <1>1, <1>2, <1>4, <1>5, <1>8, TakeGoes

LEMMA RawAllocKeeps ==
    ASSUME Held3, NEW c \in Cores, RawAlloc(c), UNCHANGED <<gro, fifo>>
    PROVE  Held3'
<1> DEFINE u == cpu[c]
           p == u.pkts \o FromPool(1)
           x == FromPool(1)[1]
           r == [u EXCEPT !.pkts = p, !.pc = "prepare"]
<1>1. /\ u.pc = "alloc" /\ Pool # {} /\ UNCHANGED <<conf, gro, fifo, segs, misused>>
      /\ owner' = [owner EXCEPT ![x] = c]
  BY DEF RawAlloc
<1>2. cpu' = [cpu EXCEPT ![c] = r]
  BY DEF RawAlloc
<1>3. /\ u \in CpuType /\ Fits(u, c, conf) /\ u.pkts \in Seq(Mbufs) /\ Len(u.pkts) \in Nat /\ u.nb \in Nat
      /\ Careful => NoneTwice(u, segs) /\ Good(owner, segs, Live)
  BY CoreKnows
<1>4. InHand(u, conf) = Elements(u.pkts)
  BY <1>1 DEF InHand, HoldsAll
<1>5. /\ x \in Pool /\ p \in Seq(Mbufs) /\ Len(p) = Len(u.pkts) + 1
      /\ Elements(p) = Elements(u.pkts) \cup {x} /\ p[Len(u.pkts) + 1] = x
      /\ Careful => Apart(p)
  <2>1. Joined(p, u.pkts, FromPool(1))
    BY DEF Joined
  <2> HIDE DEF p, x
  <2> QED
    BY <1>1, <1>4, <2>1, OneMore DEF x
<1> HIDE DEF u, p, x
<1>6. /\ r \in CpuType /\ r.pc = "prepare" /\ r.s = u.s /\ r.pkts = p /\ r.nb = u.nb /\ r.tx = u.tx /\ r.tmp = u.tmp
  BY <1>3, <1>5 DEF CpuType, Pcs
<1> HIDE DEF r
<1>7. /\ u.tx = 0 /\ u.s \in Streams /\ conf.lcore[u.s] = c /\ conf.mode = "txonly" /\ Len(u.pkts) = u.nb
      /\ u.nb < NbPktPerBurst
  BY <1>1, <1>3 DEF Fits, Serves
<1>0. NbPktPerBurst \in Nat
  BY BurstAssumption
<1>8. Goes(c, r) /\ Fits(r, c, conf)
  <2>1. u.nb < Len(p) /\ Len(p) <= NbPktPerBurst
    BY <1>0, <1>3, <1>5, <1>7
  <2>2. \A o : o.mode = "txonly" /\ o.lcore[r.s] = c => Fits(r, c, o)
    BY <1>6, <1>7, <2>1 DEF Fits, Serves, FirstPcs, FifoPcs
  <2> QED
    BY <1>1, <1>2, <1>6, <1>7, <2>2 DEF Goes
<1>9. {x} \subseteq Pool /\ owner' = [m \in Mbufs |-> IF m \in {x} THEN c ELSE owner[m]]
  <2>1. owner \in [Mbufs -> Places] /\ x \in Mbufs
    BY <1>5 DEF Held3, HoldTypes, Pool
  <2> QED
    BY <1>1, <1>5, <2>1
<1>10. InHand(r, conf) = InHand(u, conf) \cup {x}
  BY <1>4, <1>5, <1>6 DEF InHand, HoldsAll
<1>11. Careful => NoneTwice(r, segs) /\ Room(r, fifo)
  <2>1. Room(r, fifo)
    BY <1>7, RoomElsewhere
  <2>2. \A y \in Part(p, u.nb, Len(p)) : y = x
    <3>1. (u.nb + 1) .. Len(p) = {Len(u.pkts) + 1}
      BY <1>3, <1>5, <1>7
    <3> QED
      BY <1>5, <3>1 DEF Part
  <2>3. Careful => segs[x] = {}
    BY <1>3, <1>5 DEF Pool, Good
  <2> QED
    BY <1>3, <1>5, <1>6, <2>1, <2>2, <2>3 DEF NoneTwice
<1>12. Careful => /\ InHand(r, conf) = InHand(cpu[c], conf) \cup {x}
                  /\ NoneTwice(r, segs) /\ Room(r, fifo)
  BY <1>10, <1>11 DEF u
<1> QED
  BY <1>1, <1>8, <1>9, <1>12, TakeGoes

LEMMA NoMbufKeeps ==
    ASSUME Held3, NEW c \in Cores, NoMbuf(c), UNCHANGED <<gro, fifo>>
    PROVE  Held3'
<1> DEFINE u == cpu[c]
           r == Stop(c, u.nb)
<1>1. u.pc = "alloc" /\ UNCHANGED <<conf, gro, fifo, owner, segs, misused>> /\ cpu' = [cpu EXCEPT ![c] = r]
  BY DEF NoMbuf
<1>2. Fits(u, c, conf) /\ u.pkts \in Seq(Mbufs) /\ u.nb \in Nat
  BY CoreKnows
<1>3. Len(u.pkts) = u.nb /\ u.nb <= Len(u.pkts)
  BY <1>1, <1>2 DEF Fits
<1>4. /\ r \in CpuType /\ Fits(r, c, conf) /\ InHand(r, conf) = Part(u.pkts, 0, u.nb)
      /\ Careful => Room(r, fifo) /\ \A g : NoneTwice(r, g)
  BY <1>1, <1>2, <1>3, StopIs
<1> HIDE DEF r
<1>5. Goes(c, r)
  BY <1>1, <1>4 DEF Goes
<1>6. InHand(r, conf) = InHand(u, conf)
  BY <1>1, <1>2, <1>3, <1>4, AllIsPart DEF InHand, HoldsAll
<1>7. Careful => InHand(r, conf) \subseteq InHand(cpu[c], conf) /\ NoneTwice(r, segs) /\ Room(r, fifo)
  BY <1>4, <1>6
<1>8. Keeping => InHand(r, conf) = InHand(cpu[c], conf)
  BY <1>6
<1> QED
  BY <1>1, <1>4, <1>5, <1>7, <1>8, StayGoes

LEMMA PrepareFailsKeeps ==
    ASSUME Held3, NEW c \in Cores, PrepareFails(c), UNCHANGED <<gro, fifo>>
    PROVE  Held3'
<1> DEFINE u == cpu[c]
           r == Stop(c, u.nb)
           S == Elements(Rest(u.pkts, u.nb))
<1>1. /\ u.pc = "prepare" /\ UNCHANGED <<conf, gro, fifo>> /\ cpu' = [cpu EXCEPT ![c] = r]
      /\ Give(c, S, "pool") /\ "pool" \in Away
  BY DEF PrepareFails, Away
<1>2. /\ Fits(u, c, conf) /\ u.pkts \in Seq(Mbufs) /\ u.nb \in Nat /\ Len(u.pkts) \in Nat
      /\ Careful => NoneTwice(u, segs)
  BY CoreKnows
<1>3. u.nb < Len(u.pkts) /\ conf.mode = "txonly"
  BY <1>1, <1>2 DEF Fits, Serves
<1>4. /\ r \in CpuType /\ Fits(r, c, conf) /\ InHand(r, conf) = Part(u.pkts, 0, u.nb)
      /\ Careful => Room(r, fifo) /\ \A g : NoneTwice(r, g)
  <2>1. u.nb <= Len(u.pkts)
    BY <1>2, <1>3
  <2> QED
    BY <1>1, <1>2, <2>1, StopIs
<1>5. S = Part(u.pkts, u.nb, Len(u.pkts)) /\ InHand(u, conf) = Part(u.pkts, 0, Len(u.pkts))
  BY <1>1, <1>2, RestIs, AllIsPart DEF InHand, HoldsAll
<1> HIDE DEF r, S
<1>6. Goes(c, r)
  BY <1>1, <1>4 DEF Goes
<1>7. Careful => S \subseteq InHand(u, conf) /\ InHand(r, conf) = InHand(u, conf) \ S
  <2>1. 0 \in Nat /\ 0 <= u.nb /\ u.nb <= Len(u.pkts)
    BY <1>2, <1>3
  <2>2. Careful => Apart(u.pkts)
    BY <1>2 DEF NoneTwice
  <2> HIDE DEF u
  <2>3. Careful => /\ Part(u.pkts, u.nb, Len(u.pkts)) = Part(u.pkts, 0, Len(u.pkts)) \ Part(u.pkts, 0, u.nb)
                   /\ Part(u.pkts, 0, u.nb) \subseteq Part(u.pkts, 0, Len(u.pkts))
    BY <1>2, <2>1, <2>2, PartsDiffer
  <2> QED
    BY <1>4, <1>5, <2>3
<1>8. Careful => /\ S \subseteq InHand(cpu[c], conf)
                 /\ InHand(r, conf) \subseteq InHand(cpu[c], conf) \ S
                 /\ NoneTwice(r, segs) /\ Room(r, fifo)
  BY <1>4, <1>7
<1>9. Keeping => InHand(r, conf) = InHand(cpu[c], conf) \ S
  BY <1>7, KeepingIsCareful DEF Held3
<1> QED
  BY <1>1, <1>4, <1>6, <1>8, <1>9, GiveGoes

LEMMA GenerateKeeps ==
    ASSUME Held3, NEW c \in Cores, Generate(c), UNCHANGED <<gro, fifo>>
    PROVE  Held3'
<1> DEFINE u == cpu[c]
           p == u.pkts \o FromPool(1)
           x == FromPool(1)[1]
           n == u.nb + 1
           r == [u EXCEPT !.pkts = p, !.nb = n]
<1>1. /\ u.pc = "generate" /\ Pool # {} /\ UNCHANGED <<conf, gro, fifo, segs, misused>>
      /\ owner' = [owner EXCEPT ![x] = c] /\ u.nb < NbPktPerBurst
  BY DEF Generate
<1>2. cpu' = [cpu EXCEPT ![c] = r]
  BY DEF Generate
<1>3. /\ u \in CpuType /\ Fits(u, c, conf) /\ u.pkts \in Seq(Mbufs) /\ Len(u.pkts) \in Nat /\ u.nb \in Nat
      /\ Careful => NoneTwice(u, segs)
  BY CoreKnows
<1>4. InHand(u, conf) = Elements(u.pkts)
  BY <1>1 DEF InHand, HoldsAll
<1>5. /\ x \in Pool /\ p \in Seq(Mbufs) /\ Len(p) = Len(u.pkts) + 1
      /\ Elements(p) = Elements(u.pkts) \cup {x} /\ p[Len(u.pkts) + 1] = x
      /\ Careful => Apart(p)
  <2>1. Joined(p, u.pkts, FromPool(1))
    BY DEF Joined
  <2> HIDE DEF p, x
  <2> QED
    BY <1>1, <1>4, <2>1, OneMore DEF x
<1>0. NbPktPerBurst \in Nat /\ n \in Nat
  BY <1>3, BurstAssumption
<1> HIDE DEF u, p, x
<1>7. /\ u.tx = 0 /\ u.s \in Streams /\ conf.lcore[u.s] = c /\ conf.mode = "flowgen" /\ Len(u.pkts) = u.nb
      /\ n <= NbPktPerBurst
  BY <1>0, <1>1, <1>3 DEF Fits, Serves
<1>10. Len(p) = n
  BY <1>5, <1>7
<1> HIDE DEF n
<1>6. /\ r \in CpuType /\ r.pc = "generate" /\ r.s = u.s /\ r.pkts = p /\ r.nb = n /\ r.tx = u.tx /\ r.tmp = u.tmp
  BY <1>0, <1>1, <1>3, <1>5 DEF CpuType, Pcs
<1> HIDE DEF r
<1>8. Goes(c, r) /\ Fits(r, c, conf)
  <2>2. \A o : o.mode = "flowgen" /\ o.lcore[r.s] = c => Fits(r, c, o)
    BY <1>6, <1>7, <1>10 DEF Fits, Serves, FirstPcs, FifoPcs
  <2> QED
    BY <1>1, <1>2, <1>6, <1>7, <2>2 DEF Goes
<1>9. {x} \subseteq Pool /\ owner' = [m \in Mbufs |-> IF m \in {x} THEN c ELSE owner[m]]
  <2>1. owner \in [Mbufs -> Places] /\ x \in Mbufs
    BY <1>5 DEF Held3, HoldTypes, Pool
  <2> QED
    BY <1>1, <1>5, <2>1
<1>11. InHand(r, conf) = InHand(u, conf) \cup {x}
  BY <1>4, <1>5, <1>6 DEF InHand, HoldsAll
<1>12. Careful => NoneTwice(r, segs) /\ Room(r, fifo)
  <2>1. Room(r, fifo)
    BY <1>7, RoomElsewhere
  <2>2. Careful => Apart(r.pkts) /\ Apart(r.tmp)
    BY <1>3, <1>5, <1>6 DEF NoneTwice
  <2> QED
    BY <1>6, <2>1, <2>2, NothingTwice DEF PairPcs
<1>13. Careful => /\ InHand(r, conf) = InHand(cpu[c], conf) \cup {x}
                  /\ NoneTwice(r, segs) /\ Room(r, fifo)
  BY <1>11, <1>12 DEF u
<1> QED
  BY <1>1, <1>8, <1>9, <1>13, TakeGoes

LEMMA GeneratedKeeps ==
    ASSUME Held3, NEW c \in Cores, Generated(c), UNCHANGED <<gro, fifo>>
    PROVE  Held3'
<1> DEFINE u == cpu[c]
           r == [u EXCEPT !.pc = "send", !.lim = u.nb]
<1>1. /\ u.pc = "generate" /\ UNCHANGED <<conf, gro, fifo, owner, segs, misused>> /\ cpu' = [cpu EXCEPT ![c] = r]
  BY DEF Generated
<1>2. /\ u \in CpuType /\ Fits(u, c, conf) /\ u.pkts \in Seq(Mbufs) /\ u.nb \in Nat /\ Len(u.pkts) \in Nat
      /\ Careful => NoneTwice(u, segs)
  BY CoreKnows
<1> HIDE DEF u
<1>3. /\ u.tx = 0 /\ u.s \in Streams /\ conf.lcore[u.s] = c /\ conf.mode = "flowgen" /\ Len(u.pkts) = u.nb
      /\ u.nb <= NbPktPerBurst
  BY <1>1, <1>2 DEF Fits, Serves
<1>4. /\ r \in CpuType /\ r.pc = "send" /\ r.s = u.s /\ r.pkts = u.pkts /\ r.nb = u.nb /\ r.lim = u.nb /\ r.tx = 0
      /\ r.tmp = u.tmp
  BY <1>2, <1>3 DEF CpuType, Pcs
<1> HIDE DEF r
<1>5. Goes(c, r) /\ Fits(r, c, conf)
  <2>1. \A o : o.mode = "flowgen" /\ o.lcore[r.s] = c => Fits(r, c, o)
    <3>1. 0 <= u.nb /\ u.nb <= u.nb
      BY <1>2
    <3>2. r.tx <= r.lim /\ r.lim <= r.nb /\ r.nb <= NbPktPerBurst /\ Len(r.pkts) = r.nb /\ r.s \in Streams
      BY <1>3, <1>4, <3>1
    <3> QED
      BY <1>4, <3>2 DEF Fits, Serves, FirstPcs, FifoPcs
  <2> QED
    BY <1>1, <1>3, <1>4, <2>1 DEF Goes
<1>6. InHand(r, conf) = InHand(u, conf)
  BY <1>1, <1>2, <1>4, AllIsPart DEF InHand, HoldsAll
<1>7. Careful => NoneTwice(r, segs) /\ Room(r, fifo)
  <2>1. Careful => Apart(r.pkts) /\ Apart(r.tmp)
    BY <1>2, <1>4 DEF NoneTwice
  <2> QED
    BY <1>4, <2>1, NothingTwice, RoomElsewhere DEF PairPcs, RoomPcs
<1>8. Careful => InHand(r, conf) \subseteq InHand(cpu[c], conf) /\ NoneTwice(r, segs) /\ Room(r, fifo)
  BY <1>6, <1>7 DEF u
<1>9. Keeping => InHand(r, conf) = InHand(cpu[c], conf)
  BY <1>6 DEF u
<1> QED
  BY <1>1, <1>5, <1>8, <1>9, StayGoes

LEMMA PrepareKeeps ==
    ASSUME Held3, NEW c \in Cores, Prepare(c), UNCHANGED <<gro, fifo>>
    PROVE  Held3'
<1> DEFINE u == cpu[c]
           n == u.nb + 1
           pkt == u.pkts[n]
           r == IF n = NbPktPerBurst THEN Stop(c, n)
                ELSE [u EXCEPT !.nb = n, !.pc = IF Len(u.pkts) = n THEN "alloc" ELSE "prepare"]
<1>1. PICK nb_segs \in NbSegs :
         /\ Cardinality(Pool) >= nb_segs - 1
         /\ owner' = [m \in Mbufs |-> IF m \in Elements(FromPool(nb_segs - 1)) THEN c ELSE owner[m]]
         /\ segs' = [segs EXCEPT ![pkt] = Elements(FromPool(nb_segs - 1))]
         /\ cpu' = [cpu EXCEPT ![c] = r]
  BY DEF Prepare
<1>2. u.pc = "prepare" /\ UNCHANGED <<conf, gro, fifo, misused>>
  BY DEF Prepare
<1>3. /\ u \in CpuType /\ Fits(u, c, conf) /\ u.pkts \in Seq(Mbufs) /\ u.nb \in Nat /\ Len(u.pkts) \in Nat
      /\ Careful => NoneTwice(u, segs) /\ Good(owner, segs, Live) /\ misused = FALSE
      /\ Careful => \A m \in InHand(u, conf) : m \in Mbufs /\ owner[m] = c
  BY CoreKnows
<1>4. /\ u.nb < Len(u.pkts) /\ Len(u.pkts) <= NbPktPerBurst /\ conf.mode = "txonly" /\ u.tx = 0
      /\ u.s \in Streams /\ conf.lcore[u.s] = c
  BY <1>2, <1>3 DEF Fits, Serves
<1>5. Careful /\ NbPktPerBurst \in Nat
  BY <1>4, BurstAssumption DEF Careful
<1>6. n \in Nat /\ n \in 1 .. Len(u.pkts) /\ n <= Len(u.pkts) /\ n - 1 = u.nb
  BY <1>3, <1>4
<1>7. InHand(u, conf) = Elements(u.pkts)
  BY <1>2 DEF InHand, HoldsAll
<1>8. pkt \in Elements(u.pkts) /\ pkt \in Mbufs /\ segs[pkt] = {} /\ owner[pkt] = c
  <2>1. pkt \in Elements(u.pkts) /\ pkt \in Part(u.pkts, u.nb, Len(u.pkts))
    BY <1>3, <1>6 DEF Elements, Part
  <2>2. segs[pkt] = {}
    BY <1>2, <1>3, <1>5, <2>1 DEF NoneTwice
  <2> QED
    BY <1>3, <1>5, <1>7, <2>1, <2>2
<1> DEFINE more == Elements(FromPool(nb_segs - 1))
<1>9. more \subseteq Pool /\ more \in SUBSET Mbufs /\ \A m \in more : owner[m] = "pool"
  <2>1. nb_segs - 1 \in Nat
    BY BurstAssumption DEF NbSegs
  <2>2. nb_segs - 1 <= Cardinality(Pool)
    BY <1>1, <2>1, PoolHasOne
  <2> QED
    BY <2>1, <2>2, PoolGives DEF Pool
<1>10. /\ owner' = [m \in Mbufs |-> IF m \in more THEN c ELSE owner[m]]
       /\ segs' = [segs EXCEPT ![pkt] = more]
       /\ cpu' = [cpu EXCEPT ![c] = r]
  BY <1>1
<1> HIDE DEF more
<1>11. owner \in [Mbufs -> Places] /\ segs \in [Mbufs -> SUBSET Mbufs]
  BY DEF Held3, HoldTypes
<1>12. Live \in [Holders -> SUBSET Mbufs] /\ Live[c] = Elements(u.pkts) /\ c \in Holders /\ c \in Places
  BY <1>7, LiveIs DEF Held3, Holders, Places
<1> HIDE DEF pkt
<1>13. Moved(owner', owner, more, c) /\ Chained(segs', segs, pkt, more)
  BY <1>8, <1>9, <1>10, <1>11, <1>12 DEF Moved, Chained
<1>14. Good(owner', segs', Live) /\ (Full(owner, segs, Live) => Full(owner', segs', Live))
  <2>1. pkt \in Live[c] /\ segs[pkt] = {} /\ Good(owner, segs, Live)
    BY <1>3, <1>5, <1>8, <1>12
  <2>2. owner \in [Mbufs -> Places] /\ segs \in [Mbufs -> SUBSET Mbufs] /\ Live \in [Holders -> SUBSET Mbufs]
    BY <1>11, <1>12
  <2>3. ASSUME NEW o2, o2 = owner', NEW g2, g2 = segs'
        PROVE  Good(o2, g2, Live) /\ (Full(owner, segs, Live) => Full(o2, g2, Live))
    <3>1. Moved(o2, owner, more, c) /\ Chained(g2, segs, pkt, more)
      BY <1>13, <2>3
    <3> QED
      BY <1>9, <2>1, <2>2, <3>1, ChainKeeps
  <2> QED
    BY <2>3
<1>15. HoldTypes'
  BY <1>2, <1>4, <1>13 DEF Held3, HoldTypes, Moved, Chained
\* how the core goes on
<1>16. /\ r \in CpuType /\ Fits(r, c, conf) /\ InHand(r, conf) = Elements(u.pkts)
       /\ NoneTwice(r, segs') /\ Room(r, fifo)
  <2>1. CASE n = NbPktPerBurst
    <3>1. r = Stop(c, n) /\ Len(u.pkts) = n
      BY <1>4, <1>5, <1>6, <2>1
    <3>2. /\ r \in CpuType /\ Fits(r, c, conf) /\ InHand(r, conf) = Part(u.pkts, 0, n)
          /\ Careful => Room(r, fifo) /\ \A g : NoneTwice(r, g)
      <4> HIDE DEF r, n
      <4> QED
        BY <1>2, <1>6, <3>1, StopIs
    <3>3. Part(u.pkts, 0, n) = Elements(u.pkts)
      BY <1>3, <3>1, AllIsPart
    <3> HIDE DEF r, n, u
    <3> QED
      BY <1>5, <3>2, <3>3
  <2>2. CASE n # NbPktPerBurst
    <3> DEFINE pc == IF Len(u.pkts) = n THEN "alloc" ELSE "prepare"
    <3>1. r = [u EXCEPT !.nb = n, !.pc = pc]
      BY <2>2
    <3>2. pc \in {"alloc", "prepare"} /\ (pc = "alloc" => Len(u.pkts) = n) /\ (pc = "prepare" => Len(u.pkts) # n)
      OBVIOUS
    <3>0. n < NbPktPerBurst
      BY <1>4, <1>5, <1>6, <2>2
    <3>10. pc = "prepare" => n < Len(u.pkts)
      BY <1>6, <3>2
    <3>11. \A x \in Part(u.pkts, n, Len(u.pkts)) : x \in Part(u.pkts, u.nb, Len(u.pkts)) /\ x # pkt
      <4> SUFFICES ASSUME NEW i \in (n + 1) .. Len(u.pkts)
                   PROVE  u.pkts[i] \in Part(u.pkts, u.nb, Len(u.pkts)) /\ u.pkts[i] # pkt
        BY DEF Part
      <4>1. i \in (u.nb + 1) .. Len(u.pkts) /\ i \in 1 .. Len(u.pkts) /\ i # n
        BY <1>3, <1>6
      <4>2. Apart(u.pkts)
        BY <1>3, <1>5 DEF NoneTwice
      <4> QED
        BY <1>6, <4>1, <4>2 DEF Part, Apart, pkt
    <3> HIDE DEF u, n, pc, r
    <3>3. /\ r \in CpuType /\ r.pc = pc /\ r.s = u.s /\ r.pkts = u.pkts /\ r.nb = n /\ r.tx = u.tx /\ r.tmp = u.tmp
      BY <1>3, <1>6, <3>1, <3>2 DEF CpuType, Pcs
    <3>4. Fits(r, c, conf)
      <4>1. \A o : o.mode = "txonly" /\ o.lcore[r.s] = c => Fits(r, c, o)
        BY <1>4, <3>0, <3>2, <3>3, <3>10 DEF Fits, Serves, FirstPcs, FifoPcs
      <4> QED
        BY <1>4, <3>3, <4>1
    <3>5. InHand(r, conf) = Elements(u.pkts)
      BY <3>2, <3>3 DEF InHand, HoldsAll
    <3>6. Room(r, fifo)
      BY <1>4, RoomElsewhere
    <3>7. NoneTwice(r, segs')
      <4>1. Part(u.pkts, u.nb, Len(u.pkts)) \subseteq Mbufs
        <5>1. Len(u.pkts) <= Len(u.pkts)
          BY <1>3
        <5> QED
          BY <1>3, <5>1, PartIs
      <4>2. \A x \in Part(u.pkts, n, Len(u.pkts)) : segs'[x] = segs[x] /\ segs[x] = {}
        BY <1>2, <1>3, <1>5, <1>13, <3>11, <4>1 DEF NoneTwice, Chained
      <4>3. Apart(r.pkts) /\ Apart(r.tmp) /\ r.pc \in {"alloc", "prepare"} /\ r.pkts = u.pkts /\ r.nb = n
        BY <1>3, <1>5, <3>2, <3>3 DEF NoneTwice
      <4> QED
        BY <4>2, <4>3 DEF NoneTwice
    <3> QED
      BY <3>3, <3>4, <3>5, <3>6, <3>7
  <2> QED
    BY <2>1, <2>2
<1> HIDE DEF r, n, u
<1>17. Goes(c, r)
  BY <1>2, <1>10, <1>16 DEF Goes
<1>18. \A x \in Mbufs : owner[x] # c /\ segs[x] = {} /\ owner[x] # "pool" => segs'[x] = {}
  BY <1>8, <1>13 DEF Chained
<1>19. Careful => /\ misused' = FALSE
                  /\ Good(owner', segs', Live) /\ InHand(r, conf) \subseteq Live[c]
                  /\ \A p \in Holders : p # c => Live[p] = Live[p]
                  /\ NoneTwice(r, segs') /\ Room(r, fifo)
                  /\ \A x \in Mbufs : owner[x] # c /\ segs[x] = {} /\ owner[x] # "pool" => segs'[x] = {}
  BY <1>2, <1>3, <1>12, <1>14, <1>16, <1>18
<1>20. Keeping /\ Full(owner, segs, Live) => Full(owner', segs', Live) /\ Live[c] = InHand(r, conf)
  BY <1>12, <1>14, <1>16
<1>21. UNCHANGED <<gro, fifo>>
  BY <1>2
<1> QED
  BY <1>12, <1>15, <1>16, <1>17, <1>19, <1>20, <1>21, OwnGoes

-----------------------------------------------------------------------------
(* csum. *)

\* A burst that goes on to GSO, or to the port when there is none.
LEMMA GsoStarts ==
    ASSUME NEW r \in CpuType, r.pc = "gso", r.t = 0, r.tmp = << >>
    PROVE  /\ \A o : InHand(r, o) = Elements(r.pkts)
           /\ Apart(r.pkts) => \A g : NoneTwice(r, g)
<1>1. r.pkts \in Seq(Mbufs)
  BY DEF CpuType
<1>2. Part(r.pkts, r.t, Len(r.pkts)) = Elements(r.pkts)
  BY <1>1, AllIsPart
<1>3. \A o : InHand(r, o) = Elements(r.pkts)
  BY <1>2, EmptyIsApart DEF InHand, HoldsAll
<1>4. Apart(r.pkts) => \A g : NoneTwice(r, g)
  BY EmptyIsApart DEF NoneTwice
<1> QED
  BY <1>3, <1>4

LEMMA CsumKnows ==
    ASSUME Held3, NEW c \in Cores, cpu[c].pc \in {"copy", "gso"}
    PROVE  /\ conf.mode = "csum" /\ Careful /\ Keeping
           /\ cpu[c].s \in Streams /\ conf.lcore[cpu[c].s] = c /\ Len(cpu[c].pkts) = cpu[c].nb /\ cpu[c].t <= cpu[c].nb
           /\ cpu[c].pc = "copy" => cpu[c].tmp = << >>
           /\ \A r, f : Room(r, f)
<1>1. Fits(cpu[c], c, conf)
  BY CoreKnows
<1>2. conf.mode = "csum"
  BY <1>1 DEF Fits, Serves
<1> QED
  BY <1>1, <1>2, RoomElsewhere DEF Fits, Careful, Keeping

LEMMA CsumFits ==
    ASSUME Held3, NEW c \in Cores, conf.mode = "csum",
           NEW r \in CpuType, r.s \in Streams, conf.lcore[r.s] = c, Len(r.pkts) = r.nb,
           \/ r.pc = "copy" /\ r.t <= r.nb /\ r.tmp = << >>
           \/ r.pc = "gso" /\ r.t <= r.nb
           \/ r.pc = "send" /\ r.tx <= r.lim /\ r.lim <= r.nb
    PROVE  Fits(r, c, conf)
<1>1. \A o : o.mode = "csum" /\ o.lcore[r.s] = c => Fits(r, c, o)
  BY DEF Fits, Serves, FirstPcs, FifoPcs
<1> QED
  BY <1>1

LEMMA NotCopiedKeeps ==
    ASSUME Held3, NEW c \in Cores, NotCopied(c), UNCHANGED fifo
    PROVE  Held3'
<1> DEFINE u == cpu[c]
           n == u.t + 1
           r == [u EXCEPT !.t = n]
<1>1. /\ u.pc = "copy" /\ u.t < u.nb /\ UNCHANGED <<conf, gro, fifo, owner, segs, misused>>
      /\ cpu' = [cpu EXCEPT ![c] = r]
  BY DEF NotCopied, gvars
<1>2. /\ u \in CpuType /\ u.t \in Nat /\ u.nb \in Nat
      /\ Careful => NoneTwice(u, segs)
  BY CoreKnows
<1>3. /\ conf.mode = "csum" /\ Careful /\ u.s \in Streams /\ conf.lcore[u.s] = c /\ Len(u.pkts) = u.nb
      /\ u.tmp = << >> /\ \A x, f : Room(x, f)
  BY <1>1, CsumKnows
<1>4. n \in Nat /\ n <= u.nb
  BY <1>1, <1>2
<1> HIDE DEF u, n
<1>5. r \in CpuType /\ r.pc = "copy" /\ r.s = u.s /\ r.pkts = u.pkts /\ r.nb = u.nb /\ r.t = n /\ r.tmp = u.tmp
  BY <1>1, <1>2, <1>4 DEF CpuType
<1> HIDE DEF r
<1>6. Goes(c, r) /\ Fits(r, c, conf)
  BY <1>1, <1>3, <1>4, <1>5, CsumFits DEF Goes
<1>7. InHand(r, conf) = InHand(u, conf)
  BY <1>1, <1>5 DEF InHand, HoldsAll
<1>8. NoneTwice(r, segs)
  BY <1>2, <1>3, <1>5, NothingTwice DEF PairPcs, NoneTwice
<1>9. Careful => InHand(r, conf) \subseteq InHand(cpu[c], conf) /\ NoneTwice(r, segs) /\ Room(r, fifo)
  BY <1>3, <1>7, <1>8 DEF u
<1>10. Keeping => InHand(r, conf) = InHand(cpu[c], conf)
  BY <1>7 DEF u
<1> QED
  BY <1>1, <1>6, <1>9, <1>10, StayGoes

LEMMA NoGroKeeps ==
    ASSUME Held3, NEW c \in Cores, NoGro(c), UNCHANGED fifo
    PROVE  Held3'
<1> DEFINE u == cpu[c]
           r == [u EXCEPT !.pc = "gso", !.t = 0]
<1>1. /\ u.pc = "copy" /\ UNCHANGED <<conf, gro, fifo, owner, segs, misused>>
      /\ cpu' = [cpu EXCEPT ![c] = r]
  BY DEF NoGro, gvars
<1>2. /\ u \in CpuType /\ u.nb \in Nat
      /\ Careful => NoneTwice(u, segs)
  BY CoreKnows
<1>3. /\ conf.mode = "csum" /\ Careful /\ u.s \in Streams /\ conf.lcore[u.s] = c /\ Len(u.pkts) = u.nb
      /\ u.tmp = << >> /\ \A x, f : Room(x, f)
  BY <1>1, CsumKnows
<1> HIDE DEF u
<1>5. r \in CpuType /\ r.pc = "gso" /\ r.s = u.s /\ r.pkts = u.pkts /\ r.nb = u.nb /\ r.t = 0 /\ r.tmp = << >>
  BY <1>1, <1>2, <1>3 DEF CpuType, Pcs
<1> HIDE DEF r
<1>6. Goes(c, r) /\ Fits(r, c, conf)
  <2>1. 0 <= r.nb
    BY <1>2, <1>5
  <2> QED
    BY <1>1, <1>3, <1>5, <2>1, CsumFits DEF Goes
<1>7. InHand(r, conf) = InHand(u, conf)
  BY <1>1, <1>5, GsoStarts DEF InHand, HoldsAll
<1>8. NoneTwice(r, segs)
  BY <1>2, <1>3, <1>5, GsoStarts DEF NoneTwice
<1>9. Careful => InHand(r, conf) \subseteq InHand(cpu[c], conf) /\ NoneTwice(r, segs) /\ Room(r, fifo)
  BY <1>3, <1>7, <1>8 DEF u
<1>10. Keeping => InHand(r, conf) = InHand(cpu[c], conf)
  BY <1>7 DEF u
<1> QED
  BY <1>1, <1>6, <1>9, <1>10, StayGoes

\* The packet that GSO looks at next, and those that come after it.
LEMMA NextOfBurst ==
    ASSUME NEW q \in Seq(Mbufs), Apart(q), NEW t \in Nat, t < Len(q), NEW n, n = t + 1, NEW m, m = q[n]
    PROVE  /\ n \in 1 .. Len(q) /\ n <= Len(q) /\ n \in Nat /\ m \in Mbufs /\ m \in Elements(q)
           /\ Part(q, t, Len(q)) = {m} \cup Part(q, n, Len(q)) /\ m \notin Part(q, n, Len(q))
<1>1. Len(q) \in Nat /\ DOMAIN q = 1 .. Len(q)
  OBVIOUS
<1>2. n \in 1 .. Len(q) /\ n <= Len(q) /\ n \in Nat
  BY <1>1
<1>3. m \in Mbufs /\ m \in Elements(q)
  BY <1>1, <1>2 DEF Elements
<1>4. (t + 1) .. Len(q) = {n} \cup ((n + 1) .. Len(q)) /\ n \notin (n + 1) .. Len(q) /\ (n + 1) .. Len(q) \subseteq 1 .. Len(q)
  BY <1>1, <1>2
<1>5. Part(q, t, Len(q)) = {m} \cup Part(q, n, Len(q))
  BY <1>4 DEF Part
<1>6. m \notin Part(q, n, Len(q))
  BY <1>2, <1>4 DEF Part, Apart
<1> QED
  BY <1>2, <1>3, <1>5, <1>6

LEMMA GsoWholeKeeps ==
    ASSUME Held3, NEW c \in Cores, GsoWhole(c), UNCHANGED fifo
    PROVE  Held3'
<1> DEFINE u == cpu[c]
           n == u.t + 1
           m == u.pkts[n]
           p == Append(u.tmp, m)
           r == [u EXCEPT !.tmp = p, !.t = n]
<1>1. /\ u.pc = "gso" /\ conf.gso /\ u.t < u.nb /\ UNCHANGED <<conf, gro, fifo, owner, segs, misused>>
      /\ cpu' = [cpu EXCEPT ![c] = r]
  BY DEF GsoWhole, gvars
<1>2. /\ u \in CpuType /\ u.t \in Nat /\ u.nb \in Nat /\ u.pkts \in Seq(Mbufs) /\ u.tmp \in Seq(Mbufs)
      /\ Careful => NoneTwice(u, segs)
  BY CoreKnows
<1>3. /\ conf.mode = "csum" /\ Careful /\ u.s \in Streams /\ conf.lcore[u.s] = c /\ Len(u.pkts) = u.nb
      /\ \A x, f : Room(x, f)
  BY <1>1, CsumKnows
<1>4. Apart(u.pkts) /\ Apart(u.tmp) /\ Part(u.pkts, u.t, Len(u.pkts)) \cap Elements(u.tmp) = {}
  BY <1>1, <1>2, <1>3 DEF NoneTwice
<1>5. /\ n \in 1 .. Len(u.pkts) /\ n <= Len(u.pkts) /\ n \in Nat /\ m \in Mbufs
      /\ Part(u.pkts, u.t, Len(u.pkts)) = {m} \cup Part(u.pkts, n, Len(u.pkts)) /\ m \notin Part(u.pkts, n, Len(u.pkts))
  <2> HIDE DEF u
  <2> QED
    BY <1>1, <1>2, <1>3, <1>4, NextOfBurst
<1>6. p \in Seq(Mbufs) /\ Elements(p) = Elements(u.tmp) \cup {m} /\ Apart(p)
  <2> DEFINE q == u.tmp
             k == Len(q)
  <2> HIDE DEF m
  <2>1. /\ p \in Seq(Mbufs) /\ Len(p) = k + 1 /\ DOMAIN q = 1 .. k /\ DOMAIN p = 1 .. k + 1 /\ k \in Nat
        /\ p[k + 1] = m /\ \A i \in 1 .. k : p[i] = q[i]
    BY <1>2, <1>5
  <2>2. Apart(q) /\ m \notin Elements(q)
    BY <1>4, <1>5
  <2> HIDE DEF p, q
  <2>3. \A i \in 1 .. k + 1 : i \in 1 .. k \/ i = k + 1
    BY <2>1
  <2>4. \A i \in 1 .. k : i \in 1 .. k + 1
    BY <2>1
  <2>5. k + 1 \in 1 .. k + 1
    BY <2>1
  <2>6. \A i \in 1 .. k : q[i] # m
    BY <2>1, <2>2 DEF Elements
  <2>7. \A i, j \in 1 .. k : q[i] = q[j] => i = j
    BY <2>2 DEF Apart
  <2> HIDE DEF k
  <2>8. Apart(p)
    <3>1. \A i, j \in 1 .. k + 1 : p[i] = p[j] => i = j
      BY <2>1, <2>3, <2>6, <2>7
    <3> QED
      BY <2>1, <3>1 DEF Apart
  <2>9. Elements(p) = Elements(q) \cup {m}
    BY <2>1, <2>3, <2>4, <2>5 DEF Elements
  <2> QED
    BY <2>1, <2>8, <2>9 DEF q
<1> HIDE DEF u, n, m, p
<1>7. r \in CpuType /\ r.pc = "gso" /\ r.s = u.s /\ r.pkts = u.pkts /\ r.nb = u.nb /\ r.t = n /\ r.tmp = p
  BY <1>1, <1>2, <1>5, <1>6 DEF CpuType
<1> HIDE DEF r
<1>8. Goes(c, r) /\ Fits(r, c, conf)
  BY <1>1, <1>3, <1>5, <1>7, CsumFits DEF Goes
<1>9. InHand(r, conf) = InHand(u, conf)
  <2>1. /\ InHand(u, conf) = Part(u.pkts, u.t, Len(u.pkts)) \cup Elements(u.tmp)
        /\ InHand(r, conf) = Part(u.pkts, n, Len(u.pkts)) \cup Elements(p)
    BY <1>1, <1>7 DEF InHand, HoldsAll
  <2> QED
    BY <1>5, <1>6, <2>1
<1>10. NoneTwice(r, segs)
  <2>1. Part(u.pkts, n, Len(u.pkts)) \cap Elements(p) = {}
    BY <1>4, <1>5, <1>6
  <2> QED
    BY <1>4, <1>6, <1>7, <2>1 DEF NoneTwice
<1>11. Careful => InHand(r, conf) \subseteq InHand(cpu[c], conf) /\ NoneTwice(r, segs) /\ Room(r, fifo)
  BY <1>3, <1>9, <1>10 DEF u
<1>12. Keeping => InHand(r, conf) = InHand(cpu[c], conf)
  BY <1>9 DEF u
<1> QED
  BY <1>1, <1>8, <1>11, <1>12, StayGoes

LEMMA GsoFailsKeeps ==
    ASSUME Held3, NEW c \in Cores, GsoFails(c), UNCHANGED fifo
    PROVE  Held3'
<1> DEFINE u == cpu[c]
           n == u.t + 1
           m == u.pkts[n]
           r == [u EXCEPT !.t = n]
<1>1. /\ u.pc = "gso" /\ conf.gso /\ u.t < u.nb /\ UNCHANGED <<conf, gro, fifo>>
      /\ cpu' = [cpu EXCEPT ![c] = r] /\ Give(c, {m}, "pool") /\ "pool" \in Away
  BY DEF GsoFails, gvars, Away
<1>2. /\ u \in CpuType /\ u.t \in Nat /\ u.nb \in Nat /\ u.pkts \in Seq(Mbufs) /\ u.tmp \in Seq(Mbufs)
      /\ Careful => NoneTwice(u, segs)
  BY CoreKnows
<1>3. /\ conf.mode = "csum" /\ Careful /\ u.s \in Streams /\ conf.lcore[u.s] = c /\ Len(u.pkts) = u.nb
      /\ \A x, f : Room(x, f)
  BY <1>1, CsumKnows
<1>4. Apart(u.pkts) /\ Apart(u.tmp) /\ Part(u.pkts, u.t, Len(u.pkts)) \cap Elements(u.tmp) = {}
  BY <1>1, <1>2, <1>3 DEF NoneTwice
<1>5. /\ n \in 1 .. Len(u.pkts) /\ n <= Len(u.pkts) /\ n \in Nat /\ m \in Mbufs
      /\ Part(u.pkts, u.t, Len(u.pkts)) = {m} \cup Part(u.pkts, n, Len(u.pkts)) /\ m \notin Part(u.pkts, n, Len(u.pkts))
  <2> HIDE DEF u
  <2> QED
    BY <1>1, <1>2, <1>3, <1>4, NextOfBurst
<1> HIDE DEF u, n, m
<1>7. r \in CpuType /\ r.pc = "gso" /\ r.s = u.s /\ r.pkts = u.pkts /\ r.nb = u.nb /\ r.t = n /\ r.tmp = u.tmp
  BY <1>1, <1>2, <1>5 DEF CpuType
<1> HIDE DEF r
<1>8. Goes(c, r) /\ Fits(r, c, conf)
  BY <1>1, <1>3, <1>5, <1>7, CsumFits DEF Goes
<1>9. InHand(r, conf) = InHand(u, conf) \ {m} /\ {m} \subseteq InHand(u, conf)
  <2>1. /\ InHand(u, conf) = Part(u.pkts, u.t, Len(u.pkts)) \cup Elements(u.tmp)
        /\ InHand(r, conf) = Part(u.pkts, n, Len(u.pkts)) \cup Elements(u.tmp)
    BY <1>1, <1>7 DEF InHand, HoldsAll
  <2> QED
    BY <1>4, <1>5, <2>1
<1>10. NoneTwice(r, segs)
  <2>1. Part(u.pkts, n, Len(u.pkts)) \cap Elements(u.tmp) = {}
    BY <1>4, <1>5
  <2> QED
    BY <1>4, <1>7, <2>1 DEF NoneTwice
<1>11. Careful => /\ {m} \subseteq InHand(cpu[c], conf)
                  /\ InHand(r, conf) \subseteq InHand(cpu[c], conf) \ {m}
                  /\ NoneTwice(r, segs) /\ Room(r, fifo)
  BY <1>3, <1>9, <1>10 DEF u
<1>12. Keeping => InHand(r, conf) = InHand(cpu[c], conf) \ {m}
  BY <1>9 DEF u
<1> QED
  BY <1>1, <1>8, <1>11, <1>12, GiveGoes

LEMMA TxPrepareKeeps ==
    ASSUME Held3, NEW c \in Cores, TxPrepare(c), UNCHANGED fifo
    PROVE  Held3'
<1> DEFINE u == cpu[c]
           p == IF conf.gso THEN u.tmp ELSE u.pkts
           n == Len(p)
<1>1. PICK k \in 0 .. n : cpu' = [cpu EXCEPT ![c] =
                [IdleCpu EXCEPT !.pc = "send", !.s = u.s, !.pkts = p, !.nb = n, !.lim = k]]
  BY DEF TxPrepare
<1> DEFINE r == [IdleCpu EXCEPT !.pc = "send", !.s = u.s, !.pkts = p, !.nb = n, !.lim = k]
<1>2. /\ u.pc = "gso" /\ (conf.gso => u.t = u.nb) /\ UNCHANGED <<conf, gro, fifo, owner, segs, misused>>
      /\ cpu' = [cpu EXCEPT ![c] = r]
  BY <1>1 DEF TxPrepare, gvars
<1>3. /\ u \in CpuType /\ u.pkts \in Seq(Mbufs) /\ u.tmp \in Seq(Mbufs) /\ u.t \in Nat
      /\ Careful => NoneTwice(u, segs)
  BY CoreKnows
<1>4. /\ conf.mode = "csum" /\ Careful /\ u.s \in Streams /\ conf.lcore[u.s] = c /\ Len(u.pkts) = u.nb
      /\ \A x, f : Room(x, f)
  BY <1>2, CsumKnows
<1> HIDE DEF u
<1>5. p \in Seq(Mbufs) /\ n \in Nat /\ Apart(p)
  BY <1>2, <1>3, <1>4 DEF NoneTwice
<1>6. Elements(p) = InHand(u, conf)
  <2>1. CASE conf.gso
    <3>1. Part(u.pkts, u.t, Len(u.pkts)) = {}
      <4>1. Len(u.pkts) <= u.t /\ Len(u.pkts) <= Len(u.pkts) /\ Len(u.pkts) \in Nat
        BY <1>2, <1>3, <1>4, <2>1
      <4> QED
        BY <1>3, <4>1, PartIs
    <3> QED
      BY <1>2, <2>1, <3>1 DEF InHand, HoldsAll
  <2>2. CASE ~conf.gso
    BY <1>2, <2>2 DEF InHand, HoldsAll
  <2> QED
    BY <2>1, <2>2
<1>10. k \in Nat /\ 0 <= k /\ k <= n
  BY <1>1, <1>5
<1>11. n = Len(p)
  OBVIOUS
<1> HIDE DEF p, n
<1>7. /\ r \in CpuType /\ r.pc = "send" /\ r.s = u.s /\ r.pkts = p /\ r.nb = n /\ r.lim = k /\ r.tx = 0
      /\ r.tmp = << >>
  BY <1>4, <1>5, <1>10, IdleIs DEF CpuType, Pcs
<1> HIDE DEF r
<1>8. Goes(c, r) /\ Fits(r, c, conf)
  BY <1>2, <1>4, <1>7, <1>10, <1>11, CsumFits DEF Goes
<1>9. InHand(r, conf) = Elements(p)
  BY <1>5, <1>7, AllIsPart DEF InHand, HoldsAll
<1>12. NoneTwice(r, segs)
  BY <1>5, <1>7, EmptyIsApart, NothingTwice DEF PairPcs
<1>13. Careful => InHand(r, conf) \subseteq InHand(cpu[c], conf) /\ NoneTwice(r, segs) /\ Room(r, fifo)
  BY <1>4, <1>6, <1>9, <1>12 DEF u
<1>14. Keeping => InHand(r, conf) = InHand(cpu[c], conf)
  BY <1>6, <1>9 DEF u
<1> QED
  BY <1>2, <1>8, <1>13, <1>14, StayGoes

LEMMA GroBurstKeeps ==
    ASSUME Held3, NEW c \in Cores, GroBurst(c), UNCHANGED fifo
    PROVE  Held3'
<1> DEFINE u == cpu[c]
           H == Elements(u.pkts)
<1>1. PICK keep \in (SUBSET H) \ {{}} :
         /\ segs' = [m \in Mbufs |-> IF m = Kept(u.pkts, keep)[1] THEN segs[m] \cup Whole(H \ keep)
                                     ELSE IF m \in H \ keep THEN {} ELSE segs[m]]
         /\ cpu' = [cpu EXCEPT ![c] = [u EXCEPT !.pkts = Kept(u.pkts, keep), !.nb = Len(Kept(u.pkts, keep)),
                                                !.pc = "gso", !.t = 0]]
  BY DEF GroBurst
<1> DEFINE q == Kept(u.pkts, keep)
           n == Len(q)
           k == q[1]
           S == H \ keep
           r == [u EXCEPT !.pkts = q, !.nb = n, !.pc = "gso", !.t = 0]
<1>2. /\ u.pc = "copy" /\ UNCHANGED <<conf, gro, fifo, owner, misused>> /\ cpu' = [cpu EXCEPT ![c] = r]
      /\ segs' = [m \in Mbufs |-> IF m = k THEN segs[m] \cup Whole(S) ELSE IF m \in S THEN {} ELSE segs[m]]
  BY <1>1 DEF GroBurst, gvars
<1>3. /\ u \in CpuType /\ u.pkts \in Seq(Mbufs)
      /\ Careful => NoneTwice(u, segs) /\ Good(owner, segs, Live) /\ misused = FALSE
      /\ Careful => \A m \in InHand(u, conf) : m \in Mbufs /\ owner[m] = c
  BY CoreKnows
<1>4. /\ conf.mode = "csum" /\ Careful /\ u.s \in Streams /\ conf.lcore[u.s] = c /\ Len(u.pkts) = u.nb
      /\ u.tmp = << >> /\ \A x, f : Room(x, f)
  BY <1>2, CsumKnows
<1>5. InHand(u, conf) = H
  BY <1>2 DEF InHand, HoldsAll
<1> HIDE DEF u
<1>6. q \in Seq(Mbufs) /\ Elements(q) = H \cap keep /\ Apart(q)
  <2>1. Apart(u.pkts)
    BY <1>3, <1>4 DEF NoneTwice
  <2> HIDE DEF H
  <2> QED
    BY <1>3, <2>1, KeptIs DEF H
<1> HIDE DEF q
<1>7. n \in Nat /\ Elements(q) = keep /\ k \in keep /\ k \in H /\ k \notin S /\ k \in Mbufs
  <2>1. Elements(q) = keep /\ keep # {}
    BY <1>1, <1>6
  <2>2. Len(q) \in Nat /\ DOMAIN q = 1 .. Len(q)
    BY <1>6
  <2>3. 1 \in DOMAIN q
    BY <2>1, <2>2 DEF Elements
  <2>4. k \in keep
    BY <2>1, <2>3 DEF Elements
  <2> QED
    BY <1>1, <1>3, <1>4, <1>5, <2>1, <2>2, <2>4
<1>8. owner \in [Mbufs -> Places] /\ segs \in [Mbufs -> SUBSET Mbufs]
  BY DEF Held3, HoldTypes
<1>9. Live \in [Holders -> SUBSET Mbufs] /\ Live[c] = H /\ c \in Holders
  BY <1>5, LiveIs DEF Held3, Holders, u
<1> DEFINE L2 == [Live EXCEPT ![c] = H \ S]
<1>10. L2 \in [Holders -> SUBSET Mbufs] /\ L2[c] = keep /\ \A p \in Holders : p # c => L2[p] = Live[p]
  BY <1>1, <1>9
<1>11. Fewer(L2, Live, c, S)
  BY <1>9, <1>10 DEF Fewer
<1> HIDE DEF L2, H, n, k
<1>12. S \subseteq Live[c] /\ S \subseteq Mbufs
  BY <1>9
<1>13. Merged(segs', segs, k, S)
  <2>1. Whole(S) = Chain(segs, S)
    BY <1>12 DEF Whole, Chain
  <2>2. Chain(segs, S) \in SUBSET Mbufs
    BY <1>8, <1>12 DEF Chain
  <2>3. segs' \in [Mbufs -> SUBSET Mbufs]
    BY <1>2, <1>8, <2>1, <2>2
  <2> QED
    BY <1>2, <2>1, <2>3 DEF Merged
<1>14. Good(owner, segs', L2) /\ (Full(owner, segs, Live) => Full(owner, segs', L2))
  <2>1. Good(owner, segs, Live) /\ k \in Live[c] /\ k \notin S
    BY <1>3, <1>4, <1>7, <1>9
  <2>2. ASSUME NEW g2, g2 = segs'
        PROVE  Good(owner, g2, L2) /\ (Full(owner, segs, Live) => Full(owner, g2, L2))
    <3>1. Merged(g2, segs, k, S)
      BY <1>13, <2>2
    <3> QED
      BY <1>8, <1>9, <1>11, <1>12, <2>1, <3>1, MergeKeeps
  <2> QED
    BY <2>2
<1>15. HoldTypes'
  BY <1>2, <1>4, <1>13 DEF Held3, HoldTypes, Merged
<1>16. /\ r \in CpuType /\ r.pc = "gso" /\ r.s = u.s /\ r.pkts = q /\ r.nb = n /\ r.t = 0 /\ r.tmp = << >>
  BY <1>3, <1>4, <1>6, <1>7 DEF CpuType, Pcs
<1> HIDE DEF r
<1>17. Goes(c, r) /\ Fits(r, c, conf)
  <2>1. 0 <= r.nb /\ Len(r.pkts) = r.nb
    BY <1>7, <1>16 DEF n
  <2> QED
    BY <1>2, <1>4, <1>16, <2>1, CsumFits DEF Goes
<1>18. InHand(r, conf) = keep /\ NoneTwice(r, segs')
  BY <1>6, <1>7, <1>16, GsoStarts
<1>19. \A x \in Mbufs : owner[x] # c /\ segs[x] = {} /\ owner[x] # "pool" => segs'[x] = {}
  <2>1. owner[k] = c
    BY <1>3, <1>4, <1>5, <1>7
  <2> QED
    BY <1>13, <2>1 DEF Merged
<1>23. misused' = misused /\ owner' = owner
  BY <1>2
<1>20. Careful => /\ misused' = FALSE
                  /\ Good(owner', segs', L2) /\ InHand(r, conf) \subseteq L2[c]
                  /\ \A p \in Holders : p # c => L2[p] = Live[p]
                  /\ NoneTwice(r, segs') /\ Room(r, fifo)
                  /\ \A x \in Mbufs : owner[x] # c /\ segs[x] = {} /\ owner[x] # "pool" => segs'[x] = {}
  BY <1>3, <1>4, <1>10, <1>14, <1>18, <1>19, <1>23
<1>21. Keeping /\ Full(owner, segs, Live) => Full(owner', segs', L2) /\ L2[c] = InHand(r, conf)
  BY <1>10, <1>14, <1>18, <1>23
<1>22. UNCHANGED <<gro, fifo>>
  BY <1>2
<1> QED
  BY <1>10, <1>15, <1>17, <1>20, <1>21, <1>22, OwnGoes

-----------------------------------------------------------------------------
Free(T, o) == T \in SUBSET Mbufs /\ \A x \in T : o[x] = "pool"

\* A packet goes back to the pool and others of the pool come for it.
LEMMA SwapKeeps ==
    ASSUME NEW o \in [Mbufs -> Places], NEW g \in [Mbufs -> SUBSET Mbufs], NEW L \in [Holders -> SUBSET Mbufs],
           Good(o, g, L), NEW c \in Cores, NEW m \in L[c], NEW T, Free(T, o),
           NEW o1, Moved(o1, o, Chain(g, {m}), "pool"), NEW g1, Cut(g1, g, {m}), NEW L1, Fewer(L1, L, c, {m}),
           NEW o2, Moved(o2, o1, T, c), NEW L2, More(L2, L1, c, T)
    PROVE  /\ Good(o2, g1, L2)
           /\ Full(o, g, L) => Full(o2, g1, L2)
<1>1. c \in Holders /\ "pool" \in Away /\ {m} \subseteq L[c]
  BY DEF Holders, Away
<1>5. T \in SUBSET Mbufs /\ \A x \in T : o[x] = "pool"
  BY DEF Free
<1>2. Good(o1, g1, L1) /\ (Full(o, g, L) => Full(o1, g1, L1))
  BY <1>1, GiveKeeps
<1>3. o1 \in [Mbufs -> Places] /\ g1 \in [Mbufs -> SUBSET Mbufs] /\ L1 \in [Holders -> SUBSET Mbufs]
  BY DEF Moved, Cut, Fewer
<1>4. \A x \in T : o1[x] = "pool"
  BY <1>5 DEF Moved
<1> QED
  BY <1>2, <1>3, <1>4, <1>5, TakeKeeps

\* The same, and the others are one packet.
LEMMA ReplaceKeeps ==
    ASSUME NEW o \in [Mbufs -> Places], NEW g \in [Mbufs -> SUBSET Mbufs], NEW L \in [Holders -> SUBSET Mbufs],
           Good(o, g, L), NEW c \in Cores, NEW m \in L[c], NEW T, Free(T, o),
           NEW k \in T,
           NEW o1, Moved(o1, o, Chain(g, {m}), "pool"), NEW g1, Cut(g1, g, {m}), NEW L1, Fewer(L1, L, c, {m}),
           NEW o2, Moved(o2, o1, T, c), NEW g2, Chained(g2, g1, k, T \ {k}), NEW L2, More(L2, L1, c, {k})
    PROVE  /\ Good(o2, g2, L2)
           /\ Full(o, g, L) => Full(o2, g2, L2)
<1> DEFINE p == [x \in Mbufs |-> IF x \in {k} THEN c ELSE o1[x]]
<1>1. o1 \in [Mbufs -> Places] /\ g1 \in [Mbufs -> SUBSET Mbufs] /\ L1 \in [Holders -> SUBSET Mbufs] /\ c \in Places /\ c \in Holders
  BY DEF Moved, Cut, Fewer, Places, Holders
<1>2. Moved(p, o1, {k}, c) /\ Free({k}, o)
  BY <1>1 DEF Moved, Free
<1> DEFINE K == {k}
<1>13. Moved(p, o1, K, c) /\ Free(K, o) /\ More(L2, L1, c, K)
  BY <1>2
<1> HIDE DEF p, K
<1>14. Moved(o1, o, Chain(g, {m}), "pool") /\ Cut(g1, g, {m}) /\ Fewer(L1, L, c, {m}) /\ m \in L[c] /\ Good(o, g, L)
  OBVIOUS
<1>3. Good(p, g1, L2) /\ (Full(o, g, L) => Full(p, g1, L2))
  BY ONLY SwapKeeps, <1>13, <1>14, o \in [Mbufs -> Places], g \in [Mbufs -> SUBSET Mbufs], L \in [Holders -> SUBSET Mbufs], c \in Cores
<1>4. p \in [Mbufs -> Places] /\ L2 \in [Holders -> SUBSET Mbufs] /\ \A x \in Mbufs : p[x] = IF x = k THEN c ELSE o1[x]
  BY <1>2 DEF Moved, More, Free
<1>12. T \in SUBSET Mbufs /\ \A x \in T : o[x] = "pool"
  BY DEF Free
<1> DEFINE R == T \ {k}
<1>5. \A x \in Mbufs : o1[x] = (IF x \in Chain(g, {m}) THEN "pool" ELSE o[x])
  BY DEF Moved
<1>6. R \in SUBSET Mbufs /\ \A x \in R : p[x] = "pool"
  BY <1>4, <1>5, <1>12
<1>7. \A x \in Mbufs : o2[x] = IF x \in T THEN c ELSE o1[x]
  BY DEF Moved
<1>8. o2 \in [Mbufs -> Places]
  BY DEF Moved
<1>9. Moved(o2, p, R, c)
  BY <1>4, <1>7, <1>8 DEF Moved
<1>10. k \in L2[c] /\ g1[k] = {}
  <2>1. g[k] = {}
    BY <1>12 DEF Good
  <2>2. g1[k] = {}
    BY <1>12, <2>1 DEF Cut
  <2> QED
    BY <1>1, <1>12, <2>2 DEF More
<1>11. Chained(g2, g1, k, R)
  OBVIOUS
<1> HIDE DEF R
<1> QED
  BY <1>1, <1>3, <1>4, <1>6, <1>9, <1>10, <1>11, ChainKeeps

LEMMA TailIs ==
    ASSUME NEW q \in Seq(Mbufs), Apart(q), NEW n \in Nat, Len(q) = n, 1 <= n
    PROVE  q[1] \in Elements(q) /\ Elements(Tail(q)) = Elements(q) \ {q[1]}
<1> DEFINE p == Tail(q)
<1>1. DOMAIN q = 1 .. n /\ DOMAIN p = 1 .. n - 1 /\ \A i \in 1 .. n - 1 : p[i] = q[i + 1]
  OBVIOUS
<1> HIDE DEF p
<1>2. 1 \in 1 .. n /\ \A i \in 1 .. n - 1 : i + 1 \in 1 .. n /\ i + 1 # 1
  OBVIOUS
<1>3. \A i \in 1 .. n : i # 1 => i - 1 \in 1 .. n - 1 /\ (i - 1) + 1 = i
  OBVIOUS
<1>4. \A i, j \in 1 .. n : q[i] = q[j] => i = j
  BY DEF Apart
<1>5. Elements(p) \subseteq Elements(q) \ {q[1]}
  BY <1>1, <1>2, <1>4 DEF Elements
<1>6. Elements(q) \ {q[1]} \subseteq Elements(p)
  <2> SUFFICES ASSUME NEW i \in 1 .. n, q[i] # q[1] PROVE q[i] \in Elements(p)
    BY <1>1 DEF Elements
  <2>1. i # 1
    OBVIOUS
  <2>2. i - 1 \in 1 .. n - 1 /\ (i - 1) + 1 = i
    BY <1>3, <2>1
  <2>3. p[i - 1] = q[i] /\ i - 1 \in DOMAIN p
    BY <1>1, <2>2
  <2> QED
    BY <2>3 DEF Elements
<1> QED
  BY <1>1, <1>2, <1>5, <1>6 DEF Elements, p

\* Core c gives packet m back to the pool and takes the mbufs T of it.
Swapped(c, m, T) == [x \in Mbufs |-> IF x \in T THEN c ELSE IF x \in Whole({m}) THEN "pool" ELSE owner[x]]
Swaps(c, m, T, K, o2, g1, L2) ==
    /\ m \in InHand(cpu[c], conf) /\ T \subseteq Pool /\ K \subseteq T
    /\ o2 = Swapped(c, m, T) /\ g1 = [segs EXCEPT ![m] = {}]
    /\ L2 = [Live EXCEPT ![c] = (InHand(cpu[c], conf) \ {m}) \cup K]

LEMMA SwapIs ==
    ASSUME Held3, Good(owner, segs, Live), NEW c \in Cores, NEW m, NEW T, NEW K, NEW o2, NEW g1, NEW L2,
           Swaps(c, m, T, K, o2, g1, L2)
    PROVE  /\ o2 \in [Mbufs -> Places] /\ g1 \in [Mbufs -> SUBSET Mbufs] /\ L2 \in [Holders -> SUBSET Mbufs]
           /\ L2[c] = (InHand(cpu[c], conf) \ {m}) \cup K /\ \A p \in Holders : p # c => L2[p] = Live[p]
           /\ K = T => Good(o2, g1, L2) /\ (Full(owner, segs, Live) => Full(o2, g1, L2))
           /\ \A k, g2 : k \in T /\ K = {k} /\ Chained(g2, g1, k, T \ {k}) =>
                 Good(o2, g2, L2) /\ (Full(owner, segs, Live) => Full(o2, g2, L2))
<1>0. /\ m \in InHand(cpu[c], conf) /\ T \subseteq Pool /\ K \subseteq T
      /\ o2 = Swapped(c, m, T) /\ g1 = [segs EXCEPT ![m] = {}]
      /\ L2 = [Live EXCEPT ![c] = (InHand(cpu[c], conf) \ {m}) \cup K]
  BY DEF Swaps
<1>1. owner \in [Mbufs -> Places] /\ segs \in [Mbufs -> SUBSET Mbufs] /\ T \in SUBSET Mbufs
  BY <1>0 DEF Held3, HoldTypes, Pool
<1>2. Live \in [Holders -> SUBSET Mbufs] /\ Live[c] = InHand(cpu[c], conf) /\ c \in Holders /\ c \in Places /\ "pool" \in Places
  BY LiveIs DEF Held3, Holders, Places
<1>3. m \in Mbufs /\ Whole({m}) = Chain(segs, {m})
  <2>1. m \in Mbufs
    BY <1>0, <1>2
  <2> QED
    BY <2>1 DEF Whole, Chain
<1> DEFINE o1 == [x \in Mbufs |-> IF x \in Chain(segs, {m}) THEN "pool" ELSE owner[x]]
           L1 == [p \in Holders |-> IF p = c THEN Live[p] \ {m} ELSE Live[p]]
<1>4. Moved(o1, owner, Chain(segs, {m}), "pool") /\ Moved(o2, o1, T, c)
  BY <1>0, <1>1, <1>2, <1>3 DEF Moved, Swapped
<1>5. Cut(g1, segs, {m})
  BY <1>0, <1>1, <1>3 DEF Cut
<1>6. Fewer(L1, Live, c, {m}) /\ L1 \in [Holders -> SUBSET Mbufs]
  BY <1>2 DEF Fewer
<1>7. K \in SUBSET Mbufs
  BY <1>0, <1>1
<1>8. L2 \in [Holders -> SUBSET Mbufs] /\ L2[c] = (Live[c] \ {m}) \cup K /\ \A p \in Holders : p # c => L2[p] = Live[p]
  BY <1>0, <1>2, <1>7
<1>9. More(L2, L1, c, K)
  BY <1>6, <1>7, <1>8 DEF More
<1>10. Free(T, owner)
  BY <1>0, <1>1 DEF Pool, Free
<1>11. o2 \in [Mbufs -> Places] /\ g1 \in [Mbufs -> SUBSET Mbufs]
  BY <1>4, <1>5 DEF Moved, Cut
<1>12. m \in Live[c]
  BY <1>0, <1>2
<1> HIDE DEF o1, L1
<1>15. ASSUME More(L2, L1, c, T)
       PROVE  Good(o2, g1, L2) /\ (Full(owner, segs, Live) => Full(o2, g1, L2))
  BY <1>1, <1>2, <1>4, <1>5, <1>6, <1>10, <1>12, <1>15, SwapKeeps
<1>13. K = T => Good(o2, g1, L2) /\ (Full(owner, segs, Live) => Full(o2, g1, L2))
  BY <1>9, <1>15
<1>14. ASSUME NEW k, NEW g2, k \in T, K = {k}, Chained(g2, g1, k, T \ {k})
       PROVE  Good(o2, g2, L2) /\ (Full(owner, segs, Live) => Full(o2, g2, L2))
  <2>1. More(L2, L1, c, {k})
    BY <1>9, <1>14
  <2> QED
    BY <1>1, <1>2, <1>4, <1>5, <1>6, <1>10, <1>12, <1>14, <2>1, ReplaceKeeps
<1> QED
  BY <1>2, <1>8, <1>11, <1>13, <1>14

LEMMA GsoSegmentKeeps ==
    ASSUME Held3, NEW c \in Cores, GsoSegment(c), UNCHANGED fifo
    PROVE  Held3'
<1> DEFINE u == cpu[c]
           n == u.t + 1
           m == u.pkts[n]
<1>1. PICK k \in 1 .. 2 :
         /\ Cardinality(Pool) >= k
         /\ owner' = [x \in Mbufs |-> IF x \in Elements(FromPool(k)) THEN c ELSE IF x \in Whole({m}) THEN "pool" ELSE owner[x]]
         /\ cpu' = [cpu EXCEPT ![c] = [u EXCEPT !.tmp = u.tmp \o FromPool(k), !.t = n]]
  BY DEF GsoSegment
<1> DEFINE made == FromPool(k)
           T == Elements(made)
           p == u.tmp \o made
           r == [u EXCEPT !.tmp = p, !.t = n]
<1>2. /\ u.pc = "gso" /\ conf.gso /\ u.t < u.nb /\ UNCHANGED <<conf, gro, fifo>>
      /\ segs' = [segs EXCEPT ![m] = {}] /\ misused' = (misused \/ owner[m] # c)
      /\ cpu' = [cpu EXCEPT ![c] = r]
  BY <1>1 DEF GsoSegment, gvars
<1>3. /\ u \in CpuType /\ u.t \in Nat /\ u.nb \in Nat /\ u.pkts \in Seq(Mbufs) /\ u.tmp \in Seq(Mbufs)
      /\ Careful => NoneTwice(u, segs) /\ Good(owner, segs, Live) /\ misused = FALSE
      /\ Careful => \A x \in InHand(u, conf) : x \in Mbufs /\ owner[x] = c
  BY CoreKnows
<1>4. /\ conf.mode = "csum" /\ Careful /\ u.s \in Streams /\ conf.lcore[u.s] = c /\ Len(u.pkts) = u.nb
      /\ \A x, f : Room(x, f)
  BY <1>2, CsumKnows
<1>5. Apart(u.pkts) /\ Apart(u.tmp) /\ Part(u.pkts, u.t, Len(u.pkts)) \cap Elements(u.tmp) = {}
  BY <1>2, <1>3, <1>4 DEF NoneTwice
<1>6. /\ n \in 1 .. Len(u.pkts) /\ n <= Len(u.pkts) /\ n \in Nat /\ m \in Mbufs
      /\ Part(u.pkts, u.t, Len(u.pkts)) = {m} \cup Part(u.pkts, n, Len(u.pkts)) /\ m \notin Part(u.pkts, n, Len(u.pkts))
  <2> HIDE DEF u
  <2> QED
    BY <1>2, <1>3, <1>4, <1>5, NextOfBurst
<1>7. made \in Seq(Mbufs) /\ Apart(made) /\ T \subseteq Pool
  <2>1. k \in Nat /\ k <= Cardinality(Pool)
    BY <1>1, PoolHasOne
  <2> QED
    BY <2>1, PoolGives
<1>8. InHand(u, conf) = Part(u.pkts, u.t, Len(u.pkts)) \cup Elements(u.tmp)
  BY <1>2 DEF InHand, HoldsAll
<1>9. Joined(p, u.tmp, made)
  BY DEF Joined
<1>10. owner' = [x \in Mbufs |-> IF x \in T THEN c ELSE IF x \in Whole({m}) THEN "pool" ELSE owner[x]]
  BY <1>1
<1>11. \A x \in T : owner[x] = "pool"
  BY <1>7 DEF Pool
<1>12. T \cap Elements(u.tmp) = {} /\ T \in SUBSET Mbufs /\ T \cap Part(u.pkts, n, Len(u.pkts)) = {}
  <2> HIDE DEF T, u
  <2>1. \A x \in Elements(u.tmp) \cup Part(u.pkts, n, Len(u.pkts)) : owner[x] = c
    BY <1>3, <1>4, <1>6, <1>8
  <2>2. c # "pool"
    BY PlacesDiffer DEF Holders
  <2> QED
    BY <1>7, <1>11, <2>1, <2>2 DEF Pool
<1>13. m \in InHand(cpu[c], conf) /\ owner[m] = c
  BY <1>3, <1>4, <1>6, <1>8
<1> HIDE DEF u, n, m, made, p
<1>14. p \in Seq(Mbufs) /\ Elements(p) = Elements(u.tmp) \cup T /\ Apart(p)
  <2>1. p \in Seq(Mbufs) /\ Elements(p) = Elements(u.tmp) \cup T
    BY <1>3, <1>7, <1>9, JoinedIs
  <2>2. Apart(p)
    BY <1>3, <1>5, <1>7, <1>9, <1>12, JoinedIs
  <2> QED
    BY <2>1, <2>2
<1>15. r \in CpuType /\ r.pc = "gso" /\ r.s = u.s /\ r.pkts = u.pkts /\ r.nb = u.nb /\ r.t = n /\ r.tmp = p
  BY <1>2, <1>3, <1>6, <1>14 DEF CpuType
<1> HIDE DEF r, T
<1>16. Goes(c, r) /\ Fits(r, c, conf)
  BY <1>2, <1>4, <1>6, <1>15, CsumFits DEF Goes
<1>17. InHand(r, conf) = (InHand(u, conf) \ {m}) \cup T
  <2>1. InHand(r, conf) = Part(u.pkts, n, Len(u.pkts)) \cup Elements(p)
    BY <1>2, <1>15 DEF InHand, HoldsAll
  <2> QED
    BY <1>5, <1>6, <1>8, <1>14, <2>1
<1>18. NoneTwice(r, segs')
  <2>1. Part(u.pkts, n, Len(u.pkts)) \cap Elements(p) = {}
    BY <1>5, <1>6, <1>12, <1>14
  <2> QED
    BY <1>5, <1>14, <1>15, <2>1 DEF NoneTwice
<1> DEFINE o2 == Swapped(c, m, T)
           g1 == [segs EXCEPT ![m] = {}]
           L2 == [Live EXCEPT ![c] = (InHand(cpu[c], conf) \ {m}) \cup T]
<1>20. owner' = o2 /\ segs' = g1
  BY <1>2, <1>10 DEF Swapped
<1>19. T \subseteq Pool /\ m \in InHand(cpu[c], conf) /\ T \subseteq T /\ Good(owner, segs, Live)
  BY <1>3, <1>4, <1>7, <1>13 DEF T
<1>29. \A x \in Mbufs : segs[x] = {} => g1[x] = {}
  BY DEF Held3, HoldTypes
<1>28. Swaps(c, m, T, T, o2, g1, L2)
  BY <1>19 DEF Swaps
<1> HIDE DEF o2, g1, L2
<1>21. /\ o2 \in [Mbufs -> Places] /\ g1 \in [Mbufs -> SUBSET Mbufs] /\ L2 \in [Holders -> SUBSET Mbufs]
       /\ L2[c] = (InHand(cpu[c], conf) \ {m}) \cup T /\ \A q \in Holders : q # c => L2[q] = Live[q]
  BY <1>19, <1>28, SwapIs
<1>22. Good(o2, g1, L2) /\ (Full(owner, segs, Live) => Full(o2, g1, L2))
  BY <1>19, <1>28, SwapIs
<1>23. HoldTypes'
  <2>1. misused' \in BOOLEAN
    BY <1>2, <1>3, <1>4
  <2> QED
    BY <1>2, <1>4, <1>20, <1>21, <2>1 DEF Held3, HoldTypes
<1>24. misused' = FALSE
  BY <1>2, <1>3, <1>4, <1>13
<1>26. InHand(r, conf) = L2[c]
  BY <1>17, <1>21 DEF u
<1>27. Careful => /\ misused' = FALSE
                  /\ Good(owner', segs', L2) /\ InHand(r, conf) \subseteq L2[c]
                  /\ \A q \in Holders : q # c => L2[q] = Live[q]
                  /\ NoneTwice(r, segs') /\ Room(r, fifo)
                  /\ \A x \in Mbufs : owner[x] # c /\ segs[x] = {} /\ owner[x] # "pool" => segs'[x] = {}
  BY <1>4, <1>18, <1>20, <1>21, <1>22, <1>24, <1>26, <1>29
<1>30. Keeping /\ Full(owner, segs, Live) => Full(owner', segs', L2) /\ L2[c] = InHand(r, conf)
  BY <1>20, <1>22, <1>26
<1>31. UNCHANGED <<gro, fifo>>
  BY <1>2
<1> QED
  BY <1>16, <1>21, <1>23, <1>27, <1>30, <1>31, OwnGoes

LEMMA CopiedKeeps ==
    ASSUME Held3, NEW c \in Cores, Copied(c), UNCHANGED fifo
    PROVE  Held3'
<1> DEFINE u == cpu[c]
           n == u.t + 1
           m == u.pkts[n]
<1>1. PICK i \in 1 .. TxPktNbSegs :
         /\ Cardinality(Pool) >= i
         /\ owner' = [x \in Mbufs |-> IF x \in Elements(FromPool(i)) THEN c ELSE IF x \in Whole({m}) THEN "pool" ELSE owner[x]]
         /\ segs' = [segs EXCEPT ![m] = {}, ![FromPool(i)[1]] = Elements(Tail(FromPool(i)))]
         /\ cpu' = [cpu EXCEPT ![c] = [u EXCEPT !.pkts = [u.pkts EXCEPT ![n] = FromPool(i)[1]], !.t = n]]
  BY DEF Copied
<1> DEFINE md == FromPool(i)
           T == Elements(md)
           k == md[1]
           p == [u.pkts EXCEPT ![n] = k]
           r == [u EXCEPT !.pkts = p, !.t = n]
<1>2. /\ u.pc = "copy" /\ u.t < u.nb /\ UNCHANGED <<conf, gro, fifo>>
      /\ segs' = [segs EXCEPT ![m] = {}, ![k] = Elements(Tail(md))] /\ misused' = (misused \/ owner[m] # c)
      /\ cpu' = [cpu EXCEPT ![c] = r]
  BY <1>1 DEF Copied, gvars
<1>3. /\ u \in CpuType /\ u.t \in Nat /\ u.nb \in Nat /\ u.pkts \in Seq(Mbufs) /\ u.tmp \in Seq(Mbufs)
      /\ Careful => NoneTwice(u, segs) /\ Good(owner, segs, Live) /\ misused = FALSE
      /\ Careful => \A x \in InHand(u, conf) : x \in Mbufs /\ owner[x] = c
  BY CoreKnows
<1>4. /\ conf.mode = "csum" /\ Careful /\ u.s \in Streams /\ conf.lcore[u.s] = c /\ Len(u.pkts) = u.nb
      /\ u.tmp = << >> /\ \A x, f : Room(x, f)
  BY <1>2, CsumKnows
<1>5. Apart(u.pkts)
  BY <1>2, <1>3, <1>4 DEF NoneTwice
<1>6. n \in 1 .. Len(u.pkts) /\ n <= Len(u.pkts) /\ n \in Nat /\ m \in Mbufs /\ m \in Elements(u.pkts)
  <2> HIDE DEF u
  <2> QED
    BY <1>2, <1>3, <1>4, <1>5, NextOfBurst
<1>7. md \in Seq(Mbufs) /\ Apart(md) /\ T \subseteq Pool /\ k \in T /\ Elements(Tail(md)) = T \ {k}
  <2>1. i \in Nat /\ i <= Cardinality(Pool) /\ 1 <= i
    BY <1>1, PoolHasOne, BurstAssumption
  <2>2. md \in Seq(Mbufs) /\ Apart(md) /\ T \subseteq Pool /\ Len(md) = i
    BY <2>1, PoolGives
  <2>3. k \in T /\ Elements(Tail(md)) = T \ {k}
    <3> HIDE DEF md
    <3> QED
      BY <2>1, <2>2, TailIs
  <2> QED
    BY <2>2, <2>3
<1>8. InHand(u, conf) = Elements(u.pkts)
  BY <1>2 DEF InHand, HoldsAll
<1>10. owner' = [x \in Mbufs |-> IF x \in T THEN c ELSE IF x \in Whole({m}) THEN "pool" ELSE owner[x]]
  BY <1>1
<1>11. \A x \in T : owner[x] = "pool" /\ x \in Mbufs
  BY <1>7 DEF Pool
<1>12. T \in SUBSET Mbufs /\ k \in Mbufs /\ k \notin Elements(u.pkts)
  <2> HIDE DEF T, u, k
  <2>1. \A x \in Elements(u.pkts) : owner[x] = c
    BY <1>3, <1>4, <1>8
  <2>2. c # "pool"
    BY PlacesDiffer DEF Holders
  <2> QED
    BY <1>7, <1>11, <2>1, <2>2 DEF Pool
<1>13. m \in InHand(cpu[c], conf) /\ owner[m] = c
  BY <1>3, <1>4, <1>6, <1>8
<1>14. p \in Seq(Mbufs) /\ Len(p) = Len(u.pkts) /\ Elements(p) = (Elements(u.pkts) \ {m}) \cup {k} /\ Apart(p)
  <2> HIDE DEF u, n, k
  <2>1. p \in Seq(Mbufs) /\ Len(p) = Len(u.pkts)
    BY <1>3, <1>6, <1>12, PutIs
  <2>2. Elements(p) = (Elements(u.pkts) \ {m}) \cup {k}
    BY <1>3, <1>5, <1>6, <1>12, PutIs
  <2>3. Apart(p)
    BY <1>3, <1>5, <1>6, <1>12, PutIs
  <2> QED
    BY <2>1, <2>2, <2>3
<1> HIDE DEF u, n, m, md, p
<1>15. r \in CpuType /\ r.pc = "copy" /\ r.s = u.s /\ r.pkts = p /\ r.nb = u.nb /\ r.t = n /\ r.tmp = u.tmp
  BY <1>2, <1>3, <1>6, <1>14 DEF CpuType
<1> HIDE DEF r, T, k
<1>16. Goes(c, r) /\ Fits(r, c, conf)
  BY <1>2, <1>4, <1>6, <1>14, <1>15, CsumFits DEF Goes
<1>17. InHand(r, conf) = (InHand(u, conf) \ {m}) \cup {k}
  BY <1>8, <1>14, <1>15 DEF InHand, HoldsAll
<1>18. NoneTwice(r, segs')
  BY <1>4, <1>14, <1>15, EmptyIsApart, NothingTwice DEF NoneTwice, PairPcs
<1> DEFINE o2 == Swapped(c, m, T)
           g1 == [segs EXCEPT ![m] = {}]
           g2 == [segs EXCEPT ![m] = {}, ![k] = T \ {k}]
           K == {k}
           L2 == [Live EXCEPT ![c] = (InHand(cpu[c], conf) \ {m}) \cup K]
<1>20. owner' = o2 /\ segs' = g2
  BY <1>2, <1>7, <1>10 DEF Swapped, T
<1>19. T \subseteq Pool /\ m \in InHand(cpu[c], conf) /\ K \subseteq T /\ Good(owner, segs, Live) /\ k \in T
  BY <1>3, <1>4, <1>7, <1>13 DEF T
<1>29. segs \in [Mbufs -> SUBSET Mbufs]
  BY DEF Held3, HoldTypes
<1>21. Chained(g2, g1, k, T \ {k})
  BY <1>12, <1>29 DEF Chained
<1>22. \A x \in Mbufs : owner[x] # "pool" /\ segs[x] = {} => g2[x] = {}
  BY <1>11, <1>19, <1>29
<1>28. Swaps(c, m, T, K, o2, g1, L2)
  BY <1>19 DEF Swaps
<1> HIDE DEF o2, g1, g2, L2
<1>30. /\ o2 \in [Mbufs -> Places] /\ L2 \in [Holders -> SUBSET Mbufs]
       /\ L2[c] = (InHand(cpu[c], conf) \ {m}) \cup K /\ \A q \in Holders : q # c => L2[q] = Live[q]
  BY <1>19, <1>28, SwapIs
<1>31. Good(o2, g2, L2) /\ (Full(owner, segs, Live) => Full(o2, g2, L2))
  BY <1>19, <1>21, <1>28, SwapIs
<1>32. g2 \in [Mbufs -> SUBSET Mbufs]
  BY <1>21 DEF Chained
<1>23. HoldTypes'
  <2>1. misused' \in BOOLEAN
    BY <1>2, <1>3, <1>4
  <2> QED
    BY <1>2, <1>4, <1>20, <1>30, <1>32, <2>1 DEF Held3, HoldTypes
<1>24. misused' = FALSE
  BY <1>2, <1>3, <1>4, <1>13
<1>26. InHand(r, conf) = L2[c]
  BY <1>17, <1>30 DEF u
<1>27. Careful => /\ misused' = FALSE
                  /\ Good(owner', segs', L2) /\ InHand(r, conf) \subseteq L2[c]
                  /\ \A q \in Holders : q # c => L2[q] = Live[q]
                  /\ NoneTwice(r, segs') /\ Room(r, fifo)
                  /\ \A x \in Mbufs : owner[x] # c /\ segs[x] = {} /\ owner[x] # "pool" => segs'[x] = {}
  BY <1>4, <1>18, <1>20, <1>22, <1>30, <1>31, <1>24, <1>26
<1>33. Keeping /\ Full(owner, segs, Live) => Full(owner', segs', L2) /\ L2[c] = InHand(r, conf)
  BY <1>20, <1>31, <1>26
<1>34. UNCHANGED <<gro, fifo>>
  BY <1>2
<1> QED
  BY <1>16, <1>23, <1>27, <1>30, <1>33, <1>34, OwnGoes

\* What each holder knows of after a step of core c.
LEMMA LiveNext ==
    ASSUME CpuInv, NEW c \in Cores, NEW r, Goes(c, r)
    PROVE  /\ Live'[c] = InHand(r, conf) /\ \A d \in Cores : d # c => Live'[d] = Live[d]
           /\ Live'["gro"] = UNION {gro'[d] : d \in Cores} /\ Live'["fifo"] = Elements(fifo')
<1>1. /\ cpu'[c] = r /\ conf' = conf /\ \A d \in Cores : d # c => cpu'[d] = cpu[d]
  BY DEF CpuInv, Goes
<1>2. Live' = [p \in Holders |->
            IF p \in Cores THEN InHand(cpu'[p], conf)
            ELSE IF p = "gro" THEN UNION {gro'[d] : d \in Cores} ELSE Elements(fifo')]
  BY <1>1 DEF Live
<1>3. \A d \in Cores : d \in Holders /\ Live'[d] = InHand(cpu'[d], conf) /\ Live[d] = InHand(cpu[d], conf)
  BY <1>2 DEF Live, Holders
<1>4. "gro" \in Holders /\ "fifo" \in Holders /\ "gro" \notin Cores /\ "fifo" \notin Cores
  BY PlacesDiffer DEF Holders
<1> QED
  BY <1>1, <1>2, <1>3, <1>4

\* The table of core c takes what of the burst did not pass, or all of it comes out.
LEMMA GroContextKeeps ==
    ASSUME Held3, NEW c \in Cores, GroContext(c), UNCHANGED fifo
    PROVE  Held3'
<1> DEFINE u == cpu[c]
           H == Elements(u.pkts)
           flush == gro_times[u.s] + 1 >= GroFlushCycles
<1>1. PICK pass \in SUBSET H :
         /\ owner' = [m \in Mbufs |-> IF m \in Whole(gro[c] \cup (H \ pass)) THEN IF flush THEN c ELSE "gro" ELSE owner[m]]
         /\ gro' = [gro EXCEPT ![c] = IF flush THEN {} ELSE gro[c] \cup (H \ pass)]
         /\ cpu' = [cpu EXCEPT ![c] =
               [u EXCEPT !.pkts = Kept(u.pkts, pass) \o (IF flush THEN InOrder(gro[c] \cup (H \ pass)) ELSE << >>),
                         !.nb = Len(Kept(u.pkts, pass) \o (IF flush THEN InOrder(gro[c] \cup (H \ pass)) ELSE << >>)),
                         !.pc = "gso", !.t = 0]]
  BY DEF GroContext
<1> DEFINE B == H \ pass
           table == gro[c] \cup B
           q == Kept(u.pkts, pass)
           e == IF flush THEN InOrder(table) ELSE << >>
           left == q \o e
           n == Len(left)
           r == [u EXCEPT !.pkts = left, !.nb = n, !.pc = "gso", !.t = 0]
<1>2. /\ u.pc = "copy" /\ UNCHANGED <<conf, segs, fifo>> /\ cpu' = [cpu EXCEPT ![c] = r]
      /\ misused' = (misused \/ \E m \in H : owner[m] # c)
      /\ owner' = [m \in Mbufs |-> IF m \in Whole(table) THEN IF flush THEN c ELSE "gro" ELSE owner[m]]
      /\ gro' = [gro EXCEPT ![c] = IF flush THEN {} ELSE table]
  BY <1>1 DEF GroContext
<1>3. /\ u \in CpuType /\ u.pkts \in Seq(Mbufs)
      /\ Careful => NoneTwice(u, segs) /\ Good(owner, segs, Live) /\ misused = FALSE
      /\ Careful => \A m \in InHand(u, conf) : m \in Mbufs /\ owner[m] = c
  BY CoreKnows
<1>4. /\ conf.mode = "csum" /\ Careful /\ u.s \in Streams /\ conf.lcore[u.s] = c /\ Len(u.pkts) = u.nb
      /\ u.tmp = << >> /\ \A x, f : Room(x, f)
  BY <1>2, CsumKnows
<1>5. InHand(u, conf) = H
  BY <1>2 DEF InHand, HoldsAll
<1>6. owner \in [Mbufs -> Places] /\ segs \in [Mbufs -> SUBSET Mbufs] /\ gro \in [Cores -> SUBSET Mbufs]
  BY DEF Held3, HoldTypes
<1>7. \A d, f \in Cores : d # f => gro[d] \cap gro[f] = {}
  BY <1>4 DEF Held3, OwnInv
<1>8. /\ Live \in [Holders -> SUBSET Mbufs] /\ Live[c] = H /\ Live["gro"] = UNION {gro[d] : d \in Cores}
      /\ c \in Holders /\ "gro" \in Holders /\ c # "gro"
  BY <1>5, LiveIs, PlacesDiffer DEF Held3, Holders, u
<1>9. (\A d \in Cores : \A m \in gro[d] : owner[m] = "gro") /\ (\A m \in H : owner[m] = c)
  <2>1. Good(owner, segs, Live)
    BY <1>3, <1>4
  <2> QED
    BY <1>8, <2>1 DEF Good
<1>10. H \in SUBSET Mbufs /\ B \in SUBSET Mbufs /\ B \subseteq H /\ pass \subseteq H /\ pass \cap B = {} /\ H = pass \cup B
       /\ table \in SUBSET Mbufs /\ gro[c] \subseteq table /\ B \subseteq table
  BY <1>1, <1>6, <1>8
<1>11. pass \cap table = {}
  BY <1>8, <1>9, <1>10
<1> HIDE DEF u, flush
<1>12. q \in Seq(Mbufs) /\ Elements(q) = pass /\ Apart(q)
  <2>1. Apart(u.pkts)
    BY <1>3, <1>4 DEF NoneTwice
  <2>2. q \in Seq(Mbufs) /\ Elements(q) = H \cap pass /\ Apart(q)
    <3> HIDE DEF H
    <3> QED
      BY <1>3, <2>1, KeptIs DEF H
  <2> QED
    BY <1>10, <2>2
<1>13. e \in Seq(Mbufs) /\ Elements(e) = (IF flush THEN table ELSE {}) /\ Apart(e)
  <2> HIDE DEF table
  <2>1. CASE flush
    BY <1>10, <2>1, LinedUp
  <2>2. CASE ~flush
    BY <2>2, EmptyIsApart
  <2> QED
    BY <2>1, <2>2
<1>14. Joined(left, q, e)
  BY DEF Joined
<1> HIDE DEF q, e, left, table, B, H
<1>15. left \in Seq(Mbufs) /\ Elements(left) = pass \cup (IF flush THEN table ELSE {}) /\ Apart(left)
  <2>1. left \in Seq(Mbufs) /\ Elements(left) = Elements(q) \cup Elements(e)
    BY <1>12, <1>13, <1>14, JoinedIs
  <2>2. Elements(q) \cap Elements(e) = {}
    BY <1>11, <1>12, <1>13
  <2>3. Apart(left)
    BY <1>12, <1>13, <1>14, <2>2, JoinedIs
  <2> QED
    BY <1>12, <1>13, <2>1, <2>3
<1>16. n \in Nat /\ n = Len(left) /\ 0 <= n
  <2>1. Len(left) \in Nat
    BY <1>15
  <2> QED
    BY <2>1
<1> HIDE DEF n
<1>17. /\ r \in CpuType /\ r.pc = "gso" /\ r.s = u.s /\ r.pkts = left /\ r.nb = n /\ r.t = 0 /\ r.tmp = << >>
  BY <1>3, <1>4, <1>15, <1>16 DEF CpuType, Pcs
<1> HIDE DEF r
<1>18. Goes(c, r) /\ Fits(r, c, conf)
  <2>1. 0 <= r.nb /\ Len(r.pkts) = r.nb
    BY <1>16, <1>17
  <2> QED
    BY <1>2, <1>4, <1>17, <2>1, CsumFits DEF Goes
<1>19. InHand(r, conf) = pass \cup (IF flush THEN table ELSE {}) /\ NoneTwice(r, segs)
  BY <1>15, <1>17, GsoStarts
<1>20. /\ Live'[c] = InHand(r, conf) /\ \A d \in Cores : d # c => Live'[d] = Live[d]
       /\ Live'["gro"] = UNION {gro'[d] : d \in Cores} /\ Live'["fifo"] = Live["fifo"]
  <2>1. Live'["fifo"] = Elements(fifo') /\ Live["fifo"] = Elements(fifo)
    BY <1>18, LiveNext, LiveIs DEF Held3
  <2> QED
    BY <1>18, <2>1, LiveNext DEF Held3
<1>21. /\ gro' \in [Cores -> SUBSET Mbufs] /\ gro'[c] = (IF flush THEN {} ELSE table)
       /\ \A d \in Cores : d # c => gro'[d] = gro[d]
  BY <1>2, <1>6, <1>10
<1>22. Whole(table) = Chain(segs, table) /\ Chain(segs, table) = Chain(segs, gro[c]) \cup Chain(segs, B)
  BY <1>10 DEF Whole, Chain, table
<1>23. (\A m \in Chain(segs, B) : owner[m] = c) /\ (\A m \in Chain(segs, gro[c]) : owner[m] = "gro")
  <2>1. Good(owner, segs, Live)
    BY <1>3, <1>4
  <2>2. (\A m \in B : m \in Mbufs /\ owner[m] = c) /\ (\A m \in gro[c] : m \in Mbufs /\ owner[m] = "gro")
    BY <1>6, <1>9, <1>10
  <2> QED
    BY <2>1, <2>2 DEF Good, Chain
<1>24. owner' \in [Mbufs -> Places]
  <2>1. c \in Places /\ "gro" \in Places
    BY DEF Places
  <2> QED
    BY <1>2, <1>6, <2>1
<1> DEFINE from == IF flush THEN "gro" ELSE c
           to == IF flush THEN c ELSE "gro"
           S == IF flush THEN gro[c] ELSE B
           L2 == [p \in Holders |-> IF p = from THEN Live[p] \ S ELSE IF p = to THEN Live[p] \cup S ELSE Live[p]]
<1>25. from \in Holders /\ to \in Holders /\ from # to /\ S \subseteq Live[from] /\ S \in SUBSET Mbufs
  BY <1>6, <1>8, <1>10
<1>26. Handed(L2, Live, from, to, S)
  BY <1>8, <1>25 DEF Handed
<1>27. \A m \in Mbufs : owner'[m] = IF m \in Chain(segs, S) THEN to ELSE owner[m]
  <2>1. CASE flush
    BY <1>2, <1>22, <1>23, <2>1
  <2>2. CASE ~flush
    BY <1>2, <1>22, <1>23, <2>2
  <2> QED
    BY <2>1, <2>2
<1>28. L2[c] = InHand(r, conf) /\ L2["gro"] = Live'["gro"]
  <2>1. CASE flush
    <3>1. L2[c] = H \cup gro[c] /\ L2["gro"] = Live["gro"] \ gro[c]
      BY <1>8, <2>1
    <3>2. InHand(r, conf) = pass \cup table
      BY <1>19, <2>1
    <3>3. Live'["gro"] = UNION {gro[d] : d \in Cores \ {c}}
      BY <1>20, <1>21, <2>1
    <3>4. Live["gro"] \ gro[c] = UNION {gro[d] : d \in Cores \ {c}}
      BY <1>7, <1>8
    <3> QED
      BY <1>10, <3>1, <3>2, <3>3, <3>4 DEF table
  <2>2. CASE ~flush
    <3>1. L2[c] = H \ B /\ L2["gro"] = Live["gro"] \cup B
      BY <1>8, <2>2
    <3>2. InHand(r, conf) = pass
      BY <1>19, <2>2
    <3>3. Live'["gro"] = Live["gro"] \cup B
      BY <1>8, <1>20, <1>21, <2>2 DEF table
    <3> QED
      BY <1>10, <3>1, <3>2, <3>3
  <2> QED
    BY <2>1, <2>2
<1>29. \A p \in Holders : L2[p] = Live'[p]
  <2>1. \A d \in Cores : d # c => L2[d] = Live[d]
    BY <1>25, PlacesDiffer DEF Holders
  <2>2. L2["fifo"] = Live["fifo"]
    BY PlacesDiffer DEF Holders
  <2> HIDE DEF L2
  <2> QED
    BY <1>20, <1>28, <2>1, <2>2 DEF Holders
<1> HIDE DEF L2, S, from, to
<1>30. Good(owner', segs, L2) /\ (Full(owner, segs, Live) => Full(owner', segs, L2))
  <2>1. Good(owner, segs, Live)
    BY <1>3, <1>4
  <2>2. ASSUME NEW o2, o2 = owner'
        PROVE  Good(o2, segs, L2) /\ (Full(owner, segs, Live) => Full(o2, segs, L2))
    <3>1. Moved(o2, owner, Chain(segs, S), to)
      BY <1>24, <1>27, <2>2 DEF Moved
    <3> QED
      BY <1>6, <1>8, <1>25, <1>26, <2>1, <3>1, HandKeeps
  <2> QED
    BY <2>2
<1>31. misused' = FALSE
  BY <1>2, <1>3, <1>4, <1>9
<1>32. HoldTypes'
  BY <1>2, <1>4, <1>21, <1>24, <1>31 DEF Held3, HoldTypes
<1>33. SafeStep(c, r, L2)
  BY <1>2, <1>4, <1>19, <1>29, <1>30, <1>31 DEF SafeStep
<1>34. SafeQueues(c)
  <2>1. Apart(fifo')
    BY <1>2, <1>4 DEF Held3, OwnInv
  <2>2. ASSUME NEW d \in Cores, NEW f \in Cores, d # f PROVE gro'[d] \cap gro'[f] = {}
    <3>1. ASSUME NEW a \in Cores, a # c PROVE gro[a] \cap table = {}
      <4>1. gro[a] \cap gro[c] = {} /\ gro[a] \cap B = {}
        BY <1>7, <1>8, <1>9, <1>10, <3>1
      <4> QED
        BY <4>1 DEF table
    <3> QED
      BY <1>7, <1>21, <2>2, <3>1
  <2> QED
    BY <1>4, <2>1, <2>2 DEF SafeQueues
<1>35. FullStep(L2)
  BY <1>2, <1>29, <1>30 DEF FullStep
<1> QED
  BY <1>18, <1>32, <1>33, <1>34, <1>35, AnyGoes

-----------------------------------------------------------------------------
(* noisy. *)

LEMMA NoisyKnows ==
    ASSUME Held3, NEW c \in Cores, cpu[c].pc \in FirstPcs \cup FifoPcs
    PROVE  /\ conf.mode = "noisy" /\ cpu[c].s \in Streams /\ conf.lcore[cpu[c].s] = c
           /\ Len(cpu[c].pkts) = cpu[c].nb /\ cpu[c].nb <= NbPktPerBurst
           /\ cpu[c].pc \in FirstPcs => conf.bufsz = 0
           /\ cpu[c].pc \in FifoPcs => conf.bufsz > 0
           /\ \A m \in Mbufs : segs[m] = {}
<1>1. Fits(cpu[c], c, conf)
  BY CoreKnows
<1>2. cpu[c].pc # "idle" /\ cpu[c].pc # "prepare"
  BY DEF FirstPcs, FifoPcs
<1>3. conf.mode = "noisy" /\ (cpu[c].pc \in FirstPcs => conf.bufsz = 0) /\ (cpu[c].pc \in FifoPcs => conf.bufsz > 0)
  BY <1>1 DEF Fits, Serves
<1> QED
  BY <1>1, <1>2, <1>3 DEF Fits, Held3, HoldTypes

\* What is to be shown of the variables of a core of this engine.
NoisyIs(r, c, o) ==
    /\ r \in CpuType /\ r.s \in Streams /\ o.lcore[r.s] = c /\ Len(r.pkts) = r.nb /\ r.nb <= NbPktPerBurst
    /\ \/ r.pc \in FirstPcs /\ o.bufsz = 0
       \/ r.pc \in FifoPcs /\ o.bufsz > 0
    /\ r.pc \in {"retry first", "retry oldest", "retry flush"} => o.retry
    /\ r.pc \in {"retry flush", "drop flush", "flush on"} => o.flush

LEMMA NoisyFits ==
    ASSUME CpuInv, NEW c \in Cores, conf.mode = "noisy", NEW r, NoisyIs(r, c, conf),
           r.pc = "retry first" => r.tmp = r.pkts,
           r.pc = "refill" => Len(r.tmp) <= r.nb,
           r.pc \in {"retry first", "retry oldest"} => r.t <= r.nb,
           r.pc = "sent" => (~conf.retry => r.tx <= r.nb),
           r.pc = "drop" => (~conf.retry => r.tx <= Len(r.tmp)),
           r.pc \in {"retry flush", "drop flush"} => r.lim <= Len(r.tmp)
    PROVE  Fits(r, c, conf)
<1>1. r.pc \notin {"idle", "prepare", "alloc", "send", "finish", "copy", "gso", "filter", "generate", "discard", "ptp"}
  BY DEF NoisyIs, FirstPcs, FifoPcs
<1>2. conf.bufsz \in Nat
  BY ModeIs
<1>3. ~(r.pc \in FirstPcs /\ r.pc \in FifoPcs)
  BY DEF FirstPcs, FifoPcs
<1>4. Serves(r.pc, conf)
  BY <1>1, <1>2, <1>3 DEF Serves, NoisyIs
<1> QED
  BY <1>1, <1>4 DEF Fits, NoisyIs

LEMMA NoisyPollKeeps ==
    ASSUME Held3, NEW c \in Cores, NEW s \in Streams, NoisyPoll(c, s), UNCHANGED gro
    PROVE  Held3'
<1> DEFINE r == [IdleCpu EXCEPT !.pc = "flush", !.s = s]
<1>1. /\ conf.mode = "noisy" /\ Turn(c, s) /\ conf.flush /\ UNCHANGED <<conf, gro, fifo, owner, segs, misused>>
      /\ cpu' = [cpu EXCEPT ![c] = r]
  BY DEF NoisyPoll
<1>2. CpuInv /\ conf.bufsz > 0 /\ 0 <= NbPktPerBurst /\ Len(<< >>) = 0
  BY <1>1, ModeIs, BurstAssumption DEF Held3
<1>3. /\ r \in CpuType /\ r.pc = "flush" /\ r.s = s /\ r.pkts = << >> /\ r.nb = 0 /\ r.tx = 0 /\ r.tmp = << >>
  BY IdleIs DEF CpuType, Pcs, FifoPcs
<1> HIDE DEF r
<1>4. NoisyIs(r, c, conf)
  BY <1>1, <1>2, <1>3 DEF NoisyIs, Turn, FifoPcs
<1>5. Goes(c, r) /\ Fits(r, c, conf)
  BY <1>1, <1>2, <1>3, <1>4, NoisyFits DEF Goes
<1>6. InHand(r, conf) = {} /\ InHand(cpu[c], conf) = {}
  BY <1>1, <1>3 DEF InHand, HoldsAll, Turn
<1>7. NoneTwice(r, segs) /\ Room(r, fifo)
  BY <1>3, RoomElsewhere, EmptyIsApart, NothingTwice DEF PairPcs, RoomPcs
<1>8. Careful => InHand(r, conf) \subseteq InHand(cpu[c], conf) /\ NoneTwice(r, segs) /\ Room(r, fifo)
  BY <1>6, <1>7
<1>9. Keeping => InHand(r, conf) = InHand(cpu[c], conf)
  BY <1>6
<1> QED
  BY <1>1, <1>5, <1>8, <1>9, StayGoes

LEMMA FirstTryKeeps ==
    ASSUME Held3, NEW c \in Cores, FirstTry(c), UNCHANGED gro
    PROVE  Held3'
<1> DEFINE u == cpu[c]
           out == IF u.pc = "first" THEN u.pkts ELSE u.tmp
           n == Len(out)
<1>1. PICK k \in 0 .. n :
         /\ Give(c, Elements(SubSeq(out, 1, k)), "nic")
         /\ cpu' = [cpu EXCEPT ![c] =
               [u EXCEPT !.tx = k, !.t = k, !.tries = 0, !.tmp = out,
                         !.pc = IF k < u.nb /\ conf.retry
                                THEN IF u.pc = "first" THEN "retry first" ELSE "retry oldest"
                                ELSE IF u.pc = "first" THEN "sent" ELSE "drop"]]
  BY DEF FirstTry
<1> DEFINE pc == IF k < u.nb /\ conf.retry
                 THEN IF u.pc = "first" THEN "retry first" ELSE "retry oldest"
                 ELSE IF u.pc = "first" THEN "sent" ELSE "drop"
           r == [u EXCEPT !.tx = k, !.t = k, !.tries = 0, !.tmp = out, !.pc = pc]
           S == Elements(SubSeq(out, 1, k))
<1>2. /\ u.pc \in {"first", "oldest"} /\ UNCHANGED <<conf, gro, fifo>> /\ cpu' = [cpu EXCEPT ![c] = r]
      /\ Give(c, S, "nic") /\ "nic" \in Away
  BY <1>1 DEF FirstTry, Away
<1>3. /\ u \in CpuType /\ u.pkts \in Seq(Mbufs) /\ u.tmp \in Seq(Mbufs) /\ u.nb \in Nat
      /\ Careful => NoneTwice(u, segs) /\ Room(u, fifo)
  BY CoreKnows
<1>4. /\ conf.mode = "noisy" /\ u.s \in Streams /\ conf.lcore[u.s] = c /\ Len(u.pkts) = u.nb /\ u.nb <= NbPktPerBurst
      /\ u.pc = "first" => conf.bufsz = 0
      /\ u.pc = "oldest" => conf.bufsz > 0
  <2>1. u.pc \in FirstPcs \cup FifoPcs /\ (u.pc = "first" => u.pc \in FirstPcs) /\ (u.pc = "oldest" => u.pc \in FifoPcs)
    BY <1>2 DEF FirstPcs, FifoPcs
  <2> QED
    BY <2>1, NoisyKnows
<1>5. CpuInv /\ conf.retry \in BOOLEAN
  BY ModeIs DEF Held3
<1> HIDE DEF u
<1>6. out \in Seq(Mbufs) /\ n \in Nat /\ k \in Nat /\ k <= n /\ 0 <= k
  <2>1. out \in Seq(Mbufs)
    BY <1>3
  <2>2. n \in Nat
    BY <2>1
  <2> QED
    BY <1>1, <2>1, <2>2
<1>7. S = Part(out, 0, k)
  BY <1>6, FirstIsApart
<1>8. n = Len(out) /\ (u.pc = "first" => out = u.pkts) /\ (u.pc = "oldest" => out = u.tmp)
  BY <1>2
<1>9. InHand(u, conf) = Elements(out)
  BY <1>2, <1>8 DEF InHand, HoldsAll
<1>20. /\ pc \in {"retry first", "sent"} <=> u.pc = "first"
       /\ pc \in {"retry oldest", "drop"} <=> u.pc = "oldest"
       /\ pc \in {"retry first", "retry oldest"} => k < u.nb /\ conf.retry
       /\ pc \in {"retry first", "sent", "retry oldest", "drop"}
  BY <1>2
<1> HIDE DEF out, n, S, pc
<1>10. /\ r \in CpuType /\ r.pc = pc /\ r.s = u.s /\ r.pkts = u.pkts /\ r.nb = u.nb /\ r.tx = k /\ r.t = k /\ r.tmp = out
  <2>1. pc \in Pcs
    BY <1>20 DEF Pcs, FirstPcs, FifoPcs
  <2> QED
    BY <1>3, <1>6, <2>1 DEF CpuType
<1> HIDE DEF r
<1>11. NoisyIs(r, c, conf)
  <2>1. /\ pc \in {"retry first", "sent"} => pc \in FirstPcs
        /\ pc \in {"retry oldest", "drop"} => pc \in FifoPcs
        /\ pc \notin {"retry flush", "drop flush", "flush on"}
    BY <1>20 DEF FirstPcs, FifoPcs
  <2> QED
    BY <1>4, <1>10, <1>20, <2>1 DEF NoisyIs
<1>12. Goes(c, r) /\ Fits(r, c, conf)
  <2>0. (u.pc = "first" => n = u.nb) /\ Len(r.tmp) = n /\ r.tx = k /\ r.t = k /\ r.nb = u.nb /\ r.pc = pc
    BY <1>4, <1>8, <1>10
  <2>1. r.pc = "retry first" => r.tmp = r.pkts
    BY <1>8, <1>10, <1>20
  <2>2. r.pc \in {"retry first", "retry oldest"} => r.t <= r.nb
    <3>1. k < u.nb => k <= u.nb
      BY <1>3, <1>6
    <3> QED
      BY <1>20, <2>0, <3>1
  <2>3. r.pc = "sent" => r.tx <= r.nb
    BY <1>6, <1>20, <2>0
  <2>4. r.pc = "drop" => r.tx <= Len(r.tmp)
    BY <1>6, <2>0
  <2>5. r.pc \notin {"refill", "retry flush", "drop flush"}
    BY <1>20, <2>0
  <2>6. Fits(r, c, conf)
    BY <1>4, <1>5, <1>11, <2>1, <2>2, <2>3, <2>4, <2>5, NoisyFits
  <2> QED
    BY <1>2, <1>10, <2>6 DEF Goes
<1>13. InHand(r, conf) = Part(out, k, n)
  BY <1>8, <1>10, <1>20 DEF InHand, HoldsAll
<1>14. ASSUME Careful
       PROVE  /\ S \subseteq InHand(u, conf) /\ InHand(r, conf) = InHand(u, conf) \ S
              /\ NoneTwice(r, segs) /\ Room(r, fifo)
  <2>1. Apart(u.pkts) /\ Apart(u.tmp) /\ Apart(out)
    BY <1>2, <1>3, <1>8, <1>14 DEF NoneTwice
  <2>2. Elements(out) = Part(out, 0, n) /\ 0 \in Nat
    BY <1>6, <1>8, PartIs
  <2>3. S \subseteq InHand(u, conf) /\ InHand(r, conf) = InHand(u, conf) \ S
    BY <1>6, <1>7, <1>8, <1>9, <1>13, <2>1, <2>2, PartsDiffer
  <2>4. NoneTwice(r, segs)
    BY <1>10, <1>20, <2>1, NothingTwice DEF PairPcs
  <2>5. Room(r, fifo)
    BY <1>3, <1>8, <1>10, <1>14, <1>20 DEF Room
  <2> QED
    BY <2>3, <2>4, <2>5
<1>15. Careful => /\ S \subseteq InHand(cpu[c], conf)
                  /\ InHand(r, conf) \subseteq InHand(cpu[c], conf) \ S
                  /\ NoneTwice(r, segs) /\ Room(r, fifo)
  BY <1>14 DEF u
<1>16. Keeping => InHand(r, conf) = InHand(cpu[c], conf) \ S
  BY <1>14, KeepingIsCareful DEF u, Held3
<1> QED
  BY <1>2, <1>12, <1>15, <1>16, GiveGoes

LEMMA NoisySentKeeps ==
    ASSUME Held3, NEW c \in Cores, NoisySent(c), UNCHANGED gro
    PROVE  Held3'
<1> DEFINE S == Elements(Rest(cpu[c].pkts, cpu[c].tx))
<1>1. cpu[c].pc = "sent" /\ Give(c, S, "pool") /\ cpu' = [cpu EXCEPT ![c] = IdleCpu] /\ UNCHANGED <<conf, gro, fifo>>
  BY DEF NoisySent
<1>2. cpu[c].pkts \in Seq(Mbufs) /\ cpu[c].tx \in Nat
  BY CoreKnows
<1>3. S = InHand(cpu[c], conf)
  BY <1>1, <1>2, RestIs DEF InHand, HoldsAll
<1>4. "pool" \in Away
  BY DEF Away
<1> HIDE DEF S
<1> QED
  BY <1>1, <1>3, <1>4, EndsKeeps

LEMMA LookForRoomKeeps ==
    ASSUME Held3, NEW c \in Cores, LookForRoom(c), UNCHANGED gro
    PROVE  Held3'
<1> DEFINE u == cpu[c]
           pc == IF FreeCount >= u.nb THEN "store" ELSE "make room"
           r == [u EXCEPT !.pc = pc]
<1>1. /\ u.pc = "room" /\ UNCHANGED <<conf, gro, fifo, owner, segs, misused>> /\ cpu' = [cpu EXCEPT ![c] = r]
  BY DEF LookForRoom
<1>2. /\ u \in CpuType /\ u.nb \in Nat
      /\ Careful => NoneTwice(u, segs)
  BY CoreKnows
<1>3. /\ conf.mode = "noisy" /\ u.s \in Streams /\ conf.lcore[u.s] = c /\ Len(u.pkts) = u.nb /\ u.nb <= NbPktPerBurst
      /\ conf.bufsz > 0
  BY <1>1, NoisyKnows DEF FifoPcs
<1>4. FreeCount \in Int /\ FreeCount = conf.bufsz - Len(fifo) /\ CpuInv
  BY ModeIs DEF FreeCount, Held3, HoldTypes
<1>5. pc \in {"store", "make room"} /\ (pc = "store" => FreeCount >= u.nb) /\ (pc = "make room" => FreeCount < u.nb)
  BY <1>2, <1>4
<1> HIDE DEF u, pc
<1>6. r \in CpuType /\ r.pc = pc /\ r.s = u.s /\ r.pkts = u.pkts /\ r.nb = u.nb /\ r.tmp = u.tmp
  BY <1>2, <1>5 DEF CpuType, Pcs, FifoPcs
<1> HIDE DEF r
<1>7. NoisyIs(r, c, conf)
  BY <1>3, <1>5, <1>6 DEF NoisyIs, FifoPcs
<1>8. Goes(c, r) /\ Fits(r, c, conf)
  BY <1>1, <1>3, <1>4, <1>5, <1>6, <1>7, NoisyFits DEF Goes
<1>9. InHand(r, conf) = InHand(u, conf)
  BY <1>1, <1>5, <1>6 DEF InHand, HoldsAll
<1>10. Careful => InHand(r, conf) \subseteq InHand(cpu[c], conf) /\ NoneTwice(r, segs) /\ Room(r, fifo)
  <2>1. Careful => NoneTwice(r, segs)
    BY <1>2, <1>5, <1>6, NothingTwice DEF NoneTwice, PairPcs
  <2>2. Room(r, fifo)
    BY <1>4, <1>5, <1>6 DEF Room
  <2> QED
    BY <1>9, <2>1, <2>2 DEF u
<1>11. Keeping => InHand(r, conf) = InHand(cpu[c], conf)
  BY <1>9 DEF u
<1> QED
  BY <1>1, <1>8, <1>10, <1>11, StayGoes

\* A core of the FIFO that frees what it could not send.
LEMMA DropKeeps ==
    ASSUME Held3, NEW c \in Cores, DropOldest(c) \/ DropFlushed(c), UNCHANGED gro
    PROVE  Held3'
<1> DEFINE u == cpu[c]
           far == IF u.pc = "drop" THEN u.tx ELSE u.lim
           pc == IF u.pc = "drop" THEN "flush" ELSE "flush on"
           S == Elements(Rest(u.tmp, far))
           r == [u EXCEPT !.pc = pc]
<1>1. /\ u.pc \in {"drop", "drop flush"} /\ UNCHANGED <<conf, gro, fifo>> /\ cpu' = [cpu EXCEPT ![c] = r]
      /\ Give(c, S, "pool") /\ "pool" \in Away
  BY DEF DropOldest, DropFlushed, Away
<1>2. /\ u \in CpuType /\ u.nb \in Nat /\ u.tmp \in Seq(Mbufs) /\ u.tx \in Nat /\ u.lim \in Nat /\ Fits(u, c, conf)
      /\ Careful => NoneTwice(u, segs)
  BY CoreKnows
<1>3. /\ conf.mode = "noisy" /\ u.s \in Streams /\ conf.lcore[u.s] = c /\ Len(u.pkts) = u.nb /\ u.nb <= NbPktPerBurst
      /\ conf.bufsz > 0 /\ CpuInv
  BY <1>1, NoisyKnows DEF FifoPcs, Held3
<1>4. u.pc = "drop flush" => conf.flush
  BY <1>2 DEF Fits, Serves
<1>5. S = InHand(u, conf)
  BY <1>1, <1>2, RestIs DEF InHand, HoldsAll
<1>6. pc \in {"flush", "flush on"} /\ (pc = "flush on" => conf.flush)
  BY <1>1, <1>4
<1> HIDE DEF u, pc, S
<1>7. r \in CpuType /\ r.pc = pc /\ r.s = u.s /\ r.pkts = u.pkts /\ r.nb = u.nb /\ r.tmp = u.tmp
  BY <1>2, <1>6 DEF CpuType, Pcs, FifoPcs
<1> HIDE DEF r
<1>8. NoisyIs(r, c, conf)
  BY <1>3, <1>6, <1>7 DEF NoisyIs, FifoPcs
<1>9. Goes(c, r) /\ Fits(r, c, conf)
  BY <1>1, <1>3, <1>6, <1>7, <1>8, NoisyFits DEF Goes
<1>10. InHand(r, conf) = {}
  BY <1>6, <1>7 DEF InHand, HoldsAll
<1>11. Careful => NoneTwice(r, segs) /\ Room(r, fifo)
  BY <1>2, <1>6, <1>7, NothingTwice, RoomElsewhere DEF NoneTwice, PairPcs, RoomPcs
<1>12. Careful => /\ S \subseteq InHand(cpu[c], conf)
                  /\ InHand(r, conf) \subseteq InHand(cpu[c], conf) \ S
                  /\ NoneTwice(r, segs) /\ Room(r, fifo)
  BY <1>5, <1>10, <1>11 DEF u
<1>13. Keeping => InHand(r, conf) = InHand(cpu[c], conf) \ S
  BY <1>5, <1>10 DEF u
<1> QED
  BY <1>1, <1>9, <1>12, <1>13, GiveGoes

LEMMA NoisyLeavesKeeps ==
    ASSUME Held3, NEW c \in Cores, NoFlush(c) \/ Flushed(c), UNCHANGED gro
    PROVE  Held3'
<1>1. /\ cpu[c].pc \in {"flush", "flush on"} /\ UNCHANGED <<conf, gro, fifo, owner, segs, misused>>
      /\ cpu' = [cpu EXCEPT ![c] = IdleCpu]
  BY DEF NoFlush, Flushed
<1>2. InHand(cpu[c], conf) = {}
  BY <1>1 DEF InHand, HoldsAll
<1> QED
  BY <1>1, <1>2, LeavesKeeps

LEMMA PartShrinks ==
    ASSUME NEW q, NEW a \in Nat, NEW b \in Nat, a <= b, NEW n \in Nat
    PROVE  Part(q, b, n) \subseteq Part(q, a, n)
<1>1. (b + 1) .. n \subseteq (a + 1) .. n
  OBVIOUS
<1> QED
  BY <1>1 DEF Part

RetryPcs == {"retry first", "retry oldest", "retry flush"}

\* A core that tries again: which packets are meant, when it is careful.
LEMMA RetryKnows ==
    ASSUME Held3, NEW c \in Cores, NEW u, u = cpu[c], u.pc \in RetryPcs
    PROVE  /\ conf.mode = "noisy" /\ u.s \in Streams /\ conf.lcore[u.s] = c /\ Len(u.pkts) = u.nb /\ u.nb <= NbPktPerBurst
           /\ u.pc = "retry first" => conf.bufsz = 0 /\ u.tmp = u.pkts /\ u.t <= u.nb
           /\ u.pc # "retry first" => conf.bufsz > 0
           /\ u.pc = "retry oldest" => u.t <= u.nb
           /\ u.pc = "retry flush" => conf.flush /\ ~Careful /\ u.lim <= Len(u.tmp)
           /\ conf.retry /\ ~Keeping
           /\ Careful => Len(u.tmp) = u.nb /\ InHand(u, conf) = Part(u.tmp, u.t, Len(u.tmp)) /\ u.t <= u.nb
<1>1. /\ Fits(u, c, conf) /\ (Careful => Room(u, fifo))
  BY CoreKnows
<1>2. u.pc \in FirstPcs \cup FifoPcs /\ (u.pc = "retry first" => u.pc \in FirstPcs) /\ (u.pc # "retry first" => u.pc \in FifoPcs)
  BY DEF RetryPcs, FirstPcs, FifoPcs
<1>3. /\ conf.mode = "noisy" /\ u.s \in Streams /\ conf.lcore[u.s] = c /\ Len(u.pkts) = u.nb /\ u.nb <= NbPktPerBurst
      /\ u.pc = "retry first" => conf.bufsz = 0
      /\ u.pc # "retry first" => conf.bufsz > 0
  BY <1>2, NoisyKnows
<1>4. /\ conf.retry /\ (u.pc = "retry flush" => conf.flush /\ u.lim <= Len(u.tmp))
      /\ (u.pc = "retry first" => u.tmp = u.pkts) /\ (u.pc \in {"retry first", "retry oldest"} => u.t <= u.nb)
  BY <1>1 DEF Fits, Serves, RetryPcs
<1>5. ~Keeping
  BY <1>3, <1>4 DEF Keeping
<1>9. u.pc # "retry first" => conf.bufsz # 0
  <2>1. conf.bufsz \in Nat
    BY ModeIs DEF Held3
  <2>2. conf.bufsz > 0 => conf.bufsz # 0
    BY <2>1
  <2> QED
    BY <1>3, <2>2
<1>10. Careful /\ u.pc # "retry first" => ~conf.flush /\ AmpleFifo
  BY <1>3, <1>4, <1>9 DEF Careful
<1>6. u.pc = "retry flush" => ~Careful
  BY <1>4, <1>10
<1>7. ASSUME Careful, u.pc = "retry oldest" PROVE Len(u.tmp) = u.nb
  <2>1. Room(u, fifo) /\ AmpleFifo /\ conf.mode = "noisy"
    BY <1>1, <1>3, <1>7, <1>10
  <2> QED
    BY <1>7, <2>1 DEF Room
<1>8. Careful => Len(u.tmp) = u.nb /\ InHand(u, conf) = Part(u.tmp, u.t, Len(u.tmp)) /\ u.t <= u.nb
  BY <1>3, <1>4, <1>6, <1>7 DEF RetryPcs, InHand, HoldsAll
<1> QED
  BY <1>3, <1>4, <1>5, <1>6, <1>8

LEMMA DoRetryKeeps ==
    ASSUME Held3, NEW c \in Cores, DoRetry(c), UNCHANGED gro
    PROVE  Held3'
<1> DEFINE u == cpu[c]
<1>1. PICK k \in 0 .. (u.nb - u.t) :
         /\ Give(c, {At(u.tmp, i) : i \in (u.t + 1) .. (u.t + k)}, "nic")
         /\ cpu' = [cpu EXCEPT ![c] = [u EXCEPT !.t = u.t + k, !.tries = u.tries + 1]]
  BY DEF DoRetry
<1> DEFINE far == u.t + k
           more == u.tries + 1
           S == {At(u.tmp, i) : i \in (u.t + 1) .. far}
           r == [u EXCEPT !.t = far, !.tries = more]
<1>2. /\ u.pc \in RetryPcs /\ u.t < u.nb /\ UNCHANGED <<conf, gro, fifo>> /\ cpu' = [cpu EXCEPT ![c] = r]
      /\ Give(c, S, "nic") /\ "nic" \in Away /\ u = cpu[c]
  BY <1>1 DEF DoRetry, Away, RetryPcs
<1>3. /\ u \in CpuType /\ u.pkts \in Seq(Mbufs) /\ u.tmp \in Seq(Mbufs) /\ u.nb \in Nat /\ u.t \in Nat /\ u.tries \in Nat
      /\ Len(u.tmp) \in Nat /\ CpuInv
      /\ Careful => NoneTwice(u, segs) /\ Room(u, fifo)
  BY CoreKnows DEF Held3
<1> HIDE DEF u
<1>4. /\ conf.mode = "noisy" /\ u.s \in Streams /\ conf.lcore[u.s] = c /\ Len(u.pkts) = u.nb /\ u.nb <= NbPktPerBurst
      /\ u.pc = "retry first" => conf.bufsz = 0 /\ u.tmp = u.pkts /\ u.t <= u.nb
      /\ u.pc # "retry first" => conf.bufsz > 0
      /\ u.pc = "retry flush" => conf.flush /\ ~Careful /\ u.lim <= Len(u.tmp)
      /\ conf.retry /\ ~Keeping
      /\ Careful => Len(u.tmp) = u.nb /\ InHand(u, conf) = Part(u.tmp, u.t, Len(u.tmp)) /\ u.t <= u.nb
  BY <1>2, RetryKnows
<1>5. far \in Nat /\ more \in Nat /\ u.t <= far /\ far <= u.nb
  BY <1>1, <1>2, <1>3
<1>6. ASSUME Careful PROVE S = Part(u.tmp, u.t, far)
  <2>0. Len(u.tmp) = u.nb
    BY <1>4, <1>6
  <2> HIDE DEF far
  <2>1. \A i \in (u.t + 1) .. far : i <= Len(u.tmp)
    BY <1>3, <1>5, <2>0
  <2>2. \A i \in (u.t + 1) .. far : At(u.tmp, i) = u.tmp[i]
    BY <2>1 DEF At
  <2> QED
    BY <2>2 DEF Part
<1> HIDE DEF far, more, S
<1>7. /\ r \in CpuType /\ r.pc = u.pc /\ r.s = u.s /\ r.pkts = u.pkts /\ r.nb = u.nb /\ r.tmp = u.tmp /\ r.t = far
      /\ r.lim = u.lim
  BY <1>3, <1>5 DEF CpuType
<1> HIDE DEF r
<1>8. NoisyIs(r, c, conf)
  <2>1. (u.pc = "retry first" => u.pc \in FirstPcs) /\ (u.pc # "retry first" => u.pc \in FifoPcs)
    BY <1>2 DEF RetryPcs, FirstPcs, FifoPcs
  <2>2. u.pc \notin {"drop flush", "flush on"}
    BY <1>2 DEF RetryPcs
  <2> QED
    BY <1>4, <1>7, <2>1, <2>2 DEF NoisyIs
<1>9. Goes(c, r) /\ Fits(r, c, conf)
  <2>1. r.pc \notin {"refill", "sent", "drop", "drop flush"}
    BY <1>2, <1>7 DEF RetryPcs
  <2> QED
    BY <1>2, <1>3, <1>4, <1>5, <1>7, <1>8, <2>1, NoisyFits DEF Goes
<1>10. ASSUME Careful
       PROVE  /\ S \subseteq InHand(u, conf) /\ InHand(r, conf) = InHand(u, conf) \ S
              /\ NoneTwice(r, segs) /\ Room(r, fifo)
  <2>1. Apart(u.pkts) /\ Apart(u.tmp)
    BY <1>3, <1>10 DEF NoneTwice
  <2>2. r.pc \in {"retry first", "retry oldest"} /\ far <= Len(u.tmp)
    BY <1>2, <1>4, <1>5, <1>7, <1>10 DEF RetryPcs
  <2>3. InHand(r, conf) = Part(u.tmp, far, Len(u.tmp))
    BY <1>7, <2>2 DEF InHand, HoldsAll
  <2>4. S \subseteq InHand(u, conf) /\ InHand(r, conf) = InHand(u, conf) \ S
    <3>1. InHand(u, conf) = Part(u.tmp, u.t, Len(u.tmp)) /\ S = Part(u.tmp, u.t, far)
      BY <1>4, <1>6, <1>10
    <3> DEFINE q == u.tmp
               a == u.t
    <3>4. q \in Seq(Mbufs) /\ Apart(q) /\ a \in Nat /\ far \in Nat /\ a <= far /\ far <= Len(q)
      BY <1>3, <1>5, <2>1, <2>2
    <3> HIDE DEF q, a
    <3>5. Part(q, far, Len(q)) = Part(q, a, Len(q)) \ Part(q, a, far) /\ Part(q, a, far) \subseteq Part(q, a, Len(q))
      BY ONLY <3>4, PartsDiffer
    <3>2. Part(u.tmp, far, Len(u.tmp)) = Part(u.tmp, u.t, Len(u.tmp)) \ Part(u.tmp, u.t, far)
      BY <3>5 DEF q, a
    <3>3. Part(u.tmp, u.t, far) \subseteq Part(u.tmp, u.t, Len(u.tmp))
      BY <3>5 DEF q, a
    <3> QED
      BY <2>3, <3>1, <3>2, <3>3
  <2>5. NoneTwice(r, segs)
    BY <1>7, <2>1, <2>2, NothingTwice DEF PairPcs
  <2>6. Room(r, fifo)
    BY <1>3, <1>7, <1>10, <2>2 DEF Room
  <2> QED
    BY <2>4, <2>5, <2>6
<1>11. Careful => /\ S \subseteq InHand(cpu[c], conf)
                  /\ InHand(r, conf) \subseteq InHand(cpu[c], conf) \ S
                  /\ NoneTwice(r, segs) /\ Room(r, fifo)
  BY <1>10 DEF u
<1>12. Keeping => InHand(r, conf) = InHand(cpu[c], conf) \ S
  BY <1>4
<1> QED
  BY <1>2, <1>9, <1>11, <1>12, GiveGoes

LEMMA RetriedKeeps ==
    ASSUME Held3, NEW c \in Cores, Retried(c), UNCHANGED gro
    PROVE  Held3'
<1> DEFINE u == cpu[c]
           far == u.tx + u.t
           pc == CASE u.pc = "retry first" -> "sent"
                   [] u.pc = "retry oldest" -> "drop"
                   [] u.pc = "retry flush" -> "drop flush"
           r == [u EXCEPT !.tx = far, !.t = 0, !.tries = 0, !.pc = pc]
<1>2. /\ u.pc \in RetryPcs /\ UNCHANGED <<conf, gro, fifo, owner, segs, misused>> /\ cpu' = [cpu EXCEPT ![c] = r]
      /\ u = cpu[c]
  BY DEF Retried, RetryPcs
<1>3. /\ u \in CpuType /\ u.pkts \in Seq(Mbufs) /\ u.tmp \in Seq(Mbufs) /\ u.nb \in Nat /\ u.t \in Nat /\ u.tx \in Nat
      /\ Len(u.tmp) \in Nat /\ CpuInv
      /\ Careful => NoneTwice(u, segs) /\ Room(u, fifo)
  BY CoreKnows DEF Held3
<1> HIDE DEF u
<1>4. /\ conf.mode = "noisy" /\ u.s \in Streams /\ conf.lcore[u.s] = c /\ Len(u.pkts) = u.nb /\ u.nb <= NbPktPerBurst
      /\ u.pc = "retry first" => conf.bufsz = 0 /\ u.tmp = u.pkts /\ u.t <= u.nb
      /\ u.pc # "retry first" => conf.bufsz > 0
      /\ u.pc = "retry flush" => conf.flush /\ ~Careful /\ u.lim <= Len(u.tmp)
      /\ conf.retry /\ ~Keeping
      /\ Careful => Len(u.tmp) = u.nb /\ InHand(u, conf) = Part(u.tmp, u.t, Len(u.tmp)) /\ u.t <= u.nb
  BY <1>2, RetryKnows
<1>5. far \in Nat /\ u.t <= far
  BY <1>3
<1>6. /\ pc \in {"sent", "drop", "drop flush"}
      /\ pc = "sent" <=> u.pc = "retry first"
      /\ pc = "drop" <=> u.pc = "retry oldest"
      /\ pc = "drop flush" <=> u.pc = "retry flush"
  BY <1>2 DEF RetryPcs
<1> HIDE DEF far, pc
<1>7. /\ r \in CpuType /\ r.pc = pc /\ r.s = u.s /\ r.pkts = u.pkts /\ r.nb = u.nb /\ r.tmp = u.tmp /\ r.tx = far
      /\ r.lim = u.lim
  <2>1. pc \in Pcs
    BY <1>6 DEF Pcs, FirstPcs, FifoPcs
  <2> QED
    BY <1>3, <1>5, <2>1 DEF CpuType
<1> HIDE DEF r
<1>8. NoisyIs(r, c, conf)
  <2>1. (pc = "sent" => pc \in FirstPcs) /\ (pc # "sent" => pc \in FifoPcs) /\ pc \notin RetryPcs /\ pc # "flush on"
    BY <1>6 DEF RetryPcs, FirstPcs, FifoPcs
  <2> QED
    BY <1>4, <1>6, <1>7, <2>1 DEF NoisyIs, RetryPcs
<1>9. Goes(c, r) /\ Fits(r, c, conf)
  <2>1. r.pc \notin {"refill", "retry first", "retry oldest", "retry flush"}
    BY <1>6, <1>7
  <2> QED
    BY <1>2, <1>3, <1>4, <1>6, <1>7, <1>8, <2>1, NoisyFits DEF Goes
<1>10. ASSUME Careful
       PROVE  InHand(r, conf) \subseteq InHand(u, conf) /\ NoneTwice(r, segs) /\ Room(r, fifo)
  <2>1. Apart(u.pkts) /\ Apart(u.tmp)
    BY <1>3, <1>10 DEF NoneTwice
  <2>2. r.pc \in {"sent", "drop"}
    BY <1>4, <1>6, <1>7, <1>10
  <2>3. InHand(r, conf) = Part(u.tmp, far, Len(u.tmp))
    BY <1>4, <1>6, <1>7, <2>2 DEF InHand, HoldsAll
  <2>4. InHand(r, conf) \subseteq InHand(u, conf)
    <3>1. InHand(u, conf) = Part(u.tmp, u.t, Len(u.tmp))
      BY <1>4, <1>10
    <3>2. Part(u.tmp, far, Len(u.tmp)) \subseteq Part(u.tmp, u.t, Len(u.tmp))
      BY <1>3, <1>5, PartShrinks
    <3> QED
      BY <2>3, <3>1, <3>2
  <2>5. NoneTwice(r, segs)
    BY <1>7, <2>1, <2>2, NothingTwice DEF PairPcs
  <2>6. Room(r, fifo)
    BY <2>2, RoomElsewhere DEF RoomPcs
  <2> QED
    BY <2>4, <2>5, <2>6
<1>11. Careful => InHand(r, conf) \subseteq InHand(cpu[c], conf) /\ NoneTwice(r, segs) /\ Room(r, fifo)
  BY <1>10 DEF u
<1>12. Keeping => InHand(r, conf) = InHand(cpu[c], conf)
  BY <1>4
<1> QED
  BY <1>2, <1>9, <1>11, <1>12, StayGoes

\* An ample FIFO is used by one core: the others are in no call.
LEMMA OthersIdle ==
    ASSUME Held3, NEW c \in Cores, cpu[c].s \in Streams, conf.lcore[cpu[c].s] = c, NEW d \in Cores, d # c, NEW f
    PROVE  Room(cpu[d], f)
<1>1. Fits(cpu[d], d, conf)
  BY CoreKnows
<1>2. CASE AmpleFifo
  <2>1. cpu[d].pc = "idle"
    BY <1>1, <1>2 DEF Fits, AmpleFifo, OneCore
  <2> QED
    BY <2>1, RoomElsewhere DEF RoomPcs
<1>3. CASE ~AmpleFifo
  BY <1>3 DEF Room
<1> QED
  BY <1>2, <1>3

\* The engine has no chains: who holds what can be read off the owners.
LEMMA FifoKnows ==
    ASSUME Held3, NEW c \in Cores, cpu[c].pc \in FifoPcs
    PROVE  /\ Careful => /\ \A m \in InHand(cpu[c], conf) : m \in Mbufs /\ owner[m] = c
                         /\ \A m \in Elements(fifo) : m \in Mbufs /\ owner[m] = "fifo"
                         /\ Apart(fifo)
           /\ Keeping => /\ \A m \in Mbufs : owner[m] = c => m \in InHand(cpu[c], conf)
                         /\ \A m \in Mbufs : owner[m] = "fifo" => m \in Elements(fifo)
           /\ fifo \in Seq(Mbufs) /\ Len(fifo) \in Nat /\ conf.bufsz \in Nat /\ Len(fifo) <= conf.bufsz
           /\ c # "fifo" /\ c # "pool" /\ c # "nic" /\ c \in Places
<1>1. /\ Live[c] = InHand(cpu[c], conf) /\ Live["fifo"] = Elements(fifo) /\ c \in Holders /\ "fifo" \in Holders
      /\ Live \in [Holders -> SUBSET Mbufs]
  BY LiveIs DEF Held3, Holders
<1>2. Careful => Good(owner, segs, Live) /\ Apart(fifo)
  BY DEF Held3, OwnInv
<1>3. Keeping => Full(owner, segs, Live)
  BY DEF Held3, FullInv
<1>4. \A m \in Mbufs : segs[m] = {}
  BY NoisyKnows
<1>5. ASSUME Keeping, NEW p \in Holders, NEW m \in Mbufs, owner[m] = p PROVE m \in Live[p]
  <2>1. \A h \in Live[p] : h \in Mbufs
    BY <1>1
  <2> QED
    BY <1>3, <1>4, <1>5, <2>1 DEF Full
<1>6. fifo \in Seq(Mbufs) /\ Len(fifo) \in Nat /\ conf.bufsz \in Nat /\ Len(fifo) <= conf.bufsz
  BY ModeIs DEF Held3, HoldTypes
<1>7. c # "fifo" /\ c # "pool" /\ c # "nic" /\ c \in Places
  BY PlacesDiffer DEF Holders, Places
<1>8. Careful => /\ \A m \in InHand(cpu[c], conf) : m \in Mbufs /\ owner[m] = c
                 /\ \A m \in Elements(fifo) : m \in Mbufs /\ owner[m] = "fifo"
  BY <1>1, <1>2 DEF Good
<1>9. Keeping => /\ \A m \in Mbufs : owner[m] = c => m \in InHand(cpu[c], conf)
                 /\ \A m \in Mbufs : owner[m] = "fifo" => m \in Elements(fifo)
  BY <1>1, <1>5
<1> QED
  BY <1>2, <1>6, <1>7, <1>8, <1>9

\* A core that moves packets into the FIFO or out of it and goes on with r.
Moves(c, r) ==
    /\ Apart(fifo') /\ misused' = FALSE /\ NoneTwice(r, segs) /\ Room(r, fifo')
    /\ \A m \in InHand(r, conf) : owner'[m] = c
    /\ \A m \in Elements(fifo') : owner'[m] = "fifo"
    /\ \A m \in Mbufs : owner'[m] # owner[m] => owner[m] \in {c, "fifo"}
MovesAll(c, r) ==
    /\ \A m \in Mbufs : owner'[m] # owner[m] => owner'[m] \in {c, "fifo", "pool", "nic"}
    /\ \A m \in Mbufs : owner'[m] = c => m \in InHand(r, conf)
    /\ \A m \in Mbufs : owner'[m] = "fifo" => m \in Elements(fifo')

LEMMA FifoGoes ==
    ASSUME Held3, NEW c \in Cores, cpu[c].pc \in FifoPcs, NEW r, Goes(c, r), Fits(r, c, conf), UNCHANGED <<gro, segs>>,
           fifo' \in Seq(Mbufs), Len(fifo') <= conf.bufsz, owner' \in [Mbufs -> Places], misused' \in BOOLEAN,
           Careful => Moves(c, r), Keeping => MovesAll(c, r)
    PROVE  Held3'
<1>1. \A m \in Mbufs : segs[m] = {} /\ segs'[m] = {}
  BY NoisyKnows
<1>2. conf.mode = "noisy" /\ cpu[c].s \in Streams /\ conf.lcore[cpu[c].s] = c
  BY NoisyKnows
<1>3. HoldTypes'
  BY <1>2 DEF Held3, HoldTypes, Goes
<1>4. /\ Live'[c] = InHand(r, conf) /\ \A d \in Cores : d # c => Live'[d] = Live[d]
      /\ Live'["gro"] = UNION {gro'[d] : d \in Cores} /\ Live'["fifo"] = Elements(fifo')
  BY LiveNext DEF Held3
<1>5. /\ Live["gro"] = UNION {gro[d] : d \in Cores}
      /\ Live \in [Holders -> SUBSET Mbufs]
  BY LiveIs DEF Held3
<1>6. \A p \in Holders : p = c \/ p = "fifo" \/ Live'[p] = Live[p]
  BY <1>4, <1>5 DEF Holders
<1>7. r \in CpuType /\ InHand(r, conf) \in SUBSET Mbufs /\ Elements(fifo') \in SUBSET Mbufs /\ c \in Holders /\ "fifo" \in Holders
  BY InHandType DEF Goes, Holders, Elements
<1>8. SUFFICES ASSUME NEW L2, L2 = Live' PROVE Held3'
  OBVIOUS
<1>9. ASSUME Careful PROVE Good(owner', segs', L2)
  <2>1. Moves(c, r) /\ Good(owner, segs, Live)
    BY <1>9 DEF Held3, OwnInv
  <2>2. ASSUME NEW p \in Holders, NEW m \in L2[p] PROVE m \in Mbufs /\ owner'[m] = p
    <3>1. CASE p = c
      BY <1>4, <1>7, <1>8, <2>1, <2>2, <3>1 DEF Moves
    <3>2. CASE p = "fifo"
      BY <1>4, <1>7, <1>8, <2>1, <2>2, <3>2 DEF Moves
    <3>3. CASE p # c /\ p # "fifo"
      <4>1. m \in Live[p]
        BY <1>6, <1>8, <2>2, <3>3
      <4>2. m \in Mbufs /\ owner[m] = p
        BY <2>1, <4>1 DEF Good
      <4> QED
        BY <2>1, <3>3, <4>2 DEF Moves
    <3> QED
      BY <3>1, <3>2, <3>3
  <2> QED
    BY <1>1, <2>2 DEF Good
<1>10. ASSUME Keeping PROVE Full(owner', segs', L2)
  <2>1. MovesAll(c, r) /\ Full(owner, segs, Live)
    BY <1>10 DEF Held3, FullInv
  <2>2. ASSUME NEW p \in Holders, NEW m \in Mbufs, owner'[m] = p PROVE m \in L2[p]
    <3>1. CASE p = c
      BY <1>4, <1>8, <2>1, <2>2, <3>1 DEF MovesAll
    <3>2. CASE p = "fifo"
      BY <1>4, <1>8, <2>1, <2>2, <3>2 DEF MovesAll
    <3>3. CASE p # c /\ p # "fifo"
      <4>1. owner[m] = p
        BY <2>1, <2>2, <3>3, PlacesDiffer DEF MovesAll
      <4>2. \A h \in Live[p] : segs[h] = {}
        BY <1>1, <1>5
      <4>3. m \in Live[p]
        BY <2>1, <4>1, <4>2 DEF Full
      <4> QED
        BY <1>6, <1>8, <3>3, <4>3
    <3> QED
      BY <3>1, <3>2, <3>3
  <2> QED
    BY <2>2 DEF Full
<1>11. Careful => SafeStep(c, r, L2)
  <2>1. segs' = segs
    OBVIOUS
  <2> QED
    BY <1>8, <1>9, <2>1 DEF SafeStep, Moves
<1>12. Careful => SafeQueues(c)
  <2>1. \A d \in Cores : d # c => Room(cpu[d], fifo')
    BY <1>2, OthersIdle
  <2> QED
    BY <2>1 DEF SafeQueues, Moves, Held3, OwnInv
<1>13. Keeping => FullStep(L2)
  BY <1>8, <1>10 DEF FullStep
<1> QED
  BY <1>3, <1>11, <1>12, <1>13, AnyGoes

LEMMA RestIsApart ==
    ASSUME NEW T, NEW q \in Seq(T), NEW n \in Nat, n <= Len(q)
    PROVE  /\ Rest(q, n) \in Seq(T) /\ Len(Rest(q, n)) = Len(q) - n
           /\ Elements(Rest(q, n)) = Part(q, n, Len(q))
           /\ Apart(q) => Apart(Rest(q, n))
<1> DEFINE p == Rest(q, n)
           k == Len(q) - n
<1>1. Len(q) \in Nat /\ k \in Nat
  OBVIOUS
<1>2. p \in Seq(T) /\ Elements(p) = Part(q, n, Len(q))
  BY RestIs
<1>3. Len(p) = k
  BY <1>1, PartIs DEF Rest
<1>4. \A i \in 1 .. k : p[i] = q[n + i]
  BY <1>1 DEF Rest
<1>5. \A i \in 1 .. k : n + i \in 1 .. Len(q)
  BY <1>1
<1>6. ASSUME Apart(q) PROVE Apart(p)
  <2> SUFFICES ASSUME NEW i \in 1 .. k, NEW j \in 1 .. k, p[i] = p[j] PROVE i = j
    BY <1>3 DEF Apart
  <2>1. n + i = n + j
    BY <1>4, <1>5, <1>6 DEF Apart
  <2> QED
    BY <1>1, <2>1
<1> QED
  BY <1>2, <1>3, <1>6

LEMMA LeastIs ==
    ASSUME NEW a \in Nat, NEW b \in Nat
    PROVE  Least(a, b) \in Nat /\ Least(a, b) <= a /\ Least(a, b) <= b /\ (a <= b => Least(a, b) = a)
BY DEF Least

LEMMA StoreKeeps ==
    ASSUME Held3, NEW c \in Cores, Store(c), UNCHANGED gro
    PROVE  Held3'
<1> DEFINE u == cpu[c]
           free == FreeCount
           n == Least(u.nb, free)
           dropped == Elements(Rest(u.pkts, n))
           q == SubSeq(u.pkts, 1, n)
           f == fifo \o q
           r == [u EXCEPT !.pc = "flush"]
           H == Elements(u.pkts)
<1>1. /\ u.pc = "store" /\ UNCHANGED <<conf, gro, segs>> /\ fifo' = f /\ cpu' = [cpu EXCEPT ![c] = r]
      /\ owner' = [m \in Mbufs |-> IF m \in dropped THEN "pool" ELSE IF m \in H THEN "fifo" ELSE owner[m]]
      /\ misused' = (misused \/ \E m \in H : owner[m] # c)
      /\ u = cpu[c]
  BY DEF Store
<1>2. /\ u \in CpuType /\ u.pkts \in Seq(Mbufs) /\ u.nb \in Nat /\ CpuInv
      /\ Careful => NoneTwice(u, segs) /\ misused = FALSE
  BY CoreKnows DEF Held3
<1>3. /\ conf.mode = "noisy" /\ u.s \in Streams /\ conf.lcore[u.s] = c /\ Len(u.pkts) = u.nb /\ u.nb <= NbPktPerBurst
      /\ conf.bufsz > 0 /\ u.pc \in FifoPcs
  BY <1>1, NoisyKnows DEF FifoPcs
<1>4. /\ Careful => /\ \A m \in InHand(u, conf) : m \in Mbufs /\ owner[m] = c
                    /\ \A m \in Elements(fifo) : m \in Mbufs /\ owner[m] = "fifo"
                    /\ Apart(fifo)
      /\ Keeping => /\ \A m \in Mbufs : owner[m] = c => m \in InHand(u, conf)
                    /\ \A m \in Mbufs : owner[m] = "fifo" => m \in Elements(fifo)
      /\ fifo \in Seq(Mbufs) /\ Len(fifo) \in Nat /\ conf.bufsz \in Nat /\ Len(fifo) <= conf.bufsz
      /\ c # "fifo" /\ c # "pool" /\ c # "nic" /\ c \in Places
  BY <1>3, FifoKnows
<1>5. InHand(u, conf) = H
  BY <1>1 DEF InHand, HoldsAll
<1>6. free \in Nat /\ free = conf.bufsz - Len(fifo)
  BY <1>4 DEF FreeCount
<1> HIDE DEF u, free
<1>7. n \in Nat /\ n <= u.nb /\ n <= free
  BY <1>2, <1>6, LeastIs
<1> HIDE DEF n
<1>8. /\ q \in Seq(Mbufs) /\ Len(q) = n /\ Elements(q) = Part(u.pkts, 0, n) /\ (Apart(u.pkts) => Apart(q))
      /\ dropped = Part(u.pkts, n, Len(u.pkts)) /\ H = Part(u.pkts, 0, Len(u.pkts))
      /\ H \subseteq Mbufs
  <2>1. n <= Len(u.pkts) /\ Len(u.pkts) <= Len(u.pkts) /\ 0 \in Nat
    BY <1>2, <1>3, <1>7
  <2>2. q \in Seq(Mbufs) /\ Len(q) = n /\ Elements(q) = Part(u.pkts, 0, n) /\ (Apart(u.pkts) => Apart(q))
    BY <1>2, <1>7, <2>1, FirstIsApart
  <2>3. dropped = Part(u.pkts, n, Len(u.pkts))
    BY <1>2, <1>7, RestIs
  <2>4. H = Part(u.pkts, 0, Len(u.pkts)) /\ H \subseteq Mbufs
    BY <1>2, <1>3, <2>1, PartIs
  <2> QED
    BY <2>2, <2>3, <2>4
<1>9. Careful => dropped = H \ Elements(q) /\ Elements(q) \subseteq H
  <2>1. Careful => Apart(u.pkts)
    BY <1>2 DEF NoneTwice
  <2>2. 0 \in Nat /\ 0 <= n /\ n <= Len(u.pkts)
    BY <1>3, <1>7
  <2> QED
    BY <1>2, <1>7, <1>8, <2>1, <2>2, PartsDiffer
<1>10. Joined(f, fifo, q)
  BY DEF Joined
<1> HIDE DEF dropped, q, H, f
<1>11. f \in Seq(Mbufs) /\ Len(f) = Len(fifo) + n /\ Elements(f) = Elements(fifo) \cup Elements(q)
  BY <1>4, <1>8, <1>10, JoinedIs
<1>12. Len(f) <= conf.bufsz
  BY <1>4, <1>6, <1>7, <1>11
<1>13. Careful => Apart(f)
  <2> SUFFICES ASSUME Careful PROVE Apart(f)
    OBVIOUS
  <2>1. Apart(fifo) /\ Apart(q)
    BY <1>2, <1>4, <1>8 DEF NoneTwice
  <2>2. Elements(fifo) \cap Elements(q) = {}
    BY <1>4, <1>5, <1>9
  <2> QED
    BY <1>4, <1>8, <1>10, <2>1, <2>2, JoinedIs
<1>14. r \in CpuType /\ r.pc = "flush" /\ r.s = u.s /\ r.pkts = u.pkts /\ r.nb = u.nb /\ r.tmp = u.tmp
  BY <1>2 DEF CpuType, Pcs, FifoPcs
<1> HIDE DEF r
<1>15. NoisyIs(r, c, conf)
  BY <1>3, <1>14 DEF NoisyIs, FifoPcs
<1>16. Goes(c, r) /\ Fits(r, c, conf)
  BY <1>1, <1>2, <1>3, <1>14, <1>15, NoisyFits DEF Goes
<1>17. InHand(r, conf) = {}
  BY <1>14 DEF InHand, HoldsAll
<1>18. owner' \in [Mbufs -> Places] /\ misused' \in BOOLEAN
  <2>1. owner \in [Mbufs -> Places] /\ misused \in BOOLEAN
    BY DEF Held3, HoldTypes
  <2> QED
    BY <1>1, <2>1 DEF Places
<1>19. \A m \in Mbufs : owner'[m] = IF m \in dropped THEN "pool" ELSE IF m \in H THEN "fifo" ELSE owner[m]
  BY <1>1
<1>20. ASSUME Careful PROVE Moves(c, r)
  <2>1. misused' = FALSE
    BY <1>1, <1>2, <1>4, <1>5, <1>20
  <2>2. NoneTwice(r, segs) /\ Room(r, f)
    BY <1>2, <1>14, <1>20, NothingTwice, RoomElsewhere DEF NoneTwice, PairPcs, RoomPcs
  <2>3. \A m \in Elements(f) : owner'[m] = "fifo"
    BY <1>4, <1>5, <1>8, <1>9, <1>11, <1>19, <1>20
  <2>4. \A m \in Mbufs : owner'[m] # owner[m] => owner[m] \in {c, "fifo"}
    BY <1>4, <1>5, <1>9, <1>19, <1>20
  <2> QED
    BY <1>1, <1>13, <1>17, <1>20, <2>1, <2>2, <2>3, <2>4 DEF Moves
<1>21. ASSUME Keeping PROVE MovesAll(c, r)
  <2>1. Careful
    BY <1>2, <1>21, KeepingIsCareful
  <2>2. \A m \in Mbufs : owner'[m] # c
    BY <1>4, <1>5, <1>19, <1>21
  <2>3. \A m \in Mbufs : owner'[m] = "fifo" => m \in Elements(f)
    BY <1>4, <1>9, <1>11, <1>19, <1>21, <2>1
  <2>4. \A m \in Mbufs : owner'[m] # owner[m] => owner'[m] \in {c, "fifo", "pool", "nic"}
    BY <1>19
  <2> QED
    BY <1>1, <2>2, <2>3, <2>4 DEF MovesAll
<1>22. fifo' \in Seq(Mbufs) /\ Len(fifo') <= conf.bufsz /\ UNCHANGED <<gro, segs>> /\ cpu[c].pc \in FifoPcs
  BY <1>1, <1>3, <1>11, <1>12
<1> QED
  BY <1>16, <1>18, <1>20, <1>21, <1>22, FifoGoes

LEMMA MakeRoomKeeps ==
    ASSUME Held3, NEW c \in Cores, MakeRoom(c), UNCHANGED gro
    PROVE  Held3'
<1> DEFINE u == cpu[c]
           n == Least(u.nb, Len(fifo))
           out == SubSeq(fifo, 1, n)
           f == Rest(fifo, n)
           S == Elements(out)
           r == [u EXCEPT !.tmp = out, !.pc = "refill"]
<1>1. /\ u.pc = "make room" /\ UNCHANGED <<conf, gro, segs, misused>> /\ fifo' = f /\ cpu' = [cpu EXCEPT ![c] = r]
      /\ owner' = [m \in Mbufs |-> IF m \in S THEN c ELSE owner[m]]
      /\ u = cpu[c]
  BY DEF MakeRoom
<1>2. /\ u \in CpuType /\ u.pkts \in Seq(Mbufs) /\ u.nb \in Nat /\ CpuInv
      /\ Careful => NoneTwice(u, segs) /\ misused = FALSE /\ Room(u, fifo)
  BY CoreKnows DEF Held3
<1>3. /\ conf.mode = "noisy" /\ u.s \in Streams /\ conf.lcore[u.s] = c /\ Len(u.pkts) = u.nb /\ u.nb <= NbPktPerBurst
      /\ conf.bufsz > 0 /\ u.pc \in FifoPcs
  BY <1>1, NoisyKnows DEF FifoPcs
<1>4. /\ Careful => /\ \A m \in InHand(u, conf) : m \in Mbufs /\ owner[m] = c
                    /\ \A m \in Elements(fifo) : m \in Mbufs /\ owner[m] = "fifo"
                    /\ Apart(fifo)
      /\ Keeping => /\ \A m \in Mbufs : owner[m] = c => m \in InHand(u, conf)
                    /\ \A m \in Mbufs : owner[m] = "fifo" => m \in Elements(fifo)
      /\ fifo \in Seq(Mbufs) /\ Len(fifo) \in Nat /\ conf.bufsz \in Nat /\ Len(fifo) <= conf.bufsz
      /\ c # "fifo" /\ c # "pool" /\ c # "nic" /\ c \in Places
  BY <1>3, FifoKnows
<1>5. InHand(u, conf) = Elements(u.pkts)
  BY <1>1 DEF InHand, HoldsAll
<1> HIDE DEF u
<1>7. n \in Nat /\ n <= u.nb /\ n <= Len(fifo) /\ (u.nb <= Len(fifo) => n = u.nb)
  BY <1>2, <1>4, LeastIs
<1> HIDE DEF n
<1>8. /\ out \in Seq(Mbufs) /\ Len(out) = n /\ S = Part(fifo, 0, n) /\ (Apart(fifo) => Apart(out))
      /\ f \in Seq(Mbufs) /\ Len(f) = Len(fifo) - n /\ Elements(f) = Part(fifo, n, Len(fifo)) /\ (Apart(fifo) => Apart(f))
      /\ Elements(fifo) = Part(fifo, 0, Len(fifo))
  <2>1. out \in Seq(Mbufs) /\ Len(out) = n /\ S = Part(fifo, 0, n) /\ (Apart(fifo) => Apart(out))
    BY <1>4, <1>7, FirstIsApart
  <2>2. f \in Seq(Mbufs) /\ Len(f) = Len(fifo) - n /\ Elements(f) = Part(fifo, n, Len(fifo)) /\ (Apart(fifo) => Apart(f))
    BY <1>4, <1>7, RestIsApart
  <2>3. Elements(fifo) = Part(fifo, 0, Len(fifo))
    BY <1>4, AllIsPart
  <2> QED
    BY <2>1, <2>2, <2>3
<1>9. Careful => Elements(f) = Elements(fifo) \ S /\ S \subseteq Elements(fifo)
  <2>2. 0 \in Nat /\ 0 <= n
    BY <1>7
  <2> QED
    BY <1>4, <1>7, <1>8, <2>2, PartsDiffer
<1> HIDE DEF out, f, S
<1>14. r \in CpuType /\ r.pc = "refill" /\ r.s = u.s /\ r.pkts = u.pkts /\ r.nb = u.nb /\ r.tmp = out
  BY <1>2, <1>8 DEF CpuType, Pcs, FifoPcs
<1> HIDE DEF r
<1>15. NoisyIs(r, c, conf)
  BY <1>3, <1>14 DEF NoisyIs, FifoPcs
<1>16. Goes(c, r) /\ Fits(r, c, conf)
  BY <1>1, <1>2, <1>3, <1>7, <1>8, <1>14, <1>15, NoisyFits DEF Goes
<1>17. InHand(r, conf) = Elements(u.pkts) \cup S
  BY <1>14 DEF InHand, HoldsAll, S
<1>18. owner' \in [Mbufs -> Places] /\ misused' \in BOOLEAN
  <2>1. owner \in [Mbufs -> Places] /\ misused \in BOOLEAN
    BY DEF Held3, HoldTypes
  <2> QED
    BY <1>1, <1>4, <2>1
<1>19. \A m \in Mbufs : owner'[m] = IF m \in S THEN c ELSE owner[m]
  BY <1>1
<1>20. ASSUME Careful PROVE Moves(c, r)
  <2>1. misused' = FALSE
    BY <1>1, <1>2, <1>20
  <2>2. NoneTwice(r, segs)
    <3>1. Apart(u.pkts) /\ Apart(out) /\ Elements(u.pkts) \cap S = {}
      BY <1>2, <1>4, <1>5, <1>8, <1>9, <1>20 DEF NoneTwice
    <3> QED
      BY <1>14, <3>1 DEF NoneTwice, S
  <2>5. Room(r, f)
    <3> SUFFICES ASSUME AmpleFifo PROVE Len(out) = u.nb /\ conf.bufsz - Len(f) >= u.nb
      BY <1>14 DEF Room
    <3>1. conf.bufsz - Len(fifo) < u.nb /\ conf.bufsz >= 2 * NbPktPerBurst - 1
      BY <1>1, <1>2, <1>3, <1>20 DEF Room, AmpleFifo
    <3>2. NbPktPerBurst \in Nat
      BY BurstAssumption
    <3>3. u.nb <= Len(fifo)
      BY <1>2, <1>3, <1>4, <3>1, <3>2
    <3> QED
      BY <1>2, <1>4, <1>7, <1>8, <3>3
  <2>3. \A m \in Elements(f) : owner'[m] = "fifo"
    BY <1>4, <1>9, <1>19, <1>20
  <2>4. \A m \in Mbufs : owner'[m] # owner[m] => owner[m] \in {c, "fifo"}
    BY <1>4, <1>9, <1>19, <1>20
  <2>6. \A m \in InHand(r, conf) : owner'[m] = c
    BY <1>4, <1>5, <1>9, <1>17, <1>19, <1>20
  <2>7. Apart(f)
    BY <1>4, <1>8, <1>20
  <2> QED
    BY <1>1, <2>1, <2>2, <2>3, <2>4, <2>5, <2>6, <2>7 DEF Moves
<1>21. ASSUME Keeping PROVE MovesAll(c, r)
  <2>1. Careful
    BY <1>2, <1>21, KeepingIsCareful
  <2>2. \A m \in Mbufs : owner'[m] = c => m \in InHand(r, conf)
    BY <1>4, <1>5, <1>17, <1>19, <1>21
  <2>3. \A m \in Mbufs : owner'[m] = "fifo" => m \in Elements(f)
    BY <1>4, <1>9, <1>19, <1>21, <2>1
  <2>4. \A m \in Mbufs : owner'[m] # owner[m] => owner'[m] \in {c, "fifo", "pool", "nic"}
    BY <1>19
  <2> QED
    BY <1>1, <2>2, <2>3, <2>4 DEF MovesAll
<1>22. fifo' \in Seq(Mbufs) /\ Len(fifo') <= conf.bufsz /\ UNCHANGED <<gro, segs>> /\ cpu[c].pc \in FifoPcs
  <2>1. Len(f) <= conf.bufsz
    <3>1. Len(fifo) - n <= Len(fifo)
      BY <1>4, <1>7
    <3> QED
      BY <1>4, <1>7, <1>8, <3>1
  <2> QED
    BY <1>1, <1>3, <1>8, <2>1
<1> QED
  BY <1>16, <1>18, <1>20, <1>21, <1>22, FifoGoes

LEMMA RefillKeeps ==
    ASSUME Held3, NEW c \in Cores, Refill(c), UNCHANGED gro
    PROVE  Held3'
<1> DEFINE u == cpu[c]
           free == FreeCount
           n == Least(Len(u.tmp), free)
           q == SubSeq(u.pkts, 1, n)
           f == fifo \o q
           S == Elements(q)
           pc == IF u.tmp = << >> THEN "flush" ELSE "oldest"
           r == [u EXCEPT !.pc = pc]
           H == Elements(u.pkts)
<1>1. /\ u.pc = "refill" /\ UNCHANGED <<conf, gro>> /\ fifo' = f /\ cpu' = [cpu EXCEPT ![c] = r]
      /\ owner' = [m \in Mbufs |-> IF m \in Whole(S) THEN "fifo" ELSE owner[m]]
      /\ segs' = [m \in Mbufs |-> IF m \in S THEN {} ELSE segs[m]]
      /\ misused' = (misused \/ \E m \in S : m = Junk \/ owner[m] # c)
      /\ u = cpu[c]
  BY DEF Refill, Give
<1>2. /\ u \in CpuType /\ u.pkts \in Seq(Mbufs) /\ u.tmp \in Seq(Mbufs) /\ Len(u.tmp) \in Nat /\ u.nb \in Nat /\ CpuInv
      /\ Careful => NoneTwice(u, segs) /\ misused = FALSE /\ Room(u, fifo)
      /\ Fits(u, c, conf)
  BY CoreKnows DEF Held3
<1>3. /\ conf.mode = "noisy" /\ u.s \in Streams /\ conf.lcore[u.s] = c /\ Len(u.pkts) = u.nb /\ u.nb <= NbPktPerBurst
      /\ conf.bufsz > 0 /\ u.pc \in FifoPcs
      /\ \A m \in Mbufs : segs[m] = {}
  BY <1>1, NoisyKnows DEF FifoPcs
<1>4. /\ Careful => /\ \A m \in InHand(u, conf) : m \in Mbufs /\ owner[m] = c
                    /\ \A m \in Elements(fifo) : m \in Mbufs /\ owner[m] = "fifo"
                    /\ Apart(fifo)
      /\ Keeping => /\ \A m \in Mbufs : owner[m] = c => m \in InHand(u, conf)
                    /\ \A m \in Mbufs : owner[m] = "fifo" => m \in Elements(fifo)
      /\ fifo \in Seq(Mbufs) /\ Len(fifo) \in Nat /\ conf.bufsz \in Nat /\ Len(fifo) <= conf.bufsz
      /\ c # "fifo" /\ c # "pool" /\ c # "nic" /\ c \in Places
  BY <1>3, FifoKnows
<1>5. InHand(u, conf) = H \cup Elements(u.tmp)
  BY <1>1 DEF InHand, HoldsAll
<1>6. free \in Nat /\ free = conf.bufsz - Len(fifo) /\ Len(u.tmp) <= u.nb
  BY <1>1, <1>2, <1>4 DEF FreeCount, Fits
<1> HIDE DEF u, free
<1>7. n \in Nat /\ n <= u.nb /\ n <= free /\ (Len(u.tmp) <= free => n = Len(u.tmp))
  <2> DEFINE k == Len(u.tmp)
  <2>1. k \in Nat /\ free \in Nat /\ k <= u.nb
    BY <1>2, <1>6
  <2> HIDE DEF k
  <2>2. n \in Nat /\ n <= k /\ n <= free /\ (k <= free => n = k)
    BY <2>1, LeastIs DEF k
  <2>3. n <= u.nb
    BY <1>2, <2>1, <2>2
  <2> QED
    BY <2>2, <2>3 DEF k
<1>23. pc \in {"flush", "oldest"} /\ (pc = "flush" => u.tmp = << >>)
  OBVIOUS
<1> HIDE DEF n, pc
<1>8. /\ q \in Seq(Mbufs) /\ Len(q) = n /\ S = Part(u.pkts, 0, n) /\ (Apart(u.pkts) => Apart(q))
      /\ S \subseteq H /\ H \subseteq Mbufs /\ (n = u.nb => S = H)
  <2>1. n <= Len(u.pkts) /\ Len(u.pkts) <= Len(u.pkts) /\ 0 \in Nat
    BY <1>2, <1>3, <1>7
  <2>2. q \in Seq(Mbufs) /\ Len(q) = n /\ S = Part(u.pkts, 0, n) /\ (Apart(u.pkts) => Apart(q))
    BY <1>2, <1>7, <2>1, FirstIsApart
  <2>3. Part(u.pkts, 0, n) \subseteq H /\ H \subseteq Mbufs /\ H = Part(u.pkts, 0, Len(u.pkts))
    BY <1>2, <1>7, <2>1, PartIs
  <2> HIDE DEF q, S, H
  <2> QED
    BY <1>3, <2>2, <2>3
<1>10. Joined(f, fifo, q)
  BY DEF Joined
<1> HIDE DEF q, H, f
<1>11. f \in Seq(Mbufs) /\ Len(f) = Len(fifo) + n /\ Elements(f) = Elements(fifo) \cup S
  BY <1>4, <1>8, <1>10, JoinedIs
<1>12. Len(f) <= conf.bufsz
  BY <1>4, <1>6, <1>7, <1>11
<1>13. Careful => Apart(f)
  <2> SUFFICES ASSUME Careful PROVE Apart(f)
    OBVIOUS
  <2>1. Apart(fifo) /\ Apart(q)
    BY <1>2, <1>4, <1>8 DEF NoneTwice
  <2>2. Elements(fifo) \cap Elements(q) = {}
    BY <1>4, <1>5, <1>8
  <2> QED
    BY <1>4, <1>8, <1>10, <2>1, <2>2, JoinedIs
<1> HIDE DEF S
<1>24. segs' = segs /\ Whole(S) = S
  <2>1. segs \in [Mbufs -> SUBSET Mbufs]
    BY DEF Held3, HoldTypes
  <2>2. segs' = segs
    BY <1>1, <1>3, <2>1
  <2>3. Whole(S) = S
    BY <1>3 DEF Whole
  <2> QED
    BY <2>2, <2>3
<1>14. r \in CpuType /\ r.pc = pc /\ r.s = u.s /\ r.pkts = u.pkts /\ r.nb = u.nb /\ r.tmp = u.tmp
  BY <1>2, <1>23 DEF CpuType, Pcs, FifoPcs
<1> HIDE DEF r
<1>15. NoisyIs(r, c, conf)
  BY <1>3, <1>14, <1>23 DEF NoisyIs, FifoPcs
<1>16. Goes(c, r) /\ Fits(r, c, conf)
  BY <1>1, <1>2, <1>3, <1>14, <1>15, <1>23, NoisyFits DEF Goes
<1>17. InHand(r, conf) = Elements(u.tmp)
  BY <1>14, <1>23, EmptyIsApart DEF InHand, HoldsAll
<1>18. owner' \in [Mbufs -> Places] /\ misused' \in BOOLEAN
  <2>1. owner \in [Mbufs -> Places] /\ misused \in BOOLEAN
    BY DEF Held3, HoldTypes
  <2> QED
    BY <1>1, <2>1 DEF Places
<1>19. \A m \in Mbufs : owner'[m] = IF m \in S THEN "fifo" ELSE owner[m]
  BY <1>1, <1>24
<1>25. Careful => H \cap Elements(u.tmp) = {}
  BY <1>1, <1>2 DEF NoneTwice, H
<1>20. ASSUME Careful PROVE Moves(c, r)
  <2>1. misused' = FALSE
    <3>1. \A m \in S : m # Junk /\ owner[m] = c
      <4>1. Junk \notin Mbufs
        BY BurstAssumption DEF Mbufs, Junk
      <4> QED
        BY <1>4, <1>5, <1>8, <1>20, <4>1
    <3> QED
      BY <1>1, <1>2, <1>20, <3>1
  <2>2. NoneTwice(r, segs)
    BY <1>2, <1>14, <1>20, <1>23, NothingTwice DEF NoneTwice, PairPcs
  <2>5. Room(r, f)
    <3>1. AmpleFifo => Len(u.tmp) = u.nb
      BY <1>1, <1>2, <1>3, <1>20 DEF Room
    <3> QED
      BY <1>14, <1>23, <3>1 DEF Room
  <2>3. \A m \in Elements(f) : owner'[m] = "fifo"
    BY <1>4, <1>8, <1>11, <1>19, <1>20
  <2>4. \A m \in Mbufs : owner'[m] # owner[m] => owner[m] \in {c, "fifo"}
    BY <1>4, <1>5, <1>8, <1>19, <1>20
  <2>6. \A m \in InHand(r, conf) : owner'[m] = c
    <3>1. \A m \in Elements(u.tmp) : m \notin S /\ m \in Mbufs /\ owner[m] = c
      BY <1>4, <1>5, <1>8, <1>20, <1>25
    <3> QED
      BY <1>17, <1>19, <3>1
  <2> QED
    BY <1>1, <1>13, <1>20, <2>1, <2>2, <2>3, <2>4, <2>5, <2>6 DEF Moves
<1>21. ASSUME Keeping PROVE MovesAll(c, r)
  <2>1. Careful
    BY <1>2, <1>21, KeepingIsCareful
  <2>5. S = H
    <3>1. AmpleFifo
      <4>1. conf.bufsz # 0
        BY <1>3, <1>4
      <4> QED
        BY <1>3, <1>21, <4>1 DEF Keeping
    <3>2. Len(u.tmp) = u.nb /\ conf.bufsz - Len(fifo) >= u.nb
      BY <1>1, <1>2, <1>3, <2>1, <3>1 DEF Room
    <3>3. n = u.nb
      BY <1>2, <1>6, <1>7, <3>2
    <3> QED
      BY <1>8, <3>3
  <2>2. \A m \in Mbufs : owner'[m] = c => m \in InHand(r, conf)
    BY <1>4, <1>5, <1>17, <1>19, <1>21, <2>5
  <2>3. \A m \in Mbufs : owner'[m] = "fifo" => m \in Elements(f)
    BY <1>4, <1>11, <1>19, <1>21
  <2>4. \A m \in Mbufs : owner'[m] # owner[m] => owner'[m] \in {c, "fifo", "pool", "nic"}
    BY <1>19
  <2> QED
    BY <1>1, <2>2, <2>3, <2>4 DEF MovesAll
<1>22. fifo' \in Seq(Mbufs) /\ Len(fifo') <= conf.bufsz /\ UNCHANGED <<gro, segs>> /\ cpu[c].pc \in FifoPcs
  BY <1>1, <1>3, <1>11, <1>12, <1>24
<1> QED
  BY <1>16, <1>18, <1>20, <1>21, <1>22, FifoGoes

\* The FIFO is emptied: the port takes the first packets, the core keeps the others to drop them.
LEMMA FlushKeeps ==
    ASSUME Held3, NEW c \in Cores, Flush(c), UNCHANGED gro
    PROVE  Held3'
<1> DEFINE u == cpu[c]
<1>0. PICK n \in 0 .. Len(fifo) :
          /\ owner' = [m \in Mbufs |-> IF m \in Elements(SubSeq(fifo, 1, n)) THEN "nic"
                                       ELSE IF m \in Elements(fifo) THEN c ELSE owner[m]]
          /\ cpu' = [cpu EXCEPT ![c] =
                [u EXCEPT !.tmp = fifo, !.lim = n, !.t = u.tx, !.tries = 0,
                          !.pc = IF n < Len(fifo) /\ conf.retry THEN "retry flush" ELSE "drop flush"]]
  BY DEF Flush
<1> DEFINE S == Elements(SubSeq(fifo, 1, n))
           pc == IF n < Len(fifo) /\ conf.retry THEN "retry flush" ELSE "drop flush"
           r == [u EXCEPT !.tmp = fifo, !.lim = n, !.t = u.tx, !.tries = 0, !.pc = pc]
<1>1. /\ u.pc \in {"flush", "flush on"} /\ UNCHANGED <<conf, gro, segs>> /\ fifo' = << >> /\ cpu' = [cpu EXCEPT ![c] = r]
      /\ owner' = [m \in Mbufs |-> IF m \in S THEN "nic" ELSE IF m \in Elements(fifo) THEN c ELSE owner[m]]
      /\ misused' = (misused \/ \E m \in Elements(fifo) : owner[m] # "fifo")
      /\ u = cpu[c] /\ (u.pc = "flush" => conf.flush)
  BY <1>0 DEF Flush
<1>2. /\ u \in CpuType /\ u.pkts \in Seq(Mbufs) /\ u.tx \in Nat /\ CpuInv
      /\ Careful => NoneTwice(u, segs) /\ misused = FALSE
      /\ Fits(u, c, conf)
  BY CoreKnows DEF Held3
<1>3. /\ conf.mode = "noisy" /\ u.s \in Streams /\ conf.lcore[u.s] = c /\ Len(u.pkts) = u.nb /\ u.nb <= NbPktPerBurst
      /\ conf.bufsz > 0 /\ u.pc \in FifoPcs
  BY <1>1, NoisyKnows DEF FifoPcs
<1>4. /\ Careful => /\ \A m \in InHand(u, conf) : m \in Mbufs /\ owner[m] = c
                    /\ \A m \in Elements(fifo) : m \in Mbufs /\ owner[m] = "fifo"
                    /\ Apart(fifo)
      /\ Keeping => /\ \A m \in Mbufs : owner[m] = c => m \in InHand(u, conf)
                    /\ \A m \in Mbufs : owner[m] = "fifo" => m \in Elements(fifo)
      /\ fifo \in Seq(Mbufs) /\ Len(fifo) \in Nat /\ conf.bufsz \in Nat /\ Len(fifo) <= conf.bufsz
      /\ c # "fifo" /\ c # "pool" /\ c # "nic" /\ c \in Places
  BY <1>3, FifoKnows
<1>5. InHand(u, conf) = {}
  BY <1>1 DEF InHand, HoldsAll
<1>6. conf.flush
  BY <1>1, <1>2 DEF Fits, Serves
<1>7. n \in Nat /\ n <= Len(fifo) /\ 0 <= n /\ 0 \in Nat
  BY <1>0, <1>4
<1>23. pc \in {"retry flush", "drop flush"} /\ (pc = "retry flush" => conf.retry)
  OBVIOUS
<1>8. S = Part(fifo, 0, n) /\ Elements(fifo) = Part(fifo, 0, Len(fifo))
  BY <1>4, <1>7, FirstIsApart, AllIsPart
<1>9. Careful => Part(fifo, n, Len(fifo)) = Elements(fifo) \ S /\ S \subseteq Elements(fifo)
  BY <1>4, <1>7, <1>8, PartsDiffer
<1> HIDE DEF u, S, pc
<1>14. r \in CpuType /\ r.pc = pc /\ r.s = u.s /\ r.pkts = u.pkts /\ r.nb = u.nb /\ r.tmp = fifo /\ r.lim = n
  BY <1>2, <1>4, <1>7, <1>23 DEF CpuType, Pcs, FifoPcs
<1> HIDE DEF r
<1>15. NoisyIs(r, c, conf)
  BY <1>3, <1>6, <1>14, <1>23 DEF NoisyIs, FifoPcs
<1>16. Goes(c, r) /\ Fits(r, c, conf)
  BY <1>1, <1>2, <1>3, <1>7, <1>14, <1>15, <1>23, NoisyFits DEF Goes
<1>17. InHand(r, conf) = Part(fifo, n, Len(fifo))
  BY <1>14, <1>23 DEF InHand, HoldsAll
<1>18. owner' \in [Mbufs -> Places] /\ misused' \in BOOLEAN
  <2>1. owner \in [Mbufs -> Places] /\ misused \in BOOLEAN
    BY DEF Held3, HoldTypes
  <2> QED
    BY <1>1, <1>4, <2>1 DEF Places
<1>19. \A m \in Mbufs : owner'[m] = IF m \in S THEN "nic" ELSE IF m \in Elements(fifo) THEN c ELSE owner[m]
  BY <1>1
<1>10. Elements(fifo') = {} /\ Apart(fifo') /\ fifo' \in Seq(Mbufs) /\ Len(fifo') <= conf.bufsz
  <2>1. fifo' = << >>
    BY <1>1
  <2>2. << >> \in Seq(Mbufs) /\ Len(<< >>) = 0 /\ 0 <= conf.bufsz
    BY <1>4
  <2> QED
    BY <2>1, <2>2, EmptyIsApart
<1>20. ASSUME Careful PROVE Moves(c, r)
  <2>1. misused' = FALSE
    BY <1>1, <1>2, <1>4, <1>20
  <2>2. NoneTwice(r, segs) /\ Room(r, fifo')
    BY <1>2, <1>4, <1>14, <1>20, <1>23, NothingTwice, RoomElsewhere DEF NoneTwice, PairPcs, RoomPcs
  <2>3. \A m \in InHand(r, conf) : owner'[m] = c
    BY <1>4, <1>9, <1>17, <1>19, <1>20
  <2>4. \A m \in Mbufs : owner'[m] # owner[m] => owner[m] \in {c, "fifo"}
    BY <1>4, <1>9, <1>19, <1>20
  <2> QED
    BY <1>10, <2>1, <2>2, <2>3, <2>4 DEF Moves
<1>21. ASSUME Keeping PROVE MovesAll(c, r)
  <2>1. Careful
    BY <1>2, <1>21, KeepingIsCareful
  <2>2. \A m \in Mbufs : owner'[m] = c => m \in InHand(r, conf)
    BY <1>4, <1>5, <1>9, <1>17, <1>19, <1>21, <2>1
  <2>3. \A m \in Mbufs : owner'[m] # "fifo"
    BY <1>4, <1>19, <1>21
  <2>4. \A m \in Mbufs : owner'[m] # owner[m] => owner'[m] \in {c, "fifo", "pool", "nic"}
    BY <1>19
  <2> QED
    BY <2>2, <2>3, <2>4 DEF MovesAll
<1>22. UNCHANGED <<gro, segs>> /\ cpu[c].pc \in FifoPcs
  BY <1>1, <1>3
<1> QED
  BY <1>10, <1>16, <1>18, <1>20, <1>21, <1>22, FifoGoes

-----------------------------------------------------------------------------
(* The rest of the types: the flows of the packets and the counters.       *)

Counts == [rx : Nat, tx : Nat, dropped : Nat]

MiscInv ==
    /\ flow \in [Mbufs -> 0 .. NbFlows - 1]
    /\ fs \in [Streams -> Counts]
    /\ next_flow \in 0 .. NbFlows - 1
    /\ ip_var \in [Cores -> 0 .. NbFlows - 1]
    /\ gro_times \in [Streams -> 0 .. GroFlushCycles - 1]

LEMMA FlowNumber == 0 \in 0 .. NbFlows - 1 /\ \A i \in Int : i % NbFlows \in 0 .. NbFlows - 1
<1>1. NbFlows \in Nat /\ NbFlows # 0
  BY BurstAssumption
<1>2. \A i \in Int : i % NbFlows \in 0 .. NbFlows - 1
  BY <1>1, SMTT(30)
<1> QED
  BY <1>1, <1>2

LEMMA GiveFlow ==
    ASSUME MiscInv, NEW c, NEW S, NEW to, Give(c, S, to)
    PROVE  flow' \in [Mbufs -> 0 .. NbFlows - 1]
BY FlowNumber DEF MiscInv, Give

\* An action that counts nothing and generates nothing.
LEMMA SameCounts ==
    ASSUME MiscInv, UNCHANGED <<fs, next_flow, ip_var, gro_times>>,
           flow' = flow \/ \E c, S, to : Give(c, S, to)
    PROVE  MiscInv'
<1>1. flow' \in [Mbufs -> 0 .. NbFlows - 1]
  <2>1. CASE flow' = flow
    BY <2>1 DEF MiscInv
  <2>2. ASSUME NEW c, NEW S, NEW to, Give(c, S, to) PROVE flow' \in [Mbufs -> 0 .. NbFlows - 1]
    BY <2>2, GiveFlow
  <2> QED
    BY <2>1, <2>2
<1> QED
  BY <1>1 DEF MiscInv

LEMMA Counted ==
    ASSUME MiscInv, NEW s \in Streams, NEW a \in Nat, NEW b \in Nat,
           fs' = [fs EXCEPT ![s].tx = @ + a, ![s].dropped = @ + b]
    PROVE  /\ fs' \in [Streams -> Counts]
           /\ fs'[s].rx = fs[s].rx /\ fs'[s].tx = fs[s].tx + a /\ fs'[s].dropped = fs[s].dropped + b
           /\ \A x \in Streams : x # s => fs'[x] = fs[x]
<1> DEFINE f == [fs EXCEPT ![s].tx = @ + a]
<1>1. fs[s] \in Counts /\ fs \in [Streams -> Counts]
  BY DEF MiscInv
<1>2. [fs[s] EXCEPT !.tx = fs[s].tx + a] \in Counts /\ f = [fs EXCEPT ![s] = [fs[s] EXCEPT !.tx = fs[s].tx + a]]
  BY <1>1 DEF Counts
<1>3. /\ f \in [Streams -> Counts] /\ f[s].rx = fs[s].rx /\ f[s].tx = fs[s].tx + a /\ f[s].dropped = fs[s].dropped
      /\ \A x \in Streams : x # s => f[x] = fs[x]
  BY <1>1, <1>2 DEF Counts
<1>4. fs' = [f EXCEPT ![s].dropped = @ + b]
  BY <1>1, <1>3
<1> HIDE DEF f
<1>6. f[s] \in Counts
  BY <1>3
<1> DEFINE e == [f[s] EXCEPT !.dropped = f[s].dropped + b]
<1>5. e \in Counts /\ e.rx = f[s].rx /\ e.tx = f[s].tx /\ e.dropped = f[s].dropped + b
  BY <1>6 DEF Counts
<1>7. fs' = [f EXCEPT ![s] = e]
  BY <1>3, <1>4
<1> HIDE DEF e
<1> QED
  BY <1>1, <1>3, <1>5, <1>7

LEMMA CountedDrop ==
    ASSUME MiscInv, NEW s \in Streams, NEW b \in Nat, fs' = [fs EXCEPT ![s].dropped = @ + b]
    PROVE  fs' \in [Streams -> Counts]
<1>1. fs[s] \in Counts /\ fs \in [Streams -> Counts]
  BY DEF MiscInv
<1>2. /\ [fs[s] EXCEPT !.dropped = fs[s].dropped + b] \in Counts
      /\ fs' = [fs EXCEPT ![s] = [fs[s] EXCEPT !.dropped = fs[s].dropped + b]]
  BY <1>1 DEF Counts
<1> QED
  BY <1>1, <1>2

LEMMA ReceivedCount ==
    ASSUME MiscInv, NEW c, NEW s \in Streams, NEW n \in Nat, NEW pc, Receive(c, s, n, pc)
    PROVE  /\ fs' \in [Streams -> Counts]
           /\ fs'[s].rx = fs[s].rx + n /\ fs'[s].tx = fs[s].tx /\ fs'[s].dropped = fs[s].dropped
           /\ \A x \in Streams : x # s => fs'[x] = fs[x]
<1>1. fs[s] \in Counts /\ fs' = [fs EXCEPT ![s].rx = @ + n]
  BY DEF MiscInv, Receive
<1>2. [fs[s] EXCEPT !.rx = fs[s].rx + n] \in Counts /\ fs' = [fs EXCEPT ![s] = [fs[s] EXCEPT !.rx = fs[s].rx + n]]
  BY <1>1 DEF Counts
<1> QED
  BY <1>1, <1>2 DEF MiscInv, Counts

LEMMA ReceiveMisc ==
    ASSUME MiscInv, NEW c, NEW s \in Streams, NEW n \in Nat, NEW pc, Receive(c, s, n, pc), UNCHANGED gro_times
    PROVE  MiscInv'
BY ReceivedCount DEF MiscInv, Receive

LEMMA DropCountIs ==
    ASSUME NEW n \in Nat, NEW tx \in Nat
    PROVE  DropCount(n, tx) \in Nat
<1>1. WordMod \in Nat /\ WordMod # 0
  BY WordAssumption
<1>2. \A i \in Int : i % WordMod \in Nat
  BY <1>1, SMTT(30)
<1> QED
  BY <1>2 DEF DropCount

-----------------------------------------------------------------------------
LEMMA FinishMisc ==
    ASSUME Held3, MiscInv, NEW c \in Cores, Finish(c), UNCHANGED gro_times
    PROVE  MiscInv'
<1> DEFINE u == cpu[c]
           left == u.nb - u.tx
           lost == IF conf.mode = "flowgen" THEN 0 ELSE left
<1>1. u \in CpuType /\ Fits(u, c, conf) /\ u.tx \in Nat /\ u.nb \in Nat /\ u.pc = "finish"
  BY CoreKnows DEF Finish
<1>2. u.s \in Streams /\ u.tx <= u.nb
  BY <1>1 DEF Fits
<1>3. left \in Nat /\ lost \in Nat
  BY <1>1, <1>2
<1>4. /\ fs' = [fs EXCEPT ![u.s].tx = @ + u.tx, ![u.s].dropped = @ + lost]
      /\ next_flow' = IF conf.mode = "flowgen" THEN (next_flow - left) % NbFlows ELSE next_flow
      /\ ip_var' = IF conf.mode = "txonly" THEN [ip_var EXCEPT ![c] = (@ - left) % NbFlows] ELSE ip_var
      /\ Give(c, Elements(Rest(u.pkts, u.tx)), "pool")
  BY DEF Finish
<1> HIDE DEF u, left, lost
<1>5. fs' \in [Streams -> Counts]
  BY <1>1, <1>2, <1>3, <1>4, Counted
<1>6. next_flow' \in 0 .. NbFlows - 1
  <2>1. next_flow - left \in Int
    BY <1>3 DEF MiscInv
  <2> QED
    BY <1>4, <2>1, FlowNumber DEF MiscInv
<1>7. ip_var' \in [Cores -> 0 .. NbFlows - 1]
  <2>1. ip_var[c] - left \in Int
    BY <1>3 DEF MiscInv
  <2>2. (ip_var[c] - left) % NbFlows \in 0 .. NbFlows - 1
    BY <2>1, FlowNumber
  <2> QED
    BY <1>4, <2>2 DEF MiscInv
<1>8. flow' \in [Mbufs -> 0 .. NbFlows - 1]
  BY <1>4, GiveFlow
<1> QED
  BY <1>5, <1>6, <1>7, <1>8 DEF MiscInv

LEMMA PtpMisc ==
    ASSUME Held3, MiscInv, NEW c \in Cores, PtpSync(c), UNCHANGED gro_times
    PROVE  MiscInv'
<1>1. PICK taken \in BOOLEAN :
          /\ Give(c, Elements(cpu[c].pkts), IF taken THEN "nic" ELSE "pool")
          /\ fs' = [fs EXCEPT ![cpu[c].s].tx = @ + 1, ![cpu[c].s].dropped = @ + (IF taken THEN 0 ELSE 1)]
  BY DEF PtpSync
<1> DEFINE s == cpu[c].s
           b == IF taken THEN 0 ELSE 1
<1>2. Fits(cpu[c], c, conf) /\ cpu[c].pc = "ptp"
  BY CoreKnows DEF PtpSync
<1>3. s \in Streams /\ b \in Nat /\ 1 \in Nat
  BY <1>2 DEF Fits
<1>4. fs' = [fs EXCEPT ![s].tx = @ + 1, ![s].dropped = @ + b]
  BY <1>1
<1> HIDE DEF s, b
<1>5. fs' \in [Streams -> Counts]
  BY <1>3, <1>4, Counted
<1>6. flow' \in [Mbufs -> 0 .. NbFlows - 1]
  BY <1>1, GiveFlow
<1> QED
  BY <1>5, <1>6 DEF MiscInv, PtpSync

LEMMA GenerateMisc ==
    ASSUME MiscInv, NEW c \in Cores, Prepare(c) \/ Generate(c), UNCHANGED gro_times
    PROVE  MiscInv'
<1>1. /\ ip_var[c] \in 0 .. NbFlows - 1 /\ (ip_var[c] + 1) % NbFlows \in 0 .. NbFlows - 1
      /\ (next_flow + 1) % NbFlows \in 0 .. NbFlows - 1
  <2>1. ip_var[c] \in 0 .. NbFlows - 1 /\ ip_var[c] + 1 \in Int /\ next_flow + 1 \in Int
    BY DEF MiscInv
  <2> QED
    BY <2>1, FlowNumber
<1>2. CASE Prepare(c)
  <2>1. PICK n : flow' = [flow EXCEPT ![cpu[c].pkts[n]] = ip_var[c]]
    BY <1>2 DEF Prepare
  <2>2. flow' \in [Mbufs -> 0 .. NbFlows - 1]
    BY <1>1, <2>1 DEF MiscInv
  <2>3. ip_var' = [ip_var EXCEPT ![c] = (@ + 1) % NbFlows] /\ UNCHANGED <<fs, next_flow>>
    BY <1>2 DEF Prepare
  <2> QED
    BY <1>1, <2>2, <2>3 DEF MiscInv
<1>3. CASE Generate(c)
  <2>1. /\ flow' = [flow EXCEPT ![FromPool(1)[1]] = next_flow]
        /\ next_flow' = (next_flow + 1) % NbFlows /\ UNCHANGED <<fs, ip_var>>
    BY <1>3 DEF Generate
  <2>2. flow' \in [Mbufs -> 0 .. NbFlows - 1]
    BY <2>1 DEF MiscInv
  <2> QED
    BY <1>1, <2>1, <2>2 DEF MiscInv
<1> QED
  BY <1>2, <1>3

LEMMA GroMisc ==
    ASSUME Held3, MiscInv, NEW c \in Cores, GroContext(c)
    PROVE  MiscInv'
<1>1. cpu[c].s \in Streams /\ cpu[c].pc = "copy"
  BY CsumKnows DEF GroContext
<1> DEFINE s == cpu[c].s
           k == IF gro_times[s] + 1 >= GroFlushCycles THEN 0 ELSE gro_times[s] + 1
<1>2. gro_times[s] \in 0 .. GroFlushCycles - 1 /\ GroFlushCycles \in Nat \ {0}
  BY <1>1, GroAssumption DEF MiscInv
<1>3. k \in 0 .. GroFlushCycles - 1
  BY <1>2
<1>4. gro_times' = [gro_times EXCEPT ![s] = k] /\ UNCHANGED <<flow, fs, next_flow, ip_var>>
  BY DEF GroContext
<1> HIDE DEF s, k
<1> QED
  BY <1>3, <1>4 DEF MiscInv

LEMMA NoisyCounts ==
    ASSUME Held3, MiscInv, NEW c \in Cores, NoisySent(c) \/ DropOldest(c) \/ DropFlushed(c), UNCHANGED gro_times
    PROVE  MiscInv'
<1> DEFINE u == cpu[c]
           s == u.s
<1>1. /\ s \in Streams /\ u.tx \in Nat /\ u.nb \in Nat /\ u.lim \in Nat /\ Len(u.tmp) \in Nat
  <2>1. u.pc \in FirstPcs \cup FifoPcs
    BY DEF NoisySent, DropOldest, DropFlushed, FirstPcs, FifoPcs
  <2> QED
    BY <2>1, NoisyKnows, CoreKnows
<1>2. ASSUME NoisySent(c) PROVE fs' \in [Streams -> Counts]
  <2>1. DropCount(u.nb, u.tx) \in Nat
    BY <1>1, DropCountIs
  <2>2. fs' = [fs EXCEPT ![s].tx = @ + u.tx, ![s].dropped = @ + DropCount(u.nb, u.tx)]
    BY <1>2 DEF NoisySent
  <2> HIDE DEF s, u
  <2> QED
    BY <1>1, <2>1, <2>2, Counted
<1>7. ASSUME DropOldest(c) PROVE fs' \in [Streams -> Counts]
  <2>1. DropCount(Len(u.tmp), u.tx) \in Nat
    BY <1>1, DropCountIs
  <2>2. fs' = [fs EXCEPT ![s].dropped = @ + DropCount(Len(u.tmp), u.tx)]
    BY <1>7 DEF DropOldest
  <2> HIDE DEF s, u
  <2> QED
    BY <1>1, <2>1, <2>2, CountedDrop
<1>8. ASSUME DropFlushed(c) PROVE fs' \in [Streams -> Counts]
  <2>1. DropCount(Len(u.tmp), u.lim) \in Nat
    BY <1>1, DropCountIs
  <2>2. fs' = [fs EXCEPT ![s].dropped = @ + DropCount(Len(u.tmp), u.lim)]
    BY <1>8 DEF DropFlushed
  <2> HIDE DEF s, u
  <2> QED
    BY <1>1, <2>1, <2>2, CountedDrop
<1>3. \E S : Give(c, S, "pool")
  BY DEF NoisySent, DropOldest, DropFlushed
<1>4. flow' \in [Mbufs -> 0 .. NbFlows - 1]
  BY <1>3, GiveFlow
<1>5. UNCHANGED <<next_flow, ip_var>>
  BY DEF NoisySent, DropOldest, DropFlushed
<1>6. fs' \in [Streams -> Counts]
  BY <1>2, <1>7, <1>8
<1> QED
  BY <1>4, <1>5, <1>6 DEF MiscInv

-----------------------------------------------------------------------------
(* Every step keeps the invariant.                                         *)

LEMMA StartMisc ==
    ASSUME MiscInv, NEW c \in Cores, NEW s \in Streams, UNCHANGED gro_times,
           \/ IoForward(c, s) \/ RxOnly(c, s) \/ FlowGen(c, s) \/ IcmpEcho(c, s) \/ Ieee1588(c, s)
           \/ CsumReceive(c, s) \/ NoisyReceive(c, s)
    PROVE  MiscInv'
<1>1. PICK n \in {0} \cup Bursts : \E pc : Receive(c, s, n, pc)
  <2>1. 1 \in Bursts
    BY BurstAssumption DEF Bursts
  <2> QED
    BY <2>1 DEF IoForward, RxOnly, FlowGen, IcmpEcho, Ieee1588, CsumReceive, NoisyReceive, Bursts
<1>2. n \in Nat
  BY DEF Bursts
<1> QED
  BY <1>1, <1>2, ReceiveMisc

LEMMA FwdStep ==
    ASSUME Held3, MiscInv, FwdNext, UNCHANGED <<gvars, fifo>>
    PROVE  Held3' /\ MiscInv'
<1>1. UNCHANGED <<gro, fifo>> /\ UNCHANGED gro_times
  BY DEF gvars
<1>2. ASSUME NEW c \in Cores, NEW s \in Streams,
             IoForward(c, s) \/ RxOnly(c, s) \/ FlowGen(c, s) \/ IcmpEcho(c, s) \/ Ieee1588(c, s)
      PROVE  Held3' /\ MiscInv'
  BY <1>1, <1>2, ForwardKeeps, StartMisc
<1>3. ASSUME NEW c \in Cores, NEW s \in Streams, TxOnly(c, s) PROVE Held3' /\ MiscInv'
  <2>1. UNCHANGED <<fs, next_flow, ip_var, flow>>
    BY <1>3 DEF TxOnly
  <2> QED
    BY <1>1, <1>3, <2>1, TxOnlyKeeps, SameCounts
<1>4. ASSUME NEW c \in Cores, Discard(c) \/ Filter(c) \/ NotPtpSync(c) \/ PrepareFails(c) PROVE Held3' /\ MiscInv'
  <2>1. UNCHANGED <<fs, next_flow, ip_var>> /\ \E S : Give(c, S, "pool")
    BY <1>4 DEF Discard, Filter, NotPtpSync, PrepareFails
  <2>2. MiscInv'
    BY <1>1, <2>1, SameCounts
  <2> QED
    BY <1>1, <1>4, <2>2, DiscardKeeps, FilterKeeps, PtpKeeps, PrepareFailsKeeps
<1>5. ASSUME NEW c \in Cores, RawAlloc(c) \/ NoMbuf(c) \/ Generated(c) PROVE Held3' /\ MiscInv'
  <2>1. UNCHANGED <<fs, next_flow, ip_var, flow>>
    BY <1>5 DEF RawAlloc, NoMbuf, Generated
  <2>2. MiscInv'
    BY <1>1, <2>1, SameCounts
  <2> QED
    BY <1>1, <1>5, <2>2, RawAllocKeeps, NoMbufKeeps, GeneratedKeeps
<1>6. ASSUME NEW c \in Cores, PtpSync(c) \/ Prepare(c) \/ Generate(c) PROVE Held3' /\ MiscInv'
  BY <1>1, <1>6, PtpKeeps, PtpMisc, PrepareKeeps, GenerateKeeps, GenerateMisc
<1> QED
  BY <1>2, <1>3, <1>4, <1>5, <1>6 DEF FwdNext

LEMMA CsumStep ==
    ASSUME Held3, MiscInv, CsumNext, UNCHANGED fifo
    PROVE  Held3' /\ MiscInv'
<1>1. ASSUME NEW c \in Cores, NEW s \in Streams, CsumReceive(c, s) PROVE Held3' /\ MiscInv'
  <2>1. UNCHANGED <<gro, fifo>> /\ UNCHANGED gro_times
    BY <1>1 DEF CsumReceive, gvars
  <2> QED
    BY <1>1, <2>1, ForwardKeeps, StartMisc
<1>2. ASSUME NEW c \in Cores,
             Copied(c) \/ NotCopied(c) \/ GroBurst(c) \/ NoGro(c) \/ GsoSegment(c) \/ GsoWhole(c) \/ TxPrepare(c)
      PROVE  MiscInv'
  <2>1. UNCHANGED <<fs, next_flow, ip_var, gro_times, flow>>
    BY <1>2 DEF Copied, NotCopied, GroBurst, NoGro, GsoSegment, GsoWhole, TxPrepare, gvars
  <2> QED
    BY <2>1, SameCounts
<1>3. ASSUME NEW c \in Cores, GsoFails(c) PROVE Held3' /\ MiscInv'
  <2>1. UNCHANGED <<fs, next_flow, ip_var, gro_times>> /\ \E S : Give(c, S, "pool")
    BY <1>3 DEF GsoFails, gvars
  <2>2. MiscInv'
    BY <2>1, SameCounts
  <2> QED
    BY <1>3, <2>2, GsoFailsKeeps
<1>4. ASSUME NEW c \in Cores, GroContext(c) PROVE Held3' /\ MiscInv'
  BY <1>4, GroMisc, GroContextKeeps
<1>5. ASSUME NEW c \in Cores,
             Copied(c) \/ NotCopied(c) \/ GroBurst(c) \/ NoGro(c) \/ GsoSegment(c) \/ GsoWhole(c) \/ TxPrepare(c)
      PROVE  Held3'
  BY <1>5, CopiedKeeps, NotCopiedKeeps, GroBurstKeeps, NoGroKeeps, GsoSegmentKeeps, GsoWholeKeeps, TxPrepareKeeps
<1> QED
  BY <1>1, <1>2, <1>3, <1>4, <1>5 DEF CsumNext

LEMMA NoisyStep ==
    ASSUME Held3, MiscInv, NoisyNext, UNCHANGED gvars
    PROVE  Held3' /\ MiscInv'
<1>1. UNCHANGED gro /\ UNCHANGED gro_times
  BY DEF gvars
<1>2. ASSUME NEW c \in Cores, NEW s \in Streams, NoisyReceive(c, s) PROVE Held3' /\ MiscInv'
  <2>1. UNCHANGED <<gro, fifo>>
    BY <1>1, <1>2 DEF NoisyReceive
  <2> QED
    BY <1>1, <1>2, <2>1, ForwardKeeps, StartMisc
<1>3. ASSUME NEW c \in Cores, NEW s \in Streams, NoisyPoll(c, s) PROVE Held3' /\ MiscInv'
  <2>1. UNCHANGED <<fs, next_flow, ip_var, flow>>
    BY <1>3 DEF NoisyPoll
  <2> QED
    BY <1>1, <1>3, <2>1, NoisyPollKeeps, SameCounts
<1>4. ASSUME NEW c \in Cores, FirstTry(c) \/ DoRetry(c) \/ Refill(c) PROVE Held3' /\ MiscInv'
  <2>1. UNCHANGED <<fs, next_flow, ip_var>> /\ \E S, to : Give(c, S, to)
    BY <1>4 DEF FirstTry, DoRetry, Refill
  <2>2. MiscInv'
    BY <1>1, <2>1, SameCounts
  <2> QED
    BY <1>1, <1>4, <2>2, FirstTryKeeps, DoRetryKeeps, RefillKeeps
<1>5. ASSUME NEW c \in Cores, NoisySent(c) \/ DropOldest(c) \/ DropFlushed(c) PROVE Held3' /\ MiscInv'
  BY <1>1, <1>5, NoisyCounts, NoisySentKeeps, DropKeeps
<1>6. ASSUME NEW c \in Cores,
             Retried(c) \/ LookForRoom(c) \/ Store(c) \/ MakeRoom(c) \/ NoFlush(c) \/ Flush(c) \/ Flushed(c)
      PROVE  Held3' /\ MiscInv'
  <2>1. UNCHANGED <<fs, next_flow, ip_var, flow>>
    BY <1>6 DEF Retried, LookForRoom, Store, MakeRoom, NoFlush, Flush, Flushed
  <2>2. MiscInv'
    BY <1>1, <2>1, SameCounts
  <2> QED
    BY <1>1, <1>6, <2>2, RetriedKeeps, LookForRoomKeeps, StoreKeeps, MakeRoomKeeps, NoisyLeavesKeeps, FlushKeeps
<1> QED
  BY <1>2, <1>3, <1>4, <1>5, <1>6 DEF NoisyNext

LEMMA SharedStep ==
    ASSUME Held3, MiscInv, TxDone \/ \E c \in Cores : Send(c) \/ Finish(c), UNCHANGED <<gvars, fifo>>
    PROVE  Held3' /\ MiscInv'
<1>1. UNCHANGED <<gro, fifo>> /\ UNCHANGED gro_times
  BY DEF gvars
<1>2. CASE TxDone
  <2>1. UNCHANGED <<fs, next_flow, ip_var, flow>>
    BY <1>2 DEF TxDone
  <2> QED
    BY <1>1, <1>2, <2>1, TxDoneKeeps, SameCounts
<1>3. ASSUME NEW c \in Cores, Send(c) PROVE Held3' /\ MiscInv'
  <2>1. UNCHANGED <<fs, next_flow, ip_var>> /\ \E S : Give(c, S, "nic")
    BY <1>3 DEF Send
  <2>2. MiscInv'
    BY <1>1, <2>1, SameCounts
  <2> QED
    BY <1>1, <1>3, <2>2, SendKeeps
<1>4. ASSUME NEW c \in Cores, Finish(c) PROVE Held3' /\ MiscInv'
  BY <1>1, <1>4, FinishKeeps, FinishMisc
<1> QED
  BY <1>2, <1>3, <1>4

EnginesInv == Held3 /\ MiscInv /\ CTypeOK

LEMMA StillHeld ==
    ASSUME Held3, MiscInv, UNCHANGED mvars
    PROVE  Held3' /\ MiscInv'
<1>1. UNCHANGED <<conf, owner, segs, flow, fs, cpu, next_flow, ip_var, misused, gro, gro_times, fifo>>
  BY DEF mvars, bvars, gvars
<1>2. CpuInv' /\ HoldTypes' /\ MiscInv'
  BY <1>1 DEF Held3, CpuInv, HoldTypes, MiscInv
<1>3. Live' = Live /\ (Careful' <=> Careful) /\ (Keeping' <=> Keeping)
  BY <1>1 DEF Live, Careful, Keeping, AmpleFifo, OneCore
<1>4. OwnInv'
  <2>1. \A r, f : Room(r, f)' <=> Room(r, f)
    BY <1>1 DEF Room, AmpleFifo, OneCore
  <2> QED
    BY <1>1, <1>3 DEF Held3, OwnInv, Room, AmpleFifo, OneCore
<1>5. FullInv'
  BY <1>1, <1>3 DEF Held3, FullInv
<1> QED
  BY <1>2, <1>4, <1>5 DEF Held3

LEMMA EnginesStep == EnginesInv /\ [Next]_vars => EnginesInv'
<1> SUFFICES ASSUME EnginesInv, [Next]_vars PROVE EnginesInv'
  OBVIOUS
<1>1. Held3 /\ MiscInv /\ CTypeOK
  BY DEF EnginesInv
<1>2. CTypeOK'
  BY <1>1, TypeStep DEF Next, vars, cvars, mvars
<1>3. CASE /\ UNCHANGED cvars
           /\ \/ FwdNext /\ UNCHANGED <<gvars, fifo>>
              \/ CsumNext /\ UNCHANGED fifo
              \/ NoisyNext /\ UNCHANGED gvars
              \/ (TxDone \/ \E c \in Cores : Send(c) \/ Finish(c)) /\ UNCHANGED <<gvars, fifo>>
  BY <1>1, <1>2, <1>3, FwdStep, CsumStep, NoisyStep, SharedStep DEF EnginesInv
<1>4. CASE UNCHANGED mvars
  BY <1>1, <1>2, <1>4, StillHeld DEF EnginesInv
<1> QED
  BY <1>3, <1>4 DEF Next, vars

-----------------------------------------------------------------------------
LEMMA EnginesInit == Init => EnginesInv
<1> SUFFICES ASSUME Init PROVE EnginesInv
  OBVIOUS
<1>1. conf \in Confs
  <2>1. (CHOOSE o \in Confs : o.mode = "csum") \in Confs
    BY CsumAssumption
  <2> QED
    BY <2>1 DEF Init
<1>2. /\ owner = [m \in Mbufs |-> "pool"] /\ segs = [m \in Mbufs |-> {}] /\ flow = [m \in Mbufs |-> 0]
      /\ fs = [s \in Streams |-> [rx |-> 0, tx |-> 0, dropped |-> 0]] /\ cpu = [c \in Cores |-> IdleCpu]
      /\ next_flow = 0 /\ ip_var = [c \in Cores |-> 0] /\ misused = FALSE /\ gro = [c \in Cores |-> {}]
      /\ gro_times = [s \in Streams |-> 0] /\ fifo = << >> /\ CInit
  BY DEF Init
<1>3. CpuInv
  <2>1. cpu \in [Cores -> CpuType] /\ \A c \in Cores : cpu[c] = IdleCpu
    BY <1>2, IdleIs
  <2>2. \A o : \A c \in Cores : Fits(IdleCpu, c, o)
    <3> SUFFICES ASSUME NEW o, NEW c \in Cores PROVE Fits(IdleCpu, c, o)
      OBVIOUS
    <3>1. Len(IdleCpu.pkts) = 0 /\ 0 <= NbPktPerBurst
      BY IdleIs, BurstAssumption
    <3> QED
      BY <3>1, IdleIs DEF Fits, Serves, FirstPcs, FifoPcs
  <2> QED
    BY <1>1, <2>1, <2>2 DEF CpuInv
<1>4. HoldTypes
  <2>1. conf.bufsz \in Nat /\ Len(fifo) = 0 /\ fifo \in Seq(Mbufs)
    BY <1>2, <1>3, ModeIs
  <2>2. "pool" \in Places
    BY DEF Places
  <2>3. Len(fifo) <= conf.bufsz
    BY <2>1
  <2>4. misused \in BOOLEAN
    BY <1>2
  <2>5. /\ owner \in [Mbufs -> Places] /\ segs \in [Mbufs -> SUBSET Mbufs] /\ gro \in [Cores -> SUBSET Mbufs]
        /\ \A m \in Mbufs : segs[m] = {}
    BY <1>2, <2>2
  <2> QED
    BY <1>2, <2>1, <2>3, <2>4, <2>5 DEF HoldTypes
<1>5. \A p \in Holders : Live[p] = {}
  <2>1. \A o : InHand(IdleCpu, o) = {}
    BY IdleIs DEF InHand, HoldsAll
  <2>2. Elements(fifo) = {}
    BY <1>2, EmptyIsApart
  <2>3. UNION {gro[c] : c \in Cores} = {}
    BY <1>2
  <2>4. \A c \in Cores : cpu[c] = IdleCpu
    BY <1>2
  <2> QED
    BY <2>1, <2>2, <2>3, <2>4 DEF Live
<1>6. Good(owner, segs, Live) /\ Full(owner, segs, Live)
  BY <1>2, <1>5, PlacesDiffer DEF Good, Full
<1>7. \A c \in Cores : NoneTwice(cpu[c], segs) /\ Room(cpu[c], fifo)
  <2> SUFFICES ASSUME NEW c \in Cores PROVE NoneTwice(cpu[c], segs) /\ Room(cpu[c], fifo)
    OBVIOUS
  <2>1. cpu[c] = IdleCpu
    BY <1>2
  <2>2. Apart(IdleCpu.pkts) /\ Apart(IdleCpu.tmp) /\ IdleCpu.pc \notin PairPcs /\ IdleCpu.pc \notin RoomPcs
    BY IdleIs, EmptyIsApart DEF PairPcs, RoomPcs
  <2> QED
    BY <2>1, <2>2, NothingTwice, RoomElsewhere
<1>8. OwnInv /\ FullInv
  BY <1>2, <1>6, <1>7, EmptyIsApart DEF OwnInv, FullInv
<1>9. MiscInv
  <2>1. GroFlushCycles \in Nat \ {0}
    BY GroAssumption
  <2>2. 0 \in 0 .. NbFlows - 1 /\ 0 \in 0 .. GroFlushCycles - 1
    BY <2>1, FlowNumber
  <2> QED
    BY <1>2, <2>2 DEF MiscInv, Counts
<1>10. CTypeOK
  BY <1>2 DEF CInit, CTypeOK, Cleared, L3, L4
<1> QED
  BY <1>3, <1>4, <1>8, <1>9, <1>10 DEF EnginesInv, Held3

LEMMA EnginesAlways == Spec => []EnginesInv
BY EnginesInit, EnginesStep, PTL DEF Spec

-----------------------------------------------------------------------------
LEMMA TypesHold == EnginesInv => TypeOK
<1> SUFFICES ASSUME EnginesInv PROVE TypeOK
  OBVIOUS
<1>1. Held3 /\ CpuInv /\ HoldTypes /\ MiscInv /\ CTypeOK
  BY DEF EnginesInv, Held3
<1>2. \A s \in Streams : {fs[s].rx, fs[s].tx, fs[s].dropped} \subseteq Nat
  <2> SUFFICES ASSUME NEW s \in Streams PROVE {fs[s].rx, fs[s].tx, fs[s].dropped} \subseteq Nat
    OBVIOUS
  <2>1. fs[s] \in Counts
    BY <1>1 DEF MiscInv
  <2> QED
    BY <2>1 DEF Counts
<1>3. \A c \in Cores : /\ cpu[c].pkts \in Seq(Mbufs) /\ cpu[c].tmp \in Seq(Mbufs)
                       /\ cpu[c].s \in IF cpu[c].pc = "idle" THEN {0} ELSE Streams
  <2> SUFFICES ASSUME NEW c \in Cores
               PROVE  /\ cpu[c].pkts \in Seq(Mbufs) /\ cpu[c].tmp \in Seq(Mbufs)
                      /\ cpu[c].s \in IF cpu[c].pc = "idle" THEN {0} ELSE Streams
    OBVIOUS
  <2>1. cpu[c].pkts \in Seq(Mbufs) /\ cpu[c].tmp \in Seq(Mbufs) /\ Fits(cpu[c], c, conf)
    BY <1>1, CoreKnows
  <2>2. cpu[c].pc = "idle" => cpu[c].s = 0
    BY <2>1, IdleIs DEF Fits
  <2>3. cpu[c].pc # "idle" => cpu[c].s \in Streams
    BY <2>1 DEF Fits
  <2> QED
    BY <2>1, <2>2, <2>3
<1> QED
  BY <1>1, <1>2, <1>3 DEF TypeOK, CpuInv, HoldTypes, MiscInv

LEMMA NoneLost == EnginesInv => NoMbufLost
<1> SUFFICES ASSUME EnginesInv, Keeping
             PROVE  /\ \A c \in Cores : cpu[c].pc = "idle" => HeldBy(c) = {}
                    /\ HeldBy("fifo") = Elements(fifo)
                    /\ HeldBy("gro") = Whole(UNION {gro[c] : c \in Cores})
  BY DEF NoMbufLost, Keeping
<1>1. Held3 /\ CpuInv /\ HoldTypes
  BY DEF EnginesInv, Held3
<1>2. Good(owner, segs, Live) /\ Full(owner, segs, Live)
  BY <1>1, KeepingIsCareful DEF Held3, OwnInv, FullInv
<1>3. /\ Live \in [Holders -> SUBSET Mbufs]
      /\ \A c \in Cores : Live[c] = InHand(cpu[c], conf)
      /\ Live["gro"] = UNION {gro[c] : c \in Cores}
      /\ Live["fifo"] = Elements(fifo)
  BY <1>1, LiveIs
<1>4. \A p \in Holders : HeldBy(p) = Whole(Live[p])
  <2> SUFFICES ASSUME NEW p \in Holders PROVE HeldBy(p) = Whole(Live[p])
    OBVIOUS
  <2>1. Live[p] \subseteq Mbufs /\ segs \in [Mbufs -> SUBSET Mbufs]
    BY <1>1, <1>3 DEF HoldTypes
  <2>2. \A m \in Mbufs : m \in Whole(Live[p]) <=> (m \in Live[p] \/ \E h \in Live[p] : m \in segs[h])
    BY <2>1 DEF Whole
  <2>3. Whole(Live[p]) \subseteq Mbufs
    BY <2>1 DEF Whole
  <2>4. \A m \in Mbufs : m \in Live[p] => owner[m] = p
    BY <1>2 DEF Good
  <2>5. \A m \in Mbufs, h \in Live[p] : m \in segs[h] => owner[m] = p
    BY <1>2, <2>1 DEF Good
  <2>6. \A m \in Mbufs : owner[m] = p => (m \in Live[p] \/ \E h \in Live[p] : m \in segs[h])
    BY <1>2 DEF Full
  <2> QED
    BY <2>2, <2>3, <2>4, <2>5, <2>6 DEF HeldBy
<1>5. "gro" \in Holders /\ "fifo" \in Holders /\ Cores \subseteq Holders
  BY DEF Holders
<1>6. ASSUME NEW c \in Cores, cpu[c].pc = "idle" PROVE HeldBy(c) = {}
  <2>1. Live[c] = {}
    BY <1>3, <1>6 DEF InHand, HoldsAll
  <2>2. Whole({}) = {}
    BY DEF Whole
  <2> QED
    BY <1>4, <1>5, <2>1, <2>2
<1>7. HeldBy("fifo") = Elements(fifo)
  <2>1. Whole(Elements(fifo)) = Elements(fifo)
    <3>1. CASE conf.mode = "noisy"
      BY <1>1, <3>1 DEF HoldTypes, Whole
    <3>2. CASE conf.mode # "noisy"
      BY <1>1, <3>2, EmptyIsApart DEF HoldTypes, Whole
    <3> QED
      BY <3>1, <3>2
  <2> QED
    BY <1>3, <1>4, <1>5, <2>1
<1> QED
  BY <1>3, <1>4, <1>5, <1>6, <1>7

LEMMA NoneTwiceHanded == EnginesInv => NeverHandedTwice
BY DEF EnginesInv, Held3, OwnInv, Careful, NeverHandedTwice

\* Every mbuf has one owner and finds its way back: with every engine, on any number of cores and
\* streams, with any pool, burst and number of segments and retries, whatever the ports take and
\* whichever allocation fails, no mbuf is lost or handed on twice (but in the cases of noisy that
\* the property names).
THEOREM EveryMbufAccounted == Spec => []MbufsAccounted
<1>1. EnginesInv => MbufsAccounted
  BY TypesHold, NoneLost, NoneTwiceHanded DEF MbufsAccounted
<1> QED
  BY <1>1, EnginesAlways, PTL

-----------------------------------------------------------------------------
(* The counters of the engines that forward what they receive.             *)

Straight == conf.mode = "io" \/ (conf.mode = "csum" /\ conf.gro = "off" /\ ~conf.gso)
Busy(u, s) == IF u.s = s THEN u.nb ELSE 0
CountInv == Straight => \A s \in Streams : fs[s].rx = fs[s].tx + fs[s].dropped + Busy(cpu[conf.lcore[s]], s)

\* A core goes on with the burst it has.
LEMMA SameBusy ==
    ASSUME Held3, CountInv, UNCHANGED <<conf, fs>>, NEW c \in Cores, NEW r, cpu' = [cpu EXCEPT ![c] = r],
           r.s = cpu[c].s, r.nb = cpu[c].nb
    PROVE  CountInv'
<1>1. cpu \in [Cores -> CpuType]
  BY DEF Held3, CpuInv
<1>2. \A s : \A d \in Cores : Busy(cpu[d], s)' = Busy(cpu[d], s)
  BY <1>1 DEF Busy
<1>3. conf.lcore \in [Streams -> Cores]
  BY ModeIs DEF Held3
<1> QED
  BY <1>2, <1>3 DEF CountInv, Straight

SameElsewhere(s, f2, f, r, u) ==
    \A x \in Streams : x # s => f2[x] = f[x] /\ Busy(r, x) = Busy(u, x)

\* A core begins or ends a burst of one of its streams.
LEMMA OtherBusy ==
    ASSUME Held3, CountInv, Straight, UNCHANGED conf, NEW c \in Cores, NEW r, cpu' = [cpu EXCEPT ![c] = r],
           NEW s \in Streams, conf.lcore[s] = c, SameElsewhere(s, fs', fs, r, cpu[c]),
           fs'[s].rx = fs'[s].tx + fs'[s].dropped + Busy(r, s)
    PROVE  CountInv'
<1>1. cpu \in [Cores -> CpuType] /\ conf.lcore \in [Streams -> Cores]
  BY ModeIs DEF Held3, CpuInv
<1>2. cpu'[c] = r /\ \A d \in Cores : d # c => cpu'[d] = cpu[d]
  BY <1>1
<1>3. ASSUME NEW x \in Streams
      PROVE  fs'[x].rx = fs'[x].tx + fs'[x].dropped + Busy(cpu'[conf.lcore[x]], x)
  <2>1. CASE x = s
    BY <1>2, <2>1
  <2>2. CASE x # s
    <3>1. Busy(cpu'[conf.lcore[x]], x) = Busy(cpu[conf.lcore[x]], x)
      BY <1>1, <1>2, <2>2 DEF SameElsewhere
    <3> QED
      BY <2>2, <3>1 DEF CountInv, SameElsewhere
  <2> QED
    BY <2>1, <2>2
<1> QED
  BY <1>3 DEF CountInv, Busy

\* Where the property says nothing, there is nothing to show.
LEMMA NotStraight ==
    ASSUME ~Straight, UNCHANGED conf
    PROVE  CountInv'
BY DEF CountInv, Straight

LEMMA ReceiveCounts ==
    ASSUME Held3, MiscInv, CountInv, Straight, NEW c \in Cores, NEW s \in Streams, Turn(c, s), NEW n \in Nat,
           NEW pc \in Pcs, Receive(c, s, n, pc), UNCHANGED conf
    PROVE  CountInv'
<1>1. PICK r : Goes(c, r) /\ Got(r, pc, s, n)
  BY ReceiveIs DEF Held3
<1>2. cpu[c] = IdleCpu /\ conf.lcore[s] = c /\ cpu[c].nb = 0
  BY CoreKnows, IdleIs DEF Turn, Fits
<1>3. r.s = s /\ r.nb = n /\ cpu' = [cpu EXCEPT ![c] = r]
  BY <1>1 DEF Goes, Got
<1>4. \A x \in Streams : Busy(cpu[c], x) = 0 /\ (x # s => Busy(r, x) = 0)
  BY <1>2, <1>3 DEF Busy
<1>5. /\ fs'[s].rx = fs[s].rx + n /\ fs'[s].tx = fs[s].tx /\ fs'[s].dropped = fs[s].dropped
      /\ \A x \in Streams : x # s => fs'[x] = fs[x]
  BY ReceivedCount
<1>6. fs'[s].rx = fs'[s].tx + fs'[s].dropped + Busy(r, s)
  <2>1. fs[s].rx = fs[s].tx + fs[s].dropped + Busy(cpu[conf.lcore[s]], s)
    BY DEF CountInv
  <2>2. fs[s] \in Counts
    BY DEF MiscInv
  <2>3. Busy(r, s) = n
    BY <1>3 DEF Busy
  <2> QED
    BY <1>2, <1>4, <1>5, <2>1, <2>2, <2>3 DEF Counts
<1>7. SameElsewhere(s, fs', fs, r, cpu[c])
  BY <1>4, <1>5 DEF SameElsewhere
<1> QED
  BY <1>2, <1>3, <1>6, <1>7, OtherBusy

LEMMA FinishCounts ==
    ASSUME Held3, MiscInv, CountInv, Straight, NEW c \in Cores, Finish(c)
    PROVE  CountInv'
<1> DEFINE u == cpu[c]
           s == u.s
           left == u.nb - u.tx
<1>1. u \in CpuType /\ Fits(u, c, conf) /\ u.tx \in Nat /\ u.nb \in Nat /\ u.pc = "finish"
  BY CoreKnows DEF Finish
<1>2. s \in Streams /\ u.tx <= u.nb /\ conf.lcore[s] = c
  BY <1>1 DEF Fits
<1>3. left \in Nat
  BY <1>1, <1>2
<1>4. /\ fs' = [fs EXCEPT ![s].tx = @ + u.tx, ![s].dropped = @ + left]
      /\ cpu' = [cpu EXCEPT ![c] = IdleCpu] /\ UNCHANGED conf
  BY DEF Finish, Straight
<1>5. fs[s].rx = fs[s].tx + fs[s].dropped + u.nb
  BY <1>2 DEF CountInv, Busy
<1> HIDE DEF u
<1>6. \A x \in Streams : Busy(IdleCpu, x) = 0 /\ (x # s => Busy(u, x) = 0)
  BY IdleIs DEF Busy
<1> HIDE DEF s, left
<1>7. /\ fs'[s].rx = fs[s].rx /\ fs'[s].tx = fs[s].tx + u.tx /\ fs'[s].dropped = fs[s].dropped + left
      /\ \A x \in Streams : x # s => fs'[x] = fs[x]
  BY <1>1, <1>2, <1>3, <1>4, Counted
<1>8. fs'[s].rx = fs'[s].tx + fs'[s].dropped + Busy(IdleCpu, s)
  <2>1. fs[s] \in Counts
    BY <1>2 DEF MiscInv
  <2>2. left = u.nb - u.tx
    BY DEF left
  <2> QED
    BY <1>1, <1>2, <1>5, <1>6, <1>7, <2>1, <2>2 DEF Counts
<1>9. SameElsewhere(s, fs', fs, IdleCpu, cpu[c])
  BY <1>6, <1>7 DEF u, SameElsewhere
<1> QED
  BY <1>2, <1>4, <1>8, <1>9, OtherBusy

LEMMA BurstCounts ==
    ASSUME Held3, CountInv, Straight, NEW c \in Cores,
           Send(c) \/ Copied(c) \/ NotCopied(c) \/ NoGro(c) \/ TxPrepare(c)
    PROVE  CountInv'
<1> DEFINE u == cpu[c]
<1>1. u \in CpuType /\ Fits(u, c, conf) /\ UNCHANGED <<conf, fs>>
  BY CoreKnows DEF Send, Copied, NotCopied, NoGro, TxPrepare
<1> SUFFICES \E r : cpu' = [cpu EXCEPT ![c] = r] /\ r.s = u.s /\ r.nb = u.nb
  BY <1>1, SameBusy
<1>2. CASE Send(c)
  <2>1. PICK k : cpu' = [cpu EXCEPT ![c] =
            IF u.tx + k < u.nb /\ conf.retry /\ u.tries < BurstTxRetryNum
            THEN [u EXCEPT !.tx = u.tx + k, !.lim = u.nb, !.tries = u.tries + 1]
            ELSE [u EXCEPT !.tx = u.tx + k, !.pc = "finish"]]
    BY <1>2 DEF Send
  <2>2. /\ [u EXCEPT !.tx = u.tx + k, !.lim = u.nb, !.tries = u.tries + 1].s = u.s
        /\ [u EXCEPT !.tx = u.tx + k, !.lim = u.nb, !.tries = u.tries + 1].nb = u.nb
        /\ [u EXCEPT !.tx = u.tx + k, !.pc = "finish"].s = u.s
        /\ [u EXCEPT !.tx = u.tx + k, !.pc = "finish"].nb = u.nb
    BY <1>1 DEF CpuType
  <2> QED
    BY <2>1, <2>2
<1>3. CASE Copied(c)
  <2>1. PICK q, t : cpu' = [cpu EXCEPT ![c] = [u EXCEPT !.pkts = q, !.t = t]]
    BY <1>3 DEF Copied
  <2>2. [u EXCEPT !.pkts = q, !.t = t].s = u.s /\ [u EXCEPT !.pkts = q, !.t = t].nb = u.nb
    BY <1>1 DEF CpuType
  <2> QED
    BY <2>1, <2>2
<1>4. CASE NotCopied(c)
  <2>1. cpu' = [cpu EXCEPT ![c] = [u EXCEPT !.t = u.t + 1]]
    BY <1>4 DEF NotCopied
  <2>2. [u EXCEPT !.t = u.t + 1].s = u.s /\ [u EXCEPT !.t = u.t + 1].nb = u.nb
    BY <1>1 DEF CpuType
  <2> QED
    BY <2>1, <2>2
<1>5. CASE NoGro(c)
  <2>1. cpu' = [cpu EXCEPT ![c] = [u EXCEPT !.pc = "gso", !.t = 0]]
    BY <1>5 DEF NoGro
  <2>2. [u EXCEPT !.pc = "gso", !.t = 0].s = u.s /\ [u EXCEPT !.pc = "gso", !.t = 0].nb = u.nb
    BY <1>1 DEF CpuType
  <2> QED
    BY <2>1, <2>2
<1>6. CASE TxPrepare(c)
  <2>1. u.pc = "gso"
    BY <1>6 DEF TxPrepare
  <2>2. ~conf.gso
    <3>1. conf.mode = "csum"
      BY <1>1, <2>1 DEF Fits, Serves
    <3> QED
      BY <3>1 DEF Straight
  <2>3. Len(u.pkts) = u.nb
    BY <1>1, <2>1 DEF Fits
  <2>4. PICK k : cpu' = [cpu EXCEPT ![c] = [IdleCpu EXCEPT !.pc = "send", !.s = u.s, !.pkts = u.pkts,
                                                        !.nb = Len(u.pkts), !.lim = k]]
    BY <1>6, <2>2 DEF TxPrepare
  <2> DEFINE r == [IdleCpu EXCEPT !.pc = "send", !.s = u.s, !.pkts = u.pkts, !.nb = Len(u.pkts), !.lim = k]
  <2>5. r.s = u.s /\ r.nb = Len(u.pkts)
    BY DEF IdleCpu
  <2> QED
    BY <2>3, <2>4, <2>5
<1> QED
  BY <1>2, <1>3, <1>4, <1>5, <1>6

LEMMA CountStep == EnginesInv /\ CountInv /\ [Next]_vars => CountInv'
<1> SUFFICES ASSUME EnginesInv, CountInv, [Next]_vars PROVE CountInv'
  OBVIOUS
<1>1. Held3 /\ MiscInv /\ CpuInv
  BY DEF EnginesInv, Held3
<1>2. CASE ~Straight
  <2>1. UNCHANGED conf
    BY Zenon DEF Next, vars, mvars, bvars, FwdNext, CsumNext, NoisyNext, IoForward, RxOnly, FlowGen, IcmpEcho, Ieee1588,
       TxOnly, Discard, Filter, NotPtpSync, PtpSync, RawAlloc, NoMbuf, Prepare, PrepareFails, Generate, Generated,
       CsumReceive, Copied, NotCopied, GroBurst, GroContext, NoGro, GsoSegment, GsoWhole, GsoFails, TxPrepare,
       NoisyReceive, NoisyPoll, FirstTry, DoRetry, Retried, NoisySent, LookForRoom, Store, MakeRoom, Refill,
       DropOldest, NoFlush, Flush, DropFlushed, Flushed, TxDone, Send, Finish
  <2> QED
    BY <1>2, <2>1, NotStraight
<1>3. ASSUME Straight, FwdNext PROVE CountInv'
  <2>1. ASSUME NEW c \in Cores, NEW s \in Streams, IoForward(c, s) PROVE CountInv'
    <3>1. PICK n \in Nat : Turn(c, s) /\ Receive(c, s, n, "send") /\ UNCHANGED conf
      BY <2>1 DEF IoForward, Bursts
    <3>2. "send" \in Pcs
      BY DEF Pcs
    <3> QED
      BY <1>1, <1>3, <3>1, <3>2, ReceiveCounts
  <2>2. \A c \in Cores, s \in Streams :
            ~(RxOnly(c, s) \/ FlowGen(c, s) \/ IcmpEcho(c, s) \/ Ieee1588(c, s) \/ TxOnly(c, s))
    BY <1>3 DEF Straight, RxOnly, FlowGen, IcmpEcho, Ieee1588, TxOnly
  <2>3. ASSUME NEW c \in Cores
        PROVE ~(\/ Discard(c) \/ Filter(c) \/ NotPtpSync(c) \/ PtpSync(c) \/ RawAlloc(c) \/ NoMbuf(c) \/ Prepare(c)
                \/ PrepareFails(c) \/ Generate(c) \/ Generated(c))
    <3>1. Serves(cpu[c].pc, conf)
      BY <1>1 DEF CpuInv, Fits
    <3>2. cpu[c].pc \notin {"discard", "filter", "ptp", "alloc", "prepare", "generate"}
      BY <1>3, <3>1 DEF Serves, Straight
    <3> QED
      BY <3>2 DEF Discard, Filter, NotPtpSync, PtpSync, RawAlloc, NoMbuf, Prepare, PrepareFails, Generate, Generated
  <2> QED
    BY <1>3, <2>1, <2>2, <2>3 DEF FwdNext
<1>4. ASSUME Straight, CsumNext PROVE CountInv'
  <2>1. ASSUME NEW c \in Cores, NEW s \in Streams, CsumReceive(c, s) PROVE CountInv'
    <3>1. PICK n \in Nat : Turn(c, s) /\ Receive(c, s, n, "copy") /\ UNCHANGED conf
      BY <2>1 DEF CsumReceive
    <3>2. "copy" \in Pcs
      BY DEF Pcs
    <3> QED
      BY <1>1, <1>4, <3>1, <3>2, ReceiveCounts
  <2>2. ASSUME NEW c \in Cores PROVE ~(GroBurst(c) \/ GroContext(c) \/ GsoSegment(c) \/ GsoWhole(c) \/ GsoFails(c))
    <3>1. Serves(cpu[c].pc, conf)
      BY <1>1 DEF CpuInv, Fits
    <3> QED
      BY <1>4, <3>1 DEF Serves, Straight, GroBurst, GroContext, GsoSegment, GsoWhole, GsoFails
  <2>3. ASSUME NEW c \in Cores, Copied(c) \/ NotCopied(c) \/ NoGro(c) \/ TxPrepare(c) PROVE CountInv'
    BY <1>1, <1>4, <2>3, BurstCounts
  <2> QED
    BY <1>4, <2>1, <2>2, <2>3 DEF CsumNext
<1>5. ASSUME Straight, NoisyNext PROVE CountInv'
  <2>1. \A c \in Cores, s \in Streams : ~(NoisyReceive(c, s) \/ NoisyPoll(c, s))
    BY <1>5 DEF Straight, NoisyReceive, NoisyPoll
  <2>2. ASSUME NEW c \in Cores, cpu[c].pc \in FirstPcs \cup FifoPcs PROVE FALSE
    BY <1>1, <1>5, <2>2, NoisyKnows DEF Straight
  <2>3. ASSUME NEW c \in Cores
        PROVE  ~(\/ FirstTry(c) \/ DoRetry(c) \/ Retried(c) \/ NoisySent(c) \/ LookForRoom(c) \/ Store(c) \/ MakeRoom(c)
                 \/ Refill(c) \/ DropOldest(c) \/ NoFlush(c) \/ Flush(c) \/ DropFlushed(c) \/ Flushed(c))
    BY <2>2 DEF FirstPcs, FifoPcs, FirstTry, DoRetry, Retried, NoisySent, LookForRoom, Store, MakeRoom, Refill, DropOldest,
       NoFlush, Flush, DropFlushed, Flushed
  <2> QED
    BY <1>5, <2>1, <2>3 DEF NoisyNext
<1>6. ASSUME Straight, TxDone \/ UNCHANGED mvars PROVE CountInv'
  <2>1. UNCHANGED <<conf, fs, cpu>>
    BY <1>6 DEF TxDone, mvars, bvars
  <2> QED
    BY <2>1 DEF CountInv, Straight, Busy
<1>7. ASSUME Straight, NEW c \in Cores, Send(c) \/ Finish(c) PROVE CountInv'
  BY <1>1, <1>7, BurstCounts, FinishCounts
<1> QED
  BY <1>2, <1>3, <1>4, <1>5, <1>6, <1>7 DEF Next, vars

\* What the engines that forward received was sent or dropped, between any two bursts of any
\* stream: for io and its relatives and for csum, whose packets may be copied on the way.
THEOREM CountersBalance == Spec => []ReceivedIsAccountedFor
<1>1. Init => CountInv
  <2> SUFFICES ASSUME Init PROVE CountInv
    OBVIOUS
  <2>1. CpuInv
    BY EnginesInit DEF EnginesInv, Held3
  <2>2. \A s \in Streams : conf.lcore[s] \in Cores
    BY <2>1, ModeIs
  <2>3. \A s \in Streams : Busy(cpu[conf.lcore[s]], s) = 0
    BY <2>2, IdleIs DEF Init, Busy
  <2>4. \A s \in Streams : fs[s].rx = 0 /\ fs[s].tx = 0 /\ fs[s].dropped = 0
    BY DEF Init
  <2> QED
    BY <2>3, <2>4 DEF CountInv
<1>2. EnginesInv /\ CountInv => ReceivedIsAccountedFor
  <2> SUFFICES ASSUME EnginesInv, CountInv, Straight, NEW s \in Streams, cpu[conf.lcore[s]].s # s
               PROVE  fs[s].rx = fs[s].tx + fs[s].dropped
    BY DEF ReceivedIsAccountedFor, Straight
  <2>1. fs[s].rx = fs[s].tx + fs[s].dropped + 0
    BY DEF CountInv, Busy
  <2>2. fs[s] \in Counts
    BY DEF EnginesInv, MiscInv
  <2> QED
    BY <2>1, <2>2 DEF Counts
<1> QED
  BY <1>1, <1>2, CountStep, EnginesAlways, PTL DEF Spec

-----------------------------------------------------------------------------
(* Remainders.                                                             *)

LEMMA Remainder ==
    ASSUME NEW n \in Nat \ {0}, NEW x \in Int
    PROVE  \E q \in Int : x = n * q + (x % n) /\ x % n \in 0 .. n - 1
<1> DEFINE q == x \div n
           s == x % n
           p == n * q
<1>1. n * (x \div n) <= x
  BY SMTT(30)
<1>2. x < n * (x \div n) + n
  BY SMTT(30)
<1>3. x % n = x - n * (x \div n)
  BY SMTT(30)
<1>4. x \div n \in Int
  OBVIOUS
<1>5. x % n \in 0 .. n - 1
  BY <1>1, <1>2, <1>3, <1>4, SMTT(30)
<1>7. n * (x \div n) \in Int
  BY <1>4
<1>8. p \in Int /\ s = x - p /\ q \in Int /\ s \in 0 .. n - 1 /\ p = n * q
  BY <1>3, <1>4, <1>5, <1>7
<1> HIDE DEF q, s, p
<1>6. x = n * q + s
  BY <1>8
<1> QED
  BY <1>6, <1>8 DEF s

LEMMA RemainderIs ==
    ASSUME NEW n \in Nat \ {0}, NEW q \in Int, NEW r \in 0 .. n - 1, NEW y \in Int, y = n * q + r
    PROVE  y % n = r
<1> DEFINE s == y % n
<1>2. PICK p \in Int : y = n * p + s /\ s \in 0 .. n - 1
  BY Remainder
<1> HIDE DEF s
<1>3. n * (q - p) = s - r
  BY <1>2, SMTT(30)
<1>4. q = p
  <2>1. ASSUME q - p >= 1 PROVE FALSE
    <3>1. n * (q - p) >= n
      BY <2>1, <1>2, SMTT(30)
    <3> QED
      BY <1>2, <1>3, <3>1
  <2>2. ASSUME p - q >= 1 PROVE FALSE
    <3>1. n * (p - q) >= n
      BY <2>2, <1>2, SMTT(30)
    <3>2. n * (p - q) = r - s
      BY <1>2, SMTT(30)
    <3> QED
      BY <1>2, <3>1, <3>2
  <2> QED
    BY <1>2, <2>1, <2>2
<1> QED
  BY <1>2, <1>3, <1>4 DEF s

LEMMA RemainderOfSum ==
    ASSUME NEW n \in Nat \ {0}, NEW x \in Int, NEW k \in Int
    PROVE  ((x % n) + k) % n = (x + k) % n
<1>1. PICK p \in Int : x = n * p + (x % n) /\ x % n \in 0 .. n - 1
  BY Remainder
<1> DEFINE z == (x % n) + k
           s == z % n
           y == x + k
<1>2. z \in Int /\ y \in Int
  BY <1>1
<1> HIDE DEF z
<1>3. PICK q \in Int : z = n * q + s /\ s \in 0 .. n - 1
  BY <1>2, Remainder
<1> HIDE DEF s
<1>4. y = n * (p + q) + s
  <2>1. y = n * p + z
    BY <1>1 DEF z
  <2>2. n * p + n * q = n * (p + q)
    BY <1>1, <1>3, SMTT(30)
  <2>3. n * p \in Int /\ n * q \in Int /\ s \in Int
    BY <1>3
  <2> QED
    BY <1>3, <2>1, <2>2, <2>3
<1>5. p + q \in Int
  BY <1>1, <1>3
<1> HIDE DEF y
<1>6. y % n = s
  BY <1>2, <1>3, <1>4, <1>5, RemainderIs
<1> QED
  BY <1>6 DEF s, z, y

-----------------------------------------------------------------------------
(* The flows of txonly and flowgen.                                        *)

Makes == conf.mode \in {"txonly", "flowgen"}
Making == {"alloc", "prepare", "generate", "send"}

\* The flows given out for packets that are not counted as sent yet.
Pending(u) == IF u.pc \in Making \cup {"finish"} THEN u.nb ELSE 0
Cursor(c) == IF conf.mode = "txonly" THEN ip_var[c] ELSE next_flow
Works(c) == conf.mode = "txonly" \/ \E s \in Streams : conf.lcore[s] = c

\* Of a burst, the packets after a up to n have the flows that follow those of base packets.
FlowsOf(f, q, a, n, base) == \A i \in (a + 1) .. n : f[q[i]] = (base + (i - 1)) % NbFlows

CoreFlows(u, f, k, base) ==
    /\ k = (base + Pending(u)) % NbFlows
    /\ u.pc \in Making => FlowsOf(f, u.pkts, u.tx, u.nb, base)

FlowInv == Makes => \A c \in Cores : Works(c) => CoreFlows(cpu[c], flow, Cursor(c), SentOn(c))

LEMMA MakingKnows ==
    ASSUME Held3, Makes, NEW c \in Cores, NEW u, u = cpu[c], u.pc \in Making
    PROVE  /\ Apart(u.pkts) /\ u.pkts \in Seq(Mbufs) /\ u.nb <= Len(u.pkts) /\ u.tx \in Nat /\ u.nb \in Nat
           /\ u.s \in Streams /\ conf.lcore[u.s] = c
           /\ u.pc # "send" => u.tx = 0
           /\ \A i \in (u.tx + 1) .. u.nb : i \in 1 .. Len(u.pkts) /\ u.pkts[i] \in Mbufs /\ owner[u.pkts[i]] = c
<1>1. /\ u \in CpuType /\ Fits(u, c, conf) /\ u.pkts \in Seq(Mbufs) /\ Len(u.pkts) \in Nat /\ u.nb \in Nat /\ u.tx \in Nat
      /\ Careful => NoneTwice(u, segs)
      /\ Careful => \A m \in InHand(u, conf) : m \in Mbufs /\ owner[m] = c
  BY CoreKnows
<1>2. Careful
  BY DEF Careful, Makes
<1>3. u.nb <= Len(u.pkts) /\ u.s \in Streams /\ conf.lcore[u.s] = c /\ (u.pc # "send" => u.tx = 0)
      /\ (u.pc = "send" => u.nb = Len(u.pkts))
  <2>1. u.s \in Streams /\ conf.lcore[u.s] = c
    BY <1>1 DEF Fits, Making
  <2>2. (u.pc # "prepare" => Len(u.pkts) = u.nb) /\ (u.pc = "prepare" => u.nb < Len(u.pkts))
    BY <1>1 DEF Fits
  <2>3. u.pc # "send" => u.tx = 0
    BY <1>1 DEF Fits, Making
  <2>4. u.nb <= Len(u.pkts)
    BY <1>1, <2>2
  <2> QED
    BY <2>1, <2>2, <2>3, <2>4
<1>4. InHand(u, conf) = IF u.pc = "send" THEN Part(u.pkts, u.tx, Len(u.pkts)) ELSE Elements(u.pkts)
  BY DEF InHand, HoldsAll, Making
<1>5. Apart(u.pkts)
  BY <1>1, <1>2 DEF NoneTwice
<1>6. ASSUME NEW i \in (u.tx + 1) .. u.nb
      PROVE  i \in 1 .. Len(u.pkts) /\ u.pkts[i] \in Mbufs /\ owner[u.pkts[i]] = c
  <2>1. i \in 1 .. Len(u.pkts)
    BY <1>1, <1>3
  <2>2. u.pc = "send" => u.pkts[i] \in Part(u.pkts, u.tx, Len(u.pkts))
    BY <1>1, <1>3 DEF Part
  <2>3. u.pkts[i] \in Elements(u.pkts)
    BY <1>1, <2>1 DEF Elements
  <2>4. u.pkts[i] \in InHand(u, conf)
    BY <1>4, <2>2, <2>3
  <2> QED
    BY <1>1, <1>2, <2>1, <2>4
<1> QED
  BY <1>1, <1>3, <1>5, <1>6

\* What the step of one core leaves to the others.
Elsewhere(c, d) == d # c /\ Works(d) => Cursor(d)' = Cursor(d) /\ SentOn(d)' = SentOn(d)
FlowStays(c) == \A m \in Mbufs : owner[m] # c /\ owner[m] # "pool" => flow'[m] = flow[m]

LEMMA FlowGoes ==
    ASSUME Held3, FlowInv, Makes, UNCHANGED conf, NEW c \in Cores, NEW r, cpu' = [cpu EXCEPT ![c] = r],
           \A d \in Cores : Elsewhere(c, d), FlowStays(c),
           Works(c) => CoreFlows(r, flow', Cursor(c)', SentOn(c)')
    PROVE  FlowInv'
<1>1. cpu \in [Cores -> CpuType]
  BY DEF Held3, CpuInv
<1>2. cpu'[c] = r /\ \A d \in Cores : d # c => cpu'[d] = cpu[d]
  BY <1>1
<1>3. ASSUME NEW d \in Cores, d # c, Works(d)
      PROVE  CoreFlows(cpu[d], flow', Cursor(d)', SentOn(d)')
  <2>1. CoreFlows(cpu[d], flow, Cursor(d), SentOn(d))
    BY <1>3 DEF FlowInv
  <2>2. Cursor(d)' = Cursor(d) /\ SentOn(d)' = SentOn(d)
    BY <1>3 DEF Elsewhere
  <2>3. ASSUME cpu[d].pc \in Making, NEW i \in (cpu[d].tx + 1) .. cpu[d].nb
        PROVE  flow'[cpu[d].pkts[i]] = flow[cpu[d].pkts[i]]
    <3>1. cpu[d].pkts[i] \in Mbufs /\ owner[cpu[d].pkts[i]] = d
      BY <2>3, MakingKnows
    <3>2. d # "pool"
      BY PlacesDiffer DEF Holders
    <3> QED
      BY <1>3, <3>1, <3>2 DEF FlowStays
  <2> QED
    BY <2>1, <2>2, <2>3 DEF CoreFlows, FlowsOf
<1>4. Makes' /\ \A d \in Cores : Works(d)' <=> Works(d)
  BY DEF Makes, Works
<1>5. \A d \in Cores : Works(d) => CoreFlows(cpu'[d], flow', Cursor(d)', SentOn(d)')
  BY <1>2, <1>3
<1> QED
  BY <1>4, <1>5 DEF FlowInv, CoreFlows, Pending, FlowsOf

\* What is counted as sent depends on these counters only.
LEMMA SentSame ==
    ASSUME UNCHANGED conf, NEW c, \A s \in Streams : conf.lcore[s] = c => fs'[s].tx = fs[s].tx
    PROVE  SentOn(c)' = SentOn(c)
<1> DEFINE mine == {s \in Streams : conf.lcore[s] = c}
<1>1. [s \in mine |-> fs'[s].tx] = [s \in mine |-> fs[s].tx]
  OBVIOUS
<1> QED
  BY <1>1 DEF SentOn

\* A step that gives out no flow and counts nothing as sent.
LEMMA QuietGoes ==
    ASSUME Held3, FlowInv, Makes, UNCHANGED <<conf, ip_var, next_flow>>, NEW c \in Cores, NEW r,
           cpu' = [cpu EXCEPT ![c] = r], \A s \in Streams : fs'[s].tx = fs[s].tx, FlowStays(c),
           Works(c) => CoreFlows(r, flow', Cursor(c), SentOn(c))
    PROVE  FlowInv'
<1>1. \A d \in Cores : Cursor(d)' = Cursor(d)
  BY DEF Cursor
<1>2. \A d \in Cores : SentOn(d)' = SentOn(d)
  BY SentSame
<1>3. \A d \in Cores : Elsewhere(c, d)
  BY <1>1, <1>2 DEF Elsewhere
<1>4. Works(c) => CoreFlows(r, flow', Cursor(c)', SentOn(c)')
  BY <1>1, <1>2
<1> QED
  BY <1>3, <1>4, FlowGoes

\* A burst that begins: no flow is given out yet.
NoFlowsYet(r) == Pending(r) = 0 /\ (r.pc \in Making => r.nb = 0 /\ r.tx \in Nat)

LEMMA SameBase ==
    ASSUME NEW u, NEW r, NEW f, NEW g, NEW k, NEW base, CoreFlows(u, f, k, base), Pending(u) = 0, NoFlowsYet(r)
    PROVE  CoreFlows(r, g, k, base)
<1>1. r.pc \in Making => \A i \in (r.tx + 1) .. r.nb : FALSE
  BY DEF NoFlowsYet
<1> QED
  BY <1>1 DEF CoreFlows, NoFlowsYet, FlowsOf

LEMMA BeginGoes ==
    ASSUME Held3, FlowInv, Makes, UNCHANGED <<conf, ip_var, next_flow>>, NEW c \in Cores, NEW r,
           cpu' = [cpu EXCEPT ![c] = r], \A s \in Streams : fs'[s].tx = fs[s].tx, FlowStays(c),
           Pending(cpu[c]) = 0, NoFlowsYet(r)
    PROVE  FlowInv'
<1>1. ASSUME Works(c) PROVE CoreFlows(r, flow', Cursor(c), SentOn(c))
  <2>1. CoreFlows(cpu[c], flow, Cursor(c), SentOn(c))
    BY <1>1 DEF FlowInv
  <2> QED
    BY <2>1, SameBase
<1> QED
  BY <1>1, QuietGoes

LEMMA GiveStays ==
    ASSUME Held3, Makes, NEW c \in Cores, NEW S, NEW to, Give(c, S, to), S \subseteq InHand(cpu[c], conf)
    PROVE  /\ FlowStays(c)
           /\ \A m \in Mbufs : m \notin S => flow'[m] = flow[m]
<1>1. \A m \in S : owner[m] = c
  BY CoreKnows DEF Careful, Makes
<1> QED
  BY <1>1 DEF Give, FlowStays

LEMMA FlowGenFlows ==
    ASSUME Held3, MiscInv, FlowInv, Makes, NEW c \in Cores, NEW s \in Streams, FlowGen(c, s)
    PROVE  FlowInv'
<1>1. PICK n \in Nat : Receive(c, s, n, "discard") /\ Turn(c, s) /\ UNCHANGED conf
  BY DEF FlowGen, Bursts
<1>2. PICK r : Goes(c, r) /\ Got(r, "discard", s, n)
  <2>1. "discard" \in Pcs
    BY DEF Pcs
  <2> QED
    BY <1>1, <2>1, ReceiveIs DEF Held3
<1>3. UNCHANGED <<conf, ip_var, next_flow, flow>> /\ \A x \in Streams : fs'[x].tx = fs[x].tx
  <2>1. \A x \in Streams : fs'[x].tx = fs[x].tx
    BY <1>1, ReceivedCount
  <2> QED
    BY <1>1, <2>1 DEF Receive
<1>4. Pending(cpu[c]) = 0 /\ NoFlowsYet(r)
  <2>1. cpu[c].pc = "idle" /\ r.pc = "discard"
    BY <1>1, <1>2 DEF Turn, Got
  <2> QED
    BY <2>1 DEF Pending, NoFlowsYet, Making
<1>5. cpu' = [cpu EXCEPT ![c] = r] /\ FlowStays(c)
  BY <1>2, <1>3 DEF Goes, FlowStays
<1> QED
  BY <1>3, <1>4, <1>5, BeginGoes

LEMMA TxOnlyFlows ==
    ASSUME Held3, FlowInv, Makes, NEW c \in Cores, NEW s \in Streams, TxOnly(c, s)
    PROVE  FlowInv'
<1>1. PICK q, pc : /\ cpu' = [cpu EXCEPT ![c] = [IdleCpu EXCEPT !.s = s, !.pkts = q, !.pc = pc]]
                   /\ pc \in {"alloc", "prepare"}
  BY DEF TxOnly
<1> DEFINE r == [IdleCpu EXCEPT !.s = s, !.pkts = q, !.pc = pc]
<1>2. r.pc \in {"alloc", "prepare"} /\ r.nb = 0 /\ r.tx = 0
  BY <1>1 DEF IdleCpu
<1>3. cpu[c].pc = "idle" /\ UNCHANGED <<conf, ip_var, next_flow, flow, fs>>
  BY DEF TxOnly, Turn
<1>4. Pending(cpu[c]) = 0 /\ NoFlowsYet(r)
  BY <1>2, <1>3 DEF Pending, NoFlowsYet, Making
<1>5. cpu' = [cpu EXCEPT ![c] = r] /\ FlowStays(c) /\ \A x \in Streams : fs'[x].tx = fs[x].tx
  BY <1>1, <1>3 DEF FlowStays
<1> HIDE DEF r
<1> QED
  BY <1>3, <1>4, <1>5, BeginGoes

LEMMA DiscardFlows ==
    ASSUME Held3, FlowInv, Makes, NEW c \in Cores, Discard(c)
    PROVE  FlowInv'
<1> DEFINE r == [IdleCpu EXCEPT !.pc = "generate", !.s = cpu[c].s]
<1>1. /\ cpu[c].pc = "discard" /\ UNCHANGED <<conf, fs, next_flow, ip_var>>
      /\ Give(c, Elements(cpu[c].pkts), "pool") /\ cpu' = [cpu EXCEPT ![c] = r]
  BY DEF Discard, Makes
<1>2. r.pc = "generate" /\ r.nb = 0 /\ r.tx = 0
  BY DEF IdleCpu
<1> HIDE DEF r
<1>3. Pending(cpu[c]) = 0 /\ NoFlowsYet(r)
  BY <1>1, <1>2 DEF Pending, NoFlowsYet, Making
<1>4. FlowStays(c)
  <2>1. InHand(cpu[c], conf) = Elements(cpu[c].pkts)
    BY <1>1 DEF InHand, HoldsAll
  <2> QED
    BY <1>1, <2>1, GiveStays
<1>5. \A x \in Streams : fs'[x].tx = fs[x].tx
  BY <1>1
<1> QED
  BY <1>1, <1>3, <1>4, <1>5, BeginGoes

-----------------------------------------------------------------------------
\* A burst goes on: some of its packets keep their flows, and it gives out none.
Continues(r, u, g, f) ==
    /\ Pending(r) = Pending(u)
    /\ r.pc \in Making => /\ u.pc \in Making /\ r.nb = u.nb /\ r.nb \in Nat /\ r.tx \in Nat /\ u.tx \in Nat /\ u.tx <= r.tx
                          /\ \A i \in (r.tx + 1) .. r.nb : r.pkts[i] = u.pkts[i] /\ g[r.pkts[i]] = f[r.pkts[i]]

LEMMA ContinueGoes ==
    ASSUME Held3, FlowInv, Makes, UNCHANGED <<conf, ip_var, next_flow, fs>>, NEW c \in Cores, NEW r,
           cpu' = [cpu EXCEPT ![c] = r], FlowStays(c), Continues(r, cpu[c], flow', flow)
    PROVE  FlowInv'
<1> DEFINE u == cpu[c]
<1>1. ASSUME Works(c) PROVE CoreFlows(r, flow', Cursor(c), SentOn(c))
  <2>1. CoreFlows(u, flow, Cursor(c), SentOn(c))
    BY <1>1 DEF FlowInv
  <2>2. Continues(r, u, flow', flow)
    OBVIOUS
  <2> HIDE DEF u
  <2>3. Cursor(c) = (SentOn(c) + Pending(r)) % NbFlows
    BY <2>1, <2>2 DEF CoreFlows, Continues
  <2>4. ASSUME r.pc \in Making, NEW i \in (r.tx + 1) .. r.nb
        PROVE  flow'[r.pkts[i]] = (SentOn(c) + (i - 1)) % NbFlows
    <3>1. /\ r.pkts[i] = u.pkts[i] /\ flow'[r.pkts[i]] = flow[r.pkts[i]] /\ u.pc \in Making /\ r.nb = u.nb /\ r.nb \in Nat
          /\ u.tx \in Nat /\ r.tx \in Nat /\ u.tx <= r.tx
      BY <2>2, <2>4 DEF Continues
    <3>2. i \in (u.tx + 1) .. u.nb
      BY <3>1
    <3> QED
      BY <2>1, <3>1, <3>2 DEF CoreFlows, FlowsOf
  <2> QED
    BY <2>3, <2>4 DEF CoreFlows, FlowsOf
<1>2. \A x \in Streams : fs'[x].tx = fs[x].tx
  OBVIOUS
<1> QED
  BY <1>1, <1>2, QuietGoes

LEMMA RawAllocFlows ==
    ASSUME Held3, FlowInv, Makes, NEW c \in Cores, RawAlloc(c)
    PROVE  FlowInv'
<1> DEFINE u == cpu[c]
           p == u.pkts \o FromPool(1)
           r == [u EXCEPT !.pkts = p, !.pc = "prepare"]
<1>1. u.pc = "alloc" /\ cpu' = [cpu EXCEPT ![c] = r] /\ Pool # {} /\ UNCHANGED <<conf, ip_var, next_flow, fs, flow>>
  BY DEF RawAlloc
<1>2. u \in CpuType /\ u.pkts \in Seq(Mbufs) /\ u.nb \in Nat /\ u.tx \in Nat
  BY CoreKnows
<1>3. u.pc \in Making /\ u.nb <= Len(u.pkts)
  BY <1>1, MakingKnows DEF Making
<1>4. FromPool(1) \in Seq(Mbufs)
  BY <1>1, PoolHasOne, PoolGives
<1>5. \A i \in 1 .. Len(u.pkts) : p[i] = u.pkts[i]
  BY <1>2, <1>4
<1>8. p \in Seq(Mbufs)
  BY <1>2, <1>4
<1> HIDE DEF u, p
<1>6. r.pc = "prepare" /\ r.pkts = p /\ r.nb = u.nb /\ r.tx = u.tx
  BY <1>2 DEF CpuType
<1> HIDE DEF r
<1>7. Continues(r, u, flow', flow)
  <2>1. \A i \in (r.tx + 1) .. r.nb : r.pkts[i] = u.pkts[i]
    BY <1>2, <1>3, <1>5, <1>6
  <2> QED
    BY <1>1, <1>2, <1>3, <1>6, <2>1 DEF Continues, Pending, Making
<1> QED
  BY <1>1, <1>7, ContinueGoes DEF u, FlowStays

LEMMA StopContinues ==
    ASSUME Held3, Makes, NEW c \in Cores, NEW u, u = cpu[c], u.pc \in {"alloc", "prepare"}, NEW r, r = Stop(c, u.nb), NEW f,
           NEW g, \A m \in Part(u.pkts, 0, u.nb) : g[m] = f[m]
    PROVE  Continues(r, u, g, f)
<1>1. u \in CpuType /\ u.pkts \in Seq(Mbufs) /\ u.nb \in Nat /\ u.pc \in Making
  BY CoreKnows DEF Making
<1>2. u.nb <= Len(u.pkts) /\ u.tx = 0
  BY <1>1, MakingKnows
<1>3. Pending(u) = u.nb
  BY <1>1 DEF Pending
<1>4. CASE u.nb = 0
  <2>1. r.pc = "idle"
    BY <1>4, IdleIs DEF Stop
  <2> QED
    BY <1>3, <1>4, <2>1 DEF Continues, Pending, Making
<1>5. CASE u.nb # 0
  <2> DEFINE n == u.nb
             q == SubSeq(u.pkts, 1, n)
  <2>1. r = [u EXCEPT !.pc = "send", !.pkts = q, !.nb = n, !.lim = n]
    BY <1>5 DEF Stop
  <2>2. \A i \in 1 .. n : q[i] = u.pkts[i]
    BY <1>1, <1>2, FirstIsApart
  <2> HIDE DEF q
  <2>3. r.pc = "send" /\ r.pkts = q /\ r.nb = u.nb /\ r.tx = 0
    BY <1>1, <1>2, <2>1 DEF CpuType
  <2>4. \A i \in 1 .. n : q[i] \in Part(u.pkts, 0, n)
    BY <2>2 DEF Part
  <2>5. Pending(r) = Pending(u) /\ r.pc \in Making
    BY <1>3, <2>3 DEF Pending, Making
  <2> QED
    BY <1>1, <1>2, <2>2, <2>3, <2>4, <2>5 DEF Continues
<1> QED
  BY <1>4, <1>5

LEMMA StopFlows ==
    ASSUME Held3, FlowInv, Makes, NEW c \in Cores, NoMbuf(c) \/ PrepareFails(c)
    PROVE  FlowInv'
<1> DEFINE u == cpu[c]
           r == Stop(c, u.nb)
<1>1. /\ cpu' = [cpu EXCEPT ![c] = r] /\ u.pc \in {"alloc", "prepare"} /\ UNCHANGED <<conf, ip_var, next_flow, fs>>
  BY DEF NoMbuf, PrepareFails
<1>2. u \in CpuType /\ u.pkts \in Seq(Mbufs) /\ u.nb \in Nat /\ u.pc \in Making
  BY <1>1, CoreKnows DEF Making
<1>3. Apart(u.pkts) /\ u.nb <= Len(u.pkts)
  BY <1>2, MakingKnows
<1>4. FlowStays(c) /\ \A m \in Part(u.pkts, 0, u.nb) : flow'[m] = flow[m]
  <2>1. CASE NoMbuf(c)
    BY <2>1 DEF NoMbuf, FlowStays
  <2>2. CASE PrepareFails(c)
    <3> DEFINE S == Elements(Rest(u.pkts, u.nb))
    <3>1. Give(c, S, "pool")
      BY <2>2 DEF PrepareFails
    <3>2. InHand(u, conf) = Elements(u.pkts)
      BY <1>1 DEF InHand, HoldsAll
    <3>3. S = Part(u.pkts, u.nb, Len(u.pkts)) /\ S \subseteq Elements(u.pkts)
      <4>1. S = Part(u.pkts, u.nb, Len(u.pkts))
        BY <1>2, <1>3, RestIs
      <4>2. Len(u.pkts) \in Nat /\ Len(u.pkts) <= Len(u.pkts)
        BY <1>2
      <4>3. Part(u.pkts, u.nb, Len(u.pkts)) \subseteq Elements(u.pkts)
        BY <1>2, <4>2, PartIs
      <4> QED
        BY <4>1, <4>3
    <3>4. Part(u.pkts, 0, u.nb) \subseteq Mbufs
      BY <1>2, <1>3, PartIs
    <3>5. \A m \in Part(u.pkts, 0, u.nb) : m \notin S
      <4>1. Len(u.pkts) \in Nat
        BY <1>2
      <4> QED
        BY <1>2, <1>3, <3>3, <4>1 DEF Part, Apart
    <3> HIDE DEF S
    <3>6. FlowStays(c) /\ \A m \in Mbufs : m \notin S => flow'[m] = flow[m]
      BY <3>1, <3>2, <3>3, GiveStays
    <3> QED
      BY <3>4, <3>5, <3>6
  <2> QED
    BY <2>1, <2>2
<1>5. Continues(r, u, flow', flow)
  <2>1. ASSUME NEW g, g = flow' PROVE Continues(r, u, g, flow)
    <3>1. \A m \in Part(u.pkts, 0, u.nb) : g[m] = flow[m]
      BY <1>4, <2>1
    <3> QED
      BY <1>1, <3>1, StopContinues
  <2> HIDE DEF r, u
  <2> QED
    BY <2>1
<1> HIDE DEF r
<1> QED
  BY <1>1, <1>4, <1>5, ContinueGoes

LEMMA GeneratedFlows ==
    ASSUME Held3, FlowInv, Makes, NEW c \in Cores, Generated(c)
    PROVE  FlowInv'
<1> DEFINE u == cpu[c]
           r == [u EXCEPT !.pc = "send", !.lim = u.nb]
<1>1. u.pc = "generate" /\ cpu' = [cpu EXCEPT ![c] = r] /\ UNCHANGED <<conf, ip_var, next_flow, fs, flow>>
  BY DEF Generated
<1>2. u \in CpuType /\ u.nb \in Nat /\ u.tx \in Nat
  BY CoreKnows
<1> HIDE DEF u
<1>3. r.pc = "send" /\ r.pkts = u.pkts /\ r.nb = u.nb /\ r.tx = u.tx
  BY <1>2 DEF CpuType
<1> HIDE DEF r
<1>4. Continues(r, u, flow', flow)
  BY <1>1, <1>2, <1>3 DEF Continues, Pending, Making
<1> QED
  BY <1>1, <1>4, ContinueGoes DEF u, FlowStays

LEMMA SendFlows ==
    ASSUME Held3, FlowInv, Makes, NEW c \in Cores, Send(c)
    PROVE  FlowInv'
<1> DEFINE u == cpu[c]
<1>1. u.pc = "send" /\ u \in CpuType /\ u.nb \in Nat /\ u.tx \in Nat /\ u.lim \in Nat /\ u.pkts \in Seq(Mbufs)
      /\ Len(u.pkts) \in Nat
  BY CoreKnows DEF Send
<1>2. u.tx <= u.lim /\ u.lim <= u.nb /\ u.nb = Len(u.pkts) /\ u.pc \in Making /\ Apart(u.pkts)
  <2>1. Fits(u, c, conf) /\ u.pc \in Making
    BY <1>1, CoreKnows DEF Making
  <2> QED
    BY <1>1, <2>1, MakingKnows DEF Fits
<1>3. PICK k \in 0 .. (u.lim - u.tx) :
        /\ Give(c, Elements(SubSeq(u.pkts, u.tx + 1, u.tx + k)), "nic")
        /\ \E r : /\ cpu' = [cpu EXCEPT ![c] = r]
                  /\ \/ r = [u EXCEPT !.tx = u.tx + k, !.lim = u.nb, !.tries = u.tries + 1]
                     \/ r = [u EXCEPT !.tx = u.tx + k, !.pc = "finish"]
  BY DEF Send
<1>4. PICK r : /\ cpu' = [cpu EXCEPT ![c] = r]
               /\ \/ r = [u EXCEPT !.tx = u.tx + k, !.lim = u.nb, !.tries = u.tries + 1]
                  \/ r = [u EXCEPT !.tx = u.tx + k, !.pc = "finish"]
  BY <1>3
<1>5. UNCHANGED <<conf, ip_var, next_flow, fs>>
  BY DEF Send
<1> DEFINE n == u.tx + k
           S == Elements(SubSeq(u.pkts, u.tx + 1, n))
<1>6. n \in Nat /\ u.tx <= n /\ n <= Len(u.pkts)
  BY <1>1, <1>2
<1>7. InHand(u, conf) = Part(u.pkts, u.tx, Len(u.pkts))
  BY <1>1 DEF InHand, HoldsAll
<1>12. Give(c, S, "nic")
  BY <1>3
<1>13. r.tx = n /\ r.pkts = u.pkts /\ r.nb = u.nb /\ r.pc \in {"send", "finish"}
  BY <1>1, <1>4 DEF CpuType
<1>14. cpu' = [cpu EXCEPT ![c] = r] /\ u = cpu[c]
  BY <1>4
<1> HIDE DEF u, n
<1>8. S = Part(u.pkts, u.tx, n) /\ S \subseteq Part(u.pkts, u.tx, Len(u.pkts))
  <2>1. S = Part(u.pkts, u.tx, n)
    BY <1>1, <1>6, PartIs
  <2> QED
    BY <1>1, <1>2, <1>6, <2>1, PartsDiffer
<1> HIDE DEF S
<1>9. FlowStays(c) /\ \A m \in Mbufs : m \notin S => flow'[m] = flow[m]
  BY <1>7, <1>8, <1>12, <1>14, GiveStays
<1>10. \A i \in (n + 1) .. u.nb : u.pkts[i] \in Mbufs /\ u.pkts[i] \notin S
  BY <1>1, <1>2, <1>6, <1>8 DEF Part, Apart
<1>11. Continues(r, u, flow', flow)
  <2>1. Pending(r) = Pending(u)
    BY <1>1, <1>13 DEF Pending, Making
  <2>2. \A i \in (n + 1) .. u.nb : flow'[u.pkts[i]] = flow[u.pkts[i]]
    BY <1>9, <1>10
  <2> QED
    BY <1>1, <1>2, <1>6, <1>13, <2>1, <2>2 DEF Continues
<1> QED
  BY <1>5, <1>9, <1>11, <1>14, ContinueGoes

LEMMA SentIsNat ==
    ASSUME MiscInv, NEW c
    PROVE  SentOn(c) \in Nat
<1> DEFINE mine == {s \in Streams : conf.lcore[s] = c}
           f == [s \in mine |-> fs[s].tx]
<1>1. IsFiniteSet(mine)
  BY BurstAssumption, FS_Subset
<1>2. \A s \in mine : f[s] \in Nat
  BY DEF MiscInv, Counts
<1> HIDE DEF mine, f
<1>3. SumFunctionOnSet(f, mine) \in Nat
  BY <1>1, <1>2, SumIsNat
<1> QED
  BY <1>3 DEF SentOn, mine, f

\* A burst with one more packet, to which the flow k was given.
Gains(r, u, g, f, k) ==
    /\ r.pc \in Making /\ r.nb = u.nb + 1 /\ r.tx = 0
    /\ \A i \in 1 .. u.nb : r.pkts[i] = u.pkts[i] /\ g[r.pkts[i]] = f[r.pkts[i]]
    /\ g[r.pkts[r.nb]] = k

LEMMA GainGoes ==
    ASSUME Held3, MiscInv, FlowInv, Makes, UNCHANGED <<conf, fs>>, NEW c \in Cores, NEW r,
           cpu' = [cpu EXCEPT ![c] = r], FlowStays(c), cpu[c].pc \in {"prepare", "generate"},
           Gains(r, cpu[c], flow', flow, Cursor(c)), Cursor(c)' = (Cursor(c) + 1) % NbFlows,
           \A d \in Cores : Elsewhere(c, d)
    PROVE  FlowInv'
<1> DEFINE u == cpu[c]
           b == SentOn(c)
           k == Cursor(c)
<1>1. u.nb \in Nat /\ u.tx = 0 /\ b \in Nat /\ u.pc \in Making
  BY CoreKnows, MakingKnows, SentIsNat DEF Making
<1>2. SentOn(c)' = b
  BY SentSame
<1>3. NbFlows \in Nat \ {0}
  BY BurstAssumption
<1>4. ASSUME Works(c) PROVE CoreFlows(r, flow', Cursor(c)', b)
  <2>1. CoreFlows(u, flow, k, b)
    BY <1>4 DEF FlowInv
  <2>2. Gains(r, u, flow', flow, k) /\ Cursor(c)' = (k + 1) % NbFlows
    OBVIOUS
  <2> HIDE DEF u, b, k
  <2>3. k = (b + u.nb) % NbFlows
    BY <1>1, <2>1 DEF CoreFlows, Pending
  <2>4. Cursor(c)' = (b + r.nb) % NbFlows
    <3>1. (((b + u.nb) % NbFlows) + 1) % NbFlows = ((b + u.nb) + 1) % NbFlows
      <4>1. b + u.nb \in Int /\ 1 \in Int
        BY <1>1
      <4> QED
        BY <1>3, <4>1, RemainderOfSum
    <3>2. r.nb = u.nb + 1 /\ (b + u.nb) + 1 = b + r.nb
      BY <1>1, <2>2 DEF Gains
    <3> QED
      BY <2>2, <2>3, <3>1, <3>2
  <2>5. Pending(r) = r.nb
    BY <2>2 DEF Pending, Gains
  <2>6. ASSUME NEW i \in (r.tx + 1) .. r.nb
        PROVE  flow'[r.pkts[i]] = (b + (i - 1)) % NbFlows
    <3>1. i \in 1 .. u.nb \/ i = r.nb
      BY <1>1, <2>2, <2>6 DEF Gains
    <3>2. CASE i \in 1 .. u.nb
      <4>1. flow'[r.pkts[i]] = flow[u.pkts[i]]
        BY <2>2, <3>2 DEF Gains
      <4>2. i \in (u.tx + 1) .. u.nb
        BY <1>1, <3>2
      <4> QED
        BY <1>1, <2>1, <4>1, <4>2 DEF CoreFlows, FlowsOf
    <3>3. CASE i = r.nb
      <4>1. i - 1 = u.nb
        BY <1>1, <2>2, <3>3 DEF Gains
      <4> QED
        BY <2>2, <2>3, <3>3, <4>1 DEF Gains
    <3> QED
      BY <3>1, <3>2, <3>3
  <2> QED
    BY <2>4, <2>5, <2>6 DEF CoreFlows, FlowsOf
<1>5. Works(c) => CoreFlows(r, flow', Cursor(c)', SentOn(c)')
  BY <1>2, <1>4
<1> QED
  BY <1>5, FlowGoes

LEMMA PrepareFlows ==
    ASSUME Held3, MiscInv, FlowInv, Makes, NEW c \in Cores, Prepare(c)
    PROVE  FlowInv'
<1> DEFINE u == cpu[c]
           n == u.nb + 1
           pkt == u.pkts[n]
           r == IF n = NbPktPerBurst THEN Stop(c, n)
                ELSE [u EXCEPT !.nb = n, !.pc = IF Len(u.pkts) = n THEN "alloc" ELSE "prepare"]
<1>1. /\ u.pc = "prepare" /\ UNCHANGED <<conf, fs>> /\ cpu' = [cpu EXCEPT ![c] = r]
      /\ flow' = [flow EXCEPT ![pkt] = ip_var[c]]
      /\ ip_var' = [ip_var EXCEPT ![c] = (@ + 1) % NbFlows]
  BY DEF Prepare
<1>2. u \in CpuType /\ Fits(u, c, conf) /\ u.pkts \in Seq(Mbufs) /\ u.nb \in Nat /\ Len(u.pkts) \in Nat
  BY CoreKnows
<1>3. u.nb < Len(u.pkts) /\ conf.mode = "txonly" /\ u.tx = 0 /\ u.pc \in Making
  BY <1>1, <1>2 DEF Fits, Serves, Making
<1>4. Apart(u.pkts)
  BY <1>3, MakingKnows
<1>5. n \in Nat /\ n \in 1 .. Len(u.pkts) /\ n # 0 /\ n <= Len(u.pkts)
  BY <1>2, <1>3
<1>6. pkt \in Mbufs /\ owner[pkt] = c
  <2>1. InHand(u, conf) = Elements(u.pkts)
    BY <1>1 DEF InHand, HoldsAll
  <2>2. pkt \in Elements(u.pkts) /\ pkt \in Mbufs
    BY <1>2, <1>5 DEF Elements
  <2>3. Careful
    BY <1>3 DEF Careful
  <2> HIDE DEF pkt, u
  <2>4. \A m \in InHand(u, conf) : owner[m] = c
    BY <2>3, CoreKnows DEF u
  <2> QED
    BY <2>1, <2>2, <2>4
<1>7. flow \in [Mbufs -> 0 .. NbFlows - 1] /\ ip_var \in [Cores -> 0 .. NbFlows - 1]
  BY DEF MiscInv
<1>8. FlowStays(c)
  BY <1>1, <1>6, <1>7 DEF FlowStays
<1>9. /\ r.pc \in Making /\ r.nb = n /\ r.tx = 0
      /\ \A i \in 1 .. n : r.pkts[i] = u.pkts[i]
  <2>1. CASE n = NbPktPerBurst
    <3> DEFINE q == SubSeq(u.pkts, 1, n)
    <3>1. r = [u EXCEPT !.pc = "send", !.pkts = q, !.nb = n, !.lim = n]
      BY <1>5, <2>1 DEF Stop
    <3>2. \A i \in 1 .. n : q[i] = u.pkts[i]
      BY <1>2, <1>5, FirstIsApart
    <3> HIDE DEF q, u, n, r
    <3>3. r.pc = "send" /\ r.pkts = q /\ r.nb = n /\ r.tx = 0
      BY <1>2, <1>3, <3>1 DEF CpuType
    <3> QED
      BY <3>2, <3>3 DEF Making
  <2>2. CASE n # NbPktPerBurst
    <3>1. r = [u EXCEPT !.nb = n, !.pc = IF Len(u.pkts) = n THEN "alloc" ELSE "prepare"]
      BY <2>2
    <3> HIDE DEF u, n, r
    <3>2. r.pc \in {"alloc", "prepare"} /\ r.nb = n /\ r.tx = 0 /\ r.pkts = u.pkts
      BY <1>2, <1>3, <3>1 DEF CpuType
    <3> QED
      BY <3>2 DEF Making
  <2> QED
    BY <2>1, <2>2
<1> HIDE DEF r, pkt
<1>10. Gains(r, u, flow', flow, ip_var[c])
  <2>1. \A i \in 1 .. u.nb : i \in 1 .. Len(u.pkts) /\ i # n /\ i \in 1 .. n
    BY <1>2, <1>3
  <2>2. ASSUME NEW i \in 1 .. u.nb PROVE r.pkts[i] = u.pkts[i] /\ flow'[u.pkts[i]] = flow[u.pkts[i]]
    <3>1. u.pkts[i] # pkt /\ u.pkts[i] \in Mbufs
      BY <1>2, <1>4, <1>5, <2>1 DEF Apart, pkt
    <3> QED
      BY <1>1, <1>7, <1>9, <2>1, <3>1
  <2>3. flow'[u.pkts[n]] = ip_var[c] /\ r.pkts[n] = u.pkts[n]
    BY <1>1, <1>5, <1>6, <1>7, <1>9 DEF pkt
  <2> HIDE DEF u
  <2> QED
    BY <1>9, <2>2, <2>3 DEF Gains
<1>11. Cursor(c) = ip_var[c] /\ Cursor(c)' = (ip_var[c] + 1) % NbFlows
  BY <1>1, <1>3, <1>7 DEF Cursor
<1>12. \A d \in Cores : Elsewhere(c, d)
  <2>1. \A d \in Cores : SentOn(d)' = SentOn(d)
    BY <1>1, SentSame
  <2>2. \A d \in Cores : d # c => Cursor(d)' = Cursor(d)
    BY <1>1, <1>3, <1>7 DEF Cursor
  <2> QED
    BY <2>1, <2>2 DEF Elsewhere
<1>13. /\ cpu[c].pc \in {"prepare", "generate"} /\ UNCHANGED <<conf, fs>> /\ cpu' = [cpu EXCEPT ![c] = r]
       /\ Gains(r, cpu[c], flow', flow, Cursor(c)) /\ Cursor(c)' = (Cursor(c) + 1) % NbFlows
  BY <1>1, <1>10, <1>11
<1> QED
  BY <1>8, <1>12, <1>13, GainGoes

\* flowgen runs on one core.
LEMMA FlowGenAlone ==
    ASSUME CpuInv, conf.mode = "flowgen", NEW c \in Cores, NEW s \in Streams, conf.lcore[s] = c, NEW d \in Cores, Works(d)
    PROVE  d = c
<1>1. PICK t \in Streams : conf.lcore[t] = d
  BY DEF Works
<1>2. conf.lcore[s] = conf.lcore[t]
  BY ConfsAssumption DEF CpuInv
<1> QED
  BY <1>1, <1>2

LEMMA GenerateFlows ==
    ASSUME Held3, MiscInv, FlowInv, Makes, NEW c \in Cores, Generate(c)
    PROVE  FlowInv'
<1> DEFINE u == cpu[c]
           p == u.pkts \o FromPool(1)
           x == FromPool(1)[1]
           n == u.nb + 1
           r == [u EXCEPT !.pkts = p, !.nb = n]
<1>1. /\ u.pc = "generate" /\ Pool # {} /\ UNCHANGED <<conf, fs>> /\ cpu' = [cpu EXCEPT ![c] = r]
      /\ flow' = [flow EXCEPT ![x] = next_flow] /\ next_flow' = (next_flow + 1) % NbFlows
  BY DEF Generate
<1>2. u \in CpuType /\ Fits(u, c, conf) /\ u.pkts \in Seq(Mbufs) /\ u.nb \in Nat /\ Len(u.pkts) \in Nat
  BY CoreKnows
<1>3. /\ u.nb = Len(u.pkts) /\ conf.mode = "flowgen" /\ u.tx = 0 /\ u.pc \in Making /\ u.s \in Streams
      /\ conf.lcore[u.s] = c
  BY <1>1, <1>2 DEF Fits, Serves, Making
<1>4. FromPool(1) \in Seq(Mbufs) /\ Len(FromPool(1)) = 1 /\ Elements(FromPool(1)) \subseteq Pool
  BY <1>1, PoolHasOne, PoolGives
<1>5. x \in Pool
  BY <1>4 DEF Elements
<1>6. (\A i \in 1 .. u.nb : p[i] = u.pkts[i]) /\ p[n] = x /\ p \in Seq(Mbufs)
  BY <1>2, <1>3, <1>4
<1>7. flow \in [Mbufs -> 0 .. NbFlows - 1]
  BY DEF MiscInv
<1>8. FlowStays(c)
  BY <1>1, <1>5, <1>7 DEF FlowStays, Pool
<1>15. n \in Nat
  BY <1>2
<1> HIDE DEF p, x
<1>16. r.pc = "generate" /\ r.nb = n /\ r.tx = 0 /\ r.pkts = p
  <2> HIDE DEF u, n
  <2> QED
    BY <1>1, <1>2, <1>3 DEF CpuType
<1> HIDE DEF r
<1>9. Gains(r, u, flow', flow, next_flow)
  <2>1. c # "pool"
    BY PlacesDiffer DEF Holders
  <2>2. ASSUME NEW i \in 1 .. u.nb PROVE r.pkts[i] = u.pkts[i] /\ flow'[u.pkts[i]] = flow[u.pkts[i]]
    <3>1. i \in (u.tx + 1) .. u.nb
      BY <1>2, <1>3
    <3>2. u.pkts[i] \in Mbufs /\ owner[u.pkts[i]] = c
      BY <1>3, <3>1, MakingKnows
    <3>3. u.pkts[i] # x
      BY <1>5, <2>1, <3>2 DEF Pool
    <3> QED
      BY <1>1, <1>6, <1>7, <1>16, <3>2, <3>3
  <2>3. flow'[r.pkts[n]] = next_flow
    BY <1>1, <1>5, <1>6, <1>7, <1>16 DEF Pool
  <2> HIDE DEF u
  <2> QED
    BY <1>16, <2>2, <2>3 DEF Gains, Making
<1>10. \A d \in Cores : Elsewhere(c, d)
  BY <1>3, FlowGenAlone DEF Elsewhere, Held3
<1>11. Cursor(c) = next_flow /\ Cursor(c)' = (next_flow + 1) % NbFlows
  BY <1>1, <1>3 DEF Cursor
<1>12. /\ cpu[c].pc \in {"prepare", "generate"} /\ UNCHANGED <<conf, fs>> /\ cpu' = [cpu EXCEPT ![c] = r]
       /\ Gains(r, cpu[c], flow', flow, Cursor(c)) /\ Cursor(c)' = (Cursor(c) + 1) % NbFlows
  BY <1>1, <1>9, <1>11
<1> QED
  BY <1>8, <1>10, <1>12, GainGoes

\* What is counted as sent by a core grows by what one of its streams has sent.
LEMMA SentGrows ==
    ASSUME MiscInv, UNCHANGED conf, NEW c, NEW s \in Streams, conf.lcore[s] = c, NEW a \in Nat, NEW b \in Nat,
           fs' = [fs EXCEPT ![s].tx = @ + a, ![s].dropped = @ + b]
    PROVE  /\ SentOn(c)' = SentOn(c) + a
           /\ \A d : d # c => SentOn(d)' = SentOn(d)
<1> DEFINE mine == {x \in Streams : conf.lcore[x] = c}
           f == [x \in mine |-> fs[x].tx]
           g == [x \in mine |-> fs'[x].tx]
<1>1. fs' \in [Streams -> Counts] /\ fs'[s].tx = fs[s].tx + a /\ \A x \in Streams : x # s => fs'[x] = fs[x]
  BY Counted
<1>2. fs \in [Streams -> Counts]
  BY DEF MiscInv
<1>3. IsFiniteSet(mine) /\ s \in mine
  BY BurstAssumption, FS_Subset
<1>4. /\ \A x \in mine : f[x] \in Nat /\ g[x] \in Nat
      /\ \A x \in mine \ {s} : g[x] = f[x]
      /\ g[s] - f[s] = a
  <2>1. \A x \in Streams : fs[x].tx \in Nat /\ fs'[x].tx \in Nat
    BY <1>1, <1>2 DEF Counts
  <2> QED
    BY <1>1, <2>1
<1>5. SentOn(c) = SumFunctionOnSet(f, mine) /\ SentOn(c)' = SumFunctionOnSet(g, mine)
  BY DEF SentOn
<1> HIDE DEF mine, f, g
<1>6. SumFunctionOnSet(g, mine) = SumFunctionOnSet(f, mine) + (g[s] - f[s])
  BY <1>3, <1>4, SumOfChanged
<1>7. ASSUME NEW d, d # c PROVE SentOn(d)' = SentOn(d)
  <2>1. \A x \in Streams : conf.lcore[x] = d => fs'[x].tx = fs[x].tx
    BY <1>1, <1>7
  <2> QED
    BY <2>1, SentSame
<1> QED
  BY <1>4, <1>5, <1>6, <1>7

\* A burst ends: what was sent is counted, and the flows of the rest are taken back.
LEMMA FinishFlows ==
    ASSUME Held3, MiscInv, FlowInv, Makes, NEW c \in Cores, Finish(c)
    PROVE  FlowInv'
<1> DEFINE u == cpu[c]
           left == u.nb - u.tx
           lost == IF conf.mode = "flowgen" THEN 0 ELSE left
           k == Cursor(c)
           b == SentOn(c)
<1>1. u \in CpuType /\ Fits(u, c, conf) /\ u.tx \in Nat /\ u.nb \in Nat /\ u.pc = "finish" /\ u.pkts \in Seq(Mbufs)
      /\ Len(u.pkts) \in Nat
  BY CoreKnows DEF Finish
<1>2. u.s \in Streams /\ conf.lcore[u.s] = c /\ u.tx <= u.nb /\ u.nb = Len(u.pkts)
  BY <1>1 DEF Fits
<1>3. left \in Nat /\ lost \in Nat
  BY <1>1, <1>2
<1>4. /\ fs' = [fs EXCEPT ![u.s].tx = @ + u.tx, ![u.s].dropped = @ + lost]
      /\ next_flow' = IF conf.mode = "flowgen" THEN (next_flow - left) % NbFlows ELSE next_flow
      /\ ip_var' = IF conf.mode = "txonly" THEN [ip_var EXCEPT ![c] = (@ - left) % NbFlows] ELSE ip_var
      /\ Give(c, Elements(Rest(u.pkts, u.tx)), "pool")
      /\ cpu' = [cpu EXCEPT ![c] = IdleCpu] /\ UNCHANGED conf
  BY DEF Finish
<1>5. FlowStays(c)
  <2>1. Elements(Rest(u.pkts, u.tx)) = Part(u.pkts, u.tx, Len(u.pkts))
    BY <1>1, RestIs
  <2>2. InHand(u, conf) = Part(u.pkts, u.tx, Len(u.pkts))
    BY <1>1 DEF InHand, HoldsAll
  <2> QED
    BY <1>4, <2>1, <2>2, GiveStays
<1>6. SentOn(c)' = b + u.tx /\ \A d : d # c => SentOn(d)' = SentOn(d)
  <2> HIDE DEF lost, u
  <2> QED
    BY <1>1, <1>2, <1>3, <1>4, SentGrows
<1>7. Cursor(c)' = (k - left) % NbFlows
  <2>1. CASE conf.mode = "txonly"
    BY <1>4, <2>1 DEF Cursor, MiscInv
  <2>2. CASE conf.mode = "flowgen"
    BY <1>4, <2>2 DEF Cursor
  <2> QED
    BY <2>1, <2>2 DEF Makes
<1>8. \A d \in Cores : Elsewhere(c, d)
  <2>1. CASE conf.mode = "txonly"
    <3>1. \A d \in Cores : d # c => Cursor(d)' = Cursor(d)
      BY <1>4, <2>1 DEF Cursor, MiscInv
    <3> QED
      BY <1>6, <3>1 DEF Elsewhere
  <2>2. CASE conf.mode = "flowgen"
    BY <1>2, <2>2, FlowGenAlone DEF Elsewhere, Held3
  <2> QED
    BY <2>1, <2>2 DEF Makes
<1>9. ASSUME Works(c) PROVE CoreFlows(IdleCpu, flow', Cursor(c)', SentOn(c)')
  <2>1. k = (b + u.nb) % NbFlows
    <3>1. CoreFlows(u, flow, k, b)
      BY <1>9 DEF FlowInv
    <3> QED
      BY <1>1, <3>1 DEF CoreFlows, Pending
  <2>2. NbFlows \in Nat \ {0} /\ b \in Nat
    BY BurstAssumption, SentIsNat
  <2> HIDE DEF u, k, b
  <2>3. b + u.nb \in Int /\ 0 - left \in Int
    BY <1>1, <1>3, <2>2
  <2>4. (((b + u.nb) % NbFlows) + (0 - left)) % NbFlows = ((b + u.nb) + (0 - left)) % NbFlows
    BY <2>2, <2>3, RemainderOfSum
  <2>5. (b + u.nb) + (0 - left) = b + u.tx
    BY <1>1, <1>3, <2>2
  <2>6. (b + u.nb) % NbFlows \in Int
    BY <2>2, <2>3, FlowNumber
  <2>7. k + (0 - left) = k - left
    BY <1>3, <2>1, <2>6
  <2>8. Cursor(c)' = (b + u.tx) % NbFlows
    BY <1>7, <2>1, <2>4, <2>5, <2>7
  <2>9. Pending(IdleCpu) = 0 /\ IdleCpu.pc \notin Making
    BY IdleIs DEF Pending, Making
  <2>10. SentOn(c)' = b + u.tx /\ b + u.tx \in Int
    BY <1>1, <1>6, <2>2
  <2> QED
    BY <2>8, <2>9, <2>10 DEF CoreFlows
<1> HIDE DEF u
<1> QED
  BY <1>4, <1>5, <1>8, <1>9, FlowGoes

LEMMA FlowStep == EnginesInv /\ FlowInv /\ [Next]_vars => FlowInv'
<1> SUFFICES ASSUME EnginesInv, FlowInv, [Next]_vars PROVE FlowInv'
  OBVIOUS
<1>1. Held3 /\ MiscInv /\ CpuInv
  BY DEF EnginesInv, Held3
<1>0. UNCHANGED conf
  BY Zenon DEF Next, vars, mvars, bvars, FwdNext, CsumNext, NoisyNext, IoForward, RxOnly, FlowGen, IcmpEcho, Ieee1588,
     TxOnly, Discard, Filter, NotPtpSync, PtpSync, RawAlloc, NoMbuf, Prepare, PrepareFails, Generate, Generated,
     CsumReceive, Copied, NotCopied, GroBurst, GroContext, NoGro, GsoSegment, GsoWhole, GsoFails, TxPrepare,
     NoisyReceive, NoisyPoll, FirstTry, DoRetry, Retried, NoisySent, LookForRoom, Store, MakeRoom, Refill,
     DropOldest, NoFlush, Flush, DropFlushed, Flushed, TxDone, Send, Finish
<1>2. CASE ~Makes
  BY <1>0, <1>2 DEF FlowInv, Makes
<1>8. ASSUME Makes, NEW c \in Cores
      PROVE  cpu[c].pc \in {"idle", "discard", "alloc", "prepare", "generate", "send", "finish"}
  <2>1. Serves(cpu[c].pc, conf) /\ cpu[c].pc \in Pcs
    BY <1>1, CoreKnows DEF CpuInv, Fits
  <2> QED
    BY <1>8, <2>1 DEF Serves, Makes, Pcs, FirstPcs, FifoPcs
<1>3. ASSUME Makes, FwdNext PROVE FlowInv'
  <2>1. \A c \in Cores, s \in Streams : ~(IoForward(c, s) \/ RxOnly(c, s) \/ IcmpEcho(c, s) \/ Ieee1588(c, s))
    BY <1>3 DEF Makes, IoForward, RxOnly, IcmpEcho, Ieee1588
  <2>2. \A c \in Cores : ~(Filter(c) \/ NotPtpSync(c) \/ PtpSync(c))
    BY <1>3, <1>8 DEF Filter, NotPtpSync, PtpSync
  <2>3. ASSUME NEW c \in Cores, NEW s \in Streams, FlowGen(c, s) \/ TxOnly(c, s) PROVE FlowInv'
    BY <1>1, <1>3, <2>3, FlowGenFlows, TxOnlyFlows
  <2>4. ASSUME NEW c \in Cores,
               Discard(c) \/ RawAlloc(c) \/ NoMbuf(c) \/ PrepareFails(c) \/ Generated(c)
        PROVE  FlowInv'
    BY <1>1, <1>3, <2>4, DiscardFlows, RawAllocFlows, StopFlows, GeneratedFlows
  <2>5. ASSUME NEW c \in Cores, Prepare(c) \/ Generate(c) PROVE FlowInv'
    BY <1>1, <1>3, <2>5, PrepareFlows, GenerateFlows
  <2> QED
    BY <1>3, <2>1, <2>2, <2>3, <2>4, <2>5 DEF FwdNext
<1>4. Makes => ~CsumNext
  <2>1. Makes => \A c \in Cores, s \in Streams : ~CsumReceive(c, s)
    BY DEF Makes, CsumReceive
  <2>2. Makes => \A c \in Cores : ~(\/ Copied(c) \/ NotCopied(c) \/ GroBurst(c) \/ GroContext(c) \/ NoGro(c) \/ GsoSegment(c)
                                    \/ GsoWhole(c) \/ GsoFails(c) \/ TxPrepare(c))
    BY <1>8 DEF Copied, NotCopied, GroBurst, GroContext, NoGro, GsoSegment, GsoWhole, GsoFails, TxPrepare
  <2> QED
    BY <2>1, <2>2 DEF CsumNext
<1>5. Makes => ~NoisyNext
  <2>1. Makes => \A c \in Cores, s \in Streams : ~(NoisyReceive(c, s) \/ NoisyPoll(c, s))
    BY DEF Makes, NoisyReceive, NoisyPoll
  <2>2. Makes => \A c \in Cores : cpu[c].pc \notin FirstPcs \cup FifoPcs
    BY <1>8 DEF FirstPcs, FifoPcs
  <2>3. Makes => \A c \in Cores :
            ~(\/ FirstTry(c) \/ DoRetry(c) \/ Retried(c) \/ NoisySent(c) \/ LookForRoom(c) \/ Store(c) \/ MakeRoom(c)
              \/ Refill(c) \/ DropOldest(c) \/ NoFlush(c) \/ Flush(c) \/ DropFlushed(c) \/ Flushed(c))
    BY <2>2 DEF FirstPcs, FifoPcs, FirstTry, DoRetry, Retried, NoisySent, LookForRoom, Store, MakeRoom, Refill, DropOldest,
       NoFlush, Flush, DropFlushed, Flushed
  <2> QED
    BY <2>1, <2>3 DEF NoisyNext
<1>6. ASSUME TxDone \/ UNCHANGED mvars PROVE FlowInv'
  <2>1. UNCHANGED <<conf, fs, cpu, flow, next_flow, ip_var>>
    BY <1>6 DEF TxDone, mvars, bvars
  <2>2. \A c \in Cores : SentOn(c)' = SentOn(c)
    BY <2>1, SentSame
  <2>3. \A c \in Cores : Cursor(c)' = Cursor(c) /\ (Works(c)' <=> Works(c))
    BY <2>1 DEF Cursor, Works
  <2>4. Makes' <=> Makes
    BY <2>1 DEF Makes
  <2> QED
    BY <2>1, <2>2, <2>3, <2>4 DEF FlowInv, CoreFlows, Pending, FlowsOf
<1>7. ASSUME Makes, NEW c \in Cores, Send(c) \/ Finish(c) PROVE FlowInv'
  BY <1>1, <1>7, SendFlows, FinishFlows
<1> QED
  BY <1>2, <1>3, <1>4, <1>5, <1>6, <1>7 DEF Next, vars

\* The flows that txonly and flowgen put on the wire follow each other without a gap, whatever
\* was cut short, not taken by the port or not to be had from the pool.
THEOREM GeneratedFlowsFollow == Spec => []FlowsFollow
<1>1. Init => FlowInv
  <2> SUFFICES ASSUME Init, NEW c \in Cores PROVE CoreFlows(cpu[c], flow, Cursor(c), SentOn(c))
    BY DEF FlowInv
  <2>1. cpu[c].pc = "idle"
    BY IdleIs DEF Init
  <2>2. SentOn(c) = 0
    <3> DEFINE mine == {s \in Streams : conf.lcore[s] = c}
               f == [s \in mine |-> fs[s].tx]
    <3>1. IsFiniteSet(mine)
      BY BurstAssumption, FS_Subset
    <3>2. \A s \in mine : f[s] = 0
      BY DEF Init
    <3> HIDE DEF mine, f
    <3>3. SumFunctionOnSet(f, mine) = 0
      BY <3>1, <3>2, SumOfZeros
    <3> QED
      BY <3>3 DEF SentOn, mine, f
  <2>3. Cursor(c) = 0 /\ Pending(cpu[c]) = 0
    BY <2>1 DEF Init, Cursor, Pending, Making
  <2>4. (0 + 0) % NbFlows = 0
    BY BurstAssumption, SMTT(30)
  <2> QED
    BY <2>1, <2>2, <2>3, <2>4 DEF CoreFlows, Making
<1>2. EnginesInv /\ FlowInv => FlowsFollow
  <2> SUFFICES ASSUME EnginesInv, FlowInv, Makes, NEW c \in Cores, cpu[c].pc = "send",
                      NEW i \in (cpu[c].tx + 1) .. cpu[c].nb
               PROVE  flow[cpu[c].pkts[i]] = (SentOn(c) + (i - 1)) % NbFlows
    BY DEF FlowsFollow, Makes
  <2>1. cpu[c].pc \in Making
    BY DEF Making
  <2>2. cpu[c].s \in Streams /\ conf.lcore[cpu[c].s] = c
    BY <2>1, MakingKnows DEF EnginesInv
  <2>3. CoreFlows(cpu[c], flow, Cursor(c), SentOn(c))
    BY <2>2 DEF FlowInv, Works
  <2> QED
    BY <2>1, <2>3 DEF CoreFlows, FlowsOf
<1> QED
  BY <1>1, <1>2, FlowStep, EnginesAlways, PTL DEF Spec
=============================================================================
