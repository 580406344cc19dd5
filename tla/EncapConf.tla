------------------------------ MODULE EncapConf ------------------------------
(***************************************************************************)
(* The headers that flow actions put on and take off. The "set vxlan",     *)
(* "set l2_encap" ... commands of cmdline.c fill one global configuration  *)
(* each; an action word of a later flow command (cmdline_flow.c) builds    *)
(* its header from the configurations as they then are. Some actions read  *)
(* the configuration of another tunnel: the header is right only while     *)
(* the two agree.                                                          *)
(*                                                                         *)
(* A command's values (addresses, ports, labels) are one value of          *)
(* ConfValues; 0 stands for what a configuration starts with.              *)
(***************************************************************************)
EXTENDS Integers, Sequences

CONSTANTS
    ConfValues,     \* what a set command can give (bound)
    MaxSets         \* set commands (bound)

VARIABLES
    encap,      \* [kind -> its ..._conf]
    last_set,       \* [kind -> the last set command of it]
    header,     \* the header of the last action word: [kind, layers], or none
    sets        \* set commands so far

evars == <<encap, last_set, header, sets>>

Tunnels == {"mplsogre_encap", "mplsoudp_encap"}
TunnelEnds == {"mplsogre_decap", "mplsoudp_decap"}
ConfKinds == {"vxlan", "nvgre", "l2_encap", "l2_decap"} \cup Tunnels \cup TunnelEnds

\* Fields a configuration does not have keep what they start with.
vxlan_encap_conf == [vlan |-> FALSE, ipv4 |-> TRUE, tos |-> FALSE, common |-> 0, addr4 |-> 0, addr6 |-> 0,
                     tci |-> 0, tos_ttl |-> 0]
nvgre_encap_conf == vxlan_encap_conf
other_conf == [vxlan_encap_conf EXCEPT !.ipv4 = FALSE]
StartingConf(k) == IF k = "vxlan" THEN vxlan_encap_conf ELSE IF k = "nvgre" THEN nvgre_encap_conf ELSE other_conf

Unset(k) == [vlan |-> FALSE, tos |-> FALSE, ipv4 |-> StartingConf(k).ipv4, v |-> 0]

NoHeader == [kind |-> "none", layers |-> <<>>]

EInit == /\ encap = [k \in ConfKinds |-> StartingConf(k)]
         /\ last_set = [k \in ConfKinds |-> Unset(k)]
         /\ header = NoHeader
         /\ sets = 0

-----------------------------------------------------------------------------
\* What the words of a command leave alone, the configuration keeps: the addresses
\* of the other family, and the tag of the vlan when the command is without one.
Addresses(c, s) == [c EXCEPT !.addr4 = IF s.ipv4 THEN s.v ELSE @, !.addr6 = IF s.ipv4 THEN @ ELSE s.v]
Tag(c, s) == [c EXCEPT !.tci = IF s.vlan THEN s.v ELSE @]
Selected(c, s) == [c EXCEPT !.vlan = s.vlan, !.ipv4 = s.ipv4]

Set(kind, s, c) ==
    /\ sets < MaxSets
    /\ sets' = sets + 1
    /\ encap' = [encap EXCEPT ![kind] = c]
    /\ last_set' = [last_set EXCEPT ![kind] = s]
    /\ header' = NoHeader

\* Seeded fault: whether there is a type of service is not reset.
cmd_set_vxlan_parsed_Keeps(s) ==
    /\ ~(s.vlan /\ s.tos)
    /\ Set("vxlan", s, [Tag(Addresses(Selected(encap["vxlan"], s), s), s)
                          EXCEPT !.tos = @ \/ s.tos, !.common = s.v, !.tos_ttl = s.v])

\* "vxlan-tos-ttl" is without a vlan, and every other vxlan command without tos and ttl.
cmd_set_vxlan_parsed(s) ==
    /\ ~(s.vlan /\ s.tos)
    /\ Set("vxlan", s, [Tag(Addresses(Selected(encap["vxlan"], s), s), s)
                          EXCEPT !.tos = s.tos, !.common = s.v, !.tos_ttl = s.v])

cmd_set_nvgre_parsed(s) ==
    /\ ~s.tos
    /\ Set("nvgre", s, [Tag(Addresses(Selected(encap["nvgre"], s), s), s) EXCEPT !.common = s.v])

cmd_set_l2_encap_parsed(s) ==
    /\ ~s.tos
    /\ Set("l2_encap", s, [Tag(Selected(encap["l2_encap"], s), s) EXCEPT !.common = s.v])

\* "set l2_decap" gives nothing but whether there is a vlan.
cmd_set_l2_decap_parsed(s) ==
    /\ ~s.tos /\ ~s.ipv4 /\ s.v = 0
    /\ Set("l2_decap", s, [encap["l2_decap"] EXCEPT !.vlan = s.vlan])

cmd_set_mplsogre_encap_parsed(s) ==
    /\ ~s.tos
    /\ Set("mplsogre_encap", s, [Tag(Addresses(Selected(encap["mplsogre_encap"], s), s), s) EXCEPT !.common = s.v])

cmd_set_mplsoudp_encap_parsed(s) ==
    /\ ~s.tos
    /\ Set("mplsoudp_encap", s, [Tag(Addresses(Selected(encap["mplsoudp_encap"], s), s), s) EXCEPT !.common = s.v])

cmd_set_mplsogre_decap_parsed(s) ==
    /\ ~s.tos /\ s.v = 0
    /\ Set("mplsogre_decap", s, Selected(encap["mplsogre_decap"], s))

cmd_set_mplsoudp_decap_parsed(s) ==
    /\ ~s.tos /\ s.v = 0
    /\ Set("mplsoudp_decap", s, Selected(encap["mplsoudp_decap"], s))

-----------------------------------------------------------------------------
\* The layers of a header, in order: [layer, v]; an Ethernet header also says
\* what it announces after it.
Layer(name, v) == [layer |-> name, v |-> v, announces |-> "any"]
Announcing(name, v, next) == [layer |-> name, v |-> v, announces |-> next]
Ip(c) == IF c.ipv4 THEN "ipv4" ELSE "ipv6"
IpLayer(c) == Layer(Ip(c), IF c.ipv4 THEN c.addr4 ELSE c.addr6)
VlanIf(c, tci, next) == IF c.vlan THEN <<Announcing("vlan", tci, next)>> ELSE <<>>
Built(kind, layers) == /\ header' = [kind |-> kind, layers |-> layers]
                       /\ UNCHANGED <<encap, last_set, sets>>

\* Items, for the device to make a header of: they announce nothing.
parse_vc_action_vxlan_encap ==
    LET c == encap["vxlan"]
    IN  Built("vxlan", <<Layer("eth", c.common)>> \o VlanIf(c, c.tci, "any") \o
                       <<IpLayer(c)>> \o (IF c.tos THEN <<Layer("tos_ttl", c.tos_ttl)>> ELSE <<>>) \o
                       <<Layer("udp", c.common), Layer("vxlan", c.common)>>)

parse_vc_action_nvgre_encap ==
    LET c == encap["nvgre"]
    IN  Built("nvgre", <<Layer("eth", c.common)>> \o VlanIf(c, c.tci, "any") \o
                       <<IpLayer(c)>> \o <<Layer("nvgre", c.common)>>)

\* The tag comes from the configuration of MPLS over UDP.
parse_vc_action_l2_encap ==
    LET c == encap["l2_encap"]
    IN  Built("l2_encap", <<Announcing("eth", c.common, IF c.vlan THEN "vlan" ELSE Ip(c))>> \o
                          VlanIf(c, encap["mplsoudp_encap"].tci, Ip(c)))

parse_vc_action_l2_decap ==
    LET c == encap["l2_decap"]
    IN  Built("l2_decap", <<Announcing("eth", 0, IF c.vlan THEN "vlan" ELSE "any")>> \o
                          VlanIf(c, encap["mplsoudp_encap"].tci, "any"))

MplsOver(kind, c, over) ==
    Built(kind, <<Announcing("eth", c.common, IF c.vlan THEN "vlan" ELSE Ip(c))>> \o VlanIf(c, c.tci, Ip(c)) \o
                <<IpLayer(c)>> \o <<over, Layer("mpls", c.common)>>)

parse_vc_action_mplsogre_encap == MplsOver("mplsogre_encap", encap["mplsogre_encap"], Layer("gre", 0))
parse_vc_action_mplsoudp_encap ==
    MplsOver("mplsoudp_encap", encap["mplsoudp_encap"], Layer("udp", encap["mplsoudp_encap"].common))

\* Of the header to take off, the configuration of taking off says only whether the
\* Ethernet header announces a vlan; all the rest is that of putting on.
MplsOff(kind, own, other, over) ==
    Built(kind, <<Announcing("eth", other.common, IF own.vlan THEN "vlan" ELSE Ip(other))>> \o
                VlanIf(other, 0, Ip(other)) \o <<Layer(Ip(other), 0)>> \o <<over, Layer("mpls", 0)>>)

parse_vc_action_mplsogre_decap ==
    MplsOff("mplsogre_decap", encap["mplsogre_decap"], encap["mplsogre_encap"], Layer("gre", 0))
parse_vc_action_mplsoudp_decap ==
    MplsOff("mplsoudp_decap", encap["mplsoudp_decap"], encap["mplsoudp_encap"], Layer("udp", 0))

SetCommands == [vlan : BOOLEAN, tos : BOOLEAN, ipv4 : BOOLEAN, v : ConfValues \cup {0}]

SetCommand(s) ==
    \/ s.v # 0 /\ (\/ cmd_set_vxlan_parsed(s) \/ cmd_set_nvgre_parsed(s) \/ cmd_set_l2_encap_parsed(s)
                   \/ cmd_set_mplsogre_encap_parsed(s) \/ cmd_set_mplsoudp_encap_parsed(s))
    \/ s.v = 0 /\ (\/ cmd_set_l2_decap_parsed(s)
                   \/ cmd_set_mplsogre_decap_parsed(s) \/ cmd_set_mplsoudp_decap_parsed(s))

ENext == \/ \E s \in SetCommands : SetCommand(s)
         \/ parse_vc_action_vxlan_encap \/ parse_vc_action_nvgre_encap
         \/ parse_vc_action_l2_encap \/ parse_vc_action_l2_decap
         \/ parse_vc_action_mplsogre_encap \/ parse_vc_action_mplsogre_decap
         \/ parse_vc_action_mplsoudp_encap \/ parse_vc_action_mplsoudp_decap

-----------------------------------------------------------------------------
\* The configurations an action borrows from, and when that shows
Lender(k) == IF k \in {"l2_encap", "mplsoudp_decap"} THEN "mplsoudp_encap" ELSE "mplsogre_encap"
Agrees(k) ==
    IF k = "l2_encap"
      THEN last_set[k].vlan => last_set[Lender(k)].vlan /\ last_set[k].v = last_set[Lender(k)].v
    ELSE IF k \in TunnelEnds
      THEN last_set[k].vlan = last_set[Lender(k)].vlan /\ last_set[k].ipv4 = last_set[Lender(k)].ipv4
    ELSE TRUE

LayerNames(layers) == [i \in DOMAIN layers |-> layers[i].layer]
OuterNames(s) == <<"eth">> \o (IF s.vlan THEN <<"vlan">> ELSE <<>>)
WantedNames(k, s) ==
    OuterNames(s) \o
    (IF k \in {"l2_encap", "l2_decap"} THEN <<>> ELSE <<Ip(s)>>) \o
    (IF s.tos THEN <<"tos_ttl">> ELSE <<>>) \o
    (IF k = "vxlan" THEN <<"udp", "vxlan">>
     ELSE IF k = "nvgre" THEN <<"nvgre">>
     ELSE IF k \in {"mplsogre_encap", "mplsogre_decap"} THEN <<"gre", "mpls">>
     ELSE IF k \in {"mplsoudp_encap", "mplsoudp_decap"} THEN <<"udp", "mpls">>
     ELSE <<>>)

\* A header has the layers that the last "set" of its own kind asks for, with the
\* values of that command and of none before it, each layer announcing the one that
\* follows: whatever was set in between, and unless the action borrows from the
\* configuration of another tunnel that was set to something else.
HeaderAsSet ==
    LET k == header.kind
    IN  k # "none" /\ Agrees(k) =>
        /\ LayerNames(header.layers) = WantedNames(k, last_set[k])
        /\ k \notin TunnelEnds \cup {"l2_decap"} =>
             \A i \in DOMAIN header.layers : header.layers[i].layer # "gre" => header.layers[i].v = last_set[k].v
        /\ \A i \in DOMAIN header.layers :
             i < Len(header.layers) => header.layers[i].announces \in {"any", header.layers[i + 1].layer}
=============================================================================
