----------------------------- MODULE FlowTokens ------------------------------
(***************************************************************************)
(* The words of the flow commands of testpmd: what token_list[] of         *)
(* cmdline_flow.c says of each, as far as the parser acts on it. A token   *)
(* is a tuple: <<"CREATE">> is one of a kind, <<"ITEM", "ipv4">> an item   *)
(* of a pattern, <<"ITEM", "ipv4", "ttl">> a field of it, and in the same  *)
(* way actions and their fields. Of a token are kept:                      *)
(*   - Next: the lists of tokens it pushes, of which the last is the one   *)
(*     the following word is looked up in;                                 *)
(*   - Args: the places it pushes, in which later values are stored. A     *)
(*     place is the object it is relative to, with the name of the field.  *)
(* What a value looks like and how wide it is are left out.                *)
(***************************************************************************)
EXTENDS Sequences

NoFields == [f \in {} |-> ""]

\* The entries of two tables
Joined(f, g) == [x \in DOMAIN f \cup DOMAIN g |-> IF x \in DOMAIN f THEN f[x] ELSE g[x]]

\* The value a field expects.
Uns == "UNSIGNED"
Bool == "BOOLEAN"
Mac == "MAC_ADDR"
Ip4 == "IPV4_ADDR"
Ip6 == "IPV6_ADDR"

-----------------------------------------------------------------------------
\* Items of a pattern and the values their fields expect
PlainItems ==
    [void |-> NoFields, invert |-> NoFields, any |-> [num |-> Uns], pf |-> NoFields, vf |-> [id |-> Uns],
     phy_port |-> [index |-> Uns], port_id |-> [id |-> Uns], mark |-> [id |-> Uns],
     raw |-> [relative |-> Bool, search |-> Bool, offset |-> "INTEGER", limit |-> Uns, pattern |-> "STRING"]]

EthItems ==
    [eth |-> [dst |-> Mac, src |-> Mac, type |-> Uns, has_vlan |-> Uns],
     vlan |-> [tci |-> Uns, pcp |-> Uns, dei |-> Uns, vid |-> Uns, inner_type |-> Uns, has_more_vlan |-> Uns],
     ipv4 |-> [tos |-> Uns, fragment_offset |-> Uns, ttl |-> Uns, proto |-> Uns, src |-> Ip4, dst |-> Ip4]]

IpItems ==
    [ipv6 |-> [tc |-> Uns, flow |-> Uns, proto |-> Uns, hop |-> Uns, src |-> Ip6, dst |-> Ip6, has_frag_ext |-> Uns],
     icmp |-> [type |-> Uns, code |-> Uns, ident |-> Uns, seq |-> Uns],
     udp |-> [src |-> Uns, dst |-> Uns],
     tcp |-> [src |-> Uns, dst |-> Uns, flags |-> Uns]]

TunnelItems ==
    [sctp |-> [src |-> Uns, dst |-> Uns, tag |-> Uns, cksum |-> Uns], vxlan |-> [vni |-> Uns],
     e_tag |-> [grp_ecid_b |-> Uns], nvgre |-> [tni |-> Uns], mpls |-> [label |-> Uns, tc |-> Uns, s |-> Uns]]

GreItems ==
    [gre |-> [protocol |-> Uns, c_rsvd0_ver |-> Uns, c_bit |-> Bool, s_bit |-> Bool, k_bit |-> Bool],
     fuzzy |-> [thresh |-> Uns], gtp |-> [v_pt_rsv_flags |-> Uns, msg_type |-> Uns, teid |-> Uns],
     gtpc |-> NoFields, gtpu |-> NoFields, geneve |-> [vni |-> Uns, protocol |-> Uns], vxlan_gpe |-> [vni |-> Uns]]

ArpItems ==
    [arp_eth_ipv4 |-> [sha |-> Mac, spa |-> Ip4, tha |-> Mac, tpa |-> Ip4], ipv6_ext |-> [next_hdr |-> Uns],
     ipv6_frag_ext |-> [next_hdr |-> Uns, frag_data |-> Uns], icmp6 |-> [type |-> Uns, code |-> Uns],
     icmp6_nd_ns |-> [target_addr |-> Ip6]]

NdItems ==
    [icmp6_nd_na |-> [target_addr |-> Ip6], icmp6_nd_opt |-> [type |-> Uns],
     icmp6_nd_opt_sla_eth |-> [sla |-> Mac], icmp6_nd_opt_tla_eth |-> [tla |-> Mac],
     meta |-> [data |-> Uns], gre_key |-> [value |-> Uns], gtp_psc |-> [qfi |-> Uns, pdu_t |-> Uns]]

SessionItems ==
    [pppoes |-> [seid |-> Uns], pppoed |-> NoFields, pppoe_proto_id |-> NoFields,
     higig2 |-> [classification |-> Uns, vid |-> Uns], tag |-> [data |-> Uns, index |-> Uns],
     l2tpv3oip |-> [session_id |-> Uns], esp |-> [spi |-> Uns], ah |-> [spi |-> Uns],
     pfcp |-> [s_field |-> Uns, seid |-> Uns]]

\* The type of an eCPRI header is a word, and each type has a field of its own.
EcpriTypes == [iq_data |-> "pc_id", rtc_ctrl |-> "rtc_id", delay_measure |-> "msr_id"]
EcpriFields == {EcpriTypes[t] : t \in DOMAIN EcpriTypes}

EcpriItems == [ecpri |-> [f \in EcpriFields |-> Uns]]

ItemFields == Joined(Joined(Joined(PlainItems, EthItems), Joined(IpItems, TunnelItems)),
                     Joined(Joined(GreItems, ArpItems), Joined(NdItems, Joined(SessionItems, EcpriItems))))

-----------------------------------------------------------------------------
\* Actions and the values their fields expect
PlainActions ==
    [void |-> NoFields, passthru |-> NoFields, jump |-> [group |-> Uns], mark |-> [id |-> Uns], flag |-> NoFields,
     queue |-> [index |-> Uns], drop |-> NoFields, count |-> [identifier |-> Uns, shared |-> Bool]]

RssActions == [rss |-> [level |-> Uns, key |-> "HEX", key_len |-> Uns]]
RssFuncs == {"default", "toeplitz", "simple_xor", "symmetric_toeplitz"}

PortActions ==
    [pf |-> NoFields, vf |-> [original |-> Bool, id |-> Uns], phy_port |-> [original |-> Bool, index |-> Uns],
     port_id |-> [original |-> Bool, id |-> Uns], meter |-> [mtr_id |-> Uns], of_set_mpls_ttl |-> [mpls_ttl |-> Uns]]

OfActions ==
    [of_dec_mpls_ttl |-> NoFields, of_set_nw_ttl |-> [nw_ttl |-> Uns], of_dec_nw_ttl |-> NoFields,
     of_copy_ttl_out |-> NoFields, of_copy_ttl_in |-> NoFields, of_pop_vlan |-> NoFields,
     of_push_vlan |-> [ethertype |-> Uns], of_set_vlan_vid |-> [vlan_vid |-> Uns],
     of_set_vlan_pcp |-> [vlan_pcp |-> Uns], of_pop_mpls |-> [ethertype |-> Uns], of_push_mpls |-> [ethertype |-> Uns]]

EncapActions ==
    [a \in {"vxlan_encap", "vxlan_decap", "nvgre_encap", "nvgre_decap", "l2_encap", "l2_decap", "mplsogre_encap",
            "mplsogre_decap", "mplsoudp_encap", "mplsoudp_decap"} |-> NoFields]

SetAddrActions ==
    [set_ipv4_src |-> [ipv4_addr |-> Ip4], set_ipv4_dst |-> [ipv4_addr |-> Ip4], set_ipv6_src |-> [ipv6_addr |-> Ip6],
     set_ipv6_dst |-> [ipv6_addr |-> Ip6], set_tp_src |-> [port |-> Uns], set_tp_dst |-> [port |-> Uns],
     mac_swap |-> NoFields, dec_ttl |-> NoFields, set_ttl |-> [ttl_value |-> Uns]]

SetMacActions ==
    [set_mac_src |-> [mac_addr |-> Mac], set_mac_dst |-> [mac_addr |-> Mac], inc_tcp_seq |-> [value |-> Uns],
     dec_tcp_seq |-> [value |-> Uns], inc_tcp_ack |-> [value |-> Uns], dec_tcp_ack |-> [value |-> Uns],
     raw_encap |-> NoFields, raw_decap |-> NoFields]

SetTagActions ==
    [set_tag |-> [index |-> Uns, data |-> Uns, mask |-> Uns], set_meta |-> [data |-> Uns, mask |-> Uns],
     set_ipv4_dscp |-> [dscp_value |-> Uns], set_ipv6_dscp |-> [dscp_value |-> Uns], age |-> [timeout |-> Uns],
     sample |-> [ratio |-> Uns]]

ActionFields == Joined(Joined(Joined(PlainActions, RssActions), Joined(PortActions, OfActions)),
                       Joined(Joined(EncapActions, SetAddrActions), Joined(SetMacActions, SetTagActions)))

\* Actions with an index that selects what a "set" command prepared
IndexedActions == {"raw_encap", "raw_decap", "sample"}

\* Their parse function selects the configuration, so their fields need no
\* callback that does; the fields of the others do.
SelfSelected == {"rss", "sample"}

-----------------------------------------------------------------------------
\* Fixed lists of tokens
Words(S) == {<<w>> : w \in S}

next_item == {<<"ITEM", i>> : i \in DOMAIN ItemFields \cup {"end"}} \cup Words({"END_SET"})
item_param == {<<"PARAM", p>> : p \in {"is", "spec", "last", "mask", "prefix"}}
next_action == {<<"ACTION", a>> : a \in DOMAIN ActionFields \cup {"shared", "end"}}
next_action_sample == {<<"ACTION", a>> : a \in {"queue", "mark", "count", "port_id", "raw_encap", "/"}}

CommandLists ==
    [flow_commands |-> Words({"SHARED_ACTION", "VALIDATE", "CREATE", "DESTROY", "FLUSH", "DUMP", "LIST", "AGED",
                              "QUERY", "ISOLATE", "TUNNEL"}),
     next_sa_create_attr |-> Words({"SHARED_ACTION_CREATE_ID", "SHARED_ACTION_INGRESS", "SHARED_ACTION_EGRESS",
                                    "SHARED_ACTION_TRANSFER", "SHARED_ACTION_SPEC"}),
     next_sa_subcmd |-> Words({"SHARED_ACTION_CREATE", "SHARED_ACTION_UPDATE", "SHARED_ACTION_DESTROY",
                               "SHARED_ACTION_QUERY"}),
     next_vc_attr |-> Words({"GROUP", "PRIORITY", "INGRESS", "EGRESS", "TRANSFER", "TUNNEL_SET", "TUNNEL_MATCH",
                             "PATTERN"}),
     next_destroy_attr |-> Words({"DESTROY_RULE", "END"}),
     next_dump_attr |-> Words({"FILE_PATH", "END"}),
     next_list_attr |-> Words({"LIST_GROUP", "END"}),
     next_aged_attr |-> Words({"AGED_DESTROY", "END"}),
     next_sa_destroy_attr |-> Words({"SHARED_ACTION_DESTROY_ID", "END"}),
     tunnel_commands |-> Words({"TUNNEL_CREATE", "TUNNEL_LIST", "TUNNEL_DESTROY"}),
     set_commands |-> Words({"SET_RAW_ENCAP", "SET_RAW_DECAP", "SET_SAMPLE_ACTIONS"})]

GrammarLists ==
    [next_set_raw |-> {<<"SET_RAW_INDEX">>, <<"ITEM", "eth">>},
     next_item |-> next_item, item_param |-> item_param,
     raw_param |-> {<<"PARAM", p>> : p \in {"is", "spec", "mask"}}, tag_param |-> {<<"PARAM", "is">>},
     next_action |-> next_action, next_action_sample |-> next_action_sample,
     ecpri_types |-> {<<"ECPRI", t>> : t \in DOMAIN EcpriTypes},
     rss_funcs |-> {<<"RSS_FUNC", f>> : f \in RssFuncs}]

\* Items that share the fields, and the structure, of another
Struct(i) == IF i \in {"gtpc", "gtpu"} THEN "gtp" ELSE IF i = "pppoed" THEN "pppoes" ELSE i

\* What may follow an item, and what may follow an action
AfterItem(i) ==
    {<<"ITEM", "/">>}
    \cup IF i = "ecpri" THEN {<<"ECPRI_COMMON">>} ELSE {<<"ITEM", Struct(i), f>> : f \in DOMAIN ItemFields[Struct(i)]}

AfterAction(a) ==
    {<<"ACTION", "/">>}
    \cup {<<"ACTION", a, f>> : f \in DOMAIN ActionFields[a]}
    \cup {<<"ACTION", a, "index">> : x \in {a} \cap IndexedActions}
    \cup {<<"ACTION", x>> : x \in {a} \cap {"age", "sample"}}
    \cup {<<"ACTION", x, f>> : x \in {a} \cap {"rss"}, f \in {"func", "types", "queues"}}

\* The tokens of a list. A list of one token goes by the name of the token.
ListOf(l) ==
    IF l[1] \in DOMAIN CommandLists THEN CommandLists[l[1]]
    ELSE IF l[1] \in DOMAIN GrammarLists THEN GrammarLists[l[1]]
    ELSE IF l[1] = "AFTER_ITEM" THEN AfterItem(l[2])
    ELSE IF l[1] = "AFTER_ACTION" THEN AfterAction(l[2])
    ELSE IF l[1] = "AFTER_TYPE" THEN {<<"ITEM", "ecpri", l[2]>>, <<"ITEM", "/">>}
    ELSE IF l[1] = "AFTER_MESSAGE" THEN {<<"ITEM", "ecpri", l[2]>>, <<"ECPRI_COMMON">>, <<"ITEM", "/">>}
    ELSE {l}

-----------------------------------------------------------------------------
Place(object, field) == [of |-> object, field |-> field]

\* A token of the commands: its lists by name, and its places
Word(next, args) == [next |-> [k \in DOMAIN next |-> <<next[k]>>], args |-> args]
Out(f) == Place(<<"out">>, f)

\* From the start of a line to the attributes of a rule or a shared action
CommandTokens ==
    [ZERO |-> Word(<<"FLOW">>, <<>>),
     START_SET |-> Word(<<"SET">>, <<>>),
     FLOW |-> Word(<<"flow_commands">>, <<>>),
     SHARED_ACTION |-> Word(<<"next_sa_subcmd", "PORT_ID">>, <<Out("port")>>),
     SHARED_ACTION_CREATE |-> Word(<<"next_sa_create_attr">>, <<>>),
     SHARED_ACTION_UPDATE |-> Word(<<"SHARED_ACTION_SPEC", "SHARED_ACTION_ID">>, <<Out("group")>>),
     SHARED_ACTION_DESTROY |-> Word(<<"SHARED_ACTION_DESTROY_ID">>, <<Out("port")>>),
     SHARED_ACTION_QUERY |-> Word(<<"END", "SHARED_ACTION_ID">>, <<Out("action_id")>>),
     VALIDATE |-> Word(<<"next_vc_attr", "PORT_ID">>, <<Out("port")>>),
     CREATE |-> Word(<<"next_vc_attr", "PORT_ID">>, <<Out("port")>>),
     DESTROY |-> Word(<<"DESTROY_RULE", "PORT_ID">>, <<Out("port")>>),
     FLUSH |-> Word(<<"PORT_ID">>, <<Out("port")>>),
     DUMP |-> Word(<<"next_dump_attr", "PORT_ID">>, <<Out("file"), Out("port")>>),
     QUERY |-> Word(<<"QUERY_ACTION", "RULE_ID", "PORT_ID">>, <<Out("action"), Out("rule"), Out("port")>>),
     LIST |-> Word(<<"next_list_attr", "PORT_ID">>, <<Out("port")>>),
     AGED |-> Word(<<"next_aged_attr", "PORT_ID">>, <<Out("port")>>),
     ISOLATE |-> Word(<<"BOOLEAN", "PORT_ID">>, <<Out("set"), Out("port")>>)]

AttributeTokens ==
    [TUNNEL |-> Word(<<"tunnel_commands">>, <<>>),
     TUNNEL_CREATE |-> Word(<<"TUNNEL_CREATE_TYPE", "PORT_ID">>, <<Out("port")>>),
     TUNNEL_CREATE_TYPE |-> Word(<<"FILE_PATH">>, <<Place(<<"tunnel_ops">>, "type")>>),
     TUNNEL_DESTROY |-> Word(<<"TUNNEL_DESTROY_ID", "PORT_ID">>, <<Out("port")>>),
     TUNNEL_DESTROY_ID |-> Word(<<"UNSIGNED">>, <<Place(<<"tunnel_ops">>, "id")>>),
     TUNNEL_LIST |-> Word(<<"PORT_ID">>, <<Out("port")>>),
     DESTROY_RULE |-> Word(<<"next_destroy_attr", "RULE_ID">>, <<Place(<<"id">>, "rule")>>),
     LIST_GROUP |-> Word(<<"next_list_attr", "GROUP_ID">>, <<Place(<<"id">>, "group")>>),
     GROUP |-> Word(<<"next_vc_attr", "GROUP_ID">>, <<Place(<<"attr">>, "group")>>),
     PRIORITY |-> Word(<<"next_vc_attr", "PRIORITY_LEVEL">>, <<Place(<<"attr">>, "priority")>>),
     INGRESS |-> Word(<<"next_vc_attr">>, <<>>),
     EGRESS |-> Word(<<"next_vc_attr">>, <<>>),
     TRANSFER |-> Word(<<"next_vc_attr">>, <<>>),
     TUNNEL_SET |-> Word(<<"next_vc_attr", "UNSIGNED">>, <<Place(<<"tunnel_ops">>, "id")>>),
     TUNNEL_MATCH |-> Word(<<"next_vc_attr", "UNSIGNED">>, <<Place(<<"tunnel_ops">>, "id")>>),
     PATTERN |-> Word(<<"next_item">>, <<>>)]
EntryTokens == [w \in {"ACTIONS"} |-> Word(<<"next_action">>, <<>>)]

\* The "set" commands, and the shared actions with their attributes
SetTokens ==
    [SET |-> Word(<<"set_commands">>, <<>>),
     SET_RAW_ENCAP |-> Word(<<"next_set_raw">>, <<Out("port")>>),
     SET_RAW_DECAP |-> Word(<<"next_set_raw">>, <<Out("port")>>),
     SET_RAW_INDEX |-> Word(<<"next_item">>, <<>>),
     SET_SAMPLE_INDEX |-> Word(<<"next_action_sample">>, <<>>),
     SET_SAMPLE_ACTIONS |-> Word(<<"SET_SAMPLE_INDEX">>, <<Out("port")>>)]

SharedTokens ==
    [SHARED_ACTION_DESTROY_ID |->
         Word(<<"next_sa_destroy_attr", "SHARED_ACTION_ID">>, <<Place(<<"id">>, "action_id")>>),
     SHARED_ACTION_CREATE_ID |-> Word(<<"next_sa_create_attr", "SHARED_ACTION_ID">>, <<Out("group")>>),
     SHARED_ACTION_INGRESS |-> Word(<<"next_sa_create_attr">>, <<>>),
     SHARED_ACTION_EGRESS |-> Word(<<"next_sa_create_attr">>, <<>>),
     SHARED_ACTION_TRANSFER |-> Word(<<"next_sa_create_attr">>, <<>>),
     SHARED_ACTION_SPEC |-> Word(<<"next_action">>, <<>>)]

EcpriTokens ==
    [ECPRI_COMMON |-> Word(<<"ECPRI_TYPE">>, <<>>),
     ECPRI_TYPE |-> Word(<<"ecpri_types">>, <<Place(<<"data", "ITEM", "ecpri">>, "type")>>)]

NamedTokens == Joined(Joined(CommandTokens, Joined(AttributeTokens, EntryTokens)),
                      Joined(SetTokens, Joined(SharedTokens, EcpriTokens)))

-----------------------------------------------------------------------------
ItemData(i) == <<"data", "ITEM", Struct(i)>>
ActionData(a) == <<"data", "ACTION", a>>

ItemNext(i) ==
    IF i = "/" THEN << <<"next_item">> >>
    ELSE IF i = "end" THEN << <<"ACTIONS">> >>
    ELSE IF i = "pppoe_proto_id" THEN << <<"AFTER_ITEM", i>>, <<Uns>>, <<"item_param">> >>
    ELSE << <<"AFTER_ITEM", i>> >>

ItemFieldNext(i, f) ==
    IF i = "raw" /\ f = "pattern" THEN << <<"AFTER_ITEM", i>>, <<"STRING">>, <<"raw_param">> >>
    ELSE IF i = "tag" /\ f = "index" THEN << <<"AFTER_ITEM", i>>, <<Uns>>, <<"tag_param">> >>
    ELSE IF i = "ecpri" THEN << <<"AFTER_MESSAGE", f>>, <<Uns>>, <<"item_param">> >>
    ELSE << <<"AFTER_ITEM", i>>, <<ItemFields[i][f]>>, <<"item_param">> >>

ItemFieldArgs(i, f) ==
    IF i = "raw" /\ f = "pattern"
      THEN <<Place(ItemData(i), "pattern"), Place(ItemData(i), "length"), Place(ItemData(i), "bytes")>>
      ELSE <<Place(ItemData(i), f)>>

ActionNext(a) ==
    IF a = "/" THEN << <<"next_action">> >>
    ELSE IF a = "shared" THEN << <<"SHARED_ACTION_ID2PTR">> >>
    ELSE IF a = "end" THEN <<>>
    ELSE << <<"AFTER_ACTION", a>> >>

ActionFieldNext(a, f) ==
    IF f = "index" /\ a \in IndexedActions THEN << <<"INDEX", a>> >>
    ELSE IF f = "func" THEN << <<"AFTER_ACTION", a>>, <<"rss_funcs">> >>
    ELSE IF f = "types" THEN << <<"AFTER_ACTION", a>>, <<"RSS_TYPE">> >>
    ELSE IF f = "queues" THEN << <<"AFTER_ACTION", a>>, <<"RSS_QUEUE">> >>
    ELSE << <<"AFTER_ACTION", a>>, <<ActionFields[a][f]>> >>

ActionFieldArgs(a, f) ==
    IF f \notin DOMAIN ActionFields[a] THEN <<>>
    ELSE IF f = "key" THEN <<Place(ActionData(a), f), Place(ActionData(a), "key_len"), Place(ActionData(a), "bytes")>>
    ELSE <<Place(ActionData(a), f)>>

\* token_list[t].next and token_list[t].args
Next_(t) ==
    IF t[1] \in DOMAIN NamedTokens THEN NamedTokens[t[1]].next
    ELSE IF t[1] = "ITEM" THEN IF Len(t) = 2 THEN ItemNext(t[2]) ELSE ItemFieldNext(t[2], t[3])
    ELSE IF t[1] = "ACTION" THEN IF Len(t) = 2 THEN ActionNext(t[2]) ELSE ActionFieldNext(t[2], t[3])
    ELSE IF t[1] = "ECPRI" THEN << <<"AFTER_TYPE", EcpriTypes[t[2]]>> >>
    ELSE IF t[1] \in {"INDEX", "SHARED_ACTION_ID2PTR"} THEN << <<"ACTION", "/">> >>
    ELSE <<>>

Args_(t) ==
    IF t[1] \in DOMAIN NamedTokens THEN NamedTokens[t[1]].args
    ELSE IF t[1] = "ITEM" /\ Len(t) = 3 THEN ItemFieldArgs(t[2], t[3])
    ELSE IF t = <<"ITEM", "pppoe_proto_id">> THEN <<Place(ItemData(t[2]), "proto_id")>>
    ELSE IF t[1] = "ACTION" /\ Len(t) = 3 THEN ActionFieldArgs(t[2], t[3])
    ELSE IF t = <<"ACTION", "shared">> THEN <<Place(<<"id">>, "id")>>
    ELSE <<>>
=============================================================================
