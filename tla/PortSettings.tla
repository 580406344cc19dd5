---------------------------- MODULE PortSettings -----------------------------
(***************************************************************************)
(* The settings of ports that commands change at the prompt, and how they  *)
(* reach the devices. Most commands write struct rte_port of a stopped     *)
(* port and flag it; "port start" then configures the device from it. Some *)
(* write the device and the port at once, and some write a global setting  *)
(* that init_port_config() spreads over all ports.                         *)
(*                                                                         *)
(* Each setting has two values; an offload is a name; the forwarding is    *)
(* stopped. rte_eth_dev_info_get() answers for the first ports only.       *)
(***************************************************************************)
EXTENDS Integers, FiniteSets

CONSTANTS
    SetPorts,       \* ports, 0 .. n - 1
    SetQueues,      \* queues of each direction of a port
    Capa,           \* [port -> offloads its device is capable of]
    Families,       \* sets of commands; a session uses those of one (bound)
    MaxSettings     \* commands (bound)

VARIABLES
    conf,       \* struct rte_port: [port |-> dev_conf, queue |-> [queue -> rx_conf, tx_conf, nb_desc]]
    device,     \* the same of the device
    soft,       \* settings of a port that never reach the device
    need,       \* [need_reconfig, need_reconfig_queues]
    up,         \* ports that are started
    globals,    \* thresholds and the like; rss_hf; DCB mode
    said,       \* offloads each queue was last told to have: [port -> [queue -> [rx, tx]]]
    family,     \* the commands of this session
    settings,   \* commands so far
    slips       \* what has happened that a restart does not recover from

svars == <<conf, device, soft, need, up, globals, said, family, settings, slips>>

RxBits == {"jumbo", "strip", "filter", "extend", "qinq_strip"}
TxBits == {"vlan", "qinq", "csum", "tso", "tunnel_tso"}

NewPort == [speed |-> 0, lpbk |-> 0, frame |-> 0, lro |-> 0, rss |-> 0, mq |-> "none", rx |-> {}, tx |-> {}]
NewQueue == [rx |-> {}, tx |-> {}, rxd |-> 0, txd |-> 0, thresh |-> 0, rx_late |-> FALSE, tx_late |-> FALSE]
NewConf == [port |-> NewPort, queue |-> [q \in SetQueues |-> NewQueue]]

SInit ==
    /\ conf = [p \in SetPorts |-> NewConf]
    /\ device = conf
    /\ soft = [p \in SetPorts |-> [tag |-> 0, segsz |-> 0, tunnel_segsz |-> 0, parse_tunnel |-> FALSE, dcb |-> FALSE]]
    /\ need = [p \in SetPorts |-> [dev |-> FALSE, queues |-> FALSE]]
    /\ up \in {{}, SetPorts}
    /\ globals = [thresh |-> 0, rss |-> 0, dcb_config |-> FALSE]
    /\ said = [p \in SetPorts |-> [q \in SetQueues |-> [rx |-> {}, tx |-> {}]]]
    /\ family \in Families
    /\ settings = 0
    /\ slips = {}

-----------------------------------------------------------------------------
Switched(bits, b, on) == IF on THEN bits \cup {b} ELSE bits \ {b}

\* Flags are raised here and lowered by "port start" only.
cmd_reconfig_device_queue(ps, dev, queues) ==
    need' = [p \in SetPorts |-> IF p \in ps THEN [dev |-> need[p].dev \/ dev, queues |-> need[p].queues \/ queues]
                                ELSE need[p]]

\* A queue gets the default configuration of the device, the global thresholds and
\* ring sizes; of what it was set to, only its offloads stay.
rxtx_port_config(c, g) ==
    [c EXCEPT !.queue = [q \in SetQueues |-> [NewQueue EXCEPT !.rx = c.queue[q].rx, !.tx = c.queue[q].tx,
                                                              !.thresh = g.thresh]]]

\* Every port in turn, until a device does not answer
init_port_config(cs, g, answers) ==
    [p \in SetPorts |->
       IF p >= answers THEN cs[p]
       ELSE rxtx_port_config([cs[p] EXCEPT !.port.rss = g.rss,
                                           !.port.mq = IF soft[p].dcb THEN @ ELSE IF g.rss # 0 THEN "rss" ELSE "none"], g)]

Command_(name) == /\ name \in family
                  /\ settings < MaxSettings
                  /\ settings' = settings + 1
                  /\ UNCHANGED family

\* What most commands leave alone
Rest == UNCHANGED <<device, soft, up, globals, said, slips>>

all_ports_stopped == up = {}
port_is_stopped(p) == p \notin up

-----------------------------------------------------------------------------
\* Settings of the port alone. The speed of one port flags all of them.
cmd_config_speed_all_parsed(v) ==
    /\ Command_("speed") /\ all_ports_stopped
    /\ conf' = [p \in SetPorts |-> [conf[p] EXCEPT !.port.speed = v]]
    /\ cmd_reconfig_device_queue(SetPorts, TRUE, TRUE)
    /\ Rest

cmd_config_speed_specific_parsed(p, v) ==
    /\ Command_("speed") /\ port_is_stopped(p)
    /\ conf' = [conf EXCEPT ![p].port.speed = v]
    /\ cmd_reconfig_device_queue(SetPorts, TRUE, TRUE)
    /\ Rest

cmd_config_loopback_all_parsed(v) ==
    /\ Command_("loopback") /\ all_ports_stopped
    /\ conf' = [p \in SetPorts |-> [conf[p] EXCEPT !.port.lpbk = v]]
    /\ cmd_reconfig_device_queue(SetPorts, TRUE, TRUE)
    /\ Rest

cmd_config_loopback_specific_parsed(p, v) ==
    /\ Command_("loopback") /\ port_is_stopped(p)
    /\ conf' = [conf EXCEPT ![p].port.lpbk = v]
    /\ cmd_reconfig_device_queue({p}, TRUE, TRUE)
    /\ Rest

\* The jumbo frame offload follows the frame size, on the port and, when it changes
\* there, on its queues; a frame the device cannot take is refused.
update_jumbo_frame_offload(c, p, frame) ==
    LET rx == Switched(c.port.rx, "jumbo", frame = 1)
    IN  IF frame = 1 /\ "jumbo" \notin Capa[p] THEN c
        ELSE [c EXCEPT !.port.frame = frame, !.port.rx = rx,
                       !.queue = [q \in SetQueues |->
                                    IF rx = c.port.rx THEN c.queue[q]
                                    ELSE [c.queue[q] EXCEPT !.rx = Switched(@, "jumbo", frame = 1)]]]

Frames(cs) == [p \in SetPorts |-> IF cs[p].port.rx = conf[p].port.rx THEN said[p]
                                  ELSE [q \in SetQueues |->
                                          [said[p][q] EXCEPT !.rx = Switched(@, "jumbo", "jumbo" \in cs[p].port.rx)]]]

\* The loop ends at a port that has the size already or does not answer; the ports
\* before it have the new one, and no port is flagged.
cmd_config_max_pkt_len_parsed(frame, answers) ==
    LET reached == {p \in SetPorts : \A j \in 0 .. p : conf[j].port.frame # frame /\ j < answers}
        set == [p \in SetPorts |-> IF p \in reached THEN update_jumbo_frame_offload(conf[p], p, frame) ELSE conf[p]]
    IN  /\ Command_("max-pkt-len") /\ all_ports_stopped
        /\ IF reached = SetPorts
             THEN /\ conf' = init_port_config(set, globals, answers)
                  /\ cmd_reconfig_device_queue(SetPorts, TRUE, TRUE)
                  /\ slips' = slips
             ELSE /\ conf' = set
                  /\ need' = need
                  /\ slips' = IF set = conf THEN slips ELSE slips \cup {"early return"}
        /\ said' = Frames(conf')
        /\ UNCHANGED <<device, soft, up, globals>>

cmd_config_max_lro_pkt_size_parsed(v) ==
    LET reached == {p \in SetPorts : \A j \in 0 .. p : conf[j].port.lro # v}
        set == [p \in SetPorts |-> IF p \in reached THEN [conf[p] EXCEPT !.port.lro = v] ELSE conf[p]]
    IN  /\ Command_("max-lro-pkt-size") /\ all_ports_stopped
        /\ IF reached = SetPorts
             THEN /\ conf' = init_port_config(set, globals, Cardinality(SetPorts))
                  /\ cmd_reconfig_device_queue(SetPorts, TRUE, TRUE)
                  /\ slips' = slips
             ELSE /\ conf' = set
                  /\ need' = need
                  /\ slips' = IF set = conf THEN slips ELSE slips \cup {"early return"}
        /\ UNCHANGED <<device, soft, up, globals, said>>

\* The MTU is given to the device, started or not; the port takes over what a frame
\* of that size needs, and is not flagged.
port_mtu_set(p, frame, taken) ==
    /\ conf' = IF taken /\ "jumbo" \in Capa[p]
                 THEN [conf EXCEPT ![p].port.rx = Switched(@, "jumbo", frame = 1),
                                   ![p].port.frame = IF frame = 1 THEN 1 ELSE @]
               ELSE conf
    /\ slips' = IF conf' = conf THEN slips ELSE slips \cup {"mtu"}
    /\ UNCHANGED <<device, soft, need, up, globals, said>>

cmd_config_mtu_parsed(p, frame, taken) == Command_("mtu") /\ port_mtu_set(p, frame, taken)

\* Thresholds, rx drop and burst are global and spread over the ports.
Spread(g, answers) ==
    /\ all_ports_stopped
    /\ globals' = g
    /\ conf' = init_port_config(conf, g, answers)
    /\ cmd_reconfig_device_queue(SetPorts, TRUE, TRUE)
    /\ UNCHANGED <<device, soft, up, said, slips>>

cmd_config_rx_mode_flag_parsed(v, answers) == Command_("drop-en") /\ Spread([globals EXCEPT !.thresh = v], answers)
cmd_config_thresh_parsed(v, answers) == Command_("thresh") /\ Spread([globals EXCEPT !.thresh = v], answers)
cmd_config_threshold_parsed(v, answers) == Command_("threshold") /\ Spread([globals EXCEPT !.thresh = v], answers)
cmd_config_burst_parsed(answers) == Command_("burst") /\ Spread(globals, answers)

\* The hash functions are given to every device at once and, when each takes them,
\* remembered for the next init_port_config(); dev_conf has the old ones till then.
cmd_config_rss_parsed(v, taken) ==
    /\ Command_("rss")
    /\ device' = [p \in SetPorts |-> IF p \in taken THEN [device[p] EXCEPT !.port.rss = v] ELSE device[p]]
    /\ globals' = IF taken = SetPorts THEN [globals EXCEPT !.rss = v] ELSE globals
    /\ slips' = IF device' = device THEN slips ELSE slips \cup {"rss"}
    /\ UNCHANGED <<conf, soft, need, up, said>>

-----------------------------------------------------------------------------
\* Settings of one queue. Ring sizes may be set on a started port.
cmd_config_rxtx_ring_size_parsed(p, q, isrx, v) ==
    /\ Command_("ring_size")
    /\ conf' = IF isrx THEN [conf EXCEPT ![p].queue[q].rxd = v] ELSE [conf EXCEPT ![p].queue[q].txd = v]
    /\ cmd_reconfig_device_queue({p}, FALSE, TRUE)
    /\ Rest

cmd_config_deferred_start_rxtx_queue_parsed(p, q, isrx, ison) ==
    LET set == IF isrx THEN [conf EXCEPT ![p].queue[q].rx_late = ison] ELSE [conf EXCEPT ![p].queue[q].tx_late = ison]
    IN  /\ Command_("deferred_start") /\ port_is_stopped(p)
        /\ conf' = set
        /\ cmd_reconfig_device_queue({p}, FALSE, set # conf)
        /\ Rest

\* One queue is set up at once, if the device lets it.
cmd_setup_rxtx_queue_parsed(p, q, isrx, taken) ==
    LET now == conf[p].queue[q] IN
    /\ Command_("setup")
    /\ device' = [device EXCEPT ![p].queue[q] =
                    IF ~taken THEN @
                    ELSE IF isrx
                      THEN [@ EXCEPT !.rx = now.rx, !.rxd = now.rxd, !.thresh = now.thresh, !.rx_late = now.rx_late]
                      ELSE [@ EXCEPT !.tx = now.tx, !.txd = now.txd, !.tx_late = now.tx_late]]
    /\ UNCHANGED <<conf, soft, need, up, globals, said, slips>>

\* Offloads by name, of a port with its queues and of one queue
Heard(t, dir, b, on) == [t EXCEPT ![dir] = Switched(@, b, on)]
Told(p, qs, dir, b, on) ==
    said' = [said EXCEPT ![p] = [q \in SetQueues |-> IF q \in qs THEN Heard(said[p][q], dir, b, on) ELSE said[p][q]]]

\* Seeded fault: its queues keep theirs.
cmd_config_per_port_rx_offload_parsed_Port(p, b, on) ==
    /\ Command_("rx_offload") /\ port_is_stopped(p)
    /\ conf' = [conf EXCEPT ![p].port.rx = Switched(@, b, on)]
    /\ Told(p, SetQueues, "rx", b, on)
    /\ cmd_reconfig_device_queue({p}, TRUE, TRUE)
    /\ UNCHANGED <<device, soft, up, globals, slips>>

cmd_config_per_port_rx_offload_parsed(p, b, on) ==
    /\ Command_("rx_offload") /\ port_is_stopped(p)
    /\ conf' = LET c == conf[p] IN
                 [conf EXCEPT ![p] =
                    [port |-> [c.port EXCEPT !.rx = Switched(@, b, on)],
                     queue |-> [q \in SetQueues |-> [c.queue[q] EXCEPT !.rx = Switched(@, b, on)]]]]
    /\ Told(p, SetQueues, "rx", b, on)
    /\ cmd_reconfig_device_queue({p}, TRUE, TRUE)
    /\ UNCHANGED <<device, soft, up, globals, slips>>

cmd_config_per_queue_rx_offload_parsed(p, q, b, on) ==
    /\ Command_("queue_rx_offload") /\ port_is_stopped(p)
    /\ conf' = [conf EXCEPT ![p].queue[q].rx = Switched(@, b, on)]
    /\ Told(p, {q}, "rx", b, on)
    /\ cmd_reconfig_device_queue({p}, TRUE, TRUE)
    /\ UNCHANGED <<device, soft, up, globals, slips>>

cmd_config_per_port_tx_offload_parsed(p, b, on) ==
    /\ Command_("tx_offload") /\ port_is_stopped(p)
    /\ conf' = LET c == conf[p] IN
                 [conf EXCEPT ![p] =
                    [port |-> [c.port EXCEPT !.tx = Switched(@, b, on)],
                     queue |-> [q \in SetQueues |-> [c.queue[q] EXCEPT !.tx = Switched(@, b, on)]]]]
    /\ Told(p, SetQueues, "tx", b, on)
    /\ cmd_reconfig_device_queue({p}, TRUE, TRUE)
    /\ UNCHANGED <<device, soft, up, globals, slips>>

cmd_config_per_queue_tx_offload_parsed(p, q, b, on) ==
    /\ Command_("queue_tx_offload") /\ port_is_stopped(p)
    /\ conf' = [conf EXCEPT ![p].queue[q].tx = Switched(@, b, on)]
    /\ Told(p, {q}, "tx", b, on)
    /\ cmd_reconfig_device_queue({p}, TRUE, TRUE)
    /\ UNCHANGED <<device, soft, up, globals, slips>>

-----------------------------------------------------------------------------
\* VLAN offloads go to the device first and, when it takes them, to the port; its
\* queues keep theirs.
VlanOffload(p, b, on, taken) ==
    /\ conf' = IF taken THEN [conf EXCEPT ![p].port.rx = Switched(@, b, on)] ELSE conf
    /\ device' = IF taken THEN [device EXCEPT ![p].port.rx = Switched(@, b, on)] ELSE device
    /\ IF taken THEN Told(p, SetQueues, "rx", b, on) ELSE said' = said
    /\ slips' = slips \cup {s \in {"queues keep"} : taken /\ ~on /\ \E q \in SetQueues : b \in conf[p].queue[q].rx}
    /\ UNCHANGED <<soft, need, up, globals>>

vlan_extend_set(p, on, taken) == VlanOffload(p, "extend", on, taken)
rx_vlan_strip_set(p, on, taken) == VlanOffload(p, "strip", on, taken)
rx_vlan_filter_set(p, on, taken) == VlanOffload(p, "filter", on, taken)
rx_vlan_qinq_strip_set(p, on, taken) == VlanOffload(p, "qinq_strip", on, taken)

cmd_vlan_offload_parsed(p, on, taken) ==
    /\ Command_("vlan")
    /\ \/ vlan_extend_set(p, on, taken) \/ rx_vlan_strip_set(p, on, taken)
       \/ rx_vlan_filter_set(p, on, taken) \/ rx_vlan_qinq_strip_set(p, on, taken)

\* The tag that the port inserts: its offload goes to the port, not to its queues.
\* The port is flagged whether or not anything was set.
tx_vlan_reset(tx) == tx \ {"vlan", "qinq"}

Tagged(p, tx, tag) ==
    /\ conf' = [conf EXCEPT ![p].port.tx = tx]
    /\ soft' = [soft EXCEPT ![p].tag = tag]
    /\ said' = [said EXCEPT ![p] = [q \in SetQueues |->
                   [said[p][q] EXCEPT !.tx = tx_vlan_reset(said[p][q].tx) \cup (tx \cap {"vlan", "qinq"})]]]
    /\ slips' = slips \cup {s \in {"queues keep"} :
                              \E q \in SetQueues : (conf[p].queue[q].tx \cap {"vlan", "qinq"}) \ tx # {}}

TagCommand(p, able, tx, tag) ==
    /\ port_is_stopped(p)
    /\ IF able THEN Tagged(p, tx, tag) ELSE UNCHANGED <<conf, soft, said, slips>>
    /\ cmd_reconfig_device_queue({p}, TRUE, TRUE)
    /\ UNCHANGED <<device, up, globals>>

tx_vlan_set(p) ==
    TagCommand(p, "qinq" \notin conf[p].port.tx /\ "vlan" \in Capa[p], tx_vlan_reset(conf[p].port.tx) \cup {"vlan"}, 1)
tx_qinq_set(p) ==
    TagCommand(p, "qinq" \in Capa[p], tx_vlan_reset(conf[p].port.tx) \cup {"vlan", "qinq"}, 2)

cmd_tx_vlan_set_parsed(p) == Command_("tx_vlan") /\ tx_vlan_set(p)
cmd_tx_vlan_set_qinq_parsed(p) == Command_("tx_vlan") /\ tx_qinq_set(p)
cmd_tx_vlan_reset_parsed(p) == Command_("tx_vlan") /\ TagCommand(p, TRUE, tx_vlan_reset(conf[p].port.tx), 0)

\* Offloads of the checksum engine: those of the port are copied over its queues',
\* which lose what they had of their own.
cmd_config_queue_tx_offloads(c) == [c EXCEPT !.queue = [q \in SetQueues |-> [@[q] EXCEPT !.tx = c.port.tx]]]

Copied(p, tx, b) ==
    /\ conf' = [conf EXCEPT ![p] = cmd_config_queue_tx_offloads([@ EXCEPT !.port.tx = tx])]
    /\ Told(p, SetQueues, "tx", b, b \in tx)
    /\ slips' = slips \cup {s \in {"copied"} : \E q \in SetQueues : conf[p].queue[q].tx \ (tx \cup {b}) # {}}
    /\ cmd_reconfig_device_queue({p}, TRUE, TRUE)

cmd_csum_parsed(p, hw) ==
    /\ Command_("csum") /\ port_is_stopped(p)
    /\ Copied(p, IF hw /\ "csum" \notin Capa[p] THEN conf[p].port.tx ELSE Switched(conf[p].port.tx, "csum", hw), "csum")
    /\ UNCHANGED <<device, soft, up, globals>>

cmd_csum_tunnel_parsed(p, on) ==
    /\ Command_("csum")
    /\ soft' = [soft EXCEPT ![p].parse_tunnel = on]
    /\ UNCHANGED <<conf, device, need, up, globals, said, slips>>

\* The segment size is kept even when the device cannot segment.
cmd_tso_set_parsed(p, v) ==
    /\ Command_("tso") /\ port_is_stopped(p)
    /\ soft' = [soft EXCEPT ![p].segsz = v]
    /\ IF v # 0 /\ "tso" \notin Capa[p]
         THEN UNCHANGED <<conf, need, said, slips>>
         ELSE Copied(p, Switched(conf[p].port.tx, "tso", v # 0), "tso")
    /\ UNCHANGED <<device, up, globals>>

cmd_tunnel_tso_set_parsed(p, v) ==
    /\ Command_("tso") /\ port_is_stopped(p)
    /\ soft' = [soft EXCEPT ![p].tunnel_segsz = v]
    /\ Copied(p, IF v = 0 THEN conf[p].port.tx \ {"tunnel_tso"} ELSE conf[p].port.tx \cup ({"tunnel_tso"} \cap Capa[p]),
              "tunnel_tso")
    /\ UNCHANGED <<device, up, globals>>

-----------------------------------------------------------------------------
\* DCB configures the device from a blank configuration with the modes and offloads
\* of the port, which replaces that of the port if nothing fails after that.
get_eth_dcb_conf(c) == [NewPort EXCEPT !.frame = c.frame, !.lro = c.lro, !.rx = c.rx \cup {"filter"}, !.tx = c.tx,
                                       !.mq = "dcb"]

init_port_dcb_config(p, fails) ==
    LET new == get_eth_dcb_conf(conf[p].port)
        g == [globals EXCEPT !.thresh = 1]
    IN  /\ fails \in {"none", "configure", "info", "macaddr"}
        /\ device' = IF fails = "configure" THEN device ELSE [device EXCEPT ![p].port = new]
        /\ IF fails \in {"configure", "info"} THEN UNCHANGED <<conf, globals, said>>
           ELSE /\ conf' = [conf EXCEPT ![p] = rxtx_port_config([@ EXCEPT !.port = new], g)]
                /\ globals' = [g EXCEPT !.dcb_config = (fails = "none")]
                /\ Told(p, SetQueues, "rx", "filter", TRUE)
        /\ soft' = [soft EXCEPT ![p].dcb = @ \/ fails = "none"]

cmd_config_dcb_parsed(p, fails) ==
    /\ Command_("dcb") /\ port_is_stopped(p)
    /\ init_port_dcb_config(p, fails)
    /\ cmd_reconfig_device_queue(IF fails = "none" THEN {p} ELSE {}, TRUE, TRUE)
    /\ slips' = slips \cup {s \in {"dcb"} : fails \in {"info", "macaddr"}}
    /\ UNCHANGED up

\* Seeded fault: queues that were not set up are not flagged again.
start_port_configured_Once(p, fails) ==
    /\ port_is_stopped(p)
    /\ fails \in {"none"} \cup {f \in {"configure"} : need[p].dev} \cup {f \in {"queues"} : need[p].queues}
    /\ device' = [device EXCEPT
                    ![p].port = IF need[p].dev /\ fails # "configure" THEN conf[p].port ELSE @,
                    ![p].queue = IF need[p].queues /\ fails = "none" THEN conf[p].queue ELSE @]
    /\ need' = [need EXCEPT ![p] = [dev |-> fails = "configure", queues |-> FALSE]]
    /\ up' = IF fails = "none" THEN up \cup {p} ELSE up
    /\ UNCHANGED <<conf, soft, globals, said, family, settings, slips>>

\* "port start" configures what is flagged; what fails is flagged again.
start_port_configured(p, fails) ==
    /\ port_is_stopped(p)
    /\ fails \in {"none"} \cup {f \in {"configure"} : need[p].dev} \cup {f \in {"queues"} : need[p].queues}
    /\ device' = [device EXCEPT
                    ![p].port = IF need[p].dev /\ fails # "configure" THEN conf[p].port ELSE @,
                    ![p].queue = IF need[p].queues /\ fails = "none" THEN conf[p].queue ELSE @]
    /\ need' = [need EXCEPT ![p] = [dev |-> fails = "configure", queues |-> @.queues /\ fails # "none"]]
    /\ up' = IF fails = "none" THEN up \cup {p} ELSE up
    /\ UNCHANGED <<conf, soft, globals, said, family, settings, slips>>

stop_port_configured(p) ==
    /\ p \in up
    /\ up' = up \ {p}
    /\ UNCHANGED <<conf, device, soft, need, globals, said, family, settings, slips>>

SNext ==
    \/ \E v \in 0 .. 1 :
         \/ cmd_config_speed_all_parsed(v) \/ cmd_config_loopback_all_parsed(v)
         \/ cmd_config_max_lro_pkt_size_parsed(v)
         \/ \E n \in 0 .. Cardinality(SetPorts) :
              \/ cmd_config_max_pkt_len_parsed(v, n) \/ cmd_config_rx_mode_flag_parsed(v, n)
              \/ cmd_config_thresh_parsed(v, n) \/ cmd_config_threshold_parsed(v, n)
              \/ cmd_config_burst_parsed(n)
         \/ \E taken \in SUBSET SetPorts : cmd_config_rss_parsed(v, taken)
         \/ \E p \in SetPorts :
              \/ cmd_config_speed_specific_parsed(p, v) \/ cmd_config_loopback_specific_parsed(p, v)
              \/ \E taken \in BOOLEAN : cmd_config_mtu_parsed(p, v, taken)
              \/ cmd_tso_set_parsed(p, v) \/ cmd_tunnel_tso_set_parsed(p, v)
              \/ \E q \in SetQueues, isrx \in BOOLEAN : cmd_config_rxtx_ring_size_parsed(p, q, isrx, v)
    \/ \E p \in SetPorts :
         \/ \E on \in BOOLEAN :
              \/ cmd_csum_parsed(p, on) \/ cmd_csum_tunnel_parsed(p, on)
              \/ \E taken \in BOOLEAN : cmd_vlan_offload_parsed(p, on, taken)
              \/ \E q \in SetQueues, isrx \in BOOLEAN :
                   \/ cmd_config_deferred_start_rxtx_queue_parsed(p, q, isrx, on)
                   \/ cmd_setup_rxtx_queue_parsed(p, q, isrx, on)
              \/ \E b \in RxBits \cap Capa[p] :
                   \/ cmd_config_per_port_rx_offload_parsed(p, b, on)
                   \/ \E q \in SetQueues : cmd_config_per_queue_rx_offload_parsed(p, q, b, on)
              \/ \E b \in TxBits \cap Capa[p] :
                   \/ cmd_config_per_port_tx_offload_parsed(p, b, on)
                   \/ \E q \in SetQueues : cmd_config_per_queue_tx_offload_parsed(p, q, b, on)
         \/ cmd_tx_vlan_set_parsed(p) \/ cmd_tx_vlan_set_qinq_parsed(p) \/ cmd_tx_vlan_reset_parsed(p)
         \/ \E fails \in {"none", "configure", "info", "macaddr"} : cmd_config_dcb_parsed(p, fails)
         \/ \E fails \in {"none", "configure", "queues"} : start_port_configured(p, fails)
         \/ stop_port_configured(p)

-----------------------------------------------------------------------------
\* A started port that no command has flagged runs the configuration that is shown
\* for it, device and queues, whichever commands changed it and in whatever order
\* ports were stopped, failed to start and started: but after a command that leaves
\* its loop early, an MTU or hash functions given to the device only, or DCB that
\* failed half way.
StartedAsSet ==
    slips \cap {"early return", "mtu", "rss", "dcb"} = {} =>
        \A p \in up : /\ ~need[p].dev => device[p].port = conf[p].port
                      /\ ~need[p].queues => device[p].queue = conf[p].queue

\* The queues of a started port use the offloads each was last told to, and besides
\* only those of the whole port: but when a command gave an offload up on the port
\* only, or copied those of the port over the queues'.
OffloadsAsTold ==
    slips = {} =>
        \A p \in up, q \in SetQueues, dir \in {"rx", "tx"} :
            ~need[p].dev /\ ~need[p].queues =>
                LET used == device[p].port[dir] \cup device[p].queue[q][dir]
                IN  said[p][q][dir] \subseteq used /\ used \subseteq said[p][q][dir] \cup conf[p].port[dir]
=============================================================================
