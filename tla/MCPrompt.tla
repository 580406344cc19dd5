------------------------------- MODULE MCPrompt -------------------------------
(* Prompt on small instances.                                              *)
EXTENDS Prompt

MCRules == {[group |-> 0, priority |-> 1, pattern |-> "p", acts |-> "a"],
            [group |-> 0, priority |-> 0, pattern |-> "q", acts |-> "a"],
            [group |-> 1, priority |-> 0, pattern |-> "p", acts |-> "b"]}

\* Port 0 is capable of all offloads, port 1 of some.
MCCapa == [p \in SetPorts |-> IF p = 0 THEN RxBits \cup TxBits ELSE {"strip", "csum", "vlan"}]

\* Commands that touch the same fields are in one family.
MCFamilies ==
    {{"speed", "loopback", "max-pkt-len", "max-lro-pkt-size", "mtu", "drop-en", "thresh", "threshold", "burst", "rss", "dcb"},
     {"ring_size", "deferred_start", "setup", "thresh", "speed", "burst"},
     {"rx_offload", "queue_rx_offload", "vlan", "thresh"},
     {"tx_offload", "tx_vlan", "csum", "tso"},
     {"queue_tx_offload", "tx_vlan", "csum"}}
=============================================================================
