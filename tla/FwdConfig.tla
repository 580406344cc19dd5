------------------------------ MODULE FwdConfig ------------------------------
(***************************************************************************)
(* How testpmd turns its settings into a forwarding configuration: the     *)
(* table of streams, and the interval of that table each core serves.      *)
(*                                                                         *)
(* A settings record c has the fields                                      *)
(*   ids      the ports known to the program (ports_ids[0 .. nb_ports-1])   *)
(*   valid    the ports ethdev has                                          *)
(*   fwd      fwd_ports_ids[0 .. nb_fwd_ports-1]                            *)
(*   lcores   nb_fwd_lcores           eng       cur_fwd_eng                 *)
(*   rxq, txq nb_rxq and nb_txq       topology  port_topology               *)
(*   split    split_streams_enabled   streams_port  the port of each stream *)
(* A table t has the fields cur (cur_fwd_config), lcores (fwd_lcores) and   *)
(* streams (fwd_streams; nb_fwd_streams is its length). As in the code,     *)
(* cores and streams count from 0. DCB is off.                              *)
(***************************************************************************)
EXTENDS Integers, Sequences, FiniteSets, FiniteSetsExt

CONSTANTS
    MaxRxQueues, MaxTxQueues    \* dev_info.max_rx_queues and max_tx_queues

ASSUME QueuesAssumption == MaxRxQueues \in Nat \ {0} /\ MaxTxQueues \in Nat \ {0}

Topologies == {"paired", "chained", "loop"}

\* A queue count set for one port: a configuration file gives it a queue per stream.
PortQueues(c, p) == Cardinality({i \in DOMAIN c.streams_port : c.streams_port[i] = p})

\* The queues a port is configured with: those of its streams when it has some.
RxQueues(c, p) == IF c.split /\ PortQueues(c, p) > 0 THEN PortQueues(c, p) ELSE c.rxq
TxQueues(c, p) == IF c.split /\ PortQueues(c, p) > 0 THEN PortQueues(c, p) ELSE c.txq

-----------------------------------------------------------------------------
(* setup_fwd_config_of_each_lcore: nb_fs streams over nb_fc cores, the cores *)
(* that take one more at the end.                                            *)

StreamsPerLcore(nb_fs, nb_fc) == IF nb_fs <= nb_fc THEN 1 ELSE nb_fs \div nb_fc
ExtraStreams(nb_fs, nb_fc) == IF nb_fs <= nb_fc THEN 0 ELSE nb_fs % nb_fc

\* Mutant: the cores that take one more come first.
StreamNb_First(nb_fs, nb_fc, lc) ==
    StreamsPerLcore(nb_fs, nb_fc) + (IF lc < ExtraStreams(nb_fs, nb_fc) THEN 1 ELSE 0)

StreamNb(nb_fs, nb_fc, lc) ==
    StreamsPerLcore(nb_fs, nb_fc) + (IF lc < nb_fc - ExtraStreams(nb_fs, nb_fc) THEN 0 ELSE 1)

StreamIdx(nb_fs, nb_fc, lc) ==
    lc * StreamsPerLcore(nb_fs, nb_fc)
        + (IF lc < nb_fc - ExtraStreams(nb_fs, nb_fc) THEN 0
           ELSE lc - (nb_fc - ExtraStreams(nb_fs, nb_fc)))

SetupEachLcore(t) ==
    [t EXCEPT !.lcores =
        [lc \in DOMAIN t.lcores |->
            IF lc < t.cur.nb_fwd_lcores
            THEN [stream_idx |-> StreamIdx(t.cur.nb_fwd_streams, t.cur.nb_fwd_lcores, lc),
                  stream_nb |-> StreamNb(t.cur.nb_fwd_streams, t.cur.nb_fwd_lcores, lc)]
            ELSE t.lcores[lc]]]

-----------------------------------------------------------------------------
(* init_fwd_streams: the table is made again, zeroed, when its length changes. *)

ZeroStream == [rx_port |-> 0, rx_queue |-> 0, tx_port |-> 0, tx_queue |-> 0]

WantedStreams(c) ==
    IF c.split THEN Cardinality({i \in DOMAIN c.streams_port : c.streams_port[i] \in c.valid})
    ELSE Len(c.ids) * Max({c.rxq, c.txq})

TooManyQueues(c) ==
    \E p \in c.valid : PortQueues(c, p) > MaxRxQueues \/ PortQueues(c, p) > MaxTxQueues

InitStreams(c, t) ==
    IF TooManyQueues(c) \/ WantedStreams(c) \in {0, Cardinality(DOMAIN t.streams)}
    THEN t
    ELSE [t EXCEPT !.streams = [sm \in 0 .. WantedStreams(c) - 1 |-> ZeroStream]]

-----------------------------------------------------------------------------
(* The setups. Each sets cur_fwd_config, makes the streams, shares them out *)
(* and describes each stream.                                               *)

\* fwd_topology_tx_port_get, on indexes of the forwarding ports
TopologyTxPort(topology, nb_fwd_ports, rxp) ==
    CASE topology = "chained" -> (rxp + 1) % nb_fwd_ports
      [] topology = "loop" -> rxp
      [] topology = "paired" /\ rxp % 2 = 1 -> rxp - 1
      [] topology = "paired" /\ rxp % 2 = 0 -> IF rxp + 1 < nb_fwd_ports THEN rxp + 1 ELSE rxp

SetCur(c, t, nb_lcores, nb_streams) ==
    [t EXCEPT !.cur = [fwd_eng |-> c.eng, nb_fwd_ports |-> Len(c.fwd),
                       nb_fwd_lcores |-> nb_lcores, nb_fwd_streams |-> nb_streams]]

\* The first streams become those described; the ones behind them keep what they held.
Describe(t, streams) ==
    [t EXCEPT !.streams =
        [sm \in DOMAIN t.streams |-> IF sm \in DOMAIN streams THEN streams[sm] ELSE t.streams[sm]]]

Setup(c, t, nb_lcores, nb_streams) ==
    SetupEachLcore(InitStreams(c, SetCur(c, t, nb_lcores, nb_streams)))

SimpleSetup(c, t) ==
    LET n == Len(c.fwd)
        Port(i) == c.fwd[i + 1]
        Stream(sm) == [rx_port |-> Port(sm), rx_queue |-> 0,
                       tx_port |-> Port(TopologyTxPort(c.topology, n, sm)), tx_queue |-> 0]
    IN  Describe(Setup(c, t, Min({c.lcores, n}), n), [sm \in 0 .. n - 1 |-> Stream(sm)])

RssSetup(c, t) ==
    LET n == Len(c.fwd)
        nb_q == Min({c.rxq, c.txq})
        Port(i) == c.fwd[i + 1]
        Stream(sm) == [rx_port |-> Port(sm % n), rx_queue |-> sm \div n,
                       tx_port |-> Port(TopologyTxPort(c.topology, n, sm % n)), tx_queue |-> sm \div n]
    IN  Describe(Setup(c, t, Min({c.lcores, nb_q * n}), nb_q * n),
                 [sm \in 0 .. nb_q * n - 1 |-> Stream(sm)])

\* nb_fwd_streams is read for the cores before init_fwd_streams() changes it.
StreamsSetup(c, t) ==
    LET old == Cardinality(DOMAIN t.streams)
        Port(sm) == IF sm + 1 \in DOMAIN c.streams_port THEN c.streams_port[sm + 1] ELSE 0
        Queue(sm) == Cardinality({i \in 0 .. sm - 1 : Port(i) = Port(sm)})
        Stream(sm) == [rx_port |-> Port(sm), rx_queue |-> Queue(sm),
                       tx_port |-> Port(sm), tx_queue |-> Queue(sm)]
        made == Setup(c, t, Min({c.lcores, old}), old)
    IN  Describe(made, [sm \in DOMAIN made.streams |-> Stream(sm)])

IcmpEchoSetup(c, t) ==
    LET n == Len(c.fwd)
        Port(i) == c.fwd[i + 1]
        Stream(sm) == [rx_port |-> Port(sm \div c.rxq), rx_queue |-> sm % c.rxq,
                       tx_port |-> Port(sm \div c.rxq), tx_queue |-> sm % c.rxq]
    IN  Describe(Setup(c, t, Min({c.lcores, c.txq * n, c.rxq * n}), c.rxq * n),
                 [sm \in 0 .. c.rxq * n - 1 |-> Stream(sm)])

FwdConfigSetup(c, t) ==
    CASE c.eng = "icmpecho" -> IcmpEchoSetup(c, t)
      [] c.eng # "icmpecho" /\ c.split -> StreamsSetup(c, t)
      [] c.eng # "icmpecho" /\ ~c.split /\ c.rxq > 1 /\ c.txq > 1 -> RssSetup(c, t)
      [] OTHER -> SimpleSetup(c, t)

=============================================================================
