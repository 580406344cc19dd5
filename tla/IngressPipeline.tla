--------------------------- MODULE IngressPipeline ---------------------------
(***************************************************************************)
(* ingress_pipeline(): one burst of frames is received from the local      *)
(* servers, stamped, cloned to every link whose bit is set in port_mask,   *)
(* and the counters are advanced to what the best link accepted.           *)
(*                                                                         *)
(* The interrupt thread writes port_mask while the pipeline runs, so every *)
(* iteration of its two loops is a step.                                   *)
(***************************************************************************)
EXTENDS DemoConfig

VARIABLES
    counters,       \* ingress_counters of main()
    tmp_counters,   \* ingress_tmp_counters of main()
    recorder,       \* recorder[i]: tmp_counters after the i-th kept frame
    filtered_pkts,  \* the frames of the burst that came from a known server
    nb_rx,          \* frames of the burst not looked at yet
    egress_id,      \* the loop variable id: the link served next
    max_nb_tx,      \* most frames of the burst one link has accepted
    ipc,            \* where the pipeline is
    imask,          \* port_mask of the sending host, as a set of links
    txq,            \* clones in the transmit ring of each link
    mbufs,          \* free mbufs of l2fwd_pktmbuf_pool
    irun,           \* number of the run of the sending process
    offered,        \* frames each local server has offered (history)
    sent            \* every stamped frame a link ever accepted (history)

ibuf == <<tmp_counters, recorder, filtered_pkts, nb_rx, egress_id, max_nb_tx, ipc>>
ivars == <<counters, ibuf, imask, txq, mbufs, irun, offered, sent>>

ITypeOK ==
    /\ counters \in [IngressServers -> Nat]
    /\ tmp_counters \in [IngressServers -> Nat]
    /\ recorder \in Seq([IngressServers -> Nat])
    /\ filtered_pkts \in Seq(Packet)
    /\ nb_rx \in 0 .. MAX_PKT_BURST
    /\ egress_id \in 1 .. (NbLinks + 1)
    /\ max_nb_tx \in Nat
    /\ ipc \in {"boot", "poll", "filter", "ports"}
    /\ imask \subseteq Links
    /\ txq \in [Links -> Seq(Packet)]
    /\ mbufs \in Nat
    /\ irun \in Nat
    /\ offered \in [IngressServers -> Nat]
    /\ sent \subseteq Packet

\* What main() sets up before the loop, and every start of the process with it.
IReset ==
    /\ counters' = [s \in IngressServers |-> 0]
    /\ tmp_counters' = [s \in IngressServers |-> 0]
    /\ recorder' = <<>>
    /\ filtered_pkts' = <<>>
    /\ nb_rx' = 0
    /\ egress_id' = 1
    /\ max_nb_tx' = 0
    /\ txq' = [l \in Links |-> <<>>]
    /\ mbufs' = NbMbuf
    /\ imask' = Links

IInit ==
    /\ counters = [s \in IngressServers |-> 0]
    /\ tmp_counters = [s \in IngressServers |-> 0]
    /\ recorder = <<>>
    /\ filtered_pkts = <<>>
    /\ nb_rx = 0
    /\ egress_id = 1
    /\ max_nb_tx = 0
    /\ ipc = "boot"
    /\ txq = [l \in Links |-> <<>>]
    /\ mbufs = NbMbuf
    /\ imask = Links
    /\ irun = 0
    /\ offered = [s \in IngressServers |-> 0]
    /\ sent = {}

Clones(p) == {l \in Links : \E k \in DOMAIN txq[l] : txq[l][k] = p}
Held == {filtered_pkts[k] : k \in DOMAIN filtered_pkts}

-----------------------------------------------------------------------------
\* rte_eth_rx_burst(): a burst is waiting on the ingress-side port. A receive
\* ring hands out an mbuf only when the pool can replace it.
IRx ==
    /\ ipc = "poll"
    /\ \E n \in 1 .. MAX_PKT_BURST :
          /\ n <= mbufs
          /\ nb_rx' = n
          /\ mbufs' = mbufs - n
    /\ tmp_counters' = counters
    /\ egress_id' = 1
    /\ max_nb_tx' = 0
    /\ ipc' = "filter"
    /\ UNCHANGED <<counters, recorder, filtered_pkts, imask, txq, irun, offered, sent>>

\* A frame whose source MAC is no server of the ingress side is freed.
IFilterUnknown ==
    /\ ipc = "filter"
    /\ nb_rx > 0
    /\ nb_rx' = nb_rx - 1
    /\ mbufs' = mbufs + 1
    /\ UNCHANGED <<counters, tmp_counters, recorder, filtered_pkts, egress_id,
                   max_nb_tx, ipc, imask, txq, irun, offered, sent>>

\* A frame of server s is stamped with the next number of s and kept.
IFilterKnown(s) ==
    /\ ipc = "filter"
    /\ nb_rx > 0
    /\ offered[s] < MaxFrames
    /\ nb_rx' = nb_rx - 1
    /\ offered' = [offered EXCEPT ![s] = @ + 1]
    /\ tmp_counters' = [tmp_counters EXCEPT ![s] = @ + 1]
    /\ filtered_pkts' = Append(filtered_pkts,
                               update_source_mac(s, tmp_counters'[s], irun, offered'[s]))
    /\ recorder' = Append(recorder, tmp_counters')
    /\ UNCHANGED <<counters, egress_id, max_nb_tx, ipc, imask, txq, mbufs, irun, sent>>

IFiltered ==
    /\ ipc = "filter"
    /\ nb_rx = 0
    /\ ipc' = "ports"
    /\ UNCHANGED <<counters, tmp_counters, recorder, filtered_pkts, nb_rx, egress_id,
                   max_nb_tx, imask, txq, mbufs, irun, offered, sent>>

\* The bit of the link is clear, or one clone failed and the others were
\* freed: the link gets nothing of this burst.
ISkipPort ==
    /\ ipc = "ports"
    /\ egress_id \in Links
    /\ \/ egress_id \notin imask
       \/ mbufs < Len(filtered_pkts)
    /\ egress_id' = egress_id + 1
    /\ UNCHANGED <<counters, tmp_counters, recorder, filtered_pkts, nb_rx, max_nb_tx,
                   ipc, imask, txq, mbufs, irun, offered, sent>>

\* The most frames any link has accepted, after one more accepted n.
\* Seeded fault: the last link decides instead of the best one.
BestTx_Last(n) == n
BestTx(n) == IF n > max_nb_tx THEN n ELSE max_nb_tx

\* Clones still in use after a link accepted n of them: the others are freed.
\* Seeded fault: they are not.
ClonesKept_Leak(n) == Len(filtered_pkts)
ClonesKept(n) == n

\* Every frame is cloned and the link accepts the first n clones; the other
\* clones are freed.
ITxPort(n) ==
    /\ ipc = "ports"
    /\ egress_id \in imask
    /\ mbufs >= Len(filtered_pkts)
    /\ n \in 0 .. Len(filtered_pkts)
    /\ Len(txq[egress_id]) + n <= TxDesc
    /\ txq' = [txq EXCEPT ![egress_id] = @ \o SubSeq(filtered_pkts, 1, n)]
    /\ sent' = sent \cup {filtered_pkts[k] : k \in 1 .. n}
    /\ mbufs' = mbufs - ClonesKept(n)
    /\ max_nb_tx' = BestTx(n)
    /\ egress_id' = egress_id + 1
    /\ UNCHANGED <<counters, tmp_counters, recorder, filtered_pkts, nb_rx, ipc, imask,
                   irun, offered>>

\* The counters advance to what the best link accepted, the originals are
\* freed: an mbuf goes back to the pool when no clone refers to it any more.
\* Seeded fault: they advance over the whole burst.
CommittedCounters_All == tmp_counters
CommittedCounters ==
    IF max_nb_tx # 0 THEN recorder[max_nb_tx] ELSE counters

ICommit ==
    /\ ipc = "ports"
    /\ egress_id = NbLinks + 1
    /\ counters' = CommittedCounters
    /\ mbufs' = mbufs + Cardinality({p \in Held : Clones(p) = {}})
    /\ filtered_pkts' = <<>>
    /\ recorder' = <<>>
    /\ egress_id' = 1
    /\ max_nb_tx' = 0
    /\ ipc' = "poll"
    /\ UNCHANGED <<tmp_counters, nb_rx, imask, txq, irun, offered, sent>>

INext == \/ IRx
         \/ IFilterUnknown
         \/ \E s \in IngressServers : IFilterKnown(s)
         \/ IFiltered
         \/ ISkipPort
         \/ \E n \in 0 .. MAX_PKT_BURST : ITxPort(n)
         \/ ICommit

-----------------------------------------------------------------------------
\* The transmit ring of link l is done with its oldest clone: the clone goes
\* back to the pool, and its original with it when this was the last reference.
FreedByTx(l) ==
    LET p == Head(txq[l])
    IN  IF p \notin Held /\ Clones(p) = {l} THEN 2 ELSE 1

ITxDone(l) ==
    /\ txq[l] # <<>>
    /\ txq' = [txq EXCEPT ![l] = Tail(@)]
    /\ mbufs' = mbufs + FreedByTx(l)
    /\ UNCHANGED <<counters, ibuf, imask, irun, offered, sent>>
=============================================================================
