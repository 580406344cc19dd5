------------------------------ MODULE BurstState ------------------------------
(***************************************************************************)
(* What the forwarding engines of testpmd share: the mbufs and who holds   *)
(* each of them, the counters of the streams, what a forwarding core keeps *)
(* on its stack while it moves one burst, and the code every engine ends   *)
(* with: transmit, try again what the port did not take, free the rest.    *)
(***************************************************************************)
EXTENDS Integers, FiniteSets, Sequences, ListsAndSums

CONSTANTS
    Cores, Streams,
    NbMbufs,            \* mbufs of the pool that the ports and cores allocate from
    NbPktPerBurst,      \* nb_pkt_per_burst
    BurstTxRetryNum,    \* burst_tx_retry_num
    TxPktNbSegs,        \* tx_pkt_nb_segs: segments of a generated or copied packet
    NbFlows,            \* cfg_n_flows of flowgen; the 256 values of _ip_var of txonly
    MaxPackets          \* bound: a stream that moved so many packets is served no more

ASSUME BurstAssumption ==
    /\ {NbMbufs, NbPktPerBurst, TxPktNbSegs, NbFlows} \subseteq Nat \ {0}
    /\ {BurstTxRetryNum, MaxPackets} \subseteq Nat
    /\ IsFiniteSet(Streams)
    /\ {"pool", "nic", "gro", "fifo"} \cap Cores = {}

VARIABLES
    conf,       \* the engine, its options, and the core of each stream
    owner,      \* who holds each mbuf
    segs,       \* the segments chained behind the first one of a packet
    flow,       \* the flow of a generated packet
    fs,         \* rx_packets, tx_packets and fwd_dropped of each stream
    cpu,        \* the call of packet_fwd() each core is in
    next_flow,  \* flowgen: the flow of the next packet
    ip_var,     \* txonly: the same, one for each core
    misused     \* a core handed on a packet it did not hold (history)

bvars == <<conf, owner, segs, flow, fs, cpu, next_flow, ip_var, misused>>

Mbufs == 1 .. NbMbufs
Junk == 0       \* what an array element holds that was never written
Pool == {m \in Mbufs : owner[m] = "pool"}
HeldBy(c) == {m \in Mbufs : owner[m] = c}
Whole(S) == S \cup UNION {segs[m] : m \in S \cap Mbufs}
Elements(q) == {q[i] : i \in DOMAIN q}
Kept(q, S) == Only(q, {i \in DOMAIN q : q[i] \in S})

\* Mutant: what was sent is not skipped.
Rest_All(q, n) == q

Rest(q, n) == SubSeq(q, n + 1, Len(q))

Least(a, b) == IF a < b THEN a ELSE b

\* Which free mbufs the pool gives out makes no difference.
FromPool(n) == SubSeq(InOrder(Pool), 1, n)

\* A core that is in no call: the variables of packet_fwd() are gone.
IdleCpu == [pc |-> "idle", s |-> 0, pkts |-> <<>>, nb |-> 0, tx |-> 0, lim |-> 0, tries |-> 0,
            tmp |-> <<>>, t |-> 0]

\* The core gives the packets S, with all their segments, to the port, the pool or a queue.
Give(c, S, to) ==
    /\ owner' = [m \in Mbufs |-> IF m \in Whole(S) THEN to ELSE owner[m]]
    /\ segs' = [m \in Mbufs |-> IF m \in S THEN {} ELSE segs[m]]
    /\ flow' = [m \in Mbufs |-> IF m \in S THEN 0 ELSE flow[m]]
    /\ misused' = (misused \/ \E m \in S : m = Junk \/ owner[m] # c)

\* run_pkt_fwd_on_lcore() calls packet_fwd() for the streams of the core.
Turn(c, s) ==
    /\ cpu[c].pc = "idle" /\ conf.lcore[s] = c
    /\ fs[s].rx + fs[s].tx + fs[s].dropped < MaxPackets

\* rte_eth_rx_burst() returns n packets, and they are counted.
Receive(c, s, n, pc) ==
    /\ n <= Cardinality(Pool)
    /\ LET got == FromPool(n)
       IN /\ owner' = [m \in Mbufs |-> IF m \in Elements(got) THEN c ELSE owner[m]]
          /\ cpu' = [cpu EXCEPT ![c] = [IdleCpu EXCEPT !.pc = pc, !.s = s, !.pkts = got,
                                        !.nb = n, !.lim = n]]
    /\ fs' = [fs EXCEPT ![s].rx = @ + n]
    /\ UNCHANGED <<segs, flow, next_flow, ip_var, misused>>

\* rte_eth_tx_burst(): the port takes the first k packets that it is offered; while some are
\* left and retries are enabled it is asked again, burst_tx_retry_num times at most.
Send(c) ==
    /\ cpu[c].pc = "send"
    /\ \E k \in 0 .. (cpu[c].lim - cpu[c].tx) :
          LET sent == cpu[c].tx + k
              again == /\ sent < cpu[c].nb /\ conf.retry
                       /\ cpu[c].tries < BurstTxRetryNum
          IN /\ Give(c, Elements(SubSeq(cpu[c].pkts, cpu[c].tx + 1, sent)), "nic")
             /\ cpu' = [cpu EXCEPT ![c] =
                   IF again THEN [@ EXCEPT !.tx = sent, !.lim = cpu[c].nb, !.tries = cpu[c].tries + 1]
                            ELSE [@ EXCEPT !.tx = sent, !.pc = "finish"]]
    /\ UNCHANGED <<conf, fs, next_flow, ip_var>>

\* Mutant: the flows of what was not sent are not taken back.
Finish_Forgets(c) ==
    /\ cpu[c].pc = "finish"
    /\ LET s == cpu[c].s
           left == cpu[c].nb - cpu[c].tx
       IN /\ Give(c, Elements(Rest(cpu[c].pkts, cpu[c].tx)), "pool")
          /\ fs' = [fs EXCEPT ![s].tx = @ + cpu[c].tx,
                              ![s].dropped = @ + (IF conf.mode = "flowgen" THEN 0 ELSE left)]
    /\ cpu' = [cpu EXCEPT ![c] = IdleCpu]
    /\ UNCHANGED <<conf, next_flow, ip_var>>

\* What was sent is counted, what was not is counted as dropped (flowgen does not) and freed;
\* the generators take back the flows of what was not sent.
Finish(c) ==
    /\ cpu[c].pc = "finish"
    /\ LET s == cpu[c].s
           left == cpu[c].nb - cpu[c].tx
       IN /\ Give(c, Elements(Rest(cpu[c].pkts, cpu[c].tx)), "pool")
          /\ fs' = [fs EXCEPT ![s].tx = @ + cpu[c].tx,
                              ![s].dropped = @ + (IF conf.mode = "flowgen" THEN 0 ELSE left)]
          /\ next_flow' = IF conf.mode = "flowgen" THEN (next_flow - left) % NbFlows ELSE next_flow
          /\ ip_var' = IF conf.mode = "txonly" THEN [ip_var EXCEPT ![c] = (@ - left) % NbFlows]
                                               ELSE ip_var
    /\ cpu' = [cpu EXCEPT ![c] = IdleCpu]
    /\ UNCHANGED conf

\* The port has sent what it took and returns the mbufs to the pool.
TxDone ==
    /\ HeldBy("nic") # {}
    /\ owner' = [m \in Mbufs |-> IF owner[m] = "nic" THEN "pool" ELSE owner[m]]
    /\ UNCHANGED <<conf, segs, flow, fs, cpu, next_flow, ip_var, misused>>
=============================================================================
