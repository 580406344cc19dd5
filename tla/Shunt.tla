-------------------------------- MODULE Shunt --------------------------------
(***************************************************************************)
(* The "shunting" engine (shunt.c): a forwarding core sends numbered       *)
(* packets of the streams it is given, a burst of one stream at a time, and*)
(* retries what the port does not take. A number is taken when the packet  *)
(* is prepared, so a packet that is given up leaves a gap.                 *)
(***************************************************************************)
EXTENDS StreamsConfig

CONSTANTS
    NbPktPerBurst,      \* nb_pkt_per_burst
    BurstTxRetryNum,    \* burst_tx_retry_num, 0 when retries are disabled
    MaxSeq,             \* bound: packets prepared of each stream
    MaxSendRuns         \* bound: restarts of the sender

ASSUME BurstAssumption == NbPktPerBurst \in Nat \ {0} /\ BurstTxRetryNum \in Nat
ASSUME SendBoundsAssumption == MaxSeq \in Nat /\ MaxSendRuns \in Nat

VARIABLES
    streams_sequences,  \* next number of each stream; the process keeps it
    fs,                 \* the stream being served
    pkts_burst,         \* what the port has not taken of the burst
    retry,              \* transmissions that may still be tried
    tx_packets,         \* fs->tx_packets and fs->fwd_dropped of each stream
    fwd_dropped,
    sendruns,           \* runs of the sender so far
    base                \* streams_sequences when the run began (history)

svars == <<streams_sequences, fs, pkts_burst, retry, tx_packets, fwd_dropped, sendruns, base>>

Packets == [sm : Streams, sq : 0 .. MaxSeq]

SInit ==
    /\ streams_sequences = [s \in Streams |-> 0]
    /\ fs = NoStream
    /\ pkts_burst = <<>>
    /\ retry = 0
    /\ tx_packets = [s \in Streams |-> 0]
    /\ fwd_dropped = [s \in Streams |-> 0]
    /\ sendruns = 0
    /\ base = [s \in Streams |-> 0]

\* The port takes the first k packets of the burst at hand.
Taken(k) == {pkts_burst[i] : i \in 1 .. k}

-----------------------------------------------------------------------------
\* pkt_burst_prepare() for the n packets the pool has mbufs for.
Prepare(s, n) ==
    /\ fs = NoStream
    /\ n \in 1 .. NbPktPerBurst
    /\ streams_sequences[s] + n <= MaxSeq
    /\ fs' = s
    /\ pkts_burst' = [i \in 1 .. n |-> [sm |-> s, sq |-> streams_sequences[s] + i - 1]]
    /\ streams_sequences' = [streams_sequences EXCEPT ![s] = @ + n]
    /\ retry' = BurstTxRetryNum
    /\ UNCHANGED <<tx_packets, fwd_dropped, sendruns, base>>

\* rte_eth_tx_burst() takes the first k packets; there is another attempt.
TransmitPart(k) ==
    /\ fs # NoStream
    /\ k \in 0 .. (Len(pkts_burst) - 1)
    /\ retry > 0
    /\ retry' = retry - 1
    /\ tx_packets' = [tx_packets EXCEPT ![fs] = @ + k]
    /\ pkts_burst' = SubSeq(pkts_burst, k + 1, Len(pkts_burst))
    /\ UNCHANGED <<streams_sequences, fs, fwd_dropped, sendruns, base>>

\* Seeded fault: what an earlier attempt left is not counted as dropped.
GivenUp_None(k) == IF retry < BurstTxRetryNum THEN 0 ELSE Len(pkts_burst) - k
GivenUp(k) == Len(pkts_burst) - k

\* It takes all of them, or the last attempt leaves some: they are freed.
TransmitLast(k) ==
    /\ fs # NoStream
    /\ k \in 0 .. Len(pkts_burst)
    /\ k = Len(pkts_burst) \/ retry = 0
    /\ tx_packets' = [tx_packets EXCEPT ![fs] = @ + k]
    /\ fwd_dropped' = [fwd_dropped EXCEPT ![fs] = @ + GivenUp(k)]
    /\ pkts_burst' = <<>>
    /\ retry' = 0
    /\ fs' = NoStream
    /\ UNCHANGED <<streams_sequences, sendruns, base>>

\* The sender is stopped and started: fwd_stats_reset() clears the statistics,
\* shunt_begin() leaves the numbers alone.
SBegin ==
    /\ fs = NoStream
    /\ sendruns < MaxSendRuns
    /\ sendruns' = sendruns + 1
    /\ tx_packets' = [s \in Streams |-> 0]
    /\ fwd_dropped' = [s \in Streams |-> 0]
    /\ base' = streams_sequences
    /\ UNCHANGED <<streams_sequences, fs, pkts_burst, retry>>

\* Every number of a run is accounted for: sent, given up, or still at hand.
NumbersAccounted ==
    \A s \in Streams :
        streams_sequences[s] = base[s] + tx_packets[s] + fwd_dropped[s]
                               + (IF fs = s THEN Len(pkts_burst) ELSE 0)
=============================================================================
