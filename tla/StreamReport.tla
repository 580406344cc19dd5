---------------------------- MODULE StreamReport ----------------------------
(***************************************************************************)
(* The "edge" request of the HTTP server (httpserver.c): for a configured  *)
(* link the first slot of its stream is looked up and what it counted      *)
(* since the request before is reported. The thread of the server takes no *)
(* lock: it reads the slots while the cores write them, and its own        *)
(* "previous" values belong to slots, not to streams.                      *)
(***************************************************************************)
EXTENDS AggreTable

CONSTANT Asked      \* the streams clients ask for

ASSUME AskedAssumption == Asked \subseteq Streams

VARIABLES
    rpc,                    \* where the request is
    rlink,                  \* the stream of the link at hand
    sm_id,                  \* the slot looked at
    seen,                   \* what was read of the counter at hand
    stream_prev_rx_pkts,    \* of each slot, kept between requests
    stream_prev_tx_pkts,
    diff_rx_pkts,
    rep_rx, rep_tx          \* sums of what was reported of each stream (history)

hvars == <<rpc, rlink, sm_id, seen, stream_prev_rx_pkts, stream_prev_tx_pkts, diff_rx_pkts,
           rep_rx, rep_tx>>

HInit ==
    /\ rpc = "idle"
    /\ rlink = NoStream
    /\ sm_id = 0
    /\ seen = 0
    /\ stream_prev_rx_pkts = [k \in Slots |-> 0]
    /\ stream_prev_tx_pkts = [k \in Slots |-> 0]
    /\ diff_rx_pkts = 0
    /\ rep_rx = [s \in Streams |-> 0]
    /\ rep_tx = [s \in Streams |-> 0]

Request(s) ==
    /\ rpc = "idle"
    /\ rpc' = "scan"
    /\ rlink' = s
    /\ sm_id' = 0
    /\ UNCHANGED <<seen, stream_prev_rx_pkts, stream_prev_tx_pkts, diff_rx_pkts, rep_rx, rep_tx>>

Mine == status[sm_id] /\ key[sm_id] = rlink

Done ==
    /\ rpc' = "idle"
    /\ rlink' = NoStream
    /\ sm_id' = 0

ScanNext ==
    /\ rpc = "scan"
    /\ sm_id < NbSlots
    /\ ~Mine
    /\ sm_id' = sm_id + 1
    /\ UNCHANGED <<rpc, rlink, seen, stream_prev_rx_pkts, stream_prev_tx_pkts, diff_rx_pkts,
                   rep_rx, rep_tx>>

\* "Link is Down": no slot has the stream.
ScanDown ==
    /\ rpc = "scan"
    /\ sm_id = NbSlots
    /\ Done
    /\ UNCHANGED <<seen, stream_prev_rx_pkts, stream_prev_tx_pkts, diff_rx_pkts, rep_rx, rep_tx>>

ScanFound ==
    /\ rpc = "scan"
    /\ sm_id < NbSlots
    /\ Mine
    /\ rpc' = "rx"
    /\ UNCHANGED <<rlink, sm_id, seen, stream_prev_rx_pkts, stream_prev_tx_pkts, diff_rx_pkts,
                   rep_rx, rep_tx>>

\* The growth of a counter, 0 when it is below the previous value.
\* Seeded fault: the whole counter when it is below.
Growth_Reset(now, prev) == IF now > prev THEN now - prev ELSE now
Growth(now, prev) == IF now > prev THEN now - prev ELSE 0

DiffRx ==
    /\ rpc = "rx"
    /\ seen' = rx_pkts[sm_id]
    /\ diff_rx_pkts' = Growth(rx_pkts[sm_id], stream_prev_rx_pkts[sm_id])
    /\ rep_rx' = [rep_rx EXCEPT ![rlink] = @ + diff_rx_pkts']
    /\ rpc' = "prevrx"
    /\ UNCHANGED <<rlink, sm_id, stream_prev_rx_pkts, stream_prev_tx_pkts, rep_tx>>

\* The counter may be read again for the previous value, or not: the access is a
\* data race and the compiler chooses.
PrevRx ==
    /\ rpc = "prevrx"
    /\ \E v \in {seen, rx_pkts[sm_id]} :
          stream_prev_rx_pkts' = [stream_prev_rx_pkts EXCEPT ![sm_id] = v]
    /\ rpc' = "tx"
    /\ UNCHANGED <<rlink, sm_id, seen, stream_prev_tx_pkts, diff_rx_pkts, rep_rx, rep_tx>>

GrownTx == Growth(max_sq[sm_id], stream_prev_tx_pkts[sm_id])

DiffTx ==
    /\ rpc = "tx"
    /\ seen' = max_sq[sm_id]
    /\ rep_tx' = [rep_tx EXCEPT ![rlink] = @ + GrownTx]
    /\ rpc' = "prevtx"
    /\ UNCHANGED <<rlink, sm_id, stream_prev_rx_pkts, stream_prev_tx_pkts, diff_rx_pkts, rep_rx>>

PrevTx ==
    /\ rpc = "prevtx"
    /\ \E v \in {seen, max_sq[sm_id]} :
          stream_prev_tx_pkts' = [stream_prev_tx_pkts EXCEPT ![sm_id] = v]
    /\ seen' = 0
    /\ diff_rx_pkts' = 0
    /\ Done
    /\ UNCHANGED <<stream_prev_rx_pkts, rep_rx, rep_tx>>

Report == \/ \E s \in Asked : Request(s)
          \/ ScanNext
          \/ ScanDown
          \/ ScanFound
          \/ DiffRx
          \/ PrevRx
          \/ DiffTx
          \/ PrevTx
=============================================================================
