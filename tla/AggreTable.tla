------------------------------ MODULE AggreTable ------------------------------
(***************************************************************************)
(* The "aggre" engine (aggre.c): forwarding cores find or make the slot of *)
(* a packet's stream in a hash table with open addressing, and count the   *)
(* packet under the spin lock of the slot. A slot is claimed with a        *)
(* compare-and-set, but its hash value and key are written after that.     *)
(***************************************************************************)
EXTENDS StreamsConfig

CONSTANTS
    Cores,          \* forwarding cores
    NbSlots,        \* RTE_MAX_STREAMS, 64 in the code
    HashOf(_),      \* rte_jhash() of the stream's key, never 0
    NoCore

ASSUME SlotsAssumption == NbSlots \in Nat \ {0}
ASSUME HashAssumption == \A s \in Streams : HashOf(s) \in Nat \ {0}
ASSUME NoCoreAssumption == NoCore \notin Cores

VARIABLES
    status, hash_value, key,    \* the slots of aggre_streams_stats
    max_sq, rx_pkts,
    spinlock,                   \* the core that holds it
    cpc,                        \* where each core is
    pkt,                        \* the packet each core handles
    di, pos,                    \* the variables of insert_hash_table()
    loaded,                     \* what the core has read of the slot
    leaked,                     \* packets left without an owner
    processed,                  \* packets counted of each stream (history)
    before                      \* processed when the engine began (history)

avars == <<status, hash_value, key, max_sq, rx_pkts, spinlock, cpc, pkt, di, pos, loaded,
           leaked, processed, before>>

Slots == 0 .. (NbSlots - 1)
NoPacket == [sm |-> NoStream, sq |-> 0]

\* The table is static storage: no slot is in use and no lock is held.
AInit ==
    /\ status = [k \in Slots |-> FALSE]
    /\ hash_value = [k \in Slots |-> 0]
    /\ key = [k \in Slots |-> NoStream]
    /\ max_sq = [k \in Slots |-> 0]
    /\ rx_pkts = [k \in Slots |-> 0]
    /\ spinlock = [k \in Slots |-> NoCore]
    /\ cpc = [c \in Cores |-> "idle"]
    /\ pkt = [c \in Cores |-> NoPacket]
    /\ di = [c \in Cores |-> 0]
    /\ pos = [c \in Cores |-> 0]
    /\ loaded = [c \in Cores |-> [max |-> 0, rx |-> 0]]
    /\ leaked = 0
    /\ processed = [s \in Streams |-> 0]
    /\ before = [s \in Streams |-> 0]

\* aggregation_begin(), memset() of the table: the cores are stopped, the HTTP thread is not.
ABegin ==
    /\ \A c \in Cores : cpc[c] = "idle"
    /\ status' = [k \in Slots |-> FALSE]
    /\ hash_value' = [k \in Slots |-> 0]
    /\ key' = [k \in Slots |-> NoStream]
    /\ max_sq' = [k \in Slots |-> 0]
    /\ rx_pkts' = [k \in Slots |-> 0]
    /\ spinlock' = [k \in Slots |-> NoCore]
    /\ before' = processed
    /\ UNCHANGED <<cpc, pkt, di, pos, loaded, leaked, processed>>

-----------------------------------------------------------------------------
\* The core takes packet p, with the magic number of the shunting engine, from
\* the burst it received.
Take(c, p) ==
    /\ cpc[c] = "idle"
    /\ pkt' = [pkt EXCEPT ![c] = p]
    /\ di' = [di EXCEPT ![c] = 0]
    /\ cpc' = [cpc EXCEPT ![c] = "probe"]
    /\ UNCHANGED <<status, hash_value, key, max_sq, rx_pkts, spinlock, pos, loaded, leaked,
                   processed, before>>

Probed(c) == (HashOf(pkt[c].sm) + di[c]) % NbSlots

\* insert_hash_table(), one slot at a time: rte_atomic16_cmpset() claims a free one ...
ProbeFree(c) ==
    /\ cpc[c] = "probe"
    /\ di[c] < NbSlots
    /\ ~status[Probed(c)]
    /\ status' = [status EXCEPT ![Probed(c)] = TRUE]
    /\ pos' = [pos EXCEPT ![c] = Probed(c)]
    /\ cpc' = [cpc EXCEPT ![c] = "sethash"]
    /\ UNCHANGED <<hash_value, key, max_sq, rx_pkts, spinlock, pkt, di, loaded, leaked, processed, before>>

\* ... one with the same hash value is the stream's ...
\* Seeded fault: the key is compared, byte order and all, and never matches.
SameStream_Never(c) == FALSE
SameStream(c) == hash_value[Probed(c)] = HashOf(pkt[c].sm)

ProbeSame(c) ==
    /\ cpc[c] = "probe"
    /\ di[c] < NbSlots
    /\ status[Probed(c)]
    /\ SameStream(c)
    /\ pos' = [pos EXCEPT ![c] = Probed(c)]
    /\ cpc' = [cpc EXCEPT ![c] = "lock"]
    /\ UNCHANGED <<status, hash_value, key, max_sq, rx_pkts, spinlock, pkt, di, loaded, leaked,
                   processed, before>>

\* ... and otherwise the next one is tried.
ProbeOther(c) ==
    /\ cpc[c] = "probe"
    /\ di[c] < NbSlots
    /\ status[Probed(c)]
    /\ ~SameStream(c)
    /\ di' = [di EXCEPT ![c] = @ + 1]
    /\ UNCHANGED <<status, hash_value, key, max_sq, rx_pkts, spinlock, cpc, pkt, pos, loaded, leaked,
                   processed, before>>

\* No slot: the loop goes on to the next packet, this one is not freed.
ProbeFull(c) ==
    /\ cpc[c] = "probe"
    /\ di[c] = NbSlots
    /\ leaked' = leaked + 1
    /\ pkt' = [pkt EXCEPT ![c] = NoPacket]
    /\ di' = [di EXCEPT ![c] = 0]
    /\ cpc' = [cpc EXCEPT ![c] = "idle"]
    /\ UNCHANGED <<status, hash_value, key, max_sq, rx_pkts, spinlock, pos, loaded, processed, before>>

SetHash(c) ==
    /\ cpc[c] = "sethash"
    /\ hash_value' = [hash_value EXCEPT ![pos[c]] = HashOf(pkt[c].sm)]
    /\ cpc' = [cpc EXCEPT ![c] = "setkey"]
    /\ UNCHANGED <<status, key, max_sq, rx_pkts, spinlock, pkt, di, pos, loaded, leaked, processed, before>>

SetKey(c) ==
    /\ cpc[c] = "setkey"
    /\ key' = [key EXCEPT ![pos[c]] = pkt[c].sm]
    /\ cpc' = [cpc EXCEPT ![c] = "lock"]
    /\ UNCHANGED <<status, hash_value, max_sq, rx_pkts, spinlock, pkt, di, pos, loaded, leaked,
                   processed, before>>

-----------------------------------------------------------------------------
\* rte_spinlock_lock(). Seeded fault: the core goes on without it.
Lock_Skip(c) ==
    /\ cpc[c] = "lock"
    /\ cpc' = [cpc EXCEPT ![c] = "load"]
    /\ UNCHANGED <<status, hash_value, key, max_sq, rx_pkts, spinlock, pkt, di, pos, loaded, leaked,
                   processed, before>>

Lock(c) ==
    /\ cpc[c] = "lock"
    /\ spinlock[pos[c]] = NoCore
    /\ spinlock' = [spinlock EXCEPT ![pos[c]] = c]
    /\ cpc' = [cpc EXCEPT ![c] = "load"]
    /\ UNCHANGED <<status, hash_value, key, max_sq, rx_pkts, pkt, di, pos, loaded, leaked, processed, before>>

\* The slot's counters are read, and written one after the other.
Load(c) ==
    /\ cpc[c] = "load"
    /\ loaded' = [loaded EXCEPT ![c] = [max |-> max_sq[pos[c]], rx |-> rx_pkts[pos[c]]]]
    /\ cpc' = [cpc EXCEPT ![c] = "max"]
    /\ UNCHANGED <<status, hash_value, key, max_sq, rx_pkts, spinlock, pkt, di, pos, leaked, processed, before>>

NewMax(c) == IF pkt[c].sq > loaded[c].max THEN pkt[c].sq ELSE loaded[c].max

StoreMax(c) ==
    /\ cpc[c] = "max"
    /\ max_sq' = [max_sq EXCEPT ![pos[c]] = NewMax(c)]
    /\ cpc' = [cpc EXCEPT ![c] = "rx"]
    /\ UNCHANGED <<status, hash_value, key, rx_pkts, spinlock, pkt, di, pos, loaded, leaked, processed, before>>

StoreRx(c) ==
    /\ cpc[c] = "rx"
    /\ rx_pkts' = [rx_pkts EXCEPT ![pos[c]] = loaded[c].rx + 1]
    /\ processed' = [processed EXCEPT ![pkt[c].sm] = @ + 1]
    /\ cpc' = [cpc EXCEPT ![c] = "unlock"]
    /\ UNCHANGED <<status, hash_value, key, max_sq, spinlock, pkt, di, pos, loaded, leaked, before>>

\* rte_spinlock_unlock() and rte_pktmbuf_free(). Seeded fault: the lock is kept.
Unlock_Keep(c) ==
    /\ cpc[c] = "unlock"
    /\ pkt' = [pkt EXCEPT ![c] = NoPacket]
    /\ di' = [di EXCEPT ![c] = 0]
    /\ loaded' = [loaded EXCEPT ![c] = [max |-> 0, rx |-> 0]]
    /\ cpc' = [cpc EXCEPT ![c] = "idle"]
    /\ UNCHANGED <<status, hash_value, key, max_sq, rx_pkts, spinlock, pos, leaked, processed, before>>

Unlock(c) ==
    /\ cpc[c] = "unlock"
    /\ spinlock' = [spinlock EXCEPT ![pos[c]] = NoCore]
    /\ pkt' = [pkt EXCEPT ![c] = NoPacket]
    /\ di' = [di EXCEPT ![c] = 0]
    /\ loaded' = [loaded EXCEPT ![c] = [max |-> 0, rx |-> 0]]
    /\ cpc' = [cpc EXCEPT ![c] = "idle"]
    /\ UNCHANGED <<status, hash_value, key, max_sq, rx_pkts, pos, leaked, processed, before>>

Insert(c) == \/ ProbeFree(c)
             \/ ProbeSame(c)
             \/ ProbeOther(c)
             \/ ProbeFull(c)
             \/ SetHash(c)
             \/ SetKey(c)

Count(c) == \/ Lock(c)
            \/ Load(c)
            \/ StoreMax(c)
            \/ StoreRx(c)
            \/ Unlock(c)
=============================================================================
