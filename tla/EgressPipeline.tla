--------------------------- MODULE EgressPipeline ---------------------------
(***************************************************************************)
(* The receiving host: main() polls the links in turn and egress_pipeline()*)
(* forwards a frame to the local servers when its number is above the      *)
(* highest one forwarded so far for its server.                            *)
(***************************************************************************)
EXTENDS DemoConfig

VARIABLES
    ecounters,      \* egress_counters of main(): the highest number let through
    epkts,          \* original_pkts: what the burst holds and was not looked at
    efiltered,      \* filtered_pkts: what passed, in order
    eport,          \* the loop variable i of main(): the link polled next
    epc,            \* where the loop is
    emask,          \* port_mask of the receiving host, as a set of links
    rxq,            \* frames in the receive ring of each link
    erun,           \* number of the run of the receiving process
    delivered       \* frames the local side has accepted in this run (history)

evars == <<ecounters, epkts, efiltered, eport, epc, emask, rxq, erun, delivered>>

ETypeOK ==
    /\ ecounters \in [EgressServers -> Nat]
    /\ epkts \in Seq(Packet)
    /\ efiltered \in Seq(Packet)
    /\ eport \in Links
    /\ epc \in {"boot", "poll", "dedup", "tx"}
    /\ emask \subseteq Links
    /\ rxq \in [Links -> Seq(Packet)]
    /\ erun \in Nat
    /\ delivered \in Seq(Packet)

EReset ==
    /\ ecounters' = [s \in EgressServers |-> 0]
    /\ epkts' = <<>>
    /\ efiltered' = <<>>
    /\ eport' = 1
    /\ emask' = Links
    /\ rxq' = [l \in Links |-> <<>>]
    /\ delivered' = <<>>

EInit ==
    /\ ecounters = [s \in EgressServers |-> 0]
    /\ epkts = <<>>
    /\ efiltered = <<>>
    /\ eport = 1
    /\ epc = "boot"
    /\ emask = Links
    /\ rxq = [l \in Links |-> <<>>]
    /\ erun = 0
    /\ delivered = <<>>

\* The port polled after l: main() starts over after the last one.
NextPort(l) == IF l = NbLinks THEN 1 ELSE l + 1

\* Seeded fault: main() leaves the loop over the links instead.
ESkipPort_Break ==
    /\ epc = "poll"
    /\ eport \notin emask
    /\ eport' = 1
    /\ UNCHANGED <<ecounters, epkts, efiltered, epc, emask, rxq, erun, delivered>>

\* The bit of the link is clear: main() goes on to the next one.
ESkipPort ==
    /\ epc = "poll"
    /\ eport \notin emask
    /\ eport' = NextPort(eport)
    /\ UNCHANGED <<ecounters, epkts, efiltered, epc, emask, rxq, erun, delivered>>

\* rte_eth_rx_burst() returns up to a burst of the oldest frames of the ring.
ERx(n) ==
    /\ epc = "poll"
    /\ eport \in emask
    /\ n \in 0 .. Len(rxq[eport])
    /\ n = 0 => rxq[eport] = <<>>
    /\ epkts' = SubSeq(rxq[eport], 1, n)
    /\ rxq' = [rxq EXCEPT ![eport] = SubSeq(@, n + 1, Len(@))]
    /\ efiltered' = <<>>
    /\ epc' = "dedup"
    /\ UNCHANGED <<ecounters, eport, emask, erun, delivered>>

\* A frame is forwarded when its server is configured and its number is new.
\* Seeded faults: a number equal to the watermark passes; any other number does.
IsFresh_Equal(p) == p.srv < NbEgressServers /\ ecounters[p.srv] <= p.seq
IsFresh_Other(p) == p.srv < NbEgressServers /\ ecounters[p.srv] # p.seq
IsFresh(p) == /\ p.srv < NbEgressServers
              /\ ecounters[p.srv] < p.seq

EAccept ==
    /\ epc = "dedup"
    /\ epkts # <<>>
    /\ IsFresh(Head(epkts))
    /\ ecounters' = [ecounters EXCEPT ![Head(epkts).srv] = Head(epkts).seq]
    /\ efiltered' = Append(efiltered, Head(epkts))
    /\ epkts' = Tail(epkts)
    /\ UNCHANGED <<eport, epc, emask, rxq, erun, delivered>>

EDrop ==
    /\ epc = "dedup"
    /\ epkts # <<>>
    /\ ~IsFresh(Head(epkts))
    /\ epkts' = Tail(epkts)
    /\ UNCHANGED <<ecounters, efiltered, eport, epc, emask, rxq, erun, delivered>>

EFiltered ==
    /\ epc = "dedup"
    /\ epkts = <<>>
    /\ epc' = "tx"
    /\ UNCHANGED <<ecounters, epkts, efiltered, eport, emask, rxq, erun, delivered>>

\* rte_eth_tx_burst() accepts the first n frames; the others are freed, and
\* their numbers stay consumed.
ETx(n) ==
    /\ epc = "tx"
    /\ n \in 0 .. Len(efiltered)
    /\ delivered' = delivered \o SubSeq(efiltered, 1, n)
    /\ efiltered' = <<>>
    /\ eport' = NextPort(eport)
    /\ epc' = "poll"
    /\ UNCHANGED <<ecounters, epkts, emask, rxq, erun>>

ENext == \/ ESkipPort
         \/ \E n \in 0 .. MAX_PKT_BURST : ERx(n)
         \/ EAccept
         \/ EDrop
         \/ EFiltered
         \/ \E n \in 0 .. MAX_PKT_BURST : ETx(n)

-----------------------------------------------------------------------------
\* Frame p reaches the receive ring of link l when a descriptor is free.
EArrive(l, p) ==
    /\ Len(rxq[l]) < RxDesc
    /\ rxq' = [rxq EXCEPT ![l] = Append(@, p)]
    /\ UNCHANGED <<ecounters, epkts, efiltered, eport, epc, emask, erun, delivered>>
=============================================================================
