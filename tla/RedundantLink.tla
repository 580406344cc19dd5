---------------------------- MODULE RedundantLink ----------------------------
(***************************************************************************)
(* One direction of a pair of demo servers: the ingress pipeline of one    *)
(* host, the links, and the egress pipeline of the other. The opposite     *)
(* direction is the same with the roles exchanged; the two directions of a *)
(* host share its port_mask and nothing else that is modelled here.        *)
(*                                                                         *)
(* A link is a FIFO that may lose any frame. Links fail and recover, hosts *)
(* crash and start again, and what was in flight may arrive afterwards.    *)
(***************************************************************************)
EXTENDS IngressPipeline, EgressPipeline

VARIABLES
    up,                         \* status of each link
    flaps,                      \* link failures so far (bound)
    iirq, ichecked, ireg,       \* LinkStatus of the sending host
    eirq, echecked, ereg        \* LinkStatus of the receiving host

ilsc == <<iirq, ichecked, ireg>>
elsc == <<eirq, echecked, ereg>>
vars == <<ivars, evars, up, flaps, ilsc, elsc>>

ILink == INSTANCE LinkStatus WITH mask <- imask, irq <- iirq,
                                  checked <- ichecked, reg <- ireg
ELink == INSTANCE LinkStatus WITH mask <- emask, irq <- eirq,
                                  checked <- echecked, reg <- ereg

TypeOK ==
    /\ ITypeOK
    /\ ETypeOK
    /\ ILink!LTypeOK
    /\ ELink!LTypeOK
    /\ up \in [Links -> BOOLEAN]
    /\ flaps \in Nat

Init ==
    /\ IInit
    /\ EInit
    /\ ILink!LInit
    /\ ELink!LInit
    /\ up = [l \in Links |-> TRUE]
    /\ flaps = 0

-----------------------------------------------------------------------------
\* The two processes. A host enters its loop once every callback is registered.
IBoot ==
    \/ /\ \/ ILink!check_all_ports_link_status
          \/ \E l \in Links : ILink!Register(l)
       /\ UNCHANGED <<ivars, evars, up, flaps, elsc>>
    \/ /\ ipc = "boot"
       /\ ILink!Running
       /\ ipc' = "poll"
       /\ UNCHANGED <<counters, tmp_counters, recorder, filtered_pkts, nb_rx, egress_id,
                      max_nb_tx, imask, txq, mbufs, irun, offered, sent>>
       /\ UNCHANGED <<evars, up, flaps, ilsc, elsc>>

EBoot ==
    \/ /\ \/ ELink!check_all_ports_link_status
          \/ \E l \in Links : ELink!Register(l)
       /\ UNCHANGED <<ivars, evars, up, flaps, ilsc>>
    \/ /\ epc = "boot"
       /\ ELink!Running
       /\ epc' = "poll"
       /\ UNCHANGED <<ecounters, epkts, efiltered, eport, emask, rxq, erun, delivered>>
       /\ UNCHANGED <<ivars, up, flaps, ilsc, elsc>>

IStep == INext /\ UNCHANGED <<evars, up, flaps, ilsc, elsc>>

EStep == ENext /\ UNCHANGED <<ivars, up, flaps, ilsc, elsc>>

\* The interrupt threads of the two hosts.
IInterrupt(l) ==
    /\ \/ ILink!lsi_event_callback(l)
       \/ ILink!Unheard(l)
    /\ UNCHANGED <<counters, ibuf, txq, mbufs, irun, offered, sent>>
    /\ UNCHANGED <<evars, up, flaps, elsc>>

EInterrupt(l) ==
    /\ \/ ELink!lsi_event_callback(l)
       \/ ELink!Unheard(l)
    /\ UNCHANGED <<ecounters, epkts, efiltered, eport, epc, rxq, erun, delivered>>
    /\ UNCHANGED <<ivars, up, flaps, ilsc>>

-----------------------------------------------------------------------------
\* The oldest clone of a transmit ring crosses its link, or is lost on the way:
\* the link is down, the peer has no descriptor, or the wire corrupted it.
Transfer(l) ==
    /\ up[l]
    /\ ITxDone(l)
    /\ EArrive(l, Head(txq[l]))
    /\ UNCHANGED <<up, flaps, ilsc, elsc>>

Lose(l) ==
    /\ ITxDone(l)
    /\ UNCHANGED <<evars, up, flaps, ilsc, elsc>>

\* A cable is unplugged or plugged in; both ends raise an interrupt.
LinkChange(l) ==
    /\ \/ ~up[l] /\ UNCHANGED flaps
       \/ up[l] /\ flaps < MaxFlaps /\ flaps' = flaps + 1
    /\ up' = [up EXCEPT ![l] = ~@]
    /\ iirq' = iirq \cup {l}
    /\ eirq' = eirq \cup {l}
    /\ UNCHANGED <<ivars, evars, ichecked, ireg, echecked, ereg>>

\* A host is stopped at any point and started again: everything it kept is gone.
IRestart ==
    /\ irun < MaxRestarts
    /\ irun' = irun + 1
    /\ IReset
    /\ ipc' = "boot"
    /\ ILink!LReset
    /\ UNCHANGED <<offered, sent, evars, up, flaps, elsc>>

ERestart ==
    /\ erun < MaxRestarts
    /\ erun' = erun + 1
    /\ EReset
    /\ epc' = "boot"
    /\ ELink!LReset
    /\ UNCHANGED <<ivars, up, flaps, ilsc>>

Network(l) == \/ IInterrupt(l)
              \/ EInterrupt(l)
              \/ Transfer(l)
              \/ Lose(l)
              \/ LinkChange(l)

Next == \/ IBoot
        \/ EBoot
        \/ IStep
        \/ EStep
        \/ \E l \in Links : Network(l)
        \/ IRestart
        \/ ERestart

Spec == Init /\ [][Next]_vars

\* The pipelines are busy loops and interrupts are delivered: each keeps going.
Fairness ==
    /\ WF_vars(EBoot)
    /\ WF_vars(EStep)
    /\ \A l \in Links : WF_vars(EInterrupt(l))

FairSpec == Spec /\ Fairness

-----------------------------------------------------------------------------
\* While fewer frames were offered than the 40 bits of the counter can number.
NoWrap == \A s \in IngressServers : offered[s] < CounterMod

\* A number names one frame: within one run of the sender, of two frames of one
\* server that ever reached a link the one with the smaller number was offered
\* first, and equal numbers are the same frame. A burst some link accepted only
\* in part must not have its numbers used again.
SeqIdentifiesFrame ==
    NoWrap => \A p, q \in sent :
                 p.srv = q.srv /\ p.inc = q.inc
                    => /\ p.seq < q.seq => p.id < q.id
                       /\ p.seq = q.seq => p.id = q.id

\* No number is skipped: between two bursts, the numbers this run has put on the
\* links are 1, 2, ... up to the counter of each server.
SeqsContiguous ==
    NoWrap /\ ipc = "poll" =>
        \A s \in IngressServers :
            {p.seq : p \in {q \in sent : q.srv = s /\ q.inc = irun}} = 1 .. counters[s]

\* Mbufs in use are accounted for on every path through the pipeline: frames not
\* looked at, frames kept, originals only clones refer to, and the clones.
InUse == nb_rx
         + Cardinality(Held \cup UNION {{txq[l][k] : k \in DOMAIN txq[l]} : l \in Links})
         + Cardinality({c \in Links \X (1 .. TxDesc) : c[2] <= Len(txq[c[1]])})
MbufConservation == mbufs + InUse = NbMbuf

\* What the local servers behind the receiver see of one run of the sender:
\* no frame twice and no frame before an earlier one of the same server.
InOrderOnce ==
    NoWrap => \A i, j \in DOMAIN delivered :
                 i < j /\ delivered[i].srv = delivered[j].srv
                       /\ delivered[i].inc = delivered[j].inc
                    => delivered[i].id < delivered[j].id

\* The pair keeps the promise of OrderedDelivery, which knows no number, link or
\* watermark (while MaxFrames is below the range of the counter).
Promise == INSTANCE OrderedDelivery WITH Servers <- IngressServers
ImplementsOrderedDelivery == Promise!Spec

\* Neither host ignores a link that works (LinkStatus).
NoHealthyLinkMasked == ILink!NoHealthyLinkMasked /\ ELink!NoHealthyLinkMasked

\* A frame that reached the receive ring of a link the mask ends up including is
\* looked at once the receiver runs: the watermark of its server reaches its number.
ArrivedIsExamined ==
    \A l \in Links :
        <>[](epc # "boot" /\ l \in emask) =>
            \A s \in EgressServers, n \in 1 .. MaxFrames :
                (\E k \in DOMAIN rxq[l] : rxq[l][k].srv = s /\ rxq[l][k].seq = n)
                    ~> (ecounters[s] >= n)
=============================================================================
