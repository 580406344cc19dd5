------------------------------- MODULE Engines -------------------------------
(***************************************************************************)
(* The forwarding engines of testpmd at work: cores that serve streams     *)
(* with one engine, over one pool of mbufs and ports that take what they   *)
(* like. It composes the engines without memory (FwdEngines), csum         *)
(* (CsumBurst) and noisy (NoisyVnf), and beside the way of the mbufs what  *)
(* csum does to the checksums of a burst (CsumOffload): the two do not     *)
(* depend on each other, so a behaviour shows one of them.                 *)
(***************************************************************************)
EXTENDS FwdEngines, CsumBurst, NoisyVnf, CsumOffload

CONSTANT Confs      \* bound: the engines, options and layouts of streams on cores tried

\* flowgen keeps the next flow in one variable of all cores, without a lock: it is modelled on
\* one core. A flush time without a FIFO is not modelled either: there is no ring to look at.
ASSUME ConfsAssumption == \A o \in Confs :
    /\ o.mode \in {"io", "rxonly", "icmpecho", "ieee1588", "txonly", "flowgen", "csum", "noisy"}
    /\ o.lcore \in [Streams -> Cores]
    /\ o.retry \in BOOLEAN
    /\ o.split \in {"off", "on", "rand"}
    /\ o.gro \in {"off", "burst", "context"} /\ o.gso \in BOOLEAN
    /\ o.bufsz \in Nat /\ o.flush \in BOOLEAN /\ (o.flush => o.bufsz > 0)
    /\ o.mode = "flowgen" => \A s, r \in Streams : o.lcore[s] = o.lcore[r]

\* The headers are those of packets that csum forwards.
ASSUME CsumAssumption == \E o \in Confs : o.mode = "csum"

VARIABLE shown      \* bound: what this behaviour shows, the mbufs or the headers

mvars == <<bvars, gvars, fifo>>
vars == <<mvars, cvars, shown>>

\* A port as init_config() leaves it; what the checksums need of it when the mbufs are shown.
PlainPort == [tx_offloads |-> {}, tso |-> FALSE, tunnel_tso |-> FALSE, gso |-> FALSE, parse_tunnel |-> FALSE]

Init ==
    /\ shown \in {"mbufs", "headers"}
    /\ conf \in IF shown = "mbufs" THEN Confs ELSE {CHOOSE o \in Confs : o.mode = "csum"}
    /\ CInit /\ (shown = "mbufs" => txp = PlainPort)
    /\ owner = [m \in Mbufs |-> "pool"]
    /\ segs = [m \in Mbufs |-> {}]
    /\ flow = [m \in Mbufs |-> 0]
    /\ fs = [s \in Streams |-> [rx |-> 0, tx |-> 0, dropped |-> 0]]
    /\ cpu = [c \in Cores |-> IdleCpu]
    /\ next_flow = 0
    /\ ip_var = [c \in Cores |-> 0]
    /\ misused = FALSE
    /\ gro = [c \in Cores |-> {}]
    /\ gro_times = [s \in Streams |-> 0]
    /\ fifo = <<>>

Next ==
    \/ /\ shown = "mbufs" /\ UNCHANGED <<cvars, shown>>
       /\ \/ FwdNext /\ UNCHANGED <<gvars, fifo>>
          \/ CsumNext /\ UNCHANGED fifo
          \/ NoisyNext /\ UNCHANGED gvars
          \/ (TxDone \/ \E c \in Cores : Send(c) \/ Finish(c)) /\ UNCHANGED <<gvars, fifo>>
    \/ shown = "headers" /\ CNext /\ UNCHANGED <<mvars, shown>>

Spec == Init /\ [][Next]_vars

-----------------------------------------------------------------------------
Places == {"pool", "nic", "gro", "fifo"} \cup Cores

\* The variables are of the kinds the code keeps in them.
TypeOK ==
    /\ conf \in Confs
    /\ owner \in [Mbufs -> Places]
    /\ segs \in [Mbufs -> SUBSET Mbufs]
    /\ flow \in [Mbufs -> 0 .. NbFlows - 1]
    /\ \A s \in Streams : {fs[s].rx, fs[s].tx, fs[s].dropped} \subseteq Nat
    /\ \A c \in Cores : /\ cpu[c].pkts \in Seq(Mbufs) /\ cpu[c].tmp \in Seq(Mbufs)
                        /\ cpu[c].s \in IF cpu[c].pc = "idle" THEN {0} ELSE Streams
    /\ next_flow \in 0 .. NbFlows - 1
    /\ ip_var \in [Cores -> 0 .. NbFlows - 1]
    /\ misused \in BOOLEAN
    /\ gro \in [Cores -> SUBSET Mbufs]
    /\ gro_times \in [Streams -> 0 .. GroFlushCycles - 1]
    /\ fifo \in Seq(Mbufs) /\ Len(fifo) <= conf.bufsz
    /\ CTypeOK

OneCore == \A s, r \in Streams : conf.lcore[s] = conf.lcore[r]

\* A FIFO that always has room for a burst or holds one, and that only one core uses.
AmpleFifo == conf.bufsz >= 2 * NbPktPerBurst - 1 /\ OneCore

\* No mbuf is lost: a core that returned from packet_fwd() holds none, whatever the port took,
\* however often it was asked and whichever allocation failed on the way, and each queue holds
\* what it is said to hold. The exceptions are noisy with retries, which adds the total that
\* do_retry() returns to the total it had and so counts packets as sent that were not, and
\* noisy with a FIFO that may hold less than a burst when there is no room for one: it stores
\* as many packets as it takes out and does not look at the others.
NoMbufLost ==
    (conf.mode = "noisy" => ~conf.retry /\ (conf.bufsz = 0 \/ AmpleFifo)) =>
        /\ \A c \in Cores : cpu[c].pc = "idle" => HeldBy(c) = {}
        /\ HeldBy("fifo") = Elements(fifo)
        /\ HeldBy("gro") = Whole(UNION {gro[c] : c \in Cores})

\* No packet is handed on twice: what a core gives to a port, a queue or the pool is its own,
\* and was written to the array it is read from. The exception is noisy with retries and a
\* FIFO: do_retry() is told the numbers of the burst received when it is to send the packets
\* taken out of the FIFO, of which there may be fewer and some may have been sent.
NeverHandedTwice ==
    (conf.mode = "noisy" => ~conf.retry \/ conf.bufsz = 0 \/ (~conf.flush /\ AmpleFifo)) => ~misused

\* Every mbuf has one owner and finds its way back.
MbufsAccounted == TypeOK /\ NoMbufLost /\ NeverHandedTwice

\* The counters of a stream account for all that it received (testpmd.h:135): between two
\* bursts, what the forwarding engines received was sent or dropped.
ReceivedIsAccountedFor ==
    (conf.mode = "io" \/ (conf.mode = "csum" /\ conf.gro = "off" /\ ~conf.gso)) =>
        \A s \in Streams : cpu[conf.lcore[s]].s # s => fs[s].rx = fs[s].tx + fs[s].dropped

SentOn(c) == LET mine == {s \in Streams : conf.lcore[s] = c}
             IN SumFunctionOnSet([s \in mine |-> fs[s].tx], mine)

\* The flows a core generates follow each other on the wire without a gap: when packets are
\* offered to the port, theirs are the flows after those of the packets sent before, by
\* whichever stream of the core, although bursts were cut short and flows taken back.
FlowsFollow ==
    \A c \in Cores : cpu[c].pc = "send" /\ conf.mode \in {"txonly", "flowgen"} =>
        \A i \in (cpu[c].tx + 1) .. cpu[c].nb :
            flow[cpu[c].pkts[i]] = (SentOn(c) + (i - 1)) % NbFlows
=============================================================================
