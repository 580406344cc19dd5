------------------------------ MODULE FwdEngines ------------------------------
(***************************************************************************)
(* The engines that keep nothing between two bursts. "io" stands for io,   *)
(* mac, macswap and 5tswap, which differ only in what they write into the  *)
(* packets (iofwd.c, macfwd.c, macswap.c, 5tswap.c); the others are rxonly,*)
(* icmpecho, ieee1588, txonly and flowgen, each with its own file.         *)
(***************************************************************************)
EXTENDS BurstState

Bursts == 1 .. NbPktPerBurst

\* io, mac, macswap, 5tswap: what is received is sent.
IoForward(c, s) ==
    /\ conf.mode = "io" /\ Turn(c, s)
    /\ \E n \in Bursts : Receive(c, s, n, "send")
    /\ UNCHANGED conf

\* rxonly: what is received is freed. flowgen does the same first, also when nothing arrived.
RxOnly(c, s) ==
    /\ conf.mode = "rxonly" /\ Turn(c, s)
    /\ \E n \in Bursts : Receive(c, s, n, "discard")
    /\ UNCHANGED conf

FlowGen(c, s) ==
    /\ conf.mode = "flowgen" /\ Turn(c, s)
    /\ \E n \in {0} \cup Bursts : Receive(c, s, n, "discard")
    /\ UNCHANGED conf

Discard(c) ==
    /\ cpu[c].pc = "discard"
    /\ Give(c, Elements(cpu[c].pkts), "pool")
    /\ cpu' = [cpu EXCEPT ![c] =
          IF conf.mode = "rxonly" THEN IdleCpu
                                  ELSE [IdleCpu EXCEPT !.pc = "generate", !.s = cpu[c].s]]
    /\ UNCHANGED <<conf, fs, next_flow, ip_var>>

\* icmpecho: some packets become replies and move to the front of the array, the others are
\* freed.
IcmpEcho(c, s) ==
    /\ conf.mode = "icmpecho" /\ Turn(c, s)
    /\ \E n \in Bursts : Receive(c, s, n, "filter")
    /\ UNCHANGED conf

Filter(c) ==
    /\ cpu[c].pc = "filter" /\ conf.mode = "icmpecho"
    /\ \E requests \in SUBSET Elements(cpu[c].pkts) :
          LET replies == Kept(cpu[c].pkts, requests)
          IN /\ Give(c, Elements(cpu[c].pkts) \ requests, "pool")
             /\ cpu' = [cpu EXCEPT ![c] =
                   IF replies = <<>> THEN IdleCpu
                   ELSE [@ EXCEPT !.pc = "send", !.pkts = replies, !.nb = Len(replies),
                                  !.lim = Len(replies)]]
    /\ UNCHANGED <<conf, fs, next_flow, ip_var>>

\* ieee1588: one packet at a time; it is counted as sent before it is offered to the port.
Ieee1588(c, s) ==
    /\ conf.mode = "ieee1588" /\ Turn(c, s)
    /\ Receive(c, s, 1, "ptp")
    /\ UNCHANGED conf

NotPtpSync(c) ==
    /\ cpu[c].pc = "ptp"
    /\ Give(c, Elements(cpu[c].pkts), "pool")
    /\ cpu' = [cpu EXCEPT ![c] = IdleCpu]
    /\ UNCHANGED <<conf, fs, next_flow, ip_var>>

PtpSync(c) ==
    /\ cpu[c].pc = "ptp"
    /\ \E taken \in BOOLEAN :
          /\ Give(c, Elements(cpu[c].pkts), IF taken THEN "nic" ELSE "pool")
          /\ fs' = [fs EXCEPT ![cpu[c].s].tx = @ + 1,
                              ![cpu[c].s].dropped = @ + (IF taken THEN 0 ELSE 1)]
    /\ cpu' = [cpu EXCEPT ![c] = IdleCpu]
    /\ UNCHANGED <<conf, next_flow, ip_var>>

-----------------------------------------------------------------------------
\* txonly takes the mbufs of a burst at once if the pool has them all, else one by one.
TxOnly(c, s) ==
    /\ conf.mode = "txonly" /\ Turn(c, s)
    /\ LET bulk == IF Cardinality(Pool) >= NbPktPerBurst THEN FromPool(NbPktPerBurst) ELSE <<>>
       IN /\ owner' = [m \in Mbufs |-> IF m \in Elements(bulk) THEN c ELSE owner[m]]
          /\ cpu' = [cpu EXCEPT ![c] = [IdleCpu EXCEPT !.s = s, !.pkts = bulk,
                       !.pc = IF bulk = <<>> THEN "alloc" ELSE "prepare"]]
    /\ UNCHANGED <<conf, segs, flow, fs, next_flow, ip_var, misused>>

RawAlloc(c) ==
    /\ cpu[c].pc = "alloc" /\ Pool # {}
    /\ LET got == FromPool(1)
       IN /\ owner' = [owner EXCEPT ![got[1]] = c]
          /\ cpu' = [cpu EXCEPT ![c].pkts = @ \o got, ![c].pc = "prepare"]
    /\ UNCHANGED <<conf, segs, flow, fs, next_flow, ip_var, misused>>

\* The burst is what was prepared so far; an empty one is not sent.
Stop(c, n) == IF n = 0 THEN IdleCpu
              ELSE [cpu[c] EXCEPT !.pc = "send", !.pkts = SubSeq(@, 1, n), !.nb = n, !.lim = n]

NoMbuf(c) ==
    /\ cpu[c].pc = "alloc" /\ Pool = {}
    /\ cpu' = [cpu EXCEPT ![c] = Stop(c, cpu[c].nb)]
    /\ UNCHANGED <<conf, owner, segs, flow, fs, next_flow, ip_var, misused>>

NbSegs == IF conf.split = "rand" THEN 1 .. TxPktNbSegs ELSE {TxPktNbSegs}

\* pkt_burst_prepare(): the other segments come from the pool all or none.
Prepare(c) ==
    /\ cpu[c].pc = "prepare"
    /\ \E nb_segs \in NbSegs :
          /\ Cardinality(Pool) >= nb_segs - 1
          /\ LET more == Elements(FromPool(nb_segs - 1))
                 n == cpu[c].nb + 1
                 pkt == cpu[c].pkts[n]
             IN /\ owner' = [m \in Mbufs |-> IF m \in more THEN c ELSE owner[m]]
                /\ segs' = [segs EXCEPT ![pkt] = more]
                /\ flow' = [flow EXCEPT ![pkt] = ip_var[c]]
                /\ cpu' = [cpu EXCEPT ![c] =
                      IF n = NbPktPerBurst THEN Stop(c, n)
                      ELSE [@ EXCEPT !.nb = n, !.pc = IF Len(cpu[c].pkts) = n THEN "alloc" ELSE "prepare"]]
    /\ ip_var' = [ip_var EXCEPT ![c] = (@ + 1) % NbFlows]
    /\ UNCHANGED <<conf, fs, next_flow, misused>>

\* Mutant: the mbufs that were taken for nothing are forgotten.
PrepareFails_Leaks(c) ==
    /\ cpu[c].pc = "prepare"
    /\ \E nb_segs \in NbSegs : Cardinality(Pool) < nb_segs - 1
    /\ cpu' = [cpu EXCEPT ![c] = Stop(c, cpu[c].nb)]
    /\ UNCHANGED <<conf, owner, segs, flow, fs, next_flow, ip_var, misused>>

\* When they do not come, the mbufs that were taken for nothing go back.
PrepareFails(c) ==
    /\ cpu[c].pc = "prepare"
    /\ \E nb_segs \in NbSegs : Cardinality(Pool) < nb_segs - 1
    /\ Give(c, Elements(Rest(cpu[c].pkts, cpu[c].nb)), "pool")
    /\ cpu' = [cpu EXCEPT ![c] = Stop(c, cpu[c].nb)]
    /\ UNCHANGED <<conf, fs, next_flow, ip_var>>

\* flowgen: one mbuf and the next flow for each packet.
Generate(c) ==
    /\ cpu[c].pc = "generate" /\ cpu[c].nb < NbPktPerBurst /\ Pool # {}
    /\ LET got == FromPool(1)
       IN /\ owner' = [owner EXCEPT ![got[1]] = c]
          /\ flow' = [flow EXCEPT ![got[1]] = next_flow]
          /\ cpu' = [cpu EXCEPT ![c].pkts = @ \o got, ![c].nb = @ + 1]
    /\ next_flow' = (next_flow + 1) % NbFlows
    /\ UNCHANGED <<conf, segs, fs, ip_var, misused>>

Generated(c) ==
    /\ cpu[c].pc = "generate" /\ (cpu[c].nb = NbPktPerBurst \/ Pool = {})
    /\ cpu' = [cpu EXCEPT ![c] = [@ EXCEPT !.pc = "send", !.lim = cpu[c].nb]]
    /\ UNCHANGED <<conf, owner, segs, flow, fs, next_flow, ip_var, misused>>

FwdNext ==
    \/ \E c \in Cores, s \in Streams :
          \/ IoForward(c, s) \/ RxOnly(c, s) \/ FlowGen(c, s) \/ IcmpEcho(c, s)
          \/ Ieee1588(c, s) \/ TxOnly(c, s)
    \/ \E c \in Cores :
          \/ Discard(c) \/ Filter(c) \/ NotPtpSync(c) \/ PtpSync(c)
          \/ RawAlloc(c) \/ NoMbuf(c) \/ Prepare(c) \/ PrepareFails(c)
          \/ Generate(c) \/ Generated(c)
=============================================================================
