------------------------------ MODULE CsumBurst ------------------------------
(***************************************************************************)
(* How the "csum" engine (csumonly.c) moves a burst: a packet may be copied*)
(* into new segments, GRO merges packets or keeps them in the table of the *)
(* core, GSO replaces a packet by its segments, and rte_eth_tx_prepare()   *)
(* looks at the packets before the first try to send them. What becomes of *)
(* the checksums is the subject of module CsumOffload.                     *)
(***************************************************************************)
EXTENDS BurstState

CONSTANT GroFlushCycles     \* gro_flush_cycles when it is not GRO_DEFAULT_FLUSH_CYCLES

ASSUME GroAssumption == GroFlushCycles \in Nat \ {0}

VARIABLES
    gro,        \* the packets in the gro_ctx of each core
    gro_times   \* fs->gro_times

gvars == <<gro, gro_times>>

CsumReceive(c, s) ==
    /\ conf.mode = "csum" /\ Turn(c, s)
    /\ \E n \in 1 .. NbPktPerBurst : Receive(c, s, n, "copy")
    /\ UNCHANGED <<conf, gvars>>

\* pkt_copy_split(): a copy of up to TxPktNbSegs new segments takes the place of the packet.
Copied(c) ==
    /\ cpu[c].pc = "copy" /\ conf.split # "off" /\ cpu[c].t < cpu[c].nb
    /\ \E nb_seg \in 1 .. TxPktNbSegs :
          /\ Cardinality(Pool) >= nb_seg
          /\ LET md == FromPool(nb_seg)
                 m == cpu[c].pkts[cpu[c].t + 1]
             IN /\ owner' = [x \in Mbufs |-> IF x \in Elements(md) THEN c
                                             ELSE IF x \in Whole({m}) THEN "pool" ELSE owner[x]]
                /\ segs' = [segs EXCEPT ![m] = {}, ![md[1]] = Elements(Tail(md))]
                /\ misused' = (misused \/ owner[m] # c)
                /\ cpu' = [cpu EXCEPT ![c] = [@ EXCEPT !.pkts[cpu[c].t + 1] = md[1], !.t = cpu[c].t + 1]]
    /\ UNCHANGED <<conf, flow, fs, next_flow, ip_var, gvars>>

\* Without a copy, or when it fails, which gives back its segments, the packet stays.
NotCopied(c) ==
    /\ cpu[c].pc = "copy" /\ cpu[c].t < cpu[c].nb
    /\ cpu' = [cpu EXCEPT ![c].t = @ + 1]
    /\ UNCHANGED <<conf, owner, segs, flow, fs, next_flow, ip_var, misused, gvars>>

-----------------------------------------------------------------------------
\* rte_gro_reassemble_burst(): packets of the burst are merged into others of it.
GroBurst(c) ==
    /\ cpu[c].pc = "copy" /\ cpu[c].t = cpu[c].nb /\ conf.gro = "burst"
    /\ \E keep \in (SUBSET Elements(cpu[c].pkts)) \ {{}} :
          LET left == Kept(cpu[c].pkts, keep)
              merged == Elements(cpu[c].pkts) \ keep
          IN /\ segs' = [m \in Mbufs |-> IF m = left[1] THEN segs[m] \cup Whole(merged)
                                         ELSE IF m \in merged THEN {} ELSE segs[m]]
             /\ cpu' = [cpu EXCEPT ![c] = [@ EXCEPT !.pkts = left, !.nb = Len(left), !.pc = "gso", !.t = 0]]
    /\ UNCHANGED <<conf, owner, flow, fs, next_flow, ip_var, misused, gvars>>

\* rte_gro_reassemble() keeps packets in the table of the core; the packets of all its streams
\* are in it, and every GroFlushCycles bursts of one of them it is emptied into the burst.
GroContext(c) ==
    /\ cpu[c].pc = "copy" /\ cpu[c].t = cpu[c].nb /\ conf.gro = "context"
    /\ \E pass \in SUBSET Elements(cpu[c].pkts) :
          LET s == cpu[c].s
              table == gro[c] \cup (Elements(cpu[c].pkts) \ pass)
              flush == gro_times[s] + 1 >= GroFlushCycles
              left == Kept(cpu[c].pkts, pass) \o (IF flush THEN InOrder(table) ELSE <<>>)
          IN /\ owner' = [m \in Mbufs |-> IF m \in Whole(table)
                                          THEN IF flush THEN c ELSE "gro" ELSE owner[m]]
             /\ misused' = (misused \/ \E m \in Elements(cpu[c].pkts) : owner[m] # c)
             /\ gro' = [gro EXCEPT ![c] = IF flush THEN {} ELSE table]
             /\ gro_times' = [gro_times EXCEPT ![s] = IF flush THEN 0 ELSE @ + 1]
             /\ cpu' = [cpu EXCEPT ![c] = [@ EXCEPT !.pkts = left, !.nb = Len(left), !.pc = "gso", !.t = 0]]
    /\ UNCHANGED <<conf, segs, flow, fs, next_flow, ip_var>>

NoGro(c) ==
    /\ cpu[c].pc = "copy" /\ cpu[c].t = cpu[c].nb /\ conf.gro = "off"
    /\ cpu' = [cpu EXCEPT ![c].pc = "gso", ![c].t = 0]
    /\ UNCHANGED <<conf, owner, segs, flow, fs, next_flow, ip_var, misused, gvars>>

\* rte_gso_segment() of the next packet: the segments made of it go into gso_segments (tmp) and
\* it is freed; or it goes there as it is; or it is freed.
GsoSegment(c) ==
    /\ cpu[c].pc = "gso" /\ conf.gso /\ cpu[c].t < cpu[c].nb
    /\ \E n \in 1 .. 2 :
          /\ Cardinality(Pool) >= n
          /\ LET m == cpu[c].pkts[cpu[c].t + 1]
                 made == FromPool(n)
             IN /\ owner' = [x \in Mbufs |-> IF x \in Elements(made) THEN c
                                             ELSE IF x \in Whole({m}) THEN "pool" ELSE owner[x]]
                /\ segs' = [segs EXCEPT ![m] = {}]
                /\ misused' = (misused \/ owner[m] # c)
                /\ cpu' = [cpu EXCEPT ![c] = [@ EXCEPT !.tmp = cpu[c].tmp \o made, !.t = cpu[c].t + 1]]
    /\ UNCHANGED <<conf, flow, fs, next_flow, ip_var, gvars>>

GsoWhole(c) ==
    /\ cpu[c].pc = "gso" /\ conf.gso /\ cpu[c].t < cpu[c].nb
    /\ cpu' = [cpu EXCEPT ![c].tmp = Append(@, cpu[c].pkts[cpu[c].t + 1]), ![c].t = @ + 1]
    /\ UNCHANGED <<conf, owner, segs, flow, fs, next_flow, ip_var, misused, gvars>>

GsoFails(c) ==
    /\ cpu[c].pc = "gso" /\ conf.gso /\ cpu[c].t < cpu[c].nb
    /\ Give(c, {cpu[c].pkts[cpu[c].t + 1]}, "pool")
    /\ cpu' = [cpu EXCEPT ![c].t = @ + 1]
    /\ UNCHANGED <<conf, fs, next_flow, ip_var, gvars>>

\* Mutant: what was not accepted is not part of the burst any more.
TxPrepare_Only(c) ==
    /\ cpu[c].pc = "gso" /\ (conf.gso => cpu[c].t = cpu[c].nb)
    /\ LET pkts == IF conf.gso THEN cpu[c].tmp ELSE cpu[c].pkts
       IN \E nb_prep \in 0 .. Len(pkts) :
             cpu' = [cpu EXCEPT ![c] = [IdleCpu EXCEPT !.pc = "send", !.s = cpu[c].s, !.pkts = SubSeq(pkts, 1, nb_prep),
                                                       !.nb = nb_prep, !.lim = nb_prep]]
    /\ UNCHANGED <<conf, owner, segs, flow, fs, next_flow, ip_var, misused, gvars>>

\* rte_eth_tx_prepare() accepts the first packets of what is to be sent; only the first try
\* to send is limited to them.
TxPrepare(c) ==
    /\ cpu[c].pc = "gso" /\ (conf.gso => cpu[c].t = cpu[c].nb)
    /\ LET pkts == IF conf.gso THEN cpu[c].tmp ELSE cpu[c].pkts
       IN \E nb_prep \in 0 .. Len(pkts) :
             cpu' = [cpu EXCEPT ![c] = [IdleCpu EXCEPT !.pc = "send", !.s = cpu[c].s, !.pkts = pkts,
                                                       !.nb = Len(pkts), !.lim = nb_prep]]
    /\ UNCHANGED <<conf, owner, segs, flow, fs, next_flow, ip_var, misused, gvars>>

CsumNext ==
    \/ \E c \in Cores, s \in Streams : CsumReceive(c, s)
    \/ \E c \in Cores :
          \/ Copied(c) \/ NotCopied(c) \/ GroBurst(c) \/ GroContext(c) \/ NoGro(c)
          \/ GsoSegment(c) \/ GsoWhole(c) \/ GsoFails(c) \/ TxPrepare(c)
=============================================================================
