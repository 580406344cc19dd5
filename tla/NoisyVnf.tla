------------------------------- MODULE NoisyVnf -------------------------------
(***************************************************************************)
(* The "noisy" engine (noisy_vnf.c). Without a FIFO it sends what it       *)
(* receives; with one it stores what it receives and, when that does not   *)
(* fit, sends the oldest packets first; a core that has sent nothing may   *)
(* flush the FIFO. The FIFO belongs to the port, so the streams of all its *)
(* queues share it: the Streams of a model are queues of one port.         *)
(***************************************************************************)
EXTENDS BurstState

CONSTANT WordMod    \* bound: stands for 2^32, where the count of drop_pkts() wraps

ASSUME WordAssumption == WordMod \in Nat \ {0}

VARIABLE fifo       \* ncf->f

Buffering == conf.bufsz > 0
FreeCount == conf.bufsz - Len(fifo)

\* drop_pkts() counts with the variable it returns the distance from: it returns 0 after it
\* freed something, and wraps when more was counted as sent than there was.
DropCount(n, tx) == IF tx < n THEN 0 ELSE (n - tx) % WordMod

NoisyReceive(c, s) ==
    /\ conf.mode = "noisy" /\ Turn(c, s)
    /\ \E n \in 1 .. NbPktPerBurst : Receive(c, s, n, IF Buffering THEN "room" ELSE "first")
    /\ UNCHANGED <<conf, fifo>>

\* An empty poll only looks whether the FIFO is to be flushed.
NoisyPoll(c, s) ==
    /\ conf.mode = "noisy" /\ Turn(c, s) /\ conf.flush
    /\ cpu' = [cpu EXCEPT ![c] = [IdleCpu EXCEPT !.pc = "flush", !.s = s]]
    /\ UNCHANGED <<conf, owner, segs, flow, fs, next_flow, ip_var, misused, fifo>>

\* The first try to send: the packets received, or what was taken from the FIFO. do_retry()
\* is called when fewer were sent than were received, and works on its own copy of nb_tx.
FirstTry(c) ==
    /\ cpu[c].pc \in {"first", "oldest"}
    /\ LET out == IF cpu[c].pc = "first" THEN cpu[c].pkts ELSE cpu[c].tmp
       IN \E k \in 0 .. Len(out) :
             /\ Give(c, Elements(SubSeq(out, 1, k)), "nic")
             /\ cpu' = [cpu EXCEPT ![c] =
                   [@ EXCEPT !.tx = k, !.t = k, !.tries = 0, !.tmp = out,
                             !.pc = IF k < cpu[c].nb /\ conf.retry
                                    THEN IF cpu[c].pc = "first" THEN "retry first" ELSE "retry oldest"
                                    ELSE IF cpu[c].pc = "first" THEN "sent" ELSE "drop"]]
    /\ UNCHANGED <<conf, fs, next_flow, ip_var, fifo>>

\* An array of packets read beyond what was written.
At(arr, i) == IF i <= Len(arr) THEN arr[i] ELSE Junk

\* do_retry(nb_rx, nb_tx, pkts, fs), one attempt.
DoRetry(c) ==
    /\ cpu[c].pc \in {"retry first", "retry oldest", "retry flush"}
    /\ cpu[c].t < cpu[c].nb /\ cpu[c].tries < BurstTxRetryNum
    /\ \E k \in 0 .. (cpu[c].nb - cpu[c].t) :
          /\ Give(c, {At(cpu[c].tmp, i) : i \in (cpu[c].t + 1) .. (cpu[c].t + k)}, "nic")
          /\ cpu' = [cpu EXCEPT ![c].t = @ + k, ![c].tries = @ + 1]
    /\ UNCHANGED <<conf, fs, next_flow, ip_var, fifo>>

\* It returns the total, which the caller adds to the total it had.
Retried(c) ==
    /\ cpu[c].pc \in {"retry first", "retry oldest", "retry flush"}
    /\ cpu[c].t >= cpu[c].nb \/ cpu[c].tries = BurstTxRetryNum
    /\ cpu' = [cpu EXCEPT ![c] =
          [@ EXCEPT !.tx = cpu[c].tx + cpu[c].t, !.t = 0, !.tries = 0,
                    !.pc = CASE cpu[c].pc = "retry first" -> "sent"
                             [] cpu[c].pc = "retry oldest" -> "drop"
                             [] cpu[c].pc = "retry flush" -> "drop flush"]]
    /\ UNCHANGED <<conf, owner, segs, flow, fs, next_flow, ip_var, misused, fifo>>

\* The end of a burst that is not buffered.
NoisySent(c) ==
    /\ cpu[c].pc = "sent"
    /\ Give(c, Elements(Rest(cpu[c].pkts, cpu[c].tx)), "pool")
    /\ fs' = [fs EXCEPT ![cpu[c].s].tx = @ + cpu[c].tx,
                        ![cpu[c].s].dropped = @ + DropCount(cpu[c].nb, cpu[c].tx)]
    /\ cpu' = [cpu EXCEPT ![c] = IdleCpu]
    /\ UNCHANGED <<conf, next_flow, ip_var, fifo>>

-----------------------------------------------------------------------------
\* rte_ring_free_count(): another core may change it before the next step.
LookForRoom(c) ==
    /\ cpu[c].pc = "room"
    /\ cpu' = [cpu EXCEPT ![c].pc = IF FreeCount >= cpu[c].nb THEN "store" ELSE "make room"]
    /\ UNCHANGED <<conf, owner, segs, flow, fs, next_flow, ip_var, misused, fifo>>

\* What still fits is stored, the rest is freed.
Store(c) ==
    /\ cpu[c].pc = "store"
    /\ LET n == Least(cpu[c].nb, FreeCount)
           dropped == Elements(Rest(cpu[c].pkts, n))
       IN /\ fifo' = fifo \o SubSeq(cpu[c].pkts, 1, n)
          /\ owner' = [m \in Mbufs |-> IF m \in dropped THEN "pool"
                                       ELSE IF m \in Elements(cpu[c].pkts) THEN "fifo" ELSE owner[m]]
          /\ misused' = (misused \/ \E m \in Elements(cpu[c].pkts) : owner[m] # c)
          /\ cpu' = [cpu EXCEPT ![c].pc = "flush"]
    /\ UNCHANGED <<conf, segs, flow, fs, next_flow, ip_var>>

\* As many packets are taken out as were received, or as there are.
MakeRoom(c) ==
    /\ cpu[c].pc = "make room"
    /\ LET n == Least(cpu[c].nb, Len(fifo))
           out == SubSeq(fifo, 1, n)
       IN /\ fifo' = Rest(fifo, n)
          /\ owner' = [m \in Mbufs |-> IF m \in Elements(out) THEN c ELSE owner[m]]
          /\ cpu' = [cpu EXCEPT ![c].tmp = out, ![c].pc = "refill"]
    /\ UNCHANGED <<conf, segs, flow, fs, next_flow, ip_var, misused>>

\* As many of the received packets as were taken out are stored, and no other is looked at.
Refill(c) ==
    /\ cpu[c].pc = "refill"
    /\ LET stored == SubSeq(cpu[c].pkts, 1, Least(Len(cpu[c].tmp), FreeCount))
       IN /\ Give(c, Elements(stored), "fifo")
          /\ fifo' = fifo \o stored
    /\ cpu' = [cpu EXCEPT ![c].pc = IF cpu[c].tmp = <<>> THEN "flush" ELSE "oldest"]
    /\ UNCHANGED <<conf, fs, next_flow, ip_var>>

DropOldest(c) ==
    /\ cpu[c].pc = "drop"
    /\ Give(c, Elements(Rest(cpu[c].tmp, cpu[c].tx)), "pool")
    /\ fs' = [fs EXCEPT ![cpu[c].s].dropped = @ + DropCount(Len(cpu[c].tmp), cpu[c].tx)]
    /\ cpu' = [cpu EXCEPT ![c].pc = "flush"]
    /\ UNCHANGED <<conf, next_flow, ip_var, fifo>>

-----------------------------------------------------------------------------
\* The time to flush has come or not; a core that sent something does not flush.
NoFlush(c) ==
    /\ cpu[c].pc = "flush"
    /\ cpu' = [cpu EXCEPT ![c] = IdleCpu]
    /\ UNCHANGED <<conf, owner, segs, flow, fs, next_flow, ip_var, misused, fifo>>

\* One round of the loop: what the FIFO holds is taken out and offered to the port.
Flush(c) ==
    /\ cpu[c].pc \in {"flush", "flush on"} /\ fifo # <<>>
    /\ cpu[c].pc = "flush" => conf.flush /\ cpu[c].tx = 0
    /\ \E sent \in 0 .. Len(fifo) :
          LET out == Elements(SubSeq(fifo, 1, sent))
          IN /\ owner' = [m \in Mbufs |-> IF m \in out THEN "nic"
                                          ELSE IF m \in Elements(fifo) THEN c ELSE owner[m]]
             /\ misused' = (misused \/ \E m \in Elements(fifo) : owner[m] # "fifo")
             /\ cpu' = [cpu EXCEPT ![c] =
                   [@ EXCEPT !.tmp = fifo, !.lim = sent, !.t = cpu[c].tx, !.tries = 0,
                             !.pc = IF sent < Len(fifo) /\ conf.retry THEN "retry flush"
                                    ELSE "drop flush"]]
    /\ fifo' = <<>>
    /\ UNCHANGED <<conf, segs, flow, fs, next_flow, ip_var>>

DropFlushed(c) ==
    /\ cpu[c].pc = "drop flush"
    /\ Give(c, Elements(Rest(cpu[c].tmp, cpu[c].lim)), "pool")
    /\ fs' = [fs EXCEPT ![cpu[c].s].dropped = @ + DropCount(Len(cpu[c].tmp), cpu[c].lim)]
    /\ cpu' = [cpu EXCEPT ![c].pc = "flush on"]
    /\ UNCHANGED <<conf, next_flow, ip_var, fifo>>

Flushed(c) ==
    /\ cpu[c].pc = "flush on" /\ fifo = <<>>
    /\ cpu' = [cpu EXCEPT ![c] = IdleCpu]
    /\ UNCHANGED <<conf, owner, segs, flow, fs, next_flow, ip_var, misused, fifo>>

NoisyNext ==
    \/ \E c \in Cores, s \in Streams : NoisyReceive(c, s) \/ NoisyPoll(c, s)
    \/ \E c \in Cores :
          \/ FirstTry(c) \/ DoRetry(c) \/ Retried(c) \/ NoisySent(c)
          \/ LookForRoom(c) \/ Store(c) \/ MakeRoom(c) \/ Refill(c) \/ DropOldest(c)
          \/ NoFlush(c) \/ Flush(c) \/ DropFlushed(c) \/ Flushed(c)
=============================================================================
