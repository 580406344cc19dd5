----------------------------- MODULE ShuntAggre -----------------------------
(***************************************************************************)
(* The shunting engine of one testpmd, links that lose and reorder, and    *)
(* the aggre engine of another with its HTTP server, which also receives   *)
(* packets of other senders (VideoPath).                                   *)
(***************************************************************************)
EXTENDS Shunt, StreamReport, VideoPath

CONSTANTS
    CoresOf(_),     \* the cores that may receive packets of a stream (queues, RSS)
    MaxBegins,      \* bound: restarts of the receiver
    Traffics        \* bound: what a receiver is sent, packets with a number or without

ASSUME CoresAssumption == \A s \in Streams : CoresOf(s) \subseteq Cores
ASSUME BeginsAssumption == MaxBegins \in Nat
ASSUME TrafficsAssumption == Traffics \subseteq {"numbered", "video"}

VARIABLES
    wire,           \* packets sent and not received
    begins,         \* restarts of the receiver so far (bound)
    traffic         \* what this receiver is sent (bound)

vars == <<svars, avars, hvars, vvars, wire, begins, traffic>>

Init ==
    /\ SInit
    /\ AInit
    /\ HInit
    /\ wire = {}
    /\ begins = 0
    /\ traffic \in Traffics
    /\ VInit /\ (traffic = "numbered" => \A c \in Cores : rx_port[c] = 1)

Send ==
    /\ \/ /\ \E s \in Streams, n \in 1 .. NbPktPerBurst : Prepare(s, n)
          /\ UNCHANGED wire
       \/ \E k \in 0 .. NbPktPerBurst :
             /\ TransmitPart(k) \/ TransmitLast(k)
             /\ wire' = wire \cup Taken(k)
       \/ SBegin /\ UNCHANGED wire
    /\ UNCHANGED <<avars, hvars, begins>>

\* Packets arrive in any order; one that never arrives stays on the wire.
Receive(c) ==
    /\ \E p \in wire :
          /\ c \in CoresOf(p.sm)
          /\ Take(c, p)
          /\ wire' = wire \ {p}
    /\ UNCHANGED <<svars, hvars, begins>>

CoreStep(c) ==
    /\ Insert(c) \/ Count(c)
    /\ UNCHANGED <<svars, hvars, wire, begins>>

Begin ==
    /\ begins < MaxBegins
    /\ begins' = begins + 1
    /\ ABegin
    /\ UNCHANGED <<svars, hvars, wire>>

HttpStep == Report /\ UNCHANGED <<svars, avars, wire, begins>>

\* A core goes on with the packet it has.
CoreMoves(c) ==
    \/ traffic = "numbered" /\ CoreStep(c) /\ UNCHANGED <<vvars, traffic>>
    \/ traffic = "video" /\ VideoStep(c) /\ UNCHANGED <<svars, avars, hvars, wire, begins, traffic>>

NumberedNext ==
    /\ traffic = "numbered"
    /\ \/ Send
       \/ \E c \in Cores : Receive(c)
       \/ Begin
       \/ HttpStep
    /\ UNCHANGED <<vvars, traffic>>

VideoNext ==
    /\ traffic = "video"
    /\ (\E c \in Cores, d \in VideoPorts : VTake(c, d)) \/ VideoRequest
    /\ UNCHANGED <<svars, avars, hvars, wire, begins, traffic>>

Next == NumberedNext \/ VideoNext \/ \E c \in Cores : CoreMoves(c)

Spec == Init /\ [][Next]_vars

\* The cores are busy loops, and a spin lock is handed on in time.
FairSpec == Spec /\ \A c \in Cores : SF_vars(CoreMoves(c))

-----------------------------------------------------------------------------
SlotsOf(s) == {k \in Slots : status[k] /\ hash_value[k] = HashOf(s)}

OneSlotPerStream == \A s \in Streams : Cardinality(SlotsOf(s)) <= 1
NoneLeaked == leaked = 0

\* A stream has one slot, when one core receives it, and while the table has room for every
\* stream no packet is left without an owner. (Cores that meet its first packets at the same
\* time could claim two: the hash value a core compares is written after the claim.)
TableSuffices == OneSlotPerStream /\ NoneLeaked

CountWithinMax ==
    \A k \in Slots : spinlock[k] = NoCore => rx_pkts[k] <= max_sq[k] + 1

\* Every packet handled is counted once, in a slot of its own stream, whatever the cores
\* interleave: the counters of the slots of a stream add up to the packets of it that were
\* handled since the engine began. The numbers a slot has seen are distinct and none is above
\* its max_sq: what is missing is never negative while no core is in the slot.
CountedOnce ==
    /\ \A s \in Streams : SumFunctionOnSet(rx_pkts, SlotsOf(s)) = processed[s] - before[s]
    /\ CountWithinMax

ReportedReceivedIsReal == SumFunctionOnSet(rep_rx, Streams) <= SumFunctionOnSet(processed, Streams)
ReportedSentIsReal == begins = 0 => \A s \in Streams : rep_tx[s] <= streams_sequences[s]

\* What all reports add up to was really received, over restarts of the engine and slots that
\* change their stream: an old previous value hides packets but never makes them up. (Not
\* stream by stream: a slot may be given to another stream by a restart between the look-up
\* and the reads of a request.) What they say was sent was sent, while there is no restart.
ReportedIsReal == ReportedReceivedIsReal /\ ReportedSentIsReal

\* No core waits for a slot, the bitmap or a port for ever.
Busy(c) == cpc[c] # "idle" \/ vcpu[c].pc # "idle"
CoreFinishes == \A c \in Cores : Busy(c) ~> ~Busy(c)
=============================================================================
