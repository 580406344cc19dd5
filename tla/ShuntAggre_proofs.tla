-------------------------- MODULE ShuntAggre_proofs --------------------------
(***************************************************************************)
(* What the numbers of the shunting engine, the table of the aggre engine  *)
(* and the reports of the HTTP server promise, for any streams, cores,     *)
(* slots and bounds.                                                       *)
(***************************************************************************)
EXTENDS ShuntAggre, ListsAndSums, FunctionTheorems

-----------------------------------------------------------------------------
(* Types. *)

Handling == {"probe", "sethash", "setkey", "lock", "load", "max", "rx"}
Inside == {"load", "max", "rx", "unlock"}

SType ==
    /\ streams_sequences \in [Streams -> Nat]
    /\ fs \in Streams \cup {NoStream}
    /\ pkts_burst \in Seq(Packets)
    /\ fs = NoStream => pkts_burst = <<>>
    /\ tx_packets \in [Streams -> Nat]
    /\ fwd_dropped \in [Streams -> Nat]
    /\ base \in [Streams -> Nat]

AType ==
    /\ status \in [Slots -> BOOLEAN]
    /\ hash_value \in [Slots -> Nat]
    /\ key \in [Slots -> Streams \cup {NoStream}]
    /\ max_sq \in [Slots -> Nat]
    /\ rx_pkts \in [Slots -> Nat]
    /\ spinlock \in [Slots -> Cores \cup {NoCore}]
    /\ cpc \in [Cores -> {"idle", "unlock"} \cup Handling]
    /\ pkt \in [Cores -> Packets \cup {NoPacket}]
    /\ \A c \in Cores : cpc[c] # "idle" => pkt[c] \in Packets
    /\ di \in [Cores -> 0 .. NbSlots]
    /\ pos \in [Cores -> Slots]
    /\ loaded \in [Cores -> [max : Nat, rx : Nat]]
    /\ processed \in [Streams -> Nat]
    /\ before \in [Streams -> Nat]
    /\ wire \subseteq Packets

\* Two streams do not have one hash value.
HashesDiffer == \A s, t \in Streams : HashOf(s) = HashOf(t) => s = t

-----------------------------------------------------------------------------
(* Each packet is in one place, and is counted once. *)

InHand(c) == cpc[c] \in Handling

\* The numbers below have left the sender, those at and above are in the burst or to come.
FirstUnsent(s) == streams_sequences[s] - (IF fs = s THEN Len(pkts_burst) ELSE 0)

OnePlace ==
    /\ \A i \in DOMAIN pkts_burst : pkts_burst[i] = [sm |-> fs, sq |-> FirstUnsent(fs) + i - 1]
    /\ \A p \in wire : p.sq < FirstUnsent(p.sm)
    /\ \A c \in Cores : InHand(c) => pkt[c].sq < FirstUnsent(pkt[c].sm) /\ pkt[c] \notin wire
    /\ \A c, d \in Cores : InHand(c) /\ InHand(d) /\ c # d => pkt[c] # pkt[d]

\* Numbers that left the sender and will not come to a slot any more.
Through(s) == {q \in 0 .. FirstUnsent(s) - 1 :
                  /\ [sm |-> s, sq |-> q] \notin wire
                  /\ \A c \in Cores : InHand(c) => pkt[c] # [sm |-> s, sq |-> q]}

\* A slot is its stream's from when its hash value is written; the core that claimed it is
\* alone with it until then.
Claiming == {"idle", "probe", "sethash"}

ClaimInv ==
    /\ \A k \in Slots : /\ ~status[k] => hash_value[k] = 0
                        /\ hash_value[k] = 0 => rx_pkts[k] = 0
                        /\ hash_value[k] # 0 => \E s \in Streams : hash_value[k] = HashOf(s)
    /\ \A c \in Cores : cpc[c] \notin {"idle", "probe"} => status[pos[c]]
    /\ \A c \in Cores : cpc[c] = "sethash" => hash_value[pos[c]] = 0
    /\ \A c, d \in Cores : cpc[c] = "sethash" /\ cpc[d] = "sethash" /\ c # d => pos[c] # pos[d]
    /\ \A c \in Cores : cpc[c] \notin Claiming => hash_value[pos[c]] = HashOf(pkt[c].sm)

\* One core at a time is in a slot, and what it has read of it is still so.
LockInv ==
    /\ \A c \in Cores : cpc[c] \in Inside => spinlock[pos[c]] = c
    /\ \A c \in Cores : /\ cpc[c] = "max" => loaded[c].max = max_sq[pos[c]]
                        /\ cpc[c] \in {"max", "rx"} => loaded[c].rx = rx_pkts[pos[c]]
                        /\ cpc[c] = "rx" => max_sq[pos[c]] >= pkt[c].sq

SumInv == \A s \in Streams :
    /\ before[s] <= processed[s]
    /\ SumFunctionOnSet(rx_pkts, SlotsOf(s)) = processed[s] - before[s]

\* What a slot has counted are numbers of its stream that are through, up to max_sq.
NumbersThrough(s, m) == {q \in Through(s) : q <= m}
NumbersInv == \A s \in Streams : \A k \in SlotsOf(s) :
    rx_pkts[k] <= Cardinality(NumbersThrough(s, max_sq[k]))

CountInv == SType /\ AType /\ OnePlace /\ ClaimInv /\ LockInv /\ SumInv /\ NumbersInv

-----------------------------------------------------------------------------
(* The steps, and what keeps its type. *)

LEMMA Steps ==
    ASSUME [Next]_vars
    PROVE  \/ Send
           \/ \E c \in Cores : Receive(c)
           \/ \E c \in Cores : CoreStep(c)
           \/ Begin
           \/ HttpStep
           \/ UNCHANGED <<svars, avars, hvars, wire, begins>>
<1>1. CASE NumberedNext
  BY <1>1 DEF NumberedNext
<1>2. CASE VideoNext
  BY <1>2 DEF VideoNext
<1>3. CASE \E c \in Cores : CoreMoves(c)
  BY <1>3 DEF CoreMoves
<1>4. CASE UNCHANGED vars
  BY <1>4 DEF vars
<1> QED
  BY <1>1, <1>2, <1>3, <1>4 DEF Next

LEMMA STypeStays ==
    ASSUME SType, [Next]_vars
    PROVE  SType'
<1> USE BurstAssumption, SendBoundsAssumption, StreamsAssumption
<1>1. ASSUME NEW s \in Streams, NEW n \in 1 .. NbPktPerBurst, Prepare(s, n)
      PROVE  SType'
  <2>1. n \in Nat \ {0}
    OBVIOUS
  <2>2. \A i \in 1 .. n : [sm |-> s, sq |-> streams_sequences[s] + i - 1] \in Packets
    BY <1>1, <2>1 DEF Prepare, SType, Packets
  <2>3. pkts_burst' \in Seq(Packets)
    BY <1>1, <2>1, <2>2 DEF Prepare
  <2>4. streams_sequences' \in [Streams -> Nat]
    BY <1>1, <2>1 DEF Prepare, SType
  <2> QED
    BY <1>1, <2>3, <2>4 DEF Prepare, SType
<1>2. ASSUME NEW k \in 0 .. NbPktPerBurst, TransmitPart(k)
      PROVE  SType'
  <2>1. k \in Nat /\ k < Len(pkts_burst)
    BY <1>2 DEF TransmitPart, SType
  <2>2. pkts_burst' \in Seq(Packets)
    BY <1>2, <2>1 DEF TransmitPart, SType
  <2>3. tx_packets' \in [Streams -> Nat]
    BY <1>2, <2>1 DEF TransmitPart, SType
  <2> QED
    BY <1>2, <2>2, <2>3 DEF TransmitPart, SType
<1>3. ASSUME NEW k \in 0 .. NbPktPerBurst, TransmitLast(k)
      PROVE  SType'
  <2>1. k \in Nat /\ Len(pkts_burst) - k \in Nat
    BY <1>3 DEF TransmitLast, SType
  <2>2. tx_packets' \in [Streams -> Nat] /\ fwd_dropped' \in [Streams -> Nat]
    BY <1>3, <2>1 DEF TransmitLast, SType, GivenUp
  <2> QED
    BY <1>3, <2>2 DEF TransmitLast, SType
<1>4. CASE SBegin
  BY <1>4 DEF SBegin, SType
<1>5. CASE UNCHANGED svars
  BY <1>5 DEF svars, SType
<1> QED
  BY <1>1, <1>2, <1>3, <1>4, <1>5, Steps DEF Send, Receive, CoreStep, Begin, HttpStep

\* Every number of a run is accounted for: sent, given up, or still at hand.
LEMMA NumbersStay ==
    ASSUME SType, NumbersAccounted, [Next]_vars
    PROVE  NumbersAccounted'
<1> USE BurstAssumption, SendBoundsAssumption, StreamsAssumption
<1>1. ASSUME NEW s \in Streams, NEW n \in 1 .. NbPktPerBurst, Prepare(s, n)
      PROVE  NumbersAccounted'
  <2>1. n \in Nat /\ Len(pkts_burst') = n
    BY <1>1 DEF Prepare
  <2> SUFFICES ASSUME NEW t \in Streams
               PROVE  streams_sequences'[t] = base'[t] + tx_packets'[t] + fwd_dropped'[t]
                                              + (IF fs' = t THEN Len(pkts_burst') ELSE 0)
    BY DEF NumbersAccounted
  <2>2. streams_sequences[t] = base[t] + tx_packets[t] + fwd_dropped[t]
    BY <1>1 DEF Prepare, NumbersAccounted, SType
  <2> QED
    BY <1>1, <2>1, <2>2 DEF Prepare, SType
<1>2. ASSUME NEW k \in 0 .. NbPktPerBurst, TransmitPart(k)
      PROVE  NumbersAccounted'
  <2>1. k \in Nat /\ k < Len(pkts_burst) /\ Len(pkts_burst) \in Nat
    BY <1>2 DEF TransmitPart, SType
  <2>2. Len(pkts_burst') = Len(pkts_burst) - k
    BY <1>2, <2>1 DEF TransmitPart, SType
  <2> SUFFICES ASSUME NEW t \in Streams
               PROVE  streams_sequences'[t] = base'[t] + tx_packets'[t] + fwd_dropped'[t]
                                              + (IF fs' = t THEN Len(pkts_burst') ELSE 0)
    BY DEF NumbersAccounted
  <2>3. /\ streams_sequences[t] = base[t] + tx_packets[t] + fwd_dropped[t]
                                  + (IF fs = t THEN Len(pkts_burst) ELSE 0)
        /\ base[t] \in Nat /\ tx_packets[t] \in Nat /\ fwd_dropped[t] \in Nat
    BY DEF NumbersAccounted, SType
  <2>4. CASE fs = t
    <3>1. tx_packets'[t] = tx_packets[t] + k
      BY <1>2, <2>4 DEF TransmitPart, SType
    <3> QED
      BY <1>2, <2>1, <2>2, <2>3, <2>4, <3>1 DEF TransmitPart
  <2>5. CASE fs # t
    <3>1. tx_packets'[t] = tx_packets[t]
      BY <1>2, <2>5 DEF TransmitPart, SType
    <3> QED
      BY <1>2, <2>3, <2>5, <3>1 DEF TransmitPart
  <2> QED
    BY <2>4, <2>5
<1>3. ASSUME NEW k \in 0 .. NbPktPerBurst, TransmitLast(k)
      PROVE  NumbersAccounted'
  <2>1. k \in Nat /\ Len(pkts_burst) - k \in Nat /\ Len(pkts_burst) \in Nat
    BY <1>3 DEF TransmitLast, SType
  <2> SUFFICES ASSUME NEW t \in Streams
               PROVE  streams_sequences'[t] = base'[t] + tx_packets'[t] + fwd_dropped'[t]
                                              + (IF fs' = t THEN Len(pkts_burst') ELSE 0)
    BY DEF NumbersAccounted
  <2>3. /\ streams_sequences[t] = base[t] + tx_packets[t] + fwd_dropped[t]
                                  + (IF fs = t THEN Len(pkts_burst) ELSE 0)
        /\ base[t] \in Nat /\ tx_packets[t] \in Nat /\ fwd_dropped[t] \in Nat
    BY DEF NumbersAccounted, SType
  <2>4. CASE fs = t
    <3>1. tx_packets'[t] = tx_packets[t] + k /\ fwd_dropped'[t] = fwd_dropped[t] + (Len(pkts_burst) - k)
      BY <1>3, <2>4 DEF TransmitLast, SType, GivenUp
    <3> QED
      BY <1>3, <2>1, <2>3, <2>4, <3>1 DEF TransmitLast
  <2>5. CASE fs # t
    <3>1. tx_packets'[t] = tx_packets[t] /\ fwd_dropped'[t] = fwd_dropped[t]
      BY <1>3, <2>5 DEF TransmitLast, SType
    <3> QED
      BY <1>3, <2>3, <2>5, <3>1 DEF TransmitLast
  <2> QED
    BY <2>4, <2>5
<1>4. CASE SBegin
  BY <1>4 DEF SBegin, NumbersAccounted, SType
<1>5. CASE UNCHANGED svars
  BY <1>5 DEF svars, NumbersAccounted
<1> QED
  BY <1>1, <1>2, <1>3, <1>4, <1>5, Steps DEF Send, Receive, CoreStep, Begin, HttpStep

\* A number pkt_burst_prepare() takes is in the end sent or given up, whatever the port takes
\* of which attempt: the statistics of the sender account for every number of a run.
THEOREM NumbersAreAccountedFor == Spec => []NumbersAccounted
<1>1. Init => SType /\ NumbersAccounted
  <2> SUFFICES ASSUME Init PROVE SType /\ NumbersAccounted
    OBVIOUS
  <2>1. SType
    BY DEF Init, SInit, SType
  <2> QED
    BY <2>1, StreamsAssumption DEF Init, SInit, NumbersAccounted
<1>2. SType /\ NumbersAccounted /\ [Next]_vars => (SType /\ NumbersAccounted)'
  BY STypeStays, NumbersStay
<1> QED
  BY <1>1, <1>2, PTL DEF Spec

\* The remainder, as the C operator % gives it here.
LEMMA Remainder ==
    ASSUME NEW a \in Nat, NEW b \in Nat \ {0}
    PROVE  /\ a \div b \in Nat
           /\ a % b \in 0 .. b - 1
           /\ a = b * (a \div b) + (a % b)
<1>1. b * (a \div b) <= a
  BY SMTT(30)
<1>2. a < b * (a \div b) + b
  BY SMTT(30)
<1>3. a % b = a - b * (a \div b)
  BY SMTT(30)
<1>4. a \div b \in Int
  OBVIOUS
<1>5. a \div b >= 0
  BY <1>2, <1>4, SMTT(30)
<1> QED
  BY <1>1, <1>2, <1>3, <1>4, <1>5

LEMMA SlotIsProbed ==
    ASSUME AType, NEW c \in Cores, cpc[c] # "idle"
    PROVE  Probed(c) \in Slots
<1>1. pkt[c].sm \in Streams /\ di[c] \in Nat
  BY SlotsAssumption DEF AType, Packets
<1>2. HashOf(pkt[c].sm) + di[c] \in Nat
  BY <1>1, HashAssumption
<1> QED
  BY <1>2, Remainder, SlotsAssumption DEF Probed, Slots

\* The packets a port takes are packets of the burst.
LEMMA TakenIsSent ==
    ASSUME SType, NEW k \in 0 .. NbPktPerBurst, TransmitPart(k) \/ TransmitLast(k)
    PROVE  /\ Taken(k) = {pkts_burst[i] : i \in 1 .. k}
           /\ k \in 0 .. Len(pkts_burst)
           /\ Taken(k) \subseteq Packets
<1>1. Len(pkts_burst) \in Nat
  BY DEF SType
<1>2. k \in 0 .. Len(pkts_burst)
  BY <1>1, BurstAssumption DEF TransmitPart, TransmitLast
<1>3. \A i \in 1 .. k : pkts_burst[i] \in Packets
  BY <1>2 DEF SType
<1> QED
  BY <1>2, <1>3 DEF Taken

LEMMA ATypeStays ==
    ASSUME SType, AType, [Next]_vars
    PROVE  AType'
<1>0. IsFiniteSet(Streams) /\ NoStream \notin Streams /\ NoCore \notin Cores
  BY StreamsAssumption, NoCoreAssumption
<1>1. CASE Send
  <2>1. wire' \subseteq Packets
    <3>1. CASE \E k \in 0 .. NbPktPerBurst : (TransmitPart(k) \/ TransmitLast(k)) /\ wire' = wire \cup Taken(k)
      BY <3>1, TakenIsSent DEF AType
    <3> QED
      BY <1>1, <3>1 DEF Send, AType
  <2> QED
    BY <1>1, <2>1 DEF Send, avars, AType
<1>2. ASSUME NEW c \in Cores, Receive(c)
      PROVE  AType'
  <2> SUFFICES ASSUME NEW p \in wire, Take(c, p), wire' = wire \ {p}
               PROVE  AType'
    BY <1>2 DEF Receive
  <2>1. p \in Packets
    BY DEF AType
  <2>2. /\ pkt' \in [Cores -> Packets \cup {NoPacket}]
        /\ di' \in [Cores -> 0 .. NbSlots]
        /\ cpc' \in [Cores -> {"idle", "unlock"} \cup Handling]
    BY <2>1, SlotsAssumption DEF Take, AType, Handling
  <2>3. \A d \in Cores : cpc'[d] # "idle" => pkt'[d] \in Packets
    BY <2>1 DEF Take, AType
  <2> QED
    BY <2>2, <2>3 DEF Take, AType
<1>3. ASSUME NEW c \in Cores, CoreStep(c)
      PROVE  AType'
  <2>0. wire' = wire
    BY <1>3 DEF CoreStep
  <2>1. CASE ProbeFree(c)
    <3>1. Probed(c) \in Slots
      BY <2>1, SlotIsProbed DEF ProbeFree
    <3> QED
      BY <2>0, <2>1, <3>1 DEF ProbeFree, AType, Handling
  <2>2. CASE ProbeSame(c)
    <3>1. Probed(c) \in Slots
      BY <2>2, SlotIsProbed DEF ProbeSame
    <3> QED
      BY <2>0, <2>2, <3>1 DEF ProbeSame, AType, Handling
  <2>3. CASE ProbeOther(c)
    <3>1. di' \in [Cores -> 0 .. NbSlots]
      BY <2>3, SlotsAssumption DEF ProbeOther, AType
    <3> QED
      BY <2>0, <2>3, <3>1 DEF ProbeOther, AType
  <2>4. CASE ProbeFull(c)
    <3>1. /\ di' \in [Cores -> 0 .. NbSlots]
          /\ pkt' \in [Cores -> Packets \cup {NoPacket}]
          /\ cpc' \in [Cores -> {"idle", "unlock"} \cup Handling]
      BY <2>4, SlotsAssumption DEF ProbeFull, AType
    <3>2. \A d \in Cores : cpc'[d] # "idle" => pkt'[d] \in Packets
      BY <2>4 DEF ProbeFull, AType
    <3> QED
      BY <2>0, <2>4, <3>1, <3>2 DEF ProbeFull, AType
  <2>5. CASE SetHash(c)
    <3>1. HashOf(pkt[c].sm) \in Nat
      BY <2>5, HashAssumption DEF SetHash, AType, Packets
    <3> QED
      BY <2>0, <2>5, <3>1 DEF SetHash, AType, Handling
  <2>6. CASE SetKey(c)
    BY <2>0, <2>6 DEF SetKey, AType, Handling, Packets
  <2>7. CASE Lock(c)
    BY <2>0, <2>7 DEF Lock, AType, Handling
  <2>8. CASE Load(c)
    BY <2>0, <2>8 DEF Load, AType, Handling
  <2>9. CASE StoreMax(c)
    <3>1. NewMax(c) \in Nat
      BY <2>9 DEF StoreMax, AType, NewMax, Packets
    <3> QED
      BY <2>0, <2>9, <3>1 DEF StoreMax, AType, Handling
  <2>10. CASE StoreRx(c)
    <3>1. rx_pkts' \in [Slots -> Nat] /\ processed' \in [Streams -> Nat]
      BY <2>10 DEF StoreRx, AType, Packets
    <3> QED
      BY <2>0, <2>10, <3>1 DEF StoreRx, AType
  <2>11. CASE Unlock(c)
    <3>1. /\ di' \in [Cores -> 0 .. NbSlots]
          /\ pkt' \in [Cores -> Packets \cup {NoPacket}]
          /\ cpc' \in [Cores -> {"idle", "unlock"} \cup Handling]
          /\ loaded' \in [Cores -> [max : Nat, rx : Nat]]
          /\ spinlock' \in [Slots -> Cores \cup {NoCore}]
      BY <2>11, SlotsAssumption DEF Unlock, AType
    <3>2. \A d \in Cores : cpc'[d] # "idle" => pkt'[d] \in Packets
      BY <2>11 DEF Unlock, AType
    <3> QED
      BY <2>0, <2>11, <3>1, <3>2 DEF Unlock, AType
  <2> QED
    BY <1>3, <2>1, <2>2, <2>3, <2>4, <2>5, <2>6, <2>7, <2>8, <2>9, <2>10, <2>11
       DEF CoreStep, Insert, Count
<1>4. CASE Begin
  BY <1>4 DEF Begin, ABegin, AType
<1>5. CASE HttpStep
  BY <1>5 DEF HttpStep, avars, AType
<1>6. CASE UNCHANGED <<svars, avars, hvars, wire, begins>>
  BY <1>6 DEF avars, AType
<1> QED
  BY <1>1, <1>2, <1>3, <1>4, <1>5, <1>6, Steps

-----------------------------------------------------------------------------
(* Each packet is in one place. *)

LEMMA SendMovesOn ==
    ASSUME SType, AType, OnePlace, Send
    PROVE  /\ \A t \in Streams : /\ FirstUnsent(t) \in Int /\ FirstUnsent(t)' \in Int
                                 /\ FirstUnsent(t) <= FirstUnsent(t)'
           /\ \A p \in wire' : \/ p \in wire
                               \/ /\ p \in Packets /\ FirstUnsent(p.sm) <= p.sq
                                  /\ p.sq < FirstUnsent(p.sm)'
           /\ \A i \in DOMAIN pkts_burst' : pkts_burst'[i] = [sm |-> fs', sq |-> FirstUnsent(fs)' + i - 1]
<1> DEFINE Goal == /\ \A t \in Streams : /\ FirstUnsent(t) \in Int /\ FirstUnsent(t)' \in Int
                                         /\ FirstUnsent(t) <= FirstUnsent(t)'
                   /\ \A p \in wire' : \/ p \in wire
                                       \/ /\ p \in Packets /\ FirstUnsent(p.sm) <= p.sq
                                          /\ p.sq < FirstUnsent(p.sm)'
                   /\ \A i \in DOMAIN pkts_burst' :
                         pkts_burst'[i] = [sm |-> fs', sq |-> FirstUnsent(fs)' + i - 1]
<1>0. Len(pkts_burst) \in Nat /\ \A t \in Streams : FirstUnsent(t) \in Int
  BY DEF SType, FirstUnsent
<1>1. ASSUME NEW s \in Streams, NEW n \in 1 .. NbPktPerBurst, Prepare(s, n), UNCHANGED wire
      PROVE  Goal
  <2>1. n \in Nat /\ Len(pkts_burst') = n /\ fs' = s /\ s # NoStream
    BY <1>1, BurstAssumption, StreamsAssumption DEF Prepare
  <2>2. \A t \in Streams : FirstUnsent(t)' = FirstUnsent(t)
    <3> SUFFICES ASSUME NEW t \in Streams PROVE FirstUnsent(t)' = FirstUnsent(t)
      OBVIOUS
    <3>1. fs = NoStream /\ fs # t
      BY <1>1, StreamsAssumption DEF Prepare
    <3>2. CASE t = s
      <4>1. streams_sequences'[t] = streams_sequences[t] + n /\ streams_sequences[t] \in Nat
        BY <1>1, <3>2 DEF Prepare, SType
      <4> QED
        BY <2>1, <3>1, <3>2, <4>1 DEF FirstUnsent
    <3>3. CASE t # s
      <4>1. streams_sequences'[t] = streams_sequences[t]
        BY <1>1, <3>3 DEF Prepare, SType
      <4> QED
        BY <2>1, <3>1, <3>3, <4>1 DEF FirstUnsent
    <3> QED
      BY <3>2, <3>3
  <2>3. FirstUnsent(fs)' = streams_sequences[s]
    <3>1. FirstUnsent(s)' = FirstUnsent(s)
      BY <2>2
    <3>2. FirstUnsent(s) = streams_sequences[s] - 0 /\ streams_sequences[s] \in Nat
      BY <1>1, <2>1 DEF Prepare, FirstUnsent, SType
    <3>3. FirstUnsent(fs)' = FirstUnsent(s)'
      BY <2>1 DEF FirstUnsent
    <3> QED
      BY <3>1, <3>2, <3>3
  <2>4. \A i \in DOMAIN pkts_burst' : pkts_burst'[i] = [sm |-> fs', sq |-> FirstUnsent(fs)' + i - 1]
    BY <1>1, <2>1, <2>3 DEF Prepare
  <2> QED
    BY <1>0, <1>1, <2>2, <2>4
<1>2. ASSUME NEW k \in 0 .. NbPktPerBurst, TransmitPart(k) \/ TransmitLast(k), wire' = wire \cup Taken(k)
      PROVE  Goal
  <2>1. /\ Taken(k) = {pkts_burst[i] : i \in 1 .. k}
        /\ k \in 0 .. Len(pkts_burst)
        /\ Taken(k) \subseteq Packets
    BY <1>2, TakenIsSent
  <2>2. /\ fs \in Streams
        /\ streams_sequences' = streams_sequences
        /\ FirstUnsent(fs) = streams_sequences[fs] - Len(pkts_burst)
        /\ streams_sequences[fs] \in Nat
    BY <1>2 DEF TransmitPart, TransmitLast, SType, FirstUnsent
  <2>3. /\ \A t \in Streams : t # fs => FirstUnsent(t)' = FirstUnsent(t)
        /\ \A t \in Streams : t = fs => FirstUnsent(t)' \in Int /\ FirstUnsent(t)' >= FirstUnsent(t) + k
        /\ \A i \in DOMAIN pkts_burst' : pkts_burst'[i] = [sm |-> fs', sq |-> FirstUnsent(fs)' + i - 1]
    <3>1. CASE TransmitPart(k)
      <4>1. /\ fs' = fs /\ pkts_burst' = SubSeq(pkts_burst, k + 1, Len(pkts_burst))
            /\ Len(pkts_burst') = Len(pkts_burst) - k
        BY <3>1, <2>1 DEF TransmitPart, SType
      <4>2. FirstUnsent(fs)' = FirstUnsent(fs) + k
        BY <1>0, <2>1, <2>2, <4>1 DEF FirstUnsent
      <4>3. \A t \in Streams : t = fs => FirstUnsent(t)' = FirstUnsent(fs)'
        BY <4>1 DEF FirstUnsent
      <4>4. \A t \in Streams : t # fs => FirstUnsent(t)' = FirstUnsent(t)
        BY <2>2, <4>1 DEF FirstUnsent
      <4>5. ASSUME NEW i \in DOMAIN pkts_burst'
            PROVE  pkts_burst'[i] = [sm |-> fs', sq |-> FirstUnsent(fs)' + i - 1]
        <5>1. i \in 1 .. (Len(pkts_burst) - k) /\ pkts_burst'[i] = pkts_burst[k + i]
          BY <4>1, <2>1 DEF SType
        <5>2. k + i \in DOMAIN pkts_burst
          BY <5>1, <2>1, <1>0 DEF SType
        <5>3. pkts_burst[k + i] = [sm |-> fs, sq |-> FirstUnsent(fs) + (k + i) - 1]
          BY <5>2 DEF OnePlace
        <5>4. FirstUnsent(fs)' + i - 1 = FirstUnsent(fs) + (k + i) - 1
          BY <4>2, <5>1, <1>0, <2>1, <2>2
        <5> QED
          BY <4>1, <5>1, <5>3, <5>4
      <4> QED
        BY <1>0, <2>1, <2>2, <4>2, <4>3, <4>4, <4>5
    <3>2. CASE TransmitLast(k)
      <4>1. fs' = NoStream /\ pkts_burst' = <<>>
        BY <3>2 DEF TransmitLast
      <4>2. \A t \in Streams : FirstUnsent(t)' = streams_sequences[t]
        <5> SUFFICES ASSUME NEW t \in Streams PROVE FirstUnsent(t)' = streams_sequences[t]
          OBVIOUS
        <5>1. streams_sequences[t] \in Nat /\ NoStream # t
          BY StreamsAssumption DEF SType
        <5> QED
          BY <4>1, <2>2, <5>1 DEF FirstUnsent
      <4>3. \A t \in Streams : t # fs => FirstUnsent(t) = streams_sequences[t]
        BY DEF FirstUnsent, SType
      <4>4. \A i \in DOMAIN pkts_burst' : FALSE
        BY <4>1
      <4> QED
        BY <1>0, <2>1, <2>2, <4>2, <4>3, <4>4
    <3> QED
      BY <1>2, <3>1, <3>2
  <2>4. ASSUME NEW i \in 1 .. k
        PROVE  /\ pkts_burst[i].sm = fs /\ FirstUnsent(fs) <= pkts_burst[i].sq
               /\ pkts_burst[i].sq < FirstUnsent(fs) + k
    <3>1. i \in DOMAIN pkts_burst
      BY <2>1, <1>0 DEF SType
    <3>2. pkts_burst[i] = [sm |-> fs, sq |-> FirstUnsent(fs) + i - 1]
      BY <3>1 DEF OnePlace
    <3> QED
      BY <3>2, <1>0, <2>1, <2>2
  <2>5. ASSUME NEW p \in Taken(k)
        PROVE  p \in Packets /\ FirstUnsent(p.sm) <= p.sq /\ p.sq < FirstUnsent(p.sm)'
    <3>1. PICK i \in 1 .. k : p = pkts_burst[i]
      BY <2>1
    <3>2. /\ p.sm = fs /\ FirstUnsent(fs) <= p.sq /\ p.sq < FirstUnsent(fs) + k
          /\ p \in Packets /\ p.sq \in Nat
      BY <2>1, <2>4, <3>1 DEF Packets
    <3>3. FirstUnsent(p.sm)' \in Int /\ FirstUnsent(p.sm)' >= FirstUnsent(fs) + k
      <4> DEFINE t == p.sm
      <4>1. t \in Streams /\ t = fs
        BY <3>2, <2>2
      <4>2. \A u \in Streams : u = fs => FirstUnsent(u)' \in Int /\ FirstUnsent(u)' >= FirstUnsent(u) + k
        BY <2>3
      <4> QED
        BY <4>1, <4>2
    <3>4. FirstUnsent(p.sm) = FirstUnsent(fs) /\ FirstUnsent(fs) \in Int
      BY <3>2, <2>2, <1>0
    <3> QED
      BY <3>2, <3>3, <3>4, <2>1
  <2>6. \A t \in Streams : FirstUnsent(t)' \in Int /\ FirstUnsent(t) <= FirstUnsent(t)'
    BY <1>0, <2>1, <2>3
  <2> QED
    BY <1>0, <1>2, <2>3, <2>5, <2>6
<1>3. CASE SBegin /\ UNCHANGED wire
  BY <1>0, <1>3 DEF SBegin, OnePlace, FirstUnsent
<1> QED
  BY <1>1, <1>2, <1>3 DEF Send

LEMMA OnePlaceStays ==
    ASSUME SType, AType, OnePlace, [Next]_vars
    PROVE  OnePlace'
<1>0. /\ \A t \in Streams : FirstUnsent(t) \in Int
      /\ \A p \in Packets : p.sm \in Streams /\ p.sq \in Nat
      /\ \A c \in Cores : InHand(c) => pkt[c] \in Packets
  <2>1. \A t \in Streams : FirstUnsent(t) \in Int
    BY DEF SType, FirstUnsent
  <2>2. \A p \in Packets : p.sm \in Streams /\ p.sq \in Nat
    BY DEF Packets
  <2>3. \A c \in Cores : InHand(c) => pkt[c] \in Packets
    BY DEF InHand, Handling, AType
  <2> QED
    BY <2>1, <2>2, <2>3
<1>1. CASE Send
  <2>1. /\ \A t \in Streams : /\ FirstUnsent(t) \in Int /\ FirstUnsent(t)' \in Int
                              /\ FirstUnsent(t) <= FirstUnsent(t)'
        /\ \A p \in wire' : \/ p \in wire
                            \/ /\ p \in Packets /\ FirstUnsent(p.sm) <= p.sq
                               /\ p.sq < FirstUnsent(p.sm)'
        /\ \A i \in DOMAIN pkts_burst' : pkts_burst'[i] = [sm |-> fs', sq |-> FirstUnsent(fs)' + i - 1]
    BY <1>1, SendMovesOn
  <2>2. /\ pkt' = pkt /\ \A c \in Cores : InHand(c)' = InHand(c)
    BY <1>1 DEF Send, avars, InHand
  <2>3. ASSUME NEW p \in wire' PROVE p.sq < FirstUnsent(p.sm)'
    <3>1. CASE p \in wire
      <4>1. p.sq < FirstUnsent(p.sm) /\ p.sm \in Streams /\ p.sq \in Nat
        BY <3>1, <1>0 DEF OnePlace, AType
      <4>2. FirstUnsent(p.sm)' \in Int /\ FirstUnsent(p.sm) <= FirstUnsent(p.sm)' /\ FirstUnsent(p.sm) \in Int
        BY <4>1, <2>1
      <4> QED
        BY <4>1, <4>2
    <3> QED
      BY <3>1, <2>1
  <2>4. ASSUME NEW c \in Cores, InHand(c)
        PROVE  pkt[c].sq < FirstUnsent(pkt[c].sm)' /\ pkt[c] \notin wire'
    <3>1. PICK p : p = pkt[c]
      OBVIOUS
    <3>2. p \in Packets /\ p.sm \in Streams /\ p.sq \in Nat /\ p.sq < FirstUnsent(p.sm) /\ p \notin wire
      BY <1>0, <2>4, <3>1 DEF OnePlace
    <3>3. FirstUnsent(p.sm)' \in Int /\ FirstUnsent(p.sm) <= FirstUnsent(p.sm)' /\ FirstUnsent(p.sm) \in Int
      BY <3>2, <2>1
    <3>4. p.sq < FirstUnsent(p.sm)'
      BY <3>2, <3>3
    <3>5. p \notin wire'
      BY <3>2, <3>3, <2>1
    <3>6. FirstUnsent(p.sm)' = FirstUnsent(pkt[c].sm)'
      BY <3>1, <2>2 DEF FirstUnsent
    <3> QED
      BY <3>1, <3>4, <3>5, <3>6
  <2> QED
    BY <2>1, <2>2, <2>3, <2>4 DEF OnePlace
<1>2. ASSUME NEW c \in Cores, Receive(c)
      PROVE  OnePlace'
  <2>0. PICK p \in wire : c \in CoresOf(p.sm) /\ Take(c, p) /\ wire' = wire \ {p}
    BY <1>2 DEF Receive
  <2>1. /\ pkts_burst' = pkts_burst /\ fs' = fs
        /\ \A t : FirstUnsent(t)' = FirstUnsent(t)
        /\ FirstUnsent(fs)' = FirstUnsent(fs)
    BY <1>2 DEF Receive, svars, FirstUnsent
  <2>2. /\ \A d \in Cores \ {c} : cpc'[d] = cpc[d] /\ pkt'[d] = pkt[d] /\ (InHand(d)' = InHand(d))
        /\ pkt'[c] = p /\ p.sq < FirstUnsent(p.sm)
    BY <2>0 DEF Take, AType, InHand, OnePlace
  <2>3. ASSUME NEW d \in Cores, InHand(d)'
        PROVE  pkt'[d].sq < FirstUnsent(pkt[d].sm)' /\ pkt'[d] \notin wire'
    <3>1. CASE d = c
      <4>1. pkt'[d] = p
        BY <3>1, <2>2
      <4>2. FirstUnsent(pkt[d].sm)' = FirstUnsent(p.sm)
        BY <4>1, <2>1, <1>2 DEF FirstUnsent, Receive, svars
      <4> QED
        BY <4>1, <4>2, <2>0, <2>2
    <3>2. CASE d # c
      <4>1. pkt'[d] = pkt[d] /\ InHand(d)
        BY <3>2, <2>2, <2>3
      <4>2. FirstUnsent(pkt[d].sm)' = FirstUnsent(pkt[d].sm)
        BY <4>1, <1>2 DEF FirstUnsent, Receive, svars
      <4> QED
        BY <4>1, <4>2, <2>0 DEF OnePlace
    <3> QED
      BY <3>1, <3>2
  <2>4. ASSUME NEW d \in Cores, NEW e \in Cores, InHand(d)', InHand(e)', d # e
        PROVE  pkt'[d] # pkt'[e]
    BY <2>0, <2>2, <2>4 DEF OnePlace
  <2> QED
    BY <2>0, <2>1, <2>3, <2>4 DEF OnePlace
<1>3. ASSUME NEW c \in Cores, CoreStep(c)
      PROVE  OnePlace'
  <2>1. /\ pkts_burst' = pkts_burst /\ fs' = fs /\ wire' = wire /\ streams_sequences' = streams_sequences
    BY <1>3 DEF CoreStep, svars
  <2>2. ASSUME NEW d \in Cores, InHand(d)'
        PROVE  pkt'[d] = pkt[d] /\ InHand(d)
    BY <1>3, <2>2 DEF CoreStep, Insert, Count, ProbeFree, ProbeSame, ProbeOther, ProbeFull, SetHash, SetKey,
                      Lock, Load, StoreMax, StoreRx, Unlock, InHand, AType, Handling
  <2>3. ASSUME NEW d \in Cores, InHand(d)'
        PROVE  FirstUnsent(pkt[d].sm)' = FirstUnsent(pkt[d].sm)
    BY <2>1, <2>2, <2>3 DEF FirstUnsent
  <2>4. \A t : FirstUnsent(t)' = FirstUnsent(t)
    BY <2>1 DEF FirstUnsent
  <2>5. FirstUnsent(fs)' = FirstUnsent(fs)
    BY <2>1 DEF FirstUnsent
  <2> QED
    BY <2>1, <2>2, <2>3, <2>4, <2>5 DEF OnePlace
<1>4. CASE UNCHANGED <<svars, cpc, pkt, wire>>
  <2>1. /\ pkts_burst' = pkts_burst /\ fs' = fs /\ wire' = wire /\ pkt' = pkt
        /\ \A t : FirstUnsent(t)' = FirstUnsent(t)
        /\ FirstUnsent(fs)' = FirstUnsent(fs)
        /\ \A c \in Cores : InHand(c)' = InHand(c) /\ FirstUnsent(pkt[c].sm)' = FirstUnsent(pkt[c].sm)
    BY <1>4 DEF svars, InHand, FirstUnsent
  <2> QED
    BY <2>1 DEF OnePlace
<1> QED
  BY <1>1, <1>2, <1>3, <1>4, Steps DEF Begin, ABegin, HttpStep, avars

-----------------------------------------------------------------------------
(* A slot is claimed once, and one core at a time counts in it. *)

\* What a step of a core leaves alone of the cores and slots that are not its own.
LEMMA OthersStay ==
    ASSUME AType, NEW c \in Cores, CoreStep(c)
    PROVE  /\ \A d \in Cores \ {c} : /\ cpc'[d] = cpc[d] /\ pkt'[d] = pkt[d] /\ pos'[d] = pos[d]
                                     /\ di'[d] = di[d] /\ loaded'[d] = loaded[d]
           /\ before' = before
BY DEF CoreStep, Insert, Count, ProbeFree, ProbeSame, ProbeOther, ProbeFull, SetHash, SetKey,
       Lock, Load, StoreMax, StoreRx, Unlock, AType

LEMMA ClaimStays ==
    ASSUME AType, ClaimInv, [Next]_vars
    PROVE  ClaimInv'
<1>0. /\ \A s \in Streams : HashOf(s) \in Nat \ {0}
      /\ \A c \in Cores : cpc[c] # "idle" => pkt[c].sm \in Streams
  BY HashAssumption DEF AType, Packets
<1>1. CASE UNCHANGED <<status, hash_value, rx_pkts, cpc, pos, pkt>>
  BY <1>1 DEF ClaimInv
<1>2. ASSUME NEW c \in Cores, Receive(c)
      PROVE  ClaimInv'
  BY <1>2 DEF Receive, Take, ClaimInv, AType, Claiming
<1>3. ASSUME NEW c \in Cores, CoreStep(c)
      PROVE  ClaimInv'
  <2>0. \A d \in Cores \ {c} : cpc'[d] = cpc[d] /\ pkt'[d] = pkt[d] /\ pos'[d] = pos[d]
    BY <1>3, OthersStay
  <2>1. CASE ProbeFree(c)
    <3>1. Probed(c) \in Slots
      BY <2>1, SlotIsProbed DEF ProbeFree
    <3>2. /\ pos'[c] = Probed(c) /\ cpc'[c] = "sethash"
          /\ status' = [status EXCEPT ![Probed(c)] = TRUE] /\ ~status[Probed(c)]
          /\ hash_value' = hash_value /\ rx_pkts' = rx_pkts
      BY <2>1 DEF ProbeFree, AType
    <3>3. \A k \in Slots : status[k] => status'[k]
      BY <3>1, <3>2 DEF AType
    <3>4. status'[Probed(c)] /\ hash_value[Probed(c)] = 0
      BY <3>1, <3>2 DEF AType, ClaimInv
    <3>5. \A d \in Cores \ {c} : cpc[d] \notin {"idle", "probe"} => pos[d] # Probed(c) /\ pos[d] \in Slots
      BY <3>2 DEF ClaimInv, AType
    <3>6. \A k \in Slots : /\ ~status'[k] => hash_value'[k] = 0
                           /\ hash_value'[k] = 0 => rx_pkts'[k] = 0
                           /\ hash_value'[k] # 0 => \E s \in Streams : hash_value'[k] = HashOf(s)
      BY <3>2, <3>3 DEF ClaimInv
    <3>7. \A d \in Cores : cpc'[d] \notin {"idle", "probe"} => status'[pos'[d]]
      BY <2>0, <3>2, <3>3, <3>4, <3>5 DEF ClaimInv
    <3>8. \A d \in Cores : cpc'[d] = "sethash" => hash_value'[pos'[d]] = 0
      BY <2>0, <3>2, <3>4 DEF ClaimInv
    <3>9. \A d, e \in Cores : cpc'[d] = "sethash" /\ cpc'[e] = "sethash" /\ d # e => pos'[d] # pos'[e]
      BY <2>0, <3>2, <3>5 DEF ClaimInv
    <3>10. \A d \in Cores : cpc'[d] \notin Claiming => hash_value'[pos'[d]] = HashOf(pkt'[d].sm)
      BY <2>0, <3>2 DEF ClaimInv, Claiming
    <3> QED
      BY <3>6, <3>7, <3>8, <3>9, <3>10 DEF ClaimInv
  <2>2. CASE ProbeSame(c)
    <3>1. Probed(c) \in Slots
      BY <2>2, SlotIsProbed DEF ProbeSame
    <3>2. /\ pos'[c] = Probed(c) /\ cpc'[c] = "lock" /\ pkt' = pkt /\ status[Probed(c)]
          /\ hash_value[Probed(c)] = HashOf(pkt[c].sm)
          /\ UNCHANGED <<status, hash_value, rx_pkts>>
      BY <2>2 DEF ProbeSame, AType, SameStream
    <3> QED
      BY <2>0, <3>1, <3>2 DEF ClaimInv, Claiming
  <2>3. CASE ProbeOther(c)
    BY <2>3 DEF ProbeOther, ClaimInv
  <2>4. CASE ProbeFull(c)
    <3>1. cpc'[c] = "idle" /\ UNCHANGED <<status, hash_value, rx_pkts>>
      BY <2>4 DEF ProbeFull, AType
    <3> QED
      BY <2>0, <3>1 DEF ClaimInv, Claiming
  <2>5. CASE SetHash(c)
    <3>1. /\ cpc[c] = "sethash" /\ cpc'[c] = "setkey" /\ pos' = pos /\ pkt' = pkt /\ pos[c] \in Slots
          /\ status' = status /\ rx_pkts' = rx_pkts
          /\ hash_value'[pos[c]] = HashOf(pkt[c].sm)
          /\ \A k \in Slots \ {pos[c]} : hash_value'[k] = hash_value[k]
          /\ hash_value[pos[c]] = 0 /\ pkt[c].sm \in Streams
      BY <2>5, <1>0 DEF SetHash, AType, ClaimInv
    <3>2. HashOf(pkt[c].sm) # 0 /\ status[pos[c]]
      BY <3>1, <1>0 DEF ClaimInv
    <3>3. \A d \in Cores \ {c} : cpc[d] = "sethash" \/ cpc[d] \notin Claiming => pos[d] # pos[c] /\ pos[d] \in Slots
      <4> SUFFICES ASSUME NEW d \in Cores \ {c}, cpc[d] = "sethash" \/ cpc[d] \notin Claiming
                   PROVE  pos[d] # pos[c]
        BY DEF AType
      <4>1. CASE cpc[d] = "sethash"
        BY <3>1, <4>1 DEF ClaimInv
      <4>2. CASE cpc[d] \notin Claiming
        <5>1. hash_value[pos[d]] = HashOf(pkt[d].sm) /\ HashOf(pkt[d].sm) # 0
          BY <4>2, <1>0 DEF ClaimInv, Claiming
        <5> QED
          BY <5>1, <3>1
      <4> QED
        BY <4>1, <4>2
    <3>4. \A k \in Slots : /\ ~status'[k] => hash_value'[k] = 0
                           /\ hash_value'[k] = 0 => rx_pkts'[k] = 0
                           /\ hash_value'[k] # 0 => \E s \in Streams : hash_value'[k] = HashOf(s)
      <4> SUFFICES ASSUME NEW k \in Slots
                   PROVE  /\ ~status'[k] => hash_value'[k] = 0
                          /\ hash_value'[k] = 0 => rx_pkts'[k] = 0
                          /\ hash_value'[k] # 0 => \E s \in Streams : hash_value'[k] = HashOf(s)
        OBVIOUS
      <4>1. CASE k = pos[c]
        BY <3>1, <3>2, <4>1
      <4>2. CASE k # pos[c]
        BY <3>1, <4>2 DEF ClaimInv
      <4> QED
        BY <4>1, <4>2
    <3>5. \A d \in Cores : cpc'[d] \notin {"idle", "probe"} => status'[pos'[d]]
      BY <2>0, <3>1, <3>2 DEF ClaimInv
    <3>6. \A d \in Cores : cpc'[d] = "sethash" => hash_value'[pos'[d]] = 0
      BY <2>0, <3>1, <3>3 DEF ClaimInv
    <3>7. \A d, e \in Cores : cpc'[d] = "sethash" /\ cpc'[e] = "sethash" /\ d # e => pos'[d] # pos'[e]
      BY <2>0, <3>1 DEF ClaimInv
    <3>8. \A d \in Cores : cpc'[d] \notin Claiming => hash_value'[pos'[d]] = HashOf(pkt'[d].sm)
      BY <2>0, <3>1, <3>3 DEF ClaimInv
    <3> QED
      BY <3>4, <3>5, <3>6, <3>7, <3>8 DEF ClaimInv
  <2>6. CASE SetKey(c)
    <3>1. cpc[c] = "setkey" /\ cpc'[c] = "lock" /\ UNCHANGED <<status, hash_value, rx_pkts, pos, pkt>>
      BY <2>6 DEF SetKey, AType
    <3> QED
      BY <2>0, <3>1 DEF ClaimInv, Claiming
  <2>7. CASE Lock(c) \/ Load(c) \/ StoreMax(c)
    <3>1. /\ cpc[c] \notin Claiming /\ cpc'[c] \notin Claiming
          /\ UNCHANGED <<status, hash_value, rx_pkts, pos, pkt>>
      BY <2>7 DEF Lock, Load, StoreMax, AType, Claiming
    <3> QED
      BY <2>0, <3>1 DEF ClaimInv, Claiming
  <2>8. CASE StoreRx(c)
    <3>1. /\ cpc[c] = "rx" /\ cpc'[c] = "unlock" /\ UNCHANGED <<status, hash_value, pos, pkt>>
          /\ \A k \in Slots \ {pos[c]} : rx_pkts'[k] = rx_pkts[k]
      BY <2>8 DEF StoreRx, AType
    <3>2. hash_value[pos[c]] # 0 /\ pos[c] \in Slots
      <4>1. hash_value[pos[c]] = HashOf(pkt[c].sm)
        BY <3>1 DEF ClaimInv, Claiming
      <4> QED
        BY <3>1, <4>1, <1>0 DEF AType
    <3> QED
      BY <2>0, <3>1, <3>2 DEF ClaimInv, Claiming
  <2>9. CASE Unlock(c)
    <3>1. cpc'[c] = "idle" /\ UNCHANGED <<status, hash_value, rx_pkts, pos>>
      BY <2>9 DEF Unlock, AType
    <3> QED
      BY <2>0, <3>1 DEF ClaimInv, Claiming
  <2> QED
    BY <1>3, <2>1, <2>2, <2>3, <2>4, <2>5, <2>6, <2>7, <2>8, <2>9 DEF CoreStep, Insert, Count
<1>4. CASE Begin
  BY <1>4 DEF Begin, ABegin, ClaimInv, Claiming
<1> QED
  BY <1>1, <1>2, <1>3, <1>4, Steps DEF Send, HttpStep, avars

LEMMA LockStays ==
    ASSUME AType, LockInv, [Next]_vars
    PROVE  LockInv'
<1>0. \A c \in Cores : c # NoCore
  BY NoCoreAssumption
<1>1. CASE UNCHANGED <<spinlock, max_sq, rx_pkts, cpc, pos, pkt, loaded>>
  BY <1>1 DEF LockInv
<1>2. ASSUME NEW c \in Cores, Receive(c)
      PROVE  LockInv'
  BY <1>2 DEF Receive, Take, LockInv, AType, Inside
<1>3. ASSUME NEW c \in Cores, CoreStep(c)
      PROVE  LockInv'
  <2>0. \A d \in Cores \ {c} : cpc'[d] = cpc[d] /\ pkt'[d] = pkt[d] /\ pos'[d] = pos[d] /\ loaded'[d] = loaded[d]
    BY <1>3, OthersStay
  <2>1. CASE Insert(c)
    <3>1. /\ cpc'[c] \notin Inside \cup {"max", "rx"}
          /\ UNCHANGED <<spinlock, max_sq, rx_pkts>> \/ ProbeOther(c)
      BY <2>1 DEF Insert, ProbeFree, ProbeSame, ProbeOther, ProbeFull, SetHash, SetKey, AType, Inside
    <3>2. UNCHANGED <<spinlock, max_sq, rx_pkts>>
      BY <3>1 DEF ProbeOther
    <3> QED
      BY <2>0, <3>1, <3>2 DEF LockInv, Inside
  <2>2. CASE Lock(c)
    <3>1. /\ cpc'[c] = "load" /\ pos' = pos /\ pos[c] \in Slots
          /\ spinlock[pos[c]] = NoCore /\ spinlock' = [spinlock EXCEPT ![pos[c]] = c]
          /\ UNCHANGED <<max_sq, rx_pkts>>
      BY <2>2 DEF Lock, AType
    <3>2. \A d \in Cores \ {c} : cpc[d] \in Inside => pos[d] # pos[c] /\ pos[d] \in Slots
      BY <1>0, <3>1 DEF LockInv, AType
    <3>3. \A d \in Cores : cpc'[d] \in Inside => spinlock'[pos'[d]] = d
      BY <2>0, <3>1, <3>2 DEF LockInv, AType
    <3> QED
      BY <2>0, <3>1, <3>3 DEF LockInv
  <2>3. CASE Load(c)
    <3>1. /\ cpc[c] = "load" /\ cpc'[c] = "max" /\ UNCHANGED <<spinlock, max_sq, rx_pkts, pos, pkt>>
          /\ loaded'[c].max = max_sq[pos[c]] /\ loaded'[c].rx = rx_pkts[pos[c]]
      BY <2>3 DEF Load, AType
    <3>2. \A d \in Cores : cpc'[d] \in Inside => spinlock'[pos'[d]] = d
      BY <2>0, <3>1 DEF LockInv, Inside
    <3> QED
      BY <2>0, <3>1, <3>2 DEF LockInv
  <2>4. CASE StoreMax(c)
    <3>1. /\ cpc[c] = "max" /\ cpc'[c] = "rx" /\ UNCHANGED <<spinlock, rx_pkts, pos, pkt, loaded>>
          /\ pos[c] \in Slots
          /\ max_sq'[pos[c]] = NewMax(c)
          /\ \A k \in Slots \ {pos[c]} : max_sq'[k] = max_sq[k]
      BY <2>4 DEF StoreMax, AType
    <3>2. \A d \in Cores \ {c} : cpc[d] \in Inside => pos[d] # pos[c] /\ pos[d] \in Slots
      BY <3>1 DEF LockInv, AType, Inside
    <3>3. NewMax(c) >= pkt[c].sq
      <4>1. pkt[c].sq \in Nat /\ loaded[c].max \in Nat
        BY <3>1 DEF AType, Packets
      <4> QED
        BY <4>1 DEF NewMax
    <3>4. \A d \in Cores : cpc'[d] \in Inside => spinlock'[pos'[d]] = d
      BY <2>0, <3>1 DEF LockInv, Inside
    <3>5. ASSUME NEW d \in Cores
          PROVE  /\ cpc'[d] = "max" => loaded'[d].max = max_sq'[pos'[d]]
                 /\ cpc'[d] \in {"max", "rx"} => loaded'[d].rx = rx_pkts'[pos'[d]]
                 /\ cpc'[d] = "rx" => max_sq'[pos'[d]] >= pkt'[d].sq
      <4>1. CASE d = c
        BY <3>1, <3>3, <4>1 DEF LockInv
      <4>2. CASE d # c
        BY <2>0, <3>1, <3>2, <4>2 DEF LockInv, Inside
      <4> QED
        BY <4>1, <4>2
    <3> QED
      BY <3>4, <3>5 DEF LockInv
  <2>5. CASE StoreRx(c)
    <3>1. /\ cpc[c] = "rx" /\ cpc'[c] = "unlock" /\ UNCHANGED <<spinlock, max_sq, pos, pkt, loaded>>
          /\ \A k \in Slots \ {pos[c]} : rx_pkts'[k] = rx_pkts[k]
      BY <2>5 DEF StoreRx, AType
    <3>2. \A d \in Cores \ {c} : cpc[d] \in Inside => pos[d] # pos[c] /\ pos[d] \in Slots
      BY <3>1 DEF LockInv, AType, Inside
    <3>3. \A d \in Cores : cpc'[d] \in Inside => spinlock'[pos'[d]] = d
      BY <2>0, <3>1 DEF LockInv, Inside
    <3> QED
      BY <2>0, <3>1, <3>2, <3>3 DEF LockInv, Inside
  <2>6. CASE Unlock(c)
    <3>1. /\ cpc[c] = "unlock" /\ cpc'[c] = "idle" /\ UNCHANGED <<max_sq, rx_pkts, pos>>
          /\ \A k \in Slots \ {pos[c]} : spinlock'[k] = spinlock[k]
      BY <2>6 DEF Unlock, AType
    <3>2. \A d \in Cores \ {c} : cpc[d] \in Inside => pos[d] # pos[c] /\ pos[d] \in Slots
      BY <3>1 DEF LockInv, AType, Inside
    <3> QED
      BY <2>0, <3>1, <3>2 DEF LockInv, Inside
  <2> QED
    BY <1>3, <2>1, <2>2, <2>3, <2>4, <2>5, <2>6 DEF CoreStep, Count
<1>4. CASE Begin
  BY <1>4 DEF Begin, ABegin, LockInv, Inside
<1> QED
  BY <1>1, <1>2, <1>3, <1>4, Steps DEF Send, HttpStep, avars

-----------------------------------------------------------------------------
(* What the slots of a stream have counted. *)

LEMMA SlotsAreFinite ==
    ASSUME NEW s
    PROVE  SlotsOf(s) \subseteq Slots /\ IsFiniteSet(SlotsOf(s)) /\ IsFiniteSet(Slots)
<1>1. IsFiniteSet(0 .. NbSlots - 1)
  BY FS_Interval, SlotsAssumption
<1>2. SlotsOf(s) \subseteq Slots
  BY DEF SlotsOf
<1> QED
  BY <1>1, <1>2, FS_Subset DEF Slots

\* A step changes the slots of a stream only when a core writes the hash value of a slot it
\* claimed, and counts only when a core stores rx_pkts.
LEMMA SlotsStay ==
    ASSUME AType, ClaimInv, NEW c \in Cores, CoreStep(c), ~SetHash(c), NEW s \in Streams
    PROVE  SlotsOf(s)' = SlotsOf(s)
<1>0. HashOf(s) # 0
  BY HashAssumption
<1>1. CASE ProbeFree(c)
  <2>1. /\ hash_value' = hash_value /\ status' = [status EXCEPT ![Probed(c)] = TRUE]
        /\ ~status[Probed(c)]
    BY <1>1 DEF ProbeFree
  <2>2. \A k \in Slots : hash_value[k] = HashOf(s) => (status'[k] <=> status[k])
    BY <1>0, <2>1 DEF AType, ClaimInv
  <2>3. ASSUME NEW k \in Slots
        PROVE  (status'[k] /\ hash_value'[k] = HashOf(s)) <=> (status[k] /\ hash_value[k] = HashOf(s))
    BY <2>1, <2>2
  <2> QED
    BY <2>3 DEF SlotsOf
<1>2. CASE UNCHANGED <<status, hash_value>>
  BY <1>2 DEF SlotsOf
<1> QED
  BY <1>1, <1>2 DEF CoreStep, Insert, Count, ProbeSame, ProbeOther, ProbeFull, SetKey, Lock, Load, StoreMax,
                    StoreRx, Unlock

LEMMA SlotsAdded ==
    ASSUME AType, ClaimInv, NEW c \in Cores, SetHash(c), NEW s \in Streams
    PROVE  /\ pos[c] \in Slots /\ rx_pkts[pos[c]] = 0 /\ rx_pkts' = rx_pkts /\ processed' = processed
           /\ max_sq' = max_sq
           /\ pos[c] \notin SlotsOf(s)
           /\ SlotsOf(s)' = SlotsOf(s) \/ SlotsOf(s)' = SlotsOf(s) \cup {pos[c]}
<1>0. HashOf(s) # 0
  BY HashAssumption
<1>1. /\ pos[c] \in Slots /\ hash_value[pos[c]] = 0 /\ rx_pkts[pos[c]] = 0
      /\ UNCHANGED <<rx_pkts, processed, status, max_sq>>
      /\ \A k \in Slots \ {pos[c]} : hash_value'[k] = hash_value[k]
  BY DEF SetHash, AType, ClaimInv
<1>2. pos[c] \notin SlotsOf(s)
  BY <1>0, <1>1 DEF SlotsOf
<1>3. \A k \in Slots \ {pos[c]} : k \in SlotsOf(s)' <=> k \in SlotsOf(s)
  BY <1>1 DEF SlotsOf
<1>4. SlotsOf(s) \subseteq Slots /\ SlotsOf(s)' \subseteq Slots
  BY DEF SlotsOf
<1> QED
  BY <1>1, <1>2, <1>3, <1>4

\* The core that stores rx_pkts counts in one slot of one stream.
LEMMA StoreCounts ==
    ASSUME HashesDiffer, AType, ClaimInv, LockInv, NEW c \in Cores, StoreRx(c)
    PROVE  /\ pos[c] \in Slots /\ pkt[c] \in Packets
           /\ rx_pkts'[pos[c]] = rx_pkts[pos[c]] + 1
           /\ \A k \in Slots \ {pos[c]} : rx_pkts'[k] = rx_pkts[k]
           /\ processed'[pkt[c].sm] = processed[pkt[c].sm] + 1
           /\ \A s \in Streams \ {pkt[c].sm} : processed'[s] = processed[s]
           /\ \A s \in Streams : pos[c] \in SlotsOf(s) <=> s = pkt[c].sm
<1>1. /\ cpc[c] = "rx" /\ pos[c] \in Slots /\ pkt[c] \in Packets /\ pkt[c].sm \in Streams
      /\ loaded[c].rx = rx_pkts[pos[c]]
  BY DEF StoreRx, AType, LockInv, Packets
<1>2. /\ rx_pkts'[pos[c]] = rx_pkts[pos[c]] + 1
      /\ \A k \in Slots \ {pos[c]} : rx_pkts'[k] = rx_pkts[k]
      /\ processed'[pkt[c].sm] = processed[pkt[c].sm] + 1
      /\ \A s \in Streams \ {pkt[c].sm} : processed'[s] = processed[s]
  BY <1>1 DEF StoreRx, AType
<1>3. status[pos[c]] /\ hash_value[pos[c]] = HashOf(pkt[c].sm)
  BY <1>1 DEF ClaimInv, Claiming
<1>4. \A s \in Streams : pos[c] \in SlotsOf(s) <=> s = pkt[c].sm
  BY <1>1, <1>3 DEF HashesDiffer, SlotsOf
<1> QED
  BY <1>1, <1>2, <1>4

LEMMA SumsStay ==
    ASSUME HashesDiffer, AType, AType', ClaimInv, LockInv, SumInv, [Next]_vars
    PROVE  SumInv'
<1>0. \A s \in Streams : SlotsOf(s) \subseteq Slots /\ IsFiniteSet(SlotsOf(s)) /\ IsFiniteSet(SlotsOf(s)')
  <2>1. \A s \in Streams : SlotsOf(s) \subseteq Slots /\ IsFiniteSet(SlotsOf(s)) /\ IsFiniteSet(Slots)
    BY SlotsAreFinite
  <2>2. \A s \in Streams : SlotsOf(s)' \subseteq Slots
    BY DEF SlotsOf
  <2> QED
    BY <2>1, <2>2, FS_Subset, SlotsAreFinite
<1>1. CASE UNCHANGED <<status, hash_value, rx_pkts, processed, before>>
  <2>1. \A s \in Streams : SlotsOf(s)' = SlotsOf(s)
    BY <1>1 DEF SlotsOf
  <2> QED
    BY <1>1, <2>1 DEF SumInv
<1>2. ASSUME NEW c \in Cores, CoreStep(c)
      PROVE  SumInv'
  <2> SUFFICES ASSUME NEW s \in Streams
               PROVE  /\ before'[s] <= processed'[s]
                      /\ SumFunctionOnSet(rx_pkts', SlotsOf(s)') = processed'[s] - before'[s]
    BY DEF SumInv
  <2>0. /\ before' = before /\ before[s] \in Nat /\ processed[s] \in Nat /\ before[s] <= processed[s]
        /\ SumFunctionOnSet(rx_pkts, SlotsOf(s)) = processed[s] - before[s]
    BY <1>2, OthersStay DEF AType, SumInv
  <2>1. CASE SetHash(c)
    <3>1. PICK k : k = pos[c]
      OBVIOUS
    <3>2. /\ k \in Slots /\ rx_pkts[k] = 0 /\ rx_pkts' = rx_pkts /\ processed' = processed
          /\ k \notin SlotsOf(s)
          /\ SlotsOf(s)' = SlotsOf(s) \/ SlotsOf(s)' = SlotsOf(s) \cup {k}
      BY <2>1, <3>1, SlotsAdded
    <3>3. CASE SlotsOf(s)' = SlotsOf(s) \cup {k}
      <4>1. IsFiniteSet(SlotsOf(s)') /\ (\A x \in SlotsOf(s)' : rx_pkts[x] \in Nat) /\ k \in SlotsOf(s)'
        <5>1. IsFiniteSet(SlotsOf(s)')
          BY <1>0
        <5>2. \A x \in Slots : rx_pkts[x] \in Nat
          BY DEF AType
        <5>3. SlotsOf(s) \subseteq Slots
          BY <1>0
        <5> QED
          BY <3>2, <3>3, <5>1, <5>2, <5>3
      <4>2. SumFunctionOnSet(rx_pkts, SlotsOf(s)') = rx_pkts[k] + SumFunctionOnSet(rx_pkts, SlotsOf(s)' \ {k})
        BY <4>1, SumByAny
      <4>3. SlotsOf(s)' \ {k} = SlotsOf(s)
        BY <3>2, <3>3
      <4>4. SumFunctionOnSet(rx_pkts', SlotsOf(s)') = 0 + SumFunctionOnSet(rx_pkts, SlotsOf(s))
        BY <3>2, <4>2, <4>3
      <4>5. before'[s] = before[s] /\ processed'[s] = processed[s]
        BY <2>0, <3>2
      <4> QED
        BY <2>0, <4>4, <4>5
    <3> QED
      BY <2>0, <3>2, <3>3
  <2>2. CASE StoreRx(c)
    <3>1. PICK k, t : k = pos[c] /\ t = pkt[c].sm
      OBVIOUS
    <3>2. /\ k \in Slots /\ rx_pkts'[k] = rx_pkts[k] + 1
          /\ \A l \in Slots \ {k} : rx_pkts'[l] = rx_pkts[l]
          /\ processed'[t] = processed[t] + 1
          /\ \A u \in Streams \ {t} : processed'[u] = processed[u]
          /\ k \in SlotsOf(s) <=> s = t
      BY <2>2, <3>1, StoreCounts
    <3>3. SlotsOf(s)' = SlotsOf(s)
      BY <2>2, <1>2, SlotsStay DEF StoreRx, SetHash
    <3>4. /\ \A x \in SlotsOf(s) : rx_pkts[x] \in Nat /\ rx_pkts'[x] \in Nat
          /\ \A x \in SlotsOf(s) \ {k} : rx_pkts'[x] = rx_pkts[x]
      BY <1>0, <3>2 DEF AType
    <3>5. CASE s = t
      <4>1. SumFunctionOnSet(rx_pkts', SlotsOf(s)) = SumFunctionOnSet(rx_pkts, SlotsOf(s)) + (rx_pkts'[k] - rx_pkts[k])
        BY <1>0, <3>2, <3>4, <3>5, SumOfChanged
      <4>2. rx_pkts'[k] - rx_pkts[k] = 1
        BY <3>2 DEF AType
      <4> QED
        BY <2>0, <3>2, <3>3, <3>5, <4>1, <4>2
    <3>6. CASE s # t
      <4>1. \A x \in SlotsOf(s) : rx_pkts'[x] = rx_pkts[x]
        BY <3>2, <3>4, <3>6
      <4>2. SumFunctionOnSet(rx_pkts', SlotsOf(s)) = SumFunctionOnSet(rx_pkts, SlotsOf(s))
        BY <1>0, <4>1, SumOfEqual
      <4> QED
        BY <2>0, <3>2, <3>3, <3>6, <4>2
    <3> QED
      BY <3>5, <3>6
  <2>3. CASE ~SetHash(c) /\ ~StoreRx(c)
    <3>1. SlotsOf(s)' = SlotsOf(s)
      BY <1>2, <2>3, SlotsStay
    <3>2. rx_pkts' = rx_pkts /\ processed' = processed
      BY <1>2, <2>3 DEF CoreStep, Insert, Count, ProbeFree, ProbeSame, ProbeOther, ProbeFull, SetKey, Lock, Load,
                        StoreMax, Unlock
    <3> QED
      BY <2>0, <3>1, <3>2
  <2> QED
    BY <2>1, <2>2, <2>3
<1>3. CASE Begin
  <2>1. \A s \in Streams : SlotsOf(s)' = {}
    BY <1>3 DEF Begin, ABegin, SlotsOf
  <2>2. SumFunctionOnSet(rx_pkts', {}) = 0
    BY SumOfNone
  <2>3. before' = processed /\ processed' = processed /\ \A s \in Streams : processed[s] \in Nat
    BY <1>3 DEF Begin, ABegin, AType
  <2> QED
    BY <2>1, <2>2, <2>3 DEF SumInv
<1> QED
  BY <1>1, <1>2, <1>3, Steps DEF Send, Receive, Take, HttpStep, avars

LEMMA ThroughGrows ==
    ASSUME SType, AType, OnePlace, [Next]_vars, NEW s \in Streams
    PROVE  Through(s) \subseteq Through(s)'
<1>0. FirstUnsent(s) \in Int
  BY DEF SType, FirstUnsent
<1>1. CASE Send
  <2>1. /\ FirstUnsent(s) \in Int /\ FirstUnsent(s)' \in Int /\ FirstUnsent(s) <= FirstUnsent(s)'
        /\ \A p \in wire' : \/ p \in wire
                            \/ /\ p \in Packets /\ FirstUnsent(p.sm) <= p.sq
                               /\ p.sq < FirstUnsent(p.sm)'
    BY <1>1, SendMovesOn
  <2>2. \A c \in Cores : (InHand(c)' <=> InHand(c)) /\ pkt'[c] = pkt[c]
    BY <1>1 DEF Send, avars, InHand
  <2> SUFFICES ASSUME NEW q \in Through(s)
               PROVE  q \in Through(s)'
    OBVIOUS
  <2>3. /\ q \in 0 .. FirstUnsent(s) - 1 /\ [sm |-> s, sq |-> q] \notin wire
        /\ \A c \in Cores : InHand(c) => pkt[c] # [sm |-> s, sq |-> q]
    BY DEF Through
  <2>4. q \in 0 .. FirstUnsent(s)' - 1
    BY <2>1, <2>3
  <2>5. [sm |-> s, sq |-> q] \notin wire'
    <3>1. PICK p : p = [sm |-> s, sq |-> q]
      OBVIOUS
    <3>2. p.sm = s /\ p.sq = q
      BY <3>1
    <3>3. ~(FirstUnsent(p.sm) <= p.sq)
      BY <2>1, <2>3, <3>2
    <3> QED
      BY <2>1, <2>3, <3>1, <3>3
  <2> QED
    BY <2>2, <2>3, <2>4, <2>5 DEF Through
<1>2. CASE /\ UNCHANGED svars /\ wire' \subseteq wire
           /\ \A c \in Cores : InHand(c)' => (pkt'[c] \in wire \/ (InHand(c) /\ pkt'[c] = pkt[c] /\ pkt[c] \notin wire'))
           /\ \A p \in wire \ wire' : \E c \in Cores : InHand(c)' /\ pkt'[c] = p
  <2>1. FirstUnsent(s)' = FirstUnsent(s)
    BY <1>2 DEF svars, FirstUnsent
  <2> SUFFICES ASSUME NEW q \in Through(s)
               PROVE  q \in Through(s)'
    OBVIOUS
  <2>2. /\ q \in 0 .. FirstUnsent(s) - 1 /\ [sm |-> s, sq |-> q] \notin wire
        /\ \A c \in Cores : InHand(c) => pkt[c] # [sm |-> s, sq |-> q]
    BY DEF Through
  <2> QED
    BY <1>2, <2>1, <2>2 DEF Through
<1>3. ASSUME NEW c \in Cores, Receive(c)
      PROVE  Through(s) \subseteq Through(s)'
  <2>1. PICK p \in wire : c \in CoresOf(p.sm) /\ Take(c, p) /\ wire' = wire \ {p}
    BY <1>3 DEF Receive
  <2>2. /\ pkt'[c] = p /\ InHand(c)'
        /\ \A d \in Cores \ {c} : pkt'[d] = pkt[d] /\ (InHand(d)' <=> InHand(d))
    BY <2>1 DEF Take, AType, InHand, Handling
  <2> QED
    BY <1>2, <1>3, <2>1, <2>2 DEF Receive, OnePlace
<1>4. ASSUME NEW c \in Cores, CoreStep(c)
      PROVE  Through(s) \subseteq Through(s)'
  <2>1. ASSUME NEW d \in Cores, InHand(d)'
        PROVE  pkt'[d] = pkt[d] /\ InHand(d)
    BY <1>4, <2>1 DEF CoreStep, Insert, Count, ProbeFree, ProbeSame, ProbeOther, ProbeFull, SetHash, SetKey,
                      Lock, Load, StoreMax, StoreRx, Unlock, InHand, AType, Handling
  <2>2. wire' = wire /\ UNCHANGED svars
    BY <1>4 DEF CoreStep
  <2> QED
    BY <1>2, <2>1, <2>2 DEF OnePlace
<1>5. CASE UNCHANGED <<svars, cpc, pkt, wire>>
  <2>1. \A c \in Cores : (InHand(c)' <=> InHand(c)) /\ pkt'[c] = pkt[c]
    BY <1>5 DEF InHand
  <2> QED
    BY <1>2, <1>5, <2>1 DEF OnePlace
<1> QED
  BY <1>1, <1>3, <1>4, <1>5, Steps DEF Begin, ABegin, HttpStep, avars

\* More numbers are through, or the slot has seen a higher one.
LEMMA NumbersGrow ==
    ASSUME SType, AType, OnePlace, [Next]_vars, NEW s \in Streams, NEW m \in Nat, NEW n \in Nat, m <= n
    PROVE  /\ NumbersThrough(s, m) \subseteq NumbersThrough(s, n)'
           /\ IsFiniteSet(NumbersThrough(s, n)')
           /\ Cardinality(NumbersThrough(s, m)) \in Nat
           /\ Cardinality(NumbersThrough(s, n)') \in Nat
           /\ Cardinality(NumbersThrough(s, m)) <= Cardinality(NumbersThrough(s, n)')
<1>1. Through(s) \subseteq Through(s)' /\ Through(s) \subseteq Int /\ Through(s)' \subseteq Nat
  BY ThroughGrows DEF Through
<1>2. NumbersThrough(s, m) \subseteq NumbersThrough(s, n)' /\ NumbersThrough(s, n)' \subseteq 0 .. n
  BY <1>1 DEF NumbersThrough
<1>3. IsFiniteSet(0 .. n)
  BY FS_Interval
<1>4. IsFiniteSet(NumbersThrough(s, n)')
  BY <1>2, <1>3, FS_Subset
<1>5. /\ IsFiniteSet(NumbersThrough(s, m))
      /\ Cardinality(NumbersThrough(s, m)) <= Cardinality(NumbersThrough(s, n)')
  BY <1>2, <1>4, FS_Subset
<1> QED
  BY <1>2, <1>4, <1>5, FS_CardinalityType

LEMMA NumbersStayThrough ==
    ASSUME HashesDiffer, SType, AType, AType', OnePlace, ClaimInv, LockInv, NumbersInv, [Next]_vars
    PROVE  NumbersInv'
<1>1. ASSUME NEW s \in Streams, NEW k \in SlotsOf(s), rx_pkts'[k] = rx_pkts[k], max_sq[k] <= max_sq'[k]
      PROVE  (rx_pkts[k] <= Cardinality(NumbersThrough(s, max_sq[k])))'
  <2>0. k \in Slots /\ max_sq[k] \in Nat /\ max_sq'[k] \in Nat /\ rx_pkts[k] \in Nat
    BY DEF AType, SlotsOf
  <2>1. PICK m \in Nat, n \in Nat : m = max_sq[k] /\ n = max_sq'[k]
    BY <2>0
  <2>2. rx_pkts[k] <= Cardinality(NumbersThrough(s, m))
    BY <2>1 DEF NumbersInv
  <2>3. /\ Cardinality(NumbersThrough(s, m)) \in Nat
        /\ Cardinality(NumbersThrough(s, n)') \in Nat
        /\ Cardinality(NumbersThrough(s, m)) <= Cardinality(NumbersThrough(s, n)')
    BY <1>1, <2>1, NumbersGrow
  <2>4. rx_pkts'[k] <= Cardinality(NumbersThrough(s, n)')
    BY <1>1, <2>0, <2>2, <2>3
  <2>5. NumbersThrough(s, n)' = NumbersThrough(s, max_sq[k])'
    BY <2>1 DEF NumbersThrough
  <2> QED
    BY <2>4, <2>5
<1>2. CASE UNCHANGED <<status, hash_value, rx_pkts, max_sq>>
  <2>1. \A s \in Streams : SlotsOf(s)' = SlotsOf(s)
    BY <1>2 DEF SlotsOf
  <2>2. \A s \in Streams : \A k \in SlotsOf(s) : max_sq[k] <= max_sq'[k] /\ rx_pkts'[k] = rx_pkts[k]
    BY <1>2 DEF SlotsOf, AType
  <2> QED
    BY <1>1, <2>1, <2>2 DEF NumbersInv
<1>3. ASSUME NEW c \in Cores, CoreStep(c)
      PROVE  NumbersInv'
  <2> SUFFICES ASSUME NEW s \in Streams, NEW k \in SlotsOf(s)'
               PROVE  (rx_pkts[k] <= Cardinality(NumbersThrough(s, max_sq[k])))'
    BY DEF NumbersInv
  <2>0. k \in Slots
    BY DEF SlotsOf
  <2>1. CASE SetHash(c)
    <3>1. PICK l : l = pos[c]
      OBVIOUS
    <3>2. /\ rx_pkts[l] = 0 /\ rx_pkts' = rx_pkts /\ max_sq' = max_sq
          /\ k \in SlotsOf(s) \/ k = l
      BY <2>1, <3>1, SlotsAdded
    <3>3. CASE k \in SlotsOf(s)
      <4>1. max_sq[k] <= max_sq'[k]
        BY <3>2, <2>0 DEF AType
      <4> QED
        BY <1>1, <3>2, <3>3, <4>1
    <3>4. CASE k = l
      <4>1. PICK n \in Nat : n = max_sq'[k]
        BY <2>0 DEF AType
      <4>2. Cardinality(NumbersThrough(s, n)') \in Nat
        BY NumbersGrow
      <4>3. NumbersThrough(s, n)' = NumbersThrough(s, max_sq[k])'
        BY <4>1 DEF NumbersThrough
      <4>4. rx_pkts'[k] = 0
        BY <3>2, <3>4
      <4> QED
        BY <4>2, <4>3, <4>4
    <3> QED
      BY <3>2, <3>3, <3>4
  <2>2. CASE StoreRx(c)
    <3>1. PICK l, p : l = pos[c] /\ p = pkt[c]
      OBVIOUS
    <3>2. /\ l \in Slots /\ p \in Packets
          /\ rx_pkts'[l] = rx_pkts[l] + 1
          /\ \A x \in Slots \ {l} : rx_pkts'[x] = rx_pkts[x]
          /\ l \in SlotsOf(s) <=> s = p.sm
          /\ max_sq' = max_sq
      BY <2>2, <3>1, StoreCounts DEF StoreRx
    <3>3. SlotsOf(s)' = SlotsOf(s)
      BY <2>2, <1>3, SlotsStay DEF StoreRx, SetHash
    <3>4. CASE k = l
      <4>1. s = p.sm
        BY <3>2, <3>3, <3>4
      <4>2. PICK n \in Nat : n = max_sq[k]
        BY <2>0 DEF AType
      <4>3. /\ cpc[c] = "rx" /\ p.sq <= n /\ p.sq \in Nat /\ InHand(c) /\ ~InHand(c)' /\ p = [sm |-> s, sq |-> p.sq]
            /\ \A d \in Cores \ {c} : pkt'[d] = pkt[d] /\ (InHand(d)' <=> InHand(d))
            /\ UNCHANGED <<svars, wire>>
        <5>1. cpc[c] = "rx" /\ cpc'[c] = "unlock" /\ UNCHANGED <<svars, wire>>
          BY <1>3, <2>2 DEF StoreRx, AType, CoreStep
        <5>2. max_sq[pos[c]] >= pkt[c].sq
          BY <5>1 DEF LockInv
        <5>3. p.sq \in Nat /\ p = [sm |-> s, sq |-> p.sq]
          BY <3>2, <4>1 DEF Packets
        <5>4. \A d \in Cores \ {c} : pkt'[d] = pkt[d] /\ (InHand(d)' <=> InHand(d))
          BY <1>3, OthersStay DEF InHand
        <5> QED
          BY <3>1, <3>4, <4>2, <5>1, <5>2, <5>3, <5>4 DEF InHand, Handling
      <4>4. p.sq \notin NumbersThrough(s, n)
        BY <3>1, <4>3 DEF NumbersThrough, Through
      <4>5. p.sq \in NumbersThrough(s, n)'
        <5>1. FirstUnsent(s)' = FirstUnsent(s) /\ FirstUnsent(s) \in Int
          BY <4>3 DEF FirstUnsent, svars, SType
        <5>2. p.sq < FirstUnsent(p.sm) /\ p \notin wire
          BY <3>1, <4>3 DEF OnePlace
        <5>3. p.sq \in 0 .. FirstUnsent(s)' - 1
          BY <4>1, <4>3, <5>1, <5>2
        <5>4. \A d \in Cores : InHand(d)' => pkt'[d] # p
          BY <3>1, <4>3 DEF OnePlace
        <5> QED
          BY <4>3, <5>2, <5>3, <5>4 DEF NumbersThrough, Through
      <4>6. /\ NumbersThrough(s, n) \subseteq NumbersThrough(s, n)'
            /\ IsFiniteSet(NumbersThrough(s, n)')
            /\ Cardinality(NumbersThrough(s, n)) \in Nat
            /\ Cardinality(NumbersThrough(s, n)') \in Nat
        BY NumbersGrow
      <4> DEFINE T == NumbersThrough(s, n) \cup {p.sq}
      <4>7. Cardinality(T) = Cardinality(NumbersThrough(s, n)) + 1 /\ Cardinality(T) <= Cardinality(NumbersThrough(s, n)')
        <5>1. IsFiniteSet(NumbersThrough(s, n))
          BY <4>6, FS_Subset
        <5>2. Cardinality(T) = Cardinality(NumbersThrough(s, n)) + 1
          BY <4>4, <5>1, FS_AddElement
        <5>3. T \subseteq NumbersThrough(s, n)'
          BY <4>5, <4>6
        <5> QED
          BY <4>6, <5>2, <5>3, FS_Subset
      <4>8. rx_pkts[k] <= Cardinality(NumbersThrough(s, n)) /\ rx_pkts[k] \in Nat
        BY <2>0, <3>3, <4>2 DEF NumbersInv, AType
      <4>9. rx_pkts'[k] <= Cardinality(NumbersThrough(s, n)')
        <5> HIDE DEF T
        <5> QED
          BY <3>2, <3>4, <4>6, <4>7, <4>8
      <4>10. NumbersThrough(s, n)' = NumbersThrough(s, max_sq[k])'
        BY <3>2, <4>2 DEF NumbersThrough
      <4> QED
        BY <4>9, <4>10
    <3>5. CASE k # l
      <4>1. k \in SlotsOf(s) /\ max_sq[k] <= max_sq'[k] /\ rx_pkts'[k] = rx_pkts[k]
        BY <2>0, <3>2, <3>3, <3>5 DEF AType
      <4> QED
        BY <1>1, <4>1
    <3> QED
      BY <3>4, <3>5
  <2>3. CASE ~SetHash(c) /\ ~StoreRx(c)
    <3>1. SlotsOf(s)' = SlotsOf(s)
      BY <1>3, <2>3, SlotsStay
    <3>2. rx_pkts' = rx_pkts
      BY <1>3, <2>3 DEF CoreStep, Insert, Count, ProbeFree, ProbeSame, ProbeOther, ProbeFull, SetKey, Lock, Load,
                        StoreMax, Unlock
    <3>3. max_sq[k] <= max_sq'[k]
      <4>1. CASE StoreMax(c)
        <5>1. /\ \A l \in Slots \ {pos[c]} : max_sq'[l] = max_sq[l]
              /\ max_sq'[pos[c]] = NewMax(c)
              /\ loaded[c].max = max_sq[pos[c]] /\ pkt[c].sq \in Nat /\ loaded[c].max \in Nat
          BY <4>1 DEF StoreMax, AType, LockInv, Packets
        <5>2. NewMax(c) >= loaded[c].max
          BY <5>1 DEF NewMax
        <5>3. CASE k = pos[c]
          BY <5>1, <5>2, <5>3
        <5>4. CASE k # pos[c]
          BY <2>0, <5>1, <5>4 DEF AType
        <5> QED
          BY <5>3, <5>4
      <4>2. CASE max_sq' = max_sq
        BY <2>0, <4>2 DEF AType
      <4> QED
        BY <1>3, <4>1, <4>2 DEF CoreStep, Insert, Count, ProbeFree, ProbeSame, ProbeOther, ProbeFull, SetHash, SetKey,
                                Lock, Load, StoreRx, Unlock
    <3> QED
      BY <1>1, <3>1, <3>2, <3>3
  <2> QED
    BY <2>1, <2>2, <2>3
<1>4. CASE Begin
  <2>1. \A s \in Streams : SlotsOf(s)' = {}
    BY <1>4 DEF Begin, ABegin, SlotsOf
  <2> QED
    BY <2>1 DEF NumbersInv
<1> QED
  BY <1>2, <1>3, <1>4, Steps DEF Send, Receive, Take, HttpStep, avars

LEMMA CountInvHolds ==
    ASSUME HashesDiffer
    PROVE  Spec => []CountInv
<1>1. Init => CountInv
  <2> SUFFICES ASSUME Init PROVE CountInv
    OBVIOUS
  <2>1. SType
    BY DEF Init, SInit, SType
  <2>2. AType
    BY SlotsAssumption DEF Init, AInit, AType, Slots, Handling
  <2>3. OnePlace
    BY DEF Init, AInit, SInit, OnePlace, InHand, Handling
  <2>4. ClaimInv /\ LockInv
    BY DEF Init, AInit, ClaimInv, LockInv, Claiming, Inside
  <2>5. \A s \in Streams : SlotsOf(s) = {}
    BY DEF Init, AInit, SlotsOf
  <2>6. SumInv
    BY <2>5, SumOfNone DEF Init, AInit, SumInv
  <2>7. NumbersInv
    BY <2>5 DEF NumbersInv
  <2> QED
    BY <2>1, <2>2, <2>3, <2>4, <2>6, <2>7 DEF CountInv
<1>2. CountInv /\ [Next]_vars => CountInv'
  <2> SUFFICES ASSUME CountInv, [Next]_vars PROVE CountInv'
    OBVIOUS
  <2>1. SType /\ AType /\ OnePlace /\ ClaimInv /\ LockInv /\ SumInv /\ NumbersInv
    BY DEF CountInv
  <2>2. SType' /\ AType' /\ OnePlace' /\ ClaimInv' /\ LockInv'
    BY <2>1, STypeStays, ATypeStays, OnePlaceStays, ClaimStays, LockStays
  <2>3. SumInv' /\ NumbersInv'
    BY <2>1, <2>2, SumsStay, NumbersStayThrough
  <2> QED
    BY <2>2, <2>3 DEF CountInv
<1> QED
  BY <1>1, <1>2, PTL DEF Spec

\* When two streams do not have one hash value, every packet handled is counted once, in a slot
\* of its own stream, however the cores interleave on a table that is claimed slot by slot; and
\* the numbers a slot has counted are distinct and none is above its max_sq, so that what
\* update_aggre_stream_stats() takes for lost is never negative.
THEOREM PacketsAreCountedOnce ==
    ASSUME HashesDiffer
    PROVE  Spec => []CountedOnce
<1>1. CountInv => CountedOnce
  <2> SUFFICES ASSUME CountInv PROVE CountedOnce
    OBVIOUS
  <2>1. \A s \in Streams : SumFunctionOnSet(rx_pkts, SlotsOf(s)) = processed[s] - before[s]
    BY DEF CountInv, SumInv
  <2>2. ASSUME NEW k \in Slots
        PROVE  rx_pkts[k] <= max_sq[k] + 1
    <3>0. max_sq[k] \in Nat /\ rx_pkts[k] \in Nat
      BY DEF CountInv, AType
    <3>1. CASE hash_value[k] = 0
      BY <3>0, <3>1 DEF CountInv, ClaimInv
    <3>2. CASE hash_value[k] # 0
      <4>1. PICK s \in Streams : hash_value[k] = HashOf(s)
        BY <3>2 DEF CountInv, ClaimInv
      <4>2. k \in SlotsOf(s)
        BY <3>2, <4>1 DEF CountInv, ClaimInv, SlotsOf
      <4>3. rx_pkts[k] <= Cardinality(NumbersThrough(s, max_sq[k]))
        BY <4>2 DEF CountInv, NumbersInv
      <4>4. NumbersThrough(s, max_sq[k]) \subseteq 0 .. max_sq[k]
        BY <3>0 DEF NumbersThrough, Through
      <4>5. IsFiniteSet(0 .. max_sq[k]) /\ Cardinality(0 .. max_sq[k]) = max_sq[k] + 1
        <5>1. \A m \in Nat : IsFiniteSet(0 .. m) /\ Cardinality(0 .. m) = m + 1
          BY FS_Interval
        <5> QED
          BY <3>0, <5>1
      <4>6. /\ Cardinality(NumbersThrough(s, max_sq[k])) <= max_sq[k] + 1
            /\ Cardinality(NumbersThrough(s, max_sq[k])) \in Nat
        BY <4>4, <4>5, FS_Subset, FS_CardinalityType
      <4> QED
        BY <3>0, <4>3, <4>6
    <3> QED
      BY <3>1, <3>2
  <2> QED
    BY <2>1, <2>2 DEF CountedOnce, CountWithinMax
<1> QED
  BY <1>1, CountInvHolds, PTL

-----------------------------------------------------------------------------
(* One slot for each stream, and a slot for every packet. *)

\* A stream is received by one core; the table has as many slots as there are streams.
OneCoreEach == \A s \in Streams : \A c, d \in CoresOf(s) : c = d
RoomForAll == Cardinality(Streams) <= NbSlots

\* The slots insert_hash_table() tries for a stream, one after the other.
Try(s, i) == (HashOf(s) + i) % NbSlots

\* A core has tried the slots before the one at hand: they are claimed, by other streams. One
\* that claimed a slot found its stream nowhere.
TriedInv ==
    /\ \A c \in Cores : cpc[c] # "idle" => c \in CoresOf(pkt[c].sm)
    /\ \A c \in Cores : cpc[c] = "probe" =>
          \A j \in 0 .. di[c] - 1 : /\ status[Try(pkt[c].sm, j)]
                                    /\ hash_value[Try(pkt[c].sm, j)] # HashOf(pkt[c].sm)
    /\ \A c \in Cores : cpc[c] = "sethash" =>
          /\ di[c] < NbSlots /\ pos[c] = Try(pkt[c].sm, di[c])
          /\ \A j \in 0 .. di[c] - 1 : status[Try(pkt[c].sm, j)]
          /\ \A k \in Slots : hash_value[k] # HashOf(pkt[c].sm)

\* The slot of a stream is the first it tries that another stream does not have, and no other
\* has its hash value; a claimed slot has a stream, or a core that is about to write its hash.
FoundInv ==
    /\ \A k \in Slots, s \in Streams : hash_value[k] = HashOf(s) =>
          \E i \in 0 .. NbSlots - 1 : k = Try(s, i) /\ \A j \in 0 .. i - 1 : status[Try(s, j)]
    /\ \A k, l \in Slots : hash_value[k] = hash_value[l] /\ hash_value[k] # 0 => k = l
    /\ \A k \in Slots : status[k] => \/ hash_value[k] # 0
                                     \/ \E c \in Cores : cpc[c] = "sethash" /\ pos[c] = k

TableInv == AType /\ ClaimInv /\ TriedInv /\ FoundInv

LEMMA RemainderOf ==
    ASSUME NEW n \in Nat \ {0}, NEW q \in Nat, NEW r \in 0 .. n - 1
    PROVE  (n * q + r) % n = r
BY SMTT(30)

\* All slots are tried.
LEMMA TryReachesAll ==
    ASSUME NEW s \in Streams
    PROVE  /\ \A j \in Nat : Try(s, j) \in Slots
           /\ \A k \in Slots : \E j \in 0 .. NbSlots - 1 : k = Try(s, j)
<1>0. NbSlots \in Nat \ {0} /\ HashOf(s) \in Nat
  BY SlotsAssumption, HashAssumption
<1>1. \A j \in Nat : Try(s, j) \in Slots
  <2>1. \A j \in Nat : HashOf(s) + j \in Nat
    BY <1>0
  <2> QED
    BY <1>0, <2>1, Remainder DEF Try, Slots
<1>2. ASSUME NEW k \in Slots
      PROVE  \E j \in 0 .. NbSlots - 1 : k = Try(s, j)
  <2> DEFINE q == HashOf(s) \div NbSlots
             h == HashOf(s) % NbSlots
  <2>1. q \in Nat /\ h \in 0 .. NbSlots - 1 /\ HashOf(s) = NbSlots * q + h
    BY <1>0, Remainder
  <2>2. k \in 0 .. NbSlots - 1
    BY DEF Slots
  <2> HIDE DEF q, h
  <2>3. CASE h <= k
    <3>1. k - h \in 0 .. NbSlots - 1 /\ HashOf(s) + (k - h) = NbSlots * q + k
      BY <1>0, <2>1, <2>2, <2>3
    <3>2. k = Try(s, k - h)
      BY <1>0, <2>1, <2>2, <3>1, RemainderOf DEF Try
    <3> QED
      BY <3>1, <3>2
  <2>4. CASE k < h
    <3>1. NbSlots * (q + 1) = NbSlots * q + NbSlots /\ q + 1 \in Nat
      BY <1>0, <2>1, SMTT(30)
    <3>2. k - h + NbSlots \in 0 .. NbSlots - 1 /\ HashOf(s) + (k - h + NbSlots) = NbSlots * (q + 1) + k
      BY <1>0, <2>1, <2>2, <2>4, <3>1
    <3>3. k = Try(s, k - h + NbSlots)
      BY <1>0, <2>2, <3>1, <3>2, RemainderOf DEF Try
    <3> QED
      BY <3>2, <3>3
  <2> QED
    BY <1>0, <2>1, <2>2, <2>3, <2>4
<1> QED
  BY <1>1, <1>2

\* Cores at work at the same time have packets of different streams.
LEMMA StreamsDiffer ==
    ASSUME HashesDiffer, OneCoreEach, AType, TriedInv
    PROVE  \A c, d \in Cores : /\ cpc[c] # "idle" /\ cpc[d] # "idle" /\ c # d
                               => /\ pkt[c].sm # pkt[d].sm
                                  /\ HashOf(pkt[c].sm) # HashOf(pkt[d].sm)
<1> SUFFICES ASSUME NEW c \in Cores, NEW d \in Cores, cpc[c] # "idle", cpc[d] # "idle", c # d
             PROVE  pkt[c].sm # pkt[d].sm /\ HashOf(pkt[c].sm) # HashOf(pkt[d].sm)
  OBVIOUS
<1>1. pkt[c].sm \in Streams /\ pkt[d].sm \in Streams
  BY DEF AType, Packets
<1>2. c \in CoresOf(pkt[c].sm) /\ d \in CoresOf(pkt[d].sm)
  BY DEF TriedInv
<1>3. pkt[c].sm # pkt[d].sm
  <2> SUFFICES ASSUME pkt[c].sm = pkt[d].sm PROVE FALSE
    OBVIOUS
  <2>1. PICK s \in Streams : s = pkt[c].sm
    BY <1>1
  <2>2. CoresOf(pkt[c].sm) = CoresOf(s) /\ CoresOf(pkt[d].sm) = CoresOf(s)
    BY <2>1
  <2> QED
    BY <1>2, <2>2 DEF OneCoreEach
<1> QED
  BY <1>1, <1>3 DEF HashesDiffer

\* Every slot has a stream of its own when all are claimed: a core that finds none for its packet
\* would be there with one stream more than the table has slots.
LEMMA NeverFull ==
    ASSUME HashesDiffer, OneCoreEach, RoomForAll, TableInv, NEW c \in Cores
    PROVE  ~ProbeFull(c)
<1> SUFFICES ASSUME ProbeFull(c) PROVE FALSE
  OBVIOUS
<1>0. cpc[c] = "probe" /\ di[c] = NbSlots /\ pkt[c].sm \in Streams
  BY DEF ProbeFull, TableInv, AType, Packets
<1>1. PICK t \in Streams : t = pkt[c].sm
  BY <1>0
<1>2. \A k \in Slots : status[k] /\ hash_value[k] # HashOf(t)
  <2>1. \A k \in Slots : \E j \in 0 .. NbSlots - 1 : k = Try(t, j)
    BY TryReachesAll
  <2>2. \A j \in 0 .. NbSlots - 1 : status[Try(t, j)] /\ hash_value[Try(t, j)] # HashOf(t)
    BY <1>0, <1>1 DEF TableInv, TriedInv
  <2> QED
    BY <2>1, <2>2
<1> DEFINE Owns(k, s) == \/ hash_value[k] = HashOf(s)
                         \/ \E d \in Cores : cpc[d] = "sethash" /\ pos[d] = k /\ pkt[d].sm = s
<1>3. ASSUME NEW k \in Slots
      PROVE  \E s \in Streams \ {t} : Owns(k, s)
  <2>1. CASE hash_value[k] # 0
    <3>1. PICK s \in Streams : hash_value[k] = HashOf(s)
      BY <2>1 DEF TableInv, ClaimInv
    <3> QED
      BY <1>2, <3>1
  <2>2. CASE \E d \in Cores : cpc[d] = "sethash" /\ pos[d] = k
    <3>1. PICK d \in Cores : cpc[d] = "sethash" /\ pos[d] = k
      BY <2>2
    <3>2. d # c /\ pkt[d].sm \in Streams
      BY <1>0, <3>1 DEF TableInv, AType, Packets
    <3>3. pkt[d].sm # t
      BY <1>0, <1>1, <3>1, <3>2, StreamsDiffer DEF TableInv
    <3> QED
      BY <3>1, <3>2, <3>3
  <2> QED
    BY <1>2, <2>1, <2>2 DEF TableInv, FoundInv
<1>4. ASSUME NEW k \in Slots, NEW l \in Slots, NEW s \in Streams, Owns(k, s), Owns(l, s)
      PROVE  k = l
  <2>0. HashOf(s) # 0
    BY HashAssumption
  <2>1. CASE hash_value[k] = HashOf(s) /\ hash_value[l] = HashOf(s)
    BY <2>0, <2>1 DEF TableInv, FoundInv
  <2>2. \A d \in Cores : cpc[d] = "sethash" /\ pkt[d].sm = s => \A m \in Slots : hash_value[m] # HashOf(s)
    BY DEF TableInv, TriedInv
  <2>3. \A d, e \in Cores : cpc[d] = "sethash" /\ cpc[e] = "sethash" /\ pkt[d].sm = s /\ pkt[e].sm = s => d = e
    BY StreamsDiffer DEF TableInv
  <2> QED
    BY <1>4, <2>1, <2>2, <2>3
<1> HIDE DEF Owns
<1> DEFINE owner == [k \in Slots |-> CHOOSE s \in Streams \ {t} : Owns(k, s)]
<1>5. \A k \in Slots : owner[k] \in Streams \ {t} /\ Owns(k, owner[k])
  BY <1>3
<1>6. owner \in [Slots -> Streams \ {t}]
  BY <1>5
<1>7. /\ IsFiniteSet(Slots) /\ Cardinality(Slots) = NbSlots
      /\ IsFiniteSet(Streams \ {t}) /\ Cardinality(Streams \ {t}) < NbSlots
  <2>1. IsFiniteSet(Slots) /\ Cardinality(Slots) = NbSlots
    BY FS_Interval, SlotsAssumption DEF Slots
  <2>2. /\ IsFiniteSet(Streams) /\ Cardinality(Streams) \in Nat
        /\ IsFiniteSet(Streams \ {t}) /\ Cardinality(Streams \ {t}) = Cardinality(Streams) - 1
    BY StreamsAssumption, FS_RemoveElement, FS_CardinalityType
  <2> QED
    BY <2>1, <2>2, SlotsAssumption DEF RoomForAll
<1> HIDE DEF owner
<1>8. \E k, l \in Slots : k # l /\ owner[k] = owner[l]
  BY <1>6, <1>7, FS_PigeonHole
<1> QED
  BY <1>4, <1>5, <1>8

\* A core that claims the slot it tries has found its stream nowhere.
LEMMA ClaimedForNew ==
    ASSUME TableInv, NEW c \in Cores, ProbeFree(c)
    PROVE  \A k \in Slots : hash_value[k] # HashOf(pkt[c].sm)
<1> SUFFICES ASSUME NEW k \in Slots, hash_value[k] = HashOf(pkt[c].sm)
             PROVE  FALSE
  OBVIOUS
<1>1. PICK s \in Streams : s = pkt[c].sm
  BY DEF ProbeFree, TableInv, AType, Packets
<1>2. PICK i \in 0 .. NbSlots - 1 : k = Try(s, i) /\ \A j \in 0 .. i - 1 : status[Try(s, j)]
  BY <1>1 DEF TableInv, FoundInv
<1>3. ~status[Try(s, di[c])] /\ di[c] \in Nat /\ Try(s, di[c]) \in Slots
  <2>1. di[c] \in Nat
    BY SlotsAssumption DEF TableInv, AType
  <2> QED
    BY <1>1, <2>1, TryReachesAll DEF ProbeFree, Probed, Try
<1>4. CASE i < di[c]
  <2>1. i \in 0 .. di[c] - 1
    BY <1>3, <1>4, SlotsAssumption
  <2> QED
    BY <1>1, <1>2, <2>1 DEF TableInv, TriedInv, ProbeFree
<1>5. CASE i = di[c]
  <2>1. hash_value[k] = 0
    BY <1>2, <1>3, <1>5 DEF TableInv, ClaimInv
  <2> QED
    BY <1>1, <2>1, HashAssumption
<1>6. CASE i > di[c]
  <2>1. di[c] \in 0 .. i - 1
    BY <1>3, <1>6, SlotsAssumption
  <2> QED
    BY <1>2, <1>3, <2>1
<1> QED
  BY <1>3, <1>4, <1>5, <1>6, SlotsAssumption

LEMMA TriedStays ==
    ASSUME HashesDiffer, OneCoreEach, TableInv, ClaimInv', [Next]_vars
    PROVE  TriedInv'
<1>1. CASE UNCHANGED <<status, hash_value, cpc, pkt, di, pos>>
  BY <1>1 DEF TableInv, TriedInv
<1>2. ASSUME NEW c \in Cores, Receive(c)
      PROVE  TriedInv'
  <2>1. PICK p \in wire : c \in CoresOf(p.sm) /\ Take(c, p)
    BY <1>2 DEF Receive
  <2>2. /\ cpc'[c] = "probe" /\ pkt'[c] = p /\ di'[c] = 0
        /\ \A d \in Cores \ {c} : cpc'[d] = cpc[d] /\ pkt'[d] = pkt[d] /\ di'[d] = di[d]
        /\ UNCHANGED <<status, hash_value, pos>>
    BY <2>1 DEF Take, TableInv, AType
  <2>3. \A j \in 0 .. di'[c] - 1 : FALSE
    BY <2>2
  <2>4. \A d \in Cores : cpc'[d] # "idle" => d \in CoresOf(pkt'[d].sm)
    BY <2>1, <2>2 DEF TableInv, TriedInv
  <2> QED
    BY <2>2, <2>3, <2>4 DEF TableInv, TriedInv
<1>3. ASSUME NEW c \in Cores, CoreStep(c)
      PROVE  TriedInv'
  <2>0. \A d \in Cores \ {c} : cpc'[d] = cpc[d] /\ pkt'[d] = pkt[d] /\ pos'[d] = pos[d] /\ di'[d] = di[d]
    BY <1>3, OthersStay DEF TableInv
  <2>1. \A k \in Slots : status[k] => status'[k]
    BY <1>3 DEF CoreStep, Insert, Count, ProbeFree, ProbeSame, ProbeOther, ProbeFull, SetHash, SetKey, Lock, Load,
                StoreMax, StoreRx, Unlock, TableInv, AType
  <2>2. \A d \in Cores \ {c} : cpc[d] # "idle" => \A k \in Slots :
            hash_value[k] # HashOf(pkt[d].sm) => hash_value'[k] # HashOf(pkt[d].sm)
    <3>1. CASE SetHash(c)
      <4>1. cpc[c] # "idle" /\ \A k \in Slots : hash_value'[k] \in {hash_value[k], HashOf(pkt[c].sm)}
        BY <3>1 DEF SetHash, TableInv, AType
      <4>2. \A d \in Cores \ {c} : cpc[d] # "idle" => HashOf(pkt[d].sm) # HashOf(pkt[c].sm)
        BY <4>1, StreamsDiffer DEF TableInv
      <4> QED
        BY <4>1, <4>2
    <3>2. CASE hash_value' = hash_value
      BY <3>2
    <3> QED
      BY <1>3, <3>1, <3>2 DEF CoreStep, Insert, Count, ProbeFree, ProbeSame, ProbeOther, ProbeFull, SetKey, Lock, Load,
                              StoreMax, StoreRx, Unlock
  <2>3. \A d \in Cores : cpc[d] # "idle" => /\ \A j \in Nat : Try(pkt[d].sm, j) \in Slots
                                            /\ di[d] \in Nat
    <3>1. \A d \in Cores : cpc[d] # "idle" => pkt[d].sm \in Streams
      BY DEF TableInv, AType, Packets
    <3> QED
      BY <3>1, TryReachesAll, SlotsAssumption DEF TableInv, AType
  <2>4. \A d \in Cores : cpc'[d] # "idle" => cpc[d] # "idle" /\ pkt'[d] = pkt[d]
    BY <2>0, <1>3 DEF CoreStep, Insert, Count, ProbeFree, ProbeSame, ProbeOther, ProbeFull, SetHash, SetKey, Lock, Load,
                      StoreMax, StoreRx, Unlock, TableInv, AType
  <2>5. \A d \in Cores : cpc'[d] # "idle" => d \in CoresOf(pkt'[d].sm)
    BY <2>4 DEF TableInv, TriedInv
  <2>6. ASSUME NEW d \in Cores \ {c}
        PROVE  /\ cpc'[d] = "probe" => \A j \in 0 .. di'[d] - 1 : /\ status'[Try(pkt'[d].sm, j)]
                                                                 /\ hash_value'[Try(pkt'[d].sm, j)] # HashOf(pkt'[d].sm)
               /\ cpc'[d] = "sethash" => /\ di'[d] < NbSlots /\ pos'[d] = Try(pkt'[d].sm, di'[d])
                                         /\ \A j \in 0 .. di'[d] - 1 : status'[Try(pkt'[d].sm, j)]
                                         /\ \A k \in Slots : hash_value'[k] # HashOf(pkt'[d].sm)
    <3>1. /\ cpc'[d] = cpc[d] /\ pkt'[d] = pkt[d] /\ di'[d] = di[d] /\ pos'[d] = pos[d]
      BY <2>0
    <3>2. cpc[d] # "idle" => \A j \in 0 .. di[d] - 1 : Try(pkt[d].sm, j) \in Slots
      BY <2>3
    <3> QED
      BY <2>1, <2>2, <3>1, <3>2 DEF TableInv, TriedInv
  <2>7. cpc'[c] = "probe" => \A j \in 0 .. di'[c] - 1 : /\ status'[Try(pkt'[c].sm, j)]
                                                        /\ hash_value'[Try(pkt'[c].sm, j)] # HashOf(pkt'[c].sm)
    <3> SUFFICES ASSUME cpc'[c] = "probe" PROVE \A j \in 0 .. di'[c] - 1 :
                            /\ status'[Try(pkt'[c].sm, j)]
                            /\ hash_value'[Try(pkt'[c].sm, j)] # HashOf(pkt'[c].sm)
      OBVIOUS
    <3>1. ProbeOther(c)
      BY <1>3 DEF CoreStep, Insert, Count, ProbeFree, ProbeSame, ProbeFull, SetHash, SetKey, Lock, Load,
                  StoreMax, StoreRx, Unlock, TableInv, AType
    <3>2. /\ cpc[c] = "probe" /\ UNCHANGED <<status, hash_value, pkt>> /\ di'[c] = di[c] + 1
          /\ status[Try(pkt[c].sm, di[c])] /\ hash_value[Try(pkt[c].sm, di[c])] # HashOf(pkt[c].sm)
          /\ di[c] \in Nat
      BY <3>1, <2>3 DEF ProbeOther, SameStream, Probed, Try, TableInv, AType
    <3>3. \A j \in 0 .. di'[c] - 1 : j \in 0 .. di[c] - 1 \/ j = di[c]
      BY <3>2
    <3> QED
      BY <3>2, <3>3 DEF TableInv, TriedInv
  <2>8. cpc'[c] = "sethash" => /\ di'[c] < NbSlots /\ pos'[c] = Try(pkt'[c].sm, di'[c])
                               /\ \A j \in 0 .. di'[c] - 1 : status'[Try(pkt'[c].sm, j)]
                               /\ \A k \in Slots : hash_value'[k] # HashOf(pkt'[c].sm)
    <3> SUFFICES ASSUME cpc'[c] = "sethash"
                 PROVE  /\ di'[c] < NbSlots /\ pos'[c] = Try(pkt'[c].sm, di'[c])
                        /\ \A j \in 0 .. di'[c] - 1 : status'[Try(pkt'[c].sm, j)]
                        /\ \A k \in Slots : hash_value'[k] # HashOf(pkt'[c].sm)
      OBVIOUS
    <3>1. ProbeFree(c)
      <4>1. ~ProbeOther(c)
        BY DEF ProbeOther
      <4> QED
        BY <1>3, <4>1 DEF CoreStep, Insert, Count, ProbeSame, ProbeFull, SetHash, SetKey, Lock, Load,
                  StoreMax, StoreRx, Unlock, TableInv, AType
    <3>2. /\ cpc[c] = "probe" /\ UNCHANGED <<hash_value, pkt, di>> /\ di[c] < NbSlots
          /\ pos'[c] = Try(pkt[c].sm, di[c])
      BY <3>1 DEF ProbeFree, Probed, Try, TableInv, AType
    <3>3. \A j \in 0 .. di[c] - 1 : status[Try(pkt[c].sm, j)] /\ Try(pkt[c].sm, j) \in Slots
      BY <3>2, <2>3 DEF TableInv, TriedInv
    <3>4. \A k \in Slots : hash_value[k] # HashOf(pkt[c].sm)
      BY <3>1, ClaimedForNew
    <3> QED
      BY <2>1, <3>2, <3>3, <3>4
  <2> QED
    BY <2>5, <2>6, <2>7, <2>8 DEF TriedInv
<1>4. CASE Begin
  BY <1>4 DEF Begin, ABegin, TriedInv
<1> QED
  BY <1>1, <1>2, <1>3, <1>4, Steps DEF Send, HttpStep, avars

LEMMA FoundStays ==
    ASSUME HashesDiffer, TableInv, [Next]_vars
    PROVE  FoundInv'
<1>1. CASE UNCHANGED <<status, hash_value, cpc, pos>>
  BY <1>1 DEF TableInv, FoundInv
<1>2. ASSUME NEW c \in Cores, Receive(c)
      PROVE  FoundInv'
  <2>1. UNCHANGED <<status, hash_value, pos>> /\ \A d \in Cores : cpc[d] = "sethash" => cpc'[d] = "sethash"
    BY <1>2 DEF Receive, Take, TableInv, AType
  <2> QED
    BY <2>1 DEF TableInv, FoundInv
<1>3. ASSUME NEW c \in Cores, CoreStep(c)
      PROVE  FoundInv'
  <2>0. \A d \in Cores \ {c} : cpc'[d] = cpc[d] /\ pos'[d] = pos[d]
    BY <1>3, OthersStay DEF TableInv
  <2>1. \A k \in Slots : status[k] => status'[k]
    BY <1>3 DEF CoreStep, Insert, Count, ProbeFree, ProbeSame, ProbeOther, ProbeFull, SetHash, SetKey, Lock, Load,
                StoreMax, StoreRx, Unlock, TableInv, AType
  <2>2. \A s \in Streams, j \in Nat : Try(s, j) \in Slots
    BY TryReachesAll
  <2>3. CASE SetHash(c)
    <3>1. PICK l \in Slots, t \in Streams : l = pos[c] /\ t = pkt[c].sm
      BY <2>3 DEF SetHash, TableInv, AType, Packets
    <3>2. /\ cpc[c] = "sethash" /\ hash_value'[l] = HashOf(t) /\ status' = status /\ pos' = pos
          /\ \A k \in Slots \ {l} : hash_value'[k] = hash_value[k]
          /\ HashOf(t) # 0
      BY <2>3, <3>1, HashAssumption DEF SetHash, TableInv, AType
    <3>3. /\ di[c] \in 0 .. NbSlots - 1 /\ l = Try(t, di[c])
          /\ \A j \in 0 .. di[c] - 1 : status[Try(t, j)]
          /\ \A k \in Slots : hash_value[k] # HashOf(t)
      BY <3>1, <3>2, SlotsAssumption DEF TableInv, TriedInv, AType
    <3>4. ASSUME NEW k \in Slots, NEW s \in Streams, hash_value'[k] = HashOf(s)
          PROVE  \E i \in 0 .. NbSlots - 1 : k = Try(s, i) /\ \A j \in 0 .. i - 1 : status'[Try(s, j)]
      <4>1. CASE k = l
        <5>1. s = t
          BY <3>2, <3>4, <4>1 DEF HashesDiffer
        <5> QED
          BY <3>2, <3>3, <4>1, <5>1
      <4>2. CASE k # l
        BY <3>2, <3>4, <4>2 DEF TableInv, FoundInv
      <4> QED
        BY <4>1, <4>2
    <3>5. ASSUME NEW k \in Slots, NEW m \in Slots, hash_value'[k] = hash_value'[m], hash_value'[k] # 0
          PROVE  k = m
      <4>1. \A x \in Slots \ {l} : hash_value'[x] # HashOf(t)
        BY <3>2, <3>3
      <4>2. CASE k = l \/ m = l
        BY <3>2, <3>5, <4>1, <4>2
      <4>3. CASE k # l /\ m # l
        BY <3>2, <3>5, <4>3 DEF TableInv, FoundInv
      <4> QED
        BY <4>2, <4>3
    <3>6. ASSUME NEW k \in Slots, status'[k]
          PROVE  hash_value'[k] # 0 \/ \E d \in Cores : cpc'[d] = "sethash" /\ pos'[d] = k
      <4>1. CASE k = l
        BY <3>2, <4>1
      <4>2. CASE k # l
        <5>1. hash_value[k] # 0 \/ \E d \in Cores : cpc[d] = "sethash" /\ pos[d] = k
          BY <3>2, <3>6 DEF TableInv, FoundInv
        <5>2. \A d \in Cores : pos[d] = k => d # c
          BY <3>1, <4>2
        <5> QED
          BY <2>0, <3>2, <4>2, <5>1, <5>2
      <4> QED
        BY <4>1, <4>2
    <3> QED
      BY <3>4, <3>5, <3>6 DEF FoundInv
  <2>4. CASE ~SetHash(c)
    <3>1. /\ hash_value' = hash_value
          /\ cpc[c] # "sethash"
          /\ \A k \in Slots : status'[k] => status[k] \/ (cpc'[c] = "sethash" /\ pos'[c] = k)
      <4>1. CASE ProbeFree(c)
        BY <4>1 DEF ProbeFree, TableInv, AType
      <4>2. CASE ~ProbeFree(c)
        BY <1>3, <2>4, <4>2 DEF CoreStep, Insert, Count, ProbeSame, ProbeOther, ProbeFull, SetKey, Lock, Load,
                  StoreMax, StoreRx, Unlock
      <4> QED
        BY <4>1, <4>2
    <3>2. ASSUME NEW k \in Slots, NEW s \in Streams, hash_value'[k] = HashOf(s)
          PROVE  \E i \in 0 .. NbSlots - 1 : k = Try(s, i) /\ \A j \in 0 .. i - 1 : status'[Try(s, j)]
      <4>1. PICK i \in 0 .. NbSlots - 1 : k = Try(s, i) /\ \A j \in 0 .. i - 1 : status[Try(s, j)]
        BY <3>1, <3>2 DEF TableInv, FoundInv
      <4> QED
        BY <2>1, <2>2, <4>1
    <3>3. \A k \in Slots : status'[k] =>
              hash_value'[k] # 0 \/ \E d \in Cores : cpc'[d] = "sethash" /\ pos'[d] = k
      BY <2>0, <3>1 DEF TableInv, FoundInv
    <3> QED
      BY <3>1, <3>2, <3>3 DEF TableInv, FoundInv
  <2> QED
    BY <2>3, <2>4
<1>4. CASE Begin
  BY <1>4, HashAssumption DEF Begin, ABegin, FoundInv
<1> QED
  BY <1>1, <1>2, <1>3, <1>4, Steps DEF Send, HttpStep, avars

LEMMA TableStays ==
    ASSUME HashesDiffer, OneCoreEach, SType, TableInv, [Next]_vars
    PROVE  TableInv'
<1>1. AType /\ ClaimInv
  BY DEF TableInv
<1>2. AType' /\ ClaimInv'
  BY <1>1, ATypeStays, ClaimStays
<1>3. TriedInv' /\ FoundInv'
  BY <1>2, TriedStays, FoundStays
<1> QED
  BY <1>2, <1>3 DEF TableInv

LEMMA NoneLeaks ==
    ASSUME HashesDiffer, OneCoreEach, RoomForAll, TableInv, NoneLeaked, [Next]_vars
    PROVE  NoneLeaked'
<1>1. CASE UNCHANGED leaked
  BY <1>1 DEF NoneLeaked
<1>2. ASSUME NEW c \in Cores, CoreStep(c)
      PROVE  NoneLeaked'
  <2>0. ~ProbeFull(c)
    BY NeverFull
  <2>1. leaked' = leaked
    BY <1>2, <2>0 DEF CoreStep, Insert, Count, ProbeFree, ProbeSame, ProbeOther, SetHash, SetKey, Lock,
                      Load, StoreMax, StoreRx, Unlock
  <2> QED
    BY <1>1, <2>1
<1> QED
  BY <1>1, <1>2, Steps DEF Send, Receive, Take, Begin, ABegin, HttpStep, avars

\* With one core for each stream, a stream has one slot, however the cores race for the slots; and
\* a table with room for every stream never loses a packet: insert_hash_table() does not fail.
THEOREM TableIsEnough ==
    ASSUME HashesDiffer, OneCoreEach, RoomForAll
    PROVE  Spec => []TableSuffices
<1>1. Init => SType /\ TableInv /\ NoneLeaked
  <2> SUFFICES ASSUME Init PROVE SType /\ TableInv /\ NoneLeaked
    OBVIOUS
  <2>1. SType
    BY DEF Init, SInit, SType
  <2>2. AType
    BY SlotsAssumption DEF Init, AInit, AType, Slots, Handling
  <2>3. ClaimInv /\ TriedInv /\ NoneLeaked
    BY DEF Init, AInit, ClaimInv, TriedInv, NoneLeaked, Claiming
  <2>4. FoundInv
    BY HashAssumption DEF Init, AInit, FoundInv
  <2> QED
    BY <2>1, <2>2, <2>3, <2>4 DEF TableInv
<1>2. SType /\ TableInv /\ NoneLeaked /\ [Next]_vars => (SType /\ TableInv /\ NoneLeaked)'
  BY STypeStays, TableStays, NoneLeaks
<1>3. TableInv /\ NoneLeaked => TableSuffices
  <2> SUFFICES ASSUME TableInv, NoneLeaked PROVE TableSuffices
    OBVIOUS
  <2>2. ASSUME NEW s \in Streams PROVE Cardinality(SlotsOf(s)) <= 1
    <3>1. \A k, l \in SlotsOf(s) : k = l
      BY HashAssumption DEF TableInv, FoundInv, SlotsOf
    <3>2. CASE SlotsOf(s) = {}
      <4>1. Cardinality(SlotsOf(s)) = 0
        BY <3>2, FS_EmptySet
      <4> QED
        BY <4>1
    <3>3. CASE SlotsOf(s) # {}
      <4>1. PICK k : SlotsOf(s) = {k}
        BY <3>1, <3>3
      <4>2. Cardinality(SlotsOf(s)) = 1
        BY <4>1, FS_Singleton
      <4> QED
        BY <4>2
    <3> QED
      BY <3>2, <3>3
  <2> QED
    BY <2>2 DEF TableSuffices, OneSlotPerStream
<1> QED
  BY <1>1, <1>2, <1>3, PTL DEF Spec

-----------------------------------------------------------------------------
(* What the HTTP server reports. *)

HType ==
    /\ rpc \in {"idle", "scan", "rx", "prevrx", "tx", "prevtx"}
    /\ rpc # "idle" => rlink \in Streams
    /\ sm_id \in 0 .. NbSlots
    /\ rpc \notin {"idle", "scan"} => sm_id \in Slots
    /\ seen \in Nat
    /\ stream_prev_rx_pkts \in [Slots -> Nat]
    /\ stream_prev_tx_pkts \in [Slots -> Nat]
    /\ rep_rx \in [Streams -> Nat]
    /\ rep_tx \in [Streams -> Nat]

\* The counter the next report starts from: what was read last, stored or about to be.
PrevRxOf(k) == IF rpc = "prevrx" /\ k = sm_id THEN seen ELSE stream_prev_rx_pkts[k]

\* What a report of each slot would add now.
Unreported == [k \in Slots |-> Growth(rx_pkts[k], PrevRxOf(k))]

\* All that was reported and all that could be reported now was received.
RxInv == SumFunctionOnSet(rep_rx, Streams) + SumFunctionOnSet(Unreported, Slots)
         <= SumFunctionOnSet(processed, Streams)

LEMMA GrowthIsNat ==
    ASSUME NEW a \in Nat, NEW b \in Nat
    PROVE  Growth(a, b) \in Nat /\ Growth(a, a) = 0 /\ Growth(0, b) = 0 /\ Growth(a + 1, b) <= Growth(a, b) + 1
BY DEF Growth

LEMMA HTypeStays ==
    ASSUME AType, HType, [Next]_vars
    PROVE  HType'
<1>1. CASE UNCHANGED hvars
  BY <1>1 DEF hvars, HType
<1>2. CASE HttpStep
  <2>0. NbSlots \in Nat \ {0} /\ 0 \in 0 .. NbSlots
    BY SlotsAssumption
  <2>1. ASSUME NEW s \in Asked, Request(s)
        PROVE  HType'
    BY <2>0, <2>1, AskedAssumption DEF Request, HType
  <2>2. CASE ScanNext
    <3>1. sm_id + 1 \in 0 .. NbSlots
      BY <2>0, <2>2 DEF ScanNext, HType
    <3> QED
      BY <2>2, <3>1 DEF ScanNext, HType
  <2>3. CASE ScanDown
    BY <2>0, <2>3 DEF ScanDown, Done, HType
  <2>4. CASE ScanFound
    <3>1. sm_id \in Slots
      BY <2>0, <2>4 DEF ScanFound, HType, Slots
    <3> QED
      BY <2>4, <3>1 DEF ScanFound, HType
  <2>5. CASE DiffRx
    <3>1. rx_pkts[sm_id] \in Nat /\ stream_prev_rx_pkts[sm_id] \in Nat /\ rlink \in Streams
      BY <2>5 DEF DiffRx, HType, AType
    <3>2. diff_rx_pkts' \in Nat /\ seen' \in Nat
      BY <2>5, <3>1, GrowthIsNat DEF DiffRx
    <3>3. rep_rx' \in [Streams -> Nat]
      BY <2>5, <3>1, <3>2 DEF DiffRx, HType
    <3> QED
      BY <2>5, <3>2, <3>3 DEF DiffRx, HType
  <2>6. CASE PrevRx
    BY <2>6 DEF PrevRx, HType, AType
  <2>7. CASE DiffTx
    <3>1. max_sq[sm_id] \in Nat /\ stream_prev_tx_pkts[sm_id] \in Nat /\ rlink \in Streams
      BY <2>7 DEF DiffTx, HType, AType
    <3>2. GrownTx \in Nat /\ seen' \in Nat
      BY <2>7, <3>1, GrowthIsNat DEF DiffTx, GrownTx
    <3>3. rep_tx' \in [Streams -> Nat]
      BY <2>7, <3>1, <3>2 DEF DiffTx, HType
    <3> QED
      BY <2>7, <3>2, <3>3 DEF DiffTx, HType
  <2>8. CASE PrevTx
    BY <2>0, <2>8 DEF PrevTx, Done, HType, AType
  <2> QED
    BY <1>2, <2>1, <2>2, <2>3, <2>4, <2>5, <2>6, <2>7, <2>8 DEF HttpStep, Report
<1> QED
  BY <1>1, <1>2, Steps DEF Send, Receive, CoreStep, Begin

LEMMA UnreportedIsNat ==
    ASSUME AType, HType
    PROVE  /\ \A k \in Slots : PrevRxOf(k) \in Nat
           /\ \A k \in Slots : Unreported[k] = Growth(rx_pkts[k], PrevRxOf(k)) /\ Unreported[k] \in Nat
           /\ IsFiniteSet(Slots) /\ IsFiniteSet(Streams)
           /\ SumFunctionOnSet(rep_rx, Streams) \in Nat
           /\ SumFunctionOnSet(processed, Streams) \in Nat
           /\ SumFunctionOnSet(Unreported, Slots) \in Nat
<1>1. \A k \in Slots : PrevRxOf(k) \in Nat
  BY DEF PrevRxOf, HType
<1>2. \A k \in Slots : rx_pkts[k] \in Nat
  BY DEF AType
<1>3. \A k \in Slots : Unreported[k] = Growth(rx_pkts[k], PrevRxOf(k)) /\ Unreported[k] \in Nat
  BY <1>1, <1>2, GrowthIsNat DEF Unreported
<1>4. IsFiniteSet(Slots) /\ IsFiniteSet(Streams)
  BY FS_Interval, SlotsAssumption, StreamsAssumption DEF Slots
<1>5. \A s \in Streams : rep_rx[s] \in Nat /\ processed[s] \in Nat
  BY DEF HType, AType
<1> QED
  BY <1>1, <1>3, <1>4, <1>5, SumIsNat

LEMMA UnreportedIsNatNext ==
    ASSUME AType', HType'
    PROVE  /\ \A k \in Slots : PrevRxOf(k)' \in Nat
           /\ \A k \in Slots : Unreported'[k] = Growth(rx_pkts'[k], PrevRxOf(k)') /\ Unreported'[k] \in Nat
           /\ SumFunctionOnSet(Unreported', Slots) \in Nat
<1>1. \A k \in Slots : PrevRxOf(k)' \in Nat
  BY DEF PrevRxOf, HType
<1>2. \A k \in Slots : rx_pkts'[k] \in Nat
  BY DEF AType
<1>3. \A k \in Slots : Unreported'[k] = Growth(rx_pkts'[k], PrevRxOf(k)')
  BY DEF Unreported
<1>4. \A k \in Slots : Unreported'[k] \in Nat
  BY <1>1, <1>2, <1>3, GrowthIsNat
<1>5. IsFiniteSet(Slots)
  BY FS_Interval, SlotsAssumption DEF Slots
<1> QED
  BY <1>1, <1>3, <1>4, <1>5, SumIsNat

\* Nothing more is reported and no slot owes more.
LEMMA OwedNotMore ==
    ASSUME AType, AType', HType, HType', RxInv,
           UNCHANGED <<rep_rx, processed>>,
           \A k \in Slots : Unreported'[k] <= Unreported[k]
    PROVE  RxInv'
<1>1. /\ \A k \in Slots : Unreported[k] \in Nat
      /\ IsFiniteSet(Slots)
      /\ SumFunctionOnSet(rep_rx, Streams) \in Nat
      /\ SumFunctionOnSet(processed, Streams) \in Nat
      /\ SumFunctionOnSet(Unreported, Slots) \in Nat
  BY UnreportedIsNat
<1>2. /\ \A k \in Slots : Unreported'[k] \in Nat
      /\ SumFunctionOnSet(Unreported', Slots) \in Nat
  BY UnreportedIsNatNext
<1>3. PICK u, v : u = Unreported /\ v = Unreported'
  OBVIOUS
<1>4. SumFunctionOnSet(v, Slots) <= SumFunctionOnSet(u, Slots)
  BY <1>1, <1>2, <1>3, SumOfSmaller
<1>5. SumFunctionOnSet(Unreported', Slots) <= SumFunctionOnSet(Unreported, Slots)
  BY <1>3, <1>4
<1>6. /\ SumFunctionOnSet(rep_rx', Streams) = SumFunctionOnSet(rep_rx, Streams)
      /\ SumFunctionOnSet(processed', Streams) = SumFunctionOnSet(processed, Streams)
  OBVIOUS
<1>7. SumFunctionOnSet(rep_rx, Streams) + SumFunctionOnSet(Unreported, Slots)
      <= SumFunctionOnSet(processed, Streams)
  BY DEF RxInv
<1> QED
  BY <1>1, <1>2, <1>5, <1>6, <1>7 DEF RxInv

\* The counter of one slot grows by the packet that is counted.
LEMMA RxCounted ==
    ASSUME AType, AType', HType, HType', LockInv, RxInv, NEW c \in Cores, StoreRx(c), UNCHANGED hvars
    PROVE  RxInv'
<1>1. PICK k \in Slots, s \in Streams : k = pos[c] /\ s = pkt[c].sm
  BY DEF StoreRx, AType, Packets
<1>2. /\ rx_pkts'[k] = rx_pkts[k] + 1
      /\ \A l \in Slots \ {k} : rx_pkts'[l] = rx_pkts[l]
      /\ processed'[s] = processed[s] + 1
      /\ \A t \in Streams \ {s} : processed'[t] = processed[t]
      /\ \A l \in Slots : PrevRxOf(l)' = PrevRxOf(l)
      /\ rep_rx' = rep_rx
  BY <1>1 DEF StoreRx, AType, LockInv, PrevRxOf, hvars
<1>3. /\ \A l \in Slots : /\ PrevRxOf(l) \in Nat /\ Unreported[l] \in Nat
                          /\ Unreported[l] = Growth(rx_pkts[l], PrevRxOf(l))
      /\ IsFiniteSet(Slots) /\ IsFiniteSet(Streams)
      /\ SumFunctionOnSet(rep_rx, Streams) \in Nat
      /\ SumFunctionOnSet(processed, Streams) \in Nat
      /\ SumFunctionOnSet(Unreported, Slots) \in Nat
  BY UnreportedIsNat
<1>4. /\ \A l \in Slots : Unreported'[l] = Growth(rx_pkts'[l], PrevRxOf(l)') /\ Unreported'[l] \in Nat
      /\ SumFunctionOnSet(Unreported', Slots) \in Nat
  BY UnreportedIsNatNext
<1>5. SumFunctionOnSet(processed', Streams) = SumFunctionOnSet(processed, Streams) + 1
  <2>1. \A t \in Streams : processed[t] \in Nat /\ processed'[t] \in Nat
    BY DEF AType
  <2>2. SumFunctionOnSet(processed', Streams) = SumFunctionOnSet(processed, Streams) + (processed'[s] - processed[s])
    BY <1>2, <1>3, <2>1, SumOfChanged
  <2>3. processed'[s] - processed[s] = 1
    BY <1>2, <2>1
  <2> QED
    BY <2>2, <2>3
<1>6. SumFunctionOnSet(Unreported', Slots) <= SumFunctionOnSet(Unreported, Slots) + 1
  <2>1. PICK u, v : u = Unreported /\ v = Unreported'
    OBVIOUS
  <2>2. \A l \in Slots : u[l] \in Nat /\ v[l] \in Nat
    BY <1>3, <1>4, <2>1
  <2>3. \A l \in Slots \ {k} : v[l] = u[l]
    BY <1>2, <1>3, <1>4, <2>1
  <2>4. SumFunctionOnSet(v, Slots) = SumFunctionOnSet(u, Slots) + (v[k] - u[k])
    BY <1>3, <2>2, <2>3, SumOfChanged
  <2>5. v[k] <= u[k] + 1
    <3>1. rx_pkts[k] \in Nat /\ PrevRxOf(k) \in Nat
      BY <1>3 DEF AType
    <3>2. v[k] = Growth(rx_pkts[k] + 1, PrevRxOf(k)) /\ u[k] = Growth(rx_pkts[k], PrevRxOf(k))
      BY <1>2, <1>3, <1>4, <2>1
    <3> QED
      BY <3>1, <3>2, GrowthIsNat
  <2>6. SumFunctionOnSet(u, Slots) \in Nat
    BY <1>3, <2>1
  <2>7. SumFunctionOnSet(v, Slots) <= SumFunctionOnSet(u, Slots) + 1
    BY <2>2, <2>4, <2>5, <2>6
  <2> QED
    BY <2>1, <2>7
<1>7. SumFunctionOnSet(rep_rx, Streams) + SumFunctionOnSet(Unreported, Slots)
      <= SumFunctionOnSet(processed, Streams)
  BY DEF RxInv
<1>8. SumFunctionOnSet(rep_rx', Streams) = SumFunctionOnSet(rep_rx, Streams)
  BY <1>2
<1> QED
  BY <1>3, <1>4, <1>5, <1>6, <1>7, <1>8 DEF RxInv

\* What a report adds the slot does not owe any more.
LEMMA RxReported ==
    ASSUME AType, AType', HType, HType', RxInv, DiffRx, UNCHANGED avars
    PROVE  RxInv'
<1>1. PICK k \in Slots, s \in Streams : k = sm_id /\ s = rlink
  BY DEF DiffRx, HType
<1>2. PICK g : g = Growth(rx_pkts[k], stream_prev_rx_pkts[k])
  OBVIOUS
<1>3. /\ rep_rx'[s] = rep_rx[s] + g
      /\ \A t \in Streams \ {s} : rep_rx'[t] = rep_rx[t]
      /\ processed' = processed /\ rx_pkts' = rx_pkts
      /\ PrevRxOf(k) = stream_prev_rx_pkts[k] /\ PrevRxOf(k)' = rx_pkts[k]
      /\ \A l \in Slots \ {k} : PrevRxOf(l)' = PrevRxOf(l)
  BY <1>1, <1>2 DEF DiffRx, HType, PrevRxOf, avars
<1>4. /\ \A l \in Slots : /\ PrevRxOf(l) \in Nat /\ Unreported[l] \in Nat
                          /\ Unreported[l] = Growth(rx_pkts[l], PrevRxOf(l))
      /\ IsFiniteSet(Slots) /\ IsFiniteSet(Streams)
      /\ SumFunctionOnSet(rep_rx, Streams) \in Nat
      /\ SumFunctionOnSet(processed, Streams) \in Nat
      /\ SumFunctionOnSet(Unreported, Slots) \in Nat
  BY UnreportedIsNat
<1>5. /\ \A l \in Slots : Unreported'[l] = Growth(rx_pkts'[l], PrevRxOf(l)') /\ Unreported'[l] \in Nat
      /\ SumFunctionOnSet(Unreported', Slots) \in Nat
  BY UnreportedIsNatNext
<1>6. g \in Nat /\ Growth(rx_pkts[k], rx_pkts[k]) = 0
  BY <1>2, GrowthIsNat DEF AType, HType
<1>7. SumFunctionOnSet(rep_rx', Streams) = SumFunctionOnSet(rep_rx, Streams) + g
  <2>1. \A t \in Streams : rep_rx[t] \in Nat /\ rep_rx'[t] \in Nat
    BY DEF HType
  <2>2. SumFunctionOnSet(rep_rx', Streams) = SumFunctionOnSet(rep_rx, Streams) + (rep_rx'[s] - rep_rx[s])
    BY <1>3, <1>4, <2>1, SumOfChanged
  <2>3. rep_rx'[s] - rep_rx[s] = g
    BY <1>3, <1>6, <2>1
  <2> QED
    BY <2>2, <2>3
<1>8. SumFunctionOnSet(Unreported', Slots) = SumFunctionOnSet(Unreported, Slots) - g
  <2>1. PICK u, v : u = Unreported /\ v = Unreported'
    OBVIOUS
  <2>2. \A l \in Slots : u[l] \in Nat /\ v[l] \in Nat
    BY <1>4, <1>5, <2>1
  <2>3. \A l \in Slots \ {k} : v[l] = u[l]
    BY <1>3, <1>4, <1>5, <2>1
  <2>4. SumFunctionOnSet(v, Slots) = SumFunctionOnSet(u, Slots) + (v[k] - u[k])
    BY <1>4, <2>2, <2>3, SumOfChanged
  <2>5. v[k] = 0 /\ u[k] = g
    BY <1>2, <1>3, <1>4, <1>5, <1>6, <2>1
  <2>6. SumFunctionOnSet(u, Slots) \in Nat
    BY <1>4, <2>1
  <2>7. SumFunctionOnSet(v, Slots) = SumFunctionOnSet(u, Slots) - g
    BY <1>6, <2>4, <2>5, <2>6
  <2> QED
    BY <2>1, <2>7
<1>9. SumFunctionOnSet(rep_rx, Streams) + SumFunctionOnSet(Unreported, Slots)
      <= SumFunctionOnSet(processed, Streams)
  BY DEF RxInv
<1>10. SumFunctionOnSet(processed', Streams) = SumFunctionOnSet(processed, Streams)
  BY <1>3
<1> QED
  BY <1>4, <1>5, <1>6, <1>7, <1>8, <1>9, <1>10 DEF RxInv

LEMMA RxStays ==
    ASSUME AType, AType', HType, HType', LockInv, RxInv, [Next]_vars
    PROVE  RxInv'
<1>0. \A k \in Slots : /\ rx_pkts[k] \in Nat /\ PrevRxOf(k) \in Nat
                       /\ Unreported[k] = Growth(rx_pkts[k], PrevRxOf(k)) /\ Unreported[k] \in Nat
                       /\ Unreported'[k] = Growth(rx_pkts'[k], PrevRxOf(k)')
  BY UnreportedIsNat, UnreportedIsNatNext DEF AType
<1>1. CASE UNCHANGED <<rx_pkts, processed, rep_rx>> /\ \A k \in Slots : PrevRxOf(k)' = PrevRxOf(k)
  <2>1. \A k \in Slots : Unreported'[k] <= Unreported[k]
    BY <1>0, <1>1
  <2> QED
    BY <1>1, <2>1, OwedNotMore
<1>2. ASSUME NEW c \in Cores, CoreStep(c)
      PROVE  RxInv'
  <2>1. CASE StoreRx(c)
    BY <1>2, <2>1, RxCounted DEF CoreStep
  <2>2. CASE ~StoreRx(c)
    <3>1. UNCHANGED <<rx_pkts, processed, hvars>>
      BY <1>2, <2>2 DEF CoreStep, Insert, Count, ProbeFree, ProbeSame, ProbeOther, ProbeFull, SetHash, SetKey, Lock,
                        Load, StoreMax, Unlock
    <3>2. UNCHANGED rep_rx /\ \A k \in Slots : PrevRxOf(k)' = PrevRxOf(k)
      BY <3>1 DEF hvars, PrevRxOf
    <3> QED
      BY <1>1, <3>1, <3>2
  <2> QED
    BY <2>1, <2>2
<1>3. CASE Begin
  <2>1. /\ \A k \in Slots : rx_pkts'[k] = 0 /\ PrevRxOf(k)' = PrevRxOf(k)
        /\ UNCHANGED <<rep_rx, processed>>
    BY <1>3 DEF Begin, ABegin, hvars, PrevRxOf
  <2>2. \A k \in Slots : Unreported'[k] <= Unreported[k]
    <3> SUFFICES ASSUME NEW k \in Slots PROVE Unreported'[k] <= Unreported[k]
      OBVIOUS
    <3>1. Unreported'[k] = 0
      BY <1>0, <2>1, GrowthIsNat
    <3> QED
      BY <1>0, <3>1
  <2> QED
    BY <2>1, <2>2, OwedNotMore
<1>4. CASE HttpStep
  <2>0. UNCHANGED avars /\ UNCHANGED <<rx_pkts, processed>>
    BY <1>4 DEF HttpStep, avars
  <2>1. CASE DiffRx
    BY <2>0, <2>1, RxReported
  <2>2. CASE PrevRx
    <3>1. PICK v \in {seen, rx_pkts[sm_id]} :
              stream_prev_rx_pkts' = [stream_prev_rx_pkts EXCEPT ![sm_id] = v]
      BY <2>2 DEF PrevRx
    <3>2. /\ rpc = "prevrx" /\ rpc' = "tx" /\ sm_id \in Slots /\ rep_rx' = rep_rx
          /\ PrevRxOf(sm_id) = seen
      BY <2>2 DEF PrevRx, HType, PrevRxOf
    <3>3. PICK j \in Slots : j = sm_id
      BY <3>2
    <3>4. PrevRxOf(j)' = v /\ \A k \in Slots \ {j} : PrevRxOf(k)' = PrevRxOf(k)
      BY <3>1, <3>2, <3>3 DEF PrevRxOf, HType
    <3>5. \A k \in Slots : Unreported'[k] <= Unreported[k]
      <4> SUFFICES ASSUME NEW k \in Slots PROVE Unreported'[k] <= Unreported[k]
        OBVIOUS
      <4>1. CASE k # j
        BY <1>0, <2>0, <3>4, <4>1
      <4>2. CASE k = j /\ v = seen
        BY <1>0, <2>0, <3>2, <3>3, <3>4, <4>2
      <4>3. CASE k = j /\ v = rx_pkts[k]
        <5>1. Unreported'[k] = Growth(rx_pkts[k], rx_pkts[k]) /\ rx_pkts[k] \in Nat
          BY <1>0, <2>0, <3>4, <4>3
        <5>2. Unreported'[k] = 0
          BY <5>1, GrowthIsNat
        <5> QED
          BY <1>0, <5>2
      <4> QED
        BY <3>1, <3>3, <4>1, <4>2, <4>3
    <3> QED
      BY <2>0, <3>2, <3>5, OwedNotMore
  <2>3. CASE ~DiffRx /\ ~PrevRx
    <3>1. rep_rx' = rep_rx /\ \A k \in Slots : PrevRxOf(k)' = PrevRxOf(k)
      BY <1>4, <2>3 DEF HttpStep, Report, Request, ScanNext, ScanDown, ScanFound, DiffTx, PrevTx, Done, PrevRxOf
    <3> QED
      BY <1>1, <2>0, <3>1
  <2> QED
    BY <2>1, <2>2, <2>3
<1>5. CASE UNCHANGED <<hvars, avars>>
  <2>1. UNCHANGED <<rx_pkts, processed, rep_rx>> /\ \A k \in Slots : PrevRxOf(k)' = PrevRxOf(k)
    BY <1>5 DEF hvars, avars, PrevRxOf
  <2> QED
    BY <1>1, <2>1
<1>6. ASSUME NEW c \in Cores, Receive(c)
      PROVE  RxInv'
  <2>1. UNCHANGED <<rx_pkts, processed, rep_rx>> /\ \A k \in Slots : PrevRxOf(k)' = PrevRxOf(k)
    BY <1>6 DEF Receive, Take, hvars, PrevRxOf
  <2> QED
    BY <1>1, <2>1
<1> QED
  BY <1>2, <1>3, <1>4, <1>5, <1>6, Steps DEF Send

\* What all reports of the HTTP server add up to was really received: over restarts of the
\* engine, slots that change their stream and counters that are read while they are written, a
\* packet is never reported twice.
THEOREM ReportedWasReceived == Spec => []ReportedReceivedIsReal
<1> DEFINE RInv == SType /\ AType /\ HType /\ LockInv /\ RxInv
<1>1. Init => RInv
  <2> SUFFICES ASSUME Init PROVE RInv
    OBVIOUS
  <2>1. SType
    BY DEF Init, SInit, SType
  <2>2. AType
    BY SlotsAssumption DEF Init, AInit, AType, Slots, Handling
  <2>3. HType
    BY SlotsAssumption DEF Init, HInit, HType
  <2>4. LockInv
    BY DEF Init, AInit, LockInv, Inside
  <2>5. RxInv
    <3>1. \A k \in Slots : Unreported[k] = 0
      <4>1. \A k \in Slots : rx_pkts[k] = 0 /\ PrevRxOf(k) = 0
        BY DEF Init, AInit, HInit, PrevRxOf
      <4> QED
        BY <4>1, GrowthIsNat DEF Unreported
    <3>2. rep_rx = processed
      BY DEF Init, AInit, HInit
    <3>3. SumFunctionOnSet(Unreported, Slots) = 0
      <4>1. IsFiniteSet(Slots)
        BY FS_Interval, SlotsAssumption DEF Slots
      <4> QED
        BY <3>1, <4>1, SumOfZeros
    <3>4. SumFunctionOnSet(rep_rx, Streams) \in Nat
      BY <2>2, <2>3, UnreportedIsNat
    <3> QED
      BY <3>2, <3>3, <3>4 DEF RxInv
  <2> QED
    BY <2>1, <2>2, <2>3, <2>4, <2>5
<1>2. RInv /\ [Next]_vars => RInv'
  BY STypeStays, ATypeStays, HTypeStays, LockStays, RxStays
<1>3. RInv => ReportedReceivedIsReal
  <2> SUFFICES ASSUME RInv PROVE ReportedReceivedIsReal
    OBVIOUS
  <2>1. /\ SumFunctionOnSet(rep_rx, Streams) \in Nat
        /\ SumFunctionOnSet(processed, Streams) \in Nat
        /\ SumFunctionOnSet(Unreported, Slots) \in Nat
    BY UnreportedIsNat
  <2> QED
    BY <2>1 DEF RxInv, ReportedReceivedIsReal
<1> HIDE DEF RInv
<1> QED
  BY <1>1, <1>2, <1>3, PTL DEF Spec

-----------------------------------------------------------------------------
(* What was reported as sent. *)

\* The value of max_sq the next report starts from.
PrevTxOf(k) == IF rpc = "prevtx" /\ k = sm_id THEN seen ELSE stream_prev_tx_pkts[k]

\* While the engine has not been restarted, a slot keeps the stream whose key it has: what was
\* reported of the stream is not more than the slot's previous value, that is not more than its
\* max_sq, and max_sq is a number the sender has taken.
KeyedInv == begins = 0 =>
    /\ \A k \in Slots : hash_value[k] = 0 => max_sq[k] = 0
    /\ \A k \in Slots : key[k] = NoStream => stream_prev_tx_pkts[k] = 0
    /\ \A k \in Slots, s \in Streams : hash_value[k] = HashOf(s) => max_sq[k] < streams_sequences[s]
    /\ \A k \in Slots, s \in Streams : key[k] = s =>
          hash_value[k] = HashOf(s) /\ rep_tx[s] <= PrevTxOf(k) /\ PrevTxOf(k) <= max_sq[k]
    /\ \A s \in Streams : (\A k \in Slots : key[k] # s) => rep_tx[s] = 0
    /\ \A c \in Cores : cpc[c] \in {"sethash", "setkey"} => key[pos[c]] = NoStream
    /\ rpc \notin {"idle", "scan"} => key[sm_id] = rlink

BType == begins \in Nat

\* Everything KeyedInv speaks of stays as it is, except what a step of its own changes.
LEMMA KeyedUnchanged ==
    ASSUME KeyedInv, SType, SType', AType,
           UNCHANGED <<hash_value, max_sq, key, stream_prev_tx_pkts, rep_tx>>, begins' = 0 => begins = 0,
           \A s \in Streams : streams_sequences[s] <= streams_sequences'[s],
           \A k \in Slots : PrevTxOf(k)' = PrevTxOf(k),
           \A c \in Cores : cpc'[c] \in {"sethash", "setkey"} => cpc[c] \in {"sethash", "setkey"} /\ pos'[c] = pos[c],
           rpc' \notin {"idle", "scan"} => rpc \notin {"idle", "scan"} /\ rlink' = rlink /\ sm_id' = sm_id
    PROVE  KeyedInv'
<1> SUFFICES ASSUME begins' = 0 PROVE KeyedInv'
  BY DEF KeyedInv
<1>0. begins = 0
  OBVIOUS
<1>1. /\ \A k \in Slots : hash_value'[k] = 0 => max_sq'[k] = 0
      /\ \A k \in Slots : key'[k] = NoStream => stream_prev_tx_pkts'[k] = 0
  BY <1>0 DEF KeyedInv
<1>2. ASSUME NEW k \in Slots, NEW s \in Streams, hash_value'[k] = HashOf(s)
      PROVE  max_sq'[k] < streams_sequences'[s]
  <2>1. max_sq[k] < streams_sequences[s] /\ max_sq'[k] = max_sq[k]
    BY <1>0, <1>2 DEF KeyedInv
  <2>2. max_sq[k] \in Nat /\ streams_sequences[s] \in Nat /\ streams_sequences'[s] \in Nat
    BY DEF AType, SType
  <2>3. streams_sequences[s] <= streams_sequences'[s]
    OBVIOUS
  <2> QED
    BY <2>1, <2>2, <2>3
<1>3. \A k \in Slots, s \in Streams : key'[k] = s =>
          hash_value'[k] = HashOf(s) /\ rep_tx'[s] <= PrevTxOf(k)' /\ PrevTxOf(k)' <= max_sq'[k]
  BY <1>0 DEF KeyedInv
<1>4. \A s \in Streams : (\A k \in Slots : key'[k] # s) => rep_tx'[s] = 0
  BY <1>0 DEF KeyedInv
<1>5. \A c \in Cores : cpc'[c] \in {"sethash", "setkey"} => key'[pos'[c]] = NoStream
  BY <1>0 DEF KeyedInv
<1>6. rpc' \notin {"idle", "scan"} => key'[sm_id'] = rlink'
  BY <1>0 DEF KeyedInv
<1> QED
  BY <1>1, <1>2, <1>3, <1>4, <1>5, <1>6 DEF KeyedInv

LEMMA KeyedByCore ==
    ASSUME HashesDiffer, OneCoreEach, KeyedInv, SType, AType, AType', HType, OnePlace, TableInv, LockInv,
           NEW c \in Cores, CoreStep(c)
    PROVE  KeyedInv'
<1> SUFFICES ASSUME begins' = 0 PROVE KeyedInv'
  BY DEF KeyedInv
<1>0. /\ begins = 0
      /\ UNCHANGED <<streams_sequences, stream_prev_tx_pkts, rep_tx, rpc, rlink, sm_id, seen>>
      /\ \A k \in Slots : PrevTxOf(k)' = PrevTxOf(k)
  BY DEF CoreStep, svars, hvars, PrevTxOf
<1>1. /\ \A k \in Slots : hash_value[k] = 0 => max_sq[k] = 0
      /\ \A k \in Slots : key[k] = NoStream => stream_prev_tx_pkts[k] = 0
      /\ \A k \in Slots, s \in Streams : hash_value[k] = HashOf(s) => max_sq[k] < streams_sequences[s]
      /\ \A k \in Slots, s \in Streams : key[k] = s =>
            hash_value[k] = HashOf(s) /\ rep_tx[s] <= PrevTxOf(k) /\ PrevTxOf(k) <= max_sq[k]
      /\ \A s \in Streams : (\A k \in Slots : key[k] # s) => rep_tx[s] = 0
      /\ \A d \in Cores : cpc[d] \in {"sethash", "setkey"} => key[pos[d]] = NoStream
      /\ rpc \notin {"idle", "scan"} => key[sm_id] = rlink
  BY <1>0 DEF KeyedInv
<1>2. \A d \in Cores \ {c} : cpc'[d] = cpc[d] /\ pkt'[d] = pkt[d] /\ pos'[d] = pos[d]
  BY OthersStay
<1>3. \A s \in Streams : HashOf(s) # 0
  BY HashAssumption
<1>4. CASE ProbeFree(c)
  <2>1. Probed(c) \in Slots
    BY <1>4, SlotIsProbed DEF ProbeFree
  <2>2. /\ cpc'[c] = "sethash" /\ pos'[c] = Probed(c) /\ hash_value[Probed(c)] = 0
        /\ UNCHANGED <<hash_value, max_sq, key>>
    BY <1>4, <2>1 DEF ProbeFree, AType, TableInv, ClaimInv
  <2>3. key[Probed(c)] = NoStream
    BY <1>1, <1>3, <2>1, <2>2 DEF AType
  <2>4. \A d \in Cores : cpc'[d] \in {"sethash", "setkey"} => key'[pos'[d]] = NoStream
    BY <1>1, <1>2, <2>2, <2>3
  <2> QED
    BY <1>0, <1>1, <2>2, <2>4 DEF KeyedInv
<1>5. CASE SetHash(c)
  <2>1. PICK l \in Slots, t \in Streams : l = pos[c] /\ t = pkt[c].sm
    BY <1>5 DEF SetHash, AType, Packets
  <2>2. /\ cpc[c] = "sethash" /\ cpc'[c] = "setkey" /\ UNCHANGED <<pos, key, max_sq>>
        /\ hash_value[l] = 0 /\ hash_value'[l] = HashOf(t)
        /\ \A k \in Slots \ {l} : hash_value'[k] = hash_value[k]
    BY <1>5, <2>1 DEF SetHash, AType, TableInv, ClaimInv
  <2>3. max_sq[l] = 0 /\ key[l] = NoStream
    BY <1>1, <2>1, <2>2
  <2>4. streams_sequences[t] > 0
    <3>1. pkt[c].sq < FirstUnsent(t) /\ pkt[c].sq \in Nat
      BY <2>1, <2>2 DEF OnePlace, InHand, Handling, AType, Packets
    <3>2. FirstUnsent(t) <= streams_sequences[t] /\ streams_sequences[t] \in Nat /\ FirstUnsent(t) \in Int
      <4>1. Len(pkts_burst) \in Nat /\ streams_sequences[t] \in Nat
        BY DEF SType
      <4> QED
        BY <4>1 DEF FirstUnsent
    <3> QED
      BY <3>1, <3>2
  <2>5. ASSUME NEW k \in Slots, NEW s \in Streams, hash_value'[k] = HashOf(s)
        PROVE  max_sq'[k] < streams_sequences'[s]
    <3>1. CASE k = l
      <4>1. s = t
        BY <2>2, <2>5, <3>1 DEF HashesDiffer
      <4> QED
        BY <1>0, <2>2, <2>3, <2>4, <3>1, <4>1
    <3>2. CASE k # l
      BY <1>0, <1>1, <2>2, <2>5, <3>2
    <3> QED
      BY <3>1, <3>2
  <2>6. \A k \in Slots, s \in Streams : key[k] = s => k # l
    BY <2>3, StreamsAssumption
  <2>7. \A k \in Slots : hash_value'[k] = 0 => max_sq'[k] = 0
    BY <1>1, <2>2, <2>3
  <2>8. \A d \in Cores : cpc'[d] \in {"sethash", "setkey"} => key'[pos'[d]] = NoStream
    BY <1>1, <1>2, <2>1, <2>2, <2>3
  <2>9. \A k \in Slots, s \in Streams : key'[k] = s =>
            hash_value'[k] = HashOf(s) /\ rep_tx'[s] <= PrevTxOf(k)' /\ PrevTxOf(k)' <= max_sq'[k]
    BY <1>0, <1>1, <2>2, <2>6
  <2> QED
    BY <1>0, <1>1, <2>2, <2>5, <2>7, <2>8, <2>9 DEF KeyedInv
<1>6. CASE SetKey(c)
  <2>1. PICK l \in Slots, t \in Streams : l = pos[c] /\ t = pkt[c].sm
    BY <1>6 DEF SetKey, AType, Packets
  <2>2. /\ cpc[c] = "setkey" /\ cpc'[c] = "lock" /\ UNCHANGED <<pos, hash_value, max_sq>>
        /\ key[l] = NoStream /\ key'[l] = t
        /\ \A k \in Slots \ {l} : key'[k] = key[k]
    BY <1>1, <1>6, <2>1 DEF SetKey, AType
  <2>3. hash_value[l] = HashOf(t)
    BY <2>1, <2>2 DEF TableInv, ClaimInv, Claiming
  <2>4. \A k \in Slots : key[k] # t
    <3> SUFFICES ASSUME NEW k \in Slots, key[k] = t PROVE FALSE
      OBVIOUS
    <3>1. hash_value[k] = HashOf(t)
      BY <1>1
    <3>2. k = l
      BY <1>3, <2>3, <3>1 DEF TableInv, FoundInv
    <3> QED
      BY <2>2, <3>2, StreamsAssumption
  <2>5. rep_tx[t] = 0
    BY <1>1, <2>4
  <2>6. PrevTxOf(l) = 0
    <3>1. ~(rpc = "prevtx" /\ l = sm_id)
      BY <1>1, <2>2, StreamsAssumption DEF HType
    <3> QED
      BY <1>1, <2>2, <3>1 DEF PrevTxOf
  <2>7. ASSUME NEW k \in Slots, NEW s \in Streams, key'[k] = s
        PROVE  hash_value'[k] = HashOf(s) /\ rep_tx'[s] <= PrevTxOf(k)' /\ PrevTxOf(k)' <= max_sq'[k]
    <3>1. CASE k = l
      <4>1. s = t
        BY <2>2, <2>7, <3>1
      <4>2. max_sq[l] \in Nat
        BY DEF AType
      <4>3. rep_tx'[s] = 0 /\ PrevTxOf(k)' = 0 /\ max_sq'[k] = max_sq[l] /\ hash_value'[k] = HashOf(s)
        BY <1>0, <2>2, <2>3, <2>5, <2>6, <3>1, <4>1
      <4> QED
        BY <4>2, <4>3
    <3>2. CASE k # l
      BY <1>0, <1>1, <2>2, <2>7, <3>2
    <3> QED
      BY <3>1, <3>2
  <2>8. ASSUME NEW s \in Streams, \A k \in Slots : key'[k] # s
        PROVE  rep_tx'[s] = 0
    <3>1. \A k \in Slots : key[k] # s
      BY <2>2, <2>8, StreamsAssumption
    <3> QED
      BY <1>0, <1>1, <3>1
  <2>9. ASSUME NEW d \in Cores, cpc'[d] \in {"sethash", "setkey"}
        PROVE  key'[pos'[d]] = NoStream
    <3>1. d # c /\ cpc[d] \in {"sethash", "setkey"} /\ pos'[d] = pos[d] /\ key[pos[d]] = NoStream /\ pos[d] \in Slots
      BY <1>1, <1>2, <2>2, <2>9 DEF AType
    <3>2. pos[d] # l
      <4>1. HashOf(pkt[d].sm) # HashOf(t)
        BY <2>1, <2>2, <3>1, StreamsDiffer DEF TableInv
      <4>2. cpc[d] = "sethash" => hash_value[pos[d]] = 0
        BY DEF TableInv, ClaimInv
      <4>3. cpc[d] = "setkey" => hash_value[pos[d]] = HashOf(pkt[d].sm)
        BY DEF TableInv, ClaimInv, Claiming
      <4> QED
        BY <1>3, <2>3, <3>1, <4>1, <4>2, <4>3
    <3> QED
      BY <2>2, <3>1, <3>2
  <2>10. rpc' \notin {"idle", "scan"} => key'[sm_id'] = rlink'
    <3> SUFFICES ASSUME rpc \notin {"idle", "scan"} PROVE key'[sm_id] = rlink
      BY <1>0
    <3>1. key[sm_id] = rlink /\ rlink \in Streams /\ sm_id \in Slots
      BY <1>1 DEF HType
    <3> QED
      BY <2>2, <3>1, StreamsAssumption
  <2>11. \A k \in Slots : key'[k] = NoStream => stream_prev_tx_pkts'[k] = 0
    BY <1>0, <1>1, <2>2, StreamsAssumption
  <2> QED
    BY <1>0, <1>1, <2>2, <2>7, <2>8, <2>9, <2>10, <2>11 DEF KeyedInv
<1>7. CASE StoreMax(c)
  <2>1. PICK l \in Slots, t \in Streams : l = pos[c] /\ t = pkt[c].sm
    BY <1>7 DEF StoreMax, AType, Packets
  <2>2. /\ cpc[c] = "max" /\ cpc'[c] = "rx" /\ UNCHANGED <<pos, hash_value, key>>
        /\ max_sq'[l] = NewMax(c) /\ loaded[c].max = max_sq[l]
        /\ \A k \in Slots \ {l} : max_sq'[k] = max_sq[k]
        /\ hash_value[l] = HashOf(t)
    BY <1>7, <2>1 DEF StoreMax, AType, LockInv, TableInv, ClaimInv, Claiming
  <2>3. pkt[c].sq < streams_sequences[t] /\ pkt[c].sq \in Nat /\ max_sq[l] < streams_sequences[t] /\ max_sq[l] \in Nat
    <3>1. pkt[c].sq < FirstUnsent(t) /\ pkt[c].sq \in Nat
      BY <2>1, <2>2 DEF OnePlace, InHand, Handling, AType, Packets
    <3>2. FirstUnsent(t) <= streams_sequences[t] /\ streams_sequences[t] \in Nat /\ FirstUnsent(t) \in Int
      <4>1. Len(pkts_burst) \in Nat /\ streams_sequences[t] \in Nat
        BY DEF SType
      <4> QED
        BY <4>1 DEF FirstUnsent
    <3>3. max_sq[l] < streams_sequences[t] /\ max_sq[l] \in Nat
      BY <1>1, <2>2 DEF AType
    <3> QED
      BY <3>1, <3>2, <3>3
  <2>4. NewMax(c) < streams_sequences[t] /\ max_sq[l] <= NewMax(c) /\ NewMax(c) \in Nat
    BY <2>2, <2>3 DEF NewMax
  <2>5. ASSUME NEW k \in Slots, NEW s \in Streams, hash_value'[k] = HashOf(s)
        PROVE  max_sq'[k] < streams_sequences'[s]
    <3>1. CASE k = l
      <4>1. s = t
        BY <2>2, <2>5, <3>1 DEF HashesDiffer
      <4> QED
        BY <1>0, <2>2, <2>4, <3>1, <4>1
    <3>2. CASE k # l
      BY <1>0, <1>1, <2>2, <2>5, <3>2
    <3> QED
      BY <3>1, <3>2
  <2>6. \A k \in Slots : hash_value'[k] = 0 => max_sq'[k] = 0
    BY <1>1, <1>3, <2>2
  <2>7. \A k \in Slots : max_sq[k] \in Nat /\ max_sq'[k] \in Nat /\ max_sq[k] <= max_sq'[k] /\ PrevTxOf(k) \in Nat
    BY <2>2, <2>4 DEF AType, HType, PrevTxOf
  <2>8. \A k \in Slots, s \in Streams : key'[k] = s =>
            hash_value'[k] = HashOf(s) /\ rep_tx'[s] <= PrevTxOf(k)' /\ PrevTxOf(k)' <= max_sq'[k]
    <3> SUFFICES ASSUME NEW k \in Slots, NEW s \in Streams, key'[k] = s
                 PROVE  hash_value'[k] = HashOf(s) /\ rep_tx'[s] <= PrevTxOf(k)' /\ PrevTxOf(k)' <= max_sq'[k]
      OBVIOUS
    <3>1. hash_value[k] = HashOf(s) /\ rep_tx[s] <= PrevTxOf(k) /\ PrevTxOf(k) <= max_sq[k]
      BY <1>1, <2>2
    <3>2. PrevTxOf(k) <= max_sq'[k]
      BY <2>7, <3>1
    <3> QED
      BY <1>0, <2>2, <3>1, <3>2
  <2>9. \A d \in Cores : cpc'[d] \in {"sethash", "setkey"} => key'[pos'[d]] = NoStream
    BY <1>1, <1>2, <2>2
  <2> QED
    BY <1>0, <1>1, <2>2, <2>5, <2>6, <2>8, <2>9 DEF KeyedInv
<1>8. CASE ~ProbeFree(c) /\ ~SetHash(c) /\ ~SetKey(c) /\ ~StoreMax(c)
  <2>1. UNCHANGED <<hash_value, max_sq, key>>
    BY <1>8 DEF CoreStep, Insert, Count, ProbeSame, ProbeOther, ProbeFull, Lock, Load, StoreRx, Unlock
  <2>2. cpc'[c] \notin {"sethash", "setkey"}
    BY <1>8 DEF CoreStep, Insert, Count, ProbeSame, ProbeOther, ProbeFull, Lock, Load, StoreRx, Unlock, AType
  <2>3. \A d \in Cores : cpc'[d] \in {"sethash", "setkey"} => key'[pos'[d]] = NoStream
    BY <1>1, <1>2, <2>1, <2>2
  <2> QED
    BY <1>0, <1>1, <2>1, <2>3 DEF KeyedInv
<1> QED
  BY <1>4, <1>5, <1>6, <1>7, <1>8

LEMMA KeyedByHttp ==
    ASSUME KeyedInv, SType, SType', AType, HType, TableInv, HttpStep
    PROVE  KeyedInv'
<1>0. UNCHANGED <<hash_value, max_sq, key, begins, cpc, pos>>
  BY DEF HttpStep, avars
<1>a. \A s \in Streams : streams_sequences[s] \in Nat
  BY DEF SType
<1>b. UNCHANGED streams_sequences
  BY DEF HttpStep, Report, Request, ScanNext, ScanDown, ScanFound, DiffRx, PrevRx, DiffTx, PrevTx, svars
<1>1. CASE DiffTx
  <2> SUFFICES ASSUME begins = 0 PROVE KeyedInv'
    BY <1>0 DEF KeyedInv
  <2>1. PICK l \in Slots, t \in Streams : l = sm_id /\ t = rlink
    BY <1>1 DEF DiffTx, HType
  <2>2. /\ rpc = "tx" /\ rpc' = "prevtx" /\ UNCHANGED <<rlink, sm_id, stream_prev_tx_pkts>>
        /\ seen' = max_sq[l]
        /\ rep_tx'[t] = rep_tx[t] + Growth(max_sq[l], stream_prev_tx_pkts[l])
        /\ \A s \in Streams \ {t} : rep_tx'[s] = rep_tx[s]
    BY <1>1, <2>1 DEF DiffTx, HType, GrownTx
  <2>3. key[l] = t
    BY <2>1, <2>2 DEF KeyedInv
  <2>4. /\ max_sq[l] \in Nat /\ stream_prev_tx_pkts[l] \in Nat /\ rep_tx[t] \in Nat
        /\ rep_tx[t] <= stream_prev_tx_pkts[l] /\ stream_prev_tx_pkts[l] <= max_sq[l]
    BY <2>2, <2>3 DEF KeyedInv, PrevTxOf, AType, HType
  <2>5. rep_tx'[t] <= max_sq[l]
    <3>1. Growth(max_sq[l], stream_prev_tx_pkts[l]) = max_sq[l] - stream_prev_tx_pkts[l]
      BY <2>4 DEF Growth
    <3> QED
      BY <2>2, <2>4, <3>1
  <2>6. \A k, m \in Slots : key[k] \in Streams /\ key[m] = key[k] => k = m
    <3> SUFFICES ASSUME NEW k \in Slots, NEW m \in Slots, key[k] \in Streams, key[m] = key[k]
                 PROVE  k = m
      OBVIOUS
    <3>1. PICK s \in Streams : s = key[k]
      OBVIOUS
    <3>2. hash_value[k] = HashOf(s) /\ hash_value[m] = HashOf(s) /\ HashOf(s) # 0
      BY <3>1, HashAssumption DEF KeyedInv
    <3> QED
      BY <3>2 DEF TableInv, FoundInv
  <2>7. PrevTxOf(l)' = max_sq[l] /\ \A k \in Slots \ {l} : PrevTxOf(k)' = PrevTxOf(k)
    BY <2>1, <2>2 DEF PrevTxOf
  <2>8. ASSUME NEW k \in Slots, NEW s \in Streams, key'[k] = s
        PROVE  hash_value'[k] = HashOf(s) /\ rep_tx'[s] <= PrevTxOf(k)' /\ PrevTxOf(k)' <= max_sq'[k]
    <3>0. key[k] = s /\ hash_value[k] = HashOf(s) /\ rep_tx[s] <= PrevTxOf(k) /\ PrevTxOf(k) <= max_sq[k]
      BY <1>0, <2>8 DEF KeyedInv
    <3>1. CASE k = l
      <4>1. s = t
        BY <2>3, <3>0, <3>1
      <4> QED
        BY <1>0, <2>4, <2>5, <2>7, <3>0, <3>1, <4>1
    <3>2. CASE k # l
      <4>1. s # t
        BY <2>3, <2>6, <3>0, <3>2
      <4> QED
        BY <1>0, <2>2, <2>7, <3>0, <3>2, <4>1
    <3> QED
      BY <3>1, <3>2
  <2>9. ASSUME NEW s \in Streams, \A k \in Slots : key'[k] # s
        PROVE  rep_tx'[s] = 0
    BY <1>0, <2>2, <2>3, <2>9 DEF KeyedInv
  <2> QED
    BY <1>0, <1>b, <2>1, <2>2, <2>3, <2>8, <2>9 DEF KeyedInv
<1>2. CASE PrevTx
  <2> SUFFICES ASSUME begins = 0 PROVE KeyedInv'
    BY <1>0 DEF KeyedInv
  <2>1. PICK l \in Slots, t \in Streams : l = sm_id /\ t = rlink
    BY <1>2 DEF PrevTx, HType
  <2>2. PICK v \in {seen, max_sq[l]} : stream_prev_tx_pkts' = [stream_prev_tx_pkts EXCEPT ![l] = v]
    BY <1>2, <2>1 DEF PrevTx
  <2>3. /\ rpc = "prevtx" /\ rpc' = "idle" /\ rep_tx' = rep_tx
        /\ stream_prev_tx_pkts'[l] = v
        /\ \A k \in Slots \ {l} : stream_prev_tx_pkts'[k] = stream_prev_tx_pkts[k]
    BY <1>2, <2>2 DEF PrevTx, Done, HType
  <2>4. PrevTxOf(l) = seen /\ PrevTxOf(l)' = v /\ \A k \in Slots \ {l} : PrevTxOf(k)' = PrevTxOf(k)
    BY <2>1, <2>3 DEF PrevTxOf
  <2>5. key[l] = t
    BY <2>1, <2>3 DEF KeyedInv
  <2>6. rep_tx[t] <= seen /\ seen <= max_sq[l] /\ rep_tx[t] \in Nat /\ seen \in Nat /\ max_sq[l] \in Nat
    BY <2>4, <2>5 DEF KeyedInv, AType, HType
  <2>7. rep_tx[t] <= v /\ v <= max_sq[l]
    BY <2>2, <2>6
  <2>8. ASSUME NEW k \in Slots, NEW s \in Streams, key'[k] = s
        PROVE  hash_value'[k] = HashOf(s) /\ rep_tx'[s] <= PrevTxOf(k)' /\ PrevTxOf(k)' <= max_sq'[k]
    <3>0. key[k] = s /\ hash_value[k] = HashOf(s) /\ rep_tx[s] <= PrevTxOf(k) /\ PrevTxOf(k) <= max_sq[k]
      BY <1>0, <2>8 DEF KeyedInv
    <3>1. CASE k = l
      BY <1>0, <2>3, <2>4, <2>5, <2>7, <3>0, <3>1
    <3>2. CASE k # l
      BY <1>0, <2>3, <2>4, <3>0, <3>2
    <3> QED
      BY <3>1, <3>2
  <2>9. ASSUME NEW k \in Slots, key'[k] = NoStream
        PROVE  stream_prev_tx_pkts'[k] = 0
    <3>1. k # l
      BY <1>0, <2>5, <2>9, StreamsAssumption
    <3> QED
      BY <1>0, <2>3, <2>9, <3>1 DEF KeyedInv
  <2> QED
    BY <1>0, <1>b, <2>3, <2>8, <2>9 DEF KeyedInv
<1>3. CASE ~DiffTx /\ ~PrevTx
  <2>1. (UNCHANGED <<stream_prev_tx_pkts, rep_tx>> /\ rpc # "prevtx" /\ rpc' # "prevtx") \/ DiffTx \/ PrevTx
    BY DEF HttpStep, Report, Request, ScanNext, ScanDown, ScanFound, DiffRx, PrevRx, Done
  <2>2. UNCHANGED <<stream_prev_tx_pkts, rep_tx>> /\ \A k \in Slots : PrevTxOf(k)' = PrevTxOf(k)
    BY <1>3, <2>1 DEF PrevTxOf
  <2>3. CASE ScanFound
    <3>1. rpc' = "rx" /\ key[sm_id] = rlink /\ UNCHANGED <<rlink, sm_id>>
      BY <2>3 DEF ScanFound, Mine
    <3> QED
      BY <1>0, <1>b, <2>2, <3>1 DEF KeyedInv
  <2>4. CASE rpc' \notin {"idle", "scan"} => rpc \notin {"idle", "scan"} /\ rlink' = rlink /\ sm_id' = sm_id
    <3>1. \A c \in Cores : cpc'[c] \in {"sethash", "setkey"} => cpc[c] \in {"sethash", "setkey"} /\ pos'[c] = pos[c]
      BY <1>0
    <3>2. \A s \in Streams : streams_sequences[s] <= streams_sequences'[s]
      BY <1>a, <1>b
    <3> QED
      BY <1>0, <2>2, <2>4, <3>1, <3>2, KeyedUnchanged
  <2>5. ScanFound \/ (rpc' \notin {"idle", "scan"} => rpc \notin {"idle", "scan"} /\ rlink' = rlink /\ sm_id' = sm_id)
    BY <1>3 DEF HttpStep, Report, Request, ScanNext, ScanDown, DiffRx, PrevRx, Done
  <2> QED
    BY <2>3, <2>4, <2>5
<1> QED
  BY <1>1, <1>2, <1>3

LEMMA KeyedStays ==
    ASSUME HashesDiffer, OneCoreEach, KeyedInv, SType, SType', AType, AType', HType, BType, OnePlace, TableInv,
           LockInv, [Next]_vars
    PROVE  KeyedInv'
<1>0. \A s \in Streams : streams_sequences[s] \in Nat
  BY DEF SType
<1>1. CASE Send
  <2>1. UNCHANGED <<hash_value, max_sq, key, stream_prev_tx_pkts, rep_tx, begins, cpc, pos, rpc, rlink, sm_id>>
    BY <1>1 DEF Send, avars, hvars
  <2>2. \A k \in Slots : PrevTxOf(k)' = PrevTxOf(k)
    BY <1>1 DEF Send, hvars, PrevTxOf
  <2>3. \A s \in Streams : streams_sequences[s] <= streams_sequences'[s]
    <3>1. ASSUME NEW s \in Streams, NEW n \in 1 .. NbPktPerBurst, Prepare(s, n)
          PROVE  \A t \in Streams : streams_sequences[t] <= streams_sequences'[t]
      <4>1. n \in Nat
        BY BurstAssumption
      <4>2. streams_sequences'[s] = streams_sequences[s] + n
        BY <3>1 DEF Prepare, SType
      <4>3. \A t \in Streams \ {s} : streams_sequences'[t] = streams_sequences[t]
        BY <3>1 DEF Prepare, SType
      <4> QED
        BY <1>0, <4>1, <4>2, <4>3
    <3>2. CASE UNCHANGED streams_sequences
      BY <1>0, <3>2
    <3> QED
      BY <1>1, <3>1, <3>2 DEF Send, TransmitPart, TransmitLast, SBegin
  <2> QED
    BY <2>1, <2>2, <2>3, KeyedUnchanged
<1>2. ASSUME NEW c \in Cores, Receive(c)
      PROVE  KeyedInv'
  <2>1. UNCHANGED <<hash_value, max_sq, key, stream_prev_tx_pkts, rep_tx, begins, pos, rpc, rlink, sm_id,
                    streams_sequences>>
    BY <1>2 DEF Receive, Take, svars, hvars
  <2>2. \A d \in Cores : cpc'[d] \in {"sethash", "setkey"} => cpc[d] \in {"sethash", "setkey"}
    BY <1>2 DEF Receive, Take, AType
  <2>3. \A k \in Slots : PrevTxOf(k)' = PrevTxOf(k)
    BY <1>2 DEF Receive, hvars, PrevTxOf
  <2>4. \A s \in Streams : streams_sequences[s] <= streams_sequences'[s]
    BY <1>0, <2>1
  <2> QED
    BY <2>1, <2>2, <2>3, <2>4, KeyedUnchanged
<1>3. ASSUME NEW c \in Cores, CoreStep(c)
      PROVE  KeyedInv'
  BY <1>3, KeyedByCore
<1>4. CASE Begin
  <2>1. begins' # 0
    BY <1>4 DEF Begin, BType
  <2> QED
    BY <2>1 DEF KeyedInv
<1>5. CASE HttpStep
  BY <1>5, KeyedByHttp
<1>6. CASE UNCHANGED <<svars, avars, hvars, wire, begins>>
  <2>1. UNCHANGED <<hash_value, max_sq, key, stream_prev_tx_pkts, rep_tx, begins, cpc, pos, rpc, rlink, sm_id,
                    streams_sequences>>
    BY <1>6 DEF svars, avars, hvars
  <2>2. \A k \in Slots : PrevTxOf(k)' = PrevTxOf(k)
    BY <1>6 DEF hvars, PrevTxOf
  <2>3. \A s \in Streams : streams_sequences[s] <= streams_sequences'[s]
    BY <1>0, <2>1
  <2> QED
    BY <2>1, <2>2, <2>3, KeyedUnchanged
<1> QED
  BY <1>1, <1>2, <1>3, <1>4, <1>5, <1>6, Steps

\* With one core for each stream, what is reported as sent was sent while the engine is not
\* restarted; with what ReportedWasReceived says of any interleaving, reports are real.
THEOREM ReportsAreReal ==
    ASSUME HashesDiffer, OneCoreEach
    PROVE  Spec => []ReportedIsReal
<1> DEFINE KInv == SType /\ AType /\ HType /\ BType /\ OnePlace /\ LockInv /\ TableInv /\ KeyedInv
<1>1. Init => KInv
  <2> SUFFICES ASSUME Init PROVE KInv
    OBVIOUS
  <2>1. SType /\ OnePlace
    BY DEF Init, SInit, AInit, SType, OnePlace, InHand, Handling
  <2>2. AType
    BY SlotsAssumption DEF Init, AInit, AType, Slots, Handling
  <2>3. HType /\ BType
    BY SlotsAssumption DEF Init, HInit, HType, BType
  <2>4. ClaimInv /\ TriedInv /\ LockInv
    BY DEF Init, AInit, ClaimInv, TriedInv, LockInv, Claiming, Inside
  <2>5. FoundInv
    BY HashAssumption DEF Init, AInit, FoundInv
  <2>6. KeyedInv
    BY HashAssumption, StreamsAssumption DEF Init, SInit, AInit, HInit, KeyedInv, PrevTxOf
  <2> QED
    BY <2>1, <2>2, <2>3, <2>4, <2>5, <2>6 DEF TableInv
<1>2. KInv /\ [Next]_vars => KInv'
  <2> SUFFICES ASSUME KInv, [Next]_vars PROVE KInv'
    OBVIOUS
  <2>1. SType /\ AType /\ HType /\ BType /\ OnePlace /\ LockInv /\ TableInv /\ KeyedInv
    OBVIOUS
  <2>2. SType' /\ AType' /\ HType' /\ OnePlace' /\ LockInv'
    BY <2>1, STypeStays, ATypeStays, HTypeStays, OnePlaceStays, LockStays
  <2>3. TableInv'
    BY <2>1, <2>2, TableStays
  <2>4. KeyedInv'
    BY <2>1, <2>2, KeyedStays
  <2>5. BType'
    BY <2>1, Steps DEF Send, Receive, CoreStep, Begin, HttpStep, BType
  <2> QED
    BY <2>2, <2>3, <2>4, <2>5
<1>3. KInv => ReportedSentIsReal
  <2> SUFFICES ASSUME KInv, begins = 0, NEW s \in Streams PROVE rep_tx[s] <= streams_sequences[s]
    BY DEF ReportedSentIsReal
  <2>0. rep_tx[s] \in Nat /\ streams_sequences[s] \in Nat
    BY DEF HType, SType
  <2>1. CASE \E k \in Slots : key[k] = s
    <3>1. PICK k \in Slots : key[k] = s
      BY <2>1
    <3>2. /\ rep_tx[s] <= PrevTxOf(k) /\ PrevTxOf(k) <= max_sq[k] /\ max_sq[k] < streams_sequences[s]
          /\ PrevTxOf(k) \in Nat /\ max_sq[k] \in Nat
      BY <3>1 DEF KeyedInv, PrevTxOf, HType, AType
    <3> QED
      BY <2>0, <3>2
  <2>2. CASE \A k \in Slots : key[k] # s
    BY <2>0, <2>2 DEF KeyedInv
  <2> QED
    BY <2>1, <2>2
<1> HIDE DEF KInv
<1>4. Spec => []ReportedSentIsReal
  BY <1>1, <1>2, <1>3, PTL DEF Spec
<1> QED
  BY <1>4, ReportedWasReceived, PTL DEF ReportedIsReal

-----------------------------------------------------------------------------
(* What the HTTP server says of packets without a number. *)

VPorts == 1 .. Cardinality(Cores)

VPlaces == {"idle", "lock", "load map", "store map", "unlock", "store bytes", "compare", "send"}
VCpus == [pc : VPlaces, dst : VideoPorts \cup {0}, word : SUBSET VideoPorts, bytes : Nat, tries : Nat]
VHttps == [pc : {"idle", "count", "sum", "answer"}, i : Nat, count : Nat, bytes : Nat, least : Nat]

VType ==
    /\ rx_port \in [Cores -> VPorts]
    /\ noted \subseteq VideoPorts
    /\ video_rx_bytes \in [VPorts -> Nat]
    /\ counted \in [VPorts -> Nat]
    /\ vcpu \in [Cores -> VCpus]
    /\ vhttp \in VHttps
    /\ vhttp.pc = "sum" => vhttp.i < Cardinality(Cores)
    /\ prev_video_rx_bytes \in Nat
    /\ video_rep \in [num : Nat, least : Nat, bytes : Nat]

\* The bitmap loses no bit: one core at a time is between the read of a word and its write.
MapInv ==
    /\ video_map = noted
    /\ \A c \in Cores :
          /\ vcpu[c].pc \in {"load map", "store map", "unlock"} => video_spinlock = c
          /\ vcpu[c].pc # "idle" => vcpu[c].dst \in VideoPorts
          /\ vcpu[c].pc = "store map" => vcpu[c].word = noted \cap Bits(VideoWord[vcpu[c].dst])

\* The totals lag behind what was counted, unless every core has a port of its own.
TotalsInv ==
    /\ \A p \in VPorts : video_rx_bytes[p] <= counted[p]
    /\ \A c \in Cores : vcpu[c].pc = "store bytes" =>
          /\ vcpu[c].bytes <= counted[rx_port[c]]
          /\ OnePortEach => vcpu[c].bytes = video_rx_bytes[rx_port[c]]
    /\ OnePortEach => video_rx_bytes = counted

\* Bits of the first words counted, and of the words still to come, of 2 * NbWords looked at
Below(S, i) == {d \in S : VideoWord[d] <= i}
Above(S, i) == {d \in S : VideoWord[d] > i}
Passed(S, i) == IF i <= NbWords THEN Cardinality(Below(S, i))
                ELSE Cardinality(S) + Cardinality(Below(S, i - NbWords))
Ahead(S, i) == IF i <= NbWords THEN Cardinality(S) + Cardinality(Above(S, i))
               ELSE Cardinality(Above(S, i - NbWords))

NumInv ==
    /\ vhttp.pc = "count" => /\ vhttp.i \in 0 .. 2 * NbWords - 1
                             /\ vhttp.count <= Passed(noted, vhttp.i)
                             /\ 2 * vhttp.least <= vhttp.count + Ahead(noted, vhttp.i)
    /\ vhttp.pc \in {"sum", "answer"} => /\ 2 * vhttp.least <= vhttp.count
                                         /\ vhttp.count <= 2 * Cardinality(noted)
    /\ 2 * video_rep.least <= video_rep.num
    /\ video_rep.num <= 2 * Cardinality(noted)

\* The totals of the ports up to i, and behind it
UpTo(i) == SumFunctionOnSet(counted, 1 .. i)
Behind(i) == SumFunctionOnSet(counted, i + 1 .. Cardinality(Cores))

\* A sum is at least the one before, although each is read while the totals grow.
BytesInv == OnePortEach =>
    /\ video_rep.bytes = prev_video_rx_bytes /\ prev_video_rx_bytes <= Behind(0)
    /\ vhttp.pc \in {"idle", "count"} => vhttp.bytes = 0
    /\ vhttp.pc = "sum" => /\ vhttp.bytes <= UpTo(vhttp.i)
                           /\ prev_video_rx_bytes <= vhttp.bytes + Behind(vhttp.i)
    /\ vhttp.pc = "answer" => /\ vhttp.bytes <= Behind(0)
                              /\ prev_video_rx_bytes <= vhttp.bytes

VInv == VType /\ MapInv /\ TotalsInv /\ NumInv /\ BytesInv

-----------------------------------------------------------------------------
\* The steps that matter to what is said of packets without a number.
LEMMA VideoSteps ==
    ASSUME [Next]_vars
    PROVE  \/ UNCHANGED vvars
           \/ \E c \in Cores : (\E d \in VideoPorts : VTake(c, d)) \/ VideoStep(c)
           \/ VideoRequest
<1>1. CASE NumberedNext
  BY <1>1 DEF NumberedNext
<1>2. CASE VideoNext
  BY <1>2 DEF VideoNext
<1>3. CASE \E c \in Cores : CoreMoves(c)
  BY <1>3 DEF CoreMoves
<1>4. CASE UNCHANGED vars
  BY <1>4 DEF vars, vvars
<1> QED
  BY <1>1, <1>2, <1>3, <1>4 DEF Next

\* The ports cores receive from exist, for there is a way to give each core its own.
LEMMA PortsOfCores ==
    ASSUME VInit
    PROVE  rx_port \in [Cores -> VPorts]
<1> DEFINE N == Cardinality(Cores)
<1>1. N \in Nat /\ N # 0
  BY CoresAreFew, FS_CardinalityType, FS_EmptySet
<1>2. Injection(Cores, 1 .. N) # {}
  <2>1. ExistsBijection(1 .. N, Cores)
    BY CoresAreFew, FS_CardinalityType
  <2>2. ExistsBijection(Cores, 1 .. N)
    BY <2>1, Fun_ExistsBijSymmetric
  <2> QED
    BY <2>2 DEF ExistsBijection, Bijection
<1>3. (CHOOSE f \in Injection(Cores, 1 .. N) : TRUE) \in [Cores -> 1 .. N]
  BY <1>2 DEF Injection
<1>4. 1 \in 1 .. N
  BY <1>1
<1> QED
  BY <1>3, <1>4 DEF VInit, VPorts

LEMMA VideoFinite ==
    ASSUME NEW S, S \subseteq VideoPorts
    PROVE  IsFiniteSet(S) /\ Cardinality(S) \in Nat
BY WordsAssumption, FS_Subset, FS_CardinalityType

LEMMA VInitInv ==
    ASSUME VInit
    PROVE  VInv
<1>1. VType
  BY PortsOfCores DEF VInit, VType, VPorts, VPlaces, VCpus, VHttps, IdleVCpu, IdleVHttp
<1>2. MapInv
  BY DEF VInit, MapInv, IdleVCpu
<1>3. TotalsInv
  <2>1. \A p \in VPorts : video_rx_bytes[p] = 0 /\ counted[p] = 0
    BY DEF VInit, VPorts
  <2>2. \A c \in Cores : vcpu[c].pc # "store bytes"
    BY DEF VInit, IdleVCpu
  <2>3. counted = video_rx_bytes
    BY DEF VInit
  <2>4. \A p \in VPorts : video_rx_bytes[p] <= counted[p]
    BY <2>1
  <2> QED
    BY <2>2, <2>3, <2>4 DEF TotalsInv
<1>4. NumInv
  <2>1. Cardinality(noted) = 0
    BY FS_EmptySet DEF VInit
  <2> QED
    BY <2>1 DEF VInit, NumInv, IdleVHttp
<1>5. BytesInv
  <2>1. IsFiniteSet(0 + 1 .. Cardinality(Cores)) /\ \A p \in 0 + 1 .. Cardinality(Cores) : counted[p] \in Nat
    <3>1. Cardinality(Cores) \in Nat
      BY CoresAreFew, FS_CardinalityType
    <3> QED
      BY <3>1, FS_Interval DEF VInit
  <2>2. Behind(0) \in Nat
    BY <2>1, SumIsNat DEF Behind
  <2> QED
    BY <2>2 DEF VInit, BytesInv, IdleVHttp
<1> QED
  BY <1>1, <1>2, <1>3, <1>4, <1>5 DEF VInv

-----------------------------------------------------------------------------
(* Cores. *)

CoreActs(c) == (\E d \in VideoPorts : VTake(c, d)) \/ VideoStep(c)

\* A core changes its own place only.
LEMMA VCpuStays ==
    ASSUME VType, MapInv, NEW c \in Cores, CoreActs(c)
    PROVE  /\ vcpu' \in [Cores -> VCpus]
           /\ \A d \in Cores \ {c} : vcpu'[d] = vcpu[d]
           /\ HttpAlone /\ UNCHANGED rx_port
<1>0. /\ vcpu[c] \in VCpus /\ rx_port[c] \in VPorts /\ vcpu \in [Cores -> VCpus]
      /\ video_rx_bytes \in [VPorts -> Nat]
      /\ video_map \subseteq VideoPorts
  BY DEF VType, MapInv
<1>f. /\ video_rx_bytes[rx_port[c]] \in Nat
      /\ \A w : video_map \cap Bits(w) \in SUBSET VideoPorts
  BY <1>0
<1> DEFINE Goes(r) == vcpu' = [vcpu EXCEPT ![c] = r] /\ r \in VCpus
<1>1. \A x \in VCpus : /\ \A p \in VPlaces : [x EXCEPT !.pc = p] \in VCpus
                       /\ \A p \in VPlaces, w \in SUBSET VideoPorts : [x EXCEPT !.pc = p, !.word = w] \in VCpus
                       /\ \A p \in VPlaces, b \in Nat : [x EXCEPT !.pc = p, !.bytes = b] \in VCpus
  BY DEF VCpus
<1>t. \A x \in VCpus : [x EXCEPT !.tries = @ + 1] \in VCpus
  <2> TAKE x \in VCpus
  <2>1. x.tries + 1 \in Nat
    BY DEF VCpus
  <2> QED
    BY <2>1 DEF VCpus
<1>2. IdleVCpu \in VCpus /\ \A d \in VideoPorts : [IdleVCpu EXCEPT !.pc = "lock", !.dst = d] \in VCpus
  BY DEF VCpus, VPlaces, IdleVCpu
<1>3. \A p : p \in {"load map", "store map", "unlock", "store bytes", "compare", "send"} => p \in VPlaces
  BY DEF VPlaces
<1>4. \E r : Goes(r)
  <2>1. ASSUME NEW d \in VideoPorts, VTake(c, d)
        PROVE  \E r : Goes(r)
    <3>1. Goes([IdleVCpu EXCEPT !.pc = "lock", !.dst = d])
      BY <1>0, <1>2, <2>1 DEF VTake
    <3> QED
      BY <3>1
  <2>2. CASE VLock(c)
    <3>1. Goes([vcpu[c] EXCEPT !.pc = "load map"])
      BY <1>0, <1>1, <1>3, <2>2 DEF VLock
    <3> QED
      BY <3>1
  <2>3. CASE LoadMap(c)
    <3>1. Goes([vcpu[c] EXCEPT !.pc = "store map", !.word = video_map \cap Bits(VideoWord[vcpu[c].dst])])
      BY <1>0, <1>f, <1>1, <1>3, <2>3 DEF LoadMap
    <3> QED
      BY <3>1
  <2>4. CASE StoreMap(c)
    <3>1. Goes([vcpu[c] EXCEPT !.pc = "unlock", !.word = {}])
      BY <1>0, <1>1, <1>3, <2>4 DEF StoreMap
    <3> QED
      BY <3>1
  <2>5. CASE VUnlock(c)
    <3>1. Goes([vcpu[c] EXCEPT !.pc = "store bytes", !.bytes = video_rx_bytes[rx_port[c]]])
      BY <1>0, <1>f, <1>1, <1>3, <2>5 DEF VUnlock
    <3> QED
      BY <3>1
  <2>6. CASE StoreBytes(c)
    <3>1. Goes([vcpu[c] EXCEPT !.pc = "compare", !.bytes = 0])
      BY <1>0, <1>1, <1>3, <2>6 DEF StoreBytes
    <3> QED
      BY <3>1
  <2>7. CASE Compare(c)
    <3>1. Goes([vcpu[c] EXCEPT !.pc = "send"]) \/ Goes(IdleVCpu)
      BY <1>0, <1>1, <1>2, <1>3, <2>7 DEF Compare
    <3> QED
      BY <3>1
  <2>8. ASSUME NEW taken \in BOOLEAN, SendOn(c, taken)
        PROVE  \E r : Goes(r)
    <3>1. Goes([vcpu[c] EXCEPT !.tries = @ + 1]) \/ Goes(IdleVCpu)
      <4> DEFINE stop == taken \/ vcpu[c].tries + 1 = VideoTries
                 more == [vcpu[c] EXCEPT !.tries = @ + 1]
      <4>1. vcpu' = [vcpu EXCEPT ![c] = IF stop THEN IdleVCpu ELSE more]
        BY <1>0, <2>8 DEF SendOn
      <4>2. IdleVCpu \in VCpus /\ more \in VCpus
        BY <1>0, <1>t, <1>2
      <4> HIDE DEF stop, more
      <4>3. Goes(more) \/ Goes(IdleVCpu)
        BY <4>1, <4>2
      <4> QED
        BY <4>3 DEF more
    <3> QED
      BY <3>1
  <2> HIDE DEF Goes
  <2> QED
    BY <2>1, <2>2, <2>3, <2>4, <2>5, <2>6, <2>7, <2>8 DEF CoreActs, VideoStep
<1>5. HttpAlone /\ UNCHANGED rx_port
  BY DEF HttpAlone, CoreActs, VideoStep, VTake, VLock, LoadMap, StoreMap, VUnlock, StoreBytes, Compare, SendOn
<1> QED
  BY <1>0, <1>4, <1>5

LEMMA VTypeByCore ==
    ASSUME VType, MapInv, NEW c \in Cores, CoreActs(c)
    PROVE  /\ VType'
           /\ noted \subseteq noted'
           /\ \A p \in VPorts : counted[p] <= counted[p]'
<1>0. /\ rx_port \in [Cores -> VPorts] /\ noted \subseteq VideoPorts /\ vcpu[c] \in VCpus
      /\ video_rx_bytes \in [VPorts -> Nat] /\ counted \in [VPorts -> Nat]
      /\ vcpu[c].pc # "idle" => vcpu[c].dst \in VideoPorts
  BY DEF VType, MapInv
<1>1. rx_port[c] \in VPorts /\ vcpu[c].bytes \in Nat
  BY <1>0 DEF VCpus
<1>2. vcpu' \in [Cores -> VCpus] /\ HttpAlone /\ UNCHANGED rx_port
  BY VCpuStays
<1>3. \/ UNCHANGED noted
      \/ noted' = noted \cup {vcpu[c].dst} /\ vcpu[c].pc = "store map"
  BY DEF CoreActs, VideoStep, VTake, VLock, LoadMap, StoreMap, VUnlock, StoreBytes, Compare, SendOn
<1>4. \/ UNCHANGED <<video_rx_bytes, counted>>
      \/ /\ video_rx_bytes' = [video_rx_bytes EXCEPT ![rx_port[c]] = vcpu[c].bytes + 1]
         /\ counted' = [counted EXCEPT ![rx_port[c]] = @ + 1]
  BY DEF CoreActs, VideoStep, VTake, VLock, LoadMap, StoreMap, VUnlock, StoreBytes, Compare, SendOn
<1>5. noted \subseteq noted' /\ noted' \subseteq VideoPorts
  BY <1>0, <1>3
<1>6. /\ video_rx_bytes' \in [VPorts -> Nat] /\ counted' \in [VPorts -> Nat]
      /\ \A p \in VPorts : counted[p] <= counted'[p]
  <2>1. \A p \in VPorts : counted[p] \in Nat
    BY <1>0
  <2>2. counted[rx_port[c]] + 1 \in Nat /\ vcpu[c].bytes + 1 \in Nat
    BY <1>1, <2>1
  <2> QED
    BY <1>0, <1>1, <1>4, <2>1, <2>2
<1> QED
  BY <1>2, <1>5, <1>6 DEF VType, HttpAlone

\* What a step of a core makes of its place, and of the lock and the bitmap
LEMMA CoreGoes ==
    ASSUME VType, MapInv, NEW c \in Cores, CoreActs(c)
    PROVE  \/ /\ vcpu'[c].pc \in {"idle", "lock", "compare", "send"}
              /\ vcpu'[c].pc # "idle" => vcpu'[c].dst \in VideoPorts
              /\ UNCHANGED <<video_map, video_spinlock, noted>>
           \/ /\ vcpu'[c].pc = "load map" /\ vcpu'[c].dst \in VideoPorts
              /\ video_spinlock = NoCore /\ video_spinlock' = c
              /\ UNCHANGED <<video_map, noted>>
           \/ /\ vcpu[c].pc = "load map" /\ vcpu'[c].pc = "store map" /\ vcpu'[c].dst \in VideoPorts
              /\ vcpu'[c].word = video_map \cap Bits(VideoWord[vcpu'[c].dst])
              /\ UNCHANGED <<video_map, video_spinlock, noted>>
           \/ /\ vcpu[c].pc = "store map" /\ vcpu'[c].pc = "unlock" /\ vcpu'[c].dst \in VideoPorts
              /\ video_map' = (video_map \ Bits(VideoWord[vcpu[c].dst])) \cup vcpu[c].word \cup {vcpu[c].dst}
              /\ noted' = noted \cup {vcpu[c].dst}
              /\ UNCHANGED video_spinlock
           \/ /\ vcpu[c].pc = "unlock" /\ vcpu'[c].pc = "store bytes" /\ vcpu'[c].dst \in VideoPorts
              /\ video_spinlock' = IF video_spinlock = c THEN NoCore ELSE video_spinlock
              /\ UNCHANGED <<video_map, noted>>
<1>0. /\ vcpu \in [Cores -> VCpus] /\ vcpu[c] \in VCpus
      /\ vcpu[c].pc # "idle" => vcpu[c].dst \in VideoPorts
  BY DEF VType, MapInv
<1>1. ASSUME NEW d \in VideoPorts, VTake(c, d)
      PROVE  vcpu'[c].pc = "lock" /\ vcpu'[c].dst \in VideoPorts /\ UNCHANGED <<video_map, video_spinlock, noted>>
  BY <1>0, <1>1 DEF VTake, IdleVCpu
<1>2. CASE VLock(c)
  <2>1. vcpu'[c].pc = "load map" /\ vcpu'[c].dst = vcpu[c].dst
    BY <1>0, <1>2 DEF VLock, VCpus
  <2> QED
    BY <1>0, <1>2, <2>1 DEF VLock
<1>3. CASE LoadMap(c)
  <2>1. /\ vcpu'[c].pc = "store map" /\ vcpu'[c].dst = vcpu[c].dst
        /\ vcpu'[c].word = video_map \cap Bits(VideoWord[vcpu[c].dst])
    BY <1>0, <1>3 DEF LoadMap, VCpus
  <2> QED
    BY <1>0, <1>3, <2>1 DEF LoadMap
<1>4. CASE StoreMap(c)
  <2>1. vcpu'[c].pc = "unlock" /\ vcpu'[c].dst = vcpu[c].dst
    BY <1>0, <1>4 DEF StoreMap, VCpus
  <2> QED
    BY <1>0, <1>4, <2>1 DEF StoreMap
<1>5. CASE VUnlock(c)
  <2>1. vcpu'[c].pc = "store bytes" /\ vcpu'[c].dst = vcpu[c].dst
    BY <1>0, <1>5 DEF VUnlock, VCpus
  <2> QED
    BY <1>0, <1>5, <2>1 DEF VUnlock
<1>6. CASE StoreBytes(c)
  <2>1. vcpu'[c].pc = "compare" /\ vcpu'[c].dst = vcpu[c].dst
    BY <1>0, <1>6 DEF StoreBytes, VCpus
  <2> QED
    BY <1>0, <1>6, <2>1 DEF StoreBytes
<1>7. CASE Compare(c)
  <2>1. \/ vcpu'[c].pc = "send" /\ vcpu'[c].dst = vcpu[c].dst
        \/ vcpu'[c].pc = "idle"
    BY <1>0, <1>7 DEF Compare, VCpus, IdleVCpu
  <2> QED
    BY <1>0, <1>7, <2>1 DEF Compare
<1>8. ASSUME NEW taken \in BOOLEAN, SendOn(c, taken)
      PROVE  /\ vcpu'[c].pc \in {"idle", "send"}
             /\ vcpu'[c].pc # "idle" => vcpu'[c].dst \in VideoPorts
             /\ UNCHANGED <<video_map, video_spinlock, noted>>
  <2>1. \/ vcpu'[c].pc = "send" /\ vcpu'[c].dst = vcpu[c].dst
        \/ vcpu'[c].pc = "idle"
    <3> DEFINE stop == taken \/ vcpu[c].tries + 1 = VideoTries
    <3>1. /\ vcpu[c].pc = "send"
          /\ vcpu' = [vcpu EXCEPT ![c] = IF stop THEN IdleVCpu ELSE [@ EXCEPT !.tries = vcpu[c].tries + 1]]
      BY <1>8 DEF SendOn
    <3> HIDE DEF stop
    <3> QED
      BY <1>0, <3>1 DEF VCpus, IdleVCpu
  <2> QED
    BY <1>0, <1>8, <2>1 DEF SendOn
<1> QED
  BY <1>1, <1>2, <1>3, <1>4, <1>5, <1>6, <1>7, <1>8 DEF CoreActs, VideoStep

LEMMA MapByCore ==
    ASSUME VType, MapInv, NEW c \in Cores, CoreActs(c)
    PROVE  MapInv'
<1> DEFINE Holds(d) == vcpu[d].pc \in {"load map", "store map", "unlock"}
<1>0. /\ \A d \in Cores \ {c} : vcpu'[d] = vcpu[d]
      /\ video_map = noted
      /\ \A d \in Cores : Holds(d) => video_spinlock = d
      /\ \A d \in Cores : /\ vcpu[d].pc # "idle" => vcpu[d].dst \in VideoPorts
                          /\ vcpu[d].pc = "store map" => vcpu[d].word = noted \cap Bits(VideoWord[vcpu[d].dst])
      /\ \A d \in Cores : d # NoCore
  BY VCpuStays, NoCoreAssumption DEF MapInv
<1>1. video_map' = noted'
  BY <1>0, CoreGoes
<1>2. \A d \in Cores : Holds(d)' => video_spinlock' = d
  <2> TAKE d \in Cores
  <2>1. CASE d = c
    BY <1>0, <2>1, CoreGoes
  <2>2. CASE d # c
    BY <1>0, <2>2, CoreGoes
  <2> QED
    BY <2>1, <2>2
<1>3. \A d \in Cores : vcpu'[d].pc # "idle" => vcpu'[d].dst \in VideoPorts
  <2> TAKE d \in Cores
  <2>1. CASE d = c
    BY <1>0, <2>1, CoreGoes
  <2>2. CASE d # c
    BY <1>0, <2>2
  <2> QED
    BY <2>1, <2>2
<1>4. \A d \in Cores : vcpu'[d].pc = "store map" => vcpu'[d].word = noted' \cap Bits(VideoWord[vcpu'[d].dst])
  <2> TAKE d \in Cores
  <2>1. CASE d = c
    BY <1>0, <2>1, CoreGoes
  <2>2. CASE d # c
    BY <1>0, <2>2, CoreGoes
  <2> QED
    BY <2>1, <2>2
<1> QED
  BY <1>1, <1>2, <1>3, <1>4 DEF MapInv, Bits

LEMMA TotalsByCore ==
    ASSUME VType, MapInv, TotalsInv, NEW c \in Cores, CoreActs(c)
    PROVE  TotalsInv'
<1> DEFINE r == rx_port[c]
<1>0. /\ \A d \in Cores : rx_port[d] \in VPorts /\ vcpu[d].bytes \in Nat
      /\ \A p \in VPorts : video_rx_bytes[p] \in Nat /\ counted[p] \in Nat
      /\ video_rx_bytes \in [VPorts -> Nat] /\ counted \in [VPorts -> Nat]
      /\ vcpu \in [Cores -> VCpus]
  BY DEF VType, VCpus
<1>1. /\ \A d \in Cores \ {c} : vcpu'[d] = vcpu[d]
      /\ UNCHANGED rx_port
      /\ OnePortEach' <=> OnePortEach
  BY VCpuStays DEF OnePortEach
<1>2. CASE VUnlock(c)
  <2>1. vcpu'[c].bytes = video_rx_bytes[r] /\ UNCHANGED <<video_rx_bytes, counted>>
    BY <1>0, <1>2 DEF VUnlock, VCpus
  <2> QED
    BY <1>0, <1>1, <2>1 DEF TotalsInv
<1>3. CASE StoreBytes(c)
  <2>1. /\ vcpu[c].pc = "store bytes" /\ vcpu'[c].pc = "compare"
        /\ video_rx_bytes' = [video_rx_bytes EXCEPT ![r] = vcpu[c].bytes + 1]
        /\ counted' = [counted EXCEPT ![r] = counted[r] + 1]
    BY <1>0, <1>3 DEF StoreBytes, VCpus
  <2>2. /\ video_rx_bytes'[r] = vcpu[c].bytes + 1 /\ counted'[r] = counted[r] + 1
        /\ \A p \in VPorts \ {r} : video_rx_bytes'[p] = video_rx_bytes[p] /\ counted'[p] = counted[p]
        /\ video_rx_bytes' \in [VPorts -> Nat] /\ counted' \in [VPorts -> Nat]
    <3>1. r \in VPorts /\ vcpu[c].bytes + 1 \in Nat /\ counted[r] + 1 \in Nat
      BY <1>0
    <3> HIDE DEF r
    <3> QED
      BY <1>0, <2>1, <3>1
  <2>3. vcpu[c].bytes <= counted[r] /\ (OnePortEach => vcpu[c].bytes = video_rx_bytes[r])
    BY <2>1 DEF TotalsInv
  <2>4. \A p \in VPorts : video_rx_bytes'[p] <= counted'[p]
    <3>1. \A p \in VPorts : video_rx_bytes[p] <= counted[p]
      BY DEF TotalsInv
    <3>2. vcpu[c].bytes \in Nat /\ counted[r] \in Nat
      BY <1>0
    <3> HIDE DEF r
    <3> TAKE p \in VPorts
    <3>3. CASE p = r
      BY <2>2, <2>3, <3>2, <3>3
    <3>4. CASE p # r
      BY <2>2, <3>1, <3>4
    <3> QED
      BY <3>3, <3>4
  <2>5. ASSUME NEW d \in Cores, vcpu'[d].pc = "store bytes"
        PROVE  /\ vcpu'[d].bytes <= counted'[rx_port[d]]
               /\ OnePortEach => vcpu'[d].bytes = video_rx_bytes'[rx_port[d]]
    <3>1. d # c /\ vcpu'[d] = vcpu[d] /\ vcpu[d].pc = "store bytes"
      BY <1>1, <2>1, <2>5
    <3>2. vcpu[d].bytes <= counted[rx_port[d]] /\ (OnePortEach => vcpu[d].bytes = video_rx_bytes[rx_port[d]])
      BY <3>1 DEF TotalsInv
    <3>3. OnePortEach => rx_port[d] # r
      BY <3>1 DEF OnePortEach
    <3>4. rx_port[d] \in VPorts /\ counted[rx_port[d]] \in Nat /\ vcpu[d].bytes \in Nat
      BY <1>0
    <3> DEFINE e == rx_port[d]
    <3>5. counted[e] <= counted'[e]
      <4>1. counted[r] \in Nat
        BY <1>0
      <4> HIDE DEF r
      <4>2. CASE e = r
        BY <2>2, <4>1, <4>2
      <4>3. CASE e # r
        BY <2>2, <3>4, <4>3
      <4> QED
        BY <4>2, <4>3
    <3>6. OnePortEach => video_rx_bytes'[e] = video_rx_bytes[e]
      BY <2>2, <3>3, <3>4
    <3>7. counted'[e] \in Nat
      BY <2>2, <3>4
    <3> HIDE DEF e, r
    <3>8. vcpu[d].bytes <= counted'[e]
      BY <3>2, <3>4, <3>5, <3>7 DEF e
    <3>9. OnePortEach => vcpu[d].bytes = video_rx_bytes'[e]
      BY <3>2, <3>6 DEF e
    <3> QED
      BY <3>1, <3>8, <3>9 DEF e
  <2>6. OnePortEach => \A p \in VPorts : video_rx_bytes'[p] = counted'[p]
    BY <1>0, <2>2, <2>3 DEF TotalsInv
  <2>7. OnePortEach => video_rx_bytes' = counted'
    BY <2>2, <2>6
  <2> QED
    BY <1>1, <2>4, <2>5, <2>7 DEF TotalsInv
<1>4. CASE ~VUnlock(c) /\ ~StoreBytes(c)
  <2>1. vcpu'[c].pc # "store bytes" /\ UNCHANGED <<video_rx_bytes, counted>>
    <3>1. UNCHANGED <<video_rx_bytes, counted>>
      BY <1>4 DEF CoreActs, VideoStep, VTake, VLock, LoadMap, StoreMap, Compare, SendOn
    <3>2. vcpu[c].pc # "unlock"
      BY <1>4 DEF CoreActs, VideoStep, VTake, VLock, LoadMap, StoreMap, Compare, SendOn
    <3> QED
      BY <3>1, <3>2, CoreGoes
  <2> QED
    BY <1>0, <1>1, <2>1 DEF TotalsInv
<1> QED
  BY <1>2, <1>3, <1>4

-----------------------------------------------------------------------------
(* Counting bits word by word. *)

LEMMA WordsExist ==
    /\ NbWords \in Nat \ {0}
    /\ \A d \in VideoPorts : VideoWord[d] \in 1 .. NbWords
<1>1. PICK d \in VideoPorts : TRUE
  BY WordsAssumption
<1>2. VideoWord[d] \in 1 .. NbWords /\ Range(VideoWord) = {VideoWord[e] : e \in VideoPorts}
  BY WordsAssumption DEF Range
<1>3. IsFiniteSet(Range(VideoWord))
  <2>1. VideoWord \in Surjection(VideoPorts, Range(VideoWord))
    BY WordsAssumption DEF Surjection, Range
  <2> QED
    BY <2>1, WordsAssumption, FS_Surjection
<1>4. NbWords \in Nat
  BY <1>3, FS_CardinalityType DEF NbWords
<1> QED
  BY <1>2, <1>4, WordsAssumption

LEMMA MoreBits ==
    ASSUME NEW S, NEW T, S \subseteq T, T \subseteq VideoPorts, NEW i \in Nat
    PROVE  /\ Cardinality(S) <= Cardinality(T)
           /\ Passed(S, i) \in Nat /\ Passed(T, i) \in Nat /\ Passed(S, i) <= Passed(T, i)
           /\ Ahead(S, i) \in Nat /\ Ahead(T, i) \in Nat /\ Ahead(S, i) <= Ahead(T, i)
<1>1. IsFiniteSet(T) /\ IsFiniteSet(S)
  BY VideoFinite
<1>2. \A A, B : A \subseteq B /\ B \subseteq T =>
          Cardinality(A) \in Nat /\ Cardinality(B) \in Nat /\ Cardinality(A) <= Cardinality(B)
  <2> TAKE A, B
  <2> HAVE A \subseteq B /\ B \subseteq T
  <2>1. IsFiniteSet(B) /\ IsFiniteSet(A)
    BY <1>1, FS_Subset
  <2> QED
    BY <2>1, FS_Subset, FS_CardinalityType
<1>3. \A j : /\ Below(S, j) \subseteq Below(T, j) /\ Below(T, j) \subseteq T
             /\ Above(S, j) \subseteq Above(T, j) /\ Above(T, j) \subseteq T
  BY DEF Below, Above
<1>4. \A j : /\ Cardinality(Below(S, j)) \in Nat /\ Cardinality(Below(T, j)) \in Nat
             /\ Cardinality(Below(S, j)) <= Cardinality(Below(T, j))
             /\ Cardinality(Above(S, j)) \in Nat /\ Cardinality(Above(T, j)) \in Nat
             /\ Cardinality(Above(S, j)) <= Cardinality(Above(T, j))
  BY <1>2, <1>3
<1>5. Cardinality(S) \in Nat /\ Cardinality(T) \in Nat /\ Cardinality(S) <= Cardinality(T)
  BY <1>2
<1> QED
  BY <1>4, <1>5, WordsExist DEF Passed, Ahead

\* The bits of one word more are those of that word.
LEMMA OneWordMore ==
    ASSUME NEW S, S \subseteq VideoPorts, NEW j \in Nat
    PROVE  /\ Cardinality(Below(S, j + 1)) = Cardinality(Below(S, j)) + Cardinality(S \cap Bits(j + 1))
           /\ Cardinality(Above(S, j)) = Cardinality(S \cap Bits(j + 1)) + Cardinality(Above(S, j + 1))
           /\ Cardinality(S \cap Bits(j + 1)) \in Nat
           /\ Cardinality(Below(S, j)) \in Nat /\ Cardinality(Above(S, j)) \in Nat
           /\ Cardinality(Below(S, j + 1)) \in Nat /\ Cardinality(Above(S, j + 1)) \in Nat
<1> DEFINE A == Below(S, j)
           B == S \cap Bits(j + 1)
           C == Above(S, j + 1)
<1>1. \A d \in S : VideoWord[d] \in Int
  BY WordsExist
<1>2. Below(S, j + 1) = A \cup B /\ A \cap B = {}
  BY <1>1 DEF Below, Bits
<1>3. Above(S, j) = B \cup C /\ B \cap C = {}
  BY <1>1 DEF Above, Bits
<1>4. IsFiniteSet(A) /\ IsFiniteSet(B) /\ IsFiniteSet(C)
  <2>1. A \subseteq VideoPorts /\ B \subseteq VideoPorts /\ C \subseteq VideoPorts
    BY DEF Below, Above
  <2> QED
    BY <2>1, VideoFinite
<1> HIDE DEF A, B, C
<1>5. Cardinality(A) \in Nat /\ Cardinality(B) \in Nat /\ Cardinality(C) \in Nat
  BY <1>4, FS_CardinalityType
<1>6. Cardinality(A \cup B) = Cardinality(A) + Cardinality(B)
  <2>1. Cardinality(A \cap B) = 0
    BY <1>2, FS_EmptySet
  <2>2. Cardinality(A \cup B) = Cardinality(A) + Cardinality(B) - Cardinality(A \cap B)
    BY <1>4, FS_Union
  <2> QED
    BY <1>5, <2>1, <2>2
<1>7. Cardinality(B \cup C) = Cardinality(B) + Cardinality(C)
  <2>1. Cardinality(B \cap C) = 0
    BY <1>3, FS_EmptySet
  <2>2. Cardinality(B \cup C) = Cardinality(B) + Cardinality(C) - Cardinality(B \cap C)
    BY <1>4, FS_Union
  <2> QED
    BY <1>5, <2>1, <2>2
<1> QED
  BY <1>2, <1>3, <1>5, <1>6, <1>7 DEF A, B, C

LEMMA AllWords ==
    ASSUME NEW S, S \subseteq VideoPorts
    PROVE  /\ Below(S, 0) = {} /\ Above(S, 0) = S
           /\ Below(S, NbWords) = S /\ Above(S, NbWords) = {}
           /\ Cardinality({}) = 0 /\ Cardinality(S) \in Nat
<1>1. \A d \in S : VideoWord[d] \in 1 .. NbWords
  BY WordsExist
<1>2. NbWords \in Nat
  BY WordsExist
<1>3. Below(S, 0) = {} /\ Above(S, 0) = S
  BY <1>1, <1>2 DEF Below, Above
<1>4. Below(S, NbWords) = S /\ Above(S, NbWords) = {}
  BY <1>1, <1>2 DEF Below, Above
<1> QED
  BY <1>3, <1>4, FS_EmptySet, VideoFinite

LEMMA Rounds ==
    ASSUME NEW S, S \subseteq VideoPorts
    PROVE  /\ Passed(S, 0) = 0 /\ Ahead(S, 0) = 2 * Cardinality(S)
           /\ Passed(S, 2 * NbWords) = 2 * Cardinality(S) /\ Ahead(S, 2 * NbWords) = 0
           /\ \A i \in 0 .. 2 * NbWords - 1 :
                 LET k == Cardinality(S \cap Bits(1 + (i % NbWords)))
                 IN  k \in Nat /\ Passed(S, i + 1) = Passed(S, i) + k /\ Ahead(S, i) = k + Ahead(S, i + 1)
<1> DEFINE N == NbWords
<1>1. N \in Nat \ {0}
  BY WordsExist
<1>2. /\ Cardinality(Below(S, 0)) = 0 /\ Cardinality(Above(S, 0)) = Cardinality(S)
      /\ Cardinality(Below(S, N)) = Cardinality(S) /\ Cardinality(Above(S, N)) = 0
      /\ Cardinality(S) \in Nat
  BY AllWords
<1>3. \A i \in 0 .. N : /\ Passed(S, i) = Cardinality(Below(S, i))
                        /\ Ahead(S, i) = Cardinality(S) + Cardinality(Above(S, i))
  BY <1>1 DEF Passed, Ahead
<1>4. \A i \in N .. 2 * N : /\ Passed(S, i) = Cardinality(S) + Cardinality(Below(S, i - N))
                            /\ Ahead(S, i) = Cardinality(Above(S, i - N))
  <2> TAKE i \in N .. 2 * N
  <2>1. CASE i = N
    <3>1. i - N = 0 /\ i <= NbWords
      BY <1>1, <2>1
    <3> QED
      BY <1>2, <2>1, <3>1 DEF Passed, Ahead
  <2>2. CASE i # N
    <3>1. ~(i <= NbWords)
      BY <1>1, <2>2
    <3> QED
      BY <3>1 DEF Passed, Ahead
  <2> QED
    BY <2>1, <2>2
<1>5. ASSUME NEW i \in 0 .. 2 * N - 1
      PROVE  LET k == Cardinality(S \cap Bits(1 + (i % N)))
             IN  k \in Nat /\ Passed(S, i + 1) = Passed(S, i) + k /\ Ahead(S, i) = k + Ahead(S, i + 1)
  <2> DEFINE k == Cardinality(S \cap Bits(1 + (i % N)))
  <2>1. CASE i < N
    <3>1. i % N = i /\ i \in Nat /\ i \in 0 .. N /\ i + 1 \in 0 .. N
      BY <1>1, <2>1
    <3>2. k = Cardinality(S \cap Bits(i + 1))
      <4>1. 1 + (i % N) = i + 1
        BY <3>1
      <4> QED
        BY <4>1
    <3> HIDE DEF k, N
    <3>3. /\ Cardinality(Below(S, i + 1)) = Cardinality(Below(S, i)) + k
          /\ Cardinality(Above(S, i)) = k + Cardinality(Above(S, i + 1))
          /\ k \in Nat /\ Cardinality(Above(S, i + 1)) \in Nat
      BY <3>1, <3>2, OneWordMore
    <3>4. k \in Nat /\ Passed(S, i + 1) = Passed(S, i) + k /\ Ahead(S, i) = k + Ahead(S, i + 1)
      BY <1>2, <1>3, <3>1, <3>3
    <3> QED
      BY <3>4 DEF k, N
  <2>2. CASE ~(i < N)
    <3> DEFINE j == i - N
    <3>1. /\ j \in Nat /\ i \in N .. 2 * N /\ i + 1 \in N .. 2 * N
          /\ (i + 1) - N = j + 1 /\ j \in 0 .. N - 1 /\ i = N + j
      BY <1>1, <2>2
    <3>2. i % N = j
      <4>1. i = N * 1 + j
        BY <1>1, <3>1
      <4> HIDE DEF N, j
      <4> QED
        BY <1>1, <3>1, <4>1, SMTT(30)
    <3>3. k = Cardinality(S \cap Bits(j + 1))
      <4>1. 1 + (i % N) = j + 1
        BY <3>1, <3>2
      <4> HIDE DEF j
      <4> QED
        BY <4>1
    <3> HIDE DEF k, N, j
    <3>4. /\ Cardinality(Below(S, j + 1)) = Cardinality(Below(S, j)) + k
          /\ Cardinality(Above(S, j)) = k + Cardinality(Above(S, j + 1))
          /\ k \in Nat /\ Cardinality(Below(S, j)) \in Nat
      BY <3>1, <3>3, OneWordMore
    <3>5. /\ Passed(S, i) = Cardinality(S) + Cardinality(Below(S, j))
          /\ Passed(S, i + 1) = Cardinality(S) + Cardinality(Below(S, j + 1))
          /\ Ahead(S, i) = Cardinality(Above(S, j)) /\ Ahead(S, i + 1) = Cardinality(Above(S, j + 1))
      BY <1>4, <3>1 DEF j
    <3>6. k \in Nat /\ Passed(S, i + 1) = Passed(S, i) + k /\ Ahead(S, i) = k + Ahead(S, i + 1)
      BY <1>2, <3>4, <3>5
    <3> QED
      BY <3>6 DEF k, N
  <2> QED
    BY <2>1, <2>2
<1>6. Passed(S, 0) = 0 /\ Ahead(S, 0) = 2 * Cardinality(S)
  BY <1>1, <1>2, <1>3
<1>7. Passed(S, 2 * N) = 2 * Cardinality(S) /\ Ahead(S, 2 * N) = 0
  <2>1. 2 * N \in N .. 2 * N /\ 2 * N - N = N
    BY <1>1
  <2> QED
    BY <1>2, <1>4, <2>1
<1> QED
  BY <1>5, <1>6, <1>7

LEMMA NumByCore ==
    ASSUME VType, MapInv, NumInv, NEW c \in Cores, CoreActs(c)
    PROVE  NumInv'
<1>1. noted \subseteq noted' /\ noted' \subseteq VideoPorts /\ UNCHANGED <<vhttp, video_rep>>
  BY VTypeByCore, VCpuStays DEF VType, HttpAlone
<1>2. /\ vhttp.i \in Nat /\ vhttp.count \in Nat /\ vhttp.least \in Nat
      /\ video_rep.num \in Nat
  BY DEF VType, VHttps
<1>3. PICK n : n = noted'
  OBVIOUS
<1>4. /\ Cardinality(noted) <= Cardinality(n)
      /\ Passed(noted, vhttp.i) \in Nat /\ Passed(n, vhttp.i) \in Nat /\ Passed(noted, vhttp.i) <= Passed(n, vhttp.i)
      /\ Ahead(noted, vhttp.i) \in Nat /\ Ahead(n, vhttp.i) \in Nat /\ Ahead(noted, vhttp.i) <= Ahead(n, vhttp.i)
  BY <1>1, <1>2, <1>3, MoreBits
<1>5. Cardinality(noted) \in Nat /\ Cardinality(n) \in Nat
  BY <1>1, <1>3, VideoFinite
<1>6. vhttp.pc = "count" => /\ vhttp.i \in 0 .. 2 * NbWords - 1
                            /\ vhttp.count <= Passed(n, vhttp.i)
                            /\ 2 * vhttp.least <= vhttp.count + Ahead(n, vhttp.i)
  BY <1>2, <1>4 DEF NumInv
<1>7. /\ vhttp.pc \in {"sum", "answer"} => /\ 2 * vhttp.least <= vhttp.count
                                           /\ vhttp.count <= 2 * Cardinality(n)
      /\ 2 * video_rep.least <= video_rep.num
      /\ video_rep.num <= 2 * Cardinality(n)
  BY <1>2, <1>4, <1>5 DEF NumInv
<1>8. Passed(n, vhttp.i) = Passed(noted, vhttp.i)' /\ Ahead(n, vhttp.i) = Ahead(noted, vhttp.i)'
  BY <1>1, <1>3 DEF Passed, Ahead, Below, Above
<1> QED
  BY <1>1, <1>3, <1>6, <1>7, <1>8 DEF NumInv

-----------------------------------------------------------------------------
(* Adding up the totals port by port. *)

LEMMA PartsOfTotal ==
    ASSUME NEW f \in [VPorts -> Nat], NEW i \in 0 .. Cardinality(Cores)
    PROVE  /\ Cardinality(Cores) \in Nat \ {0}
           /\ SumFunctionOnSet(f, 1 .. i) \in Nat
           /\ SumFunctionOnSet(f, i + 1 .. Cardinality(Cores)) \in Nat
           /\ i # Cardinality(Cores) =>
                 /\ SumFunctionOnSet(f, 1 .. i + 1) = SumFunctionOnSet(f, 1 .. i) + f[i + 1]
                 /\ SumFunctionOnSet(f, i + 1 .. Cardinality(Cores))
                        = f[i + 1] + SumFunctionOnSet(f, (i + 1) + 1 .. Cardinality(Cores))
                 /\ f[i + 1] \in Nat
           /\ i = 0 => SumFunctionOnSet(f, 1 .. i) = 0
           /\ i = Cardinality(Cores) => SumFunctionOnSet(f, i + 1 .. Cardinality(Cores)) = 0
<1> DEFINE N == Cardinality(Cores)
           A == 1 .. i
           B == i + 1 .. N
<1>1. N \in Nat \ {0}
  BY CoresAreFew, FS_CardinalityType, FS_EmptySet
<1>2. \A p \in 1 .. N : f[p] \in Nat
  BY DEF VPorts
<1>3. i \in Nat /\ i <= N
  BY <1>1
<1>4. IsFiniteSet(A) /\ IsFiniteSet(B) /\ (\A p \in A : f[p] \in Nat) /\ (\A p \in B : f[p] \in Nat)
  <2>1. A \subseteq 1 .. N /\ B \subseteq 1 .. N
    BY <1>1, <1>3
  <2>2. IsFiniteSet(A) /\ IsFiniteSet(B)
    BY <1>1, <1>3, FS_Interval
  <2> HIDE DEF A, B
  <2> QED
    BY <1>2, <2>1, <2>2
<1>5. SumFunctionOnSet(f, A) \in Nat /\ SumFunctionOnSet(f, B) \in Nat
  <2> HIDE DEF A, B
  <2> QED
    BY <1>4, SumIsNat
<1>6. CASE i # N
  <2> DEFINE C == 1 .. i + 1
             D == (i + 1) + 1 .. N
             k == i + 1
  <2>1. k \in C /\ C \ {k} = A /\ C \subseteq 1 .. N /\ k \in B /\ B \ {k} = D
    BY <1>1, <1>3, <1>6
  <2>2. IsFiniteSet(C) /\ \A p \in C : f[p] \in Nat
    BY <1>2, <1>3, <2>1, FS_Interval
  <2> HIDE DEF A, B, C, D, k
  <2>3. SumFunctionOnSet(f, C) = f[k] + SumFunctionOnSet(f, A)
    <3>1. SumFunctionOnSet(f, C) = f[k] + SumFunctionOnSet(f, C \ {k})
      BY <2>1, <2>2, SumByAny
    <3> QED
      BY <2>1, <3>1
  <2>4. SumFunctionOnSet(f, B) = f[k] + SumFunctionOnSet(f, D)
    <3>1. SumFunctionOnSet(f, B) = f[k] + SumFunctionOnSet(f, B \ {k})
      BY <1>4, <2>1, SumByAny
    <3> QED
      BY <2>1, <3>1
  <2>5. f[k] \in Nat
    BY <2>1, <2>2
  <2>6. SumFunctionOnSet(f, C) = SumFunctionOnSet(f, A) + f[k]
    BY <1>5, <2>3, <2>5
  <2>7. i # 0 \/ SumFunctionOnSet(f, A) = 0
    <3>1. i = 0 => A = {}
      BY DEF A
    <3> QED
      BY <3>1, SumOfNone
  <2> QED
    BY <1>1, <1>5, <1>6, <2>4, <2>5, <2>6, <2>7 DEF A, B, C, D, k
<1>7. CASE i = N
  <2>1. B = {} /\ i # 0
    BY <1>1, <1>7
  <2>2. SumFunctionOnSet(f, B) = 0
    BY <2>1, SumOfNone
  <2> QED
    BY <1>1, <1>5, <1>7, <2>1, <2>2
<1> QED
  BY <1>6, <1>7

LEMMA BytesByCore ==
    ASSUME VType, MapInv, BytesInv, NEW c \in Cores, CoreActs(c)
    PROVE  BytesInv'
<1> DEFINE N == Cardinality(Cores)
<1>1. /\ UNCHANGED <<vhttp, video_rep, prev_video_rx_bytes, rx_port>>
      /\ counted \in [VPorts -> Nat] /\ counted' \in [VPorts -> Nat]
      /\ \A p \in VPorts : counted[p] <= counted'[p]
  BY VTypeByCore, VCpuStays DEF VType, HttpAlone
<1>2. /\ vhttp.i \in Nat /\ vhttp.bytes \in Nat /\ prev_video_rx_bytes \in Nat
  BY DEF VType, VHttps
<1>3. N \in Nat \ {0}
  BY CoresAreFew, FS_CardinalityType, FS_EmptySet
<1>4. PICK f, g : f = counted /\ g = counted'
  OBVIOUS
<1>5. f \in [VPorts -> Nat] /\ g \in [VPorts -> Nat] /\ \A p \in VPorts : f[p] <= g[p]
  BY <1>1, <1>4
<1>6. \A S \in SUBSET VPorts : SumFunctionOnSet(f, S) <= SumFunctionOnSet(g, S)
  <2> TAKE S \in SUBSET VPorts
  <2>1. IsFiniteSet(VPorts)
    BY <1>3, FS_Interval DEF VPorts
  <2>2. IsFiniteSet(S)
    BY <2>1, FS_Subset
  <2>3. \A p \in S : f[p] \in Nat /\ g[p] \in Nat /\ f[p] <= g[p]
    BY <1>5
  <2> QED
    BY <2>2, <2>3, SumOfSmaller
<1>7. \A i \in 0 .. N : /\ UpTo(i) \in Nat /\ Behind(i) \in Nat
                        /\ UpTo(i)' \in Nat /\ Behind(i)' \in Nat
                        /\ UpTo(i) <= UpTo(i)' /\ Behind(i) <= Behind(i)'
  <2> TAKE i \in 0 .. N
  <2>1. 1 .. i \subseteq VPorts /\ i + 1 .. N \subseteq VPorts
    BY <1>3 DEF VPorts
  <2>2. /\ SumFunctionOnSet(f, 1 .. i) \in Nat /\ SumFunctionOnSet(f, i + 1 .. N) \in Nat
        /\ SumFunctionOnSet(g, 1 .. i) \in Nat /\ SumFunctionOnSet(g, i + 1 .. N) \in Nat
    BY <1>5, PartsOfTotal
  <2> QED
    BY <1>4, <1>6, <2>1, <2>2 DEF UpTo, Behind
<1>8. OnePortEach' <=> OnePortEach
  BY <1>1 DEF OnePortEach
<1>9. CASE OnePortEach
  <2>1. 0 \in 0 .. N
    BY <1>3
  <2>2. /\ video_rep.bytes = prev_video_rx_bytes /\ prev_video_rx_bytes <= Behind(0)'
        /\ vhttp.pc \in {"idle", "count"} => vhttp.bytes = 0
        /\ vhttp.pc = "answer" => vhttp.bytes <= Behind(0)' /\ prev_video_rx_bytes <= vhttp.bytes
    BY <1>2, <1>7, <1>9, <2>1 DEF BytesInv
  <2>3. vhttp.pc = "sum" => /\ vhttp.bytes <= UpTo(vhttp.i)'
                            /\ prev_video_rx_bytes <= vhttp.bytes + Behind(vhttp.i)'
    <3> SUFFICES ASSUME vhttp.pc = "sum"
                 PROVE  /\ vhttp.bytes <= UpTo(vhttp.i)'
                        /\ prev_video_rx_bytes <= vhttp.bytes + Behind(vhttp.i)'
      OBVIOUS
    <3>1. /\ vhttp.i < N
          /\ vhttp.bytes <= UpTo(vhttp.i)
          /\ prev_video_rx_bytes <= vhttp.bytes + Behind(vhttp.i)
      BY <1>9 DEF BytesInv, VType
    <3>2. PICK i : i = vhttp.i
      OBVIOUS
    <3>3. i \in 0 .. N
      BY <1>2, <1>3, <3>1, <3>2
    <3>4. vhttp.bytes <= UpTo(i)' /\ prev_video_rx_bytes <= vhttp.bytes + Behind(i)'
      <4>1. vhttp.bytes <= UpTo(i) /\ prev_video_rx_bytes <= vhttp.bytes + Behind(i)
        BY <3>1, <3>2
      <4>2. /\ UpTo(i) \in Nat /\ Behind(i) \in Nat /\ UpTo(i)' \in Nat /\ Behind(i)' \in Nat
            /\ UpTo(i) <= UpTo(i)' /\ Behind(i) <= Behind(i)'
        BY <1>7, <3>3
      <4> QED
        BY <1>2, <4>1, <4>2
    <3>5. UpTo(i)' = UpTo(vhttp.i)' /\ Behind(i)' = Behind(vhttp.i)'
      BY <1>1, <3>2 DEF UpTo, Behind
    <3> QED
      BY <3>1, <3>4, <3>5
  <2> QED
    BY <1>1, <1>8, <2>2, <2>3 DEF BytesInv
<1> QED
  BY <1>8, <1>9 DEF BytesInv

-----------------------------------------------------------------------------
(* The HTTP server. *)

\* What the cores keep does not matter to a request, and is left alone by it.
LEMMA CoresUntouched ==
    ASSUME MapInv, TotalsInv, VideoRequest
    PROVE  MapInv' /\ TotalsInv' /\ CoresAlone /\ (OnePortEach' <=> OnePortEach)
<1>1. CoresAlone
  BY DEF VideoRequest, VideoId, Video, CountBits, SumBytes, Answer
<1>2. MapInv'
  BY <1>1 DEF MapInv, CoresAlone
<1>3. OnePortEach' <=> OnePortEach
  BY <1>1 DEF CoresAlone, OnePortEach
<1>4. TotalsInv'
  BY <1>1, <1>3 DEF TotalsInv, CoresAlone
<1> QED
  BY <1>1, <1>2, <1>3, <1>4

\* What a step of a request makes of it
LEMMA RequestGoes ==
    ASSUME VType, VideoRequest
    PROVE  LET N == Cardinality(Cores)
           IN  \/ UNCHANGED <<vhttp, prev_video_rx_bytes, video_rep>>
               \/ /\ vhttp.pc = "idle" /\ UNCHANGED <<prev_video_rx_bytes, video_rep>>
                  /\ vhttp' = [pc |-> "count", i |-> 0, count |-> 0, bytes |-> 0, least |-> Cardinality(noted)]
               \/ /\ vhttp.pc = "count" /\ UNCHANGED <<prev_video_rx_bytes, video_rep>>
                  /\ vhttp'.count = vhttp.count + Cardinality(video_map \cap Bits(1 + (vhttp.i % NbWords)))
                  /\ vhttp'.bytes = vhttp.bytes /\ vhttp'.least = vhttp.least
                  /\ \/ vhttp.i + 1 = 2 * NbWords /\ vhttp'.i = 0 /\ vhttp'.pc = "sum"
                     \/ vhttp.i + 1 # 2 * NbWords /\ vhttp'.i = vhttp.i + 1 /\ vhttp'.pc = "count"
               \/ /\ vhttp.pc = "sum" /\ UNCHANGED <<prev_video_rx_bytes, video_rep>>
                  /\ vhttp'.bytes = vhttp.bytes + video_rx_bytes[vhttp.i + 1]
                  /\ vhttp'.count = vhttp.count /\ vhttp'.least = vhttp.least /\ vhttp'.i = vhttp.i + 1
                  /\ \/ vhttp.i + 1 = N /\ vhttp'.pc = "answer"
                     \/ vhttp.i + 1 # N /\ vhttp'.pc = "sum"
               \/ /\ vhttp.pc = "answer" /\ vhttp' = IdleVHttp
                  /\ video_rep' = [num |-> vhttp.count, least |-> vhttp.least, bytes |-> video_rep.bytes + Grown]
                  /\ prev_video_rx_bytes' = vhttp.bytes
<1>0. vhttp \in VHttps
  BY DEF VType
<1>1. CASE \E id \in VideoIds : VideoId(id)
  BY <1>1 DEF VideoId
<1>2. CASE Video
  BY <1>2 DEF Video, IdleVHttp
<1>3. CASE CountBits
  BY <1>0, <1>3 DEF CountBits, VHttps
<1>4. CASE SumBytes
  BY <1>0, <1>4 DEF SumBytes, VHttps
<1>5. CASE Answer
  BY <1>5 DEF Answer
<1> QED
  BY <1>1, <1>2, <1>3, <1>4, <1>5 DEF VideoRequest

LEMMA VTypeByRequest ==
    ASSUME VType, MapInv, TotalsInv, VideoRequest
    PROVE  VType'
<1>0. /\ vhttp \in VHttps /\ prev_video_rx_bytes \in Nat
      /\ video_rep \in [num : Nat, least : Nat, bytes : Nat]
      /\ \A p \in VPorts : video_rx_bytes[p] \in Nat
      /\ video_map \subseteq VideoPorts /\ noted \subseteq VideoPorts
      /\ Cardinality(noted) \in Nat
      /\ Cardinality(video_map \cap Bits(1 + (vhttp.i % NbWords))) \in Nat
  <2> DEFINE B == video_map \cap Bits(1 + (vhttp.i % NbWords))
  <2>1. noted \subseteq VideoPorts /\ B \subseteq VideoPorts /\ video_map \subseteq VideoPorts
    BY DEF VType, MapInv, Bits
  <2>2. Cardinality(noted) \in Nat /\ Cardinality(B) \in Nat
    <3> HIDE DEF B
    <3> QED
      BY <2>1, VideoFinite
  <2> QED
    BY <2>1, <2>2 DEF VType, VHttps
<1>1. /\ IdleVHttp \in VHttps
      /\ [pc |-> "count", i |-> 0, count |-> 0, bytes |-> 0, least |-> Cardinality(noted)] \in VHttps
  BY <1>0 DEF VHttps, IdleVHttp
<1>2. vhttp' \in VHttps
  <2>1. CASE CountBits
    <3> DEFINE k == Cardinality(video_map \cap Bits(1 + (vhttp.i % NbWords)))
    <3>1. k \in Nat /\ vhttp.count + k \in Nat /\ vhttp.i + 1 \in Nat
      BY <1>0 DEF VHttps
    <3>2. vhttp' = [vhttp EXCEPT !.count = vhttp.count + k,
                                 !.i = IF vhttp.i + 1 = 2 * NbWords THEN 0 ELSE vhttp.i + 1,
                                 !.pc = IF vhttp.i + 1 = 2 * NbWords THEN "sum" ELSE vhttp.pc]
      BY <2>1 DEF CountBits
    <3> HIDE DEF k
    <3> QED
      BY <1>0, <3>1, <3>2 DEF VHttps
  <2>2. CASE SumBytes
    <3> DEFINE b == video_rx_bytes[vhttp.i + 1]
    <3>1. vhttp.i + 1 \in VPorts /\ vhttp.i + 1 \in Nat
      <4>1. vhttp.i \in Nat /\ vhttp.i < Cardinality(Cores) /\ Cardinality(Cores) \in Nat
        BY <2>2, CoresAreFew, FS_CardinalityType DEF SumBytes, VType, VHttps
      <4> QED
        BY <4>1 DEF VPorts
    <3>2. vhttp.bytes + b \in Nat
      BY <1>0, <3>1 DEF VHttps
    <3>3. vhttp' = [vhttp EXCEPT !.bytes = vhttp.bytes + b,
                                 !.i = vhttp.i + 1,
                                 !.pc = IF vhttp.i + 1 = Cardinality(Cores) THEN "answer" ELSE vhttp.pc]
      BY <2>2 DEF SumBytes
    <3> HIDE DEF b
    <3> QED
      BY <1>0, <3>1, <3>2, <3>3 DEF VHttps
  <2>3. CASE ~CountBits /\ ~SumBytes
    <3>1. \/ vhttp' = vhttp
          \/ vhttp' = IdleVHttp
          \/ vhttp' = [pc |-> "count", i |-> 0, count |-> 0, bytes |-> 0, least |-> Cardinality(noted)]
      BY <2>3 DEF VideoRequest, VideoId, Video, Answer, IdleVHttp
    <3> QED
      BY <1>0, <1>1, <3>1
  <2> QED
    BY <2>1, <2>2, <2>3
<1>3. prev_video_rx_bytes' \in Nat /\ video_rep' \in [num : Nat, least : Nat, bytes : Nat]
  <2>1. CASE Answer
    <3>1. Grown \in Nat
      BY <1>0 DEF Grown, VHttps
    <3>2. vhttp.count \in Nat /\ vhttp.least \in Nat /\ vhttp.bytes \in Nat /\ video_rep.bytes + Grown \in Nat
      BY <1>0, <3>1 DEF VHttps
    <3>3. /\ video_rep' = [num |-> vhttp.count, least |-> vhttp.least, bytes |-> video_rep.bytes + Grown]
          /\ prev_video_rx_bytes' = vhttp.bytes
      BY <2>1 DEF Answer
    <3> QED
      BY <3>2, <3>3
  <2>2. CASE ~Answer
    BY <1>0, <2>2 DEF VideoRequest, VideoId, Video, CountBits, SumBytes
  <2> QED
    BY <2>1, <2>2
<1>4. CoresAlone
  BY CoresUntouched
<1>5. vhttp'.pc = "sum" => vhttp'.i < Cardinality(Cores)
  <2>1. Cardinality(Cores) \in Nat \ {0}
    BY CoresAreFew, FS_CardinalityType, FS_EmptySet
  <2>2. vhttp.i \in Nat /\ (vhttp.pc = "sum" => vhttp.i < Cardinality(Cores))
    BY DEF VType, VHttps
  <2> QED
    BY <2>1, <2>2, RequestGoes DEF IdleVHttp
<1> QED
  BY <1>2, <1>3, <1>4, <1>5 DEF VType, VHttps, CoresAlone

LEMMA NumByRequest ==
    ASSUME VType, MapInv, TotalsInv, NumInv, VideoRequest
    PROVE  NumInv'
<1>0. /\ noted \subseteq VideoPorts /\ video_map = noted /\ Cardinality(noted) \in Nat /\ noted' = noted
      /\ vhttp.count \in Nat /\ vhttp.least \in Nat /\ vhttp.i \in Nat /\ video_rep.num \in Nat
      /\ NbWords \in Nat \ {0}
  BY VideoFinite, CoresUntouched, WordsExist DEF VType, VHttps, MapInv, CoresAlone
<1> DEFINE c == Cardinality(noted)
           Counts(i, n, l) == /\ i \in 0 .. 2 * NbWords - 1
                              /\ n <= Passed(noted, i)
                              /\ 2 * l <= n + Ahead(noted, i)
<1>1. /\ vhttp'.pc = "count" => Counts(vhttp'.i, vhttp'.count, vhttp'.least)
      /\ vhttp'.pc \in {"sum", "answer"} => 2 * vhttp'.least <= vhttp'.count /\ vhttp'.count <= 2 * c
      /\ 2 * video_rep'.least <= video_rep'.num
      /\ video_rep'.num <= 2 * c
  <2>1. CASE UNCHANGED <<vhttp, video_rep>>
    BY <2>1 DEF NumInv
  <2>2. CASE /\ UNCHANGED video_rep
             /\ vhttp' = [pc |-> "count", i |-> 0, count |-> 0, bytes |-> 0, least |-> Cardinality(noted)]
    <3>1. Counts(0, 0, Cardinality(noted))
      BY <1>0, Rounds
    <3> QED
      BY <2>2, <3>1 DEF NumInv
  <2>3. CASE /\ vhttp.pc = "count" /\ UNCHANGED video_rep
             /\ vhttp'.count = vhttp.count + Cardinality(video_map \cap Bits(1 + (vhttp.i % NbWords)))
             /\ vhttp'.least = vhttp.least
             /\ \/ vhttp.i + 1 = 2 * NbWords /\ vhttp'.i = 0 /\ vhttp'.pc = "sum"
                \/ vhttp.i + 1 # 2 * NbWords /\ vhttp'.i = vhttp.i + 1 /\ vhttp'.pc = "count"
    <3> DEFINE i == vhttp.i
               k == Cardinality(noted \cap Bits(1 + (i % NbWords)))
    <3>1. i \in 0 .. 2 * NbWords - 1 /\ vhttp.count <= Passed(noted, i) /\ 2 * vhttp.least <= vhttp.count + Ahead(noted, i)
      BY <2>3 DEF NumInv
    <3>2. k \in Nat /\ Passed(noted, i + 1) = Passed(noted, i) + k /\ Ahead(noted, i) = k + Ahead(noted, i + 1)
      BY <1>0, <3>1, Rounds
    <3>3. Passed(noted, i) \in Nat /\ Ahead(noted, i + 1) \in Nat
      BY <1>0, MoreBits
    <3>4. vhttp'.count = vhttp.count + k
      BY <1>0, <2>3
    <3> HIDE DEF k
    <3>5. vhttp'.count <= Passed(noted, i + 1) /\ 2 * vhttp'.least <= vhttp'.count + Ahead(noted, i + 1)
      BY <1>0, <2>3, <3>1, <3>2, <3>3, <3>4
    <3>6. CASE i + 1 = 2 * NbWords
      <4>1. Passed(noted, i + 1) = 2 * c /\ Ahead(noted, i + 1) = 0
        BY <1>0, <3>6, Rounds
      <4>2. vhttp'.pc = "sum" /\ 2 * vhttp'.least <= vhttp'.count /\ vhttp'.count <= 2 * c
        BY <1>0, <2>3, <3>2, <3>4, <3>5, <3>6, <4>1
      <4> QED
        BY <2>3, <4>2 DEF NumInv
    <3>7. CASE i + 1 # 2 * NbWords
      <4>1. Counts(vhttp'.i, vhttp'.count, vhttp'.least) /\ vhttp'.pc = "count"
        BY <1>0, <2>3, <3>1, <3>5, <3>7
      <4> QED
        BY <2>3, <4>1 DEF NumInv
    <3> QED
      BY <3>6, <3>7
  <2>4. CASE /\ vhttp.pc = "sum" /\ UNCHANGED video_rep
             /\ vhttp'.count = vhttp.count /\ vhttp'.least = vhttp.least
             /\ vhttp'.pc \in {"sum", "answer"}
    BY <2>4 DEF NumInv
  <2>5. CASE /\ vhttp.pc = "answer" /\ vhttp' = IdleVHttp
             /\ video_rep' = [num |-> vhttp.count, least |-> vhttp.least, bytes |-> video_rep.bytes + Grown]
    BY <2>5 DEF NumInv, IdleVHttp
  <2> QED
    BY <2>1, <2>2, <2>3, <2>4, <2>5, RequestGoes
<1> QED
  BY <1>0, <1>1 DEF NumInv, Passed, Ahead, Below, Above

LEMMA BytesByRequest ==
    ASSUME VType, MapInv, TotalsInv, BytesInv, VideoRequest
    PROVE  BytesInv'
<1> DEFINE N == Cardinality(Cores)
<1> SUFFICES ASSUME OnePortEach' PROVE BytesInv'
  BY DEF BytesInv
<1>0. /\ OnePortEach /\ counted' = counted /\ video_rx_bytes = counted /\ counted \in [VPorts -> Nat]
      /\ vhttp.i \in Nat /\ vhttp.bytes \in Nat /\ prev_video_rx_bytes \in Nat
      /\ vhttp.pc = "sum" => vhttp.i < N
      /\ N \in Nat \ {0}
  BY CoresUntouched, CoresAreFew, FS_CardinalityType, FS_EmptySet DEF VType, VHttps, TotalsInv, CoresAlone
<1>1. /\ video_rep.bytes = prev_video_rx_bytes /\ prev_video_rx_bytes <= Behind(0)
      /\ vhttp.pc \in {"idle", "count"} => vhttp.bytes = 0
      /\ vhttp.pc = "sum" => /\ vhttp.bytes <= UpTo(vhttp.i)
                             /\ prev_video_rx_bytes <= vhttp.bytes + Behind(vhttp.i)
      /\ vhttp.pc = "answer" => /\ vhttp.bytes <= Behind(0)
                                /\ prev_video_rx_bytes <= vhttp.bytes
  BY <1>0 DEF BytesInv
<1>2. /\ UpTo(0) = 0 /\ UpTo(N) = Behind(0) /\ Behind(N) = 0 /\ Behind(0) \in Nat
  <2>1. 0 \in 0 .. N /\ N \in 0 .. N /\ 0 + 1 = 1
    BY <1>0
  <2>2. /\ SumFunctionOnSet(counted, 1 .. 0) = 0
        /\ SumFunctionOnSet(counted, N + 1 .. N) = 0
        /\ SumFunctionOnSet(counted, 0 + 1 .. N) \in Nat
    BY <1>0, <2>1, PartsOfTotal
  <2> QED
    BY <2>1, <2>2 DEF UpTo, Behind
<1> DEFINE Good(h, p) == /\ p <= Behind(0)
                         /\ h.pc \in {"idle", "count"} => h.bytes = 0
                         /\ h.pc = "sum" => h.bytes <= UpTo(h.i) /\ p <= h.bytes + Behind(h.i)
                         /\ h.pc = "answer" => h.bytes <= Behind(0) /\ p <= h.bytes
<1>3. video_rep'.bytes = prev_video_rx_bytes' /\ Good(vhttp', prev_video_rx_bytes')
  <2>1. CASE UNCHANGED <<vhttp, video_rep, prev_video_rx_bytes>>
    BY <1>1, <2>1
  <2>2. CASE /\ vhttp.pc = "idle" /\ UNCHANGED <<prev_video_rx_bytes, video_rep>>
             /\ vhttp' = [pc |-> "count", i |-> 0, count |-> 0, bytes |-> 0, least |-> Cardinality(noted)]
    BY <1>1, <2>2
  <2>3. CASE /\ vhttp.pc = "count" /\ UNCHANGED <<prev_video_rx_bytes, video_rep>>
             /\ vhttp'.bytes = vhttp.bytes
             /\ \/ vhttp'.i = 0 /\ vhttp'.pc = "sum"
                \/ vhttp'.pc = "count"
    <3>1. vhttp.bytes = 0 /\ prev_video_rx_bytes <= Behind(0)
      BY <1>1, <2>3
    <3>2. prev_video_rx_bytes <= 0 + Behind(0) /\ 0 <= UpTo(0)
      BY <1>0, <1>2, <3>1
    <3>3. CASE vhttp'.i = 0 /\ vhttp'.pc = "sum"
      BY <1>1, <2>3, <3>1, <3>2, <3>3
    <3>4. CASE vhttp'.pc = "count"
      BY <1>1, <2>3, <3>1, <3>4
    <3> QED
      BY <2>3, <3>3, <3>4
  <2>4. CASE /\ vhttp.pc = "sum" /\ UNCHANGED <<prev_video_rx_bytes, video_rep>>
             /\ vhttp'.bytes = vhttp.bytes + video_rx_bytes[vhttp.i + 1]
             /\ vhttp'.i = vhttp.i + 1
             /\ \/ vhttp.i + 1 = N /\ vhttp'.pc = "answer"
                \/ vhttp.i + 1 # N /\ vhttp'.pc = "sum"
    <3> DEFINE i == vhttp.i
               b == counted[i + 1]
    <3>1. i \in 0 .. N /\ i # N
      BY <1>0, <2>4
    <3>2. /\ UpTo(i + 1) = UpTo(i) + b /\ Behind(i) = b + Behind(i + 1) /\ b \in Nat
          /\ UpTo(i) \in Nat /\ Behind(i) \in Nat
      BY <1>0, <3>1, PartsOfTotal DEF UpTo, Behind
    <3>3. Behind(i + 1) \in Nat
      <4>1. i + 1 \in 0 .. N
        BY <1>0, <3>1
      <4> QED
        BY <1>0, <4>1, PartsOfTotal DEF Behind
    <3>4. vhttp'.bytes = vhttp.bytes + b
      BY <1>0, <2>4
    <3> HIDE DEF b
    <3>5. vhttp'.bytes <= UpTo(i + 1) /\ prev_video_rx_bytes <= vhttp'.bytes + Behind(i + 1)
      BY <1>0, <1>1, <2>4, <3>2, <3>3, <3>4
    <3>6. CASE i + 1 = N /\ vhttp'.pc = "answer"
      <4>1. vhttp'.bytes <= Behind(0) /\ prev_video_rx_bytes <= vhttp'.bytes
        BY <1>0, <1>2, <3>2, <3>4, <3>5, <3>6
      <4> QED
        BY <1>1, <2>4, <3>6, <4>1
    <3>7. CASE vhttp'.pc = "sum"
      BY <1>1, <2>4, <3>5, <3>7
    <3> QED
      BY <2>4, <3>6, <3>7
  <2>5. CASE /\ vhttp.pc = "answer" /\ vhttp' = IdleVHttp
             /\ video_rep' = [num |-> vhttp.count, least |-> vhttp.least, bytes |-> video_rep.bytes + Grown]
             /\ prev_video_rx_bytes' = vhttp.bytes
    <3>1. video_rep.bytes + Grown = vhttp.bytes
      BY <1>0, <1>1, <2>5 DEF Grown
    <3>2. video_rep'.bytes = prev_video_rx_bytes'
      BY <2>5, <3>1
    <3>3. vhttp'.pc = "idle" /\ vhttp'.bytes = 0
      BY <2>5 DEF IdleVHttp
    <3> QED
      BY <1>1, <2>5, <3>2, <3>3
  <2> QED
    BY <2>1, <2>2, <2>3, <2>4, <2>5, RequestGoes
<1>4. Behind(0)' = Behind(0) /\ UpTo(vhttp.i)' = UpTo(vhttp'.i) /\ Behind(vhttp.i)' = Behind(vhttp'.i)
  BY <1>0 DEF UpTo, Behind
<1> QED
  BY <1>3, <1>4 DEF BytesInv

-----------------------------------------------------------------------------
LEMMA VInvHolds == Spec => []VInv
<1>1. Init => VInv
  BY VInitInv DEF Init
<1>2. VInv /\ [Next]_vars => VInv'
  <2> SUFFICES ASSUME VInv, [Next]_vars PROVE VInv'
    OBVIOUS
  <2>0. VType /\ MapInv /\ TotalsInv /\ NumInv /\ BytesInv
    BY DEF VInv
  <2>1. CASE UNCHANGED vvars
    <3>1. VType'
      BY <2>0, <2>1 DEF vvars, VType
    <3>2. MapInv' /\ TotalsInv'
      BY <2>0, <2>1 DEF vvars, MapInv, TotalsInv, OnePortEach
    <3>3. NumInv' /\ BytesInv'
      BY <2>0, <2>1 DEF vvars, NumInv, Passed, Ahead, Below, Above, BytesInv, UpTo, Behind, OnePortEach
    <3> QED
      BY <3>1, <3>2, <3>3 DEF VInv
  <2>2. ASSUME NEW c \in Cores, CoreActs(c)
        PROVE  VInv'
    BY <2>0, <2>2, VTypeByCore, MapByCore, TotalsByCore, NumByCore, BytesByCore DEF VInv
  <2>3. CASE VideoRequest
    BY <2>0, <2>3, CoresUntouched, VTypeByRequest, NumByRequest, BytesByRequest DEF VInv
  <2> QED
    BY <2>1, <2>2, <2>3, VideoSteps DEF CoreActs
<1> QED
  BY <1>1, <1>2, PTL DEF Spec

\* What the "video" request answers is real, for any number of cores, UDP ports and words: the
\* number is twice one between the UDP ports noted when it began and those noted since, and no
\* total is above what was counted; when every core has a port of its own the totals are what
\* was counted, and all growths answered add up to no more than that.
THEOREM VideoReportsAreReal == Spec => []VideoReportsReal
<1>1. VInv => VideoReportsReal
  <2> SUFFICES ASSUME VInv PROVE VideoReportsReal
    OBVIOUS
  <2>0. VType /\ TotalsInv /\ NumInv /\ BytesInv
    BY DEF VInv
  <2>1. counted \in [VPorts -> Nat] /\ DOMAIN counted = VPorts
    BY <2>0 DEF VType
  <2>2. 2 * video_rep.least <= video_rep.num /\ video_rep.num <= 2 * Cardinality(noted)
    BY <2>0 DEF NumInv
  <2>3. SumFunction(counted) = Behind(0)
    <3>1. SumFunction(counted) = SumFunctionOnSet(counted, VPorts)
      BY <2>1 DEF SumFunction, SumFunctionOnSet, FoldFunction
    <3>2. 0 + 1 = 1
      OBVIOUS
    <3> QED
      BY <3>1, <3>2 DEF Behind, VPorts
  <2>4. OnePortEach => video_rx_bytes = counted /\ video_rep.bytes <= SumFunction(counted)
    BY <2>0, <2>3 DEF TotalsInv, BytesInv
  <2>5. \A p \in DOMAIN counted : video_rx_bytes[p] <= counted[p]
    BY <2>0, <2>1 DEF TotalsInv
  <2> QED
    BY <2>2, <2>4, <2>5 DEF VideoReportsReal
<1> QED
  BY <1>1, VInvHolds, PTL

=============================================================================
