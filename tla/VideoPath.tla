------------------------------ MODULE VideoPath ------------------------------
(***************************************************************************)
(* Packets without the number of the shunting engine, and what the HTTP    *)
(* server says of them. A core of the "aggre" engine (aggre.c) notes the   *)
(* UDP port of such a packet in a bitmap under a spin lock, adds its size  *)
(* to the total of the port it came from without one, and sends it on when *)
(* its UDP port is the chosen one. The thread of the HTTP server           *)
(* (httpserver.c) reads bitmap and totals, and changes the choice, while   *)
(* the cores are at work.                                                  *)
(*                                                                         *)
(* A packet is one unit of size. video_rx_pkts and video_rx_bytes are      *)
(* written alike; one stands for both.                                     *)
(***************************************************************************)
EXTENDS AggreTable, Functions

CONSTANTS
    VideoPorts,         \* UDP destination ports of the packets
    VideoWord,          \* [UDP port -> its word of video_map, 1 .. n]
    VideoTries,         \* attempts to send a packet, 11 in the code
    VideoIds,           \* ids clients ask for: sequences of characters
    MaxVideo,           \* bound: packets received
    MaxVideoAsked       \* bound: requests

VARIABLES
    rx_port,            \* the port each core receives from
    video_map,          \* UDP ports whose bit is set
    video_spinlock,     \* the core that holds it
    video_rx_bytes,     \* of each port
    udp_dst_port,       \* the UDP port of the packets that are sent on
    vcpu,               \* where each core is: [pc, dst, word, bytes, tries]
    vhttp,              \* where the request is: [pc, i, count, bytes, least]
    prev_video_rx_bytes,
    noted,              \* UDP ports noted so far (history)
    counted,            \* packets of each port counted so far (history)
    video_rep,          \* [num, least, bytes]: the last number, what was noted when it was asked
                        \* for, and the sum of the growths answered (history)
    video_in, video_asked   \* packets and requests so far (bound)

vvars == <<rx_port, video_map, video_spinlock, video_rx_bytes, udp_dst_port, vcpu, vhttp, prev_video_rx_bytes,
           noted, counted, video_rep, video_in, video_asked>>

NbWords == Cardinality(Range(VideoWord))
ASSUME WordsAssumption == IsFiniteSet(VideoPorts) /\ VideoPorts # {} /\ VideoWord \in [VideoPorts -> 1 .. NbWords]
ASSUME CoresAreFew == IsFiniteSet(Cores) /\ Cores # {}

Bits(word) == {d \in VideoPorts : VideoWord[d] = word}

IdleVCpu == [pc |-> "idle", dst |-> 0, word |-> {}, bytes |-> 0, tries |-> 0]
IdleVHttp == [pc |-> "idle", i |-> 0, count |-> 0, bytes |-> 0, least |-> 0]

VInit ==
    /\ rx_port \in {[c \in Cores |-> 1], CHOOSE f \in Injection(Cores, 1 .. Cardinality(Cores)) : TRUE}
    /\ video_map = {} /\ video_spinlock = NoCore
    /\ video_rx_bytes = [p \in 1 .. Cardinality(Cores) |-> 0]
    /\ udp_dst_port = 5002
    /\ vcpu = [c \in Cores |-> IdleVCpu]
    /\ vhttp = IdleVHttp
    /\ prev_video_rx_bytes = 0
    /\ noted = {}
    /\ counted = video_rx_bytes
    /\ video_rep = [num |-> 0, least |-> 0, bytes |-> 0]
    /\ video_in = 0 /\ video_asked = 0

-----------------------------------------------------------------------------
HttpAlone == UNCHANGED <<udp_dst_port, vhttp, prev_video_rx_bytes, video_rep, video_asked>>

VTake(c, d) ==
    /\ vcpu[c].pc = "idle"
    /\ video_in < MaxVideo
    /\ video_in' = video_in + 1
    /\ vcpu' = [vcpu EXCEPT ![c] = [IdleVCpu EXCEPT !.pc = "lock", !.dst = d]]
    /\ UNCHANGED <<rx_port, video_map, video_spinlock, video_rx_bytes, noted, counted>>
    /\ HttpAlone

\* Seeded fault: the core goes on without the lock.
VLock_Skip(c) ==
    /\ vcpu[c].pc = "lock"
    /\ vcpu' = [vcpu EXCEPT ![c].pc = "load map"]
    /\ UNCHANGED <<rx_port, video_map, video_spinlock, video_rx_bytes, noted, counted, video_in>>
    /\ HttpAlone

VLock(c) ==
    /\ vcpu[c].pc = "lock"
    /\ video_spinlock = NoCore
    /\ video_spinlock' = c
    /\ vcpu' = [vcpu EXCEPT ![c].pc = "load map"]
    /\ UNCHANGED <<rx_port, video_map, video_rx_bytes, noted, counted, video_in>>
    /\ HttpAlone

\* set_port_map() reads the word and writes it with one bit more.
LoadMap(c) ==
    /\ vcpu[c].pc = "load map"
    /\ vcpu' = [vcpu EXCEPT ![c].pc = "store map", ![c].word = video_map \cap Bits(VideoWord[vcpu[c].dst])]
    /\ UNCHANGED <<rx_port, video_map, video_spinlock, video_rx_bytes, noted, counted, video_in>>
    /\ HttpAlone

StoreMap(c) ==
    /\ vcpu[c].pc = "store map"
    /\ video_map' = (video_map \ Bits(VideoWord[vcpu[c].dst])) \cup vcpu[c].word \cup {vcpu[c].dst}
    /\ noted' = noted \cup {vcpu[c].dst}
    /\ vcpu' = [vcpu EXCEPT ![c].pc = "unlock", ![c].word = {}]
    /\ UNCHANGED <<rx_port, video_spinlock, video_rx_bytes, counted, video_in>>
    /\ HttpAlone

\* The lock is given back and the total read, without it.
VUnlock(c) ==
    /\ vcpu[c].pc = "unlock"
    /\ video_spinlock' = IF video_spinlock = c THEN NoCore ELSE video_spinlock
    /\ vcpu' = [vcpu EXCEPT ![c].pc = "store bytes", ![c].bytes = video_rx_bytes[rx_port[c]]]
    /\ UNCHANGED <<rx_port, video_map, video_rx_bytes, noted, counted, video_in>>
    /\ HttpAlone

StoreBytes(c) ==
    /\ vcpu[c].pc = "store bytes"
    /\ video_rx_bytes' = [video_rx_bytes EXCEPT ![rx_port[c]] = vcpu[c].bytes + 1]
    /\ counted' = [counted EXCEPT ![rx_port[c]] = @ + 1]
    /\ vcpu' = [vcpu EXCEPT ![c].pc = "compare", ![c].bytes = 0]
    /\ UNCHANGED <<rx_port, video_map, video_spinlock, noted, video_in>>
    /\ HttpAlone

\* A packet to another UDP port than the chosen one is freed.
Compare(c) ==
    /\ vcpu[c].pc = "compare"
    /\ vcpu' = [vcpu EXCEPT ![c] = IF @.dst = udp_dst_port THEN [@ EXCEPT !.pc = "send"] ELSE IdleVCpu]
    /\ UNCHANGED <<rx_port, video_map, video_spinlock, video_rx_bytes, noted, counted, video_in>>
    /\ HttpAlone

\* The port takes the packet or not; after the last attempt it is freed.
SendOn(c, taken) ==
    /\ vcpu[c].pc = "send"
    /\ LET stop == taken \/ vcpu[c].tries + 1 = VideoTries
       IN  vcpu' = [vcpu EXCEPT ![c] = IF stop THEN IdleVCpu ELSE [@ EXCEPT !.tries = vcpu[c].tries + 1]]
    /\ UNCHANGED <<rx_port, video_map, video_spinlock, video_rx_bytes, noted, counted, video_in>>
    /\ HttpAlone

VideoStep(c) ==
    \/ VLock(c) \/ LoadMap(c) \/ StoreMap(c) \/ VUnlock(c) \/ StoreBytes(c) \/ Compare(c)
    \/ \E taken \in BOOLEAN : SendOn(c, taken)

-----------------------------------------------------------------------------
CoresAlone == UNCHANGED <<rx_port, video_map, video_spinlock, video_rx_bytes, vcpu, noted, counted, video_in>>

\* "videoid" takes the first two bytes of the text for the port, not its number.
FirstBytes(id) == id[1] + 256 * id[2]

VideoId(id) ==
    /\ vhttp.pc = "idle"
    /\ video_asked < MaxVideoAsked
    /\ video_asked' = video_asked + 1
    /\ udp_dst_port' = FirstBytes(id)
    /\ UNCHANGED <<vhttp, prev_video_rx_bytes, video_rep>>
    /\ CoresAlone

Video ==
    /\ vhttp.pc = "idle"
    /\ video_asked < MaxVideoAsked
    /\ video_asked' = video_asked + 1
    /\ vhttp' = [IdleVHttp EXCEPT !.pc = "count", !.least = Cardinality(noted)]
    /\ UNCHANGED <<udp_dst_port, prev_video_rx_bytes, video_rep>>
    /\ CoresAlone

\* The bits of all words are counted, and then counted again on top.
CountBits ==
    /\ vhttp.pc = "count"
    /\ vhttp' = [vhttp EXCEPT !.count = @ + Cardinality(video_map \cap Bits(1 + (vhttp.i % NbWords))),
                              !.i = IF @ + 1 = 2 * NbWords THEN 0 ELSE @ + 1,
                              !.pc = IF vhttp.i + 1 = 2 * NbWords THEN "sum" ELSE @]
    /\ UNCHANGED <<udp_dst_port, prev_video_rx_bytes, video_rep, video_asked>>
    /\ CoresAlone

SumBytes ==
    /\ vhttp.pc = "sum"
    /\ vhttp' = [vhttp EXCEPT !.bytes = @ + video_rx_bytes[vhttp.i + 1],
                              !.i = @ + 1,
                              !.pc = IF vhttp.i + 1 = Cardinality(Cores) THEN "answer" ELSE @]
    /\ UNCHANGED <<udp_dst_port, prev_video_rx_bytes, video_rep, video_asked>>
    /\ CoresAlone

\* The growth since the last request, none when the sum is below the one before
Grown == IF vhttp.bytes > prev_video_rx_bytes THEN vhttp.bytes - prev_video_rx_bytes ELSE 0

Answer ==
    /\ vhttp.pc = "answer"
    /\ video_rep' = [num |-> vhttp.count, least |-> vhttp.least, bytes |-> video_rep.bytes + Grown]
    /\ prev_video_rx_bytes' = vhttp.bytes
    /\ vhttp' = IdleVHttp
    /\ UNCHANGED <<udp_dst_port, video_asked>>
    /\ CoresAlone

VideoRequest == (\E id \in VideoIds : VideoId(id)) \/ Video \/ CountBits \/ SumBytes \/ Answer

-----------------------------------------------------------------------------
OnePortEach == \A c, d \in Cores : rx_port[c] = rx_port[d] => c = d

\* What the "video" request answers is real although it takes no lock: twice a number of UDP
\* ports that is at least that noted when it began and at most that noted since (it counts
\* twice), and as many bytes as were received. Cores that receive from one port lose bytes of
\* each other and may even set the total back, so that bytes are reported twice; only the
\* total itself then never exceeds what was received.
VideoReportsReal ==
    /\ 2 * video_rep.least <= video_rep.num /\ video_rep.num <= 2 * Cardinality(noted)
    /\ \A p \in DOMAIN counted : video_rx_bytes[p] <= counted[p]
    /\ OnePortEach => /\ video_rx_bytes = counted
                      /\ video_rep.bytes <= SumFunction(counted)
=============================================================================
