---------------------------- MODULE Prompt_proofs ----------------------------
(***************************************************************************)
(* What holds of the prompt for any number of addresses, ports, queues and *)
(* commands: the pool of multicast addresses records what was asked for, a *)
(* started port runs what it was set to and has the offloads it was told,  *)
(* the lists of flow rules are those of the device, as they were asked     *)
(* for and shown in order, and the header of an encapsulation is made of   *)
(* the last settings.                                                      *)
(***************************************************************************)
EXTENDS Prompt, FiniteSetTheorems, TLAPS

-----------------------------------------------------------------------------
(* The pool of multicast addresses. *)

Entries == McAddrs \cup {Blank}

\* A pool that records the addresses of a set once each, and whose length is a whole number
\* of chunks: so the entry after the last one recorded exists, or a chunk is due.
Records(p, addrs) ==
    /\ p.nb \in Nat
    /\ p.pool \in Seq(Entries)
    /\ p.nb <= Len(p.pool)
    /\ Len(p.pool) % MCAST_POOL_INC = 0
    /\ Recorded(p.pool, p.nb) = addrs
    /\ \A i, j \in 1 .. p.nb : i # j => p.pool[i] # p.pool[j]

MInv ==
    /\ Records(Pool, mc_asked)
    /\ mc_asked \subseteq McAddrs
    /\ DeviceListens
    /\ ~mc_attached => mc_device = {}

\* One more chunk keeps the length a whole number of chunks.
LEMMA OneMore ==
    ASSUME NEW n \in Nat, NEW b \in Nat \ {0}, n % b = 0
    PROVE  (n + b) % b = 0
<1> DEFINE q == n \div b
           d == (n + b) \div b
           m == (n + b) % b
<1>1. q \in Int /\ n = b * q
  BY SMTT(30)
<1>2. d \in Int /\ m \in 0 .. b - 1
  BY SMTT(30)
<1>3. n + b = b * d + m
  <2>1. b * d <= n + b
    BY SMTT(30)
  <2>2. m = (n + b) - b * d
    BY SMTT(30)
  <2> QED
    BY <2>1, <2>2, <1>2
<1> HIDE DEF q, d, m
<1> DEFINE k == q + 1 - d
<1>4. k \in Int /\ m = b * k
  BY <1>1, <1>2, <1>3, SMTT(30)
<1> HIDE DEF k
<1>5. ~(k >= 1)
  <2> SUFFICES ASSUME k >= 1
               PROVE  FALSE
    OBVIOUS
  <2>1. b * k >= b
    BY <1>4, SMTT(30)
  <2> QED
    BY <2>1, <1>4, <1>2
<1>6. ~(k <= -1)
  <2> SUFFICES ASSUME k <= -1
               PROVE  FALSE
    OBVIOUS
  <2>1. b * k < 0
    BY <1>4, SMTT(30)
  <2> QED
    BY <2>1, <1>4, <1>2
<1>7. k = 0
  BY <1>4, <1>5, <1>6
<1>8. m = 0
  BY <1>4, <1>7
<1> QED
  BY <1>8 DEF m

\* mcast_addr_pool_extend() makes room for one entry and leaves the recorded ones alone.
LEMMA Extended ==
    ASSUME NEW p, NEW addrs, Records(p, addrs)
    PROVE  LET e == mcast_addr_pool_extend(p)
           IN  /\ e.nb = p.nb + 1
               /\ e.pool \in Seq(Entries)
               /\ e.nb <= Len(e.pool)
               /\ Len(e.pool) % MCAST_POOL_INC = 0
               /\ \A i \in 1 .. p.nb : e.pool[i] = p.pool[i]
<1> DEFINE e == mcast_addr_pool_extend(p)
           chunk == [i \in 1 .. MCAST_POOL_INC |-> Blank]
<1>1. MCAST_POOL_INC \in Nat \ {0}
  BY PoolAssumption
<1>2. CASE p.nb % MCAST_POOL_INC # 0
  <2>1. e = [pool |-> p.pool, nb |-> p.nb + 1]
    BY <1>2 DEF mcast_addr_pool_extend
  <2>2. p.nb # Len(p.pool)
    BY <1>2 DEF Records
  <2> QED
    BY <2>1, <2>2 DEF Records
<1>3. CASE p.nb % MCAST_POOL_INC = 0
  <2>1. e = [pool |-> SubSeq(p.pool, 1, p.nb) \o chunk, nb |-> p.nb + 1]
    BY <1>3 DEF mcast_addr_pool_extend
  <2>2. /\ SubSeq(p.pool, 1, p.nb) \in Seq(Entries)
        /\ Len(SubSeq(p.pool, 1, p.nb)) = p.nb
        /\ \A i \in 1 .. p.nb : SubSeq(p.pool, 1, p.nb)[i] = p.pool[i]
    BY DEF Records
  <2>3. chunk \in Seq(Entries) /\ Len(chunk) = MCAST_POOL_INC
    BY <1>1 DEF Entries
  <2> HIDE DEF chunk
  <2>4. /\ e.pool \in Seq(Entries)
        /\ Len(e.pool) = p.nb + MCAST_POOL_INC
        /\ \A i \in 1 .. p.nb : e.pool[i] = p.pool[i]
    BY <2>1, <2>2, <2>3, <1>1 DEF Records
  <2>5. (p.nb + MCAST_POOL_INC) % MCAST_POOL_INC = 0
    BY <1>1, <1>3, OneMore DEF Records
  <2>6. e.nb = p.nb + 1 /\ e.nb <= Len(e.pool)
    BY <2>1, <2>4, <1>1 DEF Records
  <2> QED
    BY <2>4, <2>5, <2>6
<1> QED
  BY <1>2, <1>3

\* mcast_addr_pool_append() records one more address.
LEMMA Appended ==
    ASSUME NEW p, NEW addrs, Records(p, addrs), NEW addr \in McAddrs, addr \notin addrs
    PROVE  /\ Records(mcast_addr_pool_append(p, addr), addrs \cup {addr})
           /\ mcast_addr_pool_append(p, addr).nb = p.nb + 1
           /\ mcast_addr_pool_append(p, addr).pool[p.nb + 1] = addr
<1> DEFINE e == mcast_addr_pool_extend(p)
           a == mcast_addr_pool_append(p, addr)
<1>1. /\ e.nb = p.nb + 1
      /\ e.pool \in Seq(Entries)
      /\ e.nb <= Len(e.pool)
      /\ Len(e.pool) % MCAST_POOL_INC = 0
      /\ \A i \in 1 .. p.nb : e.pool[i] = p.pool[i]
  BY Extended
<1>2. e = [pool |-> e.pool, nb |-> e.nb]
  BY DEF mcast_addr_pool_extend
<1>3. a = [pool |-> [e.pool EXCEPT ![e.nb] = addr], nb |-> e.nb]
  BY <1>2 DEF mcast_addr_pool_append
<1> HIDE DEF e, a
<1>4. p.nb \in Nat /\ e.nb \in DOMAIN e.pool
  BY <1>1 DEF Records
<1>5. /\ a.nb = p.nb + 1
      /\ a.pool \in Seq(Entries)
      /\ Len(a.pool) = Len(e.pool)
      /\ a.pool[p.nb + 1] = addr
      /\ \A i \in 1 .. p.nb : a.pool[i] = p.pool[i]
  BY <1>1, <1>3, <1>4 DEF Entries
<1>6. Recorded(a.pool, a.nb) = Recorded(p.pool, p.nb) \cup {addr}
  <2>1. 1 .. a.nb = (1 .. p.nb) \cup {p.nb + 1}
    BY <1>4, <1>5
  <2> QED
    BY <2>1, <1>5 DEF Recorded
<1>7. \A i \in 1 .. p.nb : p.pool[i] # addr
  BY DEF Records, Recorded
<1>8. \A i, j \in 1 .. a.nb : i # j => a.pool[i] # a.pool[j]
  <2> SUFFICES ASSUME NEW i \in 1 .. a.nb, NEW j \in 1 .. a.nb, i # j
               PROVE  a.pool[i] # a.pool[j]
    OBVIOUS
  <2>1. CASE i \in 1 .. p.nb /\ j \in 1 .. p.nb
    BY <2>1, <1>5 DEF Records
  <2>2. CASE i = p.nb + 1 /\ j \in 1 .. p.nb
    BY <2>2, <1>5, <1>7
  <2>3. CASE j = p.nb + 1 /\ i \in 1 .. p.nb
    BY <2>3, <1>5, <1>7
  <2> QED
    BY <2>1, <2>2, <2>3, <1>4, <1>5
<1>9. Records(a, addrs \cup {addr})
  BY <1>1, <1>4, <1>5, <1>6, <1>8 DEF Records
<1> QED
  BY <1>5, <1>9 DEF a

\* mcast_addr_pool_remove() takes out exactly the address at its index.
LEMMA Removed ==
    ASSUME NEW p, NEW addrs, Records(p, addrs), NEW idx \in 1 .. p.nb
    PROVE  Records(mcast_addr_pool_remove(p, idx), addrs \ {p.pool[idx]})
<1> DEFINE r == mcast_addr_pool_remove(p, idx)
<1>1. p.nb \in Nat \ {0} /\ Len(p.pool) \in Nat /\ p.nb <= Len(p.pool)
  BY DEF Records
<1>2. r.nb = p.nb - 1 /\ r.nb \in Nat
  BY <1>1 DEF mcast_addr_pool_remove
<1>3. CASE idx = p.nb /\ p.nb = 1
  <2>1. r.pool = << >> /\ r.nb = 0
    BY <1>3, <1>2 DEF mcast_addr_pool_remove
  <2>2. addrs = {p.pool[1]}
    BY <1>3 DEF Records, Recorded
  <2>3. 0 % MCAST_POOL_INC = 0
    BY PoolAssumption
  <2>4. Recorded(r.pool, r.nb) = {}
    BY <2>1 DEF Recorded
  <2> QED
    BY <2>1, <2>2, <2>3, <2>4, <1>3 DEF Records
<1>4. CASE idx = p.nb /\ p.nb # 1
  <2>1. r.pool = p.pool
    BY <1>4 DEF mcast_addr_pool_remove
  <2>2. 1 .. p.nb = (1 .. r.nb) \cup {p.nb} /\ p.nb \notin 1 .. r.nb
    BY <1>1, <1>2
  <2>3. Recorded(r.pool, r.nb) = addrs \ {p.pool[idx]}
    BY <2>1, <2>2, <1>4 DEF Records, Recorded
  <2> QED
    BY <2>1, <2>2, <2>3, <1>1, <1>2 DEF Records
<1>5. CASE idx # p.nb
  <2>1. r.pool = [i \in DOMAIN p.pool |-> IF i \in idx .. p.nb - 1 THEN p.pool[i + 1] ELSE p.pool[i]]
    BY <1>5 DEF mcast_addr_pool_remove
  <2>2. DOMAIN p.pool = 1 .. Len(p.pool) /\ \A i \in 1 .. Len(p.pool) : p.pool[i] \in Entries
    BY DEF Records
  <2>3. /\ r.pool \in Seq(Entries)
        /\ Len(r.pool) = Len(p.pool)
        /\ \A i \in 1 .. r.nb : r.pool[i] = p.pool[IF i < idx THEN i ELSE i + 1]
    BY <2>1, <2>2, <1>1, <1>2
  <2> HIDE DEF r
  <2>4. Recorded(r.pool, r.nb) = addrs \ {p.pool[idx]}
    <3>1. ASSUME NEW i \in 1 .. r.nb
          PROVE  r.pool[i] \in addrs \ {p.pool[idx]}
      <4> DEFINE k == IF i < idx THEN i ELSE i + 1
      <4>1. k \in 1 .. p.nb /\ k # idx /\ r.pool[i] = p.pool[k]
        BY <2>3, <1>1, <1>2
      <4> HIDE DEF k
      <4>2. p.pool[k] # p.pool[idx] /\ p.pool[k] \in addrs
        BY <4>1 DEF Records, Recorded
      <4> QED
        BY <4>1, <4>2
    <3>2. ASSUME NEW j \in 1 .. p.nb, p.pool[j] # p.pool[idx]
          PROVE  \E i \in 1 .. r.nb : r.pool[i] = p.pool[j]
      <4>1. CASE j < idx
        <5>1. j \in 1 .. r.nb /\ r.pool[j] = p.pool[j]
          BY <4>1, <2>3, <1>1, <1>2
        <5> QED
          BY <5>1
      <4>2. CASE j > idx
        <5>1. j - 1 \in 1 .. r.nb /\ r.pool[j - 1] = p.pool[j]
          BY <4>2, <2>3, <1>1, <1>2
        <5> QED
          BY <5>1
      <4> QED
        BY <3>2, <4>1, <4>2
    <3> QED
      BY <3>1, <3>2 DEF Records, Recorded
  <2>5. ASSUME NEW i \in 1 .. r.nb, NEW j \in 1 .. r.nb, i # j
        PROVE  r.pool[i] # r.pool[j]
    <3> DEFINE k == IF i < idx THEN i ELSE i + 1
               l == IF j < idx THEN j ELSE j + 1
    <3>1. k \in 1 .. p.nb /\ l \in 1 .. p.nb /\ k # l
      BY <2>5, <1>1, <1>2
    <3>2. r.pool[i] = p.pool[k] /\ r.pool[j] = p.pool[l]
      BY <2>3
    <3> HIDE DEF k, l
    <3> QED
      BY <3>1, <3>2 DEF Records
  <2> QED
    BY <2>3, <2>4, <2>5, <1>1, <1>2 DEF Records, r
<1> QED
  BY <1>3, <1>4, <1>5

-----------------------------------------------------------------------------
LEMMA MInitially == MInit => MInv
<1> SUFFICES ASSUME MInit
             PROVE  MInv
  OBVIOUS
<1>1. Pool = [pool |-> << >>, nb |-> 0] /\ mc_asked = {}
  BY DEF MInit, Pool
<1>2. 0 % MCAST_POOL_INC = 0
  BY PoolAssumption
<1>3. Recorded(<< >>, 0) = {}
  BY DEF Recorded
<1>4. Records([pool |-> << >>, nb |-> 0], {})
  BY <1>2, <1>3 DEF Records
<1>5. DeviceListens
  BY <1>3 DEF MInit, DeviceListens
<1> QED
  BY <1>1, <1>4, <1>5 DEF MInit, MInv

\* The device takes the list or the change is taken back.
LEMMA SetOrKept ==
    ASSUME MInv, NEW p, NEW otherwise, NEW taken \in BOOLEAN, NEW addrs \in SUBSET McAddrs,
           taken => Records(p, addrs), ~taken => Records(otherwise, mc_asked),
           eth_port_multicast_addr_list_set(p, taken, otherwise),
           mc_asked' = IF taken THEN addrs ELSE mc_asked, mc_attached, mc_attached' = mc_attached
    PROVE  MInv'
<1>1. Records(Pool, mc_asked) /\ Recorded(mc_addr_pool, mc_addr_nb) = mc_asked
  BY DEF MInv, Records, Pool
<1>2. CASE taken
  <2>1. /\ Pool' = [pool |-> p.pool, nb |-> p.nb]
        /\ mc_device' = Recorded(p.pool, p.nb)
        /\ mc_asked' = addrs
        /\ mc_addr_pool' = p.pool /\ mc_addr_nb' = p.nb
    BY <1>2 DEF eth_port_multicast_addr_list_set, Pool
  <2>2. Records(Pool', addrs)
    BY <2>1, <1>2 DEF Records
  <2> QED
    BY <2>1, <2>2 DEF MInv, DeviceListens, Records, Recorded
<1>3. CASE ~taken
  <2>1. /\ Pool' = [pool |-> otherwise.pool, nb |-> otherwise.nb]
        /\ mc_device' = mc_device /\ (mc_synced' => mc_synced)
        /\ mc_asked' = mc_asked
        /\ mc_addr_pool' = otherwise.pool /\ mc_addr_nb' = otherwise.nb
    BY <1>3 DEF eth_port_multicast_addr_list_set, Pool, MInv
  <2>2. Records(Pool', mc_asked)
    BY <2>1, <1>3 DEF Records
  <2>3. Recorded(mc_addr_pool, mc_addr_nb)' = mc_asked
    BY <2>1, <1>3 DEF Records, Recorded
  <2> QED
    BY <2>1, <2>2, <2>3, <1>1 DEF MInv, DeviceListens
<1> QED
  BY <1>2, <1>3

LEMMA Added ==
    ASSUME MInv, NEW addr \in McAddrs, NEW taken \in BOOLEAN, mcast_addr_add(addr, taken),
           mc_attached, mc_attached' = mc_attached
    PROVE  MInv'
<1> DEFINE longer == mcast_addr_pool_append(Pool, addr)
<1>1. Records(Pool, mc_asked) /\ mc_asked \subseteq McAddrs
  BY DEF MInv
<1>2. addr \notin mc_asked
  BY <1>1 DEF mcast_addr_add, PlaceOf, Records, Recorded, Pool
<1>3. /\ Records(longer, mc_asked \cup {addr})
      /\ longer.nb = Pool.nb + 1
      /\ longer.pool[Pool.nb + 1] = addr
  BY <1>1, <1>2, Appended
<1>4. Pool.nb \in Nat
  BY <1>1 DEF Records
<1> HIDE DEF longer
<1>5. longer.nb \in 1 .. longer.nb /\ longer.pool[longer.nb] = addr
  BY <1>3, <1>4
<1>6. Records(mcast_addr_pool_remove(longer, longer.nb), (mc_asked \cup {addr}) \ {addr})
  BY <1>3, <1>5, Removed
<1>7. (mc_asked \cup {addr}) \ {addr} = mc_asked
  BY <1>2
<1>8. /\ eth_port_multicast_addr_list_set(longer, taken, mcast_addr_pool_remove(longer, longer.nb))
      /\ mc_asked' = IF taken THEN mc_asked \cup {addr} ELSE mc_asked
  BY DEF mcast_addr_add, longer
<1>9. mc_asked \cup {addr} \in SUBSET McAddrs
  BY <1>1
<1> QED
  BY <1>3, <1>6, <1>7, <1>8, <1>9, SetOrKept

LEMMA TakenOut ==
    ASSUME MInv, NEW addr \in McAddrs, NEW taken \in BOOLEAN, mcast_addr_remove(addr, taken),
           mc_attached, mc_attached' = mc_attached
    PROVE  MInv'
<1> DEFINE idx == CHOOSE i \in PlaceOf(addr) : \A j \in PlaceOf(addr) : i <= j
           shorter == mcast_addr_pool_remove(Pool, idx)
<1>1. Records(Pool, mc_asked) /\ mc_asked \subseteq McAddrs
  BY DEF MInv
<1>2. idx \in PlaceOf(addr)
  <2>1. PICK i \in PlaceOf(addr) : TRUE
    BY DEF mcast_addr_remove
  <2>2. \A j \in PlaceOf(addr) : i = j
    BY <1>1, <2>1 DEF PlaceOf, Records, Pool
  <2>3. i \in Nat
    BY <1>1, <2>1 DEF PlaceOf, Records, Pool
  <2>4. \A j \in PlaceOf(addr) : i <= j
    BY <2>2, <2>3
  <2> QED
    BY <2>1, <2>4
<1>3. idx \in 1 .. Pool.nb /\ Pool.pool[idx] = addr
  BY <1>2 DEF PlaceOf, Pool
<1>4. addr \in mc_asked
  BY <1>1, <1>3 DEF Records, Recorded
<1> HIDE DEF idx
<1>5. Records(shorter, mc_asked \ {addr})
  BY <1>1, <1>3, Removed
<1> HIDE DEF shorter
<1>6. Records(mcast_addr_pool_append(shorter, addr), (mc_asked \ {addr}) \cup {addr})
  BY <1>5, Appended
<1>7. (mc_asked \ {addr}) \cup {addr} = mc_asked
  BY <1>4
<1>8. /\ eth_port_multicast_addr_list_set(shorter, taken, mcast_addr_pool_append(shorter, addr))
      /\ mc_asked' = IF taken THEN mc_asked \ {addr} ELSE mc_asked
  BY DEF mcast_addr_remove, shorter, idx
<1>9. mc_asked \ {addr} \in SUBSET McAddrs
  BY <1>1
<1> QED
  BY <1>5, <1>6, <1>7, <1>8, <1>9, SetOrKept

LEMMA MStays ==
    ASSUME MInv, MNext \/ UNCHANGED mvars
    PROVE  MInv'
<1>1. ASSUME NEW addr \in McAddrs, NEW taken \in BOOLEAN, cmd_mcast_addr_parsed(addr, taken)
      PROVE  MInv'
  <2>1. mc_attached /\ mc_attached' = mc_attached
    BY <1>1 DEF cmd_mcast_addr_parsed
  <2>2. CASE mcast_addr_add(addr, taken)
    BY <2>1, <2>2, Added
  <2>3. CASE mcast_addr_remove(addr, taken)
    BY <2>1, <2>3, TakenOut
  <2> QED
    BY <1>1, <2>2, <2>3 DEF cmd_mcast_addr_parsed
<1>2. CASE close_port_mcast
  <2>1. Pool' = Pool
    BY <1>2 DEF close_port_mcast, Pool
  <2> QED
    BY <1>2, <2>1 DEF close_port_mcast, MInv, DeviceListens
<1>3. CASE attach_port_mcast
  <2>1. Pool' = Pool /\ mc_addr_pool' = mc_addr_pool /\ mc_addr_nb' = mc_addr_nb
    BY <1>3 DEF attach_port_mcast, Pool
  <2>2. Recorded(mc_addr_pool, 0) = {}
    BY DEF Recorded
  <2> QED
    BY <1>3, <2>1, <2>2 DEF attach_port_mcast, MInv, DeviceListens
<1>4. CASE UNCHANGED mvars
  <2>1. Pool' = Pool
    BY <1>4 DEF mvars, Pool
  <2> QED
    BY <1>4, <2>1 DEF mvars, MInv, DeviceListens
<1> QED
  BY <1>1, <1>2, <1>3, <1>4 DEF MNext

\* mcast_addr_add() and mcast_addr_remove(): for any number of addresses, chunks of any size
\* and devices that refuse at any time, the pool records once each the addresses that were
\* added and not removed, and the device listens to those.
THEOREM PoolRecordsWhatWasAsked == Spec => []PoolIsWhatWasAsked
<1>1. Init => MInv
  BY MInitially DEF Init
<1>2. MInv /\ [Next]_vars => MInv'
  <2>1. [Next]_vars => MNext \/ UNCHANGED mvars
    BY DEF Next, vars
  <2> QED
    BY <2>1, MStays
<1>3. MInv => PoolIsWhatWasAsked
  BY DEF MInv, PoolIsWhatWasAsked, RecordedOnce, Records, Pool
<1> QED
  BY <1>1, <1>2, <1>3, PTL DEF Spec

-----------------------------------------------------------------------------
(* The settings of ports. *)

PortConf == [speed : 0 .. 1, lpbk : 0 .. 1, frame : 0 .. 1, lro : 0 .. 1, rss : 0 .. 1, mq : {"none", "rss", "dcb"},
             rx : SUBSET RxBits, tx : SUBSET TxBits]
QueueConf == [rx : SUBSET RxBits, tx : SUBSET TxBits, rxd : 0 .. 1, txd : 0 .. 1, thresh : 0 .. 1,
              rx_late : BOOLEAN, tx_late : BOOLEAN]
Conf == [port : PortConf, queue : [SetQueues -> QueueConf]]

SType ==
    /\ conf \in [SetPorts -> Conf]
    /\ device \in [SetPorts -> Conf]
    /\ need \in [SetPorts -> [dev : BOOLEAN, queues : BOOLEAN]]
    /\ globals \in [thresh : 0 .. 1, rss : 0 .. 1, dcb_config : BOOLEAN]
    /\ up \subseteq SetPorts

Unexcused == {"early return", "mtu", "rss", "dcb"}

\* Not only started ports: a port that nothing has flagged is as it was set to, so that a
\* start has nothing to do for it.
Settled ==
    slips \cap Unexcused = {} =>
        \A p \in SetPorts : /\ ~need[p].dev => device[p].port = conf[p].port
                            /\ ~need[p].queues => device[p].queue = conf[p].queue

SInv == SType /\ Settled

LEMMA SInitially == SInit => SInv
<1> SUFFICES ASSUME SInit
             PROVE  SInv
  OBVIOUS
<1>1. NewConf \in Conf
  BY DEF NewConf, NewPort, NewQueue, Conf, PortConf, QueueConf
<1> QED
  BY <1>1 DEF SInit, SInv, SType, Settled

\* A command that writes ports and flags them, or flags ports for nothing.
LEMMA FlaggedStays ==
    ASSUME SInv, SType', device' = device, slips \subseteq slips',
           \A p \in SetPorts : /\ need[p].dev => need'[p].dev
                               /\ need[p].queues => need'[p].queues
                               /\ need'[p].dev \/ conf'[p].port = conf[p].port
                               /\ need'[p].queues \/ conf'[p].queue = conf[p].queue
    PROVE  SInv'
  BY DEF SInv, SType, Settled

\* A command that keeps what it writes to itself: conf, device and flags stay.
LEMMA Aside ==
    ASSUME SInv, UNCHANGED <<conf, device, need, up>>, slips \subseteq slips',
           globals' \in [thresh : 0 .. 1, rss : 0 .. 1, dcb_config : BOOLEAN]
    PROVE  SInv'
  BY DEF SInv, SType, Settled

\* cmd_reconfig_device_queue() lowers no flag.
LEMMA Raised ==
    ASSUME SType, NEW ps \in SUBSET SetPorts, NEW dev \in BOOLEAN, NEW queues \in BOOLEAN,
           cmd_reconfig_device_queue(ps, dev, queues)
    PROVE  /\ need' \in [SetPorts -> [dev : BOOLEAN, queues : BOOLEAN]]
           /\ \A p \in SetPorts : /\ need[p].dev => need'[p].dev
                                  /\ need[p].queues => need'[p].queues
                                  /\ p \in ps /\ dev => need'[p].dev
                                  /\ p \in ps /\ queues => need'[p].queues
  BY DEF SType, cmd_reconfig_device_queue

\* A command that gives ports a new configuration and flags all it changed.
LEMMA Configured ==
    ASSUME SInv, NEW ps \in SUBSET SetPorts, NEW dev \in BOOLEAN, NEW queues \in BOOLEAN,
           cmd_reconfig_device_queue(ps, dev, queues), device' = device, up' = up, slips \subseteq slips',
           globals' \in [thresh : 0 .. 1, rss : 0 .. 1, dcb_config : BOOLEAN],
           conf' \in [SetPorts -> Conf],
           \A p \in SetPorts : /\ conf'[p].port = conf[p].port \/ (p \in ps /\ dev)
                               /\ conf'[p].queue = conf[p].queue \/ (p \in ps /\ queues)
    PROVE  SInv'
<1>1. SType
  BY DEF SInv
<1>2. /\ need' \in [SetPorts -> [dev : BOOLEAN, queues : BOOLEAN]]
      /\ \A p \in SetPorts : /\ need[p].dev => need'[p].dev
                             /\ need[p].queues => need'[p].queues
                             /\ p \in ps /\ dev => need'[p].dev
                             /\ p \in ps /\ queues => need'[p].queues
  BY <1>1, Raised
<1>3. SType'
  BY <1>1, <1>2 DEF SType
<1>4. \A p \in SetPorts : /\ need'[p].dev \/ conf'[p].port = conf[p].port
                          /\ need'[p].queues \/ conf'[p].queue = conf[p].queue
  BY <1>2
<1> QED
  BY <1>2, <1>3, <1>4, FlaggedStays

LEMMA Written ==
    ASSUME NEW c \in Conf, NEW v \in 0 .. 1
    PROVE  /\ [c EXCEPT !.port.speed = v] \in Conf
           /\ [c EXCEPT !.port.lpbk = v] \in Conf
           /\ [c EXCEPT !.port.lro = v] \in Conf
  BY DEF Conf, PortConf

LEMMA QueueOf ==
    ASSUME NEW c \in Conf
    PROVE  c.port \in PortConf /\ c.queue \in [SetQueues -> QueueConf] /\ \A q \in SetQueues : c.queue[q] \in QueueConf
  BY DEF Conf

LEMMA QueueWritten ==
    ASSUME NEW c \in QueueConf, NEW rx \in SUBSET RxBits, NEW tx \in SUBSET TxBits, NEW h \in 0 .. 1
    PROVE  [c EXCEPT !.rx = rx, !.tx = tx, !.thresh = h] \in QueueConf
  BY DEF QueueConf

\* rxtx_port_config() and init_port_config() leave configurations.
LEMMA Defaulted ==
    ASSUME NEW c \in Conf, NEW g \in [thresh : 0 .. 1, rss : 0 .. 1, dcb_config : BOOLEAN]
    PROVE  rxtx_port_config(c, g) \in Conf
<1>1. \A q \in SetQueues : [NewQueue EXCEPT !.rx = c.queue[q].rx, !.tx = c.queue[q].tx, !.thresh = g.thresh] \in QueueConf
  <2> SUFFICES ASSUME NEW q \in SetQueues
               PROVE  [NewQueue EXCEPT !.rx = c.queue[q].rx, !.tx = c.queue[q].tx, !.thresh = g.thresh] \in QueueConf
    OBVIOUS
  <2>1. c.queue[q] \in QueueConf
    BY DEF Conf
  <2>2. c.queue[q].rx \in SUBSET RxBits /\ c.queue[q].tx \in SUBSET TxBits /\ g.thresh \in 0 .. 1
    BY <2>1 DEF QueueConf
  <2>3. NewQueue \in QueueConf
    BY DEF NewQueue, QueueConf
  <2> QED
    BY <2>2, <2>3, QueueWritten
<1> QED
  BY <1>1 DEF Conf, rxtx_port_config

LEMMA AllDefaulted ==
    ASSUME NEW cs \in [SetPorts -> Conf], NEW g \in [thresh : 0 .. 1, rss : 0 .. 1, dcb_config : BOOLEAN], NEW answers
    PROVE  init_port_config(cs, g, answers) \in [SetPorts -> Conf]
<1> DEFINE mq(p) == IF soft[p].dcb THEN cs[p].port.mq ELSE IF g.rss # 0 THEN "rss" ELSE "none"
           c(p) == [cs[p] EXCEPT !.port.rss = g.rss, !.port.mq = mq(p)]
<1>1. ASSUME NEW p \in SetPorts
      PROVE  rxtx_port_config(c(p), g) \in Conf
  <2>1. cs[p] \in Conf
    OBVIOUS
  <2>2. mq(p) \in {"none", "rss", "dcb"}
    BY <2>1 DEF Conf, PortConf
  <2> HIDE DEF mq
  <2>3. c(p) \in Conf
    BY <2>1, <2>2 DEF Conf, PortConf
  <2> QED
    BY <2>3, Defaulted
<1>2. init_port_config(cs, g, answers) = [p \in SetPorts |-> IF p >= answers THEN cs[p] ELSE rxtx_port_config(c(p), g)]
  BY DEF init_port_config
<1> QED
  BY <1>1, <1>2
LEMMA Given ==
    ASSUME NEW bits, NEW b, NEW on, NEW S, bits \in SUBSET S, b \in S
    PROVE  Switched(bits, b, on) \in SUBSET S
  BY DEF Switched

\* What a command may do to the configuration of one port.
LEMMA OffloadWritten ==
    ASSUME NEW c \in Conf, NEW rx \in SUBSET RxBits, NEW tx \in SUBSET TxBits
    PROVE  /\ [c EXCEPT !.port.rx = rx] \in Conf
           /\ [c EXCEPT !.port.tx = tx] \in Conf
  BY DEF Conf, PortConf

LEMMA QueuesWritten ==
    ASSUME NEW c \in Conf, NEW qs \in [SetQueues -> QueueConf]
    PROVE  [c EXCEPT !.queue = qs] \in Conf
  BY DEF Conf

LEMMA RingWritten ==
    ASSUME NEW k \in QueueConf, NEW v \in 0 .. 1
    PROVE  /\ [k EXCEPT !.rxd = v] \in QueueConf
           /\ [k EXCEPT !.txd = v] \in QueueConf
  BY DEF QueueConf

LEMMA LateWritten ==
    ASSUME NEW k \in QueueConf, NEW on \in BOOLEAN
    PROVE  /\ [k EXCEPT !.rx_late = on] \in QueueConf
           /\ [k EXCEPT !.tx_late = on] \in QueueConf
  BY DEF QueueConf

\* A command that gives one stopped port a new configuration and flags all of it.
LEMMA ConfiguredOne ==
    ASSUME SInv, NEW p \in SetPorts, NEW c \in Conf, conf' = [conf EXCEPT ![p] = c],
           cmd_reconfig_device_queue({p}, TRUE, TRUE), device' = device, up' = up, slips \subseteq slips',
           globals' = globals
    PROVE  SInv'
<1>1. SType
  BY DEF SInv
<1>2. conf' \in [SetPorts -> Conf] /\ \A r \in SetPorts : r # p => conf'[r] = conf[r]
  BY <1>1 DEF SType
<1>3. globals' \in [thresh : 0 .. 1, rss : 0 .. 1, dcb_config : BOOLEAN]
  BY <1>1 DEF SType
<1>4. \A r \in SetPorts : /\ conf'[r].port = conf[r].port \/ (r \in {p} /\ TRUE)
                          /\ conf'[r].queue = conf[r].queue \/ (r \in {p} /\ TRUE)
  BY <1>2
<1>5. {p} \in SUBSET SetPorts /\ TRUE \in BOOLEAN
  OBVIOUS
<1> QED
  BY <1>2, <1>3, <1>4, <1>5, Configured

\* A command that gives a port all of a new configuration while it flags every port.
LEMMA ConfiguredAll ==
    ASSUME SInv, conf' \in [SetPorts -> Conf], cmd_reconfig_device_queue(SetPorts, TRUE, TRUE),
           device' = device, up' = up, slips \subseteq slips',
           globals' \in [thresh : 0 .. 1, rss : 0 .. 1, dcb_config : BOOLEAN]
    PROVE  SInv'
<1>1. \A r \in SetPorts : /\ conf'[r].port = conf[r].port \/ (r \in SetPorts /\ TRUE)
                          /\ conf'[r].queue = conf[r].queue \/ (r \in SetPorts /\ TRUE)
  OBVIOUS
<1>2. SetPorts \in SUBSET SetPorts /\ TRUE \in BOOLEAN
  OBVIOUS
<1> QED
  BY <1>1, <1>2, Configured

\* What no restart recovers from is excused.
LEMMA Excused ==
    ASSUME SType', NEW s \in Unexcused, s \in slips'
    PROVE  SInv'
  BY DEF SInv, Settled

LEMMA SpeedAndLoopback ==
    ASSUME SInv, NEW v \in 0 .. 1, NEW p \in SetPorts,
           cmd_config_speed_specific_parsed(p, v) \/ cmd_config_loopback_specific_parsed(p, v)
    PROVE  SInv'
<1>1. conf \in [SetPorts -> Conf] /\ globals \in [thresh : 0 .. 1, rss : 0 .. 1, dcb_config : BOOLEAN]
  BY DEF SInv, SType
<1>2. CASE cmd_config_speed_specific_parsed(p, v)
  <2>1. conf' = [conf EXCEPT ![p] = [conf[p] EXCEPT !.port.speed = v]]
    BY <1>2 DEF cmd_config_speed_specific_parsed
  <2>2. [conf[p] EXCEPT !.port.speed = v] \in Conf
    BY <1>1, Written
  <2>3. conf' \in [SetPorts -> Conf]
    BY <1>1, <2>1, <2>2
  <2> QED
    BY <1>1, <1>2, <2>3, ConfiguredAll DEF cmd_config_speed_specific_parsed, Rest
<1>3. CASE cmd_config_loopback_specific_parsed(p, v)
  <2>1. conf' = [conf EXCEPT ![p] = [conf[p] EXCEPT !.port.lpbk = v]]
    BY <1>3 DEF cmd_config_loopback_specific_parsed
  <2>2. [conf[p] EXCEPT !.port.lpbk = v] \in Conf
    BY <1>1, Written
  <2> QED
    BY <1>3, <2>1, <2>2, ConfiguredOne DEF cmd_config_loopback_specific_parsed, Rest
<1> QED
  BY <1>2, <1>3

\* Thresholds, rx drop and burst
LEMMA SpreadStays ==
    ASSUME SInv, NEW v \in 0 .. 1, NEW n,
           \/ cmd_config_rx_mode_flag_parsed(v, n) \/ cmd_config_thresh_parsed(v, n)
           \/ cmd_config_threshold_parsed(v, n) \/ cmd_config_burst_parsed(n)
    PROVE  SInv'
<1>1. conf \in [SetPorts -> Conf] /\ globals \in [thresh : 0 .. 1, rss : 0 .. 1, dcb_config : BOOLEAN]
  BY DEF SInv, SType
<1>2. [globals EXCEPT !.thresh = v] \in [thresh : 0 .. 1, rss : 0 .. 1, dcb_config : BOOLEAN]
  BY <1>1
<1>3. PICK g \in [thresh : 0 .. 1, rss : 0 .. 1, dcb_config : BOOLEAN] : Spread(g, n)
  BY <1>1, <1>2 DEF cmd_config_rx_mode_flag_parsed, cmd_config_thresh_parsed, cmd_config_threshold_parsed,
                    cmd_config_burst_parsed
<1>4. conf' \in [SetPorts -> Conf]
  BY <1>1, <1>3, AllDefaulted DEF Spread
<1> QED
  BY <1>3, <1>4, ConfiguredAll DEF Spread
\* Both commands that may end early: then what they wrote is excused.
LEMMA EndsEarly ==
    ASSUME SInv, NEW all \in BOOLEAN, NEW n, NEW set \in [SetPorts -> Conf],
           IF all
             THEN /\ conf' = init_port_config(set, globals, n)
                  /\ cmd_reconfig_device_queue(SetPorts, TRUE, TRUE)
                  /\ slips' = slips
             ELSE /\ conf' = set
                  /\ need' = need
                  /\ slips' = IF set = conf THEN slips ELSE slips \cup {"early return"},
           UNCHANGED <<device, up, globals>>
    PROVE  SInv'
<1>1. conf \in [SetPorts -> Conf] /\ globals \in [thresh : 0 .. 1, rss : 0 .. 1, dcb_config : BOOLEAN]
  BY DEF SInv, SType
<1>2. CASE all
  <2>1. conf' \in [SetPorts -> Conf]
    BY <1>1, <1>2, AllDefaulted
  <2> QED
    BY <1>1, <1>2, <2>1, ConfiguredAll
<1>3. CASE ~all /\ set = conf
  BY <1>1, <1>3, Aside
<1>4. CASE ~all /\ set # conf
  <2>1. SType'
    BY <1>4 DEF SInv, SType
  <2> QED
    BY <1>4, <2>1, Excused DEF Unexcused
<1> QED
  BY <1>2, <1>3, <1>4

LEMMA MaxLro ==
    ASSUME SInv, NEW v \in 0 .. 1, cmd_config_max_lro_pkt_size_parsed(v)
    PROVE  SInv'
<1> DEFINE reached == {p \in SetPorts : \A j \in 0 .. p : conf[j].port.lro # v}
           set == [p \in SetPorts |-> IF p \in reached THEN [conf[p] EXCEPT !.port.lro = v] ELSE conf[p]]
<1>1. set \in [SetPorts -> Conf]
  BY Written DEF SInv, SType
<1>2. (reached = SetPorts) \in BOOLEAN
  OBVIOUS
<1>3. /\ IF reached = SetPorts
           THEN /\ conf' = init_port_config(set, globals, Cardinality(SetPorts))
                /\ cmd_reconfig_device_queue(SetPorts, TRUE, TRUE)
                /\ slips' = slips
           ELSE /\ conf' = set
                /\ need' = need
                /\ slips' = IF set = conf THEN slips ELSE slips \cup {"early return"}
      /\ UNCHANGED <<device, up, globals>>
  BY DEF cmd_config_max_lro_pkt_size_parsed
<1> HIDE DEF reached, set
<1> QED
  BY <1>1, <1>2, <1>3, EndsEarly

LEMMA Jumbo ==
    ASSUME NEW c \in Conf, NEW p, NEW frame \in 0 .. 1
    PROVE  update_jumbo_frame_offload(c, p, frame) \in Conf
<1> DEFINE rx == Switched(c.port.rx, "jumbo", frame = 1)
           qs == [q \in SetQueues |-> IF rx = c.port.rx THEN c.queue[q]
                                      ELSE [c.queue[q] EXCEPT !.rx = Switched(@, "jumbo", frame = 1)]]
<1>1. "jumbo" \in RxBits
  BY DEF RxBits
<1>2. c.port.rx \in SUBSET RxBits /\ c.queue \in [SetQueues -> QueueConf]
  BY DEF Conf, PortConf
<1>3. rx \in SUBSET RxBits
  BY <1>1, <1>2, Given
<1>4. ASSUME NEW q \in SetQueues
      PROVE  [c.queue[q] EXCEPT !.rx = Switched(c.queue[q].rx, "jumbo", frame = 1)] \in QueueConf
  <2>1. c.queue[q] \in QueueConf /\ c.queue[q].rx \in SUBSET RxBits
    BY <1>2 DEF QueueConf
  <2>2. Switched(c.queue[q].rx, "jumbo", frame = 1) \in SUBSET RxBits
    BY <1>1, <2>1, Given
  <2> QED
    BY <2>1, <2>2 DEF QueueConf
<1>5. qs \in [SetQueues -> QueueConf]
  BY <1>2, <1>4
<1> DEFINE new == [c EXCEPT !.port.frame = frame, !.port.rx = rx, !.queue = qs]
<1>6. update_jumbo_frame_offload(c, p, frame) = IF frame = 1 /\ "jumbo" \notin Capa[p] THEN c ELSE new
  BY DEF update_jumbo_frame_offload
<1> HIDE DEF rx, qs
<1>7. new \in Conf
  BY <1>3, <1>5 DEF Conf, PortConf
<1> QED
  BY <1>6, <1>7

LEMMA MaxPktLen ==
    ASSUME SInv, NEW frame \in 0 .. 1, NEW n, cmd_config_max_pkt_len_parsed(frame, n)
    PROVE  SInv'
<1> DEFINE reached == {p \in SetPorts : \A j \in 0 .. p : conf[j].port.frame # frame /\ j < n}
           set == [p \in SetPorts |-> IF p \in reached THEN update_jumbo_frame_offload(conf[p], p, frame) ELSE conf[p]]
<1>1. set \in [SetPorts -> Conf]
  BY Jumbo DEF SInv, SType
<1>2. (reached = SetPorts) \in BOOLEAN
  OBVIOUS
<1>3. /\ IF reached = SetPorts
           THEN /\ conf' = init_port_config(set, globals, n)
                /\ cmd_reconfig_device_queue(SetPorts, TRUE, TRUE)
                /\ slips' = slips
           ELSE /\ conf' = set
                /\ need' = need
                /\ slips' = IF set = conf THEN slips ELSE slips \cup {"early return"}
      /\ UNCHANGED <<device, up, globals>>
  BY DEF cmd_config_max_pkt_len_parsed
<1> HIDE DEF reached, set
<1> QED
  BY <1>1, <1>2, <1>3, EndsEarly

\* The hash functions that devices took are not in dev_conf.
LEMMA Rss ==
    ASSUME SInv, NEW v \in 0 .. 1, NEW taken, cmd_config_rss_parsed(v, taken)
    PROVE  SInv'
<1>1. SType
  BY DEF SInv
<1>2. globals' \in [thresh : 0 .. 1, rss : 0 .. 1, dcb_config : BOOLEAN]
  BY <1>1 DEF cmd_config_rss_parsed, SType
<1>3. CASE device' = device
  BY <1>2, <1>3, Aside DEF cmd_config_rss_parsed
<1>4. CASE device' # device
  <2>1. \A c \in Conf : [c EXCEPT !.port.rss = v] \in Conf
    BY DEF Conf, PortConf
  <2>2. device' \in [SetPorts -> Conf]
    BY <1>1, <2>1 DEF cmd_config_rss_parsed, SType
  <2>3. SType'
    BY <1>1, <1>2, <2>2 DEF cmd_config_rss_parsed, SType
  <2> QED
    BY <1>4, <2>3, Excused DEF cmd_config_rss_parsed, Unexcused
<1> QED
  BY <1>3, <1>4

LEMMA Mtu ==
    ASSUME SInv, NEW p \in SetPorts, NEW frame \in 0 .. 1, NEW taken \in BOOLEAN, cmd_config_mtu_parsed(p, frame, taken)
    PROVE  SInv'
<1>1. SType
  BY DEF SInv
<1>2. CASE conf' = conf
  BY <1>1, <1>2, Aside DEF cmd_config_mtu_parsed, port_mtu_set, SType
<1>3. CASE conf' # conf
  <2> DEFINE rx == Switched(conf[p].port.rx, "jumbo", frame = 1)
             size == IF frame = 1 THEN 1 ELSE conf[p].port.frame
             first == [conf EXCEPT ![p].port.rx = rx]
  <2>1. conf[p] \in Conf /\ conf[p].port \in PortConf /\ conf[p].port.rx \in SUBSET RxBits /\ size \in 0 .. 1
    BY <1>1 DEF SType, Conf, PortConf
  <2>2. rx \in SUBSET RxBits
    <3>1. "jumbo" \in RxBits
      BY DEF RxBits
    <3> QED
      BY <2>1, <3>1, Given
  <2>3. conf' = [conf EXCEPT ![p].port.rx = rx, ![p].port.frame = size]
    BY <1>1, <1>3 DEF cmd_config_mtu_parsed, port_mtu_set, SType
  <2> HIDE DEF rx, size
  <2>4. first \in [SetPorts -> Conf]
    BY <1>1, <2>1, <2>2, OffloadWritten DEF SType
  <2>5. conf' \in [SetPorts -> Conf]
    <3>1. conf' = [first EXCEPT ![p].port.frame = size]
      BY <2>3
    <3>2. [first[p] EXCEPT !.port.frame = size] \in Conf
      BY <2>1, <2>4 DEF Conf, PortConf
    <3> HIDE DEF first
    <3> QED
      BY <2>4, <3>1, <3>2
  <2>6. SType'
    BY <1>1, <2>5 DEF SType, cmd_config_mtu_parsed, port_mtu_set
  <2> QED
    BY <1>3, <2>6, Excused DEF cmd_config_mtu_parsed, port_mtu_set, Unexcused
<1> QED
  BY <1>2, <1>3

\* A queue of a port is given a new configuration, and the queues are flagged.
LEMMA ConfiguredQueue ==
    ASSUME SInv, NEW p \in SetPorts, NEW q \in SetQueues, NEW k \in QueueConf,
           NEW dev \in BOOLEAN, NEW queues \in BOOLEAN,
           conf' = [conf EXCEPT ![p].queue[q] = k], conf' = conf \/ queues,
           cmd_reconfig_device_queue({p}, dev, queues), UNCHANGED <<device, up, globals>>, slips \subseteq slips'
    PROVE  SInv'
<1>1. SType
  BY DEF SInv
<1>2. conf[p] \in Conf /\ conf[p].queue \in [SetQueues -> QueueConf]
  BY <1>1 DEF SType, Conf
<1> DEFINE new == [conf[p] EXCEPT !.queue[q] = k]
<1>3. new \in Conf
  BY <1>2 DEF Conf
<1>4. conf' = [conf EXCEPT ![p] = new]
  OBVIOUS
<1>5. new.port = conf[p].port
  BY <1>2 DEF Conf
<1> HIDE DEF new
<1>6. conf' \in [SetPorts -> Conf] /\ \A r \in SetPorts : conf'[r].port = conf[r].port /\ (r # p => conf'[r] = conf[r])
  BY <1>1, <1>3, <1>4, <1>5 DEF SType
<1>7. globals' \in [thresh : 0 .. 1, rss : 0 .. 1, dcb_config : BOOLEAN]
  BY <1>1 DEF SType
<1>8. \A r \in SetPorts : /\ conf'[r].port = conf[r].port \/ (r \in {p} /\ dev)
                          /\ conf'[r].queue = conf[r].queue \/ (r \in {p} /\ queues)
  BY <1>6
<1>9. {p} \in SUBSET SetPorts
  OBVIOUS
<1> QED
  BY <1>6, <1>7, <1>8, <1>9, Configured
LEMMA RingSize ==
    ASSUME SInv, NEW p \in SetPorts, NEW q \in SetQueues, NEW isrx \in BOOLEAN, NEW v \in 0 .. 1,
           cmd_config_rxtx_ring_size_parsed(p, q, isrx, v)
    PROVE  SInv'
<1> DEFINE k == IF isrx THEN [conf[p].queue[q] EXCEPT !.rxd = v] ELSE [conf[p].queue[q] EXCEPT !.txd = v]
<1>1. conf[p].queue[q] \in QueueConf
  BY DEF SInv, SType, Conf
<1>2. k \in QueueConf
  BY <1>1, RingWritten
<1>3. conf' = [conf EXCEPT ![p].queue[q] = k]
  BY DEF cmd_config_rxtx_ring_size_parsed
<1> HIDE DEF k
<1> QED
  BY <1>2, <1>3, ConfiguredQueue DEF cmd_config_rxtx_ring_size_parsed, Rest

LEMMA DeferredStart ==
    ASSUME SInv, NEW p \in SetPorts, NEW q \in SetQueues, NEW isrx \in BOOLEAN, NEW ison \in BOOLEAN,
           cmd_config_deferred_start_rxtx_queue_parsed(p, q, isrx, ison)
    PROVE  SInv'
<1> DEFINE k == IF isrx THEN [conf[p].queue[q] EXCEPT !.rx_late = ison] ELSE [conf[p].queue[q] EXCEPT !.tx_late = ison]
<1>1. conf[p].queue[q] \in QueueConf
  BY DEF SInv, SType, Conf
<1>2. k \in QueueConf
  <2>1. [conf[p].queue[q] EXCEPT !.rx_late = ison] \in QueueConf
    BY <1>1, LateWritten
  <2>2. [conf[p].queue[q] EXCEPT !.tx_late = ison] \in QueueConf
    BY <1>1, LateWritten
  <2> QED
    BY <2>1, <2>2
<1>3. conf' = [conf EXCEPT ![p].queue[q] = k]
  BY DEF cmd_config_deferred_start_rxtx_queue_parsed
<1>4. PICK queues \in BOOLEAN : (conf' = conf \/ queues) /\ cmd_reconfig_device_queue({p}, FALSE, queues)
  <2>1. cmd_reconfig_device_queue({p}, FALSE, conf' # conf) /\ (conf' # conf) \in BOOLEAN
    BY DEF cmd_config_deferred_start_rxtx_queue_parsed
  <2> QED
    BY <2>1
<1>5. UNCHANGED <<device, up, globals, slips>>
  BY DEF cmd_config_deferred_start_rxtx_queue_parsed, Rest
<1> HIDE DEF k
<1> QED
  BY <1>2, <1>3, <1>4, <1>5, ConfiguredQueue

\* What is set up at once is copied from the port.
LEMMA SetUp ==
    ASSUME SInv, NEW p \in SetPorts, NEW q \in SetQueues, NEW isrx \in BOOLEAN, NEW taken \in BOOLEAN,
           cmd_setup_rxtx_queue_parsed(p, q, isrx, taken)
    PROVE  SInv'
<1>1. SType /\ Settled
  BY DEF SInv
<1> DEFINE now == conf[p].queue[q]
           had == device[p].queue[q]
           k == IF ~taken THEN had
                ELSE IF isrx THEN [had EXCEPT !.rx = now.rx, !.rxd = now.rxd, !.thresh = now.thresh, !.rx_late = now.rx_late]
                ELSE [had EXCEPT !.tx = now.tx, !.txd = now.txd, !.tx_late = now.tx_late]
<1>2. now \in QueueConf /\ had \in QueueConf
  BY <1>1 DEF SType, Conf
<1>3. k \in QueueConf
  BY <1>2 DEF QueueConf
<1>4. had = now => k = now
  BY <1>2 DEF QueueConf
<1>5. device' = [device EXCEPT ![p].queue[q] = k]
  BY DEF cmd_setup_rxtx_queue_parsed
<1> HIDE DEF k
<1>6. /\ device' \in [SetPorts -> Conf]
      /\ \A r \in SetPorts : device'[r].port = device[r].port /\ (r # p => device'[r] = device[r])
      /\ device'[p].queue = [device[p].queue EXCEPT ![q] = k]
  BY <1>1, <1>3, <1>5 DEF SType, Conf
<1>7. device[p].queue = conf[p].queue => device'[p].queue = conf[p].queue
  <2>1. device[p].queue \in [SetQueues -> QueueConf]
    BY <1>1 DEF SType, Conf
  <2> QED
    BY <1>4, <1>6, <2>1
<1>8. SType' /\ UNCHANGED <<conf, need, slips>>
  BY <1>1, <1>6 DEF SType, cmd_setup_rxtx_queue_parsed
<1>9. Settled'
  BY <1>1, <1>6, <1>7, <1>8 DEF Settled
<1> QED
  BY <1>8, <1>9 DEF SInv
\* Offloads by name, of a port with its queues and of one queue
LEMMA PortRx ==
    ASSUME SInv, NEW p \in SetPorts, NEW on \in BOOLEAN, NEW b \in RxBits, cmd_config_per_port_rx_offload_parsed(p, b, on)
    PROVE  SInv'
<1> DEFINE bits == Switched(conf[p].port.rx, b, on)
           ofqueue(r) == Switched(conf[p].queue[r].rx, b, on)
           qs == [r \in SetQueues |-> [conf[p].queue[r] EXCEPT !.rx = ofqueue(r)]]
           new == [port |-> [conf[p].port EXCEPT !.rx = bits], queue |-> qs]
<1>1. /\ conf[p].port \in PortConf /\ conf[p].port.rx \in SUBSET RxBits
      /\ \A r \in SetQueues : conf[p].queue[r] \in QueueConf /\ conf[p].queue[r].rx \in SUBSET RxBits
  BY DEF SInv, SType, Conf, PortConf, QueueConf
<1>2. bits \in SUBSET RxBits
  BY <1>1, Given
<1>3. \A r \in SetQueues : ofqueue(r) \in SUBSET RxBits
  BY <1>1, Given
<1>4. conf' = [conf EXCEPT ![p] = new]
  BY DEF cmd_config_per_port_rx_offload_parsed
<1> HIDE DEF bits, ofqueue
<1>5. [conf[p].port EXCEPT !.rx = bits] \in PortConf
  BY <1>1, <1>2 DEF PortConf
<1>6. qs \in [SetQueues -> QueueConf]
  <2>1. \A r \in SetQueues : [conf[p].queue[r] EXCEPT !.rx = ofqueue(r)] \in QueueConf
    BY <1>1, <1>3 DEF QueueConf
  <2> QED
    BY <2>1
<1>7. new \in Conf
  BY <1>5, <1>6 DEF Conf
<1> HIDE DEF new
<1> QED
  BY <1>4, <1>7, ConfiguredOne DEF cmd_config_per_port_rx_offload_parsed

LEMMA QueueRx ==
    ASSUME SInv, NEW p \in SetPorts, NEW q \in SetQueues, NEW on \in BOOLEAN, NEW b \in RxBits,
           cmd_config_per_queue_rx_offload_parsed(p, q, b, on)
    PROVE  SInv'
<1> DEFINE bits == Switched(conf[p].queue[q].rx, b, on)
<1>1. conf[p].queue[q] \in QueueConf /\ conf[p].queue[q].rx \in SUBSET RxBits
  BY DEF SInv, SType, Conf, QueueConf
<1>2. bits \in SUBSET RxBits
  BY <1>1, Given
<1>3. conf' = [conf EXCEPT ![p].queue[q] = [conf[p].queue[q] EXCEPT !.rx = bits]]
  BY DEF cmd_config_per_queue_rx_offload_parsed
<1> HIDE DEF bits
<1>4. [conf[p].queue[q] EXCEPT !.rx = bits] \in QueueConf
  BY <1>1, <1>2 DEF QueueConf
<1>5. cmd_reconfig_device_queue({p}, TRUE, TRUE) /\ UNCHANGED <<device, up, globals, slips>>
  BY DEF cmd_config_per_queue_rx_offload_parsed
<1> QED
  BY <1>3, <1>4, <1>5, ConfiguredQueue

LEMMA PortTx ==
    ASSUME SInv, NEW p \in SetPorts, NEW on \in BOOLEAN, NEW b \in TxBits, cmd_config_per_port_tx_offload_parsed(p, b, on)
    PROVE  SInv'
<1> DEFINE bits == Switched(conf[p].port.tx, b, on)
           ofqueue(r) == Switched(conf[p].queue[r].tx, b, on)
           qs == [r \in SetQueues |-> [conf[p].queue[r] EXCEPT !.tx = ofqueue(r)]]
           new == [port |-> [conf[p].port EXCEPT !.tx = bits], queue |-> qs]
<1>1. /\ conf[p].port \in PortConf /\ conf[p].port.tx \in SUBSET TxBits
      /\ \A r \in SetQueues : conf[p].queue[r] \in QueueConf /\ conf[p].queue[r].tx \in SUBSET TxBits
  BY DEF SInv, SType, Conf, PortConf, QueueConf
<1>2. bits \in SUBSET TxBits
  BY <1>1, Given
<1>3. \A r \in SetQueues : ofqueue(r) \in SUBSET TxBits
  BY <1>1, Given
<1>4. conf' = [conf EXCEPT ![p] = new]
  BY DEF cmd_config_per_port_tx_offload_parsed
<1> HIDE DEF bits, ofqueue
<1>5. [conf[p].port EXCEPT !.tx = bits] \in PortConf
  BY <1>1, <1>2 DEF PortConf
<1>6. qs \in [SetQueues -> QueueConf]
  <2>1. \A r \in SetQueues : [conf[p].queue[r] EXCEPT !.tx = ofqueue(r)] \in QueueConf
    BY <1>1, <1>3 DEF QueueConf
  <2> QED
    BY <2>1
<1>7. new \in Conf
  BY <1>5, <1>6 DEF Conf
<1> HIDE DEF new
<1> QED
  BY <1>4, <1>7, ConfiguredOne DEF cmd_config_per_port_tx_offload_parsed

LEMMA QueueTx ==
    ASSUME SInv, NEW p \in SetPorts, NEW q \in SetQueues, NEW on \in BOOLEAN, NEW b \in TxBits,
           cmd_config_per_queue_tx_offload_parsed(p, q, b, on)
    PROVE  SInv'
<1> DEFINE bits == Switched(conf[p].queue[q].tx, b, on)
<1>1. conf[p].queue[q] \in QueueConf /\ conf[p].queue[q].tx \in SUBSET TxBits
  BY DEF SInv, SType, Conf, QueueConf
<1>2. bits \in SUBSET TxBits
  BY <1>1, Given
<1>3. conf' = [conf EXCEPT ![p].queue[q] = [conf[p].queue[q] EXCEPT !.tx = bits]]
  BY DEF cmd_config_per_queue_tx_offload_parsed
<1> HIDE DEF bits
<1>4. [conf[p].queue[q] EXCEPT !.tx = bits] \in QueueConf
  BY <1>1, <1>2 DEF QueueConf
<1>5. cmd_reconfig_device_queue({p}, TRUE, TRUE) /\ UNCHANGED <<device, up, globals, slips>>
  BY DEF cmd_config_per_queue_tx_offload_parsed
<1> QED
  BY <1>3, <1>4, <1>5, ConfiguredQueue

\* VLAN offloads change the port and the device alike.
LEMMA Vlan ==
    ASSUME SInv, NEW p \in SetPorts, NEW on \in BOOLEAN, NEW taken \in BOOLEAN, cmd_vlan_offload_parsed(p, on, taken)
    PROVE  SInv'
<1>1. SType /\ Settled
  BY DEF SInv
<1>2. PICK b \in RxBits : VlanOffload(p, b, on, taken)
  <2>1. "extend" \in RxBits /\ "strip" \in RxBits /\ "filter" \in RxBits /\ "qinq_strip" \in RxBits
    BY DEF RxBits
  <2> QED
    BY <2>1 DEF cmd_vlan_offload_parsed, vlan_extend_set, rx_vlan_strip_set, rx_vlan_filter_set, rx_vlan_qinq_strip_set
<1>3. CASE ~taken
  <2>1. UNCHANGED <<conf, device, need, up, globals>> /\ slips \subseteq slips'
    BY <1>2, <1>3 DEF VlanOffload
  <2>2. globals' \in [thresh : 0 .. 1, rss : 0 .. 1, dcb_config : BOOLEAN]
    BY <1>1, <2>1 DEF SType
  <2> QED
    BY <2>1, <2>2, Aside
<1>4. CASE taken
  <2> DEFINE rxc == Switched(conf[p].port.rx, b, on)
             rxd == Switched(device[p].port.rx, b, on)
  <2>1. /\ conf' = [conf EXCEPT ![p].port.rx = rxc]
        /\ device' = [device EXCEPT ![p].port.rx = rxd]
        /\ UNCHANGED <<need, up, globals>> /\ slips \subseteq slips'
    BY <1>2, <1>4 DEF VlanOffload
  <2>2. conf[p].port.rx \in SUBSET RxBits /\ device[p].port.rx \in SUBSET RxBits
    BY <1>1 DEF SType, Conf, PortConf
  <2>3. rxc \in SUBSET RxBits /\ rxd \in SUBSET RxBits
    BY <2>2, Given
  <2>4. conf[p].port.rx = device[p].port.rx => rxc = rxd
    OBVIOUS
  <2> HIDE DEF rxc, rxd
  <2>5. SType'
    BY <1>1, <2>1, <2>3, OffloadWritten DEF SType
  <2>6. /\ \A r \in SetPorts : conf'[r].queue = conf[r].queue /\ device'[r].queue = device[r].queue
        /\ \A r \in SetPorts \ {p} : conf'[r] = conf[r] /\ device'[r] = device[r]
    BY <1>1, <2>1 DEF SType, Conf
  <2>7. device[p].port = conf[p].port => device'[p].port = conf'[p].port
    <3>1. conf'[p].port = [conf[p].port EXCEPT !.rx = rxc] /\ device'[p].port = [device[p].port EXCEPT !.rx = rxd]
      BY <1>1, <2>1 DEF SType, Conf
    <3> QED
      BY <2>4, <3>1
  <2>8. Settled'
    BY <1>1, <2>1, <2>6, <2>7 DEF Settled
  <2> QED
    BY <2>5, <2>8 DEF SInv
<1> QED
  BY <1>3, <1>4
\* A port that is flagged and not changed
LEMMA FlaggedOnly ==
    ASSUME SInv, NEW ps \in SUBSET SetPorts, cmd_reconfig_device_queue(ps, TRUE, TRUE), conf' = conf,
           UNCHANGED <<device, up, globals>>, slips \subseteq slips'
    PROVE  SInv'
<1>1. SType
  BY DEF SInv
<1>2. conf' \in [SetPorts -> Conf] /\ globals' \in [thresh : 0 .. 1, rss : 0 .. 1, dcb_config : BOOLEAN]
  BY <1>1 DEF SType
<1>3. \A r \in SetPorts : /\ conf'[r].port = conf[r].port \/ (r \in ps /\ TRUE)
                          /\ conf'[r].queue = conf[r].queue \/ (r \in ps /\ TRUE)
  OBVIOUS
<1>4. TRUE \in BOOLEAN
  OBVIOUS
<1> QED
  BY <1>2, <1>3, <1>4, Configured

\* The tag that a port inserts
LEMMA Tags ==
    ASSUME SInv, NEW p \in SetPorts, NEW able \in BOOLEAN, NEW tx \in SUBSET TxBits, NEW tag,
           TagCommand(p, able, tx, tag)
    PROVE  SInv'
<1>1. {p} \in SUBSET SetPorts /\ cmd_reconfig_device_queue({p}, TRUE, TRUE) /\ UNCHANGED <<device, up, globals>>
  BY DEF TagCommand
<1>2. CASE ~able
  BY <1>1, <1>2, FlaggedOnly DEF TagCommand
<1>3. CASE able
  <2>1. Tagged(p, tx, tag)
    BY <1>3 DEF TagCommand
  <2>2. conf' = [conf EXCEPT ![p] = [conf[p] EXCEPT !.port.tx = tx]] /\ slips \subseteq slips'
    BY <2>1 DEF Tagged
  <2>3. conf[p] \in Conf
    BY DEF SInv, SType
  <2>4. [conf[p] EXCEPT !.port.tx = tx] \in Conf
    <3>1. {} \in SUBSET RxBits
      OBVIOUS
    <3> QED
      BY <2>3, <3>1, OffloadWritten
  <2> QED
    BY <1>1, <2>2, <2>4, ConfiguredOne
<1> QED
  BY <1>2, <1>3

LEMMA TxVlan ==
    ASSUME SInv, NEW p \in SetPorts,
           cmd_tx_vlan_set_parsed(p) \/ cmd_tx_vlan_set_qinq_parsed(p) \/ cmd_tx_vlan_reset_parsed(p)
    PROVE  SInv'
<1> DEFINE tx == conf[p].port.tx
<1>1. tx \in SUBSET TxBits
  BY DEF SInv, SType, Conf, PortConf
<1>2. "vlan" \in TxBits /\ "qinq" \in TxBits
  BY DEF TxBits
<1>3. /\ tx_vlan_reset(tx) \cup {"vlan"} \in SUBSET TxBits
      /\ tx_vlan_reset(tx) \cup {"vlan", "qinq"} \in SUBSET TxBits
      /\ tx_vlan_reset(tx) \in SUBSET TxBits
  BY <1>1, <1>2 DEF tx_vlan_reset
<1>4. CASE cmd_tx_vlan_set_parsed(p)
  <2>1. PICK able \in BOOLEAN : TagCommand(p, able, tx_vlan_reset(tx) \cup {"vlan"}, 1)
    <3>1. ("qinq" \notin tx /\ "vlan" \in Capa[p]) \in BOOLEAN
      OBVIOUS
    <3> QED
      BY <1>4, <3>1 DEF cmd_tx_vlan_set_parsed, tx_vlan_set
  <2> QED
    BY <1>3, <2>1, Tags
<1>5. CASE cmd_tx_vlan_set_qinq_parsed(p)
  <2>1. PICK able \in BOOLEAN : TagCommand(p, able, tx_vlan_reset(tx) \cup {"vlan", "qinq"}, 2)
    <3>1. ("qinq" \in Capa[p]) \in BOOLEAN
      OBVIOUS
    <3> QED
      BY <1>5, <3>1 DEF cmd_tx_vlan_set_qinq_parsed, tx_qinq_set
  <2> QED
    BY <1>3, <2>1, Tags
<1>6. CASE cmd_tx_vlan_reset_parsed(p)
  <2>1. TagCommand(p, TRUE, tx_vlan_reset(tx), 0) /\ TRUE \in BOOLEAN
    BY <1>6 DEF cmd_tx_vlan_reset_parsed
  <2> QED
    BY <1>3, <2>1, Tags
<1> QED
  BY <1>4, <1>5, <1>6

\* The offloads of the checksum engine are copied over those of the queues.
LEMMA CopiedStays ==
    ASSUME SInv, NEW p \in SetPorts, NEW tx \in SUBSET TxBits, NEW b, Copied(p, tx, b), UNCHANGED <<device, up, globals>>
    PROVE  SInv'
<1> DEFINE c == [conf[p] EXCEPT !.port.tx = tx]
           qs == [q \in SetQueues |-> [c.queue[q] EXCEPT !.tx = c.port.tx]]
<1>1. conf[p] \in Conf
  BY DEF SInv, SType
<1>2. c \in Conf /\ c.port.tx = tx
  BY <1>1 DEF Conf, PortConf
<1>3. conf' = [conf EXCEPT ![p] = cmd_config_queue_tx_offloads(c)]
  BY DEF Copied
<1> HIDE DEF c
<1>4. \A q \in SetQueues : c.queue[q] \in QueueConf
  BY <1>2 DEF Conf
<1>5. qs \in [SetQueues -> QueueConf]
  <2>1. \A q \in SetQueues : [c.queue[q] EXCEPT !.tx = tx] \in QueueConf
    BY <1>4 DEF QueueConf
  <2> QED
    BY <1>2, <2>1
<1>6. cmd_config_queue_tx_offloads(c) = [c EXCEPT !.queue = qs]
  BY DEF cmd_config_queue_tx_offloads
<1> HIDE DEF qs
<1>7. cmd_config_queue_tx_offloads(c) \in Conf
  BY <1>2, <1>5, <1>6, QueuesWritten
<1>8. cmd_reconfig_device_queue({p}, TRUE, TRUE) /\ slips \subseteq slips'
  BY DEF Copied
<1> QED
  BY <1>3, <1>7, <1>8, ConfiguredOne

LEMMA CsumAndTso ==
    ASSUME SInv, NEW p \in SetPorts, NEW on \in BOOLEAN, NEW v \in 0 .. 1,
           \/ cmd_csum_parsed(p, on) \/ cmd_csum_tunnel_parsed(p, on)
           \/ cmd_tso_set_parsed(p, v) \/ cmd_tunnel_tso_set_parsed(p, v)
    PROVE  SInv'
<1> DEFINE tx == conf[p].port.tx
<1>1. tx \in SUBSET TxBits
  BY DEF SInv, SType, Conf, PortConf
<1>2. "csum" \in TxBits /\ "tso" \in TxBits /\ "tunnel_tso" \in TxBits
  BY DEF TxBits
<1>3. globals \in [thresh : 0 .. 1, rss : 0 .. 1, dcb_config : BOOLEAN]
  BY DEF SInv, SType
<1>4. CASE cmd_csum_parsed(p, on)
  <2>1. PICK t \in SUBSET TxBits : Copied(p, t, "csum")
    <3> DEFINE t == IF on /\ "csum" \notin Capa[p] THEN tx ELSE Switched(tx, "csum", on)
    <3>1. t \in SUBSET TxBits
      BY <1>1, <1>2, Given
    <3>2. Copied(p, t, "csum")
      BY <1>4 DEF cmd_csum_parsed
    <3> QED
      BY <3>1, <3>2
  <2> QED
    BY <1>4, <2>1, CopiedStays DEF cmd_csum_parsed
<1>5. CASE cmd_csum_tunnel_parsed(p, on)
  BY <1>3, <1>5, Aside DEF cmd_csum_tunnel_parsed
<1>6. CASE cmd_tso_set_parsed(p, v)
  <2>1. CASE v # 0 /\ "tso" \notin Capa[p]
    BY <1>3, <1>6, <2>1, Aside DEF cmd_tso_set_parsed
  <2>2. CASE ~(v # 0 /\ "tso" \notin Capa[p])
    <3>1. Switched(tx, "tso", v # 0) \in SUBSET TxBits
      BY <1>1, <1>2, Given
    <3>2. Copied(p, Switched(tx, "tso", v # 0), "tso") /\ UNCHANGED <<device, up, globals>>
      BY <1>6, <2>2 DEF cmd_tso_set_parsed
    <3> QED
      BY <3>1, <3>2, CopiedStays
  <2> QED
    BY <2>1, <2>2
<1>7. CASE cmd_tunnel_tso_set_parsed(p, v)
  <2> DEFINE t == IF v = 0 THEN tx \ {"tunnel_tso"} ELSE tx \cup ({"tunnel_tso"} \cap Capa[p])
  <2>1. t \in SUBSET TxBits
    BY <1>1, <1>2
  <2>2. Copied(p, t, "tunnel_tso") /\ UNCHANGED <<device, up, globals>>
    BY <1>7 DEF cmd_tunnel_tso_set_parsed
  <2> QED
    BY <2>1, <2>2, CopiedStays
<1> QED
  BY <1>4, <1>5, <1>6, <1>7
\* DCB: what fails half way is excused, and what does not is flagged.
LEMMA Dcb ==
    ASSUME SInv, NEW p \in SetPorts, NEW fails \in {"none", "configure", "info", "macaddr"}, cmd_config_dcb_parsed(p, fails)
    PROVE  SInv'
<1> DEFINE new == get_eth_dcb_conf(conf[p].port)
           g == [globals EXCEPT !.thresh = 1]
           ps == IF fails = "none" THEN {p} ELSE {}
           c == [conf[p] EXCEPT !.port = new]
<1>1. SType /\ Settled
  BY DEF SInv
<1>2. g \in [thresh : 0 .. 1, rss : 0 .. 1, dcb_config : BOOLEAN]
  BY <1>1 DEF SType
<1>3. new \in PortConf
  <2>1. conf[p].port \in PortConf /\ conf[p].port.rx \in SUBSET RxBits
    BY <1>1 DEF SType, Conf, PortConf
  <2>2. "filter" \in RxBits
    BY DEF RxBits
  <2>3. conf[p].port.rx \cup {"filter"} \in SUBSET RxBits
    BY <2>1, <2>2
  <2>4. NewPort \in PortConf
    BY DEF NewPort, PortConf
  <2>5. \A k \in PortConf, rx \in SUBSET RxBits :
           [k EXCEPT !.frame = conf[p].port.frame, !.lro = conf[p].port.lro, !.rx = rx, !.tx = conf[p].port.tx,
                     !.mq = "dcb"] \in PortConf
    BY <2>1 DEF PortConf
  <2> QED
    BY <2>3, <2>4, <2>5 DEF get_eth_dcb_conf
<1>4. conf[p] \in Conf /\ device[p] \in Conf
  BY <1>1 DEF SType
<1>5. c \in Conf /\ [device[p] EXCEPT !.port = new] \in Conf
  BY <1>3, <1>4 DEF Conf
<1>6. rxtx_port_config(c, g) \in Conf
  BY <1>2, <1>5, Defaulted
<1>7. /\ init_port_dcb_config(p, fails) /\ cmd_reconfig_device_queue(ps, TRUE, TRUE)
      /\ slips' = slips \cup {s \in {"dcb"} : fails \in {"info", "macaddr"}} /\ up' = up
  BY DEF cmd_config_dcb_parsed
<1>8. device' = IF fails = "configure" THEN device ELSE [device EXCEPT ![p] = [device[p] EXCEPT !.port = new]]
  BY <1>7 DEF init_port_dcb_config
<1>9. IF fails \in {"configure", "info"} THEN UNCHANGED <<conf, globals>>
      ELSE /\ conf' = [conf EXCEPT ![p] = rxtx_port_config(c, g)]
           /\ globals' = [g EXCEPT !.dcb_config = (fails = "none")]
  BY <1>7 DEF init_port_dcb_config
<1> HIDE DEF new, g, c
<1>10. device' \in [SetPorts -> Conf] /\ conf' \in [SetPorts -> Conf]
  BY <1>1, <1>5, <1>6, <1>8, <1>9 DEF SType
<1>11. globals' \in [thresh : 0 .. 1, rss : 0 .. 1, dcb_config : BOOLEAN]
  <2>1. (fails = "none") \in BOOLEAN
    OBVIOUS
  <2>2. \A b \in BOOLEAN : [g EXCEPT !.dcb_config = b] \in [thresh : 0 .. 1, rss : 0 .. 1, dcb_config : BOOLEAN]
    BY <1>2
  <2>3. globals \in [thresh : 0 .. 1, rss : 0 .. 1, dcb_config : BOOLEAN]
    BY <1>1 DEF SType
  <2>4. globals' = globals \/ globals' = [g EXCEPT !.dcb_config = (fails = "none")]
    BY <1>9
  <2> QED
    BY <2>1, <2>2, <2>3, <2>4
<1>12. /\ need' \in [SetPorts -> [dev : BOOLEAN, queues : BOOLEAN]]
       /\ \A r \in SetPorts : /\ need[r].dev => need'[r].dev
                              /\ need[r].queues => need'[r].queues
                              /\ r \in ps /\ TRUE => need'[r].dev
                              /\ r \in ps /\ TRUE => need'[r].queues
  <2>1. ps \in SUBSET SetPorts /\ TRUE \in BOOLEAN
    OBVIOUS
  <2> QED
    BY <1>1, <1>7, <2>1, Raised
<1>13. SType'
  BY <1>1, <1>7, <1>10, <1>11, <1>12 DEF SType
<1>14. CASE fails = "configure"
  BY <1>1, <1>7, <1>8, <1>9, <1>12, <1>13, <1>14 DEF SInv, Settled
<1>15. CASE fails \in {"info", "macaddr"}
  BY <1>7, <1>13, <1>15, Excused DEF Unexcused
<1>16. CASE fails = "none"
  <2>1. \A r \in SetPorts \ {p} : conf'[r] = conf[r] /\ device'[r] = device[r]
    BY <1>1, <1>8, <1>9, <1>16 DEF SType
  <2>2. need'[p].dev /\ need'[p].queues
    BY <1>12, <1>16
  <2>3. slips \subseteq slips'
    BY <1>7
  <2>4. Settled'
    BY <1>1, <1>12, <2>1, <2>2, <2>3 DEF Settled
  <2> QED
    BY <1>13, <2>4 DEF SInv
<1> QED
  BY <1>14, <1>15, <1>16

\* A start lowers the flag of what it configures, and of nothing else.
LEMMA Start ==
    ASSUME SInv, NEW p \in SetPorts, NEW fails, start_port_configured(p, fails)
    PROVE  SInv'
<1>1. SType /\ Settled
  BY DEF SInv
<1> DEFINE port == IF need[p].dev /\ fails # "configure" THEN conf[p].port ELSE device[p].port
           qs == IF need[p].queues /\ fails = "none" THEN conf[p].queue ELSE device[p].queue
           left == [dev |-> fails = "configure", queues |-> need[p].queues /\ fails # "none"]
           first == [device EXCEPT ![p].port = port]
<1>2. conf[p] \in Conf /\ device[p] \in Conf /\ need[p] \in [dev : BOOLEAN, queues : BOOLEAN]
  BY <1>1 DEF SType
<1>3. port \in PortConf /\ qs \in [SetQueues -> QueueConf]
  BY <1>2 DEF Conf
<1>4. left \in [dev : BOOLEAN, queues : BOOLEAN]
  BY <1>2
<1>5. device' = [device EXCEPT ![p].port = port, ![p].queue = qs]
  BY <1>1, <1>2 DEF start_port_configured, SType, Conf
<1>6. need' = [need EXCEPT ![p] = left]
  BY DEF start_port_configured
<1>7. device' = [first EXCEPT ![p].queue = qs]
  BY <1>5
<1>8. ~left.dev => port = conf[p].port \/ (~need[p].dev /\ port = device[p].port)
  BY <1>2
<1>9. ~left.queues => qs = conf[p].queue \/ (~need[p].queues /\ qs = device[p].queue)
  BY <1>2
<1> HIDE DEF port, qs, left
<1>10. /\ first \in [SetPorts -> Conf]
       /\ first[p].port = port
       /\ \A r \in SetPorts \ {p} : first[r] = device[r]
  BY <1>1, <1>2, <1>3 DEF SType, Conf
<1> HIDE DEF first
<1>11. /\ device' \in [SetPorts -> Conf]
       /\ device'[p].port = port /\ device'[p].queue = qs
       /\ \A r \in SetPorts \ {p} : device'[r] = device[r]
  BY <1>3, <1>7, <1>10 DEF Conf
<1>12. /\ need' \in [SetPorts -> [dev : BOOLEAN, queues : BOOLEAN]]
       /\ need'[p] = left
       /\ \A r \in SetPorts \ {p} : need'[r] = need[r]
  BY <1>1, <1>4, <1>6 DEF SType
<1>13. UNCHANGED <<conf, globals, slips>> /\ up' \subseteq SetPorts
  BY <1>1 DEF start_port_configured, SType
<1>14. SType'
  BY <1>1, <1>11, <1>12, <1>13 DEF SType
<1>15. Settled'
  BY <1>1, <1>8, <1>9, <1>11, <1>12, <1>13 DEF Settled
<1> QED
  BY <1>14, <1>15 DEF SInv

LEMMA Stop ==
    ASSUME SInv, NEW p \in SetPorts, stop_port_configured(p)
    PROVE  SInv'
  BY DEF SInv, SType, Settled, stop_port_configured
LEMMA SStays ==
    ASSUME SInv, SNext \/ UNCHANGED svars
    PROVE  SInv'
<1>1. ASSUME NEW v \in 0 .. 1, cmd_config_max_lro_pkt_size_parsed(v) PROVE SInv'
  BY <1>1, MaxLro
<1>2. ASSUME NEW v \in 0 .. 1, NEW n, cmd_config_max_pkt_len_parsed(v, n) PROVE SInv'
  BY <1>2, MaxPktLen
<1>3. ASSUME NEW v \in 0 .. 1, NEW n,
             \/ cmd_config_rx_mode_flag_parsed(v, n) \/ cmd_config_thresh_parsed(v, n)
             \/ cmd_config_threshold_parsed(v, n) \/ cmd_config_burst_parsed(n)
      PROVE  SInv'
  BY <1>3, SpreadStays
<1>4. ASSUME NEW v \in 0 .. 1, NEW taken, cmd_config_rss_parsed(v, taken) PROVE SInv'
  BY <1>4, Rss
<1>5. ASSUME NEW v \in 0 .. 1, cmd_config_speed_all_parsed(v) \/ cmd_config_loopback_all_parsed(v) PROVE SInv'
  <2>1. CASE cmd_config_speed_all_parsed(v)
    <3>1. conf' \in [SetPorts -> Conf]
      BY <2>1, Written DEF cmd_config_speed_all_parsed, SInv, SType
    <3>2. globals' \in [thresh : 0 .. 1, rss : 0 .. 1, dcb_config : BOOLEAN]
      BY <2>1 DEF cmd_config_speed_all_parsed, Rest, SInv, SType
    <3> QED
      BY <2>1, <3>1, <3>2, ConfiguredAll DEF cmd_config_speed_all_parsed, Rest
  <2>2. CASE cmd_config_loopback_all_parsed(v)
    <3>1. conf' \in [SetPorts -> Conf]
      BY <2>2, Written DEF cmd_config_loopback_all_parsed, SInv, SType
    <3>2. globals' \in [thresh : 0 .. 1, rss : 0 .. 1, dcb_config : BOOLEAN]
      BY <2>2 DEF cmd_config_loopback_all_parsed, Rest, SInv, SType
    <3> QED
      BY <2>2, <3>1, <3>2, ConfiguredAll DEF cmd_config_loopback_all_parsed, Rest
  <2> QED
    BY <1>5, <2>1, <2>2
<1>6. ASSUME NEW v \in 0 .. 1, NEW p \in SetPorts,
             cmd_config_speed_specific_parsed(p, v) \/ cmd_config_loopback_specific_parsed(p, v)
      PROVE  SInv'
  BY <1>6, SpeedAndLoopback
<1>7. ASSUME NEW v \in 0 .. 1, NEW p \in SetPorts, NEW taken \in BOOLEAN, cmd_config_mtu_parsed(p, v, taken) PROVE SInv'
  BY <1>7, Mtu
<1>8. ASSUME NEW v \in 0 .. 1, NEW p \in SetPorts, cmd_tso_set_parsed(p, v) \/ cmd_tunnel_tso_set_parsed(p, v) PROVE SInv'
  <2>1. TRUE \in BOOLEAN
    OBVIOUS
  <2> QED
    BY <1>8, <2>1, CsumAndTso
<1>9. ASSUME NEW v \in 0 .. 1, NEW p \in SetPorts, NEW q \in SetQueues, NEW isrx \in BOOLEAN,
             cmd_config_rxtx_ring_size_parsed(p, q, isrx, v)
      PROVE  SInv'
  BY <1>9, RingSize
<1>10. ASSUME NEW p \in SetPorts, NEW on \in BOOLEAN, cmd_csum_parsed(p, on) \/ cmd_csum_tunnel_parsed(p, on) PROVE SInv'
  <2>1. 0 \in 0 .. 1
    OBVIOUS
  <2> QED
    BY <1>10, <2>1, CsumAndTso
<1>11. ASSUME NEW p \in SetPorts, NEW on \in BOOLEAN, NEW taken \in BOOLEAN, cmd_vlan_offload_parsed(p, on, taken) PROVE SInv'
  BY <1>11, Vlan
<1>12. ASSUME NEW p \in SetPorts, NEW on \in BOOLEAN, NEW q \in SetQueues, NEW isrx \in BOOLEAN,
              \/ cmd_config_deferred_start_rxtx_queue_parsed(p, q, isrx, on)
              \/ cmd_setup_rxtx_queue_parsed(p, q, isrx, on)
       PROVE  SInv'
  BY <1>12, DeferredStart, SetUp
<1>13. ASSUME NEW p \in SetPorts, NEW on \in BOOLEAN, NEW b \in RxBits, cmd_config_per_port_rx_offload_parsed(p, b, on)
       PROVE  SInv'
  BY <1>13, PortRx
<1>14. ASSUME NEW p \in SetPorts, NEW on \in BOOLEAN, NEW b \in TxBits, cmd_config_per_port_tx_offload_parsed(p, b, on)
       PROVE  SInv'
  BY <1>14, PortTx
<1>15. ASSUME NEW p \in SetPorts, NEW q \in SetQueues, NEW on \in BOOLEAN, NEW b \in RxBits,
              cmd_config_per_queue_rx_offload_parsed(p, q, b, on)
       PROVE  SInv'
  BY <1>15, QueueRx
<1>16. ASSUME NEW p \in SetPorts, NEW q \in SetQueues, NEW on \in BOOLEAN, NEW b \in TxBits,
              cmd_config_per_queue_tx_offload_parsed(p, q, b, on)
       PROVE  SInv'
  BY <1>16, QueueTx
<1>17. ASSUME NEW p \in SetPorts,
              cmd_tx_vlan_set_parsed(p) \/ cmd_tx_vlan_set_qinq_parsed(p) \/ cmd_tx_vlan_reset_parsed(p)
       PROVE  SInv'
  BY <1>17, TxVlan
<1>18. ASSUME NEW p \in SetPorts, NEW fails \in {"none", "configure", "info", "macaddr"}, cmd_config_dcb_parsed(p, fails)
       PROVE  SInv'
  BY <1>18, Dcb
<1>19. ASSUME NEW p \in SetPorts, NEW fails, start_port_configured(p, fails) PROVE SInv'
  BY <1>19, Start
<1>20. ASSUME NEW p \in SetPorts, stop_port_configured(p) PROVE SInv'
  BY <1>20, Stop
<1>21. CASE UNCHANGED svars
  BY <1>21 DEF svars, SInv, SType, Settled
<1> QED
  BY <1>1, <1>2, <1>3, <1>4, <1>5, <1>6, <1>7, <1>8, <1>9, <1>10, <1>11, <1>12, <1>13, <1>14, <1>15, <1>16,
     <1>17, <1>18, <1>19, <1>20, <1>21 DEF SNext

\* start_port() and the commands that flag ports: for any ports, queues and capabilities of
\* devices, however long the session, a started port that is not flagged runs what is shown
\* for it, but after the commands that write only one of the two.
THEOREM StartedPortsRunTheirSettings == Spec => []StartedAsSet
<1>1. Init => SInv
  BY SInitially DEF Init
<1>2. SInv /\ [Next]_vars => SInv'
  <2>1. [Next]_vars => SNext \/ UNCHANGED svars
    BY DEF Next, vars
  <2> QED
    BY <2>1, SStays
<1>3. SInv => StartedAsSet
  BY DEF SInv, SType, Settled, StartedAsSet, Unexcused
<1> QED
  BY <1>1, <1>2, <1>3, PTL DEF Spec

-----------------------------------------------------------------------------
(* The offloads of queues. *)

\* A queue of a port obeys what it was told: it has that, and besides only what the whole
\* port has; and what the port or it has is all it needs.
Obeys(port, queue, told) == told \subseteq port \cup queue /\ queue \subseteq told \cup port
Heeded(c, told) ==
    \A q \in SetQueues : /\ Obeys(c.port.rx, c.queue[q].rx, told[q].rx)
                         /\ Obeys(c.port.tx, c.queue[q].tx, told[q].tx)

ToldType == [rx : SUBSET RxBits, tx : SUBSET TxBits]

OInv ==
    /\ said \in [SetPorts -> [SetQueues -> ToldType]]
    /\ slips = {} => \A p \in SetPorts : Heeded(conf[p], said[p])

SameOffloads(c, d) ==
    /\ c.port.rx = d.port.rx /\ c.port.tx = d.port.tx
    /\ \A q \in SetQueues : c.queue[q].rx = d.queue[q].rx /\ c.queue[q].tx = d.queue[q].tx

\* No port has offloads at first, and none was told to.
LEMMA OInitially == SInit => OInv
<1> SUFFICES ASSUME SInit
             PROVE  OInv
  OBVIOUS
<1>1. said \in [SetPorts -> [SetQueues -> ToldType]]
  BY DEF SInit, ToldType
<1>2. ASSUME NEW p \in SetPorts
      PROVE  Heeded(conf[p], said[p])
  <2>1. conf[p] = NewConf /\ said[p] = [q \in SetQueues |-> [rx |-> {}, tx |-> {}]]
    BY DEF SInit
  <2>2. NewConf.port.rx = {} /\ NewConf.port.tx = {} /\ \A q \in SetQueues : NewConf.queue[q].rx = {} /\ NewConf.queue[q].tx = {}
    BY DEF NewConf, NewPort, NewQueue
  <2> QED
    BY <2>1, <2>2 DEF Heeded, Obeys
<1> QED
  BY <1>1, <1>2 DEF OInv

\* Commands that neither say nor write anything of offloads
LEMMA OffloadsAlone ==
    ASSUME OInv, said' = said, slips \subseteq slips', \A p \in SetPorts : SameOffloads(conf'[p], conf[p])
    PROVE  OInv'
  BY DEF OInv, Heeded, SameOffloads

\* A command that writes offloads of one port
LEMMA OffloadsOfOne ==
    ASSUME OInv, slips \subseteq slips', NEW p \in SetPorts, said' \in [SetPorts -> [SetQueues -> ToldType]],
           \A r \in SetPorts : r # p => conf'[r] = conf[r] /\ said'[r] = said[r],
           slips' = {} => Heeded(conf'[p], said'[p])
    PROVE  OInv'
  BY DEF OInv

\* An offload that the port and its queues are told
LEMMA ToldRx ==
    ASSUME OInv, NEW p \in SetPorts, NEW qs \in SUBSET SetQueues, NEW b \in RxBits, NEW on \in BOOLEAN, Told(p, qs, "rx", b, on)
    PROVE  /\ said' \in [SetPorts -> [SetQueues -> ToldType]]
           /\ \A r \in SetPorts : r # p => said'[r] = said[r]
           /\ \A q \in SetQueues : /\ said'[p][q].tx = said[p][q].tx
                                   /\ said'[p][q].rx = IF q \in qs THEN Switched(said[p][q].rx, b, on) ELSE said[p][q].rx
<1> DEFINE new(q) == [said[p][q] EXCEPT !.rx = Switched(said[p][q].rx, b, on)]
           all == [q \in SetQueues |-> IF q \in qs THEN new(q) ELSE said[p][q]]
<1>1. said \in [SetPorts -> [SetQueues -> ToldType]]
  BY DEF OInv
<1>2. said' = [said EXCEPT ![p] = all]
  BY DEF Told, Heard
<1>3. ASSUME NEW q \in SetQueues
      PROVE  /\ new(q) \in ToldType /\ new(q).tx = said[p][q].tx /\ new(q).rx = Switched(said[p][q].rx, b, on)
  <2>1. said[p][q] \in ToldType
    BY <1>1
  <2>2. Switched(said[p][q].rx, b, on) \in SUBSET RxBits
    BY <2>1, Given DEF ToldType
  <2> QED
    BY <2>1, <2>2 DEF ToldType
<1> HIDE DEF new
<1>4. all \in [SetQueues -> ToldType]
  BY <1>1, <1>3
<1>5. \A q \in SetQueues : /\ all[q].tx = said[p][q].tx
                           /\ all[q].rx = IF q \in qs THEN Switched(said[p][q].rx, b, on) ELSE said[p][q].rx
  BY <1>3
<1> HIDE DEF all
<1> QED
  BY <1>1, <1>2, <1>4, <1>5

LEMMA ToldTx ==
    ASSUME OInv, NEW p \in SetPorts, NEW qs \in SUBSET SetQueues, NEW b \in TxBits, NEW on \in BOOLEAN, Told(p, qs, "tx", b, on)
    PROVE  /\ said' \in [SetPorts -> [SetQueues -> ToldType]]
           /\ \A r \in SetPorts : r # p => said'[r] = said[r]
           /\ \A q \in SetQueues : /\ said'[p][q].rx = said[p][q].rx
                                   /\ said'[p][q].tx = IF q \in qs THEN Switched(said[p][q].tx, b, on) ELSE said[p][q].tx
<1> DEFINE new(q) == [said[p][q] EXCEPT !.tx = Switched(said[p][q].tx, b, on)]
           all == [q \in SetQueues |-> IF q \in qs THEN new(q) ELSE said[p][q]]
<1>1. said \in [SetPorts -> [SetQueues -> ToldType]]
  BY DEF OInv
<1>2. said' = [said EXCEPT ![p] = all]
  BY DEF Told, Heard
<1>3. ASSUME NEW q \in SetQueues
      PROVE  /\ new(q) \in ToldType /\ new(q).rx = said[p][q].rx /\ new(q).tx = Switched(said[p][q].tx, b, on)
  <2>1. said[p][q] \in ToldType
    BY <1>1
  <2>2. Switched(said[p][q].tx, b, on) \in SUBSET TxBits
    BY <2>1, Given DEF ToldType
  <2> QED
    BY <2>1, <2>2 DEF ToldType
<1> HIDE DEF new
<1>4. all \in [SetQueues -> ToldType]
  BY <1>1, <1>3
<1>5. \A q \in SetQueues : /\ all[q].rx = said[p][q].rx
                           /\ all[q].tx = IF q \in qs THEN Switched(said[p][q].tx, b, on) ELSE said[p][q].tx
  BY <1>3
<1> HIDE DEF all
<1> QED
  BY <1>1, <1>2, <1>4, <1>5

\* What init_port_config() leaves of offloads: all of them
LEMMA DefaultedSame ==
    ASSUME NEW c \in Conf, NEW g \in [thresh : 0 .. 1, rss : 0 .. 1, dcb_config : BOOLEAN]
    PROVE  SameOffloads(rxtx_port_config(c, g), c)
<1> DEFINE k(q) == [NewQueue EXCEPT !.rx = c.queue[q].rx, !.tx = c.queue[q].tx, !.thresh = g.thresh]
           qs == [q \in SetQueues |-> k(q)]
<1>1. rxtx_port_config(c, g) = [c EXCEPT !.queue = qs]
  BY DEF rxtx_port_config
<1>2. \A q \in SetQueues : k(q).rx = c.queue[q].rx /\ k(q).tx = c.queue[q].tx
  BY DEF NewQueue
<1> HIDE DEF k
<1>3. \A q \in SetQueues : qs[q].rx = c.queue[q].rx /\ qs[q].tx = c.queue[q].tx
  BY <1>2
<1> HIDE DEF qs
<1>4. [c EXCEPT !.queue = qs].port = c.port /\ [c EXCEPT !.queue = qs].queue = qs
  BY DEF Conf
<1> QED
  BY <1>1, <1>3, <1>4 DEF SameOffloads

LEMMA AllDefaultedSame ==
    ASSUME NEW cs \in [SetPorts -> Conf], NEW g \in [thresh : 0 .. 1, rss : 0 .. 1, dcb_config : BOOLEAN], NEW answers
    PROVE  \A p \in SetPorts : SameOffloads(init_port_config(cs, g, answers)[p], cs[p])
<1> DEFINE mq(p) == IF soft[p].dcb THEN cs[p].port.mq ELSE IF g.rss # 0 THEN "rss" ELSE "none"
           c(p) == [cs[p] EXCEPT !.port.rss = g.rss, !.port.mq = mq(p)]
<1> SUFFICES ASSUME NEW p \in SetPorts
             PROVE  SameOffloads(init_port_config(cs, g, answers)[p], cs[p])
  OBVIOUS
<1>1. cs[p] \in Conf
  OBVIOUS
<1>2. mq(p) \in {"none", "rss", "dcb"}
  BY <1>1 DEF Conf, PortConf
<1> HIDE DEF mq
<1>3. c(p) \in Conf /\ c(p).port.rx = cs[p].port.rx /\ c(p).port.tx = cs[p].port.tx /\ c(p).queue = cs[p].queue
  BY <1>1, <1>2 DEF Conf, PortConf
<1>4. init_port_config(cs, g, answers)[p] = IF p >= answers THEN cs[p] ELSE rxtx_port_config(c(p), g)
  BY DEF init_port_config, mq
<1> HIDE DEF c
<1>5. SameOffloads(rxtx_port_config(c(p), g), c(p))
  BY <1>3, DefaultedSame
<1> QED
  BY <1>3, <1>4, <1>5 DEF SameOffloads

\* One bit, in the sets of a port, of a queue and of what the queue was told
LEMMA SwitchedEverywhere ==
    ASSUME NEW P, NEW Q, NEW T, NEW b, NEW on \in BOOLEAN, Obeys(P, Q, T)
    PROVE  /\ Obeys(Switched(P, b, on), Switched(Q, b, on), Switched(T, b, on))
           /\ Obeys(P, Switched(Q, b, on), Switched(T, b, on))
           /\ on \/ b \notin Q => Obeys(Switched(P, b, on), Q, Switched(T, b, on))
<1>1. CASE on
  BY <1>1 DEF Obeys, Switched
<1>2. CASE ~on
  BY <1>2 DEF Obeys, Switched
<1> QED
  BY <1>1, <1>2

LEMMA OneTold ==
    ASSUME OInv, SType, NEW p \in SetPorts, NEW c, conf' = [conf EXCEPT ![p] = c], slips \subseteq slips',
           said' \in [SetPorts -> [SetQueues -> ToldType]], \A r \in SetPorts : r # p => said'[r] = said[r],
           slips' = {} => Heeded(c, said'[p])
    PROVE  OInv'
<1>1. conf'[p] = c /\ \A r \in SetPorts : r # p => conf'[r] = conf[r]
  BY DEF SType
<1> QED
  BY <1>1, OffloadsOfOne

\* Nothing of offloads, in the configuration of one port
LEMMA OneAlone ==
    ASSUME OInv, SType, NEW p \in SetPorts, NEW c, conf' = [conf EXCEPT ![p] = c], SameOffloads(c, conf[p]),
           said' = said, slips \subseteq slips'
    PROVE  OInv'
<1>1. conf'[p] = c /\ \A r \in SetPorts : r # p => conf'[r] = conf[r]
  BY DEF SType
<1>2. \A r \in SetPorts : SameOffloads(conf'[r], conf[r])
  BY <1>1 DEF SameOffloads
<1> QED
  BY <1>2, OffloadsAlone

\* Settings that are no offloads
LEMMA PortAlone ==
    ASSUME NEW c \in Conf, NEW v \in 0 .. 1
    PROVE  /\ SameOffloads([c EXCEPT !.port.speed = v], c)
           /\ SameOffloads([c EXCEPT !.port.lpbk = v], c)
           /\ SameOffloads([c EXCEPT !.port.lro = v], c)
  BY DEF Conf, PortConf, SameOffloads

LEMMA QueueAlone ==
    ASSUME NEW c \in Conf, NEW q \in SetQueues, NEW k \in QueueConf, k.rx = c.queue[q].rx, k.tx = c.queue[q].tx
    PROVE  SameOffloads([c EXCEPT !.queue[q] = k], c)
<1>1. c.queue \in [SetQueues -> QueueConf]
  BY DEF Conf
<1> DEFINE qs == [c.queue EXCEPT ![q] = k]
<1>2. [c EXCEPT !.queue[q] = k].port = c.port /\ [c EXCEPT !.queue[q] = k].queue = qs
  BY DEF Conf
<1>3. \A r \in SetQueues : qs[r].rx = c.queue[r].rx /\ qs[r].tx = c.queue[r].tx
  BY <1>1
<1> HIDE DEF qs
<1> QED
  BY <1>2, <1>3 DEF SameOffloads

LEMMA OSpeedAndLoopback ==
    ASSUME OInv, SType, NEW v \in 0 .. 1, NEW p \in SetPorts,
           cmd_config_speed_specific_parsed(p, v) \/ cmd_config_loopback_specific_parsed(p, v)
    PROVE  OInv'
<1>1. \A r \in SetPorts : conf[r] \in Conf
  BY DEF SType
<1>2. said' = said /\ slips \subseteq slips'
  BY DEF cmd_config_speed_specific_parsed, cmd_config_loopback_specific_parsed, Rest
<1>3. CASE cmd_config_speed_specific_parsed(p, v)
  <2>1. conf' = [conf EXCEPT ![p] = [conf[p] EXCEPT !.port.speed = v]]
    BY <1>3 DEF cmd_config_speed_specific_parsed
  <2> QED
    BY <1>1, <1>2, <2>1, PortAlone, OneAlone
<1>4. CASE cmd_config_loopback_specific_parsed(p, v)
  <2>1. conf' = [conf EXCEPT ![p] = [conf[p] EXCEPT !.port.lpbk = v]]
    BY <1>4 DEF cmd_config_loopback_specific_parsed
  <2> QED
    BY <1>1, <1>2, <2>1, PortAlone, OneAlone
<1> QED
  BY <1>3, <1>4

LEMMA OSpread ==
    ASSUME OInv, SType, NEW v \in 0 .. 1, NEW n,
           \/ cmd_config_rx_mode_flag_parsed(v, n) \/ cmd_config_thresh_parsed(v, n)
           \/ cmd_config_threshold_parsed(v, n) \/ cmd_config_burst_parsed(n)
    PROVE  OInv'
<1>1. conf \in [SetPorts -> Conf] /\ globals \in [thresh : 0 .. 1, rss : 0 .. 1, dcb_config : BOOLEAN]
  BY DEF SType
<1>2. [globals EXCEPT !.thresh = v] \in [thresh : 0 .. 1, rss : 0 .. 1, dcb_config : BOOLEAN]
  BY <1>1
<1>3. PICK g \in [thresh : 0 .. 1, rss : 0 .. 1, dcb_config : BOOLEAN] : Spread(g, n)
  BY <1>1, <1>2 DEF cmd_config_rx_mode_flag_parsed, cmd_config_thresh_parsed, cmd_config_threshold_parsed,
                    cmd_config_burst_parsed
<1>4. conf' = init_port_config(conf, g, n) /\ said' = said /\ slips \subseteq slips'
  BY <1>3 DEF Spread
<1>5. \A p \in SetPorts : SameOffloads(conf'[p], conf[p])
  BY <1>1, <1>3, <1>4, AllDefaultedSame
<1> QED
  BY <1>4, <1>5, OffloadsAlone

\* What is set before the ports get defaults, which leave offloads
LEMMA SetAndDefaulted ==
    ASSUME OInv, SType, NEW all \in BOOLEAN, NEW n, NEW set \in [SetPorts -> Conf],
           said' \in [SetPorts -> [SetQueues -> ToldType]],
           IF all THEN conf' = init_port_config(set, globals, n) /\ slips' = slips
           ELSE conf' = set /\ slips \subseteq slips',
           slips = {} => \A p \in SetPorts : Heeded(set[p], said'[p])
    PROVE  OInv'
<1>1. globals \in [thresh : 0 .. 1, rss : 0 .. 1, dcb_config : BOOLEAN]
  BY DEF SType
<1>2. \A p \in SetPorts : SameOffloads(conf'[p], set[p])
  <2>1. CASE all
    BY <1>1, <2>1, AllDefaultedSame
  <2>2. CASE ~all
    BY <2>2 DEF SameOffloads
  <2> QED
    BY <2>1, <2>2
<1>3. slips' = {} => slips = {}
  OBVIOUS
<1>4. slips = {} => \A p \in SetPorts : Heeded(conf'[p], said'[p])
  BY <1>2 DEF Heeded, SameOffloads
<1> QED
  BY <1>3, <1>4 DEF OInv

LEMMA OMaxLro ==
    ASSUME OInv, SType, NEW v \in 0 .. 1, cmd_config_max_lro_pkt_size_parsed(v)
    PROVE  OInv'
<1> DEFINE reached == {p \in SetPorts : \A j \in 0 .. p : conf[j].port.lro # v}
           set == [p \in SetPorts |-> IF p \in reached THEN [conf[p] EXCEPT !.port.lro = v] ELSE conf[p]]
<1>1. set \in [SetPorts -> Conf]
  BY Written DEF SType
<1>2. (reached = SetPorts) \in BOOLEAN
  OBVIOUS
<1>3. /\ IF reached = SetPorts THEN conf' = init_port_config(set, globals, Cardinality(SetPorts)) /\ slips' = slips
           ELSE conf' = set /\ slips \subseteq slips'
      /\ said' = said
  BY DEF cmd_config_max_lro_pkt_size_parsed
<1>4. \A p \in SetPorts : SameOffloads(set[p], conf[p])
  <2> TAKE p \in SetPorts
  <2>1. conf[p] \in Conf
    BY DEF SType
  <2>2. CASE p \in reached
    BY <2>1, <2>2, PortAlone
  <2>3. CASE p \notin reached
    BY <2>3 DEF SameOffloads
  <2> QED
    BY <2>2, <2>3
<1> HIDE DEF reached, set
<1>5. said' \in [SetPorts -> [SetQueues -> ToldType]] /\ (slips = {} => \A p \in SetPorts : Heeded(set[p], said'[p]))
  BY <1>3, <1>4 DEF OInv, Heeded, SameOffloads
<1> QED
  BY <1>1, <1>2, <1>3, <1>5, SetAndDefaulted

\* update_jumbo_frame_offload() writes the queues of a port when it writes the port.
LEMMA JumboBits ==
    ASSUME NEW c \in Conf, NEW p, NEW frame \in 0 .. 1, NEW d, d = update_jumbo_frame_offload(c, p, frame)
    PROVE  /\ d.port.tx = c.port.tx
           /\ \A q \in SetQueues : d.queue[q].tx = c.queue[q].tx
           /\ d.port.rx = c.port.rx => \A q \in SetQueues : d.queue[q].rx = c.queue[q].rx
           /\ d.port.rx # c.port.rx =>
                 /\ d.port.rx = Switched(c.port.rx, "jumbo", frame = 1)
                 /\ \A q \in SetQueues : d.queue[q].rx = Switched(c.queue[q].rx, "jumbo", frame = 1)
<1> DEFINE rx == Switched(c.port.rx, "jumbo", frame = 1)
           qs == [q \in SetQueues |-> IF rx = c.port.rx THEN c.queue[q]
                                      ELSE [c.queue[q] EXCEPT !.rx = Switched(@, "jumbo", frame = 1)]]
           new == [c EXCEPT !.port.frame = frame, !.port.rx = rx, !.queue = qs]
<1>1. d = IF frame = 1 /\ "jumbo" \notin Capa[p] THEN c ELSE new
  BY DEF update_jumbo_frame_offload
<1>2. \A q \in SetQueues : c.queue[q] \in QueueConf
  BY DEF Conf
<1>3. \A q \in SetQueues : /\ qs[q].tx = c.queue[q].tx
                           /\ rx = c.port.rx => qs[q].rx = c.queue[q].rx
                           /\ rx # c.port.rx => qs[q].rx = Switched(c.queue[q].rx, "jumbo", frame = 1)
  BY <1>2 DEF QueueConf
<1> HIDE DEF qs
<1>4. new.port.rx = rx /\ new.port.tx = c.port.tx /\ new.queue = qs
  BY DEF Conf, PortConf
<1> HIDE DEF new
<1>5. CASE frame = 1 /\ "jumbo" \notin Capa[p]
  BY <1>1, <1>5
<1>6. CASE ~(frame = 1 /\ "jumbo" \notin Capa[p])
  <2>1. d = new
    BY <1>1, <1>6
  <2> QED
    BY <1>3, <1>4, <2>1
<1> QED
  BY <1>5, <1>6

\* The frame size, of the ports before the loop ends: a port whose offloads change and its
\* queues were told alike.
LEMMA OMaxPktLen ==
    ASSUME OInv, SType, NEW frame \in 0 .. 1, NEW n, cmd_config_max_pkt_len_parsed(frame, n)
    PROVE  OInv'
<1> DEFINE reached == {p \in SetPorts : \A j \in 0 .. p : conf[j].port.frame # frame /\ j < n}
           set == [p \in SetPorts |-> IF p \in reached THEN update_jumbo_frame_offload(conf[p], p, frame) ELSE conf[p]]
           on == (frame = 1)
<1>1. set \in [SetPorts -> Conf]
  BY Jumbo DEF SType
<1>2. (reached = SetPorts) \in BOOLEAN /\ on \in BOOLEAN
  OBVIOUS
<1>3. /\ IF reached = SetPorts THEN conf' = init_port_config(set, globals, n) /\ slips' = slips
           ELSE conf' = set /\ slips \subseteq slips'
      /\ said' = Frames(conf')
  BY DEF cmd_config_max_pkt_len_parsed
<1>4. \A p \in SetPorts : conf'[p].port.rx = set[p].port.rx
  <2>1. globals \in [thresh : 0 .. 1, rss : 0 .. 1, dcb_config : BOOLEAN]
    BY DEF SType
  <2>2. CASE reached = SetPorts
    BY <1>1, <1>3, <2>1, <2>2, AllDefaultedSame DEF SameOffloads
  <2>3. CASE reached # SetPorts
    BY <1>3, <2>3
  <2> QED
    BY <2>2, <2>3
<1>5. ASSUME NEW p \in SetPorts
      PROVE  /\ set[p].port.tx = conf[p].port.tx
             /\ \A q \in SetQueues : set[p].queue[q].tx = conf[p].queue[q].tx
             /\ set[p].port.rx = conf[p].port.rx => \A q \in SetQueues : set[p].queue[q].rx = conf[p].queue[q].rx
             /\ set[p].port.rx # conf[p].port.rx =>
                   /\ set[p].port.rx = Switched(conf[p].port.rx, "jumbo", on)
                   /\ \A q \in SetQueues : set[p].queue[q].rx = Switched(conf[p].queue[q].rx, "jumbo", on)
  <2>1. conf[p] \in Conf
    BY DEF SType
  <2>2. CASE p \in reached
    <3>1. set[p] = update_jumbo_frame_offload(conf[p], p, frame)
      BY <2>2
    <3> HIDE DEF set
    <3> QED
      BY <2>1, <3>1, JumboBits
  <2>3. CASE p \notin reached
    BY <2>3
  <2> QED
    BY <2>2, <2>3
<1> HIDE DEF reached, set
<1> DEFINE told(p, q) == [said[p][q] EXCEPT !.rx = Switched(said[p][q].rx, "jumbo", "jumbo" \in set[p].port.rx)]
<1>6. \A p \in SetPorts : said'[p] = IF set[p].port.rx = conf[p].port.rx THEN said[p] ELSE [q \in SetQueues |-> told(p, q)]
  BY <1>3, <1>4 DEF Frames
<1>7. \A p \in SetPorts, q \in SetQueues :
         /\ told(p, q) \in ToldType
         /\ told(p, q).tx = said[p][q].tx
         /\ told(p, q).rx = Switched(said[p][q].rx, "jumbo", "jumbo" \in set[p].port.rx)
  <2> TAKE p \in SetPorts, q \in SetQueues
  <2>1. said[p][q] \in ToldType
    BY DEF OInv
  <2>2. said[p][q].rx \in SUBSET RxBits /\ "jumbo" \in RxBits
    BY <2>1 DEF ToldType, RxBits
  <2>3. Switched(said[p][q].rx, "jumbo", "jumbo" \in set[p].port.rx) \in SUBSET RxBits
    BY <2>2, Given
  <2> QED
    BY <2>1, <2>3 DEF ToldType
<1> HIDE DEF told
<1>8. said' \in [SetPorts -> [SetQueues -> ToldType]]
  <2>1. said' = [p \in SetPorts |-> said'[p]]
    BY <1>3 DEF Frames
  <2>2. \A p \in SetPorts : said'[p] \in [SetQueues -> ToldType]
    BY <1>6, <1>7 DEF OInv
  <2> QED
    BY <2>1, <2>2
<1>9. ASSUME slips = {}, NEW p \in SetPorts
      PROVE  Heeded(set[p], said'[p])
  <2>1. Heeded(conf[p], said[p])
    BY <1>9 DEF OInv
  <2>2. CASE set[p].port.rx = conf[p].port.rx
    <3>1. said'[p] = said[p]
      BY <1>6, <2>2
    <3> QED
      BY <1>5, <2>1, <2>2, <3>1 DEF Heeded
  <2>3. CASE set[p].port.rx # conf[p].port.rx
    <3>1. set[p].port.rx = Switched(conf[p].port.rx, "jumbo", on)
      BY <1>5, <2>3
    <3>2. on = ("jumbo" \in set[p].port.rx)
      BY <3>1 DEF Switched
    <3>3. \A q \in SetQueues : /\ said'[p][q].tx = said[p][q].tx
                               /\ said'[p][q].rx = Switched(said[p][q].rx, "jumbo", on)
      <4>1. said'[p] = [q \in SetQueues |-> told(p, q)]
        BY <1>6, <2>3
      <4>2. \A q \in SetQueues : said'[p][q] = told(p, q)
        BY <4>1
      <4>3. \A q \in SetQueues : Switched(said[p][q].rx, "jumbo", "jumbo" \in set[p].port.rx) = Switched(said[p][q].rx, "jumbo", on)
        BY <3>2 DEF Switched
      <4> QED
        BY <1>7, <4>2, <4>3
    <3>4. \A q \in SetQueues : set[p].queue[q].rx = Switched(conf[p].queue[q].rx, "jumbo", on)
      BY <1>5, <2>3
    <3>5. ASSUME NEW q \in SetQueues
          PROVE  /\ Obeys(set[p].port.rx, set[p].queue[q].rx, said'[p][q].rx)
                 /\ Obeys(set[p].port.tx, set[p].queue[q].tx, said'[p][q].tx)
      <4>1. Obeys(conf[p].port.rx, conf[p].queue[q].rx, said[p][q].rx) /\ Obeys(conf[p].port.tx, conf[p].queue[q].tx, said[p][q].tx)
        BY <2>1 DEF Heeded
      <4>2. Obeys(set[p].port.rx, set[p].queue[q].rx, said'[p][q].rx)
        <5>1. Obeys(Switched(conf[p].port.rx, "jumbo", on), Switched(conf[p].queue[q].rx, "jumbo", on),
                    Switched(said[p][q].rx, "jumbo", on))
          BY <1>2, <4>1, SwitchedEverywhere
        <5> QED
          BY <3>1, <3>3, <3>4, <5>1
      <4> QED
        BY <1>5, <3>3, <4>1, <4>2
    <3> QED
      BY <3>5 DEF Heeded
  <2> QED
    BY <2>2, <2>3
<1> QED
  BY <1>1, <1>2, <1>3, <1>8, <1>9, SetAndDefaulted

\* Hash functions are no offloads.
LEMMA ORss ==
    ASSUME OInv, NEW v \in 0 .. 1, NEW taken, cmd_config_rss_parsed(v, taken)
    PROVE  OInv'
<1>1. said' = said /\ conf' = conf /\ slips \subseteq slips'
  BY DEF cmd_config_rss_parsed
<1> QED
  BY <1>1, OffloadsAlone DEF SameOffloads

\* An MTU that changes the offloads of a port does not reach its queues.
LEMMA OMtu ==
    ASSUME OInv, NEW p \in SetPorts, NEW frame \in 0 .. 1, NEW taken \in BOOLEAN, cmd_config_mtu_parsed(p, frame, taken)
    PROVE  OInv'
<1>1. said' = said /\ slips' = IF conf' = conf THEN slips ELSE slips \cup {"mtu"}
  BY DEF cmd_config_mtu_parsed, port_mtu_set
<1>2. CASE conf' = conf
  BY <1>1, <1>2, OffloadsAlone DEF SameOffloads
<1>3. CASE conf' # conf
  BY <1>1, <1>3 DEF OInv
<1> QED
  BY <1>2, <1>3

LEMMA OQueue ==
    ASSUME OInv, SType, NEW p \in SetPorts, NEW q \in SetQueues, NEW isrx \in BOOLEAN,
           \/ \E v \in 0 .. 1 : cmd_config_rxtx_ring_size_parsed(p, q, isrx, v)
           \/ \E on \in BOOLEAN : \/ cmd_config_deferred_start_rxtx_queue_parsed(p, q, isrx, on)
                                  \/ cmd_setup_rxtx_queue_parsed(p, q, isrx, on)
    PROVE  OInv'
<1>1. conf[p] \in Conf /\ conf[p].queue[q] \in QueueConf
  BY DEF SType, Conf
<1>2. ASSUME NEW k \in QueueConf, k.rx = conf[p].queue[q].rx, k.tx = conf[p].queue[q].tx,
             conf' = [conf EXCEPT ![p].queue[q] = k], said' = said, slips' = slips
      PROVE  OInv'
  <2>1. conf' = [conf EXCEPT ![p] = [conf[p] EXCEPT !.queue[q] = k]]
    BY <1>2
  <2>2. SameOffloads([conf[p] EXCEPT !.queue[q] = k], conf[p])
    BY <1>1, <1>2, QueueAlone
  <2> QED
    BY <1>2, <2>1, <2>2, OneAlone
<1>3. ASSUME NEW v \in 0 .. 1, cmd_config_rxtx_ring_size_parsed(p, q, isrx, v)
      PROVE  OInv'
  <2> DEFINE k == IF isrx THEN [conf[p].queue[q] EXCEPT !.rxd = v] ELSE [conf[p].queue[q] EXCEPT !.txd = v]
  <2>1. k \in QueueConf
    BY <1>1, RingWritten
  <2>2. k.rx = conf[p].queue[q].rx /\ k.tx = conf[p].queue[q].tx
    BY <1>1 DEF QueueConf
  <2>3. conf' = [conf EXCEPT ![p].queue[q] = k] /\ said' = said /\ slips' = slips
    BY <1>3 DEF cmd_config_rxtx_ring_size_parsed, Rest
  <2> HIDE DEF k
  <2> QED
    BY <1>2, <2>1, <2>2, <2>3
<1>4. ASSUME NEW on \in BOOLEAN, cmd_config_deferred_start_rxtx_queue_parsed(p, q, isrx, on)
      PROVE  OInv'
  <2> DEFINE k == IF isrx THEN [conf[p].queue[q] EXCEPT !.rx_late = on] ELSE [conf[p].queue[q] EXCEPT !.tx_late = on]
  <2>1. [conf[p].queue[q] EXCEPT !.rx_late = on] \in QueueConf /\ [conf[p].queue[q] EXCEPT !.tx_late = on] \in QueueConf
    BY <1>1, LateWritten
  <2>2. k \in QueueConf
    BY <2>1
  <2>3. k.rx = conf[p].queue[q].rx /\ k.tx = conf[p].queue[q].tx
    BY <1>1 DEF QueueConf
  <2>4. conf' = [conf EXCEPT ![p].queue[q] = k] /\ said' = said /\ slips' = slips
    BY <1>4 DEF cmd_config_deferred_start_rxtx_queue_parsed, Rest
  <2> HIDE DEF k
  <2> QED
    BY <1>2, <2>2, <2>3, <2>4
<1>5. ASSUME NEW on \in BOOLEAN, cmd_setup_rxtx_queue_parsed(p, q, isrx, on)
      PROVE  OInv'
  <2>1. conf' = conf /\ said' = said /\ slips' = slips
    BY <1>5 DEF cmd_setup_rxtx_queue_parsed
  <2> QED
    BY <2>1, OffloadsAlone DEF SameOffloads
<1> QED
  BY <1>3, <1>4, <1>5

\* Offloads by name, of a port with its queues and of one queue
LEMMA OPortRx ==
    ASSUME OInv, SType, NEW p \in SetPorts, NEW on \in BOOLEAN, NEW b \in RxBits, cmd_config_per_port_rx_offload_parsed(p, b, on)
    PROVE  OInv'
<1> DEFINE c == conf[p]
           qs == [q \in SetQueues |-> [c.queue[q] EXCEPT !.rx = Switched(@, b, on)]]
           new == [port |-> [c.port EXCEPT !.rx = Switched(@, b, on)], queue |-> qs]
<1>1. c \in Conf /\ c.port \in PortConf /\ \A q \in SetQueues : c.queue[q] \in QueueConf
  BY DEF SType, Conf
<1>2. conf' = [conf EXCEPT ![p] = new] /\ Told(p, SetQueues, "rx", b, on) /\ slips' = slips
  BY DEF cmd_config_per_port_rx_offload_parsed
<1>3. /\ said' \in [SetPorts -> [SetQueues -> ToldType]]
      /\ \A r \in SetPorts : r # p => said'[r] = said[r]
      /\ \A q \in SetQueues : /\ said'[p][q].tx = said[p][q].tx
                              /\ said'[p][q].rx = IF q \in SetQueues THEN Switched(said[p][q].rx, b, on) ELSE said[p][q].rx
  <2>1. Told(p, SetQueues, "rx", b, on)
    BY <1>2
  <2>2. SetQueues \in SUBSET SetQueues
    OBVIOUS
  <2> QED
    BY <2>1, <2>2, ToldRx
<1>4. \A q \in SetQueues : qs[q].tx = c.queue[q].tx /\ qs[q].rx = Switched(c.queue[q].rx, b, on)
  BY <1>1 DEF QueueConf
<1>5. new.port.rx = Switched(c.port.rx, b, on) /\ new.port.tx = c.port.tx /\ new.queue = qs
  BY <1>1 DEF PortConf
<1> HIDE DEF qs, new
<1>6. slips' = {} => Heeded(new, said'[p])
  <2> SUFFICES ASSUME slips' = {}, NEW q \in SetQueues
               PROVE  /\ Obeys(new.port.rx, new.queue[q].rx, said'[p][q].rx)
                      /\ Obeys(new.port.tx, new.queue[q].tx, said'[p][q].tx)
    BY DEF Heeded
  <2>1. Obeys(c.port.rx, c.queue[q].rx, said[p][q].rx) /\ Obeys(c.port.tx, c.queue[q].tx, said[p][q].tx)
    BY <1>2 DEF OInv, Heeded
  <2>2. Obeys(Switched(c.port.rx, b, on), Switched(c.queue[q].rx, b, on), Switched(said[p][q].rx, b, on))
    BY <2>1, SwitchedEverywhere
  <2> QED
    BY <1>3, <1>4, <1>5, <2>1, <2>2
<1> QED
  BY <1>2, <1>3, <1>6, OneTold

LEMMA OPortTx ==
    ASSUME OInv, SType, NEW p \in SetPorts, NEW on \in BOOLEAN, NEW b \in TxBits, cmd_config_per_port_tx_offload_parsed(p, b, on)
    PROVE  OInv'
<1> DEFINE c == conf[p]
           qs == [q \in SetQueues |-> [c.queue[q] EXCEPT !.tx = Switched(@, b, on)]]
           new == [port |-> [c.port EXCEPT !.tx = Switched(@, b, on)], queue |-> qs]
<1>1. c \in Conf /\ c.port \in PortConf /\ \A q \in SetQueues : c.queue[q] \in QueueConf
  BY DEF SType, Conf
<1>2. conf' = [conf EXCEPT ![p] = new] /\ Told(p, SetQueues, "tx", b, on) /\ slips' = slips
  BY DEF cmd_config_per_port_tx_offload_parsed
<1>3. /\ said' \in [SetPorts -> [SetQueues -> ToldType]]
      /\ \A r \in SetPorts : r # p => said'[r] = said[r]
      /\ \A q \in SetQueues : /\ said'[p][q].rx = said[p][q].rx
                              /\ said'[p][q].tx = IF q \in SetQueues THEN Switched(said[p][q].tx, b, on) ELSE said[p][q].tx
  <2>1. Told(p, SetQueues, "tx", b, on)
    BY <1>2
  <2>2. SetQueues \in SUBSET SetQueues
    OBVIOUS
  <2> QED
    BY <2>1, <2>2, ToldTx
<1>4. \A q \in SetQueues : qs[q].rx = c.queue[q].rx /\ qs[q].tx = Switched(c.queue[q].tx, b, on)
  BY <1>1 DEF QueueConf
<1>5. new.port.tx = Switched(c.port.tx, b, on) /\ new.port.rx = c.port.rx /\ new.queue = qs
  BY <1>1 DEF PortConf
<1> HIDE DEF qs, new
<1>6. slips' = {} => Heeded(new, said'[p])
  <2> SUFFICES ASSUME slips' = {}, NEW q \in SetQueues
               PROVE  /\ Obeys(new.port.rx, new.queue[q].rx, said'[p][q].rx)
                      /\ Obeys(new.port.tx, new.queue[q].tx, said'[p][q].tx)
    BY DEF Heeded
  <2>1. Obeys(c.port.rx, c.queue[q].rx, said[p][q].rx) /\ Obeys(c.port.tx, c.queue[q].tx, said[p][q].tx)
    BY <1>2 DEF OInv, Heeded
  <2>2. Obeys(Switched(c.port.tx, b, on), Switched(c.queue[q].tx, b, on), Switched(said[p][q].tx, b, on))
    BY <2>1, SwitchedEverywhere
  <2> QED
    BY <1>3, <1>4, <1>5, <2>1, <2>2
<1> QED
  BY <1>2, <1>3, <1>6, OneTold

LEMMA OQueueRx ==
    ASSUME OInv, SType, NEW p \in SetPorts, NEW r \in SetQueues, NEW on \in BOOLEAN, NEW b \in RxBits,
           cmd_config_per_queue_rx_offload_parsed(p, r, b, on)
    PROVE  OInv'
<1> DEFINE c == conf[p]
           k == [c.queue[r] EXCEPT !.rx = Switched(@, b, on)]
           qs == [c.queue EXCEPT ![r] = k]
           new == [c EXCEPT !.queue = qs]
<1>1. c \in Conf /\ c.queue \in [SetQueues -> QueueConf] /\ c.queue[r] \in QueueConf
  BY DEF SType, Conf
<1>2. conf' = [conf EXCEPT ![p] = new] /\ Told(p, {r}, "rx", b, on) /\ slips' = slips
  BY DEF cmd_config_per_queue_rx_offload_parsed
<1>3. /\ said' \in [SetPorts -> [SetQueues -> ToldType]]
      /\ \A s \in SetPorts : s # p => said'[s] = said[s]
      /\ \A q \in SetQueues : /\ said'[p][q].tx = said[p][q].tx
                              /\ said'[p][q].rx = IF q \in {r} THEN Switched(said[p][q].rx, b, on) ELSE said[p][q].rx
  <2> DEFINE only == {r}
  <2>1. Told(p, only, "rx", b, on) /\ only \in SUBSET SetQueues
    BY <1>2
  <2> HIDE DEF only
  <2>2. /\ said' \in [SetPorts -> [SetQueues -> ToldType]]
        /\ \A s \in SetPorts : s # p => said'[s] = said[s]
        /\ \A q \in SetQueues : /\ said'[p][q].tx = said[p][q].tx
                                /\ said'[p][q].rx = IF q \in only THEN Switched(said[p][q].rx, b, on) ELSE said[p][q].rx
    BY <2>1, ToldRx
  <2> QED
    BY <2>2 DEF only
<1>4. k.tx = c.queue[r].tx /\ k.rx = Switched(c.queue[r].rx, b, on)
  BY <1>1 DEF QueueConf
<1> HIDE DEF k
<1>5. \A q \in SetQueues : qs[q] = IF q = r THEN k ELSE c.queue[q]
  BY <1>1
<1>6. new.port = c.port /\ new.queue = qs
  BY <1>1 DEF Conf
<1> HIDE DEF qs, new
<1>7. slips' = {} => Heeded(new, said'[p])
  <2> SUFFICES ASSUME slips' = {}, NEW q \in SetQueues
               PROVE  /\ Obeys(new.port.rx, new.queue[q].rx, said'[p][q].rx)
                      /\ Obeys(new.port.tx, new.queue[q].tx, said'[p][q].tx)
    BY DEF Heeded
  <2>1. Obeys(c.port.rx, c.queue[q].rx, said[p][q].rx) /\ Obeys(c.port.tx, c.queue[q].tx, said[p][q].tx)
    BY <1>2 DEF OInv, Heeded
  <2>2. Obeys(c.port.rx, Switched(c.queue[q].rx, b, on), Switched(said[p][q].rx, b, on))
    BY <2>1, SwitchedEverywhere
  <2>3. CASE q = r
    BY <1>3, <1>4, <1>5, <1>6, <2>1, <2>2, <2>3
  <2>4. CASE q # r
    BY <1>3, <1>5, <1>6, <2>1, <2>4
  <2> QED
    BY <2>3, <2>4
<1> QED
  BY <1>2, <1>3, <1>7, OneTold

LEMMA OQueueTx ==
    ASSUME OInv, SType, NEW p \in SetPorts, NEW r \in SetQueues, NEW on \in BOOLEAN, NEW b \in TxBits,
           cmd_config_per_queue_tx_offload_parsed(p, r, b, on)
    PROVE  OInv'
<1> DEFINE c == conf[p]
           k == [c.queue[r] EXCEPT !.tx = Switched(@, b, on)]
           qs == [c.queue EXCEPT ![r] = k]
           new == [c EXCEPT !.queue = qs]
<1>1. c \in Conf /\ c.queue \in [SetQueues -> QueueConf] /\ c.queue[r] \in QueueConf
  BY DEF SType, Conf
<1>2. conf' = [conf EXCEPT ![p] = new] /\ Told(p, {r}, "tx", b, on) /\ slips' = slips
  BY DEF cmd_config_per_queue_tx_offload_parsed
<1>3. /\ said' \in [SetPorts -> [SetQueues -> ToldType]]
      /\ \A s \in SetPorts : s # p => said'[s] = said[s]
      /\ \A q \in SetQueues : /\ said'[p][q].rx = said[p][q].rx
                              /\ said'[p][q].tx = IF q \in {r} THEN Switched(said[p][q].tx, b, on) ELSE said[p][q].tx
  <2> DEFINE only == {r}
  <2>1. Told(p, only, "tx", b, on) /\ only \in SUBSET SetQueues
    BY <1>2
  <2> HIDE DEF only
  <2>2. /\ said' \in [SetPorts -> [SetQueues -> ToldType]]
        /\ \A s \in SetPorts : s # p => said'[s] = said[s]
        /\ \A q \in SetQueues : /\ said'[p][q].rx = said[p][q].rx
                                /\ said'[p][q].tx = IF q \in only THEN Switched(said[p][q].tx, b, on) ELSE said[p][q].tx
    BY <2>1, ToldTx
  <2> QED
    BY <2>2 DEF only
<1>4. k.rx = c.queue[r].rx /\ k.tx = Switched(c.queue[r].tx, b, on)
  BY <1>1 DEF QueueConf
<1> HIDE DEF k
<1>5. \A q \in SetQueues : qs[q] = IF q = r THEN k ELSE c.queue[q]
  BY <1>1
<1>6. new.port = c.port /\ new.queue = qs
  BY <1>1 DEF Conf
<1> HIDE DEF qs, new
<1>7. slips' = {} => Heeded(new, said'[p])
  <2> SUFFICES ASSUME slips' = {}, NEW q \in SetQueues
               PROVE  /\ Obeys(new.port.rx, new.queue[q].rx, said'[p][q].rx)
                      /\ Obeys(new.port.tx, new.queue[q].tx, said'[p][q].tx)
    BY DEF Heeded
  <2>1. Obeys(c.port.rx, c.queue[q].rx, said[p][q].rx) /\ Obeys(c.port.tx, c.queue[q].tx, said[p][q].tx)
    BY <1>2 DEF OInv, Heeded
  <2>2. Obeys(c.port.tx, Switched(c.queue[q].tx, b, on), Switched(said[p][q].tx, b, on))
    BY <2>1, SwitchedEverywhere
  <2>3. CASE q = r
    BY <1>3, <1>4, <1>5, <1>6, <2>1, <2>2, <2>3
  <2>4. CASE q # r
    BY <1>3, <1>5, <1>6, <2>1, <2>4
  <2> QED
    BY <2>3, <2>4
<1> QED
  BY <1>2, <1>3, <1>7, OneTold

\* VLAN offloads of the port alone: a queue that keeps one that is switched off is excused.
LEMMA OVlan ==
    ASSUME OInv, SType, NEW p \in SetPorts, NEW on \in BOOLEAN, NEW taken \in BOOLEAN, cmd_vlan_offload_parsed(p, on, taken)
    PROVE  OInv'
<1>1. PICK b \in RxBits : VlanOffload(p, b, on, taken)
  <2>1. "extend" \in RxBits /\ "strip" \in RxBits /\ "filter" \in RxBits /\ "qinq_strip" \in RxBits
    BY DEF RxBits
  <2> QED
    BY <2>1 DEF cmd_vlan_offload_parsed, vlan_extend_set, rx_vlan_strip_set, rx_vlan_filter_set, rx_vlan_qinq_strip_set
<1>2. CASE ~taken
  <2>1. conf' = conf /\ said' = said /\ slips \subseteq slips'
    BY <1>1, <1>2 DEF VlanOffload
  <2> QED
    BY <2>1, OffloadsAlone DEF SameOffloads
<1>3. CASE taken
  <2> DEFINE c == conf[p]
             new == [c EXCEPT !.port.rx = Switched(c.port.rx, b, on)]
  <2>1. c \in Conf
    BY DEF SType
  <2>2. /\ conf' = [conf EXCEPT ![p] = new] /\ Told(p, SetQueues, "rx", b, on)
        /\ slips \subseteq slips' /\ (slips' = {} => on \/ \A q \in SetQueues : b \notin c.queue[q].rx)
    BY <1>1, <1>3 DEF VlanOffload
  <2>3. /\ said' \in [SetPorts -> [SetQueues -> ToldType]]
        /\ \A r \in SetPorts : r # p => said'[r] = said[r]
        /\ \A q \in SetQueues : /\ said'[p][q].tx = said[p][q].tx
                                /\ said'[p][q].rx = IF q \in SetQueues THEN Switched(said[p][q].rx, b, on) ELSE said[p][q].rx
    <3>1. Told(p, SetQueues, "rx", b, on)
      BY <2>2
    <3>2. SetQueues \in SUBSET SetQueues
      OBVIOUS
    <3> QED
      BY <3>1, <3>2, ToldRx
  <2>4. new.port.rx = Switched(c.port.rx, b, on) /\ new.port.tx = c.port.tx /\ new.queue = c.queue
    BY <2>1 DEF Conf, PortConf
  <2> HIDE DEF new
  <2>5. slips' = {} => Heeded(new, said'[p])
    <3> SUFFICES ASSUME slips' = {}, NEW q \in SetQueues
                 PROVE  /\ Obeys(new.port.rx, new.queue[q].rx, said'[p][q].rx)
                        /\ Obeys(new.port.tx, new.queue[q].tx, said'[p][q].tx)
      BY DEF Heeded
    <3>1. Obeys(c.port.rx, c.queue[q].rx, said[p][q].rx) /\ Obeys(c.port.tx, c.queue[q].tx, said[p][q].tx)
      BY <2>2 DEF OInv, Heeded
    <3>2. Obeys(Switched(c.port.rx, b, on), c.queue[q].rx, Switched(said[p][q].rx, b, on))
      BY <2>2, <3>1, SwitchedEverywhere
    <3> QED
      BY <2>3, <2>4, <3>1, <3>2
  <2> QED
    BY <2>2, <2>3, <2>5, OneTold
<1> QED
  BY <1>2, <1>3

\* The tag that a port inserts, of the port alone: a queue that keeps one given up is excused.
LEMMA OTags ==
    ASSUME OInv, SType, NEW p \in SetPorts, NEW able \in BOOLEAN, NEW tag, NEW tx,
           tx \ {"vlan", "qinq"} = conf[p].port.tx \ {"vlan", "qinq"},
           TagCommand(p, able, tx, tag)
    PROVE  OInv'
<1>1. CASE ~able
  <2>1. conf' = conf /\ said' = said /\ slips' = slips
    BY <1>1 DEF TagCommand
  <2> QED
    BY <2>1, OffloadsAlone DEF SameOffloads
<1>2. CASE able
  <2> DEFINE c == conf[p]
             new == [c EXCEPT !.port.tx = tx]
             tags == {"vlan", "qinq"}
             bits(q) == (said[p][q].tx \ tags) \cup (tx \cap tags)
             told(q) == [said[p][q] EXCEPT !.tx = bits(q)]
             all == [q \in SetQueues |-> told(q)]
  <2>1. Tagged(p, tx, tag)
    BY <1>2 DEF TagCommand
  <2>2. /\ conf' = [conf EXCEPT ![p] = new] /\ said' = [said EXCEPT ![p] = all] /\ slips \subseteq slips'
        /\ slips' = {} => \A q \in SetQueues : (c.queue[q].tx \cap tags) \ tx = {}
    BY <2>1 DEF Tagged, tx_vlan_reset
  <2>3. ASSUME NEW q \in SetQueues
        PROVE  told(q) \in ToldType /\ told(q).rx = said[p][q].rx /\ told(q).tx = bits(q)
    <3>1. said[p][q] \in ToldType
      BY DEF OInv
    <3>2. bits(q) \in SUBSET TxBits
      BY <3>1 DEF ToldType, TxBits
    <3> QED
      BY <3>1, <3>2 DEF ToldType
  <2> HIDE DEF told
  <2>4. /\ said' \in [SetPorts -> [SetQueues -> ToldType]]
        /\ \A r \in SetPorts : r # p => said'[r] = said[r]
        /\ \A q \in SetQueues : said'[p][q] = told(q)
    <3>1. all \in [SetQueues -> ToldType] /\ \A q \in SetQueues : all[q] = told(q)
      BY <2>3
    <3> HIDE DEF all
    <3> QED
      BY <2>2, <3>1 DEF OInv
  <2>5. c \in Conf
    BY DEF SType
  <2>6. new.port.tx = tx /\ new.port.rx = c.port.rx /\ new.queue = c.queue
    BY <2>5 DEF Conf, PortConf
  <2> HIDE DEF new, all
  <2>7. slips' = {} => Heeded(new, said'[p])
    <3> SUFFICES ASSUME slips' = {}, NEW q \in SetQueues
                 PROVE  /\ Obeys(new.port.rx, new.queue[q].rx, said'[p][q].rx)
                        /\ Obeys(new.port.tx, new.queue[q].tx, said'[p][q].tx)
      BY DEF Heeded
    <3>1. Obeys(c.port.rx, c.queue[q].rx, said[p][q].rx) /\ Obeys(c.port.tx, c.queue[q].tx, said[p][q].tx)
      BY <2>2 DEF OInv, Heeded
    <3>2. Obeys(tx, c.queue[q].tx, bits(q))
      BY <2>2, <3>1 DEF Obeys
    <3> QED
      BY <2>3, <2>4, <2>6, <3>1, <3>2
  <2> QED
    BY <2>2, <2>4, <2>7, OneTold
<1> QED
  BY <1>1, <1>2

LEMMA OTxVlan ==
    ASSUME OInv, SType, NEW p \in SetPorts,
           cmd_tx_vlan_set_parsed(p) \/ cmd_tx_vlan_set_qinq_parsed(p) \/ cmd_tx_vlan_reset_parsed(p)
    PROVE  OInv'
<1> DEFINE tx == conf[p].port.tx
           tags == {"vlan", "qinq"}
<1>1. /\ (tx_vlan_reset(tx) \cup {"vlan"}) \ tags = tx \ tags
      /\ (tx_vlan_reset(tx) \cup {"vlan", "qinq"}) \ tags = tx \ tags
      /\ tx_vlan_reset(tx) \ tags = tx \ tags
  BY DEF tx_vlan_reset
<1>2. CASE cmd_tx_vlan_set_parsed(p)
  <2>1. PICK able \in BOOLEAN : TagCommand(p, able, tx_vlan_reset(tx) \cup {"vlan"}, 1)
    <3>1. ("qinq" \notin tx /\ "vlan" \in Capa[p]) \in BOOLEAN
      OBVIOUS
    <3> QED
      BY <1>2, <3>1 DEF cmd_tx_vlan_set_parsed, tx_vlan_set
  <2> QED
    BY <1>1, <2>1, OTags
<1>3. CASE cmd_tx_vlan_set_qinq_parsed(p)
  <2>1. PICK able \in BOOLEAN : TagCommand(p, able, tx_vlan_reset(tx) \cup {"vlan", "qinq"}, 2)
    <3>1. ("qinq" \in Capa[p]) \in BOOLEAN
      OBVIOUS
    <3> QED
      BY <1>3, <3>1 DEF cmd_tx_vlan_set_qinq_parsed, tx_qinq_set
  <2> QED
    BY <1>1, <2>1, OTags
<1>4. CASE cmd_tx_vlan_reset_parsed(p)
  <2>1. TagCommand(p, TRUE, tx_vlan_reset(tx), 0) /\ TRUE \in BOOLEAN
    BY <1>4 DEF cmd_tx_vlan_reset_parsed
  <2> QED
    BY <1>1, <2>1, OTags
<1> QED
  BY <1>2, <1>3, <1>4

\* The offloads of the port are copied over those of its queues, which lose none of their own
\* unless that is excused.
LEMMA OCopied ==
    ASSUME OInv, SType, NEW p \in SetPorts, NEW b \in TxBits, NEW tx, tx \ {b} = conf[p].port.tx \ {b}, Copied(p, tx, b)
    PROVE  OInv'
<1> DEFINE c == conf[p]
           first == [c EXCEPT !.port.tx = tx]
           qs == [q \in SetQueues |-> [first.queue[q] EXCEPT !.tx = first.port.tx]]
           new == [first EXCEPT !.queue = qs]
           on == (b \in tx)
<1>1. c \in Conf
  BY DEF SType
<1>2. /\ conf' = [conf EXCEPT ![p] = new] /\ Told(p, SetQueues, "tx", b, on) /\ slips \subseteq slips'
      /\ slips' = {} => \A q \in SetQueues : c.queue[q].tx \ (tx \cup {b}) = {}
  BY DEF Copied, cmd_config_queue_tx_offloads
<1>3. first.port.tx = tx /\ first.port.rx = c.port.rx /\ first.queue = c.queue /\ DOMAIN first = {"port", "queue"}
  BY <1>1 DEF Conf, PortConf
<1>4. \A q \in SetQueues : qs[q].tx = tx /\ qs[q].rx = c.queue[q].rx
  <2>1. \A q \in SetQueues : c.queue[q] \in QueueConf
    BY <1>1 DEF Conf
  <2> HIDE DEF first
  <2> QED
    BY <1>3, <2>1 DEF QueueConf
<1> HIDE DEF qs
<1>5. new.port.tx = tx /\ new.port.rx = c.port.rx /\ new.queue = qs
  <2> HIDE DEF first
  <2> QED
    BY <1>3
<1> HIDE DEF new
<1>6. /\ said' \in [SetPorts -> [SetQueues -> ToldType]]
      /\ \A r \in SetPorts : r # p => said'[r] = said[r]
      /\ \A q \in SetQueues : /\ said'[p][q].rx = said[p][q].rx
                              /\ said'[p][q].tx = IF q \in SetQueues THEN Switched(said[p][q].tx, b, on) ELSE said[p][q].tx
  <2>1. Told(p, SetQueues, "tx", b, on)
    BY <1>2
  <2>2. SetQueues \in SUBSET SetQueues /\ on \in BOOLEAN
    OBVIOUS
  <2> HIDE DEF on
  <2> QED
    BY <2>1, <2>2, ToldTx
<1>7. slips' = {} => Heeded(new, said'[p])
  <2> SUFFICES ASSUME slips' = {}, NEW q \in SetQueues
               PROVE  /\ Obeys(new.port.rx, new.queue[q].rx, said'[p][q].rx)
                      /\ Obeys(new.port.tx, new.queue[q].tx, said'[p][q].tx)
    BY DEF Heeded
  <2>1. Obeys(c.port.rx, c.queue[q].rx, said[p][q].rx) /\ Obeys(c.port.tx, c.queue[q].tx, said[p][q].tx)
    BY <1>2 DEF OInv, Heeded
  <2>2. c.queue[q].tx \ (tx \cup {b}) = {}
    BY <1>2
  <2>3. Obeys(tx, tx, Switched(said[p][q].tx, b, on))
    <3>1. CASE b \in tx
      BY <2>1, <2>2, <3>1 DEF Obeys, Switched
    <3>2. CASE b \notin tx
      BY <2>1, <2>2, <3>2 DEF Obeys, Switched
    <3> QED
      BY <3>1, <3>2
  <2> QED
    BY <1>4, <1>5, <1>6, <2>1, <2>3
<1> QED
  BY <1>2, <1>6, <1>7, OneTold

LEMMA OCsumAndTso ==
    ASSUME OInv, SType, NEW p \in SetPorts, NEW on \in BOOLEAN, NEW v \in 0 .. 1,
           \/ cmd_csum_parsed(p, on) \/ cmd_csum_tunnel_parsed(p, on)
           \/ cmd_tso_set_parsed(p, v) \/ cmd_tunnel_tso_set_parsed(p, v)
    PROVE  OInv'
<1> DEFINE tx == conf[p].port.tx
<1>1. "csum" \in TxBits /\ "tso" \in TxBits /\ "tunnel_tso" \in TxBits
  BY DEF TxBits
<1>2. ASSUME NEW b, NEW o \in BOOLEAN
      PROVE  Switched(tx, b, o) \ {b} = tx \ {b}
  BY DEF Switched
<1>3. CASE cmd_csum_parsed(p, on)
  <2> DEFINE t == IF on /\ "csum" \notin Capa[p] THEN tx ELSE Switched(tx, "csum", on)
  <2>1. t \ {"csum"} = tx \ {"csum"}
    BY <1>2
  <2>2. Copied(p, t, "csum")
    BY <1>3 DEF cmd_csum_parsed
  <2> HIDE DEF t
  <2> QED
    BY <1>1, <2>1, <2>2, OCopied
<1>4. CASE cmd_csum_tunnel_parsed(p, on)
  <2>1. conf' = conf /\ said' = said /\ slips' = slips
    BY <1>4 DEF cmd_csum_tunnel_parsed
  <2> QED
    BY <2>1, OffloadsAlone DEF SameOffloads
<1>5. CASE cmd_tso_set_parsed(p, v)
  <2>1. CASE v # 0 /\ "tso" \notin Capa[p]
    <3>1. conf' = conf /\ said' = said /\ slips' = slips
      BY <1>5, <2>1 DEF cmd_tso_set_parsed
    <3> QED
      BY <3>1, OffloadsAlone DEF SameOffloads
  <2>2. CASE ~(v # 0 /\ "tso" \notin Capa[p])
    <3> DEFINE t == Switched(tx, "tso", v # 0)
    <3>1. t \ {"tso"} = tx \ {"tso"}
      BY DEF Switched
    <3>2. Copied(p, t, "tso")
      BY <1>5, <2>2 DEF cmd_tso_set_parsed
    <3> HIDE DEF t
    <3> QED
      BY <1>1, <3>1, <3>2, OCopied
  <2> QED
    BY <2>1, <2>2
<1>6. CASE cmd_tunnel_tso_set_parsed(p, v)
  <2> DEFINE t == IF v = 0 THEN tx \ {"tunnel_tso"} ELSE tx \cup ({"tunnel_tso"} \cap Capa[p])
  <2>1. t \ {"tunnel_tso"} = tx \ {"tunnel_tso"}
    OBVIOUS
  <2>2. Copied(p, t, "tunnel_tso")
    BY <1>6 DEF cmd_tunnel_tso_set_parsed
  <2> HIDE DEF t
  <2> QED
    BY <1>1, <2>1, <2>2, OCopied
<1> QED
  BY <1>3, <1>4, <1>5, <1>6

\* DCB puts the VLAN filter into the offloads of the port, and the queues keep theirs.
LEMMA ODcb ==
    ASSUME OInv, SType, NEW p \in SetPorts, NEW fails \in {"none", "configure", "info", "macaddr"}, cmd_config_dcb_parsed(p, fails)
    PROVE  OInv'
<1>1. init_port_dcb_config(p, fails) /\ slips \subseteq slips'
  BY DEF cmd_config_dcb_parsed
<1>2. CASE fails \in {"configure", "info"}
  <2>1. conf' = conf /\ said' = said
    BY <1>1, <1>2 DEF init_port_dcb_config
  <2> QED
    BY <1>1, <2>1, OffloadsAlone DEF SameOffloads
<1>3. CASE fails \notin {"configure", "info"}
  <2> DEFINE c == conf[p]
             port == get_eth_dcb_conf(c.port)
             g == [globals EXCEPT !.thresh = 1]
             first == [c EXCEPT !.port = port]
             new == rxtx_port_config(first, g)
  <2>1. conf' = [conf EXCEPT ![p] = new] /\ Told(p, SetQueues, "rx", "filter", TRUE)
    BY <1>1, <1>3 DEF init_port_dcb_config
  <2>2. /\ said' \in [SetPorts -> [SetQueues -> ToldType]]
        /\ \A r \in SetPorts : r # p => said'[r] = said[r]
        /\ \A q \in SetQueues : /\ said'[p][q].tx = said[p][q].tx
                                /\ said'[p][q].rx = IF q \in SetQueues THEN Switched(said[p][q].rx, "filter", TRUE)
                                                    ELSE said[p][q].rx
    <3>1. "filter" \in RxBits /\ TRUE \in BOOLEAN /\ SetQueues \in SUBSET SetQueues
      BY DEF RxBits
    <3> QED
      BY <2>1, <3>1, ToldRx
  <2>3. c \in Conf
    BY DEF SType
  <2>4. port.rx = Switched(c.port.rx, "filter", TRUE) /\ port.tx = c.port.tx
    <3>1. \A k \in PortConf, rx \in SUBSET RxBits, tx \in SUBSET TxBits : \A frame, lro :
             /\ [k EXCEPT !.frame = frame, !.lro = lro, !.rx = rx, !.tx = tx, !.mq = "dcb"].rx = rx
             /\ [k EXCEPT !.frame = frame, !.lro = lro, !.rx = rx, !.tx = tx, !.mq = "dcb"].tx = tx
      BY DEF PortConf
    <3>2. NewPort \in PortConf
      BY DEF NewPort, PortConf
    <3>3. c.port.rx \cup {"filter"} \in SUBSET RxBits /\ c.port.tx \in SUBSET TxBits
      BY <2>3 DEF Conf, PortConf, RxBits
    <3>4. port.rx = c.port.rx \cup {"filter"} /\ port.tx = c.port.tx
      BY <3>1, <3>2, <3>3 DEF get_eth_dcb_conf
    <3> QED
      BY <3>4 DEF Switched
  <2> HIDE DEF port
  <2>5. first.port = port /\ first.queue = c.queue /\ DOMAIN first = {"port", "queue"}
    BY <2>3 DEF Conf
  <2> HIDE DEF first
  <2>6. new.port = port /\ \A q \in SetQueues : new.queue[q].rx = c.queue[q].rx /\ new.queue[q].tx = c.queue[q].tx
    <3> DEFINE k(q) == [NewQueue EXCEPT !.rx = first.queue[q].rx, !.tx = first.queue[q].tx, !.thresh = g.thresh]
               qs == [q \in SetQueues |-> k(q)]
    <3>1. new = [first EXCEPT !.queue = qs]
      BY DEF rxtx_port_config
    <3>2. \A q \in SetQueues : k(q).rx = first.queue[q].rx /\ k(q).tx = first.queue[q].tx
      BY DEF NewQueue
    <3> HIDE DEF k
    <3>3. \A q \in SetQueues : qs[q].rx = first.queue[q].rx /\ qs[q].tx = first.queue[q].tx
      BY <3>2
    <3> HIDE DEF qs, new
    <3> QED
      BY <2>5, <3>1, <3>3
  <2> HIDE DEF new
  <2>7. slips' = {} => Heeded(new, said'[p])
    <3> SUFFICES ASSUME slips' = {}, NEW q \in SetQueues
                 PROVE  /\ Obeys(new.port.rx, new.queue[q].rx, said'[p][q].rx)
                        /\ Obeys(new.port.tx, new.queue[q].tx, said'[p][q].tx)
      BY DEF Heeded
    <3>1. Obeys(c.port.rx, c.queue[q].rx, said[p][q].rx) /\ Obeys(c.port.tx, c.queue[q].tx, said[p][q].tx)
      BY <1>1 DEF OInv, Heeded
    <3>2. TRUE \in BOOLEAN
      OBVIOUS
    <3>3. Obeys(Switched(c.port.rx, "filter", TRUE), c.queue[q].rx, Switched(said[p][q].rx, "filter", TRUE))
      BY <3>1, <3>2, SwitchedEverywhere
    <3> QED
      BY <2>2, <2>4, <2>6, <3>1, <3>3
  <2> QED
    BY <1>1, <2>1, <2>2, <2>7, OneTold
<1> QED
  BY <1>2, <1>3

LEMMA OStays ==
    ASSUME OInv, SType, SNext \/ UNCHANGED svars
    PROVE  OInv'
<1>1. ASSUME NEW v \in 0 .. 1, cmd_config_max_lro_pkt_size_parsed(v) PROVE OInv'
  BY <1>1, OMaxLro
<1>2. ASSUME NEW v \in 0 .. 1, NEW n, cmd_config_max_pkt_len_parsed(v, n) PROVE OInv'
  BY <1>2, OMaxPktLen
<1>3. ASSUME NEW v \in 0 .. 1, NEW n,
             \/ cmd_config_rx_mode_flag_parsed(v, n) \/ cmd_config_thresh_parsed(v, n)
             \/ cmd_config_threshold_parsed(v, n) \/ cmd_config_burst_parsed(n)
      PROVE  OInv'
  BY <1>3, OSpread
<1>4. ASSUME NEW v \in 0 .. 1, NEW taken, cmd_config_rss_parsed(v, taken) PROVE OInv'
  BY <1>4, ORss
<1>5. ASSUME NEW v \in 0 .. 1, cmd_config_speed_all_parsed(v) \/ cmd_config_loopback_all_parsed(v) PROVE OInv'
  <2>1. said' = said /\ slips \subseteq slips'
    BY <1>5 DEF cmd_config_speed_all_parsed, cmd_config_loopback_all_parsed, Rest
  <2>2. \A r \in SetPorts : \/ conf'[r] = [conf[r] EXCEPT !.port.speed = v]
                            \/ conf'[r] = [conf[r] EXCEPT !.port.lpbk = v]
    BY <1>5 DEF cmd_config_speed_all_parsed, cmd_config_loopback_all_parsed
  <2>3. \A r \in SetPorts : SameOffloads(conf'[r], conf[r])
    <3>1. \A r \in SetPorts : conf[r] \in Conf
      BY DEF SType
    <3> QED
      BY <2>2, <3>1, PortAlone
  <2> QED
    BY <2>1, <2>3, OffloadsAlone
<1>6. ASSUME NEW v \in 0 .. 1, NEW p \in SetPorts,
             cmd_config_speed_specific_parsed(p, v) \/ cmd_config_loopback_specific_parsed(p, v)
      PROVE  OInv'
  BY <1>6, OSpeedAndLoopback
<1>7. ASSUME NEW v \in 0 .. 1, NEW p \in SetPorts, NEW taken \in BOOLEAN, cmd_config_mtu_parsed(p, v, taken) PROVE OInv'
  BY <1>7, OMtu
<1>8. ASSUME NEW v \in 0 .. 1, NEW p \in SetPorts, cmd_tso_set_parsed(p, v) \/ cmd_tunnel_tso_set_parsed(p, v) PROVE OInv'
  <2>1. TRUE \in BOOLEAN
    OBVIOUS
  <2> QED
    BY <1>8, <2>1, OCsumAndTso
<1>9. ASSUME NEW v \in 0 .. 1, NEW p \in SetPorts, NEW q \in SetQueues, NEW isrx \in BOOLEAN,
             cmd_config_rxtx_ring_size_parsed(p, q, isrx, v)
      PROVE  OInv'
  BY <1>9, OQueue
<1>10. ASSUME NEW p \in SetPorts, NEW on \in BOOLEAN, cmd_csum_parsed(p, on) \/ cmd_csum_tunnel_parsed(p, on) PROVE OInv'
  <2>1. 0 \in 0 .. 1
    OBVIOUS
  <2> QED
    BY <1>10, <2>1, OCsumAndTso
<1>11. ASSUME NEW p \in SetPorts, NEW on \in BOOLEAN, NEW taken \in BOOLEAN, cmd_vlan_offload_parsed(p, on, taken) PROVE OInv'
  BY <1>11, OVlan
<1>12. ASSUME NEW p \in SetPorts, NEW on \in BOOLEAN, NEW q \in SetQueues, NEW isrx \in BOOLEAN,
              \/ cmd_config_deferred_start_rxtx_queue_parsed(p, q, isrx, on)
              \/ cmd_setup_rxtx_queue_parsed(p, q, isrx, on)
       PROVE  OInv'
  BY <1>12, OQueue
<1>13. ASSUME NEW p \in SetPorts, NEW on \in BOOLEAN, NEW b \in RxBits, cmd_config_per_port_rx_offload_parsed(p, b, on)
       PROVE  OInv'
  BY <1>13, OPortRx
<1>14. ASSUME NEW p \in SetPorts, NEW on \in BOOLEAN, NEW b \in TxBits, cmd_config_per_port_tx_offload_parsed(p, b, on)
       PROVE  OInv'
  BY <1>14, OPortTx
<1>15. ASSUME NEW p \in SetPorts, NEW q \in SetQueues, NEW on \in BOOLEAN, NEW b \in RxBits,
              cmd_config_per_queue_rx_offload_parsed(p, q, b, on)
       PROVE  OInv'
  BY <1>15, OQueueRx
<1>16. ASSUME NEW p \in SetPorts, NEW q \in SetQueues, NEW on \in BOOLEAN, NEW b \in TxBits,
              cmd_config_per_queue_tx_offload_parsed(p, q, b, on)
       PROVE  OInv'
  BY <1>16, OQueueTx
<1>17. ASSUME NEW p \in SetPorts,
              cmd_tx_vlan_set_parsed(p) \/ cmd_tx_vlan_set_qinq_parsed(p) \/ cmd_tx_vlan_reset_parsed(p)
       PROVE  OInv'
  BY <1>17, OTxVlan
<1>18. ASSUME NEW p \in SetPorts, NEW fails \in {"none", "configure", "info", "macaddr"}, cmd_config_dcb_parsed(p, fails)
       PROVE  OInv'
  BY <1>18, ODcb
<1>19. ASSUME NEW p \in SetPorts, NEW fails, start_port_configured(p, fails) \/ stop_port_configured(p) PROVE OInv'
  BY <1>19 DEF start_port_configured, stop_port_configured, OInv
<1>20. CASE UNCHANGED svars
  BY <1>20 DEF svars, OInv
<1> QED
  BY <1>1, <1>2, <1>3, <1>4, <1>5, <1>6, <1>7, <1>8, <1>9, <1>10, <1>11, <1>12, <1>13, <1>14, <1>15, <1>16,
     <1>17, <1>18, <1>19, <1>20 DEF SNext

\* The offload commands of cmdline.c: for any ports, queues, capabilities and commands in any
\* order, the queues of a started port that nothing has flagged use the offloads each was last
\* told to have, and besides only those of the whole port, but after the commands that
\* write the port alone or copy it over its queues.
THEOREM QueuesUseOffloadsAsTold == Spec => []OffloadsAsTold
<1>1. Init => SInv /\ OInv
  BY SInitially, OInitially DEF Init
<1>2. (SInv /\ OInv) /\ [Next]_vars => (SInv /\ OInv)'
  <2>1. [Next]_vars => SNext \/ UNCHANGED svars
    BY DEF Next, vars
  <2> QED
    BY <2>1, SStays, OStays DEF SInv
<1>3. SInv /\ OInv => OffloadsAsTold
  <2> SUFFICES ASSUME SInv, OInv, slips = {}, NEW p \in up, NEW q \in SetQueues, NEW dir \in {"rx", "tx"},
                      ~need[p].dev, ~need[p].queues
               PROVE  LET used == device[p].port[dir] \cup device[p].queue[q][dir]
                      IN  said[p][q][dir] \subseteq used /\ used \subseteq said[p][q][dir] \cup conf[p].port[dir]
    BY DEF OffloadsAsTold
  <2>1. p \in SetPorts
    BY DEF SInv, SType
  <2>2. device[p].port = conf[p].port /\ device[p].queue = conf[p].queue
    BY <2>1 DEF SInv, Settled
  <2>3. Heeded(conf[p], said[p])
    BY <2>1 DEF OInv
  <2>4. CASE dir = "rx"
    BY <2>2, <2>3, <2>4 DEF Heeded, Obeys
  <2>5. CASE dir = "tx"
    BY <2>2, <2>3, <2>5 DEF Heeded, Obeys
  <2> QED
    BY <2>4, <2>5
<1> QED
  BY <1>1, <1>2, <1>3, PTL DEF Spec

-----------------------------------------------------------------------------
(* The headers of tunnels. *)

EncapCommand == [vlan : BOOLEAN, tos : BOOLEAN, ipv4 : BOOLEAN, v : ConfValues \cup {0}]
\* The tunnels that a command gives values to
EncapKinds == {"vxlan", "nvgre", "l2_encap"} \cup Tunnels
\* Configuration c of kind k is what command s made of it, with no value of an earlier one.
AsCommanded(k, c, s) ==
    /\ c.vlan = s.vlan /\ c.tos = s.tos /\ c.ipv4 = s.ipv4
    /\ k \in EncapKinds => c.common = s.v /\ (c.vlan => c.tci = s.v) /\ (c.tos => c.tos_ttl = s.v)
    /\ k \in EncapKinds \ {"l2_encap"} => (IF c.ipv4 THEN c.addr4 ELSE c.addr6) = s.v

Header == [vlan : BOOLEAN, ipv4 : BOOLEAN, tos : BOOLEAN, common : ConfValues \cup {0}, addr4 : ConfValues \cup {0},
           addr6 : ConfValues \cup {0}, tci : ConfValues \cup {0}, tos_ttl : ConfValues \cup {0}]

\* Every kind has a configuration and the command that was last carried out on it.
EType == /\ encap \in [ConfKinds -> Header]
         /\ last_set \in [ConfKinds -> EncapCommand]

\* Type of service is given to vxlan only, and l2_decap never has an address.
Commanded == /\ \A k \in ConfKinds : AsCommanded(k, encap[k], last_set[k])
             /\ \A k \in ConfKinds \ {"vxlan"} : ~last_set[k].tos
             /\ ~last_set["l2_decap"].ipv4

EInv == EType /\ Commanded /\ HeaderAsSet

\* Every configuration starts as the command that its kind counts as its first would leave it.
LEMMA EInitially == EInit => EInv
<1> SUFFICES ASSUME EInit
             PROVE  EInv
  OBVIOUS
<1>1. ASSUME NEW k \in ConfKinds
      PROVE  StartingConf(k) \in Header /\ Unset(k) \in EncapCommand /\ AsCommanded(k, StartingConf(k), Unset(k)) /\ ~Unset(k).tos
  <2>1. StartingConf(k) \in {vxlan_encap_conf, other_conf}
    BY DEF StartingConf, nvgre_encap_conf
  <2>2. /\ other_conf \in Header /\ other_conf.vlan = FALSE /\ other_conf.ipv4 = FALSE /\ other_conf.tos = FALSE
        /\ other_conf.common = 0 /\ other_conf.tci = 0 /\ other_conf.addr4 = 0 /\ other_conf.addr6 = 0
    <3>1. vxlan_encap_conf \in Header /\ vxlan_encap_conf.vlan = FALSE /\ vxlan_encap_conf.tos = FALSE
      BY DEF vxlan_encap_conf, Header
    <3>2. vxlan_encap_conf.common = 0 /\ vxlan_encap_conf.tci = 0 /\ vxlan_encap_conf.addr4 = 0 /\ vxlan_encap_conf.addr6 = 0
      BY DEF vxlan_encap_conf
    <3> QED
      BY <3>1, <3>2 DEF other_conf, Header
  <2> HIDE DEF StartingConf
  <2>3. CASE StartingConf(k) = vxlan_encap_conf
    BY <2>3 DEF Unset, vxlan_encap_conf, Header, EncapCommand, AsCommanded
  <2>4. CASE StartingConf(k) = other_conf
    BY <2>2, <2>4 DEF Unset, EncapCommand, AsCommanded
  <2> QED
    BY <2>1, <2>3, <2>4
<1>2. EType /\ Commanded
  <2>1. StartingConf("l2_decap").ipv4 = FALSE /\ "l2_decap" \in ConfKinds
    BY DEF StartingConf, other_conf, vxlan_encap_conf, ConfKinds
  <2> QED
    BY <1>1, <2>1 DEF EInit, EType, Commanded, Unset
<1> QED
  BY <1>2 DEF EInit, EInv, HeaderAsSet, NoHeader

\* A command that writes one configuration as it was told leaves no header built.
LEMMA OneSet ==
    ASSUME EInv, NEW k \in ConfKinds, NEW s \in EncapCommand, NEW c \in Header, Set(k, s, c), AsCommanded(k, c, s),
           k = "vxlan" \/ ~s.tos, k # "l2_decap" \/ ~s.ipv4
    PROVE  EInv'
<1>1. encap' = [encap EXCEPT ![k] = c] /\ last_set' = [last_set EXCEPT ![k] = s] /\ header' = NoHeader
  BY DEF Set
<1>2. EType'
  BY <1>1 DEF EInv, EType
<1>3. Commanded'
  BY <1>1 DEF EInv, EType, Commanded
<1> QED
  BY <1>1, <1>2, <1>3 DEF EInv, HeaderAsSet, NoHeader

\* What the words of a command write, and nothing else
LEMMA CommandWrites ==
    ASSUME NEW c \in Header, NEW s \in EncapCommand
    PROVE  /\ Selected(c, s) \in Header /\ Selected(c, s).vlan = s.vlan /\ Selected(c, s).ipv4 = s.ipv4 /\ Selected(c, s).tos = c.tos
           /\ Tag(c, s) \in Header /\ Tag(c, s).vlan = c.vlan /\ Tag(c, s).ipv4 = c.ipv4 /\ Tag(c, s).tos = c.tos
           /\ Tag(c, s).addr4 = c.addr4 /\ Tag(c, s).addr6 = c.addr6 /\ (s.vlan => Tag(c, s).tci = s.v)
           /\ Addresses(c, s) \in Header /\ Addresses(c, s).vlan = c.vlan /\ Addresses(c, s).ipv4 = c.ipv4
           /\ Addresses(c, s).tos = c.tos
           /\ (s.ipv4 => Addresses(c, s).addr4 = s.v) /\ (~s.ipv4 => Addresses(c, s).addr6 = s.v)
<1>1. s.vlan \in BOOLEAN /\ s.ipv4 \in BOOLEAN /\ s.tos \in BOOLEAN /\ s.v \in ConfValues \cup {0}
  BY DEF EncapCommand
<1>2. Selected(c, s) \in Header /\ Selected(c, s).vlan = s.vlan /\ Selected(c, s).ipv4 = s.ipv4 /\ Selected(c, s).tos = c.tos
  BY <1>1 DEF Header, Selected
<1>3. /\ Tag(c, s) \in Header /\ Tag(c, s).vlan = c.vlan /\ Tag(c, s).ipv4 = c.ipv4 /\ Tag(c, s).tos = c.tos
      /\ Tag(c, s).addr4 = c.addr4 /\ Tag(c, s).addr6 = c.addr6 /\ (s.vlan => Tag(c, s).tci = s.v)
  BY <1>1 DEF Header, Tag
<1>4. /\ Addresses(c, s) \in Header /\ Addresses(c, s).vlan = c.vlan /\ Addresses(c, s).ipv4 = c.ipv4
      /\ Addresses(c, s).tos = c.tos
      /\ (s.ipv4 => Addresses(c, s).addr4 = s.v) /\ (~s.ipv4 => Addresses(c, s).addr6 = s.v)
  BY <1>1 DEF Header, Addresses
<1> QED
  BY <1>2, <1>3, <1>4

\* Every "set" command leaves a configuration that says what it was told.
LEMMA EncapSet ==
    ASSUME EInv, NEW s \in SetCommands, SetCommand(s)
    PROVE  EInv'
<1>0. /\ s \in EncapCommand
      /\ \A k \in ConfKinds : encap[k] \in Header /\ (k # "vxlan" => ~encap[k].tos)
  BY DEF EInv, EType, Commanded, AsCommanded, SetCommands, EncapCommand
<1>1. s.vlan \in BOOLEAN /\ s.ipv4 \in BOOLEAN /\ s.tos \in BOOLEAN /\ s.v \in ConfValues \cup {0}
  BY <1>0 DEF EncapCommand
<1>k. /\ {"vxlan", "nvgre", "l2_encap", "l2_decap", "mplsogre_encap", "mplsoudp_encap", "mplsogre_decap", "mplsoudp_decap"} = ConfKinds
      /\ EncapKinds = {"vxlan", "nvgre", "l2_encap", "mplsogre_encap", "mplsoudp_encap"}
  BY DEF ConfKinds, Tunnels, TunnelEnds, EncapKinds
<1>2. CASE cmd_set_vxlan_parsed(s)
  <2> DEFINE a == Addresses(Selected(encap["vxlan"], s), s)
             t == Tag(a, s)
             c == [t EXCEPT !.tos = s.tos, !.common = s.v, !.tos_ttl = s.v]
  <2>1. /\ a \in Header /\ a.vlan = s.vlan /\ a.ipv4 = s.ipv4 /\ (s.ipv4 => a.addr4 = s.v) /\ (~s.ipv4 => a.addr6 = s.v)
    BY <1>0, <1>k, CommandWrites
  <2>2. Set("vxlan", s, c)
    BY <1>2 DEF cmd_set_vxlan_parsed
  <2> HIDE DEF a
  <2>3. /\ t \in Header /\ t.vlan = s.vlan /\ t.ipv4 = s.ipv4 /\ (s.ipv4 => t.addr4 = s.v) /\ (~s.ipv4 => t.addr6 = s.v)
        /\ (s.vlan => t.tci = s.v)
    BY <1>0, <2>1, CommandWrites
  <2> HIDE DEF t
  <2>4. c \in Header /\ AsCommanded("vxlan", c, s)
    BY <1>1, <2>3 DEF AsCommanded, Header
  <2> HIDE DEF c
  <2> QED
    BY <1>0, <1>k, <2>2, <2>4, OneSet
<1>3. ASSUME NEW k \in {"nvgre", "mplsogre_encap", "mplsoudp_encap"}, ~s.tos,
             Set(k, s, [Tag(Addresses(Selected(encap[k], s), s), s) EXCEPT !.common = s.v])
      PROVE  EInv'
  <2> DEFINE a == Addresses(Selected(encap[k], s), s)
             t == Tag(a, s)
             c == [t EXCEPT !.common = s.v]
  <2>1. /\ a \in Header /\ a.vlan = s.vlan /\ a.ipv4 = s.ipv4 /\ a.tos = FALSE
        /\ (s.ipv4 => a.addr4 = s.v) /\ (~s.ipv4 => a.addr6 = s.v)
    <3>1. encap[k] \in Header /\ ~encap[k].tos
      BY <1>0, <1>k
    <3>2. encap[k].tos = FALSE
      BY <3>1 DEF Header
    <3>3. PICK e \in Header : e = encap[k]
      BY <3>1
    <3>4. PICK f \in Header : f = Selected(e, s)
      BY <1>0, CommandWrites
    <3>5. f.vlan = s.vlan /\ f.ipv4 = s.ipv4 /\ f.tos = FALSE
      BY <1>0, <3>2, <3>3, <3>4, CommandWrites
    <3>6. a = Addresses(f, s)
      BY <3>3, <3>4
    <3> HIDE DEF a
    <3> QED
      BY <1>0, <3>5, <3>6, CommandWrites
  <2>2. Set(k, s, c)
    BY <1>3
  <2> HIDE DEF a
  <2>3. /\ t \in Header /\ t.vlan = s.vlan /\ t.ipv4 = s.ipv4 /\ t.tos = FALSE
        /\ (s.ipv4 => t.addr4 = s.v) /\ (~s.ipv4 => t.addr6 = s.v) /\ (s.vlan => t.tci = s.v)
    BY <1>0, <2>1, CommandWrites
  <2> HIDE DEF t
  <2>4. c \in Header /\ AsCommanded(k, c, s)
    BY <1>1, <1>3, <2>3 DEF AsCommanded, Header
  <2> HIDE DEF c
  <2> QED
    BY <1>0, <1>3, <1>k, <2>2, <2>4, OneSet
<1>4. CASE cmd_set_l2_encap_parsed(s)
  <2> DEFINE a == Selected(encap["l2_encap"], s)
             t == Tag(a, s)
             c == [t EXCEPT !.common = s.v]
  <2>1. a \in Header /\ a.vlan = s.vlan /\ a.ipv4 = s.ipv4 /\ a.tos = FALSE
    <3>1. encap["l2_encap"] \in Header /\ ~encap["l2_encap"].tos
      BY <1>0, <1>k
    <3>2. encap["l2_encap"].tos = FALSE
      BY <3>1 DEF Header
    <3>3. PICK e \in Header : e = encap["l2_encap"]
      BY <3>1
    <3> QED
      BY <1>0, <3>2, <3>3, CommandWrites
  <2>2. Set("l2_encap", s, c) /\ ~s.tos
    BY <1>4 DEF cmd_set_l2_encap_parsed
  <2> HIDE DEF a
  <2>3. t \in Header /\ t.vlan = s.vlan /\ t.ipv4 = s.ipv4 /\ t.tos = FALSE /\ (s.vlan => t.tci = s.v)
    BY <1>0, <2>1, CommandWrites
  <2> HIDE DEF t
  <2>4. c \in Header /\ AsCommanded("l2_encap", c, s)
    BY <1>1, <2>2, <2>3 DEF AsCommanded, Header
  <2> HIDE DEF c
  <2> QED
    BY <1>0, <1>k, <2>2, <2>4, OneSet
<1>5. CASE cmd_set_l2_decap_parsed(s)
  <2> DEFINE c == [encap["l2_decap"] EXCEPT !.vlan = s.vlan]
  <2>1. Set("l2_decap", s, c) /\ ~s.tos /\ ~s.ipv4
    BY <1>5 DEF cmd_set_l2_decap_parsed
  <2>2. encap["l2_decap"] \in Header /\ ~encap["l2_decap"].tos /\ ~encap["l2_decap"].ipv4
    BY <1>0, <1>k DEF EInv, Commanded, AsCommanded
  <2>3. c \in Header /\ AsCommanded("l2_decap", c, s)
    BY <1>1, <1>k, <2>1, <2>2 DEF AsCommanded, Header
  <2> HIDE DEF c
  <2> QED
    BY <1>0, <1>k, <2>1, <2>3, OneSet
<1>6. ASSUME NEW k \in TunnelEnds, ~s.tos, Set(k, s, Selected(encap[k], s))
      PROVE  EInv'
  <2>1. encap[k] \in Header /\ encap[k].tos = FALSE
    BY <1>0, <1>k DEF TunnelEnds, Header
  <2>2. Selected(encap[k], s) \in Header /\ AsCommanded(k, Selected(encap[k], s), s)
    BY <1>0, <1>1, <1>k, <1>6, <2>1, CommandWrites DEF AsCommanded, TunnelEnds
  <2> QED
    BY <1>0, <1>k, <1>6, <2>2, OneSet DEF TunnelEnds
<1> QED
  BY <1>2, <1>3, <1>4, <1>5, <1>6
     DEF SetCommand, cmd_set_nvgre_parsed, cmd_set_mplsogre_encap_parsed, cmd_set_mplsoudp_encap_parsed,
         cmd_set_mplsogre_decap_parsed, cmd_set_mplsoudp_decap_parsed, TunnelEnds

\* The layers a header is built of
LayerNameSet == {"eth", "vlan", "ipv4", "ipv6", "tos_ttl", "udp", "vxlan", "nvgre", "gre", "mpls", "any"}
HeaderLayers == {Announcing(n, v, next) : n \in LayerNameSet, v \in ConfValues \cup {0}, next \in LayerNameSet}

\* Layers L of a header of kind k have the names W and the value v, and each announces the
\* one that follows, the last one next.
LayersFit(L, W, k, v, next) ==
    /\ L \in Seq(HeaderLayers) /\ W \in Seq(LayerNameSet)
    /\ Len(L) = Len(W) /\ Len(L) > 0
    /\ \A i \in 1 .. Len(L) :
          /\ L[i].layer = W[i]
          /\ k \notin TunnelEnds \cup {"l2_decap"} /\ W[i] # "gre" => L[i].v = v
          /\ L[i].announces \in {"any", IF i < Len(L) THEN W[i + 1] ELSE next}

\* One layer fits when it has its value and announces what comes next.
LEMMA FitsOne ==
    ASSUME NEW n \in LayerNameSet, NEW x \in HeaderLayers, NEW k, NEW v, NEW next, x.layer = n,
           k \notin TunnelEnds \cup {"l2_decap"} /\ n # "gre" => x.v = v,
           x.announces \in {"any", next}
    PROVE  LayersFit(<<x>>, <<n>>, k, v, next)
<1> DEFINE L == <<x>>
           W == <<n>>
<1>1. L \in Seq(HeaderLayers) /\ Len(L) = 1 /\ L[1] = x
  OBVIOUS
<1>2. W \in Seq(LayerNameSet) /\ Len(W) = 1 /\ W[1] = n
  OBVIOUS
<1> HIDE DEF L, W
<1>3. LayersFit(L, W, k, v, next)
  BY <1>1, <1>2 DEF LayersFit
<1> QED
  BY <1>3 DEF L, W

\* Two parts of a header fit together when the first announces the beginning of the second.
LEMMA FitsJoined ==
    ASSUME NEW k, NEW v, NEW next, NEW L1, NEW L2, NEW W1, NEW W2,
           LayersFit(L1, W1, k, v, W2[1]), LayersFit(L2, W2, k, v, next)
    PROVE  LayersFit(L1 \o L2, W1 \o W2, k, v, next)
<1> DEFINE L == L1 \o L2
           W == W1 \o W2
<1>1. /\ L1 \in Seq(HeaderLayers) /\ L2 \in Seq(HeaderLayers) /\ W1 \in Seq(LayerNameSet) /\ W2 \in Seq(LayerNameSet)
      /\ Len(L1) = Len(W1) /\ Len(L2) = Len(W2) /\ Len(L1) > 0 /\ Len(L2) > 0
  BY DEF LayersFit
<1>2. /\ L \in Seq(HeaderLayers) /\ W \in Seq(LayerNameSet) /\ Len(L) = Len(L1) + Len(L2) /\ Len(W) = Len(W1) + Len(W2)
      /\ \A i \in 1 .. Len(L1) : L[i] = L1[i] /\ W[i] = W1[i]
      /\ \A i \in 1 .. Len(L) : i > Len(L1) => L[i] = L2[i - Len(L1)] /\ W[i] = W2[i - Len(L1)]
  <2>1. L \in Seq(HeaderLayers) /\ Len(L) = Len(L1) + Len(L2)
    BY <1>1
  <2>2. W \in Seq(LayerNameSet) /\ Len(W) = Len(W1) + Len(W2)
    BY <1>1
  <2>3. /\ \A i \in 1 .. Len(L) : L[i] = IF i <= Len(L1) THEN L1[i] ELSE L2[i - Len(L1)]
        /\ \A i \in 1 .. Len(W) : W[i] = IF i <= Len(W1) THEN W1[i] ELSE W2[i - Len(W1)]
    BY <1>1
  <2> HIDE DEF L, W
  <2> QED
    BY <1>1, <2>1, <2>2, <2>3
<1> HIDE DEF L, W
<1>3. ASSUME NEW i \in 1 .. Len(L)
      PROVE  /\ L[i].layer = W[i]
             /\ k \notin TunnelEnds \cup {"l2_decap"} /\ W[i] # "gre" => L[i].v = v
             /\ L[i].announces \in {"any", IF i < Len(L) THEN W[i + 1] ELSE next}
  <2>1. CASE i < Len(L1)
    <3>1. i \in 1 .. Len(L1) /\ i + 1 \in 1 .. Len(L1) /\ i < Len(L)
      BY <1>1, <1>2, <2>1
    <3>2. L[i] = L1[i] /\ W[i] = W1[i] /\ W[i + 1] = W1[i + 1]
      BY <1>2, <3>1
    <3> QED
      BY <2>1, <3>1, <3>2 DEF LayersFit
  <2>2. CASE i = Len(L1)
    <3>1. i \in 1 .. Len(L1) /\ i + 1 \in 1 .. Len(L) /\ i + 1 - Len(L1) = 1 /\ i < Len(L)
      BY <1>1, <1>2, <2>2
    <3>2. W[i + 1] = W2[1] /\ L[i] = L1[i] /\ W[i] = W1[i]
      BY <1>1, <1>2, <2>2, <3>1
    <3> QED
      BY <1>1, <2>2, <3>1, <3>2 DEF LayersFit
  <2>3. CASE i > Len(L1)
    <3>1. PICK j \in 1 .. Len(L2) : j = i - Len(L1)
      BY <1>1, <1>2, <2>3
    <3>2. L[i] = L2[j] /\ W[i] = W2[j] /\ (i < Len(L) <=> j < Len(L2)) /\ (j < Len(L2) => W[i + 1] = W2[j + 1])
      <4>1. L[i] = L2[j] /\ W[i] = W2[j] /\ (i < Len(L) <=> j < Len(L2))
        BY <1>1, <1>2, <2>3, <3>1
      <4>2. ASSUME j < Len(L2)
            PROVE  W[i + 1] = W2[j + 1]
        <5>1. i + 1 \in 1 .. Len(L) /\ i + 1 > Len(L1) /\ i + 1 - Len(L1) = j + 1
          BY <1>1, <1>2, <2>3, <3>1, <4>2
        <5> QED
          BY <1>2, <5>1
      <4> QED
        BY <4>1, <4>2
    <3> QED
      BY <1>1, <3>1, <3>2 DEF LayersFit
  <2> QED
    BY <1>1, <1>2, <2>1, <2>2, <2>3
<1>4. LayersFit(L, W, k, v, next)
  BY <1>1, <1>2, <1>3 DEF LayersFit
<1> QED
  BY <1>4 DEF L, W

\* A header that fits the names its last command asks for is as set.
LEMMA FitsHeader ==
    ASSUME NEW k, NEW L, NEW W, NEW next, UNCHANGED last_set, LayersFit(L, W, k, last_set[k].v, next),
           header' = [kind |-> k, layers |-> L], WantedNames(k, last_set[k]) = W
    PROVE  HeaderAsSet'
<1>1. L \in Seq(HeaderLayers) /\ W \in Seq(LayerNameSet) /\ Len(L) = Len(W) /\ DOMAIN L = 1 .. Len(L)
  BY DEF LayersFit
<1>2. LayerNames(L) = W
  <2>1. LayerNames(L) = [i \in 1 .. Len(L) |-> L[i].layer] /\ W = [i \in 1 .. Len(L) |-> W[i]]
    BY <1>1 DEF LayerNames
  <2> QED
    BY <2>1 DEF LayersFit
<1>3. \A i \in 1 .. Len(L) :
         /\ L[i].layer = W[i]
         /\ k \notin TunnelEnds \cup {"l2_decap"} /\ L[i].layer # "gre" => L[i].v = last_set[k].v
         /\ i < Len(L) => L[i].announces \in {"any", L[i + 1].layer}
  BY <1>1 DEF LayersFit
<1>4. PICK s : s = last_set /\ s = last_set'
  OBVIOUS
<1> QED
  BY <1>1, <1>2, <1>3, <1>4 DEF HeaderAsSet

\* One more layer at the end
LEMMA FitsThen ==
    ASSUME NEW k, NEW v, NEW next, NEW L, NEW W, NEW n \in LayerNameSet, NEW x \in HeaderLayers,
           LayersFit(L, W, k, v, n), x.layer = n, x.announces = "any",
           k \notin TunnelEnds \cup {"l2_decap"} /\ n # "gre" => x.v = v
    PROVE  LayersFit(L \o <<x>>, W \o <<n>>, k, v, next)
<1>1. LayersFit(<<x>>, <<n>>, k, v, next)
  BY FitsOne
<1>2. <<n>>[1] = n
  OBVIOUS
<1> QED
  BY <1>1, <1>2, FitsJoined

\* The Ethernet header, with the tag of a vlan or without
LEMMA FitsFront ==
    ASSUME NEW k, NEW v, NEW next, NEW tagged \in BOOLEAN, NEW eth \in HeaderLayers, NEW tag,
           eth.layer = "eth", eth.announces \in {"any", IF tagged THEN "vlan" ELSE next},
           tagged => tag \in HeaderLayers /\ tag.layer = "vlan" /\ tag.announces \in {"any", next},
           k \notin TunnelEnds \cup {"l2_decap"} => eth.v = v /\ (tagged => tag.v = v)
    PROVE  LayersFit(<<eth>> \o (IF tagged THEN <<tag>> ELSE <<>>), <<"eth">> \o (IF tagged THEN <<"vlan">> ELSE <<>>), k, v, next)
<1>0. "eth" \in LayerNameSet /\ "vlan" \in LayerNameSet
  BY DEF LayerNameSet
<1>1. LayersFit(<<eth>>, <<"eth">>, k, v, IF tagged THEN "vlan" ELSE next)
  BY <1>0, FitsOne
<1>2. CASE tagged
  <2>1. LayersFit(<<tag>>, <<"vlan">>, k, v, next)
    BY <1>0, <1>2, FitsOne
  <2>2. <<"vlan">>[1] = "vlan"
    OBVIOUS
  <2> QED
    BY <1>1, <1>2, <2>1, <2>2, FitsJoined
<1>3. CASE ~tagged
  <2>1. <<eth>> \o <<>> = <<eth>> /\ <<"eth">> \o <<>> = <<"eth">>
    OBVIOUS
  <2> QED
    BY <1>1, <1>3, <2>1
<1> QED
  BY <1>2, <1>3

\* What Layer() and Announcing() make
LEMMA HeaderLayer ==
    ASSUME NEW n \in LayerNameSet, NEW v \in ConfValues \cup {0}, NEW next \in LayerNameSet
    PROVE  /\ Announcing(n, v, next) \in HeaderLayers
           /\ Announcing(n, v, next).layer = n /\ Announcing(n, v, next).v = v /\ Announcing(n, v, next).announces = next
           /\ Layer(n, v) \in HeaderLayers /\ Layer(n, v).layer = n /\ Layer(n, v).v = v /\ Layer(n, v).announces = "any"
<1>1. "any" \in LayerNameSet /\ Layer(n, v) = Announcing(n, v, "any")
  BY DEF LayerNameSet, Layer, Announcing
<1>2. Announcing(n, v, next) \in HeaderLayers /\ Announcing(n, v, "any") \in HeaderLayers
  BY <1>1 DEF HeaderLayers
<1> QED
  BY <1>1, <1>2 DEF Announcing

\* Building a header changes no configuration.
LEMMA Building == 
    ASSUME EInv, NEW k, NEW L, NEW W, NEW next, Built(k, L), LayersFit(L, W, k, last_set[k].v, next),
           WantedNames(k, last_set[k]) = W
    PROVE  EInv'
<1>1. header' = [kind |-> k, layers |-> L] /\ UNCHANGED <<encap, last_set>>
  BY DEF Built
<1>2. HeaderAsSet'
  BY <1>1, FitsHeader
<1> QED
  BY <1>1, <1>2 DEF EInv, EType, Commanded

\* Two layers on top
LEMMA FitsTwoMore ==
    ASSUME NEW k, NEW v, NEW L, NEW W, NEW n1 \in LayerNameSet, NEW n2 \in LayerNameSet,
           NEW x1 \in HeaderLayers, NEW x2 \in HeaderLayers, LayersFit(L, W, k, v, n1),
           x1.layer = n1, x1.announces = "any", x2.layer = n2, x2.announces = "any",
           k \notin TunnelEnds \cup {"l2_decap"} => (n1 # "gre" => x1.v = v) /\ (n2 # "gre" => x2.v = v)
    PROVE  LayersFit(L \o <<x1, x2>>, W \o <<n1, n2>>, k, v, "any")
<1> DEFINE L2 == <<x1, x2>>
           W2 == <<n1, n2>>
<1>1. L2 \in Seq(HeaderLayers) /\ Len(L2) = 2 /\ L2[1] = x1 /\ L2[2] = x2
  OBVIOUS
<1>2. W2 \in Seq(LayerNameSet) /\ Len(W2) = 2 /\ W2[1] = n1 /\ W2[2] = n2
  OBVIOUS
<1> HIDE DEF L2, W2
<1>3. LayersFit(L2, W2, k, v, "any")
  BY <1>1, <1>2 DEF LayersFit
<1>4. LayersFit(L \o L2, W \o W2, k, v, "any")
  BY <1>2, <1>3, FitsJoined
<1> QED
  BY <1>4 DEF L2, W2

\* Headers over IP: what comes after the Ethernet header. over and last name two layers.
LEMMA FitsMpls ==
    ASSUME EInv, NEW k \in Tunnels \cup TunnelEnds, NEW front, NEW ip \in HeaderLayers, NEW over \in HeaderLayers, NEW mpls \in HeaderLayers,
           LayersFit(front, OuterNames(last_set[k]), k, last_set[k].v, Ip(last_set[k])),
           ip.layer = Ip(last_set[k]), ip.announces = "any", over.announces = "any", mpls.layer = "mpls", mpls.announces = "any",
           over.layer = (IF k \in {"mplsogre_encap", "mplsogre_decap"} THEN "gre" ELSE "udp"),
           k \in Tunnels => ip.v = last_set[k].v /\ (over.layer # "gre" => over.v = last_set[k].v) /\ mpls.v = last_set[k].v,
           Built(k, front \o <<ip>> \o <<over, mpls>>)
    PROVE  EInv'
<1> DEFINE s == last_set[k]
           last == IF k \in {"mplsogre_encap", "mplsogre_decap"} THEN "gre" ELSE "udp"
           W == (OuterNames(s) \o <<Ip(s)>>) \o <<last, "mpls">>
<1>1. Ip(s) \in LayerNameSet /\ last \in LayerNameSet /\ "mpls" \in LayerNameSet
  BY DEF LayerNameSet, Ip
<1>2. k \in TunnelEnds \/ k \in Tunnels
  OBVIOUS
<1> HIDE DEF last
<1>3. LayersFit(front \o <<ip>>, OuterNames(s) \o <<Ip(s)>>, k, s.v, last)
  BY <1>1, <1>2, FitsThen
<1>4. over.layer = last
  BY DEF last
<1>5. LayersFit((front \o <<ip>>) \o <<over, mpls>>, W, k, s.v, "any")
  BY <1>1, <1>2, <1>3, <1>4, FitsTwoMore
<1>6. WantedNames(k, s) = W
  <2>1. PICK w \in Seq(LayerNameSet) : w = OuterNames(s) \o <<Ip(s)>>
    BY <1>3 DEF LayersFit
  <2>2. k \in ConfKinds /\ ~s.tos /\ k \notin {"l2_encap", "l2_decap", "vxlan", "nvgre"}
    BY DEF EInv, Commanded, ConfKinds, Tunnels, TunnelEnds
  <2>3. WantedNames(k, s) = (w \o <<>>) \o <<last, "mpls">>
    BY <2>1, <2>2 DEF WantedNames, last, Tunnels, TunnelEnds
  <2>4. w \o <<>> = w
    BY <2>1
  <2> QED
    BY <2>1, <2>3, <2>4
<1> QED
  BY <1>5, <1>6, Building
\* A tag or none in front, as the configuration has it
LEMMA FrontBuilt ==
    ASSUME NEW k, NEW c, NEW s, NEW v \in ConfValues \cup {0}, NEW tci, NEW next \in LayerNameSet, NEW tagged,
           c.vlan = s.vlan, s.vlan \in BOOLEAN, tagged = s.vlan,
           NEW n \in LayerNameSet, n \in {"any", IF tagged THEN "vlan" ELSE next},
           NEW u \in ConfValues \cup {0}, tagged => tci \in ConfValues \cup {0},
           k \notin TunnelEnds \cup {"l2_decap"} => u = v /\ (tagged => tci = v)
    PROVE  LayersFit(<<Announcing("eth", u, n)>> \o VlanIf(c, tci, next), OuterNames(s), k, v, next)
<1> DEFINE eth == Announcing("eth", u, n)
           tag == Announcing("vlan", tci, next)
<1>1. "eth" \in LayerNameSet /\ "vlan" \in LayerNameSet
  BY DEF LayerNameSet
<1>2. eth \in HeaderLayers /\ eth.layer = "eth" /\ eth.announces = n /\ eth.v = u
  BY <1>1, HeaderLayer
<1>3. s.vlan => tag \in HeaderLayers /\ tag.layer = "vlan" /\ tag.announces = next /\ tag.v = tci
  BY <1>1, HeaderLayer
<1>4. VlanIf(c, tci, next) = IF s.vlan THEN <<tag>> ELSE <<>>
  BY DEF VlanIf
<1>5. OuterNames(s) = <<"eth">> \o (IF s.vlan THEN <<"vlan">> ELSE <<>>)
  BY DEF OuterNames
<1> HIDE DEF eth, tag
<1>6. LayersFit(<<eth>> \o (IF s.vlan THEN <<tag>> ELSE <<>>), <<"eth">> \o (IF s.vlan THEN <<"vlan">> ELSE <<>>), k, v, next)
  BY <1>2, <1>3, FitsFront
<1>7. LayersFit(<<eth>> \o VlanIf(c, tci, next), OuterNames(s), k, v, next)
  BY <1>4, <1>5, <1>6
<1> QED
  BY <1>7 DEF eth

\* MPLS over GRE and over UDP
LEMMA MplsOverFits ==
    ASSUME EInv, NEW k \in Tunnels, NEW over \in HeaderLayers, over.announces = "any",
           IF k = "mplsogre_encap" THEN over.layer = "gre" ELSE over.layer = "udp" /\ over.v = encap[k].common,
           MplsOver(k, encap[k], over)
    PROVE  EInv'
<1> DEFINE c == encap[k]
           s == last_set[k]
           n == IF c.vlan THEN "vlan" ELSE Ip(c)
           front == <<Announcing("eth", c.common, n)>> \o VlanIf(c, c.tci, Ip(c))
           ip == IpLayer(c)
           mpls == Layer("mpls", c.common)
<1>1. c \in Header /\ s \in EncapCommand /\ AsCommanded(k, c, s) /\ k \in EncapKinds \ {"l2_encap"}
  BY DEF EInv, EType, Commanded, ConfKinds, Tunnels, EncapKinds
<1>2. Built(k, front \o <<ip>> \o <<over, mpls>>)
  BY DEF MplsOver
<1>3. /\ c.vlan = s.vlan /\ s.vlan \in BOOLEAN /\ Ip(c) = Ip(s) /\ Ip(s) \in LayerNameSet
      /\ c.common = s.v /\ s.v \in ConfValues \cup {0} /\ (c.vlan => c.tci = s.v) /\ ip = Layer(Ip(s), s.v)
  BY <1>1 DEF AsCommanded, Ip, IpLayer, EncapCommand, Header, LayerNameSet
<1>4. n \in LayerNameSet /\ "mpls" \in LayerNameSet
  BY <1>3 DEF LayerNameSet
<1> HIDE DEF c, s
<1>5. LayersFit(front, OuterNames(s), k, s.v, Ip(s))
  BY <1>3, <1>4, FrontBuilt
<1>6. ip \in HeaderLayers /\ ip.layer = Ip(s) /\ ip.v = s.v /\ ip.announces = "any"
  BY <1>3, HeaderLayer
<1>7. mpls \in HeaderLayers /\ mpls.layer = "mpls" /\ mpls.v = s.v /\ mpls.announces = "any"
  BY <1>3, <1>4, HeaderLayer
<1>8. /\ over.layer = (IF k \in {"mplsogre_encap", "mplsogre_decap"} THEN "gre" ELSE "udp")
      /\ over.layer # "gre" => over.v = s.v
  BY <1>3 DEF Tunnels, c
<1> HIDE DEF front, ip, mpls
<1> QED
  BY <1>2, <1>5, <1>6, <1>7, <1>8, FitsMpls DEF s
\* An action that borrows from a configuration that was set to something else
LEMMA Disagreeing ==
    ASSUME EInv, NEW k, NEW L, Built(k, L), ~Agrees(k)
    PROVE  EInv'
<1>1. header' = [kind |-> k, layers |-> L] /\ UNCHANGED <<encap, last_set>>
  BY DEF Built
<1>2. ~Agrees(k)'
  BY <1>1 DEF Agrees
<1> QED
  BY <1>1, <1>2 DEF EInv, EType, Commanded, HeaderAsSet

\* Taking MPLS off: built from the configuration of putting it on, and as set when the two agree.
LEMMA MplsOffFits ==
    ASSUME EInv, NEW k \in TunnelEnds, NEW over \in HeaderLayers, over.announces = "any",
           over.layer = (IF k = "mplsogre_decap" THEN "gre" ELSE "udp"),
           MplsOff(k, encap[k], encap[Lender(k)], over)
    PROVE  EInv'
<1> DEFINE own == encap[k]
           other == encap[Lender(k)]
           s == last_set[k]
           t == last_set[Lender(k)]
           n == IF own.vlan THEN "vlan" ELSE Ip(other)
           front == <<Announcing("eth", other.common, n)>> \o VlanIf(other, 0, Ip(other))
           ip == Layer(Ip(other), 0)
           mpls == Layer("mpls", 0)
<1>1. /\ own \in Header /\ s \in EncapCommand /\ AsCommanded(k, own, s)
      /\ other \in Header /\ t \in EncapCommand /\ AsCommanded(Lender(k), other, t)
  BY DEF EInv, EType, Commanded, ConfKinds, Tunnels, TunnelEnds, Lender
<1>2. Built(k, front \o <<ip>> \o <<over, mpls>>)
  BY DEF MplsOff
<1>3. CASE ~Agrees(k)
  BY <1>2, <1>3, Disagreeing
<1>4. CASE Agrees(k)
  <2>1. s.vlan = t.vlan /\ s.ipv4 = t.ipv4
    BY <1>4 DEF Agrees, TunnelEnds
  <2>2. /\ other.vlan = s.vlan /\ own.vlan = s.vlan /\ s.vlan \in BOOLEAN /\ Ip(other) = Ip(s) /\ Ip(s) \in LayerNameSet
        /\ other.common \in ConfValues \cup {0} /\ 0 \in ConfValues \cup {0} /\ s.v \in ConfValues \cup {0}
    BY <1>1, <2>1 DEF AsCommanded, Ip, EncapCommand, Header, LayerNameSet
  <2>3. n \in LayerNameSet /\ "mpls" \in LayerNameSet
    BY <2>2 DEF LayerNameSet
  <2> HIDE DEF own, other, s, t
  <2>4. LayersFit(front, OuterNames(s), k, s.v, Ip(s))
    BY <2>2, <2>3, FrontBuilt
  <2>5. ip \in HeaderLayers /\ ip.layer = Ip(s) /\ ip.announces = "any"
    BY <2>2, HeaderLayer
  <2>6. mpls \in HeaderLayers /\ mpls.layer = "mpls" /\ mpls.announces = "any"
    BY <2>2, <2>3, HeaderLayer
  <2>7. over.layer = (IF k \in {"mplsogre_encap", "mplsogre_decap"} THEN "gre" ELSE "udp") /\ k \notin Tunnels
    BY DEF TunnelEnds, Tunnels
  <2> HIDE DEF front, ip, mpls
  <2> QED
    BY <1>2, <2>4, <2>5, <2>6, <2>7, FitsMpls DEF s
<1> QED
  BY <1>3, <1>4

\* The Ethernet header alone, with the tag of MPLS over UDP
LEMMA L2Fits ==
    ASSUME EInv, NEW k \in {"l2_encap", "l2_decap"}, NEW n \in LayerNameSet, NEW u \in ConfValues \cup {0}, NEW next \in LayerNameSet,
           n = IF encap[k].vlan THEN "vlan" ELSE next,
           k = "l2_encap" => u = encap[k].common,
           Built(k, <<Announcing("eth", u, n)>> \o VlanIf(encap[k], encap["mplsoudp_encap"].tci, next))
    PROVE  EInv'
<1> DEFINE c == encap[k]
           s == last_set[k]
           tci == encap["mplsoudp_encap"].tci
           L == <<Announcing("eth", u, n)>> \o VlanIf(c, tci, next)
<1>1. /\ c \in Header /\ s \in EncapCommand /\ AsCommanded(k, c, s) /\ ~s.tos
      /\ encap["mplsoudp_encap"] \in Header /\ AsCommanded("mplsoudp_encap", encap["mplsoudp_encap"], last_set["mplsoudp_encap"])
  BY DEF EInv, EType, Commanded, ConfKinds, Tunnels
<1>2. CASE ~Agrees(k)
  BY <1>2, Disagreeing
<1>3. CASE Agrees(k)
  <2>1. /\ c.vlan = s.vlan /\ s.vlan \in BOOLEAN /\ s.v \in ConfValues \cup {0} /\ tci \in ConfValues \cup {0}
        /\ k = "l2_encap" => u = s.v
    BY <1>1 DEF AsCommanded, EncapCommand, Header, EncapKinds, Tunnels
  <2>2. k = "l2_encap" /\ s.vlan => tci = s.v
    BY <1>1, <1>3 DEF Agrees, Lender, AsCommanded, EncapKinds, Tunnels
  <2> HIDE DEF c, s, tci
  <2>3. LayersFit(L, OuterNames(s), k, s.v, next)
    BY <2>1, <2>2, FrontBuilt DEF c
  <2>4. WantedNames(k, s) = OuterNames(s)
    <3>1. PICK w \in Seq(LayerNameSet) : w = OuterNames(s)
      BY <2>3 DEF LayersFit
    <3>2. WantedNames(k, s) = ((w \o <<>>) \o <<>>) \o <<>>
      BY <1>1, <3>1 DEF WantedNames, s
    <3>3. w \o <<>> = w
      BY <3>1
    <3> QED
      BY <3>1, <3>2, <3>3
  <2> QED
    BY <2>3, <2>4, Building DEF s, c, tci
<1> QED
  BY <1>2, <1>3
\* VXLAN: the only header with a layer for type of service, between IP and UDP
LEMMA VxlanFits == ASSUME EInv, parse_vc_action_vxlan_encap PROVE EInv'
<1> DEFINE c == encap["vxlan"]
           s == last_set["vxlan"]
           front == <<Announcing("eth", c.common, "any")>> \o VlanIf(c, c.tci, "any")
           ip == IpLayer(c)
           tos == Layer("tos_ttl", c.tos_ttl)
           udp == Layer("udp", c.common)
           vxlan == Layer("vxlan", c.common)
           upper == IF c.tos THEN <<tos>> ELSE <<>>
           upperNames == IF s.tos THEN <<"tos_ttl">> ELSE <<>>
<1>1. c \in Header /\ s \in EncapCommand /\ AsCommanded("vxlan", c, s) /\ "vxlan" \in EncapKinds \ {"l2_encap"}
  BY DEF EInv, EType, Commanded, ConfKinds, Tunnels, EncapKinds
<1>2. Built("vxlan", front \o <<ip>> \o upper \o <<udp, vxlan>>)
  BY DEF parse_vc_action_vxlan_encap, Layer, Announcing
<1>3. /\ c.vlan = s.vlan /\ s.vlan \in BOOLEAN /\ Ip(c) = Ip(s) /\ Ip(s) \in LayerNameSet /\ c.tos = s.tos /\ s.tos \in BOOLEAN
      /\ c.common = s.v /\ s.v \in ConfValues \cup {0} /\ (c.vlan => c.tci = s.v) /\ ip = Layer(Ip(s), s.v)
      /\ c.tos => c.tos_ttl = s.v
  BY <1>1 DEF AsCommanded, Ip, IpLayer, EncapCommand, Header, LayerNameSet
<1>4. /\ "any" \in LayerNameSet /\ "udp" \in LayerNameSet /\ "vxlan" \in LayerNameSet /\ "tos_ttl" \in LayerNameSet
      /\ "vxlan" \notin TunnelEnds \cup {"l2_decap"}
  BY DEF LayerNameSet, TunnelEnds
<1> HIDE DEF c, s
<1>5. LayersFit(front, OuterNames(s), "vxlan", s.v, Ip(s))
  <2>1. LayersFit(front, OuterNames(s), "vxlan", s.v, "any")
    BY <1>3, <1>4, FrontBuilt
  <2> HIDE DEF front
  <2> QED
    BY <2>1 DEF LayersFit
<1>6. ip \in HeaderLayers /\ ip.layer = Ip(s) /\ ip.v = s.v /\ ip.announces = "any"
  BY <1>3, HeaderLayer
<1>7. /\ udp \in HeaderLayers /\ udp.layer = "udp" /\ udp.v = s.v /\ udp.announces = "any"
      /\ vxlan \in HeaderLayers /\ vxlan.layer = "vxlan" /\ vxlan.v = s.v /\ vxlan.announces = "any"
  BY <1>3, <1>4, HeaderLayer
<1>8. s.tos => tos \in HeaderLayers /\ tos.layer = "tos_ttl" /\ tos.v = s.v /\ tos.announces = "any"
  BY <1>3, <1>4, HeaderLayer
<1> HIDE DEF front, ip, udp, vxlan, tos
<1>9. LayersFit(front \o <<ip>>, OuterNames(s) \o <<Ip(s)>>, "vxlan", s.v, IF s.tos THEN "tos_ttl" ELSE "udp")
  BY <1>3, <1>5, <1>6, FitsThen
<1>10. LayersFit((front \o <<ip>>) \o upper, (OuterNames(s) \o <<Ip(s)>>) \o upperNames, "vxlan", s.v, "udp")
  <2>1. CASE s.tos
    BY <1>3, <1>4, <1>8, <1>9, <2>1, FitsThen
  <2>2. CASE ~s.tos
    <3>1. PICK p, w : p = front \o <<ip>> /\ w = OuterNames(s) \o <<Ip(s)>>
      OBVIOUS
    <3>2. p \in Seq(HeaderLayers) /\ w \in Seq(LayerNameSet)
      BY <1>9, <3>1 DEF LayersFit
    <3>3. p \o <<>> = p /\ w \o <<>> = w
      BY <3>2
    <3>4. upper = <<>> /\ upperNames = <<>>
      BY <1>3, <2>2
    <3> QED
      BY <1>9, <2>2, <3>1, <3>3, <3>4
  <2> QED
    BY <2>1, <2>2
<1> DEFINE W == ((OuterNames(s) \o <<Ip(s)>>) \o upperNames) \o <<"udp", "vxlan">>
<1>11. LayersFit(((front \o <<ip>>) \o upper) \o <<udp, vxlan>>, W, "vxlan", s.v, "any")
  <2> HIDE DEF upper, upperNames
  <2> QED
    BY <1>4, <1>7, <1>10, FitsTwoMore
<1>12. WantedNames("vxlan", s) = W
  BY DEF WantedNames
<1> QED
  BY <1>2, <1>11, <1>12, Building DEF s

\* NVGRE has one layer over IP.
LEMMA NvgreFits == ASSUME EInv, parse_vc_action_nvgre_encap PROVE EInv'
<1> DEFINE c == encap["nvgre"]
           s == last_set["nvgre"]
           front == <<Announcing("eth", c.common, "any")>> \o VlanIf(c, c.tci, "any")
           ip == IpLayer(c)
           nvgre == Layer("nvgre", c.common)
<1>1. c \in Header /\ s \in EncapCommand /\ AsCommanded("nvgre", c, s) /\ ~s.tos /\ "nvgre" \in EncapKinds \ {"l2_encap"}
  BY DEF EInv, EType, Commanded, ConfKinds, Tunnels, EncapKinds
<1>2. Built("nvgre", front \o <<ip>> \o <<nvgre>>)
  BY DEF parse_vc_action_nvgre_encap, Layer, Announcing
<1>3. /\ c.vlan = s.vlan /\ s.vlan \in BOOLEAN /\ Ip(c) = Ip(s) /\ Ip(s) \in LayerNameSet
      /\ c.common = s.v /\ s.v \in ConfValues \cup {0} /\ (c.vlan => c.tci = s.v) /\ ip = Layer(Ip(s), s.v)
  BY <1>1 DEF AsCommanded, Ip, IpLayer, EncapCommand, Header, LayerNameSet
<1>4. "any" \in LayerNameSet /\ "nvgre" \in LayerNameSet /\ "nvgre" \notin TunnelEnds \cup {"l2_decap"}
  BY DEF LayerNameSet, TunnelEnds
<1> HIDE DEF c, s
<1>5. LayersFit(front, OuterNames(s), "nvgre", s.v, Ip(s))
  <2>1. LayersFit(front, OuterNames(s), "nvgre", s.v, "any")
    BY <1>3, <1>4, FrontBuilt
  <2> HIDE DEF front
  <2> QED
    BY <2>1 DEF LayersFit
<1>6. ip \in HeaderLayers /\ ip.layer = Ip(s) /\ ip.v = s.v /\ ip.announces = "any"
  BY <1>3, HeaderLayer
<1>7. nvgre \in HeaderLayers /\ nvgre.layer = "nvgre" /\ nvgre.v = s.v /\ nvgre.announces = "any"
  BY <1>3, <1>4, HeaderLayer
<1> HIDE DEF front, ip, nvgre
<1>8. LayersFit(front \o <<ip>>, OuterNames(s) \o <<Ip(s)>>, "nvgre", s.v, "nvgre")
  BY <1>3, <1>4, <1>5, <1>6, FitsThen
<1>9. LayersFit((front \o <<ip>>) \o <<nvgre>>, (OuterNames(s) \o <<Ip(s)>>) \o <<"nvgre">>, "nvgre", s.v, "any")
  BY <1>4, <1>7, <1>8, FitsThen
<1>10. WantedNames("nvgre", s) = (OuterNames(s) \o <<Ip(s)>>) \o <<"nvgre">>
  <2>1. PICK w \in Seq(LayerNameSet) : w = OuterNames(s) \o <<Ip(s)>>
    BY <1>8 DEF LayersFit
  <2>2. WantedNames("nvgre", s) = (w \o <<>>) \o <<"nvgre">>
    BY <1>1, <2>1 DEF WantedNames, s
  <2>3. w \o <<>> = w
    BY <2>1
  <2> QED
    BY <2>1, <2>2, <2>3
<1> QED
  BY <1>2, <1>9, <1>10, Building DEF s

\* Every step keeps headers as set.
LEMMA EStays ==
    ASSUME EInv, ENext \/ UNCHANGED evars
    PROVE  EInv'
<1>1. CASE \E s \in SetCommands : SetCommand(s)
  BY <1>1, EncapSet
<1>2. CASE parse_vc_action_vxlan_encap \/ parse_vc_action_nvgre_encap
  BY <1>2, VxlanFits, NvgreFits
<1>3. CASE parse_vc_action_l2_encap
  <2> DEFINE c == encap["l2_encap"]
             n == IF c.vlan THEN "vlan" ELSE Ip(c)
  <2>1. c \in Header
    BY DEF EInv, EType, ConfKinds
  <2>2. n \in LayerNameSet /\ Ip(c) \in LayerNameSet /\ c.common \in ConfValues \cup {0}
    BY <2>1 DEF LayerNameSet, Ip, Header
  <2> QED
    BY <1>3, <2>2, L2Fits DEF parse_vc_action_l2_encap
<1>4. CASE parse_vc_action_l2_decap
  <2> DEFINE n == IF encap["l2_decap"].vlan THEN "vlan" ELSE "any"
  <2>1. n \in LayerNameSet /\ "any" \in LayerNameSet
    BY DEF LayerNameSet
  <2> QED
    BY <1>4, <2>1, L2Fits DEF parse_vc_action_l2_decap
<1>5. CASE \/ parse_vc_action_mplsogre_encap \/ parse_vc_action_mplsoudp_encap
           \/ parse_vc_action_mplsogre_decap \/ parse_vc_action_mplsoudp_decap
  <2>1. "gre" \in LayerNameSet /\ "udp" \in LayerNameSet
    BY DEF LayerNameSet
  <2>2. \A k \in ConfKinds : encap[k].common \in ConfValues \cup {0}
    BY DEF EInv, EType, Header
  <2>3. CASE parse_vc_action_mplsogre_encap
    <3>1. Layer("gre", 0) \in HeaderLayers /\ Layer("gre", 0).layer = "gre" /\ Layer("gre", 0).announces = "any"
      BY <2>1, HeaderLayer
    <3> QED
      BY <2>3, <3>1, MplsOverFits DEF parse_vc_action_mplsogre_encap, Tunnels
  <2>4. CASE parse_vc_action_mplsogre_decap
    <3>1. Layer("gre", 0) \in HeaderLayers /\ Layer("gre", 0).layer = "gre" /\ Layer("gre", 0).announces = "any"
      BY <2>1, HeaderLayer
    <3> QED
      BY <2>4, <3>1, MplsOffFits DEF parse_vc_action_mplsogre_decap, TunnelEnds, Lender
  <2>5. CASE parse_vc_action_mplsoudp_encap
    <3> DEFINE v == encap["mplsoudp_encap"].common
    <3>1. v \in ConfValues \cup {0}
      BY <2>2 DEF ConfKinds, Tunnels
    <3>2. Layer("udp", v) \in HeaderLayers /\ Layer("udp", v).layer = "udp" /\ Layer("udp", v).v = v /\ Layer("udp", v).announces = "any"
      BY <2>1, <3>1, HeaderLayer
    <3> QED
      BY <2>5, <3>2, MplsOverFits DEF parse_vc_action_mplsoudp_encap, Tunnels
  <2>6. CASE parse_vc_action_mplsoudp_decap
    <3>1. Layer("udp", 0) \in HeaderLayers /\ Layer("udp", 0).layer = "udp" /\ Layer("udp", 0).announces = "any"
      BY <2>1, HeaderLayer
    <3> QED
      BY <2>6, <3>1, MplsOffFits DEF parse_vc_action_mplsoudp_decap, TunnelEnds, Lender
  <2> QED
    BY <1>5, <2>3, <2>4, <2>5, <2>6
<1>6. CASE UNCHANGED evars
  BY <1>6 DEF evars, EInv, EType, Commanded, HeaderAsSet, Agrees
<1> QED
  BY <1>1, <1>2, <1>3, <1>4, <1>5, <1>6 DEF ENext

\* A header has the layers that the last "set" of its own kind asks for, with its values
\* and each announcing the next, however many commands on other tunnels came between:
\* parse_vc_action_vxlan_encap() and the others write every field of what they build.
THEOREM HeadersAreAsSet == Spec => []HeaderAsSet
<1>1. Init => EInv
  BY EInitially DEF Init
<1>2. EInv /\ [Next]_vars => EInv'
  <2>1. [Next]_vars => ENext \/ UNCHANGED evars
    BY DEF Next, vars
  <2> QED
    BY <2>1, EStays
<1>3. EInv => HeaderAsSet
  BY DEF EInv
<1> QED
  BY <1>1, <1>2, <1>3, PTL DEF Spec

-----------------------------------------------------------------------------
(* Flow rules, shared actions and tunnels. *)

\* A list as config.c keeps it: its numbers descend, and no two entries have one serial number,
\* of those given out so far.
Numbered(list, next) ==
    /\ Descending(list)
    /\ \A i, j \in DOMAIN list : i # j => list[i].serial # list[j].serial
    /\ \A i \in DOMAIN list : list[i].serial < next

\* What Only() leaves of such a list is such a list.
LEMMA OnlyNumbered ==
    ASSUME NEW S, \A e \in S : e.id \in Nat /\ e.serial \in Nat,
           NEW list \in Seq(S), NEW next \in Nat, Numbered(list, next), NEW P \in SUBSET (DOMAIN list)
    PROVE  /\ Only(list, P) \in Seq(S)
           /\ Numbered(Only(list, P), next)
           /\ Ids(Only(list, P)) = {list[k].id : k \in P}
           /\ Serials(Only(list, P)) = {list[k].serial : k \in P}
<1> DEFINE o == Only(list, P)
<1>1. o \in Seq(S)
  BY OnlyThose
<1>2. PICK m \in [DOMAIN o -> P] :
         /\ \A i \in DOMAIN o : o[i] = list[m[i]]
         /\ \A i, j \in DOMAIN o : i < j => m[i] < m[j]
         /\ \A k \in P : \E i \in DOMAIN o : m[i] = k
  BY OnlyThose
<1> HIDE DEF o
<1>3. DOMAIN o \subseteq Nat /\ DOMAIN list \subseteq Nat /\ \A i \in DOMAIN o : m[i] \in DOMAIN list
  BY <1>1, <1>2
<1>4. \A i, j \in DOMAIN o : i # j => m[i] # m[j]
  <2> SUFFICES ASSUME NEW i \in DOMAIN o, NEW j \in DOMAIN o, i # j
               PROVE  m[i] # m[j]
    OBVIOUS
  <2>1. i < j \/ j < i
    BY <1>3
  <2>2. m[i] \in Nat /\ m[j] \in Nat /\ (m[i] < m[j] \/ m[j] < m[i])
    BY <1>2, <1>3, <2>1
  <2> QED
    BY <2>2
<1>5. Numbered(o, next)
  <2>1. Descending(o)
    BY <1>2, <1>3 DEF Numbered, Descending
  <2> QED
    BY <1>2, <1>3, <1>4, <2>1 DEF Numbered
<1>6. Ids(o) = {list[k].id : k \in P}
  BY <1>2 DEF Ids
<1>7. Serials(o) = {list[k].serial : k \in P}
  BY <1>2 DEF Serials
<1> QED
  BY <1>1, <1>5, <1>6, <1>7 DEF o

\* Destroying the entries with some numbers takes their serial numbers, and no others.
LEMMA DroppedNumbered ==
    ASSUME NEW S, \A e \in S : e.id \in Nat /\ e.serial \in Nat,
           NEW list \in Seq(S), NEW next \in Nat, Numbered(list, next), NEW ids
    PROVE  /\ Without(list, ids) \in Seq(S)
           /\ Numbered(Without(list, ids), next)
           /\ Serials(Without(list, ids)) = Serials(list) \ Serials(With(list, ids))
<1> DEFINE P == Places(list, ids)
           Q == DOMAIN list \ P
<1>1. P \in SUBSET (DOMAIN list) /\ Q \in SUBSET (DOMAIN list)
  BY DEF Places
<1>2. Without(list, ids) = Only(list, Q) /\ With(list, ids) = Only(list, P)
  BY DEF Without, With
<1> HIDE DEF P
<1>3. Serials(Only(list, P)) = {list[k].serial : k \in P}
  BY <1>1, OnlyNumbered
<1>q. PICK R \in SUBSET (DOMAIN list) : R = Q
  BY <1>1
<1>4. Only(list, R) \in Seq(S) /\ Numbered(Only(list, R), next) /\ Serials(Only(list, R)) = {list[k].serial : k \in R}
  BY OnlyNumbered
<1>5. {list[k].serial : k \in R} = {list[k].serial : k \in DOMAIN list} \ {list[k].serial : k \in P}
  BY <1>1, <1>q DEF Numbered
<1>6. Serials(list) = {list[k].serial : k \in DOMAIN list}
  BY DEF Serials
<1>7. Without(list, ids) = Only(list, R)
  BY <1>2, <1>q
<1> QED
  BY <1>2, <1>3, <1>4, <1>5, <1>6, <1>7

\* A list in front of another with smaller numbers
LEMMA JoinedNumbered ==
    ASSUME NEW S, \A e \in S : e.id \in Nat /\ e.serial \in Nat,
           NEW A \in Seq(S), NEW B \in Seq(S), NEW next \in Nat, Numbered(A, next), Numbered(B, next),
           \A i \in DOMAIN A, j \in DOMAIN B : A[i].id > B[j].id /\ A[i].serial # B[j].serial
    PROVE  /\ A \o B \in Seq(S)
           /\ Numbered(A \o B, next)
           /\ Ids(A \o B) = Ids(A) \cup Ids(B)
           /\ Serials(A \o B) = Serials(A) \cup Serials(B)
<1> DEFINE o == A \o B
<1>1. /\ o \in Seq(S) /\ Len(o) = Len(A) + Len(B)
      /\ \A i \in 1 .. Len(A) : o[i] = A[i]
      /\ \A i \in 1 .. Len(B) : o[Len(A) + i] = B[i]
  OBVIOUS
<1> HIDE DEF o
<1> DEFINE a == Len(A)
           b == Len(B)
<1>2. a \in Nat /\ b \in Nat /\ DOMAIN A = 1 .. a /\ DOMAIN B = 1 .. b /\ DOMAIN o = 1 .. a + b
  BY <1>1
<1>3. \A i \in DOMAIN o :
         \/ i \in DOMAIN A /\ o[i] = A[i]
         \/ i > a /\ i - a \in DOMAIN B /\ o[i] = B[i - a]
  <2> SUFFICES ASSUME NEW i \in DOMAIN o, i > a
               PROVE  i - a \in DOMAIN B /\ o[i] = B[i - a]
    <3>1. \A i \in DOMAIN o : i \in DOMAIN A \/ i > a
      BY <1>2
    <3> QED
      BY <1>1, <1>2, <3>1
  <2>1. i - a \in 1 .. b /\ a + (i - a) = i
    BY <1>2
  <2> QED
    BY <1>1, <1>2, <2>1
<1>4. \A i \in DOMAIN A : i \in DOMAIN o /\ o[i] = A[i]
  BY <1>1, <1>2
<1>5. \A i \in DOMAIN B : a + i \in DOMAIN o /\ o[a + i] = B[i]
  BY <1>1, <1>2
<1>6. \A i \in DOMAIN o : o[i].serial < next
  BY <1>3 DEF Numbered
<1>7. ASSUME NEW i \in DOMAIN o, NEW j \in DOMAIN o, i < j
      PROVE  o[i].id > o[j].id /\ o[i].serial # o[j].serial
  <2>1. CASE i \in DOMAIN A /\ o[i] = A[i] /\ j \in DOMAIN A /\ o[j] = A[j]
    BY <1>2, <1>7, <2>1 DEF Numbered, Descending
  <2>2. CASE i \in DOMAIN A /\ o[i] = A[i] /\ j - a \in DOMAIN B /\ o[j] = B[j - a]
    BY <2>2
  <2>3. CASE i > a /\ i - a \in DOMAIN B /\ o[i] = B[i - a] /\ j > a /\ j - a \in DOMAIN B /\ o[j] = B[j - a]
    <3>1. i - a < j - a /\ i - a # j - a
      BY <1>2, <1>7
    <3> QED
      BY <2>3, <3>1 DEF Numbered, Descending
  <2>4. ~(i > a /\ j \in DOMAIN A)
    BY <1>2, <1>7
  <2> QED
    BY <1>3, <2>1, <2>2, <2>3, <2>4
<1>8. \A i, j \in DOMAIN o : i # j => o[i].serial # o[j].serial
  <2> SUFFICES ASSUME NEW i \in DOMAIN o, NEW j \in DOMAIN o, i # j
               PROVE  o[i].serial # o[j].serial
    OBVIOUS
  <2>1. i < j \/ j < i
    BY <1>2
  <2> QED
    BY <1>7, <2>1
<1>9. Ids(o) = Ids(A) \cup Ids(B)
  <2>1. Ids(o) \subseteq Ids(A) \cup Ids(B)
    BY <1>3 DEF Ids
  <2>2. Ids(A) \subseteq Ids(o)
    BY <1>4 DEF Ids
  <2>3. Ids(B) \subseteq Ids(o)
    BY <1>5 DEF Ids
  <2> QED
    BY <2>1, <2>2, <2>3
<1>10. Serials(o) = Serials(A) \cup Serials(B)
  <2>1. Serials(o) \subseteq Serials(A) \cup Serials(B)
    BY <1>3 DEF Serials
  <2>2. Serials(A) \subseteq Serials(o)
    BY <1>4 DEF Serials
  <2>3. Serials(B) \subseteq Serials(o)
    BY <1>5 DEF Serials
  <2> QED
    BY <2>1, <2>2, <2>3
<1> QED
  BY <1>1, <1>6, <1>7, <1>8, <1>9, <1>10 DEF o, Numbered, Descending

\* A list of one entry
LEMMA OneNumbered ==
    ASSUME NEW S, NEW e \in S, NEW next \in Nat, e.serial = next
    PROVE  /\ <<e>> \in Seq(S)
           /\ Numbered(<<e>>, next + 1)
           /\ DOMAIN <<e>> = {1} /\ <<e>>[1] = e
           /\ Ids(<<e>>) = {e.id}
           /\ Serials(<<e>>) = {next}
<1> DEFINE o == <<e>>
<1>1. o \in Seq(S) /\ DOMAIN o = {1} /\ o[1] = e
  OBVIOUS
<1> HIDE DEF o
<1>2. Numbered(o, next + 1) /\ Ids(o) = {e.id} /\ Serials(o) = {next}
  BY <1>1 DEF Numbered, Descending, Ids, Serials
<1> QED
  BY <1>1, <1>2 DEF o

\* The entries of a list with one more in front
LEMMA InFront ==
    ASSUME NEW S, NEW e \in S, NEW list \in Seq(S)
    PROVE  \A i \in DOMAIN (<<e>> \o list) : (<<e>> \o list)[i] = e \/ \E j \in DOMAIN list : (<<e>> \o list)[i] = list[j]
<1> DEFINE o == <<e>>
           f == o \o list
<1>0. o \in Seq(S)
  OBVIOUS
<1>1. PICK p \in Seq(S) : p = o
  <2> HIDE DEF o
  <2> QED
    BY <1>0
<1>2. Len(p) = 1 /\ p[1] = e
  BY <1>1
<1>3. f = p \o list
  BY <1>1
<1> DEFINE g == p \o list
<1>4. /\ g \in Seq(S) /\ Len(g) = Len(p) + Len(list)
      /\ \A i \in 1 .. Len(p) : g[i] = p[i]
      /\ \A i \in 1 .. Len(list) : g[Len(p) + i] = list[i]
  OBVIOUS
<1> HIDE DEF o, f, g
<1>5. DOMAIN g = 1 .. 1 + Len(list) /\ Len(list) \in Nat /\ DOMAIN list = 1 .. Len(list)
  BY <1>2, <1>4
<1>6. g[1] = e /\ \A j \in 1 .. Len(list) : g[1 + j] = list[j]
  BY <1>2, <1>4
<1>7. \A i \in DOMAIN g : g[i] = e \/ \E j \in DOMAIN list : g[i] = list[j]
  <2> SUFFICES ASSUME NEW i \in DOMAIN g, i # 1
               PROVE  \E j \in DOMAIN list : g[i] = list[j]
    BY <1>6
  <2>1. i - 1 \in 1 .. Len(list) /\ 1 + (i - 1) = i
    BY <1>5
  <2> QED
    BY <1>5, <1>6, <2>1
<1> QED
  BY <1>3, <1>7 DEF f, o, g

\* A new rule goes in front, with the number after the highest.
LEMMA PushedNumbered ==
    ASSUME NEW S, \A e \in S : e.id \in Nat /\ e.serial \in Nat,
           NEW list \in Seq(S), NEW next \in Nat, Numbered(list, next),
           NEW e \in S, e.id = NextId(list, 0), e.serial = next
    PROVE  /\ <<e>> \o list \in Seq(S)
           /\ Numbered(<<e>> \o list, next + 1)
           /\ Serials(<<e>> \o list) = Serials(list) \cup {next}
<1> DEFINE o == <<e>>
<1>1. o \in Seq(S) /\ Numbered(o, next + 1) /\ DOMAIN o = {1} /\ o[1] = e /\ Serials(o) = {next}
  BY OneNumbered
<1>2. \A i \in DOMAIN list : list[i].id < e.id /\ list[i].serial < next
  <2> SUFFICES ASSUME NEW i \in DOMAIN list
               PROVE  list[i].id < e.id /\ list[i].serial < next
    OBVIOUS
  <2>1. list # <<>> /\ e.id = list[1].id + 1 /\ 1 \in DOMAIN list /\ list[1].id \in Nat /\ list[i].id \in Nat
    BY DEF NextId
  <2>2. i = 1 \/ list[1].id > list[i].id
    <3>1. i = 1 \/ 1 < i
      OBVIOUS
    <3> QED
      BY <2>1, <3>1 DEF Numbered, Descending
  <2> QED
    BY <2>1, <2>2 DEF Numbered
<1>3. \A i \in DOMAIN list : list[i].id \in Nat /\ list[i].serial \in Nat
  OBVIOUS
<1>4. Numbered(list, next + 1)
  BY <1>3 DEF Numbered
<1> HIDE DEF o
<1>5. \A i \in DOMAIN o, j \in DOMAIN list : o[i].id > list[j].id /\ o[i].serial # list[j].serial
  BY <1>1, <1>2, <1>3
<1>6. o \o list \in Seq(S) /\ Numbered(o \o list, next + 1) /\ Serials(o \o list) = Serials(o) \cup Serials(list)
  <2>1. next + 1 \in Nat
    OBVIOUS
  <2> DEFINE n == next + 1
  <2>2. n \in Nat /\ o \in Seq(S) /\ Numbered(o, n) /\ Numbered(list, n)
    BY <1>1, <1>4, <2>1
  <2> HIDE DEF n
  <2>3. o \o list \in Seq(S) /\ Numbered(o \o list, n) /\ Serials(o \o list) = Serials(o) \cup Serials(list)
    BY <1>5, <2>2, JoinedNumbered, SMTT(30)
  <2> QED
    BY <2>3 DEF n
<1> QED
  BY <1>1, <1>6 DEF o

\* A new shared action goes between those with higher and those with lower numbers.
LEMMA PlacedNumbered ==
    ASSUME NEW S, \A e \in S : e.id \in Nat /\ e.serial \in Nat,
           NEW list \in Seq(S), NEW next \in Nat, Numbered(list, next),
           NEW e \in S, e.id \notin Ids(list), e.serial = next
    PROVE  /\ Placed(list, e) \in Seq(S)
           /\ Numbered(Placed(list, e), next + 1)
           /\ Serials(Placed(list, e)) = Serials(list) \cup {next}
<1> DEFINE H == {k \in DOMAIN list : list[k].id > e.id}
           L == {k \in DOMAIN list : list[k].id < e.id}
           h == Only(list, H)
           l == Only(list, L)
           o == <<e>>
<1>1. o \in Seq(S) /\ Numbered(o, next + 1) /\ DOMAIN o = {1} /\ o[1] = e /\ Serials(o) = {next} /\ Ids(o) = {e.id}
  BY OneNumbered
<1>2. /\ h \in Seq(S) /\ Numbered(h, next)
      /\ Ids(h) = {list[k].id : k \in H} /\ Serials(h) = {list[k].serial : k \in H}
  BY OnlyNumbered
<1>3. /\ l \in Seq(S) /\ Numbered(l, next)
      /\ Ids(l) = {list[k].id : k \in L} /\ Serials(l) = {list[k].serial : k \in L}
  BY OnlyNumbered
<1>4. Placed(list, e) = (h \o o) \o l
  BY DEF Placed
<1>5. /\ \A k \in DOMAIN list : list[k].id \in Nat /\ list[k].serial \in Nat /\ list[k].serial < next
      /\ \A k \in DOMAIN list : k \in H \/ k \in L
      /\ \A k \in H, m \in L : list[k].serial # list[m].serial
  <2>1. \A k \in DOMAIN list : list[k].id \in Nat /\ list[k].serial \in Nat /\ list[k].serial < next /\ list[k].id # e.id
    BY DEF Ids, Numbered
  <2>2. \A k \in H, m \in L : k \in DOMAIN list /\ m \in DOMAIN list /\ k # m
    BY <2>1
  <2> QED
    BY <2>1, <2>2 DEF Numbered
<1>6. \A i \in Ids(h) : i \in Nat /\ i > e.id
  BY <1>2, <1>5
<1>7. \A i \in Ids(l) : i \in Nat /\ i < e.id
  BY <1>3, <1>5
<1>8. \A s \in Serials(h), t \in Serials(l) : s # t
  BY <1>2, <1>3, <1>5
<1>9. /\ Serials(h) \cup Serials(l) = Serials(list)
      /\ \A s \in Serials(list) : s \in Nat /\ s < next
  BY <1>2, <1>3, <1>5 DEF Serials
<1> HIDE DEF h, l, o, H, L
<1>10. /\ \A i \in DOMAIN h : h[i].id \in Ids(h) /\ h[i].serial \in Serials(h) /\ h[i].id \in Nat /\ h[i].serial \in Nat
       /\ \A i \in DOMAIN l : l[i].id \in Ids(l) /\ l[i].serial \in Serials(l) /\ l[i].id \in Nat /\ l[i].serial \in Nat
  BY <1>2, <1>3 DEF Ids, Serials
<1>11. Numbered(h, next + 1) /\ Numbered(l, next + 1) /\ next + 1 \in Nat
  BY <1>2, <1>3, <1>10 DEF Numbered
<1> DEFINE f == h \o o
<1>12. f \in Seq(S) /\ Numbered(f, next + 1) /\ Ids(f) = Ids(h) \cup Ids(o) /\ Serials(f) = Serials(h) \cup Serials(o)
  <2>1. \A i \in DOMAIN h, j \in DOMAIN o : h[i].id > o[j].id /\ h[i].serial # o[j].serial
    BY <1>1, <1>6, <1>9, <1>10
  <2> QED
    BY <1>1, <1>2, <1>11, <2>1, JoinedNumbered
<1> HIDE DEF f
<1>13. f \o l \in Seq(S) /\ Numbered(f \o l, next + 1) /\ Serials(f \o l) = Serials(f) \cup Serials(l)
  <2>1. \A j \in DOMAIN f : f[j].id \in Ids(f) /\ f[j].serial \in Serials(f)
    BY DEF Ids, Serials
  <2>2. \A j \in DOMAIN f, i \in DOMAIN l : f[j].id > l[i].id /\ f[j].serial # l[i].serial
    <3> SUFFICES ASSUME NEW j \in DOMAIN f, NEW i \in DOMAIN l
                 PROVE  f[j].id > l[i].id /\ f[j].serial # l[i].serial
      OBVIOUS
    <3>0. l[i].id < e.id /\ l[i].id \in Nat /\ l[i].serial < next /\ l[i].serial \in Serials(l) /\ e.id \in Nat
      BY <1>7, <1>9, <1>10
    <3>1. f[j].id = e.id \/ (f[j].id \in Nat /\ f[j].id > e.id)
      BY <1>1, <1>6, <1>12, <2>1
    <3>2. f[j].serial = next \/ f[j].serial \in Serials(h)
      BY <1>1, <1>12, <2>1
    <3>3. f[j].id > l[i].id
      BY <3>0, <3>1
    <3>4. f[j].serial # l[i].serial
      BY <1>8, <1>9, <3>0, <3>2
    <3> QED
      BY <3>3, <3>4
  <2> QED
    BY <1>3, <1>11, <1>12, <2>2, JoinedNumbered
<1>14. Placed(list, e) = f \o l
  BY <1>4 DEF f
<1> QED
  BY <1>1, <1>9, <1>12, <1>13, <1>14

\* What lists and tunnels hold
MadeRule == [group : Nat, priority : Nat, pattern : Patterns, acts : ActionLists]
ListedRule == [id : Nat, serial : Nat, asked : AskedRules, rule : MadeRule]
SharedAction == [id : Nat, serial : Nat]
Tunnel == [id : Nat, items : Patterns \cup {None}, actions : ActionLists \cup {None}]

FType ==
    /\ port_open \in BOOLEAN
    /\ flow_list \in Seq(ListedRule) /\ actions_list \in Seq(SharedAction) /\ tunnels \in Seq(Tunnel)
    /\ flow_device \in [flows : SUBSET Nat, actions : SUBSET Nat]
    /\ serial \in Nat

\* No tunnel holds items or actions of a line.
NothingLeft(ts) == \A k \in DOMAIN ts : ts[k].items = None /\ ts[k].actions = None

\* What every line keeps: a closed port has neither rules nor a device.
FInv ==
    /\ FType
    /\ Numbered(flow_list, serial) /\ Numbered(actions_list, serial)
    /\ RulesMatchDevice /\ ActionsMatchDevice
    /\ ~port_open => flow_list = <<>> /\ flow_device.flows = {} /\ flow_device.actions = {}
    /\ "tunnel" \notin mishaps => NothingLeft(tunnels)
    /\ RulesAreAsAsked

\* Without rules, actions and tunnels, nothing is left anywhere.
LEMMA FInitially == FInit => FInv
<1> SUFFICES ASSUME FInit
             PROVE  FInv
  OBVIOUS
<1>1. FType
  BY DEF FInit, FType
<1>2. Numbered(flow_list, serial) /\ Numbered(actions_list, serial)
  BY DEF FInit, Numbered, Descending
<1>3. RulesMatchDevice /\ ActionsMatchDevice /\ NothingLeft(tunnels) /\ RulesAreAsAsked
  BY DEF FInit, RulesMatchDevice, ActionsMatchDevice, Serials, NothingLeft, RulesAreAsAsked
<1> QED
  BY <1>1, <1>2, <1>3 DEF FInv, FInit

\* A tunnel that holds nothing gives the rule what the line gave the tunnel, and releases it.
LEMMA OneTunnel ==
    ASSUME NEW t \in Tunnel, NEW ops \in Ops, NEW refused
    PROVE  LET u == Prepared(t, ops, refused)
           IN  /\ u \in Tunnel /\ Released(u, ops) \in Tunnel
               /\ MadeOf(u, ops.rule) \in MadeRule
               /\ t.items = None /\ t.actions = None =>
                     /\ Released(u, ops).items = None /\ Released(u, ops).actions = None
                     /\ MadeOf(u, ops.rule) = ops.rule
<1> DEFINE u == Prepared(t, ops, refused)
           r == Released(u, ops)
<1>1. PICK rule \in AskedRules : rule = ops.rule
  BY DEF Ops
<1>2. /\ rule \in MadeRule /\ rule.pattern \in Patterns /\ rule.acts \in ActionLists
      /\ rule.group \in Nat /\ rule.priority \in Nat
      /\ rule = [group |-> rule.group, priority |-> rule.priority, pattern |-> rule.pattern, acts |-> rule.acts]
  BY RulesAssumption DEF MadeRule
<1>3. ops.actions \in BOOLEAN /\ ops.items \in BOOLEAN
  BY DEF Ops
<1>4. /\ u \in Tunnel
      /\ u.actions = IF ops.actions /\ refused # "decap_set" THEN rule.acts ELSE t.actions
      /\ u.items = IF ops.items /\ refused = None THEN rule.pattern ELSE t.items
  BY <1>1, <1>2 DEF Prepared, Tunnel
<1> HIDE DEF u
<1>5. /\ r \in Tunnel
      /\ r.actions = IF ops.actions THEN None ELSE u.actions
      /\ r.items = IF ops.items THEN None ELSE u.items
  BY <1>4 DEF Released, Tunnel
<1> DEFINE made == MadeOf(u, rule)
<1>6. /\ made = [group |-> rule.group, priority |-> rule.priority,
                 pattern |-> IF u.items # None THEN u.items ELSE rule.pattern,
                 acts |-> IF u.actions # None THEN u.actions ELSE rule.acts]
  BY DEF MadeOf
<1>7. made \in MadeRule
  BY <1>2, <1>4, <1>6 DEF MadeRule, Tunnel
<1>8. ASSUME t.items = None, t.actions = None
      PROVE  r.items = None /\ r.actions = None /\ made = rule
  <2>1. r.items = None /\ r.actions = None
    BY <1>3, <1>4, <1>5, <1>8
  <2>2. /\ (IF u.items # None THEN u.items ELSE rule.pattern) = rule.pattern
        /\ (IF u.actions # None THEN u.actions ELSE rule.acts) = rule.acts
    BY <1>4, <1>8
  <2> QED
    BY <1>2, <1>6, <2>1, <2>2
<1> QED
  BY <1>1, <1>4, <1>5, <1>7, <1>8 DEF u

\* What port_flow_tunnel_offload_cmd_prep() leaves
LEMMA Prep ==
    ASSUME FType, NEW ops \in Ops, NEW refused
    PROVE  LET prep == port_flow_tunnel_offload_cmd_prep(ops, refused)
           IN  /\ prep.tunnels \in Seq(Tunnel) /\ prep.released \in Seq(Tunnel)
               /\ prep.rule \in MadeRule
               /\ prep.ready \in BOOLEAN
               /\ NothingLeft(tunnels) => NothingLeft(prep.released) /\ prep.rule = ops.rule
<1> DEFINE prep == port_flow_tunnel_offload_cmd_prep(ops, refused)
           found == port_flow_locate_tunnel_id(ops.id)
           k == CHOOSE x \in found : TRUE
           t == Prepared(tunnels[k], ops, refused)
<1>1. ops.rule \in MadeRule
  BY RulesAssumption DEF Ops, MadeRule
<1>2. tunnels \in Seq(Tunnel)
  BY DEF FType
<1>3. CASE ~ops.actions /\ ~ops.items
  BY <1>1, <1>2, <1>3 DEF port_flow_tunnel_offload_cmd_prep
<1>4. CASE ~(~ops.actions /\ ~ops.items) /\ found = {}
  BY <1>1, <1>2, <1>4 DEF port_flow_tunnel_offload_cmd_prep
<1>5. CASE ~(~ops.actions /\ ~ops.items) /\ found # {}
  <2>1. k \in DOMAIN tunnels
    <3>1. k \in found
      BY <1>5
    <3> QED
      BY <3>1 DEF port_flow_locate_tunnel_id
  <2>2. prep = [tunnels |-> [tunnels EXCEPT ![k] = t], released |-> [tunnels EXCEPT ![k] = Released(t, ops)],
                rule |-> MadeOf(t, ops.rule), ready |-> refused = None]
    BY <1>5 DEF port_flow_tunnel_offload_cmd_prep
  <2> HIDE DEF k, found
  <2>3. tunnels[k] \in Tunnel
    BY <1>2, <2>1
  <2>4. /\ t \in Tunnel /\ Released(t, ops) \in Tunnel
        /\ MadeOf(t, ops.rule) \in MadeRule
        /\ tunnels[k].items = None /\ tunnels[k].actions = None =>
              /\ Released(t, ops).items = None /\ Released(t, ops).actions = None
              /\ MadeOf(t, ops.rule) = ops.rule
    BY <2>3, OneTunnel
  <2> DEFINE r == Released(t, ops)
             m == MadeOf(t, ops.rule)
  <2> HIDE DEF t, r, m
  <2>5. /\ prep.tunnels = [tunnels EXCEPT ![k] = t] /\ prep.released = [tunnels EXCEPT ![k] = r]
        /\ prep.rule = m /\ prep.ready = (refused = None)
    BY <2>2 DEF r, m
  <2>6. [tunnels EXCEPT ![k] = t] \in Seq(Tunnel) /\ [tunnels EXCEPT ![k] = r] \in Seq(Tunnel)
    BY <1>2, <2>1, <2>4 DEF r
  <2>7. ASSUME NothingLeft(tunnels)
        PROVE  NothingLeft([tunnels EXCEPT ![k] = r]) /\ m = ops.rule
    BY <1>2, <2>1, <2>4, <2>7 DEF NothingLeft, r, m
  <2> HIDE DEF prep
  <2>8. m \in MadeRule
    BY <2>4 DEF m
  <2> QED
    BY <2>5, <2>6, <2>7, <2>8 DEF prep
<1> QED
  BY <1>3, <1>4, <1>5

\* What is printed, what tunnels exist and how many lines there were leaves lists and device alone.
LEMMA ListsAlone ==
    ASSUME FInv, UNCHANGED <<port_open, flow_list, actions_list, flow_device, serial>>, mishaps \subseteq mishaps',
           tunnels' \in Seq(Tunnel), "tunnel" \notin mishaps' => NothingLeft(tunnels')
    PROVE  FInv'
<1>1. FType'
  BY DEF FInv, FType
<1> QED
  BY <1>1 DEF FInv, Numbered, RulesMatchDevice, ActionsMatchDevice, RulesAreAsAsked, NothingLeft

\* Rules that are taken off the list are those that the device gave up.
LEMMA RulesGone ==
    ASSUME FInv, port_open, NEW ids, flow_list' = Without(flow_list, ids),
           flow_device' = [flow_device EXCEPT !.flows = @ \ Serials(With(flow_list, ids))],
           UNCHANGED <<port_open, actions_list, tunnels, serial, mishaps>>
    PROVE  FInv'
<1>1. \A e \in ListedRule : e.id \in Nat /\ e.serial \in Nat
  BY DEF ListedRule
<1>2. /\ flow_list \in Seq(ListedRule) /\ serial \in Nat /\ Numbered(flow_list, serial)
      /\ flow_device \in [flows : SUBSET Nat, actions : SUBSET Nat]
  BY DEF FInv, FType
<1>3. /\ flow_list' \in Seq(ListedRule) /\ Numbered(flow_list', serial)
      /\ Serials(flow_list') = Serials(flow_list) \ Serials(With(flow_list, ids))
  BY <1>1, <1>2, DroppedNumbered
<1>4. /\ flow_device' \in [flows : SUBSET Nat, actions : SUBSET Nat]
      /\ flow_device'.flows = flow_device.flows \ Serials(With(flow_list, ids))
      /\ flow_device'.actions = flow_device.actions
  BY <1>2
<1>5. FType'
  BY <1>3, <1>4 DEF FInv, FType
<1>6. Numbered(flow_list', serial')
  BY <1>3
<1>7. RulesMatchDevice'
  BY <1>3, <1>4 DEF FInv, RulesMatchDevice
<1>8. RulesAreAsAsked'
  <2> DEFINE P == DOMAIN flow_list \ Places(flow_list, ids)
  <2>1. P \in SUBSET (DOMAIN flow_list) /\ flow_list' = Only(flow_list, P)
    BY DEF Without
  <2> HIDE DEF P
  <2>2. \A i \in DOMAIN Only(flow_list, P) : \E k \in P : Only(flow_list, P)[i] = flow_list[k]
    BY <1>2, <2>1, OnlySome
  <2>3. \A i \in DOMAIN flow_list' : \E k \in DOMAIN flow_list : flow_list'[i] = flow_list[k]
    BY <2>1, <2>2
  <2> QED
    BY <2>3 DEF FInv, RulesAreAsAsked
<1> QED
  BY <1>4, <1>5, <1>6, <1>7, <1>8 DEF FInv, ActionsMatchDevice, NothingLeft, Numbered

\* Rules that are forgotten are those that the device flushed, unless it failed to.
LEMMA RulesFlushed ==
    ASSUME FInv, port_open, NEW done \in BOOLEAN, port_flow_flush(done)
    PROVE  FInv'
<1>1. /\ flow_list' = <<>> /\ UNCHANGED <<port_open, actions_list, tunnels, serial>> /\ mishaps \subseteq mishaps'
      /\ flow_list # <<>> /\ ~done => "flush" \in mishaps'
  BY DEF port_flow_flush, Flushed
<1>2. flow_device \in [flows : SUBSET Nat, actions : SUBSET Nat]
  BY DEF FInv, FType
<1>3. /\ flow_device' \in [flows : SUBSET Nat, actions : SUBSET Nat]
      /\ flow_device'.flows = IF done /\ flow_list # <<>> THEN {} ELSE flow_device.flows
      /\ flow_device'.actions = flow_device.actions
  BY <1>2 DEF port_flow_flush
<1>4. FType'
  BY <1>1, <1>3 DEF FInv, FType
<1>5. Numbered(flow_list', serial') /\ RulesAreAsAsked' /\ Serials(<<>>) = {}
  BY <1>1 DEF Numbered, Descending, RulesAreAsAsked, Serials
<1>6. RulesMatchDevice'
  BY <1>1, <1>3, <1>5 DEF FInv, RulesMatchDevice
<1> QED
  BY <1>1, <1>3, <1>4, <1>5, <1>6 DEF FInv, ActionsMatchDevice, NothingLeft, Numbered

\* A rule is listed when the device has taken it, with the tunnel's part or without.
LEMMA RuleMade ==
    ASSUME FInv, NEW ops \in Ops, NEW refused \in Refusals(ops), NEW taken \in Answers,
           port_flow_create(ops, refused, taken)
    PROVE  FInv'
<1> DEFINE prep == port_flow_tunnel_offload_cmd_prep(ops, refused)
           pf == [id |-> NextId(flow_list, 0), serial |-> serial, asked |-> ops.rule, rule |-> prep.rule]
           made == prep.ready /\ taken /\ serial < MaxSerial
<1>1. /\ prep.tunnels \in Seq(Tunnel) /\ prep.released \in Seq(Tunnel) /\ prep.rule \in MadeRule
      /\ prep.ready \in BOOLEAN
      /\ NothingLeft(tunnels) => NothingLeft(prep.released) /\ prep.rule = ops.rule
  BY Prep DEF FInv
<1>2. /\ tunnels' = IF prep.ready THEN prep.released ELSE prep.tunnels
      /\ mishaps' = mishaps \cup LeftWithTunnel(prep, prep.ready)
      /\ UNCHANGED <<port_open, actions_list>>
  BY DEF port_flow_create
<1>3. IF made
        THEN /\ flow_list' = <<pf>> \o flow_list
             /\ flow_device' = [flow_device EXCEPT !.flows = @ \cup {serial}]
             /\ serial' = serial + 1
        ELSE UNCHANGED <<flow_list, flow_device, serial>>
  BY DEF port_flow_create
<1>4. pf.id = NextId(flow_list, 0) /\ pf.serial = serial /\ pf.asked = ops.rule /\ pf.rule = prep.rule
  OBVIOUS
<1>5. pf \in ListedRule
  <2>1. ops.rule \in AskedRules /\ serial \in Nat
    BY DEF FInv, FType, Ops
  <2>2. NextId(flow_list, 0) \in Nat
    <3>1. flow_list \in Seq(ListedRule)
      BY DEF FInv, FType
    <3>2. flow_list # <<>> => flow_list[1] \in ListedRule
      BY <3>1
    <3> QED
      BY <3>2 DEF NextId, ListedRule
  <2> HIDE DEF prep
  <2> QED
    BY <1>1, <2>1, <2>2 DEF ListedRule
<1>6. "tunnel" \notin mishaps' => "tunnel" \notin mishaps /\ (prep.ready \/ prep.tunnels = tunnels)
  BY <1>2 DEF LeftWithTunnel
<1>7. mishaps \subseteq mishaps'
  BY <1>2
<1> HIDE DEF prep, pf
<1>8. tunnels' \in Seq(Tunnel) /\ ("tunnel" \notin mishaps' => NothingLeft(tunnels'))
  BY <1>1, <1>2, <1>6 DEF FInv
<1>9. CASE ~made
  BY <1>2, <1>3, <1>7, <1>8, <1>9, ListsAlone
<1>10. CASE made
  <2>1. port_open
    BY <1>10 DEF Answers
  <2>2. \A e \in ListedRule : e.id \in Nat /\ e.serial \in Nat
    BY DEF ListedRule
  <2>3. /\ flow_list \in Seq(ListedRule) /\ serial \in Nat /\ Numbered(flow_list, serial)
        /\ flow_device \in [flows : SUBSET Nat, actions : SUBSET Nat]
    BY DEF FInv, FType
  <2>4. /\ flow_list' \in Seq(ListedRule) /\ Numbered(flow_list', serial + 1)
        /\ Serials(flow_list') = Serials(flow_list) \cup {serial}
    <3>1. /\ <<pf>> \o flow_list \in Seq(ListedRule)
          /\ Numbered(<<pf>> \o flow_list, serial + 1)
          /\ Serials(<<pf>> \o flow_list) = Serials(flow_list) \cup {serial}
      BY <1>4, <1>5, <2>2, <2>3, PushedNumbered
    <3> QED
      BY <1>3, <1>10, <3>1
  <2>5. /\ flow_device' \in [flows : SUBSET Nat, actions : SUBSET Nat]
        /\ flow_device'.flows = flow_device.flows \cup {serial}
        /\ flow_device'.actions = flow_device.actions
    BY <1>3, <1>10, <2>3
  <2>6. serial' = serial + 1 /\ serial' \in Nat
    BY <1>3, <1>10, <2>3
  <2>7. FType'
    BY <1>2, <1>8, <2>4, <2>5, <2>6 DEF FInv, FType
  <2>8. Numbered(actions_list, serial + 1)
    <3>1. \A i \in DOMAIN actions_list : actions_list[i].serial \in Nat
      <4>1. actions_list \in Seq(SharedAction)
        BY DEF FInv, FType
      <4>2. \A i \in DOMAIN actions_list : actions_list[i] \in SharedAction
        BY <4>1
      <4> QED
        BY <4>2 DEF SharedAction
    <3> QED
      BY <2>3, <3>1 DEF FInv, Numbered
  <2>9. RulesMatchDevice' /\ ActionsMatchDevice'
    BY <1>2, <1>7, <2>4, <2>5 DEF FInv, RulesMatchDevice, ActionsMatchDevice
  <2>10. RulesAreAsAsked'
    <3> SUFFICES ASSUME "tunnel" \notin mishaps', NEW k \in DOMAIN flow_list'
                 PROVE  flow_list'[k].rule = flow_list'[k].asked
      BY DEF RulesAreAsAsked
    <3>1. \A i \in DOMAIN (<<pf>> \o flow_list) :
            (<<pf>> \o flow_list)[i] = pf \/ \E j \in DOMAIN flow_list : (<<pf>> \o flow_list)[i] = flow_list[j]
      BY <1>5, <2>3, InFront
    <3>3. flow_list'[k] = pf \/ \E j \in DOMAIN flow_list : flow_list'[k] = flow_list[j]
      BY <1>3, <1>10, <3>1
    <3>4. pf.rule = pf.asked
      BY <1>1, <1>4, <1>6 DEF FInv
    <3> QED
      BY <1>6, <3>3, <3>4 DEF FInv, RulesAreAsAsked
  <2> QED
    BY <1>2, <1>8, <2>1, <2>4, <2>6, <2>7, <2>8, <2>9, <2>10 DEF FInv, NothingLeft, Numbered
<1> QED
  BY <1>9, <1>10

\* Validating a rule lists nothing; what a valid one gave the tunnel is released.
LEMMA RuleValidated ==
    ASSUME FInv, NEW ops \in Ops, NEW refused \in Refusals(ops), NEW valid \in Answers,
           port_flow_validate(ops, refused, valid)
    PROVE  FInv'
<1> DEFINE prep == port_flow_tunnel_offload_cmd_prep(ops, refused)
<1>1. /\ prep.tunnels \in Seq(Tunnel) /\ prep.released \in Seq(Tunnel)
      /\ prep.ready \in BOOLEAN
      /\ NothingLeft(tunnels) => NothingLeft(prep.released)
  BY Prep DEF FInv
<1>2. /\ tunnels' = IF prep.ready /\ valid THEN prep.released ELSE prep.tunnels
      /\ mishaps' = mishaps \cup LeftWithTunnel(prep, prep.ready /\ valid)
      /\ UNCHANGED <<port_open, flow_list, actions_list, flow_device, serial>>
  BY DEF port_flow_validate
<1>3. "tunnel" \notin mishaps' => "tunnel" \notin mishaps /\ ((prep.ready /\ valid) \/ prep.tunnels = tunnels)
  BY <1>2 DEF LeftWithTunnel
<1> HIDE DEF prep
<1>4. tunnels' \in Seq(Tunnel) /\ ("tunnel" \notin mishaps' => NothingLeft(tunnels'))
  BY <1>1, <1>2, <1>3 DEF FInv
<1>5. mishaps \subseteq mishaps'
  BY <1>2
<1> QED
  BY <1>2, <1>4, <1>5, ListsAlone

\* Creating a tunnel gives it nothing, and destroying one takes what it had.
LEMMA TunnelsStay ==
    ASSUME FInv, port_flow_tunnel_create \/ \E id \in 1 .. 2 : port_flow_tunnel_destroy(id)
    PROVE  FInv'
<1>1. UNCHANGED <<port_open, flow_list, actions_list, flow_device, serial, mishaps>>
  BY DEF port_flow_tunnel_create, port_flow_tunnel_destroy
<1>2. tunnels \in Seq(Tunnel)
  BY DEF FInv, FType
<1>3. CASE port_flow_tunnel_create
  <2>1. CASE tunnels # <<>>
    BY <1>1, <1>2, <1>3, <2>1, ListsAlone DEF port_flow_tunnel_create, FInv
  <2>2. CASE tunnels = <<>>
    <3> DEFINE t == [id |-> 1, items |-> None, actions |-> None]
               ts == <<t>>
    <3>1. t \in Tunnel /\ t.items = None /\ t.actions = None
      BY DEF Tunnel
    <3>2. tunnels' = ts
      BY <1>3, <2>2 DEF port_flow_tunnel_create, NextId
    <3> HIDE DEF t
    <3>3. ts \in Seq(Tunnel) /\ DOMAIN ts = {1} /\ ts[1] = t
      BY <3>1
    <3> HIDE DEF ts
    <3>4. tunnels' \in Seq(Tunnel) /\ NothingLeft(tunnels')
      BY <3>1, <3>2, <3>3 DEF NothingLeft
    <3> QED
      BY <1>1, <3>4, ListsAlone
  <2> QED
    BY <2>1, <2>2
<1>4. ASSUME NEW id \in 1 .. 2, port_flow_tunnel_destroy(id)
      PROVE  FInv'
  <2> DEFINE P == DOMAIN tunnels \ Places(tunnels, {id})
  <2>1. P \in SUBSET (DOMAIN tunnels) /\ tunnels' = Only(tunnels, P)
    BY <1>4 DEF port_flow_tunnel_destroy, Without
  <2> HIDE DEF P
  <2>2. Only(tunnels, P) \in Seq(Tunnel)
    BY <1>2, <2>1, OnlyThose
  <2>3. \A i \in DOMAIN Only(tunnels, P) : \E k \in P : Only(tunnels, P)[i] = tunnels[k]
    BY <1>2, <2>1, OnlySome
  <2>4. NothingLeft(tunnels) => NothingLeft(tunnels')
    BY <2>1, <2>3 DEF NothingLeft
  <2>5. tunnels' \in Seq(Tunnel) /\ ("tunnel" \notin mishaps' => NothingLeft(tunnels'))
    BY <1>1, <2>1, <2>2, <2>4 DEF FInv
  <2> QED
    BY <1>1, <2>5, ListsAlone
<1> QED
  BY <1>3, <1>4

\* A shared action is listed when the device has taken it.
LEMMA ActionMade ==
    ASSUME FInv, NEW id \in RuleIds \cup {AnyId}, NEW taken \in BOOLEAN, port_shared_action_create(id, taken)
    PROVE  FInv'
<1> DEFINE n == action_alloc(id)
           psa == [id |-> n, serial |-> serial]
           made == n \notin Ids(actions_list) /\ taken /\ serial < MaxSerial
<1>1. /\ port_open /\ UNCHANGED <<port_open, flow_list, tunnels, mishaps>>
      /\ IF made
           THEN /\ actions_list' = Placed(actions_list, psa)
                /\ flow_device' = [flow_device EXCEPT !.actions = @ \cup {serial}]
                /\ serial' = serial + 1
           ELSE UNCHANGED <<actions_list, flow_device, serial>>
  BY DEF port_shared_action_create
<1>2. /\ actions_list \in Seq(SharedAction) /\ serial \in Nat /\ Numbered(actions_list, serial)
      /\ flow_device \in [flows : SUBSET Nat, actions : SUBSET Nat]
  BY DEF FInv, FType
<1>3. n \in Nat
  <2>1. actions_list # <<>> => actions_list[1] \in SharedAction
    BY <1>2
  <2>2. id = AnyId \/ id \in Nat
    BY RulesAssumption DEF RuleIds
  <2> QED
    BY <2>1, <2>2 DEF action_alloc, NextId, SharedAction
<1>4. psa \in SharedAction /\ psa.id = n /\ psa.serial = serial
  BY <1>2, <1>3 DEF SharedAction
<1> HIDE DEF n, psa
<1>5. CASE ~made
  BY <1>1, <1>5, ListsAlone DEF FInv, FType
<1>6. CASE made
  <2>1. \A e \in SharedAction : e.id \in Nat /\ e.serial \in Nat
    BY DEF SharedAction
  <2>2. /\ actions_list' \in Seq(SharedAction) /\ Numbered(actions_list', serial + 1)
        /\ Serials(actions_list') = Serials(actions_list) \cup {serial}
    BY <1>1, <1>2, <1>4, <1>6, <2>1, PlacedNumbered
  <2>3. /\ flow_device' \in [flows : SUBSET Nat, actions : SUBSET Nat]
        /\ flow_device'.actions = flow_device.actions \cup {serial}
        /\ flow_device'.flows = flow_device.flows
    BY <1>1, <1>2, <1>6
  <2>4. serial' = serial + 1 /\ serial' \in Nat
    BY <1>1, <1>2, <1>6
  <2>5. FType'
    BY <1>1, <2>2, <2>3, <2>4 DEF FInv, FType
  <2>6. Numbered(flow_list, serial + 1)
    <3>1. flow_list \in Seq(ListedRule)
      BY DEF FInv, FType
    <3>2. \A i \in DOMAIN flow_list : flow_list[i] \in ListedRule
      BY <3>1
    <3>3. \A i \in DOMAIN flow_list : flow_list[i].serial \in Nat
      BY <3>2 DEF ListedRule
    <3> QED
      BY <1>2, <3>3 DEF FInv, Numbered
  <2>7. RulesMatchDevice' /\ ActionsMatchDevice' /\ RulesAreAsAsked'
    BY <1>1, <2>2, <2>3 DEF FInv, RulesMatchDevice, ActionsMatchDevice, RulesAreAsAsked
  <2>8. Numbered(flow_list', serial') /\ Numbered(actions_list', serial')
    BY <1>1, <2>2, <2>4, <2>6 DEF Numbered
  <2> QED
    BY <1>1, <2>5, <2>7, <2>8 DEF FInv, NothingLeft
<1> QED
  BY <1>5, <1>6

\* Shared actions that are taken off the list are those that the device gave up.
LEMMA ActionsGone ==
    ASSUME FInv, NEW ids, NEW kept, port_shared_action_destroy(ids, kept)
    PROVE  FInv'
<1> DEFINE gone == (ids \cap Ids(actions_list)) \ kept
<1>1. /\ port_open /\ actions_list' = Without(actions_list, gone)
      /\ flow_device' = [flow_device EXCEPT !.actions = @ \ Serials(With(actions_list, gone))]
      /\ UNCHANGED <<port_open, flow_list, tunnels, serial, mishaps>>
  BY DEF port_shared_action_destroy
<1> HIDE DEF gone
<1>2. /\ actions_list \in Seq(SharedAction) /\ serial \in Nat /\ Numbered(actions_list, serial)
      /\ flow_device \in [flows : SUBSET Nat, actions : SUBSET Nat]
  BY DEF FInv, FType
<1>3. \A e \in SharedAction : e.id \in Nat /\ e.serial \in Nat
  BY DEF SharedAction
<1>4. /\ actions_list' \in Seq(SharedAction) /\ Numbered(actions_list', serial)
      /\ Serials(actions_list') = Serials(actions_list) \ Serials(With(actions_list, gone))
  BY <1>1, <1>2, <1>3, DroppedNumbered
<1>5. /\ flow_device' \in [flows : SUBSET Nat, actions : SUBSET Nat]
      /\ flow_device'.actions = flow_device.actions \ Serials(With(actions_list, gone))
      /\ flow_device'.flows = flow_device.flows
  BY <1>1, <1>2
<1>6. FType'
  BY <1>1, <1>4, <1>5 DEF FInv, FType
<1>7. RulesMatchDevice' /\ ActionsMatchDevice' /\ RulesAreAsAsked'
  BY <1>1, <1>4, <1>5 DEF FInv, RulesMatchDevice, ActionsMatchDevice, RulesAreAsAsked
<1> QED
  BY <1>1, <1>4, <1>6, <1>7 DEF FInv, NothingLeft, Numbered

\* Closing the port flushes its rules, and its device is gone; what is attached has nothing.
LEMMA ClosedAndAttached ==
    ASSUME FInv, close_port_rules(TRUE) \/ attach_port_rules
    PROVE  FInv'
<1>1. CASE close_port_rules(TRUE)
  <2>1. /\ flow_list' = <<>> /\ port_open' = FALSE /\ flow_device' = [flows |-> {}, actions |-> {}]
        /\ UNCHANGED <<actions_list, tunnels, serial, mishaps>>
    BY <1>1 DEF close_port_rules, Flushed
  <2>2. FType'
    <3>1. [flows |-> {}, actions |-> {}] \in [flows : SUBSET Nat, actions : SUBSET Nat] /\ <<>> \in Seq(ListedRule)
      OBVIOUS
    <3> QED
      BY <2>1, <3>1 DEF FInv, FType
  <2>3. Numbered(flow_list', serial') /\ RulesAreAsAsked'
    BY <2>1 DEF Numbered, Descending, RulesAreAsAsked
  <2> QED
    BY <2>1, <2>2, <2>3 DEF FInv, RulesMatchDevice, ActionsMatchDevice, NothingLeft, Numbered
<1>2. CASE attach_port_rules
  <2>1. /\ ~port_open /\ port_open' = TRUE /\ mishaps \subseteq mishaps'
        /\ actions_list # <<>> => "attached" \in mishaps'
        /\ UNCHANGED <<flow_list, actions_list, tunnels, flow_device, serial>>
    BY <1>2 DEF attach_port_rules
  <2>2. Serials(<<>>) = {}
    BY DEF Serials
  <2>3. FType' /\ RulesMatchDevice' /\ ActionsMatchDevice'
    BY <2>1, <2>2 DEF FInv, FType, RulesMatchDevice, ActionsMatchDevice
  <2> QED
    BY <2>1, <2>3 DEF FInv, NothingLeft, Numbered, RulesAreAsAsked
<1> QED
  BY <1>1, <1>2

\* Every line, closing and attaching keep lists, device and tunnels in step.
LEMMA FStays == ASSUME FInv, FNext \/ UNCHANGED fvars PROVE FInv'
<1>1. ASSUME UNCHANGED <<port_open, flow_list, actions_list, tunnels, flow_device, serial, mishaps>>
      PROVE  FInv'
  BY <1>1, ListsAlone DEF FInv, FType
<1>2. ASSUME FLine
      PROVE  FInv'
  <2>1. ASSUME NEW ids \in SUBSET Ids(flow_list), NEW kept \in SUBSET ids, port_flow_destroy(ids, kept)
        PROVE  FInv'
    BY <2>1, RulesGone DEF port_flow_destroy
  <2>2. ASSUME NEW aged \in SUBSET flow_device.flows, NEW destroy \in BOOLEAN, port_flow_aged(aged, destroy, {})
        PROVE  FInv'
    BY <2>2, RulesGone DEF port_flow_aged
  <2>3. ASSUME NEW done \in BOOLEAN, port_flow_flush(done)
        PROVE  FInv'
    BY <2>3, RulesFlushed DEF port_flow_flush
  <2>4. ASSUME NEW id \in RuleIds, port_flow_query(id) \/ port_shared_action_get_by_id(id)
        PROVE  FInv'
    BY <1>1, <2>4 DEF port_flow_query, port_shared_action_get_by_id
  <2>5. ASSUME NEW groups \in SUBSET Groups, port_flow_list(groups)
        PROVE  FInv'
    BY <1>1, <2>5 DEF port_flow_list
  <2>6. ASSUME NEW ops \in Ops, NEW refused \in Refusals(ops), NEW ok \in Answers,
               port_flow_validate(ops, refused, ok) \/ port_flow_create(ops, refused, ok)
        PROVE  FInv'
    BY <2>6, RuleValidated, RuleMade
  <2> QED
    BY <1>2, <2>1, <2>2, <2>3, <2>4, <2>5, <2>6, TunnelsStay, ActionMade, ActionsGone DEF FLine
<1>3. CASE UNCHANGED fvars
  BY <1>1, <1>3 DEF fvars
<1> QED
  BY <1>2, <1>3, ClosedAndAttached DEF FNext, cmd_flow_parsed

\* The rules and shared actions that config.c lists are those of the device, numbered downwards,
\* whatever the device refuses, keeps or ages out and however often the port is closed: but when
\* a flush failed, and when shared actions outlived the port.
THEOREM ListsAreAsTheDevice == Spec => []ListsMatchDevice
<1>1. Init => FInv
  BY FInitially DEF Init
<1>2. FInv /\ [Next]_vars => FInv'
  <2>1. [Next]_vars => FNext \/ UNCHANGED fvars
    BY DEF Next, vars
  <2> QED
    BY <2>1, FStays
<1>3. FInv => ListsMatchDevice
  BY DEF FInv, ListsMatchDevice, IdsDescend, Numbered
<1> QED
  BY <1>1, <1>2, <1>3, PTL DEF Spec

\* port_flow_create() makes a rule of the pattern and actions of its own line, whatever lines
\* put into tunnels before, unless one of them failed after that.
THEOREM RulesAreMadeAsAsked == Spec => []RulesAreAsAsked
<1>1. Init => FInv
  BY FInitially DEF Init
<1>2. FInv /\ [Next]_vars => FInv'
  <2>1. [Next]_vars => FNext \/ UNCHANGED fvars
    BY DEF Next, vars
  <2> QED
    BY <2>1, FStays
<1>3. FInv => RulesAreAsAsked
  BY DEF FInv
<1> QED
  BY <1>1, <1>2, <1>3, PTL DEF Spec

-----------------------------------------------------------------------------
(* Listing rules in order. *)

\* A finite set of numbers that has an element has a highest one.
LEMMA HighestIn ==
    ASSUME NEW s, IsFiniteSet(s), \A x \in s : x \in Nat, s # {}
    PROVE  Max(s) \in s /\ \A y \in s : Max(s) >= y
<1> DEFINE Above(k) == {y \in s : y > k}
           Bad == {T \in SUBSET s : \E k \in s : T = Above(k)}
<1>2. Bad # {} /\ Bad \subseteq SUBSET s
  <2>1. PICK k \in s : TRUE
    OBVIOUS
  <2>2. Above(k) \in Bad
    OBVIOUS
  <2> QED
    BY <2>2
<1>3. PICK T \in Bad : \A U \in Bad : U \subseteq T => U = T
  <2>1. Bad \subseteq SUBSET s /\ Bad # {}
    BY <1>2
  <2> HIDE DEF Bad
  <2> QED
    BY <2>1, SmallestSet
<1>4. PICK k \in s : T = Above(k)
  BY <1>3
<1>5. \A y \in s : ~(y > k)
  <2> SUFFICES ASSUME NEW y \in s, y > k
               PROVE  FALSE
    OBVIOUS
  <2>1. Above(y) \subseteq T /\ y \in T /\ y \notin Above(y)
    BY <1>4
  <2>2. Above(y) \in Bad
    OBVIOUS
  <2> QED
    BY <1>3, <2>1, <2>2
<1>6. k \in s /\ \A y \in s : k >= y
  BY <1>5
<1> HIDE DEF Bad
<1> QED
  BY <1>6 DEF Max

\* Of the places where a rule may stop, the first
LEMMA FirstOf ==
    ASSUME NEW s, IsFiniteSet(s), \A x \in s : x \in Nat, s # {}
    PROVE  \E k \in s : \A y \in s : k <= y
<1> DEFINE Below(k) == {y \in s : y < k}
           Bad == {T \in SUBSET s : \E k \in s : T = Below(k)}
<1>2. Bad # {} /\ Bad \subseteq SUBSET s
  <2>1. PICK k \in s : TRUE
    OBVIOUS
  <2>2. Below(k) \in Bad
    OBVIOUS
  <2> QED
    BY <2>2
<1>3. PICK T \in Bad : \A U \in Bad : U \subseteq T => U = T
  <2>1. Bad \subseteq SUBSET s /\ Bad # {}
    BY <1>2
  <2> HIDE DEF Bad
  <2> QED
    BY <2>1, SmallestSet
<1>4. PICK k \in s : T = Below(k)
  BY <1>3
<1>5. \A y \in s : ~(y < k)
  <2> SUFFICES ASSUME NEW y \in s, y < k
               PROVE  FALSE
    OBVIOUS
  <2>1. Below(y) \subseteq T /\ y \in T /\ y \notin Below(y)
    BY <1>4
  <2>2. Below(y) \in Bad
    OBVIOUS
  <2> QED
    BY <1>3, <2>1, <2>2
<1> QED
  BY <1>5

\* What config.c keeps of a rule, as far as it orders rules
Orderable(S) == \A e \in S : e.id \in Nat /\ e.asked.group \in Nat /\ e.asked.priority \in Nat

\* Each rule comes after the ones before it.
Ranked(list) == \A i, j \in DOMAIN list : i < j => Past(list[j], list[i])

LEMMA PastOrders ==
    ASSUME NEW S, Orderable(S), NEW a \in S, NEW b \in S, NEW c \in S
    PROVE  /\ a.id # b.id => Past(a, b) \/ Past(b, a)
           /\ Past(a, b) /\ Past(b, c) => Past(a, c)
BY DEF Past, Orderable

\* A list with one more entry in its middle
LEMMA InsertAtPlaces ==
    ASSUME NEW S, NEW list \in Seq(S), NEW r \in S, NEW at \in 1 .. Len(list) + 1
    PROVE  /\ InsertAt(list, at, r) \in Seq(S)
           /\ Len(InsertAt(list, at, r)) = Len(list) + 1
           /\ \A i \in 1 .. Len(list) + 1 :
                 InsertAt(list, at, r)[i] = IF i < at THEN list[i] ELSE IF i = at THEN r ELSE list[i - 1]
<1> DEFINE f == SubSeq(list, 1, at - 1)
           l == SubSeq(list, at, Len(list))
<1>1. Len(list) \in Nat /\ at \in Nat
  OBVIOUS
<1>2. f \in Seq(S) /\ Len(f) = at - 1 /\ \A i \in 1 .. at - 1 : f[i] = list[i]
  OBVIOUS
<1>3. l \in Seq(S) /\ Len(l) = Len(list) - at + 1 /\ \A i \in 1 .. Len(list) - at + 1 : l[i] = list[at + i - 1]
  <2>1. CASE at = Len(list) + 1
    BY <2>1
  <2>2. CASE at <= Len(list)
    BY <2>2
  <2> QED
    BY <1>1, <2>1, <2>2
<1> HIDE DEF f, l
<1>4. InsertAt(list, at, r) = f \o <<r>> \o l
  BY DEF InsertAt, f, l
<1> DEFINE g == f \o <<r>>
<1>5. g \in Seq(S) /\ Len(g) = at /\ \A i \in 1 .. at : g[i] = IF i < at THEN list[i] ELSE r
  BY <1>1, <1>2
<1> HIDE DEF g
<1>6. (g \o l) \in Seq(S) /\ Len(g \o l) = Len(list) + 1
  <2>0. g \in Seq(S) /\ l \in Seq(S)
    BY <1>3, <1>5
  <2>1. (g \o l) \in Seq(S)
    BY ONLY <2>0
  <2>2. Len(g \o l) = Len(g) + Len(l)
    BY ONLY <2>0
  <2> QED
    BY <1>1, <1>3, <1>5, <2>1, <2>2
<1>7. ASSUME NEW i \in 1 .. Len(list) + 1
      PROVE  (g \o l)[i] = IF i < at THEN list[i] ELSE IF i = at THEN r ELSE list[i - 1]
  <2>0. i \in Nat /\ (i <= at \/ i > at)
    BY <1>1
  <2>1. CASE i <= at
    BY <1>1, <1>3, <1>5, <2>1
  <2>2. CASE i > at
    <3>1. i - at \in 1 .. Len(list) - at + 1 /\ at + (i - at) - 1 = i - 1
      BY <1>1, <2>2
    <3>2. (g \o l)[i] = l[i - at]
      BY <1>1, <1>3, <1>5, <2>2
    <3> QED
      BY <1>1, <1>3, <2>2, <3>1, <3>2
  <2> QED
    BY <2>0, <2>1, <2>2
<1> QED
  BY <1>4, <1>6, <1>7 DEF g

NewTo(list, r) == \A i \in DOMAIN list : list[i].id # r.id

\* A rule inserted where the list keeps its order
LEMMA InsertedRanked ==
    ASSUME NEW S, Orderable(S), NEW list \in Seq(S), NEW r \in S, Ranked(list), NewTo(list, r)
    PROVE  /\ Inserted(list, r) \in Seq(S)
           /\ Ranked(Inserted(list, r))
           /\ Range(Inserted(list, r)) = Range(list) \cup {r}
<1> DEFINE n == Len(list)
           Ok(k) == /\ \A j \in 1 .. k - 1 : Past(r, list[j])
                    /\ k <= n => ~Past(r, list[k])
           at == CHOOSE k \in 1 .. n + 1 : Ok(k)
           Stops == {k \in 1 .. n + 1 : k <= n => ~Past(r, list[k])}
<1>1. n \in Nat /\ DOMAIN list = 1 .. n /\ \A i \in 1 .. n : list[i] \in S
  OBVIOUS
<1>2. at \in 1 .. n + 1 /\ Ok(at)
  <2>1. n + 1 \in Stops /\ (\A x \in Stops : x \in Nat) /\ IsFiniteSet(Stops)
    <3>1. IsFiniteSet(1 .. n + 1)
      <4>1. 1 \in Int /\ n + 1 \in Int
        BY <1>1
      <4> QED
        BY ONLY <4>1, FS_Interval
    <3>2. Stops \subseteq 1 .. n + 1
      OBVIOUS
    <3>3. IsFiniteSet(Stops)
      <4> HIDE DEF Stops
      <4> QED
        BY <3>1, <3>2, FS_Subset
    <3>4. n + 1 \in Stops /\ (\A x \in Stops : x \in Nat)
      BY <1>1
    <3> QED
      BY <3>3, <3>4
  <2>2. PICK k \in Stops : \A y \in Stops : k <= y
    <3> HIDE DEF Stops, n
    <3> QED
      BY <2>1, FirstOf
  <2>3. \A j \in 1 .. k - 1 : j \notin Stops /\ j \in 1 .. n /\ j <= n
    BY <1>1, <2>2
  <2>4. k \in 1 .. n + 1 /\ Ok(k)
    <3>1. \A j \in 1 .. k - 1 : Past(r, list[j])
      BY <2>3
    <3> QED
      BY <2>2, <3>1
  <2> HIDE DEF Ok, n
  <2> QED
    BY <2>4
<1>3. Inserted(list, r) = InsertAt(list, at, r)
  BY DEF Inserted
<1>4. at \in Nat /\ (\A j \in 1 .. at - 1 : Past(r, list[j])) /\ (at <= n => ~Past(r, list[at]))
  BY <1>1, <1>2
<1> HIDE DEF at, Ok
<1> DEFINE o == InsertAt(list, at, r)
<1>5. /\ o \in Seq(S) /\ Len(o) = n + 1
      /\ \A i \in 1 .. n + 1 : o[i] = IF i < at THEN list[i] ELSE IF i = at THEN r ELSE list[i - 1]
  BY <1>2, InsertAtPlaces
<1> HIDE DEF o, n
<1>6. DOMAIN o = 1 .. n + 1
  BY <1>1, <1>5
<1>7. \A j \in 1 .. n : j < at => Past(r, list[j])
  BY <1>1, <1>4
<1>8. ASSUME NEW j \in 1 .. n, at <= j
      PROVE  Past(list[j], r)
  <2>1. at \in 1 .. n /\ list[at] \in S /\ list[at].id # r.id /\ list[j] \in S
    BY <1>1, <1>2, <1>4, <1>8 DEF NewTo
  <2>2. Past(list[at], r)
    BY <1>4, <1>8, <2>1, PastOrders, <1>1
  <2>3. CASE j = at
    BY <2>2, <2>3
  <2>4. CASE j # at
    <3>1. at < j /\ at \in DOMAIN list /\ j \in DOMAIN list
      BY <1>1, <1>4, <1>8, <2>1, <2>4
    <3>2. Past(list[j], list[at])
      BY <3>1 DEF Ranked
    <3> QED
      BY <2>1, <2>2, <3>2, PastOrders
  <2> QED
    BY <2>3, <2>4
<1>9. Ranked(o)
  <2> SUFFICES ASSUME NEW i \in 1 .. n + 1, NEW j \in 1 .. n + 1, i < j
               PROVE  Past(o[j], o[i])
    BY <1>6 DEF Ranked
  <2>0. i \in Nat /\ j \in Nat
    BY <1>1
  <2>1. CASE j < at
    <3>1. i \in 1 .. n /\ j \in 1 .. n /\ i < at
      BY <1>1, <1>2, <1>4, <2>1
    <3>2. o[i] = list[i] /\ o[j] = list[j]
      BY <1>5, <2>1, <3>1
    <3> QED
      BY <1>1, <3>1, <3>2 DEF Ranked
  <2>2. CASE j = at
    <3>1. i \in 1 .. n /\ i < at
      BY <1>1, <2>2
    <3>2. o[i] = list[i] /\ o[j] = r
      BY <1>4, <1>5, <2>2, <3>1
    <3> QED
      BY <1>7, <3>1, <3>2
  <2>3. CASE j > at
    <3>1. j - 1 \in 1 .. n /\ at <= j - 1 /\ ~(j < at) /\ j # at
      BY <1>1, <1>2, <1>4, <2>3
    <3>2. o[j] = list[j - 1]
      BY <1>5, <3>1
    <3>3. CASE i < at
      <4>1. i \in 1 .. n /\ i < j - 1
        BY <1>1, <1>4, <3>1, <3>3
      <4>2. o[i] = list[i]
        BY <1>5, <3>3
      <4> QED
        BY <1>1, <3>1, <3>2, <4>1, <4>2 DEF Ranked
    <3>4. CASE i = at
      <4>1. o[i] = r
        BY <1>4, <1>5, <3>4
      <4> QED
        BY <1>8, <3>1, <3>2, <4>1
    <3>5. CASE i > at
      <4>1. i - 1 \in 1 .. n /\ i - 1 < j - 1 /\ ~(i < at) /\ i # at
        BY <1>1, <1>2, <1>4, <2>0, <3>5
      <4>2. o[i] = list[i - 1]
        BY <1>5, <4>1
      <4> QED
        BY <1>1, <3>1, <3>2, <4>1, <4>2 DEF Ranked
    <3> QED
      BY <1>4, <2>0, <3>3, <3>4, <3>5
  <2> QED
    BY <1>4, <2>0, <2>1, <2>2, <2>3
<1>10. {o[i] : i \in DOMAIN o} = {list[i] : i \in DOMAIN list} \cup {r}
  <2>1. ASSUME NEW i \in 1 .. n + 1
        PROVE  o[i] \in {list[k] : k \in 1 .. n} \cup {r}
    <3>0. i \in Nat
      BY <1>1
    <3>1. CASE i < at
      BY <1>1, <1>2, <1>4, <1>5, <3>1
    <3>2. CASE i = at
      BY <1>4, <1>5, <3>2
    <3>3. CASE i > at
      <4>1. i - 1 \in 1 .. n /\ ~(i < at) /\ i # at
        BY <1>1, <1>2, <1>4, <3>3
      <4> QED
        BY <1>5, <4>1
    <3> QED
      BY <1>4, <3>0, <3>1, <3>2, <3>3
  <2>2. ASSUME NEW k \in 1 .. n
        PROVE  \E i \in 1 .. n + 1 : o[i] = list[k]
    <3>0. k \in Nat /\ k \in 1 .. n + 1 /\ k + 1 \in 1 .. n + 1 /\ (k + 1) - 1 = k
      BY <1>1
    <3>1. CASE k < at
      BY <1>5, <3>0, <3>1
    <3>2. CASE k >= at
      <4>1. ~(k + 1 < at) /\ k + 1 # at
        BY <1>4, <3>0, <3>2
      <4>2. o[k + 1] = list[k]
        BY <1>5, <3>0, <4>1
      <4> QED
        BY <3>0, <4>2
    <3> QED
      BY <1>4, <3>0, <3>1, <3>2
  <2>3. o[at] = r
    BY <1>2, <1>4, <1>5
  <2> QED
    BY <1>1, <1>2, <1>6, <2>1, <2>2, <2>3
<1> QED
  BY <1>3, <1>5, <1>9, <1>10 DEF o, Range

\* One unfolding of the recursion behind the FoldLeft of port_flow_list(), and the function it defines
Sorting(c, S, g) == [s \in SUBSET S |-> IF s = {} THEN <<>> ELSE Inserted(g[s \ {Max(s)}], c[Max(s)])]
Sorts(c, S) == CHOOSE g : g = Sorting(c, S, g)

\* Finite sets of numbers, in which Max() is what it says
Counted(S) == IsFiniteSet(S) /\ \A x \in S : x \in Nat

LEMMA FoldIsSorts ==
    ASSUME NEW c
    PROVE  FoldLeft(Inserted, <<>>, c) = Sorts(c, DOMAIN c)[DOMAIN c]
BY DEF FoldLeft, MapThenFoldSet, Sorts, Sorting

LEMMA CountedPart ==
    ASSUME NEW S, Counted(S), NEW s \in SUBSET S
    PROVE  /\ Counted(s)
           /\ s # {} => Max(s) \in s /\ s \ {Max(s)} \in SUBSET s /\ s \ {Max(s)} # s
<1>1. Counted(s)
  BY FS_Subset DEF Counted
<1>2. s # {} => Max(s) \in s
  BY <1>1, HighestIn DEF Counted
<1> QED
  BY <1>1, <1>2

\* Two solutions agree on the sets they both sort.
LEMMA SortsAgree ==
    ASSUME NEW c, NEW S, NEW T, Counted(S), NEW g, NEW h, g = Sorting(c, S, g), h = Sorting(c, T, h)
    PROVE  \A s \in (SUBSET S) \cap (SUBSET T) : g[s] = h[s]
<1> DEFINE Bad == {s \in (SUBSET S) \cap (SUBSET T) : g[s] # h[s]}
<1> SUFFICES ASSUME Bad # {} PROVE FALSE
  OBVIOUS
<1>0. Bad \subseteq SUBSET S /\ Bad # {} /\ IsFiniteSet(S)
  BY DEF Counted
<1>1. PICK s \in Bad : \A u \in Bad : u \subseteq s => u = s
  <2> HIDE DEF Bad
  <2> QED
    BY <1>0, SmallestSet
<1>2. /\ g[s] = IF s = {} THEN <<>> ELSE Inserted(g[s \ {Max(s)}], c[Max(s)])
      /\ h[s] = IF s = {} THEN <<>> ELSE Inserted(h[s \ {Max(s)}], c[Max(s)])
  <2>1. s \in SUBSET S /\ s \in SUBSET T
    BY <1>1
  <2>2. Sorting(c, S, g)[s] = IF s = {} THEN <<>> ELSE Inserted(g[s \ {Max(s)}], c[Max(s)])
    BY <2>1 DEF Sorting
  <2>3. Sorting(c, T, h)[s] = IF s = {} THEN <<>> ELSE Inserted(h[s \ {Max(s)}], c[Max(s)])
    BY <2>1 DEF Sorting
  <2> QED
    BY <2>2, <2>3
<1>3. s # {}
  BY <1>1, <1>2
<1>4. Max(s) \in s /\ s \ {Max(s)} \in SUBSET s /\ s \ {Max(s)} # s
  BY <1>1, <1>3, CountedPart
<1>5. g[s \ {Max(s)}] = h[s \ {Max(s)}]
  BY <1>1, <1>4
<1> QED
  BY <1>1, <1>2, <1>3, <1>5

LEMMA SortsExist ==
    ASSUME NEW c, NEW S, Counted(S)
    PROVE  Sorts(c, S) = Sorting(c, S, Sorts(c, S))
<1> DEFINE Bad == {T \in SUBSET S : ~\E g : g = Sorting(c, T, g)}
<1> SUFFICES ASSUME Bad # {} PROVE FALSE
  <2>1. \E g : g = Sorting(c, S, g)
    OBVIOUS
  <2> QED
    BY <2>1 DEF Sorts
<1>0. Bad \subseteq SUBSET S /\ Bad # {} /\ IsFiniteSet(S)
  BY DEF Counted
<1>1. PICK T \in Bad : \A U \in Bad : U \subseteq T => U = T
  <2> HIDE DEF Bad
  <2> QED
    BY <1>0, SmallestSet
<1> DEFINE G(U) == Sorts(c, U)[U]
           g == [s \in SUBSET T |-> IF s # T THEN G(s)
                                    ELSE IF T = {} THEN <<>> ELSE Inserted(G(T \ {Max(T)}), c[Max(T)])]
<1>2. \A U \in SUBSET T : U # T => Counted(U) /\ Sorts(c, U) = Sorting(c, U, Sorts(c, U))
  <2> SUFFICES ASSUME NEW U \in SUBSET T, U # T
               PROVE  Counted(U) /\ \E h : h = Sorting(c, U, h)
    BY DEF Sorts
  <2>1. U \in SUBSET S /\ U \notin Bad
    BY <1>1
  <2> QED
    BY <2>1, CountedPart
<1>3. \A s \in SUBSET T : s # {} => Max(s) \in s /\ s \ {Max(s)} \in SUBSET s /\ s \ {Max(s)} # s
  BY <1>1, CountedPart
<1>4. ASSUME NEW s \in SUBSET T, s # T, s # {}
      PROVE  G(s) = Inserted(G(s \ {Max(s)}), c[Max(s)])
  <2> DEFINE u == s \ {Max(s)}
  <2>1. u \in SUBSET T /\ u # T /\ u \in SUBSET s /\ u \in SUBSET u
    BY <1>3, <1>4
  <2>2. Sorts(c, s)[u] = Sorts(c, u)[u]
    <3>1. Sorts(c, s) = Sorting(c, s, Sorts(c, s)) /\ Counted(s)
      BY <1>2, <1>4
    <3>2. Sorts(c, u) = Sorting(c, u, Sorts(c, u))
      BY <1>2, <2>1
    <3>3. \A g1, h1 : g1 = Sorting(c, s, g1) /\ h1 = Sorting(c, u, h1) =>
              \A t \in (SUBSET s) \cap (SUBSET u) : g1[t] = h1[t]
      BY <3>1, SortsAgree
    <3>4. u \in (SUBSET s) \cap (SUBSET u)
      BY <2>1
    <3> HIDE DEF u
    <3> QED
      BY <3>1, <3>2, <3>3, <3>4
  <2>3. Sorts(c, s)[s] = Inserted(Sorts(c, s)[u], c[Max(s)])
    <3>1. Sorts(c, s) = Sorting(c, s, Sorts(c, s))
      BY <1>2, <1>4
    <3>2. Sorting(c, s, Sorts(c, s))[s] = Inserted(Sorts(c, s)[u], c[Max(s)])
      BY <1>4 DEF Sorting
    <3> QED
      BY <3>1, <3>2
  <2> QED
    BY <2>2, <2>3
<1>5. {} # T => G({}) = <<>>
  <2> SUFFICES ASSUME {} # T PROVE G({}) = <<>>
    OBVIOUS
  <2>1. Sorts(c, {}) = Sorting(c, {}, Sorts(c, {}))
    BY <1>2
  <2>2. Sorting(c, {}, Sorts(c, {}))[{}] = <<>>
    BY DEF Sorting
  <2> QED
    BY <2>1, <2>2
<1> HIDE DEF G
<1>6. ASSUME NEW s \in SUBSET T
      PROVE  g[s] = IF s = {} THEN <<>> ELSE Inserted(g[s \ {Max(s)}], c[Max(s)])
  <2>1. CASE s = {}
    BY <1>5, <2>1
  <2>2. CASE s # {}
    <3>1. s \ {Max(s)} \in SUBSET T /\ s \ {Max(s)} # T
      BY <1>3, <2>2
    <3>2. g[s \ {Max(s)}] = G(s \ {Max(s)})
      BY <3>1
    <3>3. g[s] = Inserted(G(s \ {Max(s)}), c[Max(s)])
      BY <1>4, <2>2
    <3> QED
      BY <2>2, <3>2, <3>3
  <2> QED
    BY <2>1, <2>2
<1>7. g = [s \in SUBSET T |-> g[s]]
  OBVIOUS
<1> HIDE DEF g
<1>8. g = Sorting(c, T, g)
  BY <1>6, <1>7 DEF Sorting
<1> QED
  BY <1>1, <1>8

\* The fold sorts: of any rules with different numbers it makes a list in order of the same rules.
LEMMA FoldSorts ==
    ASSUME NEW S, Orderable(S), NEW c \in Seq(S), \A i, j \in DOMAIN c : i # j => c[i].id # c[j].id
    PROVE  LET o == FoldLeft(Inserted, <<>>, c)
           IN  /\ o \in Seq(S)
               /\ Ranked(o)
               /\ Range(o) = Range(c)
<1> DEFINE D == DOMAIN c
           f == Sorts(c, D)
           Good(s) == /\ f[s] \in Seq(S)
                      /\ Ranked(f[s])
                      /\ Range(f[s]) = {c[i] : i \in s}
           Bad == {s \in SUBSET D : ~Good(s)}
<1>1. Counted(D)
  <2>1. Len(c) \in Nat /\ D = 1 .. Len(c)
    OBVIOUS
  <2>2. IsFiniteSet(1 .. Len(c))
    <3>1. 1 \in Int /\ Len(c) \in Int
      BY <2>1
    <3> QED
      BY ONLY <3>1, FS_Interval
  <2> QED
    BY <2>1, <2>2 DEF Counted
<1>2. \A i \in D : c[i] \in S
  OBVIOUS
<1>3. f = Sorting(c, D, f)
  <2> HIDE DEF D
  <2> QED
    BY <1>1, SortsExist
<1>4. FoldLeft(Inserted, <<>>, c) = f[D]
  BY FoldIsSorts
<1> HIDE DEF f, D
<1>5. \A s \in SUBSET D : f[s] = IF s = {} THEN <<>> ELSE Inserted(f[s \ {Max(s)}], c[Max(s)])
  <2> SUFFICES ASSUME NEW s \in SUBSET D
               PROVE  f[s] = IF s = {} THEN <<>> ELSE Inserted(f[s \ {Max(s)}], c[Max(s)])
    OBVIOUS
  <2>1. Sorting(c, D, f)[s] = IF s = {} THEN <<>> ELSE Inserted(f[s \ {Max(s)}], c[Max(s)])
    BY DEF Sorting
  <2> QED
    BY <1>3, <2>1
<1>6. Bad = {}
  <2> SUFFICES ASSUME Bad # {} PROVE FALSE
    OBVIOUS
  <2>1. Bad \subseteq SUBSET D /\ Bad # {} /\ IsFiniteSet(D)
    BY <1>1 DEF Counted
  <2>2. PICK s \in Bad : \A u \in Bad : u \subseteq s => u = s
    <3> HIDE DEF Bad
    <3> QED
      BY <2>1, SmallestSet
  <2>3. s \in SUBSET D /\ ~Good(s)
    BY <2>2
  <2>4. CASE s = {}
    <3>1. f[s] = <<>>
      BY <1>5, <2>3, <2>4
    <3>2. <<>> \in Seq(S) /\ Ranked(<<>>) /\ Range(<<>>) = {}
      BY DEF Ranked, Range
    <3>3. Good(s)
      BY <2>4, <3>1, <3>2
    <3> QED
      BY <2>3, <3>3
  <2>5. CASE s # {}
    <3> DEFINE m == Max(s)
               u == s \ {m}
    <3>1. m \in s /\ u \in SUBSET s /\ u # s /\ m \in D
      BY <1>1, <2>3, <2>5, CountedPart
    <3>2. f[s] = Inserted(f[u], c[m])
      BY <1>5, <2>3, <2>5
    <3>3. Good(u)
      BY <2>2, <2>3, <3>1
    <3> HIDE DEF m
    <3>4. c[m] \in S
      BY <1>2, <3>1
    <3>5. \A i \in DOMAIN f[u] : f[u][i].id # c[m].id
      <4> SUFFICES ASSUME NEW i \in DOMAIN f[u]
                   PROVE  f[u][i].id # c[m].id
        OBVIOUS
      <4>1. PICK k \in u : f[u][i] = c[k]
        BY <3>3 DEF Range
      <4>2. k \in D /\ k # m
        BY <2>3, <4>1
      <4> QED
        BY <3>1, <4>1, <4>2 DEF D
    <3> DEFINE l == f[u]
    <3>6. l \in Seq(S) /\ Ranked(l) /\ Range(l) = {c[i] : i \in u}
      BY <3>3
    <3> HIDE DEF l
    <3>7. /\ Inserted(l, c[m]) \in Seq(S)
          /\ Ranked(Inserted(l, c[m]))
          /\ Range(Inserted(l, c[m])) = Range(l) \cup {c[m]}
      <4>1. NewTo(l, c[m])
        BY <3>5 DEF l, NewTo
      <4> QED
        BY <3>4, <3>6, <4>1, InsertedRanked
    <3>8. {c[i] : i \in u} \cup {c[m]} = {c[i] : i \in s}
      BY <3>1
    <3>9. Good(s)
      <4>1. f[s] = Inserted(l, c[m])
        BY <3>2 DEF l
      <4>2. Range(f[s]) = {c[i] : i \in s}
        BY <3>6, <3>7, <3>8, <4>1
      <4> QED
        BY <3>7, <4>1, <4>2
    <3> QED
      BY <2>3, <3>9
  <2> QED
    BY <2>4, <2>5
<1>7. Good(D)
  BY <1>6
<1> QED
  BY <1>4, <1>7 DEF D, Range

\* A rule of the list is found by its number.
LEMMA KeyOfRule ==
    ASSUME FInv, NEW k \in DOMAIN flow_list
    PROVE  Key(flow_list[k].id) = <<flow_list[k].asked.group, flow_list[k].asked.priority, flow_list[k].id>>
<1>1. \A j \in DOMAIN flow_list : flow_list[j].id = flow_list[k].id => j = k
  <2> SUFFICES ASSUME NEW j \in DOMAIN flow_list, flow_list[j].id = flow_list[k].id, j # k
               PROVE  FALSE
    OBVIOUS
  <2>1. flow_list \in Seq(ListedRule) /\ Descending(flow_list)
    BY DEF FInv, FType, Numbered
  <2>2. /\ j \in Nat /\ k \in Nat
        /\ flow_list[j].id \in Nat /\ flow_list[k].id \in Nat
    <3>1. flow_list[j] \in ListedRule /\ flow_list[k] \in ListedRule /\ j \in Nat /\ k \in Nat
      BY <2>1
    <3> QED
      BY <3>1 DEF ListedRule
  <2>3. (j < k => flow_list[j].id > flow_list[k].id) /\ (k < j => flow_list[k].id > flow_list[j].id)
    BY <2>1 DEF Descending
  <2> QED
    BY <2>2, <2>3
<1>2. RuleOf(flow_list[k].id) = k
  BY <1>1 DEF RuleOf
<1> QED
  BY <1>2 DEF Key

\* What "flow list" shows of the chosen rules
LEMMA ShownInOrder ==
    ASSUME FInv, NEW groups \in SUBSET Groups, port_flow_list(groups)
    PROVE  /\ \A i, j \in DOMAIN shown' : i < j => Before(Key(shown'[i]), Key(shown'[j]))
           /\ {shown'[k] : k \in DOMAIN shown'} = {id \in Ids(flow_list) : groups = {} \/ Key(id)[1] \in groups}
<1> DEFINE P == {k \in DOMAIN flow_list : groups = {} \/ flow_list[k].asked.group \in groups}
           c == Only(flow_list, P)
           o == FoldLeft(Inserted, <<>>, c)
<1>1. shown' = [k \in DOMAIN o |-> o[k].id]
  BY DEF port_flow_list
<1>2. P \in SUBSET (DOMAIN flow_list)
  OBVIOUS
<1>3. flow_list \in Seq(ListedRule) /\ Numbered(flow_list, serial) /\ serial \in Nat
  BY DEF FInv, FType
<1>4. Orderable(ListedRule) /\ \A e \in ListedRule : e.id \in Nat /\ e.serial \in Nat
  BY RulesAssumption DEF Orderable, ListedRule
<1> HIDE DEF P, c
<1>5. c \in Seq(ListedRule) /\ Numbered(c, serial)
  BY <1>2, <1>3, <1>4, OnlyNumbered DEF c
<1>6. Range(c) = {flow_list[k] : k \in P}
  <2>1. PICK m \in [DOMAIN c -> P] :
           /\ \A i \in DOMAIN c : c[i] = flow_list[m[i]]
           /\ \A k \in P : \E i \in DOMAIN c : m[i] = k
    BY <1>2, <1>3, OnlyThose DEF c
  <2> QED
    BY <2>1 DEF Range
<1>7. \A i, j \in DOMAIN c : i # j => c[i].id # c[j].id
  <2> SUFFICES ASSUME NEW i \in DOMAIN c, NEW j \in DOMAIN c, i # j
               PROVE  c[i].id # c[j].id
    OBVIOUS
  <2>1. i \in Nat /\ j \in Nat /\ c[i].id \in Nat /\ c[j].id \in Nat
    BY <1>4, <1>5
  <2>2. (i < j => c[i].id > c[j].id) /\ (j < i => c[j].id > c[i].id)
    BY <1>5 DEF Numbered, Descending
  <2> QED
    BY <2>1, <2>2
<1>8. o \in Seq(ListedRule) /\ Ranked(o) /\ Range(o) = Range(c)
  BY <1>4, <1>5, <1>7, FoldSorts
<1> HIDE DEF o
<1>9. ASSUME NEW i \in DOMAIN o
      PROVE  /\ Key(o[i].id) = <<o[i].asked.group, o[i].asked.priority, o[i].id>>
             /\ \E k \in P : o[i] = flow_list[k]
  <2>1. PICK k \in P : o[i] = flow_list[k]
    BY <1>6, <1>8 DEF Range
  <2>2. k \in DOMAIN flow_list
    BY <1>2, <2>1
  <2> QED
    BY <2>1, <2>2, KeyOfRule
<1>10. ASSUME NEW i \in DOMAIN shown', NEW j \in DOMAIN shown', i < j
       PROVE  Before(Key(shown'[i]), Key(shown'[j]))
  <2>1. i \in DOMAIN o /\ j \in DOMAIN o /\ shown'[i] = o[i].id /\ shown'[j] = o[j].id
    BY <1>1
  <2>2. Past(o[j], o[i])
    BY <1>8, <1>10, <2>1 DEF Ranked
  <2>3. o[i] \in ListedRule /\ o[j] \in ListedRule
    BY <1>8, <2>1
  <2>4. Before(<<o[i].asked.group, o[i].asked.priority, o[i].id>>, <<o[j].asked.group, o[j].asked.priority, o[j].id>>)
    BY <1>4, <2>2, <2>3 DEF Before, Past, Orderable
  <2> QED
    BY <1>9, <2>1, <2>4
<1>11. {shown'[k] : k \in DOMAIN shown'} = {flow_list[k].id : k \in P}
  <2>1. {shown'[k] : k \in DOMAIN shown'} = {o[k].id : k \in DOMAIN o}
    BY <1>1
  <2>2. \A k \in P : \E i \in DOMAIN o : o[i] = flow_list[k]
    BY <1>6, <1>8 DEF Range
  <2>3. \A i \in DOMAIN o : \E k \in P : o[i] = flow_list[k]
    BY <1>9
  <2>4. {o[k].id : k \in DOMAIN o} = {flow_list[k].id : k \in P}
    BY ONLY <2>2, <2>3
  <2> QED
    BY <2>1, <2>4
<1>12. {flow_list[k].id : k \in P} = {id \in Ids(flow_list) : groups = {} \/ Key(id)[1] \in groups}
  <2>1. ASSUME NEW k \in DOMAIN flow_list
        PROVE  k \in P <=> groups = {} \/ Key(flow_list[k].id)[1] \in groups
    <3>1. Key(flow_list[k].id)[1] = flow_list[k].asked.group
      BY KeyOfRule
    <3> QED
      BY <3>1 DEF P
  <2> QED
    BY <1>2, <2>1 DEF Ids
<1> QED
  BY <1>10, <1>11, <1>12

\* port_flow_list() shows the rules of the groups it was asked for, each once, by group, then by
\* priority, then by number, however many rules there are and in whatever order they were made.
THEOREM RulesAreListedInOrder == Spec => ListedInOrder
<1>1. Init => FInv
  BY FInitially DEF Init
<1>2. FInv /\ [Next]_vars => FInv'
  <2>1. [Next]_vars => FNext \/ UNCHANGED fvars
    BY DEF Next, vars
  <2> QED
    BY <2>1, FStays
<1>3. FInv => [\A groups \in SUBSET Groups :
                  port_flow_list(groups) =>
                     /\ \A i, j \in DOMAIN shown' : i < j => Before(Key(shown'[i]), Key(shown'[j]))
                     /\ {shown'[k] : k \in DOMAIN shown'}
                          = {id \in Ids(flow_list) : groups = {} \/ Key(id)[1] \in groups}]_fvars
  BY ShownInOrder
<1> QED
  BY <1>1, <1>2, <1>3, PTL DEF Spec, ListedInOrder
=============================================================================
