---------------------------- MODULE Testpmd_proofs ----------------------------
(***************************************************************************)
(* What holds of testpmd for any number of ports, queues, cores, devices   *)
(* and commands: how streams are shared out among cores and ports, and     *)
(* what the commands and the removal of devices leave of ports, lists and  *)
(* cores.                                                                  *)
(***************************************************************************)
EXTENDS Testpmd

-----------------------------------------------------------------------------
(* Sharing out the streams: setup_fwd_config_of_each_lcore() gives every   *)
(* stream to exactly one core, and fwd_topology_tx_port_get() sends the    *)
(* traffic of two ports to two ports.                                      *)

\* Quotient and remainder, as the C operators / and % give them here.
LEMMA Division ==
    ASSUME NEW a \in Nat, NEW b \in Nat \ {0}
    PROVE  /\ a \div b \in Nat
           /\ a % b \in 0 .. b - 1
           /\ a = b * (a \div b) + (a % b)
<1>1. b * (a \div b) <= a
  BY SMTT(30)
<1>2. a < b * (a \div b) + b
  BY SMTT(30)
<1>3. a % b = a - b * (a \div b)
  BY SMTT(30)
<1>4. a \div b \in Int
  OBVIOUS
<1>5. a \div b >= 0
  BY <1>2, <1>4, SMTT(30)
<1> QED
  BY <1>1, <1>2, <1>3, <1>4, <1>5

\* What a core gets when there are at least as many streams as cores: the
\* common share, and fewer streams left over than there are cores.
LEMMA Shares ==
    ASSUME NEW nb_fs \in Nat, NEW nb_fc \in Nat \ {0}, nb_fc <= nb_fs
    PROVE  /\ StreamsPerLcore(nb_fs, nb_fc) \in Nat \ {0}
           /\ ExtraStreams(nb_fs, nb_fc) \in 0 .. nb_fc - 1
           /\ nb_fs = nb_fc * StreamsPerLcore(nb_fs, nb_fc) + ExtraStreams(nb_fs, nb_fc)
<1>1. CASE nb_fs = nb_fc
  BY <1>1 DEF StreamsPerLcore, ExtraStreams
<1>2. CASE nb_fs > nb_fc
  <2> DEFINE q == nb_fs \div nb_fc
             r == nb_fs % nb_fc
  <2>1. q \in Nat /\ r \in 0 .. nb_fc - 1 /\ nb_fs = nb_fc * q + r
    BY Division
  <2>2. q # 0
    BY <2>1, <1>2
  <2> QED
    BY <2>1, <2>2, <1>2 DEF StreamsPerLcore, ExtraStreams
<1> QED
  BY <1>1, <1>2

-----------------------------------------------------------------------------
(* The intervals the cores get. *)

\* The intervals follow one another: the first starts at stream 0, each next
\* one where the last ended, and the last ends with the table.
LEMMA IntervalsFollow ==
    ASSUME NEW nb_fs \in Nat, NEW nb_fc \in Nat \ {0}, nb_fc <= nb_fs
    PROVE  /\ StreamIdx(nb_fs, nb_fc, 0) = 0
           /\ \A lc \in 0 .. nb_fc - 1 :
                 /\ StreamIdx(nb_fs, nb_fc, lc) \in Nat
                 /\ StreamNb(nb_fs, nb_fc, lc) \in Nat \ {0}
           /\ \A lc \in 0 .. nb_fc - 2 :
                 StreamIdx(nb_fs, nb_fc, lc + 1) =
                     StreamIdx(nb_fs, nb_fc, lc) + StreamNb(nb_fs, nb_fc, lc)
           /\ StreamIdx(nb_fs, nb_fc, nb_fc - 1) + StreamNb(nb_fs, nb_fc, nb_fc - 1) = nb_fs
<1> DEFINE q == StreamsPerLcore(nb_fs, nb_fc)
           r == ExtraStreams(nb_fs, nb_fc)
           plain == nb_fc - r
<1>1. q \in Nat \ {0} /\ r \in 0 .. nb_fc - 1 /\ nb_fs = nb_fc * q + r
  BY Shares
<1>2. plain \in 1 .. nb_fc
  BY <1>1
<1>3. \A lc : StreamIdx(nb_fs, nb_fc, lc) = lc * q + (IF lc < plain THEN 0 ELSE lc - plain)
  BY DEF StreamIdx
<1>4. \A lc : StreamNb(nb_fs, nb_fc, lc) = q + (IF lc < plain THEN 0 ELSE 1)
  BY DEF StreamNb
<1> HIDE DEF q, r, plain
<1>5. StreamIdx(nb_fs, nb_fc, 0) = 0
  BY <1>1, <1>2, <1>3
<1>6. ASSUME NEW lc \in 0 .. nb_fc - 1
      PROVE  /\ StreamIdx(nb_fs, nb_fc, lc) \in Nat
             /\ StreamNb(nb_fs, nb_fc, lc) \in Nat \ {0}
  <2>1. lc * q \in Nat
    BY <1>1
  <2> QED
    BY <2>1, <1>1, <1>2, <1>3, <1>4
<1>7. ASSUME NEW lc \in 0 .. nb_fc - 2
      PROVE  StreamIdx(nb_fs, nb_fc, lc + 1) =
                 StreamIdx(nb_fs, nb_fc, lc) + StreamNb(nb_fs, nb_fc, lc)
  <2>1. lc * q \in Int /\ (lc + 1) * q = lc * q + q
    BY <1>1
  <2>2. StreamIdx(nb_fs, nb_fc, lc + 1) =
            lc * q + q + (IF lc + 1 < plain THEN 0 ELSE (lc + 1) - plain)
    BY <2>1, <1>3
  <2>3. StreamIdx(nb_fs, nb_fc, lc) = lc * q + (IF lc < plain THEN 0 ELSE lc - plain)
    BY <1>3
  <2>4. StreamNb(nb_fs, nb_fc, lc) = q + (IF lc < plain THEN 0 ELSE 1)
    BY <1>4
  <2> QED
    BY <2>1, <2>2, <2>3, <2>4, <1>1, <1>2
<1>8. StreamIdx(nb_fs, nb_fc, nb_fc - 1) + StreamNb(nb_fs, nb_fc, nb_fc - 1) = nb_fs
  <2>1. (nb_fc - 1) * q \in Int /\ (nb_fc - 1) * q = nb_fc * q - q
    BY <1>1
  <2>2. plain = nb_fc - r
    BY DEF plain
  <2> QED
    BY <2>1, <2>2, <1>1, <1>2, <1>3, <1>4
<1> QED
  BY <1>5, <1>6, <1>7, <1>8

\* A core further on starts no earlier than where the core before it ends.
LEMMA IntervalsInOrder ==
    ASSUME NEW nb_fs \in Nat, NEW nb_fc \in Nat \ {0}, nb_fc <= nb_fs,
           NEW lc1 \in 0 .. nb_fc - 1, NEW lc2 \in 0 .. nb_fc - 1, lc1 < lc2
    PROVE  StreamIdx(nb_fs, nb_fc, lc1) + StreamNb(nb_fs, nb_fc, lc1)
               <= StreamIdx(nb_fs, nb_fc, lc2)
<1> DEFINE q == StreamsPerLcore(nb_fs, nb_fc)
           plain == nb_fc - ExtraStreams(nb_fs, nb_fc)
<1>1. q \in Nat \ {0} /\ plain \in 1 .. nb_fc
  BY Shares
<1>2. StreamIdx(nb_fs, nb_fc, lc1) = lc1 * q + (IF lc1 < plain THEN 0 ELSE lc1 - plain)
  BY DEF StreamIdx
<1>3. StreamIdx(nb_fs, nb_fc, lc2) = lc2 * q + (IF lc2 < plain THEN 0 ELSE lc2 - plain)
  BY DEF StreamIdx
<1>4. StreamNb(nb_fs, nb_fc, lc1) = q + (IF lc1 < plain THEN 0 ELSE 1)
  BY DEF StreamNb
<1> HIDE DEF q, plain
<1>5. lc1 * q \in Int /\ lc2 * q \in Int /\ lc1 * q + q <= lc2 * q
  <2>1. (lc1 + 1) * q <= lc2 * q
    BY <1>1, SMTT(30)
  <2> QED
    BY <2>1, <1>1, SMTT(30)
<1> QED
  BY <1>1, <1>2, <1>3, <1>4, <1>5

\* Every stream is in the interval of some core, and the intervals hold
\* nothing else.
LEMMA IntervalsCover ==
    ASSUME NEW nb_fs \in Nat, NEW nb_fc \in Nat \ {0}, nb_fc <= nb_fs
    PROVE  /\ \A sm \in 0 .. nb_fs - 1 : \E lc \in 0 .. nb_fc - 1 :
                 /\ StreamIdx(nb_fs, nb_fc, lc) <= sm
                 /\ sm < StreamIdx(nb_fs, nb_fc, lc) + StreamNb(nb_fs, nb_fc, lc)
           /\ \A lc \in 0 .. nb_fc - 1 :
                 StreamIdx(nb_fs, nb_fc, lc) + StreamNb(nb_fs, nb_fc, lc) <= nb_fs
<1> DEFINE q == StreamsPerLcore(nb_fs, nb_fc)
           r == ExtraStreams(nb_fs, nb_fc)
           plain == nb_fc - r
<1>1. q \in Nat \ {0} /\ r \in 0 .. nb_fc - 1 /\ nb_fs = nb_fc * q + r
  BY Shares
<1>2. plain \in 1 .. nb_fc /\ r = nb_fc - plain
  BY <1>1
<1>3. \A lc : StreamIdx(nb_fs, nb_fc, lc) = lc * q + (IF lc < plain THEN 0 ELSE lc - plain)
  BY DEF StreamIdx
<1>4. \A lc : StreamNb(nb_fs, nb_fc, lc) = q + (IF lc < plain THEN 0 ELSE 1)
  BY DEF StreamNb
<1> HIDE DEF q, r, plain
<1>5. ASSUME NEW sm \in 0 .. nb_fs - 1, sm < plain * q
      PROVE  \E lc \in 0 .. nb_fc - 1 :
                 /\ StreamIdx(nb_fs, nb_fc, lc) <= sm
                 /\ sm < StreamIdx(nb_fs, nb_fc, lc) + StreamNb(nb_fs, nb_fc, lc)
  <2> DEFINE lc == sm \div q
  <2>1. lc \in Nat /\ sm % q \in 0 .. q - 1 /\ sm = q * lc + (sm % q)
    <3>1. sm \in Nat /\ q \in Nat \ {0}
      BY <1>1
    <3> HIDE DEF q
    <3> QED
      BY <3>1, Division
  <2> HIDE DEF lc
  <2>2. q * lc = lc * q /\ lc * q \in Int /\ plain * q \in Int
    BY <2>1, <1>1, <1>2
  <2>3. lc < plain
    <3>1. lc * q < plain * q
      BY <2>1, <2>2, <1>1, <1>5
    <3> QED
      BY <3>1, <2>1, <1>1, <1>2, SMTT(30)
  <2>4. StreamIdx(nb_fs, nb_fc, lc) = lc * q /\ StreamNb(nb_fs, nb_fc, lc) = q
    BY <2>1, <2>2, <2>3, <1>1, <1>2, <1>3, <1>4
  <2>5. lc \in 0 .. nb_fc - 1
    BY <2>1, <2>3, <1>2
  <2> QED
    BY <2>1, <2>2, <2>4, <2>5, <1>1
<1>6. ASSUME NEW sm \in 0 .. nb_fs - 1, sm >= plain * q
      PROVE  \E lc \in 0 .. nb_fc - 1 :
                 /\ StreamIdx(nb_fs, nb_fc, lc) <= sm
                 /\ sm < StreamIdx(nb_fs, nb_fc, lc) + StreamNb(nb_fs, nb_fc, lc)
  <2> DEFINE over == sm - plain * q
             k == over \div (q + 1)
             lc == plain + k
  <2>1. over \in Nat
    BY <1>1, <1>2, <1>6
  <2>2. k \in Nat /\ over % (q + 1) \in 0 .. q /\ over = (q + 1) * k + (over % (q + 1))
    <3> DEFINE d == q + 1
    <3>1. over \in Nat /\ d \in Nat \ {0} /\ d - 1 = q
      BY <2>1, <1>1
    <3> HIDE DEF over, d
    <3>2. over \div d \in Nat /\ over % d \in 0 .. d - 1 /\ over = d * (over \div d) + (over % d)
      BY <3>1, Division
    <3> QED
      BY <3>1, <3>2 DEF d
  <2>3. sm = plain * q + over
    BY <1>1, <1>2
  <2>4. lc = plain + k
    OBVIOUS
  <2> HIDE DEF over, k, lc
  <2>5. plain * q \in Int /\ k * q \in Int /\ (q + 1) * k = k * q + k
         /\ lc * q = plain * q + k * q
    BY <2>2, <2>4, <1>1, <1>2
  <2>6. k < r
    <3>1. nb_fc * q = plain * q + r * q
      BY <1>1, <1>2
    <3>2. r * q \in Int /\ nb_fc * q \in Int
      BY <1>1
    <3>3. k * q + k < r * q + r
      BY <3>1, <3>2, <2>1, <2>2, <2>3, <2>5, <1>1
    <3>4. (q + 1) * k < (q + 1) * r
      BY <3>3, <2>2, <1>1
    <3> QED
      BY <3>4, <2>2, <1>1, SMTT(30)
  <2>7. lc \in 0 .. nb_fc - 1
    BY <2>2, <2>4, <2>6, <1>2
  <2>8. StreamIdx(nb_fs, nb_fc, lc) = lc * q + k /\ StreamNb(nb_fs, nb_fc, lc) = q + 1
    BY <2>2, <2>4, <2>5, <1>1, <1>2, <1>3, <1>4
  <2> QED
    BY <2>1, <2>2, <2>3, <2>5, <2>7, <2>8, <1>1
<1>7. ASSUME NEW lc \in 0 .. nb_fc - 1
      PROVE  StreamIdx(nb_fs, nb_fc, lc) + StreamNb(nb_fs, nb_fc, lc) <= nb_fs
  <2>1. CASE lc = nb_fc - 1
    BY <2>1, IntervalsFollow
  <2>2. CASE lc < nb_fc - 1
    <3>1. StreamIdx(nb_fs, nb_fc, lc) + StreamNb(nb_fs, nb_fc, lc)
              <= StreamIdx(nb_fs, nb_fc, nb_fc - 1)
      BY <2>2, IntervalsInOrder
    <3> QED
      BY <3>1, IntervalsFollow
  <2> QED
    BY <2>1, <2>2
<1>8. \A sm \in 0 .. nb_fs - 1 : sm < plain * q \/ sm >= plain * q
  BY <1>1, <1>2
<1> QED
  BY <1>5, <1>6, <1>7, <1>8

-----------------------------------------------------------------------------
(* The whole table. *)

\* The streams run_pkt_fwd_on_lcore() gives core lc of a table.
Share(t, lc) ==
    t.lcores[lc].stream_idx .. t.lcores[lc].stream_idx + t.lcores[lc].stream_nb - 1

\* A table whose current configuration uses some of its cores, each with a
\* stream to serve: what the setups make of settings that forward at all.
Sharable(t) ==
    /\ t.cur.nb_fwd_streams \in Nat
    /\ t.cur.nb_fwd_lcores \in Nat \ {0}
    /\ t.cur.nb_fwd_lcores <= t.cur.nb_fwd_streams
    /\ "lcores" \in DOMAIN t
    /\ 0 .. t.cur.nb_fwd_lcores - 1 \subseteq DOMAIN t.lcores

\* What setup_fwd_config_of_each_lcore() gives each core that is used.
LEMMA CoreIntervals ==
    ASSUME NEW t, Sharable(t), NEW lc \in 0 .. t.cur.nb_fwd_lcores - 1
    PROVE  Share(SetupEachLcore(t), lc) =
             StreamIdx(t.cur.nb_fwd_streams, t.cur.nb_fwd_lcores, lc) ..
             StreamIdx(t.cur.nb_fwd_streams, t.cur.nb_fwd_lcores, lc)
                 + StreamNb(t.cur.nb_fwd_streams, t.cur.nb_fwd_lcores, lc) - 1
<1> DEFINE shared == [c \in DOMAIN t.lcores |->
            IF c < t.cur.nb_fwd_lcores
            THEN [stream_idx |-> StreamIdx(t.cur.nb_fwd_streams, t.cur.nb_fwd_lcores, c),
                  stream_nb |-> StreamNb(t.cur.nb_fwd_streams, t.cur.nb_fwd_lcores, c)]
            ELSE t.lcores[c]]
<1>1. SetupEachLcore(t).lcores = shared
  BY DEF SetupEachLcore, Sharable
<1>2. lc \in DOMAIN t.lcores /\ lc < t.cur.nb_fwd_lcores
  BY DEF Sharable
<1>3. shared[lc] = [stream_idx |-> StreamIdx(t.cur.nb_fwd_streams, t.cur.nb_fwd_lcores, lc),
                    stream_nb |-> StreamNb(t.cur.nb_fwd_streams, t.cur.nb_fwd_lcores, lc)]
  BY <1>2
<1> QED
  BY <1>1, <1>3 DEF Share

\* setup_fwd_config_of_each_lcore() shares the streams out: each stream of the
\* table is served by one core and by no other, and no core looks behind the
\* end of the table.
THEOREM StreamsSharedOut ==
    ASSUME NEW t, Sharable(t)
    PROVE  LET Cores == 0 .. t.cur.nb_fwd_lcores - 1
               Streams == 0 .. t.cur.nb_fwd_streams - 1
               set == SetupEachLcore(t)
           IN  /\ \A lc \in Cores : Share(set, lc) \subseteq Streams
               /\ \A sm \in Streams : \E lc \in Cores : sm \in Share(set, lc)
               /\ \A lc1, lc2 \in Cores :
                     lc1 # lc2 => Share(set, lc1) \cap Share(set, lc2) = {}
<1> DEFINE nb_fs == t.cur.nb_fwd_streams
           nb_fc == t.cur.nb_fwd_lcores
           Idx(lc) == StreamIdx(nb_fs, nb_fc, lc)
           Nb(lc) == StreamNb(nb_fs, nb_fc, lc)
<1>1. nb_fs \in Nat /\ nb_fc \in Nat \ {0} /\ nb_fc <= nb_fs
  BY DEF Sharable
<1>2. \A lc \in 0 .. nb_fc - 1 :
         Share(SetupEachLcore(t), lc) = Idx(lc) .. Idx(lc) + Nb(lc) - 1
  BY CoreIntervals
<1>3. \A lc \in 0 .. nb_fc - 1 : Idx(lc) \in Nat /\ Nb(lc) \in Nat \ {0}
  BY <1>1, IntervalsFollow
<1> HIDE DEF Idx, Nb
<1>4. \A lc \in 0 .. nb_fc - 1 : Share(SetupEachLcore(t), lc) \subseteq 0 .. nb_fs - 1
  <2>1. \A lc \in 0 .. nb_fc - 1 : Idx(lc) + Nb(lc) <= nb_fs
    BY <1>1, IntervalsCover DEF Idx, Nb
  <2> QED
    BY <2>1, <1>1, <1>2, <1>3
<1>5. \A sm \in 0 .. nb_fs - 1 : \E lc \in 0 .. nb_fc - 1 : sm \in Share(SetupEachLcore(t), lc)
  <2>1. \A sm \in 0 .. nb_fs - 1 : \E lc \in 0 .. nb_fc - 1 : Idx(lc) <= sm /\ sm < Idx(lc) + Nb(lc)
    BY <1>1, IntervalsCover DEF Idx, Nb
  <2> QED
    BY <2>1, <1>1, <1>2, <1>3
<1>6. ASSUME NEW lc1 \in 0 .. nb_fc - 1, NEW lc2 \in 0 .. nb_fc - 1, lc1 < lc2
      PROVE  Share(SetupEachLcore(t), lc1) \cap Share(SetupEachLcore(t), lc2) = {}
  <2>1. Idx(lc1) + Nb(lc1) <= Idx(lc2)
    BY <1>1, <1>6, IntervalsInOrder DEF Idx, Nb
  <2> QED
    BY <2>1, <1>2, <1>3
<1>7. \A lc1, lc2 \in 0 .. nb_fc - 1 : lc1 # lc2 => lc1 < lc2 \/ lc2 < lc1
  BY <1>1
<1>8. ASSUME NEW lc1 \in 0 .. nb_fc - 1, NEW lc2 \in 0 .. nb_fc - 1, lc1 # lc2
      PROVE  Share(SetupEachLcore(t), lc1) \cap Share(SetupEachLcore(t), lc2) = {}
  BY <1>6, <1>7, <1>8
<1> QED
  BY <1>4, <1>5, <1>8

-----------------------------------------------------------------------------
(* Where the traffic of a port goes. *)

\* fwd_topology_tx_port_get() pairs the forwarding ports off: it answers one of
\* them, and never the same one for two receiving ports.
THEOREM TxPortsDiffer ==
    ASSUME NEW topology \in Topologies, NEW n \in Nat \ {0},
           NEW i \in 0 .. n - 1
    PROVE  /\ TopologyTxPort(topology, n, i) \in 0 .. n - 1
           /\ \A j \in 0 .. n - 1 :
                 j # i => TopologyTxPort(topology, n, j) # TopologyTxPort(topology, n, i)
<1>1. CASE topology = "loop"
  <2>1. \A k : TopologyTxPort(topology, n, k) = k
    BY <1>1 DEF TopologyTxPort
  <2> QED
    BY <2>1
<1>2. CASE topology = "chained"
  <2>1. \A k : TopologyTxPort(topology, n, k) = (k + 1) % n
    BY <1>2 DEF TopologyTxPort
  <2>2. \A k \in 0 .. n - 1 : (k + 1) % n = IF k + 1 = n THEN 0 ELSE k + 1
    <3>1. n % n = 0
      OBVIOUS
    <3>2. \A m \in 0 .. n - 1 : m % n = m
      OBVIOUS
    <3> QED
      BY <3>1, <3>2
  <2> QED
    BY <2>1, <2>2
<1>3. CASE topology = "paired"
  <2> DEFINE Paired(k) == IF k % 2 = 1 THEN k - 1 ELSE IF k + 1 < n THEN k + 1 ELSE k
  <2>1. \A k \in Nat : k % 2 \in {0, 1} /\ (k % 2 = 0 <=> (k + 1) % 2 = 1)
    OBVIOUS
  <2>2. \A k \in Nat : TopologyTxPort(topology, n, k) = Paired(k)
    BY <2>1, <1>3 DEF TopologyTxPort
  <2>3. \A k \in 0 .. n - 1 : Paired(k) \in 0 .. n - 1
    BY <2>1
  <2>4. \A k, j \in 0 .. n - 1 : j # k => Paired(j) # Paired(k)
    BY <2>1
  <2> QED
    BY <2>2, <2>3, <2>4
<1> QED
  BY <1>1, <1>2, <1>3 DEF Topologies

-----------------------------------------------------------------------------
(* The streams the setups describe. *)

\* What simple_fwd_config_setup() and rss_fwd_config_setup() are called with:
\* a list of forwarding ports with no port in it twice, and a known topology.
Settings(c) ==
    /\ c.topology \in Topologies
    /\ Len(c.fwd) \in Nat \ {0}
    /\ \A i, j \in 1 .. Len(c.fwd) : i # j => c.fwd[i] # c.fwd[j]

RxQueueOf(s) == <<s.rx_port, s.rx_queue>>
TxQueueOf(s) == <<s.tx_port, s.tx_queue>>

\* A description reaches every stream the table holds.
LEMMA DescribedStreams ==
    ASSUME NEW c, NEW t, NEW nb_lcores, NEW nb_streams, NEW streams,
           "streams" \in DOMAIN t,
           NEW sm \in DOMAIN streams,
           sm \in DOMAIN Describe(Setup(c, t, nb_lcores, nb_streams), streams).streams
    PROVE  Describe(Setup(c, t, nb_lcores, nb_streams), streams).streams[sm] = streams[sm]
<1> DEFINE made == Setup(c, t, nb_lcores, nb_streams)
           told == [k \in DOMAIN made.streams |->
                       IF k \in DOMAIN streams THEN streams[k] ELSE made.streams[k]]
<1>1. "streams" \in DOMAIN made
  <2>1. DOMAIN SetCur(c, t, nb_lcores, nb_streams) = DOMAIN t
    BY DEF SetCur
  <2>2. \A u : DOMAIN InitStreams(c, u) = DOMAIN u
    BY DEF InitStreams
  <2>3. \A u : DOMAIN SetupEachLcore(u) = DOMAIN u
    BY DEF SetupEachLcore
  <2> QED
    BY <2>1, <2>2, <2>3 DEF Setup
<1>2. Describe(made, streams).streams = told
  BY <1>1 DEF Describe
<1> QED
  BY <1>2

\* simple_fwd_config_setup() gives each forwarding port one stream: no two
\* streams poll one receive queue, and no two fill one transmit queue.
THEOREM SimpleStreamsDiffer ==
    ASSUME NEW c, NEW t, Settings(c), "streams" \in DOMAIN t,
           NEW sm1 \in 0 .. Len(c.fwd) - 1, NEW sm2 \in 0 .. Len(c.fwd) - 1, sm1 # sm2,
           {sm1, sm2} \subseteq DOMAIN SimpleSetup(c, t).streams
    PROVE  LET s1 == SimpleSetup(c, t).streams[sm1]
               s2 == SimpleSetup(c, t).streams[sm2]
           IN  RxQueueOf(s1) # RxQueueOf(s2) /\ TxQueueOf(s1) # TxQueueOf(s2)
<1> DEFINE n == Len(c.fwd)
           Tx(sm) == TopologyTxPort(c.topology, n, sm)
           Stream(sm) == [rx_port |-> c.fwd[sm + 1], rx_queue |-> 0,
                          tx_port |-> c.fwd[Tx(sm) + 1], tx_queue |-> 0]
           streams == [sm \in 0 .. n - 1 |-> Stream(sm)]
<1>1. n \in Nat \ {0} /\ \A i, j \in 1 .. n : i # j => c.fwd[i] # c.fwd[j]
  BY DEF Settings
<1>2. SimpleSetup(c, t) = Describe(Setup(c, t, Min({c.lcores, n}), n), streams)
  BY DEF SimpleSetup
<1>3. \A sm \in 0 .. n - 1 :
         sm \in DOMAIN SimpleSetup(c, t).streams => SimpleSetup(c, t).streams[sm] = Stream(sm)
  <2>1. DOMAIN streams = 0 .. n - 1 /\ \A sm \in 0 .. n - 1 : streams[sm] = Stream(sm)
    OBVIOUS
  <2> HIDE DEF streams
  <2> QED
    BY <2>1, <1>2, DescribedStreams
<1>4. Tx(sm1) \in 0 .. n - 1 /\ Tx(sm2) \in 0 .. n - 1 /\ Tx(sm1) # Tx(sm2)
  BY <1>1, TxPortsDiffer DEF Settings
<1>5. c.fwd[sm1 + 1] # c.fwd[sm2 + 1]
  BY <1>1
<1>6. c.fwd[Tx(sm1) + 1] # c.fwd[Tx(sm2) + 1]
  <2> HIDE DEF Tx
  <2> QED
    BY <1>1, <1>4
<1>7. SimpleSetup(c, t).streams[sm1] = Stream(sm1) /\ SimpleSetup(c, t).streams[sm2] = Stream(sm2)
  BY <1>3
<1> QED
  BY <1>5, <1>6, <1>7 DEF RxQueueOf, TxQueueOf

\* rss_fwd_config_setup() gives each queue of each forwarding port one stream,
\* and the same queue of the port it sends to.
THEOREM RssStreamsDiffer ==
    ASSUME NEW c, NEW t, Settings(c), "streams" \in DOMAIN t,
           Min({c.rxq, c.txq}) \in Nat,
           NEW sm1 \in 0 .. Min({c.rxq, c.txq}) * Len(c.fwd) - 1,
           NEW sm2 \in 0 .. Min({c.rxq, c.txq}) * Len(c.fwd) - 1, sm1 # sm2,
           {sm1, sm2} \subseteq DOMAIN RssSetup(c, t).streams
    PROVE  LET s1 == RssSetup(c, t).streams[sm1]
               s2 == RssSetup(c, t).streams[sm2]
           IN  RxQueueOf(s1) # RxQueueOf(s2) /\ TxQueueOf(s1) # TxQueueOf(s2)
<1> DEFINE n == Len(c.fwd)
           nb_q == Min({c.rxq, c.txq})
           Tx(sm) == TopologyTxPort(c.topology, n, sm % n)
           Stream(sm) == [rx_port |-> c.fwd[(sm % n) + 1], rx_queue |-> sm \div n,
                          tx_port |-> c.fwd[Tx(sm) + 1], tx_queue |-> sm \div n]
           total == nb_q * n
           lcores == Min({c.lcores, total})
           streams == [sm \in 0 .. total - 1 |-> Stream(sm)]
<1>1. n \in Nat \ {0} /\ \A i, j \in 1 .. n : i # j => c.fwd[i] # c.fwd[j]
  BY DEF Settings
<1>2. RssSetup(c, t) = Describe(Setup(c, t, lcores, total), streams)
  BY DEF RssSetup
<1>3. \A sm \in 0 .. total - 1 :
         sm \in DOMAIN RssSetup(c, t).streams => RssSetup(c, t).streams[sm] = Stream(sm)
  <2>1. DOMAIN streams = 0 .. total - 1 /\ \A sm \in 0 .. total - 1 : streams[sm] = Stream(sm)
    OBVIOUS
  <2> HIDE DEF streams, Stream, nb_q, n, total, lcores
  <2>2. ASSUME NEW sm \in DOMAIN streams,
               sm \in DOMAIN Describe(Setup(c, t, lcores, total), streams).streams
        PROVE  Describe(Setup(c, t, lcores, total), streams).streams[sm] = streams[sm]
    BY <2>2, DescribedStreams
  <2> QED
    BY <2>1, <2>2, <1>2, Zenon
<1>4. RssSetup(c, t).streams[sm1] = Stream(sm1) /\ RssSetup(c, t).streams[sm2] = Stream(sm2)
  BY <1>3
<1>5. sm1 \in Nat /\ sm2 \in Nat
  BY <1>1
<1>6. /\ sm1 % n \in 0 .. n - 1 /\ sm2 % n \in 0 .. n - 1
      /\ sm1 = n * (sm1 \div n) + (sm1 % n) /\ sm2 = n * (sm2 \div n) + (sm2 % n)
  <2> HIDE DEF n
  <2> QED
    BY <1>1, <1>5, Division
<1>7. sm1 \div n = sm2 \div n => sm1 % n # sm2 % n
  BY <1>6
<1>8. /\ Tx(sm1) \in 0 .. n - 1 /\ Tx(sm2) \in 0 .. n - 1
      /\ sm1 % n # sm2 % n => Tx(sm1) # Tx(sm2)
  BY <1>1, <1>6, TxPortsDiffer DEF Settings
<1>9. sm1 % n # sm2 % n =>
         c.fwd[(sm1 % n) + 1] # c.fwd[(sm2 % n) + 1] /\ c.fwd[Tx(sm1) + 1] # c.fwd[Tx(sm2) + 1]
  <2>1. \A i, j \in 0 .. n - 1 : i # j => c.fwd[i + 1] # c.fwd[j + 1]
    <3> HIDE DEF n
    <3>1. \A i \in 0 .. n - 1 : i + 1 \in 1 .. n
      BY <1>1
    <3>2. \A i, j \in 0 .. n - 1 : i # j => i + 1 # j + 1
      OBVIOUS
    <3> QED
      BY <1>1, <3>1, <3>2, Zenon
  <2> HIDE DEF Tx, n
  <2> QED
    BY <2>1, <1>6, <1>8, Zenon
<1>10. /\ RxQueueOf(Stream(sm1)) = <<c.fwd[(sm1 % n) + 1], sm1 \div n>>
       /\ RxQueueOf(Stream(sm2)) = <<c.fwd[(sm2 % n) + 1], sm2 \div n>>
       /\ TxQueueOf(Stream(sm1)) = <<c.fwd[Tx(sm1) + 1], sm1 \div n>>
       /\ TxQueueOf(Stream(sm2)) = <<c.fwd[Tx(sm2) + 1], sm2 \div n>>
  <2> HIDE DEF Tx, n
  <2> QED
    BY DEF RxQueueOf, TxQueueOf
<1>11. \A p1, q1, p2, q2 : p1 # p2 \/ q1 # q2 => <<p1, q1>> # <<p2, q2>>
  OBVIOUS
<1>12. /\ RxQueueOf(Stream(sm1)) # RxQueueOf(Stream(sm2))
       /\ TxQueueOf(Stream(sm1)) # TxQueueOf(Stream(sm2))
  <2> HIDE DEF Stream, Tx, n
  <2> QED
    BY <1>7, <1>9, <1>10, <1>11, Zenon
<1> HIDE DEF Stream
<1> QED
  BY <1>4, <1>12, Zenon

-----------------------------------------------------------------------------
(* What the threads have to do. *)

\* The steps a call takes of itself, when it is at one of those it was made of
Inner == {"configure", "dev_start", "stop_claim", "dev_stop", "dev_close", "setup", "set_up", "launch", "wait"}

Leaving == {"stop", "wait", "stop_port", "stop_claim", "dev_stop", "close_port", "dev_close", "prune", "exit"}

Ops == {"start", "start_port", "close_each", "reset_port", "reset_all", "reset_device", "attach", "detach", "save_device"}
       \cup Inner \cup Leaving

Steps == [op : Ops, port : Ports]

\* What a thread has before it: inner steps come first, the ports of a reset are not mixed with
\* other steps, the lists are pruned after ports were closed, only devices are detached, and
\* the program exits when it has done the rest.
Shape(q, t, devices) ==
    /\ q \in Seq(Steps)
    /\ \A i \in 2 .. Len(q) : q[i].op \notin Inner
    /\ \A i \in 1 .. Len(q) : q[i].op = "reset_device" => \A j \in 1 .. Len(q) : q[j].op = "reset_device"
    /\ \A i \in 1 .. Len(q) : q[i].op \in {"reset_port", "reset_all"} => Len(q) = 1
    /\ \A i \in 1 .. Len(q) : q[i].op = "close_port" => i < Len(q) /\ q[i + 1].op = "prune"
    /\ \A i \in 1 .. Len(q) :
          q[i].op \in {"close_each", "dev_close"} => i < Len(q) /\ q[i + 1].op \in {"close_each", "prune"}
    /\ \A i \in 1 .. Len(q) : q[i].op = "detach" => q[i].port \in devices
    /\ \A i \in 1 .. Len(q) :
          q[i].op = "exit" => t = "cli" /\ i = Len(q) /\ \A j \in 1 .. Len(q) : q[j].op \in Leaving

\* A step done, the others have the shape.
LEMMA ShapeOfTail ==
    ASSUME NEW q, NEW t, NEW D, Shape(q, t, D), q # << >>
    PROVE  Shape(Tail(q), t, D)
<1>1. q \in Seq(Steps)
  BY DEF Shape
<1> DEFINE r == Tail(q)
<1>2. r \in Seq(Steps) /\ Len(r) = Len(q) - 1 /\ \A i \in 1 .. Len(r) : r[i] = q[i + 1]
  BY <1>1
<1>3. Len(q) \in Nat /\ Len(q) # 0
  BY <1>1
<1> HIDE DEF r
<1>4. \A i \in 1 .. Len(r) : i + 1 \in 1 .. Len(q) /\ i + 1 \in 2 .. Len(q)
  BY <1>2, <1>3
<1>5. /\ \A i \in 2 .. Len(r) : r[i].op \notin Inner
      /\ \A i \in 1 .. Len(r) : r[i].op = "reset_device" => \A j \in 1 .. Len(r) : r[j].op = "reset_device"
      /\ \A i \in 1 .. Len(r) : r[i].op \in {"reset_port", "reset_all"} => Len(r) = 1
      /\ \A i \in 1 .. Len(r) : r[i].op = "detach" => r[i].port \in D
  <2>1. \A i \in 2 .. Len(r) : i \in 1 .. Len(r)
    BY <1>2, <1>3
  <2> QED
    BY <1>2, <1>3, <1>4, <2>1 DEF Shape
<1>6. /\ \A i \in 1 .. Len(r) : r[i].op = "close_port" => i < Len(r) /\ r[i + 1].op = "prune"
      /\ \A i \in 1 .. Len(r) :
            r[i].op \in {"close_each", "dev_close"} => i < Len(r) /\ r[i + 1].op \in {"close_each", "prune"}
  <2> SUFFICES ASSUME NEW i \in 1 .. Len(r)
               PROVE  /\ r[i].op = "close_port" => i < Len(r) /\ r[i + 1].op = "prune"
                      /\ r[i].op \in {"close_each", "dev_close"} => i < Len(r) /\ r[i + 1].op \in {"close_each", "prune"}
    OBVIOUS
  <2>1. r[i] = q[i + 1]
    BY <1>2
  <2>2. i + 1 < Len(q) => i < Len(r) /\ r[i + 1] = q[(i + 1) + 1]
    BY <1>2, <1>3
  <2> QED
    BY <1>4, <2>1, <2>2 DEF Shape
<1>7. \A i \in 1 .. Len(r) :
         r[i].op = "exit" => t = "cli" /\ i = Len(r) /\ \A j \in 1 .. Len(r) : r[j].op \in Leaving
  <2> SUFFICES ASSUME NEW i \in 1 .. Len(r), r[i].op = "exit"
               PROVE  t = "cli" /\ i = Len(r) /\ \A j \in 1 .. Len(r) : r[j].op \in Leaving
    OBVIOUS
  <2>1. q[i + 1].op = "exit"
    BY <1>2
  <2>2. t = "cli" /\ i + 1 = Len(q) /\ \A j \in 1 .. Len(q) : q[j].op \in Leaving
    BY <1>4, <2>1 DEF Shape
  <2> QED
    BY <1>2, <1>3, <1>4, <2>2
<1> QED
  BY <1>2, <1>5, <1>6, <1>7 DEF Shape, r

\* A step that takes an inner one in its place leaves the shape.
LEMMA ShapeOfInner ==
    ASSUME NEW q, NEW t, NEW D, Shape(q, t, D), q # << >>,
           NEW s \in Steps, s.op \in Inner, q[1].op # "reset_device",
           q[1].op \in {"reset_port", "reset_all"} => FALSE,
           s.op = "dev_close" => q[1].op \in {"close_port", "close_each"},
           q[1].op \in Leaving => s.op \in Leaving
    PROVE  Shape(<<s>> \o Tail(q), t, D)
<1>1. q \in Seq(Steps)
  BY DEF Shape
<1> DEFINE r == <<s>> \o Tail(q)
<1>2. r \in Seq(Steps) /\ Len(r) = Len(q) /\ r[1] = s /\ \A i \in 2 .. Len(q) : r[i] = q[i]
  BY <1>1
<1>3. Len(q) \in Nat /\ Len(q) # 0
  BY <1>1
<1> HIDE DEF r
<1>4. \A i \in 1 .. Len(q) : i = 1 \/ i \in 2 .. Len(q)
  BY <1>3
<1>5. \A i \in 2 .. Len(q) : i \in 1 .. Len(q)
  BY <1>3
<1>6. s.op \notin {"reset_device", "reset_port", "reset_all", "close_port", "close_each", "detach", "exit"}
  BY DEF Inner
<1>7. 1 \in 1 .. Len(q)
  BY <1>3
<1>8. /\ \A i \in 2 .. Len(r) : r[i].op \notin Inner
      /\ \A i \in 1 .. Len(r) : r[i].op = "detach" => r[i].port \in D
  BY <1>2, <1>4, <1>5, <1>6 DEF Shape
<1>9. /\ \A i \in 1 .. Len(r) : r[i].op # "reset_device"
      /\ \A i \in 1 .. Len(r) : r[i].op \notin {"reset_port", "reset_all"}
  <2>1. \A i \in 2 .. Len(q) : q[i].op # "reset_device"
    BY <1>5, <1>7 DEF Shape
  <2>2. \A i \in 2 .. Len(q) : q[i].op \notin {"reset_port", "reset_all"}
    BY <1>3, <1>5 DEF Shape
  <2> QED
    BY <1>2, <1>4, <1>6, <2>1, <2>2
<1>10. /\ \A i \in 1 .. Len(r) : r[i].op = "close_port" => i < Len(r) /\ r[i + 1].op = "prune"
       /\ \A i \in 1 .. Len(r) :
             r[i].op \in {"close_each", "dev_close"} => i < Len(r) /\ r[i + 1].op \in {"close_each", "prune"}
  <2>1. \A i \in 1 .. Len(q) : i < Len(q) => i + 1 \in 2 .. Len(q)
    BY <1>3
  <2>2. ASSUME NEW i \in 2 .. Len(q)
        PROVE  /\ q[i].op = "close_port" => i < Len(q) /\ q[i + 1].op = "prune"
               /\ q[i].op \in {"close_each", "dev_close"} => i < Len(q) /\ q[i + 1].op \in {"close_each", "prune"}
    BY <1>5, <2>2 DEF Shape
  <2>3. s.op = "dev_close" => 1 < Len(q) /\ q[1 + 1].op \in {"close_each", "prune"}
    BY <1>7 DEF Shape
  <2> QED
    BY <1>2, <1>4, <1>6, <2>1, <2>2, <2>3
<1>11. \A i \in 1 .. Len(r) :
          r[i].op = "exit" => t = "cli" /\ i = Len(r) /\ \A j \in 1 .. Len(r) : r[j].op \in Leaving
  <2> SUFFICES ASSUME NEW i \in 1 .. Len(r), r[i].op = "exit"
               PROVE  t = "cli" /\ i = Len(r) /\ \A j \in 1 .. Len(r) : r[j].op \in Leaving
    OBVIOUS
  <2>1. i \in 2 .. Len(q) /\ q[i].op = "exit"
    BY <1>2, <1>4, <1>6
  <2>2. t = "cli" /\ i = Len(q) /\ \A j \in 1 .. Len(q) : q[j].op \in Leaving
    BY <1>5, <2>1 DEF Shape
  <2> QED
    BY <1>2, <1>4, <1>5, <1>7, <2>2
<1> QED
  BY <1>2, <1>8, <1>9, <1>10, <1>11 DEF Shape, r

\* Resetting takes steps of the same kind only.
LEMMA ShapeOfReset ==
    ASSUME NEW q, NEW t, NEW D, Shape(q, t, D), q # << >>, q[1].op \in {"reset_port", "reset_all"},
           NEW r \in Seq(Steps), \A i \in 1 .. Len(r) : r[i].op = "reset_device"
    PROVE  Shape(r \o Tail(q), t, D)
<1>1. q \in Seq(Steps)
  BY DEF Shape
<1>2. Len(q) = 1
  <2>1. 1 \in 1 .. Len(q)
    BY <1>1
  <2> QED
    BY <2>1 DEF Shape
<1> DEFINE e == Tail(q)
<1>3. r \o e = r
  <2>1. e \in Seq(Steps) /\ Len(e) = 0
    BY <1>1, <1>2
  <2> HIDE DEF e
  <2>2. e = << >>
    BY <2>1
  <2> QED
    BY <2>2
<1>4. \A i \in 2 .. Len(r) : i \in 1 .. Len(r)
  OBVIOUS
<1>5. \A i \in 1 .. Len(r) : /\ r[i].op \notin Inner
                             /\ r[i].op \notin {"reset_port", "reset_all", "close_port", "close_each", "dev_close", "detach", "exit"}
  BY DEF Inner
<1>6. Shape(r, t, D)
  BY <1>4, <1>5 DEF Shape
<1> QED
  BY <1>3, <1>6

\* What rmv_port_callback() does after it stopped the port
LEMMA ShapeOfRemoval ==
    ASSUME NEW q, NEW t, NEW D, Shape(q, t, D), q # << >>, q[1].op = "save_device",
           NEW a \in Steps, NEW b \in Steps, NEW c \in Steps,
           a.op = "close_port", b.op = "prune", c.op = "detach", c.port \in D
    PROVE  Shape(<<a, b, c>> \o Tail(q), t, D)
<1>1. q \in Seq(Steps) /\ Len(q) \in Nat /\ Len(q) # 0 /\ 1 \in 1 .. Len(q)
  BY DEF Shape
<1> DEFINE r == <<a, b, c>> \o Tail(q)
<1>2. /\ r \in Seq(Steps) /\ Len(r) = Len(q) + 2 /\ r[1] = a /\ r[2] = b /\ r[3] = c
      /\ \A i \in 4 .. Len(q) + 2 : r[i] = q[i - 2]
  BY <1>1
<1> HIDE DEF r
<1>3. \A i \in 1 .. Len(r) : i = 1 \/ i = 2 \/ i = 3 \/ i \in 4 .. Len(q) + 2
  BY <1>1, <1>2
<1>4. \A i \in 4 .. Len(q) + 2 : i - 2 \in 2 .. Len(q) /\ i - 2 \in 1 .. Len(q)
  BY <1>1
<1>5. \A i \in 1 .. Len(q) : q[i].op \notin {"reset_device", "reset_port", "reset_all", "exit"}
  <2>1. \A i \in 1 .. Len(q) : q[i].op # "reset_device"
    BY <1>1 DEF Shape
  <2>2. \A i \in 1 .. Len(q) : q[i].op # "exit"
    BY <1>1 DEF Shape, Leaving
  <2>3. \A i \in 1 .. Len(q) : q[i].op \notin {"reset_port", "reset_all"}
    <3> SUFFICES ASSUME NEW i \in 1 .. Len(q), q[i].op \in {"reset_port", "reset_all"}
                 PROVE  FALSE
      OBVIOUS
    <3>1. Len(q) = 1
      BY DEF Shape
    <3>2. i = 1
      BY <3>1
    <3> QED
      BY <3>2
  <2> QED
    BY <2>1, <2>2, <2>3
<1>6. \A i \in 1 .. Len(r) : r[i].op \notin {"reset_device", "reset_port", "reset_all", "exit"}
  BY <1>2, <1>3, <1>4, <1>5
<1>7. /\ \A i \in 2 .. Len(r) : r[i].op \notin Inner
      /\ \A i \in 1 .. Len(r) : r[i].op = "detach" => r[i].port \in D
  <2>1. \A i \in 2 .. Len(r) : i \in 1 .. Len(r) /\ i # 1
    BY <1>1, <1>2
  <2>2. "prune" \notin Inner /\ "detach" \notin Inner
    BY DEF Inner
  <2>3. \A i \in 4 .. Len(q) + 2 : r[i].op \notin Inner /\ (r[i].op = "detach" => r[i].port \in D)
    BY <1>2, <1>4 DEF Shape
  <2> QED
    BY <1>2, <1>3, <2>1, <2>2, <2>3
<1>8. /\ \A i \in 1 .. Len(r) : r[i].op = "close_port" => i < Len(r) /\ r[i + 1].op = "prune"
      /\ \A i \in 1 .. Len(r) :
            r[i].op \in {"close_each", "dev_close"} => i < Len(r) /\ r[i + 1].op \in {"close_each", "prune"}
  <2>1. 1 < Len(r) /\ r[1 + 1].op = "prune"
    BY <1>1, <1>2
  <2>2. ASSUME NEW i \in 4 .. Len(q) + 2
        PROVE  /\ r[i].op = "close_port" => i < Len(r) /\ r[i + 1].op = "prune"
               /\ r[i].op \in {"close_each", "dev_close"} => i < Len(r) /\ r[i + 1].op \in {"close_each", "prune"}
    <3>1. r[i] = q[i - 2] /\ i - 2 \in 1 .. Len(q)
      BY <1>2, <1>4
    <3>2. i - 2 < Len(q) => i < Len(r) /\ r[i + 1] = q[(i - 2) + 1]
      <4> SUFFICES ASSUME i - 2 < Len(q)
                   PROVE  i < Len(r) /\ r[i + 1] = q[(i - 2) + 1]
        OBVIOUS
      <4>1. i + 1 \in 4 .. Len(q) + 2 /\ (i + 1) - 2 = (i - 2) + 1
        BY <1>1
      <4> QED
        BY <1>1, <1>2, <4>1
    <3> QED
      BY <3>1, <3>2 DEF Shape
  <2> QED
    BY <1>2, <1>3, <2>1, <2>2
<1> QED
  BY <1>2, <1>6, <1>7, <1>8 DEF Shape, r

\* close_port() of a port there is not returns before the lists are pruned.
LEMMA ShapeOfEarlyReturn ==
    ASSUME NEW q, NEW t, NEW D, Shape(q, t, D), q # << >>, q[1].op = "close_port"
    PROVE  /\ q[2].op = "prune" /\ Len(q) >= 2
           /\ SubSeq(q, 3, Len(q)) = Tail(Tail(q))
           /\ Shape(SubSeq(q, 3, Len(q)), t, D)
<1>1. q \in Seq(Steps) /\ 1 \in 1 .. Len(q)
  BY DEF Shape
<1>2. 1 < Len(q) /\ q[1 + 1].op = "prune"
  BY <1>1 DEF Shape
<1>3. SubSeq(q, 3, Len(q)) = Tail(Tail(q))
  BY <1>1, <1>2
<1> DEFINE r == Tail(q)
<1>4. Shape(r, t, D)
  BY ShapeOfTail
<1>5. Shape(Tail(r), t, D)
  <2>1. r \in Seq(Steps) /\ Len(r) # 0
    BY <1>1, <1>2
  <2> HIDE DEF r
  <2>2. r # << >>
    BY <2>1
  <2> QED
    BY <1>4, <2>2, ShapeOfTail
<1>6. q[2].op = "prune" /\ Len(q) >= 2
  BY <1>1, <1>2
<1> QED
  BY <1>3, <1>5, <1>6, Zenon

-----------------------------------------------------------------------------
(* The calls have that shape when they are made. *)

LEMMA ShapeOfPlain ==
    ASSUME NEW q \in Seq(Steps), NEW t, NEW D,
           \A i \in 1 .. Len(q) : \/ q[i].op \in {"start", "stop", "start_port", "stop_port", "attach", "save_device"}
                                  \/ q[i].op = "detach" /\ q[i].port \in D
    PROVE  Shape(q, t, D)
<1>1. \A i \in 2 .. Len(q) : i \in 1 .. Len(q)
  OBVIOUS
<1>2. \A i \in 1 .. Len(q) : q[i].op \notin Inner
  BY DEF Inner
<1> QED
  BY <1>1, <1>2 DEF Shape

LEMMA StepTyped == ASSUME NEW o \in Ops, NEW p \in Ports PROVE Step(o, p) \in Steps /\ Step(o, p).op = o /\ Step(o, p).port = p
  BY DEF Step, Steps

LEMMA ForEachTyped ==
    ASSUME NEW o \in Ops
    PROVE  /\ ForEach(o) \in Seq(Steps) /\ Len(ForEach(o)) = MaxPorts
           /\ \A i \in 1 .. MaxPorts : i - 1 \in Ports /\ ForEach(o)[i] = Step(o, i - 1)
<1>1. MaxPorts \in Nat
  BY StateAssumption
<1>2. \A i \in 1 .. MaxPorts : i - 1 \in Ports
  BY <1>1 DEF Ports
<1>3. \A i \in 1 .. MaxPorts : Step(o, i - 1) \in Steps
  BY <1>2, StepTyped
<1> QED
  BY <1>1, <1>2, <1>3 DEF ForEach

LEMMA EachIsSome ==
    ASSUME NEW o \in Ops
    PROVE  ForEach(o) # << >> /\ ForEach(o)[1].op = o
<1>1. 1 \in 1 .. MaxPorts
  BY StateAssumption
<1> DEFINE e == ForEach(o)
<1>2. e \in Seq(Steps) /\ Len(e) = MaxPorts /\ e[1] = Step(o, 1 - 1)
  BY <1>1, ForEachTyped
<1> HIDE DEF e
<1>3. e # << >>
  BY <1>1, <1>2
<1> QED
  BY <1>2, <1>3 DEF e, Step

LEMMA ShapeOfOne ==
    ASSUME NEW o \in {"start", "stop", "start_port", "stop_port", "attach", "reset_port", "reset_all"}, NEW p \in Ports, NEW t, NEW D
    PROVE  Shape(<<Step(o, p)>>, t, D)
<1>1. o \in Ops
  BY DEF Ops, Leaving
<1>2. Step(o, p) \in Steps /\ Step(o, p).op = o
  BY <1>1, StepTyped
<1> DEFINE q == <<Step(o, p)>>
<1>3. q \in Seq(Steps) /\ Len(q) = 1 /\ q[1].op = o
  BY <1>2
<1> HIDE DEF q
<1>4. o \notin Inner
  BY DEF Inner
<1> QED
  BY <1>3, <1>4 DEF Shape, q

LEMMA ShapeOfEach ==
    ASSUME NEW o \in {"start_port", "stop_port"}, NEW t, NEW D
    PROVE  Shape(ForEach(o), t, D)
<1>1. o \in Ops
  BY DEF Ops, Leaving
<1>2. /\ ForEach(o) \in Seq(Steps)
      /\ \A i \in 1 .. Len(ForEach(o)) : ForEach(o)[i].op = o
  BY <1>1, ForEachTyped, StepTyped
<1> QED
  BY <1>2, ShapeOfPlain

LEMMA Joined ==
    ASSUME NEW S, NEW a \in Seq(S), NEW b \in Seq(S)
    PROVE  /\ a \o b \in Seq(S) /\ Len(a \o b) = Len(a) + Len(b) /\ Len(a) \in Nat /\ Len(b) \in Nat
           /\ \A i \in 1 .. Len(a) : (a \o b)[i] = a[i]
           /\ \A i \in 1 .. Len(b) : (a \o b)[Len(a) + i] = b[i]
<1>1. a \o b \in Seq(S) /\ Len(a \o b) = Len(a) + Len(b) /\ Len(a) \in Nat /\ Len(b) \in Nat
  OBVIOUS
<1>2. \A i \in 1 .. Len(a) + Len(b) : (a \o b)[i] = IF i <= Len(a) THEN a[i] ELSE b[i - Len(a)]
  OBVIOUS
<1>3. \A i \in 1 .. Len(a) : (a \o b)[i] = a[i]
  <2>1. \A i \in 1 .. Len(a) : i \in 1 .. Len(a) + Len(b) /\ i <= Len(a)
    BY <1>1
  <2> QED
    BY <1>2, <2>1
<1>4. \A i \in 1 .. Len(b) : (a \o b)[Len(a) + i] = b[i]
  <2>1. \A i \in 1 .. Len(b) : Len(a) + i \in 1 .. Len(a) + Len(b) /\ ~(Len(a) + i <= Len(a)) /\ (Len(a) + i) - Len(a) = i
    BY <1>1
  <2> QED
    BY <1>2, <2>1
<1> QED
  BY <1>1, <1>3, <1>4

LEMMA ShapeOfClosing ==
    ASSUME NEW t, NEW D
    PROVE  /\ Shape(ForEach("close_each") \o Prune, t, D)
           /\ \A p \in Ports : Shape(<<Step("close_port", p)>> \o Prune, t, D)
<1>1. MaxPorts \in Nat /\ 0 \in Ports
  BY StateAssumption DEF Ports
<1>2. /\ "close_each" \in Ops /\ "close_port" \in Ops /\ "prune" \in Ops
      /\ "close_each" \notin Inner /\ "close_port" \notin Inner /\ "prune" \notin Inner
  BY DEF Ops, Inner, Leaving
<1>3. /\ Prune \in Seq(Steps) /\ Len(Prune) = 1 /\ Prune[1] = Step("prune", 0)
      /\ Step("prune", 0).op = "prune"
  BY <1>1, <1>2, StepTyped DEF Prune
<1>4. Shape(ForEach("close_each") \o Prune, t, D)
  <2> DEFINE A == ForEach("close_each")
             q == A \o Prune
  <2>1. A \in Seq(Steps) /\ Len(A) = MaxPorts /\ \A i \in 1 .. MaxPorts : A[i].op = "close_each"
    BY <1>2, ForEachTyped, StepTyped
  <2> HIDE DEF A
  <2>2. /\ q \in Seq(Steps) /\ Len(q) = MaxPorts + 1
        /\ \A i \in 1 .. MaxPorts : q[i].op = "close_each"
        /\ q[MaxPorts + 1].op = "prune"
    <3>1. /\ q \in Seq(Steps) /\ Len(q) = Len(A) + Len(Prune)
          /\ \A i \in 1 .. Len(A) : q[i] = A[i]
          /\ \A i \in 1 .. Len(Prune) : q[Len(A) + i] = Prune[i]
      <4>1. A \in Seq(Steps) /\ Prune \in Seq(Steps)
        BY <1>3, <2>1
      <4> QED
        BY <4>1, Joined
    <3>2. 1 \in 1 .. Len(Prune)
      BY <1>3
    <3> HIDE DEF q
    <3>3. q[MaxPorts + 1] = Prune[1]
      BY <2>1, <3>1, <3>2
    <3> QED
      BY <1>1, <1>3, <2>1, <3>1, <3>3
  <2> HIDE DEF q
  <2>3. \A i \in 1 .. Len(q) : i \in 1 .. MaxPorts \/ i = MaxPorts + 1
    BY <1>1, <2>2
  <2>4. \A i \in 1 .. MaxPorts : i < Len(q) /\ (i + 1 \in 1 .. MaxPorts \/ i + 1 = MaxPorts + 1)
    BY <1>1, <2>2
  <2>5. \A i \in 1 .. Len(q) : q[i].op \in {"close_each", "prune"}
    BY <2>2, <2>3
  <2>6. \A i \in 2 .. Len(q) : i \in 1 .. Len(q)
    BY <2>2
  <2>7. \A i \in 2 .. Len(q) : q[i].op \notin Inner
    BY <1>2, <2>5, <2>6
  <2>8. \A i \in 1 .. Len(q) :
           q[i].op \in {"close_each", "dev_close"} => i < Len(q) /\ q[i + 1].op \in {"close_each", "prune"}
    BY <2>2, <2>3, <2>4
  <2> QED
    BY <2>2, <2>5, <2>7, <2>8 DEF Shape, q, A
<1>5. ASSUME NEW p \in Ports
      PROVE  Shape(<<Step("close_port", p)>> \o Prune, t, D)
  <2> DEFINE A == <<Step("close_port", p)>>
             q == A \o Prune
  <2>1. A \in Seq(Steps) /\ Len(A) = 1 /\ A[1].op = "close_port"
    BY <1>2, StepTyped
  <2> HIDE DEF A
  <2>2. q \in Seq(Steps) /\ Len(q) = 2 /\ q[1].op = "close_port" /\ q[2].op = "prune"
    <3>1. 1 \in 1 .. Len(Prune) /\ 1 \in 1 .. Len(A) /\ 1 + 1 = 2
      BY <1>3, <2>1
    <3> QED
      BY <1>3, <2>1, <3>1, Joined
  <2> HIDE DEF q
  <2>3. \A i \in 1 .. 2 : i = 1 \/ i = 2
    OBVIOUS
  <2> QED
    BY <1>2, <2>2, <2>3 DEF Shape, q, A
<1> QED
  BY <1>4, <1>5

\* What pmd_test_exit() does
Closing ==
    [i \in 1 .. 2 * MaxPorts |-> IF i % 2 = 1 THEN Step("close_port", i \div 2) ELSE Step("prune", 0)]
Quitting == <<Step("stop", 0)>> \o ForEach("stop_port") \o Closing \o <<Step("exit", 0)>>

LEMMA ClosingTyped ==
    /\ Closing \in Seq(Steps) /\ Len(Closing) = 2 * MaxPorts
    /\ \A p \in Ports : /\ 2 * p + 1 \in 1 .. 2 * MaxPorts /\ 2 * p + 2 \in 1 .. 2 * MaxPorts
                        /\ Closing[2 * p + 1] = Step("close_port", p)
                        /\ Closing[2 * p + 2] = Step("prune", 0)
    /\ \A i \in 1 .. 2 * MaxPorts : \E p \in Ports : i = 2 * p + 1 \/ i = 2 * p + 2
<1>1. MaxPorts \in Nat /\ 0 \in Ports
  BY StateAssumption DEF Ports
<1>2. "close_port" \in Ops /\ "prune" \in Ops
  BY DEF Ops, Leaving
<1>3. \A i \in 1 .. 2 * MaxPorts : \E p \in Ports : i = 2 * p + 1 \/ i = 2 * p + 2
  <2> SUFFICES ASSUME NEW i \in 1 .. 2 * MaxPorts
               PROVE  \E p \in Ports : i = 2 * p + 1 \/ i = 2 * p + 2
    OBVIOUS
  <2> DEFINE p == (i - 1) \div 2
  <2>1. p \in Int /\ (i - 1 = 2 * p \/ i - 1 = 2 * p + 1)
    BY <1>1, SMTT(30)
  <2> HIDE DEF p
  <2>2. p \in Ports
    BY <1>1, <2>1 DEF Ports
  <2> QED
    BY <1>1, <2>1, <2>2
<1>4. \A p \in Ports : /\ 2 * p + 1 \in 1 .. 2 * MaxPorts /\ 2 * p + 2 \in 1 .. 2 * MaxPorts
                       /\ (2 * p + 1) % 2 = 1 /\ (2 * p + 1) \div 2 = p /\ (2 * p + 2) % 2 = 0
  BY <1>1, SMTT(30) DEF Ports
<1>5. \A p \in Ports : /\ Closing[2 * p + 1] = Step("close_port", p)
                       /\ Closing[2 * p + 2] = Step("prune", 0)
  BY <1>4 DEF Closing
<1>6. DOMAIN Closing = 1 .. 2 * MaxPorts
  BY DEF Closing
<1>7. \A i \in 1 .. 2 * MaxPorts : Closing[i] \in Steps
  BY <1>1, <1>2, <1>3, <1>5, StepTyped
<1>8. Closing = [i \in 1 .. 2 * MaxPorts |-> Closing[i]]
  BY DEF Closing
<1>9. 2 * MaxPorts \in Nat
  BY <1>1
<1>10. Closing \in Seq(Steps)
  BY <1>7, <1>8, <1>9
<1> QED
  BY <1>3, <1>4, <1>5, <1>6, <1>9, <1>10

\* Steps that stop cores or ports: none of them is behind one of another kind.
Stopping == {"stop", "wait", "stop_port", "stop_claim", "dev_stop"}
StopsFirst(q) == \A i, j \in 1 .. Len(q) : i < j /\ q[j].op \in Stopping => q[i].op \in Stopping

LEMMA ShapeOfQuitting ==
    ASSUME NEW D
    PROVE  /\ Shape(Quitting, "cli", D) /\ StopsFirst(Quitting)
           /\ Quitting # << >> /\ Quitting[1].op = "stop"
           /\ \A p \in Ports : /\ \E i \in 1 .. Len(Quitting) : Quitting[i] = Step("stop_port", p)
                               /\ \E i \in 1 .. Len(Quitting) : Quitting[i] = Step("close_port", p)
<1>1. MaxPorts \in Nat /\ 0 \in Ports
  BY StateAssumption DEF Ports
<1> DEFINE M == MaxPorts
           A == <<Step("stop", 0)>>
           B == ForEach("stop_port")
           E == <<Step("exit", 0)>>
           q == A \o B \o Closing \o E
<1>2. {"stop", "stop_port", "close_port", "prune", "exit"} \subseteq Ops \cap Leaving
  BY DEF Ops, Leaving
<1>3. {"stop", "stop_port", "close_port", "prune", "exit"} \cap Inner = {}
  BY DEF Inner
<1>4. /\ A \in Seq(Steps) /\ Len(A) = 1 /\ A[1].op = "stop"
      /\ E \in Seq(Steps) /\ Len(E) = 1 /\ E[1].op = "exit"
  BY <1>1, <1>2, StepTyped
<1>5. /\ B \in Seq(Steps) /\ Len(B) = M
      /\ \A i \in 1 .. M : B[i].op = "stop_port"
      /\ \A p \in Ports : p + 1 \in 1 .. M /\ B[p + 1] = Step("stop_port", p)
  <2>1. B \in Seq(Steps) /\ Len(B) = M /\ \A i \in 1 .. M : B[i].op = "stop_port"
    BY <1>2, ForEachTyped, StepTyped
  <2>2. \A p \in Ports : p + 1 \in 1 .. M /\ B[p + 1] = Step("stop_port", (p + 1) - 1) /\ (p + 1) - 1 = p
    BY <1>1, <1>2, ForEachTyped DEF Ports
  <2> QED
    BY <2>1, <2>2
<1>6. /\ Closing \in Seq(Steps) /\ Len(Closing) = 2 * M
      /\ \A i \in 1 .. 2 * M : \/ i < 2 * M /\ Closing[i].op = "close_port" /\ Closing[i + 1].op = "prune"
                               \/ Closing[i].op = "prune"
      /\ \A p \in Ports : 2 * p + 1 \in 1 .. 2 * M /\ Closing[2 * p + 1] = Step("close_port", p)
  <2>1. ASSUME NEW i \in 1 .. 2 * M
        PROVE  \/ i < 2 * M /\ Closing[i].op = "close_port" /\ Closing[i + 1].op = "prune"
               \/ Closing[i].op = "prune"
    <3>1. PICK p \in Ports : i = 2 * p + 1 \/ i = 2 * p + 2
      BY ClosingTyped
    <3>2. 2 * p + 2 \in 1 .. 2 * M /\ Closing[2 * p + 1].op = "close_port" /\ Closing[2 * p + 2].op = "prune"
      <4>1. Step("close_port", p).op = "close_port" /\ Step("prune", 0).op = "prune"
        BY DEF Step
      <4> QED
        BY <4>1, ClosingTyped
    <3> QED
      BY <1>1, <3>1, <3>2 DEF Ports
  <2> QED
    BY <2>1, ClosingTyped
<1> HIDE DEF A, B, E, M
<1>7. M \in Nat
  BY <1>1 DEF M
<1>8. /\ q \in Seq(Steps) /\ Len(q) = 1 + M + 2 * M + 1
      /\ q[1] = A[1]
      /\ \A i \in 1 .. M : q[1 + i] = B[i]
      /\ \A i \in 1 .. 2 * M : q[1 + M + i] = Closing[i]
      /\ q[1 + M + 2 * M + 1] = E[1]
  <2> DEFINE C == Closing
  <2>0. C \in Seq(Steps) /\ Len(C) = 2 * M /\ q = A \o B \o C \o E
    BY <1>6
  <2> HIDE DEF C, q
  <2> DEFINE AB == A \o B
             ABC == AB \o C
  <2>1. AB \in Seq(Steps) /\ Len(AB) = 1 + M /\ AB[1] = A[1] /\ \A i \in 1 .. M : AB[1 + i] = B[i]
    <3>1. 1 \in 1 .. Len(A)
      BY <1>4
    <3>2. A \in Seq(Steps) /\ B \in Seq(Steps)
      BY <1>4, <1>5
    <3>3. /\ A \o B \in Seq(Steps) /\ Len(A \o B) = Len(A) + Len(B)
          /\ \A i \in 1 .. Len(A) : (A \o B)[i] = A[i]
          /\ \A i \in 1 .. Len(B) : (A \o B)[Len(A) + i] = B[i]
      BY <3>2, Joined
    <3>4. Len(A) = 1 /\ Len(B) = M
      BY <1>4, <1>5
    <3> HIDE DEF AB
    <3>5. AB = A \o B
      BY DEF AB
    <3> QED
      BY <3>1, <3>3, <3>4, <3>5
  <2> HIDE DEF AB
  <2>2. /\ ABC \in Seq(Steps) /\ Len(ABC) = 1 + M + 2 * M
        /\ \A i \in 1 .. 1 + M : ABC[i] = AB[i]
        /\ \A i \in 1 .. 2 * M : ABC[1 + M + i] = C[i]
    <3>1. /\ ABC \in Seq(Steps) /\ Len(ABC) = Len(AB) + Len(C)
          /\ \A i \in 1 .. Len(AB) : ABC[i] = AB[i]
          /\ \A i \in 1 .. Len(C) : ABC[Len(AB) + i] = C[i]
      <4>1. AB \in Seq(Steps) /\ C \in Seq(Steps)
        BY <2>0, <2>1
      <4> QED
        BY <4>1, Joined
    <3> HIDE DEF ABC
    <3> QED
      BY <2>0, <2>1, <3>1
  <2> HIDE DEF ABC
  <2>3. /\ ABC \o E \in Seq(Steps) /\ Len(ABC \o E) = 1 + M + 2 * M + 1
        /\ \A i \in 1 .. 1 + M + 2 * M : (ABC \o E)[i] = ABC[i]
        /\ (ABC \o E)[1 + M + 2 * M + 1] = E[1]
    <3>1. 1 \in 1 .. Len(E)
      BY <1>4
    <3> DEFINE r == ABC \o E
    <3>2. /\ r \in Seq(Steps) /\ Len(r) = Len(ABC) + Len(E)
          /\ \A i \in 1 .. Len(ABC) : r[i] = ABC[i]
          /\ \A i \in 1 .. Len(E) : r[Len(ABC) + i] = E[i]
      BY <1>4, <2>2, Joined
    <3> HIDE DEF r
    <3> QED
      BY <1>4, <2>2, <3>1, <3>2 DEF r
  <2>4. q = ABC \o E
    BY <2>0 DEF AB, ABC
  <2>5. /\ 1 \in 1 .. 1 + M /\ \A i \in 1 .. M : 1 + i \in 1 .. 1 + M
        /\ \A i \in 1 .. 1 + M : i \in 1 .. 1 + M + 2 * M
        /\ \A i \in 1 .. 2 * M : 1 + M + i \in 1 .. 1 + M + 2 * M
    BY <1>7
  <2> QED
    BY <2>1, <2>2, <2>3, <2>4, <2>5 DEF C
<1> HIDE DEF q
<1>9. \A i \in 1 .. Len(q) : \/ i = 1
                             \/ \E j \in 1 .. M : i = 1 + j
                             \/ \E j \in 1 .. 2 * M : i = 1 + M + j
                             \/ i = 1 + M + 2 * M + 1
  <2> SUFFICES ASSUME NEW i \in 1 .. Len(q), i # 1, i # 1 + M + 2 * M + 1
               PROVE  \/ \E j \in 1 .. M : i = 1 + j
                      \/ \E j \in 1 .. 2 * M : i = 1 + M + j
    OBVIOUS
  <2>1. CASE i <= 1 + M
    <3>1. i - 1 \in 1 .. M /\ i = 1 + (i - 1)
      BY <1>7, <1>8, <2>1
    <3> QED
      BY <3>1
  <2>2. CASE i > 1 + M
    <3>1. i - (1 + M) \in 1 .. 2 * M /\ i = 1 + M + (i - (1 + M))
      BY <1>7, <1>8, <2>2
    <3> QED
      BY <3>1
  <2> QED
    BY <1>7, <1>8, <2>1, <2>2
<1>10. \A i \in 1 .. Len(q) : \/ q[i].op = "stop"
                              \/ q[i].op = "stop_port"
                              \/ q[i].op = "close_port" /\ i < Len(q) /\ q[i + 1].op = "prune"
                              \/ q[i].op = "prune"
                              \/ q[i].op = "exit" /\ i = Len(q)
  <2> DEFINE Of(i) == \/ q[i].op = "close_port" /\ i < Len(q) /\ q[i + 1].op = "prune"
                      \/ q[i].op = "prune"
  <2>1. ASSUME NEW j \in 1 .. 2 * M
        PROVE  Of(1 + M + j)
    <3>1. j < 2 * M => j + 1 \in 1 .. 2 * M /\ (1 + M + j) + 1 = 1 + M + (j + 1) /\ 1 + M + j < Len(q)
      <4>1. Len(q) = 1 + M + 2 * M + 1
        BY <1>8
      <4> QED
        BY <1>7, <4>1
    <3>2. q[1 + M + j] = Closing[j] /\ (j < 2 * M => q[(1 + M + j) + 1] = Closing[j + 1])
      BY <1>8, <3>1
    <3> QED
      BY <1>6, <3>1, <3>2
  <2>2. q[1].op = "stop" /\ q[1 + M + 2 * M + 1].op = "exit" /\ \A i \in 1 .. M : q[1 + i].op = "stop_port"
    BY <1>4, <1>5, <1>8
  <2>3. ASSUME NEW i \in 1 .. Len(q)
        PROVE  q[i].op = "stop" \/ q[i].op = "stop_port" \/ Of(i) \/ (q[i].op = "exit" /\ i = Len(q))
    <3> HIDE DEF Of
    <3> QED
      BY <1>8, <1>9, <2>1, <2>2
  <2> QED
    BY <2>3
<1>11. \A i \in 1 .. Len(q) : q[i].op \in {"stop", "stop_port", "close_port", "prune", "exit"}
  BY <1>10
<1>12. \A i \in 2 .. Len(q) : i \in 1 .. Len(q)
  BY <1>8
<1>13. Shape(q, "cli", D)
  <2>1. \A i \in 2 .. Len(q) : q[i].op \notin Inner
    BY <1>3, <1>11, <1>12
  <2>2. \A j \in 1 .. Len(q) : q[j].op \in Leaving
    BY <1>2, <1>11
  <2>3. \A i \in 1 .. Len(q) : q[i].op \notin {"reset_device", "reset_port", "reset_all", "close_each", "dev_close", "detach"}
    BY <1>11
  <2>4. \A i \in 1 .. Len(q) : q[i].op = "close_port" => i < Len(q) /\ q[i + 1].op = "prune"
    BY <1>10
  <2>5. \A i \in 1 .. Len(q) : q[i].op = "exit" => i = Len(q)
    BY <1>10
  <2> QED
    BY <1>8, <2>1, <2>2, <2>3, <2>4, <2>5 DEF Shape
<1>14. ASSUME NEW p \in Ports
       PROVE  /\ \E i \in 1 .. Len(q) : q[i] = Step("stop_port", p)
              /\ \E i \in 1 .. Len(q) : q[i] = Step("close_port", p)
  <2>1. p + 1 \in 1 .. M /\ q[1 + (p + 1)] = Step("stop_port", p) /\ 1 + (p + 1) \in 1 .. Len(q)
    BY <1>5, <1>7, <1>8
  <2>2. /\ 2 * p + 1 \in 1 .. 2 * M /\ q[1 + M + (2 * p + 1)] = Step("close_port", p)
        /\ 1 + M + (2 * p + 1) \in 1 .. Len(q)
    BY <1>6, <1>7, <1>8
  <2> QED
    BY <2>1, <2>2
<1>15. Quitting = q
  BY DEF Quitting, q, A, B, E
<1>16. q # << >> /\ q[1].op = "stop"
  BY <1>4, <1>7, <1>8
<1>17. StopsFirst(q)
  <2>1. ASSUME NEW i \in 1 .. Len(q)
        PROVE  q[i].op \in Stopping <=> i <= 1 + M
    <3>1. CASE i = 1
      BY <1>4, <1>7, <1>8, <3>1 DEF Stopping
    <3>2. CASE \E j \in 1 .. M : i = 1 + j
      <4>1. PICK j \in 1 .. M : i = 1 + j
        BY <3>2
      <4>2. q[i].op = "stop_port"
        BY <1>5, <1>8, <4>1
      <4> QED
        BY <1>7, <4>1, <4>2 DEF Stopping
    <3>3. CASE \E j \in 1 .. 2 * M : i = 1 + M + j
      <4>1. PICK j \in 1 .. 2 * M : i = 1 + M + j
        BY <3>3
      <4>2. q[i].op \in {"close_port", "prune"}
        BY <1>6, <1>8, <4>1
      <4>3. ~(i <= 1 + M)
        BY <1>7, <4>1
      <4> QED
        BY <4>2, <4>3 DEF Stopping
    <3>4. CASE i = 1 + M + 2 * M + 1
      <4>1. q[i].op = "exit" /\ ~(i <= 1 + M)
        BY <1>4, <1>7, <1>8, <3>4
      <4> QED
        BY <4>1 DEF Stopping
    <3> QED
      BY <1>9, <3>1, <3>2, <3>3, <3>4
  <2>2. \A i, j \in 1 .. Len(q) : i < j /\ j <= 1 + M => i <= 1 + M
    BY <1>7, <1>8
  <2> QED
    BY <2>1, <2>2 DEF StopsFirst
<1> QED
  BY <1>13, <1>14, <1>15, <1>16, <1>17

-----------------------------------------------------------------------------
(* Types, the shape of what is to be done, and the devices. *)

Statuses == {"STOPPED", "STARTED", "HANDLING", "CLOSED"}
DevStates == {"probed", "configured", "ready", "started"}

PortTypes ==
    /\ opts \in Options
    /\ valid \in SUBSET Ports
    /\ status \in [Ports -> Statuses]
    /\ need \in [Ports -> [setup : BOOLEAN, reconfig : BOOLEAN, queues : BOOLEAN]]
    /\ dev \in [Ports -> [id : Ports, state : DevStates, rxq : Nat, txq : Nat]]
    /\ lists \in [ids : Seq(Ports), fwd_ids : Seq(Ports), nb_fwd_ports : Nat]
    /\ lists.nb_fwd_ports <= Len(lists.fwd_ids)
    /\ settings \in [lcores : 1 .. NbLcores, rxq : Nat \ {0}, txq : Nat \ {0}, eng : opts.engines]
    /\ pending \in SUBSET Ports
    /\ {test_done, resized, overlapped, sound} \subseteq BOOLEAN

Shaped ==
    /\ todo \in [Threads -> Seq(Steps)]
    /\ \A t \in Threads : Shape(todo[t], t, Devices)

\* As long as no calls overlapped, one thread at most has something to do.
Alone == ~overlapped => \A t, u \in Threads : t # u => todo[t] = << >> \/ todo[u] = << >>

\* Every device is at one place.
Kept ==
    /\ spare \cup closed \subseteq Devices
    /\ spare \cap closed = {}
    /\ \A p \in valid : dev[p].id \in Devices /\ dev[p].id \notin spare /\ dev[p].id \notin closed
    /\ \A p, q \in valid : dev[p].id = dev[q].id => p = q
    /\ \A d \in Devices : d \in spare \/ d \in closed \/ \E p \in valid : dev[p].id = d

\* A port there is, is not marked closed.
NoneClosed == \A p \in valid : status[p] # "CLOSED"

Basics == PortTypes /\ Shaped /\ Alone /\ Kept /\ NoneClosed

-----------------------------------------------------------------------------
(* How steps change what is to be done. *)

\* The step a thread is at
LEMMA AtHead ==
    ASSUME Basics, NEW t \in Threads, todo[t] # << >>
    PROVE  /\ todo[t] \in Seq(Steps) /\ Len(todo[t]) \in Nat /\ 1 \in 1 .. Len(todo[t])
           /\ Head(todo[t]) = todo[t][1] /\ todo[t][1] \in Steps
           /\ \A op : At(t, op) <=> todo[t][1].op = op
           /\ Port(t) = todo[t][1].port /\ Port(t) \in Ports
<1> DEFINE q == todo[t]
<1>1. q \in Seq(Steps)
  BY DEF Basics, Shaped
<1> HIDE DEF q
<1>2. q # << >> => Len(q) \in Nat /\ 1 \in 1 .. Len(q) /\ Head(q) = q[1] /\ q[1] \in Steps
  BY <1>1
<1>3. q # << >>
  BY DEF q
<1>4. q[1].port \in Ports
  BY <1>2, <1>3 DEF Steps
<1> QED
  BY <1>1, <1>2, <1>3, <1>4 DEF At, Port, q

\* A thread that changes what it has to do while nobody else does
LEMMA StepKeepsShape ==
    ASSUME Basics, NEW t \in Threads, todo[t] # << >>, NEW q, todo' = [todo EXCEPT ![t] = q],
           Shape(q, t, Devices), UNCHANGED <<opts, overlapped>>
    PROVE  Shaped' /\ Alone'
<1>1. todo \in [Threads -> Seq(Steps)] /\ q \in Seq(Steps)
  BY DEF Basics, Shaped, Shape
<1>2. todo' \in [Threads -> Seq(Steps)] /\ todo'[t] = q /\ \A u \in Threads : u # t => todo'[u] = todo[u]
  BY <1>1
<1>3. Devices' = Devices
  BY DEF Devices
<1>4. Shaped'
  <2>1. \A u \in Threads : Shape(todo'[u], u, Devices)
    BY <1>2 DEF Basics, Shaped
  <2> QED
    BY <1>2, <1>3, <2>1 DEF Shaped
<1>5. Alone'
  BY <1>2 DEF Basics, Alone
<1> QED
  BY <1>4, <1>5

LEMMA ReturnKeepsShape ==
    ASSUME Basics, NEW t \in Threads, todo[t] # << >>, Return(t), UNCHANGED <<opts, overlapped>>
    PROVE  Shaped' /\ Alone'
<1> DEFINE q == Tail(todo[t])
<1>1. Shape(todo[t], t, Devices)
  BY DEF Basics, Shaped
<1>2. Shape(q, t, Devices)
  BY <1>1, ShapeOfTail
<1>3. todo' = [todo EXCEPT ![t] = q]
  BY DEF Return
<1> HIDE DEF q
<1> QED
  BY <1>2, <1>3, StepKeepsShape

LEMMA ThenKeepsShape ==
    ASSUME Basics, NEW t \in Threads, todo[t] # << >>, NEW o \in Inner, NEW p \in Ports,
           Then(t, <<Step(o, p)>>), UNCHANGED <<opts, overlapped>>,
           todo[t][1].op \notin {"reset_device", "reset_port", "reset_all"},
           o = "dev_close" => todo[t][1].op \in {"close_port", "close_each"},
           todo[t][1].op \in Leaving => o \in Leaving
    PROVE  Shaped' /\ Alone'
<1> DEFINE q == <<Step(o, p)>> \o Tail(todo[t])
<1>1. Shape(todo[t], t, Devices)
  BY DEF Basics, Shaped
<1>2. Step(o, p) \in Steps /\ Step(o, p).op = o
  BY StepTyped DEF Ops
<1>3. Shape(q, t, Devices)
  <2> DEFINE s == Step(o, p)
  <2>1. s \in Steps /\ s.op = o /\ q = <<s>> \o Tail(todo[t])
    BY <1>2
  <2> HIDE DEF s, q
  <2>2. Shape(<<s>> \o Tail(todo[t]), t, Devices)
    BY <1>1, <2>1, ShapeOfInner
  <2> QED
    BY <2>1, <2>2
<1>4. todo' = [todo EXCEPT ![t] = q]
  BY DEF Then
<1> HIDE DEF q
<1> QED
  BY <1>3, <1>4, StepKeepsShape

LEMMA AbandonKeepsShape ==
    ASSUME Basics, NEW t \in Threads, todo[t] # << >>, Abandon(t), UNCHANGED <<opts, overlapped>>
    PROVE  Shaped' /\ Alone'
<1> DEFINE q == << >>
<1>1. Shape(q, t, Devices)
  BY DEF Shape
<1>2. todo' = [todo EXCEPT ![t] = q]
  BY DEF Abandon
<1> HIDE DEF q
<1> QED
  BY <1>1, <1>2, StepKeepsShape

\* A call that is made
LEMMA CallKeepsShape ==
    ASSUME Basics, NEW t \in Threads, NEW q, Call(t, q), Shape(q, t, Devices), UNCHANGED opts
    PROVE  Shaped' /\ Alone' /\ overlapped' \in BOOLEAN
<1>1. todo \in [Threads -> Seq(Steps)] /\ q \in Seq(Steps)
  BY DEF Basics, Shaped, Shape
<1>2. todo' \in [Threads -> Seq(Steps)] /\ todo'[t] = q /\ \A u \in Threads : u # t => todo'[u] = todo[u]
  BY <1>1 DEF Call
<1>3. Devices' = Devices
  BY DEF Devices
<1>4. Shaped'
  <2>1. \A u \in Threads : Shape(todo'[u], u, Devices)
    BY <1>2 DEF Basics, Shaped
  <2> QED
    BY <1>2, <1>3, <2>1 DEF Shaped
<1>5. overlapped' = (overlapped \/ \E u \in Threads \ {t} : todo[u] # << >>)
  BY DEF Call
<1>6. Alone'
  <2> SUFFICES ASSUME ~overlapped', NEW u \in Threads, NEW v \in Threads, u # v
               PROVE  todo'[u] = << >> \/ todo'[v] = << >>
    BY DEF Alone
  <2>1. ~overlapped /\ \A w \in Threads : w # t => todo[w] = << >>
    BY <1>5
  <2> QED
    BY <1>2, <2>1
<1> QED
  BY <1>4, <1>5, <1>6 DEF Basics, PortTypes

-----------------------------------------------------------------------------
(* Every step leaves the shape. *)

\* A step moves a thread that has something to do, and no other.
Moves(t) ==
    /\ todo[t] # << >>
    /\ \A u \in Threads \ {t} : todo'[u] = todo[u]
    /\ UNCHANGED <<opts, overlapped>>

LEMMA ReturnMoves == ASSUME Basics, NEW t \in Threads, todo[t] # << >>, Return(t) \/ Abandon(t), UNCHANGED <<opts, overlapped>> PROVE Moves(t)
<1>1. todo \in [Threads -> Seq(Steps)]
  BY DEF Basics, Shaped
<1> QED
  BY <1>1 DEF Moves, Return, Abandon

LEMMA ThenMoves == ASSUME Basics, NEW t \in Threads, todo[t] # << >>, NEW q, Then(t, q), UNCHANGED <<opts, overlapped>> PROVE Moves(t)
<1>1. todo \in [Threads -> Seq(Steps)]
  BY DEF Basics, Shaped
<1> QED
  BY <1>1 DEF Moves, Then

LEMMA AtHasSteps == ASSUME NEW t, NEW o, At(t, o) PROVE todo[t] # << >>
  BY DEF At

\* The steps that end with their turn
LEMMA ReturningShaped ==
    ASSUME Basics, NEW t \in Threads,
           \/ DeviceStarts(t) \/ DeviceStartFails(t) \/ DeviceStop(t) \/ DeviceClose(t) \/ ClosePrune(t)
           \/ DeviceReset(t) \/ setup_attached_port(t) \/ Detach(t) \/ Launch(t) \/ StopWait(t)
           \/ ConfigureFails(t) \/ IsolateFails(t)
    PROVE  Shaped' /\ Alone' /\ Moves(t)
<1>1. todo[t] # << >>
  BY AtHasSteps DEF DeviceStarts, DeviceStartFails, DeviceStop, DeviceClose, ClosePrune, DeviceReset,
                    setup_attached_port, Detach, Launch, StopWait, ConfigureFails, IsolateFails
<1>2. UNCHANGED <<opts, overlapped>>
  BY DEF DeviceStarts, DeviceStartFails, DeviceStop, DeviceClose, ClosePrune, DeviceReset,
         setup_attached_port, Detach, Launch, StopWait, ConfigureFails, IsolateFails,
         OutsidePorts, OutsideFwd, fwdVars, portVars
<1>3. Return(t) \/ Abandon(t)
  BY DEF DeviceStarts, DeviceStartFails, DeviceStop, DeviceClose, ClosePrune, DeviceReset,
         setup_attached_port, Detach, Launch, StopWait, ConfigureFails, IsolateFails
<1> QED
  BY <1>1, <1>2, <1>3, ReturnKeepsShape, AbandonKeepsShape, ReturnMoves

\* A step that has an inner one done in its place, or ends
LEMMA InnerShaped ==
    ASSUME Basics, NEW t \in Threads, NEW o \in Inner, NEW p \in Ports, todo[t] # << >>,
           Return(t) \/ Then(t, <<Step(o, p)>>), UNCHANGED <<opts, overlapped>>,
           todo[t][1].op \notin {"reset_device", "reset_port", "reset_all"},
           o = "dev_close" => todo[t][1].op \in {"close_port", "close_each"},
           todo[t][1].op \in Leaving => o \in Leaving
    PROVE  Shaped' /\ Alone' /\ Moves(t)
<1>1. CASE Return(t)
  BY <1>1, ReturnKeepsShape, ReturnMoves
<1>2. CASE Then(t, <<Step(o, p)>>)
  <2>1. Shaped' /\ Alone'
    BY <1>2, ThenKeepsShape
  <2>2. Moves(t)
    BY <1>2, ThenMoves
  <2> QED
    BY <2>1, <2>2
<1> QED
  BY <1>1, <1>2

LEMMA ZeroPort == 0 \in Ports
  BY StateAssumption DEF Ports

\* The least of some numbers
LEMMA LeastOf ==
    ASSUME NEW n \in Nat, NEW S \in SUBSET (0 .. n), S # {}
    PROVE  Min(S) \in S /\ \A y \in S : Min(S) <= y
<1> DEFINE m == InOrder(S)
           c == Cardinality(S)
<1>0. \A k \in S : k \in Int
  OBVIOUS
<1>1. c \in Nat /\ m \in [1 .. c -> S]
  BY InOrderEnumerates DEF Enumerates
<1>2. /\ \A i, j \in DOMAIN m : i < j => m[i] < m[j]
      /\ \A k \in S : \E i \in DOMAIN m : m[i] = k
  BY InOrderEnumerates DEF Enumerates
<1> HIDE DEF m, c
<1>3. \A k \in S : \E i \in 1 .. c : m[i] = k
  BY <1>1, <1>2
<1>4. 1 \in 1 .. c
  <2>1. PICK k \in S : TRUE
    OBVIOUS
  <2>2. PICK i \in 1 .. c : m[i] = k
    BY <1>3
  <2> QED
    BY <1>1
<1>5. m[1] \in S
  BY <1>1, <1>4
<1>6. ASSUME NEW y \in S
      PROVE  m[1] <= y
  <2>1. PICK i \in 1 .. c : m[i] = y
    BY <1>3
  <2>2. CASE i = 1
    BY <1>5, <2>1, <2>2
  <2>3. CASE i # 1
    <3>1. 1 < i /\ 1 \in DOMAIN m /\ i \in DOMAIN m
      BY <1>1, <1>4, <2>3
    <3>2. m[1] < m[i]
      BY <1>2, <3>1
    <3>3. m[1] \in Int /\ y \in Int
      BY <1>0, <1>5
    <3>4. m[1] < y
      BY <2>1, <3>2
    <3> QED
      BY <3>3, <3>4
  <2> QED
    BY <2>2, <2>3
<1>7. \E x \in S : \A y \in S : x <= y
  BY <1>5, <1>6
<1> QED
  BY <1>7 DEF Min

\* A device that is not probed leaves a port free.
LEMMA FreePort ==
    ASSUME Basics, spare # {}
    PROVE  Min(Ports \ valid) \in Ports \ valid
<1>1. MaxPorts \in Nat /\ opts.devices \in 0 .. MaxPorts /\ valid \subseteq Ports
  BY StateAssumption DEF Basics, PortTypes
<1>2. PICK d \in spare : TRUE
  OBVIOUS
<1>3. d \in Devices /\ spare \subseteq Devices
  BY <1>2 DEF Basics, Kept
<1>4. Ports \ valid # {}
  <2> SUFFICES ASSUME Ports = valid
               PROVE  FALSE
    BY <1>1
  <2> DEFINE T == Devices \ {d}
             f == [p \in Ports |-> dev[p].id]
  <2>1. IsFiniteSet(Ports) /\ Cardinality(Ports) = MaxPorts
    <3>1. 0 \in Int /\ MaxPorts - 1 \in Int
      BY <1>1
    <3>2. IsFiniteSet(Ports) /\ Cardinality(Ports) = IF 0 > MaxPorts - 1 THEN 0 ELSE (MaxPorts - 1) - 0 + 1
      BY <3>1, FS_Interval DEF Ports
    <3> QED
      BY <1>1, <3>2
  <2>2. IsFiniteSet(Devices) /\ Cardinality(Devices) = opts.devices
    <3>1. 0 \in Int /\ opts.devices - 1 \in Int
      BY <1>1
    <3>2. IsFiniteSet(Devices) /\ Cardinality(Devices) = IF 0 > opts.devices - 1 THEN 0 ELSE (opts.devices - 1) - 0 + 1
      BY <3>1, FS_Interval DEF Devices
    <3> QED
      BY <1>1, <3>2
  <2>3. IsFiniteSet(T) /\ Cardinality(T) = opts.devices - 1
    BY <1>3, <2>2, FS_RemoveElement
  <2>4. f \in [Ports -> T]
    BY <1>2 DEF Basics, Kept
  <2> HIDE DEF T, f
  <2>5. Cardinality(T) < Cardinality(Ports)
    BY <1>1, <2>1, <2>3
  <2>6. \E x, y \in Ports : x # y /\ f[x] = f[y]
    BY <2>1, <2>3, <2>4, <2>5, FS_PigeonHole
  <2> QED
    BY <2>6 DEF f, Basics, Kept
<1> DEFINE S == Ports \ valid
<1>5. S \in SUBSET (0 .. MaxPorts) /\ S # {}
  BY <1>1, <1>4 DEF Ports
<1> HIDE DEF S
<1>6. Min(S) \in S
  BY <1>1, <1>5, LeastOf
<1> QED
  BY <1>6 DEF S

LEMMA TurningShaped ==
    ASSUME Basics, NEW t \in Threads,
           \/ StartClaim(t) \/ Configure(t) \/ StopCheck(t) \/ StopClaim(t) \/ CloseCheck(t)
           \/ Probe(t) \/ ProbeAgain(t) \/ StartCheck(t) \/ StartSetUp(t) \/ StopTell(t)
    PROVE  Shaped' /\ Alone' /\ Moves(t)
<1>1. todo[t] # << >>
  BY AtHasSteps DEF StartClaim, Configure, StopCheck, StopClaim, CloseCheck, Probe, ProbeAgain,
                    StartCheck, StartSetUp, StopTell
<1>2. UNCHANGED <<opts, overlapped>>
  BY DEF StartClaim, Configure, StopCheck, StopClaim, CloseCheck, Probe, ProbeAgain,
         StartCheck, StartSetUp, StopTell, OutsidePorts, OutsideFwd, fwdVars, portVars
<1>3. /\ Port(t) \in Ports /\ 0 \in Ports
      /\ \A op : At(t, op) <=> todo[t][1].op = op
  BY <1>1, AtHead, ZeroPort
<1>4. ASSUME NEW o \in Inner, NEW p \in Ports, NEW a, At(t, a), Return(t) \/ Then(t, <<Step(o, p)>>),
             a \notin {"reset_device", "reset_port", "reset_all"},
             o = "dev_close" => a \in {"close_port", "close_each"},
             a \in Leaving => o \in Leaving
      PROVE  Shaped' /\ Alone' /\ Moves(t)
  <2>1. todo[t][1].op = a
    BY <1>3, <1>4
  <2> QED
    BY <1>1, <1>2, <1>4, <2>1, InnerShaped
<1>5. CASE StartClaim(t)
  <2>1. At(t, "start_port") /\ (Return(t) \/ Then(t, <<Step("configure", Port(t))>>))
    BY <1>5 DEF StartClaim
  <2> QED
    BY <1>3, <1>4, <2>1 DEF Inner, Leaving
<1>6. CASE Configure(t)
  <2>1. At(t, "configure") /\ Then(t, <<Step("dev_start", Port(t))>>)
    BY <1>6 DEF Configure
  <2> QED
    BY <1>3, <1>4, <2>1 DEF Inner, Leaving
<1>7. CASE StopCheck(t)
  <2>1. At(t, "stop_port") /\ (Return(t) \/ Then(t, <<Step("stop_claim", Port(t))>>))
    BY <1>7 DEF StopCheck
  <2> QED
    BY <1>3, <1>4, <2>1 DEF Inner, Leaving
<1>8. CASE StopClaim(t)
  <2>1. At(t, "stop_claim") /\ (Return(t) \/ Then(t, <<Step("dev_stop", Port(t))>>))
    BY <1>8 DEF StopClaim
  <2> QED
    BY <1>3, <1>4, <2>1 DEF Inner, Leaving
<1>9. CASE CloseCheck(t)
  <2>1. (At(t, "close_port") \/ At(t, "close_each")) /\ (Return(t) \/ Then(t, <<Step("dev_close", Port(t))>>))
    BY <1>9 DEF CloseCheck
  <2> QED
    BY <1>3, <1>4, <2>1 DEF Inner, Leaving
<1>10. CASE StartCheck(t)
  <2>1. At(t, "start") /\ (Return(t) \/ Then(t, <<Step("set_up", 0)>>))
    BY <1>10 DEF StartCheck
  <2> QED
    BY <1>3, <1>4, <2>1 DEF Inner, Leaving
<1>11. CASE StartSetUp(t)
  <2>1. At(t, "set_up") /\ Then(t, <<Step("launch", 0)>>)
    BY <1>11 DEF StartSetUp
  <2> QED
    BY <1>3, <1>4, <2>1 DEF Inner, Leaving
<1>12. CASE StopTell(t)
  <2>1. At(t, "stop") /\ (Return(t) \/ Then(t, <<Step("wait", 0)>>))
    BY <1>12 DEF StopTell
  <2> QED
    BY <1>3, <1>4, <2>1 DEF Inner, Leaving
<1>13. CASE ProbeAgain(t)
  <2>1. At(t, "attach") /\ \E p \in Ports : Return(t) \/ Then(t, <<Step("setup", p)>>)
    BY <1>3, <1>13 DEF ProbeAgain, Basics, PortTypes
  <2> QED
    BY <1>3, <1>4, <2>1 DEF Inner, Leaving
<1>14. CASE Probe(t)
  <2>1. At(t, "attach") /\ Then(t, <<Step("setup", Min(Ports \ valid))>>)
    BY <1>14 DEF Probe
  <2>2. Min(Ports \ valid) \in Ports
    BY <1>14, FreePort DEF Probe
  <2> QED
    BY <1>3, <1>4, <2>1, <2>2 DEF Inner, Leaving
<1> QED
  BY <1>5, <1>6, <1>7, <1>8, <1>9, <1>10, <1>11, <1>12, <1>13, <1>14

LEMMA EarlyReturnShaped ==
    ASSUME Basics, NEW t \in Threads, CloseInvalid(t)
    PROVE  Shaped' /\ Alone' /\ Moves(t)
<1>1. todo[t] # << >> /\ UNCHANGED <<opts, overlapped>>
  BY AtHasSteps DEF CloseInvalid, OutsidePorts
<1> DEFINE q == todo[t]
           r == SubSeq(q, 3, Len(q))
<1>2. q # << >> /\ q[1].op = "close_port" /\ Shape(q, t, Devices)
  BY <1>1, AtHead DEF CloseInvalid, Basics, Shaped
<1>3. todo' = [todo EXCEPT ![t] = r]
  BY DEF CloseInvalid
<1>4. Shape(r, t, Devices)
  <2> HIDE DEF q
  <2> QED
    BY <1>2, ShapeOfEarlyReturn
<1> HIDE DEF r
<1>5. Shaped' /\ Alone'
  BY <1>1, <1>3, <1>4, StepKeepsShape
<1>6. Moves(t)
  BY <1>1, <1>3 DEF Moves, Basics, Shaped
<1> QED
  BY <1>5, <1>6

LEMMA ResetShaped ==
    ASSUME Basics, NEW t \in Threads, ResetCheck(t)
    PROVE  Shaped' /\ Alone' /\ Moves(t)
<1>1. todo[t] # << >> /\ UNCHANGED <<opts, overlapped>>
  BY AtHasSteps DEF ResetCheck, OutsidePorts
<1>2. CASE Return(t)
  BY <1>1, <1>2, ReturnKeepsShape, ReturnMoves
<1>3. ASSUME NEW steps \in Seq(Steps), \A i \in 1 .. Len(steps) : steps[i].op = "reset_device", Then(t, steps)
      PROVE  Shaped' /\ Alone' /\ Moves(t)
  <2> DEFINE q == todo[t]
             r == steps \o Tail(q)
  <2>1. q # << >> /\ q[1].op \in {"reset_port", "reset_all"} /\ Shape(q, t, Devices)
    BY <1>1, AtHead DEF ResetCheck, Basics, Shaped
  <2>2. todo' = [todo EXCEPT ![t] = r]
    BY <1>3 DEF Then
  <2>3. Shape(r, t, Devices)
    <3> HIDE DEF q
    <3> QED
      BY <1>3, <2>1, ShapeOfReset
  <2> HIDE DEF r
  <2>4. Shaped' /\ Alone'
    BY <1>1, <2>2, <2>3, StepKeepsShape
  <2>5. Moves(t)
    BY <1>1, <1>3, ThenMoves
  <2> QED
    BY <2>4, <2>5
<1>4. "reset_device" \in Ops
  BY DEF Ops
<1>5. CASE Then(t, <<Step("reset_device", Port(t))>>)
  <2>1. Port(t) \in Ports
    BY <1>1, AtHead
  <2> DEFINE s == Step("reset_device", Port(t))
  <2>2. s \in Steps /\ s.op = "reset_device"
    BY <1>4, <2>1, StepTyped
  <2>3. Then(t, <<s>>)
    BY <1>5
  <2> HIDE DEF s
  <2>4. <<s>> \in Seq(Steps) /\ \A i \in 1 .. Len(<<s>>) : <<s>>[i].op = "reset_device"
    BY <2>2
  <2> QED
    BY <1>3, <2>3, <2>4
<1>6. CASE Then(t, ForEach("reset_device"))
  <2>1. ForEach("reset_device") \in Seq(Steps) /\ \A i \in 1 .. Len(ForEach("reset_device")) : ForEach("reset_device")[i].op = "reset_device"
    BY <1>4, ForEachTyped, StepTyped
  <2> QED
    BY <1>3, <1>6, <2>1
<1> QED
  BY <1>2, <1>5, <1>6 DEF ResetCheck

LEMMA RemovalShaped ==
    ASSUME Basics, NEW t \in Threads, SaveDevice(t)
    PROVE  Shaped' /\ Alone' /\ Moves(t)
<1>1. todo[t] # << >> /\ UNCHANGED <<opts, overlapped>>
  BY AtHasSteps DEF SaveDevice, OutsidePorts
<1>2. CASE Return(t)
  BY <1>1, <1>2, ReturnKeepsShape, ReturnMoves
<1>3. CASE ~Return(t)
  <2> DEFINE p == Port(t)
             a == Step("close_port", p)
             b == Step("prune", 0)
             c == Step("detach", dev[p].id)
             q == todo[t]
             r == <<a, b, c>> \o Tail(q)
  <2>1. p \in valid /\ Then(t, <<a, b, c>>)
    BY <1>3 DEF SaveDevice
  <2>2. p \in Ports /\ 0 \in Ports /\ dev[p].id \in Devices /\ dev[p].id \in Ports
    BY <1>1, <2>1, AtHead, ZeroPort DEF Basics, Kept, PortTypes
  <2>3. "close_port" \in Ops /\ "prune" \in Ops /\ "detach" \in Ops
    BY DEF Ops, Leaving
  <2>4. /\ a \in Steps /\ a.op = "close_port"
        /\ b \in Steps /\ b.op = "prune"
        /\ c \in Steps /\ c.op = "detach" /\ c.port \in Devices
    BY <2>2, <2>3, StepTyped
  <2>5. q # << >> /\ q[1].op = "save_device" /\ Shape(q, t, Devices)
    BY <1>1, AtHead DEF SaveDevice, Basics, Shaped
  <2>6. todo' = [todo EXCEPT ![t] = r]
    BY <2>1 DEF Then
  <2> HIDE DEF a, b, c, p
  <2>7. Shape(r, t, Devices)
    <3> HIDE DEF q
    <3> QED
      BY <2>4, <2>5, ShapeOfRemoval
  <2>8. Moves(t)
    BY <1>1, <2>1, ThenMoves
  <2> HIDE DEF r
  <2>9. Shaped' /\ Alone'
    BY <1>1, <2>6, <2>7, StepKeepsShape
  <2> QED
    BY <2>8, <2>9
<1> QED
  BY <1>2, <1>3

LEMMA StepShaped ==
    ASSUME Basics, NEW t \in Threads, PortStep(t) \/ FwdStep(t)
    PROVE  Shaped' /\ Alone' /\ Moves(t)
BY ReturningShaped, TurningShaped, EarlyReturnShaped, ResetShaped, RemovalShaped DEF PortStep, FwdStep

-----------------------------------------------------------------------------
(* Every step leaves the types, the devices where they are, and no port    *)
(* there is closed.                                                        *)

\* What stays when no port comes, goes or changes its device
LEMMA PortsStay ==
    ASSUME Basics, UNCHANGED <<opts, valid, spare, closed>>, \A p \in valid : dev'[p].id = dev[p].id
    PROVE  Kept'
<1>1. Devices' = Devices
  BY DEF Devices
<1> QED
  BY <1>1 DEF Basics, Kept

LEMMA CasTyped ==
    ASSUME Basics, NEW p, NEW new \in Statuses \ {"CLOSED"}, status' = Cas(status, p, "HANDLING", new), valid' = valid
    PROVE  status' \in [Ports -> Statuses] /\ NoneClosed'
BY DEF Basics, PortTypes, NoneClosed, Statuses, Cas

LEMMA OutsideStays ==
    ASSUME Basics, UNCHANGED OutsidePorts, UNCHANGED lists,
           valid' \in SUBSET Ports, status' \in [Ports -> Statuses],
           need' \in [Ports -> [setup : BOOLEAN, reconfig : BOOLEAN, queues : BOOLEAN]],
           dev' \in [Ports -> [id : Ports, state : DevStates, rxq : Nat, txq : Nat]]
    PROVE  PortTypes'
BY DEF Basics, PortTypes, OutsidePorts, fwdVars, userVars

Good == PortTypes /\ Kept /\ NoneClosed

LEMMA StatusSteps ==
    ASSUME Basics, NEW t \in Threads,
           \/ StartClaim(t) \/ DeviceStartFails(t) \/ StopClaim(t) \/ StopCheck(t) \/ CloseCheck(t) \/ CloseInvalid(t)
           \/ ResetCheck(t) \/ ProbeAgain(t) \/ SaveDevice(t)
    PROVE  Good'
<1>1. UNCHANGED <<valid, spare, closed, need, dev, lists, OutsidePorts>>
  BY DEF StartClaim, DeviceStartFails, StopClaim, StopCheck, CloseCheck, CloseInvalid, ResetCheck, ProbeAgain, SaveDevice, portVars
<1>2. status' \in [Ports -> Statuses] /\ NoneClosed'
  <2>1. CASE StartClaim(t) \/ StopClaim(t)
    BY <1>1, <2>1 DEF StartClaim, StopClaim, Basics, PortTypes, NoneClosed, Statuses
  <2>2. CASE DeviceStartFails(t)
    <3>1. status' = Cas(status, Port(t), "HANDLING", "STOPPED")
      BY <2>2 DEF DeviceStartFails
    <3> QED
      BY <1>1, <3>1, CasTyped DEF Statuses
  <2>3. CASE ~(StartClaim(t) \/ StopClaim(t) \/ DeviceStartFails(t))
    <3>1. status' = status
      BY <2>3 DEF StopCheck, CloseCheck, CloseInvalid, ResetCheck, ProbeAgain, SaveDevice, portVars
    <3> QED
      BY <1>1, <3>1 DEF Basics, PortTypes, NoneClosed
  <2> QED
    BY <2>1, <2>2, <2>3
<1>3. PortTypes'
  BY <1>1, <1>2, OutsideStays DEF Basics, PortTypes
<1>4. Kept'
  BY <1>1, PortsStay DEF OutsidePorts
<1> QED
  BY <1>2, <1>3, <1>4 DEF Good

\* need and dev records, when some of their fields are set
LEMMA NeedTyped ==
    ASSUME Basics, NEW p \in Ports, NEW r \in [setup : BOOLEAN, reconfig : BOOLEAN, queues : BOOLEAN]
    PROVE  [need EXCEPT ![p] = r] \in [Ports -> [setup : BOOLEAN, reconfig : BOOLEAN, queues : BOOLEAN]]
BY DEF Basics, PortTypes

LEMMA QueuesTyped ==
    ASSUME opts \in Options, settings.rxq \in Nat \ {0}, settings.txq \in Nat \ {0}, NEW p
    PROVE  /\ RxQueues(Conf(lists, settings, valid), p) \in Nat \ {0}
           /\ TxQueues(Conf(lists, settings, valid), p) \in Nat \ {0}
<1> DEFINE c == Conf(lists, settings, valid)
           S == {i \in DOMAIN c.streams_port : c.streams_port[i] = p}
<1>1. opts.streams_port \in Seq(0 .. opts.devices - 1) /\ opts.devices \in 0 .. MaxPorts
  BY StateAssumption
<1>2. c.streams_port = opts.streams_port /\ c.rxq = settings.rxq /\ c.txq = settings.txq
  BY DEF Conf
<1>3. Cardinality(S) \in Nat
  <2>1. DOMAIN c.streams_port = 1 .. Len(opts.streams_port) /\ Len(opts.streams_port) \in Nat
    BY <1>1, <1>2
  <2>2. S \in SUBSET (0 .. Len(opts.streams_port))
    BY <2>1
  <2> HIDE DEF S
  <2> QED
    BY <2>1, <2>2, InOrderEnumerates
<1>4. PortQueues(c, p) \in Nat
  BY <1>3 DEF PortQueues
<1> HIDE DEF c
<1>6. RxQueues(c, p) \in Nat \ {0} /\ TxQueues(c, p) \in Nat \ {0}
  BY <1>2, <1>4 DEF RxQueues, TxQueues
<1> QED
  BY <1>6 DEF c

LEMMA DeviceSteps ==
    ASSUME Basics, NEW t \in Threads,
           \/ ConfigureFails(t) \/ IsolateFails(t) \/ Configure(t) \/ DeviceStarts(t) \/ DeviceStop(t) \/ DeviceReset(t)
    PROVE  Good'
<1>1. UNCHANGED <<valid, spare, closed, lists, OutsidePorts>>
  BY DEF ConfigureFails, IsolateFails, Configure, DeviceStarts, DeviceStop, DeviceReset
<1> DEFINE p == Port(t)
<1>2. p \in Ports
  <2>1. todo[t] # << >>
    BY AtHasSteps DEF ConfigureFails, IsolateFails, Configure, DeviceStarts, DeviceStop, DeviceReset
  <2> QED
    BY <2>1, AtHead
<1>3. status' \in [Ports -> Statuses] /\ NoneClosed'
  <2>1. CASE status' = status
    BY <1>1, <2>1 DEF Basics, PortTypes, NoneClosed
  <2>2. CASE \E new \in {"STOPPED", "STARTED"} : status' = Cas(status, p, "HANDLING", new)
    BY <1>1, <2>2, CasTyped DEF Statuses
  <2> QED
    BY <2>1, <2>2 DEF ConfigureFails, IsolateFails, Configure, DeviceStarts, DeviceStop, DeviceReset
<1>4. dev[p] \in [id : Ports, state : DevStates, rxq : Nat, txq : Nat] /\ need[p] \in [setup : BOOLEAN, reconfig : BOOLEAN, queues : BOOLEAN]
  BY <1>2 DEF Basics, PortTypes
<1> HIDE DEF p
<1>5. need' = need \/ \E r \in [setup : BOOLEAN, reconfig : BOOLEAN, queues : BOOLEAN] : need' = [need EXCEPT ![p] = r]
  <2>1. CASE ConfigureFails(t) \/ IsolateFails(t)
    <3>1. need' = need \/ need' = [need EXCEPT ![p].reconfig = FALSE]
      BY <2>1 DEF ConfigureFails, IsolateFails, p
    <3> DEFINE r == [need[p] EXCEPT !.reconfig = FALSE]
    <3>2. r \in [setup : BOOLEAN, reconfig : BOOLEAN, queues : BOOLEAN]
      BY <1>4
    <3>3. [need EXCEPT ![p].reconfig = FALSE] = [need EXCEPT ![p] = r]
      OBVIOUS
    <3> HIDE DEF r
    <3> QED
      BY <3>1, <3>2, <3>3
  <2>2. CASE Configure(t)
    <3> DEFINE r == [setup |-> need[p].setup, reconfig |-> FALSE, queues |-> FALSE]
    <3>1. need' = [need EXCEPT ![p] = r]
      BY <2>2 DEF Configure, p
    <3>2. r \in [setup : BOOLEAN, reconfig : BOOLEAN, queues : BOOLEAN]
      BY <1>4
    <3> HIDE DEF r
    <3> QED
      BY <3>1, <3>2
  <2>3. CASE DeviceReset(t)
    <3>1. need' = need \/ need' = [need EXCEPT ![p].reconfig = TRUE, ![p].queues = TRUE]
      BY <2>3 DEF DeviceReset, p
    <3> DEFINE r == [setup |-> need[p].setup, reconfig |-> TRUE, queues |-> TRUE]
    <3>2. r \in [setup : BOOLEAN, reconfig : BOOLEAN, queues : BOOLEAN]
      BY <1>4
    <3>3. need' = need \/ need' = [need EXCEPT ![p] = r]
      BY <1>2, <1>4, <3>1 DEF Basics, PortTypes
    <3> HIDE DEF r
    <3> QED
      BY <3>2, <3>3
  <2>4. CASE DeviceStarts(t) \/ DeviceStop(t)
    BY <2>4 DEF DeviceStarts, DeviceStop
  <2> QED
    BY <2>1, <2>2, <2>3, <2>4
<1>6. dev' = dev \/ \E r \in [id : Ports, state : DevStates, rxq : Nat, txq : Nat] : r.id = dev[p].id /\ dev' = [dev EXCEPT ![p] = r]
  <2>1. CASE ConfigureFails(t) \/ Configure(t)
    <3> DEFINE r == [id |-> dev[p].id, state |-> "configured", rxq |-> 0, txq |-> 0]
               c == Conf(lists, settings, valid)
               s == [id |-> dev[p].id, state |-> "ready", rxq |-> RxQueues(c, p), txq |-> TxQueues(c, p)]
    <3>1. r \in [id : Ports, state : DevStates, rxq : Nat, txq : Nat] /\ r.id = dev[p].id
      BY <1>4 DEF DevStates
    <3>2. s \in [id : Ports, state : DevStates, rxq : Nat, txq : Nat] /\ s.id = dev[p].id
      <4>1. RxQueues(c, p) \in Nat /\ TxQueues(c, p) \in Nat
        BY QueuesTyped DEF Basics, PortTypes
      <4> HIDE DEF c
      <4> QED
        BY <1>4, <4>1 DEF DevStates
    <3>3. [Fresh(dev[p].id) EXCEPT !.state = "configured"] = r
      BY DEF Fresh
    <3>4. CASE ConfigureFails(t)
      <4>1. dev' = dev \/ dev' = [dev EXCEPT ![p] = r]
        BY <3>3, <3>4 DEF ConfigureFails, p
      <4> HIDE DEF r
      <4> QED
        BY <3>1, <4>1
    <3>5. CASE Configure(t)
      <4>1. dev' = dev \/ dev' = [dev EXCEPT ![p] = r] \/ dev' = [dev EXCEPT ![p] = s]
        BY <3>3, <3>5 DEF Configure, p
      <4> HIDE DEF r, s
      <4> QED
        BY <3>1, <3>2, <4>1
    <3> QED
      BY <2>1, <3>4, <3>5
  <2>2. CASE DeviceReset(t)
    <3> DEFINE r == [id |-> dev[p].id, state |-> "probed", rxq |-> 0, txq |-> 0]
    <3>1. r \in [id : Ports, state : DevStates, rxq : Nat, txq : Nat] /\ r.id = dev[p].id
      BY <1>4 DEF DevStates
    <3>2. dev' = dev \/ dev' = [dev EXCEPT ![p] = r]
      BY <2>2 DEF DeviceReset, p, Fresh
    <3> HIDE DEF r
    <3> QED
      BY <3>1, <3>2
  <2>3. CASE DeviceStarts(t) \/ DeviceStop(t)
    <3> DEFINE R(x) == [dev[p] EXCEPT !.state = x]
    <3>1. \A x \in DevStates : R(x) \in [id : Ports, state : DevStates, rxq : Nat, txq : Nat] /\ R(x).id = dev[p].id
      BY <1>4
    <3>2. \A x : [dev EXCEPT ![p].state = x] = [dev EXCEPT ![p] = R(x)]
      OBVIOUS
    <3>3. dev' = dev \/ \E x \in {"ready", "started"} : dev' = [dev EXCEPT ![p].state = x]
      BY <2>3 DEF DeviceStarts, DeviceStop, p
    <3> HIDE DEF R
    <3> QED
      BY <3>1, <3>2, <3>3 DEF DevStates
  <2>4. CASE IsolateFails(t)
    BY <2>4 DEF IsolateFails
  <2> QED
    BY <2>1, <2>2, <2>3, <2>4
<1>7. /\ need' \in [Ports -> [setup : BOOLEAN, reconfig : BOOLEAN, queues : BOOLEAN]]
      /\ dev' \in [Ports -> [id : Ports, state : DevStates, rxq : Nat, txq : Nat]]
      /\ \A x \in Ports : dev'[x].id = dev[x].id
  <2> DEFINE N == [setup : BOOLEAN, reconfig : BOOLEAN, queues : BOOLEAN]
             D == [id : Ports, state : DevStates, rxq : Nat, txq : Nat]
  <2>1. need \in [Ports -> N] /\ dev \in [Ports -> D]
    BY DEF Basics, PortTypes
  <2>2. /\ need' = need \/ \E r \in N : need' = [need EXCEPT ![p] = r]
        /\ dev' = dev \/ \E r \in D : r.id = dev[p].id /\ dev' = [dev EXCEPT ![p] = r]
    BY <1>5, <1>6
  <2> HIDE DEF N, D
  <2>3. need' \in [Ports -> N]
    BY <1>2, <2>1, <2>2
  <2>4. dev' \in [Ports -> D] /\ \A x \in Ports : dev'[x].id = dev[x].id
    BY <1>2, <2>1, <2>2
  <2> QED
    BY <2>3, <2>4 DEF N, D
<1>8. PortTypes'
  BY <1>1, <1>3, <1>7, OutsideStays DEF Basics, PortTypes
<1>9. Kept'
  BY <1>1, <1>7, PortsStay DEF OutsidePorts, Basics, PortTypes
<1> QED
  BY <1>3, <1>8, <1>9 DEF Good

\* The first entries of a list
LEMMA FirstOnes ==
    ASSUME NEW S, NEW list \in Seq(S), NEW n \in Nat, n <= Len(list)
    PROVE  /\ SubSeq(list, 1, n) \in Seq(S) /\ Len(SubSeq(list, 1, n)) = n
           /\ DOMAIN SubSeq(list, 1, n) = 1 .. n
           /\ \A i \in 1 .. n : SubSeq(list, 1, n)[i] = list[i]
<1>1. SubSeq(list, 1, n) \in Seq(S) /\ Len(SubSeq(list, 1, n)) = n
  OBVIOUS
<1>2. \A i \in 1 .. n : SubSeq(list, 1, n)[i] = list[i]
  OBVIOUS
<1>3. DOMAIN SubSeq(list, 1, n) = 1 .. n
  BY <1>1
<1> QED
  BY <1>1, <1>2, <1>3

\* What remains of a list of ports is in it and valid; no port that is valid is lost, and none
\* comes twice that did not.
LEMMA RemainingOnes ==
    ASSUME NEW S, NEW list \in Seq(S), NEW va
    PROVE  /\ Remaining(list, va) \in Seq(S)
           /\ ToSet(Remaining(list, va)) = ToSet(list) \cap va
           /\ IsInjective(list) => IsInjective(Remaining(list, va))
<1> DEFINE P == {i \in DOMAIN list : list[i] \in va}
           r == Remaining(list, va)
<1>1. P \in SUBSET (DOMAIN list) /\ r = Only(list, P)
  BY DEF Remaining
<1>2. \A k \in P : k \in DOMAIN list /\ list[k] \in va
  OBVIOUS
<1>3. \A k \in DOMAIN list : list[k] \in va => k \in P
  OBVIOUS
<1> HIDE DEF P, r
<1>4. r \in Seq(S)
  BY <1>1, OnlyThose
<1>5. PICK m \in [DOMAIN r -> P] :
                 /\ \A i \in DOMAIN r : r[i] = list[m[i]]
                 /\ \A i, j \in DOMAIN r : i < j => m[i] < m[j]
                 /\ \A k \in P : \E i \in DOMAIN r : m[i] = k
  BY <1>1, OnlyThose
<1>6. ToSet(r) = ToSet(list) \cap va
  <2>1. ASSUME NEW i \in DOMAIN r
        PROVE  r[i] \in ToSet(list) \cap va
    BY <1>2, <1>5, <2>1 DEF ToSet
  <2>2. ASSUME NEW k \in DOMAIN list, list[k] \in va
        PROVE  list[k] \in ToSet(r)
    <3>1. PICK i \in DOMAIN r : m[i] = k
      BY <1>3, <1>5, <2>2
    <3> QED
      BY <1>5, <3>1 DEF ToSet
  <2> QED
    BY <2>1, <2>2 DEF ToSet
<1>7. ASSUME IsInjective(list)
      PROVE  IsInjective(r)
  <2> SUFFICES ASSUME NEW i \in DOMAIN r, NEW j \in DOMAIN r, i # j, r[i] = r[j]
               PROVE  FALSE
    BY DEF IsInjective
  <2>1. m[i] = m[j]
    BY <1>2, <1>5, <1>7 DEF IsInjective
  <2>2. i \in Nat /\ j \in Nat /\ (i < j \/ j < i)
    BY <1>4
  <2>3. m[i] \in Int /\ m[j] \in Int
    BY <1>2, <1>5
  <2>4. m[i] < m[j] \/ m[j] < m[i]
    BY <1>5, <2>2
  <2> QED
    BY <2>1, <2>3, <2>4
<1> QED
  BY <1>4, <1>6, <1>7 DEF r

\* The forwarding ports
FwdPorts == SubSeq(lists.fwd_ids, 1, lists.nb_fwd_ports)

LEMMA FwdPortsTyped ==
    ASSUME Basics
    PROVE  /\ FwdPorts \in Seq(Ports) /\ Len(FwdPorts) = lists.nb_fwd_ports
           /\ \A i \in 1 .. lists.nb_fwd_ports : FwdPorts[i] = lists.fwd_ids[i]
           /\ \A p : port_is_forwarding(p) <=> p \in ToSet(FwdPorts)
           /\ ToSet(FwdPorts) \subseteq ToSet(lists.fwd_ids)
           /\ IsInjective(lists.fwd_ids) => IsInjective(FwdPorts)
<1>1. lists.fwd_ids \in Seq(Ports) /\ lists.nb_fwd_ports \in Nat /\ lists.nb_fwd_ports <= Len(lists.fwd_ids)
  BY DEF Basics, PortTypes
<1> DEFINE l == lists.fwd_ids
           n == lists.nb_fwd_ports
           f == FwdPorts
<1>2. l \in Seq(Ports) /\ n \in Nat /\ n <= Len(l) /\ f = SubSeq(l, 1, n)
  BY <1>1 DEF FwdPorts
<1> HIDE DEF l, n, f
<1>3. f \in Seq(Ports) /\ Len(f) = n /\ DOMAIN f = 1 .. n /\ \A i \in 1 .. n : f[i] = l[i]
  BY <1>2, FirstOnes
<1>4. \A i \in 1 .. n : i \in DOMAIN l
  BY <1>2
<1>5. ToSet(f) \subseteq ToSet(l)
  BY <1>3, <1>4 DEF ToSet
<1>6. IsInjective(l) => IsInjective(f)
  BY <1>3, <1>4 DEF IsInjective
<1>7. \A p : (\E i \in 1 .. n : l[i] = p) <=> p \in ToSet(f)
  BY <1>3 DEF ToSet
<1> QED
  BY <1>3, <1>5, <1>6, <1>7 DEF f, l, n, port_is_forwarding

LEMMA PrunedTyped ==
    ASSUME Basics, NEW va
    PROVE  /\ Pruned(lists, va) \in [ids : Seq(Ports), fwd_ids : Seq(Ports), nb_fwd_ports : Nat]
           /\ Pruned(lists, va).nb_fwd_ports = Len(Pruned(lists, va).fwd_ids)
           /\ ToSet(Pruned(lists, va).ids) = ToSet(lists.ids) \cap va
           /\ ToSet(Pruned(lists, va).fwd_ids) = ToSet(FwdPorts) \cap va
           /\ IsInjective(lists.fwd_ids) => IsInjective(Pruned(lists, va).fwd_ids)
<1> DEFINE i == Remaining(lists.ids, va)
           f == Remaining(FwdPorts, va)
<1>1. lists.ids \in Seq(Ports)
  BY DEF Basics, PortTypes
<1>2. i \in Seq(Ports) /\ ToSet(i) = ToSet(lists.ids) \cap va
  BY <1>1, RemainingOnes
<1>3. f \in Seq(Ports) /\ ToSet(f) = ToSet(FwdPorts) \cap va /\ (IsInjective(lists.fwd_ids) => IsInjective(f))
  BY FwdPortsTyped, RemainingOnes
<1>4. Pruned(lists, va) = [ids |-> i, fwd_ids |-> f, nb_fwd_ports |-> Len(f)]
  BY DEF Pruned, FwdPorts
<1> HIDE DEF i, f
<1>5. Len(f) \in Nat
  BY <1>3
<1> QED
  BY <1>2, <1>3, <1>4, <1>5

\* PortTypes of the variables that port steps change
LEMMA PortVarsTyped ==
    ASSUME Basics, UNCHANGED OutsidePorts,
           valid' \in SUBSET Ports, status' \in [Ports -> Statuses],
           need' \in [Ports -> [setup : BOOLEAN, reconfig : BOOLEAN, queues : BOOLEAN]],
           dev' \in [Ports -> [id : Ports, state : DevStates, rxq : Nat, txq : Nat]],
           \/ lists' = lists
           \/ /\ lists' \in [ids : Seq(Ports), fwd_ids : Seq(Ports), nb_fwd_ports : Nat]
              /\ lists'.nb_fwd_ports = Len(lists'.fwd_ids)
    PROVE  PortTypes'
<1>1. /\ lists' \in [ids : Seq(Ports), fwd_ids : Seq(Ports), nb_fwd_ports : Nat]
      /\ lists'.nb_fwd_ports <= Len(lists'.fwd_ids)
  <2>1. lists'.fwd_ids \in Seq(Ports) => Len(lists'.fwd_ids) \in Nat
    OBVIOUS
  <2> QED
    BY <2>1 DEF Basics, PortTypes
<1> QED
  BY <1>1 DEF Basics, PortTypes, OutsidePorts, fwdVars, userVars

LEMMA FreshTyped == ASSUME NEW d \in Ports PROVE Fresh(d) \in [id : Ports, state : DevStates, rxq : Nat, txq : Nat] /\ Fresh(d).id = d
BY DEF Fresh, DevStates

LEMMA PruneSteps ==
    ASSUME Basics, NEW t \in Threads, ClosePrune(t)
    PROVE  Good'
<1>1. UNCHANGED <<valid, spare, closed, status, need, dev, OutsidePorts>> /\ lists' = Pruned(lists, valid)
  BY DEF ClosePrune
<1>2. PortTypes'
  <2>1. /\ lists' \in [ids : Seq(Ports), fwd_ids : Seq(Ports), nb_fwd_ports : Nat]
        /\ lists'.nb_fwd_ports = Len(lists'.fwd_ids)
    BY <1>1, PrunedTyped
  <2>2. /\ valid' \in SUBSET Ports /\ status' \in [Ports -> Statuses]
        /\ need' \in [Ports -> [setup : BOOLEAN, reconfig : BOOLEAN, queues : BOOLEAN]]
        /\ dev' \in [Ports -> [id : Ports, state : DevStates, rxq : Nat, txq : Nat]]
    BY <1>1 DEF Basics, PortTypes
  <2> QED
    BY <1>1, <2>1, <2>2, PortVarsTyped
<1>3. Kept'
  BY <1>1, PortsStay DEF OutsidePorts
<1>4. NoneClosed'
  BY <1>1 DEF Basics, NoneClosed
<1> QED
  BY <1>2, <1>3, <1>4 DEF Good

LEMMA CloseSteps ==
    ASSUME Basics, NEW t \in Threads, DeviceClose(t)
    PROVE  Good'
<1> DEFINE p == Port(t)
<1>1. UNCHANGED <<spare, need, lists, OutsidePorts>>
  BY DEF DeviceClose
<1>2. p \in Ports
  <2>1. todo[t] # << >>
    BY AtHasSteps DEF DeviceClose
  <2> QED
    BY <2>1, AtHead
<1>3. \/ UNCHANGED <<valid, status, dev, closed>>
      \/ /\ p \in valid /\ valid' = valid \ {p} /\ status' = [status EXCEPT ![p] = "CLOSED"]
         /\ dev' = [dev EXCEPT ![p] = Fresh(dev[p].id)] /\ closed' = closed \cup {dev[p].id}
  BY DEF DeviceClose, Gone
<1> HIDE DEF p
<1>4. CASE UNCHANGED <<valid, status, dev, closed>>
  <2>1. PortTypes'
    BY <1>1, <1>4, PortVarsTyped DEF Basics, PortTypes
  <2>2. Kept'
    BY <1>1, <1>4, PortsStay DEF OutsidePorts
  <2> QED
    BY <1>4, <2>1, <2>2 DEF Good, Basics, NoneClosed
<1>5. CASE /\ p \in valid /\ valid' = valid \ {p} /\ status' = [status EXCEPT ![p] = "CLOSED"]
           /\ dev' = [dev EXCEPT ![p] = Fresh(dev[p].id)] /\ closed' = closed \cup {dev[p].id}
  <2> DEFINE f == Fresh(dev[p].id)
             D == [id : Ports, state : DevStates, rxq : Nat, txq : Nat]
  <2>1. dev \in [Ports -> D] /\ dev[p].id \in Ports
    BY <1>2 DEF Basics, PortTypes
  <2>2. f \in D /\ f.id = dev[p].id
    BY <2>1, FreshTyped
  <2>3. dev' = [dev EXCEPT ![p] = f]
    BY <1>5
  <2> HIDE DEF f, D
  <2>4. dev' \in [Ports -> D] /\ \A x \in Ports : dev'[x].id = dev[x].id
    BY <1>2, <2>1, <2>2, <2>3
  <2>5. /\ valid' \in SUBSET Ports /\ status' \in [Ports -> Statuses]
    BY <1>2, <1>5 DEF Basics, PortTypes, Statuses
  <2>6. PortTypes'
    BY <1>1, <2>4, <2>5, PortVarsTyped DEF Basics, PortTypes, D
  <2>7. Kept'
    <3>1. Devices' = Devices
      BY <1>1 DEF Devices, OutsidePorts
    <3>2. \A x \in valid' : x \in valid /\ x # p /\ dev'[x].id = dev[x].id
      BY <1>5, <2>4 DEF Basics, PortTypes
    <3>3. \A d \in Devices : d \in spare \/ d \in closed \/ d = dev[p].id \/ \E x \in valid' : dev[x].id = d
      BY <1>5 DEF Basics, Kept
    <3> QED
      BY <1>1, <1>5, <3>1, <3>2, <3>3 DEF Basics, Kept
  <2>8. NoneClosed'
    BY <1>5 DEF Basics, NoneClosed, PortTypes
  <2> QED
    BY <2>6, <2>7, <2>8 DEF Good
<1> QED
  BY <1>3, <1>4, <1>5

LEMMA ProbeSteps ==
    ASSUME Basics, NEW t \in Threads, Probe(t)
    PROVE  Good'
<1> DEFINE p == Min(Ports \ valid)
<1>1. UNCHANGED <<closed, lists, OutsidePorts>> /\ spare # {}
  BY DEF Probe
<1>2. p \in Ports /\ p \notin valid
  BY <1>1, FreePort
<1>3. PICK d \in spare : spare' = spare \ {d} /\ dev' = [dev EXCEPT ![p] = Fresh(d)]
  BY DEF Probe
<1>4. /\ valid' = valid \cup {p} /\ status' = [status EXCEPT ![p] = "HANDLING"]
      /\ need' = [need EXCEPT ![p].setup = TRUE]
  BY DEF Probe
<1> HIDE DEF p
<1>5. d \in Ports /\ d \in Devices
  <2>1. MaxPorts \in Nat /\ opts.devices \in 0 .. MaxPorts
    BY StateAssumption DEF Basics, PortTypes
  <2>2. d \in Devices
    BY <1>3 DEF Basics, Kept
  <2> QED
    BY <2>1, <2>2 DEF Devices, Ports
<1>6. dev' \in [Ports -> [id : Ports, state : DevStates, rxq : Nat, txq : Nat]] /\ dev'[p].id = d /\ \A x \in Ports : x # p => dev'[x] = dev[x]
  <2> DEFINE f == Fresh(d)
             D == [id : Ports, state : DevStates, rxq : Nat, txq : Nat]
  <2>1. dev \in [Ports -> D]
    BY DEF Basics, PortTypes
  <2>2. f \in D /\ f.id = d
    BY <1>5, FreshTyped
  <2>3. dev' = [dev EXCEPT ![p] = f]
    BY <1>3
  <2> HIDE DEF f, D
  <2>4. dev' \in [Ports -> D] /\ dev'[p].id = d /\ \A x \in Ports : x # p => dev'[x] = dev[x]
    BY <1>2, <2>1, <2>2, <2>3
  <2> QED
    BY <2>4 DEF D
<1>7. need' \in [Ports -> [setup : BOOLEAN, reconfig : BOOLEAN, queues : BOOLEAN]]
  <2> DEFINE r == [need[p] EXCEPT !.setup = TRUE]
  <2>1. r \in [setup : BOOLEAN, reconfig : BOOLEAN, queues : BOOLEAN]
    BY <1>2 DEF Basics, PortTypes
  <2>2. need' = [need EXCEPT ![p] = r]
    BY <1>4
  <2> HIDE DEF r
  <2> QED
    BY <1>2, <2>1, <2>2, NeedTyped
<1>8. valid' \in SUBSET Ports /\ status' \in [Ports -> Statuses]
  BY <1>2, <1>4 DEF Basics, PortTypes, Statuses
<1>9. PortTypes'
  BY <1>1, <1>6, <1>7, <1>8, PortVarsTyped
<1>10. Kept'
  <2>1. Devices' = Devices
    BY <1>1 DEF Devices, OutsidePorts
  <2>2. \A x \in valid' : (x = p /\ dev'[x].id = d) \/ (x \in valid /\ x # p /\ dev'[x].id = dev[x].id)
    <3>1. valid \subseteq Ports
      BY DEF Basics, PortTypes
    <3>2. \A x \in valid' : x = p \/ x \in valid
      BY <1>4
    <3> QED
      BY <1>2, <1>6, <3>1, <3>2
  <2>3. \A x \in valid : x \in valid' /\ dev'[x].id = dev[x].id
    BY <1>2, <1>4, <1>6 DEF Basics, PortTypes
  <2>4. p \in valid' /\ dev'[p].id = d
    BY <1>4, <1>6
  <2> QED
    BY <1>1, <1>3, <1>5, <2>1, <2>2, <2>3, <2>4 DEF Basics, Kept
<1>11. NoneClosed'
  BY <1>2, <1>4 DEF Basics, NoneClosed, PortTypes
<1> QED
  BY <1>9, <1>10, <1>11 DEF Good

\* setup_attached_port() adds the ports it is called for, each once, behind the others.
LEMMA NewPorts ==
    ASSUME Basics, NEW p \in Ports
    PROVE  /\ InOrder(ToSetUp(p)) \in Seq(Ports)
           /\ ToSet(InOrder(ToSetUp(p))) = ToSetUp(p)
           /\ IsInjective(InOrder(ToSetUp(p)))
           /\ ToSetUp(p) \subseteq Ports
<1> DEFINE S == ToSetUp(p)
           m == InOrder(S)
           c == Cardinality(S)
<1>1. MaxPorts \in Nat /\ S \in SUBSET (0 .. MaxPorts) /\ S \subseteq Ports
  <2>1. MaxPorts \in Nat
    BY StateAssumption
  <2>2. S \subseteq Ports
    BY DEF ToSetUp, Basics, PortTypes
  <2> HIDE DEF S
  <2> QED
    BY <2>1, <2>2 DEF Ports
<1> HIDE DEF S
<1>2. c \in Nat /\ Enumerates(m, S)
  BY <1>1, InOrderEnumerates
<1> HIDE DEF m, c
<1>3. /\ m \in [1 .. c -> S]
      /\ \A i, j \in 1 .. c : i < j => m[i] < m[j]
      /\ \A k \in S : \E i \in 1 .. c : m[i] = k
  BY <1>2 DEF Enumerates, c
<1>4. m \in Seq(Ports) /\ DOMAIN m = 1 .. c
  <2>1. m \in [1 .. c -> Ports]
    BY <1>1, <1>3
  <2> QED
    BY <1>2, <2>1
<1>5. ToSet(m) = S
  BY <1>3, <1>4 DEF ToSet
<1>6. IsInjective(m)
  <2> SUFFICES ASSUME NEW i \in 1 .. c, NEW j \in 1 .. c, i # j, m[i] = m[j]
               PROVE  FALSE
    BY <1>4 DEF IsInjective
  <2>1. i < j \/ j < i
    BY <1>2
  <2>2. m[i] < m[j] \/ m[j] < m[i]
    BY <1>3, <2>1
  <2>3. m[i] \in Int
    <3>1. \A k \in S : k \in Int
      BY <1>1
    <3> QED
      BY <1>3, <3>1
  <2> QED
    BY <2>2, <2>3
<1> QED
  BY <1>1, <1>4, <1>5, <1>6 DEF m, S

\* Two lists one behind the other
LEMMA BothLists ==
    ASSUME NEW S, NEW a \in Seq(S), NEW b \in Seq(S)
    PROVE  /\ a \o b \in Seq(S) /\ Len(a \o b) \in Nat
           /\ ToSet(a \o b) = ToSet(a) \cup ToSet(b)
           /\ IsInjective(a) /\ IsInjective(b) /\ ToSet(a) \cap ToSet(b) = {} => IsInjective(a \o b)
<1> DEFINE c == a \o b
           m == Len(a)
           n == Len(b)
<1>1. /\ c \in Seq(S) /\ Len(c) = m + n /\ m \in Nat /\ n \in Nat
      /\ \A i \in 1 .. m : c[i] = a[i]
      /\ \A i \in 1 .. n : c[m + i] = b[i]
  BY Joined
<1>2. DOMAIN a = 1 .. m /\ DOMAIN b = 1 .. n
  OBVIOUS
<1> HIDE DEF c, m, n
<1>3. DOMAIN c = 1 .. m + n
  BY <1>1
<1>4. \A i \in 1 .. m : i \in 1 .. m + n
  BY <1>1
<1>5. \A i \in 1 .. n : m + i \in 1 .. m + n
  BY <1>1
<1>6. \A i \in 1 .. m + n : i \in 1 .. m \/ (i - m \in 1 .. n /\ i = m + (i - m))
  BY <1>1
<1>9. \A i \in 1 .. m + n : (i \in 1 .. m /\ c[i] = a[i]) \/ \E k \in 1 .. n : i = m + k /\ c[i] = b[k]
  <2> SUFFICES ASSUME NEW i \in 1 .. m + n, i \notin 1 .. m
               PROVE  \E k \in 1 .. n : i = m + k /\ c[i] = b[k]
    BY <1>1
  <2> DEFINE k == i - m
  <2>1. k \in 1 .. n /\ i = m + k
    BY <1>6
  <2> HIDE DEF k
  <2> QED
    BY <1>1, <2>1
<1>7. ToSet(c) = ToSet(a) \cup ToSet(b)
  <2>1. \A i \in 1 .. m + n : c[i] \in ToSet(a) \cup ToSet(b)
    BY <1>2, <1>9 DEF ToSet
  <2>2. \A i \in 1 .. m : a[i] \in ToSet(c)
    BY <1>1, <1>3, <1>4 DEF ToSet
  <2>3. \A i \in 1 .. n : b[i] \in ToSet(c)
    BY <1>1, <1>3, <1>5 DEF ToSet
  <2> QED
    BY <1>2, <1>3, <2>1, <2>2, <2>3 DEF ToSet
<1>8. ASSUME IsInjective(a), IsInjective(b), ToSet(a) \cap ToSet(b) = {}
      PROVE  IsInjective(c)
  <2> SUFFICES ASSUME NEW i \in 1 .. m + n, NEW j \in 1 .. m + n, c[i] = c[j]
               PROVE  i = j
    BY <1>3 DEF IsInjective
  <2>1. \A k \in 1 .. m, l \in 1 .. n : a[k] # b[l]
    BY <1>2, <1>8 DEF ToSet
  <2>2. CASE i \in 1 .. m /\ j \in 1 .. m
    <3>1. a[i] = a[j]
      BY <1>1, <2>2
    <3> QED
      BY <1>2, <1>8, <2>2, <3>1 DEF IsInjective
  <2>3. CASE i \in 1 .. m /\ j \notin 1 .. m
    <3>1. PICK l \in 1 .. n : c[j] = b[l]
      BY <1>9, <2>3
    <3>2. a[i] = b[l]
      BY <1>1, <2>3, <3>1
    <3> QED
      BY <2>1, <2>3, <3>2
  <2>4. CASE i \notin 1 .. m /\ j \in 1 .. m
    <3>1. PICK l \in 1 .. n : c[i] = b[l]
      BY <1>9, <2>4
    <3>2. a[j] = b[l]
      BY <1>1, <2>4, <3>1
    <3> QED
      BY <2>1, <2>4, <3>2
  <2>5. CASE i \notin 1 .. m /\ j \notin 1 .. m
    <3>1. PICK k \in 1 .. n : i = m + k /\ c[i] = b[k]
      BY <1>9, <2>5
    <3>2. PICK l \in 1 .. n : j = m + l /\ c[j] = b[l]
      BY <1>9, <2>5
    <3>3. b[k] = b[l]
      BY <3>1, <3>2
    <3>4. k = l
      BY <1>2, <1>8, <3>3 DEF IsInjective
    <3> QED
      BY <3>1, <3>2, <3>4
  <2> QED
    BY <2>2, <2>3, <2>4, <2>5
<1> QED
  BY <1>1, <1>7, <1>8 DEF c

LEMMA SetUpSteps ==
    ASSUME Basics, NEW t \in Threads, setup_attached_port(t)
    PROVE  Good'
<1> DEFINE p == Port(t)
           new == InOrder(ToSetUp(p))
           ids == lists.ids \o new
           fwd == FwdPorts \o new
<1>1. UNCHANGED <<valid, spare, closed, dev, OutsidePorts>>
  BY DEF setup_attached_port
<1>2. p \in Ports
  <2>1. todo[t] # << >>
    BY AtHasSteps DEF setup_attached_port
  <2> QED
    BY <2>1, AtHead
<1>3. lists' = lists \/ lists' = [ids |-> ids, fwd_ids |-> fwd, nb_fwd_ports |-> Len(fwd)]
  BY DEF setup_attached_port, FwdPorts
<1>4. /\ need' = [q \in Ports |-> IF q \in ToSetUp(p) THEN [setup |-> FALSE, reconfig |-> TRUE, queues |-> TRUE]
                                  ELSE need[q]]
      /\ status' = [q \in Ports |-> IF q \in ToSetUp(p) THEN "STOPPED" ELSE status[q]]
  BY DEF setup_attached_port
<1> HIDE DEF p
<1>5. new \in Seq(Ports)
  BY <1>2, NewPorts
<1> HIDE DEF new
<1>6. ids \in Seq(Ports) /\ fwd \in Seq(Ports) /\ Len(fwd) \in Nat
  <2>1. lists.ids \in Seq(Ports) /\ FwdPorts \in Seq(Ports)
    BY FwdPortsTyped DEF Basics, PortTypes
  <2> QED
    BY <1>5, <2>1, BothLists
<1> HIDE DEF ids, fwd
<1>7. \/ lists' = lists
      \/ /\ lists' \in [ids : Seq(Ports), fwd_ids : Seq(Ports), nb_fwd_ports : Nat]
         /\ lists'.nb_fwd_ports = Len(lists'.fwd_ids)
  BY <1>3, <1>6
<1>8. need' \in [Ports -> [setup : BOOLEAN, reconfig : BOOLEAN, queues : BOOLEAN]]
  BY <1>4 DEF Basics, PortTypes
<1>9. status' \in [Ports -> Statuses] /\ NoneClosed'
  BY <1>1, <1>4 DEF Basics, PortTypes, NoneClosed, Statuses
<1>10. PortTypes'
  BY <1>1, <1>7, <1>8, <1>9, PortVarsTyped DEF Basics, PortTypes
<1>11. Kept'
  BY <1>1, PortsStay DEF OutsidePorts
<1> QED
  BY <1>9, <1>10, <1>11 DEF Good

LEMMA DetachSteps ==
    ASSUME Basics, NEW t \in Threads, Detach(t)
    PROVE  Good'
<1> DEFINE d == Port(t)
           siblings == {p \in valid : dev[p].id = d}
<1>1. UNCHANGED <<need, OutsidePorts>>
  BY DEF Detach
<1>2. d \in Ports /\ d \in Devices
  <2>1. todo[t] # << >>
    BY AtHasSteps DEF Detach
  <2>2. /\ d = todo[t][1].port /\ todo[t][1].op = "detach" /\ 1 \in 1 .. Len(todo[t]) /\ d \in Ports
    BY <2>1, AtHead DEF Detach
  <2>3. Shape(todo[t], t, Devices)
    BY DEF Basics, Shaped
  <2> HIDE DEF d
  <2> QED
    BY <2>2, <2>3 DEF Shape
<1>3. CASE UNCHANGED <<valid, status, dev, spare, closed, lists>>
  <2>1. PortTypes'
    BY <1>1, <1>3, PortVarsTyped DEF Basics, PortTypes
  <2>2. Kept'
    BY <1>1, <1>3, PortsStay DEF OutsidePorts
  <2> QED
    BY <1>3, <2>1, <2>2 DEF Good, Basics, NoneClosed
<1>4. CASE ~UNCHANGED <<valid, status, dev, spare, closed, lists>>
  <2>1. /\ valid' = valid \ siblings
        /\ status' = [p \in Ports |-> IF p \in siblings THEN "CLOSED" ELSE status[p]]
        /\ dev' = [p \in Ports |-> IF p \in siblings THEN Fresh(d) ELSE dev[p]]
        /\ closed' = closed \ {d}
        /\ spare' = spare \cup {d}
        /\ lists' = Pruned(lists, valid')
    BY <1>4 DEF Detach
  <2> HIDE DEF d
  <2>2. dev' \in [Ports -> [id : Ports, state : DevStates, rxq : Nat, txq : Nat]]
    <3> DEFINE f == Fresh(d)
               D == [id : Ports, state : DevStates, rxq : Nat, txq : Nat]
    <3>1. dev \in [Ports -> D]
      BY DEF Basics, PortTypes
    <3>2. f \in D
      BY <1>2, FreshTyped
    <3>3. dev' = [p \in Ports |-> IF p \in siblings THEN f ELSE dev[p]]
      BY <2>1
    <3> HIDE DEF f, D, siblings
    <3>4. dev' \in [Ports -> D]
      BY <3>1, <3>2, <3>3
    <3> QED
      BY <3>4 DEF D
  <2>3. valid' \in SUBSET Ports /\ status' \in [Ports -> Statuses]
    BY <2>1 DEF Basics, PortTypes, Statuses
  <2>4. /\ lists' \in [ids : Seq(Ports), fwd_ids : Seq(Ports), nb_fwd_ports : Nat]
        /\ lists'.nb_fwd_ports = Len(lists'.fwd_ids)
    <3> DEFINE va == valid \ siblings
    <3>1. lists' = Pruned(lists, va)
      BY <2>1
    <3> HIDE DEF va
    <3> QED
      BY <3>1, PrunedTyped
  <2>5. PortTypes'
    BY <1>1, <2>2, <2>3, <2>4, PortVarsTyped DEF Basics, PortTypes
  <2>6. \A x \in valid' : x \in valid /\ dev'[x] = dev[x] /\ status'[x] = status[x] /\ dev[x].id # d
    BY <2>1 DEF Basics, PortTypes
  <2>7. Kept'
    <3>1. Devices' = Devices
      BY <1>1 DEF Devices, OutsidePorts
    <3>2. \A x \in valid : dev[x].id = d \/ (x \in valid' /\ dev'[x] = dev[x])
      BY <2>1, <2>6
    <3> QED
      BY <1>2, <2>1, <2>6, <3>1, <3>2 DEF Basics, Kept
  <2>8. NoneClosed'
    BY <2>6 DEF Basics, NoneClosed
  <2> QED
    BY <2>5, <2>7, <2>8 DEF Good
<1> QED
  BY <1>3, <1>4

LEMMA PortStepGood ==
    ASSUME Basics, NEW t \in Threads, PortStep(t)
    PROVE  Good'
BY StatusSteps, DeviceSteps, PruneSteps, CloseSteps, ProbeSteps, SetUpSteps, DetachSteps DEF PortStep

-----------------------------------------------------------------------------
(* Forwarding, the commands and the removal of devices leave them too.     *)

LEMMA FwdStepGood ==
    ASSUME Basics, NEW t \in Threads, FwdStep(t)
    PROVE  Good'
<1>1. UNCHANGED OutsideFwd
  BY DEF FwdStep, StartCheck, StartSetUp, Launch, StopTell, StopWait
<1>2. {test_done', resized', sound'} \subseteq BOOLEAN
  <2>1. {test_done, resized, sound} \subseteq BOOLEAN
    BY DEF Basics, PortTypes
  <2>2. CASE StartSetUp(t)
    <3>1. test_done' = FALSE /\ sound' = Sound /\ resized' = (resized \/ \E lc \in Lcores : Running(lc))
      BY <2>2 DEF StartSetUp, Reconfigure
    <3>2. Sound \in BOOLEAN
      BY DEF Sound
    <3> HIDE DEF Sound
    <3> QED
      BY <2>1, <3>1, <3>2
  <2>3. CASE ~StartSetUp(t)
    BY <2>1, <2>3 DEF FwdStep, StartCheck, Launch, StopTell, StopWait, fwdVars
  <2> QED
    BY <2>2, <2>3
<1>3. PortTypes'
  BY <1>1, <1>2 DEF Basics, PortTypes, OutsideFwd, portVars, userVars
<1>4. Kept' /\ NoneClosed'
  BY <1>1, PortsStay DEF Basics, NoneClosed, OutsideFwd, portVars
<1> QED
  BY <1>3, <1>4 DEF Good

LEMMA CoreStepKeeps ==
    ASSUME Basics, CoreStep
    PROVE  Basics'
<1>1. UNCHANGED <<todo, OutsideFwd, test_done, resized, sound>>
  BY DEF CoreStep, CoreFinish
<1>2. UNCHANGED <<valid, spare, closed, status, need, dev, lists, settings, opts, test_done, todo, resized,
                  sound, overlapped, pending>>
  BY <1>1 DEF OutsideFwd, portVars, userVars
<1> QED
  BY <1>2, PortsStay DEF Basics, PortTypes, Shaped, Alone, NoneClosed, Devices

\* What calls begin with
Given == {"start", "stop", "start_port", "stop_port", "close_each", "close_port", "reset_port", "reset_all",
          "attach", "detach"}

\* The calls of several steps
Calls(t, q) ==
    /\ Call(t, q)
    /\ Shape(q, t, Devices)
    /\ q # << >> /\ q[1].op \in Given
    /\ pending' \in SUBSET Ports
    /\ UNCHANGED <<portVars, fwdVars, settings, opts>>

LEMMA CallsKeep ==
    ASSUME Basics, NEW t \in Threads, NEW q, Calls(t, q)
    PROVE  Basics'
<1>1. Shaped' /\ Alone' /\ overlapped' \in BOOLEAN
  BY CallKeepsShape DEF Calls
<1>2. UNCHANGED <<valid, spare, closed, status, need, dev, lists, settings, opts, test_done, resized, sound>>
  BY DEF Calls, portVars, fwdVars
<1>3. PortTypes'
  BY <1>1, <1>2 DEF Basics, PortTypes, Calls
<1>4. Kept' /\ NoneClosed'
  BY <1>2, PortsStay DEF Basics, NoneClosed
<1> QED
  BY <1>1, <1>3, <1>4 DEF Basics

\* The command line and the removal of a device make one call each, or none.
Commands == cmd_start \/ cmd_stop \/ cmd_operate_port \/ cmd_reset_port \/ cmd_attach \/ cmd_detach \/ cmd_quit

LEMMA DoCalls ==
    ASSUME Basics, NEW name, NEW q, Do(name, q), Shape(q, "cli", Devices), q # << >>, q[1].op \in Given
    PROVE  Calls("cli", q)
BY DEF Basics, PortTypes, Do, Give, Calls

LEMMA CommandsCall ==
    ASSUME Basics, Commands
    PROVE  \E q \in Seq(Steps) : Calls("cli", q) /\ (cmd_quit \/ \A i \in 1 .. Len(q) : q[i].op # "exit")
<1>0. valid \subseteq Ports /\ 0 \in Ports
  BY ZeroPort DEF Basics, PortTypes
<1> DEFINE Plain(q) == \A i \in 1 .. Len(q) : q[i].op # "exit"
           Goal == \E q \in Seq(Steps) : Calls("cli", q) /\ (cmd_quit \/ Plain(q))
<1> SUFFICES Goal
  OBVIOUS
<1>1. ASSUME NEW name, NEW q, Do(name, q), Shape(q, "cli", Devices), q # << >>, q[1].op \in Given,
             Plain(q) \/ cmd_quit
      PROVE  Goal
  <2>1. q \in Seq(Steps)
    BY <1>1 DEF Shape
  <2>2. Calls("cli", q)
    BY <1>1, DoCalls
  <2> HIDE DEF Plain
  <2> QED
    BY <1>1, <2>1, <2>2
<1>2. ASSUME NEW name, NEW o \in {"start", "stop", "start_port", "stop_port", "attach", "reset_port", "reset_all"},
             NEW p \in Ports, Do(name, <<Step(o, p)>>)
      PROVE  Goal
  <2> DEFINE s == Step(o, p)
             q == <<s>>
  <2>1. s.op = o
    BY DEF Step
  <2> HIDE DEF s
  <2>2. Plain(q) /\ q # << >> /\ q[1].op \in Given
    BY <2>1 DEF Given
  <2>3. Shape(q, "cli", Devices)
    BY ShapeOfOne DEF s
  <2>4. Do(name, q)
    BY <1>2 DEF s
  <2> HIDE DEF q, Plain, Goal
  <2> QED
    BY <1>1, <2>2, <2>3, <2>4
<1>3. ASSUME NEW name, NEW o \in {"start_port", "stop_port"}, Do(name, ForEach(o))
      PROVE  Goal
  <2>1. \A i \in 1 .. Len(ForEach(o)) : ForEach(o)[i].op = o
    <3>1. o \in Ops
      BY DEF Ops, Leaving
    <3> QED
      BY <3>1, ForEachTyped, StepTyped
  <2>2. Plain(ForEach(o))
    BY <2>1
  <2>3. Shape(ForEach(o), "cli", Devices)
    BY ShapeOfEach
  <2>4. ForEach(o) # << >> /\ ForEach(o)[1].op \in Given
    BY <2>1, EachIsSome DEF Given, Ops, Leaving
  <2> HIDE DEF Plain, Goal
  <2> QED
    BY <1>1, <1>3, <2>2, <2>3, <2>4
<1>4. ASSUME NEW name, NEW q, Do(name, q), Shape(q, "cli", Devices), q # << >>, q[1].op \in Given,
             \E i \in 1 .. Len(q) : q[i].op \notin Leaving \/ (q[Len(q)].op # "exit")
      PROVE  Goal
  <2>1. Plain(q)
    BY <1>4 DEF Shape
  <2> HIDE DEF Plain, Goal
  <2> QED
    BY <1>1, <1>4, <2>1
<1>5. Prune \in Seq(Steps) /\ Len(Prune) = 1 /\ Prune[1].op = "prune"
  <2>1. "prune" \in Ops
    BY DEF Ops, Leaving
  <2>2. Step("prune", 0) \in Steps /\ Step("prune", 0).op = "prune"
    BY <1>0, <2>1, StepTyped
  <2> QED
    BY <2>2 DEF Prune
<1>6. ASSUME NEW name, NEW a \in Seq(Steps), Do(name, a \o Prune), Shape(a \o Prune, "cli", Devices),
             a # << >>, a[1].op \in Given
      PROVE  Goal
  <2> DEFINE q == a \o Prune
             r == Prune
  <2>1. r \in Seq(Steps) /\ Len(r) = 1 /\ r[1].op = "prune"
    BY <1>5
  <2>2. Len(a) \in Nat /\ Len(q) = Len(a) + 1 /\ q[Len(a) + 1] = r[1] /\ q[1] = a[1] /\ q # << >>
    <3>1. 1 \in 1 .. Len(r)
      BY <2>1
    <3> HIDE DEF r
    <3>2. /\ a \o r \in Seq(Steps) /\ Len(a \o r) = Len(a) + Len(r) /\ Len(a) \in Nat
          /\ \A i \in 1 .. Len(a) : (a \o r)[i] = a[i]
          /\ \A i \in 1 .. Len(r) : (a \o r)[Len(a) + i] = r[i]
      <4>1. a \in Seq(Steps) /\ r \in Seq(Steps)
        BY <2>1
      <4> QED
        BY <4>1, Joined
    <3>3. 1 \in 1 .. Len(a)
      BY <1>6
    <3>4. Len(a \o r) # 0
      BY <2>1, <3>2
    <3> DEFINE w == a \o r
    <3>5. w \in Seq(Steps) /\ Len(w) # 0
      BY <3>2, <3>4
    <3>6. q = w
      BY DEF r
    <3> HIDE DEF w
    <3>7. w # << >>
      BY <3>5
    <3>8. /\ Len(w) = Len(a) + Len(r) /\ Len(a) \in Nat
          /\ \A i \in 1 .. Len(a) : w[i] = a[i]
          /\ \A i \in 1 .. Len(r) : w[Len(a) + i] = r[i]
      BY <3>2 DEF w
    <3> QED
      BY <2>1, <3>1, <3>3, <3>6, <3>7, <3>8
  <2>3. Do(name, q) /\ Shape(q, "cli", Devices)
    BY <1>6
  <2> HIDE DEF q, r
  <2>4. q[Len(q)].op # "exit" /\ Len(q) \in 1 .. Len(q)
    BY <2>1, <2>2
  <2>5. q # << >> /\ q[1].op \in Given
    BY <1>6, <2>2
  <2> HIDE DEF Goal
  <2> QED
    BY <1>4, <2>3, <2>4, <2>5
<1>7. CASE cmd_start
  <2>1. Do("start", <<Step("start", 0)>>)
    BY <1>7 DEF cmd_start
  <2> HIDE DEF Goal
  <2> QED
    BY <1>0, <1>2, <2>1
<1>8. CASE cmd_stop
  <2>1. Do("stop", <<Step("stop", 0)>>)
    BY <1>8 DEF cmd_stop
  <2> HIDE DEF Goal
  <2> QED
    BY <1>0, <1>2, <2>1
<1>9. CASE cmd_operate_port
  <2>1. \/ Do("port start", ForEach("start_port"))
        \/ Do("port stop", ForEach("stop_port"))
        \/ Do("port close", ForEach("close_each") \o Prune)
        \/ \E p \in valid : \/ Do("port start", <<Step("start_port", p)>>)
                            \/ Do("port stop", <<Step("stop_port", p)>>)
                            \/ Do("port close", <<Step("close_port", p)>> \o Prune)
    BY <1>9 DEF cmd_operate_port
  <2>2. ForEach("close_each") \in Seq(Steps) /\ ForEach("close_each") # << >> /\ ForEach("close_each")[1].op \in Given
    <3>1. "close_each" \in Ops
      BY DEF Ops
    <3> QED
      BY <3>1, ForEachTyped, EachIsSome DEF Given
  <2>3. \A p \in Ports : /\ <<Step("close_port", p)>> \in Seq(Steps)
                          /\ <<Step("close_port", p)>> # << >> /\ <<Step("close_port", p)>>[1].op \in Given
    <3>1. "close_port" \in Ops
      BY DEF Ops, Leaving
    <3>2. \A p \in Ports : Step("close_port", p) \in Steps /\ Step("close_port", p).op \in Given
      BY <3>1, StepTyped DEF Given
    <3> QED
      BY <3>2
  <2> HIDE DEF Goal
  <2>4. CASE Do("port start", ForEach("start_port")) \/ Do("port stop", ForEach("stop_port"))
    BY <1>3, <2>4
  <2>5. CASE Do("port close", ForEach("close_each") \o Prune)
    BY <1>6, <2>2, <2>5, ShapeOfClosing
  <2>6. ASSUME NEW p \in valid, Do("port start", <<Step("start_port", p)>>) \/ Do("port stop", <<Step("stop_port", p)>>)
        PROVE  Goal
    BY <1>0, <1>2, <2>6
  <2>7. ASSUME NEW p \in valid, Do("port close", <<Step("close_port", p)>> \o Prune)
        PROVE  Goal
    BY <1>0, <1>6, <2>3, <2>7, ShapeOfClosing
  <2> QED
    BY <2>1, <2>4, <2>5, <2>6, <2>7
<1>10. CASE cmd_reset_port
  <2>1. Do("port reset", <<Step("reset_all", 0)>>) \/ \E p \in valid : Do("port reset", <<Step("reset_port", p)>>)
    BY <1>10 DEF cmd_reset_port
  <2> HIDE DEF Goal
  <2> QED
    BY <1>0, <1>2, <2>1
<1>11. CASE cmd_attach
  <2>1. Do("port attach", <<Step("attach", 0)>>)
    BY <1>11 DEF cmd_attach
  <2> HIDE DEF Goal
  <2> QED
    BY <1>0, <1>2, <2>1
<1>12. CASE cmd_detach
  <2>1. PICK p \in valid : Do("port detach", <<Step("detach", dev[p].id)>>)
    BY <1>12 DEF cmd_detach
  <2> DEFINE s == Step("detach", dev[p].id)
             q == <<s>>
  <2>2. s \in Steps /\ s.op = "detach" /\ s.port \in Devices
    <3>1. "detach" \in Ops
      BY DEF Ops
    <3>2. dev[p].id \in Ports /\ dev[p].id \in Devices
      BY <1>0 DEF Basics, PortTypes, Kept
    <3> QED
      BY <3>1, <3>2, StepTyped
  <2>3. Do("port detach", q)
    BY <2>1
  <2> HIDE DEF s
  <2>4. q \in Seq(Steps) /\ \A i \in 1 .. Len(q) : q[i].op = "detach" /\ q[i].port \in Devices
    BY <2>2
  <2> HIDE DEF q
  <2>5. Shape(q, "cli", Devices)
    BY <2>4, ShapeOfPlain
  <2>6. Plain(q)
    BY <2>4
  <2>7. q # << >> /\ q[1].op \in Given
    BY <2>2 DEF q, Given
  <2> HIDE DEF Goal, Plain
  <2> QED
    BY <1>1, <2>3, <2>5, <2>6, <2>7
<1>13. CASE cmd_quit
  <2>1. Do("quit", Quitting)
    BY <1>13 DEF cmd_quit, Quitting, Closing
  <2>2. Shape(Quitting, "cli", Devices) /\ Quitting # << >> /\ Quitting[1].op \in Given
    BY ShapeOfQuitting DEF Given
  <2> HIDE DEF Goal
  <2> QED
    BY <1>1, <1>13, <2>1, <2>2
<1> QED
  BY <1>7, <1>8, <1>9, <1>10, <1>11, <1>12, <1>13 DEF Commands

\* The commands that change settings
Setting == set_nbport \/ set_nbcore \/ set_portlist \/ config_rx_tx \/ set_fwd_mode

LEMMA SettingsKeep ==
    ASSUME Basics, Setting
    PROVE  Basics'
<1>1. \E name : Set(name)
  BY DEF Setting, set_nbport, set_nbcore, set_portlist, config_rx_tx, set_fwd_mode
<1>2. /\ UNCHANGED <<valid, spare, closed, status, dev, opts, test_done, sound, todo, pending>>
      /\ todo["cli"] = << >> /\ overlapped' = (overlapped \/ todo["alarm"] # << >>)
  BY <1>1 DEF Set, Give
<1>3. Shaped' /\ Alone' /\ overlapped' \in BOOLEAN
  <2>1. \A t, u \in Threads : t # u => t = "cli" \/ u = "cli"
    BY DEF Threads
  <2>2. Shaped'
    BY <1>2 DEF Basics, Shaped, Devices
  <2>3. Alone'
    BY <1>2, <2>1 DEF Basics, Alone
  <2> QED
    BY <1>2, <2>2, <2>3 DEF Basics, PortTypes
<1>4. Kept' /\ NoneClosed'
  BY <1>2, PortsStay DEF Basics, NoneClosed
<1>5. resized' \in BOOLEAN
  BY DEF Basics, PortTypes, Setting, set_nbport, set_nbcore, set_portlist, config_rx_tx, set_fwd_mode, Reconfigure
<1>6. /\ lists' \in [ids : Seq(Ports), fwd_ids : Seq(Ports), nb_fwd_ports : Nat]
      /\ lists'.nb_fwd_ports <= Len(lists'.fwd_ids)
  <2>1. /\ lists \in [ids : Seq(Ports), fwd_ids : Seq(Ports), nb_fwd_ports : Nat]
        /\ lists.nb_fwd_ports <= Len(lists.fwd_ids) /\ Len(lists.fwd_ids) \in Nat
    BY DEF Basics, PortTypes
  <2>2. CASE set_nbport
    <3>1. PICK n \in 0 .. MaxPorts : lists' = IF n > Len(lists.fwd_ids) THEN lists ELSE [lists EXCEPT !.nb_fwd_ports = n]
      BY <2>2 DEF set_nbport
    <3>2. MaxPorts \in Nat
      BY StateAssumption
    <3> QED
      BY <2>1, <3>1, <3>2
  <2>3. CASE set_portlist
    <3>1. PICK ps \in PortLists : lists' = IF ToSet(ps) \subseteq valid
                                           THEN [lists EXCEPT !.fwd_ids = ps, !.nb_fwd_ports = Len(ps)]
                                           ELSE lists
      BY <2>3 DEF set_portlist
    <3>2. ps \in Seq(Ports)
      <4>1. ps \in BoundedSeq(Ports, MaxPorts)
        BY DEF PortLists
      <4> QED
        <5>1. PICK m \in 0 .. MaxPorts : ps \in [1 .. m -> Ports]
          BY <4>1 DEF BoundedSeq, SeqOf
        <5>2. MaxPorts \in Nat
          BY StateAssumption
        <5> QED
          BY <5>1, <5>2
    <3> DEFINE n == Len(ps)
    <3>3. n \in Nat /\ (lists' = lists \/ lists' = [lists EXCEPT !.fwd_ids = ps, !.nb_fwd_ports = n])
      BY <3>1, <3>2
    <3>4. CASE lists' = [lists EXCEPT !.fwd_ids = ps, !.nb_fwd_ports = n]
      <4> HIDE DEF n
      <4>1. lists' \in [ids : Seq(Ports), fwd_ids : Seq(Ports), nb_fwd_ports : Nat] /\ lists'.fwd_ids = ps /\ lists'.nb_fwd_ports = n
        BY <2>1, <3>2, <3>3, <3>4
      <4>2. n <= n
        BY <3>3
      <4> QED
        BY <4>1, <4>2 DEF n
    <3> QED
      BY <2>1, <3>3, <3>4
  <2>4. CASE ~(set_nbport \/ set_portlist)
    BY <2>1, <2>4 DEF Setting, set_nbcore, config_rx_tx, set_fwd_mode
  <2> QED
    BY <2>2, <2>3, <2>4
<1>7. settings' \in [lcores : 1 .. NbLcores, rxq : Nat \ {0}, txq : Nat \ {0}, eng : opts.engines]
  <2>1. settings \in [lcores : 1 .. NbLcores, rxq : Nat \ {0}, txq : Nat \ {0}, eng : opts.engines]
    BY DEF Basics, PortTypes
  <2>2. CASE settings' = settings
    BY <2>1, <2>2
  <2>3. ASSUME NEW n \in 1 .. NbLcores, settings' = [settings EXCEPT !.lcores = n]
        PROVE  settings' \in [lcores : 1 .. NbLcores, rxq : Nat \ {0}, txq : Nat \ {0}, eng : opts.engines]
    BY <2>1, <2>3
  <2>4. ASSUME NEW n \in Nat \ {0}, settings' = [settings EXCEPT !.rxq = n] \/ settings' = [settings EXCEPT !.txq = n]
        PROVE  settings' \in [lcores : 1 .. NbLcores, rxq : Nat \ {0}, txq : Nat \ {0}, eng : opts.engines]
    BY <2>1, <2>4
  <2>5. ASSUME NEW e \in opts.engines, settings' = [settings EXCEPT !.eng = e]
        PROVE  settings' \in [lcores : 1 .. NbLcores, rxq : Nat \ {0}, txq : Nat \ {0}, eng : opts.engines]
    BY <2>1, <2>5
  <2>6. CASE set_nbport \/ set_portlist
    BY <2>2, <2>6 DEF set_nbport, set_portlist
  <2>7. CASE set_nbcore
    BY <2>2, <2>3, <2>7 DEF set_nbcore
  <2>8. CASE config_rx_tx
    <3>1. \E n \in Nat \ {0} : settings' = [settings EXCEPT !.rxq = n] \/ settings' = [settings EXCEPT !.txq = n]
      <4>1. \/ \E n \in 1 .. MaxRxQueues : settings' = [settings EXCEPT !.rxq = n]
            \/ \E n \in 1 .. MaxTxQueues : settings' = [settings EXCEPT !.txq = n]
        BY <2>8 DEF config_rx_tx
      <4>2. \A n \in 1 .. MaxRxQueues : n \in Nat \ {0}
        BY QueuesAssumption
      <4>3. \A n \in 1 .. MaxTxQueues : n \in Nat \ {0}
        BY QueuesAssumption
      <4> QED
        BY <4>1, <4>2, <4>3
    <3> QED
      BY <2>4, <3>1
  <2>9. CASE set_fwd_mode
    BY <2>5, <2>9 DEF set_fwd_mode
  <2> QED
    BY <2>6, <2>7, <2>8, <2>9 DEF Setting
<1>8. need' \in [Ports -> [setup : BOOLEAN, reconfig : BOOLEAN, queues : BOOLEAN]]
  <2>1. need \in [Ports -> [setup : BOOLEAN, reconfig : BOOLEAN, queues : BOOLEAN]]
    BY DEF Basics, PortTypes
  <2>2. CASE config_rx_tx
    <3> DEFINE N == [setup : BOOLEAN, reconfig : BOOLEAN, queues : BOOLEAN]
               R(p) == [need[p] EXCEPT !.reconfig = TRUE, !.queues = TRUE]
    <3>1. \A p \in Ports : R(p) \in N /\ need[p] \in N
      BY <2>1
    <3>2. need' = [p \in Ports |-> IF p \in valid THEN R(p) ELSE need[p]]
      BY <2>2 DEF config_rx_tx
    <3> HIDE DEF N, R
    <3>3. need' \in [Ports -> N]
      BY <3>1, <3>2
    <3> QED
      BY <3>3 DEF N
  <2>3. CASE ~config_rx_tx
    BY <2>1, <2>3 DEF Setting, set_nbport, set_nbcore, set_portlist, set_fwd_mode
  <2> QED
    BY <2>2, <2>3
<1>9. PortTypes'
  <2>1. /\ opts' \in Options /\ valid' \in SUBSET Ports /\ status' \in [Ports -> Statuses]
        /\ dev' \in [Ports -> [id : Ports, state : DevStates, rxq : Nat, txq : Nat]]
        /\ pending' \in SUBSET Ports /\ opts' = opts
    BY <1>2 DEF Basics, PortTypes
  <2>2. {test_done', resized', overlapped', sound'} \subseteq BOOLEAN
    BY <1>2, <1>3, <1>5 DEF Basics, PortTypes
  <2> QED
    BY <1>6, <1>7, <1>8, <2>1, <2>2 DEF PortTypes
<1> QED
  BY <1>3, <1>4, <1>9 DEF Basics

LEMMA RemovalKeeps ==
    ASSUME Basics, Removal
    PROVE  Basics'
<1>1. UNCHANGED <<portVars, fwdVars, settings, opts, todo, overlapped>> /\ pending' \in SUBSET Ports
  BY DEF Removal, Basics, PortTypes
<1>2. UNCHANGED <<valid, spare, closed, status, need, dev, lists, settings, opts, test_done, todo, resized, sound, overlapped>>
  BY <1>1 DEF portVars, fwdVars
<1> QED
  BY <1>1, <1>2, PortsStay DEF Basics, PortTypes, Shaped, Alone, NoneClosed, Devices

LEMMA CallbackCalls ==
    ASSUME Basics, rmv_port_callback
    PROVE  \/ /\ UNCHANGED <<portVars, fwdVars, settings, opts, todo, overlapped>>
              /\ pending' \in SUBSET Ports
           \/ \E q \in Seq(Steps) : Calls("alarm", q) /\ q # << >> /\ q[1].op \in {"stop", "stop_port"}
<1>1. PICK p \in pending :
          LET need_to_start == ~test_done /\ port_is_forwarding(p)
          IN  /\ pending' = pending \ {p}
              /\ IF p \notin valid THEN todo["alarm"] = << >> /\ UNCHANGED <<todo, overlapped>>
                 ELSE IF need_to_start
                      THEN Call("alarm", <<Step("stop", 0), Step("stop_port", p), Step("save_device", p), Step("start", 0)>>)
                      ELSE Call("alarm", <<Step("stop_port", p), Step("save_device", p)>>)
  BY DEF rmv_port_callback
<1>2. UNCHANGED <<portVars, fwdVars, settings, opts>>
  BY DEF rmv_port_callback
<1>3. pending' \in SUBSET Ports /\ p \in Ports /\ 0 \in Ports
  BY <1>1, ZeroPort DEF Basics, PortTypes
<1> DEFINE a == Step("stop", 0)
           b == Step("stop_port", p)
           c == Step("save_device", p)
           d == Step("start", 0)
<1>4. /\ {a, b, c, d} \subseteq Steps
      /\ a.op = "stop" /\ b.op = "stop_port" /\ c.op = "save_device" /\ d.op = "start"
  <2>1. {"stop", "stop_port", "save_device", "start"} \subseteq Ops
    BY DEF Ops, Leaving
  <2> QED
    BY <1>3, <2>1, StepTyped
<1>5. \/ UNCHANGED <<todo, overlapped>>
      \/ Call("alarm", <<a, b, c, d>>)
      \/ Call("alarm", <<b, c>>)
  BY <1>1
<1> HIDE DEF a, b, c, d
<1>6. ASSUME NEW q \in Seq(Steps), Call("alarm", q), q # << >>, q[1].op \in {"stop", "stop_port"},
             \A i \in 1 .. Len(q) : q[i].op \in {"start", "stop", "start_port", "stop_port", "attach", "save_device"}
      PROVE  \E r \in Seq(Steps) : Calls("alarm", r) /\ r # << >> /\ r[1].op \in {"stop", "stop_port"}
  <2>1. Shape(q, "alarm", Devices)
    BY <1>6, ShapeOfPlain
  <2> QED
    BY <1>2, <1>3, <1>6, <2>1 DEF Calls, Given
<1>7. CASE Call("alarm", <<b, c>>)
  <2> DEFINE q == <<b, c>>
  <2>1. /\ q \in Seq(Steps) /\ q # << >> /\ q[1].op \in {"stop", "stop_port"}
        /\ \A i \in 1 .. Len(q) : q[i].op \in {"start", "stop", "start_port", "stop_port", "attach", "save_device"}
    BY <1>4
  <2>2. Call("alarm", q)
    BY <1>7
  <2> HIDE DEF q
  <2> QED
    BY <1>6, <2>1, <2>2
<1>8. CASE Call("alarm", <<a, b, c, d>>)
  <2> DEFINE q == <<a, b, c, d>>
  <2>2. /\ q \in Seq(Steps) /\ q # << >> /\ q[1].op \in {"stop", "stop_port"}
        /\ \A i \in 1 .. Len(q) : q[i].op \in {"start", "stop", "start_port", "stop_port", "attach", "save_device"}
    BY <1>4
  <2>3. Call("alarm", q)
    BY <1>8
  <2> HIDE DEF q
  <2> QED
    BY <1>6, <2>2, <2>3
<1> QED
  BY <1>2, <1>3, <1>5, <1>7, <1>8

LEMMA StepKeepsBasics ==
    ASSUME Basics, [Next]_vars
    PROVE  Basics'
<1>1. CASE UNCHANGED vars
  BY <1>1, PortsStay DEF vars, Basics, PortTypes, Shaped, Alone, NoneClosed, Devices
<1>2. CASE Commands
  BY <1>2, CommandsCall, CallsKeep DEF Threads
<1>3. CASE Setting
  BY <1>3, SettingsKeep
<1>4. CASE Removal
  BY <1>4, RemovalKeeps
<1>5. CASE rmv_port_callback
  <2>1. CASE UNCHANGED <<portVars, fwdVars, settings, opts, todo, overlapped>> /\ pending' \in SUBSET Ports
    <3>1. UNCHANGED <<valid, spare, closed, status, need, dev, lists, settings, opts, test_done, todo, resized, sound, overlapped>>
      BY <2>1 DEF portVars, fwdVars
    <3> QED
      BY <2>1, <3>1, PortsStay DEF Basics, PortTypes, Shaped, Alone, NoneClosed, Devices
  <2>2. CASE \E q \in Seq(Steps) : Calls("alarm", q)
    BY <2>2, CallsKeep DEF Threads
  <2> QED
    BY <1>5, <2>1, <2>2, CallbackCalls
<1>6. ASSUME NEW t \in Threads, PortStep(t) \/ FwdStep(t)
      PROVE  Basics'
  BY <1>6, StepShaped, PortStepGood, FwdStepGood DEF Good, Basics
<1>7. CASE CoreStep
  BY <1>7, CoreStepKeeps
<1>8. CASE Next
  BY <1>2, <1>3, <1>4, <1>5, <1>6, <1>7, <1>8 DEF Next, Commands, Setting
<1> QED
  BY <1>1, <1>8

-----------------------------------------------------------------------------
(* What testpmd starts with *)

\* The forwarding ports of a configuration file are ports of streams, each once.
LEMMA PortsOfFile ==
    ASSUME NEW S, NEW list \in Seq(S)
    PROVE  /\ PortsOf(list) \in Seq(S)
           /\ ToSet(PortsOf(list)) \subseteq ToSet(list)
           /\ IsInjective(PortsOf(list))
<1> DEFINE P == {i \in DOMAIN list : \A j \in 1 .. i - 1 : list[j] # list[i]}
           r == PortsOf(list)
<1>1. P \in SUBSET (DOMAIN list) /\ r = Only(list, P) /\ DOMAIN list = 1 .. Len(list)
  BY DEF PortsOf
<1>2. \A i, j \in P : i # j => list[i] # list[j]
  <2> SUFFICES ASSUME NEW i \in P, NEW j \in P, i < j
               PROVE  list[i] # list[j]
    BY <1>1
  <2> QED
    BY <1>1
<1>3. \A i \in P : i \in DOMAIN list /\ i \in Int
  BY <1>1
<1> HIDE DEF P, r
<1>4. r \in Seq(S)
  BY <1>1, OnlyThose
<1>5. PICK m \in [DOMAIN r -> P] :
                 /\ \A i \in DOMAIN r : r[i] = list[m[i]]
                 /\ \A i, j \in DOMAIN r : i < j => m[i] < m[j]
  BY <1>1, OnlyThose
<1>6. ToSet(r) \subseteq ToSet(list)
  BY <1>3, <1>5 DEF ToSet
<1>7. IsInjective(r)
  <2> SUFFICES ASSUME NEW i \in DOMAIN r, NEW j \in DOMAIN r, i # j, r[i] = r[j]
               PROVE  FALSE
    BY DEF IsInjective
  <2>1. m[i] = m[j]
    BY <1>2, <1>5
  <2>2. i < j \/ j < i
    BY <1>4
  <2>3. m[i] < m[j] \/ m[j] < m[i]
    BY <1>5, <2>2
  <2>4. m[i] \in Int /\ m[j] \in Int
    BY <1>3, <1>5
  <2> QED
    BY <2>1, <2>3, <2>4
<1> QED
  BY <1>4, <1>6, <1>7 DEF r

LEMMA InitLists ==
    ASSUME Init
    PROVE  /\ lists \in [ids : Seq(Ports), fwd_ids : Seq(Ports), nb_fwd_ports : Nat]
           /\ lists.nb_fwd_ports = Len(lists.fwd_ids)
           /\ ToSet(lists.ids) = Devices
           /\ ToSet(lists.fwd_ids) \subseteq Devices
           /\ IsInjective(lists.fwd_ids)
           /\ Devices \subseteq Ports
<1> DEFINE n == opts.devices
           all == [i \in 1 .. opts.devices |-> i - 1]
           fwd == IF opts.split THEN PortsOf(opts.streams_port) ELSE all
<1>1. MaxPorts \in Nat /\ n \in 0 .. MaxPorts /\ opts.streams_port \in Seq(0 .. opts.devices - 1)
  BY StateAssumption DEF Init
<1>2. Devices = 0 .. n - 1 /\ Devices \subseteq Ports
  BY <1>1 DEF Devices, Ports
<1>3. lists = [ids |-> all, fwd_ids |-> fwd, nb_fwd_ports |-> Len(fwd)]
  BY DEF Init
<1>4. all = [i \in 1 .. n |-> i - 1] /\ opts.streams_port \in Seq(Devices)
  BY <1>1, <1>2
<1> HIDE DEF all, n
<1>5. all \in Seq(Devices) /\ DOMAIN all = 1 .. n /\ IsInjective(all)
  <2>1. \A i \in 1 .. n : i - 1 \in Devices
    BY <1>1, <1>2
  <2>2. all \in Seq(Devices) /\ DOMAIN all = 1 .. n
    BY <1>1, <1>4, <2>1
  <2>3. \A i \in 1 .. n : all[i] = i - 1
    BY <1>4
  <2>4. \A i, j \in 1 .. n : i - 1 = j - 1 => i = j
    OBVIOUS
  <2> QED
    BY <2>2, <2>3, <2>4 DEF IsInjective
<1>6. ToSet(all) = Devices
  <2>1. \A i \in 1 .. n : all[i] \in Devices
    BY <1>1, <1>2, <1>4
  <2>2. ASSUME NEW d \in Devices
        PROVE  \E i \in 1 .. n : all[i] = d
    <3>1. d + 1 \in 1 .. n /\ (d + 1) - 1 = d
      BY <1>1, <1>2
    <3> QED
      BY <1>4, <3>1
  <2> QED
    BY <1>5, <2>1, <2>2 DEF ToSet
<1>7. fwd \in Seq(Devices) /\ IsInjective(fwd)
  <2>1. PortsOf(opts.streams_port) \in Seq(Devices) /\ IsInjective(PortsOf(opts.streams_port))
    BY <1>4, PortsOfFile
  <2> QED
    BY <1>5, <2>1
<1> HIDE DEF fwd
<1>8. all \in Seq(Ports) /\ fwd \in Seq(Ports) /\ Len(fwd) \in Nat
  <2>1. ASSUME NEW s \in Seq(Devices)
        PROVE  s \in Seq(Ports) /\ Len(s) \in Nat
    <3>1. Len(s) \in Nat /\ s \in [1 .. Len(s) -> Devices]
      OBVIOUS
    <3>2. s \in [1 .. Len(s) -> Ports]
      BY <1>2, <3>1
    <3> QED
      BY <3>1, <3>2
  <2> QED
    BY <1>5, <1>7, <2>1
<1>9. ToSet(fwd) \subseteq Devices
  BY <1>7 DEF ToSet
<1> QED
  BY <1>2, <1>3, <1>6, <1>7, <1>8, <1>9

LEMMA InitBasics == Init => Basics
<1> SUFFICES ASSUME Init
             PROVE  Basics
  OBVIOUS
<1>1. /\ opts \in Options /\ valid = Devices /\ spare = {} /\ closed = {} /\ pending = {}
      /\ test_done = TRUE /\ resized = FALSE /\ sound = TRUE /\ overlapped = FALSE
      /\ todo = [t \in Threads |-> << >>]
  BY DEF Init
<1>2. settings \in [lcores : {1}, rxq : {1}, txq : {1}, eng : opts.engines]
  BY DEF Init
<1>3. settings \in [lcores : 1 .. NbLcores, rxq : Nat \ {0}, txq : Nat \ {0}, eng : opts.engines]
  <2>1. NbLcores \in Nat \ {0}
    BY StateAssumption
  <2>2. 1 \in 1 .. NbLcores /\ 1 \in Nat \ {0}
    BY <2>1
  <2> QED
    BY <1>2, <2>2
<1> DEFINE c == Conf(lists, settings, valid)
           N == [setup : BOOLEAN, reconfig : BOOLEAN, queues : BOOLEAN]
           D == [id : Ports, state : DevStates, rxq : Nat, txq : Nat]
           On(p) == [id |-> p, state |-> "started", rxq |-> RxQueues(c, p), txq |-> TxQueues(c, p)]
<1>4. \E no_device_start \in BOOLEAN :
        /\ status = [p \in Ports |-> IF no_device_start \/ p \notin valid THEN "STOPPED" ELSE "STARTED"]
        /\ need = [p \in Ports |-> [setup |-> FALSE, reconfig |-> no_device_start /\ p \in valid,
                                    queues |-> no_device_start /\ p \in valid]]
        /\ dev = [p \in Ports |-> IF no_device_start \/ p \notin valid THEN Fresh(p) ELSE On(p)]
  BY DEF Init
<1>5. \A p \in Ports : On(p) \in D /\ On(p).id = p
  <2>1. \A p : RxQueues(c, p) \in Nat /\ TxQueues(c, p) \in Nat
    BY <1>1, <1>3, QueuesTyped
  <2> HIDE DEF c
  <2> QED
    BY <2>1 DEF DevStates
<1> HIDE DEF c, On
<1>6. status \in [Ports -> Statuses] /\ NoneClosed
  BY <1>1, <1>4, InitLists DEF Statuses, NoneClosed
<1>7. need \in [Ports -> N]
  BY <1>4
<1>8. dev \in [Ports -> D] /\ \A p \in Ports : dev[p].id = p
  <2>1. \A p \in Ports : Fresh(p) \in D /\ Fresh(p).id = p
    BY FreshTyped
  <2> HIDE DEF D
  <2> QED
    BY <1>4, <1>5, <2>1
<1>9. PortTypes
  <2>1. lists.nb_fwd_ports <= Len(lists.fwd_ids)
    BY InitLists
  <2> QED
    BY <1>1, <1>3, <1>6, <1>7, <1>8, <2>1, InitLists DEF PortTypes
<1>10. Kept
  BY <1>1, <1>8, InitLists DEF Kept
<1>11. Shaped /\ Alone
  <2>1. << >> \in Seq(Steps) /\ Len(<< >>) = 0
    OBVIOUS
  <2>2. \A t, d : Shape(<< >>, t, d)
    BY <2>1 DEF Shape
  <2>3. todo \in [Threads -> Seq(Steps)] /\ \A t \in Threads : todo[t] = << >>
    BY <1>1, <2>1
  <2> QED
    BY <2>2, <2>3 DEF Shaped, Alone
<1> QED
  BY <1>6, <1>9, <1>10, <1>11 DEF Basics

\* What testpmd holds of ports, settings and calls is always of its type: a thread has steps
\* before it that close_port(), reset_port() and pmd_test_exit() make in that order, a port there
\* is is not marked closed, and each device has one port at most.
THEOREM BasicsHold == Spec => []Basics
BY InitBasics, StepKeepsBasics, PTL DEF Spec

\* Devices are never lost: each is under one port, free to be attached, or closed, whatever the
\* commands, the removals and the order in which their steps come.
THEOREM DevicesAreKept == Spec => []DevicesKept
<1>1. ASSUME Basics
      PROVE  DevicesKept
  <2>1. opts.devices \in Nat /\ IsFiniteSet(Devices) /\ Cardinality(Devices) = opts.devices
    <3>1. opts.devices \in Nat
      BY <1>1, StateAssumption DEF Basics, PortTypes
    <3>2. 0 \in Int /\ opts.devices - 1 \in Int
      BY <3>1
    <3>3. IsFiniteSet(Devices) /\ Cardinality(Devices) = IF 0 > opts.devices - 1 THEN 0 ELSE (opts.devices - 1) - 0 + 1
      BY <3>2, FS_Interval DEF Devices
    <3> QED
      BY <3>1, <3>3
  <2> DEFINE f == [p \in valid |-> dev[p].id]
             H == {dev[p].id : p \in valid}
  <2>2. /\ H \cup spare \cup closed = Devices /\ H \cap spare = {} /\ H \cap closed = {} /\ spare \cap closed = {}
        /\ spare \subseteq Devices /\ closed \subseteq Devices /\ H \subseteq Devices
    BY <1>1 DEF Basics, Kept
  <2>3. IsInjective(f)
    BY <1>1 DEF Basics, Kept, IsInjective
  <2>4. Cardinality(H) = Cardinality(valid)
    <3>1. f \in Bijection(valid, H)
      <4>1. f \in [valid -> H] /\ \A a, b \in valid : f[a] = f[b] => a = b
        BY <2>3 DEF IsInjective
      <4>2. \A h \in H : \E p \in valid : f[p] = h
        OBVIOUS
      <4> QED
        BY <4>1, <4>2 DEF Bijection, Injection, Surjection, IsInjective
    <3>2. IsFiniteSet(valid)
      <4>1. 0 \in Int /\ MaxPorts - 1 \in Int
        BY StateAssumption
      <4>2. IsFiniteSet(Ports)
        BY <4>1, FS_Interval DEF Ports
      <4> QED
        BY <1>1, <4>2, FS_Subset DEF Basics, PortTypes
    <3> HIDE DEF f, H
    <3> QED
      BY <3>1, <3>2, FS_Bijection DEF ExistsBijection
  <2>5. Cardinality(H) + Cardinality(spare) + Cardinality(closed) = opts.devices
    <3> HIDE DEF H
    <3>1. IsFiniteSet(H) /\ IsFiniteSet(spare) /\ IsFiniteSet(closed)
      BY <2>1, <2>2, FS_Subset
    <3>2. IsFiniteSet(H \cup spare) /\ Cardinality(H \cup spare) = Cardinality(H) + Cardinality(spare) - Cardinality(H \cap spare)
      BY <3>1, FS_Union
    <3>3. Cardinality((H \cup spare) \cup closed) = Cardinality(H \cup spare) + Cardinality(closed) - Cardinality((H \cup spare) \cap closed)
      BY <3>1, <3>2, FS_Union
    <3>4. H \cap spare = {} /\ (H \cup spare) \cap closed = {} /\ (H \cup spare) \cup closed = Devices
      BY <2>2
    <3>5. Cardinality(H \cap spare) = 0 /\ Cardinality((H \cup spare) \cap closed) = 0
      BY <3>4, FS_EmptySet
    <3>6. Cardinality(H) \in Nat /\ Cardinality(spare) \in Nat /\ Cardinality(closed) \in Nat
      BY <3>1, FS_CardinalityType
    <3>7. Cardinality(H \cup spare) = Cardinality(H) + Cardinality(spare)
      BY <3>2, <3>5, <3>6
    <3>8. Cardinality(Devices) = Cardinality(H \cup spare) + Cardinality(closed)
      <4>1. Cardinality((H \cup spare) \cup closed) = Cardinality(Devices)
        BY <3>4
      <4> QED
        BY <3>3, <3>5, <3>6, <3>7, <4>1
    <3> QED
      BY <2>1, <3>6, <3>7, <3>8
  <2> QED
    BY <2>2, <2>3, <2>4, <2>5 DEF DevicesKept
<1> QED
  BY <1>1, BasicsHold, PTL

-----------------------------------------------------------------------------
(* Where a thread comes to by a step *)

\* What only inner steps are before: behind a step there is none
LEMMA ReturnLeaves ==
    ASSUME Basics, NEW t \in Threads, todo[t] # << >>, Return(t) \/ Abandon(t)
    PROVE  \A o \in Inner : ~At(t, o)'
<1>1. todo \in [Threads -> Seq(Steps)] /\ Shape(todo[t], t, Devices)
  BY DEF Basics, Shaped
<1> DEFINE q == todo[t]
           r == Tail(q)
<1>2. q \in Seq(Steps) /\ q # << >> /\ \A i \in 2 .. Len(q) : q[i].op \notin Inner
  BY <1>1 DEF Shape
<1>3. todo'[t] = r \/ todo'[t] = << >>
  BY <1>1 DEF Return, Abandon
<1> HIDE DEF q
<1>4. r \in Seq(Steps) /\ Len(r) = Len(q) - 1 /\ \A i \in 1 .. Len(r) : r[i] = q[i + 1]
  BY <1>2
<1>5. Len(q) \in Nat
  BY <1>2
<1> HIDE DEF r
<1>6. r # << >> => Head(r) = q[2] /\ 2 \in 2 .. Len(q)
  <2> SUFFICES ASSUME r # << >>
               PROVE  Head(r) = q[2] /\ 2 \in 2 .. Len(q)
    OBVIOUS
  <2>1. Len(r) \in Nat /\ Len(r) # 0 /\ Head(r) = r[1]
    BY <1>4
  <2>2. 1 \in 1 .. Len(r) /\ 1 + 1 = 2
    BY <2>1
  <2> QED
    BY <1>4, <1>5, <2>1, <2>2
<1> QED
  BY <1>2, <1>3, <1>6 DEF At

LEMMA ThenAt ==
    ASSUME Basics, NEW t \in Threads, todo[t] # << >>, NEW s \in Steps, Then(t, <<s>>)
    PROVE  (\A o : At(t, o)' <=> s.op = o) /\ Port(t)' = s.port
<1>1. todo \in [Threads -> Seq(Steps)]
  BY DEF Basics, Shaped
<1> DEFINE q == todo[t]
           r == <<s>> \o Tail(q)
<1>2. q \in Seq(Steps) /\ q # << >>
  BY <1>1
<1>3. todo'[t] = r
  BY <1>1 DEF Then
<1> HIDE DEF q
<1>4. r \in Seq(Steps) /\ r[1] = s /\ Len(r) = Len(q)
  BY <1>2
<1>5. Len(q) \in Nat /\ Len(q) # 0
  BY <1>2
<1> HIDE DEF r
<1>6. r # << >> /\ Head(r) = s
  BY <1>4, <1>5
<1> QED
  BY <1>3, <1>6 DEF At, Port

LEMMA OthersAt ==
    ASSUME NEW t, NEW u \in Threads, u # t, Moves(t)
    PROVE  (\A o : At(u, o)' <=> At(u, o)) /\ Port(u)' = Port(u)
BY DEF Moves, At, Port

\* Steps of the same kind
LEMMA ThenAtMany ==
    ASSUME Basics, NEW t \in Threads, todo[t] # << >>, NEW b \in Seq(Steps), b # << >>, Then(t, b)
    PROVE  (\A o : At(t, o)' <=> b[1].op = o) /\ Port(t)' = b[1].port
<1>1. todo \in [Threads -> Seq(Steps)]
  BY DEF Basics, Shaped
<1> DEFINE q == Tail(todo[t])
           r == b \o q
<1>2. q \in Seq(Steps)
  BY <1>1
<1>3. todo'[t] = r
  BY <1>1 DEF Then
<1> HIDE DEF q
<1>4. r \in Seq(Steps) /\ Len(r) = Len(b) + Len(q) /\ Len(b) \in Nat /\ Len(b) # 0 /\ Len(q) \in Nat
  BY <1>2
<1>5. r[1] = b[1]
  <2>1. \A i \in 1 .. Len(b) : r[i] = b[i]
    BY <1>2, Joined
  <2> QED
    BY <1>4, <2>1
<1> HIDE DEF r
<1>6. r # << >> /\ Head(r) = b[1]
  BY <1>4, <1>5
<1> QED
  BY <1>3, <1>6 DEF At, Port

\* close_port() that returns early
LEMMA EarlyReturnLeaves ==
    ASSUME Basics, NEW t \in Threads, CloseInvalid(t)
    PROVE  \A o \in Inner : ~At(t, o)'
<1>1. todo \in [Threads -> Seq(Steps)] /\ Shape(todo[t], t, Devices) /\ todo[t] # << >>
  BY AtHasSteps DEF Basics, Shaped, CloseInvalid
<1> DEFINE q == todo[t]
           r == SubSeq(q, 3, Len(q))
<1>2. q \in Seq(Steps) /\ q # << >> /\ \A i \in 2 .. Len(q) : q[i].op \notin Inner
  BY <1>1 DEF Shape
<1>3. todo'[t] = r
  BY <1>1 DEF CloseInvalid
<1> HIDE DEF q
<1>4. r # << >> => Head(r) = q[3] /\ 3 \in 2 .. Len(q)
  BY <1>2
<1> HIDE DEF r
<1> QED
  BY <1>2, <1>3, <1>4 DEF At

-----------------------------------------------------------------------------
\* The one step each inner step is come to by, and for which port
Arriving(t) ==
    /\ At(t, "configure")' => StartClaim(t) /\ Then(t, <<Step("configure", Port(t))>>) /\ Port(t)' = Port(t)
    /\ At(t, "dev_start")' => Configure(t) /\ Port(t)' = Port(t)
    /\ At(t, "stop_claim")' => StopCheck(t) /\ Then(t, <<Step("stop_claim", Port(t))>>) /\ Port(t)' = Port(t)
    /\ At(t, "dev_stop")' => StopClaim(t) /\ Then(t, <<Step("dev_stop", Port(t))>>) /\ Port(t)' = Port(t)
    /\ At(t, "dev_close")' => CloseCheck(t) /\ Then(t, <<Step("dev_close", Port(t))>>) /\ Port(t)' = Port(t)
    /\ At(t, "setup")' => \/ Probe(t) /\ Port(t)' = Min(Ports \ valid)
                          \/ ProbeAgain(t) /\ Port(t)' \in valid
    /\ At(t, "set_up")' => StartCheck(t) /\ Then(t, <<Step("set_up", 0)>>)
    /\ At(t, "launch")' => StartSetUp(t)
    /\ At(t, "wait")' => StopTell(t) /\ Then(t, <<Step("wait", 0)>>)

LEMMA Arrivals ==
    ASSUME Basics, NEW t \in Threads, PortStep(t) \/ FwdStep(t)
    PROVE  Arriving(t)
<1>1. todo[t] # << >>
  BY StepShaped DEF Moves
<1>2. Port(t) \in Ports /\ 0 \in Ports
  BY <1>1, AtHead, ZeroPort
<1>3. Inner \subseteq Ops
  BY DEF Ops
<1>4. ASSUME \A o \in Inner : ~At(t, o)'
      PROVE  Arriving(t)
  BY <1>4 DEF Inner, Arriving
<1>5. ASSUME NEW o \in Inner, NEW p \in Ports, Then(t, <<Step(o, p)>>)
      PROVE  (\A x : At(t, x)' <=> x = o) /\ Port(t)' = p
  <2> DEFINE s == Step(o, p)
  <2>1. s \in Steps /\ s.op = o /\ s.port = p
    BY <1>3, StepTyped
  <2>2. Then(t, <<s>>)
    BY <1>5
  <2> HIDE DEF s
  <2>3. (\A x : At(t, x)' <=> s.op = x) /\ Port(t)' = s.port
    BY <1>1, <2>1, <2>2, ThenAt
  <2> QED
    BY <2>1, <2>3
<1>6. ASSUME Return(t) \/ Abandon(t)
      PROVE  Arriving(t)
  BY <1>1, <1>4, <1>6, ReturnLeaves
<1>7. CASE \/ DeviceStarts(t) \/ DeviceStartFails(t) \/ DeviceStop(t) \/ DeviceClose(t) \/ ClosePrune(t)
           \/ DeviceReset(t) \/ setup_attached_port(t) \/ Detach(t) \/ Launch(t) \/ StopWait(t)
           \/ ConfigureFails(t) \/ IsolateFails(t)
  BY <1>6, <1>7 DEF DeviceStarts, DeviceStartFails, DeviceStop, DeviceClose, ClosePrune, DeviceReset,
         setup_attached_port, Detach, Launch, StopWait, ConfigureFails, IsolateFails
<1>8. CASE CloseInvalid(t)
  BY <1>4, <1>8, EarlyReturnLeaves
<1>9. CASE StartClaim(t)
  <2>1. Return(t) \/ Then(t, <<Step("configure", Port(t))>>)
    BY <1>9 DEF StartClaim
  <2>2. "configure" \in Inner
    BY DEF Inner
  <2> QED
    BY <1>2, <1>5, <1>6, <1>9, <2>1, <2>2 DEF Arriving
<1>10. CASE Configure(t)
  <2>1. Then(t, <<Step("dev_start", Port(t))>>)
    BY <1>10 DEF Configure
  <2>2. "dev_start" \in Inner
    BY DEF Inner
  <2> QED
    BY <1>2, <1>5, <1>10, <2>1, <2>2 DEF Arriving
<1>11. CASE StopCheck(t)
  <2>1. Return(t) \/ Then(t, <<Step("stop_claim", Port(t))>>)
    BY <1>11 DEF StopCheck
  <2>2. "stop_claim" \in Inner
    BY DEF Inner
  <2> QED
    BY <1>2, <1>5, <1>6, <1>11, <2>1, <2>2 DEF Arriving
<1>12. CASE StopClaim(t)
  <2>1. Return(t) \/ Then(t, <<Step("dev_stop", Port(t))>>)
    BY <1>12 DEF StopClaim
  <2>2. "dev_stop" \in Inner
    BY DEF Inner
  <2> QED
    BY <1>2, <1>5, <1>6, <1>12, <2>1, <2>2 DEF Arriving
<1>13. CASE CloseCheck(t)
  <2>1. Return(t) \/ Then(t, <<Step("dev_close", Port(t))>>)
    BY <1>13 DEF CloseCheck
  <2>2. "dev_close" \in Inner
    BY DEF Inner
  <2> QED
    BY <1>2, <1>5, <1>6, <1>13, <2>1, <2>2 DEF Arriving
<1>14. CASE Probe(t)
  <2>1. PICK p : p = Min(Ports \ valid)
    OBVIOUS
  <2>2. p \in Ports
    BY <1>14, <2>1, FreePort DEF Probe
  <2>3. Then(t, <<Step("setup", p)>>)
    BY <1>14, <2>1 DEF Probe
  <2>4. "setup" \in Inner
    BY DEF Inner
  <2>5. (\A x : At(t, x)' <=> x = "setup") /\ Port(t)' = p
    BY <1>5, <2>2, <2>3, <2>4
  <2> QED
    BY <1>14, <2>1, <2>5 DEF Arriving
<1>15. CASE ProbeAgain(t)
  <2>1. CASE Return(t)
    BY <1>6, <2>1
  <2>2. ASSUME NEW p \in valid, Then(t, <<Step("setup", p)>>)
        PROVE  Arriving(t)
    <3>1. "setup" \in Inner
      BY DEF Inner
    <3>2. p \in Ports
      BY DEF Basics, PortTypes
    <3>3. (\A x : At(t, x)' <=> x = "setup") /\ Port(t)' = p
      BY <1>5, <2>2, <3>1, <3>2
    <3> QED
      BY <1>15, <3>3 DEF Arriving
  <2> QED
    BY <1>15, <2>1, <2>2 DEF ProbeAgain
<1>16. CASE StartCheck(t)
  <2>1. Return(t) \/ Then(t, <<Step("set_up", 0)>>)
    BY <1>16 DEF StartCheck
  <2>2. "set_up" \in Inner
    BY DEF Inner
  <2> QED
    BY <1>2, <1>5, <1>6, <1>16, <2>1, <2>2 DEF Arriving
<1>17. CASE StartSetUp(t)
  <2>1. Then(t, <<Step("launch", 0)>>)
    BY <1>17 DEF StartSetUp
  <2>2. "launch" \in Inner
    BY DEF Inner
  <2> QED
    BY <1>2, <1>5, <1>17, <2>1, <2>2 DEF Arriving
<1>18. CASE StopTell(t)
  <2>1. Return(t) \/ Then(t, <<Step("wait", 0)>>)
    BY <1>18 DEF StopTell
  <2>2. "wait" \in Inner
    BY DEF Inner
  <2> QED
    BY <1>2, <1>5, <1>6, <1>18, <2>1, <2>2 DEF Arriving
<1>19. CASE ResetCheck(t)
  <2>1. \/ Return(t)
        \/ Then(t, <<Step("reset_device", Port(t))>>)
        \/ Then(t, ForEach("reset_device"))
    BY <1>19 DEF ResetCheck
  <2>2. "reset_device" \in Ops /\ "reset_device" \notin Inner
    BY DEF Ops, Inner
  <2>3. ASSUME NEW b \in Seq(Steps), b # << >>, b[1].op = "reset_device", Then(t, b)
        PROVE  Arriving(t)
    BY <1>1, <1>4, <2>2, <2>3, ThenAtMany
  <2>4. CASE Then(t, <<Step("reset_device", Port(t))>>)
    <3> DEFINE s == Step("reset_device", Port(t))
               b == <<s>>
    <3>1. s \in Steps /\ s.op = "reset_device"
      BY <1>2, <2>2, StepTyped
    <3>2. Then(t, b)
      BY <2>4
    <3> HIDE DEF s
    <3>3. b \in Seq(Steps) /\ b # << >> /\ b[1].op = "reset_device"
      BY <3>1
    <3> HIDE DEF b
    <3> QED
      BY <2>3, <3>2, <3>3
  <2>5. CASE Then(t, ForEach("reset_device"))
    <3>1. /\ ForEach("reset_device") \in Seq(Steps) /\ ForEach("reset_device") # << >>
          /\ ForEach("reset_device")[1].op = "reset_device"
      BY <2>2, ForEachTyped, EachIsSome
    <3> QED
      BY <2>3, <2>5, <3>1
  <2> QED
    BY <1>6, <2>1, <2>4, <2>5
<1>20. CASE SaveDevice(t)
  <2>1. PICK p : p = Port(t)
    OBVIOUS
  <2>2. CASE p \notin valid
    BY <1>6, <1>20, <2>1, <2>2 DEF SaveDevice
  <2>3. CASE p \in valid
    <3>1. Then(t, <<Step("close_port", p), Step("prune", 0), Step("detach", dev[p].id)>>)
      BY <1>20, <2>1, <2>3 DEF SaveDevice
    <3> DEFINE a == Step("close_port", p)
               b == Step("prune", 0)
               c == Step("detach", dev[p].id)
               q == <<a, b, c>>
    <3>2. a \in Steps /\ b \in Steps /\ c \in Steps /\ a.op = "close_port"
      <4>1. "close_port" \in Ops /\ "prune" \in Ops /\ "detach" \in Ops
        BY DEF Ops, Leaving
      <4>2. p \in Ports /\ dev[p].id \in Ports
        BY <2>3 DEF Basics, PortTypes
      <4> QED
        BY <1>2, <4>1, <4>2, StepTyped
    <3>3. Then(t, q)
      BY <3>1
    <3> HIDE DEF a, b, c
    <3>4. q \in Seq(Steps) /\ q # << >> /\ q[1].op = "close_port"
      BY <3>2
    <3> HIDE DEF q
    <3>5. "close_port" \notin Inner
      BY DEF Inner
    <3> QED
      BY <1>1, <1>4, <3>3, <3>4, <3>5, ThenAtMany
  <2> QED
    BY <2>2, <2>3
<1> QED
  BY <1>7, <1>8, <1>9, <1>10, <1>11, <1>12, <1>13, <1>14, <1>15, <1>16, <1>17, <1>18, <1>19, <1>20 DEF PortStep, FwdStep

-----------------------------------------------------------------------------
(* The table of streams and cores keeps its form. *)

TableTyped(t) ==
    /\ DOMAIN t = {"cur", "streams", "lcores"}
    /\ t.cur \in [fwd_eng : opts.engines, nb_fwd_ports : Nat, nb_fwd_lcores : 0 .. NbLcores, nb_fwd_streams : Nat]
    /\ t.cur.nb_fwd_lcores <= t.cur.nb_fwd_streams
    /\ t.lcores \in [Lcores -> [stream_idx : Nat, stream_nb : Nat]]
    /\ Cardinality(DOMAIN t.streams) \in Nat
    /\ DOMAIN t.streams = 0 .. Cardinality(DOMAIN t.streams) - 1
    /\ \A lc \in 0 .. t.cur.nb_fwd_lcores - 1 :
          /\ t.lcores[lc].stream_idx = StreamIdx(t.cur.nb_fwd_streams, t.cur.nb_fwd_lcores, lc)
          /\ t.lcores[lc].stream_nb = StreamNb(t.cur.nb_fwd_streams, t.cur.nb_fwd_lcores, lc)

\* Settings a configuration is made from
ConfTyped(c) ==
    /\ c.lcores \in 1 .. NbLcores /\ c.rxq \in Nat \ {0} /\ c.txq \in Nat \ {0} /\ c.eng \in opts.engines
    /\ c.fwd \in Seq(Ports) /\ c.ids \in Seq(Ports)
    /\ c.topology \in Topologies /\ c.split \in BOOLEAN /\ c.streams_port \in Seq(Ports)

LEMMA MinOfTwo ==
    ASSUME NEW a \in Nat, NEW b \in Nat
    PROVE  Min({a, b}) \in {a, b} /\ Min({a, b}) <= a /\ Min({a, b}) <= b
<1> DEFINE S == {a, b}
<1>1. S \in SUBSET (0 .. a + b) /\ S # {} /\ a + b \in Nat
  OBVIOUS
<1>2. Min(S) \in S /\ \A y \in S : Min(S) <= y
  <2> HIDE DEF S
  <2> QED
    BY <1>1, LeastOf
<1> QED
  BY <1>2

LEMMA MinOfThree ==
    ASSUME NEW a \in Nat, NEW b \in Nat, NEW c \in Nat
    PROVE  /\ Min({a, b, c}) \in {a, b, c}
           /\ Min({a, b, c}) <= a /\ Min({a, b, c}) <= b /\ Min({a, b, c}) <= c
<1> DEFINE S == {a, b, c}
           n == a + b + c
<1>1. S \in SUBSET (0 .. n) /\ S # {} /\ n \in Nat
  OBVIOUS
<1>2. Min(S) \in S /\ \A y \in S : Min(S) <= y
  <2> HIDE DEF S, n
  <2> QED
    BY <1>1, LeastOf
<1> QED
  BY <1>2

LEMMA MaxOfTwo ==
    ASSUME NEW a \in Nat, NEW b \in Nat
    PROVE  Max({a, b}) \in {a, b} /\ Max({a, b}) >= a /\ Max({a, b}) >= b
<1>1. \E x \in {a, b} : \A y \in {a, b} : x >= y
  <2>1. CASE a >= b
    BY <2>1
  <2>2. CASE b >= a
    BY <2>2
  <2> QED
    BY <2>1, <2>2
<1> QED
  BY <1>1 DEF Max

LEMMA WantedTyped ==
    ASSUME NEW c, ConfTyped(c)
    PROVE  WantedStreams(c) \in Nat
<1>1. Cardinality({i \in DOMAIN c.streams_port : c.streams_port[i] \in c.valid}) \in Nat
  <2> DEFINE S == {i \in DOMAIN c.streams_port : c.streams_port[i] \in c.valid}
             n == Len(c.streams_port)
  <2>1. n \in Nat /\ S \subseteq 1 .. n
    BY DEF ConfTyped
  <2> HIDE DEF S, n
  <2>2. 1 \in Int /\ n \in Int
    BY <2>1
  <2>3. IsFiniteSet(1 .. n)
    BY <2>2, FS_Interval
  <2>4. IsFiniteSet(S)
    BY <2>1, <2>3, FS_Subset
  <2> QED
    BY <2>4, FS_CardinalityType DEF S
<1>2. Len(c.ids) * Max({c.rxq, c.txq}) \in Nat
  <2> DEFINE n == Len(c.ids)
             m == Max({c.rxq, c.txq})
  <2>1. n \in Nat /\ m \in Nat
    BY MaxOfTwo DEF ConfTyped
  <2> HIDE DEF n, m
  <2> QED
    BY <2>1 DEF n, m
<1> QED
  BY <1>1, <1>2 DEF WantedStreams

\* The table is made as long as it is wanted.
Remade(c) == ~TooManyQueues(c) /\ WantedStreams(c) # 0

\* A table the streams of which are made again
LEMMA StreamsMade ==
    ASSUME NEW c, ConfTyped(c), NEW t, TableTyped(t)
    PROVE  /\ TableTyped(InitStreams(c, t))
           /\ InitStreams(c, t).cur = t.cur
           /\ DOMAIN InitStreams(c, t).streams \in {DOMAIN t.streams, 0 .. WantedStreams(c) - 1}
           /\ Remade(c) => DOMAIN InitStreams(c, t).streams = 0 .. WantedStreams(c) - 1
<1> DEFINE W == WantedStreams(c)
           D == 0 .. W - 1
           Z == [sm \in D |-> ZeroStream]
           u == [t EXCEPT !.streams = Z]
<1>1. InitStreams(c, t) \in {t, u} /\ (Remade(c) => InitStreams(c, t) = u \/ W = Cardinality(DOMAIN t.streams))
  BY DEF InitStreams, Remade
<1>2. W \in Nat
  BY WantedTyped
<1>3. Cardinality(D) = W
  <2>1. 0 \in Int /\ W - 1 \in Int /\ 0 <= W - 1 + 1
    BY <1>2
  <2>2. CASE W = 0
    <3>1. D = {}
      BY <2>2
    <3> QED
      BY <2>2, <3>1, FS_EmptySet
  <2>3. CASE W # 0
    <3> HIDE DEF W
    <3> DEFINE w1 == W - 1
    <3>1. 0 \in Int /\ w1 \in Int /\ 0 <= w1 /\ w1 - 0 + 1 = W
      BY <1>2, <2>3
    <3> HIDE DEF w1
    <3>2. Cardinality(0 .. w1) = IF 0 > w1 THEN 0 ELSE w1 - 0 + 1
      BY <3>1, FS_Interval
    <3>3. Cardinality(0 .. w1) = W
      BY <3>1, <3>2
    <3> QED
      BY <3>3 DEF w1
  <2> QED
    BY <2>2, <2>3
<1>4. DOMAIN u = {"cur", "streams", "lcores"} /\ u.cur = t.cur /\ u.lcores = t.lcores /\ u.streams = Z
  BY DEF TableTyped
<1>5. DOMAIN Z = D /\ D = 0 .. W - 1
  OBVIOUS
<1> HIDE DEF W, D, Z, u
<1>6. TableTyped(u)
  BY <1>2, <1>3, <1>4, <1>5 DEF TableTyped
<1>7. W = Cardinality(DOMAIN t.streams) => DOMAIN t.streams = D
  BY <1>5 DEF TableTyped
<1> QED
  BY <1>1, <1>4, <1>5, <1>6, <1>7 DEF W, D

\* The table a setup shares out: cores get intervals, and each has its place in the table.
LEMMA SetupTyped ==
    ASSUME NEW c, ConfTyped(c), NEW t, TableTyped(t), NEW n \in Nat, NEW l \in 0 .. NbLcores, l <= n
    PROVE  /\ TableTyped(Setup(c, t, l, n))
           /\ Setup(c, t, l, n).cur = [fwd_eng |-> c.eng, nb_fwd_ports |-> Len(c.fwd), nb_fwd_lcores |-> l,
                                       nb_fwd_streams |-> n]
           /\ DOMAIN Setup(c, t, l, n).streams \in {DOMAIN t.streams, 0 .. WantedStreams(c) - 1}
           /\ Remade(c) => DOMAIN Setup(c, t, l, n).streams = 0 .. WantedStreams(c) - 1
<1> DEFINE cur == [fwd_eng |-> c.eng, nb_fwd_ports |-> Len(c.fwd), nb_fwd_lcores |-> l, nb_fwd_streams |-> n]
           none == [fwd_eng |-> c.eng, nb_fwd_ports |-> Len(c.fwd), nb_fwd_lcores |-> 0, nb_fwd_streams |-> n]
           u == [t EXCEPT !.cur = cur]
           z == [t EXCEPT !.cur = none]
           v == InitStreams(c, u)
<1>1. SetCur(c, t, l, n) = u
  BY DEF SetCur
<1>2. Setup(c, t, l, n) = SetupEachLcore(v)
  BY <1>1 DEF Setup
<1>3. /\ DOMAIN u = {"cur", "streams", "lcores"} /\ u.cur = cur /\ u.lcores = t.lcores /\ u.streams = t.streams
      /\ DOMAIN z = {"cur", "streams", "lcores"} /\ z.cur = none /\ z.lcores = t.lcores /\ z.streams = t.streams
  BY DEF TableTyped
<1>4. /\ cur \in [fwd_eng : opts.engines, nb_fwd_ports : Nat, nb_fwd_lcores : 0 .. NbLcores, nb_fwd_streams : Nat]
      /\ cur.nb_fwd_lcores = l /\ cur.nb_fwd_streams = n
      /\ none \in [fwd_eng : opts.engines, nb_fwd_ports : Nat, nb_fwd_lcores : 0 .. NbLcores, nb_fwd_streams : Nat]
      /\ none.nb_fwd_lcores = 0 /\ none.nb_fwd_streams = n
  BY StateAssumption DEF ConfTyped
<1> HIDE DEF cur, none, u, z
<1>5. TableTyped(z)
  BY <1>3, <1>4 DEF TableTyped
<1>6. /\ DOMAIN v = {"cur", "streams", "lcores"} /\ v.cur = cur /\ v.lcores = t.lcores
      /\ v.streams = InitStreams(c, z).streams
  <2> DEFINE Z == [sm \in 0 .. WantedStreams(c) - 1 |-> ZeroStream]
             same == TooManyQueues(c) \/ WantedStreams(c) \in {0, Cardinality(DOMAIN t.streams)}
             uz == [u EXCEPT !.streams = Z]
             zz == [z EXCEPT !.streams = Z]
  <2>1. v = IF same THEN u ELSE uz
    BY <1>3 DEF InitStreams
  <2>2. InitStreams(c, z) = IF same THEN z ELSE zz
    BY <1>3 DEF InitStreams
  <2> HIDE DEF same, Z
  <2>3. /\ DOMAIN uz = {"cur", "streams", "lcores"} /\ uz.cur = u.cur /\ uz.lcores = u.lcores /\ uz.streams = Z
        /\ zz.streams = Z
    BY <1>3
  <2> HIDE DEF uz, zz, v
  <2> QED
    BY <1>3, <2>1, <2>2, <2>3
<1>7. /\ TableTyped(InitStreams(c, z))
      /\ DOMAIN InitStreams(c, z).streams \in {DOMAIN t.streams, 0 .. WantedStreams(c) - 1}
      /\ Remade(c) => DOMAIN InitStreams(c, z).streams = 0 .. WantedStreams(c) - 1
  <2>1. DOMAIN z.streams = DOMAIN t.streams
    BY <1>3
  <2> HIDE DEF v
  <2> QED
    BY <1>5, <2>1, StreamsMade
<1> DEFINE L == [lc \in DOMAIN v.lcores |->
                   IF lc < v.cur.nb_fwd_lcores
                   THEN [stream_idx |-> StreamIdx(v.cur.nb_fwd_streams, v.cur.nb_fwd_lcores, lc),
                         stream_nb |-> StreamNb(v.cur.nb_fwd_streams, v.cur.nb_fwd_lcores, lc)]
                   ELSE v.lcores[lc]]
           w == [v EXCEPT !.lcores = L]
<1>8. Setup(c, t, l, n) = w
  BY <1>2 DEF SetupEachLcore
<1> HIDE DEF v
<1>9. DOMAIN w = {"cur", "streams", "lcores"} /\ w.cur = cur /\ w.lcores = L /\ w.streams = v.streams
  BY <1>6
<1>10. DOMAIN v.lcores = Lcores /\ \A lc \in Lcores : v.lcores[lc] \in [stream_idx : Nat, stream_nb : Nat]
  BY <1>6 DEF TableTyped
<1>11. \A lc \in 0 .. l - 1 : /\ StreamIdx(n, l, lc) \in Nat /\ StreamNb(n, l, lc) \in Nat
                              /\ lc \in Lcores
  <2> SUFFICES ASSUME NEW lc \in 0 .. l - 1
               PROVE  StreamIdx(n, l, lc) \in Nat /\ StreamNb(n, l, lc) \in Nat /\ lc \in Lcores
    OBVIOUS
  <2>1. NbLcores \in Nat /\ l \in Nat \ {0}
    BY StateAssumption
  <2>2. StreamIdx(n, l, lc) \in Nat /\ StreamNb(n, l, lc) \in Nat \ {0}
    BY <2>1, IntervalsFollow
  <2> QED
    BY <2>1, <2>2 DEF Lcores
<1>12. /\ L \in [Lcores -> [stream_idx : Nat, stream_nb : Nat]]
       /\ \A lc \in 0 .. l - 1 : /\ L[lc].stream_idx = StreamIdx(n, l, lc)
                                 /\ L[lc].stream_nb = StreamNb(n, l, lc)
  <2> DEFINE X(lc) == [stream_idx |-> StreamIdx(n, l, lc), stream_nb |-> StreamNb(n, l, lc)]
  <2>1. L = [lc \in Lcores |-> IF lc < l THEN X(lc) ELSE v.lcores[lc]]
    BY <1>4, <1>6, <1>10
  <2>2. \A lc \in Lcores : lc < l => lc \in 0 .. l - 1
    BY StateAssumption DEF Lcores
  <2>3. \A lc \in Lcores : lc < l => X(lc) \in [stream_idx : Nat, stream_nb : Nat]
    BY <1>11, <2>2
  <2>4. \A lc \in 0 .. l - 1 : L[lc] = X(lc)
    BY <1>11, <2>1
  <2>5. \A lc : X(lc).stream_idx = StreamIdx(n, l, lc) /\ X(lc).stream_nb = StreamNb(n, l, lc)
    OBVIOUS
  <2> HIDE DEF L, X
  <2> QED
    BY <1>10, <2>1, <2>3, <2>4, <2>5
<1> HIDE DEF L, w
<1>13. TableTyped(w)
  <2>1. Cardinality(DOMAIN w.streams) \in Nat /\ DOMAIN w.streams = 0 .. Cardinality(DOMAIN w.streams) - 1
    BY <1>6, <1>7, <1>9 DEF TableTyped
  <2> QED
    BY <1>4, <1>9, <1>12, <2>1 DEF TableTyped
<1> QED
  BY <1>6, <1>7, <1>8, <1>9, <1>13 DEF cur

LEMMA DescribeTyped ==
    ASSUME NEW t, TableTyped(t), NEW s
    PROVE  /\ TableTyped(Describe(t, s))
           /\ Describe(t, s).cur = t.cur
           /\ DOMAIN Describe(t, s).streams = DOMAIN t.streams
           /\ \A sm \in DOMAIN t.streams \cap DOMAIN s : Describe(t, s).streams[sm] = s[sm]
<1> DEFINE S == [sm \in DOMAIN t.streams |-> IF sm \in DOMAIN s THEN s[sm] ELSE t.streams[sm]]
           u == [t EXCEPT !.streams = S]
<1>1. Describe(t, s) = u
  BY DEF Describe
<1>2. DOMAIN u = DOMAIN t /\ u.cur = t.cur /\ u.lcores = t.lcores /\ u.streams = S
  BY DEF TableTyped
<1>3. DOMAIN S = DOMAIN t.streams /\ \A sm \in DOMAIN t.streams \cap DOMAIN s : S[sm] = s[sm]
  OBVIOUS
<1> HIDE DEF S, u
<1>4. TableTyped(u)
  BY <1>2, <1>3 DEF TableTyped
<1> QED
  BY <1>1, <1>2, <1>3, <1>4

\* How many streams a configuration has and how many it is made with
NbStreams(c, t) ==
    CASE c.eng = "icmpecho" -> c.rxq * Len(c.fwd)
      [] c.eng # "icmpecho" /\ c.split -> Cardinality(DOMAIN t.streams)
      [] c.eng # "icmpecho" /\ ~c.split /\ c.rxq > 1 /\ c.txq > 1 -> Min({c.rxq, c.txq}) * Len(c.fwd)
      [] OTHER -> Len(c.fwd)

\* fwd_config_setup() leaves a table of that form.
LEMMA ConfigTyped ==
    ASSUME NEW c, ConfTyped(c), NEW t, TableTyped(t)
    PROVE  /\ TableTyped(FwdConfigSetup(c, t))
           /\ FwdConfigSetup(c, t).cur.nb_fwd_streams = NbStreams(c, t)
           /\ FwdConfigSetup(c, t).cur.fwd_eng = c.eng
           /\ DOMAIN FwdConfigSetup(c, t).streams \in {DOMAIN t.streams, 0 .. WantedStreams(c) - 1}
           /\ Remade(c) => DOMAIN FwdConfigSetup(c, t).streams = 0 .. WantedStreams(c) - 1
<1> DEFINE Ends(r, n) == /\ TableTyped(r) /\ r.cur.nb_fwd_streams = n /\ r.cur.fwd_eng = c.eng
                         /\ DOMAIN r.streams \in {DOMAIN t.streams, 0 .. WantedStreams(c) - 1}
                         /\ Remade(c) => DOMAIN r.streams = 0 .. WantedStreams(c) - 1
<1>1. ASSUME NEW n \in Nat, NEW l \in 0 .. NbLcores, l <= n, NEW s
      PROVE  Ends(Describe(Setup(c, t, l, n), s), n)
  <2> DEFINE u == Setup(c, t, l, n)
  <2>1. /\ TableTyped(u) /\ u.cur.nb_fwd_streams = n /\ u.cur.fwd_eng = c.eng
        /\ DOMAIN u.streams \in {DOMAIN t.streams, 0 .. WantedStreams(c) - 1}
        /\ Remade(c) => DOMAIN u.streams = 0 .. WantedStreams(c) - 1
    <3>1. /\ TableTyped(u)
          /\ u.cur = [fwd_eng |-> c.eng, nb_fwd_ports |-> Len(c.fwd), nb_fwd_lcores |-> l, nb_fwd_streams |-> n]
          /\ DOMAIN u.streams \in {DOMAIN t.streams, 0 .. WantedStreams(c) - 1}
          /\ Remade(c) => DOMAIN u.streams = 0 .. WantedStreams(c) - 1
      BY <1>1, SetupTyped
    <3> HIDE DEF u
    <3> QED
      BY <3>1
  <2> HIDE DEF u
  <2>2. Ends(Describe(u, s), n)
    <3> DEFINE w == Describe(u, s)
    <3>1. TableTyped(u)
      BY <2>1
    <3>2. TableTyped(w) /\ w.cur = u.cur /\ DOMAIN w.streams = DOMAIN u.streams
      BY <3>1, DescribeTyped
    <3> HIDE DEF w
    <3>3. Ends(w, n)
      BY <2>1, <3>2
    <3> QED
      BY <3>3 DEF w
  <2> HIDE DEF Ends
  <2> QED
    BY <2>2 DEF u
<1>2. c.lcores \in Nat /\ c.lcores \in 0 .. NbLcores /\ NbLcores \in Nat
  BY StateAssumption DEF ConfTyped
<1>3. ASSUME NEW n \in Nat
      PROVE  Min({c.lcores, n}) \in 0 .. NbLcores /\ Min({c.lcores, n}) <= n
  BY <1>2, MinOfTwo
<1>4. Len(c.fwd) \in Nat /\ c.rxq \in Nat /\ c.txq \in Nat
  BY DEF ConfTyped
<1>5. Min({c.rxq, c.txq}) \in Nat
  BY <1>4, MinOfTwo
<1> HIDE DEF Ends
<1>6. Ends(SimpleSetup(c, t), Len(c.fwd))
  <2> DEFINE n == Len(c.fwd)
  <2>1. PICK s : SimpleSetup(c, t) = Describe(Setup(c, t, Min({c.lcores, n}), n), s)
    BY DEF SimpleSetup
  <2>2. n \in Nat
    BY <1>4
  <2> HIDE DEF n
  <2>3. Ends(SimpleSetup(c, t), n)
    BY <1>1, <1>3, <2>1, <2>2
  <2> QED
    BY <2>3 DEF n
<1>7. Ends(RssSetup(c, t), Min({c.rxq, c.txq}) * Len(c.fwd))
  <2> DEFINE n == Min({c.rxq, c.txq}) * Len(c.fwd)
  <2>1. PICK s : RssSetup(c, t) = Describe(Setup(c, t, Min({c.lcores, n}), n), s)
    BY DEF RssSetup
  <2>2. n \in Nat
    BY <1>4, <1>5
  <2> HIDE DEF n
  <2>3. Ends(RssSetup(c, t), n)
    BY <1>1, <1>3, <2>1, <2>2
  <2> QED
    BY <2>3 DEF n
<1>8. Ends(StreamsSetup(c, t), Cardinality(DOMAIN t.streams))
  <2> DEFINE n == Cardinality(DOMAIN t.streams)
  <2>1. PICK s : StreamsSetup(c, t) = Describe(Setup(c, t, Min({c.lcores, n}), n), s)
    BY DEF StreamsSetup
  <2>2. n \in Nat
    BY DEF TableTyped
  <2> HIDE DEF n
  <2>3. Ends(StreamsSetup(c, t), n)
    BY <1>1, <1>3, <2>1, <2>2
  <2> QED
    BY <2>3 DEF n
<1>9. Ends(IcmpEchoSetup(c, t), c.rxq * Len(c.fwd))
  <2> DEFINE n == c.rxq * Len(c.fwd)
             m == c.txq * Len(c.fwd)
             l == Min({c.lcores, m, n})
  <2>1. PICK s : IcmpEchoSetup(c, t) = Describe(Setup(c, t, l, n), s)
    BY DEF IcmpEchoSetup
  <2>2. n \in Nat /\ m \in Nat
    BY <1>4
  <2> HIDE DEF n, m
  <2>3. l \in 0 .. NbLcores /\ l <= n
    BY <1>2, <2>2, MinOfThree
  <2> HIDE DEF l
  <2>4. Ends(IcmpEchoSetup(c, t), n)
    BY <1>1, <2>1, <2>2, <2>3
  <2> QED
    BY <2>4 DEF n
<1>10. c.split \in BOOLEAN
  BY DEF ConfTyped
<1>11. Ends(FwdConfigSetup(c, t), NbStreams(c, t))
  BY <1>6, <1>7, <1>8, <1>9, <1>10 DEF FwdConfigSetup, NbStreams
<1> QED
  BY <1>11 DEF Ends

-----------------------------------------------------------------------------
(* Every step keeps the form of the table and of the cores. *)

LEMMA SeqOfMore ==
    ASSUME NEW A, NEW B, A \subseteq B, NEW l \in Seq(A)
    PROVE  l \in Seq(B)
<1>1. l \in [1 .. Len(l) -> A] /\ Len(l) \in Nat
  OBVIOUS
<1>2. l \in [1 .. Len(l) -> B]
  BY <1>1
<1> QED
  BY <1>1, <1>2

LEMMA ConfOf ==
    ASSUME opts \in Options,
           NEW ls \in [ids : Seq(Ports), fwd_ids : Seq(Ports), nb_fwd_ports : Nat], ls.nb_fwd_ports <= Len(ls.fwd_ids),
           NEW st \in [lcores : 1 .. NbLcores, rxq : Nat \ {0}, txq : Nat \ {0}, eng : opts.engines],
           NEW va
    PROVE  /\ ConfTyped(Conf(ls, st, va))
           /\ Len(Conf(ls, st, va).fwd) = ls.nb_fwd_ports
           /\ \A i \in 1 .. ls.nb_fwd_ports : Conf(ls, st, va).fwd[i] = ls.fwd_ids[i]
<1> DEFINE f == SubSeq(ls.fwd_ids, 1, ls.nb_fwd_ports)
<1>1. f \in Seq(Ports) /\ Len(f) = ls.nb_fwd_ports /\ \A i \in 1 .. ls.nb_fwd_ports : f[i] = ls.fwd_ids[i]
  <2>1. ls.fwd_ids \in Seq(Ports) /\ ls.nb_fwd_ports \in Nat
    OBVIOUS
  <2> HIDE DEF f
  <2> QED
    BY <2>1, FirstOnes DEF f
<1>2. opts.topology \in Topologies /\ opts.split \in BOOLEAN /\ opts.devices \in 0 .. MaxPorts
  BY StateAssumption
<1>3. opts.streams_port \in Seq(Ports)
  <2> DEFINE l == opts.streams_port
  <2>1. l \in Seq(0 .. opts.devices - 1)
    BY StateAssumption
  <2>2. 0 .. opts.devices - 1 \subseteq Ports
    BY <1>2, StateAssumption DEF Ports
  <2> DEFINE D == 0 .. opts.devices - 1
  <2>3. D \subseteq Ports /\ l \in Seq(D)
    BY <2>1, <2>2
  <2> HIDE DEF l, D
  <2>4. l \in Seq(Ports)
    BY <2>3, SeqOfMore
  <2> QED
    BY <2>4 DEF l
<1> DEFINE c == Conf(ls, st, va)
<1>4. /\ c.ids = ls.ids /\ c.fwd = f /\ c.lcores = st.lcores /\ c.rxq = st.rxq /\ c.txq = st.txq /\ c.eng = st.eng
      /\ c.topology = opts.topology /\ c.split = opts.split /\ c.streams_port = opts.streams_port
  BY DEF Conf
<1> HIDE DEF f, c
<1>5. ConfTyped(c)
  BY <1>1, <1>2, <1>3, <1>4 DEF ConfTyped
<1> QED
  BY <1>1, <1>4, <1>5 DEF c

\* The steps that set the configuration up again
LEMMA TableChanges ==
    ASSUME Basics, [Next]_vars
    PROVE  \/ table' = table
           \/ /\ Reconfigure(lists', settings', valid)
              /\ UNCHANGED <<opts, valid>>
              /\ Setting \/ \E t \in Threads : StartSetUp(t)
<1>1. CASE UNCHANGED vars
  BY <1>1 DEF vars
<1>2. CASE Commands
  <2>1. PICK q : Calls("cli", q)
    BY <1>2, CommandsCall
  <2> QED
    BY <2>1 DEF Calls, fwdVars
<1>3. CASE Setting
  BY <1>3 DEF Setting, set_nbport, set_nbcore, set_portlist, config_rx_tx, set_fwd_mode, Set, Give
<1>4. CASE Removal \/ rmv_port_callback
  BY <1>4 DEF Removal, rmv_port_callback, fwdVars
<1>5. ASSUME NEW t \in Threads, PortStep(t)
      PROVE  table' = table
  BY <1>5 DEF PortStep, StartClaim, ConfigureFails, IsolateFails, Configure, DeviceStarts, DeviceStartFails, StopCheck,
         StopClaim, DeviceStop, CloseCheck, CloseInvalid, DeviceClose, ClosePrune, ResetCheck, DeviceReset, Probe,
         ProbeAgain, setup_attached_port, SaveDevice, Detach, OutsidePorts, fwdVars
<1>6. ASSUME NEW t \in Threads, FwdStep(t)
      PROVE  table' = table \/ (Reconfigure(lists', settings', valid) /\ UNCHANGED <<opts, valid>> /\ StartSetUp(t))
  <2>1. CASE StartSetUp(t)
    <3>1. UNCHANGED <<lists, settings, opts, valid>> /\ Reconfigure(lists, settings, valid)
      BY <2>1 DEF StartSetUp, OutsideFwd, portVars
    <3>2. Reconfigure(lists', settings', valid)
      BY <3>1
    <3> QED
      BY <2>1, <3>1, <3>2
  <2>2. CASE ~StartSetUp(t)
    BY <1>6, <2>2 DEF FwdStep, StartCheck, Launch, StopTell, StopWait, fwdVars
  <2> QED
    BY <2>1, <2>2
<1>7. CASE CoreStep
  BY <1>7 DEF CoreStep, CoreFinish
<1>8. CASE Next
  BY <1>2, <1>3, <1>4, <1>5, <1>6, <1>7, <1>8 DEF Next, Commands, Setting
<1> QED
  BY <1>1, <1>8

\* What fwd_config_setup() is called with and what it makes
LEMMA ReconfigureMakes ==
    ASSUME Basics, TableTyped(table), [Next]_vars, table' # table
    PROVE  LET c == Conf(lists', settings', valid)
           IN  /\ ConfTyped(c) /\ Len(c.fwd) = lists'.nb_fwd_ports
               /\ \A i \in 1 .. lists'.nb_fwd_ports : c.fwd[i] = lists'.fwd_ids[i]
               /\ table' = FwdConfigSetup(c, table)
               /\ TableTyped(table')
<1>1. Reconfigure(lists', settings', valid) /\ UNCHANGED <<opts, valid>>
  BY TableChanges
<1>2. Basics'
  BY StepKeepsBasics
<1>3. PICK ls, st : ls = lists' /\ st = settings'
  OBVIOUS
<1>4. /\ opts \in Options
      /\ ls \in [ids : Seq(Ports), fwd_ids : Seq(Ports), nb_fwd_ports : Nat] /\ ls.nb_fwd_ports <= Len(ls.fwd_ids)
      /\ st \in [lcores : 1 .. NbLcores, rxq : Nat \ {0}, txq : Nat \ {0}, eng : opts.engines]
  BY <1>1, <1>2, <1>3 DEF Basics, PortTypes
<1>5. PICK va : va = valid
  OBVIOUS
<1>6. /\ ConfTyped(Conf(ls, st, va)) /\ Len(Conf(ls, st, va).fwd) = ls.nb_fwd_ports
      /\ \A i \in 1 .. ls.nb_fwd_ports : Conf(ls, st, va).fwd[i] = ls.fwd_ids[i]
  BY <1>4, ConfOf
<1>7. table' = FwdConfigSetup(Conf(ls, st, va), table)
  BY <1>1, <1>3, <1>5 DEF Reconfigure
<1> DEFINE c == Conf(ls, st, va)
<1>8. TableTyped(FwdConfigSetup(c, table))
  <2>1. ConfTyped(c)
    BY <1>6
  <2> HIDE DEF c
  <2> QED
    BY <2>1, ConfigTyped
<1>9. TableTyped(table')
  BY <1>7, <1>8
<1>10. Conf(lists', settings', valid) = c
  BY <1>3, <1>5
<1> HIDE DEF c
<1>11. /\ ConfTyped(c) /\ Len(c.fwd) = lists'.nb_fwd_ports
       /\ \A i \in 1 .. lists'.nb_fwd_ports : c.fwd[i] = lists'.fwd_ids[i]
       /\ table' = FwdConfigSetup(c, table)
  BY <1>3, <1>6, <1>7 DEF c
<1> QED
  BY <1>9, <1>10, <1>11

LEMMA OptionsStay ==
    ASSUME Basics, [Next]_vars
    PROVE  opts' = opts
<1>1. CASE UNCHANGED vars
  BY <1>1 DEF vars
<1>2. CASE Commands
  <2>1. PICK q : Calls("cli", q)
    BY <1>2, CommandsCall
  <2> QED
    BY <2>1 DEF Calls
<1>3. CASE Setting
  BY <1>3 DEF Setting, set_nbport, set_nbcore, set_portlist, config_rx_tx, set_fwd_mode, Set
<1>4. CASE Removal \/ rmv_port_callback
  BY <1>4 DEF Removal, rmv_port_callback
<1>5. ASSUME NEW t \in Threads, PortStep(t) \/ FwdStep(t)
      PROVE  opts' = opts
  BY <1>5, StepShaped DEF Moves
<1>6. CASE CoreStep
  BY <1>6 DEF CoreStep, CoreFinish, OutsideFwd
<1>7. CASE Next
  BY <1>2, <1>3, <1>4, <1>5, <1>6, <1>7 DEF Next, Commands, Setting
<1> QED
  BY <1>1, <1>7

TableTypes == TableTyped(table)

LEMMA StepKeepsTable ==
    ASSUME Basics, TableTypes, [Next]_vars
    PROVE  TableTypes'
<1>1. CASE table' = table
  BY <1>1, OptionsStay DEF TableTypes, TableTyped
<1>2. CASE table' # table
  <2>1. TableTyped(table') /\ opts' = opts
    BY <1>2, ReconfigureMakes, TableChanges DEF TableTypes
  <2> QED
    BY <2>1 DEF TableTypes, TableTyped
<1> QED
  BY <1>1, <1>2

\* The first configuration is made like every other.
LEMMA InitMakes ==
    ASSUME Init
    PROVE  LET c == Conf(lists, settings, valid)
           IN  /\ ConfTyped(c) /\ Len(c.fwd) = lists.nb_fwd_ports
               /\ \A i \in 1 .. lists.nb_fwd_ports : c.fwd[i] = lists.fwd_ids[i]
               /\ \E e : /\ TableTyped(e) /\ table = FwdConfigSetup(c, e)
                         /\ DOMAIN e.streams \in {{}, 0 .. WantedStreams(c) - 1}
<1> DEFINE c == Conf(lists, settings, valid)
           none == [fwd_eng |-> settings.eng, nb_fwd_ports |-> 0, nb_fwd_lcores |-> 0, nb_fwd_streams |-> 0]
           L == [lc \in Lcores |-> [stream_idx |-> 0, stream_nb |-> 0]]
           empty == [cur |-> none, streams |-> << >>, lcores |-> L]
<1>1. table = FwdConfigSetup(c, InitStreams(c, empty))
  BY DEF Init
<1>2. /\ ConfTyped(c) /\ Len(c.fwd) = lists.nb_fwd_ports
      /\ \A i \in 1 .. lists.nb_fwd_ports : c.fwd[i] = lists.fwd_ids[i]
  <2>1. PortTypes
    BY InitBasics DEF Basics
  <2>2. /\ opts \in Options
        /\ lists \in [ids : Seq(Ports), fwd_ids : Seq(Ports), nb_fwd_ports : Nat]
        /\ lists.nb_fwd_ports <= Len(lists.fwd_ids)
        /\ settings \in [lcores : 1 .. NbLcores, rxq : Nat \ {0}, txq : Nat \ {0}, eng : opts.engines]
    BY <2>1, Zenon DEF PortTypes
  <2> QED
    BY <2>2, ConfOf
<1>3. settings.eng \in opts.engines
  <2>1. PortTypes
    BY InitBasics DEF Basics
  <2>2. settings \in [lcores : 1 .. NbLcores, rxq : Nat \ {0}, txq : Nat \ {0}, eng : opts.engines]
    BY <2>1 DEF PortTypes
  <2> QED
    BY <2>2
<1>e. empty.streams = << >> /\ DOMAIN empty.streams = {}
  OBVIOUS
<1>4. TableTyped(empty)
  <2>1. /\ none \in [fwd_eng : opts.engines, nb_fwd_ports : Nat, nb_fwd_lcores : 0 .. NbLcores, nb_fwd_streams : Nat]
        /\ none.nb_fwd_lcores = 0 /\ none.nb_fwd_streams = 0
    BY <1>3, StateAssumption
  <2>2. L \in [Lcores -> [stream_idx : Nat, stream_nb : Nat]]
    OBVIOUS
  <2>3. /\ DOMAIN empty = {"cur", "streams", "lcores"} /\ empty.cur = none /\ empty.lcores = L
        /\ empty.streams = << >>
    OBVIOUS
  <2>4. DOMAIN empty.streams = {} /\ Cardinality({}) = 0 /\ 0 .. 0 - 1 = {}
    BY <2>3, FS_EmptySet
  <2> HIDE DEF none, L, empty
  <2> QED
    BY <2>1, <2>2, <2>3, <2>4 DEF TableTyped
<1> HIDE DEF empty, c
<1> DEFINE e == InitStreams(c, empty)
<1>5. TableTyped(e) /\ DOMAIN e.streams \in {{}, 0 .. WantedStreams(c) - 1}
  BY <1>e, <1>2, <1>4, StreamsMade
<1>6. table = FwdConfigSetup(c, e)
  BY <1>1
<1> HIDE DEF e
<1> QED
  BY <1>2, <1>5, <1>6 DEF c

LEMMA InitTable == Init => TableTypes
<1> SUFFICES ASSUME Init
             PROVE  TableTypes
  OBVIOUS
<1> DEFINE c == Conf(lists, settings, valid)
<1>1. ConfTyped(c) /\ \E e : TableTyped(e) /\ table = FwdConfigSetup(c, e)
  BY InitMakes
<1> HIDE DEF c
<1> QED
  BY <1>1, ConfigTyped DEF TableTypes

-----------------------------------------------------------------------------
(* The kinds of steps, and who is at an inner step after them *)

Outside == UNCHANGED <<portVars, fwdVars, settings, opts, todo, overlapped>>

LEMMA StepKinds ==
    ASSUME Basics, [Next]_vars
    PROVE  \/ Outside
           \/ \E t \in Threads : \E q \in Seq(Steps) : Calls(t, q)
           \/ Setting
           \/ \E t \in Threads : PortStep(t) \/ FwdStep(t)
           \/ CoreStep
<1>1. CASE UNCHANGED vars
  BY <1>1 DEF vars, Outside, portVars, fwdVars
<1>2. CASE Commands
  <2>1. "cli" \in Threads
    BY DEF Threads
  <2> QED
    BY <1>2, <2>1, CommandsCall
<1>3. CASE Removal
  BY <1>3 DEF Removal, Outside
<1>4. CASE rmv_port_callback
  <2>1. "alarm" \in Threads
    BY DEF Threads
  <2> QED
    BY <1>4, <2>1, CallbackCalls DEF Outside
<1> QED
  BY <1>1, <1>2, <1>3, <1>4 DEF Next, Commands, Setting

\* Nobody but the thread that moves has something to do, unless calls overlapped.
LEMMA OnlyMover ==
    ASSUME Basics, NEW t \in Threads, NEW u \in Threads, u # t, Moves(t), ~overlapped
    PROVE  \A o : ~At(u, o) /\ ~At(u, o)'
<1>1. todo[u] = << >>
  BY DEF Basics, Alone, Moves
<1> QED
  BY <1>1 DEF Moves, At

\* A call begins when nobody has something to do, or overlaps, and no call begins with an inner step.
LEMMA CallsAt ==
    ASSUME Basics, NEW t \in Threads, NEW q, Calls(t, q)
    PROVE  /\ todo[t] = << >> /\ todo'[t] = q
           /\ \A o : At(t, o)' <=> q[1].op = o
           /\ q[1].op \in Given /\ Given \cap Inner = {}
           /\ overlapped => overlapped'
           /\ ~overlapped' => \A u \in Threads : u # t => todo[u] = << >> /\ todo'[u] = << >>
           /\ ~overlapped' => \A u \in Threads, o \in Inner : ~At(u, o)'
<1>1. todo \in [Threads -> Seq(Steps)] /\ q \in Seq(Steps) /\ q # << >> /\ q[1].op \in Given
  BY DEF Basics, Shaped, Calls, Shape
<1>2. /\ todo[t] = << >> /\ todo' = [todo EXCEPT ![t] = q]
      /\ overlapped' = (overlapped \/ \E u \in Threads \ {t} : todo[u] # << >>)
  BY DEF Calls, Call
<1>3. todo'[t] = q /\ \A u \in Threads : u # t => todo'[u] = todo[u]
  BY <1>1, <1>2
<1>4. Head(q) = q[1]
  BY <1>1
<1>5. \A o : At(t, o)' <=> q[1].op = o
  BY <1>1, <1>3, <1>4 DEF At
<1>6. Given \cap Inner = {}
  BY DEF Given, Inner
<1>7. ~overlapped' => \A u \in Threads : u # t => todo[u] = << >> /\ todo'[u] = << >>
  BY <1>2, <1>3
<1>8. ~overlapped' => \A u \in Threads, o \in Inner : ~At(u, o)'
  <2> SUFFICES ASSUME ~overlapped', NEW u \in Threads, NEW o \in Inner
               PROVE  ~At(u, o)'
    OBVIOUS
  <2>1. CASE u = t
    BY <1>1, <1>5, <1>6, <2>1
  <2>2. CASE u # t
    BY <1>7, <2>2 DEF At
  <2> QED
    BY <2>1, <2>2
<1> QED
  BY <1>1, <1>2, <1>3, <1>5, <1>6, <1>7, <1>8

\* A command that changes settings is done at once, when nobody has something to do, or overlaps.
LEMMA SettingAt ==
    ASSUME Basics, Setting
    PROVE  /\ UNCHANGED <<valid, spare, closed, status, dev, opts, test_done, sound, todo>>
           /\ overlapped => overlapped'
           /\ ~overlapped' => \A u \in Threads : todo[u] = << >> /\ \A o : ~At(u, o) /\ ~At(u, o)'
<1>1. \E name : Set(name)
  BY DEF Setting, set_nbport, set_nbcore, set_portlist, config_rx_tx, set_fwd_mode
<1>2. /\ UNCHANGED <<valid, spare, closed, status, dev, opts, test_done, sound, todo>>
      /\ todo["cli"] = << >> /\ overlapped' = (overlapped \/ todo["alarm"] # << >>)
  BY <1>1 DEF Set, Give
<1>3. ~overlapped' => \A u \in Threads : todo[u] = << >>
  BY <1>2 DEF Threads
<1> QED
  BY <1>2, <1>3 DEF At

-----------------------------------------------------------------------------
(* The forwarding cores *)

CoreRecords == [state : {"wait", "running", "finished"}, stopped : BOOLEAN, freed : BOOLEAN, stream_idx : Nat,
                stream_nb : Nat, fwd_eng : opts.engines]

CoreTypes == core \in [Lcores -> CoreRecords]

\* What a setup under the cores does to them
LEMMA CoresFreed ==
    ASSUME CoreTypes, NEW ls, NEW st, NEW va, Reconfigure(ls, st, va)
    PROVE  /\ core' \in [Lcores -> CoreRecords]
           /\ \A lc \in Lcores : /\ core'[lc].state = core[lc].state /\ core'[lc].stopped = core[lc].stopped
                                 /\ core'[lc].fwd_eng = core[lc].fwd_eng
                                 /\ core'[lc].stream_idx = core[lc].stream_idx
                                 /\ core'[lc].stream_nb = core[lc].stream_nb
           /\ resized' = (resized \/ \E lc \in Lcores : Running(lc))
<1> DEFINE freed == DOMAIN FwdConfigSetup(Conf(ls, st, va), table).streams # DOMAIN table.streams
<1>1. /\ core' = [lc \in Lcores |-> [core[lc] EXCEPT !.freed = @ \/ (freed /\ Running(lc))]]
      /\ resized' = (resized \/ \E lc \in Lcores : Running(lc))
  BY DEF Reconfigure
<1>2. \A lc \in Lcores : core[lc] \in CoreRecords
  BY DEF CoreTypes
<1> DEFINE F(lc) == core[lc].freed \/ (freed /\ Running(lc))
<1>3. \A lc \in Lcores : F(lc) \in BOOLEAN
  BY <1>2 DEF CoreRecords
<1>4. \A lc \in Lcores : core'[lc] = [core[lc] EXCEPT !.freed = F(lc)]
  BY <1>1
<1> HIDE DEF F
<1>5. \A lc \in Lcores : /\ core'[lc] \in CoreRecords
                         /\ core'[lc].state = core[lc].state /\ core'[lc].stopped = core[lc].stopped
                         /\ core'[lc].fwd_eng = core[lc].fwd_eng
                         /\ core'[lc].stream_idx = core[lc].stream_idx
                         /\ core'[lc].stream_nb = core[lc].stream_nb
  BY <1>2, <1>3, <1>4 DEF CoreRecords
<1>6. core' = [lc \in Lcores |-> core'[lc]]
  BY <1>1
<1> QED
  BY <1>1, <1>5, <1>6

\* What the steps of forwarding do to them
LEMMA CoresLaunched ==
    ASSUME TableTypes, CoreTypes, NEW t, Launch(t)
    PROVE  /\ core' \in [Lcores -> CoreRecords]
           /\ \A lc \in Lcores :
                 \/ core'[lc] = core[lc] /\ lc >= table.cur.nb_fwd_lcores
                 \/ core'[lc] = Job(lc) /\ lc < table.cur.nb_fwd_lcores /\ core[lc].state = "wait"
                 \/ core'[lc].state = core[lc].state /\ core[lc].state # "wait"
<1>1. core' = [lc \in Lcores |-> IF lc >= table.cur.nb_fwd_lcores THEN core[lc]
                                 ELSE IF core[lc].state = "wait" THEN Job(lc)
                                 ELSE [core[lc] EXCEPT !.stopped = FALSE]]
  BY DEF Launch
<1>2. \A lc \in Lcores : core[lc] \in CoreRecords
  BY DEF CoreTypes
<1>3. /\ table.cur.nb_fwd_lcores \in 0 .. NbLcores /\ table.cur.fwd_eng \in opts.engines
      /\ \A lc \in Lcores : table.lcores[lc].stream_idx \in Nat /\ table.lcores[lc].stream_nb \in Nat
  BY DEF TableTypes, TableTyped
<1>4. \A lc \in Lcores : Job(lc) \in CoreRecords
  BY <1>3 DEF Job, CoreRecords
<1>5. \A lc \in Lcores : LET r == [core[lc] EXCEPT !.stopped = FALSE]
                         IN  r \in CoreRecords /\ r.state = core[lc].state
  BY <1>2 DEF CoreRecords
<1>6. \A lc \in Lcores : lc >= table.cur.nb_fwd_lcores \/ lc < table.cur.nb_fwd_lcores
  BY <1>3, StateAssumption DEF Lcores
<1> HIDE DEF Job
<1> QED
  BY <1>1, <1>2, <1>4, <1>5, <1>6

LEMMA CoresTold ==
    ASSUME TableTypes, CoreTypes, core' = [lc \in Lcores |-> [core[lc] EXCEPT !.stopped = @ \/ lc < table.cur.nb_fwd_lcores]]
    PROVE  /\ core' \in [Lcores -> CoreRecords]
           /\ \A lc \in Lcores : /\ core'[lc].state = core[lc].state /\ core'[lc].fwd_eng = core[lc].fwd_eng
                                 /\ core'[lc].stream_idx = core[lc].stream_idx
                                 /\ core'[lc].stream_nb = core[lc].stream_nb
                                 /\ lc < table.cur.nb_fwd_lcores => core'[lc].stopped
<1>1. \A lc \in Lcores : core[lc] \in CoreRecords
  BY DEF CoreTypes
<1> DEFINE F(lc) == core[lc].stopped \/ lc < table.cur.nb_fwd_lcores
<1>2. \A lc \in Lcores : F(lc) \in BOOLEAN /\ (lc < table.cur.nb_fwd_lcores => F(lc) = TRUE)
  BY <1>1 DEF CoreRecords
<1>3. \A lc \in Lcores : core'[lc] = [core[lc] EXCEPT !.stopped = F(lc)]
  OBVIOUS
<1> HIDE DEF F
<1>4. \A lc \in Lcores : /\ core'[lc] \in CoreRecords /\ core'[lc].stopped = F(lc)
                         /\ core'[lc].state = core[lc].state /\ core'[lc].fwd_eng = core[lc].fwd_eng
                         /\ core'[lc].stream_idx = core[lc].stream_idx
                         /\ core'[lc].stream_nb = core[lc].stream_nb
  BY <1>1, <1>2, <1>3 DEF CoreRecords
<1>5. core' = [lc \in Lcores |-> core'[lc]]
  OBVIOUS
<1> QED
  BY <1>2, <1>4, <1>5

LEMMA CoresWait ==
    ASSUME CoreTypes, core' = [lc \in Lcores |-> [core[lc] EXCEPT !.state = "wait"]]
    PROVE  core' \in [Lcores -> CoreRecords] /\ \A lc \in Lcores : core'[lc].state = "wait"
<1>1. \A lc \in Lcores : core[lc] \in CoreRecords
  BY DEF CoreTypes
<1>2. \A lc \in Lcores : core'[lc] = [core[lc] EXCEPT !.state = "wait"]
  OBVIOUS
<1>3. \A lc \in Lcores : core'[lc] \in CoreRecords /\ core'[lc].state = "wait"
  BY <1>1, <1>2 DEF CoreRecords
<1> QED
  BY <1>3

LEMMA CoresFinish ==
    ASSUME CoreTypes, NEW lc \in Lcores, CoreFinish(lc)
    PROVE  /\ core' \in [Lcores -> CoreRecords] /\ core'[lc].state = "finished"
           /\ \A c \in Lcores : c # lc => core'[c] = core[c]
<1>1. core[lc] \in CoreRecords
  BY DEF CoreTypes
<1> DEFINE r == [core[lc] EXCEPT !.state = "finished"]
<1>2. r \in CoreRecords /\ r.state = "finished"
  BY <1>1 DEF CoreRecords
<1>3. core' = [core EXCEPT ![lc] = r]
  BY DEF CoreFinish
<1> HIDE DEF r
<1> QED
  BY <1>2, <1>3 DEF CoreTypes

-----------------------------------------------------------------------------
(* Starting and stopping: a core runs only between start and stop, it      *)
(* serves what the configuration in force gives it, and whoever waits for  *)
(* the cores has told all of them to stop.                                 *)

StartStop ==
    ~overlapped =>
        /\ \A lc \in Lcores : Running(lc) => ~test_done
        /\ \A t \in Threads : At(t, "set_up") => test_done /\ all_ports_started
        /\ \A t \in Threads : At(t, "launch") => ~test_done /\ \A lc \in Lcores : ~Running(lc)
        /\ \A t \in Threads : At(t, "wait") => ~test_done

Serving ==
    Undisturbed =>
        \A lc \in Lcores : Running(lc) =>
            /\ lc < table.cur.nb_fwd_lcores
            /\ core[lc].fwd_eng = table.cur.fwd_eng
            /\ core[lc].stream_idx = table.lcores[lc].stream_idx
            /\ core[lc].stream_nb = table.lcores[lc].stream_nb
            /\ \A t \in Threads : At(t, "wait") => core[lc].stopped

CoresInv == CoreTypes /\ StartStop /\ Serving

LEMMA OuterKeepsCores ==
    ASSUME Basics, TableTypes, CoresInv,
           \/ Outside
           \/ \E t \in Threads : \E q \in Seq(Steps) : Calls(t, q)
    PROVE  CoresInv'
<1>1. UNCHANGED <<portVars, fwdVars, opts>>
  BY DEF Outside, Calls
<1>2. UNCHANGED <<valid, status, table, test_done, core, resized, opts>>
  BY <1>1 DEF portVars, fwdVars
<1>3. CoreTypes'
  BY <1>2 DEF CoresInv, CoreTypes, CoreRecords
<1>4. CASE Outside
  BY <1>2, <1>3, <1>4 DEF Outside, CoresInv, StartStop, Serving, Undisturbed, Running, At, all_ports_started
<1>5. ASSUME NEW t \in Threads, NEW q \in Seq(Steps), Calls(t, q)
      PROVE  StartStop' /\ Serving'
  <2>1. /\ overlapped => overlapped'
        /\ ~overlapped' => \A u \in Threads, o \in Inner : ~At(u, o)'
    BY <1>5, CallsAt
  <2>2. "set_up" \in Inner /\ "launch" \in Inner /\ "wait" \in Inner
    BY DEF Inner
  <2>3. \A lc : Running(lc)' <=> Running(lc)
    BY <1>2 DEF Running
  <2>4. StartStop'
    BY <1>2, <2>1, <2>2, <2>3 DEF CoresInv, StartStop
  <2>5. Serving'
    BY <1>2, <2>1, <2>2, <2>3 DEF CoresInv, Serving, Undisturbed
  <2> QED
    BY <2>4, <2>5
<1> QED
  BY <1>3, <1>4, <1>5 DEF CoresInv

LEMMA SettingKeepsCores ==
    ASSUME Basics, TableTypes, CoresInv, Setting
    PROVE  CoresInv'
<1>1. /\ UNCHANGED <<valid, status, opts, test_done, todo>>
      /\ overlapped => overlapped'
      /\ ~overlapped' => \A u \in Threads : \A o : ~At(u, o)'
  BY SettingAt
<1>2. \/ UNCHANGED <<table, core, resized>>
      \/ Reconfigure(lists', settings', valid)
  BY DEF Setting, set_nbport, set_nbcore, set_portlist, config_rx_tx, set_fwd_mode
<1>3. CASE UNCHANGED <<table, core, resized>>
  <2>1. \A lc : Running(lc)' <=> Running(lc)
    BY <1>3 DEF Running
  <2> QED
    BY <1>1, <1>3, <2>1 DEF CoresInv, CoreTypes, CoreRecords, StartStop, Serving, Undisturbed
<1>4. CASE Reconfigure(lists', settings', valid)
  <2>1. PICK ls, st, va : ls = lists' /\ st = settings' /\ va = valid
    OBVIOUS
  <2>2. Reconfigure(ls, st, va)
    BY <1>4, <2>1
  <2>3. /\ core' \in [Lcores -> CoreRecords]
        /\ \A lc \in Lcores : core'[lc].state = core[lc].state
        /\ resized' = (resized \/ \E lc \in Lcores : Running(lc))
    BY <2>2, CoresFreed DEF CoresInv
  <2>4. \A lc \in Lcores : Running(lc)' <=> Running(lc)
    BY <2>3 DEF Running
  <2>5. ~resized' => \A lc \in Lcores : ~Running(lc)'
    BY <2>3, <2>4
  <2>6. CoreTypes'
    BY <1>1, <2>3 DEF CoreTypes, CoreRecords
  <2>7. StartStop'
    BY <1>1, <2>4 DEF CoresInv, StartStop
  <2>8. Serving'
    BY <2>5 DEF Serving, Undisturbed
  <2> QED
    BY <2>6, <2>7, <2>8 DEF CoresInv
<1> QED
  BY <1>2, <1>3, <1>4

LEMMA PortStepKeepsCores ==
    ASSUME Basics, TableTypes, CoresInv, NEW t \in Threads, PortStep(t)
    PROVE  CoresInv'
<1>1. UNCHANGED OutsidePorts
  BY DEF PortStep, StartClaim, ConfigureFails, IsolateFails, Configure, DeviceStarts, DeviceStartFails, StopCheck,
         StopClaim, DeviceStop, CloseCheck, CloseInvalid, DeviceClose, ClosePrune, ResetCheck, DeviceReset, Probe,
         ProbeAgain, setup_attached_port, SaveDevice, Detach
<1>2. UNCHANGED <<table, test_done, core, resized, opts, overlapped>>
  BY <1>1 DEF OutsidePorts, fwdVars
<1>3. \A lc : Running(lc)' <=> Running(lc)
  BY <1>2 DEF Running
<1>4. ~At(t, "set_up")' /\ ~At(t, "launch")' /\ ~At(t, "wait")'
  <2>1. Arriving(t) /\ ~(StartCheck(t) \/ StartSetUp(t) \/ StopTell(t))
    <3>1. /\ \A o \in {"start", "set_up", "stop"} : ~At(t, o)
      <4>1. \E o \in Ops \ {"start", "set_up", "stop"} : At(t, o)
        BY DEF PortStep, StartClaim, ConfigureFails, IsolateFails, Configure, DeviceStarts, DeviceStartFails, StopCheck,
           StopClaim, DeviceStop, CloseCheck, CloseInvalid, DeviceClose, ClosePrune, ResetCheck, DeviceReset, Probe,
           ProbeAgain, setup_attached_port, SaveDevice, Detach, Ops, Inner, Leaving
      <4> QED
        BY <4>1 DEF At
    <3> QED
      BY <3>1, Arrivals DEF StartCheck, StartSetUp, StopTell
  <2> QED
    BY <2>1 DEF Arriving
<1>5. ~overlapped => \A u \in Threads : ~At(u, "set_up")' /\ ~At(u, "launch")' /\ ~At(u, "wait")'
  BY <1>4, StepShaped, OnlyMover
<1>6. CoreTypes'
  BY <1>2 DEF CoresInv, CoreTypes, CoreRecords
<1>7. StartStop'
  BY <1>2, <1>3, <1>5 DEF CoresInv, StartStop
<1>8. Serving'
  BY <1>2, <1>3, <1>5 DEF CoresInv, Serving, Undisturbed
<1> QED
  BY <1>6, <1>7, <1>8 DEF CoresInv

LEMMA FwdStepKeepsCores ==
    ASSUME Basics, TableTypes, CoresInv, NEW t \in Threads, FwdStep(t)
    PROVE  CoresInv'
<1>1. UNCHANGED <<valid, status, opts, overlapped>>
  BY DEF FwdStep, StartCheck, StartSetUp, Launch, StopTell, StopWait, OutsideFwd, portVars
<1>2. Arriving(t) /\ Moves(t)
  BY Arrivals, StepShaped
<1>3. ~overlapped => \A u \in Threads, o \in Inner : At(u, o)' => u = t
  BY <1>2, OnlyMover
<1>4. "set_up" \in Inner /\ "launch" \in Inner /\ "wait" \in Inner
  BY DEF Inner
<1>5. CoreTypes /\ StartStop /\ Serving
  BY DEF CoresInv
<1>6. all_ports_started' <=> all_ports_started
  BY <1>1 DEF all_ports_started
<1>7. CASE StartCheck(t)
  <2>1. UNCHANGED <<table, test_done, core, resized>>
    BY <1>7 DEF StartCheck, fwdVars
  <2>2. \A lc : Running(lc)' <=> Running(lc)
    BY <2>1 DEF Running
  <2>3. ~At(t, "launch")' /\ ~At(t, "wait")'
    BY <1>2, <1>7 DEF Arriving, StartCheck, StartSetUp, StopTell, At
  <2>4. At(t, "set_up")' => all_ports_started /\ test_done
    <3> SUFFICES ASSUME At(t, "set_up")', ~(all_ports_started /\ test_done)
                 PROVE  FALSE
      OBVIOUS
    <3>1. Return(t)
      BY <1>7 DEF StartCheck
    <3> QED
      BY <1>2, <1>4, <3>1, ReturnLeaves DEF Moves
  <2>5. CoreTypes'
    BY <1>1, <1>5, <2>1 DEF CoreTypes, CoreRecords
  <2>6. StartStop'
    BY <1>1, <1>3, <1>4, <1>5, <1>6, <2>1, <2>2, <2>3, <2>4 DEF StartStop
  <2>7. Serving'
    BY <1>1, <1>3, <1>4, <1>5, <2>1, <2>2, <2>3 DEF Serving, Undisturbed
  <2> QED
    BY <2>5, <2>6, <2>7 DEF CoresInv
<1>8. CASE StartSetUp(t)
  <2>1. test_done' = FALSE /\ Reconfigure(lists, settings, valid)
    BY <1>8 DEF StartSetUp
  <2>2. PICK ls, st, va : ls = lists /\ st = settings /\ va = valid
    OBVIOUS
  <2>3. Reconfigure(ls, st, va)
    BY <2>1, <2>2
  <2>4. /\ core' \in [Lcores -> CoreRecords]
        /\ \A lc \in Lcores : core'[lc].state = core[lc].state
        /\ resized' = (resized \/ \E lc \in Lcores : Running(lc))
    BY <1>5, <2>3, CoresFreed
  <2>5. \A lc \in Lcores : Running(lc)' <=> Running(lc)
    BY <2>4 DEF Running
  <2>6. ~At(t, "set_up")' /\ ~At(t, "wait")'
    BY <1>2, <1>8 DEF Arriving, StartCheck, StartSetUp, StopTell, At
  <2>7. ~overlapped => \A lc \in Lcores : ~Running(lc)
    BY <1>5, <1>8 DEF StartStop, StartSetUp
  <2>8. CoreTypes'
    BY <1>1, <2>4 DEF CoreTypes, CoreRecords
  <2>9. StartStop'
    BY <1>1, <1>3, <1>4, <2>1, <2>5, <2>6, <2>7 DEF StartStop
  <2>10. Serving'
    BY <1>1, <2>5, <2>7 DEF Serving, Undisturbed
  <2> QED
    BY <2>8, <2>9, <2>10 DEF CoresInv
<1>9. CASE Launch(t)
  <2>1. UNCHANGED <<table, test_done, resized>>
    BY <1>9 DEF Launch
  <2>2. /\ core' \in [Lcores -> CoreRecords]
        /\ \A lc \in Lcores :
              \/ core'[lc] = core[lc] /\ lc >= table.cur.nb_fwd_lcores
              \/ core'[lc] = Job(lc) /\ lc < table.cur.nb_fwd_lcores /\ core[lc].state = "wait"
              \/ core'[lc].state = core[lc].state /\ core[lc].state # "wait"
    BY <1>5, <1>9, CoresLaunched
  <2>3. ~At(t, "set_up")' /\ ~At(t, "launch")' /\ ~At(t, "wait")'
    BY <1>2, <1>9 DEF Arriving, StartCheck, StartSetUp, StopTell, Launch, At
  <2>4. ~overlapped => ~test_done /\ \A lc \in Lcores : ~Running(lc)
    BY <1>5, <1>9 DEF StartStop, Launch
  <2>5. ~overlapped => \A lc \in Lcores : Running(lc)' => core'[lc] = Job(lc) /\ lc < table.cur.nb_fwd_lcores
    BY <2>2, <2>4 DEF Running
  <2>6. CoreTypes'
    BY <1>1, <2>2 DEF CoreTypes, CoreRecords
  <2>7. StartStop'
    BY <1>1, <1>3, <1>4, <2>1, <2>3, <2>4 DEF StartStop
  <2>8. \A lc : /\ Job(lc).fwd_eng = table.cur.fwd_eng
                /\ Job(lc).stream_idx = table.lcores[lc].stream_idx
                /\ Job(lc).stream_nb = table.lcores[lc].stream_nb
    BY DEF Job
  <2>9. Serving'
    <3> HIDE DEF Job
    <3> QED
      BY <1>1, <1>3, <1>4, <2>1, <2>3, <2>5, <2>8 DEF Serving, Undisturbed
  <2> QED
    BY <2>6, <2>7, <2>9 DEF CoresInv
<1>10. CASE StopTell(t)
  <2>1. UNCHANGED <<table, test_done, resized>>
    BY <1>10 DEF StopTell
  <2>2. ~At(t, "set_up")' /\ ~At(t, "launch")'
    BY <1>2, <1>10 DEF Arriving, StartCheck, StartSetUp, StopTell, At
  <2>3. CASE test_done
    <3>1. UNCHANGED core /\ Return(t)
      BY <1>10, <2>3 DEF StopTell
    <3>2. ~At(t, "wait")'
      BY <1>2, <1>4, <3>1, ReturnLeaves DEF Moves
    <3>3. \A lc : Running(lc)' <=> Running(lc)
      BY <3>1 DEF Running
    <3>4. CoreTypes'
      BY <1>1, <1>5, <3>1 DEF CoreTypes, CoreRecords
    <3>5. StartStop'
      BY <1>1, <1>3, <1>4, <1>5, <2>1, <2>2, <3>2, <3>3 DEF StartStop
    <3>6. Serving'
      BY <1>1, <1>3, <1>4, <1>5, <2>1, <3>1, <3>2, <3>3 DEF Serving, Undisturbed
    <3> QED
      BY <3>4, <3>5, <3>6 DEF CoresInv
  <2>4. CASE ~test_done
    <3>1. core' = [lc \in Lcores |-> [core[lc] EXCEPT !.stopped = @ \/ lc < table.cur.nb_fwd_lcores]]
      BY <1>10, <2>4 DEF StopTell
    <3>2. /\ core' \in [Lcores -> CoreRecords]
          /\ \A lc \in Lcores : /\ core'[lc].state = core[lc].state /\ core'[lc].fwd_eng = core[lc].fwd_eng
                                /\ core'[lc].stream_idx = core[lc].stream_idx
                                /\ core'[lc].stream_nb = core[lc].stream_nb
                                /\ lc < table.cur.nb_fwd_lcores => core'[lc].stopped
      BY <1>5, <3>1, CoresTold
    <3>3. \A lc \in Lcores : Running(lc)' <=> Running(lc)
      BY <3>2 DEF Running
    <3>4. CoreTypes'
      BY <1>1, <3>2 DEF CoreTypes, CoreRecords
    <3>5. StartStop'
      BY <1>1, <1>3, <1>4, <1>5, <2>1, <2>2, <2>4, <3>3 DEF StartStop
    <3>6. Serving'
      BY <1>1, <1>5, <2>1, <3>2, <3>3 DEF Serving, Undisturbed
    <3> QED
      BY <3>4, <3>5, <3>6 DEF CoresInv
  <2> QED
    BY <2>3, <2>4
<1>11. CASE StopWait(t)
  <2>1. core' = [lc \in Lcores |-> [core[lc] EXCEPT !.state = "wait"]] /\ test_done' = TRUE
    BY <1>11 DEF StopWait
  <2>2. core' \in [Lcores -> CoreRecords] /\ \A lc \in Lcores : ~Running(lc)'
    <3>1. core' \in [Lcores -> CoreRecords] /\ \A lc \in Lcores : core'[lc].state = "wait"
      BY <1>5, <2>1, CoresWait
    <3> QED
      BY <3>1 DEF Running
  <2>3. ~At(t, "set_up")' /\ ~At(t, "launch")' /\ ~At(t, "wait")'
    BY <1>2, <1>11 DEF Arriving, StartCheck, StartSetUp, StopTell, StopWait, At
  <2>4. CoreTypes'
    BY <1>1, <2>2 DEF CoreTypes, CoreRecords
  <2>5. StartStop'
    BY <1>1, <1>3, <1>4, <2>2, <2>3 DEF StartStop
  <2>6. Serving'
    BY <2>2 DEF Serving
  <2> QED
    BY <2>4, <2>5, <2>6 DEF CoresInv
<1> QED
  BY <1>7, <1>8, <1>9, <1>10, <1>11 DEF FwdStep

LEMMA CoreStepKeepsCores ==
    ASSUME Basics, TableTypes, CoresInv, CoreStep
    PROVE  CoresInv'
<1>1. PICK lc \in Lcores : CoreFinish(lc)
  BY DEF CoreStep
<1>2. UNCHANGED <<table, test_done, resized, todo, valid, status, opts, overlapped>>
  BY <1>1 DEF CoreFinish, OutsideFwd, portVars
<1>3. /\ core' \in [Lcores -> CoreRecords] /\ core'[lc].state = "finished"
      /\ \A c \in Lcores : c # lc => core'[c] = core[c]
  BY <1>1, CoresFinish DEF CoresInv
<1>4. \A c \in Lcores : Running(c)' => c # lc /\ Running(c) /\ core'[c] = core[c]
  BY <1>3 DEF Running
<1>5. CoreTypes'
  BY <1>2, <1>3 DEF CoreTypes, CoreRecords
<1>6. StartStop'
  BY <1>2, <1>4 DEF CoresInv, StartStop, At, all_ports_started
<1>7. Serving'
  BY <1>2, <1>4 DEF CoresInv, Serving, Undisturbed, At
<1> QED
  BY <1>5, <1>6, <1>7 DEF CoresInv

LEMMA StepKeepsCores ==
    ASSUME Basics, TableTypes, CoresInv, [Next]_vars
    PROVE  CoresInv'
BY StepKinds, OuterKeepsCores, SettingKeepsCores, PortStepKeepsCores, FwdStepKeepsCores, CoreStepKeepsCores

LEMMA InitCores == Init => CoresInv
<1> SUFFICES ASSUME Init
             PROVE  CoresInv
  OBVIOUS
<1>1. /\ core = [lc \in Lcores |-> [state |-> "wait", stopped |-> FALSE, freed |-> FALSE, stream_idx |-> 0,
                                    stream_nb |-> 0, fwd_eng |-> settings.eng]]
      /\ \A t \in Threads : todo[t] = << >>
  BY DEF Init
<1>2. settings.eng \in opts.engines
  BY InitBasics DEF Basics, PortTypes
<1>3. CoreTypes
  BY <1>1, <1>2 DEF CoreTypes, CoreRecords
<1>4. \A lc \in Lcores : ~Running(lc)
  BY <1>1 DEF Running
<1>5. \A t \in Threads, o \in Inner : ~At(t, o)
  BY <1>1 DEF At
<1>6. "set_up" \in Inner /\ "launch" \in Inner /\ "wait" \in Inner
  BY DEF Inner
<1> QED
  BY <1>3, <1>4, <1>5, <1>6 DEF CoresInv, StartStop, Serving

\* The table keeps its form, and the cores start and stop as the program means them to.
LEMMA CoresHold == Spec => [](Basics /\ TableTypes /\ CoresInv)
<1> DEFINE Inv == Basics /\ TableTypes /\ CoresInv
<1>1. Init => Inv
  BY InitBasics, InitTable, InitCores
<1>2. Inv /\ [Next]_vars => Inv'
  BY StepKeepsBasics, StepKeepsTable, StepKeepsCores
<1> QED
  BY <1>1, <1>2, PTL DEF Spec

\* While stop_packet_forwarding() waits for the cores, each that runs has been told to stop, and
\* the engine it will end is the one they run, unless a setup ran under them or calls overlapped.
THEOREM EveryCoreIsTold == Spec => []StopTellsEveryCore
<1>1. Basics /\ TableTypes /\ CoresInv => StopTellsEveryCore
  BY DEF CoresInv, Serving, StopTellsEveryCore
<1> QED
  BY <1>1, CoresHold, PTL

-----------------------------------------------------------------------------
(* The lists of ports: as long as no calls overlap they name the ports     *)
(* there are, but for ports that are being closed, which are pruned before *)
(* the call ends, and for the one that is being set up.                    *)

Pruning == \E t \in Threads, o \in {"dev_close", "close_each", "prune"} : At(t, o)

ListsInv ==
    ~overlapped =>
        /\ ~Pruning => ToSet(lists.ids) \subseteq valid
        /\ \A p \in valid : p \in ToSet(lists.ids) \/ \E t \in Threads : At(t, "setup") /\ p \in ToSetUp(Port(t))
        /\ IsInjective(lists.fwd_ids)
        /\ ToSet(lists.fwd_ids) \subseteq ToSet(lists.ids)
        /\ \A p \in Ports : need[p].setup =>
              /\ p \in valid /\ status[p] = "HANDLING" /\ ~port_is_forwarding(p)
              /\ \E t \in Threads : At(t, "setup") /\ Port(t) = p

\* The lists name every port, and no port waits to be set up.
ListsCover ==
    /\ valid \subseteq ToSet(lists.ids)
    /\ IsInjective(lists.fwd_ids)
    /\ ToSet(lists.fwd_ids) \subseteq ToSet(lists.ids)
    /\ \A p \in Ports : ~need[p].setup

\* ... and only the ports there are.
ListsSettled == ListsCover /\ ToSet(lists.ids) \subseteq valid

LEMMA SettledLists == ListsSettled => ListsInv
BY DEF ListsSettled, ListsCover, ListsInv

LEMMA CoveringLists == ListsCover /\ Pruning => ListsInv
BY DEF ListsCover, ListsInv

\* Where the lists are between calls, and in a call that neither closes nor sets up a port
LEMMA IdleLists ==
    ASSUME ListsInv, ~overlapped, \A u \in Threads : todo[u] = << >>
    PROVE  ListsSettled
<1>1. \A u \in Threads : \A o : ~At(u, o)
  BY DEF At
<1>2. ~Pruning /\ \A u \in Threads : ~At(u, "setup")
  BY <1>1 DEF Pruning
<1> QED
  BY <1>2 DEF ListsInv, ListsSettled, ListsCover

LEMMA BusyLists ==
    ASSUME Basics, ListsInv, ~overlapped, NEW t \in Threads, NEW o, At(t, o), o # "setup"
    PROVE  ListsCover /\ (o \notin {"dev_close", "close_each", "prune"} => ListsSettled)
<1>1. \A u \in Threads : u # t => todo[u] = << >>
  BY DEF Basics, Alone, At
<1>2. \A u \in Threads : \A x : At(u, x) => u = t /\ x = o
  BY <1>1 DEF At
<1>3. ListsCover
  BY <1>2 DEF ListsInv, ListsCover
<1>4. o \notin {"dev_close", "close_each", "prune"} => ~Pruning
  BY <1>2 DEF Pruning
<1> QED
  BY <1>3, <1>4 DEF ListsInv, ListsSettled

LEMMA OuterKeepsLists ==
    ASSUME Basics, ListsInv,
           Outside \/ CoreStep \/ \E t \in Threads : \E q \in Seq(Steps) : Calls(t, q)
    PROVE  ListsInv'
<1>1. CASE Outside \/ CoreStep
  <2>1. UNCHANGED <<valid, status, need, lists, opts, todo, overlapped>>
    BY <1>1 DEF Outside, CoreStep, CoreFinish, OutsideFwd, portVars
  <2>2. /\ \A t, o : At(t, o)' <=> At(t, o)
        /\ \A t : Port(t)' = Port(t)
        /\ \A p : port_is_forwarding(p)' <=> port_is_forwarding(p)
    BY <2>1 DEF At, Port, port_is_forwarding
  <2>3. \A p : ToSetUp(p)' = ToSetUp(p)
    BY <2>1, <2>2 DEF ToSetUp
  <2>4. Pruning' <=> Pruning
    BY <2>2 DEF Pruning
  <2>5. \A p : (\E t \in Threads : At(t, "setup")' /\ p \in ToSetUp(Port(t))') <=> (\E t \in Threads : At(t, "setup") /\ p \in ToSetUp(Port(t)))
    BY <2>1, <2>2 DEF ToSetUp
  <2> QED
    BY <2>1, <2>2, <2>4, <2>5 DEF ListsInv
<1>2. ASSUME NEW t \in Threads, NEW q \in Seq(Steps), Calls(t, q)
      PROVE  ListsInv'
  <2>1. UNCHANGED <<valid, need, lists>>
    BY <1>2 DEF Calls, portVars
  <2> SUFFICES ASSUME ~overlapped'
               PROVE  ListsInv'
    BY DEF ListsInv
  <2>2. ~overlapped /\ \A u \in Threads : todo[u] = << >>
    BY <1>2, CallsAt
  <2>3. ListsSettled
    BY <2>2, IdleLists
  <2>4. ListsSettled'
    BY <2>1, <2>3 DEF ListsSettled, ListsCover
  <2> QED
    BY <2>4 DEF ListsSettled, ListsCover, ListsInv
<1> QED
  BY <1>1, <1>2

LEMMA SettingKeepsLists ==
    ASSUME Basics, ListsInv, Setting
    PROVE  ListsInv'
<1> SUFFICES ASSUME ~overlapped'
             PROVE  ListsInv'
  BY DEF ListsInv
<1>1. UNCHANGED <<valid>> /\ ~overlapped /\ \A u \in Threads : todo[u] = << >>
  BY SettingAt
<1>2. ListsSettled
  BY <1>1, IdleLists
<1>3. \A p \in Ports : ~need'[p].setup
  <2>1. CASE config_rx_tx
    <3>1. need' = [p \in Ports |-> IF p \in valid THEN [need[p] EXCEPT !.reconfig = TRUE, !.queues = TRUE]
                                   ELSE need[p]]
      BY <2>1 DEF config_rx_tx
    <3>2. \A p \in Ports : need[p] \in [setup : BOOLEAN, reconfig : BOOLEAN, queues : BOOLEAN]
      BY DEF Basics, PortTypes
    <3>3. \A p \in Ports : need'[p].setup = need[p].setup
      BY <3>1, <3>2
    <3> QED
      BY <1>2, <3>3 DEF ListsSettled, ListsCover
  <2>2. CASE ~config_rx_tx
    BY <1>2, <2>2 DEF ListsSettled, ListsCover, Setting, set_nbport, set_nbcore, set_portlist, set_fwd_mode
  <2> QED
    BY <2>1, <2>2
<1>4. /\ lists \in [ids : Seq(Ports), fwd_ids : Seq(Ports), nb_fwd_ports : Nat]
  BY DEF Basics, PortTypes
<1>5. /\ lists'.ids = lists.ids
      /\ IsInjective(lists'.fwd_ids) /\ ToSet(lists'.fwd_ids) \subseteq ToSet(lists.ids)
  <2>1. CASE set_nbport
    <3>1. PICK n \in 0 .. MaxPorts : lists' = IF n > Len(lists.fwd_ids) THEN lists ELSE [lists EXCEPT !.nb_fwd_ports = n]
      BY <2>1 DEF set_nbport
    <3>2. lists'.ids = lists.ids /\ lists'.fwd_ids = lists.fwd_ids
      BY <1>4, <3>1
    <3> QED
      BY <1>2, <3>2 DEF ListsSettled, ListsCover
  <2>2. CASE set_portlist
    <3>1. PICK ps \in PortLists : lists' = IF ToSet(ps) \subseteq valid
                                           THEN [lists EXCEPT !.fwd_ids = ps, !.nb_fwd_ports = Len(ps)]
                                           ELSE lists
      BY <2>2 DEF set_portlist
    <3>2. IsInjective(ps)
      BY DEF PortLists
    <3>3. CASE ToSet(ps) \subseteq valid
      <4>1. lists'.ids = lists.ids /\ lists'.fwd_ids = ps
        BY <1>4, <3>1, <3>3
      <4> QED
        BY <1>2, <3>2, <3>3, <4>1 DEF ListsSettled, ListsCover
    <3>4. CASE ~(ToSet(ps) \subseteq valid)
      BY <1>2, <3>1, <3>4 DEF ListsSettled, ListsCover
    <3> QED
      BY <3>3, <3>4
  <2>3. CASE ~(set_nbport \/ set_portlist)
    BY <1>2, <2>3 DEF Setting, set_nbcore, config_rx_tx, set_fwd_mode, ListsSettled, ListsCover
  <2> QED
    BY <2>1, <2>2, <2>3
<1>6. ListsSettled'
  BY <1>1, <1>2, <1>3, <1>5 DEF ListsSettled, ListsCover
<1> QED
  BY <1>6 DEF ListsSettled, ListsCover, ListsInv

\* A step that leaves the lists, the ports and what is to be set up
LEMMA QuietKeepsLists ==
    ASSUME Basics, ListsInv, NEW t \in Threads, NEW o, At(t, o), o \notin {"setup", "dev_close", "close_each", "prune"},
           UNCHANGED <<valid, lists, overlapped>>, \A p \in Ports : need'[p].setup = need[p].setup
    PROVE  ListsInv'
<1> SUFFICES ASSUME ~overlapped'
             PROVE  ListsInv'
  BY DEF ListsInv
<1>1. ListsSettled
  BY BusyLists
<1>2. ListsSettled'
  BY <1>1 DEF ListsSettled, ListsCover
<1> QED
  BY <1>2 DEF ListsSettled, ListsCover, ListsInv

LEMMA QuietStepsKeepLists ==
    ASSUME Basics, ListsInv, NEW t \in Threads,
           \/ StartClaim(t) \/ ConfigureFails(t) \/ IsolateFails(t) \/ Configure(t)
           \/ DeviceStarts(t) \/ DeviceStartFails(t) \/ StopCheck(t) \/ StopClaim(t) \/ DeviceStop(t)
           \/ CloseInvalid(t) \/ ResetCheck(t) \/ DeviceReset(t) \/ ProbeAgain(t) \/ SaveDevice(t) \/ FwdStep(t)
    PROVE  ListsInv'
<1>1. UNCHANGED <<valid, lists, overlapped>>
  BY DEF StartClaim, ConfigureFails, IsolateFails, Configure, DeviceStarts, DeviceStartFails, StopCheck, StopClaim,
         DeviceStop, CloseInvalid, ResetCheck, DeviceReset, ProbeAgain, SaveDevice, FwdStep, StartCheck, StartSetUp,
         Launch, StopTell, StopWait, OutsidePorts, OutsideFwd, portVars
<1>2. \E o \in Ops \ {"setup", "dev_close", "close_each", "prune"} : At(t, o)
  BY DEF StartClaim, ConfigureFails, IsolateFails, Configure, DeviceStarts, DeviceStartFails, StopCheck, StopClaim,
         DeviceStop, CloseInvalid, ResetCheck, DeviceReset, ProbeAgain, SaveDevice, FwdStep, StartCheck, StartSetUp,
         Launch, StopTell, StopWait, Ops, Inner, Leaving
<1>3. need \in [Ports -> [setup : BOOLEAN, reconfig : BOOLEAN, queues : BOOLEAN]]
  BY DEF Basics, PortTypes
<1>4. Port(t) \in Ports
  BY <1>2, AtHasSteps, AtHead
<1>5. \A p \in Ports : need'[p].setup = need[p].setup
  <2>1. PICK p : p = Port(t)
    OBVIOUS
  <2>2. CASE Configure(t)
    <3>1. need' = [need EXCEPT ![p] = [setup |-> need[p].setup, reconfig |-> FALSE, queues |-> FALSE]]
      BY <2>1, <2>2 DEF Configure
    <3> QED
      BY <1>3, <1>4, <2>1, <3>1
  <2>3. CASE ConfigureFails(t) \/ IsolateFails(t)
    <3>1. UNCHANGED need \/ need' = [need EXCEPT ![p].reconfig = FALSE]
      BY <2>1, <2>3 DEF ConfigureFails, IsolateFails
    <3> QED
      BY <1>3, <1>4, <2>1, <3>1
  <2>4. CASE DeviceReset(t)
    <3>1. UNCHANGED need \/ need' = [need EXCEPT ![p].reconfig = TRUE, ![p].queues = TRUE]
      BY <2>1, <2>4 DEF DeviceReset
    <3> QED
      BY <1>3, <1>4, <2>1, <3>1
  <2>5. CASE ~(Configure(t) \/ ConfigureFails(t) \/ IsolateFails(t) \/ DeviceReset(t))
    <3>1. UNCHANGED need
      BY <2>5 DEF StartClaim, DeviceStarts, DeviceStartFails, StopCheck, StopClaim,
         DeviceStop, CloseInvalid, ResetCheck, ProbeAgain, SaveDevice, FwdStep, StartCheck, StartSetUp,
         Launch, StopTell, StopWait, OutsideFwd, portVars
    <3> QED
      BY <3>1
  <2> QED
    BY <2>2, <2>3, <2>4, <2>5
<1> QED
  BY <1>1, <1>2, <1>5, QuietKeepsLists

\* The step behind one that closes a port closes another or prunes the lists.
LEMMA AfterClosing ==
    ASSUME Basics, NEW t \in Threads, NEW o \in {"close_port", "close_each", "dev_close"}, At(t, o), Return(t)
    PROVE  At(t, "close_each")' \/ At(t, "prune")'
<1>1. todo \in [Threads -> Seq(Steps)] /\ Shape(todo[t], t, Devices)
  BY DEF Basics, Shaped
<1> DEFINE q == todo[t]
           r == Tail(q)
<1>2. q \in Seq(Steps) /\ q # << >> /\ q[1].op = o
  BY <1>1, AtHasSteps, AtHead
<1>3. todo'[t] = r
  BY <1>1 DEF Return
<1>4. 1 < Len(q) /\ q[2].op \in {"close_each", "prune"}
  <2>1. 1 \in 1 .. Len(q) /\ 1 + 1 = 2
    BY <1>2, AtHead
  <2> QED
    BY <1>1, <1>2, <2>1 DEF Shape
<1> HIDE DEF q
<1>5. r # << >> /\ Head(r) = q[2]
  <2>1. r \in Seq(Steps) /\ Len(r) = Len(q) - 1 /\ \A i \in 1 .. Len(r) : r[i] = q[i + 1]
    BY <1>2
  <2>2. Len(q) \in Nat
    BY <1>2
  <2> HIDE DEF r
  <2>3. Len(r) \in Nat /\ Len(r) # 0 /\ Head(r) = r[1]
    BY <1>4, <2>1, <2>2
  <2>4. 1 \in 1 .. Len(r) /\ 1 + 1 = 2
    BY <2>3
  <2> QED
    BY <2>1, <2>3, <2>4
<1> QED
  BY <1>3, <1>4, <1>5 DEF At

LEMMA ClosingKeepsLists ==
    ASSUME Basics, ListsInv, NEW t \in Threads, CloseCheck(t) \/ DeviceClose(t)
    PROVE  ListsInv'
<1> SUFFICES ASSUME ~overlapped'
             PROVE  ListsInv'
  BY DEF ListsInv
<1>1. UNCHANGED <<lists, need, overlapped>> /\ valid' \subseteq valid
  BY DEF CloseCheck, DeviceClose, Gone, OutsidePorts, portVars
<1>2. PICK o \in {"close_port", "close_each", "dev_close"} : At(t, o)
  BY DEF CloseCheck, DeviceClose
<1>3. ListsCover
  BY <1>1, <1>2, BusyLists
<1>4. ListsCover'
  BY <1>1, <1>3 DEF ListsCover
<1>5. Pruning'
  <2>1. CASE Return(t)
    BY <1>2, <2>1, AfterClosing DEF Pruning
  <2>2. CASE ~Return(t)
    <3>1. Then(t, <<Step("dev_close", Port(t))>>)
      BY <2>2 DEF CloseCheck, DeviceClose
    <3> DEFINE s == Step("dev_close", Port(t))
    <3>2. s \in Steps /\ s.op = "dev_close"
      <4>1. Port(t) \in Ports /\ "dev_close" \in Ops
        BY <1>2, AtHasSteps, AtHead DEF Ops, Inner
      <4> QED
        BY <4>1, StepTyped
    <3>3. Then(t, <<s>>) /\ todo[t] # << >>
      BY <1>2, <3>1, AtHasSteps
    <3> HIDE DEF s
    <3>4. At(t, "dev_close")'
      BY <3>2, <3>3, ThenAt
    <3> QED
      BY <3>4 DEF Pruning
  <2> QED
    BY <2>1, <2>2
<1> QED
  BY <1>4, <1>5 DEF ListsCover, ListsInv

\* Pruned lists name the ports there are.
LEMMA PruningKeepsLists ==
    ASSUME Basics, ListsInv, NEW t \in Threads, ClosePrune(t) \/ Detach(t)
    PROVE  ListsInv'
<1> SUFFICES ASSUME ~overlapped'
             PROVE  ListsInv'
  BY DEF ListsInv
<1>1. UNCHANGED <<need, overlapped>> /\ valid' \subseteq valid
  BY DEF ClosePrune, Detach, OutsidePorts
<1>2. PICK o \in {"prune", "detach"} : At(t, o)
  BY DEF ClosePrune, Detach
<1>3. ListsCover
  BY <1>1, <1>2, BusyLists
<1>4. CASE lists' = Pruned(lists, valid')
  <2>1. PICK va : va = valid'
    OBVIOUS
  <2>2. lists' = Pruned(lists, va)
    BY <1>4, <2>1
  <2>3. /\ ToSet(lists'.ids) = ToSet(lists.ids) \cap va
        /\ ToSet(lists'.fwd_ids) = ToSet(FwdPorts) \cap va
        /\ IsInjective(lists'.fwd_ids)
    BY <1>3, <2>2, PrunedTyped DEF ListsCover
  <2>4. ToSet(FwdPorts) \subseteq ToSet(lists.fwd_ids)
    BY FwdPortsTyped
  <2>5. ListsSettled'
    BY <1>1, <1>3, <2>1, <2>3, <2>4 DEF ListsSettled, ListsCover
  <2> QED
    BY <2>5 DEF ListsSettled, ListsCover, ListsInv
<1>5. CASE ~(lists' = Pruned(lists, valid'))
  <2>1. UNCHANGED <<valid, lists>> /\ Detach(t)
    BY <1>5 DEF ClosePrune, Detach
  <2>2. ListsSettled
    BY <1>1, <2>1, BusyLists DEF Detach
  <2>3. ListsSettled'
    BY <1>1, <2>1, <2>2 DEF ListsSettled, ListsCover
  <2> QED
    BY <2>3 DEF ListsSettled, ListsCover, ListsInv
<1> QED
  BY <1>4, <1>5

\* A port that is probed is in no list, and is about to be set up.
LEMMA ProbingKeepsLists ==
    ASSUME Basics, ListsInv, NEW t \in Threads, Probe(t)
    PROVE  ListsInv'
<1> SUFFICES ASSUME ~overlapped'
             PROVE  ListsInv'
  BY DEF ListsInv
<1>1. UNCHANGED <<lists, opts, overlapped>> /\ spare # {}
  BY DEF Probe, OutsidePorts
<1>2. ListsSettled
  BY <1>1, BusyLists DEF Probe
<1>3. PICK p : p = Min(Ports \ valid)
  OBVIOUS
<1>4. p \in Ports /\ p \notin valid
  BY <1>1, <1>3, FreePort
<1>5. /\ valid' = valid \cup {p} /\ status' = [status EXCEPT ![p] = "HANDLING"]
      /\ need' = [need EXCEPT ![p].setup = TRUE]
  BY <1>3 DEF Probe
<1>6. At(t, "setup")' /\ Port(t)' = p
  <2> DEFINE s == Step("setup", p)
  <2>1. s \in Steps /\ s.op = "setup" /\ s.port = p
    <3>1. "setup" \in Ops
      BY DEF Ops, Inner
    <3> QED
      BY <1>4, <3>1, StepTyped
  <2>2. Then(t, <<s>>) /\ todo[t] # << >>
    BY <1>3, AtHasSteps DEF Probe
  <2> HIDE DEF s
  <2> QED
    BY <2>1, <2>2, ThenAt
<1>7. /\ need \in [Ports -> [setup : BOOLEAN, reconfig : BOOLEAN, queues : BOOLEAN]]
      /\ status \in [Ports -> Statuses]
  BY DEF Basics, PortTypes
<1>8. /\ need'[p].setup /\ status'[p] = "HANDLING"
      /\ \A q \in Ports : q # p => ~need'[q].setup
  BY <1>2, <1>4, <1>5, <1>7 DEF ListsSettled, ListsCover
<1>9. \A q : port_is_forwarding(q)' => q \in valid
  <2>1. \A q : port_is_forwarding(q)' <=> port_is_forwarding(q)
    BY <1>1 DEF port_is_forwarding
  <2>2. \A q : port_is_forwarding(q) => q \in ToSet(lists.fwd_ids)
    BY FwdPortsTyped
  <2> QED
    BY <1>2, <2>1, <2>2 DEF ListsSettled, ListsCover
<1>10. p \in ToSetUp(Port(t))'
  <2>1. p \in ToSetUp(p)'
    BY <1>4, <1>5, <1>8, <1>9 DEF ToSetUp
  <2> QED
    BY <1>6, <2>1 DEF ToSetUp
<1>11. \A q \in valid' : q \in ToSet(lists'.ids) \/ \E u \in Threads : At(u, "setup")' /\ q \in ToSetUp(Port(u))'
  <2>1. \A q \in valid' : q \in valid \/ q = p
    BY <1>5
  <2> QED
    BY <1>1, <1>2, <1>6, <1>10, <2>1 DEF ListsSettled, ListsCover
<1>12. ToSet(lists'.ids) \subseteq valid' /\ IsInjective(lists'.fwd_ids) /\ ToSet(lists'.fwd_ids) \subseteq ToSet(lists'.ids)
  BY <1>1, <1>2, <1>5 DEF ListsSettled, ListsCover
<1>13. ASSUME NEW q \in Ports, need'[q].setup
       PROVE  /\ q \in valid' /\ status'[q] = "HANDLING" /\ ~port_is_forwarding(q)'
              /\ \E u \in Threads : At(u, "setup")' /\ Port(u)' = q
  BY <1>4, <1>5, <1>6, <1>8, <1>9, <1>13
<1> QED
  BY <1>11, <1>12, <1>13 DEF ListsInv

\* Every port that waited enters both lists, once each.
LEMMA SettingUpKeepsLists ==
    ASSUME Basics, ListsInv, NEW t \in Threads, setup_attached_port(t)
    PROVE  ListsInv'
<1> SUFFICES ASSUME ~overlapped'
             PROVE  ListsInv'
  BY DEF ListsInv
<1>1. UNCHANGED <<valid, opts, overlapped>> /\ ~overlapped /\ At(t, "setup")
  BY DEF setup_attached_port, OutsidePorts
<1>2. \A u \in Threads : \A o : At(u, o) => u = t /\ o = "setup"
  BY <1>1 DEF Basics, Alone, At
<1>3. ~Pruning
  BY <1>2 DEF Pruning
<1> DEFINE S == ToSetUp(Port(t))
           new == InOrder(S)
           fwd == FwdPorts \o new
           ids == lists.ids \o new
<1>4. Port(t) \in Ports
  BY <1>1, AtHasSteps, AtHead
<1>5. /\ new \in Seq(Ports) /\ ToSet(new) = S /\ IsInjective(new) /\ S \subseteq Ports
  BY <1>4, NewPorts
<1>6. S \subseteq valid /\ \A q \in S : ~port_is_forwarding(q)
  <2>1. CASE opts.event
    BY <1>1, <1>5, <2>1 DEF ToSetUp, ListsInv
  <2>2. CASE ~opts.event
    BY <2>2 DEF ToSetUp
  <2> QED
    BY <2>1, <2>2
<1>7. \A q \in Ports : need[q].setup => q \in S
  <2> SUFFICES ASSUME NEW q \in Ports, need[q].setup
               PROVE  q \in S
    OBVIOUS
  <2>1. q \in valid /\ status[q] = "HANDLING" /\ ~port_is_forwarding(q) /\ Port(t) = q
    BY <1>1, <1>2 DEF ListsInv
  <2> QED
    BY <2>1 DEF ToSetUp
<1>8. \A q \in valid : q \in ToSet(lists.ids) \/ q \in S
  BY <1>1, <1>2 DEF ListsInv
<1>9. lists' = IF new = << >> THEN lists ELSE [ids |-> ids, fwd_ids |-> fwd, nb_fwd_ports |-> Len(fwd)]
  BY DEF setup_attached_port, FwdPorts
<1>10. \A q \in Ports : need'[q].setup = FALSE
  <2>1. need' = [q \in Ports |-> IF q \in S THEN [setup |-> FALSE, reconfig |-> TRUE, queues |-> TRUE] ELSE need[q]]
    BY DEF setup_attached_port
  <2>2. need \in [Ports -> [setup : BOOLEAN, reconfig : BOOLEAN, queues : BOOLEAN]]
    BY DEF Basics, PortTypes
  <2> HIDE DEF S
  <2> QED
    BY <1>7, <2>1, <2>2
<1>11. ToSet(lists.ids) \subseteq valid /\ IsInjective(lists.fwd_ids) /\ ToSet(lists.fwd_ids) \subseteq ToSet(lists.ids)
  BY <1>1, <1>3 DEF ListsInv
<1>12. /\ FwdPorts \in Seq(Ports) /\ ToSet(FwdPorts) \subseteq ToSet(lists.fwd_ids) /\ IsInjective(FwdPorts)
       /\ ToSet(FwdPorts) \cap S = {}
  BY <1>6, <1>11, FwdPortsTyped
<1> HIDE DEF S
<1>13. lists.ids \in Seq(Ports)
  BY DEF Basics, PortTypes
<1>14. CASE new = << >>
  <2>1. S = {}
    BY <1>5, <1>14 DEF ToSet
  <2>2. lists' = lists
    BY <1>9, <1>14
  <2>3. ListsSettled'
    BY <1>1, <1>8, <1>10, <1>11, <2>1, <2>2 DEF ListsSettled, ListsCover
  <2> QED
    BY <2>3 DEF ListsSettled, ListsCover, ListsInv
<1>15. CASE new # << >>
  <2> HIDE DEF new
  <2>1. ToSet(ids) = ToSet(lists.ids) \cup S
    BY <1>5, <1>13, BothLists
  <2>2. ToSet(fwd) = ToSet(FwdPorts) \cup S /\ IsInjective(fwd)
    BY <1>5, <1>12, BothLists
  <2> HIDE DEF ids, fwd
  <2>3. lists'.ids = ids /\ lists'.fwd_ids = fwd
    BY <1>9, <1>15
  <2>4. ListsSettled'
    BY <1>1, <1>6, <1>8, <1>10, <1>11, <1>12, <2>1, <2>2, <2>3 DEF ListsSettled, ListsCover
  <2> QED
    BY <2>4 DEF ListsSettled, ListsCover, ListsInv
<1> QED
  BY <1>14, <1>15

LEMMA StepKeepsLists ==
    ASSUME Basics, ListsInv, [Next]_vars
    PROVE  ListsInv'
<1>1. ASSUME NEW t \in Threads, PortStep(t) \/ FwdStep(t)
      PROVE  ListsInv'
  BY <1>1, QuietStepsKeepLists, ClosingKeepsLists, PruningKeepsLists, ProbingKeepsLists, SettingUpKeepsLists DEF PortStep
<1> QED
  BY <1>1, StepKinds, OuterKeepsLists, SettingKeepsLists

LEMMA InitListsInv == Init => ListsInv
<1> SUFFICES ASSUME Init
             PROVE  ListsInv
  OBVIOUS
<1>1. /\ ToSet(lists.ids) = Devices /\ ToSet(lists.fwd_ids) \subseteq Devices /\ IsInjective(lists.fwd_ids)
  BY InitLists
<1>2. valid = Devices
  BY DEF Init
<1>3. \A p \in Ports : ~need[p].setup
  BY DEF Init
<1>4. ListsSettled
  BY <1>1, <1>2, <1>3 DEF ListsSettled, ListsCover
<1> QED
  BY <1>4, SettledLists

-----------------------------------------------------------------------------
(* The ports: as long as no calls overlap, a port that is HANDLING is in   *)
(* the hand of a thread, unless its isolated mode could not be applied,    *)
(* a started one runs with its queues, and these follow the settings.      *)

\* The queues a port is to have
RxQ(p) == IF opts.split /\ PortQueues(opts, p) > 0 THEN PortQueues(opts, p) ELSE settings.rxq
TxQ(p) == IF opts.split /\ PortQueues(opts, p) > 0 THEN PortQueues(opts, p) ELSE settings.txq

Holds(t) == At(t, "configure") \/ At(t, "dev_start") \/ At(t, "dev_stop")

Consistent(p) ==
    /\ status[p] = "HANDLING" => opts.isolate \/ need[p].setup \/ \E t \in Threads : Holds(t) /\ Port(t) = p
    /\ status[p] = "STARTED" => dev[p].state = "started" /\ ~need[p].queues
    /\ dev[p].state \in {"ready", "started"} /\ ~need[p].queues => dev[p].rxq = RxQ(p) /\ dev[p].txq = TxQ(p)

Rightful(t) ==
    /\ Holds(t) => Port(t) \in valid /\ status[Port(t)] = "HANDLING"
    /\ At(t, "stop_claim") \/ At(t, "dev_close") => ~Spared(Port(t))
    /\ At(t, "dev_start") => ~need[Port(t)].queues
    /\ At(t, "reset_device") =>
          \A i \in 1 .. Len(todo[t]) : todo[t][i].port \in valid => status[todo[t][i].port] = "STOPPED"

StatesInv == ~overlapped => (\A p \in valid : Consistent(p)) /\ \A t \in Threads : Rightful(t)

\* The queues are those the device is configured with.
LEMMA QueuesOf == \A p : /\ RxQueues(Conf(lists, settings, valid), p) = RxQ(p)
                         /\ TxQueues(Conf(lists, settings, valid), p) = TxQ(p)
BY DEF RxQueues, TxQueues, PortQueues, Conf, RxQ, TxQ

\* Steps of a reset come from steps of a reset.
LEMMA ResetGoesOn ==
    ASSUME Basics, NEW t \in Threads, todo[t] # << >>, Return(t) \/ Abandon(t), At(t, "reset_device")'
    PROVE  /\ At(t, "reset_device")
           /\ \A i \in 1 .. Len(todo'[t]) : i + 1 \in 1 .. Len(todo[t]) /\ todo'[t][i] = todo[t][i + 1]
<1>1. todo \in [Threads -> Seq(Steps)] /\ Shape(todo[t], t, Devices)
  BY DEF Basics, Shaped
<1> DEFINE q == todo[t]
           r == todo'[t]
<1>2. q \in Seq(Steps) /\ q # << >> /\ 1 \in 1 .. Len(q) /\ (\A o : At(t, o) <=> q[1].op = o) /\ Len(q) \in Nat
  BY <1>1, AtHead
<1>3. r # << >> /\ Head(r).op = "reset_device"
  BY DEF At
<1>4. r = Tail(q)
  BY <1>1, <1>3 DEF Return, Abandon
<1> HIDE DEF q, r
<1>5. r \in Seq(Steps) /\ Len(r) = Len(q) - 1 /\ \A i \in 1 .. Len(r) : r[i] = q[i + 1]
  BY <1>2, <1>4
<1>6. Len(r) \in Nat /\ Len(r) # 0 /\ r[1].op = "reset_device" /\ 1 \in 1 .. Len(r)
  BY <1>3, <1>5
<1>7. \A i \in 1 .. Len(r) : i + 1 \in 1 .. Len(q)
  BY <1>2, <1>5
<1>8. q[1].op = "reset_device"
  <2>1. q[2].op = "reset_device" /\ 2 \in 1 .. Len(q)
    BY <1>5, <1>6, <1>7
  <2> QED
    BY <1>1, <1>2, <2>1 DEF Shape, q
<1> QED
  BY <1>2, <1>5, <1>7, <1>8 DEF q, r

\* Behind a step that is none of a reset, nothing rests on a claim.
LEMMA ReturnRightful ==
    ASSUME Basics, NEW t \in Threads, NEW o, At(t, o), o # "reset_device", Return(t) \/ Abandon(t)
    PROVE  Rightful(t)'
<1>1. todo[t] # << >> /\ ~At(t, "reset_device")
  BY DEF At
<1>2. {"configure", "dev_start", "dev_stop", "stop_claim", "dev_close"} \subseteq Inner
  BY DEF Inner
<1>3. \A x \in {"configure", "dev_start", "dev_stop", "stop_claim", "dev_close"} : ~At(t, x)'
  BY <1>1, <1>2, ReturnLeaves
<1>4. ~At(t, "reset_device")'
  BY <1>1, ResetGoesOn
<1> QED
  BY <1>3, <1>4 DEF Rightful, Holds

\* A step that takes another in its place comes to that one.
LEMMA ThenStep ==
    ASSUME Basics, NEW t \in Threads, todo[t] # << >>, NEW o \in Ops, NEW p \in Ports, Then(t, <<Step(o, p)>>)
    PROVE  (\A x : At(t, x)' <=> x = o) /\ Port(t)' = p
<1> DEFINE s == Step(o, p)
<1>1. s \in Steps /\ s.op = o /\ s.port = p
  BY StepTyped
<1>2. Then(t, <<s>>)
  OBVIOUS
<1> HIDE DEF s
<1>3. (\A x : At(t, x)' <=> s.op = x) /\ Port(t)' = s.port
  BY <1>1, <1>2, ThenAt
<1> QED
  BY <1>1, <1>3

\* The other thread has nothing to do.
LEMMA OtherRightful ==
    ASSUME Basics, NEW t \in Threads, NEW u \in Threads, u # t, Moves(t), ~overlapped
    PROVE  Rightful(u)'
BY OnlyMover DEF Rightful, Holds

\* A step that changes no port, at no port that is held
LEMMA PortsStayConsistent ==
    ASSUME Basics, StatesInv, ~overlapped, NEW t \in Threads, NEW o, At(t, o), Moves(t),
           o \notin {"configure", "dev_start", "dev_stop"}, UNCHANGED <<valid, status, need, dev, settings, opts>>
    PROVE  \A p \in valid' : Consistent(p)'
<1>1. \A u \in Threads : ~Holds(u)
  <2>1. \A u \in Threads : u # t => \A x : ~At(u, x)
    BY OnlyMover
  <2> QED
    BY <2>1 DEF Holds, At
<1>2. \A p : RxQ(p)' = RxQ(p) /\ TxQ(p)' = TxQ(p)
  BY DEF RxQ, TxQ
<1> QED
  BY <1>1, <1>2 DEF StatesInv, Consistent

LEMMA StatesFollow ==
    ASSUME Basics, ~overlapped, NEW t \in Threads, Moves(t), \A p \in valid' : Consistent(p)', Rightful(t)'
    PROVE  StatesInv'
<1>1. \A u \in Threads : Rightful(u)'
  BY OtherRightful
<1> QED
  BY <1>1 DEF StatesInv

\* A port that is not the one of the step
LEMMA OthersConsistent ==
    ASSUME Basics, StatesInv, ~overlapped, NEW t \in Threads, Moves(t), UNCHANGED <<settings, opts>>,
           NEW q \in valid, q # Port(t), status'[q] = status[q], need'[q] = need[q], dev'[q] = dev[q]
    PROVE  Consistent(q)'
<1>1. ~\E u \in Threads : Holds(u) /\ Port(u) = q
  <2>1. \A u \in Threads : u # t => \A x : ~At(u, x)
    BY OnlyMover
  <2> QED
    BY <2>1 DEF Holds
<1>2. RxQ(q)' = RxQ(q) /\ TxQ(q)' = TxQ(q)
  BY DEF RxQ, TxQ
<1>3. Consistent(q)
  BY DEF StatesInv
<1> QED
  BY <1>1, <1>2, <1>3 DEF Consistent

\* The port of a step that is at none that is held
LEMMA OwnConsistent ==
    ASSUME Basics, StatesInv, ~overlapped, NEW t \in Threads, Moves(t), UNCHANGED <<settings, opts>>,
           NEW q \in valid, status'[q] = status[q], need'[q] = need[q], dev'[q] = dev[q], ~Holds(t)
    PROVE  Consistent(q)'
<1>1. \A u \in Threads : ~Holds(u)
  <2>1. \A u \in Threads : u # t => \A x : ~At(u, x)
    BY OnlyMover
  <2> QED
    BY <2>1 DEF Holds
<1>2. RxQ(q)' = RxQ(q) /\ TxQ(q)' = TxQ(q)
  BY DEF RxQ, TxQ
<1>3. Consistent(q)
  BY DEF StatesInv
<1> QED
  BY <1>1, <1>2, <1>3 DEF Consistent

\* start_port() and stop_port() claim a port and have it in hand.
LEMMA ClaimKeepsStates ==
    ASSUME Basics, StatesInv, ~overlapped, NEW t \in Threads, StartClaim(t) \/ StopClaim(t)
    PROVE  StatesInv'
<1>1. Moves(t) /\ UNCHANGED <<valid, need, dev, lists, settings, opts, test_done>>
  BY StepShaped DEF PortStep, StartClaim, StopClaim, OutsidePorts, fwdVars
<1>2. PICK o \in {"start_port", "stop_claim"} : At(t, o)
  BY DEF StartClaim, StopClaim
<1>3. todo[t] # << >> /\ ~Holds(t)
  BY <1>2 DEF At, Holds
<1>4. PICK p \in Ports : p = Port(t)
  BY <1>3, AtHead
<1>5. CASE UNCHANGED status /\ Return(t)
  <2>1. Rightful(t)'
    BY <1>2, <1>5, ReturnRightful
  <2>2. \A q \in valid' : Consistent(q)'
    BY <1>1, <1>3, <1>5, OwnConsistent
  <2> QED
    BY <1>1, <2>1, <2>2, StatesFollow
<1>6. CASE ~(UNCHANGED status /\ Return(t))
  <2>1. PICK n \in {"configure", "dev_stop"} : Then(t, <<Step(n, p)>>)
    BY <1>4, <1>6 DEF StartClaim, StopClaim
  <2>2. status' = [status EXCEPT ![p] = "HANDLING"]
    BY <1>4, <1>6 DEF StartClaim, StopClaim
  <2>3. p \in valid
    <3>1. StartClaim(t) => p \in valid
      BY <1>4, <1>6 DEF StartClaim
    <3>2. StopClaim(t) => ~Spared(p)
      BY <1>4 DEF StopClaim, StatesInv, Rightful
    <3> QED
      BY <3>1, <3>2 DEF Spared
  <2>4. status'[p] = "HANDLING" /\ \A q \in Ports : q # p => status'[q] = status[q]
    BY <2>2 DEF Basics, PortTypes
  <2>5. (\A x : At(t, x)' <=> x = n) /\ Port(t)' = p
    <3>1. n \in Ops
      BY DEF Ops, Inner
    <3> QED
      BY <1>3, <2>1, <3>1, ThenStep
  <2>6. Rightful(t)'
    BY <1>1, <2>3, <2>4, <2>5 DEF Rightful, Holds
  <2>7. \A q \in valid' : Consistent(q)'
    <3>1. \A q \in valid : q \in Ports
      BY DEF Basics, PortTypes
    <3>2. ASSUME NEW q \in valid, q # p
          PROVE  Consistent(q)'
      BY <1>1, <1>4, <2>4, <3>1, <3>2, OthersConsistent
    <3>3. Consistent(p)'
      <4>1. Consistent(p)
        BY <2>3 DEF StatesInv
      <4>2. RxQ(p)' = RxQ(p) /\ TxQ(p)' = TxQ(p)
        BY <1>1 DEF RxQ, TxQ
      <4>3. Holds(t)' /\ Port(t)' = p
        BY <2>5 DEF Holds
      <4> QED
        BY <1>1, <2>4, <4>1, <4>2, <4>3 DEF Consistent
    <3> QED
      BY <1>1, <3>2, <3>3
  <2> QED
    BY <1>1, <2>6, <2>7, StatesFollow
<1> QED
  BY <1>5, <1>6

\* A status set when it is HANDLING
LEMMA CasSets ==
    ASSUME Basics, NEW p \in Ports, status[p] = "HANDLING", NEW new, status' = Cas(status, p, "HANDLING", new)
    PROVE  status'[p] = new /\ \A q \in Ports : q # p => status'[q] = status[q]
BY DEF Cas, Basics, PortTypes

\* Steps that end what was in hand, for better or worse
LEMMA EndKeepsStates ==
    ASSUME Basics, StatesInv, ~overlapped, NEW t \in Threads,
           DeviceStarts(t) \/ DeviceStartFails(t) \/ DeviceStop(t) \/ ConfigureFails(t) \/ IsolateFails(t)
    PROVE  StatesInv'
<1>1. Moves(t) /\ UNCHANGED <<valid, settings, opts>>
  BY StepShaped DEF PortStep, DeviceStarts, DeviceStartFails, DeviceStop, ConfigureFails, IsolateFails, OutsidePorts
<1>2. PICK o \in {"configure", "dev_start", "dev_stop"} : At(t, o)
  BY DEF DeviceStarts, DeviceStartFails, DeviceStop, ConfigureFails, IsolateFails
<1>3. todo[t] # << >> /\ Holds(t)
  BY <1>2 DEF At, Holds
<1>4. PICK p \in Ports : p = Port(t)
  BY <1>3, AtHead
<1>5. p \in valid /\ status[p] = "HANDLING" /\ Consistent(p)
  BY <1>3, <1>4 DEF StatesInv, Rightful
<1>6. Rightful(t)'
  <2>1. Return(t) \/ Abandon(t)
    BY DEF DeviceStarts, DeviceStartFails, DeviceStop, ConfigureFails, IsolateFails
  <2> QED
    BY <1>2, <2>1, ReturnRightful
<1>7. RxQ(p)' = RxQ(p) /\ TxQ(p)' = TxQ(p)
  BY <1>1 DEF RxQ, TxQ
<1>8. /\ need \in [Ports -> [setup : BOOLEAN, reconfig : BOOLEAN, queues : BOOLEAN]]
      /\ dev \in [Ports -> [id : Ports, state : DevStates, rxq : Nat, txq : Nat]]
  BY DEF Basics, PortTypes
<1>9. (\A q \in Ports : q # p => status'[q] = status[q] /\ need'[q] = need[q] /\ dev'[q] = dev[q]) /\ Consistent(p)'
  <2>1. CASE DeviceStarts(t)
    <3>1. /\ need' = need /\ dev' = [dev EXCEPT ![p].state = "started"] /\ dev[p].state \in {"ready", "started"}
          /\ status' = Cas(status, p, "HANDLING", "STARTED") /\ At(t, "dev_start")
      BY <1>4, <2>1 DEF DeviceStarts
    <3>2. ~need[p].queues
      BY <1>4, <3>1 DEF StatesInv, Rightful
    <3>3. status'[p] = "STARTED" /\ \A q \in Ports : q # p => status'[q] = status[q]
      BY <1>5, <3>1, CasSets
    <3>4. dev'[p].state = "started" /\ dev'[p].rxq = dev[p].rxq /\ dev'[p].txq = dev[p].txq
          /\ \A q \in Ports : q # p => dev'[q] = dev[q]
      BY <1>8, <3>1
    <3> QED
      BY <1>5, <1>7, <3>1, <3>2, <3>3, <3>4 DEF Consistent
  <2>2. CASE DeviceStartFails(t)
    <3>1. need' = need /\ dev' = dev /\ status' = Cas(status, p, "HANDLING", "STOPPED")
      BY <1>4, <2>2 DEF DeviceStartFails
    <3>2. status'[p] = "STOPPED" /\ \A q \in Ports : q # p => status'[q] = status[q]
      BY <1>5, <3>1, CasSets
    <3> QED
      BY <1>5, <1>7, <3>1, <3>2 DEF Consistent
  <2>3. CASE DeviceStop(t)
    <3>1. /\ need' = need /\ status' = Cas(status, p, "HANDLING", "STOPPED")
          /\ dev' = dev \/ (dev[p].state = "started" /\ dev' = [dev EXCEPT ![p].state = "ready"])
      BY <1>4, <2>3 DEF DeviceStop
    <3>2. status'[p] = "STOPPED" /\ \A q \in Ports : q # p => status'[q] = status[q]
      BY <1>5, <3>1, CasSets
    <3>3. /\ dev'[p].state \in {"ready", "started"} => dev[p].state \in {"ready", "started"}
          /\ dev'[p].rxq = dev[p].rxq /\ dev'[p].txq = dev[p].txq
          /\ \A q \in Ports : q # p => dev'[q] = dev[q]
      <4>1. CASE dev' = dev
        BY <4>1
      <4>2. CASE dev' # dev
        BY <1>8, <3>1, <4>2
      <4> QED
        BY <4>1, <4>2
    <3> QED
      BY <1>5, <1>7, <3>1, <3>2, <3>3 DEF Consistent
  <2>4. CASE ConfigureFails(t)
    <3>1. status' = Cas(status, p, "HANDLING", "STOPPED")
      BY <1>4, <2>4 DEF ConfigureFails
    <3>2. status'[p] = "STOPPED" /\ \A q \in Ports : q # p => status'[q] = status[q]
      BY <1>5, <3>1, CasSets
    <3>3. need' = need \/ need' = [need EXCEPT ![p].reconfig = FALSE]
      BY <1>4, <2>4 DEF ConfigureFails
    <3>4. need'[p].queues = need[p].queues /\ \A q \in Ports : q # p => need'[q] = need[q]
      BY <1>8, <3>3
    <3>5. dev'[p].state = "configured" \/ dev'[p] = dev[p]
      <4> DEFINE r == [Fresh(dev[p].id) EXCEPT !.state = "configured"]
      <4>1. r.state = "configured"
        BY DEF Fresh
      <4>2. dev' = dev \/ dev' = [dev EXCEPT ![p] = r]
        BY <1>4, <2>4 DEF ConfigureFails
      <4> HIDE DEF r
      <4> QED
        BY <1>8, <4>1, <4>2
    <3>6. \A q \in Ports : q # p => dev'[q] = dev[q]
      <4> DEFINE r == [Fresh(dev[p].id) EXCEPT !.state = "configured"]
      <4>2. dev' = dev \/ dev' = [dev EXCEPT ![p] = r]
        BY <1>4, <2>4 DEF ConfigureFails
      <4> HIDE DEF r
      <4> QED
        BY <1>8, <4>2
    <3> QED
      BY <1>5, <1>7, <3>2, <3>4, <3>5, <3>6 DEF Consistent
  <2>5. CASE IsolateFails(t)
    <3>1. need' = [need EXCEPT ![p].reconfig = FALSE] /\ dev' = dev /\ status' = status /\ opts.isolate
      BY <1>4, <2>5 DEF IsolateFails
    <3>2. need'[p].queues = need[p].queues /\ \A q \in Ports : q # p => need'[q] = need[q]
      BY <1>8, <3>1
    <3> QED
      BY <1>1, <1>5, <1>7, <3>1, <3>2 DEF Consistent
  <2> QED
    BY <2>1, <2>2, <2>3, <2>4, <2>5
<1>10. \A q \in valid' : Consistent(q)'
  <2>1. \A q \in valid : q \in Ports
    BY DEF Basics, PortTypes
  <2> QED
    BY <1>1, <1>4, <1>9, <2>1, OthersConsistent
<1> QED
  BY <1>1, <1>6, <1>10, StatesFollow

\* A port that is configured has the queues it is to have, before it is started.
LEMMA ConfigureKeepsStates ==
    ASSUME Basics, StatesInv, ~overlapped, NEW t \in Threads, Configure(t)
    PROVE  StatesInv'
<1>1. Moves(t) /\ UNCHANGED <<valid, status, lists, settings, opts>> /\ At(t, "configure")
  BY StepShaped DEF PortStep, Configure, OutsidePorts
<1>2. todo[t] # << >> /\ Holds(t)
  BY <1>1 DEF At, Holds
<1>3. PICK p \in Ports : p = Port(t)
  BY <1>2, AtHead
<1>4. p \in valid /\ status[p] = "HANDLING" /\ Consistent(p)
  BY <1>2, <1>3 DEF StatesInv, Rightful
<1>5. (\A x : At(t, x)' <=> x = "dev_start") /\ Port(t)' = p
  <2>1. "dev_start" \in Ops /\ Then(t, <<Step("dev_start", p)>>)
    BY <1>3 DEF Ops, Inner, Configure
  <2> QED
    BY <1>2, <2>1, ThenStep
<1>6. RxQ(p)' = RxQ(p) /\ TxQ(p)' = TxQ(p)
  BY <1>1 DEF RxQ, TxQ
<1>7. /\ need \in [Ports -> [setup : BOOLEAN, reconfig : BOOLEAN, queues : BOOLEAN]]
      /\ dev \in [Ports -> [id : Ports, state : DevStates, rxq : Nat, txq : Nat]]
  BY DEF Basics, PortTypes
<1>8. need'[p].queues = FALSE /\ \A q \in Ports : q # p => need'[q] = need[q]
  <2> DEFINE r == [setup |-> need[p].setup, reconfig |-> FALSE, queues |-> FALSE]
  <2>1. need' = [need EXCEPT ![p] = r]
    BY <1>3 DEF Configure
  <2>2. r.queues = FALSE
    OBVIOUS
  <2> HIDE DEF r
  <2> QED
    BY <1>7, <2>1, <2>2
<1>9. /\ \A q \in Ports : q # p => dev'[q] = dev[q]
      /\ dev'[p].state \in {"ready", "started"} => dev'[p].rxq = RxQ(p) /\ dev'[p].txq = TxQ(p)
  <2> DEFINE r == [id |-> dev[p].id, state |-> "configured", rxq |-> 0, txq |-> 0]
             c == Conf(lists, settings, valid)
             s == [id |-> dev[p].id, state |-> "ready", rxq |-> RxQueues(c, p), txq |-> TxQueues(c, p)]
  <2>1. [Fresh(dev[p].id) EXCEPT !.state = "configured"] = r
    BY DEF Fresh
  <2>2. /\ need[p].queues => dev' = [dev EXCEPT ![p] = s]
        /\ ~need[p].queues => dev' = dev \/ dev' = [dev EXCEPT ![p] = r]
    BY <1>3, <2>1 DEF Configure
  <2>3. r.state = "configured" /\ s.rxq = RxQ(p) /\ s.txq = TxQ(p)
    BY QueuesOf
  <2> HIDE DEF r, s
  <2>4. CASE need[p].queues
    BY <1>7, <2>2, <2>3, <2>4
  <2>5. CASE ~need[p].queues
    BY <1>4, <1>7, <2>2, <2>3, <2>5 DEF Consistent
  <2> QED
    BY <2>4, <2>5
<1>10. Rightful(t)'
  BY <1>1, <1>4, <1>5, <1>8 DEF Rightful, Holds
<1>11. Consistent(p)'
  <2>1. Holds(t)' /\ Port(t)' = p
    BY <1>5 DEF Holds
  <2> QED
    BY <1>1, <1>4, <1>6, <1>9, <2>1 DEF Consistent
<1>12. \A q \in valid' : Consistent(q)'
  <2>1. \A q \in valid : q \in Ports
    BY DEF Basics, PortTypes
  <2> QED
    BY <1>1, <1>3, <1>8, <1>9, <1>11, <2>1, OthersConsistent
<1> QED
  BY <1>1, <1>10, <1>12, StatesFollow

\* Steps that look at a port and either end or go on to operate it
LEMMA ChecksKeepStates ==
    ASSUME Basics, StatesInv, ~overlapped, NEW t \in Threads, StopCheck(t) \/ CloseCheck(t)
    PROVE  StatesInv'
<1>1. Moves(t) /\ UNCHANGED <<valid, status, need, dev, lists, settings, opts, test_done>>
  BY StepShaped DEF PortStep, StopCheck, CloseCheck, OutsidePorts, portVars, fwdVars
<1>2. PICK o \in {"stop_port", "close_port", "close_each"} : At(t, o)
  BY DEF StopCheck, CloseCheck
<1>3. \A p \in valid' : Consistent(p)'
  BY <1>1, <1>2, PortsStayConsistent
<1>4. todo[t] # << >>
  BY <1>2 DEF At
<1>5. PICK p \in Ports : p = Port(t)
  BY <1>4, AtHead
<1>6. Rightful(t)'
  <2>1. CASE Return(t)
    BY <1>2, <2>1, ReturnRightful
  <2>2. CASE ~Return(t)
    <3>1. ~Spared(p) /\ \E n \in {"stop_claim", "dev_close"} : Then(t, <<Step(n, p)>>)
      BY <1>5, <2>2 DEF StopCheck, CloseCheck
    <3>2. PICK n \in {"stop_claim", "dev_close"} : Then(t, <<Step(n, p)>>)
      BY <3>1
    <3>3. (\A x : At(t, x)' <=> x = n) /\ Port(t)' = p
      <4>1. n \in Ops
        BY DEF Ops, Inner
      <4> QED
        BY <1>4, <3>2, <4>1, ThenStep
    <3>4. ~Spared(p)'
      BY <1>1, <3>1 DEF Spared, port_is_forwarding
    <3>5. ~Spared(Port(t))'
      BY <3>3, <3>4 DEF Spared, port_is_forwarding
    <3> QED
      BY <3>3, <3>5 DEF Rightful, Holds
  <2> QED
    BY <2>1, <2>2
<1> QED
  BY <1>1, <1>3, <1>6, StatesFollow

\* Steps that change no port and rest on none, or abandon the call
LEMMA PlainKeepsStates ==
    ASSUME Basics, StatesInv, ~overlapped, NEW t \in Threads,
           ClosePrune(t) \/ CloseInvalid(t) \/ ProbeAgain(t) \/ SaveDevice(t) \/ FwdStep(t)
    PROVE  StatesInv'
<1>1. Moves(t) /\ UNCHANGED <<valid, status, need, dev, settings, opts>>
  <2>1. UNCHANGED <<valid, status, need, dev, settings, opts>>
    BY DEF ClosePrune, CloseInvalid, ProbeAgain, SaveDevice, FwdStep, StartCheck, StartSetUp, Launch,
           StopTell, StopWait, OutsidePorts, OutsideFwd, portVars
  <2> QED
    BY <2>1, StepShaped DEF PortStep
<1>2. PICK o \in {"prune", "close_port", "attach", "save_device", "start", "set_up", "launch", "stop", "wait"} : At(t, o)
  BY DEF ClosePrune, CloseInvalid, ProbeAgain, SaveDevice, FwdStep, StartCheck, StartSetUp, Launch, StopTell, StopWait
<1>3. \A p \in valid' : Consistent(p)'
  BY <1>1, <1>2, PortsStayConsistent
<1>4. todo[t] # << >>
  BY <1>2 DEF At
<1>5. \A x \in {"configure", "dev_start", "dev_stop", "stop_claim", "dev_close"} : ~At(t, x)'
  <2>1. Arriving(t)
    BY Arrivals DEF PortStep
  <2>2. \A x \in {"start_port", "configure", "stop_port", "stop_claim", "close_each"} : ~At(t, x)
    BY <1>2 DEF At
  <2>3. ~StartClaim(t) /\ ~Configure(t) /\ ~StopCheck(t) /\ ~StopClaim(t)
    BY <2>2 DEF StartClaim, Configure, StopCheck, StopClaim
  <2>4. ~At(t, "dev_close")'
    <3>1. CASE At(t, "close_port")
      <4>1. CloseInvalid(t)
        BY <3>1 DEF At, ClosePrune, CloseInvalid, ProbeAgain, SaveDevice, FwdStep, StartCheck, StartSetUp, Launch, StopTell, StopWait
      <4> QED
        BY <4>1, EarlyReturnLeaves DEF Inner
    <3>2. CASE ~At(t, "close_port")
      BY <2>1, <2>2, <3>2 DEF Arriving, CloseCheck
    <3> QED
      BY <3>1, <3>2
  <2> QED
    BY <2>1, <2>3, <2>4 DEF Arriving
<1>6. ~At(t, "reset_device")'
  <2>1. Return(t) => ~At(t, "reset_device")'
    BY <1>2, <1>4, ResetGoesOn DEF At
  <2>2. ASSUME NEW n \in Ops, n # "reset_device", NEW p \in Ports, Then(t, <<Step(n, p)>>)
        PROVE  ~At(t, "reset_device")'
    BY <1>4, <2>2, ThenStep
  <2>3. CASE FwdStep(t)
    <3>1. {"set_up", "launch", "wait"} \subseteq Ops
      BY DEF Ops, Inner
    <3> QED
      BY <2>1, <2>2, <2>3, <3>1, ZeroPort DEF FwdStep, StartCheck, StartSetUp, Launch, StopTell, StopWait
  <2>4. CASE ProbeAgain(t)
    <3>1. "setup" \in Ops /\ \A p \in valid : p \in Ports
      BY DEF Ops, Inner, Basics, PortTypes
    <3> QED
      BY <2>1, <2>2, <2>4, <3>1 DEF ProbeAgain
  <2>5. CASE SaveDevice(t)
    <3>1. PICK p : p = Port(t)
      OBVIOUS
    <3>2. CASE p \notin valid
      BY <2>1, <2>5, <3>1, <3>2 DEF SaveDevice
    <3>3. CASE p \in valid
      <4>1. Then(t, <<Step("close_port", p), Step("prune", 0), Step("detach", dev[p].id)>>)
        BY <2>5, <3>1, <3>3 DEF SaveDevice
      <4> DEFINE a == Step("close_port", p)
                 b == Step("prune", 0)
                 c == Step("detach", dev[p].id)
                 q == <<a, b, c>>
      <4>2. a \in Steps /\ b \in Steps /\ c \in Steps /\ a.op = "close_port"
        <5>1. "close_port" \in Ops /\ "prune" \in Ops /\ "detach" \in Ops
          BY DEF Ops, Leaving
        <5>2. p \in Ports /\ dev[p].id \in Ports
          BY <3>3 DEF Basics, PortTypes
        <5> QED
          BY <5>1, <5>2, ZeroPort, StepTyped
      <4>3. Then(t, q)
        BY <4>1
      <4> HIDE DEF a, b, c
      <4>4. q \in Seq(Steps) /\ q # << >> /\ q[1].op = "close_port"
        BY <4>2
      <4> HIDE DEF q
      <4> QED
        BY <1>4, <4>3, <4>4, ThenAtMany
    <3> QED
      BY <3>2, <3>3
  <2>6. CASE ClosePrune(t)
    BY <2>1, <2>6 DEF ClosePrune
  <2>7. CASE CloseInvalid(t)
    <3>1. todo \in [Threads -> Seq(Steps)] /\ Shape(todo[t], t, Devices)
      BY DEF Basics, Shaped
    <3> DEFINE q == todo[t]
               r == SubSeq(q, 3, Len(q))
    <3>2. q \in Seq(Steps) /\ q # << >> /\ q[1].op = "close_port"
      BY <1>4, <2>7, <3>1, AtHead DEF CloseInvalid
    <3>3. todo'[t] = r
      BY <2>7, <3>1 DEF CloseInvalid
    <3>4. \A i \in 1 .. Len(q) : q[i].op # "reset_device"
      <4>1. 1 \in 1 .. Len(q)
        BY <1>4, AtHead
      <4> QED
        BY <3>1, <3>2, <4>1 DEF Shape
    <3> HIDE DEF q
    <3>5. r # << >> => Head(r) = q[3] /\ 3 \in 1 .. Len(q)
      BY <3>2
    <3> HIDE DEF r
    <3> QED
      BY <3>3, <3>4, <3>5 DEF At
  <2> QED
    BY <2>3, <2>4, <2>5, <2>6, <2>7
<1>7. Rightful(t)'
  BY <1>5, <1>6 DEF Rightful, Holds
<1> QED
  BY <1>1, <1>3, <1>7, StatesFollow

\* A closed port is gone.
LEMMA CloseKeepsStates ==
    ASSUME Basics, StatesInv, ~overlapped, NEW t \in Threads, DeviceClose(t)
    PROVE  StatesInv'
<1>1. Moves(t) /\ UNCHANGED <<need, settings, opts>> /\ At(t, "dev_close") /\ Return(t)
  BY StepShaped DEF PortStep, DeviceClose, OutsidePorts
<1>2. todo[t] # << >> /\ ~Holds(t)
  BY <1>1 DEF At, Holds
<1>3. PICK p \in Ports : p = Port(t)
  BY <1>2, AtHead
<1>4. Rightful(t)'
  BY <1>1, ReturnRightful
<1>5. \A q \in valid' : q \in valid /\ status'[q] = status[q] /\ dev'[q] = dev[q]
  <2>1. CASE UNCHANGED <<valid, status, dev>>
    BY <2>1
  <2>2. CASE Gone(p)
    <3> DEFINE f == Fresh(dev[p].id)
    <3>1. valid' = valid \ {p} /\ status' = [status EXCEPT ![p] = "CLOSED"] /\ dev' = [dev EXCEPT ![p] = f]
      BY <2>2 DEF Gone
    <3> HIDE DEF f
    <3>2. \A q \in Ports : q # p => status'[q] = status[q] /\ dev'[q] = dev[q]
      BY <3>1 DEF Basics, PortTypes
    <3>3. valid \subseteq Ports
      BY DEF Basics, PortTypes
    <3> QED
      BY <3>1, <3>2, <3>3
  <2> QED
    BY <1>3, <2>1, <2>2 DEF DeviceClose
<1>6. \A q \in valid' : Consistent(q)'
  <2>1. \A q \in valid' : need'[q] = need[q]
    BY <1>1
  <2> QED
    BY <1>1, <1>2, <1>5, <2>1, OwnConsistent
<1> QED
  BY <1>1, <1>4, <1>6, StatesFollow

\* A device that is detached takes its ports with it.
LEMMA DetachKeepsStates ==
    ASSUME Basics, StatesInv, ~overlapped, NEW t \in Threads, Detach(t)
    PROVE  StatesInv'
<1>1. Moves(t) /\ UNCHANGED <<need, settings, opts>> /\ At(t, "detach") /\ Return(t)
  BY StepShaped DEF PortStep, Detach, OutsidePorts
<1>2. todo[t] # << >> /\ ~Holds(t)
  BY <1>1 DEF At, Holds
<1>3. Rightful(t)'
  BY <1>1, ReturnRightful
<1>4. \A q \in valid' : q \in valid /\ status'[q] = status[q] /\ dev'[q] = dev[q]
  <2>1. CASE UNCHANGED <<valid, status, dev>>
    BY <2>1
  <2>2. CASE ~UNCHANGED <<valid, status, dev>>
    <3> DEFINE S == {p \in valid : dev[p].id = Port(t)}
               f == Fresh(Port(t))
    <3>1. /\ valid' = valid \ S
          /\ status' = [p \in Ports |-> IF p \in S THEN "CLOSED" ELSE status[p]]
          /\ dev' = [p \in Ports |-> IF p \in S THEN f ELSE dev[p]]
      BY <2>2 DEF Detach
    <3> HIDE DEF S, f
    <3>2. valid \subseteq Ports
      BY DEF Basics, PortTypes
    <3> QED
      BY <3>1, <3>2
  <2> QED
    BY <2>1, <2>2
<1>5. \A q \in valid' : Consistent(q)'
  <2>1. \A q \in valid' : need'[q] = need[q]
    BY <1>1
  <2> QED
    BY <1>1, <1>2, <1>4, <2>1, OwnConsistent
<1> QED
  BY <1>1, <1>3, <1>5, StatesFollow

\* Ports are reset when they were seen to be stopped, one or all.
LEMMA ResetCheckKeepsStates ==
    ASSUME Basics, StatesInv, ~overlapped, NEW t \in Threads, ResetCheck(t)
    PROVE  StatesInv'
<1>1. Moves(t) /\ UNCHANGED <<valid, status, need, dev, settings, opts>>
  BY StepShaped DEF PortStep, ResetCheck, OutsidePorts, portVars
<1>2. PICK o \in {"reset_port", "reset_all"} : At(t, o)
  BY DEF ResetCheck
<1>3. todo[t] # << >>
  BY <1>2 DEF At
<1>4. PICK p \in Ports : p = Port(t)
  BY <1>3, AtHead
<1>5. \A q \in valid' : Consistent(q)'
  BY <1>1, <1>2, PortsStayConsistent
<1>6. Rightful(t)'
  <2>1. CASE Return(t)
    BY <1>2, <2>1, ReturnRightful
  <2>2. CASE At(t, "reset_port") /\ Then(t, <<Step("reset_device", p)>>) /\ status[p] = "STOPPED"
    <3> DEFINE s == Step("reset_device", p)
               q == todo[t]
               r == <<s>> \o Tail(q)
    <3>1. s \in Steps /\ s.op = "reset_device" /\ s.port = p
      <4>1. "reset_device" \in Ops
        BY DEF Ops
      <4> QED
        BY <4>1, StepTyped
    <3>2. todo \in [Threads -> Seq(Steps)] /\ Shape(q, t, Devices)
      BY DEF Basics, Shaped
    <3>3. q \in Seq(Steps) /\ q # << >> /\ q[1].op = "reset_port" /\ 1 \in 1 .. Len(q)
      BY <1>3, <2>2, <3>2, AtHead
    <3>4. Len(q) = 1
      BY <3>2, <3>3 DEF Shape
    <3>5. Then(t, <<s>>) /\ todo'[t] = r
      BY <2>2, <3>2 DEF Then
    <3> HIDE DEF s
    <3>6. (\A x : At(t, x)' <=> s.op = x)
      BY <1>3, <3>1, <3>5, ThenAt
    <3> HIDE DEF q
    <3>7. r \in Seq(Steps) /\ r[1] = s /\ Len(r) = Len(q)
      BY <3>1, <3>3
    <3> HIDE DEF r
    <3>8. \A i \in 1 .. Len(r) : r[i] = s
      BY <3>4, <3>7
    <3> QED
      BY <1>1, <2>2, <3>1, <3>5, <3>6, <3>8 DEF Rightful, Holds
  <2>3. CASE Then(t, ForEach("reset_device")) /\ all_ports_stopped
    <3> DEFINE b == ForEach("reset_device")
    <3>1. b \in Seq(Steps) /\ b # << >> /\ b[1].op = "reset_device"
      <4>1. "reset_device" \in Ops
        BY DEF Ops
      <4> QED
        BY <4>1, ForEachTyped, EachIsSome
    <3>2. Then(t, b)
      BY <2>3
    <3> HIDE DEF b
    <3>3. \A x : At(t, x)' <=> x = "reset_device"
      BY <1>3, <3>1, <3>2, ThenAtMany
    <3> QED
      BY <1>1, <2>3, <3>3 DEF Rightful, Holds, all_ports_stopped
  <2> QED
    BY <1>4, <2>1, <2>2, <2>3 DEF ResetCheck
<1> QED
  BY <1>1, <1>5, <1>6, StatesFollow

\* A device that is reset belongs to a stopped port, which is to be configured anew.
LEMMA ResetKeepsStates ==
    ASSUME Basics, StatesInv, ~overlapped, NEW t \in Threads, DeviceReset(t)
    PROVE  StatesInv'
<1>1. Moves(t) /\ UNCHANGED <<valid, status, settings, opts>> /\ At(t, "reset_device") /\ Return(t)
  BY StepShaped DEF PortStep, DeviceReset, OutsidePorts
<1>2. todo[t] # << >> /\ ~Holds(t)
  BY <1>1 DEF At, Holds
<1>3. PICK p \in Ports : p = Port(t)
  BY <1>2, AtHead
<1>4. /\ \A i \in 1 .. Len(todo[t]) : todo[t][i].port \in valid => status[todo[t][i].port] = "STOPPED"
      /\ 1 \in 1 .. Len(todo[t]) /\ todo[t][1].port = p
  BY <1>1, <1>2, <1>3, AtHead DEF StatesInv, Rightful
<1>5. Rightful(t)'
  <2>1. {"configure", "dev_start", "dev_stop", "stop_claim", "dev_close"} \subseteq Inner
    BY DEF Inner
  <2>2. \A x \in {"configure", "dev_start", "dev_stop", "stop_claim", "dev_close"} : ~At(t, x)'
    BY <1>1, <1>2, <2>1, ReturnLeaves
  <2>3. At(t, "reset_device")' => \A i \in 1 .. Len(todo'[t]) : i + 1 \in 1 .. Len(todo[t]) /\ todo'[t][i] = todo[t][i + 1]
    BY <1>1, <1>2, ResetGoesOn
  <2>4. At(t, "reset_device")' => \A i \in 1 .. Len(todo'[t]) : todo'[t][i].port \in valid' => status'[todo'[t][i].port] = "STOPPED"
    <3> SUFFICES ASSUME At(t, "reset_device")', NEW i \in 1 .. Len(todo'[t]), todo'[t][i].port \in valid'
                 PROVE  status'[todo'[t][i].port] = "STOPPED"
      OBVIOUS
    <3>1. i + 1 \in 1 .. Len(todo[t]) /\ todo'[t][i] = todo[t][i + 1]
      BY <2>3
    <3> QED
      BY <1>1, <1>4, <3>1
  <2> QED
    BY <2>2, <2>4 DEF Rightful, Holds
<1>6. CASE UNCHANGED <<need, dev>>
  <2>1. \A q \in valid' : Consistent(q)'
    BY <1>1, <1>2, <1>6, OwnConsistent
  <2> QED
    BY <1>1, <1>5, <2>1, StatesFollow
<1>7. CASE ~UNCHANGED <<need, dev>>
  <2> DEFINE f == Fresh(dev[p].id)
  <2>1. ~Spared(p) /\ dev' = [dev EXCEPT ![p] = f] /\ need' = [need EXCEPT ![p].reconfig = TRUE, ![p].queues = TRUE]
    BY <1>3, <1>7 DEF DeviceReset
  <2>2. p \in valid /\ status[p] = "STOPPED"
    BY <1>4, <2>1 DEF Spared
  <2>3. f.state = "probed"
    BY DEF Fresh
  <2> HIDE DEF f
  <2>4. dev'[p].state = "probed" /\ \A q \in Ports : q # p => dev'[q] = dev[q] /\ need'[q] = need[q]
    BY <2>1, <2>3 DEF Basics, PortTypes
  <2>5. Consistent(p)'
    BY <1>1, <2>2, <2>4 DEF Consistent
  <2>6. \A q \in valid' : Consistent(q)'
    <3>1. \A q \in valid : q \in Ports
      BY DEF Basics, PortTypes
    <3> QED
      BY <1>1, <1>3, <2>4, <2>5, <3>1, OthersConsistent
  <2> QED
    BY <1>1, <1>5, <2>6, StatesFollow
<1> QED
  BY <1>6, <1>7

\* A port that was probed waits to be set up.
LEMMA ProbeKeepsStates ==
    ASSUME Basics, StatesInv, ~overlapped, NEW t \in Threads, Probe(t)
    PROVE  StatesInv'
<1>1. Moves(t) /\ UNCHANGED <<settings, opts>> /\ At(t, "attach") /\ spare # {}
  BY StepShaped DEF PortStep, Probe, OutsidePorts
<1>2. todo[t] # << >> /\ ~Holds(t)
  BY <1>1 DEF At, Holds
<1>3. PICK p : p = Min(Ports \ valid)
  OBVIOUS
<1>4. p \in Ports /\ p \notin valid
  BY <1>1, <1>3, FreePort
<1>5. PICK f : f.state = "probed" /\ dev' = [dev EXCEPT ![p] = f]
  <2>1. PICK d \in spare : dev' = [dev EXCEPT ![p] = Fresh(d)]
    BY <1>3 DEF Probe
  <2>2. Fresh(d).state = "probed"
    BY DEF Fresh
  <2> QED
    BY <2>1, <2>2
<1>6. /\ valid' = valid \cup {p} /\ status' = [status EXCEPT ![p] = "HANDLING"]
      /\ need' = [need EXCEPT ![p].setup = TRUE]
  BY <1>3 DEF Probe
<1>7. (\A x : At(t, x)' <=> x = "setup") /\ Port(t)' = p
  <2>1. "setup" \in Ops /\ Then(t, <<Step("setup", p)>>)
    BY <1>3 DEF Ops, Inner, Probe
  <2> QED
    BY <1>2, <1>4, <2>1, ThenStep
<1>8. Rightful(t)'
  BY <1>7 DEF Rightful, Holds
<1>9. Consistent(p)'
  <2>1. need'[p].setup /\ status'[p] = "HANDLING" /\ dev'[p].state = "probed"
    BY <1>4, <1>5, <1>6 DEF Basics, PortTypes
  <2> QED
    BY <2>1 DEF Consistent
<1>10. \A q \in valid' : Consistent(q)'
  <2>1. ASSUME NEW q \in valid
        PROVE  Consistent(q)'
    <3>1. q \in Ports /\ q # p
      BY <1>4 DEF Basics, PortTypes
    <3>2. status'[q] = status[q] /\ need'[q] = need[q] /\ dev'[q] = dev[q]
      BY <1>4, <1>5, <1>6, <3>1 DEF Basics, PortTypes
    <3> QED
      BY <1>1, <1>2, <3>2, OwnConsistent
  <2> QED
    BY <1>6, <1>9, <2>1
<1> QED
  BY <1>1, <1>8, <1>10, StatesFollow

\* A port that is set up is stopped, and is to be configured.
LEMMA SetUpKeepsStates ==
    ASSUME Basics, StatesInv, ~overlapped, NEW t \in Threads, setup_attached_port(t)
    PROVE  StatesInv'
<1>1. Moves(t) /\ UNCHANGED <<valid, dev, settings, opts>> /\ At(t, "setup") /\ Return(t)
  BY StepShaped DEF PortStep, setup_attached_port, OutsidePorts
<1>2. todo[t] # << >> /\ ~Holds(t)
  BY <1>1 DEF At, Holds
<1>3. Rightful(t)'
  BY <1>1, ReturnRightful
<1> DEFINE S == ToSetUp(Port(t))
<1>4. /\ need' = [q \in Ports |-> IF q \in S THEN [setup |-> FALSE, reconfig |-> TRUE, queues |-> TRUE] ELSE need[q]]
      /\ status' = [q \in Ports |-> IF q \in S THEN "STOPPED" ELSE status[q]]
  BY DEF setup_attached_port
<1> HIDE DEF S
<1>5. ASSUME NEW q \in valid'
      PROVE  Consistent(q)'
  <2>1. q \in valid /\ q \in Ports
    BY <1>1 DEF Basics, PortTypes
  <2>2. CASE q \in S
    <3>1. status'[q] = "STOPPED" /\ need'[q].queues
      BY <1>4, <2>1, <2>2
    <3> QED
      BY <3>1 DEF Consistent
  <2>3. CASE q \notin S
    <3>1. status'[q] = status[q] /\ need'[q] = need[q] /\ dev'[q] = dev[q]
      BY <1>1, <1>4, <2>1, <2>3
    <3> QED
      BY <1>1, <1>2, <2>1, <3>1, OwnConsistent
  <2> QED
    BY <2>2, <2>3
<1> QED
  BY <1>1, <1>3, <1>5, StatesFollow

LEMMA OuterKeepsStates ==
    ASSUME Basics, StatesInv,
           Outside \/ CoreStep \/ \E t \in Threads : \E q \in Seq(Steps) : Calls(t, q)
    PROVE  StatesInv'
<1>1. CASE Outside \/ CoreStep
  <2>1. UNCHANGED <<valid, status, need, dev, lists, settings, opts, test_done, todo, overlapped>>
    BY <1>1 DEF Outside, CoreStep, CoreFinish, OutsideFwd, portVars, fwdVars
  <2>2. /\ \A t, o : At(t, o)' <=> At(t, o)
        /\ \A t : Port(t)' = Port(t)
        /\ \A p : Spared(p)' <=> Spared(p)
    BY <2>1 DEF At, Port, Spared, port_is_forwarding
  <2>3. \A p : RxQ(p)' = RxQ(p) /\ TxQ(p)' = TxQ(p)
    BY <2>1 DEF RxQ, TxQ
  <2>4. \A t : Holds(t)' <=> Holds(t)
    BY <2>2 DEF Holds
  <2>5. \A p : Consistent(p)' <=> Consistent(p)
    BY <2>1, <2>2, <2>3, <2>4 DEF Consistent
  <2>6. \A t \in Threads : Rightful(t) => Rightful(t)'
    <3> SUFFICES ASSUME NEW t \in Threads, Rightful(t)
                 PROVE  Rightful(t)'
      OBVIOUS
    <3>1. Spared(Port(t))' <=> Spared(Port(t))
      BY <2>1 DEF Spared, Port, port_is_forwarding
    <3> QED
      BY <2>1, <2>2, <2>4, <3>1 DEF Rightful
  <2> QED
    BY <2>1, <2>5, <2>6 DEF StatesInv
<1>2. ASSUME NEW t \in Threads, NEW q \in Seq(Steps), Calls(t, q)
      PROVE  StatesInv'
  <2>1. UNCHANGED <<valid, status, need, dev, settings, opts>>
    BY <1>2 DEF Calls, portVars
  <2> SUFFICES ASSUME ~overlapped'
               PROVE  StatesInv'
    BY DEF StatesInv
  <2>2. /\ ~overlapped /\ \A u \in Threads : todo[u] = << >>
        /\ \A u \in Threads : u # t => todo'[u] = << >>
        /\ q[1].op \in Given /\ Given \cap Inner = {} /\ \A o : At(t, o)' <=> q[1].op = o
    BY <1>2, CallsAt
  <2>3. \A u \in Threads : ~Holds(u)
    BY <2>2 DEF Holds, At
  <2>4. \A u \in Threads : \A o \in Inner \cup {"reset_device"} : ~At(u, o)'
    <3>1. "reset_device" \notin Given
      BY DEF Given
    <3> QED
      BY <2>2, <3>1 DEF At
  <2>5. \A u \in Threads : Rightful(u)'
    BY <2>4 DEF Rightful, Holds, Inner
  <2>6. \A p : RxQ(p)' = RxQ(p) /\ TxQ(p)' = TxQ(p)
    BY <2>1 DEF RxQ, TxQ
  <2>7. \A p \in valid' : Consistent(p)'
    BY <2>1, <2>2, <2>3, <2>6 DEF StatesInv, Consistent
  <2> QED
    BY <2>5, <2>7 DEF StatesInv
<1> QED
  BY <1>1, <1>2

\* New numbers of queues are set while all ports are stopped, and are to be configured.
LEMMA SettingKeepsStates ==
    ASSUME Basics, StatesInv, Setting
    PROVE  StatesInv'
<1> SUFFICES ASSUME ~overlapped'
             PROVE  StatesInv'
  BY DEF StatesInv
<1>1. UNCHANGED <<valid, status, dev, opts>> /\ ~overlapped /\ \A u \in Threads : \A o : ~At(u, o) /\ ~At(u, o)'
  BY SettingAt
<1>2. \A u \in Threads : Rightful(u)'
  BY <1>1 DEF Rightful, Holds
<1>3. \A p \in valid : Consistent(p)
  BY <1>1 DEF StatesInv
<1>4. \A u \in Threads : ~Holds(u)
  BY <1>1 DEF Holds
<1>5. CASE config_rx_tx
  <2>1. need' = [p \in Ports |-> IF p \in valid THEN [need[p] EXCEPT !.reconfig = TRUE, !.queues = TRUE]
                                 ELSE need[p]]
    BY <1>5 DEF config_rx_tx
  <2>2. \A p \in Ports : need[p] \in [setup : BOOLEAN, reconfig : BOOLEAN, queues : BOOLEAN]
    BY DEF Basics, PortTypes
  <2>3. \A p \in valid : need'[p].queues
    BY <2>1, <2>2 DEF Basics, PortTypes
  <2>4. \A p \in valid : status[p] = "STOPPED"
    BY <1>5 DEF config_rx_tx, all_ports_stopped
  <2>5. \A p \in valid' : Consistent(p)'
    BY <1>1, <2>3, <2>4 DEF Consistent
  <2> QED
    BY <1>2, <2>5 DEF StatesInv
<1>6. CASE ~config_rx_tx
  <2>1. need' = need
    BY <1>6 DEF Setting, set_nbport, set_nbcore, set_portlist, set_fwd_mode
  <2>2. settings'.rxq = settings.rxq /\ settings'.txq = settings.txq
    <3>1. settings \in [lcores : 1 .. NbLcores, rxq : Nat \ {0}, txq : Nat \ {0}, eng : opts.engines]
      BY DEF Basics, PortTypes
    <3>2. \/ settings' = settings
          \/ \E n : settings' = [settings EXCEPT !.lcores = n]
          \/ \E e : settings' = [settings EXCEPT !.eng = e]
      BY <1>6 DEF Setting, set_nbport, set_nbcore, set_portlist, set_fwd_mode
    <3> QED
      BY <3>1, <3>2
  <2>3. \A p : RxQ(p)' = RxQ(p) /\ TxQ(p)' = TxQ(p)
    BY <1>1, <2>2 DEF RxQ, TxQ
  <2>4. \A p \in valid' : Consistent(p)'
    BY <1>1, <1>3, <1>4, <2>1, <2>3 DEF Consistent
  <2> QED
    BY <1>2, <2>4 DEF StatesInv
<1> QED
  BY <1>5, <1>6

LEMMA StepKeepsStates ==
    ASSUME Basics, StatesInv, [Next]_vars
    PROVE  StatesInv'
<1>1. ASSUME NEW t \in Threads, PortStep(t) \/ FwdStep(t)
      PROVE  StatesInv'
  <2> SUFFICES ASSUME ~overlapped'
               PROVE  StatesInv'
    BY DEF StatesInv
  <2>1. ~overlapped
    BY <1>1, StepShaped DEF Moves
  <2>2. CASE FwdStep(t)
    BY <2>1, <2>2, PlainKeepsStates
  <2>3. CASE PortStep(t)
    BY <2>1, <2>3, ClaimKeepsStates, EndKeepsStates, ConfigureKeepsStates, ChecksKeepStates, PlainKeepsStates, CloseKeepsStates,
       DetachKeepsStates, ResetCheckKeepsStates, ResetKeepsStates, ProbeKeepsStates, SetUpKeepsStates DEF PortStep
  <2> QED
    BY <1>1, <2>2, <2>3
<1> QED
  BY <1>1, StepKinds, OuterKeepsStates, SettingKeepsStates

LEMMA InitStates == Init => StatesInv
<1> SUFFICES ASSUME Init
             PROVE  StatesInv
  OBVIOUS
<1>1. \A t \in Threads : \A o : ~At(t, o)
  BY DEF Init, At
<1>2. \A t \in Threads : Rightful(t)
  BY <1>1 DEF Rightful, Holds
<1>3. PICK no_device_start \in BOOLEAN :
        /\ status = [p \in Ports |-> IF no_device_start \/ p \notin valid THEN "STOPPED" ELSE "STARTED"]
        /\ need = [p \in Ports |-> [setup |-> FALSE, reconfig |-> no_device_start /\ p \in valid,
                                    queues |-> no_device_start /\ p \in valid]]
        /\ dev = [p \in Ports |-> IF no_device_start \/ p \notin valid THEN Fresh(p)
                                  ELSE [id |-> p, state |-> "started", rxq |-> RxQueues(Conf(lists, settings, valid), p),
                                        txq |-> TxQueues(Conf(lists, settings, valid), p)]]
  BY DEF Init
<1>4. ASSUME NEW p \in valid
      PROVE  Consistent(p)
  <2>1. p \in Ports
    BY InitBasics DEF Basics, PortTypes
  <2>2. CASE no_device_start
    <3>1. status[p] = "STOPPED" /\ dev[p] = Fresh(p)
      BY <1>3, <2>1, <2>2
    <3>2. Fresh(p).state = "probed"
      BY DEF Fresh
    <3> QED
      BY <3>1, <3>2 DEF Consistent
  <2>3. CASE ~no_device_start
    <3> DEFINE r == RxQueues(Conf(lists, settings, valid), p)
               x == TxQueues(Conf(lists, settings, valid), p)
    <3>1. r = RxQ(p) /\ x = TxQ(p)
      BY QueuesOf
    <3>2. status[p] = "STARTED" /\ need[p].queues = FALSE /\ dev[p] = [id |-> p, state |-> "started", rxq |-> r, txq |-> x]
      BY <1>3, <2>1, <2>3
    <3> HIDE DEF r, x
    <3>3. dev[p].state = "started" /\ dev[p].rxq = r /\ dev[p].txq = x
      BY <3>2
    <3> QED
      BY <3>1, <3>2, <3>3 DEF Consistent
  <2> QED
    BY <2>2, <2>3
<1> QED
  BY <1>2, <1>4 DEF StatesInv

\* What holds of lists and ports
LEMMA PortsHold == Spec => [](Basics /\ ListsInv /\ StatesInv)
<1> DEFINE Inv == Basics /\ ListsInv /\ StatesInv
<1>1. Init => Inv
  BY InitBasics, InitListsInv, InitStates
<1>2. Inv /\ [Next]_vars => Inv'
  BY StepKeepsBasics, StepKeepsLists, StepKeepsStates
<1> QED
  BY <1>1, <1>2, PTL DEF Spec

\* Between calls no port is left half way, except one whose isolated mode could not be applied,
\* and a started port is one whose device runs: start_port(), stop_port(), reset_port() and
\* attach_port() leave what they say they do whatever fails on their way.
THEOREM PortsAreSettled == Spec => []PortsSettled
<1>1. Basics /\ ListsInv /\ StatesInv => PortsSettled
  <2> SUFFICES ASSUME Basics, ListsInv, StatesInv, Idle, ~overlapped, NEW p \in valid
               PROVE  /\ status[p] = "HANDLING" => opts.isolate
                      /\ status[p] = "STARTED" => dev[p].state = "started"
    BY DEF PortsSettled
  <2>1. \A t \in Threads : todo[t] = << >>
    BY DEF Idle
  <2>2. \A t \in Threads : ~Holds(t)
    BY <2>1 DEF Holds, At
  <2>3. ListsSettled
    BY <2>1, IdleLists
  <2>4. p \in Ports
    BY DEF Basics, PortTypes
  <2>5. ~need[p].setup
    BY <2>3, <2>4 DEF ListsSettled, ListsCover
  <2> QED
    BY <2>2, <2>5 DEF StatesInv, Consistent
<1> QED
  BY <1>1, PortsHold, PTL

\* Between calls the program knows exactly the ports there are, and forwards between them only,
\* as long as no calls overlapped; no device is lost or has two ports, whether they did or not.
THEOREM ListsAreOfPorts == Spec => []ListsMatchPorts
<1>1. Basics /\ ListsInv /\ DevicesKept => ListsMatchPorts
  <2> SUFFICES ASSUME Basics, ListsInv, Idle, ~overlapped
               PROVE  /\ ToSet(lists.ids) = valid
                      /\ \A i \in 1 .. lists.nb_fwd_ports : lists.fwd_ids[i] \in valid
    BY DEF ListsMatchPorts
  <2>1. ListsSettled
    BY IdleLists DEF Idle
  <2>2. \A i \in 1 .. lists.nb_fwd_ports : lists.fwd_ids[i] \in ToSet(lists.fwd_ids)
    <3>1. \A i \in 1 .. lists.nb_fwd_ports : i \in DOMAIN lists.fwd_ids
      <4>1. lists.fwd_ids \in Seq(Ports) /\ lists.nb_fwd_ports \in Nat /\ lists.nb_fwd_ports <= Len(lists.fwd_ids)
        BY DEF Basics, PortTypes
      <4> QED
        BY <4>1
    <3> QED
      BY <3>1 DEF ToSet
  <2> QED
    BY <2>1, <2>2 DEF ListsSettled, ListsCover
<1> QED
  BY <1>1, PortsHold, DevicesAreKept, PTL

-----------------------------------------------------------------------------
(* Quitting: pmd_test_exit() stops the cores, then every port, then closes *)
(* every port. What it has not done yet it still has before it.            *)

Ahead(q, o, p) == \E i \in 1 .. Len(q) : q[i] = Step(o, p)
Leaves(q) == \E i \in 1 .. Len(q) : q[i].op = "exit"
Stops(q) == \E i \in 1 .. Len(q) : q[i].op \in Stopping

QuitInv ==
    LET q == todo["cli"]
    IN  ~overlapped /\ Leaves(q) =>
            /\ StopsFirst(q)
            /\ q[1].op \in {"stop", "wait"} \/ test_done
            /\ \A p \in valid : status[p] = "STARTED" => Ahead(q, "stop_port", p) \/ q[1] = Step("stop_claim", p)
            /\ \A p \in valid :
                  dev[p].state # "started" => Ahead(q, "close_port", p) \/ q[1] = Step("dev_close", p)
            /\ Stops(q) => \A p \in Ports : Ahead(q, "close_port", p)

\* What is left when a step is done: the rest, the rest behind a step in its place, or, when the
\* port of a close is gone, the rest behind the pruning.
Rest(q, r) ==
    \/ r = Tail(q)
    \/ \E s \in Steps : s.op # "exit" /\ (s.op \in Stopping <=> q[1].op \in Stopping) /\ r = <<s>> \o Tail(q)
    \/ Len(q) >= 2 /\ q[1].op = "close_port" /\ q[2].op = "prune" /\ r = Tail(Tail(q))

LEMMA RestPlaces ==
    ASSUME NEW q \in Seq(Steps), q # << >>, NEW r, Rest(q, r)
    PROVE  /\ r \in Seq(Steps) /\ Len(q) \in Nat \ {0} /\ Len(r) \in Nat
           /\ \E k \in 0 .. 2 :
                /\ k = 0 => r # << >> /\ r[1].op # "exit" /\ (r[1].op \in Stopping <=> q[1].op \in Stopping)
                /\ k = 2 => Len(q) >= 2 /\ q[1].op = "close_port" /\ q[2].op = "prune"
                /\ Len(r) = Len(q) - k
                /\ \A i \in 1 .. Len(r) : i + k \in 1 .. Len(q) /\ ((k = 0 /\ i = 1) \/ r[i] = q[i + k])
<1> DEFINE P(k) == /\ k = 0 => r # << >> /\ r[1].op # "exit" /\ (r[1].op \in Stopping <=> q[1].op \in Stopping)
                   /\ k = 2 => Len(q) >= 2 /\ q[1].op = "close_port" /\ q[2].op = "prune"
                   /\ Len(r) = Len(q) - k
                   /\ \A i \in 1 .. Len(r) : i + k \in 1 .. Len(q) /\ ((k = 0 /\ i = 1) \/ r[i] = q[i + k])
<1> SUFFICES /\ r \in Seq(Steps) /\ Len(q) \in Nat \ {0}
             /\ \E k \in 0 .. 2 : P(k)
  OBVIOUS
<1>1. Len(q) \in Nat \ {0}
  OBVIOUS
<1>2. CASE r = Tail(q)
  <2>1. r \in Seq(Steps) /\ Len(r) = Len(q) - 1 /\ \A i \in 1 .. Len(r) : i + 1 \in 1 .. Len(q) /\ r[i] = q[i + 1]
    BY <1>1, <1>2
  <2>2. P(1)
    BY <2>1
  <2> HIDE DEF P
  <2> QED
    BY <1>1, <2>1, <2>2
<1>3. ASSUME NEW s \in Steps, s.op # "exit", s.op \in Stopping <=> q[1].op \in Stopping, r = <<s>> \o Tail(q)
      PROVE  /\ r \in Seq(Steps) /\ r # << >> /\ r[1] = s /\ Len(r) = Len(q)
             /\ \A i \in 1 .. Len(r) : i = 1 \/ r[i] = q[i]
  <2> DEFINE a == <<s>>
             b == Tail(q)
  <2>1. a \in Seq(Steps) /\ Len(a) = 1 /\ a[1] = s
    OBVIOUS
  <2>2. b \in Seq(Steps) /\ Len(b) = Len(q) - 1 /\ \A i \in 1 .. Len(b) : b[i] = q[i + 1]
    BY <1>1
  <2>3. r = a \o b
    BY <1>3
  <2> HIDE DEF a, b
  <2>4. /\ r \in Seq(Steps) /\ Len(r) = Len(a) + Len(b)
        /\ \A i \in 1 .. Len(a) : r[i] = a[i]
        /\ \A i \in 1 .. Len(b) : r[Len(a) + i] = b[i]
    <3>1. a \in Seq(Steps) /\ b \in Seq(Steps)
      BY <2>1, <2>2
    <3> QED
      BY <2>3, <3>1, Joined
  <2>5. Len(r) = Len(q)
    BY <1>1, <2>1, <2>2, <2>4
  <2>6. r[1] = s
    <3>1. 1 \in 1 .. Len(a)
      BY <2>1
    <3> QED
      BY <2>1, <2>4, <3>1
  <2>7. ASSUME NEW i \in 1 .. Len(r), i # 1
        PROVE  r[i] = q[i]
    <3>1. i - 1 \in 1 .. Len(b) /\ 1 + (i - 1) = i /\ (i - 1) + 1 = i
      BY <1>1, <2>2, <2>5, <2>7
    <3>2. r[Len(a) + (i - 1)] = b[i - 1] /\ b[i - 1] = q[(i - 1) + 1]
      BY <2>2, <2>4, <3>1
    <3> QED
      BY <2>1, <3>1, <3>2
  <2> QED
    BY <1>1, <2>4, <2>5, <2>6, <2>7
<1>4. CASE \E s \in Steps : s.op # "exit" /\ (s.op \in Stopping <=> q[1].op \in Stopping) /\ r = <<s>> \o Tail(q)
  <2>1. PICK s \in Steps : s.op # "exit" /\ (s.op \in Stopping <=> q[1].op \in Stopping) /\ r = <<s>> \o Tail(q)
    BY <1>4
  <2>2. /\ r \in Seq(Steps) /\ r # << >> /\ r[1] = s /\ Len(r) = Len(q)
        /\ \A i \in 1 .. Len(r) : i = 1 \/ r[i] = q[i]
    BY <1>3, <2>1
  <2>3. \A i \in 1 .. Len(r) : i + 0 \in 1 .. Len(q) /\ i + 0 = i
    BY <1>1, <2>2
  <2>4. Len(r) = Len(q) - 0
    BY <1>1, <2>2
  <2>5. P(0)
    BY <2>1, <2>2, <2>3, <2>4
  <2> HIDE DEF P
  <2> QED
    BY <1>1, <2>2, <2>5
<1>5. CASE Len(q) >= 2 /\ q[1].op = "close_port" /\ q[2].op = "prune" /\ r = Tail(Tail(q))
  <2> DEFINE b == Tail(q)
  <2>0. b \in Seq(Steps) /\ Len(b) = Len(q) - 1 /\ \A i \in 1 .. Len(b) : b[i] = q[i + 1]
    BY <1>1
  <2>1. r = Tail(b) /\ Len(b) # 0
    BY <1>1, <1>5, <2>0
  <2> HIDE DEF b
  <2>2. r \in Seq(Steps) /\ Len(r) = Len(b) - 1 /\ \A i \in 1 .. Len(r) : r[i] = b[i + 1]
    BY <2>0, <2>1
  <2>3. Len(r) = Len(q) - 2
    BY <1>1, <2>0, <2>2
  <2>4. ASSUME NEW i \in 1 .. Len(r)
        PROVE  i + 2 \in 1 .. Len(q) /\ r[i] = q[i + 2]
    <3>1. i + 1 \in 1 .. Len(b) /\ (i + 1) + 1 = i + 2 /\ i + 2 \in 1 .. Len(q)
      BY <1>1, <2>0, <2>3
    <3>2. r[i] = b[i + 1] /\ b[i + 1] = q[(i + 1) + 1]
      BY <2>0, <2>2, <3>1
    <3> QED
      BY <3>1, <3>2
  <2>5. P(2)
    BY <1>5, <2>3, <2>4
  <2> HIDE DEF P
  <2> QED
    BY <1>1, <2>2, <2>5
<1> HIDE DEF P
<1> QED
  BY <1>2, <1>4, <1>5 DEF Rest

\* What is before a thread stays before it, but for the step it is at.
LEMMA RestAhead ==
    ASSUME NEW q \in Seq(Steps), q # << >>, NEW r, Rest(q, r)
    PROVE  /\ Leaves(r) => Leaves(q)
           /\ \A o, p : o # "prune" /\ q[1] # Step(o, p) /\ Ahead(q, o, p) => Ahead(r, o, p)
           /\ StopsFirst(q) => StopsFirst(r)
           /\ Stops(r) => Stops(q)
           /\ StopsFirst(q) /\ q[1].op \notin Stopping => ~Stops(r)
<1>1. PICK k \in 0 .. 2 :
         /\ k = 0 => r # << >> /\ r[1].op # "exit" /\ (r[1].op \in Stopping <=> q[1].op \in Stopping)
         /\ k = 2 => Len(q) >= 2 /\ q[1].op = "close_port" /\ q[2].op = "prune"
         /\ Len(r) = Len(q) - k
         /\ \A i \in 1 .. Len(r) : i + k \in 1 .. Len(q) /\ ((k = 0 /\ i = 1) \/ r[i] = q[i + k])
  BY RestPlaces
<1>2. Len(q) \in Nat \ {0} /\ Len(r) \in Nat /\ 1 \in 1 .. Len(q)
  BY RestPlaces
<1>3. \A i \in 1 .. Len(r) : /\ i + k \in 1 .. Len(q)
                             /\ r[i].op = "exit" => q[i + k].op = "exit"
                             /\ r[i].op \in Stopping <=> q[i + k].op \in Stopping
  BY <1>1, <1>2
<1>4. Leaves(r) => Leaves(q)
  BY <1>3 DEF Leaves
<1>5. Stops(r) => Stops(q)
  BY <1>3 DEF Stops
<1>6. StopsFirst(q) => StopsFirst(r)
  <2> SUFFICES ASSUME StopsFirst(q), NEW i \in 1 .. Len(r), NEW j \in 1 .. Len(r), i < j, r[j].op \in Stopping
               PROVE  r[i].op \in Stopping
    BY DEF StopsFirst
  <2>1. i + k < j + k /\ i + k \in 1 .. Len(q) /\ j + k \in 1 .. Len(q)
    BY <1>2, <1>3
  <2> QED
    BY <1>3, <2>1 DEF StopsFirst
<1>7. StopsFirst(q) /\ q[1].op \notin Stopping => ~Stops(r)
  <2> SUFFICES ASSUME StopsFirst(q), q[1].op \notin Stopping, NEW i \in 1 .. Len(r), r[i].op \in Stopping
               PROVE  FALSE
    BY DEF Stops
  <2>1. i + k \in 1 .. Len(q) /\ q[i + k].op \in Stopping
    BY <1>3
  <2>2. CASE i + k = 1
    BY <2>1, <2>2
  <2>3. CASE i + k # 1
    <3>1. 1 < i + k
      BY <1>2, <2>1, <2>3
    <3> QED
      BY <1>2, <2>1, <3>1 DEF StopsFirst
  <2> QED
    BY <2>2, <2>3
<1>8. ASSUME NEW o, NEW p, o # "prune", q[1] # Step(o, p), Ahead(q, o, p)
      PROVE  Ahead(r, o, p)
  <2>1. PICK i \in 1 .. Len(q) : q[i] = Step(o, p)
    BY <1>8 DEF Ahead
  <2>2. q[i].op = o /\ i # 1
    BY <1>8, <2>1 DEF Step
  <2>3. i > k
    BY <1>1, <1>2, <1>8, <2>2
  <2>4. i - k \in 1 .. Len(r) /\ (i - k) + k = i /\ ~(k = 0 /\ i - k = 1)
    BY <1>1, <1>2, <2>2, <2>3
  <2>5. r[i - k] = q[i]
    BY <1>1, <2>4
  <2> QED
    BY <2>1, <2>4, <2>5 DEF Ahead
<1> QED
  BY <1>4, <1>5, <1>6, <1>7, <1>8

\* No step but the call of quit brings the exit.
LEMMA ThenExit ==
    ASSUME NEW q \in Seq(Steps), q # << >>, NEW b \in Seq(Steps), \A i \in 1 .. Len(b) : b[i].op # "exit",
           NEW r, r = b \o Tail(q), Leaves(r)
    PROVE  Leaves(q)
<1> DEFINE c == Tail(q)
<1>1. c \in Seq(Steps) /\ \A i \in 1 .. Len(c) : i + 1 \in 1 .. Len(q) /\ c[i] = q[i + 1]
  OBVIOUS
<1>2. r = b \o c
  OBVIOUS
<1> HIDE DEF c
<1>3. /\ Len(r) = Len(b) + Len(c) /\ Len(b) \in Nat /\ Len(c) \in Nat
      /\ \A i \in 1 .. Len(b) : r[i] = b[i]
      /\ \A i \in 1 .. Len(c) : r[Len(b) + i] = c[i]
  <2>1. b \in Seq(Steps) /\ c \in Seq(Steps)
    BY <1>1
  <2>2. /\ Len(b \o c) = Len(b) + Len(c) /\ Len(b) \in Nat /\ Len(c) \in Nat
        /\ \A i \in 1 .. Len(b) : (b \o c)[i] = b[i]
        /\ \A i \in 1 .. Len(c) : (b \o c)[Len(b) + i] = c[i]
    BY <2>1, Joined
  <2> QED
    BY <1>2, <2>2
<1>4. PICK i \in 1 .. Len(r) : r[i].op = "exit"
  BY DEF Leaves
<1>5. ~(i <= Len(b))
  BY <1>3, <1>4
<1>6. i - Len(b) \in 1 .. Len(c) /\ Len(b) + (i - Len(b)) = i
  BY <1>3, <1>5
<1>7. c[i - Len(b)].op = "exit"
  BY <1>3, <1>4, <1>6
<1> QED
  BY <1>1, <1>6, <1>7 DEF Leaves

LEMMA TailExit ==
    ASSUME NEW q \in Seq(Steps), q # << >>, Leaves(Tail(q))
    PROVE  Leaves(q)
BY DEF Leaves

LEMMA NoNewExit ==
    ASSUME Basics, NEW t \in Threads, PortStep(t) \/ FwdStep(t), Leaves(todo'[t])
    PROVE  Leaves(todo[t])
<1>1. todo[t] # << >>
  BY StepShaped DEF Moves
<1>2. todo \in [Threads -> Seq(Steps)] /\ Port(t) \in Ports /\ 0 \in Ports /\ valid \subseteq Ports
  BY <1>1, AtHead, ZeroPort DEF Basics, Shaped, PortTypes
<1> DEFINE q == todo[t]
<1>3. q \in Seq(Steps) /\ q # << >>
  BY <1>1, <1>2
<1>4. CASE Return(t)
  <2>1. todo'[t] = Tail(q)
    BY <1>2, <1>4 DEF Return
  <2> HIDE DEF q
  <2>2. Leaves(q)
    BY <1>3, <2>1, TailExit
  <2> QED
    BY <2>2 DEF q
<1>5. CASE Abandon(t)
  <2>1. todo'[t] = << >>
    BY <1>2, <1>5 DEF Abandon
  <2> QED
    BY <2>1 DEF Leaves
<1>6. CASE CloseInvalid(t)
  <2>1. todo'[t] = SubSeq(q, 3, Len(q))
    BY <1>2, <1>6 DEF CloseInvalid
  <2>2. q[1].op = "close_port" /\ Shape(q, t, Devices)
    BY <1>1, <1>6, AtHead DEF CloseInvalid, Basics, Shaped
  <2> HIDE DEF q
  <2>3. SubSeq(q, 3, Len(q)) = Tail(Tail(q)) /\ Len(q) >= 2
    BY <1>3, <2>2, ShapeOfEarlyReturn
  <2> DEFINE r == Tail(q)
  <2>4. r \in Seq(Steps) /\ Len(r) # 0
    <3>1. r \in Seq(Steps) /\ Len(r) = Len(q) - 1 /\ Len(q) \in Nat
      BY <1>3
    <3> HIDE DEF r
    <3> QED
      BY <2>3, <3>1
  <2>5. Leaves(Tail(r))
    BY <2>1, <2>3
  <2> HIDE DEF r
  <2>6. r # << >>
    BY <2>4
  <2>7. Leaves(r)
    BY <2>4, <2>5, <2>6, TailExit
  <2>8. Leaves(q)
    BY <1>3, <2>7, TailExit DEF r
  <2> QED
    BY <2>8 DEF q
<1>7. ASSUME NEW b \in Seq(Steps), \A i \in 1 .. Len(b) : b[i].op # "exit", Then(t, b)
      PROVE  Leaves(todo[t])
  <2>1. todo'[t] = b \o Tail(q)
    BY <1>2, <1>7 DEF Then
  <2> HIDE DEF q
  <2>2. Leaves(q)
    BY <1>3, <1>7, <2>1, ThenExit
  <2> QED
    BY <2>2 DEF q
<1>8. ASSUME NEW o \in Ops \ {"exit"}, NEW p \in Ports, Then(t, <<Step(o, p)>>)
      PROVE  Leaves(todo[t])
  <2> DEFINE s == Step(o, p)
             b == <<s>>
  <2>1. s \in Steps /\ s.op # "exit"
    BY StepTyped
  <2> HIDE DEF s
  <2>2. b \in Seq(Steps) /\ \A i \in 1 .. Len(b) : b[i].op # "exit"
    BY <2>1
  <2>3. Then(t, b)
    BY <1>8 DEF s
  <2> HIDE DEF b
  <2> QED
    BY <1>7, <2>2, <2>3
<1>9. Inner \cup {"reset_device", "close_port", "prune", "detach"} \subseteq Ops \ {"exit"}
  BY DEF Ops, Inner, Leaving
<1>10. CASE Then(t, ForEach("reset_device"))
  <2> DEFINE b == ForEach("reset_device")
  <2>0. "reset_device" \in Ops
    BY <1>9
  <2>1. b \in Seq(Steps) /\ \A i \in 1 .. Len(b) : b[i].op = "reset_device"
    BY <2>0, ForEachTyped, StepTyped
  <2>2. Then(t, b)
    BY <1>10
  <2> HIDE DEF b
  <2> QED
    BY <1>7, <2>1, <2>2
<1>11. CASE SaveDevice(t) /\ ~Return(t)
  <2> DEFINE x == Step("close_port", Port(t))
             y == Step("prune", 0)
             z == Step("detach", dev[Port(t)].id)
             b == <<x, y, z>>
  <2>1. Port(t) \in valid /\ Then(t, b)
    BY <1>11 DEF SaveDevice
  <2>2. dev[Port(t)].id \in Ports
    BY <1>2, <2>1 DEF Basics, PortTypes
  <2>3. "close_port" \in Ops /\ "prune" \in Ops /\ "detach" \in Ops
    BY <1>9
  <2>4. x \in Steps /\ y \in Steps /\ z \in Steps /\ x.op # "exit" /\ y.op # "exit" /\ z.op # "exit"
    BY <1>2, <2>2, <2>3, StepTyped
  <2> HIDE DEF x, y, z
  <2>5. b \in Seq(Steps) /\ \A i \in 1 .. Len(b) : b[i].op # "exit"
    BY <2>4
  <2> HIDE DEF b
  <2> QED
    BY <1>7, <2>1, <2>5
<1>12. \/ Return(t) \/ Abandon(t) \/ CloseInvalid(t)
       \/ SaveDevice(t) /\ ~Return(t)
       \/ Then(t, ForEach("reset_device"))
       \/ \E o \in Ops \ {"exit"}, p \in Ports : Then(t, <<Step(o, p)>>)
  <2>1. CASE Probe(t)
    <3>1. Then(t, <<Step("setup", Min(Ports \ valid))>>) /\ Min(Ports \ valid) \in Ports
      BY <2>1, FreePort DEF Probe
    <3> QED
      BY <1>9, <3>1 DEF Inner
  <2>2. CASE ProbeAgain(t)
    BY <1>2, <1>9, <2>2 DEF ProbeAgain, Inner
  <2>3. CASE StartClaim(t) \/ Configure(t) \/ StopCheck(t) \/ StopClaim(t) \/ CloseCheck(t) \/ ResetCheck(t)
             \/ StartCheck(t) \/ StartSetUp(t) \/ StopTell(t)
    <3>1. {"configure", "dev_start", "stop_claim", "dev_stop", "dev_close", "reset_device", "set_up", "launch", "wait"}
            \subseteq Ops \ {"exit"}
      BY <1>9 DEF Inner
    <3> QED
      BY <1>2, <2>3, <3>1 DEF StartClaim, Configure, StopCheck, StopClaim, CloseCheck, ResetCheck, StartCheck, StartSetUp, StopTell
  <2>4. CASE \/ DeviceStarts(t) \/ DeviceStartFails(t) \/ DeviceStop(t) \/ DeviceClose(t) \/ ClosePrune(t)
             \/ DeviceReset(t) \/ setup_attached_port(t) \/ Detach(t) \/ Launch(t) \/ StopWait(t)
             \/ ConfigureFails(t) \/ IsolateFails(t)
    BY <2>4 DEF DeviceStarts, DeviceStartFails, DeviceStop, DeviceClose, ClosePrune, DeviceReset,
                setup_attached_port, Detach, Launch, StopWait, ConfigureFails, IsolateFails
  <2> QED
    BY <2>1, <2>2, <2>3, <2>4 DEF PortStep, FwdStep
<1> QED
  BY <1>4, <1>5, <1>6, <1>8, <1>10, <1>11, <1>12

\* A step of quit that takes a port from what is to be done to it does the next thing to it.
LEMMA QuitGoesOn ==
    ASSUME Basics, QuitInv, ~overlapped, NEW q, NEW r, q = todo["cli"], r = todo'["cli"],
           q \in Seq(Steps), q # << >>, Rest(q, r), Leaves(q), valid' \subseteq valid,
           test_done' \/ r[1].op \in {"stop", "wait"},
           \A p \in valid' : status'[p] = "STARTED" =>
              /\ status[p] = "STARTED"
              /\ q[1] = Step("stop_port", p) \/ q[1] = Step("stop_claim", p) => r[1] = Step("stop_claim", p),
           \A p \in valid' : dev'[p].state # "started" =>
              /\ dev[p].state # "started" \/ q[1].op = "dev_stop"
              /\ q[1] = Step("close_port", p) \/ q[1] = Step("dev_close", p) => r[1] = Step("dev_close", p)
    PROVE  QuitInv'
<1>1. /\ StopsFirst(q)
      /\ q[1].op \in {"stop", "wait"} \/ test_done
      /\ \A p \in valid : status[p] = "STARTED" => Ahead(q, "stop_port", p) \/ q[1] = Step("stop_claim", p)
      /\ \A p \in valid :
            dev[p].state # "started" => Ahead(q, "close_port", p) \/ q[1] = Step("dev_close", p)
      /\ Stops(q) => \A p \in Ports : Ahead(q, "close_port", p)
  BY DEF QuitInv
<1>2. StopsFirst(r)
  BY <1>1, RestAhead
<1>3. \A o, p : o # "prune" /\ q[1] # Step(o, p) /\ Ahead(q, o, p) => Ahead(r, o, p)
  BY RestAhead
<1>4. valid \subseteq Ports
  BY DEF Basics, PortTypes
<1>5. 1 \in 1 .. Len(q)
  OBVIOUS
<1>6. ASSUME NEW p \in valid', status'[p] = "STARTED"
      PROVE  Ahead(r, "stop_port", p) \/ r[1] = Step("stop_claim", p)
  <2>1. Ahead(q, "stop_port", p) \/ q[1] = Step("stop_claim", p)
    BY <1>1, <1>6
  <2>2. q[1] = Step("stop_port", p) \/ q[1] = Step("stop_claim", p) => r[1] = Step("stop_claim", p)
    BY <1>6
  <2> QED
    BY <1>3, <2>1, <2>2
<1>7. ASSUME NEW p \in Ports, q[1].op \in Stopping
      PROVE  Ahead(r, "close_port", p)
  <2>1. Ahead(q, "close_port", p)
    BY <1>1, <1>5, <1>7 DEF Stops
  <2>2. q[1] # Step("close_port", p)
    BY <1>7 DEF Step, Stopping
  <2> QED
    BY <1>3, <2>1, <2>2
<1>8. ASSUME NEW p \in valid', dev'[p].state # "started"
      PROVE  Ahead(r, "close_port", p) \/ r[1] = Step("dev_close", p)
  <2>1. CASE q[1].op = "dev_stop"
    BY <1>4, <1>7, <2>1 DEF Stopping
  <2>2. CASE dev[p].state # "started"
    <3>1. Ahead(q, "close_port", p) \/ q[1] = Step("dev_close", p)
      BY <1>1, <1>8, <2>2
    <3>2. q[1] = Step("close_port", p) \/ q[1] = Step("dev_close", p) => r[1] = Step("dev_close", p)
      BY <1>8
    <3> QED
      BY <1>3, <3>1, <3>2
  <2> QED
    BY <1>8, <2>1, <2>2
<1>9. Stops(r) => \A p \in Ports : Ahead(r, "close_port", p)
  <2>1. Stops(r) => q[1].op \in Stopping
    BY <1>1, RestAhead
  <2> QED
    BY <1>7, <2>1
<1> HIDE DEF Rest
<1> QED
  BY <1>2, <1>6, <1>8, <1>9 DEF QuitInv, Ports

\* What happens while quit is at work: the thread that quits is the only one with something to do.
LEMMA QuitSteps ==
    ASSUME Basics, ~overlapped, NEW t \in Threads, PortStep(t) \/ FwdStep(t), Leaves(todo'["cli"])
    PROVE  /\ t = "cli" /\ todo["cli"] \in Seq(Steps) /\ todo["cli"] # << >> /\ Leaves(todo["cli"])
           /\ todo["cli"][1] \in Steps /\ todo["cli"][1].op \in Leaving
           /\ \A o : At(t, o) <=> todo["cli"][1].op = o
           /\ Port(t) = todo["cli"][1].port
           /\ \/ StopTell(t) \/ StopWait(t)
              \/ StopCheck(t) \/ StopClaim(t) \/ DeviceStop(t)
              \/ CloseCheck(t) \/ CloseInvalid(t) \/ DeviceClose(t) \/ ClosePrune(t)
<1>0. "cli" \in Threads
  BY DEF Threads
<1>1. Moves(t)
  BY StepShaped
<1>2. todo \in [Threads -> Seq(Steps)]
  BY DEF Basics, Shaped
<1>3. t = "cli"
  <2> SUFFICES ASSUME t # "cli"
               PROVE  FALSE
    OBVIOUS
  <2>1. todo["cli"] = << >> /\ todo'["cli"] = todo["cli"]
    BY <1>0, <1>1 DEF Moves, Basics, Alone
  <2> QED
    BY <2>1 DEF Leaves
<1>4. todo["cli"] # << >> /\ Leaves(todo["cli"])
  BY <1>1, <1>3, NoNewExit DEF Moves
<1>5. /\ todo["cli"][1] \in Steps /\ Port(t) = todo["cli"][1].port /\ 1 \in 1 .. Len(todo["cli"])
      /\ \A o : At(t, o) <=> todo["cli"][1].op = o
  BY <1>0, <1>3, <1>4, AtHead
<1>6. todo["cli"][1].op \in Leaving
  BY <1>0, <1>4, <1>5 DEF Basics, Shaped, Shape, Leaves
<1>7. \A o : At(t, o) => o \in Leaving
  BY <1>5, <1>6
<1>8. {"start_port", "configure", "dev_start", "reset_port", "reset_all", "reset_device", "attach", "setup",
       "save_device", "detach", "start", "set_up", "launch"} \cap Leaving = {}
  BY DEF Leaving
<1>9. \/ StopTell(t) \/ StopWait(t)
      \/ StopCheck(t) \/ StopClaim(t) \/ DeviceStop(t)
      \/ CloseCheck(t) \/ CloseInvalid(t) \/ DeviceClose(t) \/ ClosePrune(t)
  <2> SUFFICES ASSUME \/ StartClaim(t) \/ ConfigureFails(t) \/ IsolateFails(t) \/ Configure(t)
                      \/ DeviceStarts(t) \/ DeviceStartFails(t) \/ ResetCheck(t) \/ DeviceReset(t)
                      \/ Probe(t) \/ ProbeAgain(t) \/ setup_attached_port(t) \/ SaveDevice(t) \/ Detach(t)
                      \/ StartCheck(t) \/ StartSetUp(t) \/ Launch(t)
               PROVE  FALSE
    BY DEF PortStep, FwdStep
  <2>1. \E o \in {"start_port", "configure", "dev_start", "reset_port", "reset_all", "reset_device", "attach", "setup",
                  "save_device", "detach", "start", "set_up", "launch"} : At(t, o)
    BY DEF StartClaim, ConfigureFails, IsolateFails, Configure, DeviceStarts, DeviceStartFails, ResetCheck, DeviceReset,
           Probe, ProbeAgain, setup_attached_port, SaveDevice, Detach, StartCheck, StartSetUp, Launch
  <2> QED
    BY <1>7, <1>8, <2>1
<1> QED
  BY <1>0, <1>2, <1>3, <1>4, <1>5, <1>6, <1>9

LEMMA BusyKeepsQuit ==
    ASSUME Basics, QuitInv, NEW t \in Threads, PortStep(t) \/ FwdStep(t)
    PROVE  QuitInv'
<1> SUFFICES ASSUME ~overlapped', Leaves(todo'["cli"])
             PROVE  QuitInv'
  BY DEF QuitInv
<1>1. ~overlapped
  BY StepShaped DEF Moves
<1>2. PICK q : q = todo["cli"]
  OBVIOUS
<1>3. PICK r : r = todo'["cli"]
  OBVIOUS
<1>4. PICK p : p = Port(t)
  OBVIOUS
<1>5. /\ t = "cli" /\ q \in Seq(Steps) /\ q # << >> /\ Leaves(q)
      /\ q[1] \in Steps /\ q[1].op \in Leaving
      /\ \A o : At(t, o) <=> q[1].op = o
      /\ p = q[1].port
      /\ \/ StopTell(t) \/ StopWait(t)
         \/ StopCheck(t) \/ StopClaim(t) \/ DeviceStop(t)
         \/ CloseCheck(t) \/ CloseInvalid(t) \/ DeviceClose(t) \/ ClosePrune(t)
  BY <1>1, <1>2, <1>4, QuitSteps
<1>6. /\ todo \in [Threads -> Seq(Steps)] /\ "cli" \in Threads /\ p \in Ports /\ 0 \in Ports
      /\ status \in [Ports -> Statuses]
      /\ dev \in [Ports -> [id : Ports, state : DevStates, rxq : Nat, txq : Nat]]
      /\ valid \subseteq Ports
  BY <1>2, <1>4, <1>5, AtHead, ZeroPort DEF Basics, Shaped, PortTypes, Threads
<1>7. Return(t) => r = Tail(q)
  BY <1>2, <1>3, <1>5, <1>6 DEF Return
<1>8. \A b : Then(t, b) => r = b \o Tail(q)
  BY <1>2, <1>3, <1>5, <1>6 DEF Then
<1>9. q[1].op \in {"stop", "wait"} \/ test_done
  BY <1>1, <1>2, <1>5 DEF QuitInv
<1>10. Shape(q, "cli", Devices)
  BY <1>2, <1>6 DEF Basics, Shaped
<1>11. \A o, x : q[1] = Step(o, x) => q[1].op = o /\ x = p
  BY <1>5 DEF Step
<1>12. \A o \in Ops : Step(o, p) \in Steps /\ Step(o, p).op = o /\ Step(o, p).port = p
  BY <1>6, StepTyped
\* The rest behind one step that takes the place of the one it is at
<1>13. ASSUME NEW o \in Ops, NEW x \in Ports, o # "exit", o \in Stopping <=> q[1].op \in Stopping, Then(t, <<Step(o, x)>>)
       PROVE  Rest(q, r) /\ r[1] = Step(o, x)
  <2>1. PICK s : s = Step(o, x)
    OBVIOUS
  <2>2. s \in Steps /\ s.op = o
    BY <2>1, StepTyped
  <2>3. r = <<s>> \o Tail(q)
    BY <1>8, <1>13, <2>1
  <2>4. Rest(q, r)
    BY <1>13, <2>2, <2>3 DEF Rest
  <2>5. r[1] = s
    <3> DEFINE a == <<s>>
               b == Tail(q)
    <3>1. a \in Seq(Steps) /\ b \in Seq(Steps) /\ Len(a) = 1 /\ a[1] = s
      BY <1>5, <2>2
    <3>2. r = a \o b
      BY <2>3
    <3> HIDE DEF a, b
    <3>3. a \in Seq(Steps) /\ b \in Seq(Steps)
      BY <3>1
    <3>4. \A i \in 1 .. Len(a) : (a \o b)[i] = a[i]
      BY <3>3, Joined
    <3>5. 1 \in 1 .. Len(a)
      BY <3>1
    <3> QED
      BY <3>1, <3>2, <3>4, <3>5
  <2> QED
    BY <2>1, <2>4, <2>5
<1>14. Return(t) => Rest(q, r)
  BY <1>7 DEF Rest
<1>15. CASE StopTell(t)
  <2>1. q[1].op = "stop" /\ UNCHANGED <<valid, status, dev, test_done>>
    BY <1>5, <1>15 DEF StopTell, OutsideFwd, portVars
  <2>2. (test_done /\ Return(t)) \/ Then(t, <<Step("wait", 0)>>)
    BY <1>15 DEF StopTell
  <2>3. Rest(q, r) /\ (test_done' \/ r[1].op \in {"stop", "wait"})
    <3>1. "wait" \in Ops
      BY DEF Ops, Leaving
    <3>2. Step("wait", 0).op = "wait"
      BY DEF Step
    <3> QED
      BY <1>6, <1>13, <1>14, <2>1, <2>2, <3>1, <3>2 DEF Stopping
  <2>4. \A x : /\ q[1] # Step("stop_port", x) /\ q[1] # Step("stop_claim", x)
               /\ q[1] # Step("close_port", x) /\ q[1] # Step("dev_close", x)
    BY <1>11, <2>1
  <2> HIDE DEF Rest
  <2> QED
    BY <1>1, <1>2, <1>3, <1>5, <2>1, <2>3, <2>4, QuitGoesOn
<1>16. CASE StopWait(t)
  <2>1. q[1].op = "wait" /\ UNCHANGED <<valid, status, dev>> /\ test_done' /\ Rest(q, r)
    BY <1>5, <1>14, <1>16 DEF StopWait, OutsideFwd, portVars
  <2>4. \A x : /\ q[1] # Step("stop_port", x) /\ q[1] # Step("stop_claim", x)
               /\ q[1] # Step("close_port", x) /\ q[1] # Step("dev_close", x)
    BY <1>11, <2>1
  <2> HIDE DEF Rest
  <2> QED
    BY <1>1, <1>2, <1>3, <1>5, <2>1, <2>4, QuitGoesOn
<1>17. CASE StopCheck(t)
  <2>1. q[1].op = "stop_port" /\ UNCHANGED <<valid, status, dev, test_done>>
    BY <1>5, <1>17 DEF StopCheck, OutsidePorts, portVars, fwdVars
  <2>2. test_done
    BY <1>9, <2>1
  <2>3. (p \notin valid /\ Return(t)) \/ Then(t, <<Step("stop_claim", p)>>)
    BY <1>4, <1>17, <2>2 DEF StopCheck, Spared
  <2>4. Rest(q, r) /\ (p \notin valid \/ r[1] = Step("stop_claim", p))
    <3>1. "stop_claim" \in Ops
      BY DEF Ops, Leaving
    <3> QED
      BY <1>6, <1>13, <1>14, <2>1, <2>3, <3>1 DEF Stopping
  <2>5. \A x : /\ q[1] = Step("stop_port", x) => x = p
               /\ q[1] # Step("stop_claim", x) /\ q[1] # Step("close_port", x) /\ q[1] # Step("dev_close", x)
    BY <1>11, <2>1
  <2> HIDE DEF Rest
  <2> QED
    BY <1>1, <1>2, <1>3, <1>5, <2>1, <2>2, <2>4, <2>5, QuitGoesOn
<1>18. CASE StopClaim(t)
  <2>1. q[1].op = "stop_claim" /\ UNCHANGED <<valid, dev, test_done>>
    BY <1>5, <1>18 DEF StopClaim, OutsidePorts, fwdVars
  <2>2. test_done
    BY <1>9, <2>1
  <2>3. \/ status' = [status EXCEPT ![p] = "HANDLING"] /\ Then(t, <<Step("dev_stop", p)>>)
        \/ status[p] # "STARTED" /\ Return(t) /\ UNCHANGED status
    BY <1>4, <1>18 DEF StopClaim
  <2>4. Rest(q, r)
    <3>1. "dev_stop" \in Ops
      BY DEF Ops, Leaving
    <3> QED
      BY <1>6, <1>13, <1>14, <2>1, <2>3, <3>1 DEF Stopping
  <2>5. \A x \in valid : status'[x] = "STARTED" => x # p /\ status[x] = "STARTED"
    BY <1>6, <2>3
  <2>6. \A x : /\ q[1] = Step("stop_claim", x) => x = p
               /\ q[1] # Step("stop_port", x) /\ q[1] # Step("close_port", x) /\ q[1] # Step("dev_close", x)
    BY <1>11, <2>1
  <2> HIDE DEF Rest
  <2> QED
    BY <1>1, <1>2, <1>3, <1>5, <2>1, <2>2, <2>4, <2>5, <2>6, QuitGoesOn
<1>19. CASE DeviceStop(t)
  <2>1. q[1].op = "dev_stop" /\ UNCHANGED <<valid, test_done>> /\ Rest(q, r)
    BY <1>5, <1>14, <1>19 DEF DeviceStop, OutsidePorts, fwdVars
  <2>2. test_done
    BY <1>9, <2>1
  <2>3. status' = Cas(status, p, "HANDLING", "STOPPED")
    BY <1>4, <1>19 DEF DeviceStop
  <2>4. \A x \in valid : status'[x] = "STARTED" => status[x] = "STARTED"
    BY <1>6, <2>3 DEF Cas
  <2>6. \A x : /\ q[1] # Step("stop_port", x) /\ q[1] # Step("stop_claim", x)
               /\ q[1] # Step("close_port", x) /\ q[1] # Step("dev_close", x)
    BY <1>11, <2>1
  <2> HIDE DEF Rest
  <2> QED
    BY <1>1, <1>2, <1>3, <1>5, <2>1, <2>2, <2>4, <2>6, QuitGoesOn
<1>20. CASE CloseCheck(t)
  <2>1. q[1].op = "close_port" /\ p \in valid /\ UNCHANGED <<valid, status, dev, test_done>>
    BY <1>4, <1>5, <1>20 DEF CloseCheck, OutsidePorts, portVars, fwdVars, Leaving
  <2>2. test_done
    BY <1>9, <2>1
  <2>3. Then(t, <<Step("dev_close", p)>>)
    BY <1>4, <1>20, <2>1, <2>2 DEF CloseCheck, Spared, Basics, NoneClosed
  <2>4. Rest(q, r) /\ r[1] = Step("dev_close", p)
    <3>1. "dev_close" \in Ops
      BY DEF Ops, Leaving
    <3> QED
      BY <1>6, <1>13, <2>1, <2>3, <3>1 DEF Stopping
  <2>5. \A x : /\ q[1] = Step("close_port", x) => x = p
               /\ q[1] # Step("stop_claim", x) /\ q[1] # Step("stop_port", x) /\ q[1] # Step("dev_close", x)
    BY <1>11, <2>1
  <2> HIDE DEF Rest
  <2> QED
    BY <1>1, <1>2, <1>3, <1>5, <2>1, <2>2, <2>4, <2>5, QuitGoesOn
<1>21. CASE CloseInvalid(t)
  <2>1. q[1].op = "close_port" /\ p \notin valid /\ UNCHANGED <<valid, status, dev, test_done>>
    BY <1>4, <1>5, <1>21 DEF CloseInvalid, OutsidePorts, portVars, fwdVars
  <2>2. test_done
    BY <1>9, <2>1
  <2>3. r = SubSeq(q, 3, Len(q))
    BY <1>2, <1>3, <1>5, <1>6, <1>21 DEF CloseInvalid
  <2>4. Rest(q, r)
    BY <1>5, <1>10, <2>1, <2>3, ShapeOfEarlyReturn DEF Rest
  <2>5. \A x \in valid : /\ q[1] # Step("stop_port", x) /\ q[1] # Step("stop_claim", x)
                         /\ q[1] # Step("close_port", x) /\ q[1] # Step("dev_close", x)
    BY <1>11, <2>1
  <2> HIDE DEF Rest
  <2> QED
    BY <1>1, <1>2, <1>3, <1>5, <2>1, <2>2, <2>4, <2>5, QuitGoesOn
<1>22. CASE DeviceClose(t)
  <2>1. q[1].op = "dev_close" /\ UNCHANGED test_done /\ Rest(q, r)
    BY <1>5, <1>14, <1>22 DEF DeviceClose, OutsidePorts, fwdVars
  <2>2. test_done
    BY <1>9, <2>1
  <2>3. \/ valid' = valid \ {p} /\ status' = [status EXCEPT ![p] = "CLOSED"] /\ \E f : dev' = [dev EXCEPT ![p] = f]
        \/ (p \in valid => dev[p].state = "started") /\ UNCHANGED <<valid, status, dev>>
    BY <1>4, <1>22 DEF DeviceClose, Gone
  <2>4. \A x \in valid' : /\ x \in valid /\ status'[x] = status[x] /\ dev'[x].state = dev[x].state
                          /\ x = p => dev[x].state = "started"
    BY <1>6, <2>3
  <2>5. \A x : /\ q[1] = Step("dev_close", x) => x = p
               /\ q[1] # Step("stop_claim", x) /\ q[1] # Step("stop_port", x) /\ q[1] # Step("close_port", x)
    BY <1>11, <2>1
  <2>6. valid' \subseteq valid
    BY <2>4
  <2> HIDE DEF Rest
  <2> QED
    BY <1>1, <1>2, <1>3, <1>5, <2>1, <2>2, <2>4, <2>5, <2>6, QuitGoesOn
<1>23. CASE ClosePrune(t)
  <2>1. q[1].op = "prune" /\ UNCHANGED <<valid, status, dev, test_done>> /\ Rest(q, r)
    BY <1>5, <1>14, <1>23 DEF ClosePrune, OutsidePorts, fwdVars
  <2>2. test_done
    BY <1>9, <2>1
  <2>4. \A x : /\ q[1] # Step("stop_port", x) /\ q[1] # Step("stop_claim", x)
               /\ q[1] # Step("close_port", x) /\ q[1] # Step("dev_close", x)
    BY <1>11, <2>1
  <2> HIDE DEF Rest
  <2> QED
    BY <1>1, <1>2, <1>3, <1>5, <2>1, <2>2, <2>4, QuitGoesOn
<1> QED
  BY <1>5, <1>15, <1>16, <1>17, <1>18, <1>19, <1>20, <1>21, <1>22, <1>23

\* Other steps: the calls that begin, the settings, the cores
LEMMA StepKeepsQuit ==
    ASSUME Basics, QuitInv, [Next]_vars
    PROVE  QuitInv'
<1> SUFFICES ASSUME ~overlapped', Leaves(todo'["cli"])
             PROVE  QuitInv'
  BY DEF QuitInv
<1>0. "cli" \in Threads /\ "alarm" \in Threads
  BY DEF Threads
<1>1. CASE Outside \/ CoreStep
  <2>1. UNCHANGED <<valid, status, dev, test_done, todo, overlapped>>
    BY <1>1 DEF Outside, CoreStep, CoreFinish, OutsideFwd, portVars, fwdVars
  <2> QED
    BY <2>1 DEF QuitInv
<1>2. CASE Commands
  <2>1. PICK q \in Seq(Steps) : Calls("cli", q) /\ (cmd_quit \/ \A i \in 1 .. Len(q) : q[i].op # "exit")
    BY <1>2, CommandsCall
  <2>2. todo'["cli"] = q
    BY <1>0, <2>1, CallsAt
  <2>3. cmd_quit
    BY <2>1, <2>2 DEF Leaves
  <2>4. Do("quit", Quitting)
    BY <2>3 DEF cmd_quit, Quitting, Closing
  <2>5. q = Quitting
    <3>1. todo \in [Threads -> Seq(Steps)]
      BY DEF Basics, Shaped
    <3>2. todo'["cli"] = Quitting
      BY <1>0, <2>4, <3>1 DEF Do, Call
    <3> QED
      BY <2>2, <3>2
  <2>6. /\ StopsFirst(q) /\ q[1].op = "stop"
        /\ \A p \in Ports : Ahead(q, "stop_port", p) /\ Ahead(q, "close_port", p)
    BY <2>5, ShapeOfQuitting DEF Ahead
  <2>7. valid' \subseteq Ports
    BY <2>1 DEF Calls, portVars, Basics, PortTypes
  <2> QED
    BY <2>2, <2>6, <2>7 DEF QuitInv, Ports
<1>3. CASE Setting
  <2>1. todo'["cli"] = << >>
    BY <1>0, <1>3, SettingAt
  <2> QED
    BY <2>1 DEF Leaves
<1>4. CASE rmv_port_callback
  <2>1. CASE \E q \in Seq(Steps) : Calls("alarm", q)
    <3>1. PICK q \in Seq(Steps) : Calls("alarm", q)
      BY <2>1
    <3>2. todo'["cli"] = << >>
      BY <1>0, <3>1, CallsAt
    <3> QED
      BY <3>2 DEF Leaves
  <2> QED
    BY <1>1, <1>4, <2>1, CallbackCalls DEF Outside
<1>5. ASSUME NEW t \in Threads, PortStep(t) \/ FwdStep(t)
      PROVE  QuitInv'
  BY <1>5, BusyKeepsQuit
<1>6. CASE Removal
  BY <1>1, <1>6 DEF Removal, Outside
<1>7. CASE UNCHANGED vars
  BY <1>1, <1>7 DEF vars, Outside, portVars, fwdVars
<1> QED
  BY <1>1, <1>2, <1>3, <1>4, <1>5, <1>6, <1>7 DEF Next, Commands, Setting

LEMMA QuitHolds == Spec => [](Basics /\ QuitInv)
<1>1. Init => QuitInv
  BY DEF Init, QuitInv, Leaves, Threads
<1>2. Basics /\ QuitInv /\ [Next]_vars => Basics' /\ QuitInv'
  BY StepKeepsBasics, StepKeepsQuit
<1> QED
  BY <1>1, <1>2, InitBasics, PTL DEF Spec

\* When quit is about to exit, no core runs and every port is closed but for devices that would
\* not stop, whatever was forwarding, half started or removed when quit was given.
THEOREM QuitIsClean == Spec => []QuitLeavesNothing
<1>1. Basics /\ CoresInv /\ QuitInv => QuitLeavesNothing
  <2> SUFFICES ASSUME Basics, CoresInv, QuitInv, At("cli", "exit"), ~overlapped
               PROVE  /\ \A lc \in Lcores : ~Running(lc)
                      /\ \A p \in valid : dev[p].state = "started" /\ status[p] \in {"STOPPED", "HANDLING"}
    BY DEF QuitLeavesNothing, Undisturbed
  <2>1. PICK q : q = todo["cli"]
    OBVIOUS
  <2>2. q \in Seq(Steps) /\ 1 \in 1 .. Len(q) /\ q[1].op = "exit"
    BY <2>1, AtHead DEF At, Threads
  <2>3. 1 = Len(q)
    BY <2>1, <2>2 DEF Basics, Shaped, Shape, Threads
  <2>4. \A o, p : o # "exit" => ~Ahead(q, o, p) /\ q[1] # Step(o, p)
    <3>0. \A i \in 1 .. 1 : i = 1
      OBVIOUS
    <3>1. \A i \in 1 .. Len(q) : i = 1
      BY <2>3, <3>0, Zenon
    <3>2. \A i \in 1 .. Len(q) : q[i].op = "exit"
      BY <2>2, <3>1
    <3>3. \A o, p : Step(o, p).op = o
      BY DEF Step
    <3> QED
      BY <2>2, <3>2, <3>3 DEF Ahead
  <2>5. Leaves(q)
    BY <2>2 DEF Leaves
  <2>6. test_done
    BY <2>1, <2>2, <2>5 DEF QuitInv
  <2>7. \A lc \in Lcores : ~Running(lc)
    BY <2>6 DEF CoresInv, StartStop
  <2>8. \A p \in valid : status[p] # "STARTED" /\ dev[p].state = "started"
    BY <2>1, <2>4, <2>5 DEF QuitInv
  <2>9. \A p \in valid : status[p] \in Statuses /\ status[p] # "CLOSED"
    BY DEF Basics, PortTypes, NoneClosed
  <2> QED
    BY <2>7, <2>8, <2>9 DEF Statuses
<1> QED
  BY <1>1, CoresHold, QuitHolds, PTL

-----------------------------------------------------------------------------
(* What streams each setup describes, and that no two of them share a      *)
(* queue.                                                                  *)

SimpleStream(c, sm) ==
    [rx_port |-> c.fwd[sm + 1], rx_queue |-> 0,
     tx_port |-> c.fwd[TopologyTxPort(c.topology, Len(c.fwd), sm) + 1], tx_queue |-> 0]
RssStream(c, sm) ==
    [rx_port |-> c.fwd[(sm % Len(c.fwd)) + 1], rx_queue |-> sm \div Len(c.fwd),
     tx_port |-> c.fwd[TopologyTxPort(c.topology, Len(c.fwd), sm % Len(c.fwd)) + 1], tx_queue |-> sm \div Len(c.fwd)]
EchoStream(c, sm) ==
    [rx_port |-> c.fwd[(sm \div c.rxq) + 1], rx_queue |-> sm % c.rxq,
     tx_port |-> c.fwd[(sm \div c.rxq) + 1], tx_queue |-> sm % c.rxq]

FilePort(c, sm) == IF sm + 1 \in DOMAIN c.streams_port THEN c.streams_port[sm + 1] ELSE 0
FileQueue(c, sm) == Cardinality({i \in 0 .. sm - 1 : FilePort(c, i) = FilePort(c, sm)})
FileStream(c, sm) ==
    [rx_port |-> FilePort(c, sm), rx_queue |-> FileQueue(c, sm),
     tx_port |-> FilePort(c, sm), tx_queue |-> FileQueue(c, sm)]

TheStream(c, sm) ==
    CASE c.eng = "icmpecho" -> EchoStream(c, sm)
      [] c.eng # "icmpecho" /\ c.split -> FileStream(c, sm)
      [] c.eng # "icmpecho" /\ ~c.split /\ c.rxq > 1 /\ c.txq > 1 -> RssStream(c, sm)
      [] OTHER -> SimpleStream(c, sm)

LEMMA ConfigStreams ==
    ASSUME NEW c, ConfTyped(c), NEW t, TableTyped(t),
           NEW sm \in 0 .. NbStreams(c, t) - 1, sm \in DOMAIN FwdConfigSetup(c, t).streams
    PROVE  FwdConfigSetup(c, t).streams[sm] = TheStream(c, sm)
<1>1. "streams" \in DOMAIN t /\ c.split \in BOOLEAN
  BY DEF TableTyped, ConfTyped
<1>2. ASSUME NEW l, NEW n, NEW s, NEW r, r = Describe(Setup(c, t, l, n), s), sm \in DOMAIN s, sm \in DOMAIN r.streams
      PROVE  r.streams[sm] = s[sm]
  BY <1>1, <1>2, DescribedStreams
<1>3. CASE c.eng = "icmpecho"
  <2>1. FwdConfigSetup(c, t) = IcmpEchoSetup(c, t) /\ NbStreams(c, t) = c.rxq * Len(c.fwd) /\ TheStream(c, sm) = EchoStream(c, sm)
    BY <1>3 DEF FwdConfigSetup, NbStreams, TheStream
  <2> DEFINE n == c.rxq * Len(c.fwd)
             l == Min({c.lcores, c.txq * Len(c.fwd), n})
             s == [k \in 0 .. n - 1 |-> EchoStream(c, k)]
  <2>2. IcmpEchoSetup(c, t) = Describe(Setup(c, t, l, n), s)
    BY DEF IcmpEchoSetup, EchoStream
  <2>3. sm \in DOMAIN s /\ s[sm] = EchoStream(c, sm)
    BY <2>1
  <2> HIDE DEF n, l, s
  <2>4. FwdConfigSetup(c, t).streams[sm] = s[sm]
    BY <1>2, <2>1, <2>2, <2>3
  <2> QED
    BY <2>1, <2>3, <2>4
<1>4. CASE c.eng # "icmpecho" /\ c.split
  <2>1. FwdConfigSetup(c, t) = StreamsSetup(c, t) /\ TheStream(c, sm) = FileStream(c, sm)
    BY <1>4 DEF FwdConfigSetup, TheStream
  <2> DEFINE n == Cardinality(DOMAIN t.streams)
             l == Min({c.lcores, n})
             made == Setup(c, t, l, n)
             s == [k \in DOMAIN made.streams |-> FileStream(c, k)]
  <2>2. StreamsSetup(c, t) = Describe(made, s)
    BY DEF StreamsSetup, FileStream, FilePort, FileQueue
  <2>3. DOMAIN Describe(made, s).streams = DOMAIN made.streams
    <3> DEFINE S == [k \in DOMAIN made.streams |-> IF k \in DOMAIN s THEN s[k] ELSE made.streams[k]]
    <3>1. "streams" \in DOMAIN made
      <4>1. DOMAIN SetCur(c, t, l, n) = DOMAIN t
        BY DEF SetCur
      <4>2. \A u : DOMAIN InitStreams(c, u) = DOMAIN u
        BY DEF InitStreams
      <4>3. \A u : DOMAIN SetupEachLcore(u) = DOMAIN u
        BY DEF SetupEachLcore
      <4> QED
        BY <1>1, <4>1, <4>2, <4>3 DEF Setup
    <3>2. DOMAIN S = DOMAIN made.streams
      OBVIOUS
    <3> HIDE DEF made, s, S
    <3>3. Describe(made, s) = [made EXCEPT !.streams = S]
      BY DEF Describe, S
    <3> QED
      BY <3>1, <3>2, <3>3
  <2>4. sm \in DOMAIN s /\ s[sm] = FileStream(c, sm)
    BY <2>1, <2>2, <2>3
  <2>5. StreamsSetup(c, t) = Describe(Setup(c, t, l, n), s)
    BY <2>2
  <2> HIDE DEF n, l, s, made
  <2>6. FwdConfigSetup(c, t).streams[sm] = s[sm]
    BY <1>2, <2>1, <2>4, <2>5
  <2> QED
    BY <2>1, <2>4, <2>6
<1>5. CASE c.eng # "icmpecho" /\ ~c.split /\ c.rxq > 1 /\ c.txq > 1
  <2>1. /\ FwdConfigSetup(c, t) = RssSetup(c, t) /\ NbStreams(c, t) = Min({c.rxq, c.txq}) * Len(c.fwd)
        /\ TheStream(c, sm) = RssStream(c, sm)
    BY <1>5 DEF FwdConfigSetup, NbStreams, TheStream
  <2> DEFINE n == Min({c.rxq, c.txq}) * Len(c.fwd)
             l == Min({c.lcores, n})
             s == [k \in 0 .. n - 1 |-> RssStream(c, k)]
  <2>2. RssSetup(c, t) = Describe(Setup(c, t, l, n), s)
    BY DEF RssSetup, RssStream
  <2>3. sm \in DOMAIN s /\ s[sm] = RssStream(c, sm)
    BY <2>1
  <2> HIDE DEF n, l, s
  <2>4. FwdConfigSetup(c, t).streams[sm] = s[sm]
    BY <1>2, <2>1, <2>2, <2>3
  <2> QED
    BY <2>1, <2>3, <2>4
<1>6. CASE c.eng # "icmpecho" /\ ~c.split /\ ~(c.rxq > 1 /\ c.txq > 1)
  <2>1. /\ FwdConfigSetup(c, t) = SimpleSetup(c, t) /\ NbStreams(c, t) = Len(c.fwd)
        /\ TheStream(c, sm) = SimpleStream(c, sm)
    BY <1>6 DEF FwdConfigSetup, NbStreams, TheStream
  <2> DEFINE n == Len(c.fwd)
             l == Min({c.lcores, n})
             s == [k \in 0 .. n - 1 |-> SimpleStream(c, k)]
  <2>2. SimpleSetup(c, t) = Describe(Setup(c, t, l, n), s)
    BY DEF SimpleSetup, SimpleStream
  <2>3. sm \in DOMAIN s /\ s[sm] = SimpleStream(c, sm)
    BY <2>1
  <2> HIDE DEF n, l, s
  <2>4. FwdConfigSetup(c, t).streams[sm] = s[sm]
    BY <1>2, <2>1, <2>2, <2>3
  <2> QED
    BY <2>1, <2>3, <2>4
<1> QED
  BY <1>1, <1>3, <1>4, <1>5, <1>6

Distinct(t) ==
    \A sm1, sm2 \in 0 .. t.cur.nb_fwd_streams - 1 :
        sm1 # sm2 /\ sm1 \in DOMAIN t.streams /\ sm2 \in DOMAIN t.streams =>
            /\ RxQueueOf(t.streams[sm1]) # RxQueueOf(t.streams[sm2])
            /\ TxQueueOf(t.streams[sm1]) # TxQueueOf(t.streams[sm2])

\* The queue of a port that is given out next is one that was not given out.
LEMMA FileQueuesGrow ==
    ASSUME NEW c, NEW sm1 \in Nat, NEW sm2 \in Nat, sm1 < sm2, FilePort(c, sm1) = FilePort(c, sm2)
    PROVE  /\ FileQueue(c, sm1) \in Nat /\ FileQueue(c, sm2) \in Nat
           /\ FileQueue(c, sm1) < FileQueue(c, sm2)
<1> DEFINE P(i) == FilePort(c, i)
           A == {i \in 0 .. sm1 - 1 : P(i) = P(sm1)}
           B == {i \in 0 .. sm2 - 1 : P(i) = P(sm2)}
<1>1. A \subseteq B /\ sm1 \in B /\ sm1 \notin A
  <2>1. P(sm1) = P(sm2)
    OBVIOUS
  <2> HIDE DEF P
  <2> QED
    BY <2>1
<1>2. FileQueue(c, sm1) = Cardinality(A) /\ FileQueue(c, sm2) = Cardinality(B)
  BY DEF FileQueue
<1>3. B \subseteq 0 .. sm2 - 1
  OBVIOUS
<1> HIDE DEF A, B, P
<1>4. IsFiniteSet(0 .. sm2 - 1)
  BY FS_Interval
<1>5. IsFiniteSet(B)
  BY <1>3, <1>4, FS_Subset
<1>6. IsFiniteSet(A)
  BY <1>1, <1>5, FS_Subset
<1>7. Cardinality(A) \in Nat /\ Cardinality(B) \in Nat
  BY <1>5, <1>6, FS_CardinalityType
<1>8. A # B
  BY <1>1
<1>9. Cardinality(A) < Cardinality(B)
  <2>1. Cardinality(A) <= Cardinality(B) /\ (Cardinality(B) = Cardinality(A) => B = A)
    BY <1>1, <1>5, FS_Subset
  <2> QED
    BY <1>7, <1>8, <2>1
<1> QED
  BY <1>2, <1>7, <1>9

\* Place and queue of a stream of icmpecho give it back.
LEMMA EchoPlaces ==
    ASSUME NEW n \in Nat, NEW q \in Nat \ {0}, NEW sm \in 0 .. q * n - 1
    PROVE  /\ sm \div q \in 0 .. n - 1 /\ sm % q \in 0 .. q - 1
           /\ sm = q * (sm \div q) + (sm % q)
<1>1. sm \in Nat
  OBVIOUS
<1>2. sm \div q \in Nat /\ sm % q \in 0 .. q - 1 /\ sm = q * (sm \div q) + (sm % q)
  BY <1>1, Division
<1> DEFINE d == sm \div q
<1>3. d \in Nat /\ q * d <= sm /\ sm < q * n /\ q * d \in Nat /\ q * n \in Nat
  BY <1>1, <1>2
<1> HIDE DEF d
<1>4. d < n
  <2> SUFFICES ASSUME d >= n
               PROVE  FALSE
    BY <1>3
  <2>1. q * d >= q * n
    BY <1>3, SMTT(30)
  <2> QED
    BY <1>3, <2>1
<1>5. d \in 0 .. n - 1
  BY <1>3, <1>4
<1> QED
  BY <1>2, <1>5 DEF d

\* fwd_config_setup() makes no two streams that are served share a queue.
LEMMA ConfigDistinct ==
    ASSUME NEW c, ConfTyped(c), NEW t, TableTyped(t), \A i, j \in 1 .. Len(c.fwd) : i # j => c.fwd[i] # c.fwd[j]
    PROVE  Distinct(FwdConfigSetup(c, t))
<1> DEFINE r == FwdConfigSetup(c, t)
           n == NbStreams(c, t)
<1>1. r.cur.nb_fwd_streams = n /\ "streams" \in DOMAIN t
  BY ConfigTyped DEF TableTyped
<1> SUFFICES ASSUME NEW sm1 \in 0 .. n - 1, NEW sm2 \in 0 .. n - 1, sm1 # sm2, sm1 \in DOMAIN r.streams, sm2 \in DOMAIN r.streams
             PROVE  RxQueueOf(r.streams[sm1]) # RxQueueOf(r.streams[sm2]) /\ TxQueueOf(r.streams[sm1]) # TxQueueOf(r.streams[sm2])
  BY <1>1 DEF Distinct
<1>2. r.streams[sm1] = TheStream(c, sm1) /\ r.streams[sm2] = TheStream(c, sm2)
  BY ConfigStreams
<1>3. c.split \in BOOLEAN /\ Len(c.fwd) \in Nat /\ c.rxq \in Nat \ {0} /\ c.txq \in Nat \ {0} /\ c.topology \in Topologies
  BY DEF ConfTyped
<1>4. Len(c.fwd) # 0 => Settings(c)
  BY <1>3 DEF Settings
<1>5. sm1 \in Nat /\ sm2 \in Nat /\ n \in Nat
  <2>1. TableTyped(r)
    BY ConfigTyped
  <2> HIDE DEF r, n
  <2>2. n \in Nat
    BY <1>1, <2>1 DEF TableTyped
  <2> QED
    BY <2>2
<1>t. \A p1, q1, p2, q2 : p1 # p2 \/ q1 # q2 => <<p1, q1>> # <<p2, q2>>
  OBVIOUS
<1>6. CASE c.eng = "icmpecho"
  <2>1. n = c.rxq * Len(c.fwd) /\ TheStream(c, sm1) = EchoStream(c, sm1) /\ TheStream(c, sm2) = EchoStream(c, sm2)
    BY <1>6 DEF NbStreams, TheStream
  <2> DEFINE q == c.rxq
             f == c.fwd
             d1 == sm1 \div q
             m1 == sm1 % q
             d2 == sm2 \div q
             m2 == sm2 % q
  <2>2. /\ d1 \in 0 .. Len(f) - 1 /\ sm1 = q * d1 + m1
        /\ d2 \in 0 .. Len(f) - 1 /\ sm2 = q * d2 + m2
    BY <1>3, <2>1, EchoPlaces
  <2>3. d1 # d2 \/ m1 # m2
    BY <2>2
  <2>4. /\ RxQueueOf(EchoStream(c, sm1)) = <<f[d1 + 1], m1>> /\ TxQueueOf(EchoStream(c, sm1)) = <<f[d1 + 1], m1>>
        /\ RxQueueOf(EchoStream(c, sm2)) = <<f[d2 + 1], m2>> /\ TxQueueOf(EchoStream(c, sm2)) = <<f[d2 + 1], m2>>
    BY DEF EchoStream, RxQueueOf, TxQueueOf
  <2> HIDE DEF d1, d2, m1, m2, r, n
  <2>5. d1 # d2 => f[d1 + 1] # f[d2 + 1]
    <3>1. d1 + 1 \in 1 .. Len(f) /\ d2 + 1 \in 1 .. Len(f) /\ (d1 # d2 => d1 + 1 # d2 + 1)
      BY <1>3, <2>2
    <3> QED
      BY <3>1, Zenon
  <2> HIDE DEF q, f
  <2> QED
    BY <1>2, <1>t, <2>1, <2>3, <2>4, <2>5
<1>7. CASE c.eng # "icmpecho" /\ c.split
  <2>1. TheStream(c, sm1) = FileStream(c, sm1) /\ TheStream(c, sm2) = FileStream(c, sm2)
    BY <1>7 DEF TheStream
  <2>2. \A sm : RxQueueOf(FileStream(c, sm)) = <<FilePort(c, sm), FileQueue(c, sm)>> /\ TxQueueOf(FileStream(c, sm)) = <<FilePort(c, sm), FileQueue(c, sm)>>
    BY DEF FileStream, RxQueueOf, TxQueueOf
  <2>3. FilePort(c, sm1) # FilePort(c, sm2) \/ FileQueue(c, sm1) # FileQueue(c, sm2)
    <3> HIDE DEF r, n
    <3>1. CASE sm1 < sm2
      BY <1>5, <3>1, FileQueuesGrow
    <3>2. CASE sm2 < sm1
      BY <1>5, <3>2, FileQueuesGrow
    <3> QED
      BY <1>5, <3>1, <3>2
  <2> HIDE DEF r, n
  <2> QED
    BY <1>2, <1>t, <2>1, <2>2, <2>3
<1>8. CASE c.eng # "icmpecho" /\ ~c.split /\ c.rxq > 1 /\ c.txq > 1
  <2>1. r = RssSetup(c, t) /\ n = Min({c.rxq, c.txq}) * Len(c.fwd)
    BY <1>8 DEF FwdConfigSetup, NbStreams
  <2>2. Min({c.rxq, c.txq}) \in Nat
    BY <1>3, MinOfTwo
  <2> DEFINE m == Min({c.rxq, c.txq})
  <2>3. Len(c.fwd) # 0
    <3>1. n = m * Len(c.fwd)
      BY <2>1
    <3> HIDE DEF n, m, r
    <3>2. Len(c.fwd) = 0 => n = m * 0
      BY <3>1
    <3>3. m * 0 = 0
      BY <2>2 DEF m
    <3> QED
      BY <1>5, <3>2, <3>3
  <2>4. sm1 \in 0 .. m * Len(c.fwd) - 1 /\ sm2 \in 0 .. m * Len(c.fwd) - 1 /\ {sm1, sm2} \subseteq DOMAIN RssSetup(c, t).streams
    BY <2>1
  <2> QED
    BY <1>1, <1>4, <2>1, <2>2, <2>3, <2>4, RssStreamsDiffer
<1>9. CASE c.eng # "icmpecho" /\ ~c.split /\ ~(c.rxq > 1 /\ c.txq > 1)
  <2>1. r = SimpleSetup(c, t) /\ n = Len(c.fwd)
    BY <1>9 DEF FwdConfigSetup, NbStreams
  <2>2. Len(c.fwd) # 0
    BY <1>5, <2>1
  <2> QED
    BY <1>1, <1>4, <2>1, <2>2, SimpleStreamsDiffer
<1> QED
  BY <1>3, <1>6, <1>7, <1>8, <1>9

-----------------------------------------------------------------------------
(* As long as no calls overlap the configuration in force shares no queue, *)
(* and the cores that run serve different streams of it.                   *)

TableInv == ~overlapped => Distinct(table)

\* That calls overlapped is not forgotten.
LEMMA OverlapStays ==
    ASSUME Basics, [Next]_vars
    PROVE  overlapped => overlapped'
<1>1. CASE Outside \/ Setting \/ CoreStep
  BY <1>1, SettingAt DEF Outside, CoreStep, CoreFinish, OutsideFwd
<1>2. ASSUME NEW t \in Threads, NEW q \in Seq(Steps), Calls(t, q)
      PROVE  overlapped => overlapped'
  BY <1>2, CallsAt
<1>3. ASSUME NEW t \in Threads, PortStep(t) \/ FwdStep(t)
      PROVE  overlapped' = overlapped
  BY <1>3, StepShaped DEF Moves
<1> QED
  BY <1>1, <1>2, <1>3, StepKinds

\* The forwarding ports of the settings are different.
LEMMA PortsDiffer ==
    ASSUME NEW ls \in [ids : Seq(Ports), fwd_ids : Seq(Ports), nb_fwd_ports : Nat], ls.nb_fwd_ports <= Len(ls.fwd_ids),
           IsInjective(ls.fwd_ids)
    PROVE  \A i, j \in 1 .. ls.nb_fwd_ports : i # j => ls.fwd_ids[i] # ls.fwd_ids[j]
<1>1. ls.fwd_ids \in Seq(Ports) /\ ls.nb_fwd_ports \in Nat
  OBVIOUS
<1>2. \A i \in 1 .. ls.nb_fwd_ports : i \in DOMAIN ls.fwd_ids
  BY <1>1
<1> QED
  BY <1>2 DEF IsInjective

LEMMA StepKeepsDistinct ==
    ASSUME Basics, TableTypes, ListsInv, TableInv, [Next]_vars
    PROVE  TableInv'
<1> SUFFICES ASSUME ~overlapped'
             PROVE  Distinct(table')
  BY DEF TableInv, Distinct
<1>1. CASE table' = table
  BY <1>1, OverlapStays DEF TableInv
<1>2. CASE table' # table
  <2>1. Basics' /\ ListsInv'
    BY StepKeepsBasics, StepKeepsLists
  <2>2. PICK ls : ls = lists'
    OBVIOUS
  <2>3. /\ ls \in [ids : Seq(Ports), fwd_ids : Seq(Ports), nb_fwd_ports : Nat] /\ ls.nb_fwd_ports <= Len(ls.fwd_ids)
        /\ IsInjective(ls.fwd_ids)
    BY <2>1, <2>2 DEF Basics, PortTypes, ListsInv
  <2>4. \A i, j \in 1 .. ls.nb_fwd_ports : i # j => ls.fwd_ids[i] # ls.fwd_ids[j]
    BY <2>3, PortsDiffer
  <2>5. PICK c : c = Conf(lists', settings', valid)
    OBVIOUS
  <2>6. /\ ConfTyped(c) /\ Len(c.fwd) = ls.nb_fwd_ports /\ \A i \in 1 .. ls.nb_fwd_ports : c.fwd[i] = ls.fwd_ids[i]
        /\ table' = FwdConfigSetup(c, table)
    BY <1>2, <2>2, <2>5, ReconfigureMakes DEF TableTypes
  <2>7. \A i, j \in 1 .. Len(c.fwd) : i # j => c.fwd[i] # c.fwd[j]
    BY <2>4, <2>6
  <2>8. Distinct(FwdConfigSetup(c, table))
    BY <2>6, <2>7, ConfigDistinct DEF TableTypes
  <2> QED
    BY <2>6, <2>8
<1> QED
  BY <1>1, <1>2

LEMMA InitDistinct == Init => TableInv
<1> SUFFICES ASSUME Init
             PROVE  Distinct(table)
  BY DEF TableInv
<1>1. \A i, j \in 1 .. lists.nb_fwd_ports : i # j => lists.fwd_ids[i] # lists.fwd_ids[j]
  BY InitBasics, InitListsInv, PortsDiffer DEF Basics, PortTypes, ListsInv, Init
<1> DEFINE c == Conf(lists, settings, valid)
<1>2. /\ ConfTyped(c) /\ Len(c.fwd) = lists.nb_fwd_ports
      /\ \A i \in 1 .. lists.nb_fwd_ports : c.fwd[i] = lists.fwd_ids[i]
      /\ \E e : TableTyped(e) /\ table = FwdConfigSetup(c, e)
  BY InitMakes
<1> HIDE DEF c
<1>3. \A i, j \in 1 .. Len(c.fwd) : i # j => c.fwd[i] # c.fwd[j]
  BY <1>1, <1>2
<1> QED
  BY <1>2, <1>3, ConfigDistinct

LEMMA QueuesHold == Spec => [](Basics /\ TableTypes /\ CoresInv /\ ListsInv /\ TableInv)
<1> DEFINE Inv == Basics /\ TableTypes /\ CoresInv /\ ListsInv /\ TableInv
<1>1. Init => Inv
  BY InitBasics, InitTable, InitCores, InitListsInv, InitDistinct
<1>2. Inv /\ [Next]_vars => Inv'
  BY StepKeepsBasics, StepKeepsTable, StepKeepsCores, StepKeepsLists, StepKeepsDistinct
<1> QED
  BY <1>1, <1>2, PTL DEF Spec

\* What a running core serves lies in the configuration in force, and no other core serves it.
LEMMA ServedApart ==
    ASSUME Basics, TableTypes, CoresInv, Undisturbed, NEW lc \in Lcores, Running(lc), NEW sm \in Served(lc)
    PROVE  /\ sm \in 0 .. table.cur.nb_fwd_streams - 1
           /\ \A lc2 \in Lcores : Running(lc2) /\ lc2 # lc => sm \notin Served(lc2)
<1> DEFINE nb_fs == table.cur.nb_fwd_streams
           nb_fc == table.cur.nb_fwd_lcores
           Idx(l) == StreamIdx(nb_fs, nb_fc, l)
           Nb(l) == StreamNb(nb_fs, nb_fc, l)
<1>1. /\ nb_fs \in Nat /\ nb_fc \in Nat /\ nb_fc <= nb_fs
      /\ \A l \in 0 .. nb_fc - 1 : table.lcores[l].stream_idx = Idx(l) /\ table.lcores[l].stream_nb = Nb(l)
  BY StateAssumption DEF TableTypes, TableTyped
<1>2. ASSUME NEW l \in Lcores, Running(l)
      PROVE  l \in 0 .. nb_fc - 1 /\ Served(l) = Idx(l) .. Idx(l) + Nb(l) - 1
  <2>1. l < nb_fc /\ core[l].stream_idx = table.lcores[l].stream_idx /\ core[l].stream_nb = table.lcores[l].stream_nb
    BY <1>2 DEF CoresInv, Serving
  <2>2. l \in 0 .. NbLcores - 1 /\ NbLcores \in Nat
    BY StateAssumption DEF Lcores
  <2>3. l \in 0 .. nb_fc - 1
    <3> HIDE DEF nb_fc
    <3> QED
      BY <1>1, <2>1, <2>2
  <2>4. core[l].stream_idx = Idx(l) /\ core[l].stream_nb = Nb(l)
    <3> HIDE DEF nb_fc, Idx, Nb
    <3> QED
      BY <1>1, <2>1, <2>3
  <2> HIDE DEF nb_fc, nb_fs, Idx, Nb
  <2> QED
    BY <2>3, <2>4 DEF Served
<1>3. ASSUME NEW l \in 0 .. nb_fc - 1
      PROVE  Idx(l) \in Nat /\ Nb(l) \in Nat
  <2>1. nb_fc \in 0 .. NbLcores /\ table.lcores \in [Lcores -> [stream_idx : Nat, stream_nb : Nat]]
    BY DEF TableTypes, TableTyped
  <2>2. table.lcores[l].stream_idx = Idx(l) /\ table.lcores[l].stream_nb = Nb(l)
    BY <1>1, <1>3
  <2> HIDE DEF nb_fc, Idx, Nb
  <2>3. l \in Lcores
    BY <1>3, <2>1, StateAssumption DEF Lcores
  <2>4. table.lcores[l].stream_idx \in Nat /\ table.lcores[l].stream_nb \in Nat
    BY <2>1, <2>3
  <2> QED
    BY <2>2, <2>4
<1>4. nb_fc # 0
  BY <1>1, <1>2
<1> HIDE DEF nb_fs, nb_fc
<1>5. ASSUME NEW l \in 0 .. nb_fc - 1
      PROVE  Idx(l) + Nb(l) <= nb_fs
  BY <1>1, <1>4, IntervalsCover
<1>6. ASSUME NEW l1 \in 0 .. nb_fc - 1, NEW l2 \in 0 .. nb_fc - 1, l1 < l2
      PROVE  Idx(l1) + Nb(l1) <= Idx(l2)
  BY <1>1, <1>4, <1>6, IntervalsInOrder
<1>7. lc \in 0 .. nb_fc - 1 /\ sm \in Idx(lc) .. Idx(lc) + Nb(lc) - 1
  BY <1>2
<1> HIDE DEF Idx, Nb
<1>8. sm \in 0 .. nb_fs - 1
  <2>1. Idx(lc) \in Nat /\ Nb(lc) \in Nat /\ Idx(lc) + Nb(lc) <= nb_fs
    BY <1>3, <1>5, <1>7
  <2> QED
    BY <1>1, <1>7, <2>1
<1>9. ASSUME NEW lc2 \in Lcores, Running(lc2), lc2 # lc, sm \in Served(lc2)
      PROVE  FALSE
  <2>1. lc2 \in 0 .. nb_fc - 1 /\ sm \in Idx(lc2) .. Idx(lc2) + Nb(lc2) - 1
    BY <1>2, <1>9
  <2>2. Idx(lc) \in Nat /\ Nb(lc) \in Nat /\ Idx(lc2) \in Nat /\ Nb(lc2) \in Nat
    BY <1>3, <1>7, <2>1
  <2>3. CASE lc < lc2
    <3>1. Idx(lc) + Nb(lc) <= Idx(lc2)
      BY <1>6, <1>7, <2>1, <2>3
    <3> QED
      BY <1>7, <2>1, <2>2, <3>1
  <2>4. CASE lc2 < lc
    <3>1. Idx(lc2) + Nb(lc2) <= Idx(lc)
      BY <1>6, <1>7, <2>1, <2>4
    <3> QED
      BY <1>7, <2>1, <2>2, <3>1
  <2> QED
    BY <1>1, <1>7, <1>9, <2>1, <2>3, <2>4
<1> QED
  BY <1>8, <1>9 DEF nb_fs

\* No two running cores poll one receive queue or fill one transmit queue, in every setup and on
\* every number of cores, unless a setup ran under the cores or calls overlapped.
THEOREM NoQueueIsShared == Spec => []QueuesNotShared
<1>1. Basics /\ TableTypes /\ CoresInv /\ ListsInv /\ TableInv => QueuesNotShared
  <2> SUFFICES ASSUME Basics, TableTypes, CoresInv, TableInv, Undisturbed,
                      NEW lc1 \in Lcores, NEW lc2 \in Lcores, Running(lc1), Running(lc2), lc1 # lc2,
                      NEW sm1 \in Served(lc1), NEW sm2 \in Served(lc2), sm1 \in DOMAIN table.streams, sm2 \in DOMAIN table.streams
               PROVE  /\ RxQueueOf(table.streams[sm1]) # RxQueueOf(table.streams[sm2])
                      /\ TxQueueOf(table.streams[sm1]) # TxQueueOf(table.streams[sm2])
    BY DEF QueuesNotShared, RxQueueOf, TxQueueOf
  <2>1. sm1 \in 0 .. table.cur.nb_fwd_streams - 1 /\ sm2 \in 0 .. table.cur.nb_fwd_streams - 1 /\ sm1 # sm2
    BY ServedApart
  <2>2. Distinct(table)
    BY DEF TableInv, Undisturbed
  <2> QED
    BY <2>1, <2>2 DEF Distinct
<1> QED
  BY <1>1, QueuesHold, PTL

-----------------------------------------------------------------------------
(* What a configuration asks of ports and queues when it is started, and   *)
(* that the settings give it.                                              *)

Feeds(c, s) ==
    /\ s.rx_port \in ToSet(c.fwd) /\ s.tx_port \in ToSet(c.fwd)
    /\ s.rx_queue < RxQueues(c, s.rx_port) /\ s.tx_queue < TxQueues(c, s.tx_port)

\* Sound settings and lists that match the ports
SoundConf(c) ==
    /\ c.split <=> c.streams_port # << >>
    /\ \A i \in DOMAIN c.streams_port : c.streams_port[i] \in ToSet(c.fwd)
    /\ c.eng = "icmpecho" => ~c.split /\ c.rxq <= c.txq
    /\ \A i, j \in 1 .. Len(c.fwd) : i # j => c.fwd[i] # c.fwd[j]
    /\ ToSet(c.fwd) \subseteq ToSet(c.ids)
    /\ ToSet(c.fwd) \subseteq c.valid

LEMMA IntervalSize ==
    ASSUME NEW n \in Nat
    PROVE  IsFiniteSet(1 .. n) /\ Cardinality(1 .. n) = n
<1>1. 1 \in Int /\ n \in Int
  OBVIOUS
<1>2. IsFiniteSet(1 .. n) /\ Cardinality(1 .. n) = IF 1 > n THEN 0 ELSE n - 1 + 1
  BY <1>1, FS_Interval
<1> QED
  BY <1>2

\* A list without duplicates is no longer than one that has all that it has.
LEMMA NoLonger ==
    ASSUME NEW S, NEW a \in Seq(S), NEW b \in Seq(S), ToSet(a) \subseteq ToSet(b),
           \A i, j \in 1 .. Len(a) : i # j => a[i] # a[j]
    PROVE  Len(a) <= Len(b)
<1> DEFINE m == Len(a)
           n == Len(b)
<1>1. m \in Nat /\ n \in Nat /\ DOMAIN a = 1 .. m /\ DOMAIN b = 1 .. n
  OBVIOUS
<1> HIDE DEF m, n
<1>2. \A i \in 1 .. m : \E k \in 1 .. n : b[k] = a[i]
  BY <1>1 DEF ToSet
<1> DEFINE f == [i \in 1 .. m |-> CHOOSE k \in 1 .. n : b[k] = a[i]]
<1>3. \A i \in 1 .. m : f[i] \in 1 .. n /\ b[f[i]] = a[i]
  BY <1>2
<1>4. f \in [1 .. m -> 1 .. n]
  BY <1>2
<1>5. \A i, j \in 1 .. m : f[i] = f[j] => i = j
  <2> SUFFICES ASSUME NEW i \in 1 .. m, NEW j \in 1 .. m, f[i] = f[j], i # j
               PROVE  FALSE
    OBVIOUS
  <2> HIDE DEF f
  <2>1. a[i] = a[j]
    BY <1>3
  <2> QED
    BY <2>1 DEF m
<1> HIDE DEF f
<1>6. f \in Injection(1 .. m, 1 .. n)
  BY <1>4, <1>5 DEF Injection, IsInjective
<1>7. Cardinality(1 .. m) = m /\ Cardinality(1 .. n) = n /\ IsFiniteSet(1 .. n)
  BY <1>1, IntervalSize
<1>8. Cardinality(1 .. m) <= Cardinality(1 .. n)
  BY <1>6, <1>7, FS_Injection
<1> QED
  BY <1>7, <1>8 DEF m, n

\* A stream of a configuration file gets a queue its port has.
LEMMA FileQueueExists ==
    ASSUME NEW c, NEW S, c.streams_port \in Seq(S), NEW sm \in Nat, sm + 1 \in DOMAIN c.streams_port
    PROVE  /\ FilePort(c, sm) = c.streams_port[sm + 1]
           /\ PortQueues(c, FilePort(c, sm)) \in Nat
           /\ FileQueue(c, sm) < PortQueues(c, FilePort(c, sm))
<1> DEFINE l == c.streams_port
           n == Len(l)
           p == l[sm + 1]
           A == {i \in 0 .. sm - 1 : FilePort(c, i) = FilePort(c, sm)}
           B == {i \in DOMAIN l : l[i] = p}
           C == A \cup {sm}
<1>1. n \in Nat /\ DOMAIN l = 1 .. n /\ sm + 1 \in 1 .. n
  OBVIOUS
<1>2. FilePort(c, sm) = p
  BY DEF FilePort
<1>3. FileQueue(c, sm) = Cardinality(A) /\ PortQueues(c, p) = Cardinality(B)
  BY DEF FileQueue, PortQueues
<1>4. \A i \in C : i \in Nat /\ i + 1 \in B
  <2>1. sm + 1 \in B
    OBVIOUS
  <2>2. ASSUME NEW i \in A
        PROVE  i \in Nat /\ i + 1 \in B
    <3>1. i \in 0 .. sm - 1 /\ i + 1 \in 1 .. n
      <4> HIDE DEF n, l
      <4>1. i \in 0 .. sm - 1
        BY <2>2
      <4> QED
        BY <1>1, <4>1
    <3>2. i + 1 \in DOMAIN c.streams_port
      BY <1>1, <3>1
    <3>3. FilePort(c, i) = p
      BY <1>2, <2>2
    <3>4. l[i + 1] = p
      BY <3>2, <3>3 DEF FilePort
    <3> QED
      BY <3>1, <3>2, <3>4
  <2> QED
    BY <2>1, <2>2
<1>5. A \subseteq 0 .. sm - 1 /\ B \subseteq 1 .. n /\ sm \notin A
  BY <1>1
<1> HIDE DEF A, B, l, n, p
<1>6. IsFiniteSet(A)
  <2>1. IsFiniteSet(0 .. sm - 1)
    BY FS_Interval
  <2> QED
    BY <1>5, <2>1, FS_Subset
<1>7. IsFiniteSet(B)
  BY <1>1, <1>5, IntervalSize, FS_Subset
<1>8. Cardinality(A) \in Nat /\ Cardinality(B) \in Nat
  BY <1>6, <1>7, FS_CardinalityType
<1>9. Cardinality(C) = Cardinality(A) + 1
  BY <1>5, <1>6, FS_AddElement
<1>10. Cardinality(C) <= Cardinality(B)
  <2> DEFINE f == [i \in C |-> i + 1]
  <2>1. f \in [C -> B]
    BY <1>4
  <2>2. \A i, j \in C : f[i] = f[j] => i = j
    <3>1. \A i, j \in C : i + 1 = j + 1 => i = j
      BY <1>4
    <3> QED
      BY <3>1
  <2> HIDE DEF f, C
  <2>3. f \in Injection(C, B)
    BY <2>1, <2>2 DEF Injection, IsInjective
  <2> QED
    BY <1>7, <2>3, FS_Injection
<1> HIDE DEF C
<1>11. FileQueue(c, sm) < PortQueues(c, p) /\ PortQueues(c, p) \in Nat
  BY <1>3, <1>8, <1>9, <1>10
<1>12. FilePort(c, sm) = l[sm + 1]
  BY <1>2 DEF p
<1> QED
  BY <1>2, <1>11, <1>12 DEF l

\* Every stream that is to be served is in the table.
LEMMA StreamsEnough ==
    ASSUME NEW c, ConfTyped(c), SoundConf(c), NEW t, TableTyped(t),
           c.split => Cardinality(DOMAIN t.streams) <= Len(c.streams_port),
           NEW sm \in 0 .. NbStreams(c, t) - 1
    PROVE  sm \in DOMAIN FwdConfigSetup(c, t).streams
<1> DEFINE D == DOMAIN FwdConfigSetup(c, t).streams
           n == NbStreams(c, t)
           W == WantedStreams(c)
           k == Cardinality(DOMAIN t.streams)
<1>1. /\ D \in {DOMAIN t.streams, 0 .. W - 1} /\ (Remade(c) => D = 0 .. W - 1)
      /\ DOMAIN t.streams = 0 .. k - 1 /\ k \in Nat /\ W \in Nat
  BY ConfigTyped, WantedTyped DEF TableTyped
<1>2. sm \in 0 .. n - 1
  OBVIOUS
<1>s. c.split \in BOOLEAN /\ Len(c.fwd) \in Nat /\ c.rxq \in Nat \ {0} /\ c.txq \in Nat \ {0} /\ Len(c.ids) \in Nat
  BY DEF ConfTyped
<1>3. CASE c.split
  <2>1. n = k
    BY <1>3 DEF NbStreams, SoundConf
  <2>2. W = Len(c.streams_port)
    <3> DEFINE l == c.streams_port
    <3>1. {i \in DOMAIN l : l[i] \in c.valid} = DOMAIN l
      BY DEF SoundConf
    <3>2. W = Cardinality(DOMAIN l)
      BY <1>3, <3>1 DEF WantedStreams
    <3>3. Len(l) \in Nat /\ DOMAIN l = 1 .. Len(l)
      BY DEF ConfTyped
    <3> QED
      BY <3>2, <3>3, IntervalSize
  <2>3. k <= W
    BY <1>3, <2>2
  <2> HIDE DEF D, n, W, k
  <2> QED
    BY <1>1, <1>2, <2>1, <2>3 DEF D
<1>4. CASE ~c.split
  <2>1. c.streams_port = << >>
    BY <1>4 DEF SoundConf
  <2>2. ~TooManyQueues(c)
    <3>1. \A p : PortQueues(c, p) = 0
      <4>1. \A p : {i \in DOMAIN c.streams_port : c.streams_port[i] = p} = {}
        BY <2>1
      <4> QED
        BY <4>1, FS_EmptySet DEF PortQueues
    <3> QED
      BY <3>1, QueuesAssumption DEF TooManyQueues
  <2> DEFINE m == Max({c.rxq, c.txq})
             f == Len(c.fwd)
  <2>3. W = Len(c.ids) * m
    BY <1>4 DEF WantedStreams
  <2>4. m \in Nat /\ m >= c.rxq /\ m >= c.txq /\ m >= 1
    BY <1>s, MaxOfTwo
  <2>5. f <= Len(c.ids)
    <3>1. c.fwd \in Seq(Ports) /\ c.ids \in Seq(Ports)
      BY DEF ConfTyped
    <3> QED
      BY <3>1, NoLonger DEF SoundConf
  <2>6. n <= m * f
    <3>1. CASE c.eng = "icmpecho"
      <4>1. n = c.rxq * f
        BY <3>1 DEF NbStreams
      <4> HIDE DEF n, m, f
      <4> QED
        BY <1>s, <2>4, <4>1, SMTT(30) DEF f
    <3>2. CASE c.eng # "icmpecho" /\ c.rxq > 1 /\ c.txq > 1
      <4> DEFINE q == Min({c.rxq, c.txq})
      <4>1. n = q * f
        BY <1>4, <3>2 DEF NbStreams
      <4>2. q \in Nat /\ q <= m
        <5>1. q \in Nat /\ q <= c.rxq
          BY <1>s, MinOfTwo
        <5> HIDE DEF q, m
        <5> QED
          BY <1>s, <2>4, <5>1
      <4> HIDE DEF n, m, f, q
      <4> QED
        BY <1>s, <2>4, <4>1, <4>2, SMTT(30) DEF f
    <3>3. CASE c.eng # "icmpecho" /\ ~(c.rxq > 1 /\ c.txq > 1)
      <4>1. n = f
        BY <1>4, <3>3 DEF NbStreams
      <4> HIDE DEF n, m, f
      <4> QED
        BY <1>s, <2>4, <4>1, SMTT(30) DEF f
    <3> QED
      BY <3>1, <3>2, <3>3
  <2> HIDE DEF D, n, W, k, m
  <2>7. n <= W /\ n \in Int
    <3> DEFINE i == Len(c.ids)
    <3>1. f \in Nat /\ i \in Nat /\ m \in Nat /\ f <= i
      BY <1>s, <2>4, <2>5
    <3>2. W = i * m
      BY <2>3
    <3>3. n \in Int
      <4>1. FwdConfigSetup(c, t).cur.nb_fwd_streams = n /\ TableTyped(FwdConfigSetup(c, t))
        BY ConfigTyped DEF n
      <4> QED
        BY <4>1 DEF TableTyped
    <3> HIDE DEF i, f
    <3>4. m * f <= i * m
      BY <3>1, SMTT(30)
    <3>5. m * f \in Int /\ i * m \in Int
      BY <3>1
    <3> QED
      BY <2>6, <3>2, <3>3, <3>4, <3>5
  <2>8. sm < W
    BY <1>1, <1>2, <2>7
  <2>9. Remade(c)
    BY <1>1, <1>2, <2>2, <2>8 DEF Remade, W
  <2> QED
    BY <1>1, <1>2, <2>8, <2>9 DEF D
<1> QED
  BY <1>s, <1>3, <1>4

\* Every stream that is served goes between forwarding ports, through queues they have.
LEMMA ConfigFeeds ==
    ASSUME NEW c, ConfTyped(c), SoundConf(c), NEW t, TableTyped(t),
           c.split => Cardinality(DOMAIN t.streams) <= Len(c.streams_port),
           NEW sm \in 0 .. NbStreams(c, t) - 1
    PROVE  Feeds(c, TheStream(c, sm))
<1> DEFINE n == NbStreams(c, t)
           f == c.fwd
           m == Len(f)
<1>1. c.split \in BOOLEAN /\ m \in Nat /\ c.rxq \in Nat \ {0} /\ c.txq \in Nat \ {0} /\ c.topology \in Topologies
  BY DEF ConfTyped
<1>2. DOMAIN f = 1 .. m
  BY DEF ConfTyped
<1>3. sm \in Nat /\ n \in Nat /\ sm < n
  <2>1. FwdConfigSetup(c, t).cur.nb_fwd_streams = n /\ TableTyped(FwdConfigSetup(c, t))
    BY ConfigTyped
  <2>2. n \in Nat
    BY <2>1 DEF TableTyped
  <2>3. sm \in 0 .. n - 1
    OBVIOUS
  <2> HIDE DEF n
  <2> QED
    BY <2>2, <2>3
<1>4. ASSUME NEW i \in 0 .. m - 1
      PROVE  f[i + 1] \in ToSet(f)
  <2>1. i + 1 \in 1 .. m
    BY <1>1
  <2> HIDE DEF f
  <2> QED
    BY <1>2, <2>1 DEF ToSet
<1>5. ~c.split => \A p : RxQueues(c, p) = c.rxq /\ TxQueues(c, p) = c.txq
  BY DEF RxQueues, TxQueues
<1> HIDE DEF n, m
<1>6. CASE c.eng = "icmpecho"
  <2>1. n = c.rxq * m /\ TheStream(c, sm) = EchoStream(c, sm) /\ ~c.split /\ c.rxq <= c.txq
    BY <1>6 DEF NbStreams, TheStream, SoundConf, n, m
  <2> DEFINE q == c.rxq
             d == sm \div q
             r == sm % q
  <2>2. d \in 0 .. m - 1 /\ r \in 0 .. q - 1
    BY <1>1, <1>3, <2>1, EchoPlaces
  <2>3. r < c.rxq /\ r < c.txq
    <3> HIDE DEF r
    <3> QED
      BY <1>1, <2>1, <2>2
  <2>4. f[d + 1] \in ToSet(f)
    BY <1>4, <2>2
  <2>5. EchoStream(c, sm) = [rx_port |-> f[d + 1], rx_queue |-> r, tx_port |-> f[d + 1], tx_queue |-> r]
    BY DEF EchoStream
  <2> HIDE DEF d, r
  <2> QED
    BY <1>5, <2>1, <2>3, <2>4, <2>5 DEF Feeds
<1>7. CASE c.eng # "icmpecho" /\ c.split
  <2>1. n = Cardinality(DOMAIN t.streams) /\ TheStream(c, sm) = FileStream(c, sm)
    BY <1>7 DEF NbStreams, TheStream, n
  <2> DEFINE l == c.streams_port
  <2>2. l \in Seq(Ports) /\ Len(l) \in Nat /\ DOMAIN l = 1 .. Len(l)
    BY DEF ConfTyped
  <2>3. sm + 1 \in DOMAIN l
    <3> HIDE DEF l
    <3> QED
      BY <1>3, <1>7, <2>1, <2>2 DEF l
  <2> DEFINE p == FilePort(c, sm)
             q == FileQueue(c, sm)
  <2>4. p = l[sm + 1] /\ PortQueues(c, p) \in Nat /\ q < PortQueues(c, p)
    BY <1>3, <2>2, <2>3, FileQueueExists
  <2>5. q \in Nat
    <3> DEFINE A == {i \in 0 .. sm - 1 : FilePort(c, i) = FilePort(c, sm)}
    <3>1. A \subseteq 0 .. sm - 1 /\ q = Cardinality(A)
      BY DEF FileQueue
    <3> HIDE DEF A, q
    <3>2. IsFiniteSet(0 .. sm - 1)
      BY FS_Interval
    <3>3. IsFiniteSet(A)
      BY <3>1, <3>2, FS_Subset
    <3> QED
      BY <3>1, <3>3, FS_CardinalityType
  <2>6. p \in ToSet(f)
    BY <2>3, <2>4 DEF SoundConf
  <2>7. FileStream(c, sm) = [rx_port |-> p, rx_queue |-> q, tx_port |-> p, tx_queue |-> q]
    BY DEF FileStream
  <2> HIDE DEF p, q, l
  <2>8. PortQueues(c, p) > 0
    BY <2>4, <2>5
  <2>9. RxQueues(c, p) = PortQueues(c, p) /\ TxQueues(c, p) = PortQueues(c, p)
    BY <1>7, <2>8 DEF RxQueues, TxQueues
  <2> QED
    BY <2>1, <2>4, <2>6, <2>7, <2>9 DEF Feeds
<1>8. CASE c.eng # "icmpecho" /\ ~c.split /\ c.rxq > 1 /\ c.txq > 1
  <2> DEFINE q == Min({c.rxq, c.txq})
             d == sm \div m
             r == sm % m
             x == TopologyTxPort(c.topology, m, r)
  <2>1. n = q * m /\ TheStream(c, sm) = RssStream(c, sm)
    BY <1>8 DEF NbStreams, TheStream, n, m
  <2>2. q \in Nat /\ q <= c.rxq /\ q <= c.txq
    BY <1>1, MinOfTwo
  <2> HIDE DEF q
  <2>3. m # 0
    <3>1. m = 0 => q * m = 0
      BY <2>2
    <3> QED
      BY <1>3, <2>1, <3>1
  <2>4. d \in 0 .. q - 1 /\ r \in 0 .. m - 1
    <3>1. sm \in 0 .. m * q - 1
      <4>1. m * q = q * m
        BY <1>1, <2>2
      <4> QED
        BY <1>3, <2>1, <4>1
    <3> QED
      BY <1>1, <2>2, <2>3, <3>1, EchoPlaces
  <2> HIDE DEF r, d
  <2>5. x \in 0 .. m - 1
    BY <1>1, <2>3, <2>4, TxPortsDiffer
  <2> HIDE DEF x
  <2>6. f[r + 1] \in ToSet(f) /\ f[x + 1] \in ToSet(f)
    BY <1>4, <2>4, <2>5
  <2>7. d < c.rxq /\ d < c.txq
    BY <1>1, <2>2, <2>4
  <2>8. RssStream(c, sm) = [rx_port |-> f[r + 1], rx_queue |-> d, tx_port |-> f[x + 1], tx_queue |-> d]
    BY DEF RssStream, r, d, x, m
  <2> QED
    BY <1>5, <1>8, <2>1, <2>6, <2>7, <2>8 DEF Feeds
<1>9. CASE c.eng # "icmpecho" /\ ~c.split /\ ~(c.rxq > 1 /\ c.txq > 1)
  <2> DEFINE x == TopologyTxPort(c.topology, m, sm)
  <2>1. n = m /\ TheStream(c, sm) = SimpleStream(c, sm)
    BY <1>9 DEF NbStreams, TheStream, n, m
  <2>2. sm \in 0 .. m - 1 /\ m # 0
    BY <1>3, <2>1
  <2>3. x \in 0 .. m - 1
    BY <1>1, <2>2, TxPortsDiffer
  <2> HIDE DEF x
  <2>4. f[sm + 1] \in ToSet(f) /\ f[x + 1] \in ToSet(f)
    BY <1>4, <2>2, <2>3
  <2>5. 0 < c.rxq /\ 0 < c.txq
    BY <1>1
  <2>6. SimpleStream(c, sm) = [rx_port |-> f[sm + 1], rx_queue |-> 0, tx_port |-> f[x + 1], tx_queue |-> 0]
    BY DEF SimpleStream, x, m
  <2> QED
    BY <1>5, <1>9, <2>1, <2>4, <2>5, <2>6 DEF Feeds
<1> QED
  BY <1>1, <1>6, <1>7, <1>8, <1>9

-----------------------------------------------------------------------------
(* While packets are forwarded, and no calls overlap, no step takes a port *)
(* that forwards out of service.                                           *)

InService(p) == Up(p) /\ port_is_forwarding(p)

LEMMA ServiceGoesOn ==
    ASSUME Basics, ListsInv, StatesInv, ~overlapped, ~test_done, NEW t \in Threads, PortStep(t), NEW p, InService(p)
    PROVE  InService(p)' /\ dev'[p] = dev[p]
<1>1. p \in valid /\ p \in Ports /\ status[p] = "STARTED" /\ dev[p].state = "started" /\ port_is_forwarding(p)
  BY DEF InService, Up, Basics, PortTypes
<1>2. Spared(p)
  BY <1>1 DEF Spared
<1>3. Holds(t) => Port(t) # p
  BY <1>1 DEF StatesInv, Rightful
<1>4. At(t, "stop_claim") \/ At(t, "dev_close") => Port(t) # p
  BY <1>2 DEF StatesInv, Rightful
<1>5. /\ status \in [Ports -> Statuses] /\ dev \in [Ports -> [id : Ports, state : DevStates, rxq : Nat, txq : Nat]]
      /\ valid \in SUBSET Ports
  BY DEF Basics, PortTypes
<1> SUFFICES /\ p \in valid' /\ status'[p] = "STARTED" /\ dev'[p] = dev[p]
             /\ port_is_forwarding(p)'
  BY <1>1 DEF InService, Up
<1>6. CASE UNCHANGED portVars
  BY <1>1, <1>6 DEF portVars, port_is_forwarding
<1>7. CASE StartClaim(t)
  <2>1. UNCHANGED <<valid, dev, lists>> /\ (status' = status \/ (status[Port(t)] = "STOPPED" /\ status' = [status EXCEPT ![Port(t)] = "HANDLING"]))
    BY <1>7 DEF StartClaim
  <2> QED
    BY <1>1, <1>5, <2>1 DEF port_is_forwarding
<1>8. CASE ConfigureFails(t) \/ IsolateFails(t) \/ Configure(t) \/ DeviceStarts(t) \/ DeviceStartFails(t) \/ DeviceStop(t)
  <2>1. Port(t) # p /\ UNCHANGED <<valid, lists>>
    BY <1>3, <1>8 DEF Holds, ConfigureFails, IsolateFails, Configure, DeviceStarts, DeviceStartFails, DeviceStop
  <2>2. status'[p] = status[p]
    BY <1>1, <1>5, <1>8, <2>1 DEF ConfigureFails, IsolateFails, Configure, DeviceStarts, DeviceStartFails, DeviceStop, Cas
  <2>3. dev'[p] = dev[p]
    BY <1>1, <1>5, <1>8, <2>1 DEF ConfigureFails, IsolateFails, Configure, DeviceStarts, DeviceStartFails, DeviceStop
  <2> QED
    BY <1>1, <2>1, <2>2, <2>3 DEF port_is_forwarding
<1>9. CASE StopClaim(t)
  <2>1. Port(t) # p /\ UNCHANGED <<valid, dev, lists>> /\ (status' = status \/ status' = [status EXCEPT ![Port(t)] = "HANDLING"])
    BY <1>4, <1>9 DEF StopClaim
  <2> QED
    BY <1>1, <1>5, <2>1 DEF port_is_forwarding
<1>10. CASE DeviceClose(t)
  <2>1. Port(t) # p /\ UNCHANGED lists
    BY <1>4, <1>10 DEF DeviceClose
  <2>2. UNCHANGED <<valid, status, dev>> \/ Gone(Port(t))
    BY <1>10 DEF DeviceClose
  <2>3. p \in valid' /\ status'[p] = status[p] /\ dev'[p] = dev[p]
    BY <1>1, <1>5, <2>1, <2>2 DEF Gone
  <2> QED
    BY <1>1, <2>1, <2>3 DEF port_is_forwarding
<1>p. ASSUME NEW va, p \in va, lists' = Pruned(lists, va)
      PROVE  port_is_forwarding(p)'
  <2>1. p \in ToSet(FwdPorts)
    BY <1>1, FwdPortsTyped
  <2>2. PICK ls : ls = Pruned(lists, va)
    OBVIOUS
  <2>3. p \in ToSet(ls.fwd_ids) /\ ls.nb_fwd_ports = Len(ls.fwd_ids) /\ ls.fwd_ids \in Seq(Ports)
    BY <1>p, <2>1, <2>2, PrunedTyped
  <2>4. DOMAIN ls.fwd_ids = 1 .. ls.nb_fwd_ports
    BY <2>3
  <2>5. \E i \in 1 .. ls.nb_fwd_ports : ls.fwd_ids[i] = p
    BY <2>3, <2>4 DEF ToSet
  <2> QED
    BY <1>p, <2>2, <2>5 DEF port_is_forwarding
<1>11. CASE ClosePrune(t)
  <2>1. UNCHANGED <<valid, status, dev>> /\ lists' = Pruned(lists, valid)
    BY <1>11 DEF ClosePrune
  <2> QED
    BY <1>1, <1>p, <2>1
<1>12. CASE DeviceReset(t)
  <2>1. UNCHANGED <<valid, status, lists>> /\ (dev' = dev \/ (~Spared(Port(t)) /\ dev' = [dev EXCEPT ![Port(t)] = Fresh(@.id)]))
    BY <1>12 DEF DeviceReset
  <2>2. dev'[p] = dev[p]
    BY <1>1, <1>2, <1>5, <2>1
  <2> QED
    BY <1>1, <2>1, <2>2 DEF port_is_forwarding
<1>13. CASE Probe(t)
  <2>1. PICK q : q = Min(Ports \ valid)
    OBVIOUS
  <2>2. q \in Ports /\ q \notin valid
    BY <1>13, <2>1, FreePort DEF Probe
  <2>3. /\ valid' = valid \cup {q} /\ status' = [status EXCEPT ![q] = "HANDLING"] /\ UNCHANGED lists
        /\ \E d \in spare : dev' = [dev EXCEPT ![q] = Fresh(d)]
    BY <1>13, <2>1 DEF Probe
  <2> QED
    BY <1>1, <1>5, <2>2, <2>3 DEF port_is_forwarding
<1>14. CASE setup_attached_port(t)
  <2>1. p \notin ToSetUp(Port(t))
    BY <1>1 DEF ToSetUp
  <2>2. UNCHANGED <<valid, dev>> /\ status'[p] = status[p]
    BY <1>1, <1>14, <2>1 DEF setup_attached_port
  <2> DEFINE new == InOrder(ToSetUp(Port(t)))
             ids == lists.ids \o new
             fwd == FwdPorts \o new
  <2>3. lists' = lists \/ lists' = [ids |-> ids, fwd_ids |-> fwd, nb_fwd_ports |-> Len(fwd)]
    BY <1>14 DEF setup_attached_port, FwdPorts
  <2>4. new \in Seq(Ports)
    <3>1. PICK q : q = Port(t)
      OBVIOUS
    <3>2. q \in Ports
      <4>1. todo[t] # << >>
        BY <1>14, AtHasSteps DEF setup_attached_port
      <4> QED
        BY <3>1, <4>1, AtHead
    <3> QED
      BY <3>1, <3>2, NewPorts
  <2> HIDE DEF new
  <2>5. FwdPorts \in Seq(Ports) /\ p \in ToSet(FwdPorts)
    BY <1>1, FwdPortsTyped
  <2>6. fwd \in Seq(Ports) /\ p \in ToSet(fwd)
    BY <2>4, <2>5, BothLists
  <2> HIDE DEF ids, fwd
  <2>7. \E i \in 1 .. Len(fwd) : fwd[i] = p
    <3>1. DOMAIN fwd = 1 .. Len(fwd)
      BY <2>6
    <3> QED
      BY <2>6, <3>1 DEF ToSet
  <2>8. port_is_forwarding(p)'
    BY <1>1, <2>3, <2>7 DEF port_is_forwarding
  <2> QED
    BY <1>1, <2>2, <2>8
<1>15. CASE Detach(t)
  <2> DEFINE d == Port(t)
             siblings == {q \in valid : dev[q].id = d}
  <2>1. CASE UNCHANGED <<valid, status, dev, lists>>
    BY <1>1, <2>1 DEF port_is_forwarding
  <2>2. CASE /\ \A q \in siblings : status[q] = "STOPPED"
             /\ valid' = valid \ siblings
             /\ status' = [q \in Ports |-> IF q \in siblings THEN "CLOSED" ELSE status[q]]
             /\ dev' = [q \in Ports |-> IF q \in siblings THEN Fresh(d) ELSE dev[q]]
             /\ lists' = Pruned(lists, valid')
    <3>1. p \notin siblings
      BY <1>1, <2>2
    <3> HIDE DEF siblings, d
    <3>2. p \in valid' /\ status'[p] = status[p] /\ dev'[p] = dev[p]
      BY <1>1, <2>2, <3>1
    <3>3. PICK va : va = valid'
      OBVIOUS
    <3> QED
      BY <1>1, <1>p, <2>2, <3>2, <3>3
  <2> QED
    BY <1>15, <2>1, <2>2 DEF Detach
<1>16. CASE StopCheck(t) \/ CloseCheck(t) \/ CloseInvalid(t) \/ ResetCheck(t) \/ ProbeAgain(t) \/ SaveDevice(t)
  BY <1>6, <1>16 DEF StopCheck, CloseCheck, CloseInvalid, ResetCheck, ProbeAgain, SaveDevice
<1> QED
  BY <1>7, <1>8, <1>9, <1>10, <1>11, <1>12, <1>13, <1>14, <1>15, <1>16 DEF PortStep

-----------------------------------------------------------------------------
(* The queues that are polled: from the setup of a start until the cores   *)
(* have ended, each stream that is served goes between ports in service,   *)
(* through queues they have.                                               *)

Usable(s) ==
    /\ InService(s.rx_port) /\ InService(s.tx_port)
    /\ s.rx_queue < dev[s.rx_port].rxq /\ s.tx_queue < dev[s.tx_port].txq

Forwarding == (\E lc \in Lcores : Running(lc)) \/ \E t \in Threads : At(t, "launch")

Feeding == \A sm \in 0 .. table.cur.nb_fwd_streams - 1 : sm \in DOMAIN table.streams /\ Usable(table.streams[sm])

\* A table made for a configuration file has no more streams than the file.
FileInv == opts.split => Cardinality(DOMAIN table.streams) <= Len(opts.streams_port)

PollInv == FileInv /\ (Undisturbed /\ sound /\ Forwarding => Feeding)

\* A table as long as a configuration file wants it
LEMMA FileTable ==
    ASSUME NEW c, ConfTyped(c), NEW t, TableTyped(t), c.split,
           DOMAIN t.streams \in {{}, 0 .. WantedStreams(c) - 1}
    PROVE  Cardinality(DOMAIN t.streams) <= Len(c.streams_port)
<1> DEFINE l == c.streams_port
           n == Len(l)
           S == {i \in DOMAIN l : l[i] \in c.valid}
           W == WantedStreams(c)
           k == Cardinality(DOMAIN t.streams)
<1>1. n \in Nat /\ DOMAIN l = 1 .. n
  BY DEF ConfTyped
<1>2. W = Cardinality(S) /\ W \in Nat /\ S \subseteq 1 .. n
  BY <1>1, WantedTyped DEF WantedStreams
<1>3. k \in Nat /\ DOMAIN t.streams = 0 .. k - 1
  BY DEF TableTyped
<1> HIDE DEF l, n, S, W
<1>4. W <= n
  <2>1. IsFiniteSet(1 .. n) /\ Cardinality(1 .. n) = n
    BY <1>1, IntervalSize
  <2>2. Cardinality(S) <= Cardinality(1 .. n)
    BY <1>2, <2>1, FS_Subset
  <2> QED
    BY <1>2, <2>1, <2>2
<1>5. CASE DOMAIN t.streams = {}
  <2>1. k = 0
    BY <1>5, FS_EmptySet
  <2> QED
    BY <1>1, <2>1 DEF n, l
<1>6. CASE DOMAIN t.streams = 0 .. W - 1
  <2> SUFFICES ASSUME k > W
               PROVE  FALSE
    <3>1. k <= W => k <= n
      BY <1>1, <1>2, <1>3, <1>4
    <3>2. k <= W
      BY <1>2, <1>3
    <3> QED
      BY <3>1, <3>2 DEF n, l
  <2> HIDE DEF k
  <2>1. W \in 0 .. k - 1 /\ W \notin 0 .. W - 1
    BY <1>2, <1>3
  <2> QED
    BY <1>3, <1>6, <2>1
<1> QED
  BY <1>5, <1>6 DEF W

LEMMA StepKeepsFile ==
    ASSUME Basics, TableTypes, FileInv, [Next]_vars
    PROVE  FileInv'
<1>0. opts' = opts
  BY OptionsStay
<1>1. CASE table' = table
  BY <1>0, <1>1 DEF FileInv
<1>2. CASE table' # table
  <2>1. PICK c : c = Conf(lists', settings', valid)
    OBVIOUS
  <2>2. ConfTyped(c) /\ table' = FwdConfigSetup(c, table)
    BY <1>2, <2>1, ReconfigureMakes DEF TableTypes
  <2>3. c.split = opts.split /\ c.streams_port = opts.streams_port
    <3>1. PICK ls, st : ls = lists' /\ st = settings'
      OBVIOUS
    <3>2. PICK va : va = valid
      OBVIOUS
    <3>3. Conf(ls, st, va).split = opts.split /\ Conf(ls, st, va).streams_port = opts.streams_port
      BY DEF Conf
    <3> QED
      BY <2>1, <3>1, <3>2, <3>3
  <2>4. /\ TableTyped(FwdConfigSetup(c, table))
        /\ DOMAIN FwdConfigSetup(c, table).streams \in {DOMAIN table.streams, 0 .. WantedStreams(c) - 1}
    BY <2>2, ConfigTyped DEF TableTypes
  <2>5. PICK n : n = FwdConfigSetup(c, table)
    OBVIOUS
  <2>6. c.split => Cardinality(DOMAIN n.streams) <= Len(c.streams_port)
    <3>1. CASE DOMAIN n.streams = DOMAIN table.streams
      BY <2>3, <3>1 DEF FileInv
    <3>2. CASE DOMAIN n.streams = 0 .. WantedStreams(c) - 1
      BY <2>2, <2>4, <2>5, <3>2, FileTable
    <3> QED
      BY <2>4, <2>5, <3>1, <3>2
  <2> QED
    BY <1>0, <2>2, <2>3, <2>5, <2>6 DEF FileInv
<1> QED
  BY <1>1, <1>2

LEMMA InitFile == Init => FileInv
<1> SUFFICES ASSUME Init, opts.split
             PROVE  Cardinality(DOMAIN table.streams) <= Len(opts.streams_port)
  BY DEF FileInv
<1> DEFINE c == Conf(lists, settings, valid)
<1>1. c.split = opts.split /\ c.streams_port = opts.streams_port
  BY DEF Conf
<1>2. /\ ConfTyped(c)
      /\ \E e : /\ TableTyped(e) /\ table = FwdConfigSetup(c, e)
                /\ DOMAIN e.streams \in {{}, 0 .. WantedStreams(c) - 1}
  BY InitMakes
<1> HIDE DEF c
<1>3. TableTyped(table) /\ DOMAIN table.streams \in {{}, 0 .. WantedStreams(c) - 1}
  BY <1>2, ConfigTyped
<1>4. Cardinality(DOMAIN table.streams) <= Len(c.streams_port)
  BY <1>1, <1>2, <1>3, FileTable
<1> QED
  BY <1>1, <1>4

\* Once start_packet_forwarding() has checked the ports, the settings are those of the devices.
LEMMA StartIsSound ==
    ASSUME Basics, ListsInv, StatesInv, CoresInv, ~overlapped, NEW t \in Threads, At(t, "set_up"), Sound
    PROVE  LET c == Conf(lists, settings, valid)
           IN  /\ ConfTyped(c) /\ SoundConf(c)
               /\ \A s : Feeds(c, s) => Usable(s)
<1> DEFINE c == Conf(lists, settings, valid)
<1>1. /\ c.ids = lists.ids /\ c.valid = valid /\ c.fwd = FwdPorts /\ c.rxq = settings.rxq /\ c.txq = settings.txq
      /\ c.eng = settings.eng /\ c.split = opts.split /\ c.streams_port = opts.streams_port
  BY DEF Conf, FwdPorts
<1>2. ConfTyped(c)
  BY ConfOf DEF Basics, PortTypes
<1>3. \A p : RxQueues(c, p) = RxQ(p) /\ TxQueues(c, p) = TxQ(p)
  BY QueuesOf
<1> HIDE DEF c
<1>4. ListsSettled
  BY BusyLists
<1>5. /\ \A p : port_is_forwarding(p) <=> p \in ToSet(FwdPorts)
      /\ ToSet(FwdPorts) \subseteq ToSet(lists.fwd_ids) /\ FwdPorts \in Seq(Ports)
      /\ IsInjective(FwdPorts)
  BY <1>4, FwdPortsTyped DEF ListsSettled, ListsCover
<1>6. SoundConf(c)
  <2>1. opts.split <=> opts.streams_port # << >>
    BY StateAssumption DEF Basics, PortTypes
  <2>2. \A i, j \in 1 .. Len(FwdPorts) : i # j => FwdPorts[i] # FwdPorts[j]
    BY <1>5 DEF IsInjective
  <2> QED
    BY <1>1, <1>4, <1>5, <2>1, <2>2 DEF SoundConf, Sound, ListsSettled, ListsCover
<1>7. ASSUME NEW p \in ToSet(c.fwd)
      PROVE  InService(p) /\ dev[p].rxq = RxQueues(c, p) /\ dev[p].txq = TxQueues(c, p)
  <2>1. p \in valid /\ port_is_forwarding(p)
    BY <1>1, <1>4, <1>5, <1>7 DEF ListsSettled, ListsCover
  <2>2. status[p] = "STARTED"
    BY <2>1 DEF CoresInv, StartStop, all_ports_started
  <2>3. dev[p].state = "started" /\ ~need[p].queues /\ dev[p].rxq = RxQ(p) /\ dev[p].txq = TxQ(p)
    BY <2>1, <2>2 DEF StatesInv, Consistent
  <2> QED
    BY <1>3, <2>1, <2>2, <2>3 DEF InService, Up
<1>8. ASSUME NEW s, Feeds(c, s)
      PROVE  Usable(s)
  BY <1>7, <1>8 DEF Feeds, Usable
<1> QED
  BY <1>2, <1>6, <1>8 DEF c

LEMMA StartFeeds ==
    ASSUME Basics, TableTypes, ListsInv, StatesInv, CoresInv, FileInv, NEW t \in Threads, StartSetUp(t), ~overlapped, sound'
    PROVE  Feeding'
<1> DEFINE c == Conf(lists, settings, valid)
<1>1. /\ At(t, "set_up") /\ Sound /\ table' = FwdConfigSetup(c, table)
      /\ UNCHANGED <<valid, status, dev, lists>>
  BY DEF StartSetUp, Reconfigure, OutsideFwd, portVars
<1>2. ConfTyped(c) /\ SoundConf(c) /\ \A s : Feeds(c, s) => Usable(s)
  BY <1>1, StartIsSound
<1>3. c.split => Cardinality(DOMAIN table.streams) <= Len(c.streams_port)
  BY DEF Conf, FileInv
<1> HIDE DEF c
<1>4. table'.cur.nb_fwd_streams = NbStreams(c, table)
  BY <1>1, <1>2, ConfigTyped DEF TableTypes
<1>5. ASSUME NEW sm \in 0 .. NbStreams(c, table) - 1
      PROVE  sm \in DOMAIN table'.streams /\ Usable(table'.streams[sm])
  <2>1. sm \in DOMAIN FwdConfigSetup(c, table).streams
    BY <1>2, <1>3, StreamsEnough DEF TableTypes
  <2>2. FwdConfigSetup(c, table).streams[sm] = TheStream(c, sm)
    BY <1>2, <2>1, ConfigStreams DEF TableTypes
  <2>3. Feeds(c, TheStream(c, sm))
    BY <1>2, <1>3, ConfigFeeds DEF TableTypes
  <2>4. Usable(TheStream(c, sm))
    BY <1>2, <2>3
  <2> QED
    BY <1>1, <2>1, <2>2, <2>4
<1>6. \A s : Usable(s) => Usable(s)'
  BY <1>1 DEF Usable, InService, Up, port_is_forwarding
<1>7. ASSUME NEW sm \in 0 .. table'.cur.nb_fwd_streams - 1
      PROVE  sm \in DOMAIN table'.streams /\ Usable(table.streams[sm])'
  <2>1. sm \in 0 .. NbStreams(c, table) - 1
    BY <1>4
  <2>2. sm \in DOMAIN table'.streams /\ Usable(table'.streams[sm])
    BY <1>5, <2>1
  <2>3. PICK s : s = table'.streams[sm]
    OBVIOUS
  <2>4. Usable(s)'
    BY <1>6, <2>2, <2>3
  <2> QED
    BY <2>2, <2>3, <2>4 DEF Usable
<1> QED
  BY <1>7 DEF Feeding

\* Packets are forwarded after a step only if they were before it, or it was the setup of a start.
LEMMA ForwardingWas ==
    ASSUME Basics, TableTypes, CoresInv, [Next]_vars, Undisturbed', Forwarding', ~\E t \in Threads : StartSetUp(t)
    PROVE  /\ Undisturbed /\ Forwarding
           /\ UNCHANGED <<table, sound>>
           /\ UNCHANGED <<valid, status, dev, lists>> \/ \E t \in Threads : PortStep(t) /\ \E lc \in Lcores : Running(lc)
<1>1. ~overlapped /\ ~overlapped' /\ ~resized'
  BY OverlapStays DEF Undisturbed
<1>2. "launch" \in Inner
  BY DEF Inner
<1>3. CASE Outside
  <2>1. UNCHANGED <<table, sound, valid, status, dev, lists, resized, core, todo>>
    BY <1>3 DEF Outside, fwdVars, portVars
  <2>2. Forwarding
    BY <2>1 DEF Forwarding, Running, At
  <2> QED
    BY <1>1, <2>1, <2>2 DEF Undisturbed
<1>4. ASSUME NEW t \in Threads, NEW q \in Seq(Steps), Calls(t, q)
      PROVE  Undisturbed /\ Forwarding /\ UNCHANGED <<table, sound, valid, status, dev, lists>>
  <2>1. UNCHANGED <<table, sound, valid, status, dev, lists, resized, core>>
    BY <1>4 DEF Calls, fwdVars, portVars
  <2>2. \A u \in Threads : ~At(u, "launch")'
    BY <1>1, <1>2, <1>4, CallsAt
  <2>3. Forwarding
    BY <2>1, <2>2 DEF Forwarding, Running
  <2> QED
    BY <1>1, <2>1, <2>3 DEF Undisturbed
<1>5. CASE Setting
  <2>1. UNCHANGED <<valid, status, dev, sound>> /\ \A u \in Threads : ~At(u, "launch")'
    BY <1>1, <1>5, SettingAt
  <2>2. PICK lc \in Lcores : Running(lc)'
    BY <2>1 DEF Forwarding
  <2>3. CASE set_fwd_mode
    <3>1. UNCHANGED <<table, core, resized, lists>>
      BY <2>3 DEF set_fwd_mode
    <3>2. Forwarding
      BY <2>2, <3>1 DEF Forwarding, Running
    <3> QED
      BY <1>1, <2>1, <3>1, <3>2 DEF Undisturbed
  <2>4. CASE ~set_fwd_mode
    <3>1. Reconfigure(lists', settings', valid)
      BY <1>5, <2>4 DEF Setting, set_nbport, set_nbcore, set_portlist, config_rx_tx
    <3>2. PICK ls, st, va : ls = lists' /\ st = settings' /\ va = valid
      OBVIOUS
    <3>3. Reconfigure(ls, st, va)
      BY <3>1, <3>2
    <3>4. core'[lc].state = core[lc].state
      BY <3>3, CoresFreed DEF CoresInv
    <3>5. Running(lc)
      BY <2>2, <3>4 DEF Running
    <3>6. resized'
      BY <3>5, <3>3 DEF Reconfigure
    <3> QED
      BY <1>1, <3>6
  <2> QED
    BY <2>3, <2>4
<1>6. ASSUME NEW t \in Threads, PortStep(t) \/ FwdStep(t)
      PROVE  /\ \A u \in Threads : ~At(u, "launch")'
             /\ \E lc \in Lcores : Running(lc)'
  <2>1. Arriving(t) /\ Moves(t)
    BY <1>6, Arrivals, StepShaped
  <2>2. ~At(t, "launch")'
    BY <2>1 DEF Arriving
  <2>3. \A u \in Threads : ~At(u, "launch")'
    BY <1>1, <2>1, <2>2, OnlyMover
  <2> QED
    BY <2>3 DEF Forwarding
<1>7. ASSUME NEW t \in Threads, PortStep(t)
      PROVE  Undisturbed /\ UNCHANGED <<table, sound>> /\ \E lc \in Lcores : Running(lc)
  <2>1. UNCHANGED OutsidePorts
    BY <1>7 DEF PortStep, StartClaim, ConfigureFails, IsolateFails, Configure, DeviceStarts, DeviceStartFails, StopCheck,
         StopClaim, DeviceStop, CloseCheck, CloseInvalid, DeviceClose, ClosePrune, ResetCheck, DeviceReset, Probe,
         ProbeAgain, setup_attached_port, SaveDevice, Detach
  <2>2. UNCHANGED <<table, sound, core, resized>>
    BY <2>1 DEF OutsidePorts, fwdVars
  <2>3. \E lc \in Lcores : Running(lc)
    BY <1>6, <1>7, <2>2 DEF Running
  <2> QED
    BY <1>1, <2>2, <2>3 DEF Undisturbed
<1>8. ASSUME NEW t \in Threads, FwdStep(t)
      PROVE  Undisturbed /\ Forwarding /\ UNCHANGED <<table, sound, valid, status, dev, lists>>
  <2>1. UNCHANGED <<table, sound, valid, status, dev, lists, resized>>
    BY <1>8 DEF FwdStep, StartCheck, Launch, StopTell, StopWait, OutsideFwd, portVars, fwdVars
  <2>2. CASE Launch(t)
    BY <1>1, <2>1, <2>2 DEF Launch, Forwarding, Undisturbed
  <2>3. CASE StartCheck(t)
    <3>1. UNCHANGED core
      BY <2>3 DEF StartCheck, fwdVars
    <3> QED
      BY <1>1, <1>6, <1>8, <2>1, <3>1 DEF Undisturbed, Forwarding, Running
  <2>4. CASE StopTell(t)
    <3>1. \A lc \in Lcores : core'[lc].state = core[lc].state
      <4>1. CASE UNCHANGED core
        BY <4>1
      <4>2. CASE core' = [lc \in Lcores |-> [core[lc] EXCEPT !.stopped = @ \/ lc < table.cur.nb_fwd_lcores]]
        BY <4>2, CoresTold DEF CoresInv
      <4> QED
        BY <2>4, <4>1, <4>2 DEF StopTell
    <3> QED
      BY <1>1, <1>6, <1>8, <2>1, <3>1 DEF Undisturbed, Forwarding, Running
  <2>5. CASE StopWait(t)
    <3>1. \A lc \in Lcores : core'[lc].state = "wait"
      BY <2>5, CoresWait DEF CoresInv, StopWait
    <3> QED
      BY <1>6, <1>8, <3>1 DEF Running
  <2> QED
    BY <1>8, <2>2, <2>3, <2>4, <2>5 DEF FwdStep
<1>9. CASE CoreStep
  <2>1. PICK lc \in Lcores : CoreFinish(lc)
    BY <1>9 DEF CoreStep
  <2>2. UNCHANGED <<table, resized, sound, todo, valid, status, dev, lists>>
    BY <2>1 DEF CoreFinish, OutsideFwd, portVars
  <2>3. /\ core'[lc].state = "finished"
        /\ \A c \in Lcores : c # lc => core'[c] = core[c]
    BY <2>1, CoresFinish DEF CoresInv
  <2>4. Forwarding
    BY <2>2, <2>3 DEF Forwarding, Running, At
  <2> QED
    BY <1>1, <2>2, <2>4 DEF Undisturbed
<1> QED
  BY <1>3, <1>4, <1>5, <1>7, <1>8, <1>9, StepKinds DEF Forwarding

LEMMA StepKeepsPoll ==
    ASSUME Basics, TableTypes, CoresInv, ListsInv, StatesInv, PollInv, [Next]_vars
    PROVE  PollInv'
<1>1. FileInv'
  BY StepKeepsFile DEF PollInv
<1> SUFFICES ASSUME Undisturbed', sound', Forwarding'
             PROVE  Feeding'
  BY <1>1 DEF PollInv
<1>2. ~overlapped
  BY OverlapStays DEF Undisturbed
<1>3. CASE \E t \in Threads : StartSetUp(t)
  BY <1>2, <1>3, StartFeeds DEF PollInv
<1>4. CASE ~\E t \in Threads : StartSetUp(t)
  <2>1. /\ Undisturbed /\ Forwarding /\ UNCHANGED <<table, sound>>
        /\ UNCHANGED <<valid, status, dev, lists>> \/ \E t \in Threads : PortStep(t) /\ \E lc \in Lcores : Running(lc)
    BY <1>4, ForwardingWas
  <2>2. Feeding
    BY <2>1 DEF PollInv
  <2>3. \A p : InService(p) => InService(p)' /\ dev'[p] = dev[p]
    <3>1. CASE UNCHANGED <<valid, status, dev, lists>>
      BY <3>1 DEF InService, Up, port_is_forwarding
    <3>2. ASSUME NEW t \in Threads, PortStep(t), \E lc \in Lcores : Running(lc)
          PROVE  \A p : InService(p) => InService(p)' /\ dev'[p] = dev[p]
      <4>1. ~test_done
        BY <1>2, <3>2 DEF CoresInv, StartStop
      <4> QED
        BY <1>2, <3>2, <4>1, ServiceGoesOn
    <3> QED
      BY <2>1, <3>1, <3>2
  <2>4. \A s : Usable(s) => Usable(s)'
    BY <2>3 DEF Usable, InService
  <2>5. ASSUME NEW sm \in 0 .. table.cur.nb_fwd_streams - 1
        PROVE  sm \in DOMAIN table.streams /\ Usable(table.streams[sm])'
    <3>1. PICK s : s = table.streams[sm] /\ s = table'.streams[sm]
      BY <2>1
    <3>2. sm \in DOMAIN table.streams /\ Usable(s)
      BY <2>2, <3>1 DEF Feeding
    <3> QED
      BY <2>4, <3>1, <3>2 DEF Usable
  <2> QED
    BY <2>1, <2>5 DEF Feeding
<1> QED
  BY <1>3, <1>4

LEMMA PollsHold == Spec => [](Basics /\ TableTypes /\ CoresInv /\ ListsInv /\ StatesInv /\ PollInv)
<1> DEFINE Inv == Basics /\ TableTypes /\ CoresInv /\ ListsInv /\ StatesInv /\ PollInv
<1>1. Init => PollInv
  <2> SUFFICES ASSUME Init
               PROVE  ~Forwarding
    BY InitFile DEF PollInv
  <2>1. \A lc \in Lcores : ~Running(lc)
    BY DEF Init, Running
  <2>2. \A t \in Threads : ~At(t, "launch")
    BY DEF Init, At
  <2> QED
    BY <2>1, <2>2 DEF Forwarding
<1>2. Init => Inv
  BY <1>1, InitBasics, InitTable, InitCores, InitListsInv, InitStates
<1>3. Inv /\ [Next]_vars => Inv'
  BY StepKeepsBasics, StepKeepsTable, StepKeepsCores, StepKeepsLists, StepKeepsStates, StepKeepsPoll
<1> QED
  BY <1>2, <1>3, PTL DEF Spec

\* A core that forwards only touches streams there are, and through them only queues that were
\* set up on ports that run, whatever ports are started, stopped, closed, attached or removed
\* meanwhile: with settings the user keeps sound, as long as no calls overlap and no setup runs
\* under the cores.
THEOREM QueuesPolledExist == Spec => []PolledQueuesExist
<1>1. Basics /\ TableTypes /\ CoresInv /\ ListsInv /\ StatesInv /\ PollInv => PolledQueuesExist
  <2> SUFFICES ASSUME Basics, TableTypes, CoresInv, PollInv, Undisturbed, sound,
                      NEW lc \in Lcores, Running(lc), NEW sm \in Served(lc)
               PROVE  /\ sm \in DOMAIN table.streams
                      /\ LET s == table.streams[sm]
                         IN  /\ Up(s.rx_port) /\ Up(s.tx_port)
                             /\ s.rx_queue < dev[s.rx_port].rxq
                             /\ s.tx_queue < dev[s.tx_port].txq
    BY DEF PolledQueuesExist
  <2>1. sm \in 0 .. table.cur.nb_fwd_streams - 1
    BY ServedApart
  <2>2. Feeding
    BY DEF PollInv, Forwarding
  <2> QED
    BY <2>1, <2>2 DEF Feeding, Usable, InService
<1> QED
  BY <1>1, PollsHold, PTL

=============================================================================
