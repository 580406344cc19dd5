------------------------ MODULE RedundantLink_proofs ------------------------
(***************************************************************************)
(* Proofs about RedundantLink for every number of links and servers, every *)
(* burst and ring size and every bound.                                    *)
(***************************************************************************)
EXTENDS RedundantLink, SequenceTheorems, FiniteSetTheorems, TLAPS

-----------------------------------------------------------------------------
(* Type correctness.                                                       *)

\* The recorder has one entry for each frame kept, and no link has accepted
\* more than the frames kept: what makes recorder[max_nb_tx] well defined.
Shape ==
    /\ Len(recorder) = Len(filtered_pkts)
    /\ max_nb_tx <= Len(filtered_pkts)

TInv == TypeOK /\ Shape

\* The frames kept are finitely many.
LEMMA HeldFinite ==
    ASSUME filtered_pkts \in Seq(Packet)
    PROVE  IsFiniteSet(Held)
<1>1. filtered_pkts \in [1 .. Len(filtered_pkts) -> Packet]
  BY LenProperties
<1>2. filtered_pkts \in Surjection(1 .. Len(filtered_pkts), Held)
  BY <1>1 DEF Held, Surjection
<1>3. IsFiniteSet(1 .. Len(filtered_pkts))
  BY LenProperties, FS_Interval
<1> QED
  BY <1>2, <1>3, FS_Surjection

LEMMA InitTInv == Init => TInv
<1> SUFFICES ASSUME Init PROVE TInv
  OBVIOUS
<1> USE DEF Init
<1>1. 1 \in Links /\ 1 \in 1 .. (NbLinks + 1)
  BY LinksAssumption DEF Links
<1>2. ITypeOK /\ Shape
  BY <1>1, WidthsAssumption DEF IInit, ITypeOK, Shape
<1>3. ETypeOK
  BY <1>1 DEF EInit, ETypeOK
<1>4. ILink!LTypeOK /\ ELink!LTypeOK
  BY DEF IInit, EInit, ILink!LInit, ELink!LInit, ILink!LTypeOK, ELink!LTypeOK,
         ILink!Links, ELink!Links, Links
<1> QED
  BY <1>2, <1>3, <1>4 DEF TInv, TypeOK

\* What a step of the ingress pipeline alone preserves.
LEMMA IngressType ==
    ASSUME ITypeOK, Shape, INext
    PROVE  (ITypeOK /\ Shape)'
<1> USE DEF ITypeOK, Shape
<1>1. CASE IRx
  BY <1>1, LinksAssumption, WidthsAssumption DEF IRx, Links
<1>2. CASE IFilterUnknown
  BY <1>2, WidthsAssumption DEF IFilterUnknown
<1>3. ASSUME NEW s \in IngressServers, IFilterKnown(s)
      PROVE  (ITypeOK /\ Shape)'
  <2>1. /\ offered' \in [IngressServers -> Nat]
        /\ tmp_counters' \in [IngressServers -> Nat]
    BY <1>3 DEF IFilterKnown
  <2>2. update_source_mac(s, tmp_counters'[s], irun, offered'[s]) \in Packet
    BY <1>3, <2>1, WidthsAssumption DEF update_source_mac, Packet
  <2>3. nb_rx' \in 0 .. MAX_PKT_BURST
    BY <1>3, WidthsAssumption DEF IFilterKnown
  <2>4. filtered_pkts' \in Seq(Packet) /\ Len(filtered_pkts') = Len(filtered_pkts) + 1
    BY <1>3, <2>2 DEF IFilterKnown
  <2>5. recorder' \in Seq([IngressServers -> Nat]) /\ Len(recorder') = Len(recorder) + 1
    BY <1>3, <2>1 DEF IFilterKnown
  <2> QED
    BY <1>3, <2>1, <2>3, <2>4, <2>5 DEF IFilterKnown
<1>4. CASE IFiltered
  BY <1>4 DEF IFiltered
<1>5. CASE ISkipPort
  BY <1>5, LinksAssumption DEF ISkipPort, Links
<1>6. ASSUME NEW n \in 0 .. MAX_PKT_BURST, ITxPort(n)
      PROVE  (ITypeOK /\ Shape)'
  <2>1. n \in 0 .. Len(filtered_pkts) /\ Len(filtered_pkts) \in Nat
    BY <1>6 DEF ITxPort
  <2>2. SubSeq(filtered_pkts, 1, n) \in Seq(Packet)
    BY <2>1
  <2>3. {filtered_pkts[k] : k \in 1 .. n} \subseteq Packet
    BY <2>1
  <2>4. txq' \in [Links -> Seq(Packet)]
    BY <1>6, <2>2 DEF ITxPort
  <2>5. BestTx(n) \in Nat /\ BestTx(n) <= Len(filtered_pkts) /\ mbufs' \in Nat
    BY <1>6, <2>1 DEF BestTx, ClonesKept, ITxPort
  <2> QED
    BY <1>6, <2>3, <2>4, <2>5, LinksAssumption DEF ITxPort, Links
<1>7. CASE ICommit
  <2>1. CommittedCounters \in [IngressServers -> Nat]
    BY DEF CommittedCounters
  <2>2. Cardinality({p \in Held : Clones(p) = {}}) \in Nat
    BY HeldFinite, FS_Subset, FS_CardinalityType
  <2> QED
    BY <1>7, <2>1, <2>2, LinksAssumption DEF ICommit, Links
<1> QED
  BY <1>1, <1>2, <1>3, <1>4, <1>5, <1>6, <1>7 DEF INext

\* The check egress_pipeline() makes on the index of a frame.
LEMMA KnownServer ==
    ASSUME NEW s \in IngressServers, s < NbEgressServers
    PROVE  s \in EgressServers
BY ServersAssumption DEF IngressServers, EgressServers

\* What a step of the polling loop alone preserves.
LEMMA EgressType ==
    ASSUME ETypeOK, ENext
    PROVE  ETypeOK'
<1> USE DEF ETypeOK
<1>1. CASE ESkipPort
  BY <1>1, LinksAssumption DEF ESkipPort, NextPort, Links
<1>2. ASSUME NEW n \in 0 .. MAX_PKT_BURST, ERx(n) PROVE ETypeOK'
  <2>1. rxq[eport] \in Seq(Packet)
    OBVIOUS
  <2>2. SubSeq(rxq[eport], 1, n) \in Seq(Packet)
    BY <1>2, <2>1 DEF ERx
  <2>3. SubSeq(rxq[eport], n + 1, Len(rxq[eport])) \in Seq(Packet)
    BY <1>2, <2>1 DEF ERx
  <2> QED
    BY <1>2, <2>2, <2>3 DEF ERx
<1>3. CASE EAccept
  <2>1. Head(epkts) \in Packet /\ Tail(epkts) \in Seq(Packet)
    BY <1>3 DEF EAccept
  <2>2. Head(epkts).srv \in IngressServers /\ Head(epkts).seq \in Nat
    BY <2>1 DEF Packet
  <2>3. Head(epkts).srv < NbEgressServers
    BY <1>3 DEF EAccept, IsFresh
  <2>4. Head(epkts).srv \in EgressServers
    BY <2>2, <2>3, KnownServer
  <2>5. ecounters' \in [EgressServers -> Nat]
    BY <1>3, <2>2, <2>4 DEF EAccept
  <2>6. efiltered' \in Seq(Packet)
    BY <1>3, <2>1 DEF EAccept
  <2> QED
    BY <1>3, <2>1, <2>5, <2>6 DEF EAccept
<1>4. CASE EDrop
  BY <1>4 DEF EDrop
<1>5. CASE EFiltered
  BY <1>5 DEF EFiltered
<1>6. ASSUME NEW n \in 0 .. MAX_PKT_BURST, ETx(n) PROVE ETypeOK'
  <2>1. SubSeq(efiltered, 1, n) \in Seq(Packet)
    BY <1>6 DEF ETx
  <2> QED
    BY <1>6, <2>1, LinksAssumption DEF ETx, NextPort, Links
<1> QED
  BY <1>1, <1>2, <1>3, <1>4, <1>5, <1>6 DEF ENext

\* The oldest clone of a transmit ring, once the ring is done with it.
LEMMA TxDoneType ==
    ASSUME ITypeOK, Shape, NEW l \in Links, ITxDone(l)
    PROVE  (ITypeOK /\ Shape)' /\ Head(txq[l]) \in Packet
<1> USE DEF ITypeOK, Shape
<1>1. txq[l] \in Seq(Packet) /\ txq[l] # <<>>
  BY DEF ITxDone
<1>2. Head(txq[l]) \in Packet /\ Tail(txq[l]) \in Seq(Packet)
  BY <1>1
<1>3. FreedByTx(l) \in Nat
  BY DEF FreedByTx
<1> QED
  BY <1>2, <1>3 DEF ITxDone, ibuf

LEMMA TInvStep == TInv /\ [Next]_vars => TInv'
<1> SUFFICES ASSUME TInv, [Next]_vars PROVE TInv'
  OBVIOUS
<1> USE DEF TInv
<1>1. ITypeOK /\ Shape /\ ETypeOK /\ ILink!LTypeOK /\ ELink!LTypeOK
      /\ up \in [Links -> BOOLEAN] /\ flaps \in Nat
  BY DEF TypeOK
<1>2. ASSUME UNCHANGED ivars PROVE (ITypeOK /\ Shape)'
  BY <1>1, <1>2 DEF ivars, ibuf, ITypeOK, Shape
<1>3. ASSUME UNCHANGED evars PROVE ETypeOK'
  BY <1>1, <1>3 DEF evars, ETypeOK
<1>4. ASSUME UNCHANGED <<imask, ilsc>> PROVE ILink!LTypeOK'
  BY <1>1, <1>4 DEF ilsc, ILink!LTypeOK
<1>5. ASSUME UNCHANGED <<emask, elsc>> PROVE ELink!LTypeOK'
  BY <1>1, <1>5 DEF elsc, ELink!LTypeOK
<1>6. CASE IBoot
  <2>1. (ITypeOK /\ Shape)'
    BY <1>1, <1>2, <1>6 DEF IBoot, ITypeOK, Shape
  <2>2. ILink!LTypeOK'
    BY <1>1, <1>6 DEF IBoot, ILink!LTypeOK, ILink!check_all_ports_link_status,
                      ILink!Register, ilsc, ivars, Links, ILink!Links
  <2> QED
    BY <1>1, <1>3, <1>5, <1>6, <2>1, <2>2 DEF IBoot, TypeOK, evars
<1>7. CASE EBoot
  <2>1. ETypeOK'
    BY <1>1, <1>3, <1>7 DEF EBoot, ETypeOK
  <2>2. ELink!LTypeOK'
    BY <1>1, <1>7 DEF EBoot, ELink!LTypeOK, ELink!check_all_ports_link_status,
                      ELink!Register, elsc, evars, Links, ELink!Links
  <2> QED
    BY <1>1, <1>2, <1>4, <1>7, <2>1, <2>2 DEF EBoot, TypeOK, ivars
<1>8. CASE IStep
  <2>1. (ITypeOK /\ Shape)'
    BY <1>1, <1>8, IngressType DEF IStep
  <2>2. ILink!LTypeOK'
    BY <1>1, <1>8, <2>1 DEF IStep, ILink!LTypeOK, ITypeOK, ilsc, Links, ILink!Links
  <2> QED
    BY <1>1, <1>3, <1>5, <1>8, <2>1, <2>2 DEF IStep, TypeOK, evars
<1>9. CASE EStep
  <2>1. ETypeOK'
    BY <1>1, <1>9, EgressType DEF EStep
  <2>2. ELink!LTypeOK'
    BY <1>1, <1>9, <2>1 DEF EStep, ELink!LTypeOK, ETypeOK, elsc, Links, ELink!Links
  <2> QED
    BY <1>1, <1>2, <1>4, <1>9, <2>1, <2>2 DEF EStep, TypeOK, ivars
<1>10. ASSUME NEW l \in Links, IInterrupt(l) PROVE TInv'
  <2>1. ILink!LTypeOK'
    BY <1>1, <1>10 DEF IInterrupt, ILink!lsi_event_callback, ILink!Unheard,
                       ILink!LTypeOK, Links, ILink!Links
  <2>2. (ITypeOK /\ Shape)'
    BY <1>1, <1>10, <2>1 DEF IInterrupt, ITypeOK, Shape, ibuf, ILink!LTypeOK,
                             Links, ILink!Links
  <2> QED
    BY <1>1, <1>3, <1>5, <1>10, <2>1, <2>2 DEF IInterrupt, TypeOK, evars
<1>11. ASSUME NEW l \in Links, EInterrupt(l) PROVE TInv'
  <2>1. ELink!LTypeOK'
    BY <1>1, <1>11 DEF EInterrupt, ELink!lsi_event_callback, ELink!Unheard,
                       ELink!LTypeOK, Links, ELink!Links
  <2>2. ETypeOK'
    BY <1>1, <1>11, <2>1 DEF EInterrupt, ETypeOK, ELink!LTypeOK, Links, ELink!Links
  <2> QED
    BY <1>1, <1>2, <1>4, <1>11, <2>1, <2>2 DEF EInterrupt, TypeOK, ivars
<1>12. ASSUME NEW l \in Links, Transfer(l) PROVE TInv'
  <2>1. (ITypeOK /\ Shape)' /\ Head(txq[l]) \in Packet
    BY <1>1, <1>12, TxDoneType DEF Transfer
  <2>2. rxq' \in [Links -> Seq(Packet)]
    BY <1>1, <1>12, <2>1 DEF Transfer, EArrive, ETypeOK
  <2>3. ETypeOK'
    BY <1>1, <1>12, <2>2 DEF Transfer, EArrive, ETypeOK
  <2> QED
    BY <1>1, <1>4, <1>5, <1>12, <2>1, <2>3
    DEF Transfer, EArrive, ITxDone, TypeOK, ilsc, elsc
<1>13. ASSUME NEW l \in Links, Lose(l) PROVE TInv'
  <2>1. (ITypeOK /\ Shape)'
    BY <1>1, <1>13, TxDoneType DEF Lose
  <2> QED
    BY <1>1, <1>3, <1>4, <1>5, <1>13, <2>1 DEF Lose, ITxDone, TypeOK, evars
<1>14. ASSUME NEW l \in Links, LinkChange(l) PROVE TInv'
  <2>1. up' \in [Links -> BOOLEAN] /\ flaps' \in Nat
    BY <1>1, <1>14 DEF LinkChange
  <2>2. ILink!LTypeOK' /\ ELink!LTypeOK'
    BY <1>1, <1>14 DEF LinkChange, ILink!LTypeOK, ELink!LTypeOK, ivars, evars,
                       Links, ILink!Links, ELink!Links
  <2> QED
    BY <1>1, <1>2, <1>3, <1>14, <2>1, <2>2 DEF LinkChange, TypeOK
<1>15. CASE IRestart
  <2>1. (ITypeOK /\ Shape)'
    BY <1>1, <1>15, LinksAssumption, WidthsAssumption DEF IRestart, IReset, ITypeOK, Shape
  <2>2. ILink!LTypeOK'
    BY <1>15 DEF IRestart, IReset, ILink!LReset, ILink!LTypeOK, Links, ILink!Links
  <2> QED
    BY <1>1, <1>3, <1>5, <1>15, <2>1, <2>2 DEF IRestart, TypeOK, evars
<1>16. CASE ERestart
  <2>1. 1 \in Links
    BY LinksAssumption DEF Links
  <2>2. ETypeOK'
    BY <1>1, <1>16, <2>1 DEF ERestart, EReset, ETypeOK
  <2>3. ELink!LTypeOK'
    BY <1>16 DEF ERestart, EReset, ELink!LReset, ELink!LTypeOK, Links, ELink!Links
  <2> QED
    BY <1>1, <1>2, <1>4, <1>16, <2>2, <2>3 DEF ERestart, TypeOK, ivars
<1>17. CASE UNCHANGED vars
  BY <1>1, <1>2, <1>3, <1>4, <1>5, <1>17 DEF vars, TypeOK, ivars, evars
<1> QED
  BY <1>6, <1>7, <1>8, <1>9, <1>10, <1>11, <1>12, <1>13, <1>14, <1>15, <1>16, <1>17
  DEF Next, Network

\* Every variable of the pair has its type in every reachable state.
THEOREM TypeCorrect == Spec => []TypeOK
<1>1. TInv => TypeOK
  BY DEF TInv
<1> QED
  BY <1>1, InitTInv, TInvStep, PTL DEF Spec

-----------------------------------------------------------------------------
(* Order of delivery: the invariant behind InOrderOnce.                    *)

\* Counters, stamps and frames of the burst are bounded by what was offered.
BurstInv ==
    /\ \A s \in IngressServers : counters[s] <= tmp_counters[s] /\ tmp_counters[s] <= offered[s]
    /\ \A k \in DOMAIN recorder : \A s \in IngressServers :
          counters[s] <= recorder[k][s] /\ recorder[k][s] <= tmp_counters[s]
    /\ \A k \in DOMAIN filtered_pkts :
          /\ filtered_pkts[k].inc = irun
          /\ filtered_pkts[k].id \in 1 .. offered[filtered_pkts[k].srv]
    /\ \A p \in sent : p.inc <= irun /\ p.id \in 1 .. offered[p.srv]
    /\ ipc \in {"boot", "poll"} => filtered_pkts = <<>>
    /\ ipc # "ports" => max_nb_tx = 0

\* The numbers of the burst are new and grow along it, and recorder[k] is
\* at or above those of the first k frames.
StampInv ==
    /\ \A k \in DOMAIN filtered_pkts :
          /\ counters[filtered_pkts[k].srv] < filtered_pkts[k].seq
          /\ filtered_pkts[k].seq <= tmp_counters[filtered_pkts[k].srv]
    /\ \A j, k \in DOMAIN filtered_pkts :
          j < k /\ filtered_pkts[j].srv = filtered_pkts[k].srv
             => /\ filtered_pkts[j].seq < filtered_pkts[k].seq
                /\ filtered_pkts[j].id < filtered_pkts[k].id
    /\ \A j, k \in DOMAIN filtered_pkts :
          j <= k => filtered_pkts[j].seq <= recorder[k][filtered_pkts[j].srv]

\* Whatever the current run has put on a link is either covered by the counters,
\* and then older than the burst, or part of what the burst will commit.
SentInv ==
    \A p \in sent : p.inc = irun =>
       \/ /\ p.seq <= counters[p.srv]
          /\ \A k \in DOMAIN filtered_pkts :
                filtered_pkts[k].srv = p.srv => p.id < filtered_pkts[k].id
       \/ \E k \in 1 .. max_nb_tx : p = filtered_pkts[k]

\* Frames in transit and frames delivered were put on a link.
TransitInv ==
    /\ \A l \in Links : \A k \in DOMAIN txq[l] : txq[l][k] \in sent
    /\ \A l \in Links : \A k \in DOMAIN rxq[l] : rxq[l][k] \in sent
    /\ \A k \in DOMAIN epkts : epkts[k] \in sent
    /\ \A k \in DOMAIN efiltered : efiltered[k] \in sent
    /\ \A k \in DOMAIN delivered : delivered[k] \in sent

\* Numbers grow along a sequence of frames, server by server.
Rising(frames) ==
    \A i, j \in DOMAIN frames :
       i < j /\ frames[i].srv = frames[j].srv => frames[i].seq < frames[j].seq

\* What was delivered and what is about to be rises up to the watermarks.
WatermarkInv ==
    /\ Rising(delivered)
    /\ Rising(efiltered)
    /\ \A i \in DOMAIN delivered, j \in DOMAIN efiltered :
          delivered[i].srv = efiltered[j].srv => delivered[i].seq < efiltered[j].seq
    /\ \A i \in DOMAIN delivered : /\ delivered[i].srv \in EgressServers
                                   /\ delivered[i].seq <= ecounters[delivered[i].srv]
    /\ \A i \in DOMAIN efiltered : /\ efiltered[i].srv \in EgressServers
                                   /\ efiltered[i].seq <= ecounters[efiltered[i].srv]

SenderInv == BurstInv /\ (NoWrap => StampInv /\ SentInv /\ SeqIdentifiesFrame)
OrderInv == TInv /\ SenderInv /\ TransitInv /\ WatermarkInv


\* Below the range of the counter the stamp is the counter itself.
LEMMA NoTruncation ==
    ASSUME NEW n \in Nat, n < CounterMod
    PROVE  n % CounterMod = n
BY WidthsAssumption

LEMMA InitOrderInv == Init => OrderInv
<1> SUFFICES ASSUME Init PROVE OrderInv
  OBVIOUS
<1>1. TInv
  BY InitTInv
<1>2. SenderInv
  BY DEF Init, IInit, SenderInv, BurstInv, StampInv, SentInv, SeqIdentifiesFrame
<1>3. TransitInv
  BY DEF Init, IInit, EInit, TransitInv
<1>4. WatermarkInv
  BY DEF Init, EInit, WatermarkInv, Rising
<1> QED
  BY <1>1, <1>2, <1>3, <1>4 DEF OrderInv

\* A frame of server s is stamped.
LEMMA StampStep ==
    ASSUME ITypeOK, Shape, SenderInv, NEW s \in IngressServers, IFilterKnown(s)
    PROVE  SenderInv'
<1> DEFINE p == update_source_mac(s, tmp_counters'[s], irun, offered'[s])
           n == Len(filtered_pkts)
<1>1. /\ filtered_pkts \in Seq(Packet) /\ n \in Nat
      /\ recorder \in Seq([IngressServers -> Nat]) /\ Len(recorder) = n
      /\ counters \in [IngressServers -> Nat]
      /\ tmp_counters \in [IngressServers -> Nat]
      /\ offered \in [IngressServers -> Nat]
      /\ sent \subseteq Packet
      /\ irun \in Nat
  BY DEF ITypeOK, Shape
<1>2. /\ tmp_counters' = [tmp_counters EXCEPT ![s] = @ + 1]
      /\ offered' = [offered EXCEPT ![s] = @ + 1]
      /\ filtered_pkts' = Append(filtered_pkts, p)
      /\ recorder' = Append(recorder, tmp_counters')
      /\ ipc = "filter"
      /\ UNCHANGED <<counters, max_nb_tx, ipc, irun, sent>>
  BY DEF IFilterKnown
<1>3. /\ p.srv = s /\ p.inc = irun /\ p.id = offered[s] + 1
      /\ p.seq = (tmp_counters[s] + 1) % CounterMod
      /\ p \in Packet
  BY <1>1, <1>2, WidthsAssumption DEF update_source_mac, Packet
<1>4. /\ DOMAIN filtered_pkts = 1 .. n /\ DOMAIN filtered_pkts' = 1 .. (n + 1)
      /\ filtered_pkts'[n + 1] = p
      /\ \A k \in 1 .. n : filtered_pkts'[k] = filtered_pkts[k] /\ filtered_pkts[k] \in Packet
  BY <1>1, <1>2, <1>3
<1>5. /\ DOMAIN recorder = 1 .. n /\ DOMAIN recorder' = 1 .. (n + 1)
      /\ recorder'[n + 1] = tmp_counters'
      /\ \A k \in 1 .. n : recorder'[k] = recorder[k] /\ recorder[k] \in [IngressServers -> Nat]
      /\ tmp_counters' \in [IngressServers -> Nat]
  BY <1>1, <1>2
<1>5a. \A t \in IngressServers :
          offered[t] \in Nat /\ offered'[t] \in Nat /\ offered[t] <= offered'[t]
  <2>1. offered \in [IngressServers -> Nat]
    BY DEF ITypeOK
  <2>2. offered' = [offered EXCEPT ![s] = @ + 1]
    BY <1>2
  <2> QED
    BY <2>1, <2>2
<1>6. BurstInv'
  <2>1. \A t \in IngressServers :
           /\ counters'[t] <= tmp_counters'[t]
           /\ tmp_counters'[t] <= offered'[t]
           /\ tmp_counters[t] <= tmp_counters'[t]
           /\ offered[t] <= offered'[t]
    BY <1>1, <1>2 DEF SenderInv, BurstInv
  <2>2. \A k \in DOMAIN recorder' : \A t \in IngressServers :
           counters'[t] <= recorder'[k][t] /\ recorder'[k][t] <= tmp_counters'[t]
    <3> SUFFICES ASSUME NEW k \in 1 .. (n + 1), NEW t \in IngressServers
                 PROVE  counters[t] <= recorder'[k][t] /\ recorder'[k][t] <= tmp_counters'[t]
      BY <1>2, <1>5
    <3>1. CASE k = n + 1
      BY <1>1, <1>2, <1>5, <2>1, <3>1
    <3>2. CASE k \in 1 .. n
      <4>1. recorder'[k] = recorder[k] /\ recorder[k][t] \in Nat
        BY <1>5, <3>2
      <4>2. counters[t] <= recorder[k][t] /\ recorder[k][t] <= tmp_counters[t]
        BY <1>5, <3>2 DEF SenderInv, BurstInv
      <4> QED
        BY <1>1, <1>5, <2>1, <4>1, <4>2
    <3> QED
      BY <1>1, <3>1, <3>2
  <2>3. \A k \in DOMAIN filtered_pkts' :
           /\ filtered_pkts'[k].inc = irun'
           /\ filtered_pkts'[k].id \in 1 .. offered'[filtered_pkts'[k].srv]
    <3> SUFFICES ASSUME NEW k \in 1 .. (n + 1)
                 PROVE  /\ filtered_pkts'[k].inc = irun
                        /\ filtered_pkts'[k].id \in 1 .. offered'[filtered_pkts'[k].srv]
      BY <1>2, <1>4
    <3>1. CASE k = n + 1
      BY <1>1, <1>2, <1>3, <1>4, <3>1
    <3>2. CASE k \in 1 .. n
      <4>1. filtered_pkts[k].inc = irun /\ filtered_pkts[k].id \in 1 .. offered[filtered_pkts[k].srv]
        BY <1>4, <3>2 DEF SenderInv, BurstInv
      <4>2. filtered_pkts[k].srv \in IngressServers /\ filtered_pkts'[k] = filtered_pkts[k]
        BY <1>4, <3>2 DEF Packet
      <4>3. /\ offered[filtered_pkts[k].srv] \in Nat /\ offered'[filtered_pkts[k].srv] \in Nat
            /\ offered[filtered_pkts[k].srv] <= offered'[filtered_pkts[k].srv]
        BY <1>5a, <4>2
      <4> QED
        BY <4>1, <4>2, <4>3
    <3> QED
      BY <1>1, <3>1, <3>2
  <2>4. \A q \in sent' : q.inc <= irun' /\ q.id \in 1 .. offered'[q.srv]
    <3> SUFFICES ASSUME NEW q \in sent
                 PROVE  q.inc <= irun /\ q.id \in 1 .. offered'[q.srv]
      BY <1>2
    <3>1. q.srv \in IngressServers
      BY <1>1 DEF Packet
    <3>2. q.inc <= irun /\ q.id \in 1 .. offered[q.srv]
      BY DEF SenderInv, BurstInv
    <3>3. offered[q.srv] \in Nat /\ offered'[q.srv] \in Nat /\ offered[q.srv] <= offered'[q.srv]
      BY <1>5a, <3>1
    <3> QED
      BY <3>2, <3>3
  <2> QED
    BY <1>2, <2>1, <2>2, <2>3, <2>4 DEF BurstInv, SenderInv
<1>7. ASSUME NoWrap' PROVE (StampInv /\ SentInv /\ SeqIdentifiesFrame)'
  <2>1. NoWrap
    BY <1>1, <1>2, <1>7, WidthsAssumption DEF NoWrap
  <2>2. StampInv /\ SentInv /\ SeqIdentifiesFrame
    BY <2>1 DEF SenderInv
  <2>3. p.seq = tmp_counters[s] + 1
    <3>1. tmp_counters[s] + 1 <= offered'[s] /\ offered'[s] < CounterMod
      BY <1>1, <1>2, <1>7 DEF SenderInv, BurstInv, NoWrap
    <3>2. tmp_counters[s] + 1 \in Nat /\ tmp_counters[s] + 1 < CounterMod
      BY <1>1, <1>2, <3>1, WidthsAssumption
    <3> QED
      BY <1>3, <3>2, NoTruncation
  <2>4. \A k \in 1 .. n :
           /\ counters[filtered_pkts[k].srv] < filtered_pkts[k].seq
           /\ filtered_pkts[k].seq <= tmp_counters[filtered_pkts[k].srv]
           /\ filtered_pkts[k].srv \in IngressServers
           /\ filtered_pkts[k].seq \in Nat /\ filtered_pkts[k].id \in Nat
           /\ filtered_pkts[k].id <= offered[filtered_pkts[k].srv]
    <3> SUFFICES ASSUME NEW k \in 1 .. n
                 PROVE  /\ counters[filtered_pkts[k].srv] < filtered_pkts[k].seq
                        /\ filtered_pkts[k].seq <= tmp_counters[filtered_pkts[k].srv]
                        /\ filtered_pkts[k].srv \in IngressServers
                        /\ filtered_pkts[k].seq \in Nat /\ filtered_pkts[k].id \in Nat
                        /\ filtered_pkts[k].id <= offered[filtered_pkts[k].srv]
      OBVIOUS
    <3>1. /\ filtered_pkts[k].srv \in IngressServers
          /\ filtered_pkts[k].seq \in Nat /\ filtered_pkts[k].id \in Nat
      BY <1>4 DEF Packet
    <3>2. /\ counters[filtered_pkts[k].srv] < filtered_pkts[k].seq
          /\ filtered_pkts[k].seq <= tmp_counters[filtered_pkts[k].srv]
      BY <1>4, <2>2 DEF StampInv
    <3>3. filtered_pkts[k].id \in 1 .. offered[filtered_pkts[k].srv]
      BY <1>4 DEF SenderInv, BurstInv
    <3>4. filtered_pkts[k].id <= offered[filtered_pkts[k].srv]
      BY <1>1, <3>1, <3>3
    <3> QED
      BY <3>1, <3>2, <3>4
  <2>5. StampInv'
    <3>1. \A k \in DOMAIN filtered_pkts' :
             /\ counters'[filtered_pkts'[k].srv] < filtered_pkts'[k].seq
             /\ filtered_pkts'[k].seq <= tmp_counters'[filtered_pkts'[k].srv]
      <4> SUFFICES ASSUME NEW k \in 1 .. (n + 1)
                   PROVE  /\ counters[filtered_pkts'[k].srv] < filtered_pkts'[k].seq
                          /\ filtered_pkts'[k].seq <= tmp_counters'[filtered_pkts'[k].srv]
        BY <1>2, <1>4
      <4>1. CASE k = n + 1
        <5>1. counters[s] <= tmp_counters[s]
          BY DEF SenderInv, BurstInv
        <5> QED
          BY <1>1, <1>2, <1>3, <1>4, <2>3, <4>1, <5>1
      <4>2. CASE k \in 1 .. n
        <5>1. filtered_pkts'[k] = filtered_pkts[k] /\ filtered_pkts[k].srv \in IngressServers
          BY <1>4, <2>4, <4>2
        <5>2. \A t \in IngressServers : tmp_counters[t] \in Nat /\ tmp_counters'[t] \in Nat
                                        /\ tmp_counters[t] <= tmp_counters'[t]
          BY <1>1, <1>2
        <5>3. /\ counters[filtered_pkts[k].srv] < filtered_pkts[k].seq
              /\ filtered_pkts[k].seq <= tmp_counters[filtered_pkts[k].srv]
              /\ filtered_pkts[k].seq \in Nat
          BY <2>4, <4>2
        <5> QED
          BY <5>1, <5>2, <5>3
      <4> QED
        BY <1>1, <4>1, <4>2
    <3>2. \A j, k \in DOMAIN filtered_pkts' :
             j < k /\ filtered_pkts'[j].srv = filtered_pkts'[k].srv
                => /\ filtered_pkts'[j].seq < filtered_pkts'[k].seq
                   /\ filtered_pkts'[j].id < filtered_pkts'[k].id
      <4> SUFFICES ASSUME NEW j \in 1 .. (n + 1), NEW k \in 1 .. (n + 1), j < k,
                          filtered_pkts'[j].srv = filtered_pkts'[k].srv
                   PROVE  /\ filtered_pkts'[j].seq < filtered_pkts'[k].seq
                          /\ filtered_pkts'[j].id < filtered_pkts'[k].id
        BY <1>4
      <4>1. j \in 1 .. n
        BY <1>1
      <4>2. CASE k = n + 1
        BY <1>1, <1>3, <1>4, <2>3, <2>4, <4>1, <4>2
      <4>3. CASE k \in 1 .. n
        BY <1>4, <2>2, <4>1, <4>3 DEF StampInv
      <4> QED
        BY <1>1, <4>2, <4>3
    <3>3. \A j, k \in DOMAIN filtered_pkts' :
             j <= k => filtered_pkts'[j].seq <= recorder'[k][filtered_pkts'[j].srv]
      <4> SUFFICES ASSUME NEW j \in 1 .. (n + 1), NEW k \in 1 .. (n + 1), j <= k
                   PROVE  filtered_pkts'[j].seq <= recorder'[k][filtered_pkts'[j].srv]
        BY <1>4
      <4>1. CASE k = n + 1
        BY <1>4, <1>5, <3>1, <4>1
      <4>2. CASE k \in 1 .. n
        <5>1. j \in 1 .. n
          BY <1>1, <4>2
        <5> QED
          BY <1>4, <1>5, <2>2, <4>2, <5>1 DEF StampInv
      <4> QED
        BY <1>1, <4>1, <4>2
    <3> QED
      BY <3>1, <3>2, <3>3 DEF StampInv
  <2>6. SentInv'
    <3> SUFFICES ASSUME NEW q \in sent, q.inc = irun
                 PROVE  \/ /\ q.seq <= counters[q.srv]
                           /\ \A k \in DOMAIN filtered_pkts' :
                                 filtered_pkts'[k].srv = q.srv => q.id < filtered_pkts'[k].id
                        \/ \E k \in 1 .. max_nb_tx : q = filtered_pkts'[k]
      BY <1>2 DEF SentInv
    <3>1. max_nb_tx = 0
      BY <1>2 DEF SenderInv, BurstInv
    <3>2. /\ q.seq <= counters[q.srv]
          /\ \A k \in 1 .. n : filtered_pkts[k].srv = q.srv => q.id < filtered_pkts[k].id
      BY <1>4, <2>2, <3>1 DEF SentInv
    <3>3. q.id <= offered[q.srv] /\ q.id \in Nat /\ q.srv \in IngressServers
      BY <1>1 DEF SenderInv, BurstInv, Packet
    <3>4. ASSUME NEW k \in 1 .. (n + 1), filtered_pkts'[k].srv = q.srv
          PROVE  q.id < filtered_pkts'[k].id
      <4>1. CASE k = n + 1
        BY <1>1, <1>3, <1>4, <3>3, <3>4, <4>1
      <4>2. CASE k \in 1 .. n
        BY <1>4, <3>2, <3>4, <4>2
      <4> QED
        BY <1>1, <4>1, <4>2
    <3> QED
      BY <1>4, <3>2, <3>4
  <2>7. SeqIdentifiesFrame'
    BY <1>2, <2>1, <2>2 DEF SeqIdentifiesFrame
  <2> QED
    BY <2>5, <2>6, <2>7
<1> QED
  BY <1>6, <1>7 DEF SenderInv

\* A link accepts the first n frames of the burst.
LEMMA TxStep ==
    ASSUME ITypeOK, Shape, SenderInv, NEW n \in Nat, ITxPort(n)
    PROVE  SenderInv'
<1>1. /\ filtered_pkts \in Seq(Packet) /\ n <= Len(filtered_pkts)
      /\ max_nb_tx \in Nat /\ max_nb_tx <= Len(filtered_pkts)
      /\ counters \in [IngressServers -> Nat]
      /\ offered \in [IngressServers -> Nat]
      /\ sent \subseteq Packet /\ irun \in Nat
  BY DEF ITypeOK, Shape, ITxPort
<1>2. /\ sent' = sent \cup {filtered_pkts[k] : k \in 1 .. n}
      /\ max_nb_tx' = BestTx(n)
      /\ ipc = "ports"
      /\ UNCHANGED <<counters, tmp_counters, recorder, filtered_pkts, ipc, irun, offered>>
  BY DEF ITxPort
<1>3. max_nb_tx' \in Nat /\ max_nb_tx <= max_nb_tx' /\ n <= max_nb_tx'
      /\ max_nb_tx' <= Len(filtered_pkts)
  BY <1>1, <1>2 DEF BestTx
<1>4. DOMAIN filtered_pkts = 1 .. Len(filtered_pkts) /\ Len(filtered_pkts) \in Nat
      /\ \A k \in 1 .. Len(filtered_pkts) : filtered_pkts[k] \in Packet
  BY <1>1
<1>5. BurstInv'
  <2>1. \A q \in sent' : q.inc <= irun' /\ q.id \in 1 .. offered'[q.srv]
    BY <1>1, <1>2, <1>4 DEF SenderInv, BurstInv
  <2> QED
    BY <1>2, <2>1 DEF SenderInv, BurstInv
<1>6. ASSUME NoWrap' PROVE (StampInv /\ SentInv /\ SeqIdentifiesFrame)'
  <2>1. NoWrap
    BY <1>2, <1>6 DEF NoWrap
  <2>2. StampInv /\ SentInv /\ SeqIdentifiesFrame
    BY <2>1 DEF SenderInv
  <2>3. StampInv'
    BY <1>2, <2>2 DEF StampInv
  <2>4. SentInv'
    <3> SUFFICES ASSUME NEW q \in sent', q.inc = irun
                 PROVE  \/ /\ q.seq <= counters[q.srv]
                           /\ \A k \in DOMAIN filtered_pkts :
                                 filtered_pkts[k].srv = q.srv => q.id < filtered_pkts[k].id
                        \/ \E k \in 1 .. max_nb_tx' : q = filtered_pkts[k]
      BY <1>2 DEF SentInv
    <3>1. CASE q \in sent
      <4>1. CASE \E k \in 1 .. max_nb_tx : q = filtered_pkts[k]
        BY <1>1, <1>3, <4>1
      <4> QED
        BY <2>2, <3>1, <4>1 DEF SentInv
    <3>2. CASE \E k \in 1 .. n : q = filtered_pkts[k]
      BY <1>3, <3>2
    <3> QED
      BY <1>2, <3>1, <3>2
  <2>5. SeqIdentifiesFrame'
    <3> SUFFICES ASSUME NEW p \in sent', NEW q \in sent', p.srv = q.srv, p.inc = q.inc
                 PROVE  /\ p.seq < q.seq => p.id < q.id
                        /\ p.seq = q.seq => p.id = q.id
      BY DEF SeqIdentifiesFrame
    <3>1. CASE p \in sent /\ q \in sent
      BY <2>1, <2>2, <3>1 DEF SeqIdentifiesFrame
    <3>2. CASE p.inc = irun
      <4>1. /\ p \in Packet /\ q \in Packet
        BY <1>1, <1>2, <1>4
      <4>2. /\ p.seq \in Nat /\ q.seq \in Nat /\ p.id \in Nat /\ q.id \in Nat
            /\ counters[p.srv] \in Nat
        BY <1>1, <4>1 DEF Packet
      <4>3. \/ /\ p.seq <= counters[p.srv]
               /\ \A k \in DOMAIN filtered_pkts :
                     filtered_pkts[k].srv = p.srv => p.id < filtered_pkts[k].id
            \/ \E k \in DOMAIN filtered_pkts : p = filtered_pkts[k]
        BY <1>2, <1>3, <1>4, <2>4, <3>2 DEF SentInv
      <4>4. \/ /\ q.seq <= counters[q.srv]
               /\ \A k \in DOMAIN filtered_pkts :
                     filtered_pkts[k].srv = q.srv => q.id < filtered_pkts[k].id
            \/ \E k \in DOMAIN filtered_pkts : q = filtered_pkts[k]
        <5>1. q.inc = irun'
          BY <1>2, <3>2
        <5> QED
          BY <1>2, <1>3, <1>4, <2>4, <5>1 DEF SentInv
      <4>5. ASSUME NEW j \in DOMAIN filtered_pkts, NEW k \in DOMAIN filtered_pkts,
                   p = filtered_pkts[j], q = filtered_pkts[k]
            PROVE  /\ p.seq < q.seq => p.id < q.id
                   /\ p.seq = q.seq => p.id = q.id
        <5>1. j \in Nat /\ k \in Nat
          BY <1>4
        <5>2. CASE j < k
          BY <2>2, <4>2, <4>5, <5>2 DEF StampInv
        <5>3. CASE k < j
          BY <2>2, <4>2, <4>5, <5>3 DEF StampInv
        <5>4. CASE j = k
          BY <4>2, <4>5, <5>4
        <5> QED
          BY <5>1, <5>2, <5>3, <5>4
      <4>6. ASSUME NEW k \in DOMAIN filtered_pkts, q = filtered_pkts[k],
                   p.seq <= counters[p.srv], p.id < q.id
            PROVE  p.seq < q.seq /\ p.id < q.id
        BY <2>2, <4>2, <4>6 DEF StampInv
      <4>7. ASSUME NEW k \in DOMAIN filtered_pkts, p = filtered_pkts[k],
                   q.seq <= counters[q.srv], q.id < p.id
            PROVE  q.seq < p.seq /\ q.id < p.id
        BY <2>2, <4>2, <4>7 DEF StampInv
      <4>8. CASE ~ (p \in sent /\ q \in sent)
        <5>1. \/ \E k \in DOMAIN filtered_pkts : p = filtered_pkts[k]
              \/ \E k \in DOMAIN filtered_pkts : q = filtered_pkts[k]
          BY <1>1, <1>2, <1>4, <4>8
        <5> QED
          BY <4>2, <4>3, <4>4, <4>5, <4>6, <4>7, <5>1
      <4> QED
        BY <3>1, <4>8
    <3>3. CASE p.inc # irun
      <4>1. \A k \in 1 .. n : filtered_pkts[k].inc = irun
        BY <1>1, <1>4 DEF SenderInv, BurstInv
      <4> QED
        BY <1>2, <3>1, <3>3, <4>1
    <3> QED
      BY <3>2, <3>3
  <2> QED
    BY <2>3, <2>4, <2>5
<1> QED
  BY <1>5, <1>6 DEF SenderInv

\* The counters advance to what the best link accepted.
LEMMA CommitStep ==
    ASSUME ITypeOK, Shape, SenderInv, ICommit
    PROVE  SenderInv'
<1>1. /\ filtered_pkts \in Seq(Packet) /\ Len(filtered_pkts) \in Nat
      /\ recorder \in Seq([IngressServers -> Nat]) /\ Len(recorder) = Len(filtered_pkts)
      /\ DOMAIN recorder = 1 .. Len(filtered_pkts)
      /\ DOMAIN filtered_pkts = 1 .. Len(filtered_pkts)
      /\ max_nb_tx \in Nat /\ max_nb_tx <= Len(filtered_pkts)
      /\ counters \in [IngressServers -> Nat]
      /\ tmp_counters \in [IngressServers -> Nat]
      /\ offered \in [IngressServers -> Nat]
      /\ sent \subseteq Packet /\ irun \in Nat
  BY DEF ITypeOK, Shape
<1>2. /\ counters' = CommittedCounters
      /\ filtered_pkts' = <<>> /\ recorder' = <<>> /\ max_nb_tx' = 0 /\ ipc' = "poll"
      /\ UNCHANGED <<tmp_counters, irun, offered, sent>>
  BY DEF ICommit
<1>3. CommittedCounters \in [IngressServers -> Nat]
  BY <1>1 DEF CommittedCounters
<1>4. \A s \in IngressServers : /\ counters[s] <= CommittedCounters[s]
                                /\ CommittedCounters[s] <= tmp_counters[s]
  <2>1. CASE max_nb_tx = 0
    BY <1>1, <2>1 DEF CommittedCounters, SenderInv, BurstInv
  <2>2. CASE max_nb_tx # 0
    <3>1. max_nb_tx \in DOMAIN recorder
      BY <1>1, <2>2
    <3> QED
      BY <2>2, <3>1 DEF CommittedCounters, SenderInv, BurstInv
  <2> QED
    BY <2>1, <2>2
<1>5. BurstInv'
  BY <1>1, <1>2, <1>4 DEF SenderInv, BurstInv
<1>6. ASSUME NoWrap' PROVE (StampInv /\ SentInv /\ SeqIdentifiesFrame)'
  <2>1. NoWrap
    BY <1>2, <1>6 DEF NoWrap
  <2>2. StampInv /\ SentInv /\ SeqIdentifiesFrame
    BY <2>1 DEF SenderInv
  <2>3. StampInv'
    BY <1>2 DEF StampInv
  <2>4. SeqIdentifiesFrame'
    BY <1>2, <2>1, <2>2 DEF SeqIdentifiesFrame
  <2>5. SentInv'
    <3> SUFFICES ASSUME NEW q \in sent, q.inc = irun
                 PROVE  q.seq <= CommittedCounters[q.srv]
      BY <1>2 DEF SentInv
    <3>1. q.srv \in IngressServers /\ q.seq \in Nat
      BY <1>1 DEF Packet
    <3>2. CASE q.seq <= counters[q.srv]
      BY <1>1, <1>3, <1>4, <3>1, <3>2
    <3>3. ASSUME NEW k \in 1 .. max_nb_tx, q = filtered_pkts[k]
          PROVE  q.seq <= CommittedCounters[q.srv]
      <4>1. max_nb_tx # 0 /\ k <= max_nb_tx /\ k \in DOMAIN filtered_pkts
            /\ max_nb_tx \in DOMAIN filtered_pkts
        BY <1>1, <3>3
      <4> QED
        BY <2>2, <3>3, <4>1 DEF StampInv, CommittedCounters
    <3> QED
      BY <2>2, <3>2, <3>3 DEF SentInv
  <2> QED
    BY <2>3, <2>4, <2>5
<1> QED
  BY <1>5, <1>6 DEF SenderInv

\* SenderInv mentions none of the variables the other steps change.
LEMMA SenderFrame ==
    ASSUME SenderInv,
           UNCHANGED <<counters, tmp_counters, recorder, filtered_pkts, max_nb_tx, irun,
                       offered, sent>>,
           \/ ipc' = ipc
           \/ ipc \in {"boot", "poll"} /\ ipc' \in {"poll", "filter"}
           \/ ipc = "filter" /\ ipc' = "ports"
    PROVE  SenderInv'
<1>1. BurstInv'
  BY DEF SenderInv, BurstInv
<1>2. ASSUME NoWrap' PROVE (StampInv /\ SentInv /\ SeqIdentifiesFrame)'
  BY <1>2 DEF SenderInv, NoWrap, StampInv, SentInv, SeqIdentifiesFrame
<1> QED
  BY <1>1, <1>2 DEF SenderInv

LEMMA PipelineStep ==
    ASSUME ITypeOK, Shape, SenderInv, INext
    PROVE  SenderInv'
<1>1. CASE IRx
  <2>1. /\ tmp_counters' = counters /\ max_nb_tx' = 0 /\ filtered_pkts = <<>> /\ recorder = <<>>
        /\ ipc' = "filter"
        /\ UNCHANGED <<counters, recorder, filtered_pkts, irun, offered, sent>>
    <3>1. Len(recorder) = 0 /\ recorder \in Seq([IngressServers -> Nat])
      BY <1>1 DEF IRx, SenderInv, BurstInv, ITypeOK, Shape
    <3>2. recorder = <<>>
      BY <3>1
    <3> QED
      BY <1>1, <3>2 DEF IRx, SenderInv, BurstInv
  <2>2. max_nb_tx = 0
    BY <1>1 DEF IRx, SenderInv, BurstInv
  <2>3. BurstInv'
    <3>1. \A s \in IngressServers : counters[s] <= counters[s] /\ counters[s] <= offered[s]
      BY DEF SenderInv, BurstInv, ITypeOK
    <3>2. \A p \in sent : p.inc <= irun /\ p.id \in 1 .. offered[p.srv]
      BY DEF SenderInv, BurstInv
    <3> QED
      BY <2>1, <3>1, <3>2 DEF BurstInv
  <2>4. ASSUME NoWrap' PROVE (StampInv /\ SentInv /\ SeqIdentifiesFrame)'
    <3>1. NoWrap
      BY <2>1, <2>4 DEF NoWrap
    <3>2. SentInv /\ SeqIdentifiesFrame
      BY <3>1 DEF SenderInv
    <3>3. StampInv'
      BY <2>1 DEF StampInv
    <3>4. SentInv'
      BY <2>1, <2>2, <3>2 DEF SentInv
    <3>5. SeqIdentifiesFrame'
      BY <2>1, <3>1, <3>2 DEF SeqIdentifiesFrame
    <3> QED
      BY <3>3, <3>4, <3>5
  <2> QED
    BY <2>3, <2>4 DEF SenderInv
<1>2. CASE IFilterUnknown
  BY <1>2, SenderFrame DEF IFilterUnknown
<1>3. ASSUME NEW s \in IngressServers, IFilterKnown(s) PROVE SenderInv'
  BY <1>3, StampStep
<1>4. CASE IFiltered
  BY <1>4, SenderFrame DEF IFiltered
<1>5. CASE ISkipPort
  BY <1>5, SenderFrame DEF ISkipPort
<1>6. ASSUME NEW n \in 0 .. MAX_PKT_BURST, ITxPort(n) PROVE SenderInv'
  BY <1>6, TxStep
<1>7. CASE ICommit
  BY <1>7, CommitStep
<1> QED
  BY <1>1, <1>2, <1>3, <1>4, <1>5, <1>6, <1>7 DEF INext

LEMMA SenderStep == TInv /\ SenderInv /\ [Next]_vars => SenderInv'
<1> SUFFICES ASSUME TInv, SenderInv, [Next]_vars PROVE SenderInv'
  OBVIOUS
<1>1. ITypeOK /\ Shape
  BY DEF TInv, TypeOK
<1>2. CASE UNCHANGED ivars
  BY <1>2, SenderFrame DEF ivars, ibuf
<1>3. CASE IBoot
  BY <1>2, <1>3, SenderFrame DEF IBoot
<1>4. CASE IStep
  BY <1>1, <1>4, PipelineStep DEF IStep
<1>5. ASSUME NEW l \in Links, IInterrupt(l) PROVE SenderInv'
  BY <1>5, SenderFrame DEF IInterrupt, ibuf
<1>6. ASSUME NEW l \in Links, ITxDone(l) PROVE SenderInv'
  BY <1>6, SenderFrame DEF ITxDone, ibuf
<1>7. CASE IRestart
  <2>1. /\ irun' = irun + 1 /\ ipc' = "boot" /\ filtered_pkts' = <<>> /\ recorder' = <<>>
        /\ max_nb_tx' = 0
        /\ counters' = [s \in IngressServers |-> 0]
        /\ tmp_counters' = [s \in IngressServers |-> 0]
        /\ UNCHANGED <<offered, sent>>
    BY <1>7 DEF IRestart, IReset
  <2>2. irun \in Nat /\ sent \subseteq Packet /\ offered \in [IngressServers -> Nat]
    BY <1>1 DEF ITypeOK
  <2>3. \A p \in sent : p.inc < irun' /\ p.inc \in Nat /\ p.id \in 1 .. offered[p.srv]
    BY <2>1, <2>2 DEF SenderInv, BurstInv, Packet
  <2>4. BurstInv'
    BY <2>1, <2>2, <2>3 DEF BurstInv
  <2>5. ASSUME NoWrap' PROVE (StampInv /\ SentInv /\ SeqIdentifiesFrame)'
    <3>1. NoWrap /\ SeqIdentifiesFrame
      BY <2>1, <2>5 DEF NoWrap, SenderInv
    <3>2. StampInv' /\ SeqIdentifiesFrame'
      BY <2>1, <3>1 DEF StampInv, SeqIdentifiesFrame
    <3>3. SentInv'
      BY <2>1, <2>2, <2>3 DEF SentInv
    <3> QED
      BY <3>2, <3>3
  <2> QED
    BY <2>4, <2>5 DEF SenderInv
<1> QED
  BY <1>2, <1>3, <1>4, <1>5, <1>6, <1>7
  DEF Next, Network, EBoot, EStep, EInterrupt, Transfer, Lose, LinkChange, ERestart, vars

-----------------------------------------------------------------------------
(* Sequences whose entries all belong to a set T.                          *)

LEMMA EntriesOfConcat ==
    ASSUME NEW S, NEW T, NEW s \in Seq(S), NEW t \in Seq(S), NEW n \in Nat, n <= Len(t),
           \A k \in DOMAIN s : s[k] \in T, \A k \in 1 .. n : t[k] \in T
    PROVE  \A k \in DOMAIN (s \o SubSeq(t, 1, n)) : (s \o SubSeq(t, 1, n))[k] \in T
<1> DEFINE u == SubSeq(t, 1, n)
<1>1. u \in Seq(S) /\ Len(u) = n /\ \A k \in 1 .. n : u[k] = t[k]
  OBVIOUS
<1> HIDE DEF u
<1>2. ASSUME NEW k \in DOMAIN (s \o u) PROVE (s \o u)[k] \in T
  <2>1. k \in 1 .. (Len(s) + n) /\ Len(s) \in Nat
    BY <1>1, <1>2
  <2>2. CASE k <= Len(s)
    BY <1>1, <2>1, <2>2
  <2>3. CASE k > Len(s)
    <3>1. (s \o u)[k] = u[k - Len(s)] /\ k - Len(s) \in 1 .. n
      BY <1>1, <2>1, <2>3
    <3> QED
      BY <1>1, <3>1
  <2> QED
    BY <2>1, <2>2, <2>3
<1> QED
  BY <1>2 DEF u

LEMMA EntriesOfAppend ==
    ASSUME NEW S, NEW T, NEW s \in Seq(S), NEW e \in T, \A k \in DOMAIN s : s[k] \in T
    PROVE  \A k \in DOMAIN Append(s, e) : Append(s, e)[k] \in T
<1> SUFFICES ASSUME NEW k \in DOMAIN Append(s, e) PROVE Append(s, e)[k] \in T
  OBVIOUS
<1>1. k \in 1 .. (Len(s) + 1) /\ Len(s) \in Nat /\ DOMAIN s = 1 .. Len(s)
  OBVIOUS
<1>2. CASE k = Len(s) + 1
  BY <1>2
<1>3. CASE k \in 1 .. Len(s)
  BY <1>1, <1>3
<1> QED
  BY <1>1, <1>2, <1>3

LEMMA EntriesOfSubSeq ==
    ASSUME NEW S, NEW T, NEW s \in Seq(S), NEW m \in Nat \ {0}, NEW n \in Nat, n <= Len(s),
           \A k \in DOMAIN s : s[k] \in T
    PROVE  \A k \in DOMAIN SubSeq(s, m, n) : SubSeq(s, m, n)[k] \in T
<1> SUFFICES ASSUME NEW k \in DOMAIN SubSeq(s, m, n) PROVE SubSeq(s, m, n)[k] \in T
  OBVIOUS
<1>1. DOMAIN SubSeq(s, m, n) = 1 .. (n - m + 1) /\ DOMAIN s = 1 .. Len(s) /\ Len(s) \in Nat
  OBVIOUS
<1>2. k + m - 1 \in DOMAIN s
  BY <1>1
<1>3. SubSeq(s, m, n)[k] = s[k + m - 1]
  BY <1>1
<1> QED
  BY <1>2, <1>3

-----------------------------------------------------------------------------
\* Frames in transit: sent only grows, and frames move towards the receiver.
LEMMA TransitStep == TInv /\ TransitInv /\ [Next]_vars => TransitInv'
<1> SUFFICES ASSUME TInv, TransitInv, [Next]_vars PROVE TransitInv'
  OBVIOUS
<1>1. /\ filtered_pkts \in Seq(Packet)
      /\ txq \in [Links -> Seq(Packet)] /\ rxq \in [Links -> Seq(Packet)]
      /\ epkts \in Seq(Packet) /\ efiltered \in Seq(Packet) /\ delivered \in Seq(Packet)
      /\ imask \subseteq Links /\ emask \subseteq Links
  BY DEF TInv, TypeOK, ITypeOK, ETypeOK
<1> DEFINE Queues == <<txq, rxq, epkts, efiltered, delivered, sent>>
<1>2. CASE UNCHANGED Queues
  BY <1>2 DEF TransitInv
<1>3. ASSUME NEW n \in Nat, ITxPort(n), UNCHANGED evars PROVE TransitInv'
  <2>1. sent \subseteq sent'
    BY <1>3 DEF ITxPort
  <2>2. /\ n <= Len(filtered_pkts) /\ egress_id \in Links
        /\ txq' = [txq EXCEPT ![egress_id] = @ \o SubSeq(filtered_pkts, 1, n)]
        /\ \A k \in 1 .. n : filtered_pkts[k] \in sent'
    BY <1>1, <1>3 DEF ITxPort
  <2>3. ASSUME NEW l \in Links, NEW k \in DOMAIN txq'[l] PROVE txq'[l][k] \in sent'
    <3>1. CASE l # egress_id
      BY <1>1, <2>1, <2>2, <2>3, <3>1 DEF TransitInv
    <3>2. CASE l = egress_id
      <4>1. txq[l] \in Seq(Packet) /\ txq'[l] = txq[l] \o SubSeq(filtered_pkts, 1, n)
        BY <1>1, <2>2, <3>2
      <4>2. \A j \in DOMAIN txq[l] : txq[l][j] \in sent'
        BY <2>1 DEF TransitInv
      <4> QED
        BY <1>1, <2>2, <2>3, <4>1, <4>2, EntriesOfConcat
    <3> QED
      BY <3>1, <3>2
  <2> QED
    BY <1>3, <2>1, <2>3 DEF TransitInv, evars
<1>4. CASE IStep
  BY <1>2, <1>3, <1>4
  DEF IStep, INext, IRx, IFilterUnknown, IFilterKnown, IFiltered, ISkipPort, ICommit, evars
<1>5. ASSUME NEW l \in Links, ITxDone(l)
      PROVE  /\ \A m \in Links : \A k \in DOMAIN txq'[m] : txq'[m][k] \in sent'
             /\ Head(txq[l]) \in sent /\ Head(txq[l]) \in Packet /\ sent' = sent
  <2>1. txq[l] \in Seq(Packet) /\ txq[l] # <<>> /\ txq' = [txq EXCEPT ![l] = Tail(@)]
        /\ sent' = sent
    BY <1>1, <1>5 DEF ITxDone
  <2>2. Head(txq[l]) = txq[l][1] /\ 1 \in DOMAIN txq[l] /\ Head(txq[l]) \in Packet
    BY <2>1
  <2>3. \A k \in DOMAIN Tail(txq[l]) : k + 1 \in DOMAIN txq[l] /\ Tail(txq[l])[k] = txq[l][k + 1]
    BY <2>1
  <2>4. ASSUME NEW m \in Links, NEW k \in DOMAIN txq'[m] PROVE txq'[m][k] \in sent
    <3>1. CASE m = l
      BY <1>1, <2>1, <2>3, <2>4, <3>1 DEF TransitInv
    <3>2. CASE m # l
      BY <1>1, <2>1, <2>4, <3>2 DEF TransitInv
    <3> QED
      BY <3>1, <3>2
  <2> QED
    BY <2>1, <2>2, <2>4 DEF TransitInv
<1>6. ASSUME NEW l \in Links, Transfer(l) PROVE TransitInv'
  <2>1. rxq' = [rxq EXCEPT ![l] = Append(@, Head(txq[l]))] /\ ITxDone(l)
        /\ UNCHANGED <<epkts, efiltered, delivered>>
    BY <1>6 DEF Transfer, EArrive
  <2>2. ASSUME NEW m \in Links, NEW k \in DOMAIN rxq'[m] PROVE rxq'[m][k] \in sent
    <3>1. CASE m = l
      BY <1>1, <1>5, <2>1, <2>2, <3>1 DEF TransitInv
    <3>2. CASE m # l
      BY <1>1, <2>1, <2>2, <3>2 DEF TransitInv
    <3> QED
      BY <3>1, <3>2
  <2> QED
    BY <1>5, <2>1, <2>2 DEF TransitInv
<1>7. ASSUME NEW l \in Links, Lose(l) PROVE TransitInv'
  BY <1>5, <1>7 DEF Lose, TransitInv, evars
<1>8. ASSUME NEW n \in Nat, ERx(n), UNCHANGED <<txq, sent>> PROVE TransitInv'
  <2>1. /\ eport \in Links /\ rxq[eport] \in Seq(Packet) /\ n <= Len(rxq[eport])
        /\ epkts' = SubSeq(rxq[eport], 1, n)
        /\ rxq' = [rxq EXCEPT ![eport] = SubSeq(@, n + 1, Len(@))]
        /\ efiltered' = <<>> /\ UNCHANGED delivered
    BY <1>1, <1>8 DEF ERx
  <2>2. \A k \in DOMAIN epkts' : k \in DOMAIN rxq[eport] /\ epkts'[k] = rxq[eport][k]
    BY <2>1
  <2>3. ASSUME NEW m \in Links, NEW k \in DOMAIN rxq'[m] PROVE rxq'[m][k] \in sent
    <3>1. CASE m = eport
      <4>1. rxq'[m] = SubSeq(rxq[eport], n + 1, Len(rxq[eport]))
        BY <1>1, <2>1, <3>1
      <4>2. \A j \in DOMAIN rxq[eport] : rxq[eport][j] \in sent
        BY <2>1 DEF TransitInv
      <4>3. /\ n + 1 \in Nat \ {0} /\ Len(rxq[eport]) \in Nat
            /\ Len(rxq[eport]) <= Len(rxq[eport])
        BY <2>1
      <4>4. \A j \in DOMAIN SubSeq(rxq[eport], n + 1, Len(rxq[eport])) :
               SubSeq(rxq[eport], n + 1, Len(rxq[eport]))[j] \in sent
        BY <2>1, <4>2, <4>3, EntriesOfSubSeq
      <4> QED
        BY <2>3, <4>1, <4>4
    <3>2. CASE m # eport
      BY <1>1, <2>1, <2>3, <3>2 DEF TransitInv
    <3> QED
      BY <3>1, <3>2
  <2>4. \A k \in DOMAIN epkts' : epkts'[k] \in sent
    BY <2>1, <2>2 DEF TransitInv
  <2> QED
    BY <1>8, <2>1, <2>3, <2>4 DEF TransitInv
<1>9. ASSUME EAccept \/ EDrop, UNCHANGED <<txq, sent>> PROVE TransitInv'
  <2>1. epkts # <<>> /\ epkts' = Tail(epkts) /\ UNCHANGED <<rxq, delivered>>
        /\ efiltered' \in {efiltered, Append(efiltered, Head(epkts))}
    BY <1>9 DEF EAccept, EDrop
  <2>2. Head(epkts) = epkts[1] /\ 1 \in DOMAIN epkts
    BY <1>1, <2>1
  <2>3. \A k \in DOMAIN epkts' : k + 1 \in DOMAIN epkts /\ epkts'[k] = epkts[k + 1]
    BY <1>1, <2>1
  <2>4. \A k \in DOMAIN efiltered' : efiltered'[k] \in sent
    <3>1. Head(epkts) \in sent /\ \A k \in DOMAIN efiltered : efiltered[k] \in sent
      BY <2>2 DEF TransitInv
    <3>2. \A k \in DOMAIN Append(efiltered, Head(epkts)) :
             Append(efiltered, Head(epkts))[k] \in sent
      BY <1>1, <3>1, EntriesOfAppend
    <3> QED
      BY <2>1, <3>1, <3>2
  <2> QED
    BY <1>9, <2>1, <2>3, <2>4 DEF TransitInv
<1>10. ASSUME NEW n \in Nat, ETx(n), UNCHANGED <<txq, sent>> PROVE TransitInv'
  <2>1. delivered' = delivered \o SubSeq(efiltered, 1, n) /\ n <= Len(efiltered)
        /\ efiltered' = <<>> /\ UNCHANGED <<epkts, rxq>>
    BY <1>1, <1>10 DEF ETx
  <2>2. /\ SubSeq(efiltered, 1, n) \in Seq(Packet) /\ Len(SubSeq(efiltered, 1, n)) = n
        /\ \A j \in 1 .. n : SubSeq(efiltered, 1, n)[j] = efiltered[j]
    BY <1>1, <2>1
  <2>3. ASSUME NEW k \in DOMAIN delivered' PROVE delivered'[k] \in sent
    <3>1. CASE k \in DOMAIN delivered
      <4>1. delivered'[k] = delivered[k]
        BY <1>1, <2>1, <2>2, <3>1
      <4> QED
        BY <3>1, <4>1 DEF TransitInv
    <3>2. CASE k \notin DOMAIN delivered
      <4>1. k - Len(delivered) \in DOMAIN efiltered
            /\ delivered'[k] = efiltered[k - Len(delivered)]
        BY <1>1, <2>1, <2>2, <2>3, <3>2
      <4> QED
        BY <4>1 DEF TransitInv
    <3> QED
      BY <3>1, <3>2
  <2> QED
    BY <1>10, <2>1, <2>3 DEF TransitInv
<1>11. CASE EStep
  BY <1>2, <1>8, <1>9, <1>10, <1>11 DEF EStep, ENext, ESkipPort, EFiltered, ivars
<1>12. CASE IRestart
  BY <1>12 DEF IRestart, IReset, TransitInv, evars
<1>13. CASE ERestart
  BY <1>13 DEF ERestart, EReset, TransitInv, ivars
<1>14. CASE IBoot \/ EBoot \/ UNCHANGED vars
  BY <1>2, <1>14 DEF IBoot, EBoot, vars, ivars, evars
<1>15. ASSUME NEW l \in Links, IInterrupt(l) \/ EInterrupt(l) \/ LinkChange(l)
       PROVE  TransitInv'
  BY <1>2, <1>15 DEF IInterrupt, EInterrupt, LinkChange, ivars, evars
<1> QED
  BY <1>4, <1>6, <1>7, <1>11, <1>12, <1>13, <1>14, <1>15 DEF Next, Network

-----------------------------------------------------------------------------
\* The watermarks and what passed them.
LEMMA AcceptStep ==
    ASSUME ETypeOK, WatermarkInv, EAccept
    PROVE  WatermarkInv'
<1> DEFINE h == Head(epkts)
           n == Len(efiltered)
<1>1. /\ h \in Packet /\ n \in Nat /\ efiltered \in Seq(Packet) /\ delivered \in Seq(Packet)
      /\ ecounters \in [EgressServers -> Nat]
  BY DEF EAccept, ETypeOK
<1>2. h.srv \in IngressServers /\ h.seq \in Nat
  BY <1>1 DEF Packet
<1>3. h.srv \in EgressServers /\ ecounters[h.srv] < h.seq
  BY <1>2, KnownServer DEF EAccept, IsFresh
<1>4. /\ ecounters' = [ecounters EXCEPT ![h.srv] = h.seq]
      /\ efiltered' = Append(efiltered, h)
      /\ delivered' = delivered
  BY DEF EAccept
<1> HIDE DEF h
<1>5. /\ DOMAIN efiltered = 1 .. n /\ DOMAIN efiltered' = 1 .. (n + 1)
      /\ efiltered'[n + 1] = h
      /\ \A k \in 1 .. n : efiltered'[k] = efiltered[k] /\ efiltered[k] \in Packet
  BY <1>1, <1>4
<1>6. \A s \in EgressServers : /\ ecounters[s] \in Nat /\ ecounters'[s] \in Nat
                               /\ ecounters[s] <= ecounters'[s]
  <2> SUFFICES ASSUME NEW s \in EgressServers
               PROVE  /\ ecounters[s] \in Nat /\ ecounters'[s] \in Nat
                      /\ ecounters[s] <= ecounters'[s]
    OBVIOUS
  <2>1. ecounters[s] \in Nat /\ ecounters'[s] = IF s = h.srv THEN h.seq ELSE ecounters[s]
    BY <1>1, <1>4
  <2> QED
    BY <1>2, <1>3, <2>1
<1>7. \A i \in DOMAIN delivered : delivered[i].seq \in Nat
  <2>1. \A i \in DOMAIN delivered : delivered[i] \in Packet
    BY <1>1
  <2> QED
    BY <2>1 DEF Packet
<1>8. \A i \in 1 .. n : efiltered[i].seq \in Nat
  BY <1>5 DEF Packet
<1>9. ecounters'[h.srv] = h.seq
  <2>1. h.srv \in DOMAIN ecounters
    BY <1>1, <1>3
  <2> QED
    BY <1>4, <2>1
<1>10. Rising(delivered)'
  BY <1>4 DEF WatermarkInv, Rising
<1>11. Rising(efiltered)'
  <2> SUFFICES ASSUME NEW i \in 1 .. (n + 1), NEW j \in 1 .. (n + 1), i < j,
                      efiltered'[i].srv = efiltered'[j].srv
               PROVE  efiltered'[i].seq < efiltered'[j].seq
    BY <1>5 DEF Rising
  <2>1. i \in 1 .. n
    BY <1>1
  <2>2. CASE j \in 1 .. n
    BY <1>5, <2>1, <2>2 DEF WatermarkInv, Rising
  <2>3. CASE j = n + 1
    <3>1. efiltered[i].srv = h.srv /\ efiltered'[i] = efiltered[i] /\ efiltered'[j] = h
      BY <1>5, <2>1, <2>3
    <3>2. efiltered[i].seq <= ecounters[h.srv]
      BY <1>5, <2>1, <3>1 DEF WatermarkInv
    <3> QED
      BY <1>2, <1>3, <1>6, <1>8, <2>1, <3>1, <3>2
  <2> QED
    BY <1>1, <2>2, <2>3
<1>12. \A i \in DOMAIN delivered', j \in DOMAIN efiltered' :
          delivered'[i].srv = efiltered'[j].srv => delivered'[i].seq < efiltered'[j].seq
  <2> SUFFICES ASSUME NEW i \in DOMAIN delivered, NEW j \in 1 .. (n + 1),
                      delivered[i].srv = efiltered'[j].srv
               PROVE  delivered[i].seq < efiltered'[j].seq
    BY <1>4, <1>5
  <2>1. CASE j \in 1 .. n
    BY <1>5, <2>1 DEF WatermarkInv
  <2>2. CASE j = n + 1
    <3>1. delivered[i].srv = h.srv /\ efiltered'[j] = h
      BY <1>5, <2>2
    <3>2. delivered[i].seq <= ecounters[h.srv]
      BY <3>1 DEF WatermarkInv
    <3> QED
      BY <1>2, <1>3, <1>6, <1>7, <3>1, <3>2
  <2> QED
    BY <1>1, <2>1, <2>2
<1>13. \A i \in DOMAIN delivered' : /\ delivered'[i].srv \in EgressServers
                                    /\ delivered'[i].seq <= ecounters'[delivered'[i].srv]
  <2> SUFFICES ASSUME NEW i \in DOMAIN delivered
               PROVE  /\ delivered[i].srv \in EgressServers
                      /\ delivered[i].seq <= ecounters'[delivered[i].srv]
    BY <1>4
  <2>1. /\ delivered[i].srv \in EgressServers
        /\ delivered[i].seq <= ecounters[delivered[i].srv]
    BY DEF WatermarkInv
  <2> QED
    BY <1>6, <1>7, <2>1
<1>14. \A i \in DOMAIN efiltered' : /\ efiltered'[i].srv \in EgressServers
                                    /\ efiltered'[i].seq <= ecounters'[efiltered'[i].srv]
  <2> SUFFICES ASSUME NEW i \in 1 .. (n + 1)
               PROVE  /\ efiltered'[i].srv \in EgressServers
                      /\ efiltered'[i].seq <= ecounters'[efiltered'[i].srv]
    BY <1>5
  <2>1. CASE i = n + 1
    BY <1>2, <1>3, <1>5, <1>9, <2>1
  <2>2. CASE i \in 1 .. n
    <3>1. /\ efiltered[i].srv \in EgressServers
          /\ efiltered[i].seq <= ecounters[efiltered[i].srv]
      BY <1>5, <2>2 DEF WatermarkInv
    <3> QED
      BY <1>5, <1>6, <1>8, <2>2, <3>1
  <2> QED
    BY <1>1, <2>1, <2>2
<1> QED
  BY <1>10, <1>11, <1>12, <1>13, <1>14 DEF WatermarkInv

LEMMA DeliverStep ==
    ASSUME ETypeOK, WatermarkInv, NEW n \in Nat, ETx(n)
    PROVE  WatermarkInv' /\ \A i \in DOMAIN delivered' :
              \/ i \in DOMAIN delivered /\ delivered'[i] = delivered[i]
              \/ \E j \in DOMAIN efiltered : delivered'[i] = efiltered[j]
<1> DEFINE m == Len(delivered)
           u == SubSeq(efiltered, 1, n)
<1>1. /\ delivered \in Seq(Packet) /\ efiltered \in Seq(Packet) /\ n <= Len(efiltered)
      /\ delivered' = delivered \o u /\ efiltered' = <<>> /\ ecounters' = ecounters
      /\ m \in Nat /\ DOMAIN delivered = 1 .. m /\ DOMAIN efiltered = 1 .. Len(efiltered)
  BY DEF ETx, ETypeOK
<1>2. u \in Seq(Packet) /\ Len(u) = n /\ \A k \in 1 .. n : u[k] = efiltered[k]
  BY <1>1
<1> HIDE DEF u
<1>3. /\ DOMAIN delivered' = 1 .. (m + n)
      /\ \A i \in 1 .. m : delivered'[i] = delivered[i]
      /\ \A i \in (m + 1) .. (m + n) : /\ delivered'[i] = efiltered[i - m]
                                      /\ i - m \in DOMAIN efiltered
  <2>1. DOMAIN delivered' = 1 .. (m + n)
    BY <1>1, <1>2
  <2>2. \A i \in 1 .. m : delivered'[i] = delivered[i]
    BY <1>1, <1>2
  <2>3. ASSUME NEW i \in (m + 1) .. (m + n)
        PROVE  delivered'[i] = efiltered[i - m] /\ i - m \in DOMAIN efiltered
    <3>1. i - m \in 1 .. n /\ Len(efiltered) \in Nat
      BY <1>1
    <3>2. delivered'[i] = u[i - m]
      BY <1>1, <1>2
    <3> QED
      BY <1>1, <1>2, <3>1, <3>2
  <2> QED
    BY <2>1, <2>2, <2>3
<1>4. Rising(delivered)'
  <2> SUFFICES ASSUME NEW i \in 1 .. (m + n), NEW j \in 1 .. (m + n), i < j,
                      delivered'[i].srv = delivered'[j].srv
               PROVE  delivered'[i].seq < delivered'[j].seq
    BY <1>3 DEF Rising
  <2>1. CASE i \in 1 .. m /\ j \in 1 .. m
    BY <1>1, <1>3, <2>1 DEF WatermarkInv, Rising
  <2>2. CASE i \in 1 .. m /\ j \in (m + 1) .. (m + n)
    BY <1>1, <1>3, <2>2 DEF WatermarkInv
  <2>3. CASE i \in (m + 1) .. (m + n) /\ j \in (m + 1) .. (m + n)
    <3>1. i - m < j - m
      BY <1>1
    <3> QED
      BY <1>3, <2>3, <3>1 DEF WatermarkInv, Rising
  <2>4. m \in Nat
    BY <1>1
  <2> QED
    BY <2>1, <2>2, <2>3, <2>4
<1>5. \A i \in DOMAIN delivered' :
         \/ i \in DOMAIN delivered /\ delivered'[i] = delivered[i]
         \/ \E j \in DOMAIN efiltered : delivered'[i] = efiltered[j]
  <2> SUFFICES ASSUME NEW i \in 1 .. (m + n)
               PROVE  \/ i \in DOMAIN delivered /\ delivered'[i] = delivered[i]
                      \/ \E j \in DOMAIN efiltered : delivered'[i] = efiltered[j]
    BY <1>3
  <2>1. CASE i \in 1 .. m
    BY <1>1, <1>3, <2>1
  <2>2. CASE i \in (m + 1) .. (m + n)
    BY <1>3, <2>2
  <2>3. m \in Nat
    BY <1>1
  <2> QED
    BY <2>1, <2>2, <2>3
<1>6. \A i \in DOMAIN delivered' : /\ delivered'[i].srv \in EgressServers
                                   /\ delivered'[i].seq <= ecounters'[delivered'[i].srv]
  BY <1>1, <1>5 DEF WatermarkInv
<1> QED
  BY <1>1, <1>4, <1>5, <1>6 DEF WatermarkInv, Rising

LEMMA WatermarkStep == TInv /\ WatermarkInv /\ [Next]_vars => WatermarkInv'
<1> SUFFICES ASSUME TInv, WatermarkInv, [Next]_vars PROVE WatermarkInv'
  OBVIOUS
<1>1. ETypeOK
  BY DEF TInv, TypeOK
<1>2. CASE UNCHANGED <<ecounters, efiltered, delivered>>
  BY <1>2 DEF WatermarkInv, Rising
<1>3. ASSUME NEW n \in Nat, ERx(n) PROVE WatermarkInv'
  BY <1>3 DEF ERx, WatermarkInv, Rising
<1>4. CASE EStep
  BY <1>1, <1>2, <1>3, <1>4, AcceptStep, DeliverStep
  DEF EStep, ENext, ESkipPort, EDrop, EFiltered
<1>5. CASE ERestart
  BY <1>5 DEF ERestart, EReset, WatermarkInv, Rising
<1> QED
  BY <1>2, <1>4, <1>5
  DEF Next, Network, IBoot, EBoot, IStep, IInterrupt, EInterrupt, Transfer, EArrive,
      Lose, LinkChange, IRestart, vars, evars

LEMMA OrderInvStep == OrderInv /\ [Next]_vars => OrderInv'
BY TInvStep, SenderStep, TransitStep, WatermarkStep DEF OrderInv

LEMMA OrderInvCorrect == Spec => []OrderInv
BY InitOrderInv, OrderInvStep, PTL DEF Spec

\* A number names one frame of a run of the sender, however the links accepted
\* the bursts in part and whenever either host was restarted.
THEOREM SequenceNumbersIdentifyFrames == Spec => []SeqIdentifiesFrame
<1>1. OrderInv => SeqIdentifiesFrame
  BY DEF OrderInv, SenderInv, SeqIdentifiesFrame
<1> QED
  BY <1>1, OrderInvCorrect, PTL

LEMMA OrderInvImpliesInOrder == OrderInv => InOrderOnce
<1> SUFFICES ASSUME OrderInv, NoWrap, NEW i \in DOMAIN delivered, NEW j \in DOMAIN delivered,
                    i < j, delivered[i].srv = delivered[j].srv,
                    delivered[i].inc = delivered[j].inc
             PROVE  delivered[i].id < delivered[j].id
  BY DEF InOrderOnce
<1>1. delivered[i].seq < delivered[j].seq
  BY DEF OrderInv, WatermarkInv, Rising
<1>2. delivered[i] \in sent /\ delivered[j] \in sent
  BY DEF OrderInv, TransitInv
<1> QED
  BY <1>1, <1>2 DEF OrderInv, SenderInv, SeqIdentifiesFrame

\* The receiver delivers no frame of a run of the sender twice and none before an
\* earlier one of its server: for any number of links, losses and restarts.
THEOREM DeliveryInOrder == Spec => []InOrderOnce
BY OrderInvCorrect, OrderInvImpliesInOrder, PTL

-----------------------------------------------------------------------------
(* No gaps: the invariant behind SeqsContiguous.                           *)

\* The counters the pipeline commits to when the best link accepts k frames.
CountersAfter(k) == IF k = 0 THEN counters ELSE recorder[k]

\* While the burst is stamped the recorder keeps up with the stamps.
RecorderCurrent == ipc = "filter" => tmp_counters = CountersAfter(Len(filtered_pkts))

\* Every number a commit to k frames would pass is that of one of those frames.
BurstCovers ==
    \A k \in 0 .. Len(filtered_pkts), s \in IngressServers, n \in Nat :
       counters[s] < n /\ n <= CountersAfter(k)[s]
          => \E j \in 1 .. k : filtered_pkts[j].srv = s /\ filtered_pkts[j].seq = n

\* Every number up to the counters was put on a link by this run.
CountersCovered ==
    \A s \in IngressServers, n \in Nat :
       0 < n /\ n <= counters[s] => \E q \in sent : q.srv = s /\ q.inc = irun /\ q.seq = n

\* The frames the commit will count were put on a link, and no frame has number 0.
AcceptedAreSent ==
    /\ \A k \in 1 .. max_nb_tx : filtered_pkts[k] \in sent
    /\ \A q \in sent : q.inc = irun => 0 < q.seq

GapFree == RecorderCurrent /\ BurstCovers /\ CountersCovered /\ AcceptedAreSent
GapInv == NoWrap => GapFree

LEMMA InitGapInv == Init => GapInv
<1> SUFFICES ASSUME Init PROVE GapFree
  BY DEF GapInv
<1>1. /\ counters = [s \in IngressServers |-> 0] /\ filtered_pkts = <<>> /\ Len(filtered_pkts) = 0
      /\ max_nb_tx = 0 /\ ipc = "boot" /\ sent = {}
  BY DEF Init, IInit
<1>2. RecorderCurrent /\ CountersCovered /\ AcceptedAreSent
  BY <1>1 DEF RecorderCurrent, CountersCovered, AcceptedAreSent
<1>3. BurstCovers
  BY <1>1 DEF BurstCovers, CountersAfter
<1> QED
  BY <1>2, <1>3 DEF GapFree

\* GapInv mentions none of the variables the other steps change.
LEMMA GapFrame ==
    ASSUME GapInv,
           UNCHANGED <<counters, tmp_counters, recorder, filtered_pkts, max_nb_tx, irun,
                       offered, sent>>,
           ipc' = ipc \/ ipc' # "filter"
    PROVE  GapInv'
<1> SUFFICES ASSUME NoWrap' PROVE GapFree'
  BY DEF GapInv
<1>1. GapFree
  BY DEF GapInv, NoWrap
<1> QED
  BY <1>1 DEF GapFree, RecorderCurrent, BurstCovers, CountersCovered, AcceptedAreSent,
              CountersAfter

\* A frame of server s is stamped with the next number.
LEMMA GapStampStep ==
    ASSUME ITypeOK, Shape, SenderInv, GapInv, NEW s \in IngressServers, IFilterKnown(s)
    PROVE  GapInv'
<1> SUFFICES ASSUME NoWrap' PROVE GapFree'
  BY DEF GapInv
<1> DEFINE p == update_source_mac(s, tmp_counters'[s], irun, offered'[s])
           m == Len(filtered_pkts)
<1>1. /\ filtered_pkts \in Seq(Packet) /\ m \in Nat
      /\ recorder \in Seq([IngressServers -> Nat]) /\ Len(recorder) = m
      /\ counters \in [IngressServers -> Nat]
      /\ tmp_counters \in [IngressServers -> Nat]
      /\ offered \in [IngressServers -> Nat]
  BY DEF ITypeOK, Shape
<1>2. /\ tmp_counters' = [tmp_counters EXCEPT ![s] = @ + 1]
      /\ offered' = [offered EXCEPT ![s] = @ + 1]
      /\ filtered_pkts' = Append(filtered_pkts, p)
      /\ recorder' = Append(recorder, tmp_counters')
      /\ ipc = "filter"
      /\ UNCHANGED <<counters, max_nb_tx, ipc, irun, sent>>
  BY DEF IFilterKnown
<1>3. NoWrap
  BY <1>1, <1>2, WidthsAssumption DEF NoWrap
<1>4. GapFree
  BY <1>3 DEF GapInv
<1>5. p.srv = s /\ p.seq = tmp_counters[s] + 1
  <2>1. tmp_counters[s] + 1 <= offered'[s] /\ offered'[s] < CounterMod
    BY <1>1, <1>2 DEF SenderInv, BurstInv, NoWrap
  <2>2. tmp_counters[s] + 1 \in Nat /\ tmp_counters[s] + 1 < CounterMod
    BY <1>1, <1>2, <2>1, WidthsAssumption
  <2>3. p.seq = (tmp_counters[s] + 1) % CounterMod /\ p.srv = s
    BY <1>1, <1>2 DEF update_source_mac
  <2> QED
    BY <2>2, <2>3, NoTruncation
<1>6. /\ Len(filtered_pkts') = m + 1
      /\ filtered_pkts'[m + 1] = p
      /\ \A k \in 1 .. m : filtered_pkts'[k] = filtered_pkts[k]
  BY <1>1, <1>2 DEF p
<1>7. /\ recorder'[m + 1] = tmp_counters'
      /\ \A k \in 1 .. m : recorder'[k] = recorder[k]
  BY <1>1, <1>2
<1> HIDE DEF p, m
<1>8. RecorderCurrent'
  <2>1. m + 1 # 0
    BY <1>1
  <2> QED
    BY <1>6, <1>7, <2>1 DEF RecorderCurrent, CountersAfter
<1>9. BurstCovers'
  <2> SUFFICES ASSUME NEW k \in 0 .. (m + 1), NEW t \in IngressServers, NEW n \in Nat,
                      counters[t] < n, n <= CountersAfter(k)'[t]
               PROVE  \E j \in 1 .. k : filtered_pkts'[j].srv = t /\ filtered_pkts'[j].seq = n
    BY <1>2, <1>6 DEF BurstCovers
  <2>1. ASSUME NEW i \in 0 .. m, i <= k, n <= CountersAfter(i)[t]
        PROVE  \E j \in 1 .. k : filtered_pkts'[j].srv = t /\ filtered_pkts'[j].seq = n
    <3>1. PICK j \in 1 .. i : filtered_pkts[j].srv = t /\ filtered_pkts[j].seq = n
      BY <1>4, <2>1 DEF GapFree, BurstCovers, m
    <3>2. j \in 1 .. m /\ j \in 1 .. k
      BY <1>1, <2>1
    <3> QED
      BY <1>6, <3>1, <3>2
  <2>2. CASE k \in 0 .. m
    <3>1. n <= CountersAfter(k)[t]
      BY <1>1, <1>2, <1>7, <2>2 DEF CountersAfter
    <3>2. k <= k
      BY <1>1, <2>2
    <3> QED
      BY <2>1, <2>2, <3>1, <3>2
  <2>3. CASE k = m + 1
    <3>1. n <= tmp_counters'[t]
      BY <1>1, <1>7, <2>3 DEF CountersAfter
    <3>2. CASE n <= tmp_counters[t]
      <4>1. tmp_counters = CountersAfter(m)
        BY <1>2, <1>4 DEF GapFree, RecorderCurrent, m
      <4> QED
        BY <1>1, <2>1, <2>3, <3>2, <4>1
    <3>3. CASE ~ (n <= tmp_counters[t])
      <4>1. t = s /\ n = tmp_counters[s] + 1
        BY <1>1, <1>2, <3>1, <3>3
      <4>2. m + 1 \in 1 .. k
        BY <1>1, <2>3
      <4> QED
        BY <1>5, <1>6, <4>1, <4>2
    <3> QED
      BY <3>2, <3>3
  <2> QED
    BY <1>1, <2>2, <2>3
<1>10. CountersCovered'
  BY <1>2, <1>4 DEF GapFree, CountersCovered
<1>11. AcceptedAreSent'
  <2>1. max_nb_tx = 0
    BY <1>2 DEF SenderInv, BurstInv
  <2> QED
    BY <1>2, <1>4, <2>1 DEF GapFree, AcceptedAreSent
<1> QED
  BY <1>8, <1>9, <1>10, <1>11 DEF GapFree

\* A link accepts the first n frames of the burst.
LEMMA GapTxStep ==
    ASSUME ITypeOK, Shape, SenderInv, GapInv, NEW n \in Nat, ITxPort(n)
    PROVE  GapInv'
<1> SUFFICES ASSUME NoWrap' PROVE GapFree'
  BY DEF GapInv
<1>1. /\ sent' = sent \cup {filtered_pkts[k] : k \in 1 .. n}
      /\ max_nb_tx' = BestTx(n) /\ n <= Len(filtered_pkts)
      /\ UNCHANGED <<counters, tmp_counters, recorder, filtered_pkts, ipc, irun, offered>>
  BY DEF ITxPort
<1>2. /\ filtered_pkts \in Seq(Packet) /\ max_nb_tx \in Nat
      /\ counters \in [IngressServers -> Nat]
  BY DEF ITypeOK
<1>3. NoWrap
  BY <1>1 DEF NoWrap
<1>4. GapFree /\ StampInv
  BY <1>3 DEF GapInv, SenderInv
<1>5. RecorderCurrent' /\ BurstCovers'
  BY <1>1, <1>4 DEF GapFree, RecorderCurrent, BurstCovers, CountersAfter
<1>6. CountersCovered'
  BY <1>1, <1>4 DEF GapFree, CountersCovered
<1>7. \A k \in 1 .. max_nb_tx' : filtered_pkts'[k] \in sent'
  <2>1. \A k \in 1 .. max_nb_tx' : k \in 1 .. n \/ k \in 1 .. max_nb_tx
    BY <1>1, <1>2 DEF BestTx
  <2> QED
    BY <1>1, <1>4, <2>1 DEF GapFree, AcceptedAreSent
<1>8. ASSUME NEW q \in sent', q.inc = irun' PROVE 0 < q.seq
  <2>1. CASE q \in sent
    BY <1>1, <1>4, <1>8, <2>1 DEF GapFree, AcceptedAreSent
  <2>2. ASSUME NEW k \in 1 .. n, q = filtered_pkts[k] PROVE 0 < q.seq
    <3>1. k \in DOMAIN filtered_pkts /\ filtered_pkts[k] \in Packet
      BY <1>1, <1>2
    <3>2. counters[q.srv] \in Nat /\ q.seq \in Nat
      BY <1>2, <2>2, <3>1 DEF Packet
    <3>3. counters[q.srv] < q.seq
      BY <1>4, <2>2, <3>1 DEF StampInv
    <3> QED
      BY <3>2, <3>3
  <2> QED
    BY <1>1, <2>1, <2>2
<1> QED
  BY <1>5, <1>6, <1>7, <1>8 DEF GapFree, AcceptedAreSent

\* The counters advance over what the best link accepted, all of which was sent.
LEMMA GapCommitStep ==
    ASSUME ITypeOK, Shape, SenderInv, GapInv, ICommit
    PROVE  GapInv'
<1> SUFFICES ASSUME NoWrap' PROVE GapFree'
  BY DEF GapInv
<1>1. /\ counters' = CommittedCounters
      /\ filtered_pkts' = <<>> /\ Len(filtered_pkts') = 0 /\ max_nb_tx' = 0 /\ ipc' = "poll"
      /\ UNCHANGED <<irun, offered, sent>>
  BY DEF ICommit
<1>2. /\ filtered_pkts \in Seq(Packet) /\ max_nb_tx \in 0 .. Len(filtered_pkts)
      /\ Len(recorder) = Len(filtered_pkts)
      /\ recorder \in Seq([IngressServers -> Nat])
      /\ counters \in [IngressServers -> Nat]
  BY DEF ITypeOK, Shape
<1>3. NoWrap
  BY <1>1 DEF NoWrap
<1>4. GapFree
  BY <1>3 DEF GapInv
<1>5. counters' = CountersAfter(max_nb_tx) /\ counters' \in [IngressServers -> Nat]
  BY <1>1, <1>2 DEF CommittedCounters, CountersAfter
<1>6. RecorderCurrent'
  BY <1>1 DEF RecorderCurrent
<1>7. BurstCovers'
  <2> SUFFICES ASSUME NEW s \in IngressServers, NEW n \in Nat, counters'[s] < n,
                      n <= counters'[s]
               PROVE  FALSE
    BY <1>1 DEF BurstCovers, CountersAfter
  <2> QED
    BY <1>5
<1>8. CountersCovered'
  <2> SUFFICES ASSUME NEW s \in IngressServers, NEW n \in Nat, 0 < n, n <= counters'[s]
               PROVE  \E q \in sent : q.srv = s /\ q.inc = irun /\ q.seq = n
    BY <1>1 DEF CountersCovered
  <2>1. CASE n <= counters[s]
    BY <1>4, <2>1 DEF GapFree, CountersCovered
  <2>2. CASE counters[s] < n
    <3>1. PICK j \in 1 .. max_nb_tx : filtered_pkts[j].srv = s /\ filtered_pkts[j].seq = n
      <4>1. ASSUME NEW k \in 0 .. Len(filtered_pkts), k = max_nb_tx
            PROVE  \E j \in 1 .. k : filtered_pkts[j].srv = s /\ filtered_pkts[j].seq = n
        <5>1. n <= CountersAfter(k)[s]
          BY <1>5, <4>1 DEF CountersAfter
        <5> QED
          BY <1>4, <2>2, <5>1 DEF GapFree, BurstCovers
      <4> QED
        BY <1>2, <4>1
    <3>2. filtered_pkts[j] \in sent
      BY <1>4 DEF GapFree, AcceptedAreSent
    <3>3. filtered_pkts[j].inc = irun
      <4>1. j \in DOMAIN filtered_pkts
        BY <1>2
      <4> QED
        BY <4>1 DEF SenderInv, BurstInv
    <3> QED
      BY <3>1, <3>2, <3>3
  <2> QED
    BY <1>2, <2>1, <2>2
<1>9. AcceptedAreSent'
  BY <1>1, <1>4 DEF GapFree, AcceptedAreSent
<1> QED
  BY <1>6, <1>7, <1>8, <1>9 DEF GapFree

LEMMA GapPipelineStep ==
    ASSUME ITypeOK, Shape, SenderInv, GapInv, INext
    PROVE  GapInv'
<1>1. CASE IRx
  <2> SUFFICES ASSUME NoWrap' PROVE GapFree'
    BY DEF GapInv
  <2>1. /\ tmp_counters' = counters /\ max_nb_tx' = 0 /\ ipc' = "filter"
        /\ filtered_pkts = <<>> /\ Len(filtered_pkts) = 0
        /\ UNCHANGED <<counters, recorder, filtered_pkts, irun, offered, sent>>
    BY <1>1 DEF IRx, SenderInv, BurstInv
  <2>2. GapFree
    BY <2>1 DEF GapInv, NoWrap
  <2>3. RecorderCurrent'
    BY <2>1 DEF RecorderCurrent, CountersAfter
  <2>4. BurstCovers'
    BY <2>1, <2>2 DEF GapFree, BurstCovers, CountersAfter
  <2>5. CountersCovered' /\ AcceptedAreSent'
    BY <2>1, <2>2 DEF GapFree, CountersCovered, AcceptedAreSent
  <2> QED
    BY <2>3, <2>4, <2>5 DEF GapFree
<1>2. CASE IFilterUnknown
  BY <1>2, GapFrame DEF IFilterUnknown
<1>3. ASSUME NEW s \in IngressServers, IFilterKnown(s) PROVE GapInv'
  BY <1>3, GapStampStep
<1>4. CASE IFiltered
  BY <1>4, GapFrame DEF IFiltered
<1>5. CASE ISkipPort
  BY <1>5, GapFrame DEF ISkipPort
<1>6. ASSUME NEW n \in 0 .. MAX_PKT_BURST, ITxPort(n) PROVE GapInv'
  BY <1>6, GapTxStep
<1>7. CASE ICommit
  BY <1>7, GapCommitStep
<1> QED
  BY <1>1, <1>2, <1>3, <1>4, <1>5, <1>6, <1>7 DEF INext

LEMMA GapStep == TInv /\ SenderInv /\ GapInv /\ [Next]_vars => GapInv'
<1> SUFFICES ASSUME TInv, SenderInv, GapInv, [Next]_vars PROVE GapInv'
  OBVIOUS
<1>1. ITypeOK /\ Shape
  BY DEF TInv, TypeOK
<1>2. CASE UNCHANGED ivars
  BY <1>2, GapFrame DEF ivars, ibuf
<1>3. CASE IBoot
  BY <1>2, <1>3, GapFrame DEF IBoot
<1>4. CASE IStep
  BY <1>1, <1>4, GapPipelineStep DEF IStep
<1>5. ASSUME NEW l \in Links, IInterrupt(l) PROVE GapInv'
  BY <1>5, GapFrame DEF IInterrupt, ibuf
<1>6. ASSUME NEW l \in Links, ITxDone(l) PROVE GapInv'
  BY <1>6, GapFrame DEF ITxDone, ibuf
<1>7. CASE IRestart
  <2>1. /\ irun' = irun + 1 /\ ipc' = "boot" /\ filtered_pkts' = <<>>
        /\ Len(filtered_pkts') = 0 /\ max_nb_tx' = 0
        /\ counters' = [s \in IngressServers |-> 0]
        /\ UNCHANGED <<offered, sent>>
    BY <1>7 DEF IRestart, IReset
  <2>2. \A q \in sent : q.inc # irun'
    BY <1>1, <2>1 DEF ITypeOK, SenderInv, BurstInv, Packet
  <2>3. RecorderCurrent' /\ CountersCovered' /\ AcceptedAreSent'
    BY <2>1, <2>2 DEF RecorderCurrent, CountersCovered, AcceptedAreSent
  <2>4. BurstCovers'
    BY <2>1 DEF BurstCovers, CountersAfter
  <2> QED
    BY <2>3, <2>4 DEF GapInv, GapFree
<1> QED
  BY <1>2, <1>3, <1>4, <1>5, <1>6, <1>7
  DEF Next, Network, EBoot, EStep, EInterrupt, Transfer, Lose, LinkChange, ERestart, vars

LEMMA GapFreeImpliesContiguous ==
    ASSUME TInv, SenderInv, GapInv
    PROVE  SeqsContiguous
<1> SUFFICES ASSUME NoWrap, ipc = "poll", NEW s \in IngressServers
             PROVE  {p.seq : p \in {q \in sent : q.srv = s /\ q.inc = irun}} = 1 .. counters[s]
  BY DEF SeqsContiguous
<1>1. /\ sent \subseteq Packet /\ counters \in [IngressServers -> Nat]
  BY DEF TInv, TypeOK, ITypeOK
<1>2. max_nb_tx = 0 /\ SentInv /\ GapFree
  BY DEF SenderInv, BurstInv, GapInv
<1>3. ASSUME NEW q \in sent, q.srv = s, q.inc = irun PROVE q.seq \in 1 .. counters[s]
  <2>1. q.seq <= counters[s]
    BY <1>2, <1>3 DEF SentInv
  <2>2. q.seq \in Nat /\ 0 < q.seq
    BY <1>1, <1>2, <1>3 DEF GapFree, AcceptedAreSent, Packet
  <2> QED
    BY <1>1, <2>1, <2>2
<1>4. ASSUME NEW n \in 1 .. counters[s]
      PROVE  \E q \in sent : q.srv = s /\ q.inc = irun /\ q.seq = n
  <2>1. n \in Nat /\ 0 < n /\ n <= counters[s]
    BY <1>1
  <2> QED
    BY <1>2, <2>1 DEF GapFree, CountersCovered
<1> QED
  BY <1>3, <1>4

\* Between two bursts the numbers this run of the sender has put on the links are
\* 1, 2, ... up to the counter of each server, whatever part of each burst the
\* links accepted: the commit skips no number that was not sent.
THEOREM NumbersHaveNoGaps == Spec => []SeqsContiguous
<1>1. GapInv /\ OrderInv /\ [Next]_vars => GapInv'
  BY GapStep DEF OrderInv
<1>2. GapInv /\ OrderInv => SeqsContiguous
  BY GapFreeImpliesContiguous DEF OrderInv
<1> QED
  BY <1>1, <1>2, InitGapInv, OrderInvCorrect, PTL DEF Spec

-----------------------------------------------------------------------------
(* No mbuf leaks: the invariant behind MbufConservation.                   *)

InRing(l) == {txq[l][k] : k \in DOMAIN txq[l]}

\* The original mbufs in use, and the clones by their places in the rings.
Originals == Held \cup UNION {InRing(l) : l \in Links}
Places == {c \in Links \X (1 .. TxDesc) : c[2] <= Len(txq[c[1]])}

Distinct(frames) == \A j, k \in DOMAIN frames : j # k => frames[j] # frames[k]

\* A ring a burst is still to be put in has none of its frames: so no ring ever
\* holds two clones of one frame, and the last clone to go takes its original along.
PoolInv ==
    /\ IsFiniteSet(Originals) /\ IsFiniteSet(Places)
    /\ mbufs + (nb_rx + Cardinality(Originals) + Cardinality(Places)) = NbMbuf
    /\ ipc # "filter" => nb_rx = 0
    /\ Distinct(filtered_pkts)
    /\ \A l \in Links : /\ Len(txq[l]) <= TxDesc
                        /\ Distinct(txq[l])
                        /\ ipc # "ports" \/ l >= egress_id => InRing(l) \cap Held = {}

LEMMA PoolInvImpliesConservation == PoolInv => MbufConservation
BY DEF PoolInv, MbufConservation, InUse, Originals, Places, InRing

\* With nothing held and empty rings nothing is in use.
LEMMA NothingInUse ==
    ASSUME filtered_pkts = <<>>, txq = [l \in Links |-> <<>>], mbufs = NbMbuf, nb_rx = 0
    PROVE  PoolInv
<1>1. Originals = {}
  BY DEF Originals, Held, InRing
<1>2. Places = {}
  <2> SUFFICES ASSUME NEW c \in Links \X (1 .. TxDesc), c[2] <= Len(txq[c[1]])
               PROVE  FALSE
    BY DEF Places
  <2> QED
    BY WidthsAssumption
<1>3. IsFiniteSet(Originals) /\ IsFiniteSet(Places) /\ Cardinality(Originals) = 0
      /\ Cardinality(Places) = 0
  BY <1>1, <1>2, FS_EmptySet
<1>4. \A l \in Links : txq[l] = <<>> /\ Len(txq[l]) <= TxDesc /\ InRing(l) = {}
  BY WidthsAssumption DEF InRing
<1>5. Distinct(filtered_pkts) /\ \A l \in Links : Distinct(txq[l])
  BY <1>4 DEF Distinct
<1> QED
  BY <1>3, <1>4, <1>5, WidthsAssumption DEF PoolInv

\* PoolInv mentions none of the variables the other steps change.
LEMMA PoolFrame ==
    ASSUME PoolInv,
           UNCHANGED <<filtered_pkts, txq, mbufs, nb_rx>>,
           \/ ipc' = ipc /\ egress_id' >= egress_id /\ egress_id \in Nat /\ egress_id' \in Nat
           \/ ipc \in {"boot", "poll"} /\ ipc' = "poll"
           \/ ipc = "filter" /\ nb_rx = 0 /\ ipc' = "ports"
    PROVE  PoolInv'
<1>1. Originals' = Originals /\ Places' = Places
  BY DEF Originals, Places, Held, InRing
<1>2. \A l \in Links : InRing(l)' = InRing(l)
  BY DEF InRing
<1>3. Held' = Held
  BY DEF Held
<1>4. \A l \in Links : ipc' # "ports" \/ l >= egress_id' => InRing(l)' \cap Held' = {}
  <2> SUFFICES ASSUME NEW l \in Links, ipc' # "ports" \/ l >= egress_id'
               PROVE  InRing(l) \cap Held = {}
    BY <1>2, <1>3
  <2>1. ipc # "ports" \/ l >= egress_id
    BY LinksAssumption DEF Links
  <2> QED
    BY <2>1 DEF PoolInv
<1>5. Distinct(filtered_pkts)' /\ \A l \in Links : Distinct(txq[l])'
  BY DEF PoolInv, Distinct
<1> QED
  BY <1>1, <1>4, <1>5 DEF PoolInv

\* A frame of server s is kept: it is none of those in use.
LEMMA PoolStampStep ==
    ASSUME ITypeOK, Shape, SenderInv, TransitInv, PoolInv,
           NEW s \in IngressServers, IFilterKnown(s)
    PROVE  PoolInv'
<1> DEFINE p == update_source_mac(s, tmp_counters'[s], irun, offered'[s])
           m == Len(filtered_pkts)
<1>1. /\ filtered_pkts \in Seq(Packet) /\ m \in Nat /\ DOMAIN filtered_pkts = 1 .. m
      /\ offered \in [IngressServers -> Nat] /\ sent \subseteq Packet
      /\ nb_rx \in Nat /\ mbufs \in Nat
  BY WidthsAssumption DEF ITypeOK
<1>2. /\ filtered_pkts' = Append(filtered_pkts, p) /\ nb_rx > 0 /\ nb_rx' = nb_rx - 1
      /\ ipc = "filter"
      /\ UNCHANGED <<txq, mbufs, ipc, egress_id>>
  BY DEF IFilterKnown
<1>3. p.srv = s /\ p.id = offered[s] + 1
  BY <1>1 DEF update_source_mac, IFilterKnown
<1>4. p \notin sent
  <2> SUFFICES ASSUME p \in sent PROVE FALSE
    OBVIOUS
  <2>1. p.id \in 1 .. offered[p.srv]
    BY DEF SenderInv, BurstInv
  <2> QED
    BY <1>1, <1>3, <2>1
<1>5. \A k \in 1 .. m : filtered_pkts[k] # p
  <2> SUFFICES ASSUME NEW k \in 1 .. m, filtered_pkts[k] = p PROVE FALSE
    OBVIOUS
  <2>1. p.id \in 1 .. offered[p.srv]
    BY <1>1 DEF SenderInv, BurstInv
  <2> QED
    BY <1>1, <1>3, <2>1
<1>6. \A l \in Links : p \notin InRing(l) /\ InRing(l)' = InRing(l)
  BY <1>2, <1>4 DEF TransitInv, InRing
<1>7. /\ DOMAIN filtered_pkts' = 1 .. (m + 1) /\ filtered_pkts'[m + 1] = p
      /\ \A k \in 1 .. m : filtered_pkts'[k] = filtered_pkts[k]
  BY <1>1, <1>2
<1> HIDE DEF p, m
<1>8. Held' = Held \cup {p} /\ p \notin Held
  <2>1. \A k \in 1 .. (m + 1) : k \in 1 .. m \/ k = m + 1
    BY <1>1
  <2>2. \A k \in 1 .. m : k \in 1 .. (m + 1)
    BY <1>1
  <2>3. m + 1 \in 1 .. (m + 1)
    BY <1>1
  <2> QED
    BY <1>1, <1>5, <1>7, <2>1, <2>2, <2>3 DEF Held
<1>9. Originals' = Originals \cup {p} /\ p \notin Originals
  BY <1>6, <1>8 DEF Originals
<1>10. Places' = Places
  BY <1>2 DEF Places
<1>11. /\ IsFiniteSet(Originals') /\ IsFiniteSet(Places')
       /\ Cardinality(Originals') = Cardinality(Originals) + 1
       /\ Cardinality(Originals) \in Nat /\ Cardinality(Places) \in Nat
  BY <1>9, <1>10, FS_AddElement, FS_CardinalityType DEF PoolInv
<1>12. Distinct(filtered_pkts)'
  <2> SUFFICES ASSUME NEW j \in 1 .. (m + 1), NEW k \in 1 .. (m + 1), j # k
               PROVE  filtered_pkts'[j] # filtered_pkts'[k]
    BY <1>7 DEF Distinct
  <2>1. (j \in 1 .. m \/ j = m + 1) /\ (k \in 1 .. m \/ k = m + 1)
    BY <1>1
  <2>2. CASE j \in 1 .. m /\ k \in 1 .. m
    BY <1>1, <1>7, <2>2 DEF PoolInv, Distinct
  <2> QED
    BY <1>5, <1>7, <2>1, <2>2
<1>13. \A l \in Links : Distinct(txq[l])' /\ InRing(l)' \cap Held' = {} /\ Len(txq'[l]) <= TxDesc
  BY <1>2, <1>6, <1>8 DEF PoolInv, Distinct
<1>14. mbufs' + (nb_rx' + Cardinality(Originals') + Cardinality(Places')) = NbMbuf
  BY <1>1, <1>2, <1>10, <1>11, WidthsAssumption DEF PoolInv
<1> QED
  BY <1>2, <1>11, <1>12, <1>13, <1>14 DEF PoolInv

\* A link takes clones of the first n frames of the burst.
LEMMA PoolTxStep ==
    ASSUME ITypeOK, Shape, PoolInv, NEW n \in Nat, ITxPort(n)
    PROVE  PoolInv'
<1>0. PICK e \in Links : e = egress_id
  BY LinksAssumption DEF ITypeOK, ITxPort, Links
<1> DEFINE a == Len(txq[e])
           m == Len(filtered_pkts)
<1>1. /\ filtered_pkts \in Seq(Packet) /\ m \in Nat /\ DOMAIN filtered_pkts = 1 .. m
      /\ txq \in [Links -> Seq(Packet)] /\ mbufs \in Nat /\ nb_rx \in Nat
      /\ e \in Links /\ e \in Nat /\ n <= m
      /\ txq[e] \in Seq(Packet) /\ a \in Nat /\ DOMAIN txq[e] = 1 .. a
  BY <1>0, LinksAssumption, WidthsAssumption DEF ITypeOK, ITxPort, Links
<1>2. /\ txq' = [txq EXCEPT ![e] = txq[e] \o SubSeq(filtered_pkts, 1, n)]
      /\ mbufs' = mbufs - n /\ a + n <= TxDesc /\ egress_id' = e + 1
      /\ ipc = "ports"
      /\ UNCHANGED <<filtered_pkts, nb_rx, ipc>>
  BY <1>0 DEF ITxPort, ClonesKept
<1>3. /\ txq'[e] \in Seq(Packet) /\ Len(txq'[e]) = a + n /\ DOMAIN txq'[e] = 1 .. (a + n)
      /\ \A k \in 1 .. a : txq'[e][k] = txq[e][k]
      /\ \A k \in 1 .. n : txq'[e][a + k] = filtered_pkts[k]
  <2>1. SubSeq(filtered_pkts, 1, n) \in Seq(Packet) /\ Len(SubSeq(filtered_pkts, 1, n)) = n
        /\ \A k \in 1 .. n : SubSeq(filtered_pkts, 1, n)[k] = filtered_pkts[k]
    BY <1>1
  <2>2. txq'[e] = txq[e] \o SubSeq(filtered_pkts, 1, n)
    BY <1>1, <1>2
  <2> QED
    BY <1>1, <2>1, <2>2
<1>4. \A l \in Links : l # e => txq'[l] = txq[l]
  BY <1>1, <1>2
<1>5. \A k \in 1 .. (a + n) : k \in 1 .. a \/ (k - a \in 1 .. n /\ k = a + (k - a))
  BY <1>1
<1>6. \A k \in 1 .. n : k \in DOMAIN filtered_pkts /\ filtered_pkts[k] \in Held
  BY <1>1 DEF Held
<1>7. Held' = Held
  BY <1>2 DEF Held
<1>8. InRing(e) \cap Held = {} /\ Distinct(txq[e]) /\ Distinct(filtered_pkts)
  BY <1>0, <1>1, <1>2 DEF PoolInv
<1> HIDE DEF a, m
<1>9. Originals' = Originals
  <2>1. \A l \in Links : l # e => InRing(l)' = InRing(l)
    BY <1>4 DEF InRing
  <2>2. InRing(e) \subseteq InRing(e)'
    <3>1. \A k \in 1 .. a : k \in 1 .. (a + n)
      BY <1>1
    <3> QED
      BY <1>1, <1>3, <3>1 DEF InRing
  <2>3. InRing(e)' \subseteq InRing(e) \cup Held
    <3> SUFFICES ASSUME NEW k \in 1 .. (a + n) PROVE txq'[e][k] \in InRing(e) \cup Held
      BY <1>3 DEF InRing
    <3>1. CASE k \in 1 .. a
      BY <1>1, <1>3, <3>1 DEF InRing
    <3>2. ASSUME NEW i \in 1 .. n, k = a + i PROVE txq'[e][k] \in Held
      BY <1>3, <1>6, <3>2
    <3> QED
      BY <1>5, <3>1, <3>2
  <2> QED
    BY <1>1, <1>7, <2>1, <2>2, <2>3 DEF Originals
<1>10. /\ IsFiniteSet(Places') /\ Cardinality(Places') = Cardinality(Places) + n
       /\ Cardinality(Places) \in Nat
  <2> DEFINE F == [i \in 1 .. n |-> <<e, a + i>>]
             New == {<<e, a + i>> : i \in 1 .. n}
  <2>1. F \in Surjection(1 .. n, New) /\ F \in Injection(1 .. n, New)
    <3>1. F \in [1 .. n -> New]
      OBVIOUS
    <3>2. \A t \in New : \E i \in 1 .. n : F[i] = t
      OBVIOUS
    <3>3. \A i, j \in 1 .. n : F[i] = F[j] => i = j
      BY <1>1
    <3> HIDE DEF F, New
    <3> QED
      BY <3>1, <3>2, <3>3 DEF Surjection, Injection, IsInjective
  <2>2. IsFiniteSet(1 .. n) /\ Cardinality(1 .. n) = n
    BY FS_Interval
  <2>3. IsFiniteSet(New) /\ Cardinality(New) = n
    BY <2>1, <2>2, FS_Surjection
  <2>4. Places \cap New = {}
    <3> SUFFICES ASSUME NEW i \in 1 .. n, <<e, a + i>> \in Places PROVE FALSE
      OBVIOUS
    <3> QED
      BY <1>1 DEF Places, a
  <2>5. Places' = Places \cup New
    <3>1. ASSUME NEW c \in Places' PROVE c \in Places \cup New
      <4>1. c \in Links \X (1 .. TxDesc) /\ c[2] <= Len(txq'[c[1]])
        BY <3>1 DEF Places
      <4>2. CASE c[1] # e
        BY <1>4, <4>1, <4>2 DEF Places
      <4>3. CASE c[1] = e /\ c[2] <= a
        BY <4>1, <4>3 DEF Places, a
      <4>4. CASE c[1] = e /\ ~ (c[2] <= a)
        <5>1. c[2] \in Nat /\ c[2] <= a + n
          BY <1>3, <4>1, <4>4
        <5>2. c[2] - a \in 1 .. n /\ c = <<e, a + (c[2] - a)>>
          BY <1>1, <4>1, <4>4, <5>1
        <5> QED
          BY <5>2
      <4> QED
        BY <4>2, <4>3, <4>4
    <3>2. ASSUME NEW c \in Places PROVE c \in Places'
      <4>1. c \in Links \X (1 .. TxDesc) /\ c[2] <= Len(txq[c[1]]) /\ c[2] \in Nat
        BY DEF Places
      <4>2. c[2] <= Len(txq'[c[1]])
        <5>1. CASE c[1] = e
          BY <1>1, <1>3, <4>1, <5>1 DEF a
        <5>2. CASE c[1] # e
          BY <1>4, <4>1, <5>2
        <5> QED
          BY <5>1, <5>2
      <4> QED
        BY <4>1, <4>2 DEF Places
    <3>3. ASSUME NEW i \in 1 .. n PROVE <<e, a + i>> \in Places'
      <4>1. a + i \in 1 .. TxDesc /\ a + i <= a + n
        BY <1>1, <1>2, WidthsAssumption
      <4> QED
        BY <1>1, <1>3, <4>1 DEF Places
    <3> QED
      BY <3>1, <3>2, <3>3
  <2> HIDE DEF New
  <2>6. /\ IsFiniteSet(Places \cup New)
        /\ Cardinality(Places \cup New)
              = Cardinality(Places) + Cardinality(New) - Cardinality(Places \cap New)
    BY <2>3, FS_Union DEF PoolInv
  <2>7. Cardinality(Places \cap New) = 0 /\ Cardinality(Places) \in Nat
    BY <2>4, FS_EmptySet, FS_CardinalityType DEF PoolInv
  <2> QED
    BY <2>3, <2>5, <2>6, <2>7
<1>11. Distinct(txq[e])'
  <2> SUFFICES ASSUME NEW j \in 1 .. (a + n), NEW k \in 1 .. (a + n), j # k
               PROVE  txq'[e][j] # txq'[e][k]
    BY <1>2, <1>3 DEF Distinct
  <2>1. CASE j \in 1 .. a /\ k \in 1 .. a
    BY <1>1, <1>3, <1>8, <2>1 DEF Distinct
  <2>2. ASSUME NEW i \in 1 .. n, j \in 1 .. a, k = a + i PROVE txq'[e][j] # txq'[e][k]
    BY <1>1, <1>3, <1>6, <1>8, <2>2 DEF InRing
  <2>3. ASSUME NEW i \in 1 .. n, k \in 1 .. a, j = a + i PROVE txq'[e][j] # txq'[e][k]
    BY <1>1, <1>3, <1>6, <1>8, <2>3 DEF InRing
  <2>4. ASSUME NEW i \in 1 .. n, NEW h \in 1 .. n, j = a + i, k = a + h
        PROVE  txq'[e][j] # txq'[e][k]
    BY <1>3, <1>6, <1>8, <2>4 DEF Distinct
  <2> QED
    BY <1>5, <2>1, <2>2, <2>3, <2>4
<1>12. \A l \in Links : /\ Len(txq'[l]) <= TxDesc
                        /\ Distinct(txq[l])'
                        /\ l >= egress_id' => InRing(l)' \cap Held' = {}
  <2> SUFFICES ASSUME NEW l \in Links
               PROVE  /\ Len(txq'[l]) <= TxDesc
                      /\ Distinct(txq[l])'
                      /\ l >= egress_id' => InRing(l)' \cap Held' = {}
    OBVIOUS
  <2>1. CASE l = e
    <3>1. ~ (l >= egress_id')
      BY <1>1, <1>2, <2>1
    <3>2. Len(txq'[l]) <= TxDesc
      BY <1>2, <1>3, <2>1
    <3>3. Distinct(txq[l])'
      BY <1>2, <1>11, <2>1 DEF Distinct
    <3> QED
      BY <3>1, <3>2, <3>3
  <2>2. CASE l # e
    <3>1. Len(txq[l]) <= TxDesc /\ Distinct(txq[l]) /\ (l >= e => InRing(l) \cap Held = {})
      BY <1>0 DEF PoolInv
    <3>2. txq'[l] = txq[l] /\ InRing(l)' = InRing(l)
      BY <1>4, <2>2 DEF InRing
    <3>3. l >= egress_id' => l >= e
      BY <1>1, <1>2 DEF Links
    <3>4. Distinct(txq[l])'
      BY <3>1, <3>2 DEF Distinct
    <3> QED
      BY <1>7, <3>1, <3>2, <3>3, <3>4
  <2> QED
    BY <2>1, <2>2
<1>13. Distinct(filtered_pkts)'
  BY <1>2, <1>8 DEF Distinct
<1>14. mbufs' + (nb_rx' + Cardinality(Originals') + Cardinality(Places')) = NbMbuf
  <2>1. Cardinality(Originals) \in Nat
    BY FS_CardinalityType DEF PoolInv
  <2> QED
    BY <1>1, <1>2, <1>9, <1>10, <2>1, WidthsAssumption DEF PoolInv
<1> QED
  BY <1>2, <1>9, <1>10, <1>12, <1>13, <1>14 DEF PoolInv

\* The originals no clone refers to go back to the pool.
LEMMA PoolCommitStep ==
    ASSUME ITypeOK, Shape, PoolInv, ICommit
    PROVE  PoolInv'
<1> DEFINE freed == {p \in Held : Clones(p) = {}}
           rings == UNION {InRing(l) : l \in Links}
<1>1. /\ mbufs' = mbufs + Cardinality(freed) /\ filtered_pkts' = <<>> /\ ipc' = "poll"
      /\ ipc = "ports"
      /\ UNCHANGED <<nb_rx, txq>>
  BY DEF ICommit
<1>2. Held' = {} /\ Places' = Places /\ \A l \in Links : InRing(l)' = InRing(l)
  BY <1>1 DEF Held, Places, InRing
<1>3. \A p \in Held : p \in freed <=> p \notin rings
  BY DEF Clones, InRing
<1>4. Originals' = rings /\ Originals = Held \cup rings
  BY <1>2 DEF Originals
<1>5. rings \cup freed = Originals /\ rings \cap freed = {}
  BY <1>3, <1>4
<1> HIDE DEF freed, rings
<1>6. IsFiniteSet(rings) /\ IsFiniteSet(freed)
  BY <1>5, FS_Subset DEF PoolInv
<1>7. Cardinality(Originals) = Cardinality(rings) + Cardinality(freed)
  <2>1. Cardinality(rings \cup freed)
           = Cardinality(rings) + Cardinality(freed) - Cardinality(rings \cap freed)
    BY <1>6, FS_Union
  <2>2. Cardinality(rings \cap freed) = 0
    BY <1>5, FS_EmptySet
  <2>3. Cardinality(rings) \in Nat /\ Cardinality(freed) \in Nat
    BY <1>6, FS_CardinalityType
  <2>4. Cardinality(Originals) = Cardinality(rings \cup freed)
    BY <1>5
  <2> QED
    BY <2>1, <2>2, <2>3, <2>4
<1>8. /\ Cardinality(rings) \in Nat /\ Cardinality(freed) \in Nat
      /\ Cardinality(Places) \in Nat /\ mbufs \in Nat /\ nb_rx \in Nat
  BY <1>6, FS_CardinalityType, WidthsAssumption DEF PoolInv, ITypeOK
<1>9. mbufs' + (nb_rx' + Cardinality(Originals') + Cardinality(Places')) = NbMbuf
  BY <1>1, <1>2, <1>4, <1>7, <1>8, WidthsAssumption DEF PoolInv
<1>10. Distinct(filtered_pkts)' /\ \A l \in Links : Distinct(txq[l])'
  BY <1>1 DEF PoolInv, Distinct
<1>11. nb_rx' = 0
  BY <1>1 DEF PoolInv
<1> QED
  BY <1>1, <1>2, <1>4, <1>6, <1>9, <1>10, <1>11 DEF PoolInv

\* A transmitted clone goes back to the pool, with its original when it was the last.
LEMMA PoolTxDoneStep ==
    ASSUME ITypeOK, Shape, PoolInv, NEW l \in Links, ITxDone(l)
    PROVE  PoolInv'
<1> DEFINE p == Head(txq[l])
           a == Len(txq[l])
           last == p \notin Held /\ Clones(p) = {l}
<1>1. /\ txq \in [Links -> Seq(Packet)] /\ txq[l] \in Seq(Packet) /\ txq[l] # <<>>
      /\ a \in Nat \ {0} /\ DOMAIN txq[l] = 1 .. a /\ p = txq[l][1]
      /\ a <= TxDesc /\ Distinct(txq[l]) /\ mbufs \in Nat /\ nb_rx \in Nat
      /\ a = Len(txq[l])
  <2>1. txq \in [Links -> Seq(Packet)] /\ mbufs \in Nat /\ nb_rx \in Nat
    BY WidthsAssumption DEF ITypeOK
  <2>2. txq[l] # <<>>
    BY DEF ITxDone
  <2>3. a <= TxDesc /\ Distinct(txq[l])
    BY DEF PoolInv
  <2>4. txq[l] \in Seq(Packet)
    BY <2>1
  <2>5. a \in Nat \ {0} /\ DOMAIN txq[l] = 1 .. a /\ p = txq[l][1]
    BY <2>2, <2>4
  <2> QED
    BY <2>1, <2>2, <2>3, <2>4, <2>5
<1>2. /\ txq' = [txq EXCEPT ![l] = Tail(txq[l])]
      /\ mbufs' = mbufs + (IF last THEN 2 ELSE 1)
      /\ UNCHANGED <<filtered_pkts, nb_rx, ipc, egress_id>>
  BY DEF ITxDone, ibuf, FreedByTx
<1>3. /\ txq'[l] \in Seq(Packet) /\ Len(txq'[l]) = a - 1 /\ DOMAIN txq'[l] = 1 .. (a - 1)
      /\ \A k \in 1 .. (a - 1) : txq'[l][k] = txq[l][k + 1] /\ k + 1 \in 1 .. a
  BY <1>1, <1>2
<1>4. \A i \in Links : i # l => txq'[i] = txq[i]
  BY <1>1, <1>2
<1>5. Held' = Held
  BY <1>2 DEF Held
<1>0. a \in Nat \ {0} /\ a - 1 \in Nat /\ a <= TxDesc /\ mbufs \in Nat /\ nb_rx \in Nat
  BY <1>1
<1> HIDE DEF p, a, last
<1>6. \A i \in Links : i # l => InRing(i)' = InRing(i)
  BY <1>4 DEF InRing
<1>7. InRing(l)' = InRing(l) \ {p} /\ p \in InRing(l)
  <2>1. \A k \in 1 .. (a - 1) : txq[l][k + 1] # p
    <3> SUFFICES ASSUME NEW k \in 1 .. (a - 1) PROVE txq[l][k + 1] # txq[l][1]
      BY <1>1
    <3>1. k + 1 # 1 /\ k + 1 \in 1 .. a /\ 1 \in 1 .. a
      BY <1>0
    <3>2. \A j, i \in 1 .. a : j # i => txq[l][j] # txq[l][i]
      BY <1>1 DEF Distinct
    <3> QED
      BY <3>1, <3>2
  <2>2. \A k \in 1 .. a : k = 1 \/ (k - 1 \in 1 .. (a - 1) /\ (k - 1) + 1 = k)
    BY <1>1
  <2>3. ASSUME NEW k \in 1 .. a, txq[l][k] # p
        PROVE  \E j \in 1 .. (a - 1) : txq[l][k] = txq'[l][j]
    <3>1. k - 1 \in 1 .. (a - 1) /\ (k - 1) + 1 = k
      BY <1>1, <2>2, <2>3
    <3>2. txq'[l][k - 1] = txq[l][(k - 1) + 1]
      BY <1>3, <3>1
    <3> QED
      BY <3>1, <3>2
  <2>4. 1 \in 1 .. a
    BY <1>1
  <2>5. p \in InRing(l)
    BY <1>1, <2>4 DEF InRing
  <2>6. ASSUME NEW x \in InRing(l) \ {p} PROVE x \in InRing(l)'
    <3>1. PICK k \in 1 .. a : x = txq[l][k]
      BY <1>1 DEF InRing
    <3>2. PICK j \in 1 .. (a - 1) : x = txq'[l][j]
      BY <2>3, <3>1
    <3> QED
      BY <1>3, <3>2 DEF InRing
  <2>7. ASSUME NEW x \in InRing(l)' PROVE x \in InRing(l) \ {p}
    <3>1. PICK j \in 1 .. (a - 1) : x = txq'[l][j]
      BY <1>3 DEF InRing
    <3>2. x = txq[l][j + 1] /\ j + 1 \in 1 .. a
      BY <1>3, <3>1
    <3>3. x # p
      BY <2>1, <3>2
    <3> QED
      BY <1>1, <3>2, <3>3 DEF InRing
  <2> QED
    BY <2>5, <2>6, <2>7
<1>8. last <=> p \notin Held /\ \A i \in Links : i # l => p \notin InRing(i)
  BY <1>7 DEF last, Clones, InRing
<1>9. Originals' = IF last THEN Originals \ {p} ELSE Originals
  <2>1. CASE last
    BY <1>5, <1>6, <1>7, <1>8, <2>1 DEF Originals
  <2>2. CASE ~last
    BY <1>5, <1>6, <1>7, <1>8, <2>2 DEF Originals
  <2> QED
    BY <2>1, <2>2
<1>10. p \in Originals
  BY <1>7 DEF Originals
<1>11. /\ IsFiniteSet(Originals')
       /\ Cardinality(Originals) = Cardinality(Originals') + (IF last THEN 1 ELSE 0)
       /\ Cardinality(Originals) \in Nat
  <2>1. IsFiniteSet(Originals)
    BY DEF PoolInv
  <2>2. Cardinality(Originals) \in Nat
    BY <2>1, FS_CardinalityType
  <2>3. CASE last
    <3>1. Originals' = Originals \ {p}
      BY <1>9, <2>3
    <3>2. /\ IsFiniteSet(Originals \ {p})
          /\ Cardinality(Originals \ {p}) = Cardinality(Originals) - 1
      BY <1>10, <2>1, FS_RemoveElement
    <3>3. Cardinality(Originals) = Cardinality(Originals \ {p}) + 1
      BY <2>2, <3>2
    <3> QED
      BY <2>2, <2>3, <3>1, <3>2, <3>3
  <2>4. CASE ~last
    <3>1. Originals' = Originals
      BY <1>9, <2>4
    <3>2. Cardinality(Originals) = Cardinality(Originals) + 0
      BY <2>2
    <3> QED
      BY <2>1, <2>2, <2>4, <3>1, <3>2
  <2> QED
    BY <2>3, <2>4
<1>12. Places' = Places \ {<<l, a>>} /\ <<l, a>> \in Places
  <2>1. <<l, a>> \in Places
    BY <1>1 DEF Places
  <2>2. ASSUME NEW c \in Links \X (1 .. TxDesc)
        PROVE  c[2] <= Len(txq'[c[1]]) <=> c[2] <= Len(txq[c[1]]) /\ c # <<l, a>>
    <3>1. c = <<c[1], c[2]>> /\ c[1] \in Links /\ c[2] \in Nat
      BY WidthsAssumption
    <3>2. CASE c[1] = l
      <4>1. Len(txq'[c[1]]) = a - 1 /\ Len(txq[c[1]]) = a
        BY <1>1, <1>3, <3>2
      <4>2. c # <<l, a>> <=> c[2] # a
        BY <3>1, <3>2
      <4>3. c[2] <= a - 1 <=> c[2] <= a /\ c[2] # a
        BY <1>1, <3>1
      <4> QED
        BY <4>1, <4>2, <4>3
    <3>3. CASE c[1] # l
      BY <1>4, <3>1, <3>3
    <3> QED
      BY <3>2, <3>3
  <2> QED
    BY <2>1, <2>2 DEF Places
<1>13. /\ IsFiniteSet(Places') /\ Cardinality(Places') = Cardinality(Places) - 1
       /\ Cardinality(Places) \in Nat
  BY <1>12, FS_RemoveElement, FS_CardinalityType DEF PoolInv
<1>14. Cardinality(Originals') \in Nat
  BY <1>11, FS_CardinalityType
<1>15. mbufs' + (nb_rx' + Cardinality(Originals') + Cardinality(Places')) = NbMbuf
  <2>1. mbufs + (nb_rx + Cardinality(Originals) + Cardinality(Places)) = NbMbuf
    BY DEF PoolInv
  <2>2. CASE last
    <3>1. mbufs' = mbufs + 2 /\ nb_rx' = nb_rx
      BY <1>2, <2>2
    <3>2. Cardinality(Originals) = Cardinality(Originals') + 1
      BY <1>11, <2>2
    <3>3. Cardinality(Places') = Cardinality(Places) - 1 /\ Cardinality(Places) \in Nat
      BY <1>13
    <3> QED
      BY <1>0, <1>14, <2>1, <3>1, <3>2, <3>3
  <2>3. CASE ~last
    <3>1. mbufs' = mbufs + 1 /\ nb_rx' = nb_rx
      BY <1>2, <2>3
    <3>2. Cardinality(Originals) = Cardinality(Originals') + 0
      BY <1>11, <2>3
    <3>3. Cardinality(Places') = Cardinality(Places) - 1 /\ Cardinality(Places) \in Nat
      BY <1>13
    <3> QED
      BY <1>0, <1>14, <2>1, <3>1, <3>2, <3>3
  <2> QED
    BY <2>2, <2>3
<1>16. \A i \in Links : /\ Len(txq'[i]) <= TxDesc
                        /\ Distinct(txq[i])'
                        /\ ipc' # "ports" \/ i >= egress_id' => InRing(i)' \cap Held' = {}
  <2> SUFFICES ASSUME NEW i \in Links
               PROVE  /\ Len(txq'[i]) <= TxDesc
                      /\ Distinct(txq[i])'
                      /\ ipc' # "ports" \/ i >= egress_id' => InRing(i)' \cap Held' = {}
    OBVIOUS
  <2>1. /\ Len(txq[i]) <= TxDesc /\ Distinct(txq[i])
        /\ ipc # "ports" \/ i >= egress_id => InRing(i) \cap Held = {}
    BY DEF PoolInv
  <2>2. ipc' # "ports" \/ i >= egress_id' => InRing(i)' \cap Held' = {}
    BY <1>2, <1>5, <1>6, <1>7, <2>1
  <2>3. CASE i = l
    <3>1. Len(txq'[l]) <= TxDesc
      <4>1. Len(txq'[l]) = a - 1
        BY <1>3
      <4> QED
        BY <1>0, <4>1, WidthsAssumption
    <3>2. \A j, k \in 1 .. (a - 1) : j # k => txq'[l][j] # txq'[l][k]
      <4> SUFFICES ASSUME NEW j \in 1 .. (a - 1), NEW k \in 1 .. (a - 1), j # k
                   PROVE  txq'[l][j] # txq'[l][k]
        OBVIOUS
      <4>1. j + 1 # k + 1
        OBVIOUS
      <4> QED
        BY <1>1, <1>3, <4>1 DEF Distinct
    <3> QED
      BY <1>3, <2>2, <2>3, <3>1, <3>2 DEF Distinct
  <2>4. CASE i # l
    BY <1>4, <2>1, <2>2, <2>4 DEF Distinct
  <2> QED
    BY <2>3, <2>4
<1>17. Distinct(filtered_pkts)'
  BY <1>2 DEF PoolInv, Distinct
<1> QED
  BY <1>2, <1>11, <1>13, <1>15, <1>16, <1>17 DEF PoolInv

LEMMA PoolPipelineStep ==
    ASSUME ITypeOK, Shape, SenderInv, TransitInv, PoolInv, INext
    PROVE  PoolInv'
<1>0. egress_id \in Nat
  BY LinksAssumption DEF ITypeOK
<1>1. CASE IRx
  <2>1. PICK n \in 1 .. MAX_PKT_BURST : n <= mbufs /\ nb_rx' = n /\ mbufs' = mbufs - n
    BY <1>1 DEF IRx
  <2>2. /\ filtered_pkts = <<>> /\ nb_rx = 0 /\ ipc' = "filter" /\ mbufs \in Nat /\ n \in Nat
        /\ ipc = "poll"
        /\ UNCHANGED <<filtered_pkts, txq>>
    BY <1>1, WidthsAssumption DEF IRx, SenderInv, BurstInv, PoolInv, ITypeOK
  <2>3. /\ Originals' = Originals /\ Places' = Places /\ Held' = {}
        /\ Cardinality(Originals) \in Nat /\ Cardinality(Places) \in Nat
    BY <2>2, FS_CardinalityType DEF Originals, Places, Held, InRing, PoolInv
  <2>4. mbufs' + (nb_rx' + Cardinality(Originals') + Cardinality(Places')) = NbMbuf
    BY <2>1, <2>2, <2>3, WidthsAssumption DEF PoolInv
  <2>5. Distinct(filtered_pkts)' /\ \A l \in Links : Distinct(txq[l])'
    BY <2>2 DEF PoolInv, Distinct
  <2> QED
    BY <2>2, <2>3, <2>4, <2>5 DEF PoolInv
<1>2. CASE IFilterUnknown
  <2>1. /\ nb_rx > 0 /\ nb_rx' = nb_rx - 1 /\ mbufs' = mbufs + 1
        /\ mbufs \in Nat /\ nb_rx \in Nat
        /\ UNCHANGED <<filtered_pkts, txq, ipc, egress_id>>
    BY <1>2, WidthsAssumption DEF IFilterUnknown, ITypeOK
  <2>2. /\ Originals' = Originals /\ Places' = Places /\ Held' = Held
        /\ Cardinality(Originals) \in Nat /\ Cardinality(Places) \in Nat
    BY <2>1, FS_CardinalityType DEF Originals, Places, Held, InRing, PoolInv
  <2>3. mbufs' + (nb_rx' + Cardinality(Originals') + Cardinality(Places')) = NbMbuf
    BY <2>1, <2>2, WidthsAssumption DEF PoolInv
  <2>4. /\ Distinct(filtered_pkts)'
        /\ \A l \in Links : Distinct(txq[l])' /\ InRing(l)' = InRing(l)
    BY <2>1 DEF PoolInv, Distinct, InRing
  <2>5. ipc' = "filter"
    BY <1>2 DEF IFilterUnknown
  <2> QED
    BY <2>1, <2>2, <2>3, <2>4, <2>5 DEF PoolInv
<1>3. ASSUME NEW s \in IngressServers, IFilterKnown(s) PROVE PoolInv'
  BY <1>3, PoolStampStep
<1>4. CASE IFiltered
  BY <1>4, PoolFrame DEF IFiltered
<1>5. CASE ISkipPort
  BY <1>0, <1>5, PoolFrame DEF ISkipPort
<1>6. ASSUME NEW n \in 0 .. MAX_PKT_BURST, ITxPort(n) PROVE PoolInv'
  BY <1>6, PoolTxStep
<1>7. CASE ICommit
  BY <1>7, PoolCommitStep
<1> QED
  BY <1>1, <1>2, <1>3, <1>4, <1>5, <1>6, <1>7 DEF INext

LEMMA PoolStep == OrderInv /\ PoolInv /\ [Next]_vars => PoolInv'
<1> SUFFICES ASSUME OrderInv, PoolInv, [Next]_vars PROVE PoolInv'
  OBVIOUS
<1>1. ITypeOK /\ Shape /\ SenderInv /\ TransitInv
  BY DEF OrderInv, TInv, TypeOK
<1>2. egress_id \in Nat
  BY <1>1, LinksAssumption DEF ITypeOK
<1>3. CASE UNCHANGED <<filtered_pkts, txq, mbufs, nb_rx, ipc, egress_id>>
  BY <1>2, <1>3, PoolFrame
<1>4. CASE IBoot
  <2>1. CASE UNCHANGED ivars
    BY <1>3, <2>1 DEF ivars, ibuf
  <2>2. CASE ipc = "boot" /\ ipc' = "poll" /\ UNCHANGED <<filtered_pkts, txq, mbufs, nb_rx>>
    BY <2>2, PoolFrame
  <2> QED
    BY <1>4, <2>1, <2>2 DEF IBoot
<1>5. CASE IStep
  BY <1>1, <1>5, PoolPipelineStep DEF IStep
<1>6. ASSUME NEW l \in Links, ITxDone(l) PROVE PoolInv'
  BY <1>1, <1>6, PoolTxDoneStep
<1>7. CASE IRestart
  <2>1. (filtered_pkts = <<>> /\ txq = [l \in Links |-> <<>>] /\ mbufs = NbMbuf /\ nb_rx = 0)'
    BY <1>7 DEF IRestart, IReset
  <2> QED
    BY <2>1, NothingInUse, PTL
<1> QED
  BY <1>3, <1>4, <1>5, <1>6, <1>7
  DEF Next, Network, EBoot, EStep, IInterrupt, EInterrupt, Transfer, Lose, LinkChange, ERestart,
      vars, ivars, ibuf

\* Every mbuf of the sending host is free or accounted for, whatever the links accept,
\* wherever the pool runs out and whenever the host is restarted: none leaks.
THEOREM MbufsConserved == Spec => []MbufConservation
<1>1. Init => PoolInv
  BY NothingInUse DEF Init, IInit
<1>2. OrderInv /\ PoolInv /\ [Next]_vars => PoolInv'
  BY PoolStep
<1> QED
  BY <1>1, <1>2, OrderInvCorrect, PoolInvImpliesConservation, PTL DEF Spec

-----------------------------------------------------------------------------
(* Link status: no host ignores a working link.                            *)

\* A port whose callback is not registered yet still has the bit it was born with.
MaskInv ==
    /\ NoHealthyLinkMasked
    /\ \A l \in Links : l \notin ireg => l \in imask
    /\ \A l \in Links : l \notin ereg => l \in emask

LEMMA MaskStep == TInv /\ MaskInv /\ [Next]_vars => MaskInv'
<1> SUFFICES ASSUME TInv, MaskInv, [Next]_vars PROVE MaskInv'
  OBVIOUS
<1> USE DEF MaskInv, NoHealthyLinkMasked, ILink!NoHealthyLinkMasked, ELink!NoHealthyLinkMasked,
            Links, ILink!Links, ELink!Links
<1>1. CASE UNCHANGED <<imask, emask, up, iirq, ireg, eirq, ereg>>
  BY <1>1
<1>2. CASE IBoot
  BY <1>2 DEF IBoot, ILink!check_all_ports_link_status, ILink!Register, ivars, evars, ilsc, elsc
<1>3. CASE EBoot
  BY <1>3 DEF EBoot, ELink!check_all_ports_link_status, ELink!Register, ivars, evars, ilsc, elsc
<1>4. CASE IStep
  BY <1>1, <1>4 DEF IStep, INext, IRx, IFilterUnknown, IFilterKnown, IFiltered, ISkipPort,
                    ITxPort, ICommit, evars, ilsc, elsc
<1>5. CASE EStep
  BY <1>1, <1>5 DEF EStep, ENext, ESkipPort, ERx, EAccept, EDrop, EFiltered, ETx,
                    ivars, ilsc, elsc
<1>6. ASSUME NEW l \in Links, IInterrupt(l) PROVE MaskInv'
  BY <1>6 DEF IInterrupt, ILink!lsi_event_callback, ILink!Unheard, evars, elsc
<1>7. ASSUME NEW l \in Links, EInterrupt(l) PROVE MaskInv'
  BY <1>7 DEF EInterrupt, ELink!lsi_event_callback, ELink!Unheard, ivars, ilsc
<1>8. ASSUME NEW l \in Links, Transfer(l) \/ Lose(l) PROVE MaskInv'
  BY <1>1, <1>8 DEF Transfer, Lose, ITxDone, EArrive, evars, ilsc, elsc
<1>9. ASSUME NEW l \in Links, LinkChange(l) PROVE MaskInv'
  <2>1. up \in [Links -> BOOLEAN]
    BY DEF TInv, TypeOK
  <2> QED
    BY <1>9, <2>1 DEF LinkChange, ivars, evars
<1>10. CASE IRestart
  BY <1>10 DEF IRestart, IReset, ILink!LReset, evars, elsc
<1>11. CASE ERestart
  BY <1>11 DEF ERestart, EReset, ELink!LReset, ivars, ilsc
<1>12. CASE UNCHANGED vars
  BY <1>1, <1>12 DEF vars, ivars, evars, ilsc, elsc
<1> QED
  BY <1>2, <1>3, <1>4, <1>5, <1>6, <1>7, <1>8, <1>9, <1>10, <1>11, <1>12 DEF Next, Network

\* Whatever links do while the hosts boot and run, a clear bit of port_mask means
\* a link that is down or an interrupt that will set the bit again.
THEOREM NoWorkingLinkIgnored == Spec => []NoHealthyLinkMasked
<1>1. Init => MaskInv
  BY DEF Init, IInit, EInit, MaskInv, NoHealthyLinkMasked, ILink!NoHealthyLinkMasked,
         ELink!NoHealthyLinkMasked, Links, ILink!Links, ELink!Links
<1>2. MaskInv => NoHealthyLinkMasked
  BY DEF MaskInv
<1> QED
  BY <1>1, <1>2, InitTInv, TInvStep, MaskStep, PTL DEF Spec

-----------------------------------------------------------------------------
(* The pair implements OrderedDelivery.                                    *)

\* No server offers more than the bound of the model.
OfferedInv == \A s \in IngressServers : offered[s] <= MaxFrames

LEMMA OfferedStep == TInv /\ OfferedInv /\ [Next]_vars => OfferedInv'
<1> SUFFICES ASSUME TInv, OfferedInv, [Next]_vars PROVE OfferedInv'
  OBVIOUS
<1>1. CASE UNCHANGED offered
  BY <1>1 DEF OfferedInv
<1>2. ASSUME NEW s \in IngressServers, IFilterKnown(s) PROVE OfferedInv'
  <2>1. offered \in [IngressServers -> Nat] /\ MaxFrames \in Nat
    BY BoundsAssumption DEF TInv, TypeOK, ITypeOK
  <2> QED
    BY <1>2, <2>1 DEF IFilterKnown, OfferedInv
<1>3. CASE IStep
  BY <1>1, <1>2, <1>3 DEF IStep, INext, IRx, IFilterUnknown, IFiltered, ISkipPort, ITxPort,
                          ICommit
<1> QED
  BY <1>1, <1>3 DEF Next, Network, IBoot, EBoot, EStep, IInterrupt, EInterrupt, Transfer, Lose,
                    ITxDone, LinkChange, IRestart, ERestart, vars, ivars

\* Too few frames to wrap the counter.
LEMMA FewFrames ==
    ASSUME MaxFrames < CounterMod, TInv, OfferedInv
    PROVE  NoWrap
<1>1. offered \in [IngressServers -> Nat]
  BY DEF TInv, TypeOK, ITypeOK
<1> QED
  BY <1>1, BoundsAssumption, WidthsAssumption DEF OfferedInv, NoWrap

LEMMA OfferMapsToOffer ==
    ASSUME NEW s \in IngressServers, IFilterKnown(s), UNCHANGED evars
    PROVE  Promise!Next
BY DEF IFilterKnown, evars, Promise!Next, Promise!Offer

LEMMA DeliverMapsToDeliver ==
    ASSUME OrderInv, (OrderInv /\ InOrderOnce /\ NoWrap)', NEW n \in Nat, ETx(n), UNCHANGED ivars
    PROVE  [Promise!Next]_(Promise!vars)
<1> DEFINE m == Len(delivered)
           u == SubSeq(efiltered, 1, n)
<1>1. /\ delivered \in Seq(Packet) /\ efiltered \in Seq(Packet) /\ n <= Len(efiltered)
      /\ delivered' = delivered \o u /\ m \in Nat
      /\ offered' = offered
  BY DEF ETx, OrderInv, TInv, TypeOK, ETypeOK, ivars
<1>2. u \in Seq(Packet) /\ Len(u) = n
  BY <1>1
<1> HIDE DEF u
<1>3. CASE n = 0
  <2>1. delivered' = delivered
    BY <1>1, <1>2, <1>3, ConcatEmptySeq, EmptySeq
  <2> QED
    BY <1>1, <2>1 DEF Promise!vars
<1>4. CASE n > 0
  <2>1. Len(delivered') > Len(delivered)
    BY <1>1, <1>2, <1>4
  <2>2. SubSeq(delivered', 1, Len(delivered)) = delivered
    BY <1>1, <1>2
  <2>3. ASSUME NEW i \in DOMAIN delivered'
        PROVE  /\ delivered'[i].srv \in IngressServers
               /\ delivered'[i].id \in 1 .. offered[delivered'[i].srv]
    <3>1. delivered'[i] \in sent
      BY <2>3 DEF OrderInv, TransitInv, ivars
    <3>2. delivered'[i] \in Packet
      BY <3>1 DEF OrderInv, TInv, TypeOK, ITypeOK
    <3>3. delivered'[i].id \in 1 .. offered[delivered'[i].srv]
      BY <3>1 DEF OrderInv, SenderInv, BurstInv
    <3> QED
      BY <3>2, <3>3 DEF Packet
  <2>4. Promise!InOrder(delivered')
    BY DEF InOrderOnce, Promise!InOrder
  <2> QED
    BY <1>1, <2>1, <2>2, <2>3, <2>4 DEF Promise!Next, Promise!Deliver
<1> QED
  BY <1>3, <1>4

LEMMA StepMapsToStep ==
    ASSUME OrderInv, (OrderInv /\ InOrderOnce /\ NoWrap)', [Next]_vars
    PROVE  [Promise!Next]_(Promise!vars)
<1>1. CASE UNCHANGED <<offered, delivered>>
  BY <1>1 DEF Promise!vars
<1>2. CASE IStep
  BY <1>1, <1>2, OfferMapsToOffer
  DEF IStep, INext, IRx, IFilterUnknown, IFiltered, ISkipPort, ITxPort, ICommit, evars
<1>3. CASE EStep
  BY <1>1, <1>3, DeliverMapsToDeliver
  DEF EStep, ENext, ESkipPort, ERx, EAccept, EDrop, EFiltered, ivars
<1>4. CASE ERestart
  BY <1>4 DEF ERestart, EReset, ivars, Promise!Next, Promise!ReceiverRestart
<1> QED
  BY <1>1, <1>2, <1>3, <1>4
  DEF Next, Network, IBoot, EBoot, IInterrupt, EInterrupt, Transfer, EArrive, Lose, ITxDone,
      LinkChange, IRestart, vars, ivars, evars

\* Every behaviour of the pair in which fewer frames are offered than the counter
\* can number is one OrderedDelivery allows.
THEOREM ImplementsPromise ==
    ASSUME MaxFrames < CounterMod
    PROVE  Spec => ImplementsOrderedDelivery
<1>1. Init => Promise!Init
  BY DEF Init, IInit, EInit, Promise!Init
<1>2. Init => OfferedInv
  BY BoundsAssumption DEF Init, IInit, OfferedInv
<1>3. OrderInv => TInv
  BY DEF OrderInv
<1>4. TInv /\ OfferedInv => NoWrap
  BY FewFrames
<1>5. OrderInv /\ (OrderInv /\ InOrderOnce /\ NoWrap)' /\ [Next]_vars => [Promise!Next]_(Promise!vars)
  BY StepMapsToStep
<1> QED
  BY <1>1, <1>2, <1>3, <1>4, <1>5, InitOrderInv, OrderInvStep, OfferedStep,
     OrderInvImpliesInOrder, PTL
  DEF Spec, ImplementsOrderedDelivery, Promise!Spec
=============================================================================
