---------------------------- MODULE IperfStat_proofs ---------------------------
(***************************************************************************)
(* What the two servers of iperf-stat promise.                             *)
(*                                                                         *)
(* The statistics service, for any number of instances, requests, readings *)
(* and removals: its types, that the answers add up whatever the order of  *)
(* the requests, that a checked build never puts an older reading back,    *)
(* and what holds for one client and for one instance.                     *)
(*                                                                         *)
(* The log server, for any number of links, requests, lines and removals:  *)
(* its types, how far a line that does not parse reaches, and what ends    *)
(* the task of a link.                                                     *)
(***************************************************************************)
EXTENDS NetStats, LogStats, FiniteSetTheorems, TLAPS

-----------------------------------------------------------------------------
(* The statistics service: types. *)

LEMMA TypeInit == Init => TypeOK
<1> SUFFICES ASSUME Init PROVE TypeOK
  OBVIOUS
<1>1. docs \in Seq(Reading) /\ {drops} \subseteq 0 .. MaxDrops
  BY DropsAssumption DEF Init
<1>2. {reading, prev, base} \subseteq Reading /\ istat \in [Instances -> Reading]
      /\ hstat \in [Handlers -> Reading]
  BY ReadingAssumption DEF Init, Reading
<1>3. served \in 0 .. CounterMod - 1
  BY ReadingAssumption DEF Init
<1> QED
  BY <1>1, <1>2, <1>3 DEF Init, TypeOK

\* The last document found is a reading, also when there is none.
LEMMA FoundIsReading ==
    ASSUME docs \in Seq(Reading)
    PROVE  Found \in Reading
BY ReadingAssumption DEF Found, Reading

LEMMA WriterKeepsTypes ==
    ASSUME TypeOK, Writer
    PROVE  TypeOK'
<1> USE ReadingAssumption, DropsAssumption
<1>1. CASE WriterCheck
  BY <1>1 DEF WriterCheck, TypeOK, bvars, hvars
<1>2. CASE WriterUpdate
  <2>1. docs' \in Seq(Reading)
    BY <1>2 DEF WriterUpdate, TypeOK, Stored
  <2> QED
    BY <1>2, <2>1 DEF WriterUpdate, TypeOK, wvars, bvars, hvars
<1>3. CASE WriterRestart
  BY <1>3 DEF WriterRestart, TypeOK, bvars, hvars
<1>4. CASE Grow
  BY <1>4 DEF Grow, TypeOK, bvars, hvars, Reading
<1>5. CASE Drop
  BY <1>5 DEF Drop, TypeOK, wvars, bvars, hvars
<1> QED
  BY <1>1, <1>2, <1>3, <1>4, <1>5 DEF Writer

LEMMA BootKeepsTypes ==
    ASSUME TypeOK, NEW i \in Instances, Boot(i)
    PROVE  TypeOK'
<1> USE ReadingAssumption, FoundIsReading
<1>1. CASE BootRead(i)
  BY <1>1 DEF BootRead, TypeOK, wvars, hvars
<1>2. CASE BootInsert(i)
  <2>1. docs' \in Seq(Reading)
    BY <1>2 DEF BootInsert, TypeOK, Reading
  <2> QED
    BY <1>2, <2>1 DEF BootInsert, TypeOK, wvars, hvars
<1>3. CASE Bind(i)
  BY <1>3 DEF Bind, TypeOK, wvars
<1> QED
  BY <1>1, <1>2, <1>3 DEF Boot

\* Differences are taken modulo the width of the counters.
LEMMA MinusType ==
    ASSUME NEW a \in Reading, NEW b \in Reading, NEW s \in 0 .. CounterMod - 1
    PROVE  /\ Minus(a, b) \in 0 .. CounterMod - 1
           /\ (s + Minus(a, b)) % CounterMod \in 0 .. CounterMod - 1
<1>1. Minus(a, b) \in 0 .. CounterMod - 1
  BY ReadingAssumption DEF Minus, Reading
<1> QED
  BY <1>1, ReadingAssumption

LEMMA HandleKeepsTypes ==
    ASSUME TypeOK, NEW h \in Handlers, Handle(h)
    PROVE  TypeOK'
<1> USE ReadingAssumption, FoundIsReading
<1>1. CASE HandlerRead(h)
  BY <1>1 DEF HandlerRead, TypeOK, wvars, bvars
<1>2. CASE HandlerInsert(h)
  <2>1. docs' \in Seq(Reading)
    BY <1>2 DEF HandlerInsert, TypeOK, Reading
  <2> QED
    BY <1>2, <2>1 DEF HandlerInsert, TypeOK, wvars, bvars
<1>3. CASE HandlerAnswer(h)
  <2>1. served' \in 0 .. CounterMod - 1
    BY <1>3, MinusType DEF HandlerAnswer, TypeOK
  <2> QED
    BY <1>3, <2>1 DEF HandlerAnswer, NewPrev, TypeOK, wvars, bvars
<1>4. CASE HandlerPanic(h)
  BY <1>4 DEF HandlerPanic, TypeOK, wvars, bvars
<1> QED
  BY <1>1, <1>2, <1>3, <1>4 DEF Handle

LEMMA NextKeepsTypes == TypeOK /\ [Next]_vars => TypeOK'
<1> SUFFICES ASSUME TypeOK, [Next]_vars PROVE TypeOK'
  OBVIOUS
<1>1. CASE UNCHANGED vars
  BY <1>1 DEF vars, wvars, bvars, hvars, TypeOK
<1> QED
  BY <1>1, WriterKeepsTypes, BootKeepsTypes, HandleKeepsTypes DEF Next

\* Every variable of the service keeps its type: the answers stay below 2^64 and what is
\* behind the mutex of warp_handle() is always a reading of the traffic.
THEOREM TypeCorrect == Spec => []TypeOK
<1>1. Init => TypeOK
  BY TypeInit
<1>2. TypeOK /\ [Next]_vars => TypeOK'
  BY NextKeepsTypes
<1> QED
  BY <1>1, <1>2, PTL DEF Spec

-----------------------------------------------------------------------------
(* What was answered adds up. *)

\* Taking a difference modulo the width of the counters.
LEMMA MinusIs ==
    ASSUME NEW a \in Reading, NEW b \in Reading
    PROVE  Minus(a, b) = IF a >= b THEN a - b ELSE a - b + CounterMod
<1>1. CASE a >= b
  <2>1. a + CounterMod - b = (a - b) + CounterMod /\ a - b \in 0 .. CounterMod - 1
    BY <1>1, ReadingAssumption DEF Reading
  <2>2. ((a - b) + CounterMod) % CounterMod = a - b
    BY <2>1, ReadingAssumption, SMTT(30)
  <2> QED
    BY <1>1, <2>1, <2>2 DEF Minus
<1>2. CASE a < b
  <2>1. a + CounterMod - b \in 0 .. CounterMod - 1
    BY <1>2, ReadingAssumption DEF Reading
  <2>2. (a + CounterMod - b) % CounterMod = a + CounterMod - b
    BY <2>1, ReadingAssumption, SMTT(30)
  <2> QED
    BY <1>2, <2>1, <2>2, ReadingAssumption DEF Minus, Reading
<1> QED
  BY <1>1, <1>2 DEF Reading

\* Two differences in a row are one.
LEMMA MinusChain ==
    ASSUME NEW a \in Reading, NEW b \in Reading, NEW c \in Reading
    PROVE  (Minus(b, c) + Minus(a, b)) % CounterMod = Minus(a, c)
<1> DEFINE sum == Minus(b, c) + Minus(a, b)
<1>1. /\ Minus(a, b) = IF a >= b THEN a - b ELSE a - b + CounterMod
      /\ Minus(b, c) = IF b >= c THEN b - c ELSE b - c + CounterMod
      /\ Minus(a, c) = IF a >= c THEN a - c ELSE a - c + CounterMod
  BY MinusIs
<1>2. Minus(a, c) \in 0 .. CounterMod - 1
  BY <1>1, ReadingAssumption DEF Reading
<1>3. sum = Minus(a, c) \/ sum = Minus(a, c) + CounterMod
  BY <1>1, ReadingAssumption DEF Reading
<1> HIDE DEF sum
<1> DEFINE d == Minus(a, c)
<1>4. d \in 0 .. CounterMod - 1 /\ CounterMod \in Nat /\ CounterMod > 0
  BY <1>2, ReadingAssumption
<1>5. sum = d \/ sum = d + CounterMod
  BY <1>3
<1> HIDE DEF d
<1>6. d % CounterMod = d /\ (d + CounterMod) % CounterMod = d
  BY <1>4, SMTT(30)
<1>7. sum % CounterMod = d
  BY <1>5, <1>6
<1> QED
  BY <1>7 DEF sum, d

\* Nothing is served before an address is bound.
NotServing == server = NoInstance => served = 0 /\ \A h \in Handlers : hpc[h] = "idle"

LEMMA SumsStep ==
    ASSUME TypeOK, NotServing, DifferencesAddUp, [Next]_vars
    PROVE  NotServing' /\ DifferencesAddUp'
<1>1. CASE UNCHANGED vars \/ Writer
  BY <1>1 DEF vars, wvars, bvars, hvars, Writer, WriterCheck, WriterUpdate, WriterRestart, Grow, Drop,
              NotServing, DifferencesAddUp, Minus
<1>2. ASSUME NEW i \in Instances, BootRead(i) \/ BootInsert(i) PROVE NotServing' /\ DifferencesAddUp'
  BY <1>2 DEF BootRead, BootInsert, wvars, hvars, NotServing, DifferencesAddUp, Minus
<1>3. ASSUME NEW i \in Instances, Bind(i) PROVE NotServing' /\ DifferencesAddUp'
  <2>1. CASE server = NoInstance
    <3>1. prev' = istat[i] /\ base' = istat[i] /\ served' = 0 /\ server' = i /\ istat[i] \in Reading
      BY <1>3, <2>1 DEF Bind, NotServing, TypeOK
    <3>2. Minus(istat[i], istat[i]) = 0
      BY <3>1, MinusIs DEF Reading
    <3>3. server' # NoInstance
      BY <3>1, InstanceAssumption
    <3> QED
      BY <3>1, <3>2, <3>3 DEF NotServing, DifferencesAddUp, Minus
  <2>2. CASE server # NoInstance
    BY <1>3, <2>2 DEF Bind, NotServing, DifferencesAddUp, Minus
  <2> QED
    BY <2>1, <2>2
<1>4. ASSUME NEW h \in Handlers, HandlerRead(h) \/ HandlerInsert(h) \/ HandlerPanic(h)
      PROVE  NotServing' /\ DifferencesAddUp'
  <2>1. server # NoInstance /\ UNCHANGED <<server, served, prev, base>>
    BY <1>4 DEF HandlerRead, HandlerInsert, HandlerPanic, bvars, NotServing
  <2> QED
    BY <2>1 DEF NotServing, DifferencesAddUp, Minus
<1>5. ASSUME NEW h \in Handlers, HandlerAnswer(h) PROVE NotServing' /\ DifferencesAddUp'
  <2>1. server # NoInstance /\ server' = server /\ base' = base
    BY <1>5 DEF HandlerAnswer, bvars, NotServing
  <2>2. served' = (Minus(prev, base) + Minus(hstat[h], prev)) % CounterMod /\ prev' = hstat[h]
    BY <1>5, <2>1 DEF HandlerAnswer, DifferencesAddUp, NewPrev
  <2>3. served' = Minus(prev', base)
    BY <2>2, MinusChain DEF TypeOK
  <2> QED
    BY <2>1, <2>3 DEF NotServing, DifferencesAddUp, Minus
<1> QED
  BY <1>1, <1>2, <1>3, <1>4, <1>5 DEF Next, Boot, Handle

\* The differences answered to all clients together are the growth from the first prev_val to
\* the present one, in whatever order requests read the document and reach the mutex.
THEOREM AnswersAddUp == Spec => []DifferencesAddUp
<1>1. Init => NotServing /\ DifferencesAddUp
  BY DEF Init, NotServing, DifferencesAddUp
<1>2. TypeOK /\ (NotServing /\ DifferencesAddUp) /\ [Next]_vars => (NotServing /\ DifferencesAddUp)'
  BY SumsStep
<1> QED
  BY <1>1, <1>2, TypeCorrect, PTL DEF Spec

\* With checked subtraction the value behind the mutex never falls: a request that read before
\* an answered one panics.
THEOREM NoOlderReadingIsKept == Spec => PrevNeverFalls
<1> DEFINE A == server # NoInstance /\ OverflowChecks => prev' >= prev
<1>1. TypeOK /\ [Next]_vars => [A]_vars
  <2> SUFFICES ASSUME TypeOK, Next, server # NoInstance, OverflowChecks PROVE prev' >= prev
    OBVIOUS
  <2>1. prev \in Nat /\ \A h \in Handlers : hstat[h] \in Nat
    BY DEF TypeOK, Reading
  <2>2. CASE UNCHANGED prev
    BY <2>1, <2>2
  <2>3. ASSUME NEW h \in Handlers, HandlerAnswer(h) PROVE prev' >= prev
    BY <2>1, <2>3 DEF HandlerAnswer, Underflows, NewPrev
  <2> QED
    BY <2>2, <2>3 DEF Next, Writer, Boot, Handle, WriterCheck, WriterUpdate, WriterRestart, Grow, Drop,
                      BootRead, BootInsert, Bind, HandlerRead, HandlerInsert, HandlerPanic, hvars
<1> QED
  BY <1>1, TypeCorrect, PTL DEF Spec, PrevNeverFalls

-----------------------------------------------------------------------------
(* One client at a time, one instance. *)

\* While nobody empties the collection, a single document never falls behind what was read
\* from it: by an instance about to bind, by a request, and by what is behind the mutex.
DocumentsKeepUp ==
    /\ \A k \in DOMAIN docs : docs[k] <= reading
    /\ \A i \in Instances :
         /\ ipc[i] = "insert" => istat[i] = 0
         /\ ipc[i] \in {"bind", "serving"} => docs # <<>>
         /\ ipc[i] = "bind" /\ Len(docs) = 1 => istat[i] <= docs[1]
    /\ server # NoInstance => docs # <<>>
    /\ server # NoInstance /\ Len(docs) = 1 => prev <= docs[1]
    /\ \A h \in Handlers :
         /\ hpc[h] # "insert"
         /\ hpc[h] = "lock" /\ Len(docs) = 1 => hstat[h] <= docs[1]

\* While requests follow one another, the one that is served read no less than the last.
OneByOne ==
    /\ ~poisoned
    /\ \A h \in Handlers : hpc[h] = "lock" => prev <= hstat[h]
    /\ \A g, h \in Handlers : hpc[g] # "idle" /\ hpc[h] # "idle" => g = h

KeptInv ==
    /\ NotServing
    /\ drops = 0 => DocumentsKeepUp
    /\ drops = 0 /\ ~overlapped => OneByOne

\* The readings of the documents are numbers.
LEMMA DocumentsAreReadings ==
    ASSUME NEW s \in Seq(Reading)
    PROVE  /\ \A k \in DOMAIN s : s[k] \in Nat
           /\ s = <<>> <=> Len(s) = 0
           /\ Len(s) \in Nat
           /\ Len(s) = 1 => 1 \in DOMAIN s /\ s[1] \in Nat
<1>1. \A k \in DOMAIN s : s[k] \in Nat
  <2> SUFFICES ASSUME NEW k \in DOMAIN s PROVE s[k] \in Nat
    OBVIOUS
  <2>1. s[k] \in Reading
    OBVIOUS
  <2> QED
    BY <2>1 DEF Reading
<1>2. Len(s) = 1 => 1 \in DOMAIN s
  OBVIOUS
<1> QED
  BY <1>1, <1>2

LEMMA KeptWriter ==
    ASSUME TypeOK, KeptInv, Writer
    PROVE  KeptInv'
<1> USE DropsAssumption
<1>1. CASE Drop
  BY <1>1 DEF Drop, TypeOK, KeptInv, NotServing, wvars, bvars, hvars
<1>2. CASE WriterCheck \/ WriterRestart
  BY <1>2 DEF WriterCheck, WriterRestart, KeptInv, NotServing, DocumentsKeepUp, OneByOne, bvars, hvars
<1>3. CASE Grow
  <2>1. drops = 0 => \A k \in DOMAIN docs : docs'[k] <= reading'
    <3> SUFFICES ASSUME drops = 0, NEW k \in DOMAIN docs PROVE docs[k] <= reading + 1
      BY <1>3 DEF Grow
    <3>1. docs[k] \in Nat /\ reading \in Nat /\ docs[k] <= reading
      BY DocumentsAreReadings DEF TypeOK, KeptInv, DocumentsKeepUp, Reading
    <3> QED
      BY <3>1
  <2> QED
    BY <1>3, <2>1 DEF Grow, KeptInv, NotServing, DocumentsKeepUp, OneByOne, bvars, hvars
<1>4. CASE WriterUpdate
  <2>1. UNCHANGED <<drops, reading, ipc, istat, server, prev, poisoned, hpc, hstat, overlapped, served>>
    BY <1>4 DEF WriterUpdate, wvars, bvars, hvars
  <2>2. CASE docs = <<>>
    <3>1. docs' = <<reading>>
      BY <1>4, <2>2 DEF WriterUpdate, Stored
    <3>2. docs' # <<>> /\ Len(docs') = 1 /\ docs'[1] = reading /\ DOMAIN docs' = {1} /\ reading \in Nat
      BY <3>1 DEF TypeOK, Reading
    <3>3. drops = 0 => server = NoInstance /\ \A i \in Instances : ipc[i] # "bind"
      BY <2>2 DEF KeptInv, DocumentsKeepUp
    <3> QED
      BY <2>1, <3>2, <3>3 DEF KeptInv, NotServing, DocumentsKeepUp, OneByOne
  <2>3. CASE docs # <<>>
    <3>1. docs' = [k \in DOMAIN docs |-> reading] /\ docs \in Seq(Reading)
      BY <1>4, <2>3 DEF WriterUpdate, Stored, TypeOK
    <3>2. DOMAIN docs' = DOMAIN docs /\ Len(docs') = Len(docs) /\ docs' # <<>>
      BY <2>3, <3>1
    <3>3. \A k \in DOMAIN docs : docs'[k] = reading /\ docs[k] \in Nat /\ reading \in Nat
      BY <3>1, DocumentsAreReadings DEF TypeOK, Reading
    <3>4. Len(docs) = 1 => 1 \in DOMAIN docs
      BY <3>1
    <3>5. drops = 0 /\ Len(docs) = 1 => docs[1] <= docs'[1]
      BY <3>3, <3>4 DEF KeptInv, DocumentsKeepUp
    <3>6. /\ prev \in Nat
          /\ \A i \in Instances : istat[i] \in Nat
          /\ \A h \in Handlers : hstat[h] \in Nat
      BY DEF TypeOK, Reading
    <3>7. drops = 0 => DocumentsKeepUp'
      <4> SUFFICES ASSUME drops = 0 PROVE DocumentsKeepUp'
        OBVIOUS
      <4>1. DocumentsKeepUp
        BY DEF KeptInv
      <4>2. \A n \in Nat : Len(docs) = 1 /\ n <= docs[1] => n <= docs'[1]
        BY <3>3, <3>4, <3>5
      <4>3. \A k \in DOMAIN docs : docs'[k] <= reading
        BY <3>3
      <4> QED
        BY <2>1, <2>3, <3>2, <3>6, <4>1, <4>2, <4>3 DEF DocumentsKeepUp
    <3> QED
      BY <2>1, <3>7 DEF KeptInv, NotServing, OneByOne
  <2> QED
    BY <2>2, <2>3
<1> QED
  BY <1>1, <1>2, <1>3, <1>4 DEF Writer

\* A document inserted by run() or by a request is never read back as the only one after
\* another was there.
LEMMA AppendIsLonger ==
    ASSUME NEW s \in Seq(Reading)
    PROVE  /\ Append(s, 0) # <<>>
           /\ Len(Append(s, 0)) = 1 => s = <<>> /\ Append(s, 0)[1] = 0
           /\ \A k \in DOMAIN Append(s, 0) : Append(s, 0)[k] = 0 \/ (k \in DOMAIN s /\ Append(s, 0)[k] = s[k])
OBVIOUS

\* Where the first read leaves run().
LEMMA BootReadIs ==
    ASSUME TypeOK, NEW i \in Instances, BootRead(i)
    PROVE  /\ ipc'[i] \in {"failed", "bind", "insert"}
           /\ ipc'[i] = "insert" => docs = <<>>
           /\ ipc'[i] = "bind" => Len(docs) = 1
<1>1. docs \in Seq(Reading) /\ i \in DOMAIN ipc
  BY DEF TypeOK
<1>2. ipc'[i] = IF Len(docs) > 1 THEN "failed" ELSE IF Len(docs) = 1 THEN "bind" ELSE "insert"
  BY <1>1 DEF BootRead
<1> DEFINE n == Len(docs)
<1>3. n \in Nat /\ (n = 0 => docs = <<>>)
  BY <1>1, DocumentsAreReadings
<1>4. ipc'[i] = IF n > 1 THEN "failed" ELSE IF n = 1 THEN "bind" ELSE "insert"
  BY <1>2
<1> HIDE DEF n
<1>5. n > 1 \/ n = 1 \/ n = 0
  BY <1>3
<1>6. /\ ipc'[i] \in {"failed", "bind", "insert"}
      /\ ipc'[i] = "insert" => n = 0
      /\ ipc'[i] = "bind" => n = 1
  BY <1>4, <1>5
<1> QED
  BY <1>3, <1>6 DEF n

LEMMA KeptBoot ==
    ASSUME TypeOK, KeptInv, NEW i \in Instances, Boot(i)
    PROVE  KeptInv'
<1>1. CASE BootRead(i)
  <2>1. UNCHANGED <<docs, drops, reading, server, prev, poisoned, hpc, hstat, overlapped, served>>
    BY <1>1 DEF BootRead, wvars, hvars
  <2>2. \A j \in Instances \ {i} : ipc'[j] = ipc[j] /\ istat'[j] = istat[j]
    BY <1>1 DEF BootRead, TypeOK
  <2>3. /\ ipc'[i] = "insert" => docs = <<>>
        /\ ipc'[i] = "bind" => Len(docs) = 1
        /\ ipc'[i] # "serving"
    BY <1>1, BootReadIs
  <2>4. istat'[i] = Found
    BY <1>1 DEF BootRead, TypeOK
  <2>5. /\ docs = <<>> => Found = 0
        /\ Len(docs) = 1 => docs # <<>> /\ Found = docs[1] /\ docs[1] \in Nat
    BY DocumentsAreReadings DEF Found, TypeOK
  <2>6. drops = 0 => DocumentsKeepUp'
    BY <2>1, <2>2, <2>3, <2>4, <2>5 DEF KeptInv, DocumentsKeepUp
  <2> QED
    BY <2>1, <2>6 DEF KeptInv, NotServing, OneByOne
<1>2. CASE BootInsert(i)
  <2>1. UNCHANGED <<drops, reading, istat, server, prev, poisoned, hpc, hstat, overlapped, served>>
    BY <1>2 DEF BootInsert, wvars, hvars
  <2>2. /\ ipc[i] = "insert" /\ ipc'[i] = "bind"
        /\ \A j \in Instances \ {i} : ipc'[j] = ipc[j]
    BY <1>2 DEF BootInsert, TypeOK
  <2>3. /\ docs' # <<>>
        /\ Len(docs') = 1 => docs = <<>> /\ docs'[1] = 0
        /\ \A k \in DOMAIN docs' : docs'[k] = 0 \/ (k \in DOMAIN docs /\ docs'[k] = docs[k])
    BY <1>2, AppendIsLonger DEF BootInsert, TypeOK
  <2>4. drops = 0 => DocumentsKeepUp'
    <3> SUFFICES ASSUME drops = 0 PROVE DocumentsKeepUp'
      OBVIOUS
    <3>1. DocumentsKeepUp
      BY DEF KeptInv
    <3>2. \A k \in DOMAIN docs' : docs'[k] <= reading
      BY <2>3, <3>1 DEF DocumentsKeepUp, TypeOK, Reading
    <3>3. Len(docs') = 1 => /\ server = NoInstance
                            /\ \A j \in Instances : ipc[j] # "bind"
                            /\ \A h \in Handlers : hpc[h] = "idle"
      BY <2>3, <3>1 DEF DocumentsKeepUp, KeptInv, NotServing
    <3>4. istat[i] = 0
      BY <2>2, <3>1 DEF DocumentsKeepUp
    <3> QED
      BY <2>1, <2>2, <2>3, <3>1, <3>2, <3>3, <3>4 DEF DocumentsKeepUp
  <2> QED
    BY <2>1, <2>4 DEF KeptInv, NotServing, OneByOne
<1>3. CASE Bind(i)
  <2>1. UNCHANGED <<docs, drops, reading, istat, poisoned, hpc, hstat, overlapped, served>>
    BY <1>3 DEF Bind, wvars
  <2>2. /\ ipc[i] = "bind" /\ ipc'[i] \in {"serving", "failed"}
        /\ \A j \in Instances \ {i} : ipc'[j] = ipc[j]
    BY <1>3 DEF Bind, TypeOK
  <2>3. \/ server = NoInstance /\ server' = i /\ prev' = istat[i]
        \/ server # NoInstance /\ UNCHANGED <<server, prev>>
    BY <1>3 DEF Bind
  <2>4. i # NoInstance
    BY InstanceAssumption
  <2>5. drops = 0 => DocumentsKeepUp'
    BY <2>1, <2>2, <2>3 DEF KeptInv, DocumentsKeepUp
  <2>6. server = NoInstance => \A h \in Handlers : hpc[h] = "idle"
    BY DEF KeptInv, NotServing
  <2> QED
    BY <2>1, <2>3, <2>4, <2>5, <2>6 DEF KeptInv, NotServing, OneByOne
<1> QED
  BY <1>1, <1>2, <1>3 DEF Boot

LEMMA KeptHandle ==
    ASSUME TypeOK, KeptInv, NEW h \in Handlers, Handle(h)
    PROVE  KeptInv'
<1>1. CASE HandlerRead(h)
  <2>1. /\ UNCHANGED <<docs, drops, reading, ipc, istat, server, prev, poisoned, served>>
        /\ server # NoInstance /\ hpc[h] = "idle"
    BY <1>1 DEF HandlerRead, wvars, bvars
  <2>2. \A g \in Handlers \ {h} : hpc'[g] = hpc[g] /\ hstat'[g] = hstat[g]
    BY <1>1 DEF HandlerRead, TypeOK
  <2>3. overlapped' = (overlapped \/ \E g \in Handlers \ {h} : hpc[g] # "idle")
    BY <1>1 DEF HandlerRead
  <2>4. \/ hpc'[h] = "idle"
        \/ hpc'[h] = "insert" /\ docs = <<>>
        \/ hpc'[h] = "lock" /\ Len(docs) = 1 /\ hstat'[h] = docs[1] /\ docs[1] \in Nat
    <3>1. docs \in Seq(Reading) /\ hpc \in [Handlers -> {"idle", "insert", "lock"}]
          /\ hstat \in [Handlers -> Reading]
      BY DEF TypeOK
    <3>2. CASE Len(docs) > 1
      BY <1>1, <2>1, <3>2 DEF HandlerRead
    <3>3. CASE ~(Len(docs) > 1) /\ docs = <<>>
      BY <1>1, <3>1, <3>3 DEF HandlerRead
    <3>4. CASE ~(Len(docs) > 1) /\ docs # <<>>
      <4>1. Len(docs) = 1 /\ docs[1] \in Nat
        BY <3>1, <3>4, DocumentsAreReadings
      <4>2. hpc'[h] = "lock" /\ hstat'[h] = docs[Len(docs)]
        BY <1>1, <3>1, <3>4 DEF HandlerRead, Found
      <4> QED
        BY <4>1, <4>2
    <3> QED
      BY <3>2, <3>3, <3>4
  <2>5. drops = 0 => DocumentsKeepUp'
    BY <2>1, <2>2, <2>4 DEF KeptInv, DocumentsKeepUp
  <2>6. drops = 0 /\ ~overlapped' => OneByOne'
    <3> SUFFICES ASSUME drops = 0, ~overlapped' PROVE OneByOne'
      OBVIOUS
    <3>1. DocumentsKeepUp /\ OneByOne /\ \A g \in Handlers \ {h} : hpc[g] = "idle"
      BY <2>3 DEF KeptInv
    <3>2. hpc'[h] = "lock" => prev <= hstat'[h]
      BY <2>1, <2>4, <3>1 DEF DocumentsKeepUp
    <3> QED
      BY <2>1, <2>2, <3>1, <3>2 DEF OneByOne
  <2> QED
    BY <2>1, <2>5, <2>6 DEF KeptInv, NotServing
<1>2. CASE HandlerInsert(h)
  <2>1. drops # 0 /\ drops' = drops
    BY <1>2 DEF HandlerInsert, KeptInv, DocumentsKeepUp
  <2>2. NotServing'
    BY <1>2 DEF HandlerInsert, KeptInv, NotServing, bvars
  <2> QED
    BY <2>1, <2>2 DEF KeptInv
<1>3. CASE HandlerAnswer(h)
  <2>1. /\ UNCHANGED <<docs, drops, reading, ipc, istat, server, poisoned, hstat, overlapped>>
        /\ hpc[h] = "lock" /\ prev' = hstat[h]
    BY <1>3 DEF HandlerAnswer, NewPrev, wvars, bvars
  <2>2. hpc'[h] = "idle" /\ \A g \in Handlers \ {h} : hpc'[g] = hpc[g]
    BY <1>3 DEF HandlerAnswer, TypeOK
  <2>3. server # NoInstance
    BY <2>1 DEF KeptInv, NotServing
  <2>4. drops = 0 => DocumentsKeepUp'
    BY <2>1, <2>2 DEF KeptInv, DocumentsKeepUp
  <2>5. drops = 0 /\ ~overlapped => OneByOne'
    BY <2>1, <2>2 DEF KeptInv, OneByOne
  <2> QED
    BY <2>1, <2>3, <2>4, <2>5 DEF KeptInv, NotServing
<1>4. CASE HandlerPanic(h)
  <2>1. /\ UNCHANGED <<docs, drops, reading, ipc, istat, server, prev, hstat, overlapped>>
        /\ hpc[h] = "lock" /\ (poisoned \/ hstat[h] < prev)
    BY <1>4 DEF HandlerPanic, Underflows, wvars, bvars
  <2>2. hpc'[h] = "idle" /\ \A g \in Handlers \ {h} : hpc'[g] = hpc[g]
    BY <1>4 DEF HandlerPanic, TypeOK
  <2>3. server # NoInstance
    BY <2>1 DEF KeptInv, NotServing
  <2>4. drops = 0 => DocumentsKeepUp'
    BY <2>1, <2>2 DEF KeptInv, DocumentsKeepUp
  <2>5. ~(drops = 0 /\ ~overlapped)
    BY <2>1 DEF KeptInv, OneByOne, TypeOK, Reading
  <2> QED
    BY <2>1, <2>3, <2>4, <2>5 DEF KeptInv, NotServing
<1> QED
  BY <1>1, <1>2, <1>3, <1>4 DEF Handle

LEMMA KeptStep == TypeOK /\ KeptInv /\ [Next]_vars => KeptInv'
<1> SUFFICES ASSUME TypeOK, KeptInv, [Next]_vars PROVE KeptInv'
  OBVIOUS
<1>1. CASE UNCHANGED vars
  BY <1>1 DEF vars, wvars, bvars, hvars, KeptInv, NotServing, DocumentsKeepUp, OneByOne
<1> QED
  BY <1>1, KeptWriter, KeptBoot, KeptHandle DEF Next

LEMMA KeptInit == Init => KeptInv
<1> SUFFICES ASSUME Init PROVE KeptInv
  OBVIOUS
<1>1. DOMAIN docs = {} /\ server = NoInstance
  BY DEF Init
<1> QED
  BY <1>1 DEF Init, KeptInv, NotServing, DocumentsKeepUp, OneByOne

LEMMA KeptAlways == Spec => []KeptInv
  BY KeptInit, KeptStep, TypeCorrect, PTL DEF Spec

\* While no request is begun before the one before it is answered, and nobody empties the
\* collection, no request panics and the mutex is never poisoned.
THEOREM SerialRequestsNeverPanic == Spec => []NeverPoisonedSerially
<1>1. KeptInv => NeverPoisonedSerially
  BY DEF KeptInv, OneByOne, NeverPoisonedSerially
<1> QED
  BY <1>1, KeptAlways, PTL

\* At most one instance was started.
OneStarted == \A i, j \in Instances : ipc[i] # "start" /\ ipc[j] # "start" => i = j

\* Who may make a document: an instance that found none; py_server.py only replaces.
OneInv ==
    drops = 0 =>
      /\ wpc = "loop" => docs # <<>>
      /\ (\A i \in Instances : ipc[i] = "start") => docs = <<>>
      /\ OneStarted => /\ Len(docs) <= 1
                       /\ \A i \in Instances : ipc[i] = "insert" => docs = <<>>

LEMMA OneStep == TypeOK /\ KeptInv /\ OneInv /\ [Next]_vars => OneInv'
<1> SUFFICES ASSUME TypeOK, KeptInv, OneInv, [Next]_vars, drops' = 0 PROVE OneInv'
  BY DEF OneInv
<1>0. drops = 0 /\ docs \in Seq(Reading) /\ OneInv
  BY DropsAssumption DEF TypeOK, Next, Writer, WriterCheck, WriterUpdate, WriterRestart, Grow, Drop, Boot, BootRead,
         BootInsert, Bind, Handle, HandlerRead, HandlerInsert, HandlerAnswer, HandlerPanic, vars
<1>1. CASE UNCHANGED <<docs, ipc>> /\ wpc' \in {wpc, "stopped", "check"}
  BY <1>0, <1>1 DEF OneInv, OneStarted
<1>2. CASE WriterCheck
  <2>1. wpc' = "loop" => docs # <<>>
    BY <1>0, <1>2, DocumentsAreReadings DEF WriterCheck
  <2> QED
    BY <1>0, <1>2, <2>1 DEF WriterCheck, OneInv, OneStarted, bvars
<1>3. CASE WriterUpdate
  <2>1. docs # <<>> /\ docs' = [k \in DOMAIN docs |-> Stored] /\ ipc' = ipc
    BY <1>0, <1>3 DEF WriterUpdate, OneInv, bvars
  <2>2. Len(docs') = Len(docs) /\ docs' # <<>>
    BY <1>0, <2>1
  <2> QED
    BY <1>0, <2>1, <2>2 DEF OneInv, OneStarted
<1>4. ASSUME NEW i \in Instances, BootRead(i) PROVE OneInv'
  <2>1. /\ ipc[i] = "start" /\ ipc'[i] # "start" /\ (ipc'[i] = "insert" => docs = <<>>)
        /\ \A j \in Instances \ {i} : ipc'[j] = ipc[j]
        /\ docs' = docs /\ wpc' = wpc
    BY <1>4, BootReadIs DEF BootRead, TypeOK, wvars
  <2>2. OneStarted' => docs = <<>>
    BY <1>0, <2>1 DEF OneInv, OneStarted
  <2> QED
    BY <1>0, <2>1, <2>2 DEF OneInv
<1>5. ASSUME NEW i \in Instances, BootInsert(i) PROVE OneInv'
  <2>1. /\ ipc[i] = "insert" /\ ipc'[i] = "bind"
        /\ \A j \in Instances \ {i} : ipc'[j] = ipc[j]
        /\ docs' = Append(docs, 0) /\ wpc' = wpc
    BY <1>5 DEF BootInsert, TypeOK, wvars
  <2>2. docs' # <<>> /\ (docs = <<>> => Len(docs') = 1)
    BY <1>0, <2>1, ReadingAssumption DEF Reading
  <2>3. OneStarted' => OneStarted /\ \A j \in Instances \ {i} : ipc[j] = "start"
    BY <2>1 DEF OneStarted
  <2>4. OneStarted' => docs = <<>> /\ \A j \in Instances : ipc'[j] # "insert"
    BY <1>0, <2>1, <2>3 DEF OneInv
  <2> QED
    BY <1>0, <2>1, <2>2, <2>4 DEF OneInv
<1>6. ASSUME NEW i \in Instances, Bind(i) PROVE OneInv'
  <2>1. /\ ipc[i] = "bind" /\ ipc'[i] \in {"serving", "failed"}
        /\ \A j \in Instances \ {i} : ipc'[j] = ipc[j]
        /\ docs' = docs /\ wpc' = wpc
    BY <1>6 DEF Bind, TypeOK, wvars
  <2>2. (OneStarted' <=> OneStarted) /\ ~(\A j \in Instances : ipc'[j] = "start")
    BY <2>1 DEF OneStarted
  <2> QED
    BY <1>0, <2>1, <2>2 DEF OneInv
<1>7. ASSUME NEW h \in Handlers, HandlerInsert(h) PROVE FALSE
  BY <1>0, <1>7 DEF HandlerInsert, KeptInv, DocumentsKeepUp
<1>8. ASSUME NEW h \in Handlers, HandlerRead(h) \/ HandlerAnswer(h) \/ HandlerPanic(h)
      PROVE  UNCHANGED <<docs, ipc, wpc>>
  BY <1>8 DEF HandlerRead, HandlerAnswer, HandlerPanic, wvars, bvars
<1>9. CASE WriterRestart \/ Grow \/ UNCHANGED vars
  BY <1>1, <1>9 DEF WriterRestart, Grow, vars, wvars, bvars
<1>10. ~Drop
  BY <1>0 DEF Drop
<1> QED
  BY <1>1, <1>2, <1>3, <1>4, <1>5, <1>6, <1>7, <1>8, <1>9, <1>10 DEF Next, Writer, Boot, Handle

\* At most one element: any two are equal.
LEMMA AtMostOne ==
    ASSUME NEW T, IsFiniteSet(T), Cardinality(T) <= 1, NEW a \in T, NEW b \in T
    PROVE  a = b
<1> SUFFICES ASSUME a # b PROVE FALSE
  OBVIOUS
<1>1. IsFiniteSet({b}) /\ Cardinality({b}) = 1
  BY FS_Singleton
<1>2. Cardinality({b} \cup {a}) = 2
  BY <1>1, FS_AddElement
<1>3. Cardinality({b} \cup {a}) <= Cardinality(T)
  BY FS_Subset
<1>4. Cardinality(T) \in Nat
  BY FS_CardinalityType
<1> QED
  BY <1>2, <1>3, <1>4

\* While one instance is started and nobody empties the collection there are never two
\* documents, which every later read would refuse.
THEOREM OneInstanceOneDocument == Spec => []OneDocument
<1>1. Init => OneInv
  BY DEF Init, OneInv
<1>2. OneInv => OneDocument
  <2> SUFFICES ASSUME OneInv, drops = 0, Cardinality({i \in Instances : ipc[i] # "start"}) <= 1
               PROVE  Len(docs) <= 1
    BY DEF OneDocument
  <2> DEFINE started == {i \in Instances : ipc[i] # "start"}
  <2>1. IsFiniteSet(started)
    BY InstanceAssumption, FS_Subset
  <2>2. \A i, j \in started : i = j
    BY <2>1, AtMostOne
  <2> QED
    BY <2>2 DEF OneInv, OneStarted
<1> QED
  BY <1>1, <1>2, OneStep, KeptAlways, TypeCorrect, PTL DEF Spec

-----------------------------------------------------------------------------
(* The log server: lines. *)

\* A set of numbers below a bound has a greatest one, which Max() names.
LEMMA GreatestNumber ==
    ASSUME NEW n \in Nat, NEW T \in SUBSET (0 .. n), T # {}
    PROVE  Max(T) \in T
<1> DEFINE R == StrictSubsetOrdering(Nat)
           Tails == {k .. n : k \in T}
<1>1. IsWellFoundedOn(R, FiniteSubsetsOf(Nat))
  BY FS_StrictSubsetOrderingWellFounded
<1>2. Tails # {}
  OBVIOUS
<1>3. Tails \subseteq FiniteSubsetsOf(Nat)
  <2> SUFFICES ASSUME NEW k \in T PROVE k .. n \in SUBSET Nat /\ IsFiniteSet(k .. n)
    BY DEF FiniteSubsetsOf
  <2>1. k \in Nat
    OBVIOUS
  <2> QED
    BY <2>1, FS_Interval
<1> HIDE DEF Tails
<1>4. PICK s \in Tails : \A t \in Tails : <<t, s>> \notin R
  <2> HIDE DEF R
  <2> QED
    BY <1>1, <1>2, <1>3, WFMin
<1>5. PICK k \in T : s = k .. n
  BY DEF Tails
<1>6. \A m \in T : k >= m
  <2> SUFFICES ASSUME NEW m \in T, m > k PROVE FALSE
    OBVIOUS
  <2>1. m .. n \in Tails
    BY DEF Tails
  <2>2. m .. n \subseteq k .. n /\ k \notin m .. n /\ k \in k .. n
    OBVIOUS
  <2>3. m .. n \in SUBSET Nat /\ k .. n \in SUBSET Nat /\ m .. n # k .. n
    BY <2>2
  <2>4. <<m .. n, k .. n>> \in R
    BY <2>2, <2>3 DEF StrictSubsetOrdering
  <2> HIDE DEF R
  <2> QED
    BY <1>4, <1>5, <2>1, <2>4
<1> QED
  BY <1>6 DEF Max

\* What read_stats() returns is a value it was given or was made from a line.
LEMMA ReadStatsType ==
    ASSUME NEW lines \in Seq(Line), NEW before \in Int
    PROVE  read_stats(lines, before) \in Int
<1>1. CASE LastFigures(lines) = {}
  BY <1>1 DEF read_stats
<1>2. CASE LastFigures(lines) # {}
  <2> DEFINE n == Len(lines)
             T == LastFigures(lines)
  <2>1. n \in Nat /\ T \in SUBSET (0 .. n)
    BY DEF LastFigures
  <2> HIDE DEF n
  <2>2. Max(T) \in T
    <3> HIDE DEF T
    <3> QED
      BY <1>2, <2>1, GreatestNumber DEF T
  <2>3. Max(T) \in DOMAIN lines
    BY <2>2 DEF LastFigures
  <2>4. lines[Max(T)] \in Line
    BY <2>3
  <2>5. \A line \in Line : FiguresOf(line) \in Int
    BY LinesAssumption DEF Line, FiguresOf
  <2> QED
    BY <1>2, <2>4, <2>5 DEF read_stats
<1> QED
  BY <1>1, <1>2

\* Completing a line leaves a log.
LEMMA CompletedLine ==
    ASSUME NEW s \in Seq(Line), NEW n \in DOMAIN s
    PROVE  [s EXCEPT ![n].kind = "full"] \in Seq(Line)
<1> DEFINE line == [s[n] EXCEPT !.kind = "full"]
<1>1. s[n] \in Line
  OBVIOUS
<1>2. line \in Line
  BY <1>1 DEF Line
<1> HIDE DEF line
<1>3. [s EXCEPT ![n] = line] \in Seq(Line)
  BY <1>2
<1> QED
  BY <1>3 DEF line

\* A line written down at the end, or completed.
LEMMA FileTypes ==
    ASSUME LTypeOK, NEW l \in Links, WriteLine(l) \/ WriteRest(l)
    PROVE  file' \in [Links -> Seq(Line)]
<1> USE LinesAssumption
<1>1. CASE WriteLine(l)
  <2>1. PICK k \in {"full", "other"} \cup Cuts :
          file' = [file EXCEPT ![l] = Append(@, [nr |-> Len(@) + 1, kind |-> k])]
    BY <1>1 DEF WriteLine
  <2> DEFINE line == [nr |-> Len(file[l]) + 1, kind |-> k]
  <2>2. Len(file[l]) + 1 \in 1 .. MaxLines /\ file[l] \in Seq(Line)
    BY <1>1 DEF WriteLine, LTypeOK
  <2>3. line \in Line
    BY <2>2 DEF Line
  <2>4. Append(file[l], line) \in Seq(Line)
    <3> HIDE DEF line
    <3> QED
      BY <2>2, <2>3
  <2> QED
    BY <2>1, <2>4 DEF LTypeOK
<1>2. CASE WriteRest(l)
  <2>1. file[l] \in Seq(Line) /\ file' = [file EXCEPT ![l][Len(file[l])].kind = "full"]
    BY <1>2 DEF WriteRest, LTypeOK
  <2>2. Len(file[l]) \in DOMAIN file[l]
    BY <1>2, <2>1 DEF WriteRest, Complete
  <2>3. [file[l] EXCEPT ![Len(file[l])].kind = "full"] \in Seq(Line)
    BY <2>1, <2>2, CompletedLine
  <2> QED
    BY <2>1, <2>3 DEF LTypeOK
<1> QED
  BY <1>1, <1>2

-----------------------------------------------------------------------------
(* The log server: types. *)

LEMMA LogTypeInit == LInit => LTypeOK
<1> SUFFICES ASSUME LInit PROVE LTypeOK
  OBVIOUS
<1>1. file \in [Links -> Seq(Line)] /\ snapshot \in [Links -> Seq(Line)]
  BY DEF LInit
<1>2. clears \in 0 .. MaxClears /\ held \in [Requests -> 0 .. NbLinks]
  BY LinksAssumption, LinesAssumption DEF LInit
<1>3. res \in [Links -> Int] /\ stat \in [Links -> Int]
  BY DEF LInit
<1> QED
  BY <1>1, <1>2, <1>3 DEF LInit, LTypeOK

LEMMA TypeStep == LTypeOK /\ [LNext]_lvars => LTypeOK'
<1> SUFFICES ASSUME LTypeOK, [LNext]_lvars PROVE LTypeOK'
  OBVIOUS
<1> USE LinksAssumption, LinesAssumption
<1>1. ASSUME NEW l \in Links, WriteLine(l) \/ WriteRest(l) PROVE LTypeOK'
  <2>1. file' \in [Links -> Seq(Line)]
    BY <1>1, FileTypes
  <2> QED
    BY <1>1, <2>1 DEF WriteLine, WriteRest, rvars, LTypeOK
<1>2. ASSUME NEW l \in Links, RestartServer(l) PROVE LTypeOK'
  BY <1>2 DEF RestartServer, rvars, LTypeOK
<1>3. CASE ClearLogs
  <2>1. file' \in [Links -> Seq(Line)] /\ clears' \in 0 .. MaxClears
    BY <1>3 DEF ClearLogs, LTypeOK
  <2> QED
    BY <1>3, <2>1 DEF ClearLogs, rvars, LTypeOK
<1>4. ASSUME NEW l \in Links, ReadFile(l) PROVE LTypeOK'
  BY <1>4 DEF ReadFile, fvars, LTypeOK
<1>5. ASSUME NEW l \in Links, Parse(l) PROVE LTypeOK'
  <2>1. read_stats(snapshot[l], stat[l]) \in Int
    BY ReadStatsType DEF LTypeOK
  <2>2. snapshot' \in [Links -> Seq(Line)]
    BY <1>5 DEF Parse, LTypeOK
  <2>3. res' \in [Links -> Int]
    BY <1>5, <2>1 DEF Parse, LTypeOK
  <2> QED
    BY <1>5, <2>2, <2>3 DEF Parse, fvars, LTypeOK
<1>6. ASSUME NEW l \in Links, Publish(l) PROVE LTypeOK'
  <2>1. stat' \in [Links -> Int] /\ res' \in [Links -> Int]
    BY <1>6 DEF Publish, LTypeOK
  <2>2. rpc' \in [Links -> {"sleep", "parse", "publish", "dead"}]
    BY <1>6 DEF Publish, LTypeOK
  <2> QED
    BY <1>6, <2>1, <2>2 DEF Publish, fvars, LTypeOK
<1>7. ASSUME NEW h \in Requests, LockNext(h) PROVE LTypeOK'
  <2>1. held' \in [Requests -> 0 .. NbLinks]
    <3> DEFINE next == held[h] + 1
    <3>1. next \in 0 .. NbLinks /\ (held' = [held EXCEPT ![h] = 0] \/ held' = [held EXCEPT ![h] = next])
      BY <1>7 DEF LockNext, Links
    <3>2. 0 \in 0 .. NbLinks
      OBVIOUS
    <3> HIDE DEF next
    <3> QED
      BY <3>1, <3>2 DEF LTypeOK
  <2>2. Spread(h) \subseteq Links
    BY DEF Spread, Links, LTypeOK
  <2> QED
    BY <1>7, <2>1, <2>2 DEF LockNext, fvars, rvars, LTypeOK
<1>8. ASSUME NEW h \in Requests, Answer(h) PROVE LTypeOK'
  BY <1>8 DEF Answer, fvars, rvars, LTypeOK
<1>9. CASE UNCHANGED lvars
  BY <1>9 DEF lvars, fvars, rvars, LTypeOK
<1> QED
  BY <1>1, <1>2, <1>3, <1>4, <1>5, <1>6, <1>7, <1>8, <1>9 DEF LNext, Log, keep_reading, warp_handle

\* Every variable of the log server keeps its type: what is shown was made from a line, and no
\* request holds more mutexes than there are links.
THEOREM LogTypeCorrect == LSpec => []LTypeOK
  BY LogTypeInit, TypeStep, PTL DEF LSpec

-----------------------------------------------------------------------------
(* How far a line that does not parse reaches. *)

Whole(lines) == \A k \in DOMAIN lines : lines[k].kind \notin Cuts

\* Behind every poisoned mutex is a task that misread a line, and a line is misread only when
\* logs are cut short.
SpreadInv ==
    /\ \A l \in poisoned_links : \E m \in misread : m >= l
    /\ misread # {} => torn
    /\ ~torn => \A l \in Links : Whole(file[l]) /\ Whole(snapshot[l])

\* Lines that are written at once are whole.
LEMMA WholeFiles ==
    ASSUME LTypeOK, SpreadInv, ~torn, NEW l \in Links, WriteLine(l) \/ WriteRest(l)
    PROVE  \A m \in Links : Whole(file'[m])
<1>1. \A m \in Links : Whole(file[m])
  BY DEF SpreadInv
<1>2. CASE WriteLine(l)
  <2>1. PICK k \in {"full", "other"} :
          file' = [file EXCEPT ![l] = Append(@, [nr |-> Len(@) + 1, kind |-> k])]
    BY <1>2 DEF WriteLine
  <2> DEFINE line == [nr |-> Len(file[l]) + 1, kind |-> k]
  <2>2. line.kind \notin Cuts /\ file[l] \in Seq(Line)
    BY DEF Cuts, LTypeOK
  <2>3. file'[l] = Append(file[l], line)
    BY <2>1 DEF LTypeOK
  <2> HIDE DEF line
  <2>4. \A n \in DOMAIN Append(file[l], line) :
          Append(file[l], line)[n] = line \/ (n \in DOMAIN file[l] /\ Append(file[l], line)[n] = file[l][n])
    BY <2>2
  <2>5. Whole(file'[l])
    BY <1>1, <2>2, <2>3, <2>4 DEF Whole
  <2>6. \A m \in Links \ {l} : file'[m] = file[m]
    BY <2>1 DEF LTypeOK
  <2> QED
    BY <1>1, <2>5, <2>6
<1>3. CASE WriteRest(l)
  <2>1. Complete(l)
    BY <1>1 DEF Complete, Whole
  <2> QED
    BY <1>3, <2>1 DEF WriteRest
<1> QED
  BY <1>2, <1>3

LEMMA SpreadStep == LTypeOK /\ SpreadInv /\ [LNext]_lvars => SpreadInv'
<1> SUFFICES ASSUME LTypeOK, SpreadInv, [LNext]_lvars PROVE SpreadInv'
  OBVIOUS
<1>1. ASSUME NEW l \in Links, WriteLine(l) \/ WriteRest(l) PROVE SpreadInv'
  <2>1. UNCHANGED <<torn, poisoned_links, misread, snapshot>>
    BY <1>1 DEF WriteLine, WriteRest, rvars
  <2>2. ~torn => \A m \in Links : Whole(file'[m])
    BY <1>1, WholeFiles
  <2> QED
    BY <2>1, <2>2 DEF SpreadInv
<1>2. CASE ClearLogs
  <2>1. UNCHANGED <<torn, poisoned_links, misread, snapshot>> /\ \A l \in Links : file'[l] = <<>>
    BY <1>2 DEF ClearLogs, rvars
  <2> QED
    BY <2>1 DEF SpreadInv, Whole
<1>3. ASSUME NEW l \in Links, ReadFile(l) PROVE SpreadInv'
  <2>1. UNCHANGED <<torn, poisoned_links, misread, file>>
    BY <1>3 DEF ReadFile, fvars
  <2>2. \A m \in Links : snapshot'[m] \in {snapshot[m], file[m]}
    BY <1>3 DEF ReadFile, LTypeOK
  <2>3. ~torn => \A m \in Links : Whole(snapshot'[m])
    BY <2>2 DEF SpreadInv
  <2> QED
    BY <2>1, <2>3 DEF SpreadInv
<1>4. ASSUME NEW l \in Links, Parse(l) PROVE SpreadInv'
  <2>1. UNCHANGED <<torn, file>> /\ snapshot' = [snapshot EXCEPT ![l] = <<>>]
    BY <1>4 DEF Parse, fvars
  <2>2. \A m \in Links : snapshot'[m] = <<>> \/ snapshot'[m] = snapshot[m]
    BY <2>1 DEF LTypeOK
  <2>3. Whole(<<>>)
    BY DEF Whole
  <2>4. ~torn => \A m \in Links : Whole(file'[m]) /\ Whole(snapshot'[m])
    BY <2>1, <2>2, <2>3 DEF SpreadInv
  <2>5. \/ UNCHANGED <<poisoned_links, misread>>
        \/ poisoned_links' = poisoned_links \cup {l} /\ misread' = misread \cup {l} /\ Panics(snapshot[l])
    BY <1>4 DEF Parse
  <2>6. Panics(snapshot[l]) => torn
    <3> SUFFICES ASSUME ~torn, Panics(snapshot[l]) PROVE FALSE
      OBVIOUS
    <3>1. PICK k \in 2 .. Len(snapshot[l]) : snapshot[l][k].kind = "bad"
      BY DEF Panics
    <3>2. k \in DOMAIN snapshot[l]
      BY DEF LTypeOK
    <3> QED
      BY <3>1, <3>2 DEF SpreadInv, Whole, Cuts
  <2>7. l >= l
    BY DEF Links
  <2> QED
    BY <2>1, <2>4, <2>5, <2>6, <2>7 DEF SpreadInv
<1>5. ASSUME NEW h \in Requests, LockNext(h) PROVE SpreadInv'
  <2>1. UNCHANGED <<torn, file, snapshot, misread>>
    BY <1>5 DEF LockNext, fvars, rvars
  <2>2. CASE poisoned_links' = poisoned_links
    BY <2>1, <2>2 DEF SpreadInv
  <2>3. CASE held[h] + 1 \in poisoned_links /\ poisoned_links' = poisoned_links \cup Spread(h)
    <3>1. PICK m \in misread : m >= held[h] + 1
      BY <2>3 DEF SpreadInv
    <3>2. m \in Nat /\ held[h] \in Nat
      BY <3>1 DEF LTypeOK, Links
    <3>3. \A l \in Spread(h) : m >= l
      BY <3>1, <3>2 DEF Spread
    <3> QED
      BY <2>1, <2>3, <3>1, <3>3 DEF SpreadInv
  <2> QED
    BY <1>5, <2>2, <2>3 DEF LockNext
<1>6. CASE UNCHANGED <<torn, file, snapshot, poisoned_links, misread>>
  BY <1>6 DEF SpreadInv
<1>7. ASSUME NEW l \in Links, RestartServer(l) \/ Publish(l) PROVE UNCHANGED <<torn, file, snapshot, poisoned_links, misread>>
  BY <1>7 DEF RestartServer, Publish, fvars, rvars
<1>8. ASSUME NEW h \in Requests, Answer(h) PROVE UNCHANGED <<torn, file, snapshot, poisoned_links, misread>>
  BY <1>8 DEF Answer, fvars, rvars
<1>9. CASE UNCHANGED lvars
  BY <1>6, <1>9 DEF lvars, fvars, rvars
<1> QED
  BY <1>1, <1>2, <1>3, <1>4, <1>5, <1>6, <1>7, <1>8, <1>9 DEF LNext, Log, keep_reading, warp_handle

\* A line that does not parse ends links up to its own in locking order, never later ones, and
\* none when logs are written line by line.
THEOREM PoisonReachesDownOnly == LSpec => []PoisonSpreadsDown
<1>1. LInit => SpreadInv
  BY DEF LInit, SpreadInv, Whole
<1>2. SpreadInv => PoisonSpreadsDown
  BY DEF SpreadInv, PoisonSpreadsDown
<1> QED
  BY <1>1, <1>2, SpreadStep, LogTypeCorrect, PTL DEF LSpec

\* The task of a link ends only because its own mutex is poisoned or its own log is gone.
THEOREM TasksEndForCause == LSpec => TasksDieForCause
<1> DEFINE A == \A l \in Links : rpc'[l] = "dead" /\ rpc[l] # "dead" => l \in poisoned_links' \/ l \in missing
<1>1. LTypeOK /\ [LNext]_lvars => [A]_lvars
  <2> SUFFICES ASSUME LTypeOK, LNext PROVE A
    OBVIOUS
  <2>1. CASE rpc' = rpc
    BY <2>1
  <2>2. ASSUME NEW l \in Links, keep_reading(l) PROVE A
    <3>1. \A m \in Links \ {l} : rpc'[m] = rpc[m]
      BY <2>2 DEF keep_reading, ReadFile, Parse, Publish, LTypeOK
    <3>2. rpc'[l] = "dead" => l \in poisoned_links' \/ l \in missing
      BY <2>2 DEF keep_reading, ReadFile, Parse, Publish, LTypeOK
    <3> QED
      BY <3>1, <3>2
  <2> QED
    BY <2>1, <2>2 DEF LNext, Log, warp_handle, WriteLine, WriteRest, RestartServer, ClearLogs, LockNext, Answer, rvars
<1> QED
  BY <1>1, LogTypeCorrect, PTL DEF LSpec, TasksDieForCause
=============================================================================
