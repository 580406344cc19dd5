------------------------------ MODULE NetStats ------------------------------
(***************************************************************************)
(* The statistics service: py_server.py keeps one document of the database *)
(* up to date, and every request to the Rust server (app1.rs) reads it and *)
(* answers with what was received since the request before.                *)
(*                                                                         *)
(* A request reads the document before it takes the mutex, so requests may *)
(* reach the mutex in another order than their reads. The three counters   *)
(* of the document are always read, compared and written together: one     *)
(* number stands for them.                                                 *)
(***************************************************************************)
EXTENDS Naturals, Sequences, FiniteSets

CONSTANTS
    Instances,          \* processes started with run(); one of them gets the address
    Handlers,           \* requests that may be served at the same time
    CounterMod,         \* 2^64 in the code
    MaxReading,         \* bound: how far the counters of the traffic grow
    MaxDrops,           \* bound: times somebody empties the collection
    NoInstance

ASSUME ReadingAssumption == MaxReading \in Nat /\ CounterMod \in Nat /\ MaxReading < CounterMod
ASSUME DropsAssumption == MaxDrops \in Nat
ASSUME InstanceAssumption == IsFiniteSet(Instances) /\ NoInstance \notin Instances

VARIABLES
    docs,       \* documents with id "shared", oldest first
    drops,      \* times the collection was emptied (bound)
    reading,    \* the globals bits, pkts, drop of py_server.py
    wpc,        \* where the thread of py_server.py is
    ipc,        \* where run() of each instance is
    istat,      \* stat of run(), and curr_stat of warp_handle() below
    server,     \* the instance whose address the requests reach
    OverflowChecks, \* whether the profile of the build checks u64 subtraction
    prev,       \* prev_val: the reading behind the mutex
    poisoned,   \* the mutex was held by a thread that panicked
    hpc,
    hstat,
    last,       \* how the last request of each handler ended
    overlapped, \* a request was begun while another was served (history)
    base,       \* the first prev_val (history)
    served      \* sum of the differences answered so far (history)

wvars == <<reading, wpc>>
bvars == <<ipc, istat, server, base>>
hvars == <<OverflowChecks, prev, poisoned, hpc, hstat, last, overlapped, served>>
vars == <<docs, drops, wvars, bvars, hvars>>

Reading == 0 .. MaxReading

TypeOK ==
    /\ docs \in Seq(Reading)
    /\ drops \in 0 .. MaxDrops
    /\ reading \in Reading
    /\ wpc \in {"check", "loop", "stopped"}
    /\ ipc \in [Instances -> {"start", "insert", "bind", "serving", "failed"}]
    /\ istat \in [Instances -> Reading]
    /\ server \in Instances \cup {NoInstance}
    /\ OverflowChecks \in BOOLEAN
    /\ prev \in Reading
    /\ poisoned \in BOOLEAN
    /\ hpc \in [Handlers -> {"idle", "insert", "lock"}]
    /\ hstat \in [Handlers -> Reading]
    /\ last \in [Handlers -> {"none", "ok", "rejected", "panicked"}]
    /\ overlapped \in BOOLEAN
    /\ base \in Reading
    /\ served \in 0 .. (CounterMod - 1)

Init ==
    /\ docs = <<>>
    /\ drops = 0
    /\ reading = 0
    /\ wpc = "check"
    /\ ipc = [i \in Instances |-> "start"]
    /\ istat = [i \in Instances |-> 0]
    /\ server = NoInstance
    /\ OverflowChecks \in BOOLEAN
    /\ prev = 0
    /\ poisoned = FALSE
    /\ hpc = [h \in Handlers |-> "idle"]
    /\ hstat = [h \in Handlers |-> 0]
    /\ last = [h \in Handlers |-> "none"]
    /\ overlapped = FALSE
    /\ base = 0
    /\ served = 0

-----------------------------------------------------------------------------
\* py_server.py. The thread gives up unless it finds exactly one document.
\* Seeded fault: it does not look.
WriterCheck_Any ==
    /\ wpc = "check"
    /\ wpc' = "loop"
    /\ UNCHANGED <<docs, drops, reading, bvars, hvars>>

WriterCheck ==
    /\ wpc = "check"
    /\ wpc' = IF Len(docs) = 1 THEN "loop" ELSE "stopped"
    /\ UNCHANGED <<docs, drops, reading, bvars, hvars>>

\* Seeded fault: the counters are kept in a narrower number.
Stored_Narrow == reading % 2
Stored == reading

\* update_many(..., upsert=True): every document, or a new one.
WriterUpdate ==
    /\ wpc = "loop"
    /\ docs' = IF docs = <<>> THEN <<Stored>> ELSE [k \in DOMAIN docs |-> Stored]
    /\ UNCHANGED <<drops, wvars, bvars, hvars>>

\* The traffic is counted (external: the repository holds constants here).
Grow ==
    /\ reading < MaxReading
    /\ reading' = reading + 1
    /\ UNCHANGED <<docs, drops, wpc, bvars, hvars>>

\* Somebody empties the collection to start the statistics over (external).
Drop ==
    /\ drops < MaxDrops
    /\ docs # <<>>
    /\ drops' = drops + 1
    /\ docs' = <<>>
    /\ UNCHANGED <<wvars, bvars, hvars>>

\* The process is started again after it gave up.
WriterRestart ==
    /\ wpc = "stopped"
    /\ wpc' = "check"
    /\ UNCHANGED <<docs, drops, reading, bvars, hvars>>

-----------------------------------------------------------------------------
\* read_from_db() up to its last await: the documents are found; more than one
\* is an error, and when there is none an empty one is inserted in another call.
Found == IF docs = <<>> THEN 0 ELSE docs[Len(docs)]

\* run(): the first read, then the address is bound.
BootRead(i) ==
    /\ ipc[i] = "start"
    /\ ipc' = [ipc EXCEPT ![i] = IF Len(docs) > 1 THEN "failed"
                                ELSE IF Len(docs) = 1 THEN "bind" ELSE "insert"]
    /\ istat' = [istat EXCEPT ![i] = Found]
    /\ UNCHANGED <<docs, drops, server, base, wvars, hvars>>

BootInsert(i) ==
    /\ ipc[i] = "insert"
    /\ docs' = Append(docs, 0)
    /\ ipc' = [ipc EXCEPT ![i] = "bind"]
    /\ UNCHANGED <<drops, istat, server, base, wvars, hvars>>

Bind(i) ==
    /\ ipc[i] = "bind"
    /\ IF server = NoInstance
         THEN /\ server' = i
              /\ ipc' = [ipc EXCEPT ![i] = "serving"]
              /\ prev' = istat[i]
              /\ base' = istat[i]
         ELSE /\ ipc' = [ipc EXCEPT ![i] = "failed"]
              /\ UNCHANGED <<server, prev, base>>
    /\ UNCHANGED <<docs, drops, istat, OverflowChecks, poisoned, hpc, hstat, last, overlapped, served, wvars>>

-----------------------------------------------------------------------------
\* warp_handle(): read_from_db() first ...
HandlerRead(h) ==
    /\ server # NoInstance
    /\ hpc[h] = "idle"
    /\ IF Len(docs) > 1
         THEN /\ last' = [last EXCEPT ![h] = "rejected"]
              /\ UNCHANGED <<hpc, hstat>>
         ELSE /\ hpc' = [hpc EXCEPT ![h] = IF docs = <<>> THEN "insert" ELSE "lock"]
              /\ hstat' = [hstat EXCEPT ![h] = Found]
              /\ UNCHANGED last
    /\ overlapped' = (overlapped \/ \E g \in Handlers \ {h} : hpc[g] # "idle")
    /\ UNCHANGED <<docs, drops, OverflowChecks, prev, poisoned, served, wvars, bvars>>

HandlerInsert(h) ==
    /\ hpc[h] = "insert"
    /\ docs' = Append(docs, 0)
    /\ hpc' = [hpc EXCEPT ![h] = "lock"]
    /\ UNCHANGED <<drops, OverflowChecks, prev, poisoned, hstat, last, overlapped, served, wvars, bvars>>

Minus(a, b) == (a + CounterMod - b) % CounterMod

\* ... then, under the mutex and without an await, the answer and the new
\* prev_val. unwrap() panics when the mutex is poisoned, and a checked
\* subtraction that underflows panics with the mutex held.
\* Seeded fault: prev_val is not replaced.
NewPrev_Kept(h) == prev
NewPrev(h) == hstat[h]

Underflows(h) == OverflowChecks /\ hstat[h] < prev

HandlerAnswer(h) ==
    /\ hpc[h] = "lock"
    /\ ~poisoned
    /\ ~Underflows(h)
    /\ served' = (served + Minus(hstat[h], prev)) % CounterMod
    /\ prev' = NewPrev(h)
    /\ last' = [last EXCEPT ![h] = "ok"]
    /\ hpc' = [hpc EXCEPT ![h] = "idle"]
    /\ UNCHANGED <<docs, drops, OverflowChecks, poisoned, hstat, overlapped, wvars, bvars>>

HandlerPanic(h) ==
    /\ hpc[h] = "lock"
    /\ poisoned \/ Underflows(h)
    /\ poisoned' = TRUE
    /\ last' = [last EXCEPT ![h] = "panicked"]
    /\ hpc' = [hpc EXCEPT ![h] = "idle"]
    /\ UNCHANGED <<docs, drops, OverflowChecks, prev, hstat, overlapped, served, wvars, bvars>>

Writer == \/ WriterCheck
          \/ WriterUpdate
          \/ WriterRestart
          \/ Grow
          \/ Drop

Boot(i) == \/ BootRead(i)
           \/ BootInsert(i)
           \/ Bind(i)

Handle(h) == \/ HandlerRead(h)
             \/ HandlerInsert(h)
             \/ HandlerAnswer(h)
             \/ HandlerPanic(h)

Next == \/ Writer
        \/ \E i \in Instances : Boot(i)
        \/ \E h \in Handlers : Handle(h)

Spec == Init /\ [][Next]_vars

-----------------------------------------------------------------------------
\* The mutex is never found poisoned, which is what unwrap() claims (app1.rs:88):
\* no request underflows while it holds it.
NeverPoisoned == ~poisoned

\* It holds for one client at a time: while no request is begun before the one
\* before it is answered, and nobody empties the collection, nothing panics.
NeverPoisonedSerially == drops = 0 /\ ~overlapped => ~poisoned

\* What was answered adds up: the differences given to all clients are the growth
\* from the first prev_val to the present one, whatever the order of the requests
\* (modulo the width of the counters, where subtraction wraps).
DifferencesAddUp == server # NoInstance => served = Minus(prev, base)

\* With checked subtraction a request that read before an answered one never puts
\* the older reading back behind the mutex: it panics instead.
PrevNeverFalls == [][server # NoInstance /\ OverflowChecks => prev' >= prev]_vars

\* While nobody empties the collection and one instance is started, there are
\* never two documents, after which every read would fail with "invalid database
\* format": run() inserts the first before the address is bound.
OneDocument ==
    drops = 0 /\ Cardinality({i \in Instances : ipc[i] # "start"}) <= 1 => Len(docs) <= 1
=============================================================================
