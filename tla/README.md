# Verification of demo-server in TLA+

This directory holds a TLA+ development beside the `demo-server` repository: modules that model its programs,
TLC configurations that check them on small instances, and proofs checked by TLAPS.

## 1. The system

The repository holds three programs that share one purpose: to send traffic over several redundant links at once and
to show that it survives the loss of some of them.

| Program | Where | What it does |
| --- | --- | --- |
| demo server | `cpp-14-build/src/main.cc` | A DPDK process on each of two hosts. Frames of local servers are stamped with a sequence number and copied to every link; the peer forwards the first copy and drops the others. |
| testpmd | `test-pmd/csrc` | A DPDK testpmd with two forwarding engines of its own: `shunt` spreads numbered streams over links, `aggre` merges them again, counts losses and serves the counts over HTTP. |
| iperf-stat | `iperf-stat` | A Python process and a Rust web server that publish link statistics through a database or log files. |

### 1.1 Inventory

**Demo server** (one process per host; two threads that matter)
* *Ingress pipeline* (`ingress_pipeline`, main thread). State: `counters`, `tmp_counters`, `recorder` (what the counters
  would be after each frame of the burst), the mbuf pool. One call: receive a burst, drop unknown sources, stamp, for
  every link in `port_mask` clone and transmit, commit the counters to what the best link accepted, free. Hard: links
  accept different prefixes of the burst; the pool runs out; the interrupt thread changes `port_mask` between links.
  Correct when a number is never given to two frames, none is skipped, and no mbuf leaks.
* *Egress pipeline* (`main` loop and `egress_pipeline`, main thread). State: the watermark of each remote server. One
  call: receive a burst of one link, drop what is not above the watermark, forward the rest. Hard: copies arrive over
  links of different speed, frames are lost, either host restarts. Correct when nothing is delivered twice or out of
  order.
* *Link status* (`check_all_ports_link_status`, `lsi_event_callback`, interrupt thread). State: `port_mask`. Hard:
  events before the callback is registered, several changes behind one interrupt. Correct when no working link is
  ignored.
* *Command line options* (`parser_init`, `main()` up to the loop). State: the lists of addresses and ports, which options
  given again change. Correct when a line the usage text describes starts the program.

**testpmd**
* *Port life cycle* (`start_port`, `stop_port`, `close_port`, `reset_port`, attach/detach, event callbacks). State: the
  status word of each port, the port table, the reconfiguration flags. Threads: command line, event (interrupt) thread,
  alarm thread, signal handler.
* *Forwarding control* (`start_packet_forwarding`, `stop_packet_forwarding`, the forwarding cores). State: `test_done`,
  the `stopped` flag of each core, the stream table.
* *Forwarding configuration* (`*_fwd_config_setup`, `set_fwd_*`). State: which ports, cores and streams are configured,
  and which core serves which stream.
* *Aggregation engine* (`aggre.c`): hash table of streams filled by several cores, counters under spin locks, video
  port bitmap.
* *Shunt engine* (`shunt.c`): sequence numbers per stream, transmit with retries.
* *HTTP server* (`httpserver.c`): reads the counters of the aggregation engine from another thread and derives rates.
* *Forwarding engines* (`iofwd.c`, `mac*.c`, `5tswap.c`, `rxonly.c`, `txonly.c`, `flowgen.c`, `icmpecho.c`,
  `ieee1588fwd.c`, `csumonly.c`, `noisy_vnf.c`). State: the counters of a stream, the flow counters of the generators, the
  FIFO of noisy, the GRO table of csum. One call moves one burst. Hard: the port takes part of a burst, the pool runs out
  between two allocations, retries, buffers at their limit. Correct when every mbuf has one owner and comes back, and the
  counters account for every packet.
* *Checksums* (`csumonly.c`). State: `info` and the settings of the port. Correct when a packet is treated by its own
  headers and no checksum is computed before what it covers.
* *Video traffic* (branch of `aggre.c` for packets without a number, "videoid" and "video" of `httpserver.c`). State:
  bitmap of UDP ports under a spin lock, totals of each port without one, the port that is sent on. Hard: the HTTP thread
  reads and writes all three while cores are at work. Correct when what is reported was received.
* *Flow command grammar* (`cmdline_flow.c`). State: the static `struct context` of the parser (two stacks, the object and
  mask of the next value) and the result buffer. There is no grammar but the lists each word pushes; the same code runs
  without a buffer for completion. Correct when each value lands in the field and object its words name.
* *Flow rules, shared actions and tunnels* (`port_flow_*`). State: three lists of each port, and what the device has.
  Hard: the device refuses, half way through a list of ids or a flush; ports are closed and attached again. Correct when
  the lists are what the device has and a rule is made of its own line.
* *Encapsulation settings* (the "set vxlan" ... commands and the actions that build headers of them). State: eight global
  structs that commands fill in part and actions of other tunnels read. Correct when a header is what was last set.
* *Multicast addresses* (`mcast_addr_*`). State: a pool that grows by chunks, and the list of the device. Hard: the device
  refuses and the change is taken back. Correct when the pool is what was added and not removed.
* *Settings of ports* (the `port config` family, offloads, VLAN, checksums, TSO, DCB). State: `dev_conf` and the queues of
  each port, the two reconfigure flags, the device. Some commands write the port and flag it, some write the device at
  once, some write a global that is spread later. Correct when a started port runs what is shown for it.
* *Callbacks* (`util.c`), the rest of the *command line* (`cmdline*.c`), *parameters* (`parameters.c`), *BPF filters*
  (`bpf_cmd.c`).

**iperf-stat**
* *Statistics server* (`app1.rs`): reads counters from the database and publishes differences under a mutex.
* *Log server* (`app2.rs`): follows the log files of four iperf servers.
* *Statistics writer* (`py_server.py`): writes the counters the first one reads.

### 1.2 How the parts interact

* The two demo servers of a pair only meet on the links: what one stamps the other compares. Inside a process the loop
  and the interrupt thread share `port_mask` and nothing else.
* `shunt` of one testpmd numbers packets, the links lose and reorder them, the cores of the other testpmd count them in
  the table of `aggre`, and the HTTP thread reads that table without its locks.
* The command line, the event callback and the alarm thread of testpmd share the ports, the lists of ports, the stream
  table and the `stopped` flags, without a lock; the forwarding cores read the stream table they were launched with.
* `py_server.py` and `app1.rs` share one database document, the requests of `app1.rs` a mutex; iperf, `clear-logs.sh`
  and the tasks of `app2.rs` share log files, the tasks and the requests one mutex per link.

The properties each part owes are in section 4; everything hard to test that was found while reading is listed at its
line under `hazards` in `PROJECT.json`, with the properties that cover it or the reason why none does yet.

## 2. Modules

| Module | Models |
| --- | --- |
| `DemoConfig` | what a pair of demo servers is started with; the stamp of a frame |
| `IngressPipeline` | `ingress_pipeline()` step by step, with the mbuf pool |
| `EgressPipeline` | the polling loop of `main()` and `egress_pipeline()` |
| `LinkStatus` | the link check, callback registration and `lsi_event_callback()` of one host |
| `RedundantLink` | one direction of a pair: the two pipelines, the links between them, failures and restarts |
| `OrderedDelivery` | the abstract promise of the pair |
| `DemoOptions` | the options pair by pair, the checks of the ports, the start of the ports |
| `RedundantLink_proofs` | proofs about `RedundantLink` |
| `NetStats` | `py_server.py`, the database document, `run()` and the requests of `app1.rs` |
| `LogStats` | log files, the task of each link, the requests of `app2.rs`, `clear-logs.sh` |
| `IperfStat_proofs` | proofs about the two |
| `StreamsConfig`, `Shunt` | the numbered streams; `pkt_burst_prepare()` and `pkt_burst_shunt_send()` with retries |
| `AggreTable` | `insert_hash_table()` and the counting of a packet, step by step on each core |
| `StreamReport` | the "edge" request of the HTTP server |
| `VideoPath` | packets without a number: bitmap, totals, sending on, the "videoid" and "video" requests |
| `ShuntAggre` | the four of them and the links between sender and receiver |
| `ShuntAggre_proofs` | proofs about `ShuntAggre` |
| `ListsAndSums` | lists of which some entries stay, in their order, with what is proved of them, and the laws of finite sums |
| `FwdConfig` | the forwarding setups as functions from settings to a table of streams and cores |
| `TestpmdState` | what the threads of testpmd share; a thread is a sequence of steps it still has to do |
| `PortLife` | start, stop, close, reset, attach and detach of ports, step by step |
| `FwdControl` | start, launch and stop of forwarding, and the cores |
| `Testpmd` | the commands, the removal of a device, and all of the above interleaved |
| `Testpmd_proofs` | proofs about the setups and about `Testpmd` |
| `BurstState` | the mbufs and their owners, what a core keeps of a call of `packet_fwd()`; receive, send with retries, count and free |
| `FwdEngines` | io, mac, macswap, 5tswap, rxonly, icmpecho, ieee1588, txonly and flowgen |
| `CsumBurst` | how csum moves a burst: copies, GRO, GSO, `rte_eth_tx_prepare()` |
| `NoisyVnf` | noisy with its FIFO, `do_retry()`, `drop_pkts()` and the flush |
| `Engines` | the three of them over one pool; in sessions of their own, `CsumOffload` |
| `CsumOffload` | what csum does to checksums: the parser of tunnels, inner and outer checksums |
| `Engines_proofs` | proofs about both, for any bursts, mbufs and packets |
| `FlowTokens` | `token_list[]` of `cmdline_flow.c`: for each word the lists and places it pushes |
| `FlowParser` | the walk over a line, `parse_*()` of each word, the result buffer, the command it ends in |
| `FlowRules` | rules, shared actions and tunnels of a port, and the device's own |
| `EncapConf` | the encapsulation structs, the commands that fill them, the headers built of them |
| `McastPool` | the pool of multicast addresses of a port |
| `PortSettings` | the commands that change what ports and queues are configured with, and `start_port()` applying it |
| `Prompt` | the five of them, one in each session |
| `FlowParser_proofs` | proofs about the lines of the flow grammar |
| `Prompt_proofs` | proofs about `FlowRules`, `EncapConf`, `McastPool` and `PortSettings` |
| `MC*` | instances for TLC; their bounds are in the `.cfg` files. `RedundantLink`, `LogStats` and `DemoOptions` need none: their `.cfg` files name the modules themselves |

### 2.1 State and actions against the code

**Demo server.** `port_mask` is a set of links. `recorder`, `counters`, `tmp_counters`, `filtered_pkts`, `max_nb_tx` are
the variables of those names. Because the interrupt thread writes `port_mask` at any time, `ingress_pipeline()` is split
where the mask is read: receive (`IRx`), one step for each frame (`IFilterKnown`, `IFilterUnknown`), one for each link
(`ITxPort`, `ISkipPort`), commit (`ICommit`). `ITxPort` chooses how many clones the ring takes and how many mbufs are
left for cloning. The receiver likewise: one port of the loop is received from (`ERx`), each frame is accepted or
dropped against the watermark (`EAccept`, `EDrop`), the rest is transmitted (`ETx`). `LinkStatus` is instantiated once
for each host. A frame carries, beside its stamp, the number the local server gave it and the run of the sender that
stamped it: history that the properties compare, never read by an action. The hash lookup of a MAC address is a member
test; the content of a frame is left out.

In the commit as it is, `main()` sets `nb_ports` to 1 before it checks the ports it was given (main.cc:596): a build of
it refuses every configuration with more ports. `DemoOptions` models the code as it is, and the run `demo_start` shows
it; the modules of the data path take `nb_ports` for the number of devices, which the commented line beside it says.

`DemoOptions` keeps of a list whether each item is good: one bad item ends the list and throws away what an earlier
option of that name gave. A port has a number or none (-1); it is started, and its link waited for, in the order of
`main()`.

**iperf-stat.** One number stands for the three counters of a document, which are always read and written together. A
request is split at its awaits and at the mutex: find, insert when missing, lock and answer, where a checked build
panics on underflow and a release build wraps. A line of a log is its number and whether it is complete; a line is cut
only when iperf's buffer may end inside it (`torn`, chosen for the whole behaviour).

**shunt and aggre.** A packet is its stream and its number. The slot variables of `aggre_streams_stats` keep their
names. Claiming a slot, writing its hash value, writing its key, taking the spin lock, reading and writing each counter
are separate steps, as they are separate accesses to shared memory in C. `HashOf` is a constant operator; the instances
make every stream collide. The HTTP thread reads each counter in steps of its own. In `VideoPath` a core notes a UDP port
(lock, read of the word, write, unlock), adds to the total of its port (read, write: no lock) and sends on what matches
`udp_dst_port`, a word the HTTP thread writes; `rx_port` says whether the cores share a port. `atoi()` of a requested id is
modelled by what it makes of the characters.

**testpmd.** The command line thread and the alarm thread each hold a sequence of steps they still have to do (`todo`);
a call pushes steps, a step of `PortLife` or `FwdControl` does what the code does between two points where the other
thread or a core can be noticed, and pushes what it calls. Devices have identities, so that attaching and detaching
cannot lose or double one. Calls of ethdev may fail where the code handles failure. A core holds the copy of its
interval and of the engine it was launched with. A configuration file is the port of each of its streams.

**Engines.** `pkts`, `nb`, `tx`, `tries` of `cpu[c]` are `pkts_burst`, `nb_rx` (or `nb_pkt`), `nb_tx` and `retry` of the
call core `c` is in; `tmp` is the second array of noisy or csum, `lim` what the next call of `rte_eth_tx_burst()` is
offered up to, `t` a loop index or the copy of `nb_tx` in `do_retry()`. A call is split where another core could be
noticed: at the pool, at the port, at the FIFO. Ports take any first part of what they are offered; the pool gives the
lowest free mbufs, as mbufs are alike. io, mac, macswap and 5tswap are one action: they differ in the headers they
rewrite. `misused` is history: it says that a call handed on an mbuf it did not own. A FIFO holds no more than one round
of the flush loop takes out.

**Checksums.** `txp` holds the settings of the port that the code reads, `info` is the struct of that name, carried from
packet to packet of a burst as in the code. A packet is
the shape the parser tells apart; header lengths are not needed because a header is named by its place. What is done to
a packet is recorded for each checksum: as received, computed in software, left to the port, set to zero; `stray` says
that bytes may have been written that are no checksum.

**Flow grammar.** A word is a token of `FlowTokens`; `Next_` and `Args_` are its `.next` and `.args`, and a list of tokens
is a set. `ctx` is `cmd_flow_context` field by field. A word of the line is one action: it checks that the stacks have
room, runs its parse function and leaves `ctx` as `cmd_flow_parse()` does. A place is the object a value is relative to,
with the name of the field; `stored` remembers the last store and the object it really went to. `given` says whether there
is a buffer: without one the same actions run as for completion. Entries of patterns and action lists are counted up to
the room in the buffer; the bytes of headers and what a value looks like are left out.

**Flow rules.** The three lists of a port are sequences with the newest entry first, as in the code; an entry has its id,
the serial number that stands for the `rte_flow` (or shared action) the device made, and the rule it was made of beside
the rule that was asked for. The device may refuse every call.

**Headers.** A configuration keeps its flags and, for each group of fields that one command writes together, one value;
`last_set` is what the last command of a kind asked for. The action word of a later line builds a sequence of layers, each
with the next protocol it announces and the value it carries.

**Multicast.** The pool is the sequence of all its entries, also those behind `mc_addr_nb`; `mcast_addr_pool_extend`,
`_append` and `_remove` are operators of those names. `mc_asked` is history.

**Settings.** `conf[p]` and `device[p]` have one shape: the fields of `dev_conf` and those of each queue. `need` is the pair
of reconfigure flags. Each command is one action, with its order of checks, loops that return early, and the calls of
`init_port_config()` and `cmd_reconfig_device_queue()` it ends with. `soft` is what never reaches the device. `slips` is
history: it names the places of the code that a restart does not recover from.

## 3. Composition and refinement

`RedundantLink` conjoins `IngressPipeline` and `EgressPipeline`, instantiates `LinkStatus` twice, and adds the links
(transfer, loss), the failures of links and the restarts of hosts. It is shown to implement `OrderedDelivery`, which
knows no link, number, ring or watermark: a frame offered is delivered at most once and in order, nothing more.
`ShuntAggre` conjoins `Shunt`, `AggreTable`, `StreamReport` and `VideoPath`; in one behaviour the traffic is numbered or
video (`traffic`), as the two kinds share the cores but no state. `Testpmd` extends `PortLife` and `FwdControl`, which
share `TestpmdState`, which uses `FwdConfig`. `Engines` conjoins `FwdEngines`, `CsumBurst` and `NoisyVnf`, which share
`BurstState`; a behaviour begins with which of the two it is about, bursts or checksums (`shown`), since `CsumOffload`
shares no state with them.

`Prompt` conjoins `FlowParser`, `FlowRules`, `EncapConf`, `McastPool` and `PortSettings`. The five share no variable in the
code either, so a session is about one of them (`topic`) and the states of the run are the sum of theirs, not the product.
What the parser leaves in its buffer, `FlowRules` and `EncapConf` take as the parameters of their actions.

## 4. Runs

States are distinct states found by TLC.

| Run | States | Shows |
| --- | --- | --- |
| `link_restart` | 1.2 M | 2 links, bursts of 2, 3 frames, 5 mbufs, one restart of each host: `SeqIdentifiesFrame`, `SeqsContiguous`, `InOrderOnce`, `MbufConservation`, `ImplementsOrderedDelivery` |
| `link_flap` | 0.46 M | 2 servers, the receiver knows one; a link fails and recovers once: `NoHealthyLinkMasked`, and live: `ArrivedIsExamined` |
| `net_requests` | 3.0 M | 3 requests at a time, 2 instances, readings to 3, both builds, the collection emptied once: `NeverPoisonedSerially`, `OneDocument`, `DifferencesAddUp` |
| `net_poison` | violation | 2 requests: `NeverPoisoned` fails |
| `log_follow` | 0.68 M | 2 links, 3 lines, one removal of the logs: `PoisonSpreadsDown`, `TasksDieForCause`, and live: `ShownCatchesUp` |
| `shunt_contend` | 0.55 M | numbered: 2 cores, 2 colliding streams, 2 slots, bursts of 2 with a retry, a restart of the sender: `CountedOnce`, `NumbersAccounted`. Video: 2 cores on one port or two, 2 UDP ports of one word, 2 packets, 2 requests: `VideoReportsReal`. Both, live: `CoreFinishes` |
| `shunt_restart` | 7.6 M | a core for each stream, HTTP requests, a restart of the receiver: `TableSuffices`, `ReportedIsReal` |
| `testpmd` | 2.2 M | 2 ports, 3 commands that operate ports and forwarding, a device removed at any point; or 3 ports, 3 cores, 2 queues, every topology, a file of 3 streams, 3 commands that configure forwarding: `PolledQueuesExist`, `QueuesNotShared`, `StopTellsEveryCore`, `PortsSettled`, `ListsMatchPorts`, `QuitLeavesNothing` |
| `testpmd_streams` | violation | a file, `port close` and `start`: `StreamsExist` fails |
| `engines` | 1.3 M | every engine with its options, 2 cores, 2 streams, 4 mbufs, bursts of 2, one retry: `MbufsAccounted`, `ReceivedIsAccountedFor`, `FlowsFollow`; or bursts of 2 packets of 31 shapes through csum, every mix of 5 sets of offloads and its settings: `EachAlone`, `StrayWritesExplained`, `ChecksumsFinal` |
| `prompt` | 0.52 M | every line of the flow grammar until the buffer is full: `StoredWhereMeant`, `LinesHoldTogether`; 4 lines on rules, actions and tunnels: `ListsMatchDevice`, `RulesAreAsAsked`, `ListedInOrder`; 2 set commands and an action: `HeaderAsSet`; 7 changes of a pool: `PoolIsWhatWasAsked`; 3 commands on the settings of 2 ports with 2 queues: `StartedAsSet`, `OffloadsAsTold` |
| `demo_start` | violation | 2 devices, lists of 2, 4 pairs of option and value: `AcceptedLinesStart` fails |

Type invariants are checked as parts of invariants that are stated with them (`MbufsAccounted` holds `TypeOK` of `Engines`)
or proved (section 6); a run whose only question would be a type is not kept.

### 4.1 Bounds, and why they are enough

* *Demo server.* A burst of 2 lets links accept different prefixes of it; 3 frames let a burst follow a partial one and
  one more overtake on the other link; a fifth mbuf short of what two links need makes cloning fail; one restart at any
  point leaves old frames on the links. Rings of 1 or 2 descriptors fill up. One failure and recovery of a link at any
  point of both boots reaches every order of check, registration and interrupt. The counter has 8 values and never wraps
  in these runs: the properties about numbers say so (`NoWrap`).
* *iperf-stat.* Two requests are enough to exchange an older and a newer reading; the third comes between them. Three
  readings tell older, newer and newest apart. Two links tell "before" from "after" in locking order; the requests lock
  one at a time.
* *shunt and aggre.* Two cores and two slots with every stream in the first slot give the contention on a slot, the
  probe past a slot, and the full table (when a stream has taken two). Two numbers of each stream give reordering.
* *testpmd.* A third command after two is where a setting made under the first and applied under the second bites (stop,
  change, start). With 3 ports the topologies differ and "paired" has an odd port; 3 cores share 3 or 4 streams evenly
  and unevenly.
* *Engines.* Bursts of 2 are taken whole, in part or not at all; 4 mbufs let two bursts meet, and are too few for a
  burst of 2-segment packets on both cores, so that every allocation fails at some point. 3 flows do not divide a burst,
  so that taking flows back crosses 0. FIFOs of 1 and 3 hold less than a burst, and a burst but not two.
* *Checksums.* `info` is the only thing packets share and every packet overwrites all of it but the outer part: two
  packets are enough for one to see what another left.

* *Video.* Two cores on one port are what it takes to lose an update of a total, two UDP ports of one word one of the
  bitmap; two requests let the previous value be behind the total.
* *Flow lines.* The stacks have the 16 entries of the code, so that a line that overflows them would be seen. The buffer has
  room for 4 entries, and identifiers stop at 2: after every entry the context is what it was after the first
  (`LinesHoldTogether` says so for the stacks), so a longer line repeats contexts that were met. Every token is reached.
* *Flow rules.* Three rules that differ in group, in priority and in neither order; three serial numbers, so that one can
  be made, destroyed and made again; four lines let a refused rule come between a tunnel and the next rule.
* *Headers.* Two values and two set commands: the second sets the same kind again or another one the action borrows from.
* *Multicast.* Chunks of 2 and 3 addresses make the pool grow past a chunk and shrink below it; 7 commands fill it, empty it
  and fill it again.
* *Settings.* The commands are in families that touch the same fields; 3 commands of a family let a port be changed, started
  and changed, or changed twice and started. Port 0 is capable of everything and port 1 of little, so that a loop over the
  ports passes one and fails the other, and sessions begin with all ports up or all down.

The instances and requests of `net_requests` are symmetric sets; no other run uses symmetry. TLC checks deadlock in
`link_*`, `net_requests` (the history goes on for ever), `log_follow` and `shunt_restart`; in `shunt_contend`, `engines`,
`prompt`, `demo_start` and the testpmd runs the bounds on frames, packets, lines and commands end every behaviour, so they
say `CHECK_DEADLOCK FALSE`.

### 4.2 Fairness

* `RedundantLink`: weak fairness of the receiver's boot and loop and of its interrupts: the loop is a busy loop on a core
  of its own, interrupts are delivered by the kernel. Nothing is assumed of the sender, the links or the failures.
* `LogStats`: tokio polls every task again and again (weak fairness of reading the file); a mutex is handed on in time
  (strong fairness of the steps that take it); a request that holds a mutex goes on. Nothing makes a request begin.
* `ShuntAggre`: strong fairness of each core, because it waits for a spin lock others take in between.

### 4.3 Conditions inside properties

The testpmd properties about polled queues hold under named conditions, because the code, which takes no locks, gives
no promise outside them:

* `Undisturbed` (`overlapped` is still false): no call began while the other thread was in one, and no setup ran under
  running cores. Outside it the code as it is lets two cores poll one queue and lets stop wait for a core it does not tell
  (`set nbport`, or `set nbcore` after it complained, while packets are forwarded), and lets a removal land between the
  checks and the launch of start. `ListsMatchPorts` carries it too: a removal in the middle of an attach leaves the lists
  different.
* `Sound`, which `start` records in `sound`: with a configuration file the ports of its streams are in the forwarding list and there
  are no fewer streams in it than cores to serve them, and `icmpecho` has a transmit queue for each receive queue. The
  program checks none of this. `PolledQueuesExist` claims what it does for as long as cores serve what such a start gave
  them.
* `QueuesNotShared` speaks of streams that exist: `testpmd_streams` shows that a core may be given others.

`sound` used to be read off the settings of the moment, `ListsMatchPorts` was stated without a condition, and
`QueuesNotShared` of all places of an interval. A fourth command violates each of those forms; runs of three commands do
not reach it. That was found when the proofs did not go through, and the properties were corrected.

`ListsMatchPorts` compares lists as sets: attaching again a port that is not in the forwarding list puts it twice into
`ports_ids`. Each of these is a hazard in `PROJECT.json`. `NeverPoisonedSerially`, `OneDocument` and the part of
`ReportedIsReal` about what was sent carry their conditions in the same way.

The properties of the engines name the cases where the code does not do what they say:

* `MbufsAccounted`, no mbuf lost: noisy with retries counts packets as sent that were not and does not free them; noisy with a FIFO that
  may hold less than a burst when there is no room for one forgets the packets that do not fit, or that another core's
  burst keeps out.
* `MbufsAccounted`, none handed on twice: noisy with retries and a FIFO offers array elements again or that were never written.
* `ReceivedIsAccountedFor`: engines that make, merge or filter packets; `drop_pkts()` of noisy, which returns 0 after it
  dropped something.
* `EachAlone`, `StrayWritesExplained`: IP in IP after a UDP tunnel in one burst (csumonly.c:440), and GTP data that is not
  IP (csumonly.c:231), although the comment at csumonly.c:767 says that nothing is touched that is not supported.

Two more behaviours of the code bound what the other runs can claim:

* app2.rs parses a log line with the mutex held (app2.rs:141); a line that ends early panics and poisons it for every
  request. `PoisonSpreadsDown` says how far that goes.
* `insert_hash_table()` writes the hash value after it claimed the slot (aggre.c:62): two cores that receive one stream
  may insert it twice. `TableSuffices` is checked with a core for each stream, `CountedOnce` with any.
* aggre.c:157 adds to the total of a port without a lock: `VideoReportsReal` claims equality only when each core has a port
  of its own, and the upper bound always. The "video" request counts each UDP port twice (httpserver.c:237, 241), which the
  property says as it is.

The properties of the prompt name what the code does not recover from:

* `mishaps` of `FlowRules`: a flush the device refuses forgets rules it still has (config.c:2195); a port closed with shared
  actions and attached again still lists them (testpmd.c:2893); the items and actions of a tunnel stay in front of the next
  rule when the device refuses the first (config.c:2051). `ListsMatchDevice` and `RulesAreAsAsked` hold without them.
* `slips` of `PortSettings`: "early return", a setting of all ports that ends at the first port that has it already
  (cmdline.c:1902, 1985); "mtu" and "rss", given to the device and not kept; "dcb", which fails half way; "queues keep", a VLAN
  offload taken from the port and left with its queues (config.c:4430, 4612); "copied", csum and tso that copy the offloads
  of the port over those of its queues. `StartedAsSet` needs the first four not to have happened, `OffloadsAsTold` all.
* `Agrees` of `EncapConf`: l2_encap and l2_decap take the VLAN tag of the
  mplsoudp_encap command, and MPLS decapsulation reads the
  settings of MPLS encapsulation (cmdline_flow.c:5247, 5497): a header is as it was set while the two agree.
* `LinesHoldTogether`: the word that ends "set raw_encap" is offered in rules too (cmdline_flow.c:906), and a rule ended with
  it has a list without END.

## 5. Findings

* `net_poison`: `warp_handle()` reads the document before it takes the mutex; the request with the older reading may
  come last, underflow in a build with overflow checks, and poison the mutex that line 88 of app1.rs unwraps.
* `testpmd_streams`: `streams_fwd_config_setup()` shares out the number of streams there were before the table was made
  again; after a port was closed, cores are given streams past the end.
* `demo_start`: `main()` compares the ports with an `nb_ports` that is the constant 1, the call that counts the devices being a
  comment; with the check that the ports differ, no line with an ingress and an egress port is accepted.

## 6. Proofs

`RedundantLink_proofs` proves, for any number of links and servers (up to the 256 the index byte can name), any burst,
ring and pool size, any bound on frames, restarts and failures, from the assumptions of `DemoConfig` alone:

| Theorem | States |
| --- | --- |
| `TypeCorrect` | `Spec => []TypeOK` |
| `SequenceNumbersIdentifyFrames` | `Spec => []SeqIdentifiesFrame` |
| `NumbersHaveNoGaps` | `Spec => []SeqsContiguous` |
| `MbufsConserved` | `Spec => []MbufConservation` |
| `DeliveryInOrder` | `Spec => []InOrderOnce` |
| `NoWorkingLinkIgnored` | `Spec => []NoHealthyLinkMasked` |
| `ImplementsPromise` | the pair implements `OrderedDelivery` when `MaxFrames < CounterMod` |

The argument. `TypeOK` needs `Shape`: the recorder is as long as the burst, and no link accepted more than the burst, or
`recorder[max_nb_tx]` would not exist. The order of delivery is not inductive by itself; `OrderInv` adds, sender first,
`BurstInv` (counters, recorder and burst are bounded by what was offered), `StampInv` (numbers in the burst are new and
grow along it, and the recorder is at or above them), `SentInv` (whatever this run put on a link is at or below the
counters, or among the first `max_nb_tx` frames of the burst: the step that would break it is a commit to less than
what the best link accepted), then `TransitInv` (everything on a link, in a ring or delivered was sent) and
`WatermarkInv` (what was delivered and what passed the filter rises up to the watermarks). Numbers that rise and name
one frame each give frames that rise. `NumbersHaveNoGaps` needs the converse of `SentInv`: `BurstCovers` (every number a
commit to k frames would pass is that of one of the first k), `AcceptedAreSent` (the frames the commit will count are on a
link) and `CountersCovered`, so that a commit passes only numbers that were sent.
`MbufsConserved` counts the free mbufs, the frames received, held or under a clone, and the places of the rings; the count
holds through a transmission only if no ring holds two clones of one frame, so `PoolInv` adds that a ring the burst has yet
to enter holds none of its frames. `NoWorkingLinkIgnored` is inductive once an unhandled interrupt is accounted for. In
`ImplementsPromise` the step that transmits maps to `Deliver`, that of a known frame to `Offer`, a restart of the receiver
to `ReceiverRestart`, and everything else to a stutter.

`ShuntAggre_proofs` proves, for any streams, cores, slots, hash values, bursts and bounds:

| Theorem | States |
| --- | --- |
| `NumbersAreAccountedFor` | `Spec => []NumbersAccounted` |
| `PacketsAreCountedOnce` | `Spec => []CountedOnce`, if two streams never have one hash value |
| `TableIsEnough` | `Spec => []TableSuffices`, if moreover each stream has one core and there is a slot for each stream |
| `ReportedWasReceived` | `Spec => []ReportedReceivedIsReal`, without a condition |
| `ReportsAreReal` | `Spec => []ReportedIsReal`, under the conditions of `TableIsEnough` |
| `VideoReportsAreReal` | `Spec => []VideoReportsReal` |

The conditions are hypotheses of the theorems and not assumptions of the modules, because the code does not see to them:
`insert_hash_table()` compares hash values before keys are there (`HashesDiffer`), two cores that meet a new stream
together claim two slots (`OneCoreEach`), and a full table leaks (`RoomForAll`). The instances of TLC satisfy all three
where the property is checked.

`CountInv` is the inductive invariant of the first two: a packet is in one place (`OnePlace`), the core that claimed a slot
is alone with it until its hash value is written (`ClaimInv`), what a core has read of a slot it holds the lock of is still
so (`LockInv`), the counters of the slots of a stream add up to what was handled (`SumInv`), and the numbers a slot has
counted are among those of its stream that are through and not above `max_sq` (`NumbersInv`): without the last,
`max_sq - rx_pkts + 1` could not be shown not to fall below 0. Sums over finite sets have no induction here, so their laws
(`SumByAny`, `SumOfChanged`, `SumOfSmaller`) are proved by a smallest counterexample: finite sets are well-founded under
strict inclusion. For the table, a core that probes has passed only slots of other streams (`TriedStays`), so a slot that
is found or claimed is the stream's only one, and a probe comes to an end before it has gone round. A report owes to a
slot no more than the slot has counted (`OwedNotMore`), through every step of the look-up; what was sent needs more
(`KeyedInv`): that the slot a request has found keeps its key.

For video, `MapInv` says that no bit is lost because what a core read of its word is still so while it holds the lock;
`TotalsInv` that a total is never above what was counted and equal to it when no other core adds to it; `NumInv` bounds
the count of a request by the bits of the words passed and of those still ahead, both of which only grow (`Rounds`), so
that no lock is needed for the bounds; `BytesInv` says that a sum begun after an answer will not be below it, as the totals
read so far and those still ahead never add up to less than the answer before.

`Testpmd_proofs` proves, for any number of ports, queues, cores, devices, streams, threads' steps and commands:

| Theorem | States |
| --- | --- |
| `StreamsSharedOut` | `setup_fwd_config_of_each_lcore()` gives each stream to exactly one core, and no core a stream behind the end, when there are at least as many streams as cores used (every setup takes the minimum) |
| `TxPortsDiffer` | `fwd_topology_tx_port_get()` never answers one port for two, in any topology |
| `SimpleStreamsDiffer`, `RssStreamsDiffer` | two streams of these setups share neither a receive nor a transmit queue |
| `BasicsHold` | types, the shape of what a thread still has to do, and that the alarm thread and a command do not meet while `~overlapped` |
| `DevicesAreKept` | attaching, detaching and removal neither lose nor double a device |
| `EveryCoreIsTold` | `Spec => []StopTellsEveryCore` |
| `PortsAreSettled` | `Spec => []PortsSettled` |
| `ListsAreOfPorts` | `Spec => []ListsMatchPorts` |
| `QuitIsClean` | `Spec => []QuitLeavesNothing` |
| `NoQueueIsShared` | `Spec => []QueuesNotShared` |
| `QueuesPolledExist` | `Spec => []PolledQueuesExist` |

These are all the safety properties of the run `testpmd`. The first four rest on `Division` (quotient and remainder),
`IntervalsFollow`, `IntervalsInOrder` and `IntervalsCover`, whose witness is the core of a stream: the quotient by the
common share below the first core with one more, by one more than that above it.

A thread's future is a sequence of steps, so nothing can be said of a state before it is said what may be in that sequence.
`Shape` does: which steps follow which, for the command line and for the alarm thread. `Basics` is `Shape` with the types,
and every later invariant is proved from it step by step.
* `CoresInv` adds that the intervals in force are those the running cores were launched with, and that a stop that has begun
  has yet to visit exactly the cores not told.
* `PortsSettled` and `ListsMatchPorts` need `StatesInv`: each port is what the steps still to do on it let it be
  (`Consistent`), and a step on a port is one its state calls for (`Rightful`); `ListsInv` adds that the lists are those of
  the valid ports but for the one being set up or pruned. What remains of a list when ports are taken out comes from
  `ListsAndSums`: that some places of a list have an order at all is proved by a smallest counterexample.
* `QuitInv` says that what quit has not done yet is still ahead of it: every port that is not closed is in a step to come,
  and the stop before it.
* `TableInv` is `Distinct(table)`: two streams of the table share no queue, proved of every setup (`ConfigDistinct`) from
  the theorems above, of the file of streams, and of `echo` places; `IntervalsInOrder` then keeps cores apart
  (`ServedApart`).
* `PollInv` joins what the settings say to what cores do: `FileInv` (the streams of a file), `Feeding` (while cores forward,
  each stream they serve has a port and queues that exist). A sound start establishes it (`ConfigFeeds`, `StreamsEnough`),
  and no later step takes a port that is forwarded to out of service (`ServiceGoesOn`).

`IperfStat_proofs` proves of the statistics service, for any number of instances, requests, readings and removals, checked or not:

| Theorem | States |
| --- | --- |
| `TypeCorrect` | `Spec => []TypeOK` |
| `AnswersAddUp` | `Spec => []DifferencesAddUp` |
| `NoOlderReadingIsKept` | `Spec => PrevNeverFalls` |
| `SerialRequestsNeverPanic` | `Spec => []NeverPoisonedSerially` |
| `OneInstanceOneDocument` | `Spec => []OneDocument` |

`AnswersAddUp` needs only that nothing is served before an address is bound, and that two differences modulo the width of
the counters add up to one (`MinusChain`). `NeverPoisonedSerially` says nothing about the document, so it is not
inductive: `DocumentsKeepUp` adds that, while nobody empties the collection, a single document is never behind what an
instance about to bind or a request read from it, nor behind `prev`; `OneByOne` that the one request being served read no
less than `prev`. A second document, once there, stays, and then every read is refused: what is claimed of the single
document is claimed only while it is the only one. `OneInv` says who can make a document: the one instance, and only
while there is none.

and of the log server, whose specification is `LSpec`, for any number of links, requests, lines and removals:

| Theorem | States |
| --- | --- |
| `LogTypeCorrect` | `LSpec => []LTypeOK` |
| `PoisonReachesDownOnly` | `LSpec => []PoisonSpreadsDown` |
| `TasksEndForCause` | `LSpec => TasksDieForCause` |

`SpreadInv` adds that a log that is written line by line, and every copy of one, holds whole lines only. `GreatestNumber`,
that `Max` of a bounded set of numbers is in the set, comes from the library's theorem that finite sets are well-founded
under strict inclusion.

`Engines_proofs` proves, for any cores, streams, mbufs, settings and bursts of any length, and any set of packets that may
arrive:

| Theorem | States |
| --- | --- |
| `EveryMbufAccounted` | `Spec => []MbufsAccounted`: types, no mbuf lost, none handed on twice |
| `CountersBalance` | `Spec => []ReceivedIsAccountedFor` |
| `GeneratedFlowsFollow` | `Spec => []FlowsFollow` |
| `TypeCorrect` | `Spec => []TypeOK` |
| `PacketsTreatedAlone` | `Spec => []EachAlone` |
| `StrayWritesOnlyThere` | `Spec => []StrayWritesExplained` |
| `ChecksumsAreFinal` | `Spec => []ChecksumsFinal` |

For the mbufs, `Held3` is the inductive invariant: `CpuInv` says for each step of a call what its variables hold (`Fits`),
`InHand` names the packets the rest of the call will still look at, and `Live` puts these beside what the GRO tables and the
FIFO have. Then, while no engine does what the property excepts (`Careful`), an mbuf that is live at a holder is owned by it
and is at most one segment of one live packet (`Good`), no array has a packet twice (`NoneTwice`), and the FIFO has room for
what is ahead (`Room`); and while none is lost (`Keeping`), an mbuf that a holder owns is live there or a segment of one that
is (`Full`). The property speaks of a core between two calls only; without what its call still has in hand nothing would
follow from one step to the next. The four ways in which mbufs move have a lemma each, on any owners and chains: taken from
the pool, chained to a packet, given away with their chains, exchanged for copies or segments (`SwapKeeps`, `ReplaceKeeps`).
`CountInv` says that a stream is short by just what the call that serves it has received and not counted. `FlowInv` says
of each core that generates where its next flow is: behind those of the packets counted as sent on its streams and those
of the burst it makes, each of which has the flow of its place. That a burst cut short takes its flows back is
`RemainderOfSum`: a remainder may be taken before or after an addition, also of a negative number.

For the checksums, `Alike` relates the dissection of a packet that begins with what the packet before left in `info` to one that begins with
a cleared `info`: they agree on all that is read later, but for `outer_l4_proto` of IP in IP. `OuterUdpHasSource` traces
such a leftover back to a packet of the burst. `Describes` says what a dissection can claim of a packet, `TreatedIs` what
follows for its checksums. `Carries`, an assumption, says that there is an inner header just when something with headers
is carried.

`Prompt_proofs` proves, for any addresses, chunk size, ports, queues, capabilities, families, values, rules, serial
numbers and number of commands:

| Theorem | States |
| --- | --- |
| `PoolRecordsWhatWasAsked` | `Spec => []PoolIsWhatWasAsked` |
| `StartedPortsRunTheirSettings` | `Spec => []StartedAsSet` |
| `QueuesUseOffloadsAsTold` | `Spec => []OffloadsAsTold` |
| `HeadersAreAsSet` | `Spec => []HeaderAsSet` |
| `ListsAreAsTheDevice` | `Spec => []ListsMatchDevice` |
| `RulesAreMadeAsAsked` | `Spec => []RulesAreAsAsked` |
| `RulesAreListedInOrder` | `Spec => []ListedInOrder` |

For the pool, `MInv` adds that its length is a whole number of chunks: only then is a chunk due exactly when the next entry
does not exist, and only that shows that appending writes inside the pool. `Extended`, `Appended` and `Removed` say what the
three helpers do to any pool that records a set; a refused change is `Appended` then `Removed`. For the settings, `StartedAsSet`
is about started ports and not inductive: commands write stopped ports, which are started later. `Settled` claims the same
of every port that nothing has flagged, started or not, and `SType` gives the fields their sets. There is a lemma for
each command, over a few about what a family has in common: a setting spread over all ports and flagged (`SpreadStays`), one
that ends early (`EndsEarly`), one written to port and queues at once (`QueuesWritten`), flags raised (`Raised`).
`OffloadsAsTold` is about queues whose port is down too; `OInv` says of every bit of every queue that it is the last one
told to it or to its port, as long as no command that copies has run (`Heeded`).

A header is built by an action of a later line, so `HeadersAreAsSet` needs that a configuration still holds, group by group,
what the last command of its kind wrote. The lists of rules need that the serial numbers in them are those the device has,
each once: a list that loses entries in the middle keeps the others in their order, which is the subject of `ListsAndSums`. The
rule a tunnel is put in front of is made of what is left of the line, and a refused one leaves it there (`mishaps`).

That rules are listed in order is about a fold. The prover knows `FoldLeft` only as a CHOOSE of a recursive function on the sets
of places of the list, so there has first to be such a function: `SortsExist` puts it together out of those of smaller
sets, and a smallest set that has none (`SmallestSet`) would be a contradiction. `InsertedRanked` is the step of the sort:
a rule put behind all that precede it (`InsertAtPlaces`) leaves a list ranked and loses none.

`FlowParser_proofs` proves, for any sizes of the stacks and of the result buffer, any number of queues of an RSS action and
lines of any length:

| Theorem | States |
| --- | --- |
| `ValuesAreStoredWhereMeant` | `Spec => []StoredWhereMeant` |
| `FlowLinesHoldTogether` | `Spec => []LinesHoldTogether` |

Both follow from `PInv`, whose conjuncts the properties are not enough to show: that the place on top of `args` is the one
the next value is meant for depends on every word before it, and there is no grammar but the tokens. `Shape` lists the
eleven kinds of places a line can be at, each with what is left on both stacks, the word that names the next value, the object
of the context and the data of the last entry: at a list of words (`AtRest`), at values of the buffer itself (`AtOut`), at
an identifier (`AtId`), at a value of an attribute (`AtNamed`), at the field of an item, before and after the word that says
how it is meant (`AtParam`, `AtItem`), at the field of an action (`AtAction`), and so on. Under these may lie places nothing
will take (`KeptBelow`): of an index that "set raw_encap" was not given, of the port that "shared_action destroy" pushes
twice. `PhaseOf` says what the buffer holds by the time the line is at a list, so that a line that may end is complete
(`Phased`). The proof has three layers: what the tables of tokens push (`CommandTurns`, `EntryTurn`, `ItemFieldTurn`, ...)
and which lists a word can be in (`Homes`, `WordTellsShape`); what each value takes and leaves (`ValueFits`); and for each
parse function that it leads from one kind of place to another (`RestWord`, `CommandWordOn`, `ItemOn`, `ActionOn`, `SpecOn`,
`ValuesOn`). Without a buffer the same invariant says that the object is never set, so nothing can be stored.

The type invariants of the proved modules are conjuncts of the proved invariants, so they are theorems and not run properties.
`PrevNeverFalls` is proved only.

Only model-checked: liveness (`ArrivedIsExamined`, `ShownCatchesUp`, `CoreFinishes`), which is out of the prover's reach,
as are ENABLED, most induction over data and RECURSIVE operators.

Assumptions on constants that the proofs need and TLC evaluates: streams and cores are finite sets, and there is a core
(`StreamsAssumption`, `CoresAreFew`); the words of the bitmap are numbered without a gap (`WordsAssumption`; words that no
UDP port of the model falls into never have a bit and are left out); rules are made of items, actions and the like
(`RulesAssumption`); streams are finitely many, and the headers shown are those of packets that csum forwards
(`BurstAssumption`, `CsumAssumption`).

## 7. Not modelled

* Vendored and generated files, build files and start scripts.
* Printing: the commands of testpmd that show something, the dump callbacks, HTML and JSON.
* testpmd commands that pass one value on to ethdev and keep nothing: most of `cmdline.c`, and all of traffic management
  and metering (`cmdline_tm.c`, `cmdline_mtr.c`). Their code is a parse and one call, with nothing that a later step reads.
* The setup of forwarding for DCB, bonding, hairpin queues, the waits for link status, `set corelist`, `set nbcore 0`, queue
  counts of 0, `start tx_first`, statistics, flushing of receive queues, the pacing of streams of a configuration file
  (testpmd.c:2099).
* GRO and GSO settings, the per-queue tables of RSS; completion and help of the flow grammar, the bytes of raw and
  sample lists; what a query prints and the dump of a device.
* Contents of packets where no property reads them; the packet times of txonly, several cores in flowgen (which share
  `next_flow` without a lock), a flush time of noisy without a FIFO (there is no ring to look at), what GRO keeps when no
  more packets come.
* Start and stop of the HTTP daemon, several arguments in one request, rates in bits.
* The long options of testpmd (`parameters.c`), which only set variables before the prompt.

`PROJECT.json` lists every component with its status.

## 8. Plan

| Step | Modules | Runs and bounds | Theorems |
| --- | --- | --- | --- |
| done | demo server with its options, iperf-stat, shunt and aggre with video, ports, forwarding and engines of testpmd, flow grammar and rules, headers, multicast, settings of ports | section 4 | section 6 |
| open | pacing of the streams of a configuration file, GRO and GSO settings, raw and sample lists | as new sessions of `testpmd` and `prompt` | |

Runs are kept few: a module joins an existing composition where it can, and a run that only repeats a finding gives way
to one that asks something new.
