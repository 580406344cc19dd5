------------------------------- MODULE Testpmd -------------------------------
(***************************************************************************)
(* testpmd under its command line and the removal of devices: the commands *)
(* that operate ports, forwarding and the settings of forwarding, and      *)
(* rmv_port_callback on the alarm thread, interleaved step by step.        *)
(***************************************************************************)
EXTENDS PortLife, FwdControl

CONSTANT MaxCommands    \* bound: commands

ASSUME CommandsAssumption == MaxCommands \in Nat

-----------------------------------------------------------------------------
\* The forwarding ports of a configuration file, in the order it names them first
PortsOf(streams_port) ==
    Only(streams_port, {i \in DOMAIN streams_port : \A j \in 1 .. i - 1 : streams_port[j] # streams_port[i]})

\* What main() leaves before the prompt: every device has its port, started unless the
\* command line forbids it, and a first configuration is made.
Init ==
    /\ opts \in Options
    /\ valid = Devices
    /\ spare = {}
    /\ closed = {}
    /\ settings \in [lcores : {1}, rxq : {1}, txq : {1}, eng : opts.engines]
    /\ LET all == [i \in 1 .. opts.devices |-> i - 1]
           fwd == IF opts.split THEN PortsOf(opts.streams_port) ELSE all
       IN  lists = [ids |-> all, fwd_ids |-> fwd, nb_fwd_ports |-> Len(fwd)]
    /\ LET c == Conf(lists, settings, valid)
           none == [fwd_eng |-> settings.eng, nb_fwd_ports |-> 0, nb_fwd_lcores |-> 0, nb_fwd_streams |-> 0]
           empty == [cur |-> none, streams |-> << >>,
                     lcores |-> [lc \in Lcores |-> [stream_idx |-> 0, stream_nb |-> 0]]]
           On(p) == [id |-> p, state |-> "started", rxq |-> RxQueues(c, p), txq |-> TxQueues(c, p)]
       IN  /\ table = FwdConfigSetup(c, InitStreams(c, empty))
           /\ \E no_device_start \in BOOLEAN :
                 /\ status = [p \in Ports |-> IF no_device_start \/ p \notin valid THEN "STOPPED" ELSE "STARTED"]
                 /\ need = [p \in Ports |-> [setup |-> FALSE, reconfig |-> no_device_start /\ p \in valid,
                                             queues |-> no_device_start /\ p \in valid]]
                 /\ dev = [p \in Ports |-> IF no_device_start \/ p \notin valid THEN Fresh(p) ELSE On(p)]
    /\ test_done = TRUE
    /\ core = [lc \in Lcores |-> [state |-> "wait", stopped |-> FALSE, freed |-> FALSE, stream_idx |-> 0,
                                  stream_nb |-> 0, fwd_eng |-> settings.eng]]
    /\ todo = [t \in Threads |-> << >>]
    /\ resized = FALSE
    /\ sound = TRUE
    /\ overlapped = FALSE
    /\ pending = {}
    /\ commands = 0
    /\ removals = 0

-----------------------------------------------------------------------------
(* Commands. Those that operate ports and forwarding are calls of several steps. *)

Give(name) ==
    /\ name \in opts.commands
    /\ commands < MaxCommands
    /\ commands' = commands + 1
    /\ UNCHANGED <<pending, removals>>

Do(name, steps) ==
    /\ Give(name)
    /\ Call("cli", steps)
    /\ UNCHANGED <<portVars, fwdVars, settings, opts>>

cmd_start == Do("start", <<Step("start", 0)>>)
cmd_stop == Do("stop", <<Step("stop", 0)>>)

Prune == <<Step("prune", 0)>>

\* port (start|stop|close) all, port (start|stop|close) p
cmd_operate_port ==
    \/ Do("port start", ForEach("start_port"))
    \/ Do("port stop", ForEach("stop_port"))
    \/ Do("port close", ForEach("close_each") \o Prune)
    \/ \E p \in valid : \/ Do("port start", <<Step("start_port", p)>>)
                       \/ Do("port stop", <<Step("stop_port", p)>>)
                       \/ Do("port close", <<Step("close_port", p)>> \o Prune)

cmd_reset_port ==
    \/ Do("port reset", <<Step("reset_all", 0)>>)
    \/ \E p \in valid : Do("port reset", <<Step("reset_port", p)>>)

cmd_attach == Do("port attach", <<Step("attach", 0)>>)
cmd_detach == \E p \in valid : Do("port detach", <<Step("detach", dev[p].id)>>)

\* Mutant: ports are stopped while packets are forwarded.
cmd_quit_PortsFirst ==
    LET closing == [i \in 1 .. 2 * MaxPorts |->
                      IF i % 2 = 1 THEN Step("close_port", i \div 2) ELSE Step("prune", 0)]
    IN  Do("quit", ForEach("stop_port") \o <<Step("stop", 0)>> \o closing \o <<Step("exit", 0)>>)

\* pmd_test_exit, after which nothing is left to do but to exit
cmd_quit ==
    LET closing == [i \in 1 .. 2 * MaxPorts |->
                      IF i % 2 = 1 THEN Step("close_port", i \div 2) ELSE Step("prune", 0)]
    IN  Do("quit", <<Step("stop", 0)>> \o ForEach("stop_port") \o closing \o <<Step("exit", 0)>>)

-----------------------------------------------------------------------------
(* Commands that change settings and set the configuration up again. *)

Set(name) ==
    /\ Give(name)
    /\ todo["cli"] = << >>
    /\ overlapped' = (overlapped \/ todo["alarm"] # << >>)
    /\ UNCHANGED <<valid, spare, closed, status, dev, opts, test_done, sound, todo>>

\* The number of ports may change while packets are forwarded.
set_nbport ==
    /\ Set("set nbport")
    /\ \E n \in 0 .. MaxPorts :
          lists' = IF n > Len(lists.fwd_ids) THEN lists ELSE [lists EXCEPT !.nb_fwd_ports = n]
    /\ Reconfigure(lists', settings, valid)
    /\ UNCHANGED <<need, settings>>

\* The number of cores may not, but the configuration is set up again all the same.
set_nbcore ==
    /\ Set("set nbcore")
    /\ \E n \in 1 .. NbLcores :
          settings' = IF test_done THEN [settings EXCEPT !.lcores = n] ELSE settings
    /\ Reconfigure(lists, settings', valid)
    /\ UNCHANGED <<need, lists>>

PortLists == {ps \in BoundedSeq(Ports, MaxPorts) : ps # << >> /\ IsInjective(ps)}

set_portlist ==
    /\ Set("set portlist")
    /\ test_done
    /\ \E ps \in PortLists :
          lists' = IF ToSet(ps) \subseteq valid
                   THEN [lists EXCEPT !.fwd_ids = ps, !.nb_fwd_ports = Len(ps)]
                   ELSE lists
    /\ Reconfigure(lists', settings, valid)
    /\ UNCHANGED <<need, settings>>

\* Mutant: ports may run.
config_rx_tx_Started ==
    /\ Set("port config")
    /\ test_done
    /\ \/ \E n \in 1 .. MaxRxQueues : settings' = [settings EXCEPT !.rxq = n]
       \/ \E n \in 1 .. MaxTxQueues : settings' = [settings EXCEPT !.txq = n]
    /\ Reconfigure(lists, settings', valid)
    /\ need' = [p \in Ports |-> IF p \in valid THEN [need[p] EXCEPT !.reconfig = TRUE, !.queues = TRUE]
                                ELSE need[p]]
    /\ UNCHANGED lists

config_rx_tx ==
    /\ Set("port config")
    /\ all_ports_stopped
    /\ \/ \E n \in 1 .. MaxRxQueues : settings' = [settings EXCEPT !.rxq = n]
       \/ \E n \in 1 .. MaxTxQueues : settings' = [settings EXCEPT !.txq = n]
    /\ Reconfigure(lists, settings', valid)
    /\ need' = [p \in Ports |-> IF p \in valid THEN [need[p] EXCEPT !.reconfig = TRUE, !.queues = TRUE]
                                ELSE need[p]]
    /\ UNCHANGED lists

\* Mutant: the current configuration takes the engine at once.
set_fwd_mode_Now ==
    /\ Set("set fwd")
    /\ \E e \in opts.engines : /\ settings' = [settings EXCEPT !.eng = e]
                          /\ table' = [table EXCEPT !.cur.fwd_eng = e]
    /\ UNCHANGED <<need, lists, core, resized>>

set_fwd_mode ==
    /\ Set("set fwd")
    /\ \E e \in opts.engines : settings' = [settings EXCEPT !.eng = e]
    /\ UNCHANGED <<need, lists, table, core, resized>>

-----------------------------------------------------------------------------
(* The alarm thread *)

\* RTE_ETH_EVENT_INTR_RMV: a device is pulled out; the alarm is set for later.
Removal ==
    /\ removals < opts.removals
    /\ \E p \in valid \ pending : pending' = pending \cup {p}
    /\ removals' = removals + 1
    /\ UNCHANGED <<portVars, fwdVars, settings, opts, todo, overlapped, commands>>

rmv_port_callback ==
    /\ \E p \in pending :
          LET need_to_start == ~test_done /\ port_is_forwarding(p)
          IN  /\ pending' = pending \ {p}
              /\ IF p \notin valid THEN todo["alarm"] = << >> /\ UNCHANGED <<todo, overlapped>>
                 ELSE IF need_to_start
                      THEN Call("alarm", <<Step("stop", 0), Step("stop_port", p), Step("save_device", p), Step("start", 0)>>)
                      ELSE Call("alarm", <<Step("stop_port", p), Step("save_device", p)>>)
    /\ UNCHANGED <<portVars, fwdVars, settings, opts, commands, removals>>

-----------------------------------------------------------------------------
PortStep(t) ==
    \/ StartClaim(t) \/ ConfigureFails(t) \/ IsolateFails(t) \/ Configure(t)
    \/ DeviceStarts(t) \/ DeviceStartFails(t)
    \/ StopCheck(t) \/ StopClaim(t) \/ DeviceStop(t)
    \/ CloseCheck(t) \/ CloseInvalid(t) \/ DeviceClose(t) \/ ClosePrune(t)
    \/ ResetCheck(t) \/ DeviceReset(t)
    \/ Probe(t) \/ ProbeAgain(t) \/ setup_attached_port(t)
    \/ SaveDevice(t) \/ Detach(t)

FwdStep(t) == StartCheck(t) \/ StartSetUp(t) \/ Launch(t) \/ StopTell(t) \/ StopWait(t)

CoreStep == \E lc \in Lcores : CoreFinish(lc)

Next ==
    \/ cmd_start \/ cmd_stop \/ cmd_operate_port \/ cmd_reset_port
    \/ cmd_attach \/ cmd_detach \/ cmd_quit
    \/ set_nbport \/ set_nbcore \/ set_portlist \/ config_rx_tx \/ set_fwd_mode
    \/ Removal
    \/ rmv_port_callback
    \/ \E t \in Threads : PortStep(t) \/ FwdStep(t)
    \/ CoreStep

Spec == Init /\ [][Next]_vars

-----------------------------------------------------------------------------
(* Properties *)

Served(lc) == core[lc].stream_idx .. core[lc].stream_idx + core[lc].stream_nb - 1

\* One call at a time, and no setup under running cores
Undisturbed == ~resized /\ ~overlapped

Up(p) == p \in valid /\ status[p] = "STARTED" /\ dev[p].state = "started"

\* A core that forwards only touches streams there are, and through them only queues that were
\* set up on ports that run: start_packet_forwarding() checks the ports, stop_port() and
\* close_port() spare those that forward, and the queues follow the settings.
PolledQueuesExist ==
    Undisturbed /\ sound =>
        \A lc \in Lcores : Running(lc) =>
            \A sm \in Served(lc) :
                /\ sm \in DOMAIN table.streams
                /\ LET s == table.streams[sm]
                   IN  /\ Up(s.rx_port) /\ Up(s.tx_port)
                       /\ s.rx_queue < dev[s.rx_port].rxq
                       /\ s.tx_queue < dev[s.tx_port].txq

\* streams_fwd_config_setup() says that it spreads the streams evenly over the forwarding
\* cores: the interval of a core that is launched lies within the table.
StreamsExist == \A lc \in Lcores : Running(lc) /\ Undisturbed => Served(lc) \subseteq DOMAIN table.streams

\* No two running cores poll one receive queue or fill one transmit queue: neither may be
\* shared without a lock.
QueuesNotShared ==
    Undisturbed =>
        \A lc1, lc2 \in Lcores : Running(lc1) /\ Running(lc2) /\ lc1 # lc2 =>
            \A sm1 \in Served(lc1) \cap DOMAIN table.streams, sm2 \in Served(lc2) \cap DOMAIN table.streams :
                LET s1 == table.streams[sm1]
                    s2 == table.streams[sm2]
                IN  /\ <<s1.rx_port, s1.rx_queue>> # <<s2.rx_port, s2.rx_queue>>
                    /\ <<s1.tx_port, s1.tx_queue>> # <<s2.tx_port, s2.tx_queue>>

\* While stop_packet_forwarding() waits, every core that runs has been told to stop, and the
\* engine it will end is the one the cores run.
StopTellsEveryCore ==
    Undisturbed =>
        \A t \in Threads, lc \in Lcores : At(t, "wait") /\ Running(lc) =>
            core[lc].stopped /\ core[lc].fwd_eng = table.cur.fwd_eng

\* Between calls no port is left half way, except one whose isolated mode could not be
\* applied, and a started port is one whose device runs.
PortsSettled ==
    Idle /\ ~overlapped => \A p \in valid :
        /\ status[p] = "HANDLING" => opts.isolate
        /\ status[p] = "STARTED" => dev[p].state = "started"

\* Every device is known under one port, free to be attached, or closed: none is lost.
DevicesKept ==
    /\ IsInjective([p \in valid |-> dev[p].id])
    /\ {dev[p].id : p \in valid} \cup spare \cup closed = Devices
    /\ Cardinality(valid) + Cardinality(spare) + Cardinality(closed) = opts.devices

\* Between calls the program knows exactly the ports there are, and forwards between them only,
\* as long as no call came between the steps of another; no device is lost or has two ports
\* at any time.
ListsMatchPorts ==
    /\ DevicesKept
    /\ Idle /\ ~overlapped =>
          /\ ToSet(lists.ids) = valid
          /\ \A i \in 1 .. lists.nb_fwd_ports : lists.fwd_ids[i] \in valid

\* When quit is about to exit, no core runs and every port is closed, but for devices that
\* would not stop.
QuitLeavesNothing ==
    At("cli", "exit") /\ Undisturbed =>
        /\ \A lc \in Lcores : ~Running(lc)
        /\ \A p \in valid : dev[p].state = "started" /\ status[p] \in {"STOPPED", "HANDLING"}

=============================================================================
