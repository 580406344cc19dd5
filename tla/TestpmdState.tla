---------------------------- MODULE TestpmdState ----------------------------
(***************************************************************************)
(* What the threads of testpmd share: the ports, the settings, the         *)
(* forwarding configuration made from them and the forwarding cores.       *)
(* Two threads call its functions: "cli" (main, the command line) and      *)
(* "alarm" (the interrupt thread of EAL, which runs rmv_port_callback).    *)
(* What a thread still has to do is a sequence of steps.                   *)
(***************************************************************************)
EXTENDS FwdConfig, SequencesExt, ListsAndSums

CONSTANTS
    MaxPorts,       \* port ids are 0 .. MaxPorts - 1 (RTE_MAX_ETHPORTS)
    NbLcores,       \* forwarding cores, numbered from 0 (nb_lcores)
    Options         \* what sessions there are, each with what the command line says: topology,
                    \* event (setup_on_probe_event), isolate (flow_isolate_all), split and,
                    \* for each stream of a configuration file, its port (streams_port);
                    \* and with the devices of the machine, each giving one port, the
                    \* commands and forwarding modes the user has, and the devices
                    \* removed at most (bounds)

ASSUME StateAssumption ==
    /\ MaxPorts \in Nat \ {0} /\ NbLcores \in Nat \ {0}
    /\ \A o \in Options : /\ o.topology \in Topologies /\ {o.event, o.isolate, o.split} \subseteq BOOLEAN
                          /\ o.devices \in 0 .. MaxPorts /\ o.removals \in Nat
                          /\ o.streams_port \in Seq(0 .. o.devices - 1)
                          /\ o.split <=> o.streams_port # << >>

Ports == 0 .. MaxPorts - 1
Lcores == 0 .. NbLcores - 1
Threads == {"cli", "alarm"}

VARIABLES
    valid,          \* ports ethdev has
    spare,          \* devices that are not probed
    closed,         \* devices that are probed and have no port any more
    status,         \* port_status of each port
    need,           \* need_setup, need_reconfig and need_reconfig_queues of each port
    dev,            \* the device of each port, how far it is set up, and its queues
    lists,          \* ports_ids, fwd_ports_ids and nb_fwd_ports
    settings,       \* nb_fwd_lcores, nb_rxq, nb_txq and cur_fwd_eng
    opts,           \* options of the command line: they never change
    table,          \* cur_fwd_config, fwd_lcores and fwd_streams
    test_done,      \* no forwarding
    core,           \* each forwarding core: its job and its copy of what it serves
    todo,           \* the steps each thread has before it
    resized,        \* history: the configuration was set up again under running cores
    sound,          \* history: what the user must see to was seen to at the last start
    overlapped,     \* history: a call began while the other thread was in one
    pending,        \* alarms set by RTE_ETH_EVENT_INTR_RMV
    commands,       \* commands given so far (bound)
    removals        \* devices removed so far (bound)

portVars == <<valid, spare, closed, status, need, dev, lists>>
fwdVars == <<table, test_done, core, resized, sound>>
userVars == <<pending, commands, removals>>
vars == <<valid, spare, closed, status, need, dev, lists, settings, opts, table, test_done, core,
          todo, resized, sound, overlapped, pending, commands, removals>>

-----------------------------------------------------------------------------
Devices == 0 .. opts.devices - 1

Step(op, p) == [op |-> op, port |-> p]

\* RTE_ETH_FOREACH_DEV: every port is looked at, those there are when its turn comes do the step.
ForEach(op) == [i \in 1 .. MaxPorts |-> Step(op, i - 1)]

At(t, op) == todo[t] # << >> /\ Head(todo[t]).op = op
Port(t) == Head(todo[t]).port

\* A device as probing or resetting leaves it
Fresh(d) == [id |-> d, state |-> "probed", rxq |-> 0, txq |-> 0]

\* The thread is done with its step, or has others to take in its place.
Return(t) == todo' = [todo EXCEPT ![t] = Tail(@)]
Then(t, steps) == todo' = [todo EXCEPT ![t] = steps \o Tail(@)]
Abandon(t) == todo' = [todo EXCEPT ![t] = << >>]

\* A call by t; it overlaps when the other thread is in one.
Call(t, steps) ==
    /\ todo[t] = << >>
    /\ todo' = [todo EXCEPT ![t] = steps]
    /\ overlapped' = (overlapped \/ \E u \in Threads \ {t} : todo[u] # << >>)

Conf(ls, st, va) ==
    [ids |-> ls.ids, valid |-> va, fwd |-> SubSeq(ls.fwd_ids, 1, ls.nb_fwd_ports),
     lcores |-> st.lcores, rxq |-> st.rxq, txq |-> st.txq, eng |-> st.eng,
     topology |-> opts.topology, split |-> opts.split, streams_port |-> opts.streams_port]

port_is_forwarding(p) == \E i \in 1 .. lists.nb_fwd_ports : lists.fwd_ids[i] = p
all_ports_started == \A p \in valid : status[p] = "STARTED"
all_ports_stopped == \A p \in valid : status[p] = "STOPPED"

Running(lc) == core[lc].state = "running"
Idle == \A t \in Threads : todo[t] = << >>

\* fwd_config_setup() with new lists and settings. Streams that were freed are lost to the
\* cores that serve them.
Reconfigure(ls, st, va) ==
    LET new == FwdConfigSetup(Conf(ls, st, va), table)
        freed == DOMAIN new.streams # DOMAIN table.streams
    IN  /\ table' = new
        /\ core' = [lc \in Lcores |-> [core[lc] EXCEPT !.freed = @ \/ (freed /\ Running(lc))]]
        /\ resized' = (resized \/ \E lc \in Lcores : Running(lc))

\* What remains of a list of ports when the valid ports are va
Remaining(ports, va) == Only(ports, {i \in DOMAIN ports : ports[i] \in va})

\* Mutant: only the list of ports is pruned.
Pruned_IdsOnly(ls, va) == [ls EXCEPT !.ids = Remaining(@, va)]

\* remove_invalid_ports, once the valid ports are va
Pruned(ls, va) ==
    LET fwd == Remaining(SubSeq(ls.fwd_ids, 1, ls.nb_fwd_ports), va)
    IN  [ids |-> Remaining(ls.ids, va), fwd_ids |-> fwd, nb_fwd_ports |-> Len(fwd)]

=============================================================================
