------------------------------ MODULE PortLife ------------------------------
(***************************************************************************)
(* The life of a port: start_port, stop_port, close_port, reset_port,      *)
(* attach_port and detach_device, for one port at a time, in steps that    *)
(* another thread may come between. p is the port of the step t is at.     *)
(***************************************************************************)
EXTENDS TestpmdState

OutsidePorts == <<settings, opts, fwdVars, overlapped, userVars>>

\* rte_atomic16_cmpset on a status, when it does not matter whether it succeeds
Cas(st, p, old, new) == [st EXCEPT ![p] = IF @ = old THEN new ELSE @]

-----------------------------------------------------------------------------
(* start_port *)

StartClaim(t) ==
    /\ At(t, "start_port")
    /\ IF Port(t) \in valid /\ status[Port(t)] = "STOPPED"
       THEN /\ status' = [status EXCEPT ![Port(t)] = "HANDLING"]
            /\ Then(t, <<Step("configure", Port(t))>>)
       ELSE Return(t) /\ UNCHANGED status
    /\ UNCHANGED <<valid, spare, closed, need, dev, lists, OutsidePorts>>

\* The device can be configured, and its queues set up, while it exists and is stopped.
Accepts(p) == p \in valid /\ dev[p].state # "started"

\* Configuring fails: the port goes back to STOPPED and the call returns.
ConfigureFails(t) ==
    /\ At(t, "configure")
    /\ \/ /\ need[Port(t)].reconfig
          /\ UNCHANGED <<need, dev>>
       \/ /\ need[Port(t)].queues
          /\ need[Port(t)].reconfig => Accepts(Port(t))
          /\ need' = [need EXCEPT ![Port(t)].reconfig = FALSE]
          /\ dev' = IF need[Port(t)].reconfig
                    THEN [dev EXCEPT ![Port(t)] = [Fresh(@.id) EXCEPT !.state = "configured"]]
                    ELSE dev
    /\ status' = Cas(status, Port(t), "HANDLING", "STOPPED")
    /\ Abandon(t)
    /\ UNCHANGED <<valid, spare, closed, lists, OutsidePorts>>

\* The isolated mode cannot be applied: the call returns and leaves the port as it is.
IsolateFails(t) ==
    /\ At(t, "configure")
    /\ opts.isolate
    /\ need[Port(t)].reconfig
    /\ need' = [need EXCEPT ![Port(t)].reconfig = FALSE]
    /\ Abandon(t)
    /\ UNCHANGED <<valid, spare, closed, status, dev, lists, OutsidePorts>>

Configure(t) ==
    LET p == Port(t)
        c == Conf(lists, settings, valid)
    IN  /\ At(t, "configure")
        /\ need[p].reconfig \/ need[p].queues => Accepts(p)
        /\ need' = [need EXCEPT ![p] = [setup |-> @.setup, reconfig |-> FALSE, queues |-> FALSE]]
        /\ dev' = IF need[p].queues
                  THEN [dev EXCEPT ![p] = [id |-> @.id, state |-> "ready",
                                           rxq |-> RxQueues(c, p), txq |-> TxQueues(c, p)]]
                  ELSE IF need[p].reconfig
                       THEN [dev EXCEPT ![p] = [Fresh(@.id) EXCEPT !.state = "configured"]]
                       ELSE dev
        /\ Then(t, <<Step("dev_start", p)>>)
        /\ UNCHANGED <<valid, spare, closed, status, lists, OutsidePorts>>

\* rte_eth_dev_start() succeeds on a port with queues, or on one that runs already.
DeviceStarts(t) ==
    /\ At(t, "dev_start")
    /\ Port(t) \in valid
    /\ dev[Port(t)].state \in {"ready", "started"}
    /\ dev' = [dev EXCEPT ![Port(t)].state = "started"]
    /\ status' = Cas(status, Port(t), "HANDLING", "STARTED")
    /\ Return(t)
    /\ UNCHANGED <<valid, spare, closed, need, lists, OutsidePorts>>

\* Mutant: a port whose device does not start is left as it is.
DeviceStartFails_Left(t) ==
    /\ At(t, "dev_start")
    /\ Return(t)
    /\ UNCHANGED <<portVars, OutsidePorts>>

DeviceStartFails(t) ==
    /\ At(t, "dev_start")
    /\ status' = Cas(status, Port(t), "HANDLING", "STOPPED")
    /\ Return(t)
    /\ UNCHANGED <<valid, spare, closed, need, dev, lists, OutsidePorts>>

-----------------------------------------------------------------------------
(* stop_port *)

\* Mutant: ports that forward are stopped too.
Spared_Invalid(p) == p \notin valid

\* Ports that forward are left alone.
Spared(p) == p \notin valid \/ (port_is_forwarding(p) /\ ~test_done)

StopCheck(t) ==
    /\ At(t, "stop_port")
    /\ IF Spared(Port(t)) THEN Return(t) ELSE Then(t, <<Step("stop_claim", Port(t))>>)
    /\ UNCHANGED <<portVars, OutsidePorts>>

StopClaim(t) ==
    /\ At(t, "stop_claim")
    /\ IF status[Port(t)] = "STARTED"
       THEN /\ status' = [status EXCEPT ![Port(t)] = "HANDLING"]
            /\ Then(t, <<Step("dev_stop", Port(t))>>)
       ELSE Return(t) /\ UNCHANGED status
    /\ UNCHANGED <<valid, spare, closed, need, dev, lists, OutsidePorts>>

\* The status follows whether or not the device stopped.
DeviceStop(t) ==
    /\ At(t, "dev_stop")
    /\ \/ dev[Port(t)].state = "started" /\ dev' = [dev EXCEPT ![Port(t)].state = "ready"]
       \/ UNCHANGED dev
    /\ status' = Cas(status, Port(t), "HANDLING", "STOPPED")
    /\ Return(t)
    /\ UNCHANGED <<valid, spare, closed, need, lists, OutsidePorts>>

-----------------------------------------------------------------------------
(* close_port: RTE_ETH_EVENT_DESTROY marks the port closed on the way. *)

\* "close_port" is the port of the call, "close_each" one of all ports: only an invalid port
\* of the call makes it return early, before remove_invalid_ports().
CloseCheck(t) ==
    /\ \/ At(t, "close_port") /\ Port(t) \in valid
       \/ At(t, "close_each")
    /\ IF Spared(Port(t)) \/ status[Port(t)] = "CLOSED"
       THEN Return(t)
       ELSE Then(t, <<Step("dev_close", Port(t))>>)
    /\ UNCHANGED <<portVars, OutsidePorts>>

CloseInvalid(t) ==
    /\ At(t, "close_port")
    /\ Port(t) \notin valid
    /\ todo' = [todo EXCEPT ![t] = SubSeq(@, 3, Len(@))]
    /\ UNCHANGED <<portVars, OutsidePorts>>

Gone(p) ==
    /\ valid' = valid \ {p}
    /\ status' = [status EXCEPT ![p] = "CLOSED"]
    /\ dev' = [dev EXCEPT ![p] = Fresh(@.id)]

\* ethdev may refuse to close a device that runs.
DeviceClose(t) ==
    /\ At(t, "dev_close")
    /\ \/ Port(t) \in valid /\ Gone(Port(t)) /\ closed' = closed \cup {dev[Port(t)].id}
       \/ /\ Port(t) \in valid => dev[Port(t)].state = "started"
          /\ UNCHANGED <<valid, status, dev, closed>>
    /\ Return(t)
    /\ UNCHANGED <<spare, need, lists, OutsidePorts>>

ClosePrune(t) ==
    /\ At(t, "prune")
    /\ lists' = Pruned(lists, valid)
    /\ Return(t)
    /\ UNCHANGED <<valid, spare, closed, status, need, dev, OutsidePorts>>

-----------------------------------------------------------------------------
(* reset_port *)

ResetCheck(t) ==
    /\ \/ /\ At(t, "reset_port")
          /\ IF Port(t) \in valid /\ status[Port(t)] = "STOPPED"
             THEN Then(t, <<Step("reset_device", Port(t))>>)
             ELSE Return(t)
       \/ /\ At(t, "reset_all")
          /\ IF all_ports_stopped THEN Then(t, ForEach("reset_device")) ELSE Return(t)
    /\ UNCHANGED <<portVars, OutsidePorts>>

DeviceReset(t) ==
    /\ At(t, "reset_device")
    /\ \/ /\ ~Spared(Port(t))
          /\ dev' = [dev EXCEPT ![Port(t)] = Fresh(@.id)]
          /\ need' = [need EXCEPT ![Port(t)].reconfig = TRUE, ![Port(t)].queues = TRUE]
       \/ UNCHANGED <<need, dev>>
    /\ Return(t)
    /\ UNCHANGED <<valid, spare, closed, status, lists, OutsidePorts>>

-----------------------------------------------------------------------------
(* attach_port *)

\* Probing a device gives a new port the lowest free id, and announces it.
Probe(t) ==
    LET p == Min(Ports \ valid)
    IN  /\ At(t, "attach")
        /\ spare # {}
        /\ valid' = valid \cup {p}
        /\ status' = [status EXCEPT ![p] = "HANDLING"]
        /\ need' = [need EXCEPT ![p].setup = TRUE]
        /\ \E d \in spare : spare' = spare \ {d} /\ dev' = [dev EXCEPT ![p] = Fresh(d)]
        /\ Then(t, <<Step("setup", p)>>)
        /\ UNCHANGED <<closed, lists, OutsidePorts>>

\* Probing a device that has its port announces nothing; probing fails when there is none.
ProbeAgain(t) ==
    /\ At(t, "attach")
    /\ \/ Return(t)
       \/ \E p \in valid : Then(t, <<Step("setup", p)>>)
    /\ UNCHANGED <<portVars, OutsidePorts>>

\* The ports setup_attached_port() is called for: those announced, or the one that matches
\* unless it is in the forwarding list.
ToSetUp(p) ==
    IF opts.event THEN {q \in Ports : status[q] = "HANDLING" /\ need[q].setup}
    ELSE {q \in valid : q = p /\ ~port_is_forwarding(q)}

setup_attached_port(t) ==
    LET new == InOrder(ToSetUp(Port(t)))
        fwd == SubSeq(lists.fwd_ids, 1, lists.nb_fwd_ports) \o new
    IN  /\ At(t, "setup")
        /\ lists' = IF new = << >> THEN lists
                    ELSE [ids |-> lists.ids \o new, fwd_ids |-> fwd, nb_fwd_ports |-> Len(fwd)]
        /\ need' = [q \in Ports |-> IF q \in ToSetUp(Port(t))
                                    THEN [setup |-> FALSE, reconfig |-> TRUE, queues |-> TRUE]
                                    ELSE need[q]]
        /\ status' = [q \in Ports |-> IF q \in ToSetUp(Port(t)) THEN "STOPPED" ELSE status[q]]
        /\ Return(t)
        /\ UNCHANGED <<valid, spare, closed, dev, OutsidePorts>>

-----------------------------------------------------------------------------
(* detach_device *)

\* rmv_port_callback() notes the device of its port before it closes the port.
SaveDevice(t) ==
    LET p == Port(t)
    IN  /\ At(t, "save_device")
        /\ IF p \in valid
           THEN Then(t, <<Step("close_port", p), Step("prune", 0), Step("detach", dev[p].id)>>)
           ELSE Return(t)
        /\ UNCHANGED <<portVars, OutsidePorts>>

\* The step names a device here. A port it still has must be stopped.
Detach(t) ==
    LET d == Port(t)
        siblings == {p \in valid : dev[p].id = d}
    IN  /\ At(t, "detach")
        /\ \/ /\ d \notin spare
              /\ \A p \in siblings : status[p] = "STOPPED"
              /\ valid' = valid \ siblings
              /\ status' = [p \in Ports |-> IF p \in siblings THEN "CLOSED" ELSE status[p]]
              /\ dev' = [p \in Ports |-> IF p \in siblings THEN Fresh(d) ELSE dev[p]]
              /\ closed' = closed \ {d}
              /\ spare' = spare \cup {d}
              /\ lists' = Pruned(lists, valid')
           \/ UNCHANGED <<valid, status, dev, spare, closed, lists>>
        /\ Return(t)
        /\ UNCHANGED <<need, OutsidePorts>>

=============================================================================
