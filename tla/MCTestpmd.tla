------------------------------ MODULE MCTestpmd ------------------------------
(* Sessions of testpmd on small instances.                                 *)
EXTENDS Testpmd

\* Two ports that are operated in every way while a device is removed
PortSession(event, isolate) ==
    [topology |-> "paired", event |-> event, isolate |-> isolate, split |-> FALSE, streams_port |-> << >>,
     devices |-> 2, removals |-> 1, engines |-> {"io"},
     commands |-> {"start", "stop", "port start", "port stop", "port close", "port reset", "port attach", "port detach",
                   "set nbport", "quit"}]

\* Three ports, of which forwarding is configured in every way
ConfigSession(topology) ==
    [topology |-> topology, event |-> FALSE, isolate |-> FALSE, split |-> FALSE, streams_port |-> << >>,
     devices |-> 3, removals |-> 0, engines |-> {"io", "icmpecho"},
     commands |-> {"start", "stop", "port start", "port stop", "set nbport", "set nbcore", "set portlist",
                   "port config", "set fwd"}]

\* A configuration file with two streams of port 0 and one of port 1
FileSession == [ConfigSession("loop") EXCEPT !.split = TRUE, !.streams_port = <<0, 1, 0>>]

MCOptions == {PortSession(event, isolate) : event \in BOOLEAN, isolate \in BOOLEAN}
             \cup {ConfigSession(topology) : topology \in Topologies} \cup {FileSession}

MCFileOptions == {[FileSession EXCEPT !.devices = 2, !.engines = {"io"}, !.commands = {"start", "port close"}]}
=============================================================================
