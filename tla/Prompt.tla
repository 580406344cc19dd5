-------------------------------- MODULE Prompt --------------------------------
(***************************************************************************)
(* What the user changes at the prompt besides forwarding: the lines of    *)
(* the flow grammar, the flow rules of a port, the headers of tunnels, the *)
(* multicast addresses of a port and the settings of ports. Each keeps     *)
(* state of its own, and a session is about one of them (bound).           *)
(***************************************************************************)
EXTENDS FlowParser, FlowRules, EncapConf, McastPool, PortSettings

VARIABLE topic      \* what the session is about

vars == <<topic, pvars, fvars, evars, mvars, svars>>

Topics == {"flow lines", "flow rules", "tunnel headers", "multicast", "settings"}

Init ==
    /\ topic \in Topics
    /\ PInit /\ FInit /\ EInit /\ MInit /\ SInit
    /\ topic # "settings" => up = {} /\ family = CHOOSE f \in Families : TRUE

Next ==
    /\ UNCHANGED topic
    /\ \/ topic = "flow lines" /\ PNext /\ UNCHANGED <<fvars, evars, mvars, svars>>
       \/ topic = "flow rules" /\ FNext /\ UNCHANGED <<pvars, evars, mvars, svars>>
       \/ topic = "tunnel headers" /\ ENext /\ UNCHANGED <<pvars, fvars, mvars, svars>>
       \/ topic = "multicast" /\ MNext /\ UNCHANGED <<pvars, fvars, evars, svars>>
       \/ topic = "settings" /\ SNext /\ UNCHANGED <<pvars, fvars, evars, mvars>>

Spec == Init /\ [][Next]_vars
=============================================================================
