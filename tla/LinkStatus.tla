----------------------------- MODULE LinkStatus -----------------------------
(***************************************************************************)
(* How a host learns which links are up: main() assumes all of them, checks*)
(* them once, registers lsi_event_callback() for every port, and from then *)
(* on the interrupt thread rewrites port_mask. RedundantLink instantiates  *)
(* the module once for each host.                                          *)
(***************************************************************************)
EXTENDS DemoConfig

VARIABLES
    up,         \* what the hardware would answer about each link
    mask,       \* port_mask, as a set of links
    irq,        \* links with a link-status interrupt not handled yet
    checked,    \* check_all_ports_link_status() has seen every link up
    reg         \* links lsi_event_callback() is registered for

lvars == <<mask, irq, checked, reg>>

LTypeOK ==
    /\ mask \subseteq Links
    /\ irq \subseteq Links
    /\ checked \in BOOLEAN
    /\ reg \subseteq Links

LInit ==
    /\ irq = {}
    /\ checked = FALSE
    /\ reg = {}

LReset ==
    /\ irq' = {}
    /\ checked' = FALSE
    /\ reg' = {}

\* The process goes on only from a check that found every link up (it retries
\* for a while and exits otherwise).
check_all_ports_link_status ==
    /\ ~checked
    /\ \A l \in Links : up[l]
    /\ checked' = TRUE
    /\ UNCHANGED <<mask, irq, reg>>

\* rte_eth_dev_callback_register(), port after port, a second after the check.
Register(l) ==
    /\ checked
    /\ l \notin reg
    /\ \A k \in 1 .. (l - 1) : k \in reg
    /\ reg' = reg \cup {l}
    /\ UNCHANGED <<mask, irq, checked>>

Running == reg = Links

\* Seeded fault: the callback takes every event for a change of the bit.
lsi_event_callback_Toggle(l) ==
    /\ l \in irq
    /\ l \in reg
    /\ irq' = irq \ {l}
    /\ mask' = IF l \in mask THEN mask \ {l} ELSE mask \cup {l}
    /\ UNCHANGED <<checked, reg>>

\* The callback does not use the event: it asks the hardware what holds now.
lsi_event_callback(l) ==
    /\ l \in irq
    /\ l \in reg
    /\ irq' = irq \ {l}
    /\ mask' = IF up[l] THEN mask \cup {l} ELSE mask \ {l}
    /\ UNCHANGED <<checked, reg>>

\* An interrupt handled before the registration reaches no callback.
Unheard(l) ==
    /\ l \in irq
    /\ l \notin reg
    /\ irq' = irq \ {l}
    /\ UNCHANGED <<mask, checked, reg>>

\* A port never shunned for nothing: a link whose bit is clear is down, unless
\* the interrupt that will set the bit is on its way.
NoHealthyLinkMasked ==
    \A l \in Links : l \notin mask /\ l \notin irq => ~up[l]
=============================================================================
