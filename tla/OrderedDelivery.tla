--------------------------- MODULE OrderedDelivery ---------------------------
(***************************************************************************)
(* What a pair of demo servers promises to the machines behind it, with no *)
(* link, number or buffer in sight: of the frames a server offers, some    *)
(* are delivered, each once and in the order they were offered. Nothing is *)
(* promised across a restart: a new run of the sending host starts a new   *)
(* order, and a new run of the receiving host forgets what it delivered.   *)
(***************************************************************************)
EXTENDS Naturals, Sequences

CONSTANT Servers

VARIABLES
    offered,    \* frames offered by each server so far
    delivered   \* frames delivered since the receiver started

vars == <<offered, delivered>>

\* Per server and run of the sender, the frames are in the order they were offered.
InOrder(frames) ==
    \A i, j \in DOMAIN frames :
        i < j /\ frames[i].srv = frames[j].srv /\ frames[i].inc = frames[j].inc
            => frames[i].id < frames[j].id

Init ==
    /\ offered = [s \in Servers |-> 0]
    /\ delivered = <<>>

Offer(s) ==
    /\ offered' = [offered EXCEPT ![s] = @ + 1]
    /\ UNCHANGED delivered

\* Frames that were offered and come after everything delivered are delivered.
Deliver ==
    /\ Len(delivered') > Len(delivered)
    /\ SubSeq(delivered', 1, Len(delivered)) = delivered
    /\ \A i \in DOMAIN delivered' : /\ delivered'[i].srv \in Servers
                                    /\ delivered'[i].id \in 1 .. offered[delivered'[i].srv]
    /\ InOrder(delivered')
    /\ UNCHANGED offered

ReceiverRestart ==
    /\ delivered' = <<>>
    /\ UNCHANGED offered

Next == \/ \E s \in Servers : Offer(s)
        \/ Deliver
        \/ ReceiverRestart

Spec == Init /\ [][Next]_vars
=============================================================================
