------------------------------ MODULE McastPool ------------------------------
(***************************************************************************)
(* The multicast addresses a port listens to: config.c keeps them without  *)
(* gaps at the start of a pool that grows by chunks and hands the whole    *)
(* pool to the device after every change, taking the change back when the  *)
(* device refuses. The pool is released only when the last address is      *)
(* removed, so it outlives the device it was set on. Memory never runs     *)
(* out.                                                                    *)
(***************************************************************************)
EXTENDS Integers, SequencesExt

CONSTANTS
    MCAST_POOL_INC,     \* entries the pool grows by
    McAddrs,            \* multicast addresses
    MaxMcastLines       \* commands (bound)

ASSUME PoolAssumption == MCAST_POOL_INC \in Nat \ {0}

VARIABLES
    mc_addr_pool,   \* the entries of the pool, those after mc_addr_nb too; <<>>: no pool
    mc_addr_nb,     \* addresses recorded
    mc_device,      \* the list the device has
    mc_attached,    \* a device is attached as the port
    mc_synced,      \* it has been given a list since it was attached
    mc_asked,       \* what the commands the device took add up to
    mc_lines        \* commands so far

mvars == <<mc_addr_pool, mc_addr_nb, mc_device, mc_attached, mc_synced, mc_asked, mc_lines>>

Blank == "blank"    \* an entry nothing was written to

MInit ==
    /\ mc_addr_pool = <<>>
    /\ mc_addr_nb = 0
    /\ mc_device = {}
    /\ mc_attached = TRUE
    /\ mc_synced = TRUE
    /\ mc_asked = {}
    /\ mc_lines = 0

Recorded(pool, nb) == {pool[i] : i \in 1 .. nb}

\* Pool and number after each step, as [pool, nb]
mcast_addr_pool_extend(p) ==
    [pool |-> IF p.nb % MCAST_POOL_INC # 0 THEN p.pool
              ELSE SubSeq(p.pool, 1, p.nb) \o [i \in 1 .. MCAST_POOL_INC |-> Blank],
     nb |-> p.nb + 1]

mcast_addr_pool_append(p, addr) ==
    LET e == mcast_addr_pool_extend(p) IN [e EXCEPT !.pool[e.nb] = addr]

\* Without the entry at idx, the ones after it moved down
mcast_addr_pool_remove(p, idx) ==
    [pool |-> IF idx = p.nb THEN IF p.nb = 1 THEN <<>> ELSE p.pool
              ELSE [i \in DOMAIN p.pool |-> IF i \in idx .. p.nb - 1 THEN p.pool[i + 1] ELSE p.pool[i]],
     nb |-> p.nb - 1]

Pool == [pool |-> mc_addr_pool, nb |-> mc_addr_nb]

\* Seeded fault: the change is not taken back.
eth_port_multicast_addr_list_set_Keep(p, taken, otherwise) ==
    /\ mc_addr_pool' = p.pool
    /\ mc_addr_nb' = p.nb
    /\ mc_device' = IF taken THEN Recorded(p.pool, p.nb) ELSE mc_device
    /\ mc_synced' = (taken \/ mc_synced)

\* The device takes the whole list or keeps the one it has.
eth_port_multicast_addr_list_set(p, taken, otherwise) ==
    LET kept == IF taken THEN p ELSE otherwise
    IN  /\ mc_addr_pool' = kept.pool
        /\ mc_addr_nb' = kept.nb
        /\ mc_device' = IF taken THEN Recorded(p.pool, p.nb) ELSE mc_device
        /\ mc_synced' = (taken \/ mc_synced)

PlaceOf(addr) == {i \in 1 .. mc_addr_nb : mc_addr_pool[i] = addr}

mcast_addr_add(addr, taken) ==
    LET longer == mcast_addr_pool_append(Pool, addr)
    IN  /\ PlaceOf(addr) = {}
        /\ eth_port_multicast_addr_list_set(longer, taken, mcast_addr_pool_remove(longer, longer.nb))
        /\ mc_asked' = IF taken THEN mc_asked \cup {addr} ELSE mc_asked

mcast_addr_remove(addr, taken) ==
    /\ PlaceOf(addr) # {}
    /\ LET shorter == mcast_addr_pool_remove(Pool, CHOOSE i \in PlaceOf(addr) : \A j \in PlaceOf(addr) : i <= j)
       IN  eth_port_multicast_addr_list_set(shorter, taken, mcast_addr_pool_append(shorter, addr))
    /\ mc_asked' = IF taken THEN mc_asked \ {addr} ELSE mc_asked

cmd_mcast_addr_parsed(addr, taken) ==
    /\ mc_lines < MaxMcastLines
    /\ mc_lines' = mc_lines + 1
    /\ mc_attached
    /\ mcast_addr_add(addr, taken) \/ mcast_addr_remove(addr, taken)
    /\ UNCHANGED mc_attached

\* The device of the port goes, with its list, and another takes the place.
close_port_mcast ==
    /\ mc_attached
    /\ mc_attached' = FALSE
    /\ mc_device' = {}
    /\ UNCHANGED <<mc_addr_pool, mc_addr_nb, mc_synced, mc_asked, mc_lines>>

attach_port_mcast ==
    /\ ~mc_attached
    /\ mc_attached' = TRUE
    /\ mc_synced' = (mc_addr_nb = 0)
    /\ UNCHANGED <<mc_addr_pool, mc_addr_nb, mc_device, mc_asked, mc_lines>>

MNext ==
    \/ \E addr \in McAddrs, taken \in BOOLEAN : cmd_mcast_addr_parsed(addr, taken)
    \/ close_port_mcast
    \/ attach_port_mcast

-----------------------------------------------------------------------------
RecordedOnce ==
    /\ mc_addr_nb <= Len(mc_addr_pool)
    /\ Recorded(mc_addr_pool, mc_addr_nb) = mc_asked
    /\ \A i, j \in 1 .. mc_addr_nb : i # j => mc_addr_pool[i] # mc_addr_pool[j]

DeviceListens == mc_attached /\ mc_synced => mc_device = Recorded(mc_addr_pool, mc_addr_nb)

\* However additions, removals, refusals and the taking back of them mix, the pool
\* records each address that was added and not removed exactly once, within the
\* entries it has, and no entry that was never written. The device listens to the
\* addresses recorded, but for a device that was attached to a port with addresses
\* and has not been given a list since.
PoolIsWhatWasAsked == RecordedOnce /\ DeviceListens
=============================================================================
