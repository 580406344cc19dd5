----------------------------- MODULE FwdControl -----------------------------
(***************************************************************************)
(* start_packet_forwarding, stop_packet_forwarding and the forwarding      *)
(* cores they launch and stop.                                             *)
(***************************************************************************)
EXTENDS TestpmdState

OutsideFwd == <<portVars, settings, opts, overlapped, userVars>>

\* All ports are checked, then the flag; they are read before the flag is set.
StartCheck(t) ==
    /\ At(t, "start")
    /\ IF all_ports_started /\ test_done THEN Then(t, <<Step("set_up", 0)>>) ELSE Return(t)
    /\ UNCHANGED <<fwdVars, OutsideFwd>>

\* What a user must see to: with a configuration file the ports of its streams are forwarding
\* ports, and icmpecho, which knows no such file, has a transmit queue for each receive queue.
Sound ==
    /\ \A i \in DOMAIN opts.streams_port : port_is_forwarding(opts.streams_port[i])
    /\ settings.eng = "icmpecho" => ~opts.split /\ settings.rxq <= settings.txq

StartSetUp(t) ==
    /\ At(t, "set_up")
    /\ test_done' = FALSE
    /\ sound' = Sound
    /\ Reconfigure(lists, settings, valid)
    /\ Then(t, <<Step("launch", 0)>>)
    /\ UNCHANGED OutsideFwd

\* A core takes the job when it waits for one, and with it a copy of what it serves.
Job(lc) == [state |-> "running", stopped |-> FALSE, freed |-> FALSE,
            stream_idx |-> table.lcores[lc].stream_idx, stream_nb |-> table.lcores[lc].stream_nb,
            fwd_eng |-> table.cur.fwd_eng]

Launch(t) ==
    /\ At(t, "launch")
    /\ core' = [lc \in Lcores |->
                  IF lc >= table.cur.nb_fwd_lcores THEN core[lc]
                  ELSE IF core[lc].state = "wait" THEN Job(lc)
                  ELSE [core[lc] EXCEPT !.stopped = FALSE]]
    /\ Return(t)
    /\ UNCHANGED <<table, test_done, resized, sound, OutsideFwd>>

\* run_pkt_fwd_on_lcore() looks at the flag after each round over its streams.
CoreFinish(lc) ==
    /\ Running(lc)
    /\ core[lc].stopped
    /\ core' = [core EXCEPT ![lc].state = "finished"]
    /\ UNCHANGED <<table, test_done, resized, sound, todo, OutsideFwd>>

StopTell(t) ==
    /\ At(t, "stop")
    /\ IF test_done
       THEN Return(t) /\ UNCHANGED core
       ELSE /\ core' = [lc \in Lcores |-> [core[lc] EXCEPT !.stopped = @ \/ lc < table.cur.nb_fwd_lcores]]
            /\ Then(t, <<Step("wait", 0)>>)
    /\ UNCHANGED <<table, test_done, resized, sound, OutsideFwd>>

\* rte_eal_mp_wait_lcore() waits for every core, told to stop or not.
StopWait(t) ==
    /\ At(t, "wait")
    /\ \A lc \in Lcores : ~Running(lc)
    /\ core' = [lc \in Lcores |-> [core[lc] EXCEPT !.state = "wait"]]
    /\ test_done' = TRUE
    /\ Return(t)
    /\ UNCHANGED <<table, resized, sound, OutsideFwd>>

=============================================================================
