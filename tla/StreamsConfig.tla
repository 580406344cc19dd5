---------------------------- MODULE StreamsConfig ----------------------------
(* The numbered streams the shunting and the aggre engine agree on.          *)
EXTENDS Naturals, Sequences, FiniteSets

CONSTANTS
    Streams,        \* streams of the configuration file
    NoStream

ASSUME StreamsAssumption == NoStream \notin Streams /\ IsFiniteSet(Streams)
=============================================================================
