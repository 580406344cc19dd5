----------------------------- MODULE MCNetStats -----------------------------
(* Instances of NetStats for TLC.                                            *)
EXTENDS NetStats, TLC

\* Requests are interchangeable.
Sym == Permutations(Handlers)
=============================================================================
