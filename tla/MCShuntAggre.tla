---------------------------- MODULE MCShuntAggre ----------------------------
(* Instances of ShuntAggre for TLC. Every stream hashes to slot 0.           *)
EXTENDS ShuntAggre

CONSTANTS s1, s2, c1, c2

MCHash(s) == IF s = s1 THEN NbSlots ELSE 2 * NbSlots

\* Any core may receive any stream, or each stream has its core.
Anywhere(s) == Cores
Affine(s) == IF s = s1 THEN {c1} ELSE {c2}

\* UDP ports of one word: the one chosen at first, and the one that "5002" chooses.
MCVideoWord == [d \in VideoPorts |-> 1]
MCVideoIds == {<<53, 48, 48, 50>>}
=============================================================================
