---------------------------- MODULE MCBusManager ----------------------------
(* Small instances of the ESP bus for TLC. *)
EXTENDS BusManager, TLC

CONSTANTS c1, c2

MCNodes == {0, 1}
MCCorrs == {c1, c2}

\* Nothing tells one correlation from another.
Swap == Permutations(MCCorrs)
=============================================================================
