------------------------------ MODULE MCSession ------------------------------
(* Two sessions and two ports; sessions and ports are interchangeable. *)
EXTENDS WuartSession, TLC

TwoBauds == {115200, 921600}
OneBaud == {115200}

Symmetry == Permutations(Sessions) \union Permutations(Ports)
=============================================================================
