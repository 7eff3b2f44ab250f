--------------------------- MODULE MCClientState ---------------------------
(* Instances of ClientState for TLC. *)
EXTENDS ClientState, TLC

CONSTANTS c1, c2

CallSymmetry == Permutations(Calls)
=============================================================================
