---------------------------- MODULE MCClientRaces ----------------------------
(* Small instances of ClientRaces. *)
EXTENDS ClientRaces, TLC

ThreadSymmetry == Permutations(Threads)

NeverFails == {FALSE}
MayFail    == BOOLEAN
=============================================================================
