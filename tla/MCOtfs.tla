------------------------------- MODULE MCOtfs -------------------------------
(* Blocks of memory and places of the application are interchangeable. *)
EXTENDS Otfs, TLC

Interchange == Permutations(Base) \cup Permutations(Client)
=============================================================================
