----------------------------- MODULE MCVeelite -----------------------------
(* Two files of four and two bytes, side by side, and spare words after     *)
(* them; places of the application, and functions, are interchangeable.     *)
EXTENDS Veelite, TLC

CONSTANTS f1, f2

MCBase  == f1 :> 0 @@ f2 :> 2
MCAlloc == f1 :> 4 @@ f2 :> 2
MCEqualAlloc == f1 :> 2 @@ f2 :> 2

AnyUse  == Licences
Sharing == {"share"}
Orderly == {}
Unpaired == {"unpaired"}

EvenOffsets == {0, 2}
NoneOf == {}

OnModded == {{"MODDED"}}

Interchange == Permutations(Client) \cup Permutations(Action)
=============================================================================
