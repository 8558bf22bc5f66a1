------------------------------- MODULE MCAuth -------------------------------
(* Modes: of root only, of the user in full, and of everyone to read or to  *)
(* write, which are also the accesses.  Key contexts are interchangeable.    *)
EXTENDS Auth, TLC

Interchange == Permutations(Key)

ModesUsed ==
  { [user |-> {}, guest |-> {}],
    [user |-> Right, guest |-> {}],
    [user |-> {"r"}, guest |-> {"r"}],
    [user |-> {"w"}, guest |-> {"w"}] }
=============================================================================
