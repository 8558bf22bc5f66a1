------------------------------ MODULE MCAlpFile -----------------------------
(* Two files of four bytes and an ID without a file; items that end before, *)
(* at and behind the end of a file and of its allocation, one with an odd  *)
(* span.                                                                   *)
EXTENDS AlpFile

CONSTANTS f1, f2, none

FourBytes == [f \in {f1, f2} |-> 4]
SomeModes == {{"R"}, {"W"}, {"R", "W"}}

At(f, o, s, m) == [file |-> f, offset |-> o, span |-> s, mode |-> m]

SomeItems ==
  {At(f1, 0, 2, {"R"}), At(f2, 2, 8, {"R", "W"}), At(f1, 4, 2, {"W"}),
   At(none, 0, 2, {"R"}), At(f2, 1, 3, {"W"})}
=============================================================================
