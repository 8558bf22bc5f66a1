------------------------------- MODULE MCQueue ------------------------------
(* Integers of one and two bytes, a string that fits and one that is cut.  *)
EXTENDS Queue

SomeInts    == {<<1>>, <<0, 1>>}
SomeStrings == {<<1, 0>>, <<0, 1, 1, 0>>}
=============================================================================
