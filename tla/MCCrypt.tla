------------------------------- MODULE MCCrypt -------------------------------
(* Two devices with a user key in common and root keys of their own: two    *)
(* POSIX builds, or one with a C2000 build.                                 *)
EXTENDS Crypt, TLC

CONSTANTS a, b, ra, rb, user

Two(pa, ta, pb, tb) == a :> [port |-> pa, takes |-> ta] @@ b :> [port |-> pb, takes |-> tb]

SomeBuilds == {Two("posix", "put", "posix", "get"),
               Two("posix", "put", "c2000", "put")}

FileKeys == a :> (0 :> ra @@ 1 :> user) @@ b :> (0 :> rb @@ 1 :> user)

SomePlains == {<<>>, <<<<"plain", 1>>>>}
=============================================================================
