-------------------------------- MODULE MCFiles --------------------------------
(* The three applications of the repository. *)
EXTENDS Files

Null  == INSTANCE NullFs
Csip  == INSTANCE CsipMasterFs
C2000 == INSTANCE CsipC2000Fs

MCApps == [null |-> Null!App, csip_master |-> Csip!App, csip_c2000 |-> C2000!App]

(* A key, a file anyone may read, an ID no application has, and files on    *)
(* both sides of what csip_setarray displaces; lengths that are odd, 0 and  *)
(* beyond the allocation.                                                   *)
MCChmods ==
  {<<"isf", 14, m>> : m \in {Mod(No, No), Mod(RWX, No), Mod(RW, RO)}}
    \cup {<<"isf", 7, Mod(No, No)>>, <<"isf", 40, Mod(RW, RW)>>}

MCStores ==
  {<<"isf", 14, 5>>, <<"isf", 7, 30>>, <<"isf", 7, 0>>, <<"gfb", 0, 300>>, <<"isf", 21, 90>>,
   <<"isf", 255, 8>>}

(* Behind csip_setarray, whose default data is four bytes short. *)
MCAstray == {<<"csip_c2000", i>> : i \in 25 .. 28}
===============================================================================
