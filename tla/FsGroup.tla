------------------------------ MODULE FsGroup ------------------------------
(***************************************************************************)
(* What the group of filesystems promises (README.md, "Top Level OTFS      *)
(* API"): each member has data of its own, at most one member is checked   *)
(* out, and file calls change the data of that one only.                   *)
(***************************************************************************)
CONSTANTS FSID, NoID, Value

VARIABLES
  data,      (* The data of each member. *)
  checkout   (* The member file calls work on, or NoID. *)

vars == <<data, checkout>>

TypeOK ==
  /\ DOMAIN data \subseteq FSID
  /\ \A i \in DOMAIN data : data[i] \in Value
  /\ checkout \in DOMAIN data \cup {NoID}

Without(S) == [j \in DOMAIN data \ S |-> data[j]]

Init == data = <<>> /\ checkout = NoID

(* A new member, which becomes the one checked out. *)
Add(i, v) ==
  /\ i \notin DOMAIN data
  /\ data' = [j \in DOMAIN data \cup {i} |-> IF j = i THEN v ELSE data[j]]
  /\ checkout' = i

Checkout(i) ==
  /\ i \in DOMAIN data
  /\ checkout' = i
  /\ UNCHANGED data

Write(v) ==
  /\ checkout # NoID
  /\ data' = [data EXCEPT ![checkout] = v]
  /\ UNCHANGED checkout

Remove(S) ==
  /\ data' = Without(S)
  /\ checkout' = IF checkout \in S THEN NoID ELSE checkout

Next ==
  \/ \E i \in FSID, v \in Value : Add(i, v)
  \/ \E i \in FSID : Checkout(i) \/ Remove({i})
  \/ \E v \in Value : Write(v)
  \/ Remove(DOMAIN data)

Spec == Init /\ [][Next]_vars
=============================================================================
