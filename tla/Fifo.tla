-------------------------------- MODULE Fifo --------------------------------
(***************************************************************************)
(* What byte queues promise their users: each holds the bytes that were    *)
(* put and not yet taken, in order.  Cursors, the buffer, rewinding and    *)
(* the locks do not show.                                                  *)
(***************************************************************************)
EXTENDS Sequences, Naturals

CONSTANTS Queues, Byte, Capacity

VARIABLE content

Init == content = [x \in Queues |-> <<>>]

(* Only the queues in X change, and none outgrows its buffer.              *)
Only(X) ==
  /\ \A x \in Queues \ X : content'[x] = content[x]
  /\ \A x \in X : Len(content'[x]) <= Capacity

Prefix(x, n) == SubSeq(content[x], 1, n)
Rest(x, n)   == SubSeq(content[x], n + 1, Len(content[x]))

(* Bytes are added at the end of x.                                        *)
Put(x) ==
  /\ Only({x})
  /\ \E n \in 1..Capacity : \E s \in [1..n -> Byte] : content'[x] = content[x] \o s

(* The first n bytes of x are taken, all of them when it is emptied, and   *)
(* added to y if it is a move.                                             *)
Get(x) ==
  /\ Only({x})
  /\ \E n \in 0..Len(content[x]) : content'[x] = Rest(x, n)

Move(x, y) ==
  /\ Only({x, y})
  /\ \E n \in 0..Len(content[x]) :
       content'[x] = Rest(x, n) /\ content'[y] = content[y] \o Prefix(x, n)

Swap(x, y) ==
  /\ Only({x, y})
  /\ content'[x] = content[y] /\ content'[y] = content[x]

Next ==
  \E x \in Queues :
    \/ Get(x) \/ Put(x)
    \/ \E y \in Queues \ {x} : Move(x, y) \/ Swap(x, y)

Spec == Init /\ [][Next]_content
=============================================================================
