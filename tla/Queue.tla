-------------------------------- MODULE Queue -------------------------------
(***************************************************************************)
(* Byte queues (otlib/queue.c, buffers.c and their C2000 port): a buffer,  *)
(* two cursors, a limit and a lock word, the options field of ot_queue.    *)
(*                                                                         *)
(* The calls of one thread after the other; Alp has the lock word and the  *)
(* threads that wait for it.  Integers and strings are written and read,   *)
(* bytes moved between queues, queues emptied, rewound and swapped.        *)
(*                                                                         *)
(* Cursors count from the front of the buffer.  An integer is the sequence *)
(* of its bytes, most significant first.  Callers test q_span before they  *)
(* read and q_writespace before they write an integer: the functions do    *)
(* not.                                                                    *)
(***************************************************************************)
EXTENDS Integers, Sequences

CONSTANTS
  Queues,
  Port,       (* The builds: "posix", "c2000".                             *)
  Alloc,      (* Bytes of each buffer.                                     *)
  Byte,
  Ints,       (* Integers that are written, as sequences of bytes.         *)
  Strings,    (* Strings that are written.                                 *)
  RewindApart (* Queues are rewound only if old and new place do not overlap. *)

ASSUME QueueAssumption ==
  /\ Alloc \in Nat \ {0}
  /\ 0 \in Byte
  /\ Port \subseteq {"posix", "c2000"}
  /\ Ints \subseteq Seq(Byte) /\ Strings \subseteq Seq(Byte)
  /\ RewindApart \in BOOLEAN

VARIABLES
  port,   (* The build.                                                    *)
  q,      (* ot_queue: the cursors and the limit.                          *)
  mem     (* The buffers.                                                  *)

vars == <<port, q, mem>>

Cursors == [get : 0..Alloc, put : 0..Alloc, back : 0..Alloc]

(* Cursors stay in order and in the buffer.                                *)
TypeOK ==
  /\ port \in Port
  /\ q \in [Queues -> Cursors]
  /\ \A x \in Queues : q[x].get <= q[x].put /\ q[x].put <= q[x].back
  /\ mem \in [Queues -> [0..(Alloc - 1) -> Byte]]

-----------------------------------------------------------------------------
q_span(x)       == q[x].put - q[x].get
q_writespace(x) == q[x].back - q[x].put
q_readspace(x)  == q[x].back - q[x].get

Smaller(a, b) == IF a < b THEN a ELSE b

Emptied == [get |-> 0, put |-> 0, back |-> Alloc]

(* q_init of each queue over its zeroed buffer.                            *)
Init ==
  /\ port \in Port
  /\ q = [x \in Queues |-> Emptied]
  /\ mem = [x \in Queues |-> [i \in 0..(Alloc - 1) |-> 0]]

(* The buffer of x with the bytes s at its putcursor.                      *)
Stored(x, s) ==
  [i \in 0..(Alloc - 1) |->
     IF i >= q[x].put /\ i < q[x].put + Len(s)
       THEN s[i - q[x].put + 1] ELSE mem[x][i]]

(* The n bytes of x from its getcursor on.                                 *)
Next_bytes(x, n) == [i \in 1..n |-> mem[x][q[x].get + i - 1]]

Writes(x, s) ==
  /\ q' = [q EXCEPT ![x].put = @ + Len(s)]
  /\ mem' = [mem EXCEPT ![x] = Stored(x, s)]

(* The _be variants write the least significant byte first.                *)
Encoded(v, be) == IF be THEN [i \in 1..Len(v) |-> v[Len(v) + 1 - i]] ELSE v

q_write(x) ==
  \E v \in Ints, be \in BOOLEAN :
    /\ Len(v) <= q_writespace(x)
    /\ Writes(x, Encoded(v, be))

q_writestring(x) ==
  \E s \in Strings :
    Writes(x, SubSeq(s, 1, Smaller(Len(s), q_writespace(x))))

(* Reading integers, strings and q_markbyte alike.                         *)
q_read(x) ==
  /\ \E length \in 1..q_span(x) :
       q' = [q EXCEPT ![x].get = @ + Smaller(length, q_readspace(x))]
  /\ UNCHANGED mem

(* Mutant: what does not fit is dropped, and taken from the source all the *)
(* same.                                                                   *)
q_movedata_Cut(y, x) ==
  \E length \in 1..q_span(x) :
    LET n == Smaller(length, q_writespace(y))
    IN  /\ q' = [q EXCEPT ![y].put = @ + n, ![x].get = @ + length]
        /\ mem' = [mem EXCEPT ![y] = Stored(y, Next_bytes(x, n))]

(* All of the length, or nothing.                                          *)
q_movedata(y, x) ==
  \E length \in 1..q_span(x) :
    /\ Smaller(q_writespace(y), q_readspace(x)) >= length
    /\ q' = [q EXCEPT ![y].put = @ + length, ![x].get = @ + length]
    /\ mem' = [mem EXCEPT ![y] = Stored(y, Next_bytes(x, length))]

(* The byte i of n that are copied from dist to the front of m, from the   *)
(* last byte down: where the two overlap it reads what it has written.     *)
CopiedDown(m, dist, n, i) == m[i + dist * (((n - 1 - i) \div dist) + 1)]

(* POSIX rewinds by memcpy, whose order is not defined.                    *)
q_rewind(x) ==
  LET dist == q[x].get
      n    == q_span(x)
      Front(B(_)) == [mem EXCEPT ![x] = [i \in 0..(Alloc - 1) |->
                                           IF i < n THEN B(i) ELSE mem[x][i]]]
      Up(i)   == mem[x][i + dist]
      Down(i) == CopiedDown(mem[x], dist, n, i)
  IN  /\ dist > 0
      /\ port = "posix"
      /\ RewindApart => n <= dist
      /\ q' = [q EXCEPT ![x] = [get |-> 0, put |-> n, back |-> @.back]]
      /\ mem' = Front(Up) \/ mem' = Front(Down)

(* The C2000 port copies up byte by byte, and leaves an empty queue alone. *)
q_rewind_c2000(x) ==
  /\ port = "c2000"
  /\ q_span(x) > 0
  /\ q' = [q EXCEPT ![x] = [get |-> 0, put |-> q_span(x), back |-> @.back]]
  /\ mem' = [mem EXCEPT ![x] = [i \in 0..(Alloc - 1) |->
               IF i < q_span(x) THEN @[i + q[x].get] ELSE @[i]]]

q_empty(x) == q' = [q EXCEPT ![x] = Emptied] /\ UNCHANGED mem

(* Mutant: the limit of an earlier q_rebase is left.                       *)
q_start_OldBack(x) ==
  /\ \E offset \in 0..Alloc :
       q' = [q EXCEPT ![x].get = offset, ![x].put = offset]
  /\ UNCHANGED mem

q_start(x) ==
  /\ \E offset \in 0..Alloc :
       q' = [q EXCEPT ![x] = IF offset >= Alloc THEN Emptied
                             ELSE [get |-> offset, put |-> offset, back |-> Alloc]]
  /\ UNCHANGED mem

(* Rebasing leaves no space to write until the queue is emptied.           *)
q_rebase(x) ==
  /\ q' = [q EXCEPT ![x] = [get |-> 0, put |-> 0, back |-> 0]]
  /\ UNCHANGED mem

(* By way of a third ot_queue, with q_copy.                                *)
buffers_swap(x, y) ==
  /\ q' = [q EXCEPT ![x] = q[y], ![y] = q[x]]
  /\ mem' = [mem EXCEPT ![x] = mem[y], ![y] = mem[x]]

Next ==
  /\ \E x \in Queues :
       \/ q_write(x) \/ q_writestring(x) \/ q_read(x)
       \/ q_empty(x) \/ q_start(x) \/ q_rebase(x)
       \/ q_rewind(x) \/ q_rewind_c2000(x)
       \/ \E y \in Queues \ {x} : q_movedata(y, x) \/ buffers_swap(x, y)
  /\ UNCHANGED port

Spec == Init /\ [][Next]_vars

-----------------------------------------------------------------------------
(* Bytes come out of each queue as they went in, in order, none lost or    *)
(* twice, through rewinds, moves between queues and swaps.                 *)
F == INSTANCE Fifo
       WITH content <- [x \in Queues |-> Next_bytes(x, q_span(x))],
            Capacity <- Alloc

FifoSpec == F!Spec
=============================================================================
