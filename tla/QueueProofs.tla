----------------------------- MODULE QueueProofs -----------------------------
(* Theorems of module Queue, for queues of any length and all bytes,         *)
(* integers and strings that satisfy QueueAssumption.                        *)
EXTENDS Queue, SequenceTheorems, TLAPS

Place == 0..(Alloc - 1)

QType ==
  /\ q \in [Queues -> Cursors]
  /\ \A x \in Queues : q[x].get <= q[x].put /\ q[x].put <= q[x].back

MType == mem \in [Queues -> [Place -> Byte]]

LEMMA TypeParts == TypeOK <=> port \in Port /\ QType /\ MType
BY DEF TypeOK, QType, MType, Place

LEMMA Spans ==
  ASSUME QType, NEW x \in Queues
  PROVE  /\ q[x].get \in 0..Alloc /\ q[x].put \in 0..Alloc /\ q[x].back \in 0..Alloc
         /\ q[x].get <= q[x].put /\ q[x].put <= q[x].back
         /\ q_span(x) \in Nat /\ q_writespace(x) \in Nat /\ q_readspace(x) \in Nat
         /\ q_span(x) <= q_readspace(x)
BY QueueAssumption DEF QType, Cursors, q_span, q_writespace, q_readspace

(* A field of a queue that is changed.                                       *)
LEMMA Fields ==
  ASSUME NEW r \in Cursors, NEW v
  PROVE  /\ [r EXCEPT !.get = v] = [get |-> v, put |-> r.put, back |-> r.back]
         /\ [r EXCEPT !.put = v] = [get |-> r.get, put |-> v, back |-> r.back]
BY DEF Cursors

(* Cursors that are moved in order keep the type of their queue.             *)
LEMMA CursorStep ==
  ASSUME QType, NEW x \in Queues, NEW g \in 0..Alloc, NEW p \in 0..Alloc, NEW b \in 0..Alloc,
         g <= p, p <= b, q' = [q EXCEPT ![x] = [get |-> g, put |-> p, back |-> b]]
  PROVE  QType'
<1>1. [get |-> g, put |-> p, back |-> b] \in Cursors
  BY DEF Cursors
<1>2. q' \in [Queues -> Cursors]
  BY <1>1 DEF QType
<1>3. ASSUME NEW y \in Queues
      PROVE  q'[y].get <= q'[y].put /\ q'[y].put <= q'[y].back
  <2>1. CASE y = x
    BY <2>1 DEF QType
  <2>2. CASE y # x
    BY <2>2 DEF QType
  <2>3. QED
    BY <2>1, <2>2
<1>4. QED
  BY <1>2, <1>3 DEF QType

LEMMA AtFront ==
  ASSUME QType, NEW x \in Queues, NEW p \in 0..Alloc, NEW b \in 0..Alloc, p <= b,
         q' = [q EXCEPT ![x] = [get |-> 0, put |-> p, back |-> b]]
  PROVE  QType'
<1>1. PICK g \in 0..Alloc : g = 0
  BY QueueAssumption
<1>2. q' = [q EXCEPT ![x] = [get |-> g, put |-> p, back |-> b]] /\ g <= p
  BY <1>1
<1>3. QED
  BY <1>2, CursorStep

(* The bytes that are stored, and those that are read.                       *)
LEMMA StoredType ==
  ASSUME QType, MType, NEW x \in Queues, NEW s \in Seq(Byte)
  PROVE  Stored(x, s) \in [Place -> Byte]
<1>1. \A i \in Place : i >= q[x].put /\ i < q[x].put + Len(s) => i - q[x].put + 1 \in 1..Len(s)
  BY Spans, QueueAssumption DEF Place
<1>2. \A i \in 1..Len(s) : s[i] \in Byte
  OBVIOUS
<1>3. QED
  BY <1>1, <1>2 DEF Stored, MType, Place

LEMMA ReadType ==
  ASSUME QType, MType, NEW x \in Queues, NEW n \in Nat, n <= q_span(x)
  PROVE  Next_bytes(x, n) \in Seq(Byte) /\ Len(Next_bytes(x, n)) = n
<1>1. \A i \in 1..n : q[x].get + i - 1 \in Place
  BY Spans, QueueAssumption DEF Place, q_span
<1>2. Next_bytes(x, n) \in [1..n -> Byte]
  BY <1>1 DEF Next_bytes, MType
<1>3. QED
  BY <1>2 DEF Next_bytes

LEMMA WriteStep ==
  ASSUME QType, MType, NEW x \in Queues, NEW s \in Seq(Byte), Len(s) <= q_writespace(x),
         Writes(x, s)
  PROVE  QType' /\ MType'
<1>1. Len(s) \in Nat /\ q[x].put + Len(s) \in 0..Alloc /\ q[x].put + Len(s) <= q[x].back
      /\ q[x].get <= q[x].put + Len(s)
  <2>1. /\ q[x].get \in 0..Alloc /\ q[x].put \in 0..Alloc /\ q[x].back \in 0..Alloc
        /\ q[x].get <= q[x].put /\ q[x].put <= q[x].back
    BY Spans
  <2>2. Len(s) \in Nat /\ Len(s) <= q[x].back - q[x].put
    BY DEF q_writespace
  <2>3. QED
    BY <2>1, <2>2, QueueAssumption
<1>2. q' = [q EXCEPT ![x] = [get |-> q[x].get, put |-> q[x].put + Len(s), back |-> q[x].back]]
  <2>1. q' = [q EXCEPT ![x] = [q[x] EXCEPT !.put = q[x].put + Len(s)]]
    BY DEF Writes
  <2>2. q[x] \in Cursors
    BY DEF QType
  <2>3. QED
    BY <2>1, <2>2, Fields
<1>3. QType'
  BY <1>1, <1>2, Spans, CursorStep
<1>4. QED
  BY <1>3, StoredType DEF Writes, MType

-----------------------------------------------------------------------------
(* A queue that is rewound: the bytes it copies are its own.                 *)
LEMMA RewindCopies ==
  ASSUME QType, MType, NEW x \in Queues, RewindApart = TRUE, q_rewind(x)
  PROVE  mem' = [mem EXCEPT ![x] = [i \in Place |-> IF i < q_span(x) THEN mem[x][i + q[x].get]
                                                    ELSE mem[x][i]]]
<1> DEFINE dist == q[x].get
           n    == q_span(x)
<1>1. dist \in 1..Alloc /\ n \in 0..dist /\ n + dist = q[x].put /\ q[x].put <= q[x].back
      /\ q[x].put <= Alloc /\ q[x].back \in 0..Alloc
  BY Spans DEF q_rewind, q_span
<1>2. \A i \in Place : i < n => CopiedDown(mem[x], dist, n, i) = mem[x][i + dist]
  <2>1. SUFFICES ASSUME NEW i \in Place, i < n
                 PROVE  CopiedDown(mem[x], dist, n, i) = mem[x][i + dist]
    OBVIOUS
  <2>2. n - 1 - i \in 0..(dist - 1)
    BY <1>1, <2>1, QueueAssumption DEF Place
  <2>3. (n - 1 - i) \div dist = 0
    BY <1>1, <2>2, SMT
  <2>4. i + dist * (((n - 1 - i) \div dist) + 1) = i + dist
    BY <1>1, <2>3, QueueAssumption DEF Place
  <2>5. QED
    BY <2>4 DEF CopiedDown
<1>3. mem' = [mem EXCEPT ![x] = [i \in Place |-> IF i < n THEN mem[x][i + dist] ELSE mem[x][i]]]
      \/ mem' = [mem EXCEPT ![x] = [i \in Place |-> IF i < n THEN CopiedDown(mem[x], dist, n, i)
                                                    ELSE mem[x][i]]]
  BY DEF q_rewind, Place
<1>4. QED
  BY <1>2, <1>3

LEMMA RewindStep ==
  ASSUME QType, MType, NEW x \in Queues, RewindApart = TRUE, q_rewind(x)
  PROVE  QType' /\ MType'
<1> DEFINE dist == q[x].get
           n    == q_span(x)
<1>1. dist \in 1..Alloc /\ n \in 0..dist /\ n + dist = q[x].put /\ q[x].put <= q[x].back
      /\ q[x].put <= Alloc /\ q[x].back \in 0..Alloc
  BY Spans DEF q_rewind, q_span
<1>2. q' = [q EXCEPT ![x] = [get |-> 0, put |-> n, back |-> q[x].back]]
  BY DEF q_rewind
<1>3. QType'
  <2>1. n \in 0..Alloc /\ n <= q[x].back
    BY <1>1, QueueAssumption
  <2>2. QED
    BY <1>1, <1>2, <2>1, AtFront
<1>4. \A i \in Place : i < n => mem[x][i + dist] \in Byte
  BY <1>1, QueueAssumption DEF MType, Place
<1>5. [i \in Place |-> IF i < n THEN mem[x][i + dist] ELSE mem[x][i]] \in [Place -> Byte]
  BY <1>4 DEF MType
<1>6. QED
  BY <1>3, <1>5, RewindCopies DEF MType

LEMMA RewindC2000Step ==
  ASSUME QType, MType, NEW x \in Queues, q_rewind_c2000(x)
  PROVE  QType' /\ MType'
<1>1. q' = [q EXCEPT ![x] = [get |-> 0, put |-> q_span(x), back |-> q[x].back]]
  BY DEF q_rewind_c2000
<1>2. q_span(x) \in 0..Alloc /\ q_span(x) <= q[x].back
  <2>1. /\ q[x].get \in 0..Alloc /\ q[x].put \in 0..Alloc /\ q[x].back \in 0..Alloc
        /\ q[x].get <= q[x].put /\ q[x].put <= q[x].back
    BY Spans
  <2>2. QED
    BY <2>1, QueueAssumption DEF q_span
<1>3. QType'
  BY <1>1, <1>2, Spans, AtFront
<1>4. \A i \in Place : i < q_span(x) => mem[x][i + q[x].get] \in Byte
  BY Spans, QueueAssumption DEF MType, Place, q_span
<1>5. mem' = [mem EXCEPT ![x] = [i \in Place |-> IF i < q_span(x) THEN mem[x][i + q[x].get]
                                                 ELSE mem[x][i]]]
  BY DEF q_rewind_c2000, Place, MType
<1>6. [i \in Place |-> IF i < q_span(x) THEN mem[x][i + q[x].get] ELSE mem[x][i]]
        \in [Place -> Byte]
  BY <1>4 DEF MType
<1>7. QED
  BY <1>3, <1>5, <1>6 DEF MType

(* Bytes that are moved: read from one queue, written to the other.          *)
LEMMA MoveStep ==
  ASSUME QType, MType, NEW x \in Queues, NEW y \in Queues \ {x}, q_movedata(y, x)
  PROVE  QType' /\ MType'
<1>1. PICK length \in 1..q_span(x) :
        /\ Smaller(q_writespace(y), q_readspace(x)) >= length
        /\ q' = [q EXCEPT ![y].put = @ + length, ![x].get = @ + length]
        /\ mem' = [mem EXCEPT ![y] = Stored(y, Next_bytes(x, length))]
  BY DEF q_movedata
<1>2. /\ length \in Nat /\ length <= q_span(x) /\ length <= q_writespace(y)
      /\ q[y].put + length \in 0..Alloc /\ q[y].put + length <= q[y].back
      /\ q[x].get + length \in 0..Alloc /\ q[x].get + length <= q[x].put
  <2>1. /\ q[x].get \in 0..Alloc /\ q[x].put \in 0..Alloc /\ q[x].back \in 0..Alloc
        /\ q[y].get \in 0..Alloc /\ q[y].put \in 0..Alloc /\ q[y].back \in 0..Alloc
        /\ q_writespace(y) \in Nat /\ q_readspace(x) \in Nat /\ q_span(x) \in Nat
    BY Spans
  <2>2. length \in Nat /\ length <= q_span(x) /\ length <= q_writespace(y)
    BY <1>1, <2>1 DEF Smaller
  <2>3. q[y].put + length \in 0..Alloc /\ q[y].put + length <= q[y].back
    <3>1. length <= q[y].back - q[y].put
      BY <2>2 DEF q_writespace
    <3>2. q[y].put \in Int /\ q[y].back \in Int /\ 0 <= q[y].put /\ q[y].back <= Alloc
      BY <2>1, QueueAssumption
    <3>3. q[y].put + length <= q[y].back
      BY <2>2, <3>1, <3>2
    <3>4. QED
      BY <2>2, <3>2, <3>3, QueueAssumption
  <2>4. q[x].get + length \in 0..Alloc /\ q[x].get + length <= q[x].put
    <3>1. length <= q[x].put - q[x].get
      BY <2>2 DEF q_span
    <3>2. q[x].get \in Int /\ q[x].put \in Int /\ 0 <= q[x].get /\ q[x].put <= Alloc
      BY <2>1, QueueAssumption
    <3>3. q[x].get + length <= q[x].put
      BY <2>2, <3>1, <3>2
    <3>4. QED
      BY <2>2, <3>2, <3>3, QueueAssumption
  <2>5. QED
    BY <2>2, <2>3, <2>4
<1> DEFINE qy == [get |-> q[y].get, put |-> q[y].put + length, back |-> q[y].back]
           qx == [get |-> q[x].get + length, put |-> q[x].put, back |-> q[x].back]
<1>3. qy \in Cursors /\ qx \in Cursors
  BY <1>2, Spans DEF Cursors
<1>4. q' = [[q EXCEPT ![y] = qy] EXCEPT ![x] = qx]
  <2>1. q' = [q EXCEPT ![y] = [q[y] EXCEPT !.put = q[y].put + length],
                       ![x] = [q[x] EXCEPT !.get = q[x].get + length]]
    BY <1>1 DEF QType
  <2>2. [q[y] EXCEPT !.put = q[y].put + length] = qy /\ [q[x] EXCEPT !.get = q[x].get + length] = qx
    BY Fields DEF QType
  <2>3. QED
    BY <2>1, <2>2
<1>5. QType'
  <2>1. q' \in [Queues -> Cursors]
    BY <1>3, <1>4 DEF QType
  <2>2. ASSUME NEW z \in Queues
        PROVE  q'[z].get <= q'[z].put /\ q'[z].put <= q'[z].back
    <3>1. CASE z = x
      BY <1>2, <1>4, <3>1, Spans DEF QType
    <3>2. CASE z = y
      BY <1>2, <1>4, <3>2, Spans DEF QType
    <3>3. CASE z # x /\ z # y
      BY <1>4, <3>3, Spans DEF QType
    <3>4. QED
      BY <3>1, <3>2, <3>3
  <2>3. QED
    BY <2>1, <2>2 DEF QType
<1>6. Next_bytes(x, length) \in Seq(Byte)
  BY <1>2, ReadType
<1>7. Stored(y, Next_bytes(x, length)) \in [Place -> Byte]
  BY <1>6, StoredType
<1>8. QED
  BY <1>1, <1>5, <1>7 DEF MType

-----------------------------------------------------------------------------
LEMMA EncodedType ==
  ASSUME NEW v \in Seq(Byte), NEW be \in BOOLEAN
  PROVE  Encoded(v, be) \in Seq(Byte) /\ Len(Encoded(v, be)) = Len(v)
<1>1. CASE be
  <2>1. \A i \in 1..Len(v) : Len(v) + 1 - i \in 1..Len(v)
    OBVIOUS
  <2>2. [i \in 1..Len(v) |-> v[Len(v) + 1 - i]] \in [1..Len(v) -> Byte]
    BY <2>1
  <2>3. QED
    BY <1>1, <2>2 DEF Encoded
<1>2. CASE ~be
  BY <1>2 DEF Encoded
<1>3. QED
  BY <1>1, <1>2

LEMMA CutType ==
  ASSUME NEW s \in Seq(Byte), NEW n \in Nat
  PROVE  LET c == SubSeq(s, 1, Smaller(Len(s), n))
         IN  c \in Seq(Byte) /\ Len(c) <= n
<1>1. Smaller(Len(s), n) \in 0..Len(s) /\ Smaller(Len(s), n) <= n
  BY DEF Smaller
<1>2. QED
  BY <1>1

LEMMA TypeStep ==
  ASSUME RewindApart = TRUE, QType, MType, [Next]_vars
  PROVE  QType' /\ MType'
<1>1. CASE UNCHANGED vars
  BY <1>1 DEF vars, QType, MType
<1>2. ASSUME NEW x \in Queues, q_write(x)
      PROVE  QType' /\ MType'
  <2>1. PICK v \in Ints, be \in BOOLEAN : Len(v) <= q_writespace(x) /\ Writes(x, Encoded(v, be))
    BY <1>2 DEF q_write
  <2>2. v \in Seq(Byte)
    BY QueueAssumption
  <2>3. QED
    BY <2>1, <2>2, EncodedType, WriteStep
<1>3. ASSUME NEW x \in Queues, q_writestring(x)
      PROVE  QType' /\ MType'
  <2>1. PICK s \in Strings : Writes(x, SubSeq(s, 1, Smaller(Len(s), q_writespace(x))))
    BY <1>3 DEF q_writestring
  <2>2. s \in Seq(Byte) /\ q_writespace(x) \in Nat
    BY QueueAssumption, Spans
  <2>3. QED
    BY <2>1, <2>2, CutType, WriteStep
<1>4. ASSUME NEW x \in Queues, q_read(x)
      PROVE  QType' /\ MType'
  <2>1. PICK length \in 1..q_span(x) :
          q' = [q EXCEPT ![x].get = @ + Smaller(length, q_readspace(x))]
    BY <1>4 DEF q_read
  <2>2. Smaller(length, q_readspace(x)) = length
    BY Spans DEF Smaller
  <2>3. q' = [q EXCEPT ![x] = [get |-> q[x].get + length, put |-> q[x].put, back |-> q[x].back]]
    <3>1. q' = [q EXCEPT ![x] = [q[x] EXCEPT !.get = q[x].get + length]]
      BY <2>1, <2>2
    <3>2. QED
      BY <3>1, Fields DEF QType
  <2>4. q[x].get + length \in 0..Alloc /\ q[x].get + length <= q[x].put
    BY Spans, QueueAssumption DEF q_span
  <2>5. QED
    BY <1>4, <2>3, <2>4, Spans, CursorStep DEF q_read, MType
<1>5. ASSUME NEW x \in Queues, q_empty(x) \/ q_rebase(x)
      PROVE  QType' /\ MType'
  <2>1. UNCHANGED mem /\ \E b \in {0, Alloc} :
          q' = [q EXCEPT ![x] = [get |-> 0, put |-> 0, back |-> b]]
    BY <1>5 DEF q_empty, q_rebase, Emptied
  <2>2. QED
    <3>1. PICK p \in 0..Alloc : p = 0
      BY QueueAssumption
    <3>2. PICK b \in {0, Alloc} : q' = [q EXCEPT ![x] = [get |-> 0, put |-> p, back |-> b]]
      BY <2>1, <3>1
    <3>3. b \in 0..Alloc /\ p <= b
      BY <3>1, QueueAssumption
    <3>4. QType'
      BY <3>2, <3>3, AtFront
    <3>5. QED
      BY <2>1, <3>4 DEF MType
<1>6. ASSUME NEW x \in Queues, q_start(x)
      PROVE  QType' /\ MType'
  <2>1. PICK offset \in 0..Alloc :
          q' = [q EXCEPT ![x] = IF offset >= Alloc THEN Emptied
                                ELSE [get |-> offset, put |-> offset, back |-> Alloc]]
    BY <1>6 DEF q_start
  <2>2. PICK z \in 0..Alloc : z = 0
    BY QueueAssumption
  <2>3. PICK o \in {z, offset} : q' = [q EXCEPT ![x] = [get |-> o, put |-> o, back |-> Alloc]]
    BY <2>1, <2>2 DEF Emptied
  <2>4. Alloc \in 0..Alloc /\ o \in 0..Alloc /\ o <= o /\ o <= Alloc
    BY QueueAssumption
  <2>5. QType'
    BY <2>3, <2>4, CursorStep
  <2>6. QED
    BY <1>6, <2>5 DEF q_start, MType
<1>7. ASSUME NEW x \in Queues, NEW y \in Queues \ {x}, buffers_swap(x, y)
      PROVE  QType' /\ MType'
  <2>1. q' \in [Queues -> Cursors] /\ \A z \in Queues : \E w \in Queues : q'[z] = q[w]
    BY <1>7 DEF buffers_swap, QType
  <2>2. MType'
    BY <1>7 DEF buffers_swap, MType
  <2>3. QED
    BY <2>1, <2>2 DEF QType
<1>8. QED
  BY <1>1, <1>2, <1>3, <1>4, <1>5, <1>6, <1>7, RewindStep, RewindC2000Step, MoveStep DEF Next

(* Cursors stay in order and in the buffer, which holds bytes only, through  *)
(* all calls of queue.h, provided queues are rewound only onto space that    *)
(* their unread bytes do not reach.                                          *)
THEOREM TypeCorrect == RewindApart = TRUE /\ Spec => []TypeOK
<1> DEFINE QInv == RewindApart = TRUE /\ port \in Port /\ QType /\ MType
<1>1. RewindApart = TRUE /\ Init => QInv
  BY QueueAssumption DEF Init, QType, MType, Emptied, Cursors, Place
<1>2. QInv /\ [Next]_vars => QInv'
  <2>1. port \in Port /\ [Next]_vars => port' \in Port
    BY DEF Next, vars
  <2>2. QED
    BY <2>1, TypeStep
<1>3. QInv => TypeOK
  BY TypeParts
<1> HIDE DEF QInv
<1>4. QED
  BY <1>1, <1>2, <1>3, PTL DEF Spec

-----------------------------------------------------------------------------
(* The unread bytes of a queue: what Fifo knows of it.                       *)
Content(x) == Next_bytes(x, q_span(x))
All == [x \in Queues |-> Content(x)]

ContentFacts ==
  \A x \in Queues :
    /\ Content(x) \in Seq(Byte) /\ Len(Content(x)) = q_span(x)
    /\ q_span(x) \in 0..Alloc
    /\ \A i \in 1..q_span(x) : Content(x)[i] = mem[x][q[x].get + i - 1]

LEMMA ContentIs == QType /\ MType => ContentFacts
<1> SUFFICES ASSUME QType, MType, NEW x \in Queues
             PROVE  /\ Content(x) \in Seq(Byte) /\ Len(Content(x)) = q_span(x)
                    /\ q_span(x) \in 0..Alloc
                    /\ \A i \in 1..q_span(x) : Content(x)[i] = mem[x][q[x].get + i - 1]
  BY DEF ContentFacts
<1>1. q_span(x) \in Nat /\ q_span(x) <= q_span(x)
  BY Spans
<1>2. Content(x) \in Seq(Byte) /\ Len(Content(x)) = q_span(x)
  BY <1>1, ReadType DEF Content
<1>3. q_span(x) \in 0..Alloc
  <2>1. q[x].get \in 0..Alloc /\ q[x].put \in 0..Alloc /\ q[x].get <= q[x].put
    BY Spans
  <2>2. QED
    BY <2>1, QueueAssumption DEF q_span
<1>4. \A i \in 1..q_span(x) : Content(x)[i] = mem[x][q[x].get + i - 1]
  BY <1>1 DEF Content, Next_bytes
<1>5. QED
  BY <1>2, <1>3, <1>4

LEMMA ContentIsNext == QType' /\ MType' => ContentFacts'
BY ContentIs, PTL

LEMMA ContentKept ==
  ASSUME NEW x \in Queues, q'[x] = q[x], mem'[x] = mem[x]
  PROVE  Content(x)' = Content(x)
BY DEF Content, Next_bytes, q_span

(* Bytes that are written come behind those that are there.                  *)
LEMMA WrittenBehind ==
  ASSUME QType, MType, QType', MType', NEW x \in Queues, NEW s \in Seq(Byte),
         q'[x].get = q[x].get, q'[x].put = q[x].put + Len(s), mem'[x] = Stored(x, s)
  PROVE  Content(x)' = Content(x) \o s
<1> DEFINE n == q_span(x)
           c == Content(x)
           g == q[x].get
<1>1. /\ g \in 0..Alloc /\ q[x].put \in 0..Alloc /\ n \in 0..Alloc /\ n = q[x].put - g
      /\ Len(s) \in Nat /\ Alloc \in Nat
  BY Spans, ContentIs, QueueAssumption DEF q_span, ContentFacts
<1>2. /\ c \in Seq(Byte) /\ Len(c) = n
      /\ \A i \in 1..n : c[i] = mem[x][g + i - 1]
  BY ContentIs DEF ContentFacts
<1>3. q_span(x)' = n + Len(s) /\ q'[x].put \in 0..Alloc
  BY <1>1, Spans DEF q_span, QType, Cursors
<1>4. /\ Content(x)' \in Seq(Byte) /\ Len(Content(x)') = n + Len(s)
      /\ \A i \in 1..(n + Len(s)) : Content(x)'[i] = mem'[x][g + i - 1]
  BY <1>3, ContentIsNext DEF ContentFacts
<1>5. /\ c \o s \in Seq(Byte) /\ Len(c \o s) = n + Len(s)
      /\ \A i \in 1..(n + Len(s)) : (c \o s)[i] = IF i <= n THEN c[i] ELSE s[i - n]
  <2> HIDE DEF c, n
  <2>1. /\ c \o s \in Seq(Byte) /\ Len(c \o s) = Len(c) + Len(s)
        /\ \A i \in 1..(Len(c) + Len(s)) :
             (c \o s)[i] = IF i <= Len(c) THEN c[i] ELSE s[i - Len(c)]
    BY <1>2, ConcatProperties
  <2>2. QED
    BY <1>2, <2>1
<1>6. ASSUME NEW i \in 1..(n + Len(s))
      PROVE  Content(x)'[i] = (c \o s)[i]
  <2>1. g + i - 1 \in 0..(Alloc - 1) /\ i \in Nat
    <3>1. q[x].put + Len(s) \in 0..Alloc
      BY <1>3
    <3>2. i \in Int /\ 1 <= i /\ g + i <= q[x].put + Len(s)
      <4>1. /\ g \in Int /\ q[x].put \in Int /\ n \in Int /\ Len(s) \in Int
            /\ n = q[x].put - g
        BY <1>1
      <4> HIDE DEF n, g
      <4>2. i \in Int /\ 1 <= i /\ i <= n + Len(s)
        BY <1>6, <4>1
      <4>3. QED
        BY <4>1, <4>2
    <3>3. g \in Int /\ 0 <= g /\ Alloc \in Int
      BY <1>1
    <3>4. q[x].put + Len(s) \in Int /\ q[x].put + Len(s) <= Alloc
      BY <3>1, <3>3
    <3>5. g + i <= Alloc
      BY <3>2, <3>3, <3>4
    <3>6. QED
      BY <3>2, <3>3, <3>5
  <2>2. CASE i <= n
    <3>0. i \in Nat /\ g \in Nat /\ q[x].put \in Nat /\ g + i <= q[x].put
      <4>1. g \in Nat /\ q[x].put \in Nat /\ n \in Nat /\ n = q[x].put - g
        BY <1>1
      <4> HIDE DEF n, g
      <4>2. QED
        BY <2>1, <2>2, <4>1
    <3>1. ~(g + i - 1 >= q[x].put)
      <4> HIDE DEF n, g
      <4>1. QED
        BY <3>0
    <3>2. mem'[x][g + i - 1] = mem[x][g + i - 1]
      BY <2>1, <3>1 DEF Stored
    <3>3. i \in 1..n
      <4>1. n \in Nat
        BY <1>1
      <4> HIDE DEF n
      <4>2. QED
        BY <2>2, <4>1, <1>6
    <3>4. Content(x)'[i] = mem'[x][g + i - 1] /\ (c \o s)[i] = c[i]
      BY <1>4, <1>5, <2>2
    <3>5. c[i] = mem[x][g + i - 1]
      BY <1>2, <3>3
    <3>6. QED
      BY <3>2, <3>4, <3>5
  <2>3. CASE ~(i <= n)
    <3>1. g + i - 1 >= q[x].put /\ g + i - 1 < q[x].put + Len(s)
          /\ (g + i - 1) - q[x].put + 1 = i - n
      <4>1. i \in Int /\ n < i /\ i <= n + Len(s)
        BY <1>1, <2>1, <2>3
      <4>2. q[x].put = g + n /\ g \in Int /\ n \in Int /\ Len(s) \in Int
        BY <1>1
      <4>3. g + i - 1 >= g + n /\ g + i - 1 < g + n + Len(s) /\ (g + i - 1) - (g + n) + 1 = i - n
        BY <4>1, <4>2
      <4>4. QED
        BY <4>2, <4>3
    <3>2. mem'[x][g + i - 1] = s[i - n]
      BY <2>1, <3>1 DEF Stored
    <3>3. QED
      BY <1>4, <1>5, <2>3, <3>2
  <2>4. QED
    BY <2>2, <2>3
<1> HIDE DEF c, n
<1>7. QED
  <2>1. \A i \in 1..Len(Content(x)') : Content(x)'[i] = (c \o s)[i]
    BY <1>4, <1>6
  <2>2. Content(x)' = c \o s
    BY <1>4, <1>5, <2>1, SeqEqual
  <2>3. QED
    BY <2>2 DEF c

(* Bytes that are read are gone from the front.                              *)
LEMMA ReadOff ==
  ASSUME QType, MType, QType', MType', NEW x \in Queues, NEW k \in 0..q_span(x),
         q'[x].get = q[x].get + k, q'[x].put = q[x].put, mem'[x] = mem[x]
  PROVE  Content(x)' = SubSeq(Content(x), k + 1, Len(Content(x)))
<1> DEFINE n == q_span(x)
           c == Content(x)
           g == q[x].get
           r == SubSeq(c, k + 1, n)
<1>1. /\ g \in 0..Alloc /\ q[x].put \in 0..Alloc /\ n \in Nat /\ n = q[x].put - g
      /\ Alloc \in Nat /\ k \in Nat /\ k <= n
  BY Spans, ContentIs, QueueAssumption DEF q_span, ContentFacts
<1>2. /\ c \in Seq(Byte) /\ Len(c) = n
      /\ \A i \in 1..n : c[i] = mem[x][g + i - 1]
  BY ContentIs DEF ContentFacts
<1>3. q_span(x)' = n - k
  BY <1>1 DEF q_span
<1>4. /\ Content(x)' \in Seq(Byte) /\ Len(Content(x)') = n - k
      /\ \A i \in 1..(n - k) : Content(x)'[i] = mem[x][g + k + i - 1]
  BY <1>3, ContentIsNext DEF ContentFacts
<1>5. /\ r \in Seq(Byte) /\ Len(r) = n - k
      /\ \A i \in 1..(n - k) : r[i] = c[k + i]
  <2>1. \A i \in (k + 1)..n : c[i] \in Byte
    BY <1>1, <1>2
  <2>2. /\ r \in Seq(Byte) /\ Len(r) = IF k + 1 <= n THEN n - (k + 1) + 1 ELSE 0
        /\ \A i \in 1..(n - (k + 1) + 1) : r[i] = c[k + 1 + i - 1]
    BY <1>1, <2>1, SubSeqProperties
  <2>3. QED
    BY <1>1, <2>2
<1>6. ASSUME NEW i \in 1..(n - k)
      PROVE  Content(x)'[i] = r[i]
  <2>1. k + i \in 1..n /\ g + (k + i) - 1 = g + k + i - 1
    BY <1>1
  <2>2. QED
    BY <1>2, <1>4, <1>5, <2>1
<1> HIDE DEF c, n, r
<1>7. Content(x)' = r
  BY <1>4, <1>5, <1>6, SeqEqual
<1>8. QED
  BY <1>2, <1>7 DEF r, c

(* A rewind copies the unread bytes as they are.                             *)
LEMMA RewoundSame ==
  ASSUME QType, MType, QType', MType', NEW x \in Queues,
         q'[x].get = 0, q'[x].put = q_span(x),
         \A i \in Place : i < q_span(x) => mem'[x][i] = mem[x][i + q[x].get]
  PROVE  Content(x)' = Content(x)
<1> DEFINE n == q_span(x)
           g == q[x].get
<1>1. /\ g \in 0..Alloc /\ n \in 0..Alloc /\ Alloc \in Nat
  BY Spans, ContentIs, QueueAssumption DEF ContentFacts
<1>2. q_span(x)' = n
  BY <1>1 DEF q_span
<1>3. /\ Content(x) \in Seq(Byte) /\ Len(Content(x)) = n
      /\ \A i \in 1..n : Content(x)[i] = mem[x][g + i - 1]
  BY ContentIs DEF ContentFacts
<1>4. /\ Content(x)' \in Seq(Byte) /\ Len(Content(x)') = n
      /\ \A i \in 1..n : Content(x)'[i] = mem'[x][0 + i - 1]
  BY <1>2, ContentIsNext DEF ContentFacts
<1>5. ASSUME NEW i \in 1..n
      PROVE  Content(x)'[i] = Content(x)[i]
  <2>1. 0 + i - 1 \in Place /\ 0 + i - 1 < n /\ (0 + i - 1) + g = g + i - 1
    BY <1>1 DEF Place
  <2>2. QED
    BY <1>3, <1>4, <2>1
<1> HIDE DEF n
<1>6. QED
  BY <1>3, <1>4, <1>5, SeqEqual

-----------------------------------------------------------------------------
(* Each step maps to a step of Fifo, or to a stutter.                        *)
QInv == QType /\ MType

LEMMA Bounded ==
  ASSUME QInv'
  PROVE  \A x \in Queues : Len(All'[x]) <= Alloc
BY ContentIsNext, QueueAssumption DEF QInv, ContentFacts, All

LEMMA MapsToStutter ==
  ASSUME \A x \in Queues : Content(x)' = Content(x)
  PROVE  All' = All
BY DEF All

LEMMA MapsToPut ==
  ASSUME QInv, QInv', NEW x \in Queues, NEW s \in Seq(Byte), Len(s) <= q_writespace(x),
         Writes(x, s)
  PROVE  [F!Next]_All
<1>1. /\ q'[x] = [q[x] EXCEPT !.put = q[x].put + Len(s)] /\ mem'[x] = Stored(x, s)
      /\ \A y \in Queues \ {x} : q'[y] = q[y] /\ mem'[y] = mem[y]
  BY DEF Writes, QInv, QType, MType
<1>2. q'[x].get = q[x].get /\ q'[x].put = q[x].put + Len(s)
  BY <1>1, Fields DEF QInv, QType
<1>3. Content(x)' = Content(x) \o s
  BY <1>1, <1>2, WrittenBehind DEF QInv
<1>4. \A y \in Queues \ {x} : Content(y)' = Content(y)
  BY <1>1, ContentKept
<1>5. CASE s = <<>>
  <2>1. Content(x) \in Seq(Byte)
    BY ContentIs DEF QInv, ContentFacts
  <2>2. Content(x) \o <<>> = Content(x)
    BY <2>1, ConcatEmptySeq
  <2>3. QED
    BY <1>3, <1>4, <1>5, <2>2, MapsToStutter
<1>6. CASE s # <<>>
  <2>1. Len(s) \in 1..Alloc /\ s \in [1..Len(s) -> Byte]
    <3>1. Len(s) \in Nat /\ Len(s) # 0
      BY <1>6, EmptySeq
    <3>2. q_writespace(x) \in Int /\ q_writespace(x) <= Alloc
      <4>1. q[x].put \in 0..Alloc /\ q[x].back \in 0..Alloc
        BY Spans DEF QInv
      <4>2. QED
        BY <4>1, QueueAssumption DEF q_writespace
    <3>3. QED
      BY <3>1, <3>2, QueueAssumption
  <2>2. All'[x] = All[x] \o s
    BY <1>3 DEF All
  <2>3. F!Only({x})
    BY <1>4, Bounded DEF F!Only, All, Content
  <2>4. F!Put(x)
    BY <2>1, <2>2, <2>3 DEF F!Put, All, Content
  <2>5. QED
    BY <2>4 DEF F!Next
<1>7. QED
  BY <1>5, <1>6

(* What is taken: k of the bytes, or all when the queue is emptied.          *)
LEMMA MapsToGet ==
  ASSUME QInv, QInv', NEW x \in Queues, NEW k \in 0..q_span(x),
         Content(x)' = SubSeq(Content(x), k + 1, Len(Content(x))),
         \A y \in Queues \ {x} : Content(y)' = Content(y)
  PROVE  [F!Next]_All
<1>1. k \in 0..Len(All[x]) /\ All'[x] = SubSeq(All[x], k + 1, Len(All[x]))
  BY ContentIs DEF QInv, ContentFacts, All
<1>2. F!Only({x})
  BY Bounded DEF F!Only, All, Content
<1>3. F!Get(x)
  BY <1>1, <1>2 DEF F!Get, F!Rest, All, Content
<1>4. QED
  BY <1>3 DEF F!Next

LEMMA MapsToEmpty ==
  ASSUME QInv, QInv', NEW x \in Queues, q'[x].get = q'[x].put,
         \A y \in Queues \ {x} : q'[y] = q[y], UNCHANGED mem
  PROVE  [F!Next]_All
<1> DEFINE n == q_span(x)
<1>1. n \in Nat /\ Content(x) \in Seq(Byte) /\ Len(Content(x)) = n
  BY ContentIs, QueueAssumption DEF QInv, ContentFacts
<1>2. Content(x)' = <<>>
  <2>1. q_span(x)' = 0
    BY DEF q_span, QInv, QType, Cursors
  <2>2. Content(x)' \in Seq(Byte) /\ Len(Content(x)') = 0
    BY <2>1, ContentIsNext DEF QInv, ContentFacts
  <2>3. QED
    BY <2>2, EmptySeq
<1>3. SubSeq(Content(x), n + 1, n) = <<>>
  BY <1>1, SubSeqEmpty
<1>4. \A y \in Queues \ {x} : Content(y)' = Content(y)
  BY ContentKept
<1>5. n \in 0..q_span(x)
  BY <1>1
<1> HIDE DEF n
<1>6. QED
  BY <1>1, <1>2, <1>3, <1>4, <1>5, MapsToGet

(* The first k unread bytes.                                                 *)
LEMMA Front ==
  ASSUME QInv, NEW x \in Queues, NEW k \in 0..q_span(x)
  PROVE  /\ Next_bytes(x, k) \in Seq(Byte) /\ Len(Next_bytes(x, k)) = k
         /\ Next_bytes(x, k) = SubSeq(Content(x), 1, k)
<1> DEFINE b == Next_bytes(x, k)
           c == Content(x)
           r == SubSeq(c, 1, k)
<1>1. /\ c \in Seq(Byte) /\ Len(c) = q_span(x) /\ k \in Nat /\ k <= q_span(x)
      /\ q_span(x) \in Nat
      /\ \A i \in 1..q_span(x) : c[i] = mem[x][q[x].get + i - 1]
  BY ContentIs, QueueAssumption DEF QInv, ContentFacts
<1>2. b \in Seq(Byte) /\ Len(b) = k
  BY <1>1, ReadType DEF QInv
<1>3. \A i \in 1..k : b[i] = mem[x][q[x].get + i - 1]
  BY DEF Next_bytes
<1> HIDE DEF b, c
<1>4. r \in Seq(Byte) /\ Len(r) = k /\ \A i \in 1..k : r[i] = c[i]
  <2>1. \A i \in 1..k : c[i] \in Byte
    BY <1>1
  <2>2. /\ r \in Seq(Byte) /\ Len(r) = IF 1 <= k THEN k - 1 + 1 ELSE 0
        /\ \A i \in 1..(k - 1 + 1) : r[i] = c[1 + i - 1]
    BY <1>1, <2>1, SubSeqProperties
  <2>3. QED
    BY <1>1, <2>2
<1> HIDE DEF r
<1>5. ASSUME NEW i \in 1..k
      PROVE  b[i] = r[i]
  <2>1. i \in 1..q_span(x)
    BY <1>1
  <2>2. QED
    BY <1>1, <1>3, <1>4, <2>1
<1>6. b = r
  BY <1>2, <1>4, <1>5, SeqEqual
<1>7. QED
  BY <1>2, <1>6 DEF b, c, r

LEMMA MapsToMove ==
  ASSUME QInv, QInv', NEW x \in Queues, NEW y \in Queues \ {x}, q_movedata(y, x)
  PROVE  [F!Next]_All
<1>1. PICK length \in 1..q_span(x) :
        /\ q' = [q EXCEPT ![y].put = @ + length, ![x].get = @ + length]
        /\ mem' = [mem EXCEPT ![y] = Stored(y, Next_bytes(x, length))]
  BY DEF q_movedata
<1>2. length \in 0..q_span(x)
  OBVIOUS
<1> DEFINE s == Next_bytes(x, length)
<1>3. s \in Seq(Byte) /\ Len(s) = length /\ s = SubSeq(Content(x), 1, length)
  BY <1>2, Front
<1>4. /\ q'[y] = [q[y] EXCEPT !.put = q[y].put + length]
      /\ q'[x] = [q[x] EXCEPT !.get = q[x].get + length]
      /\ mem'[y] = Stored(y, s) /\ mem'[x] = mem[x]
      /\ \A z \in Queues \ {x, y} : q'[z] = q[z] /\ mem'[z] = mem[z]
  BY <1>1 DEF QInv, QType, MType
<1> HIDE DEF s
<1>5. /\ q'[y].get = q[y].get /\ q'[y].put = q[y].put + Len(s)
      /\ q'[x].get = q[x].get + length /\ q'[x].put = q[x].put
  BY <1>3, <1>4, Fields DEF QInv, QType
<1>6. Content(y)' = Content(y) \o s
  BY <1>3, <1>4, <1>5, WrittenBehind DEF QInv
<1>7. Content(x)' = SubSeq(Content(x), length + 1, Len(Content(x)))
  BY <1>2, <1>4, <1>5, ReadOff DEF QInv
<1>8. \A z \in Queues \ {x, y} : Content(z)' = Content(z)
  BY <1>4, ContentKept
<1>9. length \in 0..Len(All[x])
  BY <1>2, ContentIs DEF QInv, ContentFacts, All
<1>10. F!Only({x, y})
  BY <1>8, Bounded DEF F!Only, All, Content
<1>11. F!Move(x, y)
  BY <1>3, <1>6, <1>7, <1>9, <1>10 DEF F!Move, F!Rest, F!Prefix, All, Content
<1>12. QED
  BY <1>11 DEF F!Next

LEMMA MapsToSwap ==
  ASSUME QInv, QInv', NEW x \in Queues, NEW y \in Queues \ {x}, buffers_swap(x, y)
  PROVE  [F!Next]_All
<1>1. /\ q'[x] = q[y] /\ q'[y] = q[x] /\ mem'[x] = mem[y] /\ mem'[y] = mem[x]
      /\ \A z \in Queues \ {x, y} : q'[z] = q[z] /\ mem'[z] = mem[z]
  BY DEF buffers_swap, QInv, QType, MType
<1>2. Content(x)' = Content(y) /\ Content(y)' = Content(x)
  BY <1>1 DEF Content, Next_bytes, q_span
<1>3. \A z \in Queues \ {x, y} : Content(z)' = Content(z)
  BY <1>1, ContentKept
<1>4. F!Only({x, y})
  BY <1>3, Bounded DEF F!Only, All, Content
<1>5. F!Swap(x, y)
  BY <1>2, <1>4 DEF F!Swap, All, Content
<1>6. QED
  BY <1>5 DEF F!Next

LEMMA MapsToRewind ==
  ASSUME RewindApart = TRUE, QInv, QInv', NEW x \in Queues, q_rewind(x) \/ q_rewind_c2000(x)
  PROVE  [F!Next]_All
<1>1. /\ q'[x] = [get |-> 0, put |-> q_span(x), back |-> q[x].back]
      /\ \A y \in Queues \ {x} : q'[y] = q[y] /\ mem'[y] = mem[y]
  BY DEF q_rewind, q_rewind_c2000, QInv, QType, MType
<1>2. \A i \in Place : i < q_span(x) => mem'[x][i] = mem[x][i + q[x].get]
  <2>1. CASE q_rewind(x)
    BY <2>1, RewindCopies DEF QInv, MType
  <2>2. CASE q_rewind_c2000(x)
    BY <2>2 DEF q_rewind_c2000, QInv, MType, Place
  <2>3. QED
    BY <2>1, <2>2
<1>3. Content(x)' = Content(x)
  BY <1>1, <1>2, RewoundSame DEF QInv
<1>4. \A y \in Queues \ {x} : Content(y)' = Content(y)
  BY <1>1, ContentKept
<1>5. QED
  BY <1>3, <1>4, MapsToStutter

LEMMA MapsStep ==
  ASSUME RewindApart = TRUE, QInv, [Next]_vars
  PROVE  [F!Next]_All
<1>1. QInv'
  BY TypeStep DEF QInv
<1>2. CASE UNCHANGED vars
  BY <1>2, ContentKept, MapsToStutter DEF vars
<1>3. ASSUME NEW x \in Queues, q_write(x)
      PROVE  [F!Next]_All
  <2>1. PICK v \in Ints, be \in BOOLEAN : Len(v) <= q_writespace(x) /\ Writes(x, Encoded(v, be))
    BY <1>3 DEF q_write
  <2>2. v \in Seq(Byte)
    BY QueueAssumption
  <2>3. QED
    BY <1>1, <2>1, <2>2, EncodedType, MapsToPut
<1>4. ASSUME NEW x \in Queues, q_writestring(x)
      PROVE  [F!Next]_All
  <2>1. PICK s \in Strings : Writes(x, SubSeq(s, 1, Smaller(Len(s), q_writespace(x))))
    BY <1>4 DEF q_writestring
  <2>2. s \in Seq(Byte) /\ q_writespace(x) \in Nat
    BY QueueAssumption, Spans DEF QInv
  <2>3. QED
    BY <1>1, <2>1, <2>2, CutType, MapsToPut
<1>5. ASSUME NEW x \in Queues, q_read(x)
      PROVE  [F!Next]_All
  <2>1. PICK length \in 1..q_span(x) :
          q' = [q EXCEPT ![x].get = @ + Smaller(length, q_readspace(x))]
    BY <1>5 DEF q_read
  <2>2. Smaller(length, q_readspace(x)) = length /\ length \in 0..q_span(x)
    BY Spans DEF Smaller, QInv
  <2>3. /\ q'[x] = [q[x] EXCEPT !.get = q[x].get + length] /\ UNCHANGED mem
        /\ \A y \in Queues \ {x} : q'[y] = q[y]
    BY <1>5, <2>1, <2>2 DEF q_read, QInv, QType
  <2>4. q'[x].get = q[x].get + length /\ q'[x].put = q[x].put
    BY <2>3, Fields DEF QInv, QType
  <2>5. Content(x)' = SubSeq(Content(x), length + 1, Len(Content(x)))
    BY <1>1, <2>2, <2>3, <2>4, ReadOff DEF QInv
  <2>6. \A y \in Queues \ {x} : Content(y)' = Content(y)
    BY <2>3, ContentKept
  <2>7. QED
    BY <1>1, <2>2, <2>5, <2>6, MapsToGet
<1>6. ASSUME NEW x \in Queues, q_empty(x) \/ q_start(x) \/ q_rebase(x)
      PROVE  [F!Next]_All
  <2>1. /\ q'[x].get = q'[x].put /\ UNCHANGED mem
        /\ \A y \in Queues \ {x} : q'[y] = q[y]
    BY <1>6 DEF q_empty, q_start, q_rebase, Emptied, QInv, QType
  <2>2. QED
    BY <1>1, <2>1, MapsToEmpty
<1>7. ASSUME NEW x \in Queues, q_rewind(x) \/ q_rewind_c2000(x)
      PROVE  [F!Next]_All
  BY <1>1, <1>7, MapsToRewind
<1>8. ASSUME NEW x \in Queues, NEW y \in Queues \ {x}, q_movedata(y, x) \/ buffers_swap(x, y)
      PROVE  [F!Next]_All
  BY <1>1, <1>8, MapsToMove, MapsToSwap
<1>9. QED
  BY <1>2, <1>3, <1>4, <1>5, <1>6, <1>7, <1>8 DEF Next

(* Bytes come out of a queue as they went in, in order, none lost or twice,  *)
(* through rewinds, moves and swaps, provided queues are rewound only onto   *)
(* space that their unread bytes do not reach.                               *)
THEOREM FirstInFirstOut == RewindApart = TRUE /\ Spec => FifoSpec
<1> DEFINE Inv == RewindApart = TRUE /\ QInv
<1>1. RewindApart = TRUE /\ Init => Inv
  BY QueueAssumption DEF Init, QInv, QType, MType, Emptied, Cursors, Place
<1>2. Inv /\ [Next]_vars => Inv'
  BY TypeStep DEF QInv
<1>3. Init => F!Init
  <2>1. ASSUME Init, NEW x \in Queues
        PROVE  Content(x) = <<>>
    <3>1. QType /\ MType
      BY <2>1, QueueAssumption DEF Init, QType, MType, Emptied, Cursors, Place
    <3>2. q_span(x) = 0
      BY <2>1 DEF Init, q_span, Emptied
    <3>3. Content(x) \in Seq(Byte) /\ Len(Content(x)) = 0
      BY <3>1, <3>2, ContentIs DEF ContentFacts
    <3>4. QED
      BY <3>3, EmptySeq
  <2>2. QED
    BY <2>1 DEF F!Init, Content
<1>4. Inv /\ [Next]_vars => [F!Next]_All
  BY MapsStep
<1> HIDE DEF Inv
<1>5. QED
  BY <1>1, <1>2, <1>3, <1>4, PTL DEF Spec, FifoSpec, F!Spec, All, Content
=============================================================================
