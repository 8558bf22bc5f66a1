----------------------------- MODULE AlpFileProofs ---------------------------
(* Theorems of module AlpFile, for any files, modes, items and rooms that    *)
(* satisfy AlpFileAssumption, and messages of any number of items.           *)
EXTENDS AlpFile, WellFoundedInduction, TLAPS

-----------------------------------------------------------------------------
(* Where the items of a message start.                                       *)

LEMMA LeastNumber ==
  ASSUME NEW S, S \subseteq Nat, S # {}
  PROVE  \E i \in S : \A j \in S : i <= j
<1> DEFINE R == OpToRel(<, Nat)
<1>1. \A i, j \in Nat : <<j, i>> \in R <=> j < i
  BY DEF OpToRel
<1>2. IsWellFoundedOn(R, Nat)
  BY NatLessThanWellFounded
<1> HIDE DEF R
<1>3. PICK i \in S : \A j \in S : ~(<<j, i>> \in R)
  BY <1>2, WFMin
<1>4. ASSUME NEW j \in S
      PROVE  i <= j
  <2>1. i \in Nat /\ j \in Nat
    OBVIOUS
  <2>2. ~(j < i)
    BY <1>1, <1>3, <2>1, Zenon
  <2>3. QED
    BY <2>1, <2>2
<1>5. QED
  BY <1>4

LEMMA SameFunction ==
  ASSUME NEW D, NEW s, NEW t, s = [k \in D |-> s[k]], t = [k \in D |-> t[k]],
         \A k \in D : s[k] = t[k]
  PROVE  s = t
OBVIOUS

(* The sums of the widths w, up to that of item m.                           *)
Sums(w, s, m) ==
  /\ s \in [1..(m + 1) -> Nat]
  /\ s[1] = 0 /\ \A i \in 1..m : s[i + 1] = s[i] + w[i]

LEMMA SumsExist ==
  ASSUME NEW n \in Nat, NEW w \in [1..n -> Nat]
  PROVE  \E s : Sums(w, s, n)
<1> DEFINE T == {m \in 0..n : ~\E s : Sums(w, s, m)}
<1>1. SUFFICES ASSUME T # {} PROVE FALSE
  <2>1. n \in 0..n
    OBVIOUS
  <2>2. QED
    BY <2>1
<1>2. T \subseteq Nat
  OBVIOUS
<1> HIDE DEF T
<1>3. PICK m \in T : \A j \in T : m <= j
  BY <1>1, <1>2, LeastNumber
<1>4. m \in 0..n /\ ~\E s : Sums(w, s, m)
  BY DEF T
<1>5. m # 0
  <2>1. Sums(w, [i \in 1..1 |-> 0], 0)
    BY DEF Sums
  <2>2. QED
    BY <1>4, <2>1
<1>6. PICK s : Sums(w, s, m - 1)
  <2>1. m - 1 \in 0..n /\ ~(m <= m - 1)
    BY <1>4, <1>5
  <2>2. m - 1 \notin T
    BY <1>3, <2>1
  <2>3. QED
    BY <2>1, <2>2 DEF T
<1>7. /\ s \in [1..m -> Nat] /\ s[1] = 0
      /\ \A i \in 1..(m - 1) : s[i + 1] = s[i] + w[i]
  <2>1. (m - 1) + 1 = m
    BY <1>4
  <2>2. QED
    BY <1>6, <2>1 DEF Sums
<1> DEFINE t == [i \in 1..(m + 1) |-> IF i <= m THEN s[i] ELSE s[m] + w[m]]
<1>8. m \in Nat /\ 1 <= m /\ m \in 1..n /\ m \in 1..m /\ w[m] \in Nat /\ s[m] \in Nat
  BY <1>4, <1>5, <1>7
<1>9. t \in [1..(m + 1) -> Nat] /\ t[1] = 0
  BY <1>7, <1>8
<1>10. ASSUME NEW i \in 1..m
       PROVE  t[i + 1] = t[i] + w[i]
  <2>1. CASE i = m
    BY <1>8, <2>1
  <2>2. CASE i # m
    <3>1. i \in 1..(m - 1) /\ i + 1 <= m /\ i <= m /\ i + 1 \in 1..(m + 1) /\ i \in 1..(m + 1)
      BY <1>8, <2>2
    <3>2. QED
      BY <1>7, <3>1
  <2>3. QED
    BY <2>1, <2>2
<1>11. Sums(w, t, m)
  BY <1>9, <1>10 DEF Sums
<1>12. QED
  BY <1>4, <1>11

(* What an item is, and that each has at least one byte.                     *)
LEMMA ItemIs ==
  ASSUME NEW it \in Item
  PROVE  /\ it.file \in Id /\ it.offset \in Nat /\ it.mode \in Modes
         /\ it.span \in Nat /\ it.span < U16Mod
<1>1. it.file \in Id /\ it.offset \in Nat /\ it.span \in 0..(U16Mod - 1) /\ it.mode \in Modes
  BY AlpFileAssumption
<1>2. U16Mod \in Nat
  BY DEF U16Mod
<1>3. QED
  BY <1>1, <1>2

LEMMA WidthIs ==
  ASSUME NEW cmd \in Command, NEW it \in Item
  PROVE  Width(cmd, it) \in Nat \ {0}
<1>1. it.span \in Nat
  BY ItemIs
<1>2. \/ Width(cmd, it) = 5 + it.span \/ Width(cmd, it) \in {1, 2, 5, 6}
  BY DEF Width
<1>3. QED
  BY <1>1, <1>2

(* The first item starts at the header, and each one behind the last.        *)
LEMMA StartsAre ==
  ASSUME NEW cmd \in Command, NEW items \in Seq(Item)
  PROVE  /\ Start(cmd, items, 1) = 0
         /\ \A i \in 1..Len(items) :
              Start(cmd, items, i + 1) = Start(cmd, items, i) + Width(cmd, items[i])
         /\ \A i \in 1..(Len(items) + 1) : Start(cmd, items, i) \in Nat
<1> DEFINE n == Len(items)
           w == [i \in 1..n |-> Width(cmd, items[i])]
           Is(s) == s = [k \in 1..(n + 1) |-> IF k = 1 THEN 0 ELSE s[k - 1] + Width(cmd, items[k - 1])]
           start == CHOOSE s : Is(s)
<1>1. n \in Nat /\ \A i \in 1..n : items[i] \in Item
  OBVIOUS
<1>2. w \in [1..n -> Nat]
  BY <1>1, WidthIs
<1> HIDE DEF n
<1>3. PICK s : Sums(w, s, n)
  <2> HIDE DEF w
  <2>1. QED
    BY <1>1, <1>2, SumsExist
<1>4. Is(s)
  <2> DEFINE r == [k \in 1..(n + 1) |-> IF k = 1 THEN 0 ELSE s[k - 1] + Width(cmd, items[k - 1])]
  <2>1. s \in [1..(n + 1) -> Nat] /\ s[1] = 0 /\ \A i \in 1..n : s[i + 1] = s[i] + w[i]
    BY <1>3 DEF Sums
  <2>2. ASSUME NEW k \in 1..(n + 1)
        PROVE  s[k] = r[k]
    <3>1. CASE k = 1
      BY <2>1, <3>1
    <3>2. CASE k # 1
      <4>1. k - 1 \in 1..n /\ (k - 1) + 1 = k
        BY <1>1, <3>2
      <4>2. s[(k - 1) + 1] = s[k - 1] + w[k - 1] /\ w[k - 1] = Width(cmd, items[k - 1])
        BY <2>1, <4>1
      <4>3. QED
        BY <3>2, <4>1, <4>2
    <3>3. QED
      BY <3>1, <3>2
  <2> HIDE DEF r
  <2>3. s = r
    <3>1. r = [k \in 1..(n + 1) |-> r[k]]
      BY DEF r
    <3>2. s = [k \in 1..(n + 1) |-> s[k]]
      BY <2>1
    <3>3. QED
      BY <2>2, <3>1, <3>2, SameFunction
  <2>4. QED
    BY <2>3 DEF r
<1>5. Is(start)
  <2> HIDE DEF Is
  <2>1. QED
    BY <1>4
<1>6. \A i : Start(cmd, items, i) = start[i]
  BY DEF Start, n
<1> HIDE DEF start
<1>7. start[1] = 0 /\ \A k \in 1..(n + 1) : k # 1 => start[k] = start[k - 1] + Width(cmd, items[k - 1])
  BY <1>1, <1>5
<1>8. \A i \in 1..n : start[i + 1] = start[i] + Width(cmd, items[i])
  <2>1. \A i \in 1..n : i + 1 \in 1..(n + 1) /\ i + 1 # 1 /\ (i + 1) - 1 = i
    BY <1>1
  <2>2. QED
    BY <1>7, <2>1
<1>9. \A k \in 1..(n + 1) : start[k] \in Nat
  <2> DEFINE T == {k \in 1..(n + 1) : start[k] \notin Nat}
  <2>1. SUFFICES ASSUME T # {} PROVE FALSE
    OBVIOUS
  <2>2. T \subseteq Nat
    BY <1>1
  <2> HIDE DEF T
  <2>3. PICK k \in T : \A j \in T : k <= j
    BY <2>1, <2>2, LeastNumber
  <2>4. k \in 1..(n + 1) /\ start[k] \notin Nat
    BY DEF T
  <2>5. k # 1
    BY <1>7, <2>4
  <2>6. k - 1 \in 1..n /\ k - 1 \in 1..(n + 1) /\ ~(k <= k - 1)
    BY <1>1, <2>4, <2>5
  <2>7. start[k - 1] \in Nat
    BY <2>3, <2>6 DEF T
  <2>8. start[k] = start[k - 1] + Width(cmd, items[k - 1]) /\ Width(cmd, items[k - 1]) \in Nat
    BY <1>1, <1>7, <2>4, <2>5, <2>6, WidthIs
  <2>9. QED
    BY <2>4, <2>7, <2>8
<1>10. QED
  BY <1>6, <1>7, <1>8, <1>9 DEF n

(* So no two items start at one place, and the end is behind them all.       *)
LEMMA StartsGrow ==
  ASSUME NEW cmd \in Command, NEW items \in Seq(Item),
         NEW i \in 1..(Len(items) + 1), NEW j \in 1..(Len(items) + 1), i < j
  PROVE  Start(cmd, items, i) < Start(cmd, items, j)
<1> DEFINE n == Len(items)
           s(k) == Start(cmd, items, k)
           T == {k \in 1..(n + 1) : i < k /\ ~(s(i) < s(k))}
<1>1. n \in Nat /\ \A k \in 1..n : items[k] \in Item
  OBVIOUS
<1>2. /\ \A k \in 1..n : s(k + 1) = s(k) + Width(cmd, items[k])
      /\ \A k \in 1..(n + 1) : s(k) \in Nat
  BY StartsAre
<1>3. \A k \in 1..n : s(k) < s(k + 1)
  <2> TAKE k \in 1..n
  <2>1. Width(cmd, items[k]) \in Nat \ {0} /\ s(k + 1) = s(k) + Width(cmd, items[k])
    BY <1>1, <1>2, WidthIs
  <2>2. k \in 1..(n + 1)
    BY <1>1
  <2>3. s(k) \in Nat
    BY <1>2, <2>2
  <2> HIDE DEF s
  <2>4. QED
    BY <2>1, <2>3
<1> HIDE DEF s, n
<1>4. i \in 1..(n + 1) /\ j \in 1..(n + 1)
  BY DEF n
<1>5. SUFFICES ASSUME T # {} PROVE FALSE
  BY <1>4 DEF T, s
<1>6. T \subseteq Nat
  BY <1>1
<1> HIDE DEF T
<1>7. PICK k \in T : \A l \in T : k <= l
  BY <1>5, <1>6, LeastNumber
<1>8. k \in 1..(n + 1) /\ i < k /\ ~(s(i) < s(k))
  BY DEF T
<1>9. k - 1 \in 1..n /\ k - 1 \in 1..(n + 1) /\ ~(k <= k - 1) /\ (k - 1) + 1 = k
      /\ (i = k - 1 \/ i < k - 1)
  BY <1>1, <1>4, <1>8
<1>10. s(k - 1) < s(k)
  BY <1>3, <1>9
<1>11. s(i) \in Nat /\ s(k - 1) \in Nat /\ s(k) \in Nat
  BY <1>2, <1>4, <1>8, <1>9
<1>12. CASE i = k - 1
  BY <1>8, <1>10, <1>12
<1>13. CASE i < k - 1
  <2>1. k - 1 \notin T
    BY <1>7, <1>9
  <2>2. s(i) < s(k - 1)
    BY <1>9, <1>13, <2>1 DEF T
  <2>3. QED
    BY <1>8, <1>10, <1>11, <2>2
<1>14. QED
  BY <1>9, <1>12, <1>13

-----------------------------------------------------------------------------
(* Types.  The output queue never overflows, and no file outgrows its        *)
(* allocation by more than the second byte of its last word.                 *)

LEMMA JobIs ==
  ASSUME NEW j \in Job
  PROVE  /\ j.cmd \in Command /\ j.respond \in BOOLEAN /\ j.su \in BOOLEAN /\ j.items \in Seq(Item)
         /\ j.left \in Int /\ j.got \in Nat /\ j.room \in Nat /\ j.put \in Nat /\ j.data_out \in Nat
         /\ j.mod \in SUBSET Right /\ j.fp \in Id /\ j.opened \in SUBSET File
         /\ j.failed \in BOOLEAN /\ j.cut \in BOOLEAN
BY AlpFileAssumption DEF Job

LEMMA OutIs ==
  ASSUME NEW j \in Job, NEW n \in Nat
  PROVE  /\ Out(j, n) \in Job
         /\ Out(j, n) = [j EXCEPT !.put = j.put + n, !.data_out = j.data_out + n]
<1>1. j.put + n \in Nat /\ j.data_out + n \in Nat
  BY JobIs
<1>2. Out(j, n) \in Job
  BY <1>1 DEF Out, Job
<1>3. QED
  BY <1>2 DEF Out

LEMMA TakeIs ==
  ASSUME NEW j \in Job, NEW n \in Nat
  PROVE  /\ Take(j, n) \in Job
         /\ Take(j, n) = [j EXCEPT !.left = j.left - n, !.got = j.got + n]
<1>1. j.left - n \in Int /\ j.got + n \in Nat
  BY JobIs
<1>2. Take(j, n) \in Job
  BY <1>1 DEF Take, Job
<1>3. QED
  BY <1>2 DEF Take

LEMMA WordsAre ==
  ASSUME NEW n \in Int
  PROVE  Words(n) \in Nat /\ 2 * Words(n) <= (IF n > 0 THEN n + 1 ELSE 0)
         /\ (n > 0 => 2 * Words(n) >= n)
BY DEF Words

LEMMA SmallerIs ==
  ASSUME NEW a \in Int, NEW b \in Int
  PROVE  Smaller(a, b) \in {a, b} /\ Smaller(a, b) <= a /\ Smaller(a, b) <= b
BY DEF Smaller

LEMMA U16Is ==
  ASSUME NEW n \in Int
  PROVE  U16(n) \in Nat /\ (n \in Nat /\ n < U16Mod => U16(n) = n)
BY DEF U16, U16Mod

LEMMA SizeIs ==
  ASSUME NEW j \in Job
  PROVE  Size(j) \in Nat
<1>1. j.cmd \in Command /\ j.items \in Seq(Item) /\ Len(j.items) + 1 \in 1..(Len(j.items) + 1)
  BY JobIs
<1>2. QED
  BY <1>1, StartsAre DEF Size

(* What the loop finds is an item, and one of the message where one starts.  *)
LEMMA ParsedIs ==
  ASSUME NEW j \in Job
  PROVE  Parsed(j) \subseteq Item
<1>1. \A i \in 1..Len(j.items) : j.items[i] \in Item
  BY JobIs
<1>2. QED
  BY <1>1 DEF Parsed, Starts

LEMMA AllocIs ==
  ASSUME NEW f \in File
  PROVE  Alloc[f] \in Nat
BY AlpFileAssumption

(* A job that goes on, its message and what it has done with it the same.    *)
Same(j, k) ==
  /\ k.cmd = j.cmd /\ k.respond = j.respond /\ k.su = j.su /\ k.items = j.items
  /\ k.room = j.room /\ k.mod = j.mod /\ k.fp = j.fp /\ k.opened = j.opened
  /\ k.failed = j.failed /\ k.cut = j.cut

(* As much is counted as is put out, and that has room.                      *)
Fits(j, k) ==
  /\ k \in Job /\ k.put <= k.room
  /\ k.put - j.put = k.data_out - j.data_out /\ k.put >= j.put

LEMMA BusyIs ==
  ASSUME TypeOK, NEW cmds, Busy(cmds)
  PROVE  /\ job \in Job /\ job.cmd \in cmds /\ job.put <= job.room
         /\ job.left \in Int /\ job.left > 0 /\ ~job.cut
         /\ job.cmd # "return" /\ (job.cmd = "headers" => job.respond)
         /\ job.cmd \notin DataCommands \cup {"actuate"}
              => NotFull(job, IF job.cmd = "headers" THEN 6 ELSE 2)
BY JobIs DEF TypeOK, Busy, Done

LEMMA PastIs ==
  ASSUME job \in Job, job.put <= job.room, NEW n \in Nat
  PROVE  /\ Past(n) = [job EXCEPT !.got = job.got + n]
         /\ Past(n) \in Job /\ Same(job, Past(n)) /\ Fits(job, Past(n))
         /\ Past(n).got = job.got + n /\ Past(n).left = job.left /\ Past(n).put = job.put
<1>1. job.got + n \in Nat
  BY JobIs
<1>2. Past(n) \in Job
  BY <1>1 DEF Past, Job
<1>3. Past(n) = [job EXCEPT !.got = job.got + n]
  BY DEF Past
<1>4. job.put \in Nat /\ job.data_out \in Nat
  BY JobIs
<1>5. Past(n).put = job.put /\ Past(n).data_out = job.data_out /\ Past(n).room = job.room
      /\ Past(n).left = job.left /\ Past(n).got = job.got + n
  BY <1>3 DEF Job
<1>6. Same(job, Past(n))
  BY <1>3 DEF Job, Same
<1>7. QED
  BY <1>2, <1>3, <1>4, <1>5, <1>6 DEF Fits

(* An item of which no file is opened.                                       *)
Left(it, o) ==
  /\ o.j = Past(5) /\ o.err = TRUE /\ o.span = it.span /\ o.over = FALSE
  /\ \/ o.fp = job.fp /\ o.length = 0
     \/ o.fp = Missing /\ o.length = 0
     \/ o.fp = it.file /\ it.file \in File /\ o.length = len[it.file]

LEMMA UnopenedIs ==
  ASSUME NEW it, NEW full \in BOOLEAN, NEW o, o = Unopened(it, full)
  PROVE  Left(it, o)
BY DEF Unopened, Outcome, Granted, Left

(* n words are written, or read and e bytes put out.                         *)
Wrote(it, o, n) ==
  LET words == Words(Smaller(it.offset + it.span, Alloc[it.file]) - it.offset)
  IN  /\ o.j = [job EXCEPT !.got = job.got + (5 + 2 * n), !.left = job.left - 2 * n]
      /\ o.span = U16(it.span - 2 * n)
      /\ n = Smaller(words, Words(Size(job) + Backlog - job.got - 5))
      /\ o.over = (n < words)

Shown(it, o, e, n) ==
  LET span == IF it.offset >= len[it.file] THEN 0 ELSE Smaller(it.span, len[it.file] - it.offset)
  IN  /\ o.j = Out(Past(5), e) /\ e < Space(job)
      /\ span \in Nat /\ n <= Words(span)
      /\ o.span = U16(span - 2 * n) /\ o.over = (n < Words(span))

(* An item that is written.                                                  *)
LEMMA WrittenIs ==
  ASSUME TypeOK, Busy(DataCommands), NEW it \in Item, it.file \in File, NEW o, o = Written(it)
  PROVE  /\ o.fp = it.file /\ o.err = (it.offset + it.span > Alloc[it.file])
         /\ o.length \in Nat /\ o.length <= Alloc[it.file] + 1
         /\ job.cmd # "overwrite" => o.length >= len[it.file]
         /\ \E n \in Nat : Wrote(it, o, n)
<1> DEFINE f == it.file
           limit == Smaller(it.offset + it.span, Alloc[f])
           old == IF job.cmd = "overwrite" THEN 0 ELSE len[f]
           words == Words(limit - it.offset)
           more == Words(Size(job) + Backlog - job.got - 5)
           n == Smaller(words, more)
           length == IF n > 0 /\ it.offset + 2 * (n - 1) >= old THEN it.offset + 2 * n ELSE old
<1>1. job \in Job /\ job.got \in Nat /\ job.left \in Int
  BY BusyIs, JobIs
<1>2. /\ it.offset \in Nat /\ it.span \in Nat /\ Alloc[f] \in Nat
      /\ len[f] \in Nat /\ len[f] <= Alloc[f] + 1
  BY ItemIs, AllocIs DEF TypeOK
<1>3. limit \in Int /\ limit <= Alloc[f] /\ limit <= it.offset + it.span
  BY <1>2, SmallerIs
<1>4. Size(job) + Backlog - job.got - 5 \in Int
  BY <1>1, SizeIs, AlpFileAssumption
<1> HIDE DEF f, limit
<1>5. words \in Nat /\ 2 * words <= (IF limit - it.offset > 0 THEN limit - it.offset + 1 ELSE 0)
  <2>1. limit - it.offset \in Int
    BY <1>2, <1>3
  <2>2. QED
    BY <2>1, WordsAre
<1>6. more \in Nat
  BY <1>4, WordsAre
<1> HIDE DEF words, more
<1>7. n \in Nat /\ n <= words
  BY <1>5, <1>6, SmallerIs
<1> HIDE DEF n
<1>8. old \in Nat /\ old <= Alloc[f] + 1 /\ (job.cmd # "overwrite" => old = len[f])
  BY <1>2
<1> HIDE DEF old
<1>9. length \in Nat /\ length <= Alloc[f] + 1 /\ length >= old
  <2>1. CASE n > 0 /\ it.offset + 2 * (n - 1) >= old
    <3>1. limit - it.offset > 0 /\ 2 * n <= limit - it.offset + 1
      BY <1>2, <1>3, <1>5, <1>7, <2>1
    <3>2. length = it.offset + 2 * n
      BY <2>1
    <3> HIDE DEF length
    <3>3. QED
      BY <1>2, <1>3, <1>7, <1>8, <2>1, <3>1, <3>2
  <2>2. CASE ~(n > 0 /\ it.offset + 2 * (n - 1) >= old)
    BY <1>8, <2>2
  <2>3. QED
    BY <2>1, <2>2
<1> HIDE DEF length
<1>10. o = Outcome(f, length, [Past(5 + 2 * n) EXCEPT !.left = @ - 2 * n],
                   it.offset + it.span > Alloc[f], U16(it.span - 2 * n), n < words)
  BY DEF Written, f, length, n, words, more, limit, old
<1>11. [Past(5 + 2 * n) EXCEPT !.left = @ - 2 * n]
         = [job EXCEPT !.got = job.got + (5 + 2 * n), !.left = job.left - 2 * n]
  BY <1>1 DEF Past, Job
<1>12. /\ o.fp = f /\ o.length = length /\ o.err = (it.offset + it.span > Alloc[f])
       /\ o.j = [Past(5 + 2 * n) EXCEPT !.left = @ - 2 * n]
       /\ o.span = U16(it.span - 2 * n) /\ o.over = (n < words)
  BY <1>10 DEF Outcome
<1>13. o.length >= len[f] \/ job.cmd = "overwrite"
  BY <1>8, <1>9, <1>12
<1>14. Wrote(it, o, n)
  BY <1>11, <1>12 DEF Wrote, f, limit, n, words, more
<1>15. QED
  BY <1>7, <1>9, <1>12, <1>13, <1>14 DEF f

(* An item that is read: nothing is put out, or less than there is room for. *)
LEMMA ReadOutIs ==
  ASSUME TypeOK, Busy(DataCommands), NEW it \in Item, it.file \in File, NEW o, o = ReadOut(it)
  PROVE  /\ o.fp = it.file /\ o.err = FALSE /\ o.length = len[it.file] /\ o.span \in Nat
         /\ \/ o.j = Past(5) /\ o.over = TRUE /\ o.span = it.span
            \/ \E e \in Nat, n \in Nat : Shown(it, o, e, n)
<1> DEFINE f == it.file
           overhead == IF job.cmd = "both" THEN 10 ELSE 5
           span == IF it.offset >= len[f] THEN 0 ELSE Smaller(it.span, len[f] - it.offset)
           words == Words(span)
           half == (Space(job) - overhead - 1) \div 2
           n == Smaller(words, half)
<1>1. /\ it.offset \in Nat /\ it.span \in Nat /\ len[f] \in Nat
  BY ItemIs DEF TypeOK
<1>2. Space(job) \in Nat /\ overhead \in Nat
  BY BusyIs, JobIs DEF Space
<1>3. span \in Nat
  BY <1>1, SmallerIs
<1>4. CASE overhead >= Space(job)
  <2>1. o = Outcome(f, len[f], Past(5), FALSE, it.span, TRUE)
    BY <1>4 DEF ReadOut
  <2>2. QED
    BY <1>1, <2>1 DEF Outcome
<1>5. CASE ~(overhead >= Space(job))
  <2>1. o = Outcome(f, len[f], Out(Past(5), overhead + 2 * n), FALSE, U16(span - 2 * n), n < Words(span))
    BY <1>5 DEF ReadOut
  <2> HIDE DEF span, f, overhead
  <2>2. words \in Nat
    BY <1>3, WordsAre
  <2>3. half \in Nat /\ 2 * half <= Space(job) - overhead - 1
    BY <1>2, <1>5
  <2> HIDE DEF half, words
  <2>4. n \in Nat /\ n <= words /\ n <= half
    BY <2>2, <2>3, SmallerIs
  <2> HIDE DEF n
  <2>5. overhead + 2 * n \in Nat /\ overhead + 2 * n < Space(job)
    BY <1>2, <2>3, <2>4
  <2>6. span - 2 * n \in Int
    BY <1>3, <2>4
  <2>7. U16(span - 2 * n) \in Nat
    BY <2>6, U16Is
  <2>8. /\ o.fp = f /\ o.err = FALSE /\ o.length = len[f] /\ o.span = U16(span - 2 * n)
        /\ o.j = Out(Past(5), overhead + 2 * n) /\ o.over = (n < Words(span))
    BY <2>1 DEF Outcome
  <2>9. Shown(it, o, overhead + 2 * n, n)
    BY <1>3, <2>4, <2>5, <2>8 DEF Shown, f, span, words
  <2>10. QED
    BY <2>4, <2>5, <2>7, <2>8, <2>9 DEF f
<1>6. QED
  BY <1>4, <1>5

LEMMA TreatedIs ==
  ASSUME TypeOK, Busy(DataCommands), NEW it \in Item, NEW full \in BOOLEAN,
         NEW o, o = Treated(it, full)
  PROVE  /\ Same(job, o.j) /\ Fits(job, o.j)
         /\ o.fp \in Id /\ o.length \in Nat /\ o.span \in Nat
         /\ o.fp \in File => o.length <= Alloc[o.fp] + 1
         /\ o.err \in BOOLEAN /\ o.over \in BOOLEAN
<1>1. job \in Job /\ job.put <= job.room /\ job.put \in Nat /\ job.room \in Nat /\ job.got \in Nat
      /\ job.left \in Int /\ job.data_out \in Nat
  BY BusyIs, JobIs
<1>2. Same(job, Past(5)) /\ Fits(job, Past(5)) /\ Past(5) \in Job /\ Past(5).put = job.put
  BY <1>1, PastIs
<1>3. CASE Treated(it, full) = Unopened(it, full)
  <2>1. /\ o.j = Past(5) /\ o.err = TRUE /\ o.span = it.span /\ o.over = FALSE
        /\ \/ o.fp = job.fp /\ o.length = 0
           \/ o.fp = Missing /\ o.length = 0
           \/ o.fp = it.file /\ it.file \in File /\ o.length = len[it.file]
    <3>1. Left(it, o)
      BY <1>3, UnopenedIs
    <3>2. QED
      BY <3>1 DEF Left
  <2>2. it.span \in Nat /\ job.fp \in Id /\ Missing \in Id
    BY <1>1, ItemIs, JobIs DEF Id
  <2>3. \A f \in File : len[f] \in Nat /\ len[f] <= Alloc[f] + 1 /\ Alloc[f] \in Nat /\ f \in Id
    BY AllocIs DEF TypeOK, Id
  <2>4. o.fp \in Id /\ o.length \in Nat /\ (o.fp \in File => o.length <= Alloc[o.fp] + 1)
    BY <2>1, <2>2, <2>3
  <2>5. QED
    BY <1>2, <2>1, <2>2, <2>4
<1>4. CASE Treated(it, full) = Written(it) /\ it.file \in File
  <2>1. /\ o.fp = it.file /\ o.err = (it.offset + it.span > Alloc[it.file])
        /\ o.length \in Nat /\ o.length <= Alloc[it.file] + 1
    BY <1>4, WrittenIs
  <2>2. PICK n \in Nat : Wrote(it, o, n)
    BY <1>4, WrittenIs
  <2>3. /\ o.j = [job EXCEPT !.got = job.got + (5 + 2 * n), !.left = job.left - 2 * n]
        /\ o.span = U16(it.span - 2 * n) /\ o.over \in BOOLEAN
    BY <2>2 DEF Wrote
  <2>4. it.span - 2 * n \in Int
    BY ItemIs
  <2>5. o.span \in Nat
    BY <2>3, <2>4, U16Is
  <2>6. job.got + (5 + 2 * n) \in Nat /\ job.left - 2 * n \in Int
    BY <1>1
  <2>7. Same(job, o.j)
    BY <1>1, <2>3 DEF Job, Same
  <2>8. o.j \in Job
    BY <1>1, <2>3, <2>6 DEF Job
  <2>9. Fits(job, o.j)
    <3>1. o.j.put = job.put /\ o.j.data_out = job.data_out /\ o.j.room = job.room
      BY <1>1, <2>3 DEF Job
    <3>2. QED
      BY <1>1, <2>8, <3>1 DEF Fits
  <2>10. o.fp \in Id
    BY <1>4, <2>1 DEF Id
  <2>11. o.err \in BOOLEAN /\ o.over \in BOOLEAN
    BY <2>1, <2>3
  <2>12. QED
    BY <2>1, <2>5, <2>7, <2>9, <2>10, <2>11
<1>5. CASE Treated(it, full) = ReadOut(it) /\ it.file \in File
  <2>1. /\ o.fp = it.file /\ o.err = FALSE /\ o.length = len[it.file] /\ o.span \in Nat
        /\ \/ o.j = Past(5) /\ o.over = TRUE
           \/ \E e \in Nat : o.j = Out(Past(5), e) /\ e < Space(job) /\ o.over \in BOOLEAN
    <3>1. CASE \E e \in Nat, n \in Nat : Shown(it, o, e, n)
      <4>1. PICK e \in Nat, n \in Nat : Shown(it, o, e, n)
        BY <3>1
      <4>2. o.j = Out(Past(5), e) /\ e < Space(job) /\ o.over \in BOOLEAN
        BY <4>1 DEF Shown
      <4>3. QED
        BY <1>5, <4>2, ReadOutIs
    <3>2. QED
      BY <1>5, <3>1, ReadOutIs
  <2>2. o.fp \in Id /\ o.length \in Nat /\ o.length <= Alloc[o.fp] + 1
    BY <1>5, <2>1 DEF TypeOK, Id
  <2>3. ASSUME NEW e \in Nat, o.j = Out(Past(5), e), e < Space(job)
        PROVE  Same(job, o.j) /\ Fits(job, o.j)
    <3>1. /\ Out(Past(5), e) \in Job
          /\ Out(Past(5), e) = [Past(5) EXCEPT !.put = Past(5).put + e, !.data_out = Past(5).data_out + e]
      BY <1>2, OutIs
    <3>2. Same(job, Out(Past(5), e))
      BY <1>2, <3>1 DEF Same, Job
    <3>3. Past(5).data_out = job.data_out /\ Past(5).room = job.room
      BY <1>1, PastIs DEF Job
    <3>4. /\ Out(Past(5), e).put = job.put + e /\ Out(Past(5), e).data_out = job.data_out + e
          /\ Out(Past(5), e).room = job.room
      BY <1>2, <3>1, <3>3 DEF Job
    <3>5. job.put + e <= job.room
      BY <1>1, <2>3 DEF Space
    <3>6. QED
      BY <1>1, <2>3, <3>1, <3>2, <3>4, <3>5 DEF Fits
  <2>4. Same(job, o.j) /\ Fits(job, o.j)
    BY <1>2, <2>1, <2>3
  <2>5. o.over \in BOOLEAN
    BY <2>1
  <2>6. QED
    BY <2>1, <2>2, <2>4, <2>5
<1>6. QED
  BY <1>3, <1>4, <1>5 DEF Treated, Granted

LEMMA JobWith ==
  ASSUME NEW j \in Job, NEW p \in Nat, NEW z \in Int
  PROVE  [j EXCEPT !.put = p, !.left = z] \in Job
BY DEF Job

(* What an item adds to the output, and what it takes from the input.        *)
Reply(k, writes, err, span, r) ==
  /\ r \in Job /\ r.put <= r.room /\ Same(k, r)
  /\ IF ~k.respond \/ ~(writes \/ err)
       THEN /\ r.left = k.left - 5 - span /\ r.got = k.got
            /\ r.put = k.put /\ r.data_out = k.data_out
       ELSE /\ r.got = k.got + span /\ r.data_out = k.data_out + 2
            /\ IF writes THEN r.left = k.left - 5 - span /\ r.put = k.put + 2
                         ELSE r.left = 0 - 5 - span /\ r.put = 2

LEMMA RepliedIs ==
  ASSUME NEW k \in Job, k.put <= k.room, NEW writes \in BOOLEAN, NEW err \in BOOLEAN,
         NEW span \in Nat, k.respond => Space(k) > 2, NEW r, r = Replied(k, writes, err, span)
  PROVE  Reply(k, writes, err, span, r)
<1> DEFINE next == [k EXCEPT !.left = @ - 5 - span]
           more == [next EXCEPT !.got = @ + span]
           moved == Out(more, 2)
<1>1. /\ k.left \in Int /\ k.got \in Nat /\ k.put \in Nat /\ k.room \in Nat /\ k.data_out \in Nat
      /\ k.respond \in BOOLEAN
  BY JobIs
<1>2. k.left - 5 - span \in Int /\ k.got + span \in Nat /\ 0 - 5 - span \in Int
  BY <1>1
<1>3. next = [k EXCEPT !.left = k.left - 5 - span] /\ next \in Job
  BY <1>2 DEF Job
<1>4. more = [next EXCEPT !.got = k.got + span] /\ more \in Job
  BY <1>2, <1>3 DEF Job
<1>5. /\ next.left = k.left - 5 - span /\ next.got = k.got /\ next.put = k.put
      /\ next.data_out = k.data_out /\ next.room = k.room /\ Same(k, next)
  BY <1>3 DEF Job, Same
<1> HIDE DEF next
<1>6. /\ more.left = k.left - 5 - span /\ more.got = k.got + span /\ more.put = k.put
      /\ more.data_out = k.data_out /\ more.room = k.room /\ Same(k, more)
  BY <1>3, <1>4, <1>5 DEF Job, Same
<1> HIDE DEF more
<1>7. moved \in Job /\ moved = [more EXCEPT !.put = more.put + 2, !.data_out = more.data_out + 2]
  BY <1>4, OutIs
<1>8. /\ moved.left = k.left - 5 - span /\ moved.got = k.got + span /\ moved.put = k.put + 2
      /\ moved.data_out = k.data_out + 2 /\ moved.room = k.room /\ Same(k, moved)
  <2>1. more \in Job
    BY <1>4
  <2>2. moved = [more EXCEPT !.put = k.put + 2, !.data_out = k.data_out + 2]
    BY <1>6, <1>7
  <2> HIDE DEF moved
  <2>3. /\ moved.left = more.left /\ moved.got = more.got /\ moved.put = k.put + 2
        /\ moved.data_out = k.data_out + 2 /\ moved.room = more.room /\ Same(more, moved)
    BY <2>1, <2>2 DEF Job, Same
  <2>4. QED
    BY <1>6, <2>3 DEF Same
<1> HIDE DEF moved
<1>9. CASE ~k.respond \/ ~(writes \/ err)
  <2>1. r = next
    BY <1>9 DEF Replied, next
  <2>2. QED
    BY <1>3, <1>5, <1>9, <2>1 DEF Reply
<1>10. CASE k.respond /\ writes
  <2>1. r = moved
    BY <1>10 DEF Replied, moved, more, next
  <2>2. k.put + 2 <= k.room
    BY <1>1, <1>10 DEF Space
  <2>3. QED
    BY <1>7, <1>8, <1>10, <2>1, <2>2 DEF Reply
<1>11. CASE k.respond /\ ~writes /\ err
  <2>1. r = [moved EXCEPT !.put = 2, !.left = 0 - 5 - span]
    BY <1>11 DEF Replied, moved, more, next
  <2>2. moved \in Job
    BY <1>7
  <2>3. r \in Job
    <3>1. PICK z \in Int : z = 0 - 5 - span
      BY <1>2
    <3>2. r = [moved EXCEPT !.put = 2, !.left = z]
      BY <2>1, <3>1
    <3>3. 2 \in Nat
      OBVIOUS
    <3>4. [moved EXCEPT !.put = 2, !.left = z] \in Job
      BY <2>2, <3>3, JobWith, Zenon
    <3>5. QED
      BY <3>2, <3>4, Zenon
  <2>4. /\ r.put = 2 /\ r.left = 0 - 5 - span /\ r.got = moved.got
        /\ r.data_out = moved.data_out /\ r.room = moved.room /\ Same(moved, r)
    BY <2>2, <2>1 DEF Job, Same
  <2>5. 2 <= k.room
    BY <1>1, <1>11 DEF Space
  <2>6. Same(k, r)
    BY <1>8, <2>4 DEF Same
  <2>7. QED
    BY <1>8, <1>11, <2>3, <2>4, <2>5, <2>6 DEF Reply
<1>12. QED
  BY <1>1, <1>9, <1>10, <1>11

-----------------------------------------------------------------------------
(* What each action makes of the message.  Kept: what no item changes but    *)
(* those that open files.                                                    *)
Kept(j, k) ==
  /\ k.cmd = j.cmd /\ k.respond = j.respond /\ k.su = j.su /\ k.items = j.items
  /\ k.room = j.room

Closed(j, k) == Kept(j, k) /\ k.fp = j.fp /\ k.opened = j.opened /\ k.cut = j.cut

(* n bytes are taken, and e put out.                                         *)
Moved(j, k, n, e) ==
  /\ k \in Job /\ k.left = j.left - n /\ k.got = j.got + n
  /\ k.put = j.put + e /\ k.data_out = j.data_out + e

LEMMA TakenIs ==
  ASSUME NEW j \in Job, NEW n \in Nat
  PROVE  Moved(j, Take(j, n), n, 0) /\ Same(j, Take(j, n))
<1> DEFINE k == Take(j, n)
<1>1. k \in Job /\ k = [j EXCEPT !.left = j.left - n, !.got = j.got + n]
  BY TakeIs
<1>2. j.put \in Nat /\ j.data_out \in Nat
  BY JobIs
<1> HIDE DEF k
<1>3. k.left = j.left - n /\ k.got = j.got + n /\ k.put = j.put /\ k.data_out = j.data_out
  BY <1>1 DEF Job
<1>4. Same(j, k)
  BY <1>1 DEF Job, Same
<1>5. QED
  BY <1>1, <1>2, <1>3, <1>4 DEF Moved, k

LEMMA AnsweredIs ==
  ASSUME NEW j \in Job, NEW n \in Nat, NEW e \in Nat
  PROVE  Moved(j, Out(Take(j, n), e), n, e) /\ Same(j, Out(Take(j, n), e))
<1> DEFINE k == Take(j, n)
           m == Out(k, e)
<1>1. Moved(j, k, n, 0) /\ Same(j, k) /\ k \in Job
  BY TakenIs DEF Moved
<1>2. j.put \in Nat /\ j.data_out \in Nat
  BY JobIs
<1>3. k.left = j.left - n /\ k.got = j.got + n /\ k.put = j.put /\ k.data_out = j.data_out
  BY <1>1, <1>2 DEF Moved
<1> HIDE DEF k
<1>4. m \in Job /\ m = [k EXCEPT !.put = k.put + e, !.data_out = k.data_out + e]
  BY <1>1, OutIs
<1> HIDE DEF m
<1>5. m.left = k.left /\ m.got = k.got /\ m.put = k.put + e /\ m.data_out = k.data_out + e
  BY <1>1, <1>4 DEF Job
<1>6. Same(k, m)
  BY <1>1, <1>4 DEF Job, Same
<1>7. Same(j, m)
  BY <1>1, <1>6 DEF Same
<1>8. QED
  BY <1>3, <1>4, <1>5, <1>7 DEF Moved, m, k

(* The notes kept of a message: its mode word and whether an item failed.    *)
Noted(k, m, b) == [k EXCEPT !.mod = m, !.failed = b]

LEMMA NotedIs ==
  ASSUME NEW k \in Job, NEW m \in SUBSET Right, NEW b \in BOOLEAN
  PROVE  /\ Noted(k, m, b) \in Job /\ Closed(k, Noted(k, m, b))
         /\ Noted(k, m, b).mod = m /\ Noted(k, m, b).failed = b
         /\ Noted(k, m, b).left = k.left /\ Noted(k, m, b).got = k.got
         /\ Noted(k, m, b).put = k.put /\ Noted(k, m, b).data_out = k.data_out
<1>1. Noted(k, m, b) \in Job
  BY DEF Job, Noted
<1>2. Closed(k, Noted(k, m, b))
  BY DEF Job, Closed, Kept, Noted
<1>3. QED
  BY <1>1, <1>2 DEF Job, Noted

LEMMA ModeIs ==
  ASSUME TypeOK, NEW f \in File
  PROVE  mode[f] \in Modes /\ mode[f] \in SUBSET Right
BY AlpFileAssumption DEF TypeOK

(* Permissions: a change is over after one item, a reading turns into        *)
(* whatever it has read.                                                     *)
LEMMA PermsStep ==
  ASSUME TypeOK, sub_fileperms
  PROVE  /\ job \in Job /\ job.cmd \in {"perms_read", "perms_write"} /\ job.left > 0 /\ ~job.cut
         /\ job' \in Job /\ Closed(job, job') /\ job'.put <= job'.room
         /\ UNCHANGED len /\ mode' \in [File -> Modes]
         /\ \E e \in Nat : Moved(job, job', IF job.mod = {"W"} THEN 2 ELSE 1, e)
         /\ IF job.mod = {"W"} THEN job'.mod = {} /\ (job.failed => job'.failed)
            ELSE /\ job'.failed = job.failed /\ mode' = mode
                 /\ job'.mod = job.mod \/ \E f \in File : job'.mod = mode[f]
<1>1. /\ job \in Job /\ job.cmd \in {"perms_read", "perms_write"} /\ job.put <= job.room
      /\ job.left > 0 /\ ~job.cut /\ NotFull(job, 2)
  BY BusyIs DEF sub_fileperms, DataCommands, Writers
<1>2. /\ job.put \in Nat /\ job.room \in Nat /\ job.data_out \in Nat /\ job.respond \in BOOLEAN
      /\ job.failed \in BOOLEAN /\ job.mod \in SUBSET Right
  BY <1>1, JobIs
<1>3. job.respond => job.put + 2 <= job.room
  BY <1>1, <1>2 DEF NotFull, Space
<1>4. PICK it \in Parsed(job) :
      \E m \in IF Starts(job) # {} /\ job.cmd = "perms_write" THEN {it.mode} ELSE Modes :
        IF job.mod = {"W"}
          THEN /\ mode' = IF Granted(job, it.file, {"R", "W"}) THEN [mode EXCEPT ![it.file] = m] ELSE mode
               /\ job' = [(IF job.respond THEN Out(Take(job, 2), 2) ELSE Take(job, 2))
                            EXCEPT !.mod = {}, !.failed = @ \/ ~Granted(job, it.file, {"R", "W"})]
          ELSE /\ job' = IF job.respond /\ it.file \in File
                           THEN [Out(Take(job, 1), 2) EXCEPT !.mod = mode[it.file]] ELSE Take(job, 1)
               /\ UNCHANGED mode
  BY DEF sub_fileperms
<1>5. it \in Item /\ it.mode \in Modes
  BY <1>1, ParsedIs, ItemIs
<1>6. PICK m \in Modes :
        IF job.mod = {"W"}
          THEN /\ mode' = IF Granted(job, it.file, {"R", "W"}) THEN [mode EXCEPT ![it.file] = m] ELSE mode
               /\ job' = [(IF job.respond THEN Out(Take(job, 2), 2) ELSE Take(job, 2))
                            EXCEPT !.mod = {}, !.failed = @ \/ ~Granted(job, it.file, {"R", "W"})]
          ELSE /\ job' = IF job.respond /\ it.file \in File
                           THEN [Out(Take(job, 1), 2) EXCEPT !.mod = mode[it.file]] ELSE Take(job, 1)
               /\ UNCHANGED mode
  BY <1>4, <1>5
<1>7. UNCHANGED len
  BY DEF sub_fileperms
<1>8. \A n \in Nat : /\ Moved(job, Take(job, n), n, 0) /\ Same(job, Take(job, n))
                     /\ Moved(job, Out(Take(job, n), 2), n, 2) /\ Same(job, Out(Take(job, n), 2))
  BY <1>1, TakenIs, AnsweredIs
<1>9. CASE job.mod = {"W"}
  <2> DEFINE k == IF job.respond THEN Out(Take(job, 2), 2) ELSE Take(job, 2)
             e == IF job.respond THEN 2 ELSE 0
             b == k.failed \/ ~Granted(job, it.file, {"R", "W"})
  <2>1. e \in Nat /\ Moved(job, k, 2, e) /\ Same(job, k)
    BY <1>8
  <2> HIDE DEF k
  <2>2. k \in Job /\ k.put = job.put + e /\ k.room = job.room /\ k.failed = job.failed
    BY <2>1 DEF Moved, Same
  <2>3. job' = [k EXCEPT !.mod = {}, !.failed = k.failed \/ ~Granted(job, it.file, {"R", "W"})]
    BY <1>6, <1>9 DEF k
  <2>4. b \in BOOLEAN /\ (job.failed => b)
    BY <2>2
  <2>5. job' = [k EXCEPT !.mod = {}, !.failed = b]
    BY <2>3
  <2> HIDE DEF b
  <2>6. /\ job' \in Job /\ Closed(k, job') /\ job'.mod = {} /\ job'.failed = b
        /\ job'.left = k.left /\ job'.got = k.got /\ job'.put = k.put /\ job'.data_out = k.data_out
    <3>1. {} \in SUBSET Right
      OBVIOUS
    <3>2. k \in Job /\ b \in BOOLEAN
      BY <2>2, <2>4
    <3>3. job' = Noted(k, {}, b)
      BY <2>5 DEF Noted
    <3>4. QED
      BY <3>1, <3>2, <3>3, NotedIs
  <2>7. Closed(job, job')
    BY <2>1, <2>6 DEF Closed, Kept, Same
  <2>8. Moved(job, job', 2, e)
    BY <2>1, <2>6 DEF Moved
  <2>9. job'.put <= job'.room
    BY <1>2, <1>3, <1>1, <2>2, <2>6 DEF Closed, Kept
  <2>10. mode' \in [File -> Modes]
    BY <1>6, <1>9 DEF TypeOK
  <2>11. QED
    BY <1>1, <1>7, <1>9, <2>1, <2>4, <2>6, <2>7, <2>8, <2>9, <2>10
<1>10. CASE job.mod # {"W"} /\ ~(job.respond /\ it.file \in File)
  <2>1. job' = Take(job, 1) /\ mode' = mode
    BY <1>6, <1>10
  <2>2. Moved(job, job', 1, 0) /\ Same(job, job')
    BY <1>8, <2>1
  <2>3. job' \in Job /\ job'.put <= job'.room
    BY <1>1, <1>2, <2>2 DEF Moved, Same
  <2>4. QED
    BY <1>1, <1>7, <1>10, <2>1, <2>2, <2>3 DEF Closed, Kept, Same, TypeOK
<1>11. CASE job.mod # {"W"} /\ job.respond /\ it.file \in File
  <2> DEFINE k == Out(Take(job, 1), 2)
  <2>1. Moved(job, k, 1, 2) /\ Same(job, k)
    BY <1>8
  <2> HIDE DEF k
  <2>2. k \in Job /\ k.put = job.put + 2 /\ k.room = job.room /\ k.failed = job.failed
    BY <2>1 DEF Moved, Same
  <2>3. job' = [k EXCEPT !.mod = mode[it.file]] /\ mode' = mode
    BY <1>6, <1>11 DEF k
  <2>4. job' = [k EXCEPT !.mod = mode[it.file], !.failed = k.failed]
    BY <2>2, <2>3 DEF Job
  <2>5. mode[it.file] \in SUBSET Right
    BY <1>11, ModeIs
  <2>6. /\ job' \in Job /\ Closed(k, job') /\ job'.mod = mode[it.file] /\ job'.failed = job.failed
        /\ job'.left = k.left /\ job'.got = k.got /\ job'.put = k.put /\ job'.data_out = k.data_out
    <3>1. k \in Job /\ k.failed \in BOOLEAN /\ k.failed = job.failed
      BY <1>2, <2>2
    <3>2. /\ job' \in Job /\ Closed(k, job') /\ job'.mod = mode[it.file] /\ job'.failed = k.failed
          /\ job'.left = k.left /\ job'.got = k.got /\ job'.put = k.put /\ job'.data_out = k.data_out
      <4>1. job' = Noted(k, mode[it.file], k.failed)
        BY <2>4 DEF Noted
      <4>2. QED
        BY <2>5, <3>1, <4>1, NotedIs
    <3>3. QED
      BY <3>1, <3>2
  <2>7. Closed(job, job')
    BY <2>1, <2>6 DEF Closed, Kept, Same
  <2>8. Moved(job, job', 1, 2)
    BY <2>1, <2>6 DEF Moved
  <2>9. job'.put <= job'.room
    BY <1>2, <1>3, <1>11, <2>2, <2>6 DEF Closed, Kept
  <2>10. QED
    BY <1>1, <1>7, <1>11, <2>3, <2>6, <2>7, <2>8, <2>9 DEF TypeOK
<1>12. QED
  BY <1>9, <1>10, <1>11

LEMMA HeadersStep ==
  ASSUME TypeOK, sub_fileheaders
  PROVE  /\ job \in Job /\ job.cmd = "headers" /\ job.left > 0 /\ ~job.cut
         /\ job' \in Job /\ Same(job, job') /\ job'.put <= job'.room
         /\ UNCHANGED <<len, mode>>
         /\ \E e \in Nat : Moved(job, job', 1, e)
<1>1. /\ job \in Job /\ job.cmd = "headers" /\ job.put <= job.room
      /\ job.left > 0 /\ ~job.cut /\ NotFull(job, 6) /\ job.respond
  BY BusyIs DEF sub_fileheaders, DataCommands, Writers
<1>2. job.put \in Nat /\ job.room \in Nat
  BY <1>1, JobIs
<1>3. job.put + 6 <= job.room
  BY <1>1, <1>2 DEF NotFull, Space
<1>4. PICK k \in {Out(Take(job, 1), 6), Take(job, 1)} : job' = k /\ UNCHANGED <<len, mode>>
  BY DEF sub_fileheaders
<1>5. PICK e \in {0, 6} : Moved(job, k, 1, e) /\ Same(job, k)
  BY <1>1, TakenIs, AnsweredIs
<1>6. k \in Job /\ k.put <= k.room
  BY <1>1, <1>2, <1>3, <1>5 DEF Moved, Same
<1>7. QED
  BY <1>1, <1>4, <1>5, <1>6

LEMMA DeleteStep ==
  ASSUME TypeOK, sub_filedelete
  PROVE  /\ job \in Job /\ job.cmd \in {"delete", "create", "restore"} /\ job.left > 0 /\ ~job.cut
         /\ job' \in Job /\ Closed(job, job') /\ job'.put <= job'.room
         /\ job'.mod = job.mod /\ job'.failed = TRUE
         /\ UNCHANGED <<len, mode>>
         /\ \E n, e \in Nat : Moved(job, job', n, e)
<1>1. /\ job \in Job /\ job.cmd \in {"delete", "create", "restore"} /\ job.put <= job.room
      /\ job.left > 0 /\ ~job.cut /\ NotFull(job, 2)
  BY BusyIs DEF sub_filedelete, DataCommands, Writers
<1>2. job.put \in Nat /\ job.room \in Nat /\ job.data_out \in Nat /\ job.respond \in BOOLEAN
      /\ job.cmd \in Command /\ job.mod \in SUBSET Right
  BY <1>1, JobIs
<1>3. job.respond => job.put + 2 <= job.room
  BY <1>1, <1>2 DEF NotFull, Space
<1>4. PICK it \in Parsed(job) :
        LET j == [Take(job, Width(job.cmd, it)) EXCEPT !.failed = TRUE]
        IN  job' = IF j.respond THEN Out(j, 2) ELSE j
  BY DEF sub_filedelete
<1>5. Width(job.cmd, it) \in Nat /\ UNCHANGED <<len, mode>>
  BY <1>1, <1>2, ParsedIs, WidthIs DEF sub_filedelete
<1> DEFINE n == Width(job.cmd, it)
           t == Take(job, n)
           j == Noted(t, job.mod, TRUE)
<1>6. Moved(job, t, n, 0) /\ Same(job, t) /\ t \in Job
  BY <1>1, <1>5, TakenIs DEF Moved
<1>7. t.mod = job.mod
  BY <1>6 DEF Same
<1>8. [t EXCEPT !.failed = TRUE] = j
  BY <1>6, <1>7 DEF Noted, Job
<1> HIDE DEF t, n
<1>9. /\ j \in Job /\ Closed(t, j) /\ j.mod = job.mod /\ j.failed = TRUE
      /\ j.left = t.left /\ j.got = t.got /\ j.put = t.put /\ j.data_out = t.data_out
  BY <1>2, <1>6, NotedIs
<1>10. job' = IF j.respond THEN Out(j, 2) ELSE j
  BY <1>4, <1>8 DEF t, n
<1> HIDE DEF j
<1>11. Moved(job, j, n, 0) /\ Closed(job, j)
  BY <1>6, <1>9 DEF Moved, Closed, Kept, Same
<1>12. j.put = job.put /\ j.data_out = job.data_out /\ j.room = job.room /\ j.respond = job.respond
  BY <1>2, <1>11 DEF Moved, Closed, Kept
<1>13. CASE job.respond
  <2>1. job' = Out(j, 2)
    BY <1>10, <1>12, <1>13
  <2>2. /\ Out(j, 2) \in Job
        /\ Out(j, 2) = [j EXCEPT !.put = j.put + 2, !.data_out = j.data_out + 2]
    BY <1>9, OutIs
  <2> DEFINE m == Out(j, 2)
  <2> HIDE DEF m
  <2>3. m = [j EXCEPT !.put = j.put + 2, !.data_out = j.data_out + 2] /\ j \in Job
    BY <1>9, <2>2 DEF m
  <2>4. /\ m.left = j.left /\ m.got = j.got /\ m.put = j.put + 2 /\ m.data_out = j.data_out + 2
        /\ Closed(j, m) /\ m.mod = j.mod /\ m.failed = j.failed
    BY <2>3 DEF Job, Closed, Kept
  <2>5. Moved(job, m, n, 2) /\ Closed(job, m)
    BY <1>11, <1>12, <2>2, <2>4 DEF Moved, Closed, Kept, m
  <2>6. m.put <= m.room
    BY <1>2, <1>3, <1>12, <1>13, <2>4 DEF Closed, Kept
  <2>7. job' = m /\ m \in Job
    BY <2>1, <2>2 DEF m
  <2>8. QED
    BY <1>1, <1>5, <1>9, <2>4, <2>5, <2>6, <2>7 DEF n
<1>14. CASE ~job.respond
  <2>1. job' = j
    BY <1>10, <1>12, <1>14
  <2>2. QED
    BY <1>1, <1>5, <1>9, <1>11, <1>12, <2>1 DEF n
<1>15. QED
  BY <1>2, <1>13, <1>14

LEMMA ActuatorStep ==
  ASSUME TypeOK, sub_actuator
  PROVE  /\ job \in Job /\ job.cmd = "actuate" /\ job.left > 0 /\ ~job.cut
         /\ job' \in Job /\ Kept(job, job') /\ job'.put <= job'.room
         /\ job'.mod = job.mod /\ job'.fp = job.fp /\ job'.cut = job.cut
         /\ (job.failed => job'.failed) /\ job.opened \subseteq job'.opened
         /\ UNCHANGED mode
         /\ \E e \in Nat : Moved(job, job', 2, e)
         /\ \/ len' = len
            \/ /\ Actuator \in File /\ Actuator \in job'.opened
               /\ len' = [len EXCEPT ![Actuator] = Smaller(1, Alloc[Actuator])]
<1>1. job \in Job /\ job.cmd = "actuate" /\ job.put <= job.room /\ job.left > 0 /\ ~job.cut
  BY BusyIs DEF sub_actuator, DataCommands, Writers
<1>2. job.put \in Nat /\ job.room \in Nat /\ job.data_out \in Nat /\ job.failed \in BOOLEAN
      /\ job.opened \in SUBSET File /\ job.respond \in BOOLEAN
  BY <1>1, JobIs
<1>3. PICK it \in Parsed(job), full \in BOOLEAN :
        LET acts == it.file = Actuator /\ Actuator \in File /\ ~full
            j == [Take(job, 2) EXCEPT !.failed = @ \/ ~acts,
                                      !.opened = IF acts THEN @ \cup {Actuator} ELSE @]
        IN  /\ len' = IF acts THEN [len EXCEPT ![Actuator] = Smaller(1, Alloc[Actuator])] ELSE len
            /\ job' = IF j.respond /\ Space(j) >= 2 THEN Out(j, 2) ELSE j
  BY DEF sub_actuator
<1> DEFINE acts == it.file = Actuator /\ Actuator \in File /\ ~full
           t == Take(job, 2)
           j == [t EXCEPT !.failed = t.failed \/ ~acts,
                          !.opened = IF acts THEN t.opened \cup {Actuator} ELSE t.opened]
<1>4. /\ len' = IF acts THEN [len EXCEPT ![Actuator] = Smaller(1, Alloc[Actuator])] ELSE len
      /\ job' = IF j.respond /\ Space(j) >= 2 THEN Out(j, 2) ELSE j
  BY <1>3
<1>5. Moved(job, t, 2, 0) /\ Same(job, t) /\ t \in Job
  BY <1>1, TakenIs DEF Moved
<1>6. /\ t.put = job.put /\ t.data_out = job.data_out /\ t.left = job.left - 2 /\ t.got = job.got + 2
      /\ t.room = job.room /\ t.opened = job.opened /\ t.failed = job.failed
  BY <1>2, <1>5 DEF Moved, Same
<1>7. PICK b \in BOOLEAN, g \in SUBSET File :
        /\ j = [t EXCEPT !.failed = b, !.opened = g]
        /\ job.opened \subseteq g /\ (acts => Actuator \in g) /\ (job.failed => b)
  <2>1. (t.failed \/ ~acts) \in BOOLEAN
    OBVIOUS
  <2>2. (IF acts THEN t.opened \cup {Actuator} ELSE t.opened) \in SUBSET File
    BY <1>2, <1>6
  <2>3. /\ job.opened \subseteq (IF acts THEN t.opened \cup {Actuator} ELSE t.opened)
        /\ acts => Actuator \in (IF acts THEN t.opened \cup {Actuator} ELSE t.opened)
        /\ job.failed => (t.failed \/ ~acts)
    BY <1>6
  <2>4. QED
    BY <2>1, <2>2, <2>3
<1> HIDE DEF acts, t, j
<1>8. j \in Job
  BY <1>5, <1>7 DEF Job
<1>9. /\ j.left = t.left /\ j.got = t.got /\ j.put = t.put /\ j.data_out = t.data_out
      /\ Kept(t, j) /\ j.mod = t.mod /\ j.fp = t.fp /\ j.cut = t.cut /\ j.failed = b /\ j.opened = g
  BY <1>5, <1>7 DEF Job, Kept
<1>10. /\ Kept(job, j) /\ j.mod = job.mod /\ j.fp = job.fp /\ j.cut = job.cut
       /\ Moved(job, j, 2, 0)
  BY <1>5, <1>8, <1>9 DEF Kept, Same, Moved
<1>11. acts => Actuator \in File
  BY DEF acts
<1>12. CASE job' = j
  <2>1. j.put <= j.room
    BY <1>1, <1>6, <1>9 DEF Kept
  <2>2. UNCHANGED mode
    BY DEF sub_actuator
  <2>3. QED
    BY <1>1, <1>4, <1>7, <1>8, <1>9, <1>10, <1>11, <1>12, <2>1, <2>2
<1>13. CASE job' = Out(j, 2) /\ Space(j) >= 2
  <2> DEFINE m == Out(j, 2)
  <2>1. m \in Job /\ m = [j EXCEPT !.put = j.put + 2, !.data_out = j.data_out + 2]
    BY <1>8, OutIs
  <2> HIDE DEF m
  <2>2. /\ m.left = j.left /\ m.got = j.got /\ m.put = j.put + 2 /\ m.data_out = j.data_out + 2
        /\ Kept(j, m) /\ m.mod = j.mod /\ m.fp = j.fp /\ m.cut = j.cut /\ m.failed = b /\ m.opened = g
    <3>1. m = [j EXCEPT !.put = j.put + 2, !.data_out = j.data_out + 2] /\ j \in Job
      BY <1>8, <2>1
    <3>2. QED
      BY <1>9, <3>1 DEF Job, Kept
  <2>3. Kept(job, m) /\ m.mod = job.mod /\ m.fp = job.fp /\ m.cut = job.cut
    BY <1>10, <2>2 DEF Kept
  <2>4. j.put = job.put /\ j.data_out = job.data_out
    BY <1>6, <1>9
  <2>5. Moved(job, m, 2, 2)
    BY <1>10, <2>1, <2>2, <2>4 DEF Moved
  <2>6. m.put <= m.room
    <3>1. j.room = job.room /\ m.room = j.room
      BY <1>10, <2>2 DEF Kept
    <3>2. QED
      BY <1>2, <1>13, <2>2, <2>4, <3>1 DEF Space
  <2>7. UNCHANGED mode
    BY DEF sub_actuator
  <2>8. job' = m
    BY <1>13 DEF m
  <2>9. \E e \in Nat : Moved(job, job', 2, e)
    BY <2>5, <2>8
  <2>10. /\ job' \in Job /\ Kept(job, job') /\ job'.put <= job'.room
         /\ job'.mod = job.mod /\ job'.fp = job.fp /\ job'.cut = job.cut
    BY <2>1, <2>3, <2>6, <2>8
  <2>11. (job.failed => job'.failed) /\ job.opened \subseteq job'.opened /\ job'.opened = g
    BY <1>7, <2>2, <2>8
  <2>12. \/ len' = len
         \/ /\ Actuator \in File /\ Actuator \in job'.opened
            /\ len' = [len EXCEPT ![Actuator] = Smaller(1, Alloc[Actuator])]
    BY <1>4, <1>7, <1>11, <2>11
  <2>13. QED
    BY <1>1, <2>7, <2>9, <2>10, <2>11, <2>12
<1>14. QED
  BY <1>4, <1>12, <1>13

(* sub_filedata: what it notes once it has closed the file,                  *)
Seen(o, err) ==
  [o.j EXCEPT !.mod = Flag("W" \in job.mod), !.fp = o.fp, !.failed = @ \/ err,
              !.opened = @ \cup ({o.fp} \cap File)]

Opened(fp) == job.opened \cup ({fp} \cap File)

(* and its step, for what became of the item.                                *)
Err(o, action_fails) == o.err \/ (action_fails /\ o.fp \in File)
Again(o) == ~o.over /\ o.j.respond /\ Space(o.j) <= 2

Passed(o, err) ==
  /\ job' = IF o.over \/ Again(o) THEN [Seen(o, err) EXCEPT !.cut = TRUE]
            ELSE Replied(Seen(o, err), "W" \in job.mod, err, o.span)
  /\ len' = IF o.fp \in File
              THEN [len EXCEPT ![o.fp] = IF Again(o) THEN 0 ELSE o.length] ELSE len

LEMMA PassStep ==
  ASSUME sub_filedata
  PROVE  /\ Busy(DataCommands) /\ UNCHANGED mode
         /\ \E it \in Parsed(job), full, action_fails \in BOOLEAN :
              Passed(Treated(it, full), Err(Treated(it, full), action_fails))
BY DEF sub_filedata, Passed, Err, Again, Seen

LEMMA SeenIs ==
  ASSUME job \in Job, NEW o, o.j \in Job, Same(job, o.j), o.fp \in Id, NEW err \in BOOLEAN
  PROVE  /\ Seen(o, err) \in Job /\ Kept(job, Seen(o, err)) /\ Seen(o, err).cut = job.cut
         /\ Seen(o, err).mod = Flag("W" \in job.mod) /\ Seen(o, err).fp = o.fp
         /\ Seen(o, err).failed = (job.failed \/ err)
         /\ Seen(o, err).opened = Opened(o.fp)
         /\ Seen(o, err).left = o.j.left /\ Seen(o, err).got = o.j.got
         /\ Seen(o, err).put = o.j.put /\ Seen(o, err).data_out = o.j.data_out
<1> DEFINE k == Seen(o, err)
<1>1. job.failed \in BOOLEAN /\ job.opened \in SUBSET File
  BY JobIs
<1>2. o.j.failed = job.failed /\ o.j.opened = job.opened /\ o.j.cut = job.cut
  BY DEF Same
<1>3. PICK m \in SUBSET Right : m = Flag("W" \in job.mod)
  BY DEF Flag, Right
<1>4. PICK b \in BOOLEAN : b = (job.failed \/ err)
  BY <1>1
<1>5. PICK g \in SUBSET File : g = Opened(o.fp)
  BY <1>1 DEF Opened
<1>6. k = [o.j EXCEPT !.mod = m, !.fp = o.fp, !.failed = b, !.opened = g]
  BY <1>2, <1>3, <1>4, <1>5 DEF Seen, Opened
<1> HIDE DEF k
<1>7. k \in Job
  BY <1>6 DEF Job
<1>8. /\ k.cut = o.j.cut /\ Kept(o.j, k) /\ k.mod = m /\ k.fp = o.fp /\ k.failed = b /\ k.opened = g
      /\ k.left = o.j.left /\ k.got = o.j.got /\ k.put = o.j.put /\ k.data_out = o.j.data_out
  BY <1>6 DEF Job, Kept
<1>9. Kept(job, k)
  BY <1>8 DEF Kept, Same
<1>10. QED
  BY <1>2, <1>3, <1>4, <1>5, <1>7, <1>8, <1>9 DEF k

LEMMA FlagIs ==
  ASSUME NEW b
  PROVE  "W" \notin Flag(b) /\ Flag(b) # {"W"}
BY DEF Flag

(* What one pass over an item leaves behind.                                 *)
After(o, err) ==
  /\ job' \in Job /\ Kept(job, job') /\ job'.put <= job'.room
  /\ "W" \notin job'.mod /\ job'.fp = o.fp
  /\ job'.failed = (job.failed \/ err)
  /\ job'.opened = Opened(o.fp)
  /\ IF o.over \/ Again(o)
       THEN job'.cut = TRUE /\ job'.put = o.j.put /\ job'.data_out = o.j.data_out
       ELSE /\ job'.cut = FALSE
            /\ IF ~job.respond \/ ~("W" \in job.mod \/ err)
                 THEN /\ job'.left = o.j.left - 5 - o.span /\ job'.got = o.j.got
                      /\ job'.put = o.j.put /\ job'.data_out = o.j.data_out
                 ELSE /\ job'.got = o.j.got + o.span /\ job'.data_out = o.j.data_out + 2
                      /\ IF "W" \in job.mod
                           THEN job'.left = o.j.left - 5 - o.span /\ job'.put = o.j.put + 2
                           ELSE job'.left = 0 - 5 - o.span /\ job'.put = 2

LEMMA PassedIs ==
  ASSUME TypeOK, Busy(DataCommands), NEW it \in Item, NEW full \in BOOLEAN, NEW err \in BOOLEAN,
         NEW o, o = Treated(it, full), Passed(o, err)
  PROVE  After(o, err)
<1> DEFINE k == Seen(o, err)
<1>1. job \in Job /\ ~job.cut /\ job.respond \in BOOLEAN
  BY BusyIs, JobIs
<1>2. /\ Same(job, o.j) /\ Fits(job, o.j) /\ o.fp \in Id /\ o.span \in Nat /\ o.over \in BOOLEAN
      /\ o.j \in Job
  BY TreatedIs DEF Fits
<1>3. /\ k \in Job /\ Kept(job, k) /\ k.cut = job.cut
      /\ k.mod = Flag("W" \in job.mod) /\ k.fp = o.fp
      /\ k.failed = (job.failed \/ err) /\ k.opened = Opened(o.fp)
      /\ k.left = o.j.left /\ k.got = o.j.got
      /\ k.put = o.j.put /\ k.data_out = o.j.data_out
  BY <1>1, <1>2, SeenIs
<1>4. o.j.respond = job.respond /\ o.j.room = job.room /\ k.room = job.room /\ k.respond = job.respond
  BY <1>2, <1>3 DEF Same, Kept
<1>5. k.put <= k.room
  BY <1>2, <1>3, <1>4 DEF Fits
<1>6. job' = IF o.over \/ Again(o) THEN [k EXCEPT !.cut = TRUE]
             ELSE Replied(k, "W" \in job.mod, err, o.span)
  BY DEF Passed
<1> HIDE DEF k
<1>7. "W" \notin k.mod
  BY <1>3, FlagIs
<1>8. CASE o.over \/ Again(o)
  <2>1. job' = [k EXCEPT !.cut = TRUE] /\ k \in Job
    BY <1>3, <1>6, <1>8
  <2>2. /\ job' \in Job /\ Kept(k, job') /\ job'.cut = TRUE /\ job'.mod = k.mod /\ job'.fp = k.fp
        /\ job'.failed = k.failed /\ job'.opened = k.opened
        /\ job'.put = k.put /\ job'.data_out = k.data_out
    BY <2>1 DEF Job, Kept
  <2>3. Kept(job, job') /\ job'.put <= job'.room
    BY <1>3, <1>5, <2>2 DEF Kept
  <2>4. QED
    BY <1>3, <1>7, <1>8, <2>2, <2>3 DEF After
<1>9. CASE ~(o.over \/ Again(o))
  <2>1. job' = Replied(k, "W" \in job.mod, err, o.span)
    BY <1>6, <1>9
  <2>2. k.respond => Space(k) > 2
    <3>1. k.put \in Nat /\ k.room \in Nat
      BY <1>3, JobIs
    <3>2. o.j.respond => ~(o.j.room - o.j.put <= 2)
      BY <1>9 DEF Again, Space
    <3>3. QED
      BY <1>3, <1>4, <3>1, <3>2 DEF Space
  <2>3. PICK writes \in BOOLEAN : writes = ("W" \in job.mod)
    <3>1. ("W" \in job.mod) \in BOOLEAN
      OBVIOUS
    <3>2. QED
      BY <3>1
  <2>4. job' = Replied(k, writes, err, o.span)
    BY <2>1, <2>3
  <2>5. /\ job' \in Job /\ job'.put <= job'.room /\ Same(k, job')
        /\ IF ~k.respond \/ ~(writes \/ err)
             THEN /\ job'.left = k.left - 5 - o.span /\ job'.got = k.got
                  /\ job'.put = k.put /\ job'.data_out = k.data_out
             ELSE /\ job'.got = k.got + o.span /\ job'.data_out = k.data_out + 2
                  /\ IF writes THEN job'.left = k.left - 5 - o.span /\ job'.put = k.put + 2
                               ELSE job'.left = 0 - 5 - o.span /\ job'.put = 2
    <3>1. k \in Job /\ o.span \in Nat
      BY <1>2, <1>3
    <3>2. Reply(k, writes, err, o.span, job')
      BY <1>5, <2>2, <2>4, <3>1, RepliedIs
    <3>3. QED
      BY <3>2 DEF Reply
  <2>6. /\ Kept(job, job') /\ job'.cut = FALSE /\ job'.mod = k.mod /\ job'.fp = k.fp
        /\ job'.failed = k.failed /\ job'.opened = k.opened
    <3>1. k.cut = FALSE
      BY <1>1, <1>3, JobIs
    <3>2. QED
      BY <1>3, <2>5, <3>1 DEF Same, Kept
  <2>7. QED
    BY <1>3, <1>4, <1>7, <1>9, <2>3, <2>5, <2>6 DEF After
<1>10. QED
  BY <1>8, <1>9

LEMMA StartStep ==
  ASSUME alp_proc_filedata
  PROVE  /\ job = NoJob /\ job' \in Job /\ UNCHANGED <<len, mode>>
         /\ job'.mod = IF job'.cmd \in WCommands THEN {"W"} ELSE {"R"}
         /\ job'.left = Size(job') /\ job'.got = 0 /\ job'.put = 0 /\ job'.data_out = 0
         /\ job'.fp = Missing /\ job'.opened = {} /\ job'.failed = FALSE /\ job'.cut = FALSE
         /\ Len(job'.items) >= 1
<1>1. PICK cmd \in Command, r \in BOOLEAN, su \in BOOLEAN, n \in 1..MaxItems, room \in Rooms :
      \E items \in [1..n -> Item] :
        job' = [cmd |-> cmd, respond |-> r, su |-> su, items |-> items,
               left |-> Start(cmd, items, n + 1), got |-> 0, room |-> room, put |-> 0, data_out |-> 0,
               mod |-> IF cmd \in WCommands THEN {"W"} ELSE {"R"},
               fp |-> Missing, opened |-> {}, failed |-> FALSE, cut |-> FALSE]
  BY DEF alp_proc_filedata
<1>2. PICK items \in [1..n -> Item] :
        job' = [cmd |-> cmd, respond |-> r, su |-> su, items |-> items,
               left |-> Start(cmd, items, n + 1), got |-> 0, room |-> room, put |-> 0, data_out |-> 0,
               mod |-> IF cmd \in WCommands THEN {"W"} ELSE {"R"},
               fp |-> Missing, opened |-> {}, failed |-> FALSE, cut |-> FALSE]
  BY <1>1
<1>3. n \in Nat /\ n >= 1
  BY AlpFileAssumption
<1>4. items \in Seq(Item) /\ Len(items) = n
  BY <1>3
<1>5. Start(cmd, items, n + 1) \in Nat
  <2>1. n + 1 \in 1..(Len(items) + 1)
    BY <1>3, <1>4
  <2>2. QED
    BY <1>4, <2>1, StartsAre
<1>6. PICK m \in SUBSET Right : m = IF cmd \in WCommands THEN {"W"} ELSE {"R"}
  BY DEF Right
<1>7. PICK left \in Nat : left = Start(cmd, items, n + 1)
  BY <1>5
<1>8. job' = [cmd |-> cmd, respond |-> r, su |-> su, items |-> items,
              left |-> left, got |-> 0, room |-> room, put |-> 0, data_out |-> 0,
              mod |-> m, fp |-> Missing, opened |-> {}, failed |-> FALSE, cut |-> FALSE]
  BY <1>2, <1>6, <1>7
<1>9. job' \in Job
  <2>1. Missing \in Id
    BY DEF Id
  <2>2. QED
    BY <1>4, <1>8, <2>1 DEF Job
<1>10. /\ job'.cmd = cmd /\ job'.items = items /\ job'.left = left
       /\ job'.mod = m
       /\ job'.got = 0 /\ job'.put = 0 /\ job'.data_out = 0 /\ job'.fp = Missing
       /\ job'.opened = {} /\ job'.failed = FALSE /\ job'.cut = FALSE
  BY <1>8
<1>11. job'.left = Size(job')
  BY <1>4, <1>7, <1>10 DEF Size
<1>12. job = NoJob /\ UNCHANGED <<len, mode>>
  BY DEF alp_proc_filedata
<1>13. Len(job'.items) >= 1
  BY <1>3, <1>4, <1>10
<1>14. QED
  BY <1>6, <1>9, <1>10, <1>11, <1>12, <1>13

(* The file data a pass leaves behind.                                       *)
LEMMA LengthsTyped ==
  ASSUME TypeOK, NEW f \in File, NEW n \in Nat, n <= Alloc[f] + 1
  PROVE  /\ [len EXCEPT ![f] = n] \in [File -> Nat]
         /\ \A g \in File : [len EXCEPT ![f] = n][g] <= Alloc[g] + 1
BY DEF TypeOK

LEMMA TypeStep ==
  ASSUME TypeOK, [Next]_vars
  PROVE  TypeOK'
<1>1. CASE UNCHANGED vars
  BY <1>1 DEF vars, TypeOK
<1>2. CASE alp_proc_filedata
  <2>1. job'.put = 0 /\ job' \in Job /\ UNCHANGED <<len, mode>>
    BY <1>2, StartStep
  <2>2. job'.room \in Nat
    BY <2>1, AlpFileAssumption DEF Job
  <2>3. QED
    BY <2>1, <2>2 DEF TypeOK
<1>3. CASE sub_fileperms
  <2>1. job' \in Job /\ job'.put <= job'.room /\ UNCHANGED len /\ mode' \in [File -> Modes]
    BY <1>3, PermsStep
  <2>2. QED
    BY <2>1 DEF TypeOK
<1>4. CASE sub_fileheaders
  <2>1. job' \in Job /\ job'.put <= job'.room /\ UNCHANGED <<len, mode>>
    BY <1>4, HeadersStep
  <2>2. QED
    BY <2>1 DEF TypeOK
<1>5. CASE sub_filedelete
  <2>1. job' \in Job /\ job'.put <= job'.room /\ UNCHANGED <<len, mode>>
    BY <1>5, DeleteStep
  <2>2. QED
    BY <2>1 DEF TypeOK
<1>6. CASE sub_filedata
  <2>1. PICK it \in Parsed(job), full \in BOOLEAN, action_fails \in BOOLEAN :
          Passed(Treated(it, full), Err(Treated(it, full), action_fails))
    BY <1>6, PassStep
  <2>2. Busy(DataCommands) /\ UNCHANGED mode
    BY <1>6, PassStep
  <2>3. it \in Item
    BY <2>2, BusyIs, ParsedIs
  <2>4. PICK o : o = Treated(it, full)
    OBVIOUS
  <2>5. /\ o.fp \in Id /\ o.length \in Nat /\ (o.fp \in File => o.length <= Alloc[o.fp] + 1)
        /\ o.err \in BOOLEAN
    BY <2>2, <2>3, <2>4, TreatedIs
  <2>6. PICK err \in BOOLEAN : err = Err(o, action_fails)
    BY <2>5 DEF Err
  <2>7. Passed(o, err)
    BY <2>1, <2>4, <2>6
  <2>8. job' \in Job /\ job'.put <= job'.room
    <3>1. After(o, err)
      BY <2>2, <2>3, <2>4, <2>7, PassedIs
    <3>2. QED
      BY <3>1 DEF After
  <2>9. len' \in [File -> Nat] /\ \A f \in File : len'[f] <= Alloc[f] + 1
    <3>1. CASE o.fp \in File
      <4>1. PICK n \in Nat : n = (IF Again(o) THEN 0 ELSE o.length) /\ n <= Alloc[o.fp] + 1
        BY <2>5, <3>1, AllocIs
      <4>2. len' = [len EXCEPT ![o.fp] = n]
        BY <2>7, <3>1, <4>1 DEF Passed
      <4>3. QED
        BY <3>1, <4>1, <4>2, LengthsTyped
    <3>2. CASE o.fp \notin File
      BY <2>7, <3>2 DEF Passed, TypeOK
    <3>3. QED
      BY <3>1, <3>2
  <2>10. QED
    BY <2>2, <2>8, <2>9 DEF TypeOK
<1>7. CASE sub_actuator
  <2>1. /\ job' \in Job /\ job'.put <= job'.room /\ UNCHANGED mode
        /\ \/ len' = len
           \/ Actuator \in File /\ len' = [len EXCEPT ![Actuator] = Smaller(1, Alloc[Actuator])]
    BY <1>7, ActuatorStep
  <2>2. len' \in [File -> Nat] /\ \A f \in File : len'[f] <= Alloc[f] + 1
    <3>1. CASE len' = len
      BY <3>1 DEF TypeOK
    <3>2. CASE Actuator \in File /\ len' = [len EXCEPT ![Actuator] = Smaller(1, Alloc[Actuator])]
      <4>1. PICK n \in Nat : n = Smaller(1, Alloc[Actuator]) /\ n <= Alloc[Actuator] + 1
        BY <3>2, AllocIs, SmallerIs
      <4>2. QED
        BY <3>2, <4>1, LengthsTyped
    <3>3. QED
      BY <2>1, <3>1, <3>2
  <2>3. QED
    BY <2>1, <2>2 DEF TypeOK
<1>8. CASE Return
  BY <1>8 DEF Return, TypeOK
<1>9. QED
  BY <1>1, <1>2, <1>3, <1>4, <1>5, <1>6, <1>7, <1>8 DEF Next

(* However the items of a message follow each other, whether or not what is  *)
(* read as an item is one: the answer never overflows its queue, and no file *)
(* outgrows its allocation by more than half a word.                         *)
THEOREM Typed == Spec => []TypeOK
<1>1. Init => TypeOK
  <2>1. SUFFICES ASSUME Init PROVE TypeOK
    OBVIOUS
  <2>2. len \in [File -> Nat]
    BY <2>1, AlpFileAssumption DEF Init
  <2>3. \A f \in File : len[f] <= Alloc[f] + 1
    <3> TAKE f \in File
    <3>1. len[f] <= Alloc[f]
      BY <2>1 DEF Init
    <3>2. len[f] \in Nat /\ Alloc[f] \in Nat
      BY <2>2, AllocIs
    <3>3. QED
      BY <3>1, <3>2
  <2>4. QED
    BY <2>1, <2>2, <2>3 DEF Init, TypeOK
<1>2. TypeOK /\ [Next]_vars => TypeOK'
  BY TypeStep
<1>3. QED
  BY <1>1, <1>2, PTL DEF Spec

-----------------------------------------------------------------------------
(* What the messages that come to change a file or a mode have in common.    *)
(* file_mod is reused: for an error, for a mode that was read.  In spite of  *)
(* that, a message that reads data never writes, one that writes does it     *)
(* with the right it was granted, and one that reads permissions changes     *)
(* some only if a mode it read was VL_ACCESS_W.                              *)
Readers == {"read", "both"}

ModInv ==
  job # NoJob =>
    /\ job.fp \in File => job.fp \in job.opened
    /\ job.cmd \in Readers => "W" \notin job.mod
    /\ job.cmd \in Writers /\ "W" \in job.mod => job.mod = {"W"}
    /\ job.cmd = "perms_read" /\ job.mod = {"W"} => \E f \in File : mode[f] = {"W"}
    /\ Len(job.items) >= 1

(* The ways an item of sub_filedata goes.                                    *)
LEMMA TreatedCases ==
  ASSUME NEW it, NEW full \in BOOLEAN, NEW o, o = Treated(it, full)
  PROVE  \/ o = Unopened(it, full)
         \/ o = Written(it) /\ "W" \in job.mod /\ Granted(job, it.file, job.mod) /\ it.file \in File
         \/ o = ReadOut(it) /\ "W" \notin job.mod /\ it.file \in File
BY DEF Treated, Granted

(* A pass over item it, which was treated as o.                              *)
Pass(it, full, o, err) ==
  /\ it \in Item /\ o = Treated(it, full)
  /\ (o.err => err) /\ (o.fp \notin File => err = o.err)
  /\ Passed(o, err)

LEMMA DataStep ==
  ASSUME TypeOK, sub_filedata
  PROVE  /\ Busy(DataCommands) /\ UNCHANGED mode
         /\ \E it \in Parsed(job), full \in BOOLEAN, err \in BOOLEAN : \E o : Pass(it, full, o, err)
<1>1. PICK it \in Parsed(job), full \in BOOLEAN, action_fails \in BOOLEAN :
        Passed(Treated(it, full), Err(Treated(it, full), action_fails))
  BY PassStep
<1>2. Busy(DataCommands)
  BY PassStep
<1>3. it \in Item
  BY <1>2, BusyIs, ParsedIs
<1>4. PICK o : o = Treated(it, full)
  OBVIOUS
<1>5. o.err \in BOOLEAN
  BY <1>2, <1>3, <1>4, TreatedIs
<1>6. PICK err \in BOOLEAN : err = Err(o, action_fails)
  BY <1>5 DEF Err
<1>7. Passed(o, err)
  BY <1>1, <1>4, <1>6
<1>8. (o.err => err) /\ (o.fp \notin File => err = o.err)
  BY <1>5, <1>6 DEF Err
<1>9. Pass(it, full, o, err)
  BY <1>3, <1>4, <1>7, <1>8 DEF Pass
<1>10. UNCHANGED mode
  BY PassStep
<1>11. QED
  BY <1>2, <1>9, <1>10

LEMMA ModInvStep ==
  ASSUME TypeOK, ModInv, [Next]_vars
  PROVE  ModInv'
<1>1. CASE UNCHANGED vars
  BY <1>1 DEF vars, ModInv
<1>2. CASE alp_proc_filedata
  <2>1. /\ job'.mod = IF job'.cmd \in WCommands THEN {"W"} ELSE {"R"}
        /\ job'.fp = Missing /\ Len(job'.items) >= 1
    BY <1>2, StartStep
  <2>2. Missing \notin File
    BY AlpFileAssumption
  <2>3. job'.cmd \in Readers \cup {"perms_read"} => job'.mod = {"R"}
    BY <2>1 DEF Readers, WCommands, Writers
  <2>4. job'.cmd \in Writers => job'.mod = {"W"}
    BY <2>1 DEF WCommands
  <2>5. QED
    BY <2>1, <2>2, <2>3, <2>4 DEF ModInv
<1>3. CASE sub_fileperms
  <2>1. /\ job \in Job /\ job.cmd \in {"perms_read", "perms_write"} /\ Closed(job, job')
        /\ job # NoJob
        /\ IF job.mod = {"W"} THEN job'.mod = {}
           ELSE mode' = mode /\ (job'.mod = job.mod \/ \E f \in File : job'.mod = mode[f])
    BY <1>3, PermsStep DEF sub_fileperms, Busy
  <2>2. job'.cmd = job.cmd /\ job'.items = job.items /\ job'.fp = job.fp /\ job'.opened = job.opened
    BY <2>1 DEF Closed, Kept
  <2>3. job'.cmd \notin Readers \cup Writers
    BY <2>1, <2>2 DEF Readers, Writers
  <2>4. job'.mod = {"W"} => mode' = mode /\ (job'.mod = job.mod \/ \E f \in File : job'.mod = mode[f])
    BY <2>1
  <2>5. QED
    BY <2>1, <2>2, <2>3, <2>4 DEF ModInv
<1>4. CASE sub_fileheaders
  <2>1. /\ job.cmd = "headers" /\ Same(job, job') /\ UNCHANGED mode /\ job # NoJob
    BY <1>4, HeadersStep DEF sub_fileheaders, Busy
  <2>2. QED
    BY <2>1 DEF Same, ModInv
<1>5. CASE sub_filedelete
  <2>1. /\ job.cmd \in {"delete", "create", "restore"} /\ Closed(job, job') /\ job'.mod = job.mod
        /\ UNCHANGED mode /\ job # NoJob
    BY <1>5, DeleteStep DEF sub_filedelete, Busy
  <2>2. QED
    BY <2>1 DEF Closed, Kept, ModInv
<1>6. CASE sub_filedata
  <2>1. PICK it \in Parsed(job), full \in BOOLEAN, err \in BOOLEAN : \E o : Pass(it, full, o, err)
    BY <1>6, DataStep
  <2>2. PICK o : Pass(it, full, o, err)
    BY <2>1
  <2>3. it \in Item /\ o = Treated(it, full) /\ Passed(o, err)
    BY <2>2 DEF Pass
  <2>4. Busy(DataCommands)
    BY <1>6, DataStep
  <2>5. UNCHANGED mode /\ job # NoJob /\ job.cmd \in DataCommands
    BY <1>6, <2>4, DataStep DEF Busy
  <2>6. After(o, err)
    BY <2>3, <2>4, PassedIs
  <2>7. Kept(job, job') /\ "W" \notin job'.mod
    BY <2>6 DEF After
  <2>8. job'.fp = o.fp /\ job'.opened = Opened(o.fp)
    BY <2>6 DEF After
  <2>9. job'.cmd = job.cmd /\ job'.items = job.items
    BY <2>7 DEF Kept
  <2>10. job'.cmd # "perms_read"
    BY <2>5, <2>9 DEF DataCommands, Writers
  <2>11. QED
    BY <2>5, <2>7, <2>8, <2>9, <2>10 DEF ModInv, Opened
<1>7. CASE sub_actuator
  <2>1. /\ job.cmd = "actuate" /\ Kept(job, job') /\ job'.fp = job.fp
        /\ job.opened \subseteq job'.opened /\ job # NoJob
    BY <1>7, ActuatorStep DEF sub_actuator, Busy
  <2>2. job'.cmd = "actuate" /\ job'.items = job.items
    BY <2>1 DEF Kept
  <2>3. QED
    BY <2>1, <2>2 DEF ModInv, Readers, Writers
<1>8. CASE Return
  BY <1>8 DEF Return, ModInv
<1>9. QED
  BY <1>1, <1>2, <1>3, <1>4, <1>5, <1>6, <1>7, <1>8 DEF Next

LEMMA ModInvInit ==
  ASSUME Init
  PROVE  ModInv
BY DEF Init, ModInv

(* A message that reads permissions changes none unless a file's mode is     *)
(* VL_ACCESS_W, which the code takes for the mark of a change.               *)
THEOREM PermissionsKept == Spec => ModesKept
<1>1. TypeOK /\ ModInv /\ [Next]_vars =>
        [mode' # mode => job.cmd = "perms_write" \/ \E f \in File : mode[f] = {"W"}]_vars
  <2>1. SUFFICES ASSUME TypeOK, ModInv, [Next]_vars, mode' # mode
                 PROVE  job.cmd = "perms_write" \/ \E f \in File : mode[f] = {"W"}
    OBVIOUS
  <2>2. sub_fileperms
    BY <2>1 DEF Next, vars, alp_proc_filedata, sub_fileheaders, sub_filedelete, sub_filedata,
                sub_actuator, Return
  <2>3. job # NoJob /\ job.cmd \in {"perms_read", "perms_write"} /\ job.mod = {"W"}
    BY <2>1, <2>2, PermsStep DEF sub_fileperms, Busy
  <2>4. QED
    BY <2>1, <2>3 DEF ModInv
<1>2. TypeOK /\ ModInv /\ [Next]_vars => TypeOK' /\ ModInv'
  BY TypeStep, ModInvStep
<1>3. Init => ModInv
  BY ModInvInit
<1>4. QED
  BY <1>1, <1>2, <1>3, Typed, PTL DEF Spec, ModesKept

-----------------------------------------------------------------------------
(* Which messages change the length of a file.                               *)

LEMMA PassChanges ==
  ASSUME TypeOK, NEW it, NEW full \in BOOLEAN, NEW err \in BOOLEAN, NEW o, Pass(it, full, o, err),
         NEW f \in File, len'[f] # len[f]
  PROVE  f = o.fp /\ len'[f] = IF Again(o) THEN 0 ELSE o.length
<1>1. len' = IF o.fp \in File
               THEN [len EXCEPT ![o.fp] = IF Again(o) THEN 0 ELSE o.length] ELSE len
  BY DEF Pass, Passed
<1>2. len \in [File -> Nat]
  BY DEF TypeOK
<1>3. o.fp \in File
  BY <1>1
<1> DEFINE n == IF Again(o) THEN 0 ELSE o.length
<1>4. len' = [len EXCEPT ![o.fp] = n]
  BY <1>1, <1>3
<1> HIDE DEF n
<1>5. f = o.fp /\ len'[f] = n
  BY <1>2, <1>3, <1>4
<1>6. QED
  BY <1>5 DEF n

(* Only a pass that writes makes a file longer, and only a message that      *)
(* writes makes such a pass, with the right to write.                        *)
LEMMA WriterIs ==
  ASSUME TypeOK, ModInv, Busy(DataCommands), "W" \in job.mod, NEW f \in File, Granted(job, f, job.mod)
  PROVE  job.cmd \in Writers /\ (job.su \/ "W" \in mode[f])
<1>1. job # NoJob /\ job.cmd \in DataCommands
  BY DEF Busy
<1>2. job.cmd \in Writers
  BY <1>1 DEF ModInv, DataCommands, Readers
<1>3. job.mod = {"W"}
  BY <1>1, <1>2 DEF ModInv
<1>4. job.su \/ mode[f] \cap {"W"} # {}
  BY <1>3 DEF Granted
<1>5. QED
  BY <1>2, <1>4

LEMMA LengthStep ==
  ASSUME TypeOK, ModInv, Busy(DataCommands),
         NEW it, NEW full \in BOOLEAN, NEW err \in BOOLEAN, NEW o, Pass(it, full, o, err),
         NEW f \in File, len'[f] # len[f]
  PROVE  /\ f \in job'.opened
         /\ len'[f] > len[f] => job.cmd \in Writers /\ (job.su \/ "W" \in mode[f])
         /\ len'[f] < len[f] => \/ job.cmd = "overwrite"
                                \/ job.respond /\ job'.cut
                                \/ job'.failed /\ f = job.fp
<1>1. it \in Item /\ o = Treated(it, full) /\ Passed(o, err) /\ (o.err => err)
  BY DEF Pass
<1>2. After(o, err)
  BY <1>1, PassedIs
<1>3. f = o.fp /\ len'[f] = (IF Again(o) THEN 0 ELSE o.length)
  BY PassChanges
<1>4. f \in job'.opened
  BY <1>2, <1>3 DEF After, Opened
<1>5. len[f] \in Nat
  BY DEF TypeOK
<1>6. CASE Again(o)
  <2>1. job'.cut = TRUE
    BY <1>2, <1>6 DEF After
  <2>2. o.j.respond
    BY <1>6 DEF Again
  <2>3. Same(job, o.j)
    BY <1>1, TreatedIs
  <2>4. job.respond
    BY <2>2, <2>3 DEF Same
  <2>5. ~(len'[f] > len[f])
    BY <1>3, <1>5, <1>6
  <2>6. QED
    BY <1>4, <2>1, <2>4, <2>5
<1>7. CASE ~Again(o)
  <2>1. len'[f] = o.length
    BY <1>3, <1>7
  <2>2. CASE o = Unopened(it, full)
    <3>1. /\ o.err = TRUE
          /\ \/ o.fp = job.fp /\ o.length = 0
             \/ o.fp = Missing
             \/ o.fp = it.file /\ o.length = len[it.file]
      <4>1. Left(it, o)
        BY <2>2, UnopenedIs
      <4>2. QED
        BY <4>1 DEF Left
    <3>2. o.fp = job.fp /\ o.length = 0
      BY <1>3, <2>1, <3>1, AlpFileAssumption
    <3>3. job'.failed
      <4>1. job'.failed = (job.failed \/ err)
        BY <1>2 DEF After
      <4>2. err
        BY <1>1, <3>1
      <4>3. QED
        BY <4>1, <4>2
    <3>4. ~(len'[f] > len[f])
      BY <1>5, <2>1, <3>2
    <3>5. QED
      BY <1>3, <1>4, <3>2, <3>3, <3>4
  <2>3. CASE o = Written(it) /\ "W" \in job.mod /\ Granted(job, it.file, job.mod) /\ it.file \in File
    <3>1. /\ o.fp = it.file /\ o.length \in Nat
          /\ job.cmd # "overwrite" => o.length >= len[it.file]
      BY <1>1, <2>3, WrittenIs
    <3>2. job.cmd \in Writers /\ (job.su \/ "W" \in mode[f])
      BY <1>3, <2>3, <3>1, WriterIs
    <3>3. len'[f] < len[f] => job.cmd = "overwrite"
      BY <1>3, <1>5, <2>1, <3>1
    <3>4. QED
      BY <1>4, <3>2, <3>3
  <2>4. CASE o = ReadOut(it) /\ it.file \in File
    <3>1. o.fp = it.file /\ o.length = len[it.file]
      BY <1>1, <2>4, ReadOutIs
    <3>2. QED
      BY <1>3, <2>1, <3>1
  <2>5. QED
    BY <1>1, <2>2, <2>3, <2>4, TreatedCases
<1>8. QED
  BY <1>6, <1>7

(* A message changes only files it has opened; it makes them longer only by  *)
(* writes that are allowed, and shorter only by overwriting, by actuating or *)
(* by the second vl_close of a pointer.                                      *)
THEOREM MessagesChangeLengths == Spec => LengthsKept
<1>1. TypeOK /\ ModInv /\ [Next]_vars =>
        [\A f \in File :
           /\ len'[f] # len[f] => f \in job'.opened
           /\ len'[f] > len[f] => \/ job.cmd \in Writers /\ (job.su \/ "W" \in mode[f])
                                  \/ job.cmd = "actuate"
           /\ len'[f] < len[f] => \/ job.cmd \in {"overwrite", "actuate"}
                                  \/ job.respond /\ job'.cut
                                  \/ job'.failed /\ f = job.fp]_vars
  <2>1. SUFFICES ASSUME TypeOK, ModInv, Next, NEW f \in File, len'[f] # len[f]
                 PROVE  /\ f \in job'.opened
                        /\ len'[f] > len[f] => \/ job.cmd \in Writers /\ (job.su \/ "W" \in mode[f])
                                               \/ job.cmd = "actuate"
                        /\ len'[f] < len[f] => \/ job.cmd \in {"overwrite", "actuate"}
                                               \/ job.respond /\ job'.cut
                                               \/ job'.failed /\ f = job.fp
    <3>1. ASSUME TypeOK, NEW f \in File, len'[f] = len[f]
          PROVE  ~(len'[f] > len[f]) /\ ~(len'[f] < len[f])
      <4>1. len[f] \in Nat
        BY <3>1 DEF TypeOK
      <4>2. QED
        BY <3>1, <4>1
    <3>2. QED
      BY <3>1
  <2>2. sub_filedata \/ sub_actuator
    BY <2>1 DEF Next, alp_proc_filedata, sub_fileperms, sub_fileheaders, sub_filedelete, Return
  <2>3. CASE sub_filedata
    <3>1. PICK it \in Parsed(job), full \in BOOLEAN, err \in BOOLEAN : \E o : Pass(it, full, o, err)
      BY <2>1, <2>3, DataStep
    <3>2. PICK o : Pass(it, full, o, err)
      BY <3>1
    <3>3. Busy(DataCommands)
      BY <2>1, <2>3, DataStep
    <3>4. QED
      BY <2>1, <3>2, <3>3, LengthStep
  <2>4. CASE sub_actuator
    <3>1. /\ job.cmd = "actuate"
          /\ \/ len' = len
             \/ /\ Actuator \in File /\ Actuator \in job'.opened
                /\ len' = [len EXCEPT ![Actuator] = Smaller(1, Alloc[Actuator])]
      BY <2>1, <2>4, ActuatorStep
    <3>2. f = Actuator
      BY <2>1, <3>1 DEF TypeOK
    <3>3. QED
      BY <2>1, <3>1, <3>2
  <2>5. QED
    BY <2>2, <2>3, <2>4
<1>2. TypeOK /\ ModInv /\ [Next]_vars => TypeOK' /\ ModInv'
  BY TypeStep, ModInvStep
<1>3. Init => ModInv
  BY ModInvInit
<1>4. QED
  BY <1>1, <1>2, <1>3, Typed, PTL DEF Spec, LengthsKept

-----------------------------------------------------------------------------
(* Where a message stands: what has been taken is items 1 to k - 1, and what *)
(* is left is the others.                                                    *)
At(j, k) ==
  /\ k \in 1..(Len(j.items) + 1)
  /\ j.got = Start(j.cmd, j.items, k) /\ j.left = Size(j) - j.got

LEMMA AtEnd ==
  ASSUME NEW j \in Job, NEW k, At(j, k), k \in 1..Len(j.items)
  PROVE  j.got < Size(j)
<1> DEFINE n == Len(j.items)
<1>1. j.cmd \in Command /\ j.items \in Seq(Item) /\ n \in Nat
  BY JobIs
<1>2. k \in 1..(n + 1) /\ n + 1 \in 1..(n + 1) /\ k < n + 1
  BY <1>1
<1>3. Start(j.cmd, j.items, k) < Start(j.cmd, j.items, n + 1)
  BY <1>1, <1>2, StartsGrow
<1>4. QED
  BY <1>3 DEF At, Size

(* While something is left, it is item k that is read, and then comes the    *)
(* next.                                                                     *)
LEMMA AtItem ==
  ASSUME NEW j \in Job, NEW k, At(j, k), j.left > 0
  PROVE  /\ k \in 1..Len(j.items) /\ Parsed(j) = {j.items[k]} /\ j.items[k] \in Item
         /\ Start(j.cmd, j.items, k + 1) = j.got + Width(j.cmd, j.items[k])
<1> DEFINE n == Len(j.items)
           s(i) == Start(j.cmd, j.items, i)
<1>1. j.cmd \in Command /\ j.items \in Seq(Item) /\ n \in Nat /\ Size(j) \in Nat /\ j.got \in Nat
  BY JobIs, SizeIs
<1>2. k \in 1..(n + 1) /\ j.got = s(k) /\ j.left = Size(j) - j.got /\ Size(j) = s(n + 1)
  BY DEF At, Size
<1>3. k # n + 1
  BY <1>1, <1>2
<1>4. k \in 1..n
  BY <1>1, <1>2, <1>3
<1>5. Starts(j) = {k}
  <2>1. ASSUME NEW i \in 1..n, i # k
        PROVE  s(i) # s(k)
    <3>1. i \in 1..(n + 1) /\ (i < k \/ k < i)
      BY <1>1, <1>2, <2>1
    <3>2. s(i) \in Nat /\ s(k) \in Nat
      BY <1>1, <1>2, <3>1, StartsAre
    <3>3. CASE i < k
      <4>1. s(i) < s(k)
        BY <1>1, <1>2, <3>1, <3>3, StartsGrow
      <4> HIDE DEF s
      <4>2. QED
        BY <3>2, <4>1
    <3>4. CASE k < i
      <4>1. s(k) < s(i)
        BY <1>1, <1>2, <3>1, <3>4, StartsGrow
      <4> HIDE DEF s
      <4>2. QED
        BY <3>2, <4>1
    <3>5. QED
      BY <3>1, <3>3, <3>4
  <2>2. Starts(j) = {i \in 1..n : s(i) = s(k)}
    BY <1>2 DEF Starts
  <2> HIDE DEF s, n
  <2>3. QED
    BY <1>4, <2>1, <2>2
<1>6. Parsed(j) = {j.items[k]}
  BY <1>5 DEF Parsed
<1>7. j.items[k] \in Item
  BY <1>1, <1>4
<1>8. s(k + 1) = s(k) + Width(j.cmd, j.items[k])
  BY <1>1, <1>4, StartsAre
<1>9. QED
  BY <1>2, <1>4, <1>6, <1>7, <1>8

LEMMA AtNext ==
  ASSUME NEW j \in Job, NEW k, At(j, k), j.left > 0, NEW m, Kept(j, m),
         m.got = j.got + Width(j.cmd, j.items[k]), m.left = j.left - Width(j.cmd, j.items[k])
  PROVE  At(m, k + 1)
<1>1. /\ k \in 1..Len(j.items) /\ j.items[k] \in Item
      /\ Start(j.cmd, j.items, k + 1) = j.got + Width(j.cmd, j.items[k])
  BY AtItem
<1>2. m.cmd = j.cmd /\ m.items = j.items
  BY DEF Kept
<1>3. Size(m) = Size(j)
  BY <1>2 DEF Size
<1>4. k + 1 \in 1..(Len(m.items) + 1)
  <2>1. j.items \in Seq(Item)
    BY JobIs
  <2>2. Len(j.items) \in Nat
    BY <2>1
  <2>3. QED
    BY <1>1, <1>2, <2>2
<1>5. m.got = Start(m.cmd, m.items, k + 1)
  BY <1>1, <1>2
<1>6. j.cmd \in Command /\ j.left \in Int /\ j.got \in Nat /\ Size(j) \in Nat
  BY JobIs, SizeIs
<1>7. Width(j.cmd, j.items[k]) \in Nat
  BY <1>1, <1>6, WidthIs
<1>8. j.left = Size(j) - j.got
  BY DEF At
<1>9. m.left = Size(m) - m.got
  BY <1>3, <1>6, <1>7, <1>8
<1>10. QED
  BY <1>4, <1>5, <1>9 DEF At

LEMMA AtStart ==
  ASSUME alp_proc_filedata
  PROVE  At(job', 1)
<1>1. job' \in Job /\ job'.left = Size(job') /\ job'.got = 0
  BY StartStep
<1>2. job'.cmd \in Command /\ job'.items \in Seq(Item) /\ Size(job') \in Nat
  BY <1>1, JobIs, SizeIs
<1>3. Start(job'.cmd, job'.items, 1) = 0
  BY <1>2, StartsAre
<1>4. 1 \in 1..(Len(job'.items) + 1)
  BY <1>2
<1>5. QED
  BY <1>1, <1>2, <1>3, <1>4 DEF At

(* The pass over the item of a message that writes one: nothing is left      *)
(* behind it.  With an even span, all of it was taken.                       *)
LEMMA OneWrite ==
  ASSUME TypeOK, Busy(DataCommands), job.mod = {"W"}, job.cmd \in Writers,
         At(job, 1), Len(job.items) = 1,
         NEW it \in Parsed(job), NEW full \in BOOLEAN, NEW err \in BOOLEAN, NEW o, Pass(it, full, o, err),
         ~job'.cut
  PROVE  /\ job'.left <= 0
         /\ ~job'.failed /\ it.span % 2 = 0 => At(job', 2)
<1>1. it \in Item /\ o = Treated(it, full) /\ Passed(o, err) /\ (o.err => err)
  BY DEF Pass
<1>2. After(o, err)
  BY <1>1, PassedIs
<1>3. job \in Job /\ job.left > 0
  BY BusyIs
<1>4. it = job.items[1]
  BY <1>3, AtItem
<1>5. /\ it.offset \in Nat /\ it.span \in Nat /\ it.span < U16Mod /\ U16Mod \in Nat
      /\ job.left \in Int /\ job.got \in Nat
  BY <1>1, <1>3, ItemIs, JobIs DEF U16Mod
<1>6. Width(job.cmd, it) = 5 + it.span
  BY DEF Width, Writers
<1>7. job.left = 5 + it.span
  <2>1. Start(job.cmd, job.items, 1 + 1) = job.got + Width(job.cmd, job.items[1])
    BY <1>3, AtItem
  <2>2. Size(job) = Start(job.cmd, job.items, 1 + 1)
    BY DEF Size
  <2>3. job.left = Size(job) - job.got
    BY DEF At
  <2>4. QED
    BY <1>4, <1>5, <1>6, <2>1, <2>2, <2>3
<1>8. "W" \in job.mod
  OBVIOUS
<1>9. /\ ~(o.over \/ Again(o))
      /\ job'.left = o.j.left - 5 - o.span
      /\ job'.got = o.j.got \/ job'.got = o.j.got + o.span
      /\ job'.failed = (job.failed \/ err)
  BY <1>2, <1>8 DEF After
<1>10. CASE o = Unopened(it, full)
  <2>1. o.j = Past(5) /\ o.span = it.span /\ o.err = TRUE
    <3>1. Left(it, o)
      BY <1>10, UnopenedIs
    <3>2. QED
      BY <3>1 DEF Left
  <2>2. Past(5).left = job.left
    BY <1>3, BusyIs, PastIs
  <2>3. job'.left <= 0
    BY <1>5, <1>7, <1>9, <2>1, <2>2
  <2>4. job'.failed
    BY <1>1, <1>9, <2>1
  <2>5. QED
    BY <2>3, <2>4
<1>11. CASE o = Written(it) /\ it.file \in File
  <2>1. PICK n \in Nat : Wrote(it, o, n)
    BY <1>1, <1>11, WrittenIs
  <2>2. o.err = (it.offset + it.span > Alloc[it.file])
    BY <1>1, <1>11, WrittenIs
  <2> DEFINE limit == Smaller(it.offset + it.span, Alloc[it.file])
             words == Words(limit - it.offset)
             more == Words(Size(job) + Backlog - job.got - 5)
  <2>3. /\ o.j = [job EXCEPT !.got = job.got + (5 + 2 * n), !.left = job.left - 2 * n]
        /\ o.span = U16(it.span - 2 * n)
        /\ n = Smaller(words, more) /\ o.over = (n < words)
    BY <2>1 DEF Wrote
  <2>4. o.j.got = job.got + (5 + 2 * n) /\ o.j.left = job.left - 2 * n
    BY <1>3, <2>3 DEF Job
  <2>5. Alloc[it.file] \in Nat
    BY <1>11, AllocIs
  <2>6. limit \in Int /\ limit <= it.offset + it.span
    BY <1>5, <2>5, SmallerIs
  <2>7. Size(job) + Backlog - job.got - 5 \in Int
    BY <1>3, <1>5, SizeIs, AlpFileAssumption
  <2>8. more \in Nat
    BY <2>7, WordsAre
  <2> HIDE DEF limit, more
  <2>9. /\ words \in Nat
        /\ 2 * words <= (IF limit - it.offset > 0 THEN limit - it.offset + 1 ELSE 0)
        /\ limit - it.offset > 0 => 2 * words >= limit - it.offset
    <3>1. limit - it.offset \in Int
      BY <1>5, <2>6
    <3>2. QED
      BY <3>1, WordsAre
  <2> HIDE DEF words
  <2>10. n = words
    <3>1. n <= words
      BY <2>3, <2>8, <2>9, SmallerIs
    <3>2. ~(n < words)
      BY <1>9, <2>3
    <3>3. QED
      BY <2>9, <3>1, <3>2
  <2>11. it.span - 2 * n \in Int /\ o.span \in Nat
         /\ (it.span - 2 * n >= 0 => o.span = it.span - 2 * n)
    <3>1. it.span - 2 * n \in Int /\ (it.span - 2 * n >= 0 => it.span - 2 * n < U16Mod)
      BY <1>5
    <3>2. QED
      BY <2>3, <3>1, U16Is
  <2>12. job'.left = it.span - 2 * n - o.span
    BY <1>5, <1>7, <1>9, <2>4, <2>11
  <2>13. job'.left <= 0
    BY <1>5, <2>11, <2>12
  <2>14. ASSUME ~job'.failed, it.span % 2 = 0
         PROVE  At(job', 2)
    <3>1. ~(it.offset + it.span > Alloc[it.file])
      BY <1>1, <1>9, <2>2, <2>14
    <3>2. limit = it.offset + it.span
      BY <1>5, <2>5, <3>1 DEF limit, Smaller
    <3>3. 2 * words >= it.span /\ 2 * words <= it.span + 1
      BY <1>5, <2>9, <3>2
    <3>4. it.span = 2 * n
      BY <1>5, <2>9, <2>10, <2>14, <3>3
    <3>5. o.span = 0
      BY <1>5, <2>11, <3>4
    <3>6. job'.got = job.got + (5 + it.span) /\ job'.left = job.left - (5 + it.span)
      BY <1>5, <1>7, <1>9, <2>4, <2>12, <3>4, <3>5
    <3>7. Kept(job, job')
      BY <1>2 DEF After
    <3>8. At(job', 1 + 1)
      BY <1>3, <1>4, <1>6, <3>6, <3>7, AtNext
    <3>9. QED
      BY <3>8
  <2>15. QED
    BY <2>13, <2>14
<1>12. QED
  BY <1>1, <1>8, <1>10, <1>11, TreatedCases

-----------------------------------------------------------------------------
(* What is counted, and what is put out.  The two differ when the error of a *)
(* reading replaces what was put out, so that nothing may have been put out  *)
(* before; and a message that writes one item has nothing left behind it     *)
(* that could be taken for a reading.                                        *)
CountInv ==
  job # NoJob =>
    /\ job.put # job.data_out => job.failed /\ job.cmd \in DataCommands
    /\ job.cmd \in Readers /\ job.opened = {} =>
         job.put = job.data_out /\ (job.left > 0 /\ ~job.cut => job.put = 0)
    /\ job.cmd \in Writers /\ Len(job.items) = 1 =>
         job.put = job.data_out /\ (job.left > 0 /\ ~job.cut => At(job, 1) /\ job.mod = {"W"})

(* The actions that do not touch file data count what they put out.          *)
LEMMA OtherCounts ==
  ASSUME job \in Job, job # NoJob, CountInv, job.cmd \notin DataCommands, Kept(job, job'),
         NEW n, NEW e \in Nat, Moved(job, job', n, e)
  PROVE  CountInv'
<1>1. job.put = job.data_out
  BY DEF CountInv
<1>2. job'.put = job'.data_out /\ job'.cmd = job.cmd
  BY <1>1 DEF Moved, Kept
<1>3. job'.cmd \notin Readers \cup Writers
  BY <1>2 DEF DataCommands, Readers
<1>4. QED
  BY <1>2, <1>3 DEF CountInv

LEMMA PassCounts ==
  ASSUME TypeOK, Busy(DataCommands), NEW it, NEW full \in BOOLEAN, NEW err \in BOOLEAN,
         NEW o, Pass(it, full, o, err)
  PROVE  \/ job'.put - job'.data_out = job.put - job.data_out
         \/ "W" \notin job.mod /\ err /\ job'.put = 2 /\ job'.data_out = o.j.data_out + 2 /\ job'.left < 0
<1>1. it \in Item /\ o = Treated(it, full) /\ Passed(o, err)
  BY DEF Pass
<1>2. After(o, err)
  BY <1>1, PassedIs
<1>3. o.j \in Job /\ o.j.put - job.put = o.j.data_out - job.data_out /\ o.span \in Nat
  BY <1>1, TreatedIs DEF Fits
<1>4. o.j.put \in Nat /\ o.j.data_out \in Nat
  BY <1>3, JobIs
<1>5. job.put \in Nat /\ job.data_out \in Nat
  BY BusyIs, JobIs
<1>6. \/ job'.put = o.j.put /\ job'.data_out = o.j.data_out
      \/ job'.put = o.j.put + 2 /\ job'.data_out = o.j.data_out + 2
      \/ /\ "W" \notin job.mod /\ err
         /\ job'.put = 2 /\ job'.data_out = o.j.data_out + 2 /\ job'.left = 0 - 5 - o.span
  BY <1>2 DEF After
<1>7. QED
  BY <1>3, <1>4, <1>5, <1>6

(* Before a reading has opened a file nothing is put out but an error.       *)
LEMMA UnopenedCounts ==
  ASSUME TypeOK, Busy(DataCommands), "W" \notin job.mod, job.put = 0, job.data_out = 0,
         NEW it, NEW full \in BOOLEAN, NEW err \in BOOLEAN, NEW o, Pass(it, full, o, err), o.fp \notin File
  PROVE  job'.put = job'.data_out /\ (job'.left > 0 /\ ~job'.cut => job'.put = 0)
<1>1. it \in Item /\ o = Treated(it, full) /\ Passed(o, err) /\ (o.err => err)
  BY DEF Pass
<1>2. After(o, err)
  BY <1>1, PassedIs
<1>3. o = Unopened(it, full)
  <2>1. ~(o = ReadOut(it) /\ it.file \in File)
    <3>1. ASSUME o = ReadOut(it), it.file \in File
          PROVE  FALSE
      <4>1. o.fp = it.file
        BY <1>1, <3>1, ReadOutIs
      <4>2. QED
        BY <3>1, <4>1
    <3>2. QED
      BY <3>1
  <2>2. QED
    BY <1>1, <2>1, TreatedCases
<1>4. o.j = Past(5) /\ o.err = TRUE /\ o.span = it.span
  <2>1. Left(it, o)
    BY <1>3, UnopenedIs
  <2>2. QED
    BY <2>1 DEF Left
<1>5. o.j.put = 0 /\ o.j.data_out = 0
  <2>1. job \in Job
    BY BusyIs
  <2>2. Past(5) = [job EXCEPT !.got = job.got + 5]
    BY DEF Past
  <2>3. QED
    BY <1>4, <2>1, <2>2 DEF Job
<1>6. o.span \in Nat
  BY <1>1, <1>4, ItemIs
<1>7. err
  BY <1>1, <1>4
<1>8. \/ job'.put = 0 /\ job'.data_out = 0
      \/ job'.put = 2 /\ job'.data_out = 0 + 2 /\ job'.left = 0 - 5 - o.span
  BY <1>2, <1>5 DEF After
<1>9. QED
  BY <1>6, <1>8

LEMMA CountStep ==
  ASSUME TypeOK, ModInv, CountInv, [Next]_vars
  PROVE  CountInv'
<1>1. CASE UNCHANGED vars
  <2>1. job' = job
    BY <1>1 DEF vars
  <2>2. QED
    BY <2>1 DEF CountInv, At, Size, Start
<1>2. CASE alp_proc_filedata
  <2>1. /\ job'.mod = IF job'.cmd \in WCommands THEN {"W"} ELSE {"R"}
        /\ job'.put = 0 /\ job'.data_out = 0
    BY <1>2, StartStep
  <2>2. At(job', 1)
    BY <1>2, AtStart
  <2>3. job'.cmd \in Writers => job'.mod = {"W"}
    BY <2>1 DEF WCommands
  <2>4. At(job, 1)'
    BY <2>2 DEF At, Size, Start
  <2>5. QED
    BY <2>1, <2>3, <2>4 DEF CountInv
<1>3. CASE sub_fileperms
  <2>1. /\ job \in Job /\ job.cmd \in {"perms_read", "perms_write"} /\ Closed(job, job')
        /\ \E e \in Nat : Moved(job, job', IF job.mod = {"W"} THEN 2 ELSE 1, e)
    BY <1>3, PermsStep
  <2>2. job # NoJob /\ job.cmd \notin DataCommands /\ Kept(job, job')
    BY <1>3, <2>1 DEF sub_fileperms, Busy, DataCommands, Writers, Closed
  <2>3. QED
    BY <2>1, <2>2, OtherCounts
<1>4. CASE sub_fileheaders
  <2>1. /\ job \in Job /\ job.cmd = "headers" /\ Same(job, job')
        /\ \E e \in Nat : Moved(job, job', 1, e)
    BY <1>4, HeadersStep
  <2>2. job # NoJob /\ job.cmd \notin DataCommands /\ Kept(job, job')
    BY <1>4, <2>1 DEF sub_fileheaders, Busy, DataCommands, Writers, Same, Kept
  <2>3. QED
    BY <2>1, <2>2, OtherCounts
<1>5. CASE sub_filedelete
  <2>1. /\ job \in Job /\ job.cmd \in {"delete", "create", "restore"} /\ Closed(job, job')
        /\ \E n \in Nat, e \in Nat : Moved(job, job', n, e)
    BY <1>5, DeleteStep
  <2>2. job # NoJob /\ job.cmd \notin DataCommands /\ Kept(job, job')
    BY <1>5, <2>1 DEF sub_filedelete, Busy, DataCommands, Writers, Closed
  <2>3. QED
    BY <2>1, <2>2, OtherCounts
<1>6. CASE sub_filedata
  <2>1. PICK it \in Parsed(job), full \in BOOLEAN, err \in BOOLEAN : \E o : Pass(it, full, o, err)
    BY <1>6, DataStep
  <2>2. PICK o : Pass(it, full, o, err)
    BY <2>1
  <2>3. Busy(DataCommands)
    BY <1>6, DataStep
  <2>4. After(o, err)
    <3>1. it \in Item /\ o = Treated(it, full) /\ Passed(o, err)
      BY <2>2 DEF Pass
    <3>2. QED
      BY <2>3, <3>1, PassedIs
  <2>5. /\ job'.cmd = job.cmd /\ job'.items = job.items
        /\ job'.failed = (job.failed \/ err) /\ job'.opened = Opened(o.fp)
    BY <2>4 DEF After, Kept
  <2>6. /\ job # NoJob /\ job.cmd \in DataCommands /\ job.left > 0 /\ ~job.cut
        /\ job \in Job /\ job.put \in Nat /\ job.data_out \in Nat
    BY <2>3, BusyIs, JobIs DEF Busy
  <2>7. job' \in Job /\ job'.put \in Nat /\ job'.data_out \in Nat
    BY <2>4, JobIs DEF After
  <2>8. \/ job'.put - job'.data_out = job.put - job.data_out
        \/ "W" \notin job.mod /\ err
    BY <2>2, <2>3, PassCounts
  <2>9. job'.put # job'.data_out => job'.failed /\ job'.cmd \in DataCommands
    <3>1. job.put # job.data_out => job.failed
      BY <2>6 DEF CountInv
    <3>2. CASE job.put = job.data_out
      BY <2>5, <2>6, <2>7, <2>8, <3>2
    <3>3. CASE job.put # job.data_out
      BY <2>5, <2>6, <3>1, <3>3
    <3>4. QED
      BY <3>2, <3>3
  <2>10. ASSUME job'.cmd \in Readers, job'.opened = {}
         PROVE  job'.put = job'.data_out /\ (job'.left > 0 /\ ~job'.cut => job'.put = 0)
    <3>1. job.opened = {} /\ o.fp \notin File
      BY <2>5, <2>10 DEF Opened
    <3>2. job.put = 0 /\ job.data_out = 0
      BY <2>5, <2>6, <2>10, <3>1 DEF CountInv
    <3>3. "W" \notin job.mod
      BY <2>5, <2>6, <2>10 DEF ModInv
    <3>4. QED
      BY <2>2, <2>3, <3>1, <3>2, <3>3, UnopenedCounts
  <2>11. ASSUME job'.cmd \in Writers, Len(job'.items) = 1
         PROVE  job'.put = job'.data_out /\ ~(job'.left > 0 /\ ~job'.cut)
    <3>1. job.put = job.data_out /\ At(job, 1) /\ job.mod = {"W"}
      BY <2>5, <2>6, <2>11 DEF CountInv
    <3>2. job'.put = job'.data_out
      BY <2>6, <2>7, <2>8, <3>1
    <3>3. ~job'.cut => job'.left <= 0
      <4>1. job.cmd \in Writers /\ Len(job.items) = 1
        BY <2>5, <2>11
      <4>2. QED
        BY <2>2, <2>3, <3>1, <4>1, OneWrite
    <3>4. QED
      <4>1. job'.left \in Int
        BY <2>7, JobIs
      <4>2. QED
        BY <3>2, <3>3, <4>1
  <2>12. QED
    BY <2>9, <2>10, <2>11 DEF CountInv
<1>7. CASE sub_actuator
  <2>1. /\ job \in Job /\ job.cmd = "actuate" /\ Kept(job, job')
        /\ \E e \in Nat : Moved(job, job', 2, e)
    BY <1>7, ActuatorStep
  <2>2. job # NoJob /\ job.cmd \notin DataCommands
    BY <1>7, <2>1 DEF sub_actuator, Busy, DataCommands, Writers
  <2>3. QED
    BY <2>1, <2>2, OtherCounts
<1>8. CASE Return
  BY <1>8 DEF Return, CountInv
<1>9. QED
  BY <1>1, <1>2, <1>3, <1>4, <1>5, <1>6, <1>7, <1>8 DEF Next

(* The length that alp_proc_filedata returns is that of the answer, unless   *)
(* an error has replaced what was put out before it.                         *)
THEOREM RepliesCounted == Spec => []ReplyCounts
<1>1. Init => CountInv
  BY DEF Init, CountInv
<1>2. TypeOK /\ ModInv /\ CountInv /\ [Next]_vars => TypeOK' /\ ModInv' /\ CountInv'
  BY TypeStep, ModInvStep, CountStep
<1>3. TypeOK /\ ModInv /\ CountInv => ReplyCounts
  <2>1. SUFFICES ASSUME TypeOK, ModInv, CountInv, job # NoJob, job.data_out # job.put
                 PROVE  Replaced(job)
    BY DEF ReplyCounts
  <2>2. job.failed /\ job.cmd \in DataCommands
    BY <2>1 DEF CountInv
  <2>3. CASE job.cmd \in Writers
    <3>1. Len(job.items) # 1 /\ Len(job.items) >= 1
      BY <2>1, <2>3 DEF CountInv, ModInv
    <3>2. Len(job.items) \in Nat
      <4>1. job.items \in Seq(Item)
        BY <2>1, JobIs DEF TypeOK
      <4>2. QED
        BY <4>1
    <3>3. Len(job.items) > 1
      <4>1. PICK n \in Nat : n = Len(job.items)
        BY <3>2
      <4>2. n # 1 /\ n >= 1
        BY <3>1, <4>1
      <4>3. n > 1
        BY <4>2
      <4>4. QED
        BY <4>1, <4>3
    <3>4. QED
      BY <2>2, <2>3, <3>3 DEF Replaced
  <2>4. CASE job.cmd \notin Writers
    <3>1. job.cmd \in Readers
      BY <2>2, <2>4 DEF DataCommands, Readers
    <3>2. QED
      BY <2>1, <2>2, <2>4, <3>1 DEF CountInv, Replaced
  <2>5. QED
    BY <2>3, <2>4
<1>4. Init => ModInv
  BY ModInvInit
<1>5. QED
  BY <1>1, <1>2, <1>3, <1>4, Typed, PTL DEF Spec

-----------------------------------------------------------------------------
(* What is taken.  A message whose items all succeed stands, between two     *)
(* passes, where one of its items starts.  For a message of one item that    *)
(* changes something, or that reads permissions, file_mod still tells what   *)
(* it came for.                                                              *)
EvenFor(cmd, it) == it.span % 2 = 0 /\ (cmd \in Readers => Even(it))

Straight ==
  /\ job # NoJob /\ ~job.failed /\ ~job.cut
  /\ Len(job.items) = 1 \/ job.cmd \notin WCommands \cup {"perms_read"}
  /\ \A i \in 1..Len(job.items) : EvenFor(job.cmd, job.items[i])

Fresh(j, k) ==
  k = 1 => /\ j.cmd \in Writers \cup {"perms_write"} => j.mod = {"W"}
           /\ j.cmd = "perms_read" => j.mod = {"R"}

AtInv == Straight => \E k : At(job, k) /\ Fresh(job, k)

LEMMA AtPrimed ==
  ASSUME NEW k, At(job', k), Fresh(job', k)
  PROVE  (At(job, k) /\ Fresh(job, k))'
BY DEF At, Size, Start, Fresh

(* The actions that do not touch file data take items of one width.          *)
LEMMA OtherAt ==
  ASSUME AtInv, job \in Job, job # NoJob, job.left > 0, ~job.cut, job.cmd \notin DataCommands,
         Kept(job, job'), job.failed => job'.failed,
         NEW n, NEW e, Moved(job, job', n, e),
         ASSUME ~job'.failed, job.cmd = "perms_write" => job.mod = {"W"},
                job.cmd = "perms_read" => job.mod = {"R"}, NEW it \in Item
         PROVE  Width(job.cmd, it) = n
  PROVE  AtInv'
<1>1. SUFFICES ASSUME Straight' PROVE \E k : At(job', k) /\ Fresh(job', k)
  BY AtPrimed DEF AtInv
<1>2. job'.cmd = job.cmd /\ job'.items = job.items /\ ~job'.failed
  BY <1>1 DEF Straight, Kept
<1>3. Straight
  <2>1. job.cmd \notin Readers
    BY DEF DataCommands, Readers
  <2>2. \A i \in 1..Len(job.items) : job.items[i].span % 2 = 0
    BY <1>1, <1>2 DEF Straight, EvenFor
  <2>3. \A i \in 1..Len(job.items) : EvenFor(job.cmd, job.items[i])
    BY <2>1, <2>2 DEF EvenFor
  <2>4. Len(job.items) = 1 \/ job.cmd \notin WCommands \cup {"perms_read"}
    BY <1>1, <1>2 DEF Straight
  <2>5. QED
    BY <1>2, <2>3, <2>4 DEF Straight
<1>4. PICK k : At(job, k) /\ Fresh(job, k)
  BY <1>3 DEF AtInv
<1>5. k \in 1..Len(job.items) /\ job.items[k] \in Item
  BY <1>4, AtItem
<1>6. ASSUME job.cmd \in {"perms_write", "perms_read"}
      PROVE  k = 1
  <2>1. Len(job.items) = 1
    BY <1>3, <1>6 DEF Straight, WCommands
  <2>2. k \in 1..1
    BY <1>5, <2>1
  <2>3. QED
    BY <2>2
<1>7. /\ job.cmd = "perms_write" => job.mod = {"W"}
      /\ job.cmd = "perms_read" => job.mod = {"R"}
  BY <1>4, <1>6 DEF Fresh
<1>8. Width(job.cmd, job.items[k]) = n
  BY <1>2, <1>5, <1>7
<1>9. At(job', k + 1)
  BY <1>4, <1>8, AtNext DEF Moved
<1>10. k + 1 # 1
  BY <1>5
<1>11. QED
  BY <1>9, <1>10 DEF Fresh

(* The pass of a reading that succeeds takes the item and nothing more.      *)
LEMMA OneRead ==
  ASSUME TypeOK, Busy(DataCommands), job.cmd \in Readers, "W" \notin job.mod, NEW k, At(job, k),
         NEW it \in Parsed(job), NEW full \in BOOLEAN, NEW err \in BOOLEAN, NEW o, Pass(it, full, o, err),
         ~job'.cut, ~job'.failed, Even(it)
  PROVE  At(job', k + 1)
<1>1. it \in Item /\ o = Treated(it, full) /\ Passed(o, err) /\ (o.err => err)
  BY DEF Pass
<1>2. After(o, err)
  BY <1>1, PassedIs
<1>3. job \in Job /\ job.left > 0
  BY BusyIs
<1>4. it = job.items[k]
  BY <1>3, AtItem
<1>5. it.offset \in Nat /\ it.span \in Nat /\ job.left \in Int /\ job.got \in Nat
  BY <1>1, <1>3, ItemIs, JobIs
<1>6. Width(job.cmd, it) = 5
  BY DEF Width, Writers, Readers
<1>7. /\ ~o.over /\ ~err /\ Kept(job, job')
      /\ job'.left = o.j.left - 5 - o.span /\ job'.got = o.j.got
  <2>1. ~err
    BY <1>2 DEF After
  <2>2. QED
    BY <1>2, <2>1 DEF After
<1>8. o = ReadOut(it) /\ it.file \in File
  <2>1. ASSUME o = Unopened(it, full)
        PROVE  FALSE
    <3>1. Left(it, o)
      BY <2>1, UnopenedIs
    <3>2. o.err = TRUE
      BY <3>1 DEF Left
    <3>3. QED
      BY <1>1, <1>7, <3>2
  <2>2. QED
    BY <1>1, <2>1, TreatedCases
<1>9. PICK e \in Nat, n \in Nat : Shown(it, o, e, n)
  <2>1. \/ o.over = TRUE
        \/ \E e \in Nat, n \in Nat : Shown(it, o, e, n)
    BY <1>1, <1>8, ReadOutIs
  <2>2. QED
    BY <1>7, <2>1
<1> DEFINE span == IF it.offset >= len[it.file] THEN 0 ELSE Smaller(it.span, len[it.file] - it.offset)
<1>10. /\ o.j = Out(Past(5), e) /\ span \in Nat /\ n <= Words(span)
       /\ o.span = U16(span - 2 * n) /\ o.over = (n < Words(span))
  BY <1>9 DEF Shown
<1>11. span % 2 = 0
  <2>1. it.offset % 2 = 0 /\ it.span % 2 = 0 /\ len[it.file] % 2 = 0 /\ len[it.file] \in Nat
    BY <1>8 DEF Even, TypeOK
  <2>2. CASE it.offset >= len[it.file]
    BY <2>2
  <2>3. CASE ~(it.offset >= len[it.file])
    <3>1. (len[it.file] - it.offset) % 2 = 0 /\ len[it.file] - it.offset \in Int
      BY <1>5, <2>1
    <3>2. span \in {it.span, len[it.file] - it.offset}
      BY <1>5, <2>3, <3>1, SmallerIs
    <3>3. QED
      BY <2>1, <3>1, <3>2
  <2>4. QED
    BY <2>2, <2>3
<1> HIDE DEF span
<1>12. /\ Words(span) \in Nat /\ 2 * Words(span) <= (IF span > 0 THEN span + 1 ELSE 0)
       /\ span > 0 => 2 * Words(span) >= span
  <2>1. span \in Int
    BY <1>10
  <2>2. QED
    BY <2>1, WordsAre
<1>13. n = Words(span)
  <2>1. ~(n < Words(span))
    BY <1>7, <1>10
  <2>2. QED
    BY <1>10, <1>12, <2>1
<1>14. 2 * n = span
  BY <1>10, <1>11, <1>12, <1>13
<1>15. o.span = 0
  <2>1. span - 2 * n = 0
    BY <1>10, <1>14
  <2>2. U16(0) = 0
    BY DEF U16, U16Mod
  <2>3. QED
    BY <1>10, <2>1, <2>2
<1>16. o.j.left = job.left /\ o.j.got = job.got + 5
  <2>1. Past(5) \in Job /\ Past(5).left = job.left /\ Past(5).got = job.got + 5
    BY <1>3, BusyIs, PastIs
  <2> DEFINE p == Past(5)
  <2> HIDE DEF p
  <2>2. p \in Job /\ p.left = job.left /\ p.got = job.got + 5
    BY <2>1 DEF p
  <2>3. o.j = [p EXCEPT !.put = p.put + e, !.data_out = p.data_out + e]
    BY <1>10, <2>2, OutIs DEF p
  <2>4. o.j.left = p.left /\ o.j.got = p.got
    BY <2>2, <2>3 DEF Job
  <2>5. QED
    BY <2>2, <2>4
<1>17. job'.left = job.left - 5 /\ job'.got = job.got + 5
  BY <1>5, <1>7, <1>15, <1>16
<1>18. QED
  BY <1>3, <1>4, <1>6, <1>7, <1>17, AtNext

(* A reading that succeeds changes no length.                                *)
LEMMA LengthsStay ==
  ASSUME TypeOK, ModInv, Busy(DataCommands), job.cmd \in Readers,
         NEW it, NEW full \in BOOLEAN, NEW err \in BOOLEAN, NEW o, Pass(it, full, o, err),
         ~job'.cut, ~job'.failed, NEW f \in File
  PROVE  len'[f] = len[f]
<1>1. SUFFICES ASSUME len'[f] # len[f] PROVE FALSE
  OBVIOUS
<1>2. job.cmd \notin Writers /\ job.cmd # "overwrite"
  BY DEF Readers, Writers
<1>3. ~(len'[f] > len[f]) /\ ~(len'[f] < len[f])
  BY <1>1, <1>2, LengthStep
<1>4. it \in Item /\ o = Treated(it, full)
  BY DEF Pass
<1>5. o.length \in Nat
  BY <1>4, TreatedIs
<1>6. len'[f] = IF Again(o) THEN 0 ELSE o.length
  BY <1>1, PassChanges
<1>7. len'[f] \in Nat /\ len[f] \in Nat
  BY <1>5, <1>6 DEF TypeOK
<1>8. QED
  BY <1>1, <1>3, <1>7

LEMMA AtStep ==
  ASSUME TypeOK, ModInv, AtInv, [Next]_vars
  PROVE  AtInv'
<1>1. CASE UNCHANGED vars
  <2>1. job' = job /\ len' = len
    BY <1>1 DEF vars
  <2>2. Straight' => Straight
    BY <2>1 DEF Straight, EvenFor, Even
  <2>3. ASSUME NEW k, At(job, k) /\ Fresh(job, k)
        PROVE  (At(job, k) /\ Fresh(job, k))'
    BY <2>1, <2>3, AtPrimed
  <2>4. QED
    BY <2>2, <2>3 DEF AtInv
<1>2. CASE alp_proc_filedata
  <2>1. job'.mod = IF job'.cmd \in WCommands THEN {"W"} ELSE {"R"}
    BY <1>2, StartStep
  <2>2. Fresh(job', 1)
    BY <2>1 DEF Fresh, WCommands, Writers
  <2>3. (At(job, 1) /\ Fresh(job, 1))'
    BY <1>2, <2>2, AtStart, AtPrimed
  <2>4. QED
    BY <2>3 DEF AtInv
<1>3. CASE sub_fileperms
  <2>1. /\ job \in Job /\ job.cmd \in {"perms_read", "perms_write"} /\ job.left > 0 /\ ~job.cut
        /\ Closed(job, job')
        /\ \E e \in Nat : Moved(job, job', IF job.mod = {"W"} THEN 2 ELSE 1, e)
        /\ IF job.mod = {"W"} THEN job.failed => job'.failed ELSE job'.failed = job.failed
    BY <1>3, PermsStep
  <2>2. job # NoJob /\ job.cmd \notin DataCommands /\ Kept(job, job') /\ (job.failed => job'.failed)
    BY <1>3, <2>1 DEF sub_fileperms, Busy, DataCommands, Writers, Closed
  <2>3. PICK n \in Nat, e \in Nat : Moved(job, job', n, e) /\ n = IF job.mod = {"W"} THEN 2 ELSE 1
    BY <2>1
  <2>4. ASSUME job.cmd = "perms_write" => job.mod = {"W"}, job.cmd = "perms_read" => job.mod = {"R"},
               NEW it \in Item
        PROVE  Width(job.cmd, it) = n
    <3>1. CASE job.cmd = "perms_write"
      BY <2>3, <2>4, <3>1 DEF Width, Writers
    <3>2. CASE job.cmd = "perms_read"
      <4>1. n = 1
        BY <2>3, <2>4, <3>2
      <4>2. QED
        BY <3>2, <4>1 DEF Width, Writers
    <3>3. QED
      BY <2>1, <3>1, <3>2
  <2>5. QED
    BY <2>1, <2>2, <2>3, <2>4, OtherAt
<1>4. CASE sub_fileheaders
  <2>1. /\ job \in Job /\ job.cmd = "headers" /\ job.left > 0 /\ ~job.cut /\ Same(job, job')
        /\ \E e \in Nat : Moved(job, job', 1, e)
    BY <1>4, HeadersStep
  <2>2. /\ job # NoJob /\ job.cmd \notin DataCommands /\ Kept(job, job')
        /\ (job.failed => job'.failed)
    BY <1>4, <2>1 DEF sub_fileheaders, Busy, DataCommands, Writers, Same, Kept
  <2>3. \A it \in Item : Width(job.cmd, it) = 1
    BY <2>1 DEF Width, Writers
  <2>4. QED
    BY <2>1, <2>2, <2>3, OtherAt
<1>5. CASE sub_filedelete
  <2>1. job'.failed = TRUE
    BY <1>5, DeleteStep
  <2>2. QED
    BY <2>1 DEF AtInv, Straight
<1>6. CASE sub_filedata
  <2>1. PICK it \in Parsed(job), full \in BOOLEAN, err \in BOOLEAN : \E o : Pass(it, full, o, err)
    BY <1>6, DataStep
  <2>2. PICK o : Pass(it, full, o, err)
    BY <2>1
  <2>3. Busy(DataCommands)
    BY <1>6, DataStep
  <2>4. After(o, err)
    <3>1. it \in Item /\ o = Treated(it, full) /\ Passed(o, err)
      BY <2>2 DEF Pass
    <3>2. QED
      BY <2>3, <3>1, PassedIs
  <2>5. /\ job'.cmd = job.cmd /\ job'.items = job.items /\ (job.failed => job'.failed)
    BY <2>4 DEF After, Kept
  <2>6. /\ job # NoJob /\ job.cmd \in DataCommands /\ job.left > 0 /\ ~job.cut /\ job \in Job
    BY <2>3, BusyIs DEF Busy
  <2>7. SUFFICES ASSUME Straight' PROVE \E k : At(job', k) /\ Fresh(job', k)
    BY AtPrimed DEF AtInv
  <2>8. ~job'.failed /\ ~job'.cut /\ ~job.failed
    BY <2>5, <2>7 DEF Straight
  <2>9. /\ Len(job.items) = 1 \/ job.cmd \notin WCommands \cup {"perms_read"}
        /\ \A i \in 1..Len(job.items) : job.items[i].span % 2 = 0
    BY <2>5, <2>7 DEF Straight, EvenFor
  <2>10. CASE job.cmd \in Readers
    <3>1. \A f \in File : len'[f] = len[f]
      BY <2>2, <2>3, <2>8, <2>10, LengthsStay
    <3>2. \A i \in 1..Len(job.items) : Even(job.items[i])
      <4> TAKE i \in 1..Len(job.items)
      <4>1. EvenFor(job.cmd, job.items[i])'
        BY <2>5, <2>7 DEF Straight
      <4>2. Even(job.items[i])'
        BY <2>5, <2>10, <4>1 DEF EvenFor
      <4>3. QED
        BY <2>5, <3>1, <4>2 DEF Even
    <3>3. Straight
      BY <2>6, <2>8, <2>9, <3>2 DEF Straight, EvenFor
    <3>4. PICK k : At(job, k) /\ Fresh(job, k)
      BY <3>3 DEF AtInv
    <3>5. k \in 1..Len(job.items) /\ Parsed(job) = {job.items[k]}
      BY <2>6, <3>4, AtItem
    <3>6. Even(it)
      BY <3>2, <3>5
    <3>7. "W" \notin job.mod
      BY <2>6, <2>10 DEF ModInv
    <3>8. At(job', k + 1)
      BY <2>2, <2>3, <2>8, <2>10, <3>4, <3>6, <3>7, OneRead
    <3>9. k + 1 # 1
      BY <3>5
    <3>10. QED
      BY <3>8, <3>9 DEF Fresh
  <2>11. CASE job.cmd \in Writers
    <3>1. Len(job.items) = 1
      BY <2>9, <2>11 DEF WCommands
    <3>2. job.cmd \notin Readers
      BY <2>11 DEF Readers, Writers
    <3>3. Straight
      BY <2>6, <2>8, <2>9, <3>2 DEF Straight, EvenFor
    <3>4. PICK k : At(job, k) /\ Fresh(job, k)
      BY <3>3 DEF AtInv
    <3>5. k \in 1..Len(job.items) /\ Parsed(job) = {job.items[k]}
      BY <2>6, <3>4, AtItem
    <3>6. k = 1
      <4>1. k \in 1..1
        BY <3>1, <3>5
      <4>2. QED
        BY <4>1
    <3>7. At(job, 1) /\ job.mod = {"W"}
      BY <2>11, <3>4, <3>6 DEF Fresh
    <3>8. it.span % 2 = 0
      BY <2>9, <3>5
    <3>9. At(job', 2)
      BY <2>2, <2>3, <2>8, <2>11, <3>1, <3>7, <3>8, OneWrite
    <3>10. QED
      BY <3>9 DEF Fresh
  <2>12. QED
    BY <2>6, <2>10, <2>11 DEF DataCommands, Readers
<1>7. CASE sub_actuator
  <2>1. /\ job \in Job /\ job.cmd = "actuate" /\ job.left > 0 /\ ~job.cut /\ Kept(job, job')
        /\ (job.failed => job'.failed)
        /\ \E e \in Nat : Moved(job, job', 2, e)
    BY <1>7, ActuatorStep
  <2>2. job # NoJob /\ job.cmd \notin DataCommands
    BY <1>7, <2>1 DEF sub_actuator, Busy, DataCommands, Writers
  <2>3. \A it \in Item : Width(job.cmd, it) = 2
    BY <2>1 DEF Width, Writers
  <2>4. QED
    BY <2>1, <2>2, <2>3, OtherAt
<1>8. CASE Return
  BY <1>8 DEF Return, AtInv, Straight
<1>9. QED
  BY <1>1, <1>2, <1>3, <1>4, <1>5, <1>6, <1>7, <1>8 DEF Next

(* A message whose items all succeed is taken whole, item by item.           *)
THEOREM MessagesConsumed == Spec => []Consumed
<1>1. Init => AtInv
  BY DEF Init, AtInv, Straight
<1>2. TypeOK /\ ModInv /\ AtInv /\ [Next]_vars => TypeOK' /\ ModInv' /\ AtInv'
  BY TypeStep, ModInvStep, AtStep
<1>3. TypeOK /\ AtInv => Consumed
  <2>1. SUFFICES ASSUME TypeOK, AtInv, job # NoJob, job.left <= 0, ~job.failed, ~job.cut,
                        Len(job.items) = 1 \/ job.cmd \notin WCommands \cup {"perms_read"},
                        \A i \in 1..Len(job.items) : Even(job.items[i])
                 PROVE  job.got = Size(job)
    BY DEF Consumed
  <2>2. Straight
    BY <2>1 DEF Straight, EvenFor, Even
  <2>3. PICK k : At(job, k)
    BY <2>1, <2>2 DEF AtInv
  <2>4. job \in Job
    BY <2>1 DEF TypeOK
  <2>5. job.left \in Int /\ job.got \in Nat /\ Size(job) \in Nat /\ job.left = Size(job) - job.got
    BY <2>3, <2>4, JobIs, SizeIs DEF At
  <2>6. ~(job.got < Size(job))
    BY <2>1, <2>5
  <2>7. k \notin 1..Len(job.items)
    BY <2>3, <2>4, <2>6, AtEnd
  <2>8. k = Len(job.items) + 1
    <3>1. job.items \in Seq(Item)
      BY <2>4, JobIs
    <3>2. PICK n \in Nat : n = Len(job.items)
      BY <3>1
    <3>3. k \in 1..(n + 1) /\ k \notin 1..n
      BY <2>3, <2>7, <3>2 DEF At
    <3>4. k = n + 1
      BY <3>3
    <3>5. QED
      BY <3>2, <3>4
  <2>9. QED
    BY <2>3, <2>8 DEF At, Size
<1>4. Init => ModInv
  BY ModInvInit
<1>5. QED
  BY <1>1, <1>2, <1>3, <1>4, Typed, PTL DEF Spec
=============================================================================
