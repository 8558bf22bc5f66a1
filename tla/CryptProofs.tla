----------------------------- MODULE CryptProofs -----------------------------
(* Theorems of module Crypt, for any devices, builds, keys, sizes of bytes   *)
(* and queues that satisfy CryptAssumption.                                  *)
EXTENDS Crypt, TLAPS

-----------------------------------------------------------------------------
(* Nonces: four digits tell each from every other.                           *)

LEMMA SameNumber ==
  ASSUME NEW n \in Nat, NEW m \in Nat, NEW b \in Nat, b > 0,
         n \div b = m \div b, n % b = m % b
  PROVE  n = m
<1>1. n = b * (n \div b) + (n % b)
  OBVIOUS
<1>2. m = b * (m \div b) + (m % b)
  OBVIOUS
<1>3. QED
  BY <1>1, <1>2

LEMMA DivDiv ==
  ASSUME NEW n \in Nat, NEW b \in Nat, b > 0, NEW c \in Nat, c > 0
  PROVE  n \div (b * c) = (n \div b) \div c
OBVIOUS

LEMMA DigitsDiffer ==
  ASSUME NEW n \in Nat, NEW m \in Nat, HighFirst(n) = HighFirst(m)
  PROVE  n = m
<1>1. Base \in Nat /\ Base > 0
  BY CryptAssumption
<1> DEFINE n1 == n \div Base   m1 == m \div Base
           n2 == n1 \div Base  m2 == m1 \div Base
           n3 == n2 \div Base  m3 == m2 \div Base
<1>2. /\ n1 \in Nat /\ n2 \in Nat /\ n3 \in Nat /\ m1 \in Nat /\ m2 \in Nat /\ m3 \in Nat
  <2>1. \A x \in Nat : x \div Base \in Nat
    BY <1>1
  <2>2. QED
    BY <2>1
<1>3. /\ n \div (Base * Base) = n2 /\ m \div (Base * Base) = m2
  BY <1>1, DivDiv
<1>4. /\ n \div (Base * Base * Base) = n3 /\ m \div (Base * Base * Base) = m3
  <2>1. Base * Base \in Nat /\ Base * Base > 0
    BY <1>1
  <2>2. n \div ((Base * Base) * Base) = (n \div (Base * Base)) \div Base
    BY <1>1, <2>1, DivDiv
  <2>3. m \div ((Base * Base) * Base) = (m \div (Base * Base)) \div Base
    BY <1>1, <2>1, DivDiv
  <2>4. QED
    BY <1>3, <2>2, <2>3
<1>5. /\ n \div (Base * Base * Base) = m \div (Base * Base * Base)
      /\ (n \div (Base * Base)) % Base = (m \div (Base * Base)) % Base
      /\ (n \div Base) % Base = (m \div Base) % Base
      /\ n % Base = m % Base
  BY DEF HighFirst
<1>6. n3 = m3 /\ n2 % Base = m2 % Base /\ n1 % Base = m1 % Base
  BY <1>3, <1>4, <1>5
<1> HIDE DEF n3, m3
<1>7. n2 = m2
  <2>1. n2 \div Base = m2 \div Base
    BY <1>6 DEF n3, m3
  <2> HIDE DEF n2, m2
  <2>2. QED
    BY <1>1, <1>2, <1>6, <2>1, SameNumber
<1>8. n1 = m1
  <2>1. n1 \div Base = m1 \div Base
    BY <1>7
  <2> HIDE DEF n1, m1
  <2>2. QED
    BY <1>1, <1>2, <1>6, <2>1, SameNumber
<1>9. n \div Base = m \div Base
  BY <1>8
<1>10. QED
  BY <1>1, <1>5, <1>9, SameNumber

LEMMA NonceModIs == NonceMod \in Nat /\ NonceMod > 0
<1>1. Base \in Nat /\ Base > 0
  BY CryptAssumption
<1>2. Base * Base \in Nat /\ Base * Base > 0
  BY <1>1
<1>3. Base * Base * Base \in Nat /\ Base * Base * Base > 0
  BY <1>1, <1>2
<1>4. QED
  BY <1>1, <1>3 DEF NonceMod

(* The number after n, and the one i before it.                              *)
Nonce == 0..(NonceMod - 1)
Following(n) == IF n + 1 = NonceMod THEN 0 ELSE n + 1
Back(n, i) == IF i <= n THEN n - i ELSE n - i + NonceMod

LEMMA FollowingIs ==
  ASSUME NEW n \in Nonce
  PROVE  /\ (n + 1) % NonceMod = Following(n) /\ Following(n) \in Nonce
         /\ Back(Following(n), 1) = n
         /\ \A i \in Nat : i < NonceMod => Back(Following(n), i + 1) = Back(n, i)
<1>1. PICK m \in Nat : m = NonceMod /\ m > 0
  BY NonceModIs
<1>2. n \in Nat /\ n + 1 <= m
  BY <1>1 DEF Nonce
<1>3. (n + 1) % m = IF n + 1 = m THEN 0 ELSE n + 1
  <2>1. m % m = 0
    BY <1>1
  <2>2. n + 1 < m => (n + 1) % m = n + 1
    BY <1>1, <1>2
  <2>3. QED
    BY <1>1, <1>2, <2>1, <2>2
<1>4. QED
  BY <1>1, <1>2, <1>3 DEF Following, Back, Nonce

LEMMA BackIs ==
  ASSUME NEW n \in Nonce, NEW i \in 1..NonceMod, NEW j \in 1..NonceMod
  PROVE  Back(n, i) \in Nonce /\ (i # j => Back(n, i) # Back(n, j))
<1>1. PICK m \in Nat : m = NonceMod /\ m > 0
  BY NonceModIs
<1>2. n \in Nat /\ n < m /\ i \in 1..m /\ j \in 1..m
  BY <1>1 DEF Nonce
<1>3. QED
  BY <1>1, <1>2 DEF Back, Nonce

LEMMA FollowingDiffer ==
  ASSUME NEW n \in Nonce, NEW m \in Nonce, Following(n) = Following(m)
  PROVE  n = m
BY NonceModIs DEF Following, Nonce

-----------------------------------------------------------------------------
(* The IV a device makes when its nonce is n.                                *)
Digits(d, n) == IF build[d].takes = "put" THEN LowFirst(n) ELSE HighFirst(Following(n))
Iv(d, n) == [i \in 1..7 |-> IF i <= 3 THEN <<"id", d>> ELSE Digits(d, n)[i - 3]]

LEMMA HighFirstIs ==
  ASSUME NEW n
  PROVE  /\ Len(HighFirst(n)) = 4 /\ Len(LowFirst(n)) = 4
         /\ HighFirst(n) = [i \in 1..4 |-> HighFirst(n)[i]]
         /\ LowFirst(n) = [i \in 1..4 |-> LowFirst(n)[i]]
         /\ \A i \in 1..4 : LowFirst(n)[i] = HighFirst(n)[5 - i]
BY DEF HighFirst, LowFirst

LEMMA LowDiffer ==
  ASSUME NEW n \in Nat, NEW m \in Nat, LowFirst(n) = LowFirst(m)
  PROVE  n = m
<1>1. \A i \in 1..4 : HighFirst(n)[5 - i] = HighFirst(m)[5 - i]
  BY HighFirstIs
<1>2. \A i \in 1..4 : 5 - i \in 1..4 /\ 5 - (5 - i) = i
  OBVIOUS
<1>3. \A i \in 1..4 : HighFirst(n)[i] = HighFirst(m)[i]
  BY <1>1, <1>2
<1>4. HighFirst(n) = HighFirst(m)
  <2>1. [i \in 1..4 |-> HighFirst(n)[i]] = [i \in 1..4 |-> HighFirst(m)[i]]
    BY <1>3
  <2>2. QED
    BY <2>1, HighFirstIs
<1>5. QED
  BY <1>4, DigitsDiffer

(* It tells the device and the nonce.                                        *)
LEMMA IvsDiffer ==
  ASSUME NEW d \in Device, NEW e \in Device, NEW n \in Nonce, NEW m \in Nonce, Iv(d, n) = Iv(e, m)
  PROVE  d = e /\ n = m
<1>1. d = e
  <2>1. Iv(d, n)[1] = <<"id", d>> /\ Iv(e, m)[1] = <<"id", e>>
    BY DEF Iv
  <2>2. QED
    BY <2>1
<1>2. ASSUME NEW i \in 1..4
      PROVE  Digits(d, n)[i] = Digits(d, m)[i]
  <2>1. i + 3 \in 1..7 /\ ~(i + 3 <= 3) /\ (i + 3) - 3 = i
    OBVIOUS
  <2>2. Iv(d, n)[i + 3] = Iv(d, m)[i + 3]
    BY <1>1
  <2> HIDE DEF Iv
  <2>3. QED
    BY <2>1, <2>2 DEF Iv
<1>3. n \in Nat /\ m \in Nat /\ Following(n) \in Nat /\ Following(m) \in Nat
  BY NonceModIs DEF Nonce, Following
<1>4. CASE build[d].takes = "put"
  <2>1. \A i \in 1..4 : LowFirst(n)[i] = LowFirst(m)[i]
    BY <1>2, <1>4 DEF Digits
  <2>2. [i \in 1..4 |-> LowFirst(n)[i]] = [i \in 1..4 |-> LowFirst(m)[i]]
    BY <2>1
  <2>3. LowFirst(n) = LowFirst(m)
    BY <2>2, HighFirstIs
  <2>4. QED
    BY <1>1, <1>3, <2>3, LowDiffer
<1>5. CASE build[d].takes # "put"
  <2>1. \A i \in 1..4 : HighFirst(Following(n))[i] = HighFirst(Following(m))[i]
    BY <1>2, <1>5 DEF Digits
  <2>2. [i \in 1..4 |-> HighFirst(Following(n))[i]] = [i \in 1..4 |-> HighFirst(Following(m))[i]]
    BY <2>1
  <2>3. HighFirst(Following(n)) = HighFirst(Following(m))
    BY <2>2, HighFirstIs
  <2>4. Following(n) = Following(m)
    BY <1>3, <2>3, DigitsDiffer
  <2>5. QED
    BY <1>1, <2>4, FollowingDiffer
<1>6. QED
  BY <1>4, <1>5

-----------------------------------------------------------------------------
(* Buffers.                                                                  *)

(* Bytes that end before those written stay.                                 *)
LEMMA BytesStay ==
  ASSUME NEW m, NEW p \in Nat, NEW s, Len(s) \in Nat, NEW t \in Nat, NEW n \in Nat,
         t + n <= p, t + n <= Alloc
  PROVE  Bytes(Written(m, p, s), t, n) = Bytes(m, t, n)
<1>1. ASSUME NEW i \in 1..n
      PROVE  Written(m, p, s)[t + i - 1] = m[t + i - 1]
  <2>1. t + i - 1 \in Place /\ t + i - 1 \notin p..(p + Len(s) - 1)
    BY CryptAssumption DEF Place
  <2>2. QED
    BY <2>1 DEF Written
<1>2. QED
  BY <1>1 DEF Bytes

(* What was written is there.                                                *)
LEMMA BytesWritten ==
  ASSUME NEW m, NEW p \in Nat, NEW s, Len(s) \in Nat, p + Len(s) <= Alloc
  PROVE  Bytes(Written(m, p, s), p, Len(s)) = [i \in 1..Len(s) |-> s[i]]
<1>1. PICK n \in Nat : n = Len(s)
  OBVIOUS
<1>2. ASSUME NEW i \in 1..n
      PROVE  Written(m, p, s)[p + i - 1] = s[i]
  <2>1. p + i - 1 \in Place /\ p + i - 1 \in p..(p + n - 1) /\ (p + i - 1) - p + 1 = i
    BY <1>1, CryptAssumption DEF Place
  <2>2. QED
    BY <1>1, <2>1 DEF Written
<1>3. QED
  BY <1>1, <1>2 DEF Bytes

(* An ID, and the four digits that are put behind it.                        *)
Named(d, m, p) == \A i \in 1..3 : m[p + i - 1] = <<"id", d>>

LEMMA NamedWritten ==
  ASSUME NEW d, NEW m, NEW p \in Nat, p + 3 <= Alloc
  PROVE  Named(d, Written(m, p, [i \in 1..3 |-> <<"id", d>>]), p)
<1> DEFINE s == [i \in 1..3 |-> <<"id", d>>]
<1>1. Len(s) = 3
  OBVIOUS
<1>2. ASSUME NEW i \in 1..3
      PROVE  Written(m, p, s)[p + i - 1] = <<"id", d>>
  <2>1. p + i - 1 \in Place /\ p + i - 1 \in p..(p + 3 - 1) /\ (p + i - 1) - p + 1 = i
    BY CryptAssumption DEF Place
  <2>2. Written(m, p, s)[p + i - 1] = s[i]
    BY <1>1, <2>1 DEF Written
  <2>3. QED
    BY <2>2
<1>3. QED
  BY <1>2 DEF Named

LEMMA IvWritten ==
  ASSUME NEW d, NEW m, NEW p \in Nat, p + 7 <= Alloc, Named(d, m, p),
         NEW n, NEW s, Len(s) = 4, Digits(d, n) = s
  PROVE  Bytes(Written(m, p + 3, s), p, 7) = Iv(d, n)
<1> DEFINE w == Written(m, p + 3, s)
<1>1. ASSUME NEW i \in 1..7
      PROVE  w[p + i - 1] = IF i <= 3 THEN <<"id", d>> ELSE s[i - 3]
  <2>1. p + i - 1 \in Place
    BY CryptAssumption DEF Place
  <2>2. CASE i <= 3
    <3>1. p + i - 1 \notin (p + 3)..(p + 3 + 4 - 1) /\ i \in 1..3
      BY <2>2
    <3>2. w[p + i - 1] = m[p + i - 1]
      BY <2>1, <3>1 DEF Written
    <3>3. QED
      BY <2>2, <3>1, <3>2 DEF Named
  <2>3. CASE ~(i <= 3)
    <3>1. p + i - 1 \in (p + 3)..(p + 3 + 4 - 1) /\ (p + i - 1) - (p + 3) + 1 = i - 3
      BY <2>3
    <3>2. w[p + i - 1] = s[i - 3]
      BY <2>1, <3>1 DEF Written
    <3>3. QED
      BY <2>3, <3>2
  <2>4. QED
    BY <2>2, <2>3
<1> HIDE DEF w
<1>2. Bytes(w, p, 7) = [i \in 1..7 |-> IF i <= 3 THEN <<"id", d>> ELSE s[i - 3]]
  BY <1>1 DEF Bytes
<1>3. QED
  BY <1>2 DEF Iv, w

-----------------------------------------------------------------------------
(* Types: where the cursors are at each stage.                               *)
FrameRecord == [start : Nat, of : Nat, intact : BOOLEAN, key : Key \cup {Wiped}]
Sequence(s) == \E S : s \in Seq(S)

Cursors(d) ==
  /\ stage[d] = "named" =>
       q[d].get \in Starts(d) /\ q[d].put \in {q[d].get, q[d].get + 3} /\ q[d].back = Alloc
  /\ stage[d] = "nonced" =>
       q[d].get \in Starts(d) /\ q[d].put = q[d].get + 7 /\ q[d].back = Alloc
  /\ stage[d] = "plain" =>
       q[d].get \in Starts(d) /\ q[d].get + 7 <= q[d].put /\ q[d].put + 4 <= q[d].back
  /\ stage[d] = "sealed" =>
       q[d].get \in Starts(d) /\ q[d].get + 11 <= q[d].put
  /\ stage[d] = "got" =>
       /\ frame[d].start \in Starts(d) /\ frame[d].start + 11 <= q[d].put
       /\ q[d].get \in {frame[d].start, frame[d].start + 7} /\ q[d].back = Alloc

TypeInv ==
  /\ TypeOK
  /\ frame \in [Device -> FrameRecord] /\ rc \in [Device -> Int] /\ DOMAIN mem = Device
  /\ \A d \in Device : Cursors(d)
  /\ Sequence(sealed)
  /\ \A f \in air : f.of \in Nat /\ Sequence(f.bytes)

LEMMA StartsIs ==
  ASSUME NEW d \in Device, NEW s \in Starts(d)
  PROVE  s \in Nat /\ s + 7 <= Alloc /\ (build[d].port = "c2000" => s = 0)
BY CryptAssumption DEF Starts

LEMMA SeqLen ==
  ASSUME NEW s, Sequence(s)
  PROVE  Len(s) \in Nat /\ DOMAIN s = 1..Len(s) /\ s = [i \in 1..Len(s) |-> s[i]]
<1>1. PICK S : s \in Seq(S)
  BY DEF Sequence
<1>2. QED
  BY <1>1

LEMMA SeqAppend ==
  ASSUME NEW s, NEW x, Sequence(s)
  PROVE  /\ Sequence(Append(s, x)) /\ Len(Append(s, x)) = Len(s) + 1
         /\ DOMAIN Append(s, x) = 1..(Len(s) + 1)
         /\ \A i \in 1..Len(s) : Append(s, x)[i] = s[i]
         /\ Append(s, x)[Len(s) + 1] = x
<1>1. PICK S : s \in Seq(S)
  BY DEF Sequence
<1> DEFINE T == S \cup {x}
<1>2. s \in Seq(T) /\ x \in T
  BY <1>1
<1>3. Append(s, x) \in Seq(T)
  BY <1>2
<1>4. QED
  BY <1>2, <1>3 DEF Sequence

LEMMA SeqFunction ==
  ASSUME NEW S, NEW n \in Nat, NEW s \in [1..n -> S]
  PROVE  Sequence(s) /\ Len(s) = n
<1>1. s \in Seq(S)
  OBVIOUS
<1>2. Len(s) = n
  OBVIOUS
<1>3. QED
  BY <1>1, <1>2 DEF Sequence

LEMMA SeqBytes ==
  ASSUME NEW m, NEW p \in Int, NEW n \in Nat
  PROVE  Sequence(Bytes(m, p, n)) /\ Len(Bytes(m, p, n)) = n
<1> DEFINE S == {m[p + i - 1] : i \in 1..n}
<1>1. Bytes(m, p, n) \in [1..n -> S]
  BY DEF Bytes
<1> HIDE DEF S
<1>2. QED
  BY <1>1, SeqFunction

(* What arrives of a sequence of bytes.                                      *)
LEMMA SeqArrives ==
  ASSUME NEW f, Sequence(f.bytes), NEW b \in Arrivals(f)
  PROVE  Sequence(b)
<1>1. PICK S : f.bytes \in Seq(S)
  BY DEF Sequence
<1> DEFINE T == S \cup {<<"junk">>}
<1>2. f.bytes \in Seq(T)
  BY <1>1
<1>3. CASE b = f.bytes
  BY <1>3
<1>4. CASE b = SubSeq(f.bytes, 1, Len(f.bytes) - 1)
  <2>1. b \in Seq(T)
    BY <1>2, <1>4
  <2>2. QED
    BY <2>1 DEF Sequence
<1>5. ASSUME NEW i \in Damage \cap DOMAIN f.bytes, b = [f.bytes EXCEPT ![i] = <<"junk">>]
      PROVE  Sequence(b)
  <2>1. b \in [1..Len(f.bytes) -> T] /\ Len(f.bytes) \in Nat
    BY <1>2, <1>5
  <2>2. b \in Seq(T)
    BY <2>1
  <2>3. QED
    BY <2>2 DEF Sequence
<1>6. QED
  BY <1>3, <1>4, <1>5 DEF Arrivals

-----------------------------------------------------------------------------
(* What the operations come to: where frames start, every port takes IV and  *)
(* data from the same places.                                                *)
Numbers(d) ==
  /\ Goes(d, "named", "nonced")
  /\ dlls_nonce' = [dlls_nonce EXCEPT ![d] = Following(dlls_nonce[d])]
  /\ q' = [q EXCEPT ![d].put = q[d].get + 7]
  /\ mem' = [mem EXCEPT ![d] = Written(@, q[d].get + 3, Digits(d, dlls_nonce[d]))]
  /\ UNCHANGED <<build, dlls_size, dlls_ctx, frame, rc, sealed, air>>

Length(d) == q[d].put - (q[d].get + 7)

Seals(d) ==
  \E key \in Key \cup {Wiped} :
    /\ Goes(d, "plain", "sealed")
    /\ EAXdrv_encrypt(d, q[d].get, q[d].get + 7, Length(d), key)
    /\ q' = [q EXCEPT ![d].put = @ + 4]
    /\ UNCHANGED <<build, device, rc, air>>

Refuses(d) ==
  /\ stage[d] = "plain"
  /\ \/ mem' = mem
     \/ \E x : mem' = [mem EXCEPT ![d] = Written(@, q[d].put, <<Zero, Zero, Zero, x>>)]
  /\ UNCHANGED <<build, device, q, stage, frame, rc, sealed, air>>

Unseals(d) ==
  \E key \in Key \cup {Wiped}, ok \in BOOLEAN :
    /\ ok <=> Opens(d, q[d].get, q[d].get + 7, Length(d) - 4, key) # {}
    /\ q[d].get = frame[d].start
    /\ Goes(d, "got", "opened")
    /\ EAXdrv_decrypt(d, q[d].get, q[d].get + 7, Length(d) - 4, key)
    /\ q' = [q EXCEPT ![d] = [get |-> q[d].get + 7, put |-> q[d].put - (IF ok THEN 4 ELSE 0),
                              back |-> q[d].back - (IF ok THEN 4 ELSE 0)]]
    /\ rc' = [rc EXCEPT ![d] = IF ok THEN 4 ELSE -2]
    /\ frame' = [frame EXCEPT ![d].key = key]
    /\ UNCHANGED <<build, device, sealed, air>>

Passes(d) ==
  /\ q[d].get = frame[d].start
  /\ stage[d] = "got"
  /\ q' = [q EXCEPT ![d].get = q[d].get + 7]
  /\ rc' = [rc EXCEPT ![d] = -1]
  /\ UNCHANGED <<build, device, mem, stage, frame, sealed, air>>

Step(d) ==
  \/ auth_init(d) \/ auth_deinit(d)
  \/ Begin(d) \/ Numbers(d) \/ Payload(d) \/ Seals(d) \/ Refuses(d)
  \/ Transmit(d) \/ Receive(d)
  \/ Unseals(d) \/ Passes(d) \/ Retry(d) \/ Done(d)

LEMMA KeyIs ==
  ASSUME TypeInv, NEW d \in Device, NEW i \in Int, 0 <= i, i < dlls_size[d]
  PROVE  dlls_ctx[d][i] \in Key \cup {Wiped}
<1>1. dlls_size[d] \in {0, 2} /\ dlls_ctx[d] \in [0..1 -> Key \cup {Wiped}]
  BY DEF TypeInv, TypeOK
<1>2. i \in 0..1
  BY <1>1
<1>3. QED
  BY <1>1, <1>2

LEMMA CursorsAt ==
  ASSUME TypeInv, NEW d \in Device
  PROVE  /\ Cursors(d) /\ q[d] \in [get : 0..Alloc, put : 0..Alloc, back : 0..Alloc]
         /\ q[d].get \in Int /\ q[d].put \in Int /\ q[d].back \in Int
         /\ 0 <= q[d].get /\ q[d].get <= q[d].put /\ q[d].put <= q[d].back /\ q[d].back <= Alloc
         /\ frame[d] \in FrameRecord
<1>1. Alloc \in Nat
  BY CryptAssumption
<1>2. /\ q[d] \in [get : 0..Alloc, put : 0..Alloc, back : 0..Alloc]
      /\ q[d].get <= q[d].put /\ q[d].put <= q[d].back
      /\ frame[d] \in FrameRecord /\ Cursors(d)
  BY DEF TypeInv, TypeOK
<1>3. q[d].get \in 0..Alloc /\ q[d].put \in 0..Alloc /\ q[d].back \in 0..Alloc
  BY <1>2
<1>4. QED
  BY <1>1, <1>2, <1>3

LEMMA NumbersIs ==
  ASSUME TypeInv, NEW d \in Device,
         auth_putnonce_q(d) \/ auth_putnonce(d) \/ auth_getnonce(d)
  PROVE  Numbers(d)
<1>1. /\ stage[d] = "named" /\ build[d].takes \in {"put", "get"}
      /\ q[d].get \in Int /\ (q[d].put = q[d].get \/ q[d].put = q[d].get + 3)
      /\ dlls_nonce[d] \in Nonce
  <2>1. stage[d] = "named" /\ build[d].takes \in {"put", "get"}
    BY DEF auth_putnonce_q, auth_putnonce, auth_getnonce, Takes, Goes
  <2>2. dlls_nonce[d] \in Nonce
    BY DEF TypeInv, TypeOK, Nonce
  <2>3. QED
    BY <2>1, <2>2, CursorsAt DEF Cursors
<1>2. (dlls_nonce[d] + 1) % NonceMod = Following(dlls_nonce[d])
  BY <1>1, FollowingIs
<1>3. ASSUME NEW s, Put(d, s)
      PROVE  /\ q' = [q EXCEPT ![d].put = q[d].get + 7]
             /\ mem' = [mem EXCEPT ![d] = Written(@, q[d].get + 3, s)]
  <2>1. CASE q[d].put = q[d].get
    <3> DEFINE total == q[d].get + 7 - q[d].put
    <3>1. /\ q' = [q EXCEPT ![d].put = @ + (IF total > 4 THEN total - 4 ELSE 0) + 4]
          /\ mem' = [mem EXCEPT ![d] = Written(@, q[d].put + (IF total > 4 THEN total - 4 ELSE 0), s)]
      BY <1>3 DEF Put
    <3>2. total = 7
      BY <1>1, <2>1
    <3> HIDE DEF total
    <3>3. (IF total > 4 THEN total - 4 ELSE 0) = 3
      BY <3>2
    <3>4. /\ q' = [q EXCEPT ![d].put = @ + 3 + 4]
          /\ mem' = [mem EXCEPT ![d] = Written(@, q[d].put + 3, s)]
      BY <3>1, <3>3, Zenon
    <3>5. q[d].put + 3 + 4 = q[d].get + 7 /\ q[d].put + 3 = q[d].get + 3
      BY <1>1, <2>1
    <3>6. QED
      BY <3>4, <3>5
  <2>2. CASE q[d].put = q[d].get + 3
    <3>1. /\ ~(q[d].get + 7 - q[d].put > 4)
          /\ q[d].put + 0 + 4 = q[d].get + 7 /\ q[d].put + 0 = q[d].get + 3
      BY <1>1, <2>2
    <3>2. QED
      BY <1>3, <3>1 DEF Put
  <2>3. QED
    BY <1>1, <2>1, <2>2
<1>4. CASE auth_getnonce(d)
  <2>1. Takes(d, "get") /\ Put(d, HighFirst(Following(dlls_nonce[d])))
    BY <1>2, <1>4 DEF auth_getnonce, Advanced
  <2>2. Digits(d, dlls_nonce[d]) = HighFirst(Following(dlls_nonce[d]))
    BY <2>1 DEF Takes, Digits
  <2>3. QED
    BY <1>2, <1>3, <2>1, <2>2 DEF Takes, Numbers, Advanced
<1>5. CASE auth_putnonce_q(d) \/ auth_putnonce(d)
  <2>1. Takes(d, "put") /\ Put(d, LowFirst(dlls_nonce[d]))
    BY <1>5 DEF auth_putnonce_q, auth_putnonce
  <2>2. Digits(d, dlls_nonce[d]) = LowFirst(dlls_nonce[d])
    BY <2>1 DEF Takes, Digits
  <2>3. QED
    BY <1>2, <1>3, <2>1, <2>2 DEF Takes, Numbers, Advanced
<1>6. QED
  BY <1>4, <1>5

LEMMA PlacesSame ==
  ASSUME TypeInv, NEW d \in Device, q[d].get \in Starts(d)
  PROVE  IV(d) = q[d].get /\ Data(d) = q[d].get + 7
<1>1. build[d].port = "c2000" => q[d].get = 0
  BY StartsIs
<1>2. q[d].get \in Int
  BY CursorsAt
<1>3. QED
  BY <1>1, <1>2 DEF IV, Data

LEMMA EncryptIs ==
  ASSUME TypeInv, NEW d \in Device,
         auth_encrypt_q(d) \/ auth_encrypt(d) \/ EAX_encrypt(d)
  PROVE  Seals(d) \/ Refuses(d)
<1>1. stage[d] = "plain"
  BY DEF auth_encrypt_q, auth_encrypt, EAX_encrypt, Goes
<1>2. IV(d) = q[d].get /\ Data(d) = q[d].get + 7
  BY <1>1, CursorsAt, PlacesSame DEF Cursors
<1>3. q[d].put - q[d].get - 7 = Length(d)
  BY CursorsAt DEF Length
<1>4. CASE auth_encrypt_q(d)
  <2>1. PICK i \in Index :
          \/ /\ i < dlls_size[d]
             /\ Goes(d, "plain", "sealed")
             /\ EAXdrv_encrypt(d, IV(d), Data(d), q[d].put - Data(d), dlls_ctx[d][i])
             /\ q' = [q EXCEPT ![d].put = @ + 4]
             /\ UNCHANGED <<build, device, rc, air>>
          \/ Refused(d) /\ UNCHANGED <<build, device, q, stage, frame, rc, sealed, air>>
    BY <1>4 DEF auth_encrypt_q
  <2>2. i \in Int /\ 0 <= i
    BY DEF Index
  <2>3. CASE Refused(d) /\ UNCHANGED <<build, device, q, stage, frame, rc, sealed, air>>
    <3>1. mem' = mem \/ \E x : mem' = [mem EXCEPT ![d] = Written(@, q[d].put, <<Zero, Zero, Zero, x>>)]
      BY <2>3 DEF Refused
    <3>2. QED
      BY <1>1, <2>3, <3>1 DEF Refuses
  <2>4. CASE /\ i < dlls_size[d]
             /\ Goes(d, "plain", "sealed")
             /\ EAXdrv_encrypt(d, IV(d), Data(d), q[d].put - Data(d), dlls_ctx[d][i])
             /\ q' = [q EXCEPT ![d].put = @ + 4]
             /\ UNCHANGED <<build, device, rc, air>>
    <3>1. dlls_ctx[d][i] \in Key \cup {Wiped}
      BY <2>2, <2>4, KeyIs
    <3>2. QED
      BY <1>2, <2>4, <3>1 DEF Seals, Length
  <2>5. QED
    BY <2>1, <2>3, <2>4
<1>5. CASE auth_encrypt(d)
  <2>1. PICK i \in 0..(dlls_size[d] - 1) :
          /\ Goes(d, "plain", "sealed")
          /\ EAXdrv_encrypt(d, q[d].get, q[d].get + 7, Length(d), dlls_ctx[d][i])
          /\ q' = [q EXCEPT ![d].put = @ + 4]
          /\ UNCHANGED <<build, device, rc, air>>
    BY <1>3, <1>5 DEF auth_encrypt
  <2>2. i \in Int /\ 0 <= i /\ i < dlls_size[d]
    <3>1. dlls_size[d] \in Int
      BY DEF TypeInv, TypeOK
    <3>2. QED
      BY <3>1
  <2>3. dlls_ctx[d][i] \in Key \cup {Wiped}
    BY <2>2, KeyIs
  <2>4. QED
    BY <2>1, <2>3 DEF Seals
<1>6. CASE EAX_encrypt(d)
  <2>1. RawKey \subseteq Key
    BY CryptAssumption
  <2>2. QED
    BY <1>3, <1>6, <2>1 DEF Seals, EAX_encrypt
<1>7. QED
  BY <1>4, <1>5, <1>6

LEMMA DecryptIs ==
  ASSUME TypeInv, NEW d \in Device, auth_decrypt_q(d) \/ auth_decrypt(d)
  PROVE  Unseals(d) \/ Passes(d)
<1>1. stage[d] = "got" /\ q[d].get = frame[d].start
  BY DEF auth_decrypt_q, auth_decrypt, Goes
<1>2. IV(d) = q[d].get /\ Data(d) = q[d].get + 7
  BY <1>1, CursorsAt, PlacesSame DEF Cursors
<1>3. q[d].put - (q[d].get + 7) - 4 = Length(d) - 4
  BY DEF Length
<1> DEFINE Turns(i) ==
  LET n   == Length(d) - 4
      key == dlls_ctx[d][i]
      ok  == Opens(d, q[d].get, q[d].get + 7, n, key) # {}
  IN  /\ Goes(d, "got", "opened")
      /\ EAXdrv_decrypt(d, q[d].get, q[d].get + 7, n, key)
      /\ q' = [q EXCEPT ![d] = Opened(d, ok)]
      /\ rc' = [rc EXCEPT ![d] = IF ok THEN 4 ELSE -2]
      /\ frame' = [frame EXCEPT ![d].key = key]
      /\ UNCHANGED <<build, device, sealed, air>>
<1>4. ASSUME NEW i \in Int, 0 <= i, i < dlls_size[d], Turns(i)
      PROVE  Unseals(d)
  <2>1. dlls_ctx[d][i] \in Key \cup {Wiped}
    BY <1>4, KeyIs
  <2>2. PICK ok \in BOOLEAN :
          ok <=> Opens(d, q[d].get, q[d].get + 7, Length(d) - 4, dlls_ctx[d][i]) # {}
    OBVIOUS
  <2>3. /\ q' = [q EXCEPT ![d] = Opened(d, ok)]
        /\ rc' = [rc EXCEPT ![d] = IF ok THEN 4 ELSE -2]
    BY <1>4, <2>2 DEF Opened
  <2>4. /\ Goes(d, "got", "opened")
        /\ EAXdrv_decrypt(d, q[d].get, q[d].get + 7, Length(d) - 4, dlls_ctx[d][i])
        /\ frame' = [frame EXCEPT ![d].key = dlls_ctx[d][i]]
        /\ UNCHANGED <<build, device, sealed, air>>
    BY <1>4
  <2>5. QED
    BY <1>1, <1>2, <2>1, <2>2, <2>3, <2>4 DEF Unseals, Opened
<1>5. CASE auth_decrypt_q(d)
  <2>1. PICK i \in Index :
          \/ i < dlls_size[d] /\ Turns(i)
          \/ /\ q' = [q EXCEPT ![d].get = Data(d)]
             /\ rc' = [rc EXCEPT ![d] = -1]
             /\ UNCHANGED <<build, device, mem, stage, frame, sealed, air>>
    BY <1>2, <1>3, <1>5 DEF auth_decrypt_q
  <2>2. i \in Int /\ 0 <= i
    BY DEF Index
  <2> HIDE DEF Turns
  <2>3. QED
    BY <1>1, <1>2, <1>4, <2>1, <2>2 DEF Passes
<1>6. CASE auth_decrypt(d)
  <2>1. PICK i \in 0..(dlls_size[d] - 1) : Turns(i)
    BY <1>2, <1>3, <1>6 DEF auth_decrypt
  <2>2. i \in Int /\ 0 <= i /\ i < dlls_size[d]
    <3>1. dlls_size[d] \in Int
      BY DEF TypeInv, TypeOK
    <3>2. QED
      BY <3>1
  <2> HIDE DEF Turns
  <2>3. QED
    BY <1>4, <2>1, <2>2
<1>7. QED
  BY <1>5, <1>6

LEMMA StepIs ==
  ASSUME TypeInv, Next
  PROVE  \E d \in Device : Step(d)
<1>1. PICK d \in Device :
        \/ auth_init(d) \/ auth_deinit(d)
        \/ Begin(d) \/ auth_putnonce_q(d) \/ auth_putnonce(d) \/ auth_getnonce(d)
        \/ Payload(d) \/ auth_encrypt_q(d) \/ auth_encrypt(d) \/ EAX_encrypt(d)
        \/ Transmit(d) \/ Receive(d)
        \/ auth_decrypt_q(d) \/ auth_decrypt(d) \/ Retry(d) \/ Done(d)
  BY DEF Next
<1>2. auth_putnonce_q(d) \/ auth_putnonce(d) \/ auth_getnonce(d) => Numbers(d)
  BY NumbersIs
<1>3. auth_encrypt_q(d) \/ auth_encrypt(d) \/ EAX_encrypt(d) => Seals(d) \/ Refuses(d)
  BY EncryptIs
<1>4. auth_decrypt_q(d) \/ auth_decrypt(d) => Unseals(d) \/ Passes(d)
  BY DecryptIs
<1>5. QED
  BY <1>1, <1>2, <1>3, <1>4 DEF Step

LEMMA CursorsStay ==
  ASSUME TypeInv, NEW d \in Device, build' = build, Cursors(d)',
         \A e \in Device \ {d} : stage'[e] = stage[e] /\ q'[e] = q[e] /\ frame'[e] = frame[e]
  PROVE  \A e \in Device : Cursors(e)'
<1>1. SUFFICES ASSUME NEW e \in Device, e # d
               PROVE  Cursors(e)'
  OBVIOUS
<1>2. Cursors(e) /\ stage'[e] = stage[e] /\ q'[e] = q[e] /\ frame'[e] = frame[e]
  BY <1>1 DEF TypeInv
<1>3. Starts(e)' = Starts(e)
  BY DEF Starts
<1>4. QED
  BY <1>2, <1>3 DEF Cursors

(* A step of the queue of one device.                                        *)
LEMMA TypeOne ==
  ASSUME TypeInv, NEW d \in Device, NEW to \in Stages, Goes(d, stage[d], to),
         NEW c \in [get : 0..Alloc, put : 0..Alloc, back : 0..Alloc],
         c.get <= c.put, c.put <= c.back, q' = [q EXCEPT ![d] = c],
         NEW m, mem' = [mem EXCEPT ![d] = m] \/ mem' = mem,
         NEW f \in FrameRecord, frame' = [frame EXCEPT ![d] = f],
         NEW r \in Int, rc' = [rc EXCEPT ![d] = r] \/ rc' = rc,
         build' = build, dlls_size' = dlls_size, dlls_ctx' = dlls_ctx,
         NEW n \in Nonce, dlls_nonce' = [dlls_nonce EXCEPT ![d] = n] \/ dlls_nonce' = dlls_nonce,
         Cursors(d)', Sequence(sealed'), Len(sealed') <= MaxSeals,
         \A x \in air' : x.of \in Nat /\ Sequence(x.bytes)
  PROVE  TypeInv'
<1>1. /\ q' \in [Device -> [get : 0..Alloc, put : 0..Alloc, back : 0..Alloc]]
      /\ q'[d] = c /\ \A e \in Device \ {d} : q'[e] = q[e]
  BY DEF TypeInv, TypeOK
<1>2. \A e \in Device : q'[e].get <= q'[e].put /\ q'[e].put <= q'[e].back
  <2>1. \A e \in Device : q[e].get <= q[e].put /\ q[e].put <= q[e].back
    BY DEF TypeInv, TypeOK
  <2>2. QED
    BY <1>1, <2>1
<1>3. stage' \in [Device -> Stages] /\ \A e \in Device \ {d} : stage'[e] = stage[e]
  BY DEF TypeInv, TypeOK, Goes
<1>4. frame' \in [Device -> FrameRecord] /\ \A e \in Device \ {d} : frame'[e] = frame[e]
  BY DEF TypeInv
<1>5. rc' \in [Device -> Int] /\ DOMAIN mem' = Device
  BY DEF TypeInv
<1>6. dlls_nonce' \in [Device -> 0..(NonceMod - 1)]
  BY DEF TypeInv, TypeOK, Nonce
<1>7. \A e \in Device : Cursors(e)'
  BY <1>1, <1>3, <1>4, CursorsStay
<1>8. TypeOK'
  BY <1>1, <1>2, <1>3, <1>6 DEF TypeOK, TypeInv
<1>9. QED
  BY <1>4, <1>5, <1>7, <1>8 DEF TypeInv

LEMMA TypeInit ==
  Init => TypeInv
<1>1. SUFFICES ASSUME Init
               PROVE  TypeInv
  OBVIOUS
<1>2. Alloc \in Nat /\ MaxSeals \in Nat /\ 0 \in Nonce
  BY CryptAssumption, NonceModIs DEF Nonce
<1>3. Emptied \in [get : 0..Alloc, put : 0..Alloc, back : 0..Alloc] /\ NoFrame \in FrameRecord
  BY <1>2 DEF Emptied, NoFrame, FrameRecord
<1>4. /\ q \in [Device -> [get : 0..Alloc, put : 0..Alloc, back : 0..Alloc]]
      /\ \A d \in Device : q[d].get <= q[d].put /\ q[d].put <= q[d].back
  BY <1>1, <1>2, <1>3 DEF Init, Emptied
<1>5. frame \in [Device -> FrameRecord] /\ rc \in [Device -> Int] /\ DOMAIN mem = Device
  BY <1>1, <1>3 DEF Init
<1>6. /\ build \in Builds /\ dlls_size \in [Device -> {0, 2}] /\ stage \in [Device -> Stages]
      /\ dlls_nonce \in [Device -> 0..(NonceMod - 1)]
  BY <1>1, <1>2 DEF Init, Nonce, Stages
<1>7. dlls_ctx \in [Device -> [0..1 -> Key \cup {Wiped}]]
  BY <1>1 DEF Init
<1>8. sealed = <<>> /\ air = {} /\ sealed \in Seq({})
  BY <1>1 DEF Init
<1>9. \A d \in Device : Cursors(d)
  BY <1>1 DEF Init, Cursors
<1>10. TypeOK
  BY <1>2, <1>4, <1>6, <1>7, <1>8 DEF TypeOK
<1>11. QED
  BY <1>5, <1>8, <1>9, <1>10 DEF TypeInv, Sequence

LEMMA TypeLoads ==
  ASSUME TypeInv, NEW d \in Device, auth_init(d) \/ auth_deinit(d)
  PROVE  TypeInv'
<1>1. dlls_size' \in [Device -> {0, 2}] /\ dlls_nonce' \in [Device -> 0..(NonceMod - 1)]
  <2>1. dlls_size \in [Device -> {0, 2}] /\ dlls_nonce \in [Device -> 0..(NonceMod - 1)]
    BY DEF TypeInv, TypeOK
  <2>2. Rand \subseteq 0..(NonceMod - 1)
    BY CryptAssumption
  <2>3. QED
    BY <2>1, <2>2 DEF auth_init, auth_deinit
<1>2. dlls_ctx' \in [Device -> [0..1 -> Key \cup {Wiped}]]
  <2>1. Stored[d] \in [0..1 -> Key \cup {Wiped}]
    BY CryptAssumption
  <2>2. [i \in 0..1 |-> Wiped] \in [0..1 -> Key \cup {Wiped}]
    OBVIOUS
  <2>3. QED
    BY <2>1, <2>2 DEF TypeInv, TypeOK, auth_init, auth_deinit
<1>3. UNCHANGED <<build, q, mem, stage, frame, rc, sealed, air>>
  BY DEF auth_init, auth_deinit, queue
<1>4. \A e \in Device : Cursors(e)'
  BY <1>3, CursorsStay DEF TypeInv, Cursors, Starts
<1>5. QED
  BY <1>1, <1>2, <1>3, <1>4 DEF TypeInv, TypeOK

LEMMA NonceIs ==
  ASSUME TypeInv, NEW d \in Device
  PROVE  dlls_nonce[d] \in Nonce /\ rc[d] \in Int /\ dlls_size[d] \in {0, 2} /\ stage[d] \in Stages
BY DEF TypeInv, TypeOK, Nonce

LEMMA TypeBegin ==
  ASSUME TypeInv, NEW d \in Device, Begin(d)
  PROVE  TypeInv'
<1>1. PICK s \in Starts(d), pad \in {0, 3} :
        /\ q' = [q EXCEPT ![d] = [get |-> s, put |-> s + 3 - pad, back |-> Alloc]]
        /\ mem' = [mem EXCEPT ![d] = Written(@, s, [i \in 1..3 |-> <<"id", d>>])]
        /\ frame' = [frame EXCEPT ![d] = [NoFrame EXCEPT !.start = s]]
  BY DEF Begin
<1>2. s \in Nat /\ s + 7 <= Alloc /\ Alloc \in Nat
  BY StartsIs, CryptAssumption
<1> DEFINE c == [get |-> s, put |-> s + 3 - pad, back |-> Alloc]
           f == [NoFrame EXCEPT !.start = s]
<1>3. c \in [get : 0..Alloc, put : 0..Alloc, back : 0..Alloc] /\ c.get <= c.put /\ c.put <= c.back
  BY <1>2
<1>4. f \in FrameRecord
  BY <1>2 DEF FrameRecord, NoFrame
<1>5. Goes(d, stage[d], "named") /\ stage'[d] = "named" /\ "named" \in Stages
  BY DEF Begin, Goes, TypeInv, TypeOK, Stages
<1>6. /\ build' = build /\ dlls_size' = dlls_size /\ dlls_nonce' = dlls_nonce
      /\ dlls_ctx' = dlls_ctx /\ rc' = rc /\ sealed' = sealed /\ air' = air
  BY DEF Begin, device
<1>7. Cursors(d)'
  <2>1. q'[d] = c
    BY <1>1 DEF TypeInv, TypeOK
  <2>2. Starts(d)' = Starts(d) /\ s + 3 - pad \in {s, s + 3}
    BY <1>2, <1>6 DEF Starts
  <2>3. QED
    BY <1>5, <2>1, <2>2 DEF Cursors
<1>8. Sequence(sealed') /\ Len(sealed') <= MaxSeals /\ \A x \in air' : x.of \in Nat /\ Sequence(x.bytes)
  BY <1>6 DEF TypeInv, TypeOK
<1>9. dlls_nonce[d] \in Nonce
  BY NonceIs
<1> DEFINE m == Written(mem[d], s, [i \in 1..3 |-> <<"id", d>>])
<1>10. mem' = [mem EXCEPT ![d] = m]
  BY <1>1
<1> HIDE DEF c, f, m
<1>11. q' = [q EXCEPT ![d] = c] /\ frame' = [frame EXCEPT ![d] = f]
  BY <1>1 DEF c, f
<1>12. 0 \in Int
  OBVIOUS
<1>13. QED
  BY <1>3, <1>4, <1>5, <1>6, <1>7, <1>8, <1>9, <1>10, <1>11, <1>12, TypeOne

LEMMA FrameKept ==
  ASSUME TypeInv, NEW d \in Device
  PROVE  frame[d] \in FrameRecord /\ frame = [frame EXCEPT ![d] = frame[d]]
BY DEF TypeInv

LEMMA TypeNumbers ==
  ASSUME TypeInv, NEW d \in Device, Numbers(d)
  PROVE  TypeInv'
<1>1. /\ q[d].get \in Starts(d) /\ q[d].back = Alloc
      /\ q[d] \in [get : 0..Alloc, put : 0..Alloc, back : 0..Alloc]
  BY CursorsAt DEF Numbers, Goes, Cursors
<1>2. q[d].get \in Nat /\ q[d].get + 7 <= Alloc /\ Alloc \in Nat
  BY <1>1, StartsIs, CryptAssumption
<1> DEFINE c == [q[d] EXCEPT !.put = q[d].get + 7]
           m == Written(mem[d], q[d].get + 3, Digits(d, dlls_nonce[d]))
           n == Following(dlls_nonce[d])
<1>3. c \in [get : 0..Alloc, put : 0..Alloc, back : 0..Alloc] /\ c.get <= c.put /\ c.put <= c.back
  BY <1>1, <1>2
<1>4. Goes(d, stage[d], "nonced") /\ stage'[d] = "nonced" /\ "nonced" \in Stages
  BY DEF Numbers, Goes, TypeInv, TypeOK, Stages
<1>5. /\ build' = build /\ dlls_size' = dlls_size
      /\ dlls_ctx' = dlls_ctx /\ frame' = frame /\ rc' = rc /\ sealed' = sealed /\ air' = air
  BY DEF Numbers
<1>6. Cursors(d)'
  <2>1. q'[d] = c
    BY DEF TypeInv, TypeOK, Numbers
  <2>2. Starts(d)' = Starts(d) /\ c.get = q[d].get /\ c.put = q[d].get + 7 /\ c.back = q[d].back
    BY <1>1, <1>5 DEF Starts
  <2>3. QED
    BY <1>1, <1>4, <2>1, <2>2 DEF Cursors
<1>7. Sequence(sealed') /\ Len(sealed') <= MaxSeals /\ \A x \in air' : x.of \in Nat /\ Sequence(x.bytes)
  BY <1>5 DEF TypeInv, TypeOK
<1>8. n \in Nonce
  BY NonceIs, FollowingIs
<1>9. q' = [q EXCEPT ![d] = c] /\ mem' = [mem EXCEPT ![d] = m] /\ dlls_nonce' = [dlls_nonce EXCEPT ![d] = n]
  BY DEF Numbers
<1> HIDE DEF c, m, n
<1>10. frame[d] \in FrameRecord /\ frame' = [frame EXCEPT ![d] = frame[d]] /\ 0 \in Int
  BY <1>5, FrameKept
<1>11. QED
  BY <1>3, <1>4, <1>5, <1>6, <1>7, <1>8, <1>9, <1>10, TypeOne

LEMMA TypePayload ==
  ASSUME TypeInv, NEW d \in Device, Payload(d)
  PROVE  TypeInv'
<1>1. PICK s \in Plains :
        /\ q[d].put + Len(s) + 4 <= q[d].back
        /\ q' = [q EXCEPT ![d].put = @ + Len(s)]
        /\ mem' = [mem EXCEPT ![d] = Written(@, q[d].put, s)]
  BY DEF Payload
<1>2. /\ q[d].get \in Starts(d) /\ q[d].put = q[d].get + 7 /\ q[d].back <= Alloc
      /\ q[d] \in [get : 0..Alloc, put : 0..Alloc, back : 0..Alloc]
  BY CursorsAt DEF Payload, Goes, Cursors
<1>3. q[d].get \in Nat /\ q[d].put \in Nat /\ q[d].back \in Nat /\ Alloc \in Nat
  BY <1>2, CryptAssumption
<1>4. PICK l \in Nat : l = Len(s)
  BY CryptAssumption
<1> DEFINE c == [q[d] EXCEPT !.put = q[d].put + l]
           m == Written(mem[d], q[d].put, s)
<1>5. c \in [get : 0..Alloc, put : 0..Alloc, back : 0..Alloc] /\ c.get <= c.put /\ c.put <= c.back
  <2>1. /\ q[d].put + l \in 0..Alloc /\ q[d].put + l <= q[d].back /\ q[d].get <= q[d].put + l
    BY <1>1, <1>2, <1>3, <1>4
  <2>2. PICK t : t = q[d].put + l
    OBVIOUS
  <2>3. QED
    BY <1>2, <2>1, <2>2
<1>6. Goes(d, stage[d], "plain") /\ stage'[d] = "plain" /\ "plain" \in Stages
  BY DEF Payload, Goes, TypeInv, TypeOK, Stages
<1>7. /\ build' = build /\ dlls_size' = dlls_size /\ dlls_nonce' = dlls_nonce
      /\ dlls_ctx' = dlls_ctx /\ frame' = frame /\ rc' = rc /\ sealed' = sealed /\ air' = air
  BY DEF Payload, device
<1>8. q' = [q EXCEPT ![d] = c] /\ mem' = [mem EXCEPT ![d] = m]
  BY <1>1, <1>4
<1>9. Cursors(d)'
  <2>1. q'[d] = c
    BY <1>8 DEF TypeInv, TypeOK
  <2>2. /\ Starts(d)' = Starts(d) /\ c.get = q[d].get /\ c.put = q[d].put + l /\ c.back = q[d].back
    BY <1>2, <1>7 DEF Starts
  <2> HIDE DEF c
  <2>3. c.get + 7 <= c.put /\ c.put + 4 <= c.back
    BY <1>1, <1>2, <1>3, <1>4, <2>2
  <2>4. QED
    BY <1>2, <1>6, <2>1, <2>2, <2>3 DEF Cursors
<1>10. Sequence(sealed') /\ Len(sealed') <= MaxSeals /\ \A x \in air' : x.of \in Nat /\ Sequence(x.bytes)
  BY <1>7 DEF TypeInv, TypeOK
<1> HIDE DEF c, m
<1>11. frame[d] \in FrameRecord /\ frame' = [frame EXCEPT ![d] = frame[d]] /\ 0 \in Int
  BY <1>7, FrameKept
<1>12. dlls_nonce[d] \in Nonce
  BY NonceIs
<1>13. QED
  BY <1>5, <1>6, <1>7, <1>8, <1>9, <1>10, <1>11, <1>12, TypeOne

LEMMA TypeSeals ==
  ASSUME TypeInv, NEW d \in Device, Seals(d)
  PROVE  TypeInv'
<1>1. PICK key \in Key \cup {Wiped} :
        /\ Goes(d, "plain", "sealed")
        /\ EAXdrv_encrypt(d, q[d].get, q[d].get + 7, Length(d), key)
        /\ q' = [q EXCEPT ![d].put = @ + 4]
        /\ UNCHANGED <<build, device, rc, air>>
  BY DEF Seals
<1>2. /\ q[d].get \in Starts(d) /\ q[d].get + 7 <= q[d].put /\ q[d].put + 4 <= q[d].back
      /\ q[d].back <= Alloc /\ q[d] \in [get : 0..Alloc, put : 0..Alloc, back : 0..Alloc]
  BY <1>1, CursorsAt DEF Goes, Cursors
<1>3. q[d].get \in Nat /\ q[d].put \in Nat /\ q[d].back \in Nat /\ Alloc \in Nat
  BY <1>2, CryptAssumption
<1>4. PICK x : Len(sealed) < MaxSeals /\ sealed' = Append(sealed, x)
  BY <1>1 DEF EAXdrv_encrypt
<1>5. PICK m : mem' = [mem EXCEPT ![d] = m]
  BY <1>1 DEF EAXdrv_encrypt
<1>6. Len(sealed) \in Nat /\ Sequence(sealed') /\ Len(sealed') = Len(sealed) + 1
  BY <1>4, SeqLen, SeqAppend DEF TypeInv
<1> DEFINE c == [q[d] EXCEPT !.put = q[d].put + 4]
           f == [frame[d] EXCEPT !.of = Len(sealed) + 1]
<1>7. c \in [get : 0..Alloc, put : 0..Alloc, back : 0..Alloc] /\ c.get <= c.put /\ c.put <= c.back
  BY <1>2, <1>3
<1>8. f \in FrameRecord
  BY <1>6, FrameKept DEF FrameRecord
<1>9. Goes(d, stage[d], "sealed") /\ stage'[d] = "sealed" /\ "sealed" \in Stages
  BY <1>1 DEF Goes, TypeInv, TypeOK, Stages
<1>10. /\ build' = build /\ dlls_size' = dlls_size /\ dlls_nonce' = dlls_nonce
       /\ dlls_ctx' = dlls_ctx /\ rc' = rc /\ air' = air
  BY <1>1 DEF device
<1>11. q' = [q EXCEPT ![d] = c] /\ frame' = [frame EXCEPT ![d] = f]
  BY <1>1 DEF EAXdrv_encrypt
<1>12. Cursors(d)'
  <2>1. q'[d] = c
    BY <1>11 DEF TypeInv, TypeOK
  <2>2. /\ Starts(d)' = Starts(d) /\ c.get = q[d].get /\ c.put = q[d].put + 4
    BY <1>2, <1>10 DEF Starts
  <2> HIDE DEF c
  <2>3. c.get + 11 <= c.put
    BY <1>2, <1>3, <2>2
  <2>4. QED
    BY <1>2, <1>9, <2>1, <2>2, <2>3 DEF Cursors
<1>13. Len(sealed') <= MaxSeals /\ \A y \in air' : y.of \in Nat /\ Sequence(y.bytes)
  <2>1. MaxSeals \in Nat
    BY CryptAssumption
  <2>2. Len(sealed') <= MaxSeals
    BY <1>4, <1>6, <2>1
  <2>3. QED
    BY <1>10, <2>2 DEF TypeInv
<1> HIDE DEF c, f
<1>14. dlls_nonce[d] \in Nonce /\ 0 \in Int
  BY NonceIs
<1>15. QED
  BY <1>5, <1>6, <1>7, <1>8, <1>9, <1>10, <1>11, <1>12, <1>13, <1>14, TypeOne

LEMMA TypeRefuses ==
  ASSUME TypeInv, NEW d \in Device, Refuses(d)
  PROVE  TypeInv'
<1>1. UNCHANGED <<build, dlls_size, dlls_nonce, dlls_ctx, q, stage, frame, rc, sealed, air>>
  BY DEF Refuses, device
<1>2. DOMAIN mem' = DOMAIN mem
  BY DEF Refuses
<1>3. \A e \in Device : Cursors(e)'
  BY <1>1 DEF TypeInv, Cursors, Starts
<1>4. QED
  BY <1>1, <1>2, <1>3 DEF TypeInv, TypeOK

LEMMA TypeClears ==
  ASSUME TypeInv, NEW d \in Device, Transmit(d) \/ Done(d)
  PROVE  TypeInv'
<1>1. /\ stage[d] \in {"sealed", "opened"} /\ stage' = [stage EXCEPT ![d] = "idle"] /\ Cleared(d)
      /\ UNCHANGED <<build, device, sealed>>
  BY DEF Transmit, Done, Goes
<1>2. /\ Emptied \in [get : 0..Alloc, put : 0..Alloc, back : 0..Alloc]
      /\ Emptied.get <= Emptied.put /\ Emptied.put <= Emptied.back
  BY CryptAssumption DEF Emptied
<1>3. NoFrame \in FrameRecord
  BY DEF NoFrame, FrameRecord
<1>4. Goes(d, stage[d], "idle") /\ stage'[d] = "idle" /\ "idle" \in Stages
  BY <1>1 DEF Goes, TypeInv, TypeOK, Stages
<1>5. Cursors(d)'
  BY <1>4 DEF Cursors
<1>6. /\ build' = build /\ dlls_size' = dlls_size /\ dlls_nonce' = dlls_nonce
      /\ dlls_ctx' = dlls_ctx /\ sealed' = sealed
  BY <1>1 DEF device
<1>7. \A x \in air' : x.of \in Nat /\ Sequence(x.bytes)
  <2>1. \A x \in air : x.of \in Nat /\ Sequence(x.bytes)
    BY DEF TypeInv
  <2>2. CASE Done(d)
    BY <2>1, <2>2 DEF Done
  <2>3. CASE Transmit(d)
    <3>1. frame[d].of \in Nat
      BY FrameKept DEF FrameRecord
    <3>2. q[d].get \in Int /\ q[d].put - q[d].get \in Nat
      BY CursorsAt
    <3>3. Sequence(Bytes(mem[d], q[d].get, q[d].put - q[d].get))
      BY <3>2, SeqBytes
    <3>4. PICK b : /\ b = Bytes(mem[d], q[d].get, q[d].put - q[d].get)
                   /\ air' = air \cup {[of |-> frame[d].of, bytes |-> b]}
      BY <2>3 DEF Transmit
    <3>5. QED
      BY <2>1, <3>1, <3>3, <3>4
  <2>4. QED
    BY <2>2, <2>3
<1>8. Sequence(sealed') /\ Len(sealed') <= MaxSeals
  BY <1>6 DEF TypeInv, TypeOK
<1>9. /\ q' = [q EXCEPT ![d] = Emptied] /\ mem' = [mem EXCEPT ![d] = Zeroed]
      /\ frame' = [frame EXCEPT ![d] = NoFrame] /\ rc' = [rc EXCEPT ![d] = 0]
  BY <1>1 DEF Cleared
<1>10. dlls_nonce[d] \in Nonce /\ 0 \in Int
  BY NonceIs
<1>11. QED
  BY <1>2, <1>3, <1>4, <1>5, <1>6, <1>7, <1>8, <1>9, <1>10, TypeOne

(* A frame that is received.                                                 *)
Receives(d, f, s, b) ==
  /\ Goes(d, "idle", "got")
  /\ Len(b) >= 11 /\ s + Len(b) <= Alloc
  /\ q' = [q EXCEPT ![d] = [get |-> s, put |-> s + Len(b), back |-> Alloc]]
  /\ mem' = [mem EXCEPT ![d] = Written(@, s, b)]
  /\ \E i \in BOOLEAN :
       /\ i <=> b = f.bytes
       /\ frame' = [frame EXCEPT ![d] = [start |-> s, of |-> f.of, intact |-> i, key |-> Wiped]]
  /\ UNCHANGED <<build, device, rc, sealed, air>>

LEMMA ReceiveIs ==
  ASSUME NEW d \in Device, Receive(d)
  PROVE  \E f \in air, s \in Starts(d) : \E b \in Arrivals(f) : Receives(d, f, s, b)
<1>1. PICK f \in air, s \in Starts(d) : \E b \in Arrivals(f) :
        /\ Len(b) >= 11 /\ s + Len(b) <= Alloc
        /\ q' = [q EXCEPT ![d] = [get |-> s, put |-> s + Len(b), back |-> Alloc]]
        /\ mem' = [mem EXCEPT ![d] = Written(@, s, b)]
        /\ frame' = [frame EXCEPT ![d] = [start |-> s, of |-> f.of,
                                          intact |-> b = f.bytes, key |-> Wiped]]
  BY DEF Receive
<1>2. PICK b \in Arrivals(f) :
        /\ Len(b) >= 11 /\ s + Len(b) <= Alloc
        /\ q' = [q EXCEPT ![d] = [get |-> s, put |-> s + Len(b), back |-> Alloc]]
        /\ mem' = [mem EXCEPT ![d] = Written(@, s, b)]
        /\ frame' = [frame EXCEPT ![d] = [start |-> s, of |-> f.of,
                                          intact |-> b = f.bytes, key |-> Wiped]]
  BY <1>1
<1>3. \E i \in BOOLEAN :
        /\ i <=> b = f.bytes
        /\ frame' = [frame EXCEPT ![d] = [start |-> s, of |-> f.of, intact |-> i, key |-> Wiped]]
  <2>1. CASE b = f.bytes
    <3>1. frame' = [frame EXCEPT ![d] = [start |-> s, of |-> f.of, intact |-> TRUE, key |-> Wiped]]
      BY <1>2, <2>1
    <3>2. QED
      BY <2>1, <3>1
  <2>2. CASE b # f.bytes
    <3>1. frame' = [frame EXCEPT ![d] = [start |-> s, of |-> f.of, intact |-> FALSE, key |-> Wiped]]
      BY <1>2, <2>2
    <3>2. QED
      BY <2>2, <3>1
  <2>3. QED
    BY <2>1, <2>2
<1>4. Goes(d, "idle", "got") /\ UNCHANGED <<build, device, rc, sealed, air>>
  BY DEF Receive
<1>5. Receives(d, f, s, b)
  BY <1>2, <1>3, <1>4 DEF Receives
<1>6. QED
  BY <1>5

LEMMA TypeReceive ==
  ASSUME TypeInv, NEW d \in Device, Receive(d)
  PROVE  TypeInv'
<1>1. PICK f \in air, s \in Starts(d) : \E b \in Arrivals(f) : Receives(d, f, s, b)
  BY ReceiveIs
<1>2. PICK b \in Arrivals(f) : Receives(d, f, s, b)
  BY <1>1
<1>3. s \in Nat /\ Alloc \in Nat
  BY StartsIs, CryptAssumption
<1>4. f.of \in Nat /\ Sequence(b)
  BY SeqArrives DEF TypeInv
<1>5. PICK l \in Nat : l = Len(b) /\ l >= 11 /\ s + l <= Alloc
  BY <1>2, <1>4, SeqLen DEF Receives
<1>6. PICK i \in BOOLEAN :
        frame' = [frame EXCEPT ![d] = [start |-> s, of |-> f.of, intact |-> i, key |-> Wiped]]
  BY <1>2 DEF Receives
<1> DEFINE c == [get |-> s, put |-> s + l, back |-> Alloc]
           g == [start |-> s, of |-> f.of, intact |-> i, key |-> Wiped]
           m == Written(mem[d], s, b)
<1>7. q' = [q EXCEPT ![d] = c] /\ mem' = [mem EXCEPT ![d] = m] /\ frame' = [frame EXCEPT ![d] = g]
  BY <1>2, <1>5, <1>6 DEF Receives
<1>8. c \in [get : 0..Alloc, put : 0..Alloc, back : 0..Alloc] /\ c.get <= c.put /\ c.put <= c.back
  BY <1>3, <1>5
<1>9. g \in FrameRecord
  BY <1>3, <1>4 DEF FrameRecord
<1>10. Goes(d, stage[d], "got") /\ stage'[d] = "got" /\ "got" \in Stages
  BY <1>2 DEF Receives, Goes, TypeInv, TypeOK, Stages
<1>11. /\ build' = build /\ dlls_size' = dlls_size /\ dlls_nonce' = dlls_nonce
       /\ dlls_ctx' = dlls_ctx /\ rc' = rc /\ sealed' = sealed /\ air' = air
  BY <1>2 DEF Receives, device
<1>12. Cursors(d)'
  <2>1. q'[d] = c /\ frame'[d] = g
    BY <1>7 DEF TypeInv, TypeOK
  <2>2. /\ Starts(d)' = Starts(d) /\ c.get = s /\ c.put = s + l /\ c.back = Alloc /\ g.start = s
        /\ s + 11 <= s + l
    BY <1>3, <1>5, <1>11 DEF Starts
  <2> HIDE DEF c, g
  <2>3. QED
    BY <1>10, <2>1, <2>2 DEF Cursors
<1>13. Sequence(sealed') /\ Len(sealed') <= MaxSeals /\ \A x \in air' : x.of \in Nat /\ Sequence(x.bytes)
  BY <1>11 DEF TypeInv, TypeOK
<1> HIDE DEF c, g, m
<1>14. dlls_nonce[d] \in Nonce /\ 0 \in Int
  BY NonceIs
<1>15. QED
  BY <1>7, <1>8, <1>9, <1>10, <1>11, <1>12, <1>13, <1>14, TypeOne

LEMMA TypeUnseals ==
  ASSUME TypeInv, NEW d \in Device, Unseals(d)
  PROVE  TypeInv'
<1>1. PICK key \in Key \cup {Wiped}, ok \in BOOLEAN :
        /\ q[d].get = frame[d].start
        /\ Goes(d, "got", "opened")
        /\ EAXdrv_decrypt(d, q[d].get, q[d].get + 7, Length(d) - 4, key)
        /\ q' = [q EXCEPT ![d] = [get |-> q[d].get + 7, put |-> q[d].put - (IF ok THEN 4 ELSE 0),
                                  back |-> q[d].back - (IF ok THEN 4 ELSE 0)]]
        /\ rc' = [rc EXCEPT ![d] = IF ok THEN 4 ELSE -2]
        /\ frame' = [frame EXCEPT ![d].key = key]
        /\ UNCHANGED <<build, device, sealed, air>>
  BY DEF Unseals
<1>2. PICK t \in {0, 4} : t = IF ok THEN 4 ELSE 0
  OBVIOUS
<1>3. PICK r \in Int : r = IF ok THEN 4 ELSE -2
  OBVIOUS
<1>4. /\ frame[d].start \in Starts(d) /\ frame[d].start + 11 <= q[d].put
      /\ q[d].put <= q[d].back /\ q[d].back <= Alloc
      /\ q[d] \in [get : 0..Alloc, put : 0..Alloc, back : 0..Alloc]
  BY <1>1, CursorsAt DEF Goes, Cursors
<1>5. q[d].get \in Nat /\ q[d].put \in Nat /\ q[d].back \in Nat /\ Alloc \in Nat
  BY <1>4, CryptAssumption
<1> DEFINE c == [get |-> q[d].get + 7, put |-> q[d].put - t, back |-> q[d].back - t]
           f == [frame[d] EXCEPT !.key = key]
<1>6. c \in [get : 0..Alloc, put : 0..Alloc, back : 0..Alloc] /\ c.get <= c.put /\ c.put <= c.back
  BY <1>1, <1>2, <1>4, <1>5
<1>7. f \in FrameRecord
  BY FrameKept DEF FrameRecord
<1>8. Goes(d, stage[d], "opened") /\ stage'[d] = "opened" /\ "opened" \in Stages
  BY <1>1 DEF Goes, TypeInv, TypeOK, Stages
<1>9. /\ build' = build /\ dlls_size' = dlls_size /\ dlls_nonce' = dlls_nonce
      /\ dlls_ctx' = dlls_ctx /\ sealed' = sealed /\ air' = air
  BY <1>1 DEF device
<1>10. q' = [q EXCEPT ![d] = c] /\ frame' = [frame EXCEPT ![d] = f]
  BY <1>1, <1>2
<1>11. rc' = [rc EXCEPT ![d] = r]
  BY <1>1, <1>3
<1>12. PICK m : mem' = [mem EXCEPT ![d] = m]
  BY <1>1 DEF EAXdrv_decrypt
<1>13. Cursors(d)'
  BY <1>8 DEF Cursors
<1>14. Sequence(sealed') /\ Len(sealed') <= MaxSeals /\ \A x \in air' : x.of \in Nat /\ Sequence(x.bytes)
  BY <1>9 DEF TypeInv, TypeOK
<1> HIDE DEF c, f
<1>15. dlls_nonce[d] \in Nonce
  BY NonceIs
<1>16. QED
  BY <1>6, <1>7, <1>8, <1>9, <1>10, <1>11, <1>12, <1>13, <1>14, <1>15, TypeOne

(* The getcursor of a frame that was received moves.                         *)
LEMMA TypeMoves ==
  ASSUME TypeInv, NEW d \in Device, Passes(d) \/ Retry(d)
  PROVE  TypeInv'
<1>1. /\ stage[d] = "got" /\ stage' = stage /\ frame' = frame /\ mem' = mem
      /\ build' = build /\ dlls_size' = dlls_size /\ dlls_nonce' = dlls_nonce
      /\ dlls_ctx' = dlls_ctx /\ sealed' = sealed /\ air' = air
  BY DEF Passes, Retry, device
<1>2. /\ frame[d].start \in Starts(d) /\ frame[d].start + 11 <= q[d].put
      /\ q[d].put <= q[d].back /\ q[d].back = Alloc
      /\ q[d] \in [get : 0..Alloc, put : 0..Alloc, back : 0..Alloc]
  BY <1>1, CursorsAt DEF Cursors
<1>3. frame[d].start \in Nat /\ q[d].put \in Nat /\ q[d].back \in Nat /\ Alloc \in Nat
  BY <1>2, StartsIs, CryptAssumption
<1>4. PICK g \in {frame[d].start, frame[d].start + 7} : q' = [q EXCEPT ![d].get = g]
  BY DEF Passes, Retry
<1> DEFINE c == [q[d] EXCEPT !.get = g]
<1>5. c \in [get : 0..Alloc, put : 0..Alloc, back : 0..Alloc] /\ c.get <= c.put /\ c.put <= c.back
  BY <1>2, <1>3, <1>4
<1>6. q' = [q EXCEPT ![d] = c]
  BY <1>4
<1>7. Goes(d, stage[d], "got") /\ stage'[d] = "got" /\ "got" \in Stages
  BY <1>1 DEF Goes, TypeInv, TypeOK, Stages
<1>8. Cursors(d)'
  <2>1. q'[d] = c /\ frame'[d] = frame[d]
    BY <1>1, <1>6 DEF TypeInv, TypeOK
  <2>2. Starts(d)' = Starts(d) /\ c.get = g /\ c.put = q[d].put /\ c.back = q[d].back
    BY <1>1, <1>2 DEF Starts
  <2> HIDE DEF c
  <2>3. QED
    BY <1>2, <1>4, <1>7, <2>1, <2>2 DEF Cursors
<1>9. Sequence(sealed') /\ Len(sealed') <= MaxSeals /\ \A x \in air' : x.of \in Nat /\ Sequence(x.bytes)
  BY <1>1 DEF TypeInv, TypeOK
<1>10. PICK r \in Int : rc' = [rc EXCEPT ![d] = r] \/ rc' = rc
  BY DEF Passes, Retry
<1> HIDE DEF c
<1>11. frame[d] \in FrameRecord /\ frame' = [frame EXCEPT ![d] = frame[d]] /\ dlls_nonce[d] \in Nonce
  BY <1>1, FrameKept, NonceIs
<1>12. QED
  BY <1>1, <1>5, <1>6, <1>7, <1>8, <1>9, <1>10, <1>11, TypeOne

LEMMA TypeStep ==
  TypeInv /\ [Next]_vars => TypeInv'
<1>1. SUFFICES ASSUME TypeInv, [Next]_vars
               PROVE  TypeInv'
  OBVIOUS
<1>2. CASE Next
  <2>1. PICK d \in Device : Step(d)
    BY <1>1, <1>2, StepIs
  <2>2. QED
    BY <1>1, <2>1, TypeLoads, TypeBegin, TypeNumbers, TypePayload, TypeSeals, TypeRefuses,
       TypeClears, TypeReceive, TypeUnseals, TypeMoves DEF Step
<1>3. CASE UNCHANGED vars
  <2>1. UNCHANGED <<build, dlls_size, dlls_nonce, dlls_ctx, q, mem, stage, frame, rc, sealed, air>>
    BY <1>3 DEF vars, device, queue
  <2>2. QED
    BY <1>1, <2>1 DEF TypeInv, TypeOK, Cursors, Starts
<1>4. QED
  BY <1>1, <1>2, <1>3

LEMMA Types == Spec => []TypeInv
<1>1. QED
  BY TypeInit, TypeStep, PTL DEF Spec

(* The cursors of a queue stay in order and in the buffer, through every     *)
(* nonce, payload, tag and decryption, refused indices included, and the     *)
(* counters and tables stay in their ranges (auth.c, crypto.c).              *)
THEOREM CursorsInOrder == Spec => []TypeOK
<1>1. TypeInv => TypeOK
  BY DEF TypeInv
<1>2. QED
  BY <1>1, Types, PTL

-----------------------------------------------------------------------------
(* Whose IVs the frames bear: the i-th nonce back of the device e.           *)
Pending(d) == IF stage[d] \in {"nonced", "plain"} THEN 1 ELSE 0

Sealer(k, e, i) ==
  /\ dlls_size[e] = 2
  /\ Pending(e) < i /\ i <= Len(sealed) + Pending(e)
  /\ sealed[k].iv = Iv(e, Back(dlls_nonce[e], i))

Ready(d) ==
  /\ stage[d] \in {"named", "nonced", "plain"} => dlls_size[d] = 2
  /\ stage[d] = "named" => Named(d, mem[d], q[d].get)
  /\ stage[d] \in {"nonced", "plain"} =>
       Bytes(mem[d], q[d].get, 7) = Iv(d, Back(dlls_nonce[d], 1))

Signed == \A k \in 1..Len(sealed) : \E e \in Device, i \in Nat : Sealer(k, e, i)
Distinct == \A j, k \in 1..Len(sealed) : j # k => sealed[j].iv # sealed[k].iv

IvInv == (\A d \in Device : Ready(d)) /\ Signed /\ Distinct

LEMMA IvNext ==
  ASSUME NEW e, NEW i, NEW x, build' = build, Back(dlls_nonce[e], i)' = x
  PROVE  Iv(e, Back(dlls_nonce[e], i))' = Iv(e, x)
BY DEF Iv, Digits

LEMMA ReadyStays ==
  ASSUME NEW e \in Device, Ready(e), build' = build, stage'[e] = stage[e], q'[e] = q[e],
         mem'[e] = mem[e], dlls_size'[e] = dlls_size[e], dlls_nonce'[e] = dlls_nonce[e]
  PROVE  Ready(e)'
<1>1. Named(e, mem[e], q[e].get)' <=> Named(e, mem[e], q[e].get)
  BY DEF Named
<1>2. Bytes(mem[e], q[e].get, 7)' = Bytes(mem[e], q[e].get, 7)
  BY DEF Bytes
<1>3. Iv(e, Back(dlls_nonce[e], 1))' = Iv(e, Back(dlls_nonce[e], 1))
  <2>1. Back(dlls_nonce[e], 1)' = Back(dlls_nonce[e], 1)
    BY DEF Back
  <2>2. QED
    BY <2>1 DEF Iv, Digits
<1>4. QED
  BY <1>1, <1>2, <1>3 DEF Ready

(* A step that seals nothing and takes no nonce.                             *)
LEMMA SealersStay ==
  ASSUME Signed, Distinct, build' = build, sealed' = sealed,
         \A e \in Device : /\ Pending(e)' = Pending(e)
                           /\ dlls_size[e] = 2 => dlls_size'[e] = 2 /\ dlls_nonce'[e] = dlls_nonce[e]
  PROVE  Signed' /\ Distinct'
<1>1. Distinct'
  BY DEF Distinct
<1>2. ASSUME NEW k \in 1..Len(sealed), NEW e \in Device, NEW i \in Nat, Sealer(k, e, i)
      PROVE  Sealer(k, e, i)'
  <2>1. dlls_size'[e] = 2 /\ dlls_nonce'[e] = dlls_nonce[e] /\ Pending(e)' = Pending(e)
    BY <1>2 DEF Sealer
  <2>2. Back(dlls_nonce[e], i)' = Back(dlls_nonce[e], i)
    BY <2>1 DEF Back
  <2>3. Iv(e, Back(dlls_nonce[e], i))' = Iv(e, Back(dlls_nonce[e], i))
    BY <2>2 DEF Iv, Digits
  <2>4. QED
    BY <1>2, <2>1, <2>3 DEF Sealer
<1>3. Signed'
  <2>1. SUFFICES ASSUME NEW k \in 1..Len(sealed)
                 PROVE  \E e \in Device, i \in Nat : Sealer(k, e, i)'
    BY DEF Signed
  <2>2. PICK e \in Device, i \in Nat : Sealer(k, e, i)
    BY DEF Signed
  <2>3. QED
    BY <1>2, <2>2
<1>4. QED
  BY <1>1, <1>3

(* What a step of one device leaves to the others.                           *)
Alone(d) ==
  /\ build' = build
  /\ \A e \in Device \ {d} :
       /\ stage'[e] = stage[e] /\ q'[e] = q[e] /\ mem'[e] = mem[e] /\ frame'[e] = frame[e]
       /\ dlls_size'[e] = dlls_size[e] /\ dlls_nonce'[e] = dlls_nonce[e] /\ rc'[e] = rc[e]

LEMMA StepAlone ==
  ASSUME TypeInv, NEW d \in Device, Step(d)
  PROVE  Alone(d)
<1>1. build' = build
  BY DEF Step, auth_init, auth_deinit, Begin, Numbers, Payload, Seals, Refuses, Transmit, Receive,
         Unseals, Passes, Retry, Done
<1>2. ASSUME NEW e \in Device, e # d
      PROVE  dlls_size'[e] = dlls_size[e] /\ dlls_nonce'[e] = dlls_nonce[e]
  BY <1>2 DEF Step, auth_init, auth_deinit, Begin, Numbers, Payload, Seals, Refuses, Transmit, Receive,
         Unseals, Passes, Retry, Done, device, TypeInv, TypeOK
<1>3. ASSUME NEW e \in Device, e # d
      PROVE  stage'[e] = stage[e] /\ rc'[e] = rc[e]
  BY <1>3 DEF Step, auth_init, auth_deinit, Begin, Numbers, Payload, Seals, Refuses, Transmit, Receive,
         Unseals, Passes, Retry, Done, Goes, Takes, Cleared, TypeInv, TypeOK
<1>4. ASSUME NEW e \in Device, e # d
      PROVE  q'[e] = q[e]
  BY <1>4 DEF Step, auth_init, auth_deinit, Begin, Numbers, Payload, Seals, Refuses, Transmit, Receive,
         Unseals, Passes, Retry, Done, Cleared, queue, TypeInv, TypeOK
<1>5. ASSUME NEW e \in Device, e # d
      PROVE  mem'[e] = mem[e]
  BY <1>5 DEF Step, auth_init, auth_deinit, Begin, Numbers, Payload, Seals, Refuses, Transmit, Receive,
         Unseals, Passes, Retry, Done, Cleared, queue, EAXdrv_encrypt, EAXdrv_decrypt, TypeInv
<1>6. ASSUME NEW e \in Device, e # d
      PROVE  frame'[e] = frame[e]
  BY <1>6 DEF Step, auth_init, auth_deinit, Begin, Numbers, Payload, Seals, Refuses, Transmit, Receive,
         Unseals, Passes, Retry, Done, Cleared, EAXdrv_encrypt, TypeInv
<1>7. QED
  BY <1>1, <1>2, <1>3, <1>4, <1>5, <1>6 DEF Alone

LEMMA ReadyOthers ==
  ASSUME IvInv, NEW d \in Device, Alone(d), Ready(d)'
  PROVE  \A e \in Device : Ready(e)'
<1>1. ASSUME NEW e \in Device, e # d
      PROVE  Ready(e)'
  BY <1>1, ReadyStays DEF IvInv, Alone
<1>2. QED
  BY <1>1

LEMMA QuietOthers ==
  ASSUME IvInv, NEW d \in Device, Alone(d), Ready(d)', Pending(d)' = Pending(d), sealed' = sealed,
         dlls_size[d] = 2 => dlls_size'[d] = 2 /\ dlls_nonce'[d] = dlls_nonce[d]
  PROVE  IvInv'
<1>1. \A e \in Device : Pending(e)' = Pending(e)
  BY DEF Alone, Pending
<1>2. \A e \in Device : dlls_size[e] = 2 => dlls_size'[e] = 2 /\ dlls_nonce'[e] = dlls_nonce[e]
  BY DEF Alone
<1>3. build' = build
  BY DEF Alone
<1>4. Signed' /\ Distinct'
  BY <1>1, <1>2, <1>3, SealersStay DEF IvInv
<1>5. \A e \in Device : Ready(e)'
  BY ReadyOthers
<1>6. QED
  BY <1>4, <1>5 DEF IvInv

LEMMA IvInit ==
  Init => IvInv
<1>1. SUFFICES ASSUME Init
               PROVE  IvInv
  OBVIOUS
<1>2. \A d \in Device : Ready(d)
  BY <1>1 DEF Init, Ready
<1>3. 1..Len(sealed) = {}
  BY <1>1 DEF Init
<1>4. QED
  BY <1>2, <1>3 DEF IvInv, Signed, Distinct

LEMMA IvLoads ==
  ASSUME TypeInv, IvInv, NEW d \in Device, Alone(d), auth_init(d) \/ auth_deinit(d)
  PROVE  IvInv'
<1>1. dlls_size[d] = 2 => dlls_size'[d] = 2 /\ dlls_nonce'[d] = dlls_nonce[d]
  BY DEF auth_init, auth_deinit
<1>2. UNCHANGED <<build, q, mem, stage, sealed>>
  BY DEF auth_init, auth_deinit, queue
<1>3. Pending(d)' = Pending(d)
  BY <1>2 DEF Pending
<1>4. Ready(d)'
  <2>1. Ready(d)
    BY DEF IvInv
  <2>2. CASE dlls_size[d] = 2
    BY <1>1, <1>2, <2>1, <2>2, ReadyStays
  <2>3. CASE dlls_size[d] # 2
    <3>1. stage[d] \notin {"named", "nonced", "plain"}
      BY <2>1, <2>3 DEF Ready
    <3>2. QED
      BY <1>2, <3>1 DEF Ready
  <2>4. QED
    BY <2>2, <2>3
<1>5. QED
  BY <1>1, <1>2, <1>3, <1>4, QuietOthers

LEMMA IvBegin ==
  ASSUME TypeInv, IvInv, NEW d \in Device, Alone(d), Begin(d)
  PROVE  IvInv'
<1>1. PICK s \in Starts(d), pad \in {0, 3} :
        /\ q' = [q EXCEPT ![d] = [get |-> s, put |-> s + 3 - pad, back |-> Alloc]]
        /\ mem' = [mem EXCEPT ![d] = Written(@, s, [i \in 1..3 |-> <<"id", d>>])]
  BY DEF Begin
<1>2. /\ dlls_size' = dlls_size /\ dlls_nonce' = dlls_nonce /\ dlls_size[d] = 2 /\ sealed' = sealed
      /\ stage[d] = "idle" /\ stage'[d] = "named"
  BY DEF Begin, Goes, device, TypeInv, TypeOK
<1>3. q'[d].get = s /\ mem'[d] = Written(mem[d], s, [i \in 1..3 |-> <<"id", d>>])
  BY <1>1 DEF TypeInv, TypeOK
<1>4. s \in Nat /\ s + 3 <= Alloc
  <2>1. s \in Nat /\ s + 7 <= Alloc /\ Alloc \in Nat
    BY StartsIs, CryptAssumption
  <2>2. QED
    BY <2>1
<1>5. Named(d, mem[d], q[d].get)'
  <2>1. PICK w : w = Written(mem[d], s, [i \in 1..3 |-> <<"id", d>>])
    OBVIOUS
  <2>2. Named(d, w, s)
    BY <1>4, <2>1, NamedWritten
  <2>3. QED
    BY <1>3, <2>1, <2>2 DEF Named
<1>6. Ready(d)'
  BY <1>2, <1>5 DEF Ready
<1>7. Pending(d)' = Pending(d)
  BY <1>2 DEF Pending
<1>8. QED
  BY <1>2, <1>6, <1>7, QuietOthers

(* The bytes of the IV stay when those behind it are written.                *)
LEMMA IvStays ==
  ASSUME TypeInv, NEW d \in Device, NEW p \in Nat, NEW s, Len(s) \in Nat, q[d].get + 7 <= p, p <= Alloc
  PROVE  Bytes(Written(mem[d], p, s), q[d].get, 7) = Bytes(mem[d], q[d].get, 7)
<1>1. q[d].get \in Nat /\ q[d].get + 7 <= Alloc
  <2>1. q[d].get \in Int /\ 0 <= q[d].get /\ Alloc \in Nat
    BY CursorsAt, CryptAssumption
  <2>2. QED
    BY <2>1
<1>2. QED
  BY <1>1, BytesStay

(* A step behind the IV, from nonced or plain to plain.                      *)
LEMMA IvBehind ==
  ASSUME TypeInv, IvInv, NEW d \in Device, Alone(d), stage[d] \in {"nonced", "plain"},
         stage'[d] = "plain", sealed' = sealed, dlls_size' = dlls_size, dlls_nonce' = dlls_nonce,
         q'[d].get = q[d].get, Bytes(mem'[d], q[d].get, 7) = Bytes(mem[d], q[d].get, 7)
  PROVE  IvInv'
<1>1. /\ dlls_size[d] = 2
      /\ Bytes(mem[d], q[d].get, 7) = Iv(d, Back(dlls_nonce[d], 1))
  BY DEF IvInv, Ready
<1>2. Back(dlls_nonce[d], 1)' = Back(dlls_nonce[d], 1)
  BY DEF Back
<1>3. Iv(d, Back(dlls_nonce[d], 1))' = Iv(d, Back(dlls_nonce[d], 1))
  BY <1>2 DEF Iv, Digits, Alone
<1>4. Bytes(mem[d], q[d].get, 7)' = Bytes(mem[d], q[d].get, 7)
  <2>1. Bytes(mem[d], q[d].get, 7)' = Bytes(mem'[d], q[d].get, 7)
    BY DEF Bytes
  <2>2. QED
    BY <2>1
<1>5. Ready(d)'
  BY <1>1, <1>3, <1>4 DEF Ready
<1>6. Pending(d)' = Pending(d)
  BY DEF Pending
<1>7. QED
  BY <1>1, <1>5, <1>6, QuietOthers

LEMMA IvPayload ==
  ASSUME TypeInv, IvInv, NEW d \in Device, Alone(d), Payload(d)
  PROVE  IvInv'
<1>1. PICK s \in Plains :
        /\ q' = [q EXCEPT ![d].put = @ + Len(s)]
        /\ mem' = [mem EXCEPT ![d] = Written(@, q[d].put, s)]
  BY DEF Payload
<1>2. /\ stage[d] = "nonced" /\ stage'[d] = "plain" /\ sealed' = sealed
      /\ dlls_size' = dlls_size /\ dlls_nonce' = dlls_nonce
  BY DEF Payload, Goes, device, TypeInv, TypeOK
<1>3. q'[d].get = q[d].get /\ mem'[d] = Written(mem[d], q[d].put, s)
  BY <1>1 DEF TypeInv, TypeOK
<1>4. q[d].put \in Nat /\ q[d].get + 7 <= q[d].put /\ q[d].put <= Alloc
  <2>1. /\ q[d].get \in Int /\ q[d].put \in Int /\ q[d].back \in Int /\ Alloc \in Nat
        /\ 0 <= q[d].get /\ q[d].get <= q[d].put /\ q[d].put <= q[d].back /\ q[d].back <= Alloc
        /\ q[d].put = q[d].get + 7
    BY <1>2, CursorsAt, CryptAssumption DEF Cursors
  <2>2. QED
    BY <2>1
<1>5. Len(s) \in Nat
  BY CryptAssumption
<1>6. Bytes(mem'[d], q[d].get, 7) = Bytes(mem[d], q[d].get, 7)
  BY <1>3, <1>4, <1>5, IvStays
<1>7. QED
  BY <1>2, <1>3, <1>6, IvBehind

LEMMA IvRefuses ==
  ASSUME TypeInv, IvInv, NEW d \in Device, Alone(d), Refuses(d)
  PROVE  IvInv'
<1>1. /\ stage[d] = "plain" /\ stage'[d] = "plain" /\ sealed' = sealed /\ q' = q
      /\ dlls_size' = dlls_size /\ dlls_nonce' = dlls_nonce
  BY DEF Refuses, device
<1>2. q[d].put \in Nat /\ q[d].get + 7 <= q[d].put /\ q[d].put <= Alloc
  <2>1. /\ q[d].get \in Int /\ q[d].put \in Int /\ q[d].back \in Int /\ Alloc \in Nat
        /\ 0 <= q[d].get /\ q[d].get + 7 <= q[d].put /\ q[d].put <= q[d].back /\ q[d].back <= Alloc
    BY <1>1, CursorsAt, CryptAssumption DEF Cursors
  <2>2. QED
    BY <2>1
<1>3. Bytes(mem'[d], q[d].get, 7) = Bytes(mem[d], q[d].get, 7)
  <2>1. CASE mem' = mem
    BY <2>1
  <2>2. ASSUME NEW x, mem' = [mem EXCEPT ![d] = Written(@, q[d].put, <<Zero, Zero, Zero, x>>)]
        PROVE  Bytes(mem'[d], q[d].get, 7) = Bytes(mem[d], q[d].get, 7)
    <3>0. Len(<<Zero, Zero, Zero, x>>) = 4
      OBVIOUS
    <3>1. PICK s : s = <<Zero, Zero, Zero, x>> /\ Len(s) = 4
      <4>1. \E s : s = <<Zero, Zero, Zero, x>>
        OBVIOUS
      <4>2. QED
        BY <3>0, <4>1
    <3>2. mem'[d] = Written(mem[d], q[d].put, s)
      BY <2>2, <3>1 DEF TypeInv
    <3>3. Len(s) \in Nat
      BY <3>1
    <3>4. QED
      BY <1>2, <3>2, <3>3, IvStays
  <2>3. QED
    BY <2>1, <2>2 DEF Refuses
<1>4. q'[d].get = q[d].get
  BY <1>1
<1>5. QED
  BY <1>1, <1>3, <1>4, IvBehind

(* A step that is none of the making of an IV.                               *)
LEMMA IvElse ==
  ASSUME TypeInv, IvInv, NEW d \in Device, Alone(d),
         Transmit(d) \/ Receive(d) \/ Unseals(d) \/ Passes(d) \/ Retry(d) \/ Done(d)
  PROVE  IvInv'
<1>1. /\ stage[d] \notin {"named", "nonced", "plain"} /\ stage'[d] \notin {"named", "nonced", "plain"}
      /\ sealed' = sealed /\ dlls_size' = dlls_size /\ dlls_nonce' = dlls_nonce
  BY DEF Transmit, Receive, Unseals, Passes, Retry, Done, Goes, device, TypeInv, TypeOK
<1>2. Ready(d)' /\ Pending(d)' = Pending(d)
  BY <1>1 DEF Ready, Pending
<1>3. QED
  BY <1>1, <1>2, QuietOthers

LEMMA IvNumbers ==
  ASSUME TypeInv, IvInv, NEW d \in Device, Alone(d), Numbers(d)
  PROVE  IvInv'
<1>1. PICK n \in Nonce : n = dlls_nonce[d]
  BY NonceIs
<1>2. /\ stage[d] = "named" /\ stage'[d] = "nonced" /\ sealed' = sealed /\ dlls_size' = dlls_size
      /\ dlls_nonce'[d] = Following(n) /\ dlls_size[d] = 2
      /\ q'[d].get = q[d].get /\ mem'[d] = Written(mem[d], q[d].get + 3, Digits(d, n))
  <2>1. stage[d] = "named" /\ stage'[d] = "nonced" /\ sealed' = sealed /\ dlls_size' = dlls_size
    BY DEF Numbers, Goes, TypeInv, TypeOK
  <2>2. dlls_nonce'[d] = Following(n)
    BY <1>1 DEF Numbers, TypeInv, TypeOK
  <2>3. q'[d].get = q[d].get
    BY DEF Numbers, TypeInv, TypeOK
  <2>4. mem'[d] = Written(mem[d], q[d].get + 3, Digits(d, n))
    BY <1>1 DEF Numbers, TypeInv
  <2>5. dlls_size[d] = 2
    BY <2>1 DEF IvInv, Ready
  <2>6. QED
    BY <2>1, <2>2, <2>3, <2>4, <2>5
<1>3. /\ Back(Following(n), 1) = n
      /\ \A i \in Nat : i < NonceMod => Back(Following(n), i + 1) = Back(n, i)
  BY FollowingIs
<1>4. Ready(d)'
  <2>1. q[d].get \in Nat /\ q[d].get + 7 <= Alloc
    BY <1>2, CursorsAt, StartsIs DEF Cursors
  <2>2. Named(d, mem[d], q[d].get)
    BY <1>2 DEF IvInv, Ready
  <2>3. Len(Digits(d, n)) = 4
    BY HighFirstIs DEF Digits
  <2>4. PICK s : s = Digits(d, n)
    OBVIOUS
  <2>5. Bytes(mem'[d], q[d].get, 7) = Iv(d, n)
    BY <1>2, <2>1, <2>2, <2>3, <2>4, IvWritten
  <2>6. Bytes(mem[d], q[d].get, 7)' = Bytes(mem'[d], q[d].get, 7)
    BY <1>2 DEF Bytes
  <2>7. Back(dlls_nonce[d], 1)' = n
    BY <1>2, <1>3 DEF Back
  <2>8. Iv(d, Back(dlls_nonce[d], 1))' = Iv(d, n)
    BY <2>7, IvNext DEF Alone
  <2>9. QED
    BY <1>2, <2>5, <2>6, <2>8 DEF Ready
<1>5. Pending(d) = 0 /\ Pending(d)' = 1
  BY <1>2 DEF Pending
<1>6. Len(sealed) \in Nat /\ Len(sealed) < NonceMod
  <2>1. Len(sealed) \in Nat /\ Len(sealed) <= MaxSeals
    BY SeqLen DEF TypeInv, TypeOK
  <2>2. MaxSeals \in Nat /\ MaxSeals < NonceMod /\ NonceMod \in Nat
    BY CryptAssumption, NonceModIs
  <2>3. QED
    BY <2>1, <2>2
<1>7. ASSUME NEW k \in 1..Len(sealed)
      PROVE  \E e \in Device, i \in Nat : Sealer(k, e, i)'
  <2>1. PICK e \in Device, i \in Nat : Sealer(k, e, i)
    BY DEF IvInv, Signed
  <2>2. CASE e # d
    <3>1. Back(dlls_nonce[e], i)' = Back(dlls_nonce[e], i)
      BY <2>2 DEF Back, Alone
    <3>2. Iv(e, Back(dlls_nonce[e], i))' = Iv(e, Back(dlls_nonce[e], i))
      BY <3>1 DEF Iv, Digits, Alone
    <3>3. Pending(e)' = Pending(e)
      BY <2>2 DEF Pending, Alone
    <3>4. QED
      BY <1>2, <2>1, <3>2, <3>3 DEF Sealer
  <2>3. CASE e = d
    <3>1. 0 < i /\ i <= Len(sealed) /\ sealed[k].iv = Iv(d, Back(n, i))
      BY <1>1, <1>5, <2>1, <2>3 DEF Sealer
    <3>2. i < NonceMod /\ i + 1 \in Nat /\ 1 < i + 1 /\ i + 1 <= Len(sealed) + 1
      BY <1>6, <3>1, NonceModIs
    <3>3. PICK x : x = Back(n, i)
      OBVIOUS
    <3>4. Back(dlls_nonce[d], i + 1)' = x
      <4>1. Back(Following(n), i + 1) = x
        BY <1>3, <3>2, <3>3
      <4>2. PICK j \in Nat : j = i + 1
        BY <3>2
      <4>3. Back(dlls_nonce[d], j)' = Back(Following(n), j)
        BY <1>2 DEF Back
      <4>4. QED
        BY <4>1, <4>2, <4>3
    <3>5. Iv(d, Back(dlls_nonce[d], i + 1))' = Iv(d, x)
      BY <3>4 DEF Iv, Digits, Alone
    <3>6. Sealer(k, d, i + 1)'
      BY <1>2, <1>5, <3>1, <3>2, <3>3, <3>5 DEF Sealer
    <3>7. QED
      BY <3>2, <3>6
  <2>4. QED
    BY <2>2, <2>3
<1>8. Signed' /\ Distinct'
  BY <1>2, <1>7 DEF Signed, Distinct, IvInv
<1>9. QED
  BY <1>4, <1>8, ReadyOthers DEF IvInv

LEMMA IvSeals ==
  ASSUME TypeInv, IvInv, NEW d \in Device, Alone(d), Seals(d)
  PROVE  IvInv'
<1>1. PICK x : sealed' = Append(sealed, x) /\ x.iv = Bytes(mem[d], q[d].get, 7)
  <2>1. PICK key : EAXdrv_encrypt(d, q[d].get, q[d].get + 7, Length(d), key)
    BY DEF Seals
  <2>2. PICK x : /\ sealed' = Append(sealed, x)
                 /\ x = [key |-> key, iv |-> Bytes(mem[d], q[d].get, 7),
                         plain |-> Bytes(mem[d], q[d].get + 7, Length(d))]
    BY <2>1 DEF EAXdrv_encrypt
  <2>3. x.iv = Bytes(mem[d], q[d].get, 7)
    BY <2>2
  <2>4. QED
    BY <2>2, <2>3
<1>2. PICK n \in Nonce : n = dlls_nonce[d]
  BY NonceIs
<1>3. /\ stage[d] = "plain" /\ stage'[d] = "sealed" /\ dlls_size' = dlls_size
      /\ dlls_nonce' = dlls_nonce /\ Len(sealed) < MaxSeals
  BY DEF Seals, EAXdrv_encrypt, Goes, device, TypeInv, TypeOK
<1>4. dlls_size[d] = 2 /\ x.iv = Iv(d, Back(n, 1))
  BY <1>1, <1>2, <1>3 DEF IvInv, Ready
<1>5. PICK l \in Nat : l = Len(sealed) /\ l + 1 < NonceMod
  <2>1. Len(sealed) \in Nat
    BY SeqLen DEF TypeInv
  <2>2. MaxSeals \in Nat /\ MaxSeals < NonceMod /\ NonceMod \in Nat
    BY CryptAssumption, NonceModIs
  <2>3. QED
    BY <1>3, <2>1, <2>2
<1>6. /\ Len(sealed') = l + 1 /\ \A i \in 1..l : sealed'[i] = sealed[i]
      /\ sealed'[l + 1] = x
  BY <1>1, <1>5, SeqAppend DEF TypeInv
<1>7. Pending(d) = 1 /\ Pending(d)' = 0
  BY <1>3 DEF Pending
<1>8. ASSUME NEW e \in Device, NEW i \in Nat
      PROVE  Iv(e, Back(dlls_nonce[e], i))' = Iv(e, Back(dlls_nonce[e], i))
  <2>1. Back(dlls_nonce[e], i)' = Back(dlls_nonce[e], i)
    BY <1>3 DEF Back
  <2>2. QED
    BY <2>1 DEF Iv, Digits, Alone
<1>9. ASSUME NEW k \in 1..l
      PROVE  \E e \in Device, i \in Nat : Sealer(k, e, i)'
  <2>1. PICK e \in Device, i \in Nat : Sealer(k, e, i)
    BY <1>5 DEF IvInv, Signed
  <2>2. Pending(e) \in {0, 1} /\ Pending(e)' \in {0, 1} /\ Pending(e)' <= Pending(e)
    BY <1>7 DEF Pending, Alone
  <2>3. l + Pending(e) <= l + 1 + Pending(e)'
    BY <2>2
  <2>4. Pending(e)' < i /\ i <= Len(sealed') + Pending(e)'
    BY <1>5, <1>6, <2>1, <2>2 DEF Sealer
  <2>5. sealed'[k].iv = Iv(e, Back(dlls_nonce[e], i)) /\ dlls_size'[e] = 2
    BY <1>3, <1>6, <2>1 DEF Sealer
  <2>6. QED
    BY <1>8, <2>4, <2>5 DEF Sealer
<1>10. \E e \in Device, i \in Nat : Sealer(l + 1, e, i)'
  <2>1. Iv(d, Back(dlls_nonce[d], 1))' = Iv(d, Back(n, 1))
    BY <1>2, <1>8
  <2>2. Pending(d)' < 1 /\ 1 <= Len(sealed') + Pending(d)' /\ dlls_size'[d] = 2
    BY <1>3, <1>4, <1>6, <1>7
  <2>3. Sealer(l + 1, d, 1)'
    BY <1>4, <1>6, <2>1, <2>2 DEF Sealer
  <2>4. QED
    BY <2>3
<1>11. Signed'
  <2>1. 1..Len(sealed') = 1..l \cup {l + 1}
    BY <1>6
  <2>2. QED
    BY <1>9, <1>10, <2>1 DEF Signed
<1>12. ASSUME NEW k \in 1..l
       PROVE  sealed[k].iv # x.iv
  <2>1. PICK e \in Device, i \in Nat : Sealer(k, e, i)
    BY <1>5 DEF IvInv, Signed
  <2>2. Pending(e) \in {0, 1} /\ (e = d => Pending(e) = 1)
    BY <1>7 DEF Pending
  <2>3. i \in 1..NonceMod /\ 1 \in 1..NonceMod /\ (e = d => i # 1)
    BY <1>5, <2>1, <2>2, NonceModIs DEF Sealer
  <2>4. PICK m \in Nonce : m = dlls_nonce[e]
    BY NonceIs
  <2>5. Back(m, i) \in Nonce /\ Back(n, 1) \in Nonce
    BY <2>3, BackIs
  <2>6. SUFFICES ASSUME Iv(e, Back(m, i)) = Iv(d, Back(n, 1))
                 PROVE  FALSE
    BY <1>4, <2>1, <2>4 DEF Sealer
  <2>7. e = d /\ Back(m, i) = Back(n, 1)
    BY <2>5, <2>6, IvsDiffer
  <2>8. m = n /\ i # 1
    BY <1>2, <2>3, <2>4, <2>7
  <2>9. QED
    BY <2>3, <2>7, <2>8, BackIs
<1>13. Distinct'
  <2>1. SUFFICES ASSUME NEW j \in 1..(l + 1), NEW k \in 1..(l + 1), j # k
                 PROVE  sealed'[j].iv # sealed'[k].iv
    BY <1>6 DEF Distinct
  <2>2. CASE j \in 1..l /\ k \in 1..l
    BY <1>5, <1>6, <2>1, <2>2 DEF IvInv, Distinct
  <2>3. CASE j = l + 1
    <3>1. k \in 1..l
      BY <2>1, <2>3
    <3>2. QED
      BY <1>6, <1>12, <2>3, <3>1
  <2>4. CASE k = l + 1
    <3>1. j \in 1..l
      BY <2>1, <2>4
    <3>2. QED
      BY <1>6, <1>12, <2>4, <3>1
  <2>5. QED
    BY <2>1, <2>2, <2>3, <2>4
<1>14. Ready(d)'
  BY <1>3 DEF Ready
<1>15. QED
  BY <1>11, <1>13, <1>14, ReadyOthers DEF IvInv

LEMMA IvStep ==
  TypeInv /\ IvInv /\ [Next]_vars => IvInv'
<1>1. SUFFICES ASSUME TypeInv, IvInv, [Next]_vars
               PROVE  IvInv'
  OBVIOUS
<1>2. CASE Next
  <2>1. PICK d \in Device : Step(d)
    BY <1>1, <1>2, StepIs
  <2>2. Alone(d)
    BY <1>1, <2>1, StepAlone
  <2>3. QED
    BY <1>1, <2>1, <2>2, IvLoads, IvBegin, IvNumbers, IvPayload, IvSeals, IvRefuses, IvElse DEF Step
<1>3. CASE UNCHANGED vars
  <2>1. UNCHANGED <<build, dlls_size, dlls_nonce, dlls_ctx, q, mem, stage, frame, rc, sealed, air>>
    BY <1>3 DEF vars, device, queue
  <2>2. \A e \in Device : Ready(e)'
    BY <1>1, <2>1, ReadyStays DEF IvInv
  <2>3. \A e \in Device : Pending(e)' = Pending(e)
    BY <2>1 DEF Pending
  <2>4. Signed' /\ Distinct'
    BY <1>1, <2>1, <2>3, SealersStay DEF IvInv
  <2>5. QED
    BY <2>2, <2>4 DEF IvInv
<1>4. QED
  BY <1>1, <1>2, <1>3

LEMMA Ivs == Spec => []IvInv
<1>1. QED
  BY IvInit, IvStep, Types, PTL DEF Spec

(* No key is ever used twice with one IV: the device's ID and the nonces of  *)
(* auth_putnonce, auth_putnonce_q and auth_getnonce tell every frame from    *)
(* the others, as long as fewer are encrypted than a nonce has values, and   *)
(* however often auth_init and auth_deinit are called.                       *)
THEOREM NoncesAreFresh == Spec => []NonceFresh
<1>1. TypeInv /\ IvInv => NonceFresh
  <2>1. TypeInv => DOMAIN sealed = 1..Len(sealed)
    BY SeqLen DEF TypeInv
  <2>2. QED
    BY <2>1 DEF IvInv, Distinct, NonceFresh
<1>2. QED
  BY <1>1, Types, Ivs, PTL

-----------------------------------------------------------------------------
(* What is in the queues and on the way: the l bytes at p are those that the *)
(* k-th seal x made, or they are none that a seal makes.                     *)
Holds(m, p, l, x, k) ==
  /\ l = Len(x.plain) + 11
  /\ \A i \in 1..7 : m[p + i - 1] = x.iv[i]
  /\ \A i \in 1..(Len(x.plain) + 4) : m[p + 7 + i - 1] = Cipher(k, Len(x.plain))[i]

Spoilt(m, p, l) ==
  \/ \E k : m[p + l - 1] = <<"tag", k, 3>>
  \/ \E i \in 1..l : m[p + i - 1] = <<"junk">>

Exact(d) ==
  /\ rc[d] = 4 <=> frame[d].intact /\ frame[d].key = sealed[frame[d].of].key
  /\ rc[d] = 4 => Bytes(mem[d], q[d].get, q[d].put - q[d].get) = sealed[frame[d].of].plain

FrameOK(d) ==
  /\ stage[d] \in {"sealed", "got", "opened"} => frame[d].of \in 1..Len(sealed)
  /\ stage[d] = "sealed" =>
       Holds(mem[d], q[d].get, q[d].put - q[d].get, sealed[frame[d].of], frame[d].of)
  /\ stage[d] = "got" =>
       IF frame[d].intact
         THEN Holds(mem[d], frame[d].start, q[d].put - frame[d].start,
                    sealed[frame[d].of], frame[d].of)
         ELSE Spoilt(mem[d], frame[d].start, q[d].put - frame[d].start)
  /\ stage[d] = "opened" => Exact(d)

AirOK(f) == f.of \in 1..Len(sealed) /\ Holds(f.bytes, 1, Len(f.bytes), sealed[f.of], f.of)

OpenInv ==
  /\ \A k \in 1..Len(sealed) : Sequence(sealed[k].plain)
  /\ \A d \in Device : FrameOK(d)
  /\ \A f \in air : AirOK(f)

LEMMA CipherIs ==
  ASSUME NEW k, NEW n \in Nat
  PROVE  /\ Len(Cipher(k, n)) = n + 4
         /\ Cipher(k, n) = [i \in 1..(n + 4) |-> Cipher(k, n)[i]]
         /\ \A i \in 1..(n + 4) : Cipher(k, n)[i] # <<"junk">>
         /\ \A j \in 1..4 : Cipher(k, n)[n + j] = <<"tag", k, j>>
<1>1. Len(Cipher(k, n)) = n + 4
  BY DEF Cipher
<1>2. Cipher(k, n) = [i \in 1..(n + 4) |-> Cipher(k, n)[i]]
  BY DEF Cipher
<1>3. ASSUME NEW i \in 1..(n + 4)
      PROVE  Cipher(k, n)[i] # <<"junk">>
  <2>1. \A a, b, c : <<a, b, c>> # <<"junk">>
    OBVIOUS
  <2>2. Cipher(k, n)[i] = <<"cipher", k, i>> \/ Cipher(k, n)[i] = <<"tag", k, i - n>>
    BY DEF Cipher
  <2>3. QED
    BY <2>1, <2>2
<1>4. ASSUME NEW j \in 1..4
      PROVE  Cipher(k, n)[n + j] = <<"tag", k, j>>
  <2>1. n + j \in 1..(n + 4) /\ ~(n + j <= n) /\ (n + j) - n = j
    OBVIOUS
  <2>2. Cipher(k, n)[n + j] = <<"tag", k, (n + j) - n>>
    BY <2>1 DEF Cipher
  <2>3. QED
    BY <2>1, <2>2
<1>5. QED
  BY <1>1, <1>2, <1>3, <1>4

(* An IV is seven bytes, and no junk.                                        *)
LEMMA IvClean ==
  ASSUME TypeInv, IvInv, NEW k \in 1..Len(sealed)
  PROVE  /\ sealed[k].iv = [i \in 1..7 |-> sealed[k].iv[i]]
         /\ \A i \in 1..7 : sealed[k].iv[i] # <<"junk">>
<1>1. PICK e \in Device, j \in Nat : sealed[k].iv = Iv(e, Back(dlls_nonce[e], j))
  BY DEF IvInv, Signed, Sealer
<1>2. PICK n : sealed[k].iv = Iv(e, n)
  BY <1>1
<1>3. Iv(e, n) = [i \in 1..7 |-> Iv(e, n)[i]]
  BY DEF Iv
<1>4. ASSUME NEW i \in 1..7
      PROVE  Iv(e, n)[i] # <<"junk">>
  <2>1. \A a, b : <<a, b>> # <<"junk">>
    OBVIOUS
  <2>2. CASE i <= 3
    <3>1. Iv(e, n)[i] = <<"id", e>>
      BY <2>2 DEF Iv
    <3>2. QED
      BY <2>1, <3>1
  <2>3. CASE ~(i <= 3)
    <3>1. Iv(e, n)[i] = Digits(e, n)[i - 3] /\ i - 3 \in 1..4
      BY <2>3 DEF Iv
    <3>2. \A m : \A h \in 1..4 : \E x : HighFirst(m)[h] = <<"digit", x>>
      BY DEF HighFirst
    <3>3. PICK h \in 1..4 : h = i - 3
      BY <3>1
    <3>4. \E m, g : g \in 1..4 /\ Digits(e, n)[h] = HighFirst(m)[g]
      <4>1. LowFirst(n)[h] = HighFirst(n)[5 - h] /\ 5 - h \in 1..4
        BY HighFirstIs
      <4>2. QED
        BY <4>1 DEF Digits
    <3>5. QED
      BY <2>1, <3>1, <3>2, <3>3, <3>4
  <2>4. QED
    BY <2>2, <2>3
<1>5. QED
  BY <1>2, <1>3, <1>4

(* Bytes that arrive hold what was written, moved.                           *)
LEMMA HoldsWritten ==
  ASSUME NEW m, NEW p \in Nat, NEW b, Len(b) \in Nat, p + Len(b) <= Alloc,
         NEW x, Len(x.plain) \in Nat, NEW k
  PROVE  /\ Holds(b, 1, Len(b), x, k) => Holds(Written(m, p, b), p, Len(b), x, k)
         /\ Len(b) >= 11 /\ Spoilt(b, 1, Len(b)) => Spoilt(Written(m, p, b), p, Len(b))
<1>1. PICK l \in Nat : l = Len(b)
  OBVIOUS
<1>2. PICK w : w = Written(m, p, b)
  OBVIOUS
<1>3. ASSUME NEW i \in 1..l
      PROVE  w[p + i - 1] = b[i] /\ b[1 + i - 1] = b[i]
  <2>1. p + i - 1 \in Place /\ p + i - 1 \in p..(p + l - 1) /\ (p + i - 1) - p + 1 = i /\ 1 + i - 1 = i
    BY <1>1, CryptAssumption DEF Place
  <2>2. QED
    BY <1>1, <1>2, <2>1 DEF Written
<1>4. ASSUME Holds(b, 1, l, x, k)
      PROVE  Holds(w, p, l, x, k)
  <2>1. PICK n \in Nat : n = Len(x.plain) /\ l = n + 11
    BY <1>4 DEF Holds
  <2>2. ASSUME NEW i \in 1..7
        PROVE  w[p + i - 1] = x.iv[i]
    <3>1. i \in 1..l
      BY <2>1
    <3>2. QED
      BY <1>3, <1>4, <3>1 DEF Holds
  <2>3. ASSUME NEW i \in 1..(n + 4)
        PROVE  w[p + 7 + i - 1] = Cipher(k, n)[i]
    <3>1. PICK j \in 1..l : j = i + 7 /\ p + j - 1 = p + 7 + i - 1 /\ 1 + j - 1 = 1 + 7 + i - 1
      <4>1. i + 7 \in 1..l /\ p + (i + 7) - 1 = p + 7 + i - 1 /\ 1 + (i + 7) - 1 = 1 + 7 + i - 1
        BY <2>1
      <4>2. QED
        BY <4>1
    <3>2. w[p + j - 1] = b[1 + j - 1]
      BY <1>3
    <3>3. b[1 + 7 + i - 1] = Cipher(k, n)[i]
      BY <1>4, <2>1 DEF Holds
    <3>4. QED
      BY <3>1, <3>2, <3>3
  <2>4. QED
    BY <2>1, <2>2, <2>3 DEF Holds
<1>5. ASSUME l >= 11, Spoilt(b, 1, l)
      PROVE  Spoilt(w, p, l)
  <2>1. l \in 1..l
    BY <1>5
  <2>2. QED
    BY <1>3, <1>5, <2>1 DEF Spoilt
<1>6. QED
  BY <1>1, <1>2, <1>4, <1>5

(* What does not arrive as it was sent is spoilt.                            *)
LEMMA ArrivesSpoilt ==
  ASSUME NEW f, Sequence(f.bytes), NEW b \in Arrivals(f), b # f.bytes, Len(b) >= 11,
         NEW x, Len(x.plain) \in Nat, NEW k, Holds(f.bytes, 1, Len(f.bytes), x, k)
  PROVE  Spoilt(b, 1, Len(b))
<1>1. PICK l \in Nat : l = Len(f.bytes) /\ DOMAIN f.bytes = 1..l
  BY SeqLen
<1>2. PICK n \in Nat : n = Len(x.plain) /\ l = n + 11
  BY <1>1 DEF Holds
<1>3. PICK S : f.bytes \in Seq(S)
  BY DEF Sequence
<1>4. CASE b = SubSeq(f.bytes, 1, Len(f.bytes) - 1)
  <2>1. Len(b) = l - 1 /\ \A i \in 1..(l - 1) : b[i] = f.bytes[i]
    BY <1>1, <1>2, <1>3, <1>4
  <2>2. n + 10 \in 1..(l - 1) /\ 1 + (n + 10) - 1 = n + 10 /\ l - 1 = n + 10
    BY <1>2
  <2>3. b[n + 10] = f.bytes[n + 10]
    BY <2>1, <2>2
  <2>4. f.bytes[n + 10] = <<"tag", k, 3>>
    <3>1. PICK i \in 1..(n + 4) : i = n + 3 /\ 1 + 7 + i - 1 = n + 10
      <4>1. n + 3 \in 1..(n + 4) /\ 1 + 7 + (n + 3) - 1 = n + 10
        OBVIOUS
      <4>2. QED
        BY <4>1
    <3>2. f.bytes[1 + 7 + i - 1] = Cipher(k, n)[i]
      BY <1>2 DEF Holds
    <3>3. Cipher(k, n)[n + 3] = <<"tag", k, 3>>
      BY CipherIs
    <3>4. QED
      BY <3>1, <3>2, <3>3
  <2>5. b[1 + Len(b) - 1] = <<"tag", k, 3>>
    BY <2>1, <2>2, <2>3, <2>4
  <2>6. QED
    BY <2>5 DEF Spoilt
<1>5. ASSUME NEW i \in Damage \cap DOMAIN f.bytes, b = [f.bytes EXCEPT ![i] = <<"junk">>]
      PROVE  Spoilt(b, 1, Len(b))
  <2>1. i \in 1..l /\ b[i] = <<"junk">> /\ 1 + i - 1 = i
    BY <1>1, <1>5
  <2>2. Len(b) = l
    <3>1. DOMAIN b = 1..l
      BY <1>1, <1>5
    <3>2. PICK T : T = S \cup {<<"junk">>}
      OBVIOUS
    <3>3. f.bytes \in [1..l -> S]
      BY <1>1, <1>3
    <3>4. b \in [1..l -> T]
      BY <1>5, <3>2, <3>3
    <3>5. QED
      BY <3>4, SeqFunction
  <2>3. QED
    BY <2>1, <2>2 DEF Spoilt
<1>6. QED
  BY <1>4, <1>5 DEF Arrivals

LEMMA HoldsSequence ==
  ASSUME NEW m, NEW p \in Int, NEW l \in Nat, NEW x, Len(x.plain) \in Nat, NEW k, Holds(m, p, l, x, k)
  PROVE  Holds(Bytes(m, p, l), 1, l, x, k)
<1>1. PICK n \in Nat : n = Len(x.plain) /\ l = n + 11
  BY DEF Holds
<1>2. PICK b : b = Bytes(m, p, l)
  OBVIOUS
<1>3. \A i \in 1..l : b[i] = m[p + i - 1]
  BY <1>2 DEF Bytes
<1>4. ASSUME NEW i \in 1..7
      PROVE  b[1 + i - 1] = x.iv[i]
  <2>1. i \in 1..l /\ 1 + i - 1 = i
    BY <1>1
  <2>2. QED
    BY <1>3, <2>1 DEF Holds
<1>5. ASSUME NEW i \in 1..(n + 4)
      PROVE  b[1 + 7 + i - 1] = Cipher(k, n)[i]
  <2>1. PICK j \in 1..l : j = 1 + 7 + i - 1 /\ p + j - 1 = p + 7 + i - 1
    <3>1. 1 + 7 + i - 1 \in 1..l /\ p + (1 + 7 + i - 1) - 1 = p + 7 + i - 1
      BY <1>1
    <3>2. QED
      BY <3>1
  <2>2. b[j] = m[p + j - 1]
    BY <1>3
  <2>3. m[p + 7 + i - 1] = Cipher(k, n)[i]
    BY <1>1 DEF Holds
  <2>4. QED
    BY <2>1, <2>2, <2>3
<1>6. QED
  BY <1>1, <1>2, <1>4, <1>5 DEF Holds

(* What a seal makes of a buffer holds it.                                   *)
LEMMA SealHolds ==
  ASSUME NEW m, NEW p \in Nat, NEW n \in Nat, p + n + 11 <= Alloc, NEW k, NEW x,
         Len(x.plain) = n, x.iv = Bytes(m, p, 7)
  PROVE  Holds(Written(m, p + 7, Cipher(k, n)), p, n + 11, x, k)
<1>1. PICK s : s = Cipher(k, n) /\ Len(s) = n + 4
  BY CipherIs
<1>2. PICK w : w = Written(m, p + 7, s)
  OBVIOUS
<1>3. Bytes(w, p, 7) = Bytes(m, p, 7)
  <2>1. /\ p + 7 \in Nat /\ Len(s) \in Nat /\ p + 7 <= p + 7 /\ p + 7 <= Alloc /\ 7 \in Nat
    BY <1>1, CryptAssumption
  <2>2. QED
    BY <1>2, <2>1, BytesStay
<1>4. ASSUME NEW i \in 1..7
      PROVE  w[p + i - 1] = x.iv[i]
  <2>1. Bytes(w, p, 7)[i] = w[p + i - 1]
    BY DEF Bytes
  <2>2. QED
    BY <1>3, <2>1
<1>5. ASSUME NEW i \in 1..(n + 4)
      PROVE  w[p + 7 + i - 1] = s[i]
  <2>1. /\ p + 7 + i - 1 \in Place /\ p + 7 + i - 1 \in (p + 7)..(p + 7 + (n + 4) - 1)
        /\ (p + 7 + i - 1) - (p + 7) + 1 = i
    BY CryptAssumption DEF Place
  <2>2. QED
    BY <1>1, <1>2, <2>1 DEF Written
<1>6. QED
  BY <1>1, <1>2, <1>4, <1>5 DEF Holds

(* Only the seal a frame is of opens it, and a spoilt one none.              *)
LEMMA OpensOne ==
  ASSUME TypeInv, IvInv, OpenInv, NEW d \in Device, NEW p \in Int, NEW n \in Nat, NEW key,
         NEW k \in 1..Len(sealed), Holds(mem[d], p, n + 11, sealed[k], k)
  PROVE  Opens(d, p, p + 7, n, key) = IF sealed[k].key = key THEN {k} ELSE {}
<1>1. Len(sealed[k].plain) = n
  <2>1. Len(sealed[k].plain) \in Nat /\ n + 11 = Len(sealed[k].plain) + 11
    BY SeqLen DEF OpenInv, Holds
  <2>2. QED
    BY <2>1
<1>2. DOMAIN sealed = 1..Len(sealed)
  BY SeqLen DEF TypeInv
<1>3. sealed[k].iv = Bytes(mem[d], p, 7)
  <2>1. \A i \in 1..7 : mem[d][p + i - 1] = sealed[k].iv[i]
    BY DEF Holds
  <2>2. Bytes(mem[d], p, 7) = [i \in 1..7 |-> sealed[k].iv[i]]
    BY <2>1 DEF Bytes
  <2>3. QED
    BY <2>2, IvClean
<1>4. Bytes(mem[d], p + 7, n + 4) = Cipher(k, n)
  <2>1. \A i \in 1..(n + 4) : mem[d][p + 7 + i - 1] = Cipher(k, n)[i]
    BY <1>1 DEF Holds
  <2>2. Bytes(mem[d], p + 7, n + 4) = [i \in 1..(n + 4) |-> Cipher(k, n)[i]]
    BY <2>1 DEF Bytes
  <2>3. QED
    BY <2>2, CipherIs
<1>5. ASSUME NEW j, Cipher(k, n) = Cipher(j, n)
      PROVE  j = k
  <2>1. Cipher(k, n)[n + 1] = <<"tag", k, 1>> /\ Cipher(j, n)[n + 1] = <<"tag", j, 1>>
    BY CipherIs
  <2>2. QED
    BY <1>5, <2>1
<1>6. \A j \in Opens(d, p, p + 7, n, key) : j = k /\ sealed[k].key = key
  BY <1>4, <1>5 DEF Opens
<1>7. sealed[k].key = key => k \in Opens(d, p, p + 7, n, key)
  BY <1>2, <1>3, <1>4 DEF Opens
<1>8. QED
  BY <1>6, <1>7

LEMMA OpensNone ==
  ASSUME TypeInv, IvInv, NEW d \in Device, NEW p \in Int, NEW n \in Nat, NEW key,
         Spoilt(mem[d], p, n + 11)
  PROVE  Opens(d, p, p + 7, n, key) = {}
<1>1. SUFFICES ASSUME NEW j \in Opens(d, p, p + 7, n, key)
               PROVE  FALSE
  OBVIOUS
<1>2. /\ j \in 1..Len(sealed) /\ sealed[j].iv = Bytes(mem[d], p, 7)
      /\ Bytes(mem[d], p + 7, n + 4) = Cipher(j, n)
  BY SeqLen DEF Opens, TypeInv
<1>3. ASSUME NEW i \in 1..7
      PROVE  mem[d][p + i - 1] # <<"junk">>
  <2>1. Bytes(mem[d], p, 7)[i] = mem[d][p + i - 1]
    BY DEF Bytes
  <2>2. QED
    BY <1>2, <2>1, IvClean
<1>4. ASSUME NEW i \in 1..(n + 4)
      PROVE  mem[d][p + 7 + i - 1] = Cipher(j, n)[i]
  <2>1. Bytes(mem[d], p + 7, n + 4)[i] = mem[d][p + 7 + i - 1]
    BY DEF Bytes
  <2>2. QED
    BY <1>2, <2>1
<1>5. ASSUME NEW i \in 1..(n + 11)
      PROVE  mem[d][p + i - 1] # <<"junk">>
  <2>1. CASE i <= 7
    <3>1. i \in 1..7
      BY <2>1
    <3>2. QED
      BY <1>3, <3>1
  <2>2. CASE ~(i <= 7)
    <3>1. i - 7 \in 1..(n + 4) /\ p + 7 + (i - 7) - 1 = p + i - 1
      BY <2>2
    <3>2. PICK h \in 1..(n + 4) : p + 7 + h - 1 = p + i - 1
      BY <3>1
    <3>3. mem[d][p + 7 + h - 1] = Cipher(j, n)[h]
      BY <1>4
    <3>4. Cipher(j, n)[h] # <<"junk">>
      BY CipherIs
    <3>5. QED
      BY <3>2, <3>3, <3>4
  <2>3. QED
    BY <2>1, <2>2
<1>6. mem[d][p + (n + 11) - 1] = <<"tag", j, 4>>
  <2>1. n + 4 \in 1..(n + 4) /\ p + 7 + (n + 4) - 1 = p + (n + 11) - 1
    OBVIOUS
  <2>2. PICK h \in 1..(n + 4) : h = n + 4 /\ p + 7 + h - 1 = p + (n + 11) - 1
    BY <2>1
  <2>3. mem[d][p + 7 + h - 1] = Cipher(j, n)[h]
    BY <1>4
  <2>4. Cipher(j, n)[n + 4] = <<"tag", j, 4>>
    BY CipherIs
  <2>5. QED
    BY <2>2, <2>3, <2>4
<1>7. \A k : <<"tag", j, 4>> # <<"tag", k, 3>>
  OBVIOUS
<1>8. QED
  BY <1>5, <1>6, <1>7 DEF Spoilt

(* Seals stay what they are.                                                 *)
Grows == \A k \in 1..Len(sealed) : k \in 1..Len(sealed') /\ sealed'[k] = sealed[k]

LEMMA GrowsOne ==
  ASSUME TypeInv, NEW d \in Device, Step(d)
  PROVE  Grows
<1>1. CASE sealed' = sealed
  BY <1>1 DEF Grows
<1>2. CASE Seals(d)
  <2>1. PICK x : sealed' = Append(sealed, x)
    BY <1>2 DEF Seals, EAXdrv_encrypt
  <2>2. Len(sealed) \in Nat /\ Len(sealed') = Len(sealed) + 1 /\ \A i \in 1..Len(sealed) : sealed'[i] = sealed[i]
    BY <2>1, SeqLen, SeqAppend DEF TypeInv
  <2>3. QED
    BY <2>2 DEF Grows
<1>3. sealed' = sealed \/ Seals(d)
  BY DEF Step, auth_init, auth_deinit, Begin, Numbers, Payload, Refuses, Transmit, Receive,
         Unseals, Passes, Retry, Done
<1>4. QED
  BY <1>1, <1>2, <1>3

LEMMA FrameStays ==
  ASSUME NEW e \in Device, FrameOK(e), Grows, stage'[e] = stage[e], q'[e].put = q[e].put,
         stage[e] # "got" => q'[e].get = q[e].get, mem'[e] = mem[e], frame'[e] = frame[e],
         stage[e] = "opened" => rc'[e] = rc[e]
  PROVE  FrameOK(e)'
<1>1. PICK k : k = frame[e].of
  OBVIOUS
<1>2. CASE stage[e] \notin {"sealed", "got", "opened"}
  BY <1>2 DEF FrameOK
<1>3. CASE stage[e] \in {"sealed", "got", "opened"}
  <2>1. k \in 1..Len(sealed) /\ k \in 1..Len(sealed') /\ sealed'[k] = sealed[k]
    BY <1>1, <1>3 DEF FrameOK, Grows
  <2>2. CASE stage[e] = "sealed"
    <3>1. Holds(mem[e], q[e].get, q[e].put - q[e].get, sealed[k], k)
      BY <1>1, <2>2 DEF FrameOK
    <3>2. q'[e].get = q[e].get
      BY <2>2
    <3>3. Holds(mem[e], q[e].get, q[e].put - q[e].get, sealed[frame[e].of], frame[e].of)'
      BY <1>1, <2>1, <3>1, <3>2
    <3>4. QED
      BY <1>1, <2>1, <2>2, <3>3 DEF FrameOK
  <2>3. CASE stage[e] = "got"
    <3>1. CASE frame[e].intact
      <4>1. Holds(mem[e], frame[e].start, q[e].put - frame[e].start, sealed[k], k)
        BY <1>1, <2>3, <3>1 DEF FrameOK
      <4>2. Holds(mem[e], frame[e].start, q[e].put - frame[e].start, sealed[frame[e].of], frame[e].of)'
        BY <1>1, <2>1, <4>1
      <4>3. QED
        BY <1>1, <2>1, <2>3, <3>1, <4>2 DEF FrameOK
    <3>2. CASE ~frame[e].intact
      <4>1. Spoilt(mem[e], frame[e].start, q[e].put - frame[e].start)
        BY <2>3, <3>2 DEF FrameOK
      <4>2. Spoilt(mem[e], frame[e].start, q[e].put - frame[e].start)'
        BY <4>1 DEF Spoilt
      <4>3. QED
        BY <1>1, <2>1, <2>3, <3>2, <4>2 DEF FrameOK
    <3>3. QED
      BY <3>1, <3>2
  <2>4. CASE stage[e] = "opened"
    <3>1. Exact(e)
      BY <2>4 DEF FrameOK
    <3>2. Bytes(mem[e], q[e].get, q[e].put - q[e].get)' = Bytes(mem[e], q[e].get, q[e].put - q[e].get)
      BY <2>4 DEF Bytes
    <3>3. rc'[e] = rc[e] /\ sealed'[frame'[e].of] = sealed[frame[e].of]
      BY <1>1, <2>1, <2>4
    <3>4. Exact(e)'
      BY <3>1, <3>2, <3>3 DEF Exact
    <3>5. QED
      BY <1>1, <2>1, <2>4, <3>4 DEF FrameOK
  <2>5. QED
    BY <1>3, <2>2, <2>3, <2>4
<1>4. QED
  BY <1>2, <1>3

LEMMA AirStays ==
  ASSUME NEW f, AirOK(f), Grows
  PROVE  AirOK(f)'
<1>1. PICK k : k = f.of
  OBVIOUS
<1>2. k \in 1..Len(sealed') /\ sealed'[k] = sealed[k]
  BY <1>1 DEF AirOK, Grows
<1>3. QED
  BY <1>1, <1>2 DEF AirOK, Holds

(* A step that sends nothing and seals nothing.                              *)
LEMMA OpenOthers ==
  ASSUME OpenInv, NEW d \in Device, Alone(d), Grows, FrameOK(d)',
         sealed' = sealed, air' = air
  PROVE  OpenInv'
<1>1. ASSUME NEW e \in Device, e # d
      PROVE  FrameOK(e)'
  BY <1>1, FrameStays DEF OpenInv, Alone
<1>2. \A f \in air' : AirOK(f)'
  BY AirStays DEF OpenInv
<1>3. \A k \in 1..Len(sealed') : Sequence(sealed'[k].plain)
  BY DEF OpenInv
<1>4. \A e \in Device : FrameOK(e)'
  BY <1>1
<1>5. QED
  BY <1>2, <1>3, <1>4 DEF OpenInv

LEMMA OpenInit ==
  Init => OpenInv
<1>1. SUFFICES ASSUME Init
               PROVE  OpenInv
  OBVIOUS
<1>2. \A d \in Device : FrameOK(d)
  BY <1>1 DEF Init, FrameOK
<1>3. 1..Len(sealed) = {} /\ air = {}
  BY <1>1 DEF Init
<1>4. QED
  BY <1>2, <1>3 DEF OpenInv

(* Up to the sealing, and after the frame is done with, there is nothing to  *)
(* hold.                                                                     *)
LEMMA OpenBefore ==
  ASSUME TypeInv, OpenInv, NEW d \in Device, Alone(d), Grows,
         Begin(d) \/ Numbers(d) \/ Payload(d) \/ Refuses(d) \/ Done(d)
  PROVE  OpenInv'
<1>1. stage'[d] \notin {"sealed", "got", "opened"} /\ sealed' = sealed /\ air' = air
  BY DEF Begin, Numbers, Payload, Refuses, Done, Goes, TypeInv, TypeOK
<1>2. FrameOK(d)'
  BY <1>1 DEF FrameOK
<1>3. QED
  BY <1>1, <1>2, OpenOthers

LEMMA OpenKeeps ==
  ASSUME TypeInv, OpenInv, NEW d \in Device, Alone(d), Grows,
         auth_init(d) \/ auth_deinit(d) \/ Passes(d) \/ Retry(d)
  PROVE  OpenInv'
<1>1. /\ stage'[d] = stage[d] /\ mem'[d] = mem[d] /\ frame'[d] = frame[d]
      /\ sealed' = sealed /\ air' = air
  BY DEF auth_init, auth_deinit, Passes, Retry, queue
<1>2. q'[d].put = q[d].put
  BY DEF auth_init, auth_deinit, Passes, Retry, queue, TypeInv, TypeOK
<1>3. stage[d] # "got" => q'[d].get = q[d].get /\ rc'[d] = rc[d]
  BY DEF auth_init, auth_deinit, Passes, Retry, queue
<1>4. FrameOK(d)'
  <2>1. FrameOK(d)
    BY DEF OpenInv
  <2>2. stage[d] = "opened" => rc'[d] = rc[d]
    BY <1>3
  <2>3. QED
    BY <1>1, <1>2, <1>3, <2>1, <2>2, FrameStays
<1>5. QED
  BY <1>1, <1>4, OpenOthers

LEMMA OpenTransmit ==
  ASSUME TypeInv, OpenInv, NEW d \in Device, Alone(d), Grows, Transmit(d)
  PROVE  OpenInv'
<1>1. PICK f : /\ air' = air \cup {f} /\ f.of = frame[d].of
               /\ f.bytes = Bytes(mem[d], q[d].get, q[d].put - q[d].get)
  <2>1. PICK f : /\ air' = air \cup {f}
                 /\ f = [of |-> frame[d].of, bytes |-> Bytes(mem[d], q[d].get, q[d].put - q[d].get)]
    BY DEF Transmit
  <2>2. f.of = frame[d].of /\ f.bytes = Bytes(mem[d], q[d].get, q[d].put - q[d].get)
    BY <2>1
  <2>3. QED
    BY <2>1, <2>2
<1>2. stage[d] = "sealed" /\ stage'[d] = "idle" /\ sealed' = sealed
  BY DEF Transmit, Goes, TypeInv, TypeOK
<1>3. PICK k : k = frame[d].of /\ k \in 1..Len(sealed)
  BY <1>2 DEF OpenInv, FrameOK
<1>4. PICK l \in Nat : l = q[d].put - q[d].get
  BY CursorsAt
<1>5. Holds(mem[d], q[d].get, l, sealed[k], k)
  BY <1>2, <1>3, <1>4 DEF OpenInv, FrameOK
<1>6. q[d].get \in Int /\ Len(sealed[k].plain) \in Nat
  BY <1>3, CursorsAt, SeqLen DEF OpenInv
<1>7. Len(f.bytes) = l
  BY <1>1, <1>4, <1>6, SeqBytes
<1>8. Holds(f.bytes, 1, Len(f.bytes), sealed[k], k)
  BY <1>1, <1>4, <1>5, <1>6, <1>7, HoldsSequence
<1>9. AirOK(f)
  BY <1>1, <1>3, <1>8 DEF AirOK
<1>10. \A g \in air' : AirOK(g)'
  BY <1>1, <1>9, AirStays DEF OpenInv
<1>11. FrameOK(d)'
  BY <1>2 DEF FrameOK
<1>12. ASSUME NEW e \in Device, e # d
       PROVE  FrameOK(e)'
  BY <1>12, FrameStays DEF OpenInv, Alone
<1>13. \A e \in Device : FrameOK(e)'
  BY <1>11, <1>12
<1>14. \A j \in 1..Len(sealed') : Sequence(sealed'[j].plain)
  BY <1>2 DEF OpenInv
<1>15. QED
  BY <1>10, <1>13, <1>14 DEF OpenInv

LEMMA OpenReceive ==
  ASSUME TypeInv, OpenInv, NEW d \in Device, Alone(d), Grows, Receive(d)
  PROVE  OpenInv'
<1>1. PICK f \in air, s \in Starts(d) : \E b \in Arrivals(f) : Receives(d, f, s, b)
  BY ReceiveIs
<1>2. PICK b \in Arrivals(f) : Receives(d, f, s, b)
  BY <1>1
<1>3. Sequence(f.bytes) /\ Sequence(b) /\ s \in Nat /\ AirOK(f)
  BY SeqArrives, StartsIs DEF TypeInv, OpenInv
<1>4. PICK l \in Nat : l = Len(b) /\ l >= 11 /\ s + l <= Alloc
  BY <1>2, <1>3, SeqLen DEF Receives
<1>5. PICK i \in BOOLEAN :
        /\ i <=> b = f.bytes
        /\ frame' = [frame EXCEPT ![d] = [start |-> s, of |-> f.of, intact |-> i, key |-> Wiped]]
  BY <1>2 DEF Receives
<1>6. frame'[d].start = s /\ frame'[d].of = f.of /\ frame'[d].intact = i
  <2>1. PICK g : g = [start |-> s, of |-> f.of, intact |-> i, key |-> Wiped]
    OBVIOUS
  <2>2. g.start = s /\ g.of = f.of /\ g.intact = i
    BY <2>1
  <2>3. frame'[d] = g
    BY <1>5, <2>1 DEF TypeInv
  <2>4. QED
    BY <2>2, <2>3
<1>7. /\ stage'[d] = "got" /\ sealed' = sealed /\ air' = air
      /\ q'[d].put - s = l /\ mem'[d] = Written(mem[d], s, b)
  <2>1. stage'[d] = "got" /\ sealed' = sealed /\ air' = air
    BY <1>2 DEF Receives, Goes, TypeInv, TypeOK
  <2>2. q'[d].put = s + l
    BY <1>2, <1>4 DEF Receives, TypeInv, TypeOK
  <2>3. mem'[d] = Written(mem[d], s, b)
    BY <1>2 DEF Receives, TypeInv
  <2>4. QED
    BY <1>3, <2>1, <2>2, <2>3
<1>8. PICK k \in 1..Len(sealed) : k = f.of
  BY <1>3 DEF AirOK
<1>9. /\ Holds(f.bytes, 1, Len(f.bytes), sealed[k], k) /\ Len(sealed[k].plain) \in Nat
  BY <1>3, <1>8, SeqLen DEF AirOK, OpenInv
<1>10. Len(b) \in Nat /\ s + Len(b) <= Alloc /\ Len(b) >= 11
  BY <1>4
<1>11. PICK w : w = Written(mem[d], s, b)
  OBVIOUS
<1>12. i => Holds(w, s, l, sealed[k], k)
  <2>1. SUFFICES ASSUME b = f.bytes
                 PROVE  Holds(w, s, l, sealed[k], k)
    BY <1>5
  <2>2. Holds(b, 1, Len(b), sealed[k], k)
    BY <1>9, <2>1
  <2>3. QED
    BY <1>3, <1>4, <1>9, <1>10, <1>11, <2>2, HoldsWritten
<1>13. ~i => Spoilt(w, s, l)
  <2>1. SUFFICES ASSUME b # f.bytes
                 PROVE  Spoilt(w, s, l)
    BY <1>5
  <2>2. Spoilt(b, 1, Len(b))
    BY <1>3, <1>9, <1>10, <2>1, ArrivesSpoilt
  <2>3. QED
    BY <1>3, <1>4, <1>9, <1>10, <1>11, <2>2, HoldsWritten
<1>14. FrameOK(d)'
  <2>1. frame'[d].of \in 1..Len(sealed')
    BY <1>6, <1>7, <1>8
  <2>2. i => Holds(mem[d], frame[d].start, q[d].put - frame[d].start, sealed[frame[d].of], frame[d].of)'
    BY <1>6, <1>7, <1>8, <1>11, <1>12 DEF Holds
  <2>3. ~i => Spoilt(mem[d], frame[d].start, q[d].put - frame[d].start)'
    BY <1>6, <1>7, <1>11, <1>13 DEF Spoilt
  <2>4. QED
    BY <1>6, <1>7, <2>1, <2>2, <2>3 DEF FrameOK
<1>15. QED
  BY <1>7, <1>14, OpenOthers

LEMMA OpenSeals ==
  ASSUME TypeInv, OpenInv, NEW d \in Device, Alone(d), Grows, Seals(d)
  PROVE  OpenInv'
<1>1. PICK key \in Key \cup {Wiped} :
        /\ Goes(d, "plain", "sealed")
        /\ EAXdrv_encrypt(d, q[d].get, q[d].get + 7, Length(d), key)
        /\ q' = [q EXCEPT ![d].put = @ + 4]
        /\ UNCHANGED <<build, device, rc, air>>
  BY DEF Seals
<1>2. stage[d] = "plain" /\ stage'[d] = "sealed" /\ air' = air
  BY <1>1 DEF Goes, TypeInv, TypeOK
<1>3. PICK p \in Nat, n \in Nat : /\ p = q[d].get /\ n = Length(d) /\ p + n + 11 <= Alloc
                                  /\ q[d].put = p + 7 + n
  <2>1. /\ q[d].get \in Int /\ q[d].put \in Int /\ q[d].back \in Int /\ Alloc \in Nat
        /\ 0 <= q[d].get /\ q[d].get + 7 <= q[d].put /\ q[d].put + 4 <= q[d].back /\ q[d].back <= Alloc
    BY <1>2, CursorsAt, CryptAssumption DEF Cursors
  <2>2. /\ q[d].get \in Nat /\ Length(d) \in Nat /\ q[d].get + Length(d) + 11 <= Alloc
        /\ q[d].put = q[d].get + 7 + Length(d)
    BY <2>1 DEF Length
  <2>3. QED
    BY <2>2
<1>4. PICK k \in Nat : k = Len(sealed) + 1
  BY SeqLen DEF TypeInv
<1>5. PICK x : /\ sealed' = Append(sealed, x) /\ x.iv = Bytes(mem[d], p, 7)
               /\ x.plain = Bytes(mem[d], p + 7, n)
  <2>1. PICK x : /\ sealed' = Append(sealed, x)
                 /\ x = [key |-> key, iv |-> Bytes(mem[d], p, 7), plain |-> Bytes(mem[d], p + 7, n)]
    BY <1>1, <1>3 DEF EAXdrv_encrypt
  <2>2. x.iv = Bytes(mem[d], p, 7) /\ x.plain = Bytes(mem[d], p + 7, n)
    BY <2>1
  <2>3. QED
    BY <2>1, <2>2
<1>6. PICK w : w = Written(mem[d], p + 7, Cipher(k, n))
  OBVIOUS
<1>7. mem'[d] = w /\ frame'[d].of = k /\ q'[d].get = p /\ q'[d].put - p = n + 11
  <2>1. mem'[d] = w
    BY <1>1, <1>3, <1>4, <1>6 DEF EAXdrv_encrypt, TypeInv
  <2>2. frame'[d].of = k
    <3>1. frame' = [frame EXCEPT ![d].of = k] /\ frame[d] \in FrameRecord
      BY <1>1, <1>4, FrameKept DEF EAXdrv_encrypt
    <3>2. frame'[d] = [frame[d] EXCEPT !.of = k]
      BY <3>1 DEF TypeInv
    <3>3. QED
      BY <3>1, <3>2 DEF FrameRecord
  <2>3. q'[d].get = p /\ q'[d].put = q[d].put + 4
    BY <1>1, <1>3 DEF TypeInv, TypeOK
  <2>4. QED
    BY <1>3, <2>1, <2>2, <2>3
<1>8. Sequence(x.plain) /\ Len(x.plain) = n
  BY <1>3, <1>5, SeqBytes
<1>9. Len(sealed') = k /\ sealed'[k] = x /\ \A i \in 1..Len(sealed) : sealed'[i] = sealed[i]
  BY <1>4, <1>5, SeqAppend DEF TypeInv
<1>10. Holds(w, p, n + 11, x, k)
  BY <1>3, <1>5, <1>6, <1>8, SealHolds
<1>11. FrameOK(d)'
  <2>1. k \in 1..Len(sealed')
    <3>1. Len(sealed) \in Nat
      BY SeqLen DEF TypeInv
    <3>2. QED
      BY <1>4, <1>9, <3>1
  <2>2. Holds(mem[d], q[d].get, q[d].put - q[d].get, sealed[frame[d].of], frame[d].of)'
    BY <1>7, <1>9, <1>10 DEF Holds
  <2>3. QED
    BY <1>2, <1>7, <2>1, <2>2 DEF FrameOK
<1>12. ASSUME NEW j \in 1..Len(sealed')
       PROVE  Sequence(sealed'[j].plain)
  <2>1. j = k \/ j \in 1..Len(sealed)
    <3>1. Len(sealed) \in Nat
      BY SeqLen DEF TypeInv
    <3>2. QED
      BY <1>4, <1>9, <3>1
  <2>2. QED
    BY <1>8, <1>9, <2>1 DEF OpenInv
<1>13. ASSUME NEW e \in Device, e # d
       PROVE  FrameOK(e)'
  BY <1>13, FrameStays DEF OpenInv, Alone
<1>14. \A e \in Device : FrameOK(e)'
  BY <1>11, <1>13
<1>15. \A f \in air' : AirOK(f)'
  BY <1>2, AirStays DEF OpenInv
<1>16. QED
  BY <1>12, <1>14, <1>15 DEF OpenInv

LEMMA OpenUnseals ==
  ASSUME TypeInv, IvInv, OpenInv, NEW d \in Device, Alone(d), Grows, Unseals(d)
  PROVE  OpenInv'
<1>1. PICK key \in Key \cup {Wiped}, ok \in BOOLEAN :
        /\ ok <=> Opens(d, q[d].get, q[d].get + 7, Length(d) - 4, key) # {}
        /\ q[d].get = frame[d].start
        /\ Goes(d, "got", "opened")
        /\ EAXdrv_decrypt(d, q[d].get, q[d].get + 7, Length(d) - 4, key)
        /\ q' = [q EXCEPT ![d] = [get |-> q[d].get + 7, put |-> q[d].put - (IF ok THEN 4 ELSE 0),
                                  back |-> q[d].back - (IF ok THEN 4 ELSE 0)]]
        /\ rc' = [rc EXCEPT ![d] = IF ok THEN 4 ELSE -2]
        /\ frame' = [frame EXCEPT ![d].key = key]
        /\ UNCHANGED <<build, device, sealed, air>>
  BY DEF Unseals
<1>2. stage[d] = "got" /\ stage'[d] = "opened" /\ sealed' = sealed /\ air' = air
  BY <1>1 DEF Goes, TypeInv, TypeOK
<1>3. PICK p \in Nat, n \in Nat :
        /\ p = q[d].get /\ p = frame[d].start /\ n = Length(d) - 4 /\ q[d].put = p + n + 11
        /\ q[d].put - p = n + 11 /\ p + 7 + n <= Alloc
  <2>1. /\ q[d].get \in Int /\ q[d].put \in Int /\ q[d].back \in Int /\ Alloc \in Nat
        /\ 0 <= q[d].get /\ q[d].get + 11 <= q[d].put /\ q[d].put <= q[d].back /\ q[d].back <= Alloc
    BY <1>1, <1>2, CursorsAt, CryptAssumption DEF Cursors
  <2>2. /\ q[d].get \in Nat /\ Length(d) - 4 \in Nat /\ q[d].put = q[d].get + (Length(d) - 4) + 11
        /\ q[d].put - q[d].get = (Length(d) - 4) + 11 /\ q[d].get + 7 + (Length(d) - 4) <= Alloc
    BY <2>1 DEF Length
  <2>3. QED
    BY <1>1, <2>2
<1>4. PICK k \in 1..Len(sealed) : k = frame[d].of
  BY <1>2 DEF OpenInv, FrameOK
<1>5. PICK ks : ks = Opens(d, p, p + 7, n, key)
  OBVIOUS
<1>6. ok <=> ks # {}
  BY <1>1, <1>3, <1>5
<1>7. /\ frame'[d].of = k /\ frame'[d].key = key /\ (frame'[d].intact <=> frame[d].intact)
  <2>1. frame' = [frame EXCEPT ![d].key = key] /\ frame[d] \in FrameRecord
    BY <1>1, FrameKept
  <2>2. frame'[d] = [frame[d] EXCEPT !.key = key]
    BY <2>1 DEF TypeInv
  <2>3. QED
    BY <1>4, <2>1, <2>2 DEF FrameRecord
<1>8. rc'[d] = 4 <=> ok
  <2>1. rc'[d] = IF ok THEN 4 ELSE -2
    BY <1>1 DEF TypeInv
  <2>2. QED
    BY <2>1
<1>9. frame[d].intact => ks = IF sealed[k].key = key THEN {k} ELSE {}
  <2>1. SUFFICES ASSUME frame[d].intact
                 PROVE  ks = IF sealed[k].key = key THEN {k} ELSE {}
    OBVIOUS
  <2>2. Holds(mem[d], p, n + 11, sealed[k], k)
    BY <1>2, <1>3, <1>4, <2>1 DEF OpenInv, FrameOK
  <2>3. p \in Int
    BY <1>3
  <2>4. Opens(d, p, p + 7, n, key) = IF sealed[k].key = key THEN {k} ELSE {}
    BY <2>2, <2>3, OpensOne
  <2>5. QED
    BY <1>5, <2>4
<1>10. ~frame[d].intact => ks = {}
  <2>1. SUFFICES ASSUME ~frame[d].intact
                 PROVE  ks = {}
    OBVIOUS
  <2>2. Spoilt(mem[d], p, n + 11)
    BY <1>2, <1>3, <1>4, <2>1 DEF OpenInv, FrameOK
  <2>3. QED
    BY <1>5, <2>2, OpensNone
<1>11. rc'[d] = 4 <=> frame'[d].intact /\ frame'[d].key = sealed'[frame'[d].of].key
  BY <1>2, <1>6, <1>7, <1>8, <1>9, <1>10
<1>12. ASSUME ok
       PROVE  Bytes(mem[d], q[d].get, q[d].put - q[d].get)' = sealed[k].plain
  <2>1. ks = {k} /\ frame[d].intact
    BY <1>6, <1>9, <1>10, <1>12
  <2>2. PICK s : s = sealed[k].plain /\ Sequence(s)
    BY DEF OpenInv
  <2>3. Len(s) = n
    <3>1. Holds(mem[d], p, n + 11, sealed[k], k)
      BY <1>2, <1>3, <1>4, <2>1 DEF OpenInv, FrameOK
    <3>2. n + 11 = Len(s) + 11 /\ Len(s) \in Nat
      BY <2>2, <3>1, SeqLen DEF Holds
    <3>3. QED
      BY <3>2
  <2>4. (CHOOSE j \in ks : TRUE) = k
    BY <2>1
  <2>5. mem'[d] = Written(mem[d], p + 7, s)
    <3>1. EAXdrv_decrypt(d, p, p + 7, n, key)
      BY <1>1, <1>3
    <3>2. mem' = [mem EXCEPT ![d] =
                    Written(@, p + 7, IF ks # {} THEN sealed[CHOOSE j \in ks : TRUE].plain
                                      ELSE [i \in 1..n |-> <<"junk">>])]
      BY <1>5, <3>1 DEF EAXdrv_decrypt
    <3>3. mem' = [mem EXCEPT ![d] = Written(@, p + 7, s)]
      BY <2>1, <2>2, <2>4, <3>2
    <3>4. QED
      BY <3>3 DEF TypeInv
  <2>6. q'[d].get = p + 7 /\ q'[d].put - q'[d].get = n
    <3>1. q' = [q EXCEPT ![d] = [get |-> q[d].get + 7, put |-> q[d].put - 4, back |-> q[d].back - 4]]
      BY <1>1, <1>12
    <3>2. q'[d].get = q[d].get + 7 /\ q'[d].put = q[d].put - 4
      BY <3>1 DEF TypeInv, TypeOK
    <3>3. q'[d].get = p + 7 /\ q'[d].put = (p + n + 11) - 4
      BY <1>3, <3>2
    <3>4. (p + n + 11) - 4 - (p + 7) = n
      OBVIOUS
    <3>5. QED
      BY <3>3, <3>4
  <2>7. Bytes(Written(mem[d], p + 7, s), p + 7, Len(s)) = [i \in 1..Len(s) |-> s[i]]
    <3>1. p + 7 + n <= Alloc
      BY <1>3
    <3>2. p + 7 \in Nat /\ Len(s) \in Nat /\ p + 7 + Len(s) <= Alloc
      BY <2>3, <3>1
    <3>3. QED
      BY <3>2, BytesWritten
  <2>8. s = [i \in 1..Len(s) |-> s[i]]
    BY <2>2, SeqLen
  <2>9. Bytes(mem[d], q[d].get, q[d].put - q[d].get)' = Bytes(mem'[d], p + 7, n)
    BY <2>6
  <2>10. QED
    BY <2>2, <2>3, <2>5, <2>7, <2>8, <2>9
<1>13. FrameOK(d)'
  <2>1. Exact(d)'
    BY <1>2, <1>7, <1>8, <1>11, <1>12 DEF Exact
  <2>2. frame'[d].of \in 1..Len(sealed')
    BY <1>2, <1>7
  <2>3. QED
    BY <1>2, <2>1, <2>2 DEF FrameOK
<1>14. QED
  BY <1>2, <1>13, OpenOthers

LEMMA OpenStep ==
  TypeInv /\ IvInv /\ OpenInv /\ [Next]_vars => OpenInv'
<1>1. SUFFICES ASSUME TypeInv, IvInv, OpenInv, [Next]_vars
               PROVE  OpenInv'
  OBVIOUS
<1>2. CASE Next
  <2>1. PICK d \in Device : Step(d)
    BY <1>1, <1>2, StepIs
  <2>2. Alone(d) /\ Grows
    BY <1>1, <2>1, StepAlone, GrowsOne
  <2>3. QED
    BY <1>1, <2>1, <2>2, OpenBefore, OpenKeeps, OpenTransmit, OpenReceive, OpenSeals,
       OpenUnseals DEF Step
<1>3. CASE UNCHANGED vars
  <2>1. UNCHANGED <<build, dlls_size, dlls_nonce, dlls_ctx, q, mem, stage, frame, rc, sealed, air>>
    BY <1>3 DEF vars, device, queue
  <2>2. Grows
    BY <2>1 DEF Grows
  <2>3. \A e \in Device : FrameOK(e)'
    BY <1>1, <2>1, <2>2, FrameStays DEF OpenInv
  <2>4. \A f \in air' : AirOK(f)'
    BY <1>1, <2>1, <2>2, AirStays DEF OpenInv
  <2>5. QED
    BY <1>1, <2>1, <2>3, <2>4 DEF OpenInv
<1>4. QED
  BY <1>1, <1>2, <1>3

LEMMA Opening == Spec => []OpenInv
<1>1. QED
  BY OpenInit, OpenStep, Types, Ivs, PTL DEF Spec

(* auth_decrypt_q and auth_decrypt succeed exactly on what arrives as one of *)
(* the encrypting calls made it, with the key it was made with, between any  *)
(* two ports, and leave its data, and only its data, in the queue; what is   *)
(* cut short or changed on the way, and what another key made, they refuse.  *)
THEOREM DecryptionIsExact == Spec => []OpensExact
<1>1. OpenInv => OpensExact
  BY DEF OpenInv, FrameOK, Exact, OpensExact
<1>2. QED
  BY <1>1, Opening, PTL
=============================================================================
